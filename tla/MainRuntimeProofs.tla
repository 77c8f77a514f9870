-------------------------- MODULE MainRuntimeProofs --------------------------
(* What the runtime manager promises, for any processes, plans, evidence values, retry limits  *)
(* and numbers of crashes: first what the recursive ordering of a plan returns, then the       *)
(* invariant of the runs.                                                                      *)
EXTENDS MainRuntime, FiniteSetTheorems, WellFoundedInduction, NaturalsInduction, TLAPS

------------------------------------------------------------------------------
(* Induction over the numbers *)

\* A set that has 0 and with each number the next has every number.
LEMMA EveryNat ==
    ASSUME NEW S, 0 \in S, \A n \in Nat : n \in S => n + 1 \in S
    PROVE  \A n \in Nat : n \in S
  <1> SUFFICES ASSUME Nat \ S # {} PROVE FALSE
    OBVIOUS
  <1>1. PICK x \in Nat \ S : \A y \in Nat \ S : ~ (<<y, x>> \in OpToRel(<, Nat))
    BY NatLessThanWellFounded, WFMin
  <1>2. \A y \in Nat \ S : ~ (y < x)
    BY <1>1 DEF OpToRel
  <1>3. x # 0 /\ x - 1 \in Nat /\ x - 1 < x /\ (x - 1) + 1 = x
    OBVIOUS
  <1>4. x - 1 \in S
    BY <1>2, <1>3
  <1> QED BY <1>3, <1>4

(* visit, unfolded *)

\* The states after the first k of the tasks ids.
AfterEach(visit, ids, s, k, after) ==
    after = [i \in 0..k |->
               IF i = 0 THEN s
               ELSE IF after[i - 1].cycle THEN after[i - 1]
               ELSE visit[<<ids[i], after[i - 1]>>]]

\* There are such states.
LEMMA AfterExists ==
    ASSUME NEW visit, NEW ids, NEW s
    PROVE  \A k \in Nat : \E after : AfterEach(visit, ids, s, k, after)
  <1> DEFINE S == {k \in Nat : \E after : AfterEach(visit, ids, s, k, after)}
  <1>1. 0 \in S
    <2> DEFINE g == [i \in 0..0 |-> s]
    <2>1. g = [i \in 0..0 |-> IF i = 0 THEN s
                              ELSE IF g[i - 1].cycle THEN g[i - 1]
                              ELSE visit[<<ids[i], g[i - 1]>>]]
      OBVIOUS
    <2>2. AfterEach(visit, ids, s, 0, g)
      BY <2>1 DEF AfterEach
    <2> QED BY <2>2
  <1>2. ASSUME NEW k \in Nat, k \in S PROVE k + 1 \in S
    <2>1. PICK h : AfterEach(visit, ids, s, k, h)
      BY <1>2
    <2> DEFINE new == IF h[k].cycle THEN h[k] ELSE visit[<<ids[k + 1], h[k]>>]
               g == [i \in 0..k+1 |-> IF i <= k THEN h[i] ELSE new]
    <2>2. \A i \in 0..k : h[i] = IF i = 0 THEN s
                                 ELSE IF h[i - 1].cycle THEN h[i - 1]
                                 ELSE visit[<<ids[i], h[i - 1]>>]
      BY <2>1 DEF AfterEach
    <2>3. \A i \in 0..k+1 : g[i] = IF i = 0 THEN s
                                   ELSE IF g[i - 1].cycle THEN g[i - 1]
                                   ELSE visit[<<ids[i], g[i - 1]>>]
      <3> TAKE i \in 0..k+1
      <3>1. CASE i <= k
        <4>1. i \in 0..k /\ g[i] = h[i] /\ (i # 0 => g[i - 1] = h[i - 1])
          BY <3>1
        <4> HIDE DEF g
        <4> QED BY <4>1, <2>2
      <3>2. CASE i = k + 1
        <4>1. i # 0 /\ i - 1 = k /\ g[i] = new /\ g[i - 1] = h[k]
          BY <3>2
        <4> HIDE DEF g
        <4> QED BY <4>1, <3>2
      <3> QED BY <3>1, <3>2
    <2>4. g = [i \in 0..k+1 |-> IF i = 0 THEN s
                                ELSE IF g[i - 1].cycle THEN g[i - 1]
                                ELSE visit[<<ids[i], g[i - 1]>>]]
      <3> DEFINE e(i) == IF i = 0 THEN s
                         ELSE IF g[i - 1].cycle THEN g[i - 1]
                         ELSE visit[<<ids[i], g[i - 1]>>]
      <3>1. \A i \in 0..k+1 : g[i] = e(i)
        BY <2>3
      <3>2. g = [i \in 0..k+1 |-> g[i]]
        OBVIOUS
      <3> HIDE DEF g, e
      <3>3. g = [i \in 0..k+1 |-> e(i)]
        BY <3>1, <3>2
      <3> QED BY <3>3 DEF e
    <2> HIDE DEF g
    <2>5. AfterEach(visit, ids, s, k + 1, g)
      BY <2>4 DEF AfterEach
    <2> QED BY <2>5
  <1> HIDE DEF S
  <1>3. \A k \in Nat : k \in S
    BY <1>1, <1>2, EveryNat
  <1> QED BY <1>3 DEF S

\* VisitAll is the last of them.
LEMMA VisitAllUnfold ==
    ASSUME NEW visit, NEW ids, Len(ids) \in Nat, NEW s
    PROVE  \E after : /\ AfterEach(visit, ids, s, Len(ids), after)
                      /\ VisitAll(visit, ids, s) = after[Len(ids)]
  <1> DEFINE P(h) == AfterEach(visit, ids, s, Len(ids), h)
  <1>1. PICK g : P(g)
    BY AfterExists
  <1>2. VisitAll(visit, ids, s) = (CHOOSE h : P(h))[Len(ids)]
    BY Zenon DEF VisitAll, AfterEach
  <1> HIDE DEF P
  <1>3. P(CHOOSE h : P(h))
    BY <1>1, Zenon
  <1> DEFINE after == CHOOSE h : P(h)
  <1>4. P(after) /\ VisitAll(visit, ids, s) = after[Len(ids)]
    BY <1>2, <1>3, Zenon
  <1> HIDE DEF after
  <1> QED BY <1>4 DEF P

(* The visits of a loop, one after the other *)

Named(pl) == ToSet(pl.tasks)

\* An order without repetition that puts dependencies first.
Sound(pl, q) == DependenciesFirst(pl, q) /\ IsInjective(q)

\* What a visit without an exception does to the order: it adds tasks of the plan, none of
\* them one that is being visited, and keeps the order sound.
Extended(pl, s, r) ==
    /\ ~s.cycle /\ r.visiting = s.visiting
    /\ ToSet(s.ordered) \subseteq ToSet(r.ordered)
    /\ ToSet(r.ordered) \subseteq ToSet(s.ordered) \cup Named(pl)
    /\ ToSet(r.ordered) \cap s.visiting \subseteq ToSet(s.ordered)
    /\ Sound(pl, s.ordered) => Sound(pl, r.ordered)

\* Each task that is being visited waits for another one of them, or for id.
Leads(pl, visiting, id) ==
    /\ visiting \subseteq Named(pl)
    /\ \A t \in visiting : \E d \in visiting \cup {id} : d \in ToSet(pl.depends_on[t])

\* visit(id) puts the task into the order or raises, and raises because of a cycle.
CallOutcome(pl, id, s, r) ==
    /\ r \in VisitState
    /\ ~r.cycle => Extended(pl, s, r) /\ id \in ToSet(r.ordered)
    /\ r.cycle /\ ~s.cycle /\ Leads(pl, s.visiting, id) => HasCycle(pl)

\* So do the visits of the first k of the tasks ids.
LoopOutcome(pl, ids, k, s, r) ==
    /\ r \in VisitState
    /\ ~r.cycle => Extended(pl, s, r) /\ \A i \in 1..k : ids[i] \in ToSet(r.ordered)
    /\ r.cycle /\ ~s.cycle /\ (\A i \in DOMAIN ids : Leads(pl, s.visiting, ids[i]))
         => HasCycle(pl)

\* visit does what it should when the tasks visiting are being visited.
CallsGood(pl, visit, visiting) ==
    \A d \in Named(pl), s \in VisitState :
      s.visiting = visiting => CallOutcome(pl, d, s, visit[<<d, s>>])

\* One visit after another.
LEMMA ExtendedTwice ==
    ASSUME NEW pl, NEW s, NEW a, NEW r, Extended(pl, s, a), Extended(pl, a, r)
    PROVE  Extended(pl, s, r)
  BY DEF Extended

\* Nothing is visited.
LEMMA ExtendedNot ==
    ASSUME NEW pl, NEW s \in VisitState, ~s.cycle
    PROVE  Extended(pl, s, s)
  BY DEF Extended, VisitState

\* One more visit of the loop.
LEMMA LoopVisit ==
    ASSUME NEW pl, NEW visit, NEW ids \in Seq(Named(pl)), NEW s \in VisitState,
           CallsGood(pl, visit, s.visiting), NEW k \in Nat, k + 1 \in DOMAIN ids,
           NEW a, LoopOutcome(pl, ids, k, s, a), ~a.cycle
    PROVE  LoopOutcome(pl, ids, k + 1, s, visit[<<ids[k + 1], a>>])
  <1> DEFINE id == ids[k + 1]
             r == visit[<<id, a>>]
  <1>1. id \in Named(pl)
    OBVIOUS
  <1>2. a \in VisitState /\ Extended(pl, s, a)
    BY DEF LoopOutcome
  <1>3. a.visiting = s.visiting /\ ~s.cycle
    BY <1>2 DEF Extended
  <1> HIDE DEF id
  <1>4. CallOutcome(pl, id, a, r)
    BY <1>1, <1>2, <1>3 DEF CallsGood
  <1> HIDE DEF r
  <1>5. r \in VisitState
    BY <1>4 DEF CallOutcome
  <1>6. ASSUME ~r.cycle
        PROVE  Extended(pl, s, r) /\ \A i \in 1..k+1 : ids[i] \in ToSet(r.ordered)
    <2>1. Extended(pl, a, r) /\ id \in ToSet(r.ordered)
      BY <1>4, <1>6 DEF CallOutcome
    <2>2. Extended(pl, s, r)
      BY <1>2, <2>1, ExtendedTwice
    <2>3. ToSet(a.ordered) \subseteq ToSet(r.ordered)
      BY <2>1 DEF Extended
    <2>4. \A i \in 1..k : ids[i] \in ToSet(a.ordered)
      BY DEF LoopOutcome
    <2>5. ASSUME NEW i \in 1..k+1 PROVE ids[i] \in ToSet(r.ordered)
      <3>1. CASE i \in 1..k
        BY <3>1, <2>3, <2>4
      <3>2. CASE i = k + 1
        BY <3>2, <2>1 DEF id
      <3> QED BY <3>1, <3>2
    <2> QED BY <2>2, <2>5
  <1>7. ASSUME r.cycle, \A i \in DOMAIN ids : Leads(pl, s.visiting, ids[i])
        PROVE  HasCycle(pl)
    <2>1. Leads(pl, a.visiting, id)
      BY <1>3, <1>7 DEF id
    <2>2. ~a.cycle
      OBVIOUS
    <2> QED BY <1>4, <1>7, <2>1, <2>2 DEF CallOutcome
  <1>8. LoopOutcome(pl, ids, k + 1, s, r)
    BY <1>5, <1>6, <1>7 DEF LoopOutcome
  <1> QED BY <1>8 DEF r, id

\* All the states of a loop.
LEMMA LoopStates ==
    ASSUME NEW pl, NEW visit, NEW ids \in Seq(Named(pl)), NEW s \in VisitState,
           CallsGood(pl, visit, s.visiting),
           NEW after, AfterEach(visit, ids, s, Len(ids), after)
    PROVE  \A k \in 0..Len(ids) : LoopOutcome(pl, ids, k, s, after[k])
  <1> DEFINE S == {k \in Nat : k <= Len(ids) => LoopOutcome(pl, ids, k, s, after[k])}
  <1>0. \A i \in 0..Len(ids) : after[i] = IF i = 0 THEN s
                                          ELSE IF after[i - 1].cycle THEN after[i - 1]
                                          ELSE visit[<<ids[i], after[i - 1]>>]
    BY DEF AfterEach
  <1>1. 0 \in S
    <2>1. after[0] = s
      <3>1. 0 \in 0..Len(ids)
        OBVIOUS
      <3> QED BY <3>1, <1>0
    <2>2. LoopOutcome(pl, ids, 0, s, s)
      BY ExtendedNot DEF LoopOutcome
    <2> QED BY <2>1, <2>2
  <1>2. ASSUME NEW k \in Nat, k \in S PROVE k + 1 \in S
    <2> SUFFICES ASSUME k + 1 <= Len(ids) PROVE LoopOutcome(pl, ids, k + 1, s, after[k + 1])
      OBVIOUS
    <2>1. LoopOutcome(pl, ids, k, s, after[k])
      BY <1>2
    <2>2. after[k + 1] = IF after[k].cycle THEN after[k] ELSE visit[<<ids[k + 1], after[k]>>]
      <3>1. k + 1 \in 0..Len(ids) /\ k + 1 # 0 /\ (k + 1) - 1 = k
        OBVIOUS
      <3> QED BY <3>1, <1>0
    <2>3. k + 1 \in DOMAIN ids
      OBVIOUS
    <2> HIDE DEF S
    <2>4. CASE after[k].cycle
      BY <2>1, <2>2, <2>4 DEF LoopOutcome
    <2>5. CASE ~after[k].cycle
      BY <2>1, <2>2, <2>3, <2>5, LoopVisit
    <2> QED BY <2>4, <2>5
  <1> HIDE DEF S
  <1>3. \A k \in Nat : k \in S
    BY <1>1, <1>2, EveryNat
  <1> QED BY <1>3 DEF S

\* What a loop leaves behind.
LEMMA VisitAllOutcome ==
    ASSUME NEW pl, NEW visit, NEW ids \in Seq(Named(pl)), NEW s \in VisitState,
           CallsGood(pl, visit, s.visiting)
    PROVE  LoopOutcome(pl, ids, Len(ids), s, VisitAll(visit, ids, s))
  <1>0. Len(ids) \in Nat
    OBVIOUS
  <1>1. PICK after : /\ AfterEach(visit, ids, s, Len(ids), after)
                     /\ VisitAll(visit, ids, s) = after[Len(ids)]
    BY <1>0, VisitAllUnfold
  <1>2. \A k \in 0..Len(ids) : LoopOutcome(pl, ids, k, s, after[k])
    BY <1>1, LoopStates
  <1> QED BY <1>0, <1>1, <1>2

\* The two do the same in these calls.
SameCalls(pl, visit, other, visiting) ==
    \A d \in Named(pl), s \in VisitState :
      s.visiting = visiting => other[<<d, s>>] = visit[<<d, s>>]

SameLoop(visit, other, ids, s) == VisitAll(other, ids, s) = VisitAll(visit, ids, s)

\* The loop calls visit in no other state than these.
LEMMA VisitAllSame ==
    ASSUME NEW pl, NEW visit, NEW ids \in Seq(Named(pl)), NEW s \in VisitState,
           CallsGood(pl, visit, s.visiting), NEW other,
           SameCalls(pl, visit, other, s.visiting)
    PROVE  SameLoop(visit, other, ids, s)
  <1>0. Len(ids) \in Nat
    OBVIOUS
  <1>1. PICK a : /\ AfterEach(visit, ids, s, Len(ids), a)
                 /\ VisitAll(visit, ids, s) = a[Len(ids)]
    BY <1>0, VisitAllUnfold
  <1>2. PICK b : /\ AfterEach(other, ids, s, Len(ids), b)
                 /\ VisitAll(other, ids, s) = b[Len(ids)]
    BY <1>0, VisitAllUnfold
  <1>3. \A k \in 0..Len(ids) : LoopOutcome(pl, ids, k, s, a[k])
    BY <1>1, LoopStates
  <1>4. \A i \in 0..Len(ids) : a[i] = IF i = 0 THEN s
                                      ELSE IF a[i - 1].cycle THEN a[i - 1]
                                      ELSE visit[<<ids[i], a[i - 1]>>]
    BY <1>1 DEF AfterEach
  <1>5. \A i \in 0..Len(ids) : b[i] = IF i = 0 THEN s
                                      ELSE IF b[i - 1].cycle THEN b[i - 1]
                                      ELSE other[<<ids[i], b[i - 1]>>]
    BY <1>2 DEF AfterEach
  <1> DEFINE S == {k \in Nat : k <= Len(ids) => b[k] = a[k]}
  <1>6. 0 \in S
    <2>1. 0 \in 0..Len(ids)
      BY <1>0
    <2>2. b[0] = a[0]
      BY <2>1, <1>4, <1>5
    <2> QED BY <2>2
  <1>7. ASSUME NEW k \in Nat, k \in S PROVE k + 1 \in S
    <2> SUFFICES ASSUME k + 1 <= Len(ids) PROVE b[k + 1] = a[k + 1]
      OBVIOUS
    <2>1. b[k] = a[k] /\ k \in 0..Len(ids) /\ k + 1 \in 0..Len(ids) /\ (k + 1) - 1 = k
      BY <1>7
    <2>2. ids[k + 1] \in Named(pl)
      OBVIOUS
    <2> HIDE DEF S
    <2>3. a[k + 1] = IF a[k].cycle THEN a[k] ELSE visit[<<ids[k + 1], a[k]>>]
      BY <1>4, <2>1
    <2>4. b[k + 1] = IF a[k].cycle THEN a[k] ELSE other[<<ids[k + 1], a[k]>>]
      BY <1>5, <2>1
    <2>5. ASSUME ~a[k].cycle PROVE other[<<ids[k + 1], a[k]>>] = visit[<<ids[k + 1], a[k]>>]
      <3>1. LoopOutcome(pl, ids, k, s, a[k])
        BY <1>3, <2>1
      <3>2. a[k] \in VisitState /\ a[k].visiting = s.visiting
        BY <3>1, <2>5 DEF LoopOutcome, Extended
      <3> QED BY <3>2, <2>2 DEF SameCalls
    <2> QED BY <2>3, <2>4, <2>5
  <1> HIDE DEF S
  <1>8. \A k \in Nat : k \in S
    BY <1>6, <1>7, EveryNat
  <1>9. b[Len(ids)] = a[Len(ids)]
    BY <1>0, <1>8 DEF S
  <1> QED BY <1>1, <1>2, <1>9 DEF SameLoop

(* One visit *)

\* The dependencies of the tasks of a plan are tasks of the plan.
Closed(pl) ==
    pl \in Plan /\ \A t \in Named(pl) : ToSet(pl.depends_on[t]) \subseteq Named(pl)

\* The calls of visit that leave less than n tasks unvisited.
Level(pl, n) ==
    {x \in Named(pl) \X VisitState : Cardinality(Named(pl) \ x[2].visiting) < n}

\* A plan has finitely many tasks.
LEMMA NamedFinite ==
    ASSUME NEW pl \in Plan
    PROVE  IsFiniteSet(Named(pl)) /\ Named(pl) \subseteq Tasks
  <1> DEFINE n == Len(pl.tasks)
  <1>1. pl.tasks \in Seq(Tasks) /\ n \in Nat /\ DOMAIN pl.tasks = 1..n
    BY DEF Plan
  <1> HIDE DEF n
  <1>2. pl.tasks \in [1..n -> Named(pl)]
    BY <1>1 DEF Named, ToSet
  <1>3. \A t \in Named(pl) : \E i \in 1..n : pl.tasks[i] = t
    BY <1>1 DEF Named, ToSet
  <1>4. pl.tasks \in Surjection(1..n, Named(pl))
    BY <1>2, <1>3 DEF Surjection
  <1>5. IsFiniteSet(1..n)
    BY <1>1, FS_Interval
  <1>6. IsFiniteSet(Named(pl))
    BY <1>4, <1>5, FS_Surjection
  <1>7. Named(pl) \subseteq Tasks
    BY <1>1 DEF Named, ToSet
  <1> QED BY <1>6, <1>7

\* visit calls itself with one task less to visit.
LEMMA LevelDown ==
    ASSUME NEW pl \in Plan, NEW n \in Nat, NEW id, NEW s, <<id, s>> \in Level(pl, n + 1),
           id \notin s.visiting, NEW d \in Named(pl), NEW t \in VisitState,
           t.visiting = s.visiting \cup {id}
    PROVE  <<d, t>> \in Level(pl, n)
  <1> DEFINE Left == Named(pl) \ s.visiting
             Rest == Named(pl) \ t.visiting
  <1>1. id \in Named(pl) /\ Cardinality(Left) < n + 1
    BY DEF Level
  <1>2. IsFiniteSet(Left)
    BY NamedFinite, FS_Difference
  <1>3. Rest = Left \ {id} /\ id \in Left
    BY <1>1
  <1> HIDE DEF Left, Rest
  <1>4. Cardinality(Left) \in Nat /\ Cardinality(Left \ {id}) = Cardinality(Left) - 1
    BY <1>2, <1>3, FS_CardinalityType, FS_RemoveElement
  <1>5. Cardinality(Rest) = Cardinality(Left) - 1
    BY <1>3, <1>4, Zenon
  <1>6. Cardinality(Rest) < n
    BY <1>1, <1>4, <1>5
  <1> QED BY <1>6 DEF Level, Rest

\* A task may be appended when all that it depends on is there.
LEMMA SoundAppend ==
    ASSUME NEW pl \in Plan, NEW q \in Seq(Tasks), Sound(pl, q), NEW id \in Tasks,
           id \notin ToSet(q), ToSet(pl.depends_on[id]) \subseteq ToSet(q)
    PROVE  Sound(pl, Append(q, id))
  <1> DEFINE r == Append(q, id)
             n == Len(q)
  <1>1. /\ n \in Nat /\ DOMAIN q = 1..n /\ DOMAIN r = 1..n+1 /\ r \in Seq(Tasks)
        /\ r[n + 1] = id /\ \A i \in 1..n : r[i] = q[i]
    OBVIOUS
  <1> HIDE DEF r, n
  <1>2. \A i \in 1..n : q[i] # id
    BY <1>1 DEF ToSet
  <1>3. IsInjective(r)
    <2>1. \A i, j \in 1..n : q[i] = q[j] => i = j
      BY <1>1 DEF Sound, IsInjective
    <2>2. \A i, j \in 1..n+1 : r[i] = r[j] => i = j
      <3> TAKE i, j \in 1..n+1
      <3>1. (i \in 1..n \/ i = n + 1) /\ (j \in 1..n \/ j = n + 1)
        BY <1>1
      <3> QED BY <3>1, <2>1, <1>1, <1>2
    <2> QED BY <2>2, <1>1 DEF IsInjective
  <1>4. ASSUME NEW i \in 1..n+1
        PROVE  ToSet(pl.depends_on[r[i]]) \subseteq {r[j] : j \in 1..i-1}
    <2>1. CASE i \in 1..n
      <3>1. ToSet(pl.depends_on[q[i]]) \subseteq {q[j] : j \in 1..i-1}
        BY <2>1, <1>1 DEF Sound, DependenciesFirst
      <3>2. \A j \in 1..i-1 : r[j] = q[j]
        BY <1>1, <2>1
      <3> QED BY <3>1, <3>2, <1>1, <2>1
    <2>2. CASE i = n + 1
      <3>1. ToSet(pl.depends_on[id]) \subseteq {q[j] : j \in 1..n}
        BY <1>1 DEF ToSet
      <3>2. r[i] = id /\ i - 1 = n
        BY <1>1, <2>2
      <3> QED BY <3>1, <3>2, <1>1
    <2> QED BY <2>1, <2>2, <1>1
  <1>5. DependenciesFirst(pl, r)
    BY <1>1, <1>4 DEF DependenciesFirst
  <1>6. Sound(pl, r)
    BY <1>3, <1>5 DEF Sound
  <1> QED BY <1>6 DEF r

\* A task whose visit is under way is reached again: a cycle.
LEMMA ReachedAgain ==
    ASSUME NEW pl, NEW visiting, NEW id \in visiting, Leads(pl, visiting, id)
    PROVE  HasCycle(pl)
  <1>1. visiting \in (SUBSET ToSet(pl.tasks)) \ {{}}
    BY DEF Leads, Named
  <1>2. \A t \in visiting : \E d \in visiting : d \in ToSet(pl.depends_on[t])
    BY DEF Leads
  <1> QED BY <1>1, <1>2 DEF HasCycle

\* While a task is visited, it waits for the dependency that is visited next.
LEMMA LeadsOn ==
    ASSUME NEW pl, NEW visiting, NEW id \in Named(pl), Leads(pl, visiting, id),
           NEW d \in ToSet(pl.depends_on[id])
    PROVE  Leads(pl, visiting \cup {id}, d)
  <1>1. ASSUME NEW t \in visiting \cup {id}
        PROVE  \E e \in (visiting \cup {id}) \cup {d} : e \in ToSet(pl.depends_on[t])
    BY DEF Leads
  <1> QED BY <1>1 DEF Leads

\* The dependencies of a task, as the tasks of a loop.
LEMMA DependsLoop ==
    ASSUME NEW pl, Closed(pl), NEW id \in Named(pl)
    PROVE  pl.depends_on[id] \in Seq(Named(pl))
  <1> DEFINE ids == pl.depends_on[id]
  <1>1. ids \in Seq(Tasks)
    BY NamedFinite DEF Closed, Plan
  <1>2. ToSet(ids) \subseteq Named(pl)
    BY DEF Closed
  <1> HIDE DEF ids
  <1>3. Len(ids) \in Nat /\ ids \in [1..Len(ids) -> Named(pl)]
    BY <1>1, <1>2 DEF ToSet
  <1>4. ids \in Seq(Named(pl))
    BY <1>3
  <1> QED BY <1>4 DEF ids

\* The visits of the dependencies of a task go well when the deeper calls do.
LEMMA CallsBelow ==
    ASSUME NEW pl \in Plan, NEW n \in Nat, NEW visit,
           \A x \in Level(pl, n) : CallOutcome(pl, x[1], x[2], visit[x]),
           NEW id, NEW s, <<id, s>> \in Level(pl, n + 1), id \notin s.visiting
    PROVE  CallsGood(pl, visit, s.visiting \cup {id})
  <1> SUFFICES ASSUME NEW d \in Named(pl), NEW t \in VisitState,
                      t.visiting = s.visiting \cup {id}
               PROVE  CallOutcome(pl, d, t, visit[<<d, t>>])
    BY DEF CallsGood
  <1>1. <<d, t>> \in Level(pl, n)
    BY LevelDown
  <1>2. <<d, t>>[1] = d /\ <<d, t>>[2] = t
    OBVIOUS
  <1> QED BY <1>1, <1>2

\* What an appended element adds.
LEMMA AppendedSet ==
    ASSUME NEW S, NEW seq \in Seq(S), NEW e \in S
    PROVE  ToSet(Append(seq, e)) = ToSet(seq) \cup {e}
  <1> DEFINE longer == Append(seq, e)
             n == Len(seq)
  <1>1. /\ n \in Nat /\ DOMAIN seq = 1..n /\ DOMAIN longer = 1..n+1
        /\ longer[n+1] = e /\ \A i \in 1..n : longer[i] = seq[i]
    OBVIOUS
  <1> HIDE DEF longer, n
  <1>2. \A i \in 1..n+1 : i \in 1..n \/ i = n + 1
    BY ONLY <1>1
  <1>3. n + 1 \in 1..n+1 /\ \A i \in 1..n : i \in 1..n+1
    BY ONLY <1>1
  <1>4. \A x : x \in ToSet(longer) <=> x \in ToSet(seq) \/ x = e
    BY ONLY <1>1, <1>2, <1>3 DEF ToSet
  <1>5. ToSet(longer) = ToSet(seq) \cup {e}
    BY <1>4
  <1> QED BY <1>5 DEF longer

\* visit(id), when it goes into the dependencies.
LEMMA VisitThrough ==
    ASSUME NEW pl, Closed(pl), NEW n \in Nat, NEW visit,
           \A x \in Level(pl, n) : CallOutcome(pl, x[1], x[2], visit[x]),
           NEW id, NEW s, <<id, s>> \in Level(pl, n + 1),
           id \notin ToSet(s.ordered), id \notin s.visiting
    PROVE  CallOutcome(pl, id, s, VisitOne(visit, pl, id, s))
  <1> DEFINE ids == pl.depends_on[id]
             begun == [s EXCEPT !.visiting = @ \cup {id}]
             through == VisitAll(visit, ids, begun)
             r == [through EXCEPT !.visiting = @ \ {id}, !.ordered = Append(@, id)]
  <1>1. pl \in Plan /\ id \in Named(pl) /\ id \in Tasks /\ s \in VisitState
    BY NamedFinite DEF Closed, Level
  <1>2. /\ begun \in VisitState /\ begun.visiting = s.visiting \cup {id}
        /\ begun.ordered = s.ordered /\ begun.cycle = s.cycle
    BY <1>1 DEF VisitState
  <1>3. ids \in Seq(Named(pl)) /\ DOMAIN ids = 1..Len(ids)
    BY <1>1, DependsLoop
  <1>4. VisitOne(visit, pl, id, s) = IF through.cycle THEN through ELSE r
    BY DEF VisitOne
  <1> HIDE DEF begun, ids
  <1>5. CallsGood(pl, visit, begun.visiting)
    BY <1>1, <1>2, CallsBelow
  <1>6. LoopOutcome(pl, ids, Len(ids), begun, through)
    BY <1>2, <1>3, <1>5, VisitAllOutcome
  <1> HIDE DEF through
  <1>7. through \in VisitState
    BY <1>6 DEF LoopOutcome
  <1>8. CASE through.cycle
    <2>1. ASSUME ~s.cycle, Leads(pl, s.visiting, id) PROVE HasCycle(pl)
      <3>1. \A d \in ToSet(ids) : Leads(pl, begun.visiting, d)
        BY <1>1, <1>2, <2>1, LeadsOn DEF ids
      <3>2. \A i \in DOMAIN ids : Leads(pl, begun.visiting, ids[i])
        BY <3>1 DEF ToSet
      <3> QED BY <3>2, <1>2, <1>6, <1>8, <2>1 DEF LoopOutcome
    <2> QED BY <2>1, <1>4, <1>7, <1>8 DEF CallOutcome
  <1>9. CASE ~through.cycle
    <2>1. Extended(pl, begun, through)
      BY <1>6, <1>9 DEF LoopOutcome
    <2>2. ToSet(ids) \subseteq ToSet(through.ordered)
      BY <1>3, <1>6, <1>9 DEF LoopOutcome, ToSet
    <2>3. id \notin ToSet(through.ordered)
      BY <1>2, <2>1 DEF Extended
    <2>4. /\ r \in VisitState /\ ~r.cycle /\ r.ordered = Append(through.ordered, id)
          /\ r.visiting = through.visiting \ {id}
      <3>1. /\ through.ordered \in Seq(Tasks) /\ through.visiting \in SUBSET Tasks
            /\ through.cycle \in BOOLEAN
        BY <1>7 DEF VisitState
      <3>2. Append(through.ordered, id) \in Seq(Tasks)
        BY <3>1, <1>1
      <3>3. r \in VisitState
        <4> DEFINE left == [through EXCEPT !.visiting = @ \ {id}]
        <4>1. left \in VisitState /\ left.ordered = through.ordered
          BY <1>7 DEF VisitState
        <4>2. r = [left EXCEPT !.ordered = Append(through.ordered, id)]
          BY <4>1, <1>7 DEF VisitState
        <4> HIDE DEF left, r
        <4>3. [left EXCEPT !.ordered = Append(through.ordered, id)] \in VisitState
          BY ONLY <4>1, <3>2 DEF VisitState
        <4> QED BY ONLY <4>2, <4>3
      <3>4. /\ r.ordered = Append(through.ordered, id)
            /\ r.visiting = through.visiting \ {id} /\ r.cycle = through.cycle
        BY <1>7 DEF VisitState
      <3> QED BY <3>3, <3>4, <1>9
    <2>5. ToSet(r.ordered) = ToSet(through.ordered) \cup {id}
      <3>1. through.ordered \in Seq(Tasks)
        BY <1>7 DEF VisitState
      <3>2. ToSet(Append(through.ordered, id)) = ToSet(through.ordered) \cup {id}
        BY <1>1, <3>1, AppendedSet
      <3> QED BY <2>4, <3>2
    <2> HIDE DEF r
    <2>6. r.visiting = s.visiting
      BY <2>1, <2>4, <1>2 DEF Extended
    <2>7. ASSUME Sound(pl, s.ordered) PROVE Sound(pl, r.ordered)
      <3>1. Sound(pl, through.ordered)
        BY <1>2, <2>1, <2>7 DEF Extended
      <3>2. through.ordered \in Seq(Tasks)
        BY <1>7 DEF VisitState
      <3> QED BY <3>1, <3>2, <1>1, <2>2, <2>3, <2>4, SoundAppend DEF ids
    <2>8. /\ ~s.cycle
          /\ ToSet(s.ordered) \subseteq ToSet(through.ordered)
          /\ ToSet(through.ordered) \subseteq ToSet(s.ordered) \cup Named(pl)
          /\ ToSet(through.ordered) \cap s.visiting \subseteq ToSet(s.ordered)
      BY <1>2, <2>1 DEF Extended
    <2>9. Extended(pl, s, r)
      BY <2>5, <2>6, <2>7, <2>8, <1>1 DEF Extended
    <2> QED BY <2>4, <2>5, <2>9, <1>4, <1>9 DEF CallOutcome
  <1> QED BY <1>8, <1>9

\* visit(id) does what it should when the deeper calls do.
LEMMA VisitOneOutcome ==
    ASSUME NEW pl, Closed(pl), NEW n \in Nat, NEW visit,
           \A x \in Level(pl, n) : CallOutcome(pl, x[1], x[2], visit[x]),
           NEW id, NEW s, <<id, s>> \in Level(pl, n + 1)
    PROVE  CallOutcome(pl, id, s, VisitOne(visit, pl, id, s))
  <1>1. s \in VisitState
    BY DEF Level
  <1>2. CASE id \in ToSet(s.ordered)
    <2>1. VisitOne(visit, pl, id, s) = s
      BY <1>2 DEF VisitOne
    <2> QED BY <2>1, <1>1, <1>2, ExtendedNot DEF CallOutcome
  <1>3. CASE id \notin ToSet(s.ordered) /\ id \in s.visiting
    <2> DEFINE r == [s EXCEPT !.cycle = TRUE]
    <2>1. VisitOne(visit, pl, id, s) = r
      BY <1>3 DEF VisitOne
    <2>2. r \in VisitState /\ r.cycle
      BY <1>1 DEF VisitState
    <2> HIDE DEF r
    <2> QED BY <2>1, <2>2, <1>3, ReachedAgain DEF CallOutcome
  <1> QED BY <1>2, <1>3, VisitThrough

\* visit(id) makes no other calls.
LEMMA VisitOneSame ==
    ASSUME NEW pl, Closed(pl), NEW n \in Nat, NEW visit,
           \A x \in Level(pl, n) : CallOutcome(pl, x[1], x[2], visit[x]),
           NEW other, \A x \in Level(pl, n) : other[x] = visit[x],
           NEW id, NEW s, <<id, s>> \in Level(pl, n + 1)
    PROVE  VisitOne(other, pl, id, s) = VisitOne(visit, pl, id, s)
  <1>1. CASE id \in ToSet(s.ordered) \/ id \in s.visiting
    BY <1>1 DEF VisitOne
  <1>2. CASE id \notin s.visiting
    <2> DEFINE ids == pl.depends_on[id]
               begun == [s EXCEPT !.visiting = @ \cup {id}]
    <2>1. pl \in Plan /\ id \in Named(pl) /\ id \in Tasks /\ s \in VisitState
      BY NamedFinite DEF Closed, Level
    <2>2. begun \in VisitState /\ begun.visiting = s.visiting \cup {id}
      BY <2>1 DEF VisitState
    <2>3. ids \in Seq(Named(pl))
      BY <2>1, DependsLoop
    <2> HIDE DEF begun, ids
    <2>4. CallsGood(pl, visit, begun.visiting)
      BY <1>2, <2>1, <2>2, CallsBelow
    <2>5. SameCalls(pl, visit, other, begun.visiting)
      <3> SUFFICES ASSUME NEW d \in Named(pl), NEW t \in VisitState,
                          t.visiting = begun.visiting
                   PROVE  other[<<d, t>>] = visit[<<d, t>>]
        BY DEF SameCalls
      <3>1. <<d, t>> \in Level(pl, n)
        BY <1>2, <2>1, <2>2, LevelDown
      <3> QED BY <3>1
    <2>6. SameLoop(visit, other, ids, begun)
      BY <2>2, <2>3, <2>4, <2>5, VisitAllSame
    <2> QED BY <2>6, Zenon DEF VisitOne, SameLoop, begun, ids
  <1> QED BY <1>1, <1>2

(* The recursion *)

\* visit, as far as the calls with less than n tasks unvisited go.
VisitsTo(pl, visit, n) ==
    /\ visit = [x \in Named(pl) \X VisitState |-> visit[x]]
    /\ \A x \in Level(pl, n) : /\ visit[x] = VisitOne(visit, pl, x[1], x[2])
                               /\ CallOutcome(pl, x[1], x[2], visit[x])

\* The calls of level n, and their arguments.
LEMMA LevelCall ==
    ASSUME NEW pl, NEW n, NEW x \in Level(pl, n)
    PROVE  x = <<x[1], x[2]>> /\ x \in Named(pl) \X VisitState
  BY DEF Level

\* No calls leave less than no tasks unvisited; the deeper calls are some of the calls.
LEMMA LevelRange ==
    ASSUME NEW pl \in Plan
    PROVE  /\ Level(pl, 0) = {}
           /\ \A n \in Nat : Level(pl, n) \subseteq Level(pl, n + 1)
           /\ \E n \in Nat : Level(pl, n) = Named(pl) \X VisitState
  <1> DEFINE Left(x) == Cardinality(Named(pl) \ x[2].visiting)
             m == Cardinality(Named(pl))
  <1>1. m \in Nat
    BY NamedFinite, FS_CardinalityType
  <1>2. \A x : Left(x) \in Nat /\ Left(x) <= m
    <2> TAKE x
    <2> DEFINE T == Named(pl) \ x[2].visiting
    <2>1. T \in SUBSET Named(pl) /\ IsFiniteSet(Named(pl))
      BY NamedFinite
    <2> HIDE DEF T
    <2>2. Cardinality(T) \in Nat /\ Cardinality(T) <= m
      BY <2>1, FS_Subset, FS_CardinalityType
    <2> QED BY <2>2 DEF T
  <1>3. \A n : Level(pl, n) = {x \in Named(pl) \X VisitState : Left(x) < n}
    BY DEF Level
  <1> HIDE DEF Left, m
  <1>4. Level(pl, 0) = {}
    BY <1>2, <1>3
  <1>5. \A n \in Nat : Level(pl, n) \subseteq Level(pl, n + 1)
    BY <1>2, <1>3
  <1>6. Level(pl, m + 1) = Named(pl) \X VisitState
    BY <1>1, <1>2, <1>3
  <1>7. m + 1 \in Nat
    BY <1>1
  <1> QED BY <1>4, <1>5, <1>6, <1>7

\* One level deeper.
LEMMA VisitsFurther ==
    ASSUME NEW pl, Closed(pl), NEW n \in Nat, NEW visit, VisitsTo(pl, visit, n)
    PROVE  \E further : VisitsTo(pl, further, n + 1)
  <1> DEFINE D == Named(pl) \X VisitState
             w == [x \in D |-> VisitOne(visit, pl, x[1], x[2])]
  <1>1. \A x \in Level(pl, n) : CallOutcome(pl, x[1], x[2], visit[x])
    BY DEF VisitsTo
  <1>2. \A x \in D : w[x] = VisitOne(visit, pl, x[1], x[2])
    OBVIOUS
  <1>3. w = [x \in D |-> w[x]]
    OBVIOUS
  <1> HIDE DEF w
  <1>4. \A x \in Level(pl, n) : w[x] = visit[x]
    BY <1>2, LevelCall DEF VisitsTo
  <1>5. ASSUME NEW x \in Level(pl, n + 1)
        PROVE  /\ w[x] = VisitOne(w, pl, x[1], x[2])
               /\ CallOutcome(pl, x[1], x[2], w[x])
    <2> DEFINE id == x[1]
               s == x[2]
    <2>1. x = <<id, s>> /\ x \in D
      BY LevelCall
    <2> HIDE DEF id, s
    <2>2. <<id, s>> \in Level(pl, n + 1)
      BY <2>1
    <2>3. VisitOne(w, pl, id, s) = VisitOne(visit, pl, id, s)
      BY <1>1, <1>4, <2>2, VisitOneSame
    <2>4. CallOutcome(pl, id, s, VisitOne(visit, pl, id, s))
      BY <1>1, <2>2, VisitOneOutcome
    <2>5. w[x] = VisitOne(visit, pl, id, s)
      BY <1>2, <2>1 DEF id, s
    <2> QED BY <2>3, <2>4, <2>5 DEF id, s
  <1>6. VisitsTo(pl, w, n + 1)
    BY <1>3, <1>5 DEF VisitsTo
  <1> QED BY <1>6

\* visit returns: some function is what its recursive definition says.
LEMMA VisitExists ==
    ASSUME NEW pl, Closed(pl)
    PROVE  \E visit : visit = [x \in Named(pl) \X VisitState |-> VisitOne(visit, pl, x[1], x[2])]
  <1> DEFINE S == {n \in Nat : \E visit : VisitsTo(pl, visit, n)}
             D == Named(pl) \X VisitState
  <1>0. pl \in Plan
    BY DEF Closed
  <1>1. 0 \in S
    <2> DEFINE g == [x \in D |-> x]
    <2>1. g = [x \in D |-> g[x]]
      OBVIOUS
    <2> HIDE DEF g
    <2>2. VisitsTo(pl, g, 0)
      BY <1>0, <2>1, LevelRange DEF VisitsTo
    <2> QED BY <2>2
  <1>2. ASSUME NEW n \in Nat, n \in S PROVE n + 1 \in S
    BY <1>2, VisitsFurther
  <1> HIDE DEF S
  <1>3. \A n \in Nat : n \in S
    BY <1>1, <1>2, EveryNat
  <1>4. PICK n \in Nat : Level(pl, n) = D
    BY <1>0, LevelRange
  <1>5. PICK visit : VisitsTo(pl, visit, n)
    BY <1>3 DEF S
  <1>6. visit = [x \in D |-> visit[x]] /\ \A x \in D : visit[x] = VisitOne(visit, pl, x[1], x[2])
    BY <1>4, <1>5 DEF VisitsTo
  <1> HIDE DEF D
  <1>7. visit = [x \in D |-> VisitOne(visit, pl, x[1], x[2])]
    BY <1>6
  <1> QED BY <1>7 DEF D

\* So Visit is.
LEMMA VisitUnfold ==
    ASSUME NEW pl, Closed(pl)
    PROVE  \A x \in Named(pl) \X VisitState :
             Visit(pl)[x] = VisitOne(Visit(pl), pl, x[1], x[2])
  <1> DEFINE P(h) == h = [x \in Named(pl) \X VisitState |-> VisitOne(h, pl, x[1], x[2])]
  <1>1. PICK g : P(g)
    BY VisitExists
  <1>2. Visit(pl) = CHOOSE h : P(h)
    BY Zenon DEF Visit, Named
  <1> HIDE DEF P
  <1>3. P(Visit(pl))
    BY <1>1, <1>2, Zenon
  <1> DEFINE v == Visit(pl)
  <1>4. v = [x \in Named(pl) \X VisitState |-> VisitOne(v, pl, x[1], x[2])]
    BY <1>3 DEF P
  <1> HIDE DEF v
  <1>5. \A x \in Named(pl) \X VisitState : v[x] = VisitOne(v, pl, x[1], x[2])
    BY <1>4
  <1> QED BY <1>5 DEF v

\* Every call of visit does what it should.
LEMMA VisitOutcome ==
    ASSUME NEW pl, Closed(pl)
    PROVE  \A id \in Named(pl), s \in VisitState : CallOutcome(pl, id, s, Visit(pl)[<<id, s>>])
  <1> DEFINE S == {n \in Nat : \A x \in Level(pl, n) : CallOutcome(pl, x[1], x[2], Visit(pl)[x])}
             D == Named(pl) \X VisitState
  <1>0. pl \in Plan
    BY DEF Closed
  <1>1. 0 \in S
    BY <1>0, LevelRange
  <1>2. ASSUME NEW n \in Nat, n \in S PROVE n + 1 \in S
    <2>1. \A x \in Level(pl, n) : CallOutcome(pl, x[1], x[2], Visit(pl)[x])
      BY <1>2
    <2>2. ASSUME NEW x \in Level(pl, n + 1)
          PROVE  CallOutcome(pl, x[1], x[2], Visit(pl)[x])
      <3> DEFINE id == x[1]
                 s == x[2]
      <3>1. x = <<id, s>> /\ x \in D
        BY LevelCall
      <3>2. Visit(pl)[x] = VisitOne(Visit(pl), pl, id, s)
        BY <3>1, VisitUnfold
      <3> HIDE DEF id, s
      <3>3. <<id, s>> \in Level(pl, n + 1)
        BY <3>1
      <3>4. CallOutcome(pl, id, s, VisitOne(Visit(pl), pl, id, s))
        BY <2>1, <3>3, VisitOneOutcome
      <3> QED BY <3>2, <3>4 DEF id, s
    <2> QED BY <2>2
  <1> HIDE DEF S
  <1>3. \A n \in Nat : n \in S
    BY <1>1, <1>2, EveryNat
  <1>4. PICK n \in Nat : Level(pl, n) = D
    BY <1>0, LevelRange
  <1>5. \A x \in D : CallOutcome(pl, x[1], x[2], Visit(pl)[x])
    BY <1>3, <1>4 DEF S
  <1> TAKE id \in Named(pl), s \in VisitState
  <1>6. <<id, s>> \in D /\ <<id, s>>[1] = id /\ <<id, s>>[2] = s
    OBVIOUS
  <1> HIDE DEF D
  <1> QED BY <1>5, <1>6

(* The order of a plan *)

\* The visits of all tasks of a plan.
LEMMA VisitedOutcome ==
    ASSUME NEW pl, Closed(pl)
    PROVE  LoopOutcome(pl, pl.tasks, Len(pl.tasks), NothingVisited, Visited(pl))
  <1>1. NothingVisited \in VisitState
    BY DEF NothingVisited, VisitState
  <1>2. CallsGood(pl, Visit(pl), NothingVisited.visiting)
    BY VisitOutcome DEF CallsGood
  <1>3. pl.tasks \in Seq(Named(pl))
    <2> DEFINE ids == pl.tasks
    <2>1. ids \in Seq(Tasks)
      BY DEF Closed, Plan
    <2>2. \A i \in 1..Len(ids) : ids[i] \in Named(pl)
      BY <2>1 DEF Named, ToSet
    <2> HIDE DEF ids
    <2>3. Len(ids) \in Nat /\ ids \in [1..Len(ids) -> Named(pl)]
      BY <2>1, <2>2
    <2>4. ids \in Seq(Named(pl))
      BY <2>3
    <2> QED BY <2>4 DEF ids
  <1> QED BY <1>1, <1>2, <1>3, VisitAllOutcome DEF Visited

\* The plans whose tasks depend on tasks of the plan are ordered, or have a cycle: without an
\* exception, the order has each task once, behind all that it depends on; an exception is
\* raised because some tasks wait for one another.
LEMMA VisitedOrder ==
    ASSUME NEW pl, Closed(pl)
    PROVE  /\ ~Visited(pl).cycle => /\ DependenciesFirst(pl, Ordered(pl))
                                    /\ EachTaskOnce(pl, Ordered(pl))
           /\ Visited(pl).cycle => HasCycle(pl)
  <1> DEFINE s == NothingVisited
             r == Visited(pl)
  <1>0. pl.tasks \in Seq(Tasks) /\ DOMAIN pl.tasks = 1..Len(pl.tasks)
    BY DEF Closed, Plan
  <1>1. LoopOutcome(pl, pl.tasks, Len(pl.tasks), s, r)
    BY VisitedOutcome
  <1>2. s.ordered = <<>> /\ s.visiting = {} /\ ~s.cycle
    BY DEF NothingVisited
  <1>3. Ordered(pl) = r.ordered
    BY DEF Ordered
  <1> HIDE DEF s, r
  <1>4. Sound(pl, s.ordered) /\ ToSet(s.ordered) = {}
    BY <1>2 DEF Sound, DependenciesFirst, IsInjective, ToSet
  <1>5. ASSUME ~r.cycle PROVE DependenciesFirst(pl, r.ordered) /\ EachTaskOnce(pl, r.ordered)
    <2>1. /\ Extended(pl, s, r)
          /\ \A i \in 1..Len(pl.tasks) : pl.tasks[i] \in ToSet(r.ordered)
      BY <1>1, <1>5 DEF LoopOutcome
    <2>2. Sound(pl, r.ordered) /\ ToSet(r.ordered) \subseteq Named(pl)
      BY <1>4, <2>1 DEF Extended
    <2>3. Named(pl) \subseteq ToSet(r.ordered)
      BY <1>0, <2>1 DEF Named, ToSet
    <2> QED BY <2>2, <2>3 DEF Sound, EachTaskOnce, Named
  <1>6. ASSUME r.cycle PROVE HasCycle(pl)
    <2>1. \A i \in DOMAIN pl.tasks : Leads(pl, s.visiting, pl.tasks[i])
      BY <1>2 DEF Leads
    <2> QED BY <1>1, <1>2, <1>6, <2>1 DEF LoopOutcome
  <1> QED BY <1>3, <1>5, <1>6 DEF r

\* No such order exists for tasks that wait for one another.
LEMMA CycleUnordered ==
    ASSUME NEW pl, NEW q, DependenciesFirst(pl, q), EachTaskOnce(pl, q)
    PROVE  ~HasCycle(pl)
  <1> SUFFICES ASSUME HasCycle(pl) PROVE FALSE
    OBVIOUS
  <1>1. PICK C : /\ C # {} /\ C \subseteq ToSet(q)
                 /\ \A t \in C : \E d \in C : d \in ToSet(pl.depends_on[t])
    BY DEF HasCycle, EachTaskOnce
  <1> DEFINE S == {i \in Nat : \A j \in DOMAIN q : j <= i => q[j] \notin C}
  <1>2. q \in Seq(Tasks) /\ DOMAIN q = 1..Len(q) /\ Len(q) \in Nat
    BY DEF DependenciesFirst
  <1>3. 0 \in S
    BY <1>2
  <1>4. ASSUME NEW i \in Nat, i \in S PROVE i + 1 \in S
    <2>1. \A j \in DOMAIN q : j <= i => q[j] \notin C
      BY <1>4
    <2>2. ASSUME i + 1 \in DOMAIN q, q[i + 1] \in C PROVE FALSE
      <3>1. PICK d \in C : d \in ToSet(pl.depends_on[q[i + 1]])
        BY <1>1, <2>2
      <3>2. d \in {q[j] : j \in 1..(i + 1) - 1}
        BY <3>1, <2>2 DEF DependenciesFirst
      <3>3. PICK j \in 1..(i + 1) - 1 : d = q[j]
        BY <3>2
      <3>4. j \in DOMAIN q /\ j <= i
        BY <1>2, <2>2, <3>3
      <3> QED BY <2>1, <3>1, <3>3, <3>4
    <2>3. \A j \in DOMAIN q : j <= i + 1 => q[j] \notin C
      <3> TAKE j \in DOMAIN q
      <3>1. j <= i + 1 => j <= i \/ j = i + 1
        BY <1>2
      <3> QED BY <3>1, <2>1, <2>2
    <2> QED BY <2>3
  <1> HIDE DEF S
  <1>5. \A i \in Nat : i \in S
    BY <1>3, <1>4, EveryNat
  <1>6. Len(q) \in S
    BY <1>2, <1>5
  <1>7. \A j \in DOMAIN q : q[j] \notin C
    BY <1>2, <1>6 DEF S
  <1> QED BY <1>1, <1>7 DEF ToSet

\* A valid plan is ordered: every task once, and behind all that it depends on.
THEOREM PlanOrdered ==
    ASSUME NEW pl \in Plan, NEW max_hops, ValidPlan(pl, max_hops)
    PROVE  DependenciesFirst(pl, Ordered(pl)) /\ EachTaskOnce(pl, Ordered(pl))
  <1>1. Closed(pl) /\ ~Visited(pl).cycle
    BY DEF ValidPlan, WellFormed, Closed, Named
  <1> QED BY <1>1, VisitedOrder

\* A well-formed plan is refused exactly when some of its tasks wait for one another.
THEOREM PlanRefused ==
    ASSUME NEW pl \in Plan, NEW max_hops, WellFormed(pl, max_hops)
    PROVE  ValidPlan(pl, max_hops) <=> ~HasCycle(pl)
  <1>1. Closed(pl)
    BY DEF WellFormed, Closed, Named
  <1>2. CASE Visited(pl).cycle
    <2>1. HasCycle(pl)
      BY <1>1, <1>2, VisitedOrder
    <2> QED BY <2>1, <1>2 DEF ValidPlan
  <1>3. CASE ~Visited(pl).cycle
    <2>1. ~HasCycle(pl)
      BY <1>1, <1>3, VisitedOrder, CycleUnordered
    <2> QED BY <2>1, <1>3 DEF ValidPlan
  <1> QED BY <1>2, <1>3

------------------------------------------------------------------------------
(* The invariant *)

Entry == Tasks \X (Values \cup {NoEvidence})

\* The entries of a dict have different keys.
Keyed(completed) ==
    \A i, j \in DOMAIN completed : completed[i][1] = completed[j][1] => i = j

InLog(kind, t, log) == \E i \in DOMAIN log : log[i].kind = kind /\ log[i].task = t

\* What is true of every checkpoint, in the file, beside it or in memory: the audit log covers
\* it, what is completed was dispatched, and what was dispatched had all it depends on before.
Good(cp, pl, log) ==
    /\ cp \in Checkpoint /\ Keyed(cp.completed)
    /\ CompletedTasks(cp) \subseteq cp.dispatched
    /\ \A t \in cp.dispatched : ToSet(pl.depends_on[t]) \subseteq cp.dispatched
    /\ \A t \in CompletedTasks(cp) : InLog("task_completed", t, log)
    /\ \A t \in Tasks : cp.failed[t] = "invalid_result" => InLog("task_failed", t, log)

\* The loop has all the tasks before i behind it.
Behind(cp, i, order) == \A j \in DOMAIN order : j < i => order[j] \in cp.dispatched

RunningState ==
    [pc : {"loop", "dispatch", "audit", "append"}, cp : Checkpoint, i : Nat \ {0},
     attempts : 0..MaxRetries, result : Values \cup {NoEvidence, Unset}, prev : Nat]

Running(r, pl, order, log) ==
    /\ r \in RunningState
    /\ Good(r.cp, pl, log) /\ Behind(r.cp, r.i, order) /\ r.prev <= Len(log)
    /\ r.pc = "loop" => r.attempts = 0
    /\ r.pc # "loop" => r.i \in DOMAIN order /\ order[r.i] \notin r.cp.dispatched

SavingState ==
    [pc : {"open_tmp", "fill_tmp", "replace"}, cp : Checkpoint, then : {"return", "execute", "loop"}, i : Nat]

SavingOne(r, pl, order, log) ==
    /\ r \in SavingState
    /\ Good(r.cp, pl, log)
    /\ r.then = "loop" => r.i # 0 /\ Behind(r.cp, r.i, order)

Executing == [pc |-> "execute"]

InMethod(r, pl, order, log) ==
    \/ r = Idle \/ r = Executing
    \/ Running(r, pl, order, log) \/ SavingOne(r, pl, order, log)

Record == [kind : {"task_completed", "task_failed"}, task : Tasks, prev : Nat]

\* What a file may hold.
Content(file, pl, log) == file \in {NoFile, Empty, Torn} \/ Good(file, pl, log)

\* A process has a file open just while it is filling it.
Opened(file, r) == file \in IF r.pc = "fill_tmp" THEN {"tmp", "checkpoint", "replaced"} ELSE {"none"}

Files == {"none", "tmp", "checkpoint", "replaced"}

RuntimeInv ==
    /\ plan \in Plans /\ DependenciesFirst(plan, ordered)
    /\ Content(disk, plan, audit) /\ Content(tmp, plan, audit)
    /\ handle \in [Procs -> Files] /\ \A p \in Procs : Opened(handle[p], proc[p])
    /\ \A p \in Procs : InMethod(proc[p], plan, ordered, audit)
    /\ proc \in [Procs -> {Idle, Executing} \cup RunningState \cup SavingState]
    /\ audit \in Seq(Record) /\ \A i \in DOMAIN audit : audit[i].prev <= i - 1
    /\ calls \in [Tasks -> Nat]
    /\ crashes \in 0..MaxCrashes

\* What holds besides when a method starts only while no other process is inside one: what a
\* process has in memory is what the file says, until it saves, and the calls are accounted for.
Alone == \A p, q \in Procs : proc[p] # Idle /\ proc[q] # Idle => p = q

IsRunning(r) == r.pc \in {"loop", "dispatch", "audit", "append"}
IsSaving(r) == r.pc \in {"open_tmp", "fill_tmp", "replace"}

InStepWith(r, file, beside) ==
    /\ IsRunning(r) => r.cp.dispatched = file.dispatched /\ ~Halted(r.cp) /\ ~Halted(file)
    /\ IsSaving(r) => /\ file.dispatched \subseteq r.cp.dispatched
                     /\ (r.then = "loop" => ~Halted(r.cp))
    /\ r.pc = "fill_tmp" => beside = Empty
    /\ r.pc = "replace" => beside = Sorted(r.cp)

InStep == \A p \in Procs : InStepWith(proc[p], Loaded, tmp)

\* The calls of t may not be recorded yet: they are being made, or their record being saved.
Pending(r, t, order) ==
    \/ r.pc \in {"dispatch", "audit", "append"} /\ order[r.i] = t
    \/ IsSaving(r) /\ t \in r.cp.dispatched

Lost == (MaxRetries + 1) * crashes

Accounted ==
    /\ \A t \in Tasks : calls[t] <= Lost + MaxRetries + 1
    /\ \A t \in Tasks \ Loaded.dispatched :
         (\A p \in Procs : ~Pending(proc[p], t, ordered)) => calls[t] <= Lost
    /\ \A p \in Procs : proc[p].pc = "dispatch" => calls[Task(p)] <= Lost + proc[p].attempts

\* Nobody writes to the checkpoint in its place, and it can be read.
Whole == Readable(disk) /\ \A p \in Procs : handle[p] \in {"none", "tmp"}

AloneInv == Alone /\ Whole /\ InStep /\ Accounted
----------------------------------------------------------------------------
(* The checkpoint in the file has the entries of the one in memory, under sorted keys. *)

\* In a dict with n keys, the places of the entries are 1 to n.
LEMMA PlacesFilled ==
    ASSUME NEW completed \in Seq(Entry), Keyed(completed), NEW k \in DOMAIN completed
    PROVE  \E c \in ToSet(completed) : Place(c, ToSet(completed)) = k
  <1> DEFINE entries == ToSet(completed)
             n == Len(completed)
             Below(c) == {d \in entries : d[1] <= c[1]}
             place == [c \in entries |-> Place(c, entries)]
  <1>1. n \in Nat /\ DOMAIN completed = 1..n /\ completed \in [1..n -> Entry]
    BY DEF Entry
  <1>2. \A c \in entries : c \in Entry /\ \E i \in 1..n : c = completed[i]
    BY <1>1 DEF ToSet
  <1>3. \A c, d \in entries : c[1] = d[1] => c = d
    BY <1>1, <1>2 DEF Keyed
  <1>4. \A c \in entries : c[1] \in Nat
    BY <1>2, RuntimeAssumption DEF Entry
  <1>5. completed \in Bijection(1..n, entries)
    BY <1>1 DEF ToSet, Keyed, Bijection, Injection, Surjection, IsInjective
  <1>6. IsFiniteSet(entries) /\ Cardinality(entries) = n
    <2>1. ExistsBijection(1..n, entries)
      BY <1>5 DEF ExistsBijection
    <2>2. IsFiniteSet(1..n)
      BY <1>1, FS_Interval
    <2> QED
      BY <1>1, <2>1, <2>2, FS_CountingElements, FS_Bijection
  <1>7. \A c \in entries : /\ Below(c) \subseteq entries /\ c \in Below(c) /\ IsFiniteSet(Below(c))
                          /\ Cardinality(Below(c)) \in 1..n
    <2> SUFFICES ASSUME NEW c \in entries
                 PROVE  /\ Below(c) \subseteq entries /\ c \in Below(c) /\ IsFiniteSet(Below(c))
                        /\ Cardinality(Below(c)) \in 1..n
      OBVIOUS
    <2>1. Below(c) \subseteq entries /\ c \in Below(c)
      BY <1>4
    <2>2. IsFiniteSet(Below(c)) /\ Cardinality(Below(c)) <= n
      BY <1>6, <2>1, FS_Subset
    <2> HIDE DEF Below
    <2>3. Cardinality(Below(c)) \in Nat /\ Cardinality(Below(c)) # 0
      BY <2>1, <2>2, FS_CardinalityType, FS_EmptySet
    <2> QED
      BY <1>1, <2>1, <2>2, <2>3
  <1>8. \A c \in entries : Place(c, entries) = Cardinality(Below(c))
    BY DEF Place
  <1>9. ASSUME NEW c \in entries, NEW d \in entries, c[1] < d[1]
        PROVE  Cardinality(Below(c)) # Cardinality(Below(d))
    <2>1. Below(c) \subseteq Below(d) /\ d \notin Below(c) /\ d \in Below(d)
      BY <1>4, <1>9
    <2>2. IsFiniteSet(Below(d))
      BY <1>7
    <2> HIDE DEF Below
    <2> QED
      BY <2>1, <2>2, FS_Subset
  <1>10. place \in Injection(entries, 1..n)
    <2>1. place \in [entries -> 1..n]
      BY <1>7, <1>8
    <2>2. ASSUME NEW c \in entries, NEW d \in entries, place[c] = place[d] PROVE c = d
      <3>1. Cardinality(Below(c)) = Cardinality(Below(d))
        BY <1>8, <2>2
      <3> HIDE DEF Below, entries, place
      <3>2. ~(c[1] < d[1]) /\ ~(d[1] < c[1])
        BY <1>9, <3>1
      <3> QED
        BY <1>3, <1>4, <3>2
    <2> HIDE DEF place, entries
    <2> QED
      BY <2>1, <2>2 DEF Injection, IsInjective
  <1>11. place \in Surjection(entries, 1..n)
    <2>0. n \in Nat
      BY <1>1
    <2> HIDE DEF place, entries, n
    <2>1. IsFiniteSet(1..n) /\ Cardinality(1..n) = n
      BY <2>0, FS_Interval
    <2> QED
      BY <1>6, <1>10, <2>1, FS_Injection
  <1>12. \E c \in entries : place[c] = k
    <2> HIDE DEF place, entries
    <2> QED
      BY <1>1, <1>11 DEF Surjection
  <1> QED
    BY <1>12

\* Sorting a dict changes neither its entries nor that their keys differ.
LEMMA InKeyOrderFacts ==
    ASSUME NEW completed \in Seq(Entry), Keyed(completed)
    PROVE  /\ InKeyOrder(completed) \in Seq(Entry) /\ Keyed(InKeyOrder(completed))
           /\ \A k \in DOMAIN InKeyOrder(completed) : InKeyOrder(completed)[k] \in ToSet(completed)
  <1> DEFINE entries == ToSet(completed)
             pick(k) == CHOOSE c \in entries : Place(c, entries) = k
             s == [k \in DOMAIN completed |-> pick(k)]
  <1>1. \A k \in DOMAIN completed : pick(k) \in entries /\ Place(pick(k), entries) = k
    BY PlacesFilled
  <1>2. InKeyOrder(completed) = s
    BY DEF InKeyOrder
  <1>3. /\ entries \subseteq Entry
        /\ \A c, d \in entries : c[1] = d[1] => c = d
        /\ Len(completed) \in Nat /\ DOMAIN completed = 1..Len(completed)
    BY DEF ToSet, Keyed, Entry
  <1> HIDE DEF pick, entries
  <1>4. DOMAIN s = 1..Len(completed) /\ \A k \in DOMAIN completed : s[k] \in entries /\ s[k] = pick(k)
    BY <1>1, <1>3
  <1>5. s \in Seq(Entry)
    BY <1>1, <1>3
  <1>6. Keyed(s)
    <2> HIDE DEF s
    <2> SUFFICES ASSUME NEW i \in DOMAIN s, NEW j \in DOMAIN s, s[i][1] = s[j][1] PROVE i = j
      BY DEF Keyed
    <2>1. i \in DOMAIN completed /\ j \in DOMAIN completed
      BY <1>3, <1>4
    <2>2. pick(i) = pick(j)
      BY <1>3, <1>4, <2>1
    <2> QED
      BY <1>1, <2>1, <2>2
  <1> QED
    <2>1. \A k \in DOMAIN s : s[k] \in entries
      BY <1>3, <1>4
    <2> QED
      BY <1>2, <1>5, <1>6, <2>1 DEF entries

----------------------------------------------------------------------------
(* What the operations on a checkpoint keep. *)

Statuses == {"RUNNING", "PAUSED", "STOPPED", "TIMEOUT", "FAILED", "CONFLICT", "COMPLETED"}
Failures == [Tasks -> {NoReason, "invalid_result", "conflict_detected"}]

\* A checkpoint, field by field.
LEMMA CheckpointFields ==
    ASSUME NEW cp \in Checkpoint
    PROVE  /\ cp.file = "checkpoint" /\ cp.status \in Statuses /\ cp.completed \in Seq(Entry)
           /\ cp.failed \in Failures /\ cp.dispatched \in SUBSET Tasks
           /\ cp.paused \in BOOLEAN /\ cp.stopped \in BOOLEAN
           /\ cp \notin {NoFile, Empty, Torn} /\ Readable(cp)
  BY DEF Checkpoint, Statuses, Failures, Entry, NoFile, Empty, Torn, Readable

\* A change of the status or of the operator's flags.
LEMMA GoodSame ==
    ASSUME NEW pl, NEW log, NEW cp, Good(cp, pl, log), NEW new \in Checkpoint,
           new.completed = cp.completed, new.failed = cp.failed, new.dispatched = cp.dispatched
    PROVE  Good(new, pl, log)
  BY DEF Good, CompletedTasks

\* Sorting.
LEMMA GoodSorted ==
    ASSUME NEW pl, NEW log, NEW cp, Good(cp, pl, log)
    PROVE  /\ Good(Sorted(cp), pl, log)
           /\ Sorted(cp).dispatched = cp.dispatched
           /\ Sorted(cp).paused = cp.paused /\ Sorted(cp).stopped = cp.stopped
  <1> DEFINE s == InKeyOrder(cp.completed)
  <1>1. cp \in Checkpoint /\ cp.completed \in Seq(Entry) /\ Keyed(cp.completed)
    BY CheckpointFields DEF Good
  <1>2. /\ s \in Seq(Entry) /\ Keyed(s)
        /\ \A k \in DOMAIN s : s[k] \in ToSet(cp.completed)
    BY <1>1, InKeyOrderFacts
  <1>3. Sorted(cp) = [cp EXCEPT !.completed = s]
    BY DEF Sorted
  <1> HIDE DEF s
  <1>4. /\ Sorted(cp) \in Checkpoint /\ Sorted(cp).completed = s
        /\ Sorted(cp).failed = cp.failed /\ Sorted(cp).dispatched = cp.dispatched
        /\ Sorted(cp).paused = cp.paused /\ Sorted(cp).stopped = cp.stopped
    BY <1>1, <1>2, <1>3 DEF Checkpoint, Entry
  <1>5. CompletedTasks(Sorted(cp)) \subseteq CompletedTasks(cp)
    BY <1>2, <1>4 DEF CompletedTasks, ToSet
  <1> QED
    BY <1>2, <1>4, <1>5 DEF Good

\* The log grows.
LEMMA GoodLog ==
    ASSUME NEW pl, NEW log, NEW more, NEW cp, Good(cp, pl, log),
           \A i \in DOMAIN log : i \in DOMAIN more /\ more[i] = log[i]
    PROVE  Good(cp, pl, more)
  <1>1. \A kind, t : InLog(kind, t, log) => InLog(kind, t, more)
    BY DEF InLog
  <1> QED
    BY <1>1 DEF Good

\* The first checkpoint of a request.
LEMMA GoodNew ==
    ASSUME NEW pl, NEW log
    PROVE  /\ Good(NewCheckpoint, pl, log) /\ NewCheckpoint.dispatched = {}
           /\ ~NewCheckpoint.paused /\ ~NewCheckpoint.stopped
  <1>1. /\ NewCheckpoint.dispatched = {} /\ NewCheckpoint.completed = <<>>
        /\ NewCheckpoint.failed = [t \in Tasks |-> NoReason]
        /\ NewCheckpoint.paused = FALSE /\ NewCheckpoint.stopped = FALSE
    BY DEF NewCheckpoint
  <1>2. NewCheckpoint \in Checkpoint
    <2>1. <<>> \in Seq(Entry) /\ [t \in Tasks |-> NoReason] \in Failures
      BY DEF Failures, NoReason
    <2> QED
      BY <2>1 DEF NewCheckpoint, Checkpoint, Entry, Failures
  <1>3. DOMAIN NewCheckpoint.completed = {}
    BY <1>1
  <1>4. CompletedTasks(NewCheckpoint) = {} /\ Keyed(NewCheckpoint.completed)
    BY <1>3 DEF CompletedTasks, Keyed
  <1>5. \A t \in Tasks : NewCheckpoint.failed[t] # "invalid_result"
    BY <1>1 DEF NoReason
  <1> QED
    BY <1>1, <1>2, <1>4, <1>5 DEF Good

\* A task that failed, its event in the log.
LEMMA GoodFailure ==
    ASSUME NEW pl, NEW log, NEW cp, Good(cp, pl, log), NEW t \in Tasks,
           ToSet(pl.depends_on[t]) \subseteq cp.dispatched, InLog("task_failed", t, log)
    PROVE  /\ Good(AfterFailure(cp, t), pl, log)
           /\ AfterFailure(cp, t).dispatched = cp.dispatched \cup {t}
  <1> DEFINE new == AfterFailure(cp, t)
  <1>1. cp \in Checkpoint /\ cp.failed \in Failures
    BY CheckpointFields DEF Good
  <1>2. /\ new \in Checkpoint /\ new.completed = cp.completed
        /\ new.dispatched = cp.dispatched \cup {t}
        /\ new.failed = [cp.failed EXCEPT ![t] = "invalid_result"]
    BY <1>1 DEF AfterFailure, Checkpoint
  <1> HIDE DEF new
  <1>3. \A u \in Tasks : new.failed[u] = "invalid_result" => u = t \/ cp.failed[u] = "invalid_result"
    BY <1>1, <1>2 DEF Failures
  <1>4. CompletedTasks(new) = CompletedTasks(cp) /\ Keyed(new.completed)
    BY <1>2 DEF CompletedTasks, Good
  <1>5. Good(new, pl, log)
    BY <1>2, <1>3, <1>4 DEF Good
  <1> QED
    BY <1>2, <1>5 DEF new

\* A task whose result was accepted, its event in the log.
LEMMA GoodResult ==
    ASSUME NEW pl, NEW log, NEW cp, Good(cp, pl, log), NEW t \in Tasks, t \notin CompletedTasks(cp),
           NEW v \in Values \cup {NoEvidence},
           ToSet(pl.depends_on[t]) \subseteq cp.dispatched, InLog("task_completed", t, log)
    PROVE  /\ Good(AfterResult(cp, t, v), pl, log)
           /\ AfterResult(cp, t, v).dispatched = cp.dispatched \cup {t}
           /\ AfterResult(cp, t, v).paused = cp.paused /\ AfterResult(cp, t, v).stopped = cp.stopped
  <1> DEFINE new == AfterResult(cp, t, v)
             completed == Append(cp.completed, <<t, v>>)
             conflicts == Conflicts(completed)
             failed == [u \in Tasks |-> IF u \in conflicts THEN "conflict_detected" ELSE cp.failed[u]]
             status == IF conflicts # {} THEN "CONFLICT" ELSE cp.status
  <1>1. cp \in Checkpoint /\ cp.failed \in Failures /\ cp.completed \in Seq(Entry)
        /\ cp.status \in Statuses
    BY CheckpointFields DEF Good
  <1>2. completed \in Seq(Entry)
    BY <1>1 DEF Entry
  <1>3. /\ DOMAIN completed = 1..(Len(cp.completed) + 1) /\ DOMAIN cp.completed = 1..Len(cp.completed)
        /\ Len(cp.completed) \in Nat
        /\ \A i \in DOMAIN cp.completed : completed[i] = cp.completed[i]
        /\ completed[Len(cp.completed) + 1] = <<t, v>>
    BY <1>1
  <1> HIDE DEF conflicts, completed
  <1>4. failed \in Failures /\ \A u \in Tasks : failed[u] = "invalid_result" => cp.failed[u] = "invalid_result"
    BY <1>1 DEF Failures
  <1>5. status \in Statuses
    BY <1>1 DEF Statuses
  <1>6. new = [cp EXCEPT !.dispatched = @ \cup {t}, !.completed = completed, !.failed = failed,
                         !.status = status]
    BY DEF AfterResult, completed, conflicts
  <1> HIDE DEF failed, status, new
  <1>7. /\ new.completed = completed /\ new.failed = failed
        /\ new.dispatched = cp.dispatched \cup {t}
        /\ new.paused = cp.paused /\ new.stopped = cp.stopped
    BY <1>1, <1>6 DEF Checkpoint
  <1>8. new \in Checkpoint
    BY <1>1, <1>2, <1>4, <1>5, <1>6 DEF Checkpoint, Statuses, Failures, Entry
  <1>9. CompletedTasks(new) \subseteq CompletedTasks(cp) \cup {t}
    <2> SUFFICES ASSUME NEW i \in DOMAIN completed
                 PROVE  completed[i][1] \in CompletedTasks(cp) \cup {t}
      BY <1>7 DEF CompletedTasks
    <2>1. i \in DOMAIN cp.completed \/ i = Len(cp.completed) + 1
      BY <1>3
    <2> QED
      BY <1>3, <2>1 DEF CompletedTasks
  <1>10. Keyed(new.completed)
    <2>1. \A i \in DOMAIN cp.completed : completed[i][1] # t
      BY <1>3 DEF CompletedTasks
    <2> SUFFICES ASSUME NEW i \in DOMAIN completed, NEW j \in DOMAIN completed,
                        completed[i][1] = completed[j][1]
                 PROVE  i = j
      BY <1>7 DEF Keyed
    <2>2. /\ i \in DOMAIN cp.completed \/ i = Len(cp.completed) + 1
          /\ j \in DOMAIN cp.completed \/ j = Len(cp.completed) + 1
      BY <1>3
    <2>3. completed[Len(cp.completed) + 1][1] = t
      BY <1>3
    <2>4. i \in DOMAIN cp.completed /\ j \in DOMAIN cp.completed => i = j
      BY <1>3 DEF Good, Keyed
    <2> QED
      BY <2>1, <2>2, <2>3, <2>4
  <1>11. Good(new, pl, log)
    BY <1>4, <1>7, <1>8, <1>9, <1>10 DEF Good
  <1> QED
    BY <1>7, <1>11 DEF new

----------------------------------------------------------------------------
(* Type correctness, the audit log and the dependencies, whoever runs beside. *)

\* What a process that is inside a method has in memory.
LEMMA InMethodFacts ==
    ASSUME RuntimeInv, NEW p \in Procs
    PROVE  /\ IsRunning(proc[p]) => Running(proc[p], plan, ordered, audit)
           /\ IsSaving(proc[p]) => SavingOne(proc[p], plan, ordered, audit)
           /\ proc[p].pc \in {"idle", "execute", "loop", "dispatch", "audit", "append", "open_tmp",
                             "fill_tmp", "replace"}
           /\ proc[p].pc = "idle" => proc[p] = Idle
           /\ proc[p].pc = "execute" => proc[p] = Executing
  <1>1. InMethod(proc[p], plan, ordered, audit)
    BY DEF RuntimeInv
  <1>2. CASE proc[p] = Idle \/ proc[p] = Executing
    BY <1>2 DEF Idle, Executing, IsRunning, IsSaving
  <1>3. CASE Running(proc[p], plan, ordered, audit)
    <2>1. proc[p].pc \in {"loop", "dispatch", "audit", "append"}
      BY <1>3 DEF Running, RunningState
    <2> QED
      BY <1>3, <2>1 DEF IsSaving
  <1>4. CASE SavingOne(proc[p], plan, ordered, audit)
    <2>1. proc[p].pc \in {"open_tmp", "fill_tmp", "replace"}
      BY <1>4 DEF SavingOne, SavingState
    <2> QED
      BY <1>4, <2>1 DEF IsRunning
  <1> QED
    BY <1>1, <1>2, <1>3, <1>4 DEF InMethod

\* What a method that starts finds in the file.
LEMMA LoadedGood ==
    ASSUME RuntimeInv, Readable(disk)
    PROVE  Good(Loaded, plan, audit)
  BY GoodNew DEF RuntimeInv, Loaded, Content, Readable

\* The task that a process works on, and what it depends on.
LEMMA TaskFacts ==
    ASSUME RuntimeInv, NEW p \in Procs, proc[p].pc \in {"dispatch", "audit", "append"}
    PROVE  /\ Running(proc[p], plan, ordered, audit)
           /\ Task(p) \in Tasks /\ Task(p) = ordered[proc[p].i]
           /\ proc[p].i \in DOMAIN ordered /\ Task(p) \notin proc[p].cp.dispatched
           /\ Task(p) \notin CompletedTasks(proc[p].cp)
           /\ ToSet(plan.depends_on[Task(p)]) \subseteq proc[p].cp.dispatched
  <1>1. Running(proc[p], plan, ordered, audit)
    BY InMethodFacts DEF IsRunning
  <1>2. /\ proc[p].i \in DOMAIN ordered /\ Task(p) = ordered[proc[p].i]
        /\ Task(p) \notin proc[p].cp.dispatched
        /\ CompletedTasks(proc[p].cp) \subseteq proc[p].cp.dispatched
        /\ \A j \in DOMAIN ordered : j < proc[p].i => ordered[j] \in proc[p].cp.dispatched
    BY <1>1 DEF Running, Task, Good, Behind
  <1>3. /\ ordered \in Seq(Tasks)
        /\ ToSet(plan.depends_on[Task(p)]) \subseteq {ordered[j] : j \in 1..proc[p].i - 1}
    BY <1>2 DEF RuntimeInv, DependenciesFirst
  <1>4. Task(p) \in Tasks /\ DOMAIN ordered = 1..Len(ordered) /\ Len(ordered) \in Nat
    BY <1>2, <1>3
  <1>5. \A j \in 1..proc[p].i - 1 : ordered[j] \in proc[p].cp.dispatched
    <2> SUFFICES ASSUME NEW j \in 1..proc[p].i - 1 PROVE ordered[j] \in proc[p].cp.dispatched
      OBVIOUS
    <2>1. j \in DOMAIN ordered /\ j < proc[p].i
      BY <1>2, <1>4
    <2> QED
      BY <1>2, <2>1
  <1> QED
    BY <1>1, <1>2, <1>3, <1>4, <1>5

\* A longer log takes nothing away from a process.
LEMMA InMethodLog ==
    ASSUME NEW pl, NEW order, NEW log, NEW more, NEW r, InMethod(r, pl, order, log),
           Len(log) \in Nat, Len(more) \in Nat, Len(log) <= Len(more),
           \A i \in DOMAIN log : i \in DOMAIN more /\ more[i] = log[i]
    PROVE  InMethod(r, pl, order, more)
  <1>1. CASE Running(r, pl, order, log)
    <2>1. Good(r.cp, pl, more)
      BY <1>1, GoodLog DEF Running
    <2>2. r.prev \in Nat
      BY <1>1 DEF Running, RunningState
    <2> QED
      BY <1>1, <2>1, <2>2 DEF Running, InMethod
  <1>2. CASE SavingOne(r, pl, order, log)
    <2>1. Good(r.cp, pl, more)
      BY <1>2, GoodLog DEF SavingOne
    <2> QED
      BY <1>2, <2>1 DEF SavingOne, InMethod
  <1> QED
    BY <1>1, <1>2 DEF InMethod

\* Every process has the right file open when p goes to next.
Handles(p, next) ==
    /\ handle' \in [Procs -> Files] /\ Opened(handle'[p], next)
    /\ \A q \in Procs : q # p => Opened(handle'[q], proc[q])

\* A step of one process that leaves the log alone: it is enough to look at that process and at
\* the files.
LEMMA OneProcess ==
    ASSUME RuntimeInv, NEW p \in Procs, NEW next, Goto(p, next),
           InMethod(next, plan, ordered, audit), UNCHANGED <<plan, ordered, audit>>,
           Content(disk', plan, audit), Content(tmp', plan, audit), Handles(p, next),
           calls' \in [Tasks -> Nat], crashes' \in 0..MaxCrashes
    PROVE  RuntimeInv'
  <1>1. next \in {Idle, Executing} \cup RunningState \cup SavingState
    BY DEF InMethod, Running, SavingOne
  <1> DEFINE States == {Idle, Executing} \cup RunningState \cup SavingState
  <1>2. proc \in [Procs -> States] /\ next \in States
    BY <1>1 DEF RuntimeInv
  <1> HIDE DEF States
  <1>3. /\ proc' \in [Procs -> States] /\ proc'[p] = next
        /\ \A q \in Procs : q # p => proc'[q] = proc[q]
    BY <1>2 DEF Goto
  <1>4. \A q \in Procs : InMethod(proc'[q], plan, ordered, audit)
    BY <1>3 DEF RuntimeInv
  <1>5. handle' \in [Procs -> Files] /\ \A q \in Procs : Opened(handle'[q], proc'[q])
    BY <1>3 DEF Handles
  <1> QED
    BY <1>3, <1>4, <1>5 DEF RuntimeInv, States

\* A step without the files.
LEMMA InMemory ==
    ASSUME RuntimeInv, NEW p \in Procs, NEW next, Goto(p, next),
           InMethod(next, plan, ordered, audit), UNCHANGED <<plan, ordered, audit>>,
           UNCHANGED <<disk, tmp, handle>>, proc[p].pc # "fill_tmp", next.pc # "fill_tmp",
           calls' \in [Tasks -> Nat], crashes' \in 0..MaxCrashes
    PROVE  RuntimeInv'
  <1>1. Handles(p, next)
    BY DEF RuntimeInv, Handles, Opened
  <1>2. Content(disk', plan, audit) /\ Content(tmp', plan, audit)
    BY DEF RuntimeInv
  <1> QED
    BY <1>1, <1>2, OneProcess

\* A method that saves.
LEMMA SavingFacts ==
    ASSUME NEW pl, NEW order, NEW log, NEW cp, Good(cp, pl, log),
           NEW then \in {"return", "execute", "loop"}, NEW i \in Nat,
           then = "loop" => i # 0 /\ Behind(cp, i, order)
    PROVE  InMethod(Saving(cp, then, i), pl, order, log)
  <1> DEFINE r == Saving(cp, then, i)
  <1>1. r.cp = cp /\ r.then = then /\ r.i = i
    BY DEF Saving
  <1>2. r \in SavingState
    <2>1. cp \in Checkpoint
      BY DEF Good
    <2> HIDE DEF Checkpoint
    <2> QED
      BY <2>1 DEF Saving, SavingState
  <1> HIDE DEF r
  <1> QED
    BY <1>1, <1>2 DEF SavingOne, InMethod, r

\* A method that runs the loop.
LEMMA InExecuteFacts ==
    ASSUME NEW pl, NEW order, NEW log, NEW cp, Good(cp, pl, log), NEW i \in Nat \ {0},
           Behind(cp, i, order), Len(log) \in Nat
    PROVE  InMethod(InExecute("loop", cp, i), pl, order, log)
  <1> DEFINE r == InExecute("loop", cp, i)
  <1>1. r.cp = cp /\ r.pc = "loop" /\ r.i = i /\ r.attempts = 0 /\ r.prev = 0
    BY DEF InExecute
  <1>2. r \in RunningState
    <2>1. cp \in Checkpoint /\ 0 \in 0..MaxRetries /\ Unset \in Values \cup {NoEvidence, Unset}
      BY RuntimeAssumption DEF Good
    <2> QED
      BY <2>1 DEF InExecute, RunningState
  <1> HIDE DEF r
  <1> QED
    BY <1>1, <1>2 DEF Running, InMethod, r

\* What pause, stop and resume save.
OperatorCopies ==
    {[Loaded EXCEPT !.paused = TRUE, !.status = "PAUSED"],
     [Loaded EXCEPT !.stopped = TRUE, !.status = "STOPPED"],
     [Loaded EXCEPT !.paused = FALSE, !.status = "RUNNING"]}

\* They change the operator's flags of what they load, and nothing else.
LEMMA OperatorFacts ==
    ASSUME RuntimeInv, Readable(disk), NEW new \in OperatorCopies
    PROVE  Good(new, plan, audit) /\ new.dispatched = Loaded.dispatched
  <1>1. Good(Loaded, plan, audit) /\ Loaded \in Checkpoint
    BY LoadedGood DEF Good
  <1> DEFINE Same(c) == /\ c \in Checkpoint /\ c.completed = Loaded.completed
                        /\ c.failed = Loaded.failed /\ c.dispatched = Loaded.dispatched
  <1>2. Same([Loaded EXCEPT !.paused = TRUE, !.status = "PAUSED"])
    BY <1>1 DEF Checkpoint
  <1>3. Same([Loaded EXCEPT !.stopped = TRUE, !.status = "STOPPED"])
    BY <1>1 DEF Checkpoint
  <1>4. Same([Loaded EXCEPT !.paused = FALSE, !.status = "RUNNING"])
    BY <1>1 DEF Checkpoint
  <1>5. Same(new)
    <2> HIDE DEF Same
    <2> QED
      BY <1>2, <1>3, <1>4, Zenon DEF OperatorCopies
  <1> QED
    BY <1>1, <1>5, GoodSame

\* The methods of the operator.
LEMMA OperatorStep ==
    ASSUME RuntimeInv, NEW p \in Procs, Pause(p) \/ Stop(p) \/ Resume(p)
    PROVE  RuntimeInv'
  <1>1. PICK new \in OperatorCopies, then \in {"return", "execute"} : Goto(p, Saving(new, then, 0))
    BY DEF Pause, Stop, Resume, OperatorCopies
  <1>2. InMethod(Saving(new, then, 0), plan, ordered, audit)
    <2>1. Readable(disk)
      BY DEF Pause, Stop, Resume, MayStart
    <2> QED
      BY <2>1, OperatorFacts, SavingFacts
  <1>3. /\ UNCHANGED <<plan, ordered, audit>> /\ UNCHANGED <<disk, tmp, handle>>
        /\ calls' = calls /\ crashes' = crashes
    BY DEF Pause, Stop, Resume
  <1>4. proc[p].pc = "idle" /\ Saving(new, then, 0).pc = "open_tmp"
    BY DEF Pause, Stop, Resume, MayStart, Idle, Saving
  <1> QED
    BY <1>1, <1>2, <1>3, <1>4, InMemory DEF RuntimeInv

\* execute loads the checkpoint.
LEMMA ExecuteStep ==
    ASSUME RuntimeInv, NEW p \in Procs, Execute(p) \/ ExecuteFails(p)
    PROVE  RuntimeInv'
  <1>0. CASE ExecuteFails(p)
    <2>1. /\ UNCHANGED <<plan, ordered, audit>> /\ UNCHANGED <<disk, tmp, handle>>
          /\ calls' = calls /\ crashes' = crashes /\ Goto(p, Idle) /\ proc[p].pc = "execute"
      BY <1>0 DEF ExecuteFails
    <2>2. Idle.pc = "idle" /\ InMethod(Idle, plan, ordered, audit)
      BY DEF Idle, InMethod
    <2> QED
      BY <2>1, <2>2, InMemory DEF RuntimeInv
  <1> SUFFICES ASSUME Execute(p) PROVE RuntimeInv'
    BY <1>0
  <1>1. Good(Loaded, plan, audit) /\ Len(audit) \in Nat
    <2>1. Readable(disk)
      BY DEF Execute, MayStart
    <2> QED
      BY <2>1, LoadedGood DEF RuntimeInv
  <1>2. Behind(Loaded, 1, ordered)
    <2>1. DOMAIN ordered = 1..Len(ordered) /\ Len(ordered) \in Nat
      BY DEF RuntimeInv, DependenciesFirst
    <2> QED
      BY <2>1 DEF Behind
  <1>3. PICK next \in {Idle, InExecute("loop", Loaded, 1)} : Goto(p, next)
    BY DEF Execute
  <1>4. InMethod(next, plan, ordered, audit)
    BY <1>1, <1>2, InExecuteFacts DEF InMethod
  <1>5. /\ UNCHANGED <<plan, ordered, audit>> /\ UNCHANGED <<disk, tmp, handle>>
        /\ calls' = calls /\ crashes' = crashes
    BY DEF Execute
  <1>6. proc[p].pc \in {"idle", "execute"} /\ next.pc \in {"idle", "loop"}
    BY <1>3 DEF Execute, MayStart, Idle, InExecute
  <1> QED
    BY <1>3, <1>4, <1>5, <1>6, InMemory DEF RuntimeInv

\* Skip, StartDispatch, Timeout and Finish: the loop without the dispatcher.
LEMMA LoopStep ==
    ASSUME RuntimeInv, NEW p \in Procs, Skip(p) \/ StartDispatch(p) \/ Timeout(p) \/ Finish(p)
    PROVE  RuntimeInv'
  <1>1. proc[p].pc = "loop" /\ Running(proc[p], plan, ordered, audit)
    <2>1. proc[p].pc = "loop"
      BY DEF Skip, StartDispatch, Timeout, Finish, AtTask
    <2> QED
      BY <2>1, InMethodFacts DEF IsRunning
  <1>2. /\ proc[p] \in RunningState /\ Good(proc[p].cp, plan, audit)
        /\ Behind(proc[p].cp, proc[p].i, ordered) /\ proc[p].prev <= Len(audit)
        /\ proc[p].i \in Nat \ {0} /\ proc[p].attempts = 0
    <2>1. proc[p] \in RunningState
      BY <1>1 DEF Running
    <2> QED
      BY <1>1, <2>1 DEF Running, RunningState
  <1>3. /\ UNCHANGED <<plan, ordered, audit>> /\ UNCHANGED <<disk, tmp, handle>>
        /\ calls' = calls /\ crashes' = crashes
    BY DEF Skip, StartDispatch, Timeout, Finish
  <1>4. DOMAIN ordered = 1..Len(ordered) /\ Len(ordered) \in Nat
    BY DEF RuntimeInv, DependenciesFirst
  <1>5. CASE Skip(p)
    <2> DEFINE r == proc[p]
               next == [r EXCEPT !.i = @ + 1]
    <2>1. Goto(p, next) /\ r.i \in DOMAIN ordered /\ ordered[r.i] \in r.cp.dispatched
      <3>1. Goto(p, next) /\ AtTask(p) /\ Skipped(r.cp, Task(p))
        BY <1>5 DEF Skip
      <3>2. CompletedTasks(r.cp) \subseteq r.cp.dispatched
        BY <1>2 DEF Good
      <3> QED
        BY <1>2, <1>4, <3>1, <3>2 DEF AtTask, Skipped, Task
    <2> HIDE DEF r
    <2>2. /\ next \in RunningState /\ next.pc = r.pc /\ next.cp = r.cp /\ next.i = r.i + 1
          /\ next.prev = r.prev /\ next.attempts = r.attempts
      BY <1>2 DEF RunningState, r
    <2> HIDE DEF next
    <2>3. Behind(r.cp, r.i + 1, ordered)
      <3> SUFFICES ASSUME NEW j \in DOMAIN ordered, j < r.i + 1 PROVE ordered[j] \in r.cp.dispatched
        BY DEF Behind
      <3>1. j < r.i \/ j = r.i
        BY <1>2, <1>4 DEF r
      <3> QED
        BY <1>2, <2>1, <3>1 DEF Behind, r
    <2>4. InMethod(next, plan, ordered, audit)
      BY <1>1, <1>2, <2>2, <2>3 DEF Running, InMethod, r
    <2> QED
      BY <1>1, <1>3, <2>1, <2>2, <2>4, InMemory DEF RuntimeInv, r
  <1>6. CASE StartDispatch(p)
    <2> DEFINE r == proc[p]
               next == [r EXCEPT !.pc = "dispatch"]
    <2>1. Goto(p, next) /\ r.i \in DOMAIN ordered /\ ordered[r.i] \notin r.cp.dispatched
      <3>1. Goto(p, next) /\ AtTask(p) /\ ~Skipped(r.cp, Task(p))
        BY <1>6 DEF StartDispatch
      <3> QED
        BY <1>2, <1>4, <3>1 DEF AtTask, Skipped, Task
    <2> HIDE DEF r
    <2>2. /\ next \in RunningState /\ next.pc = "dispatch" /\ next.cp = r.cp /\ next.i = r.i
          /\ next.prev = r.prev
      BY <1>2 DEF RunningState, r
    <2> HIDE DEF next
    <2>3. InMethod(next, plan, ordered, audit)
      BY <1>2, <2>1, <2>2 DEF Running, InMethod, r
    <2> QED
      BY <1>1, <1>3, <2>1, <2>2, <2>3, InMemory DEF RuntimeInv, r
  <1>7. CASE Timeout(p) \/ Finish(p)
    <2>1. PICK status \in {"TIMEOUT", "COMPLETED"} :
            Goto(p, Saving([proc[p].cp EXCEPT !.status = status], "return", 0))
      BY <1>7 DEF Timeout, Finish
    <2> DEFINE new == [proc[p].cp EXCEPT !.status = status]
    <2>2. /\ new \in Checkpoint /\ new.completed = proc[p].cp.completed
          /\ new.failed = proc[p].cp.failed /\ new.dispatched = proc[p].cp.dispatched
      <3>1. proc[p].cp \in Checkpoint
        BY <1>2 DEF Good
      <3> QED
        BY <3>1 DEF Checkpoint
    <2> HIDE DEF new
    <2>3. Good(new, plan, audit)
      BY <1>2, <2>2, GoodSame
    <2>4. InMethod(Saving(new, "return", 0), plan, ordered, audit)
      BY <2>3, SavingFacts
    <2>5. Saving(new, "return", 0).pc = "open_tmp"
      BY DEF Saving
    <2> QED
      BY <1>1, <1>3, <2>1, <2>4, <2>5, InMemory DEF RuntimeInv, new
  <1> QED
    BY <1>5, <1>6, <1>7

\* What the dispatcher's answer, or its exception, makes of a process.
LEMMA DispatchNext ==
    ASSUME RuntimeInv, NEW p \in Procs, DispatchAccepted(p) \/ DispatchRejected(p) \/ DispatchRetry(p)
    PROVE  \E next :
             /\ Goto(p, next) /\ next \in RunningState /\ next.pc \in {"dispatch", "audit"}
             /\ next.cp = proc[p].cp /\ next.i = proc[p].i /\ next.prev = proc[p].prev
             /\ next.pc = "dispatch" => next.attempts = proc[p].attempts + 1
  <1> DEFINE r == proc[p]
             Goal(next) == /\ Goto(p, next) /\ next \in RunningState /\ next.pc \in {"dispatch", "audit"}
                           /\ next.cp = r.cp /\ next.i = r.i /\ next.prev = r.prev
                           /\ next.pc = "dispatch" => next.attempts = r.attempts + 1
  <1>1. r.pc = "dispatch" /\ r \in RunningState
    <2>1. r.pc = "dispatch"
      BY DEF DispatchAccepted, DispatchRejected, DispatchRetry
    <2> QED
      BY <2>1, TaskFacts DEF Running
  <1>2. ASSUME NEW v \in Values \cup {NoEvidence, Unset},
               Goto(p, [r EXCEPT !.pc = "audit", !.result = v])
        PROVE  \E next : Goal(next)
    <2> DEFINE next == [r EXCEPT !.pc = "audit", !.result = v]
    <2>1. /\ next \in RunningState /\ next.pc = "audit" /\ next.cp = r.cp /\ next.i = r.i
          /\ next.prev = r.prev
      BY <1>1 DEF RunningState
    <2> HIDE DEF next, r
    <2> QED
      BY <1>2, <2>1 DEF next
  <1>3. CASE RetriesLeft(r.attempts + 1) /\ Goto(p, [r EXCEPT !.attempts = r.attempts + 1])
    <2> DEFINE next == [r EXCEPT !.attempts = r.attempts + 1]
    <2>1. r.attempts + 1 \in 0..MaxRetries
      BY <1>1, <1>3, RuntimeAssumption DEF RunningState, RetriesLeft
    <2>2. /\ next \in RunningState /\ next.pc = "dispatch" /\ next.cp = r.cp /\ next.i = r.i
          /\ next.prev = r.prev /\ next.attempts = r.attempts + 1
      BY <1>1, <2>1 DEF RunningState
    <2> HIDE DEF next, r
    <2> QED
      BY <1>3, <2>2 DEF next, r
  <1> QED
    BY <1>2, <1>3 DEF DispatchAccepted, DispatchRejected, DispatchRetry

\* The dispatcher is called.
LEMMA DispatchStep ==
    ASSUME RuntimeInv, NEW p \in Procs, DispatchAccepted(p) \/ DispatchRejected(p) \/ DispatchRetry(p)
    PROVE  RuntimeInv'
  <1> DEFINE r == proc[p]
  <1>1. r.pc = "dispatch" /\ Running(r, plan, ordered, audit) /\ Task(p) \in Tasks
    <2>1. r.pc = "dispatch"
      BY DEF DispatchAccepted, DispatchRejected, DispatchRetry
    <2> QED
      BY <2>1, TaskFacts
  <1>2. /\ UNCHANGED <<plan, ordered, audit>> /\ UNCHANGED <<disk, tmp, handle>> /\ crashes' = crashes
        /\ calls' = [calls EXCEPT ![Task(p)] = @ + 1]
    BY DEF DispatchAccepted, DispatchRejected, DispatchRetry, Called
  <1>3. calls' \in [Tasks -> Nat]
    BY <1>1, <1>2 DEF RuntimeInv
  <1>4. PICK next : /\ Goto(p, next) /\ next \in RunningState /\ next.pc \in {"dispatch", "audit"}
                    /\ next.cp = r.cp /\ next.i = r.i /\ next.prev = r.prev
    BY DispatchNext
  <1>5. InMethod(next, plan, ordered, audit)
    <2> HIDE DEF r
    <2>1. next.pc # "loop" /\ r.pc # "loop"
      BY <1>1, <1>4
    <2> QED
      BY <1>1, <1>4, <2>1 DEF Running, InMethod
  <1> QED
    BY <1>1, <1>2, <1>3, <1>4, <1>5, InMemory DEF RuntimeInv

\* The last record of the log is read.
LEMMA ReadAuditStep ==
    ASSUME RuntimeInv, NEW p \in Procs, ReadAudit(p)
    PROVE  RuntimeInv'
  <1> DEFINE r == proc[p]
             next == [r EXCEPT !.pc = "append", !.prev = Len(audit)]
  <1>1. r.pc = "audit" /\ Running(r, plan, ordered, audit) /\ Len(audit) \in Nat
    <2>1. r.pc = "audit" /\ Len(audit) \in Nat
      BY DEF ReadAudit, RuntimeInv
    <2> QED
      BY <2>1, TaskFacts
  <1>2. Goto(p, next)
    BY DEF ReadAudit
  <1>3. /\ UNCHANGED <<plan, ordered, audit>> /\ UNCHANGED <<disk, tmp, handle>> /\ crashes' = crashes
        /\ calls' = calls
    BY DEF ReadAudit
  <1>4. /\ next \in RunningState /\ next.pc = "append" /\ next.cp = r.cp /\ next.i = r.i
        /\ next.prev = Len(audit)
    BY <1>1 DEF Running, RunningState
  <1> HIDE DEF next, r
  <1>5. InMethod(next, plan, ordered, audit)
    BY <1>1, <1>4 DEF Running, InMethod
  <1> QED
    BY <1>1, <1>2, <1>3, <1>4, <1>5, InMemory DEF RuntimeInv, r

\* What a process may put into the file that it has open.
LEMMA FilledContent ==
    ASSUME NEW old, NEW cp, NEW pl, NEW log, Good(cp, pl, log), NEW new \in Filled(old, Sorted(cp))
    PROVE  Content(new, pl, log)
  <1>1. Good(Sorted(cp), pl, log)
    BY GoodSorted
  <1>2. new \in {Sorted(cp), Torn}
    BY DEF Filled
  <1> QED
    BY <1>1, <1>2 DEF Content

\* The temporary file is opened, filled, or replaces the checkpoint, or it is gone.
LEMMA SaveStep ==
    ASSUME RuntimeInv, NEW p \in Procs, OpenTmp(p) \/ FillTmp(p) \/ Replace(p) \/ ReplaceFails(p)
    PROVE  RuntimeInv'
  <1> DEFINE r == proc[p]
  <1>0. Len(audit) \in Nat
    BY DEF RuntimeInv
  <1>1. IsSaving(r) /\ SavingOne(r, plan, ordered, audit)
    <2>1. IsSaving(r)
      BY DEF OpenTmp, FillTmp, Replace, ReplaceFails, IsSaving
    <2> QED
      BY <2>1, InMethodFacts
  <1>2. /\ r \in SavingState /\ Good(r.cp, plan, audit) /\ r.i \in Nat
        /\ r.then \in {"return", "execute", "loop"}
        /\ r.then = "loop" => r.i # 0 /\ Behind(r.cp, r.i, ordered)
    <2>1. r \in SavingState
      BY <1>1 DEF SavingOne
    <2> QED
      BY <1>1, <2>1 DEF SavingOne, SavingState
  <1>3. /\ Content(disk, plan, audit) /\ Content(tmp, plan, audit)
        /\ handle \in [Procs -> Files] /\ \A q \in Procs : Opened(handle[q], proc[q])
    BY DEF RuntimeInv
  <1>4. CASE OpenTmp(p) \/ FillTmp(p)
    <2>1. PICK pc \in {"fill_tmp", "replace"} :
            /\ Goto(p, [r EXCEPT !.pc = pc])
            /\ (OpenTmp(p) /\ pc = "fill_tmp") \/ (FillTmp(p) /\ pc = "replace")
      BY <1>4 DEF OpenTmp, FillTmp
    <2> DEFINE next == [r EXCEPT !.pc = pc]
    <2>2. UNCHANGED <<plan, ordered, audit>> /\ crashes' = crashes /\ calls' = calls
      BY <1>4 DEF OpenTmp, FillTmp
    <2>3. /\ next \in SavingState /\ next.cp = r.cp /\ next.then = r.then /\ next.i = r.i
          /\ next.pc = pc
      BY <1>2 DEF SavingState
    <2>4. Content(disk', plan, audit) /\ Content(tmp', plan, audit)
      <3>1. CASE OpenTmp(p)
        BY <1>3, <3>1 DEF OpenTmp, Content
      <3>2. CASE FillTmp(p)
        <4>1. /\ tmp' = tmp \/ tmp' \in Filled(tmp, Sorted(r.cp))
              /\ disk' = disk \/ disk' \in Filled(disk, Sorted(r.cp))
          BY <3>2 DEF FillTmp
        <4> HIDE DEF r
        <4> QED
          BY <1>2, <1>3, <4>1, FilledContent
      <3> QED
        BY <1>4, <3>1, <3>2
    <2> HIDE DEF next
    <2>5. Handles(p, next)
      <3>1. PICK file \in {"none", "tmp"} :
              handle' = [handle EXCEPT ![p] = file] /\ Opened(file, next)
        BY <2>1, <2>3 DEF OpenTmp, FillTmp, Opened
      <3>2. /\ handle' \in [Procs -> Files] /\ handle'[p] = file
            /\ \A q \in Procs : q # p => handle'[q] = handle[q]
        BY <1>3, <3>1 DEF Files
      <3> QED
        BY <1>3, <3>1, <3>2 DEF Handles
    <2>6. InMethod(next, plan, ordered, audit)
      <3> HIDE DEF r
      <3> QED
        BY <1>2, <2>3 DEF SavingOne, InMethod
    <2>7. Goto(p, next)
      BY <2>1 DEF next
    <2> QED
      BY <2>2, <2>4, <2>5, <2>6, <2>7, OneProcess DEF RuntimeInv
  <1>5. CASE Replace(p)
    <2>1. /\ UNCHANGED <<plan, ordered, audit>> /\ disk' = tmp /\ tmp' = NoFile
          /\ crashes' = crashes /\ calls' = calls /\ Goto(p, AfterSave(p)) /\ r.pc = "replace"
          /\ handle' = [q \in Procs |-> Renamed(handle[q])]
      BY <1>5 DEF Replace
    <2>2. InMethod(AfterSave(p), plan, ordered, audit) /\ AfterSave(p).pc # "fill_tmp"
      <3>1. CASE r.then = "return"
        BY <3>1 DEF AfterSave, InMethod, Idle
      <3>2. CASE r.then = "execute"
        BY <3>2 DEF AfterSave, InMethod, Executing
      <3>3. CASE r.then = "loop"
        <4>1. AfterSave(p) = InExecute("loop", r.cp, r.i) /\ InExecute("loop", r.cp, r.i).pc = "loop"
          BY <3>3 DEF AfterSave, InExecute
        <4> HIDE DEF r
        <4> QED
          BY <1>0, <1>2, <3>3, <4>1, InExecuteFacts
      <3> QED
        BY <1>2, <3>1, <3>2, <3>3
    <2>3. Content(disk', plan, audit) /\ Content(tmp', plan, audit)
      BY <1>3, <2>1 DEF Content
    <2>4. Handles(p, AfterSave(p))
      <3>1. /\ \A file \in Files : Renamed(file) \in Files
            /\ \A file, s : Opened(file, s) => Opened(Renamed(file), s)
        BY DEF Files, Renamed, Opened
      <3>2. Opened(Renamed(handle[p]), AfterSave(p))
        BY <1>3, <2>1, <2>2 DEF Opened, Renamed
      <3> QED
        BY <1>3, <2>1, <3>1, <3>2 DEF Handles
    <2> QED
      BY <2>1, <2>2, <2>3, <2>4, OneProcess DEF RuntimeInv
  <1>6. CASE ReplaceFails(p)
    <2>1. /\ UNCHANGED <<plan, ordered, audit>> /\ UNCHANGED <<disk, tmp, handle>>
          /\ crashes' = crashes /\ calls' = calls /\ Goto(p, Idle) /\ r.pc = "replace"
      BY <1>6 DEF ReplaceFails
    <2>2. Idle.pc = "idle"
      BY DEF Idle
    <2> QED
      BY <2>1, <2>2, InMemory DEF RuntimeInv, InMethod
  <1> QED
    BY <1>4, <1>5, <1>6

\* A process dies, and may leave a torn file.
LEMMA CrashStep ==
    ASSUME RuntimeInv, NEW p \in Procs, Crash(p)
    PROVE  RuntimeInv'
  <1>1. /\ UNCHANGED <<plan, ordered, audit>> /\ disk' \in {disk, Torn} /\ tmp' \in {tmp, Torn}
        /\ crashes' = crashes + 1 /\ crashes < MaxCrashes /\ calls' = calls /\ Goto(p, Idle)
        /\ handle' = [handle EXCEPT ![p] = "none"]
    BY DEF Crash
  <1>2. crashes' \in 0..MaxCrashes
    BY <1>1, RuntimeAssumption DEF RuntimeInv
  <1>3. Content(disk', plan, audit) /\ Content(tmp', plan, audit)
    BY <1>1 DEF RuntimeInv, Content
  <1>4. Handles(p, Idle)
    <2>1. handle \in [Procs -> Files] /\ \A q \in Procs : Opened(handle[q], proc[q])
      BY DEF RuntimeInv
    <2>2. /\ handle' \in [Procs -> Files] /\ handle'[p] = "none"
          /\ \A q \in Procs : q # p => handle'[q] = handle[q]
      BY <1>1, <2>1 DEF Files
    <2> QED
      BY <2>1, <2>2 DEF Handles, Opened, Idle
  <1> QED
    BY <1>1, <1>2, <1>3, <1>4, OneProcess DEF RuntimeInv, InMethod

\* The log gets a record of the task, and keeps all it has.
LEMMA AppendFacts ==
    ASSUME RuntimeInv, NEW p \in Procs, proc[p].pc = "append",
           NEW kind \in {"task_completed", "task_failed"}, AppendAudit(p, kind)
    PROVE  /\ audit' \in Seq(Record) /\ \A i \in DOMAIN audit' : audit'[i].prev <= i - 1
           /\ Len(audit) \in Nat /\ Len(audit') \in Nat /\ Len(audit) <= Len(audit')
           /\ \A i \in DOMAIN audit : i \in DOMAIN audit' /\ audit'[i] = audit[i]
           /\ InLog(kind, Task(p), audit')
  <1> DEFINE record == [kind |-> kind, task |-> Task(p), prev |-> proc[p].prev]
  <1>1. Task(p) \in Tasks /\ proc[p].prev \in Nat /\ proc[p].prev <= Len(audit)
    <2>1. Running(proc[p], plan, ordered, audit) /\ Task(p) \in Tasks
      BY TaskFacts
    <2> QED
      BY <2>1 DEF Running, RunningState
  <1>2. record \in Record /\ record.kind = kind /\ record.task = Task(p) /\ record.prev = proc[p].prev
    BY <1>1 DEF Record
  <1>3. audit \in Seq(Record) /\ \A i \in DOMAIN audit : audit[i].prev <= i - 1
    BY DEF RuntimeInv
  <1>4. audit' = Append(audit, record)
    BY DEF AppendAudit
  <1> HIDE DEF record
  <1>5. /\ Len(audit) \in Nat /\ DOMAIN audit = 1..Len(audit)
        /\ audit' \in Seq(Record) /\ Len(audit') = Len(audit) + 1
        /\ DOMAIN audit' = 1..(Len(audit) + 1)
        /\ \A i \in DOMAIN audit : audit'[i] = audit[i]
        /\ audit'[Len(audit) + 1] = record
    <2> HIDE DEF Record
    <2> QED
      BY <1>2, <1>3, <1>4
  <1>6. \A i \in DOMAIN audit' : audit'[i].prev <= i - 1
    <2> SUFFICES ASSUME NEW i \in DOMAIN audit' PROVE audit'[i].prev <= i - 1
      OBVIOUS
    <2>1. CASE i \in DOMAIN audit
      BY <1>3, <1>5, <2>1
    <2>2. CASE i = Len(audit) + 1
      BY <1>1, <1>2, <1>5, <2>2
    <2> QED
      BY <1>5, <2>1, <2>2
  <1>7. InLog(kind, Task(p), audit')
    <2>1. Len(audit) + 1 \in DOMAIN audit'
      BY <1>5
    <2> QED
      BY <1>2, <1>5, <2>1 DEF InLog
  <1> QED
    BY <1>5, <1>6, <1>7

\* A result or a failure is recorded: the event, and the checkpoint that will be saved.
LEMMA RecordStep ==
    ASSUME RuntimeInv, NEW p \in Procs, RecordFailure(p) \/ RecordResult(p)
    PROVE  RuntimeInv'
  <1> DEFINE r == proc[p]
             t == Task(p)
  <1>1. /\ r.pc = "append" /\ Running(r, plan, ordered, audit) /\ t \in Tasks
        /\ t = ordered[r.i] /\ r.i \in DOMAIN ordered /\ t \notin CompletedTasks(r.cp)
        /\ ToSet(plan.depends_on[t]) \subseteq r.cp.dispatched
    <2>1. r.pc = "append"
      BY DEF RecordFailure, RecordResult
    <2> QED
      BY <2>1, TaskFacts
  <1>2. r.result \in Values \cup {NoEvidence, Unset} /\ r.i \in Nat \ {0} /\ Behind(r.cp, r.i, ordered)
    <2>1. r \in RunningState
      BY <1>1 DEF Running
    <2> QED
      BY <1>1, <2>1 DEF Running, RunningState
  <1>3. PICK kind \in {"task_completed", "task_failed"} :
          /\ AppendAudit(p, kind)
          /\ r.result = Unset <=> kind = "task_failed"
    BY DEF RecordFailure, RecordResult
  <1>4. /\ audit' \in Seq(Record) /\ \A i \in DOMAIN audit' : audit'[i].prev <= i - 1
        /\ Len(audit) \in Nat /\ Len(audit') \in Nat /\ Len(audit) <= Len(audit')
        /\ \A i \in DOMAIN audit : i \in DOMAIN audit' /\ audit'[i] = audit[i]
        /\ InLog(kind, t, audit')
    BY <1>1, <1>3, AppendFacts
  <1>5. /\ UNCHANGED <<plan, ordered>> /\ disk' = disk /\ tmp' = tmp /\ handle' = handle
        /\ calls' = calls /\ crashes' = crashes
    BY DEF RecordFailure, RecordResult
  <1>6. Good(r.cp, plan, audit')
    <2>1. Good(r.cp, plan, audit)
      BY <1>1 DEF Running
    <2> QED
      BY <1>4, <2>1, GoodLog
  <1>7. \E next : Goto(p, next) /\ InMethod(next, plan, ordered, audit') /\ next.pc = "open_tmp"
    <2>0. \A cp, then, i : Saving(cp, then, i).pc = "open_tmp"
      BY DEF Saving
    <2>1. CASE RecordFailure(p)
      <3>1. kind = "task_failed" /\ Goto(p, Saving(AfterFailure(r.cp, t), "return", 0))
        BY <1>3, <2>1 DEF RecordFailure
      <3>2. Good(AfterFailure(r.cp, t), plan, audit')
        BY <1>1, <1>4, <1>6, <3>1, GoodFailure
      <3>3. InMethod(Saving(AfterFailure(r.cp, t), "return", 0), plan, ordered, audit')
        BY <3>2, SavingFacts
      <3> QED
        BY <2>0, <3>1, <3>3
    <2>2. CASE RecordResult(p)
      <3> DEFINE new == AfterResult(r.cp, t, r.result)
      <3>1. /\ kind = "task_completed" /\ r.result \in Values \cup {NoEvidence}
            /\ \/ Goto(p, Saving(new, "return", 0))
               \/ Goto(p, Saving(new, "loop", r.i + 1))
        BY <1>2, <1>3, <2>2 DEF RecordResult
      <3>2. Good(new, plan, audit') /\ new.dispatched = r.cp.dispatched \cup {t}
        BY <1>1, <1>4, <1>6, <3>1, GoodResult
      <3> HIDE DEF new
      <3>3. InMethod(Saving(new, "return", 0), plan, ordered, audit')
        BY <3>2, SavingFacts
      <3>4. Behind(new, r.i + 1, ordered)
        <4> SUFFICES ASSUME NEW j \in DOMAIN ordered, j < r.i + 1 PROVE ordered[j] \in new.dispatched
          BY DEF Behind
        <4>1. DOMAIN ordered = 1..Len(ordered) /\ Len(ordered) \in Nat
          BY DEF RuntimeInv, DependenciesFirst
        <4>2. j < r.i \/ j = r.i
          BY <1>2, <4>1
        <4> HIDE DEF r, t
        <4> QED
          BY <1>1, <1>2, <3>2, <4>2 DEF Behind
      <3>5. InMethod(Saving(new, "loop", r.i + 1), plan, ordered, audit')
        <4>1. r.i + 1 \in Nat /\ r.i + 1 # 0
          BY <1>2
        <4> HIDE DEF r
        <4> QED
          BY <3>2, <3>4, <4>1, SavingFacts
      <3> QED
        BY <2>0, <3>1, <3>3, <3>5
    <2> QED
      BY <2>1, <2>2
  <1>8. PICK next : Goto(p, next) /\ InMethod(next, plan, ordered, audit') /\ next.pc = "open_tmp"
    BY <1>7
  <1> DEFINE States == {Idle, Executing} \cup RunningState \cup SavingState
  <1>9. proc \in [Procs -> States] /\ next \in States
    BY <1>8 DEF InMethod, Running, SavingOne, RuntimeInv
  <1> HIDE DEF States
  <1>10. /\ proc' \in [Procs -> States] /\ proc'[p] = next
         /\ \A q \in Procs : q # p => proc'[q] = proc[q]
    BY <1>8, <1>9 DEF Goto
  <1>11. \A q \in Procs : InMethod(proc'[q], plan, ordered, audit')
    <2>1. \A q \in Procs : InMethod(proc[q], plan, ordered, audit')
      BY <1>4, InMethodLog DEF RuntimeInv
    <2> QED
      BY <1>8, <1>10, <2>1
  <1>12. Content(disk, plan, audit') /\ Content(tmp, plan, audit')
    BY <1>4, GoodLog DEF RuntimeInv, Content
  <1>13. \A q \in Procs : Opened(handle[q], proc'[q])
    BY <1>1, <1>8, <1>10 DEF RuntimeInv, Opened
  <1> QED
    BY <1>4, <1>5, <1>10, <1>11, <1>12, <1>13 DEF RuntimeInv, States

\* Every step.
LEMMA RuntimeStep ==
    ASSUME RuntimeInv, [Next]_vars
    PROVE  RuntimeInv'
  <1>1. CASE UNCHANGED vars
    BY <1>1 DEF vars, RuntimeInv
  <1>2. ASSUME NEW p \in Procs,
               Pause(p) \/ Stop(p) \/ Resume(p) \/ Execute(p) \/ Work(p) \/ Crash(p)
        PROVE  RuntimeInv'
    BY <1>2, OperatorStep, ExecuteStep, LoopStep, DispatchStep, ReadAuditStep, RecordStep, SaveStep,
       CrashStep DEF Work
  <1> QED
    BY <1>1, <1>2 DEF Next

\* The first state: no file, no record, no call.
LEMMA RuntimeInit ==
    ASSUME Init
    PROVE  RuntimeInv
  <1>1. plan \in Plans /\ DependenciesFirst(plan, ordered)
    <2>1. plan \in Plans /\ ValidPlan(plan, MaxHops) /\ ordered = Ordered(plan)
      BY DEF Init
    <2>2. plan \in Plan
      BY <2>1, RuntimeAssumption DEF RuntimeAssumption
    <2> QED BY <2>1, <2>2, PlanOrdered
  <1>2. /\ disk = NoFile /\ tmp = NoFile /\ handle = [p \in Procs |-> "none"]
        /\ audit = <<>> /\ crashes = 0
        /\ proc = [p \in Procs |-> Idle] /\ calls = [t \in Tasks |-> 0]
    BY DEF Init
  <1>3. audit \in Seq(Record) /\ \A i \in DOMAIN audit : audit[i].prev <= i - 1
    <2> HIDE DEF Record
    <2> QED
      BY <1>2
  <1>4. \A p \in Procs : InMethod(proc[p], plan, ordered, audit)
    BY <1>2 DEF InMethod
  <1>5. proc \in [Procs -> {Idle, Executing} \cup RunningState \cup SavingState]
    BY <1>2
  <1>6. crashes \in 0..MaxCrashes /\ calls \in [Tasks -> Nat]
    BY <1>2, RuntimeAssumption
  <1>7. /\ Content(disk, plan, audit) /\ Content(tmp, plan, audit)
        /\ handle \in [Procs -> Files] /\ \A p \in Procs : Opened(handle[p], proc[p])
    BY <1>2 DEF Content, Files, Opened, Idle
  <1> QED
    BY <1>1, <1>2, <1>3, <1>4, <1>5, <1>6, <1>7 DEF RuntimeInv

----------------------------------------------------------------------------
(* One method at a time: the calls are accounted for, and the operator is obeyed. *)

AccountedWith(r, file, order, count, lost) ==
    /\ \A t \in Tasks \ file.dispatched : ~Pending(r, t, order) => count[t] <= lost
    /\ r.pc = "dispatch" => count[order[r.i]] <= lost + r.attempts

\* A process that takes a step is alone inside a method, before and after it.
LEMMA AloneNow ==
    ASSUME RuntimeInv, AloneInv, Exclusive, NEW p \in Procs,
           Pause(p) \/ Stop(p) \/ Resume(p) \/ Execute(p) \/ Work(p) \/ Crash(p)
    PROVE  /\ \A q \in Procs : q # p => proc[q] = Idle
           /\ AccountedWith(proc[p], Loaded, ordered, calls, Lost)
           /\ InStepWith(proc[p], Loaded, tmp)
           /\ Readable(disk) /\ \A q \in Procs : handle[q] \in {"none", "tmp"}
           /\ \A q \in Procs : q # p => handle[q] = "none"
  <1>1. proc[p] # Idle \/ \A q \in Procs : proc[q] = Idle
    <2> SUFFICES ASSUME proc[p] = Idle PROVE \A q \in Procs : proc[q] = Idle
      OBVIOUS
    <2>1. proc[p].pc = "idle"
      BY DEF Idle
    <2>2. ~Work(p)
      BY <2>1 DEF Work, Skip, Timeout, StartDispatch, AtTask, DispatchAccepted, DispatchRejected,
                  DispatchRetry, ReadAudit, RecordFailure, RecordResult, Finish, OpenTmp, FillTmp,
                  Replace, ReplaceFails, ExecuteFails
    <2>3. MayStart(p)
      BY <2>1, <2>2 DEF Pause, Stop, Resume, Execute, Crash
    <2> QED
      BY <2>3 DEF MayStart
  <1>2. \A q \in Procs : q # p => proc[q] = Idle
    BY <1>1 DEF AloneInv, Alone
  <1>3. \A q \in Procs, t \in Tasks : q # p => ~Pending(proc[q], t, ordered)
    BY <1>2 DEF Pending, IsSaving, Idle
  <1>4. AccountedWith(proc[p], Loaded, ordered, calls, Lost)
    BY <1>3 DEF AloneInv, Accounted, AccountedWith, Task
  <1>5. ASSUME NEW q \in Procs, q # p PROVE handle[q] = "none"
    BY <1>2, <1>5 DEF RuntimeInv, Opened, Idle
  <1> QED
    BY <1>2, <1>4, <1>5 DEF AloneInv, InStep, Whole

\* It is enough to look at that process.
LEMMA AloneNext ==
    ASSUME RuntimeInv, NEW p \in Procs, NEW next, Goto(p, next),
           \A q \in Procs : q # p => proc[q] = Idle,
           InStepWith(next, Loaded', tmp'), Whole',
           \A t \in Tasks : calls'[t] <= Lost' + MaxRetries + 1,
           AccountedWith(next, Loaded', ordered', calls', Lost')
    PROVE  AloneInv'
  <1>1. proc'[p] = next /\ \A q \in Procs : q # p => proc'[q] = Idle
    <2> DEFINE States == {Idle, Executing} \cup RunningState \cup SavingState
    <2>1. proc \in [Procs -> States]
      BY DEF RuntimeInv
    <2> HIDE DEF States
    <2> QED
      BY <2>1 DEF Goto
  <1>2. Alone'
    BY <1>1 DEF Alone
  <1>3. InStep'
    <2> SUFFICES ASSUME NEW q \in Procs PROVE InStepWith(proc'[q], Loaded', tmp')
      BY DEF InStep
    <2>1. InStepWith(Idle, Loaded', tmp')
      BY DEF InStepWith, IsRunning, IsSaving, Idle
    <2> QED
      BY <1>1, <2>1
  <1>4. Accounted'
    <2>1. \A t \in Tasks : calls'[t] <= Lost' + MaxRetries + 1
      OBVIOUS
    <2>2. ASSUME NEW t \in Tasks \ Loaded'.dispatched, \A q \in Procs : ~Pending(proc'[q], t, ordered')
          PROVE  calls'[t] <= Lost'
      BY <1>1, <2>2 DEF AccountedWith
    <2>3. ASSUME NEW q \in Procs, proc'[q].pc = "dispatch"
          PROVE  calls'[Task(q)'] <= Lost' + proc'[q].attempts
      <3>1. q = p
        BY <1>1, <2>3 DEF Idle
      <3> QED
        BY <1>1, <2>3, <3>1 DEF AccountedWith, Task
    <2> QED
      BY <2>1, <2>2, <2>3 DEF Accounted
  <1> QED
    BY <1>2, <1>3, <1>4 DEF AloneInv

\* A step without the files.
LEMMA WholeKept ==
    ASSUME AloneInv, UNCHANGED <<disk, handle>>
    PROVE  Whole'
  BY DEF AloneInv, Whole

\* Numbers: the calls that crashes lost, before and after a step.
LEMMA LostFacts ==
    ASSUME RuntimeInv
    PROVE  /\ Lost \in Nat /\ MaxRetries \in Nat
           /\ crashes' = crashes => Lost' = Lost
           /\ crashes' = crashes + 1 => Lost' = Lost + MaxRetries + 1
           /\ \A t \in Tasks : calls[t] \in Nat
  <1>1. MaxRetries \in Nat /\ crashes \in Nat /\ calls \in [Tasks -> Nat]
    BY RuntimeAssumption DEF RuntimeInv
  <1>2. \A m, c \in Nat : m * c \in Nat /\ m * (c + 1) = m * c + m
    OBVIOUS
  <1>3. MaxRetries + 1 \in Nat
    BY <1>1
  <1>4. Lost \in Nat /\ (MaxRetries + 1) * (crashes + 1) = (MaxRetries + 1) * crashes + (MaxRetries + 1)
    BY <1>1, <1>2, <1>3 DEF Lost
  <1>5. crashes' = crashes + 1 => Lost' = Lost + MaxRetries + 1
    <2> SUFFICES ASSUME crashes' = crashes + 1 PROVE Lost' = Lost + MaxRetries + 1
      OBVIOUS
    <2>1. Lost' = (MaxRetries + 1) * (crashes + 1)
      BY DEF Lost
    <2>2. Lost' = Lost + (MaxRetries + 1)
      BY <1>4, <2>1 DEF Lost
    <2> QED
      BY <1>1, <1>4, <2>2
  <1>6. crashes' = crashes => Lost' = Lost
    BY DEF Lost
  <1> QED
    BY <1>1, <1>4, <1>5, <1>6

\* The operator's methods.
LEMMA OperatorAlone ==
    ASSUME RuntimeInv, AloneInv, Exclusive, NEW p \in Procs, Pause(p) \/ Stop(p) \/ Resume(p)
    PROVE  AloneInv'
  <1>1. PICK new \in OperatorCopies, then \in {"return", "execute"} : Goto(p, Saving(new, then, 0))
    BY DEF Pause, Stop, Resume, OperatorCopies
  <1> DEFINE next == Saving(new, then, 0)
  <1>2. /\ UNCHANGED <<disk, tmp, handle, calls, crashes, ordered>> /\ proc[p] = Idle
    BY DEF Pause, Stop, Resume, MayStart
  <1>3. Loaded' = Loaded /\ Lost' = Lost
    BY <1>2 DEF Loaded, Lost
  <1>4. new.dispatched = Loaded.dispatched
    BY OperatorFacts DEF AloneInv, Whole
  <1>5. /\ \A q \in Procs : q # p => proc[q] = Idle
        /\ AccountedWith(Idle, Loaded, ordered, calls, Lost)
    BY <1>2, AloneNow
  <1>6. InStepWith(next, Loaded, tmp)
    BY <1>4 DEF InStepWith, IsRunning, IsSaving, Saving
  <1>7. AccountedWith(next, Loaded, ordered, calls, Lost)
    BY <1>5 DEF AccountedWith, Pending, IsSaving, Saving, Idle
  <1>8. \A t \in Tasks : calls[t] <= Lost + MaxRetries + 1
    BY DEF AloneInv, Accounted
  <1> HIDE DEF next
  <1> QED
    BY <1>1, <1>2, <1>3, <1>5, <1>6, <1>7, <1>8, WholeKept, AloneNext DEF next

\* execute takes the file for its copy, unless the operator has halted the request.
LEMMA ExecuteAlone ==
    ASSUME RuntimeInv, AloneInv, Exclusive, NEW p \in Procs, Execute(p) \/ ExecuteFails(p)
    PROVE  AloneInv'
  <1>0. ~ExecuteFails(p)
    BY DEF ExecuteFails, AloneInv, Whole
  <1>1. PICK next : /\ Goto(p, next)
                    /\ next = Idle \/ (next = InExecute("loop", Loaded, 1) /\ ~Halted(Loaded))
    BY <1>0 DEF Execute
  <1>2. /\ UNCHANGED <<disk, tmp, handle, calls, crashes, ordered>> /\ proc[p].pc \in {"idle", "execute"}
    BY <1>0 DEF Execute, MayStart, Idle
  <1>3. Loaded' = Loaded /\ Lost' = Lost
    BY <1>2 DEF Loaded, Lost
  <1>4. /\ \A q \in Procs : q # p => proc[q] = Idle
        /\ AccountedWith(proc[p], Loaded, ordered, calls, Lost)
    BY <1>0, AloneNow
  <1>5. InStepWith(next, Loaded, tmp)
    BY <1>1 DEF InStepWith, IsRunning, IsSaving, InExecute, Idle
  <1>6. AccountedWith(next, Loaded, ordered, calls, Lost)
    BY <1>1, <1>2, <1>4 DEF AccountedWith, Pending, IsSaving, InExecute, Idle
  <1>7. \A t \in Tasks : calls[t] <= Lost + MaxRetries + 1
    BY DEF AloneInv, Accounted
  <1> QED
    BY <1>1, <1>2, <1>3, <1>4, <1>5, <1>6, <1>7, WholeKept, AloneNext

\* The loop without the dispatcher.
LEMMA LoopAlone ==
    ASSUME RuntimeInv, AloneInv, Exclusive, NEW p \in Procs,
           Skip(p) \/ StartDispatch(p) \/ Timeout(p) \/ Finish(p)
    PROVE  AloneInv'
  <1> DEFINE r == proc[p]
  <1>1. r.pc = "loop" /\ Running(r, plan, ordered, audit) /\ r.attempts = 0
    <2>1. r.pc = "loop"
      BY DEF Skip, StartDispatch, Timeout, Finish, AtTask
    <2>2. Running(r, plan, ordered, audit)
      BY <2>1, InMethodFacts DEF IsRunning
    <2> QED
      BY <2>1, <2>2 DEF Running
  <1>2. UNCHANGED <<disk, tmp, handle, calls, crashes, ordered>>
    BY DEF Skip, StartDispatch, Timeout, Finish
  <1>3. Loaded' = Loaded /\ Lost' = Lost
    BY <1>2 DEF Loaded, Lost
  <1>4. /\ \A q \in Procs : q # p => proc[q] = Idle
        /\ AccountedWith(r, Loaded, ordered, calls, Lost) /\ InStepWith(r, Loaded, tmp)
    BY AloneNow DEF Work
  <1>5. /\ r.cp.dispatched = Loaded.dispatched /\ ~Halted(r.cp) /\ ~Halted(Loaded)
        /\ \A t \in Tasks \ Loaded.dispatched : calls[t] <= Lost
    BY <1>1, <1>4 DEF InStepWith, IsRunning, AccountedWith, Pending, IsSaving
  <1>6. \A t \in Tasks : calls[t] <= Lost + MaxRetries + 1
    BY DEF AloneInv, Accounted
  <1>7. CASE Skip(p) \/ StartDispatch(p)
    <2>1. \E next : /\ Goto(p, next) /\ next.cp = r.cp /\ next.attempts = 0
                    /\ next.pc = "loop" \/ (next.pc = "dispatch" /\ next.i = r.i /\ StartDispatch(p))
      <3>1. r \in RunningState
        BY <1>1 DEF Running
      <3>2. CASE Skip(p)
        <4>1. Goto(p, [r EXCEPT !.i = @ + 1])
          BY <3>2 DEF Skip
        <4>2. [r EXCEPT !.i = @ + 1].cp = r.cp /\ [r EXCEPT !.i = @ + 1].attempts = 0
              /\ [r EXCEPT !.i = @ + 1].pc = "loop"
          BY <1>1, <3>1 DEF RunningState
        <4> QED
          BY <4>1, <4>2
      <3>3. CASE StartDispatch(p)
        <4>1. Goto(p, [r EXCEPT !.pc = "dispatch"])
          BY <3>3 DEF StartDispatch
        <4>2. /\ [r EXCEPT !.pc = "dispatch"].cp = r.cp /\ [r EXCEPT !.pc = "dispatch"].attempts = 0
              /\ [r EXCEPT !.pc = "dispatch"].pc = "dispatch" /\ [r EXCEPT !.pc = "dispatch"].i = r.i
          BY <1>1, <3>1 DEF RunningState
        <4> QED
          BY <3>3, <4>1, <4>2
      <3> QED
        BY <1>7, <3>2, <3>3
    <2>2. PICK next : /\ Goto(p, next) /\ next.cp = r.cp /\ next.attempts = 0
                      /\ next.pc = "loop" \/ (next.pc = "dispatch" /\ next.i = r.i /\ StartDispatch(p))
      BY <2>1
    <2>3. InStepWith(next, Loaded, tmp)
      BY <1>5, <2>2 DEF InStepWith, IsRunning, IsSaving
    <2>4. next.pc = "dispatch" => calls[ordered[next.i]] <= Lost
      <3> SUFFICES ASSUME next.pc = "dispatch" PROVE calls[ordered[next.i]] <= Lost
        OBVIOUS
      <3>1. next.i = r.i /\ r.i <= Len(ordered) /\ ordered[r.i] \notin r.cp.dispatched
        BY <2>2 DEF StartDispatch, AtTask, Skipped, Task
      <3>2. ordered \in Seq(Tasks) /\ r.i \in Nat \ {0}
        BY <1>1 DEF RuntimeInv, DependenciesFirst, Running, RunningState
      <3>3. ordered[r.i] \in Tasks
        <4>1. r.i \in 1..Len(ordered)
          BY <3>1, <3>2
        <4> QED
          BY <3>2, <4>1
      <3> QED
        BY <1>5, <3>1, <3>3
    <2>5. Lost + next.attempts = Lost
      BY <2>2, LostFacts
    <2>6. AccountedWith(next, Loaded, ordered, calls, Lost)
      BY <1>5, <2>4, <2>5 DEF AccountedWith
    <2> QED
      BY <1>2, <1>3, <1>4, <1>6, <2>2, <2>3, <2>6, WholeKept, AloneNext
  <1>8. CASE Timeout(p) \/ Finish(p)
    <2>1. PICK status \in {"TIMEOUT", "COMPLETED"} :
            Goto(p, Saving([r.cp EXCEPT !.status = status], "return", 0))
      BY <1>8 DEF Timeout, Finish
    <2> DEFINE next == Saving([r.cp EXCEPT !.status = status], "return", 0)
    <2>2. [r.cp EXCEPT !.status = status].dispatched = Loaded.dispatched
      <3>1. r.cp \in Checkpoint
        BY <1>1 DEF Running, Good
      <3> HIDE DEF r
      <3> QED
        BY <1>5, <3>1 DEF Checkpoint
    <2>3. /\ next.cp.dispatched = Loaded.dispatched /\ next.pc = "open_tmp" /\ next.then = "return"
      BY <2>2 DEF Saving
    <2> HIDE DEF next
    <2>4. InStepWith(next, Loaded, tmp)
      BY <2>3 DEF InStepWith, IsRunning, IsSaving
    <2>5. AccountedWith(next, Loaded, ordered, calls, Lost)
      BY <1>5, <2>3 DEF AccountedWith
    <2> QED
      BY <1>2, <1>3, <1>4, <1>6, <2>1, <2>4, <2>5, WholeKept, AloneNext DEF next
  <1> QED
    BY <1>7, <1>8

\* A call is made, and counted.
LEMMA DispatchAlone ==
    ASSUME RuntimeInv, AloneInv, Exclusive, NEW p \in Procs,
           DispatchAccepted(p) \/ DispatchRejected(p) \/ DispatchRetry(p)
    PROVE  AloneInv'
  <1> DEFINE r == proc[p]
             t == Task(p)
  <1>1. r.pc = "dispatch" /\ Running(r, plan, ordered, audit) /\ t \in Tasks /\ t = ordered[r.i]
    <2>1. r.pc = "dispatch"
      BY DEF DispatchAccepted, DispatchRejected, DispatchRetry
    <2> QED
      BY <2>1, TaskFacts
  <1>2. r.attempts \in 0..MaxRetries
    <2>1. r \in RunningState
      BY <1>1 DEF Running
    <2> QED
      BY <2>1 DEF RunningState
  <1>3. /\ UNCHANGED <<disk, tmp, handle, crashes, ordered>>
        /\ calls' = [calls EXCEPT ![t] = @ + 1]
    BY DEF DispatchAccepted, DispatchRejected, DispatchRetry, Called
  <1>4. Loaded' = Loaded /\ Lost' = Lost
    BY <1>3 DEF Loaded, Lost
  <1>5. /\ \A q \in Procs : q # p => proc[q] = Idle
        /\ AccountedWith(r, Loaded, ordered, calls, Lost) /\ InStepWith(r, Loaded, tmp)
    BY AloneNow DEF Work
  <1>6. PICK next : /\ Goto(p, next) /\ next.pc \in {"dispatch", "audit"}
                    /\ next.cp = r.cp /\ next.i = r.i
                    /\ next.pc = "dispatch" => next.attempts = r.attempts + 1
    BY DispatchNext
  <1>7. InStepWith(next, Loaded, tmp)
    BY <1>1, <1>5, <1>6 DEF InStepWith, IsRunning, IsSaving
  <1>8. calls[t] <= Lost + r.attempts
    BY <1>1, <1>5 DEF AccountedWith
  <1>9. /\ calls'[t] = calls[t] + 1
        /\ \A u \in Tasks : u # t => calls'[u] = calls[u]
    BY <1>1, <1>3 DEF RuntimeInv
  <1>10. Lost \in Nat /\ MaxRetries \in Nat /\ calls[t] \in Nat
    BY <1>1, LostFacts
  <1> HIDE DEF r, t
  <1>11. calls'[t] <= Lost + (r.attempts + 1) /\ calls'[t] <= Lost + MaxRetries + 1
    BY <1>2, <1>8, <1>9, <1>10
  <1>12. \A u \in Tasks : calls'[u] <= Lost + MaxRetries + 1
    <2>1. \A u \in Tasks : calls[u] <= Lost + MaxRetries + 1
      BY DEF AloneInv, Accounted
    <2> QED
      BY <1>9, <1>11, <2>1
  <1>13. AccountedWith(next, Loaded, ordered, calls', Lost)
    <2>1. \A u \in Tasks \ Loaded.dispatched : u # t => calls[u] <= Lost
      BY <1>1, <1>5 DEF AccountedWith, Pending, IsSaving
    <2>2. ASSUME NEW u \in Tasks \ Loaded.dispatched, ~Pending(next, u, ordered)
          PROVE  calls'[u] <= Lost
      <3>1. u # t
        BY <1>1, <1>6, <2>2 DEF Pending
      <3> QED
        BY <1>9, <2>1, <3>1
    <2>3. next.pc = "dispatch" => calls'[ordered[next.i]] <= Lost + next.attempts
      BY <1>1, <1>6, <1>11
    <2> QED
      BY <2>2, <2>3 DEF AccountedWith
  <1>14. \A u \in Tasks : calls'[u] <= Lost' + MaxRetries + 1
    BY <1>4, <1>12
  <1>15. AccountedWith(next, Loaded', ordered', calls', Lost') /\ InStepWith(next, Loaded', tmp')
    BY <1>3, <1>4, <1>7, <1>13
  <1> QED
    BY <1>3, <1>5, <1>6, <1>14, <1>15, WholeKept, AloneNext

\* The last record of the log is read.
LEMMA ReadAuditAlone ==
    ASSUME RuntimeInv, AloneInv, Exclusive, NEW p \in Procs, ReadAudit(p)
    PROVE  AloneInv'
  <1> DEFINE r == proc[p]
             next == [r EXCEPT !.pc = "append", !.prev = Len(audit)]
  <1>1. r.pc = "audit" /\ r \in RunningState
    <2>1. r.pc = "audit"
      BY DEF ReadAudit
    <2> QED
      BY <2>1, TaskFacts DEF Running
  <1>2. UNCHANGED <<disk, tmp, handle, calls, crashes, ordered>> /\ Goto(p, next)
    BY DEF ReadAudit
  <1>3. Loaded' = Loaded /\ Lost' = Lost
    BY <1>2 DEF Loaded, Lost
  <1>4. /\ \A q \in Procs : q # p => proc[q] = Idle
        /\ AccountedWith(r, Loaded, ordered, calls, Lost) /\ InStepWith(r, Loaded, tmp)
    BY AloneNow DEF Work
  <1>5. next.pc = "append" /\ next.cp = r.cp /\ next.i = r.i
    BY <1>1 DEF RunningState
  <1> HIDE DEF next, r
  <1>6. InStepWith(next, Loaded, tmp)
    BY <1>1, <1>4, <1>5 DEF InStepWith, IsRunning, IsSaving
  <1>7. AccountedWith(next, Loaded, ordered, calls, Lost)
    BY <1>1, <1>4, <1>5 DEF AccountedWith, Pending, IsSaving
  <1>8. \A t \in Tasks : calls[t] <= Lost + MaxRetries + 1
    BY DEF AloneInv, Accounted
  <1> QED
    BY <1>2, <1>3, <1>4, <1>6, <1>7, <1>8, WholeKept, AloneNext

\* What recording a result or a failure does to the dispatched tasks and to the operator's flags.
LEMMA RecordedFields ==
    ASSUME NEW cp \in Checkpoint, NEW t \in Tasks, NEW v,
           NEW new \in {AfterFailure(cp, t), AfterResult(cp, t, v)}
    PROVE  /\ new.dispatched = cp.dispatched \cup {t}
           /\ new.paused = cp.paused /\ new.stopped = cp.stopped
  <1>1. CASE new = AfterFailure(cp, t)
    BY <1>1 DEF AfterFailure, Checkpoint
  <1>2. CASE new = AfterResult(cp, t, v)
    <2> DEFINE completed == Append(cp.completed, <<t, v>>)
               conflicts == Conflicts(completed)
               failed == [u \in Tasks |-> IF u \in conflicts THEN "conflict_detected" ELSE cp.failed[u]]
               status == IF conflicts # {} THEN "CONFLICT" ELSE cp.status
    <2>1. new = [cp EXCEPT !.dispatched = @ \cup {t}, !.completed = completed, !.failed = failed,
                           !.status = status]
      BY <1>2 DEF AfterResult
    <2> HIDE DEF completed, failed, status
    <2> QED
      BY <2>1 DEF Checkpoint
  <1> QED
    BY <1>1, <1>2

\* A result or a failure is recorded: the task is in the copy that will be saved.
LEMMA RecordAlone ==
    ASSUME RuntimeInv, AloneInv, Exclusive, NEW p \in Procs, RecordFailure(p) \/ RecordResult(p)
    PROVE  AloneInv'
  <1> DEFINE r == proc[p]
             t == Task(p)
  <1>1. r.pc = "append" /\ r.cp \in Checkpoint /\ t \in Tasks /\ t = ordered[r.i]
    <2>1. r.pc = "append"
      BY DEF RecordFailure, RecordResult
    <2> QED
      BY <2>1, TaskFacts DEF Running, Good
  <1>2. UNCHANGED <<disk, tmp, handle, calls, crashes, ordered>>
    BY DEF RecordFailure, RecordResult
  <1>3. Loaded' = Loaded /\ Lost' = Lost
    BY <1>2 DEF Loaded, Lost
  <1>4. /\ \A q \in Procs : q # p => proc[q] = Idle
        /\ AccountedWith(r, Loaded, ordered, calls, Lost) /\ InStepWith(r, Loaded, tmp)
    BY AloneNow DEF Work
  <1>5. \E next : /\ Goto(p, next) /\ next.pc = "open_tmp"
                  /\ next.cp.dispatched = r.cp.dispatched \cup {t}
                  /\ next.cp.paused = r.cp.paused /\ next.cp.stopped = r.cp.stopped
    <2> DEFINE failure == AfterFailure(r.cp, t)
               result == AfterResult(r.cp, t, r.result)
    <2>1. \E new \in {failure, result}, then \in {"return", "loop"}, i \in {0, r.i + 1} :
            Goto(p, Saving(new, then, i))
      BY DEF RecordFailure, RecordResult
    <2>2. PICK new \in {failure, result} : \E then, i : Goto(p, Saving(new, then, i))
      BY <2>1
    <2>3. /\ new.dispatched = r.cp.dispatched \cup {t}
          /\ new.paused = r.cp.paused /\ new.stopped = r.cp.stopped
      <3> HIDE DEF r, t
      <3> QED
        BY <1>1, RecordedFields
    <2>4. \A then, i : Saving(new, then, i).pc = "open_tmp" /\ Saving(new, then, i).cp = new
      BY DEF Saving
    <2> HIDE DEF failure, result
    <2> QED
      BY <2>2, <2>3, <2>4
  <1>6. PICK next : /\ Goto(p, next) /\ next.pc = "open_tmp"
                    /\ next.cp.dispatched = r.cp.dispatched \cup {t}
                    /\ next.cp.paused = r.cp.paused /\ next.cp.stopped = r.cp.stopped
    BY <1>5
  <1> HIDE DEF r, t
  <1>7. InStepWith(next, Loaded, tmp)
    BY <1>1, <1>4, <1>6 DEF InStepWith, IsRunning, IsSaving, Halted
  <1>8. AccountedWith(next, Loaded, ordered, calls, Lost)
    BY <1>1, <1>4, <1>6 DEF AccountedWith, Pending, IsSaving
  <1>9. \A u \in Tasks : calls[u] <= Lost + MaxRetries + 1
    BY DEF AloneInv, Accounted
  <1> QED
    BY <1>2, <1>3, <1>4, <1>6, <1>7, <1>8, <1>9, WholeKept, AloneNext

\* A save: in the end, the file has what the process has in memory.
LEMMA SaveAlone ==
    ASSUME RuntimeInv, AloneInv, Exclusive, NEW p \in Procs,
           OpenTmp(p) \/ FillTmp(p) \/ Replace(p) \/ ReplaceFails(p)
    PROVE  AloneInv'
  <1> DEFINE r == proc[p]
  <1>1. IsSaving(r) /\ SavingOne(r, plan, ordered, audit)
    <2>1. IsSaving(r)
      BY DEF OpenTmp, FillTmp, Replace, ReplaceFails, IsSaving
    <2> QED
      BY <2>1, InMethodFacts
  <1>2. r \in SavingState /\ Good(r.cp, plan, audit) /\ r.then \in {"return", "execute", "loop"}
    <2>1. r \in SavingState
      BY <1>1 DEF SavingOne
    <2> QED
      BY <1>1, <2>1 DEF SavingOne, SavingState
  <1>3. /\ UNCHANGED <<calls, crashes, ordered>> /\ Lost' = Lost
    BY DEF OpenTmp, FillTmp, Replace, ReplaceFails, Lost
  <1>4. /\ \A q \in Procs : q # p => proc[q] = Idle
        /\ AccountedWith(r, Loaded, ordered, calls, Lost) /\ InStepWith(r, Loaded, tmp)
        /\ Readable(disk) /\ \A q \in Procs : handle[q] \in {"none", "tmp"}
        /\ \A q \in Procs : q # p => handle[q] = "none"
    BY AloneNow DEF Work
  <1>5. /\ Good(Sorted(r.cp), plan, audit) /\ Sorted(r.cp).dispatched = r.cp.dispatched
        /\ Sorted(r.cp).paused = r.cp.paused /\ Sorted(r.cp).stopped = r.cp.stopped
    BY <1>2, GoodSorted
  <1>6. Sorted(r.cp) # NoFile /\ Readable(Sorted(r.cp))
    <2>1. Sorted(r.cp) \in Checkpoint
      BY <1>5 DEF Good
    <2> QED
      BY <2>1, CheckpointFields
  <1>7. \A u \in Tasks : calls[u] <= Lost + MaxRetries + 1
    BY DEF AloneInv, Accounted
  <1>8. CASE OpenTmp(p)
    <2> DEFINE next == [r EXCEPT !.pc = "fill_tmp"]
    <2>1. /\ disk' = disk /\ tmp' = Empty /\ Goto(p, next) /\ r.pc = "open_tmp"
          /\ handle' = [handle EXCEPT ![p] = "tmp"]
      BY <1>8 DEF OpenTmp
    <2>2. next.pc = "fill_tmp" /\ next.cp = r.cp /\ next.then = r.then
      BY <1>2 DEF SavingState
    <2>3. Loaded' = Loaded /\ Whole'
      BY <1>4, <2>1 DEF Loaded, Whole, RuntimeInv
    <2> HIDE DEF next, r
    <2>4. InStepWith(next, Loaded, tmp')
      BY <1>1, <1>4, <2>1, <2>2 DEF InStepWith, IsRunning, IsSaving
    <2>5. AccountedWith(next, Loaded, ordered, calls, Lost)
      BY <1>1, <1>4, <2>2 DEF AccountedWith, Pending, IsSaving
    <2> QED
      BY <1>3, <1>4, <1>7, <2>1, <2>3, <2>4, <2>5, AloneNext
  <1>11. CASE FillTmp(p)
    <2> DEFINE next == [r EXCEPT !.pc = "replace"]
    <2>1. /\ r.pc = "fill_tmp" /\ Goto(p, next)
          /\ handle' = [handle EXCEPT ![p] = "none"]
      BY <1>11 DEF FillTmp
    <2>2. next.pc = "replace" /\ next.cp = r.cp /\ next.then = r.then
      BY <1>2 DEF SavingState
    <2>3. disk' = disk /\ tmp' = Sorted(r.cp)
      <3>1. handle[p] = "tmp" /\ tmp = Empty
        BY <1>4, <2>1 DEF RuntimeInv, Opened, InStepWith
      <3>2. disk' = disk /\ tmp' \in Filled(tmp, Sorted(r.cp))
        BY <1>11, <3>1 DEF FillTmp
      <3> QED
        BY <3>1, <3>2 DEF Filled
    <2>4. Loaded' = Loaded /\ Whole'
      BY <1>4, <2>1, <2>3 DEF Loaded, Whole, RuntimeInv
    <2> HIDE DEF next, r
    <2>5. InStepWith(next, Loaded, tmp')
      BY <1>1, <1>4, <2>1, <2>2, <2>3 DEF InStepWith, IsRunning, IsSaving
    <2>6. AccountedWith(next, Loaded, ordered, calls, Lost)
      BY <1>1, <1>4, <2>2 DEF AccountedWith, Pending, IsSaving
    <2> QED
      BY <1>3, <1>4, <1>7, <2>1, <2>4, <2>5, <2>6, AloneNext
  <1>9. CASE Replace(p)
    <2> DEFINE next == AfterSave(p)
    <2>0. Whole'
      <3>1. handle' = [q \in Procs |-> Renamed(handle[q])] /\ r.pc = "replace" /\ disk' = tmp
        BY <1>9 DEF Replace
      <3>2. handle[p] = "none" /\ tmp = Sorted(r.cp)
        BY <1>4, <3>1 DEF RuntimeInv, Opened, InStepWith
      <3>3. Renamed("none") = "none"
        BY DEF Renamed
      <3> QED
        BY <1>4, <1>6, <3>1, <3>2, <3>3 DEF Whole
    <2>1. disk' = tmp /\ tmp = Sorted(r.cp) /\ Goto(p, next)
      <3>1. r.pc = "replace"
        BY <1>9 DEF Replace
      <3> QED
        BY <1>4, <1>9, <3>1 DEF Replace, InStepWith
    <2>2. Loaded' = Sorted(r.cp)
      BY <1>6, <2>1 DEF Loaded
    <2>3. /\ next.pc \in {"idle", "execute", "loop"}
          /\ next.pc = "loop" => r.then = "loop" /\ next.cp = r.cp
      <3>1. CASE r.then = "return"
        BY <3>1 DEF AfterSave, Idle
      <3>2. CASE r.then = "execute"
        BY <3>2 DEF AfterSave
      <3>3. CASE r.then = "loop"
        BY <3>3 DEF AfterSave, InExecute
      <3> QED
        BY <1>2, <3>1, <3>2, <3>3
    <2> HIDE DEF next, r
    <2>4. InStepWith(next, Loaded', tmp')
      <3>1. next.pc = "loop" => ~Halted(r.cp)
        BY <1>1, <1>4, <2>3 DEF InStepWith
      <3>2. Halted(Sorted(r.cp)) <=> Halted(r.cp)
        BY <1>5 DEF Halted
      <3> QED
        BY <1>5, <2>2, <2>3, <3>1, <3>2 DEF InStepWith, IsRunning, IsSaving
    <2>5. AccountedWith(next, Sorted(r.cp), ordered, calls, Lost)
      <3>1. ASSUME NEW u \in Tasks \ r.cp.dispatched PROVE calls[u] <= Lost
        <4>1. u \notin Loaded.dispatched /\ ~Pending(r, u, ordered)
          BY <1>1, <1>4 DEF InStepWith, Pending, IsSaving
        <4> QED
          BY <1>4, <4>1 DEF AccountedWith
      <3> QED
        BY <1>5, <2>3, <3>1 DEF AccountedWith
    <2> QED
      BY <1>3, <1>4, <1>7, <2>0, <2>1, <2>2, <2>4, <2>5, AloneNext
  <1>10. CASE ReplaceFails(p)
    <2>1. r.pc = "replace" /\ (tmp = NoFile \/ \E q \in Procs : handle[q] = "tmp")
      BY <1>10 DEF ReplaceFails
    <2>2. \A q \in Procs : handle[q] = "none"
      BY <1>4, <2>1 DEF RuntimeInv, Opened
    <2> QED
      BY <1>4, <1>6, <2>1, <2>2 DEF InStepWith
  <1> QED
    BY <1>8, <1>9, <1>10, <1>11

\* A process dies, and one more round of calls may go unrecorded.
LEMMA CrashAlone ==
    ASSUME RuntimeInv, AloneInv, Exclusive, NEW p \in Procs, Crash(p)
    PROVE  AloneInv'
  <1>0. Readable(disk) /\ \A q \in Procs : handle[q] \in {"none", "tmp"}
    BY AloneNow
  <1>1. /\ UNCHANGED <<disk, calls, ordered>> /\ crashes' = crashes + 1 /\ Goto(p, Idle)
        /\ handle' = [handle EXCEPT ![p] = "none"]
    BY <1>0 DEF Crash
  <1>9. Whole'
    BY <1>0, <1>1 DEF Whole, RuntimeInv
  <1>2. Loaded' = Loaded
    BY <1>1 DEF Loaded
  <1>3. \A q \in Procs : q # p => proc[q] = Idle
    BY AloneNow
  <1>4. /\ Lost \in Nat /\ MaxRetries \in Nat /\ Lost' = Lost + MaxRetries + 1
        /\ \A u \in Tasks : calls[u] \in Nat
    BY <1>1, LostFacts
  <1>5. \A u \in Tasks : calls[u] <= Lost'
    BY <1>4 DEF AloneInv, Accounted
  <1>6. AccountedWith(Idle, Loaded', ordered', calls', Lost')
    <2>1. \A u \in Tasks : calls'[u] <= Lost'
      BY <1>1, <1>5
    <2>2. Idle.pc # "dispatch"
      BY DEF Idle
    <2> QED
      BY <2>1, <2>2 DEF AccountedWith
  <1>7. InStepWith(Idle, Loaded', tmp')
    BY DEF InStepWith, IsRunning, IsSaving, Idle
  <1>8. \A u \in Tasks : calls'[u] <= Lost' + MaxRetries + 1
    <2> SUFFICES ASSUME NEW u \in Tasks PROVE calls'[u] <= Lost' + MaxRetries + 1
      OBVIOUS
    <2>1. calls'[u] = calls[u] /\ calls[u] \in Nat /\ calls[u] <= Lost'
      BY <1>1, <1>4, <1>5
    <2> QED
      BY <1>4, <2>1
  <1> QED
    BY <1>1, <1>3, <1>6, <1>7, <1>8, <1>9, AloneNext

\* Every step.
LEMMA AloneStep ==
    ASSUME RuntimeInv, AloneInv, Exclusive, [Next]_vars
    PROVE  AloneInv'
  <1>1. CASE UNCHANGED vars
    <2>1. /\ proc' = proc /\ disk' = disk /\ tmp' = tmp /\ calls' = calls /\ crashes' = crashes
          /\ ordered' = ordered /\ handle' = handle
      BY <1>1 DEF vars
    <2> QED
      BY <2>1 DEF AloneInv, Alone, Whole, InStep, InStepWith, Accounted, Loaded, Lost, Task
  <1>2. ASSUME NEW p \in Procs,
               Pause(p) \/ Stop(p) \/ Resume(p) \/ Execute(p) \/ Work(p) \/ Crash(p)
        PROVE  AloneInv'
    BY <1>2, OperatorAlone, ExecuteAlone, LoopAlone, DispatchAlone, ReadAuditAlone, RecordAlone,
       SaveAlone, CrashAlone DEF Work
  <1> QED
    BY <1>1, <1>2 DEF Next

\* In the first state nobody is inside a method and no call was made.
LEMMA AloneInit ==
    ASSUME RuntimeInv, Init
    PROVE  AloneInv
  <1>1. /\ crashes = 0 /\ proc = [p \in Procs |-> Idle] /\ calls = [t \in Tasks |-> 0]
    BY DEF Init
  <1>2. Lost \in Nat /\ MaxRetries \in Nat
    BY LostFacts
  <1>3. Alone /\ InStep
    BY <1>1 DEF Alone, InStep, InStepWith, IsRunning, IsSaving, Idle
  <1>5. Whole
    <2>1. disk = NoFile /\ handle = [p \in Procs |-> "none"]
      BY DEF Init
    <2> QED
      BY <2>1 DEF Whole, Readable, NoFile, Empty, Torn
  <1>4. Accounted
    <2>1. \A t \in Tasks : calls[t] <= Lost /\ calls[t] <= Lost + MaxRetries + 1
      BY <1>1, <1>2
    <2>2. \A p \in Procs : proc[p].pc # "dispatch"
      BY <1>1 DEF Idle
    <2> QED
      BY <2>1, <2>2 DEF Accounted
  <1> QED
    BY <1>3, <1>4, <1>5 DEF AloneInv

----------------------------------------------------------------------------
(* The properties. *)

\* Whatever runs beside, every reachable state has the invariant.
THEOREM RuntimeInvariant ==
    Spec => []RuntimeInv
  <1>1. Init => RuntimeInv
    BY RuntimeInit
  <1>2. RuntimeInv /\ [Next]_vars => RuntimeInv'
    BY RuntimeStep
  <1> QED
    BY <1>1, <1>2, PTL DEF Spec

\* A file is absent, empty, torn or a checkpoint, and a copy in memory is a checkpoint, however
\* many processes save at once into the same temporary file and wherever they crash.
THEOREM RuntimeTypeOK ==
    Spec => []TypeOK
  <1>1. ASSUME RuntimeInv PROVE TypeOK
    <2>1. plan \in Plans /\ ordered \in Seq(Tasks)
      BY <1>1 DEF RuntimeInv, DependenciesFirst
    <2>2. disk \in {NoFile, Empty, Torn} \/ disk \in Checkpoint
      BY <1>1 DEF RuntimeInv, Content, Good
    <2>3. tmp \in {NoFile, Empty, Torn} \/ tmp \in Checkpoint
      BY <1>1 DEF RuntimeInv, Content, Good
    <2>7. \A p \in Procs :
            handle[p] \in IF proc[p].pc = "fill_tmp" THEN {"tmp", "checkpoint", "replaced"} ELSE {"none"}
      BY <1>1 DEF RuntimeInv, Opened
    <2>4. \A p \in Procs : proc[p].pc \in {"idle", "execute"} \/ proc[p].cp \in Checkpoint
      <3> SUFFICES ASSUME NEW p \in Procs, proc[p].pc \notin {"idle", "execute"}
                   PROVE  proc[p].cp \in Checkpoint
        OBVIOUS
      <3>1. Good(proc[p].cp, plan, audit)
        BY <1>1, InMethodFacts DEF IsRunning, IsSaving, Running, SavingOne
      <3> QED
        BY <3>1 DEF Good
    <2>5. \A i \in DOMAIN audit : audit[i].task \in Tasks /\ audit[i].prev \in 0..i-1
      <3> SUFFICES ASSUME NEW i \in DOMAIN audit
                   PROVE  audit[i].task \in Tasks /\ audit[i].prev \in 0..i-1
        OBVIOUS
      <3>1. audit[i] \in Record /\ audit[i].prev <= i - 1 /\ i \in Nat
        BY <1>1 DEF RuntimeInv
      <3>2. audit[i].task \in Tasks /\ audit[i].prev \in Nat
        BY <3>1 DEF Record
      <3> QED
        BY <3>1, <3>2
    <2>6. calls \in [Tasks -> Nat] /\ crashes \in 0..MaxCrashes
      BY <1>1 DEF RuntimeInv
    <2> QED
      BY <2>1, <2>2, <2>3, <2>4, <2>5, <2>6, <2>7 DEF TypeOK
  <1> QED
    BY <1>1, RuntimeInvariant, PTL

\* execute appends the audit event before it saves the checkpoint: however many processes share
\* the directory, overwrite each other's temporary file and crash, the log covers what a checkpoint
\* that can be read says.
THEOREM RuntimeAuditCovers ==
    Spec => []AuditCovers
  <1>1. ASSUME RuntimeInv, disk.file = "checkpoint" PROVE Good(disk, plan, audit)
    BY <1>1 DEF RuntimeInv, Content, NoFile, Empty, Torn
  <1>2. RuntimeInv => AuditCovers
    BY <1>1 DEF Good, InLog, AuditCovers
  <1> QED
    BY <1>2, RuntimeInvariant, PTL

\* The dispatched tasks of a checkpoint that can be read include all that they depend on, for
\* every plan, however many processes overwrite each other's temporary file and crash.
THEOREM RuntimeKeysClosed ==
    Spec => []KeysClosed
  <1>1. ASSUME RuntimeInv, disk.file = "checkpoint" PROVE Good(disk, plan, audit)
    BY <1>1 DEF RuntimeInv, Content, NoFile, Empty, Torn
  <1>2. RuntimeInv => KeysClosed
    BY <1>1 DEF Good, KeysClosed
  <1> QED
    BY <1>2, RuntimeInvariant, PTL

\* With one method at a time, what a process has in memory agrees with the file.
THEOREM RuntimeAlone ==
    ASSUME Exclusive
    PROVE  Spec => [](RuntimeInv /\ AloneInv)
  <1>1. Init => RuntimeInv /\ AloneInv
    BY RuntimeInit, AloneInit
  <1>2. (RuntimeInv /\ AloneInv) /\ [Next]_vars => (RuntimeInv /\ AloneInv)'
    BY RuntimeStep, AloneStep
  <1> QED
    BY <1>1, <1>2, PTL DEF Spec

\* max_retries bounds the calls of a specialist over all executions, resumptions and
\* recoveries of the request, crashes included.
THEOREM RuntimeDispatchBudget ==
    ASSUME Exclusive
    PROVE  Spec => []DispatchBudget
  <1>1. ASSUME RuntimeInv, AloneInv PROVE DispatchBudget
    <2>1. MaxRetries + 1 \in Nat /\ crashes \in Nat
      BY <1>1, RuntimeAssumption DEF RuntimeInv
    <2>2. \A m, c \in Nat : m * (1 + c) = m * c + m
      OBVIOUS
    <2>3. (MaxRetries + 1) * (1 + crashes) = Lost + (MaxRetries + 1)
      BY <2>1, <2>2 DEF Lost
    <2>4. Lost + (MaxRetries + 1) = Lost + MaxRetries + 1
      BY <1>1, LostFacts
    <2>5. \A t \in Tasks : calls[t] <= Lost + MaxRetries + 1
      BY <1>1 DEF AloneInv, Accounted
    <2> QED
      BY <2>3, <2>4, <2>5 DEF DispatchBudget
  <1> QED
    BY <1>1, RuntimeAlone, PTL

\* Only the dispatcher's actions count a call: of a task that the file does not record.
LEMMA CallFacts ==
    ASSUME RuntimeInv, AloneInv, Exclusive, [Next]_vars
    PROVE  \/ calls' = calls
           \/ \A t \in Loaded.dispatched : calls'[t] = calls[t]
  <1>1. CASE UNCHANGED vars
    BY <1>1 DEF vars
  <1>2. ASSUME NEW p \in Procs,
               DispatchAccepted(p) \/ DispatchRejected(p) \/ DispatchRetry(p)
        PROVE  \A t \in Loaded.dispatched : calls'[t] = calls[t]
    <2>1. proc[p].pc = "dispatch" /\ calls' = [calls EXCEPT ![Task(p)] = @ + 1]
      BY <1>2 DEF DispatchAccepted, DispatchRejected, DispatchRetry, Called
    <2>2. proc[p].cp.dispatched = Loaded.dispatched
      BY <2>1 DEF AloneInv, InStep, InStepWith, IsRunning
    <2>3. Task(p) \notin Loaded.dispatched
      BY <2>1, <2>2, TaskFacts
    <2>4. Loaded.dispatched \subseteq Tasks /\ calls \in [Tasks -> Nat]
      <3>1. Loaded \in Checkpoint
        BY LoadedGood DEF Good, AloneInv, Whole
      <3> QED
        BY <3>1, CheckpointFields DEF RuntimeInv
    <2> QED
      BY <2>1, <2>2, <2>3, <2>4
  <1>3. ASSUME NEW p \in Procs,
               Pause(p) \/ Stop(p) \/ Resume(p) \/ Execute(p) \/ Skip(p) \/ Timeout(p)
                 \/ StartDispatch(p) \/ ReadAudit(p) \/ RecordFailure(p) \/ RecordResult(p)
                 \/ Finish(p) \/ OpenTmp(p) \/ FillTmp(p) \/ Replace(p) \/ ReplaceFails(p)
                 \/ ExecuteFails(p) \/ Crash(p)
        PROVE  calls' = calls
    BY <1>3 DEF Pause, Stop, Resume, Execute, Skip, Timeout, StartDispatch, ReadAudit, RecordFailure,
                RecordResult, Finish, OpenTmp, FillTmp, Replace, ReplaceFails, ExecuteFails, Crash
  <1> QED
    BY <1>1, <1>2, <1>3 DEF Next, Work

\* One method at a time: wherever a save is cut off, while the temporary file is empty, torn or
\* not yet renamed, the checkpoint can be read.
THEOREM RuntimeCheckpointReadable ==
    ASSUME Exclusive
    PROVE  Spec => []CheckpointReadable
  <1>1. AloneInv => CheckpointReadable
    BY DEF AloneInv, Whole, CheckpointReadable
  <1> QED
    BY <1>1, RuntimeAlone, PTL

\* A task that the checkpoint records as dispatched is not dispatched again by any later
\* execution, resumption or recovery of the request.
THEOREM RuntimeRecordedNotRedispatched ==
    ASSUME Exclusive
    PROVE  Spec => RecordedNotRedispatched
  <1>1. RuntimeInv /\ AloneInv /\ [Next]_vars =>
          [disk.file = "checkpoint" => \A t \in disk.dispatched : calls'[t] = calls[t]]_vars
    BY CallFacts DEF Loaded, NoFile
  <1> QED
    BY <1>1, RuntimeAlone, PTL DEF Spec, RecordedNotRedispatched

----------------------------------------------------------------------------
(* Every step of a method brings it closer to its end. *)

\* A task that is behind the method takes its steps with it.
LEMMA LoopStepsFacts ==
    ASSUME RuntimeInv, NEW i \in Nat \ {0}
    PROVE  /\ LoopSteps(i) \in Nat /\ LoopSteps(i) >= 4
           /\ i <= Len(ordered) => LoopSteps(i) = LoopSteps(i + 1) + MaxRetries + 7
  <1> DEFINE K == MaxRetries + 7
             left == TasksLeft(i)
             next == TasksLeft(i + 1)
  <1>1. K \in Nat /\ Len(ordered) \in Nat
    BY RuntimeAssumption DEF RuntimeInv, DependenciesFirst
  <1>2. left \in Nat /\ next \in Nat /\ (i <= Len(ordered) => left = next + 1)
    BY <1>1 DEF TasksLeft, Done
  <1>3. LoopSteps(i) = K * left + 4 /\ LoopSteps(i + 1) = K * next + 4
    BY DEF LoopSteps
  <1>4. MaxRetries \in Nat
    BY RuntimeAssumption
  <1> HIDE DEF left, next
  <1>5. K * left \in Nat /\ K * next \in Nat
    <2> HIDE DEF K
    <2> QED BY <1>1, <1>2
  <1>6. left = next + 1 => K * left = K * next + K
    <2> HIDE DEF K
    <2>1. \A m, n \in Nat : m * (n + 1) = m * n + m
      OBVIOUS
    <2> QED BY <1>1, <1>2, <2>1
  <1> DEFINE x == K * left
             y == K * next
  <1>7. x \in Nat /\ y \in Nat /\ (left = next + 1 => x = y + K)
    BY <1>5, <1>6
  <1>8. LoopSteps(i) = x + 4 /\ LoopSteps(i + 1) = y + 4
    BY <1>3
  <1> HIDE DEF x, y
  <1> QED BY <1>2, <1>4, <1>7, <1>8

\* r is followed by next.
Closer(r, next) == StepsLeft(next) \in 0..StepsLeft(r) - 1

\* What a step of one process comes to.
LEMMA OneMoves ==
    ASSUME RuntimeInv, NEW p \in Procs, NEW next, Goto(p, next), Closer(proc[p], next)
    PROVE  \A q \in Procs : proc[q] # Idle /\ proc'[q] # proc[q] =>
             StepsLeft(proc'[q]) \in 0..StepsLeft(proc[q]) - 1
  <1>1. DOMAIN proc = Procs /\ proc' = [proc EXCEPT ![p] = next]
    BY DEF RuntimeInv, Goto
  <1>2. proc'[p] = next /\ \A q \in Procs : q # p => proc'[q] = proc[q]
    BY <1>1
  <1> QED BY <1>2 DEF Closer

\* The steps that are left, by where the process is.
LEMMA StepsLeftFacts ==
    ASSUME NEW r
    PROVE  /\ r.pc = "idle" => StepsLeft(r) = 0
           /\ r.pc = "execute" => StepsLeft(r) = LoopSteps(1) + 1
           /\ r.pc = "loop" => StepsLeft(r) = LoopSteps(r.i)
           /\ r.pc = "dispatch" => StepsLeft(r) = LoopSteps(r.i + 1) + 6 + MaxRetries - r.attempts
           /\ r.pc = "audit" => StepsLeft(r) = LoopSteps(r.i + 1) + 5
           /\ r.pc = "append" => StepsLeft(r) = LoopSteps(r.i + 1) + 4
           /\ r.pc = "open_tmp" => StepsLeft(r) = StepsAfterSave(r) + 3
           /\ r.pc = "fill_tmp" => StepsLeft(r) = StepsAfterSave(r) + 2
           /\ r.pc = "replace" => StepsLeft(r) = StepsAfterSave(r) + 1
           /\ r.then = "return" => StepsAfterSave(r) = 0
           /\ r.then = "execute" => StepsAfterSave(r) = LoopSteps(1) + 1
           /\ r.then = "loop" => StepsAfterSave(r) = LoopSteps(r.i)
  BY DEF StepsLeft, StepsAfterSave

\* A method that saves and returns has three steps left.
LEMMA ReturnSteps ==
    ASSUME NEW cp
    PROVE  /\ StepsLeft(Saving(cp, "return", 0)) = 3
           /\ StepsLeft(Idle) = 0
  <1>1. Saving(cp, "return", 0).pc = "open_tmp" /\ Saving(cp, "return", 0).then = "return"
    BY DEF Saving
  <1>2. Idle.pc = "idle"
    BY DEF Idle
  <1> QED BY <1>1, <1>2, StepsLeftFacts

\* A process that is inside a method has steps left, four of them wherever it may decide to save
\* and return.
LEMMA InsideSteps ==
    ASSUME RuntimeInv, NEW p \in Procs, proc[p] # Idle
    PROVE  /\ StepsLeft(proc[p]) \in Nat /\ StepsLeft(proc[p]) >= 1
           /\ IsRunning(proc[p]) => StepsLeft(proc[p]) >= 4
  <1> DEFINE r == proc[p]
             L == LoopSteps(1)
  <1>1. MaxRetries \in Nat
    BY RuntimeAssumption
  <1>2. L \in Nat /\ L >= 3
    BY LoopStepsFacts
  <1>3. CASE IsRunning(r)
    <2> DEFINE i == r.i
               a == LoopSteps(i)
               b == LoopSteps(i + 1)
    <2>1. i \in Nat \ {0} /\ r.attempts \in 0..MaxRetries /\ r.pc \in {"loop", "dispatch", "audit", "append"}
      BY <1>3, InMethodFacts DEF Running, RunningState
    <2>2. a \in Nat /\ b \in Nat /\ a >= 4 /\ b >= 4
      <3>1. i + 1 \in Nat \ {0}
        BY <2>1
      <3> QED BY <2>1, <3>1, LoopStepsFacts
    <2>3. StepsLeft(r) \in {a, b + 6 + MaxRetries - r.attempts, b + 5, b + 4}
      BY <2>1, StepsLeftFacts
    <2> DEFINE n == r.attempts
               c == StepsLeft(r)
    <2>4. n \in 0..MaxRetries /\ c \in {a, b + 6 + MaxRetries - n, b + 5, b + 4}
      BY <2>1, <2>3
    <2> HIDE DEF a, b, n, c
    <2>5. c \in Nat /\ c >= 4
      BY <1>1, <2>2, <2>4
    <2> QED BY <2>5 DEF c
  <1>4. CASE IsSaving(r)
    <2>1. /\ r.then \in {"return", "execute", "loop"} /\ r.pc \in {"open_tmp", "fill_tmp", "replace"}
          /\ r.then = "loop" => r.i \in Nat \ {0}
      BY <1>4, InMethodFacts DEF SavingOne, SavingState
    <2>2. StepsAfterSave(r) \in Nat
      <3>1. CASE r.then = "loop"
        BY <2>1, <3>1, StepsLeftFacts, LoopStepsFacts
      <3>2. CASE r.then # "loop"
        BY <2>1, <3>2, <1>2, StepsLeftFacts
      <3> QED BY <3>1, <3>2
    <2>3. StepsLeft(r) \in {StepsAfterSave(r) + 3, StepsAfterSave(r) + 2, StepsAfterSave(r) + 1}
      BY <2>1, StepsLeftFacts
    <2>4. ~IsRunning(r)
      BY <1>4 DEF IsRunning, IsSaving
    <2> DEFINE s == StepsAfterSave(r)
               t == StepsLeft(r)
    <2>5. s \in Nat /\ t \in {s + 3, s + 2, s + 1}
      BY <2>2, <2>3
    <2> HIDE DEF s, t
    <2>6. t \in Nat /\ t >= 1
      BY <2>5
    <2> QED BY <2>4, <2>6 DEF t
  <1>5. CASE r.pc = "execute"
    <2>1. StepsLeft(r) = L + 1 /\ ~IsRunning(r)
      BY <1>5, StepsLeftFacts DEF IsRunning
    <2> QED BY <1>2, <2>1
  <1> QED
    BY <1>3, <1>4, <1>5, InMethodFacts DEF IsRunning, IsSaving

\* The loop looks at a task: it moves on to the next, or calls the specialist.
LEMMA LookSteps ==
    ASSUME RuntimeInv, NEW i \in Nat \ {0}, i <= Len(ordered), NEW r \in RunningState, r.i = i,
           r.pc = "loop", r.attempts = 0
    PROVE  /\ Closer(r, [r EXCEPT !.i = @ + 1])
           /\ Closer(r, [r EXCEPT !.pc = "dispatch"])
  <1> DEFINE a == LoopSteps(i)
             b == LoopSteps(i + 1)
             n == r.attempts
  <1>1. MaxRetries \in Nat /\ n \in 0..MaxRetries
    BY RuntimeAssumption DEF RunningState
  <1>2. a \in Nat /\ b \in Nat /\ b >= 4 /\ a = b + MaxRetries + 7
    <2>1. i + 1 \in Nat \ {0}
      OBVIOUS
    <2> QED BY <2>1, LoopStepsFacts
  <1>3. Closer(r, [r EXCEPT !.i = @ + 1])
    <2> DEFINE next == [r EXCEPT !.i = @ + 1]
    <2>1. next.pc = "loop" /\ next.i = i + 1
      BY DEF RunningState
    <2> HIDE DEF next
    <2>2. StepsLeft(next) = b /\ StepsLeft(r) = a
      BY <2>1, StepsLeftFacts
    <2> HIDE DEF a, b
    <2>3. b \in 0..a - 1
      BY <1>1, <1>2
    <2> QED BY <2>2, <2>3 DEF Closer, next
  <1>4. Closer(r, [r EXCEPT !.pc = "dispatch"])
    <2> DEFINE next == [r EXCEPT !.pc = "dispatch"]
    <2>1. next.pc = "dispatch" /\ next.i = i /\ next.attempts = 0
      BY DEF RunningState
    <2> HIDE DEF next
    <2>2. StepsLeft(next) = b + 6 + MaxRetries - 0 /\ StepsLeft(r) = a
      BY <2>1, StepsLeftFacts
    <2> HIDE DEF a, b
    <2>3. b + 6 + MaxRetries - 0 \in 0..a - 1
      BY <1>1, <1>2
    <2> QED BY <2>2, <2>3 DEF Closer, next
  <1> QED
    BY <1>3, <1>4

\* The dispatcher is called once more or has answered; the answer is recorded.
LEMMA TaskSteps ==
    ASSUME RuntimeInv, NEW i \in Nat \ {0}, i <= Len(ordered), NEW r \in RunningState, r.i = i
    PROVE  /\ r.pc = "dispatch" =>
                /\ \A v : Closer(r, [r EXCEPT !.pc = "audit", !.result = v])
                /\ r.attempts + 1 <= MaxRetries => Closer(r, [r EXCEPT !.attempts = @ + 1])
           /\ r.pc = "audit" => \A n : Closer(r, [r EXCEPT !.pc = "append", !.prev = n])
           /\ r.pc = "append" => \A cp : Closer(r, Saving(cp, "loop", i + 1))
  <1> DEFINE a == LoopSteps(i)
             b == LoopSteps(i + 1)
             n == r.attempts
  <1>1. MaxRetries \in Nat /\ n \in 0..MaxRetries
    BY RuntimeAssumption DEF RunningState
  <1>2. a \in Nat /\ b \in Nat /\ b >= 4 /\ a = b + MaxRetries + 7
    <2>1. i + 1 \in Nat \ {0}
      OBVIOUS
    <2> QED BY <2>1, LoopStepsFacts
  <1>3. ASSUME r.pc = "dispatch", NEW v PROVE Closer(r, [r EXCEPT !.pc = "audit", !.result = v])
    <2> DEFINE next == [r EXCEPT !.pc = "audit", !.result = v]
    <2>1. next.pc = "audit" /\ next.i = i
      BY <1>3 DEF RunningState
    <2> HIDE DEF next
    <2>2. StepsLeft(next) = b + 5 /\ StepsLeft(r) = b + 6 + MaxRetries - n
      BY <1>3, <2>1, StepsLeftFacts
    <2> HIDE DEF a, b, n
    <2>3. b + 5 \in 0..(b + 6 + MaxRetries - n) - 1
      BY <1>1, <1>2
    <2> QED BY <2>2, <2>3 DEF Closer, next
  <1>4. ASSUME r.pc = "dispatch", r.attempts + 1 <= MaxRetries
        PROVE  Closer(r, [r EXCEPT !.attempts = @ + 1])
    <2> DEFINE next == [r EXCEPT !.attempts = @ + 1]
    <2>1. next.pc = "dispatch" /\ next.i = i /\ next.attempts = n + 1
      BY <1>4 DEF RunningState
    <2> HIDE DEF next
    <2>2. StepsLeft(next) = b + 6 + MaxRetries - (n + 1) /\ StepsLeft(r) = b + 6 + MaxRetries - n
      BY <1>4, <2>1, StepsLeftFacts
    <2>3. n + 1 <= MaxRetries
      BY <1>4
    <2> HIDE DEF a, b, n
    <2>4. b + 6 + MaxRetries - (n + 1) \in 0..(b + 6 + MaxRetries - n) - 1
      BY <1>1, <1>2, <2>3
    <2> QED BY <2>2, <2>4 DEF Closer, next
  <1>5. ASSUME r.pc = "audit", NEW k PROVE Closer(r, [r EXCEPT !.pc = "append", !.prev = k])
    <2> DEFINE next == [r EXCEPT !.pc = "append", !.prev = k]
    <2>1. next.pc = "append" /\ next.i = i
      BY <1>5 DEF RunningState
    <2> HIDE DEF next
    <2>2. StepsLeft(next) = b + 4 /\ StepsLeft(r) = b + 5
      BY <1>5, <2>1, StepsLeftFacts
    <2> HIDE DEF a, b
    <2>3. b + 4 \in 0..(b + 5) - 1
      BY <1>2
    <2> QED BY <2>2, <2>3 DEF Closer, next
  <1>6. ASSUME r.pc = "append", NEW cp PROVE Closer(r, Saving(cp, "loop", i + 1))
    <2> DEFINE next == Saving(cp, "loop", i + 1)
    <2>1. next.pc = "open_tmp" /\ next.then = "loop" /\ next.i = i + 1
      BY DEF Saving
    <2> HIDE DEF next
    <2>2. StepsLeft(next) = b + 3 /\ StepsLeft(r) = b + 4
      BY <1>6, <2>1, StepsLeftFacts
    <2> HIDE DEF a, b
    <2>3. b + 3 \in 0..(b + 4) - 1
      BY <1>2
    <2> QED BY <2>2, <2>3 DEF Closer, next
  <1> QED
    BY <1>3, <1>4, <1>5, <1>6

\* The loop moves on, stops at a deadline, calls a specialist, records, or is done.
LEMMA LoopCloser ==
    ASSUME RuntimeInv, NEW p \in Procs,
           Skip(p) \/ Timeout(p) \/ StartDispatch(p) \/ DispatchAccepted(p) \/ DispatchRejected(p)
             \/ DispatchRetry(p) \/ ReadAudit(p) \/ RecordFailure(p) \/ RecordResult(p) \/ Finish(p)
    PROVE  \E next : Goto(p, next) /\ Closer(proc[p], next)
  <1> DEFINE r == proc[p]
             i == r.i
  <1>1. IsRunning(r)
    BY DEF Skip, Timeout, StartDispatch, DispatchAccepted, DispatchRejected, DispatchRetry, ReadAudit,
           RecordFailure, RecordResult, Finish, AtTask, IsRunning
  <1>2. r \in RunningState /\ i \in Nat \ {0} /\ r # Idle /\ r.attempts \in 0..MaxRetries
    BY <1>1, InMethodFacts DEF Running, RunningState, Idle
  <1>3. r.pc = "loop" => r.attempts = 0
    BY <1>1, InMethodFacts DEF Running
  <1>4. r.pc # "loop" => i <= Len(ordered)
    <2>1. r.pc # "loop" => i \in DOMAIN ordered
      BY <1>1, InMethodFacts DEF Running
    <2>2. ordered \in Seq(Tasks)
      BY DEF RuntimeInv, DependenciesFirst
    <2> QED BY <2>1, <2>2
  <1>5. \A cp : Closer(r, Saving(cp, "return", 0))
    <2>1. StepsLeft(r) \in Nat /\ StepsLeft(r) >= 4
      BY <1>1, <1>2, InsideSteps
    <2>2. 3 \in 0..StepsLeft(r) - 1
      BY <2>1
    <2> QED BY <2>2, ReturnSteps DEF Closer
  <1>6. CASE AtTask(p) /\ (Skip(p) \/ StartDispatch(p))
    <2>1. i <= Len(ordered) /\ r.pc = "loop"
      BY <1>6 DEF AtTask
    <2>2. Goto(p, [r EXCEPT !.i = @ + 1]) \/ Goto(p, [r EXCEPT !.pc = "dispatch"])
      BY <1>6 DEF Skip, StartDispatch
    <2>3. Closer(r, [r EXCEPT !.i = @ + 1]) /\ Closer(r, [r EXCEPT !.pc = "dispatch"])
      <3>1. r.attempts = 0 /\ i <= Len(ordered) /\ i \in Nat \ {0} /\ r \in RunningState
        BY <1>2, <1>3, <2>1
      <3> QED BY <2>1, <3>1, LookSteps
    <2> HIDE DEF r
    <2> QED BY <2>2, <2>3 DEF r
  <1>7. CASE DispatchAccepted(p) \/ DispatchRejected(p)
    <2>1. r.pc = "dispatch" /\ \E v : Goto(p, [r EXCEPT !.pc = "audit", !.result = v])
      BY <1>7 DEF DispatchAccepted, DispatchRejected
    <2> QED BY <1>2, <1>4, <2>1, TaskSteps
  <1>8. CASE DispatchRetry(p)
    <2>1. r.pc = "dispatch"
      BY <1>8 DEF DispatchRetry
    <2>2. CASE RetriesLeft(r.attempts + 1)
      <3>1. Goto(p, [r EXCEPT !.attempts = r.attempts + 1])
        BY <1>8, <2>2 DEF DispatchRetry
      <3>2. r.attempts + 1 <= MaxRetries
        BY <2>2 DEF RetriesLeft
      <3> QED BY <1>2, <1>4, <2>1, <3>1, <3>2, TaskSteps
    <2>3. CASE ~RetriesLeft(r.attempts + 1)
      <3>1. Goto(p, [r EXCEPT !.pc = "audit", !.result = Unset])
        BY <1>8, <2>3 DEF DispatchRetry
      <3> QED BY <1>2, <1>4, <2>1, <3>1, TaskSteps
    <2> QED BY <2>2, <2>3
  <1>9. CASE ReadAudit(p)
    <2>1. r.pc = "audit" /\ Goto(p, [r EXCEPT !.pc = "append", !.prev = Len(audit)])
      BY <1>9 DEF ReadAudit
    <2> QED BY <1>2, <1>4, <2>1, TaskSteps
  <1>10. CASE RecordResult(p)
    <2>1. /\ r.pc = "append"
          /\ \E cp : Goto(p, Saving(cp, "return", 0)) \/ Goto(p, Saving(cp, "loop", i + 1))
      BY <1>10 DEF RecordResult
    <2> QED BY <1>2, <1>4, <1>5, <2>1, TaskSteps
  <1>11. CASE Timeout(p) \/ RecordFailure(p) \/ Finish(p)
    <2>1. \E cp : Goto(p, Saving(cp, "return", 0))
      BY <1>11 DEF Timeout, RecordFailure, Finish
    <2> QED BY <1>5, <2>1
  <1>12. Skip(p) \/ StartDispatch(p) => AtTask(p)
    BY DEF Skip, StartDispatch
  <1> QED
    BY <1>6, <1>7, <1>8, <1>9, <1>10, <1>11, <1>12

\* A save ends, and with it the method, or the loop goes on where it was.
LEMMA SaveCloser ==
    ASSUME RuntimeInv, NEW p \in Procs, OpenTmp(p) \/ FillTmp(p) \/ Replace(p) \/ ReplaceFails(p)
    PROVE  \E next : Goto(p, next) /\ Closer(proc[p], next)
  <1> DEFINE r == proc[p]
             s == StepsAfterSave(r)
  <1>1. IsSaving(r)
    BY DEF OpenTmp, FillTmp, Replace, ReplaceFails, IsSaving
  <1>2. r \in SavingState /\ (r.then = "loop" => r.i \in Nat \ {0})
    BY <1>1, InMethodFacts DEF SavingOne, SavingState
  <1>3. r # Idle /\ r.then \in {"return", "execute", "loop"}
    BY <1>1, <1>2 DEF IsSaving, Idle, SavingState
  <1>4. s \in Nat
    <2>1. LoopSteps(1) \in Nat
      BY LoopStepsFacts
    <2>2. r.then = "loop" => LoopSteps(r.i) \in Nat
      BY <1>2, LoopStepsFacts
    <2> QED BY <1>3, <2>1, <2>2, StepsLeftFacts
  <1>5. CASE OpenTmp(p) \/ FillTmp(p)
    <2>1. PICK pc \in {"fill_tmp", "replace"} :
            /\ Goto(p, [r EXCEPT !.pc = pc])
            /\ r.pc = IF pc = "fill_tmp" THEN "open_tmp" ELSE "fill_tmp"
      BY <1>5 DEF OpenTmp, FillTmp
    <2> DEFINE next == [r EXCEPT !.pc = pc]
    <2>2. next.pc = pc /\ next.then = r.then /\ next.i = r.i
      BY <1>2 DEF SavingState
    <2> HIDE DEF next
    <2>3. StepsAfterSave(next) = s
      BY <2>2 DEF StepsAfterSave
    <2>4. /\ StepsLeft(next) = IF pc = "fill_tmp" THEN s + 2 ELSE s + 1
          /\ StepsLeft(r) = IF pc = "fill_tmp" THEN s + 3 ELSE s + 2
      BY <2>1, <2>2, <2>3, StepsLeftFacts
    <2> HIDE DEF s
    <2>5. s + 1 \in 0..(s + 2) - 1 /\ s + 2 \in 0..(s + 3) - 1
      BY <1>4
    <2>6. Closer(r, next)
      BY <2>4, <2>5 DEF Closer
    <2> QED BY <2>1, <2>6 DEF next
  <1>6. CASE Replace(p)
    <2> DEFINE next == AfterSave(p)
    <2>1. Goto(p, next) /\ r.pc = "replace"
      BY <1>6 DEF Replace
    <2>2. StepsLeft(next) = s
      <3>1. CASE r.then = "return"
        <4>1. next = Idle
          BY <3>1 DEF AfterSave
        <4> QED BY <3>1, <4>1, ReturnSteps, StepsLeftFacts
      <3>2. CASE r.then = "execute"
        <4>1. next.pc = "execute"
          BY <3>2 DEF AfterSave
        <4> QED BY <3>2, <4>1, StepsLeftFacts
      <3>3. CASE r.then = "loop"
        <4>1. next.pc = "loop" /\ next.i = r.i
          BY <3>3 DEF AfterSave, InExecute
        <4> QED BY <3>3, <4>1, StepsLeftFacts
      <3> QED BY <1>3, <3>1, <3>2, <3>3
    <2>3. StepsLeft(r) = s + 1
      BY <2>1, StepsLeftFacts
    <2> HIDE DEF s, next
    <2>4. s \in 0..(s + 1) - 1
      BY <1>4
    <2> QED BY <2>1, <2>2, <2>3, <2>4 DEF Closer
  <1>7. CASE ReplaceFails(p)
    <2>1. Goto(p, Idle) /\ StepsLeft(Idle) = 0
      BY <1>7, ReturnSteps DEF ReplaceFails
    <2>2. StepsLeft(r) \in Nat /\ StepsLeft(r) >= 1
      BY <1>3, InsideSteps
    <2>3. 0 \in 0..StepsLeft(r) - 1
      BY <2>2
    <2> QED BY <2>1, <2>3 DEF Closer
  <1> QED
    BY <1>5, <1>6, <1>7

\* execute begins with its loop after resume's save, or finds the request halted; a crash ends
\* any method.
LEMMA BeginCloser ==
    ASSUME RuntimeInv, NEW p \in Procs, proc[p] # Idle, Execute(p) \/ ExecuteFails(p) \/ Crash(p)
    PROVE  \E next : Goto(p, next) /\ Closer(proc[p], next)
  <1> DEFINE r == proc[p]
             L == LoopSteps(1)
  <1>1. Closer(r, Idle)
    <2>1. StepsLeft(r) \in Nat /\ StepsLeft(r) >= 1
      BY InsideSteps
    <2>2. 0 \in 0..StepsLeft(r) - 1
      BY <2>1
    <2> QED BY <2>2, ReturnSteps DEF Closer
  <1>2. CASE ExecuteFails(p) \/ Crash(p)
    BY <1>1, <1>2 DEF ExecuteFails, Crash
  <1>3. CASE Execute(p)
    <2> DEFINE next == InExecute("loop", Loaded, 1)
    <2>1. r.pc = "execute" /\ (Goto(p, Idle) \/ Goto(p, next))
      BY <1>3 DEF Execute, MayStart
    <2>2. next.pc = "loop" /\ next.i = 1
      BY DEF InExecute
    <2> HIDE DEF next
    <2>3. StepsLeft(next) = L /\ StepsLeft(r) = L + 1
      BY <2>1, <2>2, StepsLeftFacts
    <2>4. L \in Nat
      BY LoopStepsFacts
    <2> HIDE DEF L
    <2>5. L \in 0..(L + 1) - 1
      BY <2>4
    <2> QED BY <1>1, <2>1, <2>3, <2>5 DEF Closer
  <1> QED
    BY <1>2, <1>3

\* A method that begins disturbs no other.
LEMMA OneBegins ==
    ASSUME RuntimeInv, NEW p \in Procs, proc[p] = Idle,
           Pause(p) \/ Stop(p) \/ Resume(p) \/ Execute(p)
    PROVE  \A q \in Procs : proc[q] # Idle => proc'[q] = proc[q]
  <1>1. \E next : Goto(p, next)
    BY DEF Pause, Stop, Resume, Execute
  <1>2. PICK next : proc' = [proc EXCEPT ![p] = next]
    BY <1>1 DEF Goto
  <1> QED
    BY <1>2 DEF RuntimeInv

\* A method comes closer to its end with each of its steps, whatever the others do: no retry, skipped
\* task, failed save or resumption makes it start over.
THEOREM RuntimeStepsRunOut ==
    Spec => StepsRunOut
  <1>1. ASSUME RuntimeInv, Next
        PROVE  \A p \in Procs : proc[p] # Idle /\ proc'[p] # proc[p] =>
                 StepsLeft(proc'[p]) \in 0..StepsLeft(proc[p]) - 1
    <2>1. PICK p \in Procs : Pause(p) \/ Stop(p) \/ Resume(p) \/ Execute(p) \/ Work(p) \/ Crash(p)
      BY <1>1 DEF Next
    <2>2. CASE \E next : Goto(p, next) /\ Closer(proc[p], next)
      BY <1>1, <2>2, OneMoves
    <2>3. CASE \A q \in Procs : proc[q] # Idle => proc'[q] = proc[q]
      BY <2>3
    <2>4. proc[p] # Idle => ~Pause(p) /\ ~Stop(p) /\ ~Resume(p)
      BY DEF Pause, Stop, Resume, MayStart
    <2>5. proc[p] = Idle => ~Crash(p) /\ ~ExecuteFails(p)
      BY DEF Crash, ExecuteFails, Idle
    <2> QED
      BY <1>1, <2>1, <2>2, <2>3, <2>4, <2>5, LoopCloser, SaveCloser, BeginCloser, OneBegins DEF Work
  <1>2. RuntimeInv /\ [Next]_vars => 
          [\A p \in Procs : proc[p] # Idle /\ proc'[p] # proc[p] =>
             StepsLeft(proc'[p]) \in 0..StepsLeft(proc[p]) - 1]_vars
    BY <1>1
  <1> QED
    BY <1>2, RuntimeInvariant, PTL DEF Spec, StepsRunOut

=============================================================================
