---------------------------- MODULE MarketProofs ----------------------------
(* The theorems about market_data: CursorCovered, CursorArchived,          *)
(* GapsReported, BackfillComplete and CallsRunOut of MarketData for any    *)
(* processes, bars, ranges and bounds, and the types and FailuresSpaced of *)
(* FredAdapter for every list of series, threshold, reset time and number  *)
(* of attempts.                                                            *)
(*                                                                         *)
(* What the collector's invariant says of ticks, files and incidents takes *)
(* them as an argument w, so that a step is a pair of such arguments.      *)
EXTENDS MarketData, FredAdapter, FiniteSetTheorems, SequenceTheorems, WellFoundedInduction,
        NaturalsInduction, TLAPS

\* Where coverage is claimed.
Covering == Exclusive \/ OneDate

CollectPcs ==
    {"resolve", "ticks", "last_tick", "bar_cursor", "bars", "write_ticks", "write_bars", "heartbeat"}

BackfillPcs == {"bf_resolve", "bf_bars", "bf_write", "bf_state", "bf_failed"}

\* Where a collection knows its start, where a call holds what the broker answered, and where
\* a backfill has a chunk.
Looking == {"bars", "write_ticks", "write_bars"}
Holding == {"write_ticks", "write_bars", "bf_write", "bf_state"}
InChunk == BackfillPcs \ {"bf_resolve"}

Dates == {Day(k) : k \in Bars}

CallRecord ==
    [pc : CollectPcs \cup BackfillPcs, attempt : Nat, observed : Int, start : Int, from : Int,
     batch : SUBSET Nat, bars : SUBSET BarRecord, days : SUBSET Dates,
     file : {"none", "open", "filled", "checked"}, range : Ranges \cup {<<>>}]

\* What the invariant speaks of.
World ==
    [now |-> now, ticks |-> ticks, files |-> files, temps |-> temps, tangled |-> tangled,
     incidents |-> incidents]

-----------------------------------------------------------------------------
(* The broker, the files and the incidents *)

TicksIn(k, w) == w.ticks \cap k..Closes(k)-1

Has(k, w) == TicksIn(k, w) # {}

\* A reading never has more ticks than the bar; the last one has as many.
Sound(b, w) == Has(b.open, w) /\ b.ticks <= Cardinality(TicksIn(b.open, w))
Final(b, w) == b.ticks = Cardinality(TicksIn(b.open, w))

\* There is a bar after k.
Later(bars, k) == \E b \in bars : k < b.open

\* A file that can be read holds the bars its name tells.
FileOK(f, w) ==
    /\ f.bars \subseteq BarRecord
    /\ f.bars # {} => f.name = FileName(f.name.day, f.bars)
    /\ \A b \in f.bars : Sound(b, w) /\ Day(b.open) = f.name.day

FilesOK(w) == \A f \in w.files \cup w.temps : FileOK(f, w)

\* The bar is in the files of a name, if there are any.
Covers(name, k) == name.day = Day(k) /\ name.first <= k /\ k <= name.last

\* Two processes were writing a file of the bar at once.
Spoilt(k, w) == \E name \in w.tangled : Covers(name, k)

\* A file has the bar in its final form, and no call that is under way will replace it by an
\* older reading: either the file goes on after it, or there is no other call.
Stored(k, w) ==
    \E f \in w.files : \E b \in f.bars :
      b.open = k /\ Final(b, w) /\ (Exclusive \/ Later(f.bars, k))

Kept(k, w) == Closes(k) <= w.now /\ (Spoilt(k, w) \/ Stored(k, w))

KeptBehind(from, start, w) == \A k \in Bars : Has(k, w) /\ from <= k /\ k < start => Kept(k, w)

\* Two bars around a missing weekday bar.
Gap(j, k, w) ==
    /\ Has(j, w) /\ Has(k, w) /\ \E m \in Bars \ Weekend : j < m /\ m < k
    /\ \A m \in Bars : j < m /\ m < k => ~Has(m, w)

Reported(k) == [kind |-> "missing_bars", bar |-> k]

GapsBehind(from, start, w) ==
    \A j, k \in Bars : Gap(j, k, w) /\ from <= j /\ k <= start => Reported(k) \in w.incidents

-----------------------------------------------------------------------------
(* A call *)

\* Up to where a call reads.
ReadTo(c) == IF c.pc \in BackfillPcs THEN AdvanceWindow(c.range, c.start) ELSE c.observed

TimesOK(c, w) ==
    /\ c.pc \in CollectPcs \cup BackfillPcs => c.observed <= w.now
    /\ c.pc \in BackfillPcs => c.range \in Ranges

\* What a call holds is what there is from its start on: no bar before the last is missing or
\* unfinished, nor is one that has closed.
BatchOK(c, w) ==
    /\ c.days \subseteq Days(c.bars)
    /\ \A b \in c.bars : /\ Sound(b, w) /\ c.start <= b.open
                         /\ Later(c.bars, b.open) \/ Closes(b.open) <= c.observed => Final(b, w)
    /\ \A b, d \in c.bars : b.open = d.open => b = d
    /\ \A k \in Bars :
         /\ Has(k, w) /\ c.start <= k
         /\ Later(c.bars, k) \/ (k <= ReadTo(c) /\ Closes(k) <= c.observed)
         => k \in Opens(c.bars)

\* What is written stays.
WrittenKept(c, w) ==
    \A b \in c.bars :
      /\ Day(b.open) \notin c.days
      /\ Later(c.bars, b.open) \/ (Exclusive /\ Closes(b.open) <= c.observed)
      => Kept(b.open, w)

\* A collection starts at its first instant or at a bar that exists.
StartOK(from, start, w) == start = from \/ (start \in Bars /\ Has(start, w))

\* Everything behind the start is reported and stored.
BehindOK(from, start, w) ==
    /\ from \in Int /\ start \in Int
    /\ StartOK(from, start, w) /\ GapsBehind(from, start, w)
    /\ Covering => KeptBehind(from, start, w)

\* The bars of a range that are to be stored before an instant of it: those that had closed
\* when it was asked for.
Done(r, until, asked, w) ==
    \A k \in Bars : Has(k, w) /\ r[1] <= k /\ k < until /\ Closes(k) <= asked => Kept(k, w)

CallOK(c, w) ==
    /\ TimesOK(c, w)
    /\ c.pc \in Holding => BatchOK(c, w) /\ (Covering => WrittenKept(c, w))
    /\ c.pc \in Looking => BehindOK(c.from, c.start, w)
    /\ c.pc \in InChunk /\ Exclusive => Done(c.range, c.start, c.observed, w)
    /\ c.pc = "bf_state" => c.days = {}

\* A call holds nothing older than what the files have.
Fresh(c, w) == \A f \in w.files : \A b \in f.bars, d \in c.bars : b.open = d.open => b.ticks <= d.ticks

-----------------------------------------------------------------------------
(* The inductive invariant *)

MarketTypes ==
    /\ now \in Nat /\ ticks \subseteq 0..now
    /\ proc \in [Procs -> CallRecord \cup {Idle}]
    /\ DOMAIN backfills = Ranges

CallsOK == \A p \in Procs : CallOK(proc[p], World)

\* An exclusive call is alone and fresh.
AloneOK ==
    Exclusive => \A p \in Procs :
      /\ \A q \in Procs : proc[p] # Idle /\ proc[q] # Idle => p = q
      /\ proc[p].pc \in Holding => Fresh(proc[p], World)

RowOK(row, w) == row.bar.open \in Bars /\ Has(row.bar.open, w) /\ BehindOK(row.from, row.bar.open, w)

CursorOK == currentRow # None => RowOK(currentRow, World)

EntryOK(r, entry, w) ==
    /\ entry.next \in Int /\ entry.asked \in Int /\ entry.asked <= w.now
    /\ Exclusive => Done(r, entry.next, entry.asked, w)
    /\ entry.status = "complete" => r[2] <= entry.next

BackfillsOK == \A r \in Ranges : backfills[r] # None => EntryOK(r, backfills[r], World)

\* A call is at a file only while it writes files.
Staged(c) == c.file # "none" => c.pc \in {"write_bars", "bf_write"} /\ c.days # {}

InFile(c) == c.pc \in {"write_bars", "bf_write"} /\ c.days # {} /\ c.file # "none"

\* What a process that has its file to itself finds under the temporary name: what it wrote, or
\* nothing when a call that failed before removed it.
OwnTemp(c, h, T) ==
    /\ c.file = "open" => h \in {"temp", "gone"}
    /\ \A t \in T : t.name = NextName(c) =>
         h # "gone" /\ t.bars = IF c.file = "open" THEN {} ELSE NextBars(c)

\* Two processes at a file of one name have tangled it; otherwise a file is its writer's own.
StoreOK ==
    /\ Exclusive => tangled = {}
    /\ handle \in [Procs -> {"none", "temp", "file", "gone"}]
    /\ \A p \in Procs : proc[p] # Idle => Staged(proc[p])
    /\ \A p \in Procs : handle[p] # "none" => InFile(proc[p]) /\ proc[p].file = "open"
    /\ \A p, q \in Procs :
         /\ p # q /\ InFile(proc[p]) /\ InFile(proc[q]) /\ NextName(proc[p]) = NextName(proc[q])
         => NextName(proc[p]) \in tangled
    /\ \A p \in Procs :
         InFile(proc[p]) /\ NextName(proc[p]) \notin tangled => OwnTemp(proc[p], handle[p], temps)

MarketInv ==
    MarketTypes /\ FilesOK(World) /\ CallsOK /\ AloneOK /\ CursorOK /\ BackfillsOK /\ StoreOK

-----------------------------------------------------------------------------
(* Numbers, bars and ticks *)

\* A set of numbers has a smallest one.
LEMMA NatMin ==
    ASSUME NEW S, S \subseteq Nat, S # {}
    PROVE  \E x \in S : \A y \in S : x <= y
  <1>1. PICK x \in S : \A y \in S : ~ (<<y, x>> \in OpToRel(<, Nat))
    BY NatLessThanWellFounded, WFMin
  <1>2. \A y \in S : ~ (y < x)
    BY <1>1 DEF OpToRel
  <1> QED BY <1>2

\* Min and Max of bounded numbers.
LEMMA Extremes ==
    ASSUME NEW n \in Nat, NEW S, S \subseteq 0..n, S # {}
    PROVE  /\ Min(S) \in S /\ \A x \in S : Min(S) <= x
           /\ Max(S) \in S /\ \A x \in S : x <= Max(S)
  <1>0. S \subseteq Nat /\ \A x \in S : x \in Nat /\ n - x \in Nat
    OBVIOUS
  <1>1. \E x \in S : \A y \in S : x =< y
    BY <1>0, NatMin
  <1>2. \E x \in S : \A y \in S : x >= y
    <2> DEFINE T == {n - x : x \in S}
    <2>1. T \subseteq Nat /\ T # {}
      BY <1>0, Zenon
    <2>2. PICK m \in T : \A y \in T : m <= y
      BY <2>1, NatMin
    <2>3. PICK x \in S : m = n - x
      OBVIOUS
    <2>4. \A y \in S : x >= y
      <3> TAKE y \in S
      <3>1. m <= n - y
        BY <2>2
      <3> QED BY <2>3, <3>1
    <2> QED BY <2>4
  <1>3. Min(S) \in S /\ \A x \in S : Min(S) =< x
    BY <1>1, Zenon DEF Min
  <1>4. Max(S) \in S /\ \A x \in S : Max(S) >= x
    BY <1>2, Zenon DEF Max
  <1> QED BY <1>0, <1>3, <1>4

\* The smaller of two numbers.
LEMMA MinOfTwo ==
    ASSUME NEW a \in Int, NEW b \in Int
    PROVE  Min({a, b}) \in Int /\ Min({a, b}) \in {a, b}
  <1>1. \E x \in {a, b} : \A y \in {a, b} : x =< y
    OBVIOUS
  <1>2. Min({a, b}) \in {a, b}
    BY <1>1, Zenon DEF Min
  <1> HIDE DEF Min
  <1> QED BY <1>2

\* A bar is over when the next one opens.
LEMMA BarsApart ==
    ASSUME NEW j \in Bars, NEW k \in Bars, j < k
    PROVE  Closes(j) <= k
  <1>1. BarLen \in Nat /\ BarLen > 0 /\ j \in Nat /\ k \in Nat /\ Horizon \in Nat
    BY MarketAssumption DEF MarketAssumption, Bars
  <1>2. \A n \in Bars : \E a \in 0..Horizon : n = BarLen * a
    BY Zenon DEF Bars
  <1>3. PICK a \in 0..Horizon, b \in 0..Horizon : j = BarLen * a /\ k = BarLen * b
    BY <1>2
  <1>4. \A n \in Nat, c, d \in Nat : n * c < n * d => n * c + n <= n * d
    <2> TAKE n \in Nat, c, d \in Nat
    <2> HAVE n * c < n * d
    <2>1. ~ (d <= c)
      <3> SUFFICES ASSUME d <= c PROVE FALSE
        OBVIOUS
      <3>1. n * (c - d) >= 0
        OBVIOUS
      <3>2. n * (c - d) = n * c - n * d
        OBVIOUS
      <3> QED BY <3>1, <3>2
    <2>2. n * (d - c - 1) >= 0
      BY <2>1
    <2>3. n * (d - c - 1) = n * d - n * c - n
      OBVIOUS
    <2> QED BY <2>2, <2>3
  <1> QED BY <1>1, <1>3, <1>4 DEF Closes

\* What the constants and bars are.
LEMMA BarFacts ==
    /\ Horizon \in Nat /\ BarLen \in Nat /\ BarLen >= 1
    /\ \A k \in Bars : k \in 0..Horizon /\ Closes(k) = k + BarLen /\ Closes(k) \in Nat
    /\ \A r \in Ranges : r[1] \in Nat /\ r[2] \in Nat
  <1>1. Horizon \in Nat /\ BarLen \in Nat /\ BarLen >= 1
    BY MarketAssumption DEF MarketAssumption
  <1>2. \A k \in Bars : k \in 0..Horizon /\ Closes(k) = k + BarLen /\ Closes(k) \in Nat
    BY <1>1 DEF Bars, Closes
  <1>3. Ranges \subseteq (0..Horizon) \X (0..Horizon)
    BY MarketAssumption DEF MarketAssumption
  <1> QED BY <1>1, <1>2, <1>3

\* How time and the market go on.
Grew(w, v) ==
    /\ w.now \in Nat /\ v.now \in Nat /\ w.now <= v.now
    /\ w.ticks \subseteq 0..w.now /\ w.ticks \subseteq v.ticks
    /\ \A t \in v.ticks : t \in w.ticks \/ t > w.now

\* The ticks in a bar: they are countable, none is lost, and none comes after its close.
LEMMA TickFacts ==
    ASSUME NEW w, NEW v, Grew(w, v), NEW k \in Bars
    PROVE  /\ Cardinality(TicksIn(k, w)) \in 0..BarLen /\ Cardinality(TicksIn(k, v)) \in 0..BarLen
           /\ Has(k, w) => Cardinality(TicksIn(k, w)) >= 1 /\ Has(k, v) /\ k <= w.now
           /\ Cardinality(TicksIn(k, w)) <= Cardinality(TicksIn(k, v))
           /\ Closes(k) <= w.now => TicksIn(k, w) = TicksIn(k, v)
  <1>1. /\ k \in Nat /\ Closes(k) \in Nat /\ BarLen \in Nat /\ Closes(k) = k + BarLen
        /\ Closes(k) - 1 \in Int /\ ~(k > Closes(k) - 1) /\ Closes(k) - 1 - k + 1 = BarLen
    BY BarFacts
  <1>2. IsFiniteSet(k..Closes(k)-1) /\ Cardinality(k..Closes(k)-1) = BarLen
    BY <1>1, FS_Interval
  <1>3. TicksIn(k, w) \in SUBSET (k..Closes(k)-1) /\ TicksIn(k, v) \in SUBSET (k..Closes(k)-1)
    BY DEF TicksIn
  <1>4. /\ IsFiniteSet(TicksIn(k, w)) /\ Cardinality(TicksIn(k, w)) <= BarLen
        /\ IsFiniteSet(TicksIn(k, v)) /\ Cardinality(TicksIn(k, v)) <= BarLen
    BY <1>2, <1>3, FS_Subset
  <1>5. Cardinality(TicksIn(k, w)) \in Nat /\ Cardinality(TicksIn(k, v)) \in Nat
    BY <1>4, FS_CardinalityType
  <1>6. TicksIn(k, w) \in SUBSET TicksIn(k, v)
    BY DEF TicksIn, Grew
  <1>7. Cardinality(TicksIn(k, w)) <= Cardinality(TicksIn(k, v))
    BY <1>4, <1>6, FS_Subset
  <1>8. Has(k, w) => Cardinality(TicksIn(k, w)) # 0 /\ Has(k, v)
    BY <1>4, <1>6, FS_EmptySet DEF Has
  <1>9. Has(k, w) => k <= w.now
    BY <1>1 DEF Has, TicksIn, Grew
  <1>10. Closes(k) <= w.now => TicksIn(k, w) = TicksIn(k, v)
    <2> SUFFICES ASSUME Closes(k) <= w.now, NEW t \in TicksIn(k, v) PROVE t \in TicksIn(k, w)
      BY <1>6
    <2>1. t \in v.ticks /\ t \in k..Closes(k)-1
      BY DEF TicksIn
    <2>2. t <= w.now /\ t \in Int /\ w.now \in Nat
      BY <1>1, <2>1 DEF Grew
    <2>3. t \in w.ticks
      BY <2>1, <2>2 DEF Grew
    <2> QED BY <2>1, <2>3 DEF TicksIn
  <1> QED BY <1>1, <1>4, <1>5, <1>7, <1>8, <1>9, <1>10

-----------------------------------------------------------------------------
(* What time does not change *)

\* A reading of a bar stays sound, and of a bar that is over it stays as final as it was.
LEMMA ReadingStays ==
    ASSUME NEW w, NEW v, Grew(w, v), NEW b \in BarRecord, Sound(b, w)
    PROVE  /\ Sound(b, v)
           /\ Closes(b.open) <= w.now => (Final(b, w) <=> Final(b, v))
  <1>1. b.open \in Bars /\ b.ticks \in Int
    BY BarFacts DEF BarRecord
  <1>2. b.ticks <= Cardinality(TicksIn(b.open, v)) /\ Has(b.open, v)
    BY <1>1, TickFacts, BarFacts DEF Sound
  <1>3. Closes(b.open) <= w.now => TicksIn(b.open, w) = TicksIn(b.open, v)
    BY <1>1, TickFacts
  <1> QED BY <1>2, <1>3 DEF Sound, Final

\* A bar with a bar after it is over.
LEMMA LaterPast ==
    ASSUME NEW w, Grew(w, w), NEW j \in Bars, NEW k \in Bars, j < k, Has(k, w)
    PROVE  Closes(j) <= w.now
  <1>1. k <= w.now /\ Closes(j) <= k
    BY TickFacts, BarsApart
  <1> QED BY <1>1, BarFacts DEF Grew

\* A bar that is over was there before.
LEMMA HasStays ==
    ASSUME NEW w, NEW v, Grew(w, v), NEW k \in Bars, Closes(k) <= w.now
    PROVE  Has(k, w) <=> Has(k, v)
  BY TickFacts DEF Has

\* The same, for a moment by itself.
LEMMA GrewReflexive ==
    ASSUME NEW w, NEW v, Grew(w, v)
    PROVE  Grew(w, w)
  BY DEF Grew

\* A gap around bars that are not new is not new.
LEMMA GapStays ==
    ASSUME NEW w, NEW v, Grew(w, v), NEW j \in Bars, NEW k \in Bars, Has(k, w), Gap(j, k, v)
    PROVE  Gap(j, k, w)
  <1>1. j < k
    BY BarFacts DEF Gap
  <1>2. Closes(j) <= w.now
    BY <1>1, LaterPast, GrewReflexive
  <1>3. \A m \in Bars : m < k => ~(Has(m, w) /\ ~Has(m, v))
    BY TickFacts
  <1> QED BY <1>2, <1>3, HasStays DEF Gap

\* The world of one step.
Keeps(w, v) ==
    /\ Grew(w, v) /\ w.incidents \subseteq v.incidents /\ w.tangled \subseteq v.tangled
    /\ Covering => \A k \in Bars : Kept(k, w) => Kept(k, v)

\* Bars behind a start are over.
LEMMA BehindPast ==
    ASSUME NEW w, Grew(w, w), NEW from \in Int, NEW start \in Int, StartOK(from, start, w),
           NEW k \in Bars, from <= k, k < start
    PROVE  Closes(k) <= w.now
  <1>1. start # from
    BY BarFacts
  <1> QED BY <1>1, LaterPast DEF StartOK

LEMMA BehindStays ==
    ASSUME NEW w, NEW v, Keeps(w, v), NEW from, NEW start, BehindOK(from, start, w)
    PROVE  BehindOK(from, start, v)
  <1>1. Grew(w, v) /\ Grew(w, w) /\ from \in Int /\ start \in Int /\ StartOK(from, start, w)
    BY GrewReflexive DEF Keeps, BehindOK
  <1>2. StartOK(from, start, v)
    BY <1>1, TickFacts DEF StartOK
  <1>3. GapsBehind(from, start, v)
    <2> SUFFICES ASSUME NEW j \in Bars, NEW k \in Bars, Gap(j, k, v), from <= j, k <= start
                 PROVE  Reported(k) \in v.incidents
      BY DEF GapsBehind
    <2>1. j < k /\ Has(k, v)
      BY BarFacts DEF Gap
    <2>2. Has(k, w)
      <3>1. CASE k = start
        <4>1. start # from
          BY <1>1, <2>1, <3>1, BarFacts
        <4> QED BY <1>1, <3>1, <4>1 DEF StartOK
      <3>2. CASE k < start
        <4>1. Closes(k) <= w.now
          BY <1>1, <2>1, <3>2, BehindPast, BarFacts
        <4> QED BY <1>1, <2>1, <4>1, HasStays
      <3> QED BY <1>1, <3>1, <3>2, BarFacts
    <2>3. Gap(j, k, w)
      BY <1>1, <2>2, GapStays
    <2> QED BY <2>3 DEF BehindOK, GapsBehind, Keeps
  <1>4. ASSUME Covering PROVE KeptBehind(from, start, v)
    <2> SUFFICES ASSUME NEW k \in Bars, Has(k, v), from <= k, k < start PROVE Kept(k, v)
      BY DEF KeptBehind
    <2>1. Closes(k) <= w.now
      BY <1>1, BehindPast
    <2>2. Has(k, w)
      BY <1>1, <2>1, HasStays
    <2> QED BY <1>4, <2>2 DEF BehindOK, KeptBehind, Keeps
  <1> QED BY <1>1, <1>2, <1>3, <1>4 DEF BehindOK

\* So is what a backfill has done.
LEMMA DoneStays ==
    ASSUME NEW w, NEW v, Keeps(w, v), Covering, NEW r \in Ranges, NEW asked \in Int, asked <= w.now,
           NEW until, Done(r, until, asked, w)
    PROVE  Done(r, until, asked, v)
  <1> SUFFICES ASSUME NEW k \in Bars, Has(k, v), r[1] <= k, k < until, Closes(k) <= asked PROVE Kept(k, v)
    BY DEF Done
  <1>1. Grew(w, v) /\ Closes(k) <= w.now
    BY BarFacts DEF Keeps, Grew
  <1>2. Has(k, w)
    BY <1>1, HasStays
  <1> QED BY <1>2 DEF Done, Keeps

-----------------------------------------------------------------------------
(* Calls, rows and progress in another world *)

\* What a call holds stays what there is.
LEMMA BatchStays ==
    ASSUME NEW w, NEW v, Grew(w, v), NEW c \in CallRecord, c.observed <= w.now, BatchOK(c, w)
    PROVE  BatchOK(c, v)
  <1>1. Grew(w, w) /\ c.bars \subseteq BarRecord /\ \A b \in c.bars : b.open \in Bars
    BY GrewReflexive DEF CallRecord, BarRecord
  <1>2. \A k \in Bars : Later(c.bars, k) => Closes(k) <= w.now
    BY <1>1, LaterPast DEF Later, BatchOK, Sound
  <1>3. \A k \in Bars : Closes(k) <= c.observed => Closes(k) <= w.now
    <2>1. c.observed \in Int /\ w.now \in Int
      BY DEF CallRecord, Grew
    <2> QED BY <2>1, BarFacts
  <1>4. \A b \in c.bars : /\ Sound(b, v)
                          /\ Later(c.bars, b.open) \/ Closes(b.open) <= c.observed => Final(b, v)
    BY <1>1, <1>2, <1>3, ReadingStays DEF BatchOK
  <1>5. ASSUME NEW k \in Bars, Has(k, v), c.start <= k,
               Later(c.bars, k) \/ (k <= ReadTo(c) /\ Closes(k) <= c.observed)
        PROVE  k \in Opens(c.bars)
    <2>1. Closes(k) <= w.now
      BY <1>2, <1>3, <1>5
    <2>2. Has(k, w)
      BY <1>5, <2>1, HasStays
    <2> QED BY <1>5, <2>2 DEF BatchOK
  <1> QED BY <1>4, <1>5 DEF BatchOK

\* A call that goes on elsewhere.
LEMMA CallStays ==
    ASSUME NEW w, NEW v, Keeps(w, v), NEW c \in CallRecord \cup {Idle}, CallOK(c, w)
    PROVE  CallOK(c, v)
  <1>1. CASE c = Idle
    BY <1>1 DEF CallOK, TimesOK, Idle, CollectPcs, BackfillPcs, Holding, Looking, InChunk
  <1>2. CASE c \in CallRecord
    <2>1. Grew(w, v)
      BY DEF Keeps
    <2>2. c.observed <= w.now /\ TimesOK(c, v)
      <3>1. c.observed \in Int /\ c.pc \in CollectPcs \cup BackfillPcs
        BY <1>2 DEF CallRecord
      <3> QED BY <2>1, <3>1 DEF CallOK, TimesOK, Grew
    <2>3. c.pc \in Holding => BatchOK(c, v)
      BY <1>2, <2>1, <2>2, BatchStays DEF CallOK
    <2>4. ASSUME c.pc \in Holding, Covering PROVE WrittenKept(c, v)
      <3>1. \A b \in c.bars : b.open \in Bars
        BY <1>2 DEF CallRecord, BarRecord
      <3> QED BY <2>4, <3>1 DEF CallOK, WrittenKept, Keeps
    <2>5. c.pc \in Looking => BehindOK(c.from, c.start, v)
      BY BehindStays DEF CallOK
    <2>6. ASSUME c.pc \in InChunk, Exclusive PROVE Done(c.range, c.start, c.observed, v)
      <3>1. c.range \in Ranges /\ Done(c.range, c.start, c.observed, w) /\ Covering /\ c.observed \in Int
        BY <1>2, <2>6 DEF CallOK, TimesOK, InChunk, Covering, CallRecord
      <3> QED BY <2>2, <3>1, DoneStays
    <2> QED BY <2>2, <2>3, <2>4, <2>5, <2>6 DEF CallOK
  <1> QED BY <1>1, <1>2

\* The cursor.
LEMMA RowStays ==
    ASSUME NEW w, NEW v, Keeps(w, v), NEW row, RowOK(row, w)
    PROVE  RowOK(row, v)
  BY BehindStays, TickFacts DEF RowOK, Keeps

\* The progress of a backfill.
LEMMA EntryStays ==
    ASSUME NEW w, NEW v, Keeps(w, v), NEW r \in Ranges, NEW entry, EntryOK(r, entry, w)
    PROVE  EntryOK(r, entry, v)
  <1>1. Exclusive => Done(r, entry.next, entry.asked, v)
    BY DoneStays DEF EntryOK, Covering
  <1>2. entry.asked <= v.now
    BY DEF EntryOK, Keeps, Grew
  <1> QED BY <1>1, <1>2 DEF EntryOK

\* A file stays what it was.
LEMMA FileStays ==
    ASSUME NEW w, NEW v, Grew(w, v), NEW f, FileOK(f, w)
    PROVE  FileOK(f, v)
  <1>1. \A b \in f.bars : Sound(b, v)
    BY ReadingStays DEF FileOK
  <1> QED BY <1>1 DEF FileOK

\* Files that are no worse than those before.
LEMMA FilesStay ==
    ASSUME NEW w, NEW v, FilesOK(w), Grew(w, v),
           \A f \in v.files \cup v.temps : f \in w.files \cup w.temps \/ FileOK(f, w)
    PROVE  FilesOK(v)
  BY FileStays DEF FilesOK

\* A bar stays stored by a file that is still there.
LEMMA StoredStays ==
    ASSUME NEW w, NEW v, FilesOK(w), Grew(w, v), NEW k \in Bars, Closes(k) <= w.now,
           NEW f \in w.files, f \in v.files, NEW b \in f.bars,
           b.open = k, Final(b, w), Exclusive \/ Later(f.bars, k)
    PROVE  Stored(k, v)
  <1>1. b \in BarRecord /\ Sound(b, w)
    BY DEF FilesOK, FileOK
  <1>2. Final(b, v)
    BY <1>1, ReadingStays
  <1> QED BY <1>2 DEF Stored

\* What is kept where nothing is lost but what two processes were writing.
LEMMA KeptStays ==
    ASSUME NEW w, NEW v, Grew(w, v), w.tangled \subseteq v.tangled, NEW k \in Bars, Kept(k, w),
           Stored(k, w) => Stored(k, v) \/ Spoilt(k, v)
    PROVE  Kept(k, v)
  <1>1. Closes(k) <= v.now
    BY BarFacts DEF Kept, Grew
  <1> QED BY <1>1 DEF Kept, Spoilt

\* Time passes, or incidents are added, and no file is written.
LEMMA AgesKeeps ==
    ASSUME NEW w, NEW v, FilesOK(w), Grew(w, v), w.incidents \subseteq v.incidents,
           w.tangled \subseteq v.tangled, v.files = w.files
    PROVE  Keeps(w, v)
  <1>1. ASSUME NEW k \in Bars, Kept(k, w) PROVE Kept(k, v)
    <2>1. Stored(k, w) => Stored(k, v)
      BY <1>1, StoredStays DEF Stored, Kept
    <2> QED BY <1>1, <2>1, KeptStays
  <1> QED BY <1>1 DEF Keeps

-----------------------------------------------------------------------------
(* A file is written *)

\* The dates of a call have a first one.
LEMMA FirstDate == ASSUME NEW S, S \subseteq Dates, S # {} PROVE Min(S) \in S
  <1>1. BarLen * BarsPerDay \in Nat /\ BarLen * BarsPerDay > 0
    BY MarketAssumption DEF MarketAssumption
  <1>2. \A k \in Bars : Day(k) \in Nat
    BY <1>1, BarFacts DEF Day
  <1>3. S \subseteq Nat
    BY <1>2 DEF Dates
  <1>4. \E x \in S : \A y \in S : x =< y
    BY <1>3, NatMin
  <1> QED BY <1>4, Zenon DEF Min

\* The date of the file that a call is at, and what the file is to hold.
LEMMA NextFacts ==
    ASSUME NEW w, Grew(w, w), NEW c \in CallRecord, BatchOK(c, w), c.days # {}
    PROVE  /\ Min(c.days) \in c.days /\ NextName(c) = FileName(Min(c.days), NextBars(c))
           /\ NextBars(c) = {b \in c.bars : Day(b.open) = Min(c.days)}
           /\ NextBars(c) # {} /\ NextBars(c) \subseteq BarRecord
           /\ \A b \in NextBars(c) : Sound(b, w) /\ Day(b.open) = NextName(c).day
  <1>1. Min(c.days) \in c.days
    BY FirstDate DEF CallRecord
  <1>2. /\ NextName(c) = FileName(Min(c.days), NextBars(c))
        /\ NextBars(c) = {b \in c.bars : Day(b.open) = Min(c.days)}
    BY DEF NextName, NextBars
  <1>3. NextName(c).day = Min(c.days)
    BY <1>2 DEF FileName
  <1>4. NextBars(c) # {}
    BY <1>1, <1>2 DEF BatchOK, Days, Opens
  <1> QED BY <1>1, <1>2, <1>3, <1>4 DEF BatchOK, CallRecord

\* Opening times have a first and a last.
LEMMA OpensFacts ==
    ASSUME NEW S \in SUBSET BarRecord, S # {}
    PROVE  /\ Min(Opens(S)) \in Opens(S) /\ Max(Opens(S)) \in Opens(S)
           /\ \A b \in S : Min(Opens(S)) <= b.open /\ b.open <= Max(Opens(S))
  <1>1. \A b \in S : b.open \in Bars /\ b.open \in Opens(S)
    BY DEF BarRecord, Opens
  <1>2. Opens(S) # {} /\ Opens(S) \subseteq 0..Horizon
    BY <1>1, BarFacts DEF Opens
  <1>3. /\ Min(Opens(S)) \in Opens(S) /\ \A x \in Opens(S) : Min(Opens(S)) <= x
        /\ Max(Opens(S)) \in Opens(S) /\ \A x \in Opens(S) : x <= Max(Opens(S))
    BY <1>2, BarFacts, Extremes
  <1> QED BY <1>1, <1>3

\* What the name of a file tells.
LEMMA NameParts ==
    ASSUME NEW d, NEW S
    PROVE  /\ FileName(d, S).day = d /\ FileName(d, S).first = Min(Opens(S))
           /\ FileName(d, S).last = Max(Opens(S))
  BY DEF FileName

\* The name of a file tells of each bar in it.
LEMMA NameCovers ==
    ASSUME NEW S \in SUBSET BarRecord, NEW b \in S, NEW d, Day(b.open) = d
    PROVE  Covers(FileName(d, S), b.open)
  <1>1. Min(Opens(S)) <= b.open /\ b.open <= Max(Opens(S))
    BY OpensFacts
  <1> QED BY <1>1 DEF Covers, FileName

\* The bars of a file that is replaced are all in the new one.
LEMMA ReplacedBars ==
    ASSUME NEW w, Grew(w, w), FilesOK(w), NEW c \in CallRecord, BatchOK(c, w), c.days # {},
           NEW g \in w.files, g.name = NextName(c), NEW b \in g.bars
    PROVE  \E e \in NextBars(c) : /\ e.open = b.open
                                  /\ Later(g.bars, b.open) => Later(NextBars(c), b.open)
  <1> DEFINE d == Min(c.days)
             new == Opens(NextBars(c))
             old == Opens(g.bars)
  <1>1. /\ NextBars(c) = {e \in c.bars : Day(e.open) = d} /\ NextName(c) = FileName(d, NextBars(c))
        /\ NextBars(c) # {} /\ NextBars(c) \in SUBSET BarRecord
    BY NextFacts
  <1>2. /\ g.bars \in SUBSET BarRecord /\ g.bars # {} /\ g.name = FileName(g.name.day, g.bars)
        /\ Sound(b, w) /\ Day(b.open) = g.name.day /\ b.open \in Bars
        /\ \A e \in g.bars : e.open \in Bars
    BY DEF FilesOK, FileOK, BarRecord
  <1>3. /\ Min(new) \in new /\ Max(new) \in new
        /\ \A e \in g.bars : Min(old) <= e.open /\ e.open <= Max(old)
    BY <1>1, <1>2, OpensFacts
  <1>4. g.name.day = d /\ Min(old) = Min(new) /\ Max(old) = Max(new)
    <2>1. FileName(d, NextBars(c)) = FileName(g.name.day, g.bars)
      BY <1>1, <1>2
    <2> QED BY <2>1, NameParts
  <1>5. PICK lo \in NextBars(c), hi \in NextBars(c) : lo.open = Min(new) /\ hi.open = Max(new)
    BY <1>3 DEF Opens
  <1>6. /\ lo \in c.bars /\ hi \in c.bars /\ c.start <= lo.open /\ lo.open \in Int /\ c.start \in Int
        /\ hi.open \in Int
    BY <1>1, <1>5, BarFacts DEF BatchOK, CallRecord, BarRecord
  <1> HIDE DEF d, new, old
  <1>7. /\ Has(b.open, w) /\ b.open \in Int /\ Day(b.open) = d
        /\ c.start <= b.open /\ lo.open <= b.open /\ b.open <= hi.open
    BY <1>2, <1>3, <1>4, <1>5, <1>6, BarFacts DEF Sound
  <1>8. \E e \in NextBars(c) : e.open = b.open
    <2>1. CASE b.open = hi.open
      BY <2>1
    <2>2. CASE b.open < hi.open
      <3>1. Later(c.bars, b.open)
        BY <1>6, <2>2 DEF Later
      <3>2. b.open \in Opens(c.bars)
        BY <1>2, <1>7, <3>1 DEF BatchOK
      <3> QED BY <1>1, <1>7, <3>2 DEF Opens
    <2> QED BY <1>6, <1>7, <2>1, <2>2
  <1>9. ASSUME Later(g.bars, b.open) PROVE Later(NextBars(c), b.open)
    <2>1. PICK e \in g.bars : b.open < e.open
      BY <1>9 DEF Later
    <2>2. e.open \in Int /\ e.open <= hi.open
      BY <1>2, <1>3, <1>4, <1>5, BarFacts
    <2>3. b.open < hi.open
      BY <1>6, <1>7, <2>1, <2>2
    <2> QED BY <2>3 DEF Later
  <1> QED BY <1>8, <1>9

\* Nothing that is kept is lost by replacing a file by what its writer holds.
LEMMA WriteKeeps ==
    ASSUME NEW w, NEW v, Grew(w, v), FilesOK(w), NEW c \in CallRecord, BatchOK(c, w), c.days # {},
           Exclusive => Fresh(c, w),
           v.now = w.now, v.ticks = w.ticks, v.incidents = w.incidents, v.tangled = w.tangled,
           v.files = With(w.files, NextName(c), NextBars(c))
    PROVE  Keeps(w, v)
  <1> DEFINE new == NextBars(c)
             file == [name |-> NextName(c), bars |-> new]
  <1>1. Grew(w, w) /\ \A e \in c.bars : e.open \in Bars /\ e.ticks \in Int
    BY GrewReflexive, BarFacts DEF CallRecord, BarRecord
  <1>2. new \subseteq c.bars /\ file \in v.files /\ file.bars = new
    BY DEF NextBars, With
  <1>3. \A b : Final(b, v) <=> Final(b, w)
    BY DEF Final, TicksIn
  <1>4. ASSUME NEW k \in Bars, Kept(k, w) PROVE Kept(k, v)
    <2> SUFFICES ASSUME NEW f \in w.files, NEW b \in f.bars,
                        b.open = k, Final(b, w), Exclusive \/ Later(f.bars, k)
                 PROVE  Stored(k, v)
      BY <1>4, KeptStays DEF Stored
    <2>1. CASE f.name # NextName(c)
      <3>1. f \in v.files
        BY <2>1 DEF With, Without
      <3> QED BY <1>3, <3>1 DEF Stored
    <2>2. CASE f.name = NextName(c)
      <3>1. PICK e \in new : e.open = b.open /\ (Later(f.bars, b.open) => Later(new, b.open))
        BY <1>1, <2>2, ReplacedBars
      <3>2. e \in c.bars
        BY <1>2, <3>1
      <3> HIDE DEF new, file
      <3>3. Final(e, w)
        <4>1. CASE Later(f.bars, k)
          <5>1. Later(c.bars, e.open)
            BY <1>2, <3>1, <4>1 DEF Later
          <5> QED BY <3>2, <5>1 DEF BatchOK
        <4>2. CASE Exclusive
          <5>1. b.ticks <= e.ticks
            BY <3>1, <3>2, <4>2 DEF Fresh
          <5>2. b.ticks = Cardinality(TicksIn(k, w)) /\ e.ticks <= Cardinality(TicksIn(k, w))
            BY <3>1, <3>2 DEF Final, BatchOK, Sound
          <5>3. Cardinality(TicksIn(k, w)) \in Int /\ e.ticks \in Int
            BY <1>1, <3>2, TickFacts, BarFacts
          <5>4. e.ticks = Cardinality(TicksIn(k, w))
            BY <5>1, <5>2, <5>3
          <5> QED BY <3>1, <5>4 DEF Final
        <4> QED BY <4>1, <4>2
      <3> QED BY <1>2, <1>3, <3>1, <3>3 DEF Stored
    <2> QED BY <2>1, <2>2
  <1> QED BY <1>4 DEF Keeps

\* Nor is anything else, by whatever comes to a file that two processes were writing.
LEMMA TangleKeeps ==
    ASSUME NEW w, NEW v, Grew(w, v), FilesOK(w), NEW name \in w.tangled, NEW bars,
           w.incidents \subseteq v.incidents, v.tangled = w.tangled, v.files = With(w.files, name, bars)
    PROVE  Keeps(w, v)
  <1>1. ASSUME NEW k \in Bars, Kept(k, w) PROVE Kept(k, v)
    <2> SUFFICES ASSUME NEW f \in w.files, NEW b \in f.bars,
                        b.open = k, Final(b, w), Exclusive \/ Later(f.bars, k)
                 PROVE  Stored(k, v) \/ Spoilt(k, v)
      BY <1>1, KeptStays DEF Stored
    <2>1. CASE f.name # name
      <3>1. f \in v.files
        BY <2>1 DEF With, Without
      <3> QED BY <1>1, <3>1, StoredStays DEF Kept
    <2>2. CASE f.name = name
      <3>1. f.bars \in SUBSET BarRecord /\ f.name = FileName(f.name.day, f.bars) /\ Day(b.open) = f.name.day
        BY DEF FilesOK, FileOK
      <3>2. Covers(f.name, k)
        BY <3>1, NameCovers
      <3> QED BY <2>2, <3>2 DEF Spoilt
    <2> QED BY <2>1, <2>2
  <1> QED BY <1>1 DEF Keeps

\* What counts in the new file is kept.
LEMMA WriteNew ==
    ASSUME NEW w, NEW v, Grew(w, v), NEW c \in CallRecord, c.observed <= w.now, BatchOK(c, w), Covering,
           c.days # {}, v.now = w.now, v.ticks = w.ticks,
           NextName(c) \in v.tangled \/ [name |-> NextName(c), bars |-> NextBars(c)] \in v.files,
           NEW b \in c.bars, Day(b.open) = Min(c.days),
           Later(c.bars, b.open) \/ (Exclusive /\ Closes(b.open) <= c.observed)
    PROVE  Kept(b.open, v)
  <1>1. Grew(w, w) /\ b.open \in Bars /\ \A e \in c.bars : e.open \in Bars
    BY GrewReflexive DEF CallRecord, BarRecord
  <1>2. Closes(b.open) <= w.now
    <2>1. CASE Later(c.bars, b.open)
      BY <1>1, <2>1, LaterPast DEF Later, BatchOK, Sound
    <2>2. CASE Closes(b.open) <= c.observed
      <3>1. c.observed \in Int /\ w.now \in Int
        BY DEF CallRecord, Grew
      <3> QED BY <1>1, <2>2, <3>1, BarFacts
    <2> QED BY <2>1, <2>2
  <1>3. b \in NextBars(c)
    BY DEF NextBars
  <1>4. CASE NextName(c) \in v.tangled
    <2>1. NextBars(c) \in SUBSET BarRecord /\ NextName(c) = FileName(Min(c.days), NextBars(c))
      BY <1>1, NextFacts
    <2>2. Covers(NextName(c), b.open)
      BY <1>3, <2>1, NameCovers
    <2> QED BY <1>2, <1>4, <2>2 DEF Kept, Spoilt
  <1>5. CASE [name |-> NextName(c), bars |-> NextBars(c)] \in v.files
    <2>1. Final(b, v)
      BY DEF BatchOK, Final, TicksIn
    <2>2. Exclusive \/ Later(NextBars(c), b.open)
      <3> SUFFICES ASSUME ~Exclusive PROVE Later(NextBars(c), b.open)
        OBVIOUS
      <3>1. PICK e \in c.bars : b.open < e.open
        BY DEF Later
      <3>2. Day(e.open) = Min(c.days)
        BY <1>1 DEF Covering, OneDate
      <3> QED BY <3>1, <3>2 DEF Later, NextBars
    <2> DEFINE f == [name |-> NextName(c), bars |-> NextBars(c)]
    <2>3. f \in v.files /\ f.bars = NextBars(c)
      BY <1>5
    <2> HIDE DEF f
    <2>4. Stored(b.open, v)
      BY <1>3, <2>1, <2>2, <2>3 DEF Stored
    <2> QED BY <1>2, <2>4 DEF Kept
  <1> QED BY <1>4, <1>5

\* The call that wrote the file.
LEMMA WriteCall ==
    ASSUME NEW w, NEW v, Keeps(w, v), NEW c \in CallRecord, CallOK(c, w),
           c.pc \in {"write_bars", "bf_write"}, c.days # {}, v.now = w.now, v.ticks = w.ticks,
           NextName(c) \in v.tangled \/ [name |-> NextName(c), bars |-> NextBars(c)] \in v.files,
           NEW n \in CallRecord, n.pc = c.pc, n.observed = c.observed, n.start = c.start, n.from = c.from,
           n.bars = c.bars, n.range = c.range, n.days = c.days \ {Min(c.days)}
    PROVE  CallOK(n, v)
  <1>1. Grew(w, v) /\ c.pc \in Holding
    BY DEF Keeps, Holding
  <1>2. BatchOK(c, w) /\ c.observed <= w.now
    BY <1>1 DEF CallOK, TimesOK, CollectPcs, BackfillPcs
  <1>3. CallOK(c, v)
    BY CallStays
  <1>4. ASSUME Covering PROVE WrittenKept(n, v)
    <2> SUFFICES ASSUME NEW b \in c.bars, Day(b.open) \notin n.days,
                        Later(c.bars, b.open) \/ (Exclusive /\ Closes(b.open) <= c.observed)
                 PROVE  Kept(b.open, v)
      BY DEF WrittenKept
    <2>1. CASE Day(b.open) = Min(c.days)
      BY <1>1, <1>2, <1>4, <2>1, WriteNew
    <2>2. CASE Day(b.open) # Min(c.days)
      <3>1. Day(b.open) \notin c.days
        BY <2>2
      <3> QED BY <1>1, <1>3, <1>4, <3>1 DEF CallOK, WrittenKept
    <2> QED BY <2>1, <2>2
  <1>5. BatchOK(n, v)
    BY <1>1, <1>3 DEF CallOK, BatchOK, ReadTo
  <1>6. TimesOK(n, v)
    BY <1>3 DEF CallOK, TimesOK
  <1> QED BY <1>3, <1>4, <1>5, <1>6 DEF CallOK

\* The file is not newer than the call that wrote it.
LEMMA WriteFresh ==
    ASSUME NEW w, NEW v, NEW c, BatchOK(c, w), Fresh(c, w),
           v.files = With(w.files, NextName(c), NextBars(c)),
           NEW n, n.bars = c.bars, \A b \in c.bars : b.ticks \in Int
    PROVE  Fresh(n, v)
  <1>1. \A b, e \in c.bars : b.open = e.open => b.ticks <= e.ticks
    BY DEF BatchOK
  <1> QED BY <1>1 DEF Fresh, With, Without, NextBars

-----------------------------------------------------------------------------
(* What the broker answers *)

\* The present moment.
LEMMA WorldGrew == MarketTypes => Grew(World, World)
  BY DEF MarketTypes, Grew, World

\* The ticks of now.
LEMMA TicksNow == \A k : TicksIn(k, World) = BarTicks(k) /\ (Has(k, World) <=> Exists(k))
  BY DEF TicksIn, World, BarTicks, Has, Exists

\* The broker's answer is complete and up to date.
LEMMA LoadFacts ==
    ASSUME MarketTypes, NEW from, NEW to, NEW asOf
    PROVE  LET bars == LoadedBars(from, to, asOf)
           IN  /\ bars \subseteq BarRecord /\ Days(bars) \subseteq Dates
               /\ \A b \in bars : /\ b.open \in Bars /\ Has(b.open, World) /\ Final(b, World)
                                  /\ from <= b.open /\ b.open <= to
               /\ \A b, d \in bars : b.open = d.open => b = d
               /\ \A k \in Bars : Has(k, World) /\ from <= k /\ k <= to => k \in Opens(bars)
  <1> DEFINE bars == LoadedBars(from, to, asOf)
             rates == CopyRates(from, to)
  <1>1. \A k : k \in rates <=> k \in Bars /\ from <= k /\ k <= to /\ Has(k, World)
    BY TicksNow DEF CopyRates
  <1>2. \A k \in rates : Cardinality(BarTicks(k)) \in 1..BarLen
    <2> TAKE k \in rates
    <2>1. k \in Bars /\ Has(k, World) /\ Grew(World, World)
      BY <1>1, WorldGrew
    <2>2. Cardinality(TicksIn(k, World)) \in 0..BarLen /\ Cardinality(TicksIn(k, World)) >= 1
      BY <2>1, TickFacts
    <2> QED BY <2>2, TicksNow, BarFacts
  <1>3. /\ bars = {Normalized(k, asOf) : k \in rates}
        /\ \A k : Normalized(k, asOf).open = k /\ Normalized(k, asOf).ticks = Cardinality(BarTicks(k))
    BY DEF LoadedBars, NormalizeBarBatch, Normalized
  <1>4. \A k \in rates : Normalized(k, asOf) \in BarRecord
    BY <1>1, <1>2 DEF Normalized, BarRecord
  <1>5. \A b \in bars : b.open \in rates /\ b = Normalized(b.open, asOf)
    BY <1>3
  <1>6. \A b \in bars : b \in BarRecord /\ Final(b, World)
    BY <1>3, <1>4, <1>5, TicksNow DEF Final
  <1>7. Days(bars) \subseteq Dates
    BY <1>1, <1>5 DEF Days, Opens, Dates
  <1>8. \A k \in rates : k \in Opens(bars)
    BY <1>3 DEF Opens
  <1> HIDE DEF bars, rates
  <1> QED BY <1>1, <1>5, <1>6, <1>7, <1>8 DEF bars

\* A call that has just got its answer.
LEMMA LoadCall ==
    ASSUME MarketTypes, NEW n \in CallRecord, NEW asOf, n.bars = LoadedBars(n.start, ReadTo(n), asOf),
           n.days = Days(n.bars), TimesOK(n, World)
    PROVE  BatchOK(n, World) /\ WrittenKept(n, World)
  <1>1. /\ n.bars \subseteq BarRecord
        /\ \A b \in n.bars : /\ b.open \in Bars /\ Has(b.open, World) /\ Final(b, World)
                             /\ n.start <= b.open /\ b.open <= ReadTo(n)
        /\ \A b, d \in n.bars : b.open = d.open => b = d
        /\ \A k \in Bars : Has(k, World) /\ n.start <= k /\ k <= ReadTo(n) => k \in Opens(n.bars)
    BY LoadFacts
  <1>2. \A b \in n.bars : Sound(b, World)
    <2> TAKE b \in n.bars
    <2>1. Cardinality(TicksIn(b.open, World)) \in Int
      BY <1>1, WorldGrew, TickFacts, BarFacts
    <2> QED BY <1>1, <2>1 DEF Sound, Final
  <1>3. ReadTo(n) \in Int
    <2>1. CASE n.pc \in BackfillPcs
      <3>1. n.range \in Ranges /\ n.start \in Int /\ n.range[2] \in Int
        BY <2>1, BarFacts DEF TimesOK, CallRecord
      <3>2. n.start + BarLen * Lookback \in Int
        BY <3>1, MarketAssumption DEF MarketAssumption
      <3> QED BY <2>1, <3>1, <3>2, MinOfTwo DEF ReadTo, AdvanceWindow
    <2>2. CASE n.pc \notin BackfillPcs
      BY <2>2 DEF ReadTo, CallRecord
    <2> QED BY <2>1, <2>2
  <1>4. \A k \in Bars : Later(n.bars, k) => k <= ReadTo(n)
    <2> TAKE k \in Bars
    <2> HAVE Later(n.bars, k)
    <2>1. PICK b \in n.bars : k < b.open
      BY DEF Later
    <2> QED BY <1>1, <1>3, <2>1, BarFacts
  <1>5. BatchOK(n, World)
    BY <1>1, <1>2, <1>4, Zenon DEF BatchOK
  <1>6. WrittenKept(n, World)
    BY DEF WrittenKept, Days, Opens
  <1> QED BY <1>5, <1>6

-----------------------------------------------------------------------------
(* Steps *)

\* What a step of a process keeps: the call it goes on with, the row and the progress it writes.
LEMMA StepKeeps ==
    ASSUME MarketInv, Keeps(World, World'), FilesOK(World'),
           now' \in Nat, ticks' \subseteq 0..now',
           NEW p \in Procs, NEW n \in CallRecord \cup {Idle}, proc' = [proc EXCEPT ![p] = n], StoreOK',
           CallOK(n, World'), Exclusive /\ n.pc \in Holding => Fresh(n, World'),
           proc[p] # Idle \/ (Exclusive => \A q \in Procs : proc[q] = Idle),
           currentRow' = currentRow \/ RowOK(currentRow', World'),
           DOMAIN backfills' = Ranges,
           \A r \in Ranges : backfills'[r] = backfills[r] \/ EntryOK(r, backfills'[r], World')
    PROVE  MarketInv'
  <1>1. /\ proc \in [Procs -> CallRecord \cup {Idle}] /\ proc'[p] = n
        /\ \A q \in Procs : q # p => proc'[q] = proc[q]
    BY DEF MarketInv, MarketTypes
  <1>2. MarketTypes'
    BY <1>1 DEF MarketTypes
  <1>3. CallsOK'
    <2> SUFFICES ASSUME NEW q \in Procs PROVE CallOK(proc'[q], World')
      BY DEF CallsOK
    <2>1. CASE q = p
      BY <1>1, <2>1
    <2>2. CASE q # p
      <3>1. CallOK(proc[q], World) /\ proc[q] \in CallRecord \cup {Idle}
        BY <1>1 DEF MarketInv, CallsOK
      <3> QED BY <1>1, <2>2, <3>1, CallStays
    <2> QED BY <2>1, <2>2
  <1>4. AloneOK'
    <2> SUFFICES ASSUME Exclusive, NEW q \in Procs
                 PROVE  /\ \A s \in Procs : proc'[q] # Idle /\ proc'[s] # Idle => q = s
                        /\ proc'[q].pc \in Holding => Fresh(proc'[q], World')
      BY DEF AloneOK
    <2>1. \A s \in Procs : s # p => proc[s] = Idle
      BY DEF MarketInv, AloneOK
    <2>2. Idle.pc \notin Holding
      BY DEF Idle, Holding
    <2> QED BY <1>1, <2>1, <2>2
  <1>5. CursorOK'
    BY RowStays DEF MarketInv, CursorOK
  <1>6. BackfillsOK'
    <2> SUFFICES ASSUME NEW r \in Ranges, backfills'[r] # None
                 PROVE  EntryOK(r, backfills'[r], World')
      BY DEF BackfillsOK
    <2>1. CASE backfills'[r] = backfills[r]
      <3>1. EntryOK(r, backfills[r], World)
        BY <2>1 DEF MarketInv, BackfillsOK
      <3> QED BY <2>1, <3>1, EntryStays
    <2> QED BY <2>1
  <1> QED BY <1>2, <1>3, <1>4, <1>5, <1>6 DEF MarketInv

\* A process that is not at a file holds none.
LEMMA Unstaged ==
    ASSUME StoreOK, NEW p \in Procs, ~InFile(proc[p])
    PROVE  handle[p] = "none" /\ (proc[p] # Idle => proc[p].file = "none")
  BY DEF StoreOK, Staged, InFile

\* A step of a process that is at no file before nor after, and leaves the files alone.
LEMMA StoreStays ==
    ASSUME StoreOK, UNCHANGED storage, proc \in [Procs -> CallRecord \cup {Idle}],
           NEW p \in Procs, ~InFile(proc[p]), NEW n, n = Idle \/ n.file = "none",
           proc' = [proc EXCEPT ![p] = n]
    PROVE  StoreOK'
  <1>1. /\ temps' = temps /\ handle' = handle /\ tangled' = tangled
        /\ proc'[p] = n /\ \A q \in Procs : q # p => proc'[q] = proc[q]
    BY DEF storage
  <1>2. ~InFile(n) /\ (n # Idle => Staged(n)) /\ handle[p] = "none"
    BY Unstaged DEF InFile, Staged, Idle
  <1> QED BY <1>1, <1>2 DEF StoreOK

\* A step of a process that changes nothing but where it is.
LEMMA QuietStep ==
    ASSUME MarketInv, UNCHANGED <<now, ticks, storage, incidents, currentRow, backfills>>,
           NEW p \in Procs, NEW n \in CallRecord \cup {Idle}, proc' = [proc EXCEPT ![p] = n],
           ~InFile(proc[p]), n = Idle \/ n.file = "none",
           CallOK(n, World), Exclusive /\ n.pc \in Holding => Fresh(n, World),
           proc[p] # Idle \/ (Exclusive => \A q \in Procs : proc[q] = Idle)
    PROVE  MarketInv'
  <1>1. World' = World
    BY DEF World, storage
  <1>2. Keeps(World, World) /\ FilesOK(World)
    BY WorldGrew, AgesKeeps DEF MarketInv
  <1>3. now \in Nat /\ ticks \subseteq 0..now /\ DOMAIN backfills = Ranges
    BY DEF MarketInv, MarketTypes
  <1>4. StoreOK'
    BY StoreStays DEF MarketInv, MarketTypes
  <1> QED BY <1>1, <1>2, <1>3, <1>4, StepKeeps

\* Steps within a call, or to the end of one.
LEMMA ActiveCall ==
    ASSUME MarketInv, NEW p \in Procs, proc[p].pc \in CollectPcs \cup BackfillPcs
    PROVE  proc[p] \in CallRecord /\ proc[p] # Idle /\ CallOK(proc[p], World)
  BY DEF MarketInv, MarketTypes, CallsOK, Idle, CollectPcs, BackfillPcs

\* A call that is elsewhere is at no file.
LEMMA NoFile ==
    ASSUME MarketInv, NEW p \in Procs, proc[p].pc \in CollectPcs \cup BackfillPcs,
           proc[p].pc \notin {"write_bars", "bf_write"} \/ proc[p].days = {}
    PROVE  ~InFile(proc[p]) /\ proc[p].file = "none"
  BY ActiveCall DEF MarketInv, StoreOK, Staged, InFile

\* An idle process holds nothing.
LEMMA IdleOK == (\A w : CallOK(Idle, w)) /\ Idle.pc \notin Holding /\ ~InFile(Idle)
  BY DEF InFile, CallOK, TimesOK, Idle, CollectPcs, BackfillPcs, Holding, Looking, InChunk

\* A call that differs in nothing the invariant speaks of.
LEMMA SameCall ==
    ASSUME NEW w, NEW c, NEW n, CallOK(c, w), n.pc = c.pc, n.observed = c.observed, n.start = c.start,
           n.from = c.from, n.bars = c.bars, n.days = c.days, n.range = c.range
    PROVE  CallOK(n, w)
  BY DEF CallOK, TimesOK, BatchOK, WrittenKept, ReadTo

\* A collection that holds nothing and knows no start.
LEMMA EarlyCall ==
    ASSUME NEW w, NEW n, n.pc \in {"resolve", "ticks", "last_tick", "bar_cursor", "heartbeat"}, n.observed <= w.now
    PROVE  CallOK(n, w) /\ n.pc \notin Holding
  BY DEF CallOK, TimesOK, CollectPcs, BackfillPcs, Holding, Looking, InChunk

\* A process stops.
LEMMA StopStep ==
    ASSUME MarketInv, UNCHANGED <<now, ticks, storage, incidents, currentRow, backfills>>,
           NEW p \in Procs, Goto(p, Idle), proc[p] # Idle, ~InFile(proc[p])
    PROVE  MarketInv'
  BY IdleOK, QuietStep DEF Goto

\* An attempt fails.
LEMMA RetryStep ==
    ASSUME MarketInv, NEW p \in Procs, Retry(p)
    PROVE  MarketInv'
  <1> DEFINE c == proc[p]
             n == [c EXCEPT !.attempt = @ + 1]
  <1>1. /\ proc' = [proc EXCEPT ![p] = n] /\ UNCHANGED <<now, ticks, storage, incidents, currentRow, backfills>>
        /\ c.pc \in CollectPcs \cup BackfillPcs
    BY DEF Retry, Goto, market, tables, Asking, CollectPcs, BackfillPcs
  <1>2. c \in CallRecord /\ c # Idle /\ CallOK(c, World) /\ ~InFile(c) /\ c.file = "none"
    <2>1. c.pc \notin {"write_bars", "bf_write"}
      BY DEF Retry, Asking
    <2> QED BY <1>1, <2>1, ActiveCall, NoFile
  <1>3. /\ n \in CallRecord /\ n.file = "none" /\ n.pc = c.pc /\ n.observed = c.observed /\ n.start = c.start
        /\ n.from = c.from /\ n.bars = c.bars /\ n.days = c.days /\ n.range = c.range
    BY <1>2 DEF CallRecord
  <1>4. CallOK(n, World)
    <2> HIDE DEF n, c
    <2> QED BY <1>2, <1>3, SameCall
  <1>5. Exclusive /\ n.pc \in Holding => Fresh(n, World)
    <2> HIDE DEF n
    <2> QED BY <1>3 DEF MarketInv, AloneOK, Fresh
  <1> HIDE DEF n
  <1> QED BY <1>1, <1>2, <1>3, <1>4, <1>5, QuietStep

\* A call begins.
LEMMA BeginStep ==
    ASSUME MarketInv, NEW p \in Procs, CollectOnce(p) \/ Backfill(p)
    PROVE  MarketInv'
  <1>1. /\ UNCHANGED <<now, ticks, storage, incidents, currentRow, backfills>>
        /\ Exclusive => \A q \in Procs : proc[q] = Idle
        /\ now \in Nat
    BY DEF CollectOnce, Backfill, Starts, market, tables, MarketInv, MarketTypes
  <1>4. ~InFile(proc[p])
    BY IdleOK DEF CollectOnce, Backfill, Starts
  <1>2. CASE CollectOnce(p)
    <2> DEFINE n == [NewCall("resolve") EXCEPT !.observed = now]
    <2>1. n \in CallRecord /\ n.pc = "resolve" /\ n.observed = now /\ n.file = "none"
      BY <1>1 DEF NewCall, CallRecord, CollectPcs, NoTime
    <2>2. World.now = now /\ now <= now
      BY <1>1 DEF World
    <2>3. proc' = [proc EXCEPT ![p] = n]
      BY <1>2 DEF CollectOnce, Goto
    <2> HIDE DEF n
    <2>4. CallOK(n, World) /\ n.pc \notin Holding
      BY <2>1, <2>2, EarlyCall
    <2> QED BY <1>1, <1>4, <2>1, <2>3, <2>4, QuietStep
  <1>3. CASE Backfill(p)
    <2>1. PICK r \in Ranges :
            proc' = [proc EXCEPT ![p] = [NewCall("bf_resolve") EXCEPT !.range = r, !.observed = now]]
      BY <1>3 DEF Backfill, Goto
    <2> DEFINE n == [NewCall("bf_resolve") EXCEPT !.range = r, !.observed = now]
    <2>2. n \in CallRecord /\ n.pc = "bf_resolve" /\ n.range = r /\ n.observed = now /\ n.file = "none"
      <3> DEFINE m == NewCall("bf_resolve")
      <3>1. m \in CallRecord /\ m.pc = "bf_resolve" /\ m.file = "none"
        BY DEF NewCall, CallRecord, BackfillPcs, NoTime
      <3>2. n = [m EXCEPT !.range = r, !.observed = now] /\ now \in Int
        BY <1>1
      <3> HIDE DEF m, n
      <3> QED BY <3>1, <3>2 DEF CallRecord
    <2>3. World.now = now /\ now <= now
      BY <1>1 DEF World
    <2> HIDE DEF n
    <2>4. CallOK(n, World) /\ n.pc \notin Holding
      BY <2>2, <2>3 DEF CallOK, TimesOK, CollectPcs, BackfillPcs, Holding, Looking, InChunk
    <2> QED BY <1>1, <1>4, <2>1, <2>2, <2>4, QuietStep DEF n
  <1> QED BY <1>2, <1>3

\* The steps of a collection up to the cursor of bars.
LEMMA EarlySteps ==
    ASSUME MarketInv, NEW p \in Procs,
           ResolveSymbols(p) \/ Unresolved(p) \/ LoadTicks(p) \/ LoadLatestTick(p)
    PROVE  MarketInv'
  <1> DEFINE c == proc[p]
  <1>1. /\ UNCHANGED <<now, ticks, storage, incidents, currentRow, backfills>> /\ c.pc \in CollectPcs
    BY DEF ResolveSymbols, Unresolved, LoadTicks, LoadLatestTick, market, tables, CollectPcs
  <1>2. /\ c \in CallRecord /\ c # Idle /\ ~InFile(c) /\ c.file = "none"
        /\ CallOK(c, World) /\ c.observed <= World.now /\ ticks \subseteq Nat
    <2>1. c \in CallRecord /\ c # Idle /\ CallOK(c, World)
      BY <1>1, ActiveCall
    <2>2. c.observed <= World.now
      BY <1>1, <2>1 DEF CallOK, TimesOK
    <2>3. c.pc \notin {"write_bars", "bf_write"}
      BY DEF ResolveSymbols, Unresolved, LoadTicks, LoadLatestTick
    <2>4. ~InFile(c) /\ c.file = "none"
      BY <1>1, <2>3, NoFile
    <2> QED BY <2>1, <2>2, <2>4 DEF MarketInv, MarketTypes
  <1>3. PICK n \in CallRecord : /\ proc' = [proc EXCEPT ![p] = n] /\ n.observed = c.observed /\ n.file = "none"
                                /\ n.pc \in {"resolve", "ticks", "last_tick", "bar_cursor", "heartbeat"}
    <2>1. CASE ResolveSymbols(p)
      <3> DEFINE n == [c EXCEPT !.pc = "ticks", !.attempt = 1]
      <3>1. n \in CallRecord /\ n.file = "none" /\ n.observed = c.observed /\ n.pc = "ticks"
        BY <1>2 DEF CallRecord, CollectPcs
      <3>2. proc' = [proc EXCEPT ![p] = n]
        BY <2>1 DEF ResolveSymbols, Goto
      <3> QED BY <3>1, <3>2
    <2>2. CASE Unresolved(p)
      <3> DEFINE n == [c EXCEPT !.pc = "heartbeat", !.attempt = 1]
      <3>1. n \in CallRecord /\ n.file = "none" /\ n.observed = c.observed /\ n.pc = "heartbeat"
        BY <1>2 DEF CallRecord, CollectPcs
      <3>2. proc' = [proc EXCEPT ![p] = n]
        BY <2>2 DEF Unresolved, Goto
      <3> QED BY <3>1, <3>2
    <2>3. CASE LoadTicks(p)
      <3>1. PICK s : proc' = [proc EXCEPT ![p] = [c EXCEPT !.pc = "last_tick", !.attempt = 1, !.batch = ticks \cap s..c.observed]]
        BY <2>3 DEF LoadTicks, Goto
      <3> DEFINE n == [c EXCEPT !.pc = "last_tick", !.attempt = 1, !.batch = ticks \cap s..c.observed]
      <3>2. n \in CallRecord /\ n.file = "none" /\ n.observed = c.observed /\ n.pc = "last_tick"
        BY <1>2 DEF CallRecord, CollectPcs
      <3> QED BY <3>1, <3>2
    <2>4. CASE LoadLatestTick(p)
      <3> DEFINE n == [c EXCEPT !.pc = "bar_cursor", !.attempt = 1, !.batch = NormalizeTickBatch(@, LatestTick)]
      <3>1. NormalizeTickBatch(c.batch, LatestTick) \subseteq Nat
        <4>1. ticks # {} => Max(ticks) \in ticks
          BY Extremes DEF MarketInv, MarketTypes
        <4> QED BY <1>2, <4>1 DEF NormalizeTickBatch, LatestTick, CallRecord
      <3>2. n \in CallRecord /\ n.file = "none" /\ n.observed = c.observed /\ n.pc = "bar_cursor"
        BY <1>2, <3>1 DEF CallRecord, CollectPcs
      <3>3. proc' = [proc EXCEPT ![p] = n]
        BY <2>4 DEF LoadLatestTick, Goto
      <3> QED BY <3>2, <3>3
    <2> QED BY <2>1, <2>2, <2>3, <2>4
  <1>4. CallOK(n, World) /\ n.pc \notin Holding
    BY <1>2, <1>3, EarlyCall
  <1> QED BY <1>1, <1>2, <1>3, <1>4, QuietStep

\* The collection finds its start.
LEMMA CursorStep ==
    ASSUME MarketInv, NEW p \in Procs, ReadBarCursor(p)
    PROVE  MarketInv'
  <1> DEFINE c == proc[p]
             first == c.observed - BarLen * Lookback
             start == IF currentRow = None THEN first ELSE currentRow.bar.open
             from == IF currentRow = None THEN first ELSE currentRow.from
             n == [c EXCEPT !.pc = "bars", !.start = start, !.from = from]
  <1>1. /\ proc' = [proc EXCEPT ![p] = n] /\ c.pc = "bar_cursor"
        /\ UNCHANGED <<now, ticks, storage, incidents, currentRow, backfills>>
    BY DEF ReadBarCursor, Goto, market, tables, StartAtCurrent
  <1>2. c \in CallRecord /\ c # Idle /\ CallOK(c, World) /\ ~InFile(c) /\ c.file = "none"
    BY <1>1, ActiveCall, NoFile DEF CollectPcs
  <1>3. BehindOK(from, start, World)
    <2>1. CASE currentRow = None
      <3>1. first \in Int
        <4>1. c.observed \in Int /\ BarLen * Lookback \in Int
          BY <1>2, MarketAssumption DEF CallRecord, MarketAssumption
        <4> QED BY <4>1
      <3>2. from = first /\ start = first
        BY <2>1
      <3> HIDE DEF first, from, start
      <3>3. StartOK(from, start, World)
        BY <3>2 DEF StartOK
      <3>4. GapsBehind(from, start, World)
        BY <3>1, <3>2, BarFacts DEF GapsBehind, Gap
      <3>5. KeptBehind(from, start, World)
        BY <3>1, <3>2, BarFacts DEF KeptBehind
      <3> QED BY <3>1, <3>2, <3>3, <3>4, <3>5 DEF BehindOK
    <2>2. CASE currentRow # None
      <3>1. from = currentRow.from /\ start = currentRow.bar.open
        BY <2>2
      <3>2. RowOK(currentRow, World)
        BY <2>2 DEF MarketInv, CursorOK
      <3> HIDE DEF from, start
      <3> QED BY <3>1, <3>2 DEF RowOK
    <2> QED BY <2>1, <2>2
  <1>4. from \in Int /\ start \in Int
    <2> HIDE DEF from, start
    <2> QED BY <1>3 DEF BehindOK
  <1>5. n \in CallRecord /\ n.pc = "bars" /\ n.start = start /\ n.from = from /\ n.observed = c.observed
        /\ n.file = "none"
    <2> HIDE DEF from, start
    <2> QED BY <1>2, <1>4 DEF CallRecord, CollectPcs
  <1> HIDE DEF n, start, from
  <1>6. CallOK(n, World) /\ n.pc \notin Holding
    <2>1. c.observed <= World.now
      BY <1>1, <1>2 DEF CallOK, TimesOK, CollectPcs
    <2> QED BY <1>3, <1>5, <2>1 DEF CallOK, TimesOK, CollectPcs, BackfillPcs, Holding, Looking, InChunk
  <1> QED BY <1>1, <1>2, <1>5, <1>6, QuietStep

\* An answer is fresh.
LEMMA LoadFresh ==
    ASSUME MarketInv, NEW n, n.bars \subseteq BarRecord, \A b \in n.bars : Final(b, World)
    PROVE  Fresh(n, World)
  <1> SUFFICES ASSUME NEW f \in World.files, NEW b \in f.bars, NEW d \in n.bars, b.open = d.open
               PROVE  b.ticks <= d.ticks
    BY DEF Fresh
  <1>1. Sound(b, World) /\ Final(d, World)
    BY DEF MarketInv, FilesOK, FileOK
  <1> QED BY <1>1 DEF Sound, Final

\* The bars of a collection arrive.
LEMMA LoadBarsStep ==
    ASSUME MarketInv, NEW p \in Procs, LoadBars(p)
    PROVE  MarketInv'
  <1> DEFINE c == proc[p]
             bars == LoadedBars(c.start, c.observed, c.observed)
             n == [c EXCEPT !.pc = "write_ticks", !.attempt = 1, !.bars = bars, !.days = Days(bars)]
  <1>1. /\ proc' = [proc EXCEPT ![p] = n] /\ c.pc = "bars"
        /\ UNCHANGED <<now, ticks, storage, incidents, currentRow, backfills>>
    BY DEF LoadBars, Goto, market, tables
  <1>2. c \in CallRecord /\ c # Idle /\ CallOK(c, World) /\ MarketTypes /\ ~InFile(c) /\ c.file = "none"
    BY <1>1, ActiveCall, NoFile DEF CollectPcs, MarketInv
  <1>3. bars \subseteq BarRecord /\ Days(bars) \subseteq Dates /\ \A b \in bars : Final(b, World)
    BY <1>2, LoadFacts
  <1>4. /\ n \in CallRecord /\ n.pc = "write_ticks" /\ n.start = c.start /\ n.from = c.from /\ n.observed = c.observed
        /\ n.bars = bars /\ n.days = Days(bars) /\ n.file = "none"
    <2> HIDE DEF bars
    <2> QED BY <1>2, <1>3 DEF CallRecord, CollectPcs
  <1> HIDE DEF n
  <1>5. TimesOK(n, World)
    BY <1>1, <1>2, <1>4 DEF CallOK, TimesOK, CollectPcs, BackfillPcs
  <1>6. n.bars = LoadedBars(n.start, ReadTo(n), n.observed)
    BY <1>4 DEF ReadTo, BackfillPcs
  <1>7. BatchOK(n, World) /\ WrittenKept(n, World)
    BY <1>2, <1>4, <1>5, <1>6, LoadCall
  <1>8. BehindOK(n.from, n.start, World)
    BY <1>1, <1>2, <1>4 DEF CallOK, Looking
  <1>9. CallOK(n, World)
    BY <1>4, <1>5, <1>7, <1>8 DEF CallOK, InChunk, BackfillPcs
  <1>10. Fresh(n, World)
    BY <1>3, <1>4, LoadFresh
  <1> QED BY <1>1, <1>2, <1>4, <1>9, <1>10, QuietStep

\* The ticks are written.
LEMMA WriteTicksStep ==
    ASSUME MarketInv, NEW p \in Procs, WriteTicks(p)
    PROVE  MarketInv'
  <1> DEFINE c == proc[p]
             n == [c EXCEPT !.pc = "write_bars"]
  <1>1. /\ proc' = [proc EXCEPT ![p] = n] /\ c.pc = "write_ticks"
        /\ UNCHANGED <<now, ticks, storage, incidents, currentRow, backfills>>
    BY DEF WriteTicks, Goto, market, tables
  <1>2. c \in CallRecord /\ c # Idle /\ CallOK(c, World) /\ ~InFile(c) /\ c.file = "none"
    BY <1>1, ActiveCall, NoFile DEF CollectPcs
  <1>3. /\ n \in CallRecord /\ n.pc = "write_bars" /\ n.observed = c.observed /\ n.start = c.start
        /\ n.from = c.from /\ n.bars = c.bars /\ n.days = c.days /\ n.range = c.range /\ n.file = "none"
    BY <1>2 DEF CallRecord, CollectPcs
  <1>4. Exclusive => Fresh(n, World)
    <2>1. Exclusive => Fresh(c, World)
      BY <1>1 DEF MarketInv, AloneOK, Holding
    <2> HIDE DEF n
    <2> QED BY <1>3, <2>1 DEF Fresh
  <1> HIDE DEF n
  <1>5. CallOK(n, World)
    <2>1. TimesOK(n, World)
      BY <1>1, <1>2, <1>3 DEF CallOK, TimesOK, CollectPcs, BackfillPcs
    <2>2. ReadTo(n) = ReadTo(c)
      BY <1>1, <1>3 DEF ReadTo, BackfillPcs
    <2>3. BatchOK(n, World)
      BY <1>1, <1>2, <1>3, <2>2 DEF CallOK, BatchOK, Holding
    <2>4. Covering => WrittenKept(n, World)
      BY <1>1, <1>2, <1>3, <2>2 DEF CallOK, WrittenKept, Holding
    <2>5. BehindOK(n.from, n.start, World)
      BY <1>1, <1>2, <1>3 DEF CallOK, Looking
    <2> QED BY <1>3, <2>1, <2>3, <2>4, <2>5 DEF CallOK, InChunk, BackfillPcs
  <1> QED BY <1>1, <1>2, <1>3, <1>4, <1>5, QuietStep

-----------------------------------------------------------------------------
(* The steps of a file *)

\* What a process that writes files has in memory.
LEMMA AtWork ==
    ASSUME MarketInv, NEW p \in Procs, Writing(p)
    PROVE  /\ proc[p] \in CallRecord /\ proc[p] # Idle /\ CallOK(proc[p], World) /\ Staged(proc[p])
           /\ proc[p].pc \in {"write_bars", "bf_write"} /\ proc[p].pc \in Holding /\ proc[p].days # {}
           /\ BatchOK(proc[p], World) /\ Grew(World, World) /\ FilesOK(World)
           /\ Exclusive => Fresh(proc[p], World) /\ tangled = {}
           /\ FileOK([name |-> NextName(proc[p]), bars |-> NextBars(proc[p])], World)
  <1> DEFINE c == proc[p]
  <1>1. c.pc \in {"write_bars", "bf_write"} /\ c.days # {}
    BY DEF Writing
  <1>2. c \in CallRecord /\ c # Idle /\ CallOK(c, World) /\ c.pc \in Holding
    BY <1>1, ActiveCall DEF CollectPcs, BackfillPcs, Holding
  <1>3. BatchOK(c, World) /\ Grew(World, World) /\ FilesOK(World)
    BY <1>2, WorldGrew DEF CallOK, MarketInv
  <1>4. Staged(c) /\ (Exclusive => Fresh(c, World) /\ tangled = {})
    BY <1>2 DEF MarketInv, StoreOK, AloneOK
  <1> HIDE DEF c
  <1>5. /\ NextName(c) = FileName(Min(c.days), NextBars(c)) /\ NextBars(c) \subseteq BarRecord
        /\ \A b \in NextBars(c) : Sound(b, World) /\ Day(b.open) = NextName(c).day
    BY <1>1, <1>2, <1>3, NextFacts
  <1>6. NextName(c) = FileName(NextName(c).day, NextBars(c))
    BY <1>5 DEF FileName
  <1>7. FileOK([name |-> NextName(c), bars |-> NextBars(c)], World)
    BY <1>5, <1>6 DEF FileOK
  <1> QED BY <1>1, <1>2, <1>3, <1>4, <1>7 DEF c

\* What a process finds of its file is the same in other files that have no other of the name.
LEMMA OwnStays ==
    ASSUME NEW c, NEW h, NEW T, NEW U, OwnTemp(c, h, T), \A t \in U : t.name = NextName(c) => t \in T
    PROVE  OwnTemp(c, h, U)
  BY DEF OwnTemp

\* What a step owes to the others that write files, and to itself.
LEMMA StoreMoves ==
    ASSUME MarketInv, NEW p \in Procs, NEW n, proc' = [proc EXCEPT ![p] = n],
           tangled \subseteq tangled', Exclusive => tangled' = {},
           handle' \in [Procs -> {"none", "temp", "file", "gone"}],
           n # Idle => Staged(n), handle'[p] # "none" => InFile(n) /\ n.file = "open",
           InFile(n) => \A q \in Procs \ {p} :
             InFile(proc[q]) /\ NextName(proc[q]) = NextName(n) => NextName(n) \in tangled',
           InFile(n) /\ NextName(n) \notin tangled' => OwnTemp(n, handle'[p], temps'),
           \A q \in Procs \ {p} : handle'[q] # "none" => handle[q] # "none",
           \A q \in Procs \ {p} :
             InFile(proc[q]) /\ NextName(proc[q]) \notin tangled' => OwnTemp(proc[q], handle'[q], temps')
    PROVE  StoreOK'
  <1>1. proc'[p] = n /\ \A q \in Procs : q # p => proc'[q] = proc[q]
    BY DEF MarketInv, MarketTypes
  <1>2. \A q \in Procs : proc'[q] # Idle => Staged(proc'[q])
    BY <1>1 DEF MarketInv, StoreOK
  <1>3. \A q \in Procs : handle'[q] # "none" => InFile(proc'[q]) /\ proc'[q].file = "open"
    BY <1>1 DEF MarketInv, StoreOK
  <1>4. \A q \in Procs :
          InFile(proc'[q]) /\ NextName(proc'[q]) \notin tangled' => OwnTemp(proc'[q], handle'[q], temps')
    BY <1>1
  <1>5. ASSUME NEW q \in Procs, NEW r \in Procs, q # r, InFile(proc'[q]), InFile(proc'[r]),
               NextName(proc'[q]) = NextName(proc'[r])
        PROVE  NextName(proc'[q]) \in tangled'
    <2>1. CASE q # p /\ r # p
      BY <1>1, <1>5, <2>1 DEF MarketInv, StoreOK
    <2>2. CASE q = p \/ r = p
      BY <1>1, <1>5, <2>2
    <2> QED BY <2>1, <2>2
  <1> QED BY <1>2, <1>3, <1>4, <1>5 DEF StoreOK

\* The files of others, at names that are not tangled, are not those of a process that writes.
LEMMA OthersOwn ==
    ASSUME MarketInv, NEW p \in Procs, InFile(proc[p]), NEW q \in Procs \ {p}, InFile(proc[q]),
           NextName(proc[q]) \notin tangled
    PROVE  NextName(proc[q]) # NextName(proc[p]) /\ OwnTemp(proc[q], handle[q], temps)
  BY DEF MarketInv, StoreOK

\* The files under the temporary names after a write.
LEMMA WithFacts ==
    ASSUME NEW T, NEW name, NEW bars
    PROVE  /\ \A t \in With(T, name, bars) : t.name # name => t \in T
           /\ \A t \in With(T, name, bars) : t.name = name => t.bars = bars
           /\ \A t \in With(T, name, bars) : t \in T \/ t = [name |-> name, bars |-> bars]
           /\ \A t \in Without(T, name) : t \in T /\ t.name # name
  BY DEF With, Without

\* A step that goes on with a file.
LEMMA FileStep ==
    ASSUME MarketInv, NEW p \in Procs, Writing(p), UNCHANGED <<now, ticks, incidents, currentRow, backfills>>,
           Keeps(World, World'), FilesOK(World'), StoreOK', Exclusive => files' = files,
           NEW stage \in {"open", "filled", "checked"}, Goto(p, [proc[p] EXCEPT !.file = stage])
    PROVE  MarketInv'
  <1> DEFINE c == proc[p]
             n == [c EXCEPT !.file = stage]
  <1>1. c \in CallRecord /\ c # Idle /\ CallOK(c, World) /\ (Exclusive => Fresh(c, World))
    BY AtWork
  <1>2. /\ n \in CallRecord /\ n.pc = c.pc /\ n.observed = c.observed /\ n.start = c.start
        /\ n.from = c.from /\ n.bars = c.bars /\ n.days = c.days /\ n.range = c.range
    BY <1>1 DEF CallRecord
  <1>3. proc' = [proc EXCEPT ![p] = n]
    BY DEF Goto
  <1> HIDE DEF n
  <1>4. CallOK(n, World')
    <2>1. CallOK(c, World')
      BY <1>1, CallStays
    <2> HIDE DEF c
    <2> QED BY <1>2, <2>1, SameCall
  <1>5. Exclusive => Fresh(n, World')
    BY <1>1, <1>2 DEF Fresh, World
  <1>6. now' \in Nat /\ ticks' \subseteq 0..now' /\ DOMAIN backfills' = Ranges
    BY DEF MarketInv, MarketTypes
  <1> QED BY <1>1, <1>2, <1>3, <1>4, <1>5, <1>6, StepKeeps

\* What a call at a file becomes with its file at another stage.
LEMMA StageFacts ==
    ASSUME NEW c \in CallRecord, c.pc \in {"write_bars", "bf_write"}, c.days # {},
           NEW stage \in {"open", "filled", "checked"}
    PROVE  LET n == [c EXCEPT !.file = stage]
           IN  /\ InFile(n) /\ Staged(n) /\ n.file = stage
               /\ NextName(n) = NextName(c) /\ NextBars(n) = NextBars(c)
  <1> DEFINE n == [c EXCEPT !.file = stage]
  <1>1. n.pc = c.pc /\ n.days = c.days /\ n.bars = c.bars /\ n.file = stage
    BY DEF CallRecord
  <1> HIDE DEF n
  <1> QED BY <1>1 DEF InFile, Staged, NextName, NextBars, n

\* The temporary file is opened, and empty.
LEMMA OpenTempStep ==
    ASSUME MarketInv, NEW p \in Procs, OpenTemp(p)
    PROVE  MarketInv'
  <1> DEFINE c == proc[p]
             name == NextName(c)
             n == [c EXCEPT !.file = "open"]
  <1>1. /\ Writing(p) /\ proc' = [proc EXCEPT ![p] = n] /\ c.file = "none"
        /\ UNCHANGED <<now, ticks, files, incidents, currentRow, backfills>>
        /\ temps' = With(temps, name, {}) /\ handle' = [handle EXCEPT ![p] = "temp"]
        /\ tangled' = tangled \cup {m \in {name} : \E q \in Procs \ {p} : AtFile(q, m)}
    BY DEF OpenTemp, Goto, market, tables
  <1>2. /\ c \in CallRecord /\ c # Idle /\ c.pc \in {"write_bars", "bf_write"} /\ c.days # {}
        /\ Grew(World, World) /\ FilesOK(World)
    BY <1>1, AtWork
  <1>3. InFile(n) /\ Staged(n) /\ n.file = "open" /\ NextName(n) = name /\ NextBars(n) = NextBars(c)
    BY <1>2, StageFacts
  <1> HIDE DEF n
  <1>4. \A q \in Procs \ {p} : InFile(proc[q]) /\ NextName(proc[q]) = name => name \in tangled'
    BY <1>1 DEF AtFile, InFile, Writing
  <1>5. Exclusive => tangled' = {}
    <2>1. \A q \in Procs \ {p} : \A m : AtFile(q, m) => proc[q] # Idle
      BY IdleOK DEF AtFile, InFile, Writing
    <2> QED BY <1>1, <1>2, <2>1 DEF MarketInv, AloneOK, StoreOK
  <1> HIDE DEF name
  <1>6. /\ handle' \in [Procs -> {"none", "temp", "file", "gone"}] /\ handle'[p] = "temp"
        /\ \A q \in Procs \ {p} : handle'[q] = handle[q]
    BY <1>1 DEF MarketInv, StoreOK
  <1>7. OwnTemp(n, handle'[p], temps')
    BY <1>1, <1>3, <1>6, WithFacts DEF OwnTemp
  <1>8. ASSUME NEW q \in Procs \ {p}, InFile(proc[q]), NextName(proc[q]) \notin tangled'
        PROVE  OwnTemp(proc[q], handle'[q], temps')
    <2>1. NextName(proc[q]) # name
      BY <1>4, <1>8
    <2>2. OwnTemp(proc[q], handle[q], temps)
      BY <1>1, <1>8 DEF MarketInv, StoreOK
    <2>3. \A t \in temps' : t.name = NextName(proc[q]) => t \in temps
      BY <1>1, <2>1, WithFacts
    <2> QED BY <1>6, <2>2, <2>3, OwnStays
  <1>9. StoreOK'
    BY <1>1, <1>3, <1>4, <1>5, <1>6, <1>7, <1>8, StoreMoves
  <1>10. /\ World'.now = World.now /\ World'.ticks = World.ticks /\ World'.files = World.files
         /\ World'.incidents = World.incidents /\ World.tangled \subseteq World'.tangled
         /\ World'.temps = With(World.temps, name, {})
    BY <1>1 DEF World
  <1>11. Grew(World, World')
    BY <1>2, <1>10 DEF Grew
  <1>12. Keeps(World, World')
    BY <1>2, <1>10, <1>11, AgesKeeps
  <1>13. FilesOK(World')
    <2> DEFINE own == [name |-> name, bars |-> {}]
    <2>1. FileOK(own, World)
      BY DEF FileOK
    <2>3. \A f \in World'.files \cup World'.temps : f \in World.files \cup World.temps \/ f = own
      BY <1>10, WithFacts
    <2> HIDE DEF own
    <2>2. \A f \in World'.files \cup World'.temps : f \in World.files \cup World.temps \/ FileOK(f, World)
      BY <2>1, <2>3
    <2> QED BY <1>2, <1>11, <2>2, FilesStay
  <1> QED BY <1>1, <1>9, <1>12, <1>13, FileStep DEF Goto, n

\* Something is written where a process has a file open.
LEMMA WrittenKeeps ==
    ASSUME MarketInv, NEW p \in Procs, Writing(p), proc[p].file = "open", UNCHANGED <<now, ticks, incidents, tangled>>,
           NEW bars \in {{}, NextBars(proc[p])}, Written(p, bars)
    PROVE  Keeps(World, World') /\ FilesOK(World') /\ (Exclusive => files' = files)
  <1> DEFINE c == proc[p]
             name == NextName(c)
             new == [name |-> name, bars |-> bars]
  <1>1. /\ Grew(World, World) /\ FilesOK(World) /\ FileOK([name |-> name, bars |-> NextBars(c)], World)
        /\ Exclusive => tangled = {}
    BY AtWork
  <1>2. FileOK(new, World)
    BY <1>1 DEF FileOK
  <1>3. /\ temps' = IF handle[p] = "temp" THEN With(temps, name, bars) ELSE temps
        /\ files' = IF handle[p] = "file" THEN With(files, name, bars) ELSE files
    BY DEF Written
  <1>4. handle[p] = "file" => name \in tangled
    <2>1. InFile(c)
      BY DEF Writing, InFile
    <2> QED BY <2>1 DEF MarketInv, StoreOK, OwnTemp
  <1> HIDE DEF name, new, c
  <1>5. /\ World'.now = World.now /\ World'.ticks = World.ticks /\ World'.incidents = World.incidents
        /\ World'.tangled = World.tangled
        /\ World'.files = files' /\ World'.temps = temps' /\ World.files = files /\ World.temps = temps
        /\ World.tangled = tangled
    BY DEF World
  <1>6. Grew(World, World')
    BY <1>1, <1>5 DEF Grew
  <1>7. FilesOK(World')
    <2>1. \A f \in files' \cup temps' : f \in files \cup temps \/ f = new
      BY <1>3, WithFacts DEF new
    <2> QED BY <1>1, <1>2, <1>5, <1>6, <2>1, FilesStay
  <1>8. Keeps(World, World')
    <2>1. CASE handle[p] = "file"
      BY <1>1, <1>3, <1>4, <1>5, <1>6, <2>1, TangleKeeps
    <2>2. CASE handle[p] # "file"
      BY <1>1, <1>3, <1>5, <1>6, <2>2, AgesKeeps
    <2> QED BY <2>1, <2>2
  <1> QED BY <1>1, <1>3, <1>4, <1>7, <1>8

\* The temporary file is filled.
LEMMA FillTempStep ==
    ASSUME MarketInv, NEW p \in Procs, FillTemp(p)
    PROVE  MarketInv'
  <1> DEFINE c == proc[p]
             name == NextName(c)
             n == [c EXCEPT !.file = "filled"]
  <1>1. /\ Writing(p) /\ proc' = [proc EXCEPT ![p] = n] /\ c.file = "open"
        /\ UNCHANGED <<now, ticks, tangled, incidents, currentRow, backfills>>
        /\ handle' = [handle EXCEPT ![p] = "none"]
    BY DEF FillTemp, Goto, market, tables
  <1>2. PICK bars \in Filled(p) : Written(p, bars)
    BY DEF FillTemp
  <1>3. c \in CallRecord /\ c # Idle /\ c.pc \in {"write_bars", "bf_write"} /\ c.days # {} /\ InFile(c)
    BY <1>1, AtWork DEF InFile
  <1>4. InFile(n) /\ Staged(n) /\ n.file = "filled" /\ NextName(n) = name /\ NextBars(n) = NextBars(c)
    BY <1>3, StageFacts
  <1> HIDE DEF n
  <1>5. bars \in {{}, NextBars(c)}
    BY <1>2 DEF Filled
  <1>6. Keeps(World, World') /\ FilesOK(World') /\ (Exclusive => files' = files)
    BY <1>1, <1>2, <1>5, WrittenKeeps
  <1>7. temps' = IF handle[p] = "temp" THEN With(temps, name, bars) ELSE temps
    BY <1>2 DEF Written
  <1>8. ASSUME name \notin tangled PROVE OwnTemp(n, handle'[p], temps')
    <2>1. OwnTemp(c, handle[p], temps)
      BY <1>3, <1>8 DEF MarketInv, StoreOK
    <2>2. handle[p] \in {"temp", "gone"} /\ \A t \in temps : t.name = name => handle[p] # "gone" /\ t.bars = {}
      BY <1>1, <2>1 DEF OwnTemp
    <2>3. handle'[p] = "none"
      BY <1>1 DEF MarketInv, StoreOK
    <2>4. CASE handle[p] = "temp"
      <3>1. bars = NextBars(c)
        <4>1. \A f \in {t \in temps : t.name = name} : f.bars \in {{}, NextBars(c)}
          BY <2>2
        <4>2. Filled(p) = {NextBars(c)}
          BY <2>4, <4>1 DEF Filled
        <4> QED BY <1>2, <4>2
      <3>2. \A t \in temps' : t.name = name => t.bars = NextBars(c)
        BY <1>7, <2>4, <3>1, WithFacts
      <3> QED BY <1>4, <2>3, <3>2 DEF OwnTemp
    <2>5. CASE handle[p] = "gone"
      <3>1. \A t \in temps' : t.name # name
        BY <1>7, <2>2, <2>5
      <3> QED BY <1>4, <2>3, <3>1 DEF OwnTemp
    <2> QED BY <2>2, <2>4, <2>5
  <1>9. /\ handle' \in [Procs -> {"none", "temp", "file", "gone"}] /\ handle'[p] = "none"
        /\ \A q \in Procs \ {p} : handle'[q] = handle[q]
    BY <1>1 DEF MarketInv, StoreOK
  <1>10. ASSUME NEW q \in Procs \ {p}, InFile(proc[q]), NextName(proc[q]) \notin tangled
         PROVE  OwnTemp(proc[q], handle'[q], temps')
    <2>1. NextName(proc[q]) # name /\ OwnTemp(proc[q], handle[q], temps)
      BY <1>3, <1>10, OthersOwn
    <2>2. \A t \in temps' : t.name = NextName(proc[q]) => t \in temps
      BY <1>7, <2>1, WithFacts
    <2> QED BY <1>9, <2>1, <2>2, OwnStays
  <1>11. StoreOK'
    <2>1. \A q \in Procs \ {p} : InFile(proc[q]) /\ NextName(proc[q]) = NextName(n) => NextName(n) \in tangled'
      BY <1>1, <1>3, <1>4 DEF MarketInv, StoreOK
    <2>2. Exclusive => tangled' = {}
      BY <1>1 DEF MarketInv, StoreOK
    <2> HIDE DEF name, c
    <2> QED BY <1>1, <1>4, <1>8, <1>9, <1>10, <2>1, <2>2, StoreMoves DEF c
  <1> QED BY <1>1, <1>6, <1>11, FileStep DEF Goto, n

\* The temporary file is read again.
LEMMA ValidateTempStep ==
    ASSUME MarketInv, NEW p \in Procs, ValidateTemp(p)
    PROVE  MarketInv'
  <1> DEFINE c == proc[p]
             n == [c EXCEPT !.file = "checked"]
  <1>1. /\ Writing(p) /\ proc' = [proc EXCEPT ![p] = n] /\ c.file = "filled"
        /\ UNCHANGED <<now, ticks, files, temps, handle, tangled, incidents, currentRow, backfills>>
    BY DEF ValidateTemp, Goto, market, storage, tables
  <1>2. c \in CallRecord /\ c # Idle /\ c.pc \in {"write_bars", "bf_write"} /\ c.days # {} /\ InFile(c) /\ FilesOK(World)
    BY <1>1, AtWork DEF InFile
  <1>3. InFile(n) /\ Staged(n) /\ n.file = "checked" /\ NextName(n) = NextName(c) /\ NextBars(n) = NextBars(c)
    BY <1>2, StageFacts
  <1> HIDE DEF n
  <1>4. World' = World
    BY <1>1 DEF World
  <1>5. Keeps(World, World') /\ FilesOK(World')
    BY <1>2, <1>4, WorldGrew, AgesKeeps DEF MarketInv
  <1>6. handle[p] = "none"
    BY <1>1 DEF MarketInv, StoreOK
  <1>7. NextName(n) \notin tangled => OwnTemp(n, handle[p], temps)
    <2>1. NextName(c) \notin tangled => OwnTemp(c, handle[p], temps)
      BY <1>2 DEF MarketInv, StoreOK
    <2> QED BY <1>1, <1>3, <2>1 DEF OwnTemp
  <1>8. StoreOK'
    <2>1. \A q \in Procs \ {p} : InFile(proc[q]) /\ NextName(proc[q]) = NextName(n) => NextName(n) \in tangled
      BY <1>2, <1>3 DEF MarketInv, StoreOK
    <2>2. /\ Exclusive => tangled = {}
          /\ handle \in [Procs -> {"none", "temp", "file", "gone"}]
      BY DEF MarketInv, StoreOK
    <2>3. \A q \in Procs \ {p} :
            InFile(proc[q]) /\ NextName(proc[q]) \notin tangled => OwnTemp(proc[q], handle[q], temps)
      BY DEF MarketInv, StoreOK
    <2> QED BY <1>1, <1>3, <1>6, <1>7, <2>1, <2>2, <2>3, StoreMoves
  <1> QED BY <1>1, <1>5, <1>8, FileStep DEF Goto, n

\* The temporary file replaces the file.
LEMMA ReplaceFileStep ==
    ASSUME MarketInv, NEW p \in Procs, ReplaceFile(p)
    PROVE  MarketInv'
  <1> DEFINE c == proc[p]
             name == NextName(c)
             n == [c EXCEPT !.file = "none", !.days = @ \ {Min(@)}]
  <1>1. /\ Writing(p) /\ proc' = [proc EXCEPT ![p] = n] /\ c.file = "checked"
        /\ UNCHANGED <<now, ticks, tangled, incidents, currentRow, backfills>>
        /\ temps' = Without(temps, name)
        /\ handle' = [q \in Procs |-> IF AtFile(q, name) THEN Renamed(handle[q]) ELSE handle[q]]
    BY DEF ReplaceFile, Goto, market, tables
  <1>2. PICK t \in temps : t.name = name /\ files' = With(files, name, t.bars)
    BY DEF ReplaceFile
  <1>3. /\ c \in CallRecord /\ c # Idle /\ CallOK(c, World) /\ c.pc \in {"write_bars", "bf_write"} /\ c.days # {}
        /\ BatchOK(c, World) /\ Grew(World, World) /\ FilesOK(World) /\ InFile(c)
        /\ Exclusive => Fresh(c, World) /\ tangled = {}
    BY <1>1, AtWork DEF InFile
  <1>4. name \notin tangled => t.bars = NextBars(c)
    <2>1. name \notin tangled => OwnTemp(c, handle[p], temps)
      BY <1>3 DEF MarketInv, StoreOK
    <2> QED BY <1>1, <1>2, <2>1 DEF OwnTemp
  <1>5. /\ n \in CallRecord /\ n.pc = c.pc /\ n.observed = c.observed /\ n.start = c.start /\ n.from = c.from
        /\ n.bars = c.bars /\ n.range = c.range /\ n.days = c.days \ {Min(c.days)} /\ n.file = "none"
    BY <1>3 DEF CallRecord
  <1> HIDE DEF n, name
  <1>6. ~InFile(n) /\ Staged(n)
    BY <1>5 DEF InFile, Staged
  <1>7. /\ World'.now = World.now /\ World'.ticks = World.ticks /\ World'.incidents = World.incidents
        /\ World'.tangled = World.tangled /\ World.tangled = tangled /\ World.files = files
        /\ World'.files = With(World.files, name, t.bars)
        /\ World'.temps = Without(World.temps, name) /\ t \in World.temps
    BY <1>1, <1>2 DEF World
  <1>8. Grew(World, World')
    BY <1>3, <1>7 DEF Grew
  <1>9. FilesOK(World')
    <2> DEFINE own == [name |-> name, bars |-> t.bars]
    <2>1. FileOK(own, World)
      BY <1>2, <1>3, <1>7 DEF FilesOK, FileOK
    <2>3. \A f \in World'.files \cup World'.temps : f \in World.files \cup World.temps \/ f = own
      <3>1. \A f \in World'.files : f \in World.files \/ f = own
        BY <1>7, WithFacts
      <3>2. \A f \in World'.temps : f \in World.temps
        BY <1>7 DEF Without
      <3> QED BY <3>1, <3>2
    <2> HIDE DEF own
    <2>2. \A f \in World'.files \cup World'.temps : f \in World.files \cup World.temps \/ FileOK(f, World)
      BY <2>1, <2>3
    <2> QED BY <1>3, <1>8, <2>2, FilesStay
  <1>10. Keeps(World, World')
    <2>1. CASE name \in tangled
      BY <1>3, <1>7, <1>8, <2>1, TangleKeeps
    <2>2. CASE name \notin tangled
      <3>1. World'.files = With(World.files, NextName(c), NextBars(c))
        BY <1>4, <1>7, <2>2 DEF name
      <3> QED BY <1>3, <1>7, <1>8, <3>1, WriteKeeps
    <2> QED BY <2>1, <2>2
  <1>11. CallOK(n, World')
    <2>1. NextName(c) \in World'.tangled \/ [name |-> NextName(c), bars |-> NextBars(c)] \in World'.files
      BY <1>4, <1>7 DEF name, With
    <2> HIDE DEF c
    <2> QED BY <1>3, <1>5, <1>7, <1>10, <2>1, WriteCall
  <1>12. Exclusive => Fresh(n, World')
    <2>1. \A b \in c.bars : b.ticks \in Int
      BY <1>3, BarFacts DEF CallRecord, BarRecord
    <2>2. Exclusive => World'.files = With(World.files, NextName(c), NextBars(c))
      BY <1>3, <1>4, <1>7 DEF name
    <2> QED BY <1>3, <1>5, <2>1, <2>2, WriteFresh
  <1>13. /\ handle' \in [Procs -> {"none", "temp", "file", "gone"}] /\ handle'[p] = "none"
         /\ \A q \in Procs \ {p} : /\ handle'[q] # "none" => handle[q] # "none"
                                   /\ ~AtFile(q, name) => handle'[q] = handle[q]
    <2>1. handle \in [Procs -> {"none", "temp", "file", "gone"}] /\ handle[p] = "none"
      BY <1>1 DEF MarketInv, StoreOK
    <2> QED BY <1>1, <2>1 DEF Renamed
  <1>14. ASSUME NEW q \in Procs \ {p}, InFile(proc[q]), NextName(proc[q]) \notin tangled
         PROVE  OwnTemp(proc[q], handle'[q], temps')
    <2>1. NextName(proc[q]) # name /\ OwnTemp(proc[q], handle[q], temps)
      BY <1>3, <1>14, OthersOwn DEF name
    <2>2. handle'[q] = handle[q]
      BY <1>13, <2>1 DEF AtFile
    <2>3. \A s \in temps' : s \in temps
      BY <1>1, WithFacts
    <2> QED BY <2>1, <2>2, <2>3, OwnStays
  <1>15. StoreOK'
    BY <1>1, <1>3, <1>6, <1>13, <1>14, StoreMoves
  <1>16. now' \in Nat /\ ticks' \subseteq 0..now' /\ DOMAIN backfills' = Ranges
    BY <1>1 DEF MarketInv, MarketTypes
  <1> QED BY <1>1, <1>3, <1>5, <1>9, <1>10, <1>11, <1>12, <1>15, <1>16, StepKeeps

\* A call ends.
LEMMA LastStep ==
    ASSUME MarketInv, NEW p \in Procs, proc[p] # Idle, Goto(p, Idle),
           UNCHANGED <<now, ticks, incidents, currentRow, backfills>>,
           Keeps(World, World'), FilesOK(World'), StoreOK'
    PROVE  MarketInv'
  <1>1. now' \in Nat /\ ticks' \subseteq 0..now' /\ DOMAIN backfills' = Ranges
    BY DEF MarketInv, MarketTypes
  <1>2. CallOK(Idle, World') /\ Idle.pc \notin Holding
    BY IdleOK
  <1> QED BY <1>1, <1>2, StepKeeps DEF Goto

\* What an exception does to the files.
LEMMA LeaveKeeps ==
    ASSUME MarketInv, NEW p \in Procs, LeaveFile(p), UNCHANGED <<now, ticks, incidents, tangled>>
    PROVE  Keeps(World, World') /\ FilesOK(World') /\ (Exclusive => files' = files)
  <1> DEFINE name == NextName(proc[p])
             torn == [name |-> name, bars |-> {}]
  <1>1. /\ World'.now = World.now /\ World'.ticks = World.ticks /\ World'.incidents = World.incidents
        /\ World'.tangled = World.tangled
        /\ World'.files = files' /\ World'.temps = temps' /\ World.files = files /\ World.temps = temps
        /\ World.tangled = tangled
    BY DEF World
  <1>2. Grew(World, World') /\ FilesOK(World)
    BY <1>1, WorldGrew DEF MarketInv, Grew
  <1>3. /\ temps' \subseteq temps
        /\ files' = files \/ (handle[p] = "file" /\ files' = With(files, name, {}))
    BY WithFacts DEF LeaveFile, UnlinkTemp, HalfWritten
  <1>4. handle[p] = "file" => name \in tangled
    BY DEF MarketInv, StoreOK, OwnTemp
  <1>5. Exclusive => tangled = {}
    BY DEF MarketInv, StoreOK
  <1> HIDE DEF name, torn
  <1>6. FileOK(torn, World)
    BY DEF FileOK, torn
  <1>7. FilesOK(World')
    <2>1. \A f \in files' \cup temps' : f \in files \cup temps \/ f = torn
      BY <1>3, WithFacts DEF torn
    <2> QED BY <1>1, <1>2, <1>6, <2>1, FilesStay
  <1>8. Keeps(World, World')
    <2>1. CASE files' = files
      BY <1>1, <1>2, <2>1, AgesKeeps
    <2>2. CASE handle[p] = "file" /\ files' = With(files, name, {})
      BY <1>1, <1>2, <1>4, <2>2, TangleKeeps
    <2> QED BY <1>3, <2>1, <2>2
  <1> QED BY <1>3, <1>4, <1>5, <1>7, <1>8

\* What it leaves to the others that write files.
LEMMA LeaveStore ==
    ASSUME MarketInv, NEW p \in Procs, LeaveFile(p), tangled' = tangled,
           NEW n, n = Idle \/ n.file = "none", proc' = [proc EXCEPT ![p] = n]
    PROVE  StoreOK'
  <1> DEFINE name == NextName(proc[p])
             users == {q \in Procs \ {p} : AtFile(q, name) /\ handle[q] = "temp"}
  <1>1. ~InFile(n) /\ (n # Idle => Staged(n)) /\ (Exclusive => tangled = {})
    BY IdleOK DEF InFile, Staged, MarketInv, StoreOK
  <1>2. CASE (~Writing(p) \/ proc[p].file = "none") /\ UNCHANGED <<files, temps, handle>>
    <2>1. ~InFile(proc[p]) /\ UNCHANGED storage
      BY <1>2 DEF InFile, Writing, storage
    <2> QED BY <2>1, StoreStays DEF MarketInv, MarketTypes
  <1>3. ASSUME handle' \in [Procs -> {"none", "temp", "file", "gone"}], handle'[p] = "none",
               \A q \in Procs \ {p} : handle'[q] # "none" => handle[q] # "none",
               \A q \in Procs \ {p} : OwnTemp(proc[q], handle[q], temps) => OwnTemp(proc[q], handle'[q], temps')
        PROVE  StoreOK'
    <2>1. \A q \in Procs \ {p} :
            InFile(proc[q]) /\ NextName(proc[q]) \notin tangled => OwnTemp(proc[q], handle'[q], temps')
      BY <1>3 DEF MarketInv, StoreOK
    <2> HIDE DEF name, users
    <2> QED BY <1>1, <1>3, <2>1, StoreMoves
  <1>4. handle \in [Procs -> {"none", "temp", "file", "gone"}]
    BY DEF MarketInv, StoreOK
  <1>5. CASE /\ temps' = Without(temps, name)
             /\ handle' = [q \in Procs |-> IF q = p THEN "none" ELSE IF q \in users THEN "gone" ELSE handle[q]]
    <2>1. /\ handle' \in [Procs -> {"none", "temp", "file", "gone"}] /\ handle'[p] = "none"
          /\ \A q \in Procs \ {p} : handle'[q] = IF q \in users THEN "gone" ELSE handle[q]
      BY <1>4, <1>5
    <2>2. \A q \in users : q \in Procs \ {p} /\ AtFile(q, name) /\ handle[q] = "temp"
      OBVIOUS
    <2>3. ASSUME NEW q \in Procs \ {p}, OwnTemp(proc[q], handle[q], temps)
          PROVE  OwnTemp(proc[q], handle'[q], temps')
      <3>1. CASE NextName(proc[q]) = name
        <4>1. \A t \in temps' : t.name # name
          BY <1>5, WithFacts
        <4>2. proc[q].file = "open" => handle'[q] \in {"temp", "gone"}
          BY <2>1, <2>3 DEF OwnTemp
        <4> QED BY <3>1, <4>1, <4>2 DEF OwnTemp
      <3>2. CASE NextName(proc[q]) # name
        <4>1. handle'[q] = handle[q]
          BY <2>1, <2>2, <3>2 DEF AtFile
        <4>2. \A t \in temps' : t \in temps
          BY <1>5, WithFacts
        <4> QED BY <2>3, <4>1, <4>2, OwnStays
      <3> QED BY <3>1, <3>2
    <2> HIDE DEF users
    <2> QED BY <1>3, <2>1, <2>2, <2>3
  <1>6. CASE UNCHANGED temps /\ handle' = [handle EXCEPT ![p] = "none"]
    <2>1. handle'[p] = "none" /\ \A q \in Procs \ {p} : handle'[q] = handle[q]
      BY <1>4, <1>6
    <2>2. handle' \in [Procs -> {"none", "temp", "file", "gone"}]
      BY <1>4, <1>6
    <2> QED BY <1>3, <1>6, <2>1, <2>2
  <1> QED BY <1>2, <1>5, <1>6 DEF LeaveFile, UnlinkTemp

\* A process dies, perhaps in the middle of a write.
LEMMA CrashStep ==
    ASSUME MarketInv, NEW p \in Procs, Crash(p)
    PROVE  MarketInv'
  <1> DEFINE c == proc[p]
             name == NextName(c)
  <1>1. /\ UNCHANGED <<now, ticks, tangled, incidents, currentRow, backfills>> /\ Goto(p, Idle) /\ c # Idle
        /\ UNCHANGED <<files, temps>> \/ (Writing(p) /\ c.file = "open" /\ Written(p, {}))
        /\ handle' = [handle EXCEPT ![p] = "none"] /\ proc' = [proc EXCEPT ![p] = Idle]
    BY DEF Crash, Goto, market, tables
  <1>2. Keeps(World, World') /\ FilesOK(World')
    <2>1. CASE UNCHANGED <<files, temps>>
      <3>1. World' = World
        BY <1>1, <2>1 DEF World
      <3> QED BY <3>1, WorldGrew, AgesKeeps DEF MarketInv
    <2>2. CASE Writing(p) /\ c.file = "open" /\ Written(p, {})
      BY <1>1, <2>2, WrittenKeeps
    <2> QED BY <1>1, <2>1, <2>2
  <1>3. /\ handle' \in [Procs -> {"none", "temp", "file", "gone"}] /\ handle'[p] = "none"
        /\ \A q \in Procs \ {p} : handle'[q] = handle[q]
        /\ Exclusive => tangled' = {}
    BY <1>1 DEF MarketInv, StoreOK
  <1>4. ASSUME NEW q \in Procs \ {p}, InFile(proc[q]), NextName(proc[q]) \notin tangled
        PROVE  OwnTemp(proc[q], handle'[q], temps')
    <2>1. OwnTemp(proc[q], handle[q], temps)
      BY <1>4 DEF MarketInv, StoreOK
    <2>2. \A t \in temps' : t.name = NextName(proc[q]) => t \in temps
      <3>1. CASE UNCHANGED <<files, temps>>
        BY <3>1
      <3>2. CASE Writing(p) /\ c.file = "open" /\ Written(p, {})
        <4>1. NextName(proc[q]) # name
          BY <1>4, <3>2, OthersOwn DEF InFile, Writing
        <4>2. temps' = temps \/ temps' = With(temps, name, {})
          BY <3>2 DEF Written
        <4> QED BY <4>1, <4>2, WithFacts
      <3> QED BY <1>1, <3>1, <3>2
    <2> QED BY <1>3, <2>1, <2>2, OwnStays
  <1>5. StoreOK'
    BY <1>1, <1>3, <1>4, IdleOK, StoreMoves
  <1> QED BY <1>1, <1>2, <1>5, LastStep

-----------------------------------------------------------------------------
(* The transactions of a collection, and its end *)

\* The last of some bars.
LEMMA LastFacts ==
    ASSUME NEW S, S \subseteq BarRecord, S # {}
    PROVE  LastBar(S) \in S /\ \A b \in S : b.open <= LastBar(S).open
  <1>1. Opens(S) \subseteq 0..Horizon /\ Opens(S) # {}
    <2>1. \A b \in S : b.open \in 0..Horizon
      BY BarFacts DEF BarRecord
    <2> QED BY <2>1 DEF Opens
  <1>2. Max(Opens(S)) \in Opens(S) /\ \A k \in Opens(S) : k <= Max(Opens(S))
    BY <1>1, BarFacts, Extremes
  <1>3. \E b \in S : b.open = Max(Opens(S))
    BY <1>2 DEF Opens
  <1>4. LastBar(S) \in S /\ LastBar(S).open = Max(Opens(S))
    BY <1>3, Zenon DEF LastBar
  <1> QED BY <1>2, <1>4 DEF Opens

\* Bars around a gap in what a call holds are reported.
LEMMA GapInBatch ==
    ASSUME NEW w, Grew(w, w), NEW c \in CallRecord, BatchOK(c, w), NEW j \in Bars, NEW k \in Bars, Gap(j, k, w),
           c.start <= j, k \in Opens(c.bars)
    PROVE  k \in MissingBefore(c.bars)
  <1>1. j < k /\ c.start \in Int
    BY BarFacts DEF Gap, CallRecord
  <1>2. Later(c.bars, j)
    BY <1>1 DEF Later, Opens
  <1>3. j \in Opens(c.bars)
    BY <1>2 DEF Gap, BatchOK
  <1>4. \A m \in Opens(c.bars) : m \in Bars /\ Has(m, w)
    BY DEF Opens, CallRecord, BarRecord, BatchOK, Sound
  <1>5. <<j, k>> \in Neighbours(c.bars)
    BY <1>1, <1>3, <1>4 DEF Gap, Neighbours
  <1>6. \E m \in Bars \ Weekend : j < m /\ m < k
    BY DEF Gap
  <1> DEFINE e == <<j, k>>
  <1>7. e \in Neighbours(c.bars) /\ e[1] = j /\ e[2] = k
    BY <1>5
  <1> HIDE DEF e
  <1>8. e \in {d \in Neighbours(c.bars) : \E m \in Bars \ Weekend : d[1] < m /\ m < d[2]}
    BY <1>6, <1>7
  <1> QED BY <1>7, <1>8 DEF MissingBefore

\* What the transaction of a collection or a chunk does.
LEMMA PersistFacts ==
    ASSUME NEW bars, NEW asOf, NEW from, PersistBars(bars, asOf, from)
    PROVE  /\ incidents \subseteq incidents' /\ \A k \in MissingBefore(bars) : Reported(k) \in incidents'
           /\ CurrentBars(bars, asOf) = {} => currentRow' = currentRow
           /\ CurrentBars(bars, asOf) # {} =>
                currentRow' = [bar |-> LastBar(CurrentBars(bars, asOf)), from |-> from]
  <1> USE DEF PersistBars, RecordIncidents, AdvanceCursor
  <1>1. \A k \in MissingBefore(bars) : Reported(k) \in {[kind |-> "missing_bars", bar |-> m] : m \in MissingBefore(bars)}
    BY DEF Reported
  <1> QED BY <1>1

\* The row that a collection writes.
LEMMA NewRow ==
    ASSUME NEW w, NEW v, Keeps(w, v), v.now = w.now, v.ticks = w.ticks,
           NEW c \in CallRecord, CallOK(c, w), c.pc = "write_bars", c.days = {},
           \A k \in MissingBefore(c.bars) : Reported(k) \in v.incidents,
           NEW last \in c.bars
    PROVE  RowOK([bar |-> last, from |-> c.from], v)
  <1> DEFINE L == last.open
  <1>1. Grew(w, v) /\ Grew(w, w) /\ BatchOK(c, w) /\ BehindOK(c.from, c.start, w) /\ (Covering => WrittenKept(c, w))
    BY GrewReflexive DEF Keeps, CallOK, Holding, Looking
  <1>2. BehindOK(c.from, c.start, v) /\ BatchOK(c, v) /\ Grew(v, v)
    <2>1. c.observed <= w.now
      BY DEF CallOK, TimesOK, CallRecord
    <2>2. BatchOK(c, v)
      BY <1>1, <2>1, BatchStays
    <2>3. BehindOK(c.from, c.start, v)
      BY <1>1, BehindStays
    <2> QED BY <1>1, <2>2, <2>3 DEF Grew
  <1>3. L \in Bars /\ Has(L, v) /\ L \in Opens(c.bars) /\ c.from \in Int /\ L \in Int /\ c.start \in Int
    BY <1>2, BarFacts DEF CallRecord, BarRecord, BatchOK, Sound, Opens
  <1>4. GapsBehind(c.from, L, v)
    <2> SUFFICES ASSUME NEW j \in Bars, NEW k \in Bars, Gap(j, k, v), c.from <= j, k <= L
                 PROVE  Reported(k) \in v.incidents
      BY DEF GapsBehind
    <2>0. j < k /\ j \in Int /\ k \in Int
      BY BarFacts DEF Gap
    <2>1. CASE k <= c.start
      BY <1>2, <2>1 DEF BehindOK, GapsBehind
    <2>2. CASE c.start <= j
      <3>1. k = L \/ Later(c.bars, k)
        BY <1>3, <2>0 DEF Later
      <3>2. k \in Opens(c.bars)
        BY <1>2, <1>3, <2>0, <2>2, <3>1 DEF BatchOK, Gap
      <3> QED BY <1>2, <2>2, <3>2, GapInBatch
    <2>3. CASE j < c.start /\ c.start < k
      <3>1. c.start # c.from
        BY <1>3, <2>0, <2>3
      <3>2. c.start \in Bars /\ Has(c.start, v)
        BY <1>2, <3>1 DEF BehindOK, StartOK
      <3> QED BY <2>3, <3>2 DEF Gap
    <2> QED BY <1>3, <2>0, <2>1, <2>2, <2>3
  <1>5. ASSUME Covering PROVE KeptBehind(c.from, L, v)
    <2> SUFFICES ASSUME NEW k \in Bars, Has(k, v), c.from <= k, k < L PROVE Kept(k, v)
      BY DEF KeptBehind
    <2>1. CASE k < c.start
      BY <1>2, <1>5, <2>1 DEF BehindOK, KeptBehind
    <2>2. CASE c.start <= k
      <3>1. Later(c.bars, k)
        BY DEF Later
      <3>2. k \in Opens(c.bars)
        BY <1>2, <2>2, <3>1 DEF BatchOK
      <3>3. Kept(k, w)
        BY <1>1, <1>5, <3>1, <3>2 DEF WrittenKept, Opens
      <3> QED BY <1>5, <3>3 DEF Keeps
    <2> QED BY <1>3, <2>1, <2>2, BarFacts
  <1> HIDE DEF L
  <1>6. BehindOK(c.from, L, v)
    BY <1>3, <1>4, <1>5 DEF BehindOK, StartOK
  <1> QED BY <1>3, <1>6 DEF RowOK, L

\* The transaction of a collection.
LEMMA CommitSymbolStep ==
    ASSUME MarketInv, NEW p \in Procs, CommitSymbol(p)
    PROVE  MarketInv'
  <1> DEFINE c == proc[p]
             cur == CurrentBars(c.bars, c.observed)
             n == [c EXCEPT !.pc = "heartbeat"]
  <1>1. /\ proc' = [proc EXCEPT ![p] = n] /\ c.pc = "write_bars" /\ c.days = {}
        /\ UNCHANGED <<now, ticks, storage, backfills>>
        /\ PersistBars(c.bars, c.observed, c.from)
    BY DEF CommitSymbol, Goto, market
  <1>2. c \in CallRecord /\ c # Idle /\ CallOK(c, World) /\ ~InFile(c) /\ c.file = "none"
    BY <1>1, ActiveCall, NoFile DEF CollectPcs
  <1>3. /\ incidents \subseteq incidents' /\ \A k \in MissingBefore(c.bars) : Reported(k) \in incidents'
        /\ cur = {} => currentRow' = currentRow
        /\ cur # {} => currentRow' = [bar |-> LastBar(cur), from |-> c.from]
    BY <1>1, PersistFacts
  <1>4. /\ World'.now = World.now /\ World'.ticks = World.ticks /\ World'.files = World.files
        /\ World'.temps = World.temps /\ World'.tangled = World.tangled
        /\ World.incidents \subseteq World'.incidents
        /\ \A k \in MissingBefore(c.bars) : Reported(k) \in World'.incidents
    BY <1>1, <1>3 DEF World, storage
  <1>5. Keeps(World, World') /\ FilesOK(World')
    <2>1. Grew(World, World') /\ FilesOK(World)
      BY <1>4, WorldGrew DEF MarketInv, Grew
    <2> QED BY <1>4, <2>1, AgesKeeps, FilesStay
  <1>6. currentRow' = currentRow \/ RowOK(currentRow', World')
    <2> SUFFICES ASSUME cur # {} PROVE RowOK(currentRow', World')
      BY <1>3
    <2>1. cur \subseteq c.bars /\ cur \subseteq BarRecord
      BY <1>2 DEF CurrentBars, CallRecord
    <2>2. LastBar(cur) \in c.bars
      BY <2>1, LastFacts
    <2> HIDE DEF cur
    <2>3. RowOK([bar |-> LastBar(cur), from |-> c.from], World')
      BY <1>1, <1>2, <1>4, <1>5, <2>2, NewRow
    <2> QED BY <1>3, <2>3
  <1>7. n \in CallRecord /\ n.pc = "heartbeat" /\ n.observed = c.observed /\ n.file = "none"
    BY <1>2 DEF CallRecord, CollectPcs
  <1> HIDE DEF n
  <1>8. c.observed <= World'.now
    BY <1>1, <1>2, <1>4 DEF CallOK, TimesOK, CollectPcs
  <1>9. CallOK(n, World') /\ n.pc \notin Holding
    BY <1>7, <1>8, EarlyCall
  <1>10. now' \in Nat /\ ticks' \subseteq 0..now' /\ DOMAIN backfills' = Ranges /\ backfills' = backfills
    BY <1>1 DEF MarketInv, MarketTypes
  <1>11. StoreOK'
    BY <1>1, <1>2, <1>7, StoreStays DEF MarketInv, MarketTypes
  <1> QED BY <1>1, <1>2, <1>5, <1>6, <1>7, <1>9, <1>10, <1>11, StepKeeps

\* The last step of a collection, and the exceptions that end one.
LEMMA CollectEnds ==
    ASSUME MarketInv, NEW p \in Procs, RecordHeartbeat(p) \/ CollectRaises(p) \/ Crash(p)
    PROVE  MarketInv'
  <1>1. CASE RecordHeartbeat(p)
    <2>1. /\ UNCHANGED <<now, ticks, storage, incidents, currentRow, backfills>> /\ Goto(p, Idle)
          /\ proc[p].pc = "heartbeat" /\ proc[p] # Idle
      BY <1>1 DEF RecordHeartbeat, market, Idle
    <2>2. ~InFile(proc[p])
      BY <2>1, NoFile DEF CollectPcs
    <2> QED BY <2>1, <2>2, StopStep
  <1>2. CASE CollectRaises(p)
    <2>1. /\ UNCHANGED <<now, ticks, tangled, incidents, currentRow, backfills>> /\ Goto(p, Idle)
          /\ LeaveFile(p) /\ proc[p] # Idle
      BY <1>2 DEF CollectRaises, market, tables, Idle
    <2>2. Keeps(World, World') /\ FilesOK(World')
      BY <2>1, LeaveKeeps
    <2>3. StoreOK'
      BY <2>1, LeaveStore DEF Goto
    <2> QED BY <2>1, <2>2, <2>3, LastStep
  <1>3. CASE Crash(p)
    BY <1>3, CrashStep
  <1> QED BY <1>1, <1>2, <1>3

-----------------------------------------------------------------------------
(* The steps of a backfill *)

\* A chunk that is about to be asked for.
LEMMA ChunkCall ==
    ASSUME NEW w, NEW r \in Ranges, NEW asked \in Int, asked <= w.now, NEW s \in Int,
           Exclusive => Done(r, s, asked, w)
    PROVE  LET n == FromChunk(r, s, asked)
           IN  n \in CallRecord \cup {Idle} /\ CallOK(n, w) /\ n.pc \notin Holding /\ (n = Idle \/ n.file = "none")
  <1> DEFINE n == [NewCall("bf_bars") EXCEPT !.range = r, !.start = s, !.observed = asked]
  <1>1. n \in CallRecord /\ n.pc = "bf_bars" /\ n.range = r /\ n.start = s /\ n.observed = asked /\ n.file = "none"
    <2>1. NewCall("bf_bars") \in CallRecord /\ NewCall("bf_bars").pc = "bf_bars" /\ NewCall("bf_bars").file = "none"
      BY DEF NewCall, CallRecord, BackfillPcs, NoTime
    <2> QED BY <2>1 DEF CallRecord
  <1>2. FromChunk(r, s, asked) = n \/ FromChunk(r, s, asked) = Idle
    BY DEF FromChunk
  <1> HIDE DEF n
  <1>3. CallOK(n, w) /\ n.pc \notin Holding
    BY <1>1 DEF CallOK, TimesOK, CollectPcs, BackfillPcs, Holding, Looking, InChunk
  <1> QED BY <1>1, <1>2, <1>3, IdleOK

\* What an active backfill is.
LEMMA BackfillCall ==
    ASSUME MarketInv, NEW p \in Procs, proc[p].pc \in BackfillPcs
    PROVE  /\ proc[p] \in CallRecord /\ proc[p] # Idle /\ CallOK(proc[p], World)
           /\ proc[p].range \in Ranges /\ proc[p].observed \in Int /\ proc[p].observed <= World.now
           /\ proc[p].start \in Int /\ ChunkEnd(p) \in Int /\ ReadTo(proc[p]) = ChunkEnd(p)
  <1>1. proc[p] \in CallRecord /\ proc[p] # Idle /\ CallOK(proc[p], World)
    BY ActiveCall
  <1>2. /\ proc[p].range \in Ranges /\ proc[p].observed \in Int /\ proc[p].observed <= World.now
        /\ proc[p].start \in Int
    BY <1>1 DEF CallOK, TimesOK, CallRecord
  <1>3. proc[p].range[2] \in Int /\ proc[p].start + BarLen * Lookback \in Int
    BY <1>2, BarFacts, MarketAssumption DEF MarketAssumption
  <1>4. ChunkEnd(p) \in Int
    BY <1>3, MinOfTwo DEF ChunkEnd, AdvanceWindow
  <1>5. ReadTo(proc[p]) = ChunkEnd(p)
    BY DEF ReadTo, ChunkEnd
  <1> QED BY <1>1, <1>2, <1>4, <1>5

\* The progress of the range is read.
LEMMA ReadStateStep ==
    ASSUME MarketInv, NEW p \in Procs, ReadBackfillState(p)
    PROVE  MarketInv'
  <1> DEFINE r == proc[p].range
             s == NextStart(r)
             asked == FirstAsked(p)
             n == FromChunk(r, s, asked)
  <1>1. /\ proc' = [proc EXCEPT ![p] = n] /\ proc[p].pc = "bf_resolve"
        /\ UNCHANGED <<now, ticks, storage, incidents, currentRow, backfills>>
    BY DEF ReadBackfillState, Goto, market, tables
  <1>2. proc[p] # Idle /\ r \in Ranges /\ proc[p].observed \in Int /\ proc[p].observed <= World.now /\ ~InFile(proc[p])
    BY <1>1, BackfillCall, NoFile DEF BackfillPcs
  <1>3. s \in Int /\ asked \in Int /\ asked <= World.now /\ (Exclusive => Done(r, s, asked, World))
    <2>1. CASE backfills[r] = None
      <3>1. s = r[1] /\ r[1] \in Int /\ asked = proc[p].observed
        BY <1>2, <2>1, BarFacts DEF NextStart, FirstAsked
      <3> HIDE DEF s, r, asked
      <3> QED BY <1>2, <3>1, BarFacts DEF Done
    <2>2. CASE backfills[r] # None
      <3>1. EntryOK(r, backfills[r], World)
        BY <1>2, <2>2 DEF MarketInv, BackfillsOK
      <3>2. s = backfills[r].next /\ asked = backfills[r].asked
        BY <2>2 DEF NextStart, FirstAsked
      <3> HIDE DEF s, asked, r
      <3> QED BY <3>1, <3>2 DEF EntryOK
    <2> QED BY <2>1, <2>2
  <1> HIDE DEF s, r, asked
  <1>4. n \in CallRecord \cup {Idle} /\ CallOK(n, World) /\ n.pc \notin Holding /\ (n = Idle \/ n.file = "none")
    BY <1>2, <1>3, ChunkCall
  <1> HIDE DEF n
  <1> QED BY <1>1, <1>2, <1>4, QuietStep

\* The bars of a chunk arrive.
LEMMA LoadChunkStep ==
    ASSUME MarketInv, NEW p \in Procs, LoadChunk(p)
    PROVE  MarketInv'
  <1> DEFINE c == proc[p]
             bars == LoadedBars(c.start, ChunkEnd(p), ChunkEnd(p))
             pc == IF bars = {} THEN "bf_state" ELSE "bf_write"
             n == [c EXCEPT !.pc = pc, !.attempt = 1, !.bars = bars, !.days = Days(bars)]
  <1>1. /\ proc' = [proc EXCEPT ![p] = n] /\ c.pc = "bf_bars"
        /\ UNCHANGED <<now, ticks, storage, incidents, currentRow, backfills>>
    BY DEF LoadChunk, Goto, market, tables
  <1>2. /\ c \in CallRecord /\ c # Idle /\ CallOK(c, World) /\ MarketTypes
        /\ c.range \in Ranges /\ c.observed <= World.now /\ ReadTo(c) = ChunkEnd(p)
        /\ ~InFile(c) /\ c.file = "none"
    BY <1>1, BackfillCall, NoFile DEF BackfillPcs, MarketInv
  <1>3. bars \subseteq BarRecord /\ Days(bars) \subseteq Dates /\ \A b \in bars : Final(b, World)
    BY <1>2, LoadFacts
  <1>4. pc \in {"bf_state", "bf_write"} /\ (pc = "bf_state" => bars = {})
    OBVIOUS
  <1>5. /\ n \in CallRecord /\ n.pc = pc /\ n.start = c.start /\ n.bars = bars /\ n.days = Days(bars) /\ n.range = c.range
        /\ n.observed = c.observed /\ n.file = "none"
    <2> HIDE DEF bars, pc
    <2> QED BY <1>2, <1>3, <1>4 DEF CallRecord, BackfillPcs
  <1> HIDE DEF n, pc
  <1>6. TimesOK(n, World)
    BY <1>2, <1>4, <1>5 DEF TimesOK, CollectPcs, BackfillPcs
  <1>7. n.bars = LoadedBars(n.start, ReadTo(n), ChunkEnd(p))
    BY <1>1, <1>2, <1>4, <1>5 DEF ReadTo, BackfillPcs
  <1>8. BatchOK(n, World) /\ WrittenKept(n, World)
    BY <1>2, <1>5, <1>6, <1>7, LoadCall
  <1>9. Exclusive => Done(n.range, n.start, n.observed, World)
    BY <1>1, <1>2, <1>5 DEF CallOK, InChunk, BackfillPcs
  <1>10. n.pc = "bf_state" => n.days = {}
    BY <1>4, <1>5 DEF Days, Opens
  <1>11. CallOK(n, World)
    BY <1>4, <1>5, <1>6, <1>8, <1>9, <1>10 DEF CallOK, Looking
  <1>12. Fresh(n, World)
    BY <1>3, <1>5, LoadFresh
  <1> QED BY <1>1, <1>2, <1>5, <1>11, <1>12, QuietStep

\* The transaction of a chunk: no cursor moves.
LEMMA CommitBarsStep ==
    ASSUME MarketInv, NEW p \in Procs, CommitBars(p)
    PROVE  MarketInv'
  <1> DEFINE c == proc[p]
             asOf == Closes(LastBar(c.bars).open)
             n == [c EXCEPT !.pc = "bf_state"]
  <1>1. /\ proc' = [proc EXCEPT ![p] = n] /\ c.pc = "bf_write" /\ c.days = {}
        /\ UNCHANGED <<now, ticks, storage, backfills>>
        /\ PersistBars(c.bars, asOf, c.start)
    BY DEF CommitBars, Goto, market
  <1>2. c \in CallRecord /\ c # Idle /\ CallOK(c, World) /\ c.pc \in Holding /\ ~InFile(c) /\ c.file = "none"
    BY <1>1, BackfillCall, NoFile DEF BackfillPcs, Holding
  <1>3. CurrentBars(c.bars, asOf) = {}
    <2> SUFFICES ASSUME NEW b \in c.bars PROVE ~(Closes(b.open) > asOf)
      BY DEF CurrentBars
    <2>1. c.bars \subseteq BarRecord
      BY <1>2 DEF CallRecord
    <2>2. LastBar(c.bars) \in c.bars /\ b.open <= LastBar(c.bars).open
      BY <2>1, LastFacts
    <2>3. b.open \in Bars /\ LastBar(c.bars).open \in Bars
      BY <2>1, <2>2 DEF BarRecord
    <2> QED BY <2>2, <2>3, BarFacts
  <1>4. incidents \subseteq incidents' /\ currentRow' = currentRow
    BY <1>1, <1>3, PersistFacts
  <1>5. Keeps(World, World') /\ FilesOK(World') /\ World'.files = World.files
    <2>1. /\ Grew(World, World') /\ FilesOK(World) /\ World'.files = World.files /\ World'.temps = World.temps
          /\ World'.tangled = World.tangled /\ World.incidents \subseteq World'.incidents
      BY <1>1, <1>4, WorldGrew DEF MarketInv, Grew, World, storage
    <2> QED BY <2>1, AgesKeeps, FilesStay
  <1>6. CallOK(c, World')
    BY <1>2, <1>5, CallStays
  <1>7. /\ n \in CallRecord /\ n.pc = "bf_state" /\ n.observed = c.observed /\ n.start = c.start
        /\ n.from = c.from /\ n.bars = c.bars /\ n.days = c.days /\ n.range = c.range /\ n.file = "none"
    BY <1>2 DEF CallRecord, BackfillPcs
  <1>8. Exclusive => Fresh(n, World')
    <2>1. Exclusive => Fresh(c, World)
      BY <1>2 DEF MarketInv, AloneOK
    <2> HIDE DEF n
    <2> QED BY <1>5, <1>7, <2>1 DEF Fresh
  <1> HIDE DEF n
  <1>9. CallOK(n, World')
    <2>1. TimesOK(n, World')
      BY <1>1, <1>6, <1>7 DEF CallOK, TimesOK, CollectPcs, BackfillPcs
    <2>2. ReadTo(n) = ReadTo(c)
      BY <1>1, <1>7 DEF ReadTo, BackfillPcs
    <2>3. BatchOK(n, World')
      BY <1>2, <1>6, <1>7, <2>2 DEF CallOK, BatchOK
    <2>4. Covering => WrittenKept(n, World')
      BY <1>2, <1>6, <1>7, <2>2 DEF CallOK, WrittenKept
    <2>5. Exclusive => Done(n.range, n.start, n.observed, World')
      BY <1>1, <1>6, <1>7 DEF CallOK, InChunk, BackfillPcs
    <2> QED BY <1>1, <1>7, <2>1, <2>3, <2>4, <2>5 DEF CallOK, Looking
  <1>10. now' \in Nat /\ ticks' \subseteq 0..now' /\ DOMAIN backfills' = Ranges /\ backfills' = backfills
    BY <1>1 DEF MarketInv, MarketTypes
  <1>11. StoreOK'
    BY <1>1, <1>2, <1>7, StoreStays DEF MarketInv, MarketTypes
  <1> QED BY <1>1, <1>2, <1>4, <1>5, <1>7, <1>8, <1>9, <1>10, <1>11, StepKeeps

\* A chunk is done when its bars are written.
LEMMA ChunkDone ==
    ASSUME NEW w, NEW c \in CallRecord, CallOK(c, w), c.pc = "bf_state", Exclusive, ReadTo(c) \in Int
    PROVE  Done(c.range, ReadTo(c), c.observed, w)
  <1>1. /\ BatchOK(c, w) /\ WrittenKept(c, w) /\ Done(c.range, c.start, c.observed, w) /\ c.days = {}
        /\ c.start \in Int
    BY DEF CallOK, Holding, InChunk, BackfillPcs, Covering, CallRecord
  <1> SUFFICES ASSUME NEW k \in Bars, Has(k, w), c.range[1] <= k, k < ReadTo(c), Closes(k) <= c.observed
               PROVE  Kept(k, w)
    BY DEF Done
  <1>2. CASE k < c.start
    BY <1>1, <1>2 DEF Done
  <1>3. CASE c.start <= k
    <2>1. k <= ReadTo(c)
      BY BarFacts
    <2>2. k \in Opens(c.bars)
      BY <1>1, <1>3, <2>1 DEF BatchOK
    <2> QED BY <1>1, <2>2 DEF WrittenKept, Opens
  <1> QED BY <1>1, <1>2, <1>3, BarFacts

\* The progress is written.
LEMMA SaveStep ==
    ASSUME MarketInv, NEW p \in Procs, SaveChunk(p) \/ SaveFailure(p)
    PROVE  MarketInv'
  <1> DEFINE c == proc[p]
             r == c.range
  <1>1. c.pc \in {"bf_state", "bf_failed"}
    BY DEF SaveChunk, SaveFailure
  <1>2. /\ c \in CallRecord /\ c # Idle /\ CallOK(c, World) /\ r \in Ranges /\ r[2] \in Int
        /\ c.observed \in Int /\ c.observed <= World.now /\ ~InFile(c) /\ c.start \in Int /\ ChunkEnd(p) \in Int /\ ReadTo(c) = ChunkEnd(p)
    BY <1>1, BackfillCall, NoFile, BarFacts DEF BackfillPcs
  <1>3. PICK next \in Int, status \in {"running", "complete", "failed"}, n \in CallRecord \cup {Idle} :
          /\ SaveBackfill(p, next, status) /\ proc' = [proc EXCEPT ![p] = n]
          /\ Exclusive => Done(r, next, c.observed, World)
          /\ status = "complete" => r[2] <= next
          /\ CallOK(n, World) /\ n.pc \notin Holding /\ (n = Idle \/ n.file = "none")
    <2>1. CASE SaveChunk(p)
      <3> DEFINE status == IF ChunkEnd(p) < r[2] THEN "running" ELSE "complete"
      <3>1. /\ c.pc = "bf_state" /\ SaveBackfill(p, ChunkEnd(p), status)
            /\ proc' = [proc EXCEPT ![p] = FromChunk(r, ChunkEnd(p), c.observed)]
        BY <2>1 DEF SaveChunk, Goto
      <3>2. Exclusive => Done(r, ChunkEnd(p), c.observed, World)
        BY <1>2, <3>1, ChunkDone
      <3>3. status \in {"running", "complete", "failed"} /\ (status = "complete" => r[2] <= ChunkEnd(p))
        BY <1>2
      <3> HIDE DEF status, r, c
      <3>4. /\ FromChunk(r, ChunkEnd(p), c.observed) \in CallRecord \cup {Idle} /\ CallOK(FromChunk(r, ChunkEnd(p), c.observed), World)
            /\ FromChunk(r, ChunkEnd(p), c.observed).pc \notin Holding
            /\ FromChunk(r, ChunkEnd(p), c.observed) = Idle \/ FromChunk(r, ChunkEnd(p), c.observed).file = "none"
        BY <1>2, <3>2, ChunkCall
      <3> QED BY <1>2, <3>1, <3>2, <3>3, <3>4
    <2>2. CASE SaveFailure(p)
      <3>1. /\ c.pc = "bf_failed" /\ SaveBackfill(p, c.start, "failed") /\ proc' = [proc EXCEPT ![p] = Idle]
        BY <2>2 DEF SaveFailure, Goto
      <3>2. Exclusive => Done(r, c.start, c.observed, World)
        BY <1>2, <3>1 DEF CallOK, InChunk, BackfillPcs
      <3> HIDE DEF r, c
      <3> QED BY <1>2, <3>1, <3>2, IdleOK
    <2> QED BY <2>1, <2>2
  <1>4. /\ UNCHANGED <<now, ticks, storage, incidents, currentRow>>
        /\ backfills' = [backfills EXCEPT ![r] = [next |-> next, status |-> status, asked |-> c.observed]]
    BY <1>3 DEF SaveBackfill, market
  <1>5. World' = World
    BY <1>4 DEF World, storage
  <1>6. Keeps(World, World) /\ FilesOK(World) /\ now \in Nat /\ ticks \subseteq 0..now /\ DOMAIN backfills = Ranges
    BY WorldGrew, AgesKeeps DEF MarketInv, MarketTypes
  <1> DEFINE entry == [next |-> next, status |-> status, asked |-> c.observed]
  <1>7. EntryOK(r, entry, World)
    BY <1>2, <1>3 DEF EntryOK
  <1> HIDE DEF entry, r
  <1>8. DOMAIN backfills' = Ranges /\ \A s \in Ranges : backfills'[s] = backfills[s] \/ EntryOK(s, backfills'[s], World)
    <2>1. \A s \in Ranges : backfills'[s] = IF s = r THEN entry ELSE backfills[s]
      BY <1>2, <1>4, <1>6 DEF entry
    <2>2. DOMAIN backfills' = Ranges
      BY <1>4, <1>6
    <2> QED BY <1>7, <2>1, <2>2
  <1>9. StoreOK'
    BY <1>2, <1>3, <1>4, StoreStays DEF MarketInv, MarketTypes
  <1> QED BY <1>2, <1>3, <1>4, <1>5, <1>6, <1>8, <1>9, StepKeeps

\* The exceptions of a backfill.
LEMMA BackfillRaisesStep ==
    ASSUME MarketInv, NEW p \in Procs, BackfillRaises(p)
    PROVE  MarketInv'
  <1> DEFINE c == proc[p]
             n == [c EXCEPT !.pc = "bf_failed", !.file = "none"]
  <1>1. /\ c.pc \in {"bf_resolve", "bf_bars", "bf_write", "bf_state"} /\ LeaveFile(p)
        /\ UNCHANGED <<now, ticks, tangled, incidents, currentRow, backfills>>
        /\ IF c.pc = "bf_resolve" THEN Goto(p, Idle) ELSE proc' = [proc EXCEPT ![p] = n]
    BY DEF BackfillRaises, Goto, market, tables
  <1>2. c \in CallRecord /\ c # Idle /\ CallOK(c, World) /\ c.range \in Ranges /\ c.observed <= World.now
    BY <1>1, BackfillCall DEF BackfillPcs
  <1>3. Keeps(World, World') /\ FilesOK(World')
    BY <1>1, LeaveKeeps
  <1>4. CASE c.pc = "bf_resolve"
    <2>1. Goto(p, Idle)
      BY <1>1, <1>4
    <2>2. StoreOK'
      BY <1>1, <2>1, LeaveStore DEF Goto
    <2> QED BY <1>1, <1>2, <1>3, <2>1, <2>2, LastStep
  <1>5. CASE c.pc # "bf_resolve"
    <2>1. /\ n \in CallRecord /\ n.pc = "bf_failed" /\ n.range = c.range /\ n.start = c.start
          /\ n.observed = c.observed /\ n.file = "none"
      BY <1>2 DEF CallRecord, BackfillPcs
    <2>2. proc' = [proc EXCEPT ![p] = n]
      BY <1>1, <1>5
    <2> HIDE DEF n
    <2>3. StoreOK'
      BY <1>1, <2>1, <2>2, LeaveStore
    <2>4. CallOK(c, World')
      BY <1>2, <1>3, CallStays
    <2>5. Exclusive => Done(c.range, c.start, c.observed, World')
      BY <1>1, <1>5, <2>4 DEF CallOK, InChunk, BackfillPcs
    <2>6. TimesOK(n, World')
      BY <1>1, <2>1, <2>4 DEF CallOK, TimesOK, BackfillPcs, CollectPcs
    <2>7. CallOK(n, World') /\ n.pc \notin Holding
      BY <2>1, <2>5, <2>6 DEF CallOK, Holding, Looking, InChunk
    <2>8. now' \in Nat /\ ticks' \subseteq 0..now' /\ DOMAIN backfills' = Ranges
      BY <1>1 DEF MarketInv, MarketTypes
    <2> QED BY <1>1, <1>2, <1>3, <2>1, <2>2, <2>3, <2>7, <2>8, StepKeeps
  <1> QED BY <1>4, <1>5

-----------------------------------------------------------------------------
(* The theorems of the collector *)

\* Time passes, and the broker revises what it likes.
LEMMA MarketStep ==
    ASSUME MarketInv, Advance \/ Revise \/ UNCHANGED vars
    PROVE  MarketInv'
  <1>1. /\ UNCHANGED <<storage, incidents, currentRow, backfills, proc>> /\ now' \in Nat
        /\ now <= now' /\ ticks \subseteq ticks' /\ ticks' \subseteq 0..now'
        /\ \A t \in ticks' : t \in ticks \/ t > now
    <2>1. now \in Nat /\ ticks \subseteq 0..now
      BY DEF MarketInv, MarketTypes
    <2>2. CASE Advance
      <3>1. UNCHANGED <<storage, incidents, currentRow, backfills, proc>> /\ now' = now + 1
        BY <2>2 DEF Advance, tables
      <3>2. ticks' = ticks \/ ticks' = ticks \cup {now + 1}
        BY <2>2 DEF Advance
      <3>3. \A n \in Nat : n + 1 \in Nat /\ n <= n + 1 /\ n + 1 > n /\ n + 1 \in 0..n+1 /\ 0..n \subseteq 0..n+1
        OBVIOUS
      <3> QED BY <2>1, <3>1, <3>2, <3>3
    <2>3. CASE Revise \/ UNCHANGED vars
      <3>1. UNCHANGED <<storage, incidents, currentRow, backfills, proc, now, ticks>>
        BY <2>3 DEF Revise, vars, market, tables
      <3> QED BY <2>1, <3>1
    <2> QED BY <2>2, <2>3
  <1>2. Grew(World, World') /\ World'.incidents = World.incidents /\ World'.files = World.files
        /\ World'.temps = World.temps /\ World'.tangled = World.tangled
    BY <1>1 DEF MarketInv, MarketTypes, Grew, World, storage
  <1>3. Keeps(World, World') /\ FilesOK(World')
    BY <1>2, AgesKeeps, FilesStay DEF MarketInv
  <1>4. MarketTypes'
    BY <1>1 DEF MarketInv, MarketTypes
  <1>5. CallsOK'
    BY <1>1, <1>3, CallStays DEF MarketInv, MarketTypes, CallsOK
  <1>6. AloneOK'
    BY <1>1, <1>2 DEF MarketInv, AloneOK, Fresh
  <1>7. CursorOK'
    BY <1>1, <1>3, RowStays DEF MarketInv, CursorOK
  <1>8. BackfillsOK'
    BY <1>1, <1>3, EntryStays DEF MarketInv, BackfillsOK
  <1>9. StoreOK'
    BY <1>1 DEF MarketInv, StoreOK, storage
  <1> QED BY <1>3, <1>4, <1>5, <1>6, <1>7, <1>8, <1>9 DEF MarketInv

\* At the start there is nothing to cover.
LEMMA MarketInitInv == Init => MarketInv
  <1> SUFFICES ASSUME Init PROVE MarketInv
    OBVIOUS
  <1>1. \A p \in Procs : proc[p] = Idle
    BY DEF Init
  <1>2. MarketTypes
    BY DEF Init, MarketTypes
  <1>3. FilesOK(World)
    BY DEF Init, FilesOK, World
  <1>4. CallsOK
    BY <1>1, IdleOK DEF CallsOK
  <1>5. AloneOK
    BY <1>1, IdleOK DEF AloneOK
  <1>6. CursorOK /\ BackfillsOK
    BY DEF Init, CursorOK, BackfillsOK
  <1>7. StoreOK
    BY <1>1, IdleOK DEF Init, StoreOK
  <1> QED BY <1>2, <1>3, <1>4, <1>5, <1>6, <1>7 DEF MarketInv

\* Every step keeps the invariant.
LEMMA MarketNextInv == MarketInv /\ [Next]_vars => MarketInv'
  <1> SUFFICES ASSUME MarketInv, [Next]_vars PROVE MarketInv'
    OBVIOUS
  <1>1. CASE Advance \/ Revise \/ UNCHANGED vars
    BY <1>1, MarketStep
  <1>2. ASSUME NEW p \in Procs, CollectOnce(p) \/ Backfill(p) \/ Work(p) \/ Crash(p) PROVE MarketInv'
    <2>1. CASE CollectOnce(p) \/ Backfill(p)
      BY <2>1, BeginStep
    <2>2. CASE Crash(p)
      BY <2>2, CollectEnds
    <2>3. CASE Work(p)
      <3>1. CASE Retry(p)
        BY <3>1, RetryStep
      <3>2. CASE ResolveSymbols(p) \/ Unresolved(p) \/ LoadTicks(p) \/ LoadLatestTick(p)
        BY <3>2, EarlySteps
      <3>3. CASE ReadBarCursor(p)
        BY <3>3, CursorStep
      <3>4. CASE LoadBars(p)
        BY <3>4, LoadBarsStep
      <3>5. CASE WriteTicks(p)
        BY <3>5, WriteTicksStep
      <3>6. CASE OpenTemp(p) \/ FillTemp(p) \/ ValidateTemp(p) \/ ReplaceFile(p)
        BY <3>6, OpenTempStep, FillTempStep, ValidateTempStep, ReplaceFileStep
      <3>7. CASE CommitSymbol(p)
        BY <3>7, CommitSymbolStep
      <3>8. CASE RecordHeartbeat(p) \/ CollectRaises(p)
        BY <3>8, CollectEnds
      <3>9. CASE ReadBackfillState(p)
        BY <3>9, ReadStateStep
      <3>10. CASE LoadChunk(p)
        BY <3>10, LoadChunkStep
      <3>11. CASE CommitBars(p)
        BY <3>11, CommitBarsStep
      <3>12. CASE SaveChunk(p) \/ SaveFailure(p)
        BY <3>12, SaveStep
      <3>13. CASE BackfillRaises(p)
        BY <3>13, BackfillRaisesStep
      <3> QED BY <2>3, <3>1, <3>2, <3>3, <3>4, <3>5, <3>6, <3>7, <3>8, <3>9, <3>10, <3>11, <3>12, <3>13 DEF Work
    <2> QED BY <1>2, <2>1, <2>2, <2>3
  <1> QED BY <1>1, <1>2 DEF Next

\* The inductive invariant of the collector.
THEOREM MarketInvariant == Spec => []MarketInv
  <1> QED BY MarketInitInv, MarketNextInv, PTL DEF Spec

\* What is kept is archived, unless two processes were writing a file of it at once.
LEMMA KeptArchived == ASSUME NEW k, Kept(k, World) PROVE Archived(k) \/ Tangled(k)
  BY TicksNow DEF Kept, Stored, Spoilt, Covers, Archived, Tangled, Final, World

\* No bar is lost behind the cursor: when one call is at work at a time, whatever fails or crashes, and
\* when all bars are of one date, however many calls of collect_once and backfill overlap, fail and crash
\* at any step of a file.  Excepted are bars of a file that two processes were writing at once.
THEOREM MarketCursorCovered ==
    ASSUME Exclusive \/ OneDate
    PROVE  Spec => []CursorCovered
  <1>1. MarketInv => CursorCovered
    <2> SUFFICES ASSUME MarketInv, currentRow # None, NEW k \in Bars, Exists(k), currentRow.from <= k,
                        k < currentRow.bar.open
                 PROVE  Archived(k) \/ Tangled(k)
      BY DEF CursorCovered, BehindCursor
    <2>1. KeptBehind(currentRow.from, currentRow.bar.open, World)
      BY DEF MarketInv, CursorOK, RowOK, BehindOK, Covering
    <2>2. Kept(k, World)
      BY <2>1, TicksNow DEF KeptBehind
    <2> QED BY <2>2, KeptArchived
  <1> QED BY <1>1, MarketInvariant, PTL

\* A call at a time tangles no file, so that no bar at all is lost behind the cursor.
THEOREM MarketCursorArchived ==
    ASSUME Exclusive
    PROVE  Spec => []CursorArchived
  <1>1. MarketInv => tangled = {}
    BY DEF MarketInv, StoreOK
  <1>2. CursorCovered /\ tangled = {} => CursorArchived
    BY DEF CursorCovered, CursorArchived, Tangled
  <1> QED BY <1>1, <1>2, MarketCursorCovered, MarketInvariant, PTL

\* Every gap behind the cursor has its incident, also around the bar where one collection ends and the
\* next begins, and however many calls overlap.
THEOREM MarketGapsReported == Spec => []GapsReported
  <1>1. MarketInv => GapsReported
    <2> SUFFICES ASSUME MarketInv, currentRow # None, NEW j \in Bars, NEW k \in Bars, Exists(j), Exists(k),
                        \E m \in Bars \ Weekend : j < m /\ m < k,
                        \A m \in Bars : j < m /\ m < k => ~Exists(m),
                        currentRow.from <= j, k <= currentRow.bar.open
                 PROVE  [kind |-> "missing_bars", bar |-> k] \in incidents
      BY DEF GapsReported
    <2>1. GapsBehind(currentRow.from, currentRow.bar.open, World)
      BY DEF MarketInv, CursorOK, RowOK, BehindOK
    <2>2. Gap(j, k, World)
      BY TicksNow DEF Gap
    <2> QED BY <2>1, <2>2 DEF GapsBehind, Reported, World
  <1> QED BY <1>1, MarketInvariant, PTL

\* A complete backfill has stored every bar of its range that had closed when it was first asked for,
\* however often it failed, crashed and was resumed, and wherever its range ends.
THEOREM MarketBackfillComplete ==
    ASSUME Exclusive
    PROVE  Spec => []BackfillComplete
  <1>1. MarketInv => BackfillComplete
    <2> SUFFICES ASSUME MarketInv, NEW r \in Ranges, backfills[r] # None, backfills[r].status = "complete",
                        NEW k \in Bars, Exists(k), r[1] <= k, k < r[2], Closes(k) <= backfills[r].asked
                 PROVE  Archived(k)
      BY DEF BackfillComplete
    <2>1. /\ Done(r, backfills[r].next, backfills[r].asked, World) /\ r[2] <= backfills[r].next
          /\ backfills[r].next \in Int
      BY DEF MarketInv, BackfillsOK, EntryOK
    <2>2. k < backfills[r].next
      BY <2>1, BarFacts
    <2>3. Kept(k, World)
      BY <2>1, <2>2, TicksNow DEF Done
    <2>4. tangled = {}
      BY DEF MarketInv, StoreOK
    <2> QED BY <2>3, <2>4, KeptArchived DEF Tangled
  <1> QED BY <1>1, MarketInvariant, PTL

-----------------------------------------------------------------------------
(* The steps of a call run out *)

\* A call counts its attempts, and a backfill is at an instant of its range.
CallBound(c) ==
    /\ c.attempt \in 1..MaxAttempts /\ Staged(c)
    /\ c.pc \in CollectPcs => c.range = <<>>
    /\ c.pc \in BackfillPcs => c.range \in Ranges /\ c.range[1] < c.range[2]
    /\ c.pc \in InChunk => c.range[1] <= c.start /\ c.start < c.range[2]

EntryBound(r, entry) == entry # None => r[1] <= entry.next

StepsInv ==
    /\ \A p \in Procs : proc[p] # Idle => CallBound(proc[p])
    /\ \A r \in Ranges : EntryBound(r, backfills[r])

\* c is followed by n.
Closer(c, n) == StepsLeft(n) \in 0..StepsLeft(c) - 1

StepOK(c, n) == (n # Idle => CallBound(n)) /\ Closer(c, n)

\* A batch has files of at most Horizon + 1 dates.
LEMMA DaysCounted ==
    ASSUME NEW days \in SUBSET Dates
    PROVE  /\ IsFiniteSet(days) /\ Cardinality(days) \in 0..Horizon + 1
           /\ \A d \in days : Cardinality(days \ {d}) = Cardinality(days) - 1 /\ Cardinality(days) >= 1
  <1> DEFINE m == BarLen * BarsPerDay
             all == 0..Horizon
             n == Cardinality(days)
  <1>1. m \in Nat /\ m > 0 /\ Horizon \in Nat
    BY MarketAssumption DEF MarketAssumption
  <1>2. \A k \in Nat : k \div m \in 0..k
    <2> HIDE DEF m
    <2> QED BY <1>1
  <1>3. \A k \in Bars : k \in Nat /\ k <= Horizon /\ Day(k) = k \div m
    BY BarFacts DEF Day
  <1>4. \A k \in Bars : Day(k) \in all
    <2> HIDE DEF m
    <2> QED BY <1>1, <1>2, <1>3
  <1>5. days \subseteq all
    BY <1>4 DEF Dates
  <1>6. IsFiniteSet(all) /\ Cardinality(all) = Horizon + 1
    BY <1>1, FS_Interval
  <1>7. IsFiniteSet(days) /\ n <= Horizon + 1
    <2> HIDE DEF all
    <2> QED BY <1>5, <1>6, FS_Subset
  <1>8. n \in Nat
    BY <1>7, FS_CardinalityType
  <1>9. n \in 0..Horizon + 1
    <2> HIDE DEF n
    <2> QED BY <1>1, <1>7, <1>8
  <1>10. ASSUME NEW d \in days PROVE Cardinality(days \ {d}) = n - 1 /\ n >= 1
    <2>1. Cardinality(days \ {d}) = n - 1
      BY <1>7, FS_RemoveElement
    <2>2. n # 0
      BY <1>7, FS_EmptySet
    <2> HIDE DEF n
    <2> QED BY <1>8, <2>1, <2>2
  <1> QED BY <1>7, <1>9, <1>10

\* The steps that are left to the files of a batch.
LEMMA FileStepsFacts ==
    ASSUME NEW c \in CallRecord, Staged(c)
    PROVE  /\ FilesAllSteps \in Nat /\ FilesAllSteps = 4 * (Horizon + 1) /\ FileSteps(c) \in 0..FilesAllSteps
           /\ c.file = "none" => FileSteps(c) = 4 * Cardinality(c.days)
           /\ c.file = "open" => FileSteps(c) = 4 * Cardinality(c.days) - 1
           /\ c.file = "filled" => FileSteps(c) = 4 * Cardinality(c.days) - 2
           /\ c.file = "checked" => FileSteps(c) = 4 * Cardinality(c.days) - 3
  <1> DEFINE n == Cardinality(c.days)
             h == Horizon
             s == FileSteps(c)
  <1>1. h \in Nat
    BY MarketAssumption DEF MarketAssumption
  <1>2. c.days \in SUBSET Dates /\ c.file \in {"none", "open", "filled", "checked"}
    BY DEF CallRecord
  <1>3. n \in 0..h + 1
    BY <1>2, DaysCounted
  <1>4. c.file # "none" => n >= 1
    <2>1. ASSUME c.file # "none" PROVE \E d \in c.days : TRUE
      BY <2>1 DEF Staged
    <2> QED BY <1>2, <2>1, DaysCounted
  <1>5. /\ c.file = "none" => s = 4 * n - 0
        /\ c.file = "open" => s = 4 * n - 1
        /\ c.file = "filled" => s = 4 * n - 2
        /\ c.file = "checked" => s = 4 * n - 3
    BY DEF FileSteps
  <1>6. FilesAllSteps = 4 * h + 4
    BY DEF FilesAllSteps
  <1> HIDE DEF n, h, s
  <1>7. FilesAllSteps \in Nat /\ FilesAllSteps = 4 * (h + 1) /\ s \in 0..FilesAllSteps
        /\ (c.file = "none" => s = 4 * n)
    BY <1>1, <1>2, <1>3, <1>4, <1>5, <1>6
  <1> QED BY <1>5, <1>7 DEF n, h, s

\* A file takes its four steps.
LEMMA FileStepsDown ==
    ASSUME NEW c \in CallRecord, NEW n \in CallRecord, Staged(c), Staged(n),
           \/ /\ n.days = c.days
              /\ <<c.file, n.file>> \in {<<"none", "open">>, <<"open", "filled">>, <<"filled", "checked">>}
           \/ /\ c.file = "checked" /\ n.file = "none"
              /\ \E d \in c.days : n.days = c.days \ {d}
    PROVE  FileSteps(n) = FileSteps(c) - 1
  <1> DEFINE k == Cardinality(c.days)
             l == Cardinality(n.days)
             s == FileSteps(c)
             t == FileSteps(n)
  <1>1. c.days \in SUBSET Dates
    BY DEF CallRecord
  <1>2. k \in Nat
    BY <1>1, DaysCounted, BarFacts
  <1>3. CASE c.file = "checked"
    <2>1. l = k - 1
      BY <1>1, <1>3, DaysCounted
    <2>2. n.file = "none"
      BY <1>3
    <2>3. s = 4 * k - 3 /\ t = 4 * l
      BY <1>3, <2>2, FileStepsFacts
    <2> HIDE DEF k, l, s, t
    <2>4. t = s - 1
      BY <1>2, <2>1, <2>3
    <2> QED BY <2>4 DEF s, t
  <1>4. CASE c.file # "checked"
    <2>1. k = l
      BY <1>4
    <2>2. \/ s = 4 * k /\ t = 4 * l - 1
          \/ s = 4 * k - 1 /\ t = 4 * l - 2
          \/ s = 4 * k - 2 /\ t = 4 * l - 3
      BY <1>4, FileStepsFacts
    <2> HIDE DEF k, l, s, t
    <2>3. t = s - 1
      BY <1>2, <2>1, <2>2
    <2> QED BY <2>3 DEF s, t
  <1> QED BY <1>3, <1>4

\* Each chunk takes its steps with it.
LEMMA ChunkFewer ==
    ASSUME NEW i \in Nat, NEW j \in Nat
    PROVE  /\ ChunkSteps \in Nat /\ ChunkSteps * i \in Nat
           /\ i < j => ChunkSteps * i + ChunkSteps <= ChunkSteps * j
  <1> DEFINE K == ChunkSteps
  <1>1. K \in Nat
    <2>1. MaxAttempts \in Nat /\ Horizon \in Nat
      BY MarketAssumption DEF MarketAssumption
    <2>2. 4 * Horizon + 4 \in Nat
      BY <2>1
    <2>3. ChunkSteps = MaxAttempts + (4 * Horizon + 4) + 4
      BY DEF ChunkSteps, FilesAllSteps
    <2> QED BY <2>1, <2>2, <2>3
  <1> HIDE DEF K
  <1>2. K * i \in Nat
    BY <1>1
  <1>3. ASSUME i < j PROVE K * i + K <= K * j
    <2>1. K * (j - i - 1) >= 0
      BY <1>1, <1>3
    <2>2. K * (j - i - 1) = K * j - K * i - K
      BY <1>1
    <2> QED BY <1>1, <2>1, <2>2
  <1> QED BY <1>1, <1>2, <1>3 DEF K

\* The steps that are left to a collection.
LEMMA CollectRank ==
    ASSUME NEW c \in CallRecord, c.pc \in CollectPcs, CallBound(c)
    PROVE  /\ MaxAttempts \in Nat /\ FilesAllSteps \in Nat /\ Tries(c) \in 1..MaxAttempts
           /\ FileSteps(c) \in 0..FilesAllSteps
           /\ c.pc = "resolve" => StepsLeft(c) = FilesAllSteps + 3 + 3 * MaxAttempts + 1 + Tries(c)
           /\ c.pc = "ticks" => StepsLeft(c) = FilesAllSteps + 3 + 2 * MaxAttempts + 1 + Tries(c)
           /\ c.pc = "last_tick" => StepsLeft(c) = FilesAllSteps + 3 + MaxAttempts + 1 + Tries(c)
           /\ c.pc = "bar_cursor" => StepsLeft(c) = FilesAllSteps + 3 + MaxAttempts + 1
           /\ c.pc = "bars" => StepsLeft(c) = FilesAllSteps + 3 + Tries(c)
           /\ c.pc = "write_ticks" => StepsLeft(c) = FileSteps(c) + 3
           /\ c.pc = "write_bars" => StepsLeft(c) = FileSteps(c) + 2
           /\ c.pc = "heartbeat" => StepsLeft(c) = 1
           /\ StepsLeft(c) \in Nat /\ StepsLeft(c) >= 1
  <1>0. FilesAllSteps \in Nat /\ FileSteps(c) \in 0..FilesAllSteps
    BY FileStepsFacts DEF CallBound
  <1>1. MaxAttempts \in Nat /\ FilesAllSteps \in Nat /\ c.attempt \in 1..MaxAttempts /\ c.range = <<>>
    BY <1>0, MarketAssumption DEF MarketAssumption, CallBound
  <1>2. Tries(c) \in 1..MaxAttempts
    BY <1>1 DEF Tries
  <1>3. c # Idle
    BY DEF CollectPcs, Idle
  <1>4. StepsLeft(c) = CollectSteps(c)
    BY <1>1, <1>3 DEF StepsLeft
  <1>5. /\ c.pc = "resolve" => StepsLeft(c) = FilesAllSteps + 3 + 3 * MaxAttempts + 1 + Tries(c)
        /\ c.pc = "ticks" => StepsLeft(c) = FilesAllSteps + 3 + 2 * MaxAttempts + 1 + Tries(c)
        /\ c.pc = "last_tick" => StepsLeft(c) = FilesAllSteps + 3 + MaxAttempts + 1 + Tries(c)
        /\ c.pc = "bar_cursor" => StepsLeft(c) = FilesAllSteps + 3 + MaxAttempts + 1
        /\ c.pc = "bars" => StepsLeft(c) = FilesAllSteps + 3 + Tries(c)
        /\ c.pc = "write_ticks" => StepsLeft(c) = FileSteps(c) + 3
        /\ c.pc = "write_bars" => StepsLeft(c) = FileSteps(c) + 2
        /\ c.pc = "heartbeat" => StepsLeft(c) = 1
    BY <1>4 DEF CollectSteps
  <1>6. FileSteps(c) \in Nat
    BY <1>0
  <1> DEFINE s == StepsLeft(c)
             t == Tries(c)
             n == FileSteps(c)
  <1>7. s \in {FilesAllSteps + 3 + 3 * MaxAttempts + 1 + t, FilesAllSteps + 3 + 2 * MaxAttempts + 1 + t,
               FilesAllSteps + 3 + MaxAttempts + 1 + t, FilesAllSteps + 3 + MaxAttempts + 1, FilesAllSteps + 3 + t,
               n + 3, n + 2, 1}
    BY <1>5 DEF CollectPcs
  <1>8. t \in 1..MaxAttempts /\ n \in Nat
    BY <1>2, <1>6
  <1> HIDE DEF s, t, n
  <1>9. s \in Nat /\ s >= 1
    BY <1>1, <1>7, <1>8
  <1> QED BY <1>0, <1>1, <1>2, <1>5, <1>9 DEF s

\* The steps that are left to a backfill.
LEMMA BackfillRank ==
    ASSUME NEW c \in CallRecord, c.pc \in BackfillPcs, CallBound(c)
    PROVE  /\ MaxAttempts \in Nat /\ FilesAllSteps \in Nat /\ Tries(c) \in 1..MaxAttempts
           /\ FileSteps(c) \in 0..FilesAllSteps
           /\ c.pc = "bf_resolve" => StepsLeft(c) = ChunkSteps * (c.range[2] - c.range[1]) + Tries(c)
           /\ c.pc = "bf_bars" => StepsLeft(c) = ChunksAfter(c) + FilesAllSteps + 3 + Tries(c)
           /\ c.pc = "bf_write" => StepsLeft(c) = ChunksAfter(c) + FileSteps(c) + 3
           /\ c.pc = "bf_state" => StepsLeft(c) = ChunksAfter(c) + 2
           /\ c.pc = "bf_failed" => StepsLeft(c) = 1
           /\ c.pc \in InChunk => ChunksAfter(c) \in Nat
           /\ StepsLeft(c) \in Nat /\ StepsLeft(c) >= 1
           /\ c.pc \in InChunk /\ c.pc # "bf_failed" => StepsLeft(c) >= 2
  <1>0. FilesAllSteps \in Nat /\ FileSteps(c) \in 0..FilesAllSteps
    BY FileStepsFacts DEF CallBound
  <1>1. MaxAttempts \in Nat /\ FilesAllSteps \in Nat /\ c.attempt \in 1..MaxAttempts
    BY <1>0, MarketAssumption DEF MarketAssumption, CallBound
  <1>2. Tries(c) \in 1..MaxAttempts
    BY <1>1 DEF Tries
  <1>3. c # Idle /\ c.range # <<>>
    <2>1. Ranges \subseteq (0..Horizon) \X (0..Horizon)
      BY MarketAssumption DEF MarketAssumption
    <2>2. <<>> \notin Ranges
      BY <2>1
    <2>3. c # Idle
      BY DEF BackfillPcs, Idle
    <2>4. c.range \in Ranges
      BY DEF CallBound
    <2> QED BY <2>2, <2>3, <2>4
  <1>4. StepsLeft(c) = BackfillSteps(c)
    BY <1>3 DEF StepsLeft
  <1>5. /\ c.pc = "bf_resolve" => StepsLeft(c) = ChunkSteps * (c.range[2] - c.range[1]) + Tries(c)
        /\ c.pc = "bf_bars" => StepsLeft(c) = ChunksAfter(c) + FilesAllSteps + 3 + Tries(c)
        /\ c.pc = "bf_write" => StepsLeft(c) = ChunksAfter(c) + FileSteps(c) + 3
        /\ c.pc = "bf_state" => StepsLeft(c) = ChunksAfter(c) + 2
        /\ c.pc = "bf_failed" => StepsLeft(c) = 1
    BY <1>4 DEF BackfillSteps
  <1>6. FileSteps(c) \in Nat
    BY <1>0
  <1>7. c.range \in Ranges /\ c.range[1] \in Nat /\ c.range[2] \in Nat /\ c.range[1] < c.range[2]
    BY BarFacts DEF CallBound
  <1>8. ASSUME c.pc \in InChunk PROVE ChunksAfter(c) \in Nat
    <2>1. c.start \in Int /\ c.start < c.range[2]
      BY <1>8 DEF CallBound, CallRecord
    <2>2. c.range[2] - c.start - 1 \in Nat
      BY <1>7, <2>1
    <2> QED BY <2>2, ChunkFewer DEF ChunksAfter
  <1>9. ChunkSteps * (c.range[2] - c.range[1]) \in Nat
    <2>1. c.range[2] - c.range[1] \in Nat
      BY <1>7
    <2> QED BY <2>1, ChunkFewer
  <1> DEFINE s == StepsLeft(c)
             t == Tries(c)
             n == FileSteps(c)
             x == ChunksAfter(c)
             y == ChunkSteps * (c.range[2] - c.range[1])
  <1>10. t \in 1..MaxAttempts /\ n \in Nat /\ y \in Nat /\ (c.pc \in InChunk => x \in Nat)
    BY <1>2, <1>6, <1>8, <1>9
  <1>11. /\ c.pc \notin InChunk => s = y + t
         /\ c.pc \in InChunk /\ c.pc # "bf_failed" => s \in {x + FilesAllSteps + 3 + t, x + n + 3, x + 2}
         /\ c.pc = "bf_failed" => s = 1
    BY <1>5 DEF BackfillPcs, InChunk
  <1> HIDE DEF s, t, n, x, y
  <1>12. /\ s \in Nat /\ s >= 1 /\ (c.pc \in InChunk /\ c.pc # "bf_failed" => s >= 2)
    BY <1>1, <1>10, <1>11
  <1> QED BY <1>0, <1>1, <1>2, <1>5, <1>8, <1>12 DEF s

\* A call stops.
LEMMA StopCloser ==
    ASSUME NEW c \in CallRecord, CallBound(c), c.pc \in CollectPcs \cup BackfillPcs
    PROVE  StepOK(c, Idle)
  <1>1. StepsLeft(c) \in Nat /\ StepsLeft(c) >= 1
    BY CollectRank, BackfillRank
  <1>2. StepsLeft(Idle) = 0
    BY DEF StepsLeft
  <1>3. 0 \in 0..StepsLeft(c) - 1
    BY <1>1
  <1> QED BY <1>2, <1>3 DEF StepOK, Closer

\* A collection goes on to its next place.
LEMMA CollectCloser ==
    ASSUME NEW c \in CallRecord, CallBound(c), c.pc \in CollectPcs, NEW n \in CallRecord, Staged(n),
           n.range = c.range, n.attempt \in {1, c.attempt},
           <<c.pc, n.pc>> \in {<<"resolve", "ticks">>, <<"resolve", "heartbeat">>,
             <<"ticks", "last_tick">>, <<"last_tick", "bar_cursor">>, <<"bar_cursor", "bars">>,
             <<"bars", "write_ticks">>, <<"write_bars", "heartbeat">>}
           \/ (c.pc = "write_ticks" /\ n.pc = "write_bars" /\ n.days = c.days /\ n.file = c.file)
    PROVE  StepOK(c, n)
  <1>1. n.pc \in CollectPcs /\ n.pc \notin BackfillPcs
    BY DEF CollectPcs, BackfillPcs
  <1>2. CallBound(n)
    <2>1. n.attempt \in 1..MaxAttempts
      BY MarketAssumption DEF MarketAssumption, CallBound
    <2> QED BY <1>1, <2>1 DEF CallBound, InChunk
  <1> DEFINE s == StepsLeft(c)
             r == StepsLeft(n)
             t == Tries(c)
             u == Tries(n)
             k == FileSteps(c)
             l == FileSteps(n)
  <1>3. k \in 0..FilesAllSteps /\ l \in 0..FilesAllSteps
    BY <1>1, <1>2, CollectRank
  <1>4. /\ MaxAttempts \in Nat /\ FilesAllSteps \in Nat /\ t \in 1..MaxAttempts /\ u \in 1..MaxAttempts
    BY <1>1, <1>2, CollectRank
  <1>5. \/ s = FilesAllSteps + 3 + 3 * MaxAttempts + 1 + t /\ r \in {FilesAllSteps + 3 + 2 * MaxAttempts + 1 + u, 1}
        \/ s = FilesAllSteps + 3 + 2 * MaxAttempts + 1 + t /\ r = FilesAllSteps + 3 + MaxAttempts + 1 + u
        \/ s = FilesAllSteps + 3 + MaxAttempts + 1 + t /\ r = FilesAllSteps + 3 + MaxAttempts + 1
        \/ s = FilesAllSteps + 3 + MaxAttempts + 1 /\ r = FilesAllSteps + 3 + u
        \/ s = FilesAllSteps + 3 + t /\ r = l + 3
        \/ s = k + 2 /\ r = 1
        \/ s = k + 3 /\ r = k + 2
    <2>1. CASE c.pc = "resolve" /\ n.pc = "ticks"
      BY <1>1, <1>2, <2>1, CollectRank
    <2>2. CASE c.pc = "resolve" /\ n.pc = "heartbeat"
      BY <1>1, <1>2, <2>2, CollectRank
    <2>3. CASE c.pc = "ticks" /\ n.pc = "last_tick"
      BY <1>1, <1>2, <2>3, CollectRank
    <2>4. CASE c.pc = "last_tick" /\ n.pc = "bar_cursor"
      BY <1>1, <1>2, <2>4, CollectRank
    <2>5. CASE c.pc = "bar_cursor" /\ n.pc = "bars"
      BY <1>1, <1>2, <2>5, CollectRank
    <2>6. CASE c.pc = "bars" /\ n.pc = "write_ticks"
      BY <1>1, <1>2, <2>6, CollectRank
    <2>7. CASE c.pc = "write_bars" /\ n.pc = "heartbeat"
      BY <1>1, <1>2, <2>7, CollectRank
    <2>8. CASE c.pc = "write_ticks" /\ n.pc = "write_bars" /\ n.days = c.days /\ n.file = c.file
      <3>1. FileSteps(n) = FileSteps(c)
        BY <2>8 DEF FileSteps
      <3> QED BY <1>1, <1>2, <2>8, <3>1, CollectRank
    <2> QED BY <2>1, <2>2, <2>3, <2>4, <2>5, <2>6, <2>7, <2>8
  <1> HIDE DEF s, r, t, u, k, l
  <1>6. r \in 0..s - 1
    BY <1>3, <1>4, <1>5
  <1> QED BY <1>2, <1>6 DEF StepOK, Closer, s, r

\* An attempt fails, or a file takes a step.
LEMMA SamePlaceCloser ==
    ASSUME NEW c \in CallRecord, CallBound(c), NEW n \in CallRecord, Staged(n),
           n.pc = c.pc, n.range = c.range, n.start = c.start,
           \/ /\ c.pc \in Asking /\ c.attempt < MaxAttempts /\ n.attempt = c.attempt + 1
           \/ /\ c.pc \in {"write_bars", "bf_write"} /\ n.attempt = c.attempt
              /\ FileSteps(n) = FileSteps(c) - 1
    PROVE  StepOK(c, n)
  <1>1. c.attempt \in 1..MaxAttempts /\ MaxAttempts \in Nat
    BY MarketAssumption DEF MarketAssumption, CallBound
  <1>2. CallBound(n)
    <2>1. n.attempt \in 1..MaxAttempts
      BY <1>1
    <2> QED BY <2>1 DEF CallBound
  <1>3. c.pc \in CollectPcs \cup BackfillPcs
    BY DEF CallRecord
  <1>4. StepsLeft(n) \in Nat
    BY <1>2, <1>3, CollectRank, BackfillRank
  <1>5. StepsLeft(n) = StepsLeft(c) - 1
    <2>1. CASE c.pc \in Asking /\ n.attempt = c.attempt + 1
      <3>1. Tries(n) = Tries(c) - 1
        BY <1>1, <2>1 DEF Tries
      <3>2. CASE c.pc \in {"resolve", "ticks", "last_tick", "bars"}
        <4> DEFINE base == IF c.pc = "resolve" THEN FilesAllSteps + 3 + 3 * MaxAttempts + 1
                           ELSE IF c.pc = "ticks" THEN FilesAllSteps + 3 + 2 * MaxAttempts + 1
                           ELSE IF c.pc = "last_tick" THEN FilesAllSteps + 3 + MaxAttempts + 1 ELSE FilesAllSteps + 3
        <4>1. StepsLeft(c) = base + Tries(c) /\ StepsLeft(n) = base + Tries(n)
          BY <1>2, <3>2, CollectRank DEF CollectPcs
        <4>2. FilesAllSteps \in Nat /\ Tries(c) \in 1..MaxAttempts
          BY <3>2, CollectRank DEF CollectPcs
        <4>3. base \in Nat
          BY <1>1, <4>2
        <4> HIDE DEF base
        <4> QED BY <3>1, <4>1, <4>2, <4>3
      <3>3. CASE c.pc = "bf_resolve"
        <4> DEFINE base == ChunkSteps * (c.range[2] - c.range[1])
        <4>1. StepsLeft(c) = base + Tries(c) /\ StepsLeft(n) = base + Tries(n)
          BY <1>2, <3>3, BackfillRank DEF BackfillPcs
        <4>2. base \in Nat
          <5>1. c.range[2] - c.range[1] \in Nat
            BY <3>3, BarFacts DEF CallBound, BackfillPcs
          <5> QED BY <5>1, ChunkFewer
        <4>3. Tries(c) \in 1..MaxAttempts
          BY <3>3, BackfillRank DEF BackfillPcs
        <4> HIDE DEF base
        <4> QED BY <1>1, <3>1, <4>1, <4>2, <4>3
      <3>4. CASE c.pc = "bf_bars"
        <4> DEFINE base == ChunksAfter(c)
        <4>1. ChunksAfter(n) = ChunksAfter(c)
          BY DEF ChunksAfter
        <4>2. StepsLeft(c) = base + FilesAllSteps + 3 + Tries(c) /\ StepsLeft(n) = base + FilesAllSteps + 3 + Tries(n)
          BY <1>2, <3>4, <4>1, BackfillRank DEF BackfillPcs
        <4>3. base \in Nat /\ FilesAllSteps \in Nat /\ Tries(c) \in 1..MaxAttempts
          BY <3>4, BackfillRank DEF BackfillPcs, InChunk
        <4> HIDE DEF base
        <4> QED BY <1>1, <3>1, <4>2, <4>3
      <3> QED BY <2>1, <3>2, <3>3, <3>4 DEF Asking
    <2>2. CASE c.pc \in {"write_bars", "bf_write"} /\ FileSteps(n) = FileSteps(c) - 1
      <3> DEFINE k == FileSteps(c)
                 l == FileSteps(n)
      <3>1. k \in 0..FilesAllSteps /\ FilesAllSteps \in Nat
        BY FileStepsFacts DEF CallBound
      <3>2. l = k - 1
        BY <2>2
      <3>3. k \in Nat
        BY <3>1
      <3>4. CASE c.pc = "write_bars"
        <4>1. StepsLeft(c) = k + 2 /\ StepsLeft(n) = l + 2
          BY <1>2, <3>4, CollectRank DEF CollectPcs
        <4> HIDE DEF k, l
        <4> QED BY <3>2, <3>3, <4>1
      <3>5. CASE c.pc = "bf_write"
        <4> DEFINE base == ChunksAfter(c)
        <4>1. ChunksAfter(n) = ChunksAfter(c)
          BY DEF ChunksAfter
        <4>2. StepsLeft(c) = base + k + 3 /\ StepsLeft(n) = base + l + 3
          BY <1>2, <3>5, <4>1, BackfillRank DEF BackfillPcs
        <4>3. base \in Nat
          BY <3>5, BackfillRank DEF BackfillPcs, InChunk
        <4> HIDE DEF base, k, l
        <4> QED BY <3>2, <3>3, <4>2, <4>3
      <3> QED BY <2>2, <3>4, <3>5
    <2> QED BY <2>1, <2>2
  <1>6. StepsLeft(c) \in Nat
    BY <1>3, CollectRank, BackfillRank
  <1>7. StepsLeft(n) \in 0..StepsLeft(c) - 1
    BY <1>4, <1>5, <1>6
  <1> QED BY <1>2, <1>7 DEF StepOK, Closer

\* A backfill goes on within its chunk.
LEMMA ChunkCloser ==
    ASSUME NEW c \in CallRecord, CallBound(c), NEW n \in CallRecord, Staged(n),
           n.range = c.range, n.start = c.start, n.attempt \in {1, c.attempt},
           <<c.pc, n.pc>> \in {<<"bf_bars", "bf_write">>, <<"bf_bars", "bf_state">>,
             <<"bf_write", "bf_state">>, <<"bf_bars", "bf_failed">>, <<"bf_write", "bf_failed">>,
             <<"bf_state", "bf_failed">>}
    PROVE  StepOK(c, n)
  <1>1. c.pc \in InChunk /\ n.pc \in InChunk /\ c.pc # "bf_failed"
        /\ c.pc \in BackfillPcs /\ n.pc \in BackfillPcs /\ n.pc \notin CollectPcs
    BY DEF InChunk, BackfillPcs, CollectPcs
  <1>2. CallBound(n)
    <2>1. n.attempt \in 1..MaxAttempts
      BY MarketAssumption DEF MarketAssumption, CallBound
    <2> QED BY <1>1, <2>1 DEF CallBound
  <1>3. ChunksAfter(n) = ChunksAfter(c)
    BY DEF ChunksAfter
  <1> DEFINE s == StepsLeft(c)
             r == StepsLeft(n)
             t == Tries(c)
             k == FileSteps(c)
             l == FileSteps(n)
             x == ChunksAfter(c)
  <1>4. k \in 0..FilesAllSteps /\ l \in 0..FilesAllSteps
    BY <1>1, <1>2, BackfillRank
  <1>5. MaxAttempts \in Nat /\ FilesAllSteps \in Nat /\ t \in 1..MaxAttempts /\ x \in Nat /\ s \in Nat /\ s >= 2
    BY <1>1, BackfillRank
  <1>6. \/ s = x + FilesAllSteps + 3 + t /\ r \in {x + l + 3, x + 2}
        \/ s = x + k + 3 /\ r = x + 2
        \/ r = 1
    <2>1. CASE n.pc = "bf_failed"
      BY <1>1, <1>2, <2>1, BackfillRank
    <2>2. CASE c.pc = "bf_bars" /\ n.pc \in {"bf_write", "bf_state"}
      BY <1>1, <1>2, <1>3, <2>2, BackfillRank
    <2>3. CASE c.pc = "bf_write" /\ n.pc = "bf_state"
      BY <1>1, <1>2, <1>3, <2>3, BackfillRank
    <2> QED BY <2>1, <2>2, <2>3
  <1> HIDE DEF s, r, t, k, l, x
  <1>7. r \in 0..s - 1
    BY <1>4, <1>5, <1>6
  <1> QED BY <1>2, <1>7 DEF StepOK, Closer, s, r

\* The chunk that a backfill begins with, or goes on with.
LEMMA FromChunkSteps ==
    ASSUME NEW r \in Ranges, r[1] < r[2], NEW s \in Int, r[1] <= s, s < r[2], NEW asked \in Int
    PROVE  /\ FromChunk(r, s, asked) # Idle /\ CallBound(FromChunk(r, s, asked))
           /\ StepsLeft(FromChunk(r, s, asked)) = ChunkSteps * (r[2] - s - 1) + FilesAllSteps + 3 + MaxAttempts
  <1> DEFINE n == [NewCall("bf_bars") EXCEPT !.range = r, !.start = s, !.observed = asked]
  <1>1. /\ n \in CallRecord /\ n.pc = "bf_bars" /\ n.range = r /\ n.start = s /\ n.attempt = 1
        /\ n.file = "none"
    <2>1. /\ NewCall("bf_bars") \in CallRecord /\ NewCall("bf_bars").pc = "bf_bars"
          /\ NewCall("bf_bars").attempt = 1 /\ NewCall("bf_bars").file = "none"
      BY DEF NewCall, CallRecord, BackfillPcs, NoTime
    <2> QED BY <2>1 DEF CallRecord
  <1>2. FromChunk(r, s, asked) = n
    BY DEF FromChunk
  <1> HIDE DEF n
  <1>3. MaxAttempts \in Nat /\ MaxAttempts >= 1
    BY MarketAssumption DEF MarketAssumption
  <1>4. CallBound(n) /\ n.pc \in BackfillPcs /\ n # Idle
    <2>1. 1 \in 1..MaxAttempts
      BY <1>3
    <2> QED BY <1>1, <2>1 DEF CallBound, BackfillPcs, CollectPcs, InChunk, Idle, Staged
  <1>5. Tries(n) = MaxAttempts
    BY <1>1, <1>3 DEF Tries
  <1>6. StepsLeft(n) = ChunkSteps * (r[2] - s - 1) + FilesAllSteps + 3 + MaxAttempts
    BY <1>1, <1>4, <1>5, BackfillRank DEF ChunksAfter
  <1> QED BY <1>2, <1>4, <1>6

\* A backfill begins where its range was left, or a chunk is behind it.
LEMMA WindowCloser ==
    ASSUME NEW c \in CallRecord, CallBound(c), NEW s \in Int, NEW asked \in Int,
           \/ c.pc = "bf_resolve" /\ c.range[1] <= s
           \/ c.pc = "bf_state" /\ c.start < s
    PROVE  StepOK(c, FromChunk(c.range, s, asked))
  <1> DEFINE r == c.range
             n == FromChunk(r, s, asked)
  <1>1. c.pc \in BackfillPcs /\ r \in Ranges /\ r[1] \in Nat /\ r[2] \in Nat /\ r[1] < r[2]
    BY BarFacts DEF BackfillPcs, CallBound
  <1>2. CASE ~(s < r[2])
    <2>1. n = Idle
      BY <1>2 DEF FromChunk
    <2> QED BY <1>1, <2>1, StopCloser
  <1>3. CASE s < r[2]
    <2>1. r[1] <= s
      BY <1>1 DEF CallBound, InChunk, CallRecord, BackfillPcs
    <2> DEFINE new == ChunkSteps * (r[2] - s - 1)
               old == IF c.pc = "bf_resolve" THEN ChunkSteps * (r[2] - r[1]) ELSE ChunksAfter(c)
    <2>2. n # Idle /\ CallBound(n) /\ StepsLeft(n) = new + FilesAllSteps + 3 + MaxAttempts
      BY <1>1, <1>3, <2>1, FromChunkSteps
    <2>3. FilesAllSteps \in Nat /\ MaxAttempts \in Nat /\ Tries(c) \in 1..MaxAttempts
      BY <1>1, BackfillRank
    <2>4. /\ c.pc = "bf_resolve" => StepsLeft(c) = old + Tries(c)
          /\ c.pc = "bf_state" => StepsLeft(c) = old + 2
      BY <1>1, BackfillRank
    <2>5. new \in Nat /\ old \in Nat /\ new + ChunkSteps <= old
      <3> DEFINE i == r[2] - s - 1
                 j == IF c.pc = "bf_resolve" THEN r[2] - r[1] ELSE r[2] - c.start - 1
      <3>1. i \in Nat /\ j \in Nat /\ i < j
        <4>1. CASE c.pc = "bf_resolve"
          BY <1>1, <1>3, <4>1
        <4>2. CASE c.pc = "bf_state" /\ c.start < s
          <5>1. c.start \in Int
            BY DEF CallRecord
          <5> QED BY <1>1, <1>3, <4>2, <5>1
        <4> QED BY <4>1, <4>2
      <3>2. old = ChunkSteps * j
        BY DEF ChunksAfter
      <3> HIDE DEF i, j
      <3>3. ChunkSteps * i \in Nat /\ ChunkSteps * j \in Nat /\ ChunkSteps * i + ChunkSteps <= ChunkSteps * j
        BY <3>1, ChunkFewer
      <3> QED BY <3>2, <3>3 DEF i
    <2>6. ChunkSteps = MaxAttempts + FilesAllSteps + 4
      BY DEF ChunkSteps
    <2> DEFINE a == StepsLeft(c)
               b == StepsLeft(n)
    <2>7. a \in {old + Tries(c), old + 2} /\ b = new + FilesAllSteps + 3 + MaxAttempts
      BY <2>2, <2>4
    <2> HIDE DEF new, old, a, b, n
    <2>8. b \in 0..a - 1
      BY <2>3, <2>5, <2>6, <2>7
    <2> QED BY <2>2, <2>8 DEF StepOK, Closer, a, b, n
  <1> QED BY <1>2, <1>3

\* The window of a backfill moves.
LEMMA WindowMoves ==
    ASSUME MarketInv, StepsInv, NEW p \in Procs, proc[p].pc \in InChunk
    PROVE  /\ proc[p].start \in Int /\ ChunkEnd(p) \in Int /\ proc[p].start < ChunkEnd(p)
           /\ proc[p].range \in Ranges /\ proc[p].range[1] \in Nat /\ proc[p].range[1] <= proc[p].start
  <1> DEFINE c == proc[p]
             b == c.start + BarLen * Lookback
  <1>1. c.pc \in BackfillPcs
    BY DEF InChunk
  <1>2. c \in CallRecord /\ c # Idle /\ c.range \in Ranges /\ c.start \in Int /\ ChunkEnd(p) \in Int
    BY <1>1, BackfillCall
  <1>3. CallBound(c)
    BY <1>2 DEF StepsInv
  <1>4. c.range[1] <= c.start /\ c.start < c.range[2] /\ c.range[1] \in Nat /\ c.range[2] \in Nat
    BY <1>2, <1>3, BarFacts DEF CallBound
  <1>5. b \in Int /\ c.start < b
    <2>1. BarLen * Lookback \in Nat /\ BarLen * Lookback > 0
      BY MarketAssumption DEF MarketAssumption
    <2> QED BY <1>2, <2>1
  <1>6. ChunkEnd(p) \in {c.range[2], b}
    BY <1>4, <1>5, MinOfTwo DEF ChunkEnd, AdvanceWindow
  <1> HIDE DEF b
  <1> QED BY <1>2, <1>4, <1>5, <1>6

\* What a step makes of the call of its process.
LEMMA NextCall ==
    ASSUME MarketInv, MarketInv', NEW p \in Procs, NEW n, Goto(p, n)
    PROVE  /\ proc' = [proc EXCEPT ![p] = n] /\ n \in CallRecord \cup {Idle}
           /\ n # Idle => Staged(n)
  <1>1. proc' = [proc EXCEPT ![p] = n] /\ proc \in [Procs -> CallRecord \cup {Idle}]
    BY DEF Goto, MarketInv, MarketTypes
  <1>2. proc' \in [Procs -> CallRecord \cup {Idle}]
    BY DEF MarketInv, MarketTypes
  <1>3. proc'[p] = n
    BY <1>1
  <1>4. proc'[p] # Idle => Staged(proc'[p])
    BY DEF MarketInv, StoreOK
  <1> QED BY <1>1, <1>2, <1>3, <1>4

\* A collection takes a step.
LEMMA CollectMoves ==
    ASSUME MarketInv, MarketInv', StepsInv, NEW p \in Procs,
           ResolveSymbols(p) \/ Unresolved(p) \/ LoadTicks(p) \/ LoadLatestTick(p) \/ ReadBarCursor(p)
             \/ LoadBars(p) \/ WriteTicks(p) \/ CommitSymbol(p)
    PROVE  \E n : Goto(p, n) /\ proc[p] # Idle /\ StepOK(proc[p], n)
  <1> DEFINE c == proc[p]
  <1>1. c.pc \in CollectPcs
    BY DEF ResolveSymbols, Unresolved, LoadTicks, LoadLatestTick, ReadBarCursor, LoadBars, WriteTicks,
           CommitSymbol, CollectPcs
  <1>2. c \in CallRecord /\ c # Idle
    BY <1>1, ActiveCall
  <1>3. CallBound(c)
    BY <1>2 DEF StepsInv
  <1>4. ASSUME NEW n, Goto(p, n), n.pc # "idle", n.range = c.range, n.attempt \in {1, c.attempt},
               <<c.pc, n.pc>> \in {<<"resolve", "ticks">>, <<"resolve", "heartbeat">>,
                 <<"ticks", "last_tick">>, <<"last_tick", "bar_cursor">>, <<"bar_cursor", "bars">>,
                 <<"bars", "write_ticks">>, <<"write_bars", "heartbeat">>}
               \/ (c.pc = "write_ticks" /\ n.pc = "write_bars" /\ n.days = c.days /\ n.file = c.file)
        PROVE  StepOK(c, n)
    <2>1. n \in CallRecord /\ Staged(n)
      <3>1. n # Idle
        BY <1>4 DEF Idle
      <3> QED BY <1>4, <3>1, NextCall
    <2> HIDE DEF c
    <2> QED BY <1>1, <1>3, <1>2, <1>4, <2>1, CollectCloser
  <1>5. CASE ResolveSymbols(p)
    <2> DEFINE n == [c EXCEPT !.pc = "ticks", !.attempt = 1]
    <2>1. Goto(p, n) /\ c.pc = "resolve"
      BY <1>5 DEF ResolveSymbols
    <2>2. n.pc = "ticks" /\ n.range = c.range /\ n.attempt = 1
      BY <1>2 DEF CallRecord
    <2> HIDE DEF n, c
    <2> QED BY <1>2, <1>4, <2>1, <2>2 DEF c
  <1>6. CASE Unresolved(p)
    <2> DEFINE n == [c EXCEPT !.pc = "heartbeat", !.attempt = 1]
    <2>1. Goto(p, n) /\ c.pc = "resolve"
      BY <1>6 DEF Unresolved
    <2>2. n.pc = "heartbeat" /\ n.range = c.range /\ n.attempt = 1
      BY <1>2 DEF CallRecord
    <2> HIDE DEF n, c
    <2> QED BY <1>2, <1>4, <2>1, <2>2 DEF c
  <1>7. CASE LoadTicks(p)
    <2>1. PICK s : Goto(p, [c EXCEPT !.pc = "last_tick", !.attempt = 1, !.batch = ticks \cap s..c.observed])
      BY <1>7 DEF LoadTicks
    <2> DEFINE n == [c EXCEPT !.pc = "last_tick", !.attempt = 1, !.batch = ticks \cap s..c.observed]
    <2>2. c.pc = "ticks"
      BY <1>7 DEF LoadTicks
    <2>3. n.pc = "last_tick" /\ n.range = c.range /\ n.attempt = 1
      BY <1>2 DEF CallRecord
    <2>4. Goto(p, n)
      BY <2>1
    <2> HIDE DEF n, c
    <2> QED BY <1>2, <1>4, <2>2, <2>3, <2>4 DEF c
  <1>8. CASE LoadLatestTick(p)
    <2> DEFINE n == [c EXCEPT !.pc = "bar_cursor", !.attempt = 1, !.batch = NormalizeTickBatch(@, LatestTick)]
    <2>1. Goto(p, n) /\ c.pc = "last_tick"
      BY <1>8 DEF LoadLatestTick
    <2>2. n.pc = "bar_cursor" /\ n.range = c.range /\ n.attempt = 1
      BY <1>2 DEF CallRecord
    <2> HIDE DEF n, c
    <2> QED BY <1>2, <1>4, <2>1, <2>2 DEF c
  <1>9. CASE ReadBarCursor(p)
    <2>1. PICK s, f : Goto(p, [c EXCEPT !.pc = "bars", !.start = s, !.from = f])
      BY <1>9 DEF ReadBarCursor
    <2> DEFINE n == [c EXCEPT !.pc = "bars", !.start = s, !.from = f]
    <2>2. c.pc = "bar_cursor"
      BY <1>9 DEF ReadBarCursor
    <2>3. n.pc = "bars" /\ n.range = c.range /\ n.attempt = c.attempt
      BY <1>2 DEF CallRecord
    <2>4. Goto(p, n)
      BY <2>1
    <2> HIDE DEF n, c
    <2> QED BY <1>2, <1>4, <2>2, <2>3, <2>4 DEF c
  <1>10. CASE LoadBars(p)
    <2>1. PICK bars : Goto(p, [c EXCEPT !.pc = "write_ticks", !.attempt = 1, !.bars = bars, !.days = Days(bars)])
      BY <1>10 DEF LoadBars
    <2> DEFINE n == [c EXCEPT !.pc = "write_ticks", !.attempt = 1, !.bars = bars, !.days = Days(bars)]
    <2>2. c.pc = "bars"
      BY <1>10 DEF LoadBars
    <2>3. n.pc = "write_ticks" /\ n.range = c.range /\ n.attempt = 1
      BY <1>2 DEF CallRecord
    <2>4. Goto(p, n)
      BY <2>1
    <2> HIDE DEF n, c
    <2> QED BY <1>2, <1>4, <2>2, <2>3, <2>4 DEF c
  <1>11. CASE WriteTicks(p)
    <2> DEFINE n == [c EXCEPT !.pc = "write_bars"]
    <2>1. Goto(p, n) /\ c.pc = "write_ticks"
      BY <1>11 DEF WriteTicks
    <2>2. /\ n.pc = "write_bars" /\ n.range = c.range /\ n.attempt = c.attempt /\ n.days = c.days
          /\ n.file = c.file
      BY <1>2 DEF CallRecord
    <2> HIDE DEF n, c
    <2> QED BY <1>2, <1>4, <2>1, <2>2 DEF c
  <1>12. CASE CommitSymbol(p)
    <2> DEFINE n == [c EXCEPT !.pc = "heartbeat"]
    <2>1. Goto(p, n) /\ c.pc = "write_bars"
      BY <1>12 DEF CommitSymbol
    <2>2. n.pc = "heartbeat" /\ n.range = c.range /\ n.attempt = c.attempt
      BY <1>2 DEF CallRecord
    <2> HIDE DEF n, c
    <2> QED BY <1>2, <1>4, <2>1, <2>2 DEF c
  <1> QED BY <1>5, <1>6, <1>7, <1>8, <1>9, <1>10, <1>11, <1>12

\* An attempt fails.
LEMMA RetryMoves ==
    ASSUME MarketInv, MarketInv', StepsInv, NEW p \in Procs, Retry(p)
    PROVE  \E n : Goto(p, n) /\ proc[p] # Idle /\ StepOK(proc[p], n)
  <1> DEFINE c == proc[p]
             n == [c EXCEPT !.attempt = @ + 1]
  <1>1. Goto(p, n) /\ c.pc \in Asking /\ c.attempt < MaxAttempts /\ c.pc \in CollectPcs \cup BackfillPcs
    BY DEF Retry, Asking, CollectPcs, BackfillPcs
  <1>2. c \in CallRecord /\ c # Idle
    BY <1>1, ActiveCall
  <1>3. CallBound(c)
    BY <1>2 DEF StepsInv
  <1>4. n.pc = c.pc /\ n.range = c.range /\ n.start = c.start /\ n.attempt = c.attempt + 1 /\ n # Idle
    BY <1>1, <1>2 DEF CallRecord, CollectPcs, BackfillPcs, Idle
  <1> HIDE DEF n
  <1>5. n \in CallRecord /\ Staged(n)
    BY <1>1, <1>4, NextCall
  <1> HIDE DEF c
  <1>6. StepOK(c, n)
    BY <1>1, <1>2, <1>3, <1>4, <1>5, SamePlaceCloser
  <1> QED BY <1>1, <1>2, <1>6 DEF c

\* A file takes a step.
LEMMA FileMoves ==
    ASSUME MarketInv, MarketInv', StepsInv, NEW p \in Procs,
           OpenTemp(p) \/ FillTemp(p) \/ ValidateTemp(p) \/ ReplaceFile(p)
    PROVE  \E n : Goto(p, n) /\ proc[p] # Idle /\ StepOK(proc[p], n)
  <1> DEFINE c == proc[p]
  <1>1. Writing(p)
    BY DEF OpenTemp, FillTemp, ValidateTemp, ReplaceFile
  <1>2. c \in CallRecord /\ c # Idle /\ Staged(c) /\ c.pc \in {"write_bars", "bf_write"} /\ c.days # {}
    BY <1>1, AtWork
  <1>3. CallBound(c)
    BY <1>2 DEF StepsInv
  <1>4. ASSUME NEW n, Goto(p, n), n.pc = c.pc, n.range = c.range, n.start = c.start, n.attempt = c.attempt,
               \/ /\ n.days = c.days
                  /\ <<c.file, n.file>> \in {<<"none", "open">>, <<"open", "filled">>, <<"filled", "checked">>}
               \/ /\ c.file = "checked" /\ n.file = "none"
                  /\ \E d \in c.days : n.days = c.days \ {d}
        PROVE  \E m : Goto(p, m) /\ c # Idle /\ StepOK(c, m)
    <2>1. n # Idle
      BY <1>2, <1>4 DEF Idle
    <2>2. n \in CallRecord /\ Staged(n)
      BY <1>4, <2>1, NextCall
    <2> HIDE DEF c
    <2>3. FileSteps(n) = FileSteps(c) - 1
      BY <1>2, <1>4, <2>2, FileStepsDown
    <2>4. StepOK(c, n)
      BY <1>2, <1>3, <1>4, <2>2, <2>3, SamePlaceCloser
    <2> QED BY <1>2, <1>4, <2>4
  <1>5. ASSUME NEW to, <<c.file, to>> \in {<<"none", "open">>, <<"open", "filled">>, <<"filled", "checked">>},
               Goto(p, [c EXCEPT !.file = to])
        PROVE  \E m : Goto(p, m) /\ c # Idle /\ StepOK(c, m)
    <2> DEFINE n == [c EXCEPT !.file = to]
    <2>1. /\ n.pc = c.pc /\ n.range = c.range /\ n.start = c.start /\ n.attempt = c.attempt
          /\ n.days = c.days /\ n.file = to /\ Goto(p, n)
      BY <1>2, <1>5 DEF CallRecord
    <2> HIDE DEF n, c
    <2> QED BY <1>4, <1>5, <2>1
  <1>6. CASE OpenTemp(p)
    <2>1. c.file = "none" /\ Goto(p, [c EXCEPT !.file = "open"])
      BY <1>6 DEF OpenTemp
    <2> HIDE DEF c
    <2>2. \E m : Goto(p, m) /\ c # Idle /\ StepOK(c, m)
      BY <1>5, <2>1
    <2> QED BY <2>2 DEF c
  <1>7. CASE FillTemp(p)
    <2>1. c.file = "open" /\ Goto(p, [c EXCEPT !.file = "filled"])
      BY <1>7 DEF FillTemp
    <2> HIDE DEF c
    <2>2. \E m : Goto(p, m) /\ c # Idle /\ StepOK(c, m)
      BY <1>5, <2>1
    <2> QED BY <2>2 DEF c
  <1>8. CASE ValidateTemp(p)
    <2>1. c.file = "filled" /\ Goto(p, [c EXCEPT !.file = "checked"])
      BY <1>8 DEF ValidateTemp
    <2> HIDE DEF c
    <2>2. \E m : Goto(p, m) /\ c # Idle /\ StepOK(c, m)
      BY <1>5, <2>1
    <2> QED BY <2>2 DEF c
  <1>9. CASE ReplaceFile(p)
    <2> DEFINE d == Min(c.days)
               n == [c EXCEPT !.file = "none", !.days = c.days \ {d}]
    <2>1. Goto(p, n) /\ c.file = "checked"
      BY <1>9 DEF ReplaceFile
    <2>2. d \in c.days
      <3>1. c.days \subseteq Dates
        BY <1>2 DEF CallRecord
      <3> QED BY <1>2, <3>1, FirstDate
    <2>3. /\ n.pc = c.pc /\ n.range = c.range /\ n.start = c.start /\ n.attempt = c.attempt
          /\ n.days = c.days \ {d} /\ n.file = "none"
      BY <1>2 DEF CallRecord
    <2> HIDE DEF n, c, d
    <2>4. \E m : Goto(p, m) /\ c # Idle /\ StepOK(c, m)
      BY <1>4, <2>1, <2>2, <2>3
    <2> QED BY <2>4 DEF c
  <1> QED BY <1>6, <1>7, <1>8, <1>9

\* An attempt fails, or a file takes a step.
LEMMA SamePlaceMoves ==
    ASSUME MarketInv, MarketInv', StepsInv, NEW p \in Procs,
           Retry(p) \/ OpenTemp(p) \/ FillTemp(p) \/ ValidateTemp(p) \/ ReplaceFile(p)
    PROVE  \E n : Goto(p, n) /\ proc[p] # Idle /\ StepOK(proc[p], n)
  BY RetryMoves, FileMoves

\* A call stops, at its end or before.
LEMMA StopMoves ==
    ASSUME MarketInv, StepsInv, NEW p \in Procs, proc[p] # Idle, Goto(p, Idle)
    PROVE  \E n : Goto(p, n) /\ proc[p] # Idle /\ StepOK(proc[p], n)
  <1>1. proc[p] \in CallRecord /\ proc[p].pc \in CollectPcs \cup BackfillPcs
    BY DEF MarketInv, MarketTypes, CallRecord
  <1>2. CallBound(proc[p])
    BY DEF StepsInv
  <1> QED BY <1>1, <1>2, StopCloser

\* A backfill takes a step.
LEMMA BackfillMoves ==
    ASSUME MarketInv, MarketInv', StepsInv, NEW p \in Procs,
           ReadBackfillState(p) \/ LoadChunk(p) \/ CommitBars(p) \/ SaveChunk(p) \/ BackfillRaises(p)
    PROVE  \E n : Goto(p, n) /\ proc[p] # Idle /\ StepOK(proc[p], n)
  <1> DEFINE c == proc[p]
  <1>1. c.pc \in BackfillPcs
    BY DEF ReadBackfillState, LoadChunk, CommitBars, SaveChunk, BackfillRaises, BackfillPcs
  <1>2. c \in CallRecord /\ c # Idle /\ c.range \in Ranges
    BY <1>1, BackfillCall
  <1>3. CallBound(c)
    BY <1>2 DEF StepsInv
  <1>4. ASSUME NEW n, Goto(p, n), n.range = c.range, n.start = c.start, n.attempt \in {1, c.attempt},
               <<c.pc, n.pc>> \in {<<"bf_bars", "bf_write">>, <<"bf_bars", "bf_state">>,
                 <<"bf_write", "bf_state">>, <<"bf_bars", "bf_failed">>, <<"bf_write", "bf_failed">>,
                 <<"bf_state", "bf_failed">>}
        PROVE  StepOK(c, n)
    <2>1. n \in CallRecord /\ Staged(n)
      <3>1. n # Idle
        BY <1>4 DEF Idle
      <3> QED BY <1>4, <3>1, NextCall
    <2> HIDE DEF c
    <2> QED BY <1>3, <1>2, <1>4, <2>1, ChunkCloser
  <1>5. CASE ReadBackfillState(p)
    <2> DEFINE s == NextStart(c.range)
               a == FirstAsked(p)
    <2>1. Goto(p, FromChunk(c.range, s, a)) /\ c.pc = "bf_resolve"
      BY <1>5 DEF ReadBackfillState
    <2>4. a \in Int
      <3>1. CASE backfills[c.range] = None
        BY <1>2, <3>1 DEF FirstAsked, CallRecord
      <3>2. CASE backfills[c.range] # None
        <4>1. backfills[c.range].asked \in Int
          BY <1>2, <3>2 DEF MarketInv, BackfillsOK, EntryOK
        <4> QED BY <3>2, <4>1 DEF FirstAsked
      <3> QED BY <3>1, <3>2
    <2>2. s \in Int /\ c.range[1] <= s
      <3>1. CASE backfills[c.range] = None
        <4>1. s = c.range[1] /\ c.range[1] \in Nat
          BY <1>2, <3>1, BarFacts DEF NextStart
        <4> HIDE DEF s
        <4> QED BY <4>1
      <3>2. CASE backfills[c.range] # None
        <4>1. backfills[c.range].next \in Int
          BY <1>2, <3>2 DEF MarketInv, BackfillsOK, EntryOK
        <4>2. c.range[1] <= backfills[c.range].next
          BY <1>2, <3>2 DEF StepsInv, EntryBound
        <4> QED BY <3>2, <4>1, <4>2 DEF NextStart
      <3> QED BY <3>1, <3>2
    <2> HIDE DEF s, a, c
    <2>3. StepOK(c, FromChunk(c.range, s, a))
      BY <1>2, <1>3, <2>1, <2>2, <2>4, WindowCloser
    <2> QED BY <1>2, <2>1, <2>3 DEF c
  <1>6. CASE SaveChunk(p)
    <2>1. Goto(p, FromChunk(c.range, ChunkEnd(p), c.observed)) /\ c.pc = "bf_state"
      BY <1>6 DEF SaveChunk
    <2>2. ChunkEnd(p) \in Int /\ c.start < ChunkEnd(p)
      BY <2>1, WindowMoves DEF InChunk, BackfillPcs
    <2>4. c.observed \in Int
      BY <1>2 DEF CallRecord
    <2> HIDE DEF c
    <2>3. StepOK(c, FromChunk(c.range, ChunkEnd(p), c.observed))
      BY <1>2, <1>3, <2>1, <2>2, <2>4, WindowCloser
    <2> QED BY <1>2, <2>1, <2>3 DEF c
  <1>7. CASE LoadChunk(p)
    <2>1. PICK bars : Goto(p, [c EXCEPT !.pc = IF bars = {} THEN "bf_state" ELSE "bf_write",
                                 !.attempt = 1, !.bars = bars, !.days = Days(bars)])
      BY <1>7 DEF LoadChunk
    <2> DEFINE n == [c EXCEPT !.pc = IF bars = {} THEN "bf_state" ELSE "bf_write",
                       !.attempt = 1, !.bars = bars, !.days = Days(bars)]
    <2>2. c.pc = "bf_bars"
      BY <1>7 DEF LoadChunk
    <2>3. n.pc \in {"bf_state", "bf_write"} /\ n.range = c.range /\ n.start = c.start /\ n.attempt = 1
      BY <1>2 DEF CallRecord
    <2>4. Goto(p, n)
      BY <2>1
    <2> HIDE DEF n, c
    <2> QED BY <1>2, <1>4, <2>2, <2>3, <2>4 DEF c
  <1>8. CASE CommitBars(p)
    <2> DEFINE n == [c EXCEPT !.pc = "bf_state"]
    <2>1. Goto(p, n) /\ c.pc = "bf_write"
      BY <1>8 DEF CommitBars
    <2>2. n.pc = "bf_state" /\ n.range = c.range /\ n.start = c.start /\ n.attempt = c.attempt
      BY <1>2 DEF CallRecord
    <2> HIDE DEF n, c
    <2> QED BY <1>2, <1>4, <2>1, <2>2 DEF c
  <1>9. CASE BackfillRaises(p)
    <2>1. CASE c.pc = "bf_resolve"
      <3>1. Goto(p, Idle)
        BY <1>9, <2>1 DEF BackfillRaises
      <3> QED BY <1>2, <3>1, StopMoves
    <2>2. CASE c.pc # "bf_resolve"
      <3> DEFINE n == [c EXCEPT !.pc = "bf_failed", !.file = "none"]
      <3>1. Goto(p, n) /\ c.pc \in {"bf_bars", "bf_write", "bf_state"}
        BY <1>9, <2>2 DEF BackfillRaises
      <3>2. n.pc = "bf_failed" /\ n.range = c.range /\ n.start = c.start /\ n.attempt = c.attempt
        BY <1>2 DEF CallRecord
      <3> HIDE DEF n, c
      <3> QED BY <1>2, <1>4, <3>1, <3>2 DEF c
    <2> QED BY <2>1, <2>2
  <1> QED BY <1>5, <1>6, <1>7, <1>8, <1>9

\* Every step of a process that is inside a call.
LEMMA CallMoves ==
    ASSUME MarketInv, MarketInv', StepsInv, NEW p \in Procs, Work(p) \/ Crash(p)
    PROVE  \E n : Goto(p, n) /\ proc[p] # Idle /\ StepOK(proc[p], n)
  <1>1. CASE RecordHeartbeat(p) \/ CollectRaises(p) \/ SaveFailure(p) \/ Crash(p)
    <2>1. Goto(p, Idle) /\ proc[p] # Idle
      BY <1>1 DEF RecordHeartbeat, CollectRaises, SaveFailure, Crash, Idle
    <2> QED BY <2>1, StopMoves
  <1> QED BY <1>1, CollectMoves, SamePlaceMoves, BackfillMoves DEF Work

\* No entry of a backfill goes before its range.
LEMMA EntriesBound ==
    ASSUME MarketInv, StepsInv, [Next]_vars
    PROVE  \A r \in Ranges : EntryBound(r, backfills'[r])
  <1>1. CASE backfills' = backfills
    BY <1>1 DEF StepsInv
  <1>2. ASSUME NEW p \in Procs, SaveChunk(p) \/ SaveFailure(p)
        PROVE  \A r \in Ranges : EntryBound(r, backfills'[r])
    <2>1. proc[p].pc \in InChunk
      BY <1>2 DEF SaveChunk, SaveFailure, InChunk, BackfillPcs
    <2>2. proc[p].range \in Ranges /\ proc[p].range[1] <= proc[p].start /\ proc[p].range[1] <= ChunkEnd(p)
      BY <2>1, WindowMoves
    <2>3. DOMAIN backfills = Ranges
      BY DEF MarketInv, MarketTypes
    <2>4. ASSUME NEW next, NEW status, SaveBackfill(p, next, status), proc[p].range[1] <= next
          PROVE  \A r \in Ranges : EntryBound(r, backfills'[r])
      <3>1. backfills' = [backfills EXCEPT ![proc[p].range] = 
                              [next |-> next, status |-> status, asked |-> proc[p].observed]]
        BY <2>4 DEF SaveBackfill
      <3> QED BY <2>2, <2>3, <2>4, <3>1 DEF StepsInv, EntryBound
    <2> QED BY <1>2, <2>2, <2>4 DEF SaveChunk, SaveFailure
  <1>3. ASSUME NEW p \in Procs,
               CollectOnce(p) \/ Backfill(p) \/ Retry(p) \/ ResolveSymbols(p) \/ Unresolved(p) \/ LoadTicks(p)
                 \/ LoadLatestTick(p) \/ ReadBarCursor(p) \/ LoadBars(p) \/ WriteTicks(p) \/ OpenTemp(p)
                 \/ FillTemp(p) \/ ValidateTemp(p) \/ ReplaceFile(p) \/ CommitSymbol(p) \/ RecordHeartbeat(p) \/ CollectRaises(p) \/ ReadBackfillState(p)
                 \/ LoadChunk(p) \/ CommitBars(p) \/ BackfillRaises(p) \/ Crash(p)
        PROVE  backfills' = backfills
    BY <1>3 DEF CollectOnce, Backfill, Retry, ResolveSymbols, Unresolved, LoadTicks, LoadLatestTick,
                ReadBarCursor, LoadBars, WriteTicks, OpenTemp, FillTemp, ValidateTemp, ReplaceFile,
                CommitSymbol, RecordHeartbeat, CollectRaises, ReadBackfillState, LoadChunk, CommitBars, BackfillRaises, Crash, tables
  <1>4. Advance \/ Revise \/ UNCHANGED vars => backfills' = backfills
    BY DEF Advance, Revise, vars, tables
  <1> QED BY <1>1, <1>2, <1>3, <1>4 DEF Next, Work

\* A call begins.
LEMMA BeginMoves ==
    ASSUME MarketInv, MarketInv', NEW p \in Procs, CollectOnce(p) \/ Backfill(p)
    PROVE  \E n : Goto(p, n) /\ proc[p] = Idle /\ CallBound(n)
  <1>1. proc[p] = Idle
    BY DEF CollectOnce, Backfill, Starts
  <1>2. 1 \in 1..MaxAttempts
    BY MarketAssumption DEF MarketAssumption
  <1>3. CASE CollectOnce(p)
    <2> DEFINE n == [NewCall("resolve") EXCEPT !.observed = now]
    <2>1. n.pc = "resolve" /\ n.attempt = 1 /\ n.range = <<>> /\ n.file = "none" /\ Goto(p, n)
      BY <1>3 DEF NewCall, CollectOnce
    <2> HIDE DEF n
    <2>2. CallBound(n)
      BY <1>2, <2>1 DEF CallBound, BackfillPcs, InChunk, Staged
    <2> QED BY <1>1, <2>1, <2>2
  <1>4. CASE Backfill(p)
    <2>1. PICK r \in Ranges : r[1] < r[2] /\ Goto(p, [NewCall("bf_resolve") EXCEPT !.range = r, !.observed = now])
      BY <1>4 DEF Backfill
    <2> DEFINE n == [NewCall("bf_resolve") EXCEPT !.range = r, !.observed = now]
    <2>2. n.pc = "bf_resolve" /\ n.attempt = 1 /\ n.range = r /\ n.file = "none" /\ Goto(p, n)
      BY <2>1 DEF NewCall
    <2> HIDE DEF n
    <2>3. CallBound(n)
      BY <1>2, <2>1, <2>2 DEF CallBound, BackfillPcs, CollectPcs, InChunk, Staged
    <2> QED BY <1>1, <2>2, <2>3
  <1> QED BY <1>3, <1>4

\* What a step does to the calls.
LEMMA CallsMove ==
    ASSUME MarketInv, MarketInv', StepsInv, [Next]_vars
    PROVE  /\ \A p \in Procs : proc'[p] # Idle => CallBound(proc'[p])
           /\ \A p \in Procs : proc[p] # Idle /\ proc'[p] # proc[p] => Closer(proc[p], proc'[p])
  <1>1. CASE proc' = proc
    BY <1>1 DEF StepsInv
  <1>2. ASSUME NEW p \in Procs, NEW n, Goto(p, n), n # Idle => CallBound(n),
               proc[p] # Idle => Closer(proc[p], n)
        PROVE  /\ \A q \in Procs : proc'[q] # Idle => CallBound(proc'[q])
               /\ \A q \in Procs : proc[q] # Idle /\ proc'[q] # proc[q] => Closer(proc[q], proc'[q])
    <2>1. proc' = [proc EXCEPT ![p] = n] /\ DOMAIN proc = Procs
      BY <1>2 DEF Goto, MarketInv, MarketTypes
    <2>2. proc'[p] = n /\ \A q \in Procs : q # p => proc'[q] = proc[q]
      BY <2>1
    <2> QED BY <1>2, <2>2 DEF StepsInv
  <1>3. ASSUME NEW p \in Procs, Work(p) \/ Crash(p)
        PROVE  \E n : Goto(p, n) /\ (n # Idle => CallBound(n)) /\ (proc[p] # Idle => Closer(proc[p], n))
    BY <1>3, CallMoves DEF StepOK
  <1>4. ASSUME NEW p \in Procs, CollectOnce(p) \/ Backfill(p)
        PROVE  \E n : Goto(p, n) /\ (n # Idle => CallBound(n)) /\ (proc[p] # Idle => Closer(proc[p], n))
    BY <1>4, BeginMoves
  <1>5. Advance \/ Revise \/ UNCHANGED vars => proc' = proc
    BY DEF Advance, Revise, vars
  <1> QED BY <1>1, <1>2, <1>3, <1>4, <1>5 DEF Next

\* A call comes closer to its end with each of its steps: no failed attempt, empty chunk, resumption or
\* backfill of another process makes it start over, and the window of a backfill never stands still.
THEOREM MarketCallsRunOut == Spec => CallsRunOut
  <1>1. Init => MarketInv /\ StepsInv
    <2>1. Init => StepsInv
      BY DEF Init, StepsInv, EntryBound
    <2> QED BY <2>1, MarketInitInv
  <1>2. (MarketInv /\ StepsInv) /\ [Next]_vars => (MarketInv /\ StepsInv)'
    <2> SUFFICES ASSUME MarketInv, StepsInv, [Next]_vars PROVE MarketInv' /\ StepsInv'
      OBVIOUS
    <2>1. MarketInv'
      BY MarketNextInv
    <2>2. StepsInv'
      BY <2>1, CallsMove, EntriesBound DEF StepsInv
    <2> QED BY <2>1, <2>2
  <1>3. (MarketInv /\ StepsInv) /\ [Next]_vars =>
          [\A p \in Procs : proc[p] # Idle /\ proc'[p] # proc[p] =>
             StepsLeft(proc'[p]) \in 0..StepsLeft(proc[p]) - 1]_vars
    BY MarketNextInv, CallsMove DEF Closer
  <1> QED BY <1>1, <1>2, <1>3, PTL DEF Spec, CallsRunOut

-----------------------------------------------------------------------------
(* FredAdapter: the circuit breaker *)

\* The breaker is open exactly when the threshold is reached.
BreakerSound ==
    /\ failures \in 0..Threshold /\ opened \in NoAge..(Reset + 1)
    /\ opened # NoAge <=> failures = Threshold

\* No fetch is under way while the breaker is open.
ClosedInCall == call # NoFetch => opened = NoAge

SilentSound == silent \in Seq(0..(Reset + 1)) /\ Len(silent) <= Threshold + 1

\* No failure came after the breaker opened.
OpenedLast == opened # NoAge => \A i \in 1..Len(silent) : silent[i] >= opened

\* The failures that the counter no longer counts are more than Reset ago.
OldOnesPast == \A i \in 1..Len(silent) : i <= Len(silent) - failures => silent[i] > Reset

FredInv == BreakerSound /\ ClosedInCall /\ SilentSound /\ OpenedLast /\ OldOnesPast

-----------------------------------------------------------------------------

\* Ages grow up to their cap and keep their order.
LEMMA OlderFacts ==
    ASSUME NEW c \in Nat, NEW a \in NoAge..(c + 1)
    PROVE  /\ Older(a, c + 1) \in NoAge..(c + 1)
           /\ a # NoAge => Older(a, c + 1) \in 0..(c + 1) /\ Older(a, c + 1) >= a
           /\ (Older(a, c + 1) = NoAge <=> a = NoAge)
           /\ \A b \in 0..(c + 1) : a # NoAge /\ b >= a => Older(b, c + 1) >= Older(a, c + 1)
  BY DEF Older, NoAge

\* Steps that leave the breaker and the failures alone.
LEMMA AdapterRests ==
    ASSUME FredInv, UNCHANGED <<failures, opened, silent>>, call' = call \/ call' = NoFetch \/ call # NoFetch
    PROVE  FredInv'
  BY DEF FredInv, BreakerSound, ClosedInCall, SilentSound, OpenedLast, OldOnesPast

\* An answer empties the list, and leaves at most one failure.
LEMMA AnswerStep ==
    ASSUME FredAssumption, silent' = <<>>, call' = NoFetch,
           \/ failures' = 0 /\ opened' = NoAge
           \/ failures' = 1 /\ opened' = IF 1 >= Threshold THEN 0 ELSE NoAge
    PROVE  FredInv'
  <1>1. <<>> \in Seq(0..(Reset + 1)) /\ Len(<<>>) = 0 /\ Threshold \in Nat /\ Threshold >= 1 /\ Reset \in Nat
    BY DEF FredAssumption
  <1> QED BY <1>1 DEF FredInv, BreakerSound, ClosedInCall, SilentSound, OpenedLast, OldOnesPast, NoAge

\* Time passes.
LEMMA TickStep ==
    ASSUME FredAssumption, FredInv, Tick
    PROVE  FredInv'
  <1> DEFINE cap == Reset + 1
             n == Len(silent)
  <1>1. /\ Reset \in Nat /\ Threshold \in Nat /\ opened \in NoAge..cap /\ n \in Nat /\ DOMAIN silent = 1..n
        /\ silent \in Seq(0..cap) /\ \A i \in 1..n : silent[i] \in 0..cap
    BY DEF FredAssumption, FredInv, BreakerSound, SilentSound
  <1>2. /\ opened' = Older(opened, cap) /\ silent' = [i \in 1..n |-> Older(silent[i], cap)]
        /\ failures' = failures /\ call' = call
    BY <1>1 DEF Tick
  <1>3. \A i \in 1..n : silent[i] \in NoAge..cap /\ silent[i] # NoAge
    BY <1>1 DEF NoAge
  <1>4. \A i \in 1..n : silent'[i] = Older(silent[i], cap) /\ silent'[i] \in 0..cap /\ silent'[i] >= silent[i]
    BY <1>1, <1>2, <1>3, OlderFacts
  <1>5. silent' \in Seq(0..cap) /\ Len(silent') = n
    BY <1>1, <1>2, <1>4
  <1>6. BreakerSound' /\ ClosedInCall' /\ SilentSound'
    BY <1>1, <1>2, <1>5, OlderFacts DEF FredInv, BreakerSound, ClosedInCall, SilentSound
  <1>7. OpenedLast'
    BY <1>1, <1>2, <1>3, <1>4, <1>5, OlderFacts DEF FredInv, OpenedLast
  <1>8. OldOnesPast'
    <2> SUFFICES ASSUME NEW i \in 1..n, i <= n - failures PROVE silent'[i] > Reset
      BY <1>2, <1>5 DEF OldOnesPast
    <2>1. silent[i] > Reset
      BY DEF FredInv, OldOnesPast
    <2> QED BY <2>1, <1>1, <1>4
  <1> QED BY <1>6, <1>7, <1>8 DEF FredInv

\* A breaker that closes because its time is over forgets only failures that are as old.
LEMMA FetchStep ==
    ASSUME FredAssumption, FredInv, FetchSeries
    PROVE  FredInv'
  <1>1. CASE UNCHANGED breaker /\ call' = NoFetch
    <2>1. UNCHANGED <<failures, opened, silent>>
      BY <1>1 DEF FetchSeries, breaker
    <2> QED BY <1>1, <2>1, AdapterRests
  <1>2. CASE ~IsOpen /\ CloseIfDue
    <2>1. silent' = silent /\ Reset \in Nat /\ Threshold \in Nat /\ Threshold >= 1
      BY DEF FetchSeries, FredAssumption
    <2>2. CASE opened = NoAge
      <3>1. UNCHANGED <<failures, opened>>
        BY <1>2, <2>2 DEF CloseIfDue, breaker
      <3> QED BY <2>1, <2>2, <3>1
            DEF FredInv, BreakerSound, ClosedInCall, SilentSound, OpenedLast, OldOnesPast
    <2>3. CASE opened # NoAge
      <3>1. failures' = 0 /\ opened' = NoAge /\ opened > Reset
        BY <1>2, <2>1, <2>3 DEF CloseIfDue, IsOpen, FredInv, BreakerSound, NoAge
      <3>2. \A i \in 1..Len(silent) : silent[i] > Reset
        BY <2>1, <2>3, <3>1 DEF FredInv, OpenedLast, SilentSound, BreakerSound, NoAge
      <3> QED BY <2>1, <3>1, <3>2
            DEF FredInv, BreakerSound, ClosedInCall, SilentSound, OpenedLast, OldOnesPast, NoAge
    <2> QED BY <2>2, <2>3
  <1> QED BY <1>1, <1>2 DEF FetchSeries, Returns

\* One more failure, with the breaker closed.
LEMMA GivesUpStep ==
    ASSUME FredAssumption, FredInv, GivesUp
    PROVE  FredInv'
  <1> DEFINE longer == Append(silent, 0)
             n == Len(silent)
  <1>1. /\ opened = NoAge /\ Reset \in Nat /\ Threshold \in Nat /\ Threshold >= 1
        /\ failures \in 0..(Threshold - 1) /\ silent \in Seq(0..(Reset + 1)) /\ n \in 0..(Threshold + 1)
    BY DEF GivesUp, FredAssumption, FredInv, BreakerSound, ClosedInCall, SilentSound
  <1>2. /\ failures' = failures + 1 /\ opened' = (IF failures + 1 >= Threshold THEN 0 ELSE opened)
        /\ call' = NoFetch /\ silent' = IF Len(longer) > Threshold + 1 THEN Tail(longer) ELSE longer
    BY DEF GivesUp, RecordFailure, Returns
  <1>3. /\ longer \in Seq(0..(Reset + 1)) /\ Len(longer) = n + 1 /\ longer[n + 1] = 0
        /\ \A i \in 1..n : longer[i] = silent[i]
    BY <1>1
  <1>4. BreakerSound' /\ ClosedInCall'
    BY <1>1, <1>2 DEF BreakerSound, ClosedInCall, NoAge
  <1>5. \A i \in 1..(n + 1) : longer[i] >= 0 /\ (i <= n - failures => longer[i] > Reset)
    <2>1. \A i \in 1..n : silent[i] \in 0..(Reset + 1) /\ (i <= n - failures => silent[i] > Reset)
      BY <1>1 DEF FredInv, OldOnesPast
    <2> HIDE DEF longer, n
    <2> QED BY <1>1, <1>3, <2>1
  <1> HIDE DEF longer, n
  <1>6. CASE n + 1 > Threshold + 1
    <2>1. silent' = Tail(longer) /\ n = Threshold + 1
      BY <1>1, <1>2, <1>3, <1>6
    <2>2. longer # <<>>
      BY <1>1, <1>3
    <2>3. Tail(longer) \in Seq(0..(Reset + 1)) /\ Len(Tail(longer)) = n /\ \A i \in 1..n : Tail(longer)[i] = longer[i + 1]
      <3>1. /\ Tail(longer) \in Seq(0..(Reset + 1)) /\ Len(Tail(longer)) = Len(longer) - 1
            /\ \A i \in 1..Len(Tail(longer)) : Tail(longer)[i] = longer[i + 1]
        BY <1>3, <2>2, HeadTailProperties, Zenon
      <3> QED BY <1>1, <1>3, <3>1
    <2>4. Len(silent') = n /\ \A i \in 1..n : i + 1 \in 1..(n + 1) /\ silent'[i] = longer[i + 1]
      <3>1. Len(silent') = n /\ \A i \in 1..n : silent'[i] = longer[i + 1]
        BY <2>1, <2>3, Zenon
      <3>2. \A i \in 1..n : i + 1 \in 1..(n + 1)
        BY <1>1
      <3> QED BY <3>1, <3>2
    <2>5. SilentSound'
      BY <1>1, <2>1, <2>3 DEF SilentSound
    <2>6. OpenedLast'
      BY <1>1, <1>2, <1>5, <2>4 DEF OpenedLast
    <2>7. OldOnesPast'
      <3> SUFFICES ASSUME NEW i \in 1..n, i <= n - (failures + 1) PROVE silent'[i] > Reset
        BY <1>2, <2>4 DEF OldOnesPast
      <3>1. i + 1 \in 1..(n + 1) /\ i + 1 <= n - failures
        BY <1>1, <2>4
      <3> QED BY <3>1, <2>4, <1>5
    <2> QED BY <1>4, <2>5, <2>6, <2>7 DEF FredInv
  <1>7. CASE ~(n + 1 > Threshold + 1)
    <2>1. silent' = longer
      BY <1>2, <1>3, <1>7
    <2>2. SilentSound' /\ OpenedLast' /\ OldOnesPast'
      BY <1>1, <1>2, <1>3, <1>5, <1>7, <2>1 DEF SilentSound, OpenedLast, OldOnesPast, NoAge
    <2> QED BY <1>4, <2>2 DEF FredInv
  <1> QED BY <1>6, <1>7

\* At the start nothing has failed.
LEMMA FredInitInv == FredAssumption /\ FredInit => FredInv
  <1> SUFFICES ASSUME FredAssumption, FredInit PROVE FredInv
    OBVIOUS
  <1>1. <<>> \in Seq(0..(Reset + 1)) /\ Len(<<>>) = 0 /\ Threshold \in Nat /\ Threshold >= 1 /\ Reset \in Nat
    BY DEF FredAssumption
  <1> QED BY <1>1 DEF FredInit, FredInv, BreakerSound, ClosedInCall, SilentSound, OpenedLast, OldOnesPast, NoAge

\* Every step keeps the invariant.
LEMMA FredNextInv == FredAssumption /\ FredInv /\ [FredNext]_fredVars => FredInv'
  <1> SUFFICES ASSUME FredAssumption, FredInv, [FredNext]_fredVars PROVE FredInv'
    OBVIOUS
  <1>1. CASE Tick
    BY <1>1, TickStep
  <1>2. CASE SourceChanges \/ (\E k \in Keys : Publish(k)) \/ FetchAll \/ (\E k \in Keys \cup {Unknown} : FetchOne(k))
    BY <1>2, AdapterRests DEF SourceChanges, Publish, FetchAll, FetchOne, adapter, breaker
  <1>3. CASE FetchSeries
    BY <1>3, FetchStep
  <1>4. CASE Answered \/ AnsweredOddly \/ AnsweredUnparsable
    BY <1>4, AnswerStep DEF Answered, AnsweredOddly, AnsweredUnparsable, RecordSuccess, Returns
  <1>5. CASE Retries
    BY <1>5, AdapterRests DEF Retries, adapter, breaker
  <1>6. CASE GivesUp
    BY <1>6, GivesUpStep
  <1>7. CASE UNCHANGED fredVars
    BY <1>7, AdapterRests DEF fredVars, adapter, breaker
  <1> QED BY <1>1, <1>2, <1>3, <1>4, <1>5, <1>6, <1>7 DEF FredNext, Step

\* The inductive invariant of the breaker.
THEOREM FredInvariant == FredSpec => []FredInv
  <1>1. FredInit => FredInv
    BY FredInitInv, FredAssumption
  <1>2. FredInv /\ [FredNext]_fredVars => FredInv'
    BY FredNextInv, FredAssumption
  <1> QED BY <1>1, <1>2, PTL DEF FredSpec

\* Whatever series fail, however the closings of the breaker fall, any Threshold + 1 fetches
\* that failed one after the other are spread over more than Reset.
THEOREM FredFailuresSpaced == FredSpec => []FailuresSpaced
  <1>1. FredAssumption /\ FredInv => FailuresSpaced
    BY DEF FredInv, BreakerSound, OldOnesPast, FailuresSpaced, FredAssumption
  <1>2. FredInv => FailuresSpaced
    BY <1>1, FredAssumption
  <1> QED BY <1>2, FredInvariant, PTL

-----------------------------------------------------------------------------
(* FredAdapter: type correctness *)

Entry ==
    [stored : NoAge..(TTL + 1), status : {"none", "SOURCE_UNAVAILABLE", "STALE", "VALID"}, obs : NoAge..Ancient]

\* What the breaker's invariant says nothing of.
AdapterTypes ==
    /\ up \in BOOLEAN /\ apiKey \in BOOLEAN
    /\ newest \in [Keys -> NoAge..Ancient] /\ lastKnown \in [Keys -> NoAge..Ancient]
    /\ cache \in [Keys -> Entry]
    /\ call # NoFetch => call \in [series : Keys, attempt : 1..MaxRetries]

\* The bounds of the ages are numbers, and a fetch is attempted at least once.
LEMMA AncientNat == FredAssumption => Ancient \in Nat /\ TTL + 1 \in Nat /\ MaxRetries \in Nat /\ MaxRetries >= 1
  BY DEF FredAssumption, Ancient

\* Ages stay within their cap.
LEMMA OlderWithin ==
    ASSUME NEW cap \in Nat, NEW a \in NoAge..cap
    PROVE  Older(a, cap) \in NoAge..cap
  BY DEF Older, NoAge

\* Steps that leave the source and what was fetched alone, and begin no fetch.
LEMMA TypesRest ==
    ASSUME AdapterTypes, UNCHANGED <<up, apiKey, newest, lastKnown, cache>>, call' = call \/ call' = NoFetch
    PROVE  AdapterTypes'
  BY DEF AdapterTypes

\* Time passes.
LEMMA TypesTick ==
    ASSUME FredAssumption, AdapterTypes, Tick
    PROVE  AdapterTypes'
  <1>1. newest' \in [Keys -> NoAge..Ancient] /\ lastKnown' \in [Keys -> NoAge..Ancient]
    BY AncientNat, OlderWithin DEF Tick, AdapterTypes
  <1>2. cache' \in [Keys -> Entry]
    <2>1. \A k \in Keys : [cache[k] EXCEPT !.stored = Older(@, TTL + 1), !.obs = Older(@, Ancient)] \in Entry
      <3> SUFFICES ASSUME NEW k \in Keys
                   PROVE  [cache[k] EXCEPT !.stored = Older(@, TTL + 1), !.obs = Older(@, Ancient)] \in Entry
        OBVIOUS
      <3>1. cache[k] \in Entry
        BY DEF AdapterTypes
      <3>2. Older(cache[k].stored, TTL + 1) \in NoAge..(TTL + 1) /\ Older(cache[k].obs, Ancient) \in NoAge..Ancient
        BY <3>1, AncientNat, OlderWithin DEF Entry
      <3> QED BY <3>1, <3>2 DEF Entry
    <2> QED BY <2>1 DEF Tick
  <1>3. UNCHANGED <<up, apiKey, call>>
    BY DEF Tick
  <1> QED BY <1>1, <1>2, <1>3 DEF AdapterTypes

\* The source shows another observation.
LEMMA TypesPublish ==
    ASSUME FredAssumption, AdapterTypes, NEW k \in Keys, Publish(k)
    PROVE  AdapterTypes'
  <1>1. newest' \in [Keys -> NoAge..Ancient]
    BY AncientNat DEF Publish, AdapterTypes, NoAge
  <1>2. UNCHANGED <<up, apiKey, lastKnown, cache, call>>
    BY DEF Publish, adapter
  <1> QED BY <1>1, <1>2 DEF AdapterTypes

\* A fetch begins or ends at once.
LEMMA TypesFetch ==
    ASSUME FredAssumption, AdapterTypes, FetchSeries
    PROVE  AdapterTypes'
  <1>1. UNCHANGED <<up, apiKey, newest, lastKnown, cache>>
    BY DEF FetchSeries, source
  <1>2. call' = NoFetch \/ \E k \in Keys : call' = [series |-> k, attempt |-> 1]
    BY DEF FetchSeries, Returns
  <1>3. ASSUME NEW k \in Keys, call' = [series |-> k, attempt |-> 1]
        PROVE  call' \in [series : Keys, attempt : 1..MaxRetries]
    BY <1>3, AncientNat
  <1> QED BY <1>1, <1>2, <1>3 DEF AdapterTypes

\* An answer is remembered and cached as new.
LEMMA TypesAnswered ==
    ASSUME FredAssumption, AdapterTypes, Answered
    PROVE  AdapterTypes'
  <1> DEFINE k == call.series
             obs == newest[k]
  <1>1. k \in Keys /\ obs \in NoAge..Ancient
    BY DEF Answered, AdapterTypes
  <1>2. /\ cache' = [cache EXCEPT ![k] = [stored |-> 0, status |-> StatusOf(obs), obs |-> obs]]
        /\ lastKnown' = IF obs = NoAge THEN lastKnown ELSE [lastKnown EXCEPT ![k] = obs]
        /\ call' = NoFetch /\ UNCHANGED <<up, apiKey, newest>>
    BY DEF Answered, CacheSet, Returns, source
  <1>3. StatusOf(obs) \in {"SOURCE_UNAVAILABLE", "STALE", "VALID"}
    BY DEF StatusOf
  <1> HIDE DEF k, obs
  <1>4. [stored |-> 0, status |-> StatusOf(obs), obs |-> obs] \in Entry
    BY <1>1, <1>3, AncientNat DEF Entry, NoAge
  <1>5. cache' \in [Keys -> Entry] /\ lastKnown' \in [Keys -> NoAge..Ancient]
    BY <1>1, <1>2, <1>4 DEF AdapterTypes
  <1> QED BY <1>2, <1>5 DEF AdapterTypes

\* Another attempt.
LEMMA TypesRetries ==
    ASSUME FredAssumption, AdapterTypes, Retries
    PROVE  AdapterTypes'
  <1>1. call \in [series : Keys, attempt : 1..MaxRetries] /\ call.attempt < MaxRetries
    BY DEF Retries, AdapterTypes
  <1>2. call' = [call EXCEPT !.attempt = @ + 1]
    BY DEF Retries
  <1>3. call' \in [series : Keys, attempt : 1..MaxRetries]
    <2>1. call.attempt + 1 \in 1..MaxRetries
      <3>1. call.attempt \in 1..MaxRetries
        BY <1>1
      <3> QED BY <1>1, <3>1, AncientNat
    <2> QED BY <1>1, <1>2, <2>1
  <1>4. UNCHANGED <<up, apiKey, newest, lastKnown, cache>>
    BY DEF Retries, source, adapter
  <1> QED BY <1>3, <1>4 DEF AdapterTypes

\* At the start nothing is known.
LEMMA TypesInit == FredAssumption /\ FredInit => AdapterTypes
  <1> SUFFICES ASSUME FredAssumption, FredInit PROVE AdapterTypes
    OBVIOUS
  <1>1. [stored |-> NoAge, status |-> "none", obs |-> NoAge] \in Entry /\ {NoAge, 0} \subseteq NoAge..Ancient
    BY AncientNat DEF Entry, NoAge
  <1> QED BY <1>1 DEF FredInit, AdapterTypes

\* Every step keeps the types.
LEMMA TypesNext == FredAssumption /\ AdapterTypes /\ [FredNext]_fredVars => AdapterTypes'
  <1> SUFFICES ASSUME FredAssumption, AdapterTypes, [FredNext]_fredVars PROVE AdapterTypes'
    OBVIOUS
  <1>1. CASE SourceChanges
    <2>1. up' \in BOOLEAN /\ UNCHANGED <<apiKey, newest, lastKnown, cache, call>>
      BY <1>1 DEF SourceChanges, adapter
    <2> QED BY <2>1 DEF AdapterTypes
  <1>2. CASE FetchAll \/ \E k \in Keys \cup {Unknown} : FetchOne(k)
    BY <1>2, TypesRest DEF FetchAll, FetchOne, source, adapter
  <1>3. CASE AnsweredOddly \/ AnsweredUnparsable \/ GivesUp
    BY <1>3, TypesRest DEF AnsweredOddly, AnsweredUnparsable, GivesUp, Returns, source
  <1>4. CASE UNCHANGED fredVars
    BY <1>4, TypesRest DEF fredVars, source, adapter
  <1>5. CASE Tick \/ \E k \in Keys : Publish(k)
    BY <1>5, TypesTick, TypesPublish
  <1>6. CASE FetchSeries \/ Answered \/ Retries
    BY <1>6, TypesFetch, TypesAnswered, TypesRetries
  <1> QED BY <1>1, <1>2, <1>3, <1>4, <1>5, <1>6 DEF FredNext, Step

\* Every variable has its type: the ages stay within the bounds at which the code stops telling them
\* apart, the failures within the threshold, the attempts within max_retries.
THEOREM FredTypesCorrect == FredSpec => []FredTypeOK
  <1>1. FredInit => AdapterTypes
    BY TypesInit, FredAssumption
  <1>2. AdapterTypes /\ [FredNext]_fredVars => AdapterTypes'
    BY TypesNext, FredAssumption
  <1>3. ASSUME FredInv, AdapterTypes PROVE FredTypeOK
    <2>1. failures \in 0..Threshold /\ opened \in NoAge..Reset + 1
      BY <1>3 DEF FredInv, BreakerSound
    <2>2. \A i \in DOMAIN silent : silent[i] \in 0..Reset + 1
      <3>1. silent \in Seq(0..(Reset + 1))
        BY <1>3 DEF FredInv, SilentSound
      <3>2. DOMAIN silent = 1..Len(silent)
        BY <3>1
      <3>3. \A i \in 1..Len(silent) : silent[i] \in 0..(Reset + 1)
        BY <3>1, ElementOfSeq, Zenon
      <3> QED BY <3>2, <3>3
    <2>3. call.attempt \in 0..MaxRetries
      <3>1. MaxRetries \in Nat /\ MaxRetries >= 1
        BY FredAssumption DEF FredAssumption
      <3>2. CASE call = NoFetch
        BY <3>1, <3>2 DEF NoFetch
      <3>3. CASE call \in [series : Keys, attempt : 1..MaxRetries]
        BY <3>1, <3>3
      <3> QED BY <1>3, <3>2, <3>3 DEF AdapterTypes
    <2>4. \A k \in Keys : cache[k].stored \in NoAge..TTL + 1 /\ cache[k].obs \in NoAge..Ancient
      BY <1>3 DEF AdapterTypes, Entry
    <2> QED BY <1>3, <2>1, <2>2, <2>3, <2>4 DEF AdapterTypes, FredTypeOK
  <1>4. FredSpec => []AdapterTypes
    BY <1>1, <1>2, PTL DEF FredSpec
  <1> QED BY <1>3, <1>4, FredInvariant, PTL
=============================================================================
