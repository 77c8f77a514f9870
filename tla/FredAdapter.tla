---------------------------- MODULE FredAdapter -----------------------------
(***************************************************************************)
(* FredAdapter, market_data/fred_adapter.py: the macro series of FRED      *)
(* behind a cache, a retry loop and one circuit breaker for all series,    *)
(* used by one caller.                                                     *)
(*                                                                         *)
(* Time is kept as ages: how long ago a result was cached, the breaker     *)
(* opened or an observation was dated.  An age stops growing where the     *)
(* code can no longer tell the difference, so behaviours need no last      *)
(* instant.  Time may pass before every attempt (the request itself and    *)
(* the backoff).  An observation is abstracted to its age; values, series  *)
(* metadata and error texts are left out.                                  *)
(***************************************************************************)
EXTENDS Integers, Sequences, FiniteSets

CONSTANTS
    Series,       \* the keys of FRED_SERIES in their order
    Unknown,      \* a key that is not in FRED_SERIES
    MaxRetries,   \* max_retries
    Threshold,    \* failure_threshold of the circuit breaker
    Reset,        \* reset_seconds of the circuit breaker
    TTL,          \* ttl_seconds of the cache
    DayLen,       \* the length of a day
    StaleDays     \* the days (5) after which an observation is stale

ASSUME FredAssumption ==
    /\ Series \in Seq(STRING) /\ Series # <<>>
    /\ \A i \in DOMAIN Series : Series[i] # Unknown
    /\ MaxRetries \in Nat \ {0} /\ Threshold \in Nat \ {0}
    /\ Reset \in Nat /\ TTL \in Nat /\ DayLen \in Nat \ {0} /\ StaleDays \in Nat

VARIABLES
    up,        \* whether the source answers every request
    newest,    \* by series, the age of the newest observation the source can show
    apiKey,    \* whether an API key is configured
    cache,     \* FredCache._store
    lastKnown, \* _last_known
    failures,  \* CircuitBreaker._failures
    opened,    \* how long ago CircuitBreaker._opened_at was
    call,      \* the fetch under way
    todo,      \* the series fetch_all has still to fetch
    result,    \* the last result that fetch_series returned
    silent     \* history: ages of the latest fetches that failed without an answer

source == <<up, newest, apiKey>>
breaker == <<failures, opened>>
adapter == <<cache, lastKnown, breaker>>
fredVars == <<source, adapter, call, todo, result, silent>>

Keys == {Series[i] : i \in DOMAIN Series}

\* No time, no observation, no cache entry, no call.
NoAge == -1

\* Ages beyond these are alike to the code.
Ancient == (StaleDays + 1) * DayLen

Older(age, cap) == IF age = NoAge \/ age = cap THEN age ELSE age + 1

Stale(obs) == obs \div DayLen > StaleDays

\* A result as it is returned; error tells whether it carries an error text.
Result(k, status, obs, error) == [series |-> k, status |-> status, obs |-> obs, error |-> error]

NoFetch == [series |-> Unknown, attempt |-> 0]

FredInit ==
    /\ up \in BOOLEAN /\ apiKey \in BOOLEAN
    /\ newest \in [Keys -> {NoAge, 0}]
    /\ cache = [k \in Keys |-> [stored |-> NoAge, status |-> "none", obs |-> NoAge]]
    /\ lastKnown = [k \in Keys |-> NoAge]
    /\ failures = 0 /\ opened = NoAge
    /\ call = NoFetch /\ todo = <<>>
    /\ result = Result(Unknown, "none", NoAge, FALSE)
    /\ silent = <<>>

----------------------------------------------------------------------------
(* Time, and the source: external. *)

Tick ==
    /\ newest' = [k \in Keys |-> Older(newest[k], Ancient)]
    /\ lastKnown' = [k \in Keys |-> Older(lastKnown[k], Ancient)]
    /\ cache' = [k \in Keys |-> [cache[k] EXCEPT !.stored = Older(@, TTL + 1),
                                                 !.obs = Older(@, Ancient)]]
    /\ opened' = Older(opened, Reset + 1)
    /\ silent' = [i \in DOMAIN silent |-> Older(silent[i], Reset + 1)]
    /\ UNCHANGED <<up, apiKey, failures, call, todo, result>>

\* An observation of today appears, or all that the source can show are missing values.
Publish(k) ==
    /\ newest' = [newest EXCEPT ![k] = 0] \/ newest' = [newest EXCEPT ![k] = NoAge]
    /\ UNCHANGED <<up, apiKey, adapter, call, todo, result, silent>>

SourceChanges ==
    /\ up' = ~up
    /\ UNCHANGED <<newest, apiKey, adapter, call, todo, result, silent>>

----------------------------------------------------------------------------
(* FredCache and CircuitBreaker *)

\* FredCache.get finds a result.
Cached(k) == cache[k].stored # NoAge /\ cache[k].stored <= TTL

CacheSet(k, status, obs) ==
    cache' = [cache EXCEPT ![k] = [stored |-> 0, status |-> status, obs |-> obs]]

\* Faulty: an open breaker closes only by a success.
IsOpenForever == opened # NoAge

\* is_open, which closes the breaker (CloseIfDue) once it has been open for longer than Reset.
IsOpen == opened # NoAge /\ opened <= Reset

CloseIfDue ==
    IF opened # NoAge /\ ~IsOpen
    THEN failures' = 0 /\ opened' = NoAge
    ELSE UNCHANGED breaker

\* Faulty: the breaker opens one failure too late.
RecordFailureLate ==
    /\ failures' = failures + 1
    /\ opened' = IF failures + 1 > Threshold THEN 0 ELSE opened

RecordFailure ==
    /\ failures' = failures + 1
    /\ opened' = IF failures + 1 >= Threshold THEN 0 ELSE opened

RecordSuccess ==
    /\ failures' = 0
    /\ opened' = NoAge

----------------------------------------------------------------------------
(* fetch_series and fetch_all *)

\* A result is returned, and fetch_all goes on.
Returns(r) ==
    /\ result' = r
    /\ call' = NoFetch

\* What every error path returns: the last observation that is known, not cached.
Unavailable(k) == Result(k, "SOURCE_UNAVAILABLE", lastKnown[k], TRUE)

FetchAll ==
    /\ call = NoFetch /\ todo = <<>>
    /\ todo' = Series
    /\ UNCHANGED <<source, adapter, call, result, silent>>

\* fetch_series by itself, for any key.
FetchOne(k) ==
    /\ call = NoFetch /\ todo = <<>>
    /\ todo' = <<k>>
    /\ UNCHANGED <<source, adapter, call, result, silent>>

\* The part of fetch_series up to the first request.
FetchSeries ==
    LET k == Head(todo)
    IN
    /\ call = NoFetch /\ todo # <<>>
    /\ todo' = Tail(todo)
    /\ \/ /\ k = Unknown
          /\ Returns(Result(k, "SOURCE_UNAVAILABLE", NoAge, TRUE))
          /\ UNCHANGED breaker
       \/ /\ k \in Keys /\ ~apiKey
          /\ Returns(Unavailable(k))
          /\ UNCHANGED breaker
       \/ /\ k \in Keys /\ apiKey /\ Cached(k)
          /\ Returns(Result(k, cache[k].status, cache[k].obs, FALSE))
          /\ UNCHANGED breaker
       \/ /\ k \in Keys /\ apiKey /\ ~Cached(k) /\ IsOpen
          /\ Returns(Unavailable(k))
          /\ UNCHANGED breaker
       \/ /\ k \in Keys /\ apiKey /\ ~Cached(k) /\ ~IsOpen
          /\ CloseIfDue
          /\ call' = [series |-> k, attempt |-> 1]
          /\ UNCHANGED result
    /\ UNCHANGED <<source, cache, lastKnown, silent>>

\* The observation _parse_latest finds, and its status.
StatusOf(obs) ==
    IF obs = NoAge THEN "SOURCE_UNAVAILABLE"
    ELSE IF Stale(obs) THEN "STALE" ELSE "VALID"

\* A readable answer: it is parsed, remembered and cached.
Answered ==
    LET k == call.series
        obs == newest[k]
    IN
    /\ call # NoFetch
    /\ RecordSuccess
    /\ lastKnown' = IF obs = NoAge THEN lastKnown ELSE [lastKnown EXCEPT ![k] = obs]
    /\ CacheSet(k, StatusOf(obs), obs)
    /\ Returns(Result(k, StatusOf(obs), obs, FALSE))
    /\ silent' = <<>>
    /\ UNCHANGED <<source, todo>>

\* JSON that is not an object: the success is recorded, and then a failure.
AnsweredOddly ==
    /\ call # NoFetch /\ ~up
    /\ failures' = 1
    /\ opened' = IF 1 >= Threshold THEN 0 ELSE NoAge
    /\ Returns(Unavailable(call.series))
    /\ silent' = <<>>
    /\ UNCHANGED <<source, cache, lastKnown, todo>>

\* An observation whose date cannot be parsed: the success stands, nothing is cached.
AnsweredUnparsable ==
    /\ call # NoFetch /\ ~up
    /\ RecordSuccess
    /\ Returns(Unavailable(call.series))
    /\ silent' = <<>>
    /\ UNCHANGED <<source, cache, lastKnown, todo>>

\* HTTPError or URLError: another attempt after the backoff.
Retries ==
    /\ call # NoFetch /\ ~up
    /\ call.attempt < MaxRetries
    /\ call' = [call EXCEPT !.attempt = @ + 1]
    /\ UNCHANGED <<source, adapter, todo, result, silent>>

\* The last attempt failed, the request was refused (400, 401, 403), or another exception:
\* one failure, and the error path.
GivesUp ==
    /\ call # NoFetch /\ ~up
    /\ RecordFailure
    /\ Returns(Unavailable(call.series))
    /\ silent' = LET longer == Append(silent, 0)
                 IN  IF Len(longer) > Threshold + 1 THEN Tail(longer) ELSE longer
    /\ UNCHANGED <<source, cache, lastKnown, todo>>

----------------------------------------------------------------------------

Step == FetchSeries \/ Answered \/ AnsweredOddly \/ AnsweredUnparsable \/ Retries \/ GivesUp

FredNext ==
    \/ Tick
    \/ SourceChanges
    \/ \E k \in Keys : Publish(k)
    \/ FetchAll
    \/ \E k \in Keys \cup {Unknown} : FetchOne(k)
    \/ Step

FredSpec == FredInit /\ [][FredNext]_fredVars

\* Time passes, a fetch that began goes on, and the caller calls fetch_all time and again.
Fairness ==
    /\ WF_fredVars(Tick)
    /\ WF_fredVars(Step)
    /\ SF_fredVars(FetchAll)

FredFairSpec == FredSpec /\ Fairness

----------------------------------------------------------------------------
(* Properties *)

(* Every variable has its type. *)
FredTypeOK ==
    /\ up \in BOOLEAN /\ apiKey \in BOOLEAN
    /\ newest \in [Keys -> NoAge..Ancient] /\ lastKnown \in [Keys -> NoAge..Ancient]
    /\ \A k \in Keys : cache[k].stored \in NoAge..TTL + 1 /\ cache[k].obs \in NoAge..Ancient
    /\ failures \in 0..Threshold /\ opened \in NoAge..Reset + 1
    /\ call.attempt \in 0..MaxRetries
    /\ \A i \in DOMAIN silent : silent[i] \in 0..Reset + 1

(* The circuit breaker bounds how often a source that does not answer is     *)
(* asked: of all fetches of all series, any Threshold + 1 that failed one    *)
(* after the other, with no answer in between, are spread over more than     *)
(* Reset, also across the closings of the breaker.                           *)
FailuresSpaced == Len(silent) = Threshold + 1 => silent[1] > Reset

(* A source that is up again for good is used again: with a caller that      *)
(* keeps calling fetch_all, every series is time and again returned from an  *)
(* answer of the source and not from the error path, whatever failures of    *)
(* whichever series had opened the breaker before.                           *)
SourceComesBack ==
    \A k \in Keys :
        apiKey /\ <>[]up => []<>(result.series = k /\ ~result.error)
=============================================================================
