----------------------------- MODULE MarketData -----------------------------
(***************************************************************************)
(* MarketDataService, market_data/collector.py, over the SQLite state      *)
(* store and the Parquet store: collect_once and backfill for one symbol   *)
(* and one timeframe, called by processes that share the database and the  *)
(* Parquet directory.                                                      *)
(*                                                                         *)
(* Time is a number of ticks of a clock; a bar is named by its opening     *)
(* time and lasts BarLen.  A step ends wherever the broker is asked, a     *)
(* file is touched or a transaction commits.  A bar's prices are           *)
(* abstracted to the number of price ticks it summarises and whether the   *)
(* broker revised it: all that makes two readings of a bar differ.         *)
(*                                                                         *)
(* Left out: dry runs (they write nothing), the incidents that no property *)
(* speaks of (freshness, duplicates, order), and what the Parquet files of *)
(* ticks hold, which nothing reads.                                        *)
(***************************************************************************)
EXTENDS Integers, FiniteSets, FiniteSetsExt

CONSTANTS
    Procs,         \* processes that use the service
    BarLen,        \* the length of a bar
    BarsPerDay,    \* the bars of one date partition
    Weekend,       \* the bars that fall on a Saturday or a Sunday
    Lookback,      \* bar_lookback_count
    TickLookback,  \* tick_lookback_seconds
    MaxAttempts,   \* max_attempts of the retry runner
    Ranges,        \* the <<start, end>> that backfill is called with
    Exclusive,     \* TRUE: a call starts only when no other process is inside one
    Horizon,       \* bound: the clock stops here
    MaxRevisions,  \* bound: bars the broker revises after they closed
    MaxCalls,      \* bound: calls of collect_once and backfill
    MaxCrashes     \* bound: crashes

ASSUME MarketAssumption ==
    /\ BarLen \in Nat \ {0} /\ BarsPerDay \in Nat \ {0} /\ Lookback \in Nat \ {0}
    /\ MaxAttempts \in Nat \ {0} /\ TickLookback \in Nat
    /\ Horizon \in Nat /\ MaxRevisions \in Nat /\ MaxCalls \in Nat /\ MaxCrashes \in Nat
    /\ Ranges \subseteq (0..Horizon) \X (0..Horizon)
    /\ Exclusive \in BOOLEAN

VARIABLES
    now,        \* the clock
    ticks,      \* times of the price ticks so far
    revised,    \* closed bars that the broker has revised
    files,      \* the Parquet files of bars; one that cannot be read holds no bars
    temps,      \* the temporary files beside them, by the name of the file they are for
    handle,     \* what the file is now that a process has open for writing
    tangled,    \* history: names that two processes were writing a file of at once
    tickRow,    \* latest_ticks and the cursor of ticks, which are written together
    currentRow, \* latest_bars "current" and the cursor of bars, which are written together
    closedRow,  \* latest_bars "closed"
    incidents,  \* quality_incidents
    backfills,  \* backfill_state
    proc,       \* where each process is and what it has in memory
    calls,      \* calls so far
    crashes

market == <<now, ticks, revised>>
storage == <<files, temps, handle, tangled>>
tables == <<tickRow, currentRow, closedRow, incidents, backfills>>
vars == <<market, storage, tables, proc, calls, crashes>>

Bars == {BarLen * i : i \in 0..Horizon} \cap 0..Horizon
Closes(k) == k + BarLen
Day(k) == k \div (BarLen * BarsPerDay)
None == [row |-> "none"]
NoTime == -1

\* A BarRecord; closed is its is_closed.
BarRecord == [open : Bars, ticks : 1..BarLen, rev : BOOLEAN, closed : BOOLEAN]

----------------------------------------------------------------------------
(* The broker.  A bar exists once a tick fell into it. *)

BarTicks(k) == ticks \cap k..Closes(k)-1

Exists(k) == BarTicks(k) # {}

CopyRates(from, to) == {k \in Bars : from <= k /\ k <= to /\ Exists(k)}

\* normalize_bar, as of a time.
Normalized(k, asOf) ==
    [open |-> k, ticks |-> Cardinality(BarTicks(k)), rev |-> k \in revised,
     closed |-> Closes(k) <= asOf]

\* normalize_bar_batch: each bar once.  Their order is the order of their opening, so that a
\* set stands for the list.
NormalizeBarBatch(bars, asOf) == {Normalized(k, asOf) : k \in bars}

LoadedBars(from, to, asOf) == NormalizeBarBatch(CopyRates(from, to), asOf)

Opens(bars) == {b.open : b \in bars}

\* The last of a list of bars.
LastBar(bars) == CHOOSE b \in bars : b.open = Max(Opens(bars))

\* symbol_info_tick
LatestTick == IF ticks = {} THEN {} ELSE {Max(ticks)}

Advance ==
    /\ now < Horizon
    /\ now' = now + 1
    /\ ticks' \in {ticks, ticks \cup {now + 1}}
    /\ UNCHANGED <<revised, storage, tables, proc, calls, crashes>>

Revise ==
    /\ Cardinality(revised) < MaxRevisions
    /\ \E k \in Bars \ revised : Exists(k) /\ Closes(k) <= now /\ revised' = revised \cup {k}
    /\ UNCHANGED <<now, ticks, storage, tables, proc, calls, crashes>>

----------------------------------------------------------------------------
(* A process. *)

Idle == [pc |-> "idle"]

\* A call of the service, and the variables of its methods.
NewCall(pc) ==
    [pc |-> pc, attempt |-> 1, observed |-> NoTime, start |-> NoTime, from |-> NoTime,
     batch |-> {}, bars |-> {}, days |-> {}, file |-> "none", range |-> <<>>]

Goto(p, next) == proc' = [proc EXCEPT ![p] = next]

Starts(p) ==
    /\ proc[p] = Idle /\ (Exclusive => \A q \in Procs : proc[q] = Idle)
    /\ calls < MaxCalls /\ calls' = calls + 1

Init ==
    /\ now = 0 /\ ticks \in {{}, {0}} /\ revised = {}
    /\ files = {} /\ temps = {} /\ handle = [p \in Procs |-> "none"] /\ tangled = {}
    /\ tickRow = None /\ currentRow = None /\ closedRow = None
    /\ incidents = {}
    /\ backfills = [r \in Ranges |-> None]
    /\ proc = [p \in Procs |-> Idle]
    /\ calls = 0 /\ crashes = 0

\* Where the broker is asked, under BoundedRetryRunner.
Asking == {"resolve", "ticks", "last_tick", "bars", "bf_resolve", "bf_bars"}

\* An attempt fails with BackendConnectionError and is not the last one.
Retry(p) ==
    /\ proc[p].pc \in Asking /\ proc[p].attempt < MaxAttempts
    /\ Goto(p, [proc[p] EXCEPT !.attempt = @ + 1])
    /\ UNCHANGED <<market, storage, tables, calls, crashes>>

----------------------------------------------------------------------------
(* collect_once *)

\* observed_now is read first, then _resolve_symbols asks for the symbols.
CollectOnce(p) ==
    /\ Starts(p)
    /\ Goto(p, [NewCall("resolve") EXCEPT !.observed = now])
    /\ UNCHANGED <<market, storage, tables, crashes>>

\* _resolve_symbols: the broker knows the symbol, and it is selected if it has to be.
ResolveSymbols(p) ==
    /\ proc[p].pc = "resolve"
    /\ Goto(p, [proc[p] EXCEPT !.pc = "ticks", !.attempt = 1])
    /\ UNCHANGED <<market, storage, tables, calls, crashes>>

\* resolve_symbols finds no broker symbol, or several: the symbol is left out of this
\* collection, which goes on to its heartbeat.
Unresolved(p) ==
    /\ proc[p].pc = "resolve"
    /\ Goto(p, [proc[p] EXCEPT !.pc = "heartbeat", !.attempt = 1])
    /\ UNCHANGED <<market, storage, tables, calls, crashes>>

\* The cursor of ticks tells where to start, and copy_ticks_range gives the ticks from there
\* to observed_now.
LoadTicks(p) ==
    /\ proc[p].pc = "ticks"
    /\ LET start == IF tickRow = None THEN proc[p].observed - TickLookback ELSE tickRow.at
       IN  Goto(p, [proc[p] EXCEPT !.pc = "last_tick", !.attempt = 1,
                      !.batch = ticks \cap start..proc[p].observed])
    /\ UNCHANGED <<market, storage, tables, calls, crashes>>

\* normalize_tick_batch: each tick once, however often the two answers have it.
NormalizeTickBatch(batch, latest) == batch \cup latest

\* symbol_info_tick: the latest tick, whenever it came, joins the batch.
LoadLatestTick(p) ==
    /\ proc[p].pc = "last_tick"
    /\ Goto(p, [proc[p] EXCEPT !.pc = "bar_cursor", !.attempt = 1,
                               !.batch = NormalizeTickBatch(@, LatestTick)])
    /\ UNCHANGED <<market, storage, tables, calls, crashes>>

\* Faulty: the collection resumes after the bar that was forming.
StartAfterCurrent == Closes(currentRow.bar.open)

StartAtCurrent == currentRow.bar.open

\* Of the cursor of bars the model also remembers the start of the first collection it goes
\* back to.
ReadBarCursor(p) ==
    /\ proc[p].pc = "bar_cursor"
    /\ LET first == proc[p].observed - BarLen * Lookback IN
         Goto(p, [proc[p] EXCEPT !.pc = "bars",
                    !.start = IF currentRow = None THEN first ELSE StartAtCurrent,
                    !.from = IF currentRow = None THEN first ELSE currentRow.from])
    /\ UNCHANGED <<market, storage, tables, calls, crashes>>

Days(bars) == {Day(k) : k \in Opens(bars)}

LoadBars(p) ==
    /\ proc[p].pc = "bars"
    /\ LET bars == LoadedBars(proc[p].start, proc[p].observed, proc[p].observed) IN
         Goto(p, [proc[p] EXCEPT !.pc = "write_ticks", !.attempt = 1, !.bars = bars, !.days = Days(bars)])
    /\ UNCHANGED <<market, storage, tables, calls, crashes>>

----------------------------------------------------------------------------
(* The Parquet store.  atomic_write fills a temporary file and renames it; its name is that *)
(* of the file with ".tmp-" before it, so that all writers of one name share it.            *)

\* write_ticks goes through atomic_write too; nothing reads what it writes.
WriteTicks(p) ==
    /\ proc[p].pc = "write_ticks"
    /\ Goto(p, [proc[p] EXCEPT !.pc = "write_bars"])
    /\ UNCHANGED <<market, storage, tables, calls, crashes>>

\* Faulty: the name of a file tells only its date and its first bar.
FileNameShort(day, bars) ==
    [day |-> day, first |-> Min(Opens(bars)), last |-> Min(Opens(bars)), count |-> 1]

\* _file_name: the date, the first and last bar and how many there are; not what they are.
FileName(day, bars) ==
    [day |-> day, first |-> Min(Opens(bars)), last |-> Max(Opens(bars)), count |-> Cardinality(bars)]

\* write_bars groups the bars by date, and writes one file after another.
Writing(p) == proc[p].pc \in {"write_bars", "bf_write"} /\ proc[p].days # {}

NextBars(c) == {b \in c.bars : Day(b.open) = Min(c.days)}
NextName(c) == FileName(Min(c.days), NextBars(c))

\* A process is writing a file of a name.
AtFile(p, name) == Writing(p) /\ proc[p].file # "none" /\ NextName(proc[p]) = name

Without(F, name) == {f \in F : f.name # name}
With(F, name, bars) == Without(F, name) \cup {[name |-> name, bars |-> bars]}

\* Opening a file for writing empties it.
OpenTemp(p) ==
    LET name == NextName(proc[p])
    IN  /\ Writing(p) /\ proc[p].file = "none"
        /\ temps' = With(temps, name, {})
        /\ handle' = [handle EXCEPT ![p] = "temp"]
        /\ tangled' = tangled \cup {n \in {name} : \E q \in Procs \ {p} : AtFile(q, n)}
        /\ Goto(p, [proc[p] EXCEPT !.file = "open"])
        /\ UNCHANGED <<market, files, tables, calls, crashes>>

\* What a process writes goes to the file it has open, wherever that is now.
Written(p, bars) ==
    LET name == NextName(proc[p])
    IN  /\ temps' = IF handle[p] = "temp" THEN With(temps, name, bars) ELSE temps
        /\ files' = IF handle[p] = "file" THEN With(files, name, bars) ELSE files

\* What a file can be when it was written from its beginning, over what others have written
\* meanwhile: lengths differ, and the end of the longer one stays.
Filled(p) ==
    LET bars == NextBars(proc[p])
        over == {f \in IF handle[p] = "file" THEN files ELSE temps : f.name = NextName(proc[p])}
    IN  {bars} \cup IF \A f \in over : f.bars \in {{}, bars} THEN {} ELSE {{}}

\* pq.write_table
FillTemp(p) ==
    /\ Writing(p) /\ proc[p].file = "open"
    /\ \E bars \in Filled(p) : Written(p, bars)
    /\ handle' = [handle EXCEPT ![p] = "none"]
    /\ Goto(p, [proc[p] EXCEPT !.file = "filled"])
    /\ UNCHANGED <<market, tangled, tables, calls, crashes>>

\* pq.read_schema opens the temporary file by its name, whoever wrote it.
ValidateTemp(p) ==
    /\ Writing(p) /\ proc[p].file = "filled"
    /\ \E t \in temps : t.name = NextName(proc[p]) /\ t.bars # {}
    /\ Goto(p, [proc[p] EXCEPT !.file = "checked"])
    /\ UNCHANGED <<market, storage, tables, calls, crashes>>

\* A file renamed is the same file for those that have it open; a file that was replaced or
\* removed is in no directory any more.
Renamed(h) == CASE h = "temp" -> "file" [] h = "file" -> "gone" [] OTHER -> h

\* os.replace, of what the temporary file is by now.
ReplaceFile(p) ==
    LET name == NextName(proc[p])
    IN  /\ Writing(p) /\ proc[p].file = "checked"
        /\ \E t \in temps : t.name = name /\ files' = With(files, name, t.bars)
        /\ temps' = Without(temps, name)
        /\ handle' = [q \in Procs |-> IF AtFile(q, name) THEN Renamed(handle[q]) ELSE handle[q]]
        /\ Goto(p, [proc[p] EXCEPT !.file = "none", !.days = @ \ {Min(@)}])
        /\ UNCHANGED <<market, tangled, tables, calls, crashes>>

\* The except branch removes the temporary file if there is one, whoever is writing it; an open
\* file stays where the system refuses to remove it.
UnlinkTemp(p) ==
    LET name == NextName(proc[p])
        users == {q \in Procs \ {p} : AtFile(q, name) /\ handle[q] = "temp"}
    IN  \/ /\ temps' = Without(temps, name)
           /\ handle' = [q \in Procs |-> IF q = p THEN "none" ELSE IF q \in users THEN "gone" ELSE handle[q]]
        \/ /\ users # {} /\ UNCHANGED temps
           /\ handle' = [handle EXCEPT ![p] = "none"]

\* A write that ends half-way leaves an unreadable file where it was writing.
HalfWritten(p) == handle[p] = "file" /\ files' = With(files, NextName(proc[p]), {})

\* An exception, in the middle of a file or elsewhere: it cannot be written, the temporary file
\* is missing or unreadable, or may not be renamed while another process has it open.
LeaveFile(p) ==
    \/ /\ ~Writing(p) \/ proc[p].file = "none"
       /\ UNCHANGED <<files, temps, handle>>
    \/ /\ Writing(p)
       /\ UnlinkTemp(p)
       /\ UNCHANGED files \/ HalfWritten(p)

----------------------------------------------------------------------------
(* Quality checks and the transactions. *)

\* split_current_and_closed_bars; of each kind the last bar is kept.
CurrentBars(bars, asOf) == {b \in bars : Closes(b.open) > asOf}
ClosedBars(bars, asOf) == {b \in bars : Closes(b.open) <= asOf}

\* Two bars of a list that follow one another.
Neighbours(bars) ==
    {e \in Opens(bars) \X Opens(bars) :
        e[1] < e[2] /\ \A k \in Opens(bars) : ~(e[1] < k /\ k < e[2])}

\* Faulty: a gap of one bar is not seen.
MissingWide(bars) ==
    {e[2] : e \in {d \in Neighbours(bars) : \E k \in Bars \ Weekend : Closes(d[1]) < k /\ k < d[2]}}

\* detect_missing_bars: the bars that follow a gap with a weekday in it.
MissingBefore(bars) ==
    {e[2] : e \in {d \in Neighbours(bars) : \E k \in Bars \ Weekend : d[1] < k /\ k < d[2]}}

\* detect_closed_bar_mutation: the closed bar on record, read again, is another.
Mutated(bar) ==
    /\ closedRow # None /\ closedRow.open = bar.open
    /\ <<closedRow.ticks, closedRow.rev>> # <<bar.ticks, bar.rev>>

(* The writes of SQLiteStateStore inside a transaction. *)

\* upsert_latest_tick, for every tick of the batch in their order, and the cursor of ticks.
UpsertLatestTick(batch) == tickRow' = IF batch = {} THEN tickRow ELSE [at |-> Max(batch)]

\* upsert_latest_bar for the last current bar, and advance_cursor to it, also backwards.
AdvanceCursor(current, from) ==
    currentRow' = IF current = {} THEN currentRow ELSE [bar |-> LastBar(current), from |-> from]

\* upsert_latest_bar for the last closed bar.
UpsertLatestBar(closed) == closedRow' = IF closed = {} THEN closedRow ELSE LastBar(closed)

\* record_incidents: an incident that is known is counted once more.
RecordIncidents(new) == incidents' = incidents \cup new

\* latest_bars, the cursor of bars and quality_incidents after a transaction.
PersistBars(bars, asOf, from) ==
    LET closed == ClosedBars(bars, asOf)
    IN  /\ AdvanceCursor(CurrentBars(bars, asOf), from)
        /\ UpsertLatestBar(closed)
        /\ RecordIncidents(
             {[kind |-> "missing_bars", bar |-> k] : k \in MissingBefore(bars)}
             \cup IF closed # {} /\ Mutated(LastBar(closed))
                  THEN {[kind |-> "closed_bar_mutation", bar |-> LastBar(closed).open]} ELSE {})

\* The transaction of _commit_symbol.
CommitSymbol(p) ==
    /\ proc[p].pc = "write_bars" /\ proc[p].days = {}
    /\ UpsertLatestTick(proc[p].batch)
    /\ PersistBars(proc[p].bars, proc[p].observed, proc[p].from)
    /\ Goto(p, [proc[p] EXCEPT !.pc = "heartbeat"])
    /\ UNCHANGED <<market, storage, backfills, calls, crashes>>

\* The heartbeat is a transaction of its own, to a table that no collection reads.
RecordHeartbeat(p) ==
    /\ proc[p].pc = "heartbeat"
    /\ Goto(p, Idle)
    /\ UNCHANGED <<market, storage, tickRow, currentRow, closedRow, incidents, backfills, calls, crashes>>

\* The last attempt fails, the broker's answer is refused, a file cannot be written or the
\* database stays locked: the exception ends the call.
CollectRaises(p) ==
    /\ proc[p].pc \in {"resolve", "ticks", "last_tick", "bars", "write_ticks", "write_bars", "heartbeat"}
    /\ LeaveFile(p)
    /\ Goto(p, Idle)
    /\ UNCHANGED <<market, tangled, tables, calls, crashes>>

----------------------------------------------------------------------------
(* backfill *)

\* The range may end in the future.  As a history value, observed is the time of the call, and
\* then, as long as the row of the range goes on, of the first call that it goes back to.
Backfill(p) ==
    /\ Starts(p)
    /\ \E r \in Ranges :
         r[1] < r[2] /\ Goto(p, [NewCall("bf_resolve") EXCEPT !.range = r, !.observed = now])
    /\ UNCHANGED <<market, storage, tables, crashes>>

\* The loop goes on from start, or is done.
FromChunk(r, start, asked) ==
    IF start < r[2] THEN [NewCall("bf_bars") EXCEPT !.range = r, !.start = start, !.observed = asked]
    ELSE Idle

\* get_backfill_state: where the backfill of this range was left, or its start.
NextStart(r) == IF backfills[r] = None THEN r[1] ELSE backfills[r].next

FirstAsked(p) ==
    LET row == backfills[proc[p].range] IN IF row = None THEN proc[p].observed ELSE row.asked

ReadBackfillState(p) ==
    /\ proc[p].pc = "bf_resolve"
    /\ Goto(p, FromChunk(proc[p].range, NextStart(proc[p].range), FirstAsked(p)))
    /\ UNCHANGED <<market, storage, tables, calls, crashes>>

\* Faulty: the window does not move when it has a single bar.
AdvanceWindowShort(r, start) == Min({r[2], start + BarLen * (Lookback - 1)})

\* advance_window
AdvanceWindow(r, start) == Min({r[2], start + BarLen * Lookback})

ChunkEnd(p) == AdvanceWindow(proc[p].range, proc[p].start)

\* An empty chunk has nothing to commit.
LoadChunk(p) ==
    /\ proc[p].pc = "bf_bars"
    /\ LET bars == LoadedBars(proc[p].start, ChunkEnd(p), ChunkEnd(p)) IN
         Goto(p, [proc[p] EXCEPT !.pc = IF bars = {} THEN "bf_state" ELSE "bf_write",
                    !.attempt = 1, !.bars = bars, !.days = Days(bars)])
    /\ UNCHANGED <<market, storage, tables, calls, crashes>>

\* The transaction of _commit_bars: what is closed is judged as of the close of the last bar.
CommitBars(p) ==
    /\ proc[p].pc = "bf_write" /\ proc[p].days = {}
    /\ PersistBars(proc[p].bars, Closes(LastBar(proc[p].bars).open), proc[p].start)
    /\ Goto(p, [proc[p] EXCEPT !.pc = "bf_state"])
    /\ UNCHANGED <<market, storage, tickRow, backfills, calls, crashes>>

SaveBackfill(p, next, status) ==
    /\ backfills' = [backfills EXCEPT ![proc[p].range] =
                       [next |-> next, status |-> status, asked |-> proc[p].observed]]
    /\ UNCHANGED <<market, storage, tickRow, currentRow, closedRow, incidents, calls, crashes>>

\* The progress of the backfill is another transaction.
SaveChunk(p) ==
    /\ proc[p].pc = "bf_state"
    /\ SaveBackfill(p, ChunkEnd(p), IF ChunkEnd(p) < proc[p].range[2] THEN "running" ELSE "complete")
    /\ Goto(p, FromChunk(proc[p].range, ChunkEnd(p), proc[p].observed))

BackfillRaises(p) ==
    /\ proc[p].pc \in {"bf_resolve", "bf_bars", "bf_write", "bf_state"}
    /\ LeaveFile(p)
    /\ Goto(p, IF proc[p].pc = "bf_resolve" THEN Idle
               ELSE [proc[p] EXCEPT !.pc = "bf_failed", !.file = "none"])
    /\ UNCHANGED <<market, tangled, tables, calls, crashes>>

\* Faulty: the chunk that failed is skipped by the next backfill.
SaveFailureSkipping(p) ==
    /\ proc[p].pc = "bf_failed"
    /\ SaveBackfill(p, ChunkEnd(p), "failed")
    /\ Goto(p, Idle)

\* The except branch: the failure is saved with the start of the chunk that failed.
SaveFailure(p) ==
    /\ proc[p].pc = "bf_failed"
    /\ SaveBackfill(p, proc[p].start, "failed")
    /\ Goto(p, Idle)

Crash(p) ==
    /\ crashes < MaxCrashes /\ proc[p] # Idle
    /\ UNCHANGED <<files, temps>> \/ (Writing(p) /\ proc[p].file = "open" /\ Written(p, {}))
    /\ handle' = [handle EXCEPT ![p] = "none"]
    /\ Goto(p, Idle)
    /\ crashes' = crashes + 1
    /\ UNCHANGED <<market, tangled, tables, calls>>

----------------------------------------------------------------------------

Work(p) ==
    \/ Retry(p) \/ ResolveSymbols(p) \/ Unresolved(p) \/ LoadTicks(p) \/ LoadLatestTick(p)
    \/ ReadBarCursor(p) \/ LoadBars(p) \/ WriteTicks(p)
    \/ OpenTemp(p) \/ FillTemp(p) \/ ValidateTemp(p) \/ ReplaceFile(p)
    \/ CommitSymbol(p) \/ RecordHeartbeat(p) \/ CollectRaises(p)
    \/ ReadBackfillState(p) \/ LoadChunk(p) \/ CommitBars(p) \/ SaveChunk(p)
    \/ BackfillRaises(p) \/ SaveFailure(p)

Next ==
    \/ Advance \/ Revise
    \/ \E p \in Procs : CollectOnce(p) \/ Backfill(p) \/ Work(p) \/ Crash(p)

Spec == Init /\ [][Next]_vars

\* A process that is inside a call goes on with it.
FairSpec == Spec /\ \A p \in Procs : WF_vars(Work(p))

----------------------------------------------------------------------------
(* Properties. *)

\* The rows and files have the shape the code gives them: what a file holds is what its name
\* tells, or it cannot be read; a process has a file open only while it fills one.
TypeOK ==
    /\ now \in 0..Horizon /\ ticks \subseteq 0..now /\ revised \subseteq Bars
    /\ \A f \in files \cup temps :
         f.bars \subseteq BarRecord /\ (f.bars = {} \/ f.name = FileName(f.name.day, f.bars))
    /\ \A p \in Procs : handle[p] # "none" => Writing(p) /\ proc[p].file = "open"
    /\ tickRow = None \/ tickRow.at \in ticks
    /\ currentRow = None \/ currentRow.bar \in BarRecord
    /\ closedRow = None \/ closedRow \in BarRecord
    /\ \A r \in Ranges : backfills[r] = None \/ backfills[r].next \in r[1]..r[2]

\* A file has the bar with all its ticks.
Archived(k) ==
    \E f \in files : \E b \in f.bars : b.open = k /\ b.ticks = Cardinality(BarTicks(k))

\* Two processes were writing a file of these bars at once.
Tangled(k) == \E name \in tangled : name.day = Day(k) /\ name.first <= k /\ k <= name.last

\* All bars are of one date.
OneDate == \A j, k \in Bars : Day(j) = Day(k)

\* The bars before the cursor, back to the first collection.
BehindCursor == {k \in Bars : currentRow # None /\ Exists(k) /\ currentRow.from <= k /\ k < currentRow.bar.open}

\* No bar is lost: every bar before the cursor, back to the first collection, is in the
\* Parquet files in its final form, although it is collected while it is still forming, and
\* although calls fail or crash at any step of writing the files and before the transaction.
\* This needs calls that do not overlap.
CursorArchived == \A k \in BehindCursor : Archived(k)

\* With overlapping calls the bars of a file that two processes were writing at once are to be
\* excepted: one can install what the other has only begun to write.
CursorCovered == \A k \in BehindCursor : Archived(k) \/ Tangled(k)

\* Gaps are reported: whenever two bars up to the cursor have a missing weekday bar between
\* them, there is an incident, although the two may come from different collections.
GapsReported ==
    currentRow # None =>
      \A j, k \in Bars :
        /\ Exists(j) /\ Exists(k) /\ \E m \in Bars \ Weekend : j < m /\ m < k
        /\ \A m \in Bars : j < m /\ m < k => ~Exists(m)
        /\ currentRow.from <= j /\ k <= currentRow.bar.open
        => [kind |-> "missing_bars", bar |-> k] \in incidents

\* A backfill that is complete has stored every bar of its range that had closed when it was
\* first called, however often it failed, crashed and was resumed.
BackfillComplete ==
    \A r \in Ranges : backfills[r] # None /\ backfills[r].status = "complete" =>
      \A k \in Bars : Exists(k) /\ r[1] <= k /\ k < r[2] /\ Closes(k) <= backfills[r].asked => Archived(k)

\* How many steps a call may still take, from where it is: tries of the attempt it is at, files to
\* write, chunks to read.  A batch has files of at most Horizon + 1 dates, of four steps each.
Tries(c) == MaxAttempts + 1 - c.attempt

FilesAllSteps == 4 * Horizon + 4

FileSteps(c) ==
    4 * Cardinality(c.days)
    - CASE c.file = "none" -> 0 [] c.file = "open" -> 1 [] c.file = "filled" -> 2 [] c.file = "checked" -> 3

ChunkSteps == MaxAttempts + FilesAllSteps + 4

\* After the chunk that a backfill is at.
ChunksAfter(c) == ChunkSteps * (c.range[2] - c.start - 1)

CollectSteps(c) ==
    LET toWrite == FilesAllSteps + 3
    IN  CASE c.pc = "resolve"     -> toWrite + 3 * MaxAttempts + 1 + Tries(c)
          [] c.pc = "ticks"       -> toWrite + 2 * MaxAttempts + 1 + Tries(c)
          [] c.pc = "last_tick"   -> toWrite + MaxAttempts + 1 + Tries(c)
          [] c.pc = "bar_cursor"  -> toWrite + MaxAttempts + 1
          [] c.pc = "bars"        -> toWrite + Tries(c)
          [] c.pc = "write_ticks" -> FileSteps(c) + 3
          [] c.pc = "write_bars"  -> FileSteps(c) + 2
          [] c.pc = "heartbeat"   -> 1

BackfillSteps(c) ==
    CASE c.pc = "bf_resolve" -> ChunkSteps * (c.range[2] - c.range[1]) + Tries(c)
      [] c.pc = "bf_bars"    -> ChunksAfter(c) + FilesAllSteps + 3 + Tries(c)
      [] c.pc = "bf_write"   -> ChunksAfter(c) + FileSteps(c) + 3
      [] c.pc = "bf_state"   -> ChunksAfter(c) + 2
      [] c.pc = "bf_failed"  -> 1

StepsLeft(c) ==
    IF c = Idle THEN 0 ELSE IF c.range = <<>> THEN CollectSteps(c) ELSE BackfillSteps(c)

\* A call comes closer to its end with each of its steps: no failed attempt, empty chunk, resumption
\* or backfill of another process makes it start over, nor does the window of a backfill stand still.
CallsRunOut ==
    [][\A p \in Procs : proc[p] # Idle /\ proc'[p] # proc[p] =>
         StepsLeft(proc'[p]) \in 0..StepsLeft(proc[p]) - 1]_vars

\* Every call returns: the retries and the chunks of a backfill end.
CallsReturn == \A p \in Procs : proc[p] # Idle ~> proc[p] = Idle
=============================================================================
