--------------------------- MODULE EvidenceArchive ---------------------------
(***************************************************************************)
(* The two hash-chained files of persistence/__init__.py: EvidenceArchive  *)
(* (evidence.ndjson and its manifest.json) and OutcomeLedger               *)
(* (ledger.ndjson), appended to by processes that share the directory      *)
(* through atomic_write, and copied by BackupManager while they change.    *)
(*                                                                         *)
(* A record keeps its item (an event, or a ledger payload with its kind)   *)
(* and previous_hash.  record_hash is the fingerprint of the item alone,   *)
(* and is modelled by the item: fingerprints are assumed not to collide.   *)
(* A step ends wherever a file is read, opened, written or replaced.       *)
(*                                                                         *)
(* Left out: items that validate_event_envelope refuses (append raises     *)
(* before it touches anything), export_redacted and verify (they change    *)
(* neither file), and a part-written temporary file: only Replace reads    *)
(* one, and two writers of one temporary file overlap.                     *)
(***************************************************************************)
EXTENDS Naturals, Sequences

CONSTANTS
    Procs,       \* processes that append
    Items,       \* events and ledger payloads
    Genesis,     \* the empty previous_hash of the first record
    MaxAppends,  \* bound: calls of append
    MaxFaults    \* bound: crashes and input/output errors

ASSUME ArchiveAssumption ==
    /\ Genesis \notin Items
    /\ MaxAppends \in Nat /\ MaxFaults \in Nat

VARIABLES
    file,        \* the records of evidence.ndjson and of ledger.ndjson; <<>>: no such file
    tmp,         \* the records of their .tmp- files; <<>>: no such file
    manifest,    \* manifest.json of the archive
    call,        \* where each process is in append
    backup,      \* a run of BackupManager.create
    acked,       \* history: what append has returned, and where the record went
    overlapped,  \* history: two appends to the file have run at the same time
    appends,     \* calls of append so far
    faults       \* crashes and input/output errors so far

vars == <<file, tmp, manifest, call, backup, acked, overlapped, appends, faults>>

Stores == {"evidence", "ledger"}

Record == [item : Items, previous : Items \cup {Genesis}]

\* Faulty: the hash of the first record.
FirstHash(f) == IF f = <<>> THEN Genesis ELSE f[1].item

\* record_hash of the last record, or "".
LastHash(f) == IF f = <<>> THEN Genesis ELSE f[Len(f)].item

\* _records and _entries raise unless every previous_hash is the hash before it.
Verifies(f) ==
    \A i \in 1..Len(f) : f[i].previous = IF i = 1 THEN Genesis ELSE f[i-1].item

----------------------------------------------------------------------------
(* append *)

Idle == [pc |-> "idle"]

InAppend(p, s) == call[p].pc # "idle" /\ call[p].store = s

\* The first half of append: the chain is read and verified, and its head becomes the
\* previous_hash of the new record.  A broken chain raises.
AppendRead(p, s, item) ==
    /\ call[p].pc = "idle"
    /\ appends < MaxAppends
    /\ Verifies(file[s])
    /\ call' = [call EXCEPT ![p] =
                  [pc |-> "existing", store |-> s, text |-> <<>>, count |-> 0, head |-> Genesis,
                   line |-> [item |-> item, previous |-> LastHash(file[s])]]]
    /\ overlapped' = [overlapped EXCEPT ![s] = @ \/ \E q \in Procs \ {p} : InAppend(q, s)]
    /\ appends' = appends + 1
    /\ UNCHANGED <<file, tmp, manifest, backup, acked, faults>>

ArchiveAppend(p) == \E item \in Items : AppendRead(p, "evidence", item)

LedgerAppend(p) == \E item \in Items : AppendRead(p, "ledger", item)

\* _writer reads the file a second time...
ReadExisting(p) ==
    /\ call[p].pc = "existing"
    /\ call' = [call EXCEPT ![p] =
                  [@ EXCEPT !.pc = "write", !.text = Append(file[call[p].store], call[p].line)]]
    /\ UNCHANGED <<file, tmp, manifest, backup, acked, overlapped, appends, faults>>

\* Faulty: the file itself is opened for writing, which empties it.
WriteInPlace(p) ==
    /\ call[p].pc = "write"
    /\ tmp' = [tmp EXCEPT ![call[p].store] = call[p].text]
    /\ file' = [file EXCEPT ![call[p].store] = <<>>]
    /\ call' = [call EXCEPT ![p].pc = "replace"]
    /\ UNCHANGED <<manifest, backup, acked, overlapped, appends, faults>>

\* ...and writes it with the new line to the temporary file, whose name all writers share.
WriteTemp(p) ==
    /\ call[p].pc = "write"
    /\ tmp' = [tmp EXCEPT ![call[p].store] = call[p].text]
    /\ call' = [call EXCEPT ![p].pc = "replace"]
    /\ UNCHANGED <<file, manifest, backup, acked, overlapped, appends, faults>>

Returned(p) ==
    acked \cup {[store |-> call[p].store, at |-> Len(call[p].text), line |-> call[p].line]}

\* os.replace.  The ledger's append returns here, the archive's goes on to its manifest.
Replace(p) ==
    LET s == call[p].store
    IN  /\ call[p].pc = "replace"
        /\ tmp[s] # <<>>
        /\ file' = [file EXCEPT ![s] = tmp[s]]
        /\ tmp' = [tmp EXCEPT ![s] = <<>>]
        /\ \/ /\ s = "ledger"
              /\ call' = [call EXCEPT ![p] = Idle]
              /\ acked' = Returned(p)
           \/ /\ s = "evidence"
              /\ call' = [call EXCEPT ![p].pc = "records"]
              /\ UNCHANGED acked
        /\ UNCHANGED <<manifest, backup, overlapped, appends, faults>>

\* The temporary file is gone, replaced by another process: FileNotFoundError.
ReplaceMissing(p) ==
    /\ call[p].pc = "replace"
    /\ tmp[call[p].store] = <<>>
    /\ call' = [call EXCEPT ![p] = Idle]
    /\ UNCHANGED <<file, tmp, manifest, backup, acked, overlapped, appends, faults>>

\* Faulty: the exception is swallowed, and append returns.
WriteRaisesSwallowed(p) ==
    /\ faults < MaxFaults
    /\ call[p].pc \in {"write", "replace"}
    /\ tmp' = [tmp EXCEPT ![call[p].store] = <<>>]
    /\ call' = [call EXCEPT ![p] = Idle]
    /\ acked' = Returned(p)
    /\ faults' = faults + 1
    /\ UNCHANGED <<file, manifest, backup, overlapped, appends>>

\* The write fails (a full disk), or the replacement does (a reader holds the file open):
\* atomic_write removes the temporary file and raises.
WriteRaises(p) ==
    /\ faults < MaxFaults
    /\ call[p].pc \in {"write", "replace"}
    /\ tmp' = [tmp EXCEPT ![call[p].store] = <<>>]
    /\ call' = [call EXCEPT ![p] = Idle]
    /\ faults' = faults + 1
    /\ UNCHANGED <<file, manifest, backup, acked, overlapped, appends>>

----------------------------------------------------------------------------
(* The archive's manifest *)

\* Faulty: the number of records is taken to be one more than was read.
ManifestReadOff(p) ==
    /\ call[p].pc = "records"
    /\ Verifies(file["evidence"])
    /\ call' = [call EXCEPT ![p] =
                  [@ EXCEPT !.pc = "open", !.count = Len(file["evidence"]) + 1,
                            !.head = LastHash(file["evidence"])]]
    /\ UNCHANGED <<file, tmp, manifest, backup, acked, overlapped, appends, faults>>

\* _write_manifest reads the file a third time; a broken chain raises, after the record was
\* stored.
ManifestRead(p) ==
    /\ call[p].pc = "records"
    /\ Verifies(file["evidence"])
    /\ call' = [call EXCEPT ![p] =
                  [@ EXCEPT !.pc = "open", !.count = Len(file["evidence"]),
                            !.head = LastHash(file["evidence"])]]
    /\ UNCHANGED <<file, tmp, manifest, backup, acked, overlapped, appends, faults>>

ManifestRaises(p) ==
    /\ call[p].pc = "records"
    /\ ~Verifies(file["evidence"])
    /\ call' = [call EXCEPT ![p] = Idle]
    /\ UNCHANGED <<file, tmp, manifest, backup, acked, overlapped, appends, faults>>

\* _json_dump is not atomic: write_text empties the file...
ManifestOpen(p) ==
    /\ call[p].pc = "open"
    /\ manifest' = [manifest EXCEPT !.whole = FALSE]
    /\ call' = [call EXCEPT ![p].pc = "dump"]
    /\ UNCHANGED <<file, tmp, backup, acked, overlapped, appends, faults>>

\* ...and fills it, and append returns.
ManifestWrite(p) ==
    /\ call[p].pc = "dump"
    /\ manifest' = [whole |-> TRUE, count |-> call[p].count, head |-> call[p].head]
    /\ acked' = Returned(p)
    /\ call' = [call EXCEPT ![p] = Idle]
    /\ UNCHANGED <<file, tmp, backup, overlapped, appends, faults>>

\* A process dies inside append; its temporary file stays.
Crash(p) ==
    /\ faults < MaxFaults
    /\ call[p].pc # "idle"
    /\ call' = [call EXCEPT ![p] = Idle]
    /\ faults' = faults + 1
    /\ UNCHANGED <<file, tmp, manifest, backup, acked, overlapped, appends>>

----------------------------------------------------------------------------
(* BackupManager.create.  Of the files it copies, in the order of their paths, the model     *)
(* keeps the two chains: nothing reads the manifest.json or the temporary files of a backup. *)

NoBackup == [pc |-> "idle", copy |-> [s \in Stores |-> <<>>], acked |-> {}]

\* acked is history: what was acknowledged before the backup began.
BackupStart ==
    /\ backup.pc = "idle"
    /\ backup' = [NoBackup EXCEPT !.pc = "evidence", !.acked = acked]
    /\ UNCHANGED <<file, tmp, manifest, call, acked, overlapped, appends, faults>>

BackupCopy(s, next) ==
    /\ backup.pc = s
    /\ backup' = [backup EXCEPT !.pc = next, !.copy[s] = file[s]]
    /\ UNCHANGED <<file, tmp, manifest, call, acked, overlapped, appends, faults>>

\* manifest.json of the backup, with the hashes of the copies: from here on verify accepts it.
BackupManifest ==
    /\ backup.pc = "manifest"
    /\ backup' = [backup EXCEPT !.pc = "done"]
    /\ UNCHANGED <<file, tmp, manifest, call, acked, overlapped, appends, faults>>

\* Faulty: a file that cannot be copied is skipped.
BackupSkips ==
    /\ faults < MaxFaults
    /\ backup.pc \in {"evidence", "ledger", "manifest"}
    /\ backup' = [backup EXCEPT !.pc = "manifest"]
    /\ faults' = faults + 1
    /\ UNCHANGED <<file, tmp, manifest, call, acked, overlapped, appends>>

\* A file cannot be copied, or the process dies: no manifest, and verify refuses the backup.
BackupRaises ==
    /\ faults < MaxFaults
    /\ backup.pc \in {"evidence", "ledger", "manifest"}
    /\ backup' = NoBackup
    /\ faults' = faults + 1
    /\ UNCHANGED <<file, tmp, manifest, call, acked, overlapped, appends>>

----------------------------------------------------------------------------

Init ==
    /\ file = [s \in Stores |-> <<>>]
    /\ tmp = [s \in Stores |-> <<>>]
    /\ manifest = [whole |-> TRUE, count |-> 0, head |-> Genesis]
    /\ call = [p \in Procs |-> Idle]
    /\ backup = NoBackup
    /\ acked = {}
    /\ overlapped = [s \in Stores |-> FALSE]
    /\ appends = 0
    /\ faults = 0

Next ==
    \/ \E p \in Procs :
         \/ ArchiveAppend(p) \/ LedgerAppend(p)
         \/ ReadExisting(p) \/ WriteTemp(p) \/ Replace(p) \/ ReplaceMissing(p) \/ WriteRaises(p)
         \/ ManifestRead(p) \/ ManifestRaises(p) \/ ManifestOpen(p) \/ ManifestWrite(p)
         \/ Crash(p)
    \/ BackupStart \/ BackupCopy("evidence", "ledger") \/ BackupCopy("ledger", "manifest")
    \/ BackupManifest \/ BackupRaises

Spec == Init /\ [][Next]_vars

----------------------------------------------------------------------------

Busy ==
    [pc : {"existing", "write", "replace", "records", "open", "dump"}, store : Stores,
     text : Seq(Record), count : Nat, head : Items \cup {Genesis}, line : Record]

\* The files hold records, and a process is idle or has what append's variables hold.
TypeOK ==
    /\ file \in [Stores -> Seq(Record)]
    /\ tmp \in [Stores -> Seq(Record)]
    /\ manifest \in [whole : BOOLEAN, count : Nat, head : Items \cup {Genesis}]
    /\ call \in [Procs -> Busy \cup {Idle}]
    /\ backup \in [pc : {"idle", "evidence", "ledger", "manifest", "done"},
                   copy : [Stores -> Seq(Record)],
                   acked : SUBSET [store : Stores, at : Nat, line : Record]]
    /\ acked \in SUBSET [store : Stores, at : Nat, line : Record]
    /\ overlapped \in [Stores -> BOOLEAN]
    /\ appends \in 0..MaxAppends
    /\ faults \in 0..MaxFaults

\* As long as appends to a file have not overlapped, its chain verifies, whatever crashed or
\* failed on the way: append and verify never meet "hash chain mismatch".
ChainIntact == \A s \in Stores : overlapped[s] \/ Verifies(file[s])

\* A record that append has returned is in the file, at the place it was written to.
HasAcked(f, s, acks) ==
    \A a \in acks : a.store = s => a.at \in 1..Len(f) /\ f[a.at] = a.line

AckedPresent == \A s \in Stores : overlapped[s] \/ HasAcked(file[s], s, acked)

\* A manifest that was written to its end describes a prefix of the archive: never a record
\* that is not there.
ManifestPrefix ==
    \/ overlapped["evidence"]
    \/ ~manifest.whole
    \/ /\ manifest.count \in 0..Len(file["evidence"])
       /\ manifest.head = IF manifest.count = 0 THEN Genesis
                          ELSE file["evidence"][manifest.count].item

\* A backup that verify accepts was taken while the files changed, yet its chains verify, and
\* it holds every record acknowledged before it began.
BackupSound ==
    backup.pc = "done" =>
      \A s \in Stores :
         \/ overlapped[s]
         \/ /\ Verifies(backup.copy[s])
            /\ HasAcked(backup.copy[s], s, backup.acked)

\* Without overlapping appends a file only grows, one record at its end at a time: no crash,
\* error or retry shortens it or changes what is stored.
AppendOnly ==
    [][\A s \in Stores :
         \/ overlapped'[s]
         \/ file'[s] = file[s]
         \/ \E r \in Record : file'[s] = Append(file[s], r)]_vars
=============================================================================
