------------------------ MODULE EvidenceArchiveProofs ------------------------
(* The invariants and the action property of EvidenceArchive, for every set of processes and *)
(* of items and every bound.                                                                 *)
EXTENDS EvidenceArchive, TLAPS

Stored == {"records", "open", "dump"}

\* What a process inside append knows of the file, as long as appends do not overlap: nobody
\* else has changed the file since it was read.
CallSound(p) ==
    LET c == call[p]
        f == file[c.store]
    IN  c.pc = "idle" \/ overlapped[c.store] \/
        /\ c.pc \in {"existing", "write", "replace"} => c.line.previous = LastHash(f)
        /\ c.pc \in {"write", "replace"} => c.text = Append(f, c.line)
        /\ c.pc = "replace" => tmp[c.store] = c.text
        /\ c.pc \in Stored => Len(c.text) \in 1..Len(f) /\ f[Len(c.text)] = c.line
        /\ c.pc \in {"open", "dump"} => c.count = Len(f) /\ c.head = LastHash(f)

CallsSound == \A p \in Procs : CallSound(p)

\* Only the archive has a manifest.
StoredInArchive == \A p \in Procs : call[p].pc \in Stored => call[p].store = "evidence"

OneCall ==
    \A s \in Stores : \A p, q \in Procs :
        ~overlapped[s] /\ InAppend(p, s) /\ InAppend(q, s) => p = q

\* A chain that was copied is as good as the file was.
CopySound(s) ==
    overlapped[s] \/ (Verifies(backup.copy[s]) /\ HasAcked(backup.copy[s], s, backup.acked))

BackupInv ==
    /\ backup.acked \subseteq acked
    /\ backup.pc \in {"ledger", "manifest", "done"} => CopySound("evidence")
    /\ backup.pc \in {"manifest", "done"} => CopySound("ledger")

IndInv ==
    /\ TypeOK
    /\ CallsSound
    /\ StoredInArchive
    /\ OneCall
    /\ ChainIntact
    /\ AckedPresent
    /\ ManifestPrefix
    /\ BackupInv

----------------------------------------------------------------------------
(* Records, chains and calls. *)

\* The last hash of a file is the item of its last record.
LEMMA LastHashType ==
    ASSUME NEW f \in Seq(Record)
    PROVE  LastHash(f) \in Items \cup {Genesis}
  <1>1. CASE f = <<>>
    BY <1>1 DEF LastHash
  <1>2. CASE f # <<>>
    <2>1. f[Len(f)] \in Record
      BY <1>2
    <2> QED BY <1>2, <2>1 DEF LastHash, Record
  <1> QED BY <1>1, <1>2

\* Appending a record whose previous_hash is the head keeps the chain.
LEMMA VerifiesAppend ==
    ASSUME NEW f \in Seq(Record), NEW r \in Record, Verifies(f), r.previous = LastHash(f)
    PROVE  Verifies(Append(f, r))
  BY DEF Verifies, LastHash

\* The record that was appended is the last one.
LEMMA LastOfAppend ==
    ASSUME NEW f \in Seq(Record), NEW r \in Record
    PROVE  Len(Append(f, r)) \in 1..Len(Append(f, r)) /\ Append(f, r)[Len(Append(f, r))] = r
  OBVIOUS

\* What was acknowledged stays at its place when a record is appended.
LEMMA HasAckedAppend ==
    ASSUME NEW f \in Seq(Record), NEW r \in Record, NEW s, NEW acks, HasAcked(f, s, acks)
    PROVE  HasAcked(Append(f, r), s, acks)
  BY DEF HasAcked

\* A call is idle, or has all the fields of append.
LEMMA CallFields ==
    ASSUME TypeOK, NEW p \in Procs, call[p].pc # "idle"
    PROVE  /\ call[p] \in Busy
           /\ call[p].store \in Stores
           /\ call[p].line \in Record
           /\ call[p].text \in Seq(Record)
           /\ call[p].count \in Nat
           /\ call[p].head \in Items \cup {Genesis}
  BY DEF TypeOK, Busy, Idle

\* A step of append that keeps the variables of the call and moves on.
LEMMA CallMoves ==
    ASSUME TypeOK, NEW p \in Procs, call[p].pc # "idle",
           NEW pc \in {"existing", "write", "replace", "records", "open", "dump"},
           call' = [call EXCEPT ![p].pc = pc] \/ call' = [call EXCEPT ![p] = Idle]
    PROVE  call' \in [Procs -> Busy \cup {Idle}]
  <1>1. [call[p] EXCEPT !.pc = pc] \in Busy
    BY CallFields DEF Busy
  <1> QED BY <1>1 DEF TypeOK

\* What append returns.
LEMMA ReturnedType ==
    ASSUME TypeOK, NEW p \in Procs, call[p].pc # "idle"
    PROVE  Returned(p) \in SUBSET [store : Stores, at : Nat, line : Record]
  <1>1. Len(call[p].text) \in Nat
    BY CallFields
  <1>2. [store |-> call[p].store, at |-> Len(call[p].text), line |-> call[p].line]
          \in [store : Stores, at : Nat, line : Record]
    BY <1>1, CallFields
  <1> QED BY <1>2 DEF Returned, TypeOK

\* The state keeps its shape.
LEMMA TypeStep ==
    ASSUME TypeOK, [Next]_vars
    PROVE  TypeOK'
  <1>0. file \in [Stores -> Seq(Record)] /\ tmp \in [Stores -> Seq(Record)]
    BY DEF TypeOK
  <1>1. ASSUME NEW p \in Procs, NEW s \in Stores, NEW item \in Items, AppendRead(p, s, item)
        PROVE  TypeOK'
    <2>1. LastHash(file[s]) \in Items \cup {Genesis}
      BY <1>0, LastHashType
    <2>2. [item |-> item, previous |-> LastHash(file[s])] \in Record
      BY <2>1 DEF Record
    <2>3. call' \in [Procs -> Busy \cup {Idle}]
      BY <1>1, <2>2 DEF AppendRead, TypeOK, Busy
    <2>4. appends' \in 0..MaxAppends
      BY <1>1, ArchiveAssumption DEF AppendRead, TypeOK
    <2>5. overlapped' \in [Stores -> BOOLEAN]
      BY <1>1, ZenonT(20) DEF AppendRead, TypeOK
    <2> QED BY <1>1, <2>3, <2>4, <2>5 DEF AppendRead, TypeOK
  <1>2. ASSUME NEW p \in Procs, ReadExisting(p) PROVE TypeOK'
    <2>1. Append(file[call[p].store], call[p].line) \in Seq(Record)
      BY <1>0, <1>2, CallFields DEF ReadExisting
    <2>3. [call[p] EXCEPT !.pc = "write", !.text = Append(file[call[p].store], call[p].line)] \in Busy
      BY <1>2, <2>1, CallFields DEF ReadExisting, Busy
    <2>2. call' \in [Procs -> Busy \cup {Idle}]
      BY <1>2, <2>3 DEF ReadExisting, TypeOK
    <2> QED BY <1>2, <2>2 DEF ReadExisting, TypeOK
  <1>3. ASSUME NEW p \in Procs, WriteTemp(p) PROVE TypeOK'
    <2>1. tmp' \in [Stores -> Seq(Record)]
      BY <1>0, <1>3, CallFields DEF WriteTemp
    <2>2. call' \in [Procs -> Busy \cup {Idle}]
      BY <1>3, CallMoves DEF WriteTemp
    <2> QED BY <1>3, <2>1, <2>2 DEF WriteTemp, TypeOK
  <1>4. ASSUME NEW p \in Procs, Replace(p) PROVE TypeOK'
    <2>1. file' \in [Stores -> Seq(Record)] /\ tmp' \in [Stores -> Seq(Record)]
      BY <1>0, <1>4, CallFields DEF Replace
    <2>2. call' \in [Procs -> Busy \cup {Idle}]
      BY <1>4, CallMoves DEF Replace
    <2>3. acked' \in SUBSET [store : Stores, at : Nat, line : Record]
      <3>1. call[p].pc # "idle" /\ (acked' = Returned(p) \/ acked' = acked)
        BY <1>4 DEF Replace
      <3>2. Returned(p) \in SUBSET [store : Stores, at : Nat, line : Record]
        BY <3>1, ReturnedType
      <3>3. acked \in SUBSET [store : Stores, at : Nat, line : Record]
        BY DEF TypeOK
      <3> QED BY <3>1, <3>2, <3>3
    <2> QED BY <1>4, <2>1, <2>2, <2>3 DEF Replace, TypeOK
  <1>5. ASSUME NEW p \in Procs, ReplaceMissing(p) \/ ManifestRaises(p) PROVE TypeOK'
    BY <1>5 DEF ReplaceMissing, ManifestRaises, TypeOK
  <1>6. ASSUME NEW p \in Procs, WriteRaises(p) PROVE TypeOK'
    <2>1. tmp' \in [Stores -> Seq(Record)]
      BY <1>0, <1>6, CallFields DEF WriteRaises
    <2>2. faults' \in 0..MaxFaults
      BY <1>6, ArchiveAssumption DEF WriteRaises, TypeOK
    <2> QED BY <1>6, <2>1, <2>2 DEF WriteRaises, TypeOK
  <1>7. ASSUME NEW p \in Procs, ManifestRead(p) PROVE TypeOK'
    <2>1. LastHash(file["evidence"]) \in Items \cup {Genesis} /\ Len(file["evidence"]) \in Nat
      BY <1>0, LastHashType DEF Stores
    <2>3. [call[p] EXCEPT !.pc = "open", !.count = Len(file["evidence"]),
                          !.head = LastHash(file["evidence"])] \in Busy
      BY <1>7, <2>1, CallFields DEF ManifestRead, Busy
    <2>2. call' \in [Procs -> Busy \cup {Idle}]
      BY <1>7, <2>3 DEF ManifestRead, TypeOK
    <2> QED BY <1>7, <2>2 DEF ManifestRead, TypeOK
  <1>8. ASSUME NEW p \in Procs, ManifestOpen(p) PROVE TypeOK'
    <2>1. call' \in [Procs -> Busy \cup {Idle}]
      BY <1>8, CallMoves DEF ManifestOpen
    <2> QED BY <1>8, <2>1 DEF ManifestOpen, TypeOK
  <1>9. ASSUME NEW p \in Procs, ManifestWrite(p) PROVE TypeOK'
    <2>1. acked' \in SUBSET [store : Stores, at : Nat, line : Record]
      BY <1>9, ReturnedType DEF ManifestWrite
    <2>2. manifest' \in [whole : BOOLEAN, count : Nat, head : Items \cup {Genesis}]
      BY <1>9, CallFields DEF ManifestWrite
    <2> QED BY <1>9, <2>1, <2>2 DEF ManifestWrite, TypeOK
  <1>10. ASSUME NEW p \in Procs, Crash(p) PROVE TypeOK'
    <2>1. faults' \in 0..MaxFaults
      BY <1>10, ArchiveAssumption DEF Crash, TypeOK
    <2> QED BY <1>10, <2>1 DEF Crash, TypeOK
  <1>11. CASE BackupStart
    <2>1. backup' = [pc |-> "evidence", copy |-> [s \in Stores |-> <<>>], acked |-> acked]
      BY <1>11 DEF BackupStart, NoBackup
    <2>2. [s \in Stores |-> <<>>] \in [Stores -> Seq(Record)]
      OBVIOUS
    <2>3. backup' \in [pc : {"idle", "evidence", "ledger", "manifest", "done"},
                       copy : [Stores -> Seq(Record)],
                       acked : SUBSET [store : Stores, at : Nat, line : Record]]
      BY <2>1, <2>2 DEF TypeOK
    <2> QED BY <1>11, <2>3 DEF BackupStart, TypeOK
  <1>12. ASSUME NEW s \in Stores, NEW next \in {"ledger", "manifest"}, BackupCopy(s, next)
         PROVE  TypeOK'
    <2>1. backup.copy \in [Stores -> Seq(Record)]
      BY DEF TypeOK
    <2>2. [backup.copy EXCEPT ![s] = file[s]] \in [Stores -> Seq(Record)]
      BY <1>0, <2>1
    <2>3. backup' = [backup EXCEPT !.pc = next, !.copy = [backup.copy EXCEPT ![s] = file[s]]]
      BY <1>12 DEF BackupCopy, TypeOK
    <2>4. backup' \in [pc : {"idle", "evidence", "ledger", "manifest", "done"},
                       copy : [Stores -> Seq(Record)],
                       acked : SUBSET [store : Stores, at : Nat, line : Record]]
      BY <2>2, <2>3 DEF TypeOK
    <2> QED BY <1>12, <2>4 DEF BackupCopy, TypeOK
  <1>13. CASE BackupManifest
    <2>1. backup' \in [pc : {"idle", "evidence", "ledger", "manifest", "done"},
                       copy : [Stores -> Seq(Record)],
                       acked : SUBSET [store : Stores, at : Nat, line : Record]]
      BY <1>13 DEF BackupManifest, TypeOK
    <2> QED BY <1>13, <2>1 DEF BackupManifest, TypeOK
  <1>14. CASE BackupRaises
    <2>1. faults' \in 0..MaxFaults
      BY <1>14, ArchiveAssumption DEF BackupRaises, TypeOK
    <2> QED BY <1>14, <2>1 DEF BackupRaises, NoBackup, TypeOK
  <1>15. CASE UNCHANGED vars
    BY <1>15 DEF vars, TypeOK, Busy, Idle
  <1> QED
    BY <1>1, <1>2, <1>3, <1>4, <1>5, <1>6, <1>7, <1>8, <1>9, <1>10, <1>11, <1>12, <1>13, <1>14, <1>15
       DEF Next, ArchiveAppend, LedgerAppend, Stores

----------------------------------------------------------------------------
(* How a step changes the files and the histories. *)

\* The file stays, or grows by a record whose previous_hash is the head.
Grows(s) ==
    \/ overlapped'[s]
    \/ file'[s] = file[s]
    \/ \E r \in Record : r.previous = LastHash(file[s]) /\ file'[s] = Append(file[s], r)

\* Only Replace changes a file, to the text that its process made of it.
LEMMA FileStep ==
    ASSUME IndInv, [Next]_vars
    PROVE  \A s \in Stores : Grows(s)
  <1>1. ASSUME NEW p \in Procs, Replace(p) PROVE \A s \in Stores : Grows(s)
    <2>1. /\ call[p].store \in Stores /\ call[p].line \in Record
          /\ file \in [Stores -> Seq(Record)] /\ overlapped' = overlapped
      BY <1>1, CallFields DEF Replace, IndInv, TypeOK
    <2>2. overlapped[call[p].store] \/
            /\ call[p].line.previous = LastHash(file[call[p].store])
            /\ tmp[call[p].store] = Append(file[call[p].store], call[p].line)
      BY <1>1 DEF Replace, IndInv, CallsSound, CallSound
    <2>3. file' = [file EXCEPT ![call[p].store] = tmp[call[p].store]]
      BY <1>1 DEF Replace
    <2> QED BY <2>1, <2>2, <2>3 DEF Grows
  <1>2. CASE UNCHANGED file
    BY <1>2 DEF Grows
  <1> QED
    BY <1>1, <1>2 DEF Next, ArchiveAppend, LedgerAppend, AppendRead, ReadExisting, WriteTemp,
       ReplaceMissing, WriteRaises, ManifestRead, ManifestRaises, ManifestOpen, ManifestWrite, Crash,
       BackupStart, BackupCopy, BackupManifest, BackupRaises, vars

\* Appends that overlapped have overlapped for good.
LEMMA OverlapStep ==
    ASSUME TypeOK, [Next]_vars, NEW s \in Stores, ~overlapped'[s]
    PROVE  ~overlapped[s]
  <1>1. ASSUME NEW p \in Procs, NEW t \in Stores, NEW item \in Items, AppendRead(p, t, item)
        PROVE  ~overlapped[s]
    BY <1>1, Zenon DEF AppendRead, TypeOK
  <1>2. CASE UNCHANGED overlapped
    BY <1>2
  <1> QED
    BY <1>1, <1>2 DEF Next, ArchiveAppend, LedgerAppend, ReadExisting, WriteTemp, Replace, Stores,
       ReplaceMissing, WriteRaises, ManifestRead, ManifestRaises, ManifestOpen, ManifestWrite, Crash,
       BackupStart, BackupCopy, BackupManifest, BackupRaises, vars

\* The chain of a file that grows this way verifies.
LEMMA ChainStep ==
    ASSUME IndInv, [Next]_vars
    PROVE  ChainIntact'
  <1> SUFFICES ASSUME NEW s \in Stores, ~overlapped'[s] PROVE Verifies(file'[s])
    BY DEF ChainIntact, Verifies
  <1>1. Verifies(file[s]) /\ file[s] \in Seq(Record)
    <2>1. ~overlapped[s]
      BY OverlapStep DEF IndInv
    <2>2. file[s] \in Seq(Record)
      BY DEF IndInv, TypeOK
    <2> QED BY <2>1, <2>2 DEF IndInv, ChainIntact
  <1>2. CASE file'[s] = file[s]
    BY <1>1, <1>2
  <1>3. ASSUME NEW r \in Record, r.previous = LastHash(file[s]), file'[s] = Append(file[s], r)
        PROVE  Verifies(file'[s])
    BY <1>1, <1>3, VerifiesAppend
  <1>4. Grows(s)
    BY FileStep
  <1> QED BY <1>2, <1>3, <1>4 DEF Grows

\* What was acknowledged stays when a file grows this way.
LEMMA AckedStays ==
    ASSUME IndInv, [Next]_vars, NEW s \in Stores, ~overlapped'[s]
    PROVE  HasAcked(file'[s], s, acked)
  <1>1. HasAcked(file[s], s, acked) /\ file[s] \in Seq(Record)
    <2>1. ~overlapped[s]
      BY OverlapStep DEF IndInv
    <2>2. file[s] \in Seq(Record)
      BY DEF IndInv, TypeOK
    <2> QED BY <2>1, <2>2 DEF IndInv, AckedPresent
  <1>2. CASE file'[s] = file[s]
    BY <1>1, <1>2
  <1>3. ASSUME NEW r \in Record, file'[s] = Append(file[s], r)
        PROVE  HasAcked(file'[s], s, acked)
    BY <1>1, <1>3, HasAckedAppend
  <1>4. Grows(s)
    BY FileStep
  <1> QED BY <1>2, <1>3, <1>4 DEF Grows

\* append returns a record when the record is in the file.
LEMMA AckedStep ==
    ASSUME IndInv, [Next]_vars
    PROVE  AckedPresent'
  <1> SUFFICES ASSUME NEW s \in Stores, ~overlapped'[s] PROVE HasAcked(file'[s], s, acked')
    BY DEF AckedPresent, HasAcked
  <1>1. HasAcked(file'[s], s, acked) /\ ~overlapped[s]
    <2>1. TypeOK
      BY DEF IndInv
    <2> QED BY <2>1, AckedStays, OverlapStep
  <1>2. CASE acked' = acked
    BY <1>1, <1>2
  <1>3. ASSUME NEW p \in Procs, acked' = Returned(p), Replace(p) \/ ManifestWrite(p),
               Replace(p) => call[p].store = "ledger"
        PROVE  HasAcked(file'[s], s, acked')
    <2>1. /\ call[p] \in Busy /\ call[p].line \in Record /\ call[p].text \in Seq(Record)
          /\ file \in [Stores -> Seq(Record)]
      BY <1>3, CallFields DEF IndInv, TypeOK, Replace, ManifestWrite
    <2>2. CASE call[p].store # s
      BY <1>1, <1>3, <2>2 DEF HasAcked, Returned
    <2>3. CASE call[p].store = s /\ Replace(p)
      <3>1. file'[s] = Append(file[s], call[p].line) /\ call[p].text = Append(file[s], call[p].line)
        BY <1>1, <2>1, <2>3 DEF IndInv, CallsSound, CallSound, Replace
      <3>2. Len(call[p].text) \in 1..Len(file'[s]) /\ file'[s][Len(call[p].text)] = call[p].line
        BY <2>1, <3>1
      <3> QED BY <1>1, <1>3, <2>3, <3>2 DEF HasAcked, Returned
    <2>4. CASE call[p].store = s /\ ManifestWrite(p)
      <3>1. Len(call[p].text) \in 1..Len(file'[s]) /\ file'[s][Len(call[p].text)] = call[p].line
        BY <1>1, <2>1, <2>4 DEF IndInv, CallsSound, CallSound, ManifestWrite, Stored
      <3> QED BY <1>1, <1>3, <2>4, <3>1 DEF HasAcked, Returned
    <2> QED BY <1>3, <2>2, <2>3, <2>4
  <1> QED
    BY <1>2, <1>3 DEF Next, ArchiveAppend, LedgerAppend, AppendRead, ReadExisting, WriteTemp, Replace,
       ReplaceMissing, WriteRaises, ManifestRead, ManifestRaises, ManifestOpen, ManifestWrite, Crash,
       BackupStart, BackupCopy, BackupManifest, BackupRaises, vars

----------------------------------------------------------------------------
(* What a call knows of the file. *)

\* At most one process is inside append, as long as appends have not overlapped.
LEMMA OneCallStep ==
    ASSUME IndInv, [Next]_vars
    PROVE  OneCall'
  <1>1. ASSUME NEW p \in Procs, NEW s \in Stores, NEW item \in Items, AppendRead(p, s, item)
        PROVE  OneCall'
    <2> SUFFICES ASSUME NEW t \in Stores, NEW q \in Procs, NEW r \in Procs, ~overlapped'[t],
                        InAppend(q, t)', InAppend(r, t)'
                 PROVE  q = r
      BY DEF OneCall
    <2>1. ~overlapped[t]
      BY OverlapStep DEF IndInv
    <2>2. \A x \in Procs : x # p => call'[x] = call[x]
      BY <1>1 DEF AppendRead, IndInv, TypeOK
    <2>3. call'[p].store = s
      BY <1>1 DEF AppendRead, IndInv, TypeOK
    <2>4. t = s => \A x \in Procs \ {p} : ~InAppend(x, s)
      BY <1>1 DEF AppendRead, IndInv, TypeOK
    <2>5. CASE q = p \/ r = p
      BY <2>2, <2>3, <2>4, <2>5 DEF InAppend
    <2>6. CASE q # p /\ r # p
      BY <2>1, <2>2, <2>6 DEF InAppend, IndInv, OneCall
    <2> QED BY <2>5, <2>6
  <1>2. ASSUME NEW p \in Procs, call[p].pc # "idle", UNCHANGED overlapped,
               \A x \in Procs : x # p => call'[x] = call[x],
               call'[p].pc = "idle" \/ call'[p].store = call[p].store
        PROVE  OneCall'
    BY <1>2 DEF OneCall, InAppend, IndInv
  <1>3. CASE UNCHANGED <<call, overlapped>>
    BY <1>3 DEF OneCall, InAppend, IndInv
  <1>4. ASSUME NEW p \in Procs,
               \/ ReadExisting(p) \/ WriteTemp(p) \/ Replace(p) \/ ReplaceMissing(p) \/ WriteRaises(p)
               \/ ManifestRead(p) \/ ManifestRaises(p) \/ ManifestOpen(p) \/ ManifestWrite(p) \/ Crash(p)
        PROVE  OneCall'
    <2>1. call[p].pc # "idle" /\ UNCHANGED overlapped
      BY <1>4 DEF ReadExisting, WriteTemp, Replace, ReplaceMissing, WriteRaises, ManifestRead,
         ManifestRaises, ManifestOpen, ManifestWrite, Crash
    <2>2. call[p] \in Busy
      BY <2>1, CallFields DEF IndInv
    <2>3. \A x \in Procs : x # p => call'[x] = call[x]
      BY <1>4 DEF ReadExisting, WriteTemp, Replace, ReplaceMissing, WriteRaises, ManifestRead,
         ManifestRaises, ManifestOpen, ManifestWrite, Crash, IndInv, TypeOK
    <2>4. call'[p].pc = "idle" \/ call'[p].store = call[p].store
      <3>1. CASE ReadExisting(p)
        BY <2>2, <3>1 DEF ReadExisting, IndInv, TypeOK, Busy
      <3>2. CASE ManifestRead(p)
        BY <2>2, <3>2 DEF ManifestRead, IndInv, TypeOK, Busy
      <3>3. CASE WriteTemp(p) \/ Replace(p) \/ ManifestOpen(p)
        BY <2>2, <3>3 DEF WriteTemp, Replace, ManifestOpen, IndInv, TypeOK, Busy, Idle
      <3>4. CASE ReplaceMissing(p) \/ WriteRaises(p) \/ ManifestRaises(p) \/ ManifestWrite(p) \/ Crash(p)
        BY <3>4 DEF ReplaceMissing, WriteRaises, ManifestRaises, ManifestWrite, Crash, IndInv, TypeOK, Idle
      <3> QED BY <1>4, <3>1, <3>2, <3>3, <3>4
    <2> QED BY <1>2, <2>1, <2>3, <2>4
  <1> QED
    BY <1>1, <1>3, <1>4 DEF Next, ArchiveAppend, LedgerAppend, Stores,
       BackupStart, BackupCopy, BackupManifest, BackupRaises, vars

\* Only an append to the archive goes on to the manifest.
LEMMA StoredStep ==
    ASSUME IndInv, [Next]_vars
    PROVE  StoredInArchive'
  <1>0. call \in [Procs -> Busy \cup {Idle}] /\ StoredInArchive
    BY DEF IndInv, TypeOK
  <1>1. ASSUME NEW p \in Procs, ReadExisting(p) \/ WriteTemp(p) PROVE StoredInArchive'
    <2>1. call[p] \in Busy
      BY <1>1, CallFields DEF ReadExisting, WriteTemp, IndInv
    <2>2. call'[p].pc \notin Stored /\ \A q \in Procs : q # p => call'[q] = call[q]
      <3>1. CASE ReadExisting(p)
        BY <1>0, <2>1, <3>1 DEF ReadExisting, Stored, Busy
      <3>2. CASE WriteTemp(p)
        BY <1>0, <2>1, <3>2 DEF WriteTemp, Stored, Busy
      <3> QED BY <1>1, <3>1, <3>2
    <2> QED BY <1>0, <2>2 DEF StoredInArchive
  <1>2. ASSUME NEW p \in Procs, Replace(p) PROVE StoredInArchive'
    <2>1. call[p] \in Busy
      BY <1>2, CallFields DEF Replace, IndInv
    <2>2. /\ call'[p].pc = "idle" \/ call'[p].store = "evidence"
          /\ \A q \in Procs : q # p => call'[q] = call[q]
      <3>1. CASE call' = [call EXCEPT ![p] = Idle]
        BY <1>0, <3>1 DEF Idle
      <3>2. CASE call[p].store = "evidence" /\ call' = [call EXCEPT ![p].pc = "records"]
        BY <1>0, <2>1, <3>2 DEF Busy
      <3> QED BY <1>2, <3>1, <3>2 DEF Replace
    <2> QED BY <1>0, <2>2 DEF StoredInArchive, Stored
  <1>3. ASSUME NEW p \in Procs, ManifestRead(p) \/ ManifestOpen(p) PROVE StoredInArchive'
    <2>1. call[p] \in Busy
      BY <1>3, CallFields DEF ManifestRead, ManifestOpen, IndInv
    <2>2. call[p].pc \in Stored /\ call[p].store = "evidence"
      BY <1>0, <1>3 DEF ManifestRead, ManifestOpen, StoredInArchive, Stored
    <2>3. call'[p].store = "evidence" /\ \A q \in Procs : q # p => call'[q] = call[q]
      <3>1. CASE ManifestRead(p)
        BY <1>0, <2>1, <2>2, <3>1 DEF ManifestRead, Busy
      <3>2. CASE ManifestOpen(p)
        BY <1>0, <2>1, <2>2, <3>2 DEF ManifestOpen, Busy
      <3> QED BY <1>3, <3>1, <3>2
    <2> QED BY <1>0, <2>3 DEF StoredInArchive
  <1>4. ASSUME NEW p \in Procs,
               ReplaceMissing(p) \/ WriteRaises(p) \/ ManifestRaises(p) \/ ManifestWrite(p) \/ Crash(p)
        PROVE  StoredInArchive'
    BY <1>0, <1>4 DEF ReplaceMissing, WriteRaises, ManifestRaises, ManifestWrite, Crash,
       StoredInArchive, Stored, Idle
  <1>5. ASSUME NEW p \in Procs, NEW s \in Stores, NEW item \in Items, AppendRead(p, s, item)
        PROVE  StoredInArchive'
    BY <1>0, <1>5 DEF AppendRead, StoredInArchive, Stored
  <1>6. CASE UNCHANGED call
    BY <1>0, <1>6 DEF StoredInArchive
  <1> QED
    BY <1>1, <1>2, <1>3, <1>4, <1>5, <1>6 DEF Next, ArchiveAppend, LedgerAppend, Stores,
       BackupStart, BackupCopy, BackupManifest, BackupRaises, vars

\* The calls of the other processes: a step of one process changes only the file it appends to,
\* and nobody else is appending to it.
LEMMA OtherCalls ==
    ASSUME IndInv, [Next]_vars, NEW p \in Procs, call[p].pc # "idle",
           \A t \in Stores \ {call[p].store} : file'[t] = file[t] /\ tmp'[t] = tmp[t],
           NEW q \in Procs \ {p}, call'[q] = call[q]
    PROVE  CallSound(q)'
  <1>1. CASE call[q].pc = "idle"
    BY <1>1 DEF CallSound
  <1>2. CASE call[q].pc # "idle"
    <2>1. call[q].store \in Stores /\ call[q] \in Busy
      BY <1>2, CallFields DEF IndInv
    <2>2. CASE overlapped'[call[q].store]
      BY <2>2 DEF CallSound
    <2>3. CASE ~overlapped'[call[q].store]
      <3>1. ~overlapped[call[q].store]
        BY <2>1, <2>3, OverlapStep DEF IndInv
      <3>2. call[q].store # call[p].store
        BY <1>2, <2>1, <3>1 DEF IndInv, OneCall, InAppend
      <3>3. file'[call[q].store] = file[call[q].store] /\ tmp'[call[q].store] = tmp[call[q].store]
        BY <2>1, <3>2
      <3> QED BY <1>2, <3>1, <3>3 DEF IndInv, CallsSound, CallSound
    <2> QED BY <2>2, <2>3
  <1> QED BY <1>1, <1>2

\* Every step of a call keeps what the call knows, and hands it to the next step.
LEMMA CallsStep ==
    ASSUME IndInv, [Next]_vars
    PROVE  CallsSound'
  <1>0. TypeOK /\ file \in [Stores -> Seq(Record)] /\ tmp \in [Stores -> Seq(Record)]
        /\ overlapped \in [Stores -> BOOLEAN] /\ call \in [Procs -> Busy \cup {Idle}]
    BY DEF IndInv, TypeOK
  <1>1. ASSUME NEW p \in Procs, NEW s \in Stores, NEW item \in Items, AppendRead(p, s, item)
        PROVE  CallsSound'
    <2>1. CallSound(p)'
      BY <1>0, <1>1 DEF AppendRead, CallSound, Stored
    <2>2. ASSUME NEW q \in Procs, q # p PROVE CallSound(q)'
      <3>1. call'[q] = call[q] /\ file' = file /\ tmp' = tmp
        BY <1>0, <1>1, <2>2 DEF AppendRead
      <3>2. CASE call[q].pc = "idle"
        BY <3>1, <3>2 DEF CallSound
      <3>3. CASE call[q].pc # "idle"
        <4>1. call[q].store \in Stores
          BY <1>0, <3>3, CallFields
        <4>2. ~overlapped'[call[q].store] => ~overlapped[call[q].store]
          BY <1>0, <4>1, OverlapStep
        <4> QED BY <3>1, <3>3, <4>2 DEF CallSound, IndInv, CallsSound
      <3> QED BY <3>2, <3>3
    <2> QED BY <2>1, <2>2 DEF CallsSound
  <1>2. ASSUME NEW p \in Procs, call[p].pc # "idle", CallSound(p)',
               \A q \in Procs : q # p => call'[q] = call[q],
               \A t \in Stores \ {call[p].store} : file'[t] = file[t] /\ tmp'[t] = tmp[t]
        PROVE  CallsSound'
    BY <1>2, OtherCalls DEF CallsSound
  <1>3. ASSUME NEW p \in Procs, ReadExisting(p) PROVE CallsSound'
    <2>1. call[p] \in Busy /\ CallSound(p)
      BY <1>0, <1>3, CallFields DEF ReadExisting, IndInv, CallsSound
    <2>2. CallSound(p)'
      BY <1>0, <1>3, <2>1 DEF ReadExisting, CallSound, Busy, Stored
    <2> QED BY <1>0, <1>2, <1>3, <2>2 DEF ReadExisting
  <1>4. ASSUME NEW p \in Procs, WriteTemp(p) PROVE CallsSound'
    <2>1. call[p] \in Busy /\ CallSound(p)
      BY <1>0, <1>4, CallFields DEF WriteTemp, IndInv, CallsSound
    <2>2. CallSound(p)'
      BY <1>0, <1>4, <2>1 DEF WriteTemp, CallSound, Busy, Stored
    <2> QED BY <1>0, <1>2, <1>4, <2>2 DEF WriteTemp
  <1>5. ASSUME NEW p \in Procs, Replace(p) PROVE CallsSound'
    <2>1. call[p] \in Busy /\ CallSound(p) /\ call[p].line \in Record
      BY <1>0, <1>5, CallFields DEF Replace, IndInv, CallsSound
    <2>2. CASE call[p].store = "ledger"
      <3>1. CallSound(p)'
        BY <1>0, <1>5, <2>2 DEF Replace, CallSound, Idle
      <3> QED BY <1>0, <1>2, <1>5, <3>1 DEF Replace
    <2>3. CASE call[p].store = "evidence"
      <3>1. call'[p] = [call[p] EXCEPT !.pc = "records"] /\ overlapped' = overlapped
        BY <1>0, <1>5, <2>3 DEF Replace
      <3>2. overlapped["evidence"] \/
              /\ file'["evidence"] = Append(file["evidence"], call[p].line)
              /\ call[p].text = Append(file["evidence"], call[p].line)
        BY <1>0, <1>5, <2>1, <2>3 DEF Replace, CallSound, Busy
      <3>3. CASE overlapped["evidence"]
        <4>1. CallSound(p)'
          BY <2>1, <2>3, <3>1, <3>3 DEF CallSound, Busy
        <4> QED BY <1>0, <1>2, <1>5, <4>1 DEF Replace
      <3>4. CASE ~overlapped["evidence"]
        <4>1. file["evidence"] \in Seq(Record)
          BY <1>0 DEF Stores
        <4>2. /\ Len(call[p].text) \in 1..Len(file'["evidence"])
              /\ file'["evidence"][Len(call[p].text)] = call[p].line
          BY <2>1, <3>2, <3>4, <4>1, LastOfAppend
        <4>3. CallSound(p)'
          BY <2>1, <2>3, <3>1, <4>2 DEF CallSound, Busy, Stored
        <4> QED BY <1>0, <1>2, <1>5, <4>3 DEF Replace
      <3> QED BY <3>3, <3>4
    <2> QED BY <2>1, <2>2, <2>3 DEF Busy, Stores
  <1>6. ASSUME NEW p \in Procs,
               ReplaceMissing(p) \/ WriteRaises(p) \/ ManifestRaises(p) \/ ManifestWrite(p) \/ Crash(p)
        PROVE  CallsSound'
    <2>1. CallSound(p)'
      BY <1>0, <1>6 DEF ReplaceMissing, WriteRaises, ManifestRaises, ManifestWrite, Crash, CallSound, Idle
    <2>2. call[p].pc # "idle"
      BY <1>6 DEF ReplaceMissing, WriteRaises, ManifestRaises, ManifestWrite, Crash
    <2>3. \A t \in Stores \ {call[p].store} : file'[t] = file[t] /\ tmp'[t] = tmp[t]
      BY <1>0, <1>6 DEF ReplaceMissing, WriteRaises, ManifestRaises, ManifestWrite, Crash
    <2>4. \A q \in Procs : q # p => call'[q] = call[q]
      BY <1>0, <1>6 DEF ReplaceMissing, WriteRaises, ManifestRaises, ManifestWrite, Crash
    <2> QED BY <1>2, <2>1, <2>2, <2>3, <2>4
  <1>7. ASSUME NEW p \in Procs, ManifestRead(p) PROVE CallsSound'
    <2>1. call[p] \in Busy /\ CallSound(p) /\ call[p].store = "evidence"
      BY <1>0, <1>7, CallFields DEF ManifestRead, IndInv, CallsSound, StoredInArchive, Stored
    <2>2. call'[p] = [call[p] EXCEPT !.pc = "open", !.count = Len(file["evidence"]),
                                     !.head = LastHash(file["evidence"])]
      BY <1>0, <1>7 DEF ManifestRead
    <2>3. /\ call'[p].pc = "open" /\ call'[p].store = "evidence" /\ call'[p].text = call[p].text
          /\ call'[p].line = call[p].line /\ call'[p].count = Len(file["evidence"])
          /\ call'[p].head = LastHash(file["evidence"])
      BY <2>1, <2>2 DEF Busy
    <2>4. CallSound(p)'
      BY <1>7, <2>1, <2>3 DEF ManifestRead, CallSound, Stored
    <2> QED BY <1>0, <1>2, <1>7, <2>4 DEF ManifestRead
  <1>8. ASSUME NEW p \in Procs, ManifestOpen(p) PROVE CallsSound'
    <2>1. call[p] \in Busy /\ CallSound(p)
      BY <1>0, <1>8, CallFields DEF ManifestOpen, IndInv, CallsSound
    <2>2. CallSound(p)'
      BY <1>0, <1>8, <2>1 DEF ManifestOpen, CallSound, Busy, Stored
    <2> QED BY <1>0, <1>2, <1>8, <2>2 DEF ManifestOpen
  <1>9. CASE UNCHANGED <<file, tmp, call, overlapped>>
    BY <1>9 DEF IndInv, CallsSound, CallSound
  <1> QED
    BY <1>1, <1>3, <1>4, <1>5, <1>6, <1>7, <1>8, <1>9 DEF Next, ArchiveAppend, LedgerAppend, Stores,
       BackupStart, BackupCopy, BackupManifest, BackupRaises, vars

----------------------------------------------------------------------------
(* The manifest and the backup. *)

\* The manifest is empty, or is what was read of a file that has only grown since.
LEMMA ManifestStep ==
    ASSUME IndInv, [Next]_vars
    PROVE  ManifestPrefix'
  <1>0. /\ file["evidence"] \in Seq(Record) /\ "evidence" \in Stores
        /\ manifest.count \in Nat
    BY DEF IndInv, TypeOK, Stores
  <1> SUFFICES ASSUME ~overlapped'["evidence"], manifest'.whole
               PROVE  /\ manifest'.count \in 0..Len(file'["evidence"])
                      /\ manifest'.head = IF manifest'.count = 0 THEN Genesis
                                         ELSE file'["evidence"][manifest'.count].item
    BY DEF ManifestPrefix
  <1>1. ~overlapped["evidence"]
    BY <1>0, OverlapStep DEF IndInv
  <1>2. CASE UNCHANGED manifest
    <2>1. /\ manifest.count \in 0..Len(file["evidence"])
          /\ manifest.head = IF manifest.count = 0 THEN Genesis
                             ELSE file["evidence"][manifest.count].item
      BY <1>1, <1>2 DEF IndInv, ManifestPrefix
    <2>2. CASE file'["evidence"] = file["evidence"]
      BY <1>2, <2>1, <2>2
    <2>3. ASSUME NEW r \in Record, file'["evidence"] = Append(file["evidence"], r)
          PROVE  /\ manifest.count \in 0..Len(file'["evidence"])
                 /\ manifest.count # 0 =>
                      file'["evidence"][manifest.count] = file["evidence"][manifest.count]
      BY <1>0, <2>1, <2>3
    <2> QED BY <1>0, <1>2, <2>1, <2>2, <2>3, FileStep DEF Grows
  <1>3. ASSUME NEW p \in Procs, ManifestWrite(p)
        PROVE  /\ manifest'.count \in 0..Len(file'["evidence"])
               /\ manifest'.head = IF manifest'.count = 0 THEN Genesis
                                  ELSE file'["evidence"][manifest'.count].item
    <2>1. call[p] \in Busy /\ CallSound(p) /\ call[p].pc = "dump"
      BY <1>3, CallFields DEF ManifestWrite, IndInv, CallsSound
    <2>2. call[p].store = "evidence"
      BY <2>1 DEF IndInv, StoredInArchive, Stored
    <2>3. call[p].count = Len(file["evidence"]) /\ call[p].head = LastHash(file["evidence"])
      BY <1>1, <2>1, <2>2 DEF CallSound
    <2>4. /\ manifest'.count = Len(file["evidence"]) /\ manifest'.head = LastHash(file["evidence"])
          /\ file' = file
      BY <1>3, <2>3 DEF ManifestWrite
    <2> QED BY <1>0, <2>4 DEF LastHash
  <1>4. ASSUME NEW p \in Procs, ManifestOpen(p) PROVE FALSE
    BY <1>4 DEF ManifestOpen, IndInv, TypeOK
  <1> QED
    BY <1>2, <1>3, <1>4 DEF Next, ArchiveAppend, LedgerAppend, AppendRead, ReadExisting, WriteTemp, Replace,
       ReplaceMissing, WriteRaises, ManifestRead, ManifestRaises, Crash,
       BackupStart, BackupCopy, BackupManifest, BackupRaises, vars

\* What was copied stays, and was sound when it was copied.
LEMMA BackupStep ==
    ASSUME IndInv, [Next]_vars
    PROVE  BackupInv'
  <1>0. acked \subseteq acked'
    BY DEF Next, ArchiveAppend, LedgerAppend, AppendRead, ReadExisting, WriteTemp, Replace,
       ReplaceMissing, WriteRaises, ManifestRead, ManifestRaises, ManifestOpen, ManifestWrite, Crash,
       BackupStart, BackupCopy, BackupManifest, BackupRaises, vars, Returned
  <1>1. \A s \in Stores : ~overlapped'[s] => ~overlapped[s]
    BY OverlapStep DEF IndInv
  <1>2. ASSUME NEW s \in Stores, backup'.copy[s] = backup.copy[s], backup'.acked = backup.acked,
               CopySound(s)
        PROVE  CopySound(s)'
    BY <1>1, <1>2 DEF CopySound
  <1>3. ASSUME NEW s \in Stores, NEW next, BackupCopy(s, next)
        PROVE  CopySound(s)' /\ backup'.acked = backup.acked /\ backup'.pc = next
               /\ \A t \in Stores : t # s => backup'.copy[t] = backup.copy[t]
    <2>1. /\ backup'.acked = backup.acked /\ backup'.pc = next
          /\ backup'.copy = [backup.copy EXCEPT ![s] = file[s]] /\ overlapped' = overlapped
      BY <1>3 DEF BackupCopy, IndInv, TypeOK
    <2>2. backup.copy \in [Stores -> Seq(Record)]
      BY DEF IndInv, TypeOK
    <2>3. overlapped[s] \/ (Verifies(file[s]) /\ HasAcked(file[s], s, acked))
      BY DEF IndInv, ChainIntact, AckedPresent
    <2>4. overlapped[s] \/ (Verifies(file[s]) /\ HasAcked(file[s], s, backup.acked))
      BY <2>3 DEF HasAcked, IndInv, BackupInv
    <2>5. backup'.copy[s] = file[s] /\ \A t \in Stores : t # s => backup'.copy[t] = backup.copy[t]
      BY <2>1, <2>2
    <2> QED BY <2>1, <2>4, <2>5 DEF CopySound
  <1>4. CASE BackupCopy("evidence", "ledger")
    BY <1>0, <1>3, <1>4 DEF BackupInv, IndInv, Stores
  <1>5. CASE BackupCopy("ledger", "manifest")
    <2>1. backup.pc = "ledger" /\ CopySound("evidence")
      BY <1>5 DEF BackupCopy, IndInv, BackupInv
    <2>2. CopySound("evidence")'
      BY <1>2, <1>3, <1>5, <2>1 DEF Stores
    <2> QED BY <1>0, <1>3, <1>5, <2>2 DEF BackupInv, IndInv, Stores
  <1>6. CASE BackupManifest
    <2>1. /\ backup'.pc = "done" /\ backup'.copy = backup.copy /\ backup'.acked = backup.acked
          /\ backup.pc = "manifest"
      BY <1>6 DEF BackupManifest, IndInv, TypeOK
    <2>2. CopySound("evidence")' /\ CopySound("ledger")'
      BY <1>2, <2>1 DEF IndInv, BackupInv, Stores
    <2> QED BY <1>0, <2>1, <2>2 DEF BackupInv, IndInv
  <1>7. CASE BackupStart \/ BackupRaises
    <2>1. backup'.pc \in {"idle", "evidence"} /\ (backup'.acked = {} \/ backup'.acked = acked)
      <3>1. CASE BackupStart
        <4>1. backup' = [pc |-> "evidence", copy |-> [s \in Stores |-> <<>>], acked |-> acked]
          BY <3>1 DEF BackupStart, NoBackup
        <4> QED BY <4>1
      <3>2. CASE BackupRaises
        BY <3>2 DEF BackupRaises, NoBackup
      <3> QED BY <1>7, <3>1, <3>2
    <2> QED BY <1>0, <2>1 DEF BackupInv
  <1>8. CASE UNCHANGED backup
    <2>1. \A s \in Stores : CopySound(s) => CopySound(s)'
      BY <1>2, <1>8
    <2> QED BY <1>0, <1>8, <2>1 DEF BackupInv, IndInv, Stores
  <1> QED
    BY <1>4, <1>5, <1>6, <1>7, <1>8 DEF Next, ArchiveAppend, LedgerAppend, AppendRead, ReadExisting, WriteTemp,
       Replace, ReplaceMissing, WriteRaises, ManifestRead, ManifestRaises, ManifestOpen, ManifestWrite,
       Crash, vars

----------------------------------------------------------------------------
(* The theorems. *)

\* The first state has no file, no call and no backup.
LEMMA IndInvInit ==
    Init => IndInv
  <1> SUFFICES ASSUME Init PROVE IndInv
    OBVIOUS
  <1>1. TypeOK
    <2>1. [s \in Stores |-> <<>>] \in [Stores -> Seq(Record)]
      OBVIOUS
    <2>2. backup \in [pc : {"idle", "evidence", "ledger", "manifest", "done"},
                      copy : [Stores -> Seq(Record)],
                      acked : SUBSET [store : Stores, at : Nat, line : Record]]
      BY <2>1 DEF Init, NoBackup
    <2> QED BY <2>1, <2>2, ArchiveAssumption DEF Init, TypeOK
  <1>2. CallsSound /\ OneCall /\ StoredInArchive
    BY DEF Init, CallsSound, CallSound, OneCall, InAppend, StoredInArchive, Stored, Idle
  <1>3. ChainIntact /\ AckedPresent
    BY DEF Init, ChainIntact, Verifies, AckedPresent, HasAcked
  <1>4. ManifestPrefix
    BY DEF Init, ManifestPrefix, Stores
  <1>5. BackupInv
    BY DEF Init, BackupInv, NoBackup
  <1> QED BY <1>1, <1>2, <1>3, <1>4, <1>5 DEF IndInv

\* Every step keeps the invariant.
LEMMA IndInvNext ==
    IndInv /\ [Next]_vars => IndInv'
  BY TypeStep, CallsStep, StoredStep, OneCallStep, ChainStep, AckedStep, ManifestStep, BackupStep DEF IndInv

\* The inductive invariant holds in every reachable state of append, crash and backup.
THEOREM ArchiveInvariant ==
    Spec => []IndInv
  BY IndInvInit, IndInvNext, PTL DEF Spec

\* The state of the archive, the ledger and the backup keeps its shape.
THEOREM ArchiveTypeOK ==
    Spec => []TypeOK
  <1>1. IndInv => TypeOK
    BY DEF IndInv
  <1> QED BY <1>1, ArchiveInvariant, PTL

\* Whatever crashes and fails, the chain that append wrote verifies as long as appends do not
\* overlap.
THEOREM ArchiveChainIntact ==
    Spec => []ChainIntact
  <1>1. IndInv => ChainIntact
    BY DEF IndInv
  <1> QED BY <1>1, ArchiveInvariant, PTL

\* A record that append returned is never lost.
THEOREM ArchiveAckedPresent ==
    Spec => []AckedPresent
  <1>1. IndInv => AckedPresent
    BY DEF IndInv
  <1> QED BY <1>1, ArchiveInvariant, PTL

\* The manifest never describes a record that is not in the archive.
THEOREM ArchiveManifestPrefix ==
    Spec => []ManifestPrefix
  <1>1. IndInv => ManifestPrefix
    BY DEF IndInv
  <1> QED BY <1>1, ArchiveInvariant, PTL

\* A backup taken while records are appended has intact chains and all that was acknowledged
\* before it began.
THEOREM ArchiveBackupSound ==
    Spec => []BackupSound
  <1>1. IndInv => BackupSound
    BY DEF IndInv, BackupInv, BackupSound, CopySound, Stores
  <1> QED BY <1>1, ArchiveInvariant, PTL

\* The files only grow, a record at a time.
THEOREM ArchiveAppendOnly ==
    Spec => AppendOnly
  <1>1. IndInv /\ [Next]_vars =>
          [\A s \in Stores :
             \/ overlapped'[s]
             \/ file'[s] = file[s]
             \/ \E r \in Record : file'[s] = Append(file[s], r)]_vars
    BY FileStep DEF Grows
  <1> QED BY <1>1, ArchiveInvariant, PTL DEF Spec, AppendOnly
=============================================================================
