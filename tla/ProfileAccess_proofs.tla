------------------------- MODULE ProfileAccess_proofs -------------------------
(***************************************************************************)
(* Proofs about ProfileAccess, for any set of processes: as long as the    *)
(* system does not hand out an identifier twice, and nobody who uses the   *)
(* profile requests access again, lock excludes everybody else.            *)
(***************************************************************************)
EXTENDS ProfileAccess, TLAPS

\* A call is in progress, or access was granted, only in a live process, which
\* does not request access twice; a process that never ran has no record.
Lively ==
    \A p \in Pids :
        /\ pc[p] # "idle" \/ p \in using => Alive(p)
        /\ pc[p] \in {"check", "recheck"} => p \notin using
        /\ proc[p] = "unborn" => pidFile[p] = "none"

\* The record of a live process is its own, and is there from its second check
\* on; the lock file is there from touch on.
Recorded ==
    \A p \in Pids :
        /\ Alive(p) /\ pidFile[p] # "none" => pidFile[p] = proc[p]
        /\ p \in using \/ pc[p] = "recheck" => pidFile[p] = proc[p]
        /\ pc[p] \in {"alone", "unshared", "locked"} => p \in lockFile

\* Only records of processes that ran are cleaned up, and only those of dead
\* processes are unlinked.
Cleaning ==
    \A p \in Pids :
        /\ pc[p] \in {"clear", "compare", "unlink"} =>
              \A q \in todo[p] \cup subject[p] : proc[q] # "unborn"
        /\ pc[p] = "unlink" => \A q \in subject[p] : ~Alive(q)

\* p, with its record in place, has seen that q holds no lock.
SawNoLock(p, q) ==
    p \in using \/ (pc[p] = "recheck" /\ q \notin todo[p])

\* p, with its lock file in place, has seen that q holds no lock ...
LockedFirst(p, q) ==
    pc[p] \in {"unshared", "locked"} \/ (pc[p] = "alone" /\ q \notin todo[p])

\* ... and that q has no record.
SawNoRecord(p, q) ==
    pc[p] = "locked" \/ (pc[p] = "unshared" /\ q \notin todo[p])

\* Of two processes that each put up a file and then look for the other's, at
\* most one can miss it.
Seen ==
    \A p, q \in Pids : p # q =>
        /\ ~(SawNoLock(p, q) /\ SawNoRecord(q, p))
        /\ ~(LockedFirst(p, q) /\ LockedFirst(q, p))

IInv == TypeOK /\ Lively /\ Recorded /\ Cleaning /\ Seen

\* At the start there are no processes and no files.
LEMMA InitIInv == Init => IInv
<1> SUFFICES ASSUME Init PROVE IInv
  OBVIOUS
<1> USE ProfileAccessAssumption DEF Init
<1>1. TypeOK
  BY DEF TypeOK, Places
<1>2. Lively /\ Recorded /\ Cleaning
  BY DEF Lively, Recorded, Cleaning, Alive
<1>3. Seen
  BY DEF Seen, SawNoLock, SawNoRecord, LockedFirst
<1> QED
  BY <1>1, <1>2, <1>3 DEF IInv

\* A process that moves on and touches no file keeps the invariant, if what it
\* has left to look at is no less than what its new place needs.
LEMMA MoveKeeps ==
    ASSUME IInv, NEW p \in Pids, NEW there \in Places, NEW list \in SUBSET Pids,
           Goto(p, there, list),
           UNCHANGED <<proc, pidFile, lockFile, using>>,
           there # "idle" => Alive(p),
           there # "compare", there # "unlink",
           there = "check" => p \notin using,
           there = "clear" => \A q \in list : proc[q] # "unborn",
           there = "recheck" => pc[p] = "recheck" /\ \A q \in todo[p] \ list : q \notin lockFile,
           there = "alone" => pc[p] = "alone" /\ \A q \in todo[p] \ list : q \notin lockFile,
           there = "unshared" =>
              \/ pc[p] = "unshared" /\ \A q \in todo[p] \ list : pidFile[q] = "none"
              \/ pc[p] = "alone" /\ todo[p] = {} /\ list = Others(p),
           there = "locked" => pc[p] = "unshared" /\ todo[p] = {}
    PROVE  IInv'
<1> USE DEF IInv
<1>1. /\ pc' = [pc EXCEPT ![p] = there]
      /\ todo' = [todo EXCEPT ![p] = list]
      /\ subject' = [subject EXCEPT ![p] = {}]
  BY DEF Goto
<1>2. \A q \in Pids : q # p => pc'[q] = pc[q] /\ todo'[q] = todo[q] /\ subject'[q] = subject[q]
  BY <1>1 DEF TypeOK
<1>3. pc'[p] = there /\ todo'[p] = list /\ subject'[p] = {}
  BY <1>1 DEF TypeOK
<1>4. TypeOK'
  <2>1. pc' \in [Pids -> Places] /\ todo' \in [Pids -> SUBSET Pids]
    BY <1>1 DEF TypeOK
  <2>2. subject' \in [Pids -> SUBSET Pids]
    BY <1>1 DEF TypeOK
  <2>3. \A q \in Pids : subject'[q] # {} => pc'[q] \in {"compare", "unlink"}
    BY <1>2, <1>3 DEF TypeOK
  <2> QED
    BY <2>1, <2>2, <2>3 DEF TypeOK
<1>5. Lively'
  BY <1>2, <1>3 DEF Lively, Alive
<1>6. Recorded'
  BY <1>2, <1>3 DEF Recorded, Alive
<1>7. Cleaning'
  BY <1>2, <1>3 DEF Cleaning, Alive
<1>8. Seen'
  <2> SUFFICES ASSUME NEW q \in Pids, NEW r \in Pids, q # r
               PROVE  /\ ~(SawNoLock(q, r) /\ SawNoRecord(r, q))'
                      /\ ~(LockedFirst(q, r) /\ LockedFirst(r, q))'
    BY DEF Seen
  <2>1. ~(SawNoLock(q, r) /\ SawNoRecord(r, q)) /\ ~(LockedFirst(q, r) /\ LockedFirst(r, q))
    BY DEF Seen
  <2>2. /\ SawNoLock(q, r) => pidFile[q] # "none"
        /\ SawNoRecord(r, q) \/ LockedFirst(r, q) => r \in lockFile
        /\ LockedFirst(q, r) => q \in lockFile
    BY ProfileAccessAssumption
    DEF SawNoLock, SawNoRecord, LockedFirst, Recorded, Lively, Alive
  <2>3. CASE q # p /\ r # p
    BY <1>2, <2>1, <2>3 DEF SawNoLock, SawNoRecord, LockedFirst
  <2>4. CASE q = p
    BY <1>2, <1>3, <2>1, <2>2, <2>4 DEF SawNoLock, SawNoRecord, LockedFirst, Others
  <2>5. CASE r = p
    BY <1>2, <1>3, <2>1, <2>2, <2>5 DEF SawNoLock, SawNoRecord, LockedFirst, Others
  <2> QED
    BY <2>3, <2>4, <2>5
<1> QED
  BY <1>4, <1>5, <1>6, <1>7, <1>8

\* One entry of a glob.
LEMMA LookKeeps ==
    ASSUME IInv, NEW p \in Pids, Look(p)
    PROVE  IInv'
<1> USE DEF IInv
<1>0. todo[p] \in SUBSET Pids /\ pc[p] \in Places
  BY DEF TypeOK
<1>1. CASE SeesNoLock(p)
  <2>1. PICK q \in todo[p] : q \notin lockFile /\ Goto(p, pc[p], todo[p] \ {q})
    BY <1>1 DEF SeesNoLock
  <2>2. pc[p] \in {"check", "recheck", "free", "alone"} /\ UNCHANGED <<proc, pidFile, lockFile, using>>
    BY <1>1 DEF SeesNoLock
  <2>3. Alive(p) /\ (pc[p] = "check" => p \notin using)
    BY <2>2 DEF Lively
  <2>4. \A r \in todo[p] \ (todo[p] \ {q}) : r \notin lockFile
    BY <2>1
  <2> QED
    BY <1>0, <2>1, <2>2, <2>3, <2>4, MoveKeeps
<1>2. CASE SeesNoAccess(p)
  <2>1. PICK q \in todo[p] : pidFile[q] = "none" /\ Goto(p, pc[p], todo[p] \ {q})
    BY <1>2 DEF SeesNoAccess
  <2>2. pc[p] \in {"unused", "unshared"} /\ UNCHANGED <<proc, pidFile, lockFile, using>>
    BY <1>2 DEF SeesNoAccess
  <2>3. Alive(p)
    BY <2>2 DEF Lively
  <2>4. \A r \in todo[p] \ (todo[p] \ {q}) : pidFile[r] = "none"
    BY <2>1
  <2> QED
    BY <1>0, <2>1, <2>2, <2>3, <2>4, MoveKeeps
<1> QED
  BY <1>1, <1>2 DEF Look

\* The steps of request_access and lock that touch no file.
LEMMA QuietKeeps ==
    ASSUME ~ReRequest, IInv, NEW p \in Pids,
           \/ RequestAccess(p) \/ Refused(p) \/ RequestLock(p) \/ ListRecords(p)
           \/ ClearRaises(p) \/ Cleared(p) \/ LockRefused(p) \/ Recheck(p) \/ Locked(p)
    PROVE  IInv'
<1> USE DEF IInv
<1>0. UNCHANGED <<proc, pidFile, lockFile, using>>
  BY DEF RequestAccess, Refused, RequestLock, ListRecords, ClearRaises, Cleared,
         LockRefused, Recheck, Locked
<1>1. /\ Others(p) \in SUBSET Pids /\ {} \in SUBSET Pids
      /\ {q \in Pids : pidFile[q] # "none"} \in SUBSET Pids
      /\ {"idle", "check", "free", "clear", "unused", "unshared", "locked"} \subseteq Places
  BY DEF Others, Places
<1>2. pc[p] # "idle" => Alive(p)
  BY DEF Lively
<1>3. CASE RequestAccess(p)
  <2>1. Goto(p, "check", Others(p)) /\ Alive(p) /\ p \notin using
    BY <1>3 DEF RequestAccess
  <2> QED
    BY <1>0, <1>1, <2>1, MoveKeeps
<1>4. CASE Refused(p) \/ ClearRaises(p) \/ LockRefused(p)
  <2>1. Goto(p, "idle", {})
    BY <1>4 DEF Refused, ClearRaises, LockRefused
  <2> QED
    BY <1>0, <1>1, <2>1, MoveKeeps
<1>5. CASE RequestLock(p)
  <2>1. Goto(p, "free", Others(p)) /\ Alive(p)
    BY <1>5 DEF RequestLock
  <2> QED
    BY <1>0, <1>1, <2>1, MoveKeeps
<1>6. CASE ListRecords(p)
  <2>1. Goto(p, "clear", {q \in Pids : pidFile[q] # "none"}) /\ Alive(p)
    BY <1>2, <1>6 DEF ListRecords
  <2>2. \A q \in {q \in Pids : pidFile[q] # "none"} : proc[q] # "unborn"
    BY DEF Lively
  <2> QED
    BY <1>0, <1>1, <2>1, <2>2, MoveKeeps
<1>7. CASE Cleared(p)
  <2>1. Goto(p, "unused", Others(p)) /\ Alive(p)
    BY <1>2, <1>7 DEF Cleared
  <2> QED
    BY <1>0, <1>1, <2>1, MoveKeeps
<1>8. CASE Recheck(p)
  <2>1. Goto(p, "unshared", Others(p)) /\ Alive(p) /\ pc[p] = "alone" /\ todo[p] = {}
    BY <1>2, <1>8 DEF Recheck
  <2> QED
    BY <1>0, <1>1, <2>1, MoveKeeps
<1>9. CASE Locked(p)
  <2>1. Goto(p, "locked", {}) /\ Alive(p) /\ pc[p] = "unshared" /\ todo[p] = {}
    BY <1>2, <1>9 DEF Locked
  <2> QED
    BY <1>0, <1>1, <2>1, MoveKeeps
<1> QED
  BY <1>3, <1>4, <1>5, <1>6, <1>7, <1>8, <1>9

\* Where the processes are after Goto.
LEMMA GotoFacts ==
    ASSUME TypeOK, NEW p \in Pids, NEW there \in Places, NEW list \in SUBSET Pids,
           there \notin {"compare", "unlink"}, Goto(p, there, list)
    PROVE  /\ \A q \in Pids : q # p =>
                  pc'[q] = pc[q] /\ todo'[q] = todo[q] /\ subject'[q] = subject[q]
           /\ pc'[p] = there /\ todo'[p] = list /\ subject'[p] = {}
           /\ pc' \in [Pids -> Places] /\ todo' \in [Pids -> SUBSET Pids]
           /\ subject' \in [Pids -> SUBSET Pids]
           /\ \A q \in Pids : subject'[q] # {} => pc'[q] \in {"compare", "unlink"}
<1>1. /\ pc' = [pc EXCEPT ![p] = there]
      /\ todo' = [todo EXCEPT ![p] = list]
      /\ subject' = [subject EXCEPT ![p] = {}]
  BY DEF Goto
<1>2. \A q \in Pids : q # p => pc'[q] = pc[q] /\ todo'[q] = todo[q] /\ subject'[q] = subject[q]
  BY <1>1 DEF TypeOK
<1>3. pc'[p] = there /\ todo'[p] = list /\ subject'[p] = {}
  BY <1>1 DEF TypeOK
<1>4. pc' \in [Pids -> Places] /\ todo' \in [Pids -> SUBSET Pids]
  BY <1>1 DEF TypeOK
<1>5. subject' \in [Pids -> SUBSET Pids]
  BY <1>1 DEF TypeOK
<1>6. \A q \in Pids : subject'[q] # {} => pc'[q] \in {"compare", "unlink"}
  BY <1>2, <1>3 DEF TypeOK
<1> QED
  BY <1>2, <1>3, <1>4, <1>5, <1>6

\* The record is written before the second look for locks, withdrawn only by a
\* process that was not granted access, and stands when access is granted.
LEMMA RecordKeeps ==
    ASSUME IInv, NEW p \in Pids, WriteRecord(p) \/ Withdraw(p) \/ Granted(p)
    PROVE  IInv'
<1> USE DEF IInv
<1>0. /\ Others(p) \in SUBSET Pids /\ {} \in SUBSET Pids
      /\ "recheck" \in Places /\ "idle" \in Places
  BY DEF Others, Places
<1>1. pc[p] \in {"check", "recheck"} /\ UNCHANGED <<proc, lockFile>>
  BY DEF WriteRecord, Withdraw, Granted
<1>2. Alive(p) /\ p \notin using
  BY <1>1 DEF Lively
<1>3. CASE WriteRecord(p)
  <2>1. /\ \A q \in Pids : q # p =>
               pc'[q] = pc[q] /\ todo'[q] = todo[q] /\ subject'[q] = subject[q]
        /\ pc'[p] = "recheck" /\ todo'[p] = Others(p) /\ subject'[p] = {}
        /\ pc' \in [Pids -> Places] /\ todo' \in [Pids -> SUBSET Pids]
        /\ subject' \in [Pids -> SUBSET Pids]
        /\ \A q \in Pids : subject'[q] # {} => pc'[q] \in {"compare", "unlink"}
    BY <1>0, <1>3, GotoFacts DEF WriteRecord
  <2>2. /\ pidFile' \in [Pids -> Commands \cup {"none"}]
        /\ pidFile'[p] = proc[p] /\ \A q \in Pids : q # p => pidFile'[q] = pidFile[q]
    BY <1>2, <1>3 DEF WriteRecord, TypeOK, Alive
  <2>3. using' = using
    BY <1>3 DEF WriteRecord
  <2>4. TypeOK'
    BY <1>1, <2>1, <2>2, <2>3 DEF TypeOK
  <2>5. Lively' /\ Recorded' /\ Cleaning'
    BY <1>1, <1>2, <2>1, <2>2, <2>3, ProfileAccessAssumption
    DEF Lively, Recorded, Cleaning, Alive
  <2>6. Seen'
    BY <1>1, <1>2, <2>1, <2>3 DEF Seen, SawNoLock, SawNoRecord, LockedFirst, Others
  <2> QED
    BY <2>4, <2>5, <2>6
<1>4. CASE Withdraw(p)
  <2>1. /\ \A q \in Pids : q # p =>
               pc'[q] = pc[q] /\ todo'[q] = todo[q] /\ subject'[q] = subject[q]
        /\ pc'[p] = "idle" /\ todo'[p] = {} /\ subject'[p] = {}
        /\ pc' \in [Pids -> Places] /\ todo' \in [Pids -> SUBSET Pids]
        /\ subject' \in [Pids -> SUBSET Pids]
        /\ \A q \in Pids : subject'[q] # {} => pc'[q] \in {"compare", "unlink"}
    BY <1>0, <1>4, GotoFacts DEF Withdraw
  <2>2. /\ pidFile' \in [Pids -> Commands \cup {"none"}]
        /\ pidFile'[p] = "none" /\ \A q \in Pids : q # p => pidFile'[q] = pidFile[q]
    BY <1>4 DEF Withdraw, TypeOK
  <2>3. using' = using
    BY <1>4 DEF Withdraw
  <2>4. TypeOK'
    BY <1>1, <2>1, <2>2, <2>3 DEF TypeOK
  <2>5. Lively' /\ Recorded' /\ Cleaning'
    BY <1>1, <1>2, <2>1, <2>2, <2>3, ProfileAccessAssumption
    DEF Lively, Recorded, Cleaning, Alive
  <2>6. Seen'
    BY <1>1, <1>2, <2>1, <2>3 DEF Seen, SawNoLock, SawNoRecord, LockedFirst
  <2> QED
    BY <2>4, <2>5, <2>6
<1>5. CASE Granted(p)
  <2>1. /\ \A q \in Pids : q # p =>
               pc'[q] = pc[q] /\ todo'[q] = todo[q] /\ subject'[q] = subject[q]
        /\ pc'[p] = "idle" /\ todo'[p] = {} /\ subject'[p] = {}
        /\ pc' \in [Pids -> Places] /\ todo' \in [Pids -> SUBSET Pids]
        /\ subject' \in [Pids -> SUBSET Pids]
        /\ \A q \in Pids : subject'[q] # {} => pc'[q] \in {"compare", "unlink"}
    BY <1>0, <1>5, GotoFacts DEF Granted
  <2>2. /\ pc[p] = "recheck" /\ todo[p] = {}
        /\ using' = using \cup {p} /\ pidFile' = pidFile
    BY <1>5 DEF Granted
  <2>4. TypeOK'
    BY <1>1, <2>1, <2>2 DEF TypeOK
  <2>5. Lively' /\ Recorded' /\ Cleaning'
    BY <1>1, <1>2, <2>1, <2>2 DEF Lively, Recorded, Cleaning, Alive
  <2>6. Seen'
    BY <1>1, <1>2, <2>1, <2>2 DEF Seen, SawNoLock, SawNoRecord, LockedFirst
  <2> QED
    BY <2>4, <2>5, <2>6
<1> QED
  BY <1>3, <1>4, <1>5

\* _clear_stale_pid_files examines only records of processes that ran, keeps
\* that of every live process, and unlinks only those of dead ones.
LEMMA ClearKeeps ==
    ASSUME IInv, NEW p \in Pids, Probe(p) \/ Compare(p) \/ UnlinkStale(p)
    PROVE  IInv'
<1> USE DEF IInv
<1>0. todo[p] \in SUBSET Pids /\ "clear" \in Places /\ "compare" \in Places /\ "unlink" \in Places
  BY DEF TypeOK, Places
<1>1. pc[p] \in {"clear", "compare", "unlink"} /\ UNCHANGED <<proc, lockFile, using>>
  BY DEF Probe, Compare, UnlinkStale
<1>2. Alive(p) /\ \A q \in todo[p] \cup subject[p] : proc[q] # "unborn"
  BY <1>1 DEF Lively, Cleaning
<1>3. CASE Probe(p)
  <2>1. PICK q \in todo[p] :
           /\ todo' = [todo EXCEPT ![p] = @ \ {q}]
           /\ subject' = [subject EXCEPT ![p] = {q}]
           /\ pc' = [pc EXCEPT ![p] = IF Alive(q) THEN "compare" ELSE "unlink"]
    BY <1>3 DEF Probe
  <2>2. \A r \in Pids : r # p =>
           pc'[r] = pc[r] /\ todo'[r] = todo[r] /\ subject'[r] = subject[r]
    BY <2>1 DEF TypeOK
  <2>3. /\ todo'[p] = todo[p] \ {q} /\ subject'[p] = {q}
        /\ pc'[p] \in {"compare", "unlink"} /\ (pc'[p] = "unlink" => ~Alive(q))
    BY <2>1 DEF TypeOK
  <2>4. pc' \in [Pids -> Places] /\ todo' \in [Pids -> SUBSET Pids]
    BY <1>0, <2>1 DEF TypeOK
  <2>5. subject' \in [Pids -> SUBSET Pids]
    BY <1>0, <2>1 DEF TypeOK
  <2>6. pidFile' = pidFile
    BY <1>3 DEF Probe
  <2>7. TypeOK'
    BY <1>1, <2>2, <2>3, <2>4, <2>5, <2>6 DEF TypeOK
  <2>8. Lively' /\ Recorded' /\ Cleaning'
    BY <1>1, <1>2, <2>2, <2>3, <2>6 DEF Lively, Recorded, Cleaning, Alive
  <2>9. Seen'
    BY <1>1, <2>2, <2>3 DEF Seen, SawNoLock, SawNoRecord, LockedFirst
  <2> QED
    BY <2>7, <2>8, <2>9
<1>4. CASE Compare(p)
  <2>1. PICK q \in subject[p] :
           /\ Alive(q) /\ pidFile[q] # "none"
           /\ ~Differs(q) => Goto(p, "clear", todo[p])
    BY <1>4 DEF Compare
  <2>2. q \in Pids
    BY DEF TypeOK
  <2>3. ~Differs(q)
    BY <2>1, <2>2 DEF Differs, Recorded
  <2>4. UNCHANGED <<proc, pidFile, lockFile, using>>
    BY <1>4 DEF Compare
  <2> QED
    BY <1>0, <1>2, <2>1, <2>3, <2>4, MoveKeeps
<1>5. CASE UnlinkStale(p)
  <2>1. PICK r \in subject[p] : pidFile' = [pidFile EXCEPT ![r] = "none"]
    BY <1>5 DEF UnlinkStale
  <2>2. r \in Pids /\ ~Alive(r)
    BY <1>5 DEF UnlinkStale, TypeOK, Cleaning
  <2>3. /\ \A q \in Pids : q # p =>
               pc'[q] = pc[q] /\ todo'[q] = todo[q] /\ subject'[q] = subject[q]
        /\ pc'[p] = "clear" /\ todo'[p] = todo[p] /\ subject'[p] = {}
        /\ pc' \in [Pids -> Places] /\ todo' \in [Pids -> SUBSET Pids]
        /\ subject' \in [Pids -> SUBSET Pids]
        /\ \A q \in Pids : subject'[q] # {} => pc'[q] \in {"compare", "unlink"}
    BY <1>0, <1>5, GotoFacts DEF UnlinkStale
  <2>4. /\ pidFile' \in [Pids -> Commands \cup {"none"}]
        /\ pidFile'[r] = "none" /\ \A q \in Pids : q # r => pidFile'[q] = pidFile[q]
    BY <2>1, <2>2 DEF TypeOK
  <2>5. TypeOK'
    BY <1>1, <2>3, <2>4 DEF TypeOK
  <2>6. Lively' /\ Recorded' /\ Cleaning'
    BY <1>1, <1>2, <2>2, <2>3, <2>4 DEF Lively, Recorded, Cleaning, Alive
  <2>7. Seen'
    BY <1>1, <1>5, <2>3 DEF UnlinkStale, Seen, SawNoLock, SawNoRecord, LockedFirst
  <2> QED
    BY <2>5, <2>6, <2>7
<1> QED
  BY <1>3, <1>4, <1>5

\* The lock file is there before the second look, and goes with the lock.
LEMMA LockFileKeeps ==
    ASSUME IInv, NEW p \in Pids, Touch(p) \/ Unlock(p)
    PROVE  IInv'
<1> USE DEF IInv
<1>0. /\ Others(p) \in SUBSET Pids /\ {} \in SUBSET Pids
      /\ "alone" \in Places /\ "idle" \in Places
  BY DEF Others, Places
<1>1. pc[p] # "idle" /\ UNCHANGED <<proc, pidFile, using>>
  BY DEF Touch, Unlock
<1>2. Alive(p)
  BY <1>1 DEF Lively
<1>3. CASE Touch(p)
  <2>1. /\ \A q \in Pids : q # p =>
               pc'[q] = pc[q] /\ todo'[q] = todo[q] /\ subject'[q] = subject[q]
        /\ pc'[p] = "alone" /\ todo'[p] = Others(p) /\ subject'[p] = {}
        /\ pc' \in [Pids -> Places] /\ todo' \in [Pids -> SUBSET Pids]
        /\ subject' \in [Pids -> SUBSET Pids]
        /\ \A q \in Pids : subject'[q] # {} => pc'[q] \in {"compare", "unlink"}
    BY <1>0, <1>3, GotoFacts DEF Touch
  <2>2. lockFile' = lockFile \cup {p}
    BY <1>3 DEF Touch
  <2>3. TypeOK'
    BY <1>1, <2>1, <2>2 DEF TypeOK
  <2>4. Lively' /\ Recorded' /\ Cleaning'
    BY <1>1, <1>2, <2>1, <2>2 DEF Lively, Recorded, Cleaning, Alive
  <2>5. Seen'
    BY <1>1, <2>1 DEF Seen, SawNoLock, SawNoRecord, LockedFirst, Others
  <2> QED
    BY <2>3, <2>4, <2>5
<1>4. CASE Unlock(p)
  <2>1. /\ \A q \in Pids : q # p =>
               pc'[q] = pc[q] /\ todo'[q] = todo[q] /\ subject'[q] = subject[q]
        /\ pc'[p] = "idle" /\ todo'[p] = {} /\ subject'[p] = {}
        /\ pc' \in [Pids -> Places] /\ todo' \in [Pids -> SUBSET Pids]
        /\ subject' \in [Pids -> SUBSET Pids]
        /\ \A q \in Pids : subject'[q] # {} => pc'[q] \in {"compare", "unlink"}
    BY <1>0, <1>4, GotoFacts DEF Unlock
  <2>2. lockFile' = lockFile \ {p}
    BY <1>4 DEF Unlock
  <2>3. TypeOK'
    BY <1>1, <2>1, <2>2 DEF TypeOK
  <2>4. Lively' /\ Recorded' /\ Cleaning'
    BY <1>1, <1>2, <2>1, <2>2 DEF Lively, Recorded, Cleaning, Alive
  <2>5. Seen'
    BY <1>1, <2>1 DEF Seen, SawNoLock, SawNoRecord, LockedFirst
  <2> QED
    BY <2>3, <2>4, <2>5
<1> QED
  BY <1>3, <1>4

\* Processes come and go, and locks left behind by dead ones are cleared.
LEMMA EnvironmentKeeps ==
    ASSUME ~PidReuse, IInv, ClearLocks \/ \E p \in Pids : Start(p) \/ Die(p)
    PROVE  IInv'
<1> USE DEF IInv
<1>1. ASSUME NEW p \in Pids, Start(p)
      PROVE  IInv'
  <2>1. PICK c \in Commands : proc' = [proc EXCEPT ![p] = c]
    BY <1>1 DEF Start
  <2>2. proc[p] = "unborn" /\ UNCHANGED <<pidFile, lockFile, pc, todo, subject, using>>
    BY <1>1 DEF Start, Alive, TypeOK
  <2>3. /\ proc' \in [Pids -> Commands \cup {"unborn", "dead"}]
        /\ proc'[p] = c /\ \A q \in Pids : q # p => proc'[q] = proc[q]
    BY <2>1 DEF TypeOK
  <2>4. pidFile[p] = "none" /\ ~Alive(p) /\ pc[p] = "idle" /\ p \notin using
    BY <2>2, ProfileAccessAssumption DEF Lively, Alive
  <2>5. TypeOK'
    BY <2>2, <2>3 DEF TypeOK
  <2>6. Lively' /\ Recorded'
    BY <2>2, <2>3, <2>4, ProfileAccessAssumption DEF Lively, Recorded, Alive
  <2>7. Cleaning'
    BY <2>2, <2>3, ProfileAccessAssumption DEF Cleaning, Alive, TypeOK
  <2>8. Seen'
    BY <2>2 DEF Seen, SawNoLock, SawNoRecord, LockedFirst
  <2> QED
    BY <2>5, <2>6, <2>7, <2>8
<1>2. ASSUME NEW p \in Pids, Die(p)
      PROVE  IInv'
  <2>0. "idle" \in Places /\ {} \in SUBSET Pids
    BY DEF Places
  <2>1. /\ \A q \in Pids : q # p =>
               pc'[q] = pc[q] /\ todo'[q] = todo[q] /\ subject'[q] = subject[q]
        /\ pc'[p] = "idle" /\ todo'[p] = {} /\ subject'[p] = {}
        /\ pc' \in [Pids -> Places] /\ todo' \in [Pids -> SUBSET Pids]
        /\ subject' \in [Pids -> SUBSET Pids]
        /\ \A q \in Pids : subject'[q] # {} => pc'[q] \in {"compare", "unlink"}
    BY <1>2, <2>0, GotoFacts DEF Die
  <2>2. /\ proc' \in [Pids -> Commands \cup {"unborn", "dead"}]
        /\ proc'[p] = "dead" /\ \A q \in Pids : q # p => proc'[q] = proc[q]
    BY <1>2 DEF Die, TypeOK
  <2>3. using' = using \ {p} /\ UNCHANGED <<pidFile, lockFile>>
    BY <1>2 DEF Die
  <2>4. TypeOK'
    BY <2>1, <2>2, <2>3 DEF TypeOK
  <2>5. Lively' /\ Recorded'
    BY <2>1, <2>2, <2>3, ProfileAccessAssumption DEF Lively, Recorded, Alive
  <2>6. Cleaning'
    BY <2>1, <2>2, ProfileAccessAssumption DEF Cleaning, Alive, TypeOK
  <2>7. Seen'
    BY <2>1, <2>3 DEF Seen, SawNoLock, SawNoRecord, LockedFirst
  <2> QED
    BY <2>4, <2>5, <2>6, <2>7
<1>3. CASE ClearLocks
  <2>1. lockFile' = {} /\ UNCHANGED <<proc, pidFile, pc, todo, subject, using>>
    BY <1>3 DEF ClearLocks
  <2>2. \A p \in Pids : pc[p] \notin {"alone", "unshared", "locked"}
    BY <1>3 DEF ClearLocks, Recorded, Lively
  <2>3. TypeOK' /\ Lively' /\ Recorded' /\ Cleaning'
    BY <2>1, <2>2 DEF TypeOK, Lively, Recorded, Cleaning, Alive
  <2>4. Seen'
    BY <2>1 DEF Seen, SawNoLock, SawNoRecord, LockedFirst
  <2> QED
    BY <2>3, <2>4
<1> QED
  BY <1>1, <1>2, <1>3

\* Every step keeps the invariant.
LEMMA NextIInv ==
    ASSUME ~PidReuse, ~ReRequest, IInv, [Next]_vars
    PROVE  IInv'
<1>1. CASE UNCHANGED vars
  BY <1>1 DEF vars, IInv, TypeOK, Lively, Recorded, Cleaning, Seen, Alive, SawNoLock,
              SawNoRecord, LockedFirst
<1>2. ASSUME NEW p \in Pids, Step(p)
      PROVE  IInv'
  BY <1>2, QuietKeeps, LookKeeps, RecordKeeps, ClearKeeps, LockFileKeeps
  DEF Step, Access, Lock, Clear
<1> QED
  BY <1>1, <1>2, EnvironmentKeeps DEF Next

\* The inductive invariant.
THEOREM Invariance ==
    ASSUME ~PidReuse, ~ReRequest
    PROVE  Spec => []IInv
<1>1. IInv /\ [Next]_vars => IInv'
  BY NextIInv
<1> QED
  BY InitIInv, <1>1, PTL DEF Spec

\* The invariant gives mutual exclusion and standing records.
LEMMA IInvExcludes == IInv => Exclusive /\ UserHasRecord
<1>1. IInv => Exclusive
  BY DEF IInv, TypeOK, Seen, Exclusive, Holders, SawNoLock, SawNoRecord, LockedFirst
<1>2. IInv => UserHasRecord
  BY ProfileAccessAssumption
  DEF IInv, TypeOK, Lively, Recorded, UserHasRecord, Alive
<1> QED
  BY <1>1, <1>2

\* While a process holds the lock, nobody else uses the profile or holds it,
\* and whoever uses it has a record that a locking process will see.
THEOREM Exclusion ==
    ASSUME ~PidReuse, ~ReRequest
    PROVE  Spec => [](Exclusive /\ UserHasRecord)
  BY Invariance, IInvExcludes, PTL
-----------------------------------------------------------------------------
\* A step that grants, takes and gives back nothing leaves the abstract lock
\* alone.
LEMMA OtherStepsStutter ==
    ASSUME TypeOK, NEW p \in Pids,
           \/ Look(p) \/ Start(p) \/ ClearLocks
           \/ RequestAccess(p) \/ Refused(p) \/ WriteRecord(p) \/ Withdraw(p)
           \/ RequestLock(p) \/ Clear(p) \/ LockRefused(p) \/ Touch(p) \/ Recheck(p)
    PROVE  using' = using /\ Holders' = Holders
<1>1. using' = using
  BY DEF Look, SeesNoLock, SeesNoAccess, Start, ClearLocks, RequestAccess, Refused,
         WriteRecord, Withdraw, RequestLock, Clear, ListRecords, Probe, Compare,
         UnlinkStale, ClearRaises, Cleared, LockRefused, Touch, Recheck
<1>2. \/ pc' = pc
      \/ /\ pc[p] # "locked"
         /\ \E there \in Places \ {"locked"} : pc' = [pc EXCEPT ![p] = there]
  BY DEF Goto, Places, Look, SeesNoLock, SeesNoAccess, Start, ClearLocks,
         RequestAccess, Refused, WriteRecord, Withdraw, RequestLock, Clear,
         ListRecords, Probe, Compare, UnlinkStale, ClearRaises, Cleared, LockRefused,
         Touch, Recheck
<1>3. \A q \in Pids : pc'[q] = "locked" <=> pc[q] = "locked"
  BY <1>2 DEF TypeOK
<1> QED
  BY <1>1, <1>3 DEF Holders

\* Every step of the file protocol is a step of the abstract lock or changes
\* nothing of it.
LEMMA StepRefines ==
    ASSUME IInv, IInv', [Next]_vars
    PROVE  [PL!Next]_<<using, Holders>>
<1> USE DEF IInv
<1>0. Exclusive /\ Exclusive'
  <2>1. Exclusive
    BY IInvExcludes
  <2>2. Exclusive'
    BY DEF TypeOK, Seen, Exclusive, Holders, SawNoLock, SawNoRecord, LockedFirst
  <2> QED
    BY <2>1, <2>2
<1>1. CASE UNCHANGED vars
  BY <1>1 DEF vars, Holders
<1>2. ASSUME NEW p \in Pids, Granted(p)
      PROVE  PL!Access(p)
  <2>1. pc[p] = "recheck" /\ pc' = [pc EXCEPT ![p] = "idle"] /\ using' = using \cup {p}
    BY <1>2 DEF Granted, Goto
  <2>2. Holders' = Holders
    BY <2>1 DEF Holders, TypeOK
  <2>3. Holders \subseteq {p}
    BY <1>0, <2>1, <2>2 DEF Exclusive
  <2> QED
    BY <2>1, <2>2, <2>3 DEF PL!Access
<1>3. ASSUME NEW p \in Pids, Locked(p)
      PROVE  PL!Lock(p)
  <2>1. pc[p] = "unshared" /\ pc' = [pc EXCEPT ![p] = "locked"] /\ using' = using
    BY <1>3 DEF Locked, Goto
  <2>2. Holders' = Holders \cup {p} /\ p \notin Holders
    BY <2>1 DEF Holders, TypeOK
  <2>3. Holders' = {p} /\ using' \subseteq {p}
    BY <1>0, <2>2 DEF Exclusive
  <2> QED
    BY <2>1, <2>2, <2>3 DEF PL!Lock
<1>4. ASSUME NEW p \in Pids, Unlock(p)
      PROVE  PL!Unlock(p) \/ UNCHANGED <<using, Holders>>
  <2>1. pc' = [pc EXCEPT ![p] = "idle"] /\ using' = using
    BY <1>4 DEF Unlock, Goto
  <2>2. Holders' = Holders \ {p}
    BY <2>1 DEF Holders, TypeOK
  <2>3. p \in Holders => Holders = {p}
    BY <1>0 DEF Exclusive
  <2> QED
    BY <2>1, <2>2, <2>3 DEF PL!Unlock
<1>5. ASSUME NEW p \in Pids, Die(p)
      PROVE  PL!End(p)
  <2>1. pc' = [pc EXCEPT ![p] = "idle"] /\ using' = using \ {p}
    BY <1>5 DEF Die, Goto
  <2>2. Holders' = Holders \ {p}
    BY <2>1 DEF Holders, TypeOK
  <2> QED
    BY <2>1, <2>2 DEF PL!End
<1>6. ASSUME NEW p \in Pids,
             \/ Look(p) \/ Start(p) \/ ClearLocks
             \/ RequestAccess(p) \/ Refused(p) \/ WriteRecord(p) \/ Withdraw(p)
             \/ RequestLock(p) \/ Clear(p) \/ LockRefused(p) \/ Touch(p) \/ Recheck(p)
      PROVE  UNCHANGED <<using, Holders>>
  BY <1>6, OtherStepsStutter
<1>7. CASE ClearLocks
  <2>1. using' = using /\ pc' = pc
    BY <1>7 DEF ClearLocks
  <2> QED
    BY <2>1 DEF Holders
<1>8. ASSUME NEW p \in Pids, Step(p) \/ Start(p) \/ Die(p)
      PROVE  [PL!Next]_<<using, Holders>>
  <2>1. CASE Granted(p)
    BY <1>2, <2>1 DEF PL!Next
  <2>2. CASE Locked(p)
    BY <1>3, <2>2 DEF PL!Next
  <2>3. CASE Unlock(p)
    BY <1>4, <2>3 DEF PL!Next
  <2>4. CASE Die(p)
    BY <1>5, <2>4 DEF PL!Next
  <2>5. CASE \/ Look(p) \/ Start(p)
             \/ RequestAccess(p) \/ Refused(p) \/ WriteRecord(p) \/ Withdraw(p)
             \/ RequestLock(p) \/ Clear(p) \/ LockRefused(p) \/ Touch(p) \/ Recheck(p)
    BY <1>6, <2>5
  <2> QED
    BY <1>8, <2>1, <2>2, <2>3, <2>4, <2>5 DEF Step, Access, Lock
<1> QED
  BY <1>1, <1>7, <1>8 DEF Next

\* The files in the directory implement the readers-or-one-writer lock that
\* the class promises, for any number of processes and any moment of death.
THEOREM Refinement ==
    ASSUME ~PidReuse, ~ReRequest
    PROVE  Spec => ImplementsLock
<1>1. Init => PL!Init
  BY DEF Init, PL!Init, Holders
<1>2. IInv /\ IInv' /\ [Next]_vars => [PL!Next]_<<using, Holders>>
  BY StepRefines
<1> QED
  BY Invariance, <1>1, <1>2, PTL DEF Spec, ImplementsLock, PL!Spec
=============================================================================
