---------------------------- MODULE ProfileAccess ----------------------------
(***************************************************************************)
(* Access to a profile: aiida.manage.profile_access.ProfileAccessManager.  *)
(*                                                                         *)
(* Operating system processes coordinate through files in one directory:   *)
(* `<pid>.pid`, which holds the command of the process that uses the       *)
(* profile, and `<pid>.lock`.  Nothing is locked while they do: a glob of  *)
(* the directory sees each file at its own moment, a record that was found *)
(* stale is removed some time later, and a process may die anywhere, with  *)
(* its files left behind.  Records of access are never given back; they    *)
(* are cleaned up by the next process that locks.                          *)
(***************************************************************************)
EXTENDS FiniteSets

CONSTANTS
    Pids,         \* process identifiers
    Commands,     \* command lines
    PidReuse,     \* the system hands out identifiers of dead processes again
    ReRequest,    \* processes that use the profile request access once more
    DiskFaults    \* writing the record may raise

ASSUME ProfileAccessAssumption ==
    /\ Commands \cap {"unborn", "dead", "none"} = {}
    /\ PidReuse \in BOOLEAN
    /\ ReRequest \in BOOLEAN
    /\ DiskFaults \in BOOLEAN

VARIABLES
    proc,         \* the command running under an identifier, if any
    pidFile,      \* the content of <pid>.pid, or "none"
    lockFile,     \* the identifiers with a <pid>.lock
    pc,           \* where each process is in request_access or lock
    todo,         \* the directory entries it has yet to look at
    subject,      \* the record it is examining or about to unlink
    using         \* the processes request_access has returned to

vars == <<proc, pidFile, lockFile, pc, todo, subject, using>>

Alive(p) == proc[p] \in Commands

Others(p) == Pids \ {p}

Init ==
    /\ proc = [p \in Pids |-> "unborn"]
    /\ pidFile = [p \in Pids |-> "none"]
    /\ lockFile = {}
    /\ pc = [p \in Pids |-> "idle"]
    /\ todo = [p \in Pids |-> {}]
    /\ subject = [p \in Pids |-> {}]
    /\ using = {}

-----------------------------------------------------------------------------
GotoKeeping(p, there, list) ==
    /\ pc' = [pc EXCEPT ![p] = there]
    /\ todo' = [todo EXCEPT ![p] = list]
    /\ UNCHANGED subject

\* Process p goes on to `there`, with the entries `list` to look at.
Goto(p, there, list) ==
    /\ pc' = [pc EXCEPT ![p] = there]
    /\ todo' = [todo EXCEPT ![p] = list]
    /\ subject' = [subject EXCEPT ![p] = {}]

\* One entry of a glob that _raise_if_locked evaluates (the process's own is
\* left out): no lock there.
SeesNoLock(p) ==
    /\ pc[p] \in {"check", "recheck", "free", "alone"}
    /\ \E q \in todo[p] :
          /\ q \notin lockFile
          /\ Goto(p, pc[p], todo[p] \ {q})
    /\ UNCHANGED <<proc, pidFile, lockFile, using>>

\* One entry of a glob that _raise_if_active evaluates: nobody there.
SeesNoAccess(p) ==
    /\ pc[p] \in {"unused", "unshared"}
    /\ \E q \in todo[p] :
          /\ pidFile[q] = "none"
          /\ Goto(p, pc[p], todo[p] \ {q})
    /\ UNCHANGED <<proc, pidFile, lockFile, using>>

\* _raise_if_locked raises LockedProfileError, and with it the call.
SeesLock(p) == todo[p] \cap lockFile # {}

\* _raise_if_active raises LockingProfileError.
SeesAccess(p) == \E q \in todo[p] : pidFile[q] # "none"
-----------------------------------------------------------------------------
\* request_access is called, and looks for locks.
RequestAccess(p) ==
    /\ Alive(p)
    /\ pc[p] = "idle"
    /\ p \in using => ReRequest
    /\ Goto(p, "check", Others(p))
    /\ UNCHANGED <<proc, pidFile, lockFile, using>>

\* The first check raises, outside the try block.
Refused(p) ==
    /\ pc[p] = "check"
    /\ SeesLock(p)
    /\ Goto(p, "idle", {})
    /\ UNCHANGED <<proc, pidFile, lockFile, using>>

WriteRecordUnchecked(p) ==
    /\ pc[p] = "check"
    /\ todo[p] = {}
    /\ pidFile' = [pidFile EXCEPT ![p] = proc[p]]
    /\ Goto(p, "recheck", {})
    /\ UNCHANGED <<proc, lockFile, using>>

\* No lock seen: the record is written aside and moved into place, and the
\* locks are looked at again.
WriteRecord(p) ==
    /\ pc[p] = "check"
    /\ todo[p] = {}
    /\ pidFile' = [pidFile EXCEPT ![p] = proc[p]]
    /\ Goto(p, "recheck", Others(p))
    /\ UNCHANGED <<proc, lockFile, using>>

\* A lock has come up, or writing the record fails: the record is removed.
Withdraw(p) ==
    /\ \/ pc[p] = "recheck" /\ SeesLock(p)
       \/ DiskFaults /\ pc[p] = "check" /\ todo[p] = {}
    /\ pidFile' = [pidFile EXCEPT ![p] = "none"]
    /\ Goto(p, "idle", {})
    /\ UNCHANGED <<proc, lockFile, using>>

\* request_access returns.
Granted(p) ==
    /\ pc[p] = "recheck"
    /\ todo[p] = {}
    /\ using' = using \cup {p}
    /\ Goto(p, "idle", {})
    /\ UNCHANGED <<proc, pidFile, lockFile>>
-----------------------------------------------------------------------------
\* lock is entered, and looks for locks.
RequestLock(p) ==
    /\ Alive(p)
    /\ pc[p] = "idle"
    /\ Goto(p, "free", Others(p))
    /\ UNCHANGED <<proc, pidFile, lockFile, using>>

\* _clear_stale_pid_files lists the records, its own among them.
ListRecords(p) ==
    /\ pc[p] = "free"
    /\ todo[p] = {}
    /\ Goto(p, "clear", {q \in Pids : pidFile[q] # "none"})
    /\ UNCHANGED <<proc, pidFile, lockFile, using>>

ProbeLeaving(p) ==
    /\ pc[p] = "clear"
    /\ \E q \in todo[p] :
          /\ todo' = [todo EXCEPT ![p] = @ \ {q}]
          /\ subject' = [subject EXCEPT ![p] = IF Alive(q) THEN {q} ELSE {}]
          /\ pc' = [pc EXCEPT ![p] = IF Alive(q) THEN "compare" ELSE "clear"]
    /\ UNCHANGED <<proc, pidFile, lockFile, using>>

\* psutil.Process(q) for the next record of the list: without such a process
\* the record is stale, otherwise its content has to be compared.
Probe(p) ==
    /\ pc[p] = "clear"
    /\ \E q \in todo[p] :
          /\ todo' = [todo EXCEPT ![p] = @ \ {q}]
          /\ subject' = [subject EXCEPT ![p] = {q}]
          /\ pc' = [pc EXCEPT ![p] = IF Alive(q) THEN "compare" ELSE "unlink"]
    /\ UNCHANGED <<proc, pidFile, lockFile, using>>

DiffersBlindly(q) == TRUE

\* The process runs another command than the record says.
Differs(q) == pidFile[q] # proc[q]

\* The record is read and compared with the command line of the process.
Compare(p) ==
    /\ pc[p] = "compare"
    /\ \E q \in subject[p] :
          /\ Alive(q)
          /\ pidFile[q] # "none"
          /\ IF Differs(q)
             THEN pc' = [pc EXCEPT ![p] = "unlink"] /\ UNCHANGED <<todo, subject>>
             ELSE Goto(p, "clear", todo[p])
    /\ UNCHANGED <<proc, pidFile, lockFile, using>>

\* path.unlink() of a record found stale.
UnlinkStale(p) ==
    /\ pc[p] = "unlink"
    /\ \E q \in subject[p] :
          /\ pidFile[q] # "none"
          /\ pidFile' = [pidFile EXCEPT ![q] = "none"]
    /\ Goto(p, "clear", todo[p])
    /\ UNCHANGED <<proc, lockFile, using>>

\* The file, or the process, is gone by the time it is read or unlinked: the
\* exception (FileNotFoundError, NoSuchProcess) leaves lock.
ClearRaises(p) ==
    /\ \E q \in subject[p] :
          \/ pc[p] \in {"compare", "unlink"} /\ pidFile[q] = "none"
          \/ pc[p] = "compare" /\ ~Alive(q)
    /\ Goto(p, "idle", {})
    /\ UNCHANGED <<proc, pidFile, lockFile, using>>

\* The records are cleared; the ones that are left are in use.
Cleared(p) ==
    /\ pc[p] = "clear"
    /\ todo[p] = {}
    /\ Goto(p, "unused", Others(p))
    /\ UNCHANGED <<proc, pidFile, lockFile, using>>

\* The checks before the lock file exists raise.
LockRefused(p) ==
    /\ \/ pc[p] = "free" /\ SeesLock(p)
       \/ pc[p] = "unused" /\ SeesAccess(p)
    /\ Goto(p, "idle", {})
    /\ UNCHANGED <<proc, pidFile, lockFile, using>>

\* filepath.touch(), and the locks are looked at again.
Touch(p) ==
    /\ pc[p] = "unused"
    /\ todo[p] = {}
    /\ lockFile' = lockFile \cup {p}
    /\ Goto(p, "alone", Others(p))
    /\ UNCHANGED <<proc, pidFile, using>>

RecheckSkipped(p) ==
    /\ pc[p] = "alone"
    /\ todo[p] = {}
    /\ Goto(p, "unshared", {})
    /\ UNCHANGED <<proc, pidFile, lockFile, using>>

\* No other lock: the records are looked at again.
Recheck(p) ==
    /\ pc[p] = "alone"
    /\ todo[p] = {}
    /\ Goto(p, "unshared", Others(p))
    /\ UNCHANGED <<proc, pidFile, lockFile, using>>

\* No record either: the body of the context runs.
Locked(p) ==
    /\ pc[p] = "unshared"
    /\ todo[p] = {}
    /\ Goto(p, "locked", {})
    /\ UNCHANGED <<proc, pidFile, lockFile, using>>

\* The `finally`: the body is done, or one of the last checks raises.
Unlock(p) ==
    /\ \/ pc[p] = "locked"
       \/ pc[p] = "alone" /\ SeesLock(p)
       \/ pc[p] = "unshared" /\ SeesAccess(p)
    /\ lockFile' = lockFile \ {p}
    /\ Goto(p, "idle", {})
    /\ UNCHANGED <<proc, pidFile, using>>
-----------------------------------------------------------------------------
\* A process starts under a free identifier.
Start(p) ==
    /\ ~Alive(p)
    /\ proc[p] = "dead" => PidReuse
    /\ \E c \in Commands : proc' = [proc EXCEPT ![p] = c]
    /\ UNCHANGED <<pidFile, lockFile, pc, todo, subject, using>>

\* A process ends or is killed, wherever it is; its files stay.
Die(p) ==
    /\ Alive(p)
    /\ proc' = [proc EXCEPT ![p] = "dead"]
    /\ using' = using \ {p}
    /\ Goto(p, "idle", {})
    /\ UNCHANGED <<pidFile, lockFile>>

\* clear_locks, used as its warning says: when the locks that are left belong
\* to processes that are gone.
ClearLocks ==
    /\ lockFile # {}
    /\ \A p \in lockFile : ~Alive(p)
    /\ lockFile' = {}
    /\ UNCHANGED <<proc, pidFile, pc, todo, subject, using>>

Access(p) ==
    RequestAccess(p) \/ Refused(p) \/ WriteRecord(p) \/ Withdraw(p) \/ Granted(p)

Clear(p) ==
    \/ ListRecords(p) \/ Probe(p) \/ Compare(p) \/ UnlinkStale(p)
    \/ ClearRaises(p) \/ Cleared(p)

Lock(p) ==
    \/ Clear(p) \/ LockRefused(p) \/ Touch(p) \/ Recheck(p) \/ Locked(p) \/ Unlock(p)

Look(p) == SeesNoLock(p) \/ SeesNoAccess(p)

Step(p) == Access(p) \/ RequestLock(p) \/ Lock(p) \/ Look(p)

Next ==
    \/ \E p \in Pids : Step(p) \/ Start(p) \/ Die(p)
    \/ ClearLocks

Spec == Init /\ [][Next]_vars

\* A call in progress goes on, and whoever wants the lock asks again.
FairSpec ==
    Spec /\ \A p \in Pids : WF_vars(Lock(p) \/ Look(p)) /\ WF_vars(RequestLock(p))
-----------------------------------------------------------------------------
Places == {"idle", "check", "recheck", "free", "clear", "compare",
           "unlink", "unused", "alone", "unshared", "locked"}

TypeOK ==
    /\ proc \in [Pids -> Commands \cup {"unborn", "dead"}]
    /\ pidFile \in [Pids -> Commands \cup {"none"}]
    /\ lockFile \subseteq Pids
    /\ pc \in [Pids -> Places]
    /\ todo \in [Pids -> SUBSET Pids]
    /\ subject \in [Pids -> SUBSET Pids]
    /\ \A p \in Pids : subject[p] # {} => pc[p] \in {"compare", "unlink"}
    /\ using \subseteq Pids

Holders == {p \in Pids : pc[p] = "locked"}

\* "If the profile is already locked or is currently in use, an exception is
\* raised" (class docstring): while the body of lock runs in one process, no
\* other process was granted access or the lock.
Exclusive ==
    \A p \in Holders : Holders = {p} /\ using \subseteq {p}

\* A process that uses the profile keeps its record in the directory until it
\* ends, so that a later lock can see it: nobody cleans up the record of a live
\* user.
UserHasRecord ==
    \A p \in using : pidFile[p] # "none"

\* Every step is a step of the readers-or-one-writer lock, or changes nothing
\* of it.
PL == INSTANCE ProfileLock WITH Processes <- Pids, accessors <- using, holder <- Holders

ImplementsLock == PL!Spec

\* p is the only process, and no other lock is left behind.
Sole(p) ==
    /\ Alive(p)
    /\ \A q \in Others(p) : ~Alive(q)
    /\ lockFile \subseteq {p}
    /\ pc[p] \notin {"check", "recheck"}

\* Records left behind by processes that are gone do not keep the profile from
\* being locked: a process that stays the only one, and keeps trying, gets the
\* lock again and again.
StaleNeverBlocks ==
    []<>(\A p \in Pids : Sole(p) => pc[p] = "locked")
=============================================================================
