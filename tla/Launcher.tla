------------------------------ MODULE Launcher ------------------------------
(***************************************************************************)
(* How a process gets from its submission to the end of its life in the    *)
(* daemon: the submitting interpreter (engine/runners.py), the task queue  *)
(* of the broker, the daemon workers with their ProcessLauncher            *)
(* (engine/processes/launcher.py, engine/daemon/worker.py) and the two     *)
(* ways in which a user puts a task back: revive_processes                 *)
(* (engine/processes/control.py) and `verdi process repair`.               *)
(*                                                                         *)
(* The broker is external: a task stays with it until the worker that took *)
(* it acknowledges it, and it is delivered again when the connection of    *)
(* that worker breaks, also when the worker itself lives on.               *)
(***************************************************************************)
EXTENDS Naturals, FiniteSets

CONSTANTS Procs,       \* process nodes
          Workers,     \* daemon workers
          Broken,      \* processes whose class cannot be imported
          Meddled,     \* processes whose submission may be cut short, and that
                       \* the user may revive or delete
          Outcomes,    \* terminal states in which a process may end
          Slots,       \* daemon.worker_process_slots
          MaxTasks,    \* bound: tasks of a process that wait at the broker
          MaxFaults    \* bound: crashes and broken connections

ASSUME LauncherAssumption ==
    /\ Broken \subseteq Procs /\ Meddled \subseteq Procs
    /\ Outcomes \subseteq {"finished", "excepted", "killed"}
    /\ Slots \in Nat \ {0}
    /\ MaxTasks \in [Procs -> Nat \ {0}]
    /\ MaxFaults \in Nat

VARIABLES sub,      \* what the submitting interpreter has done for a process
          node,     \* process state stored on the node
          sealed,   \* whether the node is sealed
          ckpt,     \* whether the node holds a checkpoint
          queue,    \* number of tasks of a process that wait at the broker
          held,     \* number of unacknowledged tasks a worker has of a process
          inst,     \* the instance of the process that a worker has in memory
          up,       \* whether a worker runs
          faults,   \* number of faults so far
          asked,    \* observation: a task was sent for the process
          dup,      \* observation: a task was added beside another one or
                    \* beside an instance, and may still be there
          cut       \* observation: a crash hit between the end and the seal

database == <<node, sealed, ckpt>>
broker == <<queue, held>>
observed == <<asked, dup, cut>>
vars == <<sub, database, broker, inst, up, faults, observed>>

ActiveStates == {"created", "running"}
TerminalStates == {"finished", "excepted", "killed"}

Active(p) == node[p] \in ActiveStates
Terminated(p) == node[p] \in TerminalStates

\* A process that is in memory of a worker and has not yet been closed has a
\* subscriber there: "live" while it runs, "ended" when its terminal state is
\* written and on_terminated is still to come, "broken" when the launcher has
\* marked a process it could not load and has still to seal it.
InMemory == {"live", "ended", "broken"}
Instances(p) == {w \in Workers : inst[w][p] \in InMemory}
HasTask(p) == queue[p] > 0 \/ \E w \in Workers : held[w][p] > 0

Init ==
    /\ sub = [p \in Procs |-> "none"]
    /\ node = [p \in Procs |-> "none"]
    /\ sealed = [p \in Procs |-> FALSE]
    /\ ckpt = [p \in Procs |-> FALSE]
    /\ queue = [p \in Procs |-> 0]
    /\ held = [w \in Workers |-> [p \in Procs |-> 0]]
    /\ inst = [w \in Workers |-> [p \in Procs |-> "no"]]
    /\ up = [w \in Workers |-> TRUE]
    /\ faults = 0
    /\ asked = [p \in Procs |-> FALSE]
    /\ dup = [p \in Procs |-> FALSE]
    /\ cut = [p \in Procs |-> FALSE]

-----------------------------------------------------------------------------
(* Runner.submit: the node is stored while the process is instantiated, then *)
(* the checkpoint is saved, then the task is sent. The interpreter can stop  *)
(* between any two of them, or fail to reach the broker.                     *)

Instantiate(p) ==
    /\ sub[p] = "none"
    /\ sub' = [sub EXCEPT ![p] = "stored"]
    /\ node' = [node EXCEPT ![p] = "created"]
    /\ UNCHANGED <<sealed, ckpt, broker, inst, up, faults, observed>>

SaveFirst(p) ==
    /\ sub[p] = "stored"
    /\ sub' = [sub EXCEPT ![p] = "saved"]
    /\ ckpt' = [ckpt EXCEPT ![p] = TRUE]
    /\ UNCHANGED <<node, sealed, broker, inst, up, faults, observed>>

\* continue_process of the controller: one more task for p.
AddTask(p) ==
    /\ queue[p] < MaxTasks[p]
    /\ queue' = [queue EXCEPT ![p] = @ + 1]
    /\ asked' = [asked EXCEPT ![p] = TRUE]
    /\ dup' = [dup EXCEPT ![p] = @ \/ HasTask(p) \/ Instances(p) # {}]

\* A submission that sends the task again because no reply came in time.
SendTaskRetried(p) ==
    /\ sub[p] = "saved"
    /\ sub' = [sub EXCEPT ![p] = "sent"]
    /\ queue' = [queue EXCEPT ![p] = MaxTasks[p]]
    /\ asked' = [asked EXCEPT ![p] = TRUE]
    /\ UNCHANGED <<database, held, inst, up, faults, dup, cut>>

SendTask(p) ==
    /\ sub[p] = "saved"
    /\ sub' = [sub EXCEPT ![p] = "sent"]
    /\ AddTask(p)
    /\ UNCHANGED <<database, held, inst, up, faults, cut>>

Abandon(p) ==
    /\ p \in Meddled /\ sub[p] \in {"stored", "saved"}
    /\ sub' = [sub EXCEPT ![p] = "lost"]
    /\ UNCHANGED <<database, broker, inst, up, faults, observed>>

-----------------------------------------------------------------------------
(* ProcessLauncher._continue, up to its first await. The tests come in the   *)
(* order of the code: node missing, node terminated, process not loadable,   *)
(* process already subscribed by this worker.                                *)

\* The broker hands w a task of p, as long as w has a free slot.
Taken(w, p) ==
    /\ up[w] /\ queue[p] > 0
    /\ Cardinality({q \in Procs : held[w][q] > 0}) < Slots
    /\ queue' = [queue EXCEPT ![p] = @ - 1]

Loadable(p) == p \notin Broken /\ ckpt[p]

\* The task is acknowledged at once: the node is deleted or terminated, or the
\* process cannot be loaded and its node is sealed already.
ContinueNothing(w, p) ==
    /\ Active(p) => ~ Loadable(p) /\ sealed[p]
    /\ Taken(w, p)
    /\ UNCHANGED <<sub, database, held, inst, up, faults, observed>>

ContinueDuplicate(w, p) ==
    /\ Active(p) /\ Loadable(p) /\ inst[w][p] = "live"
    /\ Taken(w, p)
    /\ UNCHANGED <<sub, database, held, inst, up, faults, observed>>

ContinueLoaded(w, p) ==
    /\ Active(p) /\ Loadable(p) /\ inst[w][p] # "live"
    /\ Taken(w, p)
    /\ held' = [held EXCEPT ![w][p] = @ + 1]
    /\ inst' = [inst EXCEPT ![w][p] = "live"]
    /\ UNCHANGED <<sub, database, up, faults, observed>>

\* The exception of a process that cannot be loaded is only passed on.
ContinueBrokenRaises(w, p) ==
    /\ Active(p) /\ ~ Loadable(p) /\ ~ sealed[p]
    /\ Taken(w, p)
    /\ UNCHANGED <<sub, database, held, inst, up, faults, observed>>

\* handle_continue_exception writes the state first and the seal after it.
ContinueBroken(w, p) ==
    /\ Active(p) /\ ~ Loadable(p) /\ ~ sealed[p]
    /\ Taken(w, p)
    /\ node' = [node EXCEPT ![p] = "excepted"]
    /\ held' = [held EXCEPT ![w][p] = @ + 1]
    /\ inst' = [inst EXCEPT ![w][p] = "broken"]
    /\ UNCHANGED <<sub, sealed, ckpt, up, faults, observed>>

\* An acknowledgement that counts a task which is gone already.
AckBlindly(w, p) == held' = [held EXCEPT ![w][p] = @ - 1]

Ack(w, p) == held' = [held EXCEPT ![w][p] = IF @ > 0 THEN @ - 1 ELSE 0]

SealBroken(w, p) ==
    /\ inst[w][p] = "broken"
    /\ sealed' = [sealed EXCEPT ![p] = TRUE]
    /\ inst' = [inst EXCEPT ![w][p] = "no"]
    /\ Ack(w, p)
    /\ UNCHANGED <<sub, node, ckpt, queue, up, faults, observed>>

-----------------------------------------------------------------------------
(* The instance in the memory of a worker. Every write to a sealed node      *)
(* raises; that exception leaves the process and ends the task.              *)

\* A worker whose write goes through whether the node is sealed or not.
StepUnchecked(w, p) ==
    /\ inst[w][p] = "live"
    /\ node' = [node EXCEPT ![p] = "running"]
    /\ ckpt' = [ckpt EXCEPT ![p] = TRUE]
    /\ UNCHANGED <<sub, sealed, broker, inst, up, faults, observed>>

Step(w, p) ==
    /\ inst[w][p] = "live" /\ ~ sealed[p]
    /\ node' = [node EXCEPT ![p] = "running"]
    /\ ckpt' = [ckpt EXCEPT ![p] = TRUE]
    /\ UNCHANGED <<sub, sealed, broker, inst, up, faults, observed>>

WriteRefused(w, p) ==
    /\ inst[w][p] = "live" /\ sealed[p]
    /\ inst' = [inst EXCEPT ![w][p] = "no"]
    /\ Ack(w, p)
    /\ UNCHANGED <<sub, database, queue, up, faults, observed>>

\* on_entered of a terminal state, by itself or because of a kill.
End(w, p) ==
    /\ inst[w][p] = "live" /\ ~ sealed[p]
    /\ \E s \in Outcomes : node' = [node EXCEPT ![p] = s]
    /\ inst' = [inst EXCEPT ![w][p] = "ended"]
    /\ UNCHANGED <<sub, sealed, ckpt, broker, up, faults, observed>>

\* A terminal transition that leaves the seal out.
OnTerminatedUnsealed(w, p) ==
    /\ inst[w][p] = "ended"
    /\ ckpt' = [ckpt EXCEPT ![p] = FALSE]
    /\ inst' = [inst EXCEPT ![w][p] = "done"]
    /\ UNCHANGED <<sub, node, sealed, broker, up, faults, observed>>

OnTerminated(w, p) ==
    /\ inst[w][p] = "ended"
    /\ ckpt' = [ckpt EXCEPT ![p] = IF sealed[p] THEN @ ELSE FALSE]
    /\ sealed' = [sealed EXCEPT ![p] = TRUE]
    /\ inst' = [inst EXCEPT ![w][p] = "done"]
    /\ UNCHANGED <<sub, node, broker, up, faults, observed>>

\* A worker that never acknowledges the task of a process that ended.
AcknowledgeNever(w, p) ==
    /\ inst[w][p] = "done"
    /\ inst' = [inst EXCEPT ![w][p] = "no"]
    /\ UNCHANGED <<sub, database, broker, up, faults, observed>>

\* The task of an instance may be gone already, which is ignored.
Acknowledge(w, p) ==
    /\ inst[w][p] = "done"
    /\ inst' = [inst EXCEPT ![w][p] = "no"]
    /\ Ack(w, p)
    /\ UNCHANGED <<sub, database, queue, up, faults, observed>>

-----------------------------------------------------------------------------
(* Faults of workers and connections, and what the user does about them.     *)

\* The broker takes back what w has not acknowledged.
Requeue(w) ==
    /\ \A p \in Procs : queue[p] + held[w][p] <= MaxTasks[p]
    /\ queue' = [p \in Procs |-> queue[p] + held[w][p]]
    /\ held' = [held EXCEPT ![w] = [p \in Procs |-> 0]]

\* A crash, or shutdown_worker, which cancels every coroutine of the worker.
Stop(w) ==
    /\ up[w] /\ faults < MaxFaults
    /\ faults' = faults + 1
    /\ up' = [up EXCEPT ![w] = FALSE]
    /\ inst' = [inst EXCEPT ![w] = [p \in Procs |-> "no"]]
    /\ Requeue(w)
    /\ cut' = [p \in Procs |->
                 cut[p] \/ (inst[w][p] \in {"ended", "broken"} /\ ~ sealed[p])]
    /\ UNCHANGED <<sub, database, asked, dup>>

Start(w) ==
    /\ ~ up[w]
    /\ up' = [up EXCEPT ![w] = TRUE]
    /\ UNCHANGED <<sub, database, broker, inst, faults, observed>>

\* The worker misses a heartbeat: its tasks go back, its processes run on.
LoseConnection(w) ==
    /\ up[w] /\ faults < MaxFaults
    /\ faults' = faults + 1
    /\ Requeue(w)
    /\ dup' = [p \in Procs |-> dup[p] \/ inst[w][p] # "no"]
    /\ UNCHANGED <<sub, database, inst, up, asked, cut>>

\* revive_processes takes the processes it is given, whatever their state.
Revive(p) ==
    /\ p \in Meddled /\ node[p] # "deleted" /\ sub[p] \in {"sent", "lost"}
    /\ \E w \in Workers : up[w]
    /\ AddTask(p)
    /\ UNCHANGED <<sub, database, held, inst, up, faults, cut>>

\* process_repair: tasks of inactive processes are acknowledged, active
\* processes without a task get one. Nothing is done when all is consistent.
RepairedQueue ==
    [p \in Procs |-> IF ~ Active(p) THEN 0
                     ELSE IF queue[p] = 0 THEN 1 ELSE queue[p]]

Inconsistent ==
    \E p \in Procs : queue[p] > 1 \/ (queue[p] > 0) # Active(p)

Repair ==
    /\ \A w \in Workers : ~ up[w]
    /\ Inconsistent
    /\ queue' = RepairedQueue
    /\ asked' = [p \in Procs |-> asked[p] \/ Active(p)]
    /\ dup' = [p \in Procs |-> queue[p] > 1 /\ Active(p)]
    /\ UNCHANGED <<sub, database, held, inst, up, faults, cut>>

\* delete_nodes, for a process that no worker has in memory.
DeleteNode(p) ==
    /\ p \in Meddled /\ (Active(p) \/ Terminated(p))
    /\ Instances(p) = {}
    /\ node' = [node EXCEPT ![p] = "deleted"]
    /\ UNCHANGED <<sub, sealed, ckpt, broker, inst, up, faults, observed>>

-----------------------------------------------------------------------------

Submission(p) == Instantiate(p) \/ SaveFirst(p) \/ SendTask(p) \/ Abandon(p)

Continue(w, p) ==
    \/ ContinueNothing(w, p) \/ ContinueDuplicate(w, p)
    \/ ContinueLoaded(w, p) \/ ContinueBroken(w, p)

Instance(w, p) ==
    \/ SealBroken(w, p) \/ Step(w, p) \/ WriteRefused(w, p)
    \/ End(w, p) \/ OnTerminated(w, p) \/ Acknowledge(w, p)

Next ==
    \/ \E p \in Procs : Submission(p) \/ Revive(p) \/ DeleteNode(p)
    \/ \E w \in Workers, p \in Procs : Continue(w, p) \/ Instance(w, p)
    \/ \E w \in Workers : Stop(w) \/ Start(w) \/ LoseConnection(w)
    \/ Repair

\* A worker takes tasks, its loop runs what is in memory, a process ends after
\* finitely many steps, and circus starts a worker that stopped.
Fairness ==
    /\ \A w \in Workers, p \in Procs :
         /\ WF_vars(Continue(w, p))
         /\ WF_vars(End(w, p))
         /\ WF_vars(WriteRefused(w, p) \/ OnTerminated(w, p))
         /\ WF_vars(SealBroken(w, p) \/ Acknowledge(w, p))
    /\ \A w \in Workers : WF_vars(Start(w))

Spec == Init /\ [][Next]_vars /\ Fairness

-----------------------------------------------------------------------------

TypeOK ==
    /\ sub \in [Procs -> {"none", "stored", "saved", "sent", "lost"}]
    /\ node \in [Procs -> ActiveStates \cup TerminalStates \cup {"none", "deleted"}]
    /\ sealed \in [Procs -> BOOLEAN] /\ ckpt \in [Procs -> BOOLEAN]
    /\ queue \in [Procs -> Nat] /\ \A p \in Procs : queue[p] <= MaxTasks[p]
    /\ held \in [Workers -> [Procs -> Nat]]
    /\ inst \in [Workers -> [Procs -> InMemory \cup {"no", "done"}]]
    /\ up \in [Workers -> BOOLEAN]
    /\ faults \in 0..MaxFaults
    /\ asked \in [Procs -> BOOLEAN] /\ dup \in [Procs -> BOOLEAN]
    /\ cut \in [Procs -> BOOLEAN]

\* A process is in the memory of one worker at most, unless a second task was
\* made for it, by a broken connection or by revive_processes, while it had
\* one already: what the acknowledgements of the launcher are there for.
OneInstance ==
    \A p \in Procs : ~ dup[p] => Cardinality(Instances(p)) <= 1

\* A process for which a task was sent and that has not terminated is never
\* forgotten: it has a task or a worker has it in memory. The exception is a
\* process that was given a second task: the launcher discards one of the two
\* (DuplicateSubscriberIdentifier), or takes a terminal state that the other
\* instance will overwrite for the end. `verdi process repair` ends the
\* exception, since it runs while no worker does, except for a node that one
\* instance sealed after the other had put it back to running.
NotForgotten ==
    \A p \in Procs :
        asked[p] /\ Active(p) /\ ~ sealed[p] /\ ~ dup[p] =>
            HasTask(p) \/ Instances(p) # {}

\* A terminated process is sealed or about to be: the exception is a worker
\* that stopped between the terminal state and the seal. The launcher does not
\* continue such a process (launcher.py:70), so nobody will seal it.
SealedOrSealing ==
    \A p \in Procs :
        Terminated(p) /\ ~ sealed[p] /\ ~ cut[p] =>
            \E w \in Workers : inst[w][p] \in {"ended", "broken"}

\* Whatever a second worker with the same process does, a sealed node keeps
\* its state; and when the process was never doubled, a terminal state is
\* final from the moment it is written.
EndIsFinal ==
    [][\A p \in Procs :
         Terminated(p) /\ (sealed[p] \/ ~ dup[p]) =>
            node'[p] \in {node[p], "deleted"} /\ (sealed[p] => sealed'[p])]_vars

\* A process for which a task was sent, at its submission, by
\* revive_processes or by the repair, ends, unless the node is deleted or it
\* was given a second task. This needs more than a task in the queue:
\* a worker with a free slot, and acknowledgements that free the slots again.
Completed ==
    \A p \in Procs : asked[p] ~> (~ Active(p) \/ sealed[p] \/ dup[p])

\* What the docstring of process_repair says: duplicate tasks are discarded.
\* The code acknowledges only tasks of processes that are not active.
RepairDiscardsDuplicates ==
    [][Repair => \A p \in Procs : queue'[p] <= 1]_vars
=============================================================================
