------------------------------ MODULE CalcJob ------------------------------
(***************************************************************************)
(* The life of one calculation job: the `CalcJob` process with its         *)
(* `Waiting` state (engine/processes/calcjobs/tasks.py), the transport     *)
(* tasks it launches, the execmanager functions they call, the node it     *)
(* writes, the checkpoint it restarts from, and the scheduler.             *)
(*                                                                         *)
(* The process runs on one asyncio event loop, so whatever lies between    *)
(* two awaits is one step, except that a crash of the daemon worker can    *)
(* fall between two writes to the database or to the scheduler: a task     *)
(* that makes several of them is split at each one.                        *)
(***************************************************************************)
EXTENDS Integers, FiniteSets

CONSTANTS
    Jobs,            \* the job ids the scheduler can hand out
    NoJob,           \* `node.get_job_id()` is None
    MonitorResults,  \* what the monitors of the job can return
    MaxAttempts,     \* option `transport.task_maximum_attempts`
    MaxCrashes,      \* bound on the crashes of the worker
    AsyncTransport,  \* the transport plugin suspends in the middle of a task
    Inputs,          \* the kinds of calculation job that are launched
    Events           \* what may happen beside the normal course: see the actions

(* `monitor_result` when no monitor returned anything.                     *)
NoMonitor == [action |-> "NONE", retrieve |-> TRUE, parse |-> TRUE, override |-> FALSE]

(* CalcJobMonitorResult, with its validation: parsing needs retrieving.    *)
MonitorResult ==
    {m \in [action : {"KILL", "DISABLE_ALL", "DISABLE_SELF"}, retrieve : BOOLEAN,
            parse : BOOLEAN, override : BOOLEAN] : m.parse => m.retrieve}

(* What the user launches: `kind` is how `run` starts it, `skip` is        *)
(* `CalcInfo.skip_submit`, `stash` is whether the option is set,           *)
(* `monitors` whether any monitors were given.                             *)
InputType == [kind : {"run", "import", "cached"}, skip : BOOLEAN,
              stash : BOOLEAN, monitors : BOOLEAN]

ASSUME CalcJobAssumption ==
    /\ NoJob \notin Jobs
    /\ MonitorResults \subseteq MonitorResult
    /\ Inputs \subseteq InputType
    /\ MaxAttempts \in Nat \ {0}
    /\ MaxCrashes \in Nat
    /\ AsyncTransport \in BOOLEAN

VARIABLES
    input,       \* what was launched
    jobState,    \* attribute `state` of the node, a CalcJobState
    jobId,       \* attribute `job_id` of the node
    links,       \* labels of the CREATE links of the node
    procState,   \* attribute `process_state` of the node
    exitStatus,  \* attribute `exit_status` of the node
    sealed,      \* attribute `sealed` of the node
    ckpt,        \* attribute `checkpoints` of the node
    job,         \* the scheduler's state of each job
    lost,        \* history: jobs accepted whose id the node never got
    stopped,     \* history: a monitor wants the job killed and its exit code used
    crashes,     \* crashes so far
    alive,       \* a worker has the process in memory
    st,          \* the plumpy state: command and monitor result, or parse arguments
    outs,        \* `process._outputs`
    paused,      \* `process.paused`
    phase,       \* where the step of the process stands
    task,        \* the task in `Waiting._task`
    attempt,     \* the iteration of exponential_backoff_retry
    pending,     \* the job id `scheduler.submit_job` returned
    res,         \* the result of the task
    found,       \* `monitor_result` of this round of the update loop
    action,      \* the interrupt action plumpy runs after the step
    detached     \* tasks interrupted while working: their coroutine goes on

nodeVars == <<jobState, jobId, links, procState, exitStatus, sealed, ckpt>>
schedVars == <<job, lost>>
taskVars == <<phase, task, attempt, pending, res, found, action>>
procVars == <<alive, st, outs, paused>>
rest == <<input, stopped, crashes, detached>>
vars == <<input, jobState, jobId, links, procState, exitStatus, sealed, ckpt, job, lost,
          stopped, crashes, alive, st, outs, paused, phase, task, attempt, pending, res,
          found, action, detached>>

JobStates == {"NONE", "UPLOADING", "SUBMITTING", "WITHSCHEDULER", "STASHING", "RETRIEVING", "PARSING"}
Outputs == {"remote_folder", "remote_stash", "retrieved"}
Waits == {"UPLOAD", "SUBMIT", "UPDATE", "STASH", "RETRIEVE"}
Commands == Waits \cup {"RUN", "PARSE", "TERMINATE"}
Tasks == {"upload", "submit", "update", "monitor", "stash", "retrieve", "kill", "kill_user"}
ExitCodes == {"none", "ok", "parser", "submit_error", "monitor", "no_retrieved", "cached"}

(* A plumpy state: `exit` is an exit code passed on to `parse` or          *)
(* `terminate`, `temp` whether the temporary folder passed to `parse` has  *)
(* the files of the retrieve_temporary_list.                               *)
State == [cmd : Commands, mon : MonitorResults \cup {NoMonitor}, exit : ExitCodes, temp : BOOLEAN]
Checkpoint == [st : State, outs : SUBSET Outputs, paused : BOOLEAN, saved : BOOLEAN]

Phases == {"idle", "enter", "request", "sleep", "work", "accepted", "stored", "stashed",
           "resolved", "saving", "pausing", "importing", "closing", "closed"}

Terminal == {"FINISHED", "KILLED", "EXCEPTED"}

(* The type of the state, with which attribute holds which values.         *)
TypeOK ==
    /\ input \in Inputs
    /\ jobState \in JobStates /\ jobId \in Jobs \cup {NoJob}
    /\ links \subseteq Outputs /\ exitStatus \in ExitCodes
    /\ procState \in Terminal \cup {"ACTIVE"} /\ sealed \in BOOLEAN
    /\ ckpt \in Checkpoint
    /\ job \in [Jobs -> {"free", "active", "done"}] /\ lost \subseteq Jobs
    /\ stopped \in BOOLEAN /\ crashes \in 0..MaxCrashes
    /\ alive \in BOOLEAN /\ st \in State /\ outs \subseteq Outputs /\ paused \in BOOLEAN
    /\ phase \in Phases /\ task \in Tasks /\ attempt \in 1..MaxAttempts
    /\ pending \in Jobs \cup {NoJob} /\ found \in MonitorResults \cup {NoMonitor}
    /\ res \in {"none", "skip_submit", "exit_code", "job_done", "temp"}
    /\ action \in {"none", "pause", "kill"} /\ detached \subseteq {"upload", "stash", "retrieve"}

Start(cmd) == [cmd |-> cmd, mon |-> NoMonitor, exit |-> "none", temp |-> FALSE]

(* A process that was created and stored, with its first checkpoint, and   *)
(* that a worker has just taken up.  A cached node has its outputs and its *)
(* exit status from the node it was cloned from.                           *)
Init ==
    /\ input \in Inputs
    /\ jobState = "NONE" /\ jobId = NoJob
    /\ links = IF input.kind = "cached" THEN {"remote_folder", "retrieved"} ELSE {}
    /\ exitStatus = IF input.kind = "cached" THEN "cached" ELSE "none"
    /\ procState = "ACTIVE" /\ sealed = FALSE
    /\ ckpt = [st |-> Start("RUN"), outs |-> {}, paused |-> FALSE, saved |-> TRUE]
    /\ job = [j \in Jobs |-> "free"] /\ lost = {} /\ stopped = FALSE /\ crashes = 0
    /\ alive = TRUE /\ st = Start("RUN") /\ outs = {} /\ paused = FALSE
    /\ phase = "idle" /\ task = "upload" /\ attempt = 1 /\ pending = NoJob
    /\ res = "none" /\ found = NoMonitor /\ action = "none" /\ detached = {}

-----------------------------------------------------------------------------
(* Process transitions: `Process.on_entered`, `on_paused`, `on_terminated`. *)

(* `transition_to` a state that is not terminal: the new outputs are       *)
(* attached to the node.  The checkpoint is saved after that.              *)
TransitionTo(s) ==
    /\ st' = s /\ links' = links \cup outs
    /\ phase' = "saving" /\ attempt' = 1 /\ res' = "none" /\ found' = NoMonitor
    /\ UNCHANGED <<jobState, jobId, procState, exitStatus, sealed, ckpt, schedVars, alive,
                   outs, paused, task, pending, action, rest>>

(* Mutation: the checkpoint is left out.                                   *)
SaveNothing ==
    /\ alive /\ phase = "saving"
    /\ phase' = IF action = "pause" THEN "pausing" ELSE "enter"
    /\ UNCHANGED <<nodeVars, schedVars, procVars, task, attempt, pending, res, found, action,
                   rest>>

SaveCheckpoint ==
    /\ alive /\ phase = "saving"
    /\ ckpt' = [st |-> st, outs |-> outs, paused |-> FALSE, saved |-> TRUE]
    /\ phase' = IF action = "pause" THEN "pausing" ELSE "enter"
    /\ UNCHANGED <<jobState, jobId, links, procState, exitStatus, sealed, schedVars,
                   procVars, task, attempt, pending, res, found, action, rest>>

OnPaused ==
    /\ alive /\ phase = "pausing"
    /\ paused' = TRUE
    /\ ckpt' = [st |-> st, outs |-> outs, paused |-> TRUE, saved |-> TRUE]
    /\ phase' = "idle" /\ action' = "none"
    /\ attempt' = 1 /\ res' = "none" /\ found' = NoMonitor
    /\ UNCHANGED <<jobState, jobId, links, procState, exitStatus, sealed, schedVars,
                   alive, st, outs, task, pending, rest>>

(* `transition_to` a terminal state.  An excepted process does not attach  *)
(* its outputs.                                                            *)
EnterTerminal(ps, exit) ==
    /\ procState' = ps
    /\ exitStatus' = IF ps = "FINISHED" THEN exit ELSE exitStatus
    /\ links' = IF ps = "EXCEPTED" THEN links ELSE links \cup outs
    /\ phase' = "closing" /\ action' = "none"
    /\ attempt' = 1 /\ res' = "none" /\ found' = NoMonitor
    /\ UNCHANGED <<jobState, jobId, sealed, ckpt, schedVars, procVars, task, pending, rest>>

(* `on_terminated`: delete the job state and the checkpoint, seal the node. *)
OnTerminated ==
    /\ alive /\ phase = "closing"
    /\ jobState' = "NONE" /\ ckpt' = [ckpt EXCEPT !.saved = FALSE] /\ sealed' = TRUE
    /\ phase' = "closed"
    /\ UNCHANGED <<jobId, links, procState, exitStatus, schedVars, procVars, task, attempt,
                   pending, res, found, action, rest>>

(* The step of plumpy after `execute` returned `s`: a kill that was        *)
(* requested meanwhile replaces the returned state.                        *)
Leave(s) == IF action = "kill" THEN EnterTerminal("KILLED", "none") ELSE TransitionTo(s)

Steps(cmd) == alive /\ ~paused /\ phase \in {"idle", "enter"} /\ st.cmd = cmd

-----------------------------------------------------------------------------
(* CalcJob.run, parse and terminate: the Running states.                   *)

RunWait ==
    /\ Steps("RUN") /\ input.kind = "run"
    /\ TransitionTo(Start("UPLOAD"))

RunCached ==
    /\ Steps("RUN") /\ input.kind = "cached"
    /\ EnterTerminal("FINISHED", exitStatus)

PerformImport ==
    /\ Steps("RUN") /\ input.kind = "import"
    /\ links' = links \cup {"retrieved"} /\ outs' = outs \cup ({"retrieved"} \ links)
    /\ jobState' = "PARSING" /\ phase' = "importing"
    /\ UNCHANGED <<jobId, procState, exitStatus, sealed, ckpt, schedVars, alive, st, paused,
                   task, attempt, pending, res, found, action, rest>>

(* `parse(retrieved_temporary_folder, existing_exit_code)`                 *)
Parse ==
    /\ alive
    /\ phase = "importing" \/ Steps("PARSE")
    /\ \/ /\ "retrieved" \notin links
          /\ EnterTerminal("FINISHED", "no_retrieved")
       \/ /\ "retrieved" \in links
          /\ \E e \in {"ok", "parser"} :
                EnterTerminal("FINISHED", IF st.exit # "none" THEN st.exit ELSE e)
       \/ /\ "retrieved" \in links /\ "parser" \in Events
          /\ EnterTerminal("EXCEPTED", "none")

TerminateWith ==
    /\ Steps("TERMINATE")
    /\ EnterTerminal("FINISHED", st.exit)

-----------------------------------------------------------------------------
(* Waiting.execute: launching the task of the command, and resuming when   *)
(* it has resolved.                                                        *)

(* Mutation: upload and retrieve do not look at the job state.             *)
DoneStatesUnchecked ==
    [upload |-> {}, submit |-> {"WITHSCHEDULER"},
     update |-> {"RETRIEVING", "STASHING"}, monitor |-> {"RETRIEVING", "STASHING"},
     stash |-> {"RETRIEVING"}, retrieve |-> {},
     kill |-> {"UPLOADING", "SUBMITTING"}, kill_user |-> {"UPLOADING", "SUBMITTING"}]

(* The states in which a task finds its work already done and returns.     *)
DoneStates ==
    [upload |-> {"SUBMITTING"}, submit |-> {"WITHSCHEDULER"},
     update |-> {"RETRIEVING", "STASHING"}, monitor |-> {"RETRIEVING", "STASHING"},
     stash |-> {"RETRIEVING"}, retrieve |-> {"PARSING"},
     kill |-> {"UPLOADING", "SUBMITTING"}, kill_user |-> {"UPLOADING", "SUBMITTING"}]

Launch(t) ==
    LET done == jobState \in DoneStates[t]
    IN  /\ task' = t /\ attempt' = 1
        /\ phase' = IF done THEN "resolved" ELSE "request"
        /\ res' = IF t \in {"monitor", "kill"} THEN res
                  ELSE IF t = "update" /\ done THEN "job_done" ELSE "none"

Executes(cmd, t) ==
    /\ Steps(cmd)
    /\ Launch(t)
    /\ UNCHANGED <<nodeVars, schedVars, procVars, pending, found, action, rest>>

ExecuteUpload == Executes("UPLOAD", "upload")

(* `task_submit_job` asserts that a job WITHSCHEDULER has a job id.        *)
ExecuteSubmit ==
    IF jobState = "WITHSCHEDULER" /\ jobId = NoJob
    THEN Steps("SUBMIT") /\ EnterTerminal("EXCEPTED", "none")
    ELSE Executes("SUBMIT", "submit")

ExecuteUpdate == Executes("UPDATE", "update")

ExecuteStash ==
    IF input.stash THEN Executes("STASH", "stash")
    ELSE Steps("STASH") /\ TransitionTo([st EXCEPT !.cmd = "RETRIEVE"])

ExecuteRetrieve == Executes("RETRIEVE", "retrieve")

Resolved(t) == alive /\ phase = "resolved" /\ task = t

ResumeUpload ==
    /\ Resolved("upload")
    /\ Leave(IF res = "skip_submit" THEN [st EXCEPT !.cmd = "STASH"] ELSE Start("SUBMIT"))

ResumeSubmit ==
    /\ Resolved("submit")
    /\ Leave(IF res = "exit_code"
             THEN [Start("TERMINATE") EXCEPT !.exit = "submit_error"] ELSE Start("UPDATE"))

(* The end of a round of the `while not job_done` loop.                    *)
EndRound(m, done) ==
    IF m # NoMonitor /\ ~m.retrieve
    THEN Leave([Start("TERMINATE") EXCEPT !.exit = "monitor"])
    ELSE IF done THEN Leave([Start("STASH") EXCEPT !.mon = m])
    ELSE /\ Launch("update")
         /\ found' = NoMonitor
         /\ UNCHANGED <<nodeVars, schedVars, procVars, pending, action, rest>>

ResumeUpdate ==
    /\ Resolved("update")
    /\ IF input.monitors /\ st.mon.action # "DISABLE_ALL"
       THEN /\ Launch("monitor")
            /\ UNCHANGED <<nodeVars, schedVars, procVars, pending, found, action, rest>>
       ELSE EndRound(NoMonitor, res = "job_done")

(* Mutation: the loop ends on KILL without the kill task.                  *)
ResumeMonitorNoKill ==
    Resolved("monitor") /\ EndRound(found, found.action = "KILL" \/ res = "job_done")

(* `_monitor_job` keeps the result on the state; KILL launches the kill.   *)
ResumeMonitor ==
    /\ Resolved("monitor")
    /\ IF found.action = "KILL"
       THEN /\ Launch("kill")
            /\ UNCHANGED <<nodeVars, schedVars, procVars, pending, found, action, rest>>
       ELSE EndRound(found, res = "job_done")

ResumeKill == Resolved("kill") /\ EndRound(found, TRUE)

ResumeKillUser == Resolved("kill_user") /\ Leave([st EXCEPT !.cmd = "RETRIEVE"])

ResumeStash == Resolved("stash") /\ Leave([st EXCEPT !.cmd = "RETRIEVE"])

ResumeRetrieve ==
    LET parse == [Start("PARSE") EXCEPT !.temp = (res = "temp")]
        stop == [Start("TERMINATE") EXCEPT !.exit = "monitor"]
    IN  /\ Resolved("retrieve")
        /\ Leave(IF st.mon = NoMonitor THEN parse
                 ELSE IF ~st.mon.parse THEN stop
                 ELSE IF st.mon.override THEN [parse EXCEPT !.exit = "monitor"]
                 ELSE parse)

-----------------------------------------------------------------------------
(* The transport tasks and the execmanager functions they call.            *)

InTask(t, ph) == alive /\ task = t /\ phase = ph

(* The task goes on to its next phase and changes nothing else of its own. *)
TaskStep(ph) ==
    /\ phase' = ph
    /\ UNCHANGED <<procState, exitStatus, sealed, ckpt, alive, st, paused, task, attempt,
                   action, input, crashes, detached>>

(* The transport is there: `presubmit`, and `upload_calculation` begins.   *)
UploadStart ==
    /\ InTask("upload", "request") /\ TaskStep("work")
    /\ UNCHANGED <<jobState, jobId, links, schedVars, outs, pending, res, found, stopped>>

PresubmitRaises ==
    /\ InTask("upload", "request") /\ "presubmit" \in Events
    /\ EnterTerminal("EXCEPTED", "none")

UploadDone ==
    /\ InTask("upload", "work") /\ TaskStep("resolved")
    /\ outs' = outs \cup {"remote_folder"}
    /\ jobState' = "SUBMITTING"
    /\ res' = IF input.skip THEN "skip_submit" ELSE "none"
    /\ UNCHANGED <<jobId, links, schedVars, pending, found, stopped>>

(* `submit_calculation`: a node that has a job id is not submitted again.  *)
SubmitKnown ==
    /\ InTask("submit", "request") /\ jobId # NoJob /\ TaskStep("stored")
    /\ UNCHANGED <<jobState, jobId, links, schedVars, outs, pending, res, found, stopped>>

SchedulerAccepts ==
    /\ \E j \in Jobs : job[j] = "free" /\ job' = [job EXCEPT ![j] = "active"] /\ pending' = j
    /\ InTask("submit", "request") /\ TaskStep("accepted")
    /\ UNCHANGED <<jobState, jobId, links, lost, outs, res, found, stopped>>

(* Mutation: the job id of the node is not looked at.                      *)
SubmitAgain == SchedulerAccepts

SubmitJob == jobId = NoJob /\ SchedulerAccepts

(* The scheduler returns an ExitCode.                                      *)
SubmitRejected ==
    /\ InTask("submit", "request") /\ jobId = NoJob /\ "exit_code" \in Events
    /\ TaskStep("stored") /\ res' = "exit_code"
    /\ UNCHANGED <<jobState, jobId, links, schedVars, outs, pending, found, stopped>>

SetJobId ==
    /\ InTask("submit", "accepted") /\ TaskStep("stored")
    /\ jobId' = pending /\ pending' = NoJob
    /\ UNCHANGED <<jobState, links, schedVars, outs, res, found, stopped>>

MarkSubmitted ==
    /\ InTask("submit", "stored") /\ TaskStep("resolved")
    /\ jobState' = "WITHSCHEDULER"
    /\ UNCHANGED <<jobId, links, schedVars, outs, pending, res, found, stopped>>

JobRuns == jobId # NoJob /\ job[jobId] = "active"

(* Mutation: the job that is not found counts as running.                  *)
UpdateJobNever ==
    /\ InTask("update", "request") /\ TaskStep("resolved")
    /\ res' = "none"
    /\ UNCHANGED <<jobState, jobId, links, schedVars, outs, pending, found, stopped>>

UpdateJob ==
    /\ InTask("update", "request") /\ TaskStep("resolved")
    /\ jobState' = IF JobRuns THEN jobState ELSE "STASHING"
    /\ res' = IF JobRuns THEN "none" ELSE "job_done"
    /\ UNCHANGED <<jobId, links, schedVars, outs, pending, found, stopped>>

(* `monitors.process`, and what `_monitor_job` keeps of the result.        *)
MonitorJob ==
    /\ InTask("monitor", "request")
    /\ \E m \in MonitorResults \cup {NoMonitor} :
          /\ found' = m
          /\ stopped' = (stopped \/ (m.action = "KILL" /\ m.override))
          /\ st' = IF m = NoMonitor THEN st ELSE [st EXCEPT !.mon = m]
    /\ phase' = "resolved"
    /\ UNCHANGED <<nodeVars, schedVars, alive, outs, paused, task, attempt, pending, res,
                   action, input, crashes, detached>>

StashStart ==
    /\ InTask("stash", "request") /\ TaskStep("work")
    /\ UNCHANGED <<jobState, jobId, links, schedVars, outs, pending, res, found, stopped>>

(* `stash_calculation` links the stash itself.                             *)
StashLink ==
    /\ InTask("stash", "work") /\ "remote_stash" \notin links /\ TaskStep("stashed")
    /\ links' = links \cup {"remote_stash"}
    /\ UNCHANGED <<jobState, jobId, schedVars, outs, pending, res, found, stopped>>

(* Nothing to stash, or the compression failed: it returns without a link. *)
StashNothing ==
    /\ InTask("stash", "work") /\ "stash_nothing" \in Events /\ TaskStep("stashed")
    /\ UNCHANGED <<jobState, jobId, links, schedVars, outs, pending, res, found, stopped>>

MarkStashed ==
    /\ InTask("stash", "stashed") /\ TaskStep("resolved")
    /\ jobState' = "RETRIEVING"
    /\ UNCHANGED <<jobId, links, schedVars, outs, pending, res, found, stopped>>

RetrieveStart ==
    /\ InTask("retrieve", "request") /\ TaskStep("work")
    /\ UNCHANGED <<jobState, jobId, links, schedVars, outs, pending, res, found, stopped>>

RetrieveDone ==
    /\ InTask("retrieve", "work") /\ TaskStep("resolved")
    /\ IF "retrieved" \in links THEN UNCHANGED <<outs, res>>
       ELSE outs' = outs \cup {"retrieved"} /\ res' = "temp"
    /\ jobState' = "PARSING"
    /\ UNCHANGED <<jobId, links, schedVars, pending, found, stopped>>

(* Mutation: a failing `kill_job` is taken for a success.                  *)
KillJobNot ==
    /\ \E t \in {"kill", "kill_user"} : InTask(t, "request")
    /\ TaskStep("resolved")
    /\ UNCHANGED <<jobState, jobId, links, schedVars, outs, pending, res, found, stopped>>

(* `kill_calculation`: without a job id there is nothing to kill.          *)
KillJob ==
    /\ \E t \in {"kill", "kill_user"} : InTask(t, "request")
    /\ TaskStep("resolved")
    /\ job' = IF JobRuns THEN [job EXCEPT ![jobId] = "done"] ELSE job
    /\ UNCHANGED <<jobState, jobId, links, lost, outs, pending, res, found, stopped>>

-----------------------------------------------------------------------------
(* Failing attempts: exponential_backoff_retry, and the exception it       *)
(* raises in the end.  A failing kill task in the handler of the user's    *)
(* kill is not caught by `execute`.                                        *)

(* Mutation: one attempt too many.                                         *)
AttemptedOnceMore ==
    /\ phase' = IF attempt <= MaxAttempts THEN "sleep" ELSE "pausing"
    /\ UNCHANGED <<nodeVars, job, procVars, task, attempt, res, found, action, rest>>

Attempted ==
    /\ phase' = IF attempt < MaxAttempts THEN "sleep" ELSE "pausing"
    /\ UNCHANGED <<nodeVars, job, procVars, task, attempt, res, found, action, rest>>

(* Mutation: the process pauses even if it is being killed.                *)
FailsPausing == Attempted /\ UNCHANGED <<lost, pending>>

Fails ==
    IF attempt < MaxAttempts \/ (task # "kill_user" /\ action # "kill")
    THEN Attempted /\ UNCHANGED <<lost, pending>>
    ELSE EnterTerminal(IF task = "kill_user" THEN "EXCEPTED" ELSE "KILLED", "none")

TaskFails ==
    /\ alive /\ phase \in {"request", "work"} /\ "transport" \in Events
    /\ Fails

(* The scheduler accepted the job and the reply is lost.                   *)
LoseReply ==
    /\ InTask("submit", "accepted") /\ "reply" \in Events
    /\ Attempted
    /\ lost' = lost \cup {pending} /\ pending' = NoJob

(* The node has a `remote_stash` link already: adding another raises.      *)
StashAgain ==
    /\ InTask("stash", "work") /\ "remote_stash" \in links
    /\ Fails

Wake ==
    /\ alive /\ phase = "sleep"
    /\ phase' = "request" /\ attempt' = attempt + 1
    /\ UNCHANGED <<nodeVars, schedVars, procVars, task, pending, res, found, action, rest>>

-----------------------------------------------------------------------------
(* Pause, play and kill.  An interrupt reaches the future of the task; the *)
(* coroutine behind it goes on.  One that waits for a transport or sleeps  *)
(* ends at its next `with_interrupt`; one in the middle of its work ends   *)
(* when the work is done, and then sets the job state.                     *)

Interruptable ==
    /\ alive /\ task # "kill_user"
    /\ phase \in {"request", "sleep"} \cup (IF AsyncTransport THEN {"work"} ELSE {})

Detach == detached' = IF phase = "work" THEN detached \cup {task} ELSE detached

Kill ==
    /\ "kill" \in Events /\ Interruptable /\ action # "kill"
    /\ action' = "kill" /\ Detach /\ found' = NoMonitor
    /\ Launch("kill_user")
    /\ UNCHANGED <<nodeVars, schedVars, procVars, pending, input, stopped, crashes>>

(* A process that is not stepping, because it is paused or because it was  *)
(* only just loaded, is killed on the spot.                                *)
KillIdle ==
    /\ "kill" \in Events /\ alive /\ phase = "idle"
    /\ EnterTerminal("KILLED", "none")

(* The task has resolved and `execute` has not resumed: the interrupt of   *)
(* the future fails, and the interrupt action stays.                       *)
Late(a) ==
    /\ "late" \in Events /\ alive /\ phase = "resolved"
    /\ action' = a
    /\ UNCHANGED <<nodeVars, schedVars, procVars, phase, task, attempt, pending, res, found, rest>>

KillLate == "kill" \in Events /\ action # "kill" /\ Late("kill")

Pause ==
    /\ "pause" \in Events /\ Interruptable /\ action = "none"
    /\ phase' = "pausing" /\ Detach
    /\ UNCHANGED <<nodeVars, schedVars, procVars, task, attempt, pending, res, found, action,
                   input, stopped, crashes>>

PauseIdle ==
    /\ "pause" \in Events /\ alive /\ phase = "idle" /\ ~paused
    /\ phase' = "pausing"
    /\ UNCHANGED <<nodeVars, schedVars, procVars, task, attempt, pending, res, found, action, rest>>

PauseLate == "pause" \in Events /\ action = "none" /\ Late("pause")

Play ==
    /\ alive /\ phase = "idle" /\ paused
    /\ paused' = FALSE
    /\ UNCHANGED <<nodeVars, schedVars, alive, st, outs, taskVars, rest>>

(* Mutation: the interrupted coroutine writes to a sealed node.            *)
DetachedUnchecked(t) ==
    /\ alive /\ t \in detached
    /\ detached' = detached \ {t}
    /\ jobState' = [upload |-> "SUBMITTING", stash |-> "RETRIEVING", retrieve |-> "PARSING"][t]
    /\ UNCHANGED <<jobId, links, procState, exitStatus, sealed, ckpt, schedVars, procVars,
                   taskVars, input, stopped, crashes>>

(* The end of an interrupted coroutine.  A sealed node refuses the write.  *)
DetachedDone(t) ==
    LET state == [upload |-> "SUBMITTING", stash |-> "RETRIEVING", retrieve |-> "PARSING"]
        again == t = "stash" /\ "remote_stash" \in links
    IN  /\ alive /\ t \in detached
        /\ detached' = detached \ {t}
        /\ IF sealed \/ again THEN UNCHANGED <<outs, jobState, links>>
           ELSE /\ outs' = outs \cup (IF t = "upload" THEN {"remote_folder"}
                                      ELSE IF t = "retrieve" THEN {"retrieved"} ELSE {})
                /\ links' = IF t = "stash" THEN links \cup {"remote_stash"} ELSE links
                /\ jobState' = state[t]
        /\ UNCHANGED <<jobId, procState, exitStatus, sealed, ckpt, schedVars, alive, st, paused,
                       taskVars, input, stopped, crashes>>

DetachedFails(t) ==
    /\ alive /\ t \in detached /\ "transport" \in Events
    /\ detached' = detached \ {t}
    /\ UNCHANGED <<nodeVars, schedVars, procVars, taskVars, input, stopped, crashes>>

-----------------------------------------------------------------------------
(* The worker crashes and another one continues from the checkpoint.       *)

Crash ==
    /\ alive /\ crashes < MaxCrashes /\ phase # "closed"
    /\ crashes' = crashes + 1 /\ alive' = FALSE
    /\ lost' = lost \cup ({pending} \ {NoJob}) /\ pending' = NoJob
    /\ phase' = "idle" /\ task' = "upload" /\ attempt' = 1 /\ res' = "none"
    /\ found' = NoMonitor /\ action' = "none" /\ detached' = {}
    /\ UNCHANGED <<nodeVars, job, st, outs, paused, input, stopped>>

Restart ==
    /\ ~alive /\ procState = "ACTIVE"
    /\ alive' = TRUE /\ st' = ckpt.st /\ outs' = ckpt.outs /\ paused' = ckpt.paused
    /\ UNCHANGED <<nodeVars, schedVars, taskVars, rest>>

JobFinishes(j) ==
    /\ job[j] = "active"
    /\ job' = [job EXCEPT ![j] = "done"]
    /\ UNCHANGED <<nodeVars, lost, procVars, taskVars, rest>>

-----------------------------------------------------------------------------
Running == RunWait \/ RunCached \/ PerformImport \/ Parse \/ TerminateWith
Waiting ==
    \/ ExecuteUpload \/ ExecuteSubmit \/ ExecuteUpdate \/ ExecuteStash \/ ExecuteRetrieve
    \/ ResumeUpload \/ ResumeSubmit \/ ResumeUpdate \/ ResumeMonitor \/ ResumeKill
    \/ ResumeKillUser \/ ResumeStash \/ ResumeRetrieve
Transport ==
    \/ UploadStart \/ UploadDone \/ SubmitKnown \/ SubmitJob \/ SetJobId \/ MarkSubmitted
    \/ UpdateJob \/ MonitorJob \/ StashStart \/ StashLink \/ MarkStashed
    \/ RetrieveStart \/ RetrieveDone \/ KillJob \/ Wake \/ StashAgain
Transitions == SaveCheckpoint \/ OnPaused \/ OnTerminated

(* What the event loop does by itself as long as the worker lives.         *)
Engine == Running \/ Waiting \/ Transport \/ Transitions

Failures == PresubmitRaises \/ SubmitRejected \/ StashNothing \/ TaskFails \/ LoseReply
Users == Kill \/ KillIdle \/ KillLate \/ Pause \/ PauseIdle \/ PauseLate \/ Play
Detached == \E t \in detached : DetachedDone(t) \/ DetachedFails(t)
Environment == Crash \/ Restart \/ \E j \in Jobs : JobFinishes(j)

Next == Engine \/ Failures \/ Users \/ Detached \/ Environment

Spec == Init /\ [][Next]_vars

(* The event loop runs what is ready, the daemon restarts its workers, and *)
(* every job of the scheduler ends.  Nobody has to play a paused process.  *)
Fairness ==
    /\ WF_vars(Engine) /\ WF_vars(Restart)
    /\ \A j \in Jobs : WF_vars(JobFinishes(j))
FairSpec == Spec /\ Fairness

(* A user plays the process whenever it is paused.                         *)
PlayedSpec == FairSpec /\ WF_vars(Play)
-----------------------------------------------------------------------------
(* Safety.                                                                 *)

(* The scheduler never gets a second job for the same calculation: a job   *)
(* that was ever accepted is the one whose id the node has, or the one     *)
(* `submit_calculation` is about to record, or one whose reply was lost,   *)
(* together with the worker or with the connection, in that window.        *)
SubmittedOnce ==
    \A j \in Jobs : job[j] # "free" => j \in {jobId, pending} \cup lost

(* The working directory is stashed and retrieved only when the job of the *)
(* node no longer runs: the update task, or a kill, said so before.        *)
RetrievedAfterJob ==
    alive /\ task \in {"stash", "retrieve"} /\ phase \in {"request", "work"} => ~JobRuns

(* A process that finished leaves no job of its own running.               *)
FinishedAfterJob == procState = "FINISHED" => ~JobRuns

(* `upload_calculation` never finds the `remote_folder` linked already, in *)
(* which case it would return the calc_info for a folder: whatever crash   *)
(* or interrupted coroutine came before, the job state was checked first.  *)
UploadIsFresh ==
    alive /\ phase = "work" /\ task = "upload" => "remote_folder" \notin links

(* Nor does `retrieve_calculation` find `retrieved`, with a transport that *)
(* does not suspend: the temporary files always come with the folder.      *)
RetrieveIsFresh ==
    alive /\ phase = "work" /\ task = "retrieve" => "retrieved" \notin links

(* The task that is skipped for the sake of the job state was done, and    *)
(* what it returned is still known: the folder is linked or in memory.     *)
SkipKeepsOutput ==
    alive /\ phase = "resolved" =>
        /\ task = "upload" => "remote_folder" \in links \cup outs
        /\ task = "retrieve" => "retrieved" \in links \cup outs

(* A process whose monitor had the job killed, with its exit code to       *)
(* override that of the parser, does not finish with that of the parser.   *)
(* It fails: a crash, or a pause in the kill task, loses the local variable *)
(* monitor_result, and when the job is done by then no monitor is asked.   *)
StoppedByMonitor ==
    procState = "FINISHED" /\ stopped => exitStatus \notin {"ok", "parser"}

(* A process that goes from one command to the next follows the sequence   *)
(* in the docstring of `execute`; a restart falls back one command at most. *)
Successors ==
    [RUN |-> {"UPLOAD"}, UPLOAD |-> {"SUBMIT", "STASH"}, SUBMIT |-> {"UPDATE", "TERMINATE"},
     UPDATE |-> {"STASH", "TERMINATE"}, STASH |-> {"RETRIEVE"},
     RETRIEVE |-> {"PARSE", "TERMINATE"}, PARSE |-> {}, TERMINATE |-> {}]

CommandOrder ==
    [][st'.cmd # st.cmd =>
          IF alive THEN st'.cmd \in Successors[st.cmd]
          ELSE st.cmd \in Successors[st'.cmd]]_vars

(* A node in a terminal state keeps it, and a sealed node keeps all it has *)
(* even though interrupted coroutines of its process still run.            *)
TerminalIsFinal ==
    [][/\ procState # "ACTIVE" => UNCHANGED <<procState, exitStatus, jobId>>
       /\ sealed => UNCHANGED nodeVars]_vars

-----------------------------------------------------------------------------
(* Liveness.                                                               *)

(* Every calculation job terminates, unless it is paused, by the user or   *)
(* after its failed transport tasks, for ever or over and over again.      *)
Terminates == []<>paused \/ <>(procState # "ACTIVE")

(* A kill that was taken up ends with the process in a terminal state,     *)
(* whatever task it interrupted, unless the worker crashes first.          *)
KillTerminates == (action = "kill") ~> (procState # "ACTIVE" \/ ~alive)

(* A stash that was made does not keep the process from going on: as long  *)
(* as it is played whenever it pauses, it gets past STASH.                 *)
StashCompletes == (alive /\ st.cmd = "STASH") ~> (procState # "ACTIVE" \/ st.cmd # "STASH")
=============================================================================
