--------------------------- MODULE CalcJob_proofs ---------------------------
(***************************************************************************)
(* Proofs about CalcJob, for any set of job ids and monitor results and    *)
(* any bounds on attempts and crashes.                                     *)
(***************************************************************************)
EXTENDS CalcJob, TLAPS

(* What SubmittedOnce rests on: a job is pending exactly in the window in  *)
(* which `submit_calculation` has the reply and the node has no job id.    *)
Window ==
    IF phase = "accepted" THEN pending \in Jobs /\ jobId = NoJob ELSE pending = NoJob

(* Only a task that works can be detached, and only one that has attempts  *)
(* left sleeps.                                                            *)
Tasking ==
    /\ phase = "work" => task \in {"upload", "stash", "retrieve"}
    /\ phase = "sleep" => attempt < MaxAttempts

IInv == TypeOK /\ Window /\ Tasking /\ SubmittedOnce

(* What most steps leave alone, and where they go instead of the window.   *)
Aside ==
    /\ UNCHANGED <<jobId, pending, job, lost>>
    /\ phase # "accepted" /\ phase' # "accepted"

LEMMA AsideKeeps == Window /\ SubmittedOnce /\ Aside => Window' /\ SubmittedOnce'
  BY DEF Window, SubmittedOnce, Aside

LEMMA StartState == \A c \in Commands : Start(c) \in State
  BY DEF Start, State, ExitCodes

(* The two kinds of transition.                                            *)
LEMMA TransitionKeeps ==
  ASSUME NEW s \in State, IInv, phase # "accepted", TransitionTo(s)
  PROVE  IInv'
<1>1. TypeOK'
  BY CalcJobAssumption DEF IInv, TypeOK, TransitionTo, rest, schedVars, Phases
<1>2. Tasking'
  BY DEF Tasking, TransitionTo
<1>3. Aside
  BY DEF Aside, TransitionTo, schedVars
<1>. QED  BY <1>1, <1>2, <1>3, AsideKeeps DEF IInv

LEMMA TerminalKeeps ==
  ASSUME NEW ps \in Terminal, NEW e \in ExitCodes, IInv, phase # "accepted", EnterTerminal(ps, e)
  PROVE  IInv'
<1>1. TypeOK'
  BY CalcJobAssumption DEF IInv, TypeOK, EnterTerminal, rest, schedVars, procVars, Phases, Terminal
<1>2. Tasking'
  BY DEF Tasking, EnterTerminal
<1>3. Aside
  BY DEF Aside, EnterTerminal, schedVars
<1>. QED  BY <1>1, <1>2, <1>3, AsideKeeps DEF IInv

LEMMA LeaveKeeps ==
  ASSUME NEW s \in State, IInv, phase # "accepted", Leave(s)
  PROVE  IInv'
<1>1. CASE action = "kill"
  BY <1>1, TerminalKeeps DEF Leave, Terminal, ExitCodes
<1>2. CASE action # "kill"
  BY <1>2, TransitionKeeps DEF Leave
<1>. QED  BY <1>1, <1>2

LEMMA InitIInv == Init => IInv
<1>. SUFFICES ASSUME Init PROVE IInv
  OBVIOUS
<1>1. Start("RUN") \in State
  BY StartState DEF Commands
<1>2. ckpt \in Checkpoint
  BY <1>1 DEF Init, Checkpoint
<1>3. links \subseteq Outputs /\ exitStatus \in ExitCodes
  BY DEF Init, Outputs, ExitCodes
<1>4. crashes \in 0..MaxCrashes /\ attempt \in 1..MaxAttempts
  BY CalcJobAssumption DEF Init
<1>5. TypeOK
  BY <1>1, <1>2, <1>3, <1>4 DEF Init, TypeOK, JobStates, Phases, Tasks
<1>6. Window /\ Tasking /\ SubmittedOnce
  BY DEF Init, Window, Tasking, SubmittedOnce
<1>. QED  BY <1>5, <1>6 DEF IInv
LEMMA RunningKeeps == IInv /\ Running => IInv'
<1>. SUFFICES ASSUME IInv, Running PROVE IInv'
  OBVIOUS
<1>1. CASE RunWait
  <2>1. Start("UPLOAD") \in State
    BY StartState DEF Commands, Waits
  <2>. QED  BY <1>1, <2>1, TransitionKeeps DEF RunWait, Steps
<1>2. CASE RunCached
  BY <1>2, TerminalKeeps DEF RunCached, Steps, IInv, TypeOK, Terminal
<1>3. CASE PerformImport
  <2>1. TypeOK'
    BY <1>3 DEF PerformImport, IInv, TypeOK, schedVars, rest, JobStates, Phases, Outputs
  <2>2. Tasking'
    BY <1>3 DEF PerformImport, Tasking
  <2>3. Aside
    BY <1>3 DEF PerformImport, Aside, Steps, schedVars
  <2>. QED  BY <2>1, <2>2, <2>3, AsideKeeps DEF IInv
<1>4. CASE Parse
  <2>1. st.exit \in ExitCodes
    BY DEF IInv, TypeOK, State
  <2>2. phase # "accepted"
    BY <1>4 DEF Parse, Steps
  <2>3. PICK ps \in Terminal, e \in ExitCodes : EnterTerminal(ps, e)
    BY <1>4, <2>1 DEF Parse, Terminal, ExitCodes
  <2>. QED  BY <2>2, <2>3, TerminalKeeps
<1>5. CASE TerminateWith
  <2>1. st.exit \in ExitCodes
    BY DEF IInv, TypeOK, State
  <2>. QED  BY <1>5, <2>1, TerminalKeeps DEF TerminateWith, Steps, Terminal
<1>. QED  BY <1>1, <1>2, <1>3, <1>4, <1>5 DEF Running

(* Launching a task leaves the node and the scheduler alone.               *)
LEMMA LaunchKeeps ==
  ASSUME NEW t \in Tasks, IInv, phase # "accepted", Launch(t),
         found' \in MonitorResults \cup {NoMonitor}, action' \in {"none", "pause", "kill"},
         detached' \subseteq {"upload", "stash", "retrieve"},
         UNCHANGED <<nodeVars, schedVars, procVars, pending, input, stopped, crashes>>
  PROVE  IInv'
<1>1. phase' \in {"resolved", "request"} /\ task' = t /\ attempt' = 1
  BY DEF Launch
<1>2. res' \in {"none", "skip_submit", "exit_code", "job_done", "temp"}
  BY DEF Launch, IInv, TypeOK
<1>3. attempt' \in 1..MaxAttempts
  BY <1>1, CalcJobAssumption
<1>4. TypeOK'
  BY <1>1, <1>2, <1>3 DEF IInv, TypeOK, nodeVars, schedVars, procVars, Phases
<1>5. Tasking'
  BY <1>1 DEF Tasking
<1>6. Aside
  BY <1>1 DEF Aside, nodeVars, schedVars
<1>. QED  BY <1>4, <1>5, <1>6, AsideKeeps DEF IInv

LEMMA ExecutesKeeps ==
  ASSUME NEW c, NEW t \in Tasks, IInv, Executes(c, t)
  PROVE  IInv'
  BY LaunchKeeps DEF Executes, Steps, rest, IInv, TypeOK

(* The states `execute` returns.                                           *)
LEMMA NextStates ==
  ASSUME IInv
  PROVE  /\ \A c \in Commands : [st EXCEPT !.cmd = c] \in State
         /\ \A c \in Commands, e \in ExitCodes : [Start(c) EXCEPT !.exit = e] \in State
         /\ \A c \in Commands, m \in MonitorResults \cup {NoMonitor} :
               [Start(c) EXCEPT !.mon = m] \in State
         /\ \A c \in Commands, b \in BOOLEAN : [Start(c) EXCEPT !.temp = b] \in State
         /\ \A c \in Commands, e \in ExitCodes, b \in BOOLEAN :
               [[Start(c) EXCEPT !.temp = b] EXCEPT !.exit = e] \in State
<1>1. st \in State
  BY DEF IInv, TypeOK
<1>2. \A s \in State, c \in Commands : [s EXCEPT !.cmd = c] \in State
  BY DEF State
<1>3. \A s \in State, e \in ExitCodes : [s EXCEPT !.exit = e] \in State
  BY DEF State
<1>4. \A s \in State, m \in MonitorResults \cup {NoMonitor} : [s EXCEPT !.mon = m] \in State
  BY DEF State
<1>5. \A s \in State, b \in BOOLEAN : [s EXCEPT !.temp = b] \in State
  BY DEF State
<1>. QED  BY <1>1, <1>2, <1>3, <1>4, <1>5, StartState

LEMMA EndRoundKeeps ==
  ASSUME IInv, phase # "accepted", NEW m \in MonitorResults \cup {NoMonitor},
         NEW done \in BOOLEAN, EndRound(m, done)
  PROVE  IInv'
<1>. DEFINE stop == [Start("TERMINATE") EXCEPT !.exit = "monitor"]
            stash == [Start("STASH") EXCEPT !.mon = m]
<1>1. stop \in State /\ stash \in State
  BY NextStates DEF Commands, Waits, ExitCodes
<1>2. CASE Leave(stop)
  BY <1>1, <1>2, LeaveKeeps
<1>3. CASE Leave(stash)
  BY <1>1, <1>3, LeaveKeeps
<1>4. CASE /\ Launch("update") /\ found' = NoMonitor
           /\ UNCHANGED <<nodeVars, schedVars, procVars, pending, action, rest>>
  BY <1>4, LaunchKeeps DEF Tasks, rest, IInv, TypeOK
<1>. QED  BY <1>2, <1>3, <1>4 DEF EndRound
LEMMA WaitingKeeps == IInv /\ Waiting => IInv'
<1>. SUFFICES ASSUME IInv, Waiting PROVE IInv'
  OBVIOUS
<1>0. found \in MonitorResults \cup {NoMonitor} /\ NoMonitor \in MonitorResults \cup {NoMonitor}
  BY DEF IInv, TypeOK
<1>1. CASE ExecuteUpload
  BY <1>1, ExecutesKeeps DEF ExecuteUpload, Tasks
<1>2. CASE ExecuteSubmit
  BY <1>2, ExecutesKeeps, TerminalKeeps DEF ExecuteSubmit, Tasks, Steps, Terminal, ExitCodes
<1>3. CASE ExecuteUpdate
  BY <1>3, ExecutesKeeps DEF ExecuteUpdate, Tasks
<1>4. CASE ExecuteStash
  <2>1. [st EXCEPT !.cmd = "RETRIEVE"] \in State
    BY NextStates DEF Commands, Waits
  <2>. QED  BY <1>4, <2>1, ExecutesKeeps, TransitionKeeps DEF ExecuteStash, Tasks, Steps
<1>5. CASE ExecuteRetrieve
  BY <1>5, ExecutesKeeps DEF ExecuteRetrieve, Tasks
<1>6. CASE ResumeUpload
  <2>1. [st EXCEPT !.cmd = "STASH"] \in State /\ Start("SUBMIT") \in State
    BY NextStates, StartState DEF Commands, Waits
  <2>. QED  BY <1>6, <2>1, LeaveKeeps DEF ResumeUpload, Resolved
<1>7. CASE ResumeSubmit
  <2>1. /\ [Start("TERMINATE") EXCEPT !.exit = "submit_error"] \in State
        /\ Start("UPDATE") \in State
    BY NextStates, StartState DEF Commands, Waits, ExitCodes
  <2>. QED  BY <1>7, <2>1, LeaveKeeps DEF ResumeSubmit, Resolved
<1>8. CASE ResumeUpdate
  <2>1. CASE /\ Launch("monitor")
             /\ UNCHANGED <<nodeVars, schedVars, procVars, pending, found, action, rest>>
    BY <1>8, <2>1, LaunchKeeps DEF ResumeUpdate, Resolved, Tasks, rest, IInv, TypeOK
  <2>2. CASE EndRound(NoMonitor, res = "job_done")
    BY <1>0, <1>8, <2>2, EndRoundKeeps DEF ResumeUpdate, Resolved
  <2>. QED  BY <1>8, <2>1, <2>2 DEF ResumeUpdate
<1>9. CASE ResumeMonitor
  <2>1. CASE /\ Launch("kill")
             /\ UNCHANGED <<nodeVars, schedVars, procVars, pending, found, action, rest>>
    BY <1>9, <2>1, LaunchKeeps DEF ResumeMonitor, Resolved, Tasks, rest, IInv, TypeOK
  <2>2. CASE EndRound(found, res = "job_done")
    BY <1>0, <1>9, <2>2, EndRoundKeeps DEF ResumeMonitor, Resolved
  <2>. QED  BY <1>9, <2>1, <2>2 DEF ResumeMonitor
<1>10. CASE ResumeKill
  BY <1>0, <1>10, EndRoundKeeps DEF ResumeKill, Resolved
<1>11. CASE ResumeKillUser \/ ResumeStash
  <2>1. [st EXCEPT !.cmd = "RETRIEVE"] \in State
    BY NextStates DEF Commands, Waits
  <2>. QED  BY <1>11, <2>1, LeaveKeeps DEF ResumeKillUser, ResumeStash, Resolved
<1>12. CASE ResumeRetrieve
  <2>1. PICK s \in State : Leave(s)
    <3>. DEFINE parse == [Start("PARSE") EXCEPT !.temp = (res = "temp")]
    <3>1. /\ parse \in State /\ [parse EXCEPT !.exit = "monitor"] \in State
          /\ [Start("TERMINATE") EXCEPT !.exit = "monitor"] \in State
      BY NextStates DEF Commands, ExitCodes
    <3>. QED  BY <1>12, <3>1 DEF ResumeRetrieve
  <2>. QED  BY <1>12, <2>1, LeaveKeeps DEF ResumeRetrieve, Resolved
<1>. QED  BY <1>1, <1>2, <1>3, <1>4, <1>5, <1>6, <1>7, <1>8, <1>9, <1>10, <1>11, <1>12 DEF Waiting

(* A step of a task that stays out of the window of the submission.        *)
LEMMA TaskStepKeeps ==
  ASSUME IInv, NEW ph \in {"work", "stored", "stashed", "resolved"}, TaskStep(ph),
         phase # "accepted", ph = "work" => task \in {"upload", "stash", "retrieve"},
         UNCHANGED <<jobId, pending, job, lost>>,
         jobState' \in JobStates, links' \subseteq Outputs, outs' \subseteq Outputs,
         res' \in {"none", "skip_submit", "exit_code", "job_done", "temp"},
         UNCHANGED <<found, stopped>>
  PROVE  IInv'
<1>1. TypeOK'
  BY DEF IInv, TypeOK, TaskStep, Phases
<1>2. Tasking'
  BY DEF Tasking, TaskStep
<1>3. Aside
  BY DEF Aside, TaskStep
<1>. QED  BY <1>1, <1>2, <1>3, AsideKeeps DEF IInv

(* The failing of an attempt.                                              *)
LEMMA AttemptedKeeps ==
  ASSUME IInv, Attempted
  PROVE  TypeOK' <=> (lost' \subseteq Jobs /\ pending' \in Jobs \cup {NoJob})
  BY DEF IInv, TypeOK, Attempted, nodeVars, procVars, rest, Phases

LEMMA FailsKeeps ==
  ASSUME IInv, phase # "accepted", Fails
  PROVE  IInv'
<1>1. CASE Attempted /\ UNCHANGED <<lost, pending>>
  <2>1. TypeOK'
    BY <1>1, AttemptedKeeps DEF IInv, TypeOK
  <2>2. Tasking'
    BY <1>1, CalcJobAssumption DEF Tasking, Attempted, IInv, TypeOK
  <2>3. Aside
    BY <1>1 DEF Aside, Attempted, nodeVars
  <2>. QED  BY <2>1, <2>2, <2>3, AsideKeeps DEF IInv
<1>2. CASE \E ps \in Terminal : EnterTerminal(ps, "none")
  BY <1>2, TerminalKeeps DEF ExitCodes
<1>. QED  BY <1>1, <1>2 DEF Fails, Terminal
LEMMA TransportKeeps == IInv /\ Transport => IInv'
<1>. SUFFICES ASSUME IInv, Transport PROVE IInv'
  OBVIOUS
<1>1. CASE UploadStart
  BY <1>1, TaskStepKeeps DEF UploadStart, InTask, schedVars, IInv, TypeOK, JobStates, Outputs
<1>2. CASE UploadDone
  BY <1>2, TaskStepKeeps DEF UploadDone, InTask, schedVars, IInv, TypeOK, JobStates, Outputs
<1>3. CASE SubmitKnown
  BY <1>3, TaskStepKeeps DEF SubmitKnown, InTask, schedVars, IInv, TypeOK, JobStates, Outputs
<1>4. CASE MarkSubmitted
  BY <1>4, TaskStepKeeps DEF MarkSubmitted, InTask, schedVars, IInv, TypeOK, JobStates, Outputs
<1>5. CASE UpdateJob
  BY <1>5, TaskStepKeeps DEF UpdateJob, InTask, schedVars, IInv, TypeOK, JobStates, Outputs
<1>6. CASE StashStart
  BY <1>6, TaskStepKeeps DEF StashStart, InTask, schedVars, IInv, TypeOK, JobStates, Outputs
<1>7. CASE StashLink
  BY <1>7, TaskStepKeeps DEF StashLink, InTask, schedVars, IInv, TypeOK, JobStates, Outputs
<1>8. CASE MarkStashed
  BY <1>8, TaskStepKeeps DEF MarkStashed, InTask, schedVars, IInv, TypeOK, JobStates, Outputs
<1>9. CASE RetrieveStart
  BY <1>9, TaskStepKeeps DEF RetrieveStart, InTask, schedVars, IInv, TypeOK, JobStates, Outputs
<1>10. CASE RetrieveDone
  BY <1>10, TaskStepKeeps DEF RetrieveDone, InTask, schedVars, IInv, TypeOK, JobStates, Outputs
<1>11. CASE SubmitJob
  <2>1. PICK j \in Jobs : job[j] = "free" /\ job' = [job EXCEPT ![j] = "active"] /\ pending' = j
    BY <1>11 DEF SubmitJob, SchedulerAccepts
  <2>2. /\ phase = "request" /\ phase' = "accepted" /\ jobId = NoJob
        /\ UNCHANGED <<jobState, jobId, links, lost, outs, res, found, stopped, procState, exitStatus,
                       sealed, ckpt, alive, st, paused, task, attempt, action, input, crashes, detached>>
    BY <1>11 DEF SubmitJob, SchedulerAccepts, InTask, TaskStep
  <2>3. TypeOK'
    BY <2>1, <2>2 DEF IInv, TypeOK, Phases
  <2>4. Window' /\ Tasking'
    BY <2>1, <2>2 DEF Window, Tasking
  <2>5. SubmittedOnce'
    BY <2>1, <2>2, CalcJobAssumption DEF IInv, TypeOK, Window, SubmittedOnce
  <2>. QED  BY <2>3, <2>4, <2>5 DEF IInv
<1>12. CASE SetJobId
  <2>1. /\ phase = "accepted" /\ phase' = "stored" /\ jobId' = pending /\ pending' = NoJob
        /\ UNCHANGED <<jobState, links, job, lost, outs, res, found, stopped, procState, exitStatus,
                       sealed, ckpt, alive, st, paused, task, attempt, action, input, crashes, detached>>
    BY <1>12 DEF SetJobId, InTask, TaskStep, schedVars
  <2>2. TypeOK'
    BY <2>1 DEF IInv, TypeOK, Phases
  <2>3. Window' /\ Tasking'
    BY <2>1 DEF Window, Tasking
  <2>4. SubmittedOnce'
    BY <2>1, CalcJobAssumption DEF IInv, Window, SubmittedOnce
  <2>. QED  BY <2>2, <2>3, <2>4 DEF IInv
<1>13. CASE MonitorJob
  <2>1. PICK m \in MonitorResults \cup {NoMonitor} :
          /\ found' = m /\ stopped' = (stopped \/ (m.action = "KILL" /\ m.override))
          /\ st' = IF m = NoMonitor THEN st ELSE [st EXCEPT !.mon = m]
    BY <1>13 DEF MonitorJob
  <2>2. st' \in State
    BY <2>1 DEF IInv, TypeOK, State
  <2>3. stopped' \in BOOLEAN /\ found' \in MonitorResults \cup {NoMonitor}
    BY <2>1
  <2>4. /\ phase = "request" /\ phase' = "resolved"
        /\ UNCHANGED <<nodeVars, schedVars, alive, outs, paused, task, attempt, pending, res,
                       action, input, crashes, detached>>
    BY <1>13 DEF MonitorJob, InTask
  <2>5. TypeOK'
    BY <2>2, <2>3, <2>4 DEF IInv, TypeOK, nodeVars, schedVars, Phases
  <2>6. Tasking' /\ Aside
    BY <2>4 DEF Tasking, Aside, nodeVars, schedVars
  <2>. QED  BY <2>5, <2>6, AsideKeeps DEF IInv
<1>14. CASE KillJob
  <2>1. /\ phase = "request" /\ phase' = "resolved"
        /\ job' = IF JobRuns THEN [job EXCEPT ![jobId] = "done"] ELSE job
        /\ UNCHANGED <<jobState, jobId, links, lost, outs, pending, res, found, stopped, procState,
                       exitStatus, sealed, ckpt, alive, st, paused, task, attempt, action, input,
                       crashes, detached>>
    BY <1>14 DEF KillJob, InTask, TaskStep
  <2>0. job' \in [Jobs -> {"free", "active", "done"}]
    BY <2>1 DEF IInv, TypeOK, JobRuns
  <2>2. TypeOK'
    BY <2>0, <2>1 DEF IInv, TypeOK, Phases
  <2>3. Window' /\ Tasking'
    BY <2>1 DEF IInv, Window, Tasking
  <2>4. SubmittedOnce'
    BY <2>1 DEF IInv, TypeOK, SubmittedOnce, JobRuns
  <2>. QED  BY <2>2, <2>3, <2>4 DEF IInv
<1>15. CASE Wake
  <2>1. attempt' \in 1..MaxAttempts
    BY <1>15, CalcJobAssumption DEF Wake, IInv, TypeOK, Tasking
  <2>2. TypeOK'
    BY <1>15, <2>1 DEF Wake, IInv, TypeOK, nodeVars, schedVars, procVars, rest, Phases
  <2>3. Tasking' /\ Aside
    BY <1>15 DEF Wake, Tasking, Aside, nodeVars, schedVars
  <2>. QED  BY <2>2, <2>3, AsideKeeps DEF IInv
<1>16. CASE StashAgain
  BY <1>16, FailsKeeps DEF StashAgain, InTask
<1>. QED  BY <1>1, <1>2, <1>3, <1>4, <1>5, <1>6, <1>7, <1>8, <1>9, <1>10, <1>11, <1>12, <1>13, <1>14, <1>15, <1>16 DEF Transport

LEMMA TransitionsKeep == IInv /\ Transitions => IInv'
<1>. SUFFICES ASSUME IInv, Transitions PROVE IInv'
  OBVIOUS
<1>1. TypeOK'
  <2>1. CASE SaveCheckpoint
    BY <2>1 DEF SaveCheckpoint, IInv, TypeOK, schedVars, procVars, rest, Phases, Checkpoint
  <2>2. CASE OnPaused
    BY <2>2, CalcJobAssumption DEF OnPaused, IInv, TypeOK, schedVars, rest, Phases, Checkpoint
  <2>3. CASE OnTerminated
    <3>1. ckpt' \in Checkpoint
      BY <2>3 DEF OnTerminated, IInv, TypeOK, Checkpoint
    <3>. QED  BY <2>3, <3>1 DEF OnTerminated, IInv, TypeOK, schedVars, procVars, rest, Phases, JobStates
  <2>. QED  BY <2>1, <2>2, <2>3 DEF Transitions
<1>2. Tasking'
  BY DEF Transitions, SaveCheckpoint, OnPaused, OnTerminated, Tasking
<1>3. Aside
  BY DEF Transitions, SaveCheckpoint, OnPaused, OnTerminated, Aside, schedVars
<1>. QED  BY <1>1, <1>2, <1>3, AsideKeeps DEF IInv
LEMMA FailuresKeep == IInv /\ Failures => IInv'
<1>. SUFFICES ASSUME IInv, Failures PROVE IInv'
  OBVIOUS
<1>1. CASE PresubmitRaises
  BY <1>1, TerminalKeeps DEF PresubmitRaises, InTask, Terminal, ExitCodes
<1>2. CASE SubmitRejected
  BY <1>2, TaskStepKeeps DEF SubmitRejected, InTask, schedVars, IInv, TypeOK
<1>3. CASE StashNothing
  BY <1>3, TaskStepKeeps DEF StashNothing, InTask, schedVars, IInv, TypeOK
<1>4. CASE TaskFails
  BY <1>4, FailsKeeps DEF TaskFails
<1>5. CASE LoseReply
  <2>1. phase = "accepted" /\ Attempted /\ lost' = lost \cup {pending} /\ pending' = NoJob
    BY <1>5 DEF LoseReply, InTask
  <2>2. pending \in Jobs
    BY <2>1 DEF IInv, Window
  <2>3. TypeOK'
    BY <2>1, <2>2, AttemptedKeeps DEF IInv, TypeOK
  <2>4. Tasking'
    BY <2>1, CalcJobAssumption DEF Tasking, Attempted, IInv, TypeOK
  <2>5. Window' /\ SubmittedOnce'
    BY <2>1 DEF IInv, Window, SubmittedOnce, Attempted, nodeVars
  <2>. QED  BY <2>3, <2>4, <2>5 DEF IInv
<1>. QED  BY <1>1, <1>2, <1>3, <1>4, <1>5 DEF Failures

LEMMA DetachType ==
  ASSUME IInv, Interruptable, Detach
  PROVE  detached' \subseteq {"upload", "stash", "retrieve"}
  BY DEF IInv, TypeOK, Tasking, Detach

LEMMA UsersKeep == IInv /\ Users => IInv'
<1>. SUFFICES ASSUME IInv, Users PROVE IInv'
  OBVIOUS
<1>1. CASE Kill
  <2>1. phase # "accepted" /\ detached' \subseteq {"upload", "stash", "retrieve"}
    BY <1>1, DetachType DEF Kill, Interruptable
  <2>. QED  BY <1>1, <2>1, LaunchKeeps DEF Kill, Tasks
<1>2. CASE KillIdle
  BY <1>2, TerminalKeeps DEF KillIdle, Terminal, ExitCodes
<1>3. CASE KillLate \/ PauseLate
  <2>1. /\ phase = "resolved" /\ action' \in {"pause", "kill"}
        /\ UNCHANGED <<nodeVars, schedVars, procVars, phase, task, attempt, pending, res, found, rest>>
    BY <1>3 DEF KillLate, PauseLate, Late
  <2>2. TypeOK'
    BY <2>1 DEF IInv, TypeOK, nodeVars, schedVars, procVars, rest
  <2>3. Tasking' /\ Aside
    BY <2>1 DEF Tasking, Aside, nodeVars, schedVars
  <2>. QED  BY <2>2, <2>3, AsideKeeps DEF IInv
<1>4. CASE Pause \/ PauseIdle
  <2>1. /\ phase # "accepted" /\ phase' = "pausing"
        /\ detached' \subseteq {"upload", "stash", "retrieve"}
        /\ UNCHANGED <<nodeVars, schedVars, procVars, task, attempt, pending, res, found, action,
                       input, stopped, crashes>>
    BY <1>4, DetachType DEF Pause, PauseIdle, Interruptable, rest, IInv, TypeOK
  <2>2. TypeOK'
    BY <2>1 DEF IInv, TypeOK, nodeVars, schedVars, procVars, Phases
  <2>3. Tasking' /\ Aside
    BY <2>1 DEF Tasking, Aside, nodeVars, schedVars
  <2>. QED  BY <2>2, <2>3, AsideKeeps DEF IInv
<1>5. CASE Play
  <2>1. TypeOK'
    BY <1>5 DEF Play, IInv, TypeOK, nodeVars, schedVars, taskVars, rest
  <2>2. Tasking' /\ Aside
    BY <1>5 DEF Play, Tasking, Aside, nodeVars, schedVars, taskVars, IInv
  <2>. QED  BY <2>1, <2>2, AsideKeeps DEF IInv
<1>. QED  BY <1>1, <1>2, <1>3, <1>4, <1>5 DEF Users

(* The steps that leave the task of the process alone.                     *)
LEMMA BesideKeeps ==
  ASSUME IInv, TypeOK', UNCHANGED <<taskVars, jobId>>, lost' = lost,
         \A j \in Jobs : job'[j] # "free" => job[j] # "free"
  PROVE  IInv'
<1>1. Window' /\ Tasking'
  BY DEF IInv, Window, Tasking, taskVars
<1>2. SubmittedOnce'
  BY DEF IInv, SubmittedOnce, taskVars
<1>. QED  BY <1>1, <1>2 DEF IInv

LEMMA DetachedKeeps == IInv /\ Detached => IInv'
<1>. SUFFICES ASSUME IInv, Detached PROVE IInv'
  OBVIOUS
<1>1. PICK t \in {"upload", "stash", "retrieve"} : DetachedDone(t) \/ DetachedFails(t)
  BY DEF Detached, IInv, TypeOK
<1>2. CASE DetachedDone(t)
  <2>1. jobState' \in JobStates /\ links' \subseteq Outputs /\ outs' \subseteq Outputs
    <3>1. CASE UNCHANGED <<outs, jobState, links>>
      BY <3>1 DEF IInv, TypeOK
    <3>2. CASE ~UNCHANGED <<outs, jobState, links>>
      <4>1. jobState' = [upload |-> "SUBMITTING", stash |-> "RETRIEVING", retrieve |-> "PARSING"][t]
        BY <1>2, <3>2 DEF DetachedDone
      <4>2. jobState' \in JobStates
        BY <4>1 DEF JobStates
      <4>3. links' \subseteq links \cup {"remote_stash"}
        BY <1>2, <3>2 DEF DetachedDone
      <4>4. outs' \subseteq outs \cup {"remote_folder", "retrieved"}
        BY <1>2, <3>2 DEF DetachedDone
      <4>. QED  BY <4>2, <4>3, <4>4 DEF IInv, TypeOK, Outputs
    <3>. QED  BY <3>1, <3>2
  <2>2. detached' \subseteq {"upload", "stash", "retrieve"}
    BY <1>2 DEF DetachedDone, IInv, TypeOK
  <2>3. UNCHANGED <<jobId, procState, exitStatus, sealed, ckpt, schedVars, alive, st, paused,
                    taskVars, input, stopped, crashes>>
    BY <1>2 DEF DetachedDone
  <2>4. TypeOK'
    BY <2>1, <2>2, <2>3 DEF IInv, TypeOK, schedVars, taskVars
  <2>. QED  BY <2>3, <2>4, BesideKeeps DEF schedVars
<1>3. CASE DetachedFails(t)
  <2>1. TypeOK'
    BY <1>3 DEF DetachedFails, IInv, TypeOK, nodeVars, schedVars, procVars, taskVars
  <2>. QED  BY <1>3, <2>1, BesideKeeps DEF DetachedFails, nodeVars, schedVars
<1>. QED  BY <1>1, <1>2, <1>3
LEMMA EnvironmentKeeps == IInv /\ Environment => IInv'
<1>. SUFFICES ASSUME IInv, Environment PROVE IInv'
  OBVIOUS
<1>1. CASE Crash
  <2>1. /\ phase' = "idle" /\ task' = "upload" /\ attempt' = 1 /\ res' = "none" /\ alive' = FALSE
        /\ found' = NoMonitor /\ action' = "none" /\ detached' = {} /\ pending' = NoJob
        /\ lost' = lost \cup ({pending} \ {NoJob}) /\ crashes' = crashes + 1 /\ crashes < MaxCrashes
        /\ UNCHANGED <<nodeVars, job, st, outs, paused, input, stopped>>
    BY <1>1 DEF Crash
  <2>2. /\ crashes' \in 0..MaxCrashes /\ attempt' \in 1..MaxAttempts /\ lost' \subseteq Jobs
        /\ task' \in Tasks /\ pending' \in Jobs \cup {NoJob}
    BY <2>1, CalcJobAssumption DEF IInv, TypeOK, Tasks
  <2>3. TypeOK'
    BY <2>1, <2>2 DEF IInv, TypeOK, nodeVars, Phases
  <2>4. Window' /\ Tasking'
    BY <2>1 DEF Window, Tasking
  <2>5. SubmittedOnce'
    BY <2>1, CalcJobAssumption DEF IInv, SubmittedOnce, nodeVars
  <2>. QED  BY <2>3, <2>4, <2>5 DEF IInv
<1>2. CASE Restart
  <2>1. st' \in State /\ outs' \subseteq Outputs /\ paused' \in BOOLEAN /\ alive' = TRUE
    BY <1>2 DEF Restart, IInv, TypeOK, Checkpoint
  <2>2. UNCHANGED <<nodeVars, schedVars, taskVars, rest>>
    BY <1>2 DEF Restart
  <2>3. TypeOK'
    BY <2>1, <2>2 DEF IInv, TypeOK, nodeVars, schedVars, taskVars, rest
  <2>. QED  BY <2>2, <2>3, BesideKeeps DEF nodeVars, schedVars
<1>3. CASE \E j \in Jobs : JobFinishes(j)
  <2>1. PICK j \in Jobs : JobFinishes(j)
    BY <1>3
  <2>2. /\ job[j] = "active" /\ job' = [job EXCEPT ![j] = "done"]
        /\ UNCHANGED <<nodeVars, lost, procVars, taskVars, rest>>
    BY <2>1 DEF JobFinishes
  <2>3. TypeOK'
    BY <2>2 DEF IInv, TypeOK, nodeVars, procVars, taskVars, rest
  <2>. QED  BY <2>2, <2>3, BesideKeeps DEF nodeVars, IInv, TypeOK
<1>. QED  BY <1>1, <1>2, <1>3 DEF Environment

-----------------------------------------------------------------------------
(* The inductive invariant holds of every behaviour, with any number of    *)
(* jobs, attempts and crashes.                                             *)
THEOREM Invariance == Spec => []IInv
<1>1. IInv /\ [Next]_vars => IInv'
  <2>. SUFFICES ASSUME IInv, [Next]_vars PROVE IInv'
    OBVIOUS
  <2>1. CASE Engine
    BY <2>1, RunningKeeps, WaitingKeeps, TransportKeeps, TransitionsKeep DEF Engine
  <2>2. CASE Failures
    BY <2>2, FailuresKeep
  <2>3. CASE Users
    BY <2>3, UsersKeep
  <2>4. CASE Detached
    BY <2>4, DetachedKeeps
  <2>5. CASE Environment
    BY <2>5, EnvironmentKeeps
  <2>6. CASE UNCHANGED vars
    <3>1. TypeOK'
      BY <2>6 DEF IInv, TypeOK, vars
    <3>2. Window' /\ Tasking' /\ SubmittedOnce'
      BY <2>6 DEF IInv, Window, Tasking, SubmittedOnce, vars
    <3>. QED  BY <3>1, <3>2 DEF IInv
  <2>. QED  BY <2>1, <2>2, <2>3, <2>4, <2>5, <2>6 DEF Next
<1>. QED  BY <1>1, InitIInv, PTL DEF Spec

(* The type invariant of the process, its node and the scheduler.          *)
THEOREM TypeCorrect == Spec => []TypeOK
  BY Invariance, PTL DEF IInv

(* However the worker crashes, whatever the user pauses, plays and kills,  *)
(* and however often the transport fails, `submit_calculation` hands the   *)
(* scheduler no second job while the id of the first is on the node.       *)
THEOREM NotSubmittedTwice == Spec => []SubmittedOnce
  BY Invariance, PTL DEF IInv
=============================================================================
