-------------------------- MODULE RestartWorkChain --------------------------
(***************************************************************************)
(* The BaseRestartWorkChain (engine/processes/workchains/restart.py) with  *)
(* its process handlers (utils.py there), for the outline                  *)
(*                                                                         *)
(*     setup, while_(should_run_process)(run_process, inspect_process),    *)
(*     results                                                             *)
(*                                                                         *)
(* A crash puts the context and the stepper back to the last checkpoint;   *)
(* the children and the extras of the node are in the database and stay.   *)
(* How the work chain waits for a child is the subject of WorkChain.       *)
(***************************************************************************)
EXTENDS Integers, Sequences, SequencesExt

CONSTANTS Handlers,       \* sequence of handlers, by name, as getmembers has them
          Overrides,      \* for each handler what handler_overrides says of it
          MaxIterations,  \* values of the max_iterations input
          Statuses,       \* exit statuses of the child processes, 0 included
          NoValue,        \* an exit_codes, enabled or priority that is not given
          MaxCrashes      \* bound: crashes of the worker

ERROR_SUB_PROCESS_EXCEPTED == 301
ERROR_SUB_PROCESS_KILLED == 302
ERROR_MAXIMUM_ITERATIONS_EXCEEDED == 401
ERROR_SECOND_CONSECUTIVE_UNHANDLED_FAILURE == 402
ERROR_MISSING_OUTPUT == 11

HandlerNames == DOMAIN Handlers

ASSUME RestartAssumption ==
    /\ Handlers \in Seq([priority : Int, enabled : BOOLEAN,
                         exit_codes : (SUBSET Statuses) \cup {NoValue}])
    /\ Overrides \in [HandlerNames -> [enabled : BOOLEAN \cup {NoValue},
                                       priority : Int \cup {NoValue}]]
    /\ MaxIterations \subseteq Nat /\ Statuses \subseteq Nat /\ MaxCrashes \in Nat

VARIABLES max_iterations, \* input
          clean_workdir,  \* input
          pc,             \* the next step of the outline, or the place in one
          ctx,            \* iteration, unhandled_failure, is_finished, children
          todo,           \* handlers that the loop of inspect_process has left
          last_report,    \* the last report of a handler, a sequence of at most one
          called,         \* the children: whether they are still live, have a remote
                          \* folder, and were orphaned by a crash
          node,           \* how the last of them ended: no other is looked at again
          considered,     \* the extra considered_handlers
          ckpt,           \* checkpoint: the step and the context
          exit,           \* how the work chain ended
          outputs,        \* the child whose outputs are attached, 0 if none
          cleaned,        \* children whose work directory has been cleaned
          history,        \* observation: what the inspections made of the children
          crashes

inputs == <<max_iterations, clean_workdir>>
inspection == <<todo, last_report>>
ending == <<exit, outputs, cleaned>>
vars == <<inputs, pc, ctx, inspection, called, node, considered, ckpt, ending, history, crashes>>

\* How a child ends; complete tells whether it has all required outputs, which
\* matters only for a successful one.
Ends == [state : {"finished"}, status : Statuses, complete : {FALSE}]
            \cup [state : {"finished"}, status : {0}, complete : {TRUE}]
            \cup [state : {"excepted", "killed"}, status : {0}, complete : {FALSE}]

NoEnd == [state |-> "none", status |-> 0, complete |-> FALSE]

\* setup.
Init ==
    /\ max_iterations \in MaxIterations /\ clean_workdir \in BOOLEAN
    /\ pc = "loop"
    /\ ctx = [iteration |-> 0, unhandled_failure |-> FALSE, is_finished |-> FALSE,
              children |-> <<>>]
    /\ todo = <<>> /\ last_report = <<>>
    /\ called = <<>> /\ node = NoEnd /\ considered = <<>>
    /\ ckpt = [pc |-> pc, ctx |-> ctx]
    /\ exit = [state |-> "none", status |-> 0] /\ outputs = 0 /\ cleaned = {}
    /\ history = <<>> /\ crashes = 0

\* The end of a step: the checkpoint is saved with the next one.
Saved(step, context) ==
    /\ pc' = step
    /\ ctx' = context
    /\ ckpt' = [pc |-> step, ctx |-> context]

\* Without the check that clean_workdir is set.
OnTerminatedCleans == cleaned' = {i \in DOMAIN called : called[i].remote}

\* on_terminated: all descendants that have a remote folder.
OnTerminated ==
    cleaned' = IF clean_workdir THEN {i \in DOMAIN called : called[i].remote} ELSE {}

End(state, status) ==
    /\ exit' = [state |-> state, status |-> status]
    /\ pc' = "end"
    /\ OnTerminated
    /\ UNCHANGED ckpt

-----------------------------------------------------------------------------

\* should_run_process with one iteration too many.
ShouldRunProcessLate == ~ ctx.is_finished /\ ctx.iteration <= max_iterations

ShouldRunProcess == ~ ctx.is_finished /\ ctx.iteration < max_iterations

\* run_process, up to the submission of the child.
RunProcess ==
    /\ pc = "loop" /\ ShouldRunProcess
    /\ ctx' = [ctx EXCEPT !.iteration = @ + 1]
    /\ called' = Append(called, [live |-> TRUE, remote |-> FALSE, orphan |-> FALSE])
    /\ node' = NoEnd
    /\ pc' = "submitted"
    /\ UNCHANGED <<inputs, inspection, considered, ckpt, ending, history, crashes>>

\* No inputs in the context, or the submission raises.
RunProcessRaises ==
    /\ pc = "loop" /\ ShouldRunProcess
    /\ End("excepted", 0)
    /\ UNCHANGED <<inputs, ctx, inspection, called, node, considered, outputs, history, crashes>>

\* The extra that is not extended.
ConsiderNothing ==
    /\ pc = "submitted"
    /\ Saved("wait", ctx)
    /\ UNCHANGED <<inputs, inspection, called, node, considered, ending, history, crashes>>

\* The rest of run_process: a list for the handlers of this iteration.
Consider ==
    /\ pc = "submitted"
    /\ considered' = Append(considered, <<>>)
    /\ Saved("wait", ctx)
    /\ UNCHANGED <<inputs, inspection, called, node, ending, history, crashes>>

\* A child gets its remote folder on the way, and ends; to finish it needs one.
ChildUploads(i) ==
    /\ called[i].live /\ ~ called[i].remote
    /\ called' = [called EXCEPT ![i].remote = TRUE]
    /\ UNCHANGED <<inputs, pc, ctx, inspection, node, considered, ckpt, ending, history, crashes>>

ChildEnds(i) ==
    /\ called[i].live
    /\ called' = [called EXCEPT ![i].live = FALSE]
    /\ \E e \in Ends : /\ e.state = "finished" => called[i].remote
                      /\ node' = IF i = Len(called) THEN e ELSE node
    /\ UNCHANGED <<inputs, pc, ctx, inspection, considered, ckpt, ending, history, crashes>>

\* A work chain that is told only about children that finish.
AwaitedFinished ==
    /\ pc = "wait" /\ node.state = "finished"
    /\ Saved("inspect", [ctx EXCEPT !.children = Append(@, Len(called))])
    /\ UNCHANGED <<inputs, inspection, called, node, considered, ending, history, crashes>>

\* ToContext(children=append_(node)): the child of the last submission.
Awaited ==
    /\ pc = "wait" /\ ~ called[Len(called)].live
    /\ Saved("inspect", [ctx EXCEPT !.children = Append(@, Len(called))])
    /\ UNCHANGED <<inputs, inspection, called, node, considered, ending, history, crashes>>

-----------------------------------------------------------------------------

\* get_process_handlers_by_priority: a priority of 0 does not override.
Enabled(h) ==
    IF Overrides[h].enabled = NoValue THEN Handlers[h].enabled ELSE Overrides[h].enabled

Priority(h) ==
    IF Overrides[h].priority \in {NoValue, 0} THEN Handlers[h].priority
                                              ELSE Overrides[h].priority

\* sorted, in reverse, keeps the order of equals.
GetProcessHandlersByPriority ==
    SetToSortSeq({h \in HandlerNames : Enabled(h)}, LAMBDA g, h :
        Priority(g) > Priority(h) \/ (Priority(g) = Priority(h) /\ g < h))

IsFailed == node.state = "finished" /\ node.status # 0

Inspect ==
    /\ pc = "inspect" /\ node.state = "finished"
    /\ pc' = "handling"
    /\ todo' = GetProcessHandlersByPriority
    /\ last_report' = <<>>
    /\ UNCHANGED <<inputs, ctx, called, node, considered, ckpt, ending, history, crashes>>

InspectAborts ==
    /\ pc = "inspect"
    /\ \/ node.state = "excepted" /\ End("finished", ERROR_SUB_PROCESS_EXCEPTED)
       \/ node.state = "killed" /\ End("finished", ERROR_SUB_PROCESS_KILLED)
    /\ UNCHANGED <<inputs, ctx, inspection, called, node, considered, outputs, history, crashes>>

\* The handler goes into the last list of the extra, with its result.
Recorded(h) ==
    considered' = [considered EXCEPT ![Len(considered)] = Append(@, h)]

\* The wrapper of the process_handler decorator: a handler with exit codes is
\* not called for a child with another one.
Applies(h) == Handlers[h].exit_codes # NoValue => node.status \in Handlers[h].exit_codes

HandlerDeclines ==
    /\ pc = "handling" /\ todo # <<>>
    /\ Recorded(Head(todo))
    /\ todo' = Tail(todo)
    /\ UNCHANGED <<inputs, pc, ctx, last_report, called, node, ckpt, ending, history, crashes>>

HandlerReports ==
    /\ pc = "handling" /\ todo # <<>> /\ Applies(Head(todo))
    /\ Recorded(Head(todo))
    /\ \E do_break \in BOOLEAN, status \in {0, 400} :
         /\ last_report' = <<[by |-> Head(todo), do_break |-> do_break, status |-> status]>>
         /\ todo' = IF do_break THEN <<>> ELSE Tail(todo)
    /\ UNCHANGED <<inputs, pc, ctx, called, node, ckpt, ending, history, crashes>>

\* A handler raises, or returns something else than a report.
HandlerRaises ==
    /\ pc = "handling" /\ todo # <<>> /\ Applies(Head(todo))
    /\ End("excepted", 0)
    /\ UNCHANGED <<inputs, ctx, inspection, called, node, considered, outputs, history, crashes>>

Judged == history' = Append(history, [child |-> ctx.children[ctx.iteration],
                                      failed |-> IsFailed, reported |-> last_report # <<>>])

\* A conclusion that forgets to reset the flag.
HandledKeepsFlag ==
    [ctx EXCEPT !.is_finished = (last_report = <<>>)]

\* Success, or a failure that a handler reported about: resets the flag.
Handled ==
    [ctx EXCEPT !.unhandled_failure = FALSE, !.is_finished = (last_report = <<>>)]

\* What inspect_process makes of the reports: an exit status above 0 ends the
\* work chain, any other return value lets it go on.
Conclude ==
    /\ pc = "handling" /\ todo = <<>>
    /\ Judged
    /\ IF IsFailed /\ last_report = <<>>
       THEN IF ctx.unhandled_failure
            THEN End("finished", ERROR_SECOND_CONSECUTIVE_UNHANDLED_FAILURE) /\ UNCHANGED ctx
            ELSE Saved("loop", [ctx EXCEPT !.unhandled_failure = TRUE]) /\ UNCHANGED <<exit, cleaned>>
       ELSE IF last_report # <<>> /\ last_report[1].status > 0
            THEN End("finished", last_report[1].status) /\ ctx' = Handled
            ELSE Saved("loop", Handled) /\ UNCHANGED <<exit, cleaned>>
    /\ UNCHANGED <<inputs, inspection, called, node, considered, outputs, crashes>>

-----------------------------------------------------------------------------

LeaveLoop ==
    /\ pc = "loop" /\ ~ ShouldRunProcess
    /\ Saved("results", ctx)
    /\ UNCHANGED <<inputs, inspection, called, node, considered, ending, history, crashes>>

\* With max_iterations = 0 there is no child to take the results from.
ResultsRaises ==
    /\ pc = "results" /\ ctx.iteration = 0
    /\ End("excepted", 0)
    /\ UNCHANGED <<inputs, ctx, inspection, called, node, considered, outputs, history, crashes>>

\* results without the check of is_finished.
ResultsUnchecked ==
    /\ pc = "results" /\ ctx.iteration > 0
    /\ outputs' = ctx.children[ctx.iteration]
    /\ End("finished", IF node.complete THEN 0 ELSE ERROR_MISSING_OUTPUT)
    /\ UNCHANGED <<inputs, ctx, inspection, called, node, considered, history, crashes>>

\* A required output that the child does not have is reported, and found missing
\* when the work chain finishes.
Results ==
    /\ pc = "results" /\ ctx.iteration > 0
    /\ IF ~ ctx.is_finished /\ ctx.iteration >= max_iterations
       THEN End("finished", ERROR_MAXIMUM_ITERATIONS_EXCEEDED) /\ UNCHANGED outputs
       ELSE /\ outputs' = ctx.children[ctx.iteration]
            /\ End("finished", IF node.complete THEN 0 ELSE ERROR_MISSING_OUTPUT)
    /\ UNCHANGED <<inputs, ctx, inspection, called, node, considered, history, crashes>>

\* The worker goes down and another one continues from the checkpoint.
Crash ==
    /\ pc # "end" /\ crashes < MaxCrashes
    /\ crashes' = crashes + 1
    /\ pc' = ckpt.pc /\ ctx' = ckpt.ctx
    /\ todo' = <<>> /\ last_report' = <<>>
    /\ called' = IF pc = "submitted" THEN [called EXCEPT ![Len(called)].orphan = TRUE] ELSE called
    /\ UNCHANGED <<inputs, node, considered, ckpt, ending, history>>

\* A kill while the work chain waits: its children are told, and end later.
Kill ==
    /\ pc = "wait"
    /\ End("killed", 0)
    /\ UNCHANGED <<inputs, ctx, inspection, called, node, considered, outputs, history, crashes>>

Child(i) == ChildUploads(i) \/ ChildEnds(i)
Step ==
    \/ RunProcess \/ RunProcessRaises \/ Consider \/ Awaited
    \/ Inspect \/ InspectAborts \/ HandlerDeclines \/ HandlerReports \/ HandlerRaises
    \/ Conclude \/ LeaveLoop \/ ResultsRaises \/ Results

Next == Step \/ Kill \/ Crash \/ \E i \in DOMAIN called : Child(i)

Spec == Init /\ [][Next]_vars /\ WF_vars(Step) /\ WF_vars(\E i \in DOMAIN called : Child(i))

-----------------------------------------------------------------------------

Unhandled(j) == history[j].failed /\ ~ history[j].reported
Ended(status) == exit = [state |-> "finished", status |-> status]

\* The work chain gives up for a second unhandled failure exactly when the last
\* two children in a row failed with no handler reporting, whatever happened
\* before them: the flag is reset by every handled failure and every success,
\* and a restart from the checkpoint neither loses nor repeats it.
TwiceInARow ==
    LET n == Len(history) IN
    /\ \A j \in 1..(n - 2) : ~ (Unhandled(j) /\ Unhandled(j + 1))
    /\ (n >= 2 /\ Unhandled(n - 1) /\ Unhandled(n))
         = Ended(ERROR_SECOND_CONSECUTIVE_UNHANDLED_FAILURE)

\* No more than max_iterations children are inspected, and every child beyond
\* that number is one that a crash orphaned in the middle of run_process.
IterationsBounded ==
    /\ Len(history) <= max_iterations
    /\ Len(SelectSeq(called, LAMBDA c : ~ c.orphan)) <= max_iterations
    /\ Len(SelectSeq(called, LAMBDA c : c.orphan)) <= crashes

\* The work chain ends with exit status 0 only when the last child was
\* successful and complete, no handler reported about it, and its outputs are
\* the ones attached; outputs of any other child are never attached.
SuccessIsOfLastChild ==
    /\ Ended(0) => outputs # 0 /\ node.complete
    /\ outputs # 0 =>
         /\ node.state = "finished" /\ outputs = Len(called)
         /\ history[Len(history)] = [child |-> outputs, failed |-> FALSE, reported |-> FALSE]

\* One list of considered_handlers per call of run_process: a crash can only add
\* lists and entries. The last list ends with the handlers that have been called
\* for the current child, in order of priority, as long as none asked to break.
ConsideredMatches ==
    LET n == Len(considered)
        order == GetProcessHandlersByPriority
        done == Len(order) - Len(todo)
    IN  /\ ctx.iteration - (IF pc = "submitted" THEN 1 ELSE 0) <= n
        /\ n <= Len(called)
        /\ crashes = 0 => n = ctx.iteration - (IF pc = "submitted" THEN 1 ELSE 0)
        /\ (pc = "handling" /\ ~ (last_report # <<>> /\ last_report[1].do_break)) =>
             IsSuffix(SubSeq(order, 1, done), considered[n])

\* Work directories are cleaned at the end, if the input asks for it, and only
\* of children that have ended. The exceptions are a child that a crash orphaned,
\* which the work chain does not wait for, and a kill, which does not wait either.
CleanedAfterEnd ==
    /\ cleaned # {} => clean_workdir /\ pc = "end"
    /\ \A i \in cleaned : called[i].live => called[i].orphan \/ exit.state = "killed"

\* The restarts come to an end.
Terminates == <>(pc = "end")
=============================================================================
