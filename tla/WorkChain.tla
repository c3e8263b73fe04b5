----------------------------- MODULE WorkChain ------------------------------
(***************************************************************************)
(* A work chain (engine/processes/workchains/workchain.py) that launches   *)
(* child processes, waits for them and puts their nodes in its context,    *)
(* together with the part of the runner that tells it when a child ended   *)
(* (call_on_process_finish and its polling in engine/runners.py) and the   *)
(* kill of the children (engine/processes/process.py).                     *)
(*                                                                         *)
(* A step of the outline is executed without an await, so only a crash can *)
(* come between its parts. What outlives a crash are the children, with    *)
(* their CALL link to the node of the work chain, and the checkpoint.      *)
(***************************************************************************)
EXTENDS Naturals, Sequences, FiniteSets

CONSTANTS Children,    \* keys (pk) for child processes
          Keys,        \* keys of the context
          Outline,     \* sequence of steps, each a sequence of launches
          None,        \* no value
          MaxCrashes   \* bound: crashes of the daemon worker

Launches == [key : Keys, action : {"assign", "append"}]
LaunchesOf(n) == {Outline[n][i] : i \in DOMAIN Outline[n]}

\* A key is either assigned to or appended to, and a step assigns to a key once:
\* of two awaitables of one step that assign to the same key, the one whose
\* child ends last would win.
ASSUME WorkChainAssumption ==
    /\ Children \subseteq Nat
    /\ Outline \in Seq(Seq(Launches))
    /\ \A n, m \in DOMAIN Outline :
         \A a \in LaunchesOf(n), b \in LaunchesOf(m) : a.key = b.key => a = b
    /\ \A n \in DOMAIN Outline : \A i, j \in DOMAIN Outline[n] :
         Outline[n][i] = Outline[n][j] /\ Outline[n][i].action = "assign" => i = j
    /\ MaxCrashes \in Nat
    /\ None \notin Nat

VARIABLES state,      \* state of the process: running, waiting or a terminal one
          pc,         \* the stepper: number of the step to execute next
          inStep,     \* number of children launched by the step, None outside
          awaitables, \* _awaitables, each with its child, key and action
          ctx,        \* the context: for each key a sequence of values
          paused,     \* whether the process is paused
          log,        \* observation: the launches behind the state in memory
          reg,        \* what call_on_process_finish has set up for a child
          soon,       \* children whose callback is scheduled by call_soon
          child,      \* state of the child processes
          news,       \* children whose broadcast is in flight
          orders,     \* children to which a kill message is in flight
          called,     \* CALL links of the node, and the launch each comes from
          ckpt,       \* the checkpoint
          alive,      \* whether a worker has the process in memory
          raised,     \* observation: a callback raised an exception
          cut,        \* observation: steps that were hit by a crash
          spared,     \* observation: children that a kill could not reach
          crashes     \* number of crashes so far

memory == <<state, pc, inStep, awaitables, ctx, paused, log>>
runner == <<reg, soon>>
world == <<child, news, orders, called>>
observed == <<raised, cut, spared>>
vars == <<memory, runner, world, ckpt, alive, observed, crashes>>

\* An entry of the context is the awaitable that stands for a child, or its node.
Placeholder(c) == [kind |-> "awaitable", of |-> c]
NodeOf(c) == [kind |-> "node", of |-> c]

Terminal == {"finished", "killed", "excepted"}
Awaited == {a.of : a \in awaitables}
Called == {l.of : l \in called}

\* What save_instance_state puts in the bundle.
BundleOf(s, n, as, cx, p, lg) ==
    [state |-> s, pc |-> n, awaitables |-> as, ctx |-> cx, paused |-> p, log |-> lg]

Init ==
    /\ state = "running" /\ pc = 1 /\ inStep = None
    /\ awaitables = {}
    /\ ctx = [k \in Keys |-> <<>>]
    /\ paused = FALSE
    /\ log = <<>>
    /\ reg = [c \in Children |-> "none"]
    /\ soon = {}
    /\ child = [c \in Children |-> "unborn"]
    /\ news = {} /\ orders = {} /\ called = {}
    /\ ckpt = BundleOf(state, pc, awaitables, ctx, paused, log)
    /\ alive = TRUE
    /\ raised = FALSE /\ cut = {} /\ spared = {} /\ crashes = 0

-----------------------------------------------------------------------------
(* _do_step: the awaitables are reset, the step launches its children and    *)
(* inserts an awaitable for each, and its return value decides the state.    *)

Playing == alive /\ ~ paused /\ inStep = None

BeginStep ==
    /\ Playing /\ state = "running"
    /\ inStep' = 0
    /\ awaitables' = {}
    /\ UNCHANGED <<state, pc, ctx, paused, log, runner, world, ckpt, alive, observed, crashes>>

\* _insert_awaitable: the awaitable holds the place of the node.
Inserted(launch, c) ==
    [ctx EXCEPT ![launch.key] =
        IF launch.action = "assign" THEN <<Placeholder(c)>>
                                    ELSE Append(@, Placeholder(c))]

Launch(c) ==
    /\ alive /\ inStep # None /\ inStep < Len(Outline[pc])
    /\ child[c] = "unborn" /\ \A d \in Children : d < c => child[d] # "unborn"
    /\ child' = [child EXCEPT ![c] = "queued"]
    /\ called' = called \cup {[step |-> pc, nr |-> inStep + 1, of |-> c]}
    /\ LET launch == Outline[pc][inStep + 1] IN
         /\ ctx' = Inserted(launch, c)
         /\ awaitables' = awaitables \cup
              {[of |-> c, key |-> launch.key, action |-> launch.action]}
         /\ log' = Append(log, [step |-> pc, nr |-> inStep + 1, of |-> c])
    /\ inStep' = inStep + 1
    /\ UNCHANGED <<state, pc, paused, runner, news, orders, ckpt, alive, observed, crashes>>

StepDone == alive /\ inStep # None /\ inStep = Len(Outline[pc])

\* _action_awaitables: call_on_process_finish for each of the awaitables.
Registered == [c \in Children |-> IF c \in Awaited THEN "open" ELSE "none"]

\* A transition that is not checkpointed.
ProceedUnsaved(next) ==
    /\ state' = next
    /\ reg' = IF next = "waiting" THEN Registered ELSE reg
    /\ UNCHANGED ckpt

\* The process enters the next state: on_wait sets up the callbacks, then
\* on_entered saves the checkpoint.
Proceed(next) ==
    /\ state' = next
    /\ ckpt' = BundleOf(next, pc', awaitables, ctx, paused, log)
    /\ reg' = IF next = "waiting" THEN Registered ELSE reg

EndStep ==
    /\ StepDone /\ pc < Len(Outline)
    /\ inStep' = None
    /\ pc' = pc + 1
    /\ Proceed(IF awaitables = {} THEN "running" ELSE "waiting")
    /\ UNCHANGED <<awaitables, ctx, paused, log, soon, world, alive, observed, crashes>>

\* A terminal state whose checkpoint stays.
TerminateUndeleted(s) ==
    /\ state' = s
    /\ UNCHANGED <<ckpt, pc, awaitables, ctx, log, reg, soon, alive, crashes>>

\* A terminal state: on_terminated deletes the checkpoint.
Terminate(s) ==
    /\ state' = s
    /\ ckpt' = None
    /\ UNCHANGED <<pc, awaitables, ctx, log, reg, soon, alive, crashes>>

\* The stepper is at its end, whether or not the last step launched children;
\* or the step returned a non-zero exit code; or it raised.
EndOutline ==
    /\ StepDone
    /\ inStep' = None
    /\ \/ Terminate("finished")
       \/ Terminate("excepted")
    /\ UNCHANGED <<paused, world, observed>>

-----------------------------------------------------------------------------
(* The children, and the news of their end.                                  *)

ChildStart(c) ==
    /\ child[c] = "queued"
    /\ child' = [child EXCEPT ![c] = "live"]
    /\ UNCHANGED <<memory, runner, news, orders, called, ckpt, alive, observed, crashes>>

ChildEnd(c) ==
    /\ child[c] = "live"
    /\ child' = [child EXCEPT ![c] = "done"]
    /\ news' = news \cup {c}
    /\ UNCHANGED <<memory, runner, orders, called, ckpt, alive, observed, crashes>>

\* inline_callback without the event.
FireUnguarded(c) ==
    /\ soon' = IF reg[c] = "none" THEN soon ELSE soon \cup {c}
    /\ UNCHANGED reg

\* inline_callback: the event makes sure that the callback runs once, whether
\* the broadcast or the polling comes first.
Fire(c) ==
    IF reg[c] = "open" THEN /\ reg' = [reg EXCEPT ![c] = "fired"]
                            /\ soon' = soon \cup {c}
                       ELSE UNCHANGED runner

Broadcast(c) ==
    /\ alive /\ inStep = None /\ c \in news
    /\ news' = news \ {c}
    /\ Fire(c)
    /\ UNCHANGED <<memory, child, orders, called, ckpt, alive, observed, crashes>>

LoseBroadcast(c) ==
    /\ c \in news
    /\ news' = news \ {c}
    /\ UNCHANGED <<memory, runner, child, orders, called, ckpt, alive, observed, crashes>>

\* Without the fail-safe of the polling.
PollProcessNever(c) == FALSE /\ UNCHANGED vars

\* _poll_process; once the event is set, its only effect is that it ends.
PollProcess(c) ==
    /\ alive /\ inStep = None
    /\ reg[c] = "open" /\ child[c] = "done"
    /\ Fire(c)
    /\ UNCHANGED <<memory, world, ckpt, alive, observed, crashes>>

-----------------------------------------------------------------------------
(* _on_awaitable_finished and _resolve_awaitable.                            *)

\* A resolution that appends in the order in which the children end.
ResolvedLast(a) ==
    [ctx EXCEPT ![a.key] =
        Append(SelectSeq(@, LAMBDA v : v # Placeholder(a.of)), NodeOf(a.of))]

Resolved(a) ==
    [ctx EXCEPT ![a.key] =
        IF a.action = "assign" THEN <<NodeOf(a.of)>>
        ELSE [i \in DOMAIN @ |-> IF @[i] = Placeholder(a.of) THEN NodeOf(a.of) ELSE @[i]]]

\* An awaitable that is not in the list raises, which in a callback of call_soon
\* makes the process except.
OnAwaitableFinished(c) ==
    /\ alive /\ inStep = None /\ c \in soon
    /\ soon' = soon \ {c}
    /\ raised' = (raised \/ c \notin Awaited)
    /\ IF c \in Awaited
       THEN \E a \in awaitables : /\ a.of = c
                                  /\ ctx' = Resolved(a)
                                  /\ awaitables' = awaitables \ {a}
       ELSE UNCHANGED <<ctx, awaitables>>
    /\ UNCHANGED <<state, pc, inStep, paused, log, reg, world, ckpt, alive, cut, spared, crashes>>

\* resume: the last awaitable has been resolved.
Resume ==
    /\ Playing /\ state = "waiting" /\ awaitables = {}
    /\ pc' = pc
    /\ Proceed("running")
    /\ UNCHANGED <<inStep, awaitables, ctx, paused, log, soon, world, alive, observed, crashes>>

-----------------------------------------------------------------------------
(* Messages to the work chain, and crashes of its worker.                    *)

\* A pause between resume and the next step is left to plumpy.
Pause ==
    /\ Playing /\ state \notin Terminal
    /\ state = "waiting" => awaitables # {}
    /\ paused' = TRUE
    /\ ckpt' = BundleOf(state, pc, awaitables, ctx, TRUE, log)
    /\ UNCHANGED <<state, pc, inStep, awaitables, ctx, log, runner, world, alive, observed, crashes>>

Play ==
    /\ alive /\ paused /\ state \notin Terminal
    /\ paused' = FALSE
    /\ UNCHANGED <<state, pc, inStep, awaitables, ctx, log, runner, world, ckpt, alive, observed, crashes>>

\* A kill that goes by the awaitables.
ToKillAwaited == Awaited

\* The children that a kill concerns: the ones that the node has called.
ToKill == Called

\* Process.kill: a child that no worker runs cannot be reached.
Kill ==
    /\ alive /\ inStep = None /\ state \notin Terminal
    /\ Terminate("killed")
    /\ paused' = FALSE
    /\ orders' = orders \cup {c \in ToKill : child[c] = "live"}
    /\ spared' = {c \in Called : child[c] = "queued"}
    /\ UNCHANGED <<inStep, child, news, called, raised, cut>>

KillChild(c) ==
    /\ c \in orders
    /\ orders' = orders \ {c}
    /\ child' = [child EXCEPT ![c] = "done"]
    /\ news' = IF child[c] = "done" THEN news ELSE news \cup {c}
    /\ UNCHANGED <<memory, runner, called, ckpt, alive, observed, crashes>>

Crash ==
    /\ alive /\ state \notin Terminal /\ crashes < MaxCrashes
    /\ crashes' = crashes + 1
    /\ alive' = FALSE
    /\ cut' = IF inStep = None THEN cut ELSE cut \cup {pc}
    /\ inStep' = None
    /\ reg' = [c \in Children |-> "none"]
    /\ soon' = {}
    /\ UNCHANGED <<state, pc, awaitables, ctx, paused, log, world, ckpt, raised, spared>>

\* load_instance_state.
Load ==
    /\ ~ alive
    /\ alive' = TRUE
    /\ state' = ckpt.state /\ pc' = ckpt.pc /\ ctx' = ckpt.ctx
    /\ awaitables' = ckpt.awaitables /\ paused' = ckpt.paused /\ log' = ckpt.log

\* A process that is loaded without callbacks for its awaitables.
RestartUnregistered ==
    /\ Load
    /\ UNCHANGED <<inStep, runner, world, ckpt, observed, crashes>>

Restart ==
    /\ Load
    /\ reg' = [c \in Children |->
                 IF \E a \in ckpt.awaitables : a.of = c THEN "open" ELSE "none"]
    /\ UNCHANGED <<inStep, soon, world, ckpt, observed, crashes>>

-----------------------------------------------------------------------------

Own == BeginStep \/ (\E c \in Children : Launch(c)) \/ EndStep \/ EndOutline \/ Resume

Next ==
    \/ Own \/ Pause \/ Play \/ Kill \/ Crash \/ Restart
    \/ \E c \in Children :
         \/ ChildStart(c) \/ ChildEnd(c) \/ KillChild(c)
         \/ Broadcast(c) \/ LoseBroadcast(c) \/ PollProcess(c) \/ OnAwaitableFinished(c)

\* The event loop runs what is scheduled, the polling timer among it; children
\* are run and end; a worker that crashed is replaced.
Fairness ==
    /\ WF_vars(Own) /\ WF_vars(Restart)
    /\ \A c \in Children :
         /\ WF_vars(PollProcess(c)) /\ WF_vars(OnAwaitableFinished(c))
         /\ WF_vars(ChildStart(c)) /\ WF_vars(ChildEnd(c))

Spec == Init /\ [][Next]_vars /\ Fairness

-----------------------------------------------------------------------------

TypeOK ==
    /\ state \in {"running", "waiting"} \cup Terminal
    /\ pc \in DOMAIN Outline /\ inStep \in Nat \cup {None}
    /\ awaitables \subseteq [of : Children, key : Keys, action : {"assign", "append"}]
    /\ ctx \in [Keys -> Seq([kind : {"awaitable", "node"}, of : Children])]
    /\ paused \in BOOLEAN /\ alive \in BOOLEAN /\ raised \in BOOLEAN
    /\ reg \in [Children -> {"none", "open", "fired"}]
    /\ child \in [Children -> {"unborn", "queued", "live", "done"}]
    /\ soon \subseteq Children /\ news \subseteq Children
    /\ orders \subseteq Children /\ Called \subseteq Children /\ spared \subseteq Children
    /\ cut \subseteq DOMAIN Outline
    /\ crashes \in 0..MaxCrashes
    /\ (ckpt = None) = (state \in Terminal)

\* A work chain that waits, in memory, is going to be told about each of its
\* awaitables: a subscription and a poll are in place, or the callback is
\* already scheduled. A checkpoint, a restart (load_instance_state) or a pause
\* must not lose one of them, or the work chain waits for ever.
WaitingIsRegistered ==
    alive /\ state = "waiting" => \A c \in Awaited : reg[c] = "open" \/ c \in soon

\* Whatever the order of broadcast, polling, restart and kill, an awaitable is
\* resolved once: the callback never finds it missing from _awaitables, which
\* would raise in the event loop and except the work chain (workchain.py:219).
ResolvedOnce == ~ raised

\* The context that the launches in the log lead to.
Expected(k) ==
    LET ofKey == SelectSeq(log, LAMBDA e : Outline[e.step][e.nr].key = k)
        nodes == [i \in DOMAIN ofKey |-> NodeOf(ofKey[i].of)]
    IN  IF ofKey # <<>> /\ Outline[ofKey[1].step][ofKey[1].nr].action = "assign"
        THEN <<nodes[Len(nodes)]>> ELSE nodes

\* When a step begins, all the children of the steps before it have ended, and
\* the context holds exactly their nodes, appended in the order of the
\* launches, not of the ends: across pauses, restarts and lost broadcasts.
ContextComplete ==
    alive /\ state = "running" /\ inStep = None =>
        /\ \A k \in Keys : ctx[k] = Expected(k)
        /\ \A i \in DOMAIN log : child[log[i].of] = "done"

\* A restart repeats the launches of a step only when the crash hit the step
\* itself: from its end on the checkpoint knows the children. So a step that no
\* crash has hit calls each of its children once.
LaunchedOnce ==
    \A l, m \in called :
        l.step = m.step /\ l.nr = m.nr /\ l.step \notin cut => l = m

\* A kill of the work chain reaches every child that a worker runs, the ones
\* that a crashed step left behind included, since Process.kill goes by the CALL
\* links; the children it does not reach were still in the queue.
KillReachesChildren ==
    state = "killed" =>
        \A c \in Called : child[c] = "live" => c \in orders \cup spared

\* The work chain ends, unless it is paused again and again or for ever: the
\* polling makes up for every broadcast that is lost or comes too early.
Terminates == <>(state \in Terminal) \/ []<>paused
=============================================================================
