------------------------------ MODULE JobsList ------------------------------
(***************************************************************************)
(* The batching of scheduler queries: aiida.engine.processes.calcjobs      *)
(* .manager, JobsList and the JobManager that hands it out, for one        *)
(* authinfo.                                                               *)
(*                                                                         *)
(* Every calculation job that waits for its scheduler job asks this object *)
(* for a future.  The futures wait together in a dictionary; one updating  *)
(* coroutine, armed by the first of them, sleeps until the scheduler may   *)
(* be polled again, waits for a transport, asks the scheduler once, and    *)
(* answers all of them.  The coroutine is tracked only by                  *)
(* `_update_handle`: a handle that is left behind, or dropped too early,   *)
(* starves the jobs or doubles the polling.                                *)
(*                                                                         *)
(* All code runs on one event loop, so what stands between two awaits is   *)
(* one step here.  Time is discrete, and clocks stop at Interval, after    *)
(* which nothing depends on them.                                          *)
(***************************************************************************)
EXTENDS Integers, FiniteSets

CONSTANTS
    Jobs,         \* scheduler job identifiers, one waiting calculation job each
    Updaters,     \* identities of updating() coroutines
    NoHandle,     \* the value None of _update_handle
    Interval,     \* the minimum polling interval of the computer
    QueryByUser,  \* the scheduler plugin's feature can_query_by_user
    Faults        \* subset of {"open", "get_jobs"}: what may raise

ASSUME JobsListAssumption ==
    /\ NoHandle \notin Updaters
    /\ Interval \in Nat
    /\ QueryByUser \in BOOLEAN
    /\ Faults \subseteq {"open", "get_jobs"}

VARIABLES
    requests,     \* _job_update_requests: no entry, or the state of its future
    handle,       \* _update_handle
    updater,      \* where each updating() coroutine is
    left,         \* time until its timer fires
    updated,      \* time since _last_updated; -1 when it is None
    waiter,       \* the calculation job that asked
    info,         \* what it was last given for its job
    queue         \* the jobs the scheduler still holds

state == <<requests, handle, updater, left, updated>>
vars == <<state, waiter, info, queue>>

Time == 0 .. Interval

Never == -1

\* JobsList is made on first use and keeps no memory of earlier polls.
Init ==
    /\ requests = [j \in Jobs |-> "none"]
    /\ handle = NoHandle
    /\ updater = [u \in Updaters |-> "none"]
    /\ left = [u \in Updaters |-> 0]
    /\ updated = Never
    /\ waiter = [j \in Jobs |-> "idle"]
    /\ info = [j \in Jobs |-> "unknown"]
    /\ queue = Jobs

-----------------------------------------------------------------------------
NextUpdateDelayIgnored == 0

NextUpdateDelayUnchecked == Interval - updated

\* _get_next_update_delay
NextUpdateDelay ==
    IF updated = Never THEN 0 ELSE Interval - updated

\* _update_requests_outstanding
Outstanding == \E j \in Jobs : requests[j] = "pending"

\* _ensure_updating: one updating() coroutine at a time.
EnsureUpdating ==
    \/ /\ handle # NoHandle
       /\ UNCHANGED <<handle, updater, left>>
    \/ /\ handle = NoHandle
       /\ \E u \in Updaters :
             /\ updater[u] = "none"
             /\ handle' = u
             /\ updater' = [updater EXCEPT ![u] = "timer"]
             /\ left' = [left EXCEPT ![u] = NextUpdateDelay]

\* request_job_info_update: get or create the future, and be told of it.
Request(j) ==
    /\ waiter[j] = "idle"
    /\ requests[j] # "done"
    /\ requests' = [requests EXCEPT ![j] = "pending"]
    /\ waiter' = [waiter EXCEPT ![j] = "waiting"]
    /\ EnsureUpdating
    /\ UNCHANGED <<updated, info, queue>>

\* The future found in the dictionary is done: the assertion fails and the
\* caller gets an AssertionError.
RequestAsserts(j) ==
    /\ waiter[j] = "idle"
    /\ requests[j] = "done"
    /\ waiter' = [waiter EXCEPT ![j] = "asserted"]
    /\ UNCHANGED <<state, info, queue>>

\* The caller has its answer, or its exception, and goes on.
Proceed(j) ==
    /\ waiter[j] \in {"answered", "raised", "asserted"}
    /\ waiter' = [waiter EXCEPT ![j] = "idle"]
    /\ UNCHANGED <<state, info, queue>>

LeaveSilently(j) ==
    /\ waiter[j] = "waiting"
    /\ waiter' = [waiter EXCEPT ![j] = "idle"]
    /\ UNCHANGED <<state, info, queue>>

\* The caller is interrupted (pause or kill) and leaves JobManager's context,
\* which cancels a future that is not done; the entry stays.
Leave(j) ==
    /\ waiter[j] = "waiting"
    /\ waiter' = [waiter EXCEPT ![j] = "idle"]
    /\ requests' = [requests EXCEPT ![j] = IF @ = "pending" THEN "done" ELSE @]
    /\ UNCHANGED <<handle, updater, left, updated, info, queue>>
-----------------------------------------------------------------------------
\* The `finally` of _update_job_info drops every request.  Nothing suspends
\* between it and the test for outstanding requests in updating(), so that
\* test fails, the coroutine ends and the handle is None.
Ended(u) ==
    /\ requests' = [j \in Jobs |-> "none"]
    /\ updater' = [updater EXCEPT ![u] = "none"]
    /\ handle' = NoHandle
    /\ UNCHANGED left

EndedKeepingHandle(u) ==
    /\ requests' = [j \in Jobs |-> "none"]
    /\ updater' = [updater EXCEPT ![u] = "none"]
    /\ UNCHANGED <<handle, left>>

\* The exception path of _update_job_info resets the handle itself and
\* re-raises past the code in updating().
EndedRaising(u) ==
    /\ requests' = [j \in Jobs |-> "none"]
    /\ updater' = [updater EXCEPT ![u] = "none"]
    /\ handle' = NoHandle
    /\ UNCHANGED left

\* The timer fires, updating() starts and finds nobody waiting.
RunIdle(u) ==
    /\ updater[u] = "timer"
    /\ left[u] = 0
    /\ ~Outstanding
    /\ Ended(u)
    /\ UNCHANGED <<updated, waiter, info, queue>>

\* The timer fires, updating() starts and asks for a transport.
Run(u) ==
    /\ updater[u] = "timer"
    /\ left[u] = 0
    /\ Outstanding
    /\ updater' = [updater EXCEPT ![u] = "fetching"]
    /\ UNCHANGED <<requests, handle, left, updated, waiter, info, queue>>

QueriedKnown == IF QueryByUser THEN Jobs ELSE {j \in Jobs : info[j] = "found"}

\* The jobs of the query: all of the user's, or those with a request
\* (_get_jobs_with_scheduler).
Queried == IF QueryByUser THEN Jobs ELSE {j \in Jobs : requests[j] # "none"}

\* scheduler.get_jobs: the queried jobs the scheduler holds.
Response == queue \cap Queried

\* The transport is there: the scheduler is called and every pending future
\* gets its job's entry of the response, or None.
Fetch(u) ==
    /\ updater[u] = "fetching"
    /\ updated' = 0
    /\ waiter' = [j \in Jobs |-> IF requests[j] = "pending" THEN "answered" ELSE waiter[j]]
    /\ info' = [j \in Jobs |-> IF requests[j] # "pending" THEN info[j]
                               ELSE IF j \in Response THEN "found" ELSE "gone"]
    /\ Ended(u)
    /\ UNCHANGED queue

\* The exception goes to every pending future; _last_updated keeps its value.
Raises(u) ==
    /\ updater[u] = "fetching"
    /\ waiter' = [j \in Jobs |-> IF requests[j] = "pending" THEN "raised" ELSE waiter[j]]
    /\ EndedRaising(u)
    /\ UNCHANGED <<updated, info, queue>>

\* The transport cannot be opened: the scheduler is not called.
OpenRaises(u) ==
    /\ "open" \in Faults
    /\ Raises(u)

\* The scheduler command fails.
GetJobsRaises(u) ==
    /\ "get_jobs" \in Faults
    /\ Raises(u)
-----------------------------------------------------------------------------
\* A job ends and the scheduler forgets it; identifiers are not used again.
JobEnds(j) ==
    /\ j \in queue
    /\ queue' = queue \ {j}
    /\ UNCHANGED <<state, waiter, info>>

Later(t) == IF t < Interval THEN t + 1 ELSE t

\* One unit of time passes.
Tick ==
    /\ \/ updated \in 0 .. Interval - 1
       \/ \E u \in Updaters : left[u] > 0
    /\ updated' = IF updated = Never THEN Never ELSE Later(updated)
    /\ left' = [u \in Updaters |-> IF left[u] > 0 THEN left[u] - 1 ELSE 0]
    /\ UNCHANGED <<requests, handle, updater, waiter, info, queue>>

Updating(u) ==
    RunIdle(u) \/ Run(u) \/ Fetch(u) \/ OpenRaises(u) \/ GetJobsRaises(u)

Asking(j) == Request(j) \/ RequestAsserts(j) \/ Proceed(j) \/ Leave(j)

Next ==
    \/ \E j \in Jobs : Asking(j) \/ JobEnds(j)
    \/ \E u \in Updaters : Updating(u)
    \/ Tick

Spec == Init /\ [][Next]_vars

\* The event loop fires expired timers and resumes the coroutine once the
\* transport queue grants or refuses the transport; time passes.
FairSpec == Spec /\ WF_vars(Tick) /\ \A u \in Updaters : WF_vars(Updating(u))
-----------------------------------------------------------------------------
TypeOK ==
    /\ requests \in [Jobs -> {"none", "pending", "done"}]
    /\ handle \in Updaters \cup {NoHandle}
    /\ updater \in [Updaters -> {"none", "timer", "fetching"}]
    /\ left \in [Updaters -> Time]
    /\ updated \in Time \cup {Never}
    /\ waiter \in [Jobs -> {"idle", "waiting", "answered", "raised", "asserted"}]
    /\ info \in [Jobs -> {"unknown", "found", "gone"}]
    /\ queue \subseteq Jobs

\* The handle names the one updating() coroutine there is, and is None exactly
\* when there is none: no two of them ever poll side by side, and none is taken
\* to be running after it ended (the comment in _update_job_info on resetting
\* the handle by hand).
HandleIsUpdater ==
    \A u \in Updaters : updater[u] # "none" <=> handle = u

\* Whoever waits holds a pending entry of the dictionary, and an updating()
\* coroutine is on its way to answer it: no call of _ensure_updating skips the
\* arming when the previous coroutine is finished, and no caller waits on a
\* future that the dictionary has already dropped.
WaiterIsServed ==
    \A j \in Jobs :
        /\ waiter[j] = "waiting" <=> requests[j] = "pending"
        /\ waiter[j] = "waiting" => \E u \in Updaters : updater[u] # "none"

\* None is read as "the job is done" by task_update_job, which then retrieves.
\* A caller is given None only for a job the scheduler really dropped, even
\* when its request came in while the updater was waiting for the transport and
\* the query goes by job identifiers.
GoneIsGone ==
    \A j \in Jobs : info[j] = "gone" => j \notin queue

\* "This class will guarantee that the time between update calls to the
\* scheduler is larger or equal to that minimum interval" (class docstring): no
\* call follows an answered one by less, even one armed while the previous
\* answer was on its way.  (A failed call does not set _last_updated, so the
\* one after it may follow at once.)
PollsSpaced ==
    [][(\E u \in Updaters : Fetch(u) \/ GetJobsRaises(u))
          => updated \in {Never, Interval}]_vars

\* The assertion of request_job_info_update: 'Expected pending job info future,
\* found in done state.'
FutureIsPending ==
    \A j \in Jobs : waiter[j] # "asserted"

\* Every request is answered, refused or withdrawn.
Answered ==
    \A j \in Jobs : waiter[j] = "waiting" ~> waiter[j] # "waiting"
=============================================================================
