--------------------------- MODULE JobsList_proofs ---------------------------
(***************************************************************************)
(* Proofs about JobsList, for any set of jobs, any interval, any faults.   *)
(***************************************************************************)
EXTENDS JobsList, TLAPS

IInv == TypeOK /\ HandleIsUpdater /\ WaiterIsServed /\ GoneIsGone

\* A new JobsList has no request and no coroutine.
LEMMA InitIInv == Init => IInv
  BY JobsListAssumption
  DEF Init, IInv, TypeOK, HandleIsUpdater, WaiterIsServed, GoneIsGone, Time, Never

\* The delay to the next poll is a time the clocks can hold.
LEMMA DelayType == TypeOK => NextUpdateDelay \in Time
  BY JobsListAssumption DEF TypeOK, NextUpdateDelay, Time, Never

\* request_job_info_update and leaving its context, before, during and after an
\* update.
LEMMA AskingKeeps ==
    ASSUME IInv, NEW j \in Jobs, Asking(j)
    PROVE  IInv'
<1> USE DEF IInv
<1>1. CASE Request(j)
  <2>1. /\ requests' \in [Jobs -> {"none", "pending", "done"}]
        /\ waiter' \in [Jobs -> {"idle", "waiting", "answered", "raised", "asserted"}]
    BY <1>1 DEF Request, TypeOK
  <2>2. CASE handle # NoHandle
    <3>1. UNCHANGED <<handle, updater, left>>
      BY <1>1, <2>2 DEF Request, EnsureUpdating
    <3>2. handle \in Updaters /\ updater[handle] # "none"
      BY <2>2 DEF TypeOK, HandleIsUpdater
    <3> QED
      BY <1>1, <2>1, <3>1, <3>2
      DEF Request, TypeOK, HandleIsUpdater, WaiterIsServed, GoneIsGone
  <2>3. CASE handle = NoHandle
    <3>1. PICK u \in Updaters :
             /\ handle' = u
             /\ updater' = [updater EXCEPT ![u] = "timer"]
             /\ left' = [left EXCEPT ![u] = NextUpdateDelay]
      BY <1>1, <2>3 DEF Request, EnsureUpdating
    <3>2. TypeOK'
      BY <1>1, <2>1, <3>1, DelayType DEF Request, TypeOK
    <3>3. HandleIsUpdater'
      BY <2>3, <3>1, JobsListAssumption DEF TypeOK, HandleIsUpdater
    <3>4. updater'[u] # "none"
      BY <3>1 DEF TypeOK
    <3>5. WaiterIsServed' /\ GoneIsGone'
      BY <1>1, <3>4 DEF Request, TypeOK, WaiterIsServed, GoneIsGone
    <3> QED
      BY <3>2, <3>3, <3>5
  <2> QED
    BY <2>2, <2>3
<1>2. CASE RequestAsserts(j)
  BY <1>2 DEF RequestAsserts, state, TypeOK, HandleIsUpdater, WaiterIsServed, GoneIsGone
<1>3. CASE Proceed(j)
  BY <1>3 DEF Proceed, state, TypeOK, HandleIsUpdater, WaiterIsServed, GoneIsGone
<1>4. CASE Leave(j)
  <2>1. requests[j] = "pending"
    BY <1>4 DEF Leave, WaiterIsServed
  <2> QED
    BY <1>4, <2>1 DEF Leave, TypeOK, HandleIsUpdater, WaiterIsServed, GoneIsGone
<1> QED
  BY <1>1, <1>2, <1>3, <1>4 DEF Asking

\* When the coroutine ends, the handle it leaves behind is None, whichever way
\* it ends.
LEMMA EndedKeeps ==
    ASSUME IInv, NEW u \in Updaters, updater[u] # "none", Ended(u) \/ EndedRaising(u)
    PROVE  /\ requests' = [j \in Jobs |-> "none"]
           /\ updater' \in [Updaters -> {"none", "timer", "fetching"}]
           /\ handle' = NoHandle /\ left' = left
           /\ HandleIsUpdater'
  BY JobsListAssumption DEF IInv, TypeOK, HandleIsUpdater, Ended, EndedRaising

\* The updating() coroutine, on each of its ways.
LEMMA UpdatingKeeps ==
    ASSUME IInv, NEW u \in Updaters, Updating(u)
    PROVE  IInv'
<1> USE DEF IInv
<1>1. CASE RunIdle(u)
  <2>1. /\ requests' = [j \in Jobs |-> "none"]
        /\ updater' \in [Updaters -> {"none", "timer", "fetching"}]
        /\ handle' = NoHandle /\ left' = left
        /\ HandleIsUpdater'
    BY <1>1, EndedKeeps DEF RunIdle
  <2> QED
    BY <1>1, <2>1 DEF RunIdle, Outstanding, TypeOK, WaiterIsServed, GoneIsGone
<1>2. CASE Run(u)
  BY <1>2 DEF Run, TypeOK, HandleIsUpdater, WaiterIsServed, GoneIsGone
<1>3. CASE Fetch(u)
  <2>1. /\ requests' = [j \in Jobs |-> "none"]
        /\ updater' \in [Updaters -> {"none", "timer", "fetching"}]
        /\ handle' = NoHandle /\ left' = left
        /\ HandleIsUpdater'
    BY <1>3, EndedKeeps DEF Fetch
  <2>2. waiter' \in [Jobs -> {"idle", "waiting", "answered", "raised", "asserted"}]
    BY <1>3 DEF Fetch, TypeOK
  <2>3. info' \in [Jobs -> {"unknown", "found", "gone"}]
    BY <1>3 DEF Fetch, TypeOK
  <2>4. TypeOK'
    BY <1>3, <2>1, <2>2, <2>3, JobsListAssumption DEF Fetch, TypeOK, Time
  <2>5. WaiterIsServed'
    BY <1>3, <2>1 DEF Fetch, TypeOK, WaiterIsServed
  <2>6. GoneIsGone'
    BY <1>3 DEF Fetch, TypeOK, GoneIsGone, Response, Queried
  <2> QED
    BY <2>1, <2>4, <2>5, <2>6
<1>4. CASE OpenRaises(u) \/ GetJobsRaises(u)
  <2>1. Raises(u)
    BY <1>4 DEF OpenRaises, GetJobsRaises
  <2>2. /\ requests' = [j \in Jobs |-> "none"]
        /\ updater' \in [Updaters -> {"none", "timer", "fetching"}]
        /\ handle' = NoHandle /\ left' = left
        /\ HandleIsUpdater'
    BY <2>1, EndedKeeps DEF Raises
  <2>3. waiter' \in [Jobs -> {"idle", "waiting", "answered", "raised", "asserted"}]
    BY <2>1 DEF Raises, TypeOK
  <2>4. TypeOK'
    BY <2>1, <2>2, <2>3 DEF Raises, TypeOK
  <2>5. WaiterIsServed' /\ GoneIsGone'
    BY <2>1, <2>2 DEF Raises, TypeOK, WaiterIsServed, GoneIsGone
  <2> QED
    BY <2>2, <2>4, <2>5
<1> QED
  BY <1>1, <1>2, <1>3, <1>4 DEF Updating

\* Time passing changes clocks only.
LEMMA TickKeeps == IInv /\ Tick => IInv'
<1> SUFFICES ASSUME IInv, Tick PROVE IInv'
  OBVIOUS
<1> USE DEF IInv
<1>1. left' \in [Updaters -> Time]
  BY JobsListAssumption DEF Tick, TypeOK, Time
<1>2. updated' \in Time \cup {Never}
  BY JobsListAssumption DEF Tick, TypeOK, Time, Never, Later
<1> QED
  BY <1>1, <1>2 DEF Tick, TypeOK, HandleIsUpdater, WaiterIsServed, GoneIsGone

\* Every step keeps the invariant.
LEMMA NextIInv == IInv /\ [Next]_vars => IInv'
<1> SUFFICES ASSUME IInv, [Next]_vars PROVE IInv'
  OBVIOUS
<1>1. CASE \E j \in Jobs : JobEnds(j)
  BY <1>1 DEF IInv, JobEnds, state, TypeOK, HandleIsUpdater, WaiterIsServed, GoneIsGone
<1>2. CASE UNCHANGED vars
  BY <1>2 DEF IInv, vars, state, TypeOK, HandleIsUpdater, WaiterIsServed, GoneIsGone
<1> QED
  BY <1>1, <1>2, AskingKeeps, UpdatingKeeps, TickKeeps DEF Next

\* The inductive invariant of the jobs list.
THEOREM Invariance == Spec => []IInv
  BY InitIInv, NextIInv, PTL DEF Spec

\* Type correctness.
THEOREM TypeCorrect == Spec => []TypeOK
  BY Invariance, PTL DEF IInv

\* At most one updating() coroutine lives, the handle knows it, and whoever
\* waits has one coming, whatever raises and whoever leaves.
THEOREM Served == Spec => [](HandleIsUpdater /\ WaiterIsServed)
  BY Invariance, PTL DEF IInv

\* None is only ever handed out for a job the scheduler has dropped.
THEOREM NoneIsHonest == Spec => []GoneIsGone
  BY Invariance, PTL DEF IInv
-----------------------------------------------------------------------------
\* The clocks: no timer fires before the interval since _last_updated is over.
Clocks ==
    \A u \in Updaters :
        /\ updater[u] = "timer" /\ updated # Never => left[u] >= Interval - updated
        /\ updater[u] = "fetching" /\ updated # Never => updated = Interval

\* Clocks is kept by every step, the failing ones included.
LEMMA ClocksKept ==
    ASSUME IInv, Clocks, [Next]_vars
    PROVE  Clocks'
<1> USE DEF IInv
<1>1. CASE \E j \in Jobs : Asking(j)
  <2> PICK j \in Jobs : Asking(j)
    BY <1>1
  <2>1. CASE Request(j)
    <3>1. CASE handle # NoHandle
      BY <2>1, <3>1 DEF Request, EnsureUpdating, Clocks
    <3>2. CASE handle = NoHandle
      <4>1. PICK u \in Updaters :
               /\ updater' = [updater EXCEPT ![u] = "timer"]
               /\ left' = [left EXCEPT ![u] = NextUpdateDelay]
        BY <2>1, <3>2 DEF Request, EnsureUpdating
      <4>2. updated' = updated
        BY <2>1 DEF Request
      <4>3. \A w \in Updaters :
               /\ w # u => updater'[w] = updater[w] /\ left'[w] = left[w]
               /\ w = u => updater'[w] = "timer" /\ left'[w] = NextUpdateDelay
        BY <4>1 DEF TypeOK
      <4>4. updated # Never => NextUpdateDelay >= Interval - updated
        BY JobsListAssumption DEF NextUpdateDelay, TypeOK, Time, Never
      <4> QED
        BY <4>2, <4>3, <4>4 DEF Clocks
    <3> QED
      BY <3>1, <3>2
  <2>2. CASE RequestAsserts(j) \/ Proceed(j) \/ Leave(j)
    BY <2>2 DEF RequestAsserts, Proceed, Leave, state, Clocks
  <2> QED
    BY <2>1, <2>2 DEF Asking
<1>2. CASE \E u \in Updaters : Updating(u)
  <2> PICK u \in Updaters : Updating(u)
    BY <1>2
  <2>1. CASE RunIdle(u)
    BY <2>1 DEF RunIdle, Ended, TypeOK, Clocks
  <2>2. CASE Run(u)
    <3>1. updated # Never => updated = Interval
      BY <2>2, JobsListAssumption DEF Run, Clocks, TypeOK, Time, Never
    <3> QED
      BY <2>2, <3>1 DEF Run, TypeOK, Clocks
  <2>3. CASE Fetch(u)
    <3>1. \A w \in Updaters : updater'[w] = "none"
      BY <2>3 DEF Fetch, Ended, TypeOK, HandleIsUpdater
    <3> QED
      BY <2>3, <3>1 DEF Fetch, Clocks, Never
  <2>4. CASE OpenRaises(u) \/ GetJobsRaises(u)
    BY <2>4 DEF OpenRaises, GetJobsRaises, Raises, EndedRaising, TypeOK, Clocks
  <2> QED
    BY <2>1, <2>2, <2>3, <2>4 DEF Updating
<1>3. CASE Tick
  <2>1. updated' = Never <=> updated = Never
    BY <1>3, JobsListAssumption DEF Tick, Clocks, TypeOK, Time, Never, Later
  <2>2. ASSUME NEW u \in Updaters, updated # Never, updater[u] = "timer"
        PROVE  left'[u] >= Interval - updated'
    <3>1. left[u] \in Time /\ updated \in Time /\ left[u] >= Interval - updated
      BY <2>2 DEF Clocks, TypeOK
    <3>2. left'[u] = IF left[u] > 0 THEN left[u] - 1 ELSE 0
      BY <1>3 DEF Tick
    <3>3. updated' = Later(updated)
      BY <1>3, <2>2 DEF Tick
    <3> QED
      BY <3>1, <3>2, <3>3, JobsListAssumption DEF Later, Time
  <2>3. ASSUME NEW u \in Updaters, updated # Never, updater[u] = "fetching"
        PROVE  updated' = Interval
    BY <1>3, <2>3, JobsListAssumption DEF Tick, Clocks, Later
  <2> QED
    BY <1>3, <2>1, <2>2, <2>3 DEF Tick, Clocks
<1>4. CASE (\E j \in Jobs : JobEnds(j)) \/ UNCHANGED vars
  BY <1>4 DEF JobEnds, vars, state, Clocks
<1> QED
  BY <1>1, <1>2, <1>3, <1>4 DEF Next

\* A call of the scheduler comes at least the minimum interval after the last
\* one that was answered, whatever fails and whoever asks in between.
THEOREM PollsAreSpaced == Spec => PollsSpaced
<1>1. Init => Clocks
  BY DEF Init, Clocks
<1>2. IInv /\ Clocks /\ [Next]_vars => Clocks'
  BY ClocksKept
<1>3. IInv /\ Clocks /\ [Next]_vars
        => [(\E u \in Updaters : Fetch(u) \/ GetJobsRaises(u))
              => updated \in {Never, Interval}]_vars
  BY DEF IInv, Clocks, Fetch, GetJobsRaises, Raises
<1> QED
  BY <1>1, <1>2, <1>3, Invariance, PTL DEF Spec, PollsSpaced
=============================================================================
