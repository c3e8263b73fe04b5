---------------------- MODULE TransportQueue_proofs -----------------------
(***************************************************************************)
(* Proofs about TransportQueue, for any sets of authinfos and requests and *)
(* any finite set of clients.                                              *)
(***************************************************************************)
EXTENDS TransportQueue, FiniteSetTheorems, TLAPS

\* A client has a request exactly while it is inside the context.
ReqOfClient == \A c \in Clients : req[c] = NoRequest <=> pc[c] = "idle"

\* The table files a request under the authinfo it was created for, and never
\* keeps one whose future holds an exception.
TableSound == \A a \in AuthInfos :
  table[a] # NoRequest => auth[table[a]] = a /\ future[table[a]] # "exception"

\* A request that clients hold is in the table unless opening it failed.
HeldInTable == \A c \in Clients :
  req[c] # NoRequest /\ future[req[c]] # "exception" => table[auth[req[c]]] = req[c]

\* A transport is open only for a resolved future, an armed timer belongs to a
\* pending one (in use if it is in the table), and a client that runs its body
\* has seen the result.
FutureSound ==
  /\ \A r \in Requests : transport[r] = "open" => future[r] = "result" /\ count[r] > 0
  /\ \A r \in Requests : timer[r] => future[r] = "pending"
  /\ \A a \in AuthInfos : table[a] # NoRequest /\ timer[table[a]] => count[table[a]] > 0
  /\ \A c \in Clients : pc[c] = "using" => future[req[c]] = "result"

\* Where close() does not raise, a resolved request of the table is in use and
\* a resolved request in use has an open transport.
CloseSound ==
  /\ \A a \in AuthInfos :
       "close" \notin Faults[a] /\ table[a] # NoRequest /\ future[table[a]] = "result"
         => count[table[a]] > 0
  /\ \A r \in Requests :
       "close" \notin Faults[auth[r]] /\ future[r] = "result" /\ count[r] > 0
         => transport[r] = "open"

\* Where get_transport() does not raise, a pending request of the table has
\* its timer armed.
TimerSound ==
  \A a \in AuthInfos :
    "get_transport" \notin Faults[a] /\ table[a] # NoRequest /\ future[table[a]] = "pending"
      => timer[table[a]]

IInv == /\ TypeOK /\ CountExact /\ ReqOfClient /\ TableSound /\ HeldInTable
        /\ FutureSound /\ CloseSound /\ TimerSound

-----------------------------------------------------------------------------
\* Held sets are finite, and empty exactly when their count is zero.
LEMMA HeldFinite ==
  ASSUME NEW r
  PROVE  /\ IsFiniteSet(Held(r))
         /\ Cardinality(Held(r)) \in Nat
         /\ Cardinality(Held(r)) = 0 <=> Held(r) = {}
<1>1. IsFiniteSet(Held(r))
  BY FS_Subset, RequestsAssumption DEF Held
<1> QED  BY <1>1, FS_CardinalityType, FS_EmptySet

\* Entering the context adds one to the number of clients of that request only.
LEMMA HeldEnter ==
  ASSUME TypeOK, ReqOfClient, NEW c \in Clients, NEW r \in Requests, pc[c] = "idle",
         req' = [req EXCEPT ![c] = r]
  PROVE  \A s \in Requests :
           Cardinality(Held(s)') = IF s = r THEN Cardinality(Held(s)) + 1
                                            ELSE Cardinality(Held(s))
<1> SUFFICES ASSUME NEW s \in Requests
             PROVE  Cardinality(Held(s)') = IF s = r THEN Cardinality(Held(s)) + 1
                                                     ELSE Cardinality(Held(s))
  OBVIOUS
<1>0. req[c] = NoRequest /\ NoRequest \notin Requests
  BY RequestsAssumption DEF ReqOfClient
<1>1. CASE s = r
  <2>1. Held(s)' = Held(s) \cup {c} /\ c \notin Held(s)
    BY <1>0, <1>1 DEF Held, TypeOK
  <2> QED  BY <2>1, <1>1, HeldFinite, FS_AddElement
<1>2. CASE s # r
  <2>1. Held(s)' = Held(s)
    BY <1>0, <1>2 DEF Held, TypeOK
  <2> QED  BY <2>1, <1>2
<1> QED  BY <1>1, <1>2

\* Leaving the context takes one from the number of clients of that request only.
LEMMA HeldLeave ==
  ASSUME TypeOK, ReqOfClient, NEW c \in Clients, pc[c] # "idle",
         req' = [req EXCEPT ![c] = NoRequest]
  PROVE  /\ req[c] \in Requests /\ c \in Held(req[c])
         /\ \A s \in Requests :
              Cardinality(Held(s)') = IF s = req[c] THEN Cardinality(Held(s)) - 1
                                                    ELSE Cardinality(Held(s))
<1>0. req[c] \in Requests /\ NoRequest \notin Requests /\ c \in Held(req[c])
  BY RequestsAssumption DEF ReqOfClient, TypeOK, Held
<1>1. ASSUME NEW s \in Requests
      PROVE  Cardinality(Held(s)') = IF s = req[c] THEN Cardinality(Held(s)) - 1
                                                   ELSE Cardinality(Held(s))
  <2>1. CASE s = req[c]
    <3>1. Held(s)' = Held(s) \ {c} /\ c \in Held(s)
      BY <1>0, <2>1 DEF Held, TypeOK
    <3> QED  BY <3>1, <2>1, HeldFinite, FS_RemoveElement
  <2>2. CASE s # req[c]
    <3>1. Held(s)' = Held(s)
      BY <1>0, <2>2 DEF Held, TypeOK
    <3> QED  BY <3>1, <2>2
  <2> QED  BY <2>1, <2>2
<1> QED  BY <1>0, <1>1

-----------------------------------------------------------------------------
\* A step that leaves the clients' requests alone leaves the held sets alone.
LEMMA HeldSame ==
  ASSUME UNCHANGED req
  PROVE  \A r \in Requests : Held(r)' = Held(r)
  BY DEF Held

LEMMA InitIInv == Init => IInv
<1> SUFFICES ASSUME Init PROVE IInv
  OBVIOUS
<1> USE RequestsAssumption DEF Init
<1>1. TypeOK
  BY DEF TypeOK
<1>2. CountExact
  <2>1. \A r \in Requests : Held(r) = {}
    BY DEF Held
  <2> QED  BY <2>1, FS_EmptySet DEF CountExact
<1> QED
  BY <1>1, <1>2 DEF IInv, ReqOfClient, TableSound, HeldInTable, FutureSound,
                    CloseSound, TimerSound

LEMMA RequestNewIInv ==
  ASSUME IInv, NEW c \in Clients, NEW a \in AuthInfos, RequestNew(c, a)
  PROVE  IInv'
<1>0. PICK r \in Requests : NewRequest(a, r, TRUE) /\ Enter(c, r, TRUE)
  BY DEF RequestNew
<1> USE <1>0, RequestsAssumption DEF NewRequest, Enter, Free, IInv
<1>1. TypeOK'
  BY DEF TypeOK
<1>2. CountExact'
  BY HeldEnter, HeldFinite DEF CountExact, TypeOK
<1>3. count'[r] = 1 /\ \A s \in Requests \ {r} : count'[s] = count[s]
  BY HeldFinite DEF CountExact, TypeOK
<1>4. \A d \in Clients : req[d] # r /\ (d # c => req'[d] = req[d])
  BY DEF Held, TypeOK
<1>5. ReqOfClient' /\ TableSound' /\ HeldInTable'
  BY <1>4 DEF TypeOK, ReqOfClient, TableSound, HeldInTable
<1>6. FutureSound'
  BY <1>3, <1>4 DEF TypeOK, FutureSound, ReqOfClient
<1>7. CloseSound' /\ TimerSound'
  BY <1>3, <1>4 DEF TypeOK, CloseSound, TimerSound
<1> QED  BY <1>1, <1>2, <1>5, <1>6, <1>7

LEMMA RequestSharedIInv ==
  ASSUME IInv, NEW c \in Clients, NEW a \in AuthInfos, RequestShared(c, a)
  PROVE  IInv'
<1> DEFINE r == table[a]
<1> USE RequestsAssumption DEF RequestShared, Enter, IInv
<1>0. r \in Requests /\ auth[r] = a /\ future[r] # "exception"
  BY DEF TypeOK, TableSound
<1>1. TypeOK'
  BY <1>0 DEF TypeOK
<1>2. CountExact'
  <2>1. \A s \in Requests :
          Cardinality(Held(s)') = IF s = r THEN Cardinality(Held(s)) + 1
                                           ELSE Cardinality(Held(s))
    BY <1>0, HeldEnter
  <2>2. \A s \in Requests : count'[s] = IF s = r THEN count[s] + 1 ELSE count[s]
    BY <1>0 DEF TypeOK
  <2> QED  BY <2>1, <2>2 DEF CountExact
<1>3. count'[r] > 0 /\ \A s \in Requests : count[s] > 0 => count'[s] > 0
  BY <1>0 DEF TypeOK
<1>4. \A s \in Requests \ {r} : count'[s] = count[s]
  BY <1>0 DEF TypeOK
<1>5. ReqOfClient' /\ TableSound' /\ HeldInTable'
  BY <1>0 DEF TypeOK, ReqOfClient, TableSound, HeldInTable
<1>6. FutureSound'
  BY <1>0, <1>3 DEF TypeOK, FutureSound, ReqOfClient
<1>7. CloseSound' /\ TimerSound'
  BY <1>0, <1>3, <1>4 DEF TypeOK, CloseSound, TimerSound
<1> QED  BY <1>1, <1>2, <1>5, <1>6, <1>7

LEMMA RequestRaisesIInv ==
  ASSUME IInv, NEW c \in Clients, NEW a \in AuthInfos, RequestRaises(c, a)
  PROVE  IInv'
<1>0. PICK r \in Requests : NewRequest(a, r, FALSE) /\ UNCHANGED <<count, pc, req, opener>>
  BY DEF RequestRaises
<1> USE <1>0, RequestsAssumption DEF NewRequest, Free, IInv
<1>1. TypeOK'
  BY DEF TypeOK
<1>2. CountExact'
  BY HeldSame DEF CountExact
<1>3. count[r] = 0
  BY HeldFinite DEF CountExact
<1>4. \A d \in Clients : req[d] # r
  BY DEF Held
<1>5. ReqOfClient' /\ TableSound' /\ HeldInTable'
  BY <1>4 DEF TypeOK, ReqOfClient, TableSound, HeldInTable
<1>6. FutureSound'
  BY <1>3, <1>4 DEF TypeOK, FutureSound, ReqOfClient
<1>7. CloseSound' /\ TimerSound'
  BY <1>3, <1>4 DEF TypeOK, CloseSound, TimerSound, RequestRaises
<1> QED  BY <1>1, <1>2, <1>5, <1>6, <1>7

LEMMA DoOpenIInv ==
  ASSUME IInv, NEW r \in Requests, DoOpenIdle(r) \/ DoOpen(r) \/ DoOpenRaises(r)
  PROVE  IInv'
<1> USE RequestsAssumption DEF IInv
<1>0. UNCHANGED <<auth, count, pc, req, opener>> /\ timer[r]
  BY DEF DoOpenIdle, DoOpen, DoOpenRaises
<1>1. CountExact' /\ ReqOfClient'
  BY <1>0, HeldSame DEF CountExact, ReqOfClient
<1>2. future[r] = "pending" /\ transport[r] # "open"
  BY <1>0 DEF FutureSound, TypeOK
<1>3. CASE DoOpenIdle(r)
  <2>1. \A a \in AuthInfos : table[a] # r
    BY <1>0, <1>3 DEF DoOpenIdle, FutureSound, TypeOK
  <2> QED  BY <1>0, <1>1, <2>1, <1>2, <1>3 DEF DoOpenIdle, TypeOK, TableSound,
                HeldInTable, FutureSound, CloseSound, TimerSound
<1>4. CASE DoOpen(r)
  <2> USE <1>4 DEF DoOpen
  <2>1. TypeOK' /\ TableSound' /\ HeldInTable'
    BY <1>2 DEF TypeOK, TableSound, HeldInTable
  <2>2. FutureSound' /\ CloseSound' /\ TimerSound'
    BY <1>2 DEF TypeOK, FutureSound, CloseSound, TimerSound, ReqOfClient
  <2> QED  BY <1>1, <2>1, <2>2
<1>5. CASE DoOpenRaises(r)
  <2> USE <1>5 DEF DoOpenRaises
  <2>1. TypeOK' /\ TableSound'
    BY <1>2 DEF TypeOK, TableSound
  <2>0. table[auth[r]] = r
    <3>1. PICK d \in Clients : req[d] = r
      <4>1. Held(r) # {}
        BY HeldFinite DEF CountExact
      <4> QED  BY <4>1 DEF Held
    <3> QED  BY <3>1, <1>2 DEF HeldInTable
  <2>2. HeldInTable'
    BY <1>2, <2>0 DEF TypeOK, HeldInTable
  <2>3. FutureSound' /\ CloseSound' /\ TimerSound'
    BY <1>2 DEF TypeOK, FutureSound, CloseSound, TimerSound, ReqOfClient
  <2> QED  BY <1>1, <2>1, <2>2, <2>3
<1> QED  BY <1>3, <1>4, <1>5

LEMMA ResumeIInv ==
  ASSUME IInv, NEW c \in Clients, Resume(c)
  PROVE  IInv'
<1> USE DEF IInv, Resume
<1>1. CountExact' /\ TypeOK' /\ ReqOfClient'
  BY HeldSame DEF CountExact, TypeOK, ReqOfClient
<1> QED  BY <1>1 DEF TypeOK, TableSound, HeldInTable, FutureSound, CloseSound, TimerSound

LEMMA FinallyIInv ==
  ASSUME IInv, NEW c \in Clients, pc[c] # "idle", Finally(c)
  PROVE  IInv'
<1> USE RequestsAssumption DEF IInv
<1> PICK r \in Requests : r = req[c]
  BY DEF TypeOK, ReqOfClient
<1>0. /\ r \in Requests /\ c \in Held(r)
      /\ \A s \in Requests :
           Cardinality(Held(s)') = IF s = r THEN Cardinality(Held(s)) - 1
                                            ELSE Cardinality(Held(s))
      /\ Cardinality(Held(r)) > 0
  <2>1. req' = [req EXCEPT ![c] = NoRequest]
    BY DEF Finally
  <2>2. /\ r \in Requests /\ c \in Held(r)
        /\ \A s \in Requests :
             Cardinality(Held(s)') = IF s = r THEN Cardinality(Held(s)) - 1
                                              ELSE Cardinality(Held(s))
    BY <2>1, HeldLeave
  <2>3. Held(r) # {} /\ Cardinality(Held(r)) \in Nat
    BY <2>2, HeldFinite
  <2> QED  BY <2>2, <2>3, HeldFinite
<1>1. /\ count[r] > 0 /\ count' = [count EXCEPT ![r] = @ - 1]
      /\ req' = [req EXCEPT ![c] = NoRequest]
      /\ pc' = [pc EXCEPT ![c] = "idle"]
      /\ opener' = [opener EXCEPT ![c] = FALSE]
      /\ UNCHANGED <<auth, future>>
  BY <1>0 DEF Finally, CountExact
<1>2. CountExact'
  BY <1>0, <1>1 DEF CountExact, TypeOK
<1>3. ReqOfClient'
  BY <1>0, <1>1 DEF ReqOfClient, TypeOK
<1>4. CASE ~Last(c)
  <2>1. UNCHANGED <<table, timer, transport>>
    BY <1>4 DEF Finally
  <2>2. \A s \in Requests : count[s] > 0 => count'[s] > 0
    BY <1>0, <1>1, <1>4 DEF Last, TypeOK
  <2>3. \A s \in Requests : count'[s] > 0 => count[s] > 0
    BY <1>0, <1>1 DEF TypeOK
  <2>4. TypeOK' /\ TableSound' /\ HeldInTable'
    BY <1>0, <1>1, <2>1 DEF TypeOK, TableSound, HeldInTable
  <2>5. FutureSound' /\ CloseSound' /\ TimerSound'
    BY <1>0, <1>1, <2>1, <2>2, <2>3 DEF TypeOK, FutureSound, CloseSound, TimerSound, ReqOfClient
  <2> QED  BY <1>2, <1>3, <2>4, <2>5
<1>5. CASE Last(c)
  <2>1. count[r] = 1 /\ count'[r] = 0 /\ \A s \in Requests \ {r} : count'[s] = count[s]
    BY <1>0, <1>1, <1>5 DEF Last, TypeOK
  <2>2. \A d \in Clients : req'[d] # r
    <3>1. Cardinality(Held(r)') = 0
      BY <1>2, <2>1, <1>0 DEF CountExact
    <3>2. Held(r)' = {}
      <4>1. IsFiniteSet(Held(r)')
        BY FS_Subset, RequestsAssumption DEF Held
      <4> QED  BY <3>1, <4>1, FS_EmptySet
    <3> QED  BY <3>2 DEF Held
  <2>3. CASE future[r] = "exception"
    <3>1. UNCHANGED <<table, timer, transport>>
      BY <1>5, <2>3 DEF Finally
    <3>2. TypeOK' /\ TableSound' /\ HeldInTable'
      BY <1>0, <1>1, <3>1 DEF TypeOK, TableSound, HeldInTable
    <3>3. FutureSound' /\ CloseSound' /\ TimerSound'
      BY <1>0, <1>1, <2>1, <2>2, <2>3, <3>1
      DEF TypeOK, FutureSound, CloseSound, TimerSound, ReqOfClient
    <3> QED  BY <1>2, <1>3, <3>2, <3>3
  <2>4. CASE future[r] # "exception"
    <3>0. table[auth[r]] = r /\ auth[r] \in AuthInfos
      BY <1>0, <2>4 DEF HeldInTable, TypeOK
    <3>1. \A s \in Requests \ {r} : timer'[s] = timer[s] /\ transport'[s] = transport[s]
      BY <1>0, <1>5, <2>4 DEF Finally, TypeOK
    <3>2. \/ table' = [table EXCEPT ![auth[r]] = NoRequest]
          \/ "close" \in Faults[auth[r]] /\ future[r] = "result" /\ UNCHANGED table
      BY <1>0, <1>5, <2>4 DEF Finally
    <3>3. TypeOK'
      <4>1. count' \in [Requests -> Nat]
        BY <1>0, <1>1, <2>1 DEF TypeOK
      <4>2. timer' \in [Requests -> BOOLEAN] /\ transport' \in [Requests -> {"closed", "open"}]
        <5>1. CASE future[r] = "pending"
          BY <5>1, <1>0, <1>5 DEF Finally, TypeOK
        <5>2. CASE future[r] = "result"
          BY <5>2, <1>0, <1>5 DEF Finally, TypeOK
        <5> QED  BY <5>1, <5>2, <2>4, <1>0 DEF TypeOK
      <4> QED  BY <4>1, <4>2, <1>0, <1>1, <3>0, <3>2 DEF TypeOK
    <3>4. TableSound' /\ HeldInTable'
      BY <1>0, <1>1, <2>2, <3>0, <3>2 DEF TypeOK, TableSound, HeldInTable
    <3>5. transport'[r] = "closed" /\ (timer'[r] => timer[r])
      <4>1. CASE future[r] = "pending"
        BY <4>1, <1>0, <1>5 DEF Finally, TypeOK, FutureSound
      <4>2. CASE future[r] = "result"
        BY <4>2, <1>0, <1>5 DEF Finally, TypeOK, FutureSound
      <4> QED  BY <4>1, <4>2, <2>4, <1>0 DEF TypeOK
    <3>6. FutureSound'
      BY <1>0, <1>1, <2>1, <2>2, <3>0, <3>1, <3>2, <3>5
      DEF TypeOK, FutureSound, ReqOfClient, TableSound
    <3>7. CloseSound' /\ TimerSound'
      BY <1>0, <1>1, <2>1, <2>2, <2>4, <3>0, <3>1, <3>2, <3>5
      DEF TypeOK, CloseSound, TimerSound, TableSound
    <3> QED  BY <1>2, <1>3, <3>3, <3>4, <3>6, <3>7
  <2> QED  BY <2>3, <2>4
<1> QED  BY <1>4, <1>5

-----------------------------------------------------------------------------
\* The strengthened invariant of request_transport holds in every state.
THEOREM Invariance == Spec => []IInv
<1>1. IInv /\ [Next]_vars => IInv'
  <2> SUFFICES ASSUME IInv, [Next]_vars PROVE IInv'
    OBVIOUS
  <2>1. CASE UNCHANGED vars
    BY <2>1 DEF vars, IInv, TypeOK, CountExact, Held, ReqOfClient, TableSound,
                HeldInTable, FutureSound, CloseSound, TimerSound
  <2>2. ASSUME NEW c \in Clients, NEW a \in AuthInfos,
               RequestNew(c, a) \/ RequestShared(c, a) \/ RequestRaises(c, a)
        PROVE  IInv'
    BY <2>2, RequestNewIInv, RequestSharedIInv, RequestRaisesIInv
  <2>3. ASSUME NEW r \in Requests, DoOpenIdle(r) \/ DoOpen(r) \/ DoOpenRaises(r)
        PROVE  IInv'
    BY <2>3, DoOpenIInv
  <2>4. ASSUME NEW c \in Clients,
               Resume(c) \/ Leave(c) \/ LeaveRaising(c) \/ Interrupt(c)
        PROVE  IInv'
    <3>1. CASE Resume(c)
      BY <3>1, ResumeIInv
    <3>2. CASE Leave(c) \/ LeaveRaising(c) \/ Interrupt(c)
      BY <3>2, FinallyIInv DEF Leave, LeaveRaising, Interrupt
    <3> QED  BY <2>4, <3>1, <3>2
  <2> QED  BY <2>1, <2>2, <2>3, <2>4 DEF Next
<1> QED  BY InitIInv, <1>1, PTL DEF Spec

\* Whatever the external calls do, the state of the queue keeps its types.
THEOREM TypeCorrect == Spec => []TypeOK
  BY Invariance, PTL DEF IInv

\* TransportRequest.count is the number of clients in the context, and no
\* transport outlives its clients or leaves the table while it is open.
THEOREM NoLeak == Spec => [](CountExact /\ NoLeakedTransport)
<1>1. IInv => CountExact /\ NoLeakedTransport
  <2> SUFFICES ASSUME IInv, NEW r \in Requests, transport[r] = "open"
               PROVE  Held(r) # {} /\ table[auth[r]] = r
    BY DEF IInv, NoLeakedTransport
  <2>1. Held(r) # {}
    BY HeldFinite DEF IInv, FutureSound, CountExact
  <2>2. PICK c \in Clients : req[c] = r
    BY <2>1 DEF Held
  <2> QED  BY <2>1, <2>2, RequestsAssumption DEF IInv, FutureSound, HeldInTable
<1> QED  BY <1>1, Invariance, PTL

\* Where close() does not raise, a client whose body runs has an open
\* transport: no other client closes it and none is handed a closed one.
THEOREM OpenWhileUsed == Spec => []UsingOpen
<1>1. IInv => UsingOpen
  <2> SUFFICES ASSUME IInv, NEW c \in Clients, pc[c] = "using", Spared(c, "close")
               PROVE  transport[req[c]] = "open"
    BY DEF UsingOpen
  <2>1. req[c] \in Requests /\ c \in Held(req[c])
    BY DEF IInv, TypeOK, ReqOfClient, Held
  <2>2. count[req[c]] > 0
    BY <2>1, HeldFinite DEF IInv, CountExact
  <2> QED  BY <2>1, <2>2 DEF IInv, FutureSound, CloseSound, Spared
<1> QED  BY <1>1, Invariance, PTL

\* Where get_transport() does not raise, a client that waits for a pending
\* future has a timer that will resolve it.
THEOREM WakeupArmed == Spec => []NoLostWakeup
<1>1. IInv => NoLostWakeup
  <2> SUFFICES ASSUME IInv, NEW c \in Clients,
                      pc[c] = "waiting", future[req[c]] = "pending", Spared(c, "get_transport")
               PROVE  timer[req[c]]
    BY DEF NoLostWakeup
  <2>1. req[c] \in Requests
    BY DEF IInv, TypeOK, ReqOfClient
  <2>2. table[auth[req[c]]] = req[c] /\ auth[req[c]] \in AuthInfos
    BY <2>1, RequestsAssumption DEF IInv, HeldInTable, TypeOK
  <2> QED  BY <2>1, <2>2, RequestsAssumption DEF IInv, TimerSound, Spared
<1> QED  BY <1>1, Invariance, PTL
=============================================================================
