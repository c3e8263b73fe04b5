-------------------------- MODULE TransportQueue --------------------------
(***************************************************************************)
(* The transport queue of a runner (aiida.engine.transports): coroutines   *)
(* ask for a transport to a computer inside a context manager, the ones    *)
(* that ask for the same authinfo share one TransportRequest, and the      *)
(* transport is opened once by a timer callback and closed by the last     *)
(* coroutine to leave.  Everything runs on one event loop, so each action  *)
(* below is the code between two suspension points.                        *)
(***************************************************************************)
EXTENDS Naturals, FiniteSets

CONSTANTS
  AuthInfos,   \* primary keys of the authinfos
  Clients,     \* coroutines that use the queue
  Requests,    \* identities of TransportRequest objects (bound: live ones)
  NoRequest,   \* an absent entry
  Faults       \* the calls that may raise for the computer of each authinfo

ASSUME RequestsAssumption == /\ NoRequest \notin Requests
                             /\ IsFiniteSet(Clients)
                             /\ AuthInfos # {}
                             /\ Faults \in [AuthInfos -> SUBSET {"get_transport", "open", "close"}]

VARIABLES
  table,       \* _transport_requests: authinfo -> its TransportRequest, if any
  auth,        \* the authinfo that a request was created for
  future,      \* state of TransportRequest.future
  count,       \* TransportRequest.count
  timer,       \* do_open of this request is scheduled on the loop
  transport,   \* the transport object captured by do_open
  pc,          \* where each client is
  req,         \* the request a client entered with
  opener       \* the client created the request: it has the timer handle

vars == <<table, auth, future, count, timer, transport, pc, req, opener>>

Held(r) == {c \in Clients : req[c] = r}

Free(r) == /\ \A a \in AuthInfos : table[a] # r
           /\ Held(r) = {}
           /\ ~timer[r]

TypeOK ==
  /\ table \in [AuthInfos -> Requests \cup {NoRequest}]
  /\ auth \in [Requests -> AuthInfos]
  /\ future \in [Requests -> {"pending", "result", "exception"}]
  /\ count \in [Requests -> Nat]
  /\ timer \in [Requests -> BOOLEAN]
  /\ transport \in [Requests -> {"closed", "open"}]
  /\ pc \in [Clients -> {"idle", "waiting", "using"}]
  /\ req \in [Clients -> Requests \cup {NoRequest}]
  /\ opener \in [Clients -> BOOLEAN]

Init ==
  /\ table = [a \in AuthInfos |-> NoRequest]
  /\ auth = [r \in Requests |-> CHOOSE a \in AuthInfos : TRUE]
  /\ future = [r \in Requests |-> "pending"]
  /\ count = [r \in Requests |-> 0]
  /\ timer = [r \in Requests |-> FALSE]
  /\ transport = [r \in Requests |-> "closed"]
  /\ pc = [c \in Clients |-> "idle"]
  /\ req = [c \in Clients |-> NoRequest]
  /\ opener = [c \in Clients |-> FALSE]

-----------------------------------------------------------------------------
\* TransportRequest() entered in the table; its timer is armed only when
\* get_transport() returned.
NewRequest(a, r, armed) ==
  /\ table[a] = NoRequest
  /\ Free(r)
  /\ table' = [table EXCEPT ![a] = r]
  /\ auth' = [auth EXCEPT ![r] = a]
  /\ future' = [future EXCEPT ![r] = "pending"]
  /\ transport' = [transport EXCEPT ![r] = "closed"]
  /\ timer' = [timer EXCEPT ![r] = armed]

\* The try block: the client is counted and awaits the shared future.
EnterUncounted(c, r, isOpener) ==
  /\ pc[c] = "idle"
  /\ pc' = [pc EXCEPT ![c] = "waiting"]
  /\ req' = [req EXCEPT ![c] = r]
  /\ opener' = [opener EXCEPT ![c] = isOpener]
  /\ count' = [count EXCEPT ![r] = IF isOpener THEN 1 ELSE @]

Enter(c, r, isOpener) ==
  /\ pc[c] = "idle"
  /\ pc' = [pc EXCEPT ![c] = "waiting"]
  /\ req' = [req EXCEPT ![c] = r]
  /\ opener' = [opener EXCEPT ![c] = isOpener]
  /\ count' = [count EXCEPT ![r] = @ + 1]

\* with request_transport(authinfo): the first client of an authinfo.
RequestNew(c, a) == \E r \in Requests : NewRequest(a, r, TRUE) /\ Enter(c, r, TRUE)

\* ... a client that finds a request in the table, whatever its future says.
RequestShared(c, a) ==
  /\ table[a] # NoRequest
  /\ Enter(c, table[a], FALSE)
  /\ UNCHANGED <<table, auth, future, timer, transport>>

\* ... authinfo.get_transport() raises before the context is entered.
RequestRaises(c, a) == \E r \in Requests :
  /\ "get_transport" \in Faults[a]
  /\ pc[c] = "idle"
  /\ NewRequest(a, r, FALSE)
  /\ UNCHANGED <<count, pc, req, opener>>

\* The timer callback: opens the transport if a client is still interested.
DoOpenIdle(r) ==
  /\ timer[r] /\ count[r] = 0
  /\ timer' = [timer EXCEPT ![r] = FALSE]
  /\ UNCHANGED <<table, auth, future, count, transport, pc, req, opener>>

DoOpen(r) ==
  /\ timer[r] /\ count[r] > 0
  /\ timer' = [timer EXCEPT ![r] = FALSE]
  /\ future' = [future EXCEPT ![r] = "result"]
  /\ transport' = [transport EXCEPT ![r] = "open"]
  /\ UNCHANGED <<table, auth, count, pc, req, opener>>

\* transport.open() raises: the clients get the exception, the entry goes.
DoOpenRaises(r) ==
  /\ "open" \in Faults[auth[r]]
  /\ timer[r] /\ count[r] > 0
  /\ timer' = [timer EXCEPT ![r] = FALSE]
  /\ future' = [future EXCEPT ![r] = "exception"]
  /\ table' = [table EXCEPT ![auth[r]] = NoRequest]
  /\ UNCHANGED <<auth, count, transport, pc, req, opener>>

\* transport = await request
Resume(c) ==
  /\ pc[c] = "waiting"
  /\ future[req[c]] = "result"
  /\ pc' = [pc EXCEPT ![c] = "using"]
  /\ UNCHANGED <<table, auth, future, count, timer, transport, req, opener>>

\* The count drops to zero when this client leaves.
LastIgnored(c) == TRUE
LastOffByOne(c) == count[req[c]] = 0
Last(c) == count[req[c]] = 1

\* The finally block: the last client closes the transport or cancels the
\* timer it started, and removes the entry of its authinfo.  result() raises
\* for a future that holds an exception, close() may raise: then the entry
\* is not touched.
Finally(c) ==
  LET r == req[c]
      pop == table' = [table EXCEPT ![auth[r]] = NoRequest]
  IN /\ count' = [count EXCEPT ![r] = @ - 1]
     /\ pc' = [pc EXCEPT ![c] = "idle"]
     /\ req' = [req EXCEPT ![c] = NoRequest]
     /\ opener' = [opener EXCEPT ![c] = FALSE]
     /\ UNCHANGED <<auth, future>>
     /\ \/ ~Last(c) /\ UNCHANGED <<table, timer, transport>>
        \/ /\ Last(c) /\ future[r] = "pending" /\ pop
           /\ timer' = [timer EXCEPT ![r] = @ /\ ~opener[c]]
           /\ UNCHANGED transport
        \/ /\ Last(c) /\ future[r] = "exception"
           /\ UNCHANGED <<table, timer, transport>>
        \/ /\ Last(c) /\ future[r] = "result" /\ pop
           /\ transport' = [transport EXCEPT ![r] = "closed"]
           /\ UNCHANGED timer
        \/ /\ Last(c) /\ future[r] = "result" /\ "close" \in Faults[auth[r]]
           /\ transport' = [transport EXCEPT ![r] = "closed"]
           /\ UNCHANGED <<table, timer>>

\* The body of the context is done, or raised.
Leave(c) == pc[c] = "using" /\ Finally(c)

\* The await raised: the transport could not be opened.
LeaveRaising(c) == pc[c] = "waiting" /\ future[req[c]] = "exception" /\ Finally(c)

\* The await was interrupted (pause or kill of the process).
Interrupt(c) == pc[c] = "waiting" /\ Finally(c)

Next ==
  \/ \E c \in Clients, a \in AuthInfos :
       RequestNew(c, a) \/ RequestShared(c, a) \/ RequestRaises(c, a)
  \/ \E r \in Requests : DoOpenIdle(r) \/ DoOpen(r) \/ DoOpenRaises(r)
  \/ \E c \in Clients : Resume(c) \/ Leave(c) \/ LeaveRaising(c) \/ Interrupt(c)

\* The loop runs every due timer and every coroutine whose future is done,
\* and the body of a context ends; nobody has to ask for a transport.
Fairness ==
  /\ \A r \in Requests : WF_vars(DoOpenIdle(r) \/ DoOpen(r) \/ DoOpenRaises(r))
  /\ \A c \in Clients : /\ WF_vars(Resume(c) \/ LeaveRaising(c))
                        /\ WF_vars(Leave(c))

Spec == Init /\ [][Next]_vars
FairSpec == Spec /\ Fairness

-----------------------------------------------------------------------------
\* The client is in the context of a computer for which `call` never raises.
Spared(c, call) == call \notin Faults[auth[req[c]]]

\* A client whose body runs has an open transport, however many other
\* clients came, left, failed or were interrupted since it was opened
\* (request_transport closes only in the finally block of the last one), and
\* whatever happens on other computers; its own one must close without raising.
UsingOpen ==
  \A c \in Clients :
    pc[c] = "using" /\ Spared(c, "close") => transport[req[c]] = "open"

\* TransportRequest.count is the number of clients inside the context: the
\* value on which closing, cancelling and opening are decided.
CountExact == \A r \in Requests : count[r] = Cardinality(Held(r))

\* No transport stays open without a client, and an open transport is the
\* one the table shares: at most one is open per authinfo.
NoLeakedTransport ==
  \A r \in Requests : transport[r] = "open" => Held(r) # {} /\ table[auth[r]] = r

\* A client that waits for a pending future has a scheduled do_open: the
\* client that left and cancelled its timer was the last one.
NoLostWakeup ==
  \A c \in Clients :
    pc[c] = "waiting" /\ future[req[c]] = "pending" /\ Spared(c, "get_transport")
      => timer[req[c]]

\* A client does not wait forever for a computer whose get_transport() returns.
Served ==
  \A c \in Clients :
    (pc[c] = "waiting" /\ Spared(c, "get_transport")) ~> (pc[c] # "waiting")

\* "register their interest in a transport object which will be provided at
\* some point in the future" (class docstring): a client does not wait forever.
ProvidedEventually == \A c \in Clients : (pc[c] = "waiting") ~> (pc[c] # "waiting")
=============================================================================
