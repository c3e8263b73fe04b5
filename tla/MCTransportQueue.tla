------------------------- MODULE MCTransportQueue -------------------------
(***************************************************************************)
(* Model checking of TransportQueue: three clients on two authinfos, so    *)
(* that a request is shared, abandoned by its opener and replaced while    *)
(* its timer is still armed.  One computer only refuses connections, on    *)
(* the other every call may raise.                                         *)
(***************************************************************************)
EXTENDS TransportQueue

CONSTANTS a1, a2

MCAuthInfos == {a1, a2}
MCFaults == [a \in MCAuthInfos |-> IF a = a1 THEN {"open"}
                                   ELSE {"get_transport", "open", "close"}]

OneAuthInfo == {a1}
GetTransportFails == [a \in OneAuthInfo |-> {"get_transport"}]
=============================================================================
