----------------------------- MODULE ProfileLock -----------------------------
(***************************************************************************)
(* What aiida.manage.profile_access promises: a profile is used by any     *)
(* number of processes, or locked by one process that nobody else shares   *)
(* it with.  A process may lock a profile it uses itself, as `verdi        *)
(* storage maintain --full` does.                                          *)
(***************************************************************************)
CONSTANTS Processes

VARIABLES accessors, holder

Init == accessors = {} /\ holder = {}

Access(p) ==
    /\ holder \subseteq {p}
    /\ accessors' = accessors \cup {p}
    /\ UNCHANGED holder

Lock(p) ==
    /\ holder = {}
    /\ accessors \subseteq {p}
    /\ holder' = {p}
    /\ UNCHANGED accessors

Unlock(p) ==
    /\ holder = {p}
    /\ holder' = {}
    /\ UNCHANGED accessors

\* A process ends, or is killed, with whatever it had.
End(p) ==
    /\ accessors' = accessors \ {p}
    /\ holder' = holder \ {p}

Next == \E p \in Processes : Access(p) \/ Lock(p) \/ Unlock(p) \/ End(p)

Spec == Init /\ [][Next]_<<accessors, holder>>
=============================================================================
