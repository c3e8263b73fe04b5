----------------------------- MODULE MCCalcJob -----------------------------
(***************************************************************************)
(* Instances of CalcJob for TLC.                                           *)
(***************************************************************************)
EXTENDS CalcJob, TLC

CONSTANTS j1, j2, j3

MCJobs == {j1, j2}
MCJobs3 == {j1, j2, j3}

Symmetry == Permutations(MCJobs3)

Result(a, r, p, o) == [action |-> a, retrieve |-> r, parse |-> p, override |-> o]

(* Kill and parse with or without the exit code of the monitor, kill and   *)
(* retrieve without parsing, kill without retrieving, and let the job run. *)
KillMonitors ==
    {Result("KILL", TRUE, TRUE, TRUE), Result("KILL", TRUE, TRUE, FALSE),
     Result("KILL", TRUE, FALSE, TRUE), Result("KILL", FALSE, FALSE, TRUE),
     Result("DISABLE_ALL", TRUE, TRUE, FALSE), Result("DISABLE_SELF", TRUE, TRUE, FALSE)}
KillOverride == {Result("KILL", TRUE, TRUE, TRUE)}
NoMonitors == {}

Input(k, sk, sh, m) == [kind |-> k, skip |-> sk, stash |-> sh, monitors |-> m]

AllInputs == {Input("run", FALSE, sh, m) : sh \in BOOLEAN, m \in BOOLEAN}
             \cup {Input("run", TRUE, TRUE, FALSE), Input("import", FALSE, FALSE, FALSE),
                   Input("cached", FALSE, FALSE, FALSE)}
PlainInput == {Input("run", FALSE, FALSE, FALSE)}
StashInput == {Input("run", FALSE, TRUE, FALSE)}
MonitoredInput == {Input("run", FALSE, FALSE, TRUE)}

Nothing == {}
AllEvents == {"presubmit", "exit_code", "reply", "stash_nothing", "transport", "parser", "pause", "kill", "late"}
LiveEvents == AllEvents \ {"reply"}
UserEvents == {"pause", "kill"}
=============================================================================
