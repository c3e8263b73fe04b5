----------------------------- MODULE MCLauncher -----------------------------
EXTENDS Launcher, TLC

CONSTANTS p1, p2, w1, w2

MCProcs == {p1, p2}
MCWorkers == {w1, w2}
MCBroken == {p2}
MCMeddled == {p1}
MCMaxTasks == (p1 :> 2) @@ (p2 :> 1)
=============================================================================
