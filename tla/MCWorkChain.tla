---------------------------- MODULE MCWorkChain -----------------------------
EXTENDS WorkChain, TLC

CONSTANTS a, b

MCChildren == 1..5
MCKeys == {a, b}
Assign(k) == [key |-> k, action |-> "assign"]
AppendTo(k) == [key |-> k, action |-> "append"]
MCOutline == <<<<AppendTo(a), AppendTo(a)>>, <<>>, <<Assign(b)>>, <<>>>>
=============================================================================
