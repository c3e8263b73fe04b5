------------------------- MODULE MCRestartWorkChain -------------------------
EXTENDS RestartWorkChain

\* The second handler is disabled by default and enabled by an override, which
\* also gives it the highest priority; the third is disabled by an override; the
\* priority 0 of the first override has no effect.
MCHandlers == <<[priority |-> 10, enabled |-> TRUE, exit_codes |-> {1}],
                [priority |-> 5, enabled |-> FALSE, exit_codes |-> NoValue],
                [priority |-> 30, enabled |-> TRUE, exit_codes |-> NoValue]>>
MCOverrides == <<[enabled |-> NoValue, priority |-> 0],
                 [enabled |-> TRUE, priority |-> 20],
                 [enabled |-> FALSE, priority |-> NoValue]>>
MCMaxIterations == {0, 3}
MCStatuses == 0..2
=============================================================================
