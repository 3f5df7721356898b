----------------------------- MODULE MCEventHdr -----------------------------
(* Flags for EventHdr: clear an event and enable its polling, as waiting does; *)
(* enable the log, and the polling that the same call disables; ask only.      *)
EXTENDS EventHdr, TLC
CONSTANTS c1, c2
MCCallers == {c1, c2}
MCFlags == {[clear |-> TRUE,  on |-> {"irq"}, off |-> {}],
            [clear |-> FALSE, on |-> {"log", "irq"}, off |-> {"irq"}],
            NoFlags}
Alike == Permutations(MCCallers)
=============================================================================
