----------------------------- MODULE MCGasopCmd -----------------------------
(* Calls for GasopCmd: gasop_cmd with a KMSK entry, which the table keeps from *)
(* being retried, or with a reset, which is retried; fw_gasop_cmd with a block *)
(* of an image; switchtec_cmd_nopoll with a toggle.                            *)
EXTENDS GasopCmd
Call(kind, cmd, sub) == [kind |-> kind, c |-> [cmd |-> cmd, sub |-> sub]]
MCCalls == {Call("gasop", "KMSK_ENTRY_SET_GEN5", "OTHER"), Call("gasop", "RESET", "OTHER"),
            Call("fw", "FW_TX_GEN6", "OTHER"), Call("nopoll", "FW_TX_GEN6", "TOGGLE")}
=============================================================================
