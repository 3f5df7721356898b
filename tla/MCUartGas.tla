----------------------------- MODULE MCUartGas -----------------------------
(* Two addresses: p reads the same both ways round, q does not; r is q with    *)
(* its bytes swapped, beyond the GAS.  "v1" and "v3" have the same CRC at q.    *)
EXTENDS UartGas
CONSTANTS p, q, r
MCCrc(a, v) == <<a, IF a = q /\ v = "v3" THEN "v1" ELSE v>>
MCSwap(a) == CASE a = q -> r [] a = r -> q [] OTHER -> a
=============================================================================
