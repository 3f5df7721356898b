------------------------------- MODULE GasPort -------------------------------
(* What the library expects of a way of reaching the Global Address Space      *)
(* (GAS) of a switch: the gas_read / gas_write / gas_write32_no_retry members  *)
(* of struct switchtec_ops (lib/switchtec_priv.h).  One caller, one call at a  *)
(* time, on words of the GAS.                                                  *)
(*   - a write may reach the switch any number of times (the transport         *)
(*     retries), but the call does not return before it reached it once;       *)
(*   - a no-retry write reaches the switch at most once;                       *)
(*   - a read returns what the word holds;                                     *)
(*   - a call that cannot be carried out kills the caller (SIGBUS); what it    *)
(*     had sent may still reach the switch.                                    *)
EXTENDS Naturals

CONSTANTS Words,    \* the words of the GAS the caller uses
          MaxOps    \* bound on the number of calls


Kinds == {"none", "write", "once", "read"}
WriteKinds == {"write", "once"}

VARIABLES phase,    \* idle; busy in a call; dead: killed by SIGBUS
          kind,     \* the kind of the current, or else the last, call
          word,     \* the word that call addresses
          op,       \* how many calls were started: the value a write stores
          landed,   \* how many times the current write reached the switch
          mem,      \* the words, as the switch holds them
          want,     \* the words, as the caller has written them
          buf       \* the words, as the caller last read them

vars == <<phase, kind, word, op, landed, mem, want, buf>>

Init ==
  /\ phase = "idle" /\ kind = "none" /\ word \in Words
  /\ op = 0 /\ landed = 0
  /\ mem = [w \in Words |-> 0] /\ want = mem /\ buf = mem

StartWrite(k, w) ==
  /\ phase = "idle" /\ op < MaxOps
  /\ phase' = "busy" /\ kind' = k /\ word' = w
  /\ op' = op + 1 /\ landed' = 0
  /\ want' = [want EXCEPT ![w] = op + 1]
  /\ UNCHANGED <<mem, buf>>

StartRead(w) ==
  /\ phase = "idle" /\ op < MaxOps
  /\ phase' = "busy" /\ kind' = "read" /\ word' = w
  /\ op' = op + 1 /\ landed' = 0
  /\ UNCHANGED <<mem, want, buf>>

Land ==
  /\ phase \in {"busy", "dead"} /\ kind \in WriteKinds
  /\ kind = "once" => landed = 0
  /\ mem' = [mem EXCEPT ![word] = op]
  /\ landed' = landed + 1
  /\ UNCHANGED <<phase, kind, word, op, want, buf>>

AckWrite ==
  /\ phase = "busy" /\ kind \in WriteKinds /\ landed > 0
  /\ phase' = "idle"
  /\ UNCHANGED <<kind, word, op, landed, mem, want, buf>>

\* An attempt at reading that failed may have left anything in the buffer.
Scratch ==
  /\ phase = "busy" /\ kind = "read"
  /\ \E v \in 0..MaxOps : buf' = [buf EXCEPT ![word] = v]
  /\ UNCHANGED <<phase, kind, word, op, landed, mem, want>>

AckRead ==
  /\ phase = "busy" /\ kind = "read"
  /\ buf' = [buf EXCEPT ![word] = mem[word]]
  /\ phase' = "idle"
  /\ UNCHANGED <<kind, word, op, landed, mem, want>>

Die ==
  /\ phase = "busy" /\ phase' = "dead"
  /\ \/ buf' = buf
     \/ kind = "read" /\ \E v \in 0..MaxOps : buf' = [buf EXCEPT ![word] = v]
  /\ UNCHANGED <<kind, word, op, landed, mem, want>>

Next ==
  \/ \E w \in Words : StartRead(w) \/ \E k \in WriteKinds : StartWrite(k, w)
  \/ Land \/ AckWrite \/ Scratch \/ AckRead \/ Die

Spec == Init /\ [][Next]_vars
==============================================================================
