----------------------------- MODULE FwDownload -----------------------------
(* Writing a firmware image: switchtec_fw_write_fd and switchtec_fw_write_file *)
(* (lib/fw.c), with the waiting loops, the status query and the masking of the *)
(* MRPC completion interrupts they use.  Any number of updaters, each a        *)
(* process with its own handle of the same switch.  The switch is external:    *)
(* it programs one block at a time in the background, in the order of their    *)
(* offsets, a block of offset 0 starting a new download, and accepts an image  *)
(* only if all its blocks came from the same call (its CRC).  The errors a call    *)
(* can return are one value.                                                   *)
(* An MRPC command is one step here: it answers (0), is answered with an error *)
(* (> 0) or is not answered (< 0); GasopCmd looks inside.                      *)
EXTENDS Integers, FiniteSets

CONSTANTS Updaters,   \* processes that call switchtec_fw_write_*
          NBlocks,    \* blocks of MRPC_MAX_DATA_LEN - header in an image
          MaxTries,   \* FW_DL_MAX_RETRIES
          MaxCalls,   \* bound on the calls of a run
          Faults      \* the sets of things that may go wrong in one behaviour

\* mrpc_err: a status query is answered with an error; sys_err: a command is
\* not answered; eof: the image is shorter than it was; kill: the process dies.
ASSUME FwAssumption ==
  /\ NBlocks \in Nat \ {0} /\ MaxTries \in Nat \ {0} /\ MaxCalls \in Nat
  /\ Faults \subseteq SUBSET {"mrpc_err", "sys_err", "eof", "kill"}

\* enum switchtec_fw_dlstatus; FIRM_ACT and DATA_ACT are treated as COMPLETES,
\* and the other errors as CRC_INCORRECT.
Dl == {"READY", "INPROGRESS", "COMPLETES", "CRC_INCORRECT"}
Bg == {"INPROGRESS", "DONE", "OFFSET", "ERROR"}   \* enum mrpc_bg_status, IDLE as DONE
Hdrs == {"comp", "async"}       \* mrpc_comp_hdr and mrpc_comp_async_hdr

VARIABLES faults,  \* what goes wrong in this behaviour
          pc,      \* per updater: where it is
          loc,     \* per updater: its local variables
          ret,     \* per updater: the result of its last call
          irq,     \* the switch: the headers whose interrupt is enabled
          dl,      \* the switch: download status
          dbg,     \* the switch: background status
          next,    \* the switch: the offset it expects
          by,      \* the switch: the calls that wrote the blocks of this download
          pending, \* the switch: the block it programs, its offset and call
          written, \* the calls whose image the switch accepted (history)
          id,      \* per updater: the number of its last call (history)
          calls,   \* calls started (history)
          overlap  \* a call began while another ran (history)

switch == <<dl, dbg, next, by, pending>>
history == <<faults, written, id, calls, overlap>>
vars == <<pc, loc, ret, irq, switch, history>>

\* off: offset, in blocks; status; bg: bgstatus of the waiting function; tries:
\* status queries left in a round of switchtec_fw_wait; gas: use_gas; saved:
\* irq_save, the headers whose interrupt was enabled.
Locals == [off : 0..NBlocks, status : Dl, bg : Bg, tries : 0..MaxTries,
           gas : BOOLEAN, saved : SUBSET Hdrs]
NoLocals == [off |-> 0, status |-> "READY", bg |-> "DONE", tries |-> 0,
             gas |-> FALSE, saved |-> {}]

Init ==
  /\ faults \in Faults
  /\ pc = [u \in Updaters |-> "idle"] /\ loc = [u \in Updaters |-> NoLocals]
  /\ ret = [u \in Updaters |-> "none"]
  /\ irq = Hdrs /\ dl \in {"READY", "COMPLETES"} /\ dbg = "DONE" /\ next = 0 /\ by = {}
  /\ pending = [off |-> 0, call |-> 0]
  /\ written = {} /\ id = [u \in Updaters |-> 0] /\ calls = 0
  /\ overlap = FALSE

Goto(u, l) == pc' = [pc EXCEPT ![u] = l]
Become(u, l) == loc' = [loc EXCEPT ![u] = l]

\* The function returns r.
Return(u, r) ==
  /\ Goto(u, "idle") /\ Become(u, NoLocals) /\ ret' = [ret EXCEPT ![u] = r]

\* Mutant of Out: return in place of goto out.
OutReturns(u, r) == Return(u, r)

\* "goto out": restore the headers if they were masked, and return r.  Of the
\* other local variables nothing is needed any more.
Out(u, r) ==
  IF loc[u].gas
  THEN /\ Goto(u, "restore") /\ ret' = [ret EXCEPT ![u] = r]
       /\ Become(u, [NoLocals EXCEPT !.saved = loc[u].saved])
  ELSE Return(u, r)

-----------------------------------------------------------------------------
\* Entry, and the status query whose result is not looked at: where it fails,
\* status and bgstatus are uninitialized.
Enter(u) ==
  /\ pc[u] = "idle" /\ calls < MaxCalls
  /\ calls' = calls + 1 /\ id' = [id EXCEPT ![u] = calls']
  /\ \E f \in BOOLEAN, g \in BOOLEAN, s \in Dl, b \in Bg :   \* g: switchtec_gas_map
       /\ \/ s = dl /\ b = dbg
          \/ faults \cap {"mrpc_err", "sys_err"} # {}
       /\ IF (~f /\ s = "INPROGRESS") \/ b = "INPROGRESS"
          THEN Return(u, "error")
          ELSE /\ Become(u, [NoLocals EXCEPT !.status = s, !.gas = g])
               /\ Goto(u, IF g THEN "mask" ELSE "block")
               /\ ret' = [ret EXCEPT ![u] = "none"]
  /\ overlap' = (overlap \/ \E v \in Updaters : pc[v] # "idle")
  /\ UNCHANGED <<irq, switch, faults, written>>

\* fw_gas_mask_irq, one header after the other.
MaskIrq(u) ==
  /\ \E step \in {<<"mask", "comp", "mask2">>, <<"mask2", "async", "block">>} :
       /\ pc[u] = step[1] /\ Goto(u, step[3])
       /\ loc' = [loc EXCEPT ![u].saved = @ \cup (irq \cap {step[2]})]
       /\ irq' = irq \ {step[2]}
  /\ UNCHANGED <<ret, switch, history>>

\* fw_gas_restore_irq.
RestoreIrq(u) ==
  /\ \/ /\ pc[u] = "restore" /\ Goto(u, "restore2") /\ UNCHANGED <<loc, ret>>
        /\ irq' = (irq \ {"comp"}) \cup (loc[u].saved \cap {"comp"})
     \/ /\ pc[u] = "restore2" /\ Return(u, ret[u])
        /\ irq' = (irq \ {"async"}) \cup (loc[u].saved \cap {"async"})
  /\ UNCHANGED <<switch, history>>

\* The switch gets a block: notes a wrong offset, or starts to program it.
TakeBlock(u) ==
  LET o == loc[u].off IN
  IF o # 0 /\ o # next
  THEN dbg' = "OFFSET" /\ UNCHANGED <<dl, next, by, pending>>
  ELSE /\ dbg' = "INPROGRESS" /\ dl' = "INPROGRESS" /\ next' = next
       /\ by' = IF o = 0 THEN {id[u]} ELSE by \cup {id[u]}
       /\ pending' = [off |-> o, call |-> id[u]]

\* One block: fw_gasop_cmd or switchtec_cmd, which may succeed, be rejected
\* while the switch programs, or not be answered whether it was taken or not.
\* fw_wait_gas and switchtec_fw_wait begin with an uninitialized bgstatus.
SendBlock(u) ==
  /\ pc[u] = "block" /\ loc[u].off < NBlocks
  /\ \/ /\ dbg # "INPROGRESS" /\ TakeBlock(u)
        /\ Goto(u, "wait") /\ ret' = ret
        /\ \E b \in IF "mrpc_err" \in faults THEN Bg ELSE {"DONE"} :
             Become(u, [loc[u] EXCEPT !.bg = b, !.tries = MaxTries])
     \/ dbg = "INPROGRESS" /\ Out(u, "error") /\ UNCHANGED switch
     \/ /\ "sys_err" \in faults /\ Out(u, "error")
        /\ \/ dbg # "INPROGRESS" /\ TakeBlock(u)
           \/ UNCHANGED switch
  /\ UNCHANGED <<irq, history>>

NextBlock(u, l) ==
  /\ Become(u, [l EXCEPT !.off = @ + 1, !.bg = "DONE", !.tries = 0])
  /\ Goto(u, "block") /\ ret' = ret

\* Mutant of Judge: the loop runs until DONE.
JudgeUntilDone(u, l) ==
  IF l.bg = "DONE" THEN NextBlock(u, l)
                   ELSE Become(u, [l EXCEPT !.tries = MaxTries]) /\ UNCHANGED <<pc, ret>>

\* What the waiting functions do with what a query has left in status and
\* bgstatus: return an error, wait on, or return 0.  An error with a status
\* READY, which is 0, is returned as 0.
Judge(u, l) ==
  CASE l.bg = "OFFSET" \/ (l.bg = "ERROR" /\ l.status # "READY") -> Out(u, "error")
    [] l.bg = "INPROGRESS" -> Become(u, [l EXCEPT !.tries = MaxTries]) /\ UNCHANGED <<pc, ret>>
    [] OTHER -> NextBlock(u, l)

\* Mutant of Wait: no "if (ret < 0) return ret".
WaitGoesOn(u) ==
  /\ pc[u] = "wait"
  /\ LET l == loc[u] IN
     \/ Judge(u, [l EXCEPT !.status = dl, !.bg = dbg])
     \/ faults \cap {"mrpc_err", "sys_err"} # {} /\ Judge(u, l)
  /\ UNCHANGED <<irq, switch, history>>

\* One status query of the waiting loops.  switchtec_fw_wait repeats one that
\* fails; when the last has failed, or at once in fw_wait_gas, a negative result
\* is returned and a positive one leaves status and bgstatus as they are.
Wait(u) ==
  /\ pc[u] = "wait"
  /\ LET l == loc[u] IN
     \/ Judge(u, [l EXCEPT !.status = dl, !.bg = dbg])
     \/ /\ faults \cap {"mrpc_err", "sys_err"} # {} /\ ~l.gas /\ l.tries > 1
        /\ Become(u, [l EXCEPT !.tries = @ - 1]) /\ UNCHANGED <<pc, ret>>
     \/ (l.gas \/ l.tries = 1) /\ "sys_err" \in faults /\ Out(u, "error")
     \/ (l.gas \/ l.tries = 1) /\ "mrpc_err" \in faults /\ Judge(u, l)
  /\ UNCHANGED <<irq, switch, history>>

\* The end of the image, or of what can be read of it.
Finish(u) ==
  /\ pc[u] = "block" /\ (loc[u].off = NBlocks \/ "eof" \in faults)
  /\ Out(u, IF loc[u].status = "COMPLETES" THEN "ok" ELSE "error")
  /\ UNCHANGED <<irq, switch, history>>

Kill(u) ==
  /\ "kill" \in faults /\ pc[u] # "idle"
  /\ Return(u, "error")
  /\ UNCHANGED <<irq, switch, history>>

-----------------------------------------------------------------------------
(* The switch programs the block.                                              *)
Programmed ==
  /\ dbg = "INPROGRESS"
  /\ dbg' = "DONE" /\ next' = pending.off + 1
  /\ dl' = IF pending.off + 1 < NBlocks THEN "INPROGRESS"
           ELSE IF Cardinality(by) = 1 THEN "COMPLETES" ELSE "CRC_INCORRECT"
  /\ written' = IF dl' = "COMPLETES" THEN written \cup {pending.call} ELSE written
  /\ UNCHANGED <<pc, loc, ret, irq, by, pending, faults, id, calls, overlap>>

ProgramFails ==
  /\ dbg = "INPROGRESS"
  /\ dbg' = "ERROR" /\ dl' \in {"INPROGRESS", "CRC_INCORRECT"}
  /\ UNCHANGED <<pc, loc, ret, irq, next, by, pending, history>>

CallerStep(u) == MaskIrq(u) \/ SendBlock(u) \/ Wait(u) \/ Finish(u) \/ RestoreIrq(u)
SwitchStep == Programmed \/ ProgramFails

Next == SwitchStep \/ \E u \in Updaters : Enter(u) \/ CallerStep(u) \/ Kill(u)

Spec == Init /\ [][Next]_vars
FairSpec == Spec /\ WF_vars(SwitchStep) /\ \A u \in Updaters : WF_vars(CallerStep(u))

-----------------------------------------------------------------------------
TypeOK ==
  /\ pc \in [Updaters -> {"idle", "mask", "mask2", "block", "wait", "restore", "restore2"}]
  /\ loc \in [Updaters -> Locals]
  /\ ret \in [Updaters -> {"none", "ok", "error"}] /\ irq \subseteq Hdrs /\ faults \in Faults
  /\ \A u \in Updaters : pc[u] = "wait" => loc[u].off < NBlocks
  /\ dl \in Dl /\ dbg \in Bg /\ next \in 0..NBlocks /\ by \subseteq 0..MaxCalls
  /\ pending \in [off : 0..NBlocks - 1, call : 0..MaxCalls]
  /\ written \subseteq 0..MaxCalls /\ id \in [Updaters -> 0..MaxCalls] /\ calls \in 0..MaxCalls
  /\ overlap \in BOOLEAN

Success(u) == pc[u] = "idle" /\ ret[u] = "ok"

(* switchtec_fw_write_fd and switchtec_fw_write_file return "0 on success,     *)
(* error code on failure" (fw.c:766 and 910): when one returned 0, the switch  *)
(* has accepted the image this call sent, whole.                               *)
SuccessMeansWritten == \A u \in Updaters : Success(u) => id[u] \in written

(* The same where no status query is answered with an error, the image is as   *)
(* long as it was, and no call ran into another: unanswered commands, kills    *)
(* and failed blocks, of this call and of those before it, do not make a call  *)
(* return 0 without its image.                                                 *)
SuccessWithoutErrors ==
  (faults \cap {"mrpc_err", "eof"} = {} /\ ~overlap) => SuccessMeansWritten

(* Whatever fails, calls that return leave the MRPC completion interrupts      *)
(* enabled as they found them, unless one was killed or ran into another.      *)
IrqRestored ==
  ("kill" \notin faults /\ ~overlap /\ \A u \in Updaters : pc[u] = "idle") => irq = Hdrs

(* The invariant that gives both.  A call that is alone finds the headers as    *)
(* the last one left them, and the block it waits for is its own: what the      *)
(* switch says of it, once it is programmed, is said of the image of this call.  *)
Masked(u) ==
  CASE pc[u] = "mask"     -> loc[u].gas /\ loc[u].saved = {} /\ irq = Hdrs
    [] pc[u] = "mask2"    -> loc[u].gas /\ loc[u].saved = {"comp"} /\ irq = {"async"}
    [] pc[u] \in {"block", "wait"} ->
         IF loc[u].gas THEN loc[u].saved = Hdrs /\ irq = {} ELSE irq = Hdrs
    [] pc[u] = "restore"  -> loc[u].saved = Hdrs /\ irq = {}
    [] pc[u] = "restore2" -> loc[u].saved = Hdrs /\ irq = {"comp"}
    [] OTHER -> TRUE
Mine(u) ==
  /\ pc[u] \in {"mask", "mask2"} => loc[u].off = 0
  /\ pc[u] = "block" /\ loc[u].off > 0 /\ loc[u].status = "COMPLETES" => id[u] \in written
  /\ pc[u] = "wait" => /\ dbg = "INPROGRESS" => pending.call = id[u] /\ dl = "INPROGRESS"
                       /\ dbg = "DONE" /\ dl = "COMPLETES" => id[u] \in written
                       /\ dbg = "ERROR" => dl # "READY"
  /\ ret[u] = "ok" => id[u] \in written
Here(u) == /\ "kill" \notin faults => Masked(u)
           /\ faults \cap {"mrpc_err", "eof"} = {} => Mine(u)
Alone == \A u, v \in Updaters : pc[u] # "idle" /\ pc[v] # "idle" => u = v
AloneInv == ~overlap => Alone /\ IrqRestored /\ \A u \in Updaters : Here(u)
Inv == TypeOK /\ AloneInv

(* Every call returns: the waiting loops end because the switch finishes every *)
(* block it takes, and answers the query for it.                               *)
UpdateEnds ==
  \A u \in Updaters : (pc[u] # "idle" /\ "mrpc_err" \notin faults) ~> pc[u] = "idle"
=============================================================================
