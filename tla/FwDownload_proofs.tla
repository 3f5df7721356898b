-------------------------- MODULE FwDownload_proofs --------------------------
(* Proofs about FwDownload, for any number of updaters, blocks, tries and calls *)
(* and any faults: type correctness, what success means where no status query   *)
(* fails, and the interrupts a call masks and restores.                        *)
EXTENDS FwDownload, TLAPS

-----------------------------------------------------------------------------
(* Types.                                                                      *)

(* A local variable that is given a value of its type.                         *)
LEMMA FieldType ==
  ASSUME NEW l \in Locals
  PROVE  /\ \A x \in 0..NBlocks : [l EXCEPT !.off = x] \in Locals
         /\ \A x \in Dl : [l EXCEPT !.status = x] \in Locals
         /\ \A x \in Bg : [l EXCEPT !.bg = x] \in Locals
         /\ \A x \in 0..MaxTries : [l EXCEPT !.tries = x] \in Locals
         /\ \A x \in BOOLEAN : [l EXCEPT !.gas = x] \in Locals
         /\ \A x \in SUBSET Hdrs : [l EXCEPT !.saved = x] \in Locals
<1>1. \A x \in 0..NBlocks : [l EXCEPT !.off = x] \in Locals
  BY DEF Locals
<1>2. \A x \in Dl : [l EXCEPT !.status = x] \in Locals
  BY DEF Locals
<1>3. \A x \in Bg : [l EXCEPT !.bg = x] \in Locals
  BY DEF Locals
<1>4. \A x \in 0..MaxTries : [l EXCEPT !.tries = x] \in Locals
  BY DEF Locals
<1>5. \A x \in BOOLEAN : [l EXCEPT !.gas = x] \in Locals
  BY DEF Locals
<1>6. \A x \in SUBSET Hdrs : [l EXCEPT !.saved = x] \in Locals
  BY DEF Locals
<1> QED BY <1>1, <1>2, <1>3, <1>4, <1>5, <1>6

(* The local variables of a call that begins, and those kept to restore.       *)
LEMMA LocalsType ==
  /\ NoLocals \in Locals
  /\ \A S \in SUBSET Hdrs : [NoLocals EXCEPT !.saved = S] \in Locals
  /\ \A s \in Dl, g \in BOOLEAN : [NoLocals EXCEPT !.status = s, !.gas = g] \in Locals
<1>1. NoLocals \in Locals
  BY FwAssumption DEF NoLocals, Locals, Dl, Bg
<1>2. ASSUME NEW s \in Dl, NEW g \in BOOLEAN
      PROVE  [NoLocals EXCEPT !.status = s, !.gas = g] \in Locals
  <2> DEFINE m == [NoLocals EXCEPT !.status = s]
  <2>1. m \in Locals
    BY <1>1, FieldType
  <2>2. [m EXCEPT !.gas = g] \in Locals
    BY <2>1, FieldType
  <2> QED BY <2>2
<1> QED BY <1>1, <1>2, FieldType

(* What a step of an updater keeps of the types of its own state.              *)
OwnType ==
  /\ pc \in [Updaters -> {"idle", "mask", "mask2", "block", "wait", "restore", "restore2"}]
  /\ loc \in [Updaters -> Locals]
  /\ ret \in [Updaters -> {"none", "ok", "error"}]
  /\ \A u \in Updaters : pc[u] = "wait" => loc[u].off < NBlocks

(* A return, and the way out of a call, keep them.                             *)
LEMMA ReturnType ==
  ASSUME OwnType, NEW u \in Updaters, NEW r \in {"none", "ok", "error"}, Return(u, r)
  PROVE  OwnType'
<1>1. NoLocals \in Locals
  BY LocalsType
<1>2. loc' = [loc EXCEPT ![u] = NoLocals]
  BY DEF Return, Become
<1>3. loc' \in [Updaters -> Locals]
  BY <1>1, <1>2 DEF OwnType
<1>4. pc' = [pc EXCEPT ![u] = "idle"] /\ ret' = [ret EXCEPT ![u] = r]
  BY DEF Return, Goto
<1>5. \A v \in Updaters : pc'[v] = "wait" => pc[v] = "wait" /\ loc'[v] = loc[v]
  BY <1>2, <1>4 DEF OwnType
<1> QED BY <1>3, <1>4, <1>5 DEF OwnType

LEMMA OutType ==
  ASSUME OwnType, NEW u \in Updaters, NEW r \in {"ok", "error"}, Out(u, r)
  PROVE  OwnType'
<1>1. CASE ~loc[u].gas
  BY <1>1, ReturnType DEF Out
<1>2. CASE loc[u].gas
  <2> DEFINE l == [NoLocals EXCEPT !.saved = loc[u].saved]
  <2>1. loc[u].saved \in SUBSET Hdrs
    BY DEF OwnType, Locals
  <2>2. l \in Locals
    BY <2>1, LocalsType
  <2>3. loc' = [loc EXCEPT ![u] = l] /\ pc' = [pc EXCEPT ![u] = "restore"]
        /\ ret' = [ret EXCEPT ![u] = r]
    BY <1>2 DEF Out, Become, Goto
  <2> HIDE DEF l
  <2>4. \A v \in Updaters : pc'[v] = "wait" => pc[v] = "wait" /\ loc'[v] = loc[v]
    BY <2>3 DEF OwnType
  <2> QED BY <2>2, <2>3, <2>4 DEF OwnType
<1> QED BY <1>1, <1>2

(* So does a step that gives the call other local variables.                   *)
LEMMA BecomeType ==
  ASSUME OwnType, NEW u \in Updaters, NEW l \in Locals, Become(u, l),
         NEW p \in {"idle", "mask", "mask2", "block", "wait", "restore", "restore2"},
         pc' = [pc EXCEPT ![u] = p], p = "wait" => l.off < NBlocks,
         ret' \in [Updaters -> {"none", "ok", "error"}]
  PROVE  OwnType'
<1>1. loc' = [loc EXCEPT ![u] = l]
  BY DEF Become
<1>2. \A v \in Updaters : pc'[v] = "wait" =>
        (v = u /\ p = "wait" /\ loc'[v] = l) \/ (pc[v] = "wait" /\ loc'[v] = loc[v])
  BY <1>1 DEF OwnType
<1> QED BY <1>1, <1>2 DEF OwnType

LEMMA JudgeType ==
  ASSUME OwnType, NEW u \in Updaters, NEW l \in Locals, l.off < NBlocks, Judge(u, l)
  PROVE  OwnType'
<1>1. CASE Out(u, "error")
  BY <1>1, OutType
<1>2. CASE Become(u, [l EXCEPT !.tries = MaxTries]) /\ UNCHANGED <<pc, ret>>
  <2> DEFINE m == [l EXCEPT !.tries = MaxTries]
  <2>1. m \in Locals /\ m.off = l.off
    BY FwAssumption DEF Locals
  <2>2. pc' = [pc EXCEPT ![u] = pc[u]] /\ pc[u] \in {"idle", "mask", "mask2", "block", "wait", "restore", "restore2"}
    BY <1>2 DEF OwnType
  <2>3. Become(u, m) /\ ret' \in [Updaters -> {"none", "ok", "error"}]
    BY <1>2 DEF OwnType
  <2> HIDE DEF m
  <2> QED BY <2>1, <2>2, <2>3, BecomeType
<1>3. CASE NextBlock(u, l)
  <2> DEFINE m == [l EXCEPT !.off = @ + 1, !.bg = "DONE", !.tries = 0]
  <2>1. m \in Locals
    <3> DEFINE m1 == [l EXCEPT !.off = @ + 1]
               m2 == [m1 EXCEPT !.bg = "DONE"]
    <3>1. l.off + 1 \in 0..NBlocks /\ "DONE" \in Bg /\ 0 \in 0..MaxTries
      BY FwAssumption DEF Locals, Bg
    <3>2. m1 \in Locals
      BY <3>1, FieldType
    <3>3. m2 \in Locals
      BY <3>1, <3>2, FieldType
    <3> HIDE DEF m1
    <3>4. [m2 EXCEPT !.tries = 0] \in Locals
      BY <3>1, <3>3, FieldType
    <3> QED BY <3>4 DEF m1
  <2>2. Become(u, m) /\ pc' = [pc EXCEPT ![u] = "block"] /\ ret' \in [Updaters -> {"none", "ok", "error"}]
    BY <1>3 DEF NextBlock, Goto, OwnType
  <2> HIDE DEF m
  <2> QED BY <2>1, <2>2, BecomeType
<1> QED BY <1>1, <1>2, <1>3 DEF Judge

(* The types of the switch, and of the history.                                *)
RestType ==
  /\ irq \subseteq Hdrs /\ faults \in Faults
  /\ dl \in Dl /\ dbg \in Bg /\ next \in 0..NBlocks /\ by \subseteq 0..MaxCalls
  /\ pending \in [off : 0..NBlocks - 1, call : 0..MaxCalls]
  /\ written \subseteq 0..MaxCalls /\ id \in [Updaters -> 0..MaxCalls] /\ calls \in 0..MaxCalls
  /\ overlap \in BOOLEAN

LEMMA TypeParts == (TypeOK <=> OwnType /\ RestType) /\ (TypeOK' <=> OwnType' /\ RestType')
BY DEF TypeOK, OwnType, RestType

LEMMA InitType == Init => TypeOK
<1> SUFFICES ASSUME Init PROVE TypeOK
  OBVIOUS
<1>1. OwnType
  BY LocalsType DEF Init, OwnType
<1>2. RestType
  <2>1. 0 \in 0..NBlocks /\ 0 \in 0..NBlocks - 1 /\ 0 \in 0..MaxCalls
    BY FwAssumption
  <2>2. /\ pending \in [off : 0..NBlocks - 1, call : 0..MaxCalls]
        /\ id \in [Updaters -> 0..MaxCalls]
    BY <2>1 DEF Init
  <2> QED BY <2>1, <2>2 DEF Init, RestType, Dl, Bg
<1> QED BY <1>1, <1>2, TypeParts

(* A block that the switch takes.                                              *)
LEMMA TakeType ==
  ASSUME TypeOK, NEW u \in Updaters, loc[u].off < NBlocks, TakeBlock(u)
  PROVE  /\ dl' \in Dl /\ dbg' \in Bg /\ next' \in 0..NBlocks /\ by' \subseteq 0..MaxCalls
         /\ pending' \in [off : 0..NBlocks - 1, call : 0..MaxCalls]
<1>1. loc[u].off \in 0..NBlocks - 1 /\ id[u] \in 0..MaxCalls
  BY FwAssumption DEF TypeOK, Locals
<1>2. CASE loc[u].off # 0 /\ loc[u].off # next
  BY <1>2 DEF TakeBlock, TypeOK, Bg
<1>3. CASE ~(loc[u].off # 0 /\ loc[u].off # next)
  <2>1. dl' = "INPROGRESS" /\ dbg' = "INPROGRESS" /\ next' = next
        /\ pending' = [off |-> loc[u].off, call |-> id[u]]
        /\ by' = IF loc[u].off = 0 THEN {id[u]} ELSE by \cup {id[u]}
    BY <1>3 DEF TakeBlock
  <2> QED BY <1>1, <2>1 DEF TypeOK, Dl, Bg
<1> QED BY <1>2, <1>3

(* Every step keeps the types.                                                 *)
LEMMA EnterType == ASSUME TypeOK, NEW u \in Updaters, Enter(u) PROVE TypeOK'
<1>1. OwnType
  BY TypeParts
<1>2. PICK g \in BOOLEAN, s \in Dl :
        \/ Return(u, "error")
        \/ /\ Become(u, [NoLocals EXCEPT !.status = s, !.gas = g])
           /\ Goto(u, IF g THEN "mask" ELSE "block")
           /\ ret' = [ret EXCEPT ![u] = "none"]
  BY DEF Enter
<1>3. ASSUME Return(u, "error") PROVE OwnType'
  BY <1>1, <1>3, ReturnType
<1>4. ASSUME ~Return(u, "error") PROVE OwnType'
  <2> DEFINE l == [NoLocals EXCEPT !.status = s, !.gas = g]
             p == IF g THEN "mask" ELSE "block"
  <2>1. l \in Locals
    BY LocalsType
  <2>2. Become(u, l) /\ pc' = [pc EXCEPT ![u] = p] /\ ret' \in [Updaters -> {"none", "ok", "error"}]
    BY <1>1, <1>2, <1>4 DEF Goto, OwnType
  <2>3. p \in {"mask", "block"}
    OBVIOUS
  <2> HIDE DEF l, p
  <2> QED BY <1>1, <2>1, <2>2, <2>3, BecomeType
<1>5. RestType'
  <2>1. calls' \in 0..MaxCalls /\ id' = [id EXCEPT ![u] = calls'] /\ overlap' \in BOOLEAN
    BY FwAssumption DEF Enter, TypeOK
  <2> QED BY <2>1 DEF Enter, TypeOK, RestType, switch
<1> QED BY <1>3, <1>4, <1>5, TypeParts

LEMMA MaskType == ASSUME TypeOK, NEW u \in Updaters, MaskIrq(u) PROVE TypeOK'
<1>1. OwnType
  BY TypeParts
<1>2. PICK step \in {<<"mask", "comp", "mask2">>, <<"mask2", "async", "block">>} :
        /\ pc' = [pc EXCEPT ![u] = step[3]]
        /\ loc' = [loc EXCEPT ![u].saved = @ \cup (irq \cap {step[2]})]
        /\ irq' = irq \ {step[2]}
  BY DEF MaskIrq, Goto
<1> DEFINE S == loc[u].saved \cup (irq \cap {step[2]})
           l == [loc[u] EXCEPT !.saved = S]
<1>3. loc[u] \in Locals /\ S \in SUBSET Hdrs
  BY <1>1 DEF TypeOK, OwnType, Locals
<1>4. l \in Locals
  BY <1>3, FieldType
<1>5. Become(u, l)
  BY <1>2 DEF Become
<1>6. step[3] \in {"mask2", "block"} /\ ret' \in [Updaters -> {"none", "ok", "error"}]
  BY <1>1 DEF MaskIrq, OwnType
<1> HIDE DEF l
<1>7. OwnType'
  BY <1>1, <1>2, <1>4, <1>5, <1>6, BecomeType
<1>8. RestType'
  <2>1. irq' \subseteq Hdrs
    BY <1>2 DEF TypeOK
  <2> QED BY <2>1 DEF MaskIrq, TypeOK, RestType, switch, history
<1> QED BY <1>7, <1>8, TypeParts

LEMMA RestoreType == ASSUME TypeOK, NEW u \in Updaters, RestoreIrq(u) PROVE TypeOK'
<1>1. OwnType /\ RestType
  BY TypeParts
<1>2. RestType'
  BY <1>1 DEF RestoreIrq, RestType, switch, history, Hdrs
<1>3. ASSUME pc[u] = "restore" PROVE OwnType'
  BY <1>1, <1>3 DEF RestoreIrq, OwnType, Goto
<1>4. ASSUME pc[u] = "restore2" PROVE OwnType'
  <2>1. Return(u, ret[u]) /\ ret[u] \in {"none", "ok", "error"}
    BY <1>1, <1>4 DEF RestoreIrq, OwnType
  <2> QED BY <1>1, <2>1, ReturnType
<1> QED BY <1>2, <1>3, <1>4, TypeParts DEF RestoreIrq

LEMMA SendType == ASSUME TypeOK, NEW u \in Updaters, SendBlock(u) PROVE TypeOK'
<1>1. OwnType /\ RestType /\ loc[u].off < NBlocks /\ loc[u] \in Locals
  BY TypeParts DEF SendBlock, TypeOK
<1>2. RestType'
  <2>1. CASE TakeBlock(u)
    BY <1>1, <2>1, TakeType DEF SendBlock, RestType, history
  <2>2. CASE UNCHANGED switch
    BY <1>1, <2>2 DEF SendBlock, RestType, switch, history
  <2> QED BY <2>1, <2>2 DEF SendBlock
<1>3. ASSUME NEW b \in Bg, Become(u, [loc[u] EXCEPT !.bg = b, !.tries = MaxTries]),
             Goto(u, "wait"), ret' = ret
      PROVE  OwnType'
  <2> DEFINE m == [loc[u] EXCEPT !.bg = b]
             l == [m EXCEPT !.tries = MaxTries]
  <2>1. MaxTries \in 0..MaxTries
    BY FwAssumption
  <2>2. m \in Locals
    BY <1>1, FieldType
  <2>3. l \in Locals
    BY <2>1, <2>2, FieldType
  <2>4. l.off = loc[u].off
    BY <1>1 DEF Locals
  <2>5. Become(u, l) /\ pc' = [pc EXCEPT ![u] = "wait"] /\ ret' \in [Updaters -> {"none", "ok", "error"}]
    BY <1>1, <1>3 DEF Become, Goto, OwnType
  <2> HIDE DEF m, l
  <2> QED BY <1>1, <2>3, <2>4, <2>5, BecomeType
<1>4. ASSUME Out(u, "error") PROVE OwnType'
  BY <1>1, <1>4, OutType
<1>5. OwnType'
  <2>1. CASE Out(u, "error")
    BY <1>4, <2>1
  <2>2. CASE ~Out(u, "error")
    <3>1. PICK b \in Bg : /\ Become(u, [loc[u] EXCEPT !.bg = b, !.tries = MaxTries])
                          /\ Goto(u, "wait") /\ ret' = ret
      BY <2>2 DEF SendBlock, Bg
    <3> QED BY <1>3, <3>1
  <2> QED BY <2>1, <2>2
<1> QED BY <1>2, <1>5, TypeParts

LEMMA WaitType == ASSUME TypeOK, NEW u \in Updaters, Wait(u) PROVE TypeOK'
<1>1. OwnType /\ RestType /\ loc[u].off < NBlocks /\ loc[u] \in Locals /\ dl \in Dl /\ dbg \in Bg
  BY TypeParts DEF Wait, TypeOK
<1>2. RestType'
  BY <1>1 DEF Wait, RestType, switch, history
<1>3. ASSUME Judge(u, [loc[u] EXCEPT !.status = dl, !.bg = dbg]) PROVE OwnType'
  <2> DEFINE m == [loc[u] EXCEPT !.status = dl]
             l == [m EXCEPT !.bg = dbg]
  <2>1. m \in Locals
    BY <1>1, FieldType
  <2>2. l \in Locals
    BY <1>1, <2>1, FieldType
  <2>3. l.off < NBlocks
    BY <1>1 DEF Locals
  <2>4. Judge(u, l)
    BY <1>3
  <2> HIDE DEF m, l
  <2> QED BY <1>1, <2>2, <2>3, <2>4, JudgeType
<1>4. ASSUME loc[u].tries > 1, Become(u, [loc[u] EXCEPT !.tries = @ - 1]), UNCHANGED <<pc, ret>>
      PROVE  OwnType'
  <2> DEFINE l == [loc[u] EXCEPT !.tries = loc[u].tries - 1]
  <2>1. loc[u].tries - 1 \in 0..MaxTries
    BY <1>1, <1>4, FwAssumption DEF Locals
  <2>2. l \in Locals
    BY <1>1, <2>1, FieldType
  <2>3. l.off = loc[u].off
    BY <1>1 DEF Locals
  <2>4. Become(u, l)
    BY <1>4
  <2>5. /\ pc[u] \in {"idle", "mask", "mask2", "block", "wait", "restore", "restore2"}
        /\ pc' = [pc EXCEPT ![u] = pc[u]] /\ ret' \in [Updaters -> {"none", "ok", "error"}]
    BY <1>1, <1>4 DEF OwnType
  <2> HIDE DEF l
  <2> QED BY <1>1, <2>2, <2>3, <2>4, <2>5, BecomeType
<1>5. ASSUME Out(u, "error") PROVE OwnType'
  BY <1>1, <1>5, OutType
<1>6. ASSUME Judge(u, loc[u]) PROVE OwnType'
  BY <1>1, <1>6, JudgeType
<1> QED BY <1>2, <1>3, <1>4, <1>5, <1>6, TypeParts DEF Wait

LEMMA NextType == TypeOK /\ [Next]_vars => TypeOK'
<1> SUFFICES ASSUME TypeOK, [Next]_vars PROVE TypeOK'
  OBVIOUS
<1>1. OwnType /\ RestType
  BY TypeParts
<1>2. ASSUME NEW u \in Updaters, Finish(u) PROVE TypeOK'
  <2>1. RestType'
    BY <1>1, <1>2 DEF Finish, RestType, switch, history
  <2>2. PICK r \in {"ok", "error"} : Out(u, r)
    BY <1>2 DEF Finish
  <2>3. OwnType'
    BY <1>1, <2>2, OutType
  <2> QED BY <2>1, <2>3, TypeParts
<1>3. ASSUME NEW u \in Updaters, Kill(u) PROVE TypeOK'
  <2>1. RestType'
    BY <1>1, <1>3 DEF Kill, RestType, switch, history
  <2>2. Return(u, "error")
    BY <1>3 DEF Kill
  <2>3. OwnType'
    BY <1>1, <2>2, ReturnType
  <2> QED BY <2>1, <2>3, TypeParts
<1>4. ASSUME SwitchStep PROVE TypeOK'
  <2>1. UNCHANGED <<pc, loc, ret>>
    BY <1>4 DEF SwitchStep, Programmed, ProgramFails
  <2>2. OwnType'
    BY <1>1, <2>1 DEF OwnType
  <2>3. RestType'
    <3>1. pending.off + 1 \in 0..NBlocks /\ pending.call \in 0..MaxCalls
      BY <1>1, FwAssumption DEF RestType
    <3>2. dl' \in Dl /\ dbg' \in Bg
      BY <1>4 DEF SwitchStep, Programmed, ProgramFails, Dl, Bg
    <3>3. next' \in 0..NBlocks /\ written' \subseteq 0..MaxCalls
      BY <1>1, <1>4, <3>1 DEF SwitchStep, Programmed, ProgramFails, RestType, history
    <3> QED BY <1>1, <1>4, <3>2, <3>3 DEF SwitchStep, Programmed, ProgramFails, RestType, history
  <2> QED BY <2>2, <2>3, TypeParts
<1>5. CASE UNCHANGED vars
  BY <1>5 DEF vars, switch, history, TypeOK
<1> QED BY <1>2, <1>3, <1>4, <1>5, EnterType, MaskType, SendType, WaitType, RestoreType
        DEF Next, CallerStep

(* Type correctness, for any number of updaters, blocks, tries and calls and    *)
(* any faults: also that a call that waits has a block left to wait for.        *)
THEOREM TypeHolds == Spec => []TypeOK
BY InitType, NextType, PTL DEF Spec

-----------------------------------------------------------------------------
(* Calls that are alone.                                                       *)

LEMMA InitAlone == Init => AloneInv
<1> SUFFICES ASSUME Init PROVE AloneInv
  OBVIOUS
<1>1. /\ \A u \in Updaters : pc[u] = "idle" /\ ret[u] = "none"
      /\ irq = Hdrs
  BY DEF Init
<1>2. \A u \in Updaters : Here(u)
  BY <1>1 DEF Here, Masked, Mine
<1> QED BY <1>1, <1>2 DEF AloneInv, Alone, IrqRestored

(* What a return, and the way out, do to a call and to the others.             *)
LEMMA OutDoes ==
  ASSUME TypeOK, NEW u \in Updaters, NEW r \in {"ok", "error"}, Out(u, r)
  PROVE  /\ ret'[u] = r
         /\ loc[u].gas => pc'[u] = "restore" /\ loc'[u].saved = loc[u].saved
         /\ ~loc[u].gas => pc'[u] = "idle"
         /\ \A v \in Updaters \ {u} : pc'[v] = pc[v] /\ ret'[v] = ret[v]
<1>1. CASE loc[u].gas
  <2> DEFINE l == [NoLocals EXCEPT !.saved = loc[u].saved]
  <2>1. l.saved = loc[u].saved
    BY DEF NoLocals
  <2>2. /\ loc' = [loc EXCEPT ![u] = l] /\ pc' = [pc EXCEPT ![u] = "restore"]
        /\ ret' = [ret EXCEPT ![u] = r]
    BY <1>1 DEF Out, Become, Goto
  <2> HIDE DEF l
  <2> QED BY <1>1, <2>1, <2>2 DEF TypeOK
<1>2. CASE ~loc[u].gas
  BY <1>2 DEF Out, Return, Goto, TypeOK
<1> QED BY <1>1, <1>2

(* A step of a call that is alone concerns no other.                           *)
LEMMA OnlyHere ==
  ASSUME TypeOK, AloneInv, NEW u \in Updaters, pc[u] # "idle",
         \A v \in Updaters \ {u} : pc'[v] = pc[v] /\ ret'[v] = ret[v],
         UNCHANGED history,
         ~overlap => Here(u)' /\ (pc'[u] = "idle" /\ "kill" \notin faults => irq' = Hdrs)
  PROVE  AloneInv'
<1> SUFFICES ASSUME ~overlap' PROVE (Alone /\ IrqRestored /\ \A v \in Updaters : Here(v))'
  BY DEF AloneInv
<1>1. ~overlap /\ faults' = faults /\ id' = id /\ written' = written
  BY DEF history
<1>2. \A v \in Updaters \ {u} : pc[v] = "idle" /\ Here(v)
  BY <1>1 DEF AloneInv, Alone
<1>3. \A v \in Updaters \ {u} : Here(v)'
  BY <1>1, <1>2 DEF Here, Masked, Mine
<1>4. Here(u)' /\ (pc'[u] = "idle" /\ "kill" \notin faults => irq' = Hdrs)
  BY <1>1
<1>5. Alone' /\ IrqRestored'
  BY <1>1, <1>2, <1>4 DEF Alone, IrqRestored
<1> QED BY <1>3, <1>4, <1>5

(* So it is enough that a way out is taken with the headers as they should be,   *)
(* and returns 0 only for an image that was accepted.                           *)
LEMMA OutAlone ==
  ASSUME TypeOK, AloneInv, NEW u \in Updaters, pc[u] \in {"block", "wait"},
         NEW r \in {"ok", "error"}, Out(u, r), UNCHANGED <<irq, history>>,
         ~overlap /\ faults \cap {"mrpc_err", "eof"} = {} /\ r = "ok" => id[u] \in written
  PROVE  AloneInv'
<1>1. \A v \in Updaters \ {u} : pc'[v] = pc[v] /\ ret'[v] = ret[v]
  BY OutDoes
<1>2. ASSUME ~overlap
      PROVE  Here(u)' /\ (pc'[u] = "idle" /\ "kill" \notin faults => irq' = Hdrs)
  <2>1. Here(u) /\ faults' = faults /\ id' = id /\ written' = written /\ irq' = irq
    BY <1>2 DEF AloneInv, history
  <2>2. "kill" \notin faults => Masked(u)' /\ (pc'[u] = "idle" => irq' = Hdrs)
    BY <2>1, OutDoes DEF Here, Masked
  <2>3. faults \cap {"mrpc_err", "eof"} = {} => Mine(u)'
    BY <1>2, <2>1, OutDoes DEF Mine
  <2> QED BY <2>1, <2>2, <2>3 DEF Here
<1> QED BY <1>1, <1>2, OnlyHere

LEMMA EnterAlone == ASSUME TypeOK, AloneInv, NEW u \in Updaters, Enter(u) PROVE AloneInv'
<1> SUFFICES ASSUME ~overlap' PROVE (Alone /\ IrqRestored /\ \A v \in Updaters : Here(v))'
  BY DEF AloneInv
<1>1. /\ ~overlap /\ \A v \in Updaters : pc[v] = "idle" /\ Here(v)
      /\ irq' = irq /\ faults' = faults /\ written' = written
      /\ IrqRestored
  BY DEF Enter, AloneInv
<1>2. PICK g \in BOOLEAN, s \in Dl :
        \/ Return(u, "error")
        \/ /\ Become(u, [NoLocals EXCEPT !.status = s, !.gas = g])
           /\ Goto(u, IF g THEN "mask" ELSE "block")
           /\ ret' = [ret EXCEPT ![u] = "none"]
  BY DEF Enter
<1>3. \A v \in Updaters \ {u} : pc'[v] = "idle" /\ ret'[v] = ret[v] /\ id'[v] = id[v]
  <2>1. id' = [id EXCEPT ![u] = calls']
    BY DEF Enter
  <2> QED BY <1>1, <1>2, <2>1 DEF Return, Goto, TypeOK
<1>4. \A v \in Updaters \ {u} : Here(v)'
  BY <1>1, <1>3 DEF Here, Masked, Mine
<1>5. ret'[u] \in {"none", "error"}
  BY <1>2 DEF Return, TypeOK
<1>6. "kill" \notin faults => irq = Hdrs
  BY <1>1 DEF IrqRestored
<1>7. Here(u)'
  <2>1. CASE Return(u, "error")
    BY <1>5, <2>1 DEF Here, Masked, Mine, Return, Goto, TypeOK
  <2>2. CASE ~Return(u, "error")
    <3> DEFINE l == [NoLocals EXCEPT !.status = s, !.gas = g]
    <3>1. l.gas = g /\ l.saved = {} /\ l.off = 0
      BY DEF NoLocals
    <3>2. loc' = [loc EXCEPT ![u] = l] /\ pc'[u] = IF g THEN "mask" ELSE "block"
      BY <1>2, <2>2 DEF Become, Goto, TypeOK
    <3> HIDE DEF l
    <3>3. loc'[u] = l
      BY <3>2 DEF TypeOK
    <3> QED BY <1>1, <1>5, <1>6, <3>1, <3>2, <3>3 DEF Here, Masked, Mine
  <2> QED BY <2>1, <2>2
<1>8. Alone' /\ IrqRestored'
  BY <1>1, <1>3, <1>6 DEF Alone, IrqRestored
<1> QED BY <1>4, <1>7, <1>8

LEMMA MaskAlone == ASSUME TypeOK, AloneInv, NEW u \in Updaters, MaskIrq(u) PROVE AloneInv'
<1>1. PICK step \in {<<"mask", "comp", "mask2">>, <<"mask2", "async", "block">>} :
        /\ pc[u] = step[1] /\ pc' = [pc EXCEPT ![u] = step[3]]
        /\ loc' = [loc EXCEPT ![u].saved = @ \cup (irq \cap {step[2]})]
        /\ irq' = irq \ {step[2]}
  BY DEF MaskIrq, Goto
<1>2. ret' = ret /\ UNCHANGED history
  BY DEF MaskIrq
<1>3. pc'[u] = step[3] /\ \A v \in Updaters \ {u} : pc'[v] = pc[v] /\ ret'[v] = ret[v]
  BY <1>1, <1>2 DEF TypeOK
<1>4. loc'[u] = [loc[u] EXCEPT !.saved = @ \cup (irq \cap {step[2]})]
  BY <1>1 DEF TypeOK
<1>5. loc'[u].gas = loc[u].gas /\ loc'[u].off = loc[u].off
      /\ loc'[u].saved = loc[u].saved \cup (irq \cap {step[2]})
  <2>1. loc[u] \in Locals
    BY DEF TypeOK
  <2> QED BY <1>4, <2>1 DEF Locals
<1>6. ASSUME ~overlap PROVE Here(u)'
  <2>1. Here(u) /\ faults' = faults /\ id' = id /\ written' = written
    BY <1>2, <1>6 DEF AloneInv, history
  <2>2. "kill" \notin faults => Masked(u)'
    <3>1. CASE step = <<"mask", "comp", "mask2">>
      BY <1>1, <1>3, <1>5, <2>1, <3>1 DEF Here, Masked, Hdrs
    <3>2. CASE step = <<"mask2", "async", "block">>
      BY <1>1, <1>3, <1>5, <2>1, <3>2 DEF Here, Masked, Hdrs
    <3> QED BY <3>1, <3>2
  <2>3. faults \cap {"mrpc_err", "eof"} = {} => Mine(u)'
    BY <1>1, <1>2, <1>3, <1>5, <2>1 DEF Here, Mine
  <2> QED BY <2>1, <2>2, <2>3 DEF Here
<1> QED BY <1>1, <1>2, <1>3, <1>6, OnlyHere

LEMMA RestoreAlone == ASSUME TypeOK, AloneInv, NEW u \in Updaters, RestoreIrq(u) PROVE AloneInv'
<1>1. UNCHANGED history /\ pc[u] \in {"restore", "restore2"}
  BY DEF RestoreIrq
<1>2. /\ ret' = ret
      /\ pc' = [pc EXCEPT ![u] = IF pc[u] = "restore" THEN "restore2" ELSE "idle"]
  BY DEF RestoreIrq, Return, Goto, TypeOK
<1>3. ASSUME ~overlap
      PROVE  Here(u)' /\ (pc'[u] = "idle" /\ "kill" \notin faults => irq' = Hdrs)
  <2>1. Here(u) /\ faults' = faults /\ id' = id /\ written' = written
    BY <1>1, <1>3 DEF AloneInv, history
  <2>2. CASE pc[u] = "restore"
    <3>1. pc'[u] = "restore2" /\ loc' = loc
          /\ irq' = (irq \ {"comp"}) \cup (loc[u].saved \cap {"comp"})
      BY <1>2, <2>2 DEF RestoreIrq, TypeOK
    <3>2. "kill" \notin faults => Masked(u)'
      BY <2>1, <2>2, <3>1 DEF Here, Masked, Hdrs
    <3> QED BY <1>2, <2>1, <3>1, <3>2 DEF Here, Mine
  <2>3. CASE pc[u] = "restore2"
    <3>1. pc'[u] = "idle" /\ irq' = (irq \ {"async"}) \cup (loc[u].saved \cap {"async"})
      BY <1>2, <2>3 DEF RestoreIrq, TypeOK
    <3>2. "kill" \notin faults => irq' = Hdrs
      BY <2>1, <2>3, <3>1 DEF Here, Masked, Hdrs
    <3> QED BY <1>2, <2>1, <3>1, <3>2 DEF Here, Masked, Mine
  <2> QED BY <1>1, <2>2, <2>3
<1>4. \A v \in Updaters \ {u} : pc'[v] = pc[v] /\ ret'[v] = ret[v]
  BY <1>2 DEF TypeOK
<1> QED BY <1>1, <1>3, <1>4, OnlyHere

(* A block that is taken is the caller's own.                                  *)
LEMMA SendAlone == ASSUME TypeOK, AloneInv, NEW u \in Updaters, SendBlock(u) PROVE AloneInv'
<1>1. pc[u] = "block" /\ UNCHANGED <<irq, history>>
  BY DEF SendBlock
<1>2. CASE Out(u, "error")
  BY <1>1, <1>2, OutAlone
<1>3. CASE ~Out(u, "error")
  <2>1. PICK b \in Bg : /\ TakeBlock(u) /\ Goto(u, "wait") /\ ret' = ret
                        /\ Become(u, [loc[u] EXCEPT !.bg = b, !.tries = MaxTries])
    BY <1>3 DEF SendBlock, Bg
  <2>2. pc'[u] = "wait" /\ \A v \in Updaters \ {u} : pc'[v] = pc[v] /\ ret'[v] = ret[v]
    BY <2>1 DEF Goto, TypeOK
  <2>3. loc'[u].gas = loc[u].gas /\ loc'[u].saved = loc[u].saved
    <3>1. loc[u] \in Locals /\ loc'[u] = [loc[u] EXCEPT !.bg = b, !.tries = MaxTries]
      BY <2>1 DEF Become, TypeOK
    <3> QED BY <3>1 DEF Locals
  <2>4. \/ dbg' = "OFFSET"
        \/ dbg' = "INPROGRESS" /\ dl' = "INPROGRESS" /\ pending'.call = id[u]
    BY <2>1 DEF TakeBlock
  <2>5. ASSUME ~overlap PROVE Here(u)'
    <3>1. Here(u) /\ faults' = faults /\ id' = id /\ written' = written /\ irq' = irq
      BY <1>1, <2>5 DEF AloneInv, history
    <3>2. "kill" \notin faults => Masked(u)'
      BY <1>1, <2>2, <2>3, <3>1 DEF Here, Masked
    <3>3. faults \cap {"mrpc_err", "eof"} = {} => Mine(u)'
      BY <2>1, <2>2, <2>4, <3>1 DEF Here, Mine
    <3> QED BY <3>1, <3>2, <3>3 DEF Here
  <2> QED BY <1>1, <2>2, <2>5, OnlyHere
<1> QED BY <1>2, <1>3

(* What the waiting functions make of the state of a block: that of the switch  *)
(* now, or one left over from an earlier query, which takes an error of a query. *)
LEMMA JudgeAlone ==
  ASSUME TypeOK, AloneInv, NEW u \in Updaters, pc[u] = "wait", NEW l \in Locals, Judge(u, l),
         UNCHANGED <<irq, switch, history>>, l.gas = loc[u].gas, l.saved = loc[u].saved,
         \/ l.status = dl /\ l.bg = dbg
         \/ "mrpc_err" \in faults
  PROVE  AloneInv'
<1>1. CASE Out(u, "error")
  BY <1>1, OutAlone
<1>2. CASE Become(u, [l EXCEPT !.tries = MaxTries]) /\ UNCHANGED <<pc, ret>>
  <2>1. loc'[u] = [l EXCEPT !.tries = MaxTries]
    BY <1>2 DEF Become, TypeOK
  <2>2. loc'[u].gas = loc[u].gas /\ loc'[u].saved = loc[u].saved
    BY <2>1 DEF Locals
  <2>3. ASSUME ~overlap PROVE Here(u)'
    <3>1. Here(u) /\ UNCHANGED <<faults, id, written, irq, pc, ret, dl, dbg, pending>>
      BY <1>2, <2>3 DEF AloneInv, history, switch
    <3> QED BY <2>2, <3>1 DEF Here, Masked, Mine
  <2> QED BY <1>2, <2>3, OnlyHere
<1>3. CASE NextBlock(u, l) /\ l.bg # "INPROGRESS" /\ l.bg # "OFFSET"
           /\ ~(l.bg = "ERROR" /\ l.status # "READY")
  <2>1. /\ loc'[u] = [l EXCEPT !.off = @ + 1, !.bg = "DONE", !.tries = 0]
        /\ pc' = [pc EXCEPT ![u] = "block"] /\ ret' = ret
    BY <1>3 DEF NextBlock, Become, Goto, TypeOK
  <2>2. loc'[u].gas = loc[u].gas /\ loc'[u].saved = loc[u].saved /\ loc'[u].status = l.status
    BY <2>1 DEF Locals
  <2>3. pc'[u] = "block" /\ \A v \in Updaters \ {u} : pc'[v] = pc[v] /\ ret'[v] = ret[v]
    BY <2>1 DEF TypeOK
  <2>4. ASSUME ~overlap PROVE Here(u)'
    <3>1. Here(u) /\ UNCHANGED <<faults, id, written, irq, ret, dl, dbg, pending>>
      BY <2>1, <2>4 DEF AloneInv, history, switch
    <3>2. "kill" \notin faults => Masked(u)'
      BY <2>2, <2>3, <3>1 DEF Here, Masked
    <3>3. faults \cap {"mrpc_err", "eof"} = {} => Mine(u)'
      <4> SUFFICES ASSUME faults \cap {"mrpc_err", "eof"} = {} PROVE Mine(u)'
        OBVIOUS
      <4>1. Mine(u) /\ l.status = dl /\ l.bg = dbg
        BY <3>1 DEF Here
      <4>2. dbg \in Bg
        BY DEF TypeOK
      <4>3. dl = "COMPLETES" => id[u] \in written
        BY <1>3, <4>1, <4>2 DEF Mine, Bg
      <4> QED BY <2>2, <2>3, <3>1, <4>1, <4>3 DEF Mine
    <3> QED BY <3>1, <3>2, <3>3 DEF Here
  <2> QED BY <2>3, <2>4, OnlyHere
<1> QED BY <1>1, <1>2, <1>3 DEF Judge

LEMMA WaitAlone == ASSUME TypeOK, AloneInv, NEW u \in Updaters, Wait(u) PROVE AloneInv'
<1>1. pc[u] = "wait" /\ UNCHANGED <<irq, switch, history>> /\ loc[u] \in Locals
      /\ dl \in Dl /\ dbg \in Bg
  BY DEF Wait, TypeOK
<1>2. ASSUME Judge(u, [loc[u] EXCEPT !.status = dl, !.bg = dbg]) PROVE AloneInv'
  <2> DEFINE m == [loc[u] EXCEPT !.status = dl]
             l == [m EXCEPT !.bg = dbg]
  <2>1. m \in Locals /\ m.status = dl /\ m.gas = loc[u].gas /\ m.saved = loc[u].saved
    BY <1>1, FieldType DEF Locals
  <2>2. l \in Locals
    BY <1>1, <2>1, FieldType
  <2>3. l.status = dl /\ l.bg = dbg /\ l.gas = loc[u].gas /\ l.saved = loc[u].saved
    BY <2>1 DEF Locals
  <2>4. Judge(u, l)
    BY <1>2
  <2> HIDE DEF m, l
  <2> QED BY <1>1, <2>2, <2>3, <2>4, JudgeAlone
<1>3. ASSUME Become(u, [loc[u] EXCEPT !.tries = @ - 1]), UNCHANGED <<pc, ret>> PROVE AloneInv'
  <2>1. loc'[u].gas = loc[u].gas /\ loc'[u].saved = loc[u].saved
    <3>1. loc'[u] = [loc[u] EXCEPT !.tries = @ - 1]
      BY <1>3 DEF Become, TypeOK
    <3> QED BY <1>1, <3>1 DEF Locals
  <2>2. ASSUME ~overlap PROVE Here(u)'
    <3>1. Here(u) /\ UNCHANGED <<faults, id, written, irq, pc, ret, dl, dbg, pending>>
      BY <1>1, <1>3, <2>2 DEF AloneInv, history, switch
    <3> QED BY <1>1, <2>1, <3>1 DEF Here, Masked, Mine
  <2> QED BY <1>1, <1>3, <2>2, OnlyHere
<1>4. ASSUME Out(u, "error") PROVE AloneInv'
  BY <1>1, <1>4, OutAlone
<1>5. ASSUME Judge(u, loc[u]), "mrpc_err" \in faults PROVE AloneInv'
  BY <1>1, <1>5, JudgeAlone
<1> QED BY <1>2, <1>3, <1>4, <1>5 DEF Wait

LEMMA FinishAlone == ASSUME TypeOK, AloneInv, NEW u \in Updaters, Finish(u) PROVE AloneInv'
<1> DEFINE r == IF loc[u].status = "COMPLETES" THEN "ok" ELSE "error"
<1>1. Out(u, r) /\ pc[u] = "block" /\ UNCHANGED <<irq, history>> /\ r \in {"ok", "error"}
  BY DEF Finish
<1>2. ~overlap /\ faults \cap {"mrpc_err", "eof"} = {} /\ r = "ok" => id[u] \in written
  <2> SUFFICES ASSUME ~overlap, faults \cap {"mrpc_err", "eof"} = {}, r = "ok"
               PROVE  id[u] \in written
    OBVIOUS
  <2>1. Mine(u) /\ loc[u].status = "COMPLETES"
    BY DEF AloneInv, Here
  <2>2. loc[u].off > 0
    BY FwAssumption DEF Finish
  <2> QED BY <1>1, <2>1, <2>2 DEF Mine
<1> HIDE DEF r
<1> QED BY <1>1, <1>2, OutAlone

LEMMA KillAlone == ASSUME TypeOK, AloneInv, NEW u \in Updaters, Kill(u) PROVE AloneInv'
<1>1. /\ "kill" \in faults /\ pc[u] # "idle" /\ UNCHANGED history
      /\ pc' = [pc EXCEPT ![u] = "idle"] /\ ret' = [ret EXCEPT ![u] = "error"]
  BY DEF Kill, Return, Goto
<1>2. pc'[u] = "idle" /\ ret'[u] = "error"
      /\ \A v \in Updaters \ {u} : pc'[v] = pc[v] /\ ret'[v] = ret[v]
  BY <1>1 DEF TypeOK
<1>3. Here(u)'
  BY <1>1, <1>2 DEF Here, Mine, history
<1> QED BY <1>1, <1>2, <1>3, OnlyHere

\* What the switch programs is the block of the call that waits for it.
LEMMA SwitchAlone == ASSUME TypeOK, AloneInv, SwitchStep PROVE AloneInv'
<1> SUFFICES ASSUME ~overlap' PROVE (Alone /\ IrqRestored /\ \A v \in Updaters : Here(v))'
  BY DEF AloneInv
<1>1. UNCHANGED <<pc, loc, ret, irq, pending, faults, id, overlap>>
  BY DEF SwitchStep, Programmed, ProgramFails, history
<1>2. written \subseteq written'
  BY DEF SwitchStep, Programmed, ProgramFails, history
<1>3. \/ dbg' = "DONE" /\ (dl' = "COMPLETES" => pending.call \in written')
      \/ dbg' = "ERROR" /\ dl' # "READY"
  BY DEF SwitchStep, Programmed, ProgramFails
<1>4. dbg = "INPROGRESS" /\ ~overlap
  BY <1>1 DEF SwitchStep, Programmed, ProgramFails
<1>5. ASSUME NEW v \in Updaters PROVE Here(v)'
  <2>1. Here(v)
    BY <1>4 DEF AloneInv
  <2>2. "kill" \notin faults' => Masked(v)'
    BY <1>1, <2>1 DEF Here, Masked
  <2>3. faults' \cap {"mrpc_err", "eof"} = {} => Mine(v)'
    BY <1>1, <1>2, <1>3, <1>4, <2>1 DEF Here, Mine
  <2> QED BY <2>2, <2>3 DEF Here
<1>6. Alone' /\ IrqRestored'
  BY <1>1, <1>4 DEF AloneInv, Alone, IrqRestored
<1> QED BY <1>5, <1>6

(* The invariant is inductive.                                                 *)
LEMMA NextAlone == TypeOK /\ AloneInv /\ [Next]_vars => AloneInv'
<1> SUFFICES ASSUME TypeOK, AloneInv, [Next]_vars PROVE AloneInv'
  OBVIOUS
<1>1. CASE UNCHANGED vars
  BY <1>1 DEF vars, switch, history, AloneInv, Alone, IrqRestored, Here, Masked, Mine
<1> QED BY <1>1, EnterAlone, MaskAlone, SendAlone, WaitAlone, FinishAlone, RestoreAlone,
           KillAlone, SwitchAlone DEF Next, CallerStep

(* A call that runs alone finds the headers as the last call left them, and the *)
(* block it waits for is its own, for any number of updaters and blocks.        *)
THEOREM InvHolds == Spec => []Inv
<1>1. Init => Inv
  BY InitType, InitAlone DEF Inv
<1>2. Inv /\ [Next]_vars => Inv'
  BY NextType, NextAlone DEF Inv
<1> QED BY <1>1, <1>2, PTL DEF Spec

(* switchtec_fw_write_* returns 0 only for an image of its own that the switch   *)
(* has accepted, where no status query is answered with an error, the image is   *)
(* as long as it was, and no call ran into another.                             *)
THEOREM SuccessWithoutErrorsHolds == Spec => []SuccessWithoutErrors
<1>1. Inv => SuccessWithoutErrors
  BY DEF Inv, AloneInv, Here, Mine, SuccessWithoutErrors, SuccessMeansWritten, Success
<1> QED BY <1>1, InvHolds, PTL

(* Calls that return leave the completion interrupts enabled, unless one was     *)
(* killed or ran into another.                                                  *)
THEOREM IrqRestoredHolds == Spec => []IrqRestored
<1>1. Inv => IrqRestored
  BY DEF Inv, AloneInv, IrqRestored
<1> QED BY <1>1, InvHolds, PTL

-----------------------------------------------------------------------------
(* How long a call takes: in places it passes, and in queries of one place.    *)

StepsLeft(u) ==
  CASE pc[u] = "mask"     -> 2 * NBlocks + 5
    [] pc[u] = "mask2"    -> 2 * NBlocks + 4
    [] pc[u] = "block"    -> 2 * (NBlocks - loc[u].off) + 3
    [] pc[u] = "wait"     -> 2 * (NBlocks - loc[u].off) + 2
    [] pc[u] = "restore"  -> 2
    [] pc[u] = "restore2" -> 1
    [] OTHER -> 0
Bounded == \A u \in Updaters : StepsLeft(u) \in 0..(2 * NBlocks + 5) /\ (pc[u] # "idle" => StepsLeft(u) > 0)

\* It goes on, or has a query less to repeat.
Nearer(u) ==
  \/ StepsLeft(u)' < StepsLeft(u)
  \/ StepsLeft(u)' = StepsLeft(u) /\ loc'[u].tries < loc[u].tries

LEMMA OffsetType ==
  ASSUME TypeOK, NEW u \in Updaters
  PROVE  /\ loc[u] \in Locals /\ loc[u].off \in 0..NBlocks /\ NBlocks \in Nat /\ NBlocks > 0
         /\ loc[u].tries \in 0..MaxTries /\ MaxTries \in Nat /\ MaxTries > 0
         /\ pc[u] = "wait" => loc[u].off < NBlocks
<1>1. loc[u] \in Locals /\ (pc[u] = "wait" => loc[u].off < NBlocks)
  BY DEF TypeOK
<1> QED  BY <1>1, FwAssumption DEF Locals

LEMMA OffsetBounds == TypeOK => Bounded
<1> SUFFICES ASSUME TypeOK, NEW u \in Updaters
             PROVE  StepsLeft(u) \in 0..(2 * NBlocks + 5) /\ (pc[u] # "idle" => StepsLeft(u) > 0)
  BY DEF Bounded
<1>1. pc[u] \in {"idle", "mask", "mask2", "block", "wait", "restore", "restore2"}
  BY DEF TypeOK
<1> QED  BY <1>1, OffsetType DEF StepsLeft

\* The way out of a call is shorter than any other.
LEMMA OutNears ==
  ASSUME TypeOK, NEW u \in Updaters, pc[u] \in {"block", "wait"}, NEW r \in {"ok", "error"}, Out(u, r)
  PROVE  StepsLeft(u)' \in Nat /\ StepsLeft(u)' < StepsLeft(u)
<1>1. pc'[u] \in {"restore", "idle"}
  BY OutDoes
<1>2. StepsLeft(u)' \in {0, 2}
  BY <1>1 DEF StepsLeft
<1>3. StepsLeft(u) > 2 /\ StepsLeft(u) \in Nat
  BY OffsetType DEF StepsLeft
<1> QED  BY <1>2, <1>3

\* What a query has said ends the waiting, or is INPROGRESS.
LEMMA JudgeNears ==
  ASSUME TypeOK, NEW u \in Updaters, pc[u] = "wait", NEW l \in Locals, l.off = loc[u].off, Judge(u, l)
  PROVE  /\ StepsLeft(u)' \in Nat
         /\ \/ StepsLeft(u)' < StepsLeft(u)
            \/ l.bg = "INPROGRESS" /\ StepsLeft(u)' = StepsLeft(u)
<1>1. CASE Out(u, "error")
  BY <1>1, OutNears
<1>2. CASE l.bg = "INPROGRESS" /\ Become(u, [l EXCEPT !.tries = MaxTries]) /\ UNCHANGED <<pc, ret>>
  <2>1. loc'[u] = [l EXCEPT !.tries = MaxTries]
    BY <1>2 DEF Become, TypeOK
  <2>2. loc'[u].off = loc[u].off /\ pc'[u] = pc[u]
    BY <1>2, <2>1 DEF Locals
  <2>3. StepsLeft(u)' = StepsLeft(u)
    BY <2>2 DEF StepsLeft
  <2>4. StepsLeft(u) \in Nat
    BY OffsetBounds, OffsetType DEF Bounded
  <2> QED  BY <1>2, <2>3, <2>4
<1>3. CASE NextBlock(u, l)
  <2>1. loc'[u] = [l EXCEPT !.off = @ + 1, !.bg = "DONE", !.tries = 0] /\ pc'[u] = "block"
    BY <1>3 DEF NextBlock, Become, Goto, TypeOK
  <2>2. loc'[u].off = loc[u].off + 1
    BY <2>1 DEF Locals
  <2>3. StepsLeft(u)' = 2 * (NBlocks - loc'[u].off) + 3
    BY <2>1 DEF StepsLeft
  <2>4. StepsLeft(u) = 2 * (NBlocks - loc[u].off) + 2
    BY DEF StepsLeft
  <2> QED  BY <2>2, <2>3, <2>4, OffsetType
<1> QED  BY <1>1, <1>2, <1>3 DEF Judge

LEMMA WaitNears ==
  ASSUME TypeOK, NEW u \in Updaters, Wait(u)
  PROVE  /\ StepsLeft(u)' <= StepsLeft(u)
         /\ dbg # "INPROGRESS" /\ "mrpc_err" \notin faults => Nearer(u)
<1>1. pc[u] = "wait" /\ loc[u] \in Locals /\ StepsLeft(u) \in Nat
  BY OffsetType, OffsetBounds DEF Wait, Bounded, TypeOK
<1>2. CASE Judge(u, [loc[u] EXCEPT !.status = dl, !.bg = dbg])
  <2> DEFINE m == [loc[u] EXCEPT !.status = dl]
             n == [m EXCEPT !.bg = dbg]
  <2>1. m \in Locals /\ m.off = loc[u].off
    BY <1>1, FieldType DEF TypeOK, Locals
  <2> HIDE DEF m
  <2>2. n \in Locals /\ n.off = m.off /\ n.bg = dbg
    BY <2>1, FieldType DEF TypeOK, Locals
  <2>3. Judge(u, n)
    BY <1>2 DEF m
  <2> HIDE DEF n
  <2>4. /\ StepsLeft(u)' \in Nat
        /\ StepsLeft(u)' < StepsLeft(u) \/ (dbg = "INPROGRESS" /\ StepsLeft(u)' = StepsLeft(u))
    BY <1>1, <2>1, <2>2, <2>3, JudgeNears
  <2> QED  BY <1>1, <2>4 DEF Nearer
<1>3. CASE /\ loc[u].tries > 1 /\ Become(u, [loc[u] EXCEPT !.tries = @ - 1]) /\ UNCHANGED <<pc, ret>>
  <2>1. loc'[u] = [loc[u] EXCEPT !.tries = @ - 1]
    BY <1>3 DEF Become, TypeOK
  <2>2. loc'[u].off = loc[u].off /\ loc'[u].tries = loc[u].tries - 1 /\ pc'[u] = pc[u]
    BY <1>1, <1>3, <2>1 DEF Locals
  <2>3. StepsLeft(u)' = StepsLeft(u)
    BY <2>2 DEF StepsLeft
  <2> QED  BY <1>1, <2>2, <2>3, OffsetType DEF Nearer
<1>4. CASE Out(u, "error")
  BY <1>1, <1>4, OutNears, OffsetBounds DEF Nearer
<1>5. CASE "mrpc_err" \in faults /\ Judge(u, loc[u])
  <2>1. StepsLeft(u)' \in Nat /\ (StepsLeft(u)' < StepsLeft(u) \/ StepsLeft(u)' = StepsLeft(u))
    BY <1>1, <1>5, JudgeNears
  <2> QED  BY <1>1, <1>5, <2>1
<1> QED  BY <1>2, <1>3, <1>4, <1>5 DEF Wait

LEMMA OwnStepNears ==
  ASSUME TypeOK, NEW u \in Updaters, CallerStep(u)
  PROVE  /\ StepsLeft(u)' <= StepsLeft(u)
         /\ (pc[u] = "wait" => dbg # "INPROGRESS" /\ "mrpc_err" \notin faults) => Nearer(u)
<1>1. StepsLeft(u) \in Nat /\ (pc[u] # "idle" => StepsLeft(u) > 0)
  BY OffsetType, OffsetBounds DEF Bounded
<1>2. ASSUME StepsLeft(u)' < StepsLeft(u), StepsLeft(u)' \in Int
      PROVE  StepsLeft(u)' <= StepsLeft(u) /\ Nearer(u)
  BY <1>1, <1>2 DEF Nearer
<1>3. DOMAIN pc = Updaters /\ DOMAIN loc = Updaters
  BY DEF TypeOK
<1>4. CASE MaskIrq(u)
  <2>1. CASE pc[u] = "mask" /\ pc'[u] = "mask2"
    BY <1>2, <2>1, OffsetType DEF StepsLeft
  <2>2. CASE pc[u] = "mask2" /\ pc'[u] = "block"
    <3>1. \E h : loc' = [loc EXCEPT ![u].saved = @ \cup (irq \cap {h})]
      BY <1>4 DEF MaskIrq
    <3>2. loc'[u].off = loc[u].off
      BY <1>3, <3>1, OffsetType DEF Locals
    <3>3. StepsLeft(u)' = 2 * (NBlocks - loc[u].off) + 3 /\ StepsLeft(u) = 2 * NBlocks + 4
      BY <2>2, <3>2 DEF StepsLeft
    <3> QED  BY <1>2, <3>3, OffsetType
  <2> QED  BY <1>3, <1>4, <2>1, <2>2 DEF MaskIrq, Goto
<1>5. CASE SendBlock(u)
  <2>1. pc[u] = "block"
    BY <1>5 DEF SendBlock
  <2>2. CASE Out(u, "error")
    BY <1>1, <1>2, <2>1, <2>2, OutNears
  <2>3. CASE ~Out(u, "error")
    <3>1. PICK b : Goto(u, "wait") /\ Become(u, [loc[u] EXCEPT !.bg = b, !.tries = MaxTries])
      BY <1>5, <2>3 DEF SendBlock
    <3>2. pc'[u] = "wait" /\ loc'[u] = [loc[u] EXCEPT !.bg = b, !.tries = MaxTries]
      BY <1>3, <3>1 DEF Goto, Become
    <3>3. loc'[u].off = loc[u].off
      BY <3>2, OffsetType DEF Locals
    <3>4. StepsLeft(u)' = 2 * (NBlocks - loc[u].off) + 2 /\ StepsLeft(u) = 2 * (NBlocks - loc[u].off) + 3
      BY <2>1, <3>2, <3>3 DEF StepsLeft
    <3> QED  BY <1>2, <3>4, OffsetType
  <2> QED  BY <2>2, <2>3
<1>6. CASE Wait(u)
  <2>1. pc[u] = "wait"
    BY <1>6 DEF Wait
  <2> QED  BY <1>6, <2>1, WaitNears
<1>7. CASE Finish(u)
  <2>1. pc[u] = "block" /\ \E r \in {"ok", "error"} : Out(u, r)
    BY <1>7 DEF Finish
  <2> QED  BY <1>1, <1>2, <2>1, OutNears
<1>8. CASE RestoreIrq(u)
  <2>1. \/ pc[u] = "restore" /\ pc'[u] = "restore2"
        \/ pc[u] = "restore2" /\ pc'[u] = "idle"
    BY <1>3, <1>8 DEF RestoreIrq, Goto, Return
  <2> QED  BY <1>2, <2>1 DEF StepsLeft
<1> QED  BY <1>4, <1>5, <1>6, <1>7, <1>8 DEF CallerStep

LEMMA OthersLeave ==
  ASSUME TypeOK, NEW u \in Updaters, pc[u] # "idle", ~CallerStep(u), [Next]_vars
  PROVE  StepsLeft(u)' <= StepsLeft(u)
<1>1. StepsLeft(u) \in Nat
  BY OffsetType, OffsetBounds DEF Bounded
<1>2. DOMAIN pc = Updaters /\ DOMAIN loc = Updaters
  BY DEF TypeOK
<1>3. ASSUME pc'[u] = pc[u], loc'[u] = loc[u] PROVE StepsLeft(u)' <= StepsLeft(u)
  <2>1. StepsLeft(u)' = StepsLeft(u)
    BY <1>3 DEF StepsLeft
  <2> QED  BY <1>1, <2>1
<1>4. CASE SwitchStep \/ UNCHANGED vars
  BY <1>3, <1>4 DEF SwitchStep, Programmed, ProgramFails, vars
<1>5. CASE Kill(u)
  <2>1. pc'[u] = "idle"
    BY <1>2, <1>5 DEF Kill, Return, Goto
  <2>2. StepsLeft(u)' = 0
    BY <2>1 DEF StepsLeft
  <2> QED  BY <1>1, <2>2
<1>6. ASSUME NEW v \in Updaters, v # u, Enter(v) \/ CallerStep(v) \/ Kill(v)
      PROVE  StepsLeft(u)' <= StepsLeft(u)
  <2>1. ASSUME NEW l, Goto(v, l) PROVE pc'[u] = pc[u]
    BY <1>2, <1>6, <2>1 DEF Goto
  <2>2. ASSUME NEW l, Become(v, l) PROVE loc'[u] = loc[u]
    BY <1>2, <1>6, <2>2 DEF Become
  <2>3. ASSUME NEW r, Return(v, r) \/ Out(v, r) PROVE pc'[u] = pc[u] /\ loc'[u] = loc[u]
    BY <2>1, <2>2, <2>3 DEF Return, Out
  <2>4. ASSUME NEW l, Judge(v, l) PROVE pc'[u] = pc[u] /\ loc'[u] = loc[u]
    BY <2>1, <2>2, <2>3, <2>4 DEF Judge, NextBlock
  <2>5. CASE MaskIrq(v)
    <3>1. pc'[u] = pc[u] /\ \E h : loc' = [loc EXCEPT ![v].saved = @ \cup (irq \cap {h})]
      BY <2>1, <2>5 DEF MaskIrq
    <3> QED  BY <1>2, <1>3, <1>6, <3>1
  <2>6. CASE Enter(v) \/ Kill(v)
    BY <1>3, <2>1, <2>2, <2>3, <2>6 DEF Enter, Kill
  <2>7. CASE SendBlock(v) \/ Finish(v)
    BY <1>3, <2>1, <2>2, <2>3, <2>7 DEF SendBlock, Finish
  <2>8. CASE Wait(v)
    BY <1>3, <2>2, <2>3, <2>4, <2>8 DEF Wait
  <2>9. CASE RestoreIrq(v)
    BY <1>3, <2>1, <2>3, <2>9 DEF RestoreIrq
  <2> QED  BY <1>6, <2>5, <2>6, <2>7, <2>8, <2>9 DEF CallerStep
<1>7. ~Enter(u)
  BY DEF Enter
<1> QED  BY <1>4, <1>5, <1>6, <1>7 DEF Next

(* The loops of switchtec_fw_write_fd, switchtec_fw_wait and fw_wait_gas end as  *)
(* far as they can: no step sets a call back, and while the switch is not       *)
(* programming each takes it on, also those that repeat a query that failed,    *)
(* unless the switch answers queries with errors.  So what a call can wait for  *)
(* is the switch alone.                                                        *)
THEOREM UpdateIsBounded ==
  Spec => /\ []Bounded
          /\ [][\A u \in Updaters : pc[u] # "idle" =>
                  /\ StepsLeft(u)' <= StepsLeft(u)
                  /\ CallerStep(u) /\ (pc[u] = "wait" => dbg # "INPROGRESS" /\ "mrpc_err" \notin faults)
                       => Nearer(u)]_vars
<1>1. TypeOK /\ [Next]_vars =>
        [\A u \in Updaters : pc[u] # "idle" =>
            /\ StepsLeft(u)' <= StepsLeft(u)
            /\ CallerStep(u) /\ (pc[u] = "wait" => dbg # "INPROGRESS" /\ "mrpc_err" \notin faults)
                 => Nearer(u)]_vars
  BY OwnStepNears, OthersLeave
<1> QED  BY <1>1, OffsetBounds, TypeHolds, PTL DEF Spec
=============================================================================
