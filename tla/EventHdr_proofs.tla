--------------------------- MODULE EventHdr_proofs ---------------------------
(* Proofs about EventHdr, for any number of processes, headers and calls and   *)
(* any flags: the type invariant; that event_ctl never loses an event, although *)
(* it reads and writes back without a lock (the writes of a firmware update    *)
(* do: run hdr_update_loses_event); and that calls and updates which do not    *)
(* overlap leave the enable bits as asked.                                     *)
EXTENDS EventHdr, TLAPS

(* The loops over the headers stay inside them.                                *)
LEMMA NextHdr == \A h \in Hdrs, m \in Hdrs : h < m => h + 1 \in Hdrs
<1>1. NumHdrs \in Nat
  BY HdrAssumption
<1> QED BY <1>1 DEF Hdrs

(* Index 1 is a header, and so is the last one.                                *)
LEMMA EndHdrs == 1 \in Hdrs /\ NumHdrs \in Hdrs
<1>1. NumHdrs \in Nat \ {0}
  BY HdrAssumption
<1> QED BY <1>1 DEF Hdrs

(* A header whose event has occurred is a header.                               *)
LEMMA OccurredType ==
  ASSUME NEW w \in Contents
  PROVE  [w EXCEPT !.occ = TRUE] \in Contents
BY DEF Contents

(* What a write leaves in the headers is a header.                             *)
LEMMA PutType ==
  ASSUME NEW h \in Hdrs, NEW w \in Contents, hdr \in [Hdrs -> Contents], Put(h, w)
  PROVE  hdr' \in [Hdrs -> Contents]
<1>1. [occ |-> hdr[h].occ /\ ~w.occ, en |-> w.en] \in Contents
  BY DEF Contents
<1>2. hdr' = [hdr EXCEPT ![h] = [occ |-> hdr[h].occ /\ ~w.occ, en |-> w.en]]
  BY DEF Put
<1> QED BY <1>1, <1>2

(* The initial state is well typed.                                            *)
LEMMA InitType == Init => TypeOK
<1> SUFFICES ASSUME Init PROVE TypeOK
  OBVIOUS
<1>1. hdr \in [Hdrs -> Contents]
  BY DEF Init, Contents, Bits
<1>2. Blank \in Contents
  BY DEF Blank, Contents
<1>3. asked \in [Hdrs -> SUBSET Bits]
  BY <1>1 DEF Init, Contents
<1>4. MaxCalls \in Nat
  BY HdrAssumption
<1>5. overlap \in BOOLEAN
  BY DEF Init
<1>6. at \in [Procs -> Hdrs] /\ end \in [Procs -> Hdrs]
  BY EndHdrs DEF Init
<1>7. pc \in [Procs -> {"idle", "read", "write", "mask", "masking", "masked"}]
  BY DEF Init
<1>8. /\ rd \in [Procs -> Contents] /\ save \in [Procs -> [Hdrs -> Contents]]
      /\ flags \in [Procs -> Flags \cup {NoFlags}] /\ calls \in [Procs -> 0..MaxCalls]
  BY <1>2, <1>4 DEF Init
<1> QED BY <1>1, <1>3, <1>5, <1>6, <1>7, <1>8 DEF TypeOK

(* What event_ctl writes, and what it is taken to have asked for, are typed.   *)
LEMMA EditedType ==
  ASSUME NEW r \in Contents, NEW f \in Flags \cup {NoFlags}, NEW s \in SUBSET Bits
  PROVE  Edited(r, f) \in Contents /\ (s \cup f.on) \ f.off \in SUBSET Bits
<1>1. f \in [clear : BOOLEAN, on : SUBSET Bits, off : SUBSET Bits]
  <2>1. NoFlags \in [clear : BOOLEAN, on : SUBSET Bits, off : SUBSET Bits]
    BY DEF NoFlags
  <2>2. Flags \subseteq [clear : BOOLEAN, on : SUBSET Bits, off : SUBSET Bits]
    BY HdrAssumption
  <2> QED BY <2>1, <2>2
<1>2. (r.en \cup f.on) \ f.off \in SUBSET Bits /\ (s \cup f.on) \ f.off \in SUBSET Bits
  BY <1>1 DEF Contents
<1>3. r.occ \in BOOLEAN /\ f.clear \in BOOLEAN
  BY <1>1 DEF Contents
<1> QED BY <1>2, <1>3 DEF Edited, Contents

(* Every step keeps the types.                                                 *)
LEMMA NextType == TypeOK /\ [Next]_vars => TypeOK'
<1> SUFFICES ASSUME TypeOK, [Next]_vars PROVE TypeOK'
  OBVIOUS
<1> USE DEF TypeOK
<1>1. ASSUME NEW x \in Callers, NEW f \in Flags, NEW h \in 0..NumHdrs, Ctl(x, f, h)
      PROVE TypeOK'
  <2>1. (IF h = 0 THEN 1 ELSE h) \in Hdrs /\ (IF h = 0 THEN NumHdrs ELSE h) \in Hdrs
    BY EndHdrs, HdrAssumption DEF Hdrs
  <2>2. at' \in [Procs -> Hdrs] /\ end' \in [Procs -> Hdrs]
    BY <1>1, <2>1 DEF Ctl
  <2>3. calls' \in [Procs -> 0..MaxCalls]
    <3>1. calls' = [calls EXCEPT ![x] = @ + 1] /\ calls[x] < MaxCalls /\ x \in Procs
      BY <1>1 DEF Ctl, Procs
    <3>2. calls[x] + 1 \in 0..MaxCalls
      BY <3>1, HdrAssumption
    <3> QED BY <3>1, <3>2
  <2> QED BY <1>1, <2>2, <2>3 DEF Ctl, Goto
<1>2. ASSUME NEW x \in Callers, CtlRead(x) PROVE TypeOK'
  BY <1>2 DEF CtlRead, Goto, Procs
<1>3. ASSUME NEW x \in Callers, CtlWrite(x) PROVE TypeOK'
  <2>1. x \in Procs /\ at[x] \in Hdrs /\ end[x] \in Hdrs /\ rd[x] \in Contents
    BY DEF Procs
  <2>2. hdr' \in [Hdrs -> Contents] /\ asked' \in [Hdrs -> SUBSET Bits]
    <3>1. CASE flags[x] = NoFlags
      BY <1>3, <3>1 DEF CtlWrite
    <3>2. CASE flags[x] # NoFlags
      <4>1. /\ Put(at[x], Edited(rd[x], flags[x]))
            /\ asked' = [asked EXCEPT ![at[x]] = (@ \cup flags[x].on) \ flags[x].off]
        BY <1>3, <3>2 DEF CtlWrite
      <4>2. /\ Edited(rd[x], flags[x]) \in Contents
            /\ (asked[at[x]] \cup flags[x].on) \ flags[x].off \in SUBSET Bits
        <5>1. flags[x] \in Flags \cup {NoFlags} /\ asked[at[x]] \in SUBSET Bits
          BY <2>1
        <5> HIDE DEF TypeOK
        <5> QED BY <2>1, <5>1, EditedType
      <4> QED BY <2>1, <4>1, <4>2, PutType
    <3> QED BY <3>1, <3>2
  <2>3. at' \in [Procs -> Hdrs]
    <3>1. at' = at \/ (at[x] < end[x] /\ at' = [at EXCEPT ![x] = at[x] + 1])
      BY <1>3 DEF CtlWrite
    <3> QED BY <2>1, <3>1, NextHdr
  <2>4. pc' \in [Procs -> {"idle", "read", "write", "mask", "masking", "masked"}]
    BY <1>3 DEF CtlWrite, Goto
  <2> QED BY <1>3, <2>2, <2>3, <2>4 DEF CtlWrite
<1>4. ASSUME NEW x \in Updaters, Mask(x) PROVE TypeOK'
  <2>1. x \in Procs
    BY DEF Procs
  <2>2. at' \in [Procs -> Hdrs]
    BY <1>4, EndHdrs DEF Mask
  <2>3. calls' \in [Procs -> 0..MaxCalls]
    <3>1. calls' = calls \/ (calls' = [calls EXCEPT ![x] = @ + 1] /\ calls[x] < MaxCalls)
      BY <1>4 DEF Mask
    <3>2. calls[x] < MaxCalls => calls[x] + 1 \in 0..MaxCalls
      BY <2>1, HdrAssumption
    <3> QED BY <3>1, <3>2
  <2>4. save' \in [Procs -> [Hdrs -> Contents]]
    <3>1. save' = [save EXCEPT ![x][at'[x]] = hdr[at'[x]]] /\ hdr[at'[x]] \in Contents
      BY <1>4, <2>1, <2>2 DEF Mask
    <3>2. [save[x] EXCEPT ![at'[x]] = hdr[at'[x]]] \in [Hdrs -> Contents]
      BY <2>1, <2>2, <3>1
    <3> QED BY <3>1, <3>2
  <2> QED BY <1>4, <2>2, <2>3, <2>4 DEF Mask, Goto
<1>5. ASSUME NEW x \in Updaters, Masked(x) PROVE TypeOK'
  <2>1. x \in Procs /\ at[x] \in Hdrs /\ save[x][at[x]] \in Contents
    BY DEF Procs
  <2>2. [save[x][at[x]] EXCEPT !.en = @ \ {"irq"}] \in Contents
    BY <2>1 DEF Contents
  <2>3. hdr' \in [Hdrs -> Contents]
    BY <1>5, <2>1, <2>2, PutType DEF Masked
  <2>4. at' \in [Procs -> Hdrs]
    <3>1. at' = [at EXCEPT ![x] = 1] \/ (at[x] < NumHdrs /\ at' = [at EXCEPT ![x] = at[x] + 1])
      BY <1>5 DEF Masked
    <3> QED BY <2>1, <3>1, NextHdr, EndHdrs
  <2>5. pc' \in [Procs -> {"idle", "read", "write", "mask", "masking", "masked"}]
    BY <1>5 DEF Masked, Goto
  <2> QED BY <1>5, <2>3, <2>4, <2>5 DEF Masked
<1>6. ASSUME NEW x \in Updaters, Restore(x) PROVE TypeOK'
  <2>1. x \in Procs /\ at[x] \in Hdrs /\ save[x][at[x]] \in Contents
    BY DEF Procs
  <2>2. hdr' \in [Hdrs -> Contents]
    BY <1>6, <2>1, PutType DEF Restore
  <2>3. at' \in [Procs -> Hdrs]
    <3>1. at' = at \/ (at[x] < NumHdrs /\ at' = [at EXCEPT ![x] = at[x] + 1])
      BY <1>6 DEF Restore
    <3> QED BY <2>1, <3>1, NextHdr, EndHdrs
  <2>4. pc' \in [Procs -> {"idle", "read", "write", "mask", "masking", "masked"}]
    BY <1>6 DEF Restore, Goto
  <2> QED BY <1>6, <2>2, <2>3, <2>4 DEF Restore
<1>7. ASSUME NEW h \in Hdrs, Occur(h) PROVE TypeOK'
  <2>1. hdr' \in [Hdrs -> Contents]
    <3>1. hdr \in [Hdrs -> Contents] /\ hdr' = [hdr EXCEPT ![h] = [@ EXCEPT !.occ = TRUE]]
      BY <1>7 DEF Occur
    <3>2. [hdr[h] EXCEPT !.occ = TRUE] \in Contents
      BY <3>1, OccurredType
    <3> HIDE DEF TypeOK
    <3> QED BY <3>1, <3>2
  <2> QED BY <1>7, <2>1 DEF Occur
<1>8. ASSUME NEW h \in Hdrs, Irq(h) PROVE TypeOK'
  <2>1. hdr' \in [Hdrs -> Contents] /\ asked' \in [Hdrs -> SUBSET Bits]
    BY <1>8 DEF Irq, Contents
  <2> QED BY <1>8, <2>1 DEF Irq
<1>9. CASE UNCHANGED vars
  BY <1>9 DEF vars
<1> QED BY <1>1, <1>2, <1>3, <1>4, <1>5, <1>6, <1>7, <1>8, <1>9 DEF Next

(* Type correctness, for every value of the constants.                         *)
THEOREM TypeHolds == Spec => []TypeOK
BY InitType, NextType, PTL DEF Spec

\* What CtlLosesNoEvent says of a step.
KeepsEvents ==
  (\A u \in Updaters : pc'[u] = pc[u] /\ at'[u] = at[u]) =>
    \A h \in Hdrs : (hdr[h].occ /\ ~hdr'[h].occ) => Clears(h)

(* A step in which bit 0 of a header goes is a write of a call that asked for  *)
(* it and had read the event, or a write of an update, which moves the update. *)
LEMMA StepKeepsEvents == ASSUME TypeOK, [Next]_vars PROVE KeepsEvents
<1> SUFFICES ASSUME \A u \in Updaters : pc'[u] = pc[u] /\ at'[u] = at[u],
                    NEW h \in Hdrs, hdr[h].occ, ~hdr'[h].occ
             PROVE Clears(h)
  BY DEF KeepsEvents
<1>1. ASSUME NEW x \in Callers, CtlWrite(x)
      PROVE pc[x] = "write" /\ pc'[x] # "write" /\ at[x] = h /\ flags[x].clear /\ rd[x].occ
  <2>1. pc[x] = "write" /\ pc'[x] # "write"
    BY <1>1 DEF CtlWrite, Goto, TypeOK, Procs
  <2>2. Put(at[x], Edited(rd[x], flags[x]))
    BY <1>1 DEF CtlWrite
  <2>3. hdr' = [hdr EXCEPT ![at[x]] = [occ |-> @.occ /\ ~Edited(rd[x], flags[x]).occ,
                                       en |-> Edited(rd[x], flags[x]).en]]
    BY <2>2 DEF Put
  <2>4. at[x] = h
    BY <2>3
  <2>5. hdr'[h].occ = (hdr[h].occ /\ ~Edited(rd[x], flags[x]).occ)
    BY <2>3, <2>4 DEF TypeOK
  <2>6. Edited(rd[x], flags[x]).occ
    BY <2>5
  <2> QED BY <2>1, <2>4, <2>6 DEF Edited
<1>2. ASSUME NEW g \in Hdrs, Occur(g) PROVE FALSE
  BY <1>2 DEF Occur, TypeOK, Contents
<1>3. ASSUME NEW g \in Hdrs, Irq(g) PROVE FALSE
  BY <1>3 DEF Irq, TypeOK, Contents
<1>4. ASSUME hdr' = hdr PROVE FALSE
  BY <1>4
<1>5. ASSUME NEW x \in Callers, CtlRead(x) \/ \E f \in Flags, g \in 0..NumHdrs : Ctl(x, f, g)
      PROVE hdr' = hdr
  BY <1>5 DEF CtlRead, Ctl
<1>6. UNCHANGED vars => hdr' = hdr
  BY DEF vars
<1>7. ASSUME NEW x \in Updaters, Mask(x) PROVE FALSE
  BY <1>4, <1>7 DEF Mask
<1>8. ASSUME NEW x \in Updaters, Masked(x) PROVE FALSE
  <2>1. x \in Procs /\ pc[x] = "masking" /\ pc'[x] = pc[x]
    BY <1>8 DEF Masked, Procs
  <2>2. pc' = [pc EXCEPT ![x] = "mask"] \/ pc' = [pc EXCEPT ![x] = "masked"]
    BY <1>8 DEF Masked, Goto
  <2> QED BY <2>1, <2>2 DEF TypeOK
<1>9. ASSUME NEW x \in Updaters, Restore(x) PROVE FALSE
  <2>1. x \in Procs /\ pc[x] = "masked" /\ pc'[x] = pc[x] /\ at'[x] = at[x]
    BY <1>9 DEF Restore, Procs
  <2>2. at' = [at EXCEPT ![x] = at[x] + 1] \/ pc' = [pc EXCEPT ![x] = "idle"]
    BY <1>9 DEF Restore, Goto
  <2>3. at[x] + 1 # at[x]
    BY <2>1 DEF TypeOK, Hdrs
  <2> QED BY <2>1, <2>2, <2>3 DEF TypeOK
<1>10. ASSUME NEW x \in Callers, CtlWrite(x) PROVE Clears(h)
  BY <1>1, <1>10 DEF Clears
<1> QED BY <1>2, <1>3, <1>4, <1>5, <1>6, <1>7, <1>8, <1>9, <1>10 DEF Next

(* events.c:48-51: however the calls, the interrupts and the updates run into  *)
(* each other, no event_ctl clears an event it has not read and was not asked  *)
(* to clear.                                                                   *)
THEOREM CtlLosesNoEventHolds == Spec => CtlLosesNoEvent
<1>1. TypeOK /\ [Next]_vars => [KeepsEvents]_vars
  BY StepKeepsEvents
<1> QED BY <1>1, TypeHolds, PTL DEF Spec, CtlLosesNoEvent, KeepsEvents

(* After the last header there is none, and before the next one is this one.   *)
LEMMA BeforeNext ==
  ASSUME NEW n \in Hdrs
  PROVE  /\ \A h \in Hdrs : h < n + 1 <=> h < n \/ h = n
         /\ \A h \in Hdrs : h >= n + 1 => h >= n /\ h # n
         /\ ~(n < NumHdrs) => \A h \in Hdrs : h < n + 1
         /\ \A h \in Hdrs : h >= 1 /\ ~(h < 1)
         /\ \A h \in Hdrs : h < n \/ h >= n
<1>1. NumHdrs \in Nat
  BY HdrAssumption
<1> QED BY <1>1 DEF Hdrs

(* A step of the process that is busy keeps AskedInv if the process knows the  *)
(* same of the headers afterwards, or leaves them settled.                     *)
LEMMA BusyStep ==
  ASSUME TypeOK, AskedInv, NEW z \in Procs, pc[z] # "idle", overlap' = overlap,
         \A y \in Procs : y # z => pc'[y] = pc[y],
         (~overlap /\ Knows(z)) => IF pc'[z] = "idle" THEN Settled' ELSE Knows(z)'
  PROVE  AskedInv'
<1> SUFFICES ASSUME ~overlap
             PROVE (/\ \A x, y \in Procs : pc[x] # "idle" /\ pc[y] # "idle" => x = y
                    /\ IF Busy THEN \A x \in Procs : pc[x] # "idle" => Knows(x) ELSE Settled)'
  BY DEF AskedInv
<1>1. Busy
  BY DEF Busy
<1>2. Knows(z) /\ \A y \in Procs : y # z => pc[y] = "idle"
  BY <1>1 DEF AskedInv
<1>3. \A y \in Procs : y # z => pc'[y] = "idle"
  BY <1>2
<1>4. CASE pc'[z] = "idle"
  <2>1. ~Busy'
    BY <1>3, <1>4 DEF Busy
  <2>2. Settled'
    BY <1>2, <1>4
  <2> QED BY <1>3, <1>4, <2>1, <2>2
<1>5. CASE pc'[z] # "idle"
  <2>1. Busy'
    BY <1>5 DEF Busy
  <2>2. Knows(z)'
    BY <1>2, <1>5
  <2>3. \A x, y \in Procs : pc'[x] # "idle" /\ pc'[y] # "idle" => x = y
    BY <1>3
  <2>4. ASSUME NEW x \in Procs, pc'[x] # "idle" PROVE Knows(x)'
    <3>1. x = z
      BY <1>3, <2>4
    <3> QED BY <2>2, <3>1
  <2> QED BY <2>1, <2>3, <2>4
<1> QED BY <1>4, <1>5

(* The first step of a call or an update keeps it if the headers were settled. *)
LEMMA FirstStep ==
  ASSUME TypeOK, AskedInv, NEW z \in Procs, overlap' = (overlap \/ Busy),
         \A y \in Procs : y # z => pc'[y] = pc[y], pc'[z] # "idle",
         (~overlap /\ Settled) => Knows(z)'
  PROVE  AskedInv'
<1> SUFFICES ASSUME ~overlap'
             PROVE (/\ \A x, y \in Procs : pc[x] # "idle" /\ pc[y] # "idle" => x = y
                    /\ IF Busy THEN \A x \in Procs : pc[x] # "idle" => Knows(x) ELSE Settled)'
  BY DEF AskedInv
<1>1. ~overlap /\ ~Busy
  BY DEF TypeOK
<1>2. Settled /\ \A y \in Procs : pc[y] = "idle"
  BY <1>1 DEF AskedInv, Busy
<1>3. \A y \in Procs : y # z => pc'[y] = "idle"
  BY <1>2
<1>4. Busy' /\ Knows(z)'
  BY <1>1, <1>2 DEF Busy
<1>5. \A x, y \in Procs : pc'[x] # "idle" /\ pc'[y] # "idle" => x = y
  BY <1>3
<1>6. ASSUME NEW x \in Procs, pc'[x] # "idle" PROVE Knows(x)'
  <2>1. x = z
    BY <1>3, <1>6
  <2> QED BY <1>4, <2>1
<1> QED BY <1>4, <1>5, <1>6

(* A step that leaves the enable bits alone and moves nobody keeps it.         *)
LEMMA StillAsked ==
  ASSUME TypeOK, AskedInv, UNCHANGED <<pc, at, rd, save, asked, overlap>>,
         \A h \in Hdrs : hdr'[h].en = hdr[h].en
  PROVE  AskedInv'
<1>1. Busy' <=> Busy
  BY DEF Busy
<1>2. Settled' <=> Settled
  BY DEF Settled
<1>3. \A x \in Procs, h \in Hdrs : Hidden(x, h)' <=> Hidden(x, h)
  BY DEF Hidden
<1>4. \A x \in Procs : at[x] \in Hdrs
  BY DEF TypeOK
<1>5. ASSUME NEW x \in Procs, Knows(x) PROVE Knows(x)'
  BY <1>2, <1>3, <1>4, <1>5 DEF Knows
<1> QED BY <1>1, <1>2, <1>5 DEF AskedInv

(* Every step keeps what is known of the enable bits.                          *)
LEMMA NextAsked == TypeOK /\ AskedInv /\ [Next]_vars => AskedInv'
<1> SUFFICES ASSUME TypeOK, AskedInv, [Next]_vars PROVE AskedInv'
  OBVIOUS
<1>1. ASSUME NEW x \in Callers, NEW f \in Flags, NEW g \in 0..NumHdrs, Ctl(x, f, g)
      PROVE AskedInv'
  <2>1. /\ pc' = [pc EXCEPT ![x] = "read"] /\ overlap' = (overlap \/ Busy) /\ x \in Procs
        /\ UNCHANGED <<hdr, rd, save, asked>>
    BY <1>1 DEF Ctl, Goto, Procs
  <2>2. pc'[x] = "read" /\ \A y \in Procs : y # x => pc'[y] = pc[y]
    BY <2>1 DEF TypeOK
  <2>3. Settled => Knows(x)'
    BY <2>1, <2>2 DEF Settled, Knows
  <2> QED BY <2>1, <2>2, <2>3, FirstStep
<1>2. ASSUME NEW x \in Callers, CtlRead(x) PROVE AskedInv'
  <2>1. /\ pc[x] = "read" /\ pc' = [pc EXCEPT ![x] = "write"] /\ x \in Procs
        /\ rd' = [rd EXCEPT ![x] = hdr[at[x]]]
        /\ UNCHANGED <<hdr, at, save, asked, overlap>>
    BY <1>2 DEF CtlRead, Goto, Procs
  <2>2. pc'[x] = "write" /\ \A y \in Procs : y # x => pc'[y] = pc[y]
    BY <2>1 DEF TypeOK
  <2>3. rd'[x].en = hdr[at[x]].en
    BY <2>1 DEF TypeOK
  <2>4. Knows(x) => Knows(x)'
    BY <2>1, <2>2, <2>3 DEF Settled, Knows
  <2> QED BY <2>1, <2>2, <2>4, BusyStep
<1>3. ASSUME NEW x \in Callers, CtlWrite(x) PROVE AskedInv'
  <2>1. /\ pc[x] = "write" /\ x \in Procs /\ at[x] \in Hdrs
        /\ UNCHANGED <<rd, save, flags, overlap>>
        /\ pc' = [pc EXCEPT ![x] = "read"] \/ pc' = [pc EXCEPT ![x] = "idle"]
    BY <1>3 DEF CtlWrite, Goto, Procs, TypeOK
  <2>2. /\ pc'[x] \in {"read", "idle"} /\ \A y \in Procs : y # x => pc'[y] = pc[y]
    BY <2>1 DEF TypeOK
  <2>3. ASSUME Knows(x) PROVE Settled'
    <3>1. Settled /\ rd[x].en = hdr[at[x]].en
      BY <2>1, <2>3 DEF Knows
    <3>2. CASE flags[x] = NoFlags
      <4>1. hdr' = hdr /\ asked' = asked
        BY <1>3, <3>2 DEF CtlWrite
      <4> QED BY <3>1, <4>1 DEF Settled
    <3>3. CASE flags[x] # NoFlags
      <4>1. /\ Put(at[x], Edited(rd[x], flags[x]))
            /\ asked' = [asked EXCEPT ![at[x]] = (@ \cup flags[x].on) \ flags[x].off]
        BY <1>3, <3>3 DEF CtlWrite
      <4>2. hdr'[at[x]].en = (rd[x].en \cup flags[x].on) \ flags[x].off
        BY <2>1, <4>1 DEF Put, Edited, TypeOK
      <4>3. asked'[at[x]] = (asked[at[x]] \cup flags[x].on) \ flags[x].off
        BY <2>1, <4>1 DEF TypeOK
      <4>4. asked[at[x]] = rd[x].en
        BY <2>1, <3>1 DEF Settled
      <4>5. \A h \in Hdrs : h # at[x] => hdr'[h] = hdr[h] /\ asked'[h] = asked[h]
        BY <2>1, <4>1 DEF Put, TypeOK
      <4> QED BY <3>1, <4>2, <4>3, <4>4, <4>5 DEF Settled
    <3> QED BY <3>2, <3>3
  <2>4. Settled' /\ pc'[x] = "read" => Knows(x)'
    BY DEF Knows
  <2> QED BY <2>1, <2>2, <2>3, <2>4, BusyStep
<1>4. ASSUME NEW x \in Updaters, Mask(x) PROVE AskedInv'
  <2>1. /\ pc' = [pc EXCEPT ![x] = "masking"] /\ x \in Procs
        /\ save' = [save EXCEPT ![x][at'[x]] = hdr[at'[x]]]
        /\ UNCHANGED <<hdr, rd, asked>>
    BY <1>4 DEF Mask, Goto, Procs
  <2>2. pc'[x] = "masking" /\ \A y \in Procs : y # x => pc'[y] = pc[y]
    BY <2>1 DEF TypeOK
  <2>3. at'[x] \in Hdrs
    BY <1>4, EndHdrs DEF Mask, TypeOK, Procs
  <2>4. /\ save'[x][at'[x]] = hdr[at'[x]]
        /\ \A h \in Hdrs : h # at'[x] => save'[x][h] = save[x][h]
    BY <2>1, <2>3 DEF TypeOK
  <2>5. CASE pc[x] = "mask"
    <3>1. at' = at /\ overlap' = overlap
      BY <1>4, <2>5 DEF Mask
    <3>2. ASSUME Knows(x) PROVE Knows(x)'
      <4>1. \A h \in Hdrs : (h < at[x] => Hidden(x, h)) /\ (h >= at[x] => hdr[h].en = asked[h])
        BY <2>5, <3>2 DEF Knows
      <4>2. at[x] \in Hdrs /\ \A h \in Hdrs : h < at[x] => h # at[x]
        BY <2>3, <3>1 DEF Hdrs
      <4>3. \A h \in Hdrs : h < at[x] => Hidden(x, h)'
        BY <2>1, <2>4, <3>1, <4>1, <4>2 DEF Hidden
      <4>4. save'[x][at'[x]].en = asked'[at'[x]]
        <5>1. at[x] >= at[x]
          BY <4>2 DEF Hdrs
        <5> QED BY <2>1, <2>4, <3>1, <4>1, <4>2, <5>1
      <4> QED BY <2>1, <2>2, <3>1, <4>1, <4>3, <4>4 DEF Knows
    <3> QED BY <2>1, <2>2, <2>5, <3>1, <3>2, BusyStep
  <2>6. CASE pc[x] # "mask"
    <3>1. at' = [at EXCEPT ![x] = 1] /\ overlap' = (overlap \/ Busy)
      BY <1>4, <2>6 DEF Mask
    <3>2. ASSUME Settled PROVE Knows(x)'
      <4>1. at'[x] = 1
        BY <2>1, <3>1 DEF TypeOK
      <4>2. \A h \in Hdrs : ~(h < 1) /\ hdr'[h].en = asked'[h]
        BY <2>1, <3>2, EndHdrs, BeforeNext DEF Settled
      <4>3. save'[x][at'[x]].en = asked'[at'[x]]
        BY <2>1, <2>3, <2>4, <3>2 DEF Settled
      <4> QED BY <2>2, <4>1, <4>2, <4>3 DEF Knows
    <3> QED BY <2>1, <2>2, <3>1, <3>2, FirstStep
  <2> QED BY <2>5, <2>6
<1>5. ASSUME NEW x \in Updaters, Masked(x) PROVE AskedInv'
  <2>1. /\ pc[x] = "masking" /\ x \in Procs /\ at[x] \in Hdrs
        /\ UNCHANGED <<rd, save, asked, overlap>>
        /\ Put(at[x], [save[x][at[x]] EXCEPT !.en = @ \ {"irq"}])
        /\ IF at[x] < NumHdrs
           THEN pc' = [pc EXCEPT ![x] = "mask"] /\ at' = [at EXCEPT ![x] = at[x] + 1]
           ELSE pc' = [pc EXCEPT ![x] = "masked"] /\ at' = [at EXCEPT ![x] = 1]
    BY <1>5 DEF Masked, Goto, Procs, TypeOK
  <2>2. \A y \in Procs : y # x => pc'[y] = pc[y]
    BY <2>1 DEF TypeOK
  <2>3. /\ hdr'[at[x]].en = save[x][at[x]].en \ {"irq"}
        /\ \A h \in Hdrs : h # at[x] => hdr'[h] = hdr[h]
    <3>1. save[x][at[x]] \in Contents
      BY <2>1 DEF TypeOK
    <3>2. [save[x][at[x]] EXCEPT !.en = @ \ {"irq"}].en = save[x][at[x]].en \ {"irq"}
      BY <3>1 DEF Contents
    <3> QED BY <2>1, <3>2 DEF Put, TypeOK
  <2>4. pc'[x] # "idle"
    BY <2>1 DEF TypeOK
  <2>5. ASSUME Knows(x) PROVE Knows(x)'
    <3>1. /\ \A h \in Hdrs : (h < at[x] => Hidden(x, h)) /\ (h >= at[x] => hdr[h].en = asked[h])
          /\ save[x][at[x]].en = asked[at[x]]
      BY <2>1, <2>5 DEF Knows
    <3>2. /\ \A h \in Hdrs : h < at[x] => h # at[x]
      BY <2>1 DEF Hdrs
    <3>3. \A h \in Hdrs : h < at[x] \/ h = at[x] => Hidden(x, h)'
      BY <2>1, <2>3, <3>1, <3>2 DEF Hidden
    <3>4. \A h \in Hdrs : h >= at[x] /\ h # at[x] => hdr'[h].en = asked'[h]
      BY <2>1, <2>3, <3>1
    <3>5. CASE at[x] < NumHdrs
      <4>1. pc'[x] = "mask" /\ at'[x] = at[x] + 1
        BY <2>1, <3>5 DEF TypeOK
      <4>2. \A h \in Hdrs : (h < at[x] + 1 => Hidden(x, h)') /\ (h >= at[x] + 1 => hdr'[h].en = asked'[h])
        BY <2>1, <3>3, <3>4, BeforeNext
      <4> QED BY <4>1, <4>2 DEF Knows
    <3>6. CASE ~(at[x] < NumHdrs)
      <4>1. pc'[x] = "masked" /\ at'[x] = 1
        BY <2>1, <3>6 DEF TypeOK
      <4>2. \A h \in Hdrs : Hidden(x, h)' /\ ~(h < 1)
        BY <2>1, <3>3, <3>6, BeforeNext
      <4> QED BY <4>1, <4>2 DEF Knows
    <3> QED BY <3>5, <3>6
  <2> QED BY <2>1, <2>2, <2>4, <2>5, BusyStep
<1>6. ASSUME NEW x \in Updaters, Restore(x) PROVE AskedInv'
  <2>1. /\ pc[x] = "masked" /\ x \in Procs /\ at[x] \in Hdrs
        /\ UNCHANGED <<rd, save, asked, overlap>>
        /\ Put(at[x], save[x][at[x]])
        /\ IF at[x] < NumHdrs THEN at' = [at EXCEPT ![x] = at[x] + 1] /\ pc' = pc
           ELSE pc' = [pc EXCEPT ![x] = "idle"]
    BY <1>6 DEF Restore, Goto, Procs, TypeOK
  <2>2. \A y \in Procs : y # x => pc'[y] = pc[y]
    BY <2>1 DEF TypeOK
  <2>3. /\ hdr'[at[x]].en = save[x][at[x]].en
        /\ \A h \in Hdrs : h # at[x] => hdr'[h] = hdr[h]
    BY <2>1 DEF Put, TypeOK
  <2>4. ASSUME Knows(x) PROVE IF pc'[x] = "idle" THEN Settled' ELSE Knows(x)'
    <3>1. \A h \in Hdrs : (h >= at[x] => Hidden(x, h)) /\ (h < at[x] => hdr[h].en = asked[h])
      BY <2>1, <2>4 DEF Knows
    <3>2. at[x] >= at[x] /\ \A h \in Hdrs : h < at[x] => h # at[x]
      BY <2>1 DEF Hdrs
    <3>3. \A h \in Hdrs : h < at[x] \/ h = at[x] => hdr'[h].en = asked'[h]
      BY <2>1, <2>3, <3>1, <3>2 DEF Hidden
    <3>4. \A h \in Hdrs : h >= at[x] /\ h # at[x] => Hidden(x, h)'
      BY <2>1, <2>3, <3>1 DEF Hidden
    <3>5. CASE at[x] < NumHdrs
      <4>1. pc'[x] = "masked" /\ at'[x] = at[x] + 1
        BY <2>1, <3>5 DEF TypeOK
      <4>2. \A h \in Hdrs : (h >= at[x] + 1 => Hidden(x, h)') /\ (h < at[x] + 1 => hdr'[h].en = asked'[h])
        BY <2>1, <3>3, <3>4, BeforeNext
      <4> QED BY <4>1, <4>2 DEF Knows
    <3>6. CASE ~(at[x] < NumHdrs)
      <4>1. pc'[x] = "idle"
        BY <2>1, <3>6 DEF TypeOK
      <4>2. \A h \in Hdrs : hdr'[h].en = asked'[h]
        BY <2>1, <3>3, <3>6, BeforeNext
      <4> QED BY <4>1, <4>2 DEF Settled
    <3> QED BY <3>5, <3>6
  <2> QED BY <2>1, <2>2, <2>4, BusyStep
<1>7. ASSUME NEW g \in Hdrs, Occur(g) PROVE AskedInv'
  <2>1. hdr' = [hdr EXCEPT ![g].occ = TRUE] /\ UNCHANGED <<pc, at, rd, save, asked, overlap>>
    BY <1>7 DEF Occur
  <2>2. \A h \in Hdrs : hdr'[h].en = hdr[h].en
    BY <2>1 DEF TypeOK, Contents
  <2> QED BY <2>1, <2>2, StillAsked
<1>8. ASSUME NEW g \in Hdrs, Irq(g) PROVE AskedInv'
  <2>1. /\ hdr' = [hdr EXCEPT ![g].en = @ \ {"irq"}] /\ asked' = [asked EXCEPT ![g] = @ \ {"irq"}]
        /\ overlap' = (overlap \/ Busy) /\ pc' = pc
    BY <1>8 DEF Irq
  <2>2. CASE overlap'
    BY <2>2 DEF AskedInv
  <2>3. CASE ~overlap'
    <3>1. ~overlap /\ ~Busy
      BY <2>1, <2>3 DEF TypeOK
    <3>2. Settled /\ \A y \in Procs : pc'[y] = "idle"
      BY <2>1, <3>1 DEF AskedInv, Busy
    <3>3. \A h \in Hdrs : hdr'[h].en = asked'[h]
      <4>1. hdr'[g].en = hdr[g].en \ {"irq"} /\ asked'[g] = asked[g] \ {"irq"}
        BY <2>1 DEF TypeOK, Contents
      <4>2. \A h \in Hdrs : h # g => hdr'[h] = hdr[h] /\ asked'[h] = asked[h]
        BY <2>1 DEF TypeOK
      <4> QED BY <3>2, <4>1, <4>2 DEF Settled
    <3> QED BY <3>2, <3>3 DEF AskedInv, Busy, Settled
  <2> QED BY <2>2, <2>3
<1>9. CASE UNCHANGED vars
  BY <1>9, StillAsked DEF vars
<1> QED BY <1>1, <1>2, <1>3, <1>4, <1>5, <1>6, <1>7, <1>8, <1>9 DEF Next

(* The inductive invariant holds in every reachable state.                     *)
THEOREM InvHolds == Spec => []Inv
<1>1. Init => Inv
  <2> SUFFICES ASSUME Init PROVE AskedInv
    BY InitType DEF Inv
  <2>1. Settled /\ \A x \in Procs : pc[x] = "idle"
    BY DEF Init, Settled
  <2> QED BY <2>1 DEF AskedInv, Busy
<1>2. Inv /\ [Next]_vars => Inv'
  BY NextType, NextAsked DEF Inv
<1> QED BY <1>1, <1>2, PTL DEF Spec

(* platform.c:319: while no two of them run into each other, calls and         *)
(* interrupts leave the enable bits asked for, in their order, and an update   *)
(* leaves them as they were.                                                   *)
THEOREM AsAskedHolds == Spec => []AsAsked
<1>1. Inv => AsAsked
  <2> SUFFICES ASSUME Inv, ~overlap, NEW h \in Hdrs
               PROVE LET hidden == IF \E x \in Updaters : pc[x] # "idle" THEN {"irq"} ELSE {}
                     IN  hdr[h].en \ hidden = asked[h] \ hidden
    BY DEF AsAsked
  <2>1. CASE ~Busy
    BY <2>1 DEF Inv, AskedInv, Settled
  <2>2. CASE Busy
    <3>1. PICK x \in Procs : pc[x] # "idle"
      BY <2>2 DEF Busy
    <3>2. Knows(x)
      BY <2>2, <3>1 DEF Inv, AskedInv
    <3>3. at[x] \in Hdrs /\ pc[x] \in {"read", "write", "mask", "masking", "masked"}
      BY <3>1 DEF Inv, TypeOK
    <3>4. hdr[h].en = asked[h] \/ (x \in Updaters /\ hdr[h].en = asked[h] \ {"irq"})
      <4>1. h < at[x] \/ h >= at[x]
        BY <3>3, BeforeNext
      <4> QED BY <3>2, <3>3, <4>1 DEF Knows, Settled, Hidden
    <3> QED BY <3>1, <3>4
  <2> QED BY <2>1, <2>2
<1> QED BY <1>1, InvHolds, PTL
=============================================================================
