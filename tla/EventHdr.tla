------------------------------ MODULE EventHdr ------------------------------
(* The event headers of the GAS and those who change them by reading, editing  *)
(* and writing back: gasop_event_ctl (lib/platform/gasops.c), and the firmware *)
(* writers, which mask the MRPC completion interrupts for the time of an       *)
(* update (fw_gas_mask_irq and fw_gas_restore_irq, lib/fw.c).  Bit 0 of a      *)
(* header reads as "occurred" and is cleared by writing 1 to it.  Every caller *)
(* is a process with a handle of its own; nothing locks a header.  The switch  *)
(* and the driver of another host, which disables an interrupt it has taken,   *)
(* are external.                                                               *)
EXTENDS Naturals

CONSTANTS Callers,    \* processes that call switchtec_event_ctl
          Updaters,   \* processes that call switchtec_fw_write_fd or _file
          NumHdrs,    \* headers of an event: its indices, or the two headers
                      \* the firmware writers mask
          Flags,      \* the flags calls are made with
          OtherHost,  \* BOOLEAN: a driver of another host takes the interrupts
          MaxCalls    \* bound on the calls of a process

Hdrs == 1..NumHdrs
Bits == {"irq", "log", "cli", "fatal"}
Contents == [occ : BOOLEAN, en : SUBSET Bits]

ASSUME HdrAssumption ==
  /\ NumHdrs \in Nat \ {0} /\ OtherHost \in BOOLEAN /\ MaxCalls \in Nat
  /\ Flags \subseteq [clear : BOOLEAN, on : SUBSET Bits, off : SUBSET Bits]

Procs == Callers \cup Updaters

VARIABLES hdr,    \* the headers
          pc,     \* per process: idle, read, write; mask, masked, restore
          at,     \* per process: the header it is at
          end,    \* per process: the last header it handles
          rd,     \* per process: what it read from that header
          save,   \* per process: struct fw_gas_irq_state
          flags,  \* per process: the flags of its call
          asked,  \* the bits that are on if every call were one step (history)
          calls,  \* per process: calls started (history)
          overlap \* a call or an update ran into another one (history)

vars == <<hdr, pc, at, end, rd, save, flags, asked, calls, overlap>>

NoFlags == [clear |-> FALSE, on |-> {}, off |-> {}]
Blank == [occ |-> FALSE, en |-> {}]

Init ==
  /\ hdr \in [Hdrs -> [occ : {FALSE}, en : {{}, {"irq"}}]]
  /\ pc = [x \in Procs |-> "idle"] /\ at = [x \in Procs |-> 1] /\ end = at
  /\ rd = [x \in Procs |-> Blank] /\ save = [x \in Procs |-> [h \in Hdrs |-> Blank]]
  /\ flags = [x \in Procs |-> NoFlags]
  /\ asked = [h \in Hdrs |-> hdr[h].en] /\ calls = [x \in Procs |-> 0]
  /\ overlap = FALSE

Goto(x, l) == pc' = [pc EXCEPT ![x] = l]
Busy == \E x \in Procs : pc[x] # "idle"

\* A 32-bit write of a header.
Put(h, w) == hdr' = [hdr EXCEPT ![h] = [occ |-> @.occ /\ ~w.occ, en |-> w.en]]

-----------------------------------------------------------------------------
\* gasop_event_ctl for one index, or for SWITCHTEC_EVT_IDX_ALL.
Ctl(x, f, h) ==
  /\ x \in Callers /\ pc[x] = "idle" /\ calls[x] < MaxCalls
  /\ calls' = [calls EXCEPT ![x] = @ + 1]
  /\ flags' = [flags EXCEPT ![x] = f]
  /\ at' = [at EXCEPT ![x] = IF h = 0 THEN 1 ELSE h]
  /\ end' = [end EXCEPT ![x] = IF h = 0 THEN NumHdrs ELSE h]
  /\ Goto(x, "read") /\ overlap' = (overlap \/ Busy)
  /\ UNCHANGED <<hdr, rd, save, asked>>

\* event_ctl reads the header, ...
CtlRead(x) ==
  /\ pc[x] = "read" /\ rd' = [rd EXCEPT ![x] = hdr[at[x]]]
  /\ Goto(x, "write")
  /\ UNCHANGED <<hdr, at, end, save, flags, asked, calls, overlap>>

\* Mutants of Edited: CLEAR sets the bit; the disable flags come first.
EditedBlind(r, f) == [occ |-> f.clear, en |-> (r.en \cup f.on) \ f.off]
EditedOnLast(r, f) == [occ |-> r.occ /\ f.clear, en |-> (r.en \ f.off) \cup f.on]

\* ... edits it, the disable flags last, ...
Edited(r, f) == [occ |-> r.occ /\ f.clear, en |-> (r.en \cup f.on) \ f.off]

\* Mutant of CtlWrite: index <= nr_idxs.
CtlWritePast(x) ==
  /\ pc[x] = "write"
  /\ Put(at[x], Edited(rd[x], flags[x])) /\ asked' = asked
  /\ IF at[x] <= end[x] THEN Goto(x, "read") /\ at' = [at EXCEPT ![x] = @ + 1]
                        ELSE Goto(x, "idle") /\ at' = at
  /\ UNCHANGED <<end, rd, save, flags, calls, overlap>>

\* ... and writes it if it was called with any flag; then the next index.
CtlWrite(x) ==
  /\ pc[x] = "write"
  /\ LET h == at[x] f == flags[x] IN
     /\ IF f # NoFlags
        THEN /\ Put(h, Edited(rd[x], f))
             /\ asked' = [asked EXCEPT ![h] = (@ \cup f.on) \ f.off]
        ELSE UNCHANGED <<hdr, asked>>
     /\ IF h < end[x] THEN Goto(x, "read") /\ at' = [at EXCEPT ![x] = h + 1]
                      ELSE Goto(x, "idle") /\ at' = at
  /\ UNCHANGED <<end, rd, save, flags, calls, overlap>>

-----------------------------------------------------------------------------
\* An update begins: fw_gas_mask_irq reads one header after the other ...
Mask(x) ==
  /\ x \in Updaters
  /\ \/ pc[x] = "idle" /\ calls[x] < MaxCalls /\ calls' = [calls EXCEPT ![x] = @ + 1]
        /\ at' = [at EXCEPT ![x] = 1] /\ overlap' = (overlap \/ Busy)
     \/ pc[x] = "mask" /\ UNCHANGED <<calls, at, overlap>>
  /\ save' = [save EXCEPT ![x][at'[x]] = hdr[at'[x]]]
  /\ Goto(x, "masking")
  /\ UNCHANGED <<hdr, end, rd, flags, asked>>

\* ... and writes it back without EN_IRQ.
Masked(x) ==
  /\ pc[x] = "masking"
  /\ LET h == at[x] IN
     /\ Put(h, [save[x][h] EXCEPT !.en = @ \ {"irq"}])
     /\ IF h < NumHdrs THEN Goto(x, "mask") /\ at' = [at EXCEPT ![x] = h + 1]
                       ELSE Goto(x, "masked") /\ at' = [at EXCEPT ![x] = 1]
  /\ UNCHANGED <<end, rd, save, flags, asked, calls, overlap>>

\* The end of the update: fw_gas_restore_irq writes what was saved.
Restore(x) ==
  /\ pc[x] = "masked"
  /\ LET h == at[x] IN
     /\ Put(h, save[x][h])
     /\ IF h < NumHdrs THEN at' = [at EXCEPT ![x] = h + 1] /\ pc' = pc
                       ELSE Goto(x, "idle") /\ at' = at
  /\ UNCHANGED <<end, rd, save, flags, asked, calls, overlap>>

-----------------------------------------------------------------------------
Occur(h) ==
  /\ hdr' = [hdr EXCEPT ![h].occ = TRUE]
  /\ UNCHANGED <<pc, at, end, rd, save, flags, asked, calls, overlap>>

Irq(h) ==
  /\ OtherHost /\ hdr[h].occ /\ "irq" \in hdr[h].en
  /\ hdr' = [hdr EXCEPT ![h].en = @ \ {"irq"}]
  /\ asked' = [asked EXCEPT ![h] = @ \ {"irq"}]
  /\ overlap' = (overlap \/ Busy)
  /\ UNCHANGED <<pc, at, end, rd, save, flags, calls>>

Next ==
  \/ \E x \in Callers : CtlRead(x) \/ CtlWrite(x)
                        \/ \E f \in Flags, h \in 0..NumHdrs : Ctl(x, f, h)
  \/ \E x \in Updaters : Mask(x) \/ Masked(x) \/ Restore(x)
  \/ \E h \in Hdrs : Occur(h) \/ Irq(h)

Spec == Init /\ [][Next]_vars

-----------------------------------------------------------------------------
TypeOK ==
  /\ hdr \in [Hdrs -> Contents]
  /\ pc \in [Procs -> {"idle", "read", "write", "mask", "masking", "masked"}]
  /\ at \in [Procs -> Hdrs] /\ end \in [Procs -> Hdrs]
  /\ rd \in [Procs -> Contents] /\ save \in [Procs -> [Hdrs -> Contents]]
  /\ flags \in [Procs -> Flags \cup {NoFlags}]
  /\ asked \in [Hdrs -> SUBSET Bits] /\ calls \in [Procs -> 0..MaxCalls]
  /\ overlap \in BOOLEAN

(* A step that clears the event of header h: the write of an event_ctl that    *)
(* was called with CLEAR and has read the event, whose data it returns.        *)
Clears(h) ==
  \E x \in Callers : /\ pc[x] = "write" /\ pc'[x] # "write" /\ at[x] = h
                     /\ flags[x].clear /\ rd[x].occ

(* events.c:48-51: an event stays in the summary until it is cleared, and      *)
(* switchtec_event_ctl is what clears it.                                      *)
NoEventLost == [][\A h \in Hdrs : (hdr[h].occ /\ ~hdr'[h].occ) => Clears(h)]_vars

(* The same, but for the writes of an update: an event that occurs between the *)
(* reading and the writing of an event_ctl is not lost, whoever else writes.   *)
CtlLosesNoEvent ==
  [][(\A u \in Updaters : pc'[u] = pc[u] /\ at'[u] = at[u]) =>
       \A h \in Hdrs : (hdr[h].occ /\ ~hdr'[h].occ) => Clears(h)]_vars

(* platform.c:319: calls enable and disable what happens when an event occurs: *)
(* the enable bits are what the calls and the interrupts left, in their order, *)
(* and an update leaves them as they were; provided that no two of them run    *)
(* into each other.                                                            *)
AsAsked ==
  LET hidden == IF \E x \in Updaters : pc[x] # "idle" THEN {"irq"} ELSE {}
  IN  ~overlap => \A h \in Hdrs : hdr[h].en \ hidden = asked[h] \ hidden

-----------------------------------------------------------------------------
(* The inductive invariant of AsAsked: while nothing has run into anything,    *)
(* only one process is busy; an event_ctl has read the enable bits that are    *)
(* there, and an update has saved those of the headers it has masked and not   *)
(* yet restored.                                                               *)
Settled == \A h \in Hdrs : hdr[h].en = asked[h]

Hidden(x, h) == save[x][h].en = asked[h] /\ hdr[h].en = asked[h] \ {"irq"}

Knows(x) ==
  /\ pc[x] \in {"read", "write"} => Settled
  /\ pc[x] = "write" => rd[x].en = hdr[at[x]].en
  /\ pc[x] \in {"mask", "masking", "masked"} => x \in Updaters
  /\ pc[x] \in {"mask", "masking"} =>
       \A h \in Hdrs : (h < at[x] => Hidden(x, h)) /\ (h >= at[x] => hdr[h].en = asked[h])
  /\ pc[x] = "masking" => save[x][at[x]].en = asked[at[x]]
  /\ pc[x] = "masked" =>
       \A h \in Hdrs : (h >= at[x] => Hidden(x, h)) /\ (h < at[x] => hdr[h].en = asked[h])

AskedInv ==
  ~overlap =>
    /\ \A x, y \in Procs : pc[x] # "idle" /\ pc[y] # "idle" => x = y
    /\ IF Busy THEN \A x \in Procs : pc[x] # "idle" => Knows(x) ELSE Settled

Inv == TypeOK /\ AskedInv
=============================================================================
