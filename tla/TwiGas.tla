------------------------------- MODULE TwiGas -------------------------------
(* The I2C (TWI) transport of the GAS: lib/platform/linux-i2c.c.               *)
(*                                                                             *)
(* Each write frame carries a one-byte tag.  The driver sends it, ignores the  *)
(* result of the transfer, and polls the slave's write status until it shows   *)
(* the tag it sent with a final status; i2c_gas_write gives up on a tag after  *)
(* MaxStatusRetry polls and sends the frame again under the next tag,          *)
(* i2c_gas_write_no_retry never sends again.  Both raise SIGBUS in the end.    *)
(* The slave is external: it keeps a latch with the tag and the status of the  *)
(* last frame it took, and takes none (NACK) while it carries one out.  The    *)
(* wire may lose any frame and spoil any answer (PEC).                         *)
EXTENDS Naturals

CONSTANTS MaxTag,           \* 0xff: tags are 1..MaxTag
          MaxRetry,         \* MAX_RETRY_COUNT
          MaxStatusRetry,   \* MAX_STATUS_GET_RETRY
          NumWords,         \* size of the GAS in transfers of I2C_MAX_WRITE bytes
          MaxOps,           \* bound on the transfers of a run
          MaxSessions       \* bound on the times the device is opened

ASSUME BoundsAssumption ==
  /\ MaxTag \in Nat /\ MaxRetry \in Nat \ {0} /\ MaxStatusRetry \in Nat \ {0}
  /\ NumWords \in Nat \ {0} /\ MaxOps \in Nat /\ MaxSessions \in Nat \ {0}
\* One call draws fewer tags than there are.
ASSUME TagAssumption == MaxRetry < MaxTag

Words == 1..NumWords
WriteKinds == {"write", "once"}
\* The write statuses the driver accepts as final: 0 and GAS_TWI_MRPC_ERR.
Accepted == {"ok", "mrpc_err"}
Statuses == Accepted \cup {"busy", "refused"}

VARIABLES
  pc,       \* where the driver is (idle, send, poll, read, loop, sigbus)
  kind,     \* the call: i2c_gas_write, i2c_gas_write_no_retry or i2c_gas_read
  word,     \* the word of the current transfer
  last,     \* the last word of the call (the memcpy loops)
  tag,      \* idev->tag
  retry,    \* retry_count of i2c_gas_write, .._no_retry, i2c_gas_read
  sretry,   \* retry_count of i2c_gas_write_status_get, i2c_gas_data_read
  latch,    \* the slave: tag, status and contents of the last frame taken
  mem,      \* the slave: the words of the GAS
  buf,      \* what the driver has read of them
  \* history
  op,       \* transfers started: names the current one, and the value it writes
  landed,   \* how many times the current transfer was carried out
  want,     \* what the callers wrote
  session,  \* how many times the device was opened
  own       \* the latch shows a frame of this session, or none since power-up

driver == <<pc, kind, word, last, tag, retry, sretry>>
vars == <<driver, latch, mem, buf, op, landed, want, session, own>>

\* Mutant of NextTag: the tag wraps to 0.
NextTagZero(t) == (t + 1) % (MaxTag + 1)

NextTag(t) == IF t = MaxTag THEN 1 ELSE t + 1

\* malloc leaves idev->tag as it finds it.
Init ==
  /\ pc = "idle" /\ kind = "none" /\ word = 1 /\ last = 1
  /\ tag \in 0..MaxTag /\ retry = 0 /\ sretry = 0
  /\ latch = [tag |-> 0, st |-> "ok", op |-> 0, word |-> 1]
  /\ mem = [w \in Words |-> 0] /\ buf = mem /\ want = mem
  /\ op = 0 /\ landed = 0 /\ session = 1 /\ own = TRUE

-----------------------------------------------------------------------------
(* Calls.                                                                      *)

StartTransfer(k, w) ==
  /\ op < MaxOps
  /\ kind' = k /\ word' = w /\ op' = op + 1 /\ landed' = 0
  /\ retry' = 0 /\ sretry' = 0
  /\ IF k \in WriteKinds
     THEN pc' = "send" /\ want' = [want EXCEPT ![w] = op + 1]
     ELSE pc' = "read" /\ want' = want
  /\ UNCHANGED <<tag, latch, mem, buf, session, own>>

\* gas_writeN and memcpy_to_gas; gas_write32_no_retry, of a single word;
\* gas_readN, memcpy_from_gas and write_from_gas.
Call(k, first, end) ==
  /\ pc = "idle"
  /\ first <= end /\ (k = "once" => first = end)
  /\ StartTransfer(k, first) /\ last' = end

\* The memcpy loops: n > 0.
NextChunk ==
  /\ pc = "loop" /\ word < last
  /\ StartTransfer(kind, word + 1) /\ UNCHANGED last

Return ==
  /\ pc = "loop" /\ word = last
  /\ pc' = "idle"
  /\ UNCHANGED <<kind, word, last, tag, retry, sretry, latch, mem, buf,
                 op, landed, want, session, own>>

-----------------------------------------------------------------------------
(* Writes.                                                                     *)

\* i2c_gas_data_write under a new tag.
Send(taken) ==
  /\ pc = "send"
  /\ tag' = NextTag(tag) /\ pc' = "poll" /\ sretry' = 0
  /\ IF taken
     THEN /\ latch.st # "busy"
          /\ latch' = [tag |-> tag', st |-> "busy", op |-> op, word |-> word]
          /\ own' = TRUE
     ELSE UNCHANGED <<latch, own>>
  /\ UNCHANGED <<kind, word, last, retry, mem, buf, op, landed, want, session>>

\* Mutants of PollHit: any frame's status counts; a busy slave will do.
PollHitAnyTag ==
  /\ pc = "poll" /\ latch.st \in Accepted
  /\ pc' = "loop"
  /\ UNCHANGED <<kind, word, last, tag, retry, sretry, latch, mem, buf,
                 op, landed, want, session, own>>
PollHitBusy ==
  /\ pc = "poll" /\ latch.tag = tag /\ latch.st # "refused"
  /\ pc' = "loop"
  /\ UNCHANGED <<kind, word, last, tag, retry, sretry, latch, mem, buf,
                 op, landed, want, session, own>>

\* i2c_gas_write_status_get returns 0 or GAS_TWI_MRPC_ERR.
PollHit ==
  /\ pc = "poll" /\ latch.tag = tag /\ latch.st \in Accepted
  /\ pc' = "loop"
  /\ UNCHANGED <<kind, word, last, tag, retry, sretry, latch, mem, buf,
                 op, landed, want, session, own>>

\* The answer was another one, or spoilt; there are polls left for this tag.
PollAgain ==
  /\ pc = "poll" /\ sretry + 1 < MaxStatusRetry
  /\ sretry' = sretry + 1
  /\ UNCHANGED <<pc, kind, word, last, tag, retry, latch, mem, buf,
                 op, landed, want, session, own>>

\* Mutants of PollMiss: a no-retry write is sent again; the attempts are not
\* counted.
PollMissResends ==
  /\ pc = "poll" /\ sretry + 1 = MaxStatusRetry
  /\ sretry' = 0 /\ retry' = retry + 1
  /\ pc' = IF retry' = MaxRetry THEN "sigbus" ELSE "send"
  /\ UNCHANGED <<kind, word, last, tag, latch, mem, buf, op, landed, want, session, own>>
PollMissForever ==
  /\ pc = "poll" /\ sretry + 1 = MaxStatusRetry
  /\ sretry' = 0 /\ retry' = retry
  /\ pc' = IF kind = "once" THEN "poll" ELSE "send"
  /\ UNCHANGED <<kind, word, last, tag, latch, mem, buf, op, landed, want, session, own>>

\* i2c_gas_write_status_get returns (uint8_t)-1.
PollMiss ==
  /\ pc = "poll" /\ sretry + 1 = MaxStatusRetry
  /\ sretry' = 0 /\ retry' = retry + 1
  /\ pc' = IF retry' = MaxRetry THEN "sigbus"
           ELSE IF kind = "once" THEN "poll" ELSE "send"
  /\ UNCHANGED <<kind, word, last, tag, latch, mem, buf, op, landed, want, session, own>>

-----------------------------------------------------------------------------
(* Reads.                                                                      *)

ReadHit ==
  /\ pc = "read"
  /\ buf' = [buf EXCEPT ![word] = mem[word]]
  /\ pc' = "loop"
  /\ UNCHANGED <<kind, word, last, tag, retry, sretry, latch, mem,
                 op, landed, want, session, own>>

\* i2c_gas_data_read: the PEC is wrong, and there are attempts left.
ReadPecAgain ==
  /\ pc = "read" /\ sretry + 1 < MaxRetry
  /\ sretry' = sretry + 1
  /\ UNCHANGED <<pc, kind, word, last, tag, retry, latch, mem, buf,
                 op, landed, want, session, own>>

\* Mutant of ReadMiss: the status of the answer is not looked at.
ReadMissReturns ==
  /\ pc = "read"
  /\ \E v \in 0..MaxOps : buf' = [buf EXCEPT ![word] = v]
  /\ sretry' = 0 /\ retry' = retry /\ pc' = "loop"
  /\ UNCHANGED <<kind, word, last, tag, latch, mem, op, landed, want, session, own>>

\* i2c_gas_data_read fails, or has copied an answer whose status is not final.
ReadMiss ==
  /\ pc = "read"
  /\ \/ buf' = buf
     \/ \E v \in 0..MaxOps : buf' = [buf EXCEPT ![word] = v]
  /\ sretry' = 0 /\ retry' = retry + 1
  /\ pc' = IF retry' = MaxRetry THEN "sigbus" ELSE "read"
  /\ UNCHANGED <<kind, word, last, tag, latch, mem, op, landed, want, session, own>>

-----------------------------------------------------------------------------
(* The slave, and a new process.                                               *)

SlaveDone(s) ==
  /\ latch.st = "busy"
  /\ latch' = [latch EXCEPT !.st = s]
  /\ mem' = [mem EXCEPT ![latch.word] = latch.op]
  /\ landed' = IF latch.op = op THEN landed + 1 ELSE landed
  /\ UNCHANGED <<driver, buf, op, want, session, own>>

SlaveRefuses ==
  /\ latch.st = "busy"
  /\ latch' = [latch EXCEPT !.st = "refused"]
  /\ UNCHANGED <<driver, mem, buf, op, landed, want, session, own>>

\* SIGBUS ends the process (main.c), or it closes the device; another one opens
\* it: i2c_gas_cap_get writes nothing, and the tag is what malloc returns.
Reopen ==
  /\ pc \in {"idle", "sigbus"} /\ session < MaxSessions
  /\ session' = session + 1 /\ tag' \in 0..MaxTag
  /\ pc' = "idle" /\ kind' = "none" /\ retry' = 0 /\ sretry' = 0
  /\ own' = (latch.tag = 0)
  /\ UNCHANGED <<word, last, latch, mem, buf, op, landed, want>>

-----------------------------------------------------------------------------
DriverStep ==
  \/ NextChunk \/ Return
  \/ Send(TRUE) \/ Send(FALSE) \/ PollHit \/ PollAgain \/ PollMiss
  \/ ReadHit \/ ReadPecAgain \/ ReadMiss

SlaveStep == SlaveRefuses \/ \E s \in Accepted : SlaveDone(s)

Next ==
  \/ \E k \in WriteKinds \cup {"read"}, f \in Words, e \in Words : Call(k, f, e)
  \/ DriverStep \/ SlaveStep \/ Reopen

Spec == Init /\ [][Next]_vars

\* The driver is a loop that runs on; nothing is assumed of wire and slave.
FairSpec == Spec /\ WF_vars(DriverStep)

-----------------------------------------------------------------------------
TypeOK ==
  /\ pc \in {"idle", "send", "poll", "read", "loop", "sigbus"}
  /\ kind \in {"none", "write", "once", "read"}
  /\ word \in Words /\ last \in Words /\ tag \in 0..MaxTag
  /\ retry \in 0..MaxRetry /\ sretry \in Nat
  /\ latch \in [tag : 0..MaxTag, st : Statuses, op : 0..MaxOps, word : Words]
  /\ mem \in [Words -> 0..MaxOps] /\ buf \in [Words -> 0..MaxOps]
  /\ want \in [Words -> 0..MaxOps]
  /\ op \in 0..MaxOps /\ landed \in Nat
  /\ session \in Nat \ {0} /\ own \in BOOLEAN

(* When i2c_gas_write or i2c_gas_write_no_retry returns, its frame was carried *)
(* out, however many frames and answers were lost: provided that the latch     *)
(* does not show a frame of an earlier session.                                *)
AckMeansLanded ==
  (pc = "loop" /\ kind \in WriteKinds /\ own) => landed > 0

(* A no-retry write is carried out at most once, on every path: gasops.c uses  *)
(* it for commands that are expected to be sent only once.                     *)
OnceAtMostOnce == kind = "once" => landed <= 1

(* Nothing a call sent is carried out after the call has returned: the memory  *)
(* changes only on behalf of the write that is in progress, or died.           *)
NothingLate ==
  [][(mem' # mem /\ own) => (pc \in {"send", "poll", "sigbus"} /\ latch.op = op)]_vars

(* After a call the memory is what the callers wrote, all chunks of it, and a  *)
(* read returned that, chunk by chunk.                                         *)
Coherent ==
  (session = 1 /\ pc = "idle") =>
    /\ mem = want
    /\ kind = "read" => buf[last] = want[last]

(* Every call returns or raises SIGBUS, whatever the wire does; a call cut     *)
(* short by MaxOps stays in its loop.                                          *)
CallEnds == pc \in {"send", "poll", "read"} ~> pc \in {"loop", "sigbus"}

-----------------------------------------------------------------------------
(* The inductive invariant.                                                    *)

\* Tags drawn by the current call.
Drawn == CASE pc = "send" -> retry
           [] pc = "poll" -> IF kind = "once" THEN 1 ELSE retry + 1
           [] pc = "sigbus" -> IF kind = "read" THEN 0 ELSE IF kind = "once" THEN 1 ELSE MaxRetry
           [] OTHER -> 0

\* The tag drawn k draws after t.
Later(t, k) == IF t + k <= MaxTag THEN t + k ELSE t + k - MaxTag

Control ==
  /\ pc \in {"send", "poll"} => kind \in WriteKinds
  /\ pc = "read" => kind = "read"
  /\ kind = "none" => pc = "idle"
  /\ pc \in {"send", "poll", "read"} => retry < MaxRetry
  /\ (pc = "send" /\ kind = "once") => retry = 0
  /\ (pc = "idle" /\ kind # "none") => word = last
  /\ pc = "poll" => tag # 0
  /\ pc # "idle" => op > 0
  /\ session = 1 => own

\* The driver is as many tags ahead of the latch as it drew in this call, or
\* fewer: never so many that it meets the tag in the latch again.
TagInv ==
  /\ latch.tag = 0 => own /\ latch.op = 0 /\ latch.st = "ok"
  /\ (own /\ latch.tag # 0) =>
       /\ tag # 0
       /\ \E k \in 0..Drawn : tag = Later(latch.tag, k)

LatchInv ==
  /\ latch.op <= op
  /\ latch.op < op => landed = 0
  /\ own => /\ (pc = "poll" /\ latch.tag = tag) => latch.op = op
            /\ latch.st = "busy" => (latch.op = op /\ pc \in {"send", "poll", "sigbus"})
            /\ (latch.op = op /\ latch.st \in Accepted /\ op > 0) => landed > 0
            /\ (latch.op = op /\ op > 0) => latch.word = word /\ kind \in WriteKinds
            /\ (pc = "loop" /\ kind \in WriteKinds) => landed > 0

OnceInv ==
  kind = "once" => /\ landed <= 1
                   /\ pc = "send" => latch.op < op
                   /\ (latch.op = op /\ latch.st = "busy") => landed = 0

MemInv ==
  session = 1 =>
    /\ kind \in WriteKinds => want[word] = op
    /\ \A w \in Words : \/ mem[w] = want[w]
                        \/ /\ kind \in WriteKinds /\ w = word /\ landed = 0
                           /\ pc \in {"send", "poll", "sigbus"}
    /\ (kind = "read" /\ pc \in {"loop", "idle"}) => buf[word] = mem[word]

Inv == TypeOK /\ Control /\ TagInv /\ LatchInv /\ OnceInv /\ MemInv

-----------------------------------------------------------------------------
(* What the transport implements: the GAS port of one process, from a frame of *)
(* its own in the latch, or power-up, to the next opening.                     *)
PortPhase == IF pc \in {"idle", "loop"} THEN "idle"
             ELSE IF pc = "sigbus" THEN "dead" ELSE "busy"

Port == INSTANCE GasPort WITH phase <- PortPhase

(* Retries, stale frames and spoilt answers stay inside: a caller sees a port  *)
(* whose writes have landed when they return, and whose no-retry writes land   *)
(* once at most.                                                               *)
PortSpec == Port!Init /\ [][(own /\ session' = session) => Port!Next]_(Port!vars)
==============================================================================
