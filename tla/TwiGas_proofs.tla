---------------------------- MODULE TwiGas_proofs ----------------------------
(* Proofs about the I2C transport of the GAS (TwiGas): its inductive           *)
(* invariant, the safety properties that follow from it, and that one session  *)
(* of it implements a GAS port (GasPort).                                      *)
EXTENDS TwiGas, TLAPS

-----------------------------------------------------------------------------
(* Tags.                                                                       *)

(* get_tag walks round the valid tags, 1..MaxTag.                              *)
LEMMA LaterIsTag ==
  ASSUME NEW t \in 1..MaxTag, NEW k \in 0..MaxRetry
  PROVE  Later(t, k) \in 1..MaxTag
BY BoundsAssumption, TagAssumption DEF Later

(* One more draw is one more tag.                                              *)
LEMMA LaterNext ==
  ASSUME NEW t \in 1..MaxTag, NEW k \in 0..MaxRetry
  PROVE  NextTag(Later(t, k)) = Later(t, k + 1)
BY BoundsAssumption, TagAssumption DEF Later, NextTag

(* A call never draws the tag it started from: it draws at most MaxRetry,      *)
(* fewer than there are.                                                       *)
LEMMA LaterFresh ==
  ASSUME NEW t \in 1..MaxTag, NEW k \in 1..MaxRetry
  PROVE  Later(t, k) # t
BY BoundsAssumption, TagAssumption DEF Later

-----------------------------------------------------------------------------
(* The inductive invariant.                                                    *)

LEMMA InitInv == Init => Inv
BY BoundsAssumption, TagAssumption
   DEF Init, Inv, TypeOK, Control, TagInv, LatchInv, OnceInv, MemInv, Words, WriteKinds,
       Accepted, Statuses, Later, Drawn

(* Every transfer starts when none is in progress, with a latch that is at     *)
(* rest and shows an earlier transfer.                                         *)
LEMMA StartTransferInv ==
  ASSUME Inv, NEW k \in WriteKinds \cup {"read"}, NEW w \in Words,
         pc \in {"idle", "loop"}, StartTransfer(k, w), last' \in Words
  PROVE  Inv'
<1> USE BoundsAssumption, TagAssumption DEF Inv, Words, WriteKinds, Accepted, Statuses
<1>1. op + 1 \in 0..MaxOps
  BY DEF StartTransfer, TypeOK
<1>2. TypeOK'
  <2>1. want' \in [Words -> 0..MaxOps]
    BY <1>1 DEF TypeOK, StartTransfer
  <2>2. pc' \in {"send", "read"} /\ kind' \in {"write", "once", "read"} /\ word' \in Words
    BY DEF StartTransfer
  <2>3. op' \in 0..MaxOps /\ landed' \in Nat /\ retry' \in 0..MaxRetry /\ sretry' \in Nat
    BY <1>1 DEF StartTransfer
  <2>4. UNCHANGED <<tag, latch, mem, buf, session, own>>
    BY DEF StartTransfer
  <2> QED BY <2>1, <2>2, <2>3, <2>4 DEF TypeOK
<1>3. Control'
  <2>1. UNCHANGED <<session, own>> /\ retry' = 0 /\ op' = op + 1
    BY DEF StartTransfer
  <2>3. \/ pc' = "send" /\ kind' \in WriteKinds
        \/ pc' = "read" /\ kind' = "read"
    BY DEF StartTransfer
  <2>2. op + 1 > 0 /\ (session = 1 => own)
    BY DEF TypeOK, Control
  <2> QED BY <2>1, <2>2, <2>3 DEF Control
<1>4. TagInv'
  <2>1. UNCHANGED <<tag, latch, own>> /\ Drawn' = 0 /\ Drawn = 0
    BY DEF StartTransfer, Drawn
  <2> QED BY <2>1 DEF TagInv, Later, TypeOK
<1>5. LatchInv'
  <2>1. /\ UNCHANGED <<latch, own>> /\ op' = op + 1 /\ landed' = 0
        /\ pc' \in {"send", "read"}
    BY DEF StartTransfer
  <2>2. latch'.op < op' /\ latch'.op <= op' /\ latch'.op # op'
    <3>1. latch.op <= op /\ latch.op \in Nat /\ op \in Nat
      BY DEF LatchInv, TypeOK
    <3> QED BY <2>1, <3>1
  <2>3. own => latch.st # "busy"
    BY DEF LatchInv
  <2> QED BY <2>1, <2>2, <2>3 DEF LatchInv
<1>6. OnceInv'
  BY DEF TypeOK, LatchInv, OnceInv, StartTransfer
<1>7. MemInv'
  <2> SUFFICES ASSUME session = 1 PROVE MemInv'
    BY DEF StartTransfer, MemInv
  <2>1. mem = want
    <3>1. \A v \in Words : mem[v] = want[v]
      <4>1. ~(kind \in WriteKinds /\ landed = 0 /\ pc \in {"send", "poll", "sigbus"})
        OBVIOUS
      <4> QED BY <4>1 DEF MemInv
    <3> QED BY <3>1 DEF TypeOK
  <2>2. k \in WriteKinds => want' = [want EXCEPT ![w] = op + 1] /\ pc' = "send"
    BY DEF StartTransfer
  <2>3. k \notin WriteKinds => want' = want /\ pc' = "read"
    BY DEF StartTransfer
  <2>4. kind' = k /\ word' = w /\ landed' = 0 /\ mem' = mem /\ op' = op + 1
    BY DEF StartTransfer
  <2> QED BY <2>1, <2>2, <2>3, <2>4 DEF MemInv, TypeOK
<1> QED BY <1>2, <1>3, <1>4, <1>5, <1>6, <1>7

LEMMA NextInv == Inv /\ [Next]_vars => Inv'
<1> SUFFICES ASSUME Inv, [Next]_vars PROVE Inv'
  OBVIOUS
<1> USE BoundsAssumption, TagAssumption DEF Inv, Words, WriteKinds, Accepted, Statuses
<1>1. ASSUME NEW k \in WriteKinds \cup {"read"}, NEW f \in Words, NEW e \in Words, Call(k, f, e)
      PROVE  Inv'
  BY <1>1, StartTransferInv DEF Call
<1>2. CASE NextChunk
  <2>1. word + 1 \in Words /\ last' \in Words /\ kind \in WriteKinds \cup {"read"}
    BY <1>2 DEF NextChunk, TypeOK, Control
  <2> QED BY <1>2, <2>1, StartTransferInv DEF NextChunk
<1>3. CASE Return
  <2>1. TypeOK'
    BY <1>3 DEF TypeOK, Return
  <2>2. Control'
    BY <1>3 DEF TypeOK, Control, Return
  <2>3. TagInv'
    BY <1>3 DEF TypeOK, Control, TagInv, Drawn, Later, Return
  <2>4. LatchInv'
    BY <1>3 DEF TypeOK, Control, TagInv, LatchInv, Return
  <2>5. OnceInv'
    BY <1>3 DEF TypeOK, LatchInv, OnceInv, Return
  <2>6. MemInv'
    BY <1>3 DEF TypeOK, Control, LatchInv, MemInv, Return
  <2> QED BY <2>1, <2>2, <2>3, <2>4, <2>5, <2>6
<1>4. CASE Send(TRUE)
  <2>1. TypeOK'
    <3>1. NextTag(tag) \in 0..MaxTag
      BY DEF TypeOK, NextTag
    <3>2. latch' \in [tag : 0..MaxTag, st : Statuses, op : 0..MaxOps, word : Words]
      <4>1. latch' = [tag |-> NextTag(tag), st |-> "busy", op |-> op, word |-> word]
        BY <1>4 DEF Send
      <4> QED BY <3>1, <4>1 DEF TypeOK
    <3> QED BY <1>4, <3>1, <3>2 DEF Send, TypeOK
  <2>2. Control'
    BY <1>4 DEF TypeOK, Control, Send, NextTag
  <2>3. TagInv'
    <3>1. latch'.tag = tag' /\ tag' = NextTag(tag) /\ tag' \in 1..MaxTag
      <4>1. tag' = NextTag(tag) /\ latch' = [tag |-> tag', st |-> "busy", op |-> op, word |-> word]
        BY <1>4 DEF Send
      <4>2. tag \in 0..MaxTag
        BY DEF TypeOK
      <4>3. NextTag(tag) \in 1..MaxTag
        BY <4>2 DEF NextTag
      <4> QED BY <4>1, <4>3
    <3>2. tag' = Later(tag', 0) /\ 0 \in 0..Drawn'
      <4>1. Drawn' \in Nat
        <5>1. pc' = "poll" /\ UNCHANGED <<kind, retry>> /\ retry \in Nat
          BY <1>4 DEF Send, TypeOK
        <5> QED BY <5>1 DEF Drawn
      <4> QED BY <3>1, <4>1 DEF Later
    <3> QED BY <3>1, <3>2, <1>4 DEF TagInv, Later, Send
  <2>4. LatchInv'
    <3>1. /\ latch'.op = op' /\ latch'.st = "busy" /\ latch'.word = word' /\ pc' = "poll"
          /\ kind' \in WriteKinds
      BY <1>4 DEF Send, Control
    <3>2. op' \in Nat
      BY <1>4 DEF Send, TypeOK
    <3> QED BY <3>1, <3>2 DEF LatchInv
  <2>5. OnceInv'
    BY <1>4 DEF TypeOK, LatchInv, OnceInv, Send, NextTag
  <2>6. MemInv'
    BY <1>4 DEF TypeOK, Control, LatchInv, MemInv, Send
  <2> QED BY <2>1, <2>2, <2>3, <2>4, <2>5, <2>6
<1>5. CASE Send(FALSE)
  <2>1. TypeOK'
    <3>1. NextTag(tag) \in 0..MaxTag
      BY DEF TypeOK, NextTag
    <3> QED BY <1>5, <3>1 DEF TypeOK, Send
  <2>2. Control'
    BY <1>5 DEF TypeOK, Control, Send, NextTag
  <2>3. TagInv'
    <3>1. /\ UNCHANGED <<latch, own>> /\ tag' = NextTag(tag) /\ tag' # 0
          /\ retry < MaxRetry /\ Drawn = retry /\ Drawn' = retry + 1
      <4>1. /\ UNCHANGED <<latch, own, retry, kind>> /\ tag' = NextTag(tag)
            /\ pc = "send" /\ pc' = "poll"
        BY <1>5 DEF Send
      <4>2. NextTag(tag) # 0 /\ retry < MaxRetry
        BY <4>1 DEF TypeOK, NextTag, Control
      <4>3. Drawn = retry /\ Drawn' = retry + 1
        BY <4>1 DEF Drawn, Control
      <4> QED BY <4>1, <4>2, <4>3
    <3>2. ASSUME own, latch.tag # 0
          PROVE  \E k \in 0..Drawn' : tag' = Later(latch.tag, k)
      <4>1. PICK k \in 0..retry : tag = Later(latch.tag, k)
        BY <3>1, <3>2 DEF TagInv
      <4>2. latch.tag \in 1..MaxTag /\ k \in 0..MaxRetry
        <5>1. latch.tag \in 0..MaxTag /\ retry \in 0..MaxRetry
          BY DEF TypeOK
        <5> QED BY <3>2, <4>1, <5>1
      <4>3. tag' = Later(latch.tag, k + 1)
        BY <3>1, <4>1, <4>2, LaterNext
      <4> QED BY <3>1, <4>1, <4>3 DEF TypeOK
    <3> QED BY <3>1, <3>2 DEF TagInv, Later
  <2>4. LatchInv'
    <3>1. /\ UNCHANGED <<latch, own, op, landed, word, kind>> /\ pc' = "poll"
          /\ tag' = NextTag(tag) /\ tag' # 0 /\ kind \in WriteKinds
          /\ retry < MaxRetry /\ Drawn = retry
      BY <1>5 DEF Send, TypeOK, NextTag, Control, Drawn
    <3>2. (own /\ latch.tag # 0) => latch.tag # tag'
      <4> SUFFICES ASSUME own, latch.tag # 0 PROVE latch.tag # tag'
        OBVIOUS
      <4>1. PICK k \in 0..retry : tag = Later(latch.tag, k)
        BY <3>1 DEF TagInv
      <4>2. latch.tag \in 1..MaxTag /\ k \in 0..MaxRetry /\ k + 1 \in 1..MaxRetry
        <5>1. latch.tag \in 0..MaxTag /\ retry \in 0..MaxRetry /\ latch.tag # 0
          BY DEF TypeOK
        <5> QED BY <3>1, <4>1, <5>1
      <4> QED BY <3>1, <4>1, <4>2, LaterNext, LaterFresh
    <3> QED BY <3>1, <3>2, <1>5 DEF LatchInv, Send
  <2>5. OnceInv'
    BY <1>5 DEF TypeOK, LatchInv, OnceInv, Send, NextTag
  <2>6. MemInv'
    BY <1>5 DEF TypeOK, Control, LatchInv, MemInv, Send
  <2> QED BY <2>1, <2>2, <2>3, <2>4, <2>5, <2>6
<1>6. CASE PollHit
  <2>1. TypeOK'
    BY <1>6 DEF TypeOK, PollHit
  <2>2. Control'
    BY <1>6 DEF TypeOK, Control, PollHit
  <2>3. TagInv'
    BY <1>6 DEF TypeOK, Control, TagInv, Drawn, Later, PollHit
  <2>4. LatchInv'
    <3>1. /\ UNCHANGED <<latch, own, op, landed, word, kind>> /\ pc' = "loop"
          /\ latch.tag = tag /\ latch.st \in {"ok", "mrpc_err"} /\ pc = "poll"
      BY <1>6 DEF PollHit
    <3>2. own => latch.op = op
      BY <3>1 DEF LatchInv
    <3>3. op > 0
      BY <3>1 DEF TypeOK, Control
    <3> QED BY <3>1, <3>2, <3>3 DEF LatchInv
  <2>5. OnceInv'
    BY <1>6 DEF TypeOK, LatchInv, OnceInv, PollHit
  <2>6. MemInv'
    <3>1. session = 1 => landed > 0
      BY <1>6, <2>4 DEF PollHit, LatchInv, Control
    <3> QED BY <1>6, <3>1 DEF PollHit, MemInv, TypeOK, Control
  <2> QED BY <2>1, <2>2, <2>3, <2>4, <2>5, <2>6
<1>7. CASE PollAgain
  <2>1. TypeOK'
    BY <1>7 DEF TypeOK, PollAgain
  <2>2. Control'
    BY <1>7 DEF TypeOK, Control, PollAgain
  <2>3. TagInv'
    BY <1>7 DEF TypeOK, Control, TagInv, Drawn, Later, PollAgain
  <2>4. LatchInv'
    BY <1>7 DEF TypeOK, Control, TagInv, LatchInv, PollAgain
  <2>5. OnceInv'
    BY <1>7 DEF TypeOK, LatchInv, OnceInv, PollAgain
  <2>6. MemInv'
    BY <1>7 DEF TypeOK, Control, LatchInv, MemInv, PollAgain
  <2> QED BY <2>1, <2>2, <2>3, <2>4, <2>5, <2>6
<1>8. CASE PollMiss
  <2>1. TypeOK'
    <3>1. retry' \in 0..MaxRetry /\ sretry' \in Nat
      BY <1>8 DEF TypeOK, PollMiss, Control
    <3> QED BY <1>8, <3>1 DEF TypeOK, PollMiss
  <2>2. Control'
    BY <1>8 DEF TypeOK, Control, PollMiss
  <2>3. TagInv'
    BY <1>8 DEF TypeOK, Control, TagInv, Drawn, Later, PollMiss
  <2>4. LatchInv'
    BY <1>8 DEF TypeOK, Control, TagInv, LatchInv, PollMiss
  <2>5. OnceInv'
    BY <1>8 DEF TypeOK, LatchInv, OnceInv, PollMiss
  <2>6. MemInv'
    BY <1>8 DEF TypeOK, Control, LatchInv, MemInv, PollMiss
  <2> QED BY <2>1, <2>2, <2>3, <2>4, <2>5, <2>6
<1>9. CASE ReadPecAgain
  <2>1. TypeOK'
    <3>1. sretry' \in Nat
      BY <1>9 DEF ReadPecAgain, TypeOK
    <3> QED BY <1>9, <3>1 DEF ReadPecAgain, TypeOK
  <2>2. Control'
    BY <1>9 DEF TypeOK, Control, ReadPecAgain
  <2>3. TagInv'
    BY <1>9 DEF TypeOK, Control, TagInv, Drawn, Later, ReadPecAgain
  <2>4. LatchInv'
    BY <1>9 DEF TypeOK, Control, TagInv, LatchInv, ReadPecAgain
  <2>5. OnceInv'
    BY <1>9 DEF TypeOK, LatchInv, OnceInv, ReadPecAgain
  <2>6. MemInv'
    BY <1>9 DEF TypeOK, Control, LatchInv, MemInv, ReadPecAgain
  <2> QED BY <2>1, <2>2, <2>3, <2>4, <2>5, <2>6
<1>10. CASE ReadMiss
  <2>1. TypeOK'
    <3>1. retry' \in 0..MaxRetry
      BY <1>10 DEF ReadMiss, TypeOK, Control
    <3>2. buf' \in [Words -> 0..MaxOps]
      BY <1>10 DEF ReadMiss, TypeOK
    <3> QED BY <1>10, <3>1, <3>2 DEF ReadMiss, TypeOK
  <2>2. Control'
    BY <1>10 DEF TypeOK, Control, ReadMiss
  <2>3. TagInv'
    BY <1>10 DEF TypeOK, Control, TagInv, Drawn, Later, ReadMiss
  <2>4. LatchInv'
    BY <1>10 DEF TypeOK, Control, TagInv, LatchInv, ReadMiss
  <2>5. OnceInv'
    BY <1>10 DEF TypeOK, LatchInv, OnceInv, ReadMiss
  <2>6. MemInv'
    BY <1>10 DEF TypeOK, Control, LatchInv, MemInv, ReadMiss
  <2> QED BY <2>1, <2>2, <2>3, <2>4, <2>5, <2>6
<1>11. CASE ReadHit
  <2>1. TypeOK'
    BY <1>11 DEF TypeOK, ReadHit
  <2>2. Control'
    BY <1>11 DEF TypeOK, Control, ReadHit
  <2>3. TagInv'
    BY <1>11 DEF TypeOK, Control, TagInv, Drawn, Later, ReadHit
  <2>4. LatchInv'
    BY <1>11 DEF TypeOK, Control, TagInv, LatchInv, ReadHit
  <2>5. OnceInv'
    BY <1>11 DEF TypeOK, LatchInv, OnceInv, ReadHit
  <2>6. MemInv'
    BY <1>11 DEF TypeOK, Control, LatchInv, MemInv, ReadHit
  <2> QED BY <2>1, <2>2, <2>3, <2>4, <2>5, <2>6
<1>12. CASE SlaveRefuses
  <2>1. TypeOK'
    BY <1>12 DEF TypeOK, SlaveRefuses, driver
  <2>2. Control'
    BY <1>12 DEF TypeOK, Control, SlaveRefuses, driver
  <2>3. TagInv'
    BY <1>12 DEF TypeOK, Control, TagInv, Drawn, Later, SlaveRefuses, driver
  <2>4. LatchInv'
    BY <1>12 DEF TypeOK, Control, TagInv, LatchInv, SlaveRefuses, driver
  <2>5. OnceInv'
    BY <1>12 DEF TypeOK, LatchInv, OnceInv, SlaveRefuses, driver
  <2>6. MemInv'
    BY <1>12 DEF TypeOK, Control, LatchInv, MemInv, SlaveRefuses, driver
  <2> QED BY <2>1, <2>2, <2>3, <2>4, <2>5, <2>6
<1>13. CASE Reopen
  <2>1. TypeOK'
    <3>1. session' \in Nat \ {0} /\ own' \in BOOLEAN
      BY <1>13 DEF TypeOK, Reopen
    <3>2. retry' \in 0..MaxRetry /\ sretry' \in Nat
      BY <1>13 DEF Reopen
    <3> QED BY <1>13, <3>1, <3>2 DEF TypeOK, Reopen
  <2>2. Control'
    BY <1>13 DEF TypeOK, Control, Reopen
  <2>3. TagInv'
    BY <1>13 DEF TypeOK, Control, TagInv, Drawn, Later, Reopen
  <2>4. LatchInv'
    <3>1. UNCHANGED <<latch, op, landed, word>> /\ pc' = "idle" /\ own' = (latch.tag = 0)
      BY <1>13 DEF Reopen
    <3>2. latch.tag = 0 => latch.op = 0 /\ latch.st = "ok"
      BY DEF TagInv
    <3>3. latch.op <= op /\ (latch.op < op => landed = 0)
      BY DEF LatchInv
    <3>4. own' => (latch'.op = 0 /\ latch'.st = "ok")
      BY <3>1, <3>2
    <3>5. ~(latch'.op = op' /\ op' > 0 /\ own')
      BY <3>4
    <3> QED BY <3>1, <3>3, <3>4, <3>5 DEF LatchInv
  <2>5. OnceInv'
    BY <1>13 DEF TypeOK, LatchInv, OnceInv, Reopen
  <2>6. MemInv'
    BY <1>13 DEF TypeOK, Control, LatchInv, MemInv, Reopen
  <2> QED BY <2>1, <2>2, <2>3, <2>4, <2>5, <2>6
<1>14. ASSUME NEW s \in Accepted, SlaveDone(s) PROVE Inv'
  <2>1. TypeOK'
    <3>1. latch' \in [tag : 0..MaxTag, st : Statuses, op : 0..MaxOps, word : Words]
      BY <1>14 DEF SlaveDone, TypeOK
    <3>2. mem' \in [Words -> 0..MaxOps]
      <4>1. latch.word \in Words /\ latch.op \in 0..MaxOps
        BY DEF TypeOK
      <4> QED BY <1>14, <4>1 DEF SlaveDone, TypeOK
    <3>3. landed' \in Nat
      <4>1. landed \in Nat /\ landed' \in {landed, landed + 1}
        BY <1>14 DEF SlaveDone, TypeOK
      <4> QED BY <4>1
    <3> QED BY <1>14, <3>1, <3>2, <3>3 DEF SlaveDone, driver, TypeOK
  <2>2. Control'
    BY <1>14 DEF TypeOK, Control, SlaveDone, driver
  <2>3. TagInv'
    BY <1>14 DEF TypeOK, Control, TagInv, Drawn, Later, SlaveDone, driver
  <2>4. LatchInv'
    <3>1. /\ UNCHANGED <<driver, buf, op, want, session, own>> /\ latch.st = "busy"
          /\ latch'.tag = latch.tag /\ latch'.st = s /\ latch'.op = latch.op
          /\ latch'.word = latch.word
      BY <1>14 DEF SlaveDone, TypeOK
    <3>2. landed' = IF latch.op = op THEN landed + 1 ELSE landed
      BY <1>14 DEF SlaveDone
    <3>3. landed \in Nat /\ op \in Nat /\ latch.op \in Nat
      BY DEF TypeOK
    <3> QED BY <3>1, <3>2, <3>3 DEF LatchInv, driver
  <2>5. OnceInv'
    <3>1. /\ UNCHANGED <<driver, buf, op, want, session, own>> /\ latch.st = "busy"
          /\ latch'.tag = latch.tag /\ latch'.st = s /\ latch'.op = latch.op
          /\ latch'.word = latch.word
      BY <1>14 DEF SlaveDone, TypeOK
    <3>2. landed' = IF latch.op = op THEN landed + 1 ELSE landed
      BY <1>14 DEF SlaveDone
    <3>3. landed \in Nat /\ op \in Nat /\ latch.op \in Nat
      BY DEF TypeOK
    <3> QED BY <3>1, <3>2, <3>3 DEF OnceInv, driver
  <2>6. MemInv'
    <3> SUFFICES ASSUME session = 1 PROVE MemInv'
      BY <1>14 DEF SlaveDone, MemInv
    <3>1. /\ UNCHANGED <<driver, buf, op, want, session, own>> /\ latch.st = "busy"
          /\ latch'.tag = latch.tag /\ latch'.st = s /\ latch'.op = latch.op
          /\ latch'.word = latch.word
      BY <1>14 DEF SlaveDone, TypeOK
    <3>2. latch.op = op /\ pc \in {"send", "poll", "sigbus"} /\ op > 0
      BY <3>1 DEF LatchInv, Control
    <3>3. latch.word = word /\ kind \in WriteKinds
      BY <3>2 DEF LatchInv, Control
    <3>4. mem' = [mem EXCEPT ![word] = op]
      BY <1>14, <3>2, <3>3 DEF SlaveDone
    <3> QED BY <3>1, <3>2, <3>3, <3>4 DEF MemInv, driver, TypeOK
  <2> QED BY <2>1, <2>2, <2>3, <2>4, <2>5, <2>6
<1>15. CASE UNCHANGED vars
  <2>1. TypeOK'
    BY <1>15 DEF TypeOK, vars, driver
  <2>2. Control'
    BY <1>15 DEF TypeOK, Control, vars, driver
  <2>3. TagInv'
    BY <1>15 DEF TypeOK, Control, TagInv, Drawn, Later, vars, driver
  <2>4. LatchInv'
    BY <1>15 DEF TypeOK, Control, TagInv, LatchInv, vars, driver
  <2>5. OnceInv'
    BY <1>15 DEF TypeOK, LatchInv, OnceInv, vars, driver
  <2>6. MemInv'
    BY <1>15 DEF TypeOK, Control, LatchInv, MemInv, vars, driver
  <2> QED BY <2>1, <2>2, <2>3, <2>4, <2>5, <2>6
<1> QED BY <1>1, <1>2, <1>3, <1>4, <1>5, <1>6, <1>7, <1>8, <1>9, <1>10, <1>11, <1>12, <1>13, <1>14, <1>15 DEF Next, DriverStep, SlaveStep

-----------------------------------------------------------------------------
(* Safety, for every value of the constants.                                   *)

(* The tags, the latch, the memory and the history stay in step through any    *)
(* sequence of lost frames, spoilt answers, busy and refusing slaves, calls    *)
(* and sessions.                                                               *)
THEOREM InvHolds == Spec => []Inv
<1>1. Init => Inv
  BY InitInv
<1>2. Inv /\ [Next]_vars => Inv'
  BY NextInv
<1> QED BY <1>1, <1>2, PTL DEF Spec

(* i2c_gas_write and i2c_gas_write_no_retry return only when their frame was   *)
(* carried out, unless the latch still shows a frame of an earlier session.    *)
THEOREM AckMeansLandedHolds == Spec => []AckMeansLanded
<1>1. Inv => AckMeansLanded
  BY DEF Inv, LatchInv, AckMeansLanded
<1> QED BY <1>1, InvHolds, PTL

(* A command expected to be sent only once is carried out at most once.        *)
THEOREM OnceAtMostOnceHolds == Spec => []OnceAtMostOnce
<1>1. Inv => OnceAtMostOnce
  BY DEF Inv, OnceInv, OnceAtMostOnce
<1> QED BY <1>1, InvHolds, PTL

(* In the first session after power-up the callers read what they wrote.       *)
THEOREM CoherentHolds == Spec => []Coherent
<1>1. Inv => Coherent
  <2> SUFFICES ASSUME Inv, session = 1, pc = "idle"
               PROVE  mem = want /\ (kind = "read" => buf[last] = want[last])
    BY DEF Coherent
  <2>1. \A w \in Words : mem[w] = want[w]
    BY DEF Inv, MemInv
  <2>2. mem = want
    BY <2>1 DEF Inv, TypeOK
  <2>3. kind = "read" => word = last /\ buf[word] = mem[word]
    BY DEF Inv, Control, MemInv
  <2> QED BY <2>2, <2>3
<1> QED BY <1>1, InvHolds, PTL

(* No frame is carried out after the call that sent it has returned.           *)
THEOREM NothingLateHolds == Spec => NothingLate
<1>1. Inv /\ [Next]_vars =>
        [(mem' # mem /\ own) => (pc \in {"send", "poll", "sigbus"} /\ latch.op = op)]_vars
  <2> SUFFICES ASSUME Inv, Next, mem' # mem, own
               PROVE  pc \in {"send", "poll", "sigbus"} /\ latch.op = op
    OBVIOUS
  <2>1. latch.st = "busy"
    BY DEF Next, DriverStep, SlaveStep, Call, NextChunk, StartTransfer, Return,
           Send, PollHit, PollAgain, PollMiss, ReadHit, ReadPecAgain, ReadMiss, SlaveDone,
           SlaveRefuses, Reopen
  <2> QED BY <2>1 DEF Inv, LatchInv
<1> QED BY <1>1, InvHolds, PTL DEF Spec, NothingLate

-----------------------------------------------------------------------------
(* The transport of a process is a GAS port.                                   *)

LEMMA StartIsPortStep ==
  ASSUME Inv, NEW k \in WriteKinds \cup {"read"}, NEW w \in Words,
         pc \in {"idle", "loop"}, StartTransfer(k, w)
  PROVE  Port!Next
<1>1. CASE k \in WriteKinds
  <2>1. Port!StartWrite(k, w)
    BY <1>1 DEF StartTransfer, Port!StartWrite, PortPhase, WriteKinds
  <2> QED BY <1>1, <2>1 DEF Port!Next, WriteKinds, Port!WriteKinds
<1>2. CASE k = "read"
  <2>1. Port!StartRead(w)
    BY <1>2 DEF StartTransfer, Port!StartRead, PortPhase, WriteKinds
  <2> QED BY <2>1 DEF Port!Next
<1> QED BY <1>1, <1>2

LEMMA StepIsPortStep ==
  Inv /\ [Next]_vars => [(own /\ session' = session) => Port!Next]_(Port!vars)
<1> SUFFICES ASSUME Inv, [Next]_vars, own, session' = session
             PROVE  Port!Next \/ UNCHANGED Port!vars
  OBVIOUS
<1> USE DEF Inv
<1>1. ASSUME NEW k \in WriteKinds \cup {"read"}, NEW f \in Words, NEW e \in Words, Call(k, f, e)
      PROVE  Port!Next
  BY <1>1, StartIsPortStep DEF Call
<1>2. CASE NextChunk
  <2>1. word + 1 \in Words /\ kind \in WriteKinds \cup {"read"}
    BY <1>2, BoundsAssumption DEF NextChunk, TypeOK, Control, WriteKinds, Words
  <2> QED BY <1>2, <2>1, StartIsPortStep DEF NextChunk
<1>3. CASE Return \/ PollAgain \/ ReadPecAgain
  BY <1>3 DEF Return, PollAgain, ReadPecAgain, Port!vars, PortPhase
<1>4. CASE Send(TRUE) \/ Send(FALSE)
  BY <1>4 DEF Send, Port!vars, PortPhase
<1>5. CASE PollHit
  <2>1. landed > 0 /\ kind \in WriteKinds
    BY <1>5 DEF PollHit, LatchInv, Control
  <2>2. Port!AckWrite
    BY <1>5, <2>1 DEF PollHit, Port!AckWrite, PortPhase, WriteKinds, Port!WriteKinds
  <2> QED BY <2>2 DEF Port!Next
<1>6. CASE PollMiss
  <2>1. CASE pc' = "sigbus"
    <3>1. Port!Die
      BY <1>6, <2>1 DEF PollMiss, Port!Die, PortPhase
    <3> QED BY <3>1 DEF Port!Next
  <2>2. CASE pc' # "sigbus"
    BY <1>6, <2>2 DEF PollMiss, Port!vars, PortPhase
  <2> QED BY <2>1, <2>2
<1>7. CASE ReadHit
  <2>1. Port!AckRead
    BY <1>7 DEF ReadHit, Control, Port!AckRead, PortPhase
  <2> QED BY <2>1 DEF Port!Next
<1>8. CASE ReadMiss
  <2>1. kind = "read"
    BY <1>8 DEF ReadMiss, Control
  <2>2. CASE pc' = "sigbus"
    <3>1. Port!Die
      BY <1>8, <2>1, <2>2 DEF ReadMiss, Port!Die, PortPhase
    <3> QED BY <3>1 DEF Port!Next
  <2>3. CASE pc' # "sigbus" /\ buf' = buf
    BY <1>8, <2>3 DEF ReadMiss, Port!vars, PortPhase
  <2>4. CASE pc' # "sigbus" /\ buf' # buf
    <3>1. Port!Scratch
      BY <1>8, <2>1, <2>4 DEF ReadMiss, Port!Scratch, PortPhase
    <3> QED BY <3>1 DEF Port!Next
  <2> QED BY <2>2, <2>3, <2>4
<1>9. CASE SlaveRefuses
  BY <1>9 DEF SlaveRefuses, driver, Port!vars, PortPhase
<1>10. ASSUME NEW s \in Accepted, SlaveDone(s) PROVE Port!Next
  <2>1. latch.op = op /\ pc \in {"send", "poll", "sigbus"} /\ op > 0 /\ latch.st = "busy"
    BY <1>10 DEF SlaveDone, LatchInv, Control
  <2>2. latch.word = word /\ kind \in WriteKinds /\ (kind = "once" => landed = 0)
    BY <2>1 DEF LatchInv, OnceInv
  <2>3. Port!Land
    BY <1>10, <2>1, <2>2 DEF SlaveDone, driver, Port!Land, PortPhase, WriteKinds, Port!WriteKinds
  <2> QED BY <2>3 DEF Port!Next
<1>11. ~Reopen
  BY DEF Reopen, TypeOK
<1>12. CASE UNCHANGED vars
  BY <1>12 DEF vars, driver, Port!vars, PortPhase
<1> QED BY <1>1, <1>2, <1>3, <1>4, <1>5, <1>6, <1>7, <1>8, <1>9, <1>10, <1>11, <1>12
        DEF Next, DriverStep, SlaveStep

(* The I2C transport implements the port the rest of the library is written    *)
(* against, in every session from the first frame that landed on.              *)
THEOREM ImplementsPort == Spec => PortSpec
<1>1. Init => Port!Init
  BY BoundsAssumption DEF Init, Port!Init, PortPhase, Words
<1> QED BY <1>1, StepIsPortStep, InvHolds, PTL DEF Spec, PortSpec

-----------------------------------------------------------------------------
(* How long a transfer takes, in frames, polls and attempts at reading.        *)

Busy == pc \in {"send", "poll", "read"}

\* What the counters leave, if every frame is lost and every answer spoilt.
MaxSteps == IF kind = "read" THEN MaxRetry * MaxRetry ELSE MaxRetry * (MaxStatusRetry + 1)
StepsLeft ==
  CASE pc = "send" -> (MaxRetry - retry) * (MaxStatusRetry + 1)
    [] pc = "poll" -> (MaxRetry - retry) * (MaxStatusRetry + 1) - 1 - sretry
    [] pc = "read" -> (MaxRetry - retry) * MaxRetry - sretry
    [] OTHER -> 0

\* The inner counter of each loop stays below its limit.
Counted ==
  /\ pc = "poll" => sretry < MaxStatusRetry
  /\ pc = "read" => sretry < MaxRetry
  /\ pc = "send" => sretry = 0
Bounded == StepsLeft \in 0..MaxSteps /\ (Busy => StepsLeft > 0)

LEMMA CountedInit == Init => Counted
BY DEF Init, Counted

LEMMA CountedNext == Inv /\ Counted /\ [Next]_vars => Counted'
<1> SUFFICES ASSUME Inv, Counted, [Next]_vars PROVE Counted'
  OBVIOUS
<1> USE BoundsAssumption DEF Counted
<1>1. ASSUME NEW k, NEW w, StartTransfer(k, w) PROVE Counted'
  BY <1>1 DEF StartTransfer
<1>2. ASSUME NEW k, NEW f, NEW e, Call(k, f, e) PROVE Counted'
  BY <1>1, <1>2 DEF Call
<1>3. CASE NextChunk  BY <1>1, <1>3 DEF NextChunk
<1>4. CASE Return \/ PollHit \/ ReadHit \/ Reopen  BY <1>4 DEF Return, PollHit, ReadHit, Reopen
<1>5. CASE Send(TRUE) \/ Send(FALSE)  BY <1>5 DEF Send
<1>6. CASE PollAgain \/ ReadPecAgain  BY <1>6 DEF PollAgain, ReadPecAgain
<1>7. CASE PollMiss \/ ReadMiss  BY <1>7 DEF PollMiss, ReadMiss
<1>8. CASE SlaveStep \/ UNCHANGED vars  BY <1>8 DEF SlaveStep, SlaveDone, SlaveRefuses, driver, vars
<1> QED  BY <1>2, <1>3, <1>4, <1>5, <1>6, <1>7, <1>8 DEF Next, DriverStep

\* One attempt costs its polls and its frame.
LEMMA OneLess ==
  ASSUME NEW a \in Nat, NEW b \in Nat, a > 0
  PROVE  /\ a * b \in Nat /\ (a - 1) * b \in Nat
         /\ a * b = (a - 1) * b + b
BY SMT

LEMMA AtMost ==
  ASSUME NEW a \in Nat, NEW b \in Nat, NEW c \in Nat, a <= b
  PROVE  a * c \in Nat /\ b * c \in Nat /\ a * c <= b * c
<1>1. b = a + (b - a) /\ b - a \in Nat  OBVIOUS
<1>2. b * c = a * c + (b - a) * c /\ (b - a) * c \in Nat /\ a * c \in Nat /\ b * c \in Nat
  BY <1>1, SMT
<1> QED  BY <1>2

LEMMA CountedBounds == Inv /\ Counted => Bounded
<1> SUFFICES ASSUME Inv, Counted PROVE Bounded
  OBVIOUS
<1> USE BoundsAssumption DEF Inv, TypeOK
<1>1. CASE pc \in {"send", "poll"}
  <2> DEFINE left == MaxRetry - retry  all == MaxStatusRetry + 1
  <2>1. left \in Nat /\ left > 0 /\ left <= MaxRetry /\ all \in Nat /\ all > 0
    BY <1>1 DEF Control
  <2>2. left * all = (left - 1) * all + all /\ (left - 1) * all \in Nat /\ left * all \in Nat
    BY <2>1, OneLess
  <2>3. left * all <= MaxRetry * all  BY <2>1, AtMost
  <2>4. kind # "read" /\ (pc = "poll" => sretry < MaxStatusRetry) /\ sretry \in Nat
    BY <1>1 DEF Counted, Control, WriteKinds
  <2>5. StepsLeft = left * all - (IF pc = "poll" THEN 1 + sretry ELSE 0) /\ MaxSteps = MaxRetry * all
    <3>1. CASE pc = "send"  BY <2>2, <2>4, <3>1 DEF StepsLeft, MaxSteps
    <3>2. CASE pc = "poll"  BY <2>2, <2>4, <3>2 DEF StepsLeft, MaxSteps
    <3> QED  BY <1>1, <3>1, <3>2
  <2> HIDE DEF left, all
  <2>6. MaxRetry * all \in Nat  BY <2>1, AtMost
  <2>7. StepsLeft > 0 /\ StepsLeft \in 0..MaxSteps
    BY <2>1, <2>2, <2>3, <2>4, <2>5, <2>6 DEF all
  <2> QED  BY <2>7 DEF Bounded
<1>2. CASE pc = "read"
  <2> DEFINE left == MaxRetry - retry
  <2>1. left \in Nat /\ left > 0 /\ left <= MaxRetry
    BY <1>2 DEF Control
  <2>2. left * MaxRetry = (left - 1) * MaxRetry + MaxRetry /\ (left - 1) * MaxRetry \in Nat
        /\ left * MaxRetry \in Nat
    BY <2>1, OneLess
  <2>3. left * MaxRetry <= MaxRetry * MaxRetry /\ MaxRetry * MaxRetry \in Nat  BY <2>1, AtMost
  <2>4. kind = "read" /\ sretry < MaxRetry /\ sretry \in Nat
    BY <1>2 DEF Counted, Control
  <2>5. StepsLeft = left * MaxRetry - sretry /\ MaxSteps = MaxRetry * MaxRetry
    BY <1>2, <2>4 DEF StepsLeft, MaxSteps
  <2> HIDE DEF left
  <2> QED  BY <2>1, <2>2, <2>3, <2>4, <2>5 DEF Bounded
<1>3. CASE pc \notin {"send", "poll", "read"}
  <2>1. MaxSteps \in Nat
    BY AtMost DEF MaxSteps
  <2> QED  BY <1>3, <2>1 DEF StepsLeft, Bounded, Busy
<1> QED  BY <1>1, <1>2, <1>3

LEMMA StepNears ==
  ASSUME Inv, Counted, Inv', Counted', [Next]_vars, Busy
  PROVE  IF DriverStep THEN StepsLeft' < StepsLeft ELSE StepsLeft' = StepsLeft
<1> USE BoundsAssumption DEF Inv, TypeOK
<1>1. Bounded /\ Bounded'  BY CountedBounds, PTL
<1>2. MaxRetry - retry \in Nat /\ MaxRetry - retry > 0  BY DEF Control, Busy
<1> DEFINE left == MaxRetry - retry  all == MaxStatusRetry + 1
<1>3. /\ left * all = (left - 1) * all + all /\ (left - 1) * all \in Nat
      /\ left * MaxRetry = (left - 1) * MaxRetry + MaxRetry /\ (left - 1) * MaxRetry \in Nat
  BY <1>2, OneLess
<1>4. /\ pc = "send" => StepsLeft = left * all
      /\ pc = "poll" => StepsLeft = left * all - 1 - sretry
      /\ pc = "read" => StepsLeft = left * MaxRetry - sretry
      /\ pc' = "send" => StepsLeft' = (MaxRetry - retry') * all
      /\ pc' = "poll" => StepsLeft' = (MaxRetry - retry') * all - 1 - sretry'
      /\ pc' = "read" => StepsLeft' = (MaxRetry - retry') * MaxRetry - sretry'
      /\ pc' \notin {"send", "poll", "read"} => StepsLeft' = 0
  BY DEF StepsLeft
<1>0. sretry \in Nat /\ sretry' \in Nat /\ MaxRetry - retry' \in Nat
  <2>1. retry' \in 0..MaxRetry /\ sretry \in Nat /\ sretry' \in Nat  OBVIOUS
  <2>2. \A m, n : m \in Nat /\ n \in 0..m => m - n \in Nat  OBVIOUS
  <2> HIDE DEF Inv, TypeOK
  <2> QED  BY <2>1, <2>2
<1>5. retry' = retry + 1 => MaxRetry - retry' = left - 1  OBVIOUS
<1>6. StepsLeft > 0 /\ StepsLeft \in Nat  BY <1>1 DEF Bounded
<1>7. left \in Nat /\ all \in Nat /\ left * all \in Nat /\ left * MaxRetry \in Nat
  BY <1>2, <1>3
<1>8. CASE Send(TRUE) \/ Send(FALSE)
  <2>1. pc = "send" /\ pc' = "poll" /\ sretry' = 0 /\ MaxRetry - retry' = left
    BY <1>8 DEF Send
  <2>3. (MaxRetry - retry') * all = left * all /\ (MaxRetry - retry') * MaxRetry = left * MaxRetry
    BY <2>1
  <2> HIDE DEF left, all
  <2> HIDE DEF Inv, TypeOK
  <2>2. StepsLeft' < StepsLeft  BY <1>4, <1>7, <1>0, <2>1, <2>3
  <2> QED  BY <1>8, <2>2 DEF DriverStep
<1>9. CASE PollHit \/ ReadHit
  <2>1. pc' = "loop"  BY <1>9 DEF PollHit, ReadHit
  <2> QED  BY <1>4, <1>6, <1>9, <2>1 DEF DriverStep
<1>10. CASE PollAgain
  <2>1. pc = "poll" /\ pc' = "poll" /\ sretry' = sretry + 1 /\ MaxRetry - retry' = left
    BY <1>10 DEF PollAgain
  <2>3. (MaxRetry - retry') * all = left * all /\ (MaxRetry - retry') * MaxRetry = left * MaxRetry
    BY <2>1
  <2> HIDE DEF left, all
  <2> HIDE DEF Inv, TypeOK
  <2>2. StepsLeft' < StepsLeft  BY <1>4, <1>7, <1>0, <2>1, <2>3
  <2> QED  BY <1>10, <2>2 DEF DriverStep
<1>11. CASE ReadPecAgain
  <2>1. pc = "read" /\ pc' = "read" /\ sretry' = sretry + 1 /\ MaxRetry - retry' = left
    BY <1>11 DEF ReadPecAgain
  <2>3. (MaxRetry - retry') * all = left * all /\ (MaxRetry - retry') * MaxRetry = left * MaxRetry
    BY <2>1
  <2> HIDE DEF left, all
  <2> HIDE DEF Inv, TypeOK
  <2>2. StepsLeft' < StepsLeft  BY <1>4, <1>7, <1>0, <2>1, <2>3
  <2> QED  BY <1>11, <2>2 DEF DriverStep
<1>12. CASE PollMiss
  <2>1. pc = "poll" /\ pc' \in {"sigbus", "poll", "send"} /\ sretry + 1 = MaxStatusRetry
        /\ sretry' = 0 /\ MaxRetry - retry' = left - 1
    BY <1>5, <1>12 DEF PollMiss
  <2>2. left * all - 1 - sretry = (left - 1) * all + 1
    <3> HIDE DEF left
    <3> QED  BY <1>3, <1>7, <2>1
  <2>4. (MaxRetry - retry') * all = (left - 1) * all
    BY <2>1
  <2> HIDE DEF left, all
  <2> HIDE DEF Inv, TypeOK
  <2>3. StepsLeft' < StepsLeft  BY <1>3, <1>4, <1>6, <1>7, <1>0, <2>1, <2>2, <2>4
  <2> QED  BY <1>12, <2>3 DEF DriverStep
<1>13. CASE ReadMiss
  <2>1. pc = "read" /\ pc' \in {"sigbus", "read"} /\ sretry < MaxRetry
        /\ sretry' = 0 /\ MaxRetry - retry' = left - 1
    BY <1>5, <1>13 DEF ReadMiss, Counted
  <2>4. (MaxRetry - retry') * MaxRetry = (left - 1) * MaxRetry
    BY <2>1
  <2> HIDE DEF left, all
  <2> HIDE DEF Inv, TypeOK
  <2>3. StepsLeft' < StepsLeft  BY <1>3, <1>4, <1>6, <1>7, <1>0, <2>1, <2>4
  <2> QED  BY <1>13, <2>3 DEF DriverStep
<1>14. CASE SlaveStep \/ UNCHANGED vars
  <2>1. UNCHANGED driver  BY <1>14 DEF SlaveStep, SlaveDone, SlaveRefuses, vars
  <2>2. StepsLeft' = StepsLeft  BY <2>1 DEF driver, StepsLeft
  <2>3. ~DriverStep
    <3>1. pc' = pc /\ tag' = tag /\ sretry' = sretry /\ retry' = retry  BY <2>1 DEF driver
    <3>2. tag # NextTag(tag) \/ pc # "send"
      BY <3>1, TagAssumption DEF NextTag
    <3> QED  BY <3>1, <3>2 DEF DriverStep, NextChunk, Return, Send, PollHit, PollAgain, PollMiss,
                               ReadHit, ReadPecAgain, ReadMiss, Busy
  <2> QED  BY <2>2, <2>3
<1>15. ~NextChunk /\ ~Return /\ ~Reopen /\ \A k, f, e : ~Call(k, f, e)
  BY DEF NextChunk, Return, Reopen, Call, Busy
<1> QED  BY <1>8, <1>9, <1>10, <1>11, <1>12, <1>13, <1>14, <1>15 DEF Next, DriverStep

(* The loops of i2c_gas_write, i2c_gas_write_no_retry and i2c_gas_read end,    *)
(* whatever wire and slave do: a transfer is over after MaxSteps steps of the   *)
(* driver at most, as each takes it one nearer and nothing else sets it back.  *)
THEOREM TransferIsBounded ==
  Spec => /\ []Bounded
          /\ [][Busy => IF DriverStep THEN StepsLeft' < StepsLeft ELSE StepsLeft' = StepsLeft]_vars
<1>1. Spec => []Counted
  BY CountedInit, CountedNext, InvHolds, PTL DEF Spec
<1>2. Inv /\ Counted /\ Inv' /\ Counted' /\ [Next]_vars =>
        [Busy => IF DriverStep THEN StepsLeft' < StepsLeft ELSE StepsLeft' = StepsLeft]_vars
  BY StepNears
<1> QED  BY <1>1, <1>2, CountedBounds, InvHolds, PTL DEF Spec
==============================================================================
