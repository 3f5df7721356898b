---------------------------- MODULE UartGas_proofs ----------------------------
(* Proofs about UartGas, for any addresses, values, retries and calls, and any   *)
(* loss, delay or spoilt digit on the line: type correctness, that a write that  *)
(* returned is in the GAS and stays there, and that a read returns it.           *)
EXTENDS UartGas, SequenceTheorems, TLAPS

-----------------------------------------------------------------------------
(* Sequences.                                                                  *)

(* A longer sequence, and one without its first elements.                      *)
LEMMA AppendIs ==
  ASSUME NEW S, NEW s \in Seq(S), NEW e \in S
  PROVE  /\ Append(s, e) \in Seq(S) /\ Len(Append(s, e)) = Len(s) + 1
         /\ \A m \in 1..Len(s) : Append(s, e)[m] = s[m]
         /\ Append(s, e)[Len(s) + 1] = e
OBVIOUS

LEMMA DropIs ==
  ASSUME NEW S, NEW s \in Seq(S), NEW n \in 1..Len(s)
  PROVE  /\ SubSeq(s, n + 1, Len(s)) \in Seq(S) /\ Len(SubSeq(s, n + 1, Len(s))) = Len(s) - n
         /\ \A m \in 1..Len(s) - n : SubSeq(s, n + 1, Len(s))[m] = s[m + n]
<1>1. \A m \in n + 1..Len(s) : s[m] \in S
  OBVIOUS
<1> QED BY <1>1, SubSeqProperties

LEMMA TailIs ==
  ASSUME NEW S, NEW s \in Seq(S), s # <<>>
  PROVE  /\ Tail(s) \in Seq(S) /\ Len(Tail(s)) = Len(s) - 1 /\ Len(s) > 0
         /\ Head(s) = s[1] /\ Head(s) \in S
         /\ \A m \in 1..Len(s) - 1 : Tail(s)[m] = s[m + 1]
BY HeadTailProperties, EmptySeq

-----------------------------------------------------------------------------
(* Types.                                                                      *)

LEMMA AnsIn ==
  /\ Junk \in Ans /\ Beyond \in Ans /\ Refused \in Ans
  /\ \A a \in Addrs \cup Far, v \in Held : WriteAns(a, v) \in Ans
  /\ \A a \in Addrs \cup Far, v \in Held \cup {Spoilt} : ReadAns(a, v) \in Ans
BY DEF Ans

LEMMA AnsIs ==
  ASSUME NEW e \in Ans
  PROVE  /\ e.k \in {"w", "r", "beyond", "refused", "junk"}
         /\ e.k = "r" => /\ e = ReadAns(e.a, e.v) /\ e.a \in Addrs \cup Far
                         /\ e.v \in Held \cup {Spoilt}
<1>1. CASE e \in {WriteAns(a, v) : a \in Addrs \cup Far, v \in Held}
  BY <1>1 DEF WriteAns
<1>2. CASE e \in {ReadAns(a, v) : a \in Addrs \cup Far, v \in Held \cup {Spoilt}}
  BY <1>2 DEF ReadAns
<1>3. CASE e \in {Beyond, Refused, Junk}
  BY <1>3 DEF Beyond, Refused, Junk
<1> QED BY <1>1, <1>2, <1>3 DEF Ans

(* What the console answers.                                                   *)
LEMMA CarryIs ==
  ASSUME TypeOK, NEW c \in Typed
  PROVE  /\ Carry(c) \in Ans /\ ReadAns(c.a, Spoilt) \in Ans
         /\ c.k = "w" /\ c.a \notin ReadOnly => Carry(c) = WriteAns(c.a, c.v)
         /\ c.k = "w" /\ c.a \in ReadOnly => Carry(c) = Refused
         /\ c.k = "r" /\ c.a \in Far => Carry(c) = Beyond
         /\ c.k = "r" /\ c.a \notin Far => c.a \in Addrs /\ Carry(c) = ReadAns(c.a, mem[c.a])
<1>1. c.k \in {"w", "r"} /\ c.a \in Addrs \cup Far /\ c.v \in Held
  BY DEF Typed
<1>2. mem \in [Addrs -> Held]
  BY DEF TypeOK
<1>3. /\ c.k = "w" /\ c.a \notin ReadOnly => Carry(c) = WriteAns(c.a, c.v)
      /\ c.k = "w" /\ c.a \in ReadOnly => Carry(c) = Refused
      /\ c.k = "r" /\ c.a \in Far => Carry(c) = Beyond
      /\ c.k = "r" /\ c.a \notin Far => c.a \in Addrs /\ Carry(c) = ReadAns(c.a, mem[c.a])
  BY <1>1 DEF Carry
<1> QED BY <1>1, <1>2, <1>3, AnsIn

LEMMA AgainType ==
  ASSUME TypeOK, pc \in {"send", "wait"}, Again
  PROVE  /\ pc' \in {"send", "sigbus"} /\ i' \in 0..RetryNum
         /\ pc' = "send" => i' < RetryNum
BY UartAssumption DEF TypeOK, Again

LEMMA AnswerType ==
  ASSUME TypeOK, pc = "wait", NEW e \in Ans, Answer(e)
  PROVE  /\ pc' \in {"idle", "send", "sigbus"} /\ i' \in 0..RetryNum
         /\ pc' = "send" => i' < RetryNum
         /\ addr' \in Addrs \cup Far /\ overrun' \in BOOLEAN
         /\ result' \in Held \cup {Ones, Spoilt}
<1>0. /\ i \in 0..RetryNum /\ addr \in Addrs \cup Far /\ overrun \in BOOLEAN
      /\ result \in Held \cup {Ones, Spoilt}
  BY DEF TypeOK
<1>1. Again => /\ pc' \in {"send", "sigbus"} /\ i' \in 0..RetryNum
               /\ pc' = "send" => i' < RetryNum
  BY AgainType
<1>2. CASE IsWrite
  BY <1>0, <1>1, <1>2 DEF Answer, WriteAnswer
<1>3. CASE ~IsWrite
  <2>1. e.k = "r" => e.v \in Held \cup {Spoilt}
    BY AnsIs
  <2>2. Swap(addr) \in Addrs \cup Far
    BY <1>0, UartAssumption
  <2>3. ReadAnswer(e)
    BY <1>3 DEF Answer
  <2> HIDE DEF Again, Held, Ones, Spoilt
  <2> QED BY <1>0, <1>1, <2>1, <2>2, <2>3 DEF ReadAnswer
<1> QED BY <1>2, <1>3

LEMMA InitType == Init => TypeOK
<1> SUFFICES ASSUME Init PROVE TypeOK
  OBVIOUS
<1>1. call.a \in Addrs /\ call = [kind |-> "none", a |-> call.a, v |-> Init0, n |-> 0]
  BY UartAssumption DEF Init
<1>2. cmds \in Seq(Typed) /\ rx \in Seq(Ans) /\ stack \in [r : Ans, w : Ans]
  BY AnsIn DEF Init
<1>3. Init0 \in Held
  BY DEF Held
<1>4. call \in [kind : {"none", "read", "write", "once"}, a : Addrs, v : Held, n : 0..MaxCalls]
  BY <1>1, <1>3, UartAssumption
<1>5. /\ addr \in Addrs \cup Far /\ result \in Held \cup {Ones, Spoilt}
      /\ mem \in [Addrs -> Held] /\ want \in [Addrs -> Held] /\ last \in [a : Addrs, v : Held]
  BY <1>1, <1>3 DEF Init
<1>6. /\ pc = "idle" /\ i = 0 /\ overrun = FALSE /\ mixed = FALSE /\ landed = 0 /\ calls = 0
      /\ faults \subseteq Faults
  BY DEF Init
<1>7. i \in 0..RetryNum /\ landed \in Nat /\ calls \in 0..MaxCalls
  <2>1. RetryNum \in Nat /\ MaxCalls \in Nat
    BY UartAssumption
  <2> QED BY <1>6, <2>1
<1> QED BY <1>2, <1>4, <1>5, <1>6, <1>7 DEF TypeOK

LEMMA NextType == TypeOK /\ [Next]_vars => TypeOK'
<1> SUFFICES ASSUME TypeOK, [Next]_vars PROVE TypeOK'
  OBVIOUS
<1> USE DEF line, history
<1>1. ASSUME NEW k \in {"read", "write", "once"}, NEW a \in Addrs, NEW v \in Held, Start(k, a, v)
      PROVE  TypeOK'
  <2>1. calls' \in 0..MaxCalls
    BY <1>1, UartAssumption DEF Start, TypeOK
  <2>2. call' \in [kind : {"none", "read", "write", "once"}, a : Addrs, v : Held, n : 0..MaxCalls]
    BY <1>1, <2>1 DEF Start
  <2>3. want' \in [Addrs -> Held] /\ last' \in [a : Addrs, v : Held] /\ mixed' \in BOOLEAN
    <3>1. want' \in [Addrs -> Held]
      BY <1>1 DEF Start, TypeOK
    <3>2. last' \in [a : Addrs, v : Held]
      BY <1>1 DEF Start, TypeOK
    <3>3. mixed' \in BOOLEAN
      BY <1>1 DEF Start, TypeOK
    <3> QED BY <3>1, <3>2, <3>3
  <2>4. /\ pc' = "send" /\ i' = 0 /\ addr' = a /\ overrun' = FALSE /\ landed' = 0
        /\ UNCHANGED <<result, cmds, rx, stack, mem, faults>>
    BY <1>1 DEF Start
  <2>5. i' \in 0..RetryNum /\ i' < RetryNum
    BY <2>4, UartAssumption
  <2> QED BY <2>1, <2>2, <2>3, <2>4, <2>5 DEF TypeOK
<1>2. CASE Send
  <2>1. ASSUME cmds' # cmds
        PROVE  cmds' \in Seq(Typed) /\ pc' = "wait" /\ i' = i
    <3> DEFINE c == [k |-> IF IsWrite THEN "w" ELSE "r", a |-> addr, v |-> call.v, n |-> call.n]
    <3>1. cmds' = Append(cmds, c) /\ pc' = "wait" /\ i' = i
      BY <1>2, <2>1 DEF Send
    <3>2. c \in Typed /\ cmds \in Seq(Typed)
      BY DEF Typed, TypeOK
    <3> HIDE DEF c
    <3> QED BY <3>1, <3>2, AppendIs
  <2>2. pc = "send" /\ UNCHANGED <<call, addr, overrun, result, rx, stack, mem, want, landed, last, mixed, calls, faults>>
    BY <1>2 DEF Send
  <2>3. cmds' = cmds => (pc' = "wait" /\ i' = i) \/ Again
    BY <1>2 DEF Send
  <2>4. Again => /\ pc' \in {"send", "sigbus"} /\ i' \in 0..RetryNum
                 /\ pc' = "send" => i' < RetryNum
    BY <2>2, AgainType
  <2> QED BY <2>1, <2>2, <2>3, <2>4 DEF TypeOK
<1>3. CASE Receive
  <2>1. /\ pc = "wait" /\ rx # <<>> /\ Answer(Head(rx))
        /\ UNCHANGED <<call, cmds, mem, want, landed, last, mixed, calls, faults>>
    BY <1>3 DEF Receive
  <2>2. rx \in Seq(Ans) /\ stack \in [r : Ans, w : Ans]
    BY DEF TypeOK
  <2>3. rx' \in Seq(Ans)
    BY <1>3, <2>2, DropIs DEF Receive
  <2>4. Head(rx) \in Ans
    BY <2>1, <2>2, TailIs
  <2>5. stack' \in [r : Ans, w : Ans]
    BY <1>3, <2>2, <2>4 DEF Receive
  <2> QED BY <2>1, <2>3, <2>4, <2>5, AnswerType DEF TypeOK
<1>4. CASE Timeout
  <2>1. /\ pc = "wait" /\ UNCHANGED <<call, cmds, rx, stack, mem, want, landed, last, mixed, calls, faults>>
    BY <1>4 DEF Timeout
  <2>2. stack.r \in Ans /\ stack.w \in Ans /\ Junk \in Ans
    BY AnsIn DEF TypeOK
  <2>3. PICK e \in Ans : Answer(e)
    BY <1>4, <2>2 DEF Timeout
  <2> QED BY <2>1, <2>3, AnswerType DEF TypeOK
<1>5. CASE Console
  <2> DEFINE c == Head(cmds)
  <2>1. /\ cmds # <<>> /\ cmds' = Tail(cmds)
        /\ UNCHANGED <<pc, call, i, addr, overrun, result, stack, want, last, mixed, calls, faults>>
    BY <1>5 DEF Console
  <2>2. cmds' \in Seq(Typed) /\ c \in Typed
    BY <2>1, TailIs DEF TypeOK
  <2>3. rx' \in Seq(Ans)
    <3>1. PICK got \in Ans : rx' = Append(rx, got)
      BY <1>5, <2>2, CarryIs, AnsIn DEF Console
    <3> QED BY <3>1, AppendIs DEF TypeOK
  <2>4. mem' \in [Addrs -> Held] /\ landed' \in Nat
    <3>1. c.v \in Held /\ mem \in [Addrs -> Held] /\ landed \in Nat
      BY <2>2 DEF TypeOK, Typed
    <3>2. /\ mem' = mem \/ mem' = [mem EXCEPT ![c.a] = c.v]
          /\ landed' = landed \/ landed' = landed + 1
      BY <1>5 DEF Console
    <3> HIDE DEF c
    <3> QED BY <3>1, <3>2
  <2> QED BY <2>1, <2>2, <2>3, <2>4 DEF TypeOK
<1>6. CASE Lost
  <2>1. /\ cmds # <<>> /\ cmds' = Tail(cmds) /\ rx' \in {rx, Append(rx, Junk)}
        /\ UNCHANGED <<pc, call, i, addr, overrun, result, stack, mem, want, landed, last, mixed, calls, faults>>
    BY <1>6 DEF Lost
  <2>2. cmds' \in Seq(Typed)
    BY <2>1, TailIs DEF TypeOK
  <2>3. rx' \in Seq(Ans)
    <3>1. rx \in Seq(Ans) /\ Append(rx, Junk) \in Seq(Ans)
      BY AnsIn, AppendIs DEF TypeOK
    <3> QED BY <2>1, <3>1
  <2> QED BY <2>1, <2>2, <2>3 DEF TypeOK
<1>7. CASE UNCHANGED vars
  BY <1>7 DEF vars, TypeOK
<1>8. Init0 \in Held /\ Values \subseteq Held
  BY DEF Held
<1> QED BY <1>1, <1>2, <1>3, <1>4, <1>5, <1>6, <1>7, <1>8 DEF Next, Driver

(* The state of the driver, the line and the console is always as TypeOK says.  *)
THEOREM TypeHolds == Spec => []TypeOK
BY InitType, NextType, PTL DEF Spec

-----------------------------------------------------------------------------
(* The line.                                                                   *)

(* Between writes it does not matter what is dropped, and reads and true answers  *)
(* may join the line.                                                           *)
LEMMA SettledStays ==
  ASSUME Settled, mem' = mem, want' = want, last' = last, faults' = faults,
         \A m \in 1..Len(cmds') : cmds'[m].k = "w" => \E l \in 1..Len(cmds) : cmds[l] = cmds'[m],
         \A m \in 1..Len(rx') : \/ AnswerTo(rx'[m], last) /\ TrueRead(rx'[m])
                                \/ \E l \in 1..Len(rx) : rx[l] = rx'[m]
  PROVE  Settled'
<1>1. \A m \in 1..Len(cmds') : Copy(cmds'[m], last)
  BY DEF Settled, Copy
<1>2. \A m \in 1..Len(rx') : AnswerTo(rx'[m], last) /\ TrueRead(rx'[m])
  BY DEF Settled
<1> QED BY <1>1, <1>2 DEF Settled, TrueRead

(* What a step leaves alone.                                                    *)
LEMMA LineStays ==
  ASSUME UNCHANGED <<call, cmds, rx, mem, want, last, faults>>
  PROVE  /\ Settled => Settled'
         /\ Writing => Writing'
         /\ Known => Known'
         /\ IsWrite' = IsWrite
<1>1. Settled => Settled'
  BY DEF Settled, TrueRead
<1>2. Writing => Writing'
  BY DEF Writing, TrueRead, Match, Answers
<1>3. Known => Known'
  BY DEF Known
<1> QED BY <1>1, <1>2, <1>3 DEF IsWrite

-----------------------------------------------------------------------------
(* Each step keeps Here and ReadYourWrites.                                     *)

LEMMA StartKeeps ==
  ASSUME TypeOK, Clean, Clean', Here, NEW k \in {"read", "write", "once"}, NEW a \in Addrs, NEW v \in Held,
         Start(k, a, v)
  PROVE  Here' /\ ReadYourWrites'
<1>1. /\ pc = "idle" /\ pc' = "send" /\ addr' = a /\ overrun' = FALSE
      /\ call'.kind = k /\ call'.a = a /\ call'.v = v
      /\ UNCHANGED <<cmds, rx, mem, faults>>
  BY DEF Start, line
<1>2. Settled /\ Known
  BY <1>1 DEF Here
<1>3. Known'
  BY <1>1, <1>2 DEF Known
<1>4. k # "read" => a \notin ReadOnly
  BY DEF Start, Clean
<1>5. CASE k = "read"
  <2>1. want' = want /\ last' = last
    BY <1>5 DEF Start
  <2>2. Settled'
    BY <1>1, <1>2, <2>1 DEF Settled, TrueRead
  <2> QED BY <1>1, <1>3, <1>5, <2>2 DEF Here, IsWrite, ReadYourWrites
<1>6. CASE k # "read"
  <2>1. want' = [want EXCEPT ![a] = v] /\ want \in [Addrs -> Held] /\ mem = want
        /\ last' = [a |-> a, v |-> v] /\ last \in [a : Addrs, v : Held]
    BY <1>2, <1>4, <1>6 DEF Start, TypeOK, Settled
  <2>2. want'[a] = v /\ \A b \in Addrs \ {a} : want'[b] = want[b] /\ mem'[b] = want'[b]
    BY <1>1, <2>1
  (* What is late has another CRC, or is the same write.                         *)
  <2>3. ASSUME Late, Crc(a, v) = Crc(last.a, last.v)
        PROVE  last.a = a /\ last.v = v /\ want' = want
    <3>1. ~Mistakable(a, v)
      BY <1>6 DEF Start, Clean
    <3>2. last = [a |-> a, v |-> v]
      BY <2>3, <3>1 DEF Mistakable
    <3>3. want[a] = v
      BY <1>2, <3>2 DEF Settled
    <3> QED BY <2>1, <3>2, <3>3
  <2>4. \A m \in 1..Len(cmds) : cmds[m].k = "w" =>
          /\ Late /\ cmds[m].a = last.a /\ cmds[m].v = last.v
          /\ cmds[m].a # a => cmds[m].v = want'[cmds[m].a]
    BY <1>2, <2>1, <2>2 DEF Settled, Copy, Late
  <2>5. \A m \in 1..Len(cmds) : cmds[m].k = "w" /\ ~(cmds[m].a = a /\ cmds[m].v = v) =>
          Crc(cmds[m].a, cmds[m].v) # Crc(a, v)
    BY <2>3, <2>4
  <2>6. ASSUME NEW m \in 1..Len(rx), rx[m].k = "w", rx[m].c = Crc(a, v)
        PROVE  last.a = a /\ last.v = v /\ want' = want
    <3>1. Late /\ Crc(a, v) = Crc(last.a, last.v)
      BY <1>2, <2>6 DEF Settled, AnswerTo, Late
    <3> QED BY <2>3, <3>1
  <2>7. Writing'
    <3>1. (/\ last = [a |-> call.a, v |-> call.v]
           /\ want[call.a] = call.v /\ \A b \in Addrs \ {call.a} : mem[b] = want[b])'
      BY <1>1, <2>1, <2>2
    <3>2. (\A m \in 1..Len(cmds) : cmds[m].k = "w" /\ ~Match(cmds[m]) =>
             /\ cmds[m].a # call.a => cmds[m].v = want[cmds[m].a]
             /\ Crc(cmds[m].a, cmds[m].v) # Crc(call.a, call.v))'
      BY <1>1, <2>4, <2>5 DEF Match
    <3>3. (\A m, l \in 1..Len(cmds) : m < l /\ Match(cmds[m]) => Copy(cmds[l], call))'
      BY <1>1, <2>4 DEF Match, Copy
    <3>4. ASSUME NEW m \in 1..Len(rx'), Answers(rx[m])'
          PROVE  (/\ mem = want
                  /\ \A l \in 1..Len(cmds) : Copy(cmds[l], call)
                  /\ \A l \in m..Len(rx) : AnswerTo(rx[l], call) /\ TrueRead(rx[l]))'
      <4>1. m \in 1..Len(rx) /\ rx[m].k = "w" /\ rx[m].c = Crc(a, v)
        BY <1>1, <3>4 DEF Answers
      <4>2. last.a = a /\ last.v = v /\ want' = want
        BY <2>6, <4>1
      <4>3. \A l \in m..Len(rx') : l \in 1..Len(rx)
        <5>1. Len(rx) \in Nat
          BY DEF TypeOK
        <5> QED BY <1>1, <5>1
      <4>4. (\A l \in 1..Len(cmds) : Copy(cmds[l], call))'
        BY <1>1, <1>2, <4>2 DEF Settled, Copy
      <4>5. (\A l \in m..Len(rx) : AnswerTo(rx[l], call) /\ TrueRead(rx[l]))'
        BY <1>1, <1>2, <4>2, <4>3 DEF Settled, AnswerTo, TrueRead
      <4> QED BY <1>1, <2>1, <4>2, <4>4, <4>5
    <3> QED BY <3>1, <3>2, <3>3, <3>4 DEF Writing
  <2> QED BY <1>1, <1>3, <1>4, <1>6, <2>7 DEF Here, IsWrite, ReadYourWrites
<1> QED BY <1>5, <1>6

LEMMA SendKeeps ==
  ASSUME TypeOK, Clean, Here, Send
  PROVE  Here' /\ ReadYourWrites'
<1>1. /\ pc = "send" /\ pc' \in {"wait", "send", "sigbus"}
      /\ UNCHANGED <<call, addr, overrun, result, rx, mem, want, last, faults>>
  BY DEF Send, Again, history
<1>2. ReadYourWrites'
  BY <1>1 DEF ReadYourWrites
<1>3. /\ IsWrite \/ faults = {} => addr = call.a /\ ~overrun
      /\ IsWrite => call.a \notin ReadOnly
      /\ Known /\ IF IsWrite THEN Writing ELSE Settled
  BY <1>1 DEF Here
<1>4. IsWrite' = IsWrite
  BY <1>1 DEF IsWrite
<1>5. CASE cmds' = cmds
  BY <1>1, <1>2, <1>3, <1>5, LineStays DEF Here
<1>6. CASE cmds' # cmds
  <2> DEFINE c == [k |-> IF IsWrite THEN "w" ELSE "r", a |-> addr, v |-> call.v, n |-> call.n]
  <2>1. cmds' = Append(cmds, c)
    BY <1>6 DEF Send
  <2>2. c \in Typed /\ cmds \in Seq(Typed) /\ rx \in Seq(Ans) /\ call.a \in Addrs
    BY DEF Typed, TypeOK
  <2>3. /\ c.k = IF IsWrite THEN "w" ELSE "r"
        /\ c.a = addr /\ c.v = call.v
    OBVIOUS
  <2> HIDE DEF c
  <2>4. /\ Len(cmds') = Len(cmds) + 1 /\ Len(cmds) \in Nat
        /\ \A m \in 1..Len(cmds) : cmds'[m] = cmds[m]
        /\ cmds'[Len(cmds) + 1] = c
    BY <2>1, <2>2, AppendIs
  <2>5. \A m \in 1..Len(cmds') : (m \in 1..Len(cmds) /\ cmds'[m] = cmds[m]) \/ cmds'[m] = c
    BY <2>4
  <2>6. Known'
    BY <1>1, <1>3, <2>2, <2>3, <2>5 DEF Known
  <2>7. IsWrite => Writing'
    <3> SUFFICES ASSUME IsWrite PROVE Writing'
      OBVIOUS
    <3>1. Writing /\ c.k = "w" /\ c.a = call.a /\ c.v = call.v
      BY <1>3, <2>3
    <3>2. \A m \in 1..Len(cmds') : cmds'[m].k = "w" /\ ~Match(cmds'[m]) =>
            /\ cmds'[m].a # call.a => cmds'[m].v = want[cmds'[m].a]
            /\ Crc(cmds'[m].a, cmds'[m].v) # Crc(call.a, call.v)
      BY <2>5, <3>1 DEF Writing, Match
    <3>3. ASSUME NEW m \in 1..Len(cmds'), NEW l \in 1..Len(cmds'), m < l, Match(cmds'[m])
          PROVE  Copy(cmds'[l], call)
      <4>1. CASE cmds'[l] = c
        BY <3>1, <4>1 DEF Copy
      <4>2. CASE cmds'[l] # c
        <5>1. l \in 1..Len(cmds) /\ cmds'[l] = cmds[l]
          BY <2>5, <4>2
        <5>2. m \in 1..Len(cmds) /\ cmds'[m] = cmds[m]
          BY <2>4, <3>3, <5>1
        <5> QED BY <3>1, <3>3, <5>1, <5>2 DEF Writing
      <4> QED BY <4>1, <4>2
    <3>4. ASSUME NEW m \in 1..Len(rx), Answers(rx[m])
          PROVE  \A l \in 1..Len(cmds') : Copy(cmds'[l], call)
      BY <2>5, <3>1, <3>4 DEF Writing, Copy
    <3> QED BY <1>1, <3>1, <3>2, <3>3, <3>4 DEF Writing, Match, TrueRead, Answers
  <2>8. ~IsWrite => Settled'
    <3> SUFFICES ASSUME ~IsWrite PROVE Settled'
      OBVIOUS
    <3>1. \A m \in 1..Len(cmds') : cmds'[m].k = "w" => \E l \in 1..Len(cmds) : cmds[l] = cmds'[m]
      BY <2>3, <2>5
    <3> QED BY <1>1, <1>3, <3>1, SettledStays
  <2> QED BY <1>1, <1>2, <1>3, <1>4, <2>6, <2>7, <2>8 DEF Here
<1> QED BY <1>5, <1>6

LEMMA TimeoutKeeps ==
  ASSUME TypeOK, Clean, Here, Timeout
  PROVE  Here' /\ ReadYourWrites'
<1>1. /\ pc = "wait" /\ Answer(Junk)
      /\ UNCHANGED <<call, cmds, rx, mem, want, last, faults>>
  BY DEF Timeout, Clean, line, history
<1>2. pc' \in {"send", "sigbus"} /\ UNCHANGED <<addr, overrun>>
  BY <1>1 DEF Answer, WriteAnswer, ReadAnswer, Answers, Junk, Again
<1>3. /\ IsWrite \/ faults = {} => addr = call.a /\ ~overrun
      /\ IsWrite => call.a \notin ReadOnly
      /\ Known /\ IF IsWrite THEN Writing ELSE Settled
  BY <1>1 DEF Here
<1> QED BY <1>1, <1>2, <1>3, LineStays DEF Here, ReadYourWrites

LEMMA ReceiveKeeps ==
  ASSUME TypeOK, Clean, Here, Receive
  PROVE  Here' /\ ReadYourWrites'
<1> DEFINE e == Head(rx)
<1>1. /\ pc = "wait" /\ rx # <<>> /\ Answer(e)
      /\ UNCHANGED <<call, cmds, mem, want, last, faults>>
  BY DEF Receive, history
<1>2. /\ IsWrite \/ faults = {} => addr = call.a /\ ~overrun
      /\ IsWrite => call.a \notin ReadOnly
      /\ Known /\ IF IsWrite THEN Writing ELSE Settled
  BY <1>1 DEF Here
<1>3. IsWrite' = IsWrite
  BY <1>1 DEF IsWrite
<1>4. rx \in Seq(Ans) /\ cmds \in Seq(Typed) /\ Len(cmds) \in Nat
  BY DEF TypeOK
<1>5. e = rx[1] /\ e \in Ans /\ 1 \in 1..Len(rx) /\ Len(rx) \in Nat
  BY <1>1, <1>4, TailIs
<1>6. PICK n \in 1..Len(rx) : rx' = SubSeq(rx, n + 1, Len(rx))
  BY DEF Receive
<1>7. Len(rx') = Len(rx) - n /\ \A m \in 1..Len(rx') : rx'[m] = rx[m + n] /\ m + n \in 1..Len(rx)
  <2>1. Len(rx') = Len(rx) - n /\ \A m \in 1..Len(rx) - n : rx'[m] = rx[m + n]
    BY <1>4, <1>6, DropIs
  <2> QED BY <1>5, <2>1
<1> HIDE DEF e
<1>8. Known'
  BY <1>1, <1>2, <1>7 DEF Known
<1>9. CASE IsWrite
  <2>1. Writing /\ WriteAnswer(e) /\ addr = call.a /\ ~overrun /\ call.a \notin ReadOnly
    BY <1>1, <1>2, <1>9 DEF Answer
  <2>2. e.k # "refused" /\ UNCHANGED <<addr, overrun>>
    BY <1>2, <1>5, <2>1 DEF Known, WriteAnswer
  <2>3. CASE Answers(e)
    <3>1. pc' = "idle"
      BY <2>1, <2>2, <2>3 DEF WriteAnswer
    <3>2. /\ last.a = call.a /\ last.v = call.v /\ mem = want /\ want[call.a] = call.v
          /\ \A l \in 1..Len(cmds) : Copy(cmds[l], call)
          /\ \A l \in 1..Len(rx) : AnswerTo(rx[l], call) /\ TrueRead(rx[l])
      BY <1>5, <2>1, <2>3 DEF Writing
    <3>3. Settled
      BY <3>2 DEF Settled, Copy, AnswerTo
    <3>4. Settled'
      BY <1>1, <1>7, <3>3, SettledStays
    <3> QED BY <1>1, <1>3, <1>8, <1>9, <2>1, <2>2, <3>1, <3>4 DEF Here, ReadYourWrites, IsWrite
  <2>4. CASE ~Answers(e)
    <3>1. pc' \in {"send", "sigbus"}
      BY <2>1, <2>2, <2>4 DEF WriteAnswer, Again
    <3>2. Writing'
      <4>1. (/\ last = [a |-> call.a, v |-> call.v]
             /\ want[call.a] = call.v /\ \A b \in Addrs \ {call.a} : mem[b] = want[b])'
        BY <1>1, <2>1 DEF Writing
      <4>2. (\A m \in 1..Len(cmds) : cmds[m].k = "w" /\ ~Match(cmds[m]) =>
               /\ cmds[m].a # call.a => cmds[m].v = want[cmds[m].a]
               /\ Crc(cmds[m].a, cmds[m].v) # Crc(call.a, call.v))'
        BY <1>1, <2>1 DEF Writing, Match
      <4>3. (\A m, l \in 1..Len(cmds) : m < l /\ Match(cmds[m]) => Copy(cmds[l], call))'
        BY <1>1, <2>1 DEF Writing, Match
      <4>4. ASSUME NEW m \in 1..Len(rx'), Answers(rx[m])'
            PROVE  (/\ mem = want
                    /\ \A l \in 1..Len(cmds) : Copy(cmds[l], call)
                    /\ \A l \in m..Len(rx) : AnswerTo(rx[l], call) /\ TrueRead(rx[l]))'
        <5>1. m + n \in 1..Len(rx) /\ Answers(rx[m + n])
          BY <1>1, <1>7, <4>4 DEF Answers
        <5>2. /\ mem = want
              /\ \A l \in 1..Len(cmds) : Copy(cmds[l], call)
              /\ \A l \in m + n..Len(rx) : AnswerTo(rx[l], call) /\ TrueRead(rx[l])
          BY <2>1, <5>1 DEF Writing
        <5>3. \A l \in m..Len(rx') : l \in 1..Len(rx') /\ l + n \in m + n..Len(rx) /\ rx'[l] = rx[l + n]
          BY <1>5, <1>7
        <5>4. (\A l \in m..Len(rx) : AnswerTo(rx[l], call) /\ TrueRead(rx[l]))'
          BY <1>1, <5>2, <5>3 DEF TrueRead
        <5> QED BY <1>1, <5>2, <5>4
      <4> QED BY <4>1, <4>2, <4>3, <4>4 DEF Writing
    <3> QED BY <1>1, <1>3, <1>8, <1>9, <2>1, <2>2, <3>1, <3>2 DEF Here, ReadYourWrites
  <2> QED BY <2>3, <2>4
<1>10. CASE ~IsWrite
  <2>1. Settled /\ ReadAnswer(e)
    BY <1>1, <1>2, <1>10 DEF Answer
  <2>2. Settled'
    BY <1>1, <1>7, <2>1, SettledStays
  <2>3. pc' \in {"idle", "send", "sigbus"}
    BY <2>1 DEF ReadAnswer, Again
  <2>4. faults = {} => /\ UNCHANGED <<addr, overrun>> \/ pc' = "idle"
                       /\ pc' = "idle" => result' = want[call.a]
    <3> SUFFICES ASSUME faults = {}
                 PROVE  /\ UNCHANGED <<addr, overrun>> \/ pc' = "idle"
                        /\ pc' = "idle" => result' = want[call.a]
      OBVIOUS
    <3>1. addr = call.a /\ ~overrun /\ e.k # "beyond"
      BY <1>2, <1>5 DEF Known
    <3>2. CASE e.k = "r" /\ e.a = addr
      <4>1. e.v = want[call.a]
        BY <1>5, <2>1, <3>1, <3>2 DEF Settled, TrueRead
      <4>2. want[call.a] # Spoilt
        <5>1. want[call.a] \in Held
          BY DEF TypeOK
        <5> QED BY <5>1, UartAssumption DEF Held, Spoilt, Init0
      <4> QED BY <2>1, <3>1, <3>2, <4>1, <4>2 DEF ReadAnswer
    <3>3. CASE ~(e.k = "r" /\ e.a = addr)
      BY <2>1, <3>1, <3>3 DEF ReadAnswer, Again
    <3> QED BY <3>2, <3>3
  <2> QED BY <1>1, <1>2, <1>3, <1>8, <1>10, <2>2, <2>3, <2>4 DEF Here, ReadYourWrites
<1> QED BY <1>9, <1>10

(* What the console takes off the line, and puts there.                          *)
LEMMA LineMoves ==
  ASSUME TypeOK, cmds # <<>>, cmds' = Tail(cmds), NEW got \in Ans, rx' \in {rx, Append(rx, got)}
  PROVE  /\ Len(cmds) \in Nat /\ Len(cmds) > 0 /\ Len(cmds') = Len(cmds) - 1 /\ Len(rx) \in Nat
         /\ Head(cmds) = cmds[1] /\ Head(cmds) \in Typed
         /\ \A m \in 1..Len(cmds') : cmds'[m] = cmds[m + 1] /\ m + 1 \in 1..Len(cmds)
         /\ Len(rx') \in {Len(rx), Len(rx) + 1}
         /\ \A m \in 1..Len(rx) : rx'[m] = rx[m]
         /\ \A m \in 1..Len(rx') : m \in 1..Len(rx) \/ (m = Len(rx) + 1 /\ rx'[m] = got)
<1>1. cmds \in Seq(Typed) /\ rx \in Seq(Ans)
  BY DEF TypeOK
<1>2. Len(cmds) \in Nat /\ Len(rx) \in Nat
  BY <1>1
<1>3. /\ Len(cmds') = Len(cmds) - 1 /\ Len(cmds) > 0 /\ Head(cmds) = cmds[1] /\ Head(cmds) \in Typed
      /\ \A m \in 1..Len(cmds) - 1 : cmds'[m] = cmds[m + 1]
  BY <1>1, TailIs
<1>4. CASE rx' = rx
  BY <1>2, <1>3, <1>4
<1>5. CASE rx' = Append(rx, got)
  <2>1. /\ Len(rx') = Len(rx) + 1
        /\ \A m \in 1..Len(rx) : rx'[m] = rx[m]
        /\ rx'[Len(rx) + 1] = got
    BY <1>1, <1>5, AppendIs
  <2>2. \A m \in 1..Len(rx') : m \in 1..Len(rx) \/ m = Len(rx) + 1
    BY <1>2, <2>1
  <2> QED BY <1>2, <1>3, <2>1, <2>2
<1> QED BY <1>4, <1>5

(* An answer that may come behind the others during a write.                     *)
LEMMA WritingMoves ==
  ASSUME TypeOK, Writing, cmds # <<>>, cmds' = Tail(cmds),
         NEW got \in Ans, rx' \in {rx, Append(rx, got)},
         UNCHANGED <<call, want, last, faults>>,
         \A b \in Addrs \ {call.a} : mem'[b] = mem[b],
         Answers(got) => Match(Head(cmds)) /\ mem' = want,
         (\E m \in 1..Len(rx) : Answers(rx[m])) =>
           mem' = want /\ TrueRead(got) /\ AnswerTo(got, call)
  PROVE  Writing'
<1>1. /\ Len(cmds) \in Nat /\ Len(cmds) > 0 /\ Len(cmds') = Len(cmds) - 1 /\ Len(rx) \in Nat
      /\ Head(cmds) = cmds[1]
      /\ \A m \in 1..Len(cmds') : cmds'[m] = cmds[m + 1] /\ m + 1 \in 1..Len(cmds)
      /\ Len(rx') \in {Len(rx), Len(rx) + 1}
      /\ \A m \in 1..Len(rx) : rx'[m] = rx[m]
      /\ \A m \in 1..Len(rx') : m \in 1..Len(rx) \/ (m = Len(rx) + 1 /\ rx'[m] = got)
  BY LineMoves
<1>2. (/\ last = [a |-> call.a, v |-> call.v]
       /\ want[call.a] = call.v /\ \A b \in Addrs \ {call.a} : mem[b] = want[b])'
  BY DEF Writing
<1>3. (\A m \in 1..Len(cmds) : cmds[m].k = "w" /\ ~Match(cmds[m]) =>
         /\ cmds[m].a # call.a => cmds[m].v = want[cmds[m].a]
         /\ Crc(cmds[m].a, cmds[m].v) # Crc(call.a, call.v))'
  BY <1>1 DEF Writing, Match
<1>4. (\A m, l \in 1..Len(cmds) : m < l /\ Match(cmds[m]) => Copy(cmds[l], call))'
  <2> SUFFICES ASSUME NEW m \in 1..Len(cmds'), NEW l \in 1..Len(cmds'), m < l, Match(cmds[m])'
               PROVE  Copy(cmds[l], call)'
    OBVIOUS
  <2>1. m + 1 \in 1..Len(cmds) /\ l + 1 \in 1..Len(cmds) /\ m + 1 < l + 1
    BY <1>1
  <2>2. Match(cmds[m + 1])
    BY <1>1 DEF Match
  <2>3. Copy(cmds[l + 1], call)
    BY <2>1, <2>2 DEF Writing
  <2> QED BY <1>1, <2>3
<1>5. ASSUME NEW m \in 1..Len(rx'), Answers(rx[m])'
      PROVE  (/\ mem = want
              /\ \A l \in 1..Len(cmds) : Copy(cmds[l], call)
              /\ \A l \in m..Len(rx) : AnswerTo(rx[l], call) /\ TrueRead(rx[l]))'
  <2>1. CASE m \in 1..Len(rx)
    <3>1. Answers(rx[m])
      BY <1>1, <1>5, <2>1 DEF Answers
    <3>2. /\ \A l \in 1..Len(cmds) : Copy(cmds[l], call)
          /\ \A l \in m..Len(rx) : AnswerTo(rx[l], call) /\ TrueRead(rx[l])
      BY <2>1, <3>1 DEF Writing
    <3>3. mem' = want /\ TrueRead(got) /\ AnswerTo(got, call)
      BY <2>1, <3>1
    <3>4. (\A l \in 1..Len(cmds) : Copy(cmds[l], call))'
      BY <1>1, <3>2
    <3>5. \A l \in m..Len(rx') : (l \in m..Len(rx) /\ rx'[l] = rx[l]) \/ rx'[l] = got
      BY <1>1, <2>1
    <3>6. (\A l \in m..Len(rx) : AnswerTo(rx[l], call) /\ TrueRead(rx[l]))'
      BY <3>2, <3>3, <3>5 DEF TrueRead
    <3> QED BY <3>3, <3>4, <3>6
  <2>2. CASE m \notin 1..Len(rx)
    <3>1. m = Len(rx) + 1 /\ rx'[m] = got /\ Answers(got)
      BY <1>1, <1>5, <2>2 DEF Answers
    <3>2. Match(cmds[1]) /\ mem' = want
      BY <1>1, <3>1
    <3>3. \A l \in 1..Len(cmds') : Copy(cmds[l + 1], call)
      <4>1. \A l \in 1..Len(cmds') : l + 1 \in 1..Len(cmds) /\ 1 \in 1..Len(cmds) /\ 1 < l + 1
        BY <1>1
      <4> QED BY <3>2, <4>1 DEF Writing
    <3>4. (\A l \in 1..Len(cmds) : Copy(cmds[l], call))'
      BY <1>1, <3>3
    <3>5. \A l \in m..Len(rx') : l = m
      BY <1>1, <3>1
    <3>6. (AnswerTo(rx[m], call) /\ TrueRead(rx[m]))'
      BY <3>1 DEF Answers, AnswerTo, TrueRead
    <3> QED BY <3>2, <3>4, <3>5, <3>6
  <2> QED BY <2>1, <2>2
<1> QED BY <1>2, <1>3, <1>4, <1>5 DEF Writing

LEMMA ConsoleKeeps ==
  ASSUME TypeOK, Clean, Here, ReadYourWrites, Console
  PROVE  /\ Here' /\ ReadYourWrites'
         /\ pc = "idle" => mem' = mem
<1> DEFINE c == Head(cmds)
<1>1. /\ cmds # <<>> /\ cmds' = Tail(cmds)
      /\ UNCHANGED <<pc, call, i, addr, overrun, result, want, last, mixed, faults>>
  BY DEF Console
<1>2. c \in Typed /\ c = cmds[1] /\ 1 \in 1..Len(cmds) /\ Len(cmds) \in Nat
  BY <1>1, TailIs DEF TypeOK
<1>3. PICK got \in {Carry(c), Junk} \cup
                   (IF "data" \in faults /\ Carry(c).k = "r" THEN {ReadAns(c.a, Spoilt)} ELSE {}) :
        rx' = Append(rx, got)
  BY DEF Console
<1>4. mem' = IF Carry(c).k = "w" THEN [mem EXCEPT ![c.a] = c.v] ELSE mem
  BY DEF Console
<1> HIDE DEF c
<1>5. got \in Ans
  BY <1>2, <1>3, CarryIs, AnsIn
<1>6. Known
  BY DEF Here
<1>7. mem \in [Addrs -> Held] /\ want \in [Addrs -> Held]
  BY DEF TypeOK
<1>8. CASE c.k = "w"
  <2>1. c.a \in Addrs /\ c.a \notin ReadOnly
    BY <1>2, <1>6, <1>8 DEF Known
  <2>2. Carry(c) = WriteAns(c.a, c.v) /\ Carry(c).k = "w"
    BY <1>2, <1>8, <2>1, CarryIs DEF WriteAns
  <2>3. mem' = [mem EXCEPT ![c.a] = c.v]
    BY <1>4, <2>2
  <2>4. got.k # "refused" /\ got.k # "beyond" /\ got.k # "r"
        /\ (got.k = "w" => got.c = Crc(c.a, c.v))
    BY <1>3, <2>2 DEF WriteAns, Junk
  <2>5. Known'
    BY <1>1, <1>5, <1>6, <2>1, <2>4, <1>3, LineMoves DEF Known
  <2>6. ASSUME Settled
        PROVE  mem' = mem /\ Settled'
    <3>1. mem = want /\ c.v = want[c.a] /\ c.a = last.a /\ c.v = last.v
      BY <1>2, <1>8, <2>6 DEF Settled, Copy
    <3>2. mem' = mem
      BY <1>7, <2>1, <2>3, <3>1
    <3>3. \A m \in 1..Len(cmds') : \E l \in 1..Len(cmds) : cmds[l] = cmds'[m]
      BY <1>1, <1>3, <1>5, LineMoves
    <3>4. \A m \in 1..Len(rx') :
            (AnswerTo(rx'[m], last) /\ TrueRead(rx'[m])) \/ \E l \in 1..Len(rx) : rx[l] = rx'[m]
      <4>1. AnswerTo(got, last) /\ TrueRead(got)
        BY <2>4, <3>1 DEF AnswerTo, TrueRead
      <4> QED BY <1>1, <1>3, <1>5, <4>1, LineMoves
    <3> QED BY <1>1, <2>6, <3>2, <3>3, <3>4, SettledStays
  <2>7. ASSUME Writing
        PROVE  Writing'
    <3>1. /\ want[call.a] = call.v /\ \A b \in Addrs \ {call.a} : mem[b] = want[b]
          /\ ~Match(c) => /\ c.a # call.a => c.v = want[c.a]
                          /\ Crc(c.a, c.v) # Crc(call.a, call.v)
      BY <1>2, <1>8, <2>7 DEF Writing
    <3>2. \A b \in Addrs \ {call.a} : mem'[b] = mem[b]
      BY <1>7, <1>8, <2>1, <2>3, <3>1 DEF Match
    <3>3. Answers(got) => Match(c)
      BY <2>4, <3>1 DEF Answers
    <3>4. Match(c) => mem' = want
      BY <1>7, <2>1, <2>3, <3>1 DEF Match
    <3>5. (\E m \in 1..Len(rx) : Answers(rx[m])) => Match(c)
      BY <1>2, <1>8, <2>7 DEF Writing, Copy, Match
    <3>6. Match(c) => TrueRead(got) /\ AnswerTo(got, call)
      BY <2>4 DEF Match, TrueRead, AnswerTo
    <3> QED BY <1>1, <1>3, <1>5, <2>7, <3>2, <3>3, <3>4, <3>5, <3>6, WritingMoves DEF c
  <2> QED BY <1>1, <2>5, <2>6, <2>7 DEF Here, ReadYourWrites, IsWrite
<1>9. CASE c.k # "w"
  <2>1. c.k = "r" /\ Carry(c).k # "w" /\ mem' = mem
        /\ (faults = {} => c.a \in Addrs)
    <3>1. c.k = "r"
      BY <1>2, <1>9 DEF Typed
    <3>2. Carry(c).k # "w"
      <4>1. Carry(c) = Beyond \/ Carry(c) = ReadAns(c.a, mem[c.a])
        BY <1>2, <3>1, CarryIs
      <4>2. Beyond.k # "w" /\ ReadAns(c.a, mem[c.a]).k # "w"
        BY DEF Beyond, ReadAns
      <4> QED BY <4>1, <4>2
    <3> QED BY <1>2, <1>4, <1>6, <3>1, <3>2 DEF Known
  <2>2. got.k # "w" /\ got.k # "refused"
        /\ (faults = {} => got.k # "beyond" /\ (got.k = "r" => got.a \in Addrs /\ got.v = mem[got.a]))
    <3>1. CASE c.a \in Far
      <4>1. Carry(c) = Beyond
        BY <1>2, <2>1, <3>1, CarryIs
      <4>2. got \in {Beyond, Junk} /\ faults # {}
        BY <1>3, <2>1, <3>1, <4>1, UartAssumption DEF Beyond
      <4> QED BY <4>2 DEF Beyond, Junk
    <3>2. CASE c.a \notin Far
      <4>1. Carry(c) = ReadAns(c.a, mem[c.a]) /\ c.a \in Addrs
        BY <1>2, <2>1, <3>2, CarryIs
      <4>2. got \in {ReadAns(c.a, mem[c.a]), Junk} \/ (got = ReadAns(c.a, Spoilt) /\ faults # {})
        BY <1>3, <4>1
      <4> QED BY <4>1, <4>2 DEF ReadAns, Junk
    <3> QED BY <3>1, <3>2
  <2>3. Known'
    BY <1>1, <1>3, <1>5, <1>6, <2>2, LineMoves DEF Known
  <2>4. AnswerTo(got, last) /\ AnswerTo(got, call) /\ ~Answers(got) /\ (mem = want => TrueRead(got))
    BY <2>2 DEF AnswerTo, Answers, TrueRead
  <2>5. ASSUME Settled
        PROVE  Settled'
    <3>1. AnswerTo(got, last) /\ TrueRead(got)
      BY <2>4, <2>5 DEF Settled
    <3>2. \A m \in 1..Len(cmds') : \E l \in 1..Len(cmds) : cmds[l] = cmds'[m]
      BY <1>1, <1>3, <1>5, LineMoves
    <3>3. \A m \in 1..Len(rx') : (\E l \in 1..Len(rx) : rx[l] = rx'[m]) \/ rx'[m] = got
      BY <1>1, <1>3, <1>5, LineMoves
    <3> QED BY <1>1, <2>1, <2>5, <3>1, <3>2, <3>3, SettledStays
  <2>6. ASSUME Writing
        PROVE  Writing'
    <3>1. (\E m \in 1..Len(rx) : Answers(rx[m])) => mem = want
      BY <2>6 DEF Writing
    <3> QED BY <1>1, <1>3, <1>5, <2>1, <2>4, <2>6, <3>1, WritingMoves
  <2> QED BY <1>1, <2>1, <2>3, <2>5, <2>6 DEF Here, ReadYourWrites, IsWrite
<1> QED BY <1>8, <1>9

LEMMA LostKeeps ==
  ASSUME TypeOK, Clean, Here, ReadYourWrites, Lost
  PROVE  Here' /\ ReadYourWrites'
<1>1. /\ cmds # <<>> /\ cmds' = Tail(cmds) /\ rx' \in {rx, Append(rx, Junk)} /\ Junk \in Ans
      /\ UNCHANGED <<pc, call, i, addr, overrun, result, mem, want, last, mixed, faults>>
  BY AnsIn DEF Lost, history
<1>2. Known /\ Junk.k = "junk"
  BY DEF Here, Junk
<1>3. Known'
  BY <1>1, <1>2, LineMoves DEF Known
<1>4. ASSUME Settled
      PROVE  Settled'
  <2>1. \A m \in 1..Len(cmds') : \E l \in 1..Len(cmds) : cmds[l] = cmds'[m]
    BY <1>1, LineMoves
  <2>2. \A m \in 1..Len(rx') : (\E l \in 1..Len(rx) : rx[l] = rx'[m]) \/ rx'[m] = Junk
    BY <1>1, LineMoves
  <2>3. AnswerTo(Junk, last) /\ TrueRead(Junk)
    BY <1>2 DEF AnswerTo, TrueRead
  <2> QED BY <1>1, <1>4, <2>1, <2>2, <2>3, SettledStays
<1>5. ASSUME Writing
      PROVE  Writing'
  <2>1. (\E m \in 1..Len(rx) : Answers(rx[m])) => mem = want
    BY <1>5 DEF Writing
  <2>2. ~Answers(Junk) /\ AnswerTo(Junk, call) /\ TrueRead(Junk)
    BY <1>2 DEF Answers, AnswerTo, TrueRead
  <2> QED BY <1>1, <1>5, <2>1, <2>2, WritingMoves
<1> QED BY <1>1, <1>3, <1>4, <1>5 DEF Here, ReadYourWrites, IsWrite

-----------------------------------------------------------------------------
(* The theorems.                                                               *)

LEMMA InitInv == Init => Inv
<1> SUFFICES ASSUME Init PROVE Inv
  OBVIOUS
<1>1. TypeOK
  BY InitType
<1>2. /\ pc = "idle" /\ call.kind = "none" /\ cmds = <<>> /\ rx = <<>> /\ mem = want
      /\ want[last.a] = last.v
  BY <1>1 DEF Init, TypeOK
<1>3. Len(cmds) = 0 /\ Len(rx) = 0
  BY <1>2
<1>4. Known /\ Settled
  BY <1>2, <1>3 DEF Known, Settled
<1> QED BY <1>1, <1>2, <1>4 DEF Inv, Here, ReadYourWrites, IsWrite

LEMMA NextInv == Inv /\ [Next]_vars => Inv'
<1> SUFFICES ASSUME Inv, [Next]_vars PROVE Inv'
  OBVIOUS
<1>1. TypeOK /\ TypeOK'
  BY NextType DEF Inv
<1>2. faults' = faults /\ (mixed => mixed')
  <2>1. ASSUME NEW k, NEW a, NEW v, Start(k, a, v) PROVE faults' = faults /\ (mixed => mixed')
    BY <2>1 DEF Start
  <2>2. CASE Driver \/ Console \/ Lost \/ UNCHANGED vars
    BY <2>2 DEF vars, history, Driver, Send, Receive, Timeout, Console, Lost
  <2> QED BY <2>1, <2>2 DEF Next
<1> SUFFICES ASSUME Clean' PROVE Here' /\ ReadYourWrites'
  BY <1>1 DEF Inv
<1>3. Clean /\ Here /\ ReadYourWrites
  BY <1>2 DEF Inv, Clean
<1>4. Init0 \in Held /\ Values \subseteq Held
  BY DEF Held
<1>5. CASE UNCHANGED vars
  <2>1. UNCHANGED <<pc, call, addr, overrun, result, cmds, rx, mem, want, last, mixed, faults>>
    BY <1>5 DEF vars, line, history
  <2> QED BY <1>3, <2>1, LineStays DEF Here, ReadYourWrites
<1> QED BY <1>1, <1>3, <1>4, <1>5, StartKeeps, SendKeeps, ReceiveKeeps, TimeoutKeeps, ConsoleKeeps, LostKeeps
        DEF Next, Driver

(* For any CRC and whatever the line loses, delays or spoils: the line holds       *)
(* copies of the last write only, and of the one before it while a write lasts,  *)
(* as long as no refusal and no reused buffer confuses the driver and no write   *)
(* begins while another with its CRC is under way (linux-uart.c:388).            *)
THEOREM InvHolds == Spec => []Inv
BY InitInv, NextInv, PTL DEF Spec

(* A write that returned is in the GAS, unless it or an earlier one began while    *)
(* another write with its CRC was under way.                                     *)
THEOREM CoherentHolds == Spec => []Coherent
<1>1. Inv => Coherent
  BY DEF Inv, Here, Coherent, Settled
<1> QED BY <1>1, InvHolds, PTL

(* A read returns what was written last, on the same condition.                   *)
THEOREM ReadYourWritesHolds == Spec => []ReadYourWrites
<1>1. Inv => ReadYourWrites
  BY DEF Inv, ReadYourWrites, Clean
<1> QED BY <1>1, InvHolds, PTL

(* Copies of a write that come after it returned do not change the GAS, on the     *)
(* same condition.                                                               *)
THEOREM QuietAfterReturnHolds == Spec => QuietAfterReturn
<1>1. Inv /\ [Next]_vars => [(pc = "idle" /\ Clean) => mem' = mem]_vars
  <2> SUFFICES ASSUME Inv, [Next]_vars, pc = "idle", Clean PROVE mem' = mem
    OBVIOUS
  <2>1. TypeOK /\ Here /\ ReadYourWrites
    BY DEF Inv
  <2>2. CASE Console
    BY <2>1, <2>2, ConsoleKeeps
  <2>3. CASE ~Console
    BY <2>3 DEF Next, vars, Driver, Start, Send, Receive, Timeout, Lost
  <2> QED BY <2>2, <2>3
<1> QED BY <1>1, InvHolds, PTL DEF Spec, QuietAfterReturn

-----------------------------------------------------------------------------
(* How long a call takes, in commands typed and answers awaited.                 *)

Busy == pc \in {"send", "wait"}
StepsLeft ==
  CASE pc = "send" -> 2 * (RetryNum - i)
    [] pc = "wait" -> 2 * (RetryNum - i) - 1
    [] OTHER -> 0
Bounded == StepsLeft \in 0..(2 * RetryNum) /\ (Busy => StepsLeft > 0)

LEMMA TypeBounds == TypeOK => Bounded
BY UartAssumption DEF TypeOK, StepsLeft, Bounded, Busy

LEMMA StepNears ==
  ASSUME TypeOK, TypeOK', [Next]_vars, Busy
  PROVE  IF Driver THEN StepsLeft' < StepsLeft ELSE StepsLeft' = StepsLeft
<1>1. RetryNum \in Nat /\ i \in Nat /\ i < RetryNum /\ i' \in Nat
  BY UartAssumption DEF TypeOK, Busy
<1>2. /\ pc = "send" => StepsLeft = 2 * (RetryNum - i)
      /\ pc = "wait" => StepsLeft = 2 * (RetryNum - i) - 1
      /\ pc' = "send" => StepsLeft' = 2 * (RetryNum - i')
      /\ pc' = "wait" => StepsLeft' = 2 * (RetryNum - i') - 1
      /\ pc' \in {"idle", "sigbus"} => StepsLeft' = 0
  BY DEF StepsLeft
<1>3. ASSUME Again PROVE StepsLeft' \in Nat /\ StepsLeft' <= 2 * (RetryNum - i) - 2
  <2>1. i' = i + 1 /\ (pc' = "send" \/ (pc' = "sigbus" /\ i + 1 = RetryNum))  BY <1>3 DEF Again
  <2> QED  BY <1>1, <1>2, <2>1
<1>4. CASE Send
  <2>1. pc = "send"  BY <1>4 DEF Send
  <2>2. ASSUME pc' = "wait", i' = i PROVE StepsLeft' < StepsLeft  BY <1>1, <1>2, <2>1, <2>2
  <2>3. ASSUME Again PROVE StepsLeft' < StepsLeft  BY <1>1, <1>2, <1>3, <2>1, <2>3
  <2>4. Again \/ (pc' = "wait" /\ i' = i)  BY <1>4 DEF Send
  <2> QED  BY <1>4, <2>2, <2>3, <2>4 DEF Driver
<1>5. ASSUME NEW x, Answer(x) PROVE pc' = "idle" \/ Again
  BY <1>5 DEF Answer, WriteAnswer, ReadAnswer
<1>6. CASE Receive \/ Timeout
  <2>1. pc = "wait" /\ (pc' = "idle" \/ Again)
    BY <1>5, <1>6 DEF Receive, Timeout
  <2>2. ASSUME pc' = "idle" PROVE StepsLeft' < StepsLeft  BY <1>1, <1>2, <2>1, <2>2
  <2>3. ASSUME Again PROVE StepsLeft' < StepsLeft  BY <1>1, <1>2, <1>3, <2>1, <2>3
  <2> QED  BY <1>6, <2>1, <2>2, <2>3 DEF Driver
<1>7. CASE Console \/ Lost \/ UNCHANGED vars
  <2>1. pc' = pc /\ i' = i  BY <1>7 DEF Console, Lost, vars
  <2>2. ~Again  BY <1>1, <2>1 DEF Again
  <2>3. ~Driver  BY <1>5, <2>1, <2>2 DEF Driver, Send, Receive, Timeout
  <2> QED  BY <2>1, <2>3 DEF StepsLeft
<1>8. \A k, a, v : ~Start(k, a, v)
  BY DEF Start, Busy
<1> QED  BY <1>4, <1>6, <1>7, <1>8 DEF Next, Driver

(* uart_gas_read and uart_gas_write end, whatever line and console do, refusals   *)
(* and reused buffers included: a call types RETRY_NUM commands at most and       *)
(* awaits as many answers.                                                        *)
THEOREM CallIsBounded ==
  Spec => /\ []Bounded
          /\ [][Busy => IF Driver THEN StepsLeft' < StepsLeft ELSE StepsLeft' = StepsLeft]_vars
<1>1. TypeOK /\ TypeOK' /\ [Next]_vars =>
        [Busy => IF Driver THEN StepsLeft' < StepsLeft ELSE StepsLeft' = StepsLeft]_vars
  BY StepNears
<1> QED  BY <1>1, TypeBounds, TypeHolds, PTL DEF Spec
=============================================================================
