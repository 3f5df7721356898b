--------------------------- MODULE GasopCmd_proofs ---------------------------
(* Proofs about GasopCmd, for any number of processes, calls and polls and any *)
(* size of the mailbox: the type invariant; that a critical command is carried *)
(* out at most once if the transport keeps the promise of its no-retry write,  *)
(* which TwiGas_proofs!OnceAtMostOnceHolds shows of I2C; and that a call       *)
(* nothing overlaps returns its own answer.                                    *)
EXTENDS GasopCmd, TLAPS

(* Sanity of the numbers of calls: a process that is in a call has a number of *)
(* a call.                                                                     *)
LEMMA BusyId ==
  ASSUME TypeOK, BusyInv, NEW x \in Procs, pc[x] # "idle"
  PROVE  id[x] \in Ids
BY DEF TypeOK, BusyInv, Ids

(* The loops over the words of the mailbox stay inside it.                     *)
LEMMA NextWord == \A i \in Words : i < NumWords => i + 1 \in Words
<1>1. NumWords \in Nat
  BY CmdAssumption
<1> QED BY <1>1 DEF Words

(* What is before the next word, and that the last word is the end.            *)
LEMMA BeforeNext ==
  ASSUME NEW n \in Words
  PROVE  /\ \A w \in Words : w < n + 1 => w < n \/ w = n
         /\ ~(n < NumWords) => \A w \in Words : w < n + 1
<1>1. NumWords \in Nat
  BY CmdAssumption
<1> QED BY <1>1 DEF Words

(* What landed grows by one where it grows.                                    *)
LEMMA GrowsByOne ==
  ASSUME NEW f \in [Ids -> Nat], NEW i \in Ids
  PROVE  [f EXCEPT ![i] = @ + 1] \in [Ids -> Nat]
OBVIOUS

(* The table of gasops.c:60-75 lists every critical command, except for those  *)
(* that Unlisted names; and of those it lists none.                            *)
LEMMA TableLists ==
  ASSUME NEW c \in [cmd : Cmds, sub : Subs], Critical(c)
  PROVE  NoRetryCmd(c) <=> ~Unlisted(c)
BY DEF Critical, Unlisted, NoRetryCmd, NoRetryAll, NoRetryToggle

(* The calls that a mailbox begins with are calls.                             *)
LEMMA NoCallType == NoCall \in CallType
BY DEF NoCall, CallType, Cmds, Subs, Critical

(* The initial state is well typed.                                            *)
LEMMA InitType == Init => TypeOK
BY CmdAssumption, NoCallType DEF Init, TypeOK, Words, Ids, Blank, Rets

(* Every step keeps the types: one step of the proof for each action.          *)
LEMMA NextType == TypeOK /\ BusyInv /\ [Next]_vars => TypeOK'
<1> SUFFICES ASSUME TypeOK, BusyInv, [Next]_vars PROVE TypeOK'
  OBVIOUS
<1> USE CmdAssumption DEF TypeOK, Words
<1>1. ASSUME NEW x \in Procs, NEW c \in Calls, Begin(x, c)
      PROVE TypeOK'
  <2>1. calls + 1 \in 1..MaxCalls /\ c \in CallType
    BY <1>1 DEF Begin
  <2>2. /\ pc' \in [Procs -> {"idle", "input", "cmd", "poll", "error", "retval", "output"}]
        /\ ret' \in [Procs -> Rets]
    BY <1>1 DEF Begin, Goto, Rets
  <2>3. call' \in [Ids -> CallType]
    BY <1>1, <2>1 DEF Begin, Ids
  <2>4. calls' \in 0..MaxCalls /\ alone' \in 0..MaxCalls /\ id' \in [Procs -> 0..MaxCalls]
    BY <1>1, <2>1 DEF Begin
  <2>5. /\ k' \in [Procs -> Words] /\ polls' \in [Procs -> 0..MaxPolls]
        /\ resp' \in [Procs -> [Words -> 0..MaxCalls]]
    <3>1. Blank \in [Words -> 0..MaxCalls]
      BY DEF Blank
    <3>2. 1 \in Words /\ 0 \in 0..MaxPolls
      BY CmdAssumption
    <3>3. k' = [k EXCEPT ![x] = 1] /\ polls' = [polls EXCEPT ![x] = 0]
          /\ resp' = [resp EXCEPT ![x] = Blank]
      BY <1>1 DEF Begin
    <3>4. k' \in [Procs -> Words]
      BY <3>2, <3>3
    <3>5. polls' \in [Procs -> 0..MaxPolls]
      BY <3>2, <3>3
    <3>6. resp' \in [Procs -> [Words -> 0..MaxCalls]]
      BY <3>1, <3>3
    <3> QED BY <3>4, <3>5, <3>6
  <2>6. UNCHANGED <<input, status, retval, output, run, landed, done>>
    BY <1>1 DEF Begin, mailbox
  <2> QED BY <2>2, <2>3, <2>4, <2>5, <2>6
<1>2. ASSUME NEW x \in Procs, Input(x) PROVE TypeOK'
  <2>1. input' \in [Words -> 0..MaxCalls]
    BY <1>2 DEF Input
  <2>2. pc' \in [Procs -> {"idle", "input", "cmd", "poll", "error", "retval", "output"}]
    BY <1>2 DEF Input, Goto, history
  <2>3. k' \in [Procs -> Words]
    <3>1. k[x] \in 1..NumWords
      OBVIOUS
    <3>2. CASE k[x] < NumWords
      <4>1. k' = [k EXCEPT ![x] = k[x] + 1]
        BY <1>2, <3>2 DEF Input
      <4>2. k[x] + 1 \in 1..NumWords
        BY <3>1, <3>2, NextWord
      <4> QED BY <4>1, <4>2
    <3>3. CASE ~(k[x] < NumWords)
      <4>1. k' = [k EXCEPT ![x] = 1]
        BY <1>2, <3>3 DEF Input
      <4> QED BY <4>1
    <3> QED BY <3>2, <3>3
  <2> QED BY <1>2, <2>1, <2>2, <2>3 DEF Input, history
<1>3. ASSUME NEW x \in Procs, Land(x) PROVE TypeOK'
  <2>1. id[x] \in Ids /\ id[x] \in 0..MaxCalls
    BY <1>3, BusyId DEF Land
  <2>2. landed' \in [Ids -> Nat]
    <3>1. landed' = [landed EXCEPT ![id[x]] = @ + 1]
      BY <1>3 DEF Land
    <3> QED BY <2>1, <3>1, GrowsByOne
  <2>3. run' \in [call : 0..MaxCalls, in : [Words -> 0..MaxCalls]]
    <3>1. run' = run \/ run' = [call |-> id[x], in |-> input]
      BY <1>3 DEF Land
    <3>2. [call |-> id[x], in |-> input] \in [call : 0..MaxCalls, in : [Words -> 0..MaxCalls]]
      BY <2>1
    <3> QED BY <3>1, <3>2
  <2> QED BY <1>3, <2>2, <2>3 DEF Land, local
<1>4. ASSUME NEW x \in Procs, Ack(x) PROVE TypeOK'
  BY <1>4 DEF Ack, Goto, Return, mailbox, history, Rets
<1>5. ASSUME NEW x \in Procs, Poll(x) PROVE TypeOK'
  <2>1. PICK st \in {status} \cup (Faults \cap {"ones"}) : Judge(x, st)
    BY <1>5 DEF Poll
  <2>2. CASE Wait(x)
    <3>1. polls' \in [Procs -> 0..MaxPolls]
      <4>1. polls[x] < MaxPolls
        BY <1>5 DEF Poll, BusyInv
      <4>2. polls[x] \in 0..MaxPolls /\ MaxPolls \in Nat
        BY CmdAssumption
      <4>3. polls[x] + 1 \in 0..MaxPolls
        <5> HIDE DEF TypeOK
        <5> QED BY <4>1, <4>2
      <4> QED BY <2>2, <4>3 DEF Wait
    <3>2. /\ pc' \in [Procs -> {"idle", "input", "cmd", "poll", "error", "retval", "output"}]
          /\ ret' \in [Procs -> Rets]
      BY <2>2 DEF Wait, Return, Goto, Rets
    <3> QED BY <1>5, <3>1, <3>2 DEF Poll, mailbox, history
  <2>3. CASE ~Wait(x)
    <3>1. polls' = polls
      BY <2>1, <2>3 DEF Judge
    <3>2. /\ pc' \in [Procs -> {"idle", "input", "cmd", "poll", "error", "retval", "output"}]
          /\ ret' \in [Procs -> Rets]
      BY <2>1, <2>3 DEF Judge, Return, Goto, Rets
    <3> QED BY <1>5, <3>1, <3>2 DEF Poll, mailbox, history
  <2> QED BY <2>2, <2>3
<1>6. ASSUME NEW x \in Procs, RetValue(x) PROVE TypeOK'
  BY <1>6 DEF RetValue, Goto, mailbox, history, Rets
<1>12. ASSUME NEW x \in Procs, ErrValue(x) PROVE TypeOK'
  BY <1>12 DEF ErrValue, Return, Goto, mailbox, history, Rets
<1>7. ASSUME NEW x \in Procs, Output(x) PROVE TypeOK'
  <2>1. resp' \in [Procs -> [Words -> 0..MaxCalls]]
    BY <1>7 DEF Output
  <2>2. pc' \in [Procs -> {"idle", "input", "cmd", "poll", "error", "retval", "output"}]
    BY <1>7 DEF Output, Goto
  <2>3. k' \in [Procs -> Words]
    <3>1. k[x] \in 1..NumWords
      OBVIOUS
    <3>2. CASE k[x] < NumWords
      <4>1. k' = [k EXCEPT ![x] = k[x] + 1]
        BY <1>7, <3>2 DEF Output
      <4>2. k[x] + 1 \in 1..NumWords
        BY <3>1, <3>2, NextWord
      <4> QED BY <4>1, <4>2
    <3>3. CASE ~(k[x] < NumWords)
      BY <1>7, <3>3 DEF Output
    <3> QED BY <3>2, <3>3
  <2> QED BY <1>7, <2>1, <2>2, <2>3 DEF Output, mailbox, history
<1>8. ASSUME NEW x \in Procs, Die(x) PROVE TypeOK'
  BY <1>8 DEF Die, Return, Goto, mailbox, history, Rets
<1>9. CASE Finish
  <2>1. run.call \in Ids
    BY <1>9 DEF Finish, Ids
  <2>2. done' \in [Ids -> Nat]
    BY <1>9, <2>1 DEF Finish
  <2>3. run' \in [call : 0..MaxCalls, in : [Words -> 0..MaxCalls]]
    <3>1. run' = [run EXCEPT !.call = 0]
      BY <1>9 DEF Finish
    <3>2. run' = [call |-> 0, in |-> run.in]
      BY <3>1
    <3> QED BY <3>2
  <2>4. output' \in [Words -> 0..MaxCalls] /\ retval' \in {0, 1}
        /\ status' \in {"none", "INPROGRESS", "DONE", "ERROR", "INTERRUPTED"}
    BY <1>9 DEF Finish
  <2> QED BY <1>9, <2>2, <2>3, <2>4 DEF Finish, local
<1>10. CASE FinishBadly
  <2>1. run' \in [call : 0..MaxCalls, in : [Words -> 0..MaxCalls]]
    <3>1. run' = [run EXCEPT !.call = 0]
      BY <1>10 DEF FinishBadly, history
    <3>2. run' = [call |-> 0, in |-> run.in]
      BY <3>1
    <3> QED BY <3>2
  <2> QED BY <1>10, <2>1 DEF FinishBadly, local, history
<1>11. CASE UNCHANGED vars
  BY <1>11 DEF vars, local, mailbox, history
<1> QED BY <1>1, <1>2, <1>3, <1>4, <1>5, <1>6, <1>7, <1>8, <1>9, <1>10, <1>11, <1>12 DEF Next, Step

(* A call that has not begun has not landed, and nothing but a call that has   *)
(* begun runs.                                                                 *)
LEMMA NextBusy == TypeOK /\ BusyInv /\ [Next]_vars => BusyInv'
<1> SUFFICES ASSUME TypeOK, BusyInv, [Next]_vars PROVE BusyInv'
  OBVIOUS
<1> USE DEF TypeOK, BusyInv
<1>1. ASSUME NEW x \in Procs, NEW c \in Calls, Begin(x, c)
      PROVE BusyInv'
  <2>1. calls' = calls + 1 /\ id' = [id EXCEPT ![x] = calls'] /\ run' = run /\ landed' = landed
        /\ polls' = [polls EXCEPT ![x] = 0] /\ pc' = [pc EXCEPT ![x] = "input"]
    BY <1>1 DEF Begin, Goto, mailbox, history
  <2>2. calls \in Nat /\ MaxPolls > 0
    BY CmdAssumption
  <2>3. \A y \in Procs : pc'[y] # "idle" => id'[y] # 0
    BY <2>1, <2>2
  <2>4. \A y \in Procs : pc'[y] \in {"input", "cmd", "poll"} => polls'[y] < MaxPolls
    BY <2>1, <2>2
  <2>5. (\A y \in Procs : id'[y] <= calls') /\ run'.call <= calls'
    BY <2>1, <2>2
  <2>6. \A i \in Ids : i > calls' => landed'[i] = 0
    BY <2>1, <2>2 DEF Ids
  <2> QED BY <2>3, <2>4, <2>5, <2>6
<1>2. ASSUME NEW x \in Procs, Input(x) PROVE BusyInv'
  BY <1>2 DEF Input, Goto, history
<1>3. ASSUME NEW x \in Procs, Land(x) PROVE BusyInv'
  <2>1. id[x] \in Ids
    BY <1>3, BusyId DEF Land
  <2>2. \A i \in Ids : i > calls => landed'[i] = 0
    BY <1>3, <2>1 DEF Land, Ids
  <2> QED BY <1>3, <2>2 DEF Land, local
<1>4. ASSUME NEW x \in Procs, Ack(x) PROVE BusyInv'
  BY <1>4 DEF Ack, Goto, Return, mailbox, history
<1>5. ASSUME NEW x \in Procs, Poll(x) PROVE BusyInv'
  <2>1. PICK st \in {status} \cup (Faults \cap {"ones"}) : Judge(x, st)
    BY <1>5 DEF Poll
  <2>2. UNCHANGED <<id, run, landed, calls>> /\ pc[x] = "poll"
    BY <1>5 DEF Poll, mailbox, history
  <2>3. CASE Wait(x)
    <3>1. CASE UNCHANGED <<pc, polls>>
      BY <2>2, <3>1
    <3>2. CASE ~UNCHANGED <<pc, polls>>
      <4>1. /\ polls' = [polls EXCEPT ![x] = polls[x] + 1] /\ polls[x] < MaxPolls
            /\ polls'[x] = MaxPolls => pc' = [pc EXCEPT ![x] = "idle"]
            /\ polls'[x] # MaxPolls => pc' = pc
        BY <2>2, <2>3, <3>2 DEF Wait, Return, Goto
      <4>2. polls'[x] = polls[x] + 1 /\ polls[x] \in Nat /\ MaxPolls \in Nat
        BY <4>1, CmdAssumption
      <4>3. pc' \in [Procs -> {"idle", "input", "cmd", "poll", "error", "retval", "output"}]
        BY <4>1
      <4>4. \A y \in Procs : pc'[y] \in {"input", "cmd", "poll"} => polls'[y] < MaxPolls
        <5> SUFFICES ASSUME NEW y \in Procs, pc'[y] \in {"input", "cmd", "poll"}
                     PROVE polls'[y] < MaxPolls
          OBVIOUS
        <5>1. CASE y = x
          <6>1. polls'[x] # MaxPolls
            BY <4>1, <5>1
          <6> QED BY <4>1, <4>2, <5>1, <6>1
        <5>2. CASE y # x
          BY <4>1, <5>2
        <5> QED BY <5>1, <5>2
      <4>5. \A y \in Procs : pc'[y] # "idle" => id'[y] # 0
        BY <2>2, <4>1
      <4> QED BY <2>2, <4>4, <4>5
    <3> QED BY <3>1, <3>2
  <2>4. CASE ~Wait(x)
    BY <2>1, <2>2, <2>4 DEF Judge, Return, Goto
  <2> QED BY <2>3, <2>4
<1>6. ASSUME NEW x \in Procs, RetValue(x) PROVE BusyInv'
  BY <1>6 DEF RetValue, Goto, mailbox, history
<1>12. ASSUME NEW x \in Procs, ErrValue(x) PROVE BusyInv'
  BY <1>12 DEF ErrValue, Return, Goto, mailbox, history
<1>7. ASSUME NEW x \in Procs, Output(x) PROVE BusyInv'
  BY <1>7 DEF Output, Goto, mailbox, history
<1>8. ASSUME NEW x \in Procs, Die(x) PROVE BusyInv'
  BY <1>8 DEF Die, Return, Goto, mailbox, history
<1>9. CASE Finish
  BY <1>9 DEF Finish, local
<1>10. CASE FinishBadly
  BY <1>10 DEF FinishBadly, local, history
<1>11. CASE UNCHANGED vars
  BY <1>11 DEF vars, local, mailbox, history
<1> QED BY <1>1, <1>2, <1>3, <1>4, <1>5, <1>6, <1>7, <1>8, <1>9, <1>10, <1>11, <1>12 DEF Next, Step

(* What runs, or was carried out, has landed, and what is sent once has landed *)
(* once: only Begin, Land and Finish touch either side.                        *)
LEMMA NextLanded == Inv /\ [Next]_vars => LandedInv'
<1> SUFFICES ASSUME TypeOK, BusyInv, LandedInv, [Next]_vars PROVE LandedInv'
  BY DEF Inv
<1> USE DEF TypeOK, LandedInv
<1>1. ASSUME NEW x \in Procs, NEW c \in Calls, Begin(x, c)
      PROVE LandedInv'
  <2>1. landed' = landed /\ done' = done /\ run' = run
    BY <1>1 DEF Begin, mailbox, history
  <2>2. \A i \in Ids : i # calls' => call'[i] = call[i]
    BY <1>1 DEF Begin
  <2>3. calls' \in Ids => landed[calls'] = 0
    BY <1>1 DEF Begin, BusyInv, Ids
  <2>4. \A i \in Ids : i # calls' => (Once(i)' <=> Once(i))
    BY <2>2 DEF Once
  <2> QED BY <2>1, <2>3, <2>4
<1>3. ASSUME NEW x \in Procs, Land(x) PROVE LandedInv'
  <2>1. id[x] \in Ids
    BY <1>3, BusyId DEF Land
  <2>2. /\ landed' = [landed EXCEPT ![id[x]] = @ + 1] /\ call' = call /\ done' = done
        /\ (OnceIsOnce /\ Once(id[x])) => landed[id[x]] < 1
        /\ \/ run.call # 0 /\ run' = run
           \/ run.call = 0 /\ run'.call = id[x]
    BY <1>3 DEF Land
  <2>3. \A i \in Ids : Once(i)' <=> Once(i)
    BY <2>2 DEF Once
  <2>4. ASSUME NEW i \in Ids
        PROVE done'[i] + (IF run'.call = i THEN 1 ELSE 0) <= landed'[i]
    BY <2>1, <2>2 DEF Ids
  <2>5. ASSUME NEW i \in Ids, OnceIsOnce, Once(i) PROVE landed'[i] <= 1
    BY <2>1, <2>2, <2>5
  <2> QED BY <2>3, <2>4, <2>5
<1>9. CASE Finish
  <2>1. /\ run.call \in Ids /\ run'.call = 0 /\ done' = [done EXCEPT ![run.call] = @ + 1]
        /\ landed' = landed /\ call' = call
    BY <1>9 DEF Finish, Ids
  <2>2. \A i \in Ids : Once(i)' <=> Once(i)
    BY <2>1 DEF Once
  <2>3. ASSUME NEW i \in Ids
        PROVE done'[i] + (IF run'.call = i THEN 1 ELSE 0) <= landed'[i]
    BY <2>1 DEF Ids
  <2> QED BY <2>1, <2>2, <2>3
<1>10. CASE FinishBadly
  <2>1. run'.call = 0 /\ done' = done /\ landed' = landed /\ call' = call
    BY <1>10 DEF FinishBadly, history
  <2>2. \A i \in Ids : Once(i)' <=> Once(i)
    BY <2>1 DEF Once
  <2>3. ASSUME NEW i \in Ids
        PROVE done'[i] + (IF run'.call = i THEN 1 ELSE 0) <= landed'[i]
    <3>1. i # 0 /\ done[i] \in Nat /\ landed[i] \in Nat
      BY CmdAssumption DEF Ids
    <3>2. done[i] <= landed[i]
      BY <3>1
    <3> QED BY <2>1, <3>1, <3>2
  <2> QED BY <2>1, <2>2, <2>3
<1>11. CASE UNCHANGED <<run, landed, done, call>>
  <2>1. \A i \in Ids : Once(i)' <=> Once(i)
    BY <1>11 DEF Once
  <2> QED BY <1>11, <2>1
<1>12. ASSUME NEW x \in Procs, Input(x) \/ Ack(x) \/ Poll(x) \/ ErrValue(x) \/ RetValue(x) \/ Output(x) \/ Die(x)
       PROVE UNCHANGED <<run, landed, done, call>>
  BY <1>12 DEF Input, Ack, Poll, ErrValue, RetValue, Output, Die, mailbox, history
<1>13. ASSUME UNCHANGED vars PROVE UNCHANGED <<run, landed, done, call>>
  BY <1>13 DEF vars, mailbox, history
<1> QED BY <1>1, <1>3, <1>9, <1>10, <1>11, <1>12, <1>13 DEF Next, Step

(* A process in a call is the only one, if the last call is alone and is its.  *)
LEMMA OnlyOwner ==
  ASSUME OwnInv, alone # 0, NEW x \in Procs, id[x] = alone, NEW z \in Procs, pc[z] # "idle"
  PROVE  z = x
BY DEF OwnInv, Own

(* A step of the owner keeps the frame of OwnInv, and Own is left to show.     *)
LEMMA OwnerStep ==
  ASSUME TypeOK, BusyInv, OwnInv, NEW z \in Procs, pc[z] # "idle",
         UNCHANGED <<id, calls, alone, retval>>, status' = "ERROR" => status = "ERROR", \A y \in Procs : y # z => ret'[y] = ret[y],
         (alone # 0 /\ id[z] = alone) => Own(z)'
  PROVE  OwnInv'
<1>1. alone' \in {0, calls'} /\ (status' = "ERROR" => retval' # 0)
  BY DEF OwnInv
<1>2. \A y \in Procs : id'[y] = 0 => ret'[y] = "none"
  BY DEF OwnInv, BusyInv
<1>3. ASSUME alone' # 0, NEW x \in Procs, id'[x] = alone' PROVE Own(x)'
  <2>1. alone # 0 /\ id[x] = alone
    BY <1>3
  <2>2. z = x
    BY <2>1, OnlyOwner
  <2>3. Own(z)'
    BY <2>1, <2>2
  <2> QED BY <2>2, <2>3
<1> QED BY <1>1, <1>2, <1>3 DEF OwnInv

(* What the last call finds if it is alone stays its own.                      *)
LEMMA NextOwn == TypeOK /\ BusyInv /\ OwnInv /\ [Next]_vars => OwnInv'
<1> SUFFICES ASSUME TypeOK, BusyInv, OwnInv, [Next]_vars PROVE OwnInv'
  OBVIOUS
<1>1. ASSUME NEW z \in Procs, NEW c \in Calls, Begin(z, c)
      PROVE OwnInv'
  <2>1. /\ calls' = calls + 1 /\ id' = [id EXCEPT ![z] = calls'] /\ run' = run /\ landed' = landed
        /\ ret' = [ret EXCEPT ![z] = "none"] /\ pc' = [pc EXCEPT ![z] = "input"]
        /\ k' = [k EXCEPT ![z] = 1] /\ calls < MaxCalls
        /\ alone' = IF run.call = 0 /\ \A y \in Procs : pc[y] = "idle" THEN calls' ELSE 0
    BY <1>1 DEF Begin, Goto, mailbox, history
  <2>2. calls \in Nat /\ calls' \in Ids /\ calls' # 0
    BY <2>1, CmdAssumption DEF TypeOK, Ids
  <2>3. \A y \in Procs : id'[y] = 0 => ret'[y] = "none"
    BY <2>1, <2>2 DEF OwnInv, TypeOK
  <2>4. ASSUME alone' # 0, NEW x \in Procs, id'[x] = alone' PROVE Own(x)'
    <3>1. alone' = calls' /\ run.call = 0 /\ \A y \in Procs : pc[y] = "idle"
      BY <2>1, <2>4
    <3>2. x = z
      <4>1. id[x] <= calls /\ id[x] \in Nat
        BY DEF BusyInv, TypeOK
      <4> QED BY <2>1, <2>2, <2>4, <3>1, <4>1
    <3>3. landed'[id'[x]] = 0 /\ run'.call = 0
      <4>1. landed[calls'] = 0
        BY <2>1, <2>2 DEF BusyInv
      <4> QED BY <2>1, <2>4, <3>1, <4>1
    <3>4. pc'[x] = "input" /\ k'[x] = 1 /\ \A y \in Procs : y # x => pc'[y] = "idle"
      BY <2>1, <3>1, <3>2 DEF TypeOK
    <3>5. id'[x] # 0 /\ \A w \in Words : ~(w < k'[x])
      BY <2>2, <2>4, <3>1, <3>4, CmdAssumption DEF Words
    <3> QED BY <3>3, <3>4, <3>5 DEF Own
  <2>5. status' = "ERROR" => retval' # 0
    BY <1>1 DEF OwnInv, Begin, mailbox
  <2> QED BY <2>1, <2>3, <2>4, <2>5 DEF OwnInv
<1>2. ASSUME NEW z \in Procs, Input(z) PROVE OwnInv'
  <2>1. /\ pc[z] = "input" /\ input' = [input EXCEPT ![k[z]] = id[z]]
        /\ UNCHANGED <<id, resp, ret, status, retval, output, run, call, landed, calls, alone>>
        /\ IF k[z] < NumWords THEN k' = [k EXCEPT ![z] = k[z] + 1] /\ pc' = pc
           ELSE pc' = [pc EXCEPT ![z] = "cmd"] /\ k' = [k EXCEPT ![z] = 1]
    BY <1>2 DEF Input, Goto, history
  <2>2. ASSUME alone # 0, id[z] = alone PROVE Own(z)'
    <3>1. /\ \A y \in Procs : y # z => pc[y] = "idle"
          /\ run.call = 0 /\ landed[id[z]] = 0 /\ \A w \in Words : w < k[z] => input[w] = id[z]
      BY <2>1, <2>2 DEF OwnInv, Own
    <3>2. \A y \in Procs : y # z => pc'[y] = "idle"
      BY <2>1, <3>1 DEF TypeOK
    <3>3. \A w \in Words : w < k[z] + 1 => input'[w] = id[z]
      <4>1. k[z] \in Words /\ \A w \in Words : w < k[z] + 1 => w < k[z] \/ w = k[z]
        BY BeforeNext DEF TypeOK
      <4> QED BY <2>1, <3>1, <4>1 DEF TypeOK
    <3>4. CASE k[z] < NumWords
      <4>1. pc'[z] = "input" /\ k'[z] = k[z] + 1
        BY <2>1, <3>4 DEF TypeOK
      <4> QED BY <2>1, <2>2, <3>1, <3>2, <3>3, <4>1 DEF Own
    <3>5. CASE ~(k[z] < NumWords)
      <4>1. pc'[z] = "cmd" /\ k'[z] = 1
        BY <2>1, <3>5 DEF TypeOK
      <4>2. All(input', id[z])
        <5>1. \A w \in Words : w < k[z] + 1
          BY <3>5, BeforeNext DEF TypeOK
        <5> QED BY <3>3, <5>1 DEF All
      <4> QED BY <2>1, <2>2, <3>1, <3>2, <4>1, <4>2 DEF Own, All
    <3> QED BY <3>4, <3>5
  <2> QED BY <2>1, <2>2, OwnerStep
<1>3. ASSUME NEW z \in Procs, Land(z) PROVE OwnInv'
  <2>1. /\ pc[z] = "cmd" /\ landed' = [landed EXCEPT ![id[z]] = @ + 1]
        /\ UNCHANGED <<pc, id, k, resp, ret, input, retval, output, call, calls, alone>>
        /\ IF run.call # 0 THEN UNCHANGED <<status, run>>
           ELSE status' = "INPROGRESS" /\ run' = [call |-> id[z], in |-> input]
    BY <1>3 DEF Land, local
  <2>2. ASSUME alone # 0, id[z] = alone PROVE Own(z)'
    <3>1. /\ \A y \in Procs : y # z => pc[y] = "idle"
          /\ run.call \in {0, id[z]} /\ All(input, id[z]) /\ k[z] = 1
          /\ run.call = id[z] => All(run.in, id[z]) /\ status = "INPROGRESS"
      BY <2>1, <2>2 DEF OwnInv, Own
    <3>2. run'.call = id[z] /\ All(run'.in, id[z]) /\ status' = "INPROGRESS"
      BY <2>1, <2>2, <3>1
    <3> QED BY <2>1, <2>2, <3>1, <3>2 DEF Own, All
  <2> QED BY <2>1, <2>2, OwnerStep
<1>4. ASSUME NEW z \in Procs, Ack(z) PROVE OwnInv'
  <2>1. /\ pc[z] = "cmd" /\ landed[id[z]] > 0
        /\ UNCHANGED <<id, k, resp, input, status, retval, output, run, call, landed, calls, alone>>
        /\ \/ /\ Kind(z) = "nopoll" \/ call[id[z]].c.cmd = "RESET"
              /\ pc' = [pc EXCEPT ![z] = "idle"] /\ ret' = [ret EXCEPT ![z] = "ok"]
           \/ pc' = [pc EXCEPT ![z] = "poll"] /\ ret' = ret
    BY <1>4 DEF Ack, Return, Goto, mailbox, history
  <2>2. ASSUME alone # 0, id[z] = alone PROVE Own(z)'
    <3>1. Own(z) /\ (\A y \in Procs : y # z => pc'[y] = "idle") /\ (Kind(z)' = Kind(z))
      <4>1. Own(z)
        BY <2>2 DEF OwnInv
      <4>2. \A y \in Procs : y # z => pc'[y] = pc[y]
        BY <2>1 DEF TypeOK
      <4> QED BY <2>1, <4>1, <4>2 DEF Own, Kind
    <3>2. pc'[z] = "poll" \/ (pc'[z] = "idle" /\ (Kind(z) = "nopoll" \/ call[id[z]].c.cmd = "RESET"))
      BY <2>1 DEF TypeOK
    <3> QED BY <2>1, <2>2, <3>1, <3>2 DEF Own, All
  <2>3. \A y \in Procs : y # z => ret'[y] = ret[y]
    BY <2>1 DEF TypeOK
  <2> QED BY <2>1, <2>2, <2>3, OwnerStep
<1>5. ASSUME NEW z \in Procs, Poll(z) PROVE OwnInv'
  <2>1. /\ pc[z] = "poll"
        /\ UNCHANGED <<id, k, resp, input, status, retval, output, run, call, landed, calls, alone>>
    BY <1>5 DEF Poll, mailbox, history
  <2>2. \/ pc' = pc /\ ret' = ret
        \/ status = "DONE" /\ pc' = [pc EXCEPT ![z] = "retval"] /\ ret' = ret
        \/ status = "ERROR" /\ pc' = [pc EXCEPT ![z] = "error"] /\ ret' = ret
        \/ \E r \in {"timeout", "enxio"} :
             pc' = [pc EXCEPT ![z] = "idle"] /\ ret' = [ret EXCEPT ![z] = r]
    <3>1. PICK st \in {status} \cup (Faults \cap {"ones"}) : Judge(z, st)
      BY <1>5 DEF Poll
    <3>2. (st = "DONE" => status = "DONE") /\ (st = "ERROR" => status = "ERROR")
      BY <3>1
    <3> QED BY <3>1, <3>2 DEF Judge, Wait, Return, Goto
  <2>3. ASSUME alone # 0, id[z] = alone PROVE Own(z)'
    <3>1. Own(z) /\ (\A y \in Procs : y # z => pc'[y] = "idle") /\ (Kind(z)' = Kind(z))
      <4>1. Own(z)
        BY <2>3 DEF OwnInv
      <4>2. \A y \in Procs : y # z => pc'[y] = pc[y]
        BY <2>2 DEF TypeOK
      <4> QED BY <2>1, <4>1, <4>2 DEF Own, Kind
    <3>2. \/ pc'[z] = "poll"
          \/ pc'[z] = "retval" /\ status = "DONE"
          \/ pc'[z] = "error" /\ status = "ERROR"
          \/ pc'[z] = "idle" /\ ret'[z] # "ok"
      BY <2>1, <2>2 DEF TypeOK
    <3>3. status \in {"DONE", "ERROR"} => run.call = 0
      BY <3>1 DEF Own
    <3> QED BY <2>1, <2>3, <3>1, <3>2, <3>3 DEF Own, All
  <2>4. \A y \in Procs : y # z => ret'[y] = ret[y]
    BY <2>2 DEF TypeOK
  <2> QED BY <2>1, <2>3, <2>4, OwnerStep
<1>6. ASSUME NEW z \in Procs, RetValue(z) PROVE OwnInv'
  <2>1. /\ pc[z] = "retval" /\ pc' = [pc EXCEPT ![z] = "output"]
        /\ UNCHANGED <<id, k, resp, input, status, retval, output, run, call, landed, calls, alone>>
        /\ \A y \in Procs : y # z => ret'[y] = ret[y]
    BY <1>6 DEF RetValue, Goto, mailbox, history, TypeOK
  <2>2. ASSUME alone # 0, id[z] = alone PROVE Own(z)'
    <3>1. Own(z) /\ (\A y \in Procs : y # z => pc'[y] = "idle") /\ pc'[z] = "output"
      BY <2>1, <2>2 DEF OwnInv, Own, TypeOK
    <3>2. k[z] = 1 /\ \A w \in Words : ~(w < 1)
      BY <2>1, <3>1, CmdAssumption DEF Own, Words
    <3> QED BY <2>1, <2>2, <3>1, <3>2 DEF Own, All
  <2> QED BY <2>1, <2>2, OwnerStep
<1>12. ASSUME NEW z \in Procs, ErrValue(z) PROVE OwnInv'
  <2>1. /\ pc[z] = "error" /\ pc' = [pc EXCEPT ![z] = "idle"]
        /\ ret' = [ret EXCEPT ![z] = IF retval = 0 THEN "ok" ELSE "mrpc"]
        /\ UNCHANGED <<id, k, resp, input, status, retval, output, run, call, landed, calls, alone>>
    BY <1>12 DEF ErrValue, Return, Goto, mailbox, history
  <2>2. ASSUME alone # 0, id[z] = alone PROVE Own(z)'
    <3>1. Own(z) /\ (\A y \in Procs : y # z => pc'[y] = "idle")
      BY <2>1, <2>2 DEF OwnInv, Own
    <3>2. retval # 0
      BY <2>1, <3>1 DEF Own, OwnInv
    <3>3. pc'[z] = "idle" /\ ret'[z] # "ok"
      BY <2>1, <3>2 DEF TypeOK
    <3> QED BY <2>1, <2>2, <3>1, <3>3 DEF Own, All
  <2>3. \A y \in Procs : y # z => ret'[y] = ret[y]
    BY <2>1 DEF TypeOK
  <2> QED BY <2>1, <2>2, <2>3, OwnerStep
<1>7. ASSUME NEW z \in Procs, Output(z) PROVE OwnInv'
  <2>1. /\ pc[z] = "output" /\ resp' = [resp EXCEPT ![z][k[z]] = output[k[z]]]
        /\ UNCHANGED <<id, ret, input, status, retval, output, run, call, landed, calls, alone>>
        /\ IF k[z] < NumWords THEN k' = [k EXCEPT ![z] = k[z] + 1] /\ pc' = pc
           ELSE pc' = [pc EXCEPT ![z] = "idle"] /\ k' = k
    BY <1>7 DEF Output, Goto, mailbox, history
  <2>2. ASSUME alone # 0, id[z] = alone PROVE Own(z)'
    <3>1. /\ Own(z) /\ \A y \in Procs : y # z => pc'[y] = "idle"
          /\ run.call = 0 /\ status = "DONE" /\ landed[id[z]] > 0 /\ All(output, id[z])
          /\ \A w \in Words : w < k[z] => resp[z][w] = id[z]
      <4>1. Own(z)
        BY <2>2 DEF OwnInv
      <4>2. \A y \in Procs : y # z => pc'[y] = pc[y]
        BY <2>1 DEF TypeOK
      <4> QED BY <2>1, <4>1, <4>2 DEF Own
    <3>2. \A w \in Words : w < k[z] + 1 => resp'[z][w] = id[z]
      <4>1. k[z] \in Words /\ \A w \in Words : w < k[z] + 1 => w < k[z] \/ w = k[z]
        BY BeforeNext DEF TypeOK
      <4>2. resp'[z] = [resp[z] EXCEPT ![k[z]] = output[k[z]]] /\ resp[z] \in [Words -> 0..MaxCalls]
        BY <2>1 DEF TypeOK
      <4>3. output[k[z]] = id[z]
        BY <3>1, <4>1 DEF All
      <4> QED BY <3>1, <4>1, <4>2, <4>3
    <3>3. CASE k[z] < NumWords
      <4>1. pc'[z] = "output" /\ k'[z] = k[z] + 1
        BY <2>1, <3>3 DEF TypeOK
      <4> QED BY <2>1, <2>2, <3>1, <3>2, <4>1 DEF Own, All
    <3>4. CASE ~(k[z] < NumWords)
      <4>1. pc'[z] = "idle"
        BY <2>1, <3>4 DEF TypeOK
      <4>2. All(resp'[z], id[z])
        <5>1. \A w \in Words : w < k[z] + 1
          BY <3>4, BeforeNext DEF TypeOK
        <5> QED BY <3>2, <5>1 DEF All
      <4> QED BY <2>1, <2>2, <3>1, <4>1, <4>2 DEF Own, All
    <3> QED BY <3>3, <3>4
  <2> QED BY <2>1, <2>2, OwnerStep
<1>8. ASSUME NEW z \in Procs, Die(z) PROVE OwnInv'
  <2>1. /\ pc[z] # "idle" /\ pc' = [pc EXCEPT ![z] = "idle"] /\ ret' = [ret EXCEPT ![z] = "killed"]
        /\ UNCHANGED <<id, k, resp, input, status, retval, output, run, call, landed, calls, alone>>
    BY <1>8 DEF Die, Return, Goto, mailbox, history
  <2>2. ASSUME alone # 0, id[z] = alone PROVE Own(z)'
    <3>1. Own(z) /\ (\A y \in Procs : y # z => pc'[y] = "idle")
      BY <2>1, <2>2 DEF OwnInv, Own
    <3>2. pc'[z] = "idle" /\ ret'[z] = "killed"
      BY <2>1 DEF TypeOK
    <3> QED BY <2>1, <2>2, <3>1, <3>2 DEF Own, All
  <2>3. \A y \in Procs : y # z => ret'[y] = ret[y]
    BY <2>1 DEF TypeOK
  <2> QED BY <2>1, <2>2, <2>3, OwnerStep
<1>9. CASE Finish
  <2>1. /\ run.call # 0 /\ run' = [run EXCEPT !.call = 0]
        /\ UNCHANGED <<pc, id, k, resp, ret, input, call, landed, calls, alone>>
        /\ status' = "none" \/ output' = run.in
        /\ status' # "ERROR"
    BY <1>9 DEF Finish, local
  <2>2. run'.call = 0 /\ (status' = "DONE" => output' = run.in)
    <3>1. status' = "none" \/ (status' = "DONE" /\ output' = run.in)
      BY <1>9 DEF Finish
    <3> QED BY <2>1, <3>1 DEF TypeOK
  <2>3. ASSUME alone # 0, NEW x \in Procs, id[x] = alone PROVE Own(x)'
    <3>1. Own(x) /\ id[x] # 0
      BY <2>3 DEF OwnInv
    <3>2. run.call = id[x] /\ All(run.in, id[x])
      BY <2>1, <3>1 DEF Own
    <3>3. pc[x] \notin {"input", "error", "retval", "output"}
      BY <2>1, <3>1 DEF Own
    <3> QED BY <2>1, <2>2, <3>1, <3>2, <3>3 DEF Own, All, Kind
  <2> QED BY <2>1, <2>3 DEF OwnInv
<1>10. CASE FinishBadly
  <2>1. /\ run.call # 0 /\ run' = [run EXCEPT !.call = 0] /\ status' \in {"ERROR", "INTERRUPTED"}
        /\ retval' = 1
        /\ UNCHANGED <<pc, id, k, resp, ret, input, output, call, landed, calls, alone>>
    BY <1>10 DEF FinishBadly, local, history
  <2>2. run'.call = 0 /\ status' # "DONE"
    BY <2>1 DEF TypeOK
  <2>3. ASSUME alone # 0, NEW x \in Procs, id[x] = alone PROVE Own(x)'
    <3>1. Own(x) /\ id[x] # 0
      BY <2>3 DEF OwnInv
    <3>2. pc[x] \notin {"input", "error", "retval", "output"}
      BY <2>1, <3>1 DEF Own
    <3> QED BY <2>1, <2>2, <3>1, <3>2 DEF Own, All, Kind
  <2> QED BY <2>1, <2>3 DEF OwnInv
<1>11. CASE UNCHANGED vars
  <2>1. UNCHANGED <<pc, id, k, resp, ret, input, status, retval, output, run, call, landed, calls, alone>>
    BY <1>11 DEF vars, local, mailbox, history
  <2> QED BY <2>1 DEF OwnInv, Own, All, Kind
<1> QED BY <1>1, <1>2, <1>3, <1>4, <1>5, <1>6, <1>7, <1>8, <1>9, <1>10, <1>11, <1>12 DEF Next, Step

(* The inductive invariant holds in every reachable state.                     *)
THEOREM InvHolds == Spec => []Inv
<1>1. Init => Inv
  <2> SUFFICES ASSUME Init PROVE BusyInv /\ LandedInv /\ OwnInv
    BY InitType DEF Inv
  <2>1. BusyInv /\ LandedInv
    BY CmdAssumption DEF Init, BusyInv, LandedInv, Ids
  <2>2. OwnInv
    BY DEF Init, OwnInv
  <2> QED BY <2>1, <2>2
<1>2. Inv /\ [Next]_vars => Inv'
  BY NextType, NextBusy, NextLanded, NextOwn DEF Inv
<1> QED BY <1>1, <1>2, PTL DEF Spec

(* Type correctness, for every value of the constants.                         *)
THEOREM TypeHolds == Spec => []TypeOK
<1>1. Inv => TypeOK
  BY DEF Inv
<1> QED BY <1>1, InvHolds, PTL

(* gasops.c:132-139: where gas_write32_no_retry lands at most once, a critical *)
(* command is carried out at most once, for any number of processes that share *)
(* the mailbox, retry, give up or die, unless it is one of the four the table  *)
(* lacks.                                                                      *)
THEOREM CriticalOnceHolds ==
  ASSUME OnceIsOnce
  PROVE  Spec => []CriticalOnce
<1>1. Inv => CriticalOnce
  <2> SUFFICES ASSUME Inv, NEW i \in Ids, Critical(call[i].c), ~Unlisted(call[i].c)
               PROVE done[i] <= 1
    BY DEF CriticalOnce
  <2>1. Once(i)
    <3>1. call[i] \in CallType
      BY DEF Inv, TypeOK
    <3>2. call[i].kind \in {"gasop", "nopoll"} /\ call[i].c \in [cmd : Cmds, sub : Subs]
      BY <3>1 DEF CallType
    <3>3. NoRetryCmd(call[i].c)
      BY <3>2, TableLists
    <3> QED BY <3>2, <3>3 DEF Once
  <2>2. landed[i] <= 1 /\ done[i] <= landed[i] /\ done[i] \in Nat /\ landed[i] \in Nat
    BY <2>1, OnceIsOnce DEF Inv, TypeOK, LandedInv
  <2> QED BY <2>2
<1> QED BY <1>1, InvHolds, PTL

(* platform.c:174-176, "resp: Output data", "0 on success": a call that began  *)
(* with no command running and that no other overlaps returns 0 only with the  *)
(* whole answer to its own command, whatever the calls before it left behind.  *)
THEOREM OwnResponseHolds == Spec => []OwnResponse
<1>1. Inv => OwnResponse
  <2> SUFFICES ASSUME Inv, NEW x \in Procs, id[x] = alone, pc[x] = "idle", ret[x] = "ok",
                      Kind(x) # "nopoll", call[id[x]].c.cmd # "RESET"
               PROVE resp[x] = [w \in Words |-> id[x]]
    BY DEF OwnResponse
  <2>1. id[x] # 0
    BY DEF Inv, OwnInv
  <2>2. All(resp[x], id[x])
    BY <2>1 DEF Inv, OwnInv, Own
  <2>3. resp[x] \in [Words -> 0..MaxCalls]
    BY DEF Inv, TypeOK
  <2> QED BY <2>2, <2>3 DEF All
<1> QED BY <1>1, InvHolds, PTL

-----------------------------------------------------------------------------
(* How long a call takes.                                                      *)

\* The steps of a call that are left, if its command lands as often as it can
\* and the switch never finishes it.
StepsLeft(x) ==
  CASE pc[x] = "input"  -> 2 * NumWords + MaxPolls + MaxLand + 3 - k[x]
    [] pc[x] = "cmd"    -> NumWords + MaxPolls + MaxLand + 2 - landed[id[x]]
    [] pc[x] = "poll"   -> NumWords + MaxPolls + 1 - polls[x]
    [] pc[x] = "error"  -> 1
    [] pc[x] = "retval" -> NumWords + 1
    [] pc[x] = "output" -> NumWords + 1 - k[x]
    [] OTHER -> 0
MaxSteps == 2 * NumWords + MaxPolls + MaxLand + 2
Bounded == \A x \in Procs : StepsLeft(x) \in 0..MaxSteps /\ (pc[x] # "idle" => StepsLeft(x) > 0)

\* A write lands as often as the transport may repeat it.
LandsBounded == \A i \in Ids : landed[i] <= MaxLand

LEMMA LandsInit == Init => LandsBounded
BY CmdAssumption DEF Init, LandsBounded

LEMMA LandsNext == Inv /\ LandsBounded /\ [Next]_vars => LandsBounded'
<1> SUFFICES ASSUME Inv, LandsBounded, [Next]_vars PROVE LandsBounded'
  OBVIOUS
<1>1. ASSUME NEW x \in Procs, Land(x) PROVE LandsBounded'
  <2>1. landed[id[x]] < (IF OnceIsOnce /\ Once(id[x]) THEN 1 ELSE MaxLand)  BY <1>1 DEF Land
  <2>2. id[x] \in Ids  BY <1>1, BusyId DEF Land, Inv
  <2>3. landed' = [landed EXCEPT ![id[x]] = @ + 1] /\ landed \in [Ids -> Nat]
    BY <1>1 DEF Land, Inv, TypeOK
  <2>4. \A i \in Ids : landed'[i] = IF i = id[x] THEN landed[i] + 1 ELSE landed[i]
    BY <2>2, <2>3
  <2>5. landed[id[x]] \in Nat /\ MaxLand \in Nat /\ MaxLand > 0  BY <2>2, <2>3, CmdAssumption
  <2>6. landed[id[x]] + 1 <= MaxLand
    <3>1. CASE OnceIsOnce /\ Once(id[x])  BY <2>1, <2>5, <3>1
    <3>2. CASE ~(OnceIsOnce /\ Once(id[x]))  BY <2>1, <2>5, <3>2
    <3> QED  BY <3>1, <3>2
  <2> QED  BY <2>2, <2>4, <2>6 DEF LandsBounded
<1>2. CASE ~\E x \in Procs : Land(x)
  <2>1. landed' = landed
    BY <1>2 DEF Next, Step, Begin, Input, Ack, Poll, ErrValue, RetValue, Output, Die, Finish, FinishBadly,
                vars, history, mailbox, local
  <2> QED  BY <2>1 DEF LandsBounded
<1> QED  BY <1>1, <1>2

LEMMA CountsBound == Inv /\ LandsBounded => Bounded
<1> SUFFICES ASSUME Inv, LandsBounded, NEW x \in Procs
             PROVE  StepsLeft(x) \in 0..MaxSteps /\ (pc[x] # "idle" => StepsLeft(x) > 0)
  BY DEF Bounded
<1>1. NumWords \in Nat /\ MaxPolls \in Nat /\ MaxLand \in Nat /\ NumWords > 0
  BY CmdAssumption
<1>2. k[x] \in 1..NumWords /\ polls[x] \in 0..MaxPolls
      /\ pc[x] \in {"idle", "input", "cmd", "poll", "error", "retval", "output"}
  BY DEF Inv, TypeOK, Words
<1>3. pc[x] = "poll" => polls[x] < MaxPolls  BY DEF Inv, BusyInv
<1>4. pc[x] = "cmd" => landed[id[x]] \in 0..MaxLand
  <2>1. pc[x] = "cmd" => id[x] \in Ids  BY BusyId DEF Inv
  <2> QED  BY <1>1, <2>1 DEF Inv, TypeOK, LandsBounded
<1> QED  BY <1>1, <1>2, <1>3, <1>4 DEF StepsLeft, MaxSteps

\* A step of x takes x nearer to its end.
LEMMA OwnStepNears ==
  ASSUME Inv, LandsBounded, Inv', LandsBounded', "slow" \in Faults, NEW x \in Procs, Step(x)
  PROVE  StepsLeft(x)' < StepsLeft(x)
<1>1. NumWords \in Nat /\ MaxPolls \in Nat /\ MaxLand \in Nat /\ NumWords > 0
  BY CmdAssumption
<1>2. k[x] \in 1..NumWords /\ polls[x] \in 0..MaxPolls /\ k'[x] \in 1..NumWords
  BY DEF Inv, TypeOK, Words
<1>3. DOMAIN pc = Procs /\ DOMAIN k = Procs /\ DOMAIN polls = Procs /\ landed \in [Ids -> Nat]
  BY DEF Inv, TypeOK
<1>4. pc[x] # "idle" => id[x] \in Ids  BY BusyId DEF Inv
<1>5. StepsLeft(x) > 0 /\ StepsLeft(x) \in Nat
  <2>1. pc[x] # "idle"  BY DEF Step, Input, Land, Ack, Poll, ErrValue, RetValue, Output
  <2> QED  BY <1>1, <2>1, CountsBound DEF Bounded, MaxSteps
<1>6. pc'[x] = "idle" => StepsLeft(x)' < StepsLeft(x)
  BY <1>5 DEF StepsLeft
<1>7. CASE Input(x)
  <2>1. pc[x] = "input" /\ landed' = landed /\ id' = id  BY <1>7 DEF Input, history
  <2>2. CASE k[x] < NumWords
    <3>1. pc'[x] = "input" /\ k'[x] = k[x] + 1  BY <1>3, <1>7, <2>1, <2>2 DEF Input
    <3> QED  BY <1>1, <1>2, <2>1, <3>1 DEF StepsLeft
  <2>3. CASE ~(k[x] < NumWords)
    <3>1. pc'[x] = "cmd"  BY <1>3, <1>7, <2>3 DEF Input, Goto
    <3>2. landed'[id'[x]] \in Nat  BY <1>3, <1>4, <2>1
    <3> QED  BY <1>1, <1>2, <2>1, <2>3, <3>1, <3>2 DEF StepsLeft
  <2> QED  BY <2>2, <2>3
<1>8. CASE Land(x)
  <2>1. pc[x] = "cmd" /\ pc' = pc /\ id' = id /\ landed' = [landed EXCEPT ![id[x]] = @ + 1]
    BY <1>8 DEF Land, local
  <2>2. landed'[id'[x]] = landed[id[x]] + 1 /\ landed[id[x]] \in Nat  BY <1>3, <1>4, <2>1
  <2> QED  BY <1>1, <2>1, <2>2 DEF StepsLeft
<1>9. CASE Ack(x)
  <2>1. pc[x] = "cmd" /\ pc'[x] \in {"idle", "poll"} /\ polls' = polls
    BY <1>3, <1>9 DEF Ack, Return, Goto
  <2>2. landed[id[x]] \in 0..MaxLand  BY <1>1, <1>3, <1>4, <2>1 DEF LandsBounded
  <2> QED  BY <1>1, <1>2, <1>6, <2>1, <2>2 DEF StepsLeft
<1>10. CASE Poll(x)
  <2>1. pc[x] = "poll" /\ polls[x] < MaxPolls  BY <1>10 DEF Poll, Inv, BusyInv
  <2>2. PICK st \in {status} \cup (Faults \cap {"ones"}) : Judge(x, st)  BY <1>10 DEF Poll
  <2>3. CASE Wait(x)
    <3>1. polls'[x] = polls[x] + 1 /\ (pc'[x] = "idle" \/ pc' = pc)
      BY <1>3, <2>3 DEF Wait, Return, Goto
    <3> QED  BY <1>1, <1>2, <1>6, <2>1, <3>1 DEF StepsLeft
  <2>4. CASE ~Wait(x)
    <3>1. pc'[x] \in {"idle", "error", "retval"}  BY <1>3, <2>2, <2>4 DEF Judge, Return, Goto
    <3> QED  BY <1>1, <1>2, <1>6, <2>1, <3>1 DEF StepsLeft
  <2> QED  BY <2>3, <2>4
<1>13. CASE ErrValue(x)
  <2>1. pc'[x] = "idle"  BY <1>3, <1>13 DEF ErrValue, Return, Goto
  <2> QED  BY <1>6, <2>1
<1>11. CASE RetValue(x)
  <2>1. pc[x] = "retval" /\ pc'[x] = "output"  BY <1>3, <1>11 DEF RetValue, Goto
  <2> QED  BY <1>1, <1>2, <2>1 DEF StepsLeft
<1>12. CASE Output(x)
  <2>1. CASE k[x] < NumWords
    <3>1. pc[x] = "output" /\ pc'[x] = "output" /\ k'[x] = k[x] + 1
      BY <1>3, <1>12, <2>1 DEF Output
    <3> QED  BY <1>1, <1>2, <3>1 DEF StepsLeft
  <2>2. CASE ~(k[x] < NumWords)
    <3>1. pc'[x] = "idle"  BY <1>3, <1>12, <2>2 DEF Output, Goto
    <3> QED  BY <1>6, <3>1
  <2> QED  BY <2>1, <2>2
<1> QED  BY <1>7, <1>8, <1>9, <1>10, <1>11, <1>12, <1>13 DEF Step

\* No step of another process, or of the switch, sets x back.
LEMMA OthersLeave ==
  ASSUME Inv, LandsBounded, Inv', LandsBounded', [Next]_vars, NEW x \in Procs, pc[x] # "idle", ~Step(x)
  PROVE  StepsLeft(x)' <= StepsLeft(x)
<1>1. NumWords \in Nat /\ MaxPolls \in Nat /\ MaxLand \in Nat
  BY CmdAssumption
<1>2. DOMAIN pc = Procs /\ DOMAIN k = Procs /\ DOMAIN polls = Procs /\ DOMAIN id = Procs
      /\ landed \in [Ids -> Nat] /\ id[x] \in Ids
  BY BusyId DEF Inv, TypeOK
<1>3. StepsLeft(x) \in Nat /\ landed[id[x]] \in Nat
      /\ k[x] \in Nat /\ polls[x] \in Nat
  <2>1. StepsLeft(x) \in 0..MaxSteps /\ MaxSteps \in Nat
    BY <1>1, CountsBound DEF Bounded, MaxSteps
  <2>2. k \in [Procs -> Words] /\ polls \in [Procs -> 0..MaxPolls]
    BY DEF Inv, TypeOK
  <2>3. k[x] \in Nat /\ polls[x] \in Nat
    BY <1>1, <2>2 DEF Words
  <2> QED  BY <1>2, <2>1, <2>3
<1>4. CASE pc'[x] = "idle"
  BY <1>3, <1>4 DEF StepsLeft
<1>5. CASE /\ pc'[x] = pc[x] /\ k'[x] = k[x] /\ polls'[x] = polls[x] /\ id'[x] = id[x]
           /\ landed'[id[x]] \in Nat /\ landed'[id[x]] >= landed[id[x]]
  <2>1. landed'[id'[x]] >= landed[id[x]] /\ landed'[id'[x]] \in Nat  BY <1>5
  <2> QED  BY <1>1, <1>3, <1>5, <2>1 DEF StepsLeft
<1>6. CASE Finish \/ FinishBadly \/ UNCHANGED vars
  BY <1>2, <1>3, <1>5, <1>6 DEF Finish, FinishBadly, vars, local, history
<1>7. ASSUME NEW y \in Procs, Die(y) PROVE pc'[x] = "idle" \/ <1>5!1
  <2>1. \A z \in Procs : pc'[z] = IF z = y THEN "idle" ELSE pc[z]
    BY <1>2, <1>7 DEF Die, Return, Goto
  <2> QED  BY <1>2, <1>3, <1>7, <2>1 DEF Die, history
<1>8. ASSUME NEW y \in Procs, y # x, Step(y) PROVE <1>5!1
  <2>1. pc'[x] = pc[x] /\ k'[x] = k[x] /\ polls'[x] = polls[x] /\ id' = id
    BY <1>2, <1>8 DEF Step, Input, Land, Ack, Poll, Judge, Wait, ErrValue, RetValue, Output, Return, Goto, local
  <2>2. CASE Land(y)
    <3>1. landed' = [landed EXCEPT ![id[y]] = @ + 1]  BY <2>2 DEF Land
    <3> QED  BY <1>2, <1>3, <2>1, <3>1
  <2>3. CASE ~Land(y)
    <3>1. landed' = landed
      BY <1>8, <2>3 DEF Step, Input, Ack, Poll, ErrValue, RetValue, Output, history
    <3> QED  BY <1>3, <2>1, <3>1
  <2> QED  BY <2>2, <2>3
<1>9. ASSUME NEW y \in Procs, NEW c \in Calls, Begin(y, c) PROVE <1>5!1
  <2>1. y # x  BY <1>9 DEF Begin
  <2> QED  BY <1>2, <1>3, <1>9, <2>1 DEF Begin, Goto
<1> QED  BY <1>4, <1>5, <1>6, <1>7, <1>8, <1>9 DEF Next

(* The loops of gasop_cmd, fw_gasop_cmd and switchtec_cmd_nopoll end, whatever *)
(* the switch and the other processes do: a call takes MaxSteps steps at most, *)
(* where each poll counts against the timeout ("slow").                        *)
THEOREM CallIsBounded ==
  "slow" \in Faults =>
    (Spec => /\ []Bounded
             /\ [][\A x \in Procs : pc[x] # "idle" =>
                     IF Step(x) THEN StepsLeft(x)' < StepsLeft(x)
                                ELSE StepsLeft(x)' <= StepsLeft(x)]_vars)
<1> SUFFICES ASSUME "slow" \in Faults
             PROVE  Spec => /\ []Bounded
                            /\ [][\A x \in Procs : pc[x] # "idle" =>
                                    IF Step(x) THEN StepsLeft(x)' < StepsLeft(x)
                                               ELSE StepsLeft(x)' <= StepsLeft(x)]_vars
  OBVIOUS
<1>1. Spec => []LandsBounded
  BY LandsInit, LandsNext, InvHolds, PTL DEF Spec
<1>2. Inv /\ LandsBounded /\ Inv' /\ LandsBounded' /\ [Next]_vars =>
        [\A x \in Procs : pc[x] # "idle" =>
            IF Step(x) THEN StepsLeft(x)' < StepsLeft(x) ELSE StepsLeft(x)' <= StepsLeft(x)]_vars
  BY OwnStepNears, OthersLeave
<1> QED  BY <1>1, <1>2, CountsBound, InvHolds, PTL DEF Spec
=============================================================================
