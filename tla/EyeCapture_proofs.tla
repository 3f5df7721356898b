-------------------------- MODULE EyeCapture_proofs --------------------------
(* Proofs about LinuxCmd and EyeCapture, for any number of processes, any       *)
(* commands, faults, time-outs and bins: an answer of the handle belongs to the *)
(* call that returns it, a call runs its command once unless errno was EBADE    *)
(* before it, the captures use the handle so, and a capture returns its own data.*)
EXTENDS EyeCapture, TLAPS

-----------------------------------------------------------------------------
(* The handle (LinuxCmd).                                                      *)

(* The invariant holds in the initial states.                                  *)
LEMMA InitInv == Init => Inv
<1> SUFFICES ASSUME Init PROVE Inv
  OBVIOUS
<1>1. TypeOK
  BY DEF Init, TypeOK, FdStates, Answers
<1> QED BY <1>1 DEF Init, Inv, Answers

(* Where a call goes after its write.                                          *)
LEMMA SubmitPc ==
  ASSUME TypeOK, NEW c \in Procs, Submit(c)
  PROVE  pc' \in [Procs -> {"idle", "submit", "drain", "read"}]
<1> DEFINE to == IF errno'[c] = "EBADE" THEN "drain" ELSE "read"
<1>1. pc' = [pc EXCEPT ![c] = to]
  BY DEF Submit
<1>2. to \in {"drain", "read"}
  OBVIOUS
<1> HIDE DEF to
<1> QED BY <1>1, <1>2 DEF TypeOK

(* The steps of a call keep the types.                                         *)
LEMMA NextType == TypeOK /\ [Next]_vars => TypeOK'
<1> SUFFICES ASSUME TypeOK, [Next]_vars PROVE TypeOK'
  OBVIOUS
<1> USE DEF TypeOK, FdStates, Answers
<1>1. ASSUME NEW c \in Procs, NEW k \in Cmds, Call(c, k) PROVE TypeOK'
  BY <1>1 DEF Call
<1>2. ASSUME NEW c \in Procs, Submit(c) PROVE TypeOK'
  <2>1. req[c] \in Cmds \cup {NoCmd} /\ errno \in [Procs -> {"EBADE", "other"}]
    OBVIOUS
  <2>2. CASE fd[c] = "idle"
    <3>1. /\ fd' = [fd EXCEPT ![c] = "queued"] /\ what' = [what EXCEPT ![c] = req[c]]
          /\ own' = [own EXCEPT ![c] = TRUE] /\ errno' = errno
      BY <1>2, <2>2 DEF Submit
    <3>2. fd' \in [Procs -> FdStates]
      BY <3>1
    <3>3. what' \in [Procs -> Cmds \cup {NoCmd}]
      BY <2>1, <3>1
    <3>4. own' \in [Procs -> BOOLEAN]
      BY <3>1
    <3> QED BY <1>2, <2>1, <3>1, <3>2, <3>3, <3>4, SubmitPc DEF Submit
  <2>3. CASE fd[c] # "idle"
    <3>1. /\ errno' = [errno EXCEPT ![c] = "EBADE"] /\ fd' = fd /\ what' = what /\ own' = own
      BY <1>2, <2>3 DEF Submit
    <3>2. errno' \in [Procs -> {"EBADE", "other"}]
      BY <2>1, <3>1
    <3> QED BY <1>2, <3>1, <3>2, SubmitPc DEF Submit
  <2> QED BY <2>2, <2>3
<1>3. ASSUME NEW c \in Procs, Drain(c) PROVE TypeOK'
  BY <1>3 DEF Drain, ReadFd, Empty
<1>4. ASSUME NEW c \in Procs, Read(c) PROVE TypeOK'
  <2>1. Result(c) \in {"none", "ok", "refused", "EINTR", "EIO", "failed"}
    BY DEF Result
  <2> QED BY <1>4, <2>1 DEF Read, ReadFd, Empty
<1>5. ASSUME NEW c \in Procs, NEW s \in FdStates, Finish(c, s) PROVE TypeOK'
  <2>1. runs' \in [Procs -> 0..2]
    BY <1>5 DEF Finish, Ran
  <2> QED BY <1>5, <2>1 DEF Finish
<1>6. CASE UNCHANGED vars
  BY <1>6 DEF vars
<1>7. ASSUME NEW c \in Procs, SubmitFails(c) PROVE TypeOK'
  BY <1>7 DEF SubmitFails
<1> QED BY <1>1, <1>2, <1>3, <1>4, <1>5, <1>6, <1>7 DEF Next, HandleStep

(* The invariant of one process.                                               *)
Here(c) ==
  /\ pc[c] # "idle" => ret[c] = "none"
  /\ pc[c] = "read" => own[c]
  /\ ret[c] \in {"ok", "refused"} => own[c]
  /\ "errno" \notin faults[c] =>
       /\ errno[c] = "EBADE" => pc[c] = "drain"
       /\ pc[c] \in {"submit", "drain"} => ~own[c]
       /\ (own[c] /\ fd[c] \in Answers) \/ ret[c] \in {"ok", "refused"} => runs[c] = 1
       /\ ~own[c] \/ fd[c] = "queued" => runs[c] = 0
       /\ runs[c] < 2

(* The invariant is the types and the invariant of every process.              *)
LEMMA InvHere == Inv <=> TypeOK /\ \A c \in Procs : Here(c)
BY DEF Inv, Here

(* A step of another process leaves it alone.                                  *)
LEMMA Elsewhere ==
  ASSUME TypeOK, NEW c \in Procs, NEW d \in Procs, d # c, Here(d),
         \/ \E k \in Cmds : Call(c, k)
         \/ HandleStep(c)
         \/ \E s \in FdStates : Finish(c, s)
  PROVE  Here(d)'
<1>1. /\ pc'[d] = pc[d] /\ ret'[d] = ret[d] /\ own'[d] = own[d] /\ errno'[d] = errno[d]
      /\ fd'[d] = fd[d] /\ runs'[d] = runs[d] /\ faults' = faults
  <2>1. CASE \E k \in Cmds : Call(c, k)
    BY <2>1 DEF Call, TypeOK
  <2>2. CASE Submit(c)
    BY <2>2 DEF Submit, TypeOK
  <2>3. CASE Drain(c)
    BY <2>3 DEF Drain, ReadFd, Empty, TypeOK
  <2>4. CASE Read(c)
    BY <2>4 DEF Read, ReadFd, Empty, TypeOK
  <2>5. CASE \E s \in FdStates : Finish(c, s)
    BY <2>5 DEF Finish, Ran, TypeOK
  <2>6. CASE SubmitFails(c)
    BY <2>6 DEF SubmitFails, TypeOK
  <2> QED BY <2>1, <2>2, <2>3, <2>4, <2>5, <2>6 DEF HandleStep
<1> QED BY <1>1 DEF Here, Answers

(* The steps of the process keep it.                                           *)
LEMMA CallHere ==
  ASSUME TypeOK, NEW c \in Procs, Here(c), NEW k \in Cmds, Call(c, k)
  PROVE  Here(c)'
<1>1. /\ pc'[c] = "submit" /\ ret'[c] = "none" /\ own'[c] = FALSE /\ runs'[c] = 0
      /\ fd' = fd /\ faults' = faults
  BY DEF Call, TypeOK
<1>2. "errno" \notin faults[c] => errno'[c] # "EBADE"
  BY DEF Call, TypeOK, Here
<1> QED BY <1>1, <1>2 DEF Here

LEMMA SubmitHere ==
  ASSUME TypeOK, NEW c \in Procs, Here(c), Submit(c)
  PROVE  Here(c)'
<1>1. pc[c] = "submit" /\ ret'[c] = "none" /\ runs' = runs /\ faults' = faults
  BY DEF Submit, Here
<1>2. CASE fd[c] = "idle"
  <2>1. /\ fd'[c] = "queued" /\ own'[c] = TRUE /\ errno' = errno
        /\ pc'[c] = IF errno[c] = "EBADE" THEN "drain" ELSE "read"
    BY <1>2 DEF Submit, TypeOK
  <2> QED BY <1>1, <2>1 DEF Here, Answers
<1>3. CASE fd[c] # "idle"
  <2>1. fd' = fd /\ own' = own /\ errno'[c] = "EBADE" /\ pc'[c] = "drain"
    BY <1>3 DEF Submit, TypeOK
  <2> QED BY <1>1, <2>1 DEF Here
<1> QED BY <1>2, <1>3

LEMMA SubmitFailsHere ==
  ASSUME TypeOK, NEW c \in Procs, Here(c), SubmitFails(c)
  PROVE  Here(c)'
<1>1. /\ pc[c] = "submit" /\ pc'[c] = "idle" /\ ret'[c] \in {"failed", "EIO"}
      /\ errno'[c] = "other" /\ UNCHANGED <<faults, fd, own, runs>>
  BY DEF SubmitFails, TypeOK
<1> QED BY <1>1 DEF Here, Answers

LEMMA DrainHere ==
  ASSUME TypeOK, NEW c \in Procs, Here(c), Drain(c)
  PROVE  Here(c)'
<1>1. /\ pc[c] = "drain" /\ pc'[c] = "submit" /\ errno'[c] = "other"
      /\ ret' = ret /\ own' = own /\ runs' = runs /\ faults' = faults
  BY DEF Drain, TypeOK
<1>2. fd'[c] = fd[c] \/ fd'[c] = "idle"
  BY DEF Drain, ReadFd, Empty, TypeOK
<1> QED BY <1>1, <1>2 DEF Here, Answers

LEMMA ReadHere ==
  ASSUME TypeOK, NEW c \in Procs, Here(c), Read(c)
  PROVE  Here(c)'
<1>1. /\ pc[c] = "read" /\ pc'[c] = "idle"
      /\ errno' = errno /\ own' = own /\ runs' = runs /\ faults' = faults
  BY DEF Read, TypeOK
<1>2. fd'[c] = fd[c] \/ fd'[c] = "idle"
  BY DEF Read, ReadFd, Empty, TypeOK
<1>3. ret'[c] \in {"ok", "refused"} => fd[c] \in Answers
  BY DEF Read, Result, Answers, TypeOK
<1> QED BY <1>1, <1>2, <1>3 DEF Here, Answers

LEMMA FinishHere ==
  ASSUME TypeOK, NEW c \in Procs, Here(c), NEW s \in FdStates, Finish(c, s)
  PROVE  Here(c)'
<1>1. /\ fd[c] = "queued" /\ fd'[c] = s /\ s \in Answers \cup {"aborted", "ioerr"}
      /\ pc' = pc /\ ret' = ret /\ errno' = errno /\ own' = own /\ faults' = faults
  BY DEF Finish, TypeOK
<1>2. runs[c] \in 0..2 /\ own[c] \in BOOLEAN
  BY DEF TypeOK
<1>3. \/ s \in Answers /\ Ran(c)
      \/ s \notin Answers /\ (Ran(c) \/ runs' = runs)
  BY DEF Finish, Answers
<1>4. Ran(c) => runs'[c] = IF own[c] /\ runs[c] < 2 THEN runs[c] + 1 ELSE runs[c]
  BY DEF Ran, TypeOK
<1> QED BY <1>1, <1>2, <1>3, <1>4 DEF Here, Answers

(* Every step keeps the invariant.                                             *)
LEMMA NextInv == Inv /\ [Next]_vars => Inv'
<1> SUFFICES ASSUME Inv, [Next]_vars PROVE Inv'
  OBVIOUS
<1>1. TypeOK /\ \A c \in Procs : Here(c)
  BY InvHere
<1>2. TypeOK'
  BY <1>1, NextType
<1>3. (\A c \in Procs : Here(c))'
  <2>1. CASE UNCHANGED vars
    BY <1>1, <2>1 DEF vars, Here
  <2>2. CASE Next
    <3>1. PICK c \in Procs : \/ \E k \in Cmds : Call(c, k)
                             \/ HandleStep(c)
                             \/ \E s \in FdStates : Finish(c, s)
      BY <2>2 DEF Next
    <3>2. Here(c)'
      BY <1>1, <3>1, CallHere, SubmitHere, SubmitFailsHere, DrainHere, ReadHere, FinishHere
         DEF HandleStep
    <3>3. ASSUME NEW d \in Procs, d # c PROVE Here(d)'
      BY <1>1, <3>1, <3>3, Elsewhere
    <3> QED BY <3>2, <3>3
  <2> QED BY <2>1, <2>2
<1>4. Inv' <=> TypeOK' /\ (\A c \in Procs : Here(c))'
  BY DEF Inv, Here
<1> QED BY <1>2, <1>3, <1>4

(* The inductive invariant holds.                                              *)
THEOREM InvHolds == Spec => []Inv
<1>1. Init => Inv
  BY InitInv
<1>2. Inv /\ [Next]_vars => Inv'
  BY NextInv
<1> QED BY <1>1, <1>2, PTL DEF Spec

(* What linux_cmd returns as an answer is the answer to the command of the     *)
(* call, whatever earlier calls left in the descriptor.                        *)
THEOREM OwnAnswerHolds == Spec => []OwnAnswer
<1>1. Inv => OwnAnswer
  BY DEF Inv, OwnAnswer
<1> QED BY <1>1, InvHolds, PTL

(* The retry of linux_cmd runs no command twice, unless errno was EBADE.       *)
THEOREM RunsOnceHolds == Spec => []RunsOnce
<1>1. Inv => RunsOnce
  BY DEF Inv, RunsOnce
<1> QED BY <1>1, InvHolds, PTL

-----------------------------------------------------------------------------
(* How long a call of a handle takes, in writes and reads of its descriptor.   *)

\* No signal interrupts c, and a descriptor that was cut off is opened again by
\* the call that meets it.
Spared(c) ==
  /\ "signal" \notin faults[c]
  /\ "io" \in faults[c] => faults[c] \cap {"nofd", "errno"} = {}

\* The longest way is to be refused, to drain, to submit again and to read.
HandleLeft(c) ==
  CASE pc[c] = "submit" -> IF fd[c] = "idle" /\ errno[c] # "EBADE" THEN 2 ELSE 4
    [] pc[c] = "drain"  -> 3
    [] pc[c] = "read"   -> 1
    [] OTHER -> 0

\* A read waits for a command that is there; what is known of a spared handle.
Awaited(c) == pc[c] \in {"drain", "read"} => fd[c] # "idle"
SparedHere(c) ==
  Spared(c) =>
    /\ "io" \notin faults[c] => fd[c] \notin {"aborted", "ioerr"}
    /\ "io" \in faults[c] => /\ errno[c] # "EBADE" /\ pc[c] # "drain"
                             /\ pc[c] \in {"idle", "submit"} => fd[c] = "idle"
Handled(c) == Awaited(c) /\ SparedHere(c)

LEMMA HandledInit == Init => \A c \in Procs : Handled(c)
BY DEF Init, Handled, Awaited, SparedHere

(* The steps of the others do not touch the handle of c.                       *)
LEMMA OthersHandle ==
  ASSUME TypeOK, NEW c \in Procs, NEW d \in Procs, d # c,
         \/ \E k \in Cmds : Call(d, k)
         \/ HandleStep(d)
         \/ \E s \in FdStates : Finish(d, s)
  PROVE  pc'[c] = pc[c] /\ errno'[c] = errno[c] /\ fd'[c] = fd[c] /\ faults' = faults
<1>1. CASE \E k \in Cmds : Call(d, k)
  BY <1>1 DEF Call, TypeOK
<1>2. CASE Submit(d)
  BY <1>2 DEF Submit, TypeOK
<1>3. CASE Drain(d)
  BY <1>3 DEF Drain, ReadFd, Empty, TypeOK
<1>4. CASE Read(d)
  BY <1>4 DEF Read, ReadFd, Empty, TypeOK
<1>5. CASE \E s \in FdStates : Finish(d, s)
  BY <1>5 DEF Finish, TypeOK
<1>6. CASE SubmitFails(d)
  BY <1>6 DEF SubmitFails, TypeOK
<1> QED  BY <1>1, <1>2, <1>3, <1>4, <1>5, <1>6 DEF HandleStep

(* What the steps of c do to it.                                               *)
LEMMA SubmitHandles ==
  ASSUME TypeOK, NEW c \in Procs, Submit(c)
  PROVE  /\ pc[c] = "submit" /\ faults' = faults
         /\ \/ /\ fd[c] = "idle" /\ fd'[c] = "queued" /\ errno'[c] = errno[c]
               /\ pc'[c] = IF errno[c] = "EBADE" THEN "drain" ELSE "read"
            \/ /\ fd[c] # "idle" /\ fd'[c] = fd[c] /\ errno'[c] = "EBADE" /\ pc'[c] = "drain"
<1>1. pc[c] = "submit" /\ faults' = faults /\ pc'[c] = IF errno'[c] = "EBADE" THEN "drain" ELSE "read"
  BY DEF Submit, TypeOK
<1>2. CASE fd[c] = "idle"
  BY <1>1, <1>2 DEF Submit, TypeOK
<1>3. CASE fd[c] # "idle"
  BY <1>1, <1>3 DEF Submit, TypeOK
<1> QED  BY <1>2, <1>3

LEMMA SubmitFailsHandles ==
  ASSUME TypeOK, NEW c \in Procs, SubmitFails(c)
  PROVE  /\ pc[c] = "submit" /\ pc'[c] = "idle" /\ errno'[c] = "other"
         /\ fd' = fd /\ faults' = faults /\ faults[c] \cap {"signal", "io"} # {}
BY DEF SubmitFails, TypeOK

LEMMA DrainHandles ==
  ASSUME TypeOK, NEW c \in Procs, Drain(c)
  PROVE  /\ pc[c] = "drain" /\ pc'[c] = "submit" /\ errno'[c] = "other" /\ faults' = faults
         /\ \/ fd[c] \in Answers \cup {"aborted"} /\ fd'[c] = "idle"
            \/ fd[c] = "queued" /\ "signal" \in faults[c] /\ fd' = fd
            \/ fd[c] = "ioerr" /\ fd' = fd
BY DEF Drain, ReadFd, Empty, TypeOK

LEMMA ReadHandles ==
  ASSUME TypeOK, NEW c \in Procs, Read(c)
  PROVE  /\ pc[c] = "read" /\ pc'[c] = "idle" /\ errno' = errno /\ faults' = faults
         /\ \/ fd'[c] = "idle"
            \/ fd[c] = "queued" /\ "signal" \in faults[c] /\ fd' = fd
            \/ fd[c] = "ioerr" /\ "nofd" \in faults[c] /\ fd' = fd
BY DEF Read, ReadFd, Empty, TypeOK

LEMMA FinishHandles ==
  ASSUME TypeOK, NEW c \in Procs, NEW s \in FdStates, Finish(c, s)
  PROVE  /\ pc' = pc /\ errno' = errno /\ faults' = faults
         /\ fd[c] = "queued" /\ fd'[c] = s
         /\ s \in Answers \/ (s \in {"aborted", "ioerr"} /\ "io" \in faults[c])
BY DEF Finish, TypeOK

LEMMA HandledNext == TypeOK /\ (\A c \in Procs : Handled(c)) /\ [Next]_vars => (\A c \in Procs : Handled(c))'
<1> SUFFICES ASSUME TypeOK, \A c \in Procs : Handled(c), [Next]_vars, NEW c \in Procs
             PROVE  Handled(c)'
  OBVIOUS
<1> USE DEF Handled, Awaited, SparedHere, Spared
<1>0. Handled(c)  OBVIOUS
<1>1. CASE UNCHANGED vars
  BY <1>1 DEF vars
<1>2. ASSUME NEW k \in Cmds, Call(c, k) PROVE Handled(c)'
  <2>1. pc[c] = "idle" /\ pc'[c] = "submit" /\ fd' = fd /\ faults' = faults
        /\ ("errno" \notin faults[c] => errno'[c] = errno[c])
    BY <1>2 DEF Call, TypeOK
  <2> QED  BY <1>0, <2>1
<1>3. CASE Submit(c)
  BY <1>0, <1>3, SubmitHandles
<1>4. CASE Drain(c)
  BY <1>0, <1>4, DrainHandles
<1>5. CASE Read(c)
  BY <1>0, <1>5, ReadHandles
<1>6. ASSUME NEW s \in FdStates, Finish(c, s) PROVE Handled(c)'
  BY <1>0, <1>6, FinishHandles DEF Answers
<1>7. ASSUME NEW d \in Procs, d # c,
             (\E k \in Cmds : Call(d, k)) \/ HandleStep(d) \/ (\E s \in FdStates : Finish(d, s))
      PROVE  Handled(c)'
  BY <1>0, <1>7, OthersHandle
<1>8. CASE SubmitFails(c)
  BY <1>0, <1>8, SubmitFailsHandles
<1> QED  BY <1>1, <1>2, <1>3, <1>4, <1>5, <1>6, <1>7, <1>8 DEF Next, HandleStep

(* A read is never left waiting for an answer to a command that is not there,   *)
(* whatever fails: the drain of "goto retry" finds what kept the write out.    *)
THEOREM ReadsAwaitACommand == Spec => [](\A c \in Procs : Awaited(c))
<1>1. TypeOK /\ (\A c \in Procs : Handled(c)) => \A c \in Procs : Awaited(c)
  BY DEF Handled
<1>2. Inv => TypeOK
  BY DEF Inv
<1> QED  BY <1>1, <1>2, HandledInit, HandledNext, InvHolds, PTL DEF Spec

LEMMA HandleNears ==
  ASSUME TypeOK, NEW c \in Procs, Handled(c), [Next]_vars, Spared(c), pc[c] # "idle"
  PROVE  IF HandleStep(c) THEN HandleLeft(c)' < HandleLeft(c) ELSE HandleLeft(c)' = HandleLeft(c)
<1>1. /\ pc[c] = "submit" => HandleLeft(c) = IF fd[c] = "idle" /\ errno[c] # "EBADE" THEN 2 ELSE 4
      /\ pc[c] = "drain" => HandleLeft(c) = 3
      /\ pc[c] = "read" => HandleLeft(c) = 1
      /\ pc'[c] = "submit" => HandleLeft(c)' = IF fd'[c] = "idle" /\ errno'[c] # "EBADE" THEN 2 ELSE 4
      /\ pc'[c] = "drain" => HandleLeft(c)' = 3
      /\ pc'[c] = "read" => HandleLeft(c)' = 1
      /\ pc'[c] = "idle" => HandleLeft(c)' = 0
  BY DEF HandleLeft
<1>2. CASE Submit(c)
  <2>1. HandleLeft(c)' < HandleLeft(c)
    BY <1>1, <1>2, SubmitHandles
  <2> QED  BY <1>2, <2>1 DEF HandleStep
<1>3. CASE Drain(c)
  <2>1. fd'[c] = "idle" /\ errno'[c] # "EBADE"
    BY <1>3, DrainHandles DEF Handled, SparedHere, Spared
  <2>2. HandleLeft(c)' < HandleLeft(c)
    BY <1>1, <1>3, <2>1, DrainHandles
  <2> QED  BY <1>3, <2>2 DEF HandleStep
<1>4. CASE Read(c)
  <2>1. HandleLeft(c)' < HandleLeft(c)
    BY <1>1, <1>4, ReadHandles
  <2> QED  BY <1>4, <2>1 DEF HandleStep
<1>5. CASE ~HandleStep(c)
  <2>1. ASSUME pc'[c] = pc[c], errno'[c] = errno[c], fd'[c] = fd[c] PROVE HandleLeft(c)' = HandleLeft(c)
    BY <2>1 DEF HandleLeft
  <2>2. ASSUME UNCHANGED vars PROVE HandleLeft(c)' = HandleLeft(c)
    BY <2>1, <2>2 DEF vars
  <2>3. ASSUME NEW s \in FdStates, Finish(c, s) PROVE HandleLeft(c)' = HandleLeft(c)
    <3>1. pc' = pc /\ errno' = errno /\ fd[c] # "idle" /\ fd'[c] # "idle"
      BY <2>3, FinishHandles DEF Answers
    <3> QED  BY <3>1 DEF HandleLeft
  <2>4. ASSUME NEW k \in Cmds, Call(c, k) PROVE FALSE
    BY <2>4 DEF Call
  <2>5. ASSUME NEW d \in Procs, d # c,
               (\E k \in Cmds : Call(d, k)) \/ HandleStep(d) \/ (\E s \in FdStates : Finish(d, s))
        PROVE  HandleLeft(c)' = HandleLeft(c)
    BY <2>1, <2>5, OthersHandle
  <2>6. HandleLeft(c)' = HandleLeft(c)
    BY <1>5, <2>2, <2>3, <2>4, <2>5 DEF Next
  <2> QED  BY <1>5, <2>6
<1>6. CASE SubmitFails(c)
  <2>1. HandleLeft(c)' < HandleLeft(c)
    BY <1>1, <1>6, SubmitFailsHandles
  <2> QED  BY <1>6, <2>1 DEF HandleStep
<1> QED  BY <1>2, <1>3, <1>4, <1>5, <1>6 DEF HandleStep

(* linux_cmd ends after four writes and reads at most, those of "goto retry"    *)
(* included, unless signals keep interrupting it or a descriptor stays cut off; *)
(* nothing another process does makes it take longer.                          *)
THEOREM HandleIsBounded ==
  Spec => [][\A c \in Procs : Spared(c) /\ pc[c] # "idle" =>
               IF HandleStep(c) THEN HandleLeft(c)' < HandleLeft(c)
                                ELSE HandleLeft(c)' = HandleLeft(c)]_vars
<1>1. TypeOK /\ (\A c \in Procs : Handled(c)) /\ [Next]_vars =>
        [\A c \in Procs : Spared(c) /\ pc[c] # "idle" =>
            IF HandleStep(c) THEN HandleLeft(c)' < HandleLeft(c)
                             ELSE HandleLeft(c)' = HandleLeft(c)]_vars
  BY HandleNears
<1>2. Inv => TypeOK
  BY DEF Inv
<1> QED  BY <1>1, <1>2, HandledInit, HandledNext, InvHolds, PTL DEF Spec

-----------------------------------------------------------------------------
(* The captures (EyeCapture).                                                  *)

(* A step of a capture, seen from one process.                                 *)
StepOf(c) == Start(c) \/ CaptureStep(c) \/ Handle(c) \/ Execute(c)

(* Every step of a capture is a step or a stutter of the handles.              *)
LEMMA StepMaps == [CaptureNext]_allVars => [Next]_vars
<1> SUFFICES ASSUME [CaptureNext]_allVars PROVE [Next]_vars
  OBVIOUS
<1>1. "status" \in Cmds /\ "run" \in Cmds /\ "read" \in Cmds
  BY EyeAssumption
<1>2. CASE UNCHANGED allVars
  BY <1>2 DEF allVars
<1>3. CASE Engine
  BY <1>3 DEF Engine
<1>4. ASSUME NEW c \in Procs, Start(c) PROVE Next
  BY <1>1, <1>4 DEF Start, Next
<1>5. ASSUME NEW c \in Procs, CaptureStep(c) PROVE Next \/ UNCHANGED vars
  <2>1. \A s, t : Judge(c, s, t) => Call(c, "status") \/ UNCHANGED vars
    BY DEF Judge
  <2>2. \/ \E k \in Cmds : Call(c, k)
        \/ UNCHANGED vars
    BY <1>1, <1>5, <2>1 DEF CaptureStep, Checked, Started, Polled, Poll, ReadBin, BinRead, AllRead
  <2> QED BY <2>2 DEF Next
<1>6. ASSUME NEW c \in Procs, Handle(c) PROVE Next
  BY <1>6 DEF Handle, Next
<1>7. ASSUME NEW c \in Procs, Execute(c) PROVE Next
  <2>1. \E s \in FdStates : Finish(c, s)
    BY <1>7 DEF Execute, FdStates, Answers
  <2> QED BY <2>1 DEF Next
<1> QED BY <1>2, <1>3, <1>4, <1>5, <1>6, <1>7 DEF CaptureNext

(* The captures use the handles of LinuxCmd as they are.                       *)
THEOREM CapturesAreCalls == CaptureSpec => Spec
<1>1. CaptureInit => Init
  BY DEF CaptureInit
<1> QED BY <1>1, StepMaps, PTL DEF CaptureSpec, Spec

-----------------------------------------------------------------------------
(* What the calls of LinuxCmd do to the process that makes them.               *)
LEMMA CallDoes ==
  ASSUME TypeOK, NEW c \in Procs, NEW k \in Cmds, Call(c, k)
  PROVE  /\ pc[c] = "idle" /\ pc'[c] = "submit" /\ req'[c] = k
         /\ ret'[c] = "none" /\ ~own'[c] /\ fd' = fd /\ what' = what
BY DEF Call, TypeOK

(* What the handle does by itself.                                             *)
LEMMA HandleDoes ==
  ASSUME TypeOK, Inv, NEW c \in Procs, HandleStep(c)
  PROVE  /\ pc[c] # "idle" /\ ret[c] = "none"
         /\ \/ /\ fd[c] = "idle" /\ fd'[c] = "queued" /\ what'[c] = req[c] /\ own'[c]
               /\ pc'[c] # "idle" /\ req'[c] = req[c] /\ ret'[c] = "none"
            \/ /\ fd'[c] = fd[c] /\ what'[c] = what[c] /\ own'[c] = own[c]
               /\ pc'[c] # "idle" => req'[c] = req[c]
               /\ ret'[c] # "ok"
            \/ /\ fd'[c] = "idle" /\ own'[c] = own[c]
               /\ pc'[c] # "idle" => req'[c] = req[c]
               /\ ret'[c] = "ok" => fd[c] = "done" /\ own[c]
<1>0. /\ pc[c] # "idle" => ret[c] = "none"
      /\ pc[c] = "read" => own[c]
  BY DEF Inv
<1>1. CASE Submit(c)
  <2>1. pc[c] = "submit" /\ pc'[c] # "idle" /\ req' = req /\ ret' = ret
    BY <1>1 DEF Submit, TypeOK
  <2>2. \/ fd[c] = "idle" /\ fd'[c] = "queued" /\ what'[c] = req[c] /\ own'[c]
        \/ fd'[c] = fd[c] /\ what'[c] = what[c] /\ own'[c] = own[c]
    BY <1>1 DEF Submit, TypeOK
  <2> QED BY <1>0, <2>1, <2>2
<1>2. CASE Drain(c)
  <2>1. pc[c] = "drain" /\ pc'[c] # "idle" /\ req' = req /\ ret' = ret /\ own' = own
    BY <1>2 DEF Drain, TypeOK
  <2>2. \/ fd'[c] = "idle"
        \/ fd'[c] = fd[c] /\ what'[c] = what[c]
    BY <1>2 DEF Drain, ReadFd, Empty, TypeOK
  <2> QED BY <1>0, <2>1, <2>2
<1>3. CASE Read(c)
  <2>1. pc[c] = "read" /\ pc'[c] = "idle" /\ own' = own
    BY <1>3 DEF Read, TypeOK
  <2>2. \/ fd'[c] = "idle" /\ (ret'[c] = "ok" => fd[c] = "done")
        \/ fd'[c] = fd[c] /\ what'[c] = what[c] /\ ret'[c] # "ok"
    BY <1>3 DEF Read, ReadFd, Empty, Result, Answers, TypeOK
  <2> QED BY <1>0, <2>1, <2>2
<1>4. CASE SubmitFails(c)
  <2>1. /\ pc[c] = "submit" /\ pc'[c] = "idle" /\ ret'[c] # "ok"
        /\ UNCHANGED <<fd, what, own>>
    BY <1>4 DEF SubmitFails, TypeOK
  <2> QED BY <1>0, <2>1
<1> QED BY <1>1, <1>2, <1>3, <1>4 DEF HandleStep

(* The engine is typed, and so is what it says.                                *)
LEMMA EngineType ==
  ASSUME EyeTypeOK, [CaptureNext]_allVars
  PROVE  /\ eye' \in [st : EyeStates, by : Owners]
         /\ ans' \in [Procs -> [st : EyeStates, by : Owners]]
         /\ shared' \in [Procs -> BOOLEAN]
<1> USE DEF EyeTypeOK
<1>0. Nothing \in [st : EyeStates, by : Owners] /\ NoCmd \in Owners
  BY DEF Nothing, EyeStates, Owners
<1>1. CASE UNCHANGED engine
  BY <1>1 DEF engine
<1>2. CASE Engine
  BY <1>2 DEF Engine, EyeStates
<1>3. ASSUME NEW c \in Procs, Start(c)
      PROVE  /\ eye' \in [st : EyeStates, by : Owners] /\ ans' = ans
             /\ shared' \in [Procs -> BOOLEAN]
  BY <1>0, <1>3 DEF Start
<1>4. ASSUME NEW c \in Procs, Effect(c)
      PROVE  /\ eye' \in [st : EyeStates, by : Owners]
             /\ ans' \in [Procs -> [st : EyeStates, by : Owners]]
             /\ shared' \in [Procs -> BOOLEAN]
  <2>1. CASE what[c] = "run"
    <3>1. (IF own[c] THEN c ELSE NoCmd) \in Owners
      BY <1>0 DEF Owners
    <3>2. eye' = [st |-> "BUSY", by |-> IF own[c] THEN c ELSE NoCmd] /\ "BUSY" \in EyeStates
      BY <1>4, <2>1 DEF Effect, EyeStates
    <3>3. eye' \in [st : EyeStates, by : Owners]
      BY <3>1, <3>2
    <3>4. ans' = [ans EXCEPT ![c] = Nothing]
      BY <1>4, <2>1 DEF Effect
    <3>5. shared' \in [Procs -> BOOLEAN]
      BY <1>4, <2>1 DEF Effect
    <3> QED BY <1>0, <3>3, <3>4, <3>5
  <2>2. CASE what[c] # "run"
    BY <1>4, <2>2 DEF Effect
  <2> QED BY <2>1, <2>2
<1>5. ASSUME NEW c \in Procs, Execute(c), ~Effect(c)
      PROVE  /\ eye' = eye /\ shared' = shared
             /\ ans' \in [Procs -> [st : EyeStates, by : Owners]]
  BY <1>0, <1>5 DEF Execute, engine
<1>6. ASSUME NEW c \in Procs, CaptureStep(c) \/ Handle(c) PROVE UNCHANGED engine
  BY <1>6 DEF CaptureStep, Handle, Checked, Started, Polled, ReadBin, BinRead, AllRead
<1> QED BY <1>1, <1>2, <1>3, <1>4, <1>5, <1>6 DEF CaptureNext, allVars, engine

(* The variables of a capture are typed.                                       *)
LEMMA LocalType ==
  ASSUME EyeTypeOK, \A c \in Procs : Tracked(c), [CaptureNext]_allVars
  PROVE  /\ app' \in [Procs -> {"idle", "check", "run", "poll", "read", "bin"}]
         /\ seen' \in [Procs -> EyeStates] /\ elapsed' \in [Procs -> 0..Timeout]
         /\ bin' \in [Procs -> 0..Bins]
         /\ out' \in [Procs -> {"none", "ok", "error"}]
         /\ got' \in [Procs -> SUBSET Owners]
<1> DEFINE Typed ==
      /\ app' \in [Procs -> {"idle", "check", "run", "poll", "read", "bin"}]
      /\ seen' \in [Procs -> EyeStates] /\ elapsed' \in [Procs -> 0..Timeout]
      /\ bin' \in [Procs -> 0..Bins]
      /\ out' \in [Procs -> {"none", "ok", "error"}]
      /\ got' \in [Procs -> SUBSET Owners]
<1> USE DEF EyeTypeOK
<1>0. /\ Timeout \in Nat /\ RetryTime \in Nat \ {0} /\ Bins \in Nat
      /\ {"NONE", "BUSY", "DONE"} = EyeStates
  BY EyeAssumption DEF EyeStates
<1>1. CASE UNCHANGED local
  BY <1>1 DEF local
<1>2. ASSUME NEW c \in Procs, NEW r \in {"ok", "error"}, Return(c, r) PROVE Typed
  BY <1>0, <1>2 DEF Return, Goto
<1>3. ASSUME NEW c \in Procs, Start(c) PROVE Typed
  BY <1>3 DEF Start, Goto
<1>4. ASSUME NEW c \in Procs, Checked(c) PROVE Typed
  <2>1. CASE Return(c, "error")
    BY <1>2, <2>1
  <2>2. CASE ~Return(c, "error")
    BY <1>4, <2>2 DEF Checked, Goto
  <2> QED BY <2>1, <2>2
<1>5. ASSUME NEW c \in Procs, Poll(c), UNCHANGED <<elapsed, bin, out, got>> PROVE Typed
  BY <1>0, <1>5 DEF Poll, Goto
<1>6. ASSUME NEW c \in Procs, Started(c) PROVE Typed
  BY <1>2, <1>5, <1>6 DEF Started
<1>7. ASSUME NEW c \in Procs, NEW s \in EyeStates, NEW t \in 0..Timeout, Judge(c, s, t)
      PROVE  Typed
  <2>1. CASE s = "BUSY"
    BY <1>7, <2>1 DEF Judge
  <2>2. CASE s = "DONE"
    <3>1. /\ app' = [app EXCEPT ![c] = "read"] /\ bin' = [bin EXCEPT ![c] = 0]
          /\ seen' = [seen EXCEPT ![c] = "NONE"] /\ elapsed' = [elapsed EXCEPT ![c] = 0]
          /\ UNCHANGED <<out, got>>
      BY <1>7, <2>2 DEF Judge, Goto
    <3>2. 0 \in 0..Timeout /\ 0 \in 0..Bins /\ "NONE" \in EyeStates
      BY <1>0
    <3> QED BY <3>1, <3>2
  <2>3. CASE s \notin {"BUSY", "DONE"}
    BY <1>2, <1>7, <2>3 DEF Judge
  <2> QED BY <2>1, <2>2, <2>3
<1>8. ASSUME NEW c \in Procs, Polled(c) PROVE Typed
  <2>1. /\ ans[c].st \in EyeStates /\ seen[c] \in EyeStates
        /\ elapsed[c] \in Nat /\ RetryTime \in Nat
    BY <1>0
  <2>2. \A t \in Nat : t < Timeout => t \in 0..Timeout
    BY <1>0
  <2>3. elapsed[c] + 1 \in Nat /\ elapsed[c] + RetryTime \in Nat
    BY <2>1
  <2>4. CASE Return(c, "error")
    BY <1>2, <2>4
  <2>5. CASE \E s \in EyeStates, t \in 0..Timeout : Judge(c, s, t)
    BY <1>7, <2>5
  <2> QED BY <1>8, <2>1, <2>2, <2>3, <2>4, <2>5 DEF Polled
<1>9. ASSUME NEW c \in Procs, ReadBin(c) PROVE Typed
  BY <1>9 DEF ReadBin, Goto
<1>10. ASSUME NEW c \in Procs, BinRead(c) PROVE Typed
  <2>1. CASE Return(c, "error")
    BY <1>2, <2>1
  <2>2. CASE ~Return(c, "error")
    <3>1. ans[c].by \in Owners
      OBVIOUS
    <3>2. got' \in [Procs -> SUBSET Owners]
      BY <1>10, <2>2, <3>1 DEF BinRead
    <3>3. app[c] = "bin" /\ bin[c] \in 0..Bins /\ bin[c] < Bins
      BY <1>10 DEF BinRead, Returned, Tracked
    <3>4. bin[c] + 1 \in 0..Bins
      BY <1>0, <3>3
    <3>5. app' = [app EXCEPT ![c] = "read"] /\ bin' = [bin EXCEPT ![c] = bin[c] + 1]
          /\ UNCHANGED <<seen, elapsed, out>>
      BY <1>10, <2>2 DEF BinRead, Goto
    <3> QED BY <3>2, <3>4, <3>5
  <2> QED BY <2>1, <2>2
<1>11. ASSUME NEW c \in Procs, AllRead(c) PROVE Typed
  BY <1>2, <1>11 DEF AllRead
<1>12. CASE UNCHANGED allVars
  BY <1>1, <1>12 DEF allVars, local
<1>13. ASSUME NEW c \in Procs, Handle(c) \/ Execute(c) PROVE Typed
  BY <1>1, <1>13 DEF Handle, Execute, local
<1>14. CASE Engine
  BY <1>1, <1>14 DEF Engine, local
<1> QED BY <1>3, <1>4, <1>6, <1>8, <1>9, <1>10, <1>11, <1>12, <1>13, <1>14
        DEF CaptureNext, CaptureStep

(* The type invariant is kept.                                                 *)
LEMMA NextEyeType ==
  ASSUME EyeTypeOK, \A c \in Procs : Tracked(c), [CaptureNext]_allVars
  PROVE  EyeTypeOK'
<1>1. TypeOK'
  BY StepMaps, NextType DEF EyeTypeOK
<1> QED BY <1>1, EngineType, LocalType DEF EyeTypeOK

-----------------------------------------------------------------------------
(* A process keeps its part of the invariant when nothing of its own changes   *)
(* and the engine is not taken from it unnoticed.                              *)
LEMMA LeftAlone ==
  ASSUME EyeTypeOK, NEW d \in Procs, Tracked(d), TrackedAlone(d),
         /\ app'[d] = app[d] /\ pc'[d] = pc[d] /\ req'[d] = req[d] /\ own'[d] = own[d]
         /\ fd'[d] = fd[d] /\ what'[d] = what[d] /\ ret'[d] = ret[d] /\ got'[d] = got[d]
         /\ out'[d] = out[d] /\ bin'[d] = bin[d] /\ ans'[d] = ans[d],
         shared[d] => shared'[d],
         eye'.by = eye.by \/ eye.by # d \/ shared'[d] \/ app[d] = "idle"
  PROVE  Tracked(d)' /\ TrackedAlone(d)'
<1>1. Tracked(d)'
  BY DEF Tracked, Kind
<1>2. TrackedAlone(d)'
  BY DEF TrackedAlone
<1> QED BY <1>1, <1>2

(* The steps of another process, and of the engine, leave a process alone.     *)
LEMMA CaptureElsewhere ==
  ASSUME EyeTypeOK, NEW c \in Procs, NEW d \in Procs, d # c, StepOf(c),
         Tracked(d), TrackedAlone(d)
  PROVE  Tracked(d)' /\ TrackedAlone(d)'
<1> USE DEF EyeTypeOK, TypeOK
<1> DEFINE SameHandle ==
             /\ pc'[d] = pc[d] /\ req'[d] = req[d] /\ own'[d] = own[d]
             /\ fd'[d] = fd[d] /\ what'[d] = what[d] /\ ret'[d] = ret[d]
           SameCapture ==
             /\ app'[d] = app[d] /\ got'[d] = got[d] /\ out'[d] = out[d] /\ bin'[d] = bin[d]
<1>1. SameHandle
  <2>0. "status" \in Cmds /\ "run" \in Cmds /\ "read" \in Cmds
    BY EyeAssumption
  <2>1. ASSUME NEW k \in Cmds, Call(c, k) PROVE SameHandle
    BY <2>1 DEF Call
  <2>2. CASE UNCHANGED vars
    BY <2>2 DEF vars
  <2>3. CASE Start(c)
    BY <2>0, <2>1, <2>3 DEF Start
  <2>4. CASE CaptureStep(c)
    <3>1. \A s, t : Judge(c, s, t) => Call(c, "status") \/ UNCHANGED vars
      BY DEF Judge
    <3>2. (\E k \in Cmds : Call(c, k)) \/ UNCHANGED vars
      BY <2>0, <2>4, <3>1
         DEF CaptureStep, Checked, Started, Polled, Poll, ReadBin, BinRead, AllRead
    <3> QED BY <2>1, <2>2, <3>2
  <2>5. CASE Submit(c)
    BY <2>5 DEF Submit
  <2>6. CASE Drain(c)
    BY <2>6 DEF Drain, ReadFd, Empty
  <2>7. CASE Read(c)
    BY <2>7 DEF Read, ReadFd, Empty
  <2>8. CASE Execute(c)
    <3>1. \E s \in FdStates : Finish(c, s)
      BY <2>8 DEF Execute, FdStates, Answers
    <3> QED BY <3>1 DEF Finish
  <2>9. CASE SubmitFails(c)
    BY <2>9 DEF SubmitFails
  <2> QED BY <2>3, <2>4, <2>5, <2>6, <2>7, <2>8, <2>9 DEF StepOf, Handle, HandleStep
<1>2. SameCapture
  <2>1. CASE UNCHANGED local
    BY <2>1 DEF local
  <2>2. CASE Start(c)
    BY <2>2 DEF Start, Goto
  <2>3. ASSUME NEW r, Return(c, r) PROVE SameCapture
    BY <2>3 DEF Return, Goto
  <2>4. ASSUME NEW s, NEW t, Judge(c, s, t) PROVE SameCapture
    BY <2>3, <2>4 DEF Judge, Goto
  <2>5. CASE Checked(c)
    BY <2>3, <2>5 DEF Checked, Goto
  <2>6. CASE Started(c)
    BY <2>3, <2>6 DEF Started, Poll, Goto
  <2>7. CASE Polled(c)
    BY <2>3, <2>4, <2>7 DEF Polled
  <2>8. CASE ReadBin(c) \/ BinRead(c) \/ AllRead(c)
    BY <2>3, <2>8 DEF ReadBin, BinRead, AllRead, Goto
  <2> QED BY <2>1, <2>2, <2>5, <2>6, <2>7, <2>8 DEF StepOf, CaptureStep, Handle, Execute
<1>3. /\ ans'[d] = ans[d] /\ (shared[d] => shared'[d])
      /\ eye'.by = eye.by \/ eye.by # d \/ shared'[d] \/ app[d] = "idle"
  <2>1. CASE UNCHANGED engine
    BY <2>1 DEF engine
  <2>2. CASE Start(c)
    BY <2>2 DEF Start
  <2>3. CASE Effect(c)
    <3>1. ans'[d] = ans[d]
      BY <2>3 DEF Effect
    <3>2. CASE what[c] = "run"
      <4>1. eye'.by \in {c, NoCmd}
        BY <2>3, <3>2 DEF Effect
      <4>2. shared' = [x \in Procs |-> shared[x] \/ (x # c /\ app[x] # "idle")]
        BY <2>3, <3>2, Zenon DEF Effect
      <4>3. shared'[d] <=> shared[d] \/ (d # c /\ app[d] # "idle")
        BY <4>2, Zenon
      <4> QED BY <3>1, <4>1, <4>3
    <3>3. CASE what[c] # "run"
      BY <2>3, <3>1, <3>3 DEF Effect
    <3> QED BY <3>2, <3>3
  <2>4. CASE ans' = [ans EXCEPT ![c] = Nothing] /\ UNCHANGED <<eye, shared>>
    BY <2>4
  <2>5. Execute(c) => \/ Effect(c)
                      \/ ans' = [ans EXCEPT ![c] = Nothing] /\ UNCHANGED <<eye, shared>>
    BY DEF Execute
  <2>6. CaptureStep(c) \/ Handle(c) => UNCHANGED engine
    BY DEF CaptureStep, Handle, Checked, Started, Polled, ReadBin, BinRead, AllRead
  <2> QED BY <2>1, <2>2, <2>3, <2>4, <2>5, <2>6 DEF StepOf
<1> QED BY <1>1, <1>2, <1>3, LeftAlone

-----------------------------------------------------------------------------
(* The steps of the process itself.  One that calls the handle from `to' needs *)
(* no more than these facts.                                                   *)
LEMMA CallTracked ==
  ASSUME EyeTypeOK, NEW c \in Procs, Tracked(c), TrackedAlone(c),
         NEW to \in {"check", "run", "poll", "bin"}, Call(c, Kind(to)), app'[c] = to,
         out'[c] = "none", bin'[c] = bin[c], to = "bin" => bin[c] < Bins,
         to = "check" => got'[c] = {},
         to # "check" => /\ got'[c] = got[c] /\ UNCHANGED engine,
         to = "run" => app[c] = "check",
         to = "poll" => app[c] = "poll" \/ (app[c] = "run" /\ ret[c] = "ok"),
         to = "bin" => app[c] = "read"
  PROVE  Tracked(c)' /\ TrackedAlone(c)'
<1>1. Kind(to) \in Cmds
  BY EyeAssumption DEF Kind
<1>2. /\ pc[c] = "idle" /\ pc'[c] = "submit" /\ req'[c] = Kind(to)
      /\ ret'[c] = "none" /\ ~own'[c] /\ fd' = fd /\ what' = what
  BY <1>1, CallDoes DEF EyeTypeOK
<1>3. Tracked(c)'
  BY <1>2 DEF Tracked, Kind
<1>4. TrackedAlone(c)'
  BY <1>2 DEF Tracked, TrackedAlone, engine
<1> QED BY <1>3, <1>4

(* The end of a capture.                                                       *)
LEMMA ReturnTracked ==
  ASSUME EyeTypeOK, NEW c \in Procs, Tracked(c), TrackedAlone(c),
         NEW r \in {"ok", "error"}, Return(c, r), UNCHANGED <<vars, engine>>,
         pc[c] = "idle", r = "ok" => app[c] = "read"
  PROVE  Tracked(c)' /\ TrackedAlone(c)'
<1>1. /\ app'[c] = "idle" /\ out'[c] = r /\ bin'[c] = 0
      /\ got'[c] = IF r = "ok" THEN got[c] ELSE {}
  BY DEF Return, Goto, EyeTypeOK
<1>2. Tracked(c)'
  BY <1>1 DEF Tracked, Kind, vars
<1>3. TrackedAlone(c)'
  BY <1>1 DEF TrackedAlone, vars, engine
<1> QED BY <1>2, <1>3

(* What the polling loop does once it has a status.                            *)
LEMMA JudgeTracked ==
  ASSUME EyeTypeOK, NEW c \in Procs, Tracked(c), TrackedAlone(c), app[c] = "poll",
         pc[c] = "idle", NEW s, NEW t, Judge(c, s, t), UNCHANGED engine
  PROVE  Tracked(c)' /\ TrackedAlone(c)'
<1>0. out[c] = "none"
  BY DEF Tracked, EyeTypeOK
<1>1. CASE s = "BUSY"
  <2>1. /\ Call(c, Kind("poll")) /\ app'[c] = "poll"
        /\ UNCHANGED <<out, bin, got>>
    BY <1>1 DEF Judge, Kind
  <2> QED BY <1>0, <2>1, CallTracked
<1>2. CASE s = "DONE"
  <2>1. app'[c] = "read" /\ UNCHANGED <<vars, out, got>>
    BY <1>2 DEF Judge, Goto, EyeTypeOK
  <2>2. Tracked(c)'
    BY <1>0, <2>1 DEF Tracked, Kind, vars
  <2>3. TrackedAlone(c)'
    BY <1>0, <2>1 DEF Tracked, TrackedAlone, vars, engine
  <2> QED BY <2>2, <2>3
<1>3. CASE s \notin {"BUSY", "DONE"}
  BY <1>3, ReturnTracked DEF Judge
<1> QED BY <1>1, <1>2, <1>3

(* The steps of the caller keep its part of the invariant.                     *)
LEMMA CaptureStepTracked ==
  ASSUME EyeTypeOK, NEW c \in Procs, Tracked(c), TrackedAlone(c),
         Start(c) \/ CaptureStep(c)
  PROVE  Tracked(c)' /\ TrackedAlone(c)'
<1>0. app[c] # "idle" => out[c] = "none"
  BY DEF Tracked, EyeTypeOK
<1>1. CASE Start(c)
  <2>1. /\ Call(c, Kind("check")) /\ app'[c] = "check" /\ out'[c] = "none"
        /\ got'[c] = {} /\ bin' = bin
    BY <1>1 DEF Start, Goto, Kind, EyeTypeOK
  <2> QED BY <2>1, CallTracked
<1>2. CASE Checked(c)
  <2>1. app[c] = "check" /\ pc[c] = "idle" /\ UNCHANGED engine
    BY <1>2 DEF Checked, Returned
  <2>2. CASE ret[c] = "ok" /\ ans[c].st = "BUSY"
    BY <1>2, <2>1, <2>2, ReturnTracked DEF Checked
  <2>3. CASE ~(ret[c] = "ok" /\ ans[c].st = "BUSY")
    <3>1. Call(c, Kind("run")) /\ app'[c] = "run" /\ UNCHANGED <<out, bin, got>>
      BY <1>2, <2>3 DEF Checked, Goto, Kind, EyeTypeOK
    <3> QED BY <1>0, <2>1, <3>1, CallTracked
  <2> QED BY <2>2, <2>3
<1>3. CASE Started(c)
  <2>1. app[c] = "run" /\ pc[c] = "idle" /\ UNCHANGED engine
    BY <1>3 DEF Started, Returned
  <2>2. CASE ret[c] # "ok"
    BY <1>3, <2>1, <2>2, ReturnTracked DEF Started
  <2>3. CASE ret[c] = "ok"
    <3>1. Call(c, Kind("poll")) /\ app'[c] = "poll" /\ UNCHANGED <<out, bin, got>>
      BY <1>3, <2>3 DEF Started, Poll, Goto, Kind, EyeTypeOK
    <3> QED BY <1>0, <2>1, <2>3, <3>1, CallTracked
  <2> QED BY <2>2, <2>3
<1>4. CASE Polled(c)
  <2>1. app[c] = "poll" /\ pc[c] = "idle" /\ UNCHANGED engine
    BY <1>4 DEF Polled, Returned
  <2>2. \/ \E s, t : Judge(c, s, t)
        \/ Return(c, "error") /\ UNCHANGED vars
    BY <1>4 DEF Polled
  <2>3. CASE \E s, t : Judge(c, s, t)
    BY <2>1, <2>3, JudgeTracked
  <2>4. CASE Return(c, "error") /\ UNCHANGED vars
    BY <2>1, <2>4, ReturnTracked
  <2> QED BY <2>2, <2>3, <2>4
<1>5. CASE ReadBin(c)
  <2>1. /\ app[c] = "read" /\ bin[c] < Bins /\ UNCHANGED engine
        /\ Call(c, Kind("bin")) /\ app'[c] = "bin" /\ UNCHANGED <<out, bin, got>>
    BY <1>5 DEF ReadBin, Goto, Kind, EyeTypeOK
  <2> QED BY <1>0, <2>1, CallTracked
<1>6. CASE BinRead(c)
  <2>1. app[c] = "bin" /\ pc[c] = "idle" /\ UNCHANGED <<vars, engine>>
    BY <1>6 DEF BinRead, Returned
  <2>2. CASE ret[c] # "ok"
    BY <1>6, <2>1, <2>2, ReturnTracked DEF BinRead
  <2>3. CASE ret[c] = "ok"
    <3>1. app'[c] = "read" /\ got'[c] = got[c] \cup {ans[c].by} /\ out' = out
      BY <1>6, <2>3 DEF BinRead, Goto, EyeTypeOK
    <3>2. Tracked(c)'
      BY <1>0, <2>1, <3>1 DEF Tracked, Kind, vars
    <3>3. TrackedAlone(c)'
      BY <1>0, <2>1, <2>3, <3>1 DEF TrackedAlone, vars, engine
    <3> QED BY <3>2, <3>3
  <2> QED BY <2>2, <2>3
<1>7. CASE AllRead(c)
  <2>1. app[c] = "read" /\ pc[c] = "idle" /\ Return(c, "ok") /\ UNCHANGED <<vars, engine>>
    BY <1>7 DEF AllRead, Tracked
  <2> QED BY <2>1, ReturnTracked
<1> QED BY <1>1, <1>2, <1>3, <1>4, <1>5, <1>6, <1>7 DEF CaptureStep

(* The steps of the handle keep it.                                            *)
LEMMA HandleTracked ==
  ASSUME EyeTypeOK, Inv, NEW c \in Procs, Tracked(c), TrackedAlone(c), Handle(c)
  PROVE  Tracked(c)' /\ TrackedAlone(c)'
<1>1. HandleStep(c) /\ UNCHANGED <<local, engine>> /\ TypeOK
  BY DEF Handle, EyeTypeOK
<1>2. /\ pc[c] # "idle" /\ ret[c] = "none"
      /\ \/ /\ fd[c] = "idle" /\ fd'[c] = "queued" /\ what'[c] = req[c] /\ own'[c]
            /\ pc'[c] # "idle" /\ req'[c] = req[c] /\ ret'[c] = "none"
         \/ /\ fd'[c] = fd[c] /\ what'[c] = what[c] /\ own'[c] = own[c]
            /\ pc'[c] # "idle" => req'[c] = req[c]
            /\ ret'[c] # "ok"
         \/ /\ fd'[c] = "idle" /\ own'[c] = own[c]
            /\ pc'[c] # "idle" => req'[c] = req[c]
            /\ ret'[c] = "ok" => fd[c] = "done" /\ own[c]
  BY <1>1, HandleDoes
<1>3. app[c] \notin {"idle", "read"} /\ req[c] = Kind(app[c])
  BY <1>2 DEF Tracked
<1>4. Tracked(c)'
  BY <1>1, <1>2, <1>3 DEF Tracked, Kind, local
<1>5. TrackedAlone(c)'
  BY <1>1, <1>2, <1>3 DEF TrackedAlone, local, engine
<1> QED BY <1>4, <1>5

(* The end of a command keeps it.                                              *)
LEMMA ExecuteTracked ==
  ASSUME EyeTypeOK, Inv, NEW c \in Procs, Tracked(c), TrackedAlone(c), Execute(c)
  PROVE  Tracked(c)' /\ TrackedAlone(c)'
<1>1. /\ fd[c] = "queued" /\ fd'[c] # "idle" /\ UNCHANGED local
      /\ pc' = pc /\ req' = req /\ ret' = ret /\ what' = what /\ own' = own
  BY DEF Execute, Finish, EyeTypeOK, TypeOK
<1>2. ret[c] # "ok"
  BY <1>1 DEF Inv, Tracked
<1>3. Tracked(c)'
  BY <1>1, <1>2 DEF Tracked, Kind, local
<1>4. CASE fd'[c] = "done" /\ Effect(c)
  <2>1. CASE what[c] = "run"
    <3>1. eye'.by = (IF own[c] THEN c ELSE NoCmd) /\ (shared[c] => shared'[c])
      <4>1. eye' = [st |-> "BUSY", by |-> IF own[c] THEN c ELSE NoCmd]
        BY <1>4, <2>1 DEF Effect
      <4>2. shared[c] => shared'[c]
        BY <1>4, <2>1 DEF Effect, EyeTypeOK
      <4> QED BY <4>1, <4>2
    <3>2. app[c] \notin {"poll", "read", "bin"}
      BY <1>1, <2>1 DEF Tracked
    <3> QED BY <1>1, <1>2, <1>3, <3>1, <3>2 DEF TrackedAlone, local
  <2>2. CASE what[c] # "run"
    <3>1. ans'[c] = eye /\ UNCHANGED <<eye, shared>>
      BY <1>4, <2>2 DEF Effect, EyeTypeOK
    <3>2. app[c] = "run" => ~own[c]
      BY <1>1, <2>2 DEF Tracked, Kind
    <3> QED BY <1>1, <1>2, <1>3, <3>1, <3>2 DEF TrackedAlone, local
  <2> QED BY <2>1, <2>2
<1>5. CASE fd'[c] # "done" /\ Effect(c)
  <2>1. CASE what[c] = "run"
    <3>1. shared[c] => shared'[c]
      BY <1>5, <2>1 DEF Effect, EyeTypeOK
    <3>2. app[c] \notin {"poll", "read", "bin"}
      BY <1>1, <2>1 DEF Tracked
    <3> QED BY <1>1, <1>2, <1>3, <1>5, <3>1, <3>2 DEF TrackedAlone, local
  <2>2. CASE what[c] # "run"
    BY <1>1, <1>2, <1>3, <1>5, <2>2 DEF Effect, TrackedAlone, local
  <2> QED BY <2>1, <2>2
<1>6. CASE fd'[c] # "done" /\ UNCHANGED <<eye, shared>>
  BY <1>1, <1>2, <1>3, <1>6 DEF TrackedAlone, local
<1>7. \/ fd'[c] = "done" /\ Effect(c)
      \/ fd'[c] # "done" /\ Effect(c)
      \/ fd'[c] # "done" /\ UNCHANGED <<eye, shared>>
  BY DEF Execute, Finish, EyeTypeOK, TypeOK
<1> QED BY <1>4, <1>5, <1>6, <1>7

-----------------------------------------------------------------------------
(* The invariant of the captures holds at first.                               *)
LEMMA InitCaptureInv == CaptureInit => CaptureInv
<1> SUFFICES ASSUME CaptureInit PROVE CaptureInv
  OBVIOUS
<1>1. Inv
  BY InitInv DEF CaptureInit
<1>2. EyeTypeOK
  BY <1>1, EyeAssumption DEF CaptureInit, EyeTypeOK, Inv, Nothing, EyeStates, Owners
<1>3. ASSUME NEW c \in Procs PROVE Tracked(c) /\ TrackedAlone(c)
  BY DEF CaptureInit, Init, Tracked, TrackedAlone, Kind
<1> QED BY <1>1, <1>2, <1>3 DEF CaptureInv

(* Every step keeps it.                                                        *)
LEMMA NextCaptureInv == CaptureInv /\ [CaptureNext]_allVars => CaptureInv'
<1> SUFFICES ASSUME CaptureInv, [CaptureNext]_allVars PROVE CaptureInv'
  OBVIOUS
<1>0. Inv /\ EyeTypeOK /\ \A c \in Procs : Tracked(c) /\ TrackedAlone(c)
  BY DEF CaptureInv
<1>1. Inv'
  BY <1>0, StepMaps, NextInv
<1>2. EyeTypeOK'
  BY <1>0, NextEyeType
<1>3. ASSUME NEW d \in Procs PROVE Tracked(d)' /\ TrackedAlone(d)'
  <2>1. CASE Engine \/ UNCHANGED allVars
    <3>1. UNCHANGED <<vars, local, ans, shared>> /\ eye'.by = eye.by
      BY <1>0, <2>1 DEF Engine, allVars, engine, EyeTypeOK
    <3> QED BY <1>0, <3>1, LeftAlone DEF vars, local
  <2>2. ASSUME NEW c \in Procs, StepOf(c) PROVE Tracked(d)' /\ TrackedAlone(d)'
    <3>1. CASE d # c
      BY <1>0, <2>2, <3>1, CaptureElsewhere
    <3>2. CASE d = c
      BY <1>0, <2>2, <3>2, CaptureStepTracked, HandleTracked, ExecuteTracked DEF StepOf
    <3> QED BY <3>1, <3>2
  <2> QED BY <2>1, <2>2 DEF CaptureNext, StepOf
<1>4. CaptureInv' <=> Inv' /\ EyeTypeOK' /\ (\A c \in Procs : Tracked(c) /\ TrackedAlone(c))'
  BY DEF CaptureInv
<1> QED BY <1>1, <1>2, <1>3, <1>4

(* The inductive invariant of the captures, with that of the handles.          *)
THEOREM CaptureInvHolds == CaptureSpec => []CaptureInv
<1> QED BY InitCaptureInv, NextCaptureInv, PTL DEF CaptureSpec

(* A capture returns its own data, for any number of processes, whatever        *)
(* commands fail or are interrupted, unless another one starts meanwhile.      *)
THEOREM DataMineHolds == CaptureSpec => []DataMine
<1>1. CaptureInv => DataMine
  BY DEF CaptureInv, TrackedAlone, DataMine
<1> QED BY <1>1, CaptureInvHolds, PTL

-----------------------------------------------------------------------------
(* How long a capture takes, in commands and turns of its loops.               *)

CommandsLeft(c) ==
  CASE app[c] = "check" -> Timeout + 2 * Bins + 4
    [] app[c] = "run"   -> Timeout + 2 * Bins + 3
    [] app[c] = "poll"  -> Timeout - elapsed[c] + 2 * Bins + 2
    [] app[c] = "read"  -> 2 * (Bins - bin[c]) + 1
    [] app[c] = "bin"   -> 2 * (Bins - bin[c])
    [] OTHER -> 0
CaptureBounded ==
  \A c \in Procs : /\ CommandsLeft(c) \in 0..(Timeout + 2 * Bins + 4)
                   /\ app[c] # "idle" => CommandsLeft(c) > 0

LEMMA CaptureBounds == CaptureInv => CaptureBounded
<1> SUFFICES ASSUME CaptureInv, NEW c \in Procs
             PROVE  /\ CommandsLeft(c) \in 0..(Timeout + 2 * Bins + 4)
                    /\ app[c] # "idle" => CommandsLeft(c) > 0
  BY DEF CaptureBounded
<1>1. Timeout \in Nat /\ Bins \in Nat
  BY EyeAssumption
<1>2. /\ app[c] \in {"idle", "check", "run", "poll", "read", "bin"}
      /\ elapsed[c] \in 0..Timeout /\ bin[c] \in 0..Bins
  BY DEF CaptureInv, EyeTypeOK
<1>3. app[c] = "bin" => bin[c] < Bins
  BY DEF CaptureInv, Tracked
<1> QED  BY <1>1, <1>2, <1>3 DEF CommandsLeft

LEMMA CaptureNears ==
  ASSUME CaptureInv, NEW c \in Procs, CaptureStep(c)
  PROVE  CommandsLeft(c)' < CommandsLeft(c)
<1>1. Timeout \in Nat /\ Bins \in Nat /\ RetryTime \in Nat /\ RetryTime > 0
  BY EyeAssumption
<1>2. /\ DOMAIN app = Procs /\ DOMAIN elapsed = Procs /\ DOMAIN bin = Procs
      /\ elapsed[c] \in 0..Timeout /\ bin[c] \in 0..Bins
  BY DEF CaptureInv, EyeTypeOK
<1>3. CommandsLeft(c) \in Nat /\ (app[c] # "idle" => CommandsLeft(c) > 0)
  BY <1>1, CaptureBounds DEF CaptureBounded
<1>4. /\ app[c] = "check" => CommandsLeft(c) = Timeout + 2 * Bins + 4
      /\ app[c] = "run" => CommandsLeft(c) = Timeout + 2 * Bins + 3
      /\ app[c] = "poll" => CommandsLeft(c) = Timeout - elapsed[c] + 2 * Bins + 2
      /\ app[c] = "read" => CommandsLeft(c) = 2 * (Bins - bin[c]) + 1
      /\ app[c] = "bin" => CommandsLeft(c) = 2 * (Bins - bin[c])
      /\ app'[c] = "run" => CommandsLeft(c)' = Timeout + 2 * Bins + 3
      /\ app'[c] = "poll" => CommandsLeft(c)' = Timeout - elapsed'[c] + 2 * Bins + 2
      /\ app'[c] = "read" => CommandsLeft(c)' = 2 * (Bins - bin'[c]) + 1
      /\ app'[c] = "bin" => CommandsLeft(c)' = 2 * (Bins - bin'[c])
      /\ app'[c] = "idle" => CommandsLeft(c)' = 0
  BY DEF CommandsLeft
<1>5. ASSUME NEW r, Return(c, r), app[c] # "idle" PROVE CommandsLeft(c)' < CommandsLeft(c)
  <2>1. app'[c] = "idle"  BY <1>2, <1>5 DEF Return, Goto
  <2> QED  BY <1>3, <1>4, <1>5, <2>1
<1>6. CASE Checked(c)
  <2>1. app[c] = "check"  BY <1>6 DEF Checked, Returned
  <2>2. CASE Return(c, "error")  BY <1>5, <2>1, <2>2
  <2>3. CASE ~Return(c, "error")
    <3>1. app'[c] = "run"  BY <1>2, <1>6, <2>3 DEF Checked, Goto
    <3> QED  BY <1>1, <1>4, <2>1, <3>1
  <2> QED  BY <2>2, <2>3
<1>7. CASE Started(c)
  <2>1. app[c] = "run"  BY <1>7 DEF Started, Returned
  <2>2. CASE Return(c, "error")  BY <1>5, <2>1, <2>2
  <2>3. CASE ~Return(c, "error")
    <3>1. app'[c] = "poll" /\ elapsed' = elapsed  BY <1>2, <1>7, <2>3 DEF Started, Poll, Goto
    <3> QED  BY <1>1, <1>2, <1>4, <2>1, <3>1
  <2> QED  BY <2>2, <2>3
<1>8. ASSUME NEW s, NEW t \in Nat, Judge(c, s, t), app[c] = "poll", elapsed[c] < t, t < Timeout
      PROVE  CommandsLeft(c)' < CommandsLeft(c)
  <2>1. CASE Return(c, "error")  BY <1>5, <1>8, <2>1
  <2>2. CASE ~Return(c, "error") /\ s = "BUSY"
    <3>1. app'[c] = "poll" /\ elapsed'[c] = t  BY <1>2, <1>8, <2>2 DEF Judge
    <3> QED  BY <1>1, <1>2, <1>4, <1>8, <3>1
  <2>3. CASE ~Return(c, "error") /\ s # "BUSY"
    <3>1. app'[c] = "read" /\ bin'[c] = 0  BY <1>2, <1>8, <2>3 DEF Judge, Goto
    <3> QED  BY <1>1, <1>2, <1>4, <1>8, <3>1
  <2> QED  BY <2>1, <2>2, <2>3
<1>9. CASE Polled(c)
  <2>1. app[c] = "poll"  BY <1>9 DEF Polled, Returned
  <2>2. elapsed[c] + 1 \in Nat /\ elapsed[c] + RetryTime \in Nat
        /\ elapsed[c] < elapsed[c] + 1 /\ elapsed[c] < elapsed[c] + RetryTime
    BY <1>1, <1>2
  <2>3. \/ elapsed[c] + 1 < Timeout /\ \E s : Judge(c, s, elapsed[c] + 1)
        \/ elapsed[c] + RetryTime < Timeout /\ \E s : Judge(c, s, elapsed[c] + RetryTime)
        \/ Return(c, "error")
    BY <1>9 DEF Polled
  <2> QED  BY <1>5, <1>8, <2>1, <2>2, <2>3
<1>10. CASE ReadBin(c)
  <2>1. app[c] = "read" /\ app'[c] = "bin" /\ bin' = bin  BY <1>2, <1>10 DEF ReadBin, Goto
  <2> QED  BY <1>1, <1>2, <1>4, <2>1
<1>11. CASE BinRead(c)
  <2>1. app[c] = "bin" /\ bin[c] < Bins  BY <1>11 DEF BinRead, Returned, CaptureInv, Tracked
  <2>2. CASE Return(c, "error")  BY <1>5, <2>1, <2>2
  <2>3. CASE ~Return(c, "error")
    <3>1. app'[c] = "read" /\ bin'[c] = bin[c] + 1  BY <1>2, <1>11, <2>3 DEF BinRead, Goto
    <3> QED  BY <1>1, <1>2, <1>4, <2>1, <3>1
  <2> QED  BY <2>2, <2>3
<1>12. CASE AllRead(c)
  <2>1. app[c] # "idle" /\ Return(c, "ok")  BY <1>12 DEF AllRead
  <2> QED  BY <1>5, <2>1
<1> QED  BY <1>6, <1>7, <1>9, <1>10, <1>11, <1>12 DEF CaptureStep

LEMMA OthersLeaveCapture ==
  ASSUME CaptureInv, NEW c \in Procs, app[c] # "idle", ~CaptureStep(c), [CaptureNext]_allVars
  PROVE  CommandsLeft(c)' = CommandsLeft(c)
<1>1. ASSUME app'[c] = app[c], elapsed'[c] = elapsed[c], bin'[c] = bin[c]
      PROVE  CommandsLeft(c)' = CommandsLeft(c)
  BY <1>1 DEF CommandsLeft
<1>2. CASE UNCHANGED local
  BY <1>1, <1>2 DEF local
<1>3. ASSUME NEW d \in Procs, d # c, Start(d) \/ CaptureStep(d)
      PROVE  app'[c] = app[c] /\ elapsed'[c] = elapsed[c] /\ bin'[c] = bin[c]
  <2>1. DOMAIN app = Procs /\ DOMAIN elapsed = Procs /\ DOMAIN bin = Procs
    BY DEF CaptureInv, EyeTypeOK
  <2>2. ASSUME NEW l, Goto(d, l) PROVE app'[c] = app[c]
    BY <1>3, <2>1, <2>2 DEF Goto
  <2>3. ASSUME NEW r, Return(d, r)
        PROVE app'[c] = app[c] /\ elapsed'[c] = elapsed[c] /\ bin'[c] = bin[c]
    BY <1>3, <2>1, <2>2, <2>3 DEF Return
  <2>4. ASSUME NEW s, NEW t, Judge(d, s, t)
        PROVE app'[c] = app[c] /\ elapsed'[c] = elapsed[c] /\ bin'[c] = bin[c]
    BY <1>3, <2>1, <2>2, <2>3, <2>4 DEF Judge
  <2> QED  BY <1>3, <2>1, <2>2, <2>3, <2>4
              DEF CaptureStep, Start, Checked, Started, Poll, Polled, ReadBin, BinRead, AllRead
<1>4. CASE Engine \/ UNCHANGED allVars \/ \E d \in Procs : Handle(d) \/ Execute(d)
  BY <1>2, <1>4 DEF Engine, Handle, Execute, allVars
<1>5. ~Start(c)
  BY DEF Start
<1> QED  BY <1>1, <1>3, <1>4, <1>5 DEF CaptureNext

(* The loops of switchtec_diag_eye_start and of the reading end, whatever the   *)
(* switch answers and whoever else captures: each step of a capture takes it    *)
(* nearer to its end, and it takes Timeout + 2 * Bins + 4 of them at most.     *)
THEOREM CaptureIsBounded ==
  CaptureSpec => /\ []CaptureBounded
                 /\ [][\A c \in Procs : app[c] # "idle" =>
                         IF CaptureStep(c) THEN CommandsLeft(c)' < CommandsLeft(c)
                                           ELSE CommandsLeft(c)' = CommandsLeft(c)]_allVars
<1>1. CaptureInv /\ [CaptureNext]_allVars =>
        [\A c \in Procs : app[c] # "idle" =>
            IF CaptureStep(c) THEN CommandsLeft(c)' < CommandsLeft(c)
                              ELSE CommandsLeft(c)' = CommandsLeft(c)]_allVars
  BY CaptureNears, OthersLeaveCapture
<1> QED  BY <1>1, CaptureBounds, CaptureInvHolds, PTL DEF CaptureSpec
=============================================================================
