--------------------------- MODULE EventWait_proofs ---------------------------
(* Proofs about EventWait, for any number of waiters, any timeouts and any       *)
(* period: type correctness, how late a wait can be, and that an event that was  *)
(* handled is not reported again.                                              *)
EXTENDS EventWait, TLAPS

-----------------------------------------------------------------------------
(* Types.                                                                      *)

LEMMA InitType == Init => TypeOK
<1> SUFFICES ASSUME Init PROVE TypeOK
  OBVIOUS
<1>1. 0 \in 0..MaxTime
  BY WaitAssumption
<1> QED BY <1>1, WaitAssumption DEF Init, TypeOK

LEMMA ReturnType ==
  ASSUME TypeOK, NEW w \in Waiters, NEW r \in {-1, 0, 1}, Return(w, r)
  PROVE  /\ timeout' \in [Waiters -> Timeouts \cup {0}]
         /\ pc' \in [Waiters -> {"idle", "ctl", "wait", "blocked", "check", "time"}]
         /\ rd' \in [Waiters -> BOOLEAN] /\ start' \in [Waiters -> 0..MaxTime]
         /\ until' \in [Waiters -> Int] /\ ret' \in [Waiters -> {-1, 0, 1}]
         /\ since' \in [Waiters -> BOOLEAN]
<1>1. 0 \in 0..MaxTime
  BY WaitAssumption
<1> QED BY <1>1 DEF TypeOK, Return, Goto

LEMMA NextType == TypeOK /\ [Next]_vars => TypeOK'
<1> SUFFICES ASSUME TypeOK, [Next]_vars PROVE TypeOK'
  OBVIOUS
<1>1. ASSUME NEW w \in Waiters, NEW t \in Timeouts, Begin(w, t) PROVE TypeOK'
  BY <1>1 DEF Begin, Goto, TypeOK
<1>2. ASSUME NEW w \in Waiters, Cleared(w) PROVE TypeOK'
  <2>1. pc' \in [Waiters -> {"idle", "ctl", "wait", "blocked", "check", "time"}]
    BY <1>2 DEF Cleared, Goto, TypeOK
  <2>2. since' \in [Waiters -> BOOLEAN] /\ occ' \in BOOLEAN /\ en' \in BOOLEAN
    BY <1>2 DEF Cleared, TypeOK
  <2>3. start' \in [Waiters -> 0..MaxTime]
    BY <1>2 DEF Cleared, TypeOK
  <2> QED BY <1>2, <2>1, <2>2, <2>3 DEF Cleared, TypeOK
<1>3. ASSUME NEW w \in Waiters, Poll(w) PROVE TypeOK'
  <2>1. until' \in [Waiters -> Int]
    <3>1. now + (now - start[w] + timeout[w]) \in Int
      <4>1. timeout[w] \in Int
        <5>1. timeout[w] \in Timeouts \cup {0}
          BY DEF TypeOK
        <5>2. Timeouts \cup {0} \subseteq Int
          BY WaitAssumption
        <5> QED BY <5>1, <5>2
      <4>2. now \in Int /\ start[w] \in Int
        BY DEF TypeOK
      <4> QED BY <4>1, <4>2
    <3> QED BY <1>3, <3>1 DEF Poll, TypeOK, Forever
  <2>2. pc' \in [Waiters -> {"idle", "ctl", "wait", "blocked", "check", "time"}]
    BY <1>3 DEF Poll, Goto, TypeOK
  <2> QED BY <1>3, <2>1, <2>2 DEF Poll, TypeOK
<1>4. ASSUME NEW w \in Waiters, Wake(w) PROVE TypeOK'
  <2>1. pc' \in [Waiters -> {"idle", "ctl", "wait", "blocked", "check", "time"}]
    BY <1>4 DEF Wake, Goto, TypeOK
  <2> QED BY <1>4, <2>1 DEF Wake, local, TypeOK
<1>5. ASSUME NEW w \in Waiters, Check(w) PROVE TypeOK'
  <2>1. seen' \in [Waiters -> Nat]
    BY <1>5 DEF Check, TypeOK
  <2>2. CASE occ
    BY <1>5, <2>1, <2>2, ReturnType DEF Check, TypeOK
  <2>3. CASE ~occ
    BY <1>5, <2>1, <2>3 DEF Check, Goto, local, TypeOK
  <2> QED BY <2>2, <2>3
<1>6. ASSUME NEW w \in Waiters, Time(w) PROVE TypeOK'
  <2>1. seen' \in [Waiters -> Nat]
    BY <1>6 DEF Time, TypeOK
  <2>2. CASE timeout[w] > 0 /\ now - start[w] >= timeout[w]
    BY <1>6, <2>1, <2>2, ReturnType DEF Time, TypeOK
  <2>3. CASE ~(timeout[w] > 0 /\ now - start[w] >= timeout[w])
    <3>1. SleepEnd \in Int
      BY WaitAssumption DEF SleepEnd, TypeOK
    <3>2. until' \in [Waiters -> Int]
      BY <1>6, <2>3, <3>1 DEF Time, TypeOK
    <3>3. pc' \in [Waiters -> {"idle", "ctl", "wait", "blocked", "check", "time"}]
      BY <1>6, <2>3 DEF Time, Goto, TypeOK
    <3> QED BY <1>6, <2>1, <2>3, <3>2, <3>3 DEF Time, TypeOK
  <2> QED BY <2>2, <2>3
<1>7. ASSUME NEW w \in Waiters, Fail(w) PROVE TypeOK'
  BY <1>7, ReturnType DEF Fail, TypeOK
<1>8. CASE Occur \/ Irq \/ OtherEvent
  <2>1. since' \in [Waiters -> BOOLEAN]
    <3>1. \A w \in Waiters : (since[w] \/ pc[w] # "idle") \in BOOLEAN
      OBVIOUS
    <3>2. CASE Occur
      BY <3>1, <3>2 DEF Occur
    <3> QED BY <1>8, <3>2 DEF Irq, OtherEvent, TypeOK
  <2>2. cnt' \in Nat
    BY <1>8 DEF Occur, Irq, OtherEvent, TypeOK
  <2>3. occ' \in BOOLEAN /\ en' \in BOOLEAN
    BY <1>8 DEF Occur, Irq, OtherEvent, TypeOK
  <2> QED BY <1>8, <2>1, <2>2, <2>3 DEF Occur, Irq, OtherEvent, waiter, TypeOK
<1>9. CASE Tick
  <2>1. now' \in 0..MaxTime
    BY <1>9, WaitAssumption DEF Tick, TypeOK
  <2> QED BY <1>9, <2>1 DEF Tick, waiter, TypeOK
<1>10. CASE UNCHANGED vars
  BY <1>10 DEF vars, waiter, TypeOK
<1> QED BY <1>1, <1>2, <1>3, <1>4, <1>5, <1>6, <1>7, <1>8, <1>9, <1>10 DEF Next, WaiterStep

(* Type correctness, for any number of waiters, timeouts, events and calls.     *)
THEOREM TypeHolds == Spec => []TypeOK
BY InitType, NextType, PTL DEF Spec

-----------------------------------------------------------------------------
(* The clock, and what is in the header.                                       *)

(* The integers of a waiter.                                                   *)
LEMMA Numbers ==
  ASSUME TypeOK, NEW w \in Waiters
  PROVE  /\ now \in Int /\ start[w] \in Int /\ timeout[w] \in Int /\ until[w] \in Int
         /\ Period \in Int /\ Period > 0 /\ now >= 0
<1>1. timeout[w] \in Timeouts \cup {0}
  BY DEF TypeOK
<1>2. Timeouts \cup {0} \subseteq Int /\ Period \in Nat \ {0} /\ MaxTime \in Nat
  BY WaitAssumption
<1> QED BY <1>1, <1>2 DEF TypeOK

(* A waiter that does nothing, and whose event nobody notes, stays as it is.     *)
LEMMA StaysFresh ==
  ASSUME NEW v \in Waiters, Fresh(v),
         pc'[v] = pc[v], rd'[v] = rd[v], since[v] => since'[v], occ' => occ
  PROVE  Fresh(v)'
BY DEF Fresh

LEMMA StaysPunctual ==
  ASSUME NEW v \in Waiters, Punctual(v), backend' = backend, now' = now, pc'[v] = pc[v],
         timeout'[v] = timeout[v], start'[v] = start[v], until'[v] = until[v]
  PROVE  Punctual(v)'
BY DEF Punctual, Waits, Waited, Late

(* A call that has returned.                                                   *)
LEMMA ReturnKeeps ==
  ASSUME TypeOK, NEW w \in Waiters, NEW r, Return(w, r), backend' = backend, now' = now, occ' = occ,
         NEW v \in Waiters, Fresh(v), Punctual(v)
  PROVE  Fresh(v)' /\ Punctual(v)'
<1>1. CASE v = w
  <2>1. pc'[v] = "idle" /\ start'[v] = 0
    BY <1>1 DEF Return, Goto, TypeOK
  <2>2. now >= 0
    BY Numbers
  <2> QED BY <2>1, <2>2 DEF Fresh, Punctual, Waits
<1>2. CASE v # w
  BY <1>2, StaysFresh, StaysPunctual DEF Return, Goto, TypeOK
<1> QED BY <1>1, <1>2

(* The steps of a waiter.                                                      *)
LEMMA BeginKeeps ==
  ASSUME TypeOK, NEW w \in Waiters, NEW t \in Timeouts, Begin(w, t),
         NEW v \in Waiters, Fresh(v), Punctual(v)
  PROVE  Fresh(v)' /\ Punctual(v)'
<1>1. CASE v = w
  <2>1. pc'[v] = "ctl" /\ rd'[v] = occ /\ occ' = occ
    BY <1>1 DEF Begin, Goto, TypeOK
  <2>2. start' = start /\ now' = now
    BY DEF Begin
  <2> QED BY <2>1, <2>2 DEF Fresh, Punctual, Waits
<1>2. CASE v # w
  BY <1>2, StaysFresh, StaysPunctual DEF Begin, Goto, TypeOK
<1> QED BY <1>1, <1>2

LEMMA ClearedKeeps ==
  ASSUME TypeOK, NEW w \in Waiters, Cleared(w), NEW v \in Waiters, Fresh(v), Punctual(v)
  PROVE  Fresh(v)' /\ Punctual(v)'
<1>1. CASE v = w
  <2>1. /\ pc[v] = "ctl" /\ pc'[v] = (IF backend = "poll" THEN "wait" ELSE "check")
        /\ start'[v] = now /\ now' = now /\ timeout' = timeout /\ backend' = backend
    BY <1>1 DEF Cleared, Goto, TypeOK
  <2>2. occ' = (occ /\ ~rd[v]) /\ since'[v] = (since[v] /\ ~rd[v])
    BY <1>1 DEF Cleared, TypeOK
  <2>3. Fresh(v)'
    BY <2>1, <2>2 DEF Fresh
  <2>4. Punctual(v)'
    BY <2>1, Numbers DEF Punctual, Waits, Waited, Late
  <2> QED BY <2>3, <2>4
<1>2. CASE v # w
  <2>1. /\ pc'[v] = pc[v] /\ rd' = rd /\ since'[v] = since[v] /\ start'[v] = start[v]
        /\ UNCHANGED <<backend, timeout, until, now>> /\ (occ' => occ)
    BY <1>2 DEF Cleared, Goto, TypeOK
  <2> QED BY <2>1, StaysFresh, StaysPunctual
<1> QED BY <1>1, <1>2

LEMMA PollKeeps ==
  ASSUME TypeOK, NEW w \in Waiters, Poll(w), NEW v \in Waiters, Fresh(v), Punctual(v)
  PROVE  Fresh(v)' /\ Punctual(v)'
<1>1. CASE v = w
  <2>1. /\ pc[v] = "wait" /\ pc'[v] = "blocked"
        /\ UNCHANGED <<backend, timeout, start, now, occ, since>>
    BY <1>1 DEF Poll, Goto, TypeOK
  <2>2. timeout[v] > 0 => until'[v] = now + (now - start[v] + timeout[v])
    BY <1>1 DEF Poll, TypeOK
  <2>3. Punctual(v)'
    BY <2>1, <2>2, Numbers DEF Punctual, Waits, Waited, Late, Forever
  <2> QED BY <2>1, <2>3 DEF Fresh
<1>2. CASE v # w
  BY <1>2, StaysFresh, StaysPunctual DEF Poll, Goto, TypeOK
<1> QED BY <1>1, <1>2

LEMMA WakeKeeps ==
  ASSUME TypeOK, NEW w \in Waiters, Wake(w), NEW v \in Waiters, Fresh(v), Punctual(v)
  PROVE  Fresh(v)' /\ Punctual(v)'
<1>1. UNCHANGED <<backend, timeout, start, until, now, occ, since, rd>>
  BY DEF Wake, local
<1>2. CASE v = w
  <2>1. pc[v] = "blocked" /\ pc'[v] \in {"check", "time"}
    BY <1>2 DEF Wake, Goto, TypeOK
  <2> QED BY <1>1, <2>1 DEF Fresh, Punctual, Waits, Waited, Late
<1>3. CASE v # w
  <2>1. pc'[v] = pc[v]
    BY <1>3 DEF Wake, Goto, TypeOK
  <2> QED BY <1>1, <2>1, StaysFresh, StaysPunctual
<1> QED BY <1>2, <1>3

LEMMA CheckKeeps ==
  ASSUME TypeOK, NEW w \in Waiters, Check(w), NEW v \in Waiters, Fresh(v), Punctual(v)
  PROVE  Fresh(v)' /\ Punctual(v)'
<1>1. CASE occ
  <2>1. Return(w, 1) /\ backend' = backend /\ now' = now /\ occ' = occ
    BY <1>1 DEF Check
  <2> QED BY <2>1, ReturnKeeps
<1>2. CASE ~occ
  <2>1. /\ UNCHANGED <<backend, timeout, start, until, now, occ, since, rd>>
        /\ pc[w] = "check" /\ pc' = [pc EXCEPT ![w] = "time"]
    BY <1>2 DEF Check, Goto, local
  <2>2. CASE v = w
    <3>1. pc'[v] = "time"
      BY <2>1, <2>2 DEF TypeOK
    <3> QED BY <2>1, <2>2, <3>1 DEF Fresh, Punctual, Waits, Waited, Late
  <2>3. CASE v # w
    BY <2>1, <2>3, StaysFresh, StaysPunctual DEF TypeOK
  <2> QED BY <2>2, <2>3
<1> QED BY <1>1, <1>2

LEMMA TimeKeeps ==
  ASSUME TypeOK, NEW w \in Waiters, Time(w), NEW v \in Waiters, Fresh(v), Punctual(v)
  PROVE  Fresh(v)' /\ Punctual(v)'
<1>1. CASE timeout[w] > 0 /\ now - start[w] >= timeout[w]
  <2>1. Return(w, 0) /\ backend' = backend /\ now' = now /\ occ' = occ
    BY <1>1 DEF Time
  <2> QED BY <2>1, ReturnKeeps
<1>2. CASE ~(timeout[w] > 0 /\ now - start[w] >= timeout[w])
  <2>1. /\ UNCHANGED <<backend, timeout, start, now, occ, since, rd>> /\ pc[w] = "time"
        /\ \/ backend = "poll" /\ pc' = [pc EXCEPT ![w] = "wait"] /\ until' = until
           \/ backend # "poll" /\ pc' = [pc EXCEPT ![w] = "blocked"]
              /\ until' = [until EXCEPT ![w] = SleepEnd]
    BY <1>2 DEF Time, Goto
  <2>2. CASE v = w
    <3>1. Fresh(v)'
      BY <2>1, <2>2 DEF Fresh, TypeOK
    <3>2. Punctual(v)'
      <4>1. CASE backend = "poll"
        <5>1. pc'[v] = "wait" /\ until'[v] = until[v]
          BY <2>1, <2>2, <4>1 DEF TypeOK
        <5> QED BY <1>2, <2>1, <2>2, <4>1, <5>1, Numbers DEF Punctual, Waits, Waited, Late
      <4>2. CASE backend # "poll"
        <5>1. pc'[v] = "blocked" /\ until'[v] = SleepEnd
          BY <2>1, <2>2, <4>2 DEF TypeOK
        <5>2. SleepEnd = now + Period \/ SleepEnd = now
          BY DEF SleepEnd
        <5>3. backend = "gas"
          <6>1. backend \in Backends /\ Backends \subseteq {"poll", "gas"}
            BY WaitAssumption DEF TypeOK
          <6> QED BY <4>2, <6>1
        <5> QED BY <1>2, <2>1, <2>2, <5>1, <5>2, <5>3, Numbers
                DEF Punctual, Waits, Waited, Late, Forever
      <4> QED BY <4>1, <4>2
    <3> QED BY <3>1, <3>2
  <2>3. CASE v # w
    <3>1. pc'[v] = pc[v] /\ until'[v] = until[v]
      BY <2>1, <2>3 DEF TypeOK
    <3> QED BY <2>1, <3>1, StaysFresh, StaysPunctual
  <2> QED BY <2>2, <2>3
<1> QED BY <1>1, <1>2

LEMMA FailKeeps ==
  ASSUME TypeOK, NEW w \in Waiters, Fail(w), NEW v \in Waiters, Fresh(v), Punctual(v)
  PROVE  Fresh(v)' /\ Punctual(v)'
BY ReturnKeeps DEF Fail

\* The switch and the clock.
LEMMA OccurKeeps ==
  ASSUME TypeOK, Occur, NEW v \in Waiters, Fresh(v), Punctual(v)
  PROVE  Fresh(v)' /\ Punctual(v)'
<1>1. pc' = pc /\ since'[v] = (since[v] \/ pc[v] # "idle")
      /\ UNCHANGED <<backend, timeout, start, until, now, rd>>
  BY DEF Occur, waiter
<1> QED BY <1>1, StaysPunctual DEF Fresh

LEMMA TickKeeps ==
  ASSUME TypeOK, Tick, NEW v \in Waiters, Fresh(v), Punctual(v)
  PROVE  Fresh(v)' /\ Punctual(v)'
<1>1. UNCHANGED <<backend, pc, timeout, start, until, rd, occ, since>> /\ now' = now + 1
  BY DEF Tick, waiter
<1>2. Waits(v) => pc[v] = "blocked" /\ ~Due(v)
  BY DEF Tick, Waits
<1>3. Punctual(v)'
  BY <1>1, <1>2, Numbers DEF Punctual, Waits, Waited, Late, Due, Forever
<1> QED BY <1>1, <1>3 DEF Fresh

(* The invariant, for any number of waiters, any timeouts and any period.       *)
THEOREM InvHolds == Spec => []Inv
<1>1. Init => Inv
  <2> SUFFICES ASSUME Init PROVE Inv
    OBVIOUS
  <2>1. ASSUME NEW w \in Waiters PROVE Fresh(w) /\ Punctual(w)
    BY DEF Init, Fresh, Punctual, Waits
  <2> QED BY <2>1, InitType DEF Inv
<1>2. Inv /\ [Next]_vars => Inv'
  <2> SUFFICES ASSUME Inv, [Next]_vars, NEW v \in Waiters PROVE Fresh(v)' /\ Punctual(v)'
    BY NextType DEF Inv
  <2>1. TypeOK /\ Fresh(v) /\ Punctual(v)
    BY DEF Inv
  <2>2. CASE Irq \/ OtherEvent \/ UNCHANGED vars
    BY <2>1, <2>2, StaysFresh, StaysPunctual DEF Irq, OtherEvent, vars, waiter
  <2> QED BY <2>1, <2>2, BeginKeeps, ClearedKeeps, PollKeeps, WakeKeeps, CheckKeeps, TimeKeeps,
             FailKeeps, OccurKeeps, TickKeeps DEF Next, WaiterStep
<1> QED BY <1>1, <1>2, PTL DEF Spec

(* Polling is late by less than a period, a wait on poll() by less than two     *)
(* timeouts.                                                                   *)
THEOREM TimeoutBoundedHolds == Spec => []TimeoutBounded
<1>1. Inv => TimeoutBounded
  BY DEF Inv, Punctual, Late, TimeoutBounded
<1> QED BY <1>1, InvHolds, PTL

(* An event that was there when the call began is not reported by it, however   *)
(* many wait for it.                                                           *)
THEOREM OneMeansOccurredHolds == Spec => OneMeansOccurred
<1> DEFINE A == \A w \in Waiters : (pc[w] = "check" /\ pc'[w] = "idle" /\ ret'[w] = 1) => since[w]
<1>1. Inv /\ [Next]_vars => [A]_vars
  <2> SUFFICES ASSUME Inv, Next, NEW w \in Waiters, pc[w] = "check", pc'[w] = "idle", ret'[w] = 1
               PROVE  since[w]
    BY DEF A
  <2>1. Fresh(w) /\ TypeOK
    BY DEF Inv
  <2>2. CASE occ
    BY <2>1, <2>2 DEF Fresh
  <2>3. CASE ~occ
    <3>1. ASSUME NEW v \in Waiters, NEW r \in {-1, 0, 1}, Return(v, r), v = w => r # 1
          PROVE  FALSE
      BY <2>1, <3>1 DEF Return, Goto, TypeOK
    <3>2. ASSUME NEW v \in Waiters, NEW p \in {"ctl", "wait", "blocked", "check", "time"}, Goto(v, p)
          PROVE  FALSE
      BY <2>1, <3>2 DEF Goto, TypeOK
    <3>3. ASSUME pc' = pc PROVE FALSE
      BY <3>3
    <3>4. ASSUME NEW v \in Waiters, WaiterStep(v) PROVE FALSE
      BY <2>3, <3>1, <3>2, <3>4 DEF WaiterStep, Cleared, Poll, Wake, Check, Time
    <3>5. ASSUME NEW v \in Waiters, Fail(v) PROVE FALSE
      BY <3>1, <3>5 DEF Fail
    <3>6. ASSUME NEW v \in Waiters, NEW t \in Timeouts, Begin(v, t) PROVE FALSE
      BY <3>2, <3>6 DEF Begin
    <3>7. ASSUME Occur \/ Irq \/ OtherEvent \/ Tick PROVE FALSE
      BY <3>3, <3>7 DEF Occur, Irq, OtherEvent, Tick, waiter
    <3> QED BY <3>4, <3>5, <3>6, <3>7 DEF Next
  <2> QED BY <2>2, <2>3
<1> QED BY <1>1, InvHolds, PTL DEF Spec, OneMeansOccurred, A
=============================================================================
