------------------------------ MODULE EventWait ------------------------------
(* Waiting for an event: switchtec_event_wait_for and switchtec_event_check    *)
(* (lib/events.c) over linux_event_wait (lib/platform/linux.c), and            *)
(* gasop_event_wait_for (lib/platform/gasops.c), which polls.  Any number of   *)
(* waiters, each a process with a handle of its own, wait for the same event,  *)
(* all over the driver or all over the GAS, each call with its own timeout.    *)
(* The kernel driver is external: its interrupt handler disables the event     *)
(* that occurred and counts, and poll() reports a count that differs from the  *)
(* one at the last summary of this handle.  Steps that do not block take no    *)
(* time; a blocked process is woken when it is due.                            *)
EXTENDS Integers

CONSTANTS Waiters,
          Backends,   \* "poll" (chardev), "gas" (I2C, UART)
          Timeouts,   \* the values of timeout_ms, in ticks
          Period,     \* usleep(5000), in ticks
          MaxTime,    \* bound on the clock
          MaxEvents,  \* bound on the events that occur
          MaxCalls    \* bound on the calls of one waiter

ASSUME WaitAssumption ==
  /\ Backends \subseteq {"poll", "gas"} /\ Timeouts \subseteq Int /\ Period \in Nat \ {0}
  /\ MaxTime \in Nat /\ MaxEvents \in Nat /\ MaxCalls \in Nat

Forever == -1

VARIABLES backend, \* how the handles reach the switch
          timeout, \* per waiter: the timeout of its call
          pc,      \* per waiter: idle, ctl, wait, blocked, check, time
          rd,      \* per waiter: bit 0 of the header, as event_ctl read it
          start,   \* per waiter: when it started to wait
          until,   \* per waiter: when poll() or usleep() ends, or Forever
          ret,     \* per waiter: the result of the last call
          seen,    \* the driver, per handle: the count at the last summary
          cnt,     \* the driver: events counted
          occ,     \* the header of the event: SWITCHTEC_EVENT_OCCURRED
          en,      \* the header of the event: SWITCHTEC_EVENT_EN_IRQ
          now,     \* the clock
          since,   \* per waiter: the event occurred since its call cleared it (history)
          calls    \* per waiter: calls (history)

local == <<timeout, rd, start, until, since>>
waiter == <<backend, pc, timeout, rd, start, until, ret, calls>>
vars == <<waiter, seen, cnt, occ, en, now, since>>

Init ==
  /\ backend \in Backends /\ timeout = [w \in Waiters |-> 0]
  /\ pc = [w \in Waiters |-> "idle"] /\ rd = [w \in Waiters |-> FALSE]
  /\ start = timeout /\ until = timeout /\ ret = timeout /\ seen = timeout
  /\ calls = timeout /\ cnt = 0 /\ occ \in BOOLEAN /\ en \in BOOLEAN /\ now = 0
  /\ since = rd

Goto(w, l) == pc' = [pc EXCEPT ![w] = l]

\* The call returns r; its local variables are no more.
Return(w, r) ==
  /\ Goto(w, "idle") /\ ret' = [ret EXCEPT ![w] = r]
  /\ timeout' = [timeout EXCEPT ![w] = 0] /\ rd' = [rd EXCEPT ![w] = FALSE]
  /\ start' = [start EXCEPT ![w] = 0] /\ until' = [until EXCEPT ![w] = 0]
  /\ since' = [since EXCEPT ![w] = FALSE]

-----------------------------------------------------------------------------
\* switchtec_event_ctl(CLEAR | EN_POLL): the header is read, and ...
Begin(w, t) ==
  /\ pc[w] = "idle" /\ calls[w] < MaxCalls
  /\ timeout' = [timeout EXCEPT ![w] = t]
  /\ calls' = [calls EXCEPT ![w] = @ + 1]
  /\ rd' = [rd EXCEPT ![w] = occ]
  /\ Goto(w, "ctl")
  /\ UNCHANGED <<backend, start, until, ret, seen, cnt, occ, en, now, since>>

\* Mutants of Cleared: CLEAR is not passed; EN_POLL is not passed.
ClearedKeep(w) ==
  /\ pc[w] = "ctl" /\ en' = TRUE /\ occ' = occ
  /\ since' = [since EXCEPT ![w] = @ /\ ~rd[w]]
  /\ start' = [start EXCEPT ![w] = now]
  /\ Goto(w, IF backend = "poll" THEN "wait" ELSE "check")
  /\ UNCHANGED <<backend, timeout, rd, until, ret, calls, seen, cnt, now>>
ClearedMasked(w) ==
  /\ pc[w] = "ctl" /\ en' = en /\ occ' = (occ /\ ~rd[w])
  /\ since' = [since EXCEPT ![w] = @ /\ ~rd[w]]
  /\ start' = [start EXCEPT ![w] = now]
  /\ Goto(w, IF backend = "poll" THEN "wait" ELSE "check")
  /\ UNCHANGED <<backend, timeout, rd, until, ret, calls, seen, cnt, now>>

\* ... written: a bit 0 that was read as 1 clears the event.
Cleared(w) ==
  /\ pc[w] = "ctl"
  /\ occ' = (occ /\ ~rd[w]) /\ en' = TRUE
  /\ since' = [since EXCEPT ![w] = @ /\ ~rd[w]]
  /\ start' = [start EXCEPT ![w] = now]
  /\ Goto(w, IF backend = "poll" THEN "wait" ELSE "check")
  /\ UNCHANGED <<backend, timeout, rd, until, ret, calls, seen, cnt, now>>

\* Mutant of Poll: a spurious wake-up forgets the timeout.
PollForgets(w) ==
  /\ pc[w] = "wait"
  /\ until' = [until EXCEPT ![w] = IF timeout[w] > 0 /\ now = start[w]
                                   THEN now + timeout[w] ELSE Forever]
  /\ Goto(w, "blocked")
  /\ UNCHANGED <<backend, timeout, rd, start, ret, calls, seen, cnt, occ, en, now, since>>

\* poll() with the timeout events.c computes.
Poll(w) ==
  /\ pc[w] = "wait"
  /\ until' = [until EXCEPT ![w] = IF timeout[w] > 0 THEN now + (now - start[w] + timeout[w])
                                   ELSE Forever]
  /\ Goto(w, "blocked")
  /\ UNCHANGED <<backend, timeout, rd, start, ret, calls, seen, cnt, occ, en, now, since>>

Due(w) == until[w] # Forever /\ now >= until[w]
Ready(w) == backend = "poll" /\ cnt # seen[w]           \* POLLPRI

Wake(w) ==
  /\ pc[w] = "blocked"
  /\ \/ Ready(w) /\ Goto(w, "check")
     \/ Due(w) /\ Goto(w, IF backend = "poll" THEN "time" ELSE "check")
  /\ UNCHANGED <<backend, local, ret, calls, seen, cnt, occ, en, now>>

\* switchtec_event_check: 1 if the event is in the summary.  The driver notes
\* the count of the summary for poll().
Check(w) ==
  /\ pc[w] = "check"
  /\ seen' = IF backend = "poll" THEN [seen EXCEPT ![w] = cnt] ELSE seen
  /\ IF occ THEN Return(w, 1) ELSE Goto(w, "time") /\ UNCHANGED <<ret, local>>
  /\ UNCHANGED <<backend, calls, cnt, occ, en, now>>

\* When usleep() ends; at the bound of the clock it ends at once.
SleepEnd == IF now + Period <= MaxTime THEN now + Period ELSE now

\* The clock is read: return 0 (after another summary), poll again or sleep.
Time(w) ==
  /\ pc[w] = "time"
  /\ IF timeout[w] > 0 /\ now - start[w] >= timeout[w]
     THEN /\ Return(w, 0)
          /\ seen' = IF backend = "poll" THEN [seen EXCEPT ![w] = cnt] ELSE seen
     ELSE /\ UNCHANGED <<timeout, rd, start, ret, seen, since>>
          /\ IF backend = "poll"
             THEN Goto(w, "wait") /\ until' = until
             ELSE Goto(w, "blocked") /\ until' = [until EXCEPT ![w] = SleepEnd]
  /\ UNCHANGED <<backend, calls, cnt, occ, en, now>>

\* event_ctl fails; poll() fails, or reports POLLERR; a summary fails.
Fail(w) ==
  /\ pc[w] \in {"ctl", "blocked", "check", "time"} /\ Return(w, -1)
  /\ UNCHANGED <<backend, calls, seen, cnt, occ, en, now>>

-----------------------------------------------------------------------------
(* The switch, the kernel driver and the clock.                                *)
Happened == cnt + (IF occ THEN 1 ELSE 0)

Occur ==
  /\ occ \/ Happened < MaxEvents
  /\ occ' = TRUE
  /\ since' = [w \in Waiters |-> since[w] \/ pc[w] # "idle"]
  /\ UNCHANGED <<waiter, seen, cnt, en, now>>

Irq ==
  /\ occ /\ en /\ en' = FALSE /\ cnt' = cnt + 1
  /\ UNCHANGED <<waiter, seen, occ, now, since>>

\* Another event of the switch that someone enabled.
OtherEvent ==
  /\ Happened < MaxEvents /\ cnt' = cnt + 1
  /\ UNCHANGED <<waiter, seen, occ, en, now, since>>

Tick ==
  /\ now < MaxTime
  /\ \A w \in Waiters : pc[w] = "idle" \/ (pc[w] = "blocked" /\ ~Due(w) /\ ~Ready(w))
  /\ now' = now + 1
  /\ UNCHANGED <<waiter, seen, cnt, occ, en, since>>

WaiterStep(w) == Cleared(w) \/ Poll(w) \/ Wake(w) \/ Check(w) \/ Time(w)

Next ==
  \/ \E w \in Waiters : WaiterStep(w) \/ Fail(w) \/ \E t \in Timeouts : Begin(w, t)
  \/ Occur \/ Irq \/ OtherEvent \/ Tick

Spec == Init /\ [][Next]_vars

\* Processes are scheduled, interrupts delivered, and time passes.
FairSpec == /\ Spec /\ WF_vars(Irq) /\ WF_vars(Tick)
            /\ \A w \in Waiters : WF_vars(WaiterStep(w))

-----------------------------------------------------------------------------
TypeOK ==
  /\ backend \in Backends /\ timeout \in [Waiters -> Timeouts \cup {0}]
  /\ pc \in [Waiters -> {"idle", "ctl", "wait", "blocked", "check", "time"}]
  /\ rd \in [Waiters -> BOOLEAN] /\ start \in [Waiters -> 0..MaxTime]
  /\ until \in [Waiters -> Int] /\ ret \in [Waiters -> {-1, 0, 1}]
  /\ seen \in [Waiters -> Nat] /\ cnt \in Nat /\ occ \in BOOLEAN /\ en \in BOOLEAN
  /\ now \in 0..MaxTime /\ since \in [Waiters -> BOOLEAN]

(* A call returns 1 only for an event that occurred since the call cleared the *)
(* header: an event already handled is not reported again, whatever the other  *)
(* waiters clear in between.                                                   *)
OneMeansOccurred ==
  [][\A w \in Waiters : (pc[w] = "check" /\ pc'[w] = "idle" /\ ret'[w] = 1) => since[w]]_vars

\* How long waiter w has been waiting, with a timeout.
Waits(w) == timeout[w] > 0 /\ pc[w] \notin {"idle", "ctl"}
Waited(w) == now - start[w]

(* events.c:370: "Timeout of this many milliseconds".                          *)
TimeoutHonoured == \A w \in Waiters : Waits(w) => Waited(w) <= timeout[w]

(* What the loops do keep: polling is late by less than a period, and a wait   *)
(* on poll() by less than two timeouts.                                        *)
TimeoutBounded ==
  \A w \in Waiters :
    Waits(w) => Waited(w) < timeout[w] + (IF backend = "gas" THEN Period ELSE 2 * timeout[w])

(* The invariant that gives these two: what is in the header, and not cleared   *)
(* by this call, occurred since; poll() and usleep() begin before the timeout,   *)
(* and the clock does not pass their end.                                       *)
Fresh(w) ==
  /\ pc[w] \notin {"idle", "ctl"} /\ occ => since[w]
  /\ pc[w] = "ctl" /\ occ /\ ~rd[w] => since[w]
Late(w) == timeout[w] + (IF backend = "gas" THEN Period ELSE 2 * timeout[w])
Punctual(w) ==
  /\ start[w] <= now
  /\ Waits(w) =>
       /\ pc[w] = "wait" => backend # "gas" /\ Waited(w) < timeout[w]
       /\ pc[w] = "blocked" => /\ now <= until[w] /\ until[w] # Forever
                               /\ until[w] - start[w] < Late(w)
       /\ Waited(w) < Late(w)
Inv == TypeOK /\ \A w \in Waiters : Fresh(w) /\ Punctual(w)

(* No lost wake-up: an event ends the wait of every process that waits for it, *)
(* wherever between two of its instructions it occurs, unless another call     *)
(* clears it.                                                                  *)
OccurredEndsWait ==
  \A w \in Waiters : (occ /\ pc[w] \notin {"idle", "ctl"}) ~> (pc[w] = "idle" \/ ~occ)
=============================================================================
