------------------------------ MODULE LinuxCmd ------------------------------
(* MRPC commands through the character device: linux_cmd, submit_cmd, read_resp *)
(* and linux_reopen_fd (lib/platform/linux.c).  Any number of processes, each   *)
(* with a handle of its own, and each with one descriptor in it.  The kernel    *)
(* driver is external: a descriptor holds one command and then its answer; a    *)
(* write to one that is not idle fails with EBADE; a command that was cut off   *)
(* from the switch leaves the descriptor in a state only a new open ends.       *)
(* The number of calls is not bounded: what a descriptor holds is known to be   *)
(* of the current call or of an earlier one.                                    *)
EXTENDS Naturals

CONSTANTS Procs,    \* processes that use the switch
          Cmds,     \* the commands they send
          NoCmd,    \* none of them
          Faults    \* what may go wrong in one behaviour, for each process

\* signal: a read is interrupted by a signal (EINTR); refuse: the switch answers
\* with an error; io: the driver cannot finish a command (ENXIO, EIO); nofd: the
\* node cannot be opened again; errno: the program leaves EBADE in errno; absent:
\* the process does not use the switch at all.
ASSUME LinuxAssumption ==
  /\ Faults \subseteq [Procs -> SUBSET {"signal", "refuse", "io", "nofd", "errno", "absent"}]
  /\ NoCmd \notin Cmds

VARIABLES faults,   \* what goes wrong in this behaviour
          pc,       \* where linux_cmd is; idle when it is not running
          req,      \* the command of the call
          errno,    \* EBADE, or other
          ret,      \* the result of the last call
          fd,       \* the driver: the state of the descriptor
          what,     \* the driver: the command in the descriptor
          own,      \* what the descriptor holds, or held last, is of the current call (history)
          runs      \* how often the command of the current call ran, up to 2 (history)

vars == <<faults, pc, req, errno, ret, fd, what, own, runs>>

Answers == {"done", "refused"}             \* the switch has answered
FdStates == {"idle", "queued", "aborted", "ioerr"} \cup Answers

Init ==
  /\ faults \in Faults
  /\ pc = [c \in Procs |-> "idle"] /\ req = [c \in Procs |-> NoCmd]
  /\ errno = [c \in Procs |-> "other"] /\ ret = [c \in Procs |-> "none"]
  /\ fd = [c \in Procs |-> "idle"] /\ what = [c \in Procs |-> NoCmd]
  /\ own = [c \in Procs |-> FALSE] /\ runs = [c \in Procs |-> 0]

\* switchtec_cmd on this device: linux_cmd with command k.
Call(c, k) ==
  /\ pc[c] = "idle" /\ "absent" \notin faults[c]
  /\ pc' = [pc EXCEPT ![c] = "submit"] /\ req' = [req EXCEPT ![c] = k]
  /\ \E e \in {errno[c]} \cup (IF "errno" \in faults[c] THEN {"EBADE"} ELSE {}) :
       errno' = [errno EXCEPT ![c] = e]
  /\ ret' = [ret EXCEPT ![c] = "none"]
  /\ own' = [own EXCEPT ![c] = FALSE] /\ runs' = [runs EXCEPT ![c] = 0]
  /\ UNCHANGED <<faults, fd, what>>

\* Mutant of Submit: no test for EBADE, the answer is read whatever it answers.
SubmitOnly(c) ==
  /\ pc[c] = "submit" /\ pc' = [pc EXCEPT ![c] = "read"]
  /\ IF fd[c] = "idle"
     THEN /\ fd' = [fd EXCEPT ![c] = "queued"] /\ what' = [what EXCEPT ![c] = req[c]]
          /\ own' = [own EXCEPT ![c] = TRUE]
     ELSE UNCHANGED <<fd, what, own>>
  /\ UNCHANGED <<faults, req, errno, ret, runs>>

\* submit_cmd, and the test for EBADE, which looks at errno even when the
\* write has succeeded.
Submit(c) ==
  /\ pc[c] = "submit"
  /\ \/ /\ fd[c] = "idle"
        /\ fd' = [fd EXCEPT ![c] = "queued"] /\ what' = [what EXCEPT ![c] = req[c]]
        /\ own' = [own EXCEPT ![c] = TRUE] /\ errno' = errno
     \/ /\ fd[c] # "idle"
        /\ errno' = [errno EXCEPT ![c] = "EBADE"] /\ UNCHANGED <<fd, what, own>>
  /\ pc' = [pc EXCEPT ![c] = IF errno'[c] = "EBADE" THEN "drain" ELSE "read"]
  /\ UNCHANGED <<faults, req, ret, runs>>

\* submit_cmd where a signal interrupts the write, or the driver fails it or takes
\* less (EIO): linux_cmd returns at once, opens nothing again, and the descriptor
\* is as before.
SubmitFails(c) ==
  /\ pc[c] = "submit" /\ pc' = [pc EXCEPT ![c] = "idle"]
  /\ \/ "signal" \in faults[c] /\ ret' = [ret EXCEPT ![c] = "failed"]
     \/ "io" \in faults[c] /\ ret' = [ret EXCEPT ![c] = "EIO"]
  /\ req' = [req EXCEPT ![c] = NoCmd] /\ errno' = [errno EXCEPT ![c] = "other"]
  /\ UNCHANGED <<faults, fd, what, own, runs>>

Empty(c) == fd' = [fd EXCEPT ![c] = "idle"] /\ what' = [what EXCEPT ![c] = NoCmd]

\* read_resp, as far as the driver goes: an answer empties the descriptor; the
\* read waits for one unless a signal comes; EIO leaves it as it is.
ReadFd(c) ==
  \/ fd[c] \in Answers \cup {"aborted"} /\ Empty(c)
  \/ fd[c] = "queued" /\ "signal" \in faults[c] /\ UNCHANGED <<fd, what>>
  \/ fd[c] = "ioerr" /\ UNCHANGED <<fd, what>>

\* Mutant of Drain: no "errno = 0".
DrainKeepsErrno(c) ==
  /\ pc[c] = "drain" /\ ReadFd(c)
  /\ pc' = [pc EXCEPT ![c] = "submit"]
  /\ UNCHANGED <<faults, req, errno, ret, own, runs>>

\* read_resp(ldev, NULL, 0), whose result is not looked at, errno = 0 and "goto retry".
Drain(c) ==
  /\ pc[c] = "drain" /\ ReadFd(c)
  /\ pc' = [pc EXCEPT ![c] = "submit"] /\ errno' = [errno EXCEPT ![c] = "other"]
  /\ UNCHANGED <<faults, req, ret, own, runs>>

Result(c) ==
  CASE fd[c] = "done"    -> "ok"
    [] fd[c] = "refused" -> "refused"
    [] fd[c] = "queued"  -> "EINTR"
    [] fd[c] = "ioerr"   -> "EIO"
    [] OTHER             -> "failed"

\* Mutant of Read: no linux_reopen_fd.
ReadWithoutReopen(c) ==
  /\ pc[c] = "read" /\ pc' = [pc EXCEPT ![c] = "idle"]
  /\ ReadFd(c) /\ ret' = [ret EXCEPT ![c] = Result(c)]
  /\ req' = [req EXCEPT ![c] = NoCmd] /\ UNCHANGED <<faults, errno, own, runs>>

\* The answer to the command, and after EIO the new descriptor; where there is
\* none to be had, errno is that of open().
Read(c) ==
  /\ pc[c] = "read" /\ pc' = [pc EXCEPT ![c] = "idle"]
  /\ \/ fd[c] # "ioerr" /\ ReadFd(c) /\ ret' = [ret EXCEPT ![c] = Result(c)]
     \/ /\ fd[c] = "ioerr" /\ ret' = [ret EXCEPT ![c] = "EIO"]
        /\ Empty(c)
     \/ /\ fd[c] = "ioerr" /\ "nofd" \in faults[c] /\ ret' = [ret EXCEPT ![c] = "failed"]
        /\ UNCHANGED <<fd, what>>
  /\ req' = [req EXCEPT ![c] = NoCmd] /\ UNCHANGED <<faults, errno, own, runs>>

-----------------------------------------------------------------------------
(* The switch, and the driver: the command of c ends in state s.               *)
Ran(c) ==
  runs' = [runs EXCEPT ![c] = IF own[c] /\ @ < 2 THEN @ + 1 ELSE @]

Finish(c, s) ==
  /\ fd[c] = "queued" /\ fd' = [fd EXCEPT ![c] = s]
  /\ \/ s \in Answers /\ Ran(c)
     \/ s \in {"aborted", "ioerr"} /\ "io" \in faults[c] /\ (Ran(c) \/ UNCHANGED runs)
  /\ UNCHANGED <<faults, pc, req, errno, ret, what, own>>

HandleStep(c) == Submit(c) \/ SubmitFails(c) \/ Drain(c) \/ Read(c)

Next ==
  \E c \in Procs : \/ \E k \in Cmds : Call(c, k)
                   \/ HandleStep(c)
                   \/ \E s \in FdStates : Finish(c, s)

Spec == Init /\ [][Next]_vars

-----------------------------------------------------------------------------
TypeOK ==
  /\ faults \in Faults
  /\ pc \in [Procs -> {"idle", "submit", "drain", "read"}]
  /\ req \in [Procs -> Cmds \cup {NoCmd}] /\ what \in [Procs -> Cmds \cup {NoCmd}]
  /\ errno \in [Procs -> {"EBADE", "other"}]
  /\ ret \in [Procs -> {"none", "ok", "refused", "EINTR", "EIO", "failed"}]
  /\ fd \in [Procs -> FdStates]
  /\ own \in [Procs -> BOOLEAN] /\ runs \in [Procs -> 0..2]

(* An answer linux_cmd hands to its caller is the answer to the command of     *)
(* this call, also after calls that were interrupted and left theirs behind.   *)
OwnAnswer ==
  \A c \in Procs : ret[c] \in {"ok", "refused"} => own[c]

(* One call runs its command at most once, and exactly once if it is answered: *)
(* "goto retry" repeats only a command that was not taken.  It does not hold   *)
(* where errno was EBADE before the call (linux.c:404).                        *)
RunsOnce ==
  \A c \in Procs : "errno" \notin faults[c] =>
    runs[c] < 2 /\ (ret[c] \in {"ok", "refused"} => runs[c] = 1)

(* Inductive.  A call that waits for an answer has its own command in the       *)
(* descriptor; before that it has run nothing.                                 *)
Inv ==
  /\ TypeOK
  /\ \A c \in Procs :
       /\ pc[c] # "idle" => ret[c] = "none"
       /\ pc[c] = "read" => own[c]
       /\ ret[c] \in {"ok", "refused"} => own[c]
  /\ \A c \in Procs : "errno" \notin faults[c] =>
       /\ errno[c] = "EBADE" => pc[c] = "drain"
       /\ pc[c] \in {"submit", "drain"} => ~own[c]
       /\ (own[c] /\ fd[c] \in Answers) \/ ret[c] \in {"ok", "refused"} => runs[c] = 1
       /\ ~own[c] \/ fd[c] = "queued" => runs[c] = 0
       /\ runs[c] < 2

(* Every call returns.  A descriptor that is cut off is opened again by the    *)
(* call that meets it, unless a signal, an errno of EBADE or a failed open     *)
(* leaves it to the drain of a later call, which then goes on for ever.        *)
CallEnds ==
  \A c \in Procs :
    (pc[c] # "idle" /\ ("io" \in faults[c] => faults[c] \cap {"signal", "nofd", "errno"} = {}))
      ~> pc[c] = "idle"
=============================================================================
