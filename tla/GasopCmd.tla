------------------------------ MODULE GasopCmd ------------------------------
(* MRPC commands through the mailbox in the GAS: gasop_cmd, behind             *)
(* switchtec_cmd, over I2C and UART (lib/platform/gasops.c), fw_gasop_cmd and  *)
(* switchtec_cmd_nopoll (lib/fw.c).  A call writes the input data, then the    *)
(* command, polls the status and reads the output data.  Any number of         *)
(* processes use the mailbox; nothing serializes them.                         *)
(*                                                                             *)
(* The transport is a GasPort: the write of the command lands at least once    *)
(* before it returns, and a no-retry write at most once.  The switch is        *)
(* external: it carries out one command at a time, takes the input data when   *)
(* the command lands and ignores a command that lands while another runs.      *)
EXTENDS Naturals

CONSTANTS Procs,       \* processes
          Calls,       \* the calls they make: the function, gasop, fw or nopoll,
                       \* and the command, a cmd and a subcmd
          NumWords,    \* size of input and output data, in transfers
          OnceIsOnce,  \* BOOLEAN: gas_write32_no_retry keeps its promise
          MaxLand,     \* how often a write may land
          MaxPolls,    \* polls until GASOP_CMD_TIMEOUT_MS or FW_DL_MRPC_TIMEOUT_MS
          MaxCalls,    \* bound on the calls of a run
          Faults       \* what may go wrong, see below

\* gasop_noretry_cmds: commands that are not retried, whatever the subcommand,
\* and those whose subcommand is looked at.  The table ends at DBG_UNLOCK_GEN6.
NoRetryAll == {"SECURITY_CONFIG_SET", "KMSK_ENTRY_SET", "SECURE_STATE_SET",
               "BOOTUP_RESUME", "DBG_UNLOCK",
               "SECURITY_CONFIG_SET_GEN5", "KMSK_ENTRY_SET_GEN5", "SECURE_STATE_SET_GEN5",
               "BOOTUP_RESUME_GEN5", "DBG_UNLOCK_GEN5", "DBG_UNLOCK_GEN6"}
NoRetryToggle == {"FW_TX", "FW_TX_GEN5", "FW_TX_GEN6"}

Cmds == NoRetryAll \cup NoRetryToggle \cup
        {"DEVICE_CONFIG", "DOK_CONFIG", "SECURE_STATE_SET_GEN6", "FWDNLD", "RESET", "OTHER"}
Subs == {"TOGGLE", "UPDATE", "GET", "OTHER"}

\* What must not be repeated: what lib/mfg.c burns into OTP memory (settings,
\* keys, states, the debug version), and a toggle (lib/fw.c), which a second one
\* undoes.
Critical(c) ==
  \/ c.cmd \in {"SECURITY_CONFIG_SET", "SECURITY_CONFIG_SET_GEN5", "KMSK_ENTRY_SET",
                "KMSK_ENTRY_SET_GEN5", "SECURE_STATE_SET", "SECURE_STATE_SET_GEN5", "DOK_CONFIG"}
  \/ c.cmd \in {"SECURE_STATE_SET_GEN6", "DEVICE_CONFIG"} /\ c.sub # "GET"
  \/ c.cmd \in {"DBG_UNLOCK", "DBG_UNLOCK_GEN5", "DBG_UNLOCK_GEN6"} /\ c.sub = "UPDATE"
  \/ c.cmd \in {"FW_TX", "FW_TX_GEN5", "FW_TX_GEN6", "FWDNLD"} /\ c.sub = "TOGGLE"

\* The critical commands that the table lacks.
Unlisted(c) == c.cmd \in {"DEVICE_CONFIG", "DOK_CONFIG", "SECURE_STATE_SET_GEN6", "FWDNLD"}

\* fw_gasop_cmd sends the blocks of an image and asks for the state of a download.
CallType == {q \in [kind : {"gasop", "fw", "nopoll"}, c : [cmd : Cmds, sub : Subs]] :
               q.kind = "fw" => ~Critical(q.c)}

\* error: a command fails or is interrupted; slow: it may take longer than the
\* timeout; ones: reads of the status may return 0xffffffff; die: SIGBUS.
ASSUME CmdAssumption ==
  /\ Calls \subseteq CallType
  /\ NumWords \in Nat \ {0} /\ OnceIsOnce \in BOOLEAN /\ MaxLand \in Nat \ {0}
  /\ MaxPolls \in Nat \ {0} /\ MaxCalls \in Nat
  /\ Faults \subseteq {"error", "slow", "ones", "die"}

Words == 1..NumWords
Ids == 1..MaxCalls
Blank == [w \in Words |-> 0]

VARIABLES pc,      \* per process: idle, input, cmd, poll, error, retval, output
          id,      \* per process: the number of its last call
          k,       \* per process: the word of input or output data it is at
          polls,   \* per process: polls of this call
          resp,    \* per process: the output data it has read
          ret,     \* per process: the result of the last call
          input, status, retval, output,   \* the mailbox
          run,     \* the switch: the call that started it (0: none), and its input
          call,    \* the calls: function and command, by their number (history)
          landed,  \* how often the command of a call landed (history)
          done,    \* how often it was carried out (history)
          calls,   \* calls started (history)
          alone    \* the last call, if it began with the mailbox idle and nobody
                   \* else in a call; otherwise 0 (history)

local == <<pc, id, k, polls, resp, ret>>
mailbox == <<input, status, retval, output, run>>
history == <<call, landed, done, calls, alone>>
vars == <<local, mailbox, history>>

NoCall == [kind |-> "gasop", c |-> [cmd |-> "OTHER", sub |-> "OTHER"]]

Init ==
  /\ pc = [x \in Procs |-> "idle"] /\ id = [x \in Procs |-> 0]
  /\ k = [x \in Procs |-> 1] /\ polls = id /\ resp = [x \in Procs |-> Blank]
  /\ ret = [x \in Procs |-> "none"]
  /\ input = Blank /\ status = "none" /\ retval = 0 /\ output = Blank
  /\ run = [call |-> 0, in |-> Blank]
  /\ call = [i \in Ids |-> NoCall] /\ landed = [i \in Ids |-> 0] /\ done = landed
  /\ calls = 0 /\ alone = 0

Kind(x) == call[id[x]].kind
Goto(x, l) == pc' = [pc EXCEPT ![x] = l]
Return(x, r) == Goto(x, "idle") /\ ret' = [ret EXCEPT ![x] = r]

\* Mutant of NoRetryCmd: the table as it was before Gen5.
NoRetryCmdGen4(c) ==
  \/ c.cmd \in {"SECURITY_CONFIG_SET", "KMSK_ENTRY_SET", "SECURE_STATE_SET", "BOOTUP_RESUME",
                "DBG_UNLOCK"}
  \/ c.cmd = "FW_TX" /\ c.sub = "TOGGLE"

\* gasop_is_no_retry_cmd.
NoRetryCmd(c) == c.cmd \in NoRetryAll \/ (c.cmd \in NoRetryToggle /\ c.sub = "TOGGLE")

\* The write of the command that __gas_write32_no_retry makes.
Once(i) ==
  \/ call[i].kind = "nopoll"
  \/ call[i].kind = "gasop" /\ NoRetryCmd(call[i].c)

-----------------------------------------------------------------------------
Begin(x, c) ==
  /\ pc[x] = "idle" /\ calls < MaxCalls
  /\ calls' = calls + 1 /\ id' = [id EXCEPT ![x] = calls']
  /\ call' = [call EXCEPT ![calls'] = c]
  /\ k' = [k EXCEPT ![x] = 1] /\ polls' = [polls EXCEPT ![x] = 0]
  /\ resp' = [resp EXCEPT ![x] = Blank] /\ ret' = [ret EXCEPT ![x] = "none"]
  /\ Goto(x, "input")
  /\ alone' = IF run.call = 0 /\ \A y \in Procs : pc[y] = "idle" THEN calls' ELSE 0
  /\ UNCHANGED <<mailbox, landed, done>>

\* __memcpy_to_gas of the payload, one transfer after the other.
Input(x) ==
  /\ pc[x] = "input" /\ input' = [input EXCEPT ![k[x]] = id[x]]
  /\ IF k[x] < NumWords THEN k' = [k EXCEPT ![x] = @ + 1] /\ pc' = pc
                        ELSE Goto(x, "cmd") /\ k' = [k EXCEPT ![x] = 1]
  /\ UNCHANGED <<id, polls, resp, ret, status, retval, output, run, history>>

\* Mutant of Land: every command goes through __gas_write32.
LandAgain(x) ==
  /\ pc[x] = "cmd" /\ landed[id[x]] < MaxLand
  /\ landed' = [landed EXCEPT ![id[x]] = @ + 1]
  /\ IF run.call # 0
     THEN UNCHANGED <<status, run>>
     ELSE status' = "INPROGRESS" /\ run' = [call |-> id[x], in |-> input]
  /\ UNCHANGED <<local, input, retval, output, call, done, calls, alone>>

\* The write of the command reaches the switch, perhaps not for the first time.
Land(x) ==
  /\ pc[x] = "cmd"
  /\ landed[id[x]] < IF OnceIsOnce /\ Once(id[x]) THEN 1 ELSE MaxLand
  /\ landed' = [landed EXCEPT ![id[x]] = @ + 1]
  /\ IF run.call # 0
     THEN UNCHANGED <<status, run>>
     ELSE status' = "INPROGRESS" /\ run' = [call |-> id[x], in |-> input]
  /\ UNCHANGED <<local, input, retval, output, call, done, calls, alone>>

\* The write returns.  switchtec_cmd_nopoll and MRPC_RESET do not wait.
Ack(x) ==
  /\ pc[x] = "cmd" /\ landed[id[x]] > 0
  /\ IF Kind(x) = "nopoll" \/ (Kind(x) = "gasop" /\ call[id[x]].c.cmd = "RESET")
     THEN Return(x, "ok") ELSE Goto(x, "poll") /\ ret' = ret
  /\ UNCHANGED <<id, k, polls, resp, mailbox, history>>

\* Not finished: poll again, or give up when the time is over.
Wait(x) ==
  IF "slow" \notin Faults THEN UNCHANGED <<pc, ret, polls>>
  ELSE /\ polls' = [polls EXCEPT ![x] = @ + 1]
       /\ IF polls'[x] = MaxPolls THEN Return(x, "timeout") ELSE UNCHANGED <<pc, ret>>

\* Mutants of Judge: a command in progress is taken for finished; the time is
\* not looked at.
JudgeEarly(x, st) ==
  IF st \in {"DONE", "INPROGRESS"} THEN Goto(x, "retval") /\ UNCHANGED <<ret, polls>>
                                   ELSE Return(x, "enxio") /\ UNCHANGED polls
JudgeForever(x, st) ==
  IF st \in {"INPROGRESS", "ones"} THEN UNCHANGED <<pc, ret, polls>>
  ELSE IF st = "DONE" THEN Goto(x, "retval") /\ UNCHANGED <<ret, polls>>
       ELSE Return(x, "enxio") /\ UNCHANGED polls

\* What the loops do with a status.
Judge(x, st) ==
  \/ st = "INPROGRESS" /\ Wait(x)
  \/ st = "ones" /\ Kind(x) = "fw" /\ Wait(x)
  \/ st = "ones" /\ Kind(x) = "gasop" /\ Return(x, "enxio") /\ UNCHANGED polls
  \/ st \in {"INTERRUPTED", "none"} /\ Return(x, "enxio") /\ UNCHANGED polls
  \/ st = "ERROR" /\ Goto(x, "error") /\ UNCHANGED <<ret, polls>>
  \/ st = "DONE" /\ Goto(x, "retval") /\ UNCHANGED <<ret, polls>>

\* The sleep and the read of the status.
Poll(x) ==
  /\ pc[x] = "poll"
  /\ \E st \in {status} \cup (Faults \cap {"ones"}) : Judge(x, st)
  /\ UNCHANGED <<id, k, resp, mailbox, history>>

\* After ERROR ret_value is read and returned: 0 would look like success.
ErrValue(x) ==
  /\ pc[x] = "error" /\ Return(x, IF retval = 0 THEN "ok" ELSE "mrpc")
  /\ UNCHANGED <<id, k, polls, resp, mailbox, history>>

\* ret_value is read; it is what the call returns, after the output data.
RetValue(x) ==
  /\ pc[x] = "retval"
  /\ ret' = [ret EXCEPT ![x] = IF retval = 0 THEN "ok" ELSE "mrpc"]
  /\ Goto(x, "output")
  /\ UNCHANGED <<id, k, polls, resp, mailbox, history>>

Output(x) ==
  /\ pc[x] = "output" /\ resp' = [resp EXCEPT ![x][k[x]] = output[k[x]]]
  /\ IF k[x] < NumWords THEN k' = [k EXCEPT ![x] = @ + 1] /\ pc' = pc
                        ELSE Goto(x, "idle") /\ k' = k
  /\ UNCHANGED <<id, polls, ret, mailbox, history>>

\* The transport raises SIGBUS, or the user ends the process.
Die(x) ==
  /\ "die" \in Faults /\ pc[x] # "idle" /\ Return(x, "killed")
  /\ UNCHANGED <<id, k, polls, resp, mailbox, history>>

-----------------------------------------------------------------------------
(* The switch.                                                                 *)

\* A reset leaves a fresh status.
Finish ==
  /\ run.call # 0 /\ run' = [run EXCEPT !.call = 0]
  /\ done' = [done EXCEPT ![run.call] = @ + 1]
  /\ IF call[run.call].c.cmd = "RESET"
     THEN status' = "none" /\ UNCHANGED <<retval, output>>
     ELSE /\ status' = "DONE" /\ output' = run.in
          /\ retval' \in {0} \cup (IF "error" \in Faults THEN {1} ELSE {})
  /\ UNCHANGED <<local, input, call, landed, calls, alone>>

\* A command that fails has a reason: ret_value is not 0.
FinishBadly ==
  /\ "error" \in Faults /\ run.call # 0 /\ run' = [run EXCEPT !.call = 0]
  /\ status' \in {"ERROR", "INTERRUPTED"} /\ retval' = 1
  /\ UNCHANGED <<local, input, output, history>>

Step(x) == Input(x) \/ Land(x) \/ Ack(x) \/ Poll(x) \/ ErrValue(x) \/ RetValue(x) \/ Output(x)

Next ==
  \/ \E x \in Procs : \/ Step(x) \/ Die(x)
                      \/ \E c \in Calls : Begin(x, c)
  \/ Finish \/ FinishBadly

Spec == Init /\ [][Next]_vars
FairSpec == Spec /\ \A x \in Procs : WF_vars(Step(x))

-----------------------------------------------------------------------------
Rets == {"none", "ok", "mrpc", "enxio", "timeout", "killed"}

TypeOK ==
  /\ pc \in [Procs -> {"idle", "input", "cmd", "poll", "error", "retval", "output"}]
  /\ id \in [Procs -> 0..MaxCalls] /\ k \in [Procs -> Words] /\ polls \in [Procs -> 0..MaxPolls]
  /\ resp \in [Procs -> [Words -> 0..MaxCalls]] /\ ret \in [Procs -> Rets]
  /\ input \in [Words -> 0..MaxCalls] /\ output \in [Words -> 0..MaxCalls]
  /\ status \in {"none", "INPROGRESS", "DONE", "ERROR", "INTERRUPTED"} /\ retval \in {0, 1}
  /\ run \in [call : 0..MaxCalls, in : [Words -> 0..MaxCalls]]
  /\ call \in [Ids -> CallType] /\ landed \in [Ids -> Nat] /\ done \in [Ids -> Nat]
  /\ calls \in 0..MaxCalls /\ alone \in 0..MaxCalls

(* gasops.c:132-139: a command that "is critical and is expected to be sent     *)
(* only once" is carried out at most once, however often its write is retried, *)
(* whichever function sends it; also when processes share the mailbox, give up *)
(* or die.  It does not hold of the four commands the table lacks, whose write *)
(* is retried: 0x127 to 0x129 (lib/mfg.c) and the toggle of FWDNLD (fw.c:678). *)
CriticalOnce ==
  \A i \in Ids : (Critical(call[i].c) /\ ~Unlisted(call[i].c)) => done[i] <= 1

(* platform.c:174-176, "resp: Output data", "0 on success": a call that        *)
(* returns 0 returns the whole answer to its own command, computed from its    *)
(* own payload, also after calls that failed; provided that it began with no   *)
(* command running and that no other call overlaps it.                         *)
OwnResponse ==
  \A x \in Procs :
    (id[x] = alone /\ pc[x] = "idle" /\ ret[x] = "ok"
       /\ Kind(x) # "nopoll" /\ call[id[x]].c.cmd # "RESET")
      => resp[x] = [w \in Words |-> id[x]]

(* Every call returns, also if the switch never finishes the command.          *)
CallEnds == \A x \in Procs : pc[x] # "idle" ~> pc[x] = "idle"

-----------------------------------------------------------------------------
(* The inductive invariant: what runs, or ran, has landed; and what is sent    *)
(* once has landed once.                                                       *)
LandedInv ==
  \A i \in Ids :
    /\ done[i] + (IF run.call = i THEN 1 ELSE 0) <= landed[i]
    /\ (OnceIsOnce /\ Once(i)) => landed[i] <= 1

BusyInv ==
  /\ \A x \in Procs : pc[x] # "idle" => id[x] # 0
  /\ \A x \in Procs : pc[x] \in {"input", "cmd", "poll"} => polls[x] < MaxPolls
  /\ \A x \in Procs : id[x] <= calls
  /\ \A i \in Ids : i > calls => landed[i] = 0
  /\ run.call <= calls

(* What the last call, if it is alone, finds at each of its places: before its *)
(* command landed nothing runs, what runs then is its own, and the mailbox     *)
(* says DONE only for its own.                                                 *)
All(f, i) == \A w \in Words : f[w] = i

Own(x) ==
  /\ \A y \in Procs : y # x => pc[y] = "idle"
  /\ run.call \in {0, id[x]}
  /\ pc[x] = "input" => /\ run.call = 0 /\ landed[id[x]] = 0
                        /\ \A w \in Words : w < k[x] => input[w] = id[x]
  /\ pc[x] = "cmd" => All(input, id[x])
  /\ run.call = id[x] => All(run.in, id[x]) /\ status = "INPROGRESS"
  /\ (landed[id[x]] > 0 /\ run.call = 0 /\ status = "DONE") => All(output, id[x])
  /\ pc[x] \in {"cmd", "poll", "retval"} => k[x] = 1
  /\ pc[x] \in {"poll", "error", "retval", "output"} => landed[id[x]] > 0
  /\ pc[x] = "error" => run.call = 0 /\ status = "ERROR"
  /\ pc[x] \in {"retval", "output"} => run.call = 0 /\ status = "DONE"
  /\ pc[x] = "output" => \A w \in Words : w < k[x] => resp[x][w] = id[x]
  /\ (pc[x] = "idle" /\ ret[x] = "ok" /\ Kind(x) # "nopoll" /\ call[id[x]].c.cmd # "RESET")
       => All(resp[x], id[x])

OwnInv ==
  /\ alone \in {0, calls} /\ (status = "ERROR" => retval # 0)
  /\ \A x \in Procs : id[x] = 0 => ret[x] = "none"
  /\ alone # 0 => \A x \in Procs : id[x] = alone => Own(x)

Inv == TypeOK /\ BusyInv /\ LandedInv /\ OwnInv
=============================================================================
