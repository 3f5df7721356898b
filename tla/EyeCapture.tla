----------------------------- MODULE EyeCapture -----------------------------
(* A Gen5/6 eye capture: switchtec_diag_eye_start with the functions it calls   *)
(* (lib/diag.c), and the loop over switchtec_diag_eye_read of the CLI           *)
(* (cli/diag.c), on a handle of LinuxCmd.  The capture engine of the switch is  *)
(* external: it works in the background, refuses to run when it is busy, and    *)
(* refuses to be read when it has no result (ERR_EYE_CAP_STATE_INVAL).          *)
EXTENDS LinuxCmd

CONSTANTS Timeout,    \* EYE_CAP_STATUS_TIMEOUT_MS, in units of EYE_CAP_STATUS_POLL_MS
          RetryTime,  \* EYE_CAP_STATUS_RETRY_MS, in the same units
          Bins        \* reads of a capture: num_lanes * 64

ASSUME EyeAssumption ==
  /\ Timeout \in Nat /\ RetryTime \in Nat \ {0} /\ Bins \in Nat
  /\ Cmds = {"status", "run", "read"} /\ NoCmd \notin Procs

\* The status of the engine: BUSY is PENDING or IN_PROGRESS, NONE is IDLE, TIMEOUT
\* or ERROR, which the code treats alike.
EyeStates == {"NONE", "BUSY", "DONE"}
Nothing == [st |-> "NONE", by |-> NoCmd]
Owners == Procs \cup {NoCmd}    \* the process whose last call started a capture, or nobody

VARIABLES app,      \* where the capture of a process is
          seen,     \* eye_status of the polling loop
          elapsed,  \* elapsed_ms
          bin,      \* reads that are done
          out,      \* the result of the last capture
          eye,      \* the engine: its state, and who started it
          ans,      \* the engine's part of the answer in the descriptor
          got,      \* the captures whose data were read (history)
          shared    \* another process started a capture meanwhile (history)

local == <<app, seen, elapsed, bin, out, got>>
engine == <<eye, ans, shared>>
allVars == <<vars, local, engine>>

CaptureInit ==
  /\ Init
  /\ app = [c \in Procs |-> "idle"] /\ seen = [c \in Procs |-> "NONE"]
  /\ elapsed = [c \in Procs |-> 0] /\ bin = [c \in Procs |-> 0]
  /\ out = [c \in Procs |-> "none"]
  /\ eye = Nothing /\ ans = [c \in Procs |-> Nothing]
  /\ got = [c \in Procs |-> {}] /\ shared = [c \in Procs |-> FALSE]

Goto(c, l) == app' = [app EXCEPT ![c] = l]

\* The capture of c ends with r; its local variables are gone.
Return(c, r) ==
  /\ Goto(c, "idle") /\ out' = [out EXCEPT ![c] = r]
  /\ seen' = [seen EXCEPT ![c] = "NONE"] /\ elapsed' = [elapsed EXCEPT ![c] = 0]
  /\ bin' = [bin EXCEPT ![c] = 0]
  /\ got' = IF r = "ok" THEN got ELSE [got EXCEPT ![c] = {}]

\* switchtec_diag_eye_cmd_gen5: is the engine busy?
Start(c) ==
  /\ app[c] = "idle" /\ Goto(c, "check") /\ Call(c, "status")
  /\ out' = [out EXCEPT ![c] = "none"] /\ got' = [got EXCEPT ![c] = {}]
  /\ shared' = [shared EXCEPT ![c] = FALSE]
  /\ eye' = IF eye.by = c THEN [eye EXCEPT !.by = NoCmd] ELSE eye
  /\ UNCHANGED <<seen, elapsed, bin, ans>>

Returned(c, l) == app[c] = l /\ pc[c] = "idle"

\* A query that failed does not keep it from starting the capture.
Checked(c) ==
  /\ Returned(c, "check")
  /\ IF ret[c] = "ok" /\ ans[c].st = "BUSY"
     THEN Return(c, "error") /\ UNCHANGED vars
     ELSE Goto(c, "run") /\ Call(c, "run") /\ UNCHANGED <<seen, elapsed, bin, out, got>>
  /\ UNCHANGED engine

\* switchtec_diag_eye_status_gen5 begins: eye_status is not initialized, which
\* matters only where a query fails before one succeeds.
Poll(c) ==
  /\ Goto(c, "poll") /\ Call(c, "status")
  /\ \E s \in IF "io" \in faults[c] THEN EyeStates ELSE {"NONE"} :
       seen' = [seen EXCEPT ![c] = s]

\* Mutant of Started: the result of the command is not looked at.
StartedAnyway(c) ==
  /\ Returned(c, "run") /\ Poll(c) /\ UNCHANGED <<elapsed, bin, out, got, engine>>

Started(c) ==
  /\ Returned(c, "run")
  /\ IF ret[c] # "ok"
     THEN Return(c, "error") /\ UNCHANGED vars
     ELSE Poll(c) /\ UNCHANGED <<elapsed, bin, out, got>>
  /\ UNCHANGED engine

\* "while (eye_status == IN_PROGRESS || eye_status == PENDING)", and what the
\* status says when it is something else.
Judge(c, s, t) ==
  IF s = "BUSY"
  THEN /\ Call(c, "status") /\ elapsed' = [elapsed EXCEPT ![c] = t]
       /\ seen' = [seen EXCEPT ![c] = s] /\ UNCHANGED <<app, bin, out, got>>
  ELSE IF s = "DONE"
  THEN /\ Goto(c, "read") /\ bin' = [bin EXCEPT ![c] = 0]
       /\ seen' = [seen EXCEPT ![c] = "NONE"] /\ elapsed' = [elapsed EXCEPT ![c] = 0]
       /\ UNCHANGED <<vars, out, got>>
  ELSE Return(c, "error") /\ UNCHANGED vars

\* Mutant of Polled: a query that failed is repeated without counting its time.
PolledForever(c) ==
  /\ Returned(c, "poll")
  /\ IF ret[c] = "ok"
     THEN IF elapsed[c] + 1 >= Timeout
          THEN Return(c, "error") /\ UNCHANGED vars
          ELSE Judge(c, ans[c].st, elapsed[c] + 1)
     ELSE Judge(c, seen[c], elapsed[c])
  /\ UNCHANGED engine

\* One turn of the loop.  EIO goes to the condition with the status there was
\* before; an error of the switch is not EIO, its errno has a flag of its own.
Polled(c) ==
  /\ Returned(c, "poll")
  /\ \/ /\ ret[c] = "ok" /\ elapsed[c] + 1 < Timeout
        /\ Judge(c, ans[c].st, elapsed[c] + 1)
     \/ /\ ret[c] = "EIO" /\ elapsed[c] + RetryTime < Timeout
        /\ Judge(c, seen[c], elapsed[c] + RetryTime)
     \/ /\ \/ ret[c] = "ok" /\ elapsed[c] + 1 >= Timeout
           \/ ret[c] = "EIO" /\ elapsed[c] + RetryTime >= Timeout
           \/ ret[c] \notin {"ok", "EIO"}
        /\ Return(c, "error") /\ UNCHANGED vars
  /\ UNCHANGED engine

\* Mutant of ReadBin: bin <= Bins.
ReadBinPast(c) ==
  /\ app[c] = "read" /\ bin[c] <= Bins
  /\ Goto(c, "bin") /\ Call(c, "read")
  /\ UNCHANGED <<seen, elapsed, bin, out, got, engine>>

\* eye_capture_dev_gen5 reads the bins one by one.
ReadBin(c) ==
  /\ app[c] = "read" /\ bin[c] < Bins
  /\ Goto(c, "bin") /\ Call(c, "read")
  /\ UNCHANGED <<seen, elapsed, bin, out, got, engine>>

BinRead(c) ==
  /\ Returned(c, "bin")
  /\ IF ret[c] # "ok"
     THEN Return(c, "error")
     ELSE /\ Goto(c, "read") /\ bin' = [bin EXCEPT ![c] = @ + 1]
          /\ got' = [got EXCEPT ![c] = @ \cup {ans[c].by}]
          /\ UNCHANGED <<seen, elapsed, out>>
  /\ UNCHANGED <<vars, engine>>

AllRead(c) ==
  /\ app[c] = "read" /\ bin[c] = Bins /\ Return(c, "ok")
  /\ UNCHANGED <<vars, engine>>

-----------------------------------------------------------------------------
(* The switch.                                                                 *)
Allowed(k) ==
  CASE k = "status" -> TRUE
    [] k = "run"    -> eye.st # "BUSY"
    [] k = "read"   -> eye.st = "DONE"

\* The engine carries out the command of c.
Effect(c) ==
  IF what[c] = "run"
  THEN /\ eye' = [st |-> "BUSY", by |-> IF own[c] THEN c ELSE NoCmd]
       /\ ans' = [ans EXCEPT ![c] = Nothing]
       /\ shared' = [d \in Procs |-> shared[d] \/ (d # c /\ app[d] # "idle")]
  ELSE ans' = [ans EXCEPT ![c] = eye] /\ UNCHANGED <<eye, shared>>

\* A command ends: carried out, or refused, or cut off before or after that.
Execute(c) ==
  /\ \/ Finish(c, "done") /\ Allowed(what[c]) /\ Effect(c)
     \/ /\ Finish(c, "refused") /\ ("refuse" \in faults[c] \/ ~Allowed(what[c]))
        /\ ans' = [ans EXCEPT ![c] = Nothing] /\ UNCHANGED <<eye, shared>>
     \/ /\ \E s \in {"aborted", "ioerr"} : Finish(c, s)
        /\ \/ Allowed(what[c]) /\ Effect(c)
           \/ ans' = [ans EXCEPT ![c] = Nothing] /\ UNCHANGED <<eye, shared>>
  /\ UNCHANGED local

Engine ==
  /\ eye.st = "BUSY" /\ \E s \in {"DONE", "NONE"} : eye' = [eye EXCEPT !.st = s]
  /\ UNCHANGED <<vars, local, ans, shared>>

Handle(c) == HandleStep(c) /\ UNCHANGED <<local, engine>>
CaptureStep(c) ==
  Checked(c) \/ Started(c) \/ Polled(c) \/ ReadBin(c) \/ BinRead(c) \/ AllRead(c)

CaptureNext ==
  \/ Engine
  \/ \E c \in Procs : Start(c) \/ CaptureStep(c) \/ Handle(c) \/ Execute(c)

CaptureSpec == CaptureInit /\ [][CaptureNext]_allVars

\* The caller runs; the driver passes on every command it queued, and the switch
\* ends it.
FairCaptureSpec ==
  /\ CaptureSpec
  /\ \A c \in Procs :
       WF_allVars(CaptureStep(c)) /\ WF_allVars(Handle(c)) /\ WF_allVars(Execute(c))

-----------------------------------------------------------------------------
EyeTypeOK ==
  /\ TypeOK
  /\ app \in [Procs -> {"idle", "check", "run", "poll", "read", "bin"}]
  /\ seen \in [Procs -> EyeStates] /\ elapsed \in [Procs -> 0..Timeout]
  /\ bin \in [Procs -> 0..Bins]
  /\ out \in [Procs -> {"none", "ok", "error"}]
  /\ eye \in [st : EyeStates, by : Owners]
  /\ ans \in [Procs -> [st : EyeStates, by : Owners]]
  /\ got \in [Procs -> SUBSET Owners] /\ shared \in [Procs -> BOOLEAN]

(* The data a capture returns are those of the capture it has started, whole:  *)
(* not of an earlier one, nor of one that an interrupted call had left in the  *)
(* handle, whatever commands fail; unless another process starts a capture     *)
(* meanwhile, which nothing prevents between the commands of this one.         *)
DataMine ==
  \A c \in Procs : (out[c] = "ok" /\ ~shared[c]) => got[c] \subseteq {c}

\* The command a process sends from where it is.
Kind(l) == CASE l = "run" -> "run" [] l = "bin" -> "read" [] OTHER -> "status"

\* After its own start was answered the engine works for c; no other start of c
\* is then on its way.
Tracked(c) ==
  /\ app[c] \in {"idle", "read"} => pc[c] = "idle"
  /\ pc[c] # "idle" => req[c] = Kind(app[c])
  /\ own[c] /\ fd[c] # "idle" /\ app[c] \notin {"idle", "read"} => what[c] = Kind(app[c])
  /\ pc[c] = "idle" /\ ret[c] = "ok" => fd[c] = "idle"
  /\ app[c] \in {"poll", "read", "bin"} /\ fd[c] # "idle" => what[c] # "run"
  /\ app[c] \in {"check", "run", "poll"} => got[c] = {}
  /\ out[c] # "none" => app[c] = "idle"
  /\ app[c] = "bin" => bin[c] < Bins

TrackedAlone(c) ==
  ~shared[c] =>
    /\ app[c] = "run" /\ ((own[c] /\ fd[c] = "done") \/ ret[c] = "ok") => eye.by = c
    /\ app[c] \in {"poll", "read", "bin"} => eye.by = c
    /\ app[c] = "bin" /\ ((own[c] /\ fd[c] = "done") \/ ret[c] = "ok") => ans[c].by = c
    /\ app[c] \in {"read", "bin"} \/ out[c] = "ok" => got[c] \subseteq {c}

(* Inductive.  The handle's invariant, and what DataMine rests on.             *)
CaptureInv == Inv /\ EyeTypeOK /\ \A c \in Procs : Tracked(c) /\ TrackedAlone(c)

(* switchtec_diag_eye_start and the reading return: they give up after         *)
(* EYE_CAP_STATUS_TIMEOUT_MS, and EIO ends only with a handle that works.      *)
CaptureEnds ==
  \A c \in Procs :
    (app[c] # "idle" /\ ("io" \in faults[c] => faults[c] \cap {"signal", "nofd", "errno"} = {}))
      ~> app[c] = "idle"
=============================================================================
