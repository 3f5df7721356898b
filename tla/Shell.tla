------------------------------- MODULE Shell --------------------------------
(* Processes that run commands of "switchtec" against one switch.  A process   *)
(* opens the switch and takes its script (DevCmds, MfgCmds, FwCmds, FabricCmds, *)
(* DiagCmds, PmonCmds) a step at a time, a step being a question to the user or *)
(* a command to the switch with the tests that follow it.  Nothing locks the    *)
(* switch: a command of one process may come between two of another, which has  *)
(* then looked at what is no longer so.  A command may fail, a user say no, a   *)
(* process be killed, at every step.                                           *)
EXTENDS DevCmds, FabricCmds, DiagCmds

CONSTANTS
  Menus,      \* name -> what is run: the calls (command, options), by how many
              \* processes (procs), in how many calls in all (calls), and what the
              \* switch may be at first (gen, phase, sec, kmsk, bootro, counter)
  Chunks,     \* bound: parts of a dump, entries of a log or a queue
  MaxFaults   \* bound: failed commands and killed processes in a behaviour

ASSUME BoundsAssumption == Chunks \in Nat \ {0} /\ MaxFaults \in Nat

VARIABLES
  menu,       \* the menu that is run
  sw,         \* the switch
  job,        \* process -> its call, the last one where it has ended
  calls,      \* calls so far
  faults      \* failed commands and killed processes so far

vars == <<menu, sw, job, calls, faults>>

\* Calls are numbered: 0 is nobody, 1 somebody before.
Somebody == 1

\* The commands of all files: a name is in one of them.
Files == {DevMenu, MfgMenu, FwMenu, FabricMenu, DiagMenu, PmonMenu}
Commands ==
  [c \in UNION {DOMAIN m : m \in Files} |-> (CHOOSE m \in Files : c \in DOMAIN m)[c]]
Procs == 1..Menus[menu].procs

ASSUME MenusAssumption ==
  \A m \in DOMAIN Menus :
    /\ Menus[m].procs \in Nat /\ Menus[m].calls \in Nat
    /\ \A call \in Menus[m].run : call[1] \in DOMAIN Commands
    /\ Menus[m].gen \subseteq 3..6 /\ Menus[m].kmsk \subseteq BOOLEAN
    /\ Menus[m].counter \subseteq {0, Somebody}

Sessions == {"topo", "gfms", "img", "nvme", "log", "cross", "eye"}
Works == {"topo", "cross", "eye"}          \* those the switch works at on its own
Fields == {"gen", "phase", "sec", "kmsk", "pub", "sig", "bootro", "act", "work", "queue", "counter",
           "bw", "lat", "loop"} \cup Sessions

\* callers: the functions that look at the result of the one that runs (Try).
None == [k |-> "none"]
Caller(todo, callers) == [k |-> "caller", todo |-> todo, callers |-> callers]

Idle ==
  [cmd |-> "none", opt |-> {}, id |-> 0, todo |-> Skip, callers |-> None, ret |-> "idle",
   gen |-> 0, phase |-> "FW", res |-> "ok", saved |-> "none", sec |-> "none", kmsk |-> FALSE,
   left |-> 0, status |-> "none", versions |-> FALSE, bootro |-> "unknown", counter |-> 0,
   sure |-> 0, ses |-> "none", got |-> 0, seen |-> {}, failed |-> {}, met |-> {}, act0 |-> {}]

Running(p) == job[p].ret = "none"

\* What goes on at the switch, or the user.
Takes == {"input", "confirm", "cmd", "post"}

-----------------------------------------------------------------------------
(* A process between two commands.                                             *)

\* return: to the function that looks at the result, or to the shell.
Return(j, res) ==
  IF j.callers.k = "caller"
  THEN [j EXCEPT !.todo = j.callers.todo, !.callers = @.callers, !.res = res]
  ELSE [j EXCEPT !.todo = Skip, !.ret = IF res = "ok" THEN "ok" ELSE "err"]

\* The next test, loop or return of a script.
Test(j) ==
  LET step == j.todo.now
      rest == j.todo.then
      do(steps) == [j EXCEPT !.todo = steps]
  IN  IF j.todo.k = "skip" THEN Return(j, "ok")
      ELSE CASE step.k = "skip"  -> do(rest)
             [] step.k = "then"  -> do(step.now ++ (step.then ++ rest))
             [] step.k = "need"  -> IF j[step.f] \in step.in THEN do(rest) ELSE Return(j, "err")
             [] step.k = "when"  -> do(IF j[step.f] \in step.in THEN step.steps ++ rest ELSE rest)
             [] step.k = "if"    -> do((IF j[step.f] \in step.in THEN step.steps
                                        ELSE step.others) ++ rest)
             [] step.k = "until" -> do(IF j[step.f] \in step.in THEN rest ELSE step.steps ++ j.todo)
             [] step.k = "opt"   -> do(IF (j.opt \cap step.in # {}) = step.given
                                       THEN step.steps ++ rest ELSE rest)
             [] step.k = "times" -> do(IF step.n = 0 THEN rest
                                       ELSE step.steps ++ (Times(step.n - 1, step.steps) ++ rest))
             [] step.k = "try"   -> [do(step.steps ++ Skip) EXCEPT !.callers = Caller(rest, @)]
             [] step.k = "leave" -> Return(j, "ok")
             [] step.k = "save"  -> [do(rest) EXCEPT !.saved = j.res]
             [] OTHER -> j

\* Up to the next question or command: 64 tests in a row are more than any
\* script has.  (The sets of one make TLC evaluate their element once.)
AtTest(j) == j.ret = "none" /\ ~(j.todo.k = "then" /\ j.todo.now.k \in Takes)
The(S)    == CHOOSE x \in S : TRUE
Tested(J)   == {IF AtTest(j) THEN Test(j) ELSE j : j \in J}
Tested4(J)  == {IF AtTest(j) THEN The(Tested(Tested(Tested(Tested({j}))))) ELSE j : j \in J}
Tested16(J) == {IF AtTest(j) THEN The(Tested4(Tested4(Tested4(Tested4({j}))))) ELSE j : j \in J}
Settle(j)   == The(Tested16(Tested16(Tested16(Tested16({j})))))

At(p, k) == Running(p) /\ job[p].todo.k = "then" /\ job[p].todo.now.k = k
Goes(j) == Settle([j EXCEPT !.todo = @.then, !.res = "ok"])

-----------------------------------------------------------------------------
(* External: the switch.  Commands that open, read and close a dump of it.      *)
Opens  == [TOPO_START |-> "topo", GFMS_START |-> "gfms", IMG_START |-> "img",
           NVME_MORE |-> "nvme", NVME_START |-> "nvme", FREEZE |-> "log",
           CROSS_ON |-> "cross", EYE_START |-> "eye"]
Reads  == [TOPO_GET |-> "topo", GFMS_GET |-> "gfms", IMG_NEXT |-> "img", NVME_DATA |-> "nvme",
           LOG_DUMP |-> "log", EYE_FETCH |-> "eye"]
Firsts == {"IMG_START", "LOG_FIRST"}
Closes == [TOPO_FINISH |-> "topo", GFMS_FINISH |-> "gfms", NVME_END |-> "nvme", UNFREEZE |-> "log",
           CROSS_OFF |-> "cross", EYE_CANCEL |-> "eye"]
Polls  == [TOPO_STATUS |-> "topo", CROSS_GET |-> "cross", EYE_FETCH |-> "eye"]
Counts == {"TOPO_STATUS", "GFMS_START", "NVME_START", "LOG_STATUS", "OSA_COUNT", "EYE_START"}
Queues == {"EVENTS_GET", "MAILBOX_GET"}
Forgotten == Sessions \cup {"counter", "bw", "lat", "pub", "sig"}

SessionEffect(c, id, s) ==
  CASE c \in DOMAIN Opens   -> [s EXCEPT ![Opens[c]] = id,
                                         !.work = [w \in Works |-> IF w = Opens[c] THEN "wait" ELSE @[w]]]
    [] c \in DOMAIN Closes  -> [s EXCEPT ![Closes[c]] = 0]
    [] c \in Queues         -> [s EXCEPT !.queue = IF @ > 0 THEN @ - 1 ELSE 0]
    [] c = "EVENTS_CLEAR"   -> [s EXCEPT !.queue = 0]
    [] c = "RESET"          -> [f \in DOMAIN s |-> IF f = "loop" THEN {}
                                                  ELSE IF f \in Forgotten THEN 0 ELSE s[f]]
    [] OTHER -> s

Effect(c, j, s) ==
  SessionEffect(c, j.id, PmonEffect(c, j.id, DiagEffect(c, FwEffect(c, j.opt, MfgEffect(c, j.id, s)))))

\* A session that is not open has no parts to get.
Refuses(c) == c \in DOMAIN Reads /\ sw[Reads[c]] = 0

\* A pixel can be fetched once the eye has been observed.
Gets(c, s) == c \in DOMAIN Reads /\ (c = "EYE_FETCH" => s.work.eye = "ready")

\* What a process is told: by the commands that count, read, and query.
Told(j, c, s) ==
  [j EXCEPT
     !.gen   = IF c = "dev_info" THEN s.gen ELSE @,
     !.phase = IF c = "dev_info" THEN s.phase ELSE @,
     !.left = CASE c \in Counts -> Chunks
                [] c \in Firsts -> Chunks - 1
                [] Gets(c, s) \/ c \in {"LOG_NEXT", "OSA_READ"} -> @ - 1
                [] c \in Queues -> s.queue
                [] OTHER -> @,
     !.ses = IF c \in DOMAIN Opens THEN Opens[c] ELSE @,
     !.got = CASE c = "IMG_START" -> 1
               [] c = "CROSS_GET" /\ s.cross = j.id /\ s.work.cross = "ready" -> Chunks
               [] Gets(c, s) /\ s[Reads[c]] = j.id -> @ + 1
               [] OTHER -> @,
     !.seen = CASE c = "BW_GET" -> @ \cup {s.bw} [] c = "LAT_GET" -> @ \cup {s.lat} [] OTHER -> @,
     !.sec  = IF c \in {"config", "config_ext", "otp", "state"} THEN s.sec ELSE @,
     !.kmsk = IF c \in {"config", "config_ext"} THEN s.kmsk ELSE @,
     !.status   = IF c \notin DOMAIN Polls THEN @
                  ELSE IF s[Polls[c]] = 0 THEN "none" ELSE s.work[Polls[c]],
     !.versions = @ \/ c = "sn_ver",
     !.bootro   = IF c = "BOOT_RO_GET" THEN s.bootro ELSE @,
     !.counter  = IF c = "EVCNTR_GET" THEN s.counter ELSE @]

-----------------------------------------------------------------------------
Init ==
  /\ menu \in DOMAIN Menus
  /\ \E m \in {Menus[menu]} : \E g \in m.gen, ph \in m.phase, se \in m.sec, k \in m.kmsk,
                                 b \in m.bootro, n \in m.counter :
       /\ g = 3 => ph = "FW"
       /\ g = 6 <=> se \in {"SECURE_CAPABLE", "SECURED"}
       /\ sw = [gen |-> g, phase |-> ph, sec |-> se, kmsk |-> k, pub |-> Somebody,
                sig |-> Somebody, bootro |-> b, act |-> {}, work |-> [w \in Works |-> "ready"], queue |-> Chunks,
                counter |-> n, bw |-> Somebody, lat |-> Somebody, loop |-> {}, topo |-> 0,
                gfms |-> 0, img |-> 0, nvme |-> 0, log |-> 0, cross |-> 0, eye |-> 0]
  /\ job = [p \in Procs |-> Idle]
  /\ calls = 0
  /\ faults = 0

\* Every command opens the switch first.  The processes are alike: the first
\* calls are theirs in the order of their numbers.
Start(p) ==
  /\ ~Running(p) /\ \A q \in 1..(p - 1) : job[q].cmd # "none"
  /\ calls < Menus[menu].calls
  /\ calls' = calls + 1
  /\ \E call \in Menus[menu].run :
       job' = [job EXCEPT ![p] =
                 Settle([Idle EXCEPT !.cmd = call[1], !.opt = call[2], !.id = Somebody + calls',
                           !.todo = switchtec_open ++ Commands[call[1]].script ++ Skip,
                           !.ret = "none",
                           !.act0 = sw.act])]
  /\ UNCHANGED <<menu, sw, faults>>

\* What the others find changed.
Meets(p, s) ==
  LET new == {f \in DOMAIN sw : sw[f] # s[f]}
  IN  [q \in Procs |-> IF q = p THEN job[q] ELSE [job[q] EXCEPT !.met = @ \cup new]]

\* The switch does the command, and the process is told.
Done(p) ==
  /\ At(p, "cmd")
  /\ LET c == job[p].todo.now.c IN
     \E s \in {Effect(c, job[p], sw)} :
         /\ ~Refuses(c)
         /\ sw' = s
         /\ \E n \in IF c = "multicfg" THEN {0, 1} ELSE {Told(job[p], c, s).left} :
              job' = [Meets(p, s) EXCEPT ![p] = Goes([Told(@, c, s) EXCEPT !.left = n])]
  /\ UNCHANGED <<menu, calls, faults>>

\* What has failed is remembered.
Fail(j, c) == [j EXCEPT !.failed = @ \cup {c}]

\* The command fails, by the word of the switch (mrpc) or on the way (sys): then
\* it may have been done.  A switch that does not know the flag of the boot
\* partition has it writable (fw_is_boot_ro).
Failed(p) ==
  /\ At(p, "cmd")
  /\ LET c == job[p].todo.now.c
         fails(s, res) ==
           /\ sw' = s
           /\ job' = [Meets(p, s) EXCEPT ![p] = Settle(Return(Fail(@, c), res))]
     IN  /\ \/ fails(sw, "mrpc") /\ c # "BOOT_RO_GET"
            \/ /\ c = "BOOT_RO_GET"
               /\ job' = [job EXCEPT ![p] = Goes([@ EXCEPT !.bootro = "rw"])]
               /\ UNCHANGED sw
            \/ ~Refuses(c) /\ \E s \in {sw, Effect(c, job[p], sw)} : fails(s, "sys")
         /\ IF Refuses(c) THEN UNCHANGED faults ELSE faults < MaxFaults /\ faults' = faults + 1
  /\ UNCHANGED <<menu, calls>>

\* Nobody waits for the end of the command.
Posted(p) ==
  /\ At(p, "post")
  /\ \E s \in {sw, Effect(job[p].todo.now.c, job[p], sw)} :
       sw' = s /\ job' = [Meets(p, s) EXCEPT ![p] = Goes(@)]
  /\ UNCHANGED <<menu, calls, faults>>

\* How often the user was sure.
Agree(j) == [j EXCEPT !.sure = IF j.todo.now.k = "confirm" THEN @ + 1 ELSE @]

\* The user's options, files and answers: as they should be, or not.
Agrees(p) ==
  /\ At(p, "input") \/ At(p, "confirm")
  /\ job' = [job EXCEPT ![p] = Goes(Agree(@))]
  /\ UNCHANGED <<menu, sw, calls, faults>>

Refused(p) ==
  /\ At(p, "input") \/ At(p, "confirm")
  /\ job' = [job EXCEPT ![p] = Settle(Return(@, "err"))]
  /\ UNCHANGED <<menu, sw, calls, faults>>

Kill(p) ==
  /\ Running(p)
  /\ faults < MaxFaults
  /\ faults' = faults + 1
  /\ job' = [job EXCEPT ![p] = [@ EXCEPT !.todo = Skip, !.callers = None, !.ret = "killed"]]
  /\ UNCHANGED <<menu, sw, calls>>

\* The switch has collected the topology, or measured the cross hair or the eye,
\* or has failed to.
Collected ==
  /\ \E w \in Works, r \in {"ready", "failed"} :
       sw.work[w] = "wait" /\ sw' = [sw EXCEPT !.work[w] = r]
  /\ UNCHANGED <<menu, job, calls, faults>>

Step(p) == Done(p) \/ Failed(p) \/ Posted(p) \/ Agrees(p) \/ Refused(p)

Terminated == calls = Menus[menu].calls /\ (\A p \in Procs : ~Running(p)) /\ (\A w \in Works : sw.work[w] # "wait")
              /\ UNCHANGED vars

Next == (\E p \in Procs : Start(p) \/ Step(p) \/ Kill(p)) \/ Collected \/ Terminated

\* The user answers, the library bounds the time of a command, the switch
\* collects: of the processes that run one always goes on.
Fairness == WF_vars(Collected) /\ WF_vars(\E p \in Procs : Step(p))
Spec == Init /\ [][Next]_vars /\ Fairness

-----------------------------------------------------------------------------
(* Properties.                                                                 *)

\* What is left of a dump is never less than nothing; numbers of calls are of
\* calls there were; the loopback modes that are on are those the switch has.
Ids == 0..(Somebody + calls)
Has5 == {m.on : m \in {Parallel, External, Pipe, Ltssm}}
HasOther == {m.on : m \in {RxToTx, TxToRx, Ltssm}}
JobOK(j) ==
  /\ DOMAIN j = DOMAIN Idle
  /\ j.cmd \in DOMAIN Commands \cup {"none"} /\ (j.cmd = "none" <=> j.ret = "idle")
  /\ j.ret \in {"idle", "none", "ok", "err", "killed"} /\ j.res \in {"ok", "mrpc", "sys", "err"}
  /\ j.id \in Ids /\ (j.cmd # "none" => j.id > Somebody) /\ j.seen \subseteq Ids
  /\ j.left \in 0..Chunks /\ j.got \in Nat /\ j.sure \in Nat
  /\ j.versions \in BOOLEAN /\ j.kmsk \in BOOLEAN
  /\ j.ses \in Sessions \cup {"none"} /\ j.met \subseteq DOMAIN sw
SwitchOK ==
  /\ DOMAIN sw = Fields
  /\ sw.gen \in 3..6 /\ sw.kmsk \in BOOLEAN /\ sw.queue \in 0..Chunks
  /\ \A f \in Forgotten : sw[f] \in Ids
  /\ sw.work \in [Works -> {"wait", "ready", "failed"}]
  /\ sw.loop \subseteq IF sw.gen = 5 THEN Has5 ELSE HasOther
TypeOK ==
  /\ menu \in DOMAIN Menus /\ calls \in 0..Menus[menu].calls /\ faults \in 0..MaxFaults
  /\ DOMAIN job = Procs /\ \A p \in Procs : JobOK(job[p])
  /\ SwitchOK

Asks(p, C) == At(p, "cmd") /\ job[p].todo.now.c \in C
Ended(p) == job[p].ret \in {"ok", "err", "killed"}

\* When a command is sent that the switch does only for a key, or for a
\* signature, the last key and the last signature it was given are those of this
\* call, unless another call has sent its own in between: never what a former
\* call left there (lib/mfg.c).
Keyed  == {"UNLOCK_STATIC", "UNLOCK_DATA", "UNLOCK_UPDATE", "SEC_VER_UPDATE", "STATIC_DISABLE"}
SignedCmds == {"UNLOCK_STATIC", "SEC_VER_UPDATE", "STATIC_DISABLE"}
AuthIsOwn ==
  \A p \in Procs : LET j == job[p]
                       secured == Asks(p, {"KMSK"}) /\ j.sec = "INITIALIZED_SECURED"
                       dok == Asks(p, {"DOK_KEY_ADD", "DOK_KEY_REVOKE"}) /\ "signature" \in j.opt
    IN  /\ Asks(p, Keyed) \/ secured => sw.pub = j.id \/ "pub" \in j.met
        /\ Asks(p, SignedCmds) \/ secured \/ dok => sw.sig = j.id \/ "sig" \in j.met

\* A command that cannot be undone is sent after the user has agreed, and to a
\* switch that is as it was tested to be, unless another call has changed it
\* since: the state of its security not yet set, no key hash added before, settings
\* that were read (cli/mfg.c); an image of a newer secure version only where the
\* user has agreed a second time (cli/main.c).
ForGood == {"SET_SECURED", "SET_UNSECURED", "DEBUG_PROTECT", "CONFIG_SET", "KMSK", "SEC_VER_UPDATE",
            "UNLOCK_UPDATE", "STATIC_DISABLE", "DEV_SETTINGS", "CUSTOMER_SETTINGS",
            "SECURITY_SETTINGS", "DOK_KEY_ADD", "DOK_KEY_REVOKE", "WRITE"}
IrreversibleAsChecked ==
  \A p \in Procs : Asks(p, ForGood) => LET j == job[p] IN
    /\ j.sure >= IF Asks(p, {"WRITE"}) /\ j.versions /\ "newer" \in j.opt THEN 2 ELSE 1
    /\ Asks(p, {"SET_SECURED", "SET_UNSECURED", "DEBUG_PROTECT", "CONFIG_SET"}) =>
         sw.sec \in {"UNINITIALIZED_UNSECURED", "SECURE_CAPABLE"} \/ "sec" \in j.met
    /\ Asks(p, {"CONFIG_SET"}) => j.saved = "ok"
    /\ Asks(p, {"KMSK"}) => sw.kmsk = FALSE \/ "kmsk" \in j.met

\* An update that made the boot partition writable, and was not killed, leaves it
\* read-only again if the image was written, or failed to be (fw_update; only a
\* Gen3 switch knows the flag).
BootRoRestored ==
  \A p \in Procs : LET j == job[p] IN
    (/\ Ended(p) /\ j.cmd = "fw_update" /\ j.gen = 3 /\ {"boot", "set_boot_rw"} \subseteq j.opt
     /\ j.ret = "ok" \/ "WRITE" \in j.failed
     /\ "SET_BOOT_RO" \notin j.failed /\ "bootro" \notin j.met)
    => j.ret = "killed" \/ sw.bootro = "ro"

\* What a command that sets several things reports is so.  Where fw_toggle reports
\* success the partitions that were asked for, and no others, are active, and
\* where it reports an error of the switch, those that were (not in BL2, where no
\* answer is awaited, nor where another call has moved the switch into or out of
\* BL2, which toggles others); after loopback --disable no mode is on, whatever was.
SettingsAsReported ==
  \A p \in Procs : LET j == job[p] IN
    /\ (/\ Ended(p) /\ j.cmd = "fw_toggle" /\ j.ret # "killed" /\ j.phase # "BL2"
        /\ {"act", "phase"} \cap j.met = {})
       => /\ j.saved = "ok"   => sw.act = Flip(j.act0, Asked(j.opt, j.gen, j.phase))
          /\ j.saved = "mrpc" => sw.act = j.act0
    /\ (/\ Ended(p) /\ j.cmd = "loopback" /\ j.ret = "ok"
        /\ "disable" \in j.opt /\ "loop" \notin j.met)
       => sw.loop = {}

\* A command that dumps and succeeds has got every part of its own dump, unless
\* another call has opened or closed a session of that kind in between.
DumpIsOwn ==
  \A p \in Procs : LET j == job[p] IN
    Ended(p) /\ j.ret = "ok" /\ j.ses # "none" /\ j.ses \notin j.met => j.got = Chunks

\* A command that succeeds leaves none of its sessions open: nothing but errors
\* and kills can leave the log of the link states frozen, or a topology dump,
\* that the next one would find unfinished (lib/fabric.c, lib/diag.c).  A cross
\* hair and an eye are ended by the next call that measures one.
SessionsClosed ==
  \A p \in Procs : Ended(p) /\ job[p].ret = "ok" =>
    \A s \in Sessions \ {"img", "cross", "eye"} : sw[s] # job[p].id

\* The latencies, and the bandwidths, are those measured since this call's setup,
\* unless another set up its own (lib/pmon.c); after an error of the switch to the
\* setup bw goes on (cli/main.c), and nothing is said of what it measures.
MeasuresOwnSetup ==
  \A p \in Procs : LET j == job[p] IN
    Ended(p) /\ j.ret = "ok" =>
      /\ j.cmd = "latency" /\ "lat" \notin j.met => j.seen = {j.id}
      /\ j.cmd = "bw" /\ "BW_SET" \notin j.failed /\ "bw" \notin j.met
         => j.seen = {j.id}

\* A counter the user did not name is set up only where nothing is counted yet,
\* unless another call took it after it was found free (get_free_counter).
FreeCounter ==
  \A p \in Procs : Asks(p, {"EVCNTR_SETUP"}) /\ "given" \notin job[p].opt =>
    sw.counter = 0 \/ "counter" \in job[p].met

\* Every command ends, whatever fails, and whoever else is at work: no loop waits
\* for what does not come.
CommandEnds == (\E p \in Procs : Running(p)) ~> \A p \in Procs : ~Running(p)
=============================================================================
