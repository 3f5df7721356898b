---------------------------- MODULE Shell_proofs ----------------------------
(* Proofs about Shell.                                                         *)
EXTENDS Shell, TLAPS

JobFields == DOMAIN Idle

LEMMA IdleDomain ==
  JobFields = {"cmd", "opt", "id", "todo", "callers", "ret", "gen", "phase", "res", "saved", "sec",
               "kmsk", "left", "status", "versions", "bootro", "counter", "sure", "ses", "got",
               "seen", "failed", "met", "act0"}
BY DEF JobFields, Idle

MfgFields(e, c, id, s) ==
  /\ DOMAIN e = Fields
  /\ e.pub = IF c = "PUBKEY" THEN id ELSE s.pub
  /\ e.sig = IF c = "SIGNATURE" THEN id ELSE s.sig
  /\ e.sec = IF c = "SET_SECURED" THEN "INITIALIZED_SECURED"
             ELSE IF c = "SET_UNSECURED" THEN "INITIALIZED_UNSECURED" ELSE s.sec
  /\ e.kmsk = IF c = "KMSK" THEN TRUE ELSE s.kmsk
  /\ e.phase = IF c = "BOOTUP_RESUME" THEN "FW" ELSE IF c = "FW_TX_EXEC" THEN "BL2" ELSE s.phase
  /\ \A f \in Fields \ {"pub", "sig", "sec", "kmsk", "phase"} : e[f] = s[f]

LEMMA MfgEffectFields ==
  ASSUME NEW c, NEW id, NEW s, DOMAIN s = Fields
  PROVE  MfgFields(MfgEffect(c, id, s), c, id, s)
BY DEF MfgFields, MfgEffect, Fields, Sessions

FwFields(e, c, opt, s) ==
  /\ DOMAIN e = Fields
  /\ e.bootro = IF c = "SET_BOOT_RW" THEN "rw" ELSE IF c = "SET_BOOT_RO" THEN "ro" ELSE s.bootro
  /\ e.act = IF c = "TOGGLE" THEN Flip(s.act, Asked(opt, s.gen, s.phase))
             ELSE IF c = "TOGGLE_BL2" THEN Flip(s.act, {"bl2"}) ELSE s.act
  /\ \A f \in Fields \ {"bootro", "act"} : e[f] = s[f]

LEMMA FwEffectFields ==
  ASSUME NEW c, NEW opt, NEW s, DOMAIN s = Fields
  PROVE  FwFields(FwEffect(c, opt, s), c, opt, s)
BY DEF FwFields, FwEffect, Fields, Sessions

LoopAfter(c, loop) ==
  (loop \cup {m.on : m \in {n \in Modes : n.on = c}}) \ {m.on : m \in {n \in Modes : n.off = c}}
LEMMA DiagEffectFields ==
  ASSUME NEW c, NEW s, DOMAIN s = Fields
  PROVE  LET e == DiagEffect(c, s)
         IN  /\ DOMAIN e = Fields /\ e.loop = LoopAfter(c, s.loop)
             /\ \A f \in Fields \ {"loop"} : e[f] = s[f]
BY DEF DiagEffect, LoopAfter, Fields, Sessions

PmonFields(e, c, id, s) ==
  /\ DOMAIN e = Fields
  /\ e.counter = IF c = "EVCNTR_SETUP" THEN id ELSE IF c = "EVCNTR_CLEAR" THEN 0 ELSE s.counter
  /\ e.bw = IF c = "BW_SET" THEN id ELSE s.bw
  /\ e.lat = IF c = "LAT_SETUP" THEN id ELSE s.lat
  /\ \A f \in Fields \ {"counter", "bw", "lat"} : e[f] = s[f]
LEMMA PmonEffectFields ==
  ASSUME NEW c, NEW id, NEW s, DOMAIN s = Fields
  PROVE  PmonFields(PmonEffect(c, id, s), c, id, s)
BY DEF PmonFields, PmonEffect, Fields, Sessions

SesFields(e, c, id, s) ==
  /\ DOMAIN e = Fields
  /\ \A f \in Sessions : e[f] = IF c \in DOMAIN Opens /\ Opens[c] = f THEN id
                                ELSE IF c = "RESET" \/ (c \in DOMAIN Closes /\ Closes[c] = f) THEN 0
                                ELSE s[f]
  /\ e.work = IF c \in DOMAIN Opens
              THEN [w \in Works |-> IF w = Opens[c] THEN "wait" ELSE s.work[w]] ELSE s.work
  /\ e.queue = IF c \in Queues THEN IF s.queue > 0 THEN s.queue - 1 ELSE 0
               ELSE IF c = "EVENTS_CLEAR" THEN 0 ELSE s.queue
  /\ e.loop = IF c = "RESET" THEN {} ELSE s.loop
  /\ \A f \in {"counter", "bw", "lat", "pub", "sig"} : e[f] = IF c = "RESET" THEN 0 ELSE s[f]
  /\ \A f \in {"gen", "phase", "sec", "kmsk", "bootro", "act"} : e[f] = s[f]
LEMMA OpensDomain == DOMAIN Opens = {"TOPO_START", "GFMS_START", "IMG_START", "NVME_MORE",
                                     "NVME_START", "FREEZE", "CROSS_ON", "EYE_START"}
BY DEF Opens
LEMMA ClosesDomain == DOMAIN Closes = {"TOPO_FINISH", "GFMS_FINISH", "NVME_END", "UNFREEZE",
                                       "CROSS_OFF", "EYE_CANCEL"}
BY DEF Closes
LEMMA SessionEffectFields ==
  ASSUME NEW c, NEW id, NEW s, DOMAIN s = Fields
  PROVE  SesFields(SessionEffect(c, id, s), c, id, s)
<1>1. CASE c \in DOMAIN Opens
  <2>1. Opens[c] \in Sessions /\ Opens[c] # "work"  BY <1>1, OpensDomain DEF Opens, Sessions
  <2>2. c \notin Queues /\ c # "EVENTS_CLEAR" /\ c # "RESET" /\ c \notin DOMAIN Closes
    BY <1>1, OpensDomain, ClosesDomain DEF Queues
  <2> QED  BY <1>1, <2>1, <2>2 DEF SesFields, SessionEffect, Fields, Sessions
<1>2. CASE c \in DOMAIN Closes
  <2>1. Closes[c] \in Sessions  BY <1>2, ClosesDomain DEF Closes, Sessions
  <2>2. c \notin Queues /\ c # "EVENTS_CLEAR" /\ c # "RESET" /\ c \notin DOMAIN Opens
    BY <1>2, OpensDomain, ClosesDomain DEF Queues
  <2> QED  BY <1>2, <2>1, <2>2 DEF SesFields, SessionEffect, Fields, Sessions
<1>3. CASE c \notin DOMAIN Opens /\ c \notin DOMAIN Closes
  <2>1. CASE c = "RESET"
    BY <1>3, <2>1 DEF SesFields, SessionEffect, Fields, Sessions, Forgotten, Queues
  <2>2. CASE c # "RESET"
    BY <1>3, <2>2 DEF SesFields, SessionEffect, Fields, Sessions, Queues
  <2> QED  BY <2>1, <2>2
<1> QED  BY <1>1, <1>2, <1>3

\* What a command does to the switch, field by field.
EffectFields(e, c, j, s) ==
  /\ DOMAIN e = Fields /\ e.gen = s.gen
  /\ e.phase = IF c = "BOOTUP_RESUME" THEN "FW" ELSE IF c = "FW_TX_EXEC" THEN "BL2" ELSE s.phase
  /\ e.sec = IF c = "SET_SECURED" THEN "INITIALIZED_SECURED"
             ELSE IF c = "SET_UNSECURED" THEN "INITIALIZED_UNSECURED" ELSE s.sec
  /\ e.kmsk = IF c = "KMSK" THEN TRUE ELSE s.kmsk
  /\ e.bootro = IF c = "SET_BOOT_RW" THEN "rw" ELSE IF c = "SET_BOOT_RO" THEN "ro" ELSE s.bootro
  /\ e.act = IF c = "TOGGLE" THEN Flip(s.act, Asked(j.opt, s.gen, s.phase))
             ELSE IF c = "TOGGLE_BL2" THEN Flip(s.act, {"bl2"}) ELSE s.act
  /\ e.pub = IF c = "RESET" THEN 0 ELSE IF c = "PUBKEY" THEN j.id ELSE s.pub
  /\ e.sig = IF c = "RESET" THEN 0 ELSE IF c = "SIGNATURE" THEN j.id ELSE s.sig
  /\ e.bw = IF c = "RESET" THEN 0 ELSE IF c = "BW_SET" THEN j.id ELSE s.bw
  /\ e.lat = IF c = "RESET" THEN 0 ELSE IF c = "LAT_SETUP" THEN j.id ELSE s.lat
  /\ e.counter = IF c \in {"RESET", "EVCNTR_CLEAR"} THEN 0
                 ELSE IF c = "EVCNTR_SETUP" THEN j.id ELSE s.counter
  /\ e.loop = IF c = "RESET" THEN {} ELSE LoopAfter(c, s.loop)
  /\ e.queue = IF c \in Queues THEN IF s.queue > 0 THEN s.queue - 1 ELSE 0
               ELSE IF c = "EVENTS_CLEAR" THEN 0 ELSE s.queue
  /\ e.work = IF c \in DOMAIN Opens
              THEN [w \in Works |-> IF w = Opens[c] THEN "wait" ELSE s.work[w]] ELSE s.work
  /\ \A f \in Sessions : e[f] = IF c \in DOMAIN Opens /\ Opens[c] = f THEN j.id
                                ELSE IF c = "RESET" \/ (c \in DOMAIN Closes /\ Closes[c] = f) THEN 0
                                ELSE s[f]

LEMMA EffectDoes ==
  ASSUME NEW c, NEW j, NEW s, DOMAIN s = Fields
  PROVE  EffectFields(Effect(c, j, s), c, j, s)
<1> DEFINE e1 == MfgEffect(c, j.id, s)
           e2 == FwEffect(c, j.opt, e1)
           e3 == DiagEffect(c, e2)
           e4 == PmonEffect(c, j.id, e3)
           e5 == SessionEffect(c, j.id, e4)
<1>1. MfgFields(e1, c, j.id, s)  BY MfgEffectFields
<1> HIDE DEF e1
<1>2. FwFields(e2, c, j.opt, e1)  BY <1>1, FwEffectFields DEF MfgFields
<1> HIDE DEF e2
<1>3. DOMAIN e3 = Fields /\ e3.loop = LoopAfter(c, e2.loop) /\ \A f \in Fields \ {"loop"} : e3[f] = e2[f]
  BY <1>2, DiagEffectFields DEF FwFields
<1> HIDE DEF e3
<1>4. PmonFields(e4, c, j.id, e3)  BY <1>3, PmonEffectFields
<1> HIDE DEF e4
<1>5. SesFields(e5, c, j.id, e4)  BY <1>4, SessionEffectFields DEF PmonFields
<1> HIDE DEF e5
<1>6. /\ e5.gen = s.gen
      /\ e5.phase = IF c = "BOOTUP_RESUME" THEN "FW" ELSE IF c = "FW_TX_EXEC" THEN "BL2" ELSE s.phase
      /\ e5.sec = IF c = "SET_SECURED" THEN "INITIALIZED_SECURED"
                  ELSE IF c = "SET_UNSECURED" THEN "INITIALIZED_UNSECURED" ELSE s.sec
      /\ e5.bootro = IF c = "SET_BOOT_RW" THEN "rw" ELSE IF c = "SET_BOOT_RO" THEN "ro" ELSE s.bootro
  BY <1>1, <1>2, <1>3, <1>4, <1>5 DEF MfgFields, FwFields, PmonFields, SesFields, Fields
<1>12. e4.work = s.work /\ e4.queue = s.queue
  BY <1>1, <1>2, <1>3, <1>4 DEF MfgFields, FwFields, PmonFields, Fields
<1>15. e5.kmsk = e4.kmsk /\ e4.kmsk = e3.kmsk /\ e3.kmsk = e2.kmsk /\ e2.kmsk = e1.kmsk
  BY <1>2, <1>3, <1>4, <1>5 DEF FwFields, PmonFields, SesFields, Fields
<1>16. e5.kmsk = IF c = "KMSK" THEN TRUE ELSE s.kmsk  BY <1>1, <1>15 DEF MfgFields
<1>13. e5.work = (IF c \in DOMAIN Opens
              THEN [w \in Works |-> IF w = Opens[c] THEN "wait" ELSE s.work[w]] ELSE s.work)
  BY <1>5, <1>12 DEF SesFields
<1>14. e5.queue = IF c \in Queues THEN IF s.queue > 0 THEN s.queue - 1 ELSE 0
                    ELSE IF c = "EVENTS_CLEAR" THEN 0 ELSE s.queue
  BY <1>5, <1>12 DEF SesFields
<1>7. e5.act = IF c = "TOGGLE" THEN Flip(s.act, Asked(j.opt, s.gen, s.phase))
               ELSE IF c = "TOGGLE_BL2" THEN Flip(s.act, {"bl2"}) ELSE s.act
  BY <1>1, <1>2, <1>3, <1>4, <1>5 DEF MfgFields, FwFields, PmonFields, SesFields, Fields
<1>8. /\ e5.pub = IF c = "RESET" THEN 0 ELSE IF c = "PUBKEY" THEN j.id ELSE s.pub
      /\ e5.sig = IF c = "RESET" THEN 0 ELSE IF c = "SIGNATURE" THEN j.id ELSE s.sig
      /\ e5.bw = IF c = "RESET" THEN 0 ELSE IF c = "BW_SET" THEN j.id ELSE s.bw
      /\ e5.lat = IF c = "RESET" THEN 0 ELSE IF c = "LAT_SETUP" THEN j.id ELSE s.lat
      /\ e5.counter = IF c \in {"RESET", "EVCNTR_CLEAR"} THEN 0
                      ELSE IF c = "EVCNTR_SETUP" THEN j.id ELSE s.counter
      /\ e5.loop = IF c = "RESET" THEN {} ELSE LoopAfter(c, s.loop)
  BY <1>1, <1>2, <1>3, <1>4, <1>5 DEF MfgFields, FwFields, PmonFields, SesFields, Fields
<1>9. \A f \in Sessions : e4[f] = s[f]
  BY <1>1, <1>2, <1>3, <1>4 DEF MfgFields, FwFields, PmonFields, Fields, Sessions
<1>10. \A f \in Sessions : e5[f] = IF c \in DOMAIN Opens /\ Opens[c] = f THEN j.id
                                ELSE IF c = "RESET" \/ (c \in DOMAIN Closes /\ Closes[c] = f) THEN 0
                                ELSE s[f]
  BY <1>9, <1>5 DEF SesFields
<1>11. Effect(c, j, s) = e5  BY DEF Effect, e1, e2, e3, e4, e5
<1> QED  BY <1>5, <1>6, <1>7, <1>8, <1>10, <1>11, <1>13, <1>14, <1>16 DEF EffectFields, SesFields

\* What a process is told, field by field (left is the number n).
Told2(j, c, n, s) == [Told(j, c, s) EXCEPT !.left = n]
ToldFields(i, c, n, j, s) ==
  /\ DOMAIN i = DOMAIN Idle
  /\ i.gen = (IF c = "dev_info" THEN s.gen ELSE j.gen)
  /\ i.phase = (IF c = "dev_info" THEN s.phase ELSE j.phase)
  /\ i.left = n
  /\ i.ses = (IF c \in DOMAIN Opens THEN Opens[c] ELSE j.ses)
  /\ i.got = (CASE c = "IMG_START" -> 1
               [] c = "CROSS_GET" /\ s.cross = j.id /\ s.work.cross = "ready" -> Chunks
               [] Gets(c, s) /\ s[Reads[c]] = j.id -> j.got + 1
               [] OTHER -> j.got)
  /\ i.seen = (IF c = "BW_GET" THEN j.seen \cup {s.bw}
               ELSE IF c = "LAT_GET" THEN j.seen \cup {s.lat} ELSE j.seen)
  /\ i.sec = (IF c \in {"config", "config_ext", "otp", "state"} THEN s.sec ELSE j.sec)
  /\ i.kmsk = (IF c \in {"config", "config_ext"} THEN s.kmsk ELSE j.kmsk)
  /\ i.status = (IF c \notin DOMAIN Polls THEN j.status
                 ELSE IF s[Polls[c]] = 0 THEN "none" ELSE s.work[Polls[c]])
  /\ i.versions = (j.versions \/ c = "sn_ver")
  /\ i.bootro = (IF c = "BOOT_RO_GET" THEN s.bootro ELSE j.bootro)
  /\ i.counter = (IF c = "EVCNTR_GET" THEN s.counter ELSE j.counter)
  /\ \A f \in {"cmd", "opt", "id", "todo", "callers", "ret", "res", "saved", "sure", "failed", "met", "act0"} :
       i[f] = j[f]
LEMMA ToldIs ==
  ASSUME NEW c, NEW n, NEW j, NEW s, DOMAIN j = DOMAIN Idle
  PROVE  ToldFields(Told2(j, c, n, s), c, n, j, s)
<1>1. DOMAIN j = JobFields  BY DEF JobFields
<1>2. DOMAIN Told2(j, c, n, s) = DOMAIN Idle  BY DEF Told2, Told
<1> QED  BY <1>1, <1>2, IdleDomain, ZenonT(40) DEF ToldFields, Told2, Told

-----------------------------------------------------------------------------
(* What is known of a call.                                                    *)

Own(f, j, s) == s[f] = j.id \/ f \in j.met
Fresh == {"UNINITIALIZED_UNSECURED", "SECURE_CAPABLE"}
Dumps == {"topo", "gfms", "nvme", "log"}
Reporting == {"latency", "bw", "fw_update", "fw_toggle", "loopback"}

Restored(j, s) ==
  j.gen = 3 /\ {"boot", "set_boot_rw"} \subseteq j.opt /\ "SET_BOOT_RO" \notin j.failed
  /\ "bootro" \notin j.met => s.bootro = "ro"
Other(j) == j.phase = "BL2" \/ "act" \in j.met \/ "phase" \in j.met
Moved(j, s) == Other(j) \/ s.act = Flip(j.act0, Asked(j.opt, j.gen, j.phase))
Unmoved(j, s) == Other(j) \/ s.act = j.act0
AllOff(j, s) == "disable" \in j.opt /\ "loop" \notin j.met => s.loop = {}
Dumped(j) == j.ses = "none" \/ j.ses \in j.met \/ j.got = Chunks

\* Facts about sessions.
Opened == [topo |-> "topo open", gfms |-> "gfms open", img |-> "img open", nvme |-> "nvme open",
           log |-> "log open", cross |-> "cross open", eye |-> "eye open"]
Counted == [topo |-> "topo counted", gfms |-> "gfms counted", img |-> "img counted",
            nvme |-> "nvme counted", log |-> "log counted", cross |-> "cross counted",
            eye |-> "eye counted"]

\* What facts mean, by their names.
HasAuth(K, j, s) ==
  /\ "pub" \in K => Own("pub", j, s)
  /\ "sig" \in K => Own("sig", j, s)
  /\ "auth" \in K => (j.sec = "INITIALIZED_SECURED" => Own("pub", j, s) /\ Own("sig", j, s))
  /\ "dok" \in K => ("signature" \in j.opt => Own("sig", j, s))
  /\ "sure" \in K => j.sure >= 1
  /\ "twice" \in K => (j.versions = TRUE /\ "newer" \in j.opt => j.sure >= 2)
  /\ "told sec" \in K => j.sec \in {"none", s.sec} \/ "sec" \in j.met
  /\ "fresh" \in K => s.sec \in Fresh \/ "sec" \in j.met
  /\ "some sec" \in K => j.sec # "none"
  /\ "told kmsk" \in K => j.sec = "none" \/ j.kmsk = s.kmsk \/ "kmsk" \in j.met
  /\ "no kmsk" \in K => s.kmsk = FALSE \/ "kmsk" \in j.met
  /\ "saved" \in K => j.saved = "ok"
HasMeasure(K, j, s) ==
  /\ "told counter" \in K => j.counter = s.counter \/ "counter" \in j.met
  /\ "free" \in K => "given" \in j.opt \/ s.counter = 0 \/ "counter" \in j.met
  /\ "unseen" \in K => j.seen = {}
  /\ "lat set" \in K => Own("lat", j, s)
  /\ "lat seen" \in K => j.seen = {j.id} \/ "lat" \in j.met
  /\ "bw set" \in K => Own("bw", j, s) \/ "BW_SET" \in j.failed
  /\ "bw res" \in K => (j.res \in {"ok", "mrpc"} => Own("bw", j, s) \/ "BW_SET" \in j.failed)
  /\ "bw seen" \in K => j.seen = {j.id} \/ "bw" \in j.met \/ "BW_SET" \in j.failed
HasFw(K, j, s) ==
  /\ "no write" \in K => "WRITE" \notin j.failed
  /\ "restored" \in K => Restored(j, s)
  /\ "restored if written" \in K => ("WRITE" \in j.failed => Restored(j, s))
  /\ "told gen" \in K => j.gen = s.gen
  /\ "told phase" \in K => j.phase = s.phase \/ "phase" \in j.met
  /\ "open res" \in K => (j.res = "ok" => j.gen = s.gen /\ (j.phase = s.phase \/ "phase" \in j.met))
  /\ "bl2" \in K => j.phase = "BL2"
  /\ "moved" \in K => Moved(j, s)
  /\ "unmoved" \in K => Unmoved(j, s)
  /\ "act kept" \in K => s.act = j.act0 \/ "act" \in j.met
  /\ "toggle res" \in K => (j.res = "ok" => Moved(j, s)) /\ (j.res = "mrpc" => Unmoved(j, s))
  /\ "unsaved" \in K => j.saved = "none"
  /\ "reported" \in K => (j.saved = "ok" => Moved(j, s)) /\ (j.saved = "mrpc" => Unmoved(j, s))
HasLoop(K, j, s) ==
  /\ "keeps on" \in K => "disable" \notin j.opt
  /\ "disable alone" \in K => ("disable" \in j.opt => j.opt \cap (LoopOptions \ {"disable"}) = {})
  /\ \A m \in Modes : m.on \in K =>
       ("disable" \in j.opt /\ "loop" \notin j.met => m.on \notin s.loop)
  /\ "gen5" \in K => j.gen = 5
  /\ "not gen5" \in K => j.gen # 5
  /\ "off on gen5" \in K => (j.gen = 5 => AllOff(j, s))
  /\ "off" \in K => AllOff(j, s)
HasSes(K, j, s) ==
  /\ \A f \in Dumps : f \in K => s[f] # j.id
  /\ "no session" \in K => j.ses = "none"
  /\ "dumped" \in K => Dumped(j)
  /\ "over" \in K => (j.res = "ok" => Dumped(j) /\ \A f \in Dumps : s[f] # j.id)
  /\ "more" \in K => j.left # 0
  /\ "none got" \in K => j.got = 0
  /\ "fetched" \in K => j.status \in {"none", "ready", "failed"} \/ j.left # 0
  /\ \A f \in Sessions :
       /\ Opened[f] \in K => j.ses = f /\ (f \in j.met \/ (s[f] = j.id /\ j.got = 0))
       /\ Counted[f] \in K => j.ses = f /\ (f \in j.met \/ (s[f] = j.id /\ j.left + j.got = Chunks))
  /\ "scanned" \in K => j.ses = "cross" /\ ("cross" \in j.met
                          \/ (s.cross = j.id /\ (j.status \in {"none", "ready"} => j.got = Chunks)))
Has(K, j, s) ==
  /\ "plain" \in K => j.cmd \notin Reporting
  /\ \A n \in Reporting : n \in K => j.cmd = n
  /\ HasAuth(K, j, s) /\ HasMeasure(K, j, s) /\ HasFw(K, j, s) /\ HasLoop(K, j, s)
  /\ HasSes(K, j, s)

\* What holds of a call in every state.
JobSane(j) ==
  /\ DOMAIN j = DOMAIN Idle
  /\ j.res \in {"ok", "mrpc", "sys", "err"} /\ j.id \in Nat /\ j.id > Somebody
  /\ j.left \in 0..Chunks /\ j.got \in Nat /\ j.sure \in Nat
  /\ j.versions \in BOOLEAN /\ j.kmsk \in BOOLEAN
  /\ j.ses \in Sessions \cup {"none"} /\ j.met \subseteq Fields
SwitchSane(s) ==
  /\ DOMAIN s = Fields
  /\ s.gen \in 3..6 /\ s.kmsk \in BOOLEAN /\ s.queue \in 0..Chunks
  /\ s.work \in [Works -> {"wait", "ready", "failed"}]
  /\ s.loop \subseteq IF s.gen = 5 THEN Has5 ELSE HasOther
Sane(j, s) == JobSane(j) /\ SwitchSane(s)

\* A command may be sent.
Uses == DOMAIN Reads \cup {"LOG_NEXT", "OSA_READ"}
May(c, j, s) ==
  /\ c \in Keyed \/ (c = "KMSK" /\ j.sec = "INITIALIZED_SECURED") => Own("pub", j, s)
  /\ \/ c \in SignedCmds \/ (c = "KMSK" /\ j.sec = "INITIALIZED_SECURED")
     \/ (c \in {"DOK_KEY_ADD", "DOK_KEY_REVOKE"} /\ "signature" \in j.opt)
     => Own("sig", j, s)
  /\ c \in ForGood =>
       j.sure >= IF c = "WRITE" /\ j.versions = TRUE /\ "newer" \in j.opt THEN 2 ELSE 1
  /\ c \in {"SET_SECURED", "SET_UNSECURED", "DEBUG_PROTECT", "CONFIG_SET"} =>
       s.sec \in Fresh \/ "sec" \in j.met
  /\ c = "CONFIG_SET" => j.saved = "ok"
  /\ c = "KMSK" => s.kmsk = FALSE \/ "kmsk" \in j.met
  /\ c = "EVCNTR_SETUP" /\ "given" \notin j.opt => s.counter = 0 \/ "counter" \in j.met
  /\ c \in Uses => j.left # 0
  /\ c \in {Parallel.on, External.on, Pipe.on} => s.gen = 5
  /\ c \in {RxToTx.on, TxToRx.on} => s.gen # 5

\* What holds of a call that has ended.
Fin(j, s) ==
  /\ j.ret = "ok" =>
       /\ \A f \in Dumps : s[f] # j.id
       /\ Dumped(j)
       /\ j.cmd = "latency" => j.seen = {j.id} \/ "lat" \in j.met
       /\ j.cmd = "bw" => j.seen = {j.id} \/ "bw" \in j.met \/ "BW_SET" \in j.failed
       /\ j.cmd = "loopback" => AllOff(j, s)
  /\ j.ret \in {"ok", "err"} =>
       /\ j.cmd = "fw_toggle" =>
            (j.saved = "ok" => Moved(j, s)) /\ (j.saved = "mrpc" => Unmoved(j, s))
       /\ j.cmd = "fw_update" /\ (j.ret = "ok" \/ "WRITE" \in j.failed) => Restored(j, s)

-----------------------------------------------------------------------------
(* Steps of a call.                                                            *)
Holding(W, j, s) ==
  IF j.ret = "none" THEN \E K : <<K, j.todo, j.callers>> \in W /\ Has(K, j, s) ELSE Fin(j, s)
Proceeds(W, j, s) == Holding(W, [j EXCEPT !.todo = @.then, !.res = "ok"], s)
Gives(W, j, r, s) == Holding(W, Return(j, r), s)

Lefts(j, c, s) == IF c = "multicfg" THEN {0, 1} ELSE {Told(j, c, s).left}

Ready(W, j, s) ==
  LET c == j.todo.now.c
      k == j.todo.now.k
      e == Effect(c, j, s)
  IN  /\ k = "cmd" =>
           /\ May(c, j, s)
           /\ \A n \in Lefts(j, c, e) : Proceeds(W, Told2(j, c, n, e), e)
           /\ c = "BOOT_RO_GET" => Proceeds(W, [j EXCEPT !.bootro = "rw"], s)
           /\ Gives(W, Fail(j, c), "mrpc", s)
           /\ \A x \in {s, e} : Gives(W, Fail(j, c), "sys", x)
      /\ k = "post" => May(c, j, s) /\ \A x \in {s, e} : Proceeds(W, j, x)
      /\ k \in {"input", "confirm"} => Proceeds(W, Agree(j), s) /\ Gives(W, j, "err", s)

Good(z, W) ==
  \A j, s : Sane(j, s) /\ j.ret = "none" /\ j.todo = z[2] /\ j.callers = z[3] /\ Has(z[1], j, s) =>
    IF AtTest(j) THEN Holding(W, Test(j), s) ELSE Ready(W, j, s)

Closed(X, Y) == \A z \in X : Good(z, X \cup Y)
Runs(x, Y) == \E X : x \in X /\ Closed(X, Y)

Entails(K, L) == \A j, s : Sane(j, s) /\ Has(K, j, s) => Has(L, j, s)
Verdict(r) == IF r = "ok" THEN "ok" ELSE "err"
Faces(R, F) == \A j, s : Verdict(j.res) \in R /\ Sane(j, s) /\ Has(F, j, s) =>
                           Fin([j EXCEPT !.ret = Verdict(j.res)], s)
Ends(F, cs) == IF cs.k = "caller" THEN {<<F, cs.todo, cs.callers>>} ELSE {}
Does(R, F, K, t, L) ==
  \A c, cs : cs.k = "caller" \/ Faces(R, F) => Runs(<<K, t ++ c, cs>>, {<<L, c, cs>>} \cup Ends(F, cs))

Same(i, j) == \A f \in JobFields \ {"todo", "callers", "ret", "res", "bootro"} : i[f] = j[f]
NoRes(K) == K \cap {"bw res", "toggle res", "open res", "over"} = {}
LEMMA HasSame ==
  ASSUME NEW K, NEW j, NEW i, NEW s, Same(i, j), Has(K, j, s), NoRes(K) \/ i.res = j.res
  PROVE  Has(K, i, s)
<1>1. /\ i.cmd = j.cmd /\ i.opt = j.opt /\ i.id = j.id /\ i.gen = j.gen /\ i.phase = j.phase
      /\ i.saved = j.saved /\ i.sec = j.sec /\ i.kmsk = j.kmsk /\ i.left = j.left
      /\ i.status = j.status /\ i.versions = j.versions
      /\ i.counter = j.counter /\ i.sure = j.sure /\ i.ses = j.ses /\ i.got = j.got
      /\ i.seen = j.seen /\ i.failed = j.failed /\ i.met = j.met /\ i.act0 = j.act0
  BY IdleDomain DEF Same
<1>2. HasAuth(K, i, s)
  <2>1. HasAuth(K, j, s)  BY DEF Has
  <2>2. "twice" \in K => (i.versions = TRUE /\ "newer" \in i.opt => i.sure >= 2)
    BY <1>1, <2>1 DEF HasAuth
  <2>3. "told kmsk" \in K => i.sec = "none" \/ i.kmsk = s.kmsk \/ "kmsk" \in i.met
    BY <1>1, <2>1 DEF HasAuth
  <2> QED  BY <1>1, <2>1, <2>2, <2>3, ZenonT(40) DEF HasAuth, Own
<1>3. HasMeasure(K, i, s)  BY <1>1 DEF Has, HasMeasure, Own, NoRes
<1>4. HasFw(K, i, s)
  <2>1. /\ Restored(i, s) <=> Restored(j, s)
        /\ Moved(i, s) <=> Moved(j, s)
        /\ Unmoved(i, s) <=> Unmoved(j, s)
    BY <1>1 DEF Moved, Unmoved, Other, Restored
  <2>2. K \cap {"toggle res", "open res"} # {} => i.res = j.res  BY DEF NoRes
  <2> QED  BY <1>1, <2>1, <2>2, ZenonT(40) DEF Has, HasFw
<1>5. HasLoop(K, i, s)  BY <1>1 DEF Has, HasLoop, AllOff
<1>6. HasSes(K, i, s)
  <2>1. Dumped(i) <=> Dumped(j)  BY <1>1 DEF Dumped
  <2>2. "over" \in K => i.res = j.res  BY DEF NoRes
  <2> QED  BY <1>1, <2>1, <2>2 DEF Has, HasSes
<1> QED  BY <1>1, <1>2, <1>3, <1>4, <1>5, <1>6 DEF Has

LEMMA FinSame ==
  ASSUME NEW j, NEW i, NEW s, Same(i, j), i.ret = j.ret, Fin(j, s)
  PROVE  Fin(i, s)
BY IdleDomain DEF Same, Fin, Dumped, AllOff, Moved, Unmoved, Other, Restored

LEMMA SaneEffect ==
  ASSUME NEW c, NEW j, NEW s, SwitchSane(s), May(c, j, s)
  PROVE  SwitchSane(Effect(c, j, s))
<1> DEFINE e == Effect(c, j, s)
<1>1. EffectFields(e, c, j, s)  BY EffectDoes DEF SwitchSane
<1> HIDE DEF e
<1>2. e.gen \in 3..6 /\ e.kmsk \in BOOLEAN /\ DOMAIN e = Fields  BY <1>1 DEF EffectFields, SwitchSane
<1>3. e.queue \in 0..Chunks  BY <1>1, BoundsAssumption DEF EffectFields, SwitchSane
<1>4. e.work \in [Works -> {"wait", "ready", "failed"}]  BY <1>1 DEF EffectFields, SwitchSane
<1>5. ASSUME c = "RESET" PROVE SwitchSane(e)
  BY <1>1, <1>2, <1>3, <1>4, <1>5 DEF EffectFields, SwitchSane
<1>6. ASSUME c # "RESET" PROVE SwitchSane(e)
  <2>1. e.loop = LoopAfter(c, s.loop) /\ e.gen = s.gen  BY <1>1, <1>6 DEF EffectFields
  <2>2. ASSUME s.gen = 5 PROVE LoopAfter(c, s.loop) \subseteq Has5
    BY <2>2 DEF SwitchSane, May, LoopAfter, Modes, Has5, Parallel, External, Pipe, Ltssm, RxToTx, TxToRx
  <2>3. ASSUME s.gen # 5 PROVE LoopAfter(c, s.loop) \subseteq HasOther
    BY <2>3 DEF SwitchSane, May, LoopAfter, Modes, HasOther, Parallel, External, Pipe, Ltssm, RxToTx, TxToRx
  <2> QED  BY <1>2, <1>3, <1>4, <2>1, <2>2, <2>3 DEF SwitchSane
<1> QED  BY <1>5, <1>6 DEF e

LEMMA LeftsBounded ==
  ASSUME NEW c, NEW j, NEW s, NEW e, JobSane(j), SwitchSane(e), c \in Uses => j.left # 0,
         NEW n \in Lefts(j, c, e)
  PROVE  n \in 0..Chunks
<1>1. CASE c = "multicfg"  BY <1>1, BoundsAssumption DEF Lefts
<1>2. CASE c # "multicfg"
  <2>1. n = Told(j, c, e).left  BY <1>2 DEF Lefts
  <2>2. n = CASE c \in Counts -> Chunks
              [] c \in Firsts -> Chunks - 1
              [] Gets(c, e) \/ c \in {"LOG_NEXT", "OSA_READ"} -> j.left - 1
              [] c \in Queues -> e.queue
              [] OTHER -> j.left
    BY <2>1, IdleDomain DEF Told, JobSane, JobFields
  <2>3. Gets(c, e) \/ c \in {"LOG_NEXT", "OSA_READ"} => j.left # 0  BY DEF Uses, Gets
  <2> QED  BY <2>2, <2>3, BoundsAssumption DEF JobSane, SwitchSane
<1> QED  BY <1>1, <1>2

LEMMA SaneTold ==
  ASSUME NEW c, NEW j, NEW s, NEW e, NEW n \in Lefts(j, c, e), JobSane(j), SwitchSane(e),
         c \in Uses => j.left # 0
  PROVE  JobSane(Told2(j, c, n, e))
<1> DEFINE i == Told2(j, c, n, e)
<1>1. ToldFields(i, c, n, j, e)  BY ToldIs DEF JobSane
<1>2. n \in 0..Chunks  BY LeftsBounded
<1> HIDE DEF i
<1>3. i.ses \in Sessions \cup {"none"}
  <2>1. c \in DOMAIN Opens => Opens[c] \in Sessions  BY OpensDomain DEF Opens, Sessions
  <2> QED  BY <1>1, <2>1 DEF ToldFields, JobSane
<1>4. i.got \in Nat  BY <1>1, BoundsAssumption DEF ToldFields, JobSane
<1>5. i.versions \in BOOLEAN  BY <1>1 DEF ToldFields, JobSane
<1>6. i.kmsk \in BOOLEAN  BY <1>1 DEF ToldFields, JobSane, SwitchSane
<1>7. JobSane(i)  BY <1>1, <1>2, <1>3, <1>4, <1>5, <1>6 DEF ToldFields, JobSane
<1> QED  BY <1>7 DEF i

LEMMA SaneSame ==
  ASSUME NEW i, NEW j, JobSane(j), DOMAIN i = DOMAIN Idle, i.res \in {"ok", "mrpc", "sys", "err"},
         \A f \in {"id", "left", "got", "sure", "versions", "kmsk", "ses", "met"} : i[f] = j[f]
  PROVE  JobSane(i)
BY DEF JobSane

\* Returns and tests.
LEMMA ReturnIs ==
  ASSUME NEW j, NEW r, DOMAIN j = DOMAIN Idle
  PROVE  LET i == Return(j, r)
         IN  /\ DOMAIN i = DOMAIN Idle
             /\ \A f \in JobFields \ {"todo", "callers", "ret", "res"} : i[f] = j[f]
             /\ IF j.callers.k = "caller"
                THEN i.todo = j.callers.todo /\ i.callers = j.callers.callers /\ i.res = r
                     /\ i.ret = j.ret
                ELSE i.todo = Skip /\ i.ret = (IF r = "ok" THEN "ok" ELSE "err") /\ i.res = j.res
BY IdleDomain DEF Return, JobFields

LEMMA TestIs ==
  ASSUME NEW j, DOMAIN j = DOMAIN Idle
  PROVE  LET i == Test(j)
         IN  /\ DOMAIN i = DOMAIN Idle
             /\ \A f \in JobFields \ {"todo", "callers", "ret", "res", "saved"} : i[f] = j[f]
             /\ i.res \in {j.res, "ok", "err"} /\ i.ret \in {j.ret, "ok", "err"}
<1>1. CASE j.todo.k = "skip"
  BY <1>1, ReturnIs DEF Test
<1>2. CASE j.todo.k # "skip"
  <2> DEFINE step == j.todo.now
  <2>1. \/ Test(j) \in {j, Return(j, "ok"), Return(j, "err")}
        \/ \E x : Test(j) \in {[j EXCEPT !.todo = x], [[j EXCEPT !.todo = x] EXCEPT !.saved = j.res]}
        \/ \E x, y : Test(j) = [[j EXCEPT !.todo = x] EXCEPT !.callers = y]
    BY <1>2 DEF Test
  <2>2. DOMAIN j = JobFields  BY DEF JobFields
  <2>3. CASE Test(j) \in {j, Return(j, "ok"), Return(j, "err")}  BY <2>3, ReturnIs
  <2>4. CASE \E x : Test(j) \in {[j EXCEPT !.todo = x], [[j EXCEPT !.todo = x] EXCEPT !.saved = j.res]}
    BY <2>2, <2>4, IdleDomain
  <2>5. CASE \E x, y : Test(j) = [[j EXCEPT !.todo = x] EXCEPT !.callers = y]
    BY <2>2, <2>5, IdleDomain
  <2> QED  BY <2>1, <2>3, <2>4, <2>5
<1> QED  BY <1>1, <1>2

LEMMA SaneTest ==
  ASSUME NEW j, JobSane(j)
  PROVE  JobSane(Test(j))
<1>1. DOMAIN j = DOMAIN Idle  BY DEF JobSane
<1>2. /\ DOMAIN Test(j) = DOMAIN Idle /\ Test(j).res \in {j.res, "ok", "err"}
      /\ \A f \in JobFields \ {"todo", "callers", "ret", "res", "saved"} : Test(j)[f] = j[f]
  BY <1>1, TestIs
<1>3. \A f \in {"id", "left", "got", "sure", "versions", "kmsk", "ses", "met"} : Test(j)[f] = j[f]
  BY <1>2, IdleDomain
<1> QED  BY <1>2, <1>3, SaneSame DEF JobSane

-----------------------------------------------------------------------------
(* Where a step leads.                                                         *)
Lands(R, F, cs, W) == IF cs.k = "caller" THEN <<F, cs.todo, cs.callers>> \in W ELSE Faces(R, F)

LEMMA DoHolds ==
  ASSUME NEW W, NEW L, NEW j, NEW s, NEW x, Sane(j, s), j.ret = "none", Has(L, j, s),
         <<L, x, j.callers>> \in W
  PROVE  Holding(W, [j EXCEPT !.todo = x], s)
<1> DEFINE i == [j EXCEPT !.todo = x]
<1>1. /\ \A f \in JobFields \ {"todo"} : i[f] = j[f]
      /\ i.todo = x
  BY IdleDomain DEF Sane, JobSane, JobFields
<1> HIDE DEF i
<1>2. Same(i, j) /\ i.res = j.res /\ i.ret = "none" /\ i.callers = j.callers
  BY <1>1, IdleDomain DEF Same
<1>3. Has(L, i, s)  BY <1>2, HasSame
<1>4. Holding(W, i, s)  BY <1>1, <1>2, <1>3 DEF Holding
<1> QED  BY <1>4 DEF i

LEMMA GivesHolds ==
  ASSUME NEW W, NEW R, NEW F, NEW j, NEW s, NEW r \in {"ok", "mrpc", "sys", "err"},
         Sane(j, s), j.ret = "none", Lands(R, F, j.callers, W), Has(F, [j EXCEPT !.res = r], s),
         Verdict(r) \in R
  PROVE  Gives(W, j, r, s)
<1> DEFINE i == Return(j, r)
           g == [j EXCEPT !.res = r]
           h == [g EXCEPT !.ret = Verdict(r)]
<1>0. DOMAIN j = JobFields  BY DEF Sane, JobSane, JobFields
<1>1. /\ \A f \in JobFields \ {"todo", "callers", "ret", "res"} : i[f] = j[f]
      /\ IF j.callers.k = "caller"
         THEN i.todo = j.callers.todo /\ i.callers = j.callers.callers /\ i.res = r
                     /\ i.ret = j.ret
         ELSE i.todo = Skip /\ i.ret = (IF r = "ok" THEN "ok" ELSE "err") /\ i.res = j.res
  BY <1>0, ReturnIs DEF JobFields
<1>2. g.res = r /\ \A f \in JobFields \ {"res"} : g[f] = j[f]  BY <1>0, IdleDomain
<1>3. h.ret = Verdict(r) /\ \A f \in JobFields \ {"res", "ret"} : h[f] = j[f]  BY <1>0, IdleDomain
<1>4. JobSane(g)
  <2>1. DOMAIN g = DOMAIN Idle  BY <1>0 DEF JobFields
  <2>2. \A f \in {"id", "left", "got", "sure", "versions", "kmsk", "ses", "met"} : g[f] = j[f]
    BY <1>2, IdleDomain
  <2> HIDE DEF g
  <2> QED  BY <2>1, <2>2, <1>2, SaneSame DEF Sane
<1> HIDE DEF i, g
<1>5. CASE j.callers.k = "caller"
  <2>1. Same(i, g) /\ i.res = g.res  BY <1>1, <1>2, <1>5, IdleDomain DEF Same
  <2>2. Has(F, i, s)  BY <2>1, HasSame DEF g
  <2>3. Holding(W, i, s)  BY <1>1, <1>5, <2>2 DEF Holding, Lands
  <2> QED  BY <2>3 DEF Gives, i
<1>6. CASE j.callers.k # "caller"
  <2>1. Fin(h, s)
    <3>1. Sane(g, s) /\ Has(F, g, s)  BY <1>4 DEF Sane, g
    <3>2. Faces(R, F)  BY <1>6 DEF Lands
    <3> QED  BY <1>2, <3>1, <3>2 DEF Faces
  <2> HIDE DEF h
  <2>2. Same(i, h) /\ i.ret = h.ret  BY <1>1, <1>3, <1>6, IdleDomain DEF Same, Verdict
  <2>3. Fin(i, s)  BY <2>1, <2>2, FinSame
  <2>4. i.ret # "none"  BY <1>1, <1>6
  <2>5. Holding(W, i, s)  BY <2>3, <2>4 DEF Holding
  <2> QED  BY <2>5 DEF Gives, i
<1> QED  BY <1>5, <1>6

LEMMA GoesHolds ==
  ASSUME NEW W, NEW L, NEW j, NEW s, Sane(j, s), j.ret = "none", Has(L, [j EXCEPT !.res = "ok"], s),
         <<L, j.todo.then, j.callers>> \in W
  PROVE  Proceeds(W, j, s)
<1> DEFINE i == [j EXCEPT !.todo = @.then, !.res = "ok"]
           g == [j EXCEPT !.res = "ok"]
<1>0. DOMAIN j = JobFields  BY DEF Sane, JobSane, JobFields
<1>1. i.todo = j.todo.then /\ i.res = "ok" /\ \A f \in JobFields \ {"todo", "res"} : i[f] = j[f]
  BY <1>0, IdleDomain
<1>2. g.res = "ok" /\ \A f \in JobFields \ {"res"} : g[f] = j[f]  BY <1>0, IdleDomain
<1> HIDE DEF i, g
<1>3. Same(i, g) /\ i.res = g.res /\ i.ret = "none" /\ i.callers = j.callers
  BY <1>1, <1>2, IdleDomain DEF Same
<1>4. Has(L, i, s)  BY <1>3, HasSame DEF g
<1>5. Holding(W, i, s)  BY <1>1, <1>3, <1>4 DEF Holding
<1> QED  BY <1>5 DEF Proceeds, i

Covers(V, W) == \A K, t, b : <<K, t, b>> \in W => \E L : <<L, t, b>> \in V /\ Entails(K, L)
LEMMA HoldingWeaker ==
  ASSUME NEW W, NEW V, NEW j, NEW s, Sane(j, s), Holding(W, j, s), Covers(V, W)
  PROVE  Holding(V, j, s)
<1>1. CASE j.ret = "none"
  <2>1. PICK K : <<K, j.todo, j.callers>> \in W /\ Has(K, j, s)  BY <1>1 DEF Holding
  <2>2. PICK L : <<L, j.todo, j.callers>> \in V /\ Entails(K, L)  BY <2>1 DEF Covers
  <2> QED  BY <1>1, <2>1, <2>2 DEF Holding, Entails
<1> QED  BY <1>1 DEF Holding

LEMMA SaneReturn ==
  ASSUME NEW j, NEW r \in {"ok", "mrpc", "sys", "err"}, JobSane(j)
  PROVE  JobSane(Return(j, r))
<1>1. DOMAIN j = DOMAIN Idle  BY DEF JobSane
<1>2. /\ DOMAIN Return(j, r) = DOMAIN Idle /\ Return(j, r).res \in {r, j.res}
      /\ \A f \in {"id", "left", "got", "sure", "versions", "kmsk", "ses", "met"} :
           Return(j, r)[f] = j[f]
  BY <1>1, ReturnIs, IdleDomain
<1> QED  BY <1>2, SaneSame DEF JobSane

LEMMA SaneGoes ==
  ASSUME NEW j, JobSane(j)
  PROVE  JobSane([j EXCEPT !.todo = @.then, !.res = "ok"])
<1> DEFINE i == [j EXCEPT !.todo = @.then, !.res = "ok"]
<1>0. DOMAIN j = JobFields  BY DEF JobSane, JobFields
<1>1. i.res = "ok" /\ \A f \in JobFields \ {"todo", "res"} : i[f] = j[f]  BY <1>0, IdleDomain
<1>2. DOMAIN i = DOMAIN Idle  BY <1>0 DEF JobFields
<1> HIDE DEF i
<1>3. \A f \in {"id", "left", "got", "sure", "versions", "kmsk", "ses", "met"} : i[f] = j[f]
  BY <1>1, IdleDomain
<1>4. JobSane(i)  BY <1>1, <1>2, <1>3, SaneSame
<1> QED  BY <1>4 DEF i

LEMMA SaneFail ==
  ASSUME NEW j, NEW c, JobSane(j)
  PROVE  JobSane(Fail(j, c)) /\ JobSane([j EXCEPT !.bootro = "rw"]) /\ JobSane(Agree(j))
<1>0. DOMAIN j = JobFields  BY DEF JobSane, JobFields
<1>1. JobSane(Fail(j, c))  BY <1>0, IdleDomain DEF Fail, JobSane, JobFields
<1>2. JobSane([j EXCEPT !.bootro = "rw"])  BY <1>0, IdleDomain DEF JobSane, JobFields
<1>3. JobSane(Agree(j))  BY <1>0, IdleDomain DEF Agree, JobSane, JobFields
<1> QED  BY <1>1, <1>2, <1>3

LEMMA GoodWeaker ==
  ASSUME NEW W, NEW V, NEW z, Covers(V, W), Good(z, W)
  PROVE  Good(z, V)
<1> SUFFICES ASSUME NEW j, NEW s, Sane(j, s), j.ret = "none", j.todo = z[2], j.callers = z[3],
                    Has(z[1], j, s)
             PROVE  IF AtTest(j) THEN Holding(V, Test(j), s) ELSE Ready(V, j, s)
  BY DEF Good
<1>0. IF AtTest(j) THEN Holding(W, Test(j), s) ELSE Ready(W, j, s)  BY DEF Good
<1>1. \A i, x : JobSane(i) /\ SwitchSane(x) /\ Holding(W, i, x) => Holding(V, i, x)
  BY HoldingWeaker DEF Sane
<1>2. JobSane(j) /\ SwitchSane(s)  BY DEF Sane
<1>3. CASE AtTest(j)  BY <1>0, <1>1, <1>2, <1>3, SaneTest
<1>4. CASE ~AtTest(j)
  <2> DEFINE c == j.todo.now.c
             k == j.todo.now.k
             e == Effect(c, j, s)
  <2>1. ASSUME NEW i, NEW x, JobSane(i), SwitchSane(x), Proceeds(W, i, x) PROVE Proceeds(V, i, x)
    BY <2>1, <1>1, SaneGoes DEF Proceeds
  <2>2. ASSUME NEW i, NEW x, NEW r \in {"ok", "mrpc", "sys", "err"}, JobSane(i), SwitchSane(x),
               Gives(W, i, r, x)
        PROVE  Gives(V, i, r, x)
    BY <2>2, <1>1, SaneReturn DEF Gives
  <2>3. Ready(W, j, s)  BY <1>0, <1>4
  <2>4. k \in {"cmd", "post"} => May(c, j, s) /\ SwitchSane(e)  BY <2>3, <1>2, SaneEffect DEF Ready
  <2>5. ASSUME k = "cmd"
        PROVE  /\ \A n \in Lefts(j, c, e) : Proceeds(V, Told2(j, c, n, e), e)
               /\ c = "BOOT_RO_GET" => Proceeds(V, [j EXCEPT !.bootro = "rw"], s)
               /\ Gives(V, Fail(j, c), "mrpc", s)
               /\ \A x \in {s, e} : Gives(V, Fail(j, c), "sys", x)
    <3>1. \A n \in Lefts(j, c, e) : Proceeds(V, Told2(j, c, n, e), e)
      <4> SUFFICES ASSUME NEW n \in Lefts(j, c, e) PROVE Proceeds(V, Told2(j, c, n, e), e)
        OBVIOUS
      <4>1. c \in Uses => j.left # 0  BY <2>4, <2>5 DEF May
      <4>2. JobSane(Told2(j, c, n, e))  BY <4>1, <1>2, <2>4, <2>5, SaneTold
      <4>3. Proceeds(W, Told2(j, c, n, e), e)  BY <2>3, <2>5 DEF Ready
      <4> QED  BY <4>2, <4>3, <2>1, <2>4, <2>5
    <3>2. c = "BOOT_RO_GET" => Proceeds(V, [j EXCEPT !.bootro = "rw"], s)
      BY <2>3, <2>5, <2>1, <1>2, SaneFail DEF Ready
    <3>3. Gives(V, Fail(j, c), "mrpc", s) /\ \A x \in {s, e} : Gives(V, Fail(j, c), "sys", x)
      BY <2>3, <2>5, <2>2, <1>2, <2>4, SaneFail DEF Ready
    <3> QED  BY <3>1, <3>2, <3>3
  <2>6. ASSUME k = "post" PROVE \A x \in {s, e} : Proceeds(V, j, x)
    BY <2>3, <2>6, <2>1, <1>2, <2>4 DEF Ready
  <2>7. ASSUME k \in {"input", "confirm"} PROVE Proceeds(V, Agree(j), s) /\ Gives(V, j, "err", s)
    BY <2>3, <2>7, <2>1, <2>2, <1>2, SaneFail DEF Ready
  <2>8. Ready(V, j, s)  BY <2>4, <2>5, <2>6, <2>7 DEF Ready
  <2> QED  BY <1>4, <2>8
<1> QED  BY <1>3, <1>4

LEMMA EntailsItself == ASSUME NEW K PROVE Entails(K, K)  BY DEF Entails

LEMMA GoodMore ==
  ASSUME NEW W, NEW V, NEW z, W \subseteq V, Good(z, W)
  PROVE  Good(z, V)
<1>1. Covers(V, W)  BY EntailsItself DEF Covers
<1> QED  BY <1>1, GoodWeaker

-----------------------------------------------------------------------------
(* The steps of a script, one by one.                                          *)
LEMMA StepThen ==
  ASSUME NEW W, NEW K, NEW a, NEW b, NEW c, NEW cs, <<K, a ++ (b ++ c), cs>> \in W
  PROVE  Good(<<K, (a ++ b) ++ c, cs>>, W)
<1> SUFFICES ASSUME NEW j, NEW s, Sane(j, s), j.ret = "none", j.todo = (a ++ b) ++ c,
                    j.callers = cs, Has(K, j, s)
             PROVE  AtTest(j) /\ Holding(W, Test(j), s)
  BY DEF Good
<1>1. AtTest(j)  BY DEF AtTest, Takes, ++
<1>2. Test(j) = [j EXCEPT !.todo = a ++ (b ++ c)]  BY DEF Test, ++
<1> QED  BY <1>1, <1>2, DoHolds

LEMMA StepSkip ==
  ASSUME NEW W, NEW K, NEW c, NEW cs, <<K, c, cs>> \in W
  PROVE  Good(<<K, Skip ++ c, cs>>, W)
<1> SUFFICES ASSUME NEW j, NEW s, Sane(j, s), j.ret = "none", j.todo = Skip ++ c,
                    j.callers = cs, Has(K, j, s)
             PROVE  AtTest(j) /\ Holding(W, Test(j), s)
  BY DEF Good
<1>1. AtTest(j)  BY DEF AtTest, Takes, ++, Skip
<1>2. Test(j) = [j EXCEPT !.todo = c]  BY DEF Test, ++, Skip
<1> QED  BY <1>1, <1>2, DoHolds

Knows(K, f, S, L) == \A j, s : Sane(j, s) /\ Has(K, j, s) /\ j[f] \in S => Has(L, j, s)
KnowsNot(K, f, S, L) == \A j, s : Sane(j, s) /\ Has(K, j, s) /\ j[f] \notin S => Has(L, j, s)
\* Where a test fails.
GivesUp(K, f, S, F) ==
  \A j, s : Sane(j, s) /\ Has(K, j, s) /\ j[f] \notin S => Has(F, [j EXCEPT !.res = "err"], s)

LEMMA StepNeed ==
  ASSUME NEW W, NEW R, NEW F, NEW K, NEW L, NEW f, NEW S, NEW c, NEW cs, "err" \in R,
         <<L, c, cs>> \in W, Lands(R, F, cs, W), Knows(K, f, S, L), GivesUp(K, f, S, F)
  PROVE  Good(<<K, Need(f, S) ++ c, cs>>, W)
<1> SUFFICES ASSUME NEW j, NEW s, Sane(j, s), j.ret = "none", j.todo = Need(f, S) ++ c,
                    j.callers = cs, Has(K, j, s)
             PROVE  AtTest(j) /\ Holding(W, Test(j), s)
  BY DEF Good
<1>1. AtTest(j)  BY DEF AtTest, Takes, ++, Need
<1>2. Test(j) = IF j[f] \in S THEN [j EXCEPT !.todo = c] ELSE Return(j, "err")
  BY DEF Test, ++, Need
<1>3. CASE j[f] \in S  BY <1>1, <1>2, <1>3, DoHolds DEF Knows
<1>4. CASE j[f] \notin S
  <2>1. Has(F, [j EXCEPT !.res = "err"], s)  BY <1>4 DEF GivesUp
  <2>2. Gives(W, j, "err", s)  BY <2>1, GivesHolds DEF Verdict
  <2> QED  BY <1>1, <1>2, <1>4, <2>2 DEF Gives
<1> QED  BY <1>3, <1>4

LEMMA StepWhen ==
  ASSUME NEW W, NEW K, NEW L, NEW M, NEW f, NEW S, NEW t, NEW c, NEW cs,
         <<L, t ++ c, cs>> \in W, <<M, c, cs>> \in W, Knows(K, f, S, L), KnowsNot(K, f, S, M)
  PROVE  Good(<<K, When(f, S, t) ++ c, cs>>, W)
<1> SUFFICES ASSUME NEW j, NEW s, Sane(j, s), j.ret = "none", j.todo = When(f, S, t) ++ c,
                    j.callers = cs, Has(K, j, s)
             PROVE  AtTest(j) /\ Holding(W, Test(j), s)
  BY DEF Good
<1>1. AtTest(j)  BY DEF AtTest, Takes, ++, When
<1>2. Test(j) = [j EXCEPT !.todo = IF j[f] \in S THEN t ++ c ELSE c]
  BY DEF Test, ++, When
<1>3. CASE j[f] \in S  BY <1>1, <1>2, <1>3, DoHolds DEF Knows
<1>4. CASE j[f] \notin S  BY <1>1, <1>2, <1>4, DoHolds DEF KnowsNot
<1> QED  BY <1>3, <1>4

LEMMA StepIf ==
  ASSUME NEW W, NEW K, NEW L, NEW M, NEW f, NEW S, NEW a, NEW b, NEW c, NEW cs,
         <<L, a ++ c, cs>> \in W, <<M, b ++ c, cs>> \in W, Knows(K, f, S, L), KnowsNot(K, f, S, M)
  PROVE  Good(<<K, IfElse(f, S, a, b) ++ c, cs>>, W)
<1> SUFFICES ASSUME NEW j, NEW s, Sane(j, s), j.ret = "none", j.todo = IfElse(f, S, a, b) ++ c,
                    j.callers = cs, Has(K, j, s)
             PROVE  AtTest(j) /\ Holding(W, Test(j), s)
  BY DEF Good
<1>1. AtTest(j)  BY DEF AtTest, Takes, ++, IfElse
<1>2. Test(j) = [j EXCEPT !.todo = (IF j[f] \in S THEN a ELSE b) ++ c]
  BY DEF Test, ++, IfElse
<1>3. CASE j[f] \in S  BY <1>1, <1>2, <1>3, DoHolds DEF Knows
<1>4. CASE j[f] \notin S  BY <1>1, <1>2, <1>4, DoHolds DEF KnowsNot
<1> QED  BY <1>3, <1>4

LEMMA StepUntil ==
  ASSUME NEW W, NEW K, NEW L, NEW M, NEW f, NEW S, NEW t, NEW c, NEW cs,
         <<L, c, cs>> \in W, <<M, t ++ (Until(f, S, t) ++ c), cs>> \in W,
         Knows(K, f, S, L), KnowsNot(K, f, S, M)
  PROVE  Good(<<K, Until(f, S, t) ++ c, cs>>, W)
<1> SUFFICES ASSUME NEW j, NEW s, Sane(j, s), j.ret = "none", j.todo = Until(f, S, t) ++ c,
                    j.callers = cs, Has(K, j, s)
             PROVE  AtTest(j) /\ Holding(W, Test(j), s)
  BY DEF Good
<1>1. AtTest(j)  BY DEF AtTest, Takes, ++, Until
<1>2. Test(j) = [j EXCEPT !.todo = IF j[f] \in S THEN c ELSE t ++ (Until(f, S, t) ++ c)]
  BY DEF Test, ++, Until
<1>3. CASE j[f] \in S  BY <1>1, <1>2, <1>3, DoHolds DEF Knows
<1>4. CASE j[f] \notin S  BY <1>1, <1>2, <1>4, DoHolds DEF KnowsNot
<1> QED  BY <1>3, <1>4

KnowsOpt(K, S, given, L) ==
  \A j, s : Sane(j, s) /\ Has(K, j, s) /\ (j.opt \cap S # {}) = given => Has(L, j, s)
LEMMA StepOpt ==
  ASSUME NEW W, NEW K, NEW L, NEW M, NEW S, NEW t, NEW c, NEW cs, NEW given \in BOOLEAN,
         <<L, t ++ c, cs>> \in W, <<M, c, cs>> \in W,
         KnowsOpt(K, S, given, L), KnowsOpt(K, S, ~given, M)
  PROVE  Good(<<K, [k |-> "opt", in |-> S, given |-> given, steps |-> t] ++ c, cs>>, W)
<1> DEFINE o == [k |-> "opt", in |-> S, given |-> given, steps |-> t]
<1> SUFFICES ASSUME NEW j, NEW s, Sane(j, s), j.ret = "none", j.todo = o ++ c,
                    j.callers = cs, Has(K, j, s)
             PROVE  AtTest(j) /\ Holding(W, Test(j), s)
  BY DEF Good
<1>1. AtTest(j)  BY DEF AtTest, Takes, ++
<1>2. Test(j) = [j EXCEPT !.todo = IF (j.opt \cap S # {}) = given THEN t ++ c ELSE c]
  BY DEF Test, ++
<1>3. CASE (j.opt \cap S # {}) = given  BY <1>1, <1>2, <1>3, DoHolds DEF KnowsOpt
<1>4. CASE (j.opt \cap S # {}) # given
  <2>1. (j.opt \cap S # {}) = ~given  BY <1>4
  <2> QED  BY <1>1, <1>2, <1>4, <2>1, DoHolds DEF KnowsOpt
<1> QED  BY <1>3, <1>4

LEMMA StepTimes ==
  ASSUME NEW W, NEW K, NEW n, NEW t, NEW c, NEW cs,
         IF n = 0 THEN <<K, c, cs>> \in W ELSE <<K, t ++ (Times(n - 1, t) ++ c), cs>> \in W
  PROVE  Good(<<K, Times(n, t) ++ c, cs>>, W)
<1> SUFFICES ASSUME NEW j, NEW s, Sane(j, s), j.ret = "none", j.todo = Times(n, t) ++ c,
                    j.callers = cs, Has(K, j, s)
             PROVE  AtTest(j) /\ Holding(W, Test(j), s)
  BY DEF Good
<1>1. AtTest(j)  BY DEF AtTest, Takes, ++, Times
<1>2. Test(j) = [j EXCEPT !.todo = IF n = 0 THEN c ELSE t ++ (Times(n - 1, t) ++ c)]
  BY DEF Test, ++, Times
<1>3. CASE n = 0  BY <1>1, <1>2, <1>3, DoHolds
<1>4. CASE n # 0  BY <1>1, <1>2, <1>4, DoHolds
<1> QED  BY <1>3, <1>4

\* What holds where steps end with the result r.
Returns(K, r, L) == \A j, s : Sane(j, s) /\ Has(K, j, s) => Has(L, [j EXCEPT !.res = r], s)

LEMMA StepTry ==
  ASSUME NEW W, NEW K, NEW t, NEW c, NEW cs, <<K, t ++ Skip, Caller(c, cs)>> \in W
  PROVE  Good(<<K, Try(t) ++ c, cs>>, W)
<1> SUFFICES ASSUME NEW j, NEW s, Sane(j, s), j.ret = "none", j.todo = Try(t) ++ c,
                    j.callers = cs, Has(K, j, s)
             PROVE  AtTest(j) /\ Holding(W, Test(j), s)
  BY DEF Good
<1> DEFINE i == [[j EXCEPT !.todo = t ++ Skip] EXCEPT !.callers = Caller(c, @)]
<1>1. AtTest(j)  BY DEF AtTest, Takes, ++, Try
<1>0. /\ j.todo.k = "then" /\ j.todo.now = Try(t) /\ j.todo.then = c
      /\ j.todo.now.k = "try" /\ j.todo.now.steps = t
  BY DEF ++, Try
<1>2. Test(j) = i
  <2>1. Test(j) = [[j EXCEPT !.todo = j.todo.now.steps ++ Skip] EXCEPT !.callers = Caller(j.todo.then, @)]
    BY <1>0 DEF Test
  <2> QED  BY <2>1, <1>0
<1>3. DOMAIN j = JobFields  BY DEF Sane, JobSane, JobFields
<1>4. /\ i.todo = t ++ Skip /\ i.callers = Caller(c, cs)
      /\ \A f \in JobFields \ {"todo", "callers"} : i[f] = j[f]
  BY <1>3, IdleDomain
<1> HIDE DEF i
<1>5. Same(i, j) /\ i.res = j.res /\ i.ret = "none"  BY <1>4, IdleDomain DEF Same
<1>6. Has(K, i, s)  BY <1>5, HasSame
<1>7. Holding(W, i, s)  BY <1>4, <1>5, <1>6 DEF Holding
<1> QED  BY <1>1, <1>2, <1>7

LEMMA StepLeave ==
  ASSUME NEW W, NEW R, NEW F, NEW K, NEW c, NEW cs, "ok" \in R, Lands(R, F, cs, W),
         Returns(K, "ok", F)
  PROVE  Good(<<K, [k |-> "leave"] ++ c, cs>>, W)
<1> SUFFICES ASSUME NEW j, NEW s, Sane(j, s), j.ret = "none", j.todo = [k |-> "leave"] ++ c,
                    j.callers = cs, Has(K, j, s)
             PROVE  AtTest(j) /\ Holding(W, Test(j), s)
  BY DEF Good
<1>1. AtTest(j)  BY DEF AtTest, Takes, ++
<1>2. Test(j) = Return(j, "ok")  BY DEF Test, ++
<1>3. Has(F, [j EXCEPT !.res = "ok"], s)  BY DEF Returns
<1>4. Gives(W, j, "ok", s)  BY <1>3, GivesHolds DEF Verdict
<1> QED  BY <1>1, <1>2, <1>4 DEF Gives

\* The end of the steps of a Try, or of a call.
LEMMA StepEnd ==
  ASSUME NEW W, NEW F, NEW K, NEW cs, Lands({"ok"}, F, cs, W), Returns(K, "ok", F)
  PROVE  Good(<<K, Skip, cs>>, W)
<1> SUFFICES ASSUME NEW j, NEW s, Sane(j, s), j.ret = "none", j.todo = Skip,
                    j.callers = cs, Has(K, j, s)
             PROVE  AtTest(j) /\ Holding(W, Test(j), s)
  BY DEF Good
<1>1. AtTest(j)  BY DEF AtTest, Takes, Skip
<1>2. Test(j) = Return(j, "ok")  BY DEF Test, Skip
<1>3. Has(F, [j EXCEPT !.res = "ok"], s)  BY DEF Returns
<1>4. Gives(W, j, "ok", s)  BY <1>3, GivesHolds DEF Verdict
<1> QED  BY <1>1, <1>2, <1>4 DEF Gives

Saves(K, L) == \A j, s : Sane(j, s) /\ Has(K, j, s) => Has(L, [j EXCEPT !.saved = j.res], s)
LEMMA StepSave ==
  ASSUME NEW W, NEW K, NEW L, NEW c, NEW cs, <<L, c, cs>> \in W, Saves(K, L)
  PROVE  Good(<<K, SaveResult ++ c, cs>>, W)
<1> SUFFICES ASSUME NEW j, NEW s, Sane(j, s), j.ret = "none", j.todo = SaveResult ++ c,
                    j.callers = cs, Has(K, j, s)
             PROVE  AtTest(j) /\ Holding(W, Test(j), s)
  BY DEF Good
<1> DEFINE i == [[j EXCEPT !.todo = c] EXCEPT !.saved = j.res]
           g == [j EXCEPT !.saved = j.res]
<1>1. AtTest(j)  BY DEF AtTest, Takes, ++, SaveResult
<1>2. Test(j) = i  BY DEF Test, ++, SaveResult
<1>3. DOMAIN j = JobFields  BY DEF Sane, JobSane, JobFields
<1>4. i.todo = c /\ i.saved = j.res /\ \A f \in JobFields \ {"todo", "saved"} : i[f] = j[f]
  BY <1>3, IdleDomain
<1>5. g.saved = j.res /\ \A f \in JobFields \ {"saved"} : g[f] = j[f]  BY <1>3, IdleDomain
<1>6. Has(L, g, s)  BY DEF Saves
<1> HIDE DEF i, g
<1>7. Same(i, g) /\ i.res = g.res /\ i.ret = "none" /\ i.callers = cs
  BY <1>4, <1>5, IdleDomain DEF Same
<1>8. Has(L, i, s)  BY <1>6, <1>7, HasSame
<1>9. Holding(W, i, s)  BY <1>4, <1>7, <1>8 DEF Holding
<1> QED  BY <1>1, <1>2, <1>9

\* The user.
Agreed(K, L, n) ==
  \A j, s : Sane(j, s) /\ Has(K, j, s) => Has(L, [[j EXCEPT !.sure = @ + n] EXCEPT !.res = "ok"], s)
LEMMA StepAsk ==
  ASSUME NEW W, NEW R, NEW F, NEW K, NEW L, NEW c, NEW cs, NEW a \in {Input, Confirm}, "err" \in R,
         <<L, c, cs>> \in W, Lands(R, F, cs, W), Returns(K, "err", F),
         Agreed(K, L, IF a = Confirm THEN 1 ELSE 0)
  PROVE  Good(<<K, a ++ c, cs>>, W)
<1> SUFFICES ASSUME NEW j, NEW s, Sane(j, s), j.ret = "none", j.todo = a ++ c,
                    j.callers = cs, Has(K, j, s)
             PROVE  ~AtTest(j) /\ Ready(W, j, s)
  BY DEF Good
<1> DEFINE n == IF a = Confirm THEN 1 ELSE 0
           i == [j EXCEPT !.sure = @ + n]
           g == Agree(j)
<1>1. ~AtTest(j) /\ j.todo.now.k = a.k /\ a.k \in {"input", "confirm"} /\ j.todo.then = c
  BY DEF AtTest, Takes, ++, Input, Confirm
<1>2. a = Confirm <=> a.k = "confirm"  BY DEF Input, Confirm
<1>3. DOMAIN j = JobFields /\ j.sure \in Nat  BY DEF Sane, JobSane, JobFields
<1>4. i.sure = j.sure + n /\ \A f \in JobFields \ {"sure"} : i[f] = j[f]  BY <1>3, IdleDomain
<1>5. g.sure = j.sure + n /\ \A f \in JobFields \ {"sure"} : g[f] = j[f]
  BY <1>1, <1>2, <1>3, IdleDomain DEF Agree
<1>6. Has(L, [i EXCEPT !.res = "ok"], s)  BY DEF Agreed
<1>7. DOMAIN i = JobFields /\ DOMAIN g = JobFields  BY <1>3 DEF Agree
<1>8. JobSane(g)  BY SaneFail DEF Sane
<1> HIDE DEF i, g
<1>9. [g EXCEPT !.res = "ok"] = [i EXCEPT !.res = "ok"] \/ Has(L, [g EXCEPT !.res = "ok"], s)
  <2> DEFINE x == [g EXCEPT !.res = "ok"]
             y == [i EXCEPT !.res = "ok"]
  <2>1. x.res = "ok" /\ \A f \in JobFields \ {"res"} : x[f] = g[f]  BY <1>7, IdleDomain
  <2>2. y.res = "ok" /\ \A f \in JobFields \ {"res"} : y[f] = i[f]  BY <1>7, IdleDomain
  <2>3. Has(L, y, s)  BY <1>6
  <2> HIDE DEF x, y
  <2>4. Same(x, y) /\ x.res = y.res  BY <2>1, <2>2, <1>4, <1>5, IdleDomain DEF Same
  <2>5. Has(L, x, s)  BY <2>3, <2>4, HasSame
  <2> QED  BY <2>5 DEF x
<1>10. Has(L, [g EXCEPT !.res = "ok"], s)  BY <1>6, <1>9
<1>11. g.ret = "none" /\ g.todo = j.todo /\ g.callers = cs  BY <1>5, IdleDomain
<1>12. Proceeds(W, g, s)  BY <1>1, <1>8, <1>10, <1>11, GoesHolds DEF Sane
<1>13. Has(F, [j EXCEPT !.res = "err"], s)  BY DEF Returns
<1>14. Gives(W, j, "err", s)  BY <1>13, GivesHolds DEF Verdict
<1> QED  BY <1>1, <1>12, <1>14 DEF Ready, g

\* A command: where it is done, and where it fails.
CmdOK(x, K, L, F) ==
  \A j, s : Sane(j, s) /\ Has(K, j, s) =>
    LET e == Effect(x, j, s)
    IN  /\ May(x, j, s)
        /\ \A n \in Lefts(j, x, e) : Has(L, [Told2(j, x, n, e) EXCEPT !.res = "ok"], e)
        /\ x = "BOOT_RO_GET" => Has(L, [[j EXCEPT !.bootro = "rw"] EXCEPT !.res = "ok"], s)
        /\ Has(F, [Fail(j, x) EXCEPT !.res = "mrpc"], s)
        /\ \A y \in {s, e} : Has(F, [Fail(j, x) EXCEPT !.res = "sys"], y)
LEMMA StepCmd ==
  ASSUME NEW W, NEW R, NEW F, NEW K, NEW L, NEW c, NEW cs, NEW x, "err" \in R,
         <<L, c, cs>> \in W, Lands(R, F, cs, W), CmdOK(x, K, L, F)
  PROVE  Good(<<K, Cmd(x) ++ c, cs>>, W)
<1> SUFFICES ASSUME NEW j, NEW s, Sane(j, s), j.ret = "none", j.todo = Cmd(x) ++ c,
                    j.callers = cs, Has(K, j, s)
             PROVE  ~AtTest(j) /\ Ready(W, j, s)
  BY DEF Good
<1> DEFINE e == Effect(x, j, s)
<1>1. ~AtTest(j) /\ j.todo.now.k = "cmd" /\ j.todo.now.c = x /\ j.todo.then = c
  BY DEF AtTest, Takes, ++, Cmd
<1>2. DOMAIN j = JobFields /\ JobSane(j) /\ SwitchSane(s)  BY DEF Sane, JobSane, JobFields
<1>3. /\ May(x, j, s)
      /\ \A n \in Lefts(j, x, e) : Has(L, [Told2(j, x, n, e) EXCEPT !.res = "ok"], e)
      /\ x = "BOOT_RO_GET" => Has(L, [[j EXCEPT !.bootro = "rw"] EXCEPT !.res = "ok"], s)
      /\ Has(F, [Fail(j, x) EXCEPT !.res = "mrpc"], s)
      /\ \A y \in {s, e} : Has(F, [Fail(j, x) EXCEPT !.res = "sys"], y)
  BY DEF CmdOK
<1>4. SwitchSane(e)  BY <1>2, <1>3, SaneEffect
<1> HIDE DEF e
<1>5. ASSUME NEW n \in Lefts(j, x, e) PROVE Proceeds(W, Told2(j, x, n, e), e)
  <2> DEFINE i == Told2(j, x, n, e)
  <2>1. x \in Uses => j.left # 0  BY <1>3 DEF May
  <2>2. JobSane(i)  BY <2>1, <1>2, <1>4, SaneTold
  <2>3. ToldFields(i, x, n, j, e)  BY <1>2, ToldIs DEF JobSane
  <2>4. Has(L, [i EXCEPT !.res = "ok"], e)  BY <1>3
  <2> HIDE DEF i
  <2>5. i.todo.then = c /\ i.callers = cs /\ i.ret = "none"  BY <2>3, <1>1 DEF ToldFields
  <2>6. Proceeds(W, i, e)  BY <2>2, <2>4, <2>5, <1>4, GoesHolds DEF Sane
  <2> QED  BY <2>6 DEF i
<1>6. ASSUME x = "BOOT_RO_GET" PROVE Proceeds(W, [j EXCEPT !.bootro = "rw"], s)
  <2> DEFINE i == [j EXCEPT !.bootro = "rw"]
  <2>1. i.todo.then = c /\ i.callers = cs /\ i.ret = "none"  BY <1>1, <1>2, IdleDomain
  <2>2. JobSane(i)  BY <1>2, SaneFail
  <2>3. Has(L, [i EXCEPT !.res = "ok"], s)  BY <1>3, <1>6
  <2> HIDE DEF i
  <2>4. Proceeds(W, i, s)  BY <2>1, <2>2, <2>3, <1>2, GoesHolds DEF Sane
  <2> QED  BY <2>4 DEF i
<1>7. ASSUME NEW y \in {s, e}, NEW r \in {"mrpc", "sys"}, Has(F, [Fail(j, x) EXCEPT !.res = r], y)
      PROVE  Gives(W, Fail(j, x), r, y)
  <2>1. JobSane(Fail(j, x)) /\ SwitchSane(y)  BY <1>2, <1>4, SaneFail
  <2>2. Fail(j, x).callers = cs /\ Fail(j, x).ret = "none"  BY <1>2, IdleDomain DEF Fail
  <2> QED  BY <2>1, <2>2, <1>7, GivesHolds DEF Sane, Verdict
<1>8. Gives(W, Fail(j, x), "mrpc", s)  BY <1>3, <1>7
<1>9. \A y \in {s, e} : Gives(W, Fail(j, x), "sys", y)  BY <1>3, <1>7
<1> QED  BY <1>1, <1>3, <1>5, <1>6, <1>8, <1>9 DEF Ready, e

\* A command whose end nobody waits for.
PostOK(x, K, L) ==
  \A j, s : Sane(j, s) /\ Has(K, j, s) =>
    /\ May(x, j, s)
    /\ \A y \in {s, Effect(x, j, s)} : Has(L, [j EXCEPT !.res = "ok"], y)
LEMMA StepPost ==
  ASSUME NEW W, NEW K, NEW L, NEW c, NEW cs, NEW x, <<L, c, cs>> \in W, PostOK(x, K, L)
  PROVE  Good(<<K, Post(x) ++ c, cs>>, W)
<1> SUFFICES ASSUME NEW j, NEW s, Sane(j, s), j.ret = "none", j.todo = Post(x) ++ c,
                    j.callers = cs, Has(K, j, s)
             PROVE  ~AtTest(j) /\ Ready(W, j, s)
  BY DEF Good
<1> DEFINE e == Effect(x, j, s)
<1>1. ~AtTest(j) /\ j.todo.now.k = "post" /\ j.todo.now.c = x /\ j.todo.then = c
  BY DEF AtTest, Takes, ++, Post
<1>2. May(x, j, s) /\ \A y \in {s, e} : Has(L, [j EXCEPT !.res = "ok"], y)  BY DEF PostOK
<1>3. SwitchSane(s) /\ SwitchSane(e)  BY <1>2, SaneEffect DEF Sane
<1> HIDE DEF e
<1>4. ASSUME NEW y \in {s, e} PROVE Proceeds(W, j, y)
  BY <1>1, <1>2, <1>3, GoesHolds DEF Sane
<1> QED  BY <1>1, <1>2, <1>4 DEF Ready, e

-----------------------------------------------------------------------------
(* Scripts.                                                                    *)
LEMMA ClosedMore ==
  ASSUME NEW X, NEW Y, NEW V, Closed(X, Y), Y \subseteq V, X \subseteq V, NEW z \in X
  PROVE  Good(z, V)
<1>1. Good(z, X \cup Y)  BY DEF Closed
<1> QED  BY <1>1, GoodMore

\* The way from where steps begin: in Does, and where a first step is to be taken.
LEMMA EndsLand ==
  ASSUME NEW R, NEW F, NEW cs, NEW W, cs.k = "caller" \/ Faces(R, F), Ends(F, cs) \subseteq W
  PROVE  Lands(R, F, cs, W)
BY DEF Ends, Lands

LEMMA DoesSeq ==
  ASSUME NEW R, NEW F, NEW K, NEW M, NEW L, NEW a, NEW b, Does(R, F, K, a, M), Does(R, F, M, b, L)
  PROVE  Does(R, F, K, a ++ b, L)
<1> SUFFICES ASSUME NEW c, NEW cs, cs.k = "caller" \/ Faces(R, F)
             PROVE  Runs(<<K, (a ++ b) ++ c, cs>>, {<<L, c, cs>>} \cup Ends(F, cs))
  BY DEF Does
<1>1. PICK A : <<K, a ++ (b ++ c), cs>> \in A /\ Closed(A, {<<M, b ++ c, cs>>} \cup Ends(F, cs))
  BY DEF Does, Runs
<1>2. PICK B : <<M, b ++ c, cs>> \in B /\ Closed(B, {<<L, c, cs>>} \cup Ends(F, cs))
  BY DEF Does, Runs
<1> DEFINE X == A \cup B \cup {<<K, (a ++ b) ++ c, cs>>}
           Y == {<<L, c, cs>>} \cup Ends(F, cs)
<1>3. \A z \in A : Good(z, X \cup Y)  BY <1>1, <1>2, ClosedMore
<1>4. \A z \in B : Good(z, X \cup Y)  BY <1>2, ClosedMore
<1>5. Good(<<K, (a ++ b) ++ c, cs>>, X \cup Y)  BY <1>1, StepThen
<1>6. Closed(X, Y)  BY <1>3, <1>4, <1>5 DEF Closed
<1> QED  BY <1>6 DEF Runs

LEMMA DoesStep ==
  ASSUME NEW R, NEW F, NEW K, NEW L, NEW a,
         \A c, cs : cs.k = "caller" \/ Faces(R, F) =>
           Good(<<K, a ++ c, cs>>, {<<L, c, cs>>} \cup Ends(F, cs))
  PROVE  Does(R, F, K, a, L)
<1> SUFFICES ASSUME NEW c, NEW cs, cs.k = "caller" \/ Faces(R, F)
             PROVE  Runs(<<K, a ++ c, cs>>, {<<L, c, cs>>} \cup Ends(F, cs))
  BY DEF Does
<1> DEFINE X == {<<K, a ++ c, cs>>}
           Y == {<<L, c, cs>>} \cup Ends(F, cs)
<1>1. Good(<<K, a ++ c, cs>>, X \cup Y)
  <2>1. Good(<<K, a ++ c, cs>>, Y) /\ Y \subseteq X \cup Y  OBVIOUS
  <2> HIDE DEF X, Y
  <2> QED  BY <2>1, GoodMore
<1>2. Closed(X, Y)  BY <1>1 DEF Closed
<1> QED  BY <1>2 DEF Runs

LEMMA DoesSkip == ASSUME NEW R, NEW F, NEW K PROVE Does(R, F, K, Skip, K)
BY StepSkip, DoesStep

LEMMA DoesNeed ==
  ASSUME NEW R, NEW F, NEW K, NEW L, NEW f, NEW S, "err" \in R, Knows(K, f, S, L), GivesUp(K, f, S, F)
  PROVE  Does(R, F, K, Need(f, S), L)
<1>1. ASSUME NEW c, NEW cs, cs.k = "caller" \/ Faces(R, F)
      PROVE  Good(<<K, Need(f, S) ++ c, cs>>, {<<L, c, cs>>} \cup Ends(F, cs))
  <2> DEFINE W == {<<L, c, cs>>} \cup Ends(F, cs)
  <2>1. <<L, c, cs>> \in W /\ Lands(R, F, cs, W)  BY <1>1, EndsLand
  <2> HIDE DEF W
  <2>2. Good(<<K, Need(f, S) ++ c, cs>>, W)  BY <2>1, StepNeed
  <2> QED  BY <2>2 DEF W
<1> QED  BY <1>1, DoesStep

LEMMA DoesSave ==
  ASSUME NEW R, NEW F, NEW K, NEW L, Saves(K, L)
  PROVE  Does(R, F, K, SaveResult, L)
BY StepSave, DoesStep

LEMMA DoesInput ==
  ASSUME NEW R, NEW F, NEW K, NEW L, "err" \in R, Agreed(K, L, 0), Returns(K, "err", F)
  PROVE  Does(R, F, K, Input, L)
<1>1. ASSUME NEW c, NEW cs, cs.k = "caller" \/ Faces(R, F)
      PROVE  Good(<<K, Input ++ c, cs>>, {<<L, c, cs>>} \cup Ends(F, cs))
  <2> DEFINE W == {<<L, c, cs>>} \cup Ends(F, cs)
  <2>1. <<L, c, cs>> \in W /\ Lands(R, F, cs, W)  BY <1>1, EndsLand
  <2> HIDE DEF W
  <2>2. Good(<<K, Input ++ c, cs>>, W)  BY <2>1, StepAsk DEF Input, Confirm
  <2> QED  BY <2>2 DEF W
<1> QED  BY <1>1, DoesStep

LEMMA DoesConfirm ==
  ASSUME NEW R, NEW F, NEW K, NEW L, "err" \in R, Agreed(K, L, 1), Returns(K, "err", F)
  PROVE  Does(R, F, K, Confirm, L)
<1>1. ASSUME NEW c, NEW cs, cs.k = "caller" \/ Faces(R, F)
      PROVE  Good(<<K, Confirm ++ c, cs>>, {<<L, c, cs>>} \cup Ends(F, cs))
  <2> DEFINE W == {<<L, c, cs>>} \cup Ends(F, cs)
  <2>1. <<L, c, cs>> \in W /\ Lands(R, F, cs, W)  BY <1>1, EndsLand
  <2> HIDE DEF W
  <2>2. Good(<<K, Confirm ++ c, cs>>, W)  BY <2>1, StepAsk
  <2> QED  BY <2>2 DEF W
<1> QED  BY <1>1, DoesStep

LEMMA DoesCmd ==
  ASSUME NEW R, NEW F, NEW K, NEW L, NEW x, "err" \in R, CmdOK(x, K, L, F)
  PROVE  Does(R, F, K, Cmd(x), L)
<1>1. ASSUME NEW c, NEW cs, cs.k = "caller" \/ Faces(R, F)
      PROVE  Good(<<K, Cmd(x) ++ c, cs>>, {<<L, c, cs>>} \cup Ends(F, cs))
  <2> DEFINE W == {<<L, c, cs>>} \cup Ends(F, cs)
  <2>1. <<L, c, cs>> \in W /\ Lands(R, F, cs, W)  BY <1>1, EndsLand
  <2> HIDE DEF W
  <2>2. Good(<<K, Cmd(x) ++ c, cs>>, W)  BY <2>1, StepCmd
  <2> QED  BY <2>2 DEF W
<1> QED  BY <1>1, DoesStep

LEMMA DoesPost ==
  ASSUME NEW R, NEW F, NEW K, NEW L, NEW x, PostOK(x, K, L)
  PROVE  Does(R, F, K, Post(x), L)
BY StepPost, DoesStep

LEMMA DoesLeave ==
  ASSUME NEW R, NEW F, NEW K, NEW L, "ok" \in R, Returns(K, "ok", F)
  PROVE  Does(R, F, K, [k |-> "leave"], L)
BY StepLeave, EndsLand, DoesStep

LEMMA DoesWhen ==
  ASSUME NEW R, NEW F, NEW K, NEW M, NEW L, NEW f, NEW S, NEW t, Does(R, F, M, t, L),
         Knows(K, f, S, M), KnowsNot(K, f, S, L)
  PROVE  Does(R, F, K, When(f, S, t), L)
<1> SUFFICES ASSUME NEW c, NEW cs, cs.k = "caller" \/ Faces(R, F)
             PROVE  Runs(<<K, When(f, S, t) ++ c, cs>>, {<<L, c, cs>>} \cup Ends(F, cs))
  BY DEF Does
<1>1. PICK A : <<M, t ++ c, cs>> \in A /\ Closed(A, {<<L, c, cs>>} \cup Ends(F, cs))
  BY DEF Does, Runs
<1> DEFINE X == A \cup {<<K, When(f, S, t) ++ c, cs>>}
           Y == {<<L, c, cs>>} \cup Ends(F, cs)
<1>2. \A z \in A : Good(z, X \cup Y)  BY <1>1, ClosedMore
<1>3. Good(<<K, When(f, S, t) ++ c, cs>>, X \cup Y)  BY <1>1, StepWhen
<1>4. Closed(X, Y)  BY <1>2, <1>3 DEF Closed
<1> QED  BY <1>4 DEF Runs

LEMMA DoesIf ==
  ASSUME NEW R, NEW F, NEW K, NEW M, NEW N, NEW L, NEW f, NEW S, NEW a, NEW b, Does(R, F, M, a, L),
         Does(R, F, N, b, L), Knows(K, f, S, M), KnowsNot(K, f, S, N)
  PROVE  Does(R, F, K, IfElse(f, S, a, b), L)
<1> SUFFICES ASSUME NEW c, NEW cs, cs.k = "caller" \/ Faces(R, F)
             PROVE  Runs(<<K, IfElse(f, S, a, b) ++ c, cs>>, {<<L, c, cs>>} \cup Ends(F, cs))
  BY DEF Does
<1>1. PICK A : <<M, a ++ c, cs>> \in A /\ Closed(A, {<<L, c, cs>>} \cup Ends(F, cs))
  BY DEF Does, Runs
<1>2. PICK B : <<N, b ++ c, cs>> \in B /\ Closed(B, {<<L, c, cs>>} \cup Ends(F, cs))
  BY DEF Does, Runs
<1> DEFINE X == A \cup B \cup {<<K, IfElse(f, S, a, b) ++ c, cs>>}
           Y == {<<L, c, cs>>} \cup Ends(F, cs)
<1>3. \A z \in A : Good(z, X \cup Y)  BY <1>1, ClosedMore
<1>4. \A z \in B : Good(z, X \cup Y)  BY <1>2, ClosedMore
<1>5. Good(<<K, IfElse(f, S, a, b) ++ c, cs>>, X \cup Y)  BY <1>1, <1>2, StepIf
<1>6. Closed(X, Y)  BY <1>3, <1>4, <1>5 DEF Closed
<1> QED  BY <1>6 DEF Runs

LEMMA DoesOpt ==
  ASSUME NEW R, NEW F, NEW K, NEW M, NEW L, NEW S, NEW t, NEW given \in BOOLEAN,
         Does(R, F, M, t, L), KnowsOpt(K, S, given, M), KnowsOpt(K, S, ~given, L)
  PROVE  Does(R, F, K, [k |-> "opt", in |-> S, given |-> given, steps |-> t], L)
<1> DEFINE o == [k |-> "opt", in |-> S, given |-> given, steps |-> t]
<1> SUFFICES ASSUME NEW c, NEW cs, cs.k = "caller" \/ Faces(R, F)
             PROVE  Runs(<<K, o ++ c, cs>>, {<<L, c, cs>>} \cup Ends(F, cs))
  BY DEF Does
<1>1. PICK A : <<M, t ++ c, cs>> \in A /\ Closed(A, {<<L, c, cs>>} \cup Ends(F, cs))
  BY DEF Does, Runs
<1> DEFINE X == A \cup {<<K, o ++ c, cs>>}
           Y == {<<L, c, cs>>} \cup Ends(F, cs)
<1>2. \A z \in A : Good(z, X \cup Y)  BY <1>1, ClosedMore
<1>3. Good(<<K, o ++ c, cs>>, X \cup Y)  BY <1>1, StepOpt
<1>4. Closed(X, Y)  BY <1>2, <1>3 DEF Closed
<1> QED  BY <1>4 DEF Runs

LEMMA DoesWhenOpt ==
  ASSUME NEW R, NEW F, NEW K, NEW M, NEW L, NEW S, NEW t,
         Does(R, F, M, t, L), KnowsOpt(K, S, TRUE, M), KnowsOpt(K, S, FALSE, L)
  PROVE  Does(R, F, K, WhenOpt(S, t), L)
<1>1. KnowsOpt(K, S, ~TRUE, L)
  <2>1. (~TRUE) = FALSE  OBVIOUS
  <2> QED  BY <2>1
<1>2. Does(R, F, K, [k |-> "opt", in |-> S, given |-> TRUE, steps |-> t], L)  BY <1>1, DoesOpt
<1> QED  BY <1>2 DEF WhenOpt
LEMMA DoesUnlessOpt ==
  ASSUME NEW R, NEW F, NEW K, NEW M, NEW L, NEW S, NEW t,
         Does(R, F, M, t, L), KnowsOpt(K, S, FALSE, M), KnowsOpt(K, S, TRUE, L)
  PROVE  Does(R, F, K, UnlessOpt(S, t), L)
<1>1. KnowsOpt(K, S, ~FALSE, L)
  <2>1. (~FALSE) = TRUE  OBVIOUS
  <2> QED  BY <2>1
<1>2. Does(R, F, K, [k |-> "opt", in |-> S, given |-> FALSE, steps |-> t], L)  BY <1>1, DoesOpt
<1> QED  BY <1>2 DEF UnlessOpt

LEMMA DoesUntil ==
  ASSUME NEW R, NEW F, NEW K, NEW M, NEW L, NEW f, NEW S, NEW t, Does(R, F, M, t, K),
         Knows(K, f, S, L), KnowsNot(K, f, S, M)
  PROVE  Does(R, F, K, Until(f, S, t), L)
<1> SUFFICES ASSUME NEW c, NEW cs, cs.k = "caller" \/ Faces(R, F)
             PROVE  Runs(<<K, Until(f, S, t) ++ c, cs>>, {<<L, c, cs>>} \cup Ends(F, cs))
  BY DEF Does
<1> DEFINE d == Until(f, S, t) ++ c
<1>1. PICK A : <<M, t ++ d, cs>> \in A /\ Closed(A, {<<K, d, cs>>} \cup Ends(F, cs))
  BY DEF Does, Runs
<1> DEFINE X == A \cup {<<K, d, cs>>}
           Y == {<<L, c, cs>>} \cup Ends(F, cs)
<1>2. \A z \in A : Good(z, X \cup Y)  BY <1>1, ClosedMore
<1>3. Good(<<K, d, cs>>, X \cup Y)  BY <1>1, StepUntil
<1>4. Closed(X, Y)  BY <1>2, <1>3 DEF Closed
<1> QED  BY <1>4 DEF Runs

LEMMA DoesTry ==
  ASSUME NEW R, NEW F, NEW B, NEW K, NEW M, NEW L, NEW t, Does(B, L, K, t, M), Returns(M, "ok", L)
  PROVE  Does(R, F, K, Try(t), L)
<1> SUFFICES ASSUME NEW c, NEW cs, cs.k = "caller" \/ Faces(R, F)
             PROVE  Runs(<<K, Try(t) ++ c, cs>>, {<<L, c, cs>>} \cup Ends(F, cs))
  BY DEF Does
<1> DEFINE b == Caller(c, cs)
<1>0. b.k = "caller" /\ b.todo = c /\ b.callers = cs  BY DEF Caller
<1> HIDE DEF b
<1>1. PICK A : <<K, t ++ Skip, b>> \in A /\ Closed(A, {<<M, Skip, b>>} \cup Ends(L, b))
  BY <1>0 DEF Does, Runs
<1>2. Ends(L, b) = {<<L, c, cs>>}  BY <1>0 DEF Ends
<1> DEFINE X == A \cup {<<K, Try(t) ++ c, cs>>, <<M, Skip, b>>}
           Y == {<<L, c, cs>>} \cup Ends(F, cs)
<1>3. \A z \in A : Good(z, X \cup Y)  BY <1>1, <1>2, ClosedMore
<1>4. Good(<<K, Try(t) ++ c, cs>>, X \cup Y)  BY <1>1, StepTry DEF b
<1>5. Lands({"ok"}, L, b, X \cup Y)  BY <1>0 DEF Lands
<1>6. Good(<<M, Skip, b>>, X \cup Y)  BY <1>5, StepEnd
<1>7. Closed(X, Y)  BY <1>3, <1>4, <1>6 DEF Closed
<1> QED  BY <1>7 DEF Runs

LEMMA DoesTimes ==
  ASSUME NEW R, NEW F, NEW K, NEW M, NEW L, NEW n, NEW t,
         IF n = 0 THEN K = L ELSE Does(R, F, K, t, M) /\ Does(R, F, M, Times(n - 1, t), L)
  PROVE  Does(R, F, K, Times(n, t), L)
<1>1. CASE n = 0
  <2>1. ASSUME NEW c, NEW cs
        PROVE  Good(<<K, Times(n, t) ++ c, cs>>, {<<L, c, cs>>} \cup Ends(F, cs))
    BY <1>1, StepTimes
  <2> QED  BY <2>1, DoesStep
<1>2. CASE n # 0
  <2> SUFFICES ASSUME NEW c, NEW cs, cs.k = "caller" \/ Faces(R, F)
               PROVE  Runs(<<K, Times(n, t) ++ c, cs>>, {<<L, c, cs>>} \cup Ends(F, cs))
    BY DEF Does
  <2> DEFINE d == Times(n - 1, t) ++ c
  <2>1. PICK A : <<K, t ++ d, cs>> \in A /\ Closed(A, {<<M, d, cs>>} \cup Ends(F, cs))
    BY <1>2 DEF Does, Runs
  <2>2. PICK B : <<M, d, cs>> \in B /\ Closed(B, {<<L, c, cs>>} \cup Ends(F, cs))
    BY <1>2 DEF Does, Runs
  <2> DEFINE X == A \cup B \cup {<<K, Times(n, t) ++ c, cs>>}
             Y == {<<L, c, cs>>} \cup Ends(F, cs)
  <2>3. \A z \in A : Good(z, X \cup Y)  BY <2>1, <2>2, ClosedMore
  <2>4. \A z \in B : Good(z, X \cup Y)  BY <2>2, ClosedMore
  <2>5. Good(<<K, Times(n, t) ++ c, cs>>, X \cup Y)  BY <1>2, <2>1, StepTimes
  <2>6. Closed(X, Y)  BY <2>3, <2>4, <2>5 DEF Closed
  <2> QED  BY <2>6 DEF Runs
<1> QED  BY <1>1, <1>2

\* Steps that are taken twice.
LEMMA DoesTwice ==
  ASSUME NEW R, NEW F, NEW K, NEW M, NEW L, NEW t, Does(R, F, K, t, M), Does(R, F, M, t, L)
  PROVE  Does(R, F, K, Times(2, t), L)
<1>1. Does(R, F, L, Times(0, t), L)  BY DoesTimes
<1>2. 1 # 0 /\ 1 - 1 = 0 /\ 2 # 0 /\ 2 - 1 = 1  OBVIOUS
<1>3. Does(R, F, M, Times(1 - 1 + 1, t), L)
  <2>1. Does(R, F, L, Times(1 - 1, t), L)  BY <1>1, <1>2
  <2>2. Does(R, F, M, Times(1, t), L)  BY <1>2, <2>1, DoesTimes
  <2> QED  BY <1>2, <2>2
<1>4. Does(R, F, M, Times(2 - 1, t), L)  BY <1>2, <1>3
<1> QED  BY <1>2, <1>4, DoesTimes

\* More is known before, or less asked for after.
LEMMA DoesWeaker ==
  ASSUME NEW R, NEW F, NEW K, NEW t, NEW L, NEW R2, NEW F2, NEW K2, NEW L2, Does(R, F, K, t, L),
         R \subseteq R2, Entails(K2, K), Entails(L, L2), Entails(F, F2)
  PROVE  Does(R2, F2, K2, t, L2)
<1> SUFFICES ASSUME NEW c, NEW cs, cs.k = "caller" \/ Faces(R2, F2)
             PROVE  Runs(<<K2, t ++ c, cs>>, {<<L2, c, cs>>} \cup Ends(F2, cs))
  BY DEF Does
<1>1. cs.k = "caller" \/ Faces(R, F)  BY DEF Faces, Entails
<1> DEFINE Y == {<<L, c, cs>>} \cup Ends(F, cs)
           Z == {<<L2, c, cs>>} \cup Ends(F2, cs)
<1>2. PICK A : <<K, t ++ c, cs>> \in A /\ Closed(A, Y)  BY <1>1 DEF Does, Runs
<1> DEFINE X == A \cup {<<K2, t ++ c, cs>>}
<1>3. Covers(X \cup Z, A \cup Y)
  <2> SUFFICES ASSUME NEW k, NEW x, NEW b, <<k, x, b>> \in A \cup Y
               PROVE  \E l : <<l, x, b>> \in X \cup Z /\ Entails(k, l)
    BY DEF Covers
  <2>1. CASE <<k, x, b>> \in A  BY <2>1, EntailsItself
  <2>2. CASE <<k, x, b>> = <<L, c, cs>>  BY <2>2
  <2>3. CASE <<k, x, b>> \in Ends(F, cs)
    <3>1. cs.k = "caller" /\ k = F /\ x = cs.todo /\ b = cs.callers  BY <2>3 DEF Ends
    <3>2. <<F2, x, b>> \in Ends(F2, cs)  BY <3>1 DEF Ends
    <3> QED  BY <3>1, <3>2
  <2> QED  BY <2>1, <2>2, <2>3
<1>4. \A z \in A : Good(z, X \cup Z)  BY <1>2, <1>3, GoodWeaker DEF Closed
<1>5. Good(<<K2, t ++ c, cs>>, X \cup Z)
  <2>1. Good(<<K, t ++ c, cs>>, X \cup Z)  BY <1>2, <1>4
  <2> HIDE DEF X, Z
  <2> QED  BY <2>1 DEF Good, Entails
<1>6. Closed(X, Z)  BY <1>4, <1>5 DEF Closed
<1> QED  BY <1>6 DEF Runs

-----------------------------------------------------------------------------
(* What a command leaves as it was.                                            *)

\* What every harmless call keeps.
Base == {"plain", "no session"} \cup Dumps
NoneOpen(K) == "scanned" \notin K /\ \A f \in Sessions : Opened[f] \notin K /\ Counted[f] \notin K
Stirs == DOMAIN Reads \cup Firsts \cup Counts \cup Queues \cup DOMAIN Polls
         \cup {"LOG_NEXT", "OSA_READ", "multicfg"}
KeepsAuth(x, K) ==
  /\ x \in {"SET_SECURED", "SET_UNSECURED"} => K \cap {"told sec", "fresh"} = {}
  /\ x = "KMSK" => K \cap {"told kmsk", "no kmsk"} = {}
  /\ x \in {"config", "config_ext", "otp", "state"} => K \cap {"auth", "some sec"} = {}
  /\ x \in {"otp", "state"} => "told kmsk" \notin K
  /\ x = "sn_ver" => "twice" \notin K
KeepsMeasure(x, K) ==
  /\ x \in {"EVCNTR_SETUP", "EVCNTR_CLEAR"} => K \cap {"told counter", "free"} = {}
  /\ x \in {"LAT_GET", "BW_GET"} => K \cap {"unseen", "lat seen", "bw seen"} = {}
KeepsFw(x, K) ==
  /\ x \in {"BOOTUP_RESUME", "FW_TX_EXEC"} => "told phase" \notin K
  /\ x \in {"TOGGLE", "TOGGLE_BL2"} => K \cap {"moved", "unmoved", "reported", "act kept"} = {}
  /\ x = "WRITE" => "no write" \notin K
  /\ x = "SET_BOOT_RW" => "restored" \notin K
  /\ x \in {"WRITE", "SET_BOOT_RW"} => "restored if written" \notin K
  /\ x = "dev_info" => K \cap {"restored", "restored if written", "moved", "unmoved", "reported", "bl2"} = {}
KeepsLoop(x, K) ==
  /\ x = "dev_info" => K \cap {"gen5", "not gen5", "off on gen5"} = {}
  /\ \A m \in Modes : x = m.on => K \cap {m.on, "off", "off on gen5"} = {}
KeepsSes(x, K) ==
  /\ x \in DOMAIN Opens \cup DOMAIN Closes \cup {"RESET"} \cup Stirs => NoneOpen(K)
  /\ x \in DOMAIN Opens \cup Stirs => K \cap {"dumped", "more", "none got", "fetched"} = {}
  /\ x \in DOMAIN Opens => Opens[x] \notin K /\ "no session" \notin K
Keeps(x, K) ==
  /\ NoRes(K)
  /\ x = "RESET" => K \subseteq Base
  /\ KeepsAuth(x, K) /\ KeepsMeasure(x, K) /\ KeepsFw(x, K) /\ KeepsLoop(x, K) /\ KeepsSes(x, K)

\* The call after a command that was done (n its number of things left), or not.
Knowing(i, x, n, j, e) ==
  LET g == Told2(j, x, n, e) IN \A f \in JobFields \ {"res"} : i[f] = g[f]
Failing(i, x, j) == i.failed = j.failed \cup {x} /\ \A f \in JobFields \ {"res", "failed"} : i[f] = j[f]
Constant(i, j) ==
  /\ i.cmd = j.cmd /\ i.opt = j.opt /\ i.id = j.id /\ i.saved = j.saved /\ i.sure = j.sure
  /\ i.met = j.met /\ i.act0 = j.act0

Known(i, x, n, j, e) ==
  /\ Constant(i, j) /\ i.failed = j.failed /\ i.left = n
  /\ i.gen = (IF x = "dev_info" THEN e.gen ELSE j.gen)
  /\ i.phase = (IF x = "dev_info" THEN e.phase ELSE j.phase)
  /\ i.ses = (IF x \in DOMAIN Opens THEN Opens[x] ELSE j.ses)
  /\ i.got = (CASE x = "IMG_START" -> 1
               [] x = "CROSS_GET" /\ e.cross = j.id /\ e.work.cross = "ready" -> Chunks
               [] Gets(x, e) /\ e[Reads[x]] = j.id -> j.got + 1
               [] OTHER -> j.got)
  /\ i.seen = (IF x = "BW_GET" THEN j.seen \cup {e.bw}
               ELSE IF x = "LAT_GET" THEN j.seen \cup {e.lat} ELSE j.seen)
  /\ i.sec = (IF x \in {"config", "config_ext", "otp", "state"} THEN e.sec ELSE j.sec)
  /\ i.kmsk = (IF x \in {"config", "config_ext"} THEN e.kmsk ELSE j.kmsk)
  /\ i.status = (IF x \notin DOMAIN Polls THEN j.status
                 ELSE IF e[Polls[x]] = 0 THEN "none" ELSE e.work[Polls[x]])
  /\ i.versions = (j.versions \/ x = "sn_ver")
  /\ i.counter = (IF x = "EVCNTR_GET" THEN e.counter ELSE j.counter)
LEMMA KnowingIs ==
  ASSUME NEW i, NEW x, NEW n, NEW j, NEW e, JobSane(j), Knowing(i, x, n, j, e)
  PROVE  Known(i, x, n, j, e)
<1> DEFINE g == Told2(j, x, n, e)
<1>1. ToldFields(g, x, n, j, e)  BY ToldIs DEF JobSane
<1>2. \A f \in JobFields \ {"res"} : i[f] = g[f]  BY DEF Knowing
<1> HIDE DEF g
<1>3. /\ i.cmd = g.cmd /\ i.opt = g.opt /\ i.id = g.id /\ i.gen = g.gen /\ i.phase = g.phase
      /\ i.saved = g.saved /\ i.sec = g.sec /\ i.left = g.left
      /\ i.status = g.status /\ i.counter = g.counter /\ i.sure = g.sure /\ i.ses = g.ses
      /\ i.got = g.got /\ i.seen = g.seen /\ i.failed = g.failed /\ i.met = g.met /\ i.act0 = g.act0
  BY <1>2, IdleDomain
<1>4. i.kmsk = g.kmsk /\ i.versions = g.versions  BY <1>2, IdleDomain
<1>5. i.kmsk = (IF x \in {"config", "config_ext"} THEN e.kmsk ELSE j.kmsk)  BY <1>1, <1>4 DEF ToldFields
<1>6. i.versions = (j.versions \/ x = "sn_ver")  BY <1>1, <1>4 DEF ToldFields
<1>7. Constant(i, j) /\ i.failed = j.failed /\ i.left = n  BY <1>1, <1>3 DEF Constant, ToldFields
<1> QED  BY <1>1, <1>3, <1>5, <1>6, <1>7 DEF ToldFields, Known

LEMMA FailingIs ==
  ASSUME NEW i, NEW x, NEW j, Failing(i, x, j)
  PROVE  /\ Constant(i, j) /\ i.failed = j.failed \cup {x} /\ i.gen = j.gen /\ i.phase = j.phase
         /\ i.ses = j.ses /\ i.got = j.got /\ i.left = j.left /\ i.seen = j.seen /\ i.sec = j.sec
         /\ i.status = j.status /\ i.counter = j.counter /\ i.kmsk = j.kmsk
         /\ i.versions = j.versions
BY IdleDomain DEF Failing, Constant

LEMMA AuthKept ==
  ASSUME NEW K, NEW x, NEW j, NEW s, NEW e, Sane(j, s), EffectFields(e, x, j, s), HasAuth(K, j, s),
         KeepsAuth(x, K), x # "RESET", NEW i
  PROVE  /\ \A n : Knowing(i, x, n, j, e) => HasAuth(K, i, e)
         /\ \A y \in {s, e} : Failing(i, x, j) => HasAuth(K, i, y)
<1>1. /\ e.pub = j.id \/ e.pub = s.pub
      /\ e.sig = j.id \/ e.sig = s.sig
      /\ e.sec = s.sec \/ x \in {"SET_SECURED", "SET_UNSECURED"}
  BY DEF EffectFields
<1>2. e.kmsk = s.kmsk \/ x = "KMSK"  BY DEF EffectFields
<1>3. ASSUME NEW n, Knowing(i, x, n, j, e) PROVE HasAuth(K, i, e)
  <2>0. Known(i, x, n, j, e)  BY <1>3, KnowingIs DEF Sane
  <2>1. /\ Constant(i, j) /\ i.failed = j.failed
        /\ i.sec = (IF x \in {"config", "config_ext", "otp", "state"} THEN e.sec ELSE j.sec)
    BY <2>0 DEF Known
  <2>2. i.kmsk = (IF x \in {"config", "config_ext"} THEN e.kmsk ELSE j.kmsk)
    BY <2>0 DEF Known
  <2>3. i.versions = (j.versions \/ x = "sn_ver")  BY <2>0 DEF Known
  <2>4. /\ "pub" \in K => Own("pub", i, e)
        /\ "sig" \in K => Own("sig", i, e)
        /\ "auth" \in K => (i.sec = "INITIALIZED_SECURED" => Own("pub", i, e) /\ Own("sig", i, e))
        /\ "dok" \in K => ("signature" \in i.opt => Own("sig", i, e))
    BY <1>1, <2>1 DEF HasAuth, Own, Constant, KeepsAuth
  <2>5. "twice" \in K => (i.versions = TRUE /\ "newer" \in i.opt => i.sure >= 2)
    BY <2>1, <2>3 DEF HasAuth, Constant, KeepsAuth, Sane, JobSane
  <2>6. /\ "told sec" \in K => i.sec \in {"none", e.sec} \/ "sec" \in i.met
        /\ "fresh" \in K => e.sec \in Fresh \/ "sec" \in i.met
        /\ "some sec" \in K => i.sec # "none"
    BY <1>1, <2>1 DEF HasAuth, Constant, KeepsAuth
  <2>7. "told kmsk" \in K => i.sec = "none" \/ i.kmsk = e.kmsk \/ "kmsk" \in i.met
    <3> SUFFICES ASSUME "told kmsk" \in K PROVE i.sec = "none" \/ i.kmsk = e.kmsk \/ "kmsk" \in i.met
      OBVIOUS
    <3>1. e.kmsk = s.kmsk /\ x \notin {"otp", "state"}  BY <1>2 DEF KeepsAuth
    <3>2. j.sec = "none" \/ j.kmsk = s.kmsk \/ "kmsk" \in j.met  BY DEF HasAuth
    <3>3. CASE x \in {"config", "config_ext"}  BY <3>3, <2>2
    <3>4. CASE x \notin {"config", "config_ext"}
      <4>1. i.sec = j.sec /\ i.met = j.met  BY <3>1, <3>4, <2>1 DEF Constant
      <4>2. i.kmsk = j.kmsk  BY <3>4, <2>2
      <4> QED  BY <3>1, <3>2, <4>1, <4>2
    <3> QED  BY <3>3, <3>4
  <2>8. "no kmsk" \in K => e.kmsk = FALSE \/ "kmsk" \in i.met
    <3>1. "no kmsk" \in K => e.kmsk = s.kmsk  BY <1>2 DEF KeepsAuth
    <3> QED  BY <2>1, <3>1 DEF HasAuth, Constant
  <2>9. ("sure" \in K => i.sure >= 1) /\ ("saved" \in K => i.saved = "ok")
    BY <2>1 DEF HasAuth, Constant
  <2> QED  BY <2>4, <2>5, <2>6, <2>7, <2>8, <2>9 DEF HasAuth
<1>4. ASSUME NEW y \in {s, e}, Failing(i, x, j) PROVE HasAuth(K, i, y)
  <2>1. Constant(i, j) /\ i.sec = j.sec  BY <1>4, FailingIs
  <2>2. i.kmsk = j.kmsk  BY <1>4, FailingIs
  <2>3. i.versions = j.versions  BY <1>4, FailingIs
  <2>4. /\ "pub" \in K => Own("pub", i, y)
        /\ "sig" \in K => Own("sig", i, y)
        /\ "auth" \in K => (i.sec = "INITIALIZED_SECURED" => Own("pub", i, y) /\ Own("sig", i, y))
        /\ "dok" \in K => ("signature" \in i.opt => Own("sig", i, y))
    BY <1>1, <2>1 DEF HasAuth, Own, Constant, KeepsAuth
  <2>5. "twice" \in K => (i.versions = TRUE /\ "newer" \in i.opt => i.sure >= 2)
    BY <2>1, <2>3 DEF HasAuth, Constant
  <2>6. /\ "told sec" \in K => i.sec \in {"none", y.sec} \/ "sec" \in i.met
        /\ "fresh" \in K => y.sec \in Fresh \/ "sec" \in i.met
        /\ "some sec" \in K => i.sec # "none"
    BY <1>1, <2>1 DEF HasAuth, Constant, KeepsAuth
  <2>7. "told kmsk" \in K => i.sec = "none" \/ i.kmsk = y.kmsk \/ "kmsk" \in i.met
    <3>1. "told kmsk" \in K => y.kmsk = s.kmsk  BY <1>2 DEF KeepsAuth
    <3> QED  BY <2>1, <2>2, <3>1 DEF HasAuth, Constant
  <2>8. "no kmsk" \in K => y.kmsk = FALSE \/ "kmsk" \in i.met
    <3>1. "no kmsk" \in K => y.kmsk = s.kmsk  BY <1>2 DEF KeepsAuth
    <3> QED  BY <2>1, <3>1 DEF HasAuth, Constant
  <2>9. ("sure" \in K => i.sure >= 1) /\ ("saved" \in K => i.saved = "ok")
    BY <2>1 DEF HasAuth, Constant
  <2> QED  BY <2>4, <2>5, <2>6, <2>7, <2>8, <2>9 DEF HasAuth
<1> QED  BY <1>3, <1>4

LEMMA MeasureKept ==
  ASSUME NEW K, NEW x, NEW j, NEW s, NEW e, Sane(j, s), EffectFields(e, x, j, s), HasMeasure(K, j, s),
         KeepsMeasure(x, K), x # "RESET", NoRes(K), NEW i
  PROVE  /\ \A n : Knowing(i, x, n, j, e) => HasMeasure(K, i, e)
         /\ \A y \in {s, e} : Failing(i, x, j) => HasMeasure(K, i, y)
<1>1. /\ e.bw = j.id \/ e.bw = s.bw
      /\ e.lat = j.id \/ e.lat = s.lat
      /\ e.counter = s.counter \/ x \in {"EVCNTR_SETUP", "EVCNTR_CLEAR"}
  BY DEF EffectFields
<1>2. "bw res" \notin K  BY DEF NoRes
<1>3. ASSUME NEW n, Knowing(i, x, n, j, e) PROVE HasMeasure(K, i, e)
  <2>0. Known(i, x, n, j, e)  BY <1>3, KnowingIs DEF Sane
  <2>1. /\ Constant(i, j) /\ i.failed = j.failed
        /\ i.seen = (IF x = "BW_GET" THEN j.seen \cup {e.bw}
                      ELSE IF x = "LAT_GET" THEN j.seen \cup {e.lat} ELSE j.seen)
        /\ i.counter = (IF x = "EVCNTR_GET" THEN e.counter ELSE j.counter)
    BY <2>0 DEF Known
  <2> QED  BY <1>1, <1>2, <2>1 DEF HasMeasure, Own, Constant, KeepsMeasure
<1>4. ASSUME NEW y \in {s, e}, Failing(i, x, j) PROVE HasMeasure(K, i, y)
  <2>1. /\ Constant(i, j) /\ i.failed = j.failed \cup {x} /\ i.seen = j.seen /\ i.counter = j.counter
    BY <1>4, FailingIs
  <2> QED  BY <1>1, <1>2, <2>1 DEF HasMeasure, Own, Constant, KeepsMeasure
<1> QED  BY <1>3, <1>4

LEMMA FwKept ==
  ASSUME NEW K, NEW x, NEW j, NEW s, NEW e, Sane(j, s), EffectFields(e, x, j, s), HasFw(K, j, s),
         KeepsFw(x, K), NoRes(K), NEW i
  PROVE  /\ \A n : Knowing(i, x, n, j, e) => HasFw(K, i, e)
         /\ \A y \in {s, e} : Failing(i, x, j) => HasFw(K, i, y)
<1>1. /\ e.gen = s.gen
      /\ e.phase = s.phase \/ x \in {"BOOTUP_RESUME", "FW_TX_EXEC"}
      /\ e.bootro = s.bootro \/ (x = "SET_BOOT_RW") \/ (x = "SET_BOOT_RO" /\ e.bootro = "ro")
      /\ e.act = s.act \/ x \in {"TOGGLE", "TOGGLE_BL2"}
  BY DEF EffectFields
<1>2. "toggle res" \notin K  BY DEF NoRes
<1>3. ASSUME NEW n, Knowing(i, x, n, j, e) PROVE HasFw(K, i, e)
  <2>0. Known(i, x, n, j, e)  BY <1>3, KnowingIs DEF Sane
  <2>1. /\ Constant(i, j) /\ i.failed = j.failed
        /\ i.gen = (IF x = "dev_info" THEN e.gen ELSE j.gen)
        /\ i.phase = (IF x = "dev_info" THEN e.phase ELSE j.phase)
    BY <2>0 DEF Known
  <2>2. CASE x = "dev_info"
    BY <1>1, <1>2, <2>1, <2>2 DEF HasFw, Constant, KeepsFw
  <2>3. CASE x # "dev_info"
    <3>1. "open res" \notin K  BY DEF NoRes
    <3>2. /\ Restored(j, s) /\ x # "SET_BOOT_RW" => Restored(i, e)
          /\ Moved(j, s) /\ x \notin {"TOGGLE", "TOGGLE_BL2"} => Moved(i, e)
          /\ Unmoved(j, s) /\ x \notin {"TOGGLE", "TOGGLE_BL2"} => Unmoved(i, e)
      BY <1>1, <2>1, <2>3 DEF Constant, Restored, Moved, Unmoved, Other
    <3> QED  BY <1>1, <1>2, <2>1, <2>3, <3>1, <3>2, ZenonT(40) DEF HasFw, Constant, KeepsFw
  <2> QED  BY <2>2, <2>3
<1>4. ASSUME NEW y \in {s, e}, Failing(i, x, j) PROVE HasFw(K, i, y)
  <2>1. Constant(i, j) /\ i.failed = j.failed \cup {x} /\ i.gen = j.gen /\ i.phase = j.phase
    BY <1>4, FailingIs
  <2>2. "open res" \notin K  BY DEF NoRes
  <2>3. /\ Restored(j, s) /\ x # "SET_BOOT_RW" => Restored(i, y)
        /\ Moved(j, s) /\ x \notin {"TOGGLE", "TOGGLE_BL2"} => Moved(i, y)
        /\ Unmoved(j, s) /\ x \notin {"TOGGLE", "TOGGLE_BL2"} => Unmoved(i, y)
    BY <1>1, <2>1 DEF Constant, Restored, Moved, Unmoved, Other
  <2> QED  BY <1>1, <1>2, <2>1, <2>2, <2>3, ZenonT(40) DEF HasFw, Constant, KeepsFw
<1> QED  BY <1>3, <1>4

LEMMA LoopKept ==
  ASSUME NEW K, NEW x, NEW j, NEW s, NEW e, Sane(j, s), EffectFields(e, x, j, s), HasLoop(K, j, s),
         KeepsLoop(x, K), x # "RESET", NEW i
  PROVE  /\ \A n : Knowing(i, x, n, j, e) => HasLoop(K, i, e)
         /\ \A y \in {s, e} : Failing(i, x, j) => HasLoop(K, i, y)
<1>1. e.loop = LoopAfter(x, s.loop)  BY DEF EffectFields
<1>2. \A m \in Modes : m.on \in K /\ m.on \in e.loop => m.on \in s.loop
  <2> SUFFICES ASSUME NEW m \in Modes, m.on \in K, m.on \in e.loop, m.on \notin s.loop PROVE FALSE
    OBVIOUS
  <2>1. PICK n \in Modes : n.on = x /\ n.on = m.on  BY <1>1 DEF LoopAfter
  <2> QED  BY <2>1 DEF KeepsLoop
<1>3. K \cap {"off", "off on gen5"} # {} => e.loop \subseteq s.loop
  <2> SUFFICES ASSUME K \cap {"off", "off on gen5"} # {}, NEW z \in e.loop, z \notin s.loop PROVE FALSE
    OBVIOUS
  <2>1. PICK n \in Modes : n.on = x  BY <1>1 DEF LoopAfter
  <2> QED  BY <2>1 DEF KeepsLoop
<1>4. ASSUME NEW n, Knowing(i, x, n, j, e) PROVE HasLoop(K, i, e)
  <2>0. Known(i, x, n, j, e)  BY <1>4, KnowingIs DEF Sane
  <2>1. Constant(i, j) /\ i.gen = (IF x = "dev_info" THEN e.gen ELSE j.gen)
    BY <2>0 DEF Known
  <2> QED  BY <1>2, <1>3, <2>1 DEF HasLoop, Constant, KeepsLoop, AllOff
<1>5. ASSUME NEW y \in {s, e}, Failing(i, x, j) PROVE HasLoop(K, i, y)
  <2>1. Constant(i, j) /\ i.gen = j.gen  BY <1>5, FailingIs
  <2> QED  BY <1>2, <1>3, <2>1 DEF HasLoop, Constant, KeepsLoop, AllOff
<1> QED  BY <1>4, <1>5

LEMMA SesKept ==
  ASSUME NEW K, NEW x, NEW j, NEW s, NEW e, Sane(j, s), EffectFields(e, x, j, s), HasSes(K, j, s),
         KeepsSes(x, K), NoRes(K), NEW i
  PROVE  /\ \A n \in Lefts(j, x, e) : Knowing(i, x, n, j, e) => HasSes(K, i, e)
         /\ \A y \in {s, e} : Failing(i, x, j) => HasSes(K, i, y)
<1>0. "over" \notin K  BY DEF NoRes
<1>1. \A f \in Dumps : f \in K => e[f] = s[f] \/ e[f] = 0
  <2>1. \A f \in Dumps : f \in Sessions  BY DEF Dumps, Sessions
  <2> QED  BY <2>1 DEF EffectFields, KeepsSes
<1>2. \A f \in Dumps : f \in K => s[f] # j.id  BY DEF HasSes
<1>3. j.id # 0  BY DEF Sane, JobSane, Somebody
<1>4. \A f \in Dumps : f \in K => e[f] # j.id  BY <1>1, <1>2, <1>3
<1>7. ASSUME x \notin DOMAIN Opens, x \notin DOMAIN Closes, x # "RESET", NEW f \in Sessions
      PROVE  e[f] = s[f]
  BY <1>7 DEF EffectFields
<1>8. ASSUME x \in DOMAIN Opens \cup DOMAIN Closes \cup {"RESET"}
      PROVE  "scanned" \notin K /\ \A f \in Sessions : Opened[f] \notin K /\ Counted[f] \notin K
  BY <1>8 DEF KeepsSes, NoneOpen
<1>9. ASSUME NEW y \in {s, e}, Failing(i, x, j) PROVE HasSes(K, i, y)
  <2>1. Constant(i, j) /\ i.ses = j.ses /\ i.got = j.got /\ i.left = j.left /\ i.status = j.status
    BY <1>9, FailingIs
  <2>2. \A f \in Dumps : f \in K => y[f] # i.id  BY <1>2, <1>4, <2>1 DEF Constant
  <2>3. /\ "no session" \in K => i.ses = "none"
        /\ "dumped" \in K => Dumped(i)
        /\ "more" \in K => i.left # 0
        /\ "none got" \in K => i.got = 0
        /\ "fetched" \in K => i.status \in {"none", "ready", "failed"} \/ i.left # 0
    BY <2>1 DEF Constant, HasSes, Dumped
  <2>4. ASSUME NEW f \in Sessions
        PROVE  /\ Opened[f] \in K => i.ses = f /\ (f \in i.met \/ (y[f] = i.id /\ i.got = 0))
               /\ Counted[f] \in K => i.ses = f /\ (f \in i.met \/ (y[f] = i.id /\ i.left + i.got = Chunks))
    BY <1>7, <1>8, <2>1 DEF HasSes, Constant
  <2>5. "scanned" \in K => i.ses = "cross" /\ ("cross" \in i.met
                          \/ (y.cross = i.id /\ (i.status \in {"none", "ready"} => i.got = Chunks)))
    <3>1. "scanned" \in K => e.cross = s.cross  BY <1>7, <1>8 DEF Sessions
    <3> QED  BY <2>1, <3>1 DEF HasSes, Constant
  <2> QED  BY <1>0, <2>2, <2>3, <2>4, <2>5 DEF HasSes
<1>10. ASSUME NEW n \in Lefts(j, x, e), Knowing(i, x, n, j, e) PROVE HasSes(K, i, e)
  <2>0. Known(i, x, n, j, e)  BY <1>10, KnowingIs DEF Sane
  <2>1. Constant(i, j) /\ i.ses = (IF x \in DOMAIN Opens THEN Opens[x] ELSE j.ses)
        /\ i.left = n
    BY <2>0 DEF Known
  <2>2. \A f \in Dumps : f \in K => e[f] # i.id  BY <1>2, <1>4, <2>1 DEF Constant
  <2>3. "no session" \in K => i.ses = "none"
    BY <2>1 DEF Constant, HasSes, KeepsSes
  <2>4. CASE x \in Stirs \cup DOMAIN Opens
    <3>1. NoneOpen(K) /\ K \cap {"dumped", "more", "none got", "fetched"} = {}
      BY <2>4 DEF KeepsSes
    <3> QED  BY <1>0, <2>2, <2>3, <3>1 DEF HasSes, NoneOpen
  <2>5. CASE x \notin Stirs \cup DOMAIN Opens
    <3>1. i.got = j.got /\ i.status = j.status
      <4>1. x # "IMG_START" /\ x # "CROSS_GET" /\ ~Gets(x, e) /\ x \notin DOMAIN Polls
        BY <2>5, OpensDomain DEF Stirs, Gets, Polls
      <4> QED  BY <4>1, <2>0 DEF Known
    <3>2. i.left = j.left
      <4>1. n = Told(j, x, e).left  BY <1>10, <2>5 DEF Lefts, Stirs
      <4>2. n = CASE x \in Counts -> Chunks
              [] x \in Firsts -> Chunks - 1
              [] Gets(x, e) \/ x \in {"LOG_NEXT", "OSA_READ"} -> j.left - 1
              [] x \in Queues -> e.queue
              [] OTHER -> j.left
        BY <4>1, IdleDomain DEF Told, Sane, JobSane, JobFields
      <4> QED  BY <4>2, <2>1, <2>5 DEF Stirs, Gets
    <3>3. i.ses = j.ses  BY <2>1, <2>5
    <3>4. /\ "dumped" \in K => Dumped(i)
          /\ "more" \in K => i.left # 0
          /\ "none got" \in K => i.got = 0
          /\ "fetched" \in K => i.status \in {"none", "ready", "failed"} \/ i.left # 0
      BY <2>1, <3>1, <3>2, <3>3 DEF Constant, HasSes, Dumped
    <3>5. ASSUME NEW f \in Sessions
          PROVE  /\ Opened[f] \in K => i.ses = f /\ (f \in i.met \/ (e[f] = i.id /\ i.got = 0))
                 /\ Counted[f] \in K => i.ses = f /\ (f \in i.met \/ (e[f] = i.id /\ i.left + i.got = Chunks))
      BY <1>7, <1>8, <2>1, <3>1, <3>2, <3>3 DEF HasSes, Constant
    <3>6. "scanned" \in K => i.ses = "cross" /\ ("cross" \in i.met
                          \/ (e.cross = i.id /\ (i.status \in {"none", "ready"} => i.got = Chunks)))
      <4>1. "scanned" \in K => e.cross = s.cross  BY <1>7, <1>8 DEF Sessions
      <4> QED  BY <2>1, <3>1, <3>3, <4>1 DEF HasSes, Constant
    <3> QED  BY <1>0, <2>2, <2>3, <3>4, <3>5, <3>6 DEF HasSes
  <2> QED  BY <2>4, <2>5
<1> QED  BY <1>9, <1>10

LEMMA AllKept ==
  ASSUME NEW K, NEW x, NEW j, NEW s, NEW e, Sane(j, s), EffectFields(e, x, j, s), Has(K, j, s),
         Keeps(x, K), NEW i
  PROVE  /\ \A n \in Lefts(j, x, e) : Knowing(i, x, n, j, e) => Has(K, i, e)
         /\ \A y \in {s, e} : Failing(i, x, j) => Has(K, i, y)
<1>1. HasAuth(K, j, s) /\ HasMeasure(K, j, s) /\ HasFw(K, j, s) /\ HasLoop(K, j, s) /\ HasSes(K, j, s)
  BY DEF Has
<1>2. /\ \A n : Knowing(i, x, n, j, e) => HasFw(K, i, e)
      /\ \A y \in {s, e} : Failing(i, x, j) => HasFw(K, i, y)
  BY <1>1, FwKept DEF Keeps
<1>3. /\ \A n \in Lefts(j, x, e) : Knowing(i, x, n, j, e) => HasSes(K, i, e)
      /\ \A y \in {s, e} : Failing(i, x, j) => HasSes(K, i, y)
  BY <1>1, SesKept DEF Keeps
<1>4. /\ \A n : Knowing(i, x, n, j, e) => i.cmd = j.cmd
      /\ Failing(i, x, j) => i.cmd = j.cmd
  <2>1. ASSUME NEW n, Knowing(i, x, n, j, e) PROVE i.cmd = j.cmd
    <3>1. Known(i, x, n, j, e)  BY <2>1, KnowingIs DEF Sane
    <3> QED  BY <3>1 DEF Known, Constant
  <2> QED  BY <2>1, FailingIs DEF Constant
<1>5. CASE x = "RESET"
  <2>1. \A k \in K : k \in Base  BY <1>5 DEF Keeps
  <2>2. \A y : HasAuth(K, i, y)  BY <2>1 DEF HasAuth, Base, Dumps
  <2>3. \A y : HasMeasure(K, i, y)  BY <2>1 DEF HasMeasure, Base, Dumps
  <2>4. \A y : HasLoop(K, i, y)
    <3>1. \A m \in Modes : m.on \notin Base
      <4> SUFFICES ASSUME NEW m \in Modes PROVE m.on \notin Base  OBVIOUS
      <4>1. m.on \in {"PARALLEL_ON", "EXTERNAL_ON", "PIPE_ON", "LTSSM_ON", "RX_TO_TX_ON", "TX_TO_RX_ON"}
        BY DEF Modes, Parallel, External, Pipe, Ltssm, RxToTx, TxToRx
      <4> QED  BY <4>1 DEF Base, Dumps
    <3>2. \A m \in Modes : m.on \notin K  BY <2>1, <3>1
    <3>3. K \cap {"keeps on", "disable alone", "gen5", "not gen5", "off on gen5", "off"} = {}
      BY <2>1 DEF Base, Dumps
    <3> QED  BY <3>2, <3>3 DEF HasLoop
  <2> QED  BY <1>1, <1>2, <1>3, <1>4, <2>2, <2>3, <2>4 DEF Has
<1>6. CASE x # "RESET"
  <2>1. /\ \A n : Knowing(i, x, n, j, e) => HasAuth(K, i, e)
        /\ \A y \in {s, e} : Failing(i, x, j) => HasAuth(K, i, y)
    BY <1>1, <1>6, AuthKept DEF Keeps
  <2>2. /\ \A n : Knowing(i, x, n, j, e) => HasMeasure(K, i, e)
        /\ \A y \in {s, e} : Failing(i, x, j) => HasMeasure(K, i, y)
    BY <1>1, <1>6, MeasureKept DEF Keeps
  <2>3. /\ \A n : Knowing(i, x, n, j, e) => HasLoop(K, i, e)
        /\ \A y \in {s, e} : Failing(i, x, j) => HasLoop(K, i, y)
    BY <1>1, <1>6, LoopKept DEF Keeps
  <2> QED  BY <1>1, <1>2, <1>3, <1>4, <2>1, <2>2, <2>3 DEF Has
<1> QED  BY <1>5, <1>6

\* The calls a command leaves.
LEMMA AfterCmd ==
  ASSUME NEW x, NEW j, JobSane(j)
  PROVE  /\ \A n, e : Knowing([Told2(j, x, n, e) EXCEPT !.res = "ok"], x, n, j, e)
         /\ \A r : Failing([Fail(j, x) EXCEPT !.res = r], x, j)
<1>1. DOMAIN j = JobFields  BY DEF JobSane, JobFields
<1>2. ASSUME NEW n, NEW e PROVE Knowing([Told2(j, x, n, e) EXCEPT !.res = "ok"], x, n, j, e)
  <2>1. DOMAIN Told2(j, x, n, e) = JobFields  BY <1>1 DEF Told2, Told
  <2> QED  BY <2>1 DEF Knowing
<1>3. ASSUME NEW r PROVE Failing([Fail(j, x) EXCEPT !.res = r], x, j)
  <2> DEFINE f == Fail(j, x)
  <2>1. /\ DOMAIN f = JobFields /\ f.failed = j.failed \cup {x}
        /\ \A g \in JobFields \ {"failed"} : f[g] = j[g]
    BY <1>1, IdleDomain DEF Fail
  <2> HIDE DEF f
  <2>2. Failing([f EXCEPT !.res = r], x, j)  BY <2>1, IdleDomain DEF Failing
  <2> QED  BY <2>2 DEF f
<1> QED  BY <1>2, <1>3

MayDo(x, K) == \A j, s : Sane(j, s) /\ Has(K, j, s) => May(x, j, s)
LEMMA LessHas ==
  ASSUME NEW K, NEW L, NEW j, NEW s, L \subseteq K, Has(K, j, s)
  PROVE  Has(L, j, s)
<1>1. HasAuth(L, j, s)
  <2>1. HasAuth(K, j, s)  BY DEF Has
  <2>2. "twice" \in L => (j.versions = TRUE /\ "newer" \in j.opt => j.sure >= 2)
    BY <2>1 DEF HasAuth
  <2>3. "told kmsk" \in L => j.sec = "none" \/ j.kmsk = s.kmsk \/ "kmsk" \in j.met
    BY <2>1 DEF HasAuth
  <2> QED  BY <2>1, <2>2, <2>3 DEF HasAuth
<1>2. HasMeasure(L, j, s)  BY DEF Has, HasMeasure
<1>3. HasFw(L, j, s)  BY ZenonT(40) DEF Has, HasFw
<1>4. HasLoop(L, j, s)  BY DEF Has, HasLoop
<1>5. HasSes(L, j, s)  BY DEF Has, HasSes
<1> QED  BY <1>1, <1>2, <1>3, <1>4, <1>5 DEF Has

\* A command keeps what it does not touch, whether it succeeds or not.
LEMMA CmdKeeps ==
  ASSUME NEW x, NEW K, NEW L, L \subseteq K, Keeps(x, L), MayDo(x, K)
  PROVE  CmdOK(x, K, L, L)
<1> SUFFICES ASSUME NEW j, NEW s, Sane(j, s), Has(K, j, s)
             PROVE  LET e == Effect(x, j, s)
                    IN  /\ May(x, j, s)
                        /\ \A n \in Lefts(j, x, e) : Has(L, [Told2(j, x, n, e) EXCEPT !.res = "ok"], e)
                        /\ x = "BOOT_RO_GET" => Has(L, [[j EXCEPT !.bootro = "rw"] EXCEPT !.res = "ok"], s)
                        /\ Has(L, [Fail(j, x) EXCEPT !.res = "mrpc"], s)
                        /\ \A y \in {s, e} : Has(L, [Fail(j, x) EXCEPT !.res = "sys"], y)
  BY DEF CmdOK
<1> DEFINE e == Effect(x, j, s)
<1>1. Has(L, j, s) /\ May(x, j, s)  BY LessHas DEF MayDo
<1>2. JobSane(j) /\ DOMAIN j = JobFields /\ EffectFields(e, x, j, s)
  BY EffectDoes DEF Sane, SwitchSane, JobSane, JobFields
<1> HIDE DEF e
<1>3. \A i : /\ \A n \in Lefts(j, x, e) : Knowing(i, x, n, j, e) => Has(L, i, e)
             /\ \A y \in {s, e} : Failing(i, x, j) => Has(L, i, y)
  BY <1>1, <1>2, AllKept
<1>4. Has(L, [[j EXCEPT !.bootro = "rw"] EXCEPT !.res = "ok"], s)
  <2> DEFINE i == [[j EXCEPT !.bootro = "rw"] EXCEPT !.res = "ok"]
  <2>1. \A f \in JobFields \ {"bootro", "res"} : i[f] = j[f]  BY <1>2
  <2> HIDE DEF i
  <2>2. Same(i, j) /\ NoRes(L)  BY <2>1 DEF Same, Keeps
  <2>3. Has(L, i, s)  BY <2>2, <1>1, HasSame
  <2> QED  BY <2>3 DEF i
<1> QED  BY <1>1, <1>2, <1>3, <1>4, AfterCmd DEF e

-----------------------------------------------------------------------------
(* Steps that keep what is known.                                              *)
Err  == {"err"}
Both == {"ok", "err"}

\* Kinds of knowledge that steps keep: all; what every harmless call keeps; all but
\* what hangs on the state of the security, the settings, the versions, or the
\* sessions.
In(d, K) ==
  /\ NoRes(K)
  /\ d = "harmless" => K \subseteq Base
  /\ d = "state"    => K \cap {"auth", "some sec", "told kmsk"} = {}
  /\ d = "config"   => K \cap {"auth", "some sec"} = {}
  /\ d = "versions" => "twice" \notin K
  /\ d = "parts"    => NoneOpen(K) /\ K \cap {"dumped", "more", "none got", "fetched"} = {}

LEMMA ResSame ==
  ASSUME NEW K, NEW j, NEW s, NEW r, Sane(j, s), Has(K, j, s), NoRes(K)
  PROVE  Has(K, [j EXCEPT !.res = r], s)
<1> DEFINE i == [j EXCEPT !.res = r]
<1>1. \A f \in JobFields \ {"res"} : i[f] = j[f]  BY DEF Sane, JobSane, JobFields
<1> HIDE DEF i
<1>2. Same(i, j)  BY <1>1 DEF Same
<1>3. Has(K, i, s)  BY <1>2, HasSame
<1> QED  BY <1>3 DEF i

LEMMA ReturnsSame ==
  ASSUME NEW K, NoRes(K), NEW r, NEW f, NEW S
  PROVE  Returns(K, r, K) /\ GivesUp(K, f, S, K)
BY ResSame DEF Returns, GivesUp

LEMMA SureMore ==
  ASSUME NEW K, NEW j, NEW s, NEW i, NEW n \in 0..1, Sane(j, s), Has(K, j, s), NoRes(K),
         i.sure = j.sure + n, \A f \in JobFields \ {"sure", "res"} : i[f] = j[f]
  PROVE  Has(K, i, s)
<1>1. /\ i.cmd = j.cmd /\ i.opt = j.opt /\ i.id = j.id /\ i.gen = j.gen /\ i.phase = j.phase
      /\ i.saved = j.saved /\ i.sec = j.sec /\ i.left = j.left
      /\ i.status = j.status /\ i.counter = j.counter /\ i.ses = j.ses /\ i.got = j.got
      /\ i.seen = j.seen /\ i.failed = j.failed /\ i.met = j.met /\ i.act0 = j.act0
  BY IdleDomain
<1>2. i.kmsk = j.kmsk /\ i.versions = j.versions  BY IdleDomain
<1>3. i.sure >= j.sure /\ j.sure \in Nat  BY DEF Sane, JobSane
<1>4. HasAuth(K, i, s)
  <2>1. HasAuth(K, j, s)  BY DEF Has
  <2>2. "twice" \in K => (i.versions = TRUE /\ "newer" \in i.opt => i.sure >= 2)
    <3>1. ("newer" \in i.opt) = ("newer" \in j.opt) /\ (j.sure >= 2 => i.sure >= 2)  BY <1>1, <1>3
    <3> QED  BY <1>2, <2>1, <3>1 DEF HasAuth
  <2>3. "told kmsk" \in K => i.sec = "none" \/ i.kmsk = s.kmsk \/ "kmsk" \in i.met
    BY <1>1, <1>2, <2>1 DEF HasAuth
  <2>4. "sure" \in K => i.sure >= 1
    <3>1. "sure" \in K => j.sure >= 1  BY <2>1 DEF HasAuth
    <3> QED  BY <1>3, <3>1
  <2> QED  BY <1>1, <2>1, <2>2, <2>3, <2>4 DEF HasAuth, Own
<1>5. HasMeasure(K, i, s)  BY <1>1 DEF Has, HasMeasure, Own, NoRes
<1>6. HasFw(K, i, s)  BY <1>1, ZenonT(40) DEF Has, HasFw, NoRes, Moved, Unmoved, Other, Restored
<1>7. HasLoop(K, i, s)  BY <1>1 DEF Has, HasLoop, AllOff
<1>8. HasSes(K, i, s)
  <2>1. Dumped(i) <=> Dumped(j)  BY <1>1 DEF Dumped
  <2>2. "over" \notin K  BY DEF NoRes
  <2> QED  BY <1>1, <2>1, <2>2 DEF Has, HasSes
<1> QED  BY <1>1, <1>4, <1>5, <1>6, <1>7, <1>8 DEF Has

LEMMA AgreedSame ==
  ASSUME NEW K, NoRes(K), NEW n \in 0..1
  PROVE  Agreed(K, K, n)
<1> SUFFICES ASSUME NEW j, NEW s, Sane(j, s), Has(K, j, s)
             PROVE  Has(K, [[j EXCEPT !.sure = @ + n] EXCEPT !.res = "ok"], s)
  BY DEF Agreed
<1> DEFINE i == [[j EXCEPT !.sure = @ + n] EXCEPT !.res = "ok"]
<1>1. i.sure = j.sure + n /\ \A f \in JobFields \ {"sure", "res"} : i[f] = j[f]
  BY IdleDomain DEF Sane, JobSane, JobFields
<1> HIDE DEF i
<1>2. Has(K, i, s)  BY <1>1, SureMore
<1> QED  BY <1>2 DEF i

\* Steps that keep what is known, of the kind D.
Quiet(R, D, t) == \A K : In(D, K) => Does(R, K, K, t, K)

LEMMA InNoRes == ASSUME NEW D, NEW K, In(D, K) PROVE NoRes(K)
BY DEF In

LEMMA QSkip == ASSUME NEW R, NEW D PROVE Quiet(R, D, Skip)
BY DoesSkip DEF Quiet
LEMMA QSeq ==
  ASSUME NEW R, NEW D, NEW a, NEW b, Quiet(R, D, a), Quiet(R, D, b)
  PROVE  Quiet(R, D, a ++ b)
BY DoesSeq DEF Quiet
LEMMA QNeed ==
  ASSUME NEW R, NEW D, NEW f, NEW S, "err" \in R
  PROVE  Quiet(R, D, Need(f, S))
<1>1. \A K : Knows(K, f, S, K)  BY DEF Knows
<1> QED  BY <1>1, DoesNeed, ReturnsSame, InNoRes DEF Quiet
LEMMA QWhen ==
  ASSUME NEW R, NEW D, NEW f, NEW S, NEW t, Quiet(R, D, t)
  PROVE  Quiet(R, D, When(f, S, t))
<1>1. \A K : Knows(K, f, S, K) /\ KnowsNot(K, f, S, K)  BY DEF Knows, KnowsNot
<1> QED  BY <1>1, DoesWhen DEF Quiet
LEMMA QIf ==
  ASSUME NEW R, NEW D, NEW f, NEW S, NEW a, NEW b, Quiet(R, D, a), Quiet(R, D, b)
  PROVE  Quiet(R, D, IfElse(f, S, a, b))
<1>1. \A K : Knows(K, f, S, K) /\ KnowsNot(K, f, S, K)  BY DEF Knows, KnowsNot
<1> QED  BY <1>1, DoesIf DEF Quiet
LEMMA QLeave ==
  ASSUME NEW R, NEW D, "ok" \in R
  PROVE  Quiet(R, D, [k |-> "leave"])
BY DoesLeave, ReturnsSame, InNoRes DEF Quiet
LEMMA QInstead ==
  ASSUME NEW R, NEW D, NEW f, NEW S, NEW t, Quiet(R, D, t), "ok" \in R
  PROVE  Quiet(R, D, Instead(f, S, t))
BY QWhen, QSeq, QLeave DEF Instead
LEMMA QWhenOpt ==
  ASSUME NEW R, NEW D, NEW S, NEW t, Quiet(R, D, t)
  PROVE  Quiet(R, D, WhenOpt(S, t))
<1>1. \A K, b : KnowsOpt(K, S, b, K)  BY DEF KnowsOpt
<1> QED  BY <1>1, DoesWhenOpt DEF Quiet
LEMMA QUnlessOpt ==
  ASSUME NEW R, NEW D, NEW S, NEW t, Quiet(R, D, t)
  PROVE  Quiet(R, D, UnlessOpt(S, t))
<1>1. \A K, b : KnowsOpt(K, S, b, K)  BY DEF KnowsOpt
<1> QED  BY <1>1, DoesUnlessOpt DEF Quiet
LEMMA QUntil ==
  ASSUME NEW R, NEW D, NEW f, NEW S, NEW t, Quiet(R, D, t)
  PROVE  Quiet(R, D, Until(f, S, t))
<1>1. \A K : Knows(K, f, S, K) /\ KnowsNot(K, f, S, K)  BY DEF Knows, KnowsNot
<1> QED  BY <1>1, DoesUntil DEF Quiet
LEMMA QTimes ==
  ASSUME NEW R, NEW D, NEW t, Quiet(R, D, t), NEW n \in 0..3
  PROVE  Quiet(R, D, Times(n, t))
<1>0. Quiet(R, D, Times(0, t))  BY DoesTimes DEF Quiet
<1>1. Quiet(R, D, Times(1, t))
  <2>1. 1 - 1 = 0 /\ 1 # 0  OBVIOUS
  <2> QED  BY <1>0, <2>1, DoesTimes DEF Quiet
<1>2. Quiet(R, D, Times(2, t))
  <2>1. 2 - 1 = 1 /\ 2 # 0  OBVIOUS
  <2> QED  BY <1>1, <2>1, DoesTimes DEF Quiet
<1>3. Quiet(R, D, Times(3, t))
  <2>1. 3 - 1 = 2 /\ 3 # 0  OBVIOUS
  <2> QED  BY <1>2, <2>1, DoesTimes DEF Quiet
<1>4. n = 0 \/ n = 1 \/ n = 2 \/ n = 3  OBVIOUS
<1> QED  BY <1>0, <1>1, <1>2, <1>3, <1>4
LEMMA QTry ==
  ASSUME NEW R, NEW D, NEW t, NEW B, Quiet(B, D, t)
  PROVE  Quiet(R, D, Try(t))
BY DoesTry, ReturnsSame, InNoRes DEF Quiet
LEMMA QAsk ==
  ASSUME NEW R, NEW D, "err" \in R
  PROVE  Quiet(R, D, Input) /\ Quiet(R, D, Confirm)
<1>1. 0 \in 0..1 /\ 1 \in 0..1  OBVIOUS
<1>2. \A K : In(D, K) => Agreed(K, K, 0) /\ Agreed(K, K, 1) /\ Returns(K, "err", K)
  BY <1>1, AgreedSame, ReturnsSame, InNoRes
<1>3. Quiet(R, D, Input)  BY <1>2, DoesInput DEF Quiet
<1>4. Quiet(R, D, Confirm)  BY <1>2, DoesConfirm DEF Quiet
<1> QED  BY <1>3, <1>4
LEMMA QCmd ==
  ASSUME NEW R, NEW D, NEW x, "err" \in R, \A K : In(D, K) => Keeps(x, K) /\ MayDo(x, K)
  PROVE  Quiet(R, D, Cmd(x))
BY CmdKeeps, DoesCmd DEF Quiet

\* Steps that keep everything, and those that keep what every harmless call keeps.
Calm(t) == Quiet(Err, "all", t)
Meek(t) == Quiet(Both, "harmless", t)

OnCmds == {m.on : m \in Modes}
Guarded == ForGood \cup Keyed \cup SignedCmds \cup {"EVCNTR_SETUP"} \cup Uses \cup OnCmds
Loud == Guarded \cup Stirs \cup DOMAIN Opens \cup DOMAIN Closes
        \cup {"RESET", "SET_SECURED", "SET_UNSECURED", "KMSK", "config", "config_ext", "otp", "state",
              "sn_ver", "EVCNTR_CLEAR", "LAT_GET", "BW_GET", "BOOTUP_RESUME", "FW_TX_EXEC",
              "TOGGLE", "TOGGLE_BL2", "WRITE", "SET_BOOT_RW", "dev_info"}

LEMMA MayUnguarded == ASSUME NEW x, x \notin Guarded, NEW K PROVE MayDo(x, K)
<1>1. \A m \in Modes : x # m.on  BY DEF Guarded, OnCmds
<1>2. /\ x \notin {Parallel.on, External.on, Pipe.on, RxToTx.on, TxToRx.on}
  BY <1>1 DEF Modes
<1>3. /\ x \notin Keyed /\ x \notin SignedCmds /\ x \notin ForGood /\ x # "EVCNTR_SETUP" /\ x \notin Uses
  BY DEF Guarded
<1> QED  BY <1>2, <1>3 DEF MayDo, May, ForGood

LEMMA KeepsCalm == ASSUME NEW x, x \notin Loud, NEW K, NoRes(K) PROVE Keeps(x, K)
<1>1. \A m \in Modes : x # m.on  BY DEF Loud, Guarded, OnCmds
<1>2. KeepsLoop(x, K)  BY <1>1 DEF KeepsLoop, Loud
<1>3. KeepsSes(x, K)  BY DEF KeepsSes, Loud
<1>4. KeepsAuth(x, K)  BY DEF KeepsAuth, Loud
<1>5. KeepsMeasure(x, K)  BY DEF KeepsMeasure, Loud, Guarded
<1>6. KeepsFw(x, K)  BY DEF KeepsFw, Loud
<1>7. x # "RESET"  BY DEF Loud
<1> QED  BY <1>2, <1>3, <1>4, <1>5, <1>6, <1>7 DEF Keeps

LEMMA Sessions7 ==
  ASSUME NEW f \in Sessions
  PROVE  /\ Opened[f] \in {"topo open", "gfms open", "img open", "nvme open", "log open", "cross open",
                           "eye open"}
         /\ Counted[f] \in {"topo counted", "gfms counted", "img counted", "nvme counted",
                            "log counted", "cross counted", "eye counted"}
<1>1. CASE f = "topo"   BY <1>1 DEF Opened, Counted
<1>2. CASE f = "gfms"   BY <1>2 DEF Opened, Counted
<1>3. CASE f = "img"    BY <1>3 DEF Opened, Counted
<1>4. CASE f = "nvme"   BY <1>4 DEF Opened, Counted
<1>5. CASE f = "log"    BY <1>5 DEF Opened, Counted
<1>6. CASE f = "cross"  BY <1>6 DEF Opened, Counted
<1>7. CASE f = "eye"    BY <1>7 DEF Opened, Counted
<1> QED  BY <1>1, <1>2, <1>3, <1>4, <1>5, <1>6, <1>7 DEF Sessions
LEMMA BaseNoneOpen == ASSUME NEW K \in SUBSET Base PROVE NoneOpen(K)
<1>1. \A k \in K : k \in {"plain", "no session", "topo", "gfms", "nvme", "log"}  BY DEF Base, Dumps
<1>2. ASSUME NEW f \in Sessions PROVE Opened[f] \notin K /\ Counted[f] \notin K
  BY <1>1, Sessions7
<1> QED  BY <1>1, <1>2 DEF NoneOpen
LEMMA KeepsBase == ASSUME NEW x, x \notin DOMAIN Opens, NEW K \in SUBSET Base PROVE Keeps(x, K)
<1>1. \A k \in K : k \in {"plain", "no session", "topo", "gfms", "nvme", "log"}  BY DEF Base, Dumps
<1>2. \A m \in Modes : m.on \notin K
  <2> SUFFICES ASSUME NEW m \in Modes PROVE m.on \notin K  OBVIOUS
  <2>1. m.on \in {"PARALLEL_ON", "EXTERNAL_ON", "PIPE_ON", "LTSSM_ON", "RX_TO_TX_ON", "TX_TO_RX_ON"}
    BY DEF Modes, Parallel, External, Pipe, Ltssm, RxToTx, TxToRx
  <2> QED  BY <1>1, <2>1
<1>3. KeepsLoop(x, K)
  <2>1. K \cap {"gen5", "not gen5", "off on gen5", "off"} = {}  BY <1>1
  <2> QED  BY <1>2, <2>1 DEF KeepsLoop
<1>4. KeepsSes(x, K)
  <2>1. K \cap {"dumped", "more", "none got", "fetched"} = {}  BY <1>1
  <2> QED  BY <2>1, BaseNoneOpen DEF KeepsSes
<1>5. KeepsAuth(x, K)  BY <1>1 DEF KeepsAuth
<1>6. KeepsMeasure(x, K)  BY <1>1 DEF KeepsMeasure
<1>7. KeepsFw(x, K)  BY <1>1 DEF KeepsFw
<1>8. NoRes(K)  BY <1>1 DEF NoRes
<1> QED  BY <1>3, <1>4, <1>5, <1>6, <1>7, <1>8 DEF Keeps

LEMMA ErrIn == "err" \in Err /\ "err" \in Both /\ "ok" \in Both
BY DEF Err, Both

LEMMA CalmRules ==
  /\ Calm(Skip) /\ Calm(Input) /\ Calm(Confirm)
  /\ \A a, b : Calm(a) /\ Calm(b) => Calm(a ++ b)
  /\ \A f, S : Calm(Need(f, S))
  /\ \A f, S, t : Calm(t) => Calm(When(f, S, t)) /\ Calm(Until(f, S, t))
  /\ \A S, t : Calm(t) => Calm(WhenOpt(S, t)) /\ Calm(UnlessOpt(S, t))
  /\ \A t, n : Calm(t) /\ n \in 0..3 => Calm(Times(n, t))
  /\ \A t : Calm(t) => Calm(Try(t))
  /\ \A x : x \notin Loud => Calm(Cmd(x))
<1>1. ASSUME NEW x, x \notin Loud PROVE Calm(Cmd(x))
  <2>1. x \notin Guarded  BY <1>1 DEF Loud
  <2>2. \A K : In("all", K) => Keeps(x, K) /\ MayDo(x, K)
    BY <1>1, <2>1, KeepsCalm, MayUnguarded, InNoRes
  <2> QED  BY <2>2, QCmd, ErrIn DEF Calm
<1>2. Calm(Skip) /\ Calm(Input) /\ Calm(Confirm)  BY QSkip, QAsk, ErrIn DEF Calm
<1>3. \A f, S : Calm(Need(f, S))  BY QNeed, ErrIn DEF Calm
<1>4. \A t, n : Calm(t) /\ n \in 0..3 => Calm(Times(n, t))  BY QTimes DEF Calm
<1>5. \A a, b : Calm(a) /\ Calm(b) => Calm(a ++ b)  BY QSeq DEF Calm
<1>6. \A f, S, t : Calm(t) => Calm(When(f, S, t)) /\ Calm(Until(f, S, t))  BY QWhen, QUntil DEF Calm
<1>7. \A S, t : Calm(t) => Calm(WhenOpt(S, t)) /\ Calm(UnlessOpt(S, t))
  BY QWhenOpt, QUnlessOpt DEF Calm
<1>8. \A t : Calm(t) => Calm(Try(t))  BY QTry DEF Calm
<1> QED  BY <1>1, <1>2, <1>3, <1>4, <1>5, <1>6, <1>7, <1>8

LEMMA CalmIsMeek == ASSUME NEW t, Calm(t) PROVE Meek(t)
<1>1. Err \subseteq Both  BY DEF Err, Both
<1> QED  BY <1>1, DoesWeaker, EntailsItself DEF Calm, Meek, Quiet, In

LEMMA MeekRules ==
  /\ Meek(Skip) /\ Meek(Input) /\ Meek(Confirm)
  /\ \A a, b : Meek(a) /\ Meek(b) => Meek(a ++ b)
  /\ \A f, S : Meek(Need(f, S))
  /\ \A f, S, t : Meek(t) => Meek(When(f, S, t)) /\ Meek(Until(f, S, t)) /\ Meek(Instead(f, S, t))
  /\ \A S, t : Meek(t) => Meek(WhenOpt(S, t)) /\ Meek(UnlessOpt(S, t))
  /\ \A t, n : Meek(t) /\ n \in 0..3 => Meek(Times(n, t))
  /\ \A t : Meek(t) => Meek(Try(t))
  /\ \A x : x \notin Guarded \cup DOMAIN Opens => Meek(Cmd(x))
<1>1. ASSUME NEW x, x \notin Guarded \cup DOMAIN Opens PROVE Meek(Cmd(x))
  <2>1. \A K : In("harmless", K) => Keeps(x, K) /\ MayDo(x, K)
    BY <1>1, KeepsBase, MayUnguarded DEF In
  <2> QED  BY <2>1, QCmd, ErrIn DEF Meek
<1>2. Meek(Skip) /\ Meek(Input) /\ Meek(Confirm)  BY QSkip, QAsk, ErrIn DEF Meek
<1>3. \A f, S : Meek(Need(f, S))  BY QNeed, ErrIn DEF Meek
<1>4. \A t, n : Meek(t) /\ n \in 0..3 => Meek(Times(n, t))  BY QTimes DEF Meek
<1>5. \A a, b : Meek(a) /\ Meek(b) => Meek(a ++ b)  BY QSeq DEF Meek
<1>6. \A f, S, t : Meek(t) => Meek(When(f, S, t)) /\ Meek(Until(f, S, t)) /\ Meek(Instead(f, S, t))
  BY QWhen, QUntil, QInstead, ErrIn DEF Meek
<1>7. \A S, t : Meek(t) => Meek(WhenOpt(S, t)) /\ Meek(UnlessOpt(S, t))
  BY QWhenOpt, QUnlessOpt DEF Meek
<1>8. \A t : Meek(t) => Meek(Try(t))  BY QTry DEF Meek
<1> QED  BY <1>1, <1>2, <1>3, <1>4, <1>5, <1>6, <1>7, <1>8

\* The commands that are sent on a condition, or open a session.
GuardedNames ==
  {"UNLOCK_STATIC", "UNLOCK_DATA", "UNLOCK_UPDATE", "SEC_VER_UPDATE", "STATIC_DISABLE",
   "SET_SECURED", "SET_UNSECURED", "DEBUG_PROTECT", "CONFIG_SET", "KMSK", "DEV_SETTINGS",
   "CUSTOMER_SETTINGS", "SECURITY_SETTINGS", "DOK_KEY_ADD", "DOK_KEY_REVOKE", "WRITE",
   "EVCNTR_SETUP", "TOPO_GET", "GFMS_GET", "IMG_NEXT", "NVME_DATA", "LOG_DUMP", "EYE_FETCH",
   "LOG_NEXT", "OSA_READ", "PARALLEL_ON", "EXTERNAL_ON", "PIPE_ON", "LTSSM_ON", "RX_TO_TX_ON",
   "TX_TO_RX_ON", "TOPO_START", "GFMS_START", "IMG_START", "NVME_MORE", "NVME_START", "FREEZE",
   "CROSS_ON", "EYE_START"}
LEMMA GuardedIs == Guarded \cup DOMAIN Opens \subseteq GuardedNames
<1>1. ForGood \cup Keyed \cup SignedCmds \cup {"EVCNTR_SETUP"} \subseteq GuardedNames
  BY DEF ForGood, Keyed, SignedCmds, GuardedNames
<1>2. Uses \subseteq GuardedNames
  BY DEF Uses, Reads, GuardedNames
<1>3. OnCmds \subseteq GuardedNames
  BY DEF OnCmds, Modes, Parallel, External, Pipe, Ltssm, RxToTx, TxToRx, GuardedNames
<1>4. DOMAIN Opens \subseteq GuardedNames  BY OpensDomain DEF GuardedNames
<1> QED  BY <1>1, <1>2, <1>3, <1>4 DEF Guarded
LEMMA MeekCmd == \A x : x \notin GuardedNames => Meek(Cmd(x))
BY MeekRules, GuardedIs



-----------------------------------------------------------------------------
(* A process among others.                                                     *)

\* What another process, or the switch itself, may do between two steps of j.
Outside(j, s, i, x) ==
  /\ DOMAIN i = DOMAIN j /\ \A f \in JobFields \ {"met"} : i[f] = j[f]
  /\ j.met \subseteq i.met
  /\ \A f \in Fields \ {"work"} : x[f] = s[f] \/ f \in i.met
  /\ x.gen = s.gen
  /\ \A f \in Dumps : x[f] = j.id => s[f] = j.id

LEMMA OutsideFacts ==
  ASSUME NEW j, NEW s, NEW i, NEW x, Sane(j, s), Outside(j, s, i, x)
  PROVE  /\ i.cmd = j.cmd /\ i.opt = j.opt /\ i.id = j.id /\ i.gen = j.gen /\ i.phase = j.phase
         /\ i.saved = j.saved /\ i.sec = j.sec /\ i.left = j.left /\ i.ret = j.ret /\ i.res = j.res
         /\ i.status = j.status /\ i.counter = j.counter /\ i.ses = j.ses /\ i.got = j.got
         /\ i.seen = j.seen /\ i.failed = j.failed /\ i.act0 = j.act0 /\ i.sure = j.sure
         /\ i.todo = j.todo /\ i.callers = j.callers /\ i.kmsk = j.kmsk /\ i.versions = j.versions
         /\ \A f \in {"pub", "sig"} : Own(f, j, s) => Own(f, i, x)
         /\ Own("bw", j, s) => Own("bw", i, x)
         /\ Own("lat", j, s) => Own("lat", i, x)
         /\ Restored(j, s) => Restored(i, x)
         /\ Moved(j, s) => Moved(i, x)
         /\ Unmoved(j, s) => Unmoved(i, x)
         /\ AllOff(j, s) => AllOff(i, x)
         /\ Dumped(j) => Dumped(i)
         /\ \A f \in Dumps : s[f] # j.id => x[f] # i.id
<1>1. /\ i.cmd = j.cmd /\ i.opt = j.opt /\ i.id = j.id /\ i.gen = j.gen /\ i.phase = j.phase
      /\ i.saved = j.saved /\ i.sec = j.sec /\ i.left = j.left /\ i.ret = j.ret /\ i.res = j.res
      /\ i.status = j.status /\ i.counter = j.counter /\ i.ses = j.ses /\ i.got = j.got
      /\ i.seen = j.seen /\ i.failed = j.failed /\ i.act0 = j.act0 /\ i.sure = j.sure
      /\ i.todo = j.todo /\ i.callers = j.callers
  BY IdleDomain DEF Outside
<1>2. i.kmsk = j.kmsk /\ i.versions = j.versions  BY IdleDomain DEF Outside
<1>3. \A f \in {"pub", "sig"} : Own(f, j, s) => Own(f, i, x)
  BY <1>1 DEF Own, Outside, Fields
<1>4. (Own("bw", j, s) => Own("bw", i, x)) /\ (Own("lat", j, s) => Own("lat", i, x))
  BY <1>1 DEF Own, Outside, Fields
<1>5. Restored(j, s) => Restored(i, x)  BY <1>1 DEF Restored, Outside, Fields
<1>6. (Moved(j, s) => Moved(i, x)) /\ (Unmoved(j, s) => Unmoved(i, x))
  BY <1>1 DEF Moved, Unmoved, Other, Outside, Fields
<1>7. AllOff(j, s) => AllOff(i, x)  BY <1>1 DEF AllOff, Outside, Fields
<1>8. Dumped(j) => Dumped(i)  BY <1>1 DEF Dumped, Outside
<1>9. \A f \in Dumps : s[f] # j.id => x[f] # i.id  BY <1>1 DEF Outside
<1> QED  BY <1>1, <1>2, <1>3, <1>4, <1>5, <1>6, <1>7, <1>8, <1>9

LEMMA OutsideHas ==
  ASSUME NEW j, NEW s, NEW i, NEW x, NEW K, Sane(j, s), Outside(j, s, i, x), Has(K, j, s)
  PROVE  Has(K, i, x)
<1>1. /\ i.cmd = j.cmd /\ i.opt = j.opt /\ i.id = j.id /\ i.gen = j.gen /\ i.phase = j.phase
      /\ i.saved = j.saved /\ i.sec = j.sec /\ i.left = j.left /\ i.ret = j.ret /\ i.res = j.res
      /\ i.status = j.status /\ i.counter = j.counter /\ i.ses = j.ses /\ i.got = j.got
      /\ i.seen = j.seen /\ i.failed = j.failed /\ i.act0 = j.act0 /\ i.sure = j.sure
  BY OutsideFacts
<1>2. i.kmsk = j.kmsk /\ i.versions = j.versions  BY OutsideFacts
<1>3. /\ \A f \in {"pub", "sig"} : Own(f, j, s) => Own(f, i, x)
      /\ (Own("bw", j, s) => Own("bw", i, x)) /\ (Own("lat", j, s) => Own("lat", i, x))
  BY OutsideFacts
<1>4. \A f \in Fields \ {"work"} : x[f] = s[f] \/ f \in i.met  BY DEF Outside
<1>5. j.met \subseteq i.met /\ x.gen = s.gen  BY DEF Outside
<1>6. HasAuth(K, i, x)
  <2>0. HasAuth(K, j, s)  BY DEF Has
  <2>1. "twice" \in K => (i.versions = TRUE /\ "newer" \in i.opt => i.sure >= 2)
    BY <1>1, <1>2, <2>0 DEF HasAuth
  <2>2. (x.kmsk = s.kmsk \/ "kmsk" \in i.met) /\ (x.sec = s.sec \/ "sec" \in i.met)
    BY <1>4 DEF Fields
  <2>3. "told kmsk" \in K => i.sec = "none" \/ i.kmsk = x.kmsk \/ "kmsk" \in i.met
    BY <1>1, <1>2, <1>5, <2>0, <2>2 DEF HasAuth
  <2>4. "no kmsk" \in K => x.kmsk = FALSE \/ "kmsk" \in i.met
    BY <1>5, <2>0, <2>2 DEF HasAuth
  <2> QED  BY <1>1, <1>3, <1>5, <2>0, <2>1, <2>2, <2>3, <2>4 DEF HasAuth
<1>7. HasMeasure(K, i, x)
  <2>1. x.counter = s.counter \/ "counter" \in i.met  BY <1>4 DEF Fields
  <2> QED  BY <1>1, <1>3, <1>5, <2>1 DEF Has, HasMeasure
<1>8. HasFw(K, i, x)
  <2>1. /\ Restored(j, s) => Restored(i, x)
        /\ Moved(j, s) => Moved(i, x)
        /\ Unmoved(j, s) => Unmoved(i, x)
    BY OutsideFacts
  <2>2. (x.act = s.act \/ "act" \in i.met) /\ (x.phase = s.phase \/ "phase" \in i.met)
    BY <1>4 DEF Fields
  <2>3. HasFw(K, j, s)  BY DEF Has
  <2>4. "told phase" \in K => i.phase = x.phase \/ "phase" \in i.met
    BY <1>1, <1>5, <2>2, <2>3 DEF HasFw
  <2>5. "open res" \in K => (i.res = "ok" => i.gen = x.gen /\ (i.phase = x.phase \/ "phase" \in i.met))
    BY <1>1, <1>5, <2>2, <2>3 DEF HasFw
  <2>6. "act kept" \in K => x.act = i.act0 \/ "act" \in i.met
    BY <1>1, <1>5, <2>2, <2>3 DEF HasFw
  <2>7. /\ "toggle res" \in K => (i.res = "ok" => Moved(i, x)) /\ (i.res = "mrpc" => Unmoved(i, x))
        /\ "reported" \in K => (i.saved = "ok" => Moved(i, x)) /\ (i.saved = "mrpc" => Unmoved(i, x))
        /\ "restored if written" \in K => ("WRITE" \in i.failed => Restored(i, x))
    BY <1>1, <2>1, <2>3 DEF HasFw
  <2> QED  BY <1>1, <1>5, <2>1, <2>3, <2>4, <2>5, <2>6, <2>7 DEF HasFw
<1>9. HasLoop(K, i, x)
  <2>1. AllOff(j, s) => AllOff(i, x)  BY OutsideFacts
  <2>2. x.loop = s.loop \/ "loop" \in i.met  BY <1>4 DEF Fields
  <2> QED  BY <1>1, <1>5, <2>1, <2>2 DEF Has, HasLoop
<1>10. HasSes(K, i, x)
  <2>1. Dumped(j) => Dumped(i)  BY OutsideFacts
  <2>2. \A f \in Dumps : s[f] # j.id => x[f] # i.id  BY OutsideFacts
  <2>3. \A f \in Sessions : x[f] = s[f] \/ f \in i.met  BY <1>4 DEF Fields, Sessions
  <2>4. x.cross = s.cross \/ "cross" \in i.met  BY <2>3 DEF Sessions
  <2>5. HasSes(K, j, s)  BY DEF Has
  <2>6. ASSUME NEW f \in Sessions
        PROVE  /\ Opened[f] \in K => i.ses = f /\ (f \in i.met \/ (x[f] = i.id /\ i.got = 0))
               /\ Counted[f] \in K => i.ses = f /\ (f \in i.met \/ (x[f] = i.id /\ i.left + i.got = Chunks))
    BY <1>1, <1>5, <2>3, <2>5 DEF HasSes
  <2>7. "scanned" \in K => i.ses = "cross" /\ ("cross" \in i.met
                          \/ (x.cross = i.id /\ (i.status \in {"none", "ready"} => i.got = Chunks)))
    BY <1>1, <1>5, <2>4, <2>5 DEF HasSes
  <2> QED  BY <1>1, <2>1, <2>2, <2>5, <2>6, <2>7 DEF HasSes
<1> QED  BY <1>1, <1>6, <1>7, <1>8, <1>9, <1>10 DEF Has

LEMMA OutsideHolding ==
  ASSUME NEW j, NEW s, NEW i, NEW x, NEW X, Sane(j, s), Outside(j, s, i, x), Holding(X, j, s)
  PROVE  Holding(X, i, x)
<1>1. i.ret = j.ret /\ i.todo = j.todo /\ i.callers = j.callers  BY OutsideFacts
<1>2. CASE j.ret = "none"
  <2>1. PICK K : <<K, j.todo, j.callers>> \in X /\ Has(K, j, s)  BY <1>2 DEF Holding
  <2>2. Has(K, i, x)  BY <2>1, OutsideHas
  <2> QED  BY <1>1, <1>2, <2>1, <2>2 DEF Holding
<1>3. CASE j.ret # "none"
  <2>1. Fin(j, s)  BY <1>3 DEF Holding
  <2>2. /\ i.cmd = j.cmd /\ i.ret = j.ret /\ i.seen = j.seen /\ i.id = j.id /\ i.failed = j.failed
        /\ i.saved = j.saved /\ j.met \subseteq i.met
    BY OutsideFacts DEF Outside
  <2>3. /\ Restored(j, s) => Restored(i, x)
        /\ Moved(j, s) => Moved(i, x)
        /\ Unmoved(j, s) => Unmoved(i, x)
        /\ AllOff(j, s) => AllOff(i, x)
        /\ Dumped(j) => Dumped(i)
        /\ \A f \in Dumps : s[f] # j.id => x[f] # i.id
    BY OutsideFacts
  <2>4. Fin(i, x)  BY <2>1, <2>2, <2>3 DEF Fin
  <2> QED  BY <1>1, <1>3, <2>4 DEF Holding
<1> QED  BY <1>2, <1>3

\* Tests, up to the next command.
Follows(i, j) ==
  /\ DOMAIN i = DOMAIN Idle /\ i.ret \in {j.ret, "ok", "err"}
  /\ \A f \in JobFields \ {"todo", "callers", "ret", "res", "saved"} : i[f] = j[f]
Reached(X, j, s, i) == JobSane(i) /\ Follows(i, j) /\ Holding(X, i, s)

LEMMA ReachedTest ==
  ASSUME NEW X, NEW j, NEW s, NEW i, Closed(X, {}), SwitchSane(s), Reached(X, j, s, i), AtTest(i)
  PROVE  Reached(X, j, s, Test(i))
<1>1. DOMAIN i = DOMAIN Idle /\ i.ret = "none"  BY DEF Reached, Follows, AtTest
<1>2. JobSane(Test(i))  BY SaneTest DEF Reached
<1>3. Follows(Test(i), j)
  <2>1. /\ DOMAIN Test(i) = DOMAIN Idle /\ Test(i).ret \in {i.ret, "ok", "err"}
        /\ \A f \in JobFields \ {"todo", "callers", "ret", "res", "saved"} : Test(i)[f] = i[f]
    BY <1>1, TestIs
  <2> QED  BY <2>1 DEF Reached, Follows
<1>4. PICK K : <<K, i.todo, i.callers>> \in X /\ Has(K, i, s)  BY <1>1 DEF Reached, Holding
<1>5. Good(<<K, i.todo, i.callers>>, X)
  <2>1. X \cup {} = X  OBVIOUS
  <2> QED  BY <1>4, <2>1 DEF Closed
<1>6. Holding(X, Test(i), s)  BY <1>1, <1>4, <1>5 DEF Good, Reached, Sane
<1> QED  BY <1>2, <1>3, <1>6 DEF Reached

LEMMA TheOne == \A x : The({x}) = x  BY DEF The
LEMMA SettleHolds ==
  ASSUME NEW X, NEW j, NEW s, Closed(X, {}), SwitchSane(s), JobSane(j), Holding(X, j, s)
  PROVE  Reached(X, j, s, Settle(j))
<1> DEFINE P(i) == Reached(X, j, s, i)
<1>0. P(j)  BY DEF Reached, Follows, JobSane
<1>1. \A i : P(i) => \E h : P(h) /\ Tested({i}) = {h}
  <2> SUFFICES ASSUME NEW i, P(i) PROVE \E h : P(h) /\ Tested({i}) = {h}  OBVIOUS
  <2>1. CASE AtTest(i)
    <3>1. P(Test(i))  BY <2>1, ReachedTest
    <3>2. Tested({i}) = {Test(i)}  BY <2>1 DEF Tested
    <3> QED  BY <3>1, <3>2
  <2>2. CASE ~AtTest(i)
    <3>1. Tested({i}) = {i}  BY <2>2 DEF Tested
    <3> QED  BY <3>1
  <2> QED  BY <2>1, <2>2
<1> HIDE DEF P
<1>2. \A i : P(i) => \E h : P(h) /\ Tested4({i}) = {h}
  <2> SUFFICES ASSUME NEW i, P(i) PROVE \E h : P(h) /\ Tested4({i}) = {h}  OBVIOUS
  <2>1. PICK a : P(a) /\ Tested({i}) = {a}  BY <1>1
  <2>2. PICK b : P(b) /\ Tested({a}) = {b}  BY <1>1, <2>1
  <2>3. PICK c : P(c) /\ Tested({b}) = {c}  BY <1>1, <2>2
  <2>4. PICK d : P(d) /\ Tested({c}) = {d}  BY <1>1, <2>3
  <2>5. The(Tested(Tested(Tested(Tested({i}))))) = d  BY <2>1, <2>2, <2>3, <2>4, TheOne
  <2>6. CASE AtTest(i)
    <3>1. Tested4({i}) = {d}  BY <2>5, <2>6 DEF Tested4
    <3> QED  BY <2>4, <3>1
  <2>7. CASE ~AtTest(i)
    <3>1. Tested4({i}) = {i}  BY <2>7 DEF Tested4
    <3> QED  BY <3>1
  <2> QED  BY <2>6, <2>7
<1>3. \A i : P(i) => \E h : P(h) /\ Tested16({i}) = {h}
  <2> SUFFICES ASSUME NEW i, P(i) PROVE \E h : P(h) /\ Tested16({i}) = {h}  OBVIOUS
  <2>1. PICK a : P(a) /\ Tested4({i}) = {a}  BY <1>2
  <2>2. PICK b : P(b) /\ Tested4({a}) = {b}  BY <1>2, <2>1
  <2>3. PICK c : P(c) /\ Tested4({b}) = {c}  BY <1>2, <2>2
  <2>4. PICK d : P(d) /\ Tested4({c}) = {d}  BY <1>2, <2>3
  <2>5. The(Tested4(Tested4(Tested4(Tested4({i}))))) = d  BY <2>1, <2>2, <2>3, <2>4, TheOne
  <2>6. CASE AtTest(i)
    <3>1. Tested16({i}) = {d}  BY <2>5, <2>6 DEF Tested16
    <3> QED  BY <2>4, <3>1
  <2>7. CASE ~AtTest(i)
    <3>1. Tested16({i}) = {i}  BY <2>7 DEF Tested16
    <3> QED  BY <3>1
  <2> QED  BY <2>6, <2>7
<1>4. PICK a : P(a) /\ Tested16({j}) = {a}  BY <1>0, <1>3
<1>5. PICK b : P(b) /\ Tested16({a}) = {b}  BY <1>3, <1>4
<1>6. PICK c : P(c) /\ Tested16({b}) = {c}  BY <1>3, <1>5
<1>7. PICK d : P(d) /\ Tested16({c}) = {d}  BY <1>3, <1>6
<1>8. Settle(j) = d  BY <1>4, <1>5, <1>6, <1>7, TheOne DEF Settle
<1> QED  BY <1>7, <1>8 DEF P

-----------------------------------------------------------------------------
(* All processes.                                                              *)

\* What is known of a call of the command c at its start.
AtFirst(c) ==
  {"no session", "none got", "twice", "told sec", "told kmsk", "unseen", "no write", "act kept",
   "unsaved"} \cup Dumps \cup (IF c \in Reporting THEN {c} ELSE {"plain"})
CallRuns(c, script) == Runs(<<AtFirst(c), (switchtec_open ++ script) ++ Skip, None>>, {})

Unstarted(j) ==
  /\ DOMAIN j = DOMAIN Idle /\ j.met \subseteq Fields
  /\ \A f \in JobFields \ {"met"} : j[f] = Idle[f]
Fine(j, s, n) ==
  /\ JobSane(j) /\ j.cmd \in DOMAIN Commands /\ j.cmd # "none"
  /\ j.ret \in {"none", "ok", "err", "killed"}
  /\ j.id \in 0..n /\ j.seen \subseteq 0..n
  /\ \E X : Closed(X, {}) /\ Holding(X, j, s)
SwitchInv(s, n) == SwitchSane(s) /\ \A f \in Forgotten : s[f] \in 0..n
Apart == \A p, q \in Procs : job[p].id = job[q].id => p = q \/ job[p].id = 0

\* The invariant: what is known of each call, where it is in its script, holds.
Inv ==
  /\ menu \in DOMAIN Menus /\ calls \in 0..Menus[menu].calls /\ faults \in 0..MaxFaults
  /\ DOMAIN job = Procs
  /\ \A p \in Procs : Unstarted(job[p]) \/ Fine(job[p], sw, Somebody + calls)
  /\ Apart
  /\ SwitchInv(sw, Somebody + calls)

LEMMA UnstartedIs ==
  ASSUME NEW j, Unstarted(j)
  PROVE  /\ j.id = 0 /\ j.ret = "idle" /\ j.cmd = "none" /\ j.seen = {} /\ j.left = 0 /\ j.got = 0
         /\ j.sure = 0 /\ j.ses = "none" /\ j.res = "ok" /\ j.failed = {} /\ j.opt = {}
         /\ j.versions = FALSE /\ j.kmsk = FALSE /\ j.saved = "none"
<1>1. \A f \in JobFields \ {"met"} : j[f] = Idle[f]  BY DEF Unstarted
<1>2. /\ j.id = Idle.id /\ j.ret = Idle.ret /\ j.cmd = Idle.cmd /\ j.seen = Idle.seen
      /\ j.left = Idle.left /\ j.got = Idle.got /\ j.sure = Idle.sure /\ j.ses = Idle.ses
      /\ j.res = Idle.res /\ j.failed = Idle.failed /\ j.opt = Idle.opt /\ j.saved = Idle.saved
  BY <1>1, IdleDomain
<1>3. j.versions = Idle.versions /\ j.kmsk = Idle.kmsk  BY <1>1, IdleDomain
<1> QED  BY <1>2, <1>3 DEF Idle

LEMMA TypeFromInv == ASSUME Inv PROVE TypeOK
<1> DEFINE n == Somebody + calls
<1>1. n \in Nat /\ n >= 1 /\ Ids = 0..n
  <2>1. Menus[menu].calls \in Nat  BY MenusAssumption DEF Inv
  <2>2. calls \in Nat  BY <2>1 DEF Inv
  <2> QED  BY <2>2 DEF Ids, Somebody
<1>2. DOMAIN sw = Fields  BY DEF Inv, SwitchInv, SwitchSane
<1>3. ASSUME NEW p \in Procs PROVE JobOK(job[p])
  <2>1. CASE Unstarted(job[p])
    <3>1. DOMAIN job[p] = DOMAIN Idle /\ job[p].met \subseteq DOMAIN sw  BY <1>2, <2>1 DEF Unstarted
    <3>2. job[p].versions \in BOOLEAN /\ job[p].kmsk \in BOOLEAN  BY <2>1, UnstartedIs
    <3>3. /\ job[p].cmd = "none" /\ job[p].ret = "idle" /\ job[p].res = "ok" /\ job[p].id = 0
          /\ job[p].seen = {} /\ job[p].left = 0 /\ job[p].got = 0 /\ job[p].sure = 0
          /\ job[p].ses = "none"
      BY <2>1, UnstartedIs
    <3>4. 0 \in Ids /\ 0 \in 0..Chunks /\ 0 \in Nat  BY <1>1, BoundsAssumption
    <3> QED  BY <3>1, <3>2, <3>3, <3>4 DEF JobOK
  <2>2. CASE Fine(job[p], sw, n)
    <3>1. JobSane(job[p])  BY <2>2 DEF Fine
    <3>2. job[p].versions \in BOOLEAN /\ job[p].kmsk \in BOOLEAN  BY <3>1 DEF JobSane
    <3>3. job[p].id \in Ids /\ job[p].seen \subseteq Ids  BY <1>1, <2>2 DEF Fine
    <3>4. /\ job[p].cmd \in DOMAIN Commands \cup {"none"} /\ job[p].cmd # "none"
          /\ job[p].ret \in {"idle", "none", "ok", "err", "killed"} /\ job[p].ret # "idle"
      BY <2>2 DEF Fine
    <3> QED  BY <1>2, <3>1, <3>2, <3>3, <3>4 DEF JobOK, JobSane
  <2> QED  BY <2>1, <2>2 DEF Inv
<1>4. SwitchOK  BY <1>1 DEF SwitchOK, Inv, SwitchInv, SwitchSane
<1> QED  BY <1>3, <1>4 DEF TypeOK, Inv

\* What the others find changed is all they are told.
Sees(j, s, i, x) ==
  /\ DOMAIN i = DOMAIN j /\ \A f \in JobFields \ {"met"} : i[f] = j[f]
  /\ j.met \subseteq i.met /\ i.met \subseteq Fields
  /\ \A f \in Fields \ {"work"} : x[f] = s[f] \/ f \in i.met

\* A step of the processes M, one or none.
LEMMA OneStep ==
  ASSUME Inv, NEW M \in SUBSET Procs,
         menu' = menu, calls' \in 0..Menus[menu].calls, calls' >= calls, faults' \in 0..MaxFaults,
         DOMAIN job' = Procs, SwitchInv(sw', Somebody + calls'), sw'.gen = sw.gen,
         \A f \in Dumps : sw'[f] \in {sw[f], 0} \/ \E p \in M : sw'[f] = job'[p].id,
         \A p \in M : Unstarted(job'[p]) \/ Fine(job'[p], sw', Somebody + calls'),
         \A q \in Procs \ M : Sees(job[q], sw, job'[q], sw'),
         \A p, q \in Procs : job'[p].id = job'[q].id => p = q \/ job'[p].id = 0
  PROVE  Inv'
<1>1. Procs' = Procs  BY DEF Procs
<1>2. calls \in Nat /\ calls' \in Nat /\ \A x : x \in 0..(Somebody + calls) => x \in 0..(Somebody + calls')
  <2>1. Menus[menu].calls \in Nat  BY MenusAssumption DEF Inv
  <2>2. calls \in Nat /\ calls' \in Nat  BY <2>1 DEF Inv
  <2> QED  BY <2>2 DEF Somebody
<1>3. ASSUME NEW q \in Procs \ M
      PROVE  Unstarted(job'[q]) \/ Fine(job'[q], sw', Somebody + calls')
  <2> DEFINE i == job'[q]
             j == job[q]
  <2>1. Sees(j, sw, i, sw')  OBVIOUS
  <2>2. CASE Unstarted(j)
    <3>1. Unstarted(i)  BY <2>1, <2>2 DEF Sees, Unstarted
    <3> QED  BY <3>1
  <2>3. CASE Fine(j, sw, Somebody + calls)
    <3>1. PICK X : Closed(X, {}) /\ Holding(X, j, sw)  BY <2>3 DEF Fine
    <3>2. Sane(j, sw) /\ j.id # 0  BY <2>3 DEF Fine, Sane, Inv, SwitchInv, JobSane, Somebody
    <3>3. i.id = j.id /\ i.cmd = j.cmd /\ i.ret = j.ret /\ i.seen = j.seen
      BY <2>1, IdleDomain DEF Sees
    <3>4. ASSUME NEW f \in Dumps, sw'[f] = j.id PROVE sw[f] = j.id
      <4>1. CASE \E p \in M : sw'[f] = job'[p].id  BY <3>2, <3>3, <3>4, <4>1
      <4>2. CASE sw'[f] \in {sw[f], 0}  BY <3>2, <3>4, <4>2
      <4> QED  BY <4>1, <4>2
    <3>5. Outside(j, sw, i, sw')  BY <2>1, <3>4 DEF Sees, Outside
    <3>6. Holding(X, i, sw')  BY <3>1, <3>2, <3>5, OutsideHolding
    <3>7. JobSane(i)
      <4>1. DOMAIN i = DOMAIN Idle /\ i.met \subseteq Fields  BY <2>1, <3>2 DEF Sees, Sane, JobSane
      <4>2. /\ i.res = j.res /\ i.id = j.id /\ i.left = j.left /\ i.got = j.got /\ i.sure = j.sure
            /\ i.ses = j.ses
        BY <2>1, IdleDomain DEF Sees
      <4>3. i.versions = j.versions /\ i.kmsk = j.kmsk  BY <2>1, IdleDomain DEF Sees
      <4>4. i.versions \in BOOLEAN /\ i.kmsk \in BOOLEAN  BY <3>2, <4>3 DEF Sane, JobSane
      <4> QED  BY <3>2, <4>1, <4>2, <4>4 DEF Sane, JobSane
    <3>8. i.id \in 0..(Somebody + calls') /\ i.seen \subseteq 0..(Somebody + calls')
      BY <1>2, <2>3, <3>3 DEF Fine
    <3>9. Fine(i, sw', Somebody + calls')  BY <2>3, <3>1, <3>3, <3>6, <3>7, <3>8 DEF Fine
    <3> QED  BY <3>9
  <2> QED  BY <2>2, <2>3 DEF Inv
<1>4. \A p \in Procs : Unstarted(job'[p]) \/ Fine(job'[p], sw', Somebody + calls')
  BY <1>3
<1>5. Apart'  BY <1>1 DEF Apart
<1> QED  BY <1>1, <1>4, <1>5 DEF Inv

\* An own step: the call is i before the tests that follow.
LEMMA OwnStep ==
  ASSUME Inv, NEW p \in Procs, NEW i, NEW s, NEW X, Fine(job[p], sw, Somebody + calls),
         menu' = menu, calls' = calls, faults' \in 0..MaxFaults,
         sw' = s, SwitchInv(s, Somebody + calls), s.gen = sw.gen,
         \A f \in Dumps : s[f] \in {sw[f], 0, job[p].id},
         DOMAIN job' = Procs, job'[p] = Settle(i),
         \A q \in Procs \ {p} : Sees(job[q], sw, job'[q], s),
         Closed(X, {}), Holding(X, i, s), JobSane(i), i.id = job[p].id, i.cmd = job[p].cmd,
         i.seen \subseteq 0..(Somebody + calls), i.ret \in {"none", "ok", "err"}
  PROVE  Inv'
<1> DEFINE n == Somebody + calls
           g == Settle(i)
<1>1. Reached(X, i, s, g)  BY SettleHolds DEF SwitchInv
<1>2. g.id = i.id /\ g.cmd = i.cmd /\ g.seen = i.seen /\ g.ret \in {"none", "ok", "err"}
  BY <1>1, IdleDomain DEF Reached, Follows
<1>3. g.id \in 0..n /\ g.cmd \in DOMAIN Commands /\ g.cmd # "none"  BY <1>2 DEF Fine
<1>4. Fine(g, s, n)  BY <1>1, <1>2, <1>3 DEF Fine, Reached
<1>5. \A q \in Procs : job'[q].id = job[q].id
  <2>1. job'[p].id = job[p].id  BY <1>2
  <2>2. \A q \in Procs \ {p} : job'[q].id = job[q].id  BY IdleDomain DEF Sees
  <2> QED  BY <2>1, <2>2
<1>6. \A q, r \in Procs : job'[q].id = job'[r].id => q = r \/ job'[q].id = 0
  BY <1>5 DEF Inv, Apart
<1>7. calls' \in 0..Menus[menu].calls /\ calls' >= calls
  <2>1. Menus[menu].calls \in Nat  BY MenusAssumption DEF Inv
  <2> QED  BY <2>1 DEF Inv
<1>8. \A f \in Dumps : s[f] \in {sw[f], 0} \/ \E q \in {p} : s[f] = job'[q].id
  BY <1>5
<1> HIDE DEF n, g
<1>9. \A q \in {p} : Unstarted(job'[q]) \/ Fine(job'[q], sw', Somebody + calls')
  BY <1>4 DEF n, g
<1>10. {p} \in SUBSET Procs /\ SwitchInv(sw', Somebody + calls') /\ sw'.gen = sw.gen
  OBVIOUS
<1>11. \A f \in Dumps : sw'[f] \in {sw[f], 0} \/ \E q \in {p} : sw'[f] = job'[q].id
  BY <1>8
<1>12. \A q \in Procs \ {p} : Sees(job[q], sw, job'[q], sw')
  OBVIOUS
<1> QED  BY <1>6, <1>7, <1>9, <1>10, <1>11, <1>12, OneStep

\* Where a process is about to have a command done, or to ask, and what follows.
LEMMA AtCommand ==
  ASSUME Inv, NEW p \in Procs, NEW k \in Takes, At(p, k)
  PROVE  /\ Fine(job[p], sw, Somebody + calls)
         /\ \E X : Closed(X, {}) /\ Ready(X, job[p], sw)
<1>1. job[p].ret = "none" /\ job[p].todo.k = "then" /\ job[p].todo.now.k = k  BY DEF At, Running
<1>2. Fine(job[p], sw, Somebody + calls)  BY <1>1, UnstartedIs DEF Inv
<1>3. PICK X : Closed(X, {}) /\ Holding(X, job[p], sw)  BY <1>2 DEF Fine
<1>4. PICK K : <<K, job[p].todo, job[p].callers>> \in X /\ Has(K, job[p], sw)
  BY <1>1, <1>3 DEF Holding
<1>5. Good(<<K, job[p].todo, job[p].callers>>, X)
  <2>1. X \cup {} = X  OBVIOUS
  <2> QED  BY <1>3, <1>4, <2>1 DEF Closed
<1>6. Sane(job[p], sw)  BY <1>2 DEF Fine, Sane, Inv, SwitchInv
<1>7. ~AtTest(job[p])  BY <1>1 DEF AtTest
<1>8. Ready(X, job[p], sw)  BY <1>1, <1>4, <1>5, <1>6, <1>7 DEF Good
<1> QED  BY <1>2, <1>3, <1>8

LEMMA EffectInv ==
  ASSUME NEW c, NEW j, NEW s, NEW n, SwitchInv(s, n), May(c, j, s), j.id \in 0..n, n \in Nat
  PROVE  LET e == Effect(c, j, s)
         IN  /\ SwitchInv(e, n) /\ e.gen = s.gen
             /\ \A f \in Dumps : e[f] \in {s[f], 0, j.id}
<1> DEFINE e == Effect(c, j, s)
<1>1. SwitchSane(e)  BY SaneEffect DEF SwitchInv
<1>2. EffectFields(e, c, j, s)  BY EffectDoes DEF SwitchInv, SwitchSane
<1> HIDE DEF e
<1>3. \A f \in Forgotten : e[f] \in {s[f], 0, j.id}
  <2>1. \A f \in Sessions : e[f] \in {s[f], 0, j.id}  BY <1>2 DEF EffectFields
  <2>2. \A f \in {"counter", "bw", "lat", "pub", "sig"} : e[f] \in {s[f], 0, j.id}
    BY <1>2 DEF EffectFields
  <2> QED  BY <2>1, <2>2 DEF Forgotten
<1>4. \A f \in Forgotten : e[f] \in 0..n  BY <1>3 DEF SwitchInv
<1>5. \A f \in Dumps : f \in Forgotten  BY DEF Dumps, Forgotten, Sessions
<1>6. e.gen = s.gen  BY <1>2 DEF EffectFields
<1>7. \A f \in Dumps : e[f] \in {s[f], 0, j.id}  BY <1>3, <1>5
<1> QED  BY <1>1, <1>4, <1>6, <1>7 DEF SwitchInv, e

LEMMA MeetsIs ==
  ASSUME Inv, NEW p \in Procs, NEW s, DOMAIN s = Fields
  PROVE  LET m == Meets(p, s)
         IN  /\ DOMAIN m = Procs /\ m[p] = job[p]
             /\ \A q \in Procs \ {p} : Sees(job[q], sw, m[q], s)
<1> DEFINE m == Meets(p, s)
           new == {f \in Fields : sw[f] # s[f]}
<1>1. DOMAIN sw = Fields  BY DEF Inv, SwitchInv, SwitchSane
<1>2. DOMAIN m = Procs /\ m[p] = job[p]  BY DEF Meets
<1>3. ASSUME NEW q \in Procs \ {p} PROVE Sees(job[q], sw, m[q], s)
  <2>1. m[q] = [job[q] EXCEPT !.met = @ \cup new]  BY <1>1 DEF Meets
  <2>2. DOMAIN job[q] = JobFields /\ job[q].met \subseteq Fields
    BY DEF Inv, Unstarted, Fine, JobSane, JobFields
  <2>3. m[q].met = job[q].met \cup new /\ DOMAIN m[q] = JobFields
        /\ \A f \in JobFields \ {"met"} : m[q][f] = job[q][f]
    BY <2>1, <2>2, IdleDomain
  <2> HIDE DEF m
  <2>4. \A f \in Fields \ {"work"} : s[f] = sw[f] \/ f \in m[q].met  BY <2>3
  <2> QED  BY <2>2, <2>3, <2>4 DEF Sees
<1> QED  BY <1>2, <1>3

LEMMA UnmetSees ==
  ASSUME Inv, NEW q \in Procs
  PROVE  Sees(job[q], sw, job[q], sw)
BY DEF Sees, Inv, Unstarted, Fine, JobSane

LEMMA DoneKeeps == ASSUME Inv, NEW p \in Procs, Done(p) PROVE Inv'
<1> DEFINE j == job[p]
           c == job[p].todo.now.c
           e == Effect(c, j, sw)
           k == Somebody + calls
<1>1. At(p, "cmd") /\ UNCHANGED <<menu, calls, faults>> /\ sw' = e  BY DEF Done
<1>2. PICK n \in Lefts(j, c, e) : job' = [Meets(p, e) EXCEPT ![p] = Goes(Told2(@, c, n, e))]
  BY DEF Done, Lefts, Told2
<1>3. Fine(j, sw, k) /\ \E X : Closed(X, {}) /\ Ready(X, j, sw)  BY <1>1, AtCommand DEF Takes
<1>4. PICK X : Closed(X, {}) /\ Ready(X, j, sw)  BY <1>3
<1>5. j.todo.now.k = "cmd" /\ j.ret = "none"  BY <1>1 DEF At, Running
<1>6. May(c, j, sw) /\ Proceeds(X, Told2(j, c, n, e), e)  BY <1>4, <1>5 DEF Ready
<1>7. k \in Nat /\ j.id \in 0..k
  <2>1. Menus[menu].calls \in Nat  BY MenusAssumption DEF Inv
  <2> QED  BY <1>3, <2>1 DEF Inv, Somebody, Fine
<1>8. SwitchInv(sw, k) /\ JobSane(j)  BY <1>3 DEF Inv, Fine
<1> HIDE DEF k
<1>9. SwitchInv(e, k) /\ e.gen = sw.gen /\ \A f \in Dumps : e[f] \in {sw[f], 0, j.id}
  BY <1>6, <1>7, <1>8, EffectInv
<1> DEFINE t == Told2(j, c, n, e)
           i == [t EXCEPT !.todo = @.then, !.res = "ok"]
<1>10. JobSane(t) /\ ToldFields(t, c, n, j, e)
  <2>1. c \in Uses => j.left # 0  BY <1>6 DEF May
  <2>2. SwitchSane(e)  BY <1>9 DEF SwitchInv
  <2> HIDE DEF c, e
  <2>3. JobSane(Told2(j, c, n, e))  BY <1>8, <2>1, <2>2, SaneTold
  <2> QED  BY <1>8, <2>3, ToldIs DEF JobSane
<1>11. Holding(X, i, e)  BY <1>6 DEF Proceeds
<1>12. job' = [Meets(p, e) EXCEPT ![p] = Settle(i)]
  <2>1. Meets(p, e)[p] = j  BY <1>9, MeetsIs DEF SwitchInv, SwitchSane
  <2> QED  BY <1>2, <2>1 DEF Goes
<1> HIDE DEF t, e, c
<1>13. JobSane(i)  BY <1>10, SaneGoes
<1>14. i.id = j.id /\ i.cmd = j.cmd /\ i.seen \subseteq 0..k /\ i.ret = "none"
  <2>1. DOMAIN t = JobFields  BY <1>10 DEF JobSane, JobFields
  <2>2. i.id = t.id /\ i.cmd = t.cmd /\ i.seen = t.seen /\ i.ret = t.ret  BY <2>1, IdleDomain
  <2>3. t.seen \subseteq j.seen \cup {e.bw, e.lat}  BY <1>10 DEF ToldFields
  <2>4. e.bw \in 0..k /\ e.lat \in 0..k  BY <1>9 DEF SwitchInv, Forgotten
  <2>5. j.seen \subseteq 0..k  BY <1>3 DEF Fine, k
  <2>6. t.id = j.id /\ t.cmd = j.cmd /\ t.ret = j.ret  BY <1>10 DEF ToldFields
  <2> QED  BY <1>5, <2>2, <2>3, <2>4, <2>5, <2>6
<1> HIDE DEF i
<1>15. DOMAIN job' = Procs /\ job'[p] = Settle(i)
       /\ \A q \in Procs \ {p} : Sees(job[q], sw, job'[q], e)
  BY <1>9, <1>12, MeetsIs DEF SwitchInv, SwitchSane
<1>16. faults' \in 0..MaxFaults /\ menu' = menu /\ calls' = calls  BY <1>1 DEF Inv
<1> QED
  BY <1>1, <1>3, <1>4, <1>9, <1>11, <1>13, <1>14, <1>15, <1>16, OwnStep DEF k

LEMMA FailedKeeps == ASSUME Inv, NEW p \in Procs, Failed(p) PROVE Inv'
<1> DEFINE j == job[p]
           c == job[p].todo.now.c
           e == Effect(c, j, sw)
           k == Somebody + calls
<1>1. At(p, "cmd") /\ UNCHANGED <<menu, calls>>  BY DEF Failed
<1>2. Fine(j, sw, k) /\ \E X : Closed(X, {}) /\ Ready(X, j, sw)  BY <1>1, AtCommand DEF Takes
<1>3. PICK X : Closed(X, {}) /\ Ready(X, j, sw)  BY <1>2
<1>4. j.todo.now.k = "cmd" /\ j.ret = "none"  BY <1>1 DEF At, Running
<1>5. /\ May(c, j, sw)
      /\ c = "BOOT_RO_GET" => Proceeds(X, [j EXCEPT !.bootro = "rw"], sw)
      /\ Gives(X, Fail(j, c), "mrpc", sw)
      /\ \A x \in {sw, e} : Gives(X, Fail(j, c), "sys", x)
  BY <1>3, <1>4 DEF Ready
<1>6. k \in Nat /\ j.id \in 0..k /\ calls \in 0..Menus[menu].calls
  <2>1. Menus[menu].calls \in Nat  BY MenusAssumption DEF Inv
  <2> QED  BY <1>2, <2>1 DEF Inv, Somebody, Fine
<1>7. SwitchInv(sw, k) /\ JobSane(j) /\ DOMAIN j = JobFields  BY <1>2 DEF Inv, Fine, JobSane, JobFields
<1> HIDE DEF k
<1>8. SwitchInv(e, k) /\ e.gen = sw.gen /\ \A f \in Dumps : e[f] \in {sw[f], 0, j.id}
  BY <1>5, <1>6, <1>7, EffectInv
<1>9. faults' \in 0..MaxFaults /\ menu' = menu /\ calls' = calls
  <2>1. faults' = faults \/ (faults < MaxFaults /\ faults' = faults + 1)  BY DEF Failed
  <2> QED  BY <1>1, <2>1, BoundsAssumption DEF Inv
<1> HIDE DEF e, c
<1>10. ASSUME NEW s \in {sw, e}, NEW r \in {"mrpc", "sys"}, Gives(X, Fail(j, c), r, s), sw' = s,
              job' = [Meets(p, s) EXCEPT ![p] = Settle(Return(Fail(j, c), r))]
       PROVE  Inv'
  <2> DEFINE i == Return(Fail(j, c), r)
  <2>1. Holding(X, i, s)  BY <1>10 DEF Gives
  <2>2. JobSane(Fail(j, c))  BY <1>7, SaneFail
  <2>3. JobSane(i)  BY <2>2, SaneReturn
  <2>4. /\ DOMAIN Fail(j, c) = JobFields /\ Fail(j, c).ret = "none" /\ Fail(j, c).id = j.id
        /\ Fail(j, c).cmd = j.cmd /\ Fail(j, c).seen = j.seen
    BY <1>4, <1>7, IdleDomain DEF Fail
  <2>5. i.id = j.id /\ i.cmd = j.cmd /\ i.seen = j.seen /\ i.ret \in {"none", "ok", "err"}
    BY <2>4, ReturnIs, IdleDomain DEF JobFields
  <2>6. SwitchInv(s, k) /\ s.gen = sw.gen /\ \A f \in Dumps : s[f] \in {sw[f], 0, j.id}
    BY <1>7, <1>8
  <2>7. i.seen \subseteq 0..k  BY <1>2, <2>5 DEF Fine, k
  <2> HIDE DEF i
  <2>8. DOMAIN job' = Procs /\ job'[p] = Settle(i)
         /\ \A q \in Procs \ {p} : Sees(job[q], sw, job'[q], s)
    BY <1>10, <2>6, MeetsIs DEF SwitchInv, SwitchSane, i
  <2> QED
    BY <1>2, <1>3, <1>9, <1>10, <2>1, <2>3, <2>5, <2>6, <2>7, <2>8, OwnStep DEF k
<1>11. ASSUME c = "BOOT_RO_GET", sw' = sw, job' = [job EXCEPT ![p] = Goes([j EXCEPT !.bootro = "rw"])]
       PROVE  Inv'
  <2> DEFINE t == [j EXCEPT !.bootro = "rw"]
             i == [t EXCEPT !.todo = @.then, !.res = "ok"]
  <2>1. Holding(X, i, sw)  BY <1>5, <1>11 DEF Proceeds
  <2>2. JobSane(t)  BY <1>7, SaneFail
  <2>3. t.ret = j.ret /\ t.id = j.id /\ t.cmd = j.cmd /\ t.seen = j.seen /\ DOMAIN t = JobFields
    BY <1>7, IdleDomain
  <2> HIDE DEF t
  <2>4. JobSane(i)  BY <2>2, SaneGoes
  <2>5. i.id = j.id /\ i.cmd = j.cmd /\ i.seen = j.seen /\ i.ret = "none"
    BY <1>4, <2>3, IdleDomain
  <2>6. i.seen \subseteq 0..k  BY <1>2, <2>5 DEF Fine, k
  <2>7. DOMAIN job' = Procs /\ job'[p] = Settle(i)
    BY <1>11 DEF Goes, Inv, t
  <2>8. \A q \in Procs \ {p} : Sees(job[q], sw, job'[q], sw)  BY <1>11, UnmetSees DEF Inv
  <2>9. \A f \in Dumps : sw[f] \in {sw[f], 0, j.id}  OBVIOUS
  <2> HIDE DEF i
  <2> QED
    BY <1>2, <1>3, <1>7, <1>9, <1>11, <2>1, <2>4, <2>5, <2>6, <2>7, <2>8, <2>9, OwnStep DEF k
<1>12. \/ c = "BOOT_RO_GET" /\ sw' = sw /\ job' = [job EXCEPT ![p] = Goes([j EXCEPT !.bootro = "rw"])]
       \/ \E s \in {sw, e}, r \in {"mrpc", "sys"} :
            /\ sw' = s /\ job' = [Meets(p, s) EXCEPT ![p] = Settle(Return(Fail(j, c), r))]
            /\ Gives(X, Fail(j, c), r, s)
  <2>1. \A s \in {sw, e} : Meets(p, s)[p] = j
    BY <1>7, <1>8, MeetsIs DEF SwitchInv, SwitchSane
  <2>2. ASSUME NEW s \in {sw, e}, NEW r
        PROVE  [Meets(p, s) EXCEPT ![p] = Settle(Return(Fail(@, c), r))]
               = [Meets(p, s) EXCEPT ![p] = Settle(Return(Fail(j, c), r))]
    BY <2>1
  <2>3. [job EXCEPT ![p] = Goes([@ EXCEPT !.bootro = "rw"])]
        = [job EXCEPT ![p] = Goes([j EXCEPT !.bootro = "rw"])]
    OBVIOUS
  <2>4. \/ c = "BOOT_RO_GET" /\ sw' = sw /\ job' = [job EXCEPT ![p] = Goes([@ EXCEPT !.bootro = "rw"])]
        \/ sw' = sw /\ job' = [Meets(p, sw) EXCEPT ![p] = Settle(Return(Fail(@, c), "mrpc"))]
        \/ \E s \in {sw, e} :
             sw' = s /\ job' = [Meets(p, s) EXCEPT ![p] = Settle(Return(Fail(@, c), "sys"))]
    BY DEF Failed, c, e
  <2> QED  BY <1>5, <2>2, <2>3, <2>4
<1> QED  BY <1>10, <1>11, <1>12

LEMMA PostedKeeps == ASSUME Inv, NEW p \in Procs, Posted(p) PROVE Inv'
<1> DEFINE j == job[p]
           c == job[p].todo.now.c
           e == Effect(c, j, sw)
           k == Somebody + calls
<1>1. At(p, "post") /\ UNCHANGED <<menu, calls, faults>>  BY DEF Posted
<1>2. PICK s \in {sw, e} : sw' = s /\ job' = [Meets(p, s) EXCEPT ![p] = Goes(@)]  BY DEF Posted
<1>3. Fine(j, sw, k) /\ \E X : Closed(X, {}) /\ Ready(X, j, sw)  BY <1>1, AtCommand DEF Takes
<1>4. PICK X : Closed(X, {}) /\ Ready(X, j, sw)  BY <1>3
<1>5. j.todo.now.k = "post" /\ j.ret = "none"  BY <1>1 DEF At, Running
<1>6. May(c, j, sw) /\ Proceeds(X, j, s)  BY <1>4, <1>5, <1>2 DEF Ready
<1>7. k \in Nat /\ j.id \in 0..k
  <2>1. Menus[menu].calls \in Nat  BY MenusAssumption DEF Inv
  <2> QED  BY <1>3, <2>1 DEF Inv, Somebody, Fine
<1>8. SwitchInv(sw, k) /\ JobSane(j) /\ DOMAIN j = JobFields  BY <1>3 DEF Inv, Fine, JobSane, JobFields
<1> HIDE DEF k
<1>9. SwitchInv(s, k) /\ s.gen = sw.gen /\ \A f \in Dumps : s[f] \in {sw[f], 0, j.id}
  <2>1. SwitchInv(e, k) /\ e.gen = sw.gen /\ \A f \in Dumps : e[f] \in {sw[f], 0, j.id}
    BY <1>6, <1>7, <1>8, EffectInv
  <2> QED  BY <1>8, <2>1, <1>2
<1> DEFINE i == [j EXCEPT !.todo = @.then, !.res = "ok"]
<1>10. Holding(X, i, s)  BY <1>6 DEF Proceeds
<1>11. JobSane(i)  BY <1>8, SaneGoes
<1>12. i.id = j.id /\ i.cmd = j.cmd /\ i.seen = j.seen /\ i.ret = "none"  BY <1>5, <1>8, IdleDomain
<1>13. i.seen \subseteq 0..k  BY <1>3, <1>12 DEF Fine, k
<1>14. DOMAIN job' = Procs /\ job'[p] = Settle(i)
       /\ \A q \in Procs \ {p} : Sees(job[q], sw, job'[q], s)
  BY <1>2, <1>9, MeetsIs DEF SwitchInv, SwitchSane, Goes
<1>15. faults' \in 0..MaxFaults /\ menu' = menu /\ calls' = calls  BY <1>1 DEF Inv
<1> HIDE DEF i, c, e
<1> QED
  BY <1>2, <1>3, <1>4, <1>9, <1>10, <1>11, <1>12, <1>13, <1>14, <1>15, OwnStep DEF k

LEMMA AskedKeeps == ASSUME Inv, NEW p \in Procs, Agrees(p) \/ Refused(p) PROVE Inv'
<1> DEFINE j == job[p]
           k == Somebody + calls
<1>1. PICK q \in {"input", "confirm"} : At(p, q)  BY DEF Agrees, Refused
<1>2. UNCHANGED <<menu, sw, calls, faults>>  BY DEF Agrees, Refused
<1>3. Fine(j, sw, k) /\ \E X : Closed(X, {}) /\ Ready(X, j, sw)  BY <1>1, AtCommand DEF Takes
<1>4. PICK X : Closed(X, {}) /\ Ready(X, j, sw)  BY <1>3
<1>5. j.todo.now.k = q /\ j.ret = "none" /\ j.todo.k = "then"  BY <1>1 DEF At, Running
<1>6. Proceeds(X, Agree(j), sw) /\ Gives(X, j, "err", sw)  BY <1>4, <1>5 DEF Ready
<1>7. SwitchInv(sw, k) /\ JobSane(j) /\ DOMAIN j = JobFields  BY <1>3 DEF Inv, Fine, JobSane, JobFields
<1>8. faults' \in 0..MaxFaults /\ menu' = menu /\ calls' = calls  BY <1>2 DEF Inv
<1>9. \A f \in Dumps : sw[f] \in {sw[f], 0, j.id}  OBVIOUS
<1>10. ASSUME NEW i, Holding(X, i, sw), JobSane(i), i.id = j.id, i.cmd = j.cmd, i.seen = j.seen,
              i.ret \in {"none", "ok", "err"}, job' = [job EXCEPT ![p] = Settle(i)]
       PROVE  Inv'
  <2>1. DOMAIN job' = Procs /\ job'[p] = Settle(i)  BY <1>10 DEF Inv
  <2>2. \A r \in Procs \ {p} : Sees(job[r], sw, job'[r], sw)  BY <1>10, UnmetSees DEF Inv
  <2>3. i.seen \subseteq 0..k  BY <1>3, <1>10 DEF Fine
  <2> QED
    BY <1>2, <1>3, <1>4, <1>7, <1>8, <1>9, <1>10, <2>1, <2>2, <2>3, OwnStep
<1>11. CASE Agrees(p)
  <2> DEFINE t == Agree(j)
             i == [t EXCEPT !.todo = @.then, !.res = "ok"]
  <2>1. Holding(X, i, sw)  BY <1>6 DEF Proceeds
  <2>2. JobSane(t)  BY <1>7, SaneFail
  <2>3. t.id = j.id /\ t.cmd = j.cmd /\ t.seen = j.seen /\ t.ret = j.ret /\ DOMAIN t = JobFields
    BY <1>7, IdleDomain DEF Agree
  <2>4. job' = [job EXCEPT ![p] = Goes(t)]
    BY <1>11 DEF Agrees
  <2> HIDE DEF t
  <2>5. JobSane(i)  BY <2>2, SaneGoes
  <2>6. i.id = j.id /\ i.cmd = j.cmd /\ i.seen = j.seen /\ i.ret = "none"
    BY <1>5, <2>3, IdleDomain
  <2>7. job' = [job EXCEPT ![p] = Settle(i)]  BY <2>4 DEF Goes
  <2> HIDE DEF i
  <2> QED  BY <1>10, <2>1, <2>5, <2>6, <2>7
<1>12. CASE Refused(p)
  <2> DEFINE i == Return(j, "err")
  <2>1. Holding(X, i, sw)  BY <1>6 DEF Gives
  <2>2. JobSane(i)  BY <1>7, SaneReturn
  <2>3. i.id = j.id /\ i.cmd = j.cmd /\ i.seen = j.seen /\ i.ret \in {"none", "ok", "err"}
    BY <1>5, <1>7, ReturnIs, IdleDomain, SMTT(30) DEF JobFields
  <2>4. job' = [job EXCEPT ![p] = Settle(i)]  BY <1>12 DEF Refused
  <2> HIDE DEF i
  <2> QED  BY <1>10, <2>1, <2>2, <2>3, <2>4
<1> QED  BY <1>11, <1>12

\* A call that is killed has nothing to answer for.
LEMMA KillKeeps == ASSUME Inv, NEW p \in Procs, Kill(p) PROVE Inv'
<1> DEFINE j == job[p]
           i == [j EXCEPT !.todo = Skip, !.callers = None, !.ret = "killed"]
           k == Somebody + calls
<1>1. Fine(j, sw, k)  BY UnstartedIs DEF Inv, Kill, Running
<1>2. JobSane(j) /\ DOMAIN j = JobFields  BY <1>1 DEF Fine, JobSane, JobFields
<1>3. i.ret = "killed" /\ \A f \in JobFields \ {"todo", "callers", "ret"} : i[f] = j[f]
  BY <1>2, IdleDomain
<1>4. JobSane(i)
  <2>1. DOMAIN i = DOMAIN Idle  BY <1>2 DEF JobFields
  <2> HIDE DEF i
  <2>2. \A f \in {"id", "left", "got", "sure", "versions", "kmsk", "ses", "met"} : i[f] = j[f]
    BY <1>3, IdleDomain
  <2>3. i.res = j.res /\ j.res \in {"ok", "mrpc", "sys", "err"}  BY <1>2, <1>3, IdleDomain DEF JobSane
  <2> QED  BY <1>2, <2>1, <2>2, <2>3, SaneSame
<1>5. job' = [job EXCEPT ![p] = i]  BY DEF Kill
<1> HIDE DEF i
<1>6. i.id = j.id /\ i.cmd = j.cmd /\ i.seen = j.seen  BY <1>3, IdleDomain
<1>7. Fin(i, sw)  BY <1>3 DEF Fin
<1>8. Fine(i, sw, k)
  <2>1. Closed({}, {}) /\ Holding({}, i, sw)  BY <1>3, <1>7 DEF Closed, Holding
  <2> QED  BY <1>1, <1>3, <1>4, <1>6, <2>1 DEF Fine
<1>9. menu' = menu /\ calls' = calls /\ sw' = sw /\ faults' \in 0..MaxFaults
  BY BoundsAssumption DEF Kill, Inv
<1>10. calls' \in 0..Menus[menu].calls /\ calls' >= calls
  <2>1. Menus[menu].calls \in Nat  BY MenusAssumption DEF Inv
  <2> QED  BY <1>9, <2>1 DEF Inv
<1>11. DOMAIN job' = Procs /\ job'[p] = i /\ \A q \in Procs \ {p} : job'[q] = job[q]
  BY <1>5 DEF Inv
<1>12. \A q \in Procs \ {p} : Sees(job[q], sw, job'[q], sw')  BY <1>9, <1>11, UnmetSees
<1>13. \A q \in {p} : Unstarted(job'[q]) \/ Fine(job'[q], sw', Somebody + calls')
  BY <1>8, <1>9, <1>11
<1>14. \A q, r \in Procs : job'[q].id = job'[r].id => q = r \/ job'[q].id = 0
  <2>1. \A q \in Procs : job'[q].id = job[q].id  BY <1>6, <1>11
  <2> QED  BY <2>1 DEF Inv, Apart
<1>15. SwitchInv(sw', Somebody + calls') /\ {p} \in SUBSET Procs /\ sw'.gen = sw.gen
       /\ \A f \in Dumps : sw'[f] \in {sw[f], 0}
  BY <1>9 DEF Inv
<1> QED  BY <1>9, <1>10, <1>11, <1>12, <1>13, <1>14, <1>15, OneStep

LEMMA CollectedKeeps == ASSUME Inv, Collected PROVE Inv'
<1>1. PICK w \in Works, r \in {"ready", "failed"} : sw' = [sw EXCEPT !.work[w] = r]  BY DEF Collected
<1>2. menu' = menu /\ calls' = calls /\ job' = job /\ faults' = faults  BY DEF Collected
<1>3. DOMAIN sw = Fields /\ sw.work \in [Works -> {"wait", "ready", "failed"}]
  BY DEF Inv, SwitchInv, SwitchSane
<1>4. sw'.work \in [Works -> {"wait", "ready", "failed"}] /\ DOMAIN sw' = Fields
      /\ \A f \in Fields \ {"work"} : sw'[f] = sw[f]
  BY <1>1, <1>3 DEF Fields
<1>5. SwitchInv(sw', Somebody + calls')
  <2>1. /\ sw'.gen = sw.gen /\ sw'.queue = sw.queue /\ sw'.loop = sw.loop
        /\ \A f \in Forgotten : sw'[f] = sw[f]
    BY <1>4 DEF Fields, Forgotten, Sessions
  <2>2. sw'.kmsk = sw.kmsk  BY <1>4 DEF Fields
  <2>3. sw'.kmsk \in BOOLEAN  BY <2>2 DEF Inv, SwitchInv, SwitchSane
  <2> QED  BY <1>2, <1>4, <2>1, <2>3 DEF Inv, SwitchInv, SwitchSane
<1>6. calls' \in 0..Menus[menu].calls /\ calls' >= calls
  <2>1. Menus[menu].calls \in Nat  BY MenusAssumption DEF Inv
  <2> QED  BY <1>2, <2>1 DEF Inv
<1>7. \A q \in Procs : Sees(job[q], sw, job'[q], sw')
  BY <1>2, <1>4 DEF Sees, Inv, Unstarted, Fine, JobSane
<1>8. {} \in SUBSET Procs /\ sw'.gen = sw.gen /\ \A f \in Dumps : sw'[f] \in {sw[f], 0}
  BY <1>4 DEF Fields, Dumps, Sessions
<1>9. \A q, o \in Procs : job'[q].id = job'[o].id => q = o \/ job'[q].id = 0
  BY <1>2 DEF Inv, Apart
<1>10. DOMAIN job' = Procs /\ faults' \in 0..MaxFaults  BY <1>2 DEF Inv
<1> QED  BY <1>2, <1>5, <1>6, <1>7, <1>8, <1>9, <1>10, OneStep

\* What is known at the start of a call.
LEMMA StartHas ==
  ASSUME NEW j, NEW s, JobSane(j), SwitchSane(s), j.cmd # "none",
         j.ses = "none", j.got = 0, j.versions = FALSE, j.sec = "none", j.seen = {},
         j.failed = {}, j.act0 = s.act, j.saved = "none", \A f \in Dumps : s[f] # j.id
  PROVE  Has(AtFirst(j.cmd), j, s)
<1> DEFINE K == AtFirst(j.cmd)
<1>1. \A x \in K : x \in {"no session", "none got", "twice", "told sec", "told kmsk", "unseen",
                          "no write", "act kept", "unsaved", "plain"} \cup Dumps \cup Reporting
  BY DEF AtFirst
<1>2. \A n \in Reporting : n \in K => j.cmd = n
  BY DEF AtFirst, Reporting, Dumps
<1>3. "plain" \in K => j.cmd \notin Reporting
  BY DEF AtFirst, Dumps, Reporting
<1> HIDE DEF K
<1>4. HasAuth(K, j, s)
  <2>1. K \cap {"pub", "sig", "auth", "dok", "sure", "fresh", "some sec", "no kmsk", "saved"} = {}
    BY <1>1 DEF Dumps, Reporting
  <2> QED  BY <2>1 DEF HasAuth
<1>5. HasMeasure(K, j, s)
  <2>1. K \cap {"told counter", "free", "lat set", "lat seen", "bw set", "bw res", "bw seen"} = {}
    BY <1>1 DEF Dumps, Reporting
  <2> QED  BY <2>1 DEF HasMeasure
<1>6. HasFw(K, j, s)
  <2>1. K \cap {"restored", "restored if written", "told gen", "told phase", "open res", "bl2",
                "moved", "unmoved", "toggle res", "reported"} = {}
    BY <1>1 DEF Dumps, Reporting
  <2> QED  BY <2>1 DEF HasFw
<1>7. HasLoop(K, j, s)
  <2>1. K \cap {"keeps on", "disable alone", "gen5", "not gen5", "off on gen5", "off"} = {}
    BY <1>1 DEF Dumps, Reporting
  <2>2. \A m \in Modes : m.on \notin K
    <3> SUFFICES ASSUME NEW m \in Modes PROVE m.on \notin K  OBVIOUS
    <3>1. m.on \in {"PARALLEL_ON", "EXTERNAL_ON", "PIPE_ON", "LTSSM_ON", "RX_TO_TX_ON", "TX_TO_RX_ON"}
      BY DEF Modes, Parallel, External, Pipe, Ltssm, RxToTx, TxToRx
    <3> QED  BY <1>1, <3>1 DEF Dumps, Reporting
  <2> QED  BY <2>1, <2>2 DEF HasLoop
<1>8. HasSes(K, j, s)
  <2>1. K \cap {"dumped", "over", "more", "fetched", "scanned"} = {}
    BY <1>1 DEF Dumps, Reporting
  <2>2. \A f \in Sessions : Opened[f] \notin K /\ Counted[f] \notin K
    BY <1>1, Sessions7 DEF Dumps, Reporting
  <2> QED  BY <2>1, <2>2 DEF HasSes
<1> QED  BY <1>2, <1>3, <1>4, <1>5, <1>6, <1>7, <1>8 DEF Has, K

LEMMA CommandsDomain ==
  /\ \A c \in DOMAIN Commands : \E m \in Files : c \in DOMAIN m /\ Commands[c] = m[c]
  /\ "none" \notin DOMAIN Commands
<1>1. \A m \in Files : "none" \notin DOMAIN m
  BY DEF Files, DevMenu, MfgMenu, FwMenu, FabricMenu, DiagMenu, PmonMenu
<1>2. \A c \in DOMAIN Commands : \E m \in Files : c \in DOMAIN m /\ Commands[c] = m[c]
  BY DEF Commands
<1> QED  BY <1>1, <1>2

\* The script of every command is sound.
AllRun == \A c \in DOMAIN Commands : CallRuns(c, Commands[c].script)

LEMMA StartKeeps == ASSUME Inv, AllRun, NEW p \in Procs, Start(p) PROVE Inv'
<1> DEFINE n == Somebody + calls'
<1>1. calls \in Nat /\ calls' = calls + 1 /\ calls' \in 0..Menus[menu].calls /\ n = calls + 2
  <2>1. Menus[menu].calls \in Nat  BY MenusAssumption DEF Inv
  <2> QED  BY <2>1 DEF Inv, Start, Somebody
<1>2. PICK call \in Menus[menu].run :
        job' = [job EXCEPT ![p] =
                  Settle([Idle EXCEPT !.cmd = call[1], !.opt = call[2], !.id = Somebody + calls',
                            !.todo = switchtec_open ++ Commands[call[1]].script ++ Skip,
                            !.ret = "none", !.act0 = sw.act])]
  BY DEF Start
<1> DEFINE c == call[1]
           t == (switchtec_open ++ Commands[c].script) ++ Skip
           j == [Idle EXCEPT !.cmd = c, !.opt = call[2], !.id = n, !.todo = t, !.ret = "none",
                             !.act0 = sw.act]
           g == Settle(j)
<1>3. c \in DOMAIN Commands /\ c # "none"  BY MenusAssumption, CommandsDomain DEF Inv
<1>4. PICK X : <<AtFirst(c), t, None>> \in X /\ Closed(X, {})
  BY <1>3 DEF AllRun, CallRuns, Runs
<1> HIDE DEF t
<1>5. /\ j.cmd = c /\ j.id = n /\ j.todo = t /\ j.ret = "none" /\ j.act0 = sw.act
      /\ j.ses = "none" /\ j.got = 0 /\ j.sec = "none" /\ j.seen = {} /\ j.failed = {}
      /\ j.saved = "none" /\ j.callers = None /\ j.res = "ok" /\ j.left = 0 /\ j.sure = 0
      /\ j.met = {} /\ DOMAIN j = DOMAIN Idle
  BY DEF Idle
<1>6. j.versions = FALSE /\ j.kmsk = FALSE  BY DEF Idle
<1>7. job' = [job EXCEPT ![p] = g]  BY <1>2 DEF t
<1> HIDE DEF j
<1>8. JobSane(j)
  <2>1. n \in Nat /\ n > Somebody /\ 0 \in 0..Chunks  BY <1>1, BoundsAssumption DEF Somebody
  <2>2. j.versions \in BOOLEAN /\ j.kmsk \in BOOLEAN  BY <1>6
  <2> HIDE DEF n
  <2> QED  BY <1>5, <2>1, <2>2 DEF JobSane
<1>9. SwitchInv(sw, Somebody + calls) /\ SwitchSane(sw)  BY DEF Inv, SwitchInv
<1>10. \A f \in Dumps : sw[f] # j.id
  <2>1. \A f \in Dumps : sw[f] \in 0..(Somebody + calls)
    BY <1>9 DEF SwitchInv, Dumps, Forgotten, Sessions
  <2> QED  BY <1>1, <1>5, <2>1 DEF Somebody
<1>11. Has(AtFirst(c), j, sw)
  <2>1. j.cmd # "none" /\ j.versions = FALSE  BY <1>3, <1>5, <1>6
  <2> QED  BY <1>5, <1>8, <1>9, <1>10, <2>1, StartHas
<1>12. Holding(X, j, sw)  BY <1>4, <1>5, <1>11 DEF Holding
<1>13. Reached(X, j, sw, g)  BY <1>4, <1>8, <1>9, <1>12, SettleHolds
<1>14. g.id = n /\ g.cmd = c /\ g.seen = {} /\ g.ret \in {"none", "ok", "err"}
  BY <1>5, <1>13, IdleDomain DEF Reached, Follows
<1> HIDE DEF g
<1>15. Fine(g, sw, n)
  <2>1. g.id \in 0..n /\ g.seen \subseteq 0..n  BY <1>1, <1>14
  <2> QED  BY <1>3, <1>4, <1>13, <1>14, <2>1 DEF Fine, Reached
<1>16. DOMAIN job' = Procs /\ job'[p] = g /\ \A q \in Procs \ {p} : job'[q] = job[q]
  BY <1>7 DEF Inv
<1>17. sw' = sw /\ menu' = menu /\ faults' = faults  BY DEF Start
<1>18. \A q \in Procs \ {p} : Sees(job[q], sw, job'[q], sw')  BY <1>16, <1>17, UnmetSees
<1>19. \A q \in Procs : q # p => job'[q].id # n
  <2> SUFFICES ASSUME NEW q \in Procs, q # p PROVE job[q].id # n  BY <1>16
  <2>1. CASE Unstarted(job[q])
    <3>1. job[q].id = 0  BY <2>1, UnstartedIs
    <3> QED  BY <1>1, <3>1
  <2>2. CASE Fine(job[q], sw, Somebody + calls)
    <3>1. job[q].id \in 0..(Somebody + calls)  BY <2>2 DEF Fine
    <3> QED  BY <1>1, <3>1 DEF Somebody
  <2> QED  BY <2>1, <2>2 DEF Inv
<1>20. \A q, r \in Procs : job'[q].id = job'[r].id => q = r \/ job'[q].id = 0
  <2> SUFFICES ASSUME NEW q \in Procs, NEW r \in Procs, job'[q].id = job'[r].id, q # r
               PROVE  job'[q].id = 0
    OBVIOUS
  <2>1. q # p /\ r # p  BY <1>14, <1>16, <1>19
  <2>2. job[q].id = job[r].id  BY <1>16, <2>1
  <2> QED  BY <1>16, <2>1, <2>2 DEF Inv, Apart
<1>21. SwitchInv(sw', n)
  <2>1. \A x \in 0..(Somebody + calls) : x \in 0..n  BY <1>1 DEF Somebody
  <2> QED  BY <1>9, <1>17, <2>1 DEF SwitchInv
<1>22. \A q \in {p} : Unstarted(job'[q]) \/ Fine(job'[q], sw', Somebody + calls')
  BY <1>15, <1>16, <1>17
<1>23. /\ {p} \in SUBSET Procs /\ sw'.gen = sw.gen /\ calls' >= calls /\ faults' \in 0..MaxFaults
       /\ \A f \in Dumps : sw'[f] \in {sw[f], 0}
  BY <1>1, <1>17 DEF Inv
<1> QED  BY <1>1, <1>16, <1>17, <1>18, <1>20, <1>21, <1>22, <1>23, OneStep

LEMMA InitInv == ASSUME Init PROVE Inv
<1>1. PICK m \in {Menus[menu]} :
        \E g \in m.gen, ph \in m.phase, se \in m.sec, k \in m.kmsk, b \in m.bootro, n \in m.counter :
          /\ g = 3 => ph = "FW"
          /\ g = 6 <=> se \in {"SECURE_CAPABLE", "SECURED"}
          /\ sw = [gen |-> g, phase |-> ph, sec |-> se, kmsk |-> k, pub |-> Somebody,
                   sig |-> Somebody, bootro |-> b, act |-> {}, work |-> [w \in Works |-> "ready"],
                   queue |-> Chunks, counter |-> n, bw |-> Somebody, lat |-> Somebody, loop |-> {},
                   topo |-> 0, gfms |-> 0, img |-> 0, nvme |-> 0, log |-> 0, cross |-> 0, eye |-> 0]
  BY DEF Init
<1>2. PICK g \in m.gen, ph \in m.phase, se \in m.sec, k \in m.kmsk, b \in m.bootro, n \in m.counter :
          /\ g = 3 => ph = "FW"
          /\ g = 6 <=> se \in {"SECURE_CAPABLE", "SECURED"}
          /\ sw = [gen |-> g, phase |-> ph, sec |-> se, kmsk |-> k, pub |-> Somebody,
                   sig |-> Somebody, bootro |-> b, act |-> {}, work |-> [w \in Works |-> "ready"],
                   queue |-> Chunks, counter |-> n, bw |-> Somebody, lat |-> Somebody, loop |-> {},
                   topo |-> 0, gfms |-> 0, img |-> 0, nvme |-> 0, log |-> 0, cross |-> 0, eye |-> 0]
  BY <1>1
<1>3. menu \in DOMAIN Menus /\ job = [p \in Procs |-> Idle] /\ calls = 0 /\ faults = 0  BY DEF Init
<1>4. g \in 3..6 /\ n \in {0, Somebody} /\ Menus[menu].calls \in Nat
  BY <1>1, <1>3, MenusAssumption
<1>5. k \in BOOLEAN  BY <1>1, <1>3, MenusAssumption
<1>6. SwitchInv(sw, Somebody + calls)
  <2>1. sw.gen \in 3..6 /\ sw.queue = Chunks /\ sw.loop = {} /\ sw.work = [w \in Works |-> "ready"]
    BY <1>2, <1>4
  <2>2. sw.kmsk \in BOOLEAN  BY <1>2, <1>5
  <2>3. DOMAIN sw = Fields  BY <1>2 DEF Fields, Sessions
  <2>4. \A f \in Forgotten : sw[f] \in 0..(Somebody + calls)
    BY <1>2, <1>3, <1>4 DEF Forgotten, Sessions, Somebody
  <2> QED  BY <2>1, <2>2, <2>3, <2>4, BoundsAssumption DEF SwitchInv, SwitchSane
<1>7. \A p \in Procs : Unstarted(job[p])
  <2>1. Unstarted(Idle)  BY DEF Unstarted, Idle, JobFields
  <2> QED  BY <1>3, <2>1
<1>8. Apart  BY <1>7, UnstartedIs DEF Apart
<1>9. calls \in 0..Menus[menu].calls /\ faults \in 0..MaxFaults /\ DOMAIN job = Procs
  BY <1>3, <1>4, BoundsAssumption
<1> QED  BY <1>3, <1>6, <1>7, <1>8, <1>9 DEF Inv

LEMMA InvKept == ASSUME AllRun, Inv, [Next]_vars PROVE Inv'
<1>1. ASSUME NEW p \in Procs, Start(p) PROVE Inv'  BY <1>1, StartKeeps
<1>2. ASSUME NEW p \in Procs, Done(p) PROVE Inv'  BY <1>2, DoneKeeps
<1>3. ASSUME NEW p \in Procs, Failed(p) PROVE Inv'  BY <1>3, FailedKeeps
<1>4. ASSUME NEW p \in Procs, Posted(p) PROVE Inv'  BY <1>4, PostedKeeps
<1>5. ASSUME NEW p \in Procs, Agrees(p) \/ Refused(p) PROVE Inv'  BY <1>5, AskedKeeps
<1>6. ASSUME NEW p \in Procs, Kill(p) PROVE Inv'  BY <1>6, KillKeeps
<1>7. CASE Collected  BY <1>7, CollectedKeeps
<1>8. CASE UNCHANGED vars
  <2>1. menu' = menu /\ sw' = sw /\ job' = job /\ calls' = calls /\ faults' = faults
    BY <1>8 DEF vars
  <2>2. Procs' = Procs  BY <2>1 DEF Procs
  <2>3. Apart'  BY <2>1, <2>2 DEF Apart, Inv
  <2> QED  BY <2>1, <2>2, <2>3 DEF Inv
<1>9. CASE Terminated  BY <1>8, <1>9 DEF Terminated
<1> QED  BY <1>1, <1>2, <1>3, <1>4, <1>5, <1>6, <1>7, <1>8, <1>9 DEF Next, Step

LEMMA InvAlways == ASSUME AllRun PROVE Spec => []Inv
<1>1. Init => Inv  BY InitInv
<1>2. Inv /\ [Next]_vars => Inv'  BY InvKept
<1> QED  BY <1>1, <1>2, PTL DEF Spec

\* What is asked, and what has ended.
LEMMA AskingMay ==
  ASSUME Inv, NEW p \in Procs, NEW C, Asks(p, C)
  PROVE  May(job[p].todo.now.c, job[p], sw) /\ job[p].todo.now.c \in C
<1>1. At(p, "cmd") /\ job[p].todo.now.c \in C  BY DEF Asks
<1>2. PICK X : Ready(X, job[p], sw)  BY <1>1, AtCommand DEF Takes
<1>3. job[p].todo.now.k = "cmd"  BY <1>1 DEF At
<1> QED  BY <1>1, <1>2, <1>3 DEF Ready
LEMMA EndedFin == ASSUME Inv, NEW p \in Procs, Ended(p) PROVE Fin(job[p], sw) /\ JobSane(job[p])
<1>1. job[p].ret # "none" /\ job[p].ret # "idle"  BY DEF Ended
<1>2. Fine(job[p], sw, Somebody + calls)  BY <1>1, UnstartedIs DEF Inv
<1> QED  BY <1>1, <1>2 DEF Fine, Holding

LEMMA AuthFromInv == ASSUME Inv PROVE AuthIsOwn
<1> SUFFICES ASSUME NEW p \in Procs
             PROVE  LET j == job[p]
                        secured == Asks(p, {"KMSK"}) /\ j.sec = "INITIALIZED_SECURED"
                        dok == Asks(p, {"DOK_KEY_ADD", "DOK_KEY_REVOKE"}) /\ "signature" \in j.opt
                    IN  /\ Asks(p, Keyed) \/ secured => sw.pub = j.id \/ "pub" \in j.met
                        /\ Asks(p, SignedCmds) \/ secured \/ dok => sw.sig = j.id \/ "sig" \in j.met
  BY DEF AuthIsOwn
<1> DEFINE c == job[p].todo.now.c
<1>1. \A C : Asks(p, C) => c \in C /\ May(c, job[p], sw)  BY AskingMay
<1> HIDE DEF c
<1>2. Asks(p, Keyed) => sw.pub = job[p].id \/ "pub" \in job[p].met
  BY <1>1 DEF May, Own
<1>3. Asks(p, {"KMSK"}) /\ job[p].sec = "INITIALIZED_SECURED" =>
        /\ sw.pub = job[p].id \/ "pub" \in job[p].met
        /\ sw.sig = job[p].id \/ "sig" \in job[p].met
  BY <1>1 DEF May, Own
<1>4. Asks(p, SignedCmds) => sw.sig = job[p].id \/ "sig" \in job[p].met  BY <1>1 DEF May, Own
<1>5. Asks(p, {"DOK_KEY_ADD", "DOK_KEY_REVOKE"}) /\ "signature" \in job[p].opt =>
        sw.sig = job[p].id \/ "sig" \in job[p].met
  BY <1>1 DEF May, Own
<1> QED  BY <1>2, <1>3, <1>4, <1>5

LEMMA IrreversibleFromInv == ASSUME Inv PROVE IrreversibleAsChecked
<1> SUFFICES ASSUME NEW p \in Procs, Asks(p, ForGood)
             PROVE  LET j == job[p] IN
    /\ j.sure >= IF Asks(p, {"WRITE"}) /\ j.versions /\ "newer" \in j.opt THEN 2 ELSE 1
    /\ Asks(p, {"SET_SECURED", "SET_UNSECURED", "DEBUG_PROTECT", "CONFIG_SET"}) =>
         sw.sec \in {"UNINITIALIZED_UNSECURED", "SECURE_CAPABLE"} \/ "sec" \in j.met
    /\ Asks(p, {"CONFIG_SET"}) => j.saved = "ok"
    /\ Asks(p, {"KMSK"}) => sw.kmsk = FALSE \/ "kmsk" \in j.met
  BY DEF IrreversibleAsChecked
<1> DEFINE j == job[p]
           c == job[p].todo.now.c
<1>1. May(c, j, sw) /\ \A C : Asks(p, C) <=> c \in C  BY AskingMay DEF Asks
<1>2. c \in ForGood  BY <1>1
<1>3. j.versions \in BOOLEAN
  <2>1. At(p, "cmd")  BY DEF Asks
  <2>2. Fine(j, sw, Somebody + calls)  BY <2>1, AtCommand DEF Takes
  <2> QED  BY <2>2 DEF Fine, JobSane
<1> HIDE DEF c, j
<1>4. j.sure >= IF c = "WRITE" /\ j.versions = TRUE /\ "newer" \in j.opt THEN 2 ELSE 1
  BY <1>1, <1>2 DEF May
<1>5. j.versions <=> j.versions = TRUE  BY <1>3
<1>6. Asks(p, {"WRITE"}) <=> c = "WRITE"  BY <1>1
<1>7. j.sure >= IF Asks(p, {"WRITE"}) /\ j.versions /\ "newer" \in j.opt THEN 2 ELSE 1
  <2>1. CASE c = "WRITE" /\ j.versions = TRUE /\ "newer" \in j.opt  BY <1>4, <1>5, <1>6, <2>1
  <2>2. CASE ~(c = "WRITE" /\ j.versions = TRUE /\ "newer" \in j.opt)
    <3>1. ~(Asks(p, {"WRITE"}) /\ j.versions /\ "newer" \in j.opt)  BY <1>5, <1>6, <2>2
    <3>2. j.sure >= 1  BY <1>4, <2>2
    <3> QED  BY <3>1, <3>2
  <2> QED  BY <2>1, <2>2
<1>8. Asks(p, {"SET_SECURED", "SET_UNSECURED", "DEBUG_PROTECT", "CONFIG_SET"}) =>
         sw.sec \in {"UNINITIALIZED_UNSECURED", "SECURE_CAPABLE"} \/ "sec" \in j.met
  BY <1>1 DEF May, Fresh
<1>9. Asks(p, {"CONFIG_SET"}) => j.saved = "ok"  BY <1>1 DEF May
<1>10. Asks(p, {"KMSK"}) => sw.kmsk = FALSE \/ "kmsk" \in j.met
  <2>1. c = "KMSK" => sw.kmsk = FALSE \/ "kmsk" \in j.met  BY <1>1 DEF May
  <2>2. Asks(p, {"KMSK"}) => c = "KMSK"  BY <1>1
  <2> QED  BY <2>1, <2>2
<1> QED  BY <1>7, <1>8, <1>9, <1>10 DEF j

LEMMA CounterFromInv == ASSUME Inv PROVE FreeCounter
<1> SUFFICES ASSUME NEW p \in Procs, Asks(p, {"EVCNTR_SETUP"}), "given" \notin job[p].opt
             PROVE  sw.counter = 0 \/ "counter" \in job[p].met
  BY DEF FreeCounter
<1>1. May(job[p].todo.now.c, job[p], sw) /\ job[p].todo.now.c = "EVCNTR_SETUP"  BY AskingMay
<1> QED  BY <1>1 DEF May

LEMMA BootFromInv == ASSUME Inv PROVE BootRoRestored
<1> SUFFICES ASSUME NEW p \in Procs, Ended(p), job[p].cmd = "fw_update", job[p].gen = 3,
                    {"boot", "set_boot_rw"} \subseteq job[p].opt,
                    job[p].ret = "ok" \/ "WRITE" \in job[p].failed,
                    "SET_BOOT_RO" \notin job[p].failed, "bootro" \notin job[p].met,
                    job[p].ret # "killed"
             PROVE  sw.bootro = "ro"
  BY DEF BootRoRestored
<1> QED  BY EndedFin DEF Fin, Restored, Ended

LEMMA ReportedFromInv == ASSUME Inv PROVE SettingsAsReported
<1> SUFFICES ASSUME NEW p \in Procs, Ended(p)
             PROVE  LET j == job[p] IN
    /\ (/\ j.cmd = "fw_toggle" /\ j.ret # "killed" /\ j.phase # "BL2"
        /\ {"act", "phase"} \cap j.met = {})
       => /\ j.saved = "ok"   => sw.act = Flip(j.act0, Asked(j.opt, j.gen, j.phase))
          /\ j.saved = "mrpc" => sw.act = j.act0
    /\ (j.cmd = "loopback" /\ j.ret = "ok" /\ "disable" \in j.opt /\ "loop" \notin j.met)
       => sw.loop = {}
  BY DEF SettingsAsReported
<1>1. Fin(job[p], sw) /\ job[p].ret \in {"ok", "err", "killed"}  BY EndedFin DEF Ended
<1> QED  BY <1>1 DEF Fin, Moved, Unmoved, Other, AllOff

LEMMA DumpFromInv == ASSUME Inv PROVE DumpIsOwn
BY EndedFin DEF DumpIsOwn, Fin, Dumped
LEMMA ClosedFromInv == ASSUME Inv PROVE SessionsClosed
<1>1. Sessions \ {"img", "cross", "eye"} = Dumps  BY DEF Sessions, Dumps
<1> QED  BY <1>1, EndedFin DEF SessionsClosed, Fin
LEMMA MeasuresFromInv == ASSUME Inv PROVE MeasuresOwnSetup
BY EndedFin DEF MeasuresOwnSetup, Fin

-----------------------------------------------------------------------------
(* Knowledge, more and less.                                                   *)
LEMMA LessEntails == ASSUME NEW K, NEW L, L \subseteq K PROVE Entails(K, L)
BY LessHas DEF Entails

LEMMA HasUnion ==
  ASSUME NEW K, NEW L, NEW j, NEW s, Has(K, j, s), Has(L, j, s)
  PROVE  Has(K \cup L, j, s)
<1> DEFINE M == K \cup L
<1>0. \A x : x \in M => x \in K \/ x \in L  OBVIOUS
<1> HIDE DEF M
<1>1. HasAuth(M, j, s)
  <2>1. HasAuth(K, j, s) /\ HasAuth(L, j, s)  BY DEF Has
  <2>2. "twice" \in M => (j.versions = TRUE /\ "newer" \in j.opt => j.sure >= 2)
    BY <1>0, <2>1 DEF HasAuth
  <2>3. "told kmsk" \in M => j.sec = "none" \/ j.kmsk = s.kmsk \/ "kmsk" \in j.met
    BY <1>0, <2>1 DEF HasAuth
  <2>4. "no kmsk" \in M => s.kmsk = FALSE \/ "kmsk" \in j.met  BY <1>0, <2>1 DEF HasAuth
  <2> QED  BY <1>0, <2>1, <2>2, <2>3, <2>4 DEF HasAuth
<1>2. HasMeasure(M, j, s)  BY <1>0 DEF Has, HasMeasure
<1>3. HasFw(M, j, s)
  <2>1. HasFw(K, j, s) /\ HasFw(L, j, s)  BY DEF Has
  <2>2. "toggle res" \in M => (j.res = "ok" => Moved(j, s)) /\ (j.res = "mrpc" => Unmoved(j, s))
    BY <1>0, <2>1 DEF HasFw
  <2>3. "reported" \in M => (j.saved = "ok" => Moved(j, s)) /\ (j.saved = "mrpc" => Unmoved(j, s))
    BY <1>0, <2>1 DEF HasFw
  <2>4. "open res" \in M => (j.res = "ok" => j.gen = s.gen /\ (j.phase = s.phase \/ "phase" \in j.met))
    BY <1>0, <2>1 DEF HasFw
  <2>5. /\ "no write" \in M => "WRITE" \notin j.failed
        /\ "restored" \in M => Restored(j, s)
        /\ "restored if written" \in M => ("WRITE" \in j.failed => Restored(j, s))
        /\ "told gen" \in M => j.gen = s.gen
        /\ "told phase" \in M => j.phase = s.phase \/ "phase" \in j.met
        /\ "bl2" \in M => j.phase = "BL2"
    BY <1>0, <2>1 DEF HasFw
  <2>6. /\ "moved" \in M => Moved(j, s)
        /\ "unmoved" \in M => Unmoved(j, s)
        /\ "act kept" \in M => s.act = j.act0 \/ "act" \in j.met
        /\ "unsaved" \in M => j.saved = "none"
    BY <1>0, <2>1 DEF HasFw
  <2> QED  BY <2>2, <2>3, <2>4, <2>5, <2>6 DEF HasFw
<1>4. HasLoop(M, j, s)  BY <1>0 DEF Has, HasLoop
<1>5. HasSes(M, j, s)  BY <1>0 DEF Has, HasSes
<1>6. Has(M, j, s)  BY <1>0, <1>1, <1>2, <1>3, <1>4, <1>5 DEF Has
<1> QED  BY <1>6 DEF M

\* Facts by what they are about.
AuthFacts == {"pub", "sig", "auth", "dok", "sure", "twice", "told sec", "fresh", "some sec",
              "told kmsk", "no kmsk", "saved"}
MeasureFacts == {"told counter", "free", "unseen", "lat set", "lat seen", "bw set", "bw res", "bw seen"}
FwFacts == {"no write", "restored", "restored if written", "told gen", "told phase", "open res",
            "bl2", "moved", "unmoved", "act kept", "toggle res", "unsaved", "reported"}
LoopFacts == {"keeps on", "disable alone", "gen5", "not gen5", "off on gen5", "off", "PARALLEL_ON",
              "EXTERNAL_ON", "PIPE_ON", "LTSSM_ON", "RX_TO_TX_ON", "TX_TO_RX_ON"}
SesFacts == {"topo", "gfms", "nvme", "log", "no session", "dumped", "over", "more", "none got",
             "fetched", "scanned", "topo open", "gfms open", "img open", "nvme open", "log open", "cross open",
             "eye open", "topo counted", "gfms counted", "img counted", "nvme counted", "log counted",
             "cross counted", "eye counted"}
LEMMA OnNames == ASSUME NEW m \in Modes PROVE m.on \in LoopFacts
<1>1. m.on \in {"PARALLEL_ON", "EXTERNAL_ON", "PIPE_ON", "LTSSM_ON", "RX_TO_TX_ON", "TX_TO_RX_ON"}
  BY DEF Modes, Parallel, External, Pipe, Ltssm, RxToTx, TxToRx
<1> QED  BY <1>1 DEF LoopFacts
LEMMA SesNames == ASSUME NEW f \in Sessions PROVE Opened[f] \in SesFacts /\ Counted[f] \in SesFacts
BY Sessions7 DEF SesFacts

LEMMA NoAuth == ASSUME NEW L, L \cap AuthFacts = {}, NEW j, NEW s PROVE HasAuth(L, j, s)
BY DEF AuthFacts, HasAuth
LEMMA NoMeasure == ASSUME NEW L, L \cap MeasureFacts = {}, NEW j, NEW s PROVE HasMeasure(L, j, s)
BY DEF MeasureFacts, HasMeasure
LEMMA NoFw == ASSUME NEW L, L \cap FwFacts = {}, NEW j, NEW s PROVE HasFw(L, j, s)
BY DEF FwFacts, HasFw
LEMMA NoLoop == ASSUME NEW L, L \cap LoopFacts = {}, NEW j, NEW s PROVE HasLoop(L, j, s)
<1>1. \A m \in Modes : m.on \notin L  BY OnNames
<1> QED  BY <1>1 DEF LoopFacts, HasLoop
LEMMA NoSes == ASSUME NEW L, L \cap SesFacts = {}, NEW j, NEW s PROVE HasSes(L, j, s)
<1>1. \A f \in Sessions : Opened[f] \notin L /\ Counted[f] \notin L  BY SesNames
<1> QED  BY <1>1 DEF SesFacts, Dumps, HasSes

NamedFacts == {"plain"} \cup Reporting
LEMMA FactsApart ==
  /\ AuthFacts \cap MeasureFacts = {} /\ AuthFacts \cap FwFacts = {} /\ AuthFacts \cap LoopFacts = {}
  /\ AuthFacts \cap SesFacts = {} /\ AuthFacts \cap NamedFacts = {} /\ MeasureFacts \cap FwFacts = {}
  /\ MeasureFacts \cap LoopFacts = {} /\ MeasureFacts \cap SesFacts = {} /\ MeasureFacts \cap NamedFacts = {}
  /\ FwFacts \cap LoopFacts = {} /\ FwFacts \cap SesFacts = {} /\ FwFacts \cap NamedFacts = {}
  /\ LoopFacts \cap SesFacts = {} /\ LoopFacts \cap NamedFacts = {} /\ SesFacts \cap NamedFacts = {}
<1>1. AuthFacts \cap MeasureFacts = {}  BY DEF AuthFacts, MeasureFacts
<1>2. AuthFacts \cap FwFacts = {}  BY DEF AuthFacts, FwFacts
<1>3. AuthFacts \cap LoopFacts = {}  BY DEF AuthFacts, LoopFacts
<1>4. AuthFacts \cap SesFacts = {}  BY DEF AuthFacts, SesFacts
<1>5. AuthFacts \cap NamedFacts = {}  BY DEF AuthFacts, NamedFacts, Reporting
<1>6. MeasureFacts \cap FwFacts = {}  BY DEF MeasureFacts, FwFacts
<1>7. MeasureFacts \cap LoopFacts = {}  BY DEF MeasureFacts, LoopFacts
<1>8. MeasureFacts \cap SesFacts = {}  BY DEF MeasureFacts, SesFacts
<1>9. MeasureFacts \cap NamedFacts = {}  BY DEF MeasureFacts, NamedFacts, Reporting
<1>10. FwFacts \cap LoopFacts = {}  BY DEF FwFacts, LoopFacts
<1>11. FwFacts \cap SesFacts = {}  BY DEF FwFacts, SesFacts
<1>12. FwFacts \cap NamedFacts = {}  BY DEF FwFacts, NamedFacts, Reporting
<1>13. LoopFacts \cap SesFacts = {}  BY DEF LoopFacts, SesFacts
<1>14. LoopFacts \cap NamedFacts = {}  BY DEF LoopFacts, NamedFacts, Reporting
<1>15. SesFacts \cap NamedFacts = {}  BY DEF SesFacts, NamedFacts, Reporting
<1> QED  BY <1>1, <1>2, <1>3, <1>4, <1>5, <1>6, <1>7, <1>8, <1>9, <1>10, <1>11, <1>12, <1>13, <1>14, <1>15
LEMMA OnlyAuth ==
  ASSUME NEW L, L \subseteq AuthFacts, NEW j, NEW s
  PROVE  Has(L, j, s) <=> HasAuth(L, j, s)
<1>2. L \cap MeasureFacts = {} /\ L \cap FwFacts = {} /\ L \cap LoopFacts = {} /\ L \cap SesFacts = {}
      /\ L \cap NamedFacts = {}
  BY FactsApart
<1> QED  BY <1>2, NoMeasure, NoFw, NoLoop, NoSes DEF Has, NamedFacts
LEMMA OnlyMeasure ==
  ASSUME NEW L, L \subseteq MeasureFacts, NEW j, NEW s
  PROVE  Has(L, j, s) <=> HasMeasure(L, j, s)
<1>2. L \cap AuthFacts = {} /\ L \cap FwFacts = {} /\ L \cap LoopFacts = {} /\ L \cap SesFacts = {}
      /\ L \cap NamedFacts = {}
  BY FactsApart
<1> QED  BY <1>2, NoAuth, NoFw, NoLoop, NoSes DEF Has, NamedFacts
LEMMA OnlyFw ==
  ASSUME NEW L, L \subseteq FwFacts, NEW j, NEW s
  PROVE  Has(L, j, s) <=> HasFw(L, j, s)
<1>2. L \cap AuthFacts = {} /\ L \cap MeasureFacts = {} /\ L \cap LoopFacts = {} /\ L \cap SesFacts = {}
      /\ L \cap NamedFacts = {}
  BY FactsApart
<1> QED  BY <1>2, NoAuth, NoMeasure, NoLoop, NoSes DEF Has, NamedFacts
LEMMA OnlyLoop ==
  ASSUME NEW L, L \subseteq LoopFacts, NEW j, NEW s
  PROVE  Has(L, j, s) <=> HasLoop(L, j, s)
<1>2. L \cap AuthFacts = {} /\ L \cap MeasureFacts = {} /\ L \cap FwFacts = {} /\ L \cap SesFacts = {}
      /\ L \cap NamedFacts = {}
  BY FactsApart
<1> QED  BY <1>2, NoAuth, NoMeasure, NoFw, NoSes DEF Has, NamedFacts
LEMMA OnlySes ==
  ASSUME NEW L, L \subseteq SesFacts, NEW j, NEW s
  PROVE  Has(L, j, s) <=> HasSes(L, j, s)
<1>2. L \cap AuthFacts = {} /\ L \cap MeasureFacts = {} /\ L \cap FwFacts = {} /\ L \cap LoopFacts = {}
      /\ L \cap NamedFacts = {}
  BY FactsApart
<1> QED  BY <1>2, NoAuth, NoMeasure, NoFw, NoLoop DEF Has, NamedFacts

\* Less is known after a test, an answer, a result.
LEMMA LessKnown ==
  ASSUME NEW K, NEW L, L \subseteq K, NEW f, NEW S
  PROVE  /\ Knows(K, f, S, L) /\ KnowsNot(K, f, S, L) /\ \A b : KnowsOpt(K, S, b, L)
         /\ NoRes(L) => /\ \A r : Returns(K, r, L)
                        /\ GivesUp(K, f, S, L)
                        /\ Agreed(K, L, 0) /\ Agreed(K, L, 1)
<1>1. \A j, s : Has(K, j, s) => Has(L, j, s)  BY LessHas
<1>2. ASSUME NoRes(L) PROVE (\A r : Returns(K, r, L)) /\ GivesUp(K, f, S, L)
  BY <1>1, <1>2, ResSame DEF Returns, GivesUp
<1>3. ASSUME NoRes(L) PROVE Agreed(K, L, 0) /\ Agreed(K, L, 1)
  <2>1. 0 \in 0..1 /\ 1 \in 0..1  OBVIOUS
  <2>2. Agreed(L, L, 0) /\ Agreed(L, L, 1)  BY <1>3, <2>1, AgreedSame
  <2> QED  BY <1>1, <2>2 DEF Agreed
<1> QED  BY <1>1, <1>2, <1>3 DEF Knows, KnowsNot, KnowsOpt
LEMMA DoesLess ==
  ASSUME NEW R, NEW F, NEW K, NEW t, NEW L, NEW K2, NEW L2, Does(R, F, K, t, L), K \subseteq K2,
         L2 \subseteq L
  PROVE  Does(R, F, K2, t, L2)
BY DoesWeaker, LessEntails, EntailsItself
LEMMA DoesMore ==
  ASSUME NEW R, NEW F, NEW K, NEW t, NEW L, NEW R2, NEW F2, Does(R, F, K, t, L),
         R \subseteq R2, F2 \subseteq F
  PROVE  Does(R2, F2, K, t, L)
BY DoesWeaker, LessEntails, EntailsItself

\* What is known after a command that was not known before.
Gains(x, K, G) ==
  \A j, s, e, n, i :
    Sane(j, s) /\ Has(K, j, s) /\ EffectFields(e, x, j, s) /\ n \in Lefts(j, x, e)
      /\ Known(i, x, n, j, e) /\ i.res = "ok"
    => Has(G, i, e)
Leaves(x, K, H) ==
  \A j, s, e, y, i :
    Sane(j, s) /\ Has(K, j, s) /\ EffectFields(e, x, j, s) /\ Failing(i, x, j)
      /\ ((i.res = "mrpc" /\ y = s) \/ (i.res = "sys" /\ y \in {s, e}))
    => Has(H, i, y)
LEMMA CmdGains ==
  ASSUME NEW x, x # "BOOT_RO_GET", NEW K, NEW L, L \subseteq K, Keeps(x, L), MayDo(x, K),
         NEW G, NEW H, Gains(x, K, G), Leaves(x, K, H)
  PROVE  CmdOK(x, K, L \cup G, L \cup H)
<1> SUFFICES ASSUME NEW j, NEW s, Sane(j, s), Has(K, j, s)
             PROVE  LET e == Effect(x, j, s)
                    IN  /\ May(x, j, s)
                        /\ \A n \in Lefts(j, x, e) : Has(L \cup G, [Told2(j, x, n, e) EXCEPT !.res = "ok"], e)
                        /\ Has(L \cup H, [Fail(j, x) EXCEPT !.res = "mrpc"], s)
                        /\ \A y \in {s, e} : Has(L \cup H, [Fail(j, x) EXCEPT !.res = "sys"], y)
  BY DEF CmdOK
<1> DEFINE e == Effect(x, j, s)
<1>0. JobSane(j) /\ EffectFields(e, x, j, s)  BY EffectDoes DEF Sane, SwitchSane
<1>1. LET E == e IN
      /\ May(x, j, s)
      /\ \A n \in Lefts(j, x, E) : Has(L, [Told2(j, x, n, E) EXCEPT !.res = "ok"], E)
      /\ Has(L, [Fail(j, x) EXCEPT !.res = "mrpc"], s)
      /\ \A y \in {s, E} : Has(L, [Fail(j, x) EXCEPT !.res = "sys"], y)
  BY CmdKeeps DEF CmdOK
<1> HIDE DEF e
<1>2. ASSUME NEW n \in Lefts(j, x, e) PROVE Has(L \cup G, [Told2(j, x, n, e) EXCEPT !.res = "ok"], e)
  <2> DEFINE i == [Told2(j, x, n, e) EXCEPT !.res = "ok"]
  <2>1. i.res = "ok" /\ Knowing(i, x, n, j, e) /\ Has(L, i, e)
    <3>1. DOMAIN Told2(j, x, n, e) = JobFields  BY <1>0 DEF Told2, Told, JobSane, JobFields
    <3>2. i.res = "ok"  BY <3>1, IdleDomain
    <3> QED  BY <3>2, <1>0, <1>1, AfterCmd
  <2> HIDE DEF i
  <2>2. Known(i, x, n, j, e)  BY <2>1, <1>0, KnowingIs
  <2>3. Has(G, i, e)  BY <1>0, <2>1, <2>2 DEF Gains
  <2>4. Has(L \cup G, i, e)  BY <2>1, <2>3, HasUnion
  <2> QED  BY <2>4 DEF i
<1>3. ASSUME NEW r \in {"mrpc", "sys"}, NEW y \in {s, e}, r = "mrpc" => y = s
      PROVE  Has(L \cup H, [Fail(j, x) EXCEPT !.res = r], y)
  <2> DEFINE i == [Fail(j, x) EXCEPT !.res = r]
  <2>1. i.res = r /\ Failing(i, x, j) /\ Has(L, i, y)
    <3>1. DOMAIN Fail(j, x) = JobFields  BY <1>0 DEF Fail, JobSane, JobFields
    <3>2. i.res = r  BY <3>1, IdleDomain
    <3> QED  BY <3>2, <1>0, <1>1, <1>3, AfterCmd
  <2> HIDE DEF i
  <2>3. Has(H, i, y)  BY <1>0, <1>3, <2>1 DEF Leaves
  <2>4. Has(L \cup H, i, y)  BY <2>1, <2>3, HasUnion
  <2> QED  BY <2>4 DEF i
<1> QED  BY <1>1, <1>2, <1>3 DEF e

LEMMA LeavesNothing == ASSUME NEW x, NEW K PROVE Leaves(x, K, {}) /\ Gains(x, K, {})
<1>1. \A j, s : Has({}, j, s)  BY OnlyAuth DEF HasAuth
<1> QED  BY <1>1 DEF Leaves, Gains
LEMMA DoesGain ==
  ASSUME NEW R, "err" \in R, NEW x, x # "BOOT_RO_GET", NEW K, NEW L, L \subseteq K, Keeps(x, L),
         MayDo(x, K), NEW G, Gains(x, K, G), NEW F, F \subseteq L
  PROVE  Does(R, F, K, Cmd(x), L \cup G)
<1>1. CmdOK(x, K, L \cup G, L \cup {})  BY CmdGains, LeavesNothing
<1>2. Does(R, L \cup {}, K, Cmd(x), L \cup G)  BY <1>1, DoesCmd
<1> QED  BY <1>2, DoesMore
LEMMA DoesKeep ==
  ASSUME NEW R, "err" \in R, NEW x, NEW K, NEW L, L \subseteq K, Keeps(x, L), MayDo(x, K),
         NEW F, F \subseteq L
  PROVE  Does(R, F, K, Cmd(x), L)
<1>1. CmdOK(x, K, L, L)  BY CmdKeeps
<1>2. Does(R, L, K, Cmd(x), L)  BY <1>1, DoesCmd
<1> QED  BY <1>2, DoesMore

\* Steps that keep what is known, where more goes on around them.
LEMMA QuietDoes ==
  ASSUME NEW Q, NEW D, NEW t, Quiet(Q, D, t), NEW K, In(D, K), NEW R, Q \subseteq R, NEW F, F \subseteq K
  PROVE  Does(R, F, K, t, K)
<1>1. Does(Q, K, K, t, K)  BY DEF Quiet
<1> QED  BY <1>1, DoesMore
LEMMA CalmDoes ==
  ASSUME NEW t, Calm(t), NEW K, NoRes(K), NEW R, "err" \in R, NEW F, F \subseteq K
  PROVE  Does(R, F, K, t, K)
<1>1. In("all", K) /\ Err \subseteq R  BY DEF In, Err
<1> QED  BY <1>1, QuietDoes DEF Calm

\* A call from its start to its end.
LEMMA FinishRuns ==
  ASSUME NEW c, NEW t, NEW R, NEW F, NEW K, NEW L, Does(R, F, K, switchtec_open ++ t, L),
         K \subseteq AtFirst(c), Faces(R, F), Faces({"ok"}, L), NoRes(L)
  PROVE  CallRuns(c, t)
<1> DEFINE A == AtFirst(c)
<1> DEFINE u == switchtec_open ++ t
<1>1. Does(R, F, A, u, L)  BY DoesLess
<1> HIDE DEF A, u
<1>0. Ends(F, None) = {} /\ None.k # "caller"  BY DEF Ends, None
<1>2. PICK X : <<A, u ++ Skip, None>> \in X /\ Closed(X, {<<L, Skip, None>>} \cup Ends(F, None))
  BY <1>1 DEF Does, Runs
<1> DEFINE Y == X \cup {<<L, Skip, None>>}
<1>3. Closed(X, {<<L, Skip, None>>})  BY <1>0, <1>2
<1>4. \A z \in X : Good(z, Y \cup {})  BY <1>3 DEF Closed
<1>5. Returns(L, "ok", L)  BY ReturnsSame
<1>6. Lands({"ok"}, L, None, Y \cup {})  BY <1>0 DEF Lands
<1>7. Good(<<L, Skip, None>>, Y \cup {})  BY <1>5, <1>6, StepEnd
<1>8. Closed(Y, {})  BY <1>4, <1>7 DEF Closed
<1> QED  BY <1>2, <1>8 DEF Runs, CallRuns, A, u

\* What a call of no report needs at its end.
LEMMA PlainFaces ==
  ASSUME NEW K, {"plain", "dumped"} \cup Dumps \subseteq K \/ Base \subseteq K
  PROVE  Faces(Both, K) /\ Faces({"ok"}, K)
<1> SUFFICES ASSUME NEW j, NEW s, Sane(j, s), Has(K, j, s)
             PROVE  Fin([j EXCEPT !.ret = Verdict(j.res)], s)
  BY DEF Faces
<1> DEFINE i == [j EXCEPT !.ret = Verdict(j.res)]
<1>1. \A f \in JobFields \ {"ret"} : i[f] = j[f]  BY IdleDomain DEF Sane, JobSane, JobFields
<1>2. i.cmd = j.cmd /\ i.id = j.id /\ i.ses = j.ses /\ i.met = j.met /\ i.got = j.got  BY <1>1, IdleDomain
<1> HIDE DEF i
<1>3. "plain" \in K /\ Dumps \subseteq K /\ ("dumped" \in K \/ "no session" \in K)  BY DEF Base
<1>4. j.cmd \notin Reporting  BY <1>3 DEF Has
<1>5. (\A f \in Dumps : s[f] # j.id) /\ (j.ses = "none" \/ Dumped(j))  BY <1>3 DEF Has, HasSes
<1>6. Dumped(i)  BY <1>2, <1>5 DEF Dumped
<1>7. Fin(i, s)  BY <1>2, <1>4, <1>5, <1>6 DEF Fin, Reporting
<1> QED  BY <1>7 DEF i
LEMMA BaseNoRes == NoRes(Base)
BY DEF NoRes, Base, Dumps

\* Commands that bring nothing with them that is to be known.
LEMMA MeekOpen == Meek(switchtec_open)
<1>1. Meek(Cmd("dev_info")) /\ Meek(Cmd("all_info")) /\ Meek(Cmd("pax_id"))  BY MeekCmd DEF GuardedNames
<1> QED  BY <1>1, MeekRules DEF switchtec_open, set_gen_variant, set_local_pax_id,
     switchtec_get_device_id_bl2, switchtec_get_device_info
LEMMA MeekRuns == ASSUME NEW c, c \notin Reporting, NEW t, Meek(t) PROVE CallRuns(c, t)
<1>1. Meek(switchtec_open ++ t)  BY MeekOpen, MeekRules
<1>2. In("harmless", Base)  BY BaseNoRes DEF In
<1>3. Does(Both, Base, Base, switchtec_open ++ t, Base)  BY <1>1, <1>2 DEF Meek, Quiet
<1>4. Base \subseteq AtFirst(c)  BY DEF Base, AtFirst
<1> QED  BY <1>3, <1>4, PlainFaces, BaseNoRes, FinishRuns

-----------------------------------------------------------------------------
(* The commands of the menus that change nothing others rely on.               *)

\* Entries, until none is left: one is asked for while some are.
LEMMA MoreIs == \A j, s : j.left # 0 => Has({"more"}, j, s)
<1> SUFFICES ASSUME NEW j, NEW s, j.left # 0 PROVE Has({"more"}, j, s)  OBVIOUS
<1>1. {"more"} \subseteq SesFacts  BY DEF SesFacts
<1>2. \A f \in Sessions : Opened[f] \notin {"more"} /\ Counted[f] \notin {"more"}  BY Sessions7
<1>3. HasSes({"more"}, j, s)  BY <1>2 DEF HasSes, Dumps
<1> QED  BY <1>1, <1>3, OnlySes
LEMMA MoreMay ==
  ASSUME NEW x, x \in {"LOG_NEXT", "OSA_READ", "TOPO_GET", "GFMS_GET", "IMG_NEXT", "NVME_DATA", "LOG_DUMP",
                       "EYE_FETCH"}, NEW K, "more" \in K
  PROVE  MayDo(x, K)
<1>1. \A j, s : Has(K, j, s) => j.left # 0  BY DEF Has, HasSes
<1>2. /\ x \notin {Parallel.on, External.on, Pipe.on, RxToTx.on, TxToRx.on}
      /\ x \notin ForGood \cup Keyed \cup SignedCmds /\ x # "EVCNTR_SETUP"
      /\ x \notin {"SET_SECURED", "SET_UNSECURED", "DEBUG_PROTECT", "CONFIG_SET", "KMSK", "DOK_KEY_ADD",
                   "DOK_KEY_REVOKE"}
  BY DEF Parallel, External, Pipe, RxToTx, TxToRx, ForGood, Keyed, SignedCmds
<1> QED  BY <1>1, <1>2 DEF MayDo, May
LEMMA MeekEntries == ASSUME NEW x \in {"LOG_NEXT", "OSA_READ"} PROVE Meek(Until("left", {0}, Cmd(x)))
<1> SUFFICES ASSUME NEW K, In("harmless", K) PROVE Does(Both, K, K, Until("left", {0}, Cmd(x)), K)
  BY DEF Meek, Quiet
<1> DEFINE M == K \cup {"more"}
<1>1. Knows(K, "left", {0}, K)  BY LessKnown
<1>2. KnowsNot(K, "left", {0}, M)  BY MoreIs, HasUnion DEF KnowsNot
<1>3. MayDo(x, M)  BY MoreMay
<1>4. Keeps(x, K)
  <2>1. x \notin DOMAIN Opens  BY OpensDomain
  <2> QED  BY <2>1, KeepsBase DEF In
<1>5. Does(Both, K, M, Cmd(x), K)  BY <1>3, <1>4, DoesKeep, ErrIn
<1> QED  BY <1>1, <1>2, <1>5, DoesUntil

LEMMA MeekParts ==
  /\ Meek(switchtec_fw_part_summary) /\ Meek(print_fw_part_info) /\ Meek(switchtec_get_fw_version)
  /\ Meek(switchtec_get_device_info) /\ Meek(port_status)
<1>1. /\ Meek(Cmd("flash")) /\ Meek(Cmd("flash_part")) /\ Meek(Cmd("metadata")) /\ Meek(Cmd("all_info"))
      /\ Meek(Cmd("BOOT_RO_GET")) /\ Meek(Cmd("multicfg")) /\ Meek(Cmd("dev_info"))
      /\ Meek(Cmd("port_status"))
  BY MeekCmd DEF GuardedNames
<1>2. 2 \in 0..3 /\ Parts = 2  BY DEF Parts
<1>3. Meek(switchtec_fw_part_info_gen3)
  BY <1>1, <1>2, MeekRules DEF switchtec_fw_part_info_gen3, switchtec_fw_is_boot_ro,
     switchtec_fw_map_get_active, switchtec_fw_read, switchtec_fw_info_metadata_gen3
<1>4. /\ Meek(switchtec_fw_part_info_gen4) /\ Meek(switchtec_fw_part_info_gen5)
      /\ Meek(switchtec_fw_part_info_gen6)
  BY <1>1, MeekRules DEF switchtec_fw_part_info_gen4, switchtec_fw_part_info_gen5,
     switchtec_fw_part_info_gen6, switchtec_fw_info_metadata_gen4, switchtec_fw_info_metadata_gen5,
     switchtec_fw_info_metadata_gen6
<1>5. Meek(switchtec_fw_part_info)  BY <1>1, <1>2, <1>3, <1>4, MeekRules DEF switchtec_fw_part_info
<1>6. Meek(get_multicfg)  BY <1>1, <1>2, MeekRules DEF get_multicfg, multicfg_subcmd
<1>7. Meek(switchtec_fw_part_summary)  BY <1>5, <1>6, MeekRules DEF switchtec_fw_part_summary
<1>8. Meek(print_fw_part_info)
  BY <1>1, <1>2, <1>7, MeekRules DEF print_fw_part_info, print_fw_part_info_main,
     print_fw_part_info_bl2_gen6, switchtec_fw_part_data_bl2
<1>9. Meek(switchtec_get_fw_version)  BY <1>7, MeekRules DEF switchtec_get_fw_version
<1>10. Meek(switchtec_get_device_info) /\ Meek(port_status)
  BY <1>1, MeekRules DEF switchtec_get_device_info, port_status
<1> QED  BY <1>7, <1>8, <1>9, <1>10

LEMMA MeekDev ==
  /\ Meek(info) /\ Meek(status) /\ Meek(log_dump) /\ Meek(test) /\ Meek(temp)
  /\ Meek(port_bind_info) /\ Meek(port_bind) /\ Meek(port_unbind) /\ Meek(stack_bif) /\ Meek(gpio)
  /\ Meek(rtc) /\ Meek(twi)
<1>1. /\ Meek(Cmd("echo")) /\ Meek(Cmd("temp")) /\ Meek(Cmd("LOG_FIRST")) /\ Meek(Cmd("log"))
      /\ Meek(Cmd("bind")) /\ Meek(Cmd("bif")) /\ Meek(Cmd("gpio")) /\ Meek(Cmd("rtc"))
      /\ Meek(Cmd("twi")) /\ Meek(Cmd("BW_GET"))
  BY MeekCmd DEF GuardedNames
<1>2. 2 \in 0..3 /\ Batches = 2  BY DEF Batches
<1>3. Meek(info)  BY MeekParts, MeekRules DEF info, print_dev_info
<1>4. Meek(status)  BY <1>1, <1>2, MeekParts, MeekRules DEF status, switchtec_bwcntr_many
<1>5. Meek(LogLoop)  BY <1>1, MeekEntries, MeekRules DEF LogLoop
<1>6. Meek(log_ram_flash_to_file)
  BY <1>5, MeekRules DEF log_ram_flash_to_file, log_a_to_file
<1>7. Meek(switchtec_log_to_file)
  BY <1>1, <1>5, <1>6, MeekRules DEF switchtec_log_to_file, log_b_to_file, log_c_to_file, log_d_to_file
<1>8. Meek(log_dump)
  BY <1>5, <1>7, MeekParts, MeekRules DEF log_dump, get_log_def_file, switchtec_log_def_to_file, Fails
<1>9. Meek(test) /\ Meek(temp)
  BY <1>1, <1>2, MeekRules DEF test, switchtec_echo, temp, switchtec_die_temp, switchtec_die_temps
<1>10. Meek(port_bind_info) /\ Meek(port_bind) /\ Meek(port_unbind)
  BY <1>1, MeekRules DEF port_bind_info, port_bind, port_unbind, switchtec_bind_info,
     switchtec_bind, switchtec_unbind
<1>11. Meek(stack_bif_get_print) /\ Meek(stack_bif_set)
  BY <1>1, MeekRules DEF stack_bif_get_print, stack_bif_set, switchtec_get_stack_bif,
     switchtec_set_stack_bif
<1>12. Meek(stack_bif)  BY <1>2, <1>11, MeekRules DEF stack_bif
<1>13. Meek(gpio)
  BY <1>1, MeekRules DEF gpio, switchtec_get_gpio, switchtec_set_gpio,
     switchtec_get_gpio_direction_cfg, switchtec_get_gpio_polarity_cfg, switchtec_en_dis_interrupt,
     switchtec_get_all_pin_sts
<1>14. Meek(rtc)
  BY <1>1, MeekRules DEF rtc, Fails, switchtec_rtc_counter_reset, switchtec_rtc_counter_set,
     switchtec_rtc_counter_get
<1>15. Meek(twi)
  BY <1>1, MeekRules DEF twi, Fails, switchtec_twi_access_write, switchtec_twi_access_read,
     switchtec_twi_access_reset
<1> QED  BY <1>3, <1>4, <1>8, <1>9, <1>10, <1>12, <1>13, <1>14, <1>15

LEMMA MeekFw ==
  /\ Meek(fw_info) /\ Meek(fw_debug_token_part_erase) /\ Meek(fw_redundant) /\ Meek(hard_reset)
<1>1. Meek(Cmd("TOKEN_ERASE")) /\ Meek(Cmd("REDUNDANT")) /\ Meek(Cmd("fmc")) /\ Meek(Cmd("RESET"))
  BY MeekCmd DEF GuardedNames
<1>2. Meek(fw_info)  BY <1>1, MeekParts, MeekRules DEF fw_info, switchtec_sms_fmc_version_get
<1>3. Meek(fw_debug_token_part_erase) /\ Meek(hard_reset)
  BY <1>1, MeekRules DEF fw_debug_token_part_erase, switchtec_fw_debug_token_part_erase, hard_reset,
     switchtec_hard_reset
<1>4. Meek(switchtec_fw_set_redundant_flag)
  BY <1>1, MeekRules DEF switchtec_fw_set_redundant_flag, set_redundant
<1>5. Meek(fw_redundant)  BY <1>4, MeekParts, MeekRules DEF fw_redundant, Fails
<1> QED  BY <1>2, <1>3, <1>5

LEMMA MeekFabric ==
  /\ Meek(gfms_bind) /\ Meek(gfms_unbind) /\ Meek(port_control) /\ Meek(portcfg_set)
  /\ Meek(portcfg_show) /\ Meek(gfms_events) /\ Meek(device_manage) /\ Meek(ep_tunnel_cfg)
  /\ Meek(ep_csr_read) /\ Meek(ep_csr_write) /\ Meek(ep_bar_read) /\ Meek(ep_bar_write)
<1>1. /\ Meek(Cmd("fabric")) /\ Meek(Cmd("tunnel")) /\ Meek(Cmd("resource"))
      /\ Meek(Cmd("EVENTS_GET")) /\ Meek(Cmd("EVENTS_CLEAR"))
  BY MeekCmd DEF GuardedNames
<1>2. 2 \in 0..3  OBVIOUS
<1>3. /\ Meek(gfms_bind) /\ Meek(gfms_unbind) /\ Meek(port_control) /\ Meek(portcfg_set)
      /\ Meek(portcfg_show) /\ Meek(device_manage)
  BY <1>1, MeekRules DEF gfms_bind, gfms_unbind, port_control, portcfg_set, portcfg_show,
     device_manage, switchtec_gfms_bind, switchtec_gfms_unbind, switchtec_port_control,
     switchtec_fab_port_config_get, switchtec_fab_port_config_set, switchtec_device_manage
<1>4. Meek(gfms_events)
  BY <1>1, MeekRules DEF gfms_events, Fails, switchtec_get_gfms_events, switchtec_clear_gfms_events
<1>5. Meek(ep_tunnel_cfg)
  BY <1>1, MeekRules DEF ep_tunnel_cfg, switchtec_ep_tunnel_enable, switchtec_ep_tunnel_disable,
     switchtec_ep_tunnel_status, switchtec_ep_tunnel_config
<1>6. Meek(ep_csr_read) /\ Meek(ep_csr_write) /\ Meek(ep_bar_read) /\ Meek(ep_bar_write)
  BY <1>1, <1>2, MeekRules DEF ep_csr_read, ep_csr_write, ep_bar_read, ep_bar_write,
     switchtec_ep_csr_read, switchtec_ep_csr_write, switchtec_ep_bar_read, switchtec_ep_bar_write
<1> QED  BY <1>3, <1>4, <1>5, <1>6

LEMMA MeekPmon == Meek(evcntr) /\ Meek(evcntr_show) /\ Meek(evcntr_del) /\ Meek(evcntr_wait)
<1>1. Meek(Cmd("EVCNTR_GET")) /\ Meek(Cmd("EVCNTR_CLEAR")) /\ Meek(Cmd("evcntr_wait"))
  BY MeekCmd DEF GuardedNames
<1>2. 2 \in 0..3  OBVIOUS
<1>3. Meek(evcntr_get)  BY <1>1, MeekRules DEF evcntr_get
<1>4. Meek(display_event_counters)
  BY <1>3, MeekRules DEF display_event_counters, switchtec_evcntr_get_both,
     switchtec_evcntr_get_setup, switchtec_evcntr_get
<1> QED
  BY <1>1, <1>2, <1>3, <1>4, MeekRules DEF evcntr, evcntr_show, evcntr_del, evcntr_wait,
     switchtec_evcntr_get_setup, switchtec_evcntr_wait

\* The commands of the manufacturing menu that only look.
LEMMA MeekMfg ==
  /\ Meek(ping) /\ Meek(mfg_info) /\ Meek(mailbox) /\ Meek(image_list) /\ Meek(image_select)
  /\ Meek(boot_resume) /\ Meek(fw_execute) /\ Meek(debug_unlock_token) /\ Meek(device_config_get)
  /\ Meek(jtag_status_get) /\ Meek(secure_state_get)
<1>1. /\ Meek(Cmd("config_ext")) /\ Meek(Cmd("config")) /\ Meek(Cmd("device_config"))
      /\ Meek(Cmd("security_settings")) /\ Meek(Cmd("otp")) /\ Meek(Cmd("state"))
      /\ Meek(Cmd("secure_status")) /\ Meek(Cmd("jtag_status")) /\ Meek(Cmd("sn_ver"))
      /\ Meek(Cmd("MAILBOX_GET")) /\ Meek(Cmd("ACT_IMG_IDX_GET")) /\ Meek(Cmd("ACT_IMG_IDX_SET"))
      /\ Meek(Cmd("BOOTUP_RESUME")) /\ Meek(Cmd("FW_TX_EXEC")) /\ Meek(Cmd("token"))
      /\ Meek(Cmd("dev_info"))
  BY MeekCmd DEF GuardedNames
<1>2. /\ Meek(switchtec_secure_state_get_gen6) /\ Meek(switchtec_dbg_unlock_status_get_gen6)
      /\ Meek(switchtec_sn_ver_get_with_phase) /\ Meek(security_settings_get_gen6)
  BY <1>1, MeekRules DEF switchtec_secure_state_get_gen6, switchtec_dbg_unlock_status_get_gen6,
     switchtec_sn_ver_get_with_phase, sn_ver_get_gen6, security_settings_get_gen6
<1>3. Meek(switchtec_security_config_get)
  BY <1>1, MeekRules DEF switchtec_security_config_get, get_configs_gen6, get_configs
<1>4. Meek(ping) /\ Meek(mfg_info) /\ Meek(jtag_status_get) /\ Meek(secure_state_get)
  BY <1>1, <1>2, <1>3, MeekRules DEF ping, mfg_info, jtag_status_get, secure_state_get
<1>5. Meek(mailbox)
  BY <1>1, MeekRules DEF mailbox, switchtec_mailbox_to_file, mailbox_to_file, mailbox_to_file_gen56
<1>6. Meek(image_list) /\ Meek(image_select) /\ Meek(boot_resume) /\ Meek(fw_execute)
  BY <1>1, MeekRules DEF image_list, image_select, boot_resume, fw_execute, Phases,
     active_image_index_set, active_image_index_set_gen5
<1>7. Meek(debug_unlock_token) /\ Meek(device_config_get)
  BY <1>1, <1>2, MeekRules DEF debug_unlock_token, device_config_get
<1> QED  BY <1>4, <1>5, <1>6, <1>7

\* The commands of the diagnostics menu that open no session and set no mode.
LEMMA MeekDiag ==
  /\ Meek(pattern) /\ Meek(list_mrpc) /\ Meek(port_eq_txcoeff) /\ Meek(port_eq_txfslf)
  /\ Meek(port_eq_txtable) /\ Meek(rcvr_obj) /\ Meek(rcvr_extended) /\ Meek(refclk)
  /\ Meek(tlp_inject) /\ Meek(aer_event_gen) /\ Meek(linkerr_inject) /\ Meek(osa)
  /\ Meek(osa_config_type) /\ Meek(osa_config_pat) /\ Meek(osa_config_misc)
  /\ Meek(osa_capture_control) /\ Meek(osa_dump_config) /\ Meek(osa_dump_data)
<1>1. /\ Meek(Cmd("diag")) /\ Meek(Cmd("eq")) /\ Meek(Cmd("inject")) /\ Meek(Cmd("osa"))
      /\ Meek(Cmd("OSA_COUNT")) /\ Meek(Cmd("port_status"))
  BY MeekCmd DEF GuardedNames
<1>2. 2 \in 0..3 /\ Lanes = 2 /\ Lanes - 1 = 1 /\ 1 \in 0..3  BY DEF Lanes
<1>3. Meek(get_port) /\ Meek(diag_parse_common_cfg)
  BY <1>1, MeekRules DEF get_port, diag_parse_common_cfg
<1>4. Meek(print_pattern_mode)
  BY <1>1, <1>2, MeekRules DEF print_pattern_mode, switchtec_diag_pattern_gen_get,
     switchtec_diag_pattern_mon_get
<1>5. Meek(pattern)
  BY <1>1, <1>3, <1>4, MeekRules DEF pattern, switchtec_diag_pattern_mon_set,
     switchtec_diag_pattern_gen_set, switchtec_diag_pattern_inject
<1>6. /\ Meek(switchtec_diag_port_eq_tx_coeff) /\ Meek(switchtec_diag_port_eq_tx_table)
      /\ Meek(switchtec_diag_port_eq_tx_fslf)
  BY <1>1, MeekRules DEF switchtec_diag_port_eq_tx_coeff, switchtec_diag_port_eq_tx_table,
     switchtec_diag_port_eq_tx_fslf, switchtec_gen4_diag_port_eq_tx_coeff,
     switchtec_gen5_diag_port_eq_tx_coeff, switchtec_gen6_diag_port_eq_tx_coeff,
     switchtec_gen4_diag_port_eq_tx_table, switchtec_gen5_diag_port_eq_tx_table,
     switchtec_gen4_diag_port_eq_tx_fslf, switchtec_gen5_diag_port_eq_tx_fslf,
     switchtec_gen6_diag_port_eq_tx_fslf
<1>7. Meek(port_eq_txcoeff) /\ Meek(port_eq_txfslf) /\ Meek(port_eq_txtable)
  BY <1>2, <1>3, <1>6, MeekRules DEF port_eq_txcoeff, port_eq_txfslf, port_eq_txtable
<1>8. Meek(list_mrpc) /\ Meek(rcvr_obj) /\ Meek(rcvr_extended) /\ Meek(refclk)
  BY <1>1, <1>2, <1>3, MeekRules DEF list_mrpc, rcvr_obj, rcvr_extended, refclk,
     switchtec_diag_perm_table, switchtec_diag_rcvr_obj, switchtec_diag_rcvr_ext,
     switchtec_diag_refclk_ctl, switchtec_diag_refclk_status
<1>9. Meek(tlp_inject) /\ Meek(aer_event_gen)
  BY <1>1, MeekRules DEF tlp_inject, aer_event_gen, switchtec_tlp_inject, switchtec_aer_event_gen
<1>10. Meek(linkerr_inject)
  BY <1>1, MeekRules DEF linkerr_inject, switchtec_inject_err_dllp, switchtec_inject_err_dllp_crc,
     switchtec_inject_err_tlp_lcrc, switchtec_inject_err_tlp_seq_num, switchtec_inject_err_ack_nack,
     switchtec_inject_err_cto
<1>11. Meek(switchtec_osa_capture_data)
  BY <1>1, MeekEntries, MeekRules DEF switchtec_osa_capture_data
<1>12. /\ Meek(osa) /\ Meek(osa_config_type) /\ Meek(osa_config_pat) /\ Meek(osa_config_misc)
       /\ Meek(osa_capture_control) /\ Meek(osa_dump_config) /\ Meek(osa_dump_data)
  BY <1>1, <1>11, MeekRules DEF osa, osa_config_type, osa_config_pat, osa_config_misc,
     osa_capture_control, osa_dump_config, osa_dump_data, switchtec_osa, switchtec_osa_config_type,
     switchtec_osa_config_pattern, switchtec_osa_config_misc, switchtec_osa_capture_control,
     switchtec_osa_dump_conf
<1> QED  BY <1>5, <1>7, <1>8, <1>9, <1>10, <1>12

-----------------------------------------------------------------------------
(* Opening the switch: the process is told of what generation it is, and what   *)
(* it has booted.                                                              *)
Told0 == {"told gen", "told phase"}
Early(K) ==
  /\ NoRes(K)
  /\ K \cap {"restored", "restored if written", "moved", "unmoved", "reported", "bl2", "gen5", "not gen5",
             "off on gen5"} = {}
LEMMA ToldInfo ==
  ASSUME NEW K, Early(K), NEW R, "err" \in R, NEW F, F \subseteq K
  PROVE  Does(R, F, K, switchtec_get_device_info, K \cup Told0)
<1> DEFINE G == Told0 \cup {"open res"}
           H == {"open res"}
<1>0. G \subseteq FwFacts /\ H \subseteq FwFacts /\ Told0 \subseteq FwFacts  BY DEF FwFacts, Told0
<1>1. Keeps("dev_info", K)
  <2>1. KeepsSes("dev_info", K)
    BY OpensDomain, ClosesDomain DEF KeepsSes, Stirs, Reads, Firsts, Counts, Queues, Polls
  <2>2. KeepsLoop("dev_info", K)
    <3>1. \A m \in Modes : m.on # "dev_info"  BY OnNames DEF LoopFacts
    <3> QED  BY <3>1 DEF KeepsLoop, Early
  <2>3. KeepsAuth("dev_info", K) /\ KeepsMeasure("dev_info", K) /\ KeepsFw("dev_info", K)
    BY DEF KeepsAuth, KeepsMeasure, KeepsFw, Early
  <2> QED  BY <2>1, <2>2, <2>3 DEF Keeps, Early
<1>2. MayDo("dev_info", K)
  <2>1. "dev_info" \notin GuardedNames  BY DEF GuardedNames
  <2> QED  BY <2>1, GuardedIs, MayUnguarded
<1>3. Gains("dev_info", K, G)
  <2> SUFFICES ASSUME NEW j, NEW s, NEW e, NEW n, NEW i, Known(i, "dev_info", n, j, e), i.res = "ok"
               PROVE  Has(G, i, e)
    BY DEF Gains
  <2>1. i.gen = e.gen /\ i.phase = e.phase  BY DEF Known
  <2>2. HasFw(G, i, e)  BY <2>1 DEF HasFw, Told0
  <2> QED  BY <1>0, <2>2, OnlyFw
<1>4. Leaves("dev_info", K, H)
  <2> SUFFICES ASSUME NEW s, NEW e, NEW y, NEW i,
                      (i.res = "mrpc" /\ y = s) \/ (i.res = "sys" /\ y \in {s, e})
               PROVE  Has(H, i, y)
    BY DEF Leaves
  <2>1. HasFw(H, i, y)  BY DEF HasFw
  <2> QED  BY <1>0, <2>1, OnlyFw
<1>5. CmdOK("dev_info", K, K \cup G, K \cup H)  BY <1>1, <1>2, <1>3, <1>4, CmdGains
<1>6. Does(Err, K \cup H, K, Cmd("dev_info"), K \cup G)  BY <1>5, DoesCmd, ErrIn
<1>7. Returns(K \cup G, "ok", K \cup H)
  <2> SUFFICES ASSUME NEW j, NEW s, Sane(j, s), Has(K \cup G, j, s)
               PROVE  Has(K \cup H, [j EXCEPT !.res = "ok"], s)
    BY DEF Returns
  <2> DEFINE i == [j EXCEPT !.res = "ok"]
  <2>0. NoRes(K)  BY DEF Early
  <2>1. Has(K, i, s)
    <3>1. Has(K, j, s)  BY LessHas
    <3> QED  BY <3>1, <2>0, ResSame
  <2>2. Has(G, j, s)  BY LessHas
  <2>9. HasFw(G, j, s)  BY <2>2, <1>0, OnlyFw
  <2>3. j.gen = s.gen /\ (j.phase = s.phase \/ "phase" \in j.met)  BY <2>9 DEF HasFw, Told0
  <2>4. \A f \in JobFields \ {"res"} : i[f] = j[f]  BY DEF Sane, JobSane, JobFields
  <2> HIDE DEF i
  <2>5. i.gen = j.gen /\ i.phase = j.phase /\ i.met = j.met  BY <2>4, IdleDomain
  <2>6. HasFw(H, i, s)  BY <2>3, <2>5 DEF HasFw
  <2>7. Has(H, i, s)  BY <2>6, <1>0, OnlyFw
  <2>8. Has(K \cup H, i, s)  BY <2>1, <2>7, HasUnion
  <2> QED  BY <2>8 DEF i
<1>8. Does(R, F, K, Try(Cmd("dev_info")), K \cup H)  BY <1>6, <1>7, DoesTry
<1>9. Knows(K \cup H, "res", {"ok"}, K \cup Told0)
  <2> SUFFICES ASSUME NEW j, NEW s, Sane(j, s), Has(K \cup H, j, s), j.res = "ok"
               PROVE  Has(K \cup Told0, j, s)
    BY DEF Knows
  <2>1. Has(K, j, s) /\ Has(H, j, s)  BY LessHas
  <2>2. HasFw(H, j, s)  BY <2>1, <1>0, OnlyFw
  <2>3. HasFw(Told0, j, s)  BY <2>2 DEF HasFw, Told0
  <2>4. Has(Told0, j, s)  BY <2>3, <1>0, OnlyFw
  <2> QED  BY <2>1, <2>4, HasUnion
<1>10. GivesUp(K \cup H, "res", {"ok"}, F)
  <2>1. NoRes(F)  BY DEF Early, NoRes
  <2> QED  BY <2>1, LessKnown
<1>11. Does(R, F, K \cup H, Need("res", {"ok"}), K \cup Told0)  BY <1>9, <1>10, DoesNeed
<1> QED  BY <1>8, <1>11, DoesSeq DEF switchtec_get_device_info

LEMMA ToldOpen ==
  ASSUME NEW K, Early(K), NEW R, "err" \in R, NEW F, F \subseteq K
  PROVE  Does(R, F, K, switchtec_open, K \cup Told0)
<1> DEFINE L == K \cup Told0
<1>1. NoRes(K) /\ NoRes(L)  BY DEF Early, NoRes, Told0
<1>2. /\ "all_info" \notin Loud /\ "pax_id" \notin Loud
  <2>1. "all_info" \notin GuardedNames /\ "pax_id" \notin GuardedNames  BY DEF GuardedNames
  <2> QED
    BY <2>1, GuardedIs, ClosesDomain DEF Loud, Stirs, Reads, Firsts, Counts, Queues, Polls
<1>3. Calm(Try(Input ++ switchtec_get_device_id_bl2)) /\ Calm(Input)
  BY <1>2, CalmRules DEF switchtec_get_device_id_bl2
<1>4. Calm(set_local_pax_id)  BY <1>2, CalmRules DEF set_local_pax_id
<1>5. Does(R, F, K, Input, K) /\ Does(R, F, K, Try(Input ++ switchtec_get_device_id_bl2), K)
  BY <1>1, <1>3, CalmDoes
<1>6. Does(R, F, L, set_local_pax_id, L)  BY <1>1, <1>4, CalmDoes
<1>7. Does(R, F, K, switchtec_get_device_info, L)  BY ToldInfo
<1>8. Does(R, F, K, set_gen_variant, L)  BY <1>5, <1>7, DoesSeq DEF set_gen_variant
<1>9. Does(R, F, K, Input ++ set_gen_variant, L)  BY <1>5, <1>8, DoesSeq
<1> QED  BY <1>6, <1>9, DoesSeq DEF switchtec_open

-----------------------------------------------------------------------------
(* The commands of the manufacturing menu that set something for good.         *)

\* They keep what every harmless call keeps, with what they know besides.
Held(K) == Base \subseteq K /\ NoRes(K)
Mfg(K, t, L) == Does(Both, Base, K, t, L)

MfgNames == {"config", "config_ext", "otp", "state", "device_config", "security_settings", "PUBKEY",
             "SIGNATURE", "WRITE"} \cup Keyed \cup SignedCmds \cup ForGood
LEMMA KeepsMfg ==
  ASSUME NEW x \in MfgNames, NEW K, NoRes(K), KeepsAuth(x, K), KeepsFw(x, K)
  PROVE  Keeps(x, K)
<1>1. x \notin DOMAIN Opens \cup DOMAIN Closes  BY OpensDomain, ClosesDomain DEF MfgNames, Keyed, SignedCmds, ForGood
<1>2. x \notin Stirs
  BY DEF MfgNames, Keyed, SignedCmds, ForGood, Stirs, Reads, Firsts, Counts, Queues, Polls
<1>3. x \notin LoopFacts  BY DEF MfgNames, Keyed, SignedCmds, ForGood, LoopFacts
<1>4. x # "RESET" /\ x # "dev_info"  BY DEF MfgNames, Keyed, SignedCmds, ForGood
<1>5. KeepsSes(x, K)  BY <1>1, <1>2, <1>4 DEF KeepsSes
<1>6. KeepsLoop(x, K)
  <2>1. \A m \in Modes : x # m.on  BY <1>3, OnNames
  <2> QED  BY <1>4, <2>1 DEF KeepsLoop
<1>7. KeepsMeasure(x, K)  BY DEF KeepsMeasure, MfgNames, Keyed, SignedCmds, ForGood
<1> QED  BY <1>4, <1>5, <1>6, <1>7 DEF Keeps

\* What is to be known before one of them is sent.
LEMMA MayMfg ==
  ASSUME NEW x \in MfgNames, NEW K,
         x \in Keyed => "pub" \in K, x \in SignedCmds => "sig" \in K,
         x \in {"DOK_KEY_ADD", "DOK_KEY_REVOKE"} => "dok" \in K,
         x \in ForGood => "sure" \in K, x = "WRITE" => "twice" \in K,
         x \in {"SET_SECURED", "SET_UNSECURED", "DEBUG_PROTECT", "CONFIG_SET"} => "fresh" \in K,
         x = "CONFIG_SET" => "saved" \in K, x = "KMSK" => "no kmsk" \in K /\ "auth" \in K
  PROVE  MayDo(x, K)
<1> SUFFICES ASSUME NEW j, NEW s, Sane(j, s), HasAuth(K, j, s) PROVE May(x, j, s)
  BY DEF MayDo, Has
<1>1. x \notin Uses /\ x # "EVCNTR_SETUP"
  BY DEF Uses, Reads, MfgNames, Keyed, SignedCmds, ForGood
<1>2. x \notin {Parallel.on, External.on, Pipe.on, RxToTx.on, TxToRx.on}
  BY DEF Parallel, External, Pipe, RxToTx, TxToRx, MfgNames, Keyed, SignedCmds, ForGood
<1>3. x \in Keyed \/ (x = "KMSK" /\ j.sec = "INITIALIZED_SECURED") => Own("pub", j, s)
  BY DEF HasAuth
<1>4. \/ x \in SignedCmds \/ (x = "KMSK" /\ j.sec = "INITIALIZED_SECURED")
      \/ (x \in {"DOK_KEY_ADD", "DOK_KEY_REVOKE"} /\ "signature" \in j.opt)
      => Own("sig", j, s)
  BY DEF HasAuth
<1>5. x \in ForGood =>
        j.sure >= IF x = "WRITE" /\ j.versions = TRUE /\ "newer" \in j.opt THEN 2 ELSE 1
  BY DEF HasAuth
<1>6. /\ x \in {"SET_SECURED", "SET_UNSECURED", "DEBUG_PROTECT", "CONFIG_SET"} =>
           s.sec \in Fresh \/ "sec" \in j.met
      /\ x = "CONFIG_SET" => j.saved = "ok"
  BY DEF HasAuth
<1>7. x = "KMSK" => s.kmsk = FALSE \/ "kmsk" \in j.met  BY DEF HasAuth
<1> QED  BY <1>1, <1>2, <1>3, <1>4, <1>5, <1>6, <1>7 DEF May

\* Steps that keep all but what a query disturbs.
LEMMA QuietQueries ==
  /\ Quiet(Both, "state", switchtec_secure_state_get_gen6)
  /\ Quiet(Both, "config", switchtec_security_config_get)
  /\ Quiet(Both, "config", Cmd("config")) /\ Quiet(Both, "config", get_configs)
<1>1. ASSUME NEW x \in {"otp", "state"} PROVE Quiet(Both, "state", Cmd(x))
  <2> SUFFICES ASSUME NEW K, In("state", K) PROVE Keeps(x, K) /\ MayDo(x, K)
    BY QCmd, ErrIn
  <2>1. x \in MfgNames /\ x \notin GuardedNames  BY DEF MfgNames, GuardedNames
  <2>2. NoRes(K) /\ KeepsAuth(x, K) /\ KeepsFw(x, K)  BY DEF In, KeepsAuth, KeepsFw
  <2> QED  BY <2>1, <2>2, KeepsMfg, MayUnguarded, GuardedIs
<1>2. ASSUME NEW x \in {"config", "config_ext", "device_config", "security_settings"}
      PROVE  Quiet(Both, "config", Cmd(x))
  <2> SUFFICES ASSUME NEW K, In("config", K) PROVE Keeps(x, K) /\ MayDo(x, K)
    BY QCmd, ErrIn
  <2>1. x \in MfgNames /\ x \notin GuardedNames  BY DEF MfgNames, GuardedNames
  <2>2. NoRes(K) /\ KeepsAuth(x, K) /\ KeepsFw(x, K)  BY DEF In, KeepsAuth, KeepsFw
  <2> QED  BY <2>1, <2>2, KeepsMfg, MayUnguarded, GuardedIs
<1>3. Quiet(Both, "state", switchtec_secure_state_get_gen6)
  BY <1>1, QNeed, QWhen, QSeq, ErrIn DEF switchtec_secure_state_get_gen6
<1>4. Quiet(Both, "config", get_configs_gen6)
  BY <1>2, QTry, QSeq DEF get_configs_gen6
<1>5. Quiet(Both, "config", Input)  BY QAsk, ErrIn
<1>6. Quiet(Both, "config", get_configs)
  BY <1>2, <1>5, QTry, QNeed, QWhen, QSeq, ErrIn DEF get_configs
<1>7. Quiet(Both, "config", switchtec_security_config_get)
  BY <1>2, <1>4, <1>6, QWhen, QSeq DEF switchtec_security_config_get
<1> QED  BY <1>2, <1>3, <1>6, <1>7

LEMMA MfgRules ==
  /\ \A K, a, L, b, M : Mfg(K, a, L) /\ Mfg(L, b, M) => Mfg(K, a ++ b, M)
  /\ \A K, f, S : Held(K) => Mfg(K, Need(f, S), K)
  /\ \A K, f, S, L : Held(K) /\ Knows(K, f, S, L) => Mfg(K, Need(f, S), L)
  /\ \A K : Held(K) => Mfg(K, Input, K) /\ Mfg(K, Confirm, K \cup {"sure"})
  /\ \A K, f, S, t : Mfg(K, t, K) => Mfg(K, When(f, S, t), K)
  /\ \A K, S, t : Mfg(K, t, K) => Mfg(K, WhenOpt(S, t), K) /\ Mfg(K, UnlessOpt(S, t), K)
  /\ \A K, f, S, t, L : Mfg(K, t, L) /\ Held(L) => Mfg(K, Instead(f, S, t), K)
  /\ \A K, S, t, L : Mfg(K, t, L) /\ Held(L) => Mfg(K, Case(S, t), K)
  /\ \A K, t, L, M : Mfg(K, t, L) /\ M \subseteq L => Mfg(K, t, M)
<1>0. \A K, f, S : Held(K) => GivesUp(K, f, S, Base) /\ Returns(K, "err", Base) /\ Returns(K, "ok", Base)
  BY LessKnown, BaseNoRes DEF Held
<1>1. \A K, a, L, b, M : Mfg(K, a, L) /\ Mfg(L, b, M) => Mfg(K, a ++ b, M)  BY DoesSeq DEF Mfg
<1>2. \A K, f, S, L : Held(K) /\ Knows(K, f, S, L) => Mfg(K, Need(f, S), L)
  BY <1>0, DoesNeed, ErrIn DEF Mfg
<1>3. \A K, f, S : Held(K) => Mfg(K, Need(f, S), K)
  <2>1. \A K, f, S : Knows(K, f, S, K)  BY DEF Knows
  <2> QED  BY <1>2, <2>1
<1>4. ASSUME NEW K, Held(K) PROVE Mfg(K, Input, K) /\ Mfg(K, Confirm, K \cup {"sure"})
  <2>1. Agreed(K, K, 0) /\ Agreed(K, K, 1)  BY <1>4, LessKnown DEF Held
  <2>2. Agreed(K, K \cup {"sure"}, 1)
    <3> SUFFICES ASSUME NEW j, NEW s, Sane(j, s), Has(K, j, s)
                 PROVE  Has(K \cup {"sure"}, [[j EXCEPT !.sure = @ + 1] EXCEPT !.res = "ok"], s)
      BY DEF Agreed
    <3> DEFINE i == [[j EXCEPT !.sure = @ + 1] EXCEPT !.res = "ok"]
    <3>1. Has(K, i, s)  BY <2>1 DEF Agreed
    <3>2. i.sure = j.sure + 1 /\ j.sure \in Nat  BY IdleDomain DEF Sane, JobSane, JobFields
    <3> HIDE DEF i
    <3>3. i.sure >= 1  BY <3>2
    <3>4. {"sure"} \subseteq AuthFacts /\ HasAuth({"sure"}, i, s)  BY <3>3 DEF AuthFacts, HasAuth
    <3>5. Has(K \cup {"sure"}, i, s)  BY <3>1, <3>4, OnlyAuth, HasUnion
    <3> QED  BY <3>5 DEF i
  <2> QED  BY <1>0, <1>4, <2>1, <2>2, DoesInput, DoesConfirm, ErrIn DEF Mfg
<1>5. \A K, f, S, t : Mfg(K, t, K) => Mfg(K, When(f, S, t), K)
  <2>1. \A K, f, S : Knows(K, f, S, K) /\ KnowsNot(K, f, S, K)  BY DEF Knows, KnowsNot
  <2> QED  BY <2>1, DoesWhen DEF Mfg
<1>6. \A K, S, t : Mfg(K, t, K) => Mfg(K, WhenOpt(S, t), K) /\ Mfg(K, UnlessOpt(S, t), K)
  <2>1. \A K, S, b : KnowsOpt(K, S, b, K)  BY DEF KnowsOpt
  <2> QED  BY <2>1, DoesWhenOpt, DoesUnlessOpt DEF Mfg
<1>7. ASSUME NEW K, NEW f, NEW S, NEW t, NEW L, Mfg(K, t, L), Held(L)
      PROVE  Mfg(K, Instead(f, S, t), K) /\ Mfg(K, Case(S, t), K)
  <2>1. Mfg(L, [k |-> "leave"], K)  BY <1>0, <1>7, DoesLeave, ErrIn DEF Mfg
  <2>2. Mfg(K, t ++ [k |-> "leave"], K)  BY <1>1, <1>7, <2>1
  <2> QED  BY <1>5, <1>6, <2>2 DEF Instead, Case
<1>9. \A K, t, L, M : Mfg(K, t, L) /\ M \subseteq L => Mfg(K, t, M)  BY DoesLess DEF Mfg
<1> QED  BY <1>1, <1>2, <1>3, <1>4, <1>5, <1>6, <1>7, <1>9

\* Key and signature are this call's once they are sent; after a command that
\* sets something for good no more is known than after any call.
LEMMA MfgSends ==
  ASSUME NEW K, Held(K)
  PROVE  /\ Mfg(K, Cmd("PUBKEY"), K \cup {"pub"})
         /\ Mfg(K, Cmd("SIGNATURE"), K \cup {"sig"}) /\ Mfg(K, Cmd("SIGNATURE"), K \cup {"dok"})
         /\ \A x \in MfgNames : MayDo(x, K) => Mfg(K, Cmd(x), Base)
<1>1. ASSUME NEW x \in {"PUBKEY", "SIGNATURE"} PROVE Keeps(x, K) /\ MayDo(x, K)
  <2>1. x \in MfgNames /\ x \notin GuardedNames  BY DEF MfgNames, GuardedNames
  <2>2. NoRes(K) /\ KeepsAuth(x, K) /\ KeepsFw(x, K)  BY DEF Held, KeepsAuth, KeepsFw
  <2> QED  BY <2>1, <2>2, KeepsMfg, MayUnguarded, GuardedIs
<1>2. Gains("PUBKEY", K, {"pub"}) /\ Gains("SIGNATURE", K, {"sig"}) /\ Gains("SIGNATURE", K, {"dok"})
  <2>1. ASSUME NEW j, NEW s, NEW e, NEW n, NEW i, EffectFields(e, "PUBKEY", j, s),
               Known(i, "PUBKEY", n, j, e)
        PROVE  Has({"pub"}, i, e)
    <3>1. e.pub = i.id  BY <2>1 DEF EffectFields, Known, Constant
    <3>2. HasAuth({"pub"}, i, e) /\ {"pub"} \subseteq AuthFacts  BY <3>1 DEF HasAuth, Own, AuthFacts
    <3> QED  BY <3>2, OnlyAuth
  <2>2. ASSUME NEW j, NEW s, NEW e, NEW n, NEW i, EffectFields(e, "SIGNATURE", j, s),
               Known(i, "SIGNATURE", n, j, e), NEW g \in {"sig", "dok"}
        PROVE  Has({g}, i, e)
    <3>1. e.sig = i.id  BY <2>2 DEF EffectFields, Known, Constant
    <3>2. HasAuth({g}, i, e) /\ {g} \subseteq AuthFacts  BY <3>1 DEF HasAuth, Own, AuthFacts
    <3> QED  BY <3>2, OnlyAuth
  <2> QED  BY <2>1, <2>2 DEF Gains
<1>3. Does(Both, Base, K, Cmd("PUBKEY"), K \cup {"pub"})
  BY <1>1, <1>2, DoesGain, ErrIn DEF Held
<1>4. /\ Does(Both, Base, K, Cmd("SIGNATURE"), K \cup {"sig"})
      /\ Does(Both, Base, K, Cmd("SIGNATURE"), K \cup {"dok"})
  BY <1>1, <1>2, DoesGain, ErrIn DEF Held
<1>5. ASSUME NEW x \in MfgNames, MayDo(x, K) PROVE Does(Both, Base, K, Cmd(x), Base)
  <2>1. x \notin DOMAIN Opens  BY OpensDomain DEF MfgNames, Keyed, SignedCmds, ForGood
  <2>2. Keeps(x, Base) /\ Base \subseteq K  BY <2>1, KeepsBase DEF Held
  <2> QED  BY <1>5, <2>2, DoesKeep, ErrIn
<1> QED  BY <1>3, <1>4, <1>5 DEF Mfg

\* What is known at first.
MfgFirst == Base \cup {"twice", "told sec", "told kmsk"}
LEMMA MfgRuns ==
  ASSUME NEW c, c \notin Reporting, NEW t, NEW L, Held(L), Mfg(MfgFirst, t, L)
  PROVE  CallRuns(c, t)
<1>1. Early(MfgFirst) /\ Base \subseteq MfgFirst
  BY DEF Early, MfgFirst, Base, Dumps, NoRes
<1>2. Does(Both, Base, MfgFirst, switchtec_open, MfgFirst \cup Told0)  BY <1>1, ToldOpen, ErrIn
<1>3. Does(Both, Base, MfgFirst, switchtec_open, MfgFirst)  BY <1>2, DoesLess
<1>4. Does(Both, Base, MfgFirst, switchtec_open ++ t, L)  BY <1>3, DoesSeq DEF Mfg
<1>5. MfgFirst \subseteq AtFirst(c)  BY DEF MfgFirst, Base, AtFirst
<1> QED  BY <1>4, <1>5, PlainFaces, FinishRuns DEF Held

LEMMA HeldIs == ASSUME NEW S, S \subseteq AuthFacts PROVE Held(Base \cup S)
<1>1. NoRes(S)  BY DEF AuthFacts, NoRes
<1> QED  BY <1>1, BaseNoRes DEF Held, NoRes

LEMMA FwTransferRuns == CallRuns("fw_transfer", fw_transfer)
<1> DEFINE K == MfgFirst
           L == K \cup {"sure"}
<1>1. Held(K) /\ Held(L) /\ Held(Base)
  <2>1. K = Base \cup {"twice", "told sec", "told kmsk"}
        /\ L = Base \cup {"twice", "told sec", "told kmsk", "sure"} /\ Base = Base \cup {}
    BY DEF MfgFirst
  <2>2. \A S : S \subseteq AuthFacts => Held(Base \cup S)  BY HeldIs
  <2> QED  BY <2>1, <2>2 DEF AuthFacts
<1>2. "WRITE" \in MfgNames /\ MayDo("WRITE", L)
  <2>1. "WRITE" \in MfgNames /\ "WRITE" \notin Keyed /\ "WRITE" \notin SignedCmds
    BY DEF MfgNames, Keyed, SignedCmds
  <2>2. {"sure", "twice"} \subseteq L  BY DEF MfgFirst
  <2> HIDE DEF L
  <2> QED  BY <2>1, <2>2, MayMfg
<1>3. Mfg(L, Cmd("WRITE"), Base)  BY <1>1, <1>2, MfgSends
<1>4. Mfg(K, Phases({"BL1"}), K) /\ Mfg(K, Input, K) /\ Mfg(K, Confirm, L)
  BY <1>1, MfgRules DEF Phases
<1> HIDE DEF K, L
<1>5. Mfg(K, fw_transfer, Base)  BY <1>3, <1>4, MfgRules DEF fw_transfer
<1> QED  BY <1>1, <1>5, MfgRuns DEF Reporting, K

\* What a process learns by a test: that the settings of the switch are not final,
\* that no hash is set, that something was asked for.
LEMMA MfgTests ==
  ASSUME NEW K, "told sec" \in K
  PROVE  /\ \A S : S \subseteq Fresh => Knows(K, "sec", S, K \cup {"fresh"})
         /\ \A S : "none" \notin S => Knows(K, "sec", S, K \cup {"some sec"})
         /\ {"some sec", "told kmsk"} \subseteq K => Knows(K, "kmsk", {FALSE}, K \cup {"no kmsk"})
         /\ Knows(K, "saved", {"ok"}, K \cup {"saved"})
<1>1. \A j, s : Has(K, j, s) => HasAuth(K, j, s)  BY DEF Has
<1>2. ASSUME NEW S, S \subseteq Fresh, NEW j, NEW s, Has(K, j, s), j.sec \in S
      PROVE  Has(K \cup {"fresh"}, j, s)
  <2>1. j.sec \in {"none", s.sec} \/ "sec" \in j.met  BY <1>1, <1>2 DEF HasAuth
  <2>2. HasAuth({"fresh"}, j, s) /\ {"fresh"} \subseteq AuthFacts
    BY <1>2, <2>1 DEF HasAuth, Fresh, AuthFacts
  <2> QED  BY <1>2, <2>2, OnlyAuth, HasUnion
<1>3. ASSUME NEW S, "none" \notin S, NEW j, NEW s, Has(K, j, s), j.sec \in S
      PROVE  Has(K \cup {"some sec"}, j, s)
  <2>1. HasAuth({"some sec"}, j, s) /\ {"some sec"} \subseteq AuthFacts
    BY <1>3 DEF HasAuth, AuthFacts
  <2> QED  BY <1>3, <2>1, OnlyAuth, HasUnion
<1>4. ASSUME {"some sec", "told kmsk"} \subseteq K, NEW j, NEW s, Has(K, j, s), j.kmsk \in {FALSE}
      PROVE  Has(K \cup {"no kmsk"}, j, s)
  <2>1. j.sec # "none"  BY <1>1, <1>4 DEF HasAuth
  <2>2. j.sec = "none" \/ j.kmsk = s.kmsk \/ "kmsk" \in j.met  BY <1>1, <1>4 DEF HasAuth
  <2>3. s.kmsk = FALSE \/ "kmsk" \in j.met  BY <1>4, <2>1, <2>2
  <2>4. HasAuth({"no kmsk"}, j, s) /\ {"no kmsk"} \subseteq AuthFacts  BY <2>3 DEF HasAuth, AuthFacts
  <2> QED  BY <1>4, <2>4, OnlyAuth, HasUnion
<1>5. ASSUME NEW j, NEW s, Has(K, j, s), j.saved \in {"ok"}
      PROVE  Has(K \cup {"saved"}, j, s)
  <2>1. HasAuth({"saved"}, j, s) /\ {"saved"} \subseteq AuthFacts
    BY <1>5 DEF HasAuth, AuthFacts
  <2> QED  BY <1>5, <2>1, OnlyAuth, HasUnion
<1> QED  BY <1>2, <1>3, <1>4, <1>5 DEF Knows

\* Settings that were read, or not: nothing that is known hangs on that.
LEMMA SavedSame ==
  ASSUME NEW K, K \cap {"saved", "unsaved", "reported"} = {}
  PROVE  Saves(K, K)
<1> SUFFICES ASSUME NEW j, NEW s, Sane(j, s), Has(K, j, s)
             PROVE  Has(K, [j EXCEPT !.saved = j.res], s)
  BY DEF Saves
<1> DEFINE i == [j EXCEPT !.saved = j.res]
<1>1. \A f \in JobFields \ {"saved"} : i[f] = j[f]  BY DEF Sane, JobSane, JobFields
<1> HIDE DEF i
<1>2. /\ i.cmd = j.cmd /\ i.opt = j.opt /\ i.id = j.id /\ i.gen = j.gen /\ i.phase = j.phase
      /\ i.res = j.res /\ i.sec = j.sec /\ i.left = j.left /\ i.sure = j.sure
      /\ i.status = j.status /\ i.counter = j.counter /\ i.ses = j.ses /\ i.got = j.got
      /\ i.seen = j.seen /\ i.failed = j.failed /\ i.met = j.met /\ i.act0 = j.act0
  BY <1>1, IdleDomain
<1>3. i.kmsk = j.kmsk /\ i.versions = j.versions  BY <1>1, IdleDomain
<1>4. HasAuth(K, i, s)
  <2>1. HasAuth(K, j, s)  BY DEF Has
  <2>2. "twice" \in K => (i.versions = TRUE /\ "newer" \in i.opt => i.sure >= 2)
    BY <1>2, <1>3, <2>1 DEF HasAuth
  <2>3. "told kmsk" \in K => i.sec = "none" \/ i.kmsk = s.kmsk \/ "kmsk" \in i.met
    BY <1>2, <1>3, <2>1 DEF HasAuth
  <2> QED  BY <1>2, <2>1, <2>2, <2>3 DEF HasAuth, Own
<1>5. HasMeasure(K, i, s)  BY <1>2 DEF Has, HasMeasure, Own
<1>6. HasFw(K, i, s)  BY <1>2, ZenonT(40) DEF Has, HasFw, Moved, Unmoved, Other, Restored
<1>7. HasLoop(K, i, s)  BY <1>2 DEF Has, HasLoop, AllOff
<1>8. HasSes(K, i, s)
  <2>1. Dumped(i) <=> Dumped(j)  BY <1>2 DEF Dumped
  <2> QED  BY <1>2, <2>1 DEF Has, HasSes
<1>9. Has(K, i, s)  BY <1>2, <1>4, <1>5, <1>6, <1>7, <1>8 DEF Has
<1> QED  BY <1>9 DEF i

\* The lock of the device and the state of its security.
LEMMA StateRuns == CallRuns("device_lock", device_lock) /\ CallRuns("state_set", state_set)
<1> DEFINE K == Base \cup {"told sec"}
           L == Base \cup {"told sec", "fresh"}
           M == Base \cup {"told sec", "fresh", "sure"}
<1>0. L = K \cup {"fresh"} /\ M = L \cup {"sure"} /\ Base \subseteq K /\ K \subseteq MfgFirst
  BY DEF MfgFirst
<1>1. Held(K) /\ Held(L) /\ Held(M) /\ Held(Base) /\ Held(MfgFirst)
  <2>1. Base = Base \cup {}  OBVIOUS
  <2>2. \A S : S \subseteq AuthFacts => Held(Base \cup S)  BY HeldIs
  <2> QED  BY <2>1, <2>2 DEF AuthFacts, MfgFirst
<1>2. Mfg(K, switchtec_secure_state_get_gen6, K) /\ Mfg(K, switchtec_security_config_get, K)
  <2>1. In("state", K) /\ In("config", K)
    BY <1>1 DEF In, Held, Base, Dumps
  <2> QED  BY <1>0, <2>1, QuietQueries, QuietDoes DEF Mfg
<1>3. \A S : S \subseteq Fresh => Knows(K, "sec", S, L)
  BY <1>0, MfgTests
<1>4. Mfg(K, Need("sec", {"SECURE_CAPABLE"}), L) /\ Mfg(K, Need("sec", {"UNINITIALIZED_UNSECURED"}), L)
  <2>1. {"SECURE_CAPABLE"} \subseteq Fresh /\ {"UNINITIALIZED_UNSECURED"} \subseteq Fresh  BY DEF Fresh
  <2> QED  BY <1>1, <1>3, <2>1, MfgRules
<1>5. \A x \in {"SET_SECURED", "SET_UNSECURED", "DEBUG_PROTECT"} : Mfg(M, Cmd(x), Base)
  <2> SUFFICES ASSUME NEW x \in {"SET_SECURED", "SET_UNSECURED", "DEBUG_PROTECT"} PROVE Mfg(M, Cmd(x), Base)
    OBVIOUS
  <2>1. x \in MfgNames /\ x \notin Keyed \cup SignedCmds  BY DEF MfgNames, ForGood, Keyed, SignedCmds
  <2>2. {"sure", "fresh"} \subseteq M  OBVIOUS
  <2> HIDE DEF M
  <2>3. MayDo(x, M)  BY <2>1, <2>2, MayMfg
  <2> QED  BY <1>1, <2>1, <2>3, MfgSends
<1> HIDE DEF K, L, M
<1>6. \A S : Mfg(K, Phases(S), K) /\ Mfg(K, Need("gen", S), K) /\ Mfg(M, Need("gen", S), M)
  BY <1>1, MfgRules DEF Phases
<1>7. Mfg(K, Input, K) /\ Mfg(K, NotBL2, K) /\ Mfg(L, Confirm, M)
  BY <1>0, <1>1, <1>6, MfgRules DEF NotBL2
<1>8. Mfg(M, secure_state_set, Base)  BY <1>1, <1>5, MfgRules DEF secure_state_set
<1>9. /\ Mfg(M, switchtec_secure_state_set_transition_ex, Base)
      /\ Mfg(M, switchtec_secure_state_set_debug_protect, Base)
  BY <1>5, <1>6, <1>8, MfgRules
     DEF switchtec_secure_state_set_transition_ex, switchtec_secure_state_set_debug_protect
<1>10. Mfg(K, device_lock, Base)
  <2>1. Mfg(K, Need("gen", {6}) ++ NotBL2 ++ switchtec_secure_state_get_gen6, K)
    BY <1>2, <1>6, <1>7, MfgRules
  <2> QED  BY <1>4, <1>7, <1>9, <2>1, MfgRules DEF device_lock
<1>11. Mfg(K, Instead("gen", {6}, switchtec_secure_state_get_gen6 ++ Need("sec", {"SECURE_CAPABLE"})
                             ++ Confirm ++ switchtec_secure_state_set_transition_ex), K)
  BY <1>1, <1>2, <1>4, <1>7, <1>9, MfgRules
<1>12. Mfg(K, state_set, Base)
  BY <1>2, <1>4, <1>7, <1>8, <1>11, MfgRules DEF state_set
<1>13. \A t : Mfg(K, t, Base) => Mfg(MfgFirst, t, Base)  BY <1>0, DoesLess DEF Mfg
<1> QED  BY <1>1, <1>10, <1>12, <1>13, MfgRuns DEF Reporting

\* The settings of the switch, read from a file.
LEMMA ConfigRuns == CallRuns("config_set", config_set)
<1> DEFINE K == Base \cup {"told sec"}
           L == Base \cup {"told sec", "fresh"}
           M == Base \cup {"told sec", "fresh", "sure"}
           N == Base \cup {"told sec", "fresh", "sure", "saved"}
<1>0. L = K \cup {"fresh"} /\ M = L \cup {"sure"} /\ N = M \cup {"saved"} /\ Base \subseteq K
      /\ K \subseteq MfgFirst /\ Base \subseteq M
  BY DEF MfgFirst
<1>1. Held(K) /\ Held(L) /\ Held(M) /\ Held(N) /\ Held(Base)
  <2>1. Base = Base \cup {}  OBVIOUS
  <2>2. \A S : S \subseteq AuthFacts => Held(Base \cup S)  BY HeldIs
  <2> QED  BY <2>1, <2>2 DEF AuthFacts
<1>2. In("config", K) /\ In("config", L) /\ In("config", M)  BY <1>1 DEF In, Held, Base, Dumps
<1>3. Mfg(K, Need("sec", {"UNINITIALIZED_UNSECURED"}), L)
  <2>1. {"UNINITIALIZED_UNSECURED"} \subseteq Fresh /\ "told sec" \in K  BY DEF Fresh
  <2>2. Knows(K, "sec", {"UNINITIALIZED_UNSECURED"}, L)  BY <1>0, <2>1, MfgTests
  <2> QED  BY <1>1, <2>2, MfgRules
<1>4. Mfg(L, SaveResult, L)
  <2>1. L \cap {"saved", "unsaved", "reported"} = {}  BY DEF Base, Dumps
  <2> QED  BY <2>1, SavedSame, DoesSave DEF Mfg
<1>5. Mfg(M, Need("saved", {"ok"}), N)
  <2>1. Knows(M, "saved", {"ok"}, N)  BY <1>0, MfgTests
  <2> QED  BY <1>1, <2>1, MfgRules
<1>6. Mfg(N, Cmd("CONFIG_SET"), M)
  <2>1. "CONFIG_SET" \in MfgNames /\ "CONFIG_SET" \notin Keyed \cup SignedCmds
    BY DEF MfgNames, ForGood, Keyed, SignedCmds
  <2>2. {"sure", "fresh", "saved"} \subseteq N /\ M \subseteq N  OBVIOUS
  <2>3. Keeps("CONFIG_SET", M)
    <3>1. NoRes(M) /\ KeepsAuth("CONFIG_SET", M) /\ KeepsFw("CONFIG_SET", M)
      BY <1>1 DEF Held, KeepsAuth, KeepsFw
    <3> QED  BY <2>1, <3>1, KeepsMfg
  <2> HIDE DEF M, N
  <2>4. MayDo("CONFIG_SET", N)  BY <2>1, <2>2, MayMfg
  <2> QED  BY <1>0, <2>2, <2>3, <2>4, DoesKeep, ErrIn DEF Mfg
<1> HIDE DEF K, L, M, N
<1>14. \A x \in {K, L, M} : \A t : Quiet(Both, "config", t) => Mfg(x, t, x)
  <2> SUFFICES ASSUME NEW x \in {K, L, M}, NEW t, Quiet(Both, "config", t) PROVE Mfg(x, t, x)
    OBVIOUS
  <2>1. Base \subseteq x /\ NoRes(Base)  BY <1>1, BaseNoRes DEF Held
  <2> QED  BY <1>2, <2>1, QuietDoes DEF Mfg
<1>15. /\ Mfg(K, switchtec_security_config_get, K)
       /\ Mfg(L, Cmd("config"), L) /\ Mfg(L, get_configs, L)
       /\ Mfg(M, Cmd("config"), M) /\ Mfg(M, get_configs, M)
  BY <1>14, QuietQueries
<1>7. /\ \A S : Mfg(K, Phases(S), K) /\ Mfg(K, Need("gen", S), K) /\ Mfg(L, Need("gen", S), L)
      /\ Mfg(L, Input, L) /\ Mfg(L, Confirm, M)
  BY <1>0, <1>1, MfgRules DEF Phases
<1>8. Mfg(L, switchtec_read_sec_cfg_file, L)
  <2>1. Mfg(L, When("gen", {4}, get_configs) ++ When("gen", {5}, Cmd("config")), L)
    BY <1>15, MfgRules
  <2>2. Returns(L, "ok", L)  BY <1>1, ReturnsSame DEF Held
  <2>3. Does(Both, L, L, When("gen", {4}, get_configs) ++ When("gen", {5}, Cmd("config")), L)
    <3>2. Quiet(Both, "config", When("gen", {4}, get_configs) ++ When("gen", {5}, Cmd("config")))
      BY QuietQueries, QWhen, QSeq
    <3> QED  BY <1>2, <3>2 DEF Quiet
  <2>4. Mfg(L, Try(When("gen", {4}, get_configs) ++ When("gen", {5}, Cmd("config"))), L)
    BY <2>2, <2>3, DoesTry DEF Mfg
  <2>5. Mfg(L, check_sec_cfg_header, L)  BY <1>7, MfgRules DEF check_sec_cfg_header
  <2>6. Mfg(L, check_sec_cfg_header
                 ++ Try(When("gen", {4}, get_configs) ++ When("gen", {5}, Cmd("config"))), L)
    BY <2>4, <2>5, MfgRules
  <2>7. Mfg(L, When("saved", {"ok"}, Input), L)  BY <1>7, MfgRules
  <2> QED  BY <1>4, <2>6, <2>7, MfgRules DEF switchtec_read_sec_cfg_file
<1>9. Mfg(M, security_config_set_gen5, M) /\ Mfg(M, security_config_set_gen4, M)
  BY <1>15, <1>5, <1>6, MfgRules DEF security_config_set_gen5, security_config_set_gen4
<1>10. Mfg(M, switchtec_security_config_set, M)
  BY <1>9, MfgRules DEF switchtec_security_config_set
<1>11. Mfg(K, config_set, M)
  <2>0. Mfg(K, NotBL2, K)  BY <1>7 DEF NotBL2
  <2>1. Mfg(K, NotBL2 ++ switchtec_security_config_get, K)
    BY <1>15, <2>0, MfgRules
  <2>3. Mfg(K, NotBL2 ++ switchtec_security_config_get
                 ++ Need("sec", {"UNINITIALIZED_UNSECURED"}), L)
    BY <1>3, <2>1, MfgRules
  <2>4. Mfg(L, Input, L)  BY <1>7
  <2>2. Mfg(K, NotBL2 ++ switchtec_security_config_get
                 ++ Need("sec", {"UNINITIALIZED_UNSECURED"}) ++ switchtec_read_sec_cfg_file ++ Input, L)
    BY <1>8, <2>3, <2>4, MfgRules
  <2> QED  BY <1>7, <1>10, <2>2, MfgRules DEF config_set
<1>12. Mfg(MfgFirst, config_set, M)  BY <1>0, <1>11, DoesLess DEF Mfg
<1> QED  BY <1>1, <1>12, MfgRuns DEF Reporting

\* A key hash: key and signature first where the switch is secured.
LEMMA KmskRuns == CallRuns("kmsk_entry_add", kmsk_entry_add)
<1> DEFINE K == Base \cup {"told sec", "told kmsk"}
           L == K \cup {"some sec"}
           M == L \cup {"no kmsk"}
           N == M \cup {"sure"}
           O == N \cup {"auth"}
           P == N \cup {"pub"}
           Q == P \cup {"sig"}
<1>0. Base \subseteq K /\ K \subseteq MfgFirst  BY DEF MfgFirst
<1>1. Held(K) /\ Held(L) /\ Held(M) /\ Held(N) /\ Held(O) /\ Held(P) /\ Held(Q) /\ Held(Base)
  <2>1. /\ Base = Base \cup {} /\ L = Base \cup {"told sec", "told kmsk", "some sec"}
        /\ M = Base \cup {"told sec", "told kmsk", "some sec", "no kmsk"}
        /\ N = Base \cup {"told sec", "told kmsk", "some sec", "no kmsk", "sure"}
        /\ O = Base \cup {"told sec", "told kmsk", "some sec", "no kmsk", "sure", "auth"}
        /\ P = Base \cup {"told sec", "told kmsk", "some sec", "no kmsk", "sure", "pub"}
        /\ Q = Base \cup {"told sec", "told kmsk", "some sec", "no kmsk", "sure", "pub", "sig"}
    OBVIOUS
  <2>2. \A S : S \subseteq AuthFacts => Held(Base \cup S)  BY HeldIs
  <2> QED  BY <2>1, <2>2, ZenonT(40) DEF AuthFacts
<1>2. Mfg(K, switchtec_security_config_get, K)
  <2>1. In("config", K)  BY <1>1 DEF In, Held, Base, Dumps
  <2> QED  BY <1>0, <2>1, QuietQueries, QuietDoes DEF Mfg
<1>3. Mfg(K, Need("sec", {"UNINITIALIZED_UNSECURED", "INITIALIZED_SECURED"}), L)
  <2>1. Knows(K, "sec", {"UNINITIALIZED_UNSECURED", "INITIALIZED_SECURED"}, L)  BY MfgTests
  <2> QED  BY <1>1, <2>1, MfgRules
<1>4. Mfg(L, Need("kmsk", {FALSE}), M)
  <2>1. Knows(L, "kmsk", {FALSE}, M)  BY MfgTests
  <2> QED  BY <1>1, <2>1, MfgRules
<1>5. Mfg(N, Cmd("PUBKEY"), P) /\ Mfg(P, Cmd("SIGNATURE"), Q)  BY <1>1, MfgSends
<1>6. Entails(Q, O)
  <2> SUFFICES ASSUME NEW j, NEW s, Has(Q, j, s) PROVE Has(O, j, s)  BY DEF Entails
  <2>2. {"pub", "sig"} \subseteq Q /\ N \subseteq Q  OBVIOUS
  <2> HIDE DEF Q, N
  <2>4. HasAuth(Q, j, s)  BY DEF Has
  <2>1. Has(N, j, s) /\ HasAuth(Q, j, s)  BY <2>2, <2>4, LessHas
  <2>3. HasAuth({"auth"}, j, s) /\ {"auth"} \subseteq AuthFacts  BY <2>1, <2>2 DEF HasAuth, AuthFacts
  <2> QED  BY <2>1, <2>3, OnlyAuth, HasUnion
<1>7. KnowsNot(N, "sec", {"INITIALIZED_SECURED"}, O)
  <2> SUFFICES ASSUME NEW j, NEW s, Has(N, j, s), j.sec # "INITIALIZED_SECURED" PROVE Has(O, j, s)
    BY DEF KnowsNot
  <2>1. HasAuth({"auth"}, j, s) /\ {"auth"} \subseteq AuthFacts  BY DEF HasAuth, AuthFacts
  <2> QED  BY <2>1, OnlyAuth, HasUnion
<1>8. Mfg(O, Cmd("KMSK"), Base)
  <2>1. "KMSK" \in MfgNames /\ "KMSK" \notin Keyed \cup SignedCmds
    BY DEF MfgNames, ForGood, Keyed, SignedCmds
  <2>2. {"sure", "no kmsk", "auth"} \subseteq O  OBVIOUS
  <2> HIDE DEF O
  <2>3. MayDo("KMSK", O)  BY <2>1, <2>2, MayMfg
  <2> QED  BY <1>1, <2>1, <2>3, MfgSends
<1> HIDE DEF K, L, M, N, O, P, Q
<1>9. Mfg(N, When("sec", {"INITIALIZED_SECURED"}, Cmd("PUBKEY") ++ Cmd("SIGNATURE")), O)
  <2>1. Mfg(N, Cmd("PUBKEY") ++ Cmd("SIGNATURE"), Q)  BY <1>5, MfgRules
  <2>2. Mfg(N, Cmd("PUBKEY") ++ Cmd("SIGNATURE"), O)
    BY <1>6, <2>1, DoesWeaker, EntailsItself DEF Mfg
  <2>3. Knows(N, "sec", {"INITIALIZED_SECURED"}, N)  BY DEF Knows
  <2> QED  BY <1>7, <2>2, <2>3, DoesWhen DEF Mfg
<1>10. Mfg(N, switchtec_kmsk_set, Base)  BY <1>8, <1>9, MfgRules DEF switchtec_kmsk_set
<1>11. /\ \A S : Mfg(K, Phases(S), K) /\ Mfg(K, Need("gen", S), K)
       /\ Mfg(K, Input, K) /\ Mfg(L, Input, L) /\ Mfg(M, Input, M) /\ Mfg(M, Confirm, N)
  BY <1>1, MfgRules DEF Phases, N
<1>12. Mfg(K, kmsk_entry_add, Base)
  <2>0. Mfg(K, Need("gen", {3, 4, 5}), K) /\ Mfg(K, NotBL2, K) /\ Mfg(K, Input, K)  BY <1>11 DEF NotBL2
  <2>1. Mfg(K, Need("gen", {3, 4, 5}) ++ Input ++ NotBL2 ++ switchtec_security_config_get, K)
    BY <1>2, <2>0, MfgRules
  <2>2. Mfg(K, Need("gen", {3, 4, 5}) ++ Input ++ NotBL2 ++ switchtec_security_config_get
                 ++ Need("sec", {"UNINITIALIZED_UNSECURED", "INITIALIZED_SECURED"}), L)
    BY <1>3, <2>1, MfgRules
  <2>3. Mfg(L, Input, L) /\ Mfg(M, Input, M)  BY <1>11
  <2>4. Mfg(K, Need("gen", {3, 4, 5}) ++ Input ++ NotBL2 ++ switchtec_security_config_get
                 ++ Need("sec", {"UNINITIALIZED_UNSECURED", "INITIALIZED_SECURED"})
                 ++ Input ++ Need("kmsk", {FALSE}), M)
    BY <1>4, <2>2, <2>3, MfgRules
  <2>5. Mfg(K, Need("gen", {3, 4, 5}) ++ Input ++ NotBL2 ++ switchtec_security_config_get
                 ++ Need("sec", {"UNINITIALIZED_UNSECURED", "INITIALIZED_SECURED"})
                 ++ Input ++ Need("kmsk", {FALSE}) ++ Input, M)
    BY <2>3, <2>4, MfgRules
  <2>6. Mfg(M, Confirm, N)  BY <1>11
  <2> QED  BY <1>10, <2>5, <2>6, MfgRules DEF kmsk_entry_add
<1>13. Mfg(MfgFirst, kmsk_entry_add, Base)  BY <1>0, <1>12, DoesLess DEF Mfg
<1> QED  BY <1>1, <1>13, MfgRuns DEF Reporting

\* Key, then signature, then the command that is done only for both; where the
\* command needs no signature, it may follow the key.
LEMMA KeyedSends ==
  ASSUME NEW K, Held(K), NEW x \in Keyed, x \in ForGood => "sure" \in K
  PROVE  /\ Held(K \cup {"pub"}) /\ Mfg(K, Cmd("PUBKEY"), K \cup {"pub"})
         /\ Mfg(K \cup {"pub"}, Cmd("SIGNATURE"), K \cup {"pub", "sig"})
         /\ Mfg(K \cup {"pub", "sig"}, Cmd(x), Base)
         /\ x \notin SignedCmds => Mfg(K \cup {"pub"}, Cmd(x), Base)
<1> DEFINE P == K \cup {"pub"}
           Q == K \cup {"pub", "sig"}
<1>1. Held(P) /\ Held(Q) /\ Q = P \cup {"sig"}  BY DEF Held, NoRes
<1>2. K \subseteq P /\ K \subseteq Q /\ "pub" \in P /\ {"pub", "sig"} \subseteq Q  OBVIOUS
<1>3. /\ x \in MfgNames /\ x # "WRITE" /\ x # "KMSK" /\ x # "CONFIG_SET"
      /\ x \notin {"DOK_KEY_ADD", "DOK_KEY_REVOKE"}
      /\ x \notin {"SET_SECURED", "SET_UNSECURED", "DEBUG_PROTECT", "CONFIG_SET"}
  BY DEF MfgNames, Keyed
<1>4. Mfg(K, Cmd("PUBKEY"), P)  BY MfgSends
<1> HIDE DEF P, Q
<1>5. Mfg(P, Cmd("SIGNATURE"), Q)  BY <1>1, MfgSends
<1>6. MayDo(x, Q)  BY <1>2, <1>3, MayMfg
<1>7. x \notin SignedCmds => MayDo(x, P)  BY <1>2, <1>3, MayMfg
<1>8. Mfg(Q, Cmd(x), Base)  BY <1>1, <1>3, <1>6, MfgSends
<1>9. x \notin SignedCmds => Mfg(P, Cmd(x), Base)  BY <1>1, <1>3, <1>7, MfgSends
<1> QED  BY <1>1, <1>4, <1>5, <1>8, <1>9 DEF P, Q

\* The lock of the debug port, and of its token.
LEMMA UnlockRuns ==
  /\ CallRuns("debug_unlock", debug_unlock)
  /\ CallRuns("debug_lock_update", debug_lock_update)
  /\ CallRuns("debug_static_token_disable", debug_static_token_disable)
<1> DEFINE K == Base \cup {"sure"}
           P == Base \cup {"pub"}
           Q == Base \cup {"pub", "sig"}
           L == K \cup {"pub"}
           M == K \cup {"pub", "sig"}
<1>1. Held(Base) /\ Held(K)
  <2>1. Base = Base \cup {}  OBVIOUS
  <2>2. \A S : S \subseteq AuthFacts => Held(Base \cup S)  BY HeldIs
  <2> QED  BY <2>1, <2>2 DEF AuthFacts
<1>2. "sure" \in K  OBVIOUS
<1>3. "UNLOCK_STATIC" \in Keyed \ ForGood /\ "UNLOCK_DATA" \in Keyed \ (ForGood \cup SignedCmds)
  BY DEF Keyed, ForGood, SignedCmds
<1>4. /\ Held(P) /\ Mfg(Base, Cmd("PUBKEY"), P) /\ Mfg(P, Cmd("SIGNATURE"), Q)
      /\ Mfg(Q, Cmd("UNLOCK_STATIC"), Base)
  BY <1>1, <1>3, KeyedSends
<1>5. Mfg(P, Cmd("UNLOCK_DATA"), Base)  BY <1>1, <1>3, KeyedSends
<1>6. Mfg(Base, Input, Base)  BY <1>1, MfgRules
<1>7. Mfg(Base, Need("gen", {6}), Base)  BY <1>1, MfgRules
<1>8. Mfg(Base, Confirm, K)  BY <1>1, MfgRules
<1> HIDE DEF K
<1>9. "SEC_VER_UPDATE" \in Keyed /\ "STATIC_DISABLE" \in Keyed
      /\ "UNLOCK_UPDATE" \in Keyed \ SignedCmds
  BY DEF Keyed, SignedCmds
<1>10. /\ Held(L) /\ Mfg(K, Cmd("PUBKEY"), L) /\ Mfg(L, Cmd("SIGNATURE"), M)
       /\ Mfg(M, Cmd("SEC_VER_UPDATE"), Base)
  BY <1>1, <1>2, <1>9, KeyedSends
<1>11. Mfg(M, Cmd("STATIC_DISABLE"), Base)  BY <1>1, <1>2, <1>9, KeyedSends
<1>12. Mfg(L, Cmd("UNLOCK_UPDATE"), Base)  BY <1>1, <1>2, <1>9, KeyedSends
<1> HIDE DEF L, M, P, Q
<1>13. Mfg(K, Need("gen", {6}), K) /\ Mfg(K, Input, K)  BY <1>1, MfgRules
<1>14. Mfg(Base, switchtec_dbg_unlock, Base)
  <2>1. Mfg(Base, dbg_unlock_send_pubkey_gen6 ++ dbg_unlock_send_sig_gen6 ++ Cmd("UNLOCK_STATIC"), Base)
    BY <1>4, MfgRules DEF dbg_unlock_send_pubkey_gen6, dbg_unlock_send_sig_gen6
  <2>2. Mfg(Base, Instead("gen", {6}, dbg_unlock_send_pubkey_gen6 ++ dbg_unlock_send_sig_gen6
                                      ++ Cmd("UNLOCK_STATIC")), Base)
    BY <1>1, <2>1, MfgRules
  <2> QED  BY <1>4, <1>5, <2>2, MfgRules DEF switchtec_dbg_unlock, dbg_unlock_send_pubkey
<1>15. Mfg(Base, debug_unlock, Base)  BY <1>6, <1>14, MfgRules DEF debug_unlock
<1>16. Mfg(K, switchtec_dbg_sec_ver_update_gen6, Base)
  <2>1. Mfg(K, Need("gen", {6}) ++ Cmd("PUBKEY"), L)  BY <1>10, <1>13, MfgRules
  <2> QED
    BY <1>10, <2>1, MfgRules
       DEF switchtec_dbg_sec_ver_update_gen6, dbg_unlock_send_pubkey_gen6, dbg_unlock_send_sig_gen6
<1>17. Mfg(K, switchtec_dbg_unlock_version_update, Base)
  BY <1>10, <1>12, MfgRules DEF switchtec_dbg_unlock_version_update, dbg_unlock_send_pubkey
<1>18. Mfg(Base, debug_lock_update, Base)
  <2>1. Mfg(K, Instead("gen", {6}, switchtec_dbg_sec_ver_update_gen6), K)
    BY <1>1, <1>16, MfgRules
  <2>2. Mfg(Base, Input ++ Confirm, K)  BY <1>6, <1>8, MfgRules
  <2> QED  BY <1>17, <2>1, <2>2, MfgRules DEF debug_lock_update
<1>19. Mfg(K, switchtec_dbg_sec_static_disable_gen6, Base)
  <2>1. Mfg(K, Need("gen", {6}) ++ Input ++ Cmd("PUBKEY"), L)  BY <1>10, <1>13, MfgRules
  <2> QED
    BY <1>10, <1>11, <2>1, MfgRules
       DEF switchtec_dbg_sec_static_disable_gen6, dbg_unlock_send_pubkey_gen6, dbg_unlock_send_sig_gen6
<1>20. Mfg(Base, debug_static_token_disable, Base)
  BY <1>6, <1>7, <1>8, <1>19, MfgRules DEF debug_static_token_disable
<1>21. \A t : Mfg(Base, t, Base) => Mfg(MfgFirst, t, Base)
  <2>1. Base \subseteq MfgFirst  BY DEF MfgFirst
  <2> QED  BY <2>1, DoesLess DEF Mfg
<1> QED  BY <1>1, <1>15, <1>18, <1>20, <1>21, MfgRuns DEF Reporting

\* The settings of a Gen6 switch, and its keys: with a signature if one is given.
LEMMA SettingsRuns ==
  /\ CallRuns("device_config_set_device", device_config_set_device)
  /\ CallRuns("device_config_set_customer", device_config_set_customer)
  /\ CallRuns("device_config_set_security", device_config_set_security)
  /\ CallRuns("dok_key_add", dok_key_add) /\ CallRuns("dok_key_revoke", dok_key_revoke)
<1> DEFINE K == Base \cup {"sure"}
           L == Base \cup {"sure", "dok"}
<1>1. Held(Base) /\ Held(K) /\ Held(L) /\ L = K \cup {"dok"}
  <2>1. Base = Base \cup {}  OBVIOUS
  <2>2. \A S : S \subseteq AuthFacts => Held(Base \cup S)  BY HeldIs
  <2> QED  BY <2>1, <2>2 DEF AuthFacts
<1>2. "sure" \in K /\ {"sure", "dok"} \subseteq L  OBVIOUS
<1>3. Mfg(Base, Input, Base) /\ Mfg(Base, Need("gen", {6}), Base) /\ Mfg(Base, Confirm, K)
  BY <1>1, MfgRules
<1> HIDE DEF K, L
<1>4. \A x \in {"DEV_SETTINGS", "CUSTOMER_SETTINGS", "SECURITY_SETTINGS"} : Mfg(K, Cmd(x), Base)
  <2> SUFFICES ASSUME NEW x \in {"DEV_SETTINGS", "CUSTOMER_SETTINGS", "SECURITY_SETTINGS"}
               PROVE  Mfg(K, Cmd(x), Base)
    OBVIOUS
  <2>1. x \in MfgNames /\ x \notin Keyed \cup SignedCmds  BY DEF MfgNames, ForGood, Keyed, SignedCmds
  <2>2. MayDo(x, K)  BY <1>2, <2>1, MayMfg
  <2> QED  BY <1>1, <2>1, <2>2, MfgSends
<1>5. \A x \in {"DOK_KEY_ADD", "DOK_KEY_REVOKE"} : Mfg(L, Cmd(x), Base)
  <2> SUFFICES ASSUME NEW x \in {"DOK_KEY_ADD", "DOK_KEY_REVOKE"} PROVE Mfg(L, Cmd(x), Base)
    OBVIOUS
  <2>1. x \in MfgNames /\ x \notin Keyed \cup SignedCmds  BY DEF MfgNames, ForGood, Keyed, SignedCmds
  <2>2. MayDo(x, L)  BY <1>2, <2>1, MayMfg
  <2> QED  BY <1>1, <2>1, <2>2, MfgSends
<1>6. Mfg(K, dok_signature, L)
  <2>1. Mfg(K, Input, K) /\ Mfg(K, Cmd("SIGNATURE"), L)  BY <1>1, MfgRules, MfgSends
  <2>2. Mfg(K, Input ++ Cmd("SIGNATURE"), L)  BY <2>1, MfgRules
  <2>3. KnowsOpt(K, {"signature"}, TRUE, K)  BY DEF KnowsOpt
  <2>4. KnowsOpt(K, {"signature"}, FALSE, L)
    <3> SUFFICES ASSUME NEW j, NEW s, Has(K, j, s), "signature" \notin j.opt PROVE Has(L, j, s)
      BY DEF KnowsOpt
    <3>1. HasAuth({"dok"}, j, s) /\ {"dok"} \subseteq AuthFacts  BY DEF HasAuth, AuthFacts
    <3> QED  BY <1>1, <3>1, OnlyAuth, HasUnion
  <2> QED  BY <2>2, <2>3, <2>4, DoesWhenOpt DEF Mfg, dok_signature, switchtec_dok_config_signature
<1>7. Mfg(Base, Need("gen", {6}) ++ Input ++ Confirm, K)  BY <1>3, MfgRules
<1>8. /\ Mfg(Base, device_config_set_device, Base) /\ Mfg(Base, device_config_set_customer, Base)
      /\ Mfg(Base, device_config_set_security, Base)
  BY <1>4, <1>7, MfgRules
     DEF device_config_set_device, device_config_set_customer, device_config_set_security,
         switchtec_device_config_set_dev, switchtec_device_config_set_customer,
         switchtec_device_config_set_security
<1>9. Mfg(Base, Need("gen", {6}) ++ Input ++ Confirm ++ dok_signature, L)  BY <1>6, <1>7, MfgRules
<1>10. Mfg(Base, dok_key_add, Base) /\ Mfg(Base, dok_key_revoke, Base)
  BY <1>5, <1>9, MfgRules DEF dok_key_add, dok_key_revoke
<1>11. \A t : Mfg(Base, t, Base) => Mfg(MfgFirst, t, Base)
  <2>1. Base \subseteq MfgFirst  BY DEF MfgFirst
  <2> QED  BY <2>1, DoesLess DEF Mfg
<1> QED  BY <1>1, <1>8, <1>10, <1>11, MfgRuns DEF Reporting

-----------------------------------------------------------------------------
(* The commands that measure, and the free counter.                            *)

\* A way through steps: what is known before all of them is known where they fail.
LEMMA CallRules ==
  ASSUME NEW R, "err" \in R, NEW F, NoRes(F)
  PROVE  /\ \A K, a, L, b, M : Does(R, F, K, a, L) /\ Does(R, F, L, b, M) => Does(R, F, K, a ++ b, M)
         /\ \A K, f, S : F \subseteq K => Does(R, F, K, Need(f, S), K)
         /\ \A K, f, S, L : F \subseteq K /\ Knows(K, f, S, L) => Does(R, F, K, Need(f, S), L)
         /\ \A K : F \subseteq K /\ NoRes(K) => Does(R, F, K, Input, K) /\ Does(R, F, K, Confirm, K)
         /\ \A K, f, S, t : Does(R, F, K, t, K) => Does(R, F, K, When(f, S, t), K)
         /\ \A K, S, t : Does(R, F, K, t, K) =>
              Does(R, F, K, WhenOpt(S, t), K) /\ Does(R, F, K, UnlessOpt(S, t), K)
         /\ \A K, t, L, M : Does(R, F, K, t, L) /\ M \subseteq L => Does(R, F, K, t, M)
<1>1. \A K, a, L, b, M : Does(R, F, K, a, L) /\ Does(R, F, L, b, M) => Does(R, F, K, a ++ b, M)
  BY DoesSeq
<1>2. \A K, f, S : F \subseteq K => GivesUp(K, f, S, F) /\ Returns(K, "err", F)  BY LessKnown
<1>3. \A K, f, S, L : F \subseteq K /\ Knows(K, f, S, L) => Does(R, F, K, Need(f, S), L)
  BY <1>2, DoesNeed
<1>4. \A K, f, S : Knows(K, f, S, K) /\ KnowsNot(K, f, S, K)  BY DEF Knows, KnowsNot
<1>5. \A K, f, S : F \subseteq K => Does(R, F, K, Need(f, S), K)  BY <1>3, <1>4
<1>6. ASSUME NEW K, F \subseteq K, NoRes(K)
      PROVE  Does(R, F, K, Input, K) /\ Does(R, F, K, Confirm, K)
  <2>1. Agreed(K, K, 0) /\ Agreed(K, K, 1)  BY <1>6, LessKnown
  <2> QED  BY <1>2, <1>6, <2>1, DoesInput, DoesConfirm
<1>7. \A K, f, S, t : Does(R, F, K, t, K) => Does(R, F, K, When(f, S, t), K)  BY <1>4, DoesWhen
<1>8. \A K, S, t : Does(R, F, K, t, K) =>
        Does(R, F, K, WhenOpt(S, t), K) /\ Does(R, F, K, UnlessOpt(S, t), K)
  <2>1. \A K, S, b : KnowsOpt(K, S, b, K)  BY DEF KnowsOpt
  <2> QED  BY <2>1, DoesWhenOpt, DoesUnlessOpt
<1>9. \A K, t, L, M : Does(R, F, K, t, L) /\ M \subseteq L => Does(R, F, K, t, M)  BY DoesLess
<1> QED  BY <1>1, <1>3, <1>5, <1>6, <1>7, <1>8, <1>9

\* What the commands of the performance monitor keep.
PmonNames == {"LAT_SETUP", "LAT_GET", "BW_SET", "BW_GET", "EVCNTR_GET", "EVCNTR_SETUP", "port_status"}
LEMMA KeepsPmon ==
  ASSUME NEW x \in PmonNames, NEW K, NoRes(K), KeepsMeasure(x, K)
  PROVE  Keeps(x, K)
<1>1. x \notin DOMAIN Opens \cup DOMAIN Closes  BY OpensDomain, ClosesDomain DEF PmonNames
<1>2. x \notin Stirs  BY DEF PmonNames, Stirs, Reads, Firsts, Counts, Queues, Polls
<1>3. x \notin LoopFacts  BY DEF PmonNames, LoopFacts
<1>4. x # "RESET" /\ x # "dev_info"  BY DEF PmonNames
<1>5. KeepsSes(x, K)  BY <1>1, <1>2, <1>4 DEF KeepsSes
<1>6. KeepsLoop(x, K)
  <2>1. \A m \in Modes : x # m.on  BY <1>3, OnNames
  <2> QED  BY <1>4, <2>1 DEF KeepsLoop
<1>7. KeepsAuth(x, K)  BY DEF KeepsAuth, PmonNames
<1>8. KeepsFw(x, K)  BY DEF KeepsFw, PmonNames
<1> QED  BY <1>4, <1>5, <1>6, <1>7, <1>8 DEF Keeps

LEMMA MayPmon == ASSUME NEW x \in PmonNames, x # "EVCNTR_SETUP", NEW K PROVE MayDo(x, K)
<1>1. x \notin GuardedNames  BY DEF PmonNames, GuardedNames
<1> QED  BY <1>1, GuardedIs, MayUnguarded

\* What a measurement leaves of what is known: whose setup it was.
LEMMA MeasureGains ==
  /\ \A K : Gains("LAT_SETUP", K, {"lat set"}) /\ Gains("BW_SET", K, {"bw set"})
  /\ \A K : "lat set" \in K /\ K \cap {"unseen", "lat seen"} # {} => Gains("LAT_GET", K, {"lat seen"})
  /\ \A K : "bw set" \in K /\ K \cap {"unseen", "bw seen"} # {} => Gains("BW_GET", K, {"bw seen"})
  /\ \A K : Leaves("BW_SET", K, {"bw res"})
  /\ \A K : Gains("EVCNTR_GET", K, {"told counter"})
<1>0. {"lat set"} \subseteq MeasureFacts /\ {"bw set"} \subseteq MeasureFacts
      /\ {"lat seen"} \subseteq MeasureFacts /\ {"bw seen"} \subseteq MeasureFacts
      /\ {"bw res"} \subseteq MeasureFacts /\ {"told counter"} \subseteq MeasureFacts
  BY DEF MeasureFacts
<1>1. ASSUME NEW j, NEW s, NEW e, NEW n, NEW i, EffectFields(e, "LAT_SETUP", j, s),
             Known(i, "LAT_SETUP", n, j, e)
      PROVE  Has({"lat set"}, i, e)
  <2>1. e.lat = i.id  BY <1>1 DEF EffectFields, Known, Constant
  <2>2. HasMeasure({"lat set"}, i, e)  BY <2>1 DEF HasMeasure, Own
  <2> QED  BY <1>0, <2>2, OnlyMeasure
<1>2. ASSUME NEW j, NEW s, NEW e, NEW n, NEW i, EffectFields(e, "BW_SET", j, s),
             Known(i, "BW_SET", n, j, e)
      PROVE  Has({"bw set"}, i, e)
  <2>1. e.bw = i.id  BY <1>2 DEF EffectFields, Known, Constant
  <2>2. HasMeasure({"bw set"}, i, e)  BY <2>1 DEF HasMeasure, Own
  <2> QED  BY <1>0, <2>2, OnlyMeasure
<1>3. ASSUME NEW K, "lat set" \in K, K \cap {"unseen", "lat seen"} # {}, NEW j, NEW s, NEW e, NEW n,
             NEW i, Has(K, j, s), EffectFields(e, "LAT_GET", j, s), Known(i, "LAT_GET", n, j, e)
      PROVE  Has({"lat seen"}, i, e)
  <2>1. e.lat = s.lat  BY <1>3 DEF EffectFields
  <2>2. i.seen = j.seen \cup {e.lat} /\ i.id = j.id /\ i.met = j.met  BY <1>3 DEF Known, Constant
  <2>3. HasMeasure(K, j, s)  BY <1>3 DEF Has
  <2>4. Own("lat", j, s) /\ (j.seen = {} \/ j.seen = {j.id} \/ "lat" \in j.met)
    BY <1>3, <2>3 DEF HasMeasure
  <2>5. i.seen = {i.id} \/ "lat" \in i.met  BY <2>1, <2>2, <2>4 DEF Own
  <2>6. HasMeasure({"lat seen"}, i, e)  BY <2>5 DEF HasMeasure
  <2> QED  BY <1>0, <2>6, OnlyMeasure
<1>4. ASSUME NEW K, "bw set" \in K, K \cap {"unseen", "bw seen"} # {}, NEW j, NEW s, NEW e, NEW n,
             NEW i, Has(K, j, s), EffectFields(e, "BW_GET", j, s), Known(i, "BW_GET", n, j, e)
      PROVE  Has({"bw seen"}, i, e)
  <2>1. e.bw = s.bw  BY <1>4 DEF EffectFields
  <2>2. i.seen = j.seen \cup {e.bw} /\ i.id = j.id /\ i.met = j.met /\ i.failed = j.failed
    BY <1>4 DEF Known, Constant
  <2>3. HasMeasure(K, j, s)  BY <1>4 DEF Has
  <2>4. /\ Own("bw", j, s) \/ "BW_SET" \in j.failed
        /\ j.seen = {} \/ j.seen = {j.id} \/ "bw" \in j.met \/ "BW_SET" \in j.failed
    BY <1>4, <2>3 DEF HasMeasure
  <2>5. i.seen = {i.id} \/ "bw" \in i.met \/ "BW_SET" \in i.failed  BY <2>1, <2>2, <2>4 DEF Own
  <2>6. HasMeasure({"bw seen"}, i, e)  BY <2>5 DEF HasMeasure
  <2> QED  BY <1>0, <2>6, OnlyMeasure
<1>5. ASSUME NEW j, NEW y, NEW i, Failing(i, "BW_SET", j) PROVE Has({"bw res"}, i, y)
  <2>1. "BW_SET" \in i.failed  BY <1>5 DEF Failing
  <2>2. HasMeasure({"bw res"}, i, y)  BY <2>1 DEF HasMeasure
  <2> QED  BY <1>0, <2>2, OnlyMeasure
<1>6. ASSUME NEW j, NEW e, NEW n, NEW i, Known(i, "EVCNTR_GET", n, j, e)
      PROVE  Has({"told counter"}, i, e)
  <2>1. i.counter = e.counter  BY <1>6 DEF Known
  <2>2. HasMeasure({"told counter"}, i, e)  BY <2>1 DEF HasMeasure
  <2> QED  BY <1>0, <2>2, OnlyMeasure
<1> QED  BY <1>1, <1>2, <1>3, <1>4, <1>5, <1>6, ZenonT(40) DEF Gains, Leaves

\* What a call of a command that reports something needs at its end.
LEMMA ReportFaces ==
  ASSUME NEW K, NEW c \in Reporting, c \in K
  PROVE  /\ (c = "fw_toggle" => "reported" \in K) /\ (c = "fw_update" => "restored if written" \in K)
            => Faces(Err, K)
         /\ /\ "no session" \in K /\ Dumps \subseteq K
            /\ c = "latency" => "lat seen" \in K
            /\ c = "bw" => "bw seen" \in K
            /\ c = "loopback" => "off" \in K
            /\ c = "fw_toggle" => "reported" \in K
            /\ c = "fw_update" => "restored" \in K
            => Faces({"ok"}, K)
<1>1. ASSUME NEW j, NEW s, Sane(j, s), Has(K, j, s)
      PROVE  LET i == [j EXCEPT !.ret = Verdict(j.res)]
             IN  /\ i.ret = Verdict(j.res) /\ i.cmd = c /\ i.id = j.id /\ i.seen = j.seen /\ i.met = j.met
                 /\ i.ses = j.ses /\ i.got = j.got /\ i.failed = j.failed /\ i.opt = j.opt /\ i.saved = j.saved
                 /\ i.act0 = j.act0 /\ i.gen = j.gen /\ i.phase = j.phase
  <2>1. j.cmd = c  BY <1>1 DEF Has
  <2> QED  BY <1>1, <2>1, IdleDomain DEF Sane, JobSane, JobFields
<1>2. ASSUME c = "fw_toggle" => "reported" \in K, c = "fw_update" => "restored if written" \in K,
             NEW j, NEW s, Verdict(j.res) = "err", Sane(j, s), Has(K, j, s)
      PROVE  Fin([j EXCEPT !.ret = Verdict(j.res)], s)
  <2> DEFINE i == [j EXCEPT !.ret = Verdict(j.res)]
  <2>1. /\ i.ret = "err" /\ i.cmd = c /\ i.met = j.met /\ i.failed = j.failed /\ i.opt = j.opt
        /\ i.saved = j.saved /\ i.act0 = j.act0 /\ i.gen = j.gen /\ i.phase = j.phase
    BY <1>1, <1>2
  <2> HIDE DEF i
  <2>2. HasFw(K, j, s)  BY <1>2 DEF Has
  <2>3. c = "fw_toggle" => (i.saved = "ok" => Moved(i, s)) /\ (i.saved = "mrpc" => Unmoved(i, s))
    BY <1>2, <2>1, <2>2 DEF HasFw, Moved, Unmoved, Other
  <2>4. c = "fw_update" /\ "WRITE" \in i.failed => Restored(i, s)
    BY <1>2, <2>1, <2>2 DEF HasFw, Restored
  <2>5. Fin(i, s)  BY <2>1, <2>3, <2>4 DEF Fin
  <2> QED  BY <2>5 DEF i
<1>3. ASSUME "no session" \in K, Dumps \subseteq K, c = "latency" => "lat seen" \in K,
             c = "bw" => "bw seen" \in K, c = "loopback" => "off" \in K, c = "fw_toggle" => "reported" \in K,
             c = "fw_update" => "restored" \in K,
             NEW j, NEW s, Verdict(j.res) = "ok", Sane(j, s), Has(K, j, s)
      PROVE  Fin([j EXCEPT !.ret = Verdict(j.res)], s)
  <2> DEFINE i == [j EXCEPT !.ret = Verdict(j.res)]
  <2>1. /\ i.ret = "ok" /\ i.cmd = c /\ i.met = j.met /\ i.failed = j.failed /\ i.opt = j.opt
        /\ i.saved = j.saved /\ i.act0 = j.act0 /\ i.gen = j.gen /\ i.phase = j.phase
        /\ i.id = j.id /\ i.seen = j.seen /\ i.ses = j.ses /\ i.got = j.got
    BY <1>1, <1>3
  <2> HIDE DEF i
  <2>2. HasMeasure(K, j, s) /\ HasFw(K, j, s) /\ HasLoop(K, j, s) /\ HasSes(K, j, s)  BY <1>3 DEF Has
  <2>3. c = "fw_toggle" => (i.saved = "ok" => Moved(i, s)) /\ (i.saved = "mrpc" => Unmoved(i, s))
    BY <1>3, <2>1, <2>2 DEF HasFw, Moved, Unmoved, Other
  <2>4. c = "fw_update" => Restored(i, s)  BY <1>3, <2>1, <2>2 DEF HasFw, Restored
  <2>5. c = "latency" => i.seen = {i.id} \/ "lat" \in i.met
    BY <1>3, <2>1, <2>2 DEF HasMeasure
  <2>6. c = "bw" => i.seen = {i.id} \/ "bw" \in i.met \/ "BW_SET" \in i.failed
    BY <1>3, <2>1, <2>2 DEF HasMeasure
  <2>7. c = "loopback" => AllOff(i, s)  BY <1>3, <2>1, <2>2 DEF HasLoop, AllOff
  <2>8. i.ses = "none" /\ \A f \in Dumps : s[f] # i.id  BY <1>3, <2>1, <2>2 DEF HasSes
  <2>9. Fin(i, s)  BY <2>1, <2>3, <2>4, <2>5, <2>6, <2>7, <2>8 DEF Fin, Dumped
  <2> QED  BY <2>9 DEF i
<1> QED  BY <1>2, <1>3 DEF Faces, Err

\* The latency that is shown is that measured since the setup.
LEMMA LatencyRuns == CallRuns("latency", latency)
<1> DEFINE F == {"latency"}
           D == {"latency", "no session"} \cup Dumps
           K == D \cup {"unseen"}
           L == D \cup {"unseen", "lat set"}
           M == D \cup {"lat set"}
           N == D \cup {"lat set", "lat seen"}
<1>1. NoRes(F) /\ NoRes(K) /\ NoRes(L) /\ NoRes(M) /\ NoRes(N)  BY DEF NoRes, Dumps
<1>2. F \subseteq K /\ F \subseteq M /\ F \subseteq N /\ M \subseteq L /\ M \subseteq N
      /\ L = K \cup {"lat set"} /\ N = M \cup {"lat seen"}
  OBVIOUS
<1>3. KeepsMeasure("LAT_SETUP", K) /\ KeepsMeasure("LAT_GET", M)
  <2>1. M \cap {"unseen", "lat seen", "bw seen"} = {}  BY DEF Dumps
  <2> QED  BY <2>1 DEF KeepsMeasure
<1>4. Early(K)  BY <1>1 DEF Early, Dumps
<1>5. K \subseteq AtFirst("latency")  BY DEF AtFirst, Reporting
<1>6. "latency" \in N /\ "no session" \in N /\ Dumps \subseteq N /\ "lat seen" \in N  OBVIOUS
<1>7. /\ "lat set" \in L /\ L \cap {"unseen", "lat seen"} # {}
      /\ "lat set" \in N /\ N \cap {"unseen", "lat seen"} # {}
  OBVIOUS
<1>8. F \subseteq K \cup Told0 /\ "latency" \in F  OBVIOUS
<1> HIDE DEF D, F, K, L, M, N
<1>9. Does(Err, F, K, switchtec_open, K)
  <2>1. Does(Err, F, K, switchtec_open, K \cup Told0)  BY <1>2, <1>4, ErrIn, ToldOpen
  <2> QED  BY <2>1, DoesLess
<1>10. Does(Err, F, K, Input, K)  BY <1>1, <1>2, ErrIn, CallRules
<1>11. "LAT_SETUP" \in PmonNames /\ "LAT_GET" \in PmonNames  BY DEF PmonNames
<1>12. Does(Err, F, K, Cmd("LAT_SETUP"), L)
  <2>1. Keeps("LAT_SETUP", K) /\ MayDo("LAT_SETUP", K)  BY <1>1, <1>3, <1>11, KeepsPmon, MayPmon
  <2> QED  BY <1>2, <2>1, ErrIn, DoesGain, MeasureGains
<1>13. Keeps("LAT_GET", M) /\ MayDo("LAT_GET", L) /\ MayDo("LAT_GET", N)
  BY <1>1, <1>3, <1>11, KeepsPmon, MayPmon
<1>14. Does(Err, F, L, Cmd("LAT_GET"), N)
  BY <1>2, <1>7, <1>13, ErrIn, DoesGain, MeasureGains
<1>15. Does(Err, F, N, Cmd("LAT_GET"), N)
  BY <1>2, <1>7, <1>13, ErrIn, DoesGain, MeasureGains
<1>16. Does(Err, F, K, switchtec_lat_setup, N)
  BY <1>12, <1>14, DoesSeq
     DEF switchtec_lat_setup, switchtec_lat_setup_many, switchtec_lat_get, switchtec_lat_get_many
<1>17. Does(Err, F, K, latency, N)
  <2>1. Does(Err, F, K, Input ++ switchtec_lat_setup, N)  BY <1>10, <1>16, DoesSeq
  <2> QED  BY <1>15, <2>1, DoesSeq DEF latency, switchtec_lat_get, switchtec_lat_get_many
<1>18. Does(Err, F, K, switchtec_open ++ latency, N)  BY <1>9, <1>17, DoesSeq
<1>19. Faces(Err, F) /\ Faces({"ok"}, N)  BY <1>6, <1>8, ReportFaces DEF Reporting
<1> QED  BY <1>1, <1>5, <1>18, <1>19, FinishRuns

\* The bandwidths likewise; where the switch refused the setup they are whoever's.
LEMMA BwRuns == CallRuns("bw", bw)
<1> DEFINE F == {"bw"}
           D == {"bw", "no session"} \cup Dumps
           K == D \cup {"unseen"}
           H == K \cup {"bw res"}
           L == K \cup {"bw set"}
           M == D \cup {"bw set"}
           N == M \cup {"bw seen"}
<1>1. NoRes(F) /\ NoRes(K) /\ NoRes(L) /\ NoRes(M) /\ NoRes(N)  BY DEF NoRes, Dumps
<1>2. F \subseteq K /\ F \subseteq H /\ F \subseteq L /\ F \subseteq M /\ F \subseteq N
      /\ M \subseteq L /\ M \subseteq N /\ L = K \cup {"bw set"} /\ H = K \cup {"bw res"}
      /\ N = M \cup {"bw seen"}
  OBVIOUS
<1>3. KeepsMeasure("BW_SET", K) /\ KeepsMeasure("BW_GET", M)
      /\ \A X : KeepsMeasure("port_status", X)
  <2>1. M \cap {"unseen", "lat seen", "bw seen"} = {}  BY DEF Dumps
  <2> QED  BY <2>1 DEF KeepsMeasure
<1>4. Early(K)  BY <1>1 DEF Early, Dumps
<1>5. K \subseteq AtFirst("bw")  BY DEF AtFirst, Reporting
<1>6. "bw" \in N /\ "no session" \in N /\ Dumps \subseteq N /\ "bw seen" \in N /\ "bw" \in F  OBVIOUS
<1>7. /\ "bw set" \in L /\ L \cap {"unseen", "bw seen"} # {}
      /\ "bw set" \in N /\ N \cap {"unseen", "bw seen"} # {}
  OBVIOUS
<1> HIDE DEF D, F, H, K, L, M, N
<1>9. Does(Err, F, K, switchtec_open, K)
  <2>1. Does(Err, F, K, switchtec_open, K \cup Told0)  BY <1>2, <1>4, ErrIn, ToldOpen
  <2> QED  BY <2>1, DoesLess
<1>10. /\ "BW_SET" \in PmonNames /\ "BW_GET" \in PmonNames /\ "port_status" \in PmonNames
  BY DEF PmonNames
<1>11. \A X : NoRes(X) => Does(Err, X, X, Try(Cmd("port_status")), X)
  <2> SUFFICES ASSUME NEW X, NoRes(X) PROVE Does(Err, X, X, Try(Cmd("port_status")), X)
    OBVIOUS
  <2>1. Keeps("port_status", X) /\ MayDo("port_status", X)  BY <1>3, <1>10, KeepsPmon, MayPmon
  <2>2. Does(Err, X, X, Cmd("port_status"), X)  BY <2>1, ErrIn, DoesKeep
  <2> QED  BY <2>2, ReturnsSame, DoesTry
<1>12. Does(Err, H, K, switchtec_bwcntr_set_all, L)
  <2>1. \A j, s : j.res = "err" => Has({"bw res"}, j, s)
    <3> SUFFICES ASSUME NEW j, NEW s, j.res = "err" PROVE Has({"bw res"}, j, s)  OBVIOUS
    <3>1. HasMeasure({"bw res"}, j, s) /\ {"bw res"} \subseteq MeasureFacts
      BY DEF HasMeasure, MeasureFacts
    <3> QED  BY <3>1, OnlyMeasure
  <2>2. GivesUp(K, "res", {"ok"}, H)
    <3> SUFFICES ASSUME NEW j, NEW s, Sane(j, s), Has(K, j, s)
                 PROVE  Has(H, [j EXCEPT !.res = "err"], s)
      BY DEF GivesUp
    <3> DEFINE i == [j EXCEPT !.res = "err"]
    <3>1. i.res = "err"  BY IdleDomain DEF Sane, JobSane, JobFields
    <3>2. Has(K, i, s)  BY <1>1, ResSame
    <3> HIDE DEF i
    <3>3. Has(H, i, s)  BY <1>2, <2>1, <3>1, <3>2, HasUnion
    <3> QED  BY <3>3 DEF i
  <2>3. Does(Err, H, K, Need("res", {"ok"}), K)
    <3>1. Knows(K, "res", {"ok"}, K)  BY DEF Knows
    <3> QED  BY <2>2, <3>1, ErrIn, DoesNeed
  <2>4. Does(Err, H, K, Try(Cmd("port_status")), K)
    <3>1. Does(Err, K, K, Cmd("port_status"), K)
      <4>1. Keeps("port_status", K) /\ MayDo("port_status", K)  BY <1>1, <1>3, <1>10, KeepsPmon, MayPmon
      <4> QED  BY <4>1, ErrIn, DoesKeep
    <3> QED  BY <1>1, <3>1, ReturnsSame, DoesTry
  <2>5. Does(Err, H, K, Cmd("BW_SET"), L)
    <3>1. Keeps("BW_SET", K) /\ MayDo("BW_SET", K)  BY <1>1, <1>3, <1>10, KeepsPmon, MayPmon
    <3>2. Gains("BW_SET", K, {"bw set"}) /\ Leaves("BW_SET", K, {"bw res"})  BY MeasureGains
    <3>3. CmdOK("BW_SET", K, L, H)  BY <1>2, <3>1, <3>2, CmdGains
    <3> QED  BY <3>3, ErrIn, DoesCmd
  <2> QED  BY <2>3, <2>4, <2>5, DoesSeq DEF switchtec_bwcntr_set_all, port_status, switchtec_bwcntr_set_many
<1>13. Does(Err, F, K, Try(switchtec_bwcntr_set_all), H)
  <2>1. Returns(L, "ok", H)
    <3> SUFFICES ASSUME NEW j, NEW s, Sane(j, s), Has(L, j, s)
                 PROVE  Has(H, [j EXCEPT !.res = "ok"], s)
      BY DEF Returns
    <3> DEFINE i == [j EXCEPT !.res = "ok"]
    <3>1. Has(L, i, s)  BY <1>1, ResSame
    <3> HIDE DEF i
    <3>2. HasMeasure(L, i, s)  BY <3>1 DEF Has
    <3>3. HasMeasure({"bw res"}, i, s) /\ {"bw res"} \subseteq MeasureFacts
      BY <1>7, <3>2 DEF HasMeasure, MeasureFacts
    <3>4. Has(K, i, s)  BY <1>2, <3>1, LessHas
    <3>5. Has(H, i, s)  BY <1>2, <3>3, <3>4, OnlyMeasure, HasUnion
    <3> QED  BY <3>5 DEF i
  <2> QED  BY <1>12, <2>1, DoesTry
<1>14. Does(Err, F, H, Need("res", {"ok", "mrpc"}), L)
  <2>1. Knows(H, "res", {"ok", "mrpc"}, L)
    <3> SUFFICES ASSUME NEW j, NEW s, Has(H, j, s), j.res \in {"ok", "mrpc"} PROVE Has(L, j, s)
      BY DEF Knows
    <3>1. HasMeasure(H, j, s) /\ "bw res" \in H  BY <1>2 DEF Has
    <3>2. HasMeasure({"bw set"}, j, s) /\ {"bw set"} \subseteq MeasureFacts
      BY <3>1 DEF HasMeasure, MeasureFacts
    <3>3. Has(K, j, s)  BY <1>2, LessHas
    <3> QED  BY <1>2, <3>2, <3>3, OnlyMeasure, HasUnion
  <2>2. GivesUp(H, "res", {"ok", "mrpc"}, F)  BY <1>1, <1>2, LessKnown
  <2> QED  BY <2>1, <2>2, ErrIn, DoesNeed
<1>15. Keeps("BW_GET", M) /\ MayDo("BW_GET", L) /\ MayDo("BW_GET", N)
  BY <1>1, <1>3, <1>10, KeepsPmon, MayPmon
<1>16. Does(Err, F, L, Cmd("BW_GET"), N)  BY <1>2, <1>7, <1>15, ErrIn, DoesGain, MeasureGains
<1>17. Does(Err, F, N, Cmd("BW_GET"), N)  BY <1>2, <1>7, <1>15, ErrIn, DoesGain, MeasureGains
<1>18. \A X \in {L, N} : Does(Err, F, X, switchtec_bwcntr_all, N)
  <2> SUFFICES ASSUME NEW X \in {L, N} PROVE Does(Err, F, X, switchtec_bwcntr_all, N)
    OBVIOUS
  <2>1. NoRes(X) /\ F \subseteq X  BY <1>1, <1>2
  <2>2. Does(Err, X, X, Try(Cmd("port_status")), X)  BY <1>11, <2>1
  <2>3. Does(Err, F, X, Try(Cmd("port_status")), X)  BY <2>1, <2>2, DoesMore
  <2>4. Does(Err, F, X, Need("res", {"ok"}), X)  BY <1>1, <2>1, ErrIn, CallRules
  <2>5. Does(Err, F, X, port_status, X)  BY <2>3, <2>4, DoesSeq DEF port_status
  <2>6. Does(Err, F, X, Cmd("BW_GET"), N)  BY <1>16, <1>17
  <2>9. Does(Err, F, X, Times(2, Cmd("BW_GET")), N)  BY <1>17, <2>6, DoesTwice
  <2> QED  BY <2>5, <2>9, DoesSeq DEF switchtec_bwcntr_all, switchtec_bwcntr_many, Batches
<1>19. Does(Err, F, K, bw, N)
  <2>1. Does(Err, F, K, Try(switchtec_bwcntr_set_all) ++ Need("res", {"ok", "mrpc"}), L)
    BY <1>13, <1>14, DoesSeq
  <2>2. Does(Err, F, L, switchtec_bwcntr_all, N) /\ Does(Err, F, N, switchtec_bwcntr_all, N)
    BY <1>18
  <2> QED  BY <2>1, <2>2, DoesSeq DEF bw
<1>20. Does(Err, F, K, switchtec_open ++ bw, N)  BY <1>9, <1>19, DoesSeq
<1>21. Faces(Err, F) /\ Faces({"ok"}, N)  BY <1>6, ReportFaces DEF Reporting
<1> QED  BY <1>1, <1>5, <1>20, <1>21, FinishRuns

\* A counter that the user has not named was found free.
LEMMA CounterRuns == CallRuns("evcntr_setup", evcntr_setup)
<1> DEFINE K == Base
           L == Base \cup {"told counter"}
           M == Base \cup {"free"}
<1>1. NoRes(K) /\ NoRes(L) /\ NoRes(M)  BY BaseNoRes DEF NoRes
<1>2. K \subseteq L /\ K \subseteq M /\ L = K \cup {"told counter"} /\ M = K \cup {"free"}  OBVIOUS
<1>3. KeepsMeasure("EVCNTR_GET", K) /\ KeepsMeasure("EVCNTR_SETUP", K)
  BY DEF KeepsMeasure, Base, Dumps
<1>4. Base \subseteq AtFirst("evcntr_setup")  BY DEF AtFirst, Base, Reporting
<1>5. "told counter" \in L /\ "free" \in M  OBVIOUS
<1> HIDE DEF K, L, M
<1>6. "EVCNTR_GET" \in PmonNames /\ "EVCNTR_SETUP" \in PmonNames  BY DEF PmonNames
<1>7. /\ Does(Both, K, K, Input, K) /\ Does(Both, K, M, Input, M)
  BY <1>1, <1>2, ErrIn, CallRules
<1>8. Does(Both, K, K, Cmd("EVCNTR_GET"), L)
  <2>1. Keeps("EVCNTR_GET", K) /\ MayDo("EVCNTR_GET", K)  BY <1>1, <1>3, <1>6, KeepsPmon, MayPmon
  <2> QED  BY <1>2, <2>1, ErrIn, DoesGain, MeasureGains
<1>9. Does(Both, K, L, Need("counter", {0}), M)
  <2>1. Knows(L, "counter", {0}, M)
    <3> SUFFICES ASSUME NEW j, NEW s, Has(L, j, s), j.counter = 0 PROVE Has(M, j, s)  BY DEF Knows
    <3>1. HasMeasure(L, j, s)  BY DEF Has
    <3>2. HasMeasure({"free"}, j, s) /\ {"free"} \subseteq MeasureFacts
      BY <1>5, <3>1 DEF HasMeasure, MeasureFacts
    <3>3. Has(K, j, s)  BY <1>2, LessHas
    <3> QED  BY <1>2, <3>2, <3>3, OnlyMeasure, HasUnion
  <2> QED  BY <1>1, <1>2, <2>1, ErrIn, CallRules
<1>10. Does(Both, K, K, get_free_counter, M)
  <2>1. Does(Both, K, K, Input ++ Cmd("EVCNTR_GET"), L)  BY <1>7, <1>8, DoesSeq
  <2> QED  BY <1>9, <2>1, DoesSeq DEF get_free_counter, switchtec_evcntr_get_setup, evcntr_get
<1>11. Does(Both, K, K, UnlessOpt({"given"}, get_free_counter), M)
  <2>1. KnowsOpt(K, {"given"}, FALSE, K)  BY DEF KnowsOpt
  <2>2. KnowsOpt(K, {"given"}, TRUE, M)
    <3> SUFFICES ASSUME NEW j, NEW s, Has(K, j, s), "given" \in j.opt PROVE Has(M, j, s)
      BY DEF KnowsOpt
    <3>1. HasMeasure({"free"}, j, s) /\ {"free"} \subseteq MeasureFacts
      BY DEF HasMeasure, MeasureFacts
    <3> QED  BY <1>2, <3>1, OnlyMeasure, HasUnion
  <2> QED  BY <1>10, <2>1, <2>2, DoesUnlessOpt
<1>12. Does(Both, K, M, Cmd("EVCNTR_SETUP"), K)
  <2>1. Keeps("EVCNTR_SETUP", K)  BY <1>1, <1>3, <1>6, KeepsPmon
  <2>2. MayDo("EVCNTR_SETUP", M)
    <3> SUFFICES ASSUME NEW j, NEW s, HasMeasure(M, j, s) PROVE May("EVCNTR_SETUP", j, s)
      BY DEF MayDo, Has
    <3>1. "given" \in j.opt \/ s.counter = 0 \/ "counter" \in j.met  BY <1>5 DEF HasMeasure
    <3>2. "EVCNTR_SETUP" \notin Keyed \cup SignedCmds \cup ForGood \cup Uses
      BY DEF Keyed, SignedCmds, ForGood, Uses, Reads
    <3>3. "EVCNTR_SETUP" \notin {Parallel.on, External.on, Pipe.on, RxToTx.on, TxToRx.on}
      BY DEF Parallel, External, Pipe, RxToTx, TxToRx
    <3> QED  BY <3>1, <3>2, <3>3 DEF May
  <2> QED  BY <1>2, <2>1, <2>2, ErrIn, DoesKeep
<1>13. Does(Both, K, K, evcntr_setup, K)
  <2>1. Does(Both, K, K, Input ++ UnlessOpt({"given"}, get_free_counter) ++ Input, M)
    BY <1>7, <1>11, DoesSeq
  <2>2. Does(Both, K, M, switchtec_evcntr_setup, K)
    BY <1>7, <1>12, DoesSeq DEF switchtec_evcntr_setup
  <2> QED  BY <2>1, <2>2, DoesSeq DEF evcntr_setup
<1>14. Does(Both, K, K, switchtec_open ++ evcntr_setup, K)
  <2>1. In("harmless", Base)  BY BaseNoRes DEF In
  <2>2. Does(Both, Base, Base, switchtec_open, Base)  BY <2>1, MeekOpen DEF Meek, Quiet
  <2> QED  BY <1>13, <2>2, DoesSeq DEF K
<1> QED  BY <1>4, <1>14, PlainFaces, BaseNoRes, FinishRuns DEF K


-----------------------------------------------------------------------------
(* The loopback modes.                                                         *)

\* The commands that set them keep all but what they are about.
LoopNames == OnCmds \cup {m.off : m \in Modes}
LEMMA LoopIs ==
  LoopNames = {"PARALLEL_ON", "EXTERNAL_ON", "PIPE_ON", "LTSSM_ON", "RX_TO_TX_ON", "TX_TO_RX_ON",
               "PARALLEL_OFF", "EXTERNAL_OFF", "PIPE_OFF", "LTSSM_OFF", "RX_TO_TX_OFF", "TX_TO_RX_OFF"}
<1>1. OnCmds = {"PARALLEL_ON", "EXTERNAL_ON", "PIPE_ON", "LTSSM_ON", "RX_TO_TX_ON", "TX_TO_RX_ON"}
  BY DEF OnCmds, Modes, Parallel, External, Pipe, Ltssm, RxToTx, TxToRx
<1>2. {m.off : m \in Modes} =
        {"PARALLEL_OFF", "EXTERNAL_OFF", "PIPE_OFF", "LTSSM_OFF", "RX_TO_TX_OFF", "TX_TO_RX_OFF"}
  BY DEF Modes, Parallel, External, Pipe, Ltssm, RxToTx, TxToRx
<1> QED  BY <1>1, <1>2 DEF LoopNames

LEMMA ModeNames ==
  ASSUME NEW m \in Modes
  PROVE  /\ m.on \in {"PARALLEL_ON", "EXTERNAL_ON", "PIPE_ON", "LTSSM_ON", "RX_TO_TX_ON", "TX_TO_RX_ON"}
         /\ m.off \in {"PARALLEL_OFF", "EXTERNAL_OFF", "PIPE_OFF", "LTSSM_OFF", "RX_TO_TX_OFF",
                       "TX_TO_RX_OFF"}
BY DEF Modes, Parallel, External, Pipe, Ltssm, RxToTx, TxToRx

LEMMA KeepsModes ==
  ASSUME NEW x \in LoopNames, NEW K, NoRes(K), KeepsLoop(x, K)
  PROVE  Keeps(x, K)
<1>1. x \notin DOMAIN Opens \cup DOMAIN Closes \cup {"RESET"} \cup Stirs
  BY LoopIs, OpensDomain, ClosesDomain DEF Stirs, Reads, Firsts, Counts, Queues, Polls
<1>2. KeepsSes(x, K)  BY <1>1 DEF KeepsSes
<1>3. KeepsAuth(x, K) /\ KeepsMeasure(x, K)  BY LoopIs DEF KeepsAuth, KeepsMeasure
<1>4. KeepsFw(x, K)  BY LoopIs DEF KeepsFw
<1> QED  BY <1>1, <1>2, <1>3, <1>4 DEF Keeps

\* Those of Gen5 are sent to a Gen5 switch, the others to others.
LEMMA MayModes ==
  ASSUME NEW x \in LoopNames, NEW K, "told gen" \in K,
         x \in {"PARALLEL_ON", "EXTERNAL_ON", "PIPE_ON"} => "gen5" \in K,
         x \in {"RX_TO_TX_ON", "TX_TO_RX_ON"} => "not gen5" \in K
  PROVE  MayDo(x, K)
<1> SUFFICES ASSUME NEW j, NEW s, Has(K, j, s) PROVE May(x, j, s)  BY DEF MayDo
<1>1. HasFw(K, j, s) /\ HasLoop(K, j, s)  BY DEF Has
<1>2. j.gen = s.gen  BY <1>1 DEF HasFw
<1>3. /\ "gen5" \in K => s.gen = 5
      /\ "not gen5" \in K => s.gen # 5
  BY <1>1, <1>2 DEF HasLoop
<1>4. x \notin Keyed \cup SignedCmds \cup ForGood \cup Uses
      /\ x \notin {"KMSK", "DOK_KEY_ADD", "DOK_KEY_REVOKE", "EVCNTR_SETUP"}
  BY LoopIs DEF Keyed, SignedCmds, ForGood, Uses, Reads
<1>5. /\ x \in {Parallel.on, External.on, Pipe.on} => s.gen = 5
      /\ x \in {RxToTx.on, TxToRx.on} => s.gen # 5
  BY <1>3 DEF Parallel, External, Pipe, RxToTx, TxToRx
<1>6. x \notin {"SET_SECURED", "SET_UNSECURED", "DEBUG_PROTECT", "CONFIG_SET"}  BY LoopIs
<1> QED  BY <1>4, <1>5, <1>6 DEF May

\* After a mode was switched, it is off where all are to be.
LEMMA SetLoopDoes ==
  ASSUME NEW m \in Modes, NEW o \in LoopOptions \ {"disable"}, NEW K, NoRes(K), "loopback" \in K,
         "disable alone" \in K, K \cap {m.on, "off", "off on gen5"} = {}, MayDo(m.on, K), MayDo(m.off, K)
  PROVE  Does(Err, {"loopback"}, K, SetLoop(m, o), K \cup {m.on})
<1> DEFINE F == {"loopback"}
           L == K \cup {m.on}
<1>0. {m.on} \subseteq LoopFacts  BY OnNames
<1>1. m.on \in LoopNames /\ m.off \in LoopNames  BY DEF LoopNames, OnCmds
<1>2. \A n \in Modes : n.on # m.off
  <2> SUFFICES ASSUME NEW n \in Modes PROVE n.on # m.off  OBVIOUS
  <2> QED  BY ModeNames
<1>3. KeepsLoop(m.on, K)
  <2>1. m.on # "dev_info"  BY <1>1, LoopIs
  <2> QED  BY <2>1 DEF KeepsLoop
<1>4. KeepsLoop(m.off, K)
  <2>1. m.off # "dev_info"  BY <1>1, LoopIs
  <2> QED  BY <1>2, <2>1 DEF KeepsLoop
<1>5. Keeps(m.on, K) /\ Keeps(m.off, K)  BY <1>1, <1>3, <1>4, KeepsModes
<1>6. F \subseteq K /\ NoRes(F) /\ NoRes(K)  BY DEF NoRes
<1>7. ASSUME NEW j, NEW s, Has(K, j, s), "disable" \notin j.opt
      PROVE  Has(L, j, s)
  <2>1. HasLoop({m.on}, j, s)
    <3>1. \A x \in {"keeps on", "disable alone", "gen5", "not gen5", "off on gen5", "off"} : x # m.on
      BY <1>1, LoopIs
    <3> QED  BY <1>7, <3>1 DEF HasLoop
  <2> QED  BY <1>0, <1>7, <2>1, OnlyLoop, HasUnion
<1>8. KnowsOpt(K, {o}, TRUE, L)
  <2> SUFFICES ASSUME NEW j, NEW s, Has(K, j, s), (j.opt \cap {o} # {}) = TRUE PROVE Has(L, j, s)
    BY DEF KnowsOpt
  <2>1. HasLoop(K, j, s)  BY DEF Has
  <2>2. "disable" \notin j.opt  BY <2>1 DEF HasLoop
  <2> QED  BY <1>7, <2>2
<1>9. Gains(m.off, K, {m.on})
  <2> SUFFICES ASSUME NEW j, NEW s, NEW e, NEW n, NEW i, Sane(j, s), Has(K, j, s),
                      EffectFields(e, m.off, j, s), Known(i, m.off, n, j, e)
               PROVE  Has({m.on}, i, e)
    BY DEF Gains
  <2>1. m.off # "RESET"  BY <1>1, LoopIs
  <2>2. e.loop = LoopAfter(m.off, s.loop)  BY <2>1 DEF EffectFields
  <2>3. m.on \notin LoopAfter(m.off, s.loop)  BY DEF LoopAfter
  <2>4. HasLoop({m.on}, i, e)
    <3>1. \A x \in {"keeps on", "disable alone", "gen5", "not gen5", "off on gen5", "off"} : x # m.on
      BY <1>1, LoopIs
    <3> QED  BY <2>2, <2>3, <3>1 DEF HasLoop
  <2> QED  BY <1>0, <2>4, OnlyLoop
<1>10. Does(Err, F, K, Cmd(m.on), K)  BY <1>5, <1>6, ErrIn, DoesKeep
<1>11. Does(Err, F, K, Cmd(m.off), L)
  <2>1. m.off # "BOOT_RO_GET"  BY <1>1, LoopIs
  <2> QED  BY <1>5, <1>6, <1>9, <2>1, ErrIn, DoesGain
<1>12. Does(Err, F, K, WhenOpt({o}, Cmd(m.on)), K)  BY <1>6, <1>10, ErrIn, CallRules
<1>13. Does(Err, F, K, UnlessOpt({o}, Cmd(m.off)), L)
  <2>1. KnowsOpt(K, {o}, FALSE, K)  BY LessKnown
  <2> QED  BY <1>8, <1>11, <2>1, DoesUnlessOpt
<1> QED  BY <1>12, <1>13, DoesSeq DEF SetLoop

\* After loopback --disable no mode is on, whatever was: on Gen5 all of its modes
\* are switched off one by one, or none was asked to be; likewise on others.
LEMMA LoopRuns == CallRuns("loopback", loopback)
<1> DEFINE F == {"loopback"}
           O == {"loopback", "no session"} \cup Dumps
           A == O \cup Told0
           B == A \cup {"disable alone"}
           C5 == B \cup {"gen5"}
           CO == B \cup {"not gen5"}
           Z == B \cup {"off"}
           P1 == C5 \cup {"PARALLEL_ON"}
           P2 == P1 \cup {"EXTERNAL_ON"}
           P3 == P2 \cup {"PIPE_ON"}
           P4 == P3 \cup {"LTSSM_ON"}
           Q1 == CO \cup {"RX_TO_TX_ON"}
           Q2 == Q1 \cup {"TX_TO_RX_ON"}
           Q3 == Q2 \cup {"LTSSM_ON"}
<1>1. /\ NoRes(F) /\ NoRes(O) /\ NoRes(A) /\ NoRes(B) /\ NoRes(C5) /\ NoRes(CO) /\ NoRes(Z)
      /\ NoRes(P1) /\ NoRes(P2) /\ NoRes(P3) /\ NoRes(Q1) /\ NoRes(Q2)
  BY DEF NoRes, Told0, Dumps
<1>2. /\ F \subseteq O /\ F \subseteq A /\ F \subseteq B /\ F \subseteq Z /\ F \subseteq C5 /\ F \subseteq CO
      /\ F \subseteq P1
      /\ B \subseteq C5 /\ B \subseteq CO /\ B \subseteq P4 /\ B \subseteq Q3
      /\ A = O \cup Told0 /\ B = A \cup {"disable alone"} /\ Z = B \cup {"off"}
      /\ C5 = B \cup {"gen5"} /\ CO = B \cup {"not gen5"}
  OBVIOUS
<1>3. /\ "loopback" \in C5 /\ "loopback" \in P1 /\ "loopback" \in P2 /\ "loopback" \in P3
      /\ "loopback" \in CO /\ "loopback" \in Q1 /\ "loopback" \in Q2 /\ "loopback" \in F
      /\ "disable alone" \in C5 /\ "disable alone" \in P1 /\ "disable alone" \in P2 /\ "disable alone" \in P3
      /\ "disable alone" \in CO /\ "disable alone" \in Q1 /\ "disable alone" \in Q2
      /\ "disable alone" \in B
  OBVIOUS
<1>4. /\ P1 = C5 \cup {"PARALLEL_ON"} /\ P2 = P1 \cup {"EXTERNAL_ON"} /\ P3 = P2 \cup {"PIPE_ON"}
      /\ P4 = P3 \cup {"LTSSM_ON"} /\ Q1 = CO \cup {"RX_TO_TX_ON"} /\ Q2 = Q1 \cup {"TX_TO_RX_ON"}
      /\ Q3 = Q2 \cup {"LTSSM_ON"}
  OBVIOUS
<1>5. /\ C5 \cap {"PARALLEL_ON", "off", "off on gen5"} = {}
      /\ P1 \cap {"EXTERNAL_ON", "off", "off on gen5"} = {}
      /\ P2 \cap {"PIPE_ON", "off", "off on gen5"} = {}
      /\ P3 \cap {"LTSSM_ON", "off", "off on gen5"} = {}
      /\ CO \cap {"RX_TO_TX_ON", "off", "off on gen5"} = {}
      /\ Q1 \cap {"TX_TO_RX_ON", "off", "off on gen5"} = {}
      /\ Q2 \cap {"LTSSM_ON", "off", "off on gen5"} = {}
      /\ C5 \cap {"LTSSM_ON", "off", "off on gen5"} = {}
  BY DEF Told0, Dumps
<1>6. /\ "told gen" \in C5 /\ "told gen" \in P1 /\ "told gen" \in P2 /\ "told gen" \in P3
      /\ "told gen" \in CO /\ "told gen" \in Q1 /\ "told gen" \in Q2
      /\ "gen5" \in C5 /\ "gen5" \in P1 /\ "gen5" \in P2 /\ "gen5" \in P3
      /\ "not gen5" \in CO /\ "not gen5" \in Q1 /\ "not gen5" \in Q2
  BY DEF Told0
<1>7. /\ {"gen5", "told gen", "PARALLEL_ON", "EXTERNAL_ON", "PIPE_ON", "LTSSM_ON"} \subseteq P4
      /\ {"not gen5", "told gen", "RX_TO_TX_ON", "TX_TO_RX_ON", "LTSSM_ON"} \subseteq Q3
  BY DEF Told0
<1>8. Early(O) /\ O \subseteq AtFirst("loopback")
  BY <1>1 DEF Early, Dumps, AtFirst, Reporting
<1>9. "loopback" \in Z /\ "no session" \in Z /\ Dumps \subseteq Z /\ "off" \in Z  OBVIOUS
<1> HIDE DEF F, O, A, B, C5, CO, Z, P1, P2, P3, P4, Q1, Q2, Q3
<1>10. Does(Err, F, O, switchtec_open, A)  BY <1>2, <1>8, ErrIn, ToldOpen
\* What a process learns of the options.
<1>11. {"disable alone"} \subseteq LoopFacts /\ {"off"} \subseteq LoopFacts
       /\ {"gen5"} \subseteq LoopFacts /\ {"not gen5"} \subseteq LoopFacts
  BY DEF LoopFacts
<1>12. \A j, s : Has(A, j, s) /\ ("disable" \in j.opt => j.opt \cap (LoopOptions \ {"disable"}) = {})
         => Has(B, j, s)
  <2> SUFFICES ASSUME NEW j, NEW s, Has(A, j, s),
                      "disable" \in j.opt => j.opt \cap (LoopOptions \ {"disable"}) = {}
               PROVE  Has(B, j, s)
    OBVIOUS
  <2>1. HasLoop({"disable alone"}, j, s)
    <3>1. \A m \in Modes : m.on # "disable alone"  BY ModeNames
    <3> QED  BY <3>1 DEF HasLoop
  <2> QED  BY <1>2, <1>11, <2>1, OnlyLoop, HasUnion
<1>13. \A K, j, s : Has(K, j, s) /\ AllOff(j, s) => Has(K \cup {"off"}, j, s)
  <2> SUFFICES ASSUME NEW K, NEW j, NEW s, Has(K, j, s), AllOff(j, s) PROVE Has(K \cup {"off"}, j, s)
    OBVIOUS
  <2>1. HasLoop({"off"}, j, s)
    <3>1. \A m \in Modes : m.on # "off"  BY ModeNames
    <3> QED  BY <3>1 DEF HasLoop
  <2> QED  BY <1>11, <2>1, OnlyLoop, HasUnion
<1>14. Does(Err, F, A, WhenOpt({"external", "parallel"}, WhenOpt({"rx_to_tx", "tx_to_rx"}, Fails)), A)
  BY <1>1, <1>2, ErrIn, CallRules DEF Fails
<1>15. Does(Err, F, A, WhenOpt({"disable"}, WhenOpt(LoopOptions \ {"disable"}, Fails)), B)
  <2>1. KnowsOpt(A, LoopOptions \ {"disable"}, FALSE, B)
    <3> SUFFICES ASSUME NEW j, NEW s, Has(A, j, s),
                        (j.opt \cap (LoopOptions \ {"disable"}) # {}) = FALSE
                 PROVE  Has(B, j, s)
      BY DEF KnowsOpt
    <3> QED  BY <1>12
  <2>2. KnowsOpt(A, {"disable"}, FALSE, B)
    <3> SUFFICES ASSUME NEW j, NEW s, Has(A, j, s), (j.opt \cap {"disable"} # {}) = FALSE
                 PROVE  Has(B, j, s)
      BY DEF KnowsOpt
    <3> QED  BY <1>12
  <2>3. Knows(A, "res", {}, B)  BY DEF Knows
  <2>4. Does(Err, F, A, Fails, B)  BY <1>1, <1>2, <2>3, ErrIn, CallRules, ZenonT(40) DEF Fails
  <2>5. KnowsOpt(A, LoopOptions \ {"disable"}, TRUE, A) /\ KnowsOpt(A, {"disable"}, TRUE, A)
    BY LessKnown
  <2>6. Does(Err, F, A, WhenOpt(LoopOptions \ {"disable"}, Fails), B)
    BY <2>1, <2>4, <2>5, DoesWhenOpt
  <2> QED  BY <2>2, <2>5, <2>6, DoesWhenOpt
<1>16. Calm(get_port) /\ Calm(print_loopback_mode)
  <2>1. "port_status" \notin Loud /\ "loopback" \notin Loud
    <3>1. "port_status" \notin GuardedNames /\ "loopback" \notin GuardedNames  BY DEF GuardedNames
    <3> QED  BY <3>1, GuardedIs, ClosesDomain DEF Loud, Stirs, Reads, Firsts, Counts, Queues, Polls
  <2> QED  BY <2>1, CalmRules DEF get_port, print_loopback_mode, switchtec_diag_loopback_get
<1>17. Does(Err, F, B, get_port, B) /\ Does(Err, F, Z, print_loopback_mode, Z)
  BY <1>1, <1>2, <1>16, ErrIn, CalmDoes
\* The modes of Gen5.
<1>18. /\ Parallel \in Modes /\ External \in Modes /\ Pipe \in Modes /\ Ltssm \in Modes
       /\ RxToTx \in Modes /\ TxToRx \in Modes
  BY DEF Modes
<1>19. /\ Parallel.on = "PARALLEL_ON" /\ External.on = "EXTERNAL_ON" /\ Pipe.on = "PIPE_ON"
       /\ Ltssm.on = "LTSSM_ON" /\ RxToTx.on = "RX_TO_TX_ON" /\ TxToRx.on = "TX_TO_RX_ON"
       /\ Parallel.off = "PARALLEL_OFF" /\ External.off = "EXTERNAL_OFF" /\ Pipe.off = "PIPE_OFF"
       /\ Ltssm.off = "LTSSM_OFF" /\ RxToTx.off = "RX_TO_TX_OFF" /\ TxToRx.off = "TX_TO_RX_OFF"
  BY DEF Parallel, External, Pipe, Ltssm, RxToTx, TxToRx
<1>20. /\ "parallel" \in LoopOptions \ {"disable"} /\ "external" \in LoopOptions \ {"disable"}
       /\ "pipe" \in LoopOptions \ {"disable"} /\ "ltssm" \in LoopOptions \ {"disable"}
       /\ "rx_to_tx" \in LoopOptions \ {"disable"} /\ "tx_to_rx" \in LoopOptions \ {"disable"}
       /\ "disable" \in LoopOptions
  BY DEF LoopOptions
<1>21. /\ MayDo("PARALLEL_ON", C5) /\ MayDo("PARALLEL_OFF", C5) /\ MayDo("EXTERNAL_ON", P1)
       /\ MayDo("EXTERNAL_OFF", P1) /\ MayDo("PIPE_ON", P2) /\ MayDo("PIPE_OFF", P2)
       /\ MayDo("LTSSM_ON", P3) /\ MayDo("LTSSM_OFF", P3)
  BY <1>6, LoopIs, MayModes
<1>22. /\ MayDo("RX_TO_TX_ON", CO) /\ MayDo("RX_TO_TX_OFF", CO) /\ MayDo("TX_TO_RX_ON", Q1)
       /\ MayDo("TX_TO_RX_OFF", Q1) /\ MayDo("LTSSM_ON", Q2) /\ MayDo("LTSSM_OFF", Q2)
       /\ MayDo("LTSSM_ON", C5)
  BY <1>6, LoopIs, MayModes
<1>23. Does(Err, F, C5, SetLoop(Parallel, "parallel"), P1)
  BY <1>1, <1>3, <1>4, <1>5, <1>18, <1>19, <1>20, <1>21, SetLoopDoes DEF F
<1>24. Does(Err, F, P1, UnlessOpt({"parallel"}, SetLoop(External, "external")), P2)
  <2>1. Does(Err, F, P1, SetLoop(External, "external"), P2)
    BY <1>1, <1>3, <1>4, <1>5, <1>18, <1>19, <1>20, <1>21, SetLoopDoes DEF F
  <2>2. KnowsOpt(P1, {"parallel"}, FALSE, P1)  BY LessKnown
  <2>3. KnowsOpt(P1, {"parallel"}, TRUE, P2)
    <3> SUFFICES ASSUME NEW j, NEW s, Has(P1, j, s), (j.opt \cap {"parallel"} # {}) = TRUE
                 PROVE  Has(P2, j, s)
      BY DEF KnowsOpt
    <3>1. HasLoop(P1, j, s)  BY DEF Has
    <3>2. "disable" \notin j.opt  BY <1>3, <1>20, <3>1 DEF HasLoop
    <3>3. {"EXTERNAL_ON"} \subseteq LoopFacts  BY DEF LoopFacts
    <3>4. HasLoop({"EXTERNAL_ON"}, j, s)  BY <3>2 DEF HasLoop
    <3> QED  BY <1>4, <3>3, <3>4, OnlyLoop, HasUnion
  <2> QED  BY <2>1, <2>2, <2>3, DoesUnlessOpt
<1>25. Does(Err, F, P2, SetLoop(Pipe, "ltssm"), P3) /\ Does(Err, F, P3, SetLoop(Ltssm, "pipe"), P4)
  BY <1>1, <1>3, <1>4, <1>5, <1>18, <1>19, <1>20, <1>21, SetLoopDoes DEF F
<1>26. Entails(P4, Z)
  <2> SUFFICES ASSUME NEW j, NEW s, Sane(j, s), Has(P4, j, s) PROVE Has(Z, j, s)  BY DEF Entails
  <2>1. HasLoop(P4, j, s) /\ HasFw(P4, j, s)  BY DEF Has
  <2>0. Has(B, j, s)  BY <1>2, LessHas
  <2>2. s.gen = 5
    <3>1. j.gen = 5  BY <1>7, <2>1 DEF HasLoop
    <3>2. j.gen = s.gen  BY <1>7, <2>1 DEF HasFw
    <3> QED  BY <3>1, <3>2
  <2>3. s.loop \subseteq {"PARALLEL_ON", "EXTERNAL_ON", "PIPE_ON", "LTSSM_ON"}
    BY <1>19, <2>2 DEF Sane, SwitchSane, Has5
  <2>4. "disable" \in j.opt /\ "loop" \notin j.met =>
          {"PARALLEL_ON", "EXTERNAL_ON", "PIPE_ON", "LTSSM_ON"} \cap s.loop = {}
    BY <1>7, <1>18, <1>19, <2>1 DEF HasLoop
  <2> QED  BY <1>2, <1>13, <2>0, <2>3, <2>4, ZenonT(40) DEF AllOff
<1>27. Does(Err, F, C5, SetLoop(Parallel, "parallel")
         ++ UnlessOpt({"parallel"}, SetLoop(External, "external"))
         ++ SetLoop(Pipe, "ltssm") ++ SetLoop(Ltssm, "pipe"), P4)
  <2>1. Does(Err, F, C5, SetLoop(Parallel, "parallel")
          ++ UnlessOpt({"parallel"}, SetLoop(External, "external")), P2)
    BY <1>23, <1>24, DoesSeq
  <2>2. Does(Err, F, C5, SetLoop(Parallel, "parallel")
          ++ UnlessOpt({"parallel"}, SetLoop(External, "external"))
          ++ SetLoop(Pipe, "ltssm"), P3)
    BY <1>25, <2>1, DoesSeq
  <2>3. Does(Err, F, C5, SetLoop(Parallel, "parallel")
          ++ UnlessOpt({"parallel"}, SetLoop(External, "external"))
          ++ SetLoop(Pipe, "ltssm") ++ SetLoop(Ltssm, "pipe"), P4)
    BY <1>25, <2>2, DoesSeq
  <2> QED  BY <2>3
\* Where a mode was asked for, not all are to be off.
<1>28. \A K, S : B \subseteq K /\ S \subseteq LoopOptions \ {"disable"} => KnowsOpt(K, S, TRUE, Z)
  <2> SUFFICES ASSUME NEW K, NEW S, B \subseteq K, S \subseteq LoopOptions \ {"disable"},
                      NEW j, NEW s, Has(K, j, s), (j.opt \cap S # {}) = TRUE
               PROVE  Has(Z, j, s)
    BY DEF KnowsOpt
  <2>1. HasLoop(B, j, s) /\ Has(B, j, s)  BY LessHas DEF Has
  <2>2. "disable" \notin j.opt  BY <1>3, <2>1 DEF HasLoop
  <2> QED  BY <1>2, <1>13, <2>1, <2>2 DEF AllOff
<1>29. Does(Err, F, C5, switchtec_diag_loopback_set_gen56("parallel", "external", "pipe", "ltssm"), Z)
  <2> DEFINE all == SetLoop(Parallel, "parallel")
                      ++ UnlessOpt({"parallel"}, SetLoop(External, "external"))
                      ++ SetLoop(Pipe, "ltssm") ++ SetLoop(Ltssm, "pipe")
  <2>1. Does(Err, F, C5, all, P4)  BY <1>27
  <2>2. switchtec_diag_loopback_set_gen56("parallel", "external", "pipe", "ltssm") =
          WhenOpt({"parallel", "external"}, all)
            ++ UnlessOpt({"parallel", "external"}, WhenOpt({"pipe"}, Cmd(Ltssm.on))
                                                     ++ UnlessOpt({"pipe"}, all))
    BY DEF switchtec_diag_loopback_set_gen56
  <2> HIDE DEF all
  <2>3. Does(Err, F, C5, all, Z)
    <3>1. Entails(C5, C5) /\ Entails(F, F)  BY EntailsItself
    <3> QED  BY <1>26, <2>1, <3>1, DoesWeaker
  <2>4. Does(Err, F, C5, all, C5)
    <3>1. C5 \subseteq P4  BY <1>4
    <3> QED  BY <2>1, <3>1, DoesLess
  <2>5. Does(Err, F, C5, Cmd(Ltssm.on), C5)
    <3>1. KeepsLoop("LTSSM_ON", C5)  BY <1>5, <1>4 DEF KeepsLoop
    <3>2. Keeps("LTSSM_ON", C5)  BY <1>1, <3>1, LoopIs, KeepsModes
    <3> QED  BY <1>2, <1>19, <1>22, <3>2, ErrIn, DoesKeep
  <2>6. Does(Err, F, C5, WhenOpt({"parallel", "external"}, all), C5)
    BY <1>1, <2>4, ErrIn, CallRules
  <2>7. Does(Err, F, C5, WhenOpt({"pipe"}, Cmd(Ltssm.on)), C5)  BY <1>1, <2>5, ErrIn, CallRules
  <2>8. KnowsOpt(C5, {"pipe"}, FALSE, C5) /\ KnowsOpt(C5, {"parallel", "external"}, FALSE, C5)
    BY LessKnown
  <2>9. KnowsOpt(C5, {"pipe"}, TRUE, Z) /\ KnowsOpt(C5, {"parallel", "external"}, TRUE, Z)
    BY <1>2, <1>20, <1>28
  <2>10. Does(Err, F, C5, UnlessOpt({"pipe"}, all), Z)  BY <2>3, <2>8, <2>9, DoesUnlessOpt
  <2>11. Does(Err, F, C5, WhenOpt({"pipe"}, Cmd(Ltssm.on)) ++ UnlessOpt({"pipe"}, all), Z)
    BY <2>7, <2>10, DoesSeq
  <2>12. Does(Err, F, C5, UnlessOpt({"parallel", "external"}, WhenOpt({"pipe"}, Cmd(Ltssm.on))
                                                               ++ UnlessOpt({"pipe"}, all)), Z)
    BY <2>8, <2>9, <2>11, DoesUnlessOpt
  <2> QED  BY <2>2, <2>6, <2>12, DoesSeq
\* The modes of the others.
<1>30. Does(Err, F, CO, switchtec_diag_loopback_set_gen4, Z)
  <2>1. Does(Err, F, CO, SetLoop(RxToTx, "rx_to_tx"), Q1)
    BY <1>1, <1>3, <1>4, <1>5, <1>18, <1>19, <1>20, <1>22, SetLoopDoes DEF F
  <2>2. Does(Err, F, Q1, SetLoop(TxToRx, "tx_to_rx"), Q2)
    BY <1>1, <1>3, <1>4, <1>5, <1>18, <1>19, <1>20, <1>22, SetLoopDoes DEF F
  <2>3. Does(Err, F, Q2, SetLoop(Ltssm, "ltssm"), Q3)
    BY <1>1, <1>3, <1>4, <1>5, <1>18, <1>19, <1>20, <1>22, SetLoopDoes DEF F
  <2>4. Does(Err, F, CO, switchtec_diag_loopback_set_gen4, Q3)
    BY <2>1, <2>2, <2>3, DoesSeq DEF switchtec_diag_loopback_set_gen4
  <2>5. Entails(Q3, Z)
    <3> SUFFICES ASSUME NEW j, NEW s, Sane(j, s), Has(Q3, j, s) PROVE Has(Z, j, s)  BY DEF Entails
    <3>1. HasLoop(Q3, j, s) /\ HasFw(Q3, j, s)  BY DEF Has
    <3>0. Has(B, j, s)  BY <1>2, LessHas
    <3>2. s.gen # 5
      <4>1. j.gen # 5  BY <1>7, <3>1 DEF HasLoop
      <4>2. j.gen = s.gen  BY <1>7, <3>1 DEF HasFw
      <4> QED  BY <4>1, <4>2
    <3>3. s.loop \subseteq {"RX_TO_TX_ON", "TX_TO_RX_ON", "LTSSM_ON"}
      BY <1>19, <3>2 DEF Sane, SwitchSane, HasOther
    <3>4. "disable" \in j.opt /\ "loop" \notin j.met =>
            {"RX_TO_TX_ON", "TX_TO_RX_ON", "LTSSM_ON"} \cap s.loop = {}
      BY <1>7, <1>18, <1>19, <3>1 DEF HasLoop
    <3> QED  BY <1>2, <1>13, <3>0, <3>3, <3>4, ZenonT(40) DEF AllOff
  <2>6. Entails(CO, CO) /\ Entails(F, F)  BY EntailsItself
  <2> QED  BY <2>4, <2>5, <2>6, DoesWeaker
<1>31. Knows(B, "gen", {5}, C5) /\ KnowsNot(B, "gen", {5}, CO)
  <2>1. \A m \in Modes : m.on # "gen5" /\ m.on # "not gen5"  BY ModeNames
  <2>2. \A j, s : j.gen = 5 => Has({"gen5"}, j, s)
    <3> SUFFICES ASSUME NEW j, NEW s, j.gen = 5 PROVE Has({"gen5"}, j, s)  OBVIOUS
    <3>1. HasLoop({"gen5"}, j, s)  BY <2>1 DEF HasLoop
    <3> QED  BY <1>11, <3>1, OnlyLoop
  <2>3. \A j, s : j.gen # 5 => Has({"not gen5"}, j, s)
    <3> SUFFICES ASSUME NEW j, NEW s, j.gen # 5 PROVE Has({"not gen5"}, j, s)  OBVIOUS
    <3>1. HasLoop({"not gen5"}, j, s)  BY <2>1 DEF HasLoop
    <3> QED  BY <1>11, <3>1, OnlyLoop
  <2> QED  BY <1>2, <2>2, <2>3, HasUnion DEF Knows, KnowsNot
<1>32. Does(Err, F, B, switchtec_diag_loopback_set("parallel", "external", "pipe", "ltssm"), Z)
  BY <1>29, <1>30, <1>31, DoesIf DEF switchtec_diag_loopback_set
<1>33. Does(Err, F, B, WhenOpt(LoopOptions,
               When("gen", {5}, WhenOpt({"rx_to_tx", "tx_to_rx"}, Fails))
                 ++ switchtec_diag_loopback_set("parallel", "external", "pipe", "ltssm")), Z)
  <2>1. Does(Err, F, B, When("gen", {5}, WhenOpt({"rx_to_tx", "tx_to_rx"}, Fails)), B)
    BY <1>1, <1>2, ErrIn, CallRules DEF Fails
  <2>2. KnowsOpt(B, LoopOptions, TRUE, B)  BY LessKnown
  <2>3. KnowsOpt(B, LoopOptions, FALSE, Z)
    <3> SUFFICES ASSUME NEW j, NEW s, Has(B, j, s), (j.opt \cap LoopOptions # {}) = FALSE
                 PROVE  Has(Z, j, s)
      BY DEF KnowsOpt
    <3>1. "disable" \notin j.opt  BY <1>20
    <3> QED  BY <1>2, <1>13, <3>1 DEF AllOff
  <2> QED  BY <1>32, <2>1, <2>2, <2>3, DoesSeq, DoesWhenOpt
<1>34. Does(Err, F, O, switchtec_open ++ loopback, Z)
  <2>1. Does(Err, F, A, WhenOpt({"external", "parallel"}, WhenOpt({"rx_to_tx", "tx_to_rx"}, Fails))
           ++ WhenOpt({"disable"}, WhenOpt(LoopOptions \ {"disable"}, Fails)), B)
    BY <1>14, <1>15, DoesSeq
  <2>2. Does(Err, F, A, WhenOpt({"external", "parallel"}, WhenOpt({"rx_to_tx", "tx_to_rx"}, Fails))
           ++ WhenOpt({"disable"}, WhenOpt(LoopOptions \ {"disable"}, Fails)) ++ get_port, B)
    BY <1>17, <2>1, DoesSeq
  <2>3. Does(Err, F, A, loopback, Z)  BY <1>17, <1>33, <2>2, DoesSeq DEF loopback
  <2> QED  BY <1>10, <2>3, DoesSeq
<1>35. Faces(Err, F) /\ Faces({"ok"}, Z)  BY <1>3, <1>9, ReportFaces DEF Reporting
<1> QED  BY <1>1, <1>8, <1>34, <1>35, FinishRuns

-----------------------------------------------------------------------------
(* The firmware: the update of a partition, and which of two is active.        *)

\* Ways through steps that keep a kind of knowledge.
LEMMA QuietRules ==
  ASSUME NEW D
  PROVE  /\ Quiet(Both, D, Skip) /\ Quiet(Both, D, Input) /\ Quiet(Both, D, Confirm)
         /\ \A t : Calm(t) => Quiet(Both, D, t)
         /\ \A a, b : Quiet(Both, D, a) /\ Quiet(Both, D, b) => Quiet(Both, D, a ++ b)
         /\ \A f, S : Quiet(Both, D, Need(f, S))
         /\ \A f, S, t : Quiet(Both, D, t) =>
              Quiet(Both, D, When(f, S, t)) /\ Quiet(Both, D, Instead(f, S, t))
         /\ \A S, t : Quiet(Both, D, t) => Quiet(Both, D, WhenOpt(S, t)) /\ Quiet(Both, D, UnlessOpt(S, t))
         /\ \A t, n : Quiet(Both, D, t) /\ n \in 0..3 => Quiet(Both, D, Times(n, t))
         /\ \A t : Quiet(Both, D, t) => Quiet(Both, D, Try(t))
<1>1. /\ Quiet(Both, D, Skip) /\ Quiet(Both, D, Input) /\ Quiet(Both, D, Confirm)
  BY ErrIn, QSkip, QAsk
<1>2. ASSUME NEW t, Calm(t) PROVE Quiet(Both, D, t)
  <2> SUFFICES ASSUME NEW K, In(D, K) PROVE Does(Both, K, K, t, K)  BY DEF Quiet
  <2> QED  BY <1>2, InNoRes, ErrIn, CalmDoes
<1>3. /\ \A a, b : Quiet(Both, D, a) /\ Quiet(Both, D, b) => Quiet(Both, D, a ++ b)
      /\ \A f, S : Quiet(Both, D, Need(f, S))
  BY ErrIn, QSeq, QNeed
<1>4. \A f, S, t : Quiet(Both, D, t) => Quiet(Both, D, When(f, S, t)) /\ Quiet(Both, D, Instead(f, S, t))
  BY ErrIn, QWhen, QInstead
<1>5. \A S, t : Quiet(Both, D, t) => Quiet(Both, D, WhenOpt(S, t)) /\ Quiet(Both, D, UnlessOpt(S, t))
  BY QWhenOpt, QUnlessOpt
<1>6. \A t, n : Quiet(Both, D, t) /\ n \in 0..3 => Quiet(Both, D, Times(n, t))
  BY QTimes
<1>7. \A t : Quiet(Both, D, t) => Quiet(Both, D, Try(t))
  BY QTry
<1> QED  BY <1>1, <1>2, <1>3, <1>4, <1>5, <1>6, <1>7

\* The information about the partitions disturbs only what is known of sessions,
\* the versions only what hangs on them.
LEMMA QuietParts == Quiet(Both, "parts", print_fw_part_info)
<1> DEFINE Q(t) == Quiet(Both, "parts", t)
<1>1. /\ Calm(Cmd("flash")) /\ Calm(Cmd("flash_part")) /\ Calm(Cmd("metadata")) /\ Calm(Cmd("all_info"))
      /\ Calm(Cmd("BOOT_RO_GET"))
  <2> DEFINE S == {"flash", "flash_part", "metadata", "all_info", "BOOT_RO_GET"}
  <2>1. S \cap GuardedNames = {}  BY DEF GuardedNames
  <2>2. S \cap Loud = {}
    BY <2>1, GuardedIs, ClosesDomain DEF Loud, Stirs, Reads, Firsts, Counts, Queues, Polls
  <2> QED  BY <2>2, CalmRules
<1>2. Q(Cmd("multicfg"))
  <2> SUFFICES ASSUME NEW K, In("parts", K) PROVE Keeps("multicfg", K) /\ MayDo("multicfg", K)
    BY QCmd, ErrIn
  <2>1. "multicfg" \notin GuardedNames  BY DEF GuardedNames
  <2>2. NoRes(K) /\ NoneOpen(K) /\ K \cap {"dumped", "more", "none got", "fetched"} = {}  BY DEF In
  <2>3. KeepsSes("multicfg", K)  BY <2>2, OpensDomain DEF KeepsSes
  <2>4. KeepsAuth("multicfg", K) /\ KeepsMeasure("multicfg", K) /\ KeepsFw("multicfg", K)
    BY DEF KeepsAuth, KeepsMeasure, KeepsFw
  <2>5. KeepsLoop("multicfg", K)
    <3>1. \A m \in Modes : m.on # "multicfg"  BY ModeNames
    <3> QED  BY <3>1 DEF KeepsLoop
  <2> QED  BY <2>1, <2>2, <2>3, <2>4, <2>5, MayUnguarded, GuardedIs DEF Keeps
<1>3. /\ Q(Cmd("flash")) /\ Q(Cmd("flash_part")) /\ Q(Cmd("metadata")) /\ Q(Cmd("all_info"))
      /\ Q(Cmd("BOOT_RO_GET"))
  BY <1>1, QuietRules
<1>4. 2 \in 0..3 /\ Parts = 2  BY DEF Parts
<1>5. /\ \A a, b : Q(a) /\ Q(b) => Q(a ++ b)
      /\ \A f, S : Q(Need(f, S))
      /\ \A f, S, t : Q(t) => Q(When(f, S, t)) /\ Q(Instead(f, S, t))
      /\ \A S, t : Q(t) => Q(WhenOpt(S, t)) /\ Q(UnlessOpt(S, t))
      /\ \A t, n : Q(t) /\ n \in 0..3 => Q(Times(n, t))
      /\ \A t : Q(t) => Q(Try(t))
  BY QuietRules
<1> HIDE DEF Q
<1>6. Q(switchtec_fw_part_info_gen3)
  BY <1>3, <1>4, <1>5 DEF switchtec_fw_part_info_gen3, switchtec_fw_is_boot_ro,
     switchtec_fw_map_get_active, switchtec_fw_read, switchtec_fw_info_metadata_gen3
<1>7. /\ Q(switchtec_fw_part_info_gen4) /\ Q(switchtec_fw_part_info_gen5)
      /\ Q(switchtec_fw_part_info_gen6)
  BY <1>3, <1>5 DEF switchtec_fw_part_info_gen4, switchtec_fw_part_info_gen5,
     switchtec_fw_part_info_gen6, switchtec_fw_info_metadata_gen4, switchtec_fw_info_metadata_gen5,
     switchtec_fw_info_metadata_gen6
<1>8. Q(switchtec_fw_part_info)  BY <1>3, <1>4, <1>5, <1>6, <1>7 DEF switchtec_fw_part_info
<1>9. Q(get_multicfg)  BY <1>2, <1>4, <1>5 DEF get_multicfg, multicfg_subcmd
<1>10. Q(switchtec_fw_part_summary)  BY <1>5, <1>8, <1>9 DEF switchtec_fw_part_summary
<1>11. Q(print_fw_part_info)
  BY <1>3, <1>4, <1>5, <1>10 DEF print_fw_part_info, print_fw_part_info_main,
     print_fw_part_info_bl2_gen6, switchtec_fw_part_data_bl2
<1> QED  BY <1>11 DEF Q

LEMMA QuietVersions == Quiet(Err, "versions", switchtec_fw_file_secure_version_newer)
<1> DEFINE Q(t) == Quiet(Both, "versions", t)
<1>1. Q(Cmd("sn_ver"))
  <2> SUFFICES ASSUME NEW K, In("versions", K) PROVE Keeps("sn_ver", K) /\ MayDo("sn_ver", K)
    BY QCmd, ErrIn
  <2>1. "sn_ver" \notin GuardedNames  BY DEF GuardedNames
  <2>2. NoRes(K) /\ "twice" \notin K  BY DEF In
  <2>3. KeepsSes("sn_ver", K)
    BY OpensDomain, ClosesDomain DEF KeepsSes, Stirs, Reads, Firsts, Counts, Queues, Polls
  <2>4. KeepsAuth("sn_ver", K) /\ KeepsMeasure("sn_ver", K) /\ KeepsFw("sn_ver", K)
    BY <2>2 DEF KeepsAuth, KeepsMeasure, KeepsFw
  <2>5. KeepsLoop("sn_ver", K)
    <3>1. \A m \in Modes : m.on # "sn_ver"  BY ModeNames
    <3> QED  BY <3>1 DEF KeepsLoop
  <2> QED  BY <2>1, <2>2, <2>3, <2>4, <2>5, MayUnguarded, GuardedIs DEF Keeps
<1>2. /\ \A a, b : Q(a) /\ Q(b) => Q(a ++ b)
      /\ \A f, S : Q(Need(f, S))
      /\ \A f, S, t : Q(t) => Q(When(f, S, t))
      /\ \A t : Q(t) => Q(Try(t))
  BY QuietRules
<1> HIDE DEF Q
<1>3. Q(sn_ver_get_gen6)  BY <1>1, <1>2 DEF sn_ver_get_gen6
<1>4. Q(switchtec_sn_ver_get_with_phase)  BY <1>1, <1>2, <1>3 DEF switchtec_sn_ver_get_with_phase
<1>5. Quiet(Err, "versions", Try(switchtec_sn_ver_get_with_phase))  BY <1>4, QTry DEF Q
<1> QED  BY <1>5, QWhen DEF switchtec_fw_file_secure_version_newer

\* A command that nobody waits for keeps what it keeps when it is waited for.
LEMMA PostKeeps ==
  ASSUME NEW x \in {"TOGGLE", "TOGGLE_BL2"}, NEW K, NoRes(K), Keeps(x, K), MayDo(x, K)
  PROVE  PostOK(x, K, K)
<1> SUFFICES ASSUME NEW j, NEW s, Sane(j, s), Has(K, j, s), NEW y \in {s, Effect(x, j, s)}
             PROVE  May(x, j, s) /\ Has(K, [j EXCEPT !.res = "ok"], y)
  BY DEF PostOK
<1> DEFINE e == Effect(x, j, s)
           i == [j EXCEPT !.res = "ok"]
           g == Told2(j, x, j.left, e)
<1>1. May(x, j, s)  BY DEF MayDo
<1>2. Has(K, i, s)  BY ResSame
<1>3. EffectFields(e, x, j, s)  BY EffectDoes DEF Sane, SwitchSane
<1>4. ToldFields(g, x, j.left, j, e)  BY ToldIs DEF Sane, JobSane
<1>5. /\ x \notin DOMAIN Opens /\ x \notin DOMAIN Reads /\ x \notin DOMAIN Polls /\ x \notin Counts
      /\ x \notin Firsts /\ x \notin Queues
  BY OpensDomain DEF Reads, Polls, Counts, Firsts, Queues
<1>6. j.left \in Lefts(j, x, e)
  BY <1>5, IdleDomain DEF Lefts, Told, Gets, Sane, JobSane, JobFields
<1>7. \A f \in JobFields \ {"res"} : i[f] = j[f]  BY DEF Sane, JobSane, JobFields
<1> HIDE DEF e, i, g
<1>8. Knowing(i, x, j.left, j, e)
  <2>1. \A f \in JobFields \ {"res", "versions", "kmsk"} : g[f] = j[f]
    BY <1>4, <1>5, IdleDomain DEF ToldFields, Gets
  <2>2. g.kmsk = j.kmsk  BY <1>4 DEF ToldFields
  <2>3. g.versions = j.versions
    <3>1. g.versions = (j.versions \/ x = "sn_ver") /\ j.versions \in BOOLEAN /\ x # "sn_ver"
      BY <1>4 DEF ToldFields, Sane, JobSane
    <3> QED  BY <3>1
  <2> QED  BY <1>7, <2>1, <2>2, <2>3, IdleDomain DEF Knowing, g
<1>9. Has(K, i, e)  BY <1>3, <1>6, <1>8, AllKept
<1> QED  BY <1>1, <1>2, <1>9 DEF e, i

\* Success is reported where the partitions that were asked for are active, and an
\* error of the switch where those are that were.
LEMMA ToggleRuns == CallRuns("fw_toggle", fw_toggle)
<1> DEFINE D == {"fw_toggle", "no session"} \cup Dumps
           E == D \cup {"unsaved"}
           F == D \cup {"reported"}
           O == D \cup {"unsaved", "act kept"}
           A == O \cup Told0
           B == D \cup {"bl2"}
           M == D \cup {"moved"}
           T == D \cup {"toggle res"}
<1>1. /\ NoRes(D) /\ NoRes(E) /\ NoRes(F) /\ NoRes(O) /\ NoRes(A) /\ NoRes(B) /\ NoRes(M)
      /\ D \cap {"saved", "unsaved", "reported"} = {}
  BY DEF NoRes, Told0, Dumps
<1>2. /\ D \subseteq O /\ D \subseteq A /\ D \subseteq B /\ D \subseteq M /\ D \subseteq T /\ D \subseteq F
      /\ D \subseteq E /\ E \subseteq O /\ E \subseteq A /\ A = O \cup Told0
      /\ F = D \cup {"reported"} /\ B = D \cup {"bl2"} /\ M = D \cup {"moved"} /\ T = D \cup {"toggle res"}
  OBVIOUS
<1>3. /\ "unsaved" \in A /\ "unsaved" \in E /\ {"act kept", "told gen", "told phase"} \subseteq A
      /\ "moved" \in M /\ "bl2" \in B /\ "toggle res" \in T
      /\ "fw_toggle" \in F /\ "no session" \in F /\ Dumps \subseteq F /\ "reported" \in F
  BY DEF Told0
<1>4. Early(O) /\ O \subseteq AtFirst("fw_toggle")
  BY <1>1 DEF Early, Dumps, AtFirst, Reporting
<1>5. In("parts", F)
  <2>1. \A f \in Sessions : Opened[f] \notin F /\ Counted[f] \notin F
    BY Sessions7 DEF Dumps
  <2> QED  BY <1>1, <2>1 DEF In, NoneOpen, Dumps
<1>6. \A K \in {D, B} : Keeps("TOGGLE", K) /\ Keeps("TOGGLE_BL2", K)
  <2> SUFFICES ASSUME NEW K \in {D, B}, NEW x \in {"TOGGLE", "TOGGLE_BL2"} PROVE Keeps(x, K)
    OBVIOUS
  <2>1. x # "RESET" /\ x \notin DOMAIN Opens \cup DOMAIN Closes \cup {"RESET"} \cup Stirs
    BY OpensDomain, ClosesDomain DEF Stirs, Reads, Firsts, Counts, Queues, Polls
  <2>2. KeepsSes(x, K)  BY <2>1 DEF KeepsSes
  <2>3. KeepsAuth(x, K) /\ KeepsMeasure(x, K)  BY DEF KeepsAuth, KeepsMeasure
  <2>4. KeepsFw(x, K)
    <3>1. K \cap {"moved", "unmoved", "reported", "act kept"} = {}  BY DEF Dumps
    <3> QED  BY <3>1 DEF KeepsFw
  <2>5. KeepsLoop(x, K)
    <3>1. \A m \in Modes : m.on # x  BY ModeNames
    <3> QED  BY <3>1 DEF KeepsLoop
  <2> QED  BY <1>1, <2>1, <2>2, <2>3, <2>4, <2>5 DEF Keeps
<1> HIDE DEF D, E, F, O, A, B, M, T
<1>7. {"reported"} \subseteq FwFacts /\ {"toggle res"} \subseteq FwFacts /\ {"moved"} \subseteq FwFacts
      /\ {"bl2"} \subseteq FwFacts
  BY DEF FwFacts
<1>8. \A K : MayDo("TOGGLE", K) /\ MayDo("TOGGLE_BL2", K)
  <2>1. "TOGGLE" \notin GuardedNames /\ "TOGGLE_BL2" \notin GuardedNames  BY DEF GuardedNames
  <2> QED  BY <2>1, MayUnguarded, GuardedIs
\* Nothing was reported yet.
<1>9. \A K : "unsaved" \in K /\ D \subseteq K => Entails(K, F)
  <2> SUFFICES ASSUME NEW K, "unsaved" \in K, D \subseteq K, NEW j, NEW s, Has(K, j, s)
               PROVE  Has(F, j, s)
    BY DEF Entails
  <2>1. Has(D, j, s)  BY LessHas
  <2>2. HasFw(K, j, s)  BY DEF Has
  <2>3. HasFw({"reported"}, j, s)  BY <2>2 DEF HasFw
  <2> QED  BY <1>2, <1>7, <2>1, <2>3, OnlyFw, HasUnion
<1>10. Does(Both, F, O, switchtec_open, A)
  <2>1. Does(Both, E, O, switchtec_open, A)  BY <1>2, <1>4, ErrIn, ToldOpen
  <2>2. Entails(E, F) /\ Entails(O, O) /\ Entails(A, A)  BY <1>2, <1>3, <1>9, EntailsItself
  <2> QED  BY <2>1, <2>2, DoesWeaker
<1>11. Does(Both, F, A, ToggleTested, A)
  <2>1. Does(Both, E, A, ToggleTested, A)
    <3>1. Does(Both, E, A, Fails, A)  BY <1>1, <1>2, ErrIn, CallRules DEF Fails
    <3>2. Does(Both, E, A, When("gen", {3}, WhenOpt({"bl2", "key", "riotcore"}, Fails)), A)
      BY <1>1, <3>1, ErrIn, CallRules
    <3>3. Does(Both, E, A, When("gen", {4}, WhenOpt({"riotcore"}, Fails)), A)
      BY <1>1, <3>1, ErrIn, CallRules
    <3> QED  BY <3>2, <3>3, DoesSeq DEF ToggleTested
  <2>2. Entails(E, F) /\ Entails(A, A)  BY <1>2, <1>3, <1>9, EntailsItself
  <2> QED  BY <2>1, <2>2, DoesWeaker
\* In BL2 nothing is said of what is active.
<1>12. Does(Both, T, A, Instead("phase", {"BL2"}, WhenOpt({"firmware", "config"}, Post("TOGGLE"))
                                   ++ WhenOpt({"bl2"}, Try(Post("TOGGLE_BL2")))), A)
  <2>1. PostOK("TOGGLE", B, B) /\ PostOK("TOGGLE_BL2", B, B)
    BY <1>1, <1>6, <1>8, PostKeeps
  <2>2. Does(Both, T, B, Post("TOGGLE"), B)  BY <2>1, DoesPost
  <2>3. Does(Both, T, B, WhenOpt({"firmware", "config"}, Post("TOGGLE")), B)
    BY <2>2, LessKnown, DoesWhenOpt
  <2>4. Does(Both, B, B, Post("TOGGLE_BL2"), B)  BY <2>1, DoesPost
  <2>5. Does(Both, T, B, Try(Post("TOGGLE_BL2")), B)  BY <1>1, <2>4, ReturnsSame, DoesTry
  <2>6. Does(Both, T, B, WhenOpt({"bl2"}, Try(Post("TOGGLE_BL2"))), B)
    BY <2>5, LessKnown, DoesWhenOpt
  <2>7. Returns(B, "ok", T)
    <3> SUFFICES ASSUME NEW j, NEW s, Sane(j, s), Has(B, j, s) PROVE Has(T, [j EXCEPT !.res = "ok"], s)
      BY DEF Returns
    <3> DEFINE i == [j EXCEPT !.res = "ok"]
    <3>1. Has(B, i, s)  BY <1>1, ResSame
    <3> HIDE DEF i
    <3>2. HasFw(B, i, s)  BY <3>1 DEF Has
    <3>3. HasFw({"toggle res"}, i, s)  BY <1>3, <3>2 DEF HasFw, Moved, Unmoved, Other
    <3>4. Has(D, i, s)  BY <1>2, <3>1, LessHas
    <3>5. Has(T, i, s)  BY <1>2, <1>7, <3>3, <3>4, OnlyFw, HasUnion
    <3> QED  BY <3>5 DEF i
  <2>8. Does(Both, T, B, [k |-> "leave"], A)  BY <2>7, ErrIn, DoesLeave
  <2>9. Does(Both, T, B, WhenOpt({"firmware", "config"}, Post("TOGGLE"))
                           ++ WhenOpt({"bl2"}, Try(Post("TOGGLE_BL2"))), B)
    BY <2>3, <2>6, DoesSeq
  <2>10. Does(Both, T, B, (WhenOpt({"firmware", "config"}, Post("TOGGLE"))
                             ++ WhenOpt({"bl2"}, Try(Post("TOGGLE_BL2")))) ++ [k |-> "leave"], A)
    BY <2>8, <2>9, DoesSeq
  <2>11. KnowsNot(A, "phase", {"BL2"}, A)  BY LessKnown
  <2>12. Knows(A, "phase", {"BL2"}, B)
    <3> SUFFICES ASSUME NEW j, NEW s, Has(A, j, s), j.phase \in {"BL2"} PROVE Has(B, j, s)
      BY DEF Knows
    <3>1. HasFw({"bl2"}, j, s)  BY DEF HasFw
    <3>2. Has(D, j, s)  BY <1>2, LessHas
    <3> QED  BY <1>2, <1>7, <3>1, <3>2, OnlyFw, HasUnion
  <2> QED  BY <2>10, <2>11, <2>12, DoesWhen DEF Instead
\* Elsewhere the switch says whether it has toggled them.
<1>13. Does(Both, T, A, Cmd("TOGGLE"), M)
  <2>1. Gains("TOGGLE", A, {"moved"})
    <3> SUFFICES ASSUME NEW j, NEW s, NEW e, NEW n, NEW i, Has(A, j, s),
                        EffectFields(e, "TOGGLE", j, s), Known(i, "TOGGLE", n, j, e)
                 PROVE  Has({"moved"}, i, e)
      BY DEF Gains
    <3>1. e.act = Flip(s.act, Asked(j.opt, s.gen, s.phase))  BY DEF EffectFields
    <3>2. i.act0 = j.act0 /\ i.opt = j.opt /\ i.gen = j.gen /\ i.phase = j.phase /\ i.met = j.met
      BY DEF Known, Constant
    <3>3. HasFw(A, j, s)  BY DEF Has
    <3>4. /\ s.act = j.act0 \/ "act" \in j.met
          /\ j.gen = s.gen
          /\ j.phase = s.phase \/ "phase" \in j.met
      BY <1>3, <3>3 DEF HasFw
    <3>5. Moved(i, e)  BY <3>1, <3>2, <3>4 DEF Moved, Other
    <3>6. HasFw({"moved"}, i, e)  BY <3>5 DEF HasFw
    <3> QED  BY <1>7, <3>6, OnlyFw
  <2>2. Leaves("TOGGLE", A, {"toggle res"})
    <3> SUFFICES ASSUME NEW j, NEW s, NEW e, NEW y, NEW i, Has(A, j, s), Failing(i, "TOGGLE", j),
                        (i.res = "mrpc" /\ y = s) \/ (i.res = "sys" /\ y \in {s, e})
                 PROVE  Has({"toggle res"}, i, y)
      BY DEF Leaves
    <3>1. i.act0 = j.act0 /\ i.phase = j.phase /\ i.met = j.met  BY FailingIs DEF Constant
    <3>2. HasFw(A, j, s)  BY DEF Has
    <3>3. s.act = j.act0 \/ "act" \in j.met  BY <1>3, <3>2 DEF HasFw
    <3>4. i.res # "ok" /\ (i.res = "mrpc" => Unmoved(i, y))  BY <3>1, <3>3 DEF Unmoved, Other
    <3>5. HasFw({"toggle res"}, i, y)  BY <3>4 DEF HasFw
    <3> QED  BY <1>7, <3>5, OnlyFw
  <2>3. CmdOK("TOGGLE", A, M, T)  BY <1>2, <1>6, <1>8, <2>1, <2>2, CmdGains
  <2> QED  BY <2>3, ErrIn, DoesCmd
<1>14. Does(Both, F, A, Try(switchtec_fw_toggle_active_partition), T)
  <2>1. Does(Both, T, A, switchtec_fw_toggle_active_partition, M)
    BY <1>12, <1>13, DoesSeq DEF switchtec_fw_toggle_active_partition
  <2>2. Returns(M, "ok", T)
    <3> SUFFICES ASSUME NEW j, NEW s, Sane(j, s), Has(M, j, s) PROVE Has(T, [j EXCEPT !.res = "ok"], s)
      BY DEF Returns
    <3> DEFINE i == [j EXCEPT !.res = "ok"]
    <3>0. i.res = "ok"  BY IdleDomain DEF Sane, JobSane, JobFields
    <3>1. Has(M, i, s)  BY <1>1, ResSame
    <3> HIDE DEF i
    <3>2. HasFw(M, i, s)  BY <3>1 DEF Has
    <3>3. HasFw({"toggle res"}, i, s)  BY <1>3, <3>0, <3>2 DEF HasFw
    <3>4. Has(D, i, s)  BY <1>2, <3>1, LessHas
    <3>5. Has(T, i, s)  BY <1>2, <1>7, <3>3, <3>4, OnlyFw, HasUnion
    <3> QED  BY <3>5 DEF i
  <2> QED  BY <2>1, <2>2, DoesTry
<1>15. Does(Both, F, T, SaveResult, F)
  <2>1. Saves(T, F)
    <3> SUFFICES ASSUME NEW j, NEW s, Sane(j, s), Has(T, j, s)
                 PROVE  Has(F, [j EXCEPT !.saved = j.res], s)
      BY DEF Saves
    <3> DEFINE i == [j EXCEPT !.saved = j.res]
    <3>1. /\ i.saved = j.res /\ i.act0 = j.act0 /\ i.phase = j.phase /\ i.met = j.met /\ i.opt = j.opt
          /\ i.gen = j.gen
      BY IdleDomain DEF Sane, JobSane, JobFields
    <3>2. Saves(D, D)  BY <1>1, SavedSame
    <3>3. HasFw(T, j, s)  BY DEF Has
    <3>4. Has(D, i, s)
      <4>1. Has(D, j, s)  BY <1>2, LessHas
      <4> QED  BY <3>2, <4>1 DEF Saves
    <3> HIDE DEF i
    <3>5. (j.res = "ok" => Moved(j, s)) /\ (j.res = "mrpc" => Unmoved(j, s))  BY <1>3, <3>3 DEF HasFw
    <3>6. (i.saved = "ok" => Moved(i, s)) /\ (i.saved = "mrpc" => Unmoved(i, s))
      BY <3>1, <3>5 DEF Moved, Unmoved, Other
    <3>7. HasFw({"reported"}, i, s)  BY <3>6 DEF HasFw
    <3>8. Has(F, i, s)  BY <1>2, <1>7, <3>4, <3>7, OnlyFw, HasUnion
    <3> QED  BY <3>8 DEF i
  <2> QED  BY <2>1, DoesSave
<1>16. Does(Both, F, F, print_fw_part_info, F)  BY <1>5, QuietParts, QuietDoes
<1>17. Does(Both, F, A, WhenOpt(Types, ToggleTested ++ Try(switchtec_fw_toggle_active_partition)
                                          ++ SaveResult), F)
  <2>1. Does(Both, F, A, ToggleTested ++ Try(switchtec_fw_toggle_active_partition), T)
    BY <1>11, <1>14, DoesSeq
  <2>2. Does(Both, F, A, ToggleTested ++ Try(switchtec_fw_toggle_active_partition) ++ SaveResult, F)
    BY <1>15, <2>1, DoesSeq
  <2>3. KnowsOpt(A, Types, TRUE, A)  BY LessKnown
  <2>4. KnowsOpt(A, Types, FALSE, F)  BY <1>2, <1>3, <1>9 DEF KnowsOpt, Entails
  <2> QED  BY <2>2, <2>3, <2>4, DoesWhenOpt
<1>18. Does(Both, F, O, switchtec_open ++ fw_toggle, F)
  <2>1. Does(Both, F, A, fw_toggle, F)  BY <1>16, <1>17, DoesSeq DEF fw_toggle
  <2> QED  BY <1>10, <2>1, DoesSeq
<1>19. Faces({"ok"}, F) /\ Faces(Both, F)
  <2>1. "fw_toggle" \in Reporting  BY DEF Reporting
  <2>2. Faces(Err, F) /\ Faces({"ok"}, F)  BY <1>3, <2>1, ReportFaces
  <2> QED  BY <2>2 DEF Faces, Both, Err
<1> QED  BY <1>1, <1>4, <1>18, <1>19, FinishRuns

\* The flag of the boot partition, where it is to be set: only a Gen3 switch has
\* it, and the command that sets it may fail.
LEMMA RestoreDoes ==
  ASSUME NEW D, NoRes(D), D \cap (AuthFacts \cup MeasureFacts \cup FwFacts \cup LoopFacts) = {},
         NEW R, NEW F
  PROVE  Does(R, F, D, Try(switchtec_fw_set_boot_ro("SET_BOOT_RO")), D \cup {"restored"})
<1> DEFINE L == D \cup {"restored"}
<1>1. NoRes(L) /\ L = D \cup {"restored"}  BY DEF NoRes
<1>2. {"restored"} \subseteq FwFacts  BY DEF FwFacts
<1> HIDE DEF L
<1>3. \A j, s : Has(D, j, s) /\ Restored(j, s) => Has(L, j, s)
  <2> SUFFICES ASSUME NEW j, NEW s, Has(D, j, s), Restored(j, s) PROVE Has(L, j, s)  OBVIOUS
  <2>1. HasFw({"restored"}, j, s)  BY DEF HasFw
  <2> QED  BY <1>1, <1>2, <2>1, OnlyFw, HasUnion
<1>4. GivesUp(D, "gen", {3}, L)
  <2> SUFFICES ASSUME NEW j, NEW s, Sane(j, s), Has(D, j, s), j.gen \notin {3}
               PROVE  Has(L, [j EXCEPT !.res = "err"], s)
    BY DEF GivesUp
  <2> DEFINE i == [j EXCEPT !.res = "err"]
  <2>1. i.gen = j.gen  BY IdleDomain DEF Sane, JobSane, JobFields
  <2>2. Has(D, i, s)  BY ResSame
  <2> HIDE DEF i
  <2>3. Has(L, i, s)  BY <1>3, <2>1, <2>2 DEF Restored
  <2> QED  BY <2>3 DEF i
<1>5. Does(Err, L, D, Need("gen", {3}), D)  BY <1>4, LessKnown, ErrIn, DoesNeed
<1>6. Keeps("SET_BOOT_RO", D) /\ MayDo("SET_BOOT_RO", D)
  <2>1. "SET_BOOT_RO" \notin GuardedNames  BY DEF GuardedNames
  <2>2. "SET_BOOT_RO" \notin Loud
    BY <2>1, GuardedIs, ClosesDomain DEF Loud, Stirs, Reads, Firsts, Counts, Queues, Polls
  <2> QED  BY <2>1, <2>2, GuardedIs, MayUnguarded, KeepsCalm
<1>7. Gains("SET_BOOT_RO", D, {"restored"})
  <2> SUFFICES ASSUME NEW j, NEW s, NEW e, NEW i, EffectFields(e, "SET_BOOT_RO", j, s)
               PROVE  Has({"restored"}, i, e)
    BY DEF Gains
  <2>1. e.bootro = "ro"  BY DEF EffectFields
  <2>2. HasFw({"restored"}, i, e)  BY <2>1 DEF HasFw, Restored
  <2> QED  BY <1>2, <2>2, OnlyFw
<1>8. Leaves("SET_BOOT_RO", D, {"restored"})
  <2> SUFFICES ASSUME NEW j, NEW y, NEW i, Failing(i, "SET_BOOT_RO", j) PROVE Has({"restored"}, i, y)
    BY DEF Leaves
  <2>1. "SET_BOOT_RO" \in i.failed  BY DEF Failing
  <2>2. HasFw({"restored"}, i, y)  BY <2>1 DEF HasFw, Restored
  <2> QED  BY <1>2, <2>2, OnlyFw
<1>9. Does(Err, L, D, Cmd("SET_BOOT_RO"), L)
  <2>1. CmdOK("SET_BOOT_RO", D, L, L)  BY <1>1, <1>6, <1>7, <1>8, CmdGains
  <2> QED  BY <2>1, ErrIn, DoesCmd
<1>10. Does(Err, L, D, switchtec_fw_set_boot_ro("SET_BOOT_RO"), L)
  BY <1>5, <1>9, DoesSeq DEF switchtec_fw_set_boot_ro
<1> QED  BY <1>1, <1>10, ReturnsSame, DoesTry

\* Where the image was written, or failed to be, the boot partition is read-only
\* again, unless setting that failed or another call has changed it.
LEMMA UpdateRuns == CallRuns("fw_update", fw_update)
<1> DEFINE D == {"fw_update", "no session"} \cup Dumps
           E == {"fw_update", "no write"}
           F == {"fw_update", "restored if written"}
           O == D \cup {"no write", "twice"}
           C == O \cup {"sure"}
           K == D \cup {"no write", "sure"}
           L == D \cup {"restored"}
<1>1. /\ NoRes(D) /\ NoRes(E) /\ NoRes(F) /\ NoRes(O) /\ NoRes(C) /\ NoRes(K) /\ NoRes(L)
      /\ D \cap {"saved", "unsaved", "reported"} = {}
  BY DEF NoRes, Dumps
<1>2. /\ D \subseteq O /\ D \subseteq C /\ D \subseteq K /\ E \subseteq O /\ E \subseteq C /\ E \subseteq K
      /\ O \subseteq C /\ K \subseteq C /\ C = O \cup {"sure"} /\ C = K \cup {"twice"}
      /\ L = D \cup {"restored"} /\ D \subseteq L
      /\ F = {"fw_update"} \cup {"restored if written"} /\ E = {"fw_update"} \cup {"no write"}
  OBVIOUS
<1>3. /\ "sure" \in K /\ "sure" \in C /\ "twice" \in C /\ "twice" \notin K /\ "no write" \in E
      /\ "fw_update" \in E /\ "fw_update" \in F /\ "fw_update" \in L /\ "restored" \in L
      /\ "restored if written" \in F /\ "no session" \in L /\ Dumps \subseteq L
      /\ {"fw_update"} \subseteq E /\ {"fw_update"} \subseteq L
  BY DEF Dumps
<1>4. Early(O) /\ O \subseteq AtFirst("fw_update")
  BY <1>1 DEF Early, Dumps, AtFirst, Reporting
<1>5. D \cap (AuthFacts \cup MeasureFacts \cup FwFacts \cup LoopFacts) = {}
  BY DEF AuthFacts, MeasureFacts, FwFacts, LoopFacts, Dumps
<1>6. In("parts", D) /\ In("versions", K)
  <2>1. \A f \in Sessions : Opened[f] \notin D /\ Counted[f] \notin D
    BY Sessions7 DEF Dumps
  <2> QED  BY <1>1, <1>3, <2>1 DEF In, NoneOpen, Dumps
<1>7. C \cap {"restored", "restored if written", "told sec", "fresh", "told kmsk", "no kmsk"} = {}
      /\ D \cap {"no write", "restored if written"} = {}
  BY DEF Dumps
<1> HIDE DEF D, E, F, O, C, K, L
<1>8. {"restored if written"} \subseteq FwFacts /\ {"twice"} \subseteq AuthFacts
      /\ {"sure"} \subseteq AuthFacts
  BY DEF FwFacts, AuthFacts
<1>9. Entails(E, F) /\ Entails(F, F) /\ \A X : Entails(X, X)
  <2>1. Entails(E, F)
    <3> SUFFICES ASSUME NEW j, NEW s, Has(E, j, s) PROVE Has(F, j, s)  BY DEF Entails
    <3>1. Has({"fw_update"}, j, s)  BY <1>3, LessHas
    <3>2. HasFw(E, j, s)  BY DEF Has
    <3>3. HasFw({"restored if written"}, j, s)  BY <1>3, <3>2 DEF HasFw
    <3> QED  BY <1>2, <1>8, <3>1, <3>3, OnlyFw, HasUnion
  <2> QED  BY <2>1, EntailsItself
<1>10. Does(Err, E, O, switchtec_open, O)
  <2>1. Does(Err, E, O, switchtec_open, O \cup Told0)  BY <1>2, <1>4, ErrIn, ToldOpen
  <2> QED  BY <2>1, DoesLess
\* Sure once.
<1>11. Does(Err, E, O, Confirm, C)
  <2>1. Agreed(O, C, 1)
    <3> SUFFICES ASSUME NEW j, NEW s, Sane(j, s), Has(O, j, s)
                 PROVE  Has(C, [[j EXCEPT !.sure = @ + 1] EXCEPT !.res = "ok"], s)
      BY DEF Agreed
    <3> DEFINE i == [[j EXCEPT !.sure = @ + 1] EXCEPT !.res = "ok"]
    <3>0. Agreed(O, O, 1)  BY <1>1, AgreedSame
    <3>1. Has(O, i, s)  BY <3>0 DEF Agreed
    <3>2. i.sure = j.sure + 1 /\ j.sure \in Nat  BY IdleDomain DEF Sane, JobSane, JobFields
    <3> HIDE DEF i
    <3>3. i.sure >= 1  BY <3>2
    <3>4. HasAuth({"sure"}, i, s)  BY <3>3 DEF HasAuth
    <3>5. Has(O \cup {"sure"}, i, s)  BY <1>8, <3>1, <3>4, OnlyAuth, HasUnion
    <3> QED  BY <1>2, <3>5 DEF i
  <2>2. Returns(O, "err", E)  BY <1>1, <1>2, LessKnown
  <2> QED  BY <2>1, <2>2, ErrIn, DoesConfirm
\* The flag is taken away for the boot partition.
<1>12. Does(Err, E, C, WhenOpt({"boot"}, WhenOpt({"set_boot_rw"}, Try(switchtec_fw_set_boot_ro("SET_BOOT_RW")))
                           ++ Try(switchtec_fw_is_boot_ro) ++ Need("bootro", {"rw", "unknown"})), C)
  <2>1. Keeps("SET_BOOT_RW", C)
    <3>1. "SET_BOOT_RW" \notin DOMAIN Opens \cup DOMAIN Closes \cup {"RESET"} \cup Stirs
      BY OpensDomain, ClosesDomain DEF Stirs, Reads, Firsts, Counts, Queues, Polls
    <3>2. KeepsSes("SET_BOOT_RW", C)  BY <3>1 DEF KeepsSes
    <3>3. KeepsAuth("SET_BOOT_RW", C) /\ KeepsMeasure("SET_BOOT_RW", C)  BY DEF KeepsAuth, KeepsMeasure
    <3>4. KeepsFw("SET_BOOT_RW", C)  BY <1>7 DEF KeepsFw
    <3>5. KeepsLoop("SET_BOOT_RW", C)
      <4>1. \A m \in Modes : m.on # "SET_BOOT_RW"  BY ModeNames
      <4> QED  BY <4>1 DEF KeepsLoop
    <3> QED  BY <1>1, <3>2, <3>3, <3>4, <3>5 DEF Keeps
  <2>2. MayDo("SET_BOOT_RW", C) /\ "BOOT_RO_GET" \notin Loud
    <3>1. "SET_BOOT_RW" \notin GuardedNames /\ "BOOT_RO_GET" \notin GuardedNames  BY DEF GuardedNames
    <3>2. "BOOT_RO_GET" \notin Loud
      BY <3>1, GuardedIs, ClosesDomain DEF Loud, Stirs, Reads, Firsts, Counts, Queues, Polls
    <3> QED  BY <3>1, <3>2, GuardedIs, MayUnguarded
  <2>3. Does(Err, C, C, Cmd("SET_BOOT_RW"), C)  BY <2>1, <2>2, ErrIn, DoesKeep
  <2>4. Does(Err, C, C, Need("gen", {3}), C)  BY <1>1, ErrIn, CallRules
  <2>5. Does(Err, C, C, switchtec_fw_set_boot_ro("SET_BOOT_RW"), C)
    BY <2>3, <2>4, DoesSeq DEF switchtec_fw_set_boot_ro
  <2>6. Does(Err, E, C, Try(switchtec_fw_set_boot_ro("SET_BOOT_RW")), C)
    BY <1>1, <2>5, ReturnsSame, DoesTry
  <2>7. Calm(Try(switchtec_fw_is_boot_ro))  BY <2>2, CalmRules DEF switchtec_fw_is_boot_ro
  <2>8. Does(Err, E, C, Try(switchtec_fw_is_boot_ro), C)  BY <1>1, <1>2, <2>7, ErrIn, CalmDoes
  <2>9. Does(Err, E, C, Need("bootro", {"rw", "unknown"}), C)  BY <1>1, <1>2, ErrIn, CallRules
  <2>10. Does(Err, E, C, WhenOpt({"set_boot_rw"}, Try(switchtec_fw_set_boot_ro("SET_BOOT_RW"))), C)
    BY <1>1, <2>6, ErrIn, CallRules
  <2>11. Does(Err, E, C, WhenOpt({"set_boot_rw"}, Try(switchtec_fw_set_boot_ro("SET_BOOT_RW")))
                           ++ Try(switchtec_fw_is_boot_ro), C)
    BY <2>8, <2>10, DoesSeq
  <2>12. Does(Err, E, C, WhenOpt({"set_boot_rw"}, Try(switchtec_fw_set_boot_ro("SET_BOOT_RW")))
                           ++ Try(switchtec_fw_is_boot_ro) ++ Need("bootro", {"rw", "unknown"}), C)
    BY <2>9, <2>11, DoesSeq
  <2> QED  BY <1>1, <2>12, ErrIn, CallRules
\* The image is newer: sure twice.
<1>13. Does(Err, E, C, switchtec_fw_file_secure_version_newer, K)
  <2>1. Does(Err, E, K, switchtec_fw_file_secure_version_newer, K)
    BY <1>2, <1>6, QuietVersions, QuietDoes
  <2> QED  BY <1>2, <2>1, DoesLess
\* The image is newer: sure twice.
<1>14. Does(Err, E, K, When("versions", {TRUE}, WhenOpt({"newer"}, Confirm)), C)
  <2>1. Agreed(K, C, 1)
    <3> SUFFICES ASSUME NEW j, NEW s, Sane(j, s), Has(K, j, s)
                 PROVE  Has(C, [[j EXCEPT !.sure = @ + 1] EXCEPT !.res = "ok"], s)
      BY DEF Agreed
    <3> DEFINE i == [[j EXCEPT !.sure = @ + 1] EXCEPT !.res = "ok"]
    <3>0. Agreed(K, K, 1)  BY <1>1, AgreedSame
    <3>1. Has(K, i, s)  BY <3>0 DEF Agreed
    <3>2. i.sure = j.sure + 1 /\ j.sure \in Nat  BY IdleDomain DEF Sane, JobSane, JobFields
    <3> HIDE DEF i
    <3>3. HasAuth(K, j, s)  BY DEF Has
    <3>4. j.sure >= 1  BY <1>3, <3>3 DEF HasAuth
    <3>5. i.sure >= 2  BY <3>2, <3>4
    <3>6. HasAuth({"twice"}, i, s)  BY <3>5 DEF HasAuth
    <3>7. Has(K \cup {"twice"}, i, s)  BY <1>8, <3>1, <3>6, OnlyAuth, HasUnion
    <3> QED  BY <1>2, <3>7 DEF i
  <2>2. Returns(K, "err", E)  BY <1>1, <1>2, LessKnown
  <2>3. Does(Err, E, K, Confirm, C)  BY <2>1, <2>2, ErrIn, DoesConfirm
  <2>4. KnowsOpt(K, {"newer"}, FALSE, C)
    <3> SUFFICES ASSUME NEW j, NEW s, Has(K, j, s), (j.opt \cap {"newer"} # {}) = FALSE
                 PROVE  Has(C, j, s)
      BY DEF KnowsOpt
    <3>1. HasAuth({"twice"}, j, s)  BY DEF HasAuth
    <3>2. Has(K \cup {"twice"}, j, s)  BY <1>8, <3>1, OnlyAuth, HasUnion
    <3> QED  BY <1>2, <3>2
  <2>5. KnowsNot(K, "versions", {TRUE}, C)
    <3> SUFFICES ASSUME NEW j, NEW s, Has(K, j, s), j.versions \notin {TRUE}
                 PROVE  Has(C, j, s)
      BY DEF KnowsNot
    <3>1. HasAuth({"twice"}, j, s)  BY DEF HasAuth
    <3>2. Has(K \cup {"twice"}, j, s)  BY <1>8, <3>1, OnlyAuth, HasUnion
    <3> QED  BY <1>2, <3>2
  <2>6. Knows(K, "versions", {TRUE}, K) /\ KnowsOpt(K, {"newer"}, TRUE, K)  BY LessKnown
  <2>7. Does(Err, E, K, WhenOpt({"newer"}, Confirm), C)  BY <2>3, <2>4, <2>6, DoesWhenOpt
  <2> QED  BY <2>5, <2>6, <2>7, DoesWhen
<1>15. ASSUME NEW t, NEW X, Does(Err, E, O, t, X) PROVE Does(Err, F, O, t, X)
  <2>1. Entails(O, O) /\ Entails(X, X) /\ Entails(E, F) /\ Err \subseteq Err  BY <1>9
  <2> QED  BY <1>15, <2>1, DoesWeaker
<1>16. Does(Err, F, O, switchtec_open, O)  BY <1>10, <1>15
\* Up to the first block of the image.
<1>17. Does(Err, F, O, Input ++ Need("phase", {"BL2", "FW"}) ++ Input ++ Confirm
    ++ UnlessOpt({"boot"}, WhenOpt({"set_boot_rw"}, Fails))
    ++ WhenOpt({"boot"}, WhenOpt({"set_boot_rw"}, Try(switchtec_fw_set_boot_ro("SET_BOOT_RW")))
                           ++ Try(switchtec_fw_is_boot_ro) ++ Need("bootro", {"rw", "unknown"}))
    ++ switchtec_fw_file_secure_version_newer ++ When("versions", {TRUE}, WhenOpt({"newer"}, Confirm)), C)
  <2>1. Does(Err, E, O, Input, O) /\ Does(Err, E, O, Need("phase", {"BL2", "FW"}), O)
    BY <1>1, <1>2, ErrIn, CallRules
  <2>2. Does(Err, E, O, Input ++ Need("phase", {"BL2", "FW"}) ++ Input, O)  BY <2>1, DoesSeq
  <2>3. Does(Err, E, O, Input ++ Need("phase", {"BL2", "FW"}) ++ Input ++ Confirm, C)
    BY <1>11, <2>2, DoesSeq
  <2>4. Does(Err, E, C, Fails, C)  BY <1>1, <1>2, ErrIn, CallRules DEF Fails
  <2>5. Does(Err, E, C, UnlessOpt({"boot"}, WhenOpt({"set_boot_rw"}, Fails)), C)
    <3>1. Does(Err, E, C, WhenOpt({"set_boot_rw"}, Fails), C)  BY <1>1, <2>4, ErrIn, CallRules
    <3> QED  BY <1>1, <3>1, ErrIn, CallRules
  <2>6. Does(Err, E, O, Input ++ Need("phase", {"BL2", "FW"}) ++ Input ++ Confirm
    ++ UnlessOpt({"boot"}, WhenOpt({"set_boot_rw"}, Fails)), C)
    BY <2>3, <2>5, DoesSeq
  <2>7. Does(Err, E, O, Input ++ Need("phase", {"BL2", "FW"}) ++ Input ++ Confirm
    ++ UnlessOpt({"boot"}, WhenOpt({"set_boot_rw"}, Fails))
    ++ WhenOpt({"boot"}, WhenOpt({"set_boot_rw"}, Try(switchtec_fw_set_boot_ro("SET_BOOT_RW")))
                           ++ Try(switchtec_fw_is_boot_ro) ++ Need("bootro", {"rw", "unknown"})), C)
    BY <1>12, <2>6, DoesSeq
  <2>8. Does(Err, E, O, Input ++ Need("phase", {"BL2", "FW"}) ++ Input ++ Confirm
    ++ UnlessOpt({"boot"}, WhenOpt({"set_boot_rw"}, Fails))
    ++ WhenOpt({"boot"}, WhenOpt({"set_boot_rw"}, Try(switchtec_fw_set_boot_ro("SET_BOOT_RW")))
                           ++ Try(switchtec_fw_is_boot_ro) ++ Need("bootro", {"rw", "unknown"}))
    ++ switchtec_fw_file_secure_version_newer, K)
    BY <1>13, <2>7, DoesSeq
  <2>9. Does(Err, E, O, Input ++ Need("phase", {"BL2", "FW"}) ++ Input ++ Confirm
    ++ UnlessOpt({"boot"}, WhenOpt({"set_boot_rw"}, Fails))
    ++ WhenOpt({"boot"}, WhenOpt({"set_boot_rw"}, Try(switchtec_fw_set_boot_ro("SET_BOOT_RW")))
                           ++ Try(switchtec_fw_is_boot_ro) ++ Need("bootro", {"rw", "unknown"}))
    ++ switchtec_fw_file_secure_version_newer ++ When("versions", {TRUE}, WhenOpt({"newer"}, Confirm)), C)
    BY <1>14, <2>8, DoesSeq
  <2> QED  BY <1>15, <2>9
\* The image is written, or not; the flag is set again.
<1>18. Does(Err, F, C, Try(Cmd("WRITE")), D)
  <2>1. MayDo("WRITE", C)
    <3>1. "WRITE" \in MfgNames /\ "WRITE" \notin Keyed \cup SignedCmds  BY DEF MfgNames, ForGood, Keyed, SignedCmds
    <3> QED  BY <1>3, <3>1, MayMfg
  <2>2. Keeps("WRITE", D)
    <3>1. "WRITE" \in MfgNames  BY DEF MfgNames
    <3>2. KeepsAuth("WRITE", D)  BY DEF KeepsAuth
    <3>3. KeepsFw("WRITE", D)  BY <1>7 DEF KeepsFw
    <3> QED  BY <1>1, <3>1, <3>2, <3>3, KeepsMfg
  <2>3. Does(Err, D, C, Cmd("WRITE"), D)  BY <1>2, <2>1, <2>2, ErrIn, DoesKeep
  <2> QED  BY <1>1, <2>3, ReturnsSame, DoesTry
<1>19. Does(Err, F, D, SaveResult, D)  BY <1>1, SavedSame, DoesSave
<1>20. Does(Err, F, D, When("saved", {"ok"}, Try(print_fw_part_info)), D)
  <2>1. Does(Both, D, D, print_fw_part_info, D)  BY <1>6, QuietParts, QuietDoes
  <2>2. Does(Err, F, D, Try(print_fw_part_info), D)  BY <1>1, <2>1, ReturnsSame, DoesTry
  <2> QED  BY <1>1, <2>2, ErrIn, CallRules
<1>21. Does(Err, F, D, WhenOpt({"set_boot_rw"}, Try(switchtec_fw_set_boot_ro("SET_BOOT_RO"))), L)
  <2>1. Does(Err, F, D, Try(switchtec_fw_set_boot_ro("SET_BOOT_RO")), L)  BY <1>1, <1>2, <1>5, RestoreDoes
  <2>2. KnowsOpt(D, {"set_boot_rw"}, TRUE, D)  BY LessKnown
  <2>3. KnowsOpt(D, {"set_boot_rw"}, FALSE, L)
    <3> SUFFICES ASSUME NEW j, NEW s, Has(D, j, s), (j.opt \cap {"set_boot_rw"} # {}) = FALSE
                 PROVE  Has(L, j, s)
      BY DEF KnowsOpt
    <3>1. HasFw({"restored"}, j, s)  BY DEF HasFw, Restored
    <3>2. {"restored"} \subseteq FwFacts  BY DEF FwFacts
    <3>3. Has(D \cup {"restored"}, j, s)  BY <3>1, <3>2, OnlyFw, HasUnion
    <3> QED  BY <1>2, <3>3
  <2> QED  BY <2>1, <2>2, <2>3, DoesWhenOpt
<1>22. Does(Err, F, L, Need("saved", {"ok"}), L)
  <2>1. GivesUp(L, "saved", {"ok"}, F)
    <3> SUFFICES ASSUME NEW j, NEW s, Sane(j, s), Has(L, j, s)
                 PROVE  Has(F, [j EXCEPT !.res = "err"], s)
      BY DEF GivesUp
    <3> DEFINE i == [j EXCEPT !.res = "err"]
    <3>1. Has(L, i, s)  BY <1>1, ResSame
    <3> HIDE DEF i
    <3>2. Has({"fw_update"}, i, s)  BY <1>3, <3>1, LessHas
    <3>3. HasFw(L, i, s)  BY <3>1 DEF Has
    <3>4. HasFw({"restored if written"}, i, s)  BY <1>3, <3>3 DEF HasFw
    <3>5. Has({"fw_update"} \cup {"restored if written"}, i, s)  BY <1>8, <3>2, <3>4, OnlyFw, HasUnion
    <3> QED  BY <1>2, <3>5 DEF i
  <2>2. Knows(L, "saved", {"ok"}, L)  BY LessKnown
  <2> QED  BY <2>1, <2>2, ErrIn, DoesNeed
<1>23. Does(Err, F, O, switchtec_open ++ fw_update, L)
  <2>1. ASSUME NEW p, Does(Err, F, O, p, C)
        PROVE  Does(Err, F, O, p ++ Try(Cmd("WRITE")) ++ SaveResult
                   ++ When("saved", {"ok"}, Try(print_fw_part_info))
                   ++ WhenOpt({"set_boot_rw"}, Try(switchtec_fw_set_boot_ro("SET_BOOT_RO")))
                   ++ Need("saved", {"ok"}), L)
    <3>1. Does(Err, F, O, p ++ Try(Cmd("WRITE")), D)  BY <1>18, <2>1, DoesSeq
    <3>2. Does(Err, F, O, p ++ Try(Cmd("WRITE")) ++ SaveResult, D)  BY <1>19, <3>1, DoesSeq
    <3>3. Does(Err, F, O, p ++ Try(Cmd("WRITE")) ++ SaveResult
                   ++ When("saved", {"ok"}, Try(print_fw_part_info)), D)
      BY <1>20, <3>2, DoesSeq
    <3>4. Does(Err, F, O, p ++ Try(Cmd("WRITE")) ++ SaveResult
                   ++ When("saved", {"ok"}, Try(print_fw_part_info))
                   ++ WhenOpt({"set_boot_rw"}, Try(switchtec_fw_set_boot_ro("SET_BOOT_RO"))), L)
      BY <1>21, <3>3, DoesSeq
    <3> QED  BY <1>22, <3>4, DoesSeq
  <2>2. Does(Err, F, O, fw_update, L)  BY <1>17, <2>1 DEF fw_update
  <2> QED  BY <1>16, <2>2, DoesSeq
<1>24. Faces(Err, F) /\ Faces({"ok"}, L)  BY <1>3, ReportFaces DEF Reporting
<1> QED  BY <1>1, <1>4, <1>23, <1>24, FinishRuns
-----------------------------------------------------------------------------
(* Sessions: a dump is opened, its parts are counted and got, it is closed.    *)

LEMMA ChunksSum == Chunks + 0 = Chunks /\ Chunks # 0
BY BoundsAssumption
LEMMA LeftIs ==
  ASSUME NEW x, x # "multicfg", NEW j, JobSane(j), NEW e, NEW n \in Lefts(j, x, e)
  PROVE  n = CASE x \in Counts -> Chunks
               [] x \in Firsts -> Chunks - 1
               [] Gets(x, e) \/ x \in {"LOG_NEXT", "OSA_READ"} -> j.left - 1
               [] x \in Queues -> e.queue
               [] OTHER -> j.left
<1>1. n = Told(j, x, e).left  BY DEF Lefts
<1> QED  BY <1>1, IdleDomain DEF Told, JobSane, JobFields

\* One fact about a session, by what it says.
LEMMA OpenedApart ==
  ASSUME NEW f \in Sessions, NEW g \in Sessions
  PROVE  /\ Opened[g] = Opened[f] => g = f
         /\ Counted[g] = Counted[f] => g = f
         /\ Opened[g] # Counted[f]
<1>1. /\ Opened["topo"] = "topo open" /\ Opened["gfms"] = "gfms open" /\ Opened["img"] = "img open"
      /\ Opened["nvme"] = "nvme open" /\ Opened["log"] = "log open" /\ Opened["cross"] = "cross open"
      /\ Opened["eye"] = "eye open"
  BY DEF Opened
<1>2. /\ Counted["topo"] = "topo counted" /\ Counted["gfms"] = "gfms counted"
      /\ Counted["img"] = "img counted" /\ Counted["nvme"] = "nvme counted"
      /\ Counted["log"] = "log counted" /\ Counted["cross"] = "cross counted"
      /\ Counted["eye"] = "eye counted"
  BY DEF Counted
<1>3. Opened[g] = Opened[f] => g = f  BY <1>1 DEF Sessions
<1>4. Counted[g] = Counted[f] => g = f  BY <1>2 DEF Sessions
<1>5. Opened[g] # Counted[f]  BY Sessions7
<1> QED  BY <1>3, <1>4, <1>5
LEMMA OpenedIs ==
  ASSUME NEW f \in Sessions, NEW j, NEW s
  PROVE  /\ j.ses = f /\ (f \in j.met \/ (s[f] = j.id /\ j.got = 0)) => Has({Opened[f]}, j, s)
         /\ j.ses = f /\ (f \in j.met \/ (s[f] = j.id /\ j.left + j.got = Chunks)) => Has({Counted[f]}, j, s)
<1>1. {Opened[f]} \subseteq SesFacts /\ {Counted[f]} \subseteq SesFacts  BY SesNames
<1>2. /\ Opened[f] \notin Dumps \cup {"no session", "dumped", "over", "more", "none got", "fetched", "scanned"}
      /\ Counted[f] \notin Dumps \cup {"no session", "dumped", "over", "more", "none got", "fetched", "scanned"}
  BY Sessions7 DEF Dumps
<1>3. ASSUME j.ses = f, f \in j.met \/ (s[f] = j.id /\ j.got = 0) PROVE HasSes({Opened[f]}, j, s)
  BY <1>2, <1>3, OpenedApart DEF HasSes
<1>4. ASSUME j.ses = f, f \in j.met \/ (s[f] = j.id /\ j.left + j.got = Chunks)
      PROVE  HasSes({Counted[f]}, j, s)
  BY <1>2, <1>4, OpenedApart DEF HasSes
<1> QED  BY <1>1, <1>3, <1>4, OnlySes

\* What opening a session, counting and getting its parts, and closing it leave of
\* what is known.
LEMMA OpenGains ==
  ASSUME NEW x \in DOMAIN Opens, x # "IMG_START", NEW K, "none got" \in K
  PROVE  /\ Gains(x, K, {Opened[Opens[x]]}) /\ Gains(x, K, {"none got"})
         /\ x \in Counts => Gains(x, K, {Counted[Opens[x]]}) /\ Gains(x, K, {"more"})
<1> DEFINE f == Opens[x]
<1>1. f \in Sessions
  <2>1. /\ Opens["TOPO_START"] = "topo" /\ Opens["GFMS_START"] = "gfms" /\ Opens["IMG_START"] = "img"
        /\ Opens["NVME_MORE"] = "nvme" /\ Opens["NVME_START"] = "nvme" /\ Opens["FREEZE"] = "log"
        /\ Opens["CROSS_ON"] = "cross" /\ Opens["EYE_START"] = "eye"
    BY DEF Opens
  <2> QED  BY <2>1, OpensDomain DEF Sessions
<1>2. /\ x \notin DOMAIN Reads /\ x # "CROSS_GET" /\ x # "multicfg"
      /\ x \notin {"LOG_NEXT", "OSA_READ", "LOG_FIRST"} /\ x \notin Firsts \cup Queues
  BY OpensDomain DEF Reads, Firsts, Queues
<1> SUFFICES ASSUME NEW j, NEW s, NEW e, NEW n, NEW i, Sane(j, s), Has(K, j, s), EffectFields(e, x, j, s),
                    n \in Lefts(j, x, e), Known(i, x, n, j, e)
             PROVE  /\ Has({Opened[f]}, i, e) /\ Has({"none got"}, i, e)
                    /\ x \in Counts => Has({Counted[f]}, i, e) /\ Has({"more"}, i, e)
  BY DEF Gains
<1>3. j.got = 0  BY DEF Has, HasSes
<1>4. i.got = 0 /\ i.ses = f /\ i.id = j.id /\ i.left = n  BY <1>2, <1>3 DEF Known, Gets, Constant
<1>5. e[f] = j.id  BY <1>1 DEF EffectFields
<1> HIDE DEF f
<1>6. Has({Opened[f]}, i, e)  BY <1>1, <1>4, <1>5, OpenedIs
<1>7. Has({"none got"}, i, e)
  <2>1. {"none got"} \subseteq SesFacts  BY DEF SesFacts
  <2>2. \A g \in Sessions : Opened[g] \notin {"none got"} /\ Counted[g] \notin {"none got"}  BY Sessions7
  <2>3. HasSes({"none got"}, i, e)  BY <1>4, <2>2 DEF HasSes, Dumps
  <2> QED  BY <2>1, <2>3, OnlySes
<1>8. ASSUME x \in Counts PROVE Has({Counted[f]}, i, e) /\ Has({"more"}, i, e)
  <2>1. n = Chunks  BY <1>2, <1>8, LeftIs DEF Sane, Gets
  <2>2. i.left + i.got = Chunks /\ i.left # 0
    <3>1. i.left = Chunks /\ i.got = 0  BY <1>4, <2>1
    <3> QED  BY <3>1, ChunksSum
  <2> QED  BY <1>1, <1>4, <1>5, <2>2, OpenedIs, MoreIs
<1> QED  BY <1>6, <1>7, <1>8
LEMMA CountGains ==
  ASSUME NEW x \in {"TOPO_STATUS", "LOG_STATUS"}, NEW f \in {"topo", "log"}, x = "TOPO_STATUS" <=> f = "topo",
         NEW K, Opened[f] \in K
  PROVE  Gains(x, K, {Opened[f]}) /\ Gains(x, K, {Counted[f]}) /\ Gains(x, K, {"more"})
<1>1. f \in Sessions  BY DEF Sessions
<1>2. /\ x \notin DOMAIN Reads /\ x # "CROSS_GET" /\ x # "multicfg" /\ x \notin DOMAIN Opens /\ x \in Counts
      /\ x # "IMG_START" /\ x \notin DOMAIN Closes /\ x # "RESET"
      /\ x \notin Firsts \cup Queues \cup {"LOG_NEXT", "OSA_READ"}
  BY OpensDomain, ClosesDomain DEF Reads, Counts, Firsts, Queues
<1> SUFFICES ASSUME NEW j, NEW s, NEW e, NEW n, NEW i, Sane(j, s), Has(K, j, s), EffectFields(e, x, j, s),
                    n \in Lefts(j, x, e), Known(i, x, n, j, e)
             PROVE  Has({Opened[f]}, i, e) /\ Has({Counted[f]}, i, e) /\ Has({"more"}, i, e)
  BY DEF Gains
<1>3. HasSes(K, j, s)  BY DEF Has
<1>4. j.ses = f /\ (f \in j.met \/ (s[f] = j.id /\ j.got = 0))  BY <1>1, <1>3 DEF HasSes
<1>5. i.got = j.got /\ i.ses = j.ses /\ i.id = j.id /\ i.met = j.met /\ i.left = n
  BY <1>2 DEF Known, Gets, Constant
<1>6. e[f] = s[f]  BY <1>1, <1>2 DEF EffectFields
<1>7. n = Chunks  BY <1>2, LeftIs DEF Sane, Gets
<1>8. j.got = 0 => i.left + i.got = Chunks  BY <1>5, <1>7, BoundsAssumption
<1>9. i.left # 0  BY <1>5, <1>7, BoundsAssumption
<1> QED  BY <1>1, <1>4, <1>5, <1>6, <1>8, <1>9, OpenedIs, MoreIs
LEMMA ReadGains ==
  ASSUME NEW x \in DOMAIN Reads, NEW K, Counted[Reads[x]] \in K, "more" \in K
  PROVE  Gains(x, K, {Counted[Reads[x]]})
<1> DEFINE f == Reads[x]
<1>0. DOMAIN Reads = {"TOPO_GET", "GFMS_GET", "IMG_NEXT", "NVME_DATA", "LOG_DUMP", "EYE_FETCH"}  BY DEF Reads
<1>1. f \in Sessions  BY DEF Reads, Sessions
<1>2. /\ x # "CROSS_GET" /\ x # "multicfg" /\ x \notin DOMAIN Opens /\ x \notin Counts \cup Firsts \cup Queues
      /\ x # "IMG_START" /\ x \notin DOMAIN Closes /\ x # "RESET" /\ x \notin {"LOG_NEXT", "OSA_READ"}
  BY <1>0, OpensDomain, ClosesDomain DEF Counts, Firsts, Queues
<1> SUFFICES ASSUME NEW j, NEW s, NEW e, NEW n, NEW i, Sane(j, s), Has(K, j, s), EffectFields(e, x, j, s),
                    n \in Lefts(j, x, e), Known(i, x, n, j, e)
             PROVE  Has({Counted[f]}, i, e)
  BY DEF Gains
<1>3. HasSes(K, j, s)  BY DEF Has
<1>4. j.ses = f /\ (f \in j.met \/ (s[f] = j.id /\ j.left + j.got = Chunks))  BY <1>1, <1>3 DEF HasSes
<1>5. i.got = (IF Gets(x, e) /\ e[f] = j.id THEN j.got + 1 ELSE j.got)
      /\ i.ses = j.ses /\ i.id = j.id /\ i.met = j.met /\ i.left = n
  BY <1>2 DEF Known, Constant
<1>6. e[f] = s[f]  BY <1>1, <1>2 DEF EffectFields
<1>7. n = IF Gets(x, e) THEN j.left - 1 ELSE j.left  BY <1>2, LeftIs DEF Sane
<1>8. j.got \in Nat /\ j.left \in 0..Chunks  BY DEF Sane, JobSane
<1> HIDE DEF f
<1>9. s[f] = j.id /\ j.left + j.got = Chunks => i.left + i.got = Chunks
  BY <1>5, <1>6, <1>7, <1>8, BoundsAssumption
<1> QED  BY <1>1, <1>4, <1>5, <1>6, <1>9, OpenedIs
LEMMA CloseGains ==
  ASSUME NEW x \in DOMAIN Closes, Closes[x] \in Dumps, NEW K
  PROVE  Gains(x, K, {Closes[x]})
<1> DEFINE f == Closes[x]
<1> SUFFICES ASSUME NEW j, NEW s, NEW e, NEW n, NEW i, Sane(j, s), EffectFields(e, x, j, s),
                    Known(i, x, n, j, e)
             PROVE  Has({f}, i, e)
  BY DEF Gains
<1>1. x \notin DOMAIN Opens  BY OpensDomain, ClosesDomain
<1>2. f \in Sessions  BY DEF Dumps, Sessions
<1>3. e[f] = 0  BY <1>1, <1>2 DEF EffectFields
<1>4. i.id # 0  BY DEF Known, Constant, Sane, JobSane, Somebody
<1>5. \A g \in Sessions : Opened[g] \notin {f} /\ Counted[g] \notin {f}  BY Sessions7 DEF Dumps
<1>6. {f} \subseteq SesFacts  BY DEF SesFacts, Dumps
<1>7. f \notin {"no session", "dumped", "over", "more", "none got", "fetched", "scanned"}  BY DEF Dumps
<1> HIDE DEF f
<1>8. HasSes({f}, i, e)  BY <1>3, <1>4, <1>5, <1>7 DEF HasSes
<1> QED  BY <1>6, <1>8, OnlySes

\* A call that has nothing open and has got its dump, or opened none, may end.
Whole(K) == NoRes(K) /\ "plain" \in K /\ Dumps \subseteq K /\ ("dumped" \in K \/ "no session" \in K)
LEMMA WholeFaces == ASSUME NEW K, Whole(K) PROVE Faces({"ok"}, K)
<1> SUFFICES ASSUME NEW j, NEW s, Sane(j, s), Has(K, j, s)
             PROVE  Fin([j EXCEPT !.ret = Verdict(j.res)], s)
  BY DEF Faces
<1> DEFINE i == [j EXCEPT !.ret = Verdict(j.res)]
<1>1. \A f \in JobFields \ {"ret"} : i[f] = j[f]  BY IdleDomain DEF Sane, JobSane, JobFields
<1>2. i.cmd = j.cmd /\ i.id = j.id /\ i.ses = j.ses /\ i.met = j.met /\ i.got = j.got  BY <1>1, IdleDomain
<1> HIDE DEF i
<1>3. "plain" \in K /\ Dumps \subseteq K /\ ("dumped" \in K \/ "no session" \in K)  BY DEF Whole
<1>4. j.cmd \notin Reporting  BY <1>3 DEF Has
<1>5. (\A f \in Dumps : s[f] # j.id) /\ (j.ses = "none" \/ Dumped(j))  BY <1>3 DEF Has, HasSes
<1>6. Dumped(i)  BY <1>2, <1>5 DEF Dumped
<1>7. Fin(i, s)  BY <1>2, <1>4, <1>5, <1>6 DEF Fin, Reporting
<1> QED  BY <1>7 DEF i

\* Steps of a call with a session: where they end early, the call has failed or
\* has got its dump.
Over == {"plain", "over"}
Ses(K, t, L) == Does(Both, Over, K, t, L)
LEMMA OverFaces == Faces(Both, Over)
<1> SUFFICES ASSUME NEW j, NEW s, Sane(j, s), Has(Over, j, s)
             PROVE  Fin([j EXCEPT !.ret = Verdict(j.res)], s)
  BY DEF Faces
<1> DEFINE i == [j EXCEPT !.ret = Verdict(j.res)]
<1>1. /\ \A f \in JobFields \ {"ret"} : i[f] = j[f]
      /\ i.ret = Verdict(j.res)
  BY IdleDomain DEF Sane, JobSane, JobFields
<1>2. i.cmd = j.cmd /\ i.id = j.id /\ i.ses = j.ses /\ i.met = j.met /\ i.got = j.got  BY <1>1, IdleDomain
<1> HIDE DEF i
<1>3. j.cmd \notin Reporting  BY DEF Has, Over
<1>4. i.ret = "ok" => j.res = "ok"  BY <1>1 DEF Verdict
<1>5. HasSes(Over, j, s) /\ "over" \in Over  BY DEF Has, Over
<1>6. j.res = "ok" => Dumped(j) /\ \A f \in Dumps : s[f] # j.id  BY <1>5 DEF HasSes
<1>7. Dumped(j) => Dumped(i)  BY <1>2 DEF Dumped
<1>8. Fin(i, s)  BY <1>2, <1>3, <1>4, <1>6, <1>7 DEF Fin, Reporting
<1> QED  BY <1>8 DEF i
LEMMA OverHas ==
  ASSUME NEW j, NEW s, Has({"plain"}, j, s),
         j.res = "ok" => Dumped(j) /\ \A f \in Dumps : s[f] # j.id
  PROVE  Has(Over, j, s)
<1>1. {"over"} \subseteq SesFacts /\ {"plain"} \cup {"over"} = Over  BY DEF SesFacts, Over
<1>2. \A f \in Sessions : Opened[f] \notin {"over"} /\ Counted[f] \notin {"over"}  BY Sessions7
<1>3. HasSes({"over"}, j, s)  BY <1>2 DEF HasSes, Dumps
<1>4. Has({"plain"} \cup {"over"}, j, s)  BY <1>1, <1>3, OnlySes, HasUnion
<1> QED  BY <1>1, <1>4
LEMMA OverEnds ==
  ASSUME NEW K, NoRes(K), "plain" \in K
  PROVE  /\ \A r : r # "ok" => Returns(K, r, Over)
         /\ \A f, S : GivesUp(K, f, S, Over)
         /\ Whole(K) => Entails(K, Over) /\ Returns(K, "ok", Over)
<1>1. ASSUME NEW j, NEW s, NEW r, Sane(j, s), Has(K, j, s), r # "ok" \/ Whole(K)
      PROVE  Has(Over, [j EXCEPT !.res = r], s)
  <2> DEFINE i == [j EXCEPT !.res = r]
  <2>1. Has(K, i, s)  BY <1>1, ResSame
  <2>2. i.res = r  BY <1>1, IdleDomain DEF Sane, JobSane, JobFields
  <2> HIDE DEF i
  <2>3. Has({"plain"}, i, s)  BY <2>1, LessHas
  <2>4. HasSes(K, i, s)  BY <2>1 DEF Has
  <2>5. Whole(K) => Dumped(i) /\ \A f \in Dumps : s[f] # i.id  BY <2>4 DEF Whole, HasSes, Dumped
  <2>6. Has(Over, i, s)  BY <1>1, <2>2, <2>3, <2>5, OverHas
  <2> QED  BY <2>6 DEF i
<1>2. ASSUME Whole(K), NEW j, NEW s, Sane(j, s), Has(K, j, s) PROVE Has(Over, j, s)
  <2>1. Has({"plain"}, j, s)  BY <1>2, LessHas
  <2>2. HasSes(K, j, s)  BY <1>2 DEF Has
  <2>3. Dumped(j) /\ \A f \in Dumps : s[f] # j.id  BY <1>2, <2>2 DEF Whole, HasSes, Dumped
  <2> QED  BY <2>1, <2>3, OverHas
<1>3. \A r : r # "ok" => Returns(K, r, Over)  BY <1>1 DEF Returns
<1>4. \A f, S : GivesUp(K, f, S, Over)
  <2>1. "err" # "ok"  OBVIOUS
  <2> QED  BY <1>1, <2>1 DEF GivesUp
<1>5. Whole(K) => Returns(K, "ok", Over)  BY <1>1 DEF Returns
<1>6. Whole(K) => Entails(K, Over)  BY <1>2 DEF Entails
<1> QED  BY <1>3, <1>4, <1>5, <1>6

LEMMA SesRules ==
  /\ \A K, a, L, b, M : Ses(K, a, L) /\ Ses(L, b, M) => Ses(K, a ++ b, M)
  /\ \A K, f, S : NoRes(K) /\ "plain" \in K => Ses(K, Need(f, S), K)
  /\ \A K, f, S, L : NoRes(K) /\ "plain" \in K /\ Knows(K, f, S, L) => Ses(K, Need(f, S), L)
  /\ \A K : NoRes(K) /\ "plain" \in K => Ses(K, Input, K)
  /\ \A K, f, S, t : Ses(K, t, K) => Ses(K, When(f, S, t), K)
  /\ \A K, f, S, a, b, L : Ses(K, a, L) /\ Ses(K, b, L) => Ses(K, IfElse(f, S, a, b), L)
  /\ \A K, S, t : Ses(K, t, K) => Ses(K, WhenOpt(S, t), K) /\ Ses(K, UnlessOpt(S, t), K)
  /\ \A K, S, t, L : Ses(K, t, L) /\ Whole(L) => Ses(K, Case(S, t), K)
  /\ \A K, t, L, M : Ses(K, t, L) /\ M \subseteq L => Ses(K, t, M)
  /\ \A K, t, L, M : Ses(K, t, L) /\ K \subseteq M => Ses(M, t, L)
<1>1. \A K, a, L, b, M : Ses(K, a, L) /\ Ses(L, b, M) => Ses(K, a ++ b, M)  BY DoesSeq DEF Ses
<1>2. \A K, f, S, L : NoRes(K) /\ "plain" \in K /\ Knows(K, f, S, L) => Ses(K, Need(f, S), L)
  BY OverEnds, DoesNeed, ErrIn DEF Ses
<1>3. \A K, f, S : NoRes(K) /\ "plain" \in K => Ses(K, Need(f, S), K)
  <2>1. \A K, f, S : Knows(K, f, S, K)  BY DEF Knows
  <2> QED  BY <1>2, <2>1
<1>4. ASSUME NEW K, NoRes(K), "plain" \in K PROVE Ses(K, Input, K)
  <2>1. Agreed(K, K, 0)  BY <1>4, LessKnown
  <2>2. Returns(K, "err", Over)
    <3>1. "err" # "ok"  OBVIOUS
    <3> QED  BY <1>4, <3>1, OverEnds
  <2> QED  BY <2>1, <2>2, DoesInput, ErrIn DEF Ses
<1>5. \A K, f, S, t : Ses(K, t, K) => Ses(K, When(f, S, t), K)
  <2>1. \A K, f, S : Knows(K, f, S, K) /\ KnowsNot(K, f, S, K)  BY DEF Knows, KnowsNot
  <2> QED  BY <2>1, DoesWhen DEF Ses
<1>6. \A K, f, S, a, b, L : Ses(K, a, L) /\ Ses(K, b, L) => Ses(K, IfElse(f, S, a, b), L)
  <2>1. \A K, f, S : Knows(K, f, S, K) /\ KnowsNot(K, f, S, K)  BY DEF Knows, KnowsNot
  <2> QED  BY <2>1, DoesIf DEF Ses
<1>7. \A K, S, t : Ses(K, t, K) => Ses(K, WhenOpt(S, t), K) /\ Ses(K, UnlessOpt(S, t), K)
  <2>1. \A K, S, b : KnowsOpt(K, S, b, K)  BY DEF KnowsOpt
  <2> QED  BY <2>1, DoesWhenOpt, DoesUnlessOpt DEF Ses
<1>8. ASSUME NEW K, NEW S, NEW t, NEW L, Ses(K, t, L), Whole(L) PROVE Ses(K, Case(S, t), K)
  <2>0. Returns(L, "ok", Over)  BY <1>8, OverEnds DEF Whole
  <2>1. Ses(L, [k |-> "leave"], K)  BY <2>0, DoesLeave, ErrIn DEF Ses
  <2>2. Ses(K, t ++ [k |-> "leave"], K)  BY <1>1, <1>8, <2>1
  <2> QED  BY <1>7, <2>2 DEF Case
<1>9. \A K, t, L, M : Ses(K, t, L) /\ M \subseteq L => Ses(K, t, M)  BY DoesLess DEF Ses
<1>10. \A K, t, L, M : Ses(K, t, L) /\ K \subseteq M => Ses(M, t, L)  BY DoesLess DEF Ses
<1> QED  BY <1>1, <1>2, <1>3, <1>4, <1>5, <1>6, <1>7, <1>8, <1>9, <1>10

\* A command of a session.
LEMMA SesCmd ==
  ASSUME NEW x, x # "BOOT_RO_GET", NEW K, NEW L, L \subseteq K, Keeps(x, L), "plain" \in L,
         MayDo(x, K), NEW G, Gains(x, K, G)
  PROVE  Ses(K, Cmd(x), L \cup G)
<1>1. Leaves(x, K, {"over"})
  <2> SUFFICES ASSUME NEW j, NEW y, NEW i, i.res = "mrpc" \/ i.res = "sys"
               PROVE  Has({"over"}, i, y)
    BY DEF Leaves
  <2>1. {"over"} \subseteq SesFacts  BY DEF SesFacts
  <2>2. \A f \in Sessions : Opened[f] \notin {"over"} /\ Counted[f] \notin {"over"}  BY Sessions7
  <2>3. HasSes({"over"}, i, y)  BY <2>2 DEF HasSes, Dumps
  <2> QED  BY <2>1, <2>3, OnlySes
<1>2. CmdOK(x, K, L \cup G, L \cup {"over"})  BY <1>1, CmdGains
<1>3. Does(Both, L \cup {"over"}, K, Cmd(x), L \cup G)  BY <1>2, DoesCmd, ErrIn
<1>4. Over \subseteq L \cup {"over"}  BY DEF Over
<1> QED  BY <1>3, <1>4, DoesMore DEF Ses
\* Steps before the session, and after it.
LEMMA SesAround ==
  ASSUME NEW K, Whole(K), NEW t, Calm(t) \/ (Meek(t) /\ K \subseteq Base)
  PROVE  Ses(K, t, K)
<1>1. Does(Both, K, K, t, K)
  <2>1. CASE Calm(t)
    <3>1. Does(Both, K, K, t, K)  BY <2>1, CalmDoes, ErrIn DEF Whole
    <3> QED  BY <3>1
  <2>2. CASE Meek(t) /\ K \subseteq Base
    <3>1. In("harmless", K)  BY <2>2 DEF In, Whole
    <3> QED  BY <2>2, <3>1 DEF Meek, Quiet
  <2> QED  BY <2>1, <2>2
<1>2. Entails(K, Over) /\ Entails(K, K) /\ Both \subseteq Both  BY OverEnds, EntailsItself DEF Whole
<1> QED  BY <1>1, <1>2, DoesWeaker DEF Ses
\* A call from its start to its end.
SesFirst == Base \cup {"none got"}
LEMMA SesRuns ==
  ASSUME NEW c, c \notin Reporting, NEW t, NEW L, Whole(L), Ses(SesFirst, t, L)
  PROVE  CallRuns(c, t)
<1> DEFINE K == SesFirst
<1>1. Early(K) /\ Whole(K) /\ K \subseteq AtFirst(c)
  BY DEF Early, Whole, NoRes, SesFirst, Base, Dumps, AtFirst
<1> HIDE DEF K
<1>2. Does(Both, K, K, switchtec_open, K \cup Told0)  BY <1>1, ErrIn, ToldOpen
<1>3. Does(Both, K, K, switchtec_open, K)  BY <1>2, DoesLess
<1>4. Entails(K, Over) /\ Entails(K, K) /\ Both \subseteq Both  BY <1>1, OverEnds, EntailsItself DEF Whole
<1>5. Ses(K, switchtec_open, K)  BY <1>3, <1>4, DoesWeaker DEF Ses
<1>6. Does(Both, Over, K, switchtec_open ++ t, L)  BY <1>5, DoesSeq DEF Ses, K
<1> QED  BY <1>1, <1>6, OverFaces, WholeFaces, FinishRuns DEF Whole

\* The commands of sessions keep what is known of other sessions.
LEMMA KeepsOpen ==
  ASSUME NEW x \in DOMAIN Opens, NEW K \in SUBSET Base, Opens[x] \notin K, "no session" \notin K
  PROVE  Keeps(x, K) /\ MayDo(x, K)
<1>1. x \notin {"SET_SECURED", "SET_UNSECURED", "KMSK", "config", "config_ext", "otp", "state", "sn_ver",
                "EVCNTR_SETUP", "EVCNTR_CLEAR", "LAT_GET", "BW_GET", "BOOTUP_RESUME", "FW_TX_EXEC",
                "TOGGLE", "TOGGLE_BL2", "WRITE", "SET_BOOT_RW", "dev_info", "RESET"}
  BY OpensDomain
<1>2. K \cap {"dumped", "more", "none got", "fetched"} = {} /\ NoRes(K) /\ K \subseteq Base
  BY DEF Base, Dumps, NoRes
<1>3. KeepsSes(x, K)  BY <1>2, BaseNoneOpen DEF KeepsSes
<1>4. KeepsAuth(x, K) /\ KeepsMeasure(x, K) /\ KeepsFw(x, K)  BY <1>1 DEF KeepsAuth, KeepsMeasure, KeepsFw
<1>5. KeepsLoop(x, K)
  <2>1. \A m \in Modes : m.on # x  BY ModeNames, OpensDomain
  <2> QED  BY <1>1, <2>1 DEF KeepsLoop
<1>6. x \notin Guarded
  <2>1. x \notin ForGood \cup Keyed \cup SignedCmds \cup {"EVCNTR_SETUP"} \cup Uses
    BY OpensDomain DEF ForGood, Keyed, SignedCmds, Uses, Reads
  <2>2. x \notin OnCmds  BY ModeNames, OpensDomain DEF OnCmds
  <2> QED  BY <2>1, <2>2 DEF Guarded
<1> QED  BY <1>1, <1>2, <1>3, <1>4, <1>5, <1>6, MayUnguarded DEF Keeps
LEMMA KeepsClose ==
  ASSUME NEW x \in DOMAIN Closes, NEW K \in SUBSET (Base \cup {"dumped", "none got"})
  PROVE  Keeps(x, K) /\ MayDo(x, K)
<1>1. x \notin {"SET_SECURED", "SET_UNSECURED", "KMSK", "config", "config_ext", "otp", "state", "sn_ver",
                "EVCNTR_SETUP", "EVCNTR_CLEAR", "LAT_GET", "BW_GET", "BOOTUP_RESUME", "FW_TX_EXEC",
                "TOGGLE", "TOGGLE_BL2", "WRITE", "SET_BOOT_RW", "dev_info", "RESET"}
      /\ x \notin DOMAIN Opens
  BY OpensDomain, ClosesDomain
<1>2. NoRes(K) /\ "scanned" \notin K  BY DEF Base, Dumps, NoRes
<1>3. NoneOpen(K)
  <2>1. K \ {"dumped", "none got"} \in SUBSET Base  OBVIOUS
  <2>2. NoneOpen(K \ {"dumped", "none got"})  BY <2>1, BaseNoneOpen
  <2>3. \A f \in Sessions : Opened[f] \notin {"dumped", "none got"} /\ Counted[f] \notin {"dumped", "none got"}
    BY Sessions7
  <2> QED  BY <1>2, <2>2, <2>3 DEF NoneOpen
<1>4. x \notin Stirs  BY ClosesDomain DEF Stirs, Reads, Firsts, Counts, Queues, Polls
<1>5. KeepsSes(x, K)  BY <1>1, <1>3, <1>4 DEF KeepsSes
<1>6. KeepsAuth(x, K) /\ KeepsMeasure(x, K) /\ KeepsFw(x, K)  BY <1>1 DEF KeepsAuth, KeepsMeasure, KeepsFw
<1>7. KeepsLoop(x, K)
  <2>1. \A m \in Modes : m.on # x  BY ModeNames, ClosesDomain
  <2> QED  BY <1>1, <2>1 DEF KeepsLoop
<1>8. x \notin Guarded
  <2>1. x \notin ForGood \cup Keyed \cup SignedCmds \cup {"EVCNTR_SETUP"} \cup Uses
    BY ClosesDomain DEF ForGood, Keyed, SignedCmds, Uses, Reads
  <2>2. x \notin OnCmds  BY ModeNames, ClosesDomain DEF OnCmds
  <2> QED  BY <2>1, <2>2 DEF Guarded
<1> QED  BY <1>1, <1>2, <1>5, <1>6, <1>7, <1>8, MayUnguarded DEF Keeps
LEMMA GainsUnion ==
  ASSUME NEW x, NEW K, NEW G, NEW H, Gains(x, K, G), Gains(x, K, H)
  PROVE  Gains(x, K, G \cup H)
BY HasUnion DEF Gains

\* What is known of a call beside its session, and once it has got its dump.
Rest(f) == {"plain"} \cup (Dumps \ {f})
Got == {"plain", "dumped"} \cup Dumps
LEMMA RestIs ==
  ASSUME NEW f \in Sessions
  PROVE  /\ Rest(f) \in SUBSET Base /\ "plain" \in Rest(f) /\ f \notin Rest(f) /\ "no session" \notin Rest(f)
         /\ NoRes(Rest(f)) /\ NoRes(Rest(f) \cup {"dumped"})
         /\ NoRes(Rest(f) \cup {"none got"}) /\ NoRes(Rest(f) \cup {Opened[f], Counted[f]})
         /\ Rest(f) \cup {"dumped"} \in SUBSET (Base \cup {"dumped", "none got"})
         /\ Whole(Got) /\ Got \subseteq Rest(f) \cup {"dumped"} \cup {f}
         /\ f \notin Dumps => Got \subseteq Rest(f) \cup {"dumped"}
<1>1. f # "plain" /\ f # "no session"  BY DEF Sessions
<1>2. Rest(f) \in SUBSET Base /\ "plain" \in Rest(f) /\ f \notin Rest(f) /\ "no session" \notin Rest(f)
  BY <1>1 DEF Rest, Base, Dumps
<1>3. NoRes(Rest(f) \cup {"dumped"}) /\ NoRes(Rest(f)) /\ NoRes(Rest(f) \cup {"none got"})
  BY DEF NoRes, Rest, Dumps
<1>4. NoRes(Rest(f) \cup {Opened[f], Counted[f]})  BY <1>3, Sessions7 DEF NoRes
<1>5. Rest(f) \cup {"dumped"} \in SUBSET (Base \cup {"dumped", "none got"})  BY <1>2
<1>6. Whole(Got)  BY DEF Whole, NoRes, Got, Dumps
<1>7. Got \subseteq Rest(f) \cup {"dumped"} \cup {f}  BY DEF Got, Rest
<1>8. f \notin Dumps => Got \subseteq Rest(f) \cup {"dumped"}  BY DEF Got, Rest
<1> QED  BY <1>2, <1>3, <1>4, <1>5, <1>6, <1>7, <1>8
LEMMA OpensIs ==
  /\ Opens["TOPO_START"] = "topo" /\ Opens["GFMS_START"] = "gfms" /\ Opens["IMG_START"] = "img"
  /\ Opens["NVME_MORE"] = "nvme" /\ Opens["NVME_START"] = "nvme" /\ Opens["FREEZE"] = "log"
  /\ Opens["CROSS_ON"] = "cross" /\ Opens["EYE_START"] = "eye"
  /\ \A x \in DOMAIN Opens : Opens[x] \in Sessions
<1>1. /\ Opens["TOPO_START"] = "topo" /\ Opens["GFMS_START"] = "gfms" /\ Opens["IMG_START"] = "img"
      /\ Opens["NVME_MORE"] = "nvme" /\ Opens["NVME_START"] = "nvme" /\ Opens["FREEZE"] = "log"
      /\ Opens["CROSS_ON"] = "cross" /\ Opens["EYE_START"] = "eye"
  BY DEF Opens
<1> QED  BY <1>1, OpensDomain DEF Sessions

\* A session is opened: nothing of its dump has been got.
LEMMA SesOpens ==
  ASSUME NEW x \in DOMAIN Opens, x # "IMG_START", NEW f \in Sessions, f = Opens[x],
         NEW K, Rest(f) \cup {"none got"} \subseteq K
  PROVE  /\ Ses(K, Cmd(x), Rest(f) \cup {Opened[f]}) /\ Ses(K, Cmd(x), Rest(f) \cup {"none got"})
         /\ x \in Counts => Ses(K, Cmd(x), Rest(f) \cup ({Counted[f]} \cup {"more"}))
<1>1. Keeps(x, Rest(f)) /\ MayDo(x, Rest(f))  BY RestIs, KeepsOpen
<1>2. MayDo(x, K)  BY <1>1, LessHas DEF MayDo
<1>3. "none got" \in K /\ Rest(f) \subseteq K /\ "plain" \in Rest(f) /\ x # "BOOT_RO_GET"
  BY RestIs, OpensDomain
<1>4. /\ Gains(x, K, {Opened[f]}) /\ Gains(x, K, {"none got"})
      /\ x \in Counts => Gains(x, K, {Counted[f]} \cup {"more"})
  BY <1>3, OpenGains, GainsUnion
<1> QED  BY <1>1, <1>2, <1>3, <1>4, SesCmd
\* Its parts are got, all.
LEMMA SesReads ==
  ASSUME NEW x \in DOMAIN Reads, x # "EYE_FETCH", NEW f \in Sessions, f = Reads[x]
  PROVE  /\ Ses(Rest(f) \cup ({Counted[f]} \cup {"more"}), Cmd(x), Rest(f) \cup {Counted[f]})
         /\ Ses(Rest(f) \cup {Counted[f]}, Until("left", {0}, Cmd(x)), Rest(f) \cup {"dumped"})
<1> DEFINE R == Rest(f)
           C == R \cup {Counted[f]}
           M == R \cup ({Counted[f]} \cup {"more"})
           D == R \cup {"dumped"}
<1>0. /\ R \subseteq M /\ "more" \in M /\ Counted[f] \in M /\ Counted[f] \in C /\ M = C \cup {"more"}
      /\ R \subseteq C /\ D = R \cup {"dumped"} /\ C = R \cup {Counted[f]} /\ "plain" \in R
      /\ R \in SUBSET Base
  BY RestIs
<1> HIDE DEF R, C, M, D
<1>1. x \in {"TOPO_GET", "GFMS_GET", "IMG_NEXT", "NVME_DATA", "LOG_DUMP", "EYE_FETCH"}  BY DEF Reads
<1>2. MayDo(x, M)  BY <1>0, <1>1, MoreMay
<1>3. Keeps(x, R)
  <2>1. x \notin DOMAIN Opens  BY <1>1, OpensDomain
  <2> QED  BY <1>0, <2>1, KeepsBase
<1>4. Gains(x, M, {Counted[f]})  BY <1>0, ReadGains
<1>5. Ses(M, Cmd(x), C)
  <2>1. x # "BOOT_RO_GET"  BY <1>1
  <2> QED  BY <1>0, <1>2, <1>3, <1>4, <2>1, SesCmd
<1>6. Knows(C, "left", {0}, D)
  <2> SUFFICES ASSUME NEW j, NEW s, Sane(j, s), Has(C, j, s), j.left = 0 PROVE Has(D, j, s)
    BY DEF Knows
  <2>1. HasSes(C, j, s)  BY DEF Has
  <2>2. j.ses = f /\ (f \in j.met \/ j.left + j.got = Chunks)  BY <1>0, <2>1 DEF HasSes
  <2>3. j.got \in Nat  BY DEF Sane, JobSane
  <2>4. f \in j.met \/ j.got = Chunks  BY <2>2, <2>3
  <2>5. Dumped(j)  BY <2>2, <2>4 DEF Dumped
  <2>6. Has(R, j, s)  BY <1>0, LessHas
  <2>7. {"dumped"} \subseteq SesFacts  BY DEF SesFacts
  <2>8. \A g \in Sessions : Opened[g] \notin {"dumped"} /\ Counted[g] \notin {"dumped"}  BY Sessions7
  <2>9. HasSes({"dumped"}, j, s)  BY <2>5, <2>8 DEF HasSes, Dumps
  <2> QED  BY <1>0, <2>6, <2>7, <2>9, OnlySes, HasUnion
<1>7. KnowsNot(C, "left", {0}, M)
  <2> SUFFICES ASSUME NEW j, NEW s, Has(C, j, s), j.left \notin {0} PROVE Has(M, j, s)
    BY DEF KnowsNot
  <2>1. Has({"more"}, j, s)  BY MoreIs
  <2> QED  BY <1>0, <2>1, HasUnion
<1>8. Ses(C, Until("left", {0}, Cmd(x)), D)  BY <1>5, <1>6, <1>7, DoesUntil DEF Ses
<1> QED  BY <1>5, <1>8 DEF C, D, M, R
\* It is closed.
LEMMA SesCloses ==
  ASSUME NEW x \in DOMAIN Closes, NEW f \in Dumps, f = Closes[x]
  PROVE  Ses(Rest(f) \cup {"dumped"}, Cmd(x), Got)
<1> DEFINE D == Rest(f) \cup {"dumped"}
<1>1. f \in Sessions  BY DEF Dumps, Sessions
<1>2. Keeps(x, D) /\ MayDo(x, D) /\ "plain" \in D  BY <1>1, RestIs, KeepsClose
<1>3. Gains(x, D, {f})  BY CloseGains
<1>4. Got \subseteq D \cup {f}  BY <1>1, RestIs
<1>5. x # "BOOT_RO_GET"  BY ClosesDomain
<1> HIDE DEF D
<1>6. Ses(D, Cmd(x), D \cup {f})  BY <1>2, <1>3, <1>5, SesCmd
<1> QED  BY <1>4, <1>6, SesRules DEF D

\* The topology: collected, then got, then finished.
LEMMA TopoDumps == Ses(SesFirst, switchtec_topo_info_dump, Got)
<1> DEFINE R == Rest("topo")
           T == R \cup {Opened["topo"], Counted["topo"]}
           C == R \cup {Counted["topo"]}
           D == R \cup {"dumped"}
<1>1. "topo" \in Sessions /\ "topo" \in Dumps  BY DEF Sessions, Dumps
<1>2. /\ R \cup {"none got"} \subseteq SesFirst /\ NoRes(T) /\ "plain" \in T /\ R \subseteq T /\ C \subseteq T
      /\ Opened["topo"] \in T /\ Whole(Got) /\ R \in SUBSET Base /\ "plain" \in R
  BY <1>1, RestIs DEF SesFirst
<1>3. NoRes(SesFirst) /\ "plain" \in SesFirst  BY DEF NoRes, SesFirst, Base, Dumps
<1>4. Ses(SesFirst, topo_info_dump_start, R \cup {Opened["topo"]})
  <2>1. "TOPO_START" \in DOMAIN Opens /\ Opens["TOPO_START"] = "topo"  BY OpensDomain, OpensIs
  <2> QED  BY <1>1, <1>2, <2>1, SesOpens DEF topo_info_dump_start
<1>5. Ses(R \cup {Opened["topo"]}, topo_info_dump_status_get, T)
  <2> DEFINE O == R \cup {Opened["topo"]}
  <2>1. Opened["topo"] \in O /\ R \subseteq O  OBVIOUS
  <2> HIDE DEF O
  <2>2. Gains("TOPO_STATUS", O, {Opened["topo"]} \cup {Counted["topo"]})  BY <2>1, CountGains, GainsUnion
  <2>3. "TOPO_STATUS" \notin GuardedNames /\ "TOPO_STATUS" \notin DOMAIN Opens
    BY OpensDomain DEF GuardedNames
  <2>4. MayDo("TOPO_STATUS", O) /\ Keeps("TOPO_STATUS", R)  BY <1>2, <2>3, GuardedIs, MayUnguarded, KeepsBase
  <2>5. Ses(O, Cmd("TOPO_STATUS"), R \cup ({Opened["topo"]} \cup {Counted["topo"]}))
    BY <1>2, <2>1, <2>2, <2>4, SesCmd
  <2>6. T = R \cup ({Opened["topo"]} \cup {Counted["topo"]})  OBVIOUS
  <2> QED  BY <2>5, <2>6 DEF O, topo_info_dump_status_get
<1>6. Ses(T, Until("status", {"none", "ready", "failed"}, topo_info_dump_status_get), T)
  <2>1. R \cup {Opened["topo"]} \subseteq T  OBVIOUS
  <2>2. Ses(T, topo_info_dump_status_get, T)  BY <1>5, <2>1, SesRules
  <2> QED  BY <2>2, LessKnown, DoesUntil DEF Ses
<1>7. Ses(T, Need("status", {"ready"}), T) /\ Ses(T, Input, T)  BY <1>2, SesRules
<1>8. Ses(T, Until("left", {0}, topo_info_dump_data_get), D)
  <2>1. "TOPO_GET" \in DOMAIN Reads /\ Reads["TOPO_GET"] = "topo"  BY DEF Reads
  <2>2. Ses(C, Until("left", {0}, Cmd("TOPO_GET")), D)  BY <1>1, <2>1, SesReads
  <2> QED  BY <1>2, <2>2, SesRules DEF topo_info_dump_data_get
<1>9. Ses(D, topo_info_dump_finish, Got)
  <2>1. "TOPO_FINISH" \in DOMAIN Closes /\ Closes["TOPO_FINISH"] = "topo"  BY DEF Closes
  <2> QED  BY <1>1, <2>1, SesCloses DEF topo_info_dump_finish
<1> HIDE DEF R, T, C, D
<1>10. Ses(SesFirst, topo_info_dump_start ++ topo_info_dump_status_get, T)  BY <1>4, <1>5, SesRules
<1>11. Ses(SesFirst, topo_info_dump_start ++ topo_info_dump_status_get
    ++ Until("status", {"none", "ready", "failed"}, topo_info_dump_status_get), T)
  BY <1>6, <1>10, SesRules
<1>12. Ses(SesFirst, topo_info_dump_start ++ topo_info_dump_status_get
    ++ Until("status", {"none", "ready", "failed"}, topo_info_dump_status_get)
    ++ Need("status", {"ready"}) ++ Input, T)
  BY <1>7, <1>11, SesRules
<1>13. Ses(SesFirst, topo_info_dump_start ++ topo_info_dump_status_get
    ++ Until("status", {"none", "ready", "failed"}, topo_info_dump_status_get)
    ++ Need("status", {"ready"}) ++ Input
    ++ Until("left", {0}, topo_info_dump_data_get) ++ topo_info_dump_finish, Got)
  BY <1>8, <1>9, <1>12, SesRules
<1>14. Ses(SesFirst, topo_info_dump_gen4, Got) /\ Ses(SesFirst, topo_info_dump_gen5, Got)
  BY <1>13 DEF topo_info_dump_gen4, topo_info_dump_gen5
<1>15. Ses(SesFirst, IfElse("gen", {4}, topo_info_dump_gen4, topo_info_dump_gen5), Got)
  BY <1>14, SesRules
<1>16. Ses(SesFirst, Need("gen", {4, 5, 6}) ++ Input, SesFirst)  BY <1>3, SesRules
<1> QED  BY <1>15, <1>16, SesRules DEF switchtec_topo_info_dump
LEMMA TopoRuns == CallRuns("topo_info", topo_info) /\ CallRuns("route", route)
<1>1. Whole(Got)  BY RestIs DEF Sessions
<1>2. "topo_info" \notin Reporting /\ "route" \notin Reporting  BY DEF Reporting
<1>3. Calm(Cmd("gfms"))
  <2>1. "gfms" \notin GuardedNames  BY DEF GuardedNames
  <2>2. "gfms" \notin Loud
    BY <2>1, GuardedIs, ClosesDomain DEF Loud, Stirs, Reads, Firsts, Counts, Queues, Polls
  <2> QED  BY <2>2, CalmRules
<1>4. Ses(Got, Cmd("gfms"), Got)  BY <1>1, <1>3, SesAround
<1>5. Ses(SesFirst, route, Got)
  BY <1>4, TopoDumps, SesRules DEF route, switchtec_fab_gfms_db_dump_fabric_general
<1> QED  BY <1>1, <1>2, <1>5, TopoDumps, SesRuns DEF topo_info

\* The data base of the fabric: one kind of dump, or all of it.
LEMMA GfmsRuns == CallRuns("gfms_dump", gfms_dump)
<1> DEFINE R == Rest("gfms")
           M == R \cup ({Counted["gfms"]} \cup {"more"})
           C == R \cup {Counted["gfms"]}
           D == R \cup {"dumped"}
<1>1. "gfms" \in Sessions /\ "gfms" \in Dumps  BY DEF Sessions, Dumps
<1>2. R \cup {"none got"} \subseteq SesFirst /\ Whole(Got)  BY <1>1, RestIs DEF SesFirst
<1>3. /\ NoRes(SesFirst) /\ "plain" \in SesFirst /\ Whole(SesFirst)
      /\ NoRes(Got) /\ "plain" \in Got
  BY DEF NoRes, SesFirst, Base, Dumps, Whole, Got
<1>4. Ses(SesFirst, Cmd("GFMS_START"), M)
  <2>1. "GFMS_START" \in DOMAIN Opens /\ Opens["GFMS_START"] = "gfms" /\ "GFMS_START" \in Counts
    BY OpensDomain, OpensIs DEF Counts
  <2> QED  BY <1>1, <1>2, <2>1, SesOpens
<1>5. Ses(M, Cmd("GFMS_GET"), C) /\ Ses(C, Until("left", {0}, Cmd("GFMS_GET")), D)
  <2>1. "GFMS_GET" \in DOMAIN Reads /\ Reads["GFMS_GET"] = "gfms"  BY DEF Reads
  <2> QED  BY <1>1, <2>1, SesReads
<1>6. Ses(D, Cmd("GFMS_FINISH"), Got)
  <2>1. "GFMS_FINISH" \in DOMAIN Closes /\ Closes["GFMS_FINISH"] = "gfms"  BY DEF Closes
  <2> QED  BY <1>1, <2>1, SesCloses
<1> HIDE DEF R, M, C, D
<1>7. Ses(M, Cmd("GFMS_GET") ++ Until("left", {0}, Cmd("GFMS_GET")), D)  BY <1>5, SesRules
<1>8. Ses(SesFirst, Cmd("GFMS_START") ++ (Cmd("GFMS_GET") ++ Until("left", {0}, Cmd("GFMS_GET")))
                      ++ Cmd("GFMS_FINISH"), Got)
  BY <1>4, <1>6, <1>7, SesRules
<1>9. /\ Ses(SesFirst, switchtec_fab_gfms_db_dump_hvd, Got)
      /\ Ses(SesFirst, switchtec_fab_gfms_db_dump_hvd_detail, Got)
  BY <1>8 DEF switchtec_fab_gfms_db_dump_hvd, switchtec_fab_gfms_db_dump_hvd_detail, gfms_dump_start,
     gfms_dump_get, gfms_dump_finish
<1>10. Ses(Got, Input, Got) /\ Ses(SesFirst, Input, SesFirst)  BY <1>3, SesRules
<1>11. /\ Ses(SesFirst, switchtec_fab_gfms_db_dump_pax_all, Got)
       /\ Ses(SesFirst, switchtec_fab_gfms_db_dump_ep_port, Got)
  BY <1>8, <1>10, SesRules DEF switchtec_fab_gfms_db_dump_pax_all, switchtec_fab_gfms_db_dump_ep_port,
     gfms_dump_start, gfms_dump_get, gfms_dump_finish, gfms_ep_port_start, gfms_ep_port_get,
     gfms_ep_port_finish
<1>12. Ses(SesFirst, Cmd("gfms"), SesFirst)
  <2>1. "gfms" \notin GuardedNames  BY DEF GuardedNames
  <2>2. "gfms" \notin Loud
    BY <2>1, GuardedIs, ClosesDomain DEF Loud, Stirs, Reads, Firsts, Counts, Queues, Polls
  <2>3. Calm(Cmd("gfms"))  BY <2>2, CalmRules
  <2> QED  BY <1>3, <2>3, SesAround
<1>13. /\ Ses(SesFirst, Case({"fabric"}, switchtec_fab_gfms_db_dump_fabric_general), SesFirst)
       /\ Ses(SesFirst, Case({"pax"}, switchtec_fab_gfms_db_dump_pax_general), SesFirst)
       /\ Ses(SesFirst, Case({"fab_port"}, Input ++ switchtec_fab_gfms_db_dump_fab_port), SesFirst)
  BY <1>3, <1>10, <1>12, SesRules DEF switchtec_fab_gfms_db_dump_fabric_general,
     switchtec_fab_gfms_db_dump_pax_general, switchtec_fab_gfms_db_dump_fab_port
<1>14. /\ Ses(SesFirst, Case({"hvd"}, Input ++ switchtec_fab_gfms_db_dump_hvd), SesFirst)
       /\ Ses(SesFirst, Case({"ep_port"}, Input ++ switchtec_fab_gfms_db_dump_ep_port), SesFirst)
       /\ Ses(SesFirst, Case({"hvd_detail"}, Input ++ switchtec_fab_gfms_db_dump_hvd_detail), SesFirst)
  BY <1>2, <1>9, <1>10, <1>11, SesRules
<1>15. Ses(SesFirst, gfms_dump, Got)
  <2>1. Ses(SesFirst, Case({"fabric"}, switchtec_fab_gfms_db_dump_fabric_general)
    ++ Case({"pax"}, switchtec_fab_gfms_db_dump_pax_general)
    ++ Case({"hvd"}, Input ++ switchtec_fab_gfms_db_dump_hvd), SesFirst)
    BY <1>13, <1>14, SesRules
  <2>2. Ses(SesFirst, Case({"fabric"}, switchtec_fab_gfms_db_dump_fabric_general)
    ++ Case({"pax"}, switchtec_fab_gfms_db_dump_pax_general)
    ++ Case({"hvd"}, Input ++ switchtec_fab_gfms_db_dump_hvd)
    ++ Case({"fab_port"}, Input ++ switchtec_fab_gfms_db_dump_fab_port)
    ++ Case({"ep_port"}, Input ++ switchtec_fab_gfms_db_dump_ep_port), SesFirst)
    BY <1>13, <1>14, <2>1, SesRules
  <2> QED  BY <1>11, <1>14, <2>2, SesRules DEF gfms_dump
<1>16. "gfms_dump" \notin Reporting  BY DEF Reporting
<1> QED  BY <1>2, <1>15, <1>16, SesRuns

\* Where nothing is open the dump is no matter.
LEMMA FirstIsGot == Entails(Base, Got) /\ Entails(SesFirst, Got)
<1>1. ASSUME NEW j, NEW s, Has(Base, j, s) PROVE Has(Got, j, s)
  <2>1. Base = {"plain", "no session"} \cup Dumps /\ Got = ({"plain"} \cup Dumps) \cup {"dumped"}
    BY DEF Base, Got
  <2>2. "no session" \in Base /\ {"plain"} \cup Dumps \subseteq Base  BY <2>1
  <2>3. HasSes(Base, j, s)  BY <1>1 DEF Has
  <2>4. Dumped(j)  BY <2>2, <2>3 DEF HasSes, Dumped
  <2>5. Has({"plain"} \cup Dumps, j, s)  BY <1>1, <2>2, LessHas
  <2>6. {"dumped"} \subseteq SesFacts  BY DEF SesFacts
  <2>7. \A g \in Sessions : Opened[g] \notin {"dumped"} /\ Counted[g] \notin {"dumped"}  BY Sessions7
  <2>8. HasSes({"dumped"}, j, s)  BY <2>4, <2>7 DEF HasSes, Dumps
  <2>9. Has({"dumped"}, j, s)  BY <2>6, <2>8, OnlySes
  <2> QED  BY <2>1, <2>5, <2>9, HasUnion
<1>2. Base \subseteq SesFirst  BY DEF SesFirst
<1> QED  BY <1>1, <1>2, LessHas DEF Entails
LEMMA SesInstead ==
  ASSUME NEW K, Whole(K), NEW f, NEW S, NEW t, Ses(K, t, K)
  PROVE  Ses(K, Instead(f, S, t), K)
<1>1. Returns(K, "ok", Over)  BY OverEnds DEF Whole
<1>2. Ses(K, [k |-> "leave"], K)  BY <1>1, DoesLeave, ErrIn DEF Ses
<1>3. Ses(K, t ++ [k |-> "leave"], K)  BY <1>2, SesRules
<1> QED  BY <1>3, SesRules DEF Instead

\* An NVMe command in parts, its answer in parts.
LEMMA NvmeRuns == CallRuns("nvme_admin_passthru", switchtec_nvme_admin_passthru)
<1> DEFINE R == Rest("nvme")
           N == R \cup {"none got"}
           M == R \cup ({Counted["nvme"]} \cup {"more"})
           C == R \cup {Counted["nvme"]}
           D == R \cup {"dumped"}
<1>1. "nvme" \in Sessions /\ "nvme" \in Dumps  BY DEF Sessions, Dumps
<1>2. N \subseteq SesFirst /\ Whole(Got) /\ C \subseteq M /\ N = R \cup {"none got"}
  BY <1>1, RestIs DEF SesFirst
<1>3. /\ "NVME_MORE" \in DOMAIN Opens /\ Opens["NVME_MORE"] = "nvme"
      /\ "NVME_START" \in DOMAIN Opens /\ Opens["NVME_START"] = "nvme" /\ "NVME_START" \in Counts
  BY OpensDomain, OpensIs DEF Counts
<1>4. Ses(SesFirst, Cmd("NVME_MORE"), N)  BY <1>1, <1>2, <1>3, SesOpens
<1>5. Ses(SesFirst, WhenOpt({"data"}, Cmd("NVME_MORE")), N)
  BY <1>2, <1>4, LessKnown, DoesWhenOpt DEF Ses
<1>6. Ses(N, Cmd("NVME_START"), M)  BY <1>1, <1>2, <1>3, SesOpens
<1>7. Ses(C, Until("left", {0}, Cmd("NVME_DATA")), D)
  <2>1. "NVME_DATA" \in DOMAIN Reads /\ Reads["NVME_DATA"] = "nvme"  BY DEF Reads
  <2> QED  BY <1>1, <2>1, SesReads
<1>8. Ses(D, Cmd("NVME_END"), Got)
  <2>1. "NVME_END" \in DOMAIN Closes /\ Closes["NVME_END"] = "nvme"  BY DEF Closes
  <2> QED  BY <1>1, <2>1, SesCloses
<1> HIDE DEF R, N, M, C, D
<1>9. Ses(SesFirst, admin_passthru_start, C)  BY <1>2, <1>5, <1>6, SesRules DEF admin_passthru_start
<1>10. Ses(SesFirst, switchtec_nvme_admin_passthru, Got)
  BY <1>7, <1>8, <1>9, SesRules DEF switchtec_nvme_admin_passthru, admin_passthru_data, admin_passthru_end
<1>11. "nvme_admin_passthru" \notin Reporting  BY DEF Reporting
<1> QED  BY <1>2, <1>10, <1>11, SesRuns

\* The log of the link states: frozen while it is read.
LEMMA LtssmRuns == CallRuns("ltssm_log", ltssm_log)
<1> DEFINE R == Rest("log")
           O == R \cup {Opened["log"]}
           M == R \cup ({Counted["log"]} \cup {"more"})
           C == R \cup {Counted["log"]}
           D == R \cup {"dumped"}
<1>1. "log" \in Sessions /\ "log" \in Dumps  BY DEF Sessions, Dumps
<1>2. /\ R \cup {"none got"} \subseteq SesFirst /\ Whole(Got) /\ R \subseteq O /\ Opened["log"] \in O
      /\ R \in SUBSET Base /\ "plain" \in R /\ M = R \cup ({Counted["log"]} \cup {"more"})
  BY <1>1, RestIs DEF SesFirst
<1>3. NoRes(SesFirst) /\ "plain" \in SesFirst /\ Whole(SesFirst)
  BY DEF NoRes, SesFirst, Base, Dumps, Whole
<1>4. Ses(SesFirst, Cmd("FREEZE"), O)
  <2>1. "FREEZE" \in DOMAIN Opens /\ Opens["FREEZE"] = "log"  BY OpensDomain, OpensIs
  <2> QED  BY <1>1, <1>2, <2>1, SesOpens
<1>5. Ses(M, Cmd("LOG_DUMP"), C) /\ Ses(C, Until("left", {0}, Cmd("LOG_DUMP")), D)
  <2>1. "LOG_DUMP" \in DOMAIN Reads /\ Reads["LOG_DUMP"] = "log"  BY DEF Reads
  <2> QED  BY <1>1, <2>1, SesReads
<1>6. Ses(D, Cmd("UNFREEZE"), Got)
  <2>1. "UNFREEZE" \in DOMAIN Closes /\ Closes["UNFREEZE"] = "log"  BY DEF Closes
  <2> QED  BY <1>1, <2>1, SesCloses
<1> HIDE DEF R, O, M, C, D
<1>7. Ses(O, Cmd("LOG_STATUS"), M)
  <2>1. Gains("LOG_STATUS", O, {Counted["log"]} \cup {"more"})  BY <1>2, CountGains, GainsUnion
  <2>2. "LOG_STATUS" \notin GuardedNames /\ "LOG_STATUS" \notin DOMAIN Opens
    BY OpensDomain DEF GuardedNames
  <2>3. MayDo("LOG_STATUS", O) /\ Keeps("LOG_STATUS", R)  BY <1>2, <2>2, GuardedIs, MayUnguarded, KeepsBase
  <2> QED  BY <1>2, <2>1, <2>3, SesCmd
<1>8. Ses(SesFirst, Cmd("FREEZE") ++ Cmd("LOG_STATUS") ++ Cmd("LOG_DUMP")
    ++ Until("left", {0}, Cmd("LOG_DUMP")) ++ Cmd("UNFREEZE"), Got)
  <2>1. Ses(SesFirst, Cmd("FREEZE") ++ Cmd("LOG_STATUS") ++ Cmd("LOG_DUMP"), C)
    BY <1>4, <1>5, <1>7, SesRules
  <2> QED  BY <1>5, <1>6, <2>1, SesRules
<1>9. Ses(SesFirst, switchtec_diag_ltssm_log, Got)
  <2>1. Ses(SesFirst, switchtec_diag_ltssm_log_gen6, Got)  BY <1>8 DEF switchtec_diag_ltssm_log_gen6
  <2>2. Ses(SesFirst, switchtec_diag_ltssm_log_gen5, Got)  BY <1>8 DEF switchtec_diag_ltssm_log_gen5
  <2>3. Ses(SesFirst, switchtec_diag_ltssm_log_gen4, Got)  BY <1>8 DEF switchtec_diag_ltssm_log_gen4
  <2>4. Ses(SesFirst, IfElse("gen", {5}, switchtec_diag_ltssm_log_gen5, switchtec_diag_ltssm_log_gen4), Got)
    BY <2>2, <2>3, SesRules
  <2> QED  BY <2>1, <2>4, SesRules DEF switchtec_diag_ltssm_log
\* Where nothing was opened the dump is no matter.
<1>10. Entails(SesFirst, Got)  BY FirstIsGot
<1>11. Ses(SesFirst, UnlessOpt({"clear"}, switchtec_diag_ltssm_log), Got)
  <2>1. KnowsOpt(SesFirst, {"clear"}, TRUE, Got) /\ KnowsOpt(SesFirst, {"clear"}, FALSE, SesFirst)
    BY <1>10 DEF KnowsOpt, Entails
  <2> QED  BY <1>9, <2>1, DoesUnlessOpt DEF Ses
<1>12. Ses(SesFirst, WhenOpt({"clear"}, switchtec_diag_ltssm_clear), SesFirst)
  <2>1. "LOG_CLEAR" \notin GuardedNames  BY DEF GuardedNames
  <2>2. "LOG_CLEAR" \notin Loud
    BY <2>1, GuardedIs, ClosesDomain DEF Loud, Stirs, Reads, Firsts, Counts, Queues, Polls
  <2>3. Calm(Cmd("LOG_CLEAR"))  BY <2>2, CalmRules
  <2> QED  BY <1>3, <2>3, SesAround, SesRules DEF switchtec_diag_ltssm_clear
<1>13. Ses(SesFirst, Try(Input), SesFirst)  BY <1>3, CalmRules, SesAround
<1>14. /\ Ses(SesFirst, Instead("res", {"err"}, Skip), SesFirst)
       /\ Ses(SesFirst, Instead("gen", {3}, Skip), SesFirst)
  <2>1. Ses(SesFirst, Skip, SesFirst)  BY <1>3, CalmRules, SesAround
  <2> QED  BY <1>3, <2>1, SesInstead
<1>15. Ses(SesFirst, ltssm_log, Got)
  BY <1>11, <1>12, <1>13, <1>14, SesRules DEF ltssm_log
<1>16. "ltssm_log" \notin Reporting  BY DEF Reporting
<1> QED  BY <1>2, <1>15, <1>16, SesRuns

\* An image read from the switch.
LEMMA ReadRuns == CallRuns("fw_read", fw_read)
<1> DEFINE R == Rest("img")
           C == R \cup {Counted["img"]}
           D == R \cup {"dumped"}
<1>1. "img" \in Sessions /\ "img" \notin Dumps  BY DEF Sessions, Dumps
<1>2. R \in SUBSET Base /\ "plain" \in R /\ "img" \notin R /\ "no session" \notin R /\ Whole(Got)
      /\ Got \subseteq D /\ R \subseteq Base
  BY <1>1, RestIs
<1>3. Whole(Base)  BY BaseNoRes DEF Whole, Base
<1>4. "IMG_START" \in DOMAIN Opens /\ Opens["IMG_START"] = "img"  BY OpensDomain, OpensIs
<1>5. Keeps("IMG_START", R) /\ MayDo("IMG_START", Base)
  <2>1. Keeps("IMG_START", R) /\ MayDo("IMG_START", R)  BY <1>2, <1>4, KeepsOpen
  <2> QED  BY <1>2, <2>1, LessHas DEF MayDo
<1>6. Gains("IMG_START", Base, {Counted["img"]})
  <2> SUFFICES ASSUME NEW j, NEW s, NEW e, NEW n, NEW i, Sane(j, s), EffectFields(e, "IMG_START", j, s),
                      n \in Lefts(j, "IMG_START", e), Known(i, "IMG_START", n, j, e)
               PROVE  Has({Counted["img"]}, i, e)
    BY DEF Gains
  <2>1. /\ "IMG_START" \notin Counts \cup DOMAIN Reads \cup Queues \cup {"LOG_NEXT", "OSA_READ"}
        /\ "IMG_START" \in Firsts
    BY DEF Counts, Reads, Queues, Firsts
  <2>2. n = Chunks - 1  BY <2>1, LeftIs DEF Sane, Gets
  <2>3. i.got = 1 /\ i.ses = "img" /\ i.id = j.id /\ i.left = n
    BY <1>4, <2>1 DEF Known, Constant, Gets
  <2>4. e.img = j.id  BY <1>1, <1>4 DEF EffectFields
  <2>5. i.left + i.got = Chunks  BY <2>2, <2>3, BoundsAssumption
  <2> QED  BY <1>1, <2>3, <2>4, <2>5, OpenedIs
<1>7. Ses(C, Until("left", {0}, Cmd("IMG_NEXT")), D)
  <2>1. "IMG_NEXT" \in DOMAIN Reads /\ Reads["IMG_NEXT"] = "img"  BY DEF Reads
  <2> QED  BY <1>1, <2>1, SesReads
<1>8. C = R \cup {Counted["img"]}  OBVIOUS
<1> HIDE DEF R, C, D
<1>9. Ses(Base, Cmd("IMG_START"), C)  BY <1>2, <1>5, <1>6, <1>8, SesCmd
<1>10. Ses(Got, Input, Got) /\ Ses(Base, Input, Base) /\ Ses(Base, Fails, Base)
  BY <1>2, <1>3, SesRules DEF Whole, Fails
<1>11. Ses(Base, switchtec_fw_img_get, Got)
  <2>1. Ses(Base, Cmd("IMG_START") ++ Until("left", {0}, Cmd("IMG_NEXT")), D)  BY <1>7, <1>9, SesRules
  <2>2. Ses(Base, Cmd("IMG_START") ++ Until("left", {0}, Cmd("IMG_NEXT")), Got)  BY <1>2, <2>1, SesRules
  <2> QED  BY <1>10, <2>2, SesRules DEF switchtec_fw_img_get
<1>12. Ses(Base, When("gen", {6}, Input ++ switchtec_fw_img_get), Got)
  <2>1. Ses(Base, Input ++ switchtec_fw_img_get, Got)  BY <1>10, <1>11, SesRules
  <2>2. Knows(Base, "gen", {6}, Base)  BY LessKnown
  <2>3. KnowsNot(Base, "gen", {6}, Got)  BY FirstIsGot DEF KnowsNot, Entails
  <2> QED  BY <2>1, <2>2, <2>3, DoesWhen DEF Ses
<1>13. Ses(Got, When("gen", {3, 4, 5}, UnlessOpt({"invalid"}, switchtec_fw_body_read_fd ++ Fails)), Got)
  <2>1. "flash" \notin GuardedNames  BY DEF GuardedNames
  <2>2. "flash" \notin Loud
    BY <2>1, GuardedIs, ClosesDomain DEF Loud, Stirs, Reads, Firsts, Counts, Queues, Polls
  <2>3. 2 \in 0..3  OBVIOUS
  <2>4. Calm(Cmd("flash"))  BY <2>2, CalmRules
  <2>5. Calm(switchtec_fw_body_read_fd)
    BY <2>3, <2>4, CalmRules DEF switchtec_fw_body_read_fd, switchtec_fw_read_fd, switchtec_fw_read
  <2>6. Ses(Got, switchtec_fw_body_read_fd, Got)  BY <1>2, <2>5, SesAround
  <2>7. Ses(Got, Fails, Got)  BY <1>2, SesRules DEF Fails, Whole
  <2> QED  BY <2>6, <2>7, SesRules
<1>14. /\ Ses(Base, When("gen", {3, 4, 5}, WhenOpt({"pmap", "token"}, Fails)), Base)
       /\ Ses(Base, WhenOpt({"token"}, Fails), Base)
  BY <1>10, SesRules
<1>15. /\ Ses(Base, Try(switchtec_fw_part_summary), Base)
       /\ Ses(Base, WhenOpt({"invalid"}, Confirm), Base)
  <2>1. Meek(Try(switchtec_fw_part_summary)) /\ Meek(WhenOpt({"invalid"}, Confirm))  BY MeekParts, MeekRules
  <2> QED  BY <1>3, <2>1, SesAround
<1>16. Ses(Base, Instead("res", {"mrpc", "sys", "err"}, Skip), Base)
  <2>1. Ses(Base, Skip, Base)  BY <1>3, CalmRules, SesAround
  <2> QED  BY <1>3, <2>1, SesInstead
<1>17. Ses(Base, When("gen", {3, 4, 5}, WhenOpt({"pmap", "token"}, Fails)) ++ Input
    ++ Try(switchtec_fw_part_summary) ++ Instead("res", {"mrpc", "sys", "err"}, Skip), Base)
  BY <1>10, <1>14, <1>15, <1>16, SesRules
<1>18. Ses(Base, When("gen", {3, 4, 5}, WhenOpt({"pmap", "token"}, Fails)) ++ Input
    ++ Try(switchtec_fw_part_summary) ++ Instead("res", {"mrpc", "sys", "err"}, Skip)
    ++ WhenOpt({"token"}, Fails) ++ Input ++ WhenOpt({"invalid"}, Confirm), Base)
  BY <1>10, <1>14, <1>15, <1>17, SesRules
<1>19. Ses(Base, fw_read, Got)  BY <1>12, <1>13, <1>18, SesRules DEF fw_read
<1>20. Ses(SesFirst, fw_read, Got)
  <2>1. Base \subseteq SesFirst  BY DEF SesFirst
  <2> QED  BY <1>19, <2>1, SesRules
<1>21. "fw_read" \notin Reporting  BY DEF Reporting
<1> QED  BY <1>2, <1>20, <1>21, SesRuns

\* The cross hair: enabled, then got, lane by lane; an old one is disabled first.
LEMMA CrossGains ==
  ASSUME NEW K, Opened["cross"] \in K \/ "scanned" \in K
  PROVE  Gains("CROSS_GET", K, {"scanned"})
<1>1. /\ "CROSS_GET" \notin DOMAIN Opens /\ "CROSS_GET" \notin DOMAIN Closes /\ "cross" \in Sessions
      /\ "CROSS_GET" \in DOMAIN Polls /\ Polls["CROSS_GET"] = "cross" /\ "cross" \in Works
  BY OpensDomain, ClosesDomain DEF Polls, Sessions, Works
<1> SUFFICES ASSUME NEW j, NEW s, NEW e, NEW n, NEW i, Sane(j, s), Has(K, j, s),
                    EffectFields(e, "CROSS_GET", j, s), Known(i, "CROSS_GET", n, j, e)
             PROVE  Has({"scanned"}, i, e)
  BY DEF Gains
<1>2. HasSes(K, j, s)  BY DEF Has
<1>3. j.ses = "cross" /\ ("cross" \in j.met \/ s.cross = j.id)  BY <1>1, <1>2 DEF HasSes
<1>4. j.id # 0  BY DEF Sane, JobSane, Somebody
<1>5. e.cross = s.cross /\ e.work = s.work  BY <1>1 DEF EffectFields
<1>6. s.work.cross \in {"wait", "ready", "failed"}  BY <1>1 DEF Sane, SwitchSane
<1>7. i.ses = j.ses /\ i.met = j.met /\ i.id = j.id  BY <1>1 DEF Known, Constant
<1>8. i.status = IF e.cross = 0 THEN "none" ELSE e.work.cross  BY <1>1 DEF Known
<1>9. e.cross = j.id /\ e.work.cross = "ready" => i.got = Chunks
  <2>1. ~Gets("CROSS_GET", e)  BY DEF Gets, Reads
  <2> QED  BY <2>1 DEF Known
<1>10. s.cross = j.id /\ i.status \in {"none", "ready"} => i.got = Chunks
  BY <1>4, <1>5, <1>6, <1>8, <1>9
<1>11. {"scanned"} \subseteq SesFacts  BY DEF SesFacts
<1>12. \A g \in Sessions : Opened[g] \notin {"scanned"} /\ Counted[g] \notin {"scanned"}  BY Sessions7
<1>13. HasSes({"scanned"}, i, e)  BY <1>3, <1>5, <1>7, <1>10, <1>12 DEF HasSes, Dumps
<1> QED  BY <1>11, <1>13, OnlySes
LEMMA CrossRuns == CallRuns("crosshair", crosshair)
<1> DEFINE R == Rest("cross")
           O == R \cup {Opened["cross"]}
           S == R \cup {"scanned"}
           D == R \cup {"dumped"}
<1>1. "cross" \in Sessions /\ "cross" \notin Dumps  BY DEF Sessions, Dumps
<1>2. /\ R \cup {"none got"} \subseteq SesFirst /\ Whole(Got) /\ R \subseteq O /\ Opened["cross"] \in O
      /\ R \in SUBSET Base /\ "plain" \in R /\ R \subseteq S /\ "scanned" \in S /\ Got \subseteq D
  BY <1>1, RestIs DEF SesFirst
<1>3. NoRes(S) /\ "plain" \in S
  BY <1>1, RestIs DEF NoRes
<1>4. NoRes(SesFirst) /\ "plain" \in SesFirst /\ Whole(SesFirst)
  BY DEF NoRes, SesFirst, Base, Dumps, Whole
<1>5. Ses(SesFirst, switchtec_diag_cross_hair_enable, O)
  <2>1. "CROSS_ON" \in DOMAIN Opens /\ Opens["CROSS_ON"] = "cross"  BY OpensDomain, OpensIs
  <2> QED  BY <1>1, <1>2, <2>1, SesOpens DEF switchtec_diag_cross_hair_enable
<1>6. S = R \cup {"scanned"} /\ D = R \cup {"dumped"}  OBVIOUS
<1> HIDE DEF R, O, S, D
<1>7. Ses(O, switchtec_diag_cross_hair_get, S) /\ Ses(S, switchtec_diag_cross_hair_get, S)
  <2>1. "CROSS_GET" \notin GuardedNames /\ "CROSS_GET" \notin DOMAIN Opens
    BY OpensDomain DEF GuardedNames
  <2>2. Keeps("CROSS_GET", R) /\ MayDo("CROSS_GET", O) /\ MayDo("CROSS_GET", S)
    BY <1>2, <2>1, GuardedIs, MayUnguarded, KeepsBase
  <2>3. Gains("CROSS_GET", O, {"scanned"}) /\ Gains("CROSS_GET", S, {"scanned"})  BY <1>2, CrossGains
  <2> QED  BY <1>2, <1>6, <2>2, <2>3, SesCmd DEF switchtec_diag_cross_hair_get
<1>8. Ses(S, Until("status", {"none", "ready", "failed"}, switchtec_diag_cross_hair_get), S)
  BY <1>7, LessKnown, DoesUntil DEF Ses
<1>9. Knows(S, "status", {"none", "ready"}, D)
  <2> SUFFICES ASSUME NEW j, NEW s, Sane(j, s), Has(S, j, s), j.status \in {"none", "ready"}
               PROVE  Has(D, j, s)
    BY DEF Knows
  <2>1. HasSes(S, j, s)  BY DEF Has
  <2>2. j.ses = "cross" /\ ("cross" \in j.met \/ j.got = Chunks)  BY <1>2, <2>1 DEF HasSes
  <2>3. Dumped(j)  BY <2>2 DEF Dumped
  <2>4. Has(R, j, s)  BY <1>2, LessHas
  <2>5. {"dumped"} \subseteq SesFacts  BY DEF SesFacts
  <2>6. \A g \in Sessions : Opened[g] \notin {"dumped"} /\ Counted[g] \notin {"dumped"}  BY Sessions7
  <2>7. HasSes({"dumped"}, j, s)  BY <2>3, <2>6 DEF HasSes, Dumps
  <2>8. Has({"dumped"}, j, s)  BY <2>5, <2>7, OnlySes
  <2> QED  BY <1>6, <2>4, <2>8, HasUnion
<1>10. Ses(S, Need("status", {"none", "ready"}), D)  BY <1>3, <1>9, SesRules
<1>11. Ses(O, crosshair_capture, Got)
  <2>1. Ses(O, crosshair_capture, D)  BY <1>7, <1>8, <1>10, SesRules DEF crosshair_capture
  <2> QED  BY <1>2, <2>1, SesRules
<1>12. Calm(Cmd("port_status") ++ Input)
  <2>1. "port_status" \notin GuardedNames  BY DEF GuardedNames
  <2>2. "port_status" \notin Loud
    BY <2>1, GuardedIs, ClosesDomain DEF Loud, Stirs, Reads, Firsts, Counts, Queues, Polls
  <2> QED  BY <2>2, CalmRules
<1>13. Ses(Got, WhenOpt({"all"}, crosshair_write_all_csv), Got)
  <2>1. 2 \in 0..3  OBVIOUS
  <2>2. Calm(WhenOpt({"all"}, crosshair_write_all_csv))
    BY <1>12, <2>1, CalmRules DEF crosshair_write_all_csv, Lanes
  <2> QED  BY <1>2, <2>2, SesAround
<1>14. Ses(SesFirst, Input, SesFirst) /\ Ses(SesFirst, UnlessOpt({"all"}, switchtec_calc_lane_id), SesFirst)
  <2>1. Calm(UnlessOpt({"all"}, switchtec_calc_lane_id))
    BY <1>12, CalmRules DEF switchtec_calc_lane_id
  <2> QED  BY <1>4, <2>1, CalmRules, SesAround
<1>15. Ses(SesFirst, Try(switchtec_diag_cross_hair_disable), SesFirst)
  <2>1. "CROSS_OFF" \in DOMAIN Closes /\ SesFirst \in SUBSET (Base \cup {"dumped", "none got"})
    BY ClosesDomain DEF SesFirst
  <2>2. Keeps("CROSS_OFF", SesFirst) /\ MayDo("CROSS_OFF", SesFirst)  BY <2>1, KeepsClose
  <2>3. Does(Both, SesFirst, SesFirst, Cmd("CROSS_OFF"), SesFirst)  BY <2>2, DoesKeep, ErrIn
  <2>4. Returns(SesFirst, "ok", SesFirst)  BY <1>4, ReturnsSame
  <2> QED  BY <2>3, <2>4, DoesTry DEF Ses, switchtec_diag_cross_hair_disable
<1>16. Ses(SesFirst, Input ++ UnlessOpt({"all"}, switchtec_calc_lane_id)
    ++ Try(switchtec_diag_cross_hair_disable) ++ switchtec_diag_cross_hair_enable, O)
  BY <1>5, <1>14, <1>15, SesRules
<1>17. Ses(SesFirst, crosshair, Got)  BY <1>11, <1>13, <1>16, SesRules DEF crosshair
<1>18. "crosshair" \notin Reporting  BY DEF Reporting
<1> QED  BY <1>2, <1>17, <1>18, SesRuns

\* The eye: observed, then got, pixel by pixel; an old one is cancelled first.
\* Until it is observed there is nothing to get, and no end is reported.
LEMMA EyeTells ==
  ASSUME NEW K, Counted["eye"] \in K, "more" \in K
  PROVE  Gains("EYE_FETCH", K, {"fetched"})
<1>1. /\ "EYE_FETCH" \notin DOMAIN Opens /\ "EYE_FETCH" \notin DOMAIN Closes /\ "eye" \in Works
      /\ "EYE_FETCH" \in DOMAIN Polls /\ Polls["EYE_FETCH"] = "eye" /\ "EYE_FETCH" # "multicfg"
      /\ "EYE_FETCH" \notin Counts \cup Firsts \cup Queues \cup {"LOG_NEXT", "OSA_READ"}
  BY OpensDomain, ClosesDomain DEF Polls, Works, Counts, Firsts, Queues
<1> SUFFICES ASSUME NEW j, NEW s, NEW e, NEW n, NEW i, Sane(j, s), Has(K, j, s),
                    EffectFields(e, "EYE_FETCH", j, s), n \in Lefts(j, "EYE_FETCH", e),
                    Known(i, "EYE_FETCH", n, j, e)
             PROVE  Has({"fetched"}, i, e)
  BY DEF Gains
<1>2. HasSes(K, j, s)  BY DEF Has
<1>3. j.left # 0  BY <1>2 DEF HasSes
<1>4. e.work = s.work  BY <1>1 DEF EffectFields
<1>5. s.work.eye \in {"wait", "ready", "failed"}  BY <1>1 DEF Sane, SwitchSane
<1>6. i.status = (IF e.eye = 0 THEN "none" ELSE e.work.eye) /\ i.left = n  BY <1>1 DEF Known
<1>7. e.work.eye # "ready" => n = j.left  BY <1>1, LeftIs DEF Sane, Gets
<1>8. i.status \in {"none", "ready", "failed"} \/ i.left # 0  BY <1>3, <1>4, <1>5, <1>6, <1>7
<1>9. {"fetched"} \subseteq SesFacts  BY DEF SesFacts
<1>10. \A g \in Sessions : Opened[g] \notin {"fetched"} /\ Counted[g] \notin {"fetched"}  BY Sessions7
<1>11. HasSes({"fetched"}, i, e)  BY <1>8, <1>10 DEF HasSes, Dumps
<1> QED  BY <1>9, <1>11, OnlySes
LEMMA EyeDumps == Ses(SesFirst, eye_observe_dev, Got)
<1> DEFINE R == Rest("eye")
           C == R \cup {Counted["eye"]}
           M == R \cup ({Counted["eye"]} \cup {"more"})
           T == R \cup ({Counted["eye"]} \cup {"fetched"})
           D == R \cup {"dumped"}
<1>1. "eye" \in Sessions /\ "eye" \notin Dumps  BY DEF Sessions, Dumps
<1>2. /\ R \cup {"none got"} \subseteq SesFirst /\ Whole(Got) /\ Got \subseteq D
      /\ R \in SUBSET Base /\ "plain" \in R /\ R \subseteq M /\ R \subseteq C /\ R \subseteq T
      /\ Counted["eye"] \in M /\ "more" \in M /\ Counted["eye"] \in C /\ "fetched" \in T
      /\ C \subseteq T /\ M = C \cup {"more"} /\ D = R \cup {"dumped"}
      /\ T = R \cup ({Counted["eye"]} \cup {"fetched"})
  BY <1>1, RestIs DEF SesFirst
<1>3. NoRes(C) /\ NoRes(T)
  BY <1>1, RestIs DEF NoRes
<1>4. NoRes(SesFirst) /\ "plain" \in SesFirst /\ Whole(SesFirst)
  BY DEF NoRes, SesFirst, Base, Dumps, Whole
<1>5. Ses(SesFirst, switchtec_diag_eye_start, C)
  <2>1. "EYE_START" \in DOMAIN Opens /\ Opens["EYE_START"] = "eye" /\ "EYE_START" \in Counts
    BY OpensDomain, OpensIs DEF Counts
  <2>2. Ses(SesFirst, Cmd("EYE_START"), M)  BY <1>1, <1>2, <2>1, SesOpens
  <2>3. C \subseteq M  OBVIOUS
  <2> QED  BY <2>2, <2>3, SesRules DEF switchtec_diag_eye_start, switchtec_diag_eye_cmd_gen4
<1> HIDE DEF R, C, M, T, D
<1>6. Ses(M, Cmd("EYE_FETCH"), T)
  <2>1. "EYE_FETCH" \in DOMAIN Reads /\ Reads["EYE_FETCH"] = "eye"  BY DEF Reads
  <2>2. Gains("EYE_FETCH", M, {Counted["eye"]} \cup {"fetched"})
    BY <1>2, <2>1, ReadGains, EyeTells, GainsUnion
  <2>3. Keeps("EYE_FETCH", R) /\ MayDo("EYE_FETCH", M)
    BY <1>2, OpensDomain, KeepsBase, MoreMay
  <2> QED  BY <1>2, <2>2, <2>3, SesCmd
\* A pixel that is not there yet is asked for while some are left.
<1>7. Ses(T, Until("status", {"none", "ready", "failed"}, Cmd("EYE_FETCH")), C)
  <2>1. Knows(T, "status", {"none", "ready", "failed"}, C)  BY <1>2, LessKnown
  <2>2. KnowsNot(T, "status", {"none", "ready", "failed"}, M)
    <3> SUFFICES ASSUME NEW j, NEW s, Has(T, j, s), j.status \notin {"none", "ready", "failed"}
                 PROVE  Has(M, j, s)
      BY DEF KnowsNot
    <3>1. HasSes(T, j, s)  BY DEF Has
    <3>2. j.left # 0  BY <1>2, <3>1 DEF HasSes
    <3>3. Has({"more"}, j, s)  BY <3>2, MoreIs
    <3>4. Has(C, j, s)  BY <1>2, LessHas
    <3> QED  BY <1>2, <3>3, <3>4, HasUnion
  <2> QED  BY <1>6, <2>1, <2>2, DoesUntil DEF Ses
<1>8. Ses(C, Need("status", {"ready"}), C) /\ Ses(C, Input, C)  BY <1>2, <1>3, SesRules
<1>9. Ses(M, switchtec_diag_eye_fetch ++ Input, C)
  <2>1. Ses(M, switchtec_diag_eye_fetch, C)  BY <1>6, <1>7, <1>8, SesRules DEF switchtec_diag_eye_fetch
  <2> QED  BY <1>8, <2>1, SesRules
<1>10. Knows(C, "left", {0}, D)
  <2> SUFFICES ASSUME NEW j, NEW s, Sane(j, s), Has(C, j, s), j.left = 0 PROVE Has(D, j, s)
    BY DEF Knows
  <2>1. HasSes(C, j, s)  BY DEF Has
  <2>2. j.ses = "eye" /\ ("eye" \in j.met \/ j.left + j.got = Chunks)  BY <1>1, <1>2, <2>1 DEF HasSes
  <2>3. j.got \in Nat  BY DEF Sane, JobSane
  <2>4. "eye" \in j.met \/ j.got = Chunks  BY <2>2, <2>3
  <2>5. Dumped(j)  BY <2>2, <2>4 DEF Dumped
  <2>6. Has(R, j, s)  BY <1>2, LessHas
  <2>7. {"dumped"} \subseteq SesFacts  BY DEF SesFacts
  <2>8. \A g \in Sessions : Opened[g] \notin {"dumped"} /\ Counted[g] \notin {"dumped"}  BY Sessions7
  <2>9. HasSes({"dumped"}, j, s)  BY <2>5, <2>8 DEF HasSes, Dumps
  <2>10. Has({"dumped"}, j, s)  BY <2>7, <2>9, OnlySes
  <2> QED  BY <1>2, <2>6, <2>10, HasUnion
<1>11. KnowsNot(C, "left", {0}, M)
  <2> SUFFICES ASSUME NEW j, NEW s, Has(C, j, s), j.left \notin {0} PROVE Has(M, j, s)
    BY DEF KnowsNot
  <2>1. Has({"more"}, j, s)  BY MoreIs
  <2> QED  BY <1>2, <2>1, HasUnion
<1>12. Ses(C, Until("left", {0}, switchtec_diag_eye_fetch ++ Input), Got)
  <2>1. Ses(C, Until("left", {0}, switchtec_diag_eye_fetch ++ Input), D)
    BY <1>9, <1>10, <1>11, DoesUntil DEF Ses
  <2> QED  BY <1>2, <2>1, SesRules
<1>13. Ses(SesFirst, switchtec_calc_lane_mask, SesFirst) /\ Ses(SesFirst, switchtec_diag_eye_set_mode, SesFirst)
  <2>1. "port_status" \notin GuardedNames /\ "eye_mode" \notin GuardedNames  BY DEF GuardedNames
  <2>2. "port_status" \notin Loud /\ "eye_mode" \notin Loud
    BY <2>1, GuardedIs, ClosesDomain DEF Loud, Stirs, Reads, Firsts, Counts, Queues, Polls
  <2>3. Calm(switchtec_calc_lane_mask) /\ Calm(switchtec_diag_eye_set_mode)
    BY <2>2, CalmRules DEF switchtec_calc_lane_mask, switchtec_diag_eye_set_mode, switchtec_diag_eye_cmd_gen4
  <2> QED  BY <1>4, <2>3, SesAround
<1>14. Ses(SesFirst, Try(switchtec_diag_eye_cancel), SesFirst)
  <2>1. "EYE_CANCEL" \in DOMAIN Closes /\ SesFirst \in SUBSET (Base \cup {"dumped", "none got"})
    BY ClosesDomain DEF SesFirst
  <2>2. Keeps("EYE_CANCEL", SesFirst) /\ MayDo("EYE_CANCEL", SesFirst)  BY <2>1, KeepsClose
  <2>3. Does(Both, SesFirst, SesFirst, Cmd("EYE_CANCEL"), SesFirst)  BY <2>2, DoesKeep, ErrIn
  <2>4. Returns(SesFirst, "ok", SesFirst)  BY <1>4, ReturnsSame
  <2> QED  BY <2>3, <2>4, DoesTry DEF Ses, switchtec_diag_eye_cancel, switchtec_diag_eye_cmd_gen4
<1>15. Ses(SesFirst, switchtec_calc_lane_mask ++ Try(switchtec_diag_eye_cancel)
    ++ switchtec_diag_eye_set_mode ++ switchtec_diag_eye_start, C)
  BY <1>5, <1>13, <1>14, SesRules
<1> QED  BY <1>12, <1>15, SesRules DEF eye_observe_dev
LEMMA EyeRuns == CallRuns("eye", eye)
<1>1. Whole(Got) /\ Whole(SesFirst)
  BY DEF Whole, NoRes, Got, Dumps, SesFirst, Base
<1>2. Ses(SesFirst, Input, SesFirst)  BY <1>1, CalmRules, SesAround
<1>3. Ses(SesFirst, When("gen", {3, 4}, eye_observe_dev), Got)
  <2>1. Knows(SesFirst, "gen", {3, 4}, SesFirst)  BY LessKnown
  <2>2. KnowsNot(SesFirst, "gen", {3, 4}, Got)  BY FirstIsGot DEF KnowsNot, Entails
  <2> QED  BY <2>1, <2>2, EyeDumps, DoesWhen DEF Ses
<1>4. Ses(Got, When("gen", {5, 6}, switchtec_calc_lane_mask ++ Cmd("eye")), Got)
  <2>1. "port_status" \notin GuardedNames /\ "eye" \notin GuardedNames  BY DEF GuardedNames
  <2>2. "port_status" \notin Loud /\ "eye" \notin Loud
    BY <2>1, GuardedIs, ClosesDomain DEF Loud, Stirs, Reads, Firsts, Counts, Queues, Polls
  <2>3. Calm(switchtec_calc_lane_mask ++ Cmd("eye"))
    BY <2>2, CalmRules DEF switchtec_calc_lane_mask
  <2>4. Calm(When("gen", {5, 6}, switchtec_calc_lane_mask ++ Cmd("eye")))  BY <2>3, CalmRules
  <2> QED  BY <1>1, <2>4, SesAround
<1>5. Ses(SesFirst, eye, Got)  BY <1>2, <1>3, <1>4, SesRules DEF eye
<1>6. "eye" \notin Reporting  BY DEF Reporting
<1> QED  BY <1>1, <1>5, <1>6, SesRuns

-----------------------------------------------------------------------------
(* All commands.                                                               *)
LEMMA DevMenuRuns == \A c \in DOMAIN DevMenu : CallRuns(c, DevMenu[c].script)
<1>1. DOMAIN DevMenu = {"info", "status", "log_dump", "test", "temp", "port_bind_info",
                         "port_bind", "port_unbind", "stack_bif", "gpio", "rtc", "twi"}
  BY DEF DevMenu
<1>2. /\ DevMenu["info"].script = info /\ DevMenu["status"].script = status
      /\ DevMenu["log_dump"].script = log_dump /\ DevMenu["test"].script = test
      /\ DevMenu["temp"].script = temp /\ DevMenu["port_bind_info"].script = port_bind_info
      /\ DevMenu["port_bind"].script = port_bind /\ DevMenu["port_unbind"].script = port_unbind
      /\ DevMenu["stack_bif"].script = stack_bif /\ DevMenu["gpio"].script = gpio
      /\ DevMenu["rtc"].script = rtc /\ DevMenu["twi"].script = twi
  BY DEF DevMenu, Plain, Entry
<1>3. \A c \in {"info", "status", "log_dump", "test", "temp", "port_bind_info", "port_bind",
            "port_unbind", "stack_bif", "gpio", "rtc", "twi"} : CallRuns(c, DevMenu[c].script)
  <2> SUFFICES ASSUME NEW c \in {"info", "status", "log_dump", "test", "temp",
                                "port_bind_info", "port_bind", "port_unbind", "stack_bif",
                                "gpio", "rtc", "twi"} PROVE CallRuns(c, DevMenu[c].script)
    OBVIOUS
  <2>1. c \notin Reporting  BY DEF Reporting
  <2>2. Meek(DevMenu[c].script)  BY <1>2, MeekDev
  <2> QED  BY <2>1, <2>2, MeekRuns
<1> QED  BY <1>1, <1>3
LEMMA MfgMenuRuns == \A c \in DOMAIN MfgMenu : CallRuns(c, MfgMenu[c].script)
<1>1. DOMAIN MfgMenu = {"ping", "mfg_info", "mailbox", "image_list", "image_select",
                         "boot_resume", "fw_transfer", "fw_execute", "device_lock",
                         "state_set", "config_set", "kmsk_entry_add", "debug_unlock",
                         "debug_lock_update", "debug_static_token_disable",
                         "debug_unlock_token", "device_config_get",
                         "device_config_set_device", "device_config_set_customer",
                         "device_config_set_security", "dok_key_add", "dok_key_revoke",
                         "jtag_status_get", "secure_state_get"}
  BY DEF MfgMenu
<1>2. /\ MfgMenu["ping"].script = ping /\ MfgMenu["mfg_info"].script = mfg_info
      /\ MfgMenu["mailbox"].script = mailbox /\ MfgMenu["image_list"].script = image_list
      /\ MfgMenu["image_select"].script = image_select
      /\ MfgMenu["boot_resume"].script = boot_resume
      /\ MfgMenu["fw_transfer"].script = fw_transfer /\ MfgMenu["fw_execute"].script = fw_execute
      /\ MfgMenu["device_lock"].script = device_lock /\ MfgMenu["state_set"].script = state_set
      /\ MfgMenu["config_set"].script = config_set
      /\ MfgMenu["kmsk_entry_add"].script = kmsk_entry_add
      /\ MfgMenu["debug_unlock"].script = debug_unlock
      /\ MfgMenu["debug_lock_update"].script = debug_lock_update
      /\ MfgMenu["debug_static_token_disable"].script = debug_static_token_disable
      /\ MfgMenu["debug_unlock_token"].script = debug_unlock_token
      /\ MfgMenu["device_config_get"].script = device_config_get
      /\ MfgMenu["device_config_set_device"].script = device_config_set_device
      /\ MfgMenu["device_config_set_customer"].script = device_config_set_customer
      /\ MfgMenu["device_config_set_security"].script = device_config_set_security
      /\ MfgMenu["dok_key_add"].script = dok_key_add
      /\ MfgMenu["dok_key_revoke"].script = dok_key_revoke
      /\ MfgMenu["jtag_status_get"].script = jtag_status_get
      /\ MfgMenu["secure_state_get"].script = secure_state_get
  BY DEF MfgMenu, Plain, Entry
<1>3. \A c \in {"ping", "mfg_info", "mailbox", "image_list", "image_select", "boot_resume",
            "fw_execute", "debug_unlock_token", "device_config_get", "jtag_status_get",
            "secure_state_get"} : CallRuns(c, MfgMenu[c].script)
  <2> SUFFICES ASSUME NEW c \in {"ping", "mfg_info", "mailbox", "image_list", "image_select",
                                "boot_resume", "fw_execute", "debug_unlock_token",
                                "device_config_get", "jtag_status_get", "secure_state_get"}
               PROVE  CallRuns(c, MfgMenu[c].script)
    OBVIOUS
  <2>1. c \notin Reporting  BY DEF Reporting
  <2>2. Meek(MfgMenu[c].script)  BY <1>2, MeekMfg
  <2> QED  BY <2>1, <2>2, MeekRuns
<1>4. \A c \in {"fw_transfer", "device_lock", "state_set", "config_set", "kmsk_entry_add",
            "debug_unlock", "debug_lock_update", "debug_static_token_disable",
            "device_config_set_device", "device_config_set_customer",
            "device_config_set_security", "dok_key_add", "dok_key_revoke"}
      : CallRuns(c, MfgMenu[c].script)
  BY <1>2, FwTransferRuns, StateRuns, ConfigRuns, KmskRuns, UnlockRuns, SettingsRuns
<1> QED  BY <1>1, <1>3, <1>4
LEMMA FwMenuRuns == \A c \in DOMAIN FwMenu : CallRuns(c, FwMenu[c].script)
<1>1. DOMAIN FwMenu = {"fw_info", "fw_update", "fw_toggle", "fw_debug_token_part_erase",
                        "fw_redundant", "fw_read", "hard_reset"}
  BY DEF FwMenu
<1>2. /\ FwMenu["fw_info"].script = fw_info /\ FwMenu["fw_update"].script = fw_update
      /\ FwMenu["fw_toggle"].script = fw_toggle
      /\ FwMenu["fw_debug_token_part_erase"].script = fw_debug_token_part_erase
      /\ FwMenu["fw_redundant"].script = fw_redundant /\ FwMenu["fw_read"].script = fw_read
      /\ FwMenu["hard_reset"].script = hard_reset
  BY DEF FwMenu, Plain, Entry
<1>3. \A c \in {"fw_info", "fw_debug_token_part_erase", "fw_redundant", "hard_reset"}
      : CallRuns(c, FwMenu[c].script)
  <2> SUFFICES ASSUME NEW c \in {"fw_info", "fw_debug_token_part_erase", "fw_redundant",
                                "hard_reset"} PROVE CallRuns(c, FwMenu[c].script)
    OBVIOUS
  <2>1. c \notin Reporting  BY DEF Reporting
  <2>2. Meek(FwMenu[c].script)  BY <1>2, MeekFw
  <2> QED  BY <2>1, <2>2, MeekRuns
<1>4. \A c \in {"fw_update", "fw_toggle", "fw_read"} : CallRuns(c, FwMenu[c].script)
  BY <1>2, UpdateRuns, ToggleRuns, ReadRuns
<1> QED  BY <1>1, <1>3, <1>4
LEMMA FabricMenuRuns == \A c \in DOMAIN FabricMenu : CallRuns(c, FabricMenu[c].script)
<1>1. DOMAIN FabricMenu = {"topo_info", "gfms_bind", "gfms_unbind", "port_control",
                            "portcfg_set", "portcfg_show", "gfms_dump", "route",
                            "gfms_events", "device_manage", "ep_tunnel_cfg", "ep_csr_read",
                            "ep_csr_write", "ep_bar_read", "ep_bar_write",
                            "nvme_admin_passthru"}
  BY DEF FabricMenu
<1>2. /\ FabricMenu["topo_info"].script = topo_info /\ FabricMenu["gfms_bind"].script = gfms_bind
      /\ FabricMenu["gfms_unbind"].script = gfms_unbind
      /\ FabricMenu["port_control"].script = port_control
      /\ FabricMenu["portcfg_set"].script = portcfg_set
      /\ FabricMenu["portcfg_show"].script = portcfg_show
      /\ FabricMenu["gfms_dump"].script = gfms_dump /\ FabricMenu["route"].script = route
      /\ FabricMenu["gfms_events"].script = gfms_events
      /\ FabricMenu["device_manage"].script = device_manage
      /\ FabricMenu["ep_tunnel_cfg"].script = ep_tunnel_cfg
      /\ FabricMenu["ep_csr_read"].script = ep_csr_read
      /\ FabricMenu["ep_csr_write"].script = ep_csr_write
      /\ FabricMenu["ep_bar_read"].script = ep_bar_read
      /\ FabricMenu["ep_bar_write"].script = ep_bar_write
      /\ FabricMenu["nvme_admin_passthru"].script = switchtec_nvme_admin_passthru
  BY DEF FabricMenu, Plain, Entry
<1>3. \A c \in {"gfms_bind", "gfms_unbind", "port_control", "portcfg_set", "portcfg_show",
            "gfms_events", "device_manage", "ep_tunnel_cfg", "ep_csr_read", "ep_csr_write",
            "ep_bar_read", "ep_bar_write"} : CallRuns(c, FabricMenu[c].script)
  <2> SUFFICES ASSUME NEW c \in {"gfms_bind", "gfms_unbind", "port_control", "portcfg_set",
                                "portcfg_show", "gfms_events", "device_manage",
                                "ep_tunnel_cfg", "ep_csr_read", "ep_csr_write",
                                "ep_bar_read", "ep_bar_write"}
               PROVE  CallRuns(c, FabricMenu[c].script)
    OBVIOUS
  <2>1. c \notin Reporting  BY DEF Reporting
  <2>2. Meek(FabricMenu[c].script)  BY <1>2, MeekFabric
  <2> QED  BY <2>1, <2>2, MeekRuns
<1>4. \A c \in {"topo_info", "gfms_dump", "route", "nvme_admin_passthru"}
      : CallRuns(c, FabricMenu[c].script)
  BY <1>2, TopoRuns, GfmsRuns, NvmeRuns
<1> QED  BY <1>1, <1>3, <1>4
LEMMA DiagMenuRuns == \A c \in DOMAIN DiagMenu : CallRuns(c, DiagMenu[c].script)
<1>1. DOMAIN DiagMenu = {"crosshair", "eye", "ltssm_log", "loopback", "pattern", "list_mrpc",
                          "port_eq_txcoeff", "port_eq_txfslf", "port_eq_txtable", "rcvr_obj",
                          "rcvr_extended", "refclk", "tlp_inject", "aer_event_gen",
                          "linkerr_inject", "osa", "osa_config_type", "osa_config_pat",
                          "osa_config_misc", "osa_capture_control", "osa_dump_config",
                          "osa_dump_data"}
  BY DEF DiagMenu
<1>2. /\ DiagMenu["crosshair"].script = crosshair /\ DiagMenu["eye"].script = eye
      /\ DiagMenu["ltssm_log"].script = ltssm_log /\ DiagMenu["loopback"].script = loopback
      /\ DiagMenu["pattern"].script = pattern /\ DiagMenu["list_mrpc"].script = list_mrpc
      /\ DiagMenu["port_eq_txcoeff"].script = port_eq_txcoeff
      /\ DiagMenu["port_eq_txfslf"].script = port_eq_txfslf
      /\ DiagMenu["port_eq_txtable"].script = port_eq_txtable
      /\ DiagMenu["rcvr_obj"].script = rcvr_obj
      /\ DiagMenu["rcvr_extended"].script = rcvr_extended /\ DiagMenu["refclk"].script = refclk
      /\ DiagMenu["tlp_inject"].script = tlp_inject
      /\ DiagMenu["aer_event_gen"].script = aer_event_gen
      /\ DiagMenu["linkerr_inject"].script = linkerr_inject /\ DiagMenu["osa"].script = osa
      /\ DiagMenu["osa_config_type"].script = osa_config_type
      /\ DiagMenu["osa_config_pat"].script = osa_config_pat
      /\ DiagMenu["osa_config_misc"].script = osa_config_misc
      /\ DiagMenu["osa_capture_control"].script = osa_capture_control
      /\ DiagMenu["osa_dump_config"].script = osa_dump_config
      /\ DiagMenu["osa_dump_data"].script = osa_dump_data
  BY DEF DiagMenu, Plain, Entry
<1>3. \A c \in {"pattern", "list_mrpc", "port_eq_txcoeff", "port_eq_txfslf",
            "port_eq_txtable", "rcvr_obj", "rcvr_extended", "refclk", "tlp_inject",
            "aer_event_gen", "linkerr_inject", "osa", "osa_config_type", "osa_config_pat",
            "osa_config_misc", "osa_capture_control", "osa_dump_config", "osa_dump_data"}
      : CallRuns(c, DiagMenu[c].script)
  <2> SUFFICES ASSUME NEW c \in {"pattern", "list_mrpc", "port_eq_txcoeff", "port_eq_txfslf",
                                "port_eq_txtable", "rcvr_obj", "rcvr_extended", "refclk",
                                "tlp_inject", "aer_event_gen", "linkerr_inject", "osa",
                                "osa_config_type", "osa_config_pat", "osa_config_misc",
                                "osa_capture_control", "osa_dump_config", "osa_dump_data"}
               PROVE  CallRuns(c, DiagMenu[c].script)
    OBVIOUS
  <2>1. c \notin Reporting  BY DEF Reporting
  <2>2. Meek(DiagMenu[c].script)  BY <1>2, MeekDiag
  <2> QED  BY <2>1, <2>2, MeekRuns
<1>4. \A c \in {"crosshair", "eye", "ltssm_log", "loopback"} : CallRuns(c, DiagMenu[c].script)
  BY <1>2, CrossRuns, EyeRuns, LtssmRuns, LoopRuns
<1> QED  BY <1>1, <1>3, <1>4
LEMMA PmonMenuRuns == \A c \in DOMAIN PmonMenu : CallRuns(c, PmonMenu[c].script)
<1>1. DOMAIN PmonMenu = {"bw", "latency", "evcntr_setup", "evcntr", "evcntr_show",
                          "evcntr_del", "evcntr_wait"}
  BY DEF PmonMenu
<1>2. /\ PmonMenu["bw"].script = bw /\ PmonMenu["latency"].script = latency
      /\ PmonMenu["evcntr_setup"].script = evcntr_setup /\ PmonMenu["evcntr"].script = evcntr
      /\ PmonMenu["evcntr_show"].script = evcntr_show
      /\ PmonMenu["evcntr_del"].script = evcntr_del
      /\ PmonMenu["evcntr_wait"].script = evcntr_wait
  BY DEF PmonMenu, Plain, Entry
<1>3. \A c \in {"evcntr", "evcntr_show", "evcntr_del", "evcntr_wait"}
      : CallRuns(c, PmonMenu[c].script)
  <2> SUFFICES ASSUME NEW c \in {"evcntr", "evcntr_show", "evcntr_del", "evcntr_wait"}
               PROVE  CallRuns(c, PmonMenu[c].script)
    OBVIOUS
  <2>1. c \notin Reporting  BY DEF Reporting
  <2>2. Meek(PmonMenu[c].script)  BY <1>2, MeekPmon
  <2> QED  BY <2>1, <2>2, MeekRuns
<1>4. \A c \in {"bw", "latency", "evcntr_setup"} : CallRuns(c, PmonMenu[c].script)
  BY <1>2, BwRuns, LatencyRuns, CounterRuns
<1> QED  BY <1>1, <1>3, <1>4
LEMMA AllRuns == AllRun
<1> SUFFICES ASSUME NEW c \in DOMAIN Commands PROVE CallRuns(c, Commands[c].script)
  BY DEF AllRun
<1>1. PICK m \in Files : c \in DOMAIN m /\ Commands[c] = m[c]  BY CommandsDomain
<1>2. CallRuns(c, m[c].script)
  BY <1>1, DevMenuRuns, MfgMenuRuns, FwMenuRuns, FabricMenuRuns, DiagMenuRuns, PmonMenuRuns DEF Files
<1> QED  BY <1>1, <1>2

\* The invariant holds in every state of every behaviour.
THEOREM InvHolds == Spec => []Inv
  BY AllRuns, InvAlways
-----------------------------------------------------------------------------
(* What is said of the commands, of any number of processes and calls, with any *)
(* options, from any state of the switch.                                      *)

\* What is left of a dump is never less than nothing; numbers of calls are of calls
\* there were; the loopback modes that are on are those the switch has (Gen5 has
\* others than the rest).
THEOREM ShellTypeOK == Spec => []TypeOK
<1>1. Inv => TypeOK  BY TypeFromInv
<1> QED  BY <1>1, InvHolds, PTL

\* A command for which the switch wants a key or a signature is sent only after
\* this call has sent its own, and no former call's will do (lib/mfg.c).
THEOREM ShellAuthIsOwn == Spec => []AuthIsOwn
<1>1. Inv => AuthIsOwn  BY AuthFromInv
<1> QED  BY <1>1, InvHolds, PTL

\* What cannot be undone is done after the user has agreed, twice where the image
\* is newer, and to a switch that is as it was tested to be (cli/mfg.c, cli/main.c).
THEOREM ShellIrreversibleAsChecked == Spec => []IrreversibleAsChecked
<1>1. Inv => IrreversibleAsChecked  BY IrreversibleFromInv
<1> QED  BY <1>1, InvHolds, PTL

\* fw_update leaves the boot partition read-only where it wrote the image, or
\* failed to (cli/main.c).
THEOREM ShellBootRoRestored == Spec => []BootRoRestored
<1>1. Inv => BootRoRestored  BY BootFromInv
<1> QED  BY <1>1, InvHolds, PTL

\* What fw_toggle and loopback --disable report is so (cli/main.c, cli/diag.c).
THEOREM ShellSettingsAsReported == Spec => []SettingsAsReported
<1>1. Inv => SettingsAsReported  BY ReportedFromInv
<1> QED  BY <1>1, InvHolds, PTL

\* A dump that succeeds has got every part of its own, of any number of parts
\* (lib/topo.c, lib/fabric.c, lib/diag.c, lib/fw.c).
THEOREM ShellDumpIsOwn == Spec => []DumpIsOwn
<1>1. Inv => DumpIsOwn  BY DumpFromInv
<1> QED  BY <1>1, InvHolds, PTL

\* A command that succeeds leaves no session of its own open.
THEOREM ShellSessionsClosed == Spec => []SessionsClosed
<1>1. Inv => SessionsClosed  BY ClosedFromInv
<1> QED  BY <1>1, InvHolds, PTL

\* Latencies and bandwidths that are shown were measured since this call's setup
\* (lib/pmon.c).
THEOREM ShellMeasuresOwnSetup == Spec => []MeasuresOwnSetup
<1>1. Inv => MeasuresOwnSetup  BY MeasuresFromInv
<1> QED  BY <1>1, InvHolds, PTL

\* A counter that the user did not name was found free before it is set up
\* (get_free_counter).
THEOREM ShellFreeCounter == Spec => []FreeCounter
<1>1. Inv => FreeCounter  BY CounterFromInv
<1> QED  BY <1>1, InvHolds, PTL
=============================================================================
