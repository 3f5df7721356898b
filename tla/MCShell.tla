------------------------------ MODULE MCShell -------------------------------
(* One process with each command of the menus, one that changes the loopback     *)
(* modes again, then two processes with commands that change what the other       *)
(* looks at.                                                                    *)
EXTENDS Shell

All(m) == UNION {{<<c, o>> : o \in m[c].opts} : c \in DOMAIN m}
Calls(m, C) == {x \in All(m) : x[1] \in C}

Gen345 == {"UNINITIALIZED_UNSECURED", "INITIALIZED_SECURED"}
Alone(run) ==
  [run |-> run, procs |-> 1, calls |-> 1, gen |-> 3..6, phase |-> {"BL1", "BL2", "FW"},
   sec |-> {"INITIALIZED_SECURED", "SECURED"}, kmsk |-> {FALSE}, bootro |-> {"ro"}, counter |-> {0}]
Two(run, g) ==
  [Alone(run) EXCEPT !.procs = 2, !.calls = 2, !.gen = {g}, !.phase = {"FW"},
                     !.sec = IF g = 6 THEN {"SECURE_CAPABLE"} ELSE {"UNINITIALIZED_UNSECURED"}]

Kinds ==
  [mfg |-> [Alone(All(MfgMenu)) EXCEPT
              !.sec = Gen345 \cup {"INITIALIZED_UNSECURED", "SECURE_CAPABLE", "SECURED"},
              !.kmsk = BOOLEAN],
   dev |-> Alone(All(DevMenu)),
   fw |-> [Alone(All(FwMenu)) EXCEPT !.bootro = {"ro", "rw"}],
   fabric |-> Alone(All(FabricMenu)), diag |-> Alone(All(DiagMenu)),
   pmon |-> [Alone(All(PmonMenu)) EXCEPT !.counter = {0, Somebody}],
   loop |-> [Alone(Calls(DiagMenu, {"loopback"})) EXCEPT !.calls = 2, !.gen = {4, 5},
                                                         !.phase = {"FW"}],
   sign2 |-> Two(Calls(MfgMenu, {"debug_unlock", "debug_lock_update", "dok_key_add"}), 6),
   otp2 |-> Two(Calls(MfgMenu, {"state_set", "kmsk_entry_add", "config_set"}), 5),
   boot2 |-> Two({<<"fw_update", {"boot", "set_boot_rw"}>>}, 3),
   toggle2 |-> Two({<<"fw_toggle", {"firmware"}>>, <<"fw_toggle", {"key", "riotcore"}>>}, 5),
   dump2 |-> Two({<<"topo_info", {}>>, <<"gfms_dump", {}>>, <<"hard_reset", {}>>}, 4),
   scan2 |-> Two({<<"crosshair", {}>>, <<"eye", {}>>}, 4),
   log2 |-> Two({<<"ltssm_log", {}>>, <<"gfms_events", {}>>}, 5),
   pmon2 |-> Two({<<"latency", {}>>, <<"bw", {}>>, <<"evcntr_setup", {}>>}, 4)]

MCMenus == [k \in DOMAIN Kinds |-> Kinds[k]]
=============================================================================
