------------------------------ MODULE MfgCmds -------------------------------
(* "switchtec mfg ..." (cli/mfg.c) and the functions of lib/mfg.c it calls:    *)
(* what each command tests, asks and sends, in order.  The one-time             *)
(* programmable settings, the keys and the boot phase are fields of the switch. *)
EXTENDS Script

Phases(S) == Need("phase", S)
NotBL2 == Phases({"BL1", "FW"})

-----------------------------------------------------------------------------
(* lib/mfg.c.                                                                  *)

\* Gen4 knows the extended command, or only the older one.
get_configs ==
  Try(Cmd("config_ext")) ++ Need("res", {"ok", "mrpc"})
    ++ When("res", {"mrpc"}, Input ++ Cmd("config"))

\* A failure to get the settings of the device is not an error.
get_configs_gen6 == Cmd("config") ++ Try(Cmd("device_config")) ++ Cmd("security_settings")

switchtec_security_config_get ==
  When("gen", {6}, get_configs_gen6) ++ When("gen", {5}, Cmd("config"))
    ++ When("gen", {3, 4}, get_configs)

\* The settings, then the keys.
security_settings_get_gen6 == Cmd("otp") ++ Cmd("otp")

\* In BL1 from the OTP memory, later by a command of its own.
switchtec_secure_state_get_gen6 ==
  Need("gen", {6}) ++ When("phase", {"BL1"}, Cmd("otp"))
                  ++ When("phase", {"BL2", "FW"}, Cmd("state"))

switchtec_dbg_unlock_status_get_gen6 ==
  When("phase", {"BL1"}, Cmd("secure_status")) ++ When("phase", {"BL2", "FW"}, Cmd("jtag_status"))

\* After BL1 another form of the command is tried first.
sn_ver_get_gen6 ==
  Try(Cmd("sn_ver")) ++ When("res", {"mrpc", "sys"}, Need("phase", {"BL2", "FW"}) ++ Cmd("sn_ver"))

switchtec_sn_ver_get_with_phase ==
  When("gen", {6}, sn_ver_get_gen6) ++ When("gen", {3, 4, 5}, Cmd("sn_ver"))

\* Mailbox entries, until none remains.
mailbox_to_file == Cmd("MAILBOX_GET") ++ Until("left", {0}, Cmd("MAILBOX_GET"))
mailbox_to_file_gen56 == Cmd("MAILBOX_GET") ++ Until("left", {0}, Cmd("MAILBOX_GET"))
switchtec_mailbox_to_file ==
  When("gen", {3, 4}, mailbox_to_file) ++ When("gen", {5, 6}, mailbox_to_file_gen56)

\* There are files for Gen4 and Gen5 only.
check_sec_cfg_header == Need("gen", {4, 5}) ++ Input

\* The rates are those of the switch: reading the settings begins with a command.
\* Where that fails, the caller is left with the settings it began with, all zero.
switchtec_read_sec_cfg_file ==
  check_sec_cfg_header ++ Try(When("gen", {4}, get_configs) ++ When("gen", {5}, Cmd("config")))
    ++ SaveResult ++ When("saved", {"ok"}, Input)

\* A clock rate that is none of the ten (convert_spi_clk_rate), such as that of
\* settings that were not read, is an error.
security_config_set_gen4 == get_configs ++ Need("saved", {"ok"}) ++ Cmd("CONFIG_SET")

\* Mutant of security_config_set_gen5: the rate is not looked at.
config_set_any_rate == Cmd("config") ++ Cmd("CONFIG_SET")

security_config_set_gen5 == Cmd("config") ++ Need("saved", {"ok"}) ++ Cmd("CONFIG_SET")
switchtec_security_config_set ==
  When("gen", {5}, security_config_set_gen5) ++ When("gen", {3, 4, 6}, security_config_set_gen4)

\* On Gen4 the RIOT index of image_select is whatever was on the stack, and any
\* but "not set" is refused: the call may fail for no reason.
active_image_index_set == Input ++ Cmd("ACT_IMG_IDX_SET")
active_image_index_set_gen5 == Cmd("ACT_IMG_IDX_SET")

\* The state is the user's: two commands here, one of them is sent.
secure_state_set == Case({"secured"}, Cmd("SET_SECURED")) ++ Cmd("SET_UNSECURED")
switchtec_secure_state_set_transition_ex == Need("gen", {6}) ++ secure_state_set
switchtec_secure_state_set_debug_protect == Need("gen", {6}) ++ Cmd("DEBUG_PROTECT")

dbg_unlock_send_pubkey == Cmd("PUBKEY")
dbg_unlock_send_pubkey_gen6 == Cmd("PUBKEY")
dbg_unlock_send_sig_gen6 == Cmd("SIGNATURE")

\* Gen6: key, signature and token are three commands.  Gen4 and Gen5: the
\* signature comes with the data.
switchtec_dbg_unlock ==
  Instead("gen", {6}, dbg_unlock_send_pubkey_gen6 ++ dbg_unlock_send_sig_gen6 ++ Cmd("UNLOCK_STATIC"))
    ++ dbg_unlock_send_pubkey ++ Cmd("UNLOCK_DATA")

switchtec_dbg_unlock_version_update == dbg_unlock_send_pubkey ++ Cmd("UNLOCK_UPDATE")

\* Mutant of switchtec_dbg_sec_ver_update_gen6: the key is sent, not the signature.
ver_update_without_signature == Need("gen", {6}) ++ Cmd("PUBKEY") ++ Cmd("SEC_VER_UPDATE")

switchtec_dbg_sec_ver_update_gen6 ==
  Need("gen", {6}) ++ dbg_unlock_send_pubkey_gen6 ++ dbg_unlock_send_sig_gen6
    ++ Cmd("SEC_VER_UPDATE")

switchtec_dbg_sec_static_disable_gen6 ==
  Need("gen", {6}) ++ Input ++ dbg_unlock_send_pubkey_gen6 ++ dbg_unlock_send_sig_gen6
    ++ Cmd("STATIC_DISABLE")

\* Key and signature are given where the switch is INITIALIZED_SECURED.
switchtec_kmsk_set ==
  When("sec", {"INITIALIZED_SECURED"}, Cmd("PUBKEY") ++ Cmd("SIGNATURE")) ++ Cmd("KMSK")

switchtec_device_config_set_dev      == Cmd("DEV_SETTINGS")
switchtec_device_config_set_customer == Cmd("CUSTOMER_SETTINGS")
switchtec_device_config_set_security == Cmd("SECURITY_SETTINGS")
switchtec_dok_config_signature       == Cmd("SIGNATURE")

-----------------------------------------------------------------------------
(* cli/mfg.c.                                                                  *)
ping == Cmd("dev_info") ++ When("gen", {6}, When("phase", {"BL2"}, Try(switchtec_secure_state_get_gen6)))

mfg_info ==
  When("gen", {6}, Try(switchtec_secure_state_get_gen6) ++ Try(switchtec_dbg_unlock_status_get_gen6))
    ++ switchtec_sn_ver_get_with_phase
    ++ When("gen", {4, 5}, Instead("phase", {"BL2"}, Skip))
    ++ When("gen", {6}, Instead("phase", {"BL1"}, security_settings_get_gen6))
    ++ switchtec_security_config_get

mailbox == switchtec_mailbox_to_file

image_list == Need("gen", {4, 5}) ++ Phases({"BL1"}) ++ Cmd("ACT_IMG_IDX_GET")

image_select ==
  Need("gen", {4, 5}) ++ Input ++ Phases({"BL1"}) ++ Input
    ++ When("gen", {5}, active_image_index_set_gen5) ++ When("gen", {4}, active_image_index_set)

boot_resume == Need("gen", {4, 5}) ++ Phases({"BL1", "BL2"}) ++ Confirm ++ Cmd("BOOTUP_RESUME")

\* The download itself is FwDownload's.
fw_transfer == Phases({"BL1"}) ++ Input ++ Confirm ++ Cmd("WRITE")

fw_execute == Input ++ Phases({"BL1"}) ++ Confirm ++ Cmd("FW_TX_EXEC")

device_lock ==
  Need("gen", {6}) ++ NotBL2 ++ switchtec_secure_state_get_gen6 ++ Need("sec", {"SECURE_CAPABLE"})
    ++ Confirm ++ switchtec_secure_state_set_debug_protect

state_set ==
  Input ++ NotBL2
    ++ Instead("gen", {6}, switchtec_secure_state_get_gen6 ++ Need("sec", {"SECURE_CAPABLE"})
                             ++ Confirm ++ switchtec_secure_state_set_transition_ex)
    ++ switchtec_security_config_get ++ Need("sec", {"UNINITIALIZED_UNSECURED"})
    ++ Confirm ++ secure_state_set

\* Only the errors of the file itself end the command; after any other it goes
\* on.  Gen3 and Gen6 ask for the configuration, and come no further than the
\* header of the file.
config_set ==
  NotBL2 ++ switchtec_security_config_get
    ++ Need("sec", {"UNINITIALIZED_UNSECURED"}) ++ switchtec_read_sec_cfg_file ++ Input
    ++ Confirm ++ switchtec_security_config_set

\* The test of kmsk is switchtec_security_state_has_kmsk.  What Gen6 answers has
\* another layout than what is tested, and is longer: not modelled.
kmsk_entry_add ==
  Need("gen", {3, 4, 5}) ++ Input ++ NotBL2 ++ switchtec_security_config_get
    ++ Need("sec", {"UNINITIALIZED_UNSECURED", "INITIALIZED_SECURED"})
    ++ Input ++ Need("kmsk", {FALSE}) ++ Input ++ Confirm ++ switchtec_kmsk_set

debug_unlock == Input ++ switchtec_dbg_unlock

debug_lock_update ==
  Input ++ Confirm ++ Instead("gen", {6}, switchtec_dbg_sec_ver_update_gen6)
        ++ switchtec_dbg_unlock_version_update

debug_static_token_disable ==
  Need("gen", {6}) ++ Input ++ Confirm ++ switchtec_dbg_sec_static_disable_gen6

debug_unlock_token ==
  Input ++ When("gen", {6}, Cmd("token")) ++ When("gen", {4, 5}, switchtec_sn_ver_get_with_phase)
        ++ Input

device_config_get == Need("gen", {6}) ++ Input ++ Cmd("device_config")

\* The settings are those of a file or of the options.
device_config_set_device   == Need("gen", {6}) ++ Input ++ Confirm ++ switchtec_device_config_set_dev
device_config_set_customer == Need("gen", {6}) ++ Input ++ Confirm ++ switchtec_device_config_set_customer
device_config_set_security == Need("gen", {6}) ++ Input ++ Confirm ++ switchtec_device_config_set_security

\* The signature file is read after the question.
dok_signature == WhenOpt({"signature"}, Input ++ switchtec_dok_config_signature)
dok_key_add    == Need("gen", {6}) ++ Input ++ Confirm ++ dok_signature ++ Cmd("DOK_KEY_ADD")
dok_key_revoke == Need("gen", {6}) ++ Input ++ Confirm ++ dok_signature ++ Cmd("DOK_KEY_REVOKE")

jtag_status_get  == Need("gen", {6}) ++ switchtec_dbg_unlock_status_get_gen6
secure_state_get == Need("gen", {6}) ++ switchtec_secure_state_get_gen6

-----------------------------------------------------------------------------
\* The commands of the menu, and the sets of options that matter.
Signed == {{}, {"signature"}}
MfgMenu ==
  [ping |-> Plain(ping), mfg_info |-> Plain(mfg_info), mailbox |-> Plain(mailbox),
   image_list |-> Plain(image_list), image_select |-> Plain(image_select),
   boot_resume |-> Plain(boot_resume), fw_transfer |-> Plain(fw_transfer),
   fw_execute |-> Plain(fw_execute), device_lock |-> Plain(device_lock),
   state_set |-> Entry(state_set, {{}, {"secured"}}), config_set |-> Plain(config_set),
   kmsk_entry_add |-> Plain(kmsk_entry_add), debug_unlock |-> Plain(debug_unlock),
   debug_lock_update |-> Plain(debug_lock_update),
   debug_static_token_disable |-> Plain(debug_static_token_disable),
   debug_unlock_token |-> Plain(debug_unlock_token),
   device_config_get |-> Plain(device_config_get),
   device_config_set_device |-> Plain(device_config_set_device),
   device_config_set_customer |-> Plain(device_config_set_customer),
   device_config_set_security |-> Plain(device_config_set_security),
   dok_key_add |-> Entry(dok_key_add, Signed), dok_key_revoke |-> Entry(dok_key_revoke, Signed),
   jtag_status_get |-> Plain(jtag_status_get), secure_state_get |-> Plain(secure_state_get)]

\* External: what the switch does with a command of the call id.
MfgEffect(c, id, s) ==
  CASE c = "PUBKEY" -> [s EXCEPT !.pub = id]
    [] c = "SIGNATURE" -> [s EXCEPT !.sig = id]
    [] c = "SET_SECURED" -> [s EXCEPT !.sec = "INITIALIZED_SECURED"]
    [] c = "SET_UNSECURED" -> [s EXCEPT !.sec = "INITIALIZED_UNSECURED"]
    [] c = "KMSK" -> [s EXCEPT !.kmsk = TRUE]
    [] c = "BOOTUP_RESUME" -> [s EXCEPT !.phase = "FW"]
    [] c = "FW_TX_EXEC" -> [s EXCEPT !.phase = "BL2"]
    [] OTHER -> s
=============================================================================
