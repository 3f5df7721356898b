------------------------------- MODULE FwCmds -------------------------------
(* "switchtec fw-..." (cli/main.c) and the functions of lib/fw.c it calls: the *)
(* partitions, which of two is active, the read-only flag of the boot           *)
(* partition.  The download of an image, one command here, is FwDownload's.     *)
EXTENDS MfgCmds

Types == {"bl2", "key", "firmware", "config", "riotcore"}
Parts == 2                                         \* partitions with metadata

-----------------------------------------------------------------------------
(* lib/fw.c.                                                                   *)
switchtec_fw_set_boot_ro(c) == Need("gen", {3}) ++ Cmd(c)
switchtec_fw_is_boot_ro     == Need("gen", {3}) ++ Cmd("BOOT_RO_GET")

\* An image counts as newer only where the versions of the switch were read.
switchtec_fw_file_secure_version_newer ==
  When("gen", {4, 5, 6}, Try(switchtec_sn_ver_get_with_phase))

\* In BL2 the answer is not awaited, and BL2 itself is toggled last.
switchtec_fw_toggle_active_partition ==
  Instead("phase", {"BL2"}, WhenOpt({"firmware", "config"}, Post("TOGGLE"))
                              ++ WhenOpt({"bl2"}, Try(Post("TOGGLE_BL2"))))
    ++ Cmd("TOGGLE")

switchtec_fw_debug_token_part_erase == Cmd("TOKEN_ERASE")

set_redundant == Try(Cmd("REDUNDANT"))
switchtec_fw_set_redundant_flag ==
  WhenOpt({"key"}, set_redundant) ++ WhenOpt({"riotcore"}, set_redundant)
    ++ WhenOpt({"bl2"}, set_redundant) ++ WhenOpt({"config"}, set_redundant)
    ++ WhenOpt({"firmware"}, set_redundant)

\* Gen3 reads the flash; footers that cannot be read are no error.
switchtec_fw_read == Cmd("flash")
switchtec_fw_map_get_active == Times(2, switchtec_fw_read)
switchtec_fw_info_metadata_gen3 == Try(switchtec_fw_read)
switchtec_fw_part_info_gen3 ==
  Try(switchtec_fw_is_boot_ro) ++ WhenOpt({"map"}, switchtec_fw_map_get_active)
    ++ UnlessOpt({"map"}, Cmd("flash_part")) ++ switchtec_fw_info_metadata_gen3

\* From Gen4 on the metadata of a valid partition is needed, that of the SEEPROM
\* (Gen5 and Gen6) is not.
switchtec_fw_info_metadata_gen4 == Cmd("metadata")
switchtec_fw_info_metadata_gen5 == Cmd("metadata")
switchtec_fw_info_metadata_gen6 == Cmd("metadata")
switchtec_fw_part_info_gen4 == switchtec_fw_info_metadata_gen4
switchtec_fw_part_info_gen5 ==
  UnlessOpt({"seeprom"}, switchtec_fw_info_metadata_gen5)
    ++ WhenOpt({"seeprom"}, Try(switchtec_fw_info_metadata_gen5))
switchtec_fw_part_info_gen6 ==
  UnlessOpt({"seeprom"}, switchtec_fw_info_metadata_gen6)
    ++ WhenOpt({"seeprom"}, Try(switchtec_fw_info_metadata_gen6))
switchtec_fw_part_info ==
  When("gen", {4, 5, 6}, Cmd("all_info"))
    ++ When("gen", {3}, Times(Parts, switchtec_fw_part_info_gen3))
    ++ When("gen", {4}, Times(Parts, switchtec_fw_part_info_gen4))
    ++ When("gen", {5}, Times(Parts, switchtec_fw_part_info_gen5))
    ++ When("gen", {6}, Times(Parts, switchtec_fw_part_info_gen6))

\* Supported, how many, each one's place and length, the active one; the
\* results for one of them are not looked at.
multicfg_subcmd == Cmd("multicfg")
get_multicfg ==
  multicfg_subcmd ++ When("left", {1}, multicfg_subcmd ++ Times(2, Try(multicfg_subcmd))
                                         ++ multicfg_subcmd)

switchtec_fw_part_summary == switchtec_fw_part_info ++ Try(get_multicfg)

\* In BL2 of Gen6, the metadata of each of the partitions (ten) alone.
switchtec_fw_part_data_bl2 == Times(Parts, Cmd("metadata"))

switchtec_sms_fmc_version_get == Cmd("fmc")

\* The first chunk is asked for from the start, the others from where it is.
switchtec_fw_img_get == Cmd("IMG_START") ++ Until("left", {0}, Cmd("IMG_NEXT")) ++ Input

switchtec_fw_read_fd == Times(2, switchtec_fw_read) ++ Input
switchtec_fw_body_read_fd == switchtec_fw_read_fd

-----------------------------------------------------------------------------
(* cli/main.c.                                                                 *)
print_fw_part_info_main     == switchtec_fw_part_summary
print_fw_part_info_bl2_gen6 == switchtec_fw_part_data_bl2
print_fw_part_info ==
  When("gen", {6}, Instead("phase", {"BL2"}, print_fw_part_info_bl2_gen6))
    ++ print_fw_part_info_main

\* (lib/platform/platform.c) The image that runs must be among the partitions.
switchtec_get_fw_version == switchtec_fw_part_summary ++ Input

fw_info ==
  Need("phase", {"BL2", "FW"}) ++ When("phase", {"FW"}, switchtec_get_fw_version)
    ++ Try(print_fw_part_info) ++ Need("res", {"ok"})
    ++ When("gen", {6}, Try(switchtec_sms_fmc_version_get))

\* Mutant of fw_update: an image that fails leaves the boot partition writable.
fw_update_without_restore ==
  Input ++ Need("phase", {"BL2", "FW"}) ++ Input ++ Confirm
    ++ UnlessOpt({"boot"}, WhenOpt({"set_boot_rw"}, Fails))
    ++ WhenOpt({"boot"}, WhenOpt({"set_boot_rw"}, Try(switchtec_fw_set_boot_ro("SET_BOOT_RW")))
                           ++ Try(switchtec_fw_is_boot_ro) ++ Need("bootro", {"rw", "unknown"}))
    ++ switchtec_fw_file_secure_version_newer ++ When("versions", {TRUE}, WhenOpt({"newer"}, Confirm))
    ++ Cmd("WRITE") ++ Try(print_fw_part_info)
    ++ WhenOpt({"set_boot_rw"}, Try(switchtec_fw_set_boot_ro("SET_BOOT_RO")))

\* The options are the user's set_boot_rw, and what the image is: one of the
\* boot or map partitions (boot), of a version newer than the switch's (newer).
fw_update ==
  Input ++ Need("phase", {"BL2", "FW"}) ++ Input ++ Confirm
    ++ UnlessOpt({"boot"}, WhenOpt({"set_boot_rw"}, Fails))
    ++ WhenOpt({"boot"}, WhenOpt({"set_boot_rw"}, Try(switchtec_fw_set_boot_ro("SET_BOOT_RW")))
                           ++ Try(switchtec_fw_is_boot_ro) ++ Need("bootro", {"rw", "unknown"}))
    ++ switchtec_fw_file_secure_version_newer ++ When("versions", {TRUE}, WhenOpt({"newer"}, Confirm))
    ++ Try(Cmd("WRITE")) ++ SaveResult ++ When("saved", {"ok"}, Try(print_fw_part_info))
    ++ WhenOpt({"set_boot_rw"}, Try(switchtec_fw_set_boot_ro("SET_BOOT_RO")))
    ++ Need("saved", {"ok"})

\* Partitions the generation does not have.
ToggleTested ==
  When("gen", {3}, WhenOpt({"bl2", "key", "riotcore"}, Fails))
    ++ When("gen", {4}, WhenOpt({"riotcore"}, Fails))

\* Mutant of fw_toggle: the result that is reported is that of the information.
fw_toggle_reports_info ==
  WhenOpt(Types, ToggleTested ++ Try(switchtec_fw_toggle_active_partition))
    ++ Try(print_fw_part_info) ++ SaveResult ++ Need("saved", {"ok"})

\* "Success" is printed where saved is ok; the command's own result is that of
\* the partition information.
fw_toggle ==
  WhenOpt(Types, ToggleTested ++ Try(switchtec_fw_toggle_active_partition) ++ SaveResult)
    ++ print_fw_part_info

fw_debug_token_part_erase == Need("gen", {6}) ++ Confirm ++ switchtec_fw_debug_token_part_erase

fw_redundant ==
  Need("gen", {5, 6}) ++ UnlessOpt(Types, Fails) ++ Input
    ++ When("gen", {6}, WhenOpt({"riotcore"}, Fails))
    ++ switchtec_fw_set_redundant_flag ++ print_fw_part_info

\* A summary that cannot be got ends the command without an error; the summary
\* has no entry for the debug token; the device is opened anew on Gen6; before
\* Gen6 the number of bytes read, zero for an invalid image, is taken for an error.
fw_read ==
  When("gen", {3, 4, 5}, WhenOpt({"pmap", "token"}, Fails)) ++ Input
    ++ Try(switchtec_fw_part_summary) ++ Instead("res", {"mrpc", "sys", "err"}, Skip)
    ++ WhenOpt({"token"}, Fails) ++ Input ++ WhenOpt({"invalid"}, Confirm)
    ++ When("gen", {6}, Input ++ switchtec_fw_img_get)
    ++ When("gen", {3, 4, 5}, UnlessOpt({"invalid"}, switchtec_fw_body_read_fd ++ Fails))

switchtec_hard_reset == Cmd("RESET")
hard_reset == Confirm ++ switchtec_hard_reset

-----------------------------------------------------------------------------
FwMenu ==
  [fw_info |-> Entry(fw_info, {{}, {"map"}, {"seeprom"}}),
   fw_update |-> Entry(fw_update, {{}, {"newer"}, {"boot"}, {"boot", "set_boot_rw"},
                                   {"set_boot_rw"}}),
   fw_toggle |-> Entry(fw_toggle, {{}, {"firmware"}, {"config", "bl2"}, {"key", "riotcore"}}),
   fw_debug_token_part_erase |-> Plain(fw_debug_token_part_erase),
   fw_redundant |-> Entry(fw_redundant, {{}, {"key", "riotcore"}, {"bl2", "config", "firmware"}}),
   fw_read |-> Entry(fw_read, {{}, {"pmap"}, {"token"}, {"invalid"}}),
   hard_reset |-> Plain(hard_reset)]

\* External: what the switch does with a command that was given these options.
Asked(opt, g, phase) ==
  IF phase = "BL2" THEN opt \cap {"firmware", "config"}
  ELSE opt \cap (IF g = 5 THEN Types ELSE Types \ {"riotcore"})
Flip(act, S) == (act \ S) \cup (S \ act)
FwEffect(c, opt, s) ==
  CASE c = "SET_BOOT_RW" -> [s EXCEPT !.bootro = "rw"]
    [] c = "SET_BOOT_RO" -> [s EXCEPT !.bootro = "ro"]
    [] c = "TOGGLE"      -> [s EXCEPT !.act = Flip(@, Asked(opt, s.gen, s.phase))]
    [] c = "TOGGLE_BL2"  -> [s EXCEPT !.act = Flip(@, {"bl2"})]
    [] OTHER -> s
=============================================================================
