------------------------------ MODULE DevCmds -------------------------------
(* Opening a switch, and the commands of cli/main.c over lib/switchtec.c that     *)
(* FwCmds and PmonCmds do not have: information, status, logs, pins, clocks.       *)
EXTENDS FwCmds, PmonCmds

-----------------------------------------------------------------------------
(* lib/switchtec.c, lib/fw.c.                                                  *)

\* Generation and boot phase come from the answer; a command the switch does not
\* know is the answer of one of Gen3 in its main firmware.  Other errors are -1.
switchtec_get_device_info == Try(Cmd("dev_info")) ++ Need("res", {"ok"})

\* Gen5 and later have another subcommand.
switchtec_get_device_id_bl2 == Try(Cmd("all_info")) ++ When("res", {"mrpc"}, Cmd("all_info"))

\* Where the device has an id to read there, the flash is not asked, and what it
\* answers is not missed.
set_gen_variant == Try(Input ++ switchtec_get_device_id_bl2) ++ switchtec_get_device_info

\* Only a PAX has an id; another switch is not asked for it.
set_local_pax_id == Try(Input) ++ When("res", {"ok"}, Cmd("pax_id"))

switchtec_open == Input ++ set_gen_variant ++ set_local_pax_id

switchtec_echo == Cmd("echo")

\* A measurement is begun and read, or read.
switchtec_die_temp ==
  When("gen", {3}, Times(2, Cmd("temp"))) ++ When("gen", {4, 5, 6}, Cmd("temp"))
switchtec_die_temps ==
  When("gen", {3}, Times(2, Cmd("temp"))) ++ When("gen", {4, 5, 6}, Cmd("temp"))

\* From the first entry, or offset, on, while some remain.
LogLoop == Cmd("LOG_FIRST") ++ Until("left", {0}, Cmd("LOG_NEXT"))
log_a_to_file == Input ++ LogLoop
log_b_to_file == LogLoop
log_c_to_file == Cmd("log")
log_d_to_file == LogLoop

\* Before Gen5, two of the errors of the switch mean that it knows the older form
\* only, and the log is got from the start.
log_ram_flash_to_file ==
  When("gen", {5, 6}, log_a_to_file)
    ++ When("gen", {3, 4}, Try(log_a_to_file) ++ Need("res", {"ok", "mrpc"})
                             ++ When("res", {"mrpc"}, Input ++ log_a_to_file))

OtherLogs == {"memlog", "ftdc", "nvhdr"}
switchtec_log_to_file ==
  UnlessOpt(OtherLogs, log_ram_flash_to_file) ++ WhenOpt({"ftdc"}, log_d_to_file)
    ++ WhenOpt({"memlog"}, log_b_to_file) ++ WhenOpt({"nvhdr"}, log_c_to_file)

switchtec_log_def_to_file == LogLoop

switchtec_bind_info == Cmd("bind")
switchtec_bind      == Cmd("bind")
switchtec_unbind    == Cmd("bind")

\* Some of Gen6 have no bifurcation to ask for (switchtec_is_gen6_hlc).
switchtec_get_stack_bif == When("gen", {6}, Input) ++ Cmd("bif") ++ Input
switchtec_set_stack_bif == When("gen", {6}, Input) ++ Input ++ Cmd("bif")

switchtec_get_gpio               == Cmd("gpio")
switchtec_set_gpio               == Cmd("gpio")
switchtec_get_gpio_direction_cfg == Cmd("gpio")
switchtec_get_gpio_polarity_cfg  == Cmd("gpio")
switchtec_en_dis_interrupt       == Cmd("gpio")
switchtec_get_all_pin_sts        == Cmd("gpio")

switchtec_rtc_counter_reset == Cmd("rtc")
switchtec_rtc_counter_set   == Cmd("rtc")
switchtec_rtc_counter_get   == Cmd("rtc")

switchtec_twi_access_write == Cmd("twi")
switchtec_twi_access_read  == Cmd("twi")
switchtec_twi_access_reset == Cmd("twi")

-----------------------------------------------------------------------------
(* cli/main.c.                                                                 *)

\* A version that cannot be read is not an error; that of the device is not a
\* command but a register.
print_dev_info ==
  Try(switchtec_get_fw_version) ++ switchtec_get_device_info ++ When("gen", {5, 6}, Input)
info == print_dev_info

\* The devices behind the ports are those that sysfs has.
status == port_status ++ Input ++ switchtec_bwcntr_many

get_log_def_file == Input ++ switchtec_log_def_to_file

\* Definitions that cannot be got end the command without an error.
log_dump ==
  Input ++ switchtec_get_device_info
    ++ When("phase", {"BL1", "BL2"},
            UnlessOpt(OtherLogs \cup {"log_def"}, WhenOpt({"text"}, Fails)))
    ++ WhenOpt({"text"}, UnlessOpt(OtherLogs \cup {"log_def"},
                                   Try(get_log_def_file) ++ Instead("res", {"mrpc", "sys", "err"}, Skip)))
    ++ switchtec_log_to_file

test == switchtec_echo ++ Input

temp == WhenOpt({"verbose"}, switchtec_die_temps) ++ UnlessOpt({"verbose"}, switchtec_die_temp)

port_bind_info == Input ++ switchtec_bind_info
port_bind      == Input ++ switchtec_bind
port_unbind    == Input ++ switchtec_unbind

\* When all stacks are asked for, those the switch has not are skipped.
stack_bif_get_print ==
  Try(switchtec_get_stack_bif)
    ++ WhenOpt({"stack"}, Need("res", {"ok"}))
    ++ UnlessOpt({"stack"}, Need("res", {"ok", "mrpc"}) ++ When("res", {"mrpc"}, Input))
stack_bif_set == Input ++ Confirm ++ switchtec_set_stack_bif
stack_bif ==
  WhenOpt({"set"}, stack_bif_set)
    ++ UnlessOpt({"set"}, WhenOpt({"stack"}, stack_bif_get_print)
                            ++ UnlessOpt({"stack"}, Times(2, stack_bif_get_print)))

\* The first of the options decides.
gpio ==
  Input
    ++ WhenOpt({"direction"}, switchtec_get_gpio_direction_cfg)
    ++ WhenOpt({"polarity"}, switchtec_get_gpio_polarity_cfg)
    ++ WhenOpt({"interrupt"}, switchtec_en_dis_interrupt)
    ++ WhenOpt({"pins"}, switchtec_get_all_pin_sts)
    ++ WhenOpt({"value"}, switchtec_set_gpio)
    ++ UnlessOpt({"direction", "polarity", "interrupt", "pins", "value"}, switchtec_get_gpio)

rtc ==
  Need("gen", {6}) ++ WhenOpt({"set"}, WhenOpt({"reset"}, Fails) ++ switchtec_rtc_counter_set)
    ++ UnlessOpt({"set"}, WhenOpt({"reset"}, switchtec_rtc_counter_reset))
    ++ switchtec_rtc_counter_get

twi ==
  Input ++ WhenOpt({"write"}, WhenOpt({"reset"}, Fails) ++ Input ++ switchtec_twi_access_write)
        ++ UnlessOpt({"write"}, WhenOpt({"reset"}, switchtec_twi_access_reset)
                                  ++ UnlessOpt({"reset"}, switchtec_twi_access_read))

-----------------------------------------------------------------------------
DevMenu ==
  [info |-> Plain(info), status |-> Plain(status),
   log_dump |-> Entry(log_dump, {{}, {"text"}, {"text", "log_def"}, {"text", "memlog"}, {"ftdc"},
                                 {"nvhdr"}}),
   test |-> Plain(test), temp |-> Entry(temp, {{}, {"verbose"}}),
   port_bind_info |-> Plain(port_bind_info), port_bind |-> Plain(port_bind),
   port_unbind |-> Plain(port_unbind), stack_bif |-> Entry(stack_bif, {{}, {"stack"}, {"set"}}),
   gpio |-> Entry(gpio, {{}, {"direction"}, {"polarity"}, {"interrupt"}, {"pins"}, {"value"}}),
   rtc |-> Entry(rtc, SUBSET {"set", "reset"}), twi |-> Entry(twi, SUBSET {"write", "reset"})]
=============================================================================
