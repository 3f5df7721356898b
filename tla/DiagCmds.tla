------------------------------ MODULE DiagCmds ------------------------------
(* "switchtec diag ..." (cli/diag.c) and the functions of lib/diag.c it calls;   *)
(* the eye capture of Gen5 and Gen6 is EyeCapture's.  The log of the link states *)
(* is frozen while it is read, the loopback modes of a port are set one command   *)
(* after the other, a cross hair or an eye is measured while the process polls.   *)
EXTENDS Script, Naturals

Lanes == 2                                               \* of the port

-----------------------------------------------------------------------------
(* lib/diag.c.                                                                 *)

switchtec_diag_cross_hair_enable  == Cmd("CROSS_ON")
switchtec_diag_cross_hair_disable == Cmd("CROSS_OFF")
switchtec_diag_cross_hair_get     == Cmd("CROSS_GET")

switchtec_diag_eye_cmd_gen4(c) == Cmd(c)
switchtec_diag_eye_cancel   == switchtec_diag_eye_cmd_gen4("EYE_CANCEL")
switchtec_diag_eye_set_mode == switchtec_diag_eye_cmd_gen4("eye_mode")
switchtec_diag_eye_start    == switchtec_diag_eye_cmd_gen4("EYE_START")
switchtec_diag_eye_fetch ==
  Cmd("EYE_FETCH") ++ Until("status", {"none", "ready", "failed"}, Cmd("EYE_FETCH"))
    ++ Need("status", {"ready"})

\* A mode is switched on or off by a command of its own, by an option.
SetLoop(mode, asked) == WhenOpt({asked}, Cmd(mode.on)) ++ UnlessOpt({asked}, Cmd(mode.off))
Parallel == [on |-> "PARALLEL_ON", off |-> "PARALLEL_OFF"]
External == [on |-> "EXTERNAL_ON", off |-> "EXTERNAL_OFF"]
Pipe     == [on |-> "PIPE_ON",     off |-> "PIPE_OFF"]
Ltssm    == [on |-> "LTSSM_ON",    off |-> "LTSSM_OFF"]
RxToTx   == [on |-> "RX_TO_TX_ON", off |-> "RX_TO_TX_OFF"]
TxToRx   == [on |-> "TX_TO_RX_ON", off |-> "TX_TO_RX_OFF"]

\* The parameters are the options that decide.  With only ltssm the others are
\* left as they are; with parallel, external is.
switchtec_diag_loopback_set_gen56(parallel, external, ltssm, pipe) ==
  LET all == SetLoop(Parallel, parallel) ++ UnlessOpt({parallel}, SetLoop(External, external))
               ++ SetLoop(Pipe, pipe) ++ SetLoop(Ltssm, ltssm)
  IN  WhenOpt({parallel, external}, all)
        ++ UnlessOpt({parallel, external}, WhenOpt({ltssm}, Cmd(Ltssm.on))
                                             ++ UnlessOpt({ltssm}, all))

switchtec_diag_loopback_set_gen4 ==
  SetLoop(RxToTx, "rx_to_tx") ++ SetLoop(TxToRx, "tx_to_rx") ++ SetLoop(Ltssm, "ltssm")

switchtec_diag_loopback_set(parallel, external, ltssm, pipe) ==
  IfElse("gen", {5}, switchtec_diag_loopback_set_gen56(parallel, external, ltssm, pipe),
         switchtec_diag_loopback_set_gen4)

switchtec_diag_loopback_get == Times(3, Cmd("loopback"))

switchtec_diag_pattern_gen_set == Cmd("diag")
switchtec_diag_pattern_gen_get == Cmd("diag")
switchtec_diag_pattern_mon_set == Cmd("diag")
switchtec_diag_pattern_mon_get == Cmd("diag")
switchtec_diag_pattern_inject  == Cmd("diag")
switchtec_diag_rcvr_obj        == Cmd("diag")
switchtec_diag_rcvr_ext        == Cmd("diag")
switchtec_diag_perm_table      == Cmd("diag")
switchtec_diag_refclk_ctl      == Cmd("diag")
switchtec_diag_refclk_status   == Cmd("diag")

switchtec_gen4_diag_port_eq_tx_coeff == Cmd("eq")
switchtec_gen5_diag_port_eq_tx_coeff == Cmd("eq")
switchtec_gen6_diag_port_eq_tx_coeff == Cmd("eq")
switchtec_diag_port_eq_tx_coeff ==
  When("gen", {4}, switchtec_gen4_diag_port_eq_tx_coeff)
    ++ When("gen", {5}, switchtec_gen5_diag_port_eq_tx_coeff)
    ++ When("gen", {6}, switchtec_gen6_diag_port_eq_tx_coeff) ++ Need("gen", {4, 5, 6})

switchtec_gen4_diag_port_eq_tx_table == Cmd("eq")
switchtec_gen5_diag_port_eq_tx_table == Cmd("eq")
switchtec_diag_port_eq_tx_table ==
  When("gen", {4}, switchtec_gen4_diag_port_eq_tx_table)
    ++ When("gen", {5, 6}, switchtec_gen5_diag_port_eq_tx_table) ++ Need("gen", {4, 5, 6})

switchtec_gen4_diag_port_eq_tx_fslf == Cmd("eq")
switchtec_gen5_diag_port_eq_tx_fslf == Cmd("eq")
switchtec_gen6_diag_port_eq_tx_fslf == Cmd("eq")
switchtec_diag_port_eq_tx_fslf ==
  When("gen", {4}, switchtec_gen4_diag_port_eq_tx_fslf)
    ++ When("gen", {5}, switchtec_gen5_diag_port_eq_tx_fslf)
    ++ When("gen", {6}, switchtec_gen6_diag_port_eq_tx_fslf) ++ Need("gen", {4, 5, 6})

\* Frozen, measured, got, released; an error leaves it frozen.  One part is got
\* even of an empty log.
switchtec_diag_ltssm_log_gen4 ==
  Cmd("FREEZE") ++ Cmd("LOG_STATUS") ++ Cmd("LOG_DUMP") ++ Until("left", {0}, Cmd("LOG_DUMP"))
    ++ Cmd("UNFREEZE")
switchtec_diag_ltssm_log_gen5 ==
  Cmd("FREEZE") ++ Cmd("LOG_STATUS") ++ Cmd("LOG_DUMP") ++ Until("left", {0}, Cmd("LOG_DUMP"))
    ++ Cmd("UNFREEZE")
switchtec_diag_ltssm_log_gen6 ==
  Cmd("FREEZE") ++ Cmd("LOG_STATUS") ++ Cmd("LOG_DUMP") ++ Until("left", {0}, Cmd("LOG_DUMP"))
    ++ Cmd("UNFREEZE")
switchtec_diag_ltssm_log ==
  IfElse("gen", {6}, switchtec_diag_ltssm_log_gen6,
         IfElse("gen", {5}, switchtec_diag_ltssm_log_gen5, switchtec_diag_ltssm_log_gen4))
switchtec_diag_ltssm_clear == Cmd("LOG_CLEAR")

switchtec_tlp_inject              == Cmd("inject")
switchtec_aer_event_gen           == Cmd("inject")
switchtec_inject_err_dllp         == Cmd("inject")
switchtec_inject_err_dllp_crc     == Cmd("inject")
switchtec_inject_err_tlp_lcrc     == Need("gen", {4, 5, 6}) ++ Cmd("inject")
switchtec_inject_err_tlp_seq_num  == Cmd("inject")
switchtec_inject_err_ack_nack     == Cmd("inject")
switchtec_inject_err_cto          == Cmd("inject")

\* The result of the state query is not looked at; then the number of entries,
\* then the entries.
switchtec_osa_capture_data ==
  Try(Cmd("osa")) ++ Cmd("OSA_COUNT") ++ Until("left", {0}, Cmd("OSA_READ"))
switchtec_osa_capture_control == Cmd("osa")
switchtec_osa_config_misc     == Cmd("osa")
switchtec_osa_config_pattern  == Cmd("osa")
switchtec_osa_config_type     == Cmd("osa")
switchtec_osa_dump_conf       == Cmd("osa")
switchtec_osa                 == Cmd("osa")

-----------------------------------------------------------------------------
(* cli/diag.c.                                                                 *)

\* The port must be one of those of the switch.
get_port == Cmd("port_status") ++ Input
diag_parse_common_cfg == get_port

\* The lanes of the port are looked up by its status (lib/switchtec.c).
switchtec_calc_lane_id   == Cmd("port_status") ++ Input
switchtec_calc_lane_mask == Cmd("port_status") ++ Input

\* A lane whose cross hair is disabled is done.  The lanes are got at once here.
crosshair_capture ==
  switchtec_diag_cross_hair_get
    ++ Until("status", {"none", "ready", "failed"}, switchtec_diag_cross_hair_get)
    ++ Need("status", {"none", "ready"})

\* A lane whose port cannot be looked up is left out.
crosshair_write_all_csv == Times(Lanes, Try(Cmd("port_status") ++ Input))

\* Without the curses screen, and without --crosshair, which needs no switch.
crosshair ==
  Input ++ UnlessOpt({"all"}, switchtec_calc_lane_id)
    ++ Try(switchtec_diag_cross_hair_disable) ++ switchtec_diag_cross_hair_enable
    ++ crosshair_capture ++ WhenOpt({"all"}, crosshair_write_all_csv)

\* No pixels, or more than there is room for, are an error.
eye_observe_dev ==
  switchtec_calc_lane_mask ++ Try(switchtec_diag_eye_cancel) ++ switchtec_diag_eye_set_mode
    ++ switchtec_diag_eye_start ++ Until("left", {0}, switchtec_diag_eye_fetch ++ Input)

\* EyeCapture models what Gen5 and Gen6 do.
eye == Input ++ When("gen", {3, 4}, eye_observe_dev)
             ++ When("gen", {5, 6}, switchtec_calc_lane_mask ++ Cmd("eye"))

\* No port given, or a Gen3 switch: nothing is done, and no error reported.
ltssm_log ==
  Try(Input) ++ Instead("res", {"err"}, Skip) ++ Instead("gen", {3}, Skip)
    ++ WhenOpt({"clear"}, switchtec_diag_ltssm_clear)
    ++ UnlessOpt({"clear"}, switchtec_diag_ltssm_log)

print_loopback_mode == switchtec_diag_loopback_get

\* loopback hands over pipe and ltssm in the other order than the function of
\* the library takes them.
LoopOptions == {"disable", "rx_to_tx", "tx_to_rx", "ltssm", "parallel", "external", "pipe"}
loopback ==
  WhenOpt({"external", "parallel"}, WhenOpt({"rx_to_tx", "tx_to_rx"}, Fails))
    ++ WhenOpt({"disable"}, WhenOpt(LoopOptions \ {"disable"}, Fails)) ++ get_port
    ++ WhenOpt(LoopOptions,
               When("gen", {5}, WhenOpt({"rx_to_tx", "tx_to_rx"}, Fails))
                 ++ switchtec_diag_loopback_set("parallel", "external", "pipe", "ltssm"))
    ++ print_loopback_mode

\* A lane whose monitor is disabled is no error.
print_pattern_mode ==
  switchtec_diag_pattern_gen_get ++ switchtec_diag_pattern_mon_get ++ Input
    ++ Times(Lanes - 1, Try(switchtec_diag_pattern_mon_get) ++ Need("res", {"ok", "mrpc"})
                          ++ When("res", {"mrpc"}, Input))

\* Errors to inject are counted after the patterns are set.
pattern ==
  Input ++ get_port
    ++ WhenOpt({"monitor"}, switchtec_diag_pattern_mon_set)
    ++ WhenOpt({"generate"}, switchtec_diag_pattern_gen_set)
    ++ Input ++ WhenOpt({"inject"}, switchtec_diag_pattern_inject)
    ++ UnlessOpt({"monitor", "generate", "inject"}, print_pattern_mode)

list_mrpc == switchtec_diag_perm_table

port_eq_txcoeff == diag_parse_common_cfg ++ Input ++ switchtec_diag_port_eq_tx_coeff
port_eq_txfslf  == diag_parse_common_cfg ++ Input ++ Times(Lanes, switchtec_diag_port_eq_tx_fslf)
port_eq_txtable == diag_parse_common_cfg ++ Input ++ switchtec_diag_port_eq_tx_table
rcvr_obj        == diag_parse_common_cfg ++ Times(Lanes, switchtec_diag_rcvr_obj)
rcvr_extended   == diag_parse_common_cfg ++ Times(Lanes, switchtec_diag_rcvr_ext)

refclk == Input ++ WhenOpt({"set"}, switchtec_diag_refclk_ctl) ++ switchtec_diag_refclk_status

tlp_inject    == Input ++ switchtec_tlp_inject
aer_event_gen == Input ++ switchtec_aer_event_gen

\* One kind of error at a time.
linkerr_inject ==
  Input ++ WhenOpt({"dllp"}, switchtec_inject_err_dllp)
        ++ WhenOpt({"dllp_crc"}, Input ++ switchtec_inject_err_dllp_crc)
        ++ WhenOpt({"tlp_lcrc"}, Input ++ switchtec_inject_err_tlp_lcrc)
        ++ WhenOpt({"tlp_seq"}, switchtec_inject_err_tlp_seq_num)
        ++ WhenOpt({"nack"}, Input ++ switchtec_inject_err_ack_nack)
        ++ WhenOpt({"cto"}, Need("gen", {5, 6}) ++ switchtec_inject_err_cto)

osa                 == Input ++ switchtec_osa
osa_config_type     == Input ++ switchtec_osa_config_type
osa_config_pat      == Input ++ switchtec_osa_config_pattern
osa_config_misc     == Input ++ switchtec_osa_config_misc
osa_capture_control == Input ++ switchtec_osa_capture_control
osa_dump_config     == Input ++ switchtec_osa_dump_conf
osa_dump_data       == Input ++ switchtec_osa_capture_data

-----------------------------------------------------------------------------
DiagMenu ==
  [crosshair |-> Entry(crosshair, {{}, {"all"}}), eye |-> Plain(eye),
   ltssm_log |-> Entry(ltssm_log, {{}, {"clear"}}),
   loopback |-> Entry(loopback, {{}} \cup {{o} : o \in LoopOptions}
                                  \cup {{"parallel", "external"}, {"parallel", "rx_to_tx"},
                                        {"disable", "pipe"}}),
   pattern |-> Entry(pattern, {{}, {"monitor"}, {"generate", "inject"}}),
   list_mrpc |-> Plain(list_mrpc), port_eq_txcoeff |-> Plain(port_eq_txcoeff),
   port_eq_txfslf |-> Plain(port_eq_txfslf), port_eq_txtable |-> Plain(port_eq_txtable),
   rcvr_obj |-> Plain(rcvr_obj), rcvr_extended |-> Plain(rcvr_extended),
   refclk |-> Entry(refclk, {{}, {"set"}}), tlp_inject |-> Plain(tlp_inject),
   aer_event_gen |-> Plain(aer_event_gen),
   linkerr_inject |-> Entry(linkerr_inject,
     {{"dllp"}, {"dllp_crc"}, {"tlp_lcrc"}, {"tlp_seq"}, {"nack"}, {"cto"}}),
   osa |-> Plain(osa), osa_config_type |-> Plain(osa_config_type),
   osa_config_pat |-> Plain(osa_config_pat), osa_config_misc |-> Plain(osa_config_misc),
   osa_capture_control |-> Plain(osa_capture_control),
   osa_dump_config |-> Plain(osa_dump_config), osa_dump_data |-> Plain(osa_dump_data)]

\* External: what the switch does with the commands that set its loopback modes.
Modes == {Parallel, External, Pipe, Ltssm, RxToTx, TxToRx}
DiagEffect(c, s) ==
  [s EXCEPT !.loop = (@ \cup {m.on : m \in {n \in Modes : n.on = c}})
                        \ {m.on : m \in {n \in Modes : n.off = c}}]
=============================================================================
