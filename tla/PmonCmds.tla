------------------------------ MODULE PmonCmds ------------------------------
(* The performance monitor: "switchtec bw", "latency" and "evcntr..."          *)
(* (cli/main.c) and lib/pmon.c.  The counters are the switch's: setting them up *)
(* and reading them are commands of their own.                                 *)
EXTENDS Script

Batches == 2                       \* of ports whose counters fit in an answer

-----------------------------------------------------------------------------
(* lib/pmon.c.                                                                 *)
switchtec_evcntr_setup == Input ++ Cmd("EVCNTR_SETUP")

\* Every error is reported as an invalid argument.
evcntr_get == Input ++ Cmd("EVCNTR_GET")
switchtec_evcntr_get_setup == evcntr_get
switchtec_evcntr_get       == evcntr_get
switchtec_evcntr_get_both  == switchtec_evcntr_get_setup ++ switchtec_evcntr_get
switchtec_evcntr_wait      == Cmd("evcntr_wait")

\* switchtec_status: every error is -1.
port_status == Try(Cmd("port_status")) ++ Need("res", {"ok"})
switchtec_bwcntr_set_many == Cmd("BW_SET")
switchtec_bwcntr_set_all  == port_status ++ switchtec_bwcntr_set_many
switchtec_bwcntr_many     == Times(Batches, Cmd("BW_GET"))
switchtec_bwcntr_all      == port_status ++ switchtec_bwcntr_many

\* What was measured before the setup is read, and cleared, at once.
switchtec_lat_setup_many == Cmd("LAT_SETUP")
switchtec_lat_get_many   == Cmd("LAT_GET")
switchtec_lat_get        == switchtec_lat_get_many
switchtec_lat_setup      == switchtec_lat_setup_many ++ switchtec_lat_get

-----------------------------------------------------------------------------
(* cli/main.c.                                                                 *)

\* An error of the switch (> 0) to the setup is not looked at.
bw ==
  Try(switchtec_bwcntr_set_all) ++ Need("res", {"ok", "mrpc"})
    ++ switchtec_bwcntr_all ++ switchtec_bwcntr_all

\* Mutant of latency: the result of the setup is not looked at.
latency_any_setup == Input ++ Try(switchtec_lat_setup) ++ switchtec_lat_get

latency == Input ++ switchtec_lat_setup ++ switchtec_lat_get

display_event_counters == switchtec_evcntr_get_both

\* Mutant of get_free_counter: one that counts already will do.
get_any_counter == switchtec_evcntr_get_setup
get_free_counter == switchtec_evcntr_get_setup ++ Need("counter", {0})

\* The counter is the user's (given) or one that is free.
evcntr_setup ==
  Input ++ UnlessOpt({"given"}, get_free_counter) ++ Input ++ switchtec_evcntr_setup

\* All the stacks, whatever their errors, or one.
evcntr ==
  UnlessOpt({"stack"}, Times(2, Try(display_event_counters)))
    ++ WhenOpt({"stack"}, display_event_counters)

evcntr_show == Input ++ switchtec_evcntr_get_setup

\* An error of the switch is not looked at.
evcntr_del == Input ++ Try(Input ++ Cmd("EVCNTR_CLEAR")) ++ Need("res", {"ok", "mrpc"})

evcntr_wait == switchtec_evcntr_wait ++ Input ++ Times(2, Try(display_event_counters))

-----------------------------------------------------------------------------
PmonMenu ==
  [bw |-> Plain(bw), latency |-> Plain(latency),
   evcntr_setup |-> Entry(evcntr_setup, {{}, {"given"}}), evcntr |-> Entry(evcntr, {{}, {"stack"}}),
   evcntr_show |-> Plain(evcntr_show), evcntr_del |-> Plain(evcntr_del),
   evcntr_wait |-> Plain(evcntr_wait)]

\* External: what the switch does with a command of the call id: whose the
\* counters are, 0 nobody's.
PmonEffect(c, id, s) ==
  CASE c = "EVCNTR_SETUP" -> [s EXCEPT !.counter = id]
    [] c = "EVCNTR_CLEAR" -> [s EXCEPT !.counter = 0]
    [] c = "BW_SET"       -> [s EXCEPT !.bw = id]
    [] c = "LAT_SETUP"    -> [s EXCEPT !.lat = id]
    [] OTHER -> s
=============================================================================
