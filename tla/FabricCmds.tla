----------------------------- MODULE FabricCmds -----------------------------
(* "switchtec fabric ..." (cli/fabric.c), the functions of lib/fabric.c it      *)
(* calls, and the NVMe pass-through of that library.  A dump is a session of     *)
(* the switch: it is started, its parts are got, it is finished.                 *)
EXTENDS Script

-----------------------------------------------------------------------------
(* lib/fabric.c.                                                               *)
topo_info_dump_start      == Cmd("TOPO_START")
topo_info_dump_status_get == Cmd("TOPO_STATUS")
topo_info_dump_data_get   == Cmd("TOPO_GET")
topo_info_dump_finish     == Cmd("TOPO_FINISH")

\* Mutant of topo_info_dump_gen4: a collection that failed is waited for.
topo_info_dump_until_ready ==
  topo_info_dump_start ++ topo_info_dump_status_get
    ++ Until("status", {"ready"}, topo_info_dump_status_get)
    ++ Input ++ Until("left", {0}, topo_info_dump_data_get) ++ topo_info_dump_finish

topo_info_dump_gen4 ==
  topo_info_dump_start ++ topo_info_dump_status_get
    ++ Until("status", {"none", "ready", "failed"}, topo_info_dump_status_get)
    ++ Need("status", {"ready"}) ++ Input
    ++ Until("left", {0}, topo_info_dump_data_get) ++ topo_info_dump_finish

\* Mutant of topo_info_dump_gen5: the dump is not finished.
topo_info_dump_unfinished ==
  topo_info_dump_start ++ topo_info_dump_status_get
    ++ Until("status", {"none", "ready", "failed"}, topo_info_dump_status_get)
    ++ Need("status", {"ready"}) ++ Input
    ++ Until("left", {0}, topo_info_dump_data_get)

\* The same with another reply.
topo_info_dump_gen5 ==
  topo_info_dump_start ++ topo_info_dump_status_get
    ++ Until("status", {"none", "ready", "failed"}, topo_info_dump_status_get)
    ++ Need("status", {"ready"}) ++ Input
    ++ Until("left", {0}, topo_info_dump_data_get) ++ topo_info_dump_finish

\* Only a switch that is a fabric switch (PAX) has a topology; none of Gen3 is.
switchtec_topo_info_dump ==
  Need("gen", {4, 5, 6}) ++ Input ++ IfElse("gen", {4}, topo_info_dump_gen4, topo_info_dump_gen5)

gfms_dump_start  == Cmd("GFMS_START")
gfms_dump_finish == Cmd("GFMS_FINISH")

\* Mutant of gfms_dump_get: one part is taken for the whole.
gfms_dump_get_one == Cmd("GFMS_GET")
gfms_dump_get == Cmd("GFMS_GET") ++ Until("left", {0}, Cmd("GFMS_GET"))

switchtec_fab_gfms_db_dump_fabric_general == Cmd("gfms")
switchtec_fab_gfms_db_dump_pax_general    == Cmd("gfms")
switchtec_fab_gfms_db_dump_fab_port       == Cmd("gfms")
switchtec_fab_gfms_db_dump_hvd        == gfms_dump_start ++ gfms_dump_get ++ gfms_dump_finish
switchtec_fab_gfms_db_dump_hvd_detail == gfms_dump_start ++ gfms_dump_get ++ gfms_dump_finish

\* What was got must be as long as was said.
switchtec_fab_gfms_db_dump_pax_all == gfms_dump_start ++ gfms_dump_get ++ gfms_dump_finish ++ Input

gfms_ep_port_start  == Cmd("GFMS_START")

\* Mutant of gfms_ep_port_get: a part is asked for after the last.
ep_port_get_once_more ==
  Cmd("GFMS_GET") ++ Until("left", {0}, Cmd("GFMS_GET")) ++ Cmd("GFMS_GET")
gfms_ep_port_get == Cmd("GFMS_GET") ++ Until("left", {0}, Cmd("GFMS_GET"))
gfms_ep_port_finish == Cmd("GFMS_FINISH")
switchtec_fab_gfms_db_dump_ep_port ==
  gfms_ep_port_start ++ gfms_ep_port_get ++ gfms_ep_port_finish ++ Input

\* As many times as there are events, or once where none is asked for (status).
switchtec_get_gfms_events ==
  Cmd("EVENTS_GET") ++ UnlessOpt({"status"}, Until("left", {0}, Cmd("EVENTS_GET")))
switchtec_clear_gfms_events == Cmd("EVENTS_CLEAR")

\* A longer command is sent in parts, a longer answer got in parts; every error
\* leaves the session as it is.
admin_passthru_start == WhenOpt({"data"}, Cmd("NVME_MORE")) ++ Cmd("NVME_START")
admin_passthru_data  == Until("left", {0}, Cmd("NVME_DATA"))
admin_passthru_end   == Cmd("NVME_END")
switchtec_nvme_admin_passthru == admin_passthru_start ++ admin_passthru_data ++ admin_passthru_end

switchtec_gfms_bind           == Cmd("fabric")
switchtec_gfms_unbind         == Cmd("fabric")
switchtec_port_control        == Cmd("fabric")
switchtec_fab_port_config_get == Cmd("fabric")
switchtec_fab_port_config_set == Cmd("fabric")
switchtec_device_manage       == Cmd("fabric")
switchtec_ep_tunnel_config    == Input ++ Cmd("tunnel")
switchtec_ep_tunnel_enable    == switchtec_ep_tunnel_config
switchtec_ep_tunnel_disable   == switchtec_ep_tunnel_config
switchtec_ep_tunnel_status    == switchtec_ep_tunnel_config
switchtec_ep_csr_read         == Cmd("resource")
switchtec_ep_csr_write        == Cmd("resource")
switchtec_ep_bar_read         == Cmd("resource")
switchtec_ep_bar_write        == Cmd("resource")

-----------------------------------------------------------------------------
(* cli/fabric.c.                                                               *)
topo_info    == switchtec_topo_info_dump
gfms_bind    == Input ++ switchtec_gfms_bind
gfms_unbind  == Input ++ switchtec_gfms_unbind
port_control == Input ++ switchtec_port_control
portcfg_set  == Input ++ switchtec_fab_port_config_set
portcfg_show == Input ++ switchtec_fab_port_config_get

\* The kind of dump is an option, all of the switch the default.
DumpTypes == {"fabric", "pax", "hvd", "fab_port", "ep_port", "hvd_detail"}
gfms_dump ==
  Case({"fabric"}, switchtec_fab_gfms_db_dump_fabric_general)
    ++ Case({"pax"}, switchtec_fab_gfms_db_dump_pax_general)
    ++ Case({"hvd"}, Input ++ switchtec_fab_gfms_db_dump_hvd)
    ++ Case({"fab_port"}, Input ++ switchtec_fab_gfms_db_dump_fab_port)
    ++ Case({"ep_port"}, Input ++ switchtec_fab_gfms_db_dump_ep_port)
    ++ Case({"hvd_detail"}, Input ++ switchtec_fab_gfms_db_dump_hvd_detail)
    ++ switchtec_fab_gfms_db_dump_pax_all

route == switchtec_topo_info_dump ++ switchtec_fab_gfms_db_dump_fabric_general

gfms_events ==
  WhenOpt({"clear"}, WhenOpt({"status"}, Fails) ++ switchtec_clear_gfms_events)
    ++ switchtec_get_gfms_events

device_manage == Input ++ switchtec_device_manage
ep_tunnel_cfg ==
  Input ++ WhenOpt({"enable"}, switchtec_ep_tunnel_enable)
        ++ WhenOpt({"disable"}, switchtec_ep_tunnel_disable)
        ++ UnlessOpt({"enable", "disable"}, switchtec_ep_tunnel_status)

\* Counts of two; a read that fails is the last.
ep_csr_read  == Input ++ Times(2, switchtec_ep_csr_read)
ep_bar_read  == Input ++ Times(2, switchtec_ep_bar_read)
ep_csr_write == Input ++ Confirm ++ switchtec_ep_csr_write
ep_bar_write == Input ++ Confirm ++ switchtec_ep_bar_write

-----------------------------------------------------------------------------
FabricMenu ==
  [topo_info |-> Plain(topo_info), gfms_bind |-> Plain(gfms_bind),
   gfms_unbind |-> Plain(gfms_unbind), port_control |-> Plain(port_control),
   portcfg_set |-> Plain(portcfg_set), portcfg_show |-> Plain(portcfg_show),
   gfms_dump |-> Entry(gfms_dump, {{}} \cup {{t} : t \in DumpTypes}), route |-> Plain(route),
   gfms_events |-> Entry(gfms_events, SUBSET {"clear", "status"}),
   device_manage |-> Plain(device_manage),
   ep_tunnel_cfg |-> Entry(ep_tunnel_cfg, {{}, {"enable"}, {"disable"}}),
   ep_csr_read |-> Plain(ep_csr_read), ep_csr_write |-> Plain(ep_csr_write),
   ep_bar_read |-> Plain(ep_bar_read), ep_bar_write |-> Plain(ep_bar_write),
   nvme_admin_passthru |-> Entry(switchtec_nvme_admin_passthru, {{}, {"data"}})]
=============================================================================
