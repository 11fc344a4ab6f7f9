------------------------------- MODULE MCSetup -------------------------------
(* A core and an access switch, a hypervisor on the core and a virtual       *)
(* machine on the hypervisor.                                                *)
EXTENDS Setup

MCServers  == {"hv", "vm"}
MCRosters  == {{"hv"}, {"hv", "vm"}}
MCDevices  == {"core", "access"}
MCDeclared == [h \in MCServers \cup MCDevices |->
                 CASE h = "core" -> "none"
                   [] h = "vm"   -> "hv"
                   [] OTHER      -> "core"]

Line(mode, snmp, force, remove) ==
    [mode |-> mode, snmp |-> snmp, force |-> force, remove |-> remove]
MCArgs   == {Line("self-hosted", "auto", FALSE, FALSE),
             Line("cloud", "on", TRUE, FALSE),
             Line("self-hosted", "auto", FALSE, TRUE)}
MCUp     == {Line("self-hosted", "off", FALSE, FALSE)}
==============================================================================
