--------------------------------- MODULE Setup ---------------------------------
(***************************************************************************)
(* deploy/cmk_setup.py: setup() and teardown(), one REST call after the     *)
(* other against the configuration of a monitoring site, any of which may   *)
(* fail, be lost after the site applied it, or meet what an earlier run     *)
(* left behind; and the fingerprint that lets a later run skip everything.  *)
(*                                                                          *)
(* The site and the two panels are external: cfg is the site's              *)
(* configuration with its pending changes, live what was activated last.    *)
(* Healing before discovery, subfolders, rule values and BI bodies are left *)
(* out.  The estate has a folder of its own (not "~").                      *)
(***************************************************************************)
EXTENDS Naturals, FiniteSets

CONSTANTS
    Shell,       \* the delivery shell's host
    Servers,     \* hosts the delivery panel may carry
    Rosters,     \* ... the sets of them that ESTATE_HOSTS may select
    Devices,     \* SNMP devices the netsim panel lists
    Core, Access,  \* the devices named sw-core..., sw-access...
    Declared,    \* host -> the parent its panel declares, or None
    None,
    Args,        \* command lines: mode, snmp, force, remove
    BulkSize,    \* from so many hosts on, discovery is one bulk job
    MaxRuns, MaxFailures,     \* bounds: runs, failing calls
    MaxRosters, MaxFlaps      \* bounds: roster changes, netsim stops and starts

AllHosts == {Shell} \cup Servers \cup Devices
Agents   == {"absent", "program", "piggyback", "tcp", "tcp_no_ip", "snmp"}
Rules    == {"snmp_ports", "residual_current", "agent_ports", "datasource",
             "bi_pack", "bi_service"}

ASSUME HostAssumption ==
    /\ Servers \cap Devices = {} /\ Shell \notin Servers \cup Devices
    /\ None \notin AllHosts
    /\ Core \in Devices /\ Access \in Devices
    /\ Declared \in [Servers \cup Devices -> AllHosts \cup {None}]
\* Every device but the core names a device upstream; a server names a device
\* or a server that is not itself on a server.
ASSUME TreeAssumption ==
    /\ Declared[Core] = None
    /\ \A d \in Devices \ {Core} : Declared[d] \in Devices \ {d}
    /\ \A h \in Servers : Declared[h] \in Servers =>
         Declared[Declared[h]] \notin Servers
ASSUME ArgAssumption ==
    /\ Rosters \subseteq SUBSET Servers
    /\ Args # {}
    /\ Args \subseteq [mode : {"self-hosted", "cloud"},
                       snmp : {"on", "auto", "off"},
                       force : BOOLEAN, remove : BOOLEAN]
ASSUME BoundAssumption ==
    /\ BulkSize \in Nat /\ MaxRuns \in Nat /\ MaxFailures \in Nat
    /\ MaxRosters \in Nat /\ MaxFlaps \in Nat

HostConfigs == [parent : AllHosts \cup {None}, agent : Agents]
Absent      == [parent |-> None, agent |-> "absent"]

\* What _estate_fingerprint digests, as far as it can differ here.
Plans  == [mode : {"self-hosted", "cloud"}, hosts : SUBSET Servers,
           devices : SUBSET Devices]
NoPlan == [mode |-> "none", hosts |-> {}, devices |-> {}]

Configs == [folder : BOOLEAN, host : [AllHosts -> HostConfigs],
            rules : SUBSET Rules, monitored : SUBSET AllHosts,
            stamp : Plans \cup {NoPlan}]
Bare == [folder |-> FALSE, host |-> [h \in AllHosts |-> Absent], rules |-> {},
         monitored |-> {}, stamp |-> NoPlan]

VARIABLES
    carried,        \* the delivery panel's roster
    answers,        \* whether the netsim panel answers
    cfg, live,      \* the site: with pending changes, as activated
    pc, arg,        \* the run: where it is, its command line
    roster,         \* ... the roster it read, the names it removes
    planned, made,  \* ... devices in the fingerprint, devices of setup_snmp
    todo,           \* ... hosts the current loop has still to treat
    outcome,        \* how the last run ended
    rejected,       \* history: the site refused a host for its parent
    disturbed,      \* history, since the fingerprint was written: see InSync
    missed,         \* history: what the bulk discovery of that run passed over
    activated,      \* history: the last activation is known to be through
    runs, failures, rosters, flaps

panels == <<carried, answers, rosters, flaps>>
run    == <<arg, roster, planned, made, runs>>
slips  == <<missed, activated>>
vars   == <<panels, cfg, live, pc, run, todo, outcome, rejected, disturbed,
            slips, failures>>

Labels == {"idle", "folder", "netsim", "device", "snmp_ports", "residual",
           "shell", "agent_ports", "server", "list", "prune", "datasource",
           "bi_pack", "bi_service", "scan", "bulk", "discover", "activate",
           "rescan", "stamp", "activate2", "unrule", "unrule_listed",
           "delete", "delete_listed", "unport", "unfolder", "deactivate"}

TypeOK ==
    /\ carried \in Rosters /\ answers \in BOOLEAN
    /\ cfg \in Configs /\ live \in Configs
    /\ pc \in Labels /\ arg \in Args
    /\ roster \in SUBSET AllHosts /\ todo \in SUBSET AllHosts
    /\ planned \in SUBSET Devices /\ made \in SUBSET Devices
    /\ outcome \in {"none", "running", "in sync", "done", "late", "removed",
                    "died"}
    /\ rejected \in BOOLEAN /\ disturbed \in BOOLEAN
    /\ missed \in SUBSET AllHosts /\ activated \in BOOLEAN
    /\ runs \in 0..MaxRuns /\ failures \in 0..MaxFailures
    /\ rosters \in 0..MaxRosters /\ flaps \in 0..MaxFlaps

\* A site without the estate.
Init ==
    /\ carried \in Rosters /\ answers \in BOOLEAN
    /\ cfg = Bare /\ live = Bare
    /\ pc = "idle" /\ arg = CHOOSE a \in Args : TRUE
    /\ roster = {} /\ todo = {} /\ planned = {} /\ made = {}
    /\ outcome = "none" /\ rejected = FALSE /\ disturbed = FALSE
    /\ missed = {} /\ activated = TRUE
    /\ runs = 0 /\ failures = 0 /\ rosters = 0 /\ flaps = 0

-----------------------------------------------------------------------------
(* The site *)

Exists(c, h) == c.host[h].agent # "absent"
Children(c, h) == {g \in AllHosts : Exists(c, g) /\ c.host[g].parent = h}

\* A host that is somebody's parent is not deleted.
Without(c, h) ==
    IF Children(c, h) # {} THEN c
    ELSE [c EXCEPT !.host[h] = Absent, !.monitored = @ \ {h},
                   !.stamp = IF h = Shell THEN NoPlan ELSE @]

-----------------------------------------------------------------------------
(* One REST call: it succeeds, or it fails and the run dies with it, whether *)
(* or not the site applied it.                                               *)

Dies ==
    /\ pc' = "idle" /\ todo' = {} /\ outcome' = "died" /\ disturbed' = TRUE

CallFails(new) ==
    /\ failures < MaxFailures /\ failures' = failures + 1
    /\ cfg' \in {cfg, new}
    /\ Dies

Call(new, next, rest) ==
    /\ \/ /\ cfg' = new /\ pc' = next /\ todo' = rest
          /\ UNCHANGED <<outcome, disturbed, failures>>
       \/ CallFails(new)
    /\ UNCHANGED <<panels, live, run, rejected, slips>>

\* An error status that the caller does not look at.
Tolerated(new, next, rest) ==
    /\ failures < MaxFailures /\ failures' = failures + 1
    /\ cfg' = new /\ pc' = next /\ todo' = rest
    /\ UNCHANGED <<panels, live, run, outcome, rejected, activated>>
Ignored(new, next, rest) ==
    Tolerated(new, next, rest) /\ UNCHANGED <<disturbed, missed>>

-----------------------------------------------------------------------------
(* ensure_host() *)

\* Attributes that the call names replace the stored ones; others stay.  A
\* shell that was no-ip keeps that tag when it gets an address.
Switched(old, new) ==
    IF old \in {"program", "tcp_no_ip"} /\ new = "tcp" THEN "tcp_no_ip" ELSE new
Reconciled(old, want) ==
    [parent |-> IF want.parent = None THEN old.parent ELSE want.parent,
     agent  |-> Switched(old.agent, want.agent)]
\* Mutant: a host that exists is left as it is.
LeftAlone(h, want) ==
    [cfg EXCEPT !.host[h] = IF Exists(cfg, h) THEN @ ELSE want]
Ensured(h, want) ==
    [cfg EXCEPT !.host[h] = Reconciled(@, want)]

EnsureHost(h, want, next, rest) ==
    IF want.parent # None /\ ~Exists(cfg, want.parent)
    THEN /\ rejected' = TRUE /\ Dies
         /\ UNCHANGED <<panels, cfg, live, run, slips, failures>>
    ELSE Call(Ensured(h, want), next, rest)

-----------------------------------------------------------------------------
(* setup() *)

\* What the fingerprint digests.  Mutant: without the devices.
PlanOfHosts(mode, hosts, devices) ==
    [mode |-> mode, hosts |-> hosts, devices |-> {}]
PlanOf(mode, hosts, devices) ==
    [mode |-> mode, hosts |-> hosts, devices |-> devices]

\* The panels are read and the fingerprint is compared: the netsim panel is
\* missing, or everything is in sync, or a full run begins.
Begin(a) ==
    LET plan  == IF a.snmp # "off" /\ answers THEN Devices ELSE {}
        stamp == PlanOf(a.mode, carried, plan)
        ends(label, how) == pc' = label /\ outcome' = how
    IN  /\ pc = "idle" /\ runs < MaxRuns /\ ~a.remove
        /\ runs' = runs + 1
        /\ arg' = a /\ roster' = carried /\ planned' = plan /\ made' = {}
        /\ \/ /\ a.snmp = "on" /\ ~answers
              /\ ends("idle", "died") /\ UNCHANGED missed
           \/ /\ a.snmp = "on" => answers
              /\ ~a.force /\ cfg.stamp = stamp
              /\ ends("idle", "in sync") /\ UNCHANGED missed
           \/ /\ a.snmp = "on" => answers
              /\ a.force \/ cfg.stamp # stamp
              /\ ends("folder", "running") /\ missed' = {}
        /\ UNCHANGED <<panels, cfg, live, todo, rejected, disturbed, activated,
                       failures>>

EnsureFolder ==
    /\ pc = "folder"
    /\ Call([cfg EXCEPT !.folder = TRUE],
            IF arg.snmp = "off" THEN "shell" ELSE "netsim", {})

\* setup_snmp() reads the panel again.
ReadNetsim ==
    /\ pc = "netsim"
    /\ \/ /\ answers
          /\ made' = Devices /\ todo' = Devices /\ pc' = "device"
          /\ UNCHANGED <<outcome, disturbed>>
       \/ ~answers /\ arg.snmp = "on" /\ Dies /\ UNCHANGED made
       \/ /\ ~answers /\ arg.snmp = "auto" /\ pc' = "residual"
          /\ UNCHANGED <<made, todo, outcome, disturbed>>
    /\ UNCHANGED <<panels, cfg, live, arg, roster, planned, runs, rejected,
                   slips, failures>>

DeviceConfig(d) ==
    [parent |-> IF d = Core THEN None ELSE Declared[d], agent |-> "snmp"]

\* _topo_order(): a device comes after its parent.  Mutant: in any order.
NextAny(d)    == d \in todo
NextDevice(d) == d \in todo /\ DeviceConfig(d).parent \notin todo

EnsureDevice(d) ==
    /\ pc = "device" /\ NextDevice(d)
    /\ EnsureHost(d, DeviceConfig(d),
                  IF todo = {d} THEN "snmp_ports" ELSE "device", todo \ {d})

Ensure(rule, next) == Call([cfg EXCEPT !.rules = @ \cup {rule}], next, {})

EnsureSnmpPorts == pc = "snmp_ports" /\ Ensure("snmp_ports", "residual")
EnsureResidual  == pc = "residual" /\ Ensure("residual_current", "shell")

\* The shell hangs off the access switch, which every set of devices has.
ShellConfig(mode, devices) ==
    [parent |-> IF Access \in devices THEN Access ELSE None,
     agent  |-> IF mode = "self-hosted" THEN "program" ELSE "tcp"]

EnsureShell ==
    /\ pc = "shell"
    /\ EnsureHost(Shell, ShellConfig(arg.mode, made),
                  IF arg.mode = "cloud" THEN "agent_ports"
                  ELSE IF roster = {} THEN "list" ELSE "server", roster)

EnsureAgentPorts ==
    /\ pc = "agent_ports"
    /\ Call([cfg EXCEPT !.rules = @ \cup {"agent_ports"}],
            IF roster = {} THEN "list" ELSE "server", roster)

\* Hosts whose parent is carried come last, else the roster's order.
NextServer(h) ==
    /\ h \in todo
    /\ Declared[h] \in roster => \A g \in todo : Declared[g] \in roster

ServerConfig(h, mode, hosts, devices) ==
    [parent |-> IF Declared[h] \in hosts \cup devices THEN Declared[h] ELSE None,
     agent  |-> IF mode = "self-hosted" THEN "program" ELSE "piggyback"]

EnsureServer(h) ==
    /\ pc = "server" /\ NextServer(h)
    /\ EnsureHost(h, ServerConfig(h, arg.mode, roster, made),
                  IF todo = {h} THEN "list" ELSE "server", todo \ {h})

\* prune_subtree(): what is under the folder and not in the roster; an error
\* status prunes nothing.
Pruned == IF arg.mode = "self-hosted" THEN "datasource" ELSE "bi_pack"

ListStale ==
    LET keep  == {Shell} \cup roster \cup made
        stale == {h \in AllHosts \ keep : Exists(cfg, h)}
        next  == IF stale = {} THEN Pruned ELSE "prune"
    IN  /\ pc = "list"
        /\ Call(cfg, next, stale) \/ Ignored(cfg, Pruned, {})

\* Mutant: a host that the site keeps is tried again.
PruneRetries(h) ==
    LET left == IF Children(cfg, h) = {} THEN todo \ {h} ELSE todo
    IN  Call(Without(cfg, h), IF left = {} THEN Pruned ELSE "prune", left)
PruneHost(h) ==
    LET left == todo \ {h}
        next == IF left = {} THEN Pruned ELSE "prune"
    IN  Call(Without(cfg, h), next, left) \/ Ignored(cfg, next, left)

Prune(h) == pc = "prune" /\ h \in todo /\ PruneHost(h)

EnsureDatasource == pc = "datasource" /\ Ensure("datasource", "bi_pack")
EnsureBiPack     == pc = "bi_pack" /\ Ensure("bi_pack", "bi_service")
EnsureBiService  == pc = "bi_service" /\ Ensure("bi_service", "scan")

\* discover() of the shell, then the choice of the hosts that need it.
ScanShell ==
    /\ pc = "scan"
    /\ LET new  == [cfg EXCEPT !.monitored = @ \cup {Shell}]
           rest == {h \in roster \cup made : arg.force \/ h \notin cfg.monitored}
           next == IF rest = {} THEN "activate"
                   ELSE IF Cardinality(rest) >= BulkSize THEN "bulk"
                   ELSE "discover"
       IN  Call(new, next, rest)

Discover(h) ==
    /\ pc = "discover" /\ h \in todo
    /\ Call([cfg EXCEPT !.monitored = @ \cup {h}],
            IF todo = {h} THEN "activate" ELSE "discover", todo \ {h})

\* bulk_discover() with ignore_errors: hosts that fail are passed over.
BulkDiscover ==
    /\ pc = "bulk"
    /\ \/ Call([cfg EXCEPT !.monitored = @ \cup todo], "activate", {})
       \/ \E some \in SUBSET todo :
            /\ Tolerated([cfg EXCEPT !.monitored = @ \cup some], "activate", {})
            /\ missed' = missed \cup (todo \ some) /\ UNCHANGED disturbed

\* activate(): done; or not finished when the deadline has passed, which the
\* script takes for success; or refused, or its answer is lost.
Activation(next, ended, late) ==
    /\ \/ /\ live' = cfg /\ pc' = next /\ outcome' = ended /\ activated' = TRUE
          /\ UNCHANGED <<todo, disturbed, failures>>
       \/ /\ failures < MaxFailures /\ failures' = failures + 1
          /\ pc' = next /\ outcome' = late /\ activated' = FALSE
          /\ UNCHANGED <<live, todo, disturbed>>
       \/ /\ failures < MaxFailures /\ failures' = failures + 1
          /\ live' \in {live, cfg} /\ activated' = FALSE
          /\ pc' = "idle" /\ todo' = {} /\ outcome' = "died"
          /\ disturbed' = (disturbed \/ next # "idle")
    /\ UNCHANGED <<panels, cfg, run, rejected, missed>>

Activate == pc = "activate" /\ Activation("rescan", "running", "running")

Rescan == pc = "rescan" /\ Call(cfg, "stamp", {})

\* _write_fingerprint(): pending until the last activation.
WriteFingerprint ==
    LET new == [cfg EXCEPT !.stamp = PlanOf(arg.mode, roster, planned)]
    IN  /\ pc = "stamp"
        /\ \/ /\ cfg' = new /\ pc' = "activate2" /\ todo' = {}
              /\ disturbed' = (planned # made)
              /\ UNCHANGED <<outcome, failures>>
           \/ CallFails(new)
        /\ UNCHANGED <<panels, live, run, rejected, slips>>

Finish == pc = "activate2" /\ Activation("idle", "done", "late")

-----------------------------------------------------------------------------
(* teardown() *)

\* The names come from the panels; without the delivery panel, from the folder,
\* where a listing that fails names nothing.
BeginRemoval(a) ==
    /\ pc = "idle" /\ runs < MaxRuns /\ a.remove
    /\ runs' = runs + 1
    /\ \/ /\ pc' = "unrule" /\ UNCHANGED failures
          /\ todo' = {Shell} \cup carried \cup {d \in Devices : answers}
       \/ /\ pc' = "unrule_listed" /\ UNCHANGED failures
          /\ todo' = {h \in AllHosts : Exists(cfg, h)}
       \/ /\ pc' = "unrule_listed" /\ todo' = {}
          /\ failures < MaxFailures /\ failures' = failures + 1
    /\ arg' = a /\ roster' = todo' /\ planned' = {} /\ made' = {}
    /\ outcome' = "running"
    /\ UNCHANGED <<panels, cfg, live, rejected, disturbed, slips>>

\* delete_bi_objects() and the rules that name the shell or lie in the folder; a
\* rule whose deletion is answered with an error stays.
FolderRules == {"snmp_ports", "residual_current", "datasource"}
DeleteRules ==
    LET next == IF todo = {} THEN "unport"
                ELSE IF pc = "unrule" THEN "delete" ELSE "delete_listed"
        gone == {"bi_pack"} \cup FolderRules
                \cup {r \in {"bi_service"} : Shell \in roster}
        Unruled(kept) == [cfg EXCEPT !.rules = @ \ (gone \ kept)]
    IN  /\ pc \in {"unrule", "unrule_listed"}
        /\ \/ Call(Unruled({}), next, todo)
           \/ \E rule \in gone : Ignored(Unruled({rule}), next, todo)

\* The carried hosts in reverse, the devices in reverse topological order, the
\* shell.
NextDeleted(h) ==
    /\ h \in todo
    /\ h \in Devices => \A g \in todo \cap Devices : DeviceConfig(g).parent # h
    /\ h \in Devices \cup {Shell} => todo \cap Servers = {}
    /\ h = Shell => todo = {Shell}

\* An error status is passed over.
DeleteHost(h) ==
    /\ \/ pc = "delete" /\ NextDeleted(h)
       \/ pc = "delete_listed" /\ h \in todo
    /\ LET left == todo \ {h}
           next == IF left = {} THEN "unport" ELSE pc
       IN  Call(Without(cfg, h), next, left) \/ Ignored(cfg, next, left)

DeletePortRule ==
    /\ pc = "unport"
    /\ \/ Call([cfg EXCEPT !.rules =
                 @ \ {r \in {"agent_ports"} : Shell \in roster}], "unfolder", {})
       \/ Ignored(cfg, "unfolder", {})

\* The folder with the hosts and rules in it.  Mutant: only an empty folder.
WithoutEmptyFolder ==
    IF \E h \in AllHosts : Exists(cfg, h) THEN cfg
    ELSE [Bare EXCEPT !.rules = cfg.rules \ FolderRules]
WithoutFolder == [Bare EXCEPT !.rules = cfg.rules \ FolderRules]
DeleteFolder ==
    /\ pc = "unfolder"
    /\ \/ Call(WithoutFolder, "deactivate", {})
       \/ /\ Tolerated(cfg, "deactivate", {})
          /\ disturbed' = TRUE /\ UNCHANGED missed

FinishRemoval == pc = "deactivate" /\ Activation("idle", "removed", "late")

-----------------------------------------------------------------------------
(* The panels *)

\* Taken between runs only: a run reads the roster once, when it begins.
RosterChange ==
    /\ pc = "idle" /\ rosters < MaxRosters /\ rosters' = rosters + 1
    /\ carried' \in Rosters \ {carried}
    /\ UNCHANGED <<answers, flaps, cfg, live, pc, run, todo, outcome, rejected,
                   disturbed, slips, failures>>

NetsimFlap ==
    /\ flaps < MaxFlaps /\ flaps' = flaps + 1
    /\ answers' = ~answers
    /\ UNCHANGED <<carried, rosters, cfg, live, pc, run, todo, outcome,
                   rejected, disturbed, slips, failures>>

-----------------------------------------------------------------------------
SetupStep ==
    \/ EnsureFolder \/ ReadNetsim
    \/ \E d \in Devices : EnsureDevice(d)
    \/ EnsureSnmpPorts \/ EnsureResidual \/ EnsureShell \/ EnsureAgentPorts
    \/ \E h \in Servers : EnsureServer(h)
    \/ ListStale
    \/ \E h \in AllHosts : Prune(h)
    \/ EnsureDatasource \/ EnsureBiPack \/ EnsureBiService
    \/ ScanShell \/ BulkDiscover
    \/ \E h \in AllHosts : Discover(h)
    \/ Activate \/ Rescan \/ WriteFingerprint \/ Finish
RemovalStep ==
    \/ DeleteRules \/ DeletePortRule \/ DeleteFolder \/ FinishRemoval
    \/ \E h \in AllHosts : DeleteHost(h)

Next ==
    \/ \E a \in Args : Begin(a) \/ BeginRemoval(a)
    \/ SetupStep \/ RemovalStep
    \/ RosterChange \/ NetsimFlap

\* Every call has a timeout; nobody has to run the script.
Fairness == WF_vars(SetupStep \/ RemovalStep)

Spec     == Init /\ [][Next]_vars
FairSpec == Spec /\ Fairness

-----------------------------------------------------------------------------
(* What must hold *)

\* The estate of a plan is in configuration c: ensure_host() would find every
\* host of the plan there and nothing to update.
Covers(c, mode, hosts, devices) ==
    LET Fits(h, want) == c.host[h] = Reconciled(c.host[h], want)
    IN  /\ \A d \in devices : Fits(d, DeviceConfig(d))
        /\ Fits(Shell, ShellConfig(mode, devices))
        /\ \A h \in hosts : Fits(h, ServerConfig(h, mode, hosts, devices))

\* The site never refuses a host because its parent is missing, whatever
\* earlier runs left or deleted.  (_topo_order, SNMP before shell before
\* servers, servers on servers last.)
ParentsFirst == ~rejected

\* A run that got to its end has put its estate into the site and activated it,
\* whatever the runs before it left undone.  (ensure_host, the ensure_*_rule
\* functions: "Idempotent".)
RerunRepairs ==
    outcome = "done" => /\ Covers(live, arg.mode, roster, made)
                        /\ made # {} => "snmp_ports" \in live.rules

\* A run that finds its fingerprint finds its estate configured, also after
\* runs that died, other rosters, other command lines and removals; discovered,
\* but for the hosts that the bulk discovery of the run that wrote the
\* fingerprint passed over; and active, unless the last activation overran its
\* deadline, was refused or lost its answer.  Three causes are excused, as
\* disturbed: after the fingerprint was written a run died before its last
\* activation (what it had done by then is not undone and the fingerprint stays);
\* a removal passed over an error from deleting the folder; or netsim answered
\* the run that wrote it only one of the two times.  No other failure is.
\* (_estate_fingerprint, _write_fingerprint after everything else.)
InSync ==
    (outcome = "in sync" /\ ~disturbed) =>
        /\ Covers(cfg, arg.mode, roster, planned)
        /\ roster \cup planned \subseteq cfg.monitored \cup missed
        /\ activated => live = cfg

\* When no call failed, a removal that got to its end leaves nothing, whatever
\* modes and rosters the runs before it had, and whether or not the panels
\* answered.  (teardown)
RemovalComplete ==
    (outcome = "removed" /\ failures = 0) => live = Bare

\* Every run comes to an end.  (Loops over lists read once, polls with a
\* deadline.)
RunEnds == pc # "idle" ~> pc = "idle"

-----------------------------------------------------------------------------
(* What the documentation says, and the code does not keep *)

\* cmk_setup.py:1219-1220 "Two runs share a fingerprint iff they would produce
\* byte-for-byte the same configuration — so a match means discovery has nothing
\* new to find."
MatchMeansConfigured ==
    outcome = "in sync" => roster \cup planned \subseteq cfg.monitored
==============================================================================
