------------------------------ MODULE SetupProofs ------------------------------
(***************************************************************************)
(* Theorems about the setup script for any estate, roster and sequence of   *)
(* runs that fail, are repeated or removed: types; the order in which hosts *)
(* are created; and what a run that got to its end has made of the site.    *)
(* The last is SiteInv: for each place in the script, what lies behind it   *)
(* is in the site's configuration.                                          *)
(***************************************************************************)
EXTENDS Setup, TLAPS

USE DEF panels, run, slips

-----------------------------------------------------------------------------
(* Types *)

\* The values that the script sends to the site are configurations.
LEMMA ConfigParts ==
    ASSUME NEW c \in Configs
    PROVE  /\ c.folder \in BOOLEAN /\ c.host \in [AllHosts -> HostConfigs]
           /\ c.rules \in SUBSET Rules /\ c.monitored \in SUBSET AllHosts
           /\ c.stamp \in Plans \cup {NoPlan}
           /\ \A h \in AllHosts : /\ c.host[h].parent \in AllHosts \cup {None}
                                  /\ c.host[h].agent \in Agents
BY DEF Configs, HostConfigs

\* The site without the estate is one.
LEMMA BareType == Bare \in Configs
BY DEF Bare, Configs, Absent, HostConfigs, Agents

\* A site that refuses or deletes a host keeps its type.
LEMMA WithoutType ==
    ASSUME NEW c \in Configs, NEW h \in AllHosts
    PROVE  Without(c, h) \in Configs
<1>1. Absent \in HostConfigs
  BY DEF Absent, HostConfigs, Agents
<1> QED BY <1>1 DEF Without, Configs

\* A failing call is one of the bounded number of failures.
LEMMA FailureCount ==
    ASSUME TypeOK, \/ UNCHANGED failures
                   \/ failures < MaxFailures /\ failures' = failures + 1
    PROVE  failures' \in 0..MaxFailures
<1>1. failures \in 0..MaxFailures /\ MaxFailures \in Nat
  BY BoundAssumption DEF TypeOK
<1> QED BY <1>1

\* A call that sends a configuration keeps the types.
LEMMA CallType ==
    ASSUME TypeOK, NEW new \in Configs, NEW next \in Labels,
           NEW rest \in SUBSET AllHosts, Call(new, next, rest)
    PROVE  TypeOK'
<1>1. failures' \in 0..MaxFailures
  BY FailureCount DEF Call, CallFails
<1>2. pc' \in Labels /\ todo' \in SUBSET AllHosts
  BY DEF Call, CallFails, Dies, Labels
<1>3. cfg' \in Configs
  BY DEF TypeOK, Call, CallFails
<1>4. outcome' \in {"none", "running", "in sync", "done", "late", "removed",
                    "died"} /\ disturbed' \in BOOLEAN
  BY DEF TypeOK, Call, CallFails, Dies
<1> QED BY <1>1, <1>2, <1>3, <1>4 DEF TypeOK, Call

\* So does an error status that is passed over, whatever it is noted as.
LEMMA ToleratedType ==
    ASSUME TypeOK, NEW new \in Configs, NEW next \in Labels,
           NEW rest \in SUBSET AllHosts, Tolerated(new, next, rest),
           disturbed' \in BOOLEAN, missed' \in SUBSET AllHosts
    PROVE  TypeOK'
<1>1. failures' \in 0..MaxFailures
  BY FailureCount DEF Tolerated
<1> QED BY <1>1 DEF TypeOK, Tolerated

LEMMA IgnoredType ==
    ASSUME TypeOK, NEW new \in Configs, NEW next \in Labels,
           NEW rest \in SUBSET AllHosts, Ignored(new, next, rest)
    PROVE  TypeOK'
<1>1. disturbed' \in BOOLEAN /\ missed' \in SUBSET AllHosts
  BY DEF TypeOK, Ignored
<1> QED BY <1>1, ToleratedType DEF Ignored

\* An activation copies a configuration.
LEMMA ActivationType ==
    ASSUME TypeOK, NEW next \in Labels,
           NEW ended \in {"running", "done", "removed"},
           NEW late \in {"running", "late"}, Activation(next, ended, late)
    PROVE  TypeOK'
<1>1. failures' \in 0..MaxFailures
  BY FailureCount DEF Activation
<1>2. pc' \in Labels /\ todo' \in SUBSET AllHosts
  BY DEF TypeOK, Activation, Labels
<1>3. live' \in Configs
  BY DEF TypeOK, Activation
<1>4. outcome' \in {"none", "running", "in sync", "done", "late", "removed",
                    "died"} /\ disturbed' \in BOOLEAN /\ activated' \in BOOLEAN
  BY DEF TypeOK, Activation
<1> QED BY <1>1, <1>2, <1>3, <1>4 DEF TypeOK, Activation

\* Reconciling and creating hosts gives host configurations.
LEMMA ReconciledType ==
    ASSUME NEW old \in HostConfigs, NEW want \in HostConfigs
    PROVE  Reconciled(old, want) \in HostConfigs
BY DEF Reconciled, Switched, HostConfigs, Agents

\* ensure_host(), refused or not, and the rules.
LEMMA EnsureHostType ==
    ASSUME TypeOK, NEW h \in AllHosts, NEW want \in HostConfigs,
           NEW next \in Labels, NEW rest \in SUBSET AllHosts,
           EnsureHost(h, want, next, rest)
    PROVE  TypeOK'
<1>1. CASE /\ rejected' = TRUE /\ Dies
           /\ UNCHANGED <<panels, cfg, live, run, slips, failures>>
  BY <1>1 DEF TypeOK, Dies, Labels
<1>2. CASE Call(Ensured(h, want), next, rest)
  <2>1. Reconciled(cfg.host[h], want) \in HostConfigs
    BY ReconciledType DEF TypeOK, Configs
  <2>2. Ensured(h, want) \in Configs
    BY <2>1 DEF TypeOK, Configs, Ensured
  <2> QED BY <1>2, <2>2, CallType
<1> QED BY <1>1, <1>2 DEF EnsureHost

\* A rule is added to the rules.
LEMMA EnsureType ==
    ASSUME TypeOK, NEW rule \in Rules, NEW next \in Labels, Ensure(rule, next)
    PROVE  TypeOK'
<1>1. [cfg EXCEPT !.rules = @ \cup {rule}] \in Configs
  BY DEF TypeOK, Configs
<1> QED BY <1>1, CallType DEF Ensure

\* What the script wants of a host is a host configuration.
LEMMA WantedTypes ==
    /\ \A d \in Devices : DeviceConfig(d) \in HostConfigs
    /\ \A mode, devices : ShellConfig(mode, devices) \in HostConfigs
    /\ \A h \in Servers : \A mode, hosts, devices :
         ServerConfig(h, mode, hosts, devices) \in HostConfigs
<1>1. \A h \in Servers \cup Devices : Declared[h] \in AllHosts \cup {None}
  BY HostAssumption
<1>2. Access \in AllHosts
  BY HostAssumption DEF AllHosts
<1> QED BY <1>1, <1>2 DEF DeviceConfig, ShellConfig, ServerConfig, HostConfigs,
                         Agents

\* Every fingerprint that a run computes is a plan.
LEMMA PlanType ==
    ASSUME TypeOK, NEW hosts \in SUBSET Servers
    PROVE  PlanOf(arg.mode, hosts, planned) \in Plans
<1>1. arg.mode \in {"self-hosted", "cloud"}
  BY ArgAssumption DEF TypeOK
<1> QED BY <1>1 DEF TypeOK, PlanOf, Plans

-----------------------------------------------------------------------------
(* A run of setup() works on a roster of servers; only a removal puts the       *)
(* names it deletes in its place.                                              *)

Removing   == {"unrule", "unrule_listed", "delete", "delete_listed", "unport",
               "unfolder", "deactivate"}
RosterRead == pc \notin Removing \cup {"idle"} => roster \in SUBSET Servers

\* A step of setup() leaves the roster it has read.
LEMMA SetupKeepsRoster ==
    ASSUME SetupStep
    PROVE  pc \notin Removing \cup {"idle"} /\ UNCHANGED roster
<1> USE DEF Removing
<1>1. ASSUME EnsureFolder \/ ReadNetsim \/ (\E d \in Devices : EnsureDevice(d))
             \/ EnsureSnmpPorts \/ EnsureResidual \/ EnsureShell
             \/ EnsureAgentPorts \/ (\E h \in Servers : EnsureServer(h))
      PROVE  pc \notin Removing \cup {"idle"} /\ UNCHANGED roster
  BY <1>1 DEF EnsureFolder, ReadNetsim, EnsureDevice, EnsureSnmpPorts,
              EnsureResidual, EnsureShell, EnsureAgentPorts, EnsureServer,
              EnsureHost, Ensure, Call
<1>2. ASSUME ListStale \/ (\E h \in AllHosts : Prune(h)) \/ BulkDiscover
      PROVE  pc \notin Removing \cup {"idle"} /\ UNCHANGED roster
  BY <1>2 DEF ListStale, Prune, PruneHost, BulkDiscover, Call, Ignored, Tolerated
<1>3. ASSUME EnsureDatasource \/ EnsureBiPack \/ EnsureBiService \/ ScanShell
             \/ (\E h \in AllHosts : Discover(h)) \/ Activate \/ Rescan
             \/ WriteFingerprint \/ Finish
      PROVE  pc \notin Removing \cup {"idle"} /\ UNCHANGED roster
  BY <1>3 DEF EnsureDatasource, EnsureBiPack, EnsureBiService, ScanShell,
              Discover, Activate, Rescan, WriteFingerprint, Finish, Ensure, Call,
              Activation
<1> QED BY <1>1, <1>2, <1>3 DEF SetupStep

\* teardown() stays teardown() until it ends.
LEMMA RemovalKeepsRemoving ==
    ASSUME RemovalStep
    PROVE  pc \in Removing /\ pc' \in Removing \cup {"idle"}
<1> USE DEF Removing, Call, CallFails, Dies, Ignored, Tolerated
<1>1. CASE DeleteRules
  BY <1>1 DEF DeleteRules
<1>2. CASE DeletePortRule \/ DeleteFolder
  BY <1>2 DEF DeletePortRule, DeleteFolder
<1>3. CASE FinishRemoval
  BY <1>3 DEF FinishRemoval, Activation
<1>4. ASSUME NEW h \in AllHosts, DeleteHost(h)
      PROVE  pc \in Removing /\ pc' \in Removing \cup {"idle"}
  BY <1>4 DEF DeleteHost
<1> QED BY <1>1, <1>2, <1>3, <1>4 DEF RemovalStep

\* So the roster of a running setup() is one of servers.
LEMMA RosterStep == TypeOK /\ RosterRead /\ [Next]_vars => RosterRead'
<1> SUFFICES ASSUME TypeOK, RosterRead, [Next]_vars PROVE RosterRead'
  OBVIOUS
<1>1. ASSUME NEW a \in Args, Begin(a) \/ BeginRemoval(a) PROVE RosterRead'
  <2>1. carried \in SUBSET Servers
    BY ArgAssumption DEF TypeOK
  <2> QED BY <1>1, <2>1 DEF Begin, BeginRemoval, RosterRead, Removing
<1>2. CASE SetupStep
  BY <1>2, SetupKeepsRoster DEF RosterRead
<1>3. CASE RemovalStep
  BY <1>3, RemovalKeepsRemoving DEF RosterRead
<1>4. CASE RosterChange \/ NetsimFlap \/ UNCHANGED vars
  BY <1>4 DEF RosterChange, NetsimFlap, vars, RosterRead
<1> QED BY <1>1, <1>2, <1>3, <1>4 DEF Next

-----------------------------------------------------------------------------
(* One lemma per group of actions *)

\* Beginning a run, either way.
LEMMA BeginType ==
    ASSUME TypeOK, NEW a \in Args, Begin(a) \/ BeginRemoval(a)
    PROVE  TypeOK'
<1>1. runs' \in 0..MaxRuns
  <2>1. runs \in 0..MaxRuns /\ MaxRuns \in Nat
    BY BoundAssumption DEF TypeOK
  <2>2. runs < MaxRuns /\ runs' = runs + 1
    BY DEF Begin, BeginRemoval
  <2> QED BY <2>1, <2>2
<1>2. carried \in SUBSET Servers
  BY ArgAssumption DEF TypeOK
<1>3. CASE Begin(a)
  <2>1. /\ pc' \in Labels
        /\ outcome' \in {"none", "running", "in sync", "done", "late",
                         "removed", "died"}
    BY <1>3 DEF Begin, Labels
  <2>2. roster' \in SUBSET AllHosts
    BY <1>2, <1>3 DEF Begin, AllHosts
  <2>3. planned' \in SUBSET Devices /\ made' \in SUBSET Devices
    BY <1>3 DEF Begin
  <2>4. missed' \in SUBSET AllHosts
    BY <1>3 DEF TypeOK, Begin
  <2> QED BY <1>1, <1>3, <2>1, <2>2, <2>3, <2>4 DEF TypeOK, Begin
<1>4. CASE BeginRemoval(a)
  <2>1. todo' \in SUBSET AllHosts
    BY <1>2, <1>4 DEF BeginRemoval, AllHosts
  <2>2. pc' \in Labels
    BY <1>4 DEF BeginRemoval, Labels
  <2>3. failures' \in 0..MaxFailures
    BY <1>4, FailureCount DEF BeginRemoval
  <2>4. roster' = todo' /\ planned' = {} /\ made' = {} /\ arg' = a
        /\ outcome' = "running"
    BY <1>4 DEF BeginRemoval
  <2> QED BY <1>1, <1>4, <2>1, <2>2, <2>3, <2>4 DEF TypeOK, BeginRemoval
<1> QED BY <1>3, <1>4

\* Creating the folder, the hosts and the first rules.
LEMMA CreationType ==
    ASSUME TypeOK,
           \/ EnsureFolder \/ ReadNetsim
           \/ \E d \in Devices : EnsureDevice(d)
           \/ EnsureSnmpPorts \/ EnsureResidual \/ EnsureShell
           \/ EnsureAgentPorts
           \/ \E h \in Servers : EnsureServer(h)
    PROVE  TypeOK'
<1> USE DEF Labels
<1>1. CASE EnsureFolder
  <2>1. [cfg EXCEPT !.folder = TRUE] \in Configs
    BY DEF TypeOK, Configs
  <2> QED BY <1>1, <2>1, CallType DEF EnsureFolder
<1>2. CASE ReadNetsim
  BY <1>2 DEF ReadNetsim, TypeOK, Dies, AllHosts
<1>3. ASSUME NEW d \in Devices, EnsureDevice(d) PROVE TypeOK'
  <2>1. d \in AllHosts /\ todo \ {d} \in SUBSET AllHosts
    BY DEF AllHosts, TypeOK
  <2>2. DeviceConfig(d) \in HostConfigs
    BY WantedTypes
  <2> QED BY <1>3, <2>1, <2>2, EnsureHostType DEF EnsureDevice
<1>4. CASE EnsureSnmpPorts
  BY <1>4, EnsureType DEF EnsureSnmpPorts, Rules
<1>5. CASE EnsureResidual
  BY <1>5, EnsureType DEF EnsureResidual, Rules
<1>6. CASE EnsureShell
  <2>1. Shell \in AllHosts /\ roster \in SUBSET AllHosts
    BY DEF AllHosts, TypeOK
  <2>2. ShellConfig(arg.mode, made) \in HostConfigs
    BY WantedTypes
  <2> QED BY <1>6, <2>1, <2>2, EnsureHostType DEF EnsureShell
<1>7. CASE EnsureAgentPorts
  <2>1. [cfg EXCEPT !.rules = @ \cup {"agent_ports"}] \in Configs
    BY DEF TypeOK, Configs, Rules
  <2>2. roster \in SUBSET AllHosts
    BY DEF TypeOK
  <2> QED BY <1>7, <2>1, <2>2, CallType DEF EnsureAgentPorts
<1>8. ASSUME NEW h \in Servers, EnsureServer(h) PROVE TypeOK'
  <2>1. h \in AllHosts /\ todo \ {h} \in SUBSET AllHosts
    BY DEF AllHosts, TypeOK
  <2>2. ServerConfig(h, arg.mode, roster, made) \in HostConfigs
    BY WantedTypes
  <2> QED BY <1>8, <2>1, <2>2, EnsureHostType DEF EnsureServer
<1> QED BY <1>1, <1>2, <1>3, <1>4, <1>5, <1>6, <1>7, <1>8

\* Pruning.
LEMMA PruneType ==
    ASSUME TypeOK, ListStale \/ \E h \in AllHosts : Prune(h)
    PROVE  TypeOK'
<1> USE DEF Labels
<1>0. cfg \in Configs /\ todo \in SUBSET AllHosts
  BY DEF TypeOK
<1>1. CASE ListStale
  <2> DEFINE stale == {h \in AllHosts \ ({Shell} \cup roster \cup made) :
                         Exists(cfg, h)}
  <2>1. stale \in SUBSET AllHosts /\ {} \in SUBSET AllHosts
    OBVIOUS
  <2>2. Pruned \in Labels /\ (IF stale = {} THEN Pruned ELSE "prune") \in Labels
    BY DEF Pruned
  <2>3. \/ Call(cfg, IF stale = {} THEN Pruned ELSE "prune", stale)
        \/ Ignored(cfg, Pruned, {})
    BY <1>1 DEF ListStale
  <2> HIDE DEF stale
  <2> QED BY <1>0, <2>1, <2>2, <2>3, CallType, IgnoredType
<1>2. ASSUME NEW h \in AllHosts, Prune(h) PROVE TypeOK'
  <2> DEFINE left == todo \ {h}
             next == IF left = {} THEN Pruned ELSE "prune"
  <2>1. left \in SUBSET AllHosts /\ next \in Labels
    BY <1>0 DEF Pruned
  <2>2. Without(cfg, h) \in Configs
    BY <1>0, WithoutType
  <2>3. Call(Without(cfg, h), next, left) \/ Ignored(cfg, next, left)
    BY <1>2 DEF Prune, PruneHost
  <2> HIDE DEF left, next
  <2> QED BY <1>0, <2>1, <2>2, <2>3, CallType, IgnoredType
<1> QED BY <1>1, <1>2

\* Rules, discovery, the fingerprint and both activations.
LEMMA DiscoveryType ==
    ASSUME TypeOK, RosterRead,
           \/ EnsureDatasource \/ EnsureBiPack \/ EnsureBiService
           \/ ScanShell \/ BulkDiscover
           \/ \E h \in AllHosts : Discover(h)
           \/ Activate \/ Rescan \/ WriteFingerprint \/ Finish
    PROVE  TypeOK'
<1> USE DEF Labels
<1>0. cfg \in Configs /\ todo \in SUBSET AllHosts /\ {} \in SUBSET AllHosts
  BY DEF TypeOK
<1>1. CASE EnsureDatasource
  BY <1>1, EnsureType DEF EnsureDatasource, Rules
<1>2. CASE EnsureBiPack
  BY <1>2, EnsureType DEF EnsureBiPack, Rules
<1>3. CASE EnsureBiService
  BY <1>3, EnsureType DEF EnsureBiService, Rules
<1>4. CASE ScanShell
  <2> DEFINE new  == [cfg EXCEPT !.monitored = @ \cup {Shell}]
             rest == {h \in roster \cup made : arg.force \/ h \notin cfg.monitored}
             next == IF rest = {} THEN "activate"
                     ELSE IF Cardinality(rest) >= BulkSize THEN "bulk"
                     ELSE "discover"
  <2>1. new \in Configs
    BY <1>0 DEF Configs, AllHosts
  <2>2. rest \in SUBSET AllHosts
    BY DEF TypeOK, AllHosts
  <2>3. next \in Labels
    OBVIOUS
  <2>4. Call(new, next, rest)
    BY <1>4 DEF ScanShell
  <2> HIDE DEF new, rest, next
  <2> QED BY <2>1, <2>2, <2>3, <2>4, CallType
<1>5. CASE BulkDiscover
  <2>1. CASE Call([cfg EXCEPT !.monitored = @ \cup todo], "activate", {})
    <3>1. [cfg EXCEPT !.monitored = @ \cup todo] \in Configs
      BY <1>0 DEF Configs
    <3> QED BY <1>0, <2>1, <3>1, CallType
  <2>2. ASSUME NEW some \in SUBSET todo,
               Tolerated([cfg EXCEPT !.monitored = @ \cup some], "activate", {}),
               missed' = missed \cup (todo \ some), UNCHANGED disturbed
        PROVE  TypeOK'
    <3>1. [cfg EXCEPT !.monitored = @ \cup some] \in Configs
      BY <1>0 DEF Configs
    <3>2. missed' \in SUBSET AllHosts /\ disturbed' \in BOOLEAN
      BY <1>0, <2>2 DEF TypeOK
    <3> QED BY <1>0, <2>2, <3>1, <3>2, ToleratedType
  <2> QED BY <1>5, <2>1, <2>2 DEF BulkDiscover
<1>6. ASSUME NEW h \in AllHosts, Discover(h) PROVE TypeOK'
  <2>1. [cfg EXCEPT !.monitored = @ \cup {h}] \in Configs
    BY <1>0 DEF Configs
  <2>2. todo \ {h} \in SUBSET AllHosts
    BY <1>0
  <2> QED BY <1>6, <2>1, <2>2, CallType DEF Discover
<1>7. CASE Activate
  BY <1>7, ActivationType DEF Activate
<1>8. CASE Rescan
  BY <1>0, <1>8, CallType DEF Rescan
<1>9. CASE WriteFingerprint
  <2>1. roster \in SUBSET Servers
    BY <1>9 DEF RosterRead, Removing, WriteFingerprint
  <2>2. [cfg EXCEPT !.stamp = PlanOf(arg.mode, roster, planned)] \in Configs
    BY <1>0, <2>1, PlanType DEF Configs
  <2>3. failures' \in 0..MaxFailures
    BY <1>9, FailureCount DEF WriteFingerprint, CallFails
  <2>4. /\ cfg' \in Configs /\ pc' \in Labels /\ todo' \in SUBSET AllHosts
        /\ disturbed' \in BOOLEAN
        /\ outcome' \in {"none", "running", "in sync", "done", "late",
                         "removed", "died"}
    BY <1>0, <1>9, <2>2 DEF TypeOK, WriteFingerprint, CallFails, Dies
  <2> QED BY <1>9, <2>3, <2>4 DEF TypeOK, WriteFingerprint
<1>10. CASE Finish
  BY <1>10, ActivationType DEF Finish
<1> QED BY <1>1, <1>2, <1>3, <1>4, <1>5, <1>6, <1>7, <1>8, <1>9, <1>10

\* teardown().
LEMMA RemovalType ==
    ASSUME TypeOK, RemovalStep
    PROVE  TypeOK'
<1> USE DEF Labels
<1>0. cfg \in Configs /\ todo \in SUBSET AllHosts /\ {} \in SUBSET AllHosts
  BY DEF TypeOK
<1>1. ASSUME NEW some PROVE [cfg EXCEPT !.rules = @ \ some] \in Configs
  BY <1>0 DEF Configs
<1>2. CASE DeleteRules
  <2> DEFINE next == IF todo = {} THEN "unport"
                     ELSE IF pc = "unrule" THEN "delete" ELSE "delete_listed"
             gone == {"bi_pack"} \cup FolderRules
                     \cup {r \in {"bi_service"} : Shell \in roster}
             Unruled(kept) == [cfg EXCEPT !.rules = @ \ (gone \ kept)]
  <2>1. next \in Labels
    OBVIOUS
  <2>2. \A kept : Unruled(kept) \in Configs
    BY <1>1
  <2>3. \/ Call(Unruled({}), next, todo)
        \/ \E rule \in gone : Ignored(Unruled({rule}), next, todo)
    BY <1>2 DEF DeleteRules
  <2> HIDE DEF next, gone, Unruled
  <2>4. CASE Call(Unruled({}), next, todo)
    <3>1. Unruled({}) \in Configs
      BY <2>2
    <3> QED BY <1>0, <2>1, <2>4, <3>1, CallType
  <2>5. ASSUME NEW rule \in gone, Ignored(Unruled({rule}), next, todo)
        PROVE  TypeOK'
    <3>1. Unruled({rule}) \in Configs
      BY <2>2
    <3> QED BY <1>0, <2>1, <2>5, <3>1, IgnoredType
  <2> QED BY <2>3, <2>4, <2>5
<1>3. CASE DeletePortRule
  <2>1. \/ Call([cfg EXCEPT !.rules =
                   @ \ {r \in {"agent_ports"} : Shell \in roster}], "unfolder", {})
        \/ Ignored(cfg, "unfolder", {})
    BY <1>3 DEF DeletePortRule
  <2> QED BY <1>0, <1>1, <2>1, CallType, IgnoredType
<1>4. CASE DeleteFolder
  <2>1. WithoutFolder \in Configs
    BY <1>0, BareType DEF WithoutFolder, Configs
  <2>2. CASE Call(WithoutFolder, "deactivate", {})
    BY <1>0, <2>1, <2>2, CallType
  <2>3. CASE /\ Tolerated(cfg, "deactivate", {})
             /\ disturbed' = TRUE /\ UNCHANGED missed
    <3>1. disturbed' \in BOOLEAN /\ missed' \in SUBSET AllHosts
      BY <2>3 DEF TypeOK
    <3> QED BY <1>0, <2>3, <3>1, ToleratedType
  <2> QED BY <1>4, <2>2, <2>3 DEF DeleteFolder
<1>5. CASE FinishRemoval
  BY <1>5, ActivationType DEF FinishRemoval
<1>6. ASSUME NEW h \in AllHosts, DeleteHost(h) PROVE TypeOK'
  <2> DEFINE left == todo \ {h}
             next == IF left = {} THEN "unport" ELSE pc
  <2>1. left \in SUBSET AllHosts /\ next \in Labels
    BY <1>0 DEF TypeOK
  <2>2. Without(cfg, h) \in Configs
    BY <1>0, WithoutType
  <2>3. Call(Without(cfg, h), next, left) \/ Ignored(cfg, next, left)
    BY <1>6 DEF DeleteHost
  <2> HIDE DEF left, next
  <2> QED BY <1>0, <2>1, <2>2, <2>3, CallType, IgnoredType
<1> QED BY <1>2, <1>3, <1>4, <1>5, <1>6 DEF RemovalStep

\* The panels, and stuttering.
LEMMA PanelsType ==
    ASSUME TypeOK, RosterChange \/ NetsimFlap \/ UNCHANGED vars
    PROVE  TypeOK'
<1>0. /\ rosters \in 0..MaxRosters /\ flaps \in 0..MaxFlaps
      /\ MaxRosters \in Nat /\ MaxFlaps \in Nat
  BY BoundAssumption DEF TypeOK
<1>1. CASE RosterChange
  <2>1. rosters' \in 0..MaxRosters
    BY <1>0, <1>1 DEF RosterChange
  <2> QED BY <1>1, <2>1 DEF TypeOK, RosterChange
<1>2. CASE NetsimFlap
  <2>1. flaps' \in 0..MaxFlaps
    BY <1>0, <1>2 DEF NetsimFlap
  <2>2. answers' \in BOOLEAN /\ disturbed' \in BOOLEAN
    BY <1>2 DEF TypeOK, NetsimFlap
  <2> QED BY <1>2, <2>1, <2>2 DEF TypeOK, NetsimFlap
<1>3. CASE UNCHANGED vars
  BY <1>3 DEF TypeOK, vars
<1> QED BY <1>1, <1>2, <1>3

\* A site without the estate is well typed.
LEMMA InitType == Init => TypeOK /\ RosterRead
<1> SUFFICES ASSUME Init PROVE TypeOK /\ RosterRead
  OBVIOUS
<1>1. runs \in 0..MaxRuns /\ failures \in 0..MaxFailures
      /\ rosters \in 0..MaxRosters /\ flaps \in 0..MaxFlaps
  BY BoundAssumption DEF Init
<1>2. pc \in Labels /\ RosterRead
  BY DEF Init, Labels, RosterRead
<1>3. arg \in Args
  BY ArgAssumption DEF Init
<1> QED BY <1>1, <1>2, <1>3, BareType DEF Init, TypeOK

\* Every step keeps the types.
LEMMA TypeStep == TypeOK /\ RosterRead /\ [Next]_vars => TypeOK'
<1> SUFFICES ASSUME TypeOK, RosterRead, [Next]_vars PROVE TypeOK'
  OBVIOUS
<1>1. ASSUME NEW a \in Args, Begin(a) \/ BeginRemoval(a) PROVE TypeOK'
  BY <1>1, BeginType
<1>2. CASE SetupStep
  BY <1>2, CreationType, PruneType, DiscoveryType DEF SetupStep
<1>3. CASE RemovalStep
  BY <1>3, RemovalType
<1>4. CASE RosterChange \/ NetsimFlap \/ UNCHANGED vars
  BY <1>4, PanelsType
<1> QED BY <1>1, <1>2, <1>3, <1>4 DEF Next

\* Every reachable state is well typed, for any estate and number of runs.
\* (The state of setup() and teardown() and of the site's configuration.)
THEOREM TypeCorrect == Spec => []TypeOK
<1>1. Init => TypeOK /\ RosterRead
  BY InitType
<1>2. TypeOK /\ RosterRead /\ [Next]_vars => (TypeOK /\ RosterRead)'
  BY TypeStep, RosterStep
<1> QED BY <1>1, <1>2, PTL DEF Spec

-----------------------------------------------------------------------------
(* Parents first *)

\* While the script creates hosts: what is behind it exists at the site.
AfterDevices == {"snmp_ports", "residual", "shell", "agent_ports", "server"}
Creating     == {"folder", "netsim", "device"} \cup AfterDevices
Created ==
    /\ pc \in {"folder", "netsim"} => made = {}
    /\ pc = "device" => /\ made = Devices /\ todo \subseteq Devices
                       /\ \A d \in Devices \ todo : Exists(cfg, d)
    /\ pc \in AfterDevices => \A d \in made : Exists(cfg, d)
    /\ pc = "server" => /\ todo \subseteq roster
                       /\ \A h \in roster \ todo : Exists(cfg, h)

ParentsInv == TypeOK /\ RosterRead /\ Created /\ ParentsFirst

\* Outside that part there is nothing to say.
LEMMA CreatedOutside == pc' \notin Creating => Created'
BY DEF Creating, Created, AfterDevices

\* A host that ensure_host() is through with exists, and the others still do.
LEMMA EnsuredExists ==
    ASSUME TypeOK, NEW h \in AllHosts, NEW want \in HostConfigs,
           want.agent # "absent"
    PROVE  LET c == Ensured(h, want)
           IN  /\ Exists(c, h)
               /\ \A g \in AllHosts : Exists(cfg, g) => Exists(c, g)
<1>1. Reconciled(cfg.host[h], want).agent # "absent"
  BY DEF Reconciled, Switched
<1>2. cfg.host \in [AllHosts -> HostConfigs]
  BY DEF TypeOK, Configs
<1>3. Ensured(h, want).host
      = [cfg.host EXCEPT ![h] = Reconciled(cfg.host[h], want)]
  BY DEF Ensured, TypeOK, Configs
<1> QED BY <1>1, <1>2, <1>3 DEF Exists

\* ensure_host() of a host whose parent exists: it is created, or the run dies.
LEMMA EnsureHostCreates ==
    ASSUME TypeOK, ParentsFirst, NEW h \in AllHosts, NEW want \in HostConfigs,
           want.agent # "absent", NEW next, NEW rest,
           EnsureHost(h, want, next, rest),
           want.parent = None \/ Exists(cfg, want.parent)
    PROVE  /\ ParentsFirst'
           /\ \/ pc' = "idle"
              \/ /\ pc' = next /\ todo' = rest /\ UNCHANGED <<roster, made>>
                 /\ Exists(cfg', h)
                 /\ \A g \in AllHosts : Exists(cfg, g) => Exists(cfg', g)
<1>1. Call(Ensured(h, want), next, rest)
  BY DEF EnsureHost
<1>2. CASE CallFails(Ensured(h, want))
  BY <1>1, <1>2 DEF Call, CallFails, Dies, ParentsFirst
<1>3. CASE cfg' = Ensured(h, want) /\ pc' = next /\ todo' = rest
  BY <1>1, <1>3, EnsuredExists DEF Call, ParentsFirst
<1> QED BY <1>1, <1>2, <1>3 DEF Call

\* _topo_order(): the parent of the next device is not among those left.
LEMMA DeviceStep ==
    ASSUME ParentsInv, NEW d \in Devices, EnsureDevice(d)
    PROVE  Created' /\ ParentsFirst'
<1> DEFINE want == DeviceConfig(d)
           next == IF todo = {d} THEN "snmp_ports" ELSE "device"
<1>1. d \in AllHosts /\ want \in HostConfigs /\ want.agent # "absent"
  BY WantedTypes DEF AllHosts, DeviceConfig
<1>2. /\ pc = "device" /\ NextDevice(d) /\ made = Devices
      /\ todo \subseteq Devices /\ \A g \in Devices \ todo : Exists(cfg, g)
  BY DEF ParentsInv, Created, EnsureDevice
<1>3. want.parent = None \/ Exists(cfg, want.parent)
  <2>1. CASE d = Core
    BY <2>1 DEF DeviceConfig
  <2>2. CASE d # Core
    <3>1. want.parent \in Devices
      BY <2>2, TreeAssumption DEF DeviceConfig
    <3>2. want.parent \notin todo
      BY <1>2 DEF NextDevice
    <3> QED BY <1>2, <3>1, <3>2
  <2> QED BY <2>1, <2>2
<1>4. EnsureHost(d, want, next, todo \ {d})
  BY DEF EnsureDevice
<1>5. TypeOK /\ ParentsFirst
  BY DEF ParentsInv
<1> HIDE DEF want, next
<1>6. /\ ParentsFirst'
      /\ \/ pc' = "idle"
         \/ /\ pc' = next /\ todo' = todo \ {d} /\ UNCHANGED <<roster, made>>
            /\ Exists(cfg', d)
            /\ \A g \in AllHosts : Exists(cfg, g) => Exists(cfg', g)
  BY <1>1, <1>3, <1>4, <1>5, EnsureHostCreates
<1>7. CASE pc' = "idle"
  BY <1>6, <1>7, CreatedOutside DEF Creating, AfterDevices
<1>8. CASE pc' # "idle"
  <2>1. \A g \in Devices \ (todo \ {d}) : Exists(cfg', g)
    BY <1>2, <1>6, <1>8 DEF AllHosts
  <2>2. CASE todo = {d}
    <3>1. pc' = "snmp_ports" /\ made' = Devices
      BY <1>2, <1>6, <1>8, <2>2 DEF next
    <3>2. \A g \in Devices : Exists(cfg', g)
      BY <2>1, <2>2
    <3> QED BY <1>6, <3>1, <3>2 DEF Created, AfterDevices, Exists
  <2>3. CASE todo # {d}
    <3>1. pc' = "device" /\ made' = Devices /\ todo' = todo \ {d}
      BY <1>2, <1>6, <1>8, <2>3 DEF next
    <3> QED BY <1>2, <1>6, <2>1, <3>1 DEF Created, AfterDevices, Exists
  <2> QED BY <2>2, <2>3
<1> QED BY <1>7, <1>8

\* The shell's parent is one of the devices made in this run.
LEMMA ShellStep ==
    ASSUME ParentsInv, EnsureShell
    PROVE  Created' /\ ParentsFirst'
<1> DEFINE want == ShellConfig(arg.mode, made)
           next == IF arg.mode = "cloud" THEN "agent_ports"
                   ELSE IF roster = {} THEN "list" ELSE "server"
<1>1. Shell \in AllHosts /\ want \in HostConfigs /\ want.agent # "absent"
  BY WantedTypes DEF AllHosts, ShellConfig
<1>2. pc = "shell" /\ \A d \in made : Exists(cfg, d)
  BY DEF ParentsInv, Created, AfterDevices, EnsureShell
<1>3. want.parent = None \/ Exists(cfg, want.parent)
  BY <1>2 DEF ShellConfig
<1>4. EnsureHost(Shell, want, next, roster)
  BY DEF EnsureShell
<1>5. TypeOK /\ ParentsFirst /\ made \subseteq AllHosts
  BY DEF ParentsInv, TypeOK, AllHosts
<1>6. next \in {"agent_ports", "list", "server"}
  OBVIOUS
<1> HIDE DEF want, next
<1>7. /\ ParentsFirst'
      /\ \/ pc' = "idle"
         \/ /\ pc' = next /\ todo' = roster /\ UNCHANGED <<roster, made>>
            /\ \A g \in AllHosts : Exists(cfg, g) => Exists(cfg', g)
  BY <1>1, <1>3, <1>4, <1>5, EnsureHostCreates
<1>8. CASE pc' = "idle"
  BY <1>7, <1>8, CreatedOutside DEF Creating, AfterDevices
<1>9. CASE pc' # "idle"
  <2>1. \A d \in made' : Exists(cfg', d)
    BY <1>2, <1>5, <1>7, <1>9
  <2>2. pc' \in {"agent_ports", "list", "server"} /\ todo' = roster'
    BY <1>6, <1>7, <1>9
  <2> QED BY <1>7, <2>1, <2>2 DEF Created, AfterDevices, Exists
<1> QED BY <1>8, <1>9

\* A server's parent is a device of this run, or a server that came before:
\* as long as one is left whose parent is not carried, no other is taken.
LEMMA ServerStep ==
    ASSUME ParentsInv, NEW h \in Servers, EnsureServer(h)
    PROVE  Created' /\ ParentsFirst'
<1> DEFINE want == ServerConfig(h, arg.mode, roster, made)
           next == IF todo = {h} THEN "list" ELSE "server"
<1>1. h \in AllHosts /\ want \in HostConfigs /\ want.agent # "absent"
  BY WantedTypes DEF AllHosts, ServerConfig
<1>2. /\ pc = "server" /\ NextServer(h) /\ todo \subseteq roster
      /\ \A d \in made : Exists(cfg, d)
      /\ \A g \in roster \ todo : Exists(cfg, g)
  BY DEF ParentsInv, Created, AfterDevices, EnsureServer
<1>3. roster \subseteq Servers
  BY <1>2 DEF ParentsInv, RosterRead, Removing
<1>4. want.parent = None \/ Exists(cfg, want.parent)
  <2>1. CASE Declared[h] \in roster
    <3>1. Declared[h] \in Servers
      BY <1>3, <2>1
    <3>2. Declared[Declared[h]] \notin roster
      BY <1>3, <3>1, TreeAssumption
    <3>3. Declared[h] \notin todo
      BY <1>2, <2>1, <3>2 DEF NextServer
    <3> QED BY <1>2, <2>1, <3>3 DEF ServerConfig
  <2>2. CASE Declared[h] \notin roster
    BY <1>2, <2>2 DEF ServerConfig
  <2> QED BY <2>1, <2>2
<1>5. EnsureHost(h, want, next, todo \ {h})
  BY DEF EnsureServer
<1>6. TypeOK /\ ParentsFirst /\ made \subseteq AllHosts
  BY DEF ParentsInv, TypeOK, AllHosts
<1>7. next \in {"list", "server"}
  OBVIOUS
<1> HIDE DEF want, next
<1>8. /\ ParentsFirst'
      /\ \/ pc' = "idle"
         \/ /\ pc' = next /\ todo' = todo \ {h} /\ UNCHANGED <<roster, made>>
            /\ Exists(cfg', h)
            /\ \A g \in AllHosts : Exists(cfg, g) => Exists(cfg', g)
  BY <1>1, <1>4, <1>5, <1>6, EnsureHostCreates
<1>9. CASE pc' = "idle"
  BY <1>8, <1>9, CreatedOutside DEF Creating, AfterDevices
<1>10. CASE pc' # "idle"
  <2>1. \A d \in made' : Exists(cfg', d)
    BY <1>2, <1>6, <1>8, <1>10
  <2>2. \A g \in roster' \ todo' : Exists(cfg', g)
    BY <1>2, <1>3, <1>8, <1>10 DEF AllHosts
  <2>3. pc' \in {"list", "server"} /\ todo' \subseteq roster'
    BY <1>2, <1>7, <1>8, <1>10
  <2>4. CASE pc' = "list"
    BY <1>8, <2>4, CreatedOutside DEF Creating, AfterDevices
  <2>5. CASE pc' = "server"
    BY <1>8, <2>1, <2>2, <2>3, <2>5 DEF Created, Exists
  <2> QED BY <2>3, <2>4, <2>5
<1> QED BY <1>9, <1>10

\* The folder, the second look at the panel, and the rules between the hosts.
LEMMA BetweenStep ==
    ASSUME ParentsInv,
           \/ EnsureFolder \/ ReadNetsim \/ EnsureSnmpPorts \/ EnsureResidual
           \/ EnsureAgentPorts
    PROVE  Created' /\ ParentsFirst'
<1> USE DEF ParentsFirst
<1>0. cfg \in Configs /\ ~rejected
  BY DEF ParentsInv, TypeOK
<1>1. CASE EnsureFolder
  BY <1>0, <1>1 DEF ParentsInv, Created, AfterDevices, EnsureFolder, Call,
                    CallFails, Dies
<1>2. CASE ReadNetsim
  BY <1>0, <1>2 DEF ParentsInv, Created, AfterDevices, ReadNetsim, Dies
<1>3. ASSUME NEW new, new.host = cfg.host, NEW next, NEW rest,
             pc \in AfterDevices, Call(new, next, rest),
             \/ next \in {"residual", "shell", "agent_ports", "list"}
             \/ next = "server" /\ rest = roster
      PROVE  Created' /\ ParentsFirst'
  <2>1. CASE CallFails(new)
    BY <1>0, <1>3, <2>1, CreatedOutside
       DEF CallFails, Dies, Call, Creating, AfterDevices
  <2>2. CASE cfg' = new /\ pc' = next /\ todo' = rest
    <3>1. \A d \in made : Exists(cfg, d)
      BY <1>3 DEF ParentsInv, Created
    <3>2. UNCHANGED <<roster, made, rejected>>
      BY <1>3 DEF Call
    <3>3. \A d \in made' : Exists(cfg', d)
      BY <1>3, <2>2, <3>1, <3>2 DEF Exists
    <3>4. pc' \notin {"folder", "netsim", "device"}
          /\ (pc' = "server" => todo' = roster')
      BY <1>3, <2>2, <3>2
    <3> QED BY <1>0, <3>2, <3>3, <3>4 DEF Created
  <2> QED BY <1>3, <2>1, <2>2 DEF Call
<1>4. CASE EnsureSnmpPorts
  <2> DEFINE new == [cfg EXCEPT !.rules = @ \cup {"snmp_ports"}]
  <2>1. new.host = cfg.host
    BY <1>0 DEF Configs
  <2>2. pc = "snmp_ports" /\ Call(new, "residual", {})
    BY <1>4 DEF EnsureSnmpPorts, Ensure
  <2> HIDE DEF new
  <2> QED BY <1>3, <2>1, <2>2 DEF AfterDevices
<1>5. CASE EnsureResidual
  <2> DEFINE new == [cfg EXCEPT !.rules = @ \cup {"residual_current"}]
  <2>1. new.host = cfg.host
    BY <1>0 DEF Configs
  <2>2. pc = "residual" /\ Call(new, "shell", {})
    BY <1>5 DEF EnsureResidual, Ensure
  <2> HIDE DEF new
  <2> QED BY <1>3, <2>1, <2>2 DEF AfterDevices
<1>6. CASE EnsureAgentPorts
  <2> DEFINE new  == [cfg EXCEPT !.rules = @ \cup {"agent_ports"}]
             next == IF roster = {} THEN "list" ELSE "server"
  <2>1. new.host = cfg.host
    BY <1>0 DEF Configs
  <2>2. pc = "agent_ports" /\ Call(new, next, roster)
    BY <1>6 DEF EnsureAgentPorts
  <2>3. next \in {"list", "server"}
    OBVIOUS
  <2> HIDE DEF new, next
  <2> QED BY <1>3, <2>1, <2>2, <2>3 DEF AfterDevices
<1> QED BY <1>1, <1>2, <1>4, <1>5, <1>6

\* After the last host the script creates none.
LEMMA LaterStep ==
    ASSUME ParentsInv,
           \/ ListStale \/ \E h \in AllHosts : Prune(h)
           \/ EnsureDatasource \/ EnsureBiPack \/ EnsureBiService
           \/ ScanShell \/ BulkDiscover
           \/ \E h \in AllHosts : Discover(h)
           \/ Activate \/ Rescan \/ WriteFingerprint \/ Finish
           \/ RemovalStep
    PROVE  Created' /\ ParentsFirst'
<1> USE DEF Creating, AfterDevices, Call, CallFails, Ignored, Tolerated, Dies
<1>1. CASE ListStale \/ \E h \in AllHosts : Prune(h)
  BY <1>1, CreatedOutside
     DEF ListStale, Prune, PruneHost, Pruned, ParentsInv, ParentsFirst
<1>2. CASE EnsureDatasource \/ EnsureBiPack \/ EnsureBiService
  BY <1>2, CreatedOutside DEF EnsureDatasource, EnsureBiPack, EnsureBiService,
                              Ensure, ParentsInv, ParentsFirst
<1>3. CASE ScanShell \/ BulkDiscover \/ \E h \in AllHosts : Discover(h)
  BY <1>3, CreatedOutside
     DEF ScanShell, BulkDiscover, Discover, ParentsInv, ParentsFirst
<1>4. CASE Activate \/ Rescan \/ WriteFingerprint \/ Finish
  BY <1>4, CreatedOutside DEF Activate, Rescan, WriteFingerprint, Finish,
                              Activation, ParentsInv, ParentsFirst
<1>5. CASE RemovalStep
  <2>1. pc' \notin Creating
    BY <1>5, RemovalKeepsRemoving DEF Removing
  <2>2. UNCHANGED rejected
    BY <1>5 DEF RemovalStep, DeleteRules, DeletePortRule, DeleteFolder,
                FinishRemoval, DeleteHost, Activation
  <2> QED BY <2>1, <2>2, CreatedOutside DEF ParentsInv, ParentsFirst
<1> QED BY <1>1, <1>2, <1>3, <1>4, <1>5

\* A run begins before any host is created.
LEMMA BeginStep ==
    ASSUME ParentsInv, NEW a \in Args, Begin(a)
    PROVE  Created' /\ ParentsFirst'
BY CreatedOutside DEF Begin, ParentsInv, ParentsFirst, Created, Creating,
                      AfterDevices

\* A removal creates none.
LEMMA BeginRemovalStep ==
    ASSUME ParentsInv, NEW a \in Args, BeginRemoval(a)
    PROVE  Created' /\ ParentsFirst'
BY CreatedOutside DEF BeginRemoval, ParentsInv, ParentsFirst, Creating,
                      AfterDevices

\* The panels do not touch the site.
LEMMA PanelsStep ==
    ASSUME ParentsInv, RosterChange \/ NetsimFlap \/ UNCHANGED vars
    PROVE  Created' /\ ParentsFirst'
BY DEF RosterChange, NetsimFlap, vars, ParentsInv, ParentsFirst, Created, Exists

\* Every step keeps the invariant.
LEMMA ParentsStep ==
    ASSUME ParentsInv, [Next]_vars
    PROVE  ParentsInv'
<1>1. TypeOK' /\ RosterRead'
  BY TypeStep, RosterStep DEF ParentsInv
<1>2. Created' /\ ParentsFirst'
  <2>1. ASSUME NEW a \in Args, Begin(a) \/ BeginRemoval(a)
        PROVE  Created' /\ ParentsFirst'
    BY <2>1, BeginStep, BeginRemovalStep
  <2>2. CASE SetupStep
    BY <2>2, DeviceStep, ShellStep, ServerStep, BetweenStep, LaterStep
       DEF SetupStep
  <2>3. CASE RemovalStep
    BY <2>3, LaterStep
  <2>4. CASE RosterChange \/ NetsimFlap \/ UNCHANGED vars
    BY <2>4, PanelsStep
  <2> QED BY <2>1, <2>2, <2>3, <2>4 DEF Next
<1> QED BY <1>1, <1>2 DEF ParentsInv

\* The site never refuses a host because its parent is missing, for any tree of
\* devices and servers, roster, and history of failed, repeated or removed runs.
\* (_topo_order, and the order of the loops in setup().)
THEOREM ParentsFirstAlways == Spec => []ParentsFirst
<1>1. Init => ParentsInv
  BY InitType DEF Init, ParentsInv, ParentsFirst, Created, AfterDevices
<1>2. ParentsInv /\ [Next]_vars => ParentsInv'
  BY ParentsStep
<1>3. ParentsInv => ParentsFirst
  BY DEF ParentsInv
<1> QED BY <1>1, <1>2, <1>3, PTL DEF Spec

-----------------------------------------------------------------------------
(* What a run leaves behind                                                   *)
(*                                                                           *)
(* Three facts about the site while a run is under way: what the run has      *)
(* treated is as it wants it; rules that only a removal of the shell deletes  *)
(* lie there with the shell; and an idle site has what its fingerprint says   *)
(* and is active.  They are inductive together with the order of the hosts.   *)

\* ensure_host() would find host h as it wants it.
Fits(c, h, want) == c.host[h] = Reconciled(c.host[h], want)

DevicesFit(ds) == \A d \in ds : Fits(cfg, d, DeviceConfig(d))
ShellFits      == Fits(cfg, Shell, ShellConfig(arg.mode, made))
ServersFit(hs) ==
    \A h \in hs : Fits(cfg, h, ServerConfig(h, arg.mode, roster, made))
PortsKept      == made # {} => "snmp_ports" \in cfg.rules

\* The steps after the last host.
Finishing == {"list", "prune", "datasource", "bi_pack", "bi_service", "scan",
              "bulk", "discover", "activate", "rescan", "stamp", "activate2"}

\* What is behind the run fits.
Repairing ==
    /\ pc = "device" => DevicesFit(Devices \ todo)
    /\ pc \in AfterDevices \cup Finishing => DevicesFit(made)
    /\ pc \in (AfterDevices \ {"snmp_ports"}) \cup Finishing => PortsKept
    /\ pc \in {"agent_ports", "server"} \cup Finishing => ShellFits
    /\ pc = "server" => ServersFit(roster \ todo)
    /\ pc \in Finishing => ServersFit(roster)
    /\ pc = "prune" => todo \cap ({Shell} \cup roster \cup made) = {}

\* The rules that a removal deletes only when it deletes the shell.
ShellRules == {"bi_service", "agent_ports"}
Tied == cfg.rules \cap ShellRules # {} => Exists(cfg, Shell)

\* What is left of a removal, as long as no call failed.
Leftover ==
    failures = 0 =>
      /\ pc \notin Removing => Tied
      /\ (pc \in Removing /\ Shell \notin roster) => cfg.rules \cap ShellRules = {}
      /\ pc \in Removing \ {"unrule", "unrule_listed"} =>
           cfg.rules \cap {"bi_pack", "bi_service"} = {}
      /\ pc \in {"unfolder", "deactivate"} => "agent_ports" \notin cfg.rules
      /\ pc = "deactivate" => cfg = Bare

\* A configuration has what a fingerprint stands for.
Kept(c, plan) ==
    /\ Covers(c, plan.mode, plan.hosts, plan.devices)
    /\ plan.hosts \cup plan.devices \subseteq c.monitored \cup missed

\* What the fingerprint stands for, and what the run that writes it has done
\* by then.
Synced ==
    /\ (pc = "idle" /\ ~disturbed) =>
         /\ activated => live = cfg
         /\ cfg.stamp # NoPlan => Kept(cfg, cfg.stamp)
    /\ pc \in {"bulk", "discover"} =>
         (roster \cup made) \ todo \subseteq cfg.monitored \cup missed
    /\ pc \in {"activate", "rescan", "stamp", "activate2"} =>
         roster \cup made \subseteq cfg.monitored \cup missed
    /\ (pc = "activate2" /\ ~disturbed) =>
         planned = made /\ cfg.stamp = PlanOf(arg.mode, roster, planned)
    /\ (pc = "deactivate" /\ ~disturbed) => cfg.stamp = NoPlan

\* A run that has ended well is over.
Ended == outcome \in {"done", "removed", "in sync"} => pc = "idle"

SiteParts == Repairing /\ Leftover /\ Synced
SiteInv   == /\ ParentsInv /\ SiteParts /\ Ended
             /\ RerunRepairs /\ InSync /\ RemovalComplete

\* A host that was reconciled stays as it is when it is reconciled again.
LEMMA ReconciledTwice ==
    ASSUME NEW old \in HostConfigs, NEW want \in HostConfigs
    PROVE  Reconciled(Reconciled(old, want), want) = Reconciled(old, want)
BY DEF Reconciled, Switched, HostConfigs

\* ensure_host() treats one host and leaves everything else alone.
LEMMA EnsuredFits ==
    ASSUME TypeOK, NEW h \in AllHosts, NEW want \in HostConfigs
    PROVE  LET c == Ensured(h, want)
           IN  /\ Fits(c, h, want)
               /\ \A g \in AllHosts \ {h} : c.host[g] = cfg.host[g]
               /\ c.rules = cfg.rules /\ c.monitored = cfg.monitored
               /\ c.stamp = cfg.stamp
<1>1. cfg.host \in [AllHosts -> HostConfigs] /\ cfg.host[h] \in HostConfigs
  BY DEF TypeOK, Configs
<1>2. /\ Ensured(h, want).host
           = [cfg.host EXCEPT ![h] = Reconciled(cfg.host[h], want)]
      /\ Ensured(h, want).rules = cfg.rules
      /\ Ensured(h, want).monitored = cfg.monitored
      /\ Ensured(h, want).stamp = cfg.stamp
  BY DEF Ensured, TypeOK, Configs
<1>3. Ensured(h, want).host[h] = Reconciled(cfg.host[h], want)
  BY <1>1, <1>2
<1>4. Fits(Ensured(h, want), h, want)
  BY <1>1, <1>3, ReconciledTwice DEF Fits
<1> QED BY <1>1, <1>2, <1>4

\* A shell that fits exists.
LEMMA ShellFitsExists ==
    ASSUME ShellFits
    PROVE  Exists(cfg, Shell)
<1>1. ShellConfig(arg.mode, made).agent \in {"program", "tcp"}
  BY DEF ShellConfig
<1>2. cfg.host[Shell].agent
        = Switched(cfg.host[Shell].agent, ShellConfig(arg.mode, made).agent)
  BY DEF ShellFits, Fits, Reconciled
<1> QED BY <1>1, <1>2 DEF Exists, Switched

\* What fits goes on fitting while the hosts stay and rules come.
LEMMA StillFits ==
    ASSUME cfg'.host = cfg.host, cfg.rules \subseteq cfg'.rules,
           UNCHANGED <<arg, roster, made>>
    PROVE  /\ \A ds : DevicesFit(ds) => DevicesFit(ds)'
           /\ \A hs : ServersFit(hs) => ServersFit(hs)'
           /\ ShellFits => ShellFits'
           /\ PortsKept => PortsKept'
BY DEF DevicesFit, ServersFit, ShellFits, PortsKept, Fits

\* A failing call is counted.
LEMMA Counted ==
    ASSUME TypeOK, failures' = failures + 1
    PROVE  failures' # 0
<1>1. failures \in 0..MaxFailures /\ MaxFailures \in Nat
  BY BoundAssumption DEF TypeOK
<1> QED BY <1>1

\* One REST call: it succeeds, or the run dies of one of the failures.
LEMMA CallEffect ==
    ASSUME TypeOK, NEW new, NEW next, NEW rest, Call(new, next, rest)
    PROVE  /\ UNCHANGED <<answers, live, arg, roster, planned, made, slips>>
           /\ \/ /\ cfg' = new /\ pc' = next /\ todo' = rest
                 /\ UNCHANGED <<outcome, disturbed, failures>>
              \/ /\ pc' = "idle" /\ outcome' = "died" /\ failures' # 0
                 /\ disturbed' = TRUE
BY Counted DEF Call, CallFails, Dies

\* An error status that is passed over is one of the failures.
LEMMA IgnoredEffect ==
    ASSUME TypeOK, NEW new, NEW next, NEW rest, Ignored(new, next, rest)
    PROVE  /\ UNCHANGED <<answers, live, arg, roster, planned, made, outcome,
                          slips, disturbed>>
           /\ cfg' = new /\ pc' = next /\ todo' = rest /\ failures' # 0
BY Counted DEF Ignored, Tolerated

\* Where the fingerprint is not spoken of.
Unsynced == {"folder", "netsim", "device", "list", "prune", "datasource",
             "bi_pack", "bi_service", "scan", "unrule", "unrule_listed",
             "delete", "delete_listed", "unport", "unfolder"} \cup AfterDevices

LEMMA UnsyncedStep ==
    ASSUME pc' \in Unsynced
    PROVE  Synced'
BY DEF Unsynced, Synced, AfterDevices

\* A run that died leaves nothing to be said.
LEMMA AfterDeath ==
    ASSUME pc' = "idle", failures' # 0, disturbed'
    PROVE  SiteParts'
BY DEF SiteParts, Repairing, Leftover, Synced, AfterDevices, Finishing

\* After a failure that was passed over it is said what the run has treated.
LEMMA AfterFailure ==
    ASSUME failures' # 0, pc' = "idle" \/ Repairing', Synced'
    PROVE  SiteParts'
<1>1. CASE pc' = "idle"
  BY <1>1 DEF SiteParts, Repairing, Leftover, AfterDevices, Finishing
<1>2. CASE Repairing'
  BY <1>2 DEF SiteParts, Leftover
<1> QED BY <1>1, <1>2

\* So only the call that succeeds has to be looked at.
LEMMA CallKeeps ==
    ASSUME TypeOK, NEW new, NEW next, NEW rest, Call(new, next, rest),
           (/\ cfg' = new /\ pc' = next /\ todo' = rest
            /\ UNCHANGED <<answers, live, arg, roster, planned, made, slips,
                           outcome, disturbed, failures>>) => SiteParts'
    PROVE  SiteParts'
<1>1. CASE /\ cfg' = new /\ pc' = next /\ todo' = rest
           /\ UNCHANGED <<outcome, disturbed, failures>>
  BY <1>1, CallEffect
<1>2. CASE /\ pc' = "idle" /\ outcome' = "died" /\ failures' # 0
           /\ disturbed' = TRUE
  BY <1>2, AfterDeath
<1> QED BY <1>1, <1>2, CallEffect

\* While setup() works, the shell's rules lie there with the shell.
LEMMA TiedKept ==
    ASSUME SiteInv, UNCHANGED failures, pc \notin Removing, pc' \notin Removing,
           Exists(cfg, Shell) => Exists(cfg', Shell),
           \/ cfg'.rules \cap ShellRules \subseteq cfg.rules
           \/ Exists(cfg', Shell)
    PROVE  Leftover'
<1>1. failures' = 0 => Tied
  BY DEF SiteInv, SiteParts, Leftover
<1>2. Tied => Tied'
  BY DEF Tied, Exists
<1> QED BY <1>1, <1>2 DEF Leftover, Removing

\* What fits goes on fitting when one other host is treated or deleted.
LEMMA OthersFit ==
    ASSUME NEW h \in AllHosts,
           \A g \in AllHosts \ {h} : cfg'.host[g] = cfg.host[g],
           cfg.rules \subseteq cfg'.rules, UNCHANGED <<arg, roster, made>>
    PROVE  /\ \A ds \in SUBSET (AllHosts \ {h}) :
                DevicesFit(ds) => DevicesFit(ds)'
           /\ \A hs \in SUBSET (AllHosts \ {h}) :
                ServersFit(hs) => ServersFit(hs)'
           /\ h # Shell /\ ShellFits => ShellFits'
           /\ PortsKept => PortsKept'
<1>1. Shell \in AllHosts
  BY DEF AllHosts
<1> QED BY <1>1 DEF DevicesFit, ServersFit, ShellFits, PortsKept, Fits

\* The parts of the invariant.
LEMMA SiteFacts ==
    ASSUME SiteInv
    PROVE  /\ TypeOK /\ cfg \in Configs /\ made \in SUBSET Devices
           /\ Created /\ Repairing /\ Leftover /\ Synced /\ Ended
           /\ pc \notin Removing \cup {"idle"} => roster \in SUBSET Servers
           /\ Devices \subseteq AllHosts \ {Shell}
           /\ Servers \subseteq AllHosts \ {Shell} /\ Shell \in AllHosts
           /\ Servers \cap Devices = {}
BY HostAssumption
   DEF SiteInv, SiteParts, ParentsInv, RosterRead, TypeOK, AllHosts

\* The folder comes first: nothing is treated.
LEMMA FolderKeeps ==
    ASSUME SiteInv, EnsureFolder
    PROVE  SiteParts'
<1> DEFINE new  == [cfg EXCEPT !.folder = TRUE]
           next == IF arg.snmp = "off" THEN "shell" ELSE "netsim"
<1>1. TypeOK /\ pc = "folder" /\ made = {} /\ Call(new, next, {})
  BY SiteFacts DEF EnsureFolder, Created
<1>2. new.host = cfg.host /\ new.rules = cfg.rules
  BY SiteFacts DEF Configs
<1>3. SUFFICES ASSUME cfg' = new, pc' = next,
                      UNCHANGED <<answers, live, arg, roster, planned, made,
                                  slips, outcome, disturbed, failures>>
               PROVE  SiteParts'
  BY <1>1, CallKeeps
<1>4. Repairing'
  BY <1>1, <1>3 DEF Repairing, DevicesFit, PortsKept, AfterDevices, Finishing
<1>5. Leftover'
  <2>1. Exists(cfg, Shell) => Exists(cfg', Shell)
    BY <1>2, <1>3 DEF Exists
  <2> QED BY <1>1, <1>2, <1>3, <2>1, TiedKept DEF Removing
<1>6. Synced'
  BY <1>1, <1>3, UnsyncedStep DEF Unsynced, AfterDevices
<1> QED BY <1>4, <1>5, <1>6 DEF SiteParts

\* The second look at the netsim panel is the first, as long as it stayed.
LEMMA NetsimKeeps ==
    ASSUME SiteInv, ReadNetsim
    PROVE  SiteParts'
<1>1. pc = "netsim" /\ made = {}
      /\ UNCHANGED <<answers, cfg, live, arg, roster, planned, failures>>
  BY SiteFacts DEF ReadNetsim, Created
<1>2. Leftover'
  <2>1. pc' \notin Removing
    BY DEF ReadNetsim, Dies, Removing
  <2> QED BY <1>1, <2>1, TiedKept DEF Exists, Removing
<1>3. CASE answers /\ made' = Devices /\ todo' = Devices /\ pc' = "device"
           /\ UNCHANGED <<outcome, disturbed>>
  <2>1. Repairing'
    BY <1>3 DEF Repairing, DevicesFit, AfterDevices, Finishing
  <2>2. Synced'
    BY <1>3, UnsyncedStep DEF Unsynced
  <2> QED BY <1>2, <2>1, <2>2 DEF SiteParts
<1>4. CASE Dies
  BY <1>2, <1>4 DEF SiteParts, Repairing, Synced, Dies, AfterDevices, Finishing
<1>5. CASE ~answers /\ arg.snmp = "auto" /\ pc' = "residual"
           /\ UNCHANGED <<made, todo, outcome, disturbed>>
  <2>1. Repairing'
    BY <1>1, <1>5
       DEF Repairing, DevicesFit, PortsKept, AfterDevices, Finishing
  <2>2. Synced'
    BY <1>5, UnsyncedStep DEF Unsynced, AfterDevices
  <2> QED BY <1>2, <2>1, <2>2 DEF SiteParts
<1> QED BY <1>3, <1>4, <1>5 DEF ReadNetsim

\* No host is refused, so ensure_host() makes its call.
LEMMA EnsureHostCalls ==
    ASSUME ParentsFirst', NEW h, NEW want, NEW next, NEW rest,
           EnsureHost(h, want, next, rest)
    PROVE  Call(Ensured(h, want), next, rest)
BY DEF EnsureHost, ParentsFirst

\* What ensure_host() leaves alone.
LEMMA EnsureHostKeeps ==
    ASSUME SiteInv, NEW h \in AllHosts, NEW want \in HostConfigs,
           want.agent # "absent", cfg' = Ensured(h, want), UNCHANGED failures,
           pc \notin Removing, pc' \notin Removing,
           UNCHANGED <<arg, roster, made>>
    PROVE  /\ Leftover' /\ Fits(cfg', h, want)
           /\ \A ds \in SUBSET (AllHosts \ {h}) :
                DevicesFit(ds) => DevicesFit(ds)'
           /\ \A hs \in SUBSET (AllHosts \ {h}) :
                ServersFit(hs) => ServersFit(hs)'
           /\ h # Shell /\ ShellFits => ShellFits'
           /\ PortsKept => PortsKept'
<1>1. /\ Fits(cfg', h, want) /\ cfg'.rules = cfg.rules
      /\ \A g \in AllHosts \ {h} : cfg'.host[g] = cfg.host[g]
  BY SiteFacts, EnsuredFits
<1>2. Leftover'
  <2>1. Exists(cfg, Shell) => Exists(cfg', Shell)
    BY SiteFacts, EnsuredExists
  <2> QED BY <1>1, <2>1, TiedKept
<1> HIDE DEF Leftover
<1> QED BY <1>1, <1>2, OthersFit

\* One more device fits.
LEMMA DeviceKeeps ==
    ASSUME SiteInv, ParentsFirst', NEW d \in Devices, EnsureDevice(d)
    PROVE  SiteParts'
<1> DEFINE want == DeviceConfig(d)
           next == IF todo = {d} THEN "snmp_ports" ELSE "device"
<1>1. /\ TypeOK /\ pc = "device" /\ d \in todo /\ made = Devices
      /\ todo \subseteq Devices /\ Call(Ensured(d, want), next, todo \ {d})
  BY SiteFacts, EnsureHostCalls DEF EnsureDevice, NextDevice, Created
<1>2. d \in AllHosts /\ want \in HostConfigs /\ want.agent # "absent"
  BY WantedTypes DEF AllHosts, DeviceConfig
<1>3. SUFFICES ASSUME cfg' = Ensured(d, want), pc' = next, todo' = todo \ {d},
                      UNCHANGED <<answers, live, arg, roster, planned, made,
                                  slips, outcome, disturbed, failures>>
               PROVE  SiteParts'
  BY <1>1, CallKeeps
<1>4. pc \notin Removing /\ pc' \notin Removing
  BY <1>1, <1>3 DEF Removing
<1> HIDE DEF want
<1>5. Leftover' /\ Fits(cfg', d, want)
      /\ (DevicesFit(Devices \ todo) => \A g \in Devices \ todo :
            Fits(cfg', g, DeviceConfig(g)))
  <2>1. Devices \ todo \in SUBSET (AllHosts \ {d})
    BY <1>1 DEF AllHosts
  <2> QED BY <1>2, <1>3, <1>4, <2>1, EnsureHostKeeps DEF DevicesFit
<1>6. \A g \in Devices \ (todo \ {d}) : Fits(cfg', g, DeviceConfig(g))
  BY <1>1, <1>5, SiteFacts DEF Repairing, want
<1>7. Repairing'
  <2>1. CASE todo = {d}
    BY <1>1, <1>3, <1>6, <2>1 DEF Repairing, DevicesFit, AfterDevices, Finishing
  <2>2. CASE todo # {d}
    BY <1>1, <1>3, <1>6, <2>2 DEF Repairing, DevicesFit, AfterDevices, Finishing
  <2> QED BY <2>1, <2>2
<1>8. Synced'
  BY <1>3, UnsyncedStep DEF Unsynced, AfterDevices
<1> QED BY <1>5, <1>7, <1>8 DEF SiteParts

\* The two rules before the shell.
LEMMA DeviceRulesKeep ==
    ASSUME SiteInv, EnsureSnmpPorts \/ EnsureResidual
    PROVE  SiteParts'
<1>1. ASSUME NEW rule \in Rules \ ShellRules, NEW next \in {"residual", "shell"},
             pc \in AfterDevices, Ensure(rule, next),
             rule = "snmp_ports" \/ pc # "snmp_ports"
      PROVE  SiteParts'
  <2> DEFINE new == [cfg EXCEPT !.rules = @ \cup {rule}]
  <2>1. TypeOK /\ Call(new, next, {})
    BY <1>1, SiteFacts DEF Ensure
  <2>2. new.host = cfg.host /\ new.rules = cfg.rules \cup {rule}
    BY SiteFacts DEF Configs
  <2>3. SUFFICES ASSUME cfg' = new, pc' = next,
                        UNCHANGED <<answers, live, arg, roster, planned, made,
                                    slips, outcome, disturbed, failures>>
                 PROVE  SiteParts'
    BY <2>1, CallKeeps
  <2> HIDE DEF new
  <2>4. (DevicesFit(made) => DevicesFit(made)') /\ (PortsKept => PortsKept')
    BY <2>2, <2>3 DEF DevicesFit, PortsKept, Fits
  <2>5. PortsKept'
    BY <1>1, <2>2, <2>3, <2>4, SiteFacts DEF Repairing, PortsKept, AfterDevices
  <2>6. Repairing'
    BY <1>1, <2>3, <2>4, <2>5, SiteFacts DEF Repairing, AfterDevices, Finishing
  <2>7. Leftover'
    <3>1. Exists(cfg, Shell) => Exists(cfg', Shell)
      BY <2>2, <2>3 DEF Exists
    <3>2. cfg'.rules \cap ShellRules \subseteq cfg.rules
      BY <2>2, <2>3
    <3> QED BY <1>1, <2>3, <3>1, <3>2, TiedKept DEF Removing, AfterDevices
  <2>8. Synced'
    BY <1>1, <2>3, UnsyncedStep DEF Unsynced, AfterDevices
  <2> QED BY <2>6, <2>7, <2>8 DEF SiteParts
<1>2. CASE EnsureSnmpPorts
  BY <1>1, <1>2 DEF EnsureSnmpPorts, Rules, ShellRules, AfterDevices
<1>3. CASE EnsureResidual
  BY <1>1, <1>3 DEF EnsureResidual, Rules, ShellRules, AfterDevices
<1> QED BY <1>2, <1>3

\* The shell fits.
LEMMA ShellKeeps ==
    ASSUME SiteInv, ParentsFirst', EnsureShell
    PROVE  SiteParts'
<1> DEFINE want == ShellConfig(arg.mode, made)
           next == IF arg.mode = "cloud" THEN "agent_ports"
                   ELSE IF roster = {} THEN "list" ELSE "server"
<1>1. /\ TypeOK /\ pc = "shell" /\ made \in SUBSET (AllHosts \ {Shell})
      /\ Shell \in AllHosts /\ Call(Ensured(Shell, want), next, roster)
  BY SiteFacts, EnsureHostCalls DEF EnsureShell
<1>2. want \in HostConfigs /\ want.agent # "absent"
  BY WantedTypes DEF ShellConfig
<1>3. SUFFICES ASSUME cfg' = Ensured(Shell, want), pc' = next, todo' = roster,
                      UNCHANGED <<answers, live, arg, roster, planned, made,
                                  slips, outcome, disturbed, failures>>
               PROVE  SiteParts'
  BY <1>1, CallKeeps
<1>4. /\ pc \notin Removing /\ pc' \in {"agent_ports", "list", "server"}
      /\ pc' = "list" => roster = {}
  BY <1>1, <1>3 DEF Removing
<1> HIDE DEF want, next
<1>5. Leftover' /\ Fits(cfg', Shell, want)
      /\ (DevicesFit(made) => \A d \in made : Fits(cfg', d, DeviceConfig(d)))
      /\ (PortsKept => PortsKept')
  BY <1>1, <1>2, <1>3, <1>4, EnsureHostKeeps DEF DevicesFit, Removing
<1>6. DevicesFit(made) /\ PortsKept
  BY <1>1, SiteFacts DEF Repairing, AfterDevices
<1>7. DevicesFit(made)' /\ PortsKept' /\ ShellFits'
  BY <1>3, <1>5, <1>6 DEF DevicesFit, ShellFits, want
<1>8. Repairing'
  <2>1. ServersFit({})'
    BY DEF ServersFit
  <2>2. pc' = "server" => ServersFit(roster \ todo)'
    BY <1>3 DEF ServersFit
  <2>3. pc' \in Finishing => ServersFit(roster)'
    BY <1>3, <1>4 DEF ServersFit, Finishing
  <2> QED BY <1>4, <1>7, <2>2, <2>3 DEF Repairing
<1>9. Synced'
  BY <1>3, <1>4, UnsyncedStep DEF Unsynced, AfterDevices
<1> QED BY <1>5, <1>8, <1>9 DEF SiteParts

\* The rule for the shell's ports lies there with the shell.
LEMMA AgentPortsKeeps ==
    ASSUME SiteInv, EnsureAgentPorts
    PROVE  SiteParts'
<1> DEFINE new  == [cfg EXCEPT !.rules = @ \cup {"agent_ports"}]
           next == IF roster = {} THEN "list" ELSE "server"
<1>1. TypeOK /\ pc = "agent_ports" /\ Call(new, next, roster)
  BY SiteFacts DEF EnsureAgentPorts
<1>2. new.host = cfg.host /\ new.rules = cfg.rules \cup {"agent_ports"}
  BY SiteFacts DEF Configs
<1>3. SUFFICES ASSUME cfg' = new, pc' = next, todo' = roster,
                      UNCHANGED <<answers, live, arg, roster, planned, made,
                                  slips, outcome, disturbed, failures>>
               PROVE  SiteParts'
  BY <1>1, CallKeeps
<1>4. pc' \in {"list", "server"} /\ (pc' = "list" => roster = {})
  BY <1>3
<1> HIDE DEF new, next
<1>5. DevicesFit(made) /\ PortsKept /\ ShellFits
  BY <1>1, SiteFacts DEF Repairing, AfterDevices
<1>6. DevicesFit(made)' /\ PortsKept' /\ ShellFits'
  BY <1>2, <1>3, <1>5 DEF DevicesFit, PortsKept, ShellFits, Fits
<1>7. Repairing'
  <2>1. pc' = "server" => ServersFit(roster \ todo)'
    BY <1>3 DEF ServersFit
  <2>2. pc' \in Finishing => ServersFit(roster)'
    BY <1>3, <1>4 DEF ServersFit, Finishing
  <2> QED BY <1>4, <1>6, <2>1, <2>2 DEF Repairing
<1>8. Leftover'
  <2>1. Exists(cfg', Shell)
    BY <1>2, <1>3, <1>5, ShellFitsExists DEF Exists
  <2> QED BY <1>1, <1>3, <1>4, <2>1, TiedKept DEF Removing
<1>9. Synced'
  BY <1>3, <1>4, UnsyncedStep DEF Unsynced, AfterDevices
<1> QED BY <1>7, <1>8, <1>9 DEF SiteParts

\* One more server fits.
LEMMA ServerKeeps ==
    ASSUME SiteInv, ParentsFirst', NEW h \in Servers, EnsureServer(h)
    PROVE  SiteParts'
<1> DEFINE want == ServerConfig(h, arg.mode, roster, made)
           next == IF todo = {h} THEN "list" ELSE "server"
<1>1. /\ TypeOK /\ pc = "server" /\ h \in todo /\ todo \subseteq roster
      /\ Call(Ensured(h, want), next, todo \ {h})
  BY SiteFacts, EnsureHostCalls DEF EnsureServer, NextServer, Created
<1>2. /\ h \in AllHosts /\ h # Shell /\ want \in HostConfigs
      /\ want.agent # "absent"
  BY SiteFacts, WantedTypes DEF ServerConfig
<1>3. SUFFICES ASSUME cfg' = Ensured(h, want), pc' = next, todo' = todo \ {h},
                      UNCHANGED <<answers, live, arg, roster, planned, made,
                                  slips, outcome, disturbed, failures>>
               PROVE  SiteParts'
  BY <1>1, CallKeeps
<1>4. /\ pc \notin Removing /\ pc' \in {"list", "server"}
      /\ pc' = "list" => todo = {h}
  BY <1>1, <1>3 DEF Removing
<1>5. made \in SUBSET (AllHosts \ {h}) /\ roster \ todo \in SUBSET (AllHosts \ {h})
  BY <1>1, SiteFacts DEF Removing
<1> HIDE DEF want, next
<1>6. /\ Leftover' /\ Fits(cfg', h, want)
      /\ DevicesFit(made) => \A d \in made : Fits(cfg', d, DeviceConfig(d))
      /\ ServersFit(roster \ todo) => \A g \in roster \ todo :
           Fits(cfg', g, ServerConfig(g, arg.mode, roster, made))
      /\ ShellFits => ShellFits'
      /\ PortsKept => PortsKept'
  <2>1. pc' \notin Removing
    BY <1>4 DEF Removing
  <2>2. /\ Leftover' /\ Fits(cfg', h, want)
        /\ \A ds \in SUBSET (AllHosts \ {h}) : DevicesFit(ds) => DevicesFit(ds)'
        /\ \A hs \in SUBSET (AllHosts \ {h}) : ServersFit(hs) => ServersFit(hs)'
        /\ ShellFits => ShellFits'
        /\ PortsKept => PortsKept'
    BY <1>2, <1>3, <1>4, <2>1, EnsureHostKeeps
  <2>3. DevicesFit(made) => \A d \in made : Fits(cfg', d, DeviceConfig(d))
    BY <1>5, <2>2 DEF DevicesFit
  <2>4. ServersFit(roster \ todo) => \A g \in roster \ todo :
          Fits(cfg', g, ServerConfig(g, arg.mode, roster, made))
    BY <1>3, <1>5, <2>2 DEF ServersFit
  <2> QED BY <2>2, <2>3, <2>4
<1>7. DevicesFit(made) /\ PortsKept /\ ShellFits /\ ServersFit(roster \ todo)
  BY <1>1, SiteFacts DEF Repairing, AfterDevices
<1>8. DevicesFit(made)' /\ PortsKept' /\ ShellFits'
  BY <1>3, <1>6, <1>7 DEF DevicesFit
<1>9. \A g \in roster \ (todo \ {h}) :
        Fits(cfg', g, ServerConfig(g, arg.mode, roster, made))
  BY <1>6, <1>7 DEF want
<1>10. Repairing'
  <2>1. pc' = "server" => ServersFit(roster \ todo)'
    BY <1>3, <1>9 DEF ServersFit
  <2>2. pc' \in Finishing => ServersFit(roster)'
    BY <1>3, <1>4, <1>9 DEF ServersFit, Finishing
  <2> QED BY <1>4, <1>8, <2>1, <2>2 DEF Repairing
<1>11. Synced'
  BY <1>3, <1>4, UnsyncedStep DEF Unsynced, AfterDevices
<1> QED BY <1>6, <1>10, <1>11 DEF SiteParts

\* After the last host everything fits, and stays so while the hosts stay.
LEMMA FinishingFits ==
    ASSUME SiteInv, pc \in Finishing, cfg'.host = cfg.host,
           cfg.rules \subseteq cfg'.rules, UNCHANGED <<arg, roster, made>>,
           pc' \in Finishing,
           pc' = "prune" => todo' \cap ({Shell} \cup roster \cup made) = {}
    PROVE  Repairing'
<1>1. DevicesFit(made) /\ PortsKept /\ ShellFits /\ ServersFit(roster)
  BY SiteFacts DEF Repairing
<1>2. DevicesFit(made)' /\ PortsKept' /\ ShellFits' /\ ServersFit(roster)'
  BY <1>1 DEF DevicesFit, PortsKept, ShellFits, ServersFit, Fits
<1> QED BY <1>2 DEF Repairing, AfterDevices, Finishing

\* Which is what a fingerprint stands for.
LEMMA FinishingCovers ==
    ASSUME SiteInv, pc \in Finishing
    PROVE  Covers(cfg, arg.mode, roster, made) /\ PortsKept
BY SiteFacts
   DEF Repairing, DevicesFit, ShellFits, ServersFit, Fits, Covers

\* One call of a step after the last host.
LEMMA FinishingCall ==
    ASSUME SiteInv, pc \in Finishing, NEW new \in Configs, NEW rest,
           NEW next \in Finishing \ {"prune", "activate2"},
           Call(new, next, rest), new.host = cfg.host,
           cfg.rules \subseteq new.rules,
           next \in {"bulk", "discover"} =>
             (roster \cup made) \ rest \subseteq new.monitored \cup missed,
           next \in {"activate", "rescan", "stamp"} =>
             roster \cup made \subseteq new.monitored \cup missed
    PROVE  SiteParts'
<1>1. SUFFICES ASSUME cfg' = new, pc' = next, todo' = rest,
                      UNCHANGED <<answers, live, arg, roster, planned, made,
                                  slips, outcome, disturbed, failures>>
               PROVE  SiteParts'
  BY SiteFacts, CallKeeps
<1>2. Repairing'
  BY <1>1, FinishingFits DEF Finishing
<1>3. Leftover'
  <2>1. ShellFits
    BY SiteFacts DEF Repairing
  <2>2. Exists(cfg', Shell)
    BY <1>1, <2>1, ShellFitsExists DEF Exists
  <2> QED BY <1>1, <2>2, TiedKept DEF Removing, Finishing
<1>4. Synced'
  BY <1>1 DEF Synced, Finishing
<1> QED BY <1>2, <1>3, <1>4 DEF SiteParts

\* The list of the hosts to prune has none of those that the run treated.
LEMMA ListKeeps ==
    ASSUME SiteInv, ListStale
    PROVE  SiteParts'
<1> DEFINE stale == {h \in AllHosts \ ({Shell} \cup roster \cup made) :
                       Exists(cfg, h)}
           next  == IF stale = {} THEN Pruned ELSE "prune"
<1>1. TypeOK /\ pc = "list" /\ Pruned \in {"datasource", "bi_pack"}
  BY SiteFacts DEF ListStale, Pruned
<1>2. next \in {"prune", "datasource", "bi_pack"}
      /\ stale \cap ({Shell} \cup roster \cup made) = {}
  BY <1>1
<1>3. Call(cfg, next, stale) \/ Ignored(cfg, Pruned, {})
  BY DEF ListStale
<1> HIDE DEF stale, next
<1>4. ASSUME cfg' = cfg, UNCHANGED <<arg, roster, made>>,
             pc' \in {"prune", "datasource", "bi_pack"},
             pc' = "prune" => todo' = stale
      PROVE  Repairing'
  BY <1>1, <1>2, <1>4, FinishingFits DEF Finishing
<1>5. CASE Call(cfg, next, stale)
  <2>1. SUFFICES ASSUME cfg' = cfg, pc' = next, todo' = stale,
                        UNCHANGED <<answers, live, arg, roster, planned, made,
                                    slips, outcome, disturbed, failures>>
                 PROVE  SiteParts'
    BY <1>1, <1>5, CallKeeps
  <2>2. Repairing'
    BY <1>2, <1>4, <2>1
  <2>3. Leftover'
    BY <1>1, <1>2, <2>1, TiedKept DEF Exists, Removing
  <2>4. Synced'
    BY <1>1, <1>2, <2>1, UnsyncedStep DEF Unsynced, AfterDevices
  <2> QED BY <2>2, <2>3, <2>4 DEF SiteParts
<1>6. CASE Ignored(cfg, Pruned, {})
  <2>1. /\ cfg' = cfg /\ UNCHANGED <<arg, roster, made>>
        /\ pc' = Pruned /\ failures' # 0
    BY <1>1, <1>6, IgnoredEffect
  <2>2. Repairing'
    BY <1>1, <1>4, <2>1
  <2>3. Synced'
    BY <1>1, <2>1, UnsyncedStep DEF Unsynced
  <2> QED BY <2>1, <2>2, <2>3, AfterFailure
<1> QED BY <1>3, <1>5, <1>6

\* What Without() leaves alone.
LEMMA WithoutKeeps ==
    ASSUME NEW c \in Configs, NEW h \in AllHosts
    PROVE  /\ \A g \in AllHosts \ {h} : Without(c, h).host[g] = c.host[g]
           /\ Without(c, h).rules = c.rules
<1>1. CASE Children(c, h) # {}
  BY <1>1 DEF Without
<1>2. CASE Children(c, h) = {}
  <2>1. Without(c, h) = [c EXCEPT !.host[h] = Absent, !.monitored = @ \ {h},
                                  !.stamp = IF h = Shell THEN NoPlan ELSE @]
    BY <1>2 DEF Without
  <2> QED BY <2>1 DEF Configs
<1> QED BY <1>1, <1>2

\* Pruning leaves alone what the run has treated.
LEMMA PruneKeeps ==
    ASSUME SiteInv, NEW h \in AllHosts, Prune(h)
    PROVE  SiteParts'
<1> DEFINE left == todo \ {h}
           next == IF left = {} THEN Pruned ELSE "prune"
<1>1. /\ TypeOK /\ pc = "prune" /\ h \in todo
      /\ todo \cap ({Shell} \cup roster \cup made) = {}
      /\ Pruned \in {"datasource", "bi_pack"}
  BY SiteFacts DEF Prune, Pruned, Repairing
<1>2. next \in {"prune", "datasource", "bi_pack"}
  BY <1>1
<1>3. /\ \A g \in AllHosts \ {h} : Without(cfg, h).host[g] = cfg.host[g]
      /\ Without(cfg, h).rules = cfg.rules
  BY SiteFacts, WithoutKeeps
<1>4. Call(Without(cfg, h), next, left) \/ Ignored(cfg, next, left)
  BY DEF Prune, PruneHost
<1>5. made \in SUBSET (AllHosts \ {h}) /\ roster \in SUBSET (AllHosts \ {h})
      /\ h # Shell
  BY <1>1, SiteFacts DEF TypeOK
<1>6. DevicesFit(made) /\ PortsKept /\ ShellFits /\ ServersFit(roster)
  BY <1>1, SiteFacts DEF Repairing, Finishing
<1> HIDE DEF next
<1>7. ASSUME cfg' = Without(cfg, h), UNCHANGED <<arg, roster, made>>,
             pc' = next, todo' = left
      PROVE  Repairing'
  <2>1. DevicesFit(made)' /\ PortsKept' /\ ShellFits' /\ ServersFit(roster)'
    <3>1. /\ \A ds \in SUBSET (AllHosts \ {h}) :
               DevicesFit(ds) => DevicesFit(ds)'
          /\ \A hs \in SUBSET (AllHosts \ {h}) :
               ServersFit(hs) => ServersFit(hs)'
          /\ ShellFits => ShellFits'
          /\ PortsKept => PortsKept'
      BY <1>3, <1>5, <1>7, OthersFit
    <3>2. DevicesFit(made)'
      BY <1>5, <1>6, <1>7, <3>1 DEF DevicesFit
    <3>3. ServersFit(roster)'
      BY <1>5, <1>6, <1>7, <3>1 DEF ServersFit
    <3> QED BY <1>6, <3>1, <3>2, <3>3
  <2>2. todo' \cap ({Shell} \cup roster' \cup made') = {}
    BY <1>1, <1>7
  <2> QED BY <1>2, <1>7, <2>1, <2>2 DEF Repairing, AfterDevices, Finishing
<1>8. CASE Call(Without(cfg, h), next, left)
  <2>1. SUFFICES ASSUME cfg' = Without(cfg, h), pc' = next, todo' = left,
                        UNCHANGED <<answers, live, arg, roster, planned, made,
                                    slips, outcome, disturbed, failures>>
                 PROVE  SiteParts'
    BY <1>1, <1>8, CallKeeps
  <2>2. Repairing'
    BY <1>7, <2>1
  <2>3. Leftover'
    <3>1. Exists(cfg, Shell) => Exists(cfg', Shell)
      BY <1>3, <1>5, <2>1, SiteFacts DEF Exists
    <3> QED BY <1>1, <1>2, <1>3, <2>1, <3>1, TiedKept DEF Removing
  <2>4. Synced'
    BY <1>1, <1>2, <2>1, UnsyncedStep DEF Unsynced, AfterDevices
  <2> QED BY <2>2, <2>3, <2>4 DEF SiteParts
<1>9. CASE Ignored(cfg, next, left)
  <2>1. /\ cfg' = cfg /\ UNCHANGED <<arg, roster, made>>
        /\ pc' = next /\ todo' = left /\ failures' # 0
    BY <1>1, <1>9, IgnoredEffect
  <2>2. Repairing'
    BY <1>1, <1>2, <2>1, FinishingFits DEF Finishing
  <2>3. Synced'
    BY <1>2, <2>1, UnsyncedStep DEF Unsynced
  <2> QED BY <2>1, <2>2, <2>3, AfterFailure
<1> QED BY <1>4, <1>8, <1>9

\* The last rules and the discovery.
LEMMA DiscoveryKeeps ==
    ASSUME SiteInv,
           \/ EnsureDatasource \/ EnsureBiPack \/ EnsureBiService
           \/ ScanShell \/ \E h \in AllHosts : Discover(h)
    PROVE  SiteParts'
<1> USE DEF Finishing
<1>0. TypeOK /\ cfg \in Configs /\ made \in SUBSET Devices
  BY SiteFacts
<1>1. ASSUME NEW rule \in Rules, NEW next \in {"bi_pack", "bi_service", "scan"},
             pc \in Finishing, Ensure(rule, next)
      PROVE  SiteParts'
  <2> DEFINE new == [cfg EXCEPT !.rules = @ \cup {rule}]
  <2>1. /\ new \in Configs /\ new.host = cfg.host
        /\ cfg.rules \subseteq new.rules
    BY <1>0 DEF Configs
  <2>2. Call(new, next, {})
    BY <1>1 DEF Ensure
  <2> HIDE DEF new
  <2> QED BY <1>1, <2>1, <2>2, FinishingCall
<1>2. CASE EnsureDatasource
  BY <1>1, <1>2 DEF EnsureDatasource, Rules
<1>3. CASE EnsureBiPack
  BY <1>1, <1>3 DEF EnsureBiPack, Rules
<1>4. CASE EnsureBiService
  BY <1>1, <1>4 DEF EnsureBiService, Rules
<1>5. CASE ScanShell
  <2> DEFINE new  == [cfg EXCEPT !.monitored = @ \cup {Shell}]
             rest == {h \in roster \cup made : arg.force \/ h \notin cfg.monitored}
             next == IF rest = {} THEN "activate"
                     ELSE IF Cardinality(rest) >= BulkSize THEN "bulk"
                     ELSE "discover"
  <2>1. /\ new \in Configs /\ new.host = cfg.host /\ new.rules = cfg.rules
        /\ new.monitored = cfg.monitored \cup {Shell}
    BY <1>0 DEF Configs, AllHosts
  <2>2. pc = "scan" /\ Call(new, next, rest)
    BY <1>5 DEF ScanShell
  <2>3. (roster \cup made) \ rest \subseteq cfg.monitored
    OBVIOUS
  <2>4. /\ next \in {"bulk", "discover", "activate"}
        /\ next = "activate" => rest = {}
    OBVIOUS
  <2> HIDE DEF new, rest, next
  <2> QED BY <2>1, <2>2, <2>3, <2>4, FinishingCall
<1>6. ASSUME NEW h \in AllHosts, Discover(h) PROVE SiteParts'
  <2> DEFINE new  == [cfg EXCEPT !.monitored = @ \cup {h}]
             rest == todo \ {h}
             next == IF todo = {h} THEN "activate" ELSE "discover"
  <2>1. /\ new \in Configs /\ new.host = cfg.host /\ new.rules = cfg.rules
        /\ new.monitored = cfg.monitored \cup {h}
    BY <1>0 DEF Configs
  <2>2. pc = "discover" /\ h \in todo /\ Call(new, next, rest)
    BY <1>6 DEF Discover
  <2>3. /\ next \in {"discover", "activate"}
        /\ next = "activate" => todo = {h}
    OBVIOUS
  <2>4. (roster \cup made) \ todo \subseteq cfg.monitored \cup missed
    BY <2>2, SiteFacts DEF Synced
  <2> HIDE DEF new, next
  <2> QED BY <2>1, <2>2, <2>3, <2>4, FinishingCall
<1> QED BY <1>0, <1>2, <1>3, <1>4, <1>5, <1>6

\* The bulk job treats all that are left, unless some of them fail.
LEMMA BulkKeeps ==
    ASSUME SiteInv, BulkDiscover
    PROVE  SiteParts'
<1> USE DEF Finishing
<1>1. TypeOK /\ cfg \in Configs /\ pc = "bulk" /\ todo \in SUBSET AllHosts
  BY SiteFacts DEF BulkDiscover, TypeOK
<1>2. ASSUME NEW some \in SUBSET todo
      PROVE  LET new == [cfg EXCEPT !.monitored = @ \cup some]
             IN  /\ new \in Configs /\ new.host = cfg.host
                 /\ new.rules = cfg.rules
                 /\ new.monitored = cfg.monitored \cup some
  BY <1>1 DEF Configs
<1>3. CASE Call([cfg EXCEPT !.monitored = @ \cup todo], "activate", {})
  <2> DEFINE new == [cfg EXCEPT !.monitored = @ \cup todo]
  <2>1. /\ new \in Configs /\ new.host = cfg.host /\ new.rules = cfg.rules
        /\ new.monitored = cfg.monitored \cup todo
    BY <1>2
  <2>2. (roster \cup made) \ todo \subseteq cfg.monitored \cup missed
    BY <1>1, SiteFacts DEF Synced
  <2>3. Call(new, "activate", {})
    BY <1>3
  <2> HIDE DEF new
  <2> QED BY <1>1, <2>1, <2>2, <2>3, FinishingCall
<1>4. ASSUME NEW some \in SUBSET todo,
             Tolerated([cfg EXCEPT !.monitored = @ \cup some], "activate", {}),
             missed' = missed \cup (todo \ some)
      PROVE  SiteParts'
  <2>1. /\ cfg' = [cfg EXCEPT !.monitored = @ \cup some]
        /\ UNCHANGED <<arg, roster, made>> /\ pc' = "activate" /\ failures' # 0
    BY <1>1, <1>4, Counted DEF Tolerated
  <2>2. /\ cfg'.host = cfg.host /\ cfg'.rules = cfg.rules
        /\ cfg'.monitored = cfg.monitored \cup some
    BY <1>2, <2>1
  <2>3. Repairing'
    BY <1>1, <2>1, <2>2, FinishingFits
  <2>4. roster' \cup made' \subseteq cfg'.monitored \cup missed'
    <3>1. (roster \cup made) \ todo \subseteq cfg.monitored \cup missed
      BY <1>1, SiteFacts DEF Synced
    <3> QED BY <1>4, <2>1, <2>2, <3>1
  <2>5. Synced'
    BY <2>1, <2>4 DEF Synced
  <2> QED BY <2>1, <2>3, <2>5, AfterFailure
<1> QED BY <1>3, <1>4 DEF BulkDiscover

\* An activation: done, or one of the failures.
LEMMA ActivationEffect ==
    ASSUME TypeOK, NEW next, NEW ended, NEW late, Activation(next, ended, late)
    PROVE  /\ UNCHANGED <<answers, cfg, arg, roster, planned, made, missed>>
           /\ \/ /\ live' = cfg /\ pc' = next /\ outcome' = ended
                 /\ activated' = TRUE /\ UNCHANGED <<disturbed, failures>>
              \/ /\ pc' = next /\ outcome' = late /\ failures' # 0
                 /\ activated' = FALSE /\ UNCHANGED disturbed
              \/ /\ pc' = "idle" /\ outcome' = "died" /\ failures' # 0
                 /\ activated' = FALSE
                 /\ disturbed' = (disturbed \/ next # "idle")
BY Counted DEF Activation

\* The first activation, the second discovery and the fingerprint.
LEMMA ActivateKeeps ==
    ASSUME SiteInv, Activate \/ Rescan \/ WriteFingerprint
    PROVE  SiteParts'
<1> USE DEF Finishing
<1>0. TypeOK /\ cfg \in Configs /\ made \in SUBSET Devices
  BY SiteFacts
<1>1. CASE Activate
  <2>1. pc = "activate" /\ Activation("rescan", "running", "running")
    BY <1>1 DEF Activate
  <2>2. /\ UNCHANGED <<cfg, arg, roster, planned, made, missed>>
        /\ \/ pc' = "rescan" /\ UNCHANGED failures
           \/ pc' = "rescan" /\ failures' # 0
           \/ pc' = "idle" /\ failures' # 0 /\ disturbed'
    BY <1>0, <2>1, ActivationEffect
  <2>3. CASE pc' = "idle" /\ failures' # 0 /\ disturbed'
    BY <2>3, AfterDeath
  <2>4. CASE pc' = "rescan"
    <3>1. Repairing'
      BY <2>1, <2>2, <2>4, FinishingFits
    <3>2. roster \cup made \subseteq cfg.monitored \cup missed
      BY <2>1, SiteFacts DEF Synced
    <3>3. Synced'
      BY <2>2, <2>4, <3>2 DEF Synced
    <3>4. CASE UNCHANGED failures
      <4>1. Leftover'
        BY <2>1, <2>2, <2>4, <3>4, TiedKept DEF Exists, Removing
      <4> QED BY <3>1, <3>3, <4>1 DEF SiteParts
    <3> QED BY <2>2, <2>4, <3>1, <3>3, <3>4, AfterFailure
  <2> QED BY <2>2, <2>3, <2>4
<1>2. CASE Rescan
  <2>1. pc = "rescan" /\ Call(cfg, "stamp", {})
    BY <1>2 DEF Rescan
  <2>2. roster \cup made \subseteq cfg.monitored \cup missed
    BY <2>1, SiteFacts DEF Synced
  <2> QED BY <1>0, <2>1, <2>2, FinishingCall
<1>3. CASE WriteFingerprint
  <2> DEFINE new == [cfg EXCEPT !.stamp = PlanOf(arg.mode, roster, planned)]
  <2>1. /\ pc = "stamp" /\ UNCHANGED <<arg, roster, planned, made, missed>>
        /\ \/ /\ cfg' = new /\ pc' = "activate2"
              /\ disturbed' = (planned # made) /\ UNCHANGED failures
           \/ CallFails(new)
    BY <1>3 DEF WriteFingerprint
  <2>2. CASE CallFails(new)
    <3>1. pc' = "idle" /\ failures' # 0 /\ disturbed'
      BY <1>0, <2>2, Counted DEF CallFails, Dies
    <3> QED BY <3>1, AfterDeath
  <2>3. CASE /\ cfg' = new /\ pc' = "activate2"
             /\ disturbed' = (planned # made) /\ UNCHANGED failures
    <3>1. /\ new.host = cfg.host /\ new.rules = cfg.rules
          /\ new.monitored = cfg.monitored
          /\ new.stamp = PlanOf(arg.mode, roster, planned)
      BY <1>0 DEF Configs
    <3>2. Repairing'
      BY <2>1, <2>3, <3>1, FinishingFits
    <3>3. Leftover'
      <4>1. ShellFits
        BY <2>1, SiteFacts DEF Repairing
      <4>2. Exists(cfg', Shell)
        BY <2>3, <3>1, <4>1, ShellFitsExists DEF Exists
      <4> QED BY <2>1, <2>3, <4>2, TiedKept DEF Removing
    <3>4. roster \cup made \subseteq cfg.monitored \cup missed
      BY <2>1, SiteFacts DEF Synced
    <3>5. Synced'
      BY <2>1, <2>3, <3>1, <3>4 DEF Synced, PlanOf
    <3> QED BY <3>2, <3>3, <3>5 DEF SiteParts
  <2> QED BY <2>1, <2>2, <2>3
<1> QED BY <1>1, <1>2, <1>3

\* setup() has come to its end: the site is active, and has what the
\* fingerprint stands for.
LEMMA FinishKeeps ==
    ASSUME SiteInv, Finish
    PROVE  /\ SiteParts' /\ Ended' /\ RerunRepairs' /\ InSync'
           /\ RemovalComplete'
<1>1. TypeOK /\ pc = "activate2" /\ Activation("idle", "done", "late")
  BY SiteFacts DEF Finish
<1>2. /\ UNCHANGED <<cfg, arg, roster, planned, made, missed, disturbed>>
      /\ pc' = "idle"
      /\ \/ /\ live' = cfg /\ outcome' = "done" /\ UNCHANGED failures
         \/ /\ outcome' \in {"late", "died"} /\ failures' # 0
            /\ activated' = FALSE
  <2>1. disturbed \in BOOLEAN
    BY <1>1 DEF TypeOK
  <2> QED BY <1>1, <2>1, ActivationEffect
<1>3. Covers(cfg, arg.mode, roster, made) /\ PortsKept
  BY <1>1, FinishingCovers DEF Finishing
<1>4. Ended' /\ InSync' /\ RemovalComplete'
  BY <1>2 DEF Ended, InSync, RemovalComplete
<1>5. RerunRepairs'
  BY <1>2, <1>3 DEF RerunRepairs, PortsKept, Covers
<1>6. ASSUME ~disturbed
      PROVE  Kept(cfg, cfg.stamp)
  <2>1. /\ planned = made /\ roster \cup made \subseteq cfg.monitored \cup missed
        /\ cfg.stamp = PlanOf(arg.mode, roster, planned)
    BY <1>1, <1>6, SiteFacts DEF Synced
  <2>2. /\ cfg.stamp.mode = arg.mode /\ cfg.stamp.hosts = roster
        /\ cfg.stamp.devices = made
    BY <2>1 DEF PlanOf
  <2> QED BY <1>3, <2>1, <2>2 DEF Kept
<1>7. ~disturbed' => Kept(cfg, cfg.stamp)'
  BY <1>2, <1>6 DEF Kept, Covers
<1>8. Synced'
  BY <1>2, <1>7 DEF Synced
<1>9. SiteParts'
  <2>1. CASE failures' # 0
    BY <1>2, <1>8, <2>1, AfterFailure
  <2>2. CASE UNCHANGED failures
    <3>1. Repairing'
      BY <1>2 DEF Repairing, AfterDevices, Finishing
    <3>2. Leftover'
      BY <1>1, <1>2, <2>2, TiedKept DEF Exists, Removing
    <3> QED BY <1>8, <3>1, <3>2 DEF SiteParts
  <2> QED BY <1>2, <2>1, <2>2
<1> QED BY <1>4, <1>5, <1>9

\* A run of setup() begins: with the fingerprint of its plan at the site it ends
\* at once, and what it would have done is there.
LEMMA BeginKeeps ==
    ASSUME SiteInv, NEW a \in Args, Begin(a)
    PROVE  /\ SiteParts' /\ Ended' /\ RerunRepairs' /\ InSync'
           /\ RemovalComplete'
<1> DEFINE plan  == IF a.snmp # "off" /\ answers THEN Devices ELSE {}
           stamp == PlanOf(a.mode, carried, plan)
<1>1. /\ pc = "idle" /\ arg' = a /\ roster' = carried /\ planned' = plan
      /\ UNCHANGED <<answers, cfg, live, disturbed, activated, failures>>
      /\ \/ pc' = "idle" /\ outcome' = "died" /\ UNCHANGED missed
         \/ /\ pc' = "idle" /\ outcome' = "in sync" /\ cfg.stamp = stamp
            /\ UNCHANGED missed
         \/ pc' = "folder" /\ outcome' = "running"
  BY DEF Begin
<1>2. Ended' /\ RerunRepairs' /\ RemovalComplete'
  BY <1>1 DEF Ended, RerunRepairs, RemovalComplete
<1>3. Repairing'
  BY <1>1 DEF Repairing, AfterDevices, Finishing
<1>4. Leftover'
  BY <1>1, TiedKept DEF Exists, Removing
<1>5. ~disturbed => /\ activated => live = cfg
                    /\ cfg.stamp # NoPlan => Kept(cfg, cfg.stamp)
  BY <1>1, SiteFacts DEF Synced
<1>6. Synced'
  <2>1. CASE pc' = "folder"
    BY <2>1, UnsyncedStep DEF Unsynced
  <2>2. CASE pc' = "idle" /\ UNCHANGED missed
    <3>1. Kept(cfg, cfg.stamp) => Kept(cfg, cfg.stamp)'
      BY <1>1, <2>2 DEF Kept, Covers
    <3> QED BY <1>1, <1>5, <2>2, <3>1 DEF Synced
  <2> QED BY <1>1, <2>1, <2>2
<1>7. InSync'
  <2>1. SUFFICES ASSUME outcome' = "in sync", ~disturbed
                 PROVE  /\ Covers(cfg', a.mode, carried, plan)
                        /\ carried \cup plan \subseteq cfg'.monitored \cup missed'
                        /\ activated' => live' = cfg'
    BY <1>1 DEF InSync, Covers
  <2>2. cfg.stamp = stamp /\ UNCHANGED missed
    BY <1>1, <2>1
  <2>3. stamp.mode = a.mode /\ stamp.hosts = carried /\ stamp.devices = plan
    BY DEF PlanOf
  <2>4. stamp # NoPlan
    <3>1. a.mode \in {"self-hosted", "cloud"}
      BY ArgAssumption
    <3>2. NoPlan.mode = "none"
      BY DEF NoPlan
    <3> QED BY <2>3, <3>1, <3>2
  <2> HIDE DEF stamp
  <2>5. Kept(cfg, stamp) /\ (activated => live = cfg)
    BY <1>5, <2>1, <2>2, <2>4
  <2>6. Covers(cfg', a.mode, carried, plan)
    BY <1>1, <2>3, <2>5 DEF Kept, Covers
  <2> QED BY <1>1, <2>2, <2>3, <2>5, <2>6 DEF Kept
<1> QED BY <1>2, <1>3, <1>4, <1>6, <1>7 DEF SiteParts

\* A removal begins: it knows of the shell if a rule is left that lies there
\* with it.
LEMMA BeginRemovalKeeps ==
    ASSUME SiteInv, NEW a \in Args, BeginRemoval(a)
    PROVE  /\ SiteParts' /\ Ended' /\ RerunRepairs' /\ InSync'
           /\ RemovalComplete'
<1>1. /\ pc = "idle" /\ pc' \in {"unrule", "unrule_listed"} /\ cfg' = cfg
      /\ outcome' = "running" /\ TypeOK
  BY SiteFacts DEF BeginRemoval
<1>2. Ended' /\ RerunRepairs' /\ InSync' /\ RemovalComplete'
  BY <1>1 DEF Ended, RerunRepairs, InSync, RemovalComplete
<1>3. Repairing' /\ Synced'
  BY <1>1, UnsyncedStep DEF Repairing, Unsynced, AfterDevices, Finishing
<1>4. \/ UNCHANGED failures /\ Shell \in roster'
      \/ UNCHANGED failures /\ roster' = {h \in AllHosts : Exists(cfg, h)}
      \/ failures' # 0
  BY <1>1, Counted DEF BeginRemoval
<1>5. Leftover'
  <2>1. SUFFICES ASSUME failures' = 0, failures = 0, Shell \notin roster'
                 PROVE  cfg.rules \cap ShellRules = {}
    BY <1>1, <1>4 DEF Leftover, Removing
  <2>2. ~Exists(cfg, Shell)
    BY <1>4, <2>1, SiteFacts
  <2> QED BY <1>1, <2>1, <2>2, SiteFacts DEF Leftover, Tied, Removing
<1> QED BY <1>2, <1>3, <1>5 DEF SiteParts

\* While a removal goes on, there is nothing to say of what a run treated.
LEMMA RemovalOnly ==
    ASSUME pc' \in Removing, failures' = 0 => Leftover',
           (pc' = "deactivate" /\ ~disturbed') => cfg'.stamp = NoPlan
    PROVE  SiteParts'
<1>1. Repairing' /\ Synced'
  BY DEF Removing, Repairing, Synced, AfterDevices, Finishing
<1>2. Leftover'
  BY DEF Leftover
<1> QED BY <1>1, <1>2 DEF SiteParts

\* The rules that name the shell go with it.
LEMMA DeleteRulesKeeps ==
    ASSUME SiteInv, DeleteRules
    PROVE  SiteParts'
<1> DEFINE next == IF todo = {} THEN "unport"
                   ELSE IF pc = "unrule" THEN "delete" ELSE "delete_listed"
           gone == {"bi_pack"} \cup FolderRules
                   \cup {r \in {"bi_service"} : Shell \in roster}
           Unruled(kept) == [cfg EXCEPT !.rules = @ \ (gone \ kept)]
<1>1. TypeOK /\ cfg \in Configs /\ pc \in {"unrule", "unrule_listed"}
  BY SiteFacts DEF DeleteRules
<1>2. next \in {"unport", "delete", "delete_listed"}
  OBVIOUS
<1>3. Unruled({}).rules = cfg.rules \ gone
  BY <1>1 DEF Configs
<1>4. \/ Call(Unruled({}), next, todo)
      \/ \E rule \in gone : Ignored(Unruled({rule}), next, todo)
  BY DEF DeleteRules
<1>5. "bi_pack" \in gone /\ (Shell \in roster => "bi_service" \in gone)
  OBVIOUS
<1> HIDE DEF next, gone, Unruled
<1>6. CASE Call(Unruled({}), next, todo)
  <2>1. SUFFICES ASSUME cfg' = Unruled({}), pc' = next,
                        UNCHANGED <<roster, failures>>
                 PROVE  SiteParts'
    BY <1>1, <1>6, CallKeeps
  <2>2. ASSUME failures' = 0 PROVE Leftover'
    <3>1. Shell \notin roster => cfg.rules \cap ShellRules = {}
      BY <1>1, <2>1, <2>2, SiteFacts DEF Leftover, Removing
    <3>2. Shell \notin roster' => cfg'.rules \cap ShellRules = {}
      BY <1>3, <2>1, <3>1
    <3>3. cfg'.rules \cap {"bi_pack", "bi_service"} = {}
      BY <1>3, <1>5, <2>1, <3>1 DEF ShellRules
    <3> QED BY <1>2, <2>1, <3>2, <3>3 DEF Leftover, Removing
  <2> QED BY <1>2, <2>1, <2>2, RemovalOnly DEF Removing
<1>7. ASSUME NEW rule \in gone, Ignored(Unruled({rule}), next, todo)
      PROVE  SiteParts'
  <2>1. pc' = next /\ failures' # 0
    BY <1>1, <1>7, IgnoredEffect
  <2> QED BY <1>2, <2>1, RemovalOnly DEF Removing
<1> QED BY <1>4, <1>6, <1>7

\* Deleting a host leaves the rules.
LEMMA DeleteHostKeeps ==
    ASSUME SiteInv, NEW h \in AllHosts, DeleteHost(h)
    PROVE  SiteParts'
<1> DEFINE left == todo \ {h}
           next == IF left = {} THEN "unport" ELSE pc
<1>1. TypeOK /\ pc \in {"delete", "delete_listed"}
  BY SiteFacts DEF DeleteHost
<1>2. Call(Without(cfg, h), next, left) \/ Ignored(cfg, next, left)
  BY DEF DeleteHost
<1>3. next \in {"unport", "delete", "delete_listed"}
  BY <1>1
<1>4. Without(cfg, h).rules = cfg.rules
  BY SiteFacts, WithoutKeeps
<1> HIDE DEF next
<1>5. CASE Call(Without(cfg, h), next, left)
  <2>1. SUFFICES ASSUME cfg' = Without(cfg, h), pc' = next,
                        UNCHANGED <<roster, failures>>
                 PROVE  SiteParts'
    BY <1>1, <1>5, CallKeeps
  <2>2. ASSUME failures' = 0 PROVE Leftover'
    BY <1>1, <1>3, <1>4, <2>1, <2>2, SiteFacts DEF Leftover, Removing
  <2> QED BY <1>3, <2>1, <2>2, RemovalOnly DEF Removing
<1>6. CASE Ignored(cfg, next, left)
  <2>1. pc' = next /\ failures' # 0
    BY <1>1, <1>6, IgnoredEffect
  <2> QED BY <1>3, <2>1, RemovalOnly DEF Removing
<1> QED BY <1>2, <1>5, <1>6

\* The last rule of the shell, and the folder with everything in it.
LEMMA DeleteRestKeeps ==
    ASSUME SiteInv, DeletePortRule \/ DeleteFolder
    PROVE  SiteParts'
<1>0. TypeOK /\ cfg \in Configs
  BY SiteFacts
<1>1. CASE DeletePortRule
  <2> DEFINE new == [cfg EXCEPT !.rules =
                       @ \ {r \in {"agent_ports"} : Shell \in roster}]
  <2>1. pc = "unport" /\ (Call(new, "unfolder", {}) \/ Ignored(cfg, "unfolder", {}))
    BY <1>1 DEF DeletePortRule
  <2>2. new.rules = cfg.rules \ {r \in {"agent_ports"} : Shell \in roster}
    BY <1>0 DEF Configs
  <2> HIDE DEF new
  <2>3. CASE Call(new, "unfolder", {})
    <3>1. SUFFICES ASSUME cfg' = new, pc' = "unfolder",
                          UNCHANGED <<roster, failures>>
                   PROVE  SiteParts'
      BY <1>0, <2>3, CallKeeps
    <3>2. ASSUME failures' = 0 PROVE Leftover'
      <4>1. /\ Shell \notin roster => cfg.rules \cap ShellRules = {}
            /\ cfg.rules \cap {"bi_pack", "bi_service"} = {}
        BY <2>1, <3>1, <3>2, SiteFacts DEF Leftover, Removing
      <4>2. /\ Shell \notin roster' => cfg'.rules \cap ShellRules = {}
            /\ cfg'.rules \cap {"bi_pack", "bi_service"} = {}
        BY <2>2, <3>1, <4>1
      <4>3. "agent_ports" \notin cfg'.rules
        BY <2>2, <3>1, <4>1 DEF ShellRules
      <4> QED BY <3>1, <4>2, <4>3 DEF Leftover, Removing
    <3> QED BY <3>1, <3>2, RemovalOnly DEF Removing
  <2>4. CASE Ignored(cfg, "unfolder", {})
    <3>1. pc' = "unfolder" /\ failures' # 0
      BY <1>0, <2>4, IgnoredEffect
    <3> QED BY <3>1, RemovalOnly DEF Removing
  <2> QED BY <2>1, <2>3, <2>4
<1>2. CASE DeleteFolder
  <2>1. /\ pc = "unfolder"
        /\ \/ Call(WithoutFolder, "deactivate", {})
           \/ Tolerated(cfg, "deactivate", {}) /\ disturbed' = TRUE
    BY <1>2 DEF DeleteFolder
  <2>2. CASE Call(WithoutFolder, "deactivate", {})
    <3>1. SUFFICES ASSUME cfg' = WithoutFolder, pc' = "deactivate",
                          UNCHANGED <<roster, failures>>
                   PROVE  SiteParts'
      BY <1>0, <2>2, CallKeeps
    <3>2. ASSUME failures' = 0 PROVE Leftover'
      <4>1. /\ cfg.rules \cap {"bi_pack", "bi_service"} = {}
            /\ "agent_ports" \notin cfg.rules
        BY <2>1, <3>1, <3>2, SiteFacts DEF Leftover, Removing
      <4>2. cfg.rules \ FolderRules = {}
        BY <1>0, <4>1 DEF Configs, Rules, FolderRules
      <4>3. cfg' = Bare
        BY <3>1, <4>2 DEF WithoutFolder, Bare
      <4>4. cfg'.rules = {}
        BY <4>3 DEF Bare
      <4> QED BY <3>1, <4>3, <4>4 DEF Leftover, Removing
    <3>3. cfg'.stamp = NoPlan
      BY <3>1 DEF WithoutFolder, Bare
    <3> QED BY <3>1, <3>2, <3>3, RemovalOnly DEF Removing
  <2>3. CASE Tolerated(cfg, "deactivate", {}) /\ disturbed' = TRUE
    <3>1. pc' = "deactivate" /\ failures' # 0
      BY <1>0, <2>3, Counted DEF Tolerated
    <3> QED BY <2>3, <3>1, RemovalOnly DEF Removing
  <2> QED BY <2>1, <2>2, <2>3
<1> QED BY <1>1, <1>2

\* The removal has come to its end.
LEMMA FinishRemovalKeeps ==
    ASSUME SiteInv, FinishRemoval
    PROVE  /\ SiteParts' /\ Ended' /\ RerunRepairs' /\ InSync'
           /\ RemovalComplete'
<1>1. TypeOK /\ pc = "deactivate" /\ Activation("idle", "removed", "late")
  BY SiteFacts DEF FinishRemoval
<1>2. /\ cfg' = cfg /\ pc' = "idle" /\ UNCHANGED disturbed
      /\ \/ live' = cfg /\ outcome' = "removed" /\ UNCHANGED failures
         \/ /\ outcome' \in {"late", "died"} /\ failures' # 0
            /\ activated' = FALSE
  <2>1. disturbed \in BOOLEAN
    BY <1>1 DEF TypeOK
  <2> QED BY <1>1, <2>1, ActivationEffect
<1>3. /\ failures = 0 => cfg = Bare
      /\ ~disturbed => cfg.stamp = NoPlan
  BY <1>1, SiteFacts DEF Leftover, Synced
<1>4. Ended' /\ RerunRepairs' /\ InSync'
  BY <1>2 DEF Ended, RerunRepairs, InSync
<1>5. RemovalComplete'
  BY <1>2, <1>3 DEF RemovalComplete
<1>6. Synced'
  BY <1>2, <1>3 DEF Synced
<1>7. SiteParts'
  <2>1. CASE failures' # 0
    BY <1>2, <1>6, <2>1, AfterFailure
  <2>2. CASE failures' = 0
    <3>1. cfg' = Bare
      BY <1>2, <1>3, <2>2
    <3>2. cfg'.rules = {}
      BY <3>1 DEF Bare
    <3>3. Repairing'
      BY <1>2 DEF Repairing, AfterDevices, Finishing
    <3>4. Leftover'
      BY <1>2, <3>2 DEF Leftover, Tied, Removing
    <3> QED BY <1>6, <3>3, <3>4 DEF SiteParts
  <2> QED BY <2>1, <2>2
<1> QED BY <1>4, <1>5, <1>7

\* A run that goes on has not ended well, nor has one that dies.
LEMMA UnfinishedTold ==
    ASSUME SiteInv, pc # "idle", outcome' \in {outcome, "running", "died"}
    PROVE  Ended' /\ RerunRepairs' /\ InSync' /\ RemovalComplete'
<1>1. outcome' \notin {"done", "removed", "in sync"}
  BY SiteFacts DEF Ended
<1> QED BY <1>1 DEF Ended, RerunRepairs, InSync, RemovalComplete

\* One step of setup() before its end.
LEMMA SetupStepOutcome ==
    ASSUME SetupStep, ~Finish
    PROVE  outcome' \in {outcome, "running", "died"}
<1> USE DEF Call, CallFails, Ignored, Tolerated, Dies, Ensure, EnsureHost
<1>1. CASE EnsureFolder \/ ReadNetsim \/ (\E d \in Devices : EnsureDevice(d))
           \/ EnsureSnmpPorts \/ EnsureResidual
  BY <1>1 DEF EnsureFolder, ReadNetsim, EnsureDevice, EnsureSnmpPorts,
              EnsureResidual
<1>2. CASE EnsureShell \/ EnsureAgentPorts \/ (\E h \in Servers : EnsureServer(h))
  BY <1>2 DEF EnsureShell, EnsureAgentPorts, EnsureServer
<1>3. CASE ListStale \/ (\E h \in AllHosts : Prune(h)) \/ BulkDiscover
  BY <1>3 DEF ListStale, Prune, PruneHost, BulkDiscover
<1>4. CASE EnsureDatasource \/ EnsureBiPack \/ EnsureBiService \/ ScanShell
           \/ \E h \in AllHosts : Discover(h)
  BY <1>4 DEF EnsureDatasource, EnsureBiPack, EnsureBiService, ScanShell,
              Discover
<1>5. CASE Activate \/ Rescan \/ WriteFingerprint
  BY <1>5 DEF Activate, Rescan, WriteFingerprint, Activation
<1> QED BY <1>1, <1>2, <1>3, <1>4, <1>5 DEF SetupStep

\* One step of teardown() before its end.
LEMMA RemovalStepOutcome ==
    ASSUME RemovalStep, ~FinishRemoval
    PROVE  outcome' \in {outcome, "running", "died"}
BY DEF RemovalStep, DeleteRules, DeletePortRule, DeleteFolder, DeleteHost,
       Call, CallFails, Ignored, Tolerated, Dies

\* The panels change no site.
LEMMA PanelsKeep ==
    ASSUME SiteInv, RosterChange \/ NetsimFlap \/ UNCHANGED vars
    PROVE  /\ SiteParts' /\ Ended' /\ RerunRepairs' /\ InSync'
           /\ RemovalComplete'
<1>1. UNCHANGED <<cfg, live, pc, arg, roster, planned, made, todo, outcome,
                  disturbed, slips, failures>>
  BY DEF RosterChange, NetsimFlap, vars
<1>3. Repairing'
  <2>1. /\ \A ds : DevicesFit(ds) => DevicesFit(ds)'
        /\ \A hs : ServersFit(hs) => ServersFit(hs)'
        /\ ShellFits => ShellFits'
        /\ PortsKept => PortsKept'
    BY <1>1, StillFits
  <2>2. /\ DevicesFit(Devices \ todo) => DevicesFit(Devices \ todo)'
        /\ DevicesFit(made) => DevicesFit(made)'
        /\ ServersFit(roster \ todo) => ServersFit(roster \ todo)'
        /\ ServersFit(roster) => ServersFit(roster)'
    BY <1>1 DEF DevicesFit, ServersFit
  <2> QED BY <1>1, <2>1, <2>2, SiteFacts DEF Repairing
<1>4. Leftover'
  BY <1>1, SiteFacts DEF Leftover, Tied, Exists
<1>5. Synced'
  <2>1. Kept(cfg, cfg.stamp) => Kept(cfg, cfg.stamp)'
    BY <1>1 DEF Kept, Covers
  <2> QED BY <1>1, <2>1, SiteFacts DEF Synced
<1>6. Ended' /\ RerunRepairs' /\ InSync' /\ RemovalComplete'
  BY <1>1 DEF SiteInv, Ended, RerunRepairs, InSync, RemovalComplete, Covers
<1> QED BY <1>3, <1>4, <1>5, <1>6 DEF SiteParts

\* Every step keeps the invariant.
LEMMA SiteStep ==
    ASSUME SiteInv, [Next]_vars
    PROVE  SiteInv'
<1>1. ParentsInv' /\ ParentsFirst'
  BY ParentsStep DEF SiteInv, ParentsInv
<1>2. CASE SetupStep
  <2>1. pc # "idle"
    BY <1>2, SetupKeepsRoster
  <2>2. CASE Finish
    BY <1>1, <2>2, FinishKeeps DEF SiteInv
  <2>3. CASE ~Finish
    <3>1. SiteParts'
      BY <1>1, <1>2, <2>3, FolderKeeps, NetsimKeeps, DeviceKeeps,
         DeviceRulesKeep, ShellKeeps, AgentPortsKeeps, ServerKeeps, ListKeeps,
         PruneKeeps, DiscoveryKeeps, BulkKeeps, ActivateKeeps DEF SetupStep
    <3>2. Ended' /\ RerunRepairs' /\ InSync' /\ RemovalComplete'
      BY <1>2, <2>1, <2>3, SetupStepOutcome, UnfinishedTold
    <3> QED BY <1>1, <3>1, <3>2 DEF SiteInv
  <2> QED BY <2>2, <2>3
<1>3. CASE RemovalStep
  <2>1. pc # "idle"
    BY <1>3, RemovalKeepsRemoving DEF Removing
  <2>2. CASE FinishRemoval
    BY <1>1, <2>2, FinishRemovalKeeps DEF SiteInv
  <2>3. CASE ~FinishRemoval
    <3>1. SiteParts'
      BY <1>3, <2>3, DeleteRulesKeeps, DeleteHostKeeps, DeleteRestKeeps
         DEF RemovalStep
    <3>2. Ended' /\ RerunRepairs' /\ InSync' /\ RemovalComplete'
      BY <1>3, <2>1, <2>3, RemovalStepOutcome, UnfinishedTold
    <3> QED BY <1>1, <3>1, <3>2 DEF SiteInv
  <2> QED BY <2>2, <2>3
<1>4. ASSUME NEW a \in Args, Begin(a) \/ BeginRemoval(a) PROVE SiteInv'
  BY <1>1, <1>4, BeginKeeps, BeginRemovalKeeps DEF SiteInv
<1>5. CASE RosterChange \/ NetsimFlap \/ UNCHANGED vars
  BY <1>1, <1>5, PanelsKeep DEF SiteInv
<1> QED BY <1>2, <1>3, <1>4, <1>5 DEF Next

\* A site without the estate satisfies it.
LEMMA SiteInit == Init => SiteInv
<1> SUFFICES ASSUME Init PROVE SiteInv
  OBVIOUS
<1>1. ParentsInv
  BY InitType DEF Init, ParentsInv, ParentsFirst, Created, AfterDevices
<1>2. cfg.rules = {} /\ cfg.stamp = NoPlan
  BY DEF Init, Bare
<1>3. Repairing /\ Synced
  BY <1>2 DEF Init, Repairing, Synced, AfterDevices, Finishing
<1>4. Leftover
  BY <1>2 DEF Init, Leftover, Tied, Removing
<1> QED BY <1>1, <1>3, <1>4
        DEF Init, SiteInv, SiteParts, Ended, RerunRepairs, InSync,
            RemovalComplete

\* The invariant holds in every reachable state.
LEMMA SiteAlways == Spec => []SiteInv
<1>1. SiteInv /\ [Next]_vars => SiteInv'
  BY SiteStep
<1> QED BY <1>1, SiteInit, PTL DEF Spec

\* A run that got to its end has put its estate into the site and activated it,
\* whatever runs of any number, command lines and rosters before it left undone.
\* (ensure_host, the ensure_*_rule functions, prune_subtree, activate.)
THEOREM RerunRepairsAlways == Spec => []RerunRepairs
<1>1. SiteInv => RerunRepairs
  BY DEF SiteInv
<1> QED BY <1>1, SiteAlways, PTL

\* A run that finds its fingerprint finds its estate configured, discovered and
\* active, whatever runs of any number failed or died before it, but for the
\* causes that InSync names: a run that died after the fingerprint was written, a
\* folder that was not deleted, netsim between two looks, hosts that the bulk
\* discovery passed over, a last activation that is not known to be through.
\* (_estate_fingerprint, _write_fingerprint after everything else.)
THEOREM InSyncAlways == Spec => []InSync
<1>1. SiteInv => InSync
  BY DEF SiteInv
<1> QED BY <1>1, SiteAlways, PTL

\* When no call failed, a removal that got to its end leaves a bare site.
\* (teardown, delete_bi_objects, the folder and the rules outside of it.)
THEOREM RemovalCompleteAlways == Spec => []RemovalComplete
<1>1. SiteInv => RemovalComplete
  BY DEF SiteInv
<1> QED BY <1>1, SiteAlways, PTL
================================================================================
