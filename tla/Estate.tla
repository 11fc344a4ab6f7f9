--------------------------------- MODULE Estate ---------------------------------
(***************************************************************************)
(* The life of the SNMP responder (snmp/netsim.py) under estate.py: `up`,   *)
(* `down` and `replace`, one command after the other, natively with a pid   *)
(* file and a file that holds the hash of the code it was started from, or  *)
(* in a container made from the shell's image.  The panel tells a command   *)
(* whether a responder answers; who holds the panel's port is the one that  *)
(* answers, and a second one ends.                                          *)
(*                                                                         *)
(* The code only moves on to versions that have not been there before.      *)
(* SIGTERM ends a native responder at once, /admin/shutdown in a moment.    *)
(* Docker or podman are external: a container takes the port when it is     *)
(* created, and its restart policy (unless-stopped) starts it again when it *)
(* ends by itself.  The shell is in Delivery, the site's setup in Setup.    *)
(***************************************************************************)
EXTENDS Naturals, FiniteSets

CONSTANTS
    Runtimes,       \* subset of {"native", "docker"}
    Scales,         \* --scale, as far as netsim's: [fleet, replicas]
    MaxPids, MaxCommands, MaxEdits, MaxFaults   \* bounds

ASSUME EstateAssumption ==
    /\ Runtimes \subseteq {"native", "docker"} /\ Runtimes # {}
    /\ Scales \subseteq [fleet : BOOLEAN, replicas : Nat]
    /\ {MaxPids, MaxCommands, MaxEdits, MaxFaults} \subseteq Nat

Pids == 1..MaxPids

VARIABLES
    code,       \* the version of netsim's code in the repository
    image,      \* the version in the shell's image
    proc,       \* pid -> native responder: how far it is, what it was started as
    box,        \* the container
    pidfile,    \* PIDFILE_NETSIM, 0 for none
    sigfile,    \* NETSIM_SIGFILE, 0 for none
    cmd,        \* the command that runs, or the last one
    blind,      \* history: a command took a responder that did not answer for none
    commands, faults

files  == <<pidfile, sigfile>>
bounds == <<commands, faults>>
vars   == <<code, image, proc, box, files, cmd, blind, bounds>>

------------------------------------------------------------------------------
(* The responders *)

Made(st, version, scale) == [st |-> st, code |-> version, scale |-> scale, signed |-> FALSE]
Absent == Made("none", 0, [fleet |-> FALSE, replicas |-> 0])

Alive(r)     == r.st \in {"boot", "up", "dying"}
Native       == {p \in Pids : proc[p].st \in {"up", "dying"}}
PortTaken    == Native # {} \/ Alive(box)

\* What answers on the panel's port: at most one.
Answering == {proc[p] : p \in Native} \cup (IF box.st \in {"up", "dying"} THEN {box} ELSE {})
Silence   == Answering = {}
Lurking   == \E r \in {proc[p] : p \in Pids} \cup {box} : Alive(r)

\* ThreadingHTTPServer of netsim's main: an OSError ends it.
Bind(p) ==
    /\ proc[p].st = "boot"
    /\ proc' = [proc EXCEPT ![p].st = IF PortTaken THEN "gone" ELSE "up"]
    /\ UNCHANGED <<code, image, box, files, cmd, blind, bounds>>

\* os._exit, a moment after the answer to /admin/shutdown.
Exit(p) ==
    /\ proc[p].st = "dying"
    /\ proc' = [proc EXCEPT ![p].st = "gone"]
    /\ UNCHANGED <<code, image, box, files, cmd, blind, bounds>>

Dies(p) ==
    /\ proc[p].st \in {"boot", "up"} /\ faults < MaxFaults
    /\ faults' = faults + 1
    /\ proc' = [proc EXCEPT ![p].st = "gone"]
    /\ UNCHANGED <<code, image, box, files, cmd, blind, commands>>

BoxBoots ==
    /\ box.st = "boot" /\ box' = [box EXCEPT !.st = "up"]
    /\ UNCHANGED <<code, image, proc, files, cmd, blind, bounds>>

\* The restart policy.
BoxRestarts ==
    /\ box.st = "dying" /\ box' = [box EXCEPT !.st = "boot"]
    /\ UNCHANGED <<code, image, proc, files, cmd, blind, bounds>>

\* Somebody works on the simulator.
Edit ==
    /\ code <= MaxEdits
    /\ code' = code + 1
    /\ UNCHANGED <<image, proc, box, files, cmd, blind, bounds>>

------------------------------------------------------------------------------
(* The commands *)

At(label)  == cmd' = [cmd EXCEPT !.at = label]
Ends(how)  == cmd' = [cmd EXCEPT !.at = "done", !.how = how]
Ended(how) == cmd.at # "done" /\ cmd'.at = "done" /\ cmd'.how = how

\* get_json answers; or it does not in its five seconds, which looks like nobody.
Heard(r)  == r \in Answering /\ UNCHANGED <<blind, faults>>
Nothing ==
    /\ blind' = (blind \/ Lurking)
    /\ IF Silence THEN UNCHANGED faults ELSE faults < MaxFaults /\ faults' = faults + 1

Command(name, runtime, scale, force) ==
    /\ cmd.at = "done" /\ commands < MaxCommands
    /\ commands' = commands + 1
    /\ cmd' = [at |-> IF name = "up" THEN "shell" ELSE "rm", name |-> name, runtime |-> runtime,
               scale |-> scale, force |-> force, sig |-> 0, pid |-> 0, how |-> "none",
               down |-> name # "up", met |-> Alive(box)]
    /\ UNCHANGED <<code, image, proc, box, files, blind, faults>>

\* ^C, or the command is killed.
Cut ==
    /\ cmd.at # "done" /\ faults < MaxFaults
    /\ faults' = faults + 1
    /\ Ends("cut")
    /\ UNCHANGED <<code, image, proc, box, files, blind, commands>>

\* shell_up: a container runtime rebuilds the image.
Shell ==
    /\ cmd.at = "shell"
    /\ image' = IF cmd.runtime = "native" THEN image ELSE code
    /\ At(IF cmd.runtime = "native" THEN "ask" ELSE "clean")
    /\ UNCHANGED <<code, proc, box, files, blind, bounds>>

\* (mutant: the signature is not compared)
ReusesAny(r) == r.scale.fleet = cmd.scale.fleet /\ ~cmd.force /\ sigfile # 0

\* What is asked of a running responder before it is kept.
Reuses(r) == r.scale.fleet = cmd.scale.fleet /\ ~cmd.force /\ sigfile = code

\* _netsim_up_native
Ask ==
    /\ cmd.at = "ask"
    /\ \/ \E r \in Answering :
             /\ Heard(r)
             /\ cmd' = IF Reuses(r) THEN [cmd EXCEPT !.sig = code, !.at = "done", !.how = "reused"]
                                    ELSE [cmd EXCEPT !.sig = code, !.at = "rm"]
       \/ Nothing /\ cmd' = [cmd EXCEPT !.sig = code, !.at = "spawn"]
    /\ UNCHANGED <<code, image, proc, box, files, commands>>

\* netsim_down: the container, if the command's runtime has one.
Remove ==
    /\ cmd.at = "rm"
    /\ box' = IF cmd.runtime = "native" THEN box ELSE Absent
    /\ At("kill")
    /\ UNCHANGED <<code, image, proc, files, blind, bounds>>

\* _pid_kill
Kill ==
    /\ cmd.at = "kill"
    /\ proc' = [p \in Pids |-> IF p = pidfile /\ Alive(proc[p])
                               THEN [proc[p] EXCEPT !.st = "gone"] ELSE proc[p]]
    /\ pidfile' = 0
    /\ At("stop")
    /\ UNCHANGED <<code, image, box, sigfile, blind, bounds>>

\* Where netsim_down returns to.
After == IF cmd.name = "up" \/ ~cmd.down THEN "clear" ELSE IF cmd.name = "replace" THEN "shell" ELSE "done"
Return == cmd' = [cmd EXCEPT !.at = After, !.how = "ok", !.down = FALSE]

\* (mutant: the pid file is thought to be enough)
StopByPid ==
    /\ cmd.at = "stop" /\ Return
    /\ UNCHANGED <<code, image, proc, box, files, blind, bounds>>

\* Whoever answers still is asked to shut down.
Stop ==
    /\ cmd.at = "stop" /\ Return
    /\ \/ /\ \E r \in Answering : Heard(r)
          /\ proc' = [p \in Pids |-> IF p \in Native THEN [proc[p] EXCEPT !.st = "dying"] ELSE proc[p]]
          /\ box'  = IF box.st = "up" THEN [box EXCEPT !.st = "dying"] ELSE box
       \/ Nothing /\ UNCHANGED <<proc, box>>
    /\ UNCHANGED <<code, image, files, commands>>

\* (mutant: without a deadline)
ClearPatient ==
    /\ cmd.at = "clear" /\ Silence /\ Nothing
    /\ At("spawn")
    /\ UNCHANGED <<code, image, proc, box, files, commands>>

\* At most 15 s until nobody answers; one that is not going to end outlasts them.
Clear ==
    /\ cmd.at = "clear"
    /\ \/ Nothing
       \/ \E r \in Answering : r.st = "up" /\ blind' = TRUE /\ UNCHANGED faults
    /\ At("spawn")
    /\ UNCHANGED <<code, image, proc, box, files, commands>>

Spawn ==
    /\ cmd.at = "spawn"
    /\ \E p \in Pids :
          /\ proc[p].st = "none" /\ \A q \in 1..(p - 1) : proc[q].st # "none"
          /\ proc' = [proc EXCEPT ![p] = Made("boot", code, cmd.scale)]
          /\ cmd'  = [cmd EXCEPT !.at = "pid", !.pid = p]
    /\ UNCHANGED <<code, image, box, files, blind, bounds>>

WritePid ==
    /\ cmd.at = "pid"
    /\ pidfile' = cmd.pid
    /\ At("sign")
    /\ UNCHANGED <<code, image, proc, box, sigfile, blind, bounds>>

\* (mutant: the signature is forgotten)
SignNothing ==
    /\ cmd.at = "sign"
    /\ proc' = [proc EXCEPT ![cmd.pid].signed = proc[cmd.pid].code = cmd.sig]
    /\ At("ready")
    /\ UNCHANGED <<code, image, box, files, blind, bounds>>

\* The signature is that of the code when the command began.
Sign ==
    /\ cmd.at = "sign"
    /\ sigfile' = cmd.sig
    /\ proc' = [proc EXCEPT ![cmd.pid].signed = proc[cmd.pid].code = cmd.sig]
    /\ At("ready")
    /\ UNCHANGED <<code, image, box, pidfile, blind, bounds>>

\* _netsim_up_container: rm -f, and run, which fails when the port is taken.
Clean ==
    /\ cmd.at = "clean"
    /\ box' = Absent
    /\ At("run")
    /\ UNCHANGED <<code, image, proc, files, blind, bounds>>

Run ==
    /\ cmd.at = "run"
    /\ IF PortTaken THEN Ends("failed") /\ UNCHANGED box
       ELSE At("ready") /\ box' = Made("boot", image, cmd.scale)
    /\ UNCHANGED <<code, image, proc, files, blind, bounds>>

\* netsim_up waits up to 90 s for the panel.
Ready ==
    /\ cmd.at = "ready"
    /\ \/ ~Silence /\ Ends("ok") /\ UNCHANGED faults
       \/ ~Lurking /\ Ends("failed") /\ UNCHANGED faults
       \/ Silence /\ Lurking /\ faults < MaxFaults /\ faults' = faults + 1 /\ Ends("failed")
    /\ UNCHANGED <<code, image, proc, box, files, blind, commands>>

------------------------------------------------------------------------------
Init ==
    /\ code = 1 /\ image = 0
    /\ proc = [p \in Pids |-> Absent] /\ box = Absent
    /\ pidfile = 0 /\ sigfile = 0
    /\ cmd = [at |-> "done", name |-> "down", runtime |-> "native", scale |-> Absent.scale,
              force |-> FALSE, sig |-> 0, pid |-> 0, how |-> "ok", down |-> FALSE, met |-> FALSE]
    /\ blind = FALSE /\ commands = 0 /\ faults = 0

Step == \/ Shell \/ Ask \/ Remove \/ Kill \/ Stop \/ Clear \/ Spawn \/ WritePid \/ Sign
        \/ Clean \/ Run \/ Ready

Responder == \/ BoxBoots \/ BoxRestarts
             \/ \E p \in Pids : Bind(p) \/ Exit(p)

Next ==
    \/ \E name \in {"up", "down", "replace"}, runtime \in Runtimes, scale \in Scales,
          force \in BOOLEAN : Command(name, runtime, scale, force)
    \/ Cut \/ Step \/ Responder \/ Edit
    \/ \E p \in Pids : Dies(p)

Spec == Init /\ [][Next]_vars

\* A command goes on and a process that starts or ends does so.
Fairness ==
    /\ WF_vars(Step) /\ WF_vars(BoxBoots) /\ WF_vars(BoxRestarts)
    /\ \A p \in Pids : WF_vars(Bind(p)) /\ WF_vars(Exit(p))
FairSpec == Spec /\ Fairness

------------------------------------------------------------------------------
(* Properties *)

\* The responder an `up` leaves is of the code the command found and at the
\* scale it was given, whatever was running before, unless some command took a
\* responder that did not answer for none, or a container answers a native
\* command (_netsim_up_native: "a stale responder would serve old data").
UpIsFresh ==
    [][(Ended("ok") \/ Ended("reused")) /\ cmd.name # "down" /\ ~blind =>
          \A r \in Answering :
             IF cmd.runtime = "native"
             THEN r = box \/ (r.code >= cmd'.sig /\ r.scale.fleet = cmd.scale.fleet)
             ELSE r = box /\ r.code = image /\ r.scale = cmd.scale]_vars

\* After a `down` no responder answers or is about to, nor comes back, with pid
\* files that are missing, old or of a process that is gone (netsim_down), unless
\* some command took a responder that did not answer for none, or a native
\* command met a container, which it cannot end.
Downed    == cmd.at = "done" /\ cmd.name = "down" /\ cmd.how = "ok" /\ ~blind
Remaining == {r \in {proc[p] : p \in Pids} \cup {box} : r.st \in {"boot", "up"}}
DownStops == Downed /\ ~(cmd.runtime = "native" /\ cmd.met) => Remaining = {}

\* A native `up` never ends a responder that is what it would start, one of this
\* code at this scale whose `up` came as far as its signature, unless --force
\* says so: its service goes on (_netsim_up_native).
ServiceKept ==
    [][cmd.name = "up" /\ cmd.runtime = "native" /\ ~cmd.force /\ ~blind =>
          \A p \in Pids :
             proc[p].signed /\ proc[p].st = "up" /\ proc[p].scale.fleet = cmd.scale.fleet
             /\ proc[p].code = cmd.sig /\ cmd.at \in {"kill", "stop"} /\ cmd'.at # "done"
             => proc'[p].st = "up"]_vars

\* Every command ends: its waits have deadlines, also when a responder that was
\* asked to go stays or comes back.
CommandEnds == cmd.at # "done" ~> cmd.at = "done"

\* "--replicas N multiplies every replicable host class N times (... plus N SNMP
\* access switches)" (estate.py:51).
ReplicasServed ==
    [][(Ended("ok") \/ Ended("reused")) /\ cmd.name # "down" /\ ~blind =>
          \A r \in Answering : r.scale.replicas = cmd.scale.replicas]_vars
================================================================================
