------------------------------ MODULE EstateProofs ------------------------------
(***************************************************************************)
(* Proofs about Estate: what an `up` leaves is current, a `down` leaves     *)
(* nothing, an unchanged `up` keeps the responder, for any runtimes,        *)
(* scales and numbers of commands, edits and faults.                        *)
(*                                                                         *)
(* The argument.  As long as no command has taken a responder that did not  *)
(* answer for none, at most one native responder is alive, and what it runs *)
(* is never older than the signature on file: a command starts another only *)
(* when nothing lives, and signs for what it started.                       *)
(***************************************************************************)
EXTENDS Estate, TLAPS

Sizes      == [fleet : BOOLEAN, replicas : Nat]
Responders == [st : {"none", "boot", "up", "dying", "gone"}, code : Nat, scale : Sizes,
               signed : BOOLEAN]
Labels     == {"done", "shell", "ask", "rm", "kill", "stop", "clear", "spawn", "pid", "sign",
               "clean", "run", "ready"}
Cmds       == [at : Labels, name : {"up", "down", "replace"}, runtime : {"native", "docker"},
               scale : Sizes, force : BOOLEAN, sig : Nat, pid : Nat,
               how : {"none", "ok", "reused", "failed", "cut"}, down : BOOLEAN, met : BOOLEAN]

TypeInv ==
    /\ code \in Nat /\ image \in Nat /\ sigfile \in Nat /\ pidfile \in Nat
    /\ proc \in [Pids -> Responders] /\ box \in Responders
    /\ cmd \in Cmds /\ blind \in BOOLEAN

\* One holder of the panel's port.
OnePort ==
    /\ \A p, q \in Native : p = q
    /\ Alive(box) => Native = {}

\* Where a command can be, and the container it works with.
Phases ==
    /\ cmd.sig <= code /\ sigfile <= code
    /\ cmd.at \in {"ask", "clear", "spawn", "pid", "sign"} => cmd.runtime = "native"
    /\ cmd.at \in {"clean", "run"} => cmd.runtime = "docker"
    /\ cmd.at \in {"rm", "kill", "stop"} /\ (cmd.name = "up" \/ ~cmd.down) => cmd.runtime = "native"
    /\ cmd.name = "down" /\ cmd.at # "done" => cmd.at \in {"rm", "kill", "stop"} /\ cmd.down
    /\ cmd.at \in {"pid", "sign"} => cmd.pid \in Pids
    /\ cmd.at \in {"kill", "stop"} /\ cmd.runtime = "docker" => ~Alive(box)
    /\ cmd.at = "ready" /\ cmd.runtime = "docker" =>
           Alive(box) /\ box.code = image /\ box.scale = cmd.scale
    /\ cmd.name = "down" /\ cmd.at # "done" /\ Alive(box) => cmd.met

Live == {p \in Pids : Alive(proc[p])}

\* The native responder, as long as no command has been deceived.
Current ==
    /\ \A p, q \in Live : p = q
    /\ \A p \in Live : proc[p].code >= sigfile
    /\ \A p \in Live : proc[p].signed => proc[p].code = sigfile
    /\ cmd.at = "spawn" => Live = {}
    /\ cmd.at \in {"pid", "sign", "ready"} /\ cmd.runtime = "native" =>
           \A p \in Live : p = cmd.pid /\ proc[p].code >= cmd.sig /\ proc[p].scale = cmd.scale

\* Why a running responder is not kept.
Unfit ==
    cmd.at \in {"rm", "kill", "stop"} /\ cmd.name = "up" /\ ~cmd.force =>
        \A p \in Live : \/ Alive(box) \/ proc[p].scale.fleet # cmd.scale.fleet
                        \/ sigfile # cmd.sig

\* Nothing is left, not even a container that would come back.
Down == Downed /\ ~(cmd.runtime = "native" /\ cmd.met) =>
            /\ Remaining = {}
            /\ ~Alive(box)

EstateInv ==
    /\ TypeInv /\ OnePort /\ Phases /\ Down
    /\ ~blind => Current /\ Unfit

------------------------------------------------------------------------------
\* Before the first command there is no responder, no file and no container.
THEOREM InitInv == Init => EstateInv
<1> SUFFICES ASSUME Init PROVE EstateInv
  OBVIOUS
<1>1. Absent \in Responders /\ ~Alive(Absent) /\ Absent.st = "none"
  BY DEF Absent, Made, Responders, Sizes, Alive
<1>2. TypeInv
  BY <1>1 DEF Init, TypeInv, Cmds, Labels, Absent, Made, Responders, Sizes
<1>3. Native = {} /\ Live = {} /\ Remaining = {}
  BY <1>1 DEF Init, Native, Live, Remaining
<1>4. OnePort /\ Down
  BY <1>1, <1>3 DEF Init, OnePort, Down
<1>5. Phases
  BY <1>1 DEF Init, Phases
<1>6. Current /\ Unfit
  BY <1>3 DEF Init, Current, Unfit
<1> QED BY <1>2, <1>4, <1>5, <1>6 DEF EstateInv

\* Sets of responders that an action leaves alone.
LEMMA Unmoved ==
    ASSUME UNCHANGED <<proc, box>>
    PROVE  /\ Native' = Native /\ Live' = Live /\ Remaining' = Remaining
           /\ Alive(box)' = Alive(box)
           /\ Answering' = Answering /\ Lurking' = Lurking
           /\ OnePort => OnePort'
  BY DEF Native, Live, Remaining, Alive, OnePort, Answering, Lurking

\* A living responder gets the port, which is free, or goes.
LEMMA OneMoves ==
    ASSUME EstateInv, NEW p \in Pids, NEW s \in {"up", "gone"},
           Alive(proc[p]), s = "up" => ~PortTaken,
           proc' = [proc EXCEPT ![p].st = s],
           UNCHANGED <<code, image, box, files, cmd, blind>>
    PROVE  EstateInv'
<1> USE DEF EstateInv
<1>1. \A q \in Pids : proc[q] \in Responders
  BY DEF TypeInv
<1>2. \A q \in Pids : proc'[q] = IF q = p THEN [proc[p] EXCEPT !.st = s] ELSE proc[q]
  BY DEF TypeInv
<1>3. TypeInv'
  BY <1>1 DEF TypeInv, Responders, files
<1>4. /\ \A q \in Pids : /\ proc'[q].code = proc[q].code /\ proc'[q].scale = proc[q].scale
                         /\ proc'[q].signed = proc[q].signed
      /\ \A q \in Pids : proc'[q].st = IF q = p THEN s ELSE proc[q].st
  BY <1>1, <1>2 DEF Responders
<1>5. Live' \subseteq Live
  BY <1>4 DEF Live, Alive
<1>6. Alive(box)' = Alive(box) /\ box' = box
  BY DEF Alive
<1>7. Native' \subseteq Native \cup (IF s = "up" THEN {p} ELSE {})
  BY <1>4 DEF Native
<1>8. OnePort'
  BY <1>6, <1>7 DEF OnePort, PortTaken
<1>9. Phases'
  BY <1>6 DEF Phases, files
<1>10. Down'
  <2> SUFFICES ASSUME Downed, ~(cmd.runtime = "native" /\ cmd.met)
               PROVE  Remaining' = {} /\ ~Alive(box)'
    BY DEF Down, Downed
  <2>1. Remaining = {} /\ ~Alive(box)
    BY DEF Down
  <2>2. proc[p].st = "dying" /\ p \in Native
    BY <2>1 DEF Remaining, Alive, Native
  <2>3. s = "gone"
    BY <2>2 DEF PortTaken
  <2>4. \A q \in Pids : proc'[q].st \notin {"boot", "up"}
    BY <1>4, <2>1, <2>3 DEF Remaining
  <2> QED BY <1>6, <2>1, <2>4 DEF Remaining, Alive
<1>11. Current => Current'
  BY <1>4, <1>5, Zenon DEF Current, Live, files
<1>12. Unfit => Unfit'
  BY <1>4, <1>5, <1>6 DEF Unfit, Live, files
<1> QED BY <1>3, <1>8, <1>9, <1>10, <1>11, <1>12

\* A second responder finds the panel's port taken and ends (netsim's main).
LEMMA BindInv ==
    ASSUME EstateInv, NEW p \in Pids, Bind(p)
    PROVE  EstateInv'
<1>1. Alive(proc[p])
  BY DEF Bind, Alive
<1>2. CASE PortTaken
  BY <1>1, <1>2, OneMoves DEF Bind
<1>3. CASE ~PortTaken
  BY <1>1, <1>3, OneMoves DEF Bind
<1> QED BY <1>2, <1>3

\* A responder asked to shut down ends.
LEMMA ExitInv ==
    ASSUME EstateInv, NEW p \in Pids, Exit(p)
    PROVE  EstateInv'
<1>1. Alive(proc[p])
  BY DEF Exit, Alive
<1> QED BY <1>1, OneMoves DEF Exit

\* A responder that dies leaves its pid file and its signature behind.
LEMMA DiesInv ==
    ASSUME EstateInv, NEW p \in Pids, Dies(p)
    PROVE  EstateInv'
<1>1. Alive(proc[p])
  BY DEF Dies, Alive
<1> QED BY <1>1, OneMoves DEF Dies

\* The container starts, or starts again.
LEMMA BoxInv ==
    ASSUME EstateInv, BoxBoots \/ BoxRestarts
    PROVE  EstateInv'
<1> USE DEF EstateInv
<1>1. PICK s \in {"boot", "up"} : box' = [box EXCEPT !.st = s]
  BY DEF BoxBoots, BoxRestarts
<1>2. /\ UNCHANGED <<code, image, proc, files, cmd, blind>>
      /\ Alive(box)
  BY DEF BoxBoots, BoxRestarts, Alive
<1>3. TypeInv'
  BY <1>1, <1>2 DEF TypeInv, Responders, files
<1>4. box' \in Responders /\ box'.st = s /\ box'.code = box.code /\ box'.scale = box.scale
  BY <1>1, <1>3 DEF TypeInv, Responders
<1>5. Alive(box)' /\ Native' = Native /\ Live' = Live
  BY <1>2, <1>4 DEF Alive, Native, Live
<1>6. OnePort' /\ Phases'
  BY <1>2, <1>4, <1>5 DEF OnePort, Phases, files
<1>7. Down'
  BY <1>2 DEF Down, Downed, files
<1>8. Current => Current'
  BY <1>2, <1>5 DEF Current, files
<1>9. Unfit => Unfit'
  BY <1>2, <1>5 DEF Unfit, files
<1> QED BY <1>2, <1>3, <1>6, <1>7, <1>8, <1>9

\* A new version of the code is newer than every signature.
LEMMA EditInv ==
    ASSUME EstateInv, Edit
    PROVE  EstateInv'
<1> USE DEF EstateInv
<1>1. code' = code + 1 /\ UNCHANGED <<image, proc, box, files, cmd, blind>>
  BY DEF Edit
<1>2. TypeInv'
  BY <1>1 DEF TypeInv, files
<1>3. Phases'
  <2>1. cmd.sig \in Nat /\ code \in Nat /\ sigfile \in Nat
    BY DEF TypeInv, Cmds
  <2>2. cmd.sig <= code' /\ sigfile <= code'
    BY <1>1, <2>1 DEF Phases
  <2> QED BY <1>1, <2>2, Unmoved DEF Phases, files
<1>4. OnePort' /\ Down'
  BY <1>1, Unmoved DEF Down, Downed
<1>5. (Current => Current') /\ (Unfit => Unfit')
  BY <1>1, Unmoved DEF Current, Unfit, files
<1> QED BY <1>1, <1>2, <1>3, <1>4, <1>5

------------------------------------------------------------------------------
(* The commands *)

\* Going to a place changes nothing else of the command.
LEMMA AtFields ==
    ASSUME TypeInv, NEW label \in Labels, At(label)
    PROVE  /\ cmd' \in Cmds /\ cmd'.at = label
           /\ cmd'.name = cmd.name /\ cmd'.runtime = cmd.runtime /\ cmd'.scale = cmd.scale
           /\ cmd'.force = cmd.force /\ cmd'.sig = cmd.sig /\ cmd'.pid = cmd.pid
           /\ cmd'.down = cmd.down /\ cmd'.met = cmd.met /\ cmd'.how = cmd.how
  BY DEF TypeInv, At, Cmds, Labels

\* Ending changes nothing but where the command is and how it ended.
LEMMA EndsFields ==
    ASSUME TypeInv, NEW how \in {"ok", "reused", "failed", "cut"}, Ends(how)
    PROVE  /\ cmd' \in Cmds /\ cmd'.at = "done" /\ cmd'.how = how
           /\ cmd'.name = cmd.name /\ cmd'.runtime = cmd.runtime /\ cmd'.scale = cmd.scale
           /\ cmd'.force = cmd.force /\ cmd'.sig = cmd.sig /\ cmd'.pid = cmd.pid
           /\ cmd'.down = cmd.down /\ cmd'.met = cmd.met
  BY DEF TypeInv, Ends, Cmds, Labels

\* A command that has ended, and not a `down` that went through, asks nothing.
LEMMA Idle ==
    ASSUME EstateInv, UNCHANGED <<code, image, proc, box, files, blind>>,
           cmd' \in Cmds, cmd'.at = "done", cmd'.sig <= code,
           ~(cmd'.name = "down" /\ cmd'.how = "ok")
    PROVE  EstateInv'
<1> USE DEF EstateInv
<1>1. TypeInv'
  BY DEF TypeInv, files
<1>2. OnePort' /\ Phases'
  BY Unmoved DEF Phases, files
<1>3. Down'
  BY DEF Down, Downed
<1>4. (Current => Current') /\ (Unfit => Unfit')
  BY Unmoved DEF Current, Unfit, files
<1> QED BY <1>1, <1>2, <1>3, <1>4

\* An interrupted command promises nothing.
LEMMA CutInv ==
    ASSUME EstateInv, Cut
    PROVE  EstateInv'
<1>1. TypeInv /\ cmd.sig <= code
  BY DEF EstateInv, Phases
<1> QED BY <1>1, EndsFields, Idle DEF Cut

\* A command begins: it knows no signature yet.
LEMMA CommandInv ==
    ASSUME EstateInv, NEW name \in {"up", "down", "replace"}, NEW runtime \in Runtimes,
           NEW scale \in Scales, NEW force \in BOOLEAN, Command(name, runtime, scale, force)
    PROVE  EstateInv'
<1> USE DEF EstateInv
<1>1. UNCHANGED <<code, image, proc, box, files, blind>>
  BY DEF Command
<1>2. runtime \in {"native", "docker"} /\ scale \in Sizes /\ Alive(box) \in BOOLEAN
  BY EstateAssumption DEF Sizes, Alive
<1>3. cmd' = [at |-> IF name = "up" THEN "shell" ELSE "rm", name |-> name, runtime |-> runtime,
              scale |-> scale, force |-> force, sig |-> 0, pid |-> 0, how |-> "none",
              down |-> name # "up", met |-> Alive(box)]
  BY DEF Command
<1>4. cmd' \in Cmds
  BY <1>2, <1>3 DEF Cmds, Labels
<1>5. /\ cmd'.at = IF name = "up" THEN "shell" ELSE "rm"
      /\ cmd'.name = name /\ cmd'.sig = 0 /\ cmd'.down = (name # "up") /\ cmd'.met = Alive(box)
  BY <1>3
<1>6. TypeInv'
  BY <1>1, <1>4 DEF TypeInv, files
<1>7. Phases'
  <2>1. 0 <= code'
    BY <1>1 DEF TypeInv
  <2> QED BY <1>1, <1>5, <2>1, Unmoved DEF Phases, files
<1>8. OnePort' /\ Down'
  BY <1>1, <1>5, Unmoved DEF Down, Downed
<1>9. (Current => Current') /\ (Unfit => Unfit')
  BY <1>1, <1>5, Unmoved DEF Current, Unfit, files
<1> QED BY <1>1, <1>6, <1>7, <1>8, <1>9

\* shell_up leaves the responder alone.
LEMMA ShellInv ==
    ASSUME EstateInv, Shell
    PROVE  EstateInv'
<1> USE DEF EstateInv
<1>1. cmd.at = "shell" /\ UNCHANGED <<code, proc, box, files, blind>>
  BY DEF Shell
<1>2. PICK label \in {"ask", "clean"} : /\ At(label)
                                       /\ label = IF cmd.runtime = "native" THEN "ask" ELSE "clean"
  BY DEF Shell
<1>3. label \in Labels
  BY DEF Labels
<1>4. image' \in Nat
  BY DEF Shell, TypeInv
<1>5. TypeInv'
  BY <1>1, <1>2, <1>3, <1>4, AtFields DEF TypeInv, files
<1>6. Phases'
  <2>1. cmd.runtime \in {"native", "docker"} /\ cmd.name # "down"
    BY <1>1 DEF TypeInv, Cmds, Phases
  <2> QED BY <1>1, <1>2, <1>3, <2>1, AtFields DEF Phases, files
<1>7. OnePort' /\ Down'
  BY <1>1, <1>2, <1>3, Unmoved, AtFields DEF Down, Downed
<1>8. (Current => Current') /\ (Unfit => Unfit')
  BY <1>1, <1>2, <1>3, Unmoved, AtFields DEF Current, Unfit, files
<1> QED BY <1>1, <1>5, <1>6, <1>7, <1>8

\* What nobody answering means to a command that is not deceived.
LEMMA NothingLives ==
    ASSUME TypeInv, Nothing
    PROVE  /\ blind' \in BOOLEAN
           /\ ~blind' => ~blind /\ Live = {} /\ ~Alive(box)
  BY DEF Nothing, Lurking, Live, TypeInv

\* Who answers lives.
LEMMA AnswersLive ==
    ASSUME TypeInv, NEW r \in Answering
    PROVE  \/ r = box /\ Alive(box)
           \/ \E p \in Live : p \in Native /\ r = proc[p]
  BY DEF Answering, Native, Live, Alive

\* _netsim_up_native keeps a responder, has it stopped, or starts the first one.
LEMMA AskInv ==
    ASSUME EstateInv, Ask
    PROVE  EstateInv'
<1> USE DEF EstateInv
<1>1. cmd.at = "ask" /\ UNCHANGED <<code, image, proc, box, files>>
  BY DEF Ask
<1>2. cmd.runtime = "native" /\ cmd.name # "down" /\ code \in Nat /\ cmd \in Cmds
  BY <1>1 DEF Phases, TypeInv
<1>3. ASSUME NEW r \in Answering, Heard(r), Reuses(r),
             cmd' = [cmd EXCEPT !.sig = code, !.at = "done", !.how = "reused"]
      PROVE  EstateInv'
  <2>1. cmd' \in Cmds /\ cmd'.at = "done" /\ cmd'.sig = code /\ cmd'.how = "reused"
    BY <1>2, <1>3 DEF Cmds, Labels
  <2> QED BY <1>1, <1>2, <1>3, <2>1, Idle DEF Heard
<1>4. ASSUME NEW r \in Answering, Heard(r), ~Reuses(r),
             cmd' = [cmd EXCEPT !.sig = code, !.at = "rm"]
      PROVE  EstateInv'
  <2>1. /\ cmd' \in Cmds /\ cmd'.at = "rm" /\ cmd'.sig = code
        /\ cmd'.name = cmd.name /\ cmd'.runtime = cmd.runtime /\ cmd'.scale = cmd.scale
        /\ cmd'.force = cmd.force
    BY <1>2, <1>4 DEF Cmds, Labels
  <2>2. TypeInv' /\ blind' = blind
    BY <1>1, <1>4, <2>1 DEF TypeInv, Heard, files
  <2>3. OnePort' /\ Phases' /\ Down'
    BY <1>1, <1>2, <2>1, Unmoved DEF Phases, Down, Downed, files
  <2>4. Current => Current'
    BY <1>1, <2>1, Unmoved DEF Current, files
  <2>5. ASSUME Current PROVE Unfit'
    <3>1. ASSUME ~cmd.force, NEW p \in Live, ~Alive(box)
          PROVE  proc[p].scale.fleet # cmd.scale.fleet \/ sigfile # code
      <4>1. PICK q \in Live : r = proc[q]
        BY <3>1, AnswersLive
      <4>2. p = q
        BY <2>5 DEF Current
      <4> QED BY <1>4, <3>1, <4>1, <4>2 DEF Reuses
    <3> QED BY <1>1, <2>1, <3>1, Unmoved DEF Unfit, files
  <2> QED BY <2>2, <2>3, <2>4, <2>5
<1>5. ASSUME Nothing, cmd' = [cmd EXCEPT !.sig = code, !.at = "spawn"]
      PROVE  EstateInv'
  <2>1. /\ cmd' \in Cmds /\ cmd'.at = "spawn" /\ cmd'.sig = code
        /\ cmd'.name = cmd.name /\ cmd'.runtime = cmd.runtime
    BY <1>2, <1>5 DEF Cmds, Labels
  <2>2. TypeInv'
    BY <1>1, <1>5, <2>1, NothingLives DEF TypeInv, files
  <2>3. OnePort' /\ Phases' /\ Down'
    BY <1>1, <1>2, <2>1, Unmoved DEF Phases, Down, Downed, files
  <2>4. ~blind' => Current'
    BY <1>1, <1>5, <2>1, Unmoved, NothingLives DEF Current, files
  <2>5. Unfit'
    BY <2>1 DEF Unfit
  <2> QED BY <2>2, <2>3, <2>4, <2>5
<1> QED BY <1>3, <1>4, <1>5 DEF Ask

\* The wait for silence: a command that stops waiting is deceived from then on.
LEMMA ClearInv ==
    ASSUME EstateInv, Clear
    PROVE  EstateInv'
<1> USE DEF EstateInv
<1>1. cmd.at = "clear" /\ UNCHANGED <<code, image, proc, box, files>> /\ At("spawn")
  BY DEF Clear
<1>2. "spawn" \in Labels
  BY DEF Labels
<1>3. blind' \in BOOLEAN /\ (~blind' => ~blind /\ Live = {})
  BY NothingLives DEF Clear
<1>4. TypeInv'
  BY <1>1, <1>2, <1>3, AtFields DEF TypeInv, files
<1>5. OnePort' /\ Phases' /\ Down'
  BY <1>1, <1>2, AtFields, Unmoved DEF Phases, Down, Downed, files
<1>6. ~blind' => Current'
  BY <1>1, <1>2, <1>3, AtFields, Unmoved DEF Current, files
<1>7. Unfit'
  BY <1>1, <1>2, AtFields DEF Unfit
<1> QED BY <1>4, <1>5, <1>6, <1>7

\* The container is removed.
LEMMA NoBox ==
    ASSUME TypeInv, OnePort, box' = Absent, UNCHANGED proc
    PROVE  /\ Live' = Live /\ Native' = Native /\ OnePort'
           /\ ~Alive(box)' /\ box' \in Responders
  BY DEF Live, Native, OnePort, Alive, Absent, Made, Responders, Sizes

\* netsim_down removes the container of its runtime.
LEMMA RemoveInv ==
    ASSUME EstateInv, Remove
    PROVE  EstateInv'
<1> USE DEF EstateInv
<1>1. /\ cmd.at = "rm" /\ At("kill") /\ UNCHANGED <<code, image, proc, files, blind>>
      /\ box' = IF cmd.runtime = "native" THEN box ELSE Absent
  BY DEF Remove
<1>2. "kill" \in Labels
  BY DEF Labels
<1>3. /\ Live' = Live /\ OnePort' /\ box' \in Responders
      /\ cmd.runtime = "native" => Alive(box)' = Alive(box)
      /\ Alive(box)' => Alive(box)
      /\ cmd.runtime # "native" => ~Alive(box)'
  <2>1. CASE cmd.runtime = "native"
    BY <1>1, <2>1, Unmoved DEF TypeInv
  <2>2. CASE cmd.runtime # "native"
    BY <1>1, <2>2, NoBox
  <2> QED BY <2>1, <2>2
<1>4. TypeInv'
  BY <1>1, <1>2, <1>3, AtFields DEF TypeInv, files
<1>5. Phases' /\ Down'
  BY <1>1, <1>2, <1>3, AtFields DEF Phases, Down, Downed, files
<1>6. Current => Current'
  BY <1>1, <1>2, <1>3, AtFields DEF Current, files
<1>7. Unfit => Unfit'
  BY <1>1, <1>2, <1>3, AtFields DEF Unfit, Phases, files
<1> QED BY <1>1, <1>3, <1>4, <1>5, <1>6, <1>7

\* _pid_kill ends the process of the pid file, if it lives.
LEMMA KillInv ==
    ASSUME EstateInv, Kill
    PROVE  EstateInv'
<1> USE DEF EstateInv
<1>1. /\ cmd.at = "kill" /\ At("stop") /\ pidfile' = 0
      /\ UNCHANGED <<code, image, box, sigfile, blind>>
      /\ proc' = [p \in Pids |-> IF p = pidfile /\ Alive(proc[p])
                                  THEN [proc[p] EXCEPT !.st = "gone"] ELSE proc[p]]
  BY DEF Kill
<1>2. "stop" \in Labels
  BY DEF Labels
<1>3. \A p \in Pids : proc[p] \in Responders
  BY DEF TypeInv
<1>4. /\ \A p \in Pids : /\ proc'[p] \in Responders /\ proc'[p].code = proc[p].code
                         /\ proc'[p].scale = proc[p].scale /\ proc'[p].signed = proc[p].signed
                         /\ proc'[p].st \in {proc[p].st, "gone"}
      /\ proc' \in [Pids -> Responders]
  BY <1>1, <1>3 DEF Responders
<1>5. Live' \subseteq Live /\ Native' \subseteq Native /\ Alive(box)' = Alive(box)
  BY <1>1, <1>4 DEF Live, Native, Alive
<1>6. TypeInv'
  BY <1>1, <1>2, <1>4, AtFields DEF TypeInv
<1>7. OnePort' /\ Phases' /\ Down'
  BY <1>1, <1>2, <1>5, AtFields DEF OnePort, Phases, Down, Downed
<1>8. Current => Current'
  BY <1>1, <1>2, <1>4, <1>5, AtFields DEF Current, Live
<1>9. Unfit => Unfit'
  BY <1>1, <1>2, <1>4, <1>5, AtFields DEF Unfit, Live
<1> QED BY <1>1, <1>6, <1>7, <1>8, <1>9

\* A responder is started where none lives, from the code as it is now.
LEMMA SpawnInv ==
    ASSUME EstateInv, Spawn
    PROVE  EstateInv'
<1> USE DEF EstateInv
<1>1. PICK p \in Pids : /\ proc[p].st = "none"
                        /\ proc' = [proc EXCEPT ![p] = Made("boot", code, cmd.scale)]
                        /\ cmd'  = [cmd EXCEPT !.at = "pid", !.pid = p]
  BY DEF Spawn
<1>2. cmd.at = "spawn" /\ UNCHANGED <<code, image, box, files, blind>> /\ cmd \in Cmds
  BY DEF Spawn, TypeInv
<1>3. /\ cmd' \in Cmds /\ cmd'.at = "pid" /\ cmd'.pid = p /\ cmd'.sig = cmd.sig
      /\ cmd'.name = cmd.name /\ cmd'.runtime = cmd.runtime /\ cmd'.scale = cmd.scale
  <2>1. p \in Nat
    BY DEF Pids
  <2> QED BY <1>1, <1>2, <2>1 DEF Cmds, Labels
<1>4. /\ Made("boot", code, cmd.scale) \in Responders
      /\ proc'[p].st = "boot" /\ proc'[p].code = code /\ proc'[p].scale = cmd.scale
      /\ proc'[p].signed = FALSE
      /\ \A q \in Pids \ {p} : proc'[q] = proc[q]
  BY <1>1, <1>2 DEF Made, Responders, TypeInv, Cmds
<1>5. TypeInv'
  BY <1>1, <1>2, <1>3, <1>4 DEF TypeInv, files
<1>6. Native' = Native /\ Live' = Live \cup {p} /\ Alive(box)' = Alive(box)
  BY <1>1, <1>2, <1>4 DEF Native, Live, Alive
<1>7. OnePort' /\ Phases' /\ Down' /\ Unfit'
  BY <1>2, <1>3, <1>6 DEF OnePort, Phases, Down, Downed, Unfit, files
<1>8. Current => Current'
  <2> SUFFICES ASSUME Current PROVE Current'
    OBVIOUS
  <2>1. Live' = {p}
    BY <1>2, <1>6 DEF Current
  <2>2. sigfile <= code /\ cmd.sig <= code /\ sigfile \in Nat /\ code \in Nat /\ cmd.sig \in Nat
    BY <1>2 DEF Phases, TypeInv, Cmds
  <2> QED BY <1>2, <1>3, <1>4, <2>1, <2>2 DEF Current, files
<1> QED BY <1>2, <1>5, <1>7, <1>8

\* The pid file names the responder that was started.
LEMMA WritePidInv ==
    ASSUME EstateInv, WritePid
    PROVE  EstateInv'
<1> USE DEF EstateInv
<1>1. /\ cmd.at = "pid" /\ At("sign") /\ pidfile' = cmd.pid
      /\ UNCHANGED <<code, image, proc, box, sigfile, blind>>
  BY DEF WritePid
<1>2. "sign" \in Labels /\ cmd.pid \in Nat
  BY DEF Labels, TypeInv, Cmds
<1>3. TypeInv'
  BY <1>1, <1>2, AtFields DEF TypeInv
<1>4. OnePort' /\ Phases' /\ Down' /\ Unfit'
  BY <1>1, <1>2, AtFields, Unmoved DEF Phases, Down, Downed, Unfit
<1>5. Current => Current'
  BY <1>1, <1>2, AtFields, Unmoved DEF Current
<1> QED BY <1>1, <1>3, <1>4, <1>5

\* The signature is at most as new as the responder it is written for.
LEMMA SignInv ==
    ASSUME EstateInv, Sign
    PROVE  EstateInv'
<1> USE DEF EstateInv
<1>1. /\ cmd.at = "sign" /\ At("ready") /\ sigfile' = cmd.sig /\ cmd \in Cmds
      /\ UNCHANGED <<code, image, box, pidfile, blind>>
      /\ proc' = [proc EXCEPT ![cmd.pid].signed = proc[cmd.pid].code = cmd.sig]
  BY DEF Sign, TypeInv
<1>2. "ready" \in Labels /\ cmd.sig \in Nat /\ cmd.pid \in Pids /\ cmd.runtime = "native"
  BY <1>1 DEF Labels, Cmds, Phases
<1>3. \A p \in Pids : proc[p] \in Responders
  BY DEF TypeInv
<1>4. /\ proc' \in [Pids -> Responders]
      /\ \A p \in Pids : /\ proc'[p].st = proc[p].st /\ proc'[p].code = proc[p].code
                         /\ proc'[p].scale = proc[p].scale
      /\ proc'[cmd.pid].signed = (proc[cmd.pid].code = cmd.sig)
  <2>1. (proc[cmd.pid].code = cmd.sig) \in BOOLEAN
    OBVIOUS
  <2> QED BY <1>1, <1>2, <1>3, <2>1 DEF TypeInv, Responders
<1>5. Live' = Live /\ Native' = Native /\ Alive(box)' = Alive(box)
  BY <1>1, <1>4 DEF Live, Native, Alive
<1>6. TypeInv'
  BY <1>1, <1>2, <1>4, AtFields DEF TypeInv
<1>7. OnePort' /\ Phases' /\ Down' /\ Unfit'
  BY <1>1, <1>2, <1>5, AtFields DEF OnePort, Phases, Down, Downed, Unfit
<1>8. Current => Current'
  <2> SUFFICES ASSUME Current PROVE Current'
    OBVIOUS
  <2>1. \A p \in Live : p = cmd.pid /\ proc[p].code >= cmd.sig /\ proc[p].scale = cmd.scale
    BY <1>1, <1>2 DEF Current
  <2>2. \A p \in Live' : /\ p = cmd.pid /\ proc'[p].code >= sigfile' /\ proc'[p].scale = cmd.scale
                         /\ proc'[p].signed => proc'[p].code = sigfile'
    BY <1>1, <1>2, <1>4, <1>5, <2>1 DEF Live
  <2> QED BY <1>1, <1>2, <2>2, AtFields DEF Current
<1> QED BY <1>1, <1>6, <1>7, <1>8

\* _netsim_up_container removes what had its name.
LEMMA CleanInv ==
    ASSUME EstateInv, Clean
    PROVE  EstateInv'
<1> USE DEF EstateInv
<1>1. /\ cmd.at = "clean" /\ At("run") /\ box' = Absent
      /\ UNCHANGED <<code, image, proc, files, blind>>
  BY DEF Clean
<1>2. "run" \in Labels
  BY DEF Labels
<1>3. Live' = Live /\ OnePort' /\ ~Alive(box)' /\ box' \in Responders
  BY <1>1, NoBox
<1>4. TypeInv'
  BY <1>1, <1>2, <1>3, AtFields DEF TypeInv, files
<1>5. Phases' /\ Down' /\ Unfit'
  BY <1>1, <1>2, <1>3, AtFields DEF Phases, Down, Downed, Unfit, files
<1>6. Current => Current'
  BY <1>1, <1>2, <1>3, AtFields DEF Current, files
<1> QED BY <1>1, <1>3, <1>4, <1>5, <1>6

\* The container gets the port only when nobody has it.
LEMMA RunInv ==
    ASSUME EstateInv, Run
    PROVE  EstateInv'
<1> USE DEF EstateInv
<1>1. /\ cmd.at = "run" /\ cmd.runtime = "docker" /\ cmd.name # "down" /\ cmd \in Cmds
      /\ UNCHANGED <<code, image, proc, files, blind>>
  BY DEF Run, Phases, TypeInv
<1>2. CASE Ends("failed") /\ UNCHANGED box
  <2>1. cmd.sig <= code
    BY DEF Phases
  <2> QED BY <1>1, <1>2, <2>1, EndsFields, Idle
<1>3. CASE ~PortTaken /\ At("ready") /\ box' = Made("boot", image, cmd.scale)
  <2>1. "ready" \in Labels
    BY DEF Labels
  <2>2. /\ box' \in Responders /\ Alive(box)' /\ box'.code = image /\ box'.scale = cmd.scale
    BY <1>1, <1>3 DEF Made, Responders, Alive, TypeInv, Cmds
  <2>3. Native' = Native /\ Live' = Live /\ Native = {}
    BY <1>1, <1>3 DEF Native, Live, Alive, PortTaken
  <2>4. TypeInv'
    BY <1>1, <1>3, <2>1, <2>2, AtFields DEF TypeInv, files
  <2>5. OnePort' /\ Phases' /\ Down' /\ Unfit'
    BY <1>1, <1>3, <2>1, <2>2, <2>3, AtFields DEF OnePort, Phases, Down, Downed, Unfit, files
  <2>6. Current => Current'
    BY <1>1, <1>3, <2>1, <2>3, AtFields DEF Current, files
  <2> QED BY <1>1, <2>4, <2>5, <2>6
<1> QED BY <1>2, <1>3 DEF Run

\* netsim_up ends when the panel answers, or gives up.
LEMMA ReadyInv ==
    ASSUME EstateInv, Ready
    PROVE  EstateInv'
<1>1. PICK how \in {"ok", "failed"} : Ends(how)
  BY DEF Ready
<1>2. UNCHANGED <<code, image, proc, box, files, blind>>
  BY DEF Ready
<1>3. cmd.name # "down" /\ cmd.sig <= code /\ TypeInv
  BY DEF Ready, EstateInv, Phases
<1> QED BY <1>1, <1>2, <1>3, EndsFields, Idle

\* /admin/shutdown ends whoever answers, so a `down` leaves nobody.
LEMMA StopInv ==
    ASSUME EstateInv, Stop
    PROVE  EstateInv'
<1> USE DEF EstateInv
<1>1. cmd.at = "stop" /\ UNCHANGED <<code, image, files>>
  BY DEF Stop
<1>. cmd \in Cmds
  BY DEF TypeInv
<1>2. cmd' = [cmd EXCEPT !.at = After, !.how = "ok", !.down = FALSE]
  BY DEF Stop, Return
<1>3. After \in {"clear", "shell", "done"} /\ After \in Labels
  BY DEF After, Labels
<1>4. /\ cmd' \in Cmds /\ cmd'.at = After /\ cmd'.name = cmd.name /\ cmd'.runtime = cmd.runtime
      /\ cmd'.sig = cmd.sig /\ cmd'.met = cmd.met /\ cmd'.how = "ok"
  BY <1>1, <1>2, <1>3 DEF Cmds
<1>5. blind' \in BOOLEAN /\ (~blind' => ~blind)
  BY NothingLives DEF Stop, Heard, TypeInv
<1>6. /\ \A p \in Pids : proc[p] \in Responders
      /\ box \in Responders
  BY DEF TypeInv
<1>7. /\ proc' \in [Pids -> Responders]
      /\ \A p \in Pids : /\ proc'[p].code = proc[p].code /\ proc'[p].scale = proc[p].scale
                         /\ proc'[p].signed = proc[p].signed
                         /\ proc'[p].st = IF p \in Native /\ proc' # proc THEN "dying"
                                                                       ELSE proc[p].st
  <2>1. CASE UNCHANGED proc
    BY <1>6, <2>1 DEF TypeInv
  <2>2. CASE proc' = [p \in Pids |-> IF p \in Native THEN [proc[p] EXCEPT !.st = "dying"] ELSE proc[p]]
    <3>1. \A p \in Pids : proc'[p] = IF p \in Native THEN [proc[p] EXCEPT !.st = "dying"] ELSE proc[p]
      BY <2>2
    <3>2. \A p \in Pids : /\ proc'[p] \in Responders
                          /\ proc'[p].code = proc[p].code /\ proc'[p].scale = proc[p].scale
                          /\ proc'[p].signed = proc[p].signed
                          /\ proc'[p].st = IF p \in Native THEN "dying" ELSE proc[p].st
      <4> SUFFICES ASSUME NEW p \in Pids
                   PROVE  /\ proc'[p] \in Responders
                          /\ proc'[p].code = proc[p].code /\ proc'[p].scale = proc[p].scale
                          /\ proc'[p].signed = proc[p].signed
                          /\ proc'[p].st = IF p \in Native THEN "dying" ELSE proc[p].st
        OBVIOUS
      <4>1. CASE p \in Native
        BY <1>6, <3>1, <4>1 DEF Responders
      <4>2. CASE p \notin Native
        BY <1>6, <3>1, <4>2 DEF Responders
      <4> QED BY <4>1, <4>2
    <3>3. proc' \in [Pids -> Responders]
      BY <2>2, <3>1, <3>2
    <3> QED BY <3>2, <3>3
  <2> QED BY <2>1, <2>2 DEF Stop
<1>8. box' \in Responders /\ Alive(box)' = Alive(box)
  BY <1>6 DEF Stop, Responders, Alive
<1>9. Live' = Live /\ Native' = Native
  BY <1>7 DEF Live, Native, Alive
<1>10. TypeInv'
  BY <1>1, <1>4, <1>5, <1>7, <1>8 DEF TypeInv, files
<1>11. OnePort' /\ Phases' /\ Unfit'
  <2>1. cmd.runtime \in {"native", "docker"} /\ cmd.name \in {"up", "down", "replace"}
    BY <1>1 DEF Cmds
  <2>2. After = "clear" => cmd.runtime = "native"
    BY <1>1, <2>1 DEF After, Phases
  <2>3. cmd.name = "down" => After = "done"
    BY <1>1 DEF After, Phases
  <2> QED BY <1>1, <1>3, <1>4, <1>8, <1>9, <2>2, <2>3 DEF OnePort, Phases, Unfit, files
<1>12. Current => Current'
  BY <1>1, <1>3, <1>4, <1>7, <1>9 DEF Current, Live, files
<1>13. Down'
  <2> SUFFICES ASSUME Downed', ~(cmd.runtime = "native" /\ cmd.met)
               PROVE  Remaining' = {} /\ ~Alive(box)'
    BY <1>4 DEF Down
  <2>1. cmd.name = "down" /\ ~blind' /\ ~blind
    BY <1>4, <1>5 DEF Downed
  <2>2. ~Alive(box)
    BY <1>1, <2>1 DEF Phases, TypeInv, Cmds
  <2>3. \A p \in Pids : proc'[p].st \notin {"boot", "up"}
    <3>1. CASE Nothing /\ UNCHANGED <<proc, box>>
      <4>1. Live = {}
        BY <2>1, <3>1, NothingLives
      <4> QED BY <3>1, <4>1 DEF Live, Alive
    <3>2. ASSUME NEW r \in Answering,
                 proc' = [p \in Pids |-> IF p \in Native THEN [proc[p] EXCEPT !.st = "dying"]
                                                          ELSE proc[p]]
          PROVE  \A p \in Pids : proc'[p].st \notin {"boot", "up"}
      <4>1. PICK q \in Live : q \in Native
        BY <2>2, <3>2, AnswersLive
      <4>2. \A p \in Live : p = q
        BY <2>1, <4>1 DEF Current
      <4> QED BY <1>6, <3>2, <4>1, <4>2 DEF Live, Alive, Responders
    <3> QED BY <3>1, <3>2 DEF Stop
  <2> QED BY <1>8, <2>2, <2>3 DEF Remaining, Alive
<1> QED BY <1>5, <1>10, <1>11, <1>12, <1>13

\* Every step keeps the invariant.
LEMMA NextInv ==
    ASSUME EstateInv, [Next]_vars
    PROVE  EstateInv'
<1>1. CASE UNCHANGED vars
  <2>1. UNCHANGED <<code, image, proc, box, pidfile, sigfile, cmd, blind>>
    BY <1>1 DEF vars, files
  <2> QED BY <2>1, Unmoved
          DEF EstateInv, TypeInv, Phases, Down, Downed, Current, Unfit
<1>2. CASE Step
  BY <1>2, ShellInv, AskInv, RemoveInv, KillInv, StopInv, ClearInv, SpawnInv, WritePidInv,
     SignInv, CleanInv, RunInv, ReadyInv DEF Step
<1>3. CASE Responder
  BY <1>3, BoxInv, BindInv, ExitInv DEF Responder
<1>4. CASE Cut \/ Edit \/ \E p \in Pids : Dies(p)
  BY <1>4, CutInv, EditInv, DiesInv
<1>5. CASE \E name \in {"up", "down", "replace"}, runtime \in Runtimes, scale \in Scales,
              force \in BOOLEAN : Command(name, runtime, scale, force)
  BY <1>5, CommandInv
<1> QED BY <1>1, <1>2, <1>3, <1>4, <1>5 DEF Next

\* The inductive invariant holds always.
THEOREM EstateAlways == Spec => []EstateInv
  BY InitInv, NextInv, PTL DEF Spec

------------------------------------------------------------------------------
(* The properties *)

\* A `down` that was told the truth leaves no responder that answers, is about to,
\* or comes back (netsim_down), whatever ran before it.
THEOREM DownStopsAlways == Spec => []DownStops
<1>1. EstateInv => DownStops
  BY DEF EstateInv, Down, DownStops
<1> QED BY <1>1, EstateAlways, PTL

\* What UpIsFresh says of a step.
Fresh ==
    (Ended("ok") \/ Ended("reused")) /\ cmd.name # "down" /\ ~blind =>
        \A r \in Answering :
           IF cmd.runtime = "native"
           THEN r = box \/ (r.code >= cmd'.sig /\ r.scale.fleet = cmd.scale.fleet)
           ELSE r = box /\ r.code = image /\ r.scale = cmd.scale

\* Only the kept responder of Ask and the answer Ready waits for end an `up`.
LEMMA WhereUpEnds ==
    ASSUME EstateInv, Next, Ended("ok") \/ Ended("reused"), cmd.name # "down"
    PROVE  \/ Ask /\ Ended("reused")
           \/ Ready /\ ~Silence
<1>1. TypeInv
  BY DEF EstateInv
<1>2. cmd.at # "done" /\ cmd'.at = "done" /\ cmd'.how \in {"ok", "reused"}
  BY DEF Ended
<1>3. ASSUME NEW label \in Labels, label # "done"
      PROVE  ~At(label)
  BY <1>1, <1>2, <1>3, AtFields
<1>4. ~Ends("cut") /\ ~Ends("failed")
  BY <1>1, <1>2, EndsFields
<1>5. {"ask", "clean", "kill", "stop", "spawn", "sign", "ready", "run"} \subseteq Labels \ {"done"}
  BY DEF Labels
<1>6. ~Shell /\ ~Remove /\ ~Kill /\ ~Clear /\ ~WritePid /\ ~Sign /\ ~Clean /\ ~Run /\ ~Cut
  BY <1>3, <1>4, <1>5 DEF Shell, Remove, Kill, Clear, WritePid, Sign, Clean, Run, Cut
<1>7. ~Spawn
  <2> SUFFICES ASSUME Spawn PROVE FALSE
    OBVIOUS
  <2>1. PICK p \in Pids : cmd' = [cmd EXCEPT !.at = "pid", !.pid = p]
    BY DEF Spawn
  <2> QED BY <1>1, <1>2, <2>1 DEF TypeInv, Cmds
<1>8. ~Stop
  <2> SUFFICES ASSUME Stop PROVE FALSE
    OBVIOUS
  <2>1. cmd' = [cmd EXCEPT !.at = After, !.how = "ok", !.down = FALSE] /\ cmd \in Cmds
    BY <1>1 DEF Stop, Return, TypeInv
  <2>2. cmd.name \in {"up", "replace"}
    BY <2>1 DEF Cmds
  <2>3. After # "done"
    BY <2>2 DEF After
  <2> QED BY <1>2, <2>1, <2>3 DEF Cmds
<1>9. ~Responder /\ ~Edit /\ ~(\E p \in Pids : Dies(p))
  BY <1>2 DEF Responder, BoxBoots, BoxRestarts, Bind, Exit, Edit, Dies
<1>10. ASSUME NEW name, NEW runtime, NEW scale, NEW force
       PROVE  ~Command(name, runtime, scale, force)
  BY <1>2 DEF Command
<1>11. Ask \/ Ready
  BY <1>6, <1>7, <1>8, <1>9, <1>10 DEF Next, Step
<1>12. Ask => Ended("reused")
  <2> SUFFICES ASSUME Ask PROVE cmd'.how = "reused"
    BY <1>2 DEF Ended
  <2>1. cmd \in Cmds
    BY <1>1 DEF TypeInv
  <2> QED BY <1>2, <2>1 DEF Ask, Cmds
<1>13. Ready => ~Silence
  BY <1>4 DEF Ready
<1> QED BY <1>11, <1>12, <1>13

\* One answer at most: the container, or the one native responder.
LEMMA OneAnswers ==
    ASSUME EstateInv, NEW r \in Answering
    PROVE  \/ r = box /\ Alive(box) /\ Native = {}
           \/ \E p \in Native : r = proc[p] /\ p \in Live /\ Native = {p} /\ ~Alive(box)
  BY DEF EstateInv, OnePort, Answering, Native, Live, Alive

\* What answers when an `up` ends is what it asked for.
LEMMA FreshStep ==
    ASSUME EstateInv, Next
    PROVE  Fresh
<1> SUFFICES ASSUME Ended("ok") \/ Ended("reused"), cmd.name # "down", ~blind,
                    NEW r \in Answering
             PROVE  IF cmd.runtime = "native"
                    THEN r = box \/ (r.code >= cmd'.sig /\ r.scale.fleet = cmd.scale.fleet)
                    ELSE r = box /\ r.code = image /\ r.scale = cmd.scale
  BY DEF Fresh
<1>1. TypeInv /\ OnePort /\ Phases /\ Current /\ cmd \in Cmds
  BY DEF EstateInv, TypeInv
<1>2. CASE Ask /\ Ended("reused")
  <2>1. cmd.at = "ask" /\ cmd.runtime = "native"
    BY <1>1, <1>2 DEF Ask, Phases
  <2>2. PICK s \in Answering : Reuses(s) /\ cmd'.sig = code
    <3>1. cmd' # [cmd EXCEPT !.sig = code, !.at = "rm"] /\ cmd' # [cmd EXCEPT !.sig = code, !.at = "spawn"]
      BY <1>1, <1>2 DEF Ended, Cmds
    <3>2. PICK s \in Answering : /\ Reuses(s)
                                 /\ cmd' = [cmd EXCEPT !.sig = code, !.at = "done", !.how = "reused"]
      BY <1>2, <3>1 DEF Ask
    <3> QED BY <1>1, <3>2 DEF Cmds
  <2>3. r # box => r = s
    BY OneAnswers
  <2>4. CASE r = s /\ r # box
    <3>1. PICK p \in Live : r = proc[p]
      BY <2>4, OneAnswers
    <3> QED BY <1>1, <2>1, <2>2, <2>4, <3>1 DEF Current, Reuses
  <2> QED BY <2>1, <2>3, <2>4
<1>3. CASE Ready /\ ~Silence
  <2>1. cmd.at = "ready" /\ cmd.runtime \in {"native", "docker"}
    BY <1>1, <1>3 DEF Ready, Cmds
  <2>2. cmd'.sig = cmd.sig
    BY <1>1, <1>3, EndsFields DEF Ready
  <2>3. CASE cmd.runtime = "native"
    BY <1>1, <2>1, <2>2, <2>3, OneAnswers DEF Current
  <2>4. CASE cmd.runtime = "docker"
    BY <1>1, <2>1, <2>4, OneAnswers DEF Phases
  <2> QED BY <2>1, <2>3, <2>4
<1> QED BY <1>2, <1>3, WhereUpEnds

\* An `up` that was told the truth leaves a responder of the code it found, at its
\* scale, never a stale one (_netsim_up_native, _netsim_up_container).
THEOREM UpIsFreshAlways == Spec => UpIsFresh
<1>1. EstateInv /\ [Next]_vars => [Fresh]_vars
  BY FreshStep
<1> QED BY <1>1, EstateAlways, PTL DEF Spec, UpIsFresh, Fresh

\* A signed responder of this code at this scale is not on its way out.
LEMMA KeptStep ==
    ASSUME EstateInv, cmd.name = "up", ~cmd.force, ~blind, cmd.at \in {"kill", "stop"},
           NEW p \in Pids, proc[p].signed, proc[p].st = "up",
           proc[p].scale.fleet = cmd.scale.fleet, proc[p].code = cmd.sig
    PROVE  FALSE
<1>1. Current /\ Unfit /\ OnePort
  BY DEF EstateInv
<1>2. p \in Live /\ p \in Native
  BY DEF Live, Native, Alive
<1>3. sigfile = cmd.sig
  BY <1>1, <1>2 DEF Current
<1>4. ~Alive(box)
  BY <1>1, <1>2 DEF OnePort
<1> QED BY <1>1, <1>2, <1>3, <1>4 DEF Unfit

\* An `up` that was told the truth leaves a responder that is what it would start
\* in service (_netsim_up_native).
THEOREM ServiceKeptAlways == Spec => ServiceKept
<1> DEFINE Kept ==
      cmd.name = "up" /\ cmd.runtime = "native" /\ ~cmd.force /\ ~blind =>
          \A p \in Pids :
             proc[p].signed /\ proc[p].st = "up" /\ proc[p].scale.fleet = cmd.scale.fleet
             /\ proc[p].code = cmd.sig /\ cmd.at \in {"kill", "stop"} /\ cmd'.at # "done"
             => proc'[p].st = "up"
<1>1. EstateInv /\ [Next]_vars => [Kept]_vars
  BY KeptStep
<1> QED BY <1>1, EstateAlways, PTL DEF Spec, ServiceKept
================================================================================
