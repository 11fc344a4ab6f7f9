------------------------------- MODULE Delivery -------------------------------
(***************************************************************************)
(* The delivery shell (deploy/piggyback/serve.py), run natively: it spawns  *)
(* one process per estate host and the fleet manager (fleet/serve.py),      *)
(* waits for them, opens its agent port and its panel, and delivers what    *)
(* they answer, as piggyback blocks of one answer or as one file per host.  *)
(* estate.py starts a shell and stops it through a pid file, so that an old *)
(* shell that is still going down can meet the new one; what the two share  *)
(* is the ports, the files and the children an earlier shell left behind.   *)
(*                                                                         *)
(* A host's answer is the number of toggles its process knows of: those it   *)
(* took and those it found in its state file, which may lag behind (module   *)
(* StateFile has the saves).  A process that ends while it answers leaves    *)
(* the beginning of an answer.  The shell's own section, which needs no      *)
(* child, and the cascade's timeline (module Cascade) are left out.          *)
(***************************************************************************)
EXTENDS Naturals, Sequences, SequencesExt, FiniteSets

CONSTANTS
    Order,          \* the roster: hosts with a process of their own
    FleetOrder,     \* the hosts the fleet manager answers for
    MaxShells,      \* shells, started one after the other
    Modes,          \* DELIVERY_MODE, ESTATE_FLEET, hosts whose script does not exist
    MaxToggles,     \* bounds: toggles of a process, by delivery; whatever goes
    MaxFails, MaxSignals    \* wrong is a fail

Shells == 1..MaxShells
Kids   == ToSet(Order)
Bulk   == ToSet(FleetOrder)
Hosts  == Kids \cup Bulk
Fleet  == "fleet"
Procs  == Kids \cup {Fleet}

\* FleetHost duck-types Child: its process is the manager's.
Proc(h) == IF h \in Bulk THEN Fleet ELSE h

ASSUME DeliveryAssumption ==
    /\ IsInjective(Order)
    /\ Order \in Seq(Kids) /\ FleetOrder \in Seq(Bulk)
    /\ Fleet \notin Hosts /\ Kids \cap Bulk = {}
    /\ Modes \subseteq [delivery : {"piggyback", "datasource"}, fleet : BOOLEAN,
                       missing : SUBSET Kids]
    /\ MaxToggles \in [{"piggyback", "datasource"} -> Nat]
    /\ {MaxShells, MaxFails, MaxSignals} \subseteq Nat

VARIABLES
    mode,
    pidfile,    \* the shell PIDFILE_SHELL names, 0 for none
    main,       \* shell -> where its main thread is, what is left of its loop
    ports,      \* the shell that holds AGENT_PORT and HTTP_PORT, 0 for none
    child,      \* shell -> process -> how far the process it spawned is
    handle,     \* shell -> the processes whose Popen it holds
    carried,    \* shell -> CHILDREN
    job,        \* shell -> thread -> the pass over the agent files it is in
    poll,       \* the agent request under way
    takes,      \* shell -> process -> toggles it knows of
    known,      \* process -> the most toggles one of its name knew of
    files, tmp, \* host -> its agent file, and the temporary file beside it
    lost,       \* history: polls without an answer
    signals,    \* history: shell that runs -> SIGTERMs it was sent
    fails

shells == <<pidfile, main, ports, handle, carried>>
memory == <<takes, known>>
kids   == <<child, memory>>
disk   == <<files, tmp>>
polls  == <<poll, lost>>
bounds == <<signals, fails>>
vars   == <<mode, shells, kids, job, polls, disk, bounds>>

\* An answer, of the process of one shell; all of it or its beginning.
Threads == {"main", "writer"}
Content(kind, of, n) == [kind |-> kind, of |-> of, takes |-> n]
None  == Content("none", 0, 0)
Torn  == Content("torn", 0, 0)
NoTmp == [by |-> <<0, "main">>, data |-> None]

At(label, todo) == [pc |-> label, todo |-> todo]
Goto(s, label, todo) == main' = [main EXCEPT ![s] = At(label, todo)]
Pass(label, todo) == [at |-> label, todo |-> todo, got |-> None]
NoPoll == [on |-> FALSE, todo |-> <<>>, out |-> {}, cut |-> {}, silent |-> {}]

\* What a shell spawns, in this order.
Spawned == IF mode.fleet THEN Append(Order, Fleet) ELSE Order

\* A process listens on p's port until it is gone, and answers while it is up.
Bound(p)   == \E s \in Shells : child[s][p] \in {"up", "dying"}
Answers(p) == \E s \in Shells : child[s][p] = "up"

Running(s) == main[s].pc \notin {"off", "done"}
Serving(s) == main[s].pc = "serve"
Hears(s)   == Running(s) /\ main[s].pc # "end"      \* has not left main() yet

Init ==
    /\ mode \in Modes /\ pidfile = 0 /\ ports = 0
    /\ main = [s \in Shells |-> At("off", <<>>)]
    /\ child = [s \in Shells |-> [p \in Procs |-> "none"]]
    /\ handle = [s \in Shells |-> {}] /\ carried = [s \in Shells |-> Order]
    /\ job = [s \in Shells |-> [w \in Threads |-> Pass("off", <<>>)]]
    /\ poll = NoPoll /\ lost = 0
    /\ takes = [s \in Shells |-> [p \in Procs |-> 0]] /\ known = [p \in Procs |-> 0]
    /\ files = [h \in Hosts |-> None] /\ tmp = [h \in Hosts |-> NoTmp]
    /\ signals = [s \in Shells |-> 0] /\ fails = 0

------------------------------------------------------------------------------
(* estate.py: shell_up and shell_down with --runtime native *)

\* A shell that is still going down no longer has a pid file.
Up(s) ==
    /\ main[s].pc = "off" /\ \A r \in 1..(s - 1) : main[r].pc # "off"
    /\ pidfile \notin {r \in Shells : Running(r)}
    /\ pidfile' = s
    /\ Goto(s, "spawn", Spawned)
    /\ UNCHANGED <<mode, ports, kids, handle, carried, job, polls, disk, bounds>>

\* SIGTERM raises KeyboardInterrupt in the main thread: into the finally clause,
\* or, when it is there already, out of it and to the end of the process.
Signal(s) ==
    /\ Hears(s) /\ signals[s] < MaxSignals
    /\ signals' = [signals EXCEPT ![s] = @ + 1]
    /\ IF main[s].pc = "reap" THEN Goto(s, "end", main[s].todo)
                              ELSE Goto(s, "reap", Spawned)
    /\ job' = [job EXCEPT ![s]["main"] = Pass("off", <<>>)]
    /\ UNCHANGED <<mode, ports, kids, handle, carried, polls, disk, fails>>

\* shell_down: the pid file goes at once, the shell in its own time.
Down ==
    /\ pidfile # 0 /\ pidfile' = 0
    /\ \/ Signal(pidfile)
       \/ ~Hears(pidfile) /\ UNCHANGED <<mode, main, ports, kids, handle, carried,
                                         job, polls, disk, bounds>>

\* A SIGTERM from elsewhere, or ^C.
Interrupt(s) == Signal(s) /\ UNCHANGED pidfile

------------------------------------------------------------------------------
(* The children *)

\* What it knew is gone, but for what its state file has of it.
Ends(s, p) ==
    /\ child' = [child EXCEPT ![s][p] = "gone"]
    /\ takes' = [takes EXCEPT ![s][p] = 0] /\ UNCHANGED known

\* The agent port is taken: OSError, and the child is gone again.  It has
\* loaded its state file before, which can be as old as it likes: a toggle and
\* its save are two steps, an older snapshot may replace a newer one, and an
\* unreadable file is no toggle.
ChildBinds(s, p) ==
    /\ child[s][p] = "start"
    /\ IF Bound(p) THEN Ends(s, p)
       ELSE /\ child' = [child EXCEPT ![s][p] = "up"] /\ UNCHANGED known
            /\ \E n \in 0..known[p] : takes' = [takes EXCEPT ![s][p] = n]
    /\ UNCHANGED <<mode, shells, job, polls, disk, bounds>>

ChildExits(s, p) ==
    /\ child[s][p] = "dying" /\ Ends(s, p)
    /\ UNCHANGED <<mode, shells, job, polls, disk, bounds>>

\* Of an error or for lack of memory; nothing starts it again.
ChildDies(s, p) ==
    /\ child[s][p] \in {"start", "up"} /\ Ends(s, p)
    /\ fails < MaxFails /\ fails' = fails + 1
    /\ UNCHANGED <<mode, shells, job, polls, disk, signals>>

\* It dies, or feels the SIGTERM it was sent, in the middle of an answer.
EndsMidway(s, p) ==
    /\ \/ child[s][p] = "dying" /\ UNCHANGED fails
       \/ child[s][p] = "up" /\ fails < MaxFails /\ fails' = fails + 1
    /\ Ends(s, p)

\* A panel request or the cascade, whose scheduler runs from "bind" on; a
\* child that does not answer is only reported.
Toggle(s, h) ==
    /\ main[s].pc \in {"bind", "pass", "serve", "reap"}
    /\ \E r \in Shells :
          /\ child[r][h] = "up" /\ takes[r][h] < MaxToggles[mode.delivery]
          /\ takes' = [takes EXCEPT ![r][h] = @ + 1]
          /\ known' = [known EXCEPT ![h] = IF @ > takes[r][h] THEN @ ELSE takes[r][h] + 1]
    /\ UNCHANGED <<mode, shells, child, job, polls, disk, bounds>>

------------------------------------------------------------------------------
(* main() of the shell *)

\* The child exists; Popen has not returned.
Fork(s) ==
    LET p == Head(main[s].todo) IN
    /\ main[s].pc = "spawn" /\ main[s].todo # <<>>
    /\ IF p \in mode.missing THEN Goto(s, "spawn", Tail(main[s].todo)) /\ UNCHANGED child
                        ELSE Goto(s, "forked", main[s].todo)
                             /\ child' = [child EXCEPT ![s][p] = "start"]
    /\ UNCHANGED <<mode, pidfile, ports, memory, handle, carried, job, polls, disk, bounds>>

\* self.proc = Popen(...)
Keep(s) ==
    /\ main[s].pc = "forked"
    /\ handle' = [handle EXCEPT ![s] = @ \cup {Head(main[s].todo)}]
    /\ Goto(s, "spawn", Tail(main[s].todo))
    /\ UNCHANGED <<mode, pidfile, ports, kids, carried, job, polls, disk, bounds>>

\* p's port is open, or the time it is given has passed.
OpenOrLate(s, p) ==
    \/ Bound(p) /\ UNCHANGED fails
    \/ ~Bound(p) /\ child[s][p] = "gone" /\ UNCHANGED fails
    \/ ~Bound(p) /\ fails < MaxFails /\ fails' = fails + 1

\* Child.wait_ready, whose result nobody asks for.
WaitReady(s) ==
    LET p == Head(main[s].todo) IN
    /\ main[s].pc = "wait" /\ main[s].todo # <<>> /\ p # Fleet
    /\ IF p \in mode.missing THEN UNCHANGED fails ELSE OpenOrLate(s, p)
    /\ Goto(s, "wait", Tail(main[s].todo))
    /\ UNCHANGED <<mode, pidfile, ports, kids, handle, carried, job, polls, disk,
                   signals>>

\* FleetManager.roster: the hosts of a late manager are never carried; one that
\* ends in its answer raises IncompleteRead, which leads to the finally clause.
AskRoster(s) ==
    /\ main[s].pc = "wait" /\ main[s].todo = <<Fleet>>
    /\ \/ /\ OpenOrLate(s, Fleet) /\ Goto(s, "wait", <<>>) /\ UNCHANGED kids
          /\ carried' = [carried EXCEPT ![s] = IF Bound(Fleet) THEN @ \o FleetOrder ELSE @]
       \/ /\ \E r \in Shells : EndsMidway(r, Fleet)
          /\ Goto(s, "reap", Spawned) /\ UNCHANGED carried
    /\ UNCHANGED <<mode, pidfile, ports, handle, job, polls, disk, signals>>

\* From one loop to the next.
Advance(s) ==
    /\ main[s].todo = <<>>
    /\ \/ main[s].pc = "spawn" /\ Goto(s, "wait", Spawned)
       \/ main[s].pc = "wait"  /\ Goto(s, "bind", <<>>)
       \/ main[s].pc = "reap"  /\ Goto(s, "end", <<>>)
    /\ UNCHANGED <<mode, pidfile, ports, kids, handle, carried, job, polls, disk, bounds>>

\* Mutant: the port is shared (SO_REUSEPORT).
BindShared(s) ==
    /\ main[s].pc = "bind" /\ ports' = s
    /\ Goto(s, IF mode.delivery = "datasource" THEN "pass" ELSE "serve", <<>>)
    /\ job' = IF mode.delivery = "datasource"
              THEN [job EXCEPT ![s]["main"] = Pass("dir", <<>>)] ELSE job
    /\ UNCHANGED <<mode, pidfile, kids, handle, carried, polls, disk, bounds>>

\* AgentServer and ThreadingHTTPServer: an old shell that is still there has
\* the ports, and the OSError leads to the finally clause.
Bind(s) ==
    /\ main[s].pc = "bind"
    /\ \/ /\ ports # 0 /\ Goto(s, "reap", Spawned)
          /\ UNCHANGED <<ports, job>>
       \/ /\ ports = 0 /\ ports' = s
          /\ Goto(s, IF mode.delivery = "datasource" THEN "pass" ELSE "serve", <<>>)
          /\ job' = IF mode.delivery = "datasource"
                    THEN [job EXCEPT ![s]["main"] = Pass("dir", <<>>)] ELSE job
    /\ UNCHANGED <<mode, pidfile, kids, handle, carried, polls, disk, bounds>>

\* Mutant: the manager is forgotten.
TerminateChildren(s) ==
    LET p == Head(main[s].todo) IN
    /\ main[s].pc = "reap" /\ main[s].todo # <<>>
    /\ child' = [child EXCEPT ![s][p] =
                    IF p \in handle[s] \ {Fleet} /\ @ \in {"start", "up"} THEN "dying" ELSE @]
    /\ Goto(s, "reap", Tail(main[s].todo))
    /\ UNCHANGED <<mode, pidfile, ports, memory, handle, carried, job, polls, disk, bounds>>

\* Child.terminate for each child, then the manager's; only what it has a
\* handle of, and only what still runs.
Terminate(s) ==
    LET p == Head(main[s].todo) IN
    /\ main[s].pc = "reap" /\ main[s].todo # <<>>
    /\ child' = [child EXCEPT ![s][p] =
                    IF p \in handle[s] /\ @ \in {"start", "up"} THEN "dying" ELSE @]
    /\ Goto(s, "reap", Tail(main[s].todo))
    /\ UNCHANGED <<mode, pidfile, ports, memory, handle, carried, job, polls, disk, bounds>>

\* The daemon threads end with the process, the children do not.
End(s) ==
    /\ main[s].pc = "end"
    /\ Goto(s, "done", <<>>)
    /\ signals' = [signals EXCEPT ![s] = 0]
    /\ handle' = [handle EXCEPT ![s] = {}] /\ carried' = [carried EXCEPT ![s] = Order]
    /\ ports' = IF ports = s THEN 0 ELSE ports
    /\ poll'  = IF ports = s THEN NoPoll ELSE poll
    /\ job'   = [job EXCEPT ![s] = [w \in Threads |-> Pass("off", <<>>)]]
    /\ UNCHANGED <<mode, pidfile, kids, lost, disk, fails>>

------------------------------------------------------------------------------
(* write_agent_files, by the main thread before the panel opens and by the    *)
(* writer thread ever after                                                   *)

Work(s, w, pass) == job' = [job EXCEPT ![s][w] = pass]
InHand(s, w) == Head(job[s][w].todo)
Skip(s, w) == Work(s, w, Pass("fetch", Tail(job[s][w].todo)))

\* An exception leaves the pass: the writer thread is over, the main thread is
\* in its finally clause.
Lose(s, w) ==
    /\ Work(s, w, Pass("lost", <<>>))
    /\ IF w = "main" THEN Goto(s, "reap", Spawned) ELSE UNCHANGED main

\* os.makedirs; an OSError there is not caught.
MakeDir(s, w) ==
    /\ job[s][w].at = "dir"
    /\ \/ Work(s, w, Pass("fetch", carried[s])) /\ UNCHANGED <<main, fails>>
       \/ Lose(s, w) /\ fails < MaxFails /\ fails' = fails + 1
    /\ UNCHANGED <<mode, pidfile, ports, kids, handle, carried, polls, disk,
                   signals>>

\* No answer of h: its process is not up or too slow.
Silent(h) ==
    \/ ~Answers(Proc(h)) /\ UNCHANGED fails
    \/ Answers(Proc(h)) /\ fails < MaxFails /\ fails' = fails + 1

\* Without an answer the last good file is kept.  The end of a child is the end
\* of its answer (Child.fetch_agent); the fleet manager says how long its
\* answers are, and IncompleteRead is not an OSError.
Fetch(s, w) ==
    LET h == InHand(s, w)
        Hand(kind, r) == Work(s, w, [job[s][w] EXCEPT
                            !.at = "open", !.got = Content(kind, r, takes[r][Proc(h)])])
    IN
    /\ job[s][w].at = "fetch" /\ job[s][w].todo # <<>>
    /\ \/ \E r \in Shells :
             /\ child[r][Proc(h)] = "up" /\ UNCHANGED <<main, kids, fails>>
             /\ Hand("whole", r)
       \/ Silent(h) /\ Skip(s, w) /\ UNCHANGED <<main, kids>>
       \/ \E r \in Shells :
             /\ EndsMidway(r, Proc(h))
             /\ IF h \in Kids THEN Hand("cut", r) /\ UNCHANGED main ELSE Lose(s, w)
    /\ UNCHANGED <<mode, pidfile, ports, handle, carried, polls, disk, signals>>

Open(s, w) ==
    /\ job[s][w].at = "open"
    /\ tmp' = [tmp EXCEPT ![InHand(s, w)] = [by |-> <<s, w>>, data |-> Torn]]
    /\ Work(s, w, [job[s][w] EXCEPT !.at = "fill"])
    /\ UNCHANGED <<mode, shells, kids, polls, files, bounds>>

\* A second writer of one temporary file spoils it, or the file it has become.
Fill(s, w) ==
    LET h == InHand(s, w) IN
    /\ job[s][w].at = "fill"
    /\ IF tmp[h].data.kind = "none"
       THEN files' = [files EXCEPT ![h] = Torn] /\ UNCHANGED tmp
       ELSE /\ tmp' = [tmp EXCEPT ![h].data =
                          IF tmp[h].by = <<s, w>> THEN job[s][w].got ELSE Torn]
            /\ UNCHANGED files
    /\ Work(s, w, [job[s][w] EXCEPT !.at = "rename"])
    /\ UNCHANGED <<mode, shells, kids, polls, bounds>>

Rename(s, w) ==
    LET h == InHand(s, w) IN
    /\ job[s][w].at = "rename"
    /\ IF tmp[h].data.kind = "none" THEN UNCHANGED disk
       ELSE /\ files' = [files EXCEPT ![h] = tmp[h].data]
            /\ tmp' = [tmp EXCEPT ![h] = NoTmp]
    /\ Skip(s, w)
    /\ UNCHANGED <<mode, shells, kids, polls, bounds>>

\* Mutant: the error leaves _write_file, and ends the thread.
EscapingError(s, w) ==
    /\ job[s][w].at \in {"open", "fill", "rename"} /\ fails < MaxFails
    /\ fails' = fails + 1
    /\ Work(s, w, Pass("off", <<>>))
    /\ UNCHANGED <<mode, shells, kids, polls, disk, signals>>

\* An OSError in _write_file costs this host's refresh.
WriteFails(s, w) ==
    /\ job[s][w].at \in {"open", "fill", "rename"} /\ fails < MaxFails
    /\ fails' = fails + 1
    /\ Skip(s, w)
    /\ UNCHANGED <<mode, shells, kids, polls, disk, signals>>

\* The first pass opens the panel and starts the writer, which sleeps.
PassEnds(s, w) ==
    /\ job[s][w].at = "fetch" /\ job[s][w].todo = <<>>
    /\ job' = [job EXCEPT ![s]["main"] = Pass("off", <<>>),
                          ![s]["writer"] = Pass("sleep", <<>>)]
    /\ IF w = "main" THEN Goto(s, "serve", <<>>) ELSE UNCHANGED main
    /\ UNCHANGED <<mode, pidfile, ports, kids, handle, carried, polls, disk, bounds>>

Wake(s) ==
    /\ job[s]["writer"].at = "sleep"
    /\ Work(s, "writer", Pass("dir", <<>>))
    /\ UNCHANGED <<mode, shells, kids, polls, disk, bounds>>

------------------------------------------------------------------------------
(* AgentHandler: build_delivery_output of the shell that has the port.  With  *)
(* agent files its answer is the shell's own section only.                    *)

Poll ==
    /\ ports # 0 /\ ~poll.on /\ mode.delivery = "piggyback"
    /\ poll' = [NoPoll EXCEPT !.on = TRUE, !.todo = carried[ports]]
    /\ UNCHANGED <<mode, shells, kids, job, lost, disk, bounds>>

\* Mutant: the manager's answers carry no length.
BlockUnsized ==
    LET h == Head(poll.todo) IN
    /\ poll.on /\ poll.todo # <<>>
    /\ \/ /\ Answers(Proc(h)) /\ UNCHANGED <<kids, lost, fails>>
          /\ poll' = [poll EXCEPT !.todo = Tail(@), !.out = @ \cup {h}]
       \/ /\ Silent(h) /\ UNCHANGED <<kids, lost>>
          /\ poll' = [poll EXCEPT !.todo = Tail(@), !.silent = @ \cup {h}]
       \/ /\ \E r \in Shells : EndsMidway(r, Proc(h))
          /\ poll' = [poll EXCEPT !.todo = Tail(@), !.cut = @ \cup {h}]
          /\ UNCHANGED lost
    /\ UNCHANGED <<mode, shells, job, disk, signals>>

\* One host: its block, the beginning of it, or nothing rather than garbage; an
\* IncompleteRead leaves the loop and the handler, and nothing was sent yet.
Block ==
    LET h == Head(poll.todo) IN
    /\ poll.on /\ poll.todo # <<>>
    /\ \/ /\ Answers(Proc(h)) /\ UNCHANGED <<kids, lost, fails>>
          /\ poll' = [poll EXCEPT !.todo = Tail(@), !.out = @ \cup {h}]
       \/ /\ Silent(h) /\ UNCHANGED <<kids, lost>>
          /\ poll' = [poll EXCEPT !.todo = Tail(@), !.silent = @ \cup {h}]
       \/ /\ \E r \in Shells : EndsMidway(r, Proc(h))
          /\ IF h \in Kids
             THEN poll' = [poll EXCEPT !.todo = Tail(@), !.cut = @ \cup {h}] /\ UNCHANGED lost
             ELSE poll' = NoPoll /\ lost' = lost + 1
    /\ UNCHANGED <<mode, shells, job, disk, signals>>

Answered ==
    /\ poll.on /\ poll.todo = <<>>
    /\ poll' = NoPoll
    /\ UNCHANGED <<mode, shells, kids, job, lost, disk, bounds>>

------------------------------------------------------------------------------

Boot(s) ==
    \/ Fork(s) \/ Keep(s) \/ WaitReady(s) \/ AskRoster(s) \/ Advance(s) \/ Bind(s)
    \/ Terminate(s) \/ End(s)
File(s, w) ==
    \/ MakeDir(s, w) \/ Fetch(s, w) \/ Open(s, w) \/ Fill(s, w) \/ Rename(s, w)
    \/ PassEnds(s, w)
Process(s, p) == ChildBinds(s, p) \/ ChildExits(s, p)

Next ==
    \/ Down \/ Poll \/ Block \/ Answered
    \/ \E s \in Shells :
          \/ Up(s) \/ Interrupt(s) \/ Boot(s) \/ Wake(s)
          \/ \E w \in Threads : File(s, w) \/ WriteFails(s, w)
          \/ \E p \in Procs : Process(s, p) \/ ChildDies(s, p)
          \/ \E h \in Kids : Toggle(s, h)

Spec == Init /\ [][Next]_vars

\* Threads and processes that can go on do; nobody need toggle, poll or signal.
FairSpec ==
    /\ Spec
    /\ \A s \in Shells :
          /\ WF_vars(Boot(s) \/ File(s, "main"))
          /\ WF_vars(Wake(s) \/ File(s, "writer"))
          /\ \A p \in Procs : WF_vars(Process(s, p))

------------------------------------------------------------------------------
(* Properties *)

\* An agent file, once written, is a whole answer, or the beginning of one of a
\* child that has ended, and no older than an answer of the same process was,
\* whatever shells follow one another and however long the last one takes to go
\* (_write_file, Child.fetch_agent; the ports keep a second writer out).
AgentFilesWhole ==
    [][\A h \in Hosts :
          LET was == files[h]  is == files'[h] IN
          is # was => /\ \/ is.kind = "whole"
                         \/ is.kind = "cut" /\ h \in Kids /\ child[is.of][h] = "gone"
                      /\ is.of = was.of => is.takes >= was.takes]_files

\* A host that was toggled comes to show it in its agent file, unless the child
\* that took the toggle ends, no shell delivers files any more, or its writer
\* lost the directory or the fleet's manager in an answer (agent_file_writer,
\* _write_file).
Delivers(h, r) ==
    /\ mode.delivery = "datasource" /\ child[r][h] = "up"
    /\ \E s \in Shells : Serving(s) /\ job[s]["writer"].at # "lost"
Shows(h, r, n) == files[h].kind = "whole" /\ files[h].of = r /\ files[h].takes >= n
ToggleFiled ==
    \A h \in Kids : \A n \in 1..MaxToggles["datasource"] :
       []<>(\A r \in Shells : takes[r][h] >= n /\ Delivers(h, r) => Shows(h, r, n))

\* An answer to the agent poll has the block of every carried host, but for
\* hosts that fell silent themselves and the beginning of the block of a child
\* that has ended; and an answer is lost altogether only to the end of a fleet
\* manager, one at most to each (build_delivery_output, FleetManager.fetch_agent).
BlocksComplete ==
    /\ poll.on /\ poll.todo = <<>> =>
          ToSet(carried[ports]) = poll.out \cup poll.cut \cup poll.silent
    /\ \A h \in poll.cut : h \in Kids /\ \E r \in Shells : child[r][h] = "gone"
    /\ lost <= Cardinality({r \in Shells : child[r][Fleet] = "gone"})

\* The children and the fleet manager a shell knows of end with it, unless a
\* signal takes it out of its finally clause (main, Child.terminate).
Reaped ==
    \A s \in Shells :
       main[s].pc = "end" /\ main[s].todo = <<>> =>
           \A p \in handle[s] : child[s][p] \in {"dying", "gone"}

\* serve.py:1165-1166: the handler is installed "BEFORE spawning so a kill
\* during startup can't leak" the children.
NoneLeaked ==
    \A s \in Shells :
       main[s].pc = "end" /\ signals[s] = 1 =>
           \A p \in Procs : child[s][p] \notin {"start", "up"}
================================================================================
