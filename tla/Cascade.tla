------------------------------- MODULE Cascade -------------------------------
(***************************************************************************)
(* class Cascade of deploy/piggyback/serve.py: the scheduler thread, the    *)
(* start and heal requests of the panel's HTTP threads, the children whose  *)
(* toggles they pull, and the state file that lets a restarted shell resume *)
(* a running cascade.                                                       *)
(*                                                                          *)
(* `started_at` is the identity of a run plus its age: run r is armed at    *)
(* age 0 and Clock ages it up to MaxAge, past the last delay.  run = 0 is   *)
(* None.  Each `with self._lock` block is one action; toggles (HTTP calls)  *)
(* and file operations, made without the lock, are actions of their own.    *)
(***************************************************************************)
EXTENDS Naturals, FiniteSets

CONSTANTS
    Hosts,       \* the carried children
    NumSteps,    \* len(self.steps)
    HostOf,      \* step -> host
    ActionOf,    \* step -> "degrade" | "break" | "heal"
    DelayOf,     \* step -> scaled_delay, in clock units
    MaxAge,      \* a run's age saturates here (bound)
    Ticker,      \* the scheduler thread
    Handlers,    \* HTTP threads of the panel (bound: at most this many at once)
    MaxRuns,     \* bound: start() requests
    MaxHeals,    \* bound: heal() requests
    MaxCrashes,  \* bound: shell restarts
    MaxFailures, \* bound: toggles whose HTTP call fails
    MaxManual    \* bound: direct per-host toggles from the panel

Steps   == 1..NumSteps
Runs    == 0..MaxRuns
Threads == Handlers \cup {Ticker}
States  == {"healthy", "degraded", "broken"}
Actions == {"degrade", "break", "heal"}

ASSUME StepAssumption ==
    /\ NumSteps \in Nat \ {0}
    /\ HostOf \in [Steps -> Hosts]
    /\ ActionOf \in [Steps -> Actions]
    /\ MaxAge \in Nat
    /\ DelayOf \in [Steps -> 0..MaxAge]
\* CASCADE_STEPS is written in the order of delay_s, and self.steps keeps it.
ASSUME OrderAssumption ==
    \A s, t \in Steps : s <= t => DelayOf[s] <= DelayOf[t]
ASSUME ThreadAssumption == Ticker \notin Handlers
ASSUME BoundAssumption ==
    /\ MaxRuns \in Nat /\ MaxHeals \in Nat /\ MaxCrashes \in Nat
    /\ MaxFailures \in Nat /\ MaxManual \in Nat

VARIABLES
    active, run, fired,  \* self.active, self.started_at, self.fired
    age,                 \* run -> seconds since its start()
    runs,                \* start() requests so far
    pc,                  \* thread -> where it is
    due, dueRun,         \* the scheduler's due list and the run it was made for
    todo,                \* handler -> hosts its heal() has still to toggle
    snap,                \* thread -> the dictionary its _save took
    disk,                \* CASCADE_STATE_FILE and its .tmp
    host,                \* the children's incident states
    heals, crashes, failures, manual,  \* requests and faults so far
    attempted,           \* history: <<run, step>> whose toggle was sent
    carried,             \* history: <<run, step>> marked by another run's list
    excused              \* history: hosts something else left unhealthy

memory  == <<active, run, fired>>
faults  == <<crashes, failures, manual>>
history == <<attempted, carried, excused>>
vars == <<active, run, fired, age, runs, pc, due, dueRun, todo, snap, disk,
          host, heals, crashes, failures, manual, attempted, carried,
          excused>>

\* Distinct hosts of the steps, in step order (`participants`).
Participants == {HostOf[s] : s \in Steps}

Saved     == [active : BOOLEAN, run : Runs, fired : SUBSET Steps]
IdleSaved == [active |-> FALSE, run |-> 0, fired |-> {}]

\* A longer dump under a shorter one leaves a tail; each fired key is longer
\* than all the rest of the text can differ.
LeavesTail == {dd \in Saved \X Saved :
                 /\ dd[1] # dd[2]
                 /\ Cardinality(dd[1].fired) >= Cardinality(dd[2].fired)}

File == INSTANCE StateFile WITH Savers <- Threads, Data <- Saved,
                                Blank <- IdleSaved, Tears <- LeavesTail

\* `fired` in a snapshot is the dict itself, not a copy: shared until start,
\* heal or load installs another dict; raced if it grew while being dumped.
Snapshots == [data : Saved, shared : BOOLEAN, raced : BOOLEAN]
NoSnap    == [data |-> IdleSaved, shared |-> FALSE, raced |-> FALSE]

Labels == {"idle", "heal", "fire", "mark", "snap", "open", "write", "replace"}

Target(a) ==
    CASE a = "degrade" -> "degraded"
      [] a = "break"   -> "broken"
      [] OTHER         -> "healthy"

TypeOK ==
    /\ active \in BOOLEAN /\ run \in Runs /\ fired \in SUBSET Steps
    /\ age \in [1..MaxRuns -> 0..MaxAge] /\ runs \in Runs
    /\ pc \in [Threads -> Labels]
    /\ due \in SUBSET Steps /\ dueRun \in Runs
    /\ todo \in [Handlers -> SUBSET Hosts]
    /\ snap \in [Threads -> Snapshots]
    /\ File!DiskTypeOK
    /\ host \in [Hosts -> States]
    /\ heals \in 0..MaxHeals /\ crashes \in 0..MaxCrashes
    /\ failures \in 0..MaxFailures /\ manual \in 0..MaxManual
    /\ attempted \in SUBSET (Runs \X Steps)
    /\ carried \in SUBSET (Runs \X Steps)
    /\ excused \in SUBSET Hosts

\* A first boot: no state file, nothing armed, every child healthy.
Init ==
    /\ active = FALSE /\ run = 0 /\ fired = {}
    /\ age = [r \in 1..MaxRuns |-> 0] /\ runs = 0
    /\ pc = [p \in Threads |-> "idle"]
    /\ due = {} /\ dueRun = 0
    /\ todo = [p \in Handlers |-> {}]
    /\ snap = [p \in Threads |-> NoSnap]
    /\ disk = File!NoDisk
    /\ host = [h \in Hosts |-> "healthy"]
    /\ heals = 0 /\ crashes = 0 /\ failures = 0 /\ manual = 0
    /\ attempted = {} /\ carried = {} /\ excused = {}

-----------------------------------------------------------------------------
(* Helpers *)

Goto(p, label) == pc' = [pc EXCEPT ![p] = label]

\* self.fired = {}: snapshots in flight keep the abandoned dict.
Detached == [p \in Threads |-> [snap[p] EXCEPT !.shared = FALSE]]

\* self.fired[key] = ...: seen by the snapshots that share the dict.
Grown(s) ==
    [p \in Threads |->
        IF snap[p].shared
        THEN [snap[p] EXCEPT !.data.fired = @ \cup {s},
                             !.raced = @ \/ (pc[p] = "write" /\ fired # {})]
        ELSE snap[p]]

\* Child.toggle: the call succeeds; or it fails, and the child took it or not.
Outcomes == {"ok", "lost", "timed_out"}
ToggleCounted(o) ==
    /\ o # "ok" => failures < MaxFailures
    /\ failures' = IF o = "ok" THEN failures ELSE failures + 1
Pulled(h, a, o) ==
    IF o = "lost" THEN host ELSE [host EXCEPT ![h] = Target(a)]

-----------------------------------------------------------------------------
(* Requests of the panel *)

\* start(): the locked block; _save follows.
Start(p) ==
    /\ pc[p] = "idle" /\ runs < MaxRuns
    /\ runs' = runs + 1
    /\ active' = TRUE /\ run' = runs + 1 /\ fired' = {}
    /\ snap' = Detached
    /\ Goto(p, "snap")
    /\ UNCHANGED <<age, due, dueRun, todo, disk, host, heals, faults, history>>

\* Nothing armed, nothing fired.  Mutant: started_at is not reset.
DisarmHalf == active' = FALSE /\ fired' = {} /\ UNCHANGED run
Disarm     == active' = FALSE /\ fired' = {} /\ run' = 0

\* The hosts heal() goes through.  Mutant: only those whose step is marked.
HealListMarked == {HostOf[s] : s \in fired}
HealList       == Participants

\* heal(): the locked block.  From here on every participant is owed a heal,
\* so nothing is excused any more.
HealClear(p) ==
    /\ pc[p] = "idle" /\ heals < MaxHeals
    /\ heals' = heals + 1
    /\ Disarm
    /\ snap' = Detached
    /\ todo' = [todo EXCEPT ![p] = HealList]
    /\ excused' = {}
    /\ Goto(p, IF HealList = {} THEN "snap" ELSE "heal")
    /\ UNCHANGED <<age, runs, due, dueRun, disk, host, faults, attempted, carried>>

\* heal(): one round of the loop over the participants, outside the lock.
HealHost(p) ==
    /\ pc[p] = "heal"
    /\ \E s \in Steps, o \in Outcomes :
        LET h == HostOf[s] IN
        /\ h \in todo[p]
        /\ \A t \in Steps : t < s => HostOf[t] \notin todo[p]
        /\ ToggleCounted(o)
        /\ host' = Pulled(h, "heal", o)
        /\ excused' = IF o = "lost" THEN excused \cup {h} ELSE excused \ {h}
        /\ todo' = [todo EXCEPT ![p] = @ \ {h}]
        /\ Goto(p, IF todo[p] = {h} THEN "snap" ELSE "heal")
    /\ UNCHANGED <<memory, age, runs, due, dueRun, snap, disk, heals, crashes,
                   manual, attempted, carried>>

\* GET /admin/<host>/<action>: the operator pulls one child's own lever.
PanelToggle(h, a) ==
    /\ manual < MaxManual
    /\ manual' = manual + 1
    /\ host' = [host EXCEPT ![h] = Target(a)]
    /\ excused' = IF a = "heal" THEN excused ELSE excused \cup {h}
    /\ UNCHANGED <<memory, age, runs, pc, due, dueRun, todo, snap, disk, heals,
                   crashes, failures, attempted, carried>>

-----------------------------------------------------------------------------
(* The scheduler thread *)

\* The steps _tick finds due.  Mutants: without the check against `fired`; and
\* only at the very time of the step, so that a late tick does not catch up.
DueAgain  == {s \in Steps : active /\ run # 0 /\ age[run] >= DelayOf[s]}
DueOnTime == {s \in Steps \ fired : active /\ run # 0 /\ age[run] = DelayOf[s]}
DueNow == {s \in Steps \ fired :
             active /\ run # 0 /\ age[run] >= DelayOf[s]}

\* A due step's first move.  Mutant: it is marked before its toggle is sent.
MarkFirst == "mark"
FireFirst == "fire"

\* _tick(): the locked block that makes the due list.
TickScan ==
    /\ pc[Ticker] = "idle"
    /\ DueNow # {}
    /\ due' = DueNow /\ dueRun' = run
    /\ Goto(Ticker, FireFirst)
    /\ UNCHANGED <<memory, age, runs, todo, snap, disk, host, heals, faults,
                   history>>

\* _tick() with nothing to fire: an early return or an empty due list.
TickNothing ==
    /\ pc[Ticker] = "idle"
    /\ DueNow = {}
    /\ UNCHANGED vars

\* Mutant: the due list is worked from its end.
FromTheEnd(s) == s \in due /\ \A t \in due : s >= t

First(s) == s \in due /\ \A t \in due : s <= t

\* _fire(): the toggle, outside the lock.
FireToggle ==
    /\ pc[Ticker] = "fire"
    /\ \E s \in due, o \in Outcomes :
        /\ First(s)
        /\ ToggleCounted(o)
        /\ host' = Pulled(HostOf[s], ActionOf[s], o)
        /\ attempted' = attempted \cup {<<dueRun, s>>}
        /\ excused' = IF active \/ o = "lost" THEN excused
                      ELSE excused \cup {HostOf[s]}
    /\ Goto(Ticker, "mark")
    /\ UNCHANGED <<memory, age, runs, due, dueRun, todo, snap, disk, heals,
                   crashes, manual, carried>>

\* self.fired with step s marked.  Mutant: the whole due list is marked at once.
MarkedAll(s) == fired \cup due
Marked(s)    == fired \cup {s}

\* _fire(): the locked block, whatever the toggle answered.
FireMark ==
    /\ pc[Ticker] = "mark"
    /\ \E s \in due :
        /\ First(s)
        /\ fired' = Marked(s)
        /\ snap' = Grown(s)
        /\ due' = due \ {s}
        /\ carried' = IF run = dueRun THEN carried
                      ELSE carried \cup {<<run, s>>}
    /\ Goto(Ticker, "snap")
    /\ UNCHANGED <<active, run, age, runs, dueRun, todo, disk, host, heals,
                   faults, attempted, excused>>

-----------------------------------------------------------------------------
(* _save(), run by every thread *)

unsaved == <<memory, age, runs, due, todo, host, heals, faults, history>>

SaveSnapshot(p) ==
    /\ pc[p] = "snap"
    /\ snap' = [snap EXCEPT ![p] =
                  [data |-> [active |-> active, run |-> run, fired |-> fired],
                   shared |-> TRUE, raced |-> FALSE]]
    /\ Goto(p, "open")
    /\ UNCHANGED <<unsaved, dueRun, disk>>

SaveOpen(p) ==
    /\ pc[p] = "open"
    /\ File!OpenTmp(p)
    /\ Goto(p, "write")
    /\ UNCHANGED <<unsaved, dueRun, snap>>

SaveDump(p) ==
    /\ pc[p] = "write"
    /\ File!Dump(p, snap[p].data)
    /\ snap' = [snap EXCEPT ![p] = NoSnap]
    /\ Goto(p, "replace")
    /\ UNCHANGED <<unsaved, dueRun>>

\* A dump that stops half way, over `old`: it rewrites the beginning of the same
\* text, or leaves a mixture.
CutOver(old, d) ==
    LET sameText == /\ old.kind = "json"
                    /\ old.data.active = d.active /\ old.data.run = d.run
    IN  (IF sameText THEN {old} ELSE {}) \cup
        (IF sameText /\ d.fired \subseteq old.data.fired
         THEN {} ELSE {File!Bare("torn")})

\* "dictionary changed size during iteration": not an OSError, so it ends the
\* request.  Only the scheduler adds keys, so it never meets this itself.
SaveRaises(p) ==
    /\ pc[p] = "write" /\ snap[p].raced
    /\ \E c \in CutOver(File!Held(p), snap[p].data) : File!PutContent(p, c)
    /\ snap' = [snap EXCEPT ![p] = NoSnap]
    /\ Goto(p, "idle")
    /\ UNCHANGED <<unsaved, dueRun>>

\* os.replace; the scheduler goes on with its due list, a request ends.
SaveReplace(p) ==
    /\ pc[p] = "replace"
    /\ File!ReplaceFile
    /\ Goto(p, IF p = Ticker /\ due # {} THEN "fire" ELSE "idle")
    /\ dueRun' = IF p = Ticker /\ due = {} THEN 0 ELSE dueRun
    /\ UNCHANGED <<unsaved, snap>>

-----------------------------------------------------------------------------
(* Time, the children's own escalation, and the restart of the shell *)

Clock ==
    /\ \E r \in 1..runs : age[r] < MaxAge
    /\ age' = [r \in 1..MaxRuns |->
                 IF r <= runs /\ age[r] < MaxAge THEN age[r] + 1 ELSE age[r]]
    /\ UNCHANGED <<memory, runs, pc, due, dueRun, todo, snap, disk, host,
                   heals, faults, history>>

\* A child that stays degraded escalates by itself (HostAgent's watchdog).
ChildEscalates(h) ==
    /\ host[h] = "degraded"
    /\ host' = [host EXCEPT ![h] = "broken"]
    /\ UNCHANGED <<memory, age, runs, pc, due, dueRun, todo, snap, disk, heals,
                   faults, history>>

\* The shell dies at any point and boots again: load(), then the threads.
\* The children persist their own state.
Restart ==
    /\ crashes < MaxCrashes
    /\ crashes' = crashes + 1
    /\ LET d == IF File!Loadable THEN disk.cur.data ELSE IdleSaved IN
        /\ active' = d.active /\ run' = d.run /\ fired' = d.fired
    /\ File!CloseAll
    /\ pc' = [p \in Threads |-> "idle"]
    /\ due' = {} /\ dueRun' = 0
    /\ todo' = [p \in Handlers |-> {}]
    /\ snap' = [p \in Threads |-> NoSnap]
    /\ excused' = Hosts
    /\ UNCHANGED <<age, runs, host, heals, failures, manual, attempted, carried>>

-----------------------------------------------------------------------------
Save(p) == \/ SaveSnapshot(p) \/ SaveOpen(p) \/ SaveDump(p)
           \/ SaveRaises(p) \/ SaveReplace(p)

Request(p) == Start(p) \/ HealClear(p)
Tick       == TickScan \/ TickNothing \/ FireToggle \/ FireMark

Next ==
    \/ \E p \in Handlers : Request(p) \/ HealHost(p)
    \/ \E p \in Threads : Save(p)
    \/ Tick
    \/ \E h \in Hosts : ChildEscalates(h)
    \/ \E h \in Hosts, a \in Actions : PanelToggle(h, a)
    \/ Clock
    \/ Restart

\* The scheduler loops for ever, a request's thread runs to its end (every
\* HTTP call has a timeout) and time passes; the operator owes nothing.
Fairness ==
    /\ WF_vars(Clock)
    /\ WF_vars(TickScan \/ FireToggle \/ FireMark \/ Save(Ticker))
    /\ \A p \in Handlers : WF_vars(HealHost(p) \/ Save(p))

Spec     == Init /\ [][Next]_vars
FairSpec == Spec /\ Fairness

-----------------------------------------------------------------------------
(* What must hold *)

AtRest == \A p \in Threads : pc[p] = "idle"

\* A cascade that is not armed leaves no participant unhealthy, unless a heal()
\* still has it on its list or one of the named causes brought it down: a
\* failed heal call, the operator's own toggle, a crash, or a step of the due
\* list made before the heal.  (heal() and _fire(), serve.py:565-584.)
HealSticks ==
    ~active => \A h \in Participants :
        \/ host[h] = "healthy"
        \/ h \in excused
        \/ \E p \in Handlers : pc[p] = "heal" /\ h \in todo[p]

\* active and started_at are set together, saved together and loaded together:
\* no interleaving and no restart arms a cascade without a start time, which
\* _tick would then skip for ever.  (start, heal, _save, load.)
ArmedHasStart ==
    /\ active <=> run # 0
    /\ \A c \in {disk.cur, disk.tmp} : c.data.active <=> c.data.run # 0
    /\ \A p \in Threads : snap[p].data.active <=> snap[p].data.run # 0

\* Nothing is recorded as fired, in memory or in the file a restart reads,
\* before its toggle was sent: a crash may repeat a step but not lose one.
\* (_fire toggles first and marks afterwards.)
FiredWasSent ==
    \A s \in fired \cup disk.cur.data.fired :
        \E r \in Runs : <<r, s>> \in attempted

\* Without a restart of the shell no step of a run is sent twice, whatever
\* requests come between.  (_tick skips fired keys, the due list is private.)
SentOnce ==
    [][(pc[Ticker] = "fire" /\ pc'[Ticker] = "mark" /\ crashes = 0) =>
         \A s \in due : First(s) => <<dueRun, s>> \notin attempted]_vars

\* The causal order of the story: a step is sent only after every earlier
\* step of its run, also across restarts; but for one that the due list of an
\* earlier run marked in this one.  (CASCADE_STEPS is ordered by delay.)
CausalOrder ==
    \A r \in Runs, s \in Steps : <<r, s>> \in attempted =>
        \A t \in Steps : t < s => <<r, t>> \in attempted \cup carried

\* When every step is marked, each participant is where its last step put it
\* (or further, by its own escalation): repeated steps after a restart do not
\* change the outcome, if nothing else touched the hosts and the cascade was
\* started once.  (_tick's order, load.)
LastAction(h) ==
    ActionOf[CHOOSE s \in Steps : /\ HostOf[s] = h
                                  /\ \A t \in Steps : HostOf[t] = h => t <= s]
OutcomeReached ==
    (active /\ fired = Steps /\ due = {} /\ heals + failures + manual = 0 /\ runs = 1) =>
        \A h \in Participants :
            \/ host[h] = Target(LastAction(h))
            \/ Target(LastAction(h)) = "degraded" /\ host[h] = "broken"

\* An armed cascade is eventually complete or no longer armed: no step is
\* forgotten by the scheduler, also when start() is called again and after
\* restarts.  (_loop and _tick.)
ArmedRunEnds == active ~> (~active \/ fired = Steps)

-----------------------------------------------------------------------------
(* What the documentation says of the class, and the code does not keep *)

\* serve.py:513 "heal() stops the run and heals every participating host".
HealStopsTheRun ==
    (AtRest /\ ~active /\ failures + crashes + manual = 0) =>
        \A h \in Participants : host[h] = "healthy"

\* serve.py:511-512 "start() arms it and each step fires (its host's toggle)
\* once elapsed >= delay": a step marked in a run was sent in that run.
EachStepFires ==
    active => \A s \in fired : <<run, s>> \in attempted
==============================================================================
