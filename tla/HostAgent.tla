------------------------------ MODULE HostAgent ------------------------------
(***************************************************************************)
(* The incident of one simulated host (hosts/db-postgres-01/serve.py, and   *)
(* with the same code in app-worker-01, app-redis-01, db-postgres-02,       *)
(* mail-relay-01 and fileserver-01): the state and its timestamps, the      *)
(* toggles of the HTTP threads, the watchdog that escalates a degraded      *)
(* host, and the state file that toggles and polls save.                    *)
(*                                                                          *)
(* One unit of `now` is far longer than a locked block, so the time.time()  *)
(* calls of one block are one instant.  Counters are in AgentCounters.      *)
(***************************************************************************)
EXTENDS Integers

CONSTANTS
    StartState,  \* START_STATE
    AutoBreak,   \* AUTO_BREAK_AFTER_MIN in clock units; 0 disables the watchdog
    Watchdog,    \* the escalation thread
    Handlers,    \* HTTP and agent threads (bound: at most this many at once)
    MaxTime,     \* bound: last instant of the clock
    MaxToggles,  \* bound: /admin/<action> requests
    MaxPolls,    \* bound: agent polls
    MaxCrashes   \* bound: restarts of the process

States  == {"healthy", "degraded", "broken"}
Threads == Handlers \cup {Watchdog}
Times   == 0..MaxTime
NoTime  == -1

ASSUME HostAssumption ==
    /\ StartState \in States
    /\ Watchdog \notin Handlers
    /\ AutoBreak \in Nat /\ MaxTime \in Nat
    /\ MaxToggles \in Nat /\ MaxPolls \in Nat /\ MaxCrashes \in Nat

\* The module globals that save_state() dumps.
Incidents == [start : Times, state : States, stateSince : Times,
              degradedSince : Times \cup {NoTime},
              brokenSince : Times \cup {NoTime}]

\* The globals of a process that starts at t without a state file.
Fresh(t) ==
    [start |-> t, state |-> StartState, stateSince |-> t,
     degradedSince |-> IF StartState = "healthy" THEN NoTime ELSE t,
     brokenSince |-> IF StartState = "broken" THEN t ELSE NoTime]

VARIABLES
    now,        \* time.time()
    inc,        \* the incident globals
    pc,         \* thread -> where it is
    snap,       \* thread -> the dictionary its save_state took
    disk,       \* STATE_FILE and its .tmp
    checkedAt,  \* history: when the watchdog last read "degraded"
    overlapped, \* history: a thread began its work while another was at it
    toggles, polls, crashes

vars == <<now, inc, pc, snap, disk, checkedAt, overlapped, toggles, polls,
          crashes>>

\* Every dump holds float timestamps and counters, whose lengths vary: any
\* two different dumps can leave a tail.
LeavesTail == {dd \in Incidents \X Incidents : dd[1] # dd[2]}

File == INSTANCE StateFile WITH Savers <- Threads, Data <- Incidents,
                                Blank <- Fresh(0), Tears <- LeavesTail

Labels == {"idle", "age", "escalate", "snap", "open", "write", "replace"}

TypeOK ==
    /\ now \in Times /\ inc \in Incidents
    /\ pc \in [Threads -> Labels]
    /\ snap \in [Threads -> Incidents]
    /\ File!DiskTypeOK
    /\ checkedAt \in Times /\ overlapped \in BOOLEAN
    /\ toggles \in 0..MaxToggles /\ polls \in 0..MaxPolls
    /\ crashes \in 0..MaxCrashes

Init ==
    /\ now = 0 /\ inc = Fresh(0)
    /\ pc = [p \in Threads |-> "idle"]
    /\ snap = [p \in Threads |-> Fresh(0)]
    /\ disk = File!NoDisk
    /\ checkedAt = 0 /\ overlapped = FALSE
    /\ toggles = 0 /\ polls = 0 /\ crashes = 0

-----------------------------------------------------------------------------
Goto(p, label) == pc' = [pc EXCEPT ![p] = label]

AtRest == \A p \in Threads : pc[p] = "idle"

\* A thread takes up a request, or the watchdog a look.
Begin(p, label) ==
    /\ pc[p] = "idle"
    /\ overlapped' = (overlapped \/ ~AtRest)
    /\ Goto(p, label)

\* _state_since after set_state(value).
EnteredAt(d, value, t) == IF value # d.state THEN t ELSE d.stateSince

\* _degraded_since after set_state(value).
DegradedAt(d, value, t) ==
    IF value = "healthy" THEN NoTime
    ELSE IF d.degradedSince = NoTime THEN t ELSE d.degradedSince

\* _broken_since after set_state(value).  Mutant: it is never reset.
BrokenForEver(d, value, t) ==
    IF value = "broken" /\ d.brokenSince = NoTime THEN t ELSE d.brokenSince
BrokenAt(d, value, t) ==
    IF value # "broken" THEN NoTime
    ELSE IF d.brokenSince = NoTime THEN t ELSE d.brokenSince

\* The locked block of set_state(value) at time t.
Toggled(d, value, t) ==
    [d EXCEPT !.stateSince    = EnteredAt(d, value, t),
              !.state         = value,
              !.degradedSince = DegradedAt(d, value, t),
              !.brokenSince   = BrokenAt(d, value, t)]

\* Mutant: what is saved was read before the change.
ToggleSavesFirst(p, value) ==
    /\ toggles < MaxToggles /\ now + AutoBreak <= MaxTime
    /\ toggles' = toggles + 1
    /\ inc' = Toggled(inc, value, now)
    /\ snap' = [snap EXCEPT ![p] = inc]
    /\ Begin(p, "open")
    /\ UNCHANGED <<now, disk, checkedAt, polls, crashes>>

\* GET /admin/<action>.  Requests stop AutoBreak before the clock's last
\* instant, so that the clock bound cuts no escalation short.
Toggle(p, value) ==
    /\ toggles < MaxToggles /\ now + AutoBreak <= MaxTime
    /\ toggles' = toggles + 1
    /\ inc' = Toggled(inc, value, now)
    /\ Begin(p, "snap")
    /\ UNCHANGED <<now, snap, disk, checkedAt, polls, crashes>>

\* AgentHandler.handle(): the output is written, then the state is saved.
Poll(p) ==
    /\ polls < MaxPolls
    /\ polls' = polls + 1
    /\ Begin(p, "snap")
    /\ UNCHANGED <<now, inc, snap, disk, checkedAt, toggles, crashes>>

\* GET / and /admin/meta report the state and change nothing.
Status(p) == pc[p] = "idle" /\ UNCHANGED vars

-----------------------------------------------------------------------------
(* _auto_break_watchdog(): two locked reads, then set_state *)

WatchState ==
    /\ AutoBreak > 0
    /\ inc.state = "degraded"
    /\ checkedAt' = now
    /\ Begin(Watchdog, "age")
    /\ UNCHANGED <<now, inc, snap, disk, toggles, polls, crashes>>

\* Long enough in this state.  Mutants: the age is taken from _degraded_since;
\* and a host that was broken before is not escalated.
RipeIncident == now - inc.degradedSince >= AutoBreak
RipeOnce == now - inc.stateSince >= AutoBreak /\ inc.degradedSince = inc.stateSince
Ripe == now - inc.stateSince >= AutoBreak

WatchAge ==
    /\ pc[Watchdog] = "age"
    /\ Goto(Watchdog, IF Ripe THEN "escalate" ELSE "idle")
    /\ UNCHANGED <<now, inc, snap, disk, checkedAt, overlapped, toggles, polls,
                   crashes>>

WatchEscalate ==
    /\ pc[Watchdog] = "escalate"
    /\ inc' = Toggled(inc, "broken", now)
    /\ Goto(Watchdog, "snap")
    /\ UNCHANGED <<now, snap, disk, checkedAt, overlapped, toggles, polls, crashes>>

-----------------------------------------------------------------------------
(* save_state() *)

unsaved == <<now, inc, checkedAt, overlapped, toggles, polls, crashes>>

SaveSnapshot(p) ==
    /\ pc[p] = "snap"
    /\ snap' = [snap EXCEPT ![p] = inc]
    /\ Goto(p, "open")
    /\ UNCHANGED <<unsaved, disk>>

SaveOpen(p) ==
    /\ pc[p] = "open"
    /\ File!OpenTmp(p)
    /\ Goto(p, "write")
    /\ UNCHANGED <<unsaved, snap>>

SaveDump(p) ==
    /\ pc[p] = "write"
    /\ File!Dump(p, snap[p])
    /\ snap' = [snap EXCEPT ![p] = Fresh(0)]
    /\ Goto(p, "replace")
    /\ UNCHANGED unsaved

SaveReplace(p) ==
    /\ pc[p] = "replace"
    /\ File!ReplaceFile
    /\ Goto(p, "idle")
    /\ UNCHANGED <<unsaved, snap>>

-----------------------------------------------------------------------------
Clock ==
    /\ now < MaxTime
    /\ now' = now + 1
    /\ UNCHANGED <<inc, pc, snap, disk, checkedAt, overlapped, toggles, polls,
                   crashes>>

\* load_state(): a missing or unparseable file leaves the fresh globals.
Loaded == IF File!Loadable THEN disk.cur.data ELSE Fresh(now)

\* The process dies at any point; the next one runs load_state() before it
\* serves.
Restart ==
    /\ crashes < MaxCrashes /\ now + AutoBreak <= MaxTime
    /\ crashes' = crashes + 1
    /\ inc' = Loaded
    /\ File!CloseAll
    /\ pc' = [p \in Threads |-> "idle"]
    /\ snap' = [p \in Threads |-> Fresh(0)]
    /\ UNCHANGED <<now, checkedAt, overlapped, toggles, polls>>

-----------------------------------------------------------------------------
Save(p) == SaveSnapshot(p) \/ SaveOpen(p) \/ SaveDump(p) \/ SaveReplace(p)
Watch   == WatchState \/ WatchAge \/ WatchEscalate

Next ==
    \/ \E p \in Handlers, value \in States : Toggle(p, value)
    \/ \E p \in Handlers : Poll(p) \/ Status(p)
    \/ \E p \in Threads : Save(p)
    \/ Watch
    \/ Clock
    \/ Restart

\* The watchdog loops for ever, threads finish their saves, time passes; who
\* toggles and polls owes nothing.
Fairness ==
    /\ WF_vars(Clock)
    /\ WF_vars(Watch \/ Save(Watchdog))
    /\ \A p \in Handlers : WF_vars(Save(p))

Spec     == Init /\ [][Next]_vars
FairSpec == Spec /\ Fairness

-----------------------------------------------------------------------------
(* What must hold *)

\* The timestamps tell one story with the state: the ramps and growth curves
\* of the agent output are computed from them (degraded_minutes,
\* broken_seconds), and None would flatten an incident.
Story(d) ==
    /\ d.state = "healthy" <=> d.degradedSince = NoTime
    /\ d.state = "broken" <=> d.brokenSince # NoTime
    /\ d.state = "broken" => d.brokenSince = d.stateSince
    /\ d.state # "healthy" => d.degradedSince <= d.stateSince
    /\ d.start <= now /\ d.stateSince <= now

\* It does so in memory, in every snapshot in flight and in every file that a
\* restart may load, whatever toggles, escalations and saves overlap.
\* (set_state, save_state, load_state.)
StoryConsistent ==
    /\ Story(inc)
    /\ \A p \in Threads : Story(snap[p])
    /\ \A c \in {disk.cur, disk.tmp} : c.kind = "json" => Story(c.data)

\* The watchdog is about to break a host that is not degraded long enough only
\* if the state was changed after its first look, or the process restarted.
\* (_auto_break_watchdog.)
LateEscalation ==
    pc[Watchdog] = "escalate" =>
        \/ inc.state = "degraded" /\ now - inc.stateSince >= AutoBreak
        \/ inc.stateSince >= checkedAt

\* As long as no two threads worked at once: when none is saving, the file is
\* what a restart needs, so every answered toggle survives it.  (set_state saves
\* before it returns, the snapshot is taken after the change.)
SavedIsCurrent ==
    (AtRest /\ ~overlapped /\ disk.cur.kind # "none") =>
        File!Loadable /\ disk.cur.data = inc

\* A degraded host that is left alone is broken in the end.
\* (_auto_break_watchdog, also across restarts.)
DegradedEscalates == inc.state = "degraded" ~> inc.state # "degraded"
==============================================================================
