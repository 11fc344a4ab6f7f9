-------------------------------- MODULE Netsim --------------------------------
(***************************************************************************)
(* The SNMP device simulator (snmp/netsim.py): its two incident devices,    *)
(* the threads that render them into walk files (the render loop, panel     *)
(* requests, the watchdog, the main thread at boot) one at a time under     *)
(* _WRITE_LOCK, and the state file that makes a restart invisible.  In the  *)
(* live transport the renderer only persists; panel requests and the        *)
(* watchdog write walk files all the same, into the working directory.      *)
(*                                                                         *)
(* The alarm a rendered device raises is what the levels of the interface   *)
(* and CPU checks make of its rows.  Other rows, and the steady devices,    *)
(* only move with the clock; the live responder is the module Snmp.         *)
(***************************************************************************)
EXTENDS AgentMath

CONSTANTS
    Order,              \* DEVICES, those with an incident
    Main, Renderer, Watchdog, Handlers,     \* threads
    Transports,         \* subset of {"walk", "snmp"}
    Left,               \* device -> the state an earlier process left it in
    AutoBreak,          \* AUTO_BREAK_AFTER_MIN
    MaxTime, MaxToggles, MaxFails, MaxStops     \* bounds; time in minutes

States  == {"healthy", "degraded", "broken"}
Devices == {Order[i] : i \in DOMAIN Order}
Threads == Handlers \cup {Main, Renderer, Watchdog}

ASSUME NetsimAssumption ==
    /\ Devices \subseteq {"sw-access-01", "rt-wan-01"} /\ Order \in Seq(Devices) \ {<<>>}
    /\ {Main, Renderer, Watchdog} \cap Handlers = {} /\ "free" \notin Threads
    /\ Left \in [Devices -> States]
    /\ AutoBreak \in Nat \ {0} /\ MaxTime >= AutoBreak
    /\ {MaxTime, MaxToggles, MaxFails, MaxStops} \subseteq Nat

VARIABLES
    now, transport, up,
    device,     \* device -> its DeviceState
    port,       \* ifOperStatus of sw-access-01's first uplink, kept in its Iface
    files,      \* device -> its walk file
    lock,       \* holder of _WRITE_LOCK
    pc, job,    \* thread -> where it is, and its local variables
    snap, disk, \* save_state: snapshots in flight, the state file
    version,    \* history: device -> number of its changes
    toggles, fails, stops

control == <<device, version>>
walks   == <<port, files>>
saves   == <<snap, disk>>
counts  == <<toggles, fails, stops>>
vars    == <<now, transport, up, control, walks, lock, pc, job, saves, counts>>

------------------------------------------------------------------------------
(* DeviceState *)

Fresh(t) == [state |-> "healthy", since |-> t, deg |-> None, brk |-> None]

\* set(value) at t
Set(s, value, t) ==
    [state |-> value,
     since |-> IF value # s.state THEN t ELSE s.since,
     deg   |-> IF value = "healthy" THEN None ELSE IF s.deg = None THEN t ELSE s.deg,
     brk   |-> IF value # "broken"  THEN None ELSE IF s.brk = None THEN t ELSE s.brk]

Minutes(stamp) == IF stamp = None THEN 0 ELSE now - stamp

\* How long the worst phase has lasted, up to the end of the ramps.
Age(s) == Least(3, Minutes(IF s.state = "broken" THEN s.brk ELSE s.deg))

------------------------------------------------------------------------------
(* SwAccess.rows and RtWan.rows, as far as they raise alarms.  `seen` is the   *)
(* state that was read first; the ages are read later, device by device.      *)

\* Mutant: a degraded port stays as the last rendering left it.
OperKept(seen) == IF seen = "broken" THEN 2 ELSE IF seen = "healthy" THEN 1 ELSE port

Oper(seen) == IF seen = "broken" THEN 2 ELSE 1

\* The corners of the wobbles of a numerator and a denominator.
Corners == [d : {-1, 1}, other : {-1, 1}]

\* Inbound errors per 100000 packets: 40 when the storm has built up, both
\* rates with their wobble.
Errors(seen, s, e) ==
    IF seen # "degraded" THEN 0
    ELSE ((40 * Least(100, 50 * Minutes(s.deg))) * (100 + (15 * e.d))) \div (100 * (100 + (30 * e.other)))

AccessAlarm(seen, oper, s, e) ==
    IF oper = 2 THEN CRIT ELSE Level(Errors(seen, s, e), 10, 100)

WanCpu(seen, s, e) ==
    CASE seen = "healthy"  -> GaugeAbs(22, 5, e)
      [] seen = "degraded" -> GaugeAbs(Lerp(25, 68, Least(100, (100 * Minutes(s.deg)) \div 3)), 4, e)
      [] seen = "broken"   -> GaugeAbs(Lerp(68, 93, Ramp(10 * Minutes(s.brk), 30)), 2, e)

\* What the checks may make of the device's rows.
Alarms(d, seen, oper) ==
    {IF d = "rt-wan-01" THEN Level(WanCpu(seen, device[d], e), 80, 90)
     ELSE AccessAlarm(seen, oper, device[d], e) : e \in Corners}

------------------------------------------------------------------------------
(* The processes *)

Dumps == [Devices -> [state : States, since : 0..MaxTime,
                      deg : -1..MaxTime, brk : -1..MaxTime]]
File  == INSTANCE StateFile WITH
            Savers <- Threads, Data <- Dumps, Blank <- [d \in Devices |-> Fresh(0)],
            Tears  <- {dd \in Dumps \X Dumps : dd[1] # dd[2]}

NoJob == [todo |-> <<>>, seen |-> "healthy", read |-> 0,
          dev |-> Order[1], set |-> 0, exit |-> FALSE]
Goto(w, label) == pc' = [pc EXCEPT ![w] = label]

\* main(): the first walks are written before a thread is started.
BootLabel == [w \in Threads |-> IF w = Main /\ transport = "walk" THEN "want" ELSE "idle"]
Init ==
    /\ now = 0 /\ transport \in Transports /\ up = TRUE
    /\ device = [d \in Devices |-> Set(Fresh(0), Left[d], 0)] /\ version = [d \in Devices |-> 1]
    /\ port = 1 /\ files = [d \in Devices |-> [version |-> 0, age |-> 0, alarm |-> OK]]
    /\ lock = "free"
    /\ pc = BootLabel /\ job = [w \in Threads |-> NoJob]
    /\ snap = [w \in Threads |-> [d \in Devices |-> Fresh(0)]]
    /\ disk = [File!NoDisk EXCEPT !.cur = File!Json(device)]
    /\ toggles = 0 /\ fails = 0 /\ stops = 0

\* What ends with the process; its threads are where the next one begins.
Down ==
    /\ up' = FALSE /\ port' = 1 /\ lock' = "free"
    /\ pc'  = BootLabel /\ job' = [w \in Threads |-> NoJob]
    /\ snap' = [w \in Threads |-> [d \in Devices |-> Fresh(0)]]
    /\ File!CloseAll

Serving == up /\ pc[Main] = "idle"

\* DeviceState.set, and on to write_walks.
Change(w, d, value) ==
    /\ device'  = [device EXCEPT ![d] = Set(@, value, now)]
    /\ version' = [version EXCEPT ![d] = @ + 1]
    /\ job' = [job EXCEPT ![w] = [NoJob EXCEPT !.dev = d, !.set = version[d] + 1]]
    /\ UNCHANGED <<now, transport, up, walks, lock, saves, fails, stops>>

\* (mutant: the walks are not written)
ToggleSavesOnly(h, d, value) ==
    /\ Serving /\ pc[h] = "idle"
    /\ toggles < MaxToggles /\ now + AutoBreak <= MaxTime
    /\ toggles' = toggles + 1
    /\ Change(h, d, value)
    /\ Goto(h, "save")

\* GET /admin/<device>/<action>.  Requests stop AutoBreak before the clock does.
Toggle(h, d, value) ==
    /\ Serving /\ pc[h] = "idle"
    /\ toggles < MaxToggles /\ now + AutoBreak <= MaxTime
    /\ toggles' = toggles + 1
    /\ Change(h, d, value)
    /\ Goto(h, "want")

\* auto_break_watchdog, for each device in turn: after a change the age is zero,
\* so its two reads find what one would.
Escalate(d) ==
    /\ Serving /\ pc[Watchdog] = "idle"
    /\ device[d].state = "degraded" /\ Minutes(device[d].since) >= AutoBreak
    /\ Change(Watchdog, d, "broken")
    /\ Goto(Watchdog, "want")
    /\ UNCHANGED toggles

\* render_loop; in the live transport _state_persist_loop.
Round ==
    /\ Serving /\ pc[Renderer] = "idle"
    /\ Goto(Renderer, IF transport = "walk" THEN "want" ELSE "save")
    /\ UNCHANGED <<now, transport, up, control, walks, lock, job, saves, counts>>

------------------------------------------------------------------------------
(* write_walks *)

\* (mutant: without the lock)
AcquireAnyway(w) ==
    /\ pc[w] = "want"
    /\ lock' = w
    /\ Goto(w, "read")
    /\ job' = [job EXCEPT ![w].todo = Order]
    /\ UNCHANGED <<now, transport, up, control, walks, saves, counts>>

Acquire(w) ==
    /\ pc[w] = "want" /\ lock = "free"
    /\ lock' = w
    /\ Goto(w, "read")
    /\ job' = [job EXCEPT ![w].todo = Order]
    /\ UNCHANGED <<now, transport, up, control, walks, saves, counts>>

\* rows(): the state first.
Read(w) ==
    LET d == Head(job[w].todo) IN
    /\ pc[w] = "read"
    /\ job' = [job EXCEPT ![w].seen = device[d].state, ![w].read = version[d]]
    /\ Goto(w, "render")
    /\ UNCHANGED <<now, transport, up, control, walks, lock, saves, counts>>

\* After the walks: the next round is as good as none for main and watchdog.
Written(w) == IF w \in {Main, Watchdog} THEN "idle" ELSE "save"

\* Then the ages, the port and the rows; the file is replaced in one piece.
Render(w) ==
    LET d == Head(job[w].todo) IN
    /\ pc[w] = "render"
    /\ port' = IF d = "sw-access-01" THEN Oper(job[w].seen) ELSE port
    /\ \E alarm \in Alarms(d, job[w].seen, port') :
          files' = [files EXCEPT ![d] =
                        [version |-> job[w].read, age |-> Age(device[d]), alarm |-> alarm]]
    /\ job' = [job EXCEPT ![w].todo = Tail(@)]
    /\ IF Len(job[w].todo) > 1 THEN Goto(w, "read") /\ UNCHANGED lock
                               ELSE Goto(w, Written(w)) /\ lock' = "free"
    /\ UNCHANGED <<now, transport, up, control, saves, counts>>

\* (mutant: the render loop does not catch the error)
FailedRender(w) == IF w \in {Watchdog, Renderer} THEN "dead" ELSE "idle"

\* Whose OSError it is: the render loop goes on, a request is cut off before its
\* save, the watchdog is gone.
Failed(w) == IF w = Watchdog THEN "dead" ELSE "idle"

\* A process that cannot write at boot ends.
WriteFails(w) ==
    /\ pc[w] = "render" /\ fails < MaxFails
    /\ fails' = fails + 1
    /\ IF w = Main THEN Down
       ELSE /\ lock' = "free"
            /\ Goto(w, Failed(w))
            /\ job' = [job EXCEPT ![w] = NoJob]
            /\ UNCHANGED <<up, port, saves>>
    /\ UNCHANGED <<now, transport, control, files, toggles, stops>>

------------------------------------------------------------------------------
(* save_state.  Snapshot and open are one step: what was changed in between    *)
(* would only make the snapshot older.                                        *)

SaveOpen(w) ==
    /\ pc[w] = "save"
    /\ snap' = [snap EXCEPT ![w] = device]
    /\ File!OpenTmp(w)
    /\ Goto(w, "dump")
    /\ UNCHANGED <<now, transport, up, control, walks, lock, job, counts>>

SaveDump(w) ==
    /\ pc[w] = "dump"
    /\ File!Dump(w, snap[w])
    /\ snap' = [snap EXCEPT ![w] = [d \in Devices |-> Fresh(0)]]
    /\ Goto(w, "replace")
    /\ UNCHANGED <<now, transport, up, control, walks, lock, job, counts>>

\* The error of a save is caught in it: the file keeps what it has.
SaveFails(w) ==
    /\ pc[w] = "dump" /\ fails < MaxFails
    /\ fails' = fails + 1
    /\ File!PutContent(w, File!Bare("torn"))
    /\ snap' = [snap EXCEPT ![w] = [d \in Devices |-> Fresh(0)]]
    /\ Goto(w, "idle")
    /\ job' = [job EXCEPT ![w] = NoJob]
    /\ UNCHANGED <<now, transport, up, control, walks, lock, toggles, stops>>

SaveReplace(w) ==
    /\ pc[w] = "replace"
    /\ File!ReplaceFile
    /\ Goto(w, IF job[w].exit THEN "exit" ELSE "idle")
    /\ job' = [job EXCEPT ![w] = NoJob]
    /\ UNCHANGED <<now, transport, up, control, walks, lock, snap, counts>>

------------------------------------------------------------------------------
(* Stops and starts *)

\* GET /admin/shutdown saves, and the process is gone a moment later.
Shutdown(h) ==
    /\ Serving /\ pc[h] = "idle" /\ stops < MaxStops
    /\ stops' = stops + 1
    /\ Goto(h, "save")
    /\ job' = [job EXCEPT ![h].exit = TRUE]
    /\ UNCHANGED <<now, transport, up, control, walks, lock, saves, toggles, fails>>

\* GET / and GET /admin report and change nothing.
Status(h) == Serving /\ pc[h] = "idle" /\ UNCHANGED vars

Exit(h) ==
    /\ pc[h] = "exit"
    /\ Down
    /\ UNCHANGED <<now, transport, control, files, counts>>

\* It is killed.
Stop ==
    /\ up /\ stops < MaxStops
    /\ stops' = stops + 1
    /\ Down
    /\ UNCHANGED <<now, transport, control, files, toggles, fails>>

\* load_state
Loaded(d) == IF File!Loadable THEN disk.cur.data[d] ELSE Fresh(now)

\* A new process; what its devices are counts as a change of theirs.
Start ==
    /\ ~up
    /\ up' = TRUE
    /\ device'  = [d \in Devices |-> Loaded(d)]
    /\ version' = [d \in Devices |-> version[d] + 1]
    /\ UNCHANGED <<now, transport, walks, lock, pc, job, saves, counts>>

\* A minute passes; writing and saving take less.
Clock ==
    /\ now < MaxTime /\ \A w \in Threads : pc[w] \in {"idle", "dead"}
    /\ now' = now + 1
    /\ UNCHANGED <<transport, up, control, walks, lock, pc, job, saves, counts>>

------------------------------------------------------------------------------
Write(w) == Acquire(w) \/ Read(w) \/ Render(w)
Save(w)  == SaveOpen(w) \/ SaveDump(w) \/ SaveReplace(w)

Next ==
    \/ \E h \in Handlers : Shutdown(h) \/ Status(h) \/ \E d \in Devices, s \in States : Toggle(h, d, s)
    \/ \E d \in Devices : Escalate(d)
    \/ Round
    \/ up /\ \E w \in Threads : Write(w) \/ WriteFails(w) \/ Save(w) \/ SaveFails(w) \/ Exit(w)
    \/ Stop \/ Start \/ Clock

Spec == Init /\ [][Next]_vars

\* The loops run for ever and a thread gets on; who toggles and who starts the
\* process owes nothing.
Fairness ==
    /\ SF_vars(Clock) /\ WF_vars(Round)
    /\ \A d \in Devices : WF_vars(Escalate(d))
    /\ \A w \in Threads : WF_vars(up /\ (Write(w) \/ Save(w) \/ Exit(w)))

FairSpec == Spec /\ Fairness

------------------------------------------------------------------------------
(* Properties *)

\* "take effect on the very next poll" (netsim.py:1690): before a toggle saves
\* and answers, the walk file was rendered from its change or a later one,
\* whoever else is rendering.
ToggleShown ==
    \A h \in Handlers : pc[h] \in {"save", "dump", "replace"} =>
        files[job[h].dev].version >= job[h].set

\* No walk file goes back to what an earlier state of its device was rendered to,
\* by whichever writers, failures and restarts (_WRITE_LOCK).
FilesForward == [][\A d \in Devices : files'[d].version >= files[d].version]_files

\* A walk of the state a device is in raises the alarm the state is documented
\* with, and no other, whatever state the device was in before (SwAccess, RtWan).
AlarmTold ==
    \A d \in Devices :
        LET s == device[d]   f == files[d] IN
        f.version = version[d] =>
            CASE s.state = "healthy" -> f.alarm = OK
              [] s.state = "degraded" /\ d = "rt-wan-01" -> f.alarm = OK
              [] s.state = "degraded" /\ d # "rt-wan-01" ->
                    f.alarm \in (IF f.age > 0 THEN {WARN} ELSE {OK, WARN})
              [] s.state = "broken" /\ d # "rt-wan-01" -> f.alarm = CRIT
              [] s.state = "broken" /\ d = "rt-wan-01" -> f.age = 3 => f.alarm = CRIT

\* Failing writes, overlapping saves and kills leave nothing behind in a process
\* that stays: in the end its walks and its state file are those of its devices
\* (render_loop and _state_persist_loop).
CatchUp ==
    <>[]up => <>[](/\ transport = "walk" => \A d \in Devices : files[d].version = version[d]
                   /\ File!Loadable /\ disk.cur.data = device)
================================================================================
