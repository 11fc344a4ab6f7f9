---------------------------- MODULE AgentCounters ----------------------------
(***************************************************************************)
(* The counters of one simulated host (hosts/payment-api/serve.py; the same *)
(* code in the other Linux hosts): agent polls integrate a rate over the    *)
(* time since the last sample, the CPU counters share one tick budget, and  *)
(* polls and toggles save (acc, last) of every counter, read without the    *)
(* counters' locks, to the state file that the next process continues from. *)
(*                                                                          *)
(* The busy fields user, system and iowait are one counter here, "busy";    *)
(* "idle" absorbs the rest of the budget.  acc counts 1/Unit of a tick.     *)
(***************************************************************************)
EXTENDS Integers

CONSTANTS
    Pollers,       \* agent threads (bound: polls in flight)
    Togglers,      \* HTTP threads (bound: toggles in flight)
    BusyRates,     \* the busy rates that wobble and incident can produce
    Budget,        \* ncpu * 100, in 1/Unit ticks per unit of time
    Unit,          \* int(self.acc) drops fractions below this
    MaxTime,       \* bound: last instant of the clock
    MaxPolls, MaxToggles,       \* bounds: requests
    MaxRedeploys, MaxCrashes,   \* bounds: restarts at rest, restarts anywhere
    MaxSteps                    \* bound: backward steps of the wall clock

Threads == Pollers \cup Togglers
Times   == 0..MaxTime
Fields  == {"busy", "idle"}
Nobody  == "nobody"

ASSUME RateAssumption ==
    /\ Budget \in Nat /\ Unit \in Nat \ {0} /\ MaxTime \in Nat
    /\ BusyRates \in SUBSET (0..Budget)
ASSUME ThreadAssumption == Nobody \notin Threads
ASSUME BoundAssumption ==
    /\ MaxPolls \in Nat /\ MaxToggles \in Nat /\ MaxRedeploys \in Nat
    /\ MaxCrashes \in Nat /\ MaxSteps \in Nat

Saved == [acc : [Fields -> Nat], last : [Fields -> Times]]

\* Counters of a process that starts at t without a state file.  The seeds
\* (_aged) are the origin of acc.
Seeded(t) == [acc |-> [f \in Fields |-> 0], last |-> [f \in Fields |-> t]]

NoSample == [at |-> 0, val |-> [f \in Fields |-> 0], any |-> FALSE]
Samples  == [at : Times, val : [Fields -> Nat], any : BOOLEAN]

VARIABLES
    now,        \* time.time()
    cnt,        \* the counters: acc and last of each field
    lock,       \* field -> the thread inside its counter's lock
    pc, field,  \* thread -> where it is, and at which counter
    at, busy,   \* poller -> its shared `now`, its busy rate
    out,        \* poller -> the values it sampled
    snap,       \* thread -> the dictionary its save_state is building
    disk,       \* STATE_FILE and its .tmp
    seen,       \* history: the sample the monitoring received last
    covered,    \* history: field -> the time integrated since the start
    polls, toggles, redeploys, crashes, steps

counts == <<polls, toggles, redeploys, crashes, steps>>
vars   == <<now, cnt, lock, pc, field, at, busy, out, snap, disk, seen,
            covered, counts>>

\* Floats of any length: any two different dumps can leave a tail.
LeavesTail == {dd \in Saved \X Saved : dd[1] # dd[2]}

File == INSTANCE StateFile WITH Savers <- Threads, Data <- Saved,
                                Blank <- Seeded(0), Tears <- LeavesTail

Labels == {"idle", "sample", "stamp", "emit", "snap", "acc", "last",
           "open", "write", "replace"}

TypeOK ==
    /\ now \in Times /\ cnt \in Saved
    /\ lock \in [Fields -> Threads \cup {Nobody}]
    /\ pc \in [Threads -> Labels] /\ field \in [Threads -> Fields]
    /\ at \in [Pollers -> Times] /\ busy \in [Pollers -> 0..Budget]
    /\ out \in [Pollers -> [Fields -> Nat]]
    /\ snap \in [Threads -> Saved]
    /\ File!DiskTypeOK
    /\ seen \in Samples /\ covered \in [Fields -> Nat]
    /\ polls \in 0..MaxPolls /\ toggles \in 0..MaxToggles
    /\ redeploys \in 0..MaxRedeploys /\ crashes \in 0..MaxCrashes
    /\ steps \in 0..MaxSteps

Init ==
    /\ now = 0 /\ cnt = Seeded(0)
    /\ lock = [f \in Fields |-> Nobody]
    /\ pc = [p \in Threads |-> "idle"] /\ field = [p \in Threads |-> "busy"]
    /\ at = [p \in Pollers |-> 0] /\ busy = [p \in Pollers |-> 0]
    /\ out = [p \in Pollers |-> [f \in Fields |-> 0]]
    /\ snap = [p \in Threads |-> Seeded(0)]
    /\ disk = File!NoDisk
    /\ seen = NoSample /\ covered = [f \in Fields |-> 0]
    /\ polls = 0 /\ toggles = 0 /\ redeploys = 0 /\ crashes = 0 /\ steps = 0

-----------------------------------------------------------------------------
Goto(p, label, f) ==
    /\ pc' = [pc EXCEPT ![p] = label]
    /\ field' = [field EXCEPT ![p] = f]

-----------------------------------------------------------------------------
(* build_agent_output(): the CPU block *)

\* One shared `now`; the busy rate as wobble and incident make it.
Poll(p) ==
    /\ pc[p] = "idle" /\ polls < MaxPolls
    /\ polls' = polls + 1
    /\ at' = [at EXCEPT ![p] = now]
    /\ \E b \in BusyRates : busy' = [busy EXCEPT ![p] = b]
    /\ Goto(p, "sample", "busy")
    /\ UNCHANGED <<now, cnt, lock, out, snap, disk, seen, covered, toggles,
                   redeploys, crashes, steps>>

\* Idle takes what the busy fields leave.  Mutant: idle has a rate of its own.
RateApart(p) == IF field[p] = "busy" THEN busy[p] ELSE Budget - 1
RateOf(p)    == IF field[p] = "busy" THEN busy[p] ELSE Budget - busy[p]

\* dt = max(0, now - last).
Elapsed(t, since) == IF t >= since THEN t - since ELSE 0

\* acc after the sample.  Mutant: recomputed from the current rate.
AccAnew(p)  == RateOf(p) * at[p]
AccGrown(p) == LET f == field[p]
               IN  cnt.acc[f] + RateOf(p) * Elapsed(at[p], cnt.last[f])

\* last after the sample.  Mutant: another time.time().
StampFresh(p) == now
StampOf(p)    == at[p]

\* The end of the with block.
Released(f) == [lock EXCEPT ![f] = Nobody]

\* sample_exact(): the lock is taken, acc grows ...
Integrate(p) ==
    /\ pc[p] = "sample" /\ lock[field[p]] = Nobody
    /\ LET f == field[p] IN
        /\ cnt' = [cnt EXCEPT !.acc[f] = AccGrown(p)]
        /\ covered' = [covered EXCEPT ![f] = @ + Elapsed(at[p], cnt.last[f])]
        /\ lock' = [lock EXCEPT ![f] = p]
    /\ Goto(p, "stamp", field[p])
    /\ UNCHANGED <<now, at, busy, out, snap, disk, seen, counts>>

\* ... and then last follows, before the lock is released.
Stamp(p) ==
    /\ pc[p] = "stamp"
    /\ LET f == field[p] IN
        /\ cnt' = [cnt EXCEPT !.last[f] = StampOf(p)]
        /\ out' = [out EXCEPT ![p][f] = cnt.acc[f] \div Unit]
        /\ lock' = Released(f)
    /\ IF field[p] = "busy" THEN Goto(p, "sample", "idle")
                            ELSE Goto(p, "emit", "busy")
    /\ UNCHANGED <<now, at, busy, snap, disk, seen, covered, counts>>

\* AgentHandler.handle(): the output is written, or the peer closed early.
Emit(p) ==
    /\ pc[p] = "emit"
    /\ \/ seen' = [at |-> at[p], val |-> out[p], any |-> TRUE]
       \/ UNCHANGED seen
    /\ Goto(p, "snap", "busy")
    /\ UNCHANGED <<now, cnt, lock, at, busy, out, snap, disk, covered, counts>>

\* set_broken() after its locked block; the incident itself is in HostAgent.
Toggle(p) ==
    /\ pc[p] = "idle" /\ toggles < MaxToggles
    /\ toggles' = toggles + 1
    /\ Goto(p, "snap", "busy")
    /\ UNCHANGED <<now, cnt, lock, at, busy, out, snap, disk, seen, covered,
                   polls, redeploys, crashes, steps>>

\* The HTTP endpoints that only report.
Status(p) == pc[p] = "idle" /\ UNCHANGED vars

-----------------------------------------------------------------------------
(* save_state(): reads under _state_lock, not under the counters' locks *)

unsaved == <<now, cnt, lock, at, busy, out, seen, covered, counts>>

ReadAcc(p) ==
    /\ pc[p] \in {"snap", "acc"}
    /\ pc[p] = "snap" => \A q \in Threads : pc[q] \notin {"acc", "last"}
    /\ snap' = [snap EXCEPT ![p].acc[field[p]] = cnt.acc[field[p]]]
    /\ Goto(p, "last", field[p])
    /\ UNCHANGED <<unsaved, disk>>

ReadLast(p) ==
    /\ pc[p] = "last"
    /\ snap' = [snap EXCEPT ![p].last[field[p]] = cnt.last[field[p]]]
    /\ IF field[p] = "busy" THEN Goto(p, "acc", "idle")
                            ELSE Goto(p, "open", "busy")
    /\ UNCHANGED <<unsaved, disk>>

SaveOpen(p) ==
    /\ pc[p] = "open"
    /\ File!OpenTmp(p)
    /\ Goto(p, "write", "busy")
    /\ UNCHANGED <<unsaved, snap>>

SaveDump(p) ==
    /\ pc[p] = "write"
    /\ File!Dump(p, snap[p])
    /\ snap' = [snap EXCEPT ![p] = Seeded(0)]
    /\ Goto(p, "replace", "busy")
    /\ UNCHANGED unsaved

SaveReplace(p) ==
    /\ pc[p] = "replace"
    /\ File!ReplaceFile
    /\ Goto(p, "idle", "busy")
    /\ UNCHANGED <<unsaved, snap>>

-----------------------------------------------------------------------------
(* Time and restarts *)

Clock ==
    /\ now < MaxTime
    /\ now' = now + 1
    /\ UNCHANGED <<cnt, lock, pc, field, at, busy, out, snap, disk, seen,
                   covered, counts>>

\* The wall clock is set back.
ClockBack ==
    /\ now > 0 /\ steps < MaxSteps
    /\ now' = now - 1
    /\ steps' = steps + 1
    /\ UNCHANGED <<cnt, lock, pc, field, at, busy, out, snap, disk, seen,
                   covered, polls, toggles, redeploys, crashes>>

AtRest == \A p \in Threads : pc[p] = "idle"

\* load_state(): the saved counters, or the seeds of the new process.  Mutant:
\* every start seeds them.
LoadedSeeds == Seeded(now)
Loaded == IF File!Loadable THEN disk.cur.data ELSE Seeded(now)

\* The process ends, between requests or in the middle of them, and the next
\* one starts.  What was integrated counts from here.
Restart ==
    /\ \/ AtRest /\ redeploys < MaxRedeploys
          /\ redeploys' = redeploys + 1 /\ UNCHANGED crashes
       \/ crashes < MaxCrashes
          /\ crashes' = crashes + 1 /\ UNCHANGED redeploys
    /\ cnt' = Loaded
    /\ covered' = Loaded.last
    /\ lock' = [f \in Fields |-> Nobody]
    /\ pc' = [p \in Threads |-> "idle"] /\ field' = [p \in Threads |-> "busy"]
    /\ snap' = [p \in Threads |-> Seeded(0)]
    /\ File!CloseAll
    /\ UNCHANGED <<now, at, busy, out, seen, polls, toggles, steps>>

-----------------------------------------------------------------------------
Save(p)   == \/ ReadAcc(p) \/ ReadLast(p)
             \/ SaveOpen(p) \/ SaveDump(p) \/ SaveReplace(p)
Sample(p) == Integrate(p) \/ Stamp(p) \/ Emit(p)

Next ==
    \/ \E p \in Pollers : Poll(p) \/ Sample(p)
    \/ \E p \in Threads : Toggle(p) \/ Status(p) \/ Save(p)
    \/ Clock \/ ClockBack
    \/ Restart

Spec == Init /\ [][Next]_vars

-----------------------------------------------------------------------------
(* What must hold *)

\* A counter of a running process never decreases, also when polls overlap and
\* when the wall clock is set back.  (Counter: "can never go backwards".)
CounterMonotone ==
    [][redeploys' + crashes' = redeploys + crashes =>
         \A f \in Fields : cnt'.acc[f] >= cnt.acc[f]]_vars

\* Every instant up to `last` was integrated: no overlap of polls, saves and
\* clock steps drops an interval.  (sample_exact: one `now` for dt and last.)
NothingLost == \A f \in Fields : covered[f] >= cnt.last[f]

\* What the monitoring receives never goes backwards.  With one poll at a time
\* this includes redeploys between polls.  (The state file's purpose.)
EmittedMonotone ==
    [][seen.any /\ seen' # seen =>
         \A f \in Fields : seen'.val[f] >= seen.val[f]]_vars

\* Between two received samples the fields advance by the tick budget, but for
\* the dropped fractions of the two truncations of each field.  (CPU block.)
Total(s)  == s.val["busy"] + s.val["idle"]
Near(x, y) == x - y < 2 * Unit /\ y - x < 2 * Unit
BudgetExact ==
    [][seen.any /\ seen' # seen =>
         Near((Total(seen') - Total(seen)) * Unit,
              Budget * (seen'.at - seen.at))]_vars
==============================================================================
