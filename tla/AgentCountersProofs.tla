------------------------- MODULE AgentCountersProofs -------------------------
(***************************************************************************)
(* Theorems about the counters of a host, for any budget, any set of rates  *)
(* up to it, any number of overlapping polls and toggles, any clock; the    *)
(* last two, about what the monitoring receives, for one poll at a time.    *)
(* With overlapping polls the values emitted are not monotone.              *)
(***************************************************************************)
EXTENDS AgentCounters, TLAPS

\* Seeds can be dumped.
LEMMA SeededType == \A t \in Times : Seeded(t) \in Saved
BY DEF Seeded, Saved

\* The dictionary that stands for "no dictionary" is one of them.
LEMMA BlankType == 0 \in Times /\ Seeded(0) \in Saved
BY SeededType, RateAssumption DEF Times

\* A thread only moves between labels and fields.
LEMMA GotoType ==
    ASSUME TypeOK, NEW p \in Threads, NEW l \in Labels, NEW f \in Fields,
           Goto(p, l, f)
    PROVE  pc' \in [Threads -> Labels] /\ field' \in [Threads -> Fields]
BY DEF TypeOK, Goto

\* The time a sample integrates is never negative.
LEMMA ElapsedType ==
    \A t, since \in Times : Elapsed(t, since) \in Nat /\ t <= since + Elapsed(t, since)
BY RateAssumption DEF Elapsed, Times

\* acc only grows: the rates share the budget and none is negative.
LEMMA GrownType ==
    ASSUME TypeOK, NEW p \in Pollers
    PROVE  /\ AccGrown(p) \in Nat
           /\ AccGrown(p) >= cnt.acc[field[p]]
<1>1. RateOf(p) \in Nat
  BY RateAssumption DEF TypeOK, RateOf
<1>2. Elapsed(at[p], cnt.last[field[p]]) \in Nat
  BY ElapsedType DEF TypeOK, Saved, Threads
<1>3. \A r, e \in Nat : r * e \in Nat
  OBVIOUS
<1>4. cnt.acc[field[p]] \in Nat
  BY DEF TypeOK, Saved, Threads
<1>5. QED BY <1>1, <1>2, <1>3, <1>4 DEF AccGrown

\* int(self.acc) of a counter that is not negative is not negative.
LEMMA TicksType == \A n \in Nat : n \div Unit \in Nat
<1>1. Unit \in Nat /\ Unit > 0
  BY RateAssumption
<1>2. TAKE n \in Nat
<1>3. n \div Unit \in Int
  BY <1>1
<1>4. n \div Unit >= 0
  BY <1>1
<1>5. QED BY <1>3, <1>4

-----------------------------------------------------------------------------
(* The files that save_state writes (StateFile) *)

\* Contents without a dictionary are contents.
LEMMA FileBareType ==
    ASSUME Seeded(0) \in Saved, NEW k \in {"none", "empty", "torn", "json"}
    PROVE  File!Bare(k) \in File!Content
BY DEF File!Bare, File!Content

\* Every file operation of save_state keeps the disk well typed.
LEMMA FileOpenType ==
    ASSUME Seeded(0) \in Saved, File!DiskTypeOK, NEW p \in Threads, File!OpenTmp(p)
    PROVE  File!DiskTypeOK'
BY FileBareType DEF File!DiskTypeOK, File!OpenTmp, File!Places

LEMMA FilePutType ==
    ASSUME File!DiskTypeOK, NEW p \in Threads, NEW c \in File!Content, File!PutContent(p, c)
    PROVE  File!DiskTypeOK'
BY DEF File!DiskTypeOK, File!PutContent, File!Places

LEMMA FileOverlayType ==
    ASSUME Seeded(0) \in Saved, NEW d \in Saved, NEW old
    PROVE  \A c \in File!Overlay(old, d) :
             c \in File!Content /\ (c = File!Json(d) \/ c = File!Bare("torn"))
BY FileBareType DEF File!Overlay, File!Json, File!Content

LEMMA FileDumpType ==
    ASSUME Seeded(0) \in Saved, File!DiskTypeOK, NEW p \in Threads, NEW d \in Saved,
           File!Dump(p, d)
    PROVE  File!DiskTypeOK'
BY FileOverlayType, FilePutType DEF File!Dump

LEMMA FileReplaceType ==
    ASSUME Seeded(0) \in Saved, File!DiskTypeOK, File!ReplaceFile
    PROVE  File!DiskTypeOK'
<1>1. CASE UNCHANGED disk
  BY <1>1 DEF File!DiskTypeOK
<1>2. CASE disk' = [cur |-> disk.tmp, tmp |-> File!Bare("none"),
                    at |-> [q \in Threads |-> File!Relinked(disk.at[q])]]
  BY <1>2, FileBareType DEF File!DiskTypeOK, File!Relinked, File!Places
<1>3. QED BY <1>1, <1>2 DEF File!ReplaceFile

LEMMA FileCloseType ==
    ASSUME File!DiskTypeOK, File!CloseAll
    PROVE  File!DiskTypeOK' /\ disk'.cur = disk.cur /\ disk'.tmp = disk.tmp
BY DEF File!DiskTypeOK, File!CloseAll, File!Places

-----------------------------------------------------------------------------
(* Type correctness *)

\* A fresh agent has its types.
LEMMA InitType == Init => TypeOK
<1> SUFFICES ASSUME Init PROVE TypeOK
  OBVIOUS
<1>1. File!DiskTypeOK
  BY BlankType, FileBareType
     DEF Init, File!NoDisk, File!DiskTypeOK, File!Places
<1>2. /\ polls \in 0..MaxPolls /\ toggles \in 0..MaxToggles
      /\ redeploys \in 0..MaxRedeploys /\ crashes \in 0..MaxCrashes
      /\ steps \in 0..MaxSteps
  BY BoundAssumption DEF Init
<1>3. pc \in [Threads -> Labels] /\ field \in [Threads -> Fields]
  BY DEF Init, Labels, Fields
<1>4. seen \in Samples /\ covered \in [Fields -> Nat]
  BY BlankType DEF Init, NoSample, Samples
<1>5. busy \in [Pollers -> 0..Budget]
  BY RateAssumption DEF Init
<1>6. QED BY <1>1, <1>2, <1>3, <1>4, <1>5, BlankType DEF Init, TypeOK

\* A toggle or a request that begins keeps the types.
LEMMA RequestType ==
    ASSUME TypeOK, NEW p \in Threads,
           (p \in Pollers /\ Poll(p)) \/ Toggle(p)
    PROVE  TypeOK'
<1>1. CASE p \in Pollers /\ Poll(p)
  <2>1. /\ polls' \in 0..MaxPolls
        /\ at' \in [Pollers -> Times] /\ busy' \in [Pollers -> 0..Budget]
    BY <1>1, RateAssumption, BoundAssumption DEF TypeOK, Poll
  <2>2. pc' \in [Threads -> Labels] /\ field' \in [Threads -> Fields]
    BY <1>1, GotoType DEF Poll, Labels, Fields
  <2>3. QED BY <1>1, <2>1, <2>2 DEF TypeOK, Poll, File!DiskTypeOK
<1>2. CASE Toggle(p)
  <2>1. toggles' \in 0..MaxToggles
    BY <1>2, BoundAssumption DEF TypeOK, Toggle
  <2>2. pc' \in [Threads -> Labels] /\ field' \in [Threads -> Fields]
    BY <1>2, GotoType DEF Toggle, Labels, Fields
  <2>3. QED BY <1>2, <2>1, <2>2 DEF TypeOK, Toggle, File!DiskTypeOK
<1>3. QED BY <1>1, <1>2

\* A sample, published or not, keeps the types.
LEMMA SampleType ==
    ASSUME TypeOK, NEW p \in Pollers, Sample(p)
    PROVE  TypeOK'
<1>0. p \in Threads /\ field[p] \in Fields /\ "busy" \in Fields /\ "idle" \in Fields
  BY DEF TypeOK, Threads, Fields
<1>1. CASE Integrate(p)
  <2>1. cnt' \in Saved
    BY <1>0, <1>1, GrownType DEF TypeOK, Integrate, Saved
  <2>2. covered' \in [Fields -> Nat]
    BY <1>0, <1>1, ElapsedType DEF TypeOK, Integrate, Saved
  <2>3. lock' \in [Fields -> Threads \cup {Nobody}]
    BY <1>0, <1>1 DEF TypeOK, Integrate
  <2>4. pc' \in [Threads -> Labels] /\ field' \in [Threads -> Fields]
    BY <1>0, <1>1, GotoType DEF Integrate, Labels
  <2>5. QED BY <1>1, <2>1, <2>2, <2>3, <2>4
            DEF TypeOK, Integrate, counts, File!DiskTypeOK
<1>2. CASE Stamp(p)
  <2>1. cnt' \in Saved
    BY <1>0, <1>2 DEF TypeOK, Stamp, StampOf, Saved
  <2>2. out' \in [Pollers -> [Fields -> Nat]]
    <3>1. cnt.acc[field[p]] \div Unit \in Nat
      BY <1>0, TicksType DEF TypeOK, Saved
    <3>2. QED BY <1>0, <1>2, <3>1 DEF TypeOK, Stamp
  <2>3. lock' \in [Fields -> Threads \cup {Nobody}]
    BY <1>0, <1>2 DEF TypeOK, Stamp, Released
  <2>4. pc' \in [Threads -> Labels] /\ field' \in [Threads -> Fields]
    BY <1>0, <1>2, GotoType DEF Stamp, Labels
  <2>5. QED BY <1>2, <2>1, <2>2, <2>3, <2>4
            DEF TypeOK, Stamp, counts, File!DiskTypeOK
<1>3. CASE Emit(p)
  <2>1. seen' \in Samples
    <3>1. at[p] \in Times /\ out[p] \in [Fields -> Nat]
      BY DEF TypeOK
    <3>2. [at |-> at[p], val |-> out[p], any |-> TRUE] \in Samples
      BY <3>1 DEF Samples
    <3>3. QED BY <1>3, <3>2 DEF TypeOK, Emit
  <2>2. pc' \in [Threads -> Labels] /\ field' \in [Threads -> Fields]
    BY <1>0, <1>3, GotoType DEF Emit, Labels
  <2>3. QED BY <1>3, <2>1, <2>2 DEF TypeOK, Emit, counts, File!DiskTypeOK
<1>4. QED BY <1>1, <1>2, <1>3 DEF Sample

\* A save, or one that fails, keeps the types.
LEMMA SaveType ==
    ASSUME TypeOK, NEW p \in Threads, Save(p)
    PROVE  TypeOK'
<1>1. pc' \in [Threads -> Labels] /\ field' \in [Threads -> Fields]
  <2>1. field[p] \in Fields /\ "busy" \in Fields /\ "idle" \in Fields
    BY DEF TypeOK, Fields
  <2>2. QED BY <2>1, GotoType DEF Save, ReadAcc, ReadLast, SaveOpen, SaveDump,
                                  SaveReplace, Labels
<1>2. snap' \in [Threads -> Saved]
  <2>1. CASE ReadAcc(p)
    BY <2>1 DEF TypeOK, ReadAcc, Saved
  <2>2. CASE ReadLast(p)
    BY <2>2 DEF TypeOK, ReadLast, Saved
  <2>3. CASE SaveOpen(p) \/ SaveDump(p) \/ SaveReplace(p)
    BY <2>3, BlankType DEF TypeOK, SaveOpen, SaveDump, SaveReplace
  <2>4. QED BY <2>1, <2>2, <2>3 DEF Save
<1>3. File!DiskTypeOK'
  <2>1. CASE ReadAcc(p) \/ ReadLast(p)
    BY <2>1 DEF TypeOK, ReadAcc, ReadLast, File!DiskTypeOK
  <2>2. CASE SaveOpen(p)
    BY <2>2, BlankType, FileOpenType DEF TypeOK, SaveOpen
  <2>3. CASE SaveDump(p)
    BY <2>3, BlankType, FileDumpType DEF TypeOK, SaveDump
  <2>4. CASE SaveReplace(p)
    BY <2>4, BlankType, FileReplaceType DEF TypeOK, SaveReplace
  <2>5. QED BY <2>1, <2>2, <2>3, <2>4 DEF Save
<1>4. UNCHANGED unsaved
  BY DEF Save, ReadAcc, ReadLast, SaveOpen, SaveDump, SaveReplace
<1>5. QED BY <1>1, <1>2, <1>3, <1>4 DEF TypeOK, unsaved, counts

\* A restart continues from counters that were saved or from the seeds.
LEMMA LoadedType ==
    ASSUME TypeOK
    PROVE  Loaded \in Saved
BY SeededType DEF TypeOK, Loaded, File!DiskTypeOK, File!Content

\* A crash and the load after it keep the types.
LEMMA RestartType ==
    ASSUME TypeOK, Restart
    PROVE  TypeOK'
<1>1. cnt' \in Saved
  BY LoadedType DEF Restart
<1>2. covered' \in [Fields -> Nat]
  BY LoadedType, RateAssumption DEF Restart, Saved, Times
<1>3. File!DiskTypeOK'
  BY FileCloseType DEF TypeOK, Restart
<1>4. redeploys' \in 0..MaxRedeploys /\ crashes' \in 0..MaxCrashes
  BY BoundAssumption DEF TypeOK, Restart
<1>5. /\ pc' \in [Threads -> Labels] /\ field' \in [Threads -> Fields]
      /\ snap' \in [Threads -> Saved]
      /\ lock' \in [Fields -> Threads \cup {Nobody}]
  BY BlankType DEF Restart, Labels, Fields
<1>6. QED BY <1>1, <1>2, <1>3, <1>4, <1>5 DEF TypeOK, Restart

\* The clock keeps the types.
LEMMA ClockType ==
    ASSUME TypeOK, Clock \/ ClockBack
    PROVE  TypeOK'
<1>1. now' \in Times /\ steps' \in 0..MaxSteps
  BY RateAssumption, BoundAssumption
     DEF TypeOK, Clock, ClockBack, Times, counts
<1>2. QED BY <1>1 DEF TypeOK, Clock, ClockBack, counts, File!DiskTypeOK

\* Every step keeps the types.
LEMMA NextType ==
    ASSUME TypeOK, [Next]_vars
    PROVE  TypeOK'
<1>1. CASE UNCHANGED vars
  BY <1>1 DEF TypeOK, vars, counts, File!DiskTypeOK
<1>2. CASE \E p \in Threads : Status(p)
  BY <1>1, <1>2 DEF Status
<1>3. QED BY <1>1, <1>2, RequestType, SampleType, SaveType, ClockType,
             RestartType DEF Next, Threads

\* Every reachable state of the counters is well typed; acc is never negative.
THEOREM TypeCorrect == Spec => []TypeOK
<1>1. Init => TypeOK
  BY InitType
<1>2. TypeOK /\ [Next]_vars => TypeOK'
  BY NextType
<1>3. QED BY <1>1, <1>2, PTL DEF Spec

-----------------------------------------------------------------------------
(* Counters of a running process never decrease *)

\* No step but a restart makes a counter smaller.
LEMMA StepMonotone ==
    ASSUME TypeOK, Next, redeploys' + crashes' = redeploys + crashes
    PROVE  \A f \in Fields : cnt'.acc[f] >= cnt.acc[f]
<1>1. CASE UNCHANGED cnt.acc
  BY <1>1 DEF TypeOK, Saved
<1>2. ASSUME NEW p \in Pollers, Integrate(p)
      PROVE  \A f \in Fields : cnt'.acc[f] >= cnt.acc[f]
  BY <1>2, GrownType DEF TypeOK, Integrate, Saved
<1>3. ASSUME NEW p \in Pollers, Poll(p) \/ Stamp(p) \/ Emit(p)
      PROVE  cnt'.acc = cnt.acc
  BY <1>3 DEF TypeOK, Saved, Poll, Stamp, Emit
<1>4. ASSUME NEW p \in Threads, Toggle(p) \/ Status(p) \/ Save(p)
      PROVE  cnt'.acc = cnt.acc
  BY <1>4 DEF Toggle, Status, Save, ReadAcc, ReadLast, SaveOpen, SaveDump,
              SaveReplace, unsaved, vars
<1>5. CASE Clock \/ ClockBack
  BY <1>1, <1>5 DEF Clock, ClockBack
<1>6. CASE Restart
  BY <1>6 DEF TypeOK, Restart
<1>7. QED BY <1>1, <1>2, <1>3, <1>4, <1>5, <1>6 DEF Next, Sample

\* Whatever polls overlap and however the wall clock is set, no counter of a
\* running process decreases.
THEOREM CounterMonotoneAlways == Spec => CounterMonotone
<1>1. TypeOK /\ [Next]_vars =>
        [redeploys' + crashes' = redeploys + crashes =>
           \A f \in Fields : cnt'.acc[f] >= cnt.acc[f]]_vars
  BY StepMonotone
<1>2. QED BY <1>1, TypeCorrect, PTL DEF Spec, CounterMonotone

-----------------------------------------------------------------------------
(* No interval is dropped *)

\* A thread that is about to stamp a counter has integrated up to its time;
\* this survives the samples of others, which only add.
Reached ==
    \A p \in Pollers : pc[p] = "stamp" => covered[field[p]] >= at[p]

LostInv == NothingLost /\ Reached

\* At the start nothing is lost.
LEMMA InitLost == Init => LostInv
BY DEF Init, LostInv, NothingLost, Reached, Seeded, Fields, Threads

\* What a step must leave alone to keep the invariant.
LEMMA LostKept ==
    ASSUME TypeOK, LostInv,
           UNCHANGED <<cnt, covered, at>>,
           \A p \in Pollers : pc'[p] = "stamp" =>
             pc[p] = "stamp" /\ field'[p] = field[p]
    PROVE  LostInv'
BY DEF LostInv, NothingLost, Reached, Fields

\* An integration covers the time up to its request.
LEMMA IntegrateLost ==
    ASSUME TypeOK, LostInv, NEW p \in Pollers, Integrate(p)
    PROVE  LostInv'
<1>1. p \in Threads /\ field[p] \in Fields
  BY DEF TypeOK, Threads
<1>2. /\ \A f \in Fields : covered'[f] >= covered[f]
      /\ covered'[field[p]] >= at[p]
  BY <1>1, ElapsedType, RateAssumption
     DEF TypeOK, LostInv, NothingLost, Integrate, Saved, Times
<1>3. cnt'.last = cnt.last /\ at' = at
  BY DEF Integrate
<1>4. \A q \in Pollers : field'[q] = field[q] /\ (q # p => pc'[q] = pc[q])
  BY DEF TypeOK, Integrate, Goto, Threads
<1>5. \A f \in Fields : /\ covered[f] \in Nat /\ covered'[f] \in Int
                        /\ cnt.last[f] \in Nat
  BY RateAssumption, SampleType DEF TypeOK, Saved, Times, Sample
<1>6. \A q \in Pollers : at[q] \in Nat /\ field[q] \in Fields
  BY RateAssumption DEF TypeOK, Times, Threads
<1>7. QED BY <1>2, <1>3, <1>4, <1>5, <1>6 DEF LostInv, NothingLost, Reached

\* A stamp goes no further than what was integrated.
LEMMA StampLost ==
    ASSUME TypeOK, LostInv, NEW p \in Pollers, Stamp(p)
    PROVE  LostInv'
<1>1. p \in Threads /\ field[p] \in Fields
  BY DEF TypeOK, Threads
<1>2. NothingLost'
  BY <1>1 DEF TypeOK, LostInv, NothingLost, Reached, Stamp, StampOf, Saved
<1>3. pc'[p] # "stamp"
  BY <1>1 DEF TypeOK, Stamp, Goto
<1>4. \A q \in Pollers : q # p => field'[q] = field[q] /\ pc'[q] = pc[q]
  BY <1>1 DEF TypeOK, Stamp, Goto, Threads
<1>5. QED BY <1>2, <1>3, <1>4 DEF LostInv, Reached, Stamp

\* A save leaves the counters alone.
LEMMA SaveLost ==
    ASSUME TypeOK, LostInv, NEW p \in Threads, Save(p)
    PROVE  LostInv'
<1>1. pc'[p] # "stamp" /\ \A q \in Threads : q # p => pc'[q] = pc[q] /\ field'[q] = field[q]
  BY DEF TypeOK, Save, ReadAcc, ReadLast, SaveOpen, SaveDump, SaveReplace, Goto
<1>2. UNCHANGED <<cnt, covered, at>>
  BY DEF Save, ReadAcc, ReadLast, SaveOpen, SaveDump, SaveReplace, unsaved
<1>3. QED BY <1>1, <1>2, LostKept DEF Threads

\* A request that begins, or a toggle, leaves the counters alone.
LEMMA RequestLost ==
    ASSUME TypeOK, LostInv, NEW p \in Threads,
           (p \in Pollers /\ Poll(p)) \/ Toggle(p)
    PROVE  LostInv'
<1>1. pc'[p] # "stamp" /\ \A q \in Threads : q # p => pc'[q] = pc[q] /\ field'[q] = field[q]
  BY DEF TypeOK, Poll, Toggle, Goto
<1>2. \A q \in Pollers : q # p => at'[q] = at[q]
  BY DEF TypeOK, Poll, Toggle
<1>3. UNCHANGED <<cnt, covered>>
  BY DEF Poll, Toggle
<1>4. QED BY <1>1, <1>2, <1>3 DEF LostInv, NothingLost, Reached, Threads

\* What is loaded counts as covered from there on.
LEMMA RestartLost ==
    ASSUME TypeOK, Restart
    PROVE  LostInv'
<1>1. Loaded.last \in [Fields -> Nat]
  BY LoadedType, RateAssumption DEF Saved, Times
<1>2. QED BY <1>1 DEF Restart, LostInv, NothingLost, Reached, Threads

\* Every step keeps what was integrated up to the stamps.
LEMMA NextLost ==
    ASSUME TypeOK, LostInv, [Next]_vars
    PROVE  LostInv'
<1>1. CASE UNCHANGED vars
  BY <1>1, LostKept DEF vars
<1>2. CASE \E p \in Threads : Status(p)
  BY <1>1, <1>2 DEF Status
<1>3. CASE Clock \/ ClockBack
  BY <1>3, LostKept DEF Clock, ClockBack
<1>4. ASSUME NEW p \in Pollers, Emit(p)
      PROVE  LostInv'
  <2>1. \A q \in Pollers : pc'[q] = "stamp" =>
          pc[q] = "stamp" /\ field'[q] = field[q]
    BY <1>4 DEF TypeOK, Emit, Goto, Threads
  <2>2. QED BY <1>4, <2>1, LostKept DEF Emit
<1>5. QED BY <1>1, <1>2, <1>3, <1>4, IntegrateLost, StampLost, SaveLost,
             RequestLost, RestartLost DEF Next, Sample, Threads

\* Every counter has integrated the whole time up to its last sample.
THEOREM NothingLostAlways == Spec => []NothingLost
<1>1. Init => LostInv
  BY InitLost
<1>2. TypeOK /\ LostInv /\ [Next]_vars => LostInv'
  BY NextLost
<1>3. LostInv => NothingLost
  BY DEF LostInv
<1>4. QED BY <1>1, <1>2, <1>3, TypeCorrect, PTL DEF Spec

-----------------------------------------------------------------------------
(* Arithmetic of truncated counters *)

\* int() of a counter is less than one tick away from it.
LEMMA TicksNear ==
    \A n \in Nat : /\ n \div Unit \in Nat
                   /\ Unit * (n \div Unit) <= n
                   /\ n <= Unit * (n \div Unit) + Unit - 1
<1>1. Unit \in Nat /\ Unit > 0
  BY RateAssumption
<1>2. TAKE n \in Nat
<1>3. n \div Unit \in Nat
  BY TicksType
<1>4. Unit * (n \div Unit) <= n
  BY <1>1
<1>5. n <= Unit * (n \div Unit) + Unit - 1
  BY <1>1
<1>6. QED BY <1>3, <1>4, <1>5

\* A counter that has grown is not truncated to less.
LEMMA TicksGrow == \A m, n \in Nat : m <= n => m \div Unit <= n \div Unit
<1>1. Unit \in Nat /\ Unit > 0
  BY RateAssumption
<1>2. TAKE m, n \in Nat
<1>3. HAVE m <= n
<1> DEFINE q == m \div Unit
           r == n \div Unit
<1>4. q \in Nat /\ r \in Nat /\ Unit * q <= m /\ n <= Unit * r + Unit - 1
  BY TicksNear
<1> HIDE DEF q, r
<1>5. Unit * q <= Unit * r + Unit - 1
  BY <1>1, <1>3, <1>4
<1>6. q <= r
  <2>1. SUFFICES ASSUME q >= r + 1 PROVE FALSE
    BY <1>4
  <2>2. Unit * q >= Unit * (r + 1)
    BY <1>1, <1>4, <2>1
  <2>3. Unit * (r + 1) = Unit * r + Unit
    BY <1>1, <1>4
  <2>4. QED BY <1>1, <1>4, <1>5, <2>2, <2>3
<1>7. QED BY <1>6 DEF q, r
-----------------------------------------------------------------------------
(* One poll at a time: what is emitted never goes backwards.  The premise is   *)
(* needed: with a toggle beside the poll the file may be one save behind when  *)
(* the process ends.                                                         *)

\* One agent thread serves the polls, nobody else asks, and the process only
\* ends at rest.
OneAtATime(p) == Pollers = {p} /\ Togglers = {} /\ MaxCrashes = 0

\* What a poll prints of a counter.
Ticks(f) == cnt.acc[f] \div Unit

\* The part of field f in the dictionary that p builds is the counter.
Part(p, f) == snap[p].acc[f] = cnt.acc[f] /\ snap[p].last[f] = cnt.last[f]

\* A save takes the counters as they are into the file; at rest they are there,
\* unless nothing was ever saved.
SavedIn(p) ==
    /\ pc[p] = "idle" => \/ disk.cur = File!Json(cnt)
                         \/ disk.cur.kind = "none" /\ ~seen.any
    /\ pc[p] = "snap" => field[p] = "busy"
    /\ pc[p] = "acc" => field[p] = "idle" /\ Part(p, "busy")
    /\ pc[p] = "last" => /\ snap[p].acc[field[p]] = cnt.acc[field[p]]
                         /\ field[p] = "idle" => Part(p, "busy")
    /\ pc[p] \in {"open", "write"} => snap[p] = cnt
    /\ pc[p] = "write" => disk.at[p] = "tmp" /\ disk.tmp = File!Bare("empty")
    /\ pc[p] = "replace" => disk.tmp = File!Json(cnt)

\* What a poll has sampled are the counters.
Sampled(p) ==
    /\ (pc[p] \in {"sample", "stamp"} /\ field[p] = "idle") =>
         out[p]["busy"] = Ticks("busy")
    /\ pc[p] = "emit" => \A f \in Fields : out[p][f] = Ticks(f)

\* The counters are not behind what was received.
Shown == seen.any => \A f \in Fields : seen.val[f] <= Ticks(f)

\* Strong enough to go from one received sample to the next, over a redeploy.
EmittedInv(p) == SavedIn(p) /\ Sampled(p) /\ Shown

\* There is one thread, and two counters.
LEMMA OneThread ==
    ASSUME NEW a, OneAtATime(a), TypeOK
    PROVE  /\ Threads = {a} /\ a \in Pollers /\ a \in Threads
           /\ Fields = {"busy", "idle"} /\ field[a] \in Fields
           /\ cnt.acc \in [Fields -> Nat] /\ cnt.last \in [Fields -> Times]
           /\ cnt = [acc |-> cnt.acc, last |-> cnt.last]
           /\ snap[a].acc \in [Fields -> Nat] /\ snap[a].last \in [Fields -> Times]
           /\ snap[a] = [acc |-> snap[a].acc, last |-> snap[a].last]
           /\ out[a] \in [Fields -> Nat]
BY DEF OneAtATime, Threads, Fields, TypeOK, Saved

\* A step of the thread puts it where the step says.
LEMMA Went ==
    ASSUME TypeOK, NEW p \in Threads, NEW l, NEW f, Goto(p, l, f)
    PROVE  pc'[p] = l /\ field'[p] = f
BY DEF TypeOK, Goto

\* A request or a toggle begins.
LEMMA RequestEmitted ==
    ASSUME NEW a, OneAtATime(a), TypeOK, EmittedInv(a), Poll(a) \/ Toggle(a)
    PROVE  EmittedInv(a)'
<1>1. /\ pc'[a] \in {"sample", "snap"} /\ field'[a] = "busy"
      /\ UNCHANGED <<cnt, disk, seen>>
  BY OneThread, Went DEF Poll, Toggle
<1>2. SavedIn(a)' /\ Sampled(a)'
  BY <1>1 DEF SavedIn, Sampled
<1>3. Shown'
  BY <1>1 DEF EmittedInv, Shown, Ticks
<1>4. QED BY <1>2, <1>3 DEF EmittedInv

\* A counter grows; the other one stays.
LEMMA IntegrateEmitted ==
    ASSUME NEW a, OneAtATime(a), TypeOK, EmittedInv(a), Integrate(a)
    PROVE  EmittedInv(a)'
<1>1. /\ pc[a] = "sample" /\ pc'[a] = "stamp" /\ field'[a] = field[a]
      /\ UNCHANGED <<out, seen>>
  BY OneThread, Went DEF Integrate
<1>2. /\ \A f \in Fields \ {field[a]} : cnt'.acc[f] = cnt.acc[f]
      /\ cnt'.acc[field[a]] = AccGrown(a)
  BY OneThread DEF Integrate, TypeOK, Saved
<1>3. SavedIn(a)'
  BY <1>1 DEF SavedIn
<1>4. Sampled(a)'
  BY <1>1, <1>2, OneThread DEF EmittedInv, Sampled, Ticks
<1>5. Shown'
  <2>1. SUFFICES ASSUME seen.any, NEW f \in Fields
                 PROVE  seen.val[f] <= Ticks(f)'
    BY <1>1 DEF Shown
  <2>2. /\ cnt.acc[f] \in Nat /\ cnt'.acc[f] \in Nat
        /\ cnt.acc[f] <= cnt'.acc[f]
    <3>1. cnt.acc[f] \in Nat
      BY OneThread
    <3>2. AccGrown(a) \in Nat /\ AccGrown(a) >= cnt.acc[field[a]]
      BY OneThread, GrownType
    <3>3. QED BY <1>2, <3>1, <3>2
  <2>3. cnt.acc[f] \div Unit <= cnt'.acc[f] \div Unit
    BY <2>2, TicksGrow
  <2>4. seen.val[f] <= cnt.acc[f] \div Unit /\ seen.val[f] \in Nat
    BY <2>1 DEF EmittedInv, Shown, Ticks, TypeOK, Samples
  <2>5. cnt.acc[f] \div Unit \in Nat /\ cnt'.acc[f] \div Unit \in Nat
    BY <2>2, TicksType
  <2>6. QED BY <2>3, <2>4, <2>5 DEF Ticks
<1>6. QED BY <1>3, <1>4, <1>5 DEF EmittedInv

\* The sample is what the counter holds when it is stamped.
LEMMA StampEmitted ==
    ASSUME NEW a, OneAtATime(a), TypeOK, EmittedInv(a), Stamp(a)
    PROVE  EmittedInv(a)'
<1>1. /\ pc[a] = "stamp" /\ UNCHANGED seen
      /\ field[a] = "busy" => pc'[a] = "sample" /\ field'[a] = "idle"
      /\ field[a] = "idle" => pc'[a] = "emit" /\ field'[a] = "busy"
  BY OneThread, Went DEF Stamp
<1>2. cnt'.acc = cnt.acc
  BY OneThread DEF Stamp, TypeOK, Saved
<1>3. /\ out'[a][field[a]] = Ticks(field[a])
      /\ \A f \in Fields \ {field[a]} : out'[a][f] = out[a][f]
  BY OneThread DEF Stamp, Ticks, TypeOK
<1>4. SavedIn(a)'
  BY <1>1, OneThread DEF SavedIn
<1>5. Sampled(a)'
  <2>1. CASE field[a] = "busy"
    BY <1>1, <1>2, <1>3, <2>1 DEF Sampled, Ticks
  <2>2. CASE field[a] = "idle"
    <3>1. out[a]["busy"] = Ticks("busy")
      BY <1>1, <2>2 DEF EmittedInv, Sampled
    <3>2. \A f \in Fields : out'[a][f] = Ticks(f)
      BY <1>3, <2>2, <3>1, OneThread
    <3>3. QED BY <1>1, <1>2, <2>2, <3>2 DEF Sampled, Ticks
  <2>3. QED BY <2>1, <2>2, OneThread
<1>6. Shown'
  BY <1>1, <1>2 DEF EmittedInv, Shown, Ticks
<1>7. QED BY <1>4, <1>5, <1>6 DEF EmittedInv

\* What is received are the counters, which are not behind what was received
\* before.
LEMMA EmitEmitted ==
    ASSUME NEW a, OneAtATime(a), TypeOK, EmittedInv(a), Emit(a)
    PROVE  /\ EmittedInv(a)'
           /\ (seen.any /\ seen' # seen) =>
                \A f \in Fields : seen'.val[f] >= seen.val[f]
<1>1. /\ pc[a] = "emit" /\ pc'[a] = "snap" /\ field'[a] = "busy"
      /\ UNCHANGED cnt
  BY OneThread, Went DEF Emit
<1>2. \/ seen' = [at |-> at[a], val |-> out[a], any |-> TRUE]
      \/ seen' = seen
  BY DEF Emit
<1>3. \A f \in Fields : out[a][f] = Ticks(f) /\ Ticks(f) \in Nat
  <2>1. \A f \in Fields : out[a][f] = Ticks(f)
    BY <1>1 DEF EmittedInv, Sampled
  <2>2. \A f \in Fields : out[a][f] \in Nat
    BY OneThread
  <2>3. QED BY <2>1, <2>2
<1>4. SavedIn(a)' /\ Sampled(a)'
  BY <1>1 DEF SavedIn, Sampled
<1>5. seen.any => \A f \in Fields : seen.val[f] <= Ticks(f)
  BY DEF EmittedInv, Shown
<1>6. Shown'
  <2>1. CASE seen' = seen
    BY <1>1, <1>5, <2>1 DEF Shown, Ticks
  <2>2. CASE seen' = [at |-> at[a], val |-> out[a], any |-> TRUE]
    BY <1>1, <1>3, <2>2 DEF Shown, Ticks
  <2>3. QED BY <1>2, <2>1, <2>2
<1>7. (seen.any /\ seen' # seen) => \A f \in Fields : seen'.val[f] >= seen.val[f]
  <2>1. \A f \in Fields : seen.val[f] \in Nat
    BY DEF TypeOK, Samples
  <2>2. QED BY <1>2, <1>3, <1>5, <2>1
<1>8. QED BY <1>4, <1>6, <1>7 DEF EmittedInv
\* save_state() reads the counters one number at a time; nobody moves them.
LEMMA ReadEmitted ==
    ASSUME NEW a, OneAtATime(a), TypeOK, EmittedInv(a), ReadAcc(a) \/ ReadLast(a)
    PROVE  EmittedInv(a)'
<1>1. UNCHANGED <<cnt, out, seen, disk>>
  BY DEF ReadAcc, ReadLast, unsaved
<1>2. Shown'
  BY <1>1 DEF EmittedInv, Shown, Ticks
<1>3. CASE ReadAcc(a)
  <2>1. /\ pc[a] \in {"snap", "acc"} /\ pc'[a] = "last" /\ field'[a] = field[a]
        /\ snap'[a].acc[field[a]] = cnt.acc[field[a]]
        /\ field[a] = "idle" => /\ snap'[a].acc["busy"] = snap[a].acc["busy"]
                                /\ snap'[a].last = snap[a].last
    BY <1>3, OneThread, Went DEF ReadAcc, TypeOK, Saved
  <2>2. field[a] = "idle" => Part(a, "busy")
    BY <2>1 DEF EmittedInv, SavedIn
  <2>3. field[a] = "idle" => Part(a, "busy")'
    BY <1>1, <2>1, <2>2 DEF Part
  <2>4. SavedIn(a)'
    BY <1>1, <2>1, <2>3 DEF SavedIn
  <2>5. Sampled(a)'
    BY <2>1 DEF Sampled
  <2>6. QED BY <1>2, <2>4, <2>5 DEF EmittedInv
<1>4. CASE ReadLast(a)
  <2>1. /\ pc[a] = "last"
        /\ snap'[a].last[field[a]] = cnt.last[field[a]]
        /\ \A f \in Fields \ {field[a]} : snap'[a].last[f] = snap[a].last[f]
        /\ snap'[a].acc = snap[a].acc
        /\ field[a] = "busy" => pc'[a] = "acc" /\ field'[a] = "idle"
        /\ field[a] = "idle" => pc'[a] = "open" /\ field'[a] = "busy"
    <3>1. snap' = [snap EXCEPT ![a].last[field[a]] = cnt.last[field[a]]]
      BY <1>4 DEF ReadLast
    <3>2. /\ snap'[a].last = [snap[a].last EXCEPT ![field[a]] = cnt.last[field[a]]]
          /\ snap'[a].acc = snap[a].acc
      <4>1. snap \in [Threads -> Saved] /\ a \in Threads
        BY OneThread DEF TypeOK
      <4>2. QED BY <3>1, <4>1 DEF Saved
    <3>3. field[a] = "busy" => Goto(a, "acc", "idle")
      BY <1>4 DEF ReadLast
    <3>4. field[a] = "idle" => Goto(a, "open", "busy")
      BY <1>4 DEF ReadLast
    <3>5. /\ field[a] = "busy" => pc'[a] = "acc" /\ field'[a] = "idle"
          /\ field[a] = "idle" => pc'[a] = "open" /\ field'[a] = "busy"
      BY <3>3, <3>4, OneThread, Went
    <3>6. pc[a] = "last"
      BY <1>4 DEF ReadLast
    <3>7. QED BY <3>2, <3>5, <3>6, OneThread
  <2>2. /\ snap[a].acc[field[a]] = cnt.acc[field[a]]
        /\ field[a] = "idle" => Part(a, "busy")
    BY <2>1 DEF EmittedInv, SavedIn
  <2>3. CASE field[a] = "busy"
    <3>1. Part(a, "busy")'
      BY <1>1, <2>1, <2>2, <2>3 DEF Part
    <3>2. SavedIn(a)' /\ Sampled(a)'
      BY <2>1, <2>3, <3>1 DEF SavedIn, Sampled
    <3>3. QED BY <1>2, <3>2 DEF EmittedInv
  <2>4. CASE field[a] = "idle"
    <3>1. \A f \in Fields : /\ snap'[a].acc[f] = cnt.acc[f]
                            /\ snap'[a].last[f] = cnt.last[f]
      BY <2>1, <2>2, <2>4, OneThread DEF Part
    <3>2. snap'[a] \in Saved /\ cnt \in Saved
      BY OneThread, NextType, <1>4 DEF TypeOK, Next, Save
    <3>3. snap'[a] = cnt
      BY <3>1, <3>2 DEF Saved
    <3>4. SavedIn(a)' /\ Sampled(a)'
      BY <1>1, <2>1, <2>4, <3>3 DEF SavedIn, Sampled
    <3>5. QED BY <1>2, <3>4 DEF EmittedInv
  <2>5. QED BY <2>3, <2>4, OneThread
<1>5. QED BY <1>3, <1>4

\* The dictionary replaces the file.
LEMMA SaveEmitted ==
    ASSUME NEW a, OneAtATime(a), TypeOK, EmittedInv(a),
           SaveOpen(a) \/ SaveDump(a) \/ SaveReplace(a)
    PROVE  EmittedInv(a)'
<1>1. UNCHANGED <<cnt, out, seen>>
  BY DEF SaveOpen, SaveDump, SaveReplace, unsaved
<1>2. Shown'
  BY <1>1 DEF EmittedInv, Shown, Ticks
<1>3. CASE SaveOpen(a)
  <2>1. pc[a] = "open" /\ pc'[a] = "write" /\ UNCHANGED snap
    BY <1>3, OneThread, Went DEF SaveOpen
  <2>2. disk'.at[a] = "tmp" /\ disk'.tmp = File!Bare("empty")
    BY <1>3, OneThread DEF SaveOpen, File!OpenTmp, TypeOK, File!DiskTypeOK
  <2>3. SavedIn(a)' /\ Sampled(a)'
    BY <1>1, <2>1, <2>2 DEF EmittedInv, SavedIn, Sampled
  <2>4. QED BY <1>2, <2>3 DEF EmittedInv
<1>4. CASE SaveDump(a)
  <2>1. /\ pc[a] = "write" /\ pc'[a] = "replace"
        /\ snap[a] = cnt /\ disk.at[a] = "tmp" /\ disk.tmp = File!Bare("empty")
    BY <1>4, OneThread, Went DEF SaveDump, EmittedInv, SavedIn
  <2>2. PICK c \in File!Overlay(File!Held(a), snap[a]) : File!PutContent(a, c)
    BY <1>4 DEF SaveDump, File!Dump
  <2>3. File!Held(a).kind = "empty"
    BY <2>1 DEF File!Held, File!Bare
  <2>4. c = File!Json(cnt)
    BY <2>1, <2>2, <2>3 DEF File!Overlay
  <2>5. disk'.tmp = File!Json(cnt)
    BY <2>1, <2>2, <2>4 DEF File!PutContent, TypeOK, File!DiskTypeOK
  <2>6. SavedIn(a)' /\ Sampled(a)'
    BY <1>1, <2>1, <2>5 DEF SavedIn, Sampled
  <2>7. QED BY <1>2, <2>6 DEF EmittedInv
<1>5. CASE SaveReplace(a)
  <2>1. pc[a] = "replace" /\ pc'[a] = "idle" /\ disk.tmp = File!Json(cnt)
    BY <1>5, OneThread, Went DEF SaveReplace, EmittedInv, SavedIn
  <2>2. disk.tmp.kind = "json"
    BY <2>1 DEF File!Json
  <2>3. disk'.cur = File!Json(cnt)
    BY <1>5, <2>1, <2>2 DEF SaveReplace, File!ReplaceFile
  <2>4. SavedIn(a)' /\ Sampled(a)'
    BY <1>1, <2>1, <2>3 DEF SavedIn, Sampled
  <2>5. QED BY <1>2, <2>4 DEF EmittedInv
<1>6. QED BY <1>3, <1>4, <1>5

\* A process that ends at rest is followed by one with its counters, or, as long
\* as nothing was received, by one that starts from the seeds.
LEMMA RedeployCounters ==
    ASSUME NEW a, OneAtATime(a), TypeOK, EmittedInv(a), Restart
    PROVE  /\ UNCHANGED <<seen, now, at>> /\ pc'[a] = "idle" /\ disk'.cur = disk.cur
           /\ \/ disk.cur = File!Json(cnt) /\ cnt' = cnt
              \/ disk.cur.kind = "none" /\ ~seen.any /\ cnt' = Seeded(now)
<1>1. pc[a] = "idle"
  <2>1. crashes \in 0..MaxCrashes /\ MaxCrashes = 0
    BY DEF TypeOK, OneAtATime
  <2>2. ~(crashes < MaxCrashes)
    BY <2>1
  <2>3. QED BY <2>2, OneThread DEF Restart, AtRest
<1>2. /\ UNCHANGED <<seen, now, at>> /\ pc'[a] = "idle" /\ cnt' = Loaded
      /\ disk'.cur = disk.cur
  BY OneThread, FileCloseType DEF Restart, TypeOK
<1>3. CASE disk.cur = File!Json(cnt)
  <2>1. disk.cur.kind = "json" /\ disk.cur.data = cnt
    BY <1>3 DEF File!Json
  <2>2. QED BY <1>2, <1>3, <2>1 DEF Loaded, File!Loadable
<1>4. CASE disk.cur.kind = "none" /\ ~seen.any
  BY <1>2, <1>4 DEF Loaded, File!Loadable
<1>5. QED BY <1>1, <1>3, <1>4 DEF EmittedInv, SavedIn

\* So a redeploy takes nothing back.
LEMMA RedeployEmitted ==
    ASSUME NEW a, OneAtATime(a), TypeOK, EmittedInv(a), Restart
    PROVE  EmittedInv(a)' /\ UNCHANGED seen
<1>1. /\ UNCHANGED seen /\ pc'[a] = "idle" /\ disk'.cur = disk.cur
      /\ \/ disk.cur = File!Json(cnt) /\ cnt' = cnt
         \/ disk.cur.kind = "none" /\ ~seen.any
  BY RedeployCounters
<1>2. SavedIn(a)' /\ Sampled(a)'
  BY <1>1 DEF SavedIn, Sampled
<1>3. Shown'
  BY <1>1 DEF EmittedInv, Shown, Ticks
<1>4. QED BY <1>1, <1>2, <1>3 DEF EmittedInv

\* Nothing else touches counters, file or what was received.
LEMMA OtherEmitted ==
    ASSUME NEW a, OneAtATime(a), TypeOK, EmittedInv(a),
           Clock \/ ClockBack \/ UNCHANGED vars
    PROVE  EmittedInv(a)' /\ UNCHANGED seen
BY DEF Clock, ClockBack, vars, EmittedInv, SavedIn, Sampled, Shown, Part, Ticks

\* Every step keeps the invariant, and what is received does not go back.
LEMMA NextEmitted ==
    ASSUME NEW a, OneAtATime(a), TypeOK, EmittedInv(a), [Next]_vars
    PROVE  /\ EmittedInv(a)'
           /\ (seen.any /\ seen' # seen) =>
                \A f \in Fields : seen'.val[f] >= seen.val[f]
<1>1. CASE Poll(a) \/ Toggle(a)
  BY <1>1, RequestEmitted DEF Poll, Toggle
<1>2. CASE Integrate(a) \/ Stamp(a)
  BY <1>2, IntegrateEmitted, StampEmitted DEF Integrate, Stamp
<1>3. CASE Emit(a)
  BY <1>3, EmitEmitted
<1>4. CASE Save(a)
  BY <1>4, ReadEmitted, SaveEmitted
     DEF Save, ReadAcc, ReadLast, SaveOpen, SaveDump, SaveReplace, unsaved
<1>5. CASE Restart
  BY <1>5, RedeployEmitted
<1>6. CASE Clock \/ ClockBack \/ Status(a) \/ UNCHANGED vars
  BY <1>6, OtherEmitted DEF Status
<1>7. QED BY <1>1, <1>2, <1>3, <1>4, <1>5, <1>6, OneThread
          DEF Next, Sample, OneAtATime

\* With one poll at a time, what the monitoring receives of a counter never goes
\* backwards, for any rates, saves, toggles and redeploys between the polls, and
\* also when the wall clock is set back.  (sample_exact, save_state, load_state.)
THEOREM EmittedMonotoneAlways ==
    ASSUME NEW a, OneAtATime(a)
    PROVE  Spec => EmittedMonotone
<1>1. Init => EmittedInv(a)
  <2>1. Init => pc[a] = "idle" /\ ~seen.any /\ disk.cur.kind = "none"
    BY DEF Init, NoSample, File!NoDisk, File!Bare, OneAtATime, Threads
  <2>2. QED BY <2>1 DEF EmittedInv, SavedIn, Sampled, Shown
<1>2. TypeOK /\ EmittedInv(a) /\ [Next]_vars => EmittedInv(a)'
  BY NextEmitted
<1>3. TypeOK /\ EmittedInv(a) /\ [Next]_vars =>
        [seen.any /\ seen' # seen =>
           \A f \in Fields : seen'.val[f] >= seen.val[f]]_vars
  BY NextEmitted
<1>4. QED BY <1>1, <1>2, <1>3, TypeCorrect, PTL DEF Spec, EmittedMonotone
-----------------------------------------------------------------------------
(* The budget: with a clock that is not set back, the busy and the idle field  *)
(* together have exactly the budget of the time that passed, as floats; what   *)
(* is received are their truncations.                                         *)

\* The counters, and the request that is being sampled, are not in the future.
InPast(p) ==
    /\ at[p] <= now
    /\ \A f \in Fields : cnt.last[f] <= now
    /\ pc[p] \in {"sample", "stamp"} => \A f \in Fields : cnt.last[f] <= at[p]

\* Both fields are sampled at the same instant, busy first.
BusyDone(p) == pc[p] \in {"sample", "stamp"} /\ field[p] = "idle"
Level(p) ==
    /\ BusyDone(p) => cnt.last["busy"] = at[p]
    /\ ~BusyDone(p) => cnt.last["busy"] = cnt.last["idle"]
    /\ pc[p] = "emit" => cnt.last["idle"] = at[p]

\* What the fields have got for the time up to now: the budget up to the last
\* sample of idle, and the busy share of the time since, once it is added.
Progress(p) ==
    IF pc[p] = "stamp" /\ field[p] = "idle" THEN Budget * at[p]
    ELSE IF pc[p] = "stamp" \/ BusyDone(p)
    THEN Budget * cnt.last["idle"] + busy[p] * (at[p] - cnt.last["idle"])
    ELSE Budget * cnt.last["idle"]
Balance(p) == cnt.acc["busy"] + cnt.acc["idle"] - Progress(p)

\* The received sample is off by the two fractions it dropped.
Over(x) == 0 <= x /\ x <= 2 * Unit - 2
Reckon(p) ==
    seen.any => Over(Balance(p) + Budget * seen.at - Unit * Total(seen))

\* The reckoning holds wherever the poll or its save is.
BudgetInv(p) == EmittedInv(p) /\ InPast(p) /\ Level(p) /\ Reckon(p)

\* All of these are numbers.
LEMMA Numbers ==
    ASSUME NEW a, OneAtATime(a), TypeOK
    PROVE  /\ now \in Nat /\ at[a] \in Nat /\ busy[a] \in Nat
           /\ Budget \in Nat /\ Unit \in Nat /\ Unit > 0
           /\ cnt.acc["busy"] \in Nat /\ cnt.acc["idle"] \in Nat
           /\ cnt.last["busy"] \in Nat /\ cnt.last["idle"] \in Nat
           /\ seen.at \in Nat /\ seen.val["busy"] \in Nat
           /\ seen.val["idle"] \in Nat
           /\ out[a]["busy"] \in Nat /\ out[a]["idle"] \in Nat
<1>1. Times \subseteq Nat
  BY RateAssumption DEF Times
<1>2. /\ "busy" \in Fields /\ "idle" \in Fields /\ a \in Pollers
  BY DEF Fields, OneAtATime
<1>3. /\ cnt.acc \in [Fields -> Nat] /\ cnt.last \in [Fields -> Times]
      /\ seen.at \in Times /\ seen.val \in [Fields -> Nat]
      /\ out[a] \in [Fields -> Nat] /\ at[a] \in Times /\ now \in Times
      /\ busy[a] \in 0..Budget
  BY <1>2 DEF TypeOK, Saved, Samples
<1>4. busy[a] \in Nat /\ Budget \in Nat /\ Unit \in Nat /\ Unit > 0
  BY <1>3, RateAssumption
<1>5. QED BY <1>1, <1>2, <1>3, <1>4

\* As long as the balance and the sample stay, so does the reckoning.
LEMMA ReckonKept ==
    ASSUME NEW a, Reckon(a), UNCHANGED seen, Balance(a)' = Balance(a)
    PROVE  Reckon(a)'
BY DEF Reckon, Over, Total

\* A request takes the time; nothing is added yet.
LEMMA RequestBudget ==
    ASSUME NEW a, OneAtATime(a), TypeOK, BudgetInv(a), Poll(a) \/ Toggle(a)
    PROVE  InPast(a)' /\ Level(a)' /\ Reckon(a)'
<1>1. /\ pc[a] = "idle" /\ pc'[a] \in {"sample", "snap"} /\ field'[a] = "busy"
      /\ at'[a] \in {now, at[a]} /\ UNCHANGED <<now, cnt, seen>>
  BY OneThread, Went DEF Poll, Toggle, TypeOK
<1>2. /\ InPast(a) /\ Level(a) /\ Reckon(a)
  BY DEF BudgetInv
<1>3. pc'[a] = "sample" => at'[a] = now
  <2>1. CASE Poll(a)
    BY <2>1, OneThread DEF Poll, TypeOK
  <2>2. CASE Toggle(a)
    BY <2>2, OneThread, Went DEF Toggle
  <2>3. QED BY <2>1, <2>2
<1>4. InPast(a)'
  <2>1. at'[a] <= now'
    BY <1>1, <1>2, Numbers DEF InPast
  <2>2. QED BY <1>1, <1>2, <1>3, <2>1 DEF InPast
<1>5. Level(a)'
  BY <1>1, <1>2 DEF Level, BusyDone
<1>6. Balance(a)' = Balance(a)
  BY <1>1 DEF Balance, Progress, BusyDone
<1>7. QED BY <1>1, <1>2, <1>4, <1>5, <1>6, ReckonKept

\* A field gets its share of the time since it was sampled last.
LEMMA IntegrateBudget ==
    ASSUME NEW a, OneAtATime(a), TypeOK, BudgetInv(a), Integrate(a)
    PROVE  InPast(a)' /\ Level(a)' /\ Reckon(a)'
<1> DEFINE l == cnt.last["idle"]
           t == at[a]
           b == busy[a]
<1>1. /\ pc[a] = "sample" /\ pc'[a] = "stamp" /\ field'[a] = field[a]
      /\ UNCHANGED <<now, at, busy, seen>>
  BY OneThread, Went DEF Integrate
<1>2. InPast(a) /\ Level(a) /\ Reckon(a)
  BY DEF BudgetInv
<1>3. /\ cnt'.last = cnt.last
      /\ \A f \in Fields \ {field[a]} : cnt'.acc[f] = cnt.acc[f]
      /\ cnt'.acc[field[a]]
           = cnt.acc[field[a]] + RateOf(a) * Elapsed(t, cnt.last[field[a]])
  BY OneThread DEF Integrate, AccGrown, TypeOK, Saved
<1>4. InPast(a)' /\ Level(a)'
  BY <1>1, <1>2, <1>3, OneThread DEF InPast, Level, BusyDone
<1>5. /\ l \in Nat /\ t \in Nat /\ b \in Nat /\ Budget \in Nat /\ l <= t
      /\ cnt.acc["busy"] \in Nat /\ cnt.acc["idle"] \in Nat
  <2>1. l <= t
    BY <1>1, <1>2, OneThread DEF InPast
  <2>2. QED BY <2>1, Numbers
<1>6. Elapsed(t, l) = t - l
  BY <1>5 DEF Elapsed
<1>7. Balance(a)' = Balance(a)
  <2>1. CASE field[a] = "busy"
    <3>1. cnt.last["busy"] = l /\ RateOf(a) = b
      BY <1>2, <2>1 DEF Level, BusyDone, RateOf
    <3>2. /\ cnt'.acc["busy"] = cnt.acc["busy"] + b * (t - l)
          /\ cnt'.acc["idle"] = cnt.acc["idle"]
      BY <1>3, <1>6, <2>1, <3>1, OneThread
    <3>3. Progress(a) = Budget * l
      BY <1>1, <2>1 DEF Progress, BusyDone
    <3>4. Progress(a)' = Budget * l + b * (t - l)
      BY <1>1, <1>3, <2>1 DEF Progress, BusyDone
    <3> HIDE DEF l, t, b
    <3>5. Budget * l \in Int /\ b * (t - l) \in Int
      BY <1>5
    <3>6. QED BY <1>5, <3>2, <3>3, <3>4, <3>5 DEF Balance
  <2>2. CASE field[a] = "idle"
    <3>1. RateOf(a) = Budget - b
      BY <2>2 DEF RateOf
    <3>2. /\ cnt'.acc["idle"] = cnt.acc["idle"] + (Budget - b) * (t - l)
          /\ cnt'.acc["busy"] = cnt.acc["busy"]
      BY <1>3, <1>6, <2>2, <3>1, OneThread
    <3>3. Progress(a) = Budget * l + b * (t - l)
      BY <1>1, <2>2 DEF Progress, BusyDone
    <3>4. Progress(a)' = Budget * t
      BY <1>1, <1>3, <2>2 DEF Progress, BusyDone
    <3> HIDE DEF l, t, b
    <3>5. Budget * l + b * (t - l) + (Budget - b) * (t - l) = Budget * t
      BY <1>5
    <3>6. /\ Budget * l \in Int /\ b * (t - l) \in Int
          /\ (Budget - b) * (t - l) \in Int
      BY <1>5
    <3>7. QED BY <1>5, <3>2, <3>3, <3>4, <3>5, <3>6 DEF Balance
  <2>3. QED BY <2>1, <2>2, OneThread
<1>8. QED BY <1>1, <1>2, <1>4, <1>7, ReckonKept

\* The stamps of both fields end at the same instant.
LEMMA StampBudget ==
    ASSUME NEW a, OneAtATime(a), TypeOK, BudgetInv(a), Stamp(a)
    PROVE  InPast(a)' /\ Level(a)' /\ Reckon(a)'
<1>1. /\ pc[a] = "stamp" /\ UNCHANGED <<now, at, busy, seen>>
      /\ field[a] = "busy" => pc'[a] = "sample" /\ field'[a] = "idle"
      /\ field[a] = "idle" => pc'[a] = "emit" /\ field'[a] = "busy"
  BY OneThread, Went DEF Stamp
<1>2. InPast(a) /\ Level(a) /\ Reckon(a)
  BY DEF BudgetInv
<1>3. /\ cnt'.acc = cnt.acc
      /\ cnt'.last[field[a]] = at[a]
      /\ \A f \in Fields \ {field[a]} : cnt'.last[f] = cnt.last[f]
  BY OneThread DEF Stamp, StampOf, TypeOK, Saved
<1>4. at[a] \in Nat
  BY Numbers
<1>5. \A f \in Fields : cnt'.last[f] <= at[a]
  <2>1. \A f \in Fields : cnt.last[f] <= at[a]
    BY <1>1, <1>2 DEF InPast
  <2>2. QED BY <1>3, <1>4, <2>1
<1>6. InPast(a)'
  <2>1. \A f \in Fields : cnt'.last[f] \in Nat
    <3>1. \A f \in Fields : cnt.last[f] \in Nat
      BY Numbers, OneThread
    <3>2. QED BY <1>3, <1>4, <3>1
  <2>2. at[a] <= now /\ now \in Nat
    BY <1>2, Numbers DEF InPast
  <2>3. \A f \in Fields : cnt'.last[f] <= now
    BY <1>4, <1>5, <2>1, <2>2
  <2>4. QED BY <1>1, <1>5, <2>2, <2>3 DEF InPast
<1>7. CASE field[a] = "busy"
  <2>1. cnt'.last["busy"] = at[a] /\ cnt'.last["idle"] = cnt.last["idle"]
    BY <1>3, <1>7, OneThread
  <2>2. Level(a)'
    BY <1>1, <1>7, <2>1 DEF Level, BusyDone
  <2>3. Balance(a)' = Balance(a)
    BY <1>1, <1>3, <1>7, <2>1 DEF Balance, Progress, BusyDone
  <2>4. QED BY <1>1, <1>2, <1>6, <2>2, <2>3, ReckonKept
<1>8. CASE field[a] = "idle"
  <2>1. cnt'.last["idle"] = at[a] /\ cnt'.last["busy"] = cnt.last["busy"]
    BY <1>3, <1>8, OneThread
  <2>2. cnt.last["busy"] = at[a]
    BY <1>1, <1>2, <1>8 DEF Level, BusyDone
  <2>3. Level(a)'
    BY <1>1, <1>8, <2>1, <2>2 DEF Level, BusyDone
  <2>4. Balance(a)' = Balance(a)
    BY <1>1, <1>3, <1>8, <2>1 DEF Balance, Progress, BusyDone
  <2>5. QED BY <1>1, <1>2, <1>6, <2>3, <2>4, ReckonKept
<1>9. QED BY <1>7, <1>8, OneThread

\* A sample of counters that are level is off by the fractions it drops.
LEMMA SampleOver ==
    ASSUME NEW a, OneAtATime(a), TypeOK, BudgetInv(a), pc[a] = "emit"
    PROVE  Over(Balance(a) + Budget * at[a]
                  - Unit * (out[a]["busy"] + out[a]["idle"]))
<1> DEFINE x == cnt.acc["busy"]
           y == cnt.acc["idle"]
           u == out[a]["busy"]
           v == out[a]["idle"]
<1>1. cnt.last["idle"] = at[a]
  BY DEF BudgetInv, Level
<1>2. Balance(a) = x + y - Budget * at[a]
  BY <1>1 DEF Balance, Progress, BusyDone
<1>3. u = x \div Unit /\ v = y \div Unit
  BY OneThread DEF BudgetInv, EmittedInv, Sampled, Ticks
<1>4. /\ x \in Nat /\ y \in Nat /\ u \in Nat /\ v \in Nat /\ Unit \in Nat
      /\ Budget \in Nat /\ at[a] \in Nat
  BY Numbers
<1>5. /\ Unit * u <= x /\ x <= Unit * u + Unit - 1
      /\ Unit * v <= y /\ y <= Unit * v + Unit - 1
  BY <1>3, <1>4, TicksNear
<1> HIDE DEF x, y, u, v
<1>6. Unit * (u + v) = Unit * u + Unit * v
  BY <1>4
<1>7. Unit * u \in Int /\ Unit * v \in Int /\ Budget * at[a] \in Int
  BY <1>4
<1>8. Over(x + y - Budget * at[a] + Budget * at[a] - Unit * (u + v))
  BY <1>4, <1>5, <1>6, <1>7 DEF Over
<1>9. QED BY <1>2, <1>8 DEF u, v

\* Two samples reckoned against the same balance differ by the budget of the
\* time between them, but for what both dropped.
LEMMA OverNear ==
    ASSUME NEW z \in Int, NEW m \in Int, NEW n \in Int,
           NEW s \in Nat, NEW t \in Nat,
           Over(z + Budget * s - Unit * m), Over(z + Budget * t - Unit * n)
    PROVE  Near((n - m) * Unit, Budget * (t - s))
<1>1. Budget \in Nat /\ Unit \in Nat
  BY RateAssumption
<1>2. (n - m) * Unit = Unit * n - Unit * m
  BY <1>1
<1>3. Budget * (t - s) = Budget * t - Budget * s
  BY <1>1
<1>4. /\ Unit * n \in Int /\ Unit * m \in Int
      /\ Budget * t \in Int /\ Budget * s \in Int
  BY <1>1
<1> DEFINE un == Unit * n
           um == Unit * m
           bt == Budget * t
           bs == Budget * s
<1>5. /\ 0 <= z + bs - um /\ z + bs - um <= 2 * Unit - 2
      /\ 0 <= z + bt - un /\ z + bt - un <= 2 * Unit - 2
  BY DEF Over
<1>6. /\ un \in Int /\ um \in Int /\ bt \in Int /\ bs \in Int
  BY <1>4
<1> HIDE DEF un, um, bt, bs
<1>7. /\ (un - um) - (bt - bs) < 2 * Unit
      /\ (bt - bs) - (un - um) < 2 * Unit
  BY <1>1, <1>5, <1>6
<1>8. /\ (n - m) * Unit = un - um /\ Budget * (t - s) = bt - bs
  BY <1>2, <1>3 DEF un, um, bt, bs
<1>9. QED BY <1>7, <1>8 DEF Near

\* What is received advances by the budget of the time since the sample before.
LEMMA EmitBudget ==
    ASSUME NEW a, OneAtATime(a), TypeOK, BudgetInv(a), Emit(a)
    PROVE  /\ InPast(a)' /\ Level(a)' /\ Reckon(a)'
           /\ (seen.any /\ seen' # seen) =>
                Near((Total(seen') - Total(seen)) * Unit,
                     Budget * (seen'.at - seen.at))
<1>1. /\ pc[a] = "emit" /\ pc'[a] = "snap" /\ field'[a] = "busy"
      /\ UNCHANGED <<now, cnt, at>>
  BY OneThread, Went DEF Emit
<1>2. InPast(a) /\ Level(a) /\ Reckon(a)
  BY DEF BudgetInv
<1>3. InPast(a)' /\ Level(a)'
  BY <1>1, <1>2 DEF InPast, Level, BusyDone
<1>4. Balance(a)' = Balance(a) /\ Balance(a) \in Int
  <2>1. Balance(a) = cnt.acc["busy"] + cnt.acc["idle"] - Budget * cnt.last["idle"]
    BY <1>1 DEF Balance, Progress, BusyDone
  <2>2. Balance(a)' = cnt.acc["busy"] + cnt.acc["idle"] - Budget * cnt.last["idle"]
    BY <1>1 DEF Balance, Progress, BusyDone
  <2>3. QED BY <2>1, <2>2, Numbers
<1>5. CASE seen' = seen
  BY <1>2, <1>3, <1>4, <1>5, ReckonKept
<1>6. CASE seen' = [at |-> at[a], val |-> out[a], any |-> TRUE]
  <2>1. /\ seen'.at = at[a]
        /\ Total(seen') = out[a]["busy"] + out[a]["idle"]
    BY <1>6 DEF Total
  <2>2. Over(Balance(a) + Budget * seen'.at - Unit * Total(seen'))
    BY <1>1, <2>1, SampleOver
  <2>3. Reckon(a)'
    BY <1>4, <2>2 DEF Reckon, Total
  <2>4. ASSUME seen.any
        PROVE  Near((Total(seen') - Total(seen)) * Unit,
                    Budget * (seen'.at - seen.at))
    <3>1. Over(Balance(a) + Budget * seen.at - Unit * Total(seen))
      BY <1>2, <2>4 DEF Reckon
    <3>2. /\ Total(seen) \in Int /\ Total(seen') \in Int
          /\ seen.at \in Nat /\ seen'.at \in Nat
      BY <2>1, Numbers DEF Total
    <3>3. QED BY <1>4, <2>2, <3>1, <3>2, OverNear
  <2>5. QED BY <1>3, <2>3, <2>4
<1>7. QED BY <1>5, <1>6 DEF Emit

\* A save only reads.
LEMMA SaveBudget ==
    ASSUME NEW a, OneAtATime(a), TypeOK, BudgetInv(a), Save(a)
    PROVE  InPast(a)' /\ Level(a)' /\ Reckon(a)'
<1>1. /\ pc[a] \notin {"sample", "stamp", "emit"}
      /\ pc'[a] \notin {"sample", "stamp", "emit"}
      /\ UNCHANGED <<now, cnt, at, busy, seen>>
  <2>1. UNCHANGED <<now, cnt, at, busy, seen>>
    BY DEF Save, ReadAcc, ReadLast, SaveOpen, SaveDump, SaveReplace, unsaved
  <2>2. /\ pc[a] \in {"snap", "acc", "last", "open", "write", "replace"}
        /\ \E l \in {"last", "acc", "open", "write", "replace", "idle"}, f \in Fields :
             Goto(a, l, f)
    BY OneThread DEF Save, ReadAcc, ReadLast, SaveOpen, SaveDump, SaveReplace
  <2>3. PICK l \in {"last", "acc", "open", "write", "replace", "idle"}, f \in Fields :
          Goto(a, l, f)
    BY <2>2
  <2>4. pc'[a] = l
    BY <2>3, OneThread DEF Goto, TypeOK
  <2>5. QED BY <2>1, <2>2, <2>4
<1>2. InPast(a) /\ Level(a) /\ Reckon(a)
  BY DEF BudgetInv
<1>3. InPast(a)' /\ Level(a)'
  BY <1>1, <1>2 DEF InPast, Level, BusyDone
<1>4. Balance(a)' = Balance(a)
  BY <1>1 DEF Balance, Progress, BusyDone
<1>5. QED BY <1>1, <1>2, <1>3, <1>4, ReckonKept

\* Time passes: nothing gets into the future.
LEMMA ClockBudget ==
    ASSUME NEW a, OneAtATime(a), TypeOK, BudgetInv(a), Clock \/ UNCHANGED vars
    PROVE  InPast(a)' /\ Level(a)' /\ Reckon(a)' /\ UNCHANGED seen
<1>1. /\ now' \in {now, now + 1}
      /\ UNCHANGED <<pc, field, cnt, at, busy, seen>>
  BY DEF Clock, vars
<1>2. InPast(a) /\ Level(a) /\ Reckon(a)
  BY DEF BudgetInv
<1>3. /\ now \in Nat /\ at[a] \in Nat
      /\ \A f \in Fields : cnt.last[f] \in Nat
  BY Numbers, OneThread
<1>4. at[a] <= now' /\ \A f \in Fields : cnt.last[f] <= now'
  BY <1>1, <1>2, <1>3 DEF InPast
<1>5. InPast(a)' /\ Level(a)'
  BY <1>1, <1>2, <1>4 DEF InPast, Level, BusyDone
<1>6. Balance(a)' = Balance(a)
  BY <1>1 DEF Balance, Progress, BusyDone
<1>7. QED BY <1>1, <1>2, <1>5, <1>6, ReckonKept

\* The next process takes the counters over, or starts them before anything was
\* received.
LEMMA RedeployBudget ==
    ASSUME NEW a, OneAtATime(a), TypeOK, BudgetInv(a), Restart
    PROVE  InPast(a)' /\ Level(a)' /\ Reckon(a)' /\ UNCHANGED seen
<1>1. /\ UNCHANGED <<seen, now, at, busy>> /\ pc'[a] = "idle"
      /\ \/ cnt' = cnt
         \/ ~seen.any /\ cnt' = Seeded(now)
  BY RedeployCounters DEF BudgetInv, Restart
<1>2. InPast(a) /\ Level(a) /\ Reckon(a)
  BY DEF BudgetInv
<1>3. pc[a] = "idle"
  <2>1. crashes \in 0..MaxCrashes /\ MaxCrashes = 0
    BY DEF TypeOK, OneAtATime
  <2>2. ~(crashes < MaxCrashes)
    BY <2>1
  <2>3. QED BY <2>2, OneThread DEF Restart, AtRest
<1>4. CASE cnt' = cnt
  <2>1. InPast(a)' /\ Level(a)'
    BY <1>1, <1>2, <1>3, <1>4 DEF InPast, Level, BusyDone
  <2>2. Balance(a)' = Balance(a)
    BY <1>1, <1>3, <1>4 DEF Balance, Progress, BusyDone
  <2>3. QED BY <1>1, <1>2, <2>1, <2>2, ReckonKept
<1>5. CASE ~seen.any /\ cnt' = Seeded(now)
  <2>1. \A f \in Fields : cnt'.last[f] = now
    BY <1>5 DEF Seeded
  <2>2. now <= now
    BY Numbers
  <2>3. InPast(a)'
    BY <1>1, <1>2, <2>1, <2>2 DEF InPast
  <2>4. Level(a)'
    BY <1>1, <2>1, OneThread DEF Level, BusyDone
  <2>5. QED BY <1>1, <1>5, <2>3, <2>4 DEF Reckon
<1>6. QED BY <1>1, <1>4, <1>5

\* Every step keeps the balance, and every sample is reckoned against it.
LEMMA NextBudget ==
    ASSUME NEW a, OneAtATime(a), MaxSteps = 0, TypeOK, BudgetInv(a),
           [Next]_vars
    PROVE  /\ BudgetInv(a)'
           /\ (seen.any /\ seen' # seen) =>
                Near((Total(seen') - Total(seen)) * Unit,
                     Budget * (seen'.at - seen.at))
<1> DEFINE Goal ==
             /\ InPast(a)' /\ Level(a)' /\ Reckon(a)'
             /\ (seen.any /\ seen' # seen) =>
                  Near((Total(seen') - Total(seen)) * Unit,
                       Budget * (seen'.at - seen.at))
<1>0. EmittedInv(a)'
  BY NextEmitted DEF BudgetInv
<1> SUFFICES Goal
  BY <1>0 DEF BudgetInv
<1>1. CASE Poll(a) \/ Toggle(a)
  BY <1>1, RequestBudget DEF Poll, Toggle
<1>2. CASE Integrate(a) \/ Stamp(a)
  BY <1>2, IntegrateBudget, StampBudget DEF Integrate, Stamp
<1>3. CASE Emit(a)
  BY <1>3, EmitBudget
<1>4. CASE Save(a)
  BY <1>4, SaveBudget
     DEF Save, ReadAcc, ReadLast, SaveOpen, SaveDump, SaveReplace, unsaved
<1>5. CASE Restart
  BY <1>5, RedeployBudget
<1>6. CASE Clock \/ Status(a) \/ UNCHANGED vars
  BY <1>6, ClockBudget DEF Status
<1>7. ~ClockBack
  <2>1. steps \in 0..0
    BY DEF TypeOK
  <2>2. ~(steps < MaxSteps)
    BY <2>1
  <2>3. QED BY <2>2 DEF ClockBack
<1>8. QED
  BY <1>1, <1>2, <1>3, <1>4, <1>5, <1>6, <1>7, OneThread
     DEF Next, Sample, OneAtATime

\* With one poll at a time and a clock that is not set back, the fields of two
\* received samples advance by the tick budget of the time between them, but
\* for the fractions that int() dropped: for any rates, saves, toggles and
\* redeploys in between.  (The CPU block: "now" is shared, idle is what is left.)
THEOREM BudgetExactAlways ==
    ASSUME NEW a, OneAtATime(a), MaxSteps = 0
    PROVE  Spec => BudgetExact
<1>1. Init => BudgetInv(a)
  <2> SUFFICES ASSUME Init PROVE BudgetInv(a)
    OBVIOUS
  <2>1. /\ pc[a] = "idle" /\ ~seen.any /\ disk.cur.kind = "none"
        /\ at[a] = 0 /\ now = 0
        /\ \A f \in Fields : cnt.last[f] = 0
    BY DEF Init, NoSample, File!NoDisk, File!Bare, OneAtATime, Threads, Seeded
  <2>2. "busy" \in Fields /\ "idle" \in Fields
    BY DEF Fields
  <2>3. EmittedInv(a)
    BY <2>1 DEF EmittedInv, SavedIn, Sampled, Shown
  <2>4. InPast(a)
    BY <2>1 DEF InPast
  <2>5. Level(a) /\ Reckon(a)
    BY <2>1, <2>2 DEF Level, BusyDone, Reckon
  <2>6. QED BY <2>3, <2>4, <2>5 DEF BudgetInv
<1>2. TypeOK /\ BudgetInv(a) /\ [Next]_vars => BudgetInv(a)'
  BY NextBudget
<1>3. TypeOK /\ BudgetInv(a) /\ [Next]_vars =>
        [seen.any /\ seen' # seen =>
           Near((Total(seen') - Total(seen)) * Unit,
                Budget * (seen'.at - seen.at))]_vars
  BY NextBudget
<1>4. QED BY <1>1, <1>2, <1>3, TypeCorrect, PTL DEF Spec, BudgetExact
==============================================================================
