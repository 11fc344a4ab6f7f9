---------------------------- MODULE CascadeProofs ----------------------------
(***************************************************************************)
(* Theorems about the cascade for any steps, hosts, number of panel threads *)
(* and bounds.  TypeOK and ArmedHasStart are inductive together; HealSticks *)
(* is inductive relative to TypeOK.                                         *)
(*                                                                         *)
(* The history of what was sent has an invariant for each of its uses:      *)
(* SentInv (what memory, a snapshot or a file has as fired was sent),       *)
(* OnceInv (what the scheduler has in hand was not), OrderInv (all of these *)
(* lists are closed towards earlier steps), OutcomeInv (where the one run's *)
(* sent steps leave each host).                                             *)
(***************************************************************************)
EXTENDS Cascade, TLAPS

\* The dictionary of an idle cascade is one the file may hold.
LEMMA IdleType == IdleSaved \in Saved
BY BoundAssumption DEF IdleSaved, Saved, Runs

\* Participants are carried hosts.
LEMMA ParticipantsAreHosts == Participants \subseteq Hosts
BY StepAssumption DEF Participants, Steps

-----------------------------------------------------------------------------
(* The files that save_state writes (StateFile) *)

\* Contents without a dictionary are contents.
LEMMA FileBareType ==
    ASSUME IdleSaved \in Saved, NEW k \in {"none", "empty", "torn", "json"}
    PROVE  File!Bare(k) \in File!Content
BY DEF File!Bare, File!Content

\* Every file operation of save_state keeps the disk well typed.
LEMMA FileOpenType ==
    ASSUME IdleSaved \in Saved, File!DiskTypeOK, NEW p \in Threads, File!OpenTmp(p)
    PROVE  File!DiskTypeOK'
BY FileBareType DEF File!DiskTypeOK, File!OpenTmp, File!Places

\* What a saver holds open, what it writes, and what writing leaves.
LEMMA FileHeldType ==
    ASSUME File!DiskTypeOK, NEW p \in Threads
    PROVE  File!Held(p) \in File!Content
BY DEF File!DiskTypeOK, File!Held

LEMMA FilePutType ==
    ASSUME File!DiskTypeOK, NEW p \in Threads, NEW c \in File!Content, File!PutContent(p, c)
    PROVE  File!DiskTypeOK'
BY DEF File!DiskTypeOK, File!PutContent, File!Places

LEMMA FileOverlayType ==
    ASSUME IdleSaved \in Saved, NEW d \in Saved, NEW old
    PROVE  \A c \in File!Overlay(old, d) :
             c \in File!Content /\ (c = File!Json(d) \/ c = File!Bare("torn"))
BY FileBareType DEF File!Overlay, File!Json, File!Content

LEMMA FileDumpType ==
    ASSUME IdleSaved \in Saved, File!DiskTypeOK, NEW p \in Threads, NEW d \in Saved,
           File!Dump(p, d)
    PROVE  File!DiskTypeOK'
BY FileOverlayType, FilePutType DEF File!Dump

LEMMA FileReplaceType ==
    ASSUME IdleSaved \in Saved, File!DiskTypeOK, File!ReplaceFile
    PROVE  File!DiskTypeOK'
<1>1. CASE UNCHANGED disk
  BY <1>1 DEF File!DiskTypeOK
<1>2. CASE disk' = [cur |-> disk.tmp, tmp |-> File!Bare("none"),
                    at |-> [q \in Threads |-> File!Relinked(disk.at[q])]]
  BY <1>2, FileBareType DEF File!DiskTypeOK, File!Relinked, File!Places
<1>3. QED BY <1>1, <1>2 DEF File!ReplaceFile

LEMMA FileCloseType ==
    ASSUME File!DiskTypeOK, File!CloseAll
    PROVE  File!DiskTypeOK' /\ disk'.cur = disk.cur /\ disk'.tmp = disk.tmp
BY DEF File!DiskTypeOK, File!CloseAll, File!Places

\* What is true of every dumped dictionary stays true of the files.
LEMMA FilePutFrom ==
    ASSUME NEW G, File!DiskTypeOK, File!FilesFrom(G), NEW p \in Threads, NEW c,
           c.data \in G, File!PutContent(p, c)
    PROVE  File!FilesFrom(G)'
BY DEF File!DiskTypeOK, File!FilesFrom, File!PutContent

LEMMA FileSaveFrom ==
    ASSUME NEW G, IdleSaved \in G, IdleSaved \in Saved, File!DiskTypeOK, File!FilesFrom(G),
           NEW p \in Threads, NEW d \in Saved, d \in G,
           File!OpenTmp(p) \/ File!Dump(p, d) \/ File!ReplaceFile
    PROVE  File!FilesFrom(G)'
<1>1. CASE File!OpenTmp(p)
  BY <1>1 DEF File!DiskTypeOK, File!FilesFrom, File!OpenTmp, File!Bare
<1>2. CASE File!Dump(p, d)
  <2>1. PICK c \in File!Overlay(File!Held(p), d) : File!PutContent(p, c)
    BY <1>2 DEF File!Dump
  <2>2. c.data \in G
    BY <2>1, FileOverlayType DEF File!Json, File!Bare
  <2>3. QED BY <2>1, <2>2, FilePutFrom
<1>3. CASE File!ReplaceFile
  BY <1>3 DEF File!FilesFrom, File!ReplaceFile, File!Bare
<1>4. QED BY <1>1, <1>2, <1>3

-----------------------------------------------------------------------------
(* Snapshots *)

\* The empty snapshot is one.
LEMMA NoSnapType == NoSnap \in Snapshots
BY BoundAssumption DEF NoSnap, Snapshots, Saved, IdleSaved, Runs

\* Snapshots that no longer share the fired dict keep their type.
LEMMA DetachedType ==
    ASSUME TypeOK
    PROVE  Detached \in [Threads -> Snapshots]
BY DEF TypeOK, Detached, Snapshots

\* Marking a step as fired, also where a snapshot shares the dict, keeps the type.
LEMMA GrownType ==
    ASSUME TypeOK, NEW s \in Steps
    PROVE  Grown(s) \in [Threads -> Snapshots]
<1>1. ASSUME NEW d \in Saved PROVE [d EXCEPT !.fired = @ \cup {s}] \in Saved
  BY DEF Saved
<1>2. ASSUME NEW n \in Snapshots, NEW r \in BOOLEAN
      PROVE  [n EXCEPT !.data.fired = n.data.fired \cup {s}, !.raced = r]
             \in Snapshots
  <2>1. n.data \in Saved
    BY DEF Snapshots
  <2>2. [n.data EXCEPT !.fired = @ \cup {s}] \in Saved
    BY <1>1, <2>1
  <2> QED BY <2>2 DEF Snapshots
<1>3. \A p \in Threads : snap[p] \in Snapshots /\ snap[p].raced \in BOOLEAN
  BY DEF TypeOK, Snapshots
<1>4. ASSUME NEW p \in Threads
      PROVE  [snap[p] EXCEPT !.data.fired = snap[p].data.fired \cup {s},
                             !.raced = snap[p].raced
                                       \/ (pc[p] = "write" /\ fired # {})]
             \in Snapshots
  BY <1>2, <1>3
<1> QED BY <1>3, <1>4 DEF Grown

\* What marking a step does to a snapshot: the step is added, or nothing.
LEMMA GrownData ==
    ASSUME TypeOK, NEW s \in Steps
    PROVE  \A q \in Threads :
             /\ Grown(s)[q].data \in Saved
             /\ Grown(s)[q].data.active = snap[q].data.active
             /\ Grown(s)[q].data.run = snap[q].data.run
             /\ Grown(s)[q].data.fired =
                  IF snap[q].shared THEN snap[q].data.fired \cup {s}
                                    ELSE snap[q].data.fired
             /\ Grown(s)[q].shared = snap[q].shared
<1>1. SUFFICES ASSUME NEW q \in Threads
               PROVE  /\ Grown(s)[q].data \in Saved
                      /\ Grown(s)[q].data.active = snap[q].data.active
                      /\ Grown(s)[q].data.run = snap[q].data.run
                      /\ Grown(s)[q].data.fired =
                           IF snap[q].shared THEN snap[q].data.fired \cup {s}
                                             ELSE snap[q].data.fired
                      /\ Grown(s)[q].shared = snap[q].shared
  OBVIOUS
<1>2. snap[q] \in Snapshots /\ Grown(s)[q] \in Snapshots
  BY GrownType DEF TypeOK
<1>3. ASSUME NEW n \in Snapshots, NEW r
      PROVE  LET m == [n EXCEPT !.data.fired = @ \cup {s}, !.raced = r]
             IN  /\ m.data = [n.data EXCEPT !.fired = @ \cup {s}]
                 /\ m.shared = n.shared
  BY DEF Snapshots
<1>4. CASE ~snap[q].shared
  BY <1>2, <1>4 DEF Grown, Snapshots
<1>5. CASE snap[q].shared
  <2>1. /\ Grown(s)[q].data = [snap[q].data EXCEPT !.fired = @ \cup {s}]
        /\ Grown(s)[q].shared = snap[q].shared
    <3>1. Grown(s)[q] = [snap[q] EXCEPT !.data.fired = @ \cup {s},
                           !.raced = snap[q].raced \/ (pc[q] = "write" /\ fired # {})]
      BY <1>5 DEF Grown
    <3>2. QED BY <1>2, <1>3, <3>1
  <2>2. QED BY <1>2, <1>5, <2>1 DEF Snapshots, Saved
<1>6. QED BY <1>4, <1>5

\* A toggle that gets through or does not leaves every host in a state.
LEMMA PulledType ==
    ASSUME TypeOK, NEW h \in Hosts, NEW a, NEW o
    PROVE  Pulled(h, a, o) \in [Hosts -> States]
BY DEF TypeOK, Pulled, Target, States

\* A toggle that is counted keeps the number of failures within its bound.
LEMMA FailuresType ==
    ASSUME TypeOK, NEW o, ToggleCounted(o)
    PROVE  failures' \in 0..MaxFailures
BY BoundAssumption DEF TypeOK, ToggleCounted

-----------------------------------------------------------------------------
(* Type correctness *)

\* A fresh scheduler has its types.
LEMMA InitType == Init => TypeOK
<1> SUFFICES ASSUME Init PROVE TypeOK
  OBVIOUS
<1>1. File!DiskTypeOK
  BY IdleType, FileBareType DEF Init, File!NoDisk, File!DiskTypeOK, File!Places
<1>2. snap \in [Threads -> Snapshots]
  BY NoSnapType DEF Init
<1>3. /\ age \in [1..MaxRuns -> 0..MaxAge]
      /\ runs \in Runs /\ run \in Runs /\ dueRun \in Runs
      /\ heals \in 0..MaxHeals /\ crashes \in 0..MaxCrashes
      /\ failures \in 0..MaxFailures /\ manual \in 0..MaxManual
  BY StepAssumption, BoundAssumption DEF Init, Runs
<1>4. /\ host \in [Hosts -> States]
      /\ pc \in [Threads -> Labels]
      /\ todo \in [Handlers -> SUBSET Hosts]
  BY DEF Init, States, Labels
<1>5. QED BY <1>1, <1>2, <1>3, <1>4 DEF Init, TypeOK

\* start() keeps the types.
LEMMA StartType ==
    ASSUME TypeOK, NEW p \in Handlers, Start(p)
    PROVE  TypeOK'
<1>1. runs' \in Runs /\ run' \in Runs
  BY BoundAssumption DEF TypeOK, Start, Runs
<1>2. snap' \in [Threads -> Snapshots]
  BY DetachedType DEF Start
<1>3. pc' \in [Threads -> Labels]
  BY DEF TypeOK, Start, Goto, Labels, Threads
<1>4. QED BY <1>1, <1>2, <1>3
          DEF TypeOK, Start, faults, history, File!DiskTypeOK

\* The first part of heal() keeps the types.
LEMMA HealClearType ==
    ASSUME TypeOK, NEW p \in Handlers, HealClear(p)
    PROVE  TypeOK'
<1>1. run' \in Runs /\ heals' \in 0..MaxHeals
  BY BoundAssumption DEF TypeOK, HealClear, Disarm, HealList, Runs
<1>2. snap' \in [Threads -> Snapshots]
  BY DetachedType DEF HealClear, Disarm, HealList
<1>3. pc' \in [Threads -> Labels]
  BY DEF TypeOK, HealClear, Disarm, HealList, Goto, Labels, Threads
<1>4. todo' \in [Handlers -> SUBSET Hosts]
  BY ParticipantsAreHosts DEF TypeOK, HealClear, Disarm, HealList
<1>5. QED BY <1>1, <1>2, <1>3, <1>4
          DEF TypeOK, HealClear, Disarm, HealList, faults, File!DiskTypeOK

\* The toggles of heal() keep the types.
LEMMA HealHostType ==
    ASSUME TypeOK, NEW p \in Handlers, HealHost(p)
    PROVE  TypeOK'
<1>1. PICK s \in Steps, o \in Outcomes :
        /\ HostOf[s] \in todo[p]
        /\ ToggleCounted(o)
        /\ host' = Pulled(HostOf[s], "heal", o)
        /\ excused' = IF o = "lost" THEN excused \cup {HostOf[s]}
                      ELSE excused \ {HostOf[s]}
        /\ todo' = [todo EXCEPT ![p] = @ \ {HostOf[s]}]
        /\ Goto(p, IF todo[p] = {HostOf[s]} THEN "snap" ELSE "heal")
  BY DEF HealHost
<1>2. HostOf[s] \in Hosts
  BY StepAssumption DEF Steps
<1>3. host' \in [Hosts -> States]
  BY <1>1, <1>2, PulledType
<1>4. failures' \in 0..MaxFailures
  BY <1>1, FailuresType
<1>5. pc' \in [Threads -> Labels]
  BY <1>1 DEF TypeOK, Goto, Labels, Threads
<1>6. todo' \in [Handlers -> SUBSET Hosts] /\ excused' \in SUBSET Hosts
  BY <1>1, <1>2 DEF TypeOK
<1>7. QED BY <1>3, <1>4, <1>5, <1>6
          DEF TypeOK, HealHost, memory, File!DiskTypeOK

\* A toggle from a panel keeps the types.
LEMMA PanelToggleType ==
    ASSUME TypeOK, NEW h \in Hosts, NEW a \in Actions, PanelToggle(h, a)
    PROVE  TypeOK'
<1>1. host' \in [Hosts -> States]
  BY DEF TypeOK, PanelToggle, Target, States
<1>2. manual' \in 0..MaxManual
  BY BoundAssumption DEF TypeOK, PanelToggle
<1>3. excused' \in SUBSET Hosts
  BY DEF TypeOK, PanelToggle
<1>4. QED BY <1>1, <1>2, <1>3
          DEF TypeOK, PanelToggle, memory, File!DiskTypeOK

\* _tick keeps the types.
LEMMA TickType ==
    ASSUME TypeOK, Tick
    PROVE  TypeOK'
<1>1. CASE TickScan
  <2>1. due' \in SUBSET Steps /\ dueRun' \in Runs
    BY <1>1 DEF TypeOK, TickScan, FireFirst, DueNow
  <2>2. pc' \in [Threads -> Labels]
    BY <1>1 DEF TypeOK, TickScan, FireFirst, Goto, Labels, Threads
  <2>3. QED BY <1>1, <2>1, <2>2
            DEF TypeOK, TickScan, FireFirst, memory, faults, history, File!DiskTypeOK
<1>2. CASE TickNothing
  BY <1>2 DEF TypeOK, TickNothing, vars, File!DiskTypeOK
<1>3. CASE FireToggle
  <2>1. PICK s \in due, o \in Outcomes :
          /\ ToggleCounted(o)
          /\ host' = Pulled(HostOf[s], ActionOf[s], o)
          /\ attempted' = attempted \cup {<<dueRun, s>>}
          /\ excused' = IF active \/ o = "lost" THEN excused
                        ELSE excused \cup {HostOf[s]}
    BY <1>3 DEF FireToggle
  <2>2. s \in Steps /\ HostOf[s] \in Hosts
    BY StepAssumption DEF TypeOK, Steps
  <2>3. host' \in [Hosts -> States]
    BY <2>1, <2>2, PulledType
  <2>4. failures' \in 0..MaxFailures
    BY <2>1, FailuresType
  <2>5. attempted' \in SUBSET (Runs \X Steps) /\ excused' \in SUBSET Hosts
    BY <2>1, <2>2 DEF TypeOK
  <2>6. pc' \in [Threads -> Labels]
    BY <1>3 DEF TypeOK, FireToggle, Goto, Labels, Threads
  <2>7. QED BY <1>3, <2>3, <2>4, <2>5, <2>6
            DEF TypeOK, FireToggle, memory, File!DiskTypeOK
<1>4. CASE FireMark
  <2>1. PICK s \in due : /\ fired' = fired \cup {s}
                         /\ snap' = Grown(s)
                         /\ due' = due \ {s}
    BY <1>4 DEF FireMark, Marked
  <2>2. s \in Steps
    BY DEF TypeOK
  <2>3. snap' \in [Threads -> Snapshots]
    BY <2>1, <2>2, GrownType
  <2>4. fired' \in SUBSET Steps /\ due' \in SUBSET Steps
    BY <2>1, <2>2 DEF TypeOK
  <2>5. pc' \in [Threads -> Labels]
    BY <1>4 DEF TypeOK, FireMark, Marked, Goto, Labels, Threads
  <2>6. QED BY <1>4, <2>3, <2>4, <2>5
            DEF TypeOK, FireMark, Marked, faults, history, File!DiskTypeOK
<1>5. QED BY <1>1, <1>2, <1>3, <1>4 DEF Tick

\* A save, or one that fails, keeps the types.
LEMMA SaveType ==
    ASSUME TypeOK, NEW p \in Threads, Save(p)
    PROVE  TypeOK'
<1> USE DEF unsaved, memory, faults, history
<1>0. \A l \in Labels : [pc EXCEPT ![p] = l] \in [Threads -> Labels]
  BY DEF TypeOK
<1>1. [snap EXCEPT ![p] = NoSnap] \in [Threads -> Snapshots]
  BY NoSnapType DEF TypeOK
<1>2. File!DiskTypeOK /\ snap[p].data \in Saved
  BY DEF TypeOK, Snapshots
<1>3. CASE SaveSnapshot(p)
  <2>1. snap' \in [Threads -> Snapshots]
    BY <1>3 DEF TypeOK, SaveSnapshot, Snapshots, Saved
  <2>2. pc' \in [Threads -> Labels]
    BY <1>3, <1>0 DEF SaveSnapshot, Goto, Labels
  <2>3. QED BY <1>3, <2>1, <2>2 DEF TypeOK, SaveSnapshot, File!DiskTypeOK
<1>4. CASE SaveOpen(p)
  <2>1. File!DiskTypeOK'
    BY <1>2, <1>4, IdleType, FileOpenType DEF SaveOpen
  <2>2. pc' \in [Threads -> Labels]
    BY <1>4, <1>0 DEF SaveOpen, Goto, Labels
  <2>3. QED BY <1>4, <2>1, <2>2 DEF TypeOK, SaveOpen
<1>5. CASE SaveDump(p)
  <2>3. File!DiskTypeOK'
    BY <1>2, <1>5, IdleType, FileDumpType DEF SaveDump
  <2>4. pc' \in [Threads -> Labels]
    BY <1>5, <1>0 DEF SaveDump, Goto, Labels
  <2>5. QED BY <1>1, <1>5, <2>3, <2>4 DEF TypeOK, SaveDump
<1>6. CASE SaveRaises(p)
  <2>1. PICK c \in CutOver(File!Held(p), snap[p].data) :
          File!PutContent(p, c)
    BY <1>6 DEF SaveRaises
  <2>2. c \in File!Content
    BY <1>2, <2>1, IdleType, FileHeldType, FileBareType DEF CutOver
  <2>3. File!DiskTypeOK'
    BY <1>2, <2>1, <2>2, FilePutType
  <2>4. pc' \in [Threads -> Labels]
    BY <1>6, <1>0 DEF SaveRaises, Goto, Labels
  <2>5. QED BY <1>1, <1>6, <2>3, <2>4 DEF TypeOK, SaveRaises
<1>7. CASE SaveReplace(p)
  <2>1. File!DiskTypeOK'
    BY <1>2, <1>7, IdleType, FileReplaceType DEF SaveReplace
  <2>2. pc' \in [Threads -> Labels]
    BY <1>7, <1>0 DEF SaveReplace, Goto, Labels
  <2>3. dueRun' \in Runs
    BY <1>7, BoundAssumption DEF TypeOK, SaveReplace, Runs
  <2>4. QED BY <1>7, <2>1, <2>2, <2>3 DEF TypeOK, SaveReplace
<1>8. QED BY <1>3, <1>4, <1>5, <1>6, <1>7 DEF Save

\* The clock keeps the types.
LEMMA ClockType ==
    ASSUME TypeOK, Clock
    PROVE  TypeOK'
<1>1. age' \in [1..MaxRuns -> 0..MaxAge]
  <2>1. \A r \in 1..MaxRuns : age[r] \in 0..MaxAge
    BY DEF TypeOK
  <2>2. ASSUME NEW r \in 1..MaxRuns
        PROVE  (IF r <= runs /\ age[r] < MaxAge THEN age[r] + 1 ELSE age[r])
                 \in 0..MaxAge
    BY <2>1, StepAssumption
  <2>3. QED BY <2>2 DEF Clock
<1>2. QED BY <1>1
          DEF TypeOK, Clock, memory, faults, history, File!DiskTypeOK

\* An escalation on a host keeps the types.
LEMMA EscalateType ==
    ASSUME TypeOK, NEW h \in Hosts, ChildEscalates(h)
    PROVE  TypeOK'
<1>1. host' \in [Hosts -> States]
  BY DEF TypeOK, ChildEscalates, States
<1>2. QED BY <1>1
          DEF TypeOK, ChildEscalates, memory, faults, history, File!DiskTypeOK

\* A crash and the load after it keep the types.
LEMMA RestartType ==
    ASSUME TypeOK, Restart
    PROVE  TypeOK'
<1>1. /\ active' \in BOOLEAN /\ run' \in Runs /\ fired' \in SUBSET Steps
  <2> DEFINE d == IF File!Loadable THEN disk.cur.data ELSE IdleSaved
  <2>1. d \in Saved
    BY BoundAssumption
       DEF TypeOK, File!DiskTypeOK, File!Content, Saved, IdleSaved, Runs
  <2>2. active' = d.active /\ run' = d.run /\ fired' = d.fired
    BY DEF Restart
  <2> HIDE DEF d
  <2>3. QED BY <2>1, <2>2 DEF Saved
<1>2. File!DiskTypeOK'
  BY FileCloseType DEF TypeOK, Restart
<1>3. snap' \in [Threads -> Snapshots]
  BY NoSnapType DEF Restart
<1>4. crashes' \in 0..MaxCrashes /\ dueRun' \in Runs
  BY BoundAssumption DEF TypeOK, Restart, Runs
<1>5. /\ pc' \in [Threads -> Labels]
      /\ todo' \in [Handlers -> SUBSET Hosts]
      /\ due' \in SUBSET Steps
      /\ excused' \in SUBSET Hosts
  BY DEF Restart, Labels
<1>6. QED BY <1>1, <1>2, <1>3, <1>4, <1>5 DEF TypeOK, Restart

\* Every step keeps the types.
LEMMA NextType ==
    ASSUME TypeOK, [Next]_vars
    PROVE  TypeOK'
<1>1. ASSUME NEW p \in Handlers, Request(p) \/ HealHost(p)
      PROVE  TypeOK'
  BY <1>1, StartType, HealClearType, HealHostType DEF Request
<1>2. CASE UNCHANGED vars
  BY <1>2 DEF TypeOK, vars, File!DiskTypeOK
<1>3. QED BY <1>1, <1>2, SaveType, TickType, EscalateType, PanelToggleType,
             ClockType, RestartType DEF Next

\* Every reachable state of the cascade is well typed: the scheduler, the
\* requests and the state file never leave the values the code can hold.
THEOREM TypeCorrect == Spec => []TypeOK
<1>1. Init => TypeOK
  BY InitType
<1>2. TypeOK /\ [Next]_vars => TypeOK'
  BY NextType
<1>3. QED BY <1>1, <1>2, PTL DEF Spec

-----------------------------------------------------------------------------
(* A cascade is armed exactly when it has a start time *)

Sound(d) == d.active <=> d.run # 0

\* A fresh scheduler is not armed.
LEMMA ArmedInit == Init => ArmedHasStart
BY DEF Init, ArmedHasStart, NoSnap, IdleSaved, File!NoDisk, File!Bare

\* Steps that leave memory, snapshots and files alone.
LEMMA ArmedUntouched ==
    ASSUME ArmedHasStart, UNCHANGED <<active, run, snap, disk>>
    PROVE  ArmedHasStart'
BY DEF ArmedHasStart

\* The dictionaries that are armed with a start time or not armed at all.
SoundData == {d \in Saved : Sound(d)}

\* ArmedHasStart in terms of that set.
LEMMA SoundFiles ==
    ASSUME TypeOK
    PROVE  ArmedHasStart <=>
             /\ active <=> run # 0
             /\ File!FilesFrom(SoundData)
             /\ \A p \in Threads : snap[p].data \in SoundData
BY DEF ArmedHasStart, SoundData, Sound, File!FilesFrom, TypeOK,
       File!DiskTypeOK, File!Content, Snapshots

\* A save keeps an armed run with its start.
LEMMA ArmedSave ==
    ASSUME TypeOK, ArmedHasStart, NEW p \in Threads, Save(p)
    PROVE  ArmedHasStart'
<1> USE DEF unsaved, memory
<1>1. TypeOK'
  BY SaveType
<1>2. /\ active <=> run # 0
      /\ File!FilesFrom(SoundData) /\ File!DiskTypeOK
      /\ \A q \in Threads : snap[q].data \in SoundData
  BY SoundFiles DEF TypeOK
<1>3. IdleSaved \in Saved /\ IdleSaved \in SoundData
  BY IdleType DEF SoundData, Sound, IdleSaved
<1>4. UNCHANGED <<active, run>>
  BY DEF Save, SaveSnapshot, SaveOpen, SaveDump, SaveRaises, SaveReplace
<1>5. snap[p].data \in Saved
  BY <1>2 DEF SoundData
<1>6. File!FilesFrom(SoundData)'
  <2>1. CASE SaveSnapshot(p)
    BY <1>2, <2>1 DEF SaveSnapshot, File!FilesFrom
  <2>2. CASE SaveOpen(p) \/ SaveDump(p) \/ SaveReplace(p)
    BY <1>2, <1>3, <1>5, <2>2, FileSaveFrom
       DEF SaveOpen, SaveDump, SaveReplace
  <2>3. CASE SaveRaises(p)
    <3>1. PICK c \in CutOver(File!Held(p), snap[p].data) :
            File!PutContent(p, c)
      BY <2>3 DEF SaveRaises
    <3>2. File!Held(p).data \in SoundData
      BY <1>2 DEF File!Held, File!FilesFrom
    <3>3. c.data \in SoundData
      BY <1>3, <3>1, <3>2 DEF CutOver, File!Bare
    <3>4. QED BY <1>2, <3>1, <3>3, FilePutFrom
  <2>4. QED BY <2>1, <2>2, <2>3 DEF Save
<1>7. \A q \in Threads : snap'[q].data \in SoundData
  <2>1. CASE SaveSnapshot(p)
    BY <1>1, <1>2, <2>1
       DEF TypeOK, SaveSnapshot, Snapshots, SoundData, Sound, Saved
  <2>2. CASE SaveOpen(p) \/ SaveReplace(p)
    BY <1>2, <2>2 DEF SaveOpen, SaveReplace
  <2>3. CASE SaveDump(p) \/ SaveRaises(p)
    BY <1>2, <1>3, <2>3 DEF TypeOK, SaveDump, SaveRaises, NoSnap
  <2>4. QED BY <2>1, <2>2, <2>3 DEF Save
<1>8. (active <=> run # 0)'
  BY <1>2, <1>4
<1>9. QED BY <1>1, <1>6, <1>7, <1>8
          DEF ArmedHasStart, SoundData, Sound, File!FilesFrom

\* start() and heal() set or clear the run and its start together.
LEMMA ArmedRequest ==
    ASSUME TypeOK, ArmedHasStart, NEW p \in Handlers, Request(p)
    PROVE  ArmedHasStart'
<1>1. \A q \in Threads : Detached[q].data = snap[q].data
  BY DEF TypeOK, Detached, Snapshots
<1>2. CASE Start(p)
  <2>1. active' <=> run' # 0
    BY <1>2, BoundAssumption DEF TypeOK, Start, Runs
  <2>2. QED BY <1>1, <1>2, <2>1 DEF ArmedHasStart, Start
<1>3. CASE HealClear(p)
  BY <1>1, <1>3 DEF ArmedHasStart, HealClear, Disarm, HealList
<1>4. QED BY <1>2, <1>3 DEF Request

\* _tick does not touch the start of the run.
LEMMA ArmedTick ==
    ASSUME TypeOK, ArmedHasStart, Tick
    PROVE  ArmedHasStart'
<1>1. CASE FireMark
  <2>1. PICK s \in due : snap' = Grown(s)
    BY <1>1 DEF FireMark, Marked
  <2>2. \A q \in Threads : /\ snap'[q].data.active = snap[q].data.active
                          /\ snap'[q].data.run = snap[q].data.run
    BY <2>1, GrownData DEF TypeOK
  <2>3. QED BY <1>1, <2>2 DEF ArmedHasStart, FireMark, Marked
<1>2. CASE TickScan \/ TickNothing \/ FireToggle
  BY <1>2, ArmedUntouched DEF TickScan, FireFirst, TickNothing, FireToggle, memory, vars
<1>3. QED BY <1>1, <1>2 DEF Tick

\* What is loaded is what was saved: an armed run has its start.
LEMMA ArmedRestart ==
    ASSUME TypeOK, ArmedHasStart, Restart
    PROVE  ArmedHasStart'
<1> DEFINE d == IF File!Loadable THEN disk.cur.data ELSE IdleSaved
<1>1. d.active <=> d.run # 0
  BY DEF ArmedHasStart, IdleSaved
<1>2. active' = d.active /\ run' = d.run
  BY DEF Restart
<1>3. disk'.cur = disk.cur /\ disk'.tmp = disk.tmp
  BY DEF TypeOK, Restart, File!DiskTypeOK, File!CloseAll
<1>4. \A q \in Threads : snap'[q].data = IdleSaved
  BY DEF Restart, NoSnap
<1> HIDE DEF d
<1>5. QED BY <1>1, <1>2, <1>3, <1>4 DEF ArmedHasStart, IdleSaved

\* No interleaving of requests, ticks, saves and restarts leaves the cascade
\* armed without a start time, in memory or in any file a restart may load:
\* _tick would return early for ever.
THEOREM ArmedHasStartAlways == Spec => []ArmedHasStart
<1>1. Init => ArmedHasStart
  BY ArmedInit
<1>2. TypeOK /\ ArmedHasStart /\ [Next]_vars => ArmedHasStart'
  <2> SUFFICES ASSUME TypeOK, ArmedHasStart, [Next]_vars
               PROVE  ArmedHasStart'
    OBVIOUS
  <2>1. ASSUME NEW p \in Handlers, HealHost(p)
        PROVE  ArmedHasStart'
    BY <2>1, ArmedUntouched DEF HealHost, memory
  <2>2. ASSUME NEW h \in Hosts, NEW a \in Actions, PanelToggle(h, a)
        PROVE  ArmedHasStart'
    BY <2>2, ArmedUntouched DEF PanelToggle, memory
  <2>3. ASSUME NEW h \in Hosts, ChildEscalates(h)
        PROVE  ArmedHasStart'
    BY <2>3, ArmedUntouched DEF ChildEscalates, memory
  <2>4. CASE Clock
    BY <2>4, ArmedUntouched DEF Clock, memory
  <2>5. CASE UNCHANGED vars
    BY <2>5, ArmedUntouched DEF vars
  <2>6. QED BY <2>1, <2>2, <2>3, <2>4, <2>5, ArmedRequest, ArmedSave,
               ArmedTick, ArmedRestart DEF Next
<1>3. QED BY <1>1, <1>2, TypeCorrect, PTL DEF Spec

-----------------------------------------------------------------------------
(* A healed estate stays healed, up to the named causes *)

\* A host that an unarmed cascade does not have to account for.
Settled(h) == \/ host[h] = "healthy"
              \/ h \in excused
              \/ \E p \in Handlers : pc[p] = "heal" /\ h \in todo[p]

\* Steps that keep the hosts, the excuses and the pending heals.
LEMMA SettledKept ==
    ASSUME HealSticks, UNCHANGED <<active, host, excused, todo>>,
           \A p \in Handlers : pc[p] = "heal" => pc'[p] = "heal"
    PROVE  HealSticks'
BY DEF HealSticks, Participants

\* A save keeps what it found.
LEMMA SticksSave ==
    ASSUME TypeOK, HealSticks, NEW p \in Threads, Save(p)
    PROVE  HealSticks'
<1>1. UNCHANGED <<active, host, excused, todo>>
  BY DEF Save, SaveSnapshot, SaveOpen, SaveDump, SaveRaises, SaveReplace,
         unsaved, memory, history
<1>2. /\ pc[p] # "heal"
      /\ \E l \in Labels : pc' = [pc EXCEPT ![p] = l]
  BY DEF Save, SaveSnapshot, SaveOpen, SaveDump, SaveRaises, SaveReplace,
         Goto, Labels
<1>3. \A q \in Handlers : pc[q] = "heal" => pc'[q] = "heal"
  BY <1>2 DEF TypeOK, Threads
<1>4. QED BY <1>1, <1>3, SettledKept

\* heal() toggles only what it found on.
LEMMA SticksHealHost ==
    ASSUME TypeOK, HealSticks, NEW p \in Handlers, HealHost(p)
    PROVE  HealSticks'
<1>1. PICK s \in Steps, o \in Outcomes :
        /\ host' = Pulled(HostOf[s], "heal", o)
        /\ excused' = IF o = "lost" THEN excused \cup {HostOf[s]}
                      ELSE excused \ {HostOf[s]}
        /\ todo' = [todo EXCEPT ![p] = @ \ {HostOf[s]}]
        /\ Goto(p, IF todo[p] = {HostOf[s]} THEN "snap" ELSE "heal")
  BY DEF HealHost
<1> DEFINE h == HostOf[s]
<1>2. h \in Hosts
  BY StepAssumption DEF Steps
<1> HIDE DEF h
<1>3. SUFFICES ASSUME ~active, NEW g \in Participants
               PROVE  Settled(g)'
  BY DEF HealSticks, HealHost, memory, Participants, Settled
<1>4. CASE g = h
  BY <1>1, <1>2, <1>4 DEF TypeOK, Pulled, Target, Settled, h
<1>5. CASE g # h
  <2>1. host'[g] = host[g] /\ (g \in excused => g \in excused')
    BY <1>1, <1>5 DEF TypeOK, Pulled, h
  <2>2. ASSUME NEW q \in Handlers, pc[q] = "heal", g \in todo[q]
        PROVE  pc'[q] = "heal" /\ g \in todo'[q]
    <3>1. CASE q = p
      BY <1>1, <1>5, <2>2, <3>1 DEF TypeOK, Goto, Threads, h
    <3>2. CASE q # p
      BY <1>1, <2>2, <3>2 DEF TypeOK, Goto, Threads
    <3>3. QED BY <3>1, <3>2
  <2>3. QED BY <1>3, <2>1, <2>2 DEF HealSticks, Settled
<1>6. QED BY <1>4, <1>5

\* A toggle from a panel is one host's.
LEMMA SticksToggle ==
    ASSUME TypeOK, HealSticks, FireToggle
    PROVE  HealSticks'
<1>1. PICK s \in due, o \in Outcomes :
        /\ host' = Pulled(HostOf[s], ActionOf[s], o)
        /\ excused' = IF active \/ o = "lost" THEN excused
                      ELSE excused \cup {HostOf[s]}
  BY DEF FireToggle
<1>2. \A p \in Handlers : pc'[p] = pc[p]
  BY ThreadAssumption DEF TypeOK, FireToggle, Goto, Threads
<1>3. SUFFICES ASSUME ~active, NEW g \in Participants
               PROVE  Settled(g)'
  BY DEF HealSticks, FireToggle, memory, Participants, Settled
<1>4. CASE g = HostOf[s] /\ o # "lost"
  BY <1>1, <1>3, <1>4 DEF Settled
<1>5. CASE g # HostOf[s] \/ o = "lost"
  <2>1. host'[g] = host[g] /\ (g \in excused => g \in excused')
    BY <1>1, <1>5 DEF TypeOK, Pulled
  <2>2. QED BY <1>2, <1>3, <2>1 DEF HealSticks, Settled, FireToggle
<1>6. QED BY <1>4, <1>5

\* heal() holds: in an unarmed cascade a participant is unhealthy only while
\* a heal() still has it on its list, or because its heal call failed, the
\* operator toggled it, the shell was restarted, or the scheduler sent a step
\* of a due list that was older than the heal.
THEOREM HealSticksAlways == Spec => []HealSticks
<1>1. Init => HealSticks
  BY ParticipantsAreHosts DEF Init, HealSticks
<1>2. TypeOK /\ HealSticks /\ [Next]_vars => HealSticks'
  <2> SUFFICES ASSUME TypeOK, HealSticks, [Next]_vars
               PROVE  HealSticks'
    OBVIOUS
  <2>1. ASSUME NEW p \in Handlers, Start(p)
        PROVE  HealSticks'
    BY <2>1 DEF HealSticks, Start
  <2>2. ASSUME NEW p \in Handlers, HealClear(p)
        PROVE  HealSticks'
    <3>1. SUFFICES ASSUME NEW h \in Participants
                   PROVE  pc'[p] = "heal" /\ h \in todo'[p]
      BY DEF HealSticks, Participants
    <3>2. HealList = Participants /\ HealList # {}
      BY <3>1 DEF HealList
    <3>3. pc' = [pc EXCEPT ![p] = "heal"] /\ todo' = [todo EXCEPT ![p] = HealList]
      BY <2>2, <3>2 DEF HealClear, Goto
    <3>4. QED BY <3>1, <3>2, <3>3 DEF TypeOK, Threads
  <2>3. ASSUME NEW h \in Hosts, NEW a \in Actions, PanelToggle(h, a)
        PROVE  HealSticks'
    <3>1. SUFFICES ASSUME ~active, NEW g \in Participants
                   PROVE  Settled(g)'
      BY <2>3 DEF HealSticks, PanelToggle, memory, Participants, Settled
    <3>2. CASE g = h
      BY <2>3, <3>1, <3>2 DEF TypeOK, HealSticks, PanelToggle, Target, Settled,
                              Actions
    <3>3. CASE g # h
      BY <2>3, <3>1, <3>3 DEF TypeOK, HealSticks, PanelToggle, Settled
    <3>4. QED BY <3>2, <3>3
  <2>4. ASSUME NEW h \in Hosts, ChildEscalates(h)
        PROVE  HealSticks'
    <3>1. SUFFICES ASSUME ~active, NEW g \in Participants
                   PROVE  Settled(g)'
      BY <2>4 DEF HealSticks, ChildEscalates, memory, Participants, Settled
    <3>2. host[g] = "healthy" => host'[g] = "healthy"
      BY <2>4 DEF TypeOK, ChildEscalates
    <3>3. QED BY <2>4, <3>1, <3>2
              DEF HealSticks, Settled, ChildEscalates, history
  <2>5. CASE TickScan \/ FireMark
    <3>1. \A p \in Handlers : pc'[p] = pc[p]
      BY <2>5, ThreadAssumption
         DEF TypeOK, TickScan, FireFirst, FireMark, Marked, Goto, Threads
    <3>2. QED BY <2>5, <3>1, SettledKept
              DEF TickScan, FireFirst, FireMark, Marked, memory, history
  <2>6. CASE Clock \/ TickNothing \/ UNCHANGED vars
    BY <2>6, SettledKept DEF Clock, TickNothing, vars, memory, history
  <2>7. CASE Restart
    BY <2>7, ParticipantsAreHosts DEF HealSticks, Restart, Participants
  <2>8. QED BY <2>1, <2>2, <2>3, <2>4, <2>5, <2>6, <2>7, SticksSave,
               SticksHealHost, SticksToggle DEF Next, Request, Tick
<1>3. QED BY <1>1, <1>2, TypeCorrect, PTL DEF Spec

-----------------------------------------------------------------------------
(* What is recorded as fired was sent *)

\* The steps whose toggle was sent in some run.
SentSteps == {s \in Steps : \E r \in Runs : <<r, s>> \in attempted}

\* The dictionaries that record nothing else.
SentData == {d \in Saved : d.fired \subseteq SentSteps}

\* The record is true wherever a restart or the next save may take it from:
\* memory, snapshots, both files; and between its two halves _fire has sent the
\* step it is about to mark.
SentInv ==
    /\ fired \subseteq SentSteps
    /\ \A p \in Threads : snap[p].data \in SentData
    /\ File!FilesFrom(SentData)
    /\ pc[Ticker] = "mark" => \A s \in due : First(s) => s \in SentSteps

\* Nothing is recorded at first.
LEMMA SentInit == Init => SentInv
<1>1. IdleSaved \in SentData
  BY IdleType DEF SentData, IdleSaved
<1>2. QED BY <1>1 DEF Init, SentInv, NoSnap, File!NoDisk, File!Bare,
                      File!FilesFrom, Threads

\* What was sent stays sent.
LEMMA SentGrows ==
    ASSUME attempted \subseteq attempted'
    PROVE  SentSteps \subseteq SentSteps' /\ SentData \subseteq SentData'
BY DEF SentSteps, SentData

\* Steps that keep the record, the files and the scheduler's place.
LEMMA SentKept ==
    ASSUME SentInv, attempted \subseteq attempted',
           UNCHANGED <<fired, snap, disk, due>>, pc'[Ticker] = "mark" => pc[Ticker] = "mark"
    PROVE  SentInv'
BY SentGrows DEF SentInv, File!FilesFrom, First

\* A request empties the record; snapshots keep what they had.
LEMMA SentRequest ==
    ASSUME TypeOK, SentInv, NEW p \in Handlers, Request(p)
    PROVE  SentInv'
<1>1. /\ fired' = {} /\ snap' = Detached
      /\ UNCHANGED <<disk, due, attempted>>
      /\ \E l \in Labels : pc' = [pc EXCEPT ![p] = l]
  BY DEF Request, Start, HealClear, Disarm, Goto, Labels, history
<1>2. pc'[Ticker] = pc[Ticker]
  BY <1>1, ThreadAssumption DEF TypeOK, Threads
<1>3. \A q \in Threads : Detached[q].data = snap[q].data
  BY DEF TypeOK, Detached, Snapshots
<1>4. SentSteps' = SentSteps /\ SentData' = SentData
  BY <1>1 DEF SentSteps, SentData
<1>5. QED BY <1>1, <1>2, <1>3, <1>4 DEF SentInv, File!FilesFrom, First

\* _fire records the step it has sent, also in the snapshots that share the dict.
LEMMA SentMark ==
    ASSUME TypeOK, SentInv, FireMark
    PROVE  SentInv'
<1>1. PICK s \in due : First(s) /\ fired' = fired \cup {s} /\ snap' = Grown(s)
  BY DEF FireMark, Marked
<1>2. s \in SentSteps
  BY <1>1 DEF FireMark, SentInv
<1>3. SentSteps' = SentSteps /\ SentData' = SentData
  BY DEF FireMark, history, SentSteps, SentData
<1>5. \A q \in Threads : snap'[q].data \in SentData
  <2>1. \A q \in Threads : /\ snap[q] \in Snapshots
                           /\ snap[q].data \in SentData
    BY DEF TypeOK, SentInv
  <2>2. \A q \in Threads : snap'[q].data.fired \subseteq snap[q].data.fired \cup {s}
                           /\ snap'[q].data \in Saved
    BY <1>1, <2>1, GrownData DEF First, TypeOK
  <2>3. QED BY <1>2, <2>1, <2>2 DEF SentData
<1>6. pc'[Ticker] # "mark"
  BY DEF TypeOK, FireMark, Goto, Threads
<1>7. QED BY <1>1, <1>2, <1>3, <1>5, <1>6
          DEF SentInv, FireMark, File!FilesFrom

\* A save writes what was recorded when its snapshot was taken, or since.
LEMMA SentSave ==
    ASSUME TypeOK, SentInv, NEW p \in Threads, Save(p)
    PROVE  SentInv'
<1> USE DEF unsaved, memory, history
<1>1. /\ UNCHANGED <<active, run, fired, due, attempted>>
      /\ \E l \in Labels \ {"mark"} : pc' = [pc EXCEPT ![p] = l]
  BY DEF Save, SaveSnapshot, SaveOpen, SaveDump, SaveRaises, SaveReplace,
         Goto, Labels
<1>2. /\ File!FilesFrom(SentData) /\ File!DiskTypeOK
      /\ snap[p].data \in SentData /\ snap[p].data \in Saved
  BY DEF SentInv, TypeOK, Snapshots
<1>3. IdleSaved \in Saved /\ IdleSaved \in SentData
  BY IdleType DEF SentData, IdleSaved
<1>4. SentSteps' = SentSteps /\ SentData' = SentData
  BY <1>1 DEF SentSteps, SentData
<1>5. /\ disk'.cur.data \in SentData
      /\ disk'.tmp.data \in SentData
  <2>1. CASE SaveSnapshot(p)
    BY <1>2, <2>1 DEF SaveSnapshot, File!FilesFrom
  <2>2. CASE SaveOpen(p) \/ SaveDump(p) \/ SaveReplace(p)
    BY <1>2, <1>3, <2>2, FileSaveFrom
       DEF SaveOpen, SaveDump, SaveReplace, File!FilesFrom
  <2>3. CASE SaveRaises(p)
    <3>1. PICK c \in CutOver(File!Held(p), snap[p].data) :
            File!PutContent(p, c)
      BY <2>3 DEF SaveRaises
    <3>2. File!Held(p).data \in SentData
      BY <1>2 DEF File!Held, File!FilesFrom
    <3>3. c.data \in SentData
      BY <1>3, <3>1, <3>2 DEF CutOver, File!Bare
    <3>4. QED BY <1>2, <3>1, <3>3, FilePutFrom DEF File!FilesFrom
  <2>4. QED BY <2>1, <2>2, <2>3 DEF Save
<1>6. \A q \in Threads : snap'[q].data \in SentData
  <2>1. CASE SaveSnapshot(p)
    <3>1. [active |-> active, run |-> run, fired |-> fired] \in SentData
      BY DEF TypeOK, SentInv, SentData, Saved
    <3>2. QED BY <2>1, <3>1 DEF TypeOK, SentInv, SaveSnapshot
  <2>2. CASE SaveOpen(p) \/ SaveReplace(p)
    BY <2>2 DEF SaveOpen, SaveReplace, SentInv
  <2>3. CASE SaveDump(p) \/ SaveRaises(p)
    BY <1>3, <2>3 DEF TypeOK, SentInv, SaveDump, SaveRaises, NoSnap
  <2>4. QED BY <2>1, <2>2, <2>3 DEF Save
<1>7. pc'[Ticker] = "mark" => pc[Ticker] = "mark"
  BY <1>1 DEF TypeOK, Threads
<1>8. QED BY <1>1, <1>4, <1>5, <1>6, <1>7 DEF SentInv, File!FilesFrom, First

\* The invariant is inductive.
LEMMA SentNext ==
    ASSUME TypeOK, SentInv, [Next]_vars
    PROVE  SentInv'
<1>1. ASSUME NEW p \in Handlers, HealHost(p)
      PROVE  SentInv'
  <2>1. pc'[Ticker] = pc[Ticker]
    BY <1>1, ThreadAssumption DEF TypeOK, HealHost, Goto, Threads
  <2>2. QED BY <1>1, <2>1, SentKept DEF HealHost, memory
<1>2. CASE \/ \E h \in Hosts, a \in Actions : PanelToggle(h, a)
           \/ \E h \in Hosts : ChildEscalates(h)
           \/ Clock \/ TickNothing \/ UNCHANGED vars
  BY <1>2, SentKept DEF PanelToggle, ChildEscalates, Clock, TickNothing, vars,
                        memory, history
<1>3. CASE TickScan
  <2>1. pc'[Ticker] # "mark" /\ UNCHANGED <<fired, snap, disk, attempted>>
    BY <1>3 DEF TypeOK, TickScan, FireFirst, Goto, Threads, memory, history
  <2>2. SentSteps' = SentSteps /\ SentData' = SentData
    BY <2>1 DEF SentSteps, SentData
  <2>3. QED BY <2>1, <2>2 DEF SentInv, File!FilesFrom
<1>4. CASE FireToggle
  <2>1. PICK s \in due : First(s) /\ attempted' = attempted \cup {<<dueRun, s>>}
    BY <1>4 DEF FireToggle
  <2>2. SentSteps \subseteq SentSteps' /\ SentData \subseteq SentData'
    BY <2>1, SentGrows
  <2>3. s \in SentSteps'
    BY <2>1 DEF TypeOK, SentSteps
  <2>4. \A t \in due : First(t) => t = s
    BY <2>1 DEF TypeOK, First, Steps
  <2>5. QED BY <1>4, <2>2, <2>3, <2>4
            DEF SentInv, File!FilesFrom, First, FireToggle, memory
<1>5. CASE Restart
  <2> DEFINE d == IF File!Loadable THEN disk.cur.data ELSE IdleSaved
  <2>1. IdleSaved \in SentData
    BY IdleType DEF SentData, IdleSaved
  <2>2. d.fired \subseteq SentSteps
    BY <2>1 DEF SentInv, File!FilesFrom, SentData
  <2>3. /\ fired' = d.fired /\ attempted' = attempted
        /\ \A q \in Threads : snap'[q].data = IdleSaved /\ pc'[q] = "idle"
    BY <1>5 DEF Restart, NoSnap
  <2>4. disk'.cur = disk.cur /\ disk'.tmp = disk.tmp
    BY <1>5, FileCloseType DEF TypeOK, Restart
  <2>5. SentSteps' = SentSteps /\ SentData' = SentData
    BY <2>3 DEF SentSteps, SentData
  <2> HIDE DEF d
  <2>6. QED BY <2>1, <2>2, <2>3, <2>4, <2>5 DEF SentInv, File!FilesFrom, Threads
<1>6. QED BY <1>1, <1>2, <1>3, <1>4, <1>5, SentRequest, SentMark, SentSave
          DEF Next, Tick

\* A crash can repeat a step but not lose one: whatever memory or the file a
\* restart loads has as fired, its toggle was sent, for any steps, requests,
\* overlapping saves and restarts.
THEOREM FiredWasSentAlways == Spec => []FiredWasSent
<1>1. Init => SentInv
  BY SentInit
<1>2. TypeOK /\ SentInv /\ [Next]_vars => SentInv'
  BY SentNext
<1>3. SentInv => FiredWasSent
  BY DEF SentInv, FiredWasSent, File!FilesFrom, SentData, SentSteps
<1>4. QED BY <1>1, <1>2, <1>3, TypeCorrect, PTL DEF Spec

-----------------------------------------------------------------------------
(* No step is sent twice in a run *)

\* Step s is the one that _fire has sent and is about to mark.
InFlight(s) == pc[Ticker] = "mark" /\ First(s)

\* As long as the shell was not restarted: a run's number is new when it is
\* armed; what was sent for the armed run is marked in it, and what was sent of
\* the due list is no longer on it, up to the step in flight.
OnceInv ==
    crashes = 0 =>
      /\ \A r \in Runs, s \in Steps : <<r, s>> \in attempted => r # 0 /\ r <= runs
      /\ run <= runs /\ dueRun <= runs
      /\ due # {} => dueRun # 0
      /\ run # 0 => \A s \in Steps : <<run, s>> \in attempted =>
                      s \in fired \/ (InFlight(s) /\ dueRun = run)
      /\ \A s \in due : <<dueRun, s>> \in attempted => InFlight(s)

\* The first step of a due list is one step.
LEMMA OneFirst ==
    ASSUME TypeOK, NEW s \in due, First(s)
    PROVE  \A t \in due : First(t) => t = s
BY DEF TypeOK, First, Steps

\* Steps that leave the runs, the record and the scheduler's place alone.
LEMMA OnceKept ==
    ASSUME OnceInv, UNCHANGED <<run, fired, runs, due, crashes, attempted>>,
           \/ dueRun' = dueRun
           \/ dueRun' = 0 /\ due = {},
           pc'[Ticker] = "mark" <=> pc[Ticker] = "mark", BoundAssumption
    PROVE  TypeOK => OnceInv'
BY DEF OnceInv, InFlight, First, TypeOK, Runs

\* The invariant is inductive.
LEMMA OnceNext ==
    ASSUME TypeOK, OnceInv, [Next]_vars
    PROVE  OnceInv'
<1>1. ASSUME NEW p \in Handlers, Start(p)
      PROVE  OnceInv'
  <2>1. pc'[Ticker] = pc[Ticker]
    BY <1>1, ThreadAssumption DEF TypeOK, Start, Goto, Threads
  <2>2. /\ run' = runs + 1 /\ runs' = runs + 1
        /\ UNCHANGED <<due, dueRun, attempted, crashes>>
    BY <1>1 DEF Start, history, faults
  <2>3. QED BY <2>1, <2>2, BoundAssumption DEF OnceInv, InFlight, First, TypeOK, Runs
<1>2. ASSUME NEW p \in Handlers, HealClear(p)
      PROVE  OnceInv'
  <2>1. pc'[Ticker] = pc[Ticker]
    BY <1>2, ThreadAssumption DEF TypeOK, HealClear, Goto, Threads
  <2>2. run' = 0 /\ UNCHANGED <<runs, due, dueRun, attempted, crashes>>
    BY <1>2 DEF HealClear, Disarm, faults
  <2>3. QED BY <2>1, <2>2, BoundAssumption DEF OnceInv, InFlight, First, TypeOK, Runs
<1>3. ASSUME NEW p \in Handlers, HealHost(p)
      PROVE  OnceInv'
  <2>1. pc'[Ticker] = pc[Ticker]
    BY <1>3, ThreadAssumption DEF TypeOK, HealHost, Goto, Threads
  <2>2. QED BY <1>3, <2>1, OnceKept, BoundAssumption DEF HealHost, memory
<1>4. ASSUME NEW p \in Threads, Save(p)
      PROVE  OnceInv'
  <2>1. \E l \in Labels \ {"mark"} : pc' = [pc EXCEPT ![p] = l]
    BY <1>4 DEF Save, SaveSnapshot, SaveOpen, SaveDump, SaveRaises,
                SaveReplace, Goto, Labels
  <2>2. pc[p] # "mark"
    BY <1>4 DEF Save, SaveSnapshot, SaveOpen, SaveDump, SaveRaises, SaveReplace
  <2>3. pc'[Ticker] = "mark" <=> pc[Ticker] = "mark"
    BY <2>1, <2>2 DEF TypeOK, Threads
  <2>4. /\ UNCHANGED <<run, fired, runs, due, crashes, attempted>>
        /\ dueRun' = dueRun \/ (dueRun' = 0 /\ due = {})
    BY <1>4 DEF Save, SaveSnapshot, SaveOpen, SaveDump, SaveRaises,
                SaveReplace, unsaved, memory, history, faults
  <2>5. QED BY <2>3, <2>4, OnceKept, BoundAssumption
<1>5. CASE TickScan
  <2>1. /\ due' = DueNow /\ dueRun' = run
        /\ UNCHANGED <<run, fired, runs, attempted, crashes>>
        /\ pc[Ticker] = "idle" /\ pc'[Ticker] = "fire"
    BY <1>5 DEF TypeOK, TickScan, FireFirst, Goto, Threads, memory, history,
                faults
  <2>2. \A s \in due' : run # 0 /\ s \in Steps /\ s \notin fired
    BY <2>1 DEF DueNow
  <2>3. QED BY <2>1, <2>2 DEF OnceInv, InFlight
<1>6. CASE FireToggle
  <2>1. PICK s \in due : First(s) /\ attempted' = attempted \cup {<<dueRun, s>>}
    BY <1>6 DEF FireToggle
  <2>2. /\ UNCHANGED <<run, fired, runs, due, dueRun, crashes>>
        /\ pc[Ticker] = "fire" /\ pc'[Ticker] = "mark"
    BY <1>6 DEF TypeOK, FireToggle, Goto, Threads, memory
  <2>3. First(s)'
    BY <2>1, <2>2 DEF First
  <2>4. \A r \in Runs, t \in Steps :
          <<r, t>> \in attempted' => <<r, t>> \in attempted \/ (r = dueRun /\ t = s)
    BY <2>1
  <2>5. dueRun \in Runs /\ s \in Steps /\ due \subseteq Steps /\ run \in Runs
    BY DEF TypeOK
  <2>6. QED BY <2>1, <2>2, <2>3, <2>4, <2>5 DEF OnceInv, InFlight
<1>7. CASE FireMark
  <2>1. PICK s \in due : First(s) /\ fired' = fired \cup {s} /\ due' = due \ {s}
    BY <1>7 DEF FireMark, Marked
  <2>2. /\ UNCHANGED <<run, runs, dueRun, attempted, crashes>>
        /\ pc[Ticker] = "mark" /\ pc'[Ticker] = "snap"
    BY <1>7 DEF TypeOK, FireMark, Goto, Threads, history, faults
  <2>3. \A t \in Steps : InFlight(t) => t = s
    BY <2>1, OneFirst DEF InFlight, First
  <2>4. due \subseteq Steps
    BY DEF TypeOK
  <2>5. QED BY <2>1, <2>2, <2>3, <2>4 DEF OnceInv
<1>8. CASE Restart
  BY <1>8 DEF Restart, OnceInv, TypeOK
<1>9. CASE \/ \E h \in Hosts, a \in Actions : PanelToggle(h, a)
           \/ \E h \in Hosts : ChildEscalates(h)
           \/ Clock \/ TickNothing \/ UNCHANGED vars
  BY <1>9, OnceKept, BoundAssumption
     DEF PanelToggle, ChildEscalates, Clock, TickNothing, vars, memory,
         history, faults
<1>10. QED BY <1>1, <1>2, <1>3, <1>4, <1>5, <1>6, <1>7, <1>8, <1>9
           DEF Next, Tick, Request

\* The scheduler sends no step of a run twice while its process lives, whatever
\* starts, heals, saves and failing toggles come between its two locked blocks.
THEOREM SentOnceAlways == Spec => SentOnce
<1>1. Init => OnceInv
  BY DEF Init, OnceInv
<1>2. TypeOK /\ OnceInv /\ [Next]_vars => OnceInv'
  BY OnceNext
<1>3. OnceInv => ((pc[Ticker] = "fire" /\ pc'[Ticker] = "mark" /\ crashes = 0) =>
                    \A s \in due : First(s) => <<dueRun, s>> \notin attempted)
  BY DEF OnceInv, InFlight
<1>4. QED BY <1>1, <1>2, <1>3, TypeCorrect, PTL DEF Spec, SentOnce

-----------------------------------------------------------------------------
(* Steps go out in the order of the story *)

\* The steps that were sent in run r, or marked in it by an older due list.
Done(r) == {s \in Steps : <<r, s>> \in attempted \cup carried}

\* The dictionaries that record no other step of their run.
DoneData == {d \in Saved : d.run # 0 => d.fired \subseteq Done(d.run)}

\* What a run has as fired is done in that run, wherever it is recorded; a
\* snapshot that shares the dict is of the armed run; what is missing at the
\* head of a due list is done, and the step in flight was sent.
OrderInv ==
    /\ CausalOrder
    /\ run # 0 => fired \subseteq Done(run)
    /\ \A p \in Threads : /\ snap[p].data \in DoneData
                          /\ snap[p].shared => snap[p].data.run = run
    /\ File!FilesFrom(DoneData)
    /\ \A s \in due, t \in Steps : (t < s /\ t \notin due) => t \in Done(dueRun)
    /\ \A s \in due : InFlight(s) => <<dueRun, s>> \in attempted

\* Nothing is sent or recorded at first.
LEMMA OrderInit == Init => OrderInv
<1>1. Init => IdleSaved \in DoneData
  BY IdleType DEF DoneData, IdleSaved
<1>2. QED BY <1>1 DEF Init, OrderInv, CausalOrder, NoSnap, File!NoDisk,
                      File!Bare, File!FilesFrom

\* What is done stays done.
LEMMA DoneGrows ==
    ASSUME attempted \subseteq attempted', carried \subseteq carried'
    PROVE  /\ \A r : Done(r) \subseteq Done(r)'
           /\ DoneData \subseteq DoneData'
BY DEF Done, DoneData

\* The dictionary that an empty file or a fresh scheduler stands for.
LEMMA IdleDone == IdleSaved \in DoneData
BY IdleType DEF DoneData, IdleSaved

\* Steps that keep the records, the files and the scheduler's place.
LEMMA OrderKept ==
    ASSUME OrderInv,
           UNCHANGED <<run, fired, snap, disk, due, attempted, carried>>,
           dueRun' = dueRun \/ due = {},
           pc'[Ticker] = "mark" => pc[Ticker] = "mark"
    PROVE  OrderInv'
<1>1. DoneData' = DoneData /\ \A r : Done(r)' = Done(r)
  BY DEF DoneData, Done
<1>2. CausalOrder'
  BY DEF OrderInv, CausalOrder
<1>3. QED BY <1>1, <1>2 DEF OrderInv, File!FilesFrom, InFlight, First

\* A request empties the record and parts it from the snapshots.
LEMMA OrderRequest ==
    ASSUME TypeOK, OrderInv, NEW p \in Handlers, Request(p)
    PROVE  OrderInv'
<1>1. /\ fired' = {} /\ snap' = Detached
      /\ UNCHANGED <<disk, due, dueRun, attempted, carried>>
      /\ \E l \in Labels : pc' = [pc EXCEPT ![p] = l]
  BY DEF Request, Start, HealClear, Disarm, Goto, Labels, history
<1>2. pc'[Ticker] = pc[Ticker]
  BY <1>1, ThreadAssumption DEF TypeOK, Threads
<1>3. \A q \in Threads : Detached[q].data = snap[q].data /\ ~Detached[q].shared
  BY DEF TypeOK, Detached, Snapshots
<1>4. DoneData' = DoneData /\ \A r : Done(r)' = Done(r)
  BY <1>1 DEF DoneData, Done
<1>5. CausalOrder'
  BY <1>1 DEF OrderInv, CausalOrder
<1>6. QED BY <1>1, <1>2, <1>3, <1>4, <1>5
          DEF OrderInv, File!FilesFrom, InFlight, First

\* The delays grow along the story: what comes before a due step and is not due
\* itself is marked.
LEMMA BeforeDue ==
    ASSUME TypeOK
    PROVE  \A s \in DueNow, t \in Steps : (t < s /\ t \notin DueNow) => t \in fired
<1>1. SUFFICES ASSUME NEW s \in DueNow, NEW t \in Steps, t < s, t \notin DueNow
               PROVE  t \in fired
  OBVIOUS
<1>2. s \in Steps /\ active /\ run # 0 /\ age[run] >= DelayOf[s]
  BY DEF DueNow
<1>3. age[run] \in 0..MaxAge
  BY <1>2, BoundAssumption DEF TypeOK, Runs
<1>4. /\ DelayOf[s] \in 0..MaxAge /\ DelayOf[t] \in 0..MaxAge
      /\ DelayOf[t] <= DelayOf[s]
  BY <1>1, <1>2, StepAssumption, OrderAssumption DEF Steps
<1>5. age[run] >= DelayOf[t]
  BY <1>2, <1>3, <1>4, StepAssumption
<1>6. QED BY <1>1, <1>2, <1>5 DEF DueNow

\* The due list is the rest of the story so far: what is due before one of its
\* steps and not on it is marked.
LEMMA OrderScan ==
    ASSUME TypeOK, OrderInv, TickScan
    PROVE  OrderInv'
<1>1. /\ due' = DueNow /\ dueRun' = run /\ DueNow # {}
      /\ UNCHANGED <<run, fired, snap, disk, attempted, carried>>
      /\ pc'[Ticker] = "fire"
  BY DEF TypeOK, TickScan, FireFirst, Goto, Threads, memory, history
<1>2. DoneData' = DoneData /\ \A r : Done(r)' = Done(r)
  BY <1>1 DEF DoneData, Done
<1>3. \A s \in DueNow, t \in Steps : (t < s /\ t \notin DueNow) => t \in fired
  BY BeforeDue
<1>4. run # 0
  BY <1>1 DEF DueNow
<1>5. CausalOrder'
  BY <1>1 DEF OrderInv, CausalOrder
<1>6. QED BY <1>1, <1>2, <1>3, <1>4, <1>5 DEF OrderInv, File!FilesFrom, InFlight

\* The first step of the list goes out when all before it are done.
LEMMA OrderToggle ==
    ASSUME TypeOK, OrderInv, FireToggle
    PROVE  OrderInv'
<1>1. PICK s \in due : First(s) /\ attempted' = attempted \cup {<<dueRun, s>>}
  BY DEF FireToggle
<1>2. UNCHANGED <<run, fired, snap, disk, due, dueRun, carried>>
  BY DEF FireToggle, memory
<1>3. DoneData \subseteq DoneData' /\ \A r : Done(r) \subseteq Done(r)'
  BY <1>1, <1>2, DoneGrows
<1>4. \A t \in due : First(t) => t = s
  BY <1>1, OneFirst
<1>5. \A t \in Steps : t < s => t \in Done(dueRun)
  <2>1. \A t \in Steps : t < s => t \notin due
    BY <1>1 DEF TypeOK, First, Steps
  <2>2. QED BY <2>1 DEF OrderInv
<1>6. CausalOrder'
  <2>1. SUFFICES ASSUME NEW r \in Runs, NEW x \in Steps, <<r, x>> \in attempted',
                        NEW t \in Steps, t < x
                 PROVE  <<r, t>> \in attempted' \cup carried'
    BY DEF CausalOrder
  <2>2. CASE <<r, x>> \in attempted
    BY <1>1, <1>2, <2>1, <2>2 DEF OrderInv, CausalOrder
  <2>3. CASE r = dueRun /\ x = s
    BY <1>1, <1>2, <1>5, <2>1, <2>3 DEF Done
  <2>4. QED BY <1>1, <2>1, <2>2, <2>3
<1>7. (\A x \in due : InFlight(x) => <<dueRun, x>> \in attempted)'
  BY <1>1, <1>2, <1>4 DEF InFlight, First
<1>8. QED BY <1>2, <1>3, <1>6, <1>7 DEF OrderInv, File!FilesFrom

\* Marking a step of another run's list is what `carried` records.
LEMMA OrderMark ==
    ASSUME TypeOK, OrderInv, FireMark
    PROVE  OrderInv'
<1>1. PICK s \in due : /\ First(s) /\ fired' = fired \cup {s} /\ snap' = Grown(s)
                       /\ due' = due \ {s}
                       /\ carried' = IF run = dueRun THEN carried
                                     ELSE carried \cup {<<run, s>>}
  BY DEF FireMark, Marked
<1>2. /\ UNCHANGED <<run, disk, dueRun, attempted>>
      /\ pc[Ticker] = "mark" /\ pc'[Ticker] = "snap"
  BY DEF TypeOK, FireMark, Goto, Threads
<1>3. DoneData \subseteq DoneData' /\ \A r : Done(r) \subseteq Done(r)'
  BY <1>1, <1>2, DoneGrows
<1>4. s \in Steps /\ <<dueRun, s>> \in attempted
  BY <1>1, <1>2 DEF TypeOK, OrderInv, InFlight
<1>5. s \in Done(run)'
  BY <1>1, <1>2, <1>4 DEF Done
<1>6. CausalOrder'
  BY <1>1, <1>2 DEF OrderInv, CausalOrder
<1>7. \A q \in Threads : /\ snap'[q].data \in DoneData'
                         /\ snap'[q].shared => snap'[q].data.run = run'
  <2>1. SUFFICES ASSUME NEW q \in Threads
                 PROVE  /\ snap'[q].data \in DoneData'
                        /\ snap'[q].shared => snap'[q].data.run = run'
    OBVIOUS
  <2>2. /\ snap'[q].data \in Saved
        /\ snap'[q].data.run = snap[q].data.run
        /\ snap'[q].data.fired = IF snap[q].shared THEN snap[q].data.fired \cup {s}
                                                   ELSE snap[q].data.fired
        /\ snap'[q].shared = snap[q].shared
    BY <1>1, <1>4, GrownData
  <2>3. /\ snap[q].data \in DoneData
        /\ snap[q].shared => snap[q].data.run = run
    BY DEF OrderInv
  <2>4. PICK e \in Saved : e = snap[q].data
    BY <2>3 DEF DoneData
  <2>5. e.run # 0 => e.fired \subseteq Done(e.run)'
    BY <1>3, <2>3, <2>4 DEF DoneData
  <2>6. snap[q].shared => e.run = run'
    BY <1>2, <2>3, <2>4
  <2>7. QED BY <1>2, <1>5, <2>2, <2>4, <2>5, <2>6 DEF DoneData
<1>8. \A x \in due', t \in Steps : (t < x /\ t \notin due') => t \in Done(dueRun)'
  BY <1>1, <1>2, <1>3, <1>4 DEF OrderInv, Done
<1>9. (run # 0 => fired \subseteq Done(run))'
  BY <1>1, <1>2, <1>3, <1>5 DEF OrderInv
<1>10. File!FilesFrom(DoneData)'
  BY <1>2, <1>3 DEF OrderInv, File!FilesFrom
<1>11. QED BY <1>2, <1>6, <1>7, <1>8, <1>9, <1>10 DEF OrderInv, InFlight

\* A save writes the record of one run.
LEMMA OrderSave ==
    ASSUME TypeOK, OrderInv, NEW p \in Threads, Save(p)
    PROVE  OrderInv'
<1> USE DEF unsaved, memory, history
<1>1. /\ UNCHANGED <<active, run, fired, due, attempted, carried>>
      /\ dueRun' = dueRun \/ due = {}
      /\ \E l \in Labels \ {"mark"} : pc' = [pc EXCEPT ![p] = l]
  BY DEF Save, SaveSnapshot, SaveOpen, SaveDump, SaveRaises, SaveReplace,
         Goto, Labels
<1>2. /\ File!FilesFrom(DoneData) /\ File!DiskTypeOK
      /\ snap[p].data \in DoneData /\ snap[p].data \in Saved
  BY DEF OrderInv, TypeOK, Snapshots
<1>3. DoneData' = DoneData /\ \A r : Done(r)' = Done(r)
  BY <1>1 DEF DoneData, Done
<1>4. /\ disk'.cur.data \in DoneData
      /\ disk'.tmp.data \in DoneData
  <2>1. CASE SaveSnapshot(p)
    BY <1>2, <2>1 DEF SaveSnapshot, File!FilesFrom
  <2>2. CASE SaveOpen(p) \/ SaveDump(p) \/ SaveReplace(p)
    BY <1>2, IdleType, IdleDone, <2>2, FileSaveFrom
       DEF SaveOpen, SaveDump, SaveReplace, File!FilesFrom
  <2>3. CASE SaveRaises(p)
    <3>1. PICK c \in CutOver(File!Held(p), snap[p].data) :
            File!PutContent(p, c)
      BY <2>3 DEF SaveRaises
    <3>2. File!Held(p).data \in DoneData
      BY <1>2 DEF File!Held, File!FilesFrom
    <3>3. c.data \in DoneData
      BY IdleDone, <3>1, <3>2 DEF CutOver, File!Bare
    <3>4. QED BY <1>2, <3>1, <3>3, FilePutFrom DEF File!FilesFrom
  <2>4. QED BY <2>1, <2>2, <2>3 DEF Save
<1>5. \A q \in Threads : /\ snap'[q].data \in DoneData
                         /\ snap'[q].shared => snap'[q].data.run = run
  <2>1. CASE SaveSnapshot(p)
    <3>1. [active |-> active, run |-> run, fired |-> fired] \in DoneData
      BY DEF TypeOK, OrderInv, DoneData, Saved
    <3>2. QED BY <2>1, <3>1 DEF TypeOK, OrderInv, SaveSnapshot
  <2>2. CASE SaveOpen(p) \/ SaveReplace(p)
    BY <2>2 DEF SaveOpen, SaveReplace, OrderInv
  <2>3. CASE SaveDump(p) \/ SaveRaises(p)
    BY IdleDone, <2>3 DEF TypeOK, OrderInv, SaveDump, SaveRaises, NoSnap
  <2>4. QED BY <2>1, <2>2, <2>3 DEF Save
<1>6. pc'[Ticker] = "mark" => pc[Ticker] = "mark"
  BY <1>1 DEF TypeOK, Threads
<1>7. CausalOrder'
  BY <1>1 DEF OrderInv, CausalOrder
<1>8. QED BY <1>1, <1>3, <1>4, <1>5, <1>6, <1>7
          DEF OrderInv, File!FilesFrom, InFlight, First

\* A restart goes on with a record that some run has made.
LEMMA OrderRestart ==
    ASSUME TypeOK, OrderInv, Restart
    PROVE  OrderInv'
<1> DEFINE d == IF File!Loadable THEN disk.cur.data ELSE IdleSaved
<1>1. d \in DoneData
  BY IdleDone DEF OrderInv, File!FilesFrom
<1>2. /\ run' = d.run /\ fired' = d.fired /\ due' = {}
      /\ UNCHANGED <<attempted, carried>>
      /\ \A q \in Threads : snap'[q] = NoSnap
  BY DEF Restart
<1>3. disk'.cur = disk.cur /\ disk'.tmp = disk.tmp
  BY FileCloseType DEF TypeOK, Restart
<1>4. DoneData' = DoneData /\ \A r : Done(r)' = Done(r)
  BY <1>2 DEF DoneData, Done
<1>5. CausalOrder'
  BY <1>2 DEF OrderInv, CausalOrder
<1> HIDE DEF d
<1>6. QED BY <1>1, <1>2, <1>3, <1>4, <1>5, IdleDone
          DEF OrderInv, DoneData, File!FilesFrom, NoSnap

\* The scheduler respects the causal order of the story in every run: with any
\* number of runs, heals, failed calls and restarts, no step is sent before all
\* earlier ones of its run were, but for those that an older due list marked.
THEOREM CausalOrderAlways == Spec => []CausalOrder
<1>1. Init => OrderInv
  BY OrderInit
<1>2. TypeOK /\ OrderInv /\ [Next]_vars => OrderInv'
  <2> SUFFICES ASSUME TypeOK, OrderInv, [Next]_vars
               PROVE  OrderInv'
    OBVIOUS
  <2>1. ASSUME NEW p \in Handlers, HealHost(p)
        PROVE  OrderInv'
    <3>1. pc'[Ticker] = pc[Ticker]
      BY <2>1, ThreadAssumption DEF TypeOK, HealHost, Goto, Threads
    <3>2. QED BY <2>1, <3>1, OrderKept DEF HealHost, memory
  <2>2. CASE \/ \E h \in Hosts, a \in Actions : PanelToggle(h, a)
             \/ \E h \in Hosts : ChildEscalates(h)
             \/ Clock \/ TickNothing \/ UNCHANGED vars
    BY <2>2, OrderKept DEF PanelToggle, ChildEscalates, Clock, TickNothing,
                           vars, memory, history
  <2>3. QED BY <2>1, <2>2, OrderRequest, OrderScan, OrderToggle, OrderMark,
               OrderSave, OrderRestart DEF Next, Tick
<1>3. OrderInv => CausalOrder
  BY DEF OrderInv
<1>4. QED BY <1>1, <1>2, <1>3, TypeCorrect, PTL DEF Spec

-----------------------------------------------------------------------------
(* The story ends as it is told, restarts included *)

\* One start, and nothing but the cascade, restarts and the children's own
\* escalation touches the hosts.
Quiet == heals + failures + manual = 0 /\ runs <= 1

\* With a step, all earlier ones.
Prefix(F) == \A t \in F, u \in Steps : u < t => u \in F

\* The steps of host h that were sent and not forgotten by a restart.
Behind(h) == {t \in Steps : HostOf[t] = h /\ (t \in fired \/ InFlight(t))}

\* Host h is where step s puts it, or further by its own escalation.
PutBy(h, s) ==
    /\ HostOf[s] = h
    /\ \/ host[h] = Target(ActionOf[s])
       \/ Target(ActionOf[s]) = "degraded" /\ host[h] = "broken"

\* Before the first start nothing has happened.
Untouched ==
    /\ ~active /\ fired = {} /\ due = {}
    /\ \A p \in Threads : pc[p] = "idle" /\ snap[p] = NoSnap
    /\ disk.cur.kind = "none"

\* A recorded dictionary that memory has caught up with.
Older(d) == d.fired \subseteq fired /\ Prefix(d.fired)

\* Some thread is between the opening of the temporary file and the rename.
Writing == \E p \in Threads : pc[p] \in {"write", "replace"}

\* Every record a restart can go on from is a beginning of the story, and not
\* longer than the one in memory; a temporary file of a dead process is
\* truncated before it is renamed.
RecordInv ==
    /\ Prefix(fired)
    /\ \A s \in due : s \notin fired /\ \A u \in Steps : u < s => u \in fired \cup due
    /\ \A p \in Threads : /\ Older(snap[p].data)
                          /\ snap[p].shared => snap[p].data.fired = fired
    /\ disk.cur.kind = "json" => Older(disk.cur.data)
    /\ (disk.tmp.kind = "json" /\ Writing) => Older(disk.tmp.data)

\* Each host is where some step put it that is not before any recorded one.
HostInv ==
    \A h \in Participants : Behind(h) # {} =>
        \E s \in Steps : PutBy(h, s) /\ \A t \in Behind(h) : t <= s

OutcomeInv ==
    Quiet => /\ runs = 0 => Untouched
             /\ \A p \in Handlers : pc[p] # "heal"
             /\ RecordInv
             /\ HostInv

\* At first nothing is recorded.
LEMMA OutcomeInit == Init => OutcomeInv
<1>1. SUFFICES ASSUME Init PROVE OutcomeInv
  OBVIOUS
<1>2. Untouched
  BY <1>1 DEF Init, Untouched, File!NoDisk, File!Bare
<1>3. RecordInv
  BY <1>1 DEF Init, RecordInv, Prefix, Older, NoSnap, IdleSaved, File!NoDisk, File!Bare
<1>4. HostInv
  BY <1>1 DEF Init, HostInv, Behind, InFlight, Threads
<1>5. QED BY <1>1, <1>2, <1>3, <1>4, ThreadAssumption DEF Init, OutcomeInv, Threads

\* The requests and faults are only counted up.
LEMMA QuietBefore ==
    ASSUME TypeOK, [Next]_vars, Quiet'
    PROVE  /\ Quiet /\ heals' = heals /\ failures' = failures /\ manual' = manual
           /\ heals = 0 /\ failures = 0 /\ manual = 0
           /\ \/ runs' = runs
              \/ runs = 0 /\ runs' = 1 /\ \E p \in Handlers : Start(p)
<1>1. /\ heals \in Nat /\ failures \in Nat /\ manual \in Nat /\ runs \in Nat
      /\ heals' \in Nat /\ failures' \in Nat /\ manual' \in Nat /\ runs' \in Nat
  BY NextType, BoundAssumption DEF TypeOK, Runs
<1>2. heals' = 0 /\ failures' = 0 /\ manual' = 0 /\ runs' <= 1
  <2>1. heals' + failures' + manual' = 0 /\ runs' <= 1
    BY DEF Quiet
  <2>2. \A a, b, c \in Nat : a + b + c = 0 => a = 0 /\ b = 0 /\ c = 0
    OBVIOUS
  <2>3. QED BY <1>1, <2>1, <2>2
<1>3. /\ heals' = heals \/ heals' = heals + 1
      /\ failures' = failures \/ failures' = failures + 1
      /\ manual' = manual \/ manual' = manual + 1
  BY DEF Next, Request, Start, HealClear, HealHost, Save, SaveSnapshot, SaveOpen,
         SaveDump, SaveRaises, SaveReplace, Tick, TickScan, TickNothing,
         FireToggle, FireMark, ToggleCounted, ChildEscalates, PanelToggle,
         Clock, Restart, vars, unsaved, faults
<1>4. runs' = runs \/ (runs' = runs + 1 /\ \E p \in Handlers : Start(p))
  BY DEF Next, Request, Start, HealClear, HealHost, Save, SaveSnapshot, SaveOpen,
         SaveDump, SaveRaises, SaveReplace, Tick, TickScan, TickNothing,
         FireToggle, FireMark, ChildEscalates, PanelToggle,
         Clock, Restart, vars, unsaved
<1>5. QED BY <1>1, <1>2, <1>3, <1>4 DEF Quiet

\* Until the first start there is nothing to do.
LEMMA UntouchedNext ==
    ASSUME TypeOK, Untouched, [Next]_vars, heals' = heals, runs' = runs
    PROVE  Untouched'
<1>1. DueNow = {}
  BY DEF Untouched, DueNow
<1>2. ~TickScan /\ ~FireToggle /\ ~FireMark
  BY <1>1 DEF Untouched, TickScan, FireToggle, FireMark, Threads
<1>3. \A p \in Threads : ~Save(p)
  BY DEF Untouched, Save, SaveSnapshot, SaveOpen, SaveDump, SaveRaises, SaveReplace
<1>4. \A p \in Handlers : ~HealHost(p)
  BY DEF Untouched, HealHost, Threads
<1>5. \A p \in Handlers : ~Start(p) /\ ~HealClear(p)
  BY BoundAssumption DEF TypeOK, Start, HealClear, Runs
<1>6. CASE Restart
  <2>1. disk'.cur = disk.cur
    BY <1>6, FileCloseType DEF TypeOK, Restart
  <2>2. ~File!Loadable
    BY DEF Untouched, File!Loadable
  <2>3. QED BY <1>6, <2>1, <2>2 DEF Untouched, Restart, IdleSaved
<1>7. CASE \/ \E h \in Hosts, a \in Actions : PanelToggle(h, a)
           \/ \E h \in Hosts : ChildEscalates(h)
           \/ Clock \/ TickNothing \/ UNCHANGED vars
  BY <1>7 DEF Untouched, PanelToggle, ChildEscalates, Clock, TickNothing, vars, memory
<1>8. QED BY <1>2, <1>3, <1>4, <1>5, <1>6, <1>7 DEF Next, Request, Tick

\* Steps that keep the records and open no file.
LEMMA RecordKept ==
    ASSUME RecordInv, UNCHANGED <<fired, due, snap, disk>>, Writing' => Writing
    PROVE  RecordInv'
BY DEF RecordInv, Older, Prefix

\* Steps that keep hosts and record.
LEMMA HostKept ==
    ASSUME HostInv, UNCHANGED <<fired, due, host>>,
           pc'[Ticker] = "mark" => pc[Ticker] = "mark"
    PROVE  HostInv'
<1>1. \A h : Behind(h)' \subseteq Behind(h)
  BY DEF Behind, InFlight, First
<1>2. \A h, s : PutBy(h, s) => PutBy(h, s)'
  BY DEF PutBy
<1>3. QED BY <1>1, <1>2 DEF HostInv, Participants

\* The start of the story finds no record of another one.
LEMMA OutcomeStart ==
    ASSUME TypeOK, Untouched, NEW p \in Handlers, Start(p)
    PROVE  /\ RecordInv' /\ HostInv'
           /\ \A q \in Handlers : pc'[q] # "heal"
<1>1. /\ fired' = {} /\ due' = {} /\ UNCHANGED disk
      /\ snap' = Detached /\ pc' = [pc EXCEPT ![p] = "snap"]
  BY DEF Start, Goto, Untouched
<1>2. \A q \in Threads : Detached[q].data = IdleSaved /\ ~Detached[q].shared
  BY DEF Untouched, Detached, NoSnap
<1>3. \A q \in Threads : pc'[q] \in {"idle", "snap"}
  BY <1>1 DEF TypeOK, Untouched
<1>4. RecordInv'
  <2>1. ~Writing' /\ disk'.cur.kind = "none"
    BY <1>1, <1>3 DEF Writing, Untouched
  <2>2. QED BY <1>1, <1>2, <2>1 DEF RecordInv, Prefix, Older, IdleSaved
<1>5. HostInv'
  BY <1>1 DEF HostInv, Behind, InFlight, First
<1>6. QED BY <1>3, <1>4, <1>5 DEF Threads

\* The due list continues the record.
LEMMA OutcomeScan ==
    ASSUME TypeOK, RecordInv, HostInv, TickScan
    PROVE  RecordInv' /\ HostInv'
<1>1. /\ due' = DueNow /\ UNCHANGED <<fired, snap, disk, host>>
      /\ pc[Ticker] = "idle" /\ pc' = [pc EXCEPT ![Ticker] = "fire"]
  BY DEF TickScan, FireFirst, Goto, memory
<1>2. \A s \in DueNow : s \notin fired /\ \A u \in Steps : u < s => u \in fired \cup DueNow
  BY BeforeDue DEF DueNow
<1>3. pc'[Ticker] # "mark" /\ (Writing' => Writing)
  BY <1>1 DEF TypeOK, Threads, Writing
<1>4. RecordInv'
  BY <1>1, <1>2, <1>3 DEF RecordInv, Older, Prefix
<1>5. \A h : Behind(h)' \subseteq Behind(h)
  BY <1>1, <1>3 DEF Behind, InFlight
<1>6. \A h, s : PutBy(h, s) => PutBy(h, s)'
  BY <1>1 DEF PutBy
<1>7. QED BY <1>4, <1>5, <1>6 DEF HostInv, Participants

\* What is sent is not before anything recorded.
LEMMA OutcomeToggle ==
    ASSUME TypeOK, RecordInv, HostInv, FireToggle, failures' = failures
    PROVE  RecordInv' /\ HostInv'
<1>1. PICK s \in due, o \in Outcomes :
        First(s) /\ ToggleCounted(o) /\ host' = Pulled(HostOf[s], ActionOf[s], o)
  BY DEF FireToggle
<1>2. /\ UNCHANGED <<fired, due, snap, disk>>
      /\ pc[Ticker] = "fire" /\ pc' = [pc EXCEPT ![Ticker] = "mark"]
  BY DEF FireToggle, Goto, memory
<1>3. o = "ok"
  BY <1>1, BoundAssumption DEF TypeOK, ToggleCounted
<1>4. host' = [host EXCEPT ![HostOf[s]] = Target(ActionOf[s])]
  BY <1>1, <1>3 DEF Pulled
<1>5. s \in Steps /\ HostOf[s] \in Hosts /\ due \subseteq Steps
  BY StepAssumption DEF TypeOK, Steps
<1>6. RecordInv'
  BY <1>2, RecordKept DEF TypeOK, Writing, Threads
<1>7. \A t \in Steps : InFlight(t)' <=> t = s
  <2>1. \A t : First(t)' <=> First(t)
    BY <1>2 DEF First
  <2>2. pc'[Ticker] = "mark"
    BY <1>2 DEF TypeOK, Threads
  <2>3. QED BY <1>1, <2>1, <2>2, OneFirst DEF InFlight, First
<1>8. \A t \in fired : t <= s
  BY <1>1, <1>5 DEF TypeOK, RecordInv, Prefix, Steps
<1>9. ASSUME NEW h \in Participants, Behind(h)' # {}
      PROVE  \E x \in Steps : PutBy(h, x)' /\ \A t \in Behind(h)' : t <= x
  <2>1. CASE h = HostOf[s]
    <3>1. PutBy(h, s)'
      BY <1>4, <1>5, <2>1 DEF TypeOK, PutBy
    <3>2. \A t \in Behind(h)' : t <= s
      BY <1>2, <1>5, <1>7, <1>8 DEF Behind, Steps
    <3>3. QED BY <1>5, <3>1, <3>2
  <2>2. CASE h # HostOf[s]
    <3>1. Behind(h)' \subseteq Behind(h)
      BY <1>2, <1>7, <2>2 DEF Behind
    <3>2. PICK x \in Steps : PutBy(h, x) /\ \A t \in Behind(h) : t <= x
      BY <1>9, <3>1 DEF HostInv
    <3>3. host'[h] = host[h]
      BY <1>4, <2>2, ParticipantsAreHosts DEF TypeOK
    <3>4. PutBy(h, x)'
      BY <3>2, <3>3 DEF PutBy
    <3>5. QED BY <3>1, <3>2, <3>4
  <2>3. QED BY <2>1, <2>2
<1>10. QED BY <1>6, <1>9 DEF HostInv, Participants

\* Marking the step that is in flight keeps the record a beginning of the story.
LEMMA OutcomeMark ==
    ASSUME TypeOK, RecordInv, HostInv, FireMark
    PROVE  RecordInv' /\ HostInv'
<1>1. PICK s \in due : /\ First(s) /\ fired' = fired \cup {s} /\ snap' = Grown(s)
                       /\ due' = due \ {s}
  BY DEF FireMark, Marked
<1>2. /\ UNCHANGED <<disk, host>>
      /\ pc[Ticker] = "mark" /\ pc' = [pc EXCEPT ![Ticker] = "snap"]
  BY DEF FireMark, Goto
<1>3. s \in Steps /\ due \subseteq Steps /\ fired \subseteq Steps
  BY DEF TypeOK
<1>4. \A u \in Steps : u < s => u \in fired
  BY <1>1, <1>3 DEF RecordInv, First, Steps
<1>5. Prefix(fired)'
  BY <1>1, <1>3, <1>4 DEF RecordInv, Prefix
<1>6. \A x \in due' : /\ x \notin fired'
                      /\ \A u \in Steps : u < x => u \in fired' \cup due'
  BY <1>1 DEF RecordInv
<1>7. \A d : Older(d) => Older(d)'
  BY <1>1 DEF Older, Prefix
<1>8. \A q \in Threads : /\ Older(snap[q].data)'
                         /\ snap'[q].shared => snap'[q].data.fired = fired'
  <2>1. SUFFICES ASSUME NEW q \in Threads
                 PROVE  /\ Older(snap[q].data)'
                        /\ snap'[q].shared => snap'[q].data.fired = fired'
    OBVIOUS
  <2>2. /\ snap'[q].data.fired = IF snap[q].shared THEN snap[q].data.fired \cup {s}
                                                   ELSE snap[q].data.fired
        /\ snap'[q].shared = snap[q].shared
    BY <1>1, <1>3, GrownData
  <2>3. /\ Older(snap[q].data)
        /\ snap[q].shared => snap[q].data.fired = fired
    BY DEF RecordInv
  <2>4. CASE snap[q].shared
    BY <1>1, <1>5, <2>2, <2>3, <2>4 DEF Older, Prefix
  <2>5. CASE ~snap[q].shared
    BY <1>1, <2>2, <2>3, <2>5 DEF Older, Prefix
  <2>6. QED BY <2>4, <2>5
<1>9. Writing' => Writing
  BY <1>2 DEF TypeOK, Writing, Threads
<1>10. RecordInv'
  <2>1. disk'.cur.kind = "json" => Older(disk.cur.data)'
    BY <1>2, <1>7 DEF RecordInv, Older
  <2>2. (disk'.tmp.kind = "json" /\ Writing') => Older(disk.tmp.data)'
    BY <1>2, <1>7, <1>9 DEF RecordInv, Older
  <2>3. QED BY <1>5, <1>6, <1>8, <2>1, <2>2 DEF RecordInv
<1>11. pc'[Ticker] # "mark"
  BY <1>2 DEF TypeOK, Threads
<1>12. \A h : Behind(h)' \subseteq Behind(h)
  BY <1>1, <1>2, <1>11 DEF Behind, InFlight
<1>13. \A h, x : PutBy(h, x) => PutBy(h, x)'
  BY <1>2 DEF PutBy
<1>14. QED BY <1>10, <1>12, <1>13 DEF HostInv, Participants

\* A save writes nothing but a record that memory has caught up with.
LEMMA OutcomeSave ==
    ASSUME TypeOK, RecordInv, HostInv, NEW p \in Threads, Save(p)
    PROVE  RecordInv' /\ HostInv'
<1> USE DEF unsaved, memory
<1>1. UNCHANGED <<active, run, fired, due, host>>
  BY DEF Save, SaveSnapshot, SaveOpen, SaveDump, SaveRaises, SaveReplace
<1>2. /\ pc[p] # "mark" /\ \E l \in Labels \ {"mark"} : pc' = [pc EXCEPT ![p] = l]
  BY DEF Save, SaveSnapshot, SaveOpen, SaveDump, SaveRaises, SaveReplace,
         Goto, Labels
<1>3. HostInv'
  BY <1>1, <1>2, HostKept DEF TypeOK, Threads
<1>4. \A d : Older(d) <=> Older(d)'
  BY <1>1 DEF Older, Prefix
<1>5. \A q \in Threads : /\ Older(snap'[q].data)
                         /\ snap'[q].shared => snap'[q].data.fired = fired
  <2>1. CASE SaveSnapshot(p)
    BY <2>1 DEF TypeOK, RecordInv, SaveSnapshot, Older
  <2>2. CASE SaveOpen(p) \/ SaveReplace(p)
    BY <2>2 DEF RecordInv, SaveOpen, SaveReplace
  <2>3. CASE SaveDump(p) \/ SaveRaises(p)
    BY <2>3 DEF TypeOK, RecordInv, SaveDump, SaveRaises, NoSnap, IdleSaved, Older, Prefix
  <2>4. QED BY <2>1, <2>2, <2>3 DEF Save
<1>6. File!DiskTypeOK /\ snap[p].data \in Saved
  BY DEF TypeOK, Snapshots
<1>7. /\ disk'.cur.kind = "json" => Older(disk'.cur.data)
      /\ (disk'.tmp.kind = "json" /\ Writing') => Older(disk'.tmp.data)
  <2>1. CASE SaveSnapshot(p)
    <3>1. Writing' => Writing
      BY <2>1 DEF TypeOK, SaveSnapshot, Goto, Writing
    <3>2. QED BY <2>1, <3>1 DEF SaveSnapshot, RecordInv
  <2>2. CASE SaveOpen(p)
    <3>1. disk'.cur = disk.cur /\ disk'.tmp.kind = "empty"
      BY <1>6, <2>2 DEF SaveOpen, File!OpenTmp, File!DiskTypeOK, File!Bare
    <3>2. QED BY <3>1 DEF RecordInv
  <2>3. CASE SaveDump(p) \/ SaveRaises(p)
    <3>1. Writing
      BY <2>3 DEF SaveDump, SaveRaises, Writing
    <3>2. PICK c : /\ File!PutContent(p, c)
                   /\ c = File!Held(p) \/ c.kind = "torn" \/ c = File!Json(snap[p].data)
      BY <1>6, <2>3 DEF SaveDump, SaveRaises, File!Dump, File!Overlay, CutOver, File!Bare
    <3>3. /\ disk'.tmp = disk.tmp \/ (disk.at[p] = "tmp" /\ disk'.tmp = c)
          /\ disk'.cur = disk.cur \/ (disk.at[p] = "cur" /\ disk'.cur = c)
      BY <1>6, <3>2 DEF File!PutContent, File!DiskTypeOK
    <3>4. Older(snap[p].data)
      BY DEF RecordInv
    <3>5. QED BY <3>1, <3>2, <3>3, <3>4 DEF RecordInv, File!Held, File!Json
  <2>4. CASE SaveReplace(p)
    <3>1. Writing
      BY <2>4 DEF SaveReplace, Writing
    <3>2. \/ disk' = disk
          \/ disk'.cur = disk.tmp /\ disk'.tmp.kind = "none"
      BY <2>4 DEF SaveReplace, File!ReplaceFile, File!Bare
    <3>3. QED BY <3>1, <3>2 DEF RecordInv
  <2>5. QED BY <2>1, <2>2, <2>3, <2>4 DEF Save
<1>8. RecordInv'
  <2>1. \A q \in Threads : Older(snap[q].data)'
    BY <1>4, <1>5 DEF Older
  <2>2. disk'.cur.kind = "json" => Older(disk.cur.data)'
    BY <1>1, <1>7 DEF Older, Prefix
  <2>3. (disk'.tmp.kind = "json" /\ Writing') => Older(disk.tmp.data)'
    BY <1>1, <1>7 DEF Older, Prefix
  <2>4. QED BY <1>1, <1>5, <2>1, <2>2, <2>3 DEF RecordInv, Prefix
<1>9. QED BY <1>3, <1>8

\* A restart goes back to an earlier point of the record, never past the hosts.
LEMMA OutcomeRestart ==
    ASSUME TypeOK, RecordInv, HostInv, Restart
    PROVE  RecordInv' /\ HostInv' /\ \A q \in Handlers : pc'[q] # "heal"
<1> DEFINE d == IF File!Loadable THEN disk.cur.data ELSE IdleSaved
<1>1. /\ fired' = d.fired /\ due' = {} /\ UNCHANGED host
      /\ \A q \in Threads : snap'[q] = NoSnap /\ pc'[q] = "idle"
  BY DEF Restart
<1>2. disk'.cur = disk.cur
  BY FileCloseType DEF TypeOK, Restart
<1>3. /\ d.fired \subseteq fired /\ Prefix(d.fired)
      /\ disk.cur.kind = "json" => d = disk.cur.data
  BY DEF RecordInv, Older, File!Loadable, Prefix, IdleSaved
<1> HIDE DEF d
<1>4. ~Writing'
  BY <1>1 DEF Writing
<1>5. RecordInv'
  BY <1>1, <1>2, <1>3, <1>4 DEF RecordInv, Older, Prefix, NoSnap, IdleSaved
<1>6. \A h : Behind(h)' \subseteq Behind(h)
  BY <1>1, <1>3 DEF Behind, InFlight, Threads
<1>7. \A h, x : PutBy(h, x) => PutBy(h, x)'
  BY <1>1 DEF PutBy
<1>8. HostInv'
  BY <1>6, <1>7 DEF HostInv, Participants
<1>9. QED BY <1>1, <1>5, <1>8 DEF Threads

\* A child that escalates is still where its step led.
LEMMA OutcomeEscalate ==
    ASSUME TypeOK, RecordInv, HostInv, NEW h \in Hosts, ChildEscalates(h)
    PROVE  RecordInv' /\ HostInv'
<1>1. /\ UNCHANGED <<fired, due, snap, disk, pc>>
      /\ host[h] = "degraded" /\ host' = [host EXCEPT ![h] = "broken"]
  BY DEF ChildEscalates, memory
<1>2. RecordInv'
  BY <1>1, RecordKept DEF Writing
<1>3. \A g \in Participants : Behind(g)' = Behind(g)
  BY <1>1 DEF Behind, InFlight, First
<1>4. \A g \in Participants, x \in Steps : PutBy(g, x) => PutBy(g, x)'
  BY <1>1, ParticipantsAreHosts DEF TypeOK, PutBy
<1>5. QED BY <1>2, <1>3, <1>4 DEF HostInv, Participants

\* The invariant is inductive.
LEMMA OutcomeNext ==
    ASSUME TypeOK, OutcomeInv, [Next]_vars
    PROVE  OutcomeInv'
<1>1. SUFFICES ASSUME Quiet'
               PROVE  /\ runs' = 0 => Untouched'
                      /\ \A p \in Handlers : pc'[p] # "heal"
                      /\ RecordInv' /\ HostInv'
  BY DEF OutcomeInv
<1>2. /\ Quiet /\ heals' = heals /\ failures' = failures /\ manual' = manual
      /\ \/ runs' = runs
         \/ runs = 0 /\ runs' = 1 /\ \E p \in Handlers : Start(p)
  BY <1>1, QuietBefore
<1>3. /\ runs = 0 => Untouched
      /\ \A p \in Handlers : pc[p] # "heal"
      /\ RecordInv /\ HostInv
  BY <1>2 DEF OutcomeInv
<1>4. runs' = 0 => Untouched'
  BY <1>2, <1>3, UntouchedNext
<1>5. ASSUME NEW p \in Handlers, Start(p)
      PROVE  RecordInv' /\ HostInv' /\ \A q \in Handlers : pc'[q] # "heal"
  <2>1. runs = 0
    BY <1>2, <1>5, BoundAssumption DEF TypeOK, Start, Runs
  <2>2. QED BY <1>3, <1>5, <2>1, OutcomeStart
<1>6. \A p \in Handlers : ~HealClear(p) /\ ~HealHost(p)
  BY <1>2, <1>3, BoundAssumption DEF TypeOK, HealClear, HealHost
<1>7. \A h \in Hosts, a \in Actions : ~PanelToggle(h, a)
  BY <1>2, BoundAssumption DEF TypeOK, PanelToggle
<1>8. CASE \/ \E p \in Threads : Save(p)
           \/ TickScan \/ FireToggle \/ FireMark
  <2>1. \A q \in Handlers : pc'[q] # "heal"
    BY <1>3, <1>8, ThreadAssumption
       DEF TypeOK, Threads, Save, SaveSnapshot, SaveOpen, SaveDump, SaveRaises,
           SaveReplace, TickScan, FireFirst, FireToggle, FireMark, Goto
  <2>2. QED BY <1>2, <1>3, <1>4, <1>8, <2>1, OutcomeSave, OutcomeScan, OutcomeToggle,
               OutcomeMark
<1>9. CASE Restart
  BY <1>3, <1>4, <1>9, OutcomeRestart
<1>10. CASE \E h \in Hosts : ChildEscalates(h)
  BY <1>3, <1>4, <1>10, OutcomeEscalate DEF ChildEscalates
<1>11. CASE Clock \/ TickNothing \/ UNCHANGED vars
  BY <1>3, <1>4, <1>11, RecordKept, HostKept DEF Clock, TickNothing, vars, memory, Writing
<1>12. QED BY <1>4, <1>5, <1>6, <1>7, <1>8, <1>9, <1>10, <1>11
           DEF Next, Request, Tick

\* A cascade that was started once and left alone ends, wherever the shell dies
\* and restarts in between, with every participant where its last step puts it:
\* what a restart repeats does not change the outcome.
THEOREM OutcomeReachedAlways == Spec => []OutcomeReached
<1>1. Init => OutcomeInv
  BY OutcomeInit
<1>2. TypeOK /\ OutcomeInv /\ [Next]_vars => OutcomeInv'
  BY OutcomeNext
<1>3. OutcomeInv => OutcomeReached
  <2>1. SUFFICES ASSUME OutcomeInv, active, fired = Steps, runs = 1,
                        heals + failures + manual = 0,
                        NEW h \in Participants
                 PROVE  \/ host[h] = Target(LastAction(h))
                        \/ Target(LastAction(h)) = "degraded" /\ host[h] = "broken"
    BY DEF OutcomeReached
  <2>2. Behind(h) = {t \in Steps : HostOf[t] = h} /\ Behind(h) # {}
    BY <2>1 DEF Behind, Participants
  <2>3. PICK s \in Steps : PutBy(h, s) /\ \A t \in Behind(h) : t <= s
    BY <2>1, <2>2 DEF OutcomeInv, Quiet, HostInv
  <2>4. s = CHOOSE x \in Steps : /\ HostOf[x] = h
                                 /\ \A t \in Steps : HostOf[t] = h => t <= x
    BY <2>2, <2>3 DEF PutBy, Steps
  <2>5. QED BY <2>3, <2>4 DEF LastAction, PutBy
<1>4. QED BY <1>1, <1>2, <1>3, TypeCorrect, PTL DEF Spec

==============================================================================
