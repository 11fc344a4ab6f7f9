------------------------------ MODULE NetsimProofs ------------------------------
(***************************************************************************)
(* The simulated devices, for any devices, threads, handlers and faults.    *)
(*                                                                         *)
(* The walk files only move forward, and a toggle is in its walk file       *)
(* before it is answered.  The lock is what both rest on: what the renderer *)
(* that holds it has read of a device's state is no older than what the     *)
(* file shows.                                                              *)
(*                                                                         *)
(* The alarm of a walk is that of the state it was written from, so that a  *)
(* walk as new as its device raises the alarm of the device's state.        *)
(*                                                                         *)
(* Over the live transport (the last two sections) an answer is fresh as    *)
(* long as no two refreshes of the table overlapped: the one that refreshes *)
(* finds the entry as it read it and leaves it newer.  And whoever walks    *)
(* the device gets its rows in order: what a worker has bound are the rows  *)
(* after the name it was asked from, and what the poller asks from is the   *)
(* last row it has.                                                         *)
(***************************************************************************)
EXTENDS Netsim, FiniteSetTheorems, TLAPS

Listed(q) == {q[i] : i \in DOMAIN q}

Rendering(w) == pc[w] \in {"read", "render"}

\* A thread's local variables.
JobTyped(w) ==
    job[w] \in [todo : Seq(Devices), seen : {job[w].seen}, read : Nat, dev : Devices,
               set : Nat, exit : {job[w].exit}]

\* Who renders has the lock, and something to render;
HasLock(w) == Rendering(w) => lock = w /\ job[w].todo # <<>>

\* what it has read is no older than what it will replace.
Newer(w) ==
    LET d == Head(job[w].todo) IN
    pc[w] = "render" => files[d].version <= job[w].read /\ job[w].read <= version[d]

\* What a request has changed is shown, or the request will still come to it.
Showing(h) ==
    LET d == job[h].dev IN
    /\ job[h].set <= version[d]
    /\ pc[h] = "idle" => job[h].set = 0
    /\ Rendering(h) =>
          \/ files[d].version >= job[h].set
          \/ /\ d \in Listed(job[h].todo)
             /\ pc[h] = "render" /\ d = Head(job[h].todo) => job[h].read >= job[h].set
    /\ pc[h] \in {"save", "dump", "replace"} => files[d].version >= job[h].set

ThreadInv(w) == JobTyped(w) /\ HasLock(w) /\ Newer(w) /\ (w \in Handlers => Showing(w))

VersionsInv ==
    /\ DOMAIN pc = Threads /\ DOMAIN job = Threads /\ DOMAIN files = Devices
    /\ version \in [Devices -> Nat]
    /\ \A d \in Devices : files[d].version \in Nat /\ files[d].version <= version[d]

WalksInv == VersionsInv /\ \A w \in Threads : ThreadInv(w)

-----------------------------------------------------------------------------
(* The files that save_state writes (StateFile) *)

\* Contents without a dictionary are contents.
LEMMA FileBareType ==
    ASSUME [d \in Devices |-> Fresh(0)] \in Dumps, NEW k \in {"none", "empty", "torn", "json"}
    PROVE  File!Bare(k) \in File!Content
BY DEF File!Bare, File!Content

\* Every file operation of save_state keeps the disk well typed.
LEMMA FileOpenType ==
    ASSUME [d \in Devices |-> Fresh(0)] \in Dumps, File!DiskTypeOK, NEW p \in Threads, File!OpenTmp(p)
    PROVE  File!DiskTypeOK'
BY FileBareType DEF File!DiskTypeOK, File!OpenTmp, File!Places

LEMMA FilePutType ==
    ASSUME File!DiskTypeOK, NEW p \in Threads, NEW c \in File!Content, File!PutContent(p, c)
    PROVE  File!DiskTypeOK'
BY DEF File!DiskTypeOK, File!PutContent, File!Places

LEMMA FileOverlayType ==
    ASSUME [d \in Devices |-> Fresh(0)] \in Dumps, NEW d \in Dumps, NEW old
    PROVE  \A c \in File!Overlay(old, d) :
             c \in File!Content /\ (c = File!Json(d) \/ c = File!Bare("torn"))
BY FileBareType DEF File!Overlay, File!Json, File!Content

LEMMA FileDumpType ==
    ASSUME [d \in Devices |-> Fresh(0)] \in Dumps, File!DiskTypeOK, NEW p \in Threads, NEW d \in Dumps,
           File!Dump(p, d)
    PROVE  File!DiskTypeOK'
BY FileOverlayType, FilePutType DEF File!Dump

LEMMA FileReplaceType ==
    ASSUME [d \in Devices |-> Fresh(0)] \in Dumps, File!DiskTypeOK, File!ReplaceFile
    PROVE  File!DiskTypeOK'
<1>1. CASE UNCHANGED disk
  BY <1>1 DEF File!DiskTypeOK
<1>2. CASE disk' = [cur |-> disk.tmp, tmp |-> File!Bare("none"),
                    at |-> [q \in Threads |-> File!Relinked(disk.at[q])]]
  BY <1>2, FileBareType DEF File!DiskTypeOK, File!Relinked, File!Places
<1>3. QED BY <1>1, <1>2 DEF File!ReplaceFile

LEMMA FileCloseType ==
    ASSUME File!DiskTypeOK, File!CloseAll
    PROVE  File!DiskTypeOK' /\ disk'.cur = disk.cur /\ disk'.tmp = disk.tmp
BY DEF File!DiskTypeOK, File!CloseAll, File!Places

------------------------------------------------------------------------------
(* Lemmas *)

\* The members of a sequence are its head and the members of the rest.
LEMMA HeadAndRest ==
    ASSUME NEW S, NEW q \in Seq(S), q # <<>>
    PROVE  /\ Head(q) \in S /\ Tail(q) \in Seq(S) /\ Len(q) \in Nat
           /\ IF Len(q) > 1 THEN Tail(q) # <<>> ELSE Listed(Tail(q)) = {}
           /\ \A x \in Listed(q) : x = Head(q) \/ x \in Listed(Tail(q))
<1>1. /\ Head(q) = q[1] /\ Tail(q) \in Seq(S) /\ Len(q) \in Nat \ {0}
      /\ Len(Tail(q)) = Len(q) - 1
      /\ \A i \in 1..(Len(q) - 1) : Tail(q)[i] = q[i + 1]
  OBVIOUS
<1>2. DOMAIN q = 1..Len(q) /\ DOMAIN Tail(q) = 1..(Len(q) - 1)
  BY <1>1
<1>3. q[1] \in S
  BY <1>1
<1>4. ASSUME NEW x \in Listed(q) PROVE x = q[1] \/ x \in Listed(Tail(q))
  <2>1. PICK i \in 1..Len(q) : x = q[i]
    BY <1>2 DEF Listed
  <2>2. CASE i # 1
    <3>1. i - 1 \in 1..(Len(q) - 1) /\ Tail(q)[i - 1] = q[i]
      BY <1>1, <2>2
    <3> QED BY <1>2, <2>1, <3>1 DEF Listed
  <2> QED BY <2>1, <2>2
<1>5. CASE Len(q) > 1
  <2>1. Len(q) - 1 # 0
    BY <1>1, <1>5
  <2>2. Tail(q) # <<>>
    BY <1>1, <2>1
  <2> QED BY <1>1, <1>3, <1>4, <1>5, <2>2
<1>6. CASE ~(Len(q) > 1)
  <2>1. Listed(Tail(q)) = {}
    BY <1>1, <1>2, <1>6 DEF Listed
  <2> QED BY <1>1, <1>3, <1>4, <1>6, <2>1
<1> QED BY <1>5, <1>6

\* Every device is in the order.
LEMMA OrderLists == Order \in Seq(Devices) /\ Order # <<>> /\ Listed(Order) = Devices
BY NetsimAssumption DEF Listed, Devices

\* The local variables of a thread that has nothing to do.
LEMMA NoJobTyped ==
    /\ NoJob = [todo |-> <<>>, seen |-> "healthy", read |-> 0, dev |-> Order[1], set |-> 0,
                exit |-> FALSE]
    /\ Order[1] \in Devices
<1>1. 1 \in DOMAIN Order
  BY OrderLists
<1> QED BY <1>1 DEF NoJob, Devices

\* A step of one thread: what it does to the files suits those that render,
\* which are none when it renders itself.
LEMMA OneThread ==
    ASSUME WalksInv, VersionsInv', NEW w \in Threads, ThreadInv(w)',
           \A v \in Threads : v # w => pc'[v] = pc[v] /\ job'[v] = job[v],
           \A d \in Devices : version'[d] >= version[d] /\ files'[d].version >= files[d].version,
           \/ UNCHANGED <<files, lock>>
           \/ \A v \in Threads : v # w => ~Rendering(v)
    PROVE  WalksInv'
<1>1. ASSUME NEW v \in Threads, v # w PROVE ThreadInv(v)'
  <2>1. ThreadInv(v) /\ pc'[v] = pc[v] /\ job'[v] = job[v]
    BY <1>1 DEF WalksInv
  <2>2. JobTyped(v)'
    BY <2>1 DEF ThreadInv, JobTyped
  <2>3. HasLock(v)'
    BY <1>1, <2>1 DEF ThreadInv, HasLock, Rendering
  <2>4. Newer(v)'
    <3>1. CASE pc[v] = "render"
      <4>1. UNCHANGED files /\ Head(job[v].todo) \in Devices
        BY <1>1, <2>1, <3>1, HeadAndRest DEF ThreadInv, HasLock, JobTyped, Rendering
      <4>2. /\ files[Head(job[v].todo)].version <= job[v].read
            /\ job[v].read <= version[Head(job[v].todo)]
        BY <2>1, <3>1 DEF ThreadInv, Newer
      <4>3. /\ version[Head(job[v].todo)] \in Nat /\ version'[Head(job[v].todo)] \in Nat
            /\ version[Head(job[v].todo)] <= version'[Head(job[v].todo)] /\ job[v].read \in Nat
        BY <2>1, <4>1 DEF ThreadInv, JobTyped, WalksInv, VersionsInv
      <4> QED BY <2>1, <4>1, <4>2, <4>3 DEF Newer
    <3> QED BY <2>1, <3>1 DEF Newer
  <2>5. v \in Handlers => Showing(v)'
    <3>1. job[v].dev \in Devices /\ job[v].set \in Nat
      BY <2>1 DEF ThreadInv, JobTyped
    <3> QED BY <2>1, <3>1 DEF ThreadInv, Showing, Rendering, WalksInv, VersionsInv
  <2> QED BY <2>2, <2>3, <2>4, <2>5 DEF ThreadInv
<1> QED BY <1>1 DEF WalksInv

\* A step that leaves alone what the invariant is about.
LEMMA Elsewhere ==
    ASSUME WalksInv, UNCHANGED <<pc, job, files, version, lock>>
    PROVE  WalksInv'
BY DEF WalksInv, VersionsInv, ThreadInv, JobTyped, HasLock, Newer, Showing, Rendering

\* No other thread renders while the lock is free or one's own.
LEMMA OnlyOne ==
    ASSUME WalksInv, NEW w \in Threads, lock = "free" \/ Rendering(w)
    PROVE  \A v \in Threads : v # w => ~Rendering(v)
BY NetsimAssumption DEF WalksInv, ThreadInv, HasLock

------------------------------------------------------------------------------
(* Steps that do not render *)

\* A thread goes to a label outside the rendering with the job it has, or with
\* none.
LEMMA Goes ==
    ASSUME WalksInv, NEW w \in Threads, NEW label, Goto(w, label), UNCHANGED <<files, version>>,
           label \notin {"read", "render"},
           UNCHANGED lock \/ Rendering(w),
           \/ job' = [job EXCEPT ![w] = NoJob]
           \/ /\ job' = job
              /\ w \in Handlers =>
                    /\ label # "idle"
                    /\ label \in {"save", "dump", "replace"} =>
                          files[job[w].dev].version >= job[w].set
    PROVE  WalksInv'
<1>1. VersionsInv' /\ pc'[w] = label /\ \A v \in Threads : v # w => pc'[v] = pc[v]
  BY DEF WalksInv, VersionsInv, Goto
<1>2. /\ \A v \in Threads : v # w => job'[v] = job[v]
      /\ job'[w] = NoJob \/ job' = job
  BY DEF WalksInv, VersionsInv
<1>3. JobTyped(w)'
  <2>1. CASE job' = job
    BY <2>1 DEF WalksInv, ThreadInv, JobTyped
  <2>2. CASE job'[w] = NoJob
    BY <2>2, NoJobTyped DEF JobTyped
  <2> QED BY <1>2, <2>1, <2>2
<1>4. HasLock(w)' /\ Newer(w)'
  BY <1>1 DEF HasLock, Newer, Rendering
<1>5. w \in Handlers => Showing(w)'
  <2>1. CASE job'[w] = NoJob
    <3>1. job'[w].set = 0 /\ job'[w].dev \in Devices
      BY <2>1, NoJobTyped
    <3> QED BY <1>1, <3>1 DEF Showing, Rendering, WalksInv, VersionsInv
  <2>2. CASE job' = job /\ job'[w] # NoJob
    <3>1. job' # [job EXCEPT ![w] = NoJob]
      BY <2>2 DEF WalksInv, VersionsInv
    <3> QED BY <1>1, <2>2, <3>1 DEF Showing, Rendering, WalksInv, ThreadInv
  <2> QED BY <1>2, <2>1, <2>2
<1>6. \/ UNCHANGED <<files, lock>>
      \/ \A v \in Threads : v # w => ~Rendering(v)
  BY OnlyOne
<1>7. ThreadInv(w)'
  BY <1>3, <1>4, <1>5 DEF ThreadInv
<1>8. \A d \in Devices : version'[d] >= version[d] /\ files'[d].version >= files[d].version
  BY DEF WalksInv, VersionsInv
<1> QED BY <1>1, <1>2, <1>6, <1>7, <1>8, OneThread

\* A change is one its request has to show.
LEMMA ChangeKeeps ==
    ASSUME WalksInv, NEW w \in Threads, NEW d \in Devices, NEW value,
           Change(w, d, value), Goto(w, "want")
    PROVE  WalksInv'
<1>1. /\ pc'[w] = "want" /\ DOMAIN pc' = Threads
      /\ \A v \in Threads : v # w => pc'[v] = pc[v]
  BY DEF WalksInv, VersionsInv, Goto
<1>2. /\ version' = [version EXCEPT ![d] = @ + 1] /\ UNCHANGED <<files, lock>>
      /\ job' = [job EXCEPT ![w] = [NoJob EXCEPT !.dev = d, !.set = version[d] + 1]]
  BY DEF Change, walks
<1>3. /\ DOMAIN job' = Threads /\ \A v \in Threads : v # w => job'[v] = job[v]
      /\ job'[w] = [todo |-> <<>>, seen |-> "healthy", read |-> 0, dev |-> d,
                    set |-> version[d] + 1, exit |-> FALSE]
  BY <1>2, NoJobTyped DEF WalksInv, VersionsInv
<1>4. /\ version' \in [Devices -> Nat] /\ version'[d] = version[d] + 1
      /\ \A e \in Devices : version'[e] >= version[e]
  BY <1>2 DEF WalksInv, VersionsInv
<1>5. VersionsInv'
  BY <1>1, <1>2, <1>3, <1>4 DEF WalksInv, VersionsInv
<1>6. ThreadInv(w)'
  <2>1. JobTyped(w)'
    BY <1>3 DEF JobTyped, WalksInv, VersionsInv
  <2>2. Showing(w)'
    BY <1>1, <1>3, <1>4 DEF Showing, Rendering
  <2> QED BY <1>1, <2>1, <2>2 DEF ThreadInv, HasLock, Newer, Rendering
<1>7. \A e \in Devices : files'[e].version >= files[e].version
  BY <1>2 DEF WalksInv, VersionsInv
<1> QED BY <1>1, <1>2, <1>3, <1>4, <1>5, <1>6, <1>7, OneThread

\* With the process its threads end; files and versions stay.
LEMMA DownKeeps ==
    ASSUME WalksInv, Down, UNCHANGED <<files, version, transport>>
    PROVE  WalksInv'
<1>1. /\ pc' = BootLabel /\ job' = [w \in Threads |-> NoJob]
      /\ \A w \in Threads : /\ pc'[w] \in {"want", "idle"}
                            /\ w \in Handlers => pc'[w] = "idle"
  BY NetsimAssumption DEF Down, BootLabel
<1>2. VersionsInv'
  BY <1>1 DEF WalksInv, VersionsInv, BootLabel
<1>3. ASSUME NEW w \in Threads PROVE ThreadInv(w)'
  <2>0. job'[w] = NoJob
    BY <1>1
  <2>1. JobTyped(w)'
    BY <2>0, NoJobTyped DEF JobTyped
  <2>2. w \in Handlers => Showing(w)'
    BY <1>1, NoJobTyped DEF Showing, Rendering, WalksInv, VersionsInv
  <2> QED BY <1>1, <2>1, <2>2 DEF ThreadInv, HasLock, Newer, Rendering
<1> QED BY <1>2, <1>3 DEF WalksInv

\* Requests, rounds, saves, stops and the clock.
LEMMA OthersKeep ==
    ASSUME WalksInv,
           \/ \E h \in Handlers : \/ Shutdown(h) \/ Status(h)
                                  \/ \E d \in Devices, s \in States : Toggle(h, d, s)
           \/ \E d \in Devices : Escalate(d)
           \/ Round
           \/ \E w \in Threads : WriteFails(w) \/ Save(w) \/ SaveFails(w) \/ Exit(w)
           \/ Stop \/ Start \/ Clock
    PROVE  WalksInv' /\ UNCHANGED files
<1>t. Handlers \subseteq Threads /\ Renderer \in Threads /\ Watchdog \in Threads
      /\ Renderer \notin Handlers
  BY NetsimAssumption DEF Threads
<1>s. \A h \in Handlers : Showing(h)
  BY <1>t DEF WalksInv, ThreadInv
<1>1. ASSUME NEW h \in Handlers, Shutdown(h)
      PROVE  WalksInv' /\ UNCHANGED files
  <2>1. /\ pc[h] = "idle" /\ pc'[h] = "save" /\ DOMAIN pc' = Threads
        /\ \A v \in Threads : v # h => pc'[v] = pc[v]
        /\ UNCHANGED <<files, version, lock>>
    BY <1>t, <1>1 DEF Shutdown, Goto, WalksInv, VersionsInv, control, walks
  <2>2. /\ DOMAIN job' = Threads /\ \A v \in Threads : v # h => job'[v] = job[v]
        /\ job'[h] = [job[h] EXCEPT !.exit = TRUE]
    BY <1>t, <1>1 DEF Shutdown, WalksInv, VersionsInv
  <2>3. JobTyped(h)
    BY <1>t DEF WalksInv, ThreadInv
  <2>4. /\ JobTyped(h)' /\ job'[h].dev = job[h].dev /\ job'[h].set = job[h].set
        /\ job[h].set \in Nat /\ job[h].dev \in Devices
    BY <2>2, <2>3 DEF JobTyped
  <2>5. VersionsInv'
    BY <2>1, <2>2 DEF WalksInv, VersionsInv
  <2>6. Showing(h)'
    BY <1>s, <2>1, <2>4 DEF Showing, Rendering, WalksInv, VersionsInv
  <2>7. ThreadInv(h)'
    BY <2>1, <2>4, <2>6 DEF ThreadInv, HasLock, Newer, Rendering
  <2>8. \A d \in Devices : version'[d] >= version[d] /\ files'[d].version >= files[d].version
    BY <2>1 DEF WalksInv, VersionsInv
  <2> QED BY <1>t, <2>1, <2>2, <2>5, <2>7, <2>8, OneThread
<1>2. ASSUME NEW h \in Handlers, Status(h)
      PROVE  WalksInv' /\ UNCHANGED files
  BY <1>2, Elsewhere DEF Status, vars, control, walks
<1>3. ASSUME NEW h \in Handlers, NEW d \in Devices, NEW s \in States, Toggle(h, d, s)
      PROVE  WalksInv' /\ UNCHANGED files
  BY <1>t, <1>3, ChangeKeeps DEF Toggle, Change, walks
<1>4. ASSUME NEW d \in Devices, Escalate(d)
      PROVE  WalksInv' /\ UNCHANGED files
  BY <1>t, <1>4, ChangeKeeps DEF Escalate, Change, walks
<1>5. CASE Round
  <2>1. UNCHANGED <<files, version, lock, job>>
    BY <1>5 DEF Round, control, walks
  <2>2. CASE Goto(Renderer, "want")
    BY <1>t, <2>1, <2>2, Goes
  <2>3. CASE Goto(Renderer, "save")
    BY <1>t, <2>1, <2>3, Goes
  <2> QED BY <1>5, <2>1, <2>2, <2>3 DEF Round
<1>6. ASSUME NEW w \in Threads, WriteFails(w)
      PROVE  WalksInv' /\ UNCHANGED files
  <2>1. UNCHANGED <<transport, files, version>> /\ Rendering(w)
    BY <1>6 DEF WriteFails, control, Rendering
  <2>2. CASE Down
    BY <2>1, <2>2, DownKeeps
  <2>3. CASE Goto(w, Failed(w)) /\ job' = [job EXCEPT ![w] = NoJob]
    <3>1. Failed(w) \notin {"read", "render"}
      BY DEF Failed
    <3> QED BY <2>1, <2>3, <3>1, Goes
  <2> QED BY <1>6, <2>1, <2>2, <2>3 DEF WriteFails
<1>7. ASSUME NEW w \in Threads, Save(w)
      PROVE  WalksInv' /\ UNCHANGED files
  <2>1. CASE SaveOpen(w)
    <3>1. /\ UNCHANGED <<files, version, lock, job>> /\ Goto(w, "dump") /\ pc[w] = "save"
      BY <2>1 DEF SaveOpen, control, walks
    <3> QED BY <1>s, <3>1, Goes DEF Showing
  <2>2. CASE SaveDump(w)
    <3>1. /\ UNCHANGED <<files, version, lock, job>> /\ Goto(w, "replace") /\ pc[w] = "dump"
      BY <2>2 DEF SaveDump, control, walks
    <3> QED BY <1>s, <3>1, Goes DEF Showing
  <2>3. CASE SaveReplace(w)
    <3>1. /\ UNCHANGED <<files, version, lock>> /\ job' = [job EXCEPT ![w] = NoJob]
          /\ Goto(w, "exit") \/ Goto(w, "idle")
      BY <2>3 DEF SaveReplace, control, walks
    <3> QED BY <3>1, Goes
  <2> QED BY <1>7, <2>1, <2>2, <2>3 DEF Save
<1>8. ASSUME NEW w \in Threads, SaveFails(w)
      PROVE  WalksInv' /\ UNCHANGED files
  <2>1. /\ UNCHANGED <<files, version, lock>> /\ job' = [job EXCEPT ![w] = NoJob]
        /\ Goto(w, "idle")
    BY <1>8 DEF SaveFails, control, walks
  <2> QED BY <2>1, Goes
<1>9. ASSUME NEW w \in Threads, Exit(w)
      PROVE  WalksInv' /\ UNCHANGED files
  BY <1>9, DownKeeps DEF Exit, control
<1>10. CASE Stop
  BY <1>10, DownKeeps DEF Stop, control
<1>11. CASE Start
  <2>1. /\ UNCHANGED <<files, pc, job, lock>>
        /\ version' = [d \in Devices |-> version[d] + 1]
    BY <1>11 DEF Start, walks
  <2>2. version' \in [Devices -> Nat] /\ \A d \in Devices : version'[d] = version[d] + 1
    BY <2>1 DEF WalksInv, VersionsInv
  <2>3. VersionsInv'
    BY <2>1, <2>2 DEF WalksInv, VersionsInv
  <2>4. ASSUME NEW w \in Threads PROVE ThreadInv(w)'
    <3>1. ThreadInv(w) /\ JobTyped(w)' /\ HasLock(w)'
      BY <2>1 DEF WalksInv, ThreadInv, JobTyped, HasLock, Rendering
    <3>2. Newer(w)'
      <4>1. CASE pc[w] = "render"
        <5>1. Head(job[w].todo) \in Devices /\ job[w].read \in Nat
          BY <3>1, <4>1, HeadAndRest DEF ThreadInv, HasLock, JobTyped, Rendering
        <5> QED BY <2>1, <2>2, <3>1, <4>1, <5>1 DEF ThreadInv, Newer, WalksInv, VersionsInv
      <4> QED BY <2>1, <4>1 DEF Newer
    <3>3. w \in Handlers => Showing(w)'
      <4>1. job[w].dev \in Devices /\ job[w].set \in Nat
        BY <3>1 DEF ThreadInv, JobTyped
      <4> QED BY <2>1, <2>2, <3>1, <4>1
              DEF ThreadInv, Showing, Rendering, WalksInv, VersionsInv
    <3> QED BY <3>1, <3>2, <3>3 DEF ThreadInv
  <2> QED BY <2>1, <2>3, <2>4 DEF WalksInv
<1>12. CASE Clock
  BY <1>12, Elsewhere DEF Clock, control, walks
<1> QED BY <1>1, <1>2, <1>3, <1>4, <1>5, <1>6, <1>7, <1>8, <1>9, <1>10, <1>11, <1>12

------------------------------------------------------------------------------
(* Steps that render *)

\* The lock was free: nobody renders.
LEMMA AcquireKeeps ==
    ASSUME WalksInv, NEW w \in Threads, Acquire(w)
    PROVE  WalksInv'
<1>1. /\ pc[w] = "want" /\ pc'[w] = "read" /\ DOMAIN pc' = Threads /\ lock' = w
      /\ \A v \in Threads : v # w => pc'[v] = pc[v] /\ ~Rendering(v)
      /\ UNCHANGED <<files, version>>
  BY OnlyOne DEF Acquire, Goto, WalksInv, VersionsInv, control, walks
<1>2. /\ DOMAIN job' = Threads /\ \A v \in Threads : v # w => job'[v] = job[v]
      /\ job'[w] = [job[w] EXCEPT !.todo = Order]
  BY DEF Acquire, WalksInv, VersionsInv
<1>3. ThreadInv(w)
  BY DEF WalksInv
<1>4. /\ JobTyped(w)' /\ job'[w].todo = Order /\ job'[w].dev = job[w].dev
      /\ job'[w].set = job[w].set /\ job[w].dev \in Devices
  BY <1>2, <1>3, OrderLists DEF ThreadInv, JobTyped
<1>5. VersionsInv'
  BY <1>1, <1>2 DEF WalksInv, VersionsInv
<1>6. w \in Handlers => Showing(w)'
  BY <1>1, <1>3, <1>4, OrderLists DEF ThreadInv, Showing, Rendering
<1>7. ThreadInv(w)'
  BY <1>1, <1>4, <1>6, OrderLists DEF ThreadInv, HasLock, Newer
<1>8. \A d \in Devices : version'[d] >= version[d] /\ files'[d].version >= files[d].version
  BY <1>1 DEF WalksInv, VersionsInv
<1> QED BY <1>1, <1>2, <1>5, <1>7, <1>8, OneThread

\* What is read is the newest there is.
LEMMA ReadKeeps ==
    ASSUME WalksInv, NEW w \in Threads, Read(w)
    PROVE  WalksInv'
<1>1. /\ pc[w] = "read" /\ pc'[w] = "render" /\ DOMAIN pc' = Threads
      /\ \A v \in Threads : v # w => pc'[v] = pc[v]
      /\ UNCHANGED <<files, version, lock>>
  BY DEF Read, Goto, WalksInv, VersionsInv, control, walks
<1> DEFINE d == Head(job[w].todo)
<1>2. ThreadInv(w) /\ job[w].todo # <<>> /\ d \in Devices
  BY <1>1, HeadAndRest DEF WalksInv, ThreadInv, HasLock, JobTyped, Rendering
<1>3. /\ DOMAIN job' = Threads /\ \A v \in Threads : v # w => job'[v] = job[v]
      /\ job'[w] = [job[w] EXCEPT !.seen = device[d].state, !.read = version[d]]
  BY DEF Read, WalksInv, VersionsInv
<1>4. version[d] \in Nat /\ files[d].version <= version[d]
  BY <1>2 DEF WalksInv, VersionsInv
<1>5. /\ JobTyped(w)' /\ job'[w].todo = job[w].todo /\ job'[w].dev = job[w].dev
      /\ job'[w].set = job[w].set /\ job'[w].read = version[d]
  BY <1>2, <1>3, <1>4 DEF ThreadInv, JobTyped
<1>6. VersionsInv'
  BY <1>1, <1>3 DEF WalksInv, VersionsInv
<1>7. w \in Handlers => Showing(w)'
  BY <1>1, <1>2, <1>5 DEF ThreadInv, Showing, Rendering
<1>8. ThreadInv(w)'
  BY <1>1, <1>2, <1>4, <1>5, <1>7 DEF ThreadInv, HasLock, Newer, Rendering
<1>9. \A e \in Devices : version'[e] >= version[e] /\ files'[e].version >= files[e].version
  BY <1>1 DEF WalksInv, VersionsInv
<1> QED BY <1>1, <1>3, <1>6, <1>8, <1>9, OneThread

\* The file becomes what was read.
LEMMA RenderKeeps ==
    ASSUME WalksInv, NEW w \in Threads, Render(w)
    PROVE  /\ WalksInv'
           /\ \A d \in Devices : files'[d].version >= files[d].version
<1> DEFINE d == Head(job[w].todo)
           todo == job[w].todo
<1>1. pc[w] = "render" /\ ThreadInv(w) /\ UNCHANGED version
  BY DEF Render, WalksInv, control
<1>2. /\ todo \in Seq(Devices) /\ todo # <<>> /\ d \in Devices /\ Tail(todo) \in Seq(Devices)
      /\ files[d].version <= job[w].read /\ job[w].read <= version[d] /\ job[w].read \in Nat
      /\ \A x \in Listed(todo) : x = d \/ x \in Listed(Tail(todo))
      /\ IF Len(todo) > 1 THEN Tail(todo) # <<>> ELSE Listed(Tail(todo)) = {}
  BY <1>1, HeadAndRest DEF ThreadInv, HasLock, Newer, JobTyped, Rendering
<1>3. /\ DOMAIN files' = Devices /\ files'[d].version = job[w].read
      /\ \A e \in Devices : e # d => files'[e] = files[e]
  <2>1. PICK alarm \in Alarms(d, job[w].seen, port') :
           files' = [files EXCEPT ![d] = [version |-> job[w].read, age |-> Age(device[d]),
                                          alarm |-> alarm]]
    BY DEF Render
  <2> QED BY <1>2, <2>1 DEF WalksInv, VersionsInv
<1>4. /\ DOMAIN job' = Threads /\ \A v \in Threads : v # w => job'[v] = job[v]
      /\ job'[w] = [job[w] EXCEPT !.todo = Tail(todo)]
  BY DEF Render, WalksInv, VersionsInv
<1>5. /\ JobTyped(w)' /\ job'[w].todo = Tail(todo) /\ job'[w].dev = job[w].dev
      /\ job'[w].set = job[w].set /\ job[w].dev \in Devices /\ job[w].set \in Nat
  BY <1>1, <1>2, <1>4 DEF ThreadInv, JobTyped
<1>6. \A e \in Devices : /\ files'[e].version \in Nat /\ files'[e].version <= version[e]
                         /\ files'[e].version >= files[e].version /\ version[e] >= version[e]
  BY <1>2, <1>3 DEF WalksInv, VersionsInv
<1>7. /\ DOMAIN pc' = Threads /\ \A v \in Threads : v # w => pc'[v] = pc[v] /\ ~Rendering(v)
      /\ IF Len(todo) > 1 THEN pc'[w] = "read" /\ lock' = lock
                          ELSE pc'[w] = Written(w)
  BY <1>1, OnlyOne DEF Render, Goto, WalksInv, VersionsInv, Rendering
<1>8. VersionsInv'
  BY <1>1, <1>4, <1>6, <1>3, <1>7 DEF WalksInv, VersionsInv
<1>9. w \in Handlers => Written(w) = "save" /\ Showing(w)
  BY <1>1, NetsimAssumption DEF Written, ThreadInv
<1> HIDE DEF d, todo
<1>10. ASSUME w \in Handlers PROVE Showing(w)'
  <2>1. \/ files'[job[w].dev].version >= job[w].set
        \/ job[w].dev \in Listed(Tail(todo))
    <3>1. CASE files[job[w].dev].version >= job[w].set
      BY <1>5, <1>6, <3>1 DEF WalksInv, VersionsInv
    <3>2. CASE ~(files[job[w].dev].version >= job[w].set) /\ job[w].dev = d
      BY <1>1, <1>3, <1>9, <1>10, <3>2 DEF Showing, Rendering, d
    <3>3. CASE ~(files[job[w].dev].version >= job[w].set) /\ job[w].dev # d
      BY <1>1, <1>2, <1>9, <1>10, <3>3 DEF Showing, Rendering, todo
    <3> QED BY <3>1, <3>2, <3>3
  <2> QED BY <1>1, <1>2, <1>5, <1>7, <1>9, <1>10, <2>1 DEF Showing, Rendering
<1>11. HasLock(w)' /\ Newer(w)'
  <2>1. lock = w
    BY <1>1 DEF ThreadInv, HasLock, Rendering
  <2>2. Written(w) \in {"idle", "save"}
    BY DEF Written
  <2> QED BY <1>2, <1>5, <1>7, <2>1, <2>2 DEF HasLock, Newer, Rendering
<1>12. ThreadInv(w)'
  BY <1>5, <1>10, <1>11 DEF ThreadInv
<1> QED BY <1>1, <1>4, <1>6, <1>7, <1>8, <1>12, OneThread

------------------------------------------------------------------------------
(* The theorems *)

\* At first nothing has been rendered.
LEMMA WalksInit == Init => WalksInv
<1> SUFFICES ASSUME Init PROVE WalksInv
  OBVIOUS
<1>1. /\ pc = BootLabel /\ job = [w \in Threads |-> NoJob]
      /\ version = [d \in Devices |-> 1]
      /\ files = [d \in Devices |-> [version |-> 0, age |-> 0, alarm |-> OK]]
      /\ \A w \in Threads : /\ pc[w] \in {"want", "idle"}
                            /\ w \in Handlers => pc[w] = "idle"
  BY NetsimAssumption DEF Init, BootLabel
<1>2. VersionsInv
  BY <1>1 DEF VersionsInv, BootLabel
<1>3. ASSUME NEW w \in Threads PROVE ThreadInv(w)
  <2>0. job[w] = NoJob
    BY <1>1
  <2>1. JobTyped(w)
    BY <2>0, NoJobTyped DEF JobTyped
  <2>2. w \in Handlers => Showing(w)
    BY <1>1, NoJobTyped DEF Showing, Rendering
  <2> QED BY <1>1, <2>1, <2>2 DEF ThreadInv, HasLock, Newer, Rendering
<1> QED BY <1>2, <1>3 DEF WalksInv

\* Every step keeps the invariant and takes no file back.
LEMMA WalksNext ==
    ASSUME WalksInv, [Next]_vars
    PROVE  WalksInv' /\ \A d \in Devices : files'[d].version >= files[d].version
<1>0. UNCHANGED files => \A d \in Devices : files'[d].version >= files[d].version
  BY DEF WalksInv, VersionsInv
<1>1. CASE UNCHANGED vars
  BY <1>0, <1>1, Elsewhere DEF vars, control, walks
<1>2. ASSUME NEW w \in Threads, Write(w)
      PROVE  WalksInv' /\ \A d \in Devices : files'[d].version >= files[d].version
  <2>1. CASE Acquire(w)
    BY <1>0, <2>1, AcquireKeeps DEF Acquire, walks
  <2>2. CASE Read(w)
    BY <1>0, <2>2, ReadKeeps DEF Read, walks
  <2>3. CASE Render(w)
    BY <2>3, RenderKeeps
  <2> QED BY <1>2, <2>1, <2>2, <2>3 DEF Write
<1> QED BY <1>0, <1>1, <1>2, OthersKeep DEF Next

\* Walk files only move forward, for any devices, handlers, failures and
\* restarts (write_walks under _WRITE_LOCK).
THEOREM FilesForwardAlways == Spec => FilesForward
<1>1. Init => WalksInv
  BY WalksInit
<1>2. WalksInv /\ [Next]_vars => WalksInv'
  BY WalksNext
<1>3. WalksInv /\ [Next]_vars =>
        [\A d \in Devices : files'[d].version >= files[d].version]_files
  BY WalksNext
<1> QED BY <1>1, <1>2, <1>3, PTL DEF Spec, FilesForward

\* A toggle is in its walk file before it saves and answers, whoever renders
\* at the time (do_GET of the panel: write_walks, save_state, the answer).
THEOREM ToggleShownAlways == Spec => []ToggleShown
<1>1. Init => WalksInv
  BY WalksInit
<1>2. WalksInv /\ [Next]_vars => WalksInv'
  BY WalksNext
<1>3. WalksInv => ToggleShown
  BY DEF WalksInv, ThreadInv, Showing, ToggleShown, Threads
<1> QED BY <1>1, <1>2, <1>3, PTL DEF Spec

------------------------------------------------------------------------------
(* What a walk says: the levels of the checks, whatever the wobbles.          *)

DeviceStates == [state : States, since : 0..MaxTime, deg : -1..MaxTime, brk : -1..MaxTime]

\* Times are whole minutes, and Least is the smaller of two.
LEMMA MinutesType ==
    ASSUME now \in 0..MaxTime, NEW stamp \in -1..MaxTime
    PROVE  Minutes(stamp) \in Int
BY NetsimAssumption DEF Minutes, None

\* The age of a walk is positive when the phase is, and full when it is.
LEMMA AgeTold ==
    ASSUME now \in 0..MaxTime, NEW s \in DeviceStates
    PROVE  /\ s.state # "broken" => (Age(s) > 0 <=> Minutes(s.deg) > 0)
           /\ s.state = "broken" => (Age(s) = 3 <=> Minutes(s.brk) >= 3)
<1>1. Minutes(s.deg) \in Int /\ Minutes(s.brk) \in Int
  BY MinutesType DEF DeviceStates
<1> DEFINE m == Minutes(s.deg)
           n == Minutes(s.brk)
<1>2. CASE s.state = "broken"
  <2>1. Age(s) = Least(3, n)
    BY <1>2 DEF Age
  <2> HIDE DEF n
  <2>2. Least(3, n) = 3 <=> n >= 3
    BY <1>1 DEF Least, n
  <2> QED BY <1>2, <2>1, <2>2 DEF n
<1>3. CASE s.state # "broken"
  <2>1. Age(s) = Least(3, m)
    BY <1>3 DEF Age
  <2> HIDE DEF m
  <2>2. Least(3, m) > 0 <=> m > 0
    BY <1>1 DEF Least, m
  <2> QED BY <1>3, <2>1, <2>2 DEF m
<1> QED BY <1>2, <1>3

\* The storm on a degraded port is a warning as soon as it has lasted, and never
\* more than that.
LEMMA ErrorsTold ==
    ASSUME now \in 0..MaxTime, NEW s \in DeviceStates, NEW e \in Corners
    PROVE  LET m == Minutes(s.deg)   r == Errors("degraded", s, e)
           IN  r \in Int /\ IF m > 0 THEN 10 <= r /\ r < 100 ELSE r <= 0
<1>1. Minutes(s.deg) \in Int /\ e.d \in {-1, 1} /\ e.other \in {-1, 1}
  BY MinutesType DEF DeviceStates, Corners
<1> DEFINE m == Minutes(s.deg)
           x == 40 * Least(100, 50 * m)
<1>2. x \in Int /\ IF m > 0 THEN 2000 <= x /\ x <= 4000 ELSE x <= 0
  <2> HIDE DEF m
  <2>1. m \in Int
    BY <1>1 DEF m
  <2>2. CASE m > 0
    <3>1. /\ Least(100, 50 * m) \in Int
          /\ 50 <= Least(100, 50 * m) /\ Least(100, 50 * m) <= 100
      BY <2>1, <2>2 DEF Least
    <3> QED BY <2>2, <3>1
  <2>3. CASE ~(m > 0)
    <3>1. Least(100, 50 * m) \in Int /\ Least(100, 50 * m) <= 0
      BY <2>1, <2>3 DEF Least
    <3> QED BY <2>3, <3>1
  <2> QED BY <2>2, <2>3
<1>3. Errors("degraded", s, e) = (x * (100 + (15 * e.d))) \div (100 * (100 + (30 * e.other)))
  BY DEF Errors
<1> HIDE DEF m, x
<1>4. Errors("degraded", s, e) \in {(x * 85) \div 7000, (x * 85) \div 13000,
                                    (x * 115) \div 7000, (x * 115) \div 13000}
  <2>1. 100 + (15 * e.d) \in {85, 115} /\ 100 * (100 + (30 * e.other)) \in {7000, 13000}
    BY <1>1
  <2> QED BY <1>3, <2>1
<1>5. CASE m > 0
  <2>1. ASSUME NEW p \in {85, 115}, NEW q \in {7000, 13000}
        PROVE  (x * p) \div q \in Int /\ 10 <= (x * p) \div q /\ (x * p) \div q < 100
    BY <1>2, <1>5
  <2> QED BY <1>4, <1>5, <2>1 DEF m
<1>6. CASE ~(m > 0)
  <2>1. ASSUME NEW p \in {85, 115}, NEW q \in {7000, 13000}
        PROVE  (x * p) \div q \in Int /\ (x * p) \div q <= 0
    BY <1>2, <1>6
  <2> QED BY <1>4, <1>6, <2>1 DEF m
<1> QED BY <1>5, <1>6

\* What the uplink's switch raises in each state.
LEMMA AccessTold ==
    ASSUME now \in 0..MaxTime, NEW s \in DeviceStates, NEW e \in Corners
    PROVE  /\ AccessAlarm("healthy", Oper("healthy"), s, e) = OK
           /\ AccessAlarm("degraded", Oper("degraded"), s, e)
                = IF Minutes(s.deg) > 0 THEN WARN ELSE OK
           /\ AccessAlarm("broken", Oper("broken"), s, e) = CRIT
<1>1. AccessAlarm("healthy", Oper("healthy"), s, e) = OK
  BY DEF AccessAlarm, Oper, Errors, Level, OK, WARN, CRIT
<1>2. AccessAlarm("broken", Oper("broken"), s, e) = CRIT
  BY DEF AccessAlarm, Oper
<1>3. AccessAlarm("degraded", Oper("degraded"), s, e)
        = Level(Errors("degraded", s, e), 10, 100)
  BY DEF AccessAlarm, Oper
<1>4. Level(Errors("degraded", s, e), 10, 100)
        = IF Minutes(s.deg) > 0 THEN WARN ELSE OK
  BY ErrorsTold, MinutesType DEF Level, DeviceStates
<1> QED BY <1>1, <1>2, <1>3, <1>4

\* What the router's CPU raises: nothing before it breaks, and the alarm once
\* the ramp is over.
LEMMA WanTold ==
    ASSUME now \in 0..MaxTime, NEW s \in DeviceStates, NEW e \in Corners
    PROVE  /\ Level(WanCpu("healthy", s, e), 80, 90) = OK
           /\ Level(WanCpu("degraded", s, e), 80, 90) = OK
           /\ Minutes(s.brk) >= 3 => Level(WanCpu("broken", s, e), 80, 90) = CRIT
<1>1. Minutes(s.deg) \in Int /\ Minutes(s.brk) \in Int /\ e.d \in {-1, 1}
  BY MinutesType DEF DeviceStates, Corners
<1>2. Level(WanCpu("healthy", s, e), 80, 90) = OK
  BY <1>1 DEF WanCpu, GaugeAbs, Level
<1>3. Level(WanCpu("degraded", s, e), 80, 90) = OK
  <2> DEFINE m == Minutes(s.deg)
             r == Least(100, (100 * m) \div 3)
  <2>1. r \in Int /\ r <= 100
    <3> HIDE DEF m
    <3>1. m \in Int
      BY <1>1 DEF m
    <3> QED BY <3>1 DEF Least
  <2>2. WanCpu("degraded", s, e) = 25 + (((68 - 25) * r) \div 100) + 4 * e.d
    BY DEF WanCpu, GaugeAbs, Lerp
  <2> HIDE DEF r
  <2>3. ((68 - 25) * r) \div 100 \in Int /\ ((68 - 25) * r) \div 100 <= 43
    BY <2>1
  <2>4. WanCpu("degraded", s, e) < 80 /\ WanCpu("degraded", s, e) \in Int
    BY <1>1, <2>2, <2>3
  <2> QED BY <2>4 DEF Level
<1>4. ASSUME Minutes(s.brk) >= 3
      PROVE  Level(WanCpu("broken", s, e), 80, 90) = CRIT
  <2> DEFINE n == Minutes(s.brk)
  <2>1. Ramp(10 * n, 30) = 100
    <3> HIDE DEF n
    <3>1. n \in Int /\ n >= 3
      BY <1>1, <1>4 DEF n
    <3>2. (1000 * (10 * n)) \div 30 \in Int /\ (1000 * (10 * n)) \div 30 >= 1000
      BY <3>1
    <3> QED BY <3>1, <3>2 DEF Ramp, Least
  <2>2. WanCpu("broken", s, e) = 68 + (((93 - 68) * Ramp(10 * n, 30)) \div 100) + 2 * e.d
    BY DEF WanCpu, GaugeAbs, Lerp
  <2>3. ((93 - 68) * 100) \div 100 = 25
    OBVIOUS
  <2>4. WanCpu("broken", s, e) >= 90 /\ WanCpu("broken", s, e) \in Int
    BY <1>1, <2>1, <2>2, <2>3
  <2> QED BY <2>4 DEF Level
<1> QED BY <1>2, <1>3, <1>4

------------------------------------------------------------------------------
(* The alarm of a walk: what is read of a state that is still the device's     *)
(* newest is that state.                                                      *)

Typed ==
    /\ now \in 0..MaxTime
    /\ device \in Dumps /\ snap \in [Threads -> Dumps] /\ File!DiskTypeOK

Fits(w) ==
    LET d == Head(job[w].todo) IN
    pc[w] = "render" /\ job[w].read = version[d] => job[w].seen = device[d].state

AlarmInv == WalksInv /\ Typed /\ AlarmTold /\ \A w \in Threads : Fits(w)

\* States of devices, those of a new process among them.
LEMMA StatesType ==
    /\ Dumps = [Devices -> DeviceStates]
    /\ \A t \in 0..MaxTime : Fresh(t) \in DeviceStates
    /\ \A s \in DeviceStates, v \in States, t \in 0..MaxTime : Set(s, v, t) \in DeviceStates
    /\ [d \in Devices |-> Fresh(0)] \in Dumps
<1>1. Dumps = [Devices -> DeviceStates]
  BY DEF Dumps, DeviceStates
<1>2. MaxTime \in Nat /\ 0 \in 0..MaxTime /\ None \in -1..MaxTime
      /\ 0..MaxTime \subseteq -1..MaxTime
  BY NetsimAssumption DEF None
<1>3. \A t \in 0..MaxTime : Fresh(t) \in DeviceStates
  BY <1>2 DEF Fresh, DeviceStates, States
<1>4. ASSUME NEW s \in DeviceStates, NEW v \in States, NEW t \in 0..MaxTime
      PROVE  Set(s, v, t) \in DeviceStates
  <2>1. t \in -1..MaxTime
    BY <1>2
  <2>2. /\ (IF v # s.state THEN t ELSE s.since) \in 0..MaxTime
        /\ (IF v = "healthy" THEN None ELSE IF s.deg = None THEN t ELSE s.deg) \in -1..MaxTime
        /\ (IF v # "broken"  THEN None ELSE IF s.brk = None THEN t ELSE s.brk) \in -1..MaxTime
    BY <1>2, <2>1 DEF DeviceStates
  <2> QED BY <2>2 DEF Set, DeviceStates
<1> QED BY <1>1, <1>2, <1>3, <1>4

\* What a process loads is what was saved, or new.
LEMMA LoadedType == Typed => \A d \in Devices : Loaded(d) \in DeviceStates
BY StatesType DEF Typed, Loaded, File!DiskTypeOK, File!Content

\* The end of a process keeps the types.
LEMMA DownTyped ==
    ASSUME Typed, Down, UNCHANGED <<now, device>>
    PROVE  Typed'
<1>1. File!DiskTypeOK'
  BY FileCloseType DEF Typed, Down
<1> QED BY <1>1, StatesType DEF Typed, Down

\* Saves, whole or failing, keep the types.
LEMMA SaveTyped ==
    ASSUME Typed, NEW w \in Threads, Save(w) \/ SaveFails(w)
    PROVE  Typed'
<1>1. UNCHANGED <<now, device>>
  BY DEF Save, SaveOpen, SaveDump, SaveReplace, SaveFails, control
<1>2. snap[w] \in Dumps /\ [d \in Devices |-> Fresh(0)] \in Dumps
  BY StatesType DEF Typed
<1>3. CASE SaveOpen(w)
  BY <1>1, <1>2, <1>3, FileOpenType DEF SaveOpen, Typed
<1>4. CASE SaveDump(w)
  BY <1>1, <1>2, <1>4, FileDumpType DEF SaveDump, Typed
<1>5. CASE SaveReplace(w)
  BY <1>1, <1>2, <1>5, FileReplaceType DEF SaveReplace, Typed
<1>6. CASE SaveFails(w)
  <2>1. File!Bare("torn") \in File!Content
    BY <1>2, FileBareType
  <2> QED BY <1>1, <1>2, <1>6, <2>1, FilePutType DEF SaveFails, Typed
<1> QED BY <1>3, <1>4, <1>5, <1>6 DEF Save

\* Every step keeps the types.
LEMMA NextTyped ==
    ASSUME Typed, [Next]_vars
    PROVE  Typed'
<1>1. CASE UNCHANGED vars
  BY <1>1 DEF vars, control, saves, Typed, File!DiskTypeOK
<1>2. ASSUME NEW w \in Threads, NEW d \in Devices, NEW v \in States, Change(w, d, v)
      PROVE  Typed'
  <2>1. UNCHANGED <<now, snap, disk>>
    BY <1>2 DEF Change, saves
  <2>2. device' \in Dumps
    BY <1>2, StatesType DEF Change, Typed
  <2> QED BY <2>1, <2>2 DEF Typed, File!DiskTypeOK
<1>3. ASSUME NEW h \in Handlers, Shutdown(h) \/ Status(h) \/ \E d \in Devices, s \in States : Toggle(h, d, s)
      PROVE  Typed'
  <2>1. CASE Shutdown(h)
    BY <2>1 DEF Shutdown, control, saves, Typed, File!DiskTypeOK
  <2>2. CASE Status(h)
    BY <1>1, <2>2 DEF Status
  <2>3. CASE \E d \in Devices, s \in States : Toggle(h, d, s)
    BY <1>2, <2>3 DEF Toggle, Threads
  <2> QED BY <1>3, <2>1, <2>2, <2>3
<1>4. ASSUME NEW d \in Devices, Escalate(d)
      PROVE  Typed'
  BY <1>2, <1>4 DEF Escalate, Threads, States
<1>5. CASE Round
  BY <1>5 DEF Round, control, saves, Typed, File!DiskTypeOK
<1>6. ASSUME NEW w \in Threads, Write(w) \/ WriteFails(w) \/ Save(w) \/ SaveFails(w) \/ Exit(w)
      PROVE  Typed'
  <2>1. CASE Write(w)
    BY <2>1 DEF Write, Acquire, Read, Render, control, saves, Typed, File!DiskTypeOK
  <2>2. CASE WriteFails(w)
    <3>1. CASE Down
      BY <2>2, <3>1, DownTyped DEF WriteFails, control
    <3>2. CASE UNCHANGED saves
      BY <2>2, <3>2 DEF WriteFails, control, saves, Typed, File!DiskTypeOK
    <3> QED BY <2>2, <3>1, <3>2 DEF WriteFails
  <2>3. CASE Exit(w)
    BY <2>3, DownTyped DEF Exit, control
  <2> QED BY <1>6, <2>1, <2>2, <2>3, SaveTyped
<1>7. CASE Stop
  BY <1>7, DownTyped DEF Stop, control
<1>8. CASE Start
  BY <1>8, LoadedType, StatesType DEF Start, saves, Typed, File!DiskTypeOK
<1>9. CASE Clock
  <2>1. now' \in 0..MaxTime
    BY <1>9, NetsimAssumption DEF Clock, Typed
  <2> QED BY <1>9, <2>1 DEF Clock, control, saves, Typed, File!DiskTypeOK
<1> QED BY <1>1, <1>3, <1>4, <1>5, <1>6, <1>7, <1>8, <1>9 DEF Next

\* Walks stay right: a device either stays, or is newer than every walk and every
\* reading of it.
LEMMA AlarmKept ==
    ASSUME AlarmInv, UNCHANGED files,
           \A d \in Devices : \/ version'[d] = version[d] /\ device'[d] = device[d]
                              \/ version'[d] = version[d] + 1,
           \A w \in Threads : pc'[w] = "render" => pc[w] = "render" /\ job'[w] = job[w]
    PROVE  AlarmTold' /\ \A w \in Threads : Fits(w)'
<1>1. \A d \in Devices : /\ files[d].version \in Nat /\ version[d] \in Nat
                         /\ files[d].version <= version[d]
  BY DEF AlarmInv, WalksInv, VersionsInv
<1>2. ASSUME NEW d \in Devices, files'[d].version = version'[d]
      PROVE  version'[d] = version[d] /\ device'[d] = device[d]
  BY <1>1, <1>2
<1>3. AlarmTold'
  BY <1>2 DEF AlarmInv, AlarmTold
<1>4. ASSUME NEW w \in Threads PROVE Fits(w)'
  <2>1. SUFFICES ASSUME pc'[w] = "render" PROVE Fits(w)'
    BY DEF Fits
  <2> DEFINE d == Head(job[w].todo)
  <2>2. pc[w] = "render" /\ job'[w] = job[w]
    BY <2>1
  <2>3. d \in Devices /\ job[w].read \in Nat /\ job[w].read <= version[d]
    BY <2>2, HeadAndRest DEF AlarmInv, WalksInv, ThreadInv, HasLock, Newer, JobTyped, Rendering
  <2>4. Fits(w)
    BY DEF AlarmInv
  <2> QED BY <1>1, <2>2, <2>3, <2>4 DEF Fits
<1> QED BY <1>3, <1>4

\* What is read is the state of the newest version.
LEMMA ReadAlarm ==
    ASSUME AlarmInv, NEW w \in Threads, Read(w)
    PROVE  AlarmTold' /\ \A v \in Threads : Fits(v)'
<1>1. /\ UNCHANGED <<files, version, device>>
      /\ job' = [job EXCEPT ![w].seen = device[Head(job[w].todo)].state,
                            ![w].read = version[Head(job[w].todo)]]
      /\ \A v \in Threads : v # w => pc'[v] = pc[v]
  BY DEF Read, Goto, AlarmInv, WalksInv, VersionsInv, control, walks
<1>2. AlarmTold'
  BY <1>1 DEF AlarmInv, AlarmTold
<1>3. \A v \in Threads : v # w => job'[v] = job[v]
  BY <1>1 DEF AlarmInv, WalksInv, VersionsInv
<1>4. \A v \in Threads : v # w => Fits(v)'
  BY <1>1, <1>3 DEF AlarmInv, Fits
<1>5. Fits(w)'
  <2>1. JobTyped(w) /\ DOMAIN job = Threads
    BY DEF AlarmInv, WalksInv, VersionsInv, ThreadInv
  <2>2. job'[w] = [job[w] EXCEPT !.seen = device[Head(job[w].todo)].state,
                                 !.read = version[Head(job[w].todo)]]
    BY <1>1, <2>1
  <2>3. /\ job'[w].todo = job[w].todo
        /\ job'[w].seen = device[Head(job[w].todo)].state
    BY <2>1, <2>2 DEF JobTyped
  <2> QED BY <1>1, <2>3 DEF Fits
<1> QED BY <1>2, <1>4, <1>5

\* A walk of the newest version raises what its state is documented with.
LEMMA RenderAlarm ==
    ASSUME AlarmInv, NEW w \in Threads, Render(w)
    PROVE  AlarmTold' /\ \A v \in Threads : Fits(v)'
<1> DEFINE d == Head(job[w].todo)
           s == device[d]
<1>1. /\ pc[w] = "render" /\ ThreadInv(w) /\ Fits(w)
      /\ UNCHANGED <<version, device, now>>
  BY DEF Render, AlarmInv, WalksInv, control
<1>2. d \in Devices
  BY <1>1, HeadAndRest DEF ThreadInv, HasLock, JobTyped, Rendering
<1>3. PICK alarm \in Alarms(d, job[w].seen, port') :
         files' = [files EXCEPT ![d] = [version |-> job[w].read, age |-> Age(device[d]),
                                        alarm |-> alarm]]
  BY DEF Render
<1>4. /\ files'[d] = [version |-> job[w].read, age |-> Age(s), alarm |-> alarm]
      /\ \A e \in Devices : e # d => files'[e] = files[e]
  BY <1>2, <1>3 DEF AlarmInv, WalksInv, VersionsInv
<1>5. s \in DeviceStates /\ now \in 0..MaxTime
  BY <1>2, StatesType DEF AlarmInv, Typed
<1>6. \A v \in Threads : Fits(v)'
  <2>1. \A v \in Threads : pc'[v] # "render"
    <3>1. \A v \in Threads : v # w => ~Rendering(v)
      BY <1>1, OnlyOne DEF AlarmInv, Rendering
    <3>2. /\ pc'[w] # "render"
          /\ \A v \in Threads : v # w => pc'[v] = pc[v]
      BY <1>1 DEF Render, Goto, AlarmInv, WalksInv, VersionsInv, Written
    <3> QED BY <3>1, <3>2 DEF Rendering
  <2> QED BY <2>1 DEF Fits
<1>7. ASSUME job[w].read = version[d]
      PROVE  CASE s.state = "healthy" -> alarm = OK
               [] s.state = "degraded" /\ d = "rt-wan-01" -> alarm = OK
               [] s.state = "degraded" /\ d # "rt-wan-01" ->
                     alarm \in (IF Age(s) > 0 THEN {WARN} ELSE {OK, WARN})
               [] s.state = "broken" /\ d # "rt-wan-01" -> alarm = CRIT
               [] s.state = "broken" /\ d = "rt-wan-01" -> Age(s) = 3 => alarm = CRIT
  <2>1. job[w].seen = s.state
    BY <1>1, <1>7 DEF Fits
  <2>2. s.state \in {"healthy", "degraded", "broken"}
    BY <1>5 DEF DeviceStates, States
  <2>3. CASE d = "rt-wan-01"
    <3>1. PICK e \in Corners : alarm = Level(WanCpu(s.state, s, e), 80, 90)
      BY <1>3, <2>1, <2>3 DEF Alarms
    <3> HIDE DEF s
    <3>2. CASE s.state = "healthy"
      BY <1>5, <3>1, <3>2, WanTold
    <3>3. CASE s.state = "degraded"
      BY <1>5, <2>3, <3>1, <3>3, WanTold
    <3>4. CASE s.state = "broken"
      <4>1. Age(s) = 3 => Minutes(s.brk) >= 3
        BY <1>5, <3>4, AgeTold
      <4>2. Minutes(s.brk) >= 3 => Level(WanCpu("broken", s, e), 80, 90) = CRIT
        BY <1>5, WanTold
      <4>3. Age(s) = 3 => alarm = CRIT
        BY <3>1, <3>4, <4>1, <4>2
      <4> QED BY <2>3, <3>4, <4>3
    <3> QED BY <2>2, <3>2, <3>3, <3>4
  <2>4. CASE d # "rt-wan-01"
    <3>1. port' = Oper(s.state)
      <4>1. d = "sw-access-01"
        BY <1>2, <2>4, NetsimAssumption
      <4> QED BY <2>1, <4>1 DEF Render
    <3>2. PICK e \in Corners : alarm = AccessAlarm(s.state, Oper(s.state), s, e)
      BY <1>3, <2>1, <2>4, <3>1 DEF Alarms
    <3> HIDE DEF s
    <3>3. CASE s.state = "healthy"
      BY <1>5, <3>2, <3>3, AccessTold
    <3>4. CASE s.state = "degraded"
      BY <1>5, <2>4, <3>2, <3>4, AccessTold, AgeTold
    <3>5. CASE s.state = "broken"
      BY <1>5, <2>4, <3>2, <3>5, AccessTold
    <3> QED BY <2>2, <3>3, <3>4, <3>5
  <2> QED BY <2>3, <2>4
<1>8. AlarmTold'
  <2>1. AlarmTold
    BY DEF AlarmInv
  <2>2. \A e \in Devices : e # d => files'[e] = files[e] /\ device'[e] = device[e]
                                                         /\ version'[e] = version[e]
    BY <1>1, <1>4
  <2> HIDE DEF d, s
  <2>3. ASSUME NEW e \in Devices, files'[e].version = version'[e]
        PROVE  LET z == device'[e]   f == files'[e] IN
               CASE z.state = "healthy" -> f.alarm = OK
                 [] z.state = "degraded" /\ e = "rt-wan-01" -> f.alarm = OK
                 [] z.state = "degraded" /\ e # "rt-wan-01" ->
                       f.alarm \in (IF f.age > 0 THEN {WARN} ELSE {OK, WARN})
                 [] z.state = "broken" /\ e # "rt-wan-01" -> f.alarm = CRIT
                 [] z.state = "broken" /\ e = "rt-wan-01" -> f.age = 3 => f.alarm = CRIT
    <3>1. CASE e # d
      BY <2>1, <2>2, <2>3, <3>1 DEF AlarmTold
    <3>2. CASE e = d
      <4>1. /\ files'[e].alarm = alarm /\ files'[e].age = Age(s)
            /\ job[w].read = version[d] /\ device'[e] = s
        BY <1>1, <1>4, <2>3, <3>2 DEF s
      <4> QED BY <1>7, <3>2, <4>1
    <3> QED BY <3>1, <3>2
  <2> QED BY <2>3 DEF AlarmTold
<1> QED BY <1>6, <1>8

\* Where a thread goes, it does not start to render; the others stay.
LEMMA GoesAlarm ==
    ASSUME AlarmInv, NEW w \in Threads, NEW label, label # "render", Goto(w, label),
           \A v \in Threads : v # w => job'[v] = job[v],
           UNCHANGED <<files, version, device>>
    PROVE  AlarmTold' /\ \A v \in Threads : Fits(v)'
<1>1. pc'[w] = label /\ \A v \in Threads : v # w => pc'[v] = pc[v]
  BY DEF Goto, AlarmInv, WalksInv, VersionsInv
<1> QED BY <1>1, AlarmKept

\* A change makes every walk and reading of its device old.
LEMMA ChangeAlarm ==
    ASSUME AlarmInv, NEW w \in Threads, NEW d \in Devices, NEW value,
           Change(w, d, value), Goto(w, "want")
    PROVE  AlarmTold' /\ \A v \in Threads : Fits(v)'
<1>1. /\ pc'[w] = "want" /\ \A v \in Threads : v # w => pc'[v] = pc[v]
      /\ \A v \in Threads : v # w => job'[v] = job[v]
      /\ UNCHANGED files
  BY DEF Goto, Change, AlarmInv, WalksInv, VersionsInv, walks
<1>2. ASSUME NEW e \in Devices
      PROVE  \/ version'[e] = version[e] /\ device'[e] = device[e]
             \/ version'[e] = version[e] + 1
  BY DEF Change, AlarmInv, WalksInv, VersionsInv, Typed, Dumps
<1> QED BY <1>1, <1>2, AlarmKept

\* After its end a process renders nothing.
LEMMA DownAlarm ==
    ASSUME AlarmInv, Down, UNCHANGED <<files, version, device>>
    PROVE  AlarmTold' /\ \A w \in Threads : Fits(w)'
<1>1. \A w \in Threads : pc'[w] # "render"
  BY DEF Down, BootLabel
<1> QED BY <1>1, AlarmKept

\* Every step keeps the walks right.
LEMMA AlarmNext ==
    ASSUME AlarmInv, [Next]_vars
    PROVE  AlarmInv'
<1>0. WalksInv' /\ Typed'
  BY WalksNext, NextTyped DEF AlarmInv
<1> DEFINE Goal == AlarmTold' /\ \A w \in Threads : Fits(w)'
<1> SUFFICES Goal
  BY <1>0 DEF AlarmInv
<1>t. Handlers \subseteq Threads /\ Renderer \in Threads /\ Watchdog \in Threads
      /\ DOMAIN job = Threads
  BY DEF Threads, AlarmInv, WalksInv, VersionsInv
<1>1. CASE UNCHANGED vars
  BY <1>1, AlarmKept DEF vars, control, walks
<1>2. ASSUME NEW h \in Handlers, Shutdown(h)
      PROVE  Goal
  <2>1. UNCHANGED <<files, version, device>> /\ Goto(h, "save")
    BY <1>2 DEF Shutdown, control, walks
  <2>2. \A v \in Threads : v # h => job'[v] = job[v]
    BY <1>2, <1>t DEF Shutdown
  <2> QED BY <1>t, <2>1, <2>2, GoesAlarm
<1>3. ASSUME NEW h \in Handlers, Status(h)
      PROVE  Goal
  BY <1>1, <1>3 DEF Status
<1>4. ASSUME NEW h \in Handlers, NEW d \in Devices, NEW s \in States, Toggle(h, d, s)
      PROVE  Goal
  BY <1>4, <1>t, ChangeAlarm DEF Toggle
<1>5. ASSUME NEW d \in Devices, Escalate(d)
      PROVE  Goal
  BY <1>5, <1>t, ChangeAlarm DEF Escalate
<1>6. CASE Round
  <2>1. UNCHANGED <<files, version, device, job>>
    BY <1>6 DEF Round, control, walks
  <2>2. Goto(Renderer, "want") \/ Goto(Renderer, "save")
    BY <1>6 DEF Round
  <2> QED BY <1>t, <2>1, <2>2, GoesAlarm
<1>7. ASSUME NEW w \in Threads, Write(w)
      PROVE  Goal
  <2>1. CASE Acquire(w)
    <3>1. UNCHANGED <<files, version, device>> /\ Goto(w, "read")
      BY <2>1 DEF Acquire, control, walks
    <3>2. \A v \in Threads : v # w => job'[v] = job[v]
      BY <2>1, <1>t DEF Acquire
    <3> QED BY <3>1, <3>2, GoesAlarm
  <2>2. CASE Read(w)
    BY <2>2, ReadAlarm
  <2>3. CASE Render(w)
    BY <2>3, RenderAlarm
  <2> QED BY <1>7, <2>1, <2>2, <2>3 DEF Write
<1>8. ASSUME NEW w \in Threads, WriteFails(w)
      PROVE  Goal
  <2>1. UNCHANGED <<files, version, device>>
    BY <1>8 DEF WriteFails, control
  <2>2. CASE Down
    BY <2>1, <2>2, DownAlarm
  <2>3. CASE Goto(w, Failed(w)) /\ job' = [job EXCEPT ![w] = NoJob]
    <3>1. Failed(w) # "render" /\ \A v \in Threads : v # w => job'[v] = job[v]
      BY <1>t, <2>3 DEF Failed
    <3> QED BY <2>1, <2>3, <3>1, GoesAlarm
  <2> QED BY <1>8, <2>2, <2>3 DEF WriteFails
<1>9. ASSUME NEW w \in Threads, Save(w) \/ SaveFails(w)
      PROVE  Goal
  <2>1. UNCHANGED <<files, version, device>>
    BY <1>9 DEF Save, SaveOpen, SaveDump, SaveReplace, SaveFails, control, walks
  <2>2. \A v \in Threads : v # w => job'[v] = job[v]
    BY <1>9, <1>t DEF Save, SaveOpen, SaveDump, SaveReplace, SaveFails
  <2>3. \/ Goto(w, "dump") \/ Goto(w, "replace") \/ Goto(w, "exit") \/ Goto(w, "idle")
    BY <1>9 DEF Save, SaveOpen, SaveDump, SaveReplace, SaveFails
  <2> QED BY <2>1, <2>2, <2>3, GoesAlarm
<1>10. ASSUME NEW w \in Threads, Exit(w)
       PROVE  Goal
  BY <1>10, DownAlarm DEF Exit, control
<1>11. CASE Stop
  BY <1>11, DownAlarm DEF Stop, control
<1>12. CASE Start
  <2>1. UNCHANGED <<files, pc, job>>
    BY <1>12 DEF Start, walks
  <2>2. \A d \in Devices : version'[d] = version[d] + 1
    BY <1>12 DEF Start
  <2> QED BY <2>1, <2>2, AlarmKept
<1>13. CASE Clock
  BY <1>13, AlarmKept DEF Clock, control, walks
<1> QED BY <1>1, <1>2, <1>3, <1>4, <1>5, <1>6, <1>7, <1>8, <1>9, <1>10, <1>11, <1>12, <1>13
        DEF Next

\* At first there is no walk, and nothing is read.
LEMMA AlarmInit == Init => AlarmInv
<1> SUFFICES ASSUME Init PROVE AlarmInv
  OBVIOUS
<1>1. WalksInv
  BY WalksInit
<1>2. MaxTime \in Nat /\ 0 \in 0..MaxTime
  BY NetsimAssumption
<1>3. device \in Dumps
  BY <1>2, StatesType, NetsimAssumption DEF Init
<1>4. File!DiskTypeOK
  <2>1. [d \in Devices |-> Fresh(0)] \in Dumps
    BY StatesType
  <2>2. File!Bare("none") \in File!Content
    BY <2>1, FileBareType
  <2>3. File!Json(device) \in File!Content
    BY <1>3 DEF File!Json, File!Content
  <2> QED BY <2>2, <2>3 DEF Init, File!NoDisk, File!DiskTypeOK, File!Places
<1>5. Typed
  BY <1>2, <1>3, <1>4, StatesType DEF Init, Typed
<1>6. AlarmTold
  <2>1. \A d \in Devices : files[d].version = 0 /\ version[d] = 1
    BY DEF Init
  <2> QED BY <2>1 DEF AlarmTold
<1>7. \A w \in Threads : Fits(w)
  BY DEF Init, BootLabel, Fits
<1> QED BY <1>1, <1>5, <1>6, <1>7 DEF AlarmInv

\* A walk of the state its device is in raises the alarm that state is
\* documented with and no other, for any wobble of its rows and any writers,
\* failures, saves and restarts (SwAccess.rows, RtWan.rows).
THEOREM AlarmToldAlways == Spec => []AlarmTold
<1>1. AlarmInv /\ [Next]_vars => AlarmInv'
  BY AlarmNext
<1>2. AlarmInv => AlarmTold
  BY DEF AlarmInv
<1> QED BY <1>1, <1>2, AlarmInit, PTL DEF Spec

(***************************************************************************)
(* The live transport: the same device served by the responder of module    *)
(* Snmp, whose workers refresh the cached table in place.  Its state is     *)
(* declared here under names of its own.                                    *)
(***************************************************************************)
CONSTANTS Workers, Community, Stranger, Static, Changing, Text, Base, Absent, Modes, LastId,
          MaxRepetitions, TTL, MaxWalks, MaxTries, MaxLost
VARIABLES clock, entries, cache, at, task, requests, replies, walk, asked, lost, overlap, seen

Live == INSTANCE Snmp WITH pc <- at, job <- task, walks <- asked

LiveAssumption == Live!SnmpAssumption /\ Live!SortAssumption

\* An entry of the cache, and what a worker keeps of its request.
Entry    == [ts : Nat, value : [Live!Oids -> Nat]]
EntriesOK ==
    /\ clock \in Nat /\ entries \in Seq(Entry) /\ cache \in 0..Len(entries)
    /\ overlap \in BOOLEAN
    /\ DOMAIN at = Workers /\ DOMAIN task = Workers
    /\ \A i \in DOMAIN entries : /\ entries[i].ts <= clock
                                 /\ \A o \in Changing : entries[i].value[o] <= clock

Task(Req, Index, Cur, Reps, Out) ==
    [now : Nat, entry : Nat, seen : Nat, todo : Seq(Changing),
     req : Req, index : Index, cur : Cur, reps : Reps, out : Out]
TaskOK(w) ==
    /\ task[w] \in Task({task[w].req}, {task[w].index}, {task[w].cur}, {task[w].reps}, {task[w].out})
    /\ task[w].now <= clock /\ task[w].seen <= clock
    /\ at[w] = "reload" => cache # 0
    /\ at[w] \in {"sample", "patch", "answer"} => task[w].entry \in DOMAIN entries
    /\ at[w] \in {"install", "patch"} => task[w].now <= task[w].seen

\* As long as no two refreshes overlapped, a refresh finds the entry as it read
\* it and leaves it newer;
Row(w, o) == entries[task[w].entry].value[o]
Quiet(w) ==
    /\ at[w] \in {"build", "install"} => cache = 0
    /\ at[w] = "reload" => \A o \in Changing : entries[cache].value[o] + TTL > task[w].now
    /\ at[w] = "answer" => \A o \in Changing : Row(w, o) + TTL > task[w].now
    /\ at[w] = "patch" => \A o \in Changing :
          Row(w, o) <= task[w].seen /\ (Row(w, o) = task[w].seen \/ o \in Listed(task[w].todo))

\* an entry is no older than it says.
Honest == \A i \in DOMAIN entries : \A o \in Changing : entries[i].ts <= entries[i].value[o]

LiveInv ==
    /\ EntriesOK /\ \A w \in Workers : TaskOK(w)
    /\ ~overlap => Honest /\ \A w \in Workers : Quiet(w)

\* What the proofs use of the constants.
LEMMA LiveFacts ==
    ASSUME LiveAssumption
    PROVE  /\ TTL \in Nat \ {0} /\ MaxTime \in Nat
           /\ Live!Sorted(Changing) \in Seq(Changing)
           /\ Listed(Live!Sorted(Changing)) = Changing
BY DEF LiveAssumption, Live!SnmpAssumption, Live!SortAssumption, Live!ToSet, Listed

\* The rows that change are rows.
LEMMA LiveOids == Changing \subseteq Live!Oids
BY DEF Live!Oids

\* A worker between two requests.
LEMMA LiveNoJob ==
    Live!NoJob = [now |-> 0, entry |-> 0, seen |-> 0, todo |-> <<>>, req |-> Live!BERError,
          index |-> 1, cur |-> <<>>, reps |-> 0, out |-> <<>>]
BY DEF Live!NoJob

\* It holds before the first datagram.
LEMMA LiveInit == LiveAssumption /\ Live!Init => LiveInv
<1> SUFFICES ASSUME LiveAssumption, Live!Init PROVE LiveInv
  OBVIOUS
<1>1. /\ clock = 1 /\ entries = <<>> /\ cache = 0 /\ overlap = FALSE
      /\ at = [w \in Workers |-> "idle"] /\ task = [w \in Workers |-> Live!NoJob]
  BY DEF Live!Init
<1>2. DOMAIN entries = {} /\ Len(entries) = 0 /\ entries \in Seq(Entry)
  BY <1>1
<1>3. EntriesOK
  <2>1. clock \in Nat /\ cache \in 0..Len(entries)
    BY <1>1, <1>2
  <2>2. overlap \in BOOLEAN /\ DOMAIN at = Workers /\ DOMAIN task = Workers
    BY <1>1
  <2> QED BY <1>2, <2>1, <2>2 DEF EntriesOK
<1>4. ASSUME NEW w \in Workers PROVE TaskOK(w) /\ Quiet(w)
  <2>1. task[w] = Live!NoJob /\ at[w] = "idle"
    BY <1>1
  <2>2. <<>> \in Seq(Changing)
    OBVIOUS
  <2>3. /\ task[w] \in Task({task[w].req}, {task[w].index}, {task[w].cur}, {task[w].reps}, {task[w].out})
        /\ task[w].now = 0 /\ task[w].seen = 0
    BY <2>1, <2>2, LiveNoJob DEF Task
  <2>4. 0 <= clock /\ 0 \in Nat
    BY <1>1
  <2> QED BY <2>1, <2>2, <2>3, <2>4 DEF TaskOK, Quiet
<1>5. Honest
  BY <1>2 DEF Honest
<1> QED BY <1>3, <1>4, <1>5 DEF LiveInv

\* A worker's own state holds however much the others add to the cache.
LEMMA OthersTask ==
    ASSUME LiveInv, NEW v \in Workers, at'[v] = at[v], task'[v] = task[v],
           clock' \in Nat, clock' >= clock, DOMAIN entries \subseteq DOMAIN entries',
           cache # 0 => cache' # 0
    PROVE  TaskOK(v)'
<1>1. TaskOK(v) /\ clock \in Nat
  BY DEF LiveInv, EntriesOK
<1>2. task[v].now \in Nat /\ task[v].seen \in Nat
  BY <1>1 DEF TaskOK, Task
<1>3. task[v].now <= clock' /\ task[v].seen <= clock'
  BY <1>1, <1>2 DEF TaskOK
<1> QED BY <1>1, <1>3 DEF TaskOK, Task

\* A step of one worker that leaves the cache alone.
LEMMA OneWorker ==
    ASSUME LiveInv, NEW w \in Workers, UNCHANGED <<clock, entries, cache, overlap>>,
           DOMAIN at' = Workers, DOMAIN task' = Workers,
           \A v \in Workers : v # w => at'[v] = at[v] /\ task'[v] = task[v],
           TaskOK(w)', ~overlap => Quiet(w)'
    PROVE  LiveInv'
<1>1. EntriesOK' /\ Honest' = Honest
  BY DEF LiveInv, EntriesOK, Honest
<1>2. ASSUME NEW v \in Workers PROVE TaskOK(v)'
  <2>1. CASE v = w
    BY <2>1
  <2>2. CASE v # w
    BY <2>2, OthersTask DEF LiveInv, EntriesOK
  <2> QED BY <2>1, <2>2
<1>3. ASSUME ~overlap PROVE Honest' /\ \A v \in Workers : Quiet(v)'
  <2>1. Honest /\ \A v \in Workers : Quiet(v)
    BY <1>3 DEF LiveInv
  <2>2. \A v \in Workers : v # w => Quiet(v)'
    BY <2>1 DEF Quiet, Row
  <2> QED BY <1>1, <1>3, <2>1, <2>2
<1> QED BY <1>1, <1>2, <1>3 DEF LiveInv

\* Rows hold times.
LEMMA EntryRows ==
    ASSUME LiveInv
    PROVE  \A i \in DOMAIN entries :
              /\ entries[i] \in Entry /\ entries[i].ts \in Nat
              /\ \A o \in Changing : entries[i].value[o] \in Nat
<1>1. \A i \in DOMAIN entries : entries[i] \in Entry
  BY DEF LiveInv, EntriesOK
<1> QED BY <1>1, LiveOids DEF Entry

\* The clock, the poller and the network.
LEMMA OutsideKeeps ==
    ASSUME LiveInv, UNCHANGED <<entries, cache, overlap, at, task>>,
           clock' \in Nat, clock' >= clock
    PROVE  LiveInv'
<1>1. EntriesOK'
  <2>1. \A i \in DOMAIN entries : /\ entries[i].ts \in Nat
                                  /\ \A o \in Changing : entries[i].value[o] \in Nat
    BY EntryRows
  <2>2. clock \in Nat
    BY DEF LiveInv, EntriesOK
  <2> QED BY <2>1, <2>2 DEF LiveInv, EntriesOK
<1>2. \A v \in Workers : TaskOK(v)'
  BY OthersTask
<1>3. ~overlap => Honest' /\ \A v \in Workers : Quiet(v)'
  BY DEF LiveInv, Honest, Quiet, Row
<1> QED BY <1>1, <1>2, <1>3 DEF LiveInv

\* Where a step takes a worker.
LEMMA Gone ==
    ASSUME LiveInv, NEW w \in Workers, NEW label, Live!Goto(w, label)
    PROVE  DOMAIN at' = Workers /\ at'[w] = label /\ \A v \in Workers : v # w => at'[v] = at[v]
BY DEF Live!Goto, LiveInv, EntriesOK

\* A worker that takes a request, or is done with one.
LEMMA IdleKeeps ==
    ASSUME LiveInv, NEW w \in Workers, UNCHANGED <<clock, entries, cache, overlap>>,
           NEW req, NEW label \in {"idle", "lookup"}, Live!Goto(w, label),
           \/ task' = [task EXCEPT ![w] = [Live!NoJob EXCEPT !.req = req]]
           \/ task' = [task EXCEPT ![w] = Live!NoJob]
    PROVE  LiveInv'
<1>1. DOMAIN task = Workers /\ clock \in Nat
  BY DEF LiveInv, EntriesOK
<1>2. /\ DOMAIN task' = Workers /\ \A v \in Workers : v # w => task'[v] = task[v]
      /\ \/ task'[w] = [Live!NoJob EXCEPT !.req = req]
         \/ task'[w] = Live!NoJob
  BY <1>1
<1>3. <<>> \in Seq(Changing)
  OBVIOUS
<1>4. /\ task'[w].now = 0 /\ task'[w].seen = 0
      /\ task'[w] \in Task({task'[w].req}, {task'[w].index}, {task'[w].cur}, {task'[w].reps},
                           {task'[w].out})
  <2>1. PICK r : task'[w] = [now |-> 0, entry |-> 0, seen |-> 0, todo |-> <<>>, req |-> r,
                             index |-> 1, cur |-> <<>>, reps |-> 0, out |-> <<>>]
    BY <1>2, LiveNoJob
  <2> QED BY <1>3, <2>1 DEF Task
<1>5. at'[w] \in {"idle", "lookup"} /\ 0 <= clock
  BY <1>1, Gone
<1>6. TaskOK(w)' /\ Quiet(w)'
  BY <1>4, <1>5 DEF TaskOK, Quiet, Task
<1> QED BY <1>2, <1>6, Gone, OneWorker

\* The rows that a worker answers from, and the time it looked, stay.
LEMMA BindKeeps ==
    ASSUME LiveInv, NEW w \in Workers, Live!Bind(w)
    PROVE  LiveInv'
<1>1. /\ at[w] = "answer" /\ UNCHANGED <<clock, entries, cache, overlap, at>>
      /\ DOMAIN task = Workers /\ TaskOK(w) /\ DOMAIN at = Workers
  BY DEF Live!Bind, LiveInv, EntriesOK
<1>2. \E out, cur, index, reps :
        task' = [task EXCEPT ![w] = [task[w] EXCEPT
                    !.out = out, !.cur = cur, !.index = index, !.reps = reps]]
  <2> DEFINE j     == task[w]
             table == entries[j.entry].value
             name  == IF j.reps = 0 THEN j.req.oids[j.index] ELSE j.cur
             vb    == IF j.req.tag = Live!T_GET THEN Live!Get(table, name) ELSE Live!NextVb(table, name)
             times == Live!Repetitions(j.req, j.index)
             last  == \/ j.reps + 1 >= times
                      \/ j.req.tag = Live!T_GETBULK /\ vb.val = Live!EndOfView
             out   == IF times = 0 THEN j.out ELSE Append(j.out, vb)
             cur   == vb.oid
             index == IF last THEN j.index + 1 ELSE j.index
             reps  == IF last THEN 0 ELSE j.reps + 1
  <2>1. task' = [task EXCEPT ![w] = [task[w] EXCEPT
                    !.out = out, !.cur = cur, !.index = index, !.reps = reps]]
    BY DEF Live!Bind
  <2> HIDE DEF out, cur, index, reps
  <2> QED BY <2>1
<1>3. PICK out, cur, index, reps :
        task' = [task EXCEPT ![w] = [task[w] EXCEPT
                    !.out = out, !.cur = cur, !.index = index, !.reps = reps]]
  BY Zenon, <1>2
<1>4. /\ DOMAIN task' = Workers /\ \A v \in Workers : v # w => task'[v] = task[v]
      /\ task'[w] = [task[w] EXCEPT !.out = out, !.cur = cur, !.index = index, !.reps = reps]
  BY <1>1, <1>3
<1>5. /\ task'[w] \in Task({task'[w].req}, {task'[w].index}, {task'[w].cur}, {task'[w].reps},
                           {task'[w].out})
      /\ task'[w].now = task[w].now /\ task'[w].seen = task[w].seen
      /\ task'[w].entry = task[w].entry
  BY <1>1, <1>4 DEF TaskOK, Task
<1>6. TaskOK(w)'
  BY <1>1, <1>5 DEF TaskOK, Task
<1>7. ~overlap => Quiet(w)'
  BY <1>1, <1>5 DEF LiveInv, Quiet, Row
<1> QED BY <1>1, <1>4, <1>6, <1>7, OneWorker

\* What is young enough to answer from holds no row that is too old.
LEMMA LookupKeeps ==
    ASSUME LiveAssumption, LiveInv, NEW w \in Workers, Live!Lookup(w)
    PROVE  LiveInv'
<1>1. /\ UNCHANGED <<clock, entries, cache, overlap>>
      /\ clock \in Nat /\ cache \in 0..Len(entries) /\ Len(entries) \in Nat /\ entries \in Seq(Entry)
      /\ DOMAIN task = Workers /\ TaskOK(w)
  BY DEF Live!Lookup, LiveInv, EntriesOK
<1>2. task' = [task EXCEPT ![w].now = clock, ![w].entry = cache]
  BY DEF Live!Lookup
<1>3. /\ DOMAIN task' = Workers /\ \A v \in Workers : v # w => task'[v] = task[v]
      /\ task'[w] = [task[w] EXCEPT !.now = clock, !.entry = cache]
  BY <1>1, <1>2
<1>4. /\ task'[w] \in Task({task'[w].req}, {task'[w].index}, {task'[w].cur}, {task'[w].reps},
                           {task'[w].out})
      /\ task'[w].now = clock /\ task'[w].seen = task[w].seen /\ task'[w].entry = cache
  <2>1. cache \in Nat /\ clock \in Nat
    BY <1>1
  <2>2. task[w] \in Task({task[w].req}, {task[w].index}, {task[w].cur}, {task[w].reps},
                         {task[w].out})
    BY <1>1 DEF TaskOK
  <2> QED BY <1>3, <2>1, <2>2 DEF Task
<1>5. cache # 0 => cache \in DOMAIN entries
  BY <1>1
<1>6. CASE cache = 0
  <2>1. DOMAIN at' = Workers /\ at'[w] = "build" /\ \A v \in Workers : v # w => at'[v] = at[v]
    BY <1>6, Gone DEF Live!Lookup
  <2>2. TaskOK(w)' /\ Quiet(w)'
    BY <1>1, <1>4, <1>6, <2>1 DEF TaskOK, Quiet, Task
  <2> QED BY <1>1, <1>3, <2>1, <2>2, OneWorker
<1>7. CASE cache # 0 /\ Live!Aged(clock, entries[cache].ts)
  <2>1. DOMAIN at' = Workers /\ at'[w] = "sample" /\ \A v \in Workers : v # w => at'[v] = at[v]
    BY <1>7, Gone DEF Live!Lookup
  <2>2. TaskOK(w)' /\ Quiet(w)'
    BY <1>1, <1>4, <1>5, <1>7, <2>1 DEF TaskOK, Quiet, Task
  <2> QED BY <1>1, <1>3, <2>1, <2>2, OneWorker
<1>8. CASE cache # 0 /\ ~Live!Aged(clock, entries[cache].ts)
  <2>1. DOMAIN at' = Workers /\ at'[w] = "answer" /\ \A v \in Workers : v # w => at'[v] = at[v]
    BY <1>8, Gone DEF Live!Lookup
  <2>2. TaskOK(w)'
    BY <1>1, <1>4, <1>5, <1>8, <2>1 DEF TaskOK, Task
  <2>3. ASSUME ~overlap, NEW o \in Changing
        PROVE  entries[cache].value[o] + TTL > clock
    <3>1. entries[cache].ts <= entries[cache].value[o]
      BY <1>5, <1>8, <2>3 DEF LiveInv, Honest
    <3>2. entries[cache].ts \in Nat /\ entries[cache].value[o] \in Nat
      BY <1>5, <1>8, EntryRows
    <3>3. ~(clock - entries[cache].ts >= TTL) /\ TTL \in Nat
      BY <1>8, LiveFacts DEF Live!Aged
    <3> QED BY <1>1, <3>1, <3>2, <3>3
  <2>4. ~overlap => Quiet(w)'
    BY <1>1, <1>4, <2>1, <2>3 DEF Quiet, Row
  <2> QED BY <1>1, <1>3, <2>1, <2>2, <2>4, OneWorker
<1> QED BY <1>6, <1>7, <1>8

\* The table of the cache is one that was just made, or one that was refreshed.
LEMMA ReloadKeeps ==
    ASSUME LiveInv, NEW w \in Workers, Live!Reload(w)
    PROVE  LiveInv'
<1>1. /\ UNCHANGED <<clock, entries, cache, overlap>> /\ at[w] = "reload"
      /\ cache \in 0..Len(entries) /\ Len(entries) \in Nat /\ entries \in Seq(Entry)
      /\ DOMAIN task = Workers /\ TaskOK(w)
  BY DEF Live!Reload, LiveInv, EntriesOK
<1>2. task' = [task EXCEPT ![w].entry = cache]
  BY DEF Live!Reload
<1>3. /\ DOMAIN task' = Workers /\ \A v \in Workers : v # w => task'[v] = task[v]
      /\ task'[w] = [task[w] EXCEPT !.entry = cache]
  BY <1>1, <1>2
<1>4. cache \in Nat /\ cache \in DOMAIN entries
  BY <1>1 DEF TaskOK
<1>5. /\ task'[w] \in Task({task'[w].req}, {task'[w].index}, {task'[w].cur}, {task'[w].reps},
                           {task'[w].out})
      /\ task'[w].now = task[w].now /\ task'[w].seen = task[w].seen /\ task'[w].entry = cache
  BY <1>1, <1>3, <1>4 DEF TaskOK, Task
<1>6. DOMAIN at' = Workers /\ at'[w] = "answer" /\ \A v \in Workers : v # w => at'[v] = at[v]
  BY Gone DEF Live!Reload
<1>7. TaskOK(w)'
  BY <1>1, <1>4, <1>5, <1>6 DEF TaskOK, Task
<1>8. ~overlap => Quiet(w)'
  BY <1>1, <1>5, <1>6 DEF LiveInv, Quiet, Row
<1> QED BY <1>1, <1>3, <1>6, <1>7, <1>8, OneWorker

\* Who refreshes alone finds no one else between the steps of a refresh.
LEMMA Alone ==
    ASSUME LiveInv, NEW w \in Workers, Live!Noted(w), ~overlap'
    PROVE  /\ ~overlap
           /\ \A v \in Workers : v # w => at[v] \notin {"build", "install", "sample", "patch"}
<1>1. overlap \in BOOLEAN
  BY DEF LiveInv, EntriesOK
<1>2. ~overlap /\ Live!Refreshing = {w}
  BY <1>1 DEF Live!Noted
<1> QED BY <1>2 DEF Live!Refreshing

\* The first step of a build or of a refresh takes the time.
LEMMA SampleKeeps ==
    ASSUME LiveAssumption, LiveInv, NEW w \in Workers, Live!Build(w) \/ Live!Sample(w)
    PROVE  LiveInv'
<1>1. /\ UNCHANGED <<clock, entries, cache>> /\ Live!Noted(w)
      /\ DOMAIN task = Workers /\ TaskOK(w) /\ clock \in Nat /\ overlap' \in BOOLEAN
  <2>1. Live!Noted(w) /\ UNCHANGED <<clock, entries, cache>>
    BY DEF Live!Build, Live!Sample
  <2>2. overlap' \in BOOLEAN
    BY <2>1 DEF Live!Noted
  <2> QED BY <2>1, <2>2 DEF LiveInv, EntriesOK
<1>2. PICK todo \in {task[w].todo, Live!Sorted(Changing)} :
         /\ task' = [task EXCEPT ![w].seen = clock, ![w].todo = todo]
         /\ \/ at[w] = "build" /\ Live!Goto(w, "install")
            \/ at[w] = "sample" /\ Live!Goto(w, "patch") /\ todo = Live!Sorted(Changing)
  <2>1. CASE Live!Build(w)
    <3>1. task' = [task EXCEPT ![w].seen = clock]
      BY <2>1 DEF Live!Build
    <3>2. [task EXCEPT ![w].seen = clock] = [task EXCEPT ![w].seen = clock, ![w].todo = task[w].todo]
      BY <1>1 DEF TaskOK, Task
    <3> QED BY <2>1, <3>1, <3>2 DEF Live!Build
  <2>2. CASE Live!Sample(w)
    BY <2>2 DEF Live!Sample
  <2> QED BY <2>1, <2>2
<1>3. /\ DOMAIN task' = Workers /\ \A v \in Workers : v # w => task'[v] = task[v]
      /\ task'[w] = [task[w] EXCEPT !.seen = clock, !.todo = todo]
  BY <1>1, <1>2
<1>4. /\ task'[w] \in Task({task'[w].req}, {task'[w].index}, {task'[w].cur}, {task'[w].reps},
                           {task'[w].out})
      /\ task'[w].now = task[w].now /\ task'[w].seen = clock /\ task'[w].entry = task[w].entry
      /\ task'[w].todo = todo
  <2>1. task[w] \in Task({task[w].req}, {task[w].index}, {task[w].cur}, {task[w].reps},
                         {task[w].out})
    BY <1>1 DEF TaskOK
  <2>2. todo \in Seq(Changing)
    BY <2>1, LiveFacts DEF Task
  <2> QED BY <1>1, <1>3, <2>1, <2>2 DEF Task
<1>5. DOMAIN at' = Workers /\ \A v \in Workers : v # w => at'[v] = at[v]
  BY <1>2, Gone
<1>6. \/ at[w] = "build" /\ at'[w] = "install"
      \/ at[w] = "sample" /\ at'[w] = "patch" /\ todo = Live!Sorted(Changing)
  BY <1>2, Gone
<1>7. TaskOK(w)'
  BY <1>1, <1>4, <1>6 DEF TaskOK, Task
<1>8. EntriesOK' /\ Honest' = Honest
  BY <1>1, <1>3, <1>5 DEF LiveInv, EntriesOK, Honest
<1>9. ASSUME NEW v \in Workers PROVE TaskOK(v)'
  <2>1. CASE v # w
    BY <1>1, <1>3, <1>5, <2>1, OthersTask
  <2> QED BY <1>7, <2>1
<1>10. ASSUME ~overlap' PROVE Honest' /\ \A v \in Workers : Quiet(v)'
  <2>1. ~overlap /\ Honest /\ \A v \in Workers : Quiet(v)
    BY <1>1, <1>10, Alone DEF LiveInv
  <2>2. \A v \in Workers : v # w => Quiet(v)'
    BY <1>1, <1>3, <1>5, <2>1 DEF Quiet, Row
  <2>3. Quiet(w)'
    <3>1. CASE at'[w] = "install"
      BY <1>1, <1>6, <2>1, <3>1 DEF Quiet
    <3>2. CASE at'[w] = "patch"
      <4>1. /\ task[w].entry \in DOMAIN entries /\ at[w] = "sample"
            /\ \A o \in Changing : o \in Listed(todo)
        BY <1>1, <1>6, <3>2, LiveFacts DEF TaskOK
      <4>2. \A o \in Changing : Row(w, o) <= clock
        BY <4>1 DEF LiveInv, EntriesOK, Row
      <4> QED BY <1>1, <1>4, <3>2, <4>1, <4>2 DEF Quiet, Row
    <3> QED BY <1>6, <3>1, <3>2
  <2> QED BY <1>8, <2>1, <2>2, <2>3
<1> QED BY <1>8, <1>9, <1>10 DEF LiveInv

\* The first table is as young as the look at the cache that missed it.
LEMMA InstallKeeps ==
    ASSUME LiveAssumption, LiveInv, NEW w \in Workers, Live!Install(w)
    PROVE  LiveInv'
<1> DEFINE new == [ts |-> task[w].now, value |-> Live!Rendered(task[w].seen)]
           n   == Len(entries)
<1>1. /\ UNCHANGED <<clock, task>> /\ Live!Noted(w) /\ at[w] = "install"
      /\ entries' = Append(entries, new) /\ cache' = Len(entries')
      /\ DOMAIN at' = Workers /\ at'[w] = "reload" /\ \A v \in Workers : v # w => at'[v] = at[v]
  BY Gone DEF Live!Install
<1>2. /\ clock \in Nat /\ entries \in Seq(Entry) /\ cache \in 0..n /\ n \in Nat
      /\ TaskOK(w) /\ overlap' \in BOOLEAN
  BY <1>1 DEF LiveInv, EntriesOK, Live!Noted
<1>3. task[w].now \in Nat /\ task[w].seen \in Nat /\ task[w].now <= task[w].seen
      /\ task[w].seen <= clock /\ task[w].now <= clock
  BY <1>1, <1>2 DEF TaskOK, Task
<1>4. /\ new \in Entry /\ new.ts = task[w].now
      /\ \A o \in Changing : new.value[o] = task[w].seen
  <2>1. /\ Live!Rendered(task[w].seen) \in [Live!Oids -> Nat]
        /\ \A o \in Changing : Live!Rendered(task[w].seen)[o] = task[w].seen
    BY <1>3, LiveOids DEF Live!Rendered
  <2> QED BY <1>3, <2>1 DEF Entry
<1> HIDE DEF new
<1>5. /\ entries' \in Seq(Entry) /\ cache' = n + 1 /\ Len(entries') = n + 1
      /\ DOMAIN entries = 1..n /\ DOMAIN entries' = 1..(n + 1)
      /\ \A i \in DOMAIN entries : entries'[i] = entries[i]
      /\ entries'[n + 1] = new
  BY <1>1, <1>2, <1>4
<1>6. \A i \in DOMAIN entries' : i \in DOMAIN entries \/ i = n + 1
  BY <1>2, <1>5
<1>7. EntriesOK'
  <2>1. cache' \in 0..Len(entries') /\ clock' \in Nat
    BY <1>1, <1>2, <1>5
  <2>2. \A i \in DOMAIN entries' : /\ entries'[i].ts <= clock
                                   /\ \A o \in Changing : entries'[i].value[o] <= clock
    <3>1. \A i \in DOMAIN entries : /\ entries[i].ts <= clock
                                    /\ \A o \in Changing : entries[i].value[o] <= clock
      BY DEF LiveInv, EntriesOK
    <3> QED BY <1>3, <1>4, <1>5, <1>6, <3>1
  <2> QED BY <1>1, <1>2, <1>5, <2>1, <2>2 DEF LiveInv, EntriesOK
<1>8. TaskOK(w)'
  BY <1>1, <1>2, <1>5 DEF TaskOK, Task
<1>9. ASSUME NEW v \in Workers PROVE TaskOK(v)'
  <2>1. CASE v # w
    <3>1. DOMAIN entries \subseteq DOMAIN entries' /\ cache' # 0
      BY <1>2, <1>5
    <3> QED BY <1>1, <1>2, <2>1, <3>1, OthersTask
  <2> QED BY <1>8, <2>1
<1>10. ASSUME ~overlap' PROVE Honest' /\ \A v \in Workers : Quiet(v)'
  <2>1. /\ ~overlap /\ Honest /\ \A v \in Workers : Quiet(v)
        /\ \A v \in Workers : v # w => at[v] \notin {"build", "install", "sample", "patch"}
    BY <1>1, <1>10, Alone DEF LiveInv
  <2>2. Honest'
    BY <1>3, <1>4, <1>5, <1>6, <2>1 DEF Honest
  <2>3. Quiet(w)'
    <3>1. \A o \in Changing : entries'[cache'].value[o] + TTL > task[w].now
      BY <1>3, <1>4, <1>5, LiveFacts
    <3> QED BY <1>1, <3>1 DEF Quiet
  <2>4. ASSUME NEW v \in Workers, v # w PROVE Quiet(v)'
    <3>1. at[v] # "reload"
      BY <1>1, <2>1 DEF Quiet, LiveInv, TaskOK
    <3>2. CASE at[v] = "answer"
      <4>1. task[v].entry \in DOMAIN entries
        BY <3>2 DEF LiveInv, TaskOK
      <4> QED BY <1>1, <1>5, <2>1, <2>4, <3>2, <4>1 DEF Quiet, Row
    <3> QED BY <1>1, <2>1, <2>4, <3>1, <3>2 DEF Quiet
  <2> QED BY <2>2, <2>3, <2>4
<1> QED BY <1>7, <1>9, <1>10 DEF LiveInv

\* One entry of the cache is changed.
LEMMA PatchedEntry ==
    ASSUME LiveInv, NEW e \in DOMAIN entries, NEW x \in Entry, entries' = [entries EXCEPT ![e] = x]
    PROVE  /\ entries' \in Seq(Entry) /\ Len(entries') = Len(entries)
           /\ DOMAIN entries' = DOMAIN entries /\ entries'[e] = x
           /\ \A i \in DOMAIN entries : i # e => entries'[i] = entries[i]
<1>1. entries \in Seq(Entry)
  BY DEF LiveInv, EntriesOK
<1> QED BY <1>1

\* A step of a refresh keeps the invariant when it makes no row of its entry
\* younger than the clock or, as long as nobody else refreshes, older than it was.
LEMMA EntryKeeps ==
    ASSUME LiveAssumption, LiveInv, NEW w \in Workers, UNCHANGED <<clock, cache>>, Live!Noted(w),
           DOMAIN at' = Workers, DOMAIN task' = Workers, at[w] = "patch",
           \A v \in Workers : v # w => at'[v] = at[v] /\ task'[v] = task[v],
           NEW x \in Entry, entries' = [entries EXCEPT ![task[w].entry] = x],
           x.ts <= clock, \A o \in Changing : x.value[o] <= clock,
           TaskOK(w)',
           ~overlap' => /\ Quiet(w)'
                        /\ \A o \in Changing : x.ts <= x.value[o] /\ Row(w, o) <= x.value[o]
    PROVE  LiveInv'
<1> DEFINE e == task[w].entry
<1>1. e \in DOMAIN entries
  BY DEF LiveInv, TaskOK
<1> HIDE DEF e
<1>2. /\ entries' \in Seq(Entry) /\ Len(entries') = Len(entries)
      /\ DOMAIN entries' = DOMAIN entries /\ entries'[e] = x
      /\ \A i \in DOMAIN entries : i # e => entries'[i] = entries[i]
  BY <1>1, PatchedEntry DEF e
<1>3. overlap' \in BOOLEAN
  BY DEF Live!Noted
<1>4. EntriesOK'
  <2>1. \A i \in DOMAIN entries' : /\ entries'[i].ts <= clock
                                   /\ \A o \in Changing : entries'[i].value[o] <= clock
    BY <1>2 DEF LiveInv, EntriesOK
  <2> QED BY <1>2, <1>3, <2>1 DEF LiveInv, EntriesOK
<1>5. ASSUME NEW v \in Workers PROVE TaskOK(v)'
  <2>1. CASE v # w
    <3>1. clock \in Nat /\ clock >= clock
      BY DEF LiveInv, EntriesOK
    <3> QED BY <1>2, <2>1, <3>1, OthersTask
  <2> QED BY <2>1
<1>6. ASSUME ~overlap' PROVE Honest' /\ \A v \in Workers : Quiet(v)'
  <2>1. /\ ~overlap /\ Honest /\ \A v \in Workers : Quiet(v)
        /\ \A v \in Workers : v # w => at[v] \notin {"build", "install", "sample", "patch"}
    BY <1>6, Alone DEF LiveInv
  <2>2. Honest'
    BY <1>2, <1>6, <2>1 DEF Honest
  <2>3. \A i \in DOMAIN entries, o \in Changing :
           /\ entries[i].value[o] <= entries'[i].value[o]
           /\ entries[i].value[o] \in Nat /\ entries'[i].value[o] \in Nat
    <3>1. \A i \in DOMAIN entries, o \in Changing :
             entries[i].value[o] \in Nat /\ entries'[i].value[o] \in Nat
      <4>1. \A i \in DOMAIN entries : entries'[i] \in Entry
        BY <1>2
      <4> QED BY <4>1, EntryRows, LiveOids DEF Entry
    <3>2. \A o \in Changing : entries[e].value[o] <= entries'[e].value[o]
      BY <1>2, <1>6 DEF Row, e
    <3> QED BY <1>2, <3>1, <3>2
  <2>4. ASSUME NEW v \in Workers, v # w PROVE Quiet(v)'
    <3>0. task[v].now \in Nat /\ TTL \in Nat /\ TaskOK(v)
      BY LiveFacts DEF LiveInv, TaskOK, Task
    <3>1. CASE at[v] = "reload"
      <4>1. cache \in DOMAIN entries
        BY <3>0, <3>1 DEF LiveInv, TaskOK, EntriesOK
      <4> QED BY <2>1, <2>3, <2>4, <3>0, <3>1, <4>1 DEF Quiet
    <3>2. CASE at[v] = "answer"
      <4>1. task[v].entry \in DOMAIN entries
        BY <3>0, <3>2 DEF TaskOK
      <4> QED BY <2>1, <2>3, <2>4, <3>0, <3>2, <4>1 DEF Quiet, Row
    <3> QED BY <2>1, <2>4, <3>1, <3>2 DEF Quiet
  <2> QED BY <1>6, <2>2, <2>4
<1> QED BY <1>4, <1>5, <1>6 DEF LiveInv

\* A row of the shared table is set, or the table gets its new time.
LEMMA PatchKeeps ==
    ASSUME LiveAssumption, LiveInv, NEW w \in Workers, Live!Patch(w)
    PROVE  LiveInv'
<1> DEFINE e == task[w].entry
           o1 == Head(task[w].todo)
<1>1. /\ at[w] = "patch" /\ UNCHANGED <<clock, cache>> /\ Live!Noted(w)
      /\ TaskOK(w) /\ e \in DOMAIN entries /\ DOMAIN task = Workers /\ DOMAIN at = Workers
      /\ clock \in Nat
  BY DEF Live!Patch, LiveInv, TaskOK, EntriesOK
<1>2. /\ entries[e] \in Entry /\ entries[e].ts \in Nat /\ entries[e].ts <= clock
      /\ \A o \in Changing : entries[e].value[o] \in Nat /\ entries[e].value[o] <= clock
  BY <1>1, EntryRows DEF LiveInv, EntriesOK
<1>3. /\ task[w].now \in Nat /\ task[w].seen \in Nat /\ task[w].now <= task[w].seen
      /\ task[w].seen <= clock /\ task[w].now <= clock /\ task[w].todo \in Seq(Changing)
  BY <1>1 DEF TaskOK, Task
<1>4. ~overlap' => ~overlap /\ Honest /\ Quiet(w)
  BY <1>1, Alone DEF LiveInv
<1>5. CASE task[w].todo # <<>>
  <2>1. /\ o1 \in Changing /\ Tail(task[w].todo) \in Seq(Changing)
        /\ \A o \in Listed(task[w].todo) : o = o1 \/ o \in Listed(Tail(task[w].todo))
    BY <1>3, <1>5, HeadAndRest
  <2> DEFINE x == [ts |-> entries[e].ts,
                   value |-> [entries[e].value EXCEPT ![o1] = task[w].seen]]
  <2>2. x \in Entry
    BY <1>2, <1>3 DEF Entry
  <2>3. entries' = [entries EXCEPT ![e] = x]
    <3>1. entries' = [entries EXCEPT ![e].value[o1] = task[w].seen]
      BY <1>5 DEF Live!Patch
    <3>2. [entries[e] EXCEPT !.value = [entries[e].value EXCEPT ![o1] = task[w].seen]] = x
      BY <1>2 DEF Entry
    <3> QED BY <3>1, <3>2
  <2>4. /\ task' = [task EXCEPT ![w].todo = Tail(@)] /\ at' = at
    BY <1>5 DEF Live!Patch
  <2>5. /\ DOMAIN task' = Workers /\ \A v \in Workers : v # w => task'[v] = task[v]
        /\ task'[w] = [task[w] EXCEPT !.todo = Tail(task[w].todo)]
    BY <1>1, <2>4
  <2>6. /\ task'[w] \in Task({task'[w].req}, {task'[w].index}, {task'[w].cur}, {task'[w].reps},
                             {task'[w].out})
        /\ task'[w].now = task[w].now /\ task'[w].seen = task[w].seen /\ task'[w].entry = e
        /\ task'[w].todo = Tail(task[w].todo)
    <3>1. task[w] \in Task({task[w].req}, {task[w].index}, {task[w].cur}, {task[w].reps},
                           {task[w].out})
      BY <1>1 DEF TaskOK
    <3> QED BY <2>1, <2>5, <3>1 DEF Task
  <2>7. \A o \in Changing : x.value[o] = IF o = o1 THEN task[w].seen ELSE entries[e].value[o]
    BY <1>2, <2>1, LiveOids DEF Entry
  <2>8. x.ts = entries[e].ts
    OBVIOUS
  <2> HIDE DEF x
  <2>9. DOMAIN entries' = DOMAIN entries /\ entries'[e] = x
    BY <1>1, <2>2, <2>3, PatchedEntry
  <2>10. TaskOK(w)'
    BY <1>1, <2>4, <2>6, <2>9 DEF TaskOK, Task
  <2>11. ASSUME ~overlap'
         PROVE  /\ Quiet(w)'
                /\ \A o \in Changing : x.ts <= x.value[o] /\ Row(w, o) <= x.value[o]
    <3>1. \A o \in Changing :
             /\ entries[e].ts <= entries[e].value[o] /\ entries[e].value[o] <= task[w].seen
             /\ entries[e].value[o] = task[w].seen \/ o \in Listed(task[w].todo)
      BY <1>1, <1>4, <2>11 DEF Honest, Quiet, Row
    <3>2. \A o \in Changing : x.ts <= x.value[o] /\ Row(w, o) <= x.value[o]
      BY <1>2, <1>3, <2>7, <2>8, <3>1 DEF Row
    <3>3. \A o \in Changing : /\ x.value[o] <= task[w].seen
                              /\ x.value[o] = task[w].seen \/ o \in Listed(Tail(task[w].todo))
      BY <1>3, <2>1, <2>7, <3>1
    <3>4. Quiet(w)'
      BY <1>1, <2>4, <2>6, <2>9, <3>3 DEF Quiet, Row
    <3> QED BY <3>2, <3>4
  <2>12. x.ts <= clock /\ \A o \in Changing : x.value[o] <= clock
    BY <1>2, <1>3, <2>7, <2>8
  <2> QED BY <1>1, <2>2, <2>3, <2>4, <2>5, <2>10, <2>11, <2>12, EntryKeeps
<1>6. CASE task[w].todo = <<>>
  <2> DEFINE x == [ts |-> task[w].now, value |-> entries[e].value]
  <2>2. x \in Entry
    BY <1>2, <1>3 DEF Entry
  <2>3. entries' = [entries EXCEPT ![e] = x]
    <3>1. entries' = [entries EXCEPT ![e].ts = task[w].now]
      BY <1>6 DEF Live!Patch
    <3>2. [entries[e] EXCEPT !.ts = task[w].now] = x
      BY <1>2 DEF Entry
    <3> QED BY <3>1, <3>2
  <2>4. /\ task' = task /\ Live!Goto(w, "answer")
    BY <1>6 DEF Live!Patch
  <2>5. DOMAIN at' = Workers /\ at'[w] = "answer" /\ \A v \in Workers : v # w => at'[v] = at[v]
    BY <2>4, Gone
  <2>7. x.ts = task[w].now /\ x.value = entries[e].value
    OBVIOUS
  <2> HIDE DEF x
  <2>9. DOMAIN entries' = DOMAIN entries /\ entries'[e] = x
    BY <1>1, <2>2, <2>3, PatchedEntry
  <2>10. TaskOK(w)'
    BY <1>1, <2>4, <2>5, <2>9 DEF TaskOK, Task
  <2>11. ASSUME ~overlap'
         PROVE  /\ Quiet(w)'
                /\ \A o \in Changing : x.ts <= x.value[o] /\ Row(w, o) <= x.value[o]
    <3>1. Listed(task[w].todo) = {}
      <4>1. DOMAIN task[w].todo = {}
        BY <1>6
      <4> QED BY <4>1 DEF Listed
    <3>2. \A o \in Changing : x.value[o] = task[w].seen
      BY <1>1, <1>4, <2>7, <2>11, <3>1 DEF Quiet, Row
    <3>3. \A o \in Changing : x.ts <= x.value[o] /\ Row(w, o) <= x.value[o]
      BY <1>2, <1>3, <2>7, <3>2 DEF Row
    <3>4. \A o \in Changing : x.value[o] + TTL > task[w].now
      BY <1>3, <3>2, LiveFacts
    <3>5. Quiet(w)'
      BY <2>4, <2>5, <2>9, <3>4 DEF Quiet, Row
    <3> QED BY <3>3, <3>5
  <2>12. x.ts <= clock /\ \A o \in Changing : x.value[o] <= clock
    BY <1>2, <1>3, <2>7
  <2> QED BY <1>1, <2>2, <2>3, <2>4, <2>5, <2>10, <2>11, <2>12, EntryKeeps
<1> QED BY <1>5, <1>6

\* Every step keeps the invariant.
LEMMA LiveNext ==
    ASSUME LiveAssumption, LiveInv, [Live!Next]_(Live!vars)
    PROVE  LiveInv'
<1>0. clock \in Nat /\ clock >= clock /\ DOMAIN task = Workers /\ DOMAIN at = Workers
  BY DEF LiveInv, EntriesOK
<1>1. CASE UNCHANGED Live!vars
  BY <1>0, <1>1, OutsideKeeps DEF Live!vars, Live!server
<1>2. ASSUME NEW w \in Workers, Live!Recv(w)
      PROVE  LiveInv'
  <2>1. UNCHANGED <<clock, entries, cache, overlap>>
    BY <1>2 DEF Live!Recv
  <2>2. CASE UNCHANGED <<at, task>>
    BY <1>0, <2>1, <2>2, OutsideKeeps
  <2>3. CASE \E req : Live!Goto(w, "lookup") /\ task' = [task EXCEPT ![w] = [Live!NoJob EXCEPT !.req = req]]
    BY <2>1, <2>3, IdleKeeps
  <2> QED BY <1>2, <2>2, <2>3 DEF Live!Recv
<1>3. ASSUME NEW w \in Workers, Live!Drop(w) \/ Live!Send(w)
      PROVE  LiveInv'
  BY <1>3, IdleKeeps DEF Live!Drop, Live!Send
<1>4. ASSUME NEW w \in Workers, Live!WorkerStep(w)
      PROVE  LiveInv'
  BY <1>3, <1>4, LookupKeeps, SampleKeeps, InstallKeeps, ReloadKeeps, PatchKeeps, BindKeeps
     DEF Live!WorkerStep
<1>5. CASE Live!StartWalk \/ Live!Retry \/ Live!GiveUp \/ Live!Accept \/ Live!Lose
  <2>1. UNCHANGED <<clock, entries, cache, overlap, at, task>>
    BY <1>5 DEF Live!StartWalk, Live!Retry, Live!GiveUp, Live!Accept, Live!Lose, Live!server
  <2> QED BY <1>0, <2>1, OutsideKeeps
<1>6. CASE Live!Tick
  <2>1. UNCHANGED <<entries, cache, overlap, at, task>> /\ clock' = clock + 1
    BY <1>6 DEF Live!Tick, Live!server
  <2>2. clock' \in Nat /\ clock' >= clock
    BY <1>0, <2>1
  <2> QED BY <2>1, <2>2, OutsideKeeps
<1> QED BY <1>1, <1>2, <1>4, <1>5, <1>6 DEF Live!Next

\* What a worker answers from was sampled less than the TTL before it looked, for
\* any rows, workers and requests, unless two refreshes overlapped.
THEOREM FreshWithinTtlAlways ==
    ASSUME LiveAssumption
    PROVE  Live!Spec => []Live!FreshWithinTtl
<1>1. Live!Init => LiveInv
  BY LiveInit
<1>2. LiveInv /\ [Live!Next]_(Live!vars) => LiveInv'
  BY LiveNext
<1>3. LiveInv => Live!FreshWithinTtl
  BY DEF LiveInv, Quiet, Row, Live!FreshWithinTtl
<1> QED BY <1>1, <1>2, <1>3, PTL DEF Live!Spec

-----------------------------------------------------------------------------
(* A walk over the live transport is an ordered walk: module Snmp           *)
(* implements OrderedWalk.                                                  *)

WalkAssumption == LiveAssumption /\ Live!TableAssumption /\ Live!CodecAssumption

Rows   == Live!Table
Wanted == Live!Wanted

\* The rows below the base are those after the first n.
Placed(n) ==
    /\ n + Len(Wanted) <= Len(Rows)
    /\ Wanted = SubSeq(Rows, n + 1, n + Len(Wanted))
    /\ \A i \in 1..Len(Rows) : /\ Live!Precedes(Base, Rows[i]) <=> i > n
                               /\ Live!Below(Rows[i]) <=> i \in n + 1..n + Len(Wanted)
First == CHOOSE n \in 0..Len(Rows) : Placed(n)

\* A name that a walk asks from has p rows up to it: the base, or a row.
At(o, p) ==
    \/ o = Base /\ p = First
    \/ p \in 1..Len(Rows) /\ o = Rows[p]

\* What the proofs use of the table and of the bounds.
LEMMA WalkFacts ==
    ASSUME WalkAssumption
    PROVE  /\ Rows \in Seq(Live!Oids) /\ Len(Rows) \in Nat /\ Len(Wanted) \in Nat
           /\ Wanted \in Seq(Live!Oids)
           /\ First \in 0..Len(Rows) /\ First + Len(Wanted) <= Len(Rows)
           /\ \A i \in 1..Len(Wanted) : Wanted[i] = Rows[First + i]
           /\ \A i \in 1..Len(Rows) : /\ Live!Precedes(Base, Rows[i]) <=> i > First
                                      /\ Live!Below(Rows[i]) <=> i \in First + 1..First + Len(Wanted)
           /\ \A i, j \in 1..Len(Rows) : Live!Precedes(Rows[i], Rows[j]) <=> i < j
           /\ \A o \in Live!Oids : \E i \in 1..Len(Rows) : o = Rows[i]
           /\ Base \notin Live!Oids /\ Absent \notin Live!Oids /\ Stranger # Community
           /\ MaxRepetitions \in Nat \ {0} /\ MaxWalks \in Nat /\ MaxTries \in Nat
           /\ LastId \in Nat
<1>1. /\ Rows \in Seq(Live!Oids) /\ Live!ToSet(Rows) = Live!Oids /\ Base \notin Live!Oids
      /\ \A i, j \in 1..Len(Rows) : Live!Precedes(Rows[i], Rows[j]) <=> i < j
  BY DEF WalkAssumption, Live!TableAssumption, Rows
<1>2. \E n \in 0..Len(Rows) : Placed(n)
  BY Zenon DEF WalkAssumption, Live!TableAssumption, Rows, Wanted, Placed
<1>3. First \in 0..Len(Rows) /\ Placed(First)
  BY Zenon, <1>2 DEF First
<1>4. Len(Rows) \in Nat
  BY <1>1
<1>5. Wanted \in Seq(Live!Oids) /\ Len(Wanted) \in Nat
  BY DEF WalkAssumption, Live!TableAssumption, Wanted
<1>6. \A i \in 1..Len(Wanted) : Wanted[i] = Rows[First + i]
  <2> DEFINE n == Len(Wanted)
  <2>1. Wanted = SubSeq(Rows, First + 1, First + n) /\ First + n <= Len(Rows) /\ n \in Nat
    BY <1>3, <1>5 DEF Placed
  <2> HIDE DEF n
  <2>2. \A i \in 1..n : SubSeq(Rows, First + 1, First + n)[i] = Rows[First + i]
    BY <1>1, <1>3, <2>1
  <2> QED BY <2>1, <2>2 DEF n
<1>7. \A o \in Live!Oids : \E i \in 1..Len(Rows) : o = Rows[i]
  BY <1>1 DEF Live!ToSet
<1>8. /\ Absent \notin Live!Oids /\ Stranger # Community
      /\ MaxRepetitions \in Nat \ {0} /\ MaxWalks \in Nat /\ MaxTries \in Nat /\ LastId \in Nat
  BY DEF WalkAssumption, LiveAssumption, Live!SnmpAssumption
<1>9. /\ First + Len(Wanted) <= Len(Rows)
      /\ \A i \in 1..Len(Rows) : /\ Live!Precedes(Base, Rows[i]) <=> i > First
                                 /\ Live!Below(Rows[i]) <=> i \in First + 1..First + Len(Wanted)
  BY Zenon, <1>3 DEF Placed
<1> QED BY <1>1, <1>3, <1>4, <1>5, <1>6, <1>7, <1>8, <1>9

\* As many rows are in the first k as their number says.
LEMMA RowsCounted ==
    ASSUME WalkAssumption, NEW k \in 0..Len(Rows)
    PROVE  Live!Cardinality({Rows[j] : j \in 1..k}) = k
<1> DEFINE S == {Rows[j] : j \in 1..k}
           f == [j \in 1..k |-> Rows[j]]
<1>1. k \in Nat /\ Rows \in Seq(Live!Oids)
  BY WalkFacts
<1>2. \A i, j \in 1..k : Rows[i] = Rows[j] => i = j
  <2> SUFFICES ASSUME NEW i \in 1..k, NEW j \in 1..k, Rows[i] = Rows[j] PROVE i = j
    OBVIOUS
  <2>1. i \in 1..Len(Rows) /\ j \in 1..Len(Rows)
    BY <1>1
  <2>2. ~(i < j) /\ ~(j < i)
    <3>1. /\ Live!Precedes(Rows[i], Rows[i]) <=> i < i
          /\ Live!Precedes(Rows[i], Rows[j]) <=> i < j
          /\ Live!Precedes(Rows[j], Rows[i]) <=> j < i
      BY <2>1, WalkFacts
    <3> QED BY <2>1, <3>1
  <2> QED BY <2>1, <2>2
<1>3. f \in Bijection(1..k, S)
  BY <1>2 DEF Bijection, Injection, Surjection, IsInjective
<1>4. ExistsBijection(1..k, S)
  BY <1>3 DEF ExistsBijection
<1>5. Cardinality(S) = k
  BY <1>1, <1>4, FS_CountingElements
<1>6. Live!Cardinality(S) = Cardinality(S)
  BY DEF Live!Cardinality, Cardinality
<1> QED BY <1>5, <1>6

\* bisect_right finds the row that follows.
LEMMA AfterAt ==
    ASSUME WalkAssumption, NEW o, NEW p, At(o, p)
    PROVE  p \in 0..Len(Rows) /\ Live!AfterIn(o) = p + 1
<1>1. p \in 0..Len(Rows)
  BY WalkFacts DEF At
<1>2. \A j \in 1..Len(Rows) : Live!Precedes(o, Rows[j]) <=> j > p
  <2>1. CASE o = Base /\ p = First
    BY <2>1, WalkFacts
  <2>2. CASE p \in 1..Len(Rows) /\ o = Rows[p]
    BY <2>2, WalkFacts
  <2> QED BY <2>1, <2>2 DEF At
<1>3. {x \in Live!Oids : ~Live!Precedes(o, x)} = {Rows[j] : j \in 1..p}
  <2>1. ASSUME NEW x \in Live!Oids, ~Live!Precedes(o, x) PROVE \E j \in 1..p : x = Rows[j]
    <3>1. PICK j \in 1..Len(Rows) : x = Rows[j]
      BY WalkFacts
    <3>2. j \in 1..p
      BY <1>1, <1>2, <2>1, <3>1, WalkFacts
    <3> QED BY <3>1, <3>2
  <2>2. ASSUME NEW j \in 1..p PROVE Rows[j] \in Live!Oids /\ ~Live!Precedes(o, Rows[j])
    <3>1. j \in 1..Len(Rows) /\ ~(j > p)
      <4>1. Len(Rows) \in Nat
        BY WalkFacts
      <4> QED BY <1>1, <4>1
    <3> QED BY <1>2, <3>1, WalkFacts
  <2> QED BY <2>1, <2>2
<1> QED BY <1>1, <1>3, RowsCounted DEF Live!AfterIn

\* A binding; a name that can be asked for stands somewhere.
Vb == [oid : Live!Oids \cup {Base, Absent}, val : Int]

LEMMA Somewhere ==
    ASSUME WalkAssumption, NEW o \in Live!Oids \cup {Base}
    PROVE  \E p \in 0..Len(Rows) : At(o, p)
<1>1. Len(Rows) \in Nat
  BY WalkFacts
<1>2. CASE o = Base
  BY <1>2, WalkFacts DEF At
<1>3. CASE o \in Live!Oids
  <2>1. PICK i \in 1..Len(Rows) : o = Rows[i]
    BY <1>3, WalkFacts
  <2>2. i \in 0..Len(Rows) /\ At(o, i)
    BY <1>1, <2>1 DEF At
  <2> QED BY <2>2
<1> QED BY <1>2, <1>3

\* What is asked for: all names with GET, else the one to go on from.
Shape(mode, ask) ==
    IF mode = Live!T_GET THEN ask = Append(Wanted, Absent)
    ELSE \E o \in Live!Oids \cup {Base} : ask = <<o>>

\* The rows after the first p, and the end of the table after the last.
Chain(p, out) ==
    \A k \in 1..Len(out) :
        IF p + k <= Len(Rows) THEN out[k].oid = Rows[p + k] /\ out[k].val \in Nat
        ELSE out[k].val = Live!EndOfView

\* The values of the names themselves.
Values(ask, out) ==
    /\ Len(out) <= Len(ask)
    /\ \A i \in 1..Len(out) :
          /\ out[i].oid = ask[i]
          /\ IF ask[i] \in Live!Oids THEN out[i].val \in Nat ELSE out[i].val = Live!NoSuch

Answer(mode, ask, out) ==
    /\ out \in Seq(Vb)
    /\ IF mode = Live!T_GET THEN Values(ask, out) /\ Len(out) = Len(ask)
       ELSE Len(out) >= 1 /\ \E p \in 0..Len(Rows) : At(ask[1], p) /\ Chain(p, out)

\* The request that the poller waits for an answer to.
Current(rid) == walk.status = "walking" /\ rid = walk.rid

RequestOK(m) ==
    /\ m \in Live!Datagrams /\ Shape(m.mode, m.ask) /\ m.rid \in Nat /\ m.rid <= walk.rid
    /\ Current(m.rid) => m.mode = walk.mode /\ m.ask = walk.ask

ReplyOK(m) ==
    /\ m.rid \in Nat /\ m.rid <= walk.rid
    /\ Current(m.rid) => Answer(walk.mode, walk.ask, m.out)

\* What a worker has bound so far of its request.
Asking(req) ==
    /\ req.tag \in {Live!T_GET, Live!T_GETNEXT, Live!T_GETBULK}
    /\ req.n1 = 0 /\ req.n2 = IF req.tag = Live!T_GETBULK THEN MaxRepetitions ELSE 0
    /\ Shape(req.tag, req.oids)
    /\ req.rid \in Nat /\ req.rid <= walk.rid
    /\ Current(req.rid) => req.tag = walk.mode /\ req.oids = walk.ask

Bound(w) ==
    LET j == task[w] IN
    /\ j.out \in Seq(Vb)
    /\ IF j.req.tag = Live!T_GET
       THEN Values(j.req.oids, j.out) /\ j.reps = 0 /\ j.index = Len(j.out) + 1
       ELSE \E p \in 0..Len(Rows) :
               /\ At(j.req.oids[1], p) /\ Chain(p, j.out)
               /\ \/ /\ j.index = 1 /\ j.reps = Len(j.out)
                     /\ j.reps > 0 => At(j.cur, p + j.reps)
                  \/ j.index = 2 /\ j.reps = 0 /\ Len(j.out) >= 1

JobOK(w) ==
    at[w] # "idle" => task[w].req = Live!BERError \/ (Asking(task[w].req) /\ Bound(w))

\* The poller has the first rows of those it wants, and asks for the next; it has
\* an id left for each.
Budget == LastId + asked * (Len(Wanted) + 1)
WalkOK ==
    /\ asked \in Nat /\ asked <= MaxWalks
    /\ walk \in [mode : {walk.mode}, community : {Community, Stranger}, rid : Nat,
                 ask : {walk.ask}, got : Seq(Vb), tries : 0..MaxTries,
                 status : {"idle", "walking", "done", "failed"}]
    /\ Len(walk.got) <= Len(Wanted) /\ LastId <= walk.rid /\ walk.rid <= Budget
    /\ \A i \in 1..Len(walk.got) : walk.got[i].oid = Wanted[i]
    /\ walk.status = "walking" =>
          /\ walk.mode \in Modes /\ walk.rid > LastId
          /\ walk.rid + (Len(Wanted) - Len(walk.got)) <= Budget
          /\ Shape(walk.mode, walk.ask)
          /\ IF walk.mode = Live!T_GET THEN walk.got = <<>>
             ELSE At(walk.ask[1], First + Len(walk.got))

OrderInv ==
    /\ LiveInv /\ WalkOK
    /\ \A m \in requests : RequestOK(m)
    /\ \A m \in replies : ReplyOK(m)
    /\ \A w \in Workers : JobOK(w)

\* The kinds of request are different.
LEMMA Kinds ==
    /\ Live!T_GET # Live!T_GETNEXT /\ Live!T_GET # Live!T_GETBULK /\ Live!T_GETNEXT # Live!T_GETBULK
    /\ Live!EndOfView = -1 /\ Live!NoSuch = -2
    /\ \A req : req.tag \in {Live!T_GET, Live!T_GETNEXT, Live!T_GETBULK} => req # Live!BERError
<1>1. Live!BERError.tag = -1
  BY DEF Live!BERError
<1> QED BY <1>1 DEF Live!T_GET, Live!T_GETNEXT, Live!T_GETBULK, Live!EndOfView, Live!NoSuch

\* One more name of a GET has its value.
LEMMA GetBound ==
    ASSUME WalkAssumption, NEW ask, ask = Append(Wanted, Absent), NEW out \in Seq(Vb),
           NEW values \in [Live!Oids -> Nat], Values(ask, out), Len(out) < Len(ask)
    PROVE  LET vb == Live!Get(values, ask[Len(out) + 1])
           IN  vb \in Vb /\ Values(ask, Append(out, vb))
<1> DEFINE n  == Len(out)
           o  == ask[n + 1]
           vb == Live!Get(values, o)
<1>1. /\ n \in Nat /\ ask \in Seq(Live!Oids \cup {Absent}) /\ n + 1 \in 1..Len(ask)
      /\ o \in Live!Oids \cup {Absent}
  <2>1. ask \in Seq(Live!Oids \cup {Absent})
    <3>1. Wanted \in Seq(Live!Oids \cup {Absent})
      BY WalkFacts
    <3> QED BY <3>1
  <2>2. n \in Nat /\ n + 1 \in 1..Len(ask)
    BY <2>1
  <2> QED BY <2>1, <2>2
<1>2. /\ vb = [oid |-> o, val |-> IF o \in Live!Oids THEN values[o] ELSE Live!NoSuch]
      /\ vb \in Vb
  BY <1>1, Kinds DEF Live!Get, Vb
<1>3. /\ vb.oid = o
      /\ IF o \in Live!Oids THEN vb.val \in Nat ELSE vb.val = Live!NoSuch
  BY <1>1, <1>2
<1> HIDE DEF o, vb
<1>4. /\ Len(Append(out, vb)) = n + 1 /\ Append(out, vb)[n + 1] = vb
      /\ \A i \in 1..n : Append(out, vb)[i] = out[i]
  BY <1>2
<1>5. \A i \in 1..n + 1 : i \in 1..n \/ i = n + 1
  BY <1>1
<1>6. Values(ask, Append(out, vb))
  BY <1>1, <1>3, <1>4, <1>5 DEF Values, o
<1> QED BY <1>2, <1>6 DEF vb, o

\* One more row after a name follows the ones before.
LEMMA NextBound ==
    ASSUME WalkAssumption, NEW p \in 0..Len(Rows), NEW out \in Seq(Vb),
           NEW values \in [Live!Oids -> Nat], Chain(p, out), NEW o, At(o, p + Len(out))
    PROVE  LET vb == Live!NextVb(values, o)
           IN  /\ vb \in Vb /\ Chain(p, Append(out, vb))
               /\ vb.val = Live!EndOfView \/ At(vb.oid, p + Len(out) + 1)
<1> DEFINE n  == Len(out)
           q  == p + n
           vb == Live!NextVb(values, o)
<1>1. /\ n \in Nat /\ Len(Rows) \in Nat /\ Rows \in Seq(Live!Oids)
      /\ q \in 0..Len(Rows) /\ Live!AfterIn(o) = q + 1
  <2>1. At(o, q)
    OBVIOUS
  <2> HIDE DEF q
  <2>2. q \in 0..Len(Rows) /\ Live!AfterIn(o) = q + 1
    BY Zenon, <2>1, AfterAt
  <2> QED BY <2>2, WalkFacts
<1>2. o \in Live!Oids \cup {Base}
  BY <1>1 DEF At
<1>3. q = p + n /\ q \in Nat
  BY <1>1
<1> HIDE DEF n, q, vb
<1>4. /\ vb \in Vb
      /\ IF q + 1 <= Len(Rows) THEN vb.oid = Rows[q + 1] /\ vb.val \in Nat
         ELSE vb.val = Live!EndOfView
      /\ vb.val = Live!EndOfView \/ At(vb.oid, q + 1)
  <2>1. CASE q + 1 > Len(Rows)
    <3>1. vb = [oid |-> o, val |-> Live!EndOfView]
      BY <1>1, <2>1 DEF Live!NextVb, Rows, vb
    <3> QED BY <1>1, <1>2, <2>1, <3>1, Kinds DEF Vb
  <2>2. CASE q + 1 <= Len(Rows)
    <3>1. vb = [oid |-> Rows[q + 1], val |-> values[Rows[q + 1]]]
      BY <1>1, <2>2 DEF Live!NextVb, Rows, vb
    <3>2. q + 1 \in 1..Len(Rows) /\ Rows[q + 1] \in Live!Oids
      BY <1>1, <1>3, <2>2
    <3> QED BY <1>1, <2>2, <3>1, <3>2 DEF Vb, At
  <2> QED BY <1>1, <2>1, <2>2
<1>5. /\ Len(Append(out, vb)) = n + 1 /\ Append(out, vb)[n + 1] = vb
      /\ \A k \in 1..n : Append(out, vb)[k] = out[k]
  BY <1>4 DEF n
<1>6. Chain(p, Append(out, vb))
  <2>1. ASSUME NEW k \in 1..n
        PROVE  IF p + k <= Len(Rows) THEN out[k].oid = Rows[p + k] /\ out[k].val \in Nat
               ELSE out[k].val = Live!EndOfView
    BY DEF Chain, n
  <2>2. p + (n + 1) = q + 1
    BY <1>1, <1>3
  <2>3. \A k \in 1..n + 1 : k \in 1..n \/ k = n + 1
    BY <1>1
  <2> QED BY <1>4, <1>5, <2>1, <2>2, <2>3 DEF Chain
<1> QED BY <1>3, <1>4, <1>6 DEF vb, n

\* What a worker has bound holds as long as the poller stays or goes on.
GoesOn ==
    /\ walk.rid \in Nat /\ walk'.rid \in Nat /\ walk.rid <= walk'.rid
    /\ walk'.status = "walking" /\ walk'.rid <= walk.rid =>
          walk.status = "walking" /\ walk'.mode = walk.mode /\ walk'.ask = walk.ask

LEMMA Stays ==
    ASSUME NEW v \in Workers, JobOK(v), GoesOn, at'[v] = "idle" \/ at[v] # "idle",
           task'[v].req = task[v].req, task'[v].index = task[v].index, task'[v].cur = task[v].cur,
           task'[v].reps = task[v].reps, task'[v].out = task[v].out
    PROVE  JobOK(v)'
<1>1. CASE at'[v] = "idle"
  BY <1>1 DEF JobOK
<1>2. CASE task[v].req = Live!BERError
  BY <1>2 DEF JobOK
<1>3. CASE at[v] # "idle" /\ task[v].req # Live!BERError
  <2>1. Asking(task[v].req) /\ Bound(v)
    BY <1>3 DEF JobOK
  <2>2. Bound(v)'
    BY <2>1 DEF Bound
  <2> DEFINE q == task[v].req
  <2>3. Asking(q)'
    <3>1. task'[v].req = q
      OBVIOUS
    <3>2. q.rid \in Nat /\ q.rid <= walk.rid
      BY <2>1 DEF Asking
    <3>3. q.rid <= walk'.rid
      BY <3>2 DEF GoesOn
    <3>4. Current(q.rid)' => Current(q.rid) /\ walk'.mode = walk.mode /\ walk'.ask = walk.ask
      BY <3>1, <3>2 DEF Current, GoesOn
    <3> QED BY <2>1, <3>1, <3>3, <3>4 DEF Asking
  <2> QED BY <2>2, <2>3 DEF JobOK
<1> QED BY <1>1, <1>2, <1>3

\* So do the datagrams.
LEMMA SentStays ==
    ASSUME GoesOn
    PROVE  /\ \A m \in requests : RequestOK(m) => RequestOK(m)'
           /\ \A m \in replies : ReplyOK(m) => ReplyOK(m)'
<1>1. ASSUME NEW m \in requests, RequestOK(m) PROVE RequestOK(m)'
  <2>1. m.rid \in Nat /\ m.rid <= walk.rid
    BY <1>1 DEF RequestOK, Live!Datagrams
  <2>2. m.rid <= walk'.rid
    BY <2>1 DEF GoesOn
  <2>3. Current(m.rid)' => Current(m.rid) /\ walk'.mode = walk.mode /\ walk'.ask = walk.ask
    BY <2>1 DEF Current, GoesOn
  <2> QED BY <1>1, <2>2, <2>3 DEF RequestOK
<1>2. ASSUME NEW m \in replies, ReplyOK(m) PROVE ReplyOK(m)'
  <2>1. m.rid \in Nat /\ m.rid <= walk.rid
    BY <1>2 DEF ReplyOK
  <2>2. m.rid <= walk'.rid
    BY <2>1 DEF GoesOn
  <2>3. Current(m.rid)' => Current(m.rid) /\ walk'.mode = walk.mode /\ walk'.ask = walk.ask
    BY <2>1 DEF Current, GoesOn
  <2> QED BY <1>2, <2>1, <2>2, <2>3 DEF ReplyOK
<1> QED BY <1>1, <1>2

\* A step of one worker.
LEMMA OneJob ==
    ASSUME OrderInv, LiveInv', NEW w \in Workers, UNCHANGED <<walk, asked>>, requests' \subseteq requests,
           \A v \in Workers : v # w => at'[v] = at[v] /\ task'[v] = task[v],
           JobOK(w)', \A m \in replies' : m \in replies \/ ReplyOK(m)
    PROVE  OrderInv'
<1>1. WalkOK' /\ GoesOn
  BY DEF OrderInv, WalkOK, GoesOn, Budget
<1>2. ASSUME NEW v \in Workers PROVE JobOK(v)'
  <2>1. CASE v = w
    BY <2>1
  <2>2. CASE v # w
    <3>1. JobOK(v) /\ at'[v] = at[v] /\ task'[v] = task[v]
      BY <2>2 DEF OrderInv
    <3> QED BY <3>1 DEF JobOK, Asking, Bound, Current
  <2> QED BY <2>1, <2>2
<1>3. \A m \in requests' : RequestOK(m)'
  BY DEF OrderInv, RequestOK, Current
<1>4. \A m \in replies' : ReplyOK(m)'
  BY DEF OrderInv, ReplyOK, Current
<1> QED BY <1>1, <1>2, <1>3, <1>4 DEF OrderInv

\* A step of the poller or of the network: what is sent is asked for now.
LEMMA PollerKeeps ==
    ASSUME OrderInv, LiveInv', UNCHANGED <<at, task>>, GoesOn, WalkOK', replies' \subseteq replies,
           \A m \in requests' : m \in requests \/ RequestOK(m)'
    PROVE  OrderInv'
<1>1. \A v \in Workers : JobOK(v)'
  BY Stays DEF OrderInv
<1>2. \A m \in requests' : RequestOK(m)'
  BY SentStays DEF OrderInv
<1>3. \A m \in replies' : ReplyOK(m)'
  BY SentStays DEF OrderInv
<1> QED BY <1>1, <1>2, <1>3 DEF OrderInv

\* Looking up and refreshing the table keep the request and what is bound of it.
LEMMA RefreshOrder ==
    ASSUME OrderInv, LiveInv', NEW w \in Workers,
           \/ Live!Lookup(w) \/ Live!Build(w) \/ Live!Install(w)
           \/ Live!Reload(w) \/ Live!Sample(w) \/ Live!Patch(w)
    PROVE  OrderInv'
<1>1. /\ LiveInv /\ DOMAIN task = Workers /\ TaskOK(w) /\ JobOK(w) /\ walk.rid \in Nat
  BY DEF OrderInv, LiveInv, EntriesOK, WalkOK
<1>2. /\ UNCHANGED <<walk, asked, requests, replies>> /\ at[w] # "idle"
      /\ \/ UNCHANGED task
         \/ \E t, entry, sampled, todo :
               task' = [task EXCEPT ![w] = [task[w] EXCEPT !.now = t, !.entry = entry,
                                                           !.seen = sampled, !.todo = todo]]
  <2>1. CASE Live!Lookup(w)
    <3>1. task' = [task EXCEPT ![w].now = clock, ![w].entry = cache]
      BY <2>1 DEF Live!Lookup
    <3>2. task' = [task EXCEPT ![w] = [task[w] EXCEPT !.now = clock, !.entry = cache,
                                         !.seen = task[w].seen, !.todo = task[w].todo]]
      BY <1>1, <3>1 DEF TaskOK, Task
    <3>3. UNCHANGED <<walk, asked, requests, replies>> /\ at[w] # "idle"
      BY <2>1 DEF Live!Lookup
    <3> QED BY <3>2, <3>3
  <2>2. CASE Live!Build(w)
    <3>1. task' = [task EXCEPT ![w].seen = clock]
      BY <2>2 DEF Live!Build
    <3>2. task' = [task EXCEPT ![w] = [task[w] EXCEPT !.now = task[w].now, !.entry = task[w].entry,
                                         !.seen = clock, !.todo = task[w].todo]]
      BY <1>1, <3>1 DEF TaskOK, Task
    <3>3. UNCHANGED <<walk, asked, requests, replies>> /\ at[w] # "idle"
      BY <2>2 DEF Live!Build
    <3> QED BY <3>2, <3>3
  <2>3. CASE Live!Install(w)
    BY <2>3 DEF Live!Install
  <2>4. CASE Live!Reload(w)
    <3>1. task' = [task EXCEPT ![w].entry = cache]
      BY <2>4 DEF Live!Reload
    <3>2. task' = [task EXCEPT ![w] = [task[w] EXCEPT !.now = task[w].now, !.entry = cache,
                                         !.seen = task[w].seen, !.todo = task[w].todo]]
      BY <1>1, <3>1 DEF TaskOK, Task
    <3>3. UNCHANGED <<walk, asked, requests, replies>> /\ at[w] # "idle"
      BY <2>4 DEF Live!Reload
    <3> QED BY <3>2, <3>3
  <2>5. CASE Live!Sample(w)
    <3>1. task' = [task EXCEPT ![w].seen = clock, ![w].todo = Live!Sorted(Changing)]
      BY <2>5 DEF Live!Sample
    <3>2. task' = [task EXCEPT ![w] = [task[w] EXCEPT !.now = task[w].now, !.entry = task[w].entry,
                                         !.seen = clock, !.todo = Live!Sorted(Changing)]]
      BY <1>1, <3>1 DEF TaskOK, Task
    <3>3. UNCHANGED <<walk, asked, requests, replies>> /\ at[w] # "idle"
      BY <2>5 DEF Live!Sample
    <3> QED BY <3>2, <3>3
  <2>6. CASE Live!Patch(w)
    <3>1. UNCHANGED <<walk, asked, requests, replies>> /\ at[w] # "idle"
      BY <2>6 DEF Live!Patch
    <3>2. CASE UNCHANGED task
      BY <3>1, <3>2
    <3>3. CASE task' = [task EXCEPT ![w].todo = Tail(@)]
      <4>1. task' = [task EXCEPT ![w] = [task[w] EXCEPT !.now = task[w].now, !.entry = task[w].entry,
                                           !.seen = task[w].seen, !.todo = Tail(task[w].todo)]]
        BY <1>1, <3>3 DEF TaskOK, Task
      <4> QED BY <3>1, <4>1
    <3> QED BY <2>6, <3>2, <3>3 DEF Live!Patch
  <2> QED BY <2>1, <2>2, <2>3, <2>4, <2>5, <2>6
<1>3. /\ task'[w].req = task[w].req /\ task'[w].index = task[w].index /\ task'[w].cur = task[w].cur
      /\ task'[w].reps = task[w].reps /\ task'[w].out = task[w].out
      /\ \A v \in Workers : v # w => task'[v] = task[v]
  BY <1>1, <1>2 DEF TaskOK, Task
<1>4. \A v \in Workers : v # w => at'[v] = at[v]
  <2>1. ASSUME NEW label, Live!Goto(w, label) PROVE \A v \in Workers : v # w => at'[v] = at[v]
    BY <1>1, <2>1, Gone
  <2>2. CASE Live!Lookup(w)
    BY Zenon, <2>1, <2>2 DEF Live!Lookup
  <2>3. CASE Live!Build(w) \/ Live!Install(w) \/ Live!Reload(w) \/ Live!Sample(w)
    BY Zenon, <2>1, <2>3 DEF Live!Build, Live!Install, Live!Reload, Live!Sample
  <2>4. CASE Live!Patch(w)
    BY <2>1, <2>4 DEF Live!Patch
  <2> QED BY <2>2, <2>3, <2>4
<1>5. GoesOn
  <2>1. walk' = walk
    BY <1>2
  <2> QED BY <1>1, <2>1 DEF GoesOn
<1>6. JobOK(w)'
  BY <1>1, <1>2, <1>3, <1>5, Stays
<1> QED BY <1>2, <1>3, <1>4, <1>6, OneJob

\* A request taken is what the decoder makes of a datagram in flight.
LEMMA RecvOrder ==
    ASSUME WalkAssumption, OrderInv, LiveInv', NEW w \in Workers, Live!Recv(w)
    PROVE  OrderInv'
<1>1. /\ LiveInv /\ DOMAIN task = Workers /\ JobOK(w) /\ at[w] = "idle"
      /\ UNCHANGED <<walk, asked, replies>>
  BY DEF OrderInv, LiveInv, EntriesOK, Live!Recv
<1>2. PICK m \in requests :
         /\ requests' = requests \ {m}
         /\ IF Live!PeekCommunity(Live!OnWire(m)) = Community
            THEN /\ Live!Goto(w, "lookup")
                 /\ task' = [task EXCEPT ![w] = [Live!NoJob EXCEPT !.req = Live!Request(Live!OnWire(m))]]
            ELSE UNCHANGED <<at, task>>
  BY DEF Live!Recv
<1>3. CASE UNCHANGED <<at, task>>
  <2>1. JobOK(w)'
    BY <1>1, <1>3 DEF JobOK
  <2> QED BY <1>1, <1>2, <1>3, <2>1, OneJob
<1>4. CASE /\ Live!Goto(w, "lookup")
           /\ task' = [task EXCEPT ![w] = [Live!NoJob EXCEPT !.req = Live!Request(Live!OnWire(m))]]
  <2> DEFINE req == Live!Request(Live!OnWire(m))
  <2>1. /\ m \in Live!Datagrams /\ Shape(m.mode, m.ask) /\ m.rid <= walk.rid /\ m.rid \in Nat
        /\ Current(m.rid) => m.mode = walk.mode /\ m.ask = walk.ask
    BY DEF OrderInv, RequestOK, Live!Datagrams
  <2>2. req = IF m.mode \in {Live!T_GET, Live!T_GETNEXT, Live!T_GETBULK}
              THEN [tag |-> m.mode, rid |-> m.rid, community |-> m.community, n1 |-> 0,
                    n2 |-> IF m.mode = Live!T_GETBULK THEN MaxRepetitions ELSE 0, oids |-> m.ask]
              ELSE Live!BERError
    BY <2>1 DEF WalkAssumption, Live!CodecAssumption
  <2> HIDE DEF req
  <2>3. /\ task'[w] = [now |-> 0, entry |-> 0, seen |-> 0, todo |-> <<>>, req |-> req,
                       index |-> 1, cur |-> <<>>, reps |-> 0, out |-> <<>>]
        /\ \A v \in Workers : v # w => task'[v] = task[v]
    BY <1>1, <1>4, LiveNoJob DEF req
  <2>4. \A v \in Workers : v # w => at'[v] = at[v]
    BY <1>1, <1>4, Gone
  <2>5. CASE m.mode \notin {Live!T_GET, Live!T_GETNEXT, Live!T_GETBULK}
    <3>1. JobOK(w)'
      BY <2>2, <2>3, <2>5 DEF JobOK
    <3> QED BY <1>1, <1>2, <2>3, <2>4, <3>1, OneJob
  <2>6. CASE m.mode \in {Live!T_GET, Live!T_GETNEXT, Live!T_GETBULK}
    <3>1. Asking(req)'
      BY <1>1, <2>1, <2>2, <2>6 DEF Asking, Current
    <3>2. Bound(w)'
      <4>1. task'[w].out = <<>> /\ task'[w].out \in Seq(Vb) /\ Len(task'[w].out) = 0
        BY <2>3
      <4>2. CASE m.mode = Live!T_GET
        <5>1. m.ask = Append(Wanted, Absent)
          BY <2>1, <4>2 DEF Shape
        <5>2. 0 <= Len(m.ask)
          <6>1. Wanted \in Seq(Live!Oids \cup {Absent})
            BY WalkFacts
          <6> QED BY <5>1, <6>1
        <5> QED BY <2>2, <2>3, <2>6, <4>1, <4>2, <5>2 DEF Bound, Values
      <4>3. CASE m.mode # Live!T_GET
        <5>1. PICK o \in Live!Oids \cup {Base} : m.ask = <<o>>
          BY <2>1, <4>3 DEF Shape
        <5>2. PICK p \in 0..Len(Rows) : At(o, p)
          BY Somewhere
        <5>3. At(req.oids[1], p) /\ Chain(p, task'[w].out)
          BY <2>2, <2>6, <4>1, <5>1, <5>2 DEF Chain
        <5> QED BY <2>2, <2>3, <2>6, <4>1, <4>3, <5>3 DEF Bound
      <4> QED BY <4>2, <4>3
    <3>3. JobOK(w)'
      BY <2>3, <3>1, <3>2 DEF JobOK
    <3> QED BY <1>1, <1>2, <2>3, <2>4, <3>3, OneJob
  <2> QED BY <2>5, <2>6
<1> QED BY <1>2, <1>3, <1>4

\* A name is bound as what has been bound of its request goes on.
LEMMA BindOrder ==
    ASSUME WalkAssumption, OrderInv, LiveInv', NEW w \in Workers, Live!Bind(w)
    PROVE  OrderInv'
<1> DEFINE j     == task[w]
           table == entries[j.entry].value
           name  == IF j.reps = 0 THEN j.req.oids[j.index] ELSE j.cur
           vb    == IF j.req.tag = Live!T_GET THEN Live!Get(table, name) ELSE Live!NextVb(table, name)
           times == Live!Repetitions(j.req, j.index)
           last  == \/ j.reps + 1 >= times
                    \/ j.req.tag = Live!T_GETBULK /\ vb.val = Live!EndOfView
           out   == IF times = 0 THEN j.out ELSE Append(j.out, vb)
           index == IF last THEN j.index + 1 ELSE j.index
           reps  == IF last THEN 0 ELSE j.reps + 1
<1>1. /\ at[w] = "answer" /\ j.req # Live!BERError /\ j.index <= Len(j.req.oids)
      /\ UNCHANGED <<at, walk, asked, requests, replies>>
      /\ task' = [task EXCEPT ![w] = [task[w] EXCEPT
                    !.out = out, !.cur = vb.oid, !.index = index, !.reps = reps]]
  BY DEF Live!Bind
<1>2. /\ DOMAIN task = Workers /\ TaskOK(w) /\ Asking(j.req) /\ Bound(w)
      /\ j.entry \in DOMAIN entries /\ entries \in Seq(Entry)
  BY <1>1 DEF OrderInv, LiveInv, EntriesOK, JobOK, TaskOK
<1>3. table \in [Live!Oids -> Nat]
  <2>1. entries[j.entry] \in Entry
    BY <1>2
  <2> QED BY <2>1 DEF Entry
<1>4. /\ j.req.tag \in {Live!T_GET, Live!T_GETNEXT, Live!T_GETBULK} /\ j.req.n1 = 0
      /\ j.req.n2 = IF j.req.tag = Live!T_GETBULK THEN MaxRepetitions ELSE 0
      /\ Shape(j.req.tag, j.req.oids) /\ j.out \in Seq(Vb)
  BY <1>2 DEF Asking, Bound
<1> HIDE DEF table, name, vb, times, last, out, index, reps
<1>5. /\ task'[w].req = j.req /\ task'[w].out = out /\ task'[w].cur = vb.oid
      /\ task'[w].index = index /\ task'[w].reps = reps
      /\ \A v \in Workers : v # w => task'[v] = task[v]
  BY <1>1, <1>2 DEF TaskOK, Task
<1>6. Bound(w)'
  <2>1. CASE j.req.tag = Live!T_GET
    <3>1. /\ Values(j.req.oids, j.out) /\ j.reps = 0 /\ j.index = Len(j.out) + 1
          /\ j.req.oids = Append(Wanted, Absent)
      BY <1>2, <1>4, <2>1 DEF Bound, Shape
    <3>2. times = 1
      BY <2>1, Kinds DEF times, Live!Repetitions
    <3>3. last
      BY <3>1, <3>2 DEF last
    <3>4. /\ name = j.req.oids[Len(j.out) + 1] /\ vb = Live!Get(table, name)
          /\ Len(j.out) < Len(j.req.oids)
      <4>1. Len(j.out) \in Nat /\ Len(j.req.oids) \in Nat
        <5>1. Wanted \in Seq(Live!Oids \cup {Absent})
          BY WalkFacts
        <5> QED BY <1>4, <3>1, <5>1
      <4> QED BY <1>1, <2>1, <3>1, <4>1 DEF name, vb
    <3>5. vb \in Vb /\ Values(j.req.oids, Append(j.out, vb))
      BY <1>3, <1>4, <3>1, <3>4, GetBound
    <3>6. out = Append(j.out, vb) /\ index = j.index + 1 /\ reps = 0
      BY <3>2, <3>3 DEF out, index, reps
    <3>7. out \in Seq(Vb) /\ Len(out) = Len(j.out) + 1
      BY <1>4, <3>5, <3>6
    <3> QED BY <1>5, <2>1, <3>1, <3>5, <3>6, <3>7 DEF Bound
  <2>2. CASE j.req.tag # Live!T_GET
    <3>1. PICK p \in 0..Len(Rows) :
             /\ At(j.req.oids[1], p) /\ Chain(p, j.out)
             /\ \/ /\ j.index = 1 /\ j.reps = Len(j.out)
                   /\ j.reps > 0 => At(j.cur, p + j.reps)
                \/ j.index = 2 /\ j.reps = 0 /\ Len(j.out) >= 1
      BY <1>2, <2>2 DEF Bound
    <3>2. PICK o \in Live!Oids \cup {Base} : j.req.oids = <<o>>
      BY <1>4, <2>2 DEF Shape
    <3>3. /\ j.index = 1 /\ j.reps = Len(j.out) /\ j.reps \in Nat
          /\ j.reps > 0 => At(j.cur, p + j.reps)
      BY <1>1, <1>4, <3>1, <3>2
    <3>4. At(name, p + Len(j.out))
      <4>1. CASE j.reps = 0
        <5>1. name = j.req.oids[1] /\ p + Len(j.out) = p
          BY <3>3, <4>1 DEF name
        <5> QED BY Zenon, <3>1, <5>1
      <4>2. CASE j.reps > 0
        BY <3>3, <4>2 DEF name
      <4> QED BY <3>3, <4>1, <4>2
    <3>5. /\ vb \in Vb /\ Chain(p, Append(j.out, vb))
          /\ vb.val = Live!EndOfView \/ At(vb.oid, p + Len(j.out) + 1)
      <4>1. vb = Live!NextVb(table, name)
        BY <2>2 DEF vb
      <4> QED BY <1>3, <1>4, <3>1, <3>4, <4>1, NextBound
    <3>6. times \in Nat /\ times >= 1 /\ (j.req.tag # Live!T_GETBULK => times = 1)
      <4>1. MaxRepetitions \in Nat /\ MaxRepetitions > 0
        BY WalkFacts
      <4>2. CASE j.req.tag # Live!T_GETBULK
        BY <4>2 DEF times, Live!Repetitions
      <4>3. CASE j.req.tag = Live!T_GETBULK
        <5>1. j.req.n1 = 0 /\ j.req.n2 = MaxRepetitions /\ j.index = 1
          BY <1>4, <3>3, <4>3
        <5>2. times = IF j.req.n2 > 0 THEN j.req.n2 ELSE 0
          BY <4>3, <5>1 DEF times, Live!Repetitions
        <5> QED BY <4>1, <4>3, <5>1, <5>2
      <4> QED BY <4>2, <4>3
    <3>7. out = Append(j.out, vb) /\ out \in Seq(Vb) /\ Len(out) = Len(j.out) + 1
      <4>1. out = Append(j.out, vb)
        BY <3>6 DEF out
      <4> QED BY <1>4, <3>5, <4>1
    <3>8. CASE last
      <4>1. index = 2 /\ reps = 0 /\ Len(out) >= 1
        BY <3>3, <3>7, <3>8 DEF index, reps
      <4> QED BY <1>5, <2>2, <3>1, <3>5, <3>7, <4>1 DEF Bound
    <3>9. CASE ~last
      <4>1. index = 1 /\ reps = Len(out) /\ vb.val # Live!EndOfView
        BY <1>4, <3>3, <3>6, <3>7, <3>9 DEF index, reps, last
      <4>2. At(vb.oid, p + reps)
        <5>1. At(vb.oid, p + Len(j.out) + 1)
          BY <3>5, <4>1
        <5>2. p + Len(j.out) + 1 = p + reps
          BY <1>4, <3>7, <4>1
        <5> QED BY Zenon, <5>1, <5>2
      <4> QED BY <1>5, <2>2, <3>1, <3>5, <3>7, <4>1, <4>2 DEF Bound
    <3> QED BY <3>8, <3>9
  <2> QED BY <2>1, <2>2
<1>7. JobOK(w)'
  <2>1. Asking(j.req)'
    BY <1>1, <1>2, <1>5 DEF Asking, Current
  <2> QED BY <1>5, <1>6, <2>1 DEF JobOK
<1> QED BY <1>1, <1>5, <1>7, OneJob

\* An answer is sent when all its names are bound; a message that is refused has
\* none.
LEMMA SendOrder ==
    ASSUME WalkAssumption, OrderInv, LiveInv', NEW w \in Workers, Live!Send(w) \/ Live!Drop(w)
    PROVE  OrderInv'
<1>1. /\ LiveInv /\ DOMAIN task = Workers /\ at[w] = "answer" /\ Live!Goto(w, "idle")
      /\ task' = [task EXCEPT ![w] = Live!NoJob] /\ UNCHANGED <<walk, asked, requests>>
  BY DEF OrderInv, LiveInv, EntriesOK, Live!Send, Live!Drop
<1>2. /\ at'[w] = "idle"
      /\ \A v \in Workers : v # w => at'[v] = at[v] /\ task'[v] = task[v]
  BY <1>1, Gone
<1>3. JobOK(w)'
  BY <1>2 DEF JobOK
<1>4. CASE Live!Drop(w)
  <2>1. UNCHANGED replies
    BY <1>4 DEF Live!Drop
  <2> QED BY <1>1, <1>2, <1>3, <2>1, OneJob
<1>5. CASE Live!Send(w)
  <2> DEFINE j == task[w]
             m == [community |-> j.req.community, rid |-> j.req.rid, out |-> j.out]
  <2>1. replies' = replies \cup {m} /\ j.req # Live!BERError /\ j.index > Len(j.req.oids)
    BY <1>5 DEF Live!Send
  <2>2. Asking(j.req) /\ Bound(w)
    BY <1>1, <2>1 DEF OrderInv, JobOK
  <2>3. Answer(j.req.tag, j.req.oids, j.out)
    <3>1. CASE j.req.tag = Live!T_GET
      <4>1. /\ Values(j.req.oids, j.out) /\ j.index = Len(j.out) + 1 /\ j.out \in Seq(Vb)
            /\ j.req.oids = Append(Wanted, Absent) /\ Len(j.out) <= Len(j.req.oids)
        BY <2>2, <3>1 DEF Bound, Asking, Shape, Values
      <4>2. Len(j.out) \in Nat /\ Len(j.req.oids) \in Nat
        <5>1. Wanted \in Seq(Live!Oids \cup {Absent})
          BY WalkFacts
        <5> QED BY <4>1, <5>1
      <4>3. Len(j.out) = Len(j.req.oids)
        BY <2>1, <4>1, <4>2
      <4> QED BY <3>1, <4>1, <4>3 DEF Answer
    <3>2. CASE j.req.tag # Live!T_GET
      <4>1. PICK o : j.req.oids = <<o>>
        BY <2>2, <3>2 DEF Asking, Shape
      <4>2. j.index > 1
        BY <2>1, <4>1
      <4> QED BY <2>2, <3>2, <4>2 DEF Bound, Answer
    <3> QED BY <3>1, <3>2
  <2>4. /\ m.rid = j.req.rid /\ m.out = j.out
    OBVIOUS
  <2> HIDE DEF m
  <2>5. ReplyOK(m)
    BY <2>2, <2>3, <2>4 DEF ReplyOK, Asking
  <2> QED BY <1>1, <1>2, <1>3, <2>1, <2>5, OneJob
<1> QED BY <1>4, <1>5

\* What the poller sends is a request there can be.
LEMMA Sendable ==
    ASSUME WalkAssumption, NEW wk, NEW n \in Nat, n <= MaxWalks, wk.tries \in 0..MaxTries,
           wk.mode \in Modes, wk.community \in {Community, Stranger}, wk.rid \in Nat, wk.rid > LastId,
           wk.rid <= LastId + n * (Len(Wanted) + 1), Shape(wk.mode, wk.ask)
    PROVE  /\ Live!Datagram(wk) \in Live!Datagrams
           /\ Live!Datagram(wk).mode = wk.mode /\ Live!Datagram(wk).ask = wk.ask
           /\ Live!Datagram(wk).rid = wk.rid
<1> DEFINE L == Len(Wanted)
<1>1. MaxWalks \in Nat /\ L \in Nat /\ LastId \in Nat
  BY WalkFacts
<1>2. n * (L + 1) <= MaxWalks * (L + 1)
  <2> HIDE DEF L
  <2>1. \E k \in Nat : MaxWalks = n + k
    <3>1. MaxWalks - n \in Nat /\ MaxWalks = n + (MaxWalks - n)
      BY <1>1
    <3> QED BY <3>1
  <2>2. PICK k \in Nat : MaxWalks = n + k
    BY <2>1
  <2>3. (n + k) * (L + 1) = n * (L + 1) + k * (L + 1) /\ k * (L + 1) \in Nat /\ n * (L + 1) \in Nat
    BY <1>1
  <2> QED BY <2>2, <2>3
<1>3. wk.rid \in (LastId + 1)..(LastId + MaxWalks * (L + 1))
  <2> DEFINE a == n * (L + 1)
             b == MaxWalks * (L + 1)
  <2>1. a \in Nat /\ b \in Nat /\ a <= b /\ wk.rid <= LastId + a
    BY <1>1, <1>2
  <2> HIDE DEF a, b
  <2>2. wk.rid \in (LastId + 1)..(LastId + b)
    BY <1>1, <2>1
  <2> QED BY <2>2 DEF b
<1>4. wk.ask \in {Append(Wanted, Absent)} \cup {<<o>> : o \in Live!Oids \cup {Base}}
  BY DEF Shape
<1>5. Live!Datagram(wk) = [try |-> wk.tries, mode |-> wk.mode, community |-> wk.community,
                           rid |-> wk.rid, ask |-> wk.ask]
  BY DEF Live!Datagram
<1> QED BY <1>3, <1>4, <1>5 DEF Live!Datagrams, Wanted

\* A walk begins with nothing and asks for all there is, or from the base.
LEMMA StartOrder ==
    ASSUME WalkAssumption, OrderInv, LiveInv', Live!StartWalk
    PROVE  OrderInv'
<1>1. /\ walk.status # "walking" /\ asked < MaxWalks /\ asked' = asked + 1
      /\ UNCHANGED <<at, task, replies>> /\ requests' = requests \cup {Live!Datagram(walk')}
  BY DEF Live!StartWalk, Live!server
<1>2. PICK mode \in Modes, name \in {Community, Stranger} :
         walk' = [Live!NoWalk EXCEPT !.mode = mode, !.community = name,
                      !.rid = walk.rid + 1, !.status = "walking",
                      !.ask = IF mode = Live!T_GET THEN Append(Wanted, Absent) ELSE <<Base>>]
  BY DEF Live!StartWalk, Wanted
<1> DEFINE ask == IF mode = Live!T_GET THEN Append(Wanted, Absent) ELSE <<Base>>
<1>3. walk' = [mode |-> mode, community |-> name, rid |-> walk.rid + 1, ask |-> ask,
               got |-> <<>>, tries |-> 0, status |-> "walking"]
  BY <1>2 DEF Live!NoWalk
<1>4. WalkOK
  BY DEF OrderInv
<1>5. walk.rid \in Nat /\ asked \in Nat /\ LastId <= walk.rid /\ walk.rid <= Budget
  BY <1>4 DEF WalkOK
<1> DEFINE L == Len(Wanted)
<1>6. /\ MaxWalks \in Nat /\ MaxTries \in Nat /\ L \in Nat /\ First \in Nat /\ Len(Rows) \in Nat
      /\ LastId \in Nat
  BY WalkFacts
<1>7. Shape(mode, ask)
  BY DEF Shape
<1>8. /\ walk.rid + 1 + L <= LastId + (asked + 1) * (L + 1)
      /\ LastId + (asked + 1) * (L + 1) \in Nat
  <2>1. walk.rid <= LastId + asked * (L + 1)
    BY <1>5 DEF Budget
  <2> HIDE DEF L
  <2>2. (asked + 1) * (L + 1) = asked * (L + 1) + (L + 1) /\ asked * (L + 1) \in Nat
    BY <1>5, <1>6
  <2>3. (asked + 1) * (L + 1) \in Nat
    BY <1>5, <1>6
  <2> QED BY <1>5, <1>6, <2>1, <2>2, <2>3
<1>9. mode # Live!T_GET => At(ask[1], First + 0)
  BY <1>6 DEF At
<1>10. GoesOn
  BY <1>1, <1>3, <1>5 DEF GoesOn
<1> HIDE DEF ask
<1>11. /\ walk'.mode = mode /\ walk'.community = name /\ walk'.rid = walk.rid + 1
       /\ walk'.ask = ask /\ walk'.got = <<>> /\ walk'.tries = 0 /\ walk'.status = "walking"
  BY <1>3
<1>12. WalkOK'
  <2>1. asked' \in Nat /\ asked' <= MaxWalks
    BY <1>1, <1>5, <1>6
  <2>2. walk' \in [mode : {walk'.mode}, community : {Community, Stranger}, rid : Nat,
                   ask : {walk'.ask}, got : Seq(Vb), tries : 0..MaxTries,
                   status : {"idle", "walking", "done", "failed"}]
    <3>1. <<>> \in Seq(Vb) /\ 0 \in 0..MaxTries /\ walk.rid + 1 \in Nat
      BY <1>5, <1>6
    <3> QED BY <1>3, <3>1
  <2>3. Len(walk'.got) = 0
    BY <1>11
  <2>4. Budget' = LastId + (asked + 1) * (L + 1)
    BY <1>1 DEF Budget
  <2>5. walk'.rid > LastId /\ walk'.rid <= Budget' /\ walk'.rid + (L - 0) <= Budget'
    BY <1>5, <1>6, <1>8, <1>11, <2>4
  <2> QED BY <1>6, <1>7, <1>9, <1>11, <2>1, <2>2, <2>3, <2>5 DEF WalkOK
<1>13. ASSUME NEW m, m = Live!Datagram(walk') PROVE RequestOK(m)'
  <2>1. asked' \in Nat /\ asked' <= MaxWalks
    BY <1>1, <1>5, <1>6
  <2>2. /\ walk'.rid <= LastId + asked' * (Len(Wanted) + 1)
        /\ walk'.rid > LastId /\ walk'.rid \in Nat
    BY <1>1, <1>5, <1>6, <1>8, <1>11
  <2>3. walk'.tries \in 0..MaxTries
    BY <1>6, <1>11
  <2>4. /\ Live!Datagram(walk') \in Live!Datagrams
        /\ Live!Datagram(walk').mode = walk'.mode /\ Live!Datagram(walk').ask = walk'.ask
        /\ Live!Datagram(walk').rid = walk'.rid
    BY <1>7, <1>11, <2>1, <2>2, <2>3, Sendable
  <2> QED BY <1>7, <1>11, <1>13, <2>2, <2>4 DEF RequestOK
<1> QED BY <1>1, <1>10, <1>12, <1>13, PollerKeeps

\* A request may be sent again.
LEMMA RetryOrder ==
    ASSUME WalkAssumption, OrderInv, LiveInv', Live!Retry
    PROVE  OrderInv'
<1>1. /\ walk.status = "walking" /\ walk.tries < MaxTries /\ UNCHANGED <<at, task, replies, asked>>
      /\ walk' = [walk EXCEPT !.tries = @ + 1] /\ requests' = requests \cup {Live!Datagram(walk')}
  BY DEF Live!Retry, Live!server
<1>2. WalkOK
  BY DEF OrderInv
<1>3. MaxTries \in Nat
  BY WalkFacts
<1>4. /\ walk \in [mode : {walk.mode}, community : {Community, Stranger}, rid : Nat,
                   ask : {walk.ask}, got : Seq(Vb), tries : 0..MaxTries,
                   status : {"idle", "walking", "done", "failed"}]
  BY <1>2 DEF WalkOK
<1>5. /\ walk'.mode = walk.mode /\ walk'.community = walk.community /\ walk'.rid = walk.rid
      /\ walk'.ask = walk.ask /\ walk'.got = walk.got /\ walk'.tries = walk.tries + 1
      /\ walk'.status = walk.status
  BY <1>1, <1>4
<1>6. walk.tries + 1 \in 0..MaxTries
  BY <1>1, <1>3, <1>4
<1>7. walk' \in [mode : {walk.mode}, community : {Community, Stranger}, rid : Nat,
                 ask : {walk.ask}, got : Seq(Vb), tries : 0..MaxTries,
                 status : {"idle", "walking", "done", "failed"}]
  BY <1>1, <1>4, <1>6
<1>8. WalkOK'
  BY <1>1, <1>2, <1>5, <1>7 DEF WalkOK, Budget
<1>9. GoesOn
  BY <1>1, <1>4, <1>5 DEF GoesOn
<1>10. ASSUME NEW m, m = Live!Datagram(walk') PROVE RequestOK(m)'
  <2>1. /\ walk'.mode \in Modes /\ walk'.rid > LastId
        /\ walk'.rid <= LastId + asked * (Len(Wanted) + 1)
        /\ Shape(walk'.mode, walk'.ask) /\ asked \in Nat /\ asked <= MaxWalks
        /\ walk'.community \in {Community, Stranger} /\ walk'.rid \in Nat /\ walk'.tries \in 0..MaxTries
    BY <1>1, <1>2, <1>4, <1>5, <1>6 DEF WalkOK, Budget
  <2>2. /\ Live!Datagram(walk') \in Live!Datagrams
        /\ Live!Datagram(walk').mode = walk'.mode /\ Live!Datagram(walk').ask = walk'.ask
        /\ Live!Datagram(walk').rid = walk'.rid
    BY <2>1, Sendable
  <2> QED BY <1>10, <2>1, <2>2 DEF RequestOK
<1> QED BY <1>1, <1>8, <1>9, <1>10, PollerKeeps

\* A walk may be given up, and datagrams get lost.
LEMMA QuietOrder ==
    ASSUME WalkAssumption, OrderInv, LiveInv',
           Live!GiveUp \/ Live!Lose \/ Live!Tick \/ UNCHANGED Live!vars
    PROVE  OrderInv'
<1>1. /\ UNCHANGED <<at, task, asked>> /\ requests' \subseteq requests /\ replies' \subseteq replies
      /\ walk' = walk \/ walk' = [walk EXCEPT !.status = "failed"]
  BY DEF Live!GiveUp, Live!Lose, Live!Tick, Live!vars, Live!server
<1>2. WalkOK
  BY DEF OrderInv
<1>4. walk \in [mode : {walk.mode}, community : {Community, Stranger}, rid : Nat,
                ask : {walk.ask}, got : Seq(Vb), tries : 0..MaxTries,
                status : {"idle", "walking", "done", "failed"}]
  BY <1>2 DEF WalkOK
<1>5. CASE walk' = walk
  <2>1. WalkOK' /\ GoesOn
    BY <1>1, <1>2, <1>4, <1>5 DEF WalkOK, Budget, GoesOn
  <2> QED BY <1>1, <2>1, PollerKeeps
<1>6. CASE walk' = [walk EXCEPT !.status = "failed"]
  <2>1. /\ walk'.rid = walk.rid /\ walk'.got = walk.got /\ walk'.status = "failed"
        /\ walk'.mode = walk.mode /\ walk'.ask = walk.ask
        /\ walk' \in [mode : {walk.mode}, community : {Community, Stranger}, rid : Nat,
                      ask : {walk.ask}, got : Seq(Vb), tries : 0..MaxTries,
                      status : {"idle", "walking", "done", "failed"}]
    BY <1>4, <1>6
  <2>2. WalkOK' /\ GoesOn
    BY <1>1, <1>2, <1>4, <2>1 DEF WalkOK, Budget, GoesOn
  <2> QED BY <1>1, <2>2, PollerKeeps
<1> QED BY <1>1, <1>5, <1>6

\* What the poller takes from an answer to its request: the next rows it wants,
\* and the walk goes on as long as none of the bindings is past the last.
Inside(vb) == vb.val >= 0 /\ Live!Below(vb.oid)
Past(out)  == {i \in 1..Len(out) : ~Inside(out[i])}
Taken(out) == SubSeq(out, 1, Len(out) - Live!Cardinality(Past(out)))
Ended(out) == Past(out) # {} \/ walk.mode = Live!T_GET

LEMMA Received ==
    ASSUME WalkAssumption, OrderInv, NEW m \in replies, Current(m.rid)
    PROVE  \E c \in 0..Len(m.out) :
              /\ m.out \in Seq(Vb) /\ Taken(m.out) = SubSeq(m.out, 1, c)
              /\ Len(walk.got) + c <= Len(Wanted)
              /\ \A k \in 1..c : m.out[k].oid = Wanted[Len(walk.got) + k]
              /\ Ended(m.out) => Len(walk.got) + c = Len(Wanted)
              /\ ~Ended(m.out) =>
                    /\ walk.mode # Live!T_GET /\ c = Len(m.out) /\ c >= 1
                    /\ m.out[c].oid \in Live!Oids /\ At(m.out[c].oid, First + Len(walk.got) + c)
<1> DEFINE out == m.out
           g   == Len(walk.got)
           L   == Len(Wanted)
           N   == Len(out)
           d   == L - g
<1>1. /\ Answer(walk.mode, walk.ask, out) /\ WalkOK /\ walk.status = "walking"
  BY DEF OrderInv, ReplyOK, Current
<1>2. out \in Seq(Vb) /\ N \in Nat /\ \A k \in 1..N : out[k] \in Vb
  BY <1>1 DEF Answer
<1>3. g \in Nat /\ L \in Nat /\ g <= L /\ First \in Nat /\ Len(Rows) \in Nat /\ First + L <= Len(Rows)
  <2>1. walk.got \in Seq(Vb) /\ Len(walk.got) <= Len(Wanted)
    BY <1>1 DEF WalkOK
  <2> QED BY <2>1, WalkFacts
<1>6. d \in Nat /\ d = L - g
  BY <1>3
<1> HIDE DEF g, L, N, d
<1>4. CASE walk.mode = Live!T_GET
  <2>1. /\ walk.got = <<>> /\ walk.ask = Append(Wanted, Absent) /\ Values(walk.ask, out)
        /\ N = Len(walk.ask)
    BY <1>1, <1>4 DEF WalkOK, Answer, Shape, N
  <2>2. N = L + 1 /\ walk.ask[N] = Absent /\ \A k \in 1..L : walk.ask[k] = Wanted[k]
    <3>1. Wanted \in Seq(Live!Oids \cup {Absent})
      BY WalkFacts
    <3> QED BY <1>3, <2>1, <3>1 DEF L
  <2>3. ASSUME NEW k \in 1..L PROVE out[k].oid = Wanted[k] /\ Inside(out[k])
    <3>1. k \in 1..N /\ k \in 1..Len(Wanted)
      BY <1>3, <2>2 DEF L
    <3>2. Wanted[k] \in Live!Oids /\ Wanted[k] = Rows[First + k] /\ Live!Below(Rows[First + k])
      <4>1. First + k \in 1..Len(Rows) /\ First + k \in First + 1..First + L
        BY <1>3
      <4>2. Wanted[k] = Rows[First + k]
        BY Zenon, <3>1, WalkFacts
      <4>3. Rows[First + k] \in Live!Oids
        BY <4>1, WalkFacts
      <4>4. Live!Below(Rows[First + k])
        BY <4>1, WalkFacts DEF L
      <4> QED BY <4>2, <4>3, <4>4
    <3>3. out[k].oid = Wanted[k] /\ out[k].val \in Nat
      BY <2>1, <2>2, <3>1, <3>2 DEF Values, N
    <3> QED BY <3>2, <3>3 DEF Inside
  <2>4. ~Inside(out[N])
    <3>1. N \in 1..N
      BY <1>3, <2>2
    <3>2. out[N].val = -2
      BY <2>1, <2>2, <3>1, WalkFacts, Kinds DEF Values, N
    <3> QED BY <3>2 DEF Inside
  <2>5. Past(out) = {N}
    <3>1. \A k \in 1..N : k \in 1..L \/ k = N
      BY <1>3, <2>2
    <3>2. N \in 1..N /\ N \notin 1..L
      BY <1>3, <2>2
    <3> QED BY <2>3, <2>4, <3>1, <3>2 DEF Past, N
  <2>6. Live!Cardinality(Past(out)) = 1
    <3>1. Cardinality({N}) = 1
      BY FS_Singleton
    <3>2. Live!Cardinality({N}) = Cardinality({N})
      BY DEF Live!Cardinality, Cardinality
    <3> QED BY <2>5, <3>1, <3>2
  <2>7. Taken(out) = SubSeq(out, 1, L) /\ L \in 0..N
    <3>1. N - 1 = L
      BY <1>3, <2>2
    <3> QED BY <1>3, <2>2, <2>6, <3>1 DEF Taken, N
  <2>8. g = 0 /\ Ended(out)
    BY <1>4, <2>1 DEF Ended, g
  <2>9. g + L <= L /\ g + L = L
    BY <1>3, <2>8
  <2>10. \A k \in 1..L : out[k].oid = Wanted[g + k]
    BY <1>3, <2>3, <2>8
  <2> QED BY <1>2, <2>7, <2>8, <2>9, <2>10 DEF g, L, N
<1>5. CASE walk.mode # Live!T_GET
  <2>1. PICK p \in 0..Len(Rows) : At(walk.ask[1], p) /\ Chain(p, out) /\ N >= 1
    BY <1>1, <1>5 DEF Answer, N
  <2>2. At(walk.ask[1], First + g)
    BY <1>1, <1>5 DEF WalkOK, g
  <2>3. p = First + g
    <3>1. Live!AfterIn(walk.ask[1]) = p + 1
      BY <2>1, AfterAt
    <3>2. Live!AfterIn(walk.ask[1]) = First + g + 1
      BY <2>2, AfterAt
    <3> QED BY <1>3, <2>1, <3>1, <3>2
  <2>4. ASSUME NEW k \in 1..N
        PROVE  /\ Inside(out[k]) <=> k <= d
               /\ k <= d => /\ out[k].oid = Wanted[g + k] /\ out[k].oid = Rows[p + k]
                            /\ out[k].oid \in Live!Oids /\ p + k \in 1..Len(Rows)
    <3>1. CASE p + k <= Len(Rows)
      <4>1. out[k].oid = Rows[p + k] /\ out[k].val \in Nat
        BY <2>1, <3>1 DEF Chain, N
      <4>2. p + k \in 1..Len(Rows) /\ (p + k \in First + 1..First + L <=> k <= d)
        BY <1>2, <1>3, <1>6, <2>3, <3>1
      <4>3. Live!Below(Rows[p + k]) <=> p + k \in First + 1..First + L
        BY <4>2, WalkFacts DEF L
      <4>4. k <= d => g + k \in 1..L /\ First + (g + k) = p + k
        BY <1>2, <1>3, <1>6, <2>3
      <4>5. k <= d => Wanted[g + k] = Rows[p + k]
        BY <4>4, WalkFacts DEF L
      <4>6. Rows[p + k] \in Live!Oids
        BY <4>2, WalkFacts
      <4> QED BY <4>1, <4>2, <4>3, <4>5, <4>6 DEF Inside
    <3>2. CASE ~(p + k <= Len(Rows))
      <4>1. out[k].val = -1
        BY <2>1, <3>2, Kinds DEF Chain, N
      <4>2. ~(k <= d)
        BY <1>2, <1>3, <1>6, <2>3, <3>2
      <4> QED BY <4>1, <4>2 DEF Inside
    <3> QED BY <3>1, <3>2
  <2>5. Past(out) = d + 1..N
    <3>1. d \in Nat
      BY <1>6
    <3>2. \A k \in 1..N : ~(k <= d) <=> k \in d + 1..N
      BY <1>2, <3>1
    <3>3. \A k \in d + 1..N : k \in 1..N
      BY <1>2, <3>1
    <3> QED BY <2>4, <3>2, <3>3 DEF Past, N
  <2>6. Live!Cardinality(Past(out)) = IF d + 1 > N THEN 0 ELSE N - (d + 1) + 1
    <3>1. Cardinality(d + 1..N) = IF d + 1 > N THEN 0 ELSE N - (d + 1) + 1
      <4>1. d + 1 \in Int /\ N \in Int
        BY <1>2, <1>6
      <4> QED BY <4>1, FS_Interval
    <3>2. Live!Cardinality(d + 1..N) = Cardinality(d + 1..N)
      BY DEF Live!Cardinality, Cardinality
    <3> QED BY <2>5, <3>1, <3>2
  <2>7. CASE d + 1 > N
    <3>1. Taken(out) = SubSeq(out, 1, N)
      <4>1. N - 0 = N
        BY <1>2
      <4> QED BY <2>6, <2>7, <4>1 DEF Taken, N
    <3>2. Past(out) = {}
      BY <1>2, <1>3, <1>6, <2>5, <2>7
    <3>3. ~Ended(out)
      BY <1>5, <3>2 DEF Ended
    <3>4. N \in 0..N /\ g + N <= L /\ \A k \in 1..N : k <= d
      BY <1>2, <1>3, <1>6, <2>7
    <3>5. At(out[N].oid, First + g + N) /\ out[N].oid \in Live!Oids
      <4>1. N \in 1..N
        BY <1>2, <2>1
      <4>2. out[N].oid = Rows[p + N] /\ out[N].oid \in Live!Oids /\ p + N \in 1..Len(Rows)
        BY <2>4, <3>4, <4>1
      <4> QED BY <2>3, <4>2 DEF At
    <3>6. \A k \in 1..N : out[k].oid = Wanted[g + k]
      BY <2>4, <3>4
    <3> QED BY <1>2, <1>5, <2>1, <3>1, <3>3, <3>4, <3>5, <3>6 DEF g, L, N
  <2>8. CASE d + 1 <= N
    <3>1. Taken(out) = SubSeq(out, 1, d)
      <4>1. N - (N - (d + 1) + 1) = d
        BY <1>2, <1>6
      <4>2. ~(d + 1 > N)
        BY <1>2, <1>3, <1>6, <2>8
      <4> QED BY <2>6, <4>1, <4>2 DEF Taken, N
    <3>2. Past(out) # {}
      <4>1. N \in d + 1..N
        BY <1>2, <1>3, <1>6, <2>8
      <4> QED BY <2>5, <4>1
    <3>3. Ended(out)
      BY <3>2 DEF Ended
    <3>4. d \in 0..N /\ g + d <= L /\ g + d = L
      BY <1>2, <1>3, <1>6, <2>8
    <3>5. \A k \in 1..d : out[k].oid = Wanted[g + k]
      <4>1. \A k \in 1..d : k \in 1..N /\ k <= d
        BY <1>2, <1>3, <1>6, <2>8
      <4> QED BY <2>4, <4>1
    <3> QED BY <1>2, <3>1, <3>3, <3>4, <3>5 DEF g, L, N
  <2>9. d + 1 > N \/ d + 1 <= N
    BY <1>2, <1>6
  <2> QED BY Zenon, <2>7, <2>8, <2>9
<1> QED BY <1>4, <1>5

\* An answer to the request that is waited for ends the walk, with all rows, or
\* moves it on; any other is ignored.
Arrival(m) ==
    /\ walk' \in [mode : {walk'.mode}, community : {Community, Stranger}, rid : Nat,
                  ask : {walk'.ask}, got : Seq(Vb), tries : 0..MaxTries,
                  status : {"idle", "walking", "done", "failed"}]
    /\ walk'.mode = walk.mode
    /\ Len(walk.got) <= Len(walk'.got) /\ Len(walk'.got) <= Len(Wanted)
    /\ \A i \in 1..Len(walk'.got) : walk'.got[i].oid = Wanted[i]
    /\ \/ /\ walk'.status = "done" /\ Len(walk'.got) = Len(Wanted)
          /\ walk'.rid = walk.rid /\ requests' = requests
       \/ /\ walk'.status = "walking" /\ walk'.rid = walk.rid + 1 /\ walk.mode # Live!T_GET
          /\ Len(walk'.got) > Len(walk.got)
          /\ \E o \in Live!Oids : walk'.ask = <<o>> /\ At(o, First + Len(walk'.got))
          /\ requests' = requests \cup {Live!Datagram(walk')}

\* One sequence after another.
LEMMA Joined ==
    ASSUME NEW S, NEW s \in Seq(S), NEW t \in Seq(S)
    PROVE  /\ s \o t \in Seq(S) /\ Len(s \o t) = Len(s) + Len(t) /\ Len(s) \in Nat
           /\ \A i \in 1..Len(s) : (s \o t)[i] = s[i]
           /\ \A k \in 1..Len(t) : (s \o t)[Len(s) + k] = t[k]
OBVIOUS

LEMMA Accepted ==
    ASSUME WalkAssumption, OrderInv, Live!Accept
    PROVE  /\ UNCHANGED <<at, task, asked>> /\ replies' \subseteq replies
           /\ \/ UNCHANGED <<walk, requests>>
              \/ walk.status = "walking" /\ \E m \in replies : Arrival(m)
<1>1. PICK m \in replies :
         LET ended == Ended(m.out)
             more  == [walk EXCEPT !.got = @ \o Taken(m.out),
                                   !.status = IF ended THEN "done" ELSE @,
                                   !.rid    = IF ended THEN @ ELSE @ + 1,
                                   !.ask    = IF ended THEN @ ELSE <<m.out[Len(m.out)].oid>>]
         IN  /\ replies' = replies \ {m}
             /\ \/ UNCHANGED <<walk, requests>>
                \/ /\ Current(m.rid) /\ walk' = more
                   /\ requests' = IF ended THEN requests ELSE requests \cup {Live!Datagram(more)}
  <2>1. PICK m \in replies :
           LET inside(vb) == vb.val >= 0 /\ Live!Below(vb.oid)
               stop   == {i \in 1..Len(m.out) : ~inside(m.out[i])}
               fresh  == SubSeq(m.out, 1, Len(m.out) - Live!Cardinality(stop))
               ended  == stop # {} \/ walk.mode = Live!T_GET
               more   == [walk EXCEPT !.got = @ \o fresh,
                                      !.status = IF ended THEN "done" ELSE @,
                                      !.rid    = IF ended THEN @ ELSE @ + 1,
                                      !.ask    = IF ended THEN @ ELSE <<m.out[Len(m.out)].oid>>]
           IN  /\ replies' = replies \ {m}
               /\ IF walk.status = "walking" /\ m.rid = walk.rid
                  THEN /\ walk' = more
                       /\ requests' = IF ended THEN requests ELSE requests \cup {Live!Datagram(more)}
                  ELSE UNCHANGED <<walk, requests>>
    BY DEF Live!Accept
  <2> QED BY <2>1 DEF Inside, Past, Taken, Ended, Current
<1>2. UNCHANGED <<at, task, asked>>
  BY DEF Live!Accept, Live!server
<1>3. CASE UNCHANGED <<walk, requests>>
  BY <1>1, <1>2, <1>3
<1>4. CASE Current(m.rid) /\ ~UNCHANGED <<walk, requests>>
  <2> DEFINE out == m.out
  <2>1. PICK c \in 0..Len(out) :
           /\ out \in Seq(Vb) /\ Taken(out) = SubSeq(out, 1, c)
           /\ Len(walk.got) + c <= Len(Wanted)
           /\ \A k \in 1..c : out[k].oid = Wanted[Len(walk.got) + k]
           /\ Ended(out) => Len(walk.got) + c = Len(Wanted)
           /\ ~Ended(out) =>
                 /\ walk.mode # Live!T_GET /\ c = Len(out) /\ c >= 1
                 /\ out[c].oid \in Live!Oids /\ At(out[c].oid, First + Len(walk.got) + c)
    BY <1>4, Received
  <2>2. /\ walk' = [walk EXCEPT !.got = walk.got \o Taken(out),
                       !.status = IF Ended(out) THEN "done" ELSE walk.status,
                       !.rid    = IF Ended(out) THEN walk.rid ELSE walk.rid + 1,
                       !.ask    = IF Ended(out) THEN walk.ask ELSE <<out[Len(out)].oid>>]
        /\ requests' = IF Ended(out) THEN requests ELSE requests \cup {Live!Datagram(walk')}
    BY <1>1, <1>4
  <2>3. walk \in [mode : {walk.mode}, community : {Community, Stranger}, rid : Nat,
                  ask : {walk.ask}, got : Seq(Vb), tries : 0..MaxTries,
                  status : {"idle", "walking", "done", "failed"}]
    BY DEF OrderInv, WalkOK
  <2> DEFINE got == walk.got \o Taken(out)
  <2>4. /\ got \in Seq(Vb) /\ Len(got) = Len(walk.got) + c /\ Len(walk.got) \in Nat /\ c \in Nat
        /\ \A i \in 1..Len(walk.got) : got[i] = walk.got[i]
        /\ \A k \in 1..c : got[Len(walk.got) + k] = out[k]
    <3>1. /\ Taken(out) \in Seq(Vb) /\ Len(Taken(out)) = c /\ c \in Nat
          /\ \A k \in 1..c : Taken(out)[k] = out[k]
      BY <2>1
    <3>2. walk.got \in Seq(Vb)
      BY <2>3
    <3> DEFINE s == walk.got
               t == Taken(out)
    <3> HIDE DEF s, t
    <3>3. /\ s \o t \in Seq(Vb) /\ Len(s \o t) = Len(s) + Len(t) /\ Len(s) \in Nat
          /\ \A i \in 1..Len(s) : (s \o t)[i] = s[i]
          /\ \A k \in 1..Len(t) : (s \o t)[Len(s) + k] = t[k]
      <4>1. s \in Seq(Vb) /\ t \in Seq(Vb)
        BY <3>1, <3>2 DEF s, t
      <4> QED BY <4>1, Joined
    <3>4. got = s \o t /\ Len(t) = c /\ \A k \in 1..c : t[k] = out[k]
      BY <3>1 DEF s, t
    <3> HIDE DEF got, out
    <3>5. /\ got \in Seq(Vb) /\ Len(got) = Len(s) + c /\ Len(s) \in Nat /\ c \in Nat
          /\ \A i \in 1..Len(s) : got[i] = s[i]
          /\ \A k \in 1..c : got[Len(s) + k] = out[k]
      BY <3>1, <3>3, <3>4
    <3> QED BY <3>5 DEF s
  <2> HIDE DEF got, out
  <2>5. \A i \in 1..Len(got) : got[i].oid = Wanted[i]
    <3>1. \A i \in 1..Len(walk.got) : walk.got[i].oid = Wanted[i]
      BY DEF OrderInv, WalkOK
    <3>2. ASSUME NEW i \in 1..Len(got), i \notin 1..Len(walk.got) PROVE got[i].oid = Wanted[i]
      <4>1. i - Len(walk.got) \in 1..c /\ Len(walk.got) + (i - Len(walk.got)) = i
        BY <2>4, <3>2
      <4> QED BY <2>1, <2>4, <4>1
    <3> QED BY <2>4, <3>1, <3>2
  <2>6. /\ walk'.got = got /\ walk'.mode = walk.mode
        /\ walk'.status = (IF Ended(out) THEN "done" ELSE walk.status)
        /\ walk'.rid = (IF Ended(out) THEN walk.rid ELSE walk.rid + 1)
        /\ walk'.ask = (IF Ended(out) THEN walk.ask ELSE <<out[Len(out)].oid>>)
        /\ walk'.community = walk.community /\ walk'.tries = walk.tries
    BY <2>2, <2>3 DEF got
  <2>7. walk' \in [mode : {walk'.mode}, community : {Community, Stranger}, rid : Nat,
                   ask : {walk'.ask}, got : Seq(Vb), tries : 0..MaxTries,
                   status : {"idle", "walking", "done", "failed"}]
    <3> DEFINE status == IF Ended(out) THEN "done" ELSE walk.status
               rid    == IF Ended(out) THEN walk.rid ELSE walk.rid + 1
               ask    == IF Ended(out) THEN walk.ask ELSE <<out[Len(out)].oid>>
    <3>1. status \in {"idle", "walking", "done", "failed"} /\ rid \in Nat
      BY <2>3
    <3>2. walk' = [walk EXCEPT !.got = got, !.status = status, !.rid = rid, !.ask = ask]
      BY <2>2 DEF got
    <3>3. walk'.ask = ask /\ walk'.mode = walk.mode
      BY <2>6
    <3> HIDE DEF status, rid, ask
    <3> QED BY <2>3, <2>4, <3>1, <3>2, <3>3
  <2>8. walk.status = "walking"
    BY <1>4 DEF Current
  <2>9. Len(walk.got) <= Len(walk'.got) /\ Len(walk'.got) <= Len(Wanted)
    <3>1. Len(walk.got) <= Len(walk.got) + c
      BY <2>4
    <3> QED BY <2>1, <2>4, <2>6, <3>1
  <2>10. CASE Ended(out)
    <3>1. /\ walk'.status = "done" /\ Len(walk'.got) = Len(Wanted)
          /\ walk'.rid = walk.rid /\ requests' = requests
      BY <2>1, <2>2, <2>4, <2>6, <2>10
    <3> QED BY <1>1, <1>2, <2>5, <2>6, <2>7, <2>8, <2>9, <3>1 DEF Arrival
  <2>11. CASE ~Ended(out)
    <3>1. /\ walk'.status = "walking" /\ walk'.rid = walk.rid + 1 /\ walk.mode # Live!T_GET
          /\ requests' = requests \cup {Live!Datagram(walk')}
      BY <2>1, <2>2, <2>6, <2>8, <2>11
    <3>2. Len(walk'.got) > Len(walk.got)
      BY <2>1, <2>4, <2>6, <2>11
    <3>3. walk'.ask = <<out[c].oid>> /\ out[c].oid \in Live!Oids
      BY <2>1, <2>6, <2>11
    <3>4. At(out[c].oid, First + Len(walk'.got))
      <4>1. First + Len(walk.got) + c = First + Len(walk'.got)
        <5>1. First \in Nat
          BY WalkFacts
        <5> QED BY <2>4, <2>6, <5>1
      <4> QED BY <2>1, <2>11, <4>1
    <3> QED BY <1>1, <1>2, <2>5, <2>6, <2>7, <2>8, <2>9, <3>1, <3>2, <3>3, <3>4 DEF Arrival
  <2> QED BY <2>10, <2>11
<1> QED BY <1>1, <1>3, <1>4

\* The next request asks for what follows.
LEMMA AcceptOrder ==
    ASSUME WalkAssumption, OrderInv, LiveInv', Live!Accept
    PROVE  OrderInv'
<1>1. UNCHANGED <<at, task, asked>> /\ replies' \subseteq replies
  BY Accepted
<1>2. /\ WalkOK /\ walk.rid \in Nat /\ asked \in Nat /\ asked <= MaxWalks
      /\ LastId <= walk.rid /\ walk.rid <= Budget /\ walk.got \in Seq(Vb)
  BY DEF OrderInv, WalkOK
<1>3. CASE UNCHANGED <<walk, requests>>
  <2>1. WalkOK' /\ GoesOn
    BY <1>1, <1>2, <1>3 DEF WalkOK, Budget, GoesOn
  <2> QED BY <1>1, <1>3, <2>1, PollerKeeps
<1>4. ASSUME walk.status = "walking", NEW m \in replies, Arrival(m)
      PROVE  OrderInv'
  <2>1. /\ walk'.rid \in Nat /\ walk'.got \in Seq(Vb) /\ Len(walk.got) \in Nat
        /\ Len(Wanted) \in Nat /\ LastId \in Nat
    BY <1>2, <1>4, WalkFacts DEF Arrival
  <2>2. CASE walk'.status = "done"
    <3>1. walk'.rid = walk.rid /\ requests' = requests
      BY <1>4, <2>2 DEF Arrival
    <3>2. WalkOK'
      BY <1>1, <1>2, <1>4, <2>2, <3>1 DEF WalkOK, Budget, Arrival
    <3>3. GoesOn
      BY <1>2, <2>2, <3>1 DEF GoesOn
    <3> QED BY <1>1, <3>1, <3>2, <3>3, PollerKeeps
  <2>3. CASE walk'.status = "walking"
    <3>1. /\ walk'.rid = walk.rid + 1 /\ walk.mode # Live!T_GET /\ walk'.mode = walk.mode
          /\ Len(walk'.got) > Len(walk.got) /\ Len(walk'.got) <= Len(Wanted)
          /\ requests' = requests \cup {Live!Datagram(walk')}
      BY <1>4, <2>3 DEF Arrival
    <3>2. PICK o \in Live!Oids : walk'.ask = <<o>> /\ At(o, First + Len(walk'.got))
      BY <1>4, <2>3 DEF Arrival
    <3>3. /\ walk.mode \in Modes /\ walk.rid > LastId
          /\ walk.rid + (Len(Wanted) - Len(walk.got)) <= Budget
      BY <1>2, <1>4 DEF WalkOK
    <3>4. /\ walk'.rid + (Len(Wanted) - Len(walk'.got)) <= Budget /\ walk'.rid <= Budget
          /\ walk'.rid > LastId
      <4>1. Len(walk'.got) \in Nat /\ Budget \in Nat
        BY <1>2, <2>1 DEF Budget
      <4> DEFINE b == Budget
                 L == Len(Wanted)
                 x == Len(walk.got)
                 y == Len(walk'.got)
      <4>2. /\ b \in Nat /\ L \in Nat /\ x \in Nat /\ y \in Nat /\ walk.rid \in Nat
            /\ y > x /\ y <= L /\ walk.rid > LastId /\ walk.rid + (L - x) <= b
        BY Zenon, <1>2, <2>1, <3>1, <3>3, <4>1
      <4> HIDE DEF b, L, x, y
      <4>3. walk.rid + 1 + (L - y) <= b /\ walk.rid + 1 <= b /\ walk.rid + 1 > LastId
        BY <2>1, <4>2
      <4> QED BY Zenon, <3>1, <4>3 DEF b, L, y
    <3>5. Shape(walk'.mode, walk'.ask) /\ At(walk'.ask[1], First + Len(walk'.got))
      BY <3>1, <3>2 DEF Shape
    <3>6. WalkOK'
      <4>1. Budget' = Budget
        BY <1>1 DEF Budget
      <4> QED BY <1>1, <1>2, <1>4, <2>1, <3>1, <3>3, <3>4, <3>5, <4>1 DEF WalkOK, Arrival
    <3>7. GoesOn
      BY <1>2, <2>1, <3>1 DEF GoesOn
    <3>8. ASSUME NEW d, d = Live!Datagram(walk') PROVE RequestOK(d)'
      <4>1. walk'.tries \in 0..MaxTries /\ walk'.community \in {Community, Stranger}
        BY <1>4 DEF Arrival
      <4>2. walk'.rid <= LastId + asked * (Len(Wanted) + 1)
        BY <3>4 DEF Budget
      <4>3. /\ Live!Datagram(walk') \in Live!Datagrams
            /\ Live!Datagram(walk').mode = walk'.mode /\ Live!Datagram(walk').ask = walk'.ask
            /\ Live!Datagram(walk').rid = walk'.rid
        BY <1>2, <2>1, <3>1, <3>3, <3>4, <3>5, <4>1, <4>2, Sendable
      <4> QED BY <2>1, <3>5, <3>8, <4>3 DEF RequestOK
    <3> QED BY <1>1, <3>1, <3>6, <3>7, <3>8, PollerKeeps
  <2> QED BY <1>4, <2>2, <2>3 DEF Arrival
<1> QED BY <1>3, <1>4, Accepted

\* The invariant holds before the first datagram, and every step keeps it.
LEMMA OrderInit == WalkAssumption /\ Live!Init => OrderInv
<1> SUFFICES ASSUME WalkAssumption, Live!Init PROVE OrderInv
  OBVIOUS
<1>1. LiveInv
  BY LiveInit DEF WalkAssumption
<1>2. /\ at = [w \in Workers |-> "idle"] /\ requests = {} /\ replies = {} /\ asked = 0
      /\ walk = [mode |-> Live!T_GET, community |-> Community, rid |-> LastId, ask |-> <<>>, got |-> <<>>,
                 tries |-> 0, status |-> "idle"]
  BY DEF Live!Init, Live!NoWalk
<1>3. WalkOK
  <2>1. /\ <<>> \in Seq(Vb) /\ 0 \in 0..MaxTries /\ 0 <= MaxWalks /\ Len(Wanted) \in Nat
        /\ 0 * (Len(Wanted) + 1) = 0 /\ LastId \in Nat
    BY WalkFacts
  <2>2. walk \in [mode : {walk.mode}, community : {Community, Stranger}, rid : Nat,
                  ask : {walk.ask}, got : Seq(Vb), tries : 0..MaxTries,
                  status : {"idle", "walking", "done", "failed"}]
    BY <1>2, <2>1
  <2>3. walk.got = <<>> /\ walk.rid = LastId /\ walk.status = "idle" /\ Len(walk.got) = 0 /\ Budget = LastId
    BY <1>2, <2>1 DEF Budget
  <2> QED BY <1>2, <2>1, <2>2, <2>3 DEF WalkOK
<1>4. \A w \in Workers : JobOK(w)
  BY <1>2 DEF JobOK
<1> QED BY <1>1, <1>2, <1>3, <1>4 DEF OrderInv

LEMMA OrderNext ==
    ASSUME WalkAssumption, OrderInv, [Live!Next]_(Live!vars)
    PROVE  OrderInv'
<1>1. LiveInv'
  BY LiveNext DEF OrderInv, WalkAssumption
<1>2. ASSUME NEW w \in Workers, Live!Recv(w) \/ Live!WorkerStep(w)
      PROVE  OrderInv'
  BY <1>1, <1>2, RecvOrder, RefreshOrder, BindOrder, SendOrder DEF Live!WorkerStep
<1>3. CASE Live!StartWalk \/ Live!Retry \/ Live!Accept
  BY <1>1, <1>3, StartOrder, RetryOrder, AcceptOrder
<1>4. CASE Live!GiveUp \/ Live!Lose \/ Live!Tick \/ UNCHANGED Live!vars
  BY <1>1, <1>4, QuietOrder
<1> QED BY <1>2, <1>3, <1>4 DEF Live!Next

\* The names that have arrived.
Names == [i \in 1..Len(walk.got) |-> walk.got[i].oid]

LEMMA FirstNames ==
    ASSUME WalkAssumption, NEW got \in Seq(Vb), Len(got) <= Len(Wanted),
           \A i \in 1..Len(got) : got[i].oid = Wanted[i]
    PROVE  [i \in 1..Len(got) |-> got[i].oid] = SubSeq(Wanted, 1, Len(got))
<1> DEFINE n == Len(got)
           s == SubSeq(Wanted, 1, n)
<1>1. n \in 0..Len(Wanted) /\ Wanted \in Seq(Live!Oids)
  BY WalkFacts
<1> HIDE DEF n
<1>2. s \in Seq(Live!Oids) /\ Len(s) = n /\ \A i \in 1..n : s[i] = Wanted[i]
  BY <1>1
<1>3. s = [i \in 1..n |-> s[i]]
  BY <1>2
<1> HIDE DEF s
<1>4. \A i \in 1..n : got[i].oid = s[i]
  BY <1>2 DEF n
<1>5. [i \in 1..n |-> got[i].oid] = [i \in 1..n |-> s[i]]
  BY <1>4
<1> QED BY <1>3, <1>5 DEF n, s

\* Every step of the responder, the poller and the network is one of the ordered
\* walk, or none.
LEMMA WalkStep ==
    ASSUME WalkAssumption, OrderInv, [Live!Next]_(Live!vars)
    PROVE  [Live!Walk!WalkNext]_<<Names, walk.status>>
<1>1. WalkOK /\ walk.got \in Seq(Vb) /\ Len(walk.got) \in Nat
  BY DEF OrderInv, WalkOK
<1>2. CASE UNCHANGED walk
  BY <1>2 DEF Names
<1>3. CASE Live!StartWalk
  <2>1. walk.status # "walking" /\ walk'.status = "walking" /\ walk'.got = <<>>
    BY <1>3 DEF Live!StartWalk, Live!NoWalk
  <2>2. Names' = <<>>
    BY <2>1 DEF Names
  <2>3. Live!Walk!Begin
    BY <2>1, <2>2 DEF Live!Walk!Begin, Names
  <2> QED BY <2>3 DEF Live!Walk!WalkNext
<1>4. CASE Live!Retry
  <2>1. walk'.status = walk.status /\ walk'.got = walk.got
    BY <1>1, <1>4 DEF Live!Retry, WalkOK
  <2> QED BY <2>1 DEF Names
<1>5. CASE Live!GiveUp
  <2>1. walk.status = "walking" /\ walk'.status = "failed" /\ walk'.got = walk.got
    BY <1>1, <1>5 DEF Live!GiveUp, WalkOK
  <2>2. Names' = Names
    BY <2>1 DEF Names
  <2>3. Live!Walk!Abandon
    BY <2>1, <2>2 DEF Live!Walk!Abandon, Names
  <2> QED BY <2>3 DEF Live!Walk!WalkNext
<1>6. CASE Live!Accept /\ ~UNCHANGED walk
  <2>1. walk.status = "walking" /\ \E m \in replies : Arrival(m)
    BY <1>6, Accepted
  <2>2. PICK m \in replies : Arrival(m)
    BY <2>1
  <2> DEFINE n == Len(walk'.got)
  <2>3. /\ walk'.got \in Seq(Vb) /\ n <= Len(Wanted) /\ Len(walk.got) <= n
        /\ \A i \in 1..n : walk'.got[i].oid = Wanted[i]
        /\ walk'.status = "walking" \/ (walk'.status = "done" /\ n = Len(Wanted))
    BY <2>2 DEF Arrival
  <2>4. Names' = SubSeq(Wanted, 1, n)
    BY <2>3, FirstNames DEF Names
  <2>5. Len(Names) = Len(walk.got)
    BY <1>1 DEF Names
  <2>6. n \in Nat /\ Len(Wanted) \in Nat
    BY <2>3, WalkFacts
  <2>7. n \in Len(Names)..Len(Wanted)
    BY <1>1, <2>3, <2>5, <2>6
  <2> HIDE DEF n
  <2>8. walk'.status \in {"walking"} \cup (IF n = Len(Wanted) THEN {"done"} ELSE {})
    BY <2>3
  <2>9. Live!Walk!Arrive
    BY <2>1, <2>4, <2>7, <2>8 DEF Live!Walk!Arrive, Names, Wanted
  <2> QED BY <2>9 DEF Live!Walk!WalkNext
<1>7. CASE Live!Lose \/ Live!Tick \/ UNCHANGED Live!vars
  BY <1>2, <1>7 DEF Live!Lose, Live!Tick, Live!vars
<1>8. ASSUME NEW w \in Workers, Live!Recv(w) \/ Live!WorkerStep(w)
      PROVE  UNCHANGED walk
  BY <1>8 DEF Live!Recv, Live!WorkerStep, Live!Lookup, Live!Build, Live!Install, Live!Reload,
              Live!Sample, Live!Patch, Live!Drop, Live!Bind, Live!Send
<1> QED BY <1>2, <1>3, <1>4, <1>5, <1>6, <1>7, <1>8 DEF Live!Next

\* Snmp implements OrderedWalk: whoever walks the device gets the rows below the
\* base in order, each once and all of them, for any rows, workers, kinds of
\* request, losses and retries, with refreshes of the table in the middle.
THEOREM WalksInOrderAlways ==
    ASSUME WalkAssumption
    PROVE  Live!Spec => Live!WalksInOrder
<1>1. Live!Init => OrderInv
  BY OrderInit
<1>2. OrderInv /\ [Live!Next]_(Live!vars) => OrderInv'
  BY OrderNext
<1>3. Live!Init => Live!Walk!WalkInit
  BY DEF Live!Init, Live!NoWalk, Live!Walk!WalkInit
<1>4. OrderInv /\ [Live!Next]_(Live!vars) => [Live!Walk!WalkNext]_<<Names, walk.status>>
  BY WalkStep
<1> QED BY <1>1, <1>2, <1>3, <1>4, PTL DEF Live!Spec, Live!WalksInOrder, Live!Walk!WalkSpec, Names
================================================================================
