--------------------------- MODULE HostAgentProofs ---------------------------
(***************************************************************************)
(* Theorems about the incident of a host, for any clock bound, escalation   *)
(* delay, number of request threads and number of restarts.                 *)
(***************************************************************************)
EXTENDS HostAgent, TLAPS

\* The globals of a fresh process can be dumped.
LEMMA FreshType == \A t \in Times : Fresh(t) \in Incidents
BY HostAssumption DEF Fresh, Incidents, Times, NoTime

\* The dictionary that stands for "no dictionary" is one of them.
LEMMA BlankType == Fresh(0) \in Incidents
BY FreshType, HostAssumption DEF Times

\* set_state maps incidents to incidents.
LEMMA ToggledType ==
    ASSUME NEW d \in Incidents, NEW value \in States, NEW t \in Times
    PROVE  Toggled(d, value, t) \in Incidents
BY DEF Toggled, EnteredAt, DegradedAt, BrokenAt, Incidents

-----------------------------------------------------------------------------
(* The files that save_state writes (StateFile) *)

\* Contents without a dictionary are contents.
LEMMA FileBareType ==
    ASSUME Fresh(0) \in Incidents, NEW k \in {"none", "empty", "torn", "json"}
    PROVE  File!Bare(k) \in File!Content
BY DEF File!Bare, File!Content

\* Every file operation of save_state keeps the disk well typed.
LEMMA FileOpenType ==
    ASSUME Fresh(0) \in Incidents, File!DiskTypeOK, NEW p \in Threads, File!OpenTmp(p)
    PROVE  File!DiskTypeOK'
BY FileBareType DEF File!DiskTypeOK, File!OpenTmp, File!Places

LEMMA FilePutType ==
    ASSUME File!DiskTypeOK, NEW p \in Threads, NEW c \in File!Content, File!PutContent(p, c)
    PROVE  File!DiskTypeOK'
BY DEF File!DiskTypeOK, File!PutContent, File!Places

LEMMA FileOverlayType ==
    ASSUME Fresh(0) \in Incidents, NEW d \in Incidents, NEW old
    PROVE  \A c \in File!Overlay(old, d) :
             c \in File!Content /\ (c = File!Json(d) \/ c = File!Bare("torn"))
BY FileBareType DEF File!Overlay, File!Json, File!Content

LEMMA FileDumpType ==
    ASSUME Fresh(0) \in Incidents, File!DiskTypeOK, NEW p \in Threads, NEW d \in Incidents,
           File!Dump(p, d)
    PROVE  File!DiskTypeOK'
BY FileOverlayType, FilePutType DEF File!Dump

LEMMA FileReplaceType ==
    ASSUME Fresh(0) \in Incidents, File!DiskTypeOK, File!ReplaceFile
    PROVE  File!DiskTypeOK'
<1>1. CASE UNCHANGED disk
  BY <1>1 DEF File!DiskTypeOK
<1>2. CASE disk' = [cur |-> disk.tmp, tmp |-> File!Bare("none"),
                    at |-> [q \in Threads |-> File!Relinked(disk.at[q])]]
  BY <1>2, FileBareType DEF File!DiskTypeOK, File!Relinked, File!Places
<1>3. QED BY <1>1, <1>2 DEF File!ReplaceFile

LEMMA FileCloseType ==
    ASSUME File!DiskTypeOK, File!CloseAll
    PROVE  File!DiskTypeOK' /\ disk'.cur = disk.cur /\ disk'.tmp = disk.tmp
BY DEF File!DiskTypeOK, File!CloseAll, File!Places

-----------------------------------------------------------------------------
(* Type correctness *)

\* A fresh agent has its types.
LEMMA InitType == Init => TypeOK
<1> SUFFICES ASSUME Init PROVE TypeOK
  OBVIOUS
<1>1. File!DiskTypeOK
  BY BlankType, FileBareType
     DEF Init, File!NoDisk, File!DiskTypeOK, File!Places
<1>2. /\ now \in Times /\ checkedAt \in Times
      /\ toggles \in 0..MaxToggles /\ polls \in 0..MaxPolls
      /\ crashes \in 0..MaxCrashes
  BY HostAssumption DEF Init, Times
<1>3. pc \in [Threads -> Labels]
  BY DEF Init, Labels
<1>4. overlapped \in BOOLEAN
  BY DEF Init
<1>5. QED BY <1>1, <1>2, <1>3, <1>4, BlankType DEF Init, TypeOK

\* The history of overlaps stays a Boolean.
LEMMA BeginType ==
    ASSUME TypeOK, NEW p \in Threads, NEW label \in Labels, Begin(p, label)
    PROVE  overlapped' \in BOOLEAN
BY DEF TypeOK, Begin

\* A request that begins or ends keeps the types.
LEMMA RequestType ==
    ASSUME TypeOK, NEW p \in Handlers, NEW value \in States,
           Toggle(p, value) \/ Poll(p)
    PROVE  TypeOK'
<1>1. CASE Toggle(p, value)
  <2>1. inc' \in Incidents /\ toggles' \in 0..MaxToggles
    BY <1>1, HostAssumption, ToggledType DEF TypeOK, Toggle
  <2>2. pc' \in [Threads -> Labels]
    BY <1>1 DEF TypeOK, Toggle, Begin, Goto, Labels, Threads
  <2>3. overlapped' \in BOOLEAN
    BY <1>1, BeginType DEF Toggle, Threads, Labels
  <2>4. QED BY <1>1, <2>1, <2>2, <2>3 DEF TypeOK, Toggle, File!DiskTypeOK
<1>2. CASE Poll(p)
  <2>1. polls' \in 0..MaxPolls
    BY <1>2, HostAssumption DEF TypeOK, Poll
  <2>2. pc' \in [Threads -> Labels]
    BY <1>2 DEF TypeOK, Poll, Begin, Goto, Labels, Threads
  <2>3. overlapped' \in BOOLEAN
    BY <1>2, BeginType DEF Poll, Threads, Labels
  <2>4. QED BY <1>2, <2>1, <2>2, <2>3 DEF TypeOK, Poll, File!DiskTypeOK
<1>3. QED BY <1>1, <1>2

\* The watchdog keeps the types.
LEMMA WatchType ==
    ASSUME TypeOK, Watch
    PROVE  TypeOK'
<1>1. pc' \in [Threads -> Labels]
  BY DEF TypeOK, Watch, WatchState, WatchAge, WatchEscalate, Begin, Goto,
         Labels
<1>2. inc' \in Incidents /\ checkedAt' \in Times
  BY ToggledType
     DEF TypeOK, Watch, WatchState, WatchAge, WatchEscalate, States
<1>3. UNCHANGED <<now, snap, disk, toggles, polls, crashes>>
  BY DEF Watch, WatchState, WatchAge, WatchEscalate
<1>4. overlapped' \in BOOLEAN
  <2>1. CASE WatchState
    BY <2>1, BeginType DEF WatchState, Threads, Labels
  <2>2. CASE WatchAge \/ WatchEscalate
    BY <2>2 DEF TypeOK, WatchAge, WatchEscalate
  <2>3. QED BY <2>1, <2>2 DEF Watch
<1>5. QED BY <1>1, <1>2, <1>3, <1>4 DEF TypeOK, File!DiskTypeOK

\* A save, or one that fails, keeps the types.
LEMMA SaveType ==
    ASSUME TypeOK, NEW p \in Threads, Save(p)
    PROVE  TypeOK'
<1>1. pc' \in [Threads -> Labels]
  BY DEF TypeOK, Save, SaveSnapshot, SaveOpen, SaveDump, SaveReplace, Goto,
         Labels
<1>2. snap' \in [Threads -> Incidents]
  BY BlankType DEF TypeOK, Save, SaveSnapshot, SaveOpen, SaveDump, SaveReplace
<1>3. File!DiskTypeOK'
  <2>1. CASE SaveSnapshot(p)
    BY <2>1 DEF TypeOK, SaveSnapshot, File!DiskTypeOK
  <2>2. CASE SaveOpen(p)
    BY <2>2, BlankType, FileOpenType DEF TypeOK, SaveOpen
  <2>3. CASE SaveDump(p)
    BY <2>3, BlankType, FileDumpType DEF TypeOK, SaveDump
  <2>4. CASE SaveReplace(p)
    BY <2>4, BlankType, FileReplaceType DEF TypeOK, SaveReplace
  <2>5. QED BY <2>1, <2>2, <2>3, <2>4 DEF Save
<1>4. UNCHANGED unsaved
  BY DEF Save, SaveSnapshot, SaveOpen, SaveDump, SaveReplace
<1>5. QED BY <1>1, <1>2, <1>3, <1>4 DEF TypeOK, unsaved

\* A crash and the load after it keep the types.
LEMMA RestartType ==
    ASSUME TypeOK, Restart
    PROVE  TypeOK'
<1>1. inc' \in Incidents
  BY FreshType DEF TypeOK, Restart, Loaded, File!DiskTypeOK, File!Content
<1>2. File!DiskTypeOK'
  BY FileCloseType DEF TypeOK, Restart, Loaded
<1>3. crashes' \in 0..MaxCrashes
  BY HostAssumption DEF TypeOK, Restart, Loaded
<1>4. pc' \in [Threads -> Labels] /\ snap' \in [Threads -> Incidents]
  BY BlankType DEF Restart, Loaded, Labels
<1>5. QED BY <1>1, <1>2, <1>3, <1>4 DEF TypeOK, Restart, Loaded

\* The clock keeps the types.
LEMMA ClockType ==
    ASSUME TypeOK, Clock
    PROVE  TypeOK'
<1>1. now' \in Times
  BY HostAssumption DEF TypeOK, Clock, Times
<1>2. QED BY <1>1 DEF TypeOK, Clock, File!DiskTypeOK

\* Every step keeps the types.
LEMMA NextType ==
    ASSUME TypeOK, [Next]_vars
    PROVE  TypeOK'
<1>1. ASSUME UNCHANGED vars
      PROVE  TypeOK'
  BY <1>1 DEF TypeOK, vars, File!DiskTypeOK
<1>2. ASSUME NEW p \in Handlers, Poll(p) \/ Status(p)
      PROVE  TypeOK'
  BY <1>1, <1>2, RequestType, HostAssumption DEF Status
<1>3. QED BY <1>1, <1>2, RequestType, WatchType, SaveType, RestartType,
             ClockType DEF Next

\* Every reachable state of a host is well typed.
THEOREM TypeCorrect == Spec => []TypeOK
<1>1. Init => TypeOK
  BY InitType
<1>2. TypeOK /\ [Next]_vars => TypeOK'
  BY NextType
<1>3. QED BY <1>1, <1>2, PTL DEF Spec

-----------------------------------------------------------------------------
(* The timestamps tell one story with the state *)

\* The dictionaries whose story holds now.
Stories == {d \in Incidents : Story(d)}

\* set_state keeps the story.
LEMMA ToggledStory ==
    ASSUME TypeOK, NEW d \in Stories, NEW value \in States
    PROVE  Toggled(d, value, now) \in Stories
<1>1. Toggled(d, value, now) \in Incidents
  BY ToggledType DEF TypeOK, Stories
<1>2. now \in Nat
  BY HostAssumption DEF TypeOK, Times
<1>3. Story(Toggled(d, value, now))
  BY <1>2, HostAssumption
     DEF Toggled, EnteredAt, DegradedAt, BrokenAt, Story, Stories, Incidents,
         States, Times, NoTime
<1>4. QED BY <1>1, <1>3 DEF Stories

\* A fresh start has a story, and time does not spoil one.
LEMMA FreshStory ==
    ASSUME TypeOK
    PROVE  Fresh(now) \in Stories /\ Fresh(0) \in Stories
<1>1. now \in Nat /\ 0 \in Times
  BY HostAssumption DEF TypeOK, Times
<1>2. Story(Fresh(now)) /\ Story(Fresh(0))
  BY <1>1, HostAssumption DEF Fresh, Story, States, NoTime
<1>3. QED BY <1>1, <1>2, FreshType DEF Stories, TypeOK

\* What is a story now is one later.
LEMMA StoriesLast ==
    ASSUME TypeOK, TypeOK', now <= now'
    PROVE  Stories \subseteq Stories'
BY HostAssumption DEF TypeOK, Stories, Story, Incidents, Times

\* The invariant as proved: files count even when they hold no dictionary.
StoryInv ==
    /\ inc \in Stories
    /\ File!FilesFrom(Stories)
    /\ \A p \in Threads : snap[p] \in Stories

\* The strengthening says what StoryConsistent says.
LEMMA StoryInvImplies == StoryInv => StoryConsistent
BY DEF StoryInv, StoryConsistent, File!FilesFrom, Stories

\* A fresh agent tells the healthy story.
LEMMA StoryInit == Init => StoryInv
<1> SUFFICES ASSUME Init PROVE StoryInv
  OBVIOUS
<1>1. Fresh(0) \in Stories
  BY InitType, FreshStory
<1>2. QED BY <1>1
          DEF Init, StoryInv, File!FilesFrom, File!NoDisk, File!Bare

\* Every step keeps the story.
LEMMA StoryStep ==
    ASSUME TypeOK, TypeOK', StoryInv, [Next]_vars
    PROVE  StoryInv'
<1>1. now <= now'
  BY HostAssumption
     DEF TypeOK, Times, Next, Toggle, Poll, Status, Save, SaveSnapshot,
         SaveOpen, SaveDump, SaveReplace, unsaved, Watch, WatchState,
         WatchAge, WatchEscalate, Clock, Restart, vars
<1>2. Stories \subseteq Stories'
  BY <1>1, StoriesLast
<1>3. ASSUME inc' \in Stories,
             File!FilesFrom(Stories) => disk'.cur.data \in Stories
                                     /\ disk'.tmp.data \in Stories,
             \A p \in Threads : snap'[p] \in Stories
      PROVE  StoryInv'
  BY <1>2, <1>3 DEF StoryInv, File!FilesFrom
<1>4. ASSUME UNCHANGED <<snap, disk>>, inc' \in Stories
      PROVE  StoryInv'
  BY <1>3, <1>4 DEF StoryInv, File!FilesFrom
<1>5. ASSUME NEW p \in Handlers, NEW value \in States, Toggle(p, value)
      PROVE  StoryInv'
  BY <1>4, <1>5, ToggledStory DEF StoryInv, Toggle
<1>6. ASSUME NEW p \in Handlers, Poll(p) \/ Status(p)
      PROVE  StoryInv'
  BY <1>4, <1>6 DEF StoryInv, Poll, Status, vars
<1>7. CASE Watch
  <2>1. inc' \in Stories
    BY <1>7, ToggledStory
       DEF StoryInv, Watch, WatchState, WatchAge, WatchEscalate, States
  <2>2. UNCHANGED <<snap, disk>>
    BY <1>7 DEF Watch, WatchState, WatchAge, WatchEscalate
  <2>3. QED BY <1>4, <2>1, <2>2
<1>8. ASSUME NEW p \in Threads, Save(p)
      PROVE  StoryInv'
  <2> DEFINE G == Stories
  <2>1. inc' \in G
    BY <1>8 DEF StoryInv, Save, SaveSnapshot, SaveOpen, SaveDump,
                SaveReplace, unsaved
  <2>2. \A q \in Threads : snap'[q] \in G
    BY <1>8, FreshStory DEF TypeOK, StoryInv, Save, SaveSnapshot, SaveOpen,
                            SaveDump, SaveReplace, unsaved
  <2>3. /\ snap[p] \in G /\ snap[p] \in Incidents
        /\ Fresh(0) \in G /\ Fresh(0) \in Incidents
        /\ File!FilesFrom(G) /\ File!DiskTypeOK
    BY FreshStory, BlankType DEF StoryInv, TypeOK
  <2>4. disk'.cur.data \in G /\ disk'.tmp.data \in G
    <3>1. CASE SaveSnapshot(p)
      BY <2>3, <3>1 DEF SaveSnapshot, File!FilesFrom
    <3>2. CASE SaveOpen(p)
      BY <2>3, <3>2 DEF SaveOpen, File!OpenTmp, File!Bare, File!FilesFrom,
                        File!DiskTypeOK
    <3>3. CASE SaveDump(p)
      <4>1. PICK c \in File!Overlay(File!Held(p), snap[p]) :
              File!PutContent(p, c)
        BY <3>3 DEF SaveDump, File!Dump
      <4>2. c.data \in G
        BY <2>3, <4>1, FileOverlayType DEF File!Json, File!Bare
      <4>3. QED BY <2>3, <4>1, <4>2
                DEF File!PutContent, File!FilesFrom, File!DiskTypeOK
    <3>4. CASE SaveReplace(p)
      BY <2>3, <3>4 DEF SaveReplace, File!ReplaceFile, File!Bare,
                        File!FilesFrom
    <3>5. QED BY <1>8, <3>1, <3>2, <3>3, <3>4 DEF Save
  <2>5. QED BY <1>3, <2>1, <2>2, <2>4
<1>9. CASE Clock
  BY <1>4, <1>9 DEF StoryInv, Clock
<1>10. CASE Restart
  <2>1. inc' \in Stories
    BY <1>10, FreshStory DEF StoryInv, Restart, Loaded, File!FilesFrom
  <2>2. disk'.cur = disk.cur /\ disk'.tmp = disk.tmp
    BY <1>10, FileCloseType DEF TypeOK, Restart, Loaded
  <2>3. \A p \in Threads : snap'[p] \in Stories
    BY <1>10, FreshStory DEF Restart, Loaded
  <2>4. QED BY <1>3, <2>1, <2>2, <2>3 DEF StoryInv, File!FilesFrom
<1>11. CASE UNCHANGED vars
  BY <1>4, <1>11 DEF StoryInv, vars
<1>12. QED BY <1>5, <1>6, <1>7, <1>8, <1>9, <1>10, <1>11 DEF Next

\* Whatever toggles, escalations, saves and restarts overlap, the incident's
\* timestamps and its state tell one story: no restart loads a broken host
\* without a start of its breakage, or a healthy one that still degrades.
THEOREM StoryConsistentAlways == Spec => []StoryConsistent
<1>1. Init => StoryInv
  BY StoryInit
<1>2. TypeOK /\ TypeOK' /\ StoryInv /\ [Next]_vars => StoryInv'
  BY StoryStep
<1>3. QED BY <1>1, <1>2, TypeCorrect, StoryInvImplies, PTL DEF Spec

-----------------------------------------------------------------------------
(* The watchdog is only late because of a change behind its back *)

\* Once the watchdog has read "degraded": the host still is, or its state was
\* changed since; and when the watchdog is about to escalate, it was degraded
\* for long enough.
Watched(w, d, t) ==
    /\ w = "age" => d.state = "degraded" \/ d.stateSince >= checkedAt
    /\ w = "escalate" => \/ d.state = "degraded" /\ t - d.stateSince >= AutoBreak
                         \/ d.stateSince >= checkedAt

LateInv == checkedAt <= now /\ Watched(pc[Watchdog], inc, now)

\* The watchdog starts with nothing to escalate.
LEMMA LateInit == Init => LateInv
BY DEF Init, LateInv, Watched, Threads, Fresh

\* A toggle leaves the state's entry time alone or moves it to now.
LEMMA ToggledSince ==
    ASSUME TypeOK, NEW value \in States, inc' = Toggled(inc, value, now)
    PROVE  \/ inc'.stateSince = now
           \/ inc'.stateSince = inc.stateSince /\ inc'.state = inc.state
BY DEF TypeOK, Toggled, EnteredAt, Incidents

\* A toggle starts the clock of the escalation anew.
LEMMA ToggleLate ==
    ASSUME TypeOK, LateInv, NEW p \in Handlers, NEW value \in States,
           Toggle(p, value)
    PROVE  LateInv'
<1>1. pc'[Watchdog] = pc[Watchdog] /\ now' = now /\ checkedAt' = checkedAt
  BY HostAssumption DEF TypeOK, Toggle, Begin, Goto, Threads
<1>2. \/ inc'.stateSince = now
      \/ inc'.stateSince = inc.stateSince /\ inc'.state = inc.state
  BY ToggledSince DEF Toggle
<1>3. QED BY <1>1, <1>2 DEF LateInv, Watched

\* The watchdog's own steps keep the time of the state it looked at.
LEMMA WatchLate ==
    ASSUME TypeOK, LateInv, Watch
    PROVE  LateInv'
<1>1. Watchdog \in Threads
  BY DEF Threads
<1>2. CASE WatchState
  BY <1>1, <1>2, HostAssumption
     DEF TypeOK, LateInv, Watched, WatchState, Begin, Goto, Times
<1>3. CASE WatchAge
  BY <1>1, <1>3 DEF TypeOK, LateInv, Watched, WatchAge, Ripe, Goto
<1>4. CASE WatchEscalate
  BY <1>1, <1>4 DEF TypeOK, LateInv, Watched, WatchEscalate, Goto
<1>5. QED BY <1>2, <1>3, <1>4 DEF Watch

\* Every step keeps the bound on the escalation.
LEMMA LateStep ==
    ASSUME TypeOK, LateInv, [Next]_vars
    PROVE  LateInv'
<1>1. ASSUME UNCHANGED <<now, inc, checkedAt>>,
             \/ pc'[Watchdog] = pc[Watchdog]
             \/ pc'[Watchdog] \notin {"age", "escalate"}
      PROVE  LateInv'
  BY <1>1 DEF LateInv, Watched
<1>2. ASSUME NEW p \in Handlers, Poll(p)
      PROVE  LateInv'
  <2>1. pc'[Watchdog] = pc[Watchdog]
    BY <1>2, HostAssumption DEF TypeOK, Poll, Begin, Goto, Threads
  <2>2. QED BY <1>1, <1>2, <2>1 DEF Poll
<1>3. ASSUME NEW p \in Threads, Save(p)
      PROVE  LateInv'
  <2>1. \/ pc'[Watchdog] = pc[Watchdog]
        \/ pc'[Watchdog] \notin {"age", "escalate"}
    BY <1>3 DEF TypeOK, Threads, Save, SaveSnapshot, SaveOpen, SaveDump,
                SaveReplace, Goto
  <2>2. QED BY <1>1, <1>3, <2>1 DEF Save, SaveSnapshot, SaveOpen, SaveDump,
                                    SaveReplace, unsaved
<1>4. CASE Clock
  BY <1>4, HostAssumption
     DEF TypeOK, LateInv, Watched, Clock, Times, Incidents
<1>5. CASE Restart
  <2>1. pc'[Watchdog] = "idle" /\ now' = now /\ checkedAt' = checkedAt
    BY <1>5 DEF Restart, Threads
  <2>2. QED BY <2>1 DEF LateInv, Watched
<1>6. CASE UNCHANGED vars
  BY <1>1, <1>6 DEF vars
<1>7. ASSUME NEW p \in Handlers, Status(p)
      PROVE  LateInv'
  BY <1>6, <1>7 DEF Status
<1>8. QED BY <1>2, <1>3, <1>4, <1>5, <1>6, <1>7, ToggleLate, WatchLate DEF Next

\* For any delay and any interleaving: an escalation that comes too early was
\* overtaken by a change of the state after the watchdog's first look.
THEOREM LateEscalationAlways == Spec => []LateEscalation
<1>1. Init => LateInv
  BY LateInit
<1>2. TypeOK /\ LateInv /\ [Next]_vars => LateInv'
  BY LateStep
<1>3. LateInv => LateEscalation
  BY DEF LateInv, Watched, LateEscalation
<1>4. QED BY <1>1, <1>2, <1>3, TypeCorrect, PTL DEF Spec

-----------------------------------------------------------------------------
(* Without an overlap the file is what memory holds *)

\* The thread is in the middle of a save, or about to begin one.
Saving(p) == pc[p] \in {"snap", "open", "write", "replace"}

\* The one save there is takes what memory holds to the temporary file, which
\* nobody else has open, and from there to the file.
CurrentInv ==
    ~overlapped =>
      /\ \A p, q \in Threads : (pc[p] # "idle" /\ pc[q] # "idle") => p = q
      /\ disk.cur.kind \in {"none", "json"}
      /\ (disk.cur.kind = "json" /\ \A p \in Threads : ~Saving(p)) =>
           disk.cur.data = inc
      /\ \A p \in Threads :
           /\ pc[p] \in {"open", "write"} => snap[p] = inc
           /\ pc[p] = "write" => disk.at[p] = "tmp" /\ disk.tmp.kind = "empty"
           /\ pc[p] = "replace" => disk.tmp = File!Json(inc)

\* A fresh host has no file.
LEMMA CurrentInit == Init => CurrentInv
BY DEF Init, CurrentInv, File!NoDisk, File!Bare

\* A thread that begins while none is at work is the only one.
LEMMA OneBegins ==
    ASSUME TypeOK, NEW p \in Threads, NEW label \in Labels, Begin(p, label),
           ~overlapped'
    PROVE  /\ ~overlapped /\ \A q \in Threads : pc[q] = "idle"
           /\ pc'[p] = label /\ \A q \in Threads : q # p => pc'[q] = "idle"
BY DEF TypeOK, Begin, Goto, AtRest

\* A request begins a save of what it has changed.
LEMMA CurrentRequest ==
    ASSUME TypeOK, CurrentInv, NEW p \in Handlers, NEW value \in States,
           Toggle(p, value) \/ Poll(p)
    PROVE  CurrentInv'
<1>1. SUFFICES ASSUME ~overlapped'
               PROVE  CurrentInv'
  BY DEF CurrentInv
<1>2. /\ ~overlapped /\ \A q \in Threads : pc[q] = "idle"
      /\ pc'[p] = "snap" /\ \A q \in Threads : q # p => pc'[q] = "idle"
  BY <1>1, OneBegins DEF Toggle, Poll, Threads, Labels
<1>3. p \in Threads /\ UNCHANGED disk
  BY DEF Threads, Toggle, Poll
<1>4. QED BY <1>2, <1>3 DEF CurrentInv, Saving

\* The watchdog looks without a change, and changes what it then saves.
LEMMA CurrentWatch ==
    ASSUME TypeOK, CurrentInv, Watch
    PROVE  CurrentInv'
<1>1. SUFFICES ASSUME ~overlapped'
               PROVE  CurrentInv'
  BY DEF CurrentInv
<1>2. Watchdog \in Threads
  BY DEF Threads
<1>3. CASE WatchState
  <2>1. /\ ~overlapped /\ \A q \in Threads : pc[q] = "idle"
        /\ pc'[Watchdog] = "age" /\ \A q \in Threads : q # Watchdog => pc'[q] = "idle"
    BY <1>1, <1>2, <1>3, OneBegins DEF WatchState, Labels
  <2>2. UNCHANGED <<inc, disk>>
    BY <1>3 DEF WatchState
  <2>3. QED BY <2>1, <2>2 DEF CurrentInv, Saving
<1>4. CASE WatchAge \/ WatchEscalate
  <2>1. /\ pc[Watchdog] \in {"age", "escalate"} /\ UNCHANGED <<disk, overlapped>>
        /\ \E l \in {"idle", "escalate", "snap"} :
             pc' = [pc EXCEPT ![Watchdog] = l] /\ (l # "snap" => inc' = inc)
    BY <1>4 DEF WatchAge, WatchEscalate, Goto
  <2>2. PICK l \in {"idle", "escalate", "snap"} :
          pc' = [pc EXCEPT ![Watchdog] = l] /\ (l # "snap" => inc' = inc)
    BY <2>1
  <2>3. \A q \in Threads : q # Watchdog => pc[q] = "idle" /\ pc'[q] = "idle"
    BY <1>1, <1>2, <2>1, <2>2 DEF TypeOK, CurrentInv
  <2>4. pc'[Watchdog] = l
    BY <1>2, <2>2 DEF TypeOK
  <2>5. \A p \in Threads : ~Saving(p)
    BY <2>1, <2>3 DEF Saving
  <2>6. QED BY <1>1, <1>2, <2>1, <2>2, <2>3, <2>4, <2>5 DEF CurrentInv, Saving
<1>5. QED BY <1>3, <1>4 DEF Watch

\* The only save there is ends with what memory holds in the file.
LEMMA CurrentSave ==
    ASSUME TypeOK, CurrentInv, NEW p \in Threads, Save(p)
    PROVE  CurrentInv'
<1>1. /\ UNCHANGED <<inc, overlapped>> /\ Saving(p)
      /\ \E l \in Labels : pc' = [pc EXCEPT ![p] = l]
  BY DEF Save, SaveSnapshot, SaveOpen, SaveDump, SaveReplace, Goto, Labels,
         Saving, unsaved
<1>2. SUFFICES ASSUME ~overlapped
               PROVE  CurrentInv'
  BY <1>1 DEF CurrentInv
<1>3. \A q \in Threads : q # p => pc[q] = "idle" /\ pc'[q] = "idle"
  BY <1>1, <1>2 DEF TypeOK, CurrentInv, Saving
<1>4. File!DiskTypeOK
  BY DEF TypeOK
<1>5. CASE SaveSnapshot(p)
  <2>1. pc'[p] = "open" /\ snap'[p] = inc /\ UNCHANGED disk
    BY <1>5 DEF TypeOK, SaveSnapshot, Goto
  <2>2. QED BY <1>1, <1>2, <1>3, <2>1 DEF CurrentInv, Saving
<1>6. CASE SaveOpen(p)
  <2>1. pc[p] = "open" /\ pc'[p] = "write" /\ UNCHANGED snap
    BY <1>6 DEF TypeOK, SaveOpen, Goto
  <2>2. disk'.cur = disk.cur /\ disk'.tmp.kind = "empty" /\ disk'.at[p] = "tmp"
    BY <1>4, <1>6 DEF SaveOpen, File!OpenTmp, File!Bare, File!DiskTypeOK
  <2>3. QED BY <1>1, <1>2, <1>3, <2>1, <2>2 DEF CurrentInv, Saving
<1>7. CASE SaveDump(p)
  <2>1. pc[p] = "write" /\ pc'[p] = "replace"
    BY <1>7 DEF TypeOK, SaveDump, Goto
  <2>2. disk.at[p] = "tmp" /\ disk.tmp.kind = "empty" /\ snap[p] = inc
    BY <1>2, <2>1 DEF CurrentInv
  <2>3. PICK c \in File!Overlay(File!Held(p), snap[p]) : File!PutContent(p, c)
    BY <1>7 DEF SaveDump, File!Dump
  <2>4. c = File!Json(inc)
    BY <2>2, <2>3 DEF File!Overlay, File!Held
  <2>5. disk'.cur = disk.cur /\ disk'.tmp = File!Json(inc)
    BY <1>4, <2>2, <2>3, <2>4 DEF File!PutContent, File!DiskTypeOK
  <2>6. QED BY <1>1, <1>2, <1>3, <2>1, <2>5 DEF CurrentInv, Saving
<1>8. CASE SaveReplace(p)
  <2>1. pc[p] = "replace" /\ pc'[p] = "idle"
    BY <1>8 DEF TypeOK, SaveReplace, Goto
  <2>2. disk.tmp = File!Json(inc)
    BY <1>2, <2>1 DEF CurrentInv
  <2>3. disk'.cur = File!Json(inc)
    BY <1>8, <2>2 DEF SaveReplace, File!ReplaceFile, File!Json
  <2>4. disk'.cur.kind = "json" /\ disk'.cur.data = inc
    BY <2>3 DEF File!Json
  <2>5. QED BY <1>1, <1>2, <1>3, <2>1, <2>4 DEF CurrentInv, Saving
<1>9. QED BY <1>5, <1>6, <1>7, <1>8 DEF Save

\* A restart has in memory what the file holds.
LEMMA CurrentRestart ==
    ASSUME TypeOK, CurrentInv, Restart
    PROVE  CurrentInv'
<1>1. disk'.cur = disk.cur /\ overlapped' = overlapped
  BY FileCloseType DEF TypeOK, Restart
<1>2. \A p \in Threads : pc'[p] = "idle"
  BY DEF Restart
<1>3. disk.cur.kind = "json" => inc' = disk.cur.data
  BY DEF Restart, Loaded, File!Loadable
<1>4. QED BY <1>1, <1>2, <1>3 DEF CurrentInv, Saving

\* As long as no two threads work at once, whatever toggles, escalations, polls
\* and crashes follow one another: when no save is under way the state file is
\* complete and says what memory says, so no answered toggle is lost.
THEOREM SavedIsCurrentAlways == Spec => []SavedIsCurrent
<1>1. Init => CurrentInv
  BY CurrentInit
<1>2. TypeOK /\ CurrentInv /\ [Next]_vars => CurrentInv'
  <2> SUFFICES ASSUME TypeOK, CurrentInv, [Next]_vars
               PROVE  CurrentInv'
    OBVIOUS
  <2>1. ASSUME UNCHANGED <<inc, pc, snap, disk, overlapped>>
        PROVE  CurrentInv'
    BY <2>1 DEF CurrentInv, Saving
  <2>2. ASSUME NEW p \in Handlers, Status(p)
        PROVE  CurrentInv'
    BY <2>1, <2>2 DEF Status, vars
  <2>3. CASE Clock \/ UNCHANGED vars
    BY <2>1, <2>3 DEF Clock, vars
  <2>4. ASSUME NEW p \in Handlers, Poll(p)
        PROVE  CurrentInv'
    BY <2>4, CurrentRequest, HostAssumption
  <2>5. QED BY <2>2, <2>3, <2>4, CurrentRequest, CurrentWatch, CurrentSave,
               CurrentRestart DEF Next
<1>3. CurrentInv => SavedIsCurrent
  BY DEF CurrentInv, SavedIsCurrent, AtRest, Saving, File!Loadable
<1>4. QED BY <1>1, <1>2, <1>3, TypeCorrect, PTL DEF Spec

==============================================================================
