----------------------------- MODULE DeliveryProofs -----------------------------
(***************************************************************************)
(* What a shell spawned ends with it; its agent files are whole answers, or *)
(* what a child left of its last one, and only move forward; and a poll     *)
(* accounts for every host: for any rosters, shells, modes and faults.       *)
(* What keeps a second writer of the files out is not a lock but a port: a  *)
(* shell that still has it has the files.                                   *)
(***************************************************************************)
EXTENDS Delivery, FiniteSetTheorems, TLAPS

Early  == {"off", "spawn", "forked", "wait", "bind"}
Labels == Early \cup {"pass", "serve", "reap", "end", "done"}
Lives  == {"none", "start", "up", "dying", "gone"}
Alive  == {"up", "dying"}
Lived  == Alive \cup {"gone"}

------------------------------------------------------------------------------
(* Rosters and processes *)

\* The rosters are sequences of hosts.
LEMMA Rosters ==
    /\ Order \in Seq(Hosts) /\ FleetOrder \in Seq(Hosts)
    /\ Kids \subseteq Hosts
<1>1. Order \in Seq(Kids) /\ FleetOrder \in Seq(Bulk)
  BY DeliveryAssumption
<1>2. Kids \subseteq Hosts /\ Bulk \subseteq Hosts
  BY DEF Hosts
<1>3. Order \in Seq(Hosts) /\ FleetOrder \in Seq(Hosts)
  BY <1>1, <1>2
<1> QED BY <1>2, <1>3

\* The members of a sequence are its head and the members of the rest.
LEMMA HeadAndRest ==
    ASSUME NEW S, NEW q \in Seq(S), q # <<>>
    PROVE  /\ Head(q) \in S /\ Tail(q) \in Seq(S)
           /\ ToSet(q) = {Head(q)} \cup ToSet(Tail(q))
<1>1. /\ Head(q) = q[1] /\ Tail(q) \in Seq(S) /\ Len(q) \in Nat \ {0}
      /\ Len(Tail(q)) = Len(q) - 1
      /\ \A i \in 1..(Len(q) - 1) : Tail(q)[i] = q[i + 1]
  OBVIOUS
<1>2. DOMAIN q = 1..Len(q) /\ DOMAIN Tail(q) = 1..(Len(q) - 1)
  BY <1>1
<1>3. q[1] \in S
  BY <1>1
<1>4. ASSUME NEW x \in ToSet(q) PROVE x \in {q[1]} \cup ToSet(Tail(q))
  <2>1. PICK i \in 1..Len(q) : x = q[i]
    BY <1>2 DEF ToSet
  <2>2. CASE i # 1
    <3>1. i - 1 \in 1..(Len(q) - 1) /\ Tail(q)[i - 1] = q[i]
      BY <1>1, <2>2
    <3> QED BY <1>2, <2>1, <3>1 DEF ToSet
  <2> QED BY <2>1, <2>2
<1>5. ASSUME NEW x \in ToSet(Tail(q)) PROVE x \in ToSet(q)
  <2>1. PICK i \in 1..(Len(q) - 1) : x = Tail(q)[i]
    BY <1>2 DEF ToSet
  <2>2. i + 1 \in 1..Len(q) /\ x = q[i + 1]
    BY <1>1, <2>1
  <2> QED BY <1>2, <2>2 DEF ToSet
<1>6. q[1] \in ToSet(q)
  BY <1>1, <1>2 DEF ToSet
<1> QED BY <1>1, <1>3, <1>4, <1>5, <1>6

\* What a shell spawns is a sequence of processes, each once.
LEMMA SpawnedType ==
    /\ Spawned \in Seq(Procs)
    /\ \A i, j \in 1..Len(Spawned) : Spawned[i] = Spawned[j] => i = j
<1>1. /\ Order \in Seq(Kids) /\ Kids \subseteq Procs /\ Fleet \in Procs /\ Fleet \notin Kids
  BY DeliveryAssumption DEF Procs, Hosts
<1>2. Order \in Seq(Procs)
  BY <1>1
<1>3. \A i, j \in 1..Len(Order) : Order[i] = Order[j] => i = j
  BY <1>2, DeliveryAssumption DEF IsInjective
<1>4. \A i \in 1..Len(Order) : Order[i] # Fleet
  BY <1>1
<1>5. /\ Append(Order, Fleet) \in Seq(Procs) /\ Len(Order) \in Nat
      /\ Len(Append(Order, Fleet)) = Len(Order) + 1
      /\ \A i \in 1..(Len(Order) + 1) : Append(Order, Fleet)[i] =
            IF i = Len(Order) + 1 THEN Fleet ELSE Order[i]
  BY <1>1, <1>2
<1>6. ASSUME NEW i \in 1..(Len(Order) + 1), NEW j \in 1..(Len(Order) + 1),
             Append(Order, Fleet)[i] = Append(Order, Fleet)[j]
      PROVE  i = j
  BY <1>3, <1>4, <1>5, <1>6
<1> QED BY <1>2, <1>3, <1>5, <1>6 DEF Spawned

\* The pid file names a shell or is not there.
PidFile == pidfile \in Shells \cup {0}

\* Only estate.py writes it.
LEMMA PidFileNext ==
    ASSUME PidFile, [Next]_vars
    PROVE  PidFile'
<1>1. CASE UNCHANGED pidfile
  BY <1>1 DEF PidFile
<1>2. CASE Down
  BY <1>2 DEF PidFile, Down
<1>3. CASE \E s \in Shells : Up(s)
  BY <1>3 DEF PidFile, Up
<1>4. CASE \E s \in Shells : Interrupt(s) \/ Boot(s) \/ Wake(s)
  BY <1>1, <1>4 DEF Interrupt, Boot, Fork, Keep, WaitReady, AskRoster, Advance, Bind,
                    Terminate, End, Signal, Wake, shells
<1>5. CASE \E s \in Shells, w \in Threads : File(s, w) \/ WriteFails(s, w)
  <2>1. CASE \E s \in Shells, w \in Threads : MakeDir(s, w) \/ Fetch(s, w) \/ PassEnds(s, w)
    BY <1>1, <2>1 DEF MakeDir, Fetch, PassEnds
  <2>2. CASE \E s \in Shells, w \in Threads :
                Open(s, w) \/ Fill(s, w) \/ Rename(s, w) \/ WriteFails(s, w)
    BY <1>1, <2>2 DEF Open, Fill, Rename, WriteFails, shells
  <2> QED BY <1>5, <2>1, <2>2 DEF File
<1>6. CASE \/ Poll \/ Block \/ Answered
           \/ \E s \in Shells, p \in Procs : Process(s, p) \/ ChildDies(s, p)
           \/ \E s \in Shells, h \in Kids : Toggle(s, h)
  BY <1>1, <1>6 DEF Poll, Block, Answered, Process, ChildBinds, ChildExits, ChildDies,
                    Toggle, shells
<1> QED BY <1>1, <1>2, <1>3, <1>4, <1>5, <1>6 DEF Next, vars, shells

------------------------------------------------------------------------------
(* The end of the children *)

ShellTypes ==
    /\ main \in [Shells -> [pc : Labels, todo : Seq(Procs)]]
    /\ child \in [Shells -> [Procs -> Lives]]
    /\ handle \in [Shells -> SUBSET Procs]

\* Processes still to be spawned, each once.
Unmade(s, q) ==
    /\ \A i, j \in 1..Len(q) : q[i] = q[j] => i = j
    /\ \A i \in 1..Len(q) : child[s][q[i]] = "none"

\* A child is spawned once.  A handle is that of a child that was spawned and
\* that the finally clause will come to, has come to, or need not come to.
Covered(s) ==
    /\ main[s].pc = "off" => \A p \in Procs : child[s][p] = "none"
    /\ main[s].pc = "spawn" => Unmade(s, main[s].todo)
    /\ main[s].pc \in {"spawn", "forked"} => ToSet(main[s].todo) \subseteq ToSet(Spawned)
    /\ main[s].pc = "forked" =>
          /\ main[s].todo # <<>> /\ child[s][Head(main[s].todo)] # "none"
          /\ Unmade(s, Tail(main[s].todo))
    /\ \A p \in handle[s] :
          /\ p \in ToSet(Spawned) /\ child[s][p] # "none"
          /\ main[s].pc \in {"reap", "end"} =>
                p \in ToSet(main[s].todo) \/ child[s][p] \in {"dying", "gone"}

ReapInv == ShellTypes /\ \A s \in Shells : Covered(s)

\* What concerns a shell is the same: it is covered as before.
LEMMA SameCovers ==
    ASSUME NEW s \in Shells, Covered(s), Spawned' = Spawned,
           main'[s] = main[s], child'[s] = child[s], handle'[s] = handle[s]
    PROVE  Covered(s)'
BY Zenon DEF Covered, Unmade

\* Children that are there move on and stay gone, and none comes up unspawned.
Onward ==
    /\ child' \in [Shells -> [Procs -> Lives]]
    /\ \A r \in Shells, q \in Procs :
          /\ child'[r][q] = "none" <=> child[r][q] = "none"
          /\ child[r][q] \in {"dying", "gone"} => child'[r][q] \in {"dying", "gone"}

\* One child's next stage.
LEMMA OneOnward ==
    ASSUME ReapInv, NEW s \in Shells, NEW p, NEW life \in Lives,
           child' = [child EXCEPT ![s][p] = life],
           \/ life = "up" /\ child[s][p] = "start"
           \/ life \in {"dying", "gone"} /\ child[s][p] # "none"
    PROVE  Onward
<1>1. /\ child' \in [Shells -> [Procs -> Lives]]
      /\ \A r \in Shells, q \in Procs :
            child'[r][q] = IF r = s /\ q = p THEN life ELSE child[r][q]
  BY DEF ReapInv, ShellTypes
<1> QED BY <1>1 DEF Onward

\* An end in the middle of an answer is one.
LEMMA MidwayOnward ==
    ASSUME ReapInv, NEW s \in Shells, NEW p, EndsMidway(s, p)
    PROVE  Onward
<1>1. "gone" \in Lives /\ child[s][p] # "none" /\ child' = [child EXCEPT ![s][p] = "gone"]
  BY DEF Lives, EndsMidway, Ends
<1> QED BY <1>1, OneOnward

\* And so is nothing at all.
LEMMA StillOnward ==
    ASSUME ReapInv, UNCHANGED child PROVE Onward
BY DEF ReapInv, ShellTypes, Onward

\* Children move on: what was unmade still is.
LEMMA UnmadeKept ==
    ASSUME Onward, NEW s \in Shells, NEW q \in Seq(Procs)
    PROVE  Unmade(s, q) => /\ \A i, j \in 1..Len(q) : q[i] = q[j] => i = j
                           /\ \A i \in 1..Len(q) : child'[s][q[i]] = "none"
<1>1. \A i \in 1..Len(q) : q[i] \in Procs
  OBVIOUS
<1> QED BY <1>1 DEF Onward, Unmade

\* The same of a main thread that stays where it is.
LEMMA UnmadeStays ==
    ASSUME Onward, NEW r \in Shells, main'[r] = main[r], main[r].todo \in Seq(Procs)
    PROVE  /\ Unmade(r, main[r].todo) => Unmade(r, main[r].todo)'
           /\ main[r].todo # <<>> /\ Unmade(r, Tail(main[r].todo))
                 => Unmade(r, Tail(main[r].todo))'
<1> DEFINE Made(q) == /\ \A i, j \in 1..Len(q) : q[i] = q[j] => i = j
                      /\ \A i \in 1..Len(q) : child'[r][q[i]] = "none"
<1>1. \A q \in Seq(Procs) : Unmade(r, q) => Made(q)
  BY UnmadeKept
<1>2. main'[r].todo = main[r].todo
  OBVIOUS
<1>3. main[r].todo # <<>> => Tail(main[r].todo) \in Seq(Procs)
  BY HeadAndRest
<1>4. Unmade(r, main[r].todo)' <=> Made(main[r].todo)
  BY <1>2 DEF Unmade
<1>5. Unmade(r, Tail(main[r].todo))' <=> Made(Tail(main[r].todo))
  BY <1>2 DEF Unmade
<1> HIDE DEF Made
<1> QED BY <1>1, <1>3, <1>4, <1>5

\* Children move on, main threads and handles stay.
LEMMA ChildCovers ==
    ASSUME ReapInv, UNCHANGED <<mode, main, handle>>, Onward
    PROVE  ReapInv'
<1>2. Spawned' = Spawned
  BY DEF Spawned
<1>3. ASSUME NEW r \in Shells PROVE Covered(r)'
  <2>1. /\ main[r].todo \in Seq(Procs)
        /\ main[r].todo # <<>> => /\ Head(main[r].todo) \in Procs
                                  /\ Tail(main[r].todo) \in Seq(Procs)
    BY HeadAndRest DEF ReapInv, ShellTypes
  <2>2. \A q \in handle[r] : q \in Procs
    BY DEF ReapInv, ShellTypes
  <2>3. /\ Unmade(r, main[r].todo) => Unmade(r, main[r].todo)'
        /\ main[r].todo # <<>> /\ Unmade(r, Tail(main[r].todo))
              => Unmade(r, Tail(main[r].todo))'
    BY <2>1, UnmadeStays
  <2> QED BY <1>2, <2>1, <2>2, <2>3 DEF ReapInv, Covered, Onward
<1> QED BY <1>3 DEF ReapInv, ShellTypes, Onward

\* One main thread moves, handles stay.
LEMMA MoveCovers ==
    ASSUME ReapInv, UNCHANGED <<mode, handle>>, Onward,
           NEW s \in Shells, NEW label \in Labels, NEW todo \in Seq(Procs),
           Goto(s, label, todo), label \notin {"off", "forked"},
           label = "spawn" => ToSet(todo) \subseteq ToSet(Spawned) /\ Unmade(s, todo),
           label = "reap" => todo = Spawned,
           label = "end" => main[s].pc = "reap" /\ todo = main[s].todo
    PROVE  ReapInv'
<1>1. /\ main' \in [Shells -> [pc : Labels, todo : Seq(Procs)]]
      /\ main'[s].pc = label /\ main'[s].todo = todo
      /\ \A r \in Shells : r # s => main'[r] = main[r]
  BY DEF ReapInv, ShellTypes, Goto, At
<1>2. Spawned' = Spawned
  BY DEF Spawned
<1>3. \A r \in Shells : \A q \in handle[r] : q \in Procs
  BY DEF ReapInv, ShellTypes
<1>4. ASSUME NEW r \in Shells, r # s PROVE Covered(r)'
  <2>1. /\ main[r].todo \in Seq(Procs)
        /\ main[r].todo # <<>> => /\ Head(main[r].todo) \in Procs
                                  /\ Tail(main[r].todo) \in Seq(Procs)
    BY HeadAndRest DEF ReapInv, ShellTypes
  <2>2. main'[r] = main[r]
    BY <1>1, <1>4
  <2>3. /\ Unmade(r, main[r].todo) => Unmade(r, main[r].todo)'
        /\ main[r].todo # <<>> /\ Unmade(r, Tail(main[r].todo))
              => Unmade(r, Tail(main[r].todo))'
    BY <2>1, <2>2, UnmadeStays
  <2> QED BY <1>2, <1>3, <2>1, <2>2, <2>3 DEF ReapInv, Covered, Onward
<1>5. Covered(s)'
  <2>1. label = "spawn" => /\ \A i, j \in 1..Len(todo) : todo[i] = todo[j] => i = j
                           /\ \A i \in 1..Len(todo) : child'[s][todo[i]] = "none"
    BY UnmadeKept
  <2>2. label = "spawn" => Unmade(s, main[s].todo)'
    BY <1>1, <2>1 DEF Unmade
  <2>3. ASSUME NEW p \in handle[s]
        PROVE  /\ p \in ToSet(Spawned) /\ child'[s][p] # "none"
               /\ label \in {"reap", "end"} =>
                     p \in ToSet(todo) \/ child'[s][p] \in {"dying", "gone"}
    <3>1. p \in Procs /\ p \in ToSet(Spawned) /\ child[s][p] # "none"
      BY <1>3 DEF ReapInv, Covered
    <3>2. label = "end" => p \in ToSet(todo) \/ child[s][p] \in {"dying", "gone"}
      BY DEF ReapInv, Covered
    <3> QED BY <3>1, <3>2 DEF Onward
  <2>4. handle'[s] = handle[s]
    OBVIOUS
  <2> HIDE DEF Onward
  <2> QED BY <1>1, <1>2, <2>2, <2>3, <2>4 DEF Covered
<1> QED BY <1>1, <1>4, <1>5 DEF ReapInv, ShellTypes, Onward

\* A fork makes the child that Keep will take the handle of.
LEMMA ForkCovers ==
    ASSUME ReapInv, NEW s \in Shells, Fork(s)
    PROVE  ReapInv'
<1> DEFINE todo == main[s].todo
           p == Head(todo)
<1>t. /\ todo \in Seq(Procs) /\ todo # <<>> /\ main[s].pc = "spawn"
      /\ UNCHANGED <<mode, handle>> /\ ToSet(todo) \subseteq ToSet(Spawned)
      /\ Unmade(s, todo)
  BY DEF ReapInv, ShellTypes, Covered, Fork
<1>h. /\ p \in Procs /\ Tail(todo) \in Seq(Procs)
      /\ ToSet(Tail(todo)) \subseteq ToSet(Spawned)
  BY <1>t, HeadAndRest
<1>i. /\ p = todo[1] /\ Len(todo) \in Nat \ {0} /\ Len(Tail(todo)) = Len(todo) - 1
      /\ \A i \in 1..(Len(todo) - 1) : Tail(todo)[i] = todo[i + 1]
  BY <1>t
<1>j. /\ Unmade(s, Tail(todo)) /\ child[s][p] = "none"
      /\ \A i \in 1..Len(Tail(todo)) : Tail(todo)[i] # p
  BY <1>t, <1>i DEF Unmade
<1>e. \/ Goto(s, "spawn", Tail(todo)) /\ UNCHANGED child
      \/ Goto(s, "forked", todo) /\ child' = [child EXCEPT ![s][p] = "start"]
  BY DEF Fork
<1> HIDE DEF p, todo
<1>1. CASE Goto(s, "spawn", Tail(todo)) /\ UNCHANGED child
  BY <1>1, <1>t, <1>h, <1>j, MoveCovers, StillOnward DEF Labels, Early
<1>2. CASE Goto(s, "forked", todo) /\ child' = [child EXCEPT ![s][p] = "start"]
  <2>1. /\ main' \in [Shells -> [pc : Labels, todo : Seq(Procs)]]
        /\ main'[s].pc = "forked" /\ main'[s].todo = todo
        /\ \A r \in Shells : r # s => main'[r] = main[r]
    BY <1>2, <1>t DEF ReapInv, ShellTypes, Goto, At, Labels, Early
  <2>2. /\ child' \in [Shells -> [Procs -> Lives]]
        /\ \A r \in Shells, q \in Procs :
              child'[r][q] = IF r = s /\ q = p THEN "start" ELSE child[r][q]
    BY <1>2, <1>h DEF ReapInv, ShellTypes, Lives
  <2>3. Spawned' = Spawned
    BY <1>t DEF Spawned
  <2>4. Covered(s)'
    <3>1. \A q \in handle[s] : q \in Procs
      BY DEF ReapInv, ShellTypes
    <3>2. /\ \A i, j \in 1..Len(Tail(todo)) : Tail(todo)[i] = Tail(todo)[j] => i = j
          /\ \A i \in 1..Len(Tail(todo)) :
                Tail(todo)[i] \in Procs /\ child[s][Tail(todo)[i]] = "none"
      BY <1>h, <1>j DEF Unmade
    <3>3. \A i \in 1..Len(Tail(todo)) : child'[s][Tail(todo)[i]] = "none"
      BY <3>2, <1>j, <2>2
    <3>4. Unmade(s, Tail(main[s].todo))'
      BY <2>1, <3>2, <3>3 DEF Unmade
    <3>5. child'[s][p] # "none" /\ main'[s].todo # <<>> /\ p = Head(main'[s].todo)
      BY <2>1, <2>2, <1>t, <1>h DEF p, todo
    <3>6. \A q \in handle[s] : q \in ToSet(Spawned) /\ child'[s][q] # "none"
      BY <3>1, <2>2 DEF ReapInv, Covered
    <3> QED BY <3>4, <3>5, <3>6, <1>t, <2>1, <2>3 DEF Covered
  <2>5. ASSUME NEW r \in Shells, r # s PROVE Covered(r)'
    <3>1. child'[r] = child[r]
      BY <1>2, <2>5 DEF ReapInv, ShellTypes
    <3> QED BY <2>5, <3>1, <1>t, <2>1, <2>3, SameCovers DEF ReapInv
  <2> QED BY <1>t, <2>1, <2>2, <2>4, <2>5 DEF ReapInv, ShellTypes
<1> QED BY <1>1, <1>2, <1>e

\* Popen returns: the handle is that of a child that exists.
LEMMA KeepCovers ==
    ASSUME ReapInv, NEW s \in Shells, Keep(s)
    PROVE  ReapInv'
<1>t. /\ main[s].todo \in Seq(Procs) /\ main[s].todo # <<>> /\ main[s].pc = "forked"
      /\ child[s][Head(main[s].todo)] # "none" /\ ToSet(main[s].todo) \subseteq ToSet(Spawned)
      /\ Unmade(s, Tail(main[s].todo))
  BY DEF ReapInv, ShellTypes, Covered, Keep
<1>h. /\ Head(main[s].todo) \in Procs /\ Tail(main[s].todo) \in Seq(Procs)
      /\ ToSet(main[s].todo) = {Head(main[s].todo)} \cup ToSet(Tail(main[s].todo))
  BY <1>t, HeadAndRest
<1>1. /\ main' \in [Shells -> [pc : Labels, todo : Seq(Procs)]]
      /\ main'[s].pc = "spawn" /\ main'[s].todo = Tail(main[s].todo)
      /\ \A r \in Shells : r # s => main'[r] = main[r]
  BY <1>h DEF Keep, ReapInv, ShellTypes, Goto, At, Labels, Early
<1>2. /\ handle' \in [Shells -> SUBSET Procs]
      /\ handle'[s] = handle[s] \cup {Head(main[s].todo)}
      /\ \A r \in Shells : r # s => handle'[r] = handle[r]
  BY <1>h DEF Keep, ReapInv, ShellTypes
<1>3. Spawned' = Spawned /\ child' = child
  BY DEF Keep, Spawned, kids
<1>4. \A r \in Shells : Covered(r)'
  <2> TAKE r \in Shells
  <2>1. CASE r = s
    BY <2>1, <1>t, <1>h, <1>1, <1>2, <1>3 DEF ReapInv, Covered, Unmade
  <2>2. CASE r # s
    BY <2>2, <1>1, <1>2, <1>3, SameCovers DEF ReapInv
  <2> QED BY <2>1, <2>2
<1> QED BY <1>1, <1>2, <1>3, <1>4 DEF ReapInv, ShellTypes

\* The finally clause comes to one child after the other.
LEMMA TerminateCovers ==
    ASSUME ReapInv, NEW s \in Shells, Terminate(s)
    PROVE  ReapInv'
<1> DEFINE p == Head(main[s].todo)
           life == IF p \in handle[s] /\ child[s][p] \in {"start", "up"}
                   THEN "dying" ELSE child[s][p]
<1>t. /\ main[s].todo \in Seq(Procs) /\ main[s].todo # <<>> /\ main[s].pc = "reap"
      /\ UNCHANGED <<mode, handle>>
  BY DEF ReapInv, ShellTypes, Terminate
<1>h. /\ p \in Procs /\ Tail(main[s].todo) \in Seq(Procs)
      /\ ToSet(main[s].todo) = {p} \cup ToSet(Tail(main[s].todo))
  BY <1>t, HeadAndRest
<1>1. /\ main' \in [Shells -> [pc : Labels, todo : Seq(Procs)]]
      /\ main'[s].pc = "reap" /\ main'[s].todo = Tail(main[s].todo)
      /\ \A r \in Shells : r # s => main'[r] = main[r]
  BY <1>h DEF Terminate, ReapInv, ShellTypes, Goto, At, Labels
<1>2. child[s][p] \in Lives /\ life \in Lives
  BY <1>h DEF ReapInv, ShellTypes, Lives
<1>3. child' = [child EXCEPT ![s][p] = life]
  BY <1>h DEF Terminate, ReapInv, ShellTypes
<1>l. life = "dying" \/ life = child[s][p]
  OBVIOUS
<1>m. p \in handle[s] => life \in {"dying", "gone"}
  BY <1>2 DEF ReapInv, Covered, Lives
<1> HIDE DEF p, life
<1>4. /\ child' \in [Shells -> [Procs -> Lives]]
      /\ \A r \in Shells, q \in Procs :
            child'[r][q] = IF r = s /\ q = p THEN life ELSE child[r][q]
  BY <1>h, <1>2, <1>3 DEF ReapInv, ShellTypes
<1>5. Spawned' = Spawned
  BY <1>t DEF Spawned
<1>6. \A r \in Shells : Covered(r)'
  <2> TAKE r \in Shells
  <2>1. CASE r = s
    <3>1. \A q \in handle[s] : q \in Procs /\ (q # p => child'[s][q] = child[s][q])
      BY <1>4 DEF ReapInv, ShellTypes
    <3>2. ASSUME NEW q \in handle[s]
          PROVE  /\ q \in ToSet(Spawned) /\ child'[s][q] # "none"
                 /\ q \in ToSet(Tail(main[s].todo)) \/ child'[s][q] \in {"dying", "gone"}
      <4>1. CASE q = p
        BY <4>1, <3>2, <1>h, <1>m, <1>4 DEF ReapInv, Covered
      <4>2. CASE q # p
        BY <4>2, <3>1, <3>2, <1>h, <1>t DEF ReapInv, Covered
      <4> QED BY <4>1, <4>2
    <3> QED BY <2>1, <3>2, <1>t, <1>1, <1>5 DEF Covered
  <2>2. CASE r # s
    <3>1. child'[r] = child[r]
      BY <1>3, <2>2 DEF ReapInv, ShellTypes
    <3> QED BY <2>2, <3>1, <1>t, <1>1, <1>5, SameCovers DEF ReapInv
  <2> QED BY <2>1, <2>2
<1> QED BY <1>t, <1>1, <1>4, <1>6 DEF ReapInv, ShellTypes

\* The process is gone, and its handles with it.
LEMMA EndCovers ==
    ASSUME ReapInv, NEW s \in Shells, End(s)
    PROVE  ReapInv'
<1>1. /\ main' \in [Shells -> [pc : Labels, todo : Seq(Procs)]]
      /\ main'[s].pc = "done" /\ \A r \in Shells : r # s => main'[r] = main[r]
  BY DEF End, ReapInv, ShellTypes, Goto, At, Labels
<1>2. /\ handle' \in [Shells -> SUBSET Procs] /\ handle'[s] = {}
      /\ \A r \in Shells : r # s => handle'[r] = handle[r]
  BY DEF End, ReapInv, ShellTypes
<1>3. Spawned' = Spawned /\ child' = child
  BY DEF End, Spawned, kids
<1>4. \A r \in Shells : Covered(r)'
  <2> TAKE r \in Shells
  <2>1. CASE r = s
    BY <2>1, <1>1, <1>2 DEF Covered
  <2>2. CASE r # s
    BY <2>2, <1>1, <1>2, <1>3, SameCovers DEF ReapInv
  <2> QED BY <2>1, <2>2
<1> QED BY <1>1, <1>2, <1>3, <1>4 DEF ReapInv, ShellTypes

\* At first there are no children.
LEMMA ReapInit == Init => ReapInv
BY DEF Init, ReapInv, ShellTypes, Covered, At, Labels, Early, Lives

\* Every step keeps children covered.
LEMMA ReapNext ==
    ASSUME ReapInv, PidFile, [Next]_vars
    PROVE  ReapInv'
<1> USE DEF Labels, Early
<1>t. /\ Spawned \in Seq(Procs) /\ <<>> \in Seq(Procs)
      /\ \A s \in Shells : /\ main[s].todo \in Seq(Procs)
                           /\ main[s].todo # <<>> => Tail(main[s].todo) \in Seq(Procs)
  BY SpawnedType, HeadAndRest DEF ReapInv, ShellTypes
<1>c. UNCHANGED child => Onward
  BY StillOnward
<1>u. UNCHANGED <<mode, main, child, handle>> => ReapInv'
  BY <1>c, ChildCovers
<1>s. ASSUME NEW s \in Shells, Signal(s) PROVE ReapInv'
  <2>1. UNCHANGED <<mode, child, handle>>
    BY <1>s DEF Signal, kids
  <2>2. CASE main[s].pc = "reap" /\ Goto(s, "end", main[s].todo)
    BY <2>1, <2>2, <1>t, <1>c, MoveCovers
  <2>3. CASE Goto(s, "reap", Spawned)
    BY <2>1, <2>3, <1>t, <1>c, MoveCovers
  <2> QED BY <1>s, <2>2, <2>3 DEF Signal
<1>0. CASE UNCHANGED vars
  BY <1>0, <1>u DEF vars, shells, kids
<1>1. CASE Down
  <2>1. pidfile \in Shells
    BY <1>1 DEF Down, PidFile
  <2> QED BY <1>1, <1>s, <1>u, <2>1 DEF Down, kids
<1>2. CASE Poll \/ Answered
  BY <1>2, <1>u DEF Poll, Answered, shells, kids
<1>b. CASE Block
  <2>1. UNCHANGED <<mode, main, handle>>
    BY <1>b DEF Block, shells
  <2>2. CASE UNCHANGED child
    BY <2>1, <2>2, <1>c, ChildCovers
  <2>3. CASE \E r \in Shells : EndsMidway(r, Proc(Head(poll.todo)))
    BY <2>1, <2>3, MidwayOnward, ChildCovers
  <2> QED BY <1>b, <2>2, <2>3 DEF Block, kids
<1>3. ASSUME NEW s \in Shells, Up(s) \/ Interrupt(s) \/ Boot(s) \/ Wake(s)
      PROVE  ReapInv'
  <2>1. CASE Up(s)
    <3>1. UNCHANGED <<mode, child, handle>> /\ Goto(s, "spawn", Spawned)
      BY <2>1 DEF Up, kids
    <3>2. \A i \in 1..Len(Spawned) : Spawned[i] \in Procs
      BY <1>t
    <3>3. Unmade(s, Spawned)
      BY <2>1, <3>2, SpawnedType DEF Up, ReapInv, Covered, Unmade
    <3> QED BY <3>1, <3>3, <1>t, <1>c, MoveCovers
  <2>2. CASE Interrupt(s)
    BY <2>2, <1>s DEF Interrupt
  <2>3. CASE Fork(s)
    BY <2>3, ForkCovers
  <2>4. CASE Keep(s)
    BY <2>4, KeepCovers
  <2>5. CASE WaitReady(s)
    BY <2>5, <1>t, <1>c, MoveCovers DEF WaitReady, kids
  <2>6. CASE AskRoster(s)
    <3>1. UNCHANGED <<mode, handle>>
      BY <2>6 DEF AskRoster
    <3>2. CASE Goto(s, "wait", <<>>) /\ UNCHANGED kids
      BY <3>1, <3>2, <1>t, <1>c, MoveCovers DEF kids
    <3>3. CASE Goto(s, "reap", Spawned) /\ \E r \in Shells : EndsMidway(r, Fleet)
      BY <3>1, <3>3, <1>t, MidwayOnward, MoveCovers
    <3> QED BY <2>6, <3>2, <3>3 DEF AskRoster
  <2>7. CASE Advance(s)
    <3>1. UNCHANGED <<mode, child, handle>> /\ main[s].todo = <<>>
      BY <2>7 DEF Advance, kids
    <3>2. CASE Goto(s, "wait", Spawned)
      BY <3>1, <3>2, <1>t, <1>c, MoveCovers
    <3>3. CASE Goto(s, "bind", <<>>)
      BY <3>1, <3>3, <1>t, <1>c, MoveCovers
    <3>4. CASE main[s].pc = "reap" /\ Goto(s, "end", <<>>)
      BY <3>1, <3>4, <1>t, <1>c, MoveCovers
    <3> QED BY <2>7, <3>2, <3>3, <3>4 DEF Advance
  <2>8. CASE Bind(s)
    <3>1. UNCHANGED <<mode, child, handle>>
      BY <2>8 DEF Bind, kids
    <3>2. CASE Goto(s, "reap", Spawned)
      BY <3>1, <3>2, <1>t, <1>c, MoveCovers
    <3>3. CASE Goto(s, IF mode.delivery = "datasource" THEN "pass" ELSE "serve", <<>>)
      BY <3>1, <3>3, <1>t, <1>c, MoveCovers
    <3> QED BY <2>8, <3>2, <3>3 DEF Bind
  <2>9. CASE Terminate(s)
    BY <2>9, TerminateCovers
  <2>10. CASE End(s)
    BY <2>10, EndCovers
  <2>11. CASE Wake(s)
    BY <2>11, <1>u DEF Wake, shells, kids
  <2> QED BY <1>3, <2>1, <2>2, <2>3, <2>4, <2>5, <2>6, <2>7, <2>8, <2>9, <2>10, <2>11 DEF Boot
<1>4. ASSUME NEW s \in Shells, NEW w \in Threads, File(s, w) \/ WriteFails(s, w)
      PROVE  ReapInv'
  <2>1. CASE MakeDir(s, w)
    <3>1. UNCHANGED <<mode, child, handle>>
      BY <2>1 DEF MakeDir, kids
    <3>2. CASE Goto(s, "reap", Spawned)
      BY <3>1, <3>2, <1>t, <1>c, MoveCovers
    <3>3. CASE UNCHANGED main
      BY <3>1, <3>3, <1>u
    <3> QED BY <2>1, <3>2, <3>3 DEF MakeDir, Lose
  <2>2. CASE PassEnds(s, w)
    <3>1. UNCHANGED <<mode, child, handle>>
      BY <2>2 DEF PassEnds, kids
    <3>2. CASE Goto(s, "serve", <<>>)
      BY <3>1, <3>2, <1>t, <1>c, MoveCovers
    <3>3. CASE UNCHANGED main
      BY <3>1, <3>3, <1>u
    <3> QED BY <2>2, <3>2, <3>3 DEF PassEnds
  <2>3. CASE Open(s, w) \/ Fill(s, w) \/ Rename(s, w) \/ WriteFails(s, w)
    BY <2>3, <1>u DEF Open, Fill, Rename, WriteFails, shells, kids
  <2>4. CASE Fetch(s, w)
    <3>1. UNCHANGED <<mode, handle>>
      BY <2>4 DEF Fetch
    <3>2. CASE UNCHANGED <<main, kids>>
      BY <3>1, <3>2, <1>u DEF kids
    <3>3. CASE \E r \in Shells : EndsMidway(r, Proc(InHand(s, w)))
      <4>1. Onward
        BY <3>3, MidwayOnward
      <4>2. CASE UNCHANGED main
        BY <3>1, <4>1, <4>2, ChildCovers
      <4>3. CASE Goto(s, "reap", Spawned)
        BY <3>1, <4>1, <4>3, <1>t, MoveCovers
      <4> QED BY <2>4, <3>2, <4>2, <4>3 DEF Fetch, Lose
    <3> QED BY <2>4, <3>2, <3>3 DEF Fetch
  <2> QED BY <1>4, <2>1, <2>2, <2>3, <2>4 DEF File
<1>5. ASSUME NEW s \in Shells, NEW p \in Procs, Process(s, p) \/ ChildDies(s, p)
      PROVE  ReapInv'
  <2>1. UNCHANGED <<mode, main, handle>>
    BY <1>5 DEF Process, ChildBinds, ChildExits, ChildDies, shells
  <2>2. CASE Ends(s, p) /\ child[s][p] # "none"
    BY <2>1, <2>2, OneOnward, ChildCovers, "gone" \in Lives DEF Ends, Lives
  <2>3. CASE child[s][p] = "start" /\ child' = [child EXCEPT ![s][p] = "up"]
    BY <2>1, <2>3, OneOnward, ChildCovers, "up" \in Lives DEF Lives
  <2> QED BY <1>5, <2>2, <2>3 DEF Process, ChildBinds, ChildExits, ChildDies
<1>6. ASSUME NEW s \in Shells, NEW h \in Kids, Toggle(s, h)
      PROVE  ReapInv'
  BY <1>6, <1>u DEF Toggle, shells
<1> QED BY <1>0, <1>1, <1>2, <1>b, <1>3, <1>4, <1>5, <1>6 DEF Next

\* A shell that comes to the end of its finally clause leaves no child behind
\* that it holds a handle of, for any roster and any deaths (Child.terminate).
THEOREM ReapedAlways == Spec => []Reaped
<1>1. Init => ReapInv /\ PidFile
  BY ReapInit DEF Init, PidFile
<1>2. ReapInv /\ PidFile /\ [Next]_vars => ReapInv' /\ PidFile'
  BY ReapNext, PidFileNext
<1>3. ReapInv => Reaped
  <2>1. ToSet(<<>>) = {}
    BY DEF ToSet
  <2> QED BY <2>1 DEF ReapInv, Covered, Reaped
<1> QED BY <1>1, <1>2, <1>3, PTL DEF Spec

------------------------------------------------------------------------------
(* What a process knows, and its age *)

MemoryTypes == takes \in [Shells -> [Procs -> Nat]] /\ known \in [Procs -> Nat]

\* A process that came to its port never does again; while it is there it
\* forgets nothing, and a process that is gone stays gone.
Ages ==
    \A r \in Shells, p \in Procs :
       /\ child[r][p] = "gone" => child'[r][p] = "gone"
       /\ child[r][p] \in Lived => child'[r][p] \in Lived
       /\ child[r][p] \in Lived /\ child'[r][p] \in Alive =>
             child[r][p] \in Alive /\ takes[r][p] <= takes'[r][p]

\* Nothing happens to the processes,
LEMMA StillAges ==
    ASSUME MemoryTypes, UNCHANGED <<child, takes>> PROVE Ages
<1>1. \A r \in Shells, p \in Procs : takes[r][p] <= takes[r][p]
  BY DEF MemoryTypes
<1> QED BY <1>1 DEF Ages, Lived

\* one of them ends,
LEMMA EndsAges ==
    ASSUME ReapInv, MemoryTypes, NEW s \in Shells, NEW p, Ends(s, p)
    PROVE  Ages /\ MemoryTypes'
<1>1. /\ \A r \in Shells, q \in Procs : child'[r][q] =
            IF r = s /\ q = p THEN "gone" ELSE child[r][q]
      /\ \A r \in Shells, q \in Procs : takes'[r][q] =
            IF r = s /\ q = p THEN 0 ELSE takes[r][q]
      /\ takes' \in [Shells -> [Procs -> Nat]] /\ UNCHANGED known
  BY DEF Ends, ReapInv, ShellTypes, MemoryTypes
<1>2. \A r \in Shells, q \in Procs : takes[r][q] <= takes[r][q]
  BY DEF MemoryTypes
<1> QED BY <1>1, <1>2 DEF Ages, Lived, Alive, MemoryTypes

\* or comes to a stage of its life that is not its port's end.
LEMMA StageAges ==
    ASSUME ReapInv, MemoryTypes, UNCHANGED takes, NEW s \in Shells, NEW p,
           NEW life \in Lives, child' = [child EXCEPT ![s][p] = life],
           \/ life = child[s][p]
           \/ life = "start" /\ child[s][p] = "none"
           \/ life = "dying" /\ child[s][p] \in {"start", "up"}
    PROVE  Ages
<1>1. \A r \in Shells, q \in Procs : child'[r][q] =
         IF r = s /\ q = p THEN life ELSE child[r][q]
  BY DEF ReapInv, ShellTypes
<1>2. \A r \in Shells, q \in Procs : takes[r][q] <= takes'[r][q]
  BY DEF MemoryTypes
<1> QED BY <1>1, <1>2 DEF Ages, Lived, Alive

\* Whatever a shell, a child or a poll does, processes age.
LEMMA AgesNext ==
    ASSUME ReapInv, MemoryTypes, PidFile, [Next]_vars
    PROVE  Ages /\ MemoryTypes'
<1>u. UNCHANGED kids => Ages /\ MemoryTypes'
  BY StillAges DEF kids, memory, MemoryTypes
<1>e. ASSUME NEW s \in Shells, NEW p, EndsMidway(s, p) PROVE Ages /\ MemoryTypes'
  BY <1>e, EndsAges DEF EndsMidway
<1>0. CASE UNCHANGED vars
  BY <1>0, <1>u DEF vars
<1>1. CASE Down
  BY <1>1, <1>u DEF Down, Signal
<1>2. CASE Poll \/ Block \/ Answered
  BY <1>2, <1>u, <1>e DEF Poll, Block, Answered
<1>3. ASSUME NEW s \in Shells, Up(s) \/ Interrupt(s) \/ Boot(s) \/ Wake(s)
      PROVE  Ages /\ MemoryTypes'
  <2>1. CASE Up(s) \/ Interrupt(s) \/ Keep(s) \/ WaitReady(s) \/ Advance(s) \/ Bind(s)
             \/ End(s) \/ Wake(s)
    BY <2>1, <1>u DEF Up, Interrupt, Signal, Keep, WaitReady, Advance, Bind, End, Wake
  <2>2. CASE Fork(s)
    <3> DEFINE p == Head(main[s].todo)
    <3>1. UNCHANGED <<takes, known>> /\ MemoryTypes'
      BY <2>2 DEF Fork, memory, MemoryTypes
    <3>2. child[s][p] = "none"
      <4>1. main[s].todo \in Seq(Procs) /\ main[s].todo # <<>> /\ Unmade(s, main[s].todo)
        BY <2>2 DEF ReapInv, ShellTypes, Covered, Fork
      <4> QED BY <4>1 DEF Unmade
    <3>3. CASE UNCHANGED child
      BY <3>1, <3>3, StillAges
    <3>4. CASE child' = [child EXCEPT ![s][p] = "start"]
      <4>1. "start" \in Lives
        BY DEF Lives
      <4> HIDE DEF p
      <4> QED BY <3>1, <3>2, <3>4, <4>1, StageAges
    <3> QED BY <2>2, <3>1, <3>3, <3>4 DEF Fork
  <2>3. CASE AskRoster(s)
    BY <2>3, <1>u, <1>e DEF AskRoster
  <2>4. CASE Terminate(s)
    <3> DEFINE p == Head(main[s].todo)
               life == IF p \in handle[s] /\ child[s][p] \in {"start", "up"}
                       THEN "dying" ELSE child[s][p]
    <3>1. UNCHANGED <<takes, known>> /\ MemoryTypes' /\ p \in Procs
      BY <2>4, HeadAndRest DEF Terminate, memory, MemoryTypes, ReapInv, ShellTypes
    <3>2. child' = [child EXCEPT ![s][p] = life]
      BY <2>4, <3>1 DEF Terminate, ReapInv, ShellTypes
    <3>3. life \in Lives
      BY <3>1 DEF Lives, ReapInv, ShellTypes
    <3>4. life = child[s][p] \/ (life = "dying" /\ child[s][p] \in {"start", "up"})
      OBVIOUS
    <3> HIDE DEF p, life
    <3> QED BY <3>1, <3>2, <3>3, <3>4, StageAges
  <2> QED BY <1>3, <2>1, <2>2, <2>3, <2>4 DEF Boot
<1>4. ASSUME NEW s \in Shells, NEW w \in Threads, File(s, w) \/ WriteFails(s, w)
      PROVE  Ages /\ MemoryTypes'
  <2>1. CASE Fetch(s, w)
    BY <2>1, <1>u, <1>e DEF Fetch, kids
  <2>2. CASE MakeDir(s, w) \/ PassEnds(s, w)
    BY <2>2, <1>u DEF MakeDir, PassEnds
  <2>3. CASE Open(s, w) \/ Fill(s, w) \/ Rename(s, w) \/ WriteFails(s, w)
    BY <2>3, <1>u DEF Open, Fill, Rename, WriteFails
  <2> QED BY <1>4, <2>1, <2>2, <2>3 DEF File
<1>5. ASSUME NEW s \in Shells, NEW p \in Procs, Process(s, p) \/ ChildDies(s, p)
      PROVE  Ages /\ MemoryTypes'
  <2>1. CASE Ends(s, p)
    BY <2>1, EndsAges
  <2>2. ASSUME child[s][p] = "start", child' = [child EXCEPT ![s][p] = "up"], UNCHANGED known,
               NEW n \in 0..known[p], takes' = [takes EXCEPT ![s][p] = n]
        PROVE  Ages /\ MemoryTypes'
    <3>1. /\ \A r \in Shells, q \in Procs : child'[r][q] =
                IF r = s /\ q = p THEN "up" ELSE child[r][q]
          /\ \A r \in Shells, q \in Procs : takes'[r][q] =
                IF r = s /\ q = p THEN n ELSE takes[r][q]
      BY <2>2 DEF ReapInv, ShellTypes, MemoryTypes
    <3>2. n \in Nat
      BY DEF MemoryTypes
    <3>3. \A r \in Shells, q \in Procs : takes[r][q] <= takes[r][q]
      BY DEF MemoryTypes
    <3>4. Ages
      BY <2>2, <3>1, <3>3 DEF Ages, Lived, Alive
    <3> QED BY <2>2, <3>2, <3>4 DEF MemoryTypes
  <2> QED BY <1>5, <2>1, <2>2 DEF Process, ChildBinds, ChildExits, ChildDies
<1>6. ASSUME NEW s \in Shells, NEW h \in Kids, Toggle(s, h)
      PROVE  Ages /\ MemoryTypes'
  <2>1. PICK r \in Shells :
           /\ takes' = [takes EXCEPT ![r][h] = @ + 1]
           /\ known' = [known EXCEPT ![h] = IF @ > takes[r][h] THEN @ ELSE takes[r][h] + 1]
    BY <1>6 DEF Toggle
  <2>2. UNCHANGED child /\ h \in Procs
    BY <1>6 DEF Toggle, Procs
  <2>3. \A q \in Shells, p \in Procs : takes'[q][p] =
           IF q = r /\ p = h THEN takes[q][p] + 1 ELSE takes[q][p]
    BY <2>1 DEF MemoryTypes
  <2>4. MemoryTypes'
    BY <2>1, <2>2 DEF MemoryTypes
  <2>5. \A q \in Shells, p \in Procs : takes[q][p] <= takes'[q][p]
    BY <2>3 DEF MemoryTypes
  <2> QED BY <2>2, <2>4, <2>5 DEF Ages, Lived
<1> QED BY <1>0, <1>1, <1>2, <1>3, <1>4, <1>5, <1>6 DEF Next

------------------------------------------------------------------------------
(* The agent files *)

Writing  == {"open", "fill", "rename"}
Contents == [kind : {"none", "torn", "whole", "cut"}, of : Nat, takes : Nat]
Passes   == [at : {"off", "lost", "sleep", "dir", "fetch"} \cup Writing,
             todo : Seq(Hosts), got : Contents]

\* What the writers of agent files touch is well typed.
WriterTypes ==
    /\ ports \in Nat
    /\ DOMAIN main = Shells /\ \A s \in Shells : main[s].pc \in Labels
    /\ carried \in [Shells -> Seq(Hosts)]
    /\ job \in [Shells -> [Threads -> Passes]]
    /\ MemoryTypes
    /\ files \in [Hosts -> Contents]
    /\ tmp \in [Hosts -> [by : Nat \X Threads, data : Contents]]

Active(s, w) == job[s][w].at \notin {"off", "lost"}

\* A thread in a pass belongs to the shell that has the ports,
OnePort == \A s \in Shells, w \in Threads : Active(s, w) => ports = s

\* its writer starts when the main thread's pass is over,
OnePass == \A s \in Shells :
    Active(s, "main") => main[s].pc = "pass" /\ ~Active(s, "writer")

\* and nothing is written before the ports are open.
NotYet == \A s \in Shells :
    main[s].pc \in Early => \A w \in Threads : job[s][w].at = "off"

\* A content is that of a process that came to its port, and not ahead of it.
From(c, h) ==
    c.of \in Shells =>
       /\ child[c.of][Proc(h)] \in Lived
       /\ child[c.of][Proc(h)] \in Alive => c.takes <= takes[c.of][Proc(h)]

\* The beginning of an answer is all that a child left.
Answer(c, h) ==
    /\ c.of \in Shells
    /\ \/ c.kind = "whole"
       \/ c.kind = "cut" /\ h \in Kids /\ child[c.of][h] = "gone"

\* The answer in a writer's hand is no older than the file it will become, if
\* that is of the same process;
Fresh(s, w) ==
    job[s][w].at \in Writing =>
       /\ job[s][w].todo # <<>>
       /\ Answer(job[s][w].got, InHand(s, w)) /\ From(job[s][w].got, InHand(s, w))
       /\ files[InHand(s, w)].of = job[s][w].got.of =>
             files[InHand(s, w)].takes <= job[s][w].got.takes

\* the temporary file is its own.
Held(s, w) ==
    /\ job[s][w].at = "fill" =>
          tmp[InHand(s, w)] = [by |-> <<s, w>>, data |-> Torn]
    /\ job[s][w].at = "rename" =>
          tmp[InHand(s, w)] = [by |-> <<s, w>>, data |-> job[s][w].got]

\* No file is ahead of its process.
Behind == \A h \in Hosts : From(files[h], h)

FilesInv ==
    /\ WriterTypes /\ OnePort /\ OnePass /\ NotYet /\ Behind
    /\ \A s \in Shells, w \in Threads : Fresh(s, w) /\ Held(s, w)

\* What a file may become.
Filed(h) ==
    files'[h] # files[h] =>
       /\ Answer(files'[h], h)
       /\ files'[h].of = files[h].of => files'[h].takes >= files[h].takes

\* A host's process.
LEMMA ProcType ==
    /\ \A h \in Hosts : Proc(h) \in Procs
    /\ \A h \in Kids : Proc(h) = h
    /\ \A h \in Hosts : h \notin Kids => Proc(h) = Fleet
BY DeliveryAssumption DEF Proc, Procs, Hosts

\* The contents there are.
LEMMA ContentTypes ==
    /\ None \in Contents /\ Torn \in Contents
    /\ None.of \notin Shells
    /\ \A kind \in {"whole", "cut"}, r \in Shells, n \in Nat :
          /\ Content(kind, r, n) \in Contents
          /\ Content(kind, r, n).kind = kind
          /\ Content(kind, r, n).of = r /\ Content(kind, r, n).takes = n
BY DEF None, Torn, Content, Contents, Shells

\* As processes age a content stays what it was.
LEMMA FromKept ==
    ASSUME Ages, MemoryTypes, MemoryTypes', NEW c \in Contents, NEW h \in Hosts
    PROVE  /\ From(c, h) => From(c, h)'
           /\ Answer(c, h) => Answer(c, h)'
<1>1. Proc(h) \in Procs /\ c.takes \in Nat /\ Kids \subseteq Procs
  BY ProcType DEF Contents, Procs
<1>2. ASSUME From(c, h), c.of \in Shells
      PROVE  /\ child'[c.of][Proc(h)] \in Lived
             /\ child'[c.of][Proc(h)] \in Alive => c.takes <= takes'[c.of][Proc(h)]
  <2> DEFINE r == c.of
             p == Proc(h)
  <2>1. r \in Shells /\ p \in Procs /\ takes[r][p] \in Nat /\ takes'[r][p] \in Nat
    BY <1>1, <1>2 DEF MemoryTypes
  <2>2. child[r][p] \in Lived /\ (child[r][p] \in Alive => c.takes <= takes[r][p])
    BY <1>2 DEF From
  <2> HIDE DEF r, p
  <2>3. /\ child'[r][p] \in Lived
        /\ child'[r][p] \in Alive => child[r][p] \in Alive /\ takes[r][p] <= takes'[r][p]
    BY <2>1, <2>2 DEF Ages
  <2>4. child'[r][p] \in Lived /\ (child'[r][p] \in Alive => c.takes <= takes'[r][p])
    BY <1>1, <2>1, <2>2, <2>3
  <2> QED BY <2>4 DEF r, p
<1>3. From(c, h) => From(c, h)'
  BY <1>2 DEF From, Proc
<1>4. Answer(c, h) => Answer(c, h)'
  BY <1>1 DEF Answer, Ages
<1> QED BY <1>3, <1>4

\* An answer in hand stays fresh as long as nobody touches it or the file.
LEMMA FreshKept ==
    ASSUME FilesInv, Ages, MemoryTypes', NEW s \in Shells, NEW w \in Threads,
           job'[s][w] = job[s][w], UNCHANGED files
    PROVE  Fresh(s, w)'
<1>1. CASE job[s][w].at \in Writing
  <2> DEFINE h == InHand(s, w)
             got == job[s][w].got
  <2>1. h \in Hosts /\ got \in Contents /\ Fresh(s, w) /\ MemoryTypes
    BY <1>1 DEF FilesInv, WriterTypes, Passes, Fresh, InHand
  <2>2. PICK c \in Contents, g \in Hosts : c = got /\ g = h
    BY <2>1
  <2>3. c = job'[s][w].got /\ g = InHand(s, w)'
    BY <2>2 DEF InHand
  <2>4. From(c, g)' /\ Answer(c, g)'
    BY <1>1, <2>1, <2>2, FromKept DEF Fresh
  <2>5. From(job[s][w].got, InHand(s, w))' /\ Answer(job[s][w].got, InHand(s, w))'
    BY <2>3, <2>4 DEF From, Answer
  <2>6. /\ job'[s][w].todo # <<>>
        /\ files'[g].of = c.of => files'[g].takes <= c.takes
    BY <1>1, <2>1, <2>2 DEF Fresh
  <2> QED BY <2>3, <2>5, <2>6 DEF Fresh
<1>2. CASE job[s][w].at \notin Writing
  BY <1>2 DEF Fresh
<1> QED BY <1>1, <1>2

\* No file comes to be ahead of its process as long as nobody touches it.
LEMMA BehindKept ==
    ASSUME FilesInv, Ages, MemoryTypes', UNCHANGED files
    PROVE  Behind'
<1> SUFFICES ASSUME NEW h \in Hosts PROVE From(files[h], h)'
  BY DEF Behind
<1>1. PICK c \in Contents : c = files[h]
  BY DEF FilesInv, WriterTypes
<1>2. From(c, h)'
  BY <1>1, FromKept DEF FilesInv, WriterTypes, Behind
<1>3. c = files'[h]
  BY <1>1
<1> QED BY <1>2, <1>3 DEF From

\* A pass begins anywhere in a sequence of hosts.
LEMMA PassType ==
    ASSUME NEW todo \in Seq(Hosts),
           NEW at \in {"off", "lost", "sleep", "dir", "fetch"} \cup Writing
    PROVE  Pass(at, todo) \in Passes
BY ContentTypes DEF Pass, Passes

\* Going to a label keeps the main threads typed and moves one of them.
LEMMA GotoType ==
    ASSUME WriterTypes, NEW s \in Shells, NEW label \in Labels, NEW todo,
           Goto(s, label, todo)
    PROVE  /\ DOMAIN main' = Shells
           /\ main'[s].pc = label
           /\ \A r \in Shells : r # s => main'[r] = main[r]
BY DEF WriterTypes, Goto, At

\* At most one thread of all shells is in a pass.
LEMMA OneWriter ==
    ASSUME FilesInv, NEW s \in Shells, NEW w \in Threads, Active(s, w),
           NEW r \in Shells, NEW v \in Threads, Active(r, v)
    PROVE  r = s /\ v = w
<1>1. r = s
  BY DEF FilesInv, OnePort
<1>2. v = w
  BY <1>1 DEF FilesInv, OnePass, Threads
<1> QED BY <1>1, <1>2

------------------------------------------------------------------------------
(* Steps that leave the files and the passes alone *)

\* Boot, shutdown, children and polls disturb nothing: a main thread in its
\* pass stays there, and none comes back to before its ports.
LEMMA Quiet ==
    ASSUME FilesInv, Ages, MemoryTypes', UNCHANGED <<ports, job, files, tmp>>,
           carried' \in [Shells -> Seq(Hosts)],
           DOMAIN main' = Shells, \A s \in Shells : main'[s].pc \in Labels,
           \A s \in Shells :
              \/ main'[s] = main[s]
              \/ /\ main[s].pc # "pass"
                 /\ main'[s].pc \in Early => main[s].pc \in Early
    PROVE  FilesInv'
<1>1. WriterTypes'
  BY DEF FilesInv, WriterTypes
<1>2. OnePort' /\ Behind'
  BY BehindKept DEF FilesInv, OnePort, Active
<1>3. OnePass'
  BY DEF FilesInv, OnePass, Active
<1>4. NotYet'
  BY DEF FilesInv, NotYet
<1>5. \A s \in Shells, w \in Threads : Fresh(s, w)' /\ Held(s, w)'
  BY FreshKept DEF FilesInv, Held, InHand
<1> QED BY <1>1, <1>2, <1>3, <1>4, <1>5 DEF FilesInv

\* The same for a step that moves one main thread.
LEMMA QuietGoto ==
    ASSUME FilesInv, Ages, MemoryTypes', UNCHANGED <<ports, job, files, tmp>>,
           carried' \in [Shells -> Seq(Hosts)],
           NEW s \in Shells, NEW label \in Labels, NEW todo,
           Goto(s, label, todo), main[s].pc # "pass",
           label \in Early => main[s].pc \in Early
    PROVE  FilesInv'
<1>1. WriterTypes
  BY DEF FilesInv
<1>2. /\ DOMAIN main' = Shells /\ main'[s].pc = label
      /\ \A r \in Shells : r # s => main'[r] = main[r]
  BY <1>1, GotoType
<1>3. \A r \in Shells : main'[r].pc \in Labels
  BY <1>1, <1>2 DEF WriterTypes
<1> QED BY <1>2, <1>3, Quiet

\* And for one that moves none.
LEMMA QuietStay ==
    ASSUME FilesInv, Ages, MemoryTypes', UNCHANGED <<ports, job, files, tmp, carried, main>>
    PROVE  FilesInv'
<1>1. /\ carried' \in [Shells -> Seq(Hosts)]
      /\ DOMAIN main' = Shells /\ \A s \in Shells : main'[s].pc \in Labels
  BY DEF FilesInv, WriterTypes
<1> QED BY <1>1, Quiet

\* The boot of a shell up to its ports.
LEMMA BootQuiet ==
    ASSUME FilesInv, Ages, MemoryTypes', NEW s \in Shells,
           Up(s) \/ Fork(s) \/ Keep(s) \/ WaitReady(s) \/ AskRoster(s) \/ Advance(s)
           \/ Terminate(s)
    PROVE  FilesInv'
<1> USE DEF Early, Labels, disk
<1>t. carried \in [Shells -> Seq(Hosts)]
  BY DEF FilesInv, WriterTypes
<1>1. CASE Up(s)
  BY <1>1, <1>t, QuietGoto DEF Up
<1>2. CASE Fork(s)
  <2>1. CASE Goto(s, "spawn", Tail(main[s].todo))
    BY <1>2, <2>1, <1>t, QuietGoto DEF Fork
  <2>2. CASE Goto(s, "forked", main[s].todo)
    BY <1>2, <2>2, <1>t, QuietGoto DEF Fork
  <2> QED BY <1>2, <2>1, <2>2 DEF Fork
<1>3. CASE Keep(s)
  BY <1>3, <1>t, QuietGoto DEF Keep
<1>4. CASE WaitReady(s)
  BY <1>4, <1>t, QuietGoto DEF WaitReady
<1>5. CASE AskRoster(s)
  <2>1. carried' \in [Shells -> Seq(Hosts)]
    <3>1. carried[s] \o FleetOrder \in Seq(Hosts)
      BY <1>t, Rosters
    <3> QED BY <1>5, <1>t, <3>1 DEF AskRoster
  <2>2. CASE Goto(s, "wait", <<>>)
    BY <1>5, <2>1, <2>2, QuietGoto DEF AskRoster
  <2>3. CASE Goto(s, "reap", Spawned)
    BY <1>5, <2>1, <2>3, QuietGoto DEF AskRoster
  <2> QED BY <1>5, <2>2, <2>3 DEF AskRoster
<1>6. CASE Advance(s)
  <2>1. CASE main[s].pc = "spawn" /\ Goto(s, "wait", Spawned)
    BY <1>6, <2>1, <1>t, QuietGoto DEF Advance
  <2>2. CASE main[s].pc = "wait" /\ Goto(s, "bind", <<>>)
    BY <1>6, <2>2, <1>t, QuietGoto DEF Advance
  <2>3. CASE main[s].pc = "reap" /\ Goto(s, "end", <<>>)
    BY <1>6, <2>3, <1>t, QuietGoto DEF Advance
  <2> QED BY <1>6, <2>1, <2>2, <2>3 DEF Advance
<1>7. CASE Terminate(s)
  BY <1>7, <1>t, QuietGoto DEF Terminate
<1> QED BY <1>1, <1>2, <1>3, <1>4, <1>5, <1>6, <1>7

------------------------------------------------------------------------------
(* Steps that begin or end passes *)

\* A step after which every pass goes on with its ports or is over keeps the
\* invariant.
LEMMA Stops ==
    ASSUME FilesInv, Ages, MemoryTypes', UNCHANGED <<files, tmp>>, ports' \in Nat,
           carried' \in [Shells -> Seq(Hosts)],
           DOMAIN main' = Shells, \A s \in Shells : main'[s].pc \in Labels,
           job' \in [Shells -> [Threads -> Passes]],
           \A s \in Shells, w \in Threads :
              \/ job'[s][w] = job[s][w] /\ (Active(s, w) => ports' = ports)
              \/ job'[s][w].at = "off"
              \/ job'[s][w].at = "lost" /\ main'[s].pc \notin Early,
           \A s \in Shells :
              \/ main'[s] = main[s]
              \/ main'[s].pc \notin Early /\ job'[s]["main"].at \in {"off", "lost"}
    PROVE  FilesInv'
<1>1. WriterTypes'
  BY DEF FilesInv, WriterTypes
<1>2. OnePort' /\ Behind'
  BY BehindKept DEF FilesInv, OnePort, Active
<1>3. OnePass'
  BY DEF FilesInv, OnePass, Active, Threads
<1>4. NotYet'
  BY DEF FilesInv, NotYet
<1>5. \A s \in Shells, w \in Threads : Fresh(s, w)' /\ Held(s, w)'
  <2> TAKE s \in Shells, w \in Threads
  <2>1. CASE job'[s][w] = job[s][w]
    BY <2>1, FreshKept DEF FilesInv, Held, InHand
  <2>2. CASE job'[s][w].at \in {"off", "lost"}
    BY <2>2 DEF Fresh, Held, Writing
  <2> QED BY <2>1, <2>2
<1> QED BY <1>1, <1>2, <1>3, <1>4, <1>5 DEF FilesInv

\* A signal takes the main thread out of its pass.
LEMMA SignalStops ==
    ASSUME FilesInv, Ages, MemoryTypes', NEW s \in Shells, Signal(s)
    PROVE  FilesInv'
<1>1. \A label \in Labels : \A todo : Goto(s, label, todo) =>
         /\ DOMAIN main' = Shells /\ main'[s].pc = label
         /\ \A r \in Shells : r # s => main'[r] = main[r]
  BY GotoType DEF FilesInv
<1>2. /\ DOMAIN main' = Shells /\ main'[s].pc \in {"reap", "end"}
      /\ \A r \in Shells : r # s => main'[r] = main[r]
  BY <1>1 DEF Signal, Labels
<1>3. Pass("off", <<>>) \in Passes /\ Pass("off", <<>>).at = "off"
  BY ContentTypes DEF Pass, Passes
<1>4. /\ job' \in [Shells -> [Threads -> Passes]]
      /\ \A r \in Shells, w \in Threads :
            job'[r][w] = IF r = s /\ w = "main" THEN Pass("off", <<>>) ELSE job[r][w]
  BY <1>3 DEF Signal, FilesInv, WriterTypes, Threads
<1>5. \A r \in Shells : main'[r].pc \in Labels
  BY <1>2 DEF FilesInv, WriterTypes, Labels
<1> QED BY <1>2, <1>3, <1>4, <1>5, Stops DEF Signal, Early, disk, FilesInv, WriterTypes, Threads

\* The end of a process ends its threads and frees its ports.
LEMMA EndStops ==
    ASSUME FilesInv, Ages, MemoryTypes', NEW s \in Shells, End(s)
    PROVE  FilesInv'
<1>1. /\ DOMAIN main' = Shells /\ main'[s].pc = "done"
      /\ \A r \in Shells : r # s => main'[r] = main[r]
  BY GotoType DEF FilesInv, End, Labels
<1>2. Pass("off", <<>>) \in Passes /\ Pass("off", <<>>).at = "off"
  BY ContentTypes DEF Pass, Passes
<1>3. /\ job' \in [Shells -> [Threads -> Passes]]
      /\ \A r \in Shells, w \in Threads :
            job'[r][w] = IF r = s THEN Pass("off", <<>>) ELSE job[r][w]
  BY <1>2 DEF End, FilesInv, WriterTypes, Threads
<1>4. \A r \in Shells : main'[r].pc \in Labels
  BY <1>1 DEF FilesInv, WriterTypes, Labels
<1>5. ports' \in Nat
  BY DEF End, FilesInv, WriterTypes
<1>6. \A r \in Shells, w \in Threads : r # s /\ Active(r, w) => ports' = ports
  BY DEF End, FilesInv, OnePort
<1>7. carried' \in [Shells -> Seq(Hosts)]
  BY Rosters DEF End, FilesInv, WriterTypes
<1> QED BY <1>1, <1>3, <1>4, <1>5, <1>6, <1>7, <1>2, Stops
        DEF End, Early, disk, Threads

\* The ports are bound when nobody has them: no thread is in a pass.
LEMMA BindStarts ==
    ASSUME FilesInv, Ages, MemoryTypes', NEW s \in Shells, Bind(s)
    PROVE  FilesInv'
<1>t. /\ carried \in [Shells -> Seq(Hosts)] /\ main[s].pc = "bind"
      /\ job \in [Shells -> [Threads -> Passes]]
      /\ Pass("dir", <<>>) \in Passes /\ Pass("dir", <<>>).at = "dir"
  BY ContentTypes DEF FilesInv, WriterTypes, Bind, Pass, Passes
<1>1. CASE ports # 0 /\ Goto(s, "reap", Spawned) /\ UNCHANGED <<ports, job>>
  BY <1>1, <1>t, QuietGoto DEF Bind, Early, Labels, disk
<1>2. CASE /\ ports = 0 /\ ports' = s
           /\ Goto(s, IF mode.delivery = "datasource" THEN "pass" ELSE "serve", <<>>)
           /\ job' = IF mode.delivery = "datasource"
                     THEN [job EXCEPT ![s]["main"] = Pass("dir", <<>>)] ELSE job
  <2>1. \A r \in Shells, w \in Threads : ~Active(r, w)
    BY <1>2 DEF FilesInv, OnePort, Shells
  <2>2. \A w \in Threads : job[s][w].at = "off"
    BY <1>t DEF FilesInv, NotYet, Early
  <2>3. /\ DOMAIN main' = Shells /\ main'[s].pc \in {"pass", "serve"}
        /\ mode.delivery = "datasource" => main'[s].pc = "pass"
        /\ \A r \in Shells : r # s => main'[r] = main[r]
    BY <1>2, GotoType DEF FilesInv, Labels
  <2>4. /\ job' \in [Shells -> [Threads -> Passes]]
        /\ \A r \in Shells, w \in Threads :
              job'[r][w] = IF mode.delivery = "datasource" /\ r = s /\ w = "main"
                           THEN Pass("dir", <<>>) ELSE job[r][w]
    BY <1>2, <1>t DEF Threads
  <2>5. WriterTypes'
    BY <1>2, <2>3, <2>4 DEF FilesInv, WriterTypes, Bind, disk, Labels, Shells
  <2>6. OnePort'
    BY <1>2, <2>1, <2>4 DEF OnePort, Active
  <2>7. OnePass'
    BY <2>1, <2>2, <2>3, <2>4 DEF OnePass, Active, Threads
  <2>8. NotYet'
    BY <2>3, <2>4 DEF FilesInv, NotYet, Early
  <2>9. Behind'
    BY BehindKept DEF Bind, disk
  <2>10. \A r \in Shells, w \in Threads : job'[r][w].at \notin Writing
    BY <1>t, <2>1, <2>4 DEF Active, Writing
  <2>11. \A r \in Shells, w \in Threads : Fresh(r, w)' /\ Held(r, w)'
    BY <2>10 DEF Fresh, Held, Writing
  <2> QED BY <2>5, <2>6, <2>7, <2>8, <2>9, <2>11 DEF FilesInv
<1> QED BY <1>1, <1>2 DEF Bind

------------------------------------------------------------------------------
(* Steps of a pass *)

\* While one thread takes a step of its pass, no other is in one, so that what
\* the step does to the files needs to suit that thread alone.
LEMMA Alone ==
    ASSUME FilesInv, Ages, MemoryTypes', NEW s \in Shells, NEW w \in Threads, Active(s, w),
           NEW pass \in Passes, Work(s, w, pass), UNCHANGED <<ports, main, carried>>,
           files' \in [Hosts -> Contents],
           tmp' \in [Hosts -> [by : Nat \X Threads, data : Contents]],
           Behind', pass.at \in Writing => Fresh(s, w)' /\ Held(s, w)'
    PROVE  FilesInv'
<1>1. job \in [Shells -> [Threads -> Passes]]
  BY DEF FilesInv, WriterTypes
<1>2. /\ job' \in [Shells -> [Threads -> Passes]] /\ job'[s][w] = pass
      /\ \A r \in Shells, v \in Threads :
            ~(r = s /\ v = w) => job'[r][v] = job[r][v] /\ ~Active(r, v)
  BY <1>1, OneWriter DEF Work
<1>3. WriterTypes'
  BY <1>2 DEF FilesInv, WriterTypes
<1>4. OnePort'
  BY <1>2 DEF FilesInv, OnePort, Active
<1>5. OnePass'
  <2>1. w = "main" => main[s].pc = "pass"
    BY DEF FilesInv, OnePass
  <2> QED BY <1>2, <2>1 DEF OnePass, Active, Threads
<1>6. NotYet'
  BY <1>2 DEF FilesInv, NotYet, Active
<1>7. \A r \in Shells, v \in Threads : Fresh(r, v)' /\ Held(r, v)'
  <2> TAKE r \in Shells, v \in Threads
  <2>1. CASE r = s /\ v = w
    BY <2>1, <1>2 DEF Fresh, Held, Writing
  <2>2. CASE ~(r = s /\ v = w)
    BY <2>2, <1>2 DEF Fresh, Held, Active, Writing
  <2> QED BY <2>1, <2>2
<1> QED BY <1>3, <1>4, <1>5, <1>6, <1>7 DEF FilesInv

\* Where a pass can go from here.
LEMMA PassTypes ==
    /\ \A todo \in Seq(Hosts) : /\ Pass("fetch", todo) \in Passes
                                /\ Pass("fetch", todo).at = "fetch"
                                /\ Pass("fetch", todo).at \notin Writing
    /\ \A at \in {"off", "lost", "sleep", "dir"} :
          /\ Pass(at, <<>>) \in Passes /\ Pass(at, <<>>).at = at
          /\ Pass(at, <<>>).at \notin Writing
BY ContentTypes DEF Pass, Passes, Writing

\* A pass is lost, and with it the thread.
LEMMA LoseKeeps ==
    ASSUME FilesInv, Ages, MemoryTypes', NEW s \in Shells, NEW w \in Threads,
           Active(s, w), Lose(s, w), UNCHANGED <<ports, carried, files, tmp>>
    PROVE  FilesInv'
<1>t. carried \in [Shells -> Seq(Hosts)] /\ WriterTypes /\ Behind'
  BY BehindKept DEF FilesInv, WriterTypes
<1>1. Work(s, w, Pass("lost", <<>>))
  BY DEF Lose
<1>2. CASE w = "main" /\ Goto(s, "reap", Spawned)
  <2>1. /\ DOMAIN main' = Shells /\ main'[s].pc = "reap"
        /\ \A r \in Shells : r # s => main'[r] = main[r]
    BY <1>t, <1>2, GotoType DEF Labels
  <2>2. /\ job' \in [Shells -> [Threads -> Passes]]
        /\ \A r \in Shells, v \in Threads :
              job'[r][v] = IF r = s /\ v = w THEN Pass("lost", <<>>) ELSE job[r][v]
    BY <1>1, <1>t, PassTypes DEF WriterTypes, Work
  <2>3. \A r \in Shells : main'[r].pc \in Labels
    BY <1>t, <2>1 DEF WriterTypes, Labels
  <2> QED BY <1>t, PassTypes, <1>2, <2>1, <2>2, <2>3, Stops DEF Early, WriterTypes, Threads
<1>3. CASE UNCHANGED main
  BY <1>1, <1>t, PassTypes, <1>3, Alone DEF WriterTypes
<1> QED BY <1>2, <1>3 DEF Lose

\* The directory is there, or the pass is lost.
LEMMA MakeDirKeeps ==
    ASSUME FilesInv, Ages, MemoryTypes', NEW s \in Shells, NEW w \in Threads, MakeDir(s, w)
    PROVE  FilesInv'
<1>t. /\ Active(s, w) /\ carried[s] \in Seq(Hosts) /\ WriterTypes /\ Behind'
      /\ UNCHANGED <<ports, carried, files, tmp>>
  BY BehindKept DEF FilesInv, WriterTypes, MakeDir, Active, disk
<1>1. CASE Work(s, w, Pass("fetch", carried[s])) /\ UNCHANGED <<main, fails>>
  BY <1>1, <1>t, PassTypes, Alone DEF WriterTypes
<1>2. CASE Lose(s, w)
  BY <1>2, <1>t, LoseKeeps
<1> QED BY <1>1, <1>2 DEF MakeDir

\* Leaving a host for the next one is a step of the pass.
LEMMA SkipKeeps ==
    ASSUME FilesInv, Ages, MemoryTypes', NEW s \in Shells, NEW w \in Threads, Active(s, w),
           job[s][w].todo # <<>>, Skip(s, w), UNCHANGED <<ports, main, carried>>,
           files' \in [Hosts -> Contents], Behind',
           tmp' \in [Hosts -> [by : Nat \X Threads, data : Contents]]
    PROVE  FilesInv'
<1>1. Tail(job[s][w].todo) \in Seq(Hosts)
  BY DEF FilesInv, WriterTypes, Passes
<1> QED BY <1>1, PassTypes, Alone DEF Skip

\* An answer is as new as its process; the beginning of one is all that is left.
LEMMA FetchKeeps ==
    ASSUME FilesInv, Ages, MemoryTypes', ReapInv,
           NEW s \in Shells, NEW w \in Threads, Fetch(s, w)
    PROVE  FilesInv'
<1> DEFINE h == InHand(s, w)
           p == Proc(h)
           Hand(kind, r) == [job[s][w] EXCEPT !.at = "open",
                                              !.got = Content(kind, r, takes[r][p])]
<1>t. /\ Active(s, w) /\ WriterTypes /\ Behind /\ job[s][w].todo # <<>> /\ MemoryTypes
      /\ UNCHANGED <<ports, carried, files, tmp>> /\ Behind'
  BY BehindKept DEF FilesInv, Fetch, Active, WriterTypes, disk
<1>h. h \in Hosts /\ job[s][w] \in Passes /\ p \in Procs
  <2>1. h \in Hosts /\ job[s][w] \in Passes
    BY <1>t DEF WriterTypes, Passes, InHand
  <2> QED BY <2>1, ProcType
<1>a. ASSUME NEW kind \in {"whole", "cut"}, NEW r \in Shells, Work(s, w, Hand(kind, r)),
             UNCHANGED main, child[r][p] \in Alive, child'[r][p] \in Lived,
             child'[r][p] \in Alive => takes'[r][p] = takes[r][p],
             kind = "cut" => h \in Kids /\ child'[r][h] = "gone"
      PROVE  FilesInv'
  <2>1. /\ takes[r][p] \in Nat /\ Content(kind, r, takes[r][p]) \in Contents
        /\ Content(kind, r, takes[r][p]).kind = kind
        /\ Content(kind, r, takes[r][p]).of = r
        /\ Content(kind, r, takes[r][p]).takes = takes[r][p]
    BY <1>t, <1>h, ContentTypes DEF MemoryTypes
  <2>2. PICK c \in Contents, g \in Hosts :
           c = Content(kind, r, takes[r][p]) /\ g = h
    BY <1>h, <2>1
  <2>3. /\ Hand(kind, r) \in Passes /\ Hand(kind, r).at = "open"
        /\ Hand(kind, r).todo = job[s][w].todo /\ Hand(kind, r).got = c
    BY <1>h, <2>1, <2>2 DEF Passes, Writing
  <2>4. job'[s][w] = Hand(kind, r)
    BY <1>a, <1>t DEF WriterTypes, Work
  <2>5. /\ InHand(s, w)' = g /\ job'[s][w].got = c /\ job'[s][w].at = "open"
        /\ job'[s][w].todo # <<>>
    BY <1>t, <2>2, <2>3, <2>4 DEF InHand
  <2>6. files'[g].of = c.of => files'[g].takes <= c.takes
    BY <1>t, <1>a, <1>h, <2>1, <2>2 DEF Behind, From
  <2>7. Proc(g) = p /\ c.of = r /\ c.kind = kind /\ c.takes = takes[r][p] /\ g = h
    BY <2>1, <2>2
  <2> HIDE DEF h, p
  <2>8. Answer(c, g)' /\ From(c, g)'
    <3>1. Answer(c, g)'
      BY <1>a, <2>7 DEF Answer
    <3>2. From(c, g)'
      <4>1. child'[c.of][Proc(g)] \in Lived
        BY <1>a, <2>7
      <4>2. child'[c.of][Proc(g)] \in Alive => c.takes <= takes'[c.of][Proc(g)]
        BY <1>a, <2>1, <2>7
      <4> QED BY <4>1, <4>2 DEF From, Proc
    <3> QED BY <3>1, <3>2
  <2>9. Fresh(s, w)'
    <3>1. Answer(job[s][w].got, InHand(s, w))' /\ From(job[s][w].got, InHand(s, w))'
      BY <2>5, <2>8 DEF Answer, From
    <3> QED BY <2>5, <2>6, <3>1 DEF Fresh
  <2>10. Held(s, w)'
    BY <2>5 DEF Held
  <2>11. Work(s, w, Hand(kind, r))
    BY <1>a DEF p
  <2> HIDE DEF Hand
  <2> QED BY <1>a, <1>t, <2>3, <2>9, <2>10, <2>11, Alone DEF WriterTypes
<1>1. ASSUME NEW r \in Shells, child[r][p] = "up", UNCHANGED <<main, kids>>,
             Work(s, w, Hand("whole", r))
      PROVE  FilesInv'
  BY <1>1, <1>a DEF kids, memory, Alive, Lived
<1>2. CASE Skip(s, w) /\ UNCHANGED main
  BY <1>2, <1>t, SkipKeeps DEF WriterTypes
<1>3. ASSUME NEW r \in Shells, EndsMidway(r, p), h \in Kids,
             Work(s, w, Hand("cut", r)), UNCHANGED main
      PROVE  FilesInv'
  <2>1. child[r][p] \in Alive /\ child'[r][p] = "gone" /\ p = h
    BY <1>3, <1>h, ProcType DEF EndsMidway, Ends, Alive, ReapInv, ShellTypes
  <2> QED BY <1>3, <1>a, <2>1 DEF Lived, Alive
<1>4. CASE Lose(s, w)
  BY <1>4, <1>t, LoseKeeps
<1> QED BY <1>1, <1>2, <1>3, <1>4 DEF Fetch

\* An opened temporary file is the writer's own,
LEMMA OpenKeeps ==
    ASSUME FilesInv, Ages, MemoryTypes', NEW s \in Shells, NEW w \in Threads, Open(s, w)
    PROVE  FilesInv'
<1> DEFINE pass == [job[s][w] EXCEPT !.at = "fill"]
<1>t. /\ Active(s, w) /\ WriterTypes /\ Fresh(s, w) /\ job[s][w].at = "open"
      /\ UNCHANGED <<ports, main, carried, files, child, takes>> /\ Behind'
  BY BehindKept DEF FilesInv, Open, Active, shells, kids, memory
<1>1. job[s][w].todo # <<>> /\ InHand(s, w) \in Hosts /\ job[s][w] \in Passes
  BY <1>t DEF Fresh, Writing, WriterTypes, Passes, InHand
<1>2. /\ pass \in Passes /\ pass.at = "fill" /\ pass.todo = job[s][w].todo
      /\ pass.got = job[s][w].got
  BY <1>1 DEF Passes, Writing
<1>3. job'[s][w] = pass
  BY <1>t DEF Open, WriterTypes, Work
<1>4. /\ tmp' \in [Hosts -> [by : Nat \X Threads, data : Contents]]
      /\ tmp'[InHand(s, w)] = [by |-> <<s, w>>, data |-> Torn]
  BY <1>t, <1>1, ContentTypes DEF Open, WriterTypes, Shells
<1>5. Fresh(s, w)' /\ Held(s, w)'
  BY <1>t, <1>2, <1>3, <1>4 DEF Fresh, Held, InHand, Writing, Answer, From, Proc
<1>6. Work(s, w, pass) /\ pass.at \in Writing
  BY <1>2 DEF Open, Writing
<1> HIDE DEF pass
<1> QED BY <1>t, <1>2, <1>4, <1>5, <1>6, Alone DEF WriterTypes

\* and is filled with the writer's answer,
LEMMA FillKeeps ==
    ASSUME FilesInv, Ages, MemoryTypes', NEW s \in Shells, NEW w \in Threads, Fill(s, w)
    PROVE  FilesInv' /\ UNCHANGED files
<1> DEFINE h == InHand(s, w)
           pass == [job[s][w] EXCEPT !.at = "rename"]
<1>t. /\ Active(s, w) /\ WriterTypes /\ Fresh(s, w) /\ Held(s, w) /\ job[s][w].at = "fill"
      /\ UNCHANGED <<ports, main, carried, child, takes>>
  BY DEF FilesInv, Fill, Active, shells, kids, memory
<1>1. job[s][w].todo # <<>> /\ h \in Hosts /\ job[s][w] \in Passes
  BY <1>t DEF Fresh, Writing, WriterTypes, Passes, InHand
<1>2. /\ pass \in Passes /\ pass.at = "rename" /\ pass.todo = job[s][w].todo
      /\ pass.got = job[s][w].got /\ job[s][w].got \in Contents
  BY <1>1 DEF Passes, Writing
<1>3. job'[s][w] = pass
  BY <1>t DEF Fill, WriterTypes, Work
<1>4. tmp[h].data.kind = "torn" /\ tmp[h].by = <<s, w>>
  BY <1>t DEF Held, Torn, Content
<1>5. UNCHANGED files /\ tmp' = [tmp EXCEPT ![h].data = job[s][w].got]
  BY <1>4 DEF Fill
<1>6. /\ tmp' \in [Hosts -> [by : Nat \X Threads, data : Contents]]
      /\ tmp'[h] = [by |-> <<s, w>>, data |-> job[s][w].got]
  <2>1. tmp[h] = [by |-> <<s, w>>, data |-> Torn]
    BY <1>t DEF Held
  <2>2. [tmp[h] EXCEPT !.data = job[s][w].got] = [by |-> <<s, w>>, data |-> job[s][w].got]
    BY <2>1
  <2>3. tmp' = [tmp EXCEPT ![h] = [tmp[h] EXCEPT !.data = job[s][w].got]]
    BY <1>5
  <2>4. tmp' = [tmp EXCEPT ![h] = [by |-> <<s, w>>, data |-> job[s][w].got]]
    BY <2>2, <2>3
  <2> HIDE DEF h
  <2> QED BY <1>t, <1>1, <1>2, <2>4 DEF WriterTypes, Shells
<1>7. Fresh(s, w)' /\ Held(s, w)'
  BY <1>t, <1>2, <1>3, <1>5, <1>6 DEF Fresh, Held, InHand, Writing, Answer, From, Proc
<1>8. Work(s, w, pass) /\ pass.at \in Writing
  BY <1>2 DEF Fill, Writing
<1>9. Behind'
  BY <1>5, BehindKept
<1> HIDE DEF pass, h
<1> QED BY <1>t, <1>2, <1>5, <1>6, <1>7, <1>8, <1>9, Alone DEF WriterTypes

\* which becomes the file.
LEMMA RenameKeeps ==
    ASSUME FilesInv, Ages, MemoryTypes', NEW s \in Shells, NEW w \in Threads, Rename(s, w)
    PROVE  FilesInv' /\ \A h \in Hosts : Filed(h)
<1> DEFINE h == InHand(s, w)
           answer == job[s][w].got
<1>t. /\ Active(s, w) /\ WriterTypes /\ Fresh(s, w) /\ Held(s, w) /\ job[s][w].at = "rename"
      /\ UNCHANGED <<ports, main, carried, child, takes>> /\ Skip(s, w) /\ Behind
  BY DEF FilesInv, Rename, Active, shells, kids, memory
<1>1. /\ job[s][w].todo # <<>> /\ h \in Hosts /\ answer \in Contents
      /\ Answer(answer, h) /\ From(answer, h)
      /\ files[h].of = answer.of => files[h].takes <= answer.takes
      /\ NoTmp \in [by : Nat \X Threads, data : Contents]
  BY <1>t, ContentTypes DEF Fresh, Writing, WriterTypes, Passes, InHand, NoTmp, Threads
<1>2. files' = [files EXCEPT ![h] = answer] /\ tmp' = [tmp EXCEPT ![h] = NoTmp]
  <2>1. tmp[h].data = answer
    BY <1>t DEF Held
  <2>2. answer.kind # "none"
    BY <1>1 DEF Answer
  <2> QED BY <2>1, <2>2 DEF Rename
<1> HIDE DEF h, answer
<1>3. /\ files' \in [Hosts -> Contents]
      /\ tmp' \in [Hosts -> [by : Nat \X Threads, data : Contents]]
      /\ \A g \in Hosts : files'[g] = IF g = h THEN answer ELSE files[g]
  BY <1>t, <1>1, <1>2 DEF WriterTypes
<1>4. Behind'
  <2> SUFFICES ASSUME NEW g \in Hosts PROVE From(files[g], g)'
    BY DEF Behind
  <2>1. From(files'[g], g)
    BY <1>t, <1>1, <1>3 DEF Behind
  <2> QED BY <2>1, <1>t DEF From, Proc
<1>5. FilesInv'
  BY <1>t, <1>1, <1>3, <1>4, SkipKeeps DEF h
<1>6. \A g \in Hosts : Filed(g)
  BY <1>1, <1>3 DEF Filed, Contents
<1> QED BY <1>5, <1>6


\* An error costs the refresh of one host.
LEMMA WriteFailsKeeps ==
    ASSUME FilesInv, Ages, MemoryTypes', NEW s \in Shells, NEW w \in Threads, WriteFails(s, w)
    PROVE  FilesInv'
<1>1. /\ Active(s, w) /\ WriterTypes /\ Fresh(s, w) /\ Skip(s, w)
      /\ job[s][w].at \in Writing /\ UNCHANGED <<ports, main, carried, files, tmp>>
  BY DEF FilesInv, WriteFails, Active, Writing, disk, shells
<1>2. job[s][w].todo # <<>> /\ Behind'
  BY <1>1, BehindKept DEF Fresh
<1> QED BY <1>1, <1>2, SkipKeeps DEF WriterTypes

\* The writer wakes.
LEMMA WakeKeeps ==
    ASSUME FilesInv, Ages, MemoryTypes', NEW s \in Shells, Wake(s)
    PROVE  FilesInv'
<1>1. /\ Active(s, "writer") /\ WriterTypes /\ Behind'
      /\ UNCHANGED <<ports, main, carried, files, tmp>>
  BY BehindKept DEF FilesInv, Wake, Active, disk, shells
<1>2. /\ Pass("dir", <<>>) \in Passes /\ Pass("dir", <<>>).at \notin Writing
      /\ "writer" \in Threads /\ Work(s, "writer", Pass("dir", <<>>))
  BY PassTypes DEF Threads, Wake
<1> QED BY <1>1, <1>2, Alone DEF WriterTypes

\* The writer sleeps when its pass or the main thread's is over.
LEMMA PassEndsKeeps ==
    ASSUME FilesInv, Ages, MemoryTypes', NEW s \in Shells, NEW w \in Threads, PassEnds(s, w)
    PROVE  FilesInv'
<1>t. /\ Active(s, w) /\ WriterTypes /\ OnePort /\ OnePass /\ NotYet
      /\ UNCHANGED <<ports, carried, files, tmp>> /\ Behind'
  BY BehindKept DEF FilesInv, PassEnds, Active, disk
<1>1. /\ Pass("off", <<>>) \in Passes /\ Pass("off", <<>>).at = "off"
      /\ Pass("sleep", <<>>) \in Passes /\ Pass("sleep", <<>>).at = "sleep"
  BY PassTypes
<1>2. /\ job' \in [Shells -> [Threads -> Passes]]
      /\ \A r \in Shells, v \in Threads :
            job'[r][v] = CASE r = s /\ v = "main" -> Pass("off", <<>>)
                           [] r = s /\ v = "writer" -> Pass("sleep", <<>>)
                           [] OTHER -> job[r][v]
  BY <1>t, <1>1 DEF WriterTypes, PassEnds, Threads
<1>3. ports = s /\ main[s].pc \notin Early
  BY <1>t DEF OnePort, NotYet, Active
<1>4. /\ DOMAIN main' = Shells /\ main'[s].pc \in Labels \ Early
      /\ \A r \in Shells : r # s => main'[r] = main[r]
  <2>1. CASE Goto(s, "serve", <<>>)
    BY <1>t, <2>1, GotoType DEF Labels, Early
  <2>2. CASE UNCHANGED main
    BY <1>t, <1>3, <2>2 DEF WriterTypes
  <2> QED BY <2>1, <2>2 DEF PassEnds
<1>5. WriterTypes'
  BY <1>t, <1>2, <1>4 DEF WriterTypes
<1>6. OnePort'
  BY <1>t, <1>1, <1>2, <1>3 DEF OnePort, Active, Threads
<1>7. OnePass'
  BY <1>t, <1>1, <1>2, <1>4 DEF OnePass, Active, Threads
<1>8. NotYet'
  BY <1>t, <1>2, <1>4 DEF NotYet, Threads
<1>9. \A r \in Shells, v \in Threads : job'[r][v].at \notin Writing
  <2> TAKE r \in Shells, v \in Threads
  <2>1. CASE r = s
    BY <2>1, <1>1, <1>2 DEF Writing, Threads
  <2>2. CASE r # s
    BY <2>2, <1>t, <1>2, <1>3 DEF OnePort, Active, Writing
  <2> QED BY <2>1, <2>2
<1>10. \A r \in Shells, v \in Threads : Fresh(r, v)' /\ Held(r, v)'
  BY <1>9 DEF Fresh, Held, Writing
<1> QED BY <1>t, <1>5, <1>6, <1>7, <1>8, <1>10 DEF FilesInv

------------------------------------------------------------------------------
(* The theorems on the files *)

\* Nothing runs at first.
LEMMA FilesInit == Init => FilesInv
<1> SUFFICES ASSUME Init PROVE FilesInv
  OBVIOUS
<1>1. WriterTypes
  BY Rosters, ContentTypes
     DEF Init, WriterTypes, MemoryTypes, At, Labels, Early, Pass, Passes, NoTmp, Threads
<1>2. OnePort /\ OnePass /\ NotYet
  BY DEF Init, OnePort, OnePass, NotYet, Active, Pass, Threads
<1>3. Behind
  BY ContentTypes DEF Init, Behind, From
<1>4. \A s \in Shells, w \in Threads : Fresh(s, w) /\ Held(s, w)
  BY DEF Init, Fresh, Held, Pass, Writing
<1> QED BY <1>1, <1>2, <1>3, <1>4 DEF FilesInv

\* Every step keeps the invariant, and what it does to a file is as promised.
LEMMA FilesNext ==
    ASSUME FilesInv, ReapInv, PidFile, [Next]_vars
    PROVE  FilesInv' /\ \A h \in Hosts : Filed(h)
<1>a. Ages /\ MemoryTypes'
  BY AgesNext DEF FilesInv, WriterTypes
<1>f. UNCHANGED files => \A h \in Hosts : Filed(h)
  BY DEF Filed
<1>0. CASE UNCHANGED vars
  BY <1>0, <1>a, <1>f, QuietStay DEF vars, shells, disk
<1>1. CASE Down
  <2>1. CASE Signal(pidfile)
    <3>1. pidfile \in Shells
      BY <1>1 DEF Down, PidFile
    <3> QED BY <2>1, <3>1, <1>a, <1>f, SignalStops DEF Signal, disk
  <2>2. CASE UNCHANGED <<main, ports, carried, job, files, tmp>>
    BY <2>2, <1>a, <1>f, QuietStay
  <2> QED BY <1>1, <2>1, <2>2 DEF Down, disk
<1>2. CASE Poll \/ Block \/ Answered
  <2>1. UNCHANGED <<main, ports, carried, job, files, tmp>>
    BY <1>2 DEF Poll, Block, Answered, shells, disk
  <2> QED BY <2>1, <1>a, <1>f, QuietStay
<1>3. ASSUME NEW s \in Shells,
             Up(s) \/ Interrupt(s) \/ Boot(s) \/ Wake(s)
      PROVE  FilesInv' /\ UNCHANGED files
  <2>1. CASE Up(s) \/ Fork(s) \/ Keep(s) \/ WaitReady(s) \/ AskRoster(s) \/ Advance(s)
             \/ Terminate(s)
    BY <2>1, <1>a, BootQuiet
       DEF Up, Fork, Keep, WaitReady, AskRoster, Advance, Terminate, disk
  <2>2. CASE Interrupt(s)
    BY <2>2, <1>a, SignalStops DEF Interrupt, Signal, disk
  <2>3. CASE Bind(s)
    BY <2>3, <1>a, BindStarts DEF Bind, disk
  <2>4. CASE End(s)
    BY <2>4, <1>a, EndStops DEF End, disk
  <2>5. CASE Wake(s)
    BY <2>5, <1>a, WakeKeeps DEF Wake, disk
  <2> QED BY SMTT(60), <1>3, <2>1, <2>2, <2>3, <2>4, <2>5 DEF Boot
<1>4. ASSUME NEW s \in Shells, NEW w \in Threads, File(s, w) \/ WriteFails(s, w)
      PROVE  FilesInv' /\ \A h \in Hosts : Filed(h)
  <2>1. CASE MakeDir(s, w)
    BY <2>1, <1>a, <1>f, MakeDirKeeps DEF MakeDir, disk
  <2>2. CASE Fetch(s, w)
    BY <2>2, <1>a, <1>f, FetchKeeps DEF Fetch, disk
  <2>3. CASE Open(s, w)
    BY <2>3, <1>a, <1>f, OpenKeeps DEF Open
  <2>4. CASE Fill(s, w)
    BY <2>4, <1>a, <1>f, FillKeeps
  <2>5. CASE Rename(s, w)
    BY <2>5, <1>a, RenameKeeps
  <2>6. CASE PassEnds(s, w)
    BY <2>6, <1>a, <1>f, PassEndsKeeps DEF PassEnds, disk
  <2>7. CASE WriteFails(s, w)
    BY <2>7, <1>a, <1>f, WriteFailsKeeps DEF WriteFails, disk
  <2> QED BY <1>4, <2>1, <2>2, <2>3, <2>4, <2>5, <2>6, <2>7 DEF File
<1>5. ASSUME NEW s \in Shells, NEW p \in Procs, Process(s, p) \/ ChildDies(s, p)
      PROVE  FilesInv' /\ UNCHANGED files
  <2>1. UNCHANGED <<main, ports, carried, job, files, tmp>>
    BY <1>5 DEF Process, ChildBinds, ChildExits, ChildDies, disk, shells
  <2> QED BY <2>1, <1>a, QuietStay
<1>6. ASSUME NEW s \in Shells, NEW h \in Kids, Toggle(s, h)
      PROVE  FilesInv' /\ UNCHANGED files
  <2>1. UNCHANGED <<main, ports, carried, job, files, tmp>>
    BY <1>6 DEF Toggle, disk, shells
  <2> QED BY <2>1, <1>a, QuietStay
<1> QED BY <1>0, <1>1, <1>2, <1>3, <1>4, <1>5, <1>6, <1>f DEF Next

\* What the theorems on the files rest on.
LEMMA FilesAlways == Spec => [](FilesInv /\ ReapInv /\ PidFile)
<1>1. Init => FilesInv /\ ReapInv /\ PidFile
  BY FilesInit, ReapInit DEF Init, PidFile
<1>2. FilesInv /\ ReapInv /\ PidFile /\ [Next]_vars => FilesInv' /\ ReapInv' /\ PidFile'
  BY FilesNext, ReapNext, PidFileNext
<1> QED BY <1>1, <1>2, PTL DEF Spec

\* An agent file is a whole answer, or what a child that ended left of one, and
\* never older than an answer of the same process was, for any rosters, number
\* of shells, modes and faults (_write_file behind the ports of main()).
THEOREM AgentFilesWholeAlways == Spec => AgentFilesWhole
<1>1. FilesInv /\ ReapInv /\ PidFile /\ [Next]_vars =>
        [\A h \in Hosts :
            LET was == files[h]  is == files'[h] IN
            is # was => /\ \/ is.kind = "whole"
                           \/ is.kind = "cut" /\ h \in Kids /\ child[is.of][h] = "gone"
                        /\ is.of = was.of => is.takes >= was.takes]_files
  BY FilesNext DEF Filed, Answer
<1> QED BY <1>1, FilesAlways, PTL DEF Spec, AgentFilesWhole

\* Two writers are never in a pass at once, whatever shells overlap: what the
\* comment of _write_file takes for granted of its temporary file.
THEOREM OneWriterAlways ==
    Spec => [](\A s, r \in Shells, w, v \in Threads :
                  Active(s, w) /\ Active(r, v) => s = r /\ w = v)
<1>1. FilesInv => \A s, r \in Shells, w, v \in Threads :
                     Active(s, w) /\ Active(r, v) => s = r /\ w = v
  BY OneWriter
<1> QED BY <1>1, FilesAlways, PTL

------------------------------------------------------------------------------
(* The agent poll *)

\* The fleet managers that have ended.
Over == {r \in Shells : child[r][Fleet] = "gone"}

\* What was begun of a block is of a child that has ended, and every manager
\* that ended cost at most one answer.
CutInv  == \A h \in poll.cut : h \in Kids /\ \E r \in Shells : child[r][h] = "gone"
LostInv == lost \in Nat /\ lost <= Cardinality(Over)

\* The ports are those of a shell that has come so far, and while a poll goes
\* on each of its hosts is in the answer, was silent, or is still to come.
PollInv ==
    /\ ports \in Shells \cup {0}
    /\ \A s \in Shells : ports = s => main[s].pc \notin Early
    /\ poll \in [on : BOOLEAN, todo : Seq(Hosts), out : SUBSET Hosts,
                 cut : SUBSET Hosts, silent : SUBSET Hosts]
    /\ poll.on => /\ ports # 0
                  /\ ToSet(carried[ports]) =
                        ((poll.out \cup poll.cut) \cup poll.silent) \cup ToSet(poll.todo)

\* There are as many shells as that.
LEMMA OverFinite == IsFiniteSet(Over) /\ Cardinality(Over) \in Nat
<1>1. IsFiniteSet(Shells)
  BY DeliveryAssumption, FS_Interval DEF Shells
<1>2. Over \in SUBSET Shells
  BY DEF Over
<1>3. IsFiniteSet(Over)
  BY <1>1, <1>2, FS_Subset
<1> QED BY <1>3, FS_CardinalityType

\* The account of ended managers as a state of its own.
LEMMA OverLater ==
    /\ IsFiniteSet({r \in Shells : child'[r][Fleet] = "gone"})
    /\ Cardinality({r \in Shells : child'[r][Fleet] = "gone"}) \in Nat
<1>1. IsFiniteSet(Shells)
  BY DeliveryAssumption, FS_Interval DEF Shells
<1>2. {r \in Shells : child'[r][Fleet] = "gone"} \in SUBSET Shells
  OBVIOUS
<1>3. IsFiniteSet({r \in Shells : child'[r][Fleet] = "gone"})
  BY <1>1, <1>2, FS_Subset
<1> QED BY <1>3, FS_CardinalityType

\* An ended manager stays so.
LEMMA LostKept ==
    ASSUME Ages, LostInv, UNCHANGED lost PROVE LostInv'
<1> DEFINE later == {r \in Shells : child'[r][Fleet] = "gone"}
<1>1. Over \in SUBSET later
  BY DEF Ages, Over, Procs
<1>2. Cardinality(Over) <= Cardinality(later)
  BY <1>1, OverLater, FS_Subset
<1>3. Over' = later
  BY DEF Over
<1>4. Cardinality(Over) \in Nat /\ Cardinality(later) \in Nat
  BY OverFinite, OverLater
<1> HIDE DEF later
<1> QED BY <1>2, <1>3, <1>4 DEF LostInv

\* The answer it takes with it is the one it ends in.
LEMMA LostPaid ==
    ASSUME ReapInv, LostInv, lost' = lost + 1, NEW r \in Shells, EndsMidway(r, Fleet)
    PROVE  LostInv'
<1>1. /\ child[r][Fleet] # "gone"
      /\ \A q \in Shells : child'[q][Fleet] = IF q = r THEN "gone" ELSE child[q][Fleet]
  BY DEF EndsMidway, Ends, ReapInv, ShellTypes, Procs
<1>2. Over' = Over \cup {r} /\ r \notin Over
  BY <1>1 DEF Over
<1>3. Cardinality(Over \cup {r}) = Cardinality(Over) + 1
  BY <1>2, OverFinite, FS_AddElement
<1> QED BY <1>2, <1>3, OverFinite DEF LostInv

\* An ended child stays so.
LEMMA CutKept ==
    ASSUME Ages, CutInv, poll'.cut = poll.cut \/ poll'.cut = {} PROVE CutInv'
<1>1. ASSUME NEW h \in poll.cut
      PROVE  h \in Kids /\ \E r \in Shells : child'[r][h] = "gone"
  BY DEF Ages, CutInv, Procs
<1> QED BY <1>1 DEF CutInv

\* The beginning of a block is that of a child that ends.
LEMMA CutPaid ==
    ASSUME ReapInv, Ages, CutInv, NEW r \in Shells, NEW h \in Kids, EndsMidway(r, h),
           poll'.cut = poll.cut \cup {h}
    PROVE  CutInv'
<1>1. \A g \in poll.cut : g \in Kids /\ \E q \in Shells : child'[q][g] = "gone"
  BY DEF Ages, CutInv, Procs
<1>2. child'[r][h] = "gone"
  BY DEF EndsMidway, Ends, ReapInv, ShellTypes, Procs
<1> QED BY <1>1, <1>2 DEF CutInv

\* What does not touch poll, ports and the carried hosts of the shell that has
\* the ports keeps the invariant.
LEMMA PollKept ==
    ASSUME PollInv, UNCHANGED <<ports, poll>>,
           \A s \in Shells : ports = s =>
              carried'[s] = carried[s] /\ main'[s].pc \notin Early
    PROVE  PollInv'
BY DEF PollInv

\* Every step keeps account of the hosts of a poll.
LEMMA PollNext ==
    ASSUME PollInv, FilesInv, PidFile, [Next]_vars
    PROVE  PollInv'
<1>t. /\ DOMAIN main = Shells /\ carried \in [Shells -> Seq(Hosts)]
      /\ \A s \in Shells : ports = s => main[s].pc \notin Early
      /\ ports \in Shells \cup {0}
  BY DEF FilesInv, WriterTypes, PollInv
<1>g. ASSUME NEW s \in Shells, NEW label, NEW todo, Goto(s, label, todo)
      PROVE  main'[s].pc = label /\ \A r \in Shells : r # s => main'[r] = main[r]
  BY <1>g, <1>t DEF Goto, At
<1>m. ASSUME NEW s \in Shells, NEW label, NEW todo, Goto(s, label, todo),
             UNCHANGED <<ports, poll>>, \A r \in Shells : r # s => carried'[r] = carried[r],
             \/ main[s].pc \in Early
             \/ label \notin Early /\ carried' = carried
      PROVE  PollInv'
  BY <1>m, <1>g, <1>t, PollKept
<1>u. UNCHANGED <<ports, poll, main, carried>> => PollInv'
  BY <1>t, PollKept
<1>s. ASSUME NEW s \in Shells, Signal(s) PROVE PollInv'
  BY <1>s, <1>m DEF Signal, Early, polls
<1>l. ASSUME NEW s \in Shells, NEW w \in Threads, Lose(s, w),
             UNCHANGED <<ports, poll, carried>>
      PROVE  PollInv'
  BY <1>l, <1>m, <1>u DEF Lose, Early
<1>n. /\ NoPoll.todo = <<>> /\ NoPoll.on = FALSE
      /\ NoPoll \in [on : BOOLEAN, todo : Seq(Hosts), out : SUBSET Hosts,
                     cut : SUBSET Hosts, silent : SUBSET Hosts]
  BY DEF NoPoll
<1>0. CASE UNCHANGED vars
  BY <1>0, <1>u DEF vars, shells, polls
<1>1. CASE Down
  <2>1. pidfile \in Shells
    BY <1>1 DEF Down, PidFile
  <2> QED BY <1>1, <1>s, <1>u, <2>1 DEF Down, polls
<1>2. CASE Poll
  <2>1. poll' = [on |-> TRUE, todo |-> carried[ports], out |-> {}, cut |-> {},
                 silent |-> {}]
    BY <1>2 DEF Poll, NoPoll
  <2>2. UNCHANGED <<ports, main, carried>> /\ ports # 0
    BY <1>2 DEF Poll, shells
  <2> QED BY <1>t, <2>1, <2>2 DEF PollInv
<1>3. CASE Block
  <2>1. /\ UNCHANGED <<ports, main, carried>> /\ poll.on /\ poll.todo # <<>>
        /\ poll.todo \in Seq(Hosts)
    BY <1>3 DEF Block, shells, PollInv
  <2>2. /\ Head(poll.todo) \in Hosts /\ Tail(poll.todo) \in Seq(Hosts)
        /\ ToSet(poll.todo) = {Head(poll.todo)} \cup ToSet(Tail(poll.todo))
    BY <2>1, HeadAndRest
  <2> DEFINE h == Head(poll.todo)
             rest == Tail(poll.todo)
  <2>3. \/ poll' = [poll EXCEPT !.todo = rest, !.out = poll.out \cup {h}]
        \/ poll' = [poll EXCEPT !.todo = rest, !.silent = poll.silent \cup {h}]
        \/ poll' = [poll EXCEPT !.todo = rest, !.cut = poll.cut \cup {h}]
        \/ poll' = NoPoll
    BY <1>3 DEF Block
  <2> HIDE DEF h, rest
  <2>4. CASE poll' = NoPoll
    BY <2>1, <2>4, <1>n DEF PollInv
  <2>5. CASE poll' # NoPoll
    <3>1. /\ poll' \in [on : BOOLEAN, todo : Seq(Hosts), out : SUBSET Hosts,
                        cut : SUBSET Hosts, silent : SUBSET Hosts]
          /\ poll'.on = poll.on /\ poll'.todo = rest
          /\ (poll'.out \cup poll'.cut) \cup poll'.silent
                = ((poll.out \cup poll.cut) \cup poll.silent) \cup {h}
      <4>1. h \in Hosts /\ rest \in Seq(Hosts)
        BY <2>2 DEF h, rest
      <4>2. CASE poll' = [poll EXCEPT !.todo = rest, !.out = poll.out \cup {h}]
        BY <4>1, <4>2 DEF PollInv
      <4>3. CASE poll' = [poll EXCEPT !.todo = rest, !.silent = poll.silent \cup {h}]
        BY <4>1, <4>3 DEF PollInv
      <4>4. CASE poll' = [poll EXCEPT !.todo = rest, !.cut = poll.cut \cup {h}]
        BY <4>1, <4>4 DEF PollInv
      <4> QED BY <2>3, <2>5, <4>2, <4>3, <4>4
    <3> QED BY <2>1, <2>2, <3>1 DEF PollInv, h, rest
  <2> QED BY <2>4, <2>5
<1>4. CASE Answered
  BY <1>4, <1>t, <1>n DEF Answered, shells, PollInv
<1>5. ASSUME NEW s \in Shells, Up(s) \/ Interrupt(s) \/ Boot(s) \/ Wake(s)
      PROVE  PollInv'
  <2>1. CASE Up(s)
    BY <2>1, <1>m DEF Up, Early, polls
  <2>2. CASE Interrupt(s)
    BY <2>2, <1>s DEF Interrupt
  <2>3. CASE Fork(s)
    <3>1. UNCHANGED <<ports, poll, carried>> /\ main[s].pc \in Early
      BY <2>3 DEF Fork, Early, polls
    <3>2. CASE Goto(s, "spawn", Tail(main[s].todo))
      BY <3>1, <3>2, <1>m
    <3>3. CASE Goto(s, "forked", main[s].todo)
      BY <3>1, <3>3, <1>m
    <3> QED BY <2>3, <3>2, <3>3 DEF Fork
  <2>4. CASE Keep(s)
    BY <2>4, <1>m DEF Keep, Early, polls
  <2>5. CASE WaitReady(s)
    BY <2>5, <1>m DEF WaitReady, Early, polls
  <2>6. CASE AskRoster(s)
    <3>1. /\ \A r \in Shells : r # s => carried'[r] = carried[r]
          /\ UNCHANGED <<ports, poll>> /\ main[s].pc \in Early
      BY <2>6, <1>t DEF AskRoster, polls, Early
    <3> QED BY <2>6, <3>1, <1>m DEF AskRoster
  <2>7. CASE Advance(s)
    <3>1. UNCHANGED <<ports, poll, carried>>
      BY <2>7 DEF Advance, polls
    <3>2. CASE main[s].pc = "spawn" /\ Goto(s, "wait", Spawned)
      BY <3>1, <3>2, <1>m DEF Early
    <3>3. CASE main[s].pc = "wait" /\ Goto(s, "bind", <<>>)
      BY <3>1, <3>3, <1>m DEF Early
    <3>4. CASE Goto(s, "end", <<>>)
      BY <3>1, <3>4, <1>m DEF Early
    <3> QED BY <2>7, <3>2, <3>3, <3>4 DEF Advance
  <2>8. CASE Bind(s)
    <3>1. UNCHANGED <<poll, carried>> /\ main[s].pc \in Early
      BY <2>8 DEF Bind, Early, polls
    <3>2. CASE Goto(s, "reap", Spawned) /\ UNCHANGED ports
      BY <3>1, <3>2, <1>m
    <3>3. CASE /\ ports = 0 /\ ports' = s
               /\ Goto(s, IF mode.delivery = "datasource" THEN "pass" ELSE "serve", <<>>)
      <4>1. main'[s].pc \in {"pass", "serve"} /\ ~poll.on
        BY <3>3, <1>g DEF PollInv
      <4> QED BY <3>1, <3>3, <4>1 DEF PollInv, Early
    <3> QED BY <2>8, <3>2, <3>3 DEF Bind
  <2>9. CASE Terminate(s)
    BY <2>9, <1>m DEF Terminate, Early, polls
  <2>10. CASE End(s)
    <3>1. Goto(s, "done", <<>>) /\ \A r \in Shells : r # s => carried'[r] = carried[r]
      BY <2>10, <1>t DEF End
    <3>2. main'[s].pc \notin Early /\ \A r \in Shells : r # s => main'[r] = main[r]
      BY <3>1, <1>g DEF Early
    <3>3. CASE ports = s
      BY <2>10, <3>3, <1>t, <1>n DEF End, PollInv, Shells
    <3>4. CASE ports # s
      <4>1. UNCHANGED <<ports, poll>>
        BY <2>10, <3>4 DEF End
      <4> QED BY <3>1, <3>2, <3>4, <4>1, <1>t, PollKept
    <3> QED BY <3>3, <3>4
  <2>11. CASE Wake(s)
    BY <2>11, <1>u DEF Wake, shells, polls
  <2> QED BY <1>5, <2>1, <2>2, <2>3, <2>4, <2>5, <2>6, <2>7, <2>8, <2>9, <2>10, <2>11 DEF Boot
<1>6. ASSUME NEW s \in Shells, NEW w \in Threads, File(s, w) \/ WriteFails(s, w)
      PROVE  PollInv'
  <2>1. CASE MakeDir(s, w)
    BY <2>1, <1>l, <1>u DEF MakeDir, polls
  <2>2. CASE PassEnds(s, w)
    <3>1. UNCHANGED <<ports, poll, carried>>
      BY <2>2 DEF PassEnds, polls
    <3>2. CASE Goto(s, "serve", <<>>)
      BY <3>1, <3>2, <1>m DEF Early
    <3>3. CASE UNCHANGED main
      BY <3>1, <3>3, <1>u
    <3> QED BY <2>2, <3>2, <3>3 DEF PassEnds
  <2>3. CASE Open(s, w) \/ Fill(s, w) \/ Rename(s, w) \/ WriteFails(s, w)
    BY <2>3, <1>u DEF Open, Fill, Rename, WriteFails, shells, polls
  <2>4. CASE Fetch(s, w)
    BY <2>4, <1>l, <1>u DEF Fetch, polls
  <2> QED BY <1>6, <2>1, <2>2, <2>3, <2>4 DEF File
<1>7. CASE \/ \E s \in Shells, p \in Procs : Process(s, p) \/ ChildDies(s, p)
           \/ \E s \in Shells, h \in Kids : Toggle(s, h)
  BY <1>7, <1>u DEF Process, ChildBinds, ChildExits, ChildDies, Toggle, shells, polls
<1> QED BY <1>0, <1>1, <1>2, <1>3, <1>4, <1>5, <1>6, <1>7 DEF Next

\* Every step keeps account of what was begun and what was lost.
LEMMA LossNext ==
    ASSUME PollInv, CutInv, LostInv, FilesInv, ReapInv, PidFile, [Next]_vars
    PROVE  CutInv' /\ LostInv'
<1>a. Ages
  BY AgesNext DEF FilesInv, WriterTypes
<1>n. NoPoll.cut = {}
  BY DEF NoPoll
<1>u. (poll' = poll \/ poll' = NoPoll) /\ UNCHANGED lost => CutInv' /\ LostInv'
  BY <1>a, <1>n, CutKept, LostKept
<1>0. CASE UNCHANGED vars
  BY <1>0, <1>u DEF vars, polls
<1>1. CASE Down
  BY <1>1, <1>u DEF Down, Signal, polls
<1>2. CASE Poll
  <2>1. poll'.cut = {} /\ UNCHANGED lost
    BY <1>2 DEF Poll, NoPoll
  <2> QED BY <2>1, <1>a, CutKept, LostKept
<1>3. CASE Block
  <2> DEFINE h == Head(poll.todo)
  <2>1. h \in Hosts /\ poll.todo # <<>>
    BY <1>3, HeadAndRest DEF Block, PollInv
  <2>2. CASE UNCHANGED lost /\ poll'.cut = poll.cut
    BY <2>2, <1>a, CutKept, LostKept
  <2>3. ASSUME NEW r \in Shells, EndsMidway(r, Proc(h)), h \in Kids, UNCHANGED lost,
               poll'.cut = poll.cut \cup {h}
        PROVE  CutInv' /\ LostInv'
    <3>1. EndsMidway(r, h)
      BY <2>3, ProcType
    <3> HIDE DEF h
    <3> QED BY <2>3, <3>1, <1>a, CutPaid, LostKept
  <2>4. ASSUME NEW r \in Shells, EndsMidway(r, Proc(h)), h \notin Kids, lost' = lost + 1,
               poll' = NoPoll
        PROVE  CutInv' /\ LostInv'
    <3>1. EndsMidway(r, Fleet)
      BY <2>1, <2>4, ProcType
    <3> QED BY <2>4, <3>1, <1>a, <1>n, CutKept, LostPaid
  <2>5. \/ UNCHANGED lost /\ poll'.cut = poll.cut
        \/ \E r \in Shells : /\ EndsMidway(r, Proc(h))
                             /\ IF h \in Kids
                                THEN UNCHANGED lost /\ poll'.cut = poll.cut \cup {h}
                                ELSE poll' = NoPoll /\ lost' = lost + 1
    BY <1>3 DEF Block, PollInv
  <2> HIDE DEF h
  <2> QED BY <2>2, <2>3, <2>4, <2>5
<1>4. CASE Answered
  BY <1>4, <1>u DEF Answered
<1>5. ASSUME NEW s \in Shells, Up(s) \/ Interrupt(s) \/ Boot(s) \/ Wake(s)
      PROVE  CutInv' /\ LostInv'
  BY <1>5, <1>u DEF Up, Interrupt, Signal, Boot, Fork, Keep, WaitReady, AskRoster,
                    Advance, Bind, Terminate, End, Wake, polls
<1>6. ASSUME NEW s \in Shells, NEW w \in Threads, File(s, w) \/ WriteFails(s, w)
      PROVE  CutInv' /\ LostInv'
  BY <1>6, <1>u DEF File, MakeDir, Fetch, Open, Fill, Rename, PassEnds, WriteFails, polls
<1>7. CASE \/ \E s \in Shells, p \in Procs : Process(s, p) \/ ChildDies(s, p)
           \/ \E s \in Shells, h \in Kids : Toggle(s, h)
  BY <1>7, <1>u DEF Process, ChildBinds, ChildExits, ChildDies, Toggle, polls
<1> QED BY <1>0, <1>1, <1>2, <1>3, <1>4, <1>5, <1>6, <1>7 DEF Next

\* An answer lacks the block of no host but those that were silent, of a block
\* that was only begun the child has ended, and no more answers are lost than
\* managers end, for any rosters, faults and successions of shells
\* (build_delivery_output, FleetManager.fetch_agent).
THEOREM BlocksCompleteAlways == Spec => []BlocksComplete
<1> DEFINE Inv == PollInv /\ CutInv /\ LostInv
<1>1. Init => Inv
  <2> SUFFICES ASSUME Init PROVE Inv
    OBVIOUS
  <2>1. PollInv /\ CutInv
    BY DEF Init, PollInv, CutInv, NoPoll, Shells
  <2>2. Cardinality(Over) \in Nat /\ lost = 0
    BY OverFinite DEF Init
  <2> QED BY <2>1, <2>2 DEF LostInv
<1>2. Inv /\ FilesInv /\ ReapInv /\ PidFile /\ [Next]_vars => Inv'
  BY PollNext, LossNext
<1>3. Inv => BlocksComplete
  <2>1. ToSet(<<>>) = {}
    BY DEF ToSet
  <2> QED BY <2>1 DEF PollInv, CutInv, LostInv, Over, BlocksComplete
<1> QED BY <1>1, <1>2, <1>3, FilesAlways, PTL DEF Spec

================================================================================
