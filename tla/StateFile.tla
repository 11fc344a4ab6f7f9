------------------------------ MODULE StateFile ------------------------------
(***************************************************************************)
(* The save idiom that every persistent process of the estate repeats: dump *)
(* a snapshot to "<file>.tmp", then os.replace it over <file>.  The module  *)
(* models the two directory entries and the open handles of the threads     *)
(* that are in the middle of a save.  All threads of one process share one  *)
(* temporary path, so two overlapping saves write to one inode.             *)
(*                                                                          *)
(* Instantiated by Cascade (deploy/piggyback/serve.py) and by HostAgent and *)
(* AgentCounters (hosts/*/serve.py); the mapped lines are those of          *)
(* hosts/db-postgres-01/serve.py.  Only process crashes are modelled, not   *)
(* the loss of pages the kernel already holds.                              *)
(***************************************************************************)

CONSTANTS
    Savers,  \* the threads that may run a save
    Data,    \* the dictionaries a save can dump
    Blank,   \* a member of Data, carried by contents that hold no dictionary
    Tears    \* pairs <<old, new>>: dumping new over old leaves a tail of old

VARIABLE disk

\* Where the inode a saver holds open is now linked.
Places == {"none", "tmp", "cur", "gone"}

Content == [kind : {"none", "empty", "torn", "json"}, data : Data]

Bare(k) == [kind |-> k, data |-> Blank]
Json(d) == [kind |-> "json", data |-> d]

DiskTypeOK == disk \in [cur : Content, tmp : Content, at : [Savers -> Places]]

NoDisk == [cur |-> Bare("none"), tmp |-> Bare("none"),
           at |-> [p \in Savers |-> "none"]]

\* open(tmp, "w"): creates the temporary file or truncates the shared one.
OpenTmp(p) ==
    disk' = [disk EXCEPT !.tmp = Bare("empty"), !.at[p] = "tmp"]

\* What the inode can hold once d was written from offset 0 over `old`.
Overlay(old, d) ==
    {Json(d)} \cup
    (IF \/ old.kind = "torn"
        \/ old.kind = "json" /\ <<old.data, d>> \in Tears
     THEN {Bare("torn")} ELSE {})

\* The content of the inode that p holds open (a saver in a dump holds one).
Held(p) == IF disk.at[p] = "cur" THEN disk.cur ELSE disk.tmp

\* Write content c to the inode that p holds, then close it.
PutContent(p, c) ==
    disk' = [disk EXCEPT !.tmp   = IF disk.at[p] = "tmp" THEN c ELSE @,
                         !.cur   = IF disk.at[p] = "cur" THEN c ELSE @,
                         !.at[p] = "none"]

\* json.dump and the end of the with block: the buffered text reaches the inode.
Dump(p, d) == \E c \in Overlay(Held(p), d) : PutContent(p, c)

\* Another saver's handle after the temporary name replaced the file.
Relinked(place) ==
    CASE place = "tmp" -> "cur"
      [] place = "cur" -> "gone"
      [] OTHER -> place

\* os.replace(tmp, file); FileNotFoundError is an OSError and is only printed.
ReplaceFile ==
    \/ /\ disk.tmp.kind = "none"
       /\ UNCHANGED disk
    \/ /\ disk.tmp.kind # "none"
       /\ disk' = [cur |-> disk.tmp, tmp |-> Bare("none"),
                   at |-> [q \in Savers |-> Relinked(disk.at[q])]]

\* The process dies: what was still buffered is gone, the files stay.
CloseAll == disk' = [disk EXCEPT !.at = [p \in Savers |-> "none"]]

\* What load finds: a dictionary, or a missing or unparseable file.
Loadable == disk.cur.kind = "json"

\* Files never hold a dictionary that no save dumped: what is true of every
\* dumped dictionary (membership in G) stays true of the files.
FilesFrom(G) == disk.cur.data \in G /\ disk.tmp.data \in G
==============================================================================
