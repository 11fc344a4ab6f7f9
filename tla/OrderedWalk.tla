------------------------------ MODULE OrderedWalk ------------------------------
(***************************************************************************)
(* What an SNMP walk promises whoever polls a device: the rows below the    *)
(* base arrive in order, each once, and a walk that ends has them all.  A   *)
(* walk may also be given up; nothing is said of its values.                *)
(***************************************************************************)
EXTENDS Naturals, Sequences

CONSTANT Wanted     \* the names below the base, in order

VARIABLES names,    \* the names received so far
          status    \* "idle", "walking", "done", "failed"

WalkInit == names = <<>> /\ status = "idle"

Begin ==
    /\ status # "walking"
    /\ names' = <<>> /\ status' = "walking"

Arrive ==
    /\ status = "walking"
    /\ \E n \in Len(names)..Len(Wanted) :
          /\ names' = SubSeq(Wanted, 1, n)
          /\ status' \in {"walking"} \cup (IF n = Len(Wanted) THEN {"done"} ELSE {})

Abandon == status = "walking" /\ status' = "failed" /\ UNCHANGED names

WalkNext == Begin \/ Arrive \/ Abandon

WalkSpec == WalkInit /\ [][WalkNext]_<<names, status>>
================================================================================
