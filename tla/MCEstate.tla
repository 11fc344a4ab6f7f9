-------------------------------- MODULE MCEstate --------------------------------
(* With and without the fleet; one or two of each replicable class.             *)
EXTENDS Estate

OneEach  == {[fleet |-> f, replicas |-> 1] : f \in BOOLEAN}
Replicas == {[fleet |-> FALSE, replicas |-> n] : n \in 1..2}
================================================================================
