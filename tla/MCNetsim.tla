------------------------------- MODULE MCNetsim -------------------------------
(* Both incident devices.                                                     *)
EXTENDS Netsim

LeftBroken == [d \in {"sw-access-01", "rt-wan-01"} |->
                  IF d = "sw-access-01" THEN "broken" ELSE "healthy"]
Both == <<"sw-access-01", "rt-wan-01">>
================================================================================
