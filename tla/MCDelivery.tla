------------------------------- MODULE MCDelivery -------------------------------
(* One host of its own and one of the fleet: piggyback with both; agent files of   *)
(* the first alone, and of the second when the first one's script is not there.   *)
EXTENDS Delivery

OneKid == <<"db">>
OneBulk == <<"web">>
Mode(delivery, fleet, missing) ==
    [delivery |-> delivery, fleet |-> fleet, missing |-> missing]
ThreeModes == {Mode("piggyback", TRUE, {}), Mode("datasource", FALSE, {}),
               Mode("datasource", TRUE, {"db"})}
\* A poll's answer is about who answers, the agent files also about what.
Toggles == [piggyback |-> 0, datasource |-> 1]
================================================================================
