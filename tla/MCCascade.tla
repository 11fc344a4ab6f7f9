------------------------------ MODULE MCCascade ------------------------------
(* A three-step cascade over two hosts, in the shape of CASCADE_STEPS: the   *)
(* root cause degrades first and breaks last, the second host follows it.    *)
EXTENDS Cascade, TLC

MCHosts  == {"primary", "standby"}
MCHostOf == <<"primary", "standby", "primary">>
MCAction == <<"degrade", "degrade", "break">>
MCDelay  == <<0, 1, 2>>

\* The two-step cut of the story for the runs with concurrent requests.
MCHostOf2 == <<"primary", "standby">>
MCAction2 == <<"degrade", "break">>
MCDelay2  == <<0, 1>>

Symmetry == Permutations(Handlers)
==============================================================================
