----------------------------- MODULE MCHostAgent -----------------------------
(* One host with up to two request threads next to its watchdog.             *)
EXTENDS HostAgent, TLC

Symmetry == Permutations(Handlers)
==============================================================================
