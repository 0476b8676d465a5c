------------------------------ MODULE MCLaunch ------------------------------
(* Instances of LaunchConductor for TLC.                                   *)
EXTENDS LaunchConductor

Shell(admin, emergency, relayer, backend, mainnetBackend) ==
  [admin |-> admin, emergency |-> emergency, relayer |-> relayer, backend |-> backend,
   mainnetBackend |-> mainnetBackend]

Shells ==
  {Shell(Unset, Unset, "relayer", Unset, Unset), Shell(Unset, "guard", Unset, Unset, "relayer"),
   Shell("safe2", Unset, Unset, "backend", Unset)}

\* Two that work; one that asks for more signatures than it names attesters; one
\* without threshold and genesis.
Configurations ==
  {[attesters |-> {"a", "b"}, threshold |-> 2, genesis |-> "g1"],
   [attesters |-> {"b"}, threshold |-> 1, genesis |-> "g2"],
   [attesters |-> {"b"}, threshold |-> 2, genesis |-> "g1"],
   [attesters |-> {"a"}, threshold |-> 0, genesis |-> Unset]}

=============================================================================
