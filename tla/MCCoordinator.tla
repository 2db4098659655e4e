--------------------------- MODULE MCCoordinator ---------------------------
(* Instances of Coordinator for TLC. *)
EXTENDS Coordinator, TLC

\* "a" and "a-2": dedupeHostname turns a second "a" into the name another
\* device may ask for directly.
TwoNames == {<<"a">>, <<"a", 2>>}

MachineSymmetry == Permutations(Machines)
StreamSymmetry == Permutations(Machines) \cup Permutations(Streams)
=============================================================================
