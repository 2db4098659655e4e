---------------------------- MODULE MCAclFilter ----------------------------
(* AclFilter for TLC.                                                      *)
EXTENDS AclFilter

MCSpecs == {<<20, 25>>, <<0, 80>>}
=============================================================================
