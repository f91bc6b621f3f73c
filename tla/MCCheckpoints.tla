---------------------------- MODULE MCCheckpoints ----------------------------
(* An instance of Checkpoints: with a critic and without. *)
EXTENDS Checkpoints

MCGroupings == {<<"actor">>, <<"actor", "critic">>}
==============================================================================
