---------------------------- MODULE MCTurnChanges ----------------------------
(* Two files: one with two hunks, one that is there or not.                  *)
EXTENDS TurnChanges, TLC

MCVersions ==
  (1 :> {<<0, 0>>, <<1, 0>>, <<1, 1>>}) @@ (2 :> {Absent, <<0, 0>>})
MCInitialFile == (1 :> <<0, 0>>) @@ (2 :> <<0, 0>>)
=============================================================================
