------------------------------- MODULE MCRobot -------------------------------
(***************************************************************************)
(* Instance of Robot for TLC: turned about its right wheel, a command      *)
(* whose two components differ.                                            *)
(***************************************************************************)
EXTENDS Robot

MCMoves == {<<2, 0>>}

=============================================================================
