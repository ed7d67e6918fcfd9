------------------------------ MODULE MCMdReplay ------------------------------
(***************************************************************************)
(* MdSession and the replay of its journal for TLC, with the constants of  *)
(* MCMdSession.                                                            *)
(***************************************************************************)
EXTENDS MdReplay, MCMdSession

=============================================================================
