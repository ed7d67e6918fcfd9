----------------------------- MODULE MCMdSession -----------------------------
(***************************************************************************)
(* MdSession for TLC.  Instruments are numbered as id_of numbers them.     *)
(***************************************************************************)
EXTENDS MdSession

MCInstruments == 1 .. NumInstruments

(* The second update of the last instrument is misreported. *)
MCMisreported == [i \in MCInstruments |-> IF i = NumInstruments THEN 2 ELSE 0]

(* Its level is among those that are compared at once, and no longer after *)
(* the third update; or only from then on.                                 *)
MCInReach == [i \in MCInstruments |-> {2}]
MCInReachLater == [i \in MCInstruments |-> {3}]

=============================================================================
