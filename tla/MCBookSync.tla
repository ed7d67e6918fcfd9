------------------------------ MODULE MCBookSync ------------------------------
(***************************************************************************)
(* BookSync on a small instance, with one history variable: the end of the *)
(* newest delta the sync was given since it was last reset.  All data is   *)
(* valid here.                                                             *)
(***************************************************************************)
EXTENDS BookSync

VARIABLE heard

mcVars == <<vars, heard>>

MCInit == Init /\ heard = 0

MCNext ==
  \/ /\ \E l \in Level, q \in Qtys : VenueUpdate(l, q)
     /\ UNCHANGED heard
  \/ \E first, to \in 1 .. now :
       /\ first <= to
       /\ OnDelta(Delta(first, to, FALSE))
       /\ heard' = IF to > heard THEN to ELSE heard
  \/ \E seq \in 0 .. now : OnSnapshot(seq) /\ UNCHANGED heard
  \/ Reset /\ heard' = 0

MCSpec == MCInit /\ [][MCNext]_mcVars

(* A book that can be read is never behind a delta the sync has already    *)
(* been given (sync.rs: "The book is only readable through                 *)
(* [`BookSync::book`] while live, so a stale or half-synchronized book can *)
(* never be quoted from").                                                 *)
LiveBookIsNeverStale == live => last >= heard

=============================================================================
