------------------------------- MODULE MCCore -------------------------------
(***************************************************************************)
(* What a session rests on, for TLC: the synchronization of one book, the  *)
(* ring of records and the journal behind it.  Each behaviour is one of    *)
(* one part; the others stay in their initial states.                      *)
(***************************************************************************)
EXTENDS BookSync, BytesRing, Journal

VARIABLE part    \* whose behaviour this is

(* Records of no words, of as many as fit, and of one more.  A record      *)
(* repeats one word, so that a mixture of two is none.                     *)
MCPayloads == {[k \in 1 .. n |-> v] : n \in {0, 3, 4}, v \in Values}

CoreInit ==
  /\ part \in {"sync", "ring", "journal"}
  /\ Init /\ BytesInit /\ JournalInit

Stays(name, v) == part # name => UNCHANGED v

(* Only a journal may come to rest: its calls are bounded. *)
JournalRests == part = "journal" /\ UNCHANGED journalVars

CoreNext ==
  /\ UNCHANGED part
  /\ Stays("sync", vars) /\ Stays("ring", bytesVars) /\ Stays("journal", journalVars)
  /\ \/ part = "sync" /\ Next
     \/ part = "ring" /\ BytesNext
     \/ part = "journal" /\ JournalNext
     \/ JournalRests

coreVars == <<part, vars, bytesVars, journalVars>>

CoreSpec ==
  /\ CoreInit /\ [][CoreNext]_coreVars
  /\ WF_bytesVars(part = "ring" /\ Reading)
  /\ WF_journalVars(part = "journal" /\ Writing)

=============================================================================
