----------------------------- MODULE MCClientReads -----------------------------
(***************************************************************************)
(* Two parts of a page, two pending reads, one command and one session     *)
(* change.  The first shows one record and the answers of its commands     *)
(* without loading again; the second loads the session, then the record.   *)
(***************************************************************************)
EXTENDS ClientReads, TLC

CONSTANTS v1, v2, me, detail

MCView == {v1, v2}
MCKeysOf == (v1 :> {detail} @@ v2 :> {me, detail})
=============================================================================
