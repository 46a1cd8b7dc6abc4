---------------------------- MODULE MCClientAccess ----------------------------
(***************************************************************************)
(* ClientAccess with all five roles and at most two sessions, so that the  *)
(* cookie changes role once under the tab (an operator logs in elsewhere), *)
(* and one move of the user.  The tour moves without bound in the first of *)
(* the sessions.                                                           *)
(***************************************************************************)
EXTENDS ClientAccess

=============================================================================
