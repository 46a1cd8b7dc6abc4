----------------------------- MODULE MCUserAccess -----------------------------
(***************************************************************************)
(* Two browsers and two users: an administrator, and a user with two roles *)
(* or none.  The access of each changes twice at most.                     *)
(***************************************************************************)
EXTENDS UserAccess, TLC

CONSTANTS ann, bob, planner, admin

MCUser == {ann, bob}
MCRole == {planner, admin}
MCRank == planner :> 1 @@ admin :> 2
MCInitialRoles == ann :> {{admin}} @@ bob :> {{planner, admin}, {}}
MCMaxChanges == [u \in MCUser |-> 2]

Symmetry == Permutations(Session) \cup Permutations(Client)
=============================================================================
