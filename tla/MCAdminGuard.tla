---------------------------- MODULE MCAdminGuard ----------------------------
(***************************************************************************)
(* Two super admins and an admin; requests that change roles and activity, *)
(* delete accounts and replace grants.                                     *)
(***************************************************************************)
EXTENDS AdminGuard, TLC

CONSTANTS ann, bob, eve, a, b

Change(r, act, g) == [kind |-> "update", role |-> r, active |-> act, groups |-> g]

Deletion ==
  [kind |-> "delete", role |-> "keep", active |-> "keep", groups |-> <<>>]

RoleChanges ==
  {Change("super_admin", "keep", <<>>), Change("admin", "keep", <<{a}>>),
   Change("viewer", "off", <<>>), Change("keep", "on", <<{b}>>), Deletion}

Symmetry == Permutations(Requests) \cup Permutations(Founders)

=============================================================================
