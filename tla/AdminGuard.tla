------------------------------ MODULE AdminGuard ------------------------------
(***************************************************************************)
(* Changes to the accounts of the admin panel by several super admins at a *)
(* time: PATCH and DELETE /admins/{id}. A request is a row of repository   *)
(* calls, each a transaction of its own: the actor is authorised from one  *)
(* read of the users table, the target checked by a second, the remaining  *)
(* super admins counted by a third, and then come the writes.              *)
(***************************************************************************)
EXTENDS Integers, FiniteSets

CONSTANTS
  Users,       \* accounts
  Categories,  \* card categories, of which an admin is granted some
  Requests,    \* requests, each made once
  Founders,    \* the super admins there are at first; the others are admins
  Changes      \* what a request may ask for

Roles == {"super_admin", "admin", "viewer"}

(* A request body: a role, a value of is_active and a list of categories,  *)
(* each present or not; or the deletion of the account.                    *)
AllChanges ==
  [kind : {"update"}, role : Roles \cup {"keep"},
   active : {"on", "off", "keep"},
   groups : {<<>>} \cup {<<S>> : S \in SUBSET Categories}]
    \cup {[kind |-> "delete", role |-> "keep", active |-> "keep", groups |-> <<>>]}

ASSUME AdminAssumption ==
  /\ Founders \subseteq Users
  /\ IsFiniteSet(Users)
  /\ Changes \subseteq AllChanges

VARIABLES
  role,    \* users.role, or "none" once the row is deleted
  active,  \* users.is_active
  groups,  \* admin_card_groups of each user
  log,     \* audit_log: pairs <<request, "update" or "delete">>
  pc,      \* the next repository call of each request
  actor, target, change,  \* who asks, about whom, for what
  known,   \* the target's role as the request read it
  seen,    \* history: the active super admins when the request was checked
  mixed    \* history: users whose groups two requests replaced at a time

accounts == <<role, active, groups>>
request  == <<actor, target, change>>
vars == <<accounts, log, pc, request, known, seen, mixed>>

TypeOK ==
  /\ role \in [Users -> Roles \cup {"none"}]
  /\ active \in [Users -> BOOLEAN]
  /\ groups \in [Users -> SUBSET Categories]
  /\ log \subseteq Requests \X {"update", "delete"}
  /\ pc \in [Requests -> {"new", "read", "count", "write", "clear", "fill",
                          "audit", "trace", "erase", "done"}]
  /\ actor \in [Requests -> Users]
  /\ target \in [Requests -> Users]
  /\ change \in [Requests -> Changes]
  /\ known \in [Requests -> Roles]
  /\ seen \in [Requests -> SUBSET Users]
  /\ mixed \subseteq Users

(* The request's parameters are whatever the client will send.             *)
Init ==
  /\ role = [u \in Users |-> IF u \in Founders THEN "super_admin" ELSE "admin"]
  /\ active = [u \in Users |-> TRUE]
  /\ groups = [u \in Users |-> {}]
  /\ log = {}
  /\ pc = [r \in Requests |-> "new"]
  /\ actor \in [Requests -> Users]
  /\ target \in [Requests -> Users]
  /\ change \in [Requests -> Changes]
  /\ known = [r \in Requests |-> "viewer"]
  /\ seen = [r \in Requests |-> {}]
  /\ mixed = {}

-----------------------------------------------------------------------------
(* Checks                                                                  *)

ActiveSupers == {u \in Users : role[u] = "super_admin" /\ active[u]}

Goto(r, l) == pc' = [pc EXCEPT ![r] = l]

(* get_current_user and require_super_admin; a request of somebody else is *)
(* refused and never enters the service.                                   *)
Authorise(r) ==
  /\ pc[r] = "new"
  /\ actor[r] \in ActiveSupers
  /\ Goto(r, "read")
  /\ UNCHANGED <<accounts, log, request, known, seen, mixed>>

(* What nobody may do to the own account: 403.                             *)
ForbiddenToSelf(r) ==
  /\ actor[r] = target[r]
  /\ \/ change[r].kind = "delete"
     \/ change[r].active = "off"
     \/ change[r].role \notin {"keep", role[target[r]]}

(* Whether the change costs a super admin of the role that was read.       *)
TakesSuper(c) ==
  c.kind = "delete" \/ c.active = "off" \/ c.role \in {"admin", "viewer"}

(* A slip: the account is deleted first, its audit entry never written.    *)
AfterChecksUntraced(c) == IF c.kind = "delete" THEN "erase" ELSE "write"

AfterChecks(c) == IF c.kind = "delete" THEN "trace" ELSE "write"

ReadTarget(r) ==
  /\ pc[r] = "read"
  /\ IF role[target[r]] = "none" \/ ForbiddenToSelf(r)
       THEN Goto(r, "done") /\ UNCHANGED <<known, seen>>
       ELSE /\ known' = [known EXCEPT ![r] = role[target[r]]]
            /\ seen' = [seen EXCEPT ![r] = ActiveSupers]
            /\ IF TakesSuper(change[r]) /\ role[target[r]] = "super_admin"
                 THEN Goto(r, "count")
                 ELSE Goto(r, AfterChecks(change[r]))
  /\ UNCHANGED <<accounts, log, request, mixed>>

(* A slip: the count is left to the other checks.                          *)
IsLastNever(u) == FALSE

IsLast(u) == ActiveSupers = {u}

(* list_by_roles: 409 when the target is the only active super admin.      *)
CountSupers(r) ==
  /\ pc[r] = "count"
  /\ seen' = [seen EXCEPT ![r] = ActiveSupers]
  /\ Goto(r, IF IsLast(target[r]) THEN "done" ELSE AfterChecks(change[r]))
  /\ UNCHANGED <<accounts, log, request, known, mixed>>

-----------------------------------------------------------------------------
(* Writes                                                                  *)

(* set_groups follows for an account that is an admin now, by the body or  *)
(* by the role that was read.                                              *)
GrantsGroups(r) ==
  /\ change[r].groups # <<>>
  /\ "admin" = IF change[r].role = "keep" THEN known[r] ELSE change[r].role

NewRole(c, old) == IF c.role = "keep" THEN old ELSE c.role

(* update_fields: an UPDATE by id, which a deleted row does not match.     *)
WriteFields(r) ==
  /\ pc[r] = "write"
  /\ LET u == target[r]
         c == change[r]
     IN IF role[u] = "none"
          THEN UNCHANGED <<role, active>>
          ELSE /\ role' = [role EXCEPT ![u] = NewRole(c, @)]
               /\ active' = [active EXCEPT ![u] =
                               IF c.active = "keep" THEN @ ELSE c.active = "on"]
  /\ Goto(r, IF GrantsGroups(r) THEN "clear" ELSE "audit")
  /\ UNCHANGED <<groups, log, request, known, seen, mixed>>

(* Another request stands between the two statements of its set_groups for *)
(* the same user.                                                          *)
Overlaps(r) ==
  \E q \in Requests \ {r} : pc[q] = "fill" /\ target[q] = target[r]

(* A slip: the old rows stay.                                              *)
ClearedNot(u) == groups[u]

Cleared(u) == {}

(* set_groups: the DELETE, and the INSERT only of a list that is not empty.*)
ClearGroups(r) ==
  /\ pc[r] = "clear"
  /\ groups' = [groups EXCEPT ![target[r]] = Cleared(target[r])]
  /\ mixed' = mixed \cup IF Overlaps(r) THEN {target[r]} ELSE {}
  /\ Goto(r, IF change[r].groups[1] = {} THEN "audit" ELSE "fill")
  /\ UNCHANGED <<role, active, log, request, known, seen>>

(* The INSERT of set_groups; it raises for a user that is gone or a pair   *)
(* that is there already.                                                  *)
FillGroups(r) ==
  /\ pc[r] = "fill"
  /\ LET u == target[r]
         S == change[r].groups[1]
     IN IF role[u] = "none" \/ groups[u] \cap S # {}
          THEN Goto(r, "done") /\ UNCHANGED groups
          ELSE /\ groups' = [groups EXCEPT ![u] = @ \cup S]
               /\ Goto(r, "audit")
  /\ UNCHANGED <<role, active, log, request, known, seen, mixed>>

(* audit.write: actor_id is a foreign key, the INSERT raises for an actor  *)
(* who has been deleted.                                                   *)
Logged(r, l) == IF role[actor[r]] = "none" THEN log ELSE log \cup {<<r, l>>}

AuditUpdate(r) ==
  /\ pc[r] = "audit"
  /\ log' = Logged(r, "update")
  /\ Goto(r, "done")
  /\ UNCHANGED <<accounts, request, known, seen, mixed>>

AuditDelete(r) ==
  /\ pc[r] = "trace"
  /\ log' = Logged(r, "delete")
  /\ Goto(r, IF role[actor[r]] = "none" THEN "done" ELSE "erase")
  /\ UNCHANGED <<accounts, request, known, seen, mixed>>

(* The DELETE; the grants of the account go with it.                       *)
DeleteRow(r) ==
  /\ pc[r] = "erase"
  /\ role' = [role EXCEPT ![target[r]] = "none"]
  /\ groups' = [groups EXCEPT ![target[r]] = {}]
  /\ Goto(r, "done")
  /\ UNCHANGED <<active, log, request, known, seen, mixed>>

(* A repository call raises or the process ends: the calls before it stay. *)
Abort(r) ==
  /\ pc[r] \notin {"new", "done"}
  /\ Goto(r, "done")
  /\ UNCHANGED <<accounts, log, request, known, seen, mixed>>

Step(r) ==
  \/ Authorise(r) \/ ReadTarget(r) \/ CountSupers(r)
  \/ WriteFields(r) \/ ClearGroups(r) \/ FillGroups(r) \/ AuditUpdate(r)
  \/ AuditDelete(r) \/ DeleteRow(r)
  \/ Abort(r)

Next == \E r \in Requests : Step(r)

Spec == Init /\ [][Next]_vars

-----------------------------------------------------------------------------
(* A deleted account has left a trace of who deleted it: the comment above *)
(* the audit call of delete_admin, over concurrent deletions and failures. *)
DeletionTraced ==
  \A u \in Users : role[u] = "none" =>
    \E r \in Requests : target[r] = u /\ <<r, "delete">> \in log

(* Where a request may still take a super admin away, others were left     *)
(* when it was checked.                                                    *)
CheckedAgainstOthers ==
  \A r \in Requests :
    /\ pc[r] \in {"write", "trace", "erase"} /\ TakesSuper(change[r])
         => seen[r] # {target[r]}
    /\ pc[r] \in {"trace", "erase"} => change[r].kind = "delete"

(* The last active super admin is lost only to a request whose check saw   *)
(* other super admins than there are at its write: one request at a time   *)
(* never costs the panel its last super admin, even one whose actor was    *)
(* demoted after the authorisation.                                        *)
LosesLastSuper == ActiveSupers # {} /\ ActiveSupers' = {}

SuperLostOnlyByRace ==
  [][LosesLastSuper =>
       \E r \in Requests : /\ pc[r] \in {"write", "erase"} /\ pc'[r] # pc[r]
                           /\ seen[r] # ActiveSupers]_vars

(* The grants of an account are those of one request and never a mix of    *)
(* two, unless one replaced them between the two statements of the other.  *)
GroupsOfOneRequest ==
  \A u \in Users \ mixed :
    groups[u] = {} \/ \E r \in Requests : /\ target[r] = u
                                          /\ change[r].groups = <<groups[u]>>

(* The inductive invariant: a row is only erased after its trace, and what *)
(* lies between the two statements of set_groups is empty and nobody's     *)
(* else, where grants are not mixed.                                       *)
TracedFirst == \A r \in Requests : pc[r] = "erase" => <<r, "delete">> \in log

BetweenStatements ==
  \A r \in Requests :
    /\ pc[r] \in {"clear", "fill"} => change[r].groups # <<>>
    /\ pc[r] = "fill" /\ target[r] \notin mixed =>
         /\ groups[target[r]] = {}
         /\ \A q \in Requests \ {r} : pc[q] = "fill" => target[q] # target[r]

IInv ==
  /\ TypeOK
  /\ CheckedAgainstOthers
  /\ DeletionTraced
  /\ TracedFirst
  /\ GroupsOfOneRequest
  /\ BetweenStatements

(* What the messages of the two 409 answers promise: an active super admin *)
(* always remains.                                                         *)
ActiveSuperRemains == ActiveSupers # {}

=============================================================================
