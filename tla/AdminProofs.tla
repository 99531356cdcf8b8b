------------------------------ MODULE AdminProofs ------------------------------
(***************************************************************************)
(* Proofs about AdminGuard, for any number of accounts, requests and       *)
(* categories and any set of changes. The invariant is shown one action at *)
(* a time; the loss of the last super admin is then a step of a request    *)
(* that was checked against others. The last part is about AdminsPanel,    *)
(* for any number of accounts, pages and saves.                            *)
(***************************************************************************)
EXTENDS AdminGuard, AdminsPanel, FiniteSetTheorems, TLAPS

USE AdminAssumption DEF accounts, request, vars, Goto

LEMMA InitInv == Init => IInv
  BY DEF Init, IInv, TypeOK, CheckedAgainstOthers, DeletionTraced, TracedFirst,
         GroupsOfOneRequest, BetweenStatements, Roles

-----------------------------------------------------------------------------
(* A change that was typed has typed fields.                               *)
LEMMA ChangeFields ==
  ASSUME NEW c \in Changes
  PROVE  /\ c.role \in Roles \cup {"keep"}
         /\ c.groups # <<>> => c.groups[1] \in SUBSET Categories
         /\ c.groups # <<>> => c.groups = <<c.groups[1]>>
  BY DEF AllChanges

(* Steps that change no table and move a request to a place where nothing  *)
(* is promised of it: the checks that refuse, and Abort.                   *)
LEMMA Leaves ==
  ASSUME IInv, NEW r \in Requests, Goto(r, "done"),
         UNCHANGED <<accounts, log, request, known, seen, mixed>>
  PROVE  IInv'
PROOF
  <1> USE DEF IInv
  <1>1. TypeOK'  BY DEF TypeOK
  <1>2. CheckedAgainstOthers'  BY DEF CheckedAgainstOthers, TypeOK
  <1>3. DeletionTraced'  BY DEF DeletionTraced
  <1>4. TracedFirst'  BY DEF TracedFirst, TypeOK
  <1>5. GroupsOfOneRequest'  BY DEF GroupsOfOneRequest
  <1>6. BetweenStatements'  BY DEF BetweenStatements, TypeOK
  <1>. QED  BY <1>1, <1>2, <1>3, <1>4, <1>5, <1>6

LEMMA StepAuthorise ==
  ASSUME IInv, NEW r \in Requests, Authorise(r)  PROVE IInv'
PROOF
  <1> USE DEF IInv, Authorise
  <1>1. TypeOK'  BY DEF TypeOK
  <1>2. CheckedAgainstOthers'  BY DEF CheckedAgainstOthers, TypeOK
  <1>3. DeletionTraced'  BY DEF DeletionTraced
  <1>4. TracedFirst'  BY DEF TracedFirst, TypeOK
  <1>5. GroupsOfOneRequest'  BY DEF GroupsOfOneRequest
  <1>6. BetweenStatements'  BY DEF BetweenStatements, TypeOK
  <1>. QED  BY <1>1, <1>2, <1>3, <1>4, <1>5, <1>6

LEMMA StepReadTarget ==
  ASSUME IInv, NEW r \in Requests, ReadTarget(r)  PROVE IInv'
PROOF
  <1> USE DEF IInv
  <1>a. CASE pc'[r] = "done" /\ seen' = seen /\ known' = known
    BY <1>a, Leaves DEF ReadTarget, TypeOK, AfterChecks
  <1>b. CASE ~(pc'[r] = "done" /\ seen' = seen /\ known' = known)
    <2> USE <1>b
    <2>1. /\ role[target[r]] # "none"
          /\ known' = [known EXCEPT ![r] = role[target[r]]]
          /\ seen' = [seen EXCEPT ![r] = ActiveSupers]
          /\ UNCHANGED <<accounts, log, request, mixed>>
          /\ pc[r] = "read"
      BY DEF ReadTarget, TypeOK
    <2>2. PICK l \in {"count", "trace", "write"} :
            Goto(r, l) /\ (l = "trace" => change[r].kind = "delete")
      BY DEF ReadTarget, AfterChecks, TypeOK
    <2>3. l # "count" /\ TakesSuper(change[r]) => role[target[r]] # "super_admin"
      BY <2>2 DEF ReadTarget, TypeOK, AfterChecks
    <2>4. ActiveSupers \in SUBSET Users  BY DEF ActiveSupers
    <2>5. TypeOK'  BY <2>1, <2>2, <2>4 DEF TypeOK
    <2>6. CheckedAgainstOthers'
      <3> SUFFICES ASSUME NEW q \in Requests,
                          pc'[q] \in {"write", "trace", "erase"},
                          TakesSuper(change[q])'
                   PROVE  seen'[q] # {target'[q]}
        BY <2>1, <2>2 DEF CheckedAgainstOthers, TypeOK
      <3>1. TakesSuper(change[q])  BY <2>1 DEF TakesSuper
      <3>2. CASE q = r
        <4>1. target[r] \notin ActiveSupers
          BY <2>2, <2>3, <3>1, <3>2 DEF ActiveSupers, TypeOK
        <4>. QED  BY <2>1, <3>2, <4>1 DEF TypeOK
      <3>3. CASE q # r
        BY <2>1, <2>2, <3>1, <3>3 DEF CheckedAgainstOthers, TypeOK
      <3>. QED  BY <3>2, <3>3
    <2>7. DeletionTraced'  BY <2>1 DEF DeletionTraced
    <2>8. TracedFirst'  BY <2>1, <2>2 DEF TracedFirst, TypeOK
    <2>9. GroupsOfOneRequest'  BY <2>1 DEF GroupsOfOneRequest
    <2>10. BetweenStatements'  BY <2>1, <2>2 DEF BetweenStatements, TypeOK
    <2>. QED  BY <2>5, <2>6, <2>7, <2>8, <2>9, <2>10
  <1>. QED  BY <1>a, <1>b

LEMMA StepCountSupers ==
  ASSUME IInv, NEW r \in Requests, CountSupers(r)  PROVE IInv'
PROOF
  <1> USE DEF IInv
  <1>1. /\ pc[r] = "count" /\ seen' = [seen EXCEPT ![r] = ActiveSupers]
        /\ UNCHANGED <<accounts, log, request, known, mixed>>
    BY DEF CountSupers
  <1>2. PICK l \in {"done", "trace", "write"} :
          /\ Goto(r, l)
          /\ l # "done" => ActiveSupers # {target[r]}
          /\ l = "trace" => change[r].kind = "delete"
    BY DEF CountSupers, AfterChecks, IsLast
  <1>3. ActiveSupers \in SUBSET Users  BY DEF ActiveSupers
  <1>4. TypeOK'  BY <1>1, <1>2, <1>3 DEF TypeOK
  <1>5. CheckedAgainstOthers'
    BY <1>1, <1>2 DEF CheckedAgainstOthers, TypeOK, TakesSuper
  <1>6. DeletionTraced'  BY <1>1 DEF DeletionTraced
  <1>7. TracedFirst'  BY <1>1, <1>2 DEF TracedFirst, TypeOK
  <1>8. GroupsOfOneRequest'  BY <1>1 DEF GroupsOfOneRequest
  <1>9. BetweenStatements'  BY <1>1, <1>2 DEF BetweenStatements, TypeOK
  <1>. QED  BY <1>4, <1>5, <1>6, <1>7, <1>8, <1>9

LEMMA StepWriteFields ==
  ASSUME IInv, NEW r \in Requests, WriteFields(r)  PROVE IInv'
PROOF
  <1> USE DEF IInv
  <1>1. UNCHANGED <<groups, log, request, known, seen, mixed>> /\ pc[r] = "write"
    BY DEF WriteFields
  <1>2. PICK l \in {"clear", "audit"} :
          Goto(r, l) /\ (l = "clear" => change[r].groups # <<>>)
    BY DEF WriteFields, GrantsGroups
  <1>3. /\ role' \in [Users -> Roles \cup {"none"}]
        /\ active' \in [Users -> BOOLEAN]
        /\ \A u \in Users : role'[u] = "none" => role[u] = "none"
    <2> DEFINE u == target[r]
               c == change[r]
               new == IF c.active = "keep" THEN active[u] ELSE c.active = "on"
    <2>1. CASE role[u] = "none"  BY <2>1 DEF WriteFields, TypeOK
    <2>2. CASE role[u] # "none"
      <3>1. /\ role' = [role EXCEPT ![u] = NewRole(c, role[u])]
            /\ active' = [active EXCEPT ![u] = new]
        BY <2>2 DEF WriteFields
      <3>2. active[u] \in BOOLEAN  BY DEF TypeOK
      <3>3. new \in BOOLEAN  BY <3>2, Zenon
      <3> HIDE DEF new
      <3>. QED  BY <2>2, <3>1, <3>3, ChangeFields DEF NewRole, TypeOK, Roles
    <2>. QED  BY <2>1, <2>2
  <1>4. TypeOK'  BY <1>1, <1>2, <1>3 DEF TypeOK
  <1>5. CheckedAgainstOthers'
    BY <1>1, <1>2 DEF CheckedAgainstOthers, TypeOK, TakesSuper
  <1>6. DeletionTraced'  BY <1>1, <1>3 DEF DeletionTraced
  <1>7. TracedFirst'  BY <1>1, <1>2 DEF TracedFirst, TypeOK
  <1>8. GroupsOfOneRequest'  BY <1>1 DEF GroupsOfOneRequest
  <1>9. BetweenStatements'  BY <1>1, <1>2 DEF BetweenStatements, TypeOK
  <1>. QED  BY <1>4, <1>5, <1>6, <1>7, <1>8, <1>9

LEMMA StepClearGroups ==
  ASSUME IInv, NEW r \in Requests, ClearGroups(r)  PROVE IInv'
PROOF
  <1> USE DEF IInv
  <1>1. /\ UNCHANGED <<role, active, log, request, known, seen>>
        /\ pc[r] = "clear"
        /\ groups' = [groups EXCEPT ![target[r]] = {}]
        /\ mixed' = mixed \cup IF Overlaps(r) THEN {target[r]} ELSE {}
    BY DEF ClearGroups, Cleared
  <1>2. PICK l \in {"audit", "fill"} : Goto(r, l)  BY DEF ClearGroups
  <1>3. TypeOK'  BY <1>1, <1>2 DEF TypeOK
  <1>4. CheckedAgainstOthers'
    BY <1>1, <1>2 DEF CheckedAgainstOthers, TypeOK, TakesSuper
  <1>5. DeletionTraced'  BY <1>1 DEF DeletionTraced
  <1>6. TracedFirst'  BY <1>1, <1>2 DEF TracedFirst, TypeOK
  <1>7. GroupsOfOneRequest'  BY <1>1 DEF GroupsOfOneRequest, TypeOK
  <1>8. BetweenStatements'
    BY <1>1, <1>2 DEF BetweenStatements, TypeOK, Overlaps
  <1>. QED  BY <1>3, <1>4, <1>5, <1>6, <1>7, <1>8

LEMMA StepFillGroups ==
  ASSUME IInv, NEW r \in Requests, FillGroups(r)  PROVE IInv'
PROOF
  <1> USE DEF IInv
  <1>a. CASE Goto(r, "done") /\ UNCHANGED groups
    BY <1>a, Leaves DEF FillGroups
  <1>b. CASE Goto(r, "audit") /\ ~UNCHANGED groups
    <2> USE <1>b
    <2>1. /\ UNCHANGED <<role, active, log, request, known, seen, mixed>>
          /\ pc[r] = "fill"
          /\ groups' = [groups EXCEPT ![target[r]] = @ \cup change[r].groups[1]]
      BY DEF FillGroups
    <2>2. /\ change[r].groups[1] \in SUBSET Categories
          /\ change[r].groups = <<change[r].groups[1]>>
      BY <2>1, ChangeFields DEF BetweenStatements, TypeOK
    <2>3. TypeOK'  BY <2>1, <2>2 DEF TypeOK
    <2>4. CheckedAgainstOthers'
      BY <2>1 DEF CheckedAgainstOthers, TypeOK, TakesSuper
    <2>5. DeletionTraced'  BY <2>1 DEF DeletionTraced
    <2>6. TracedFirst'  BY <2>1 DEF TracedFirst, TypeOK
    <2>7. GroupsOfOneRequest'
      <3> SUFFICES ASSUME NEW u \in Users \ mixed
                   PROVE  groups'[u] = {} \/
                            \E q \in Requests : /\ target[q] = u
                                                /\ change[q].groups = <<groups'[u]>>
        BY <2>1 DEF GroupsOfOneRequest
      <3>1. CASE u = target[r]
        <4>1. groups[u] = {}  BY <2>1, <3>1 DEF BetweenStatements
        <4>2. groups'[u] = change[r].groups[1]  BY <2>1, <3>1, <4>1 DEF TypeOK
        <4>. QED  BY <2>2, <3>1, <4>2
      <3>2. CASE u # target[r]
        BY <2>1, <3>2 DEF GroupsOfOneRequest, TypeOK
      <3>. QED  BY <3>1, <3>2
    <2>8. BetweenStatements'  BY <2>1 DEF BetweenStatements, TypeOK
    <2>. QED  BY <2>3, <2>4, <2>5, <2>6, <2>7, <2>8
  <1>c. CASE Goto(r, "audit") /\ UNCHANGED groups
    <2> USE <1>c
    <2>1. UNCHANGED <<role, active, log, request, known, seen, mixed>>
      BY DEF FillGroups
    <2>2. TypeOK'  BY <2>1 DEF TypeOK
    <2>3. CheckedAgainstOthers'
      BY <2>1 DEF CheckedAgainstOthers, TypeOK, TakesSuper
    <2>4. DeletionTraced'  BY <2>1 DEF DeletionTraced
    <2>5. TracedFirst'  BY <2>1 DEF TracedFirst, TypeOK
    <2>6. GroupsOfOneRequest'  BY <2>1 DEF GroupsOfOneRequest
    <2>7. BetweenStatements'  BY <2>1 DEF BetweenStatements, TypeOK
    <2>. QED  BY <2>2, <2>3, <2>4, <2>5, <2>6, <2>7
  <1>. QED  BY <1>a, <1>b, <1>c DEF FillGroups

LEMMA StepAuditUpdate ==
  ASSUME IInv, NEW r \in Requests, AuditUpdate(r)  PROVE IInv'
PROOF
  <1> USE DEF IInv
  <1>1. /\ UNCHANGED <<accounts, request, known, seen, mixed>>
        /\ Goto(r, "done")
        /\ log \subseteq log'
        /\ log' \subseteq log \cup {<<r, "update">>}
    BY DEF AuditUpdate, Logged
  <1>2. TypeOK'  BY <1>1 DEF TypeOK
  <1>3. CheckedAgainstOthers'
    BY <1>1 DEF CheckedAgainstOthers, TypeOK, TakesSuper
  <1>4. DeletionTraced'  BY <1>1 DEF DeletionTraced
  <1>5. TracedFirst'  BY <1>1 DEF TracedFirst, TypeOK
  <1>6. GroupsOfOneRequest'  BY <1>1 DEF GroupsOfOneRequest
  <1>7. BetweenStatements'  BY <1>1 DEF BetweenStatements, TypeOK
  <1>. QED  BY <1>2, <1>3, <1>4, <1>5, <1>6, <1>7

LEMMA StepAuditDelete ==
  ASSUME IInv, NEW r \in Requests, AuditDelete(r)  PROVE IInv'
PROOF
  <1> USE DEF IInv
  <1>1. /\ UNCHANGED <<accounts, request, known, seen, mixed>>
        /\ pc[r] = "trace"
        /\ log \subseteq log'
        /\ log' \subseteq log \cup {<<r, "delete">>}
    BY DEF AuditDelete, Logged
  <1>2. PICK l \in {"done", "erase"} :
          Goto(r, l) /\ (l = "erase" => <<r, "delete">> \in log')
    BY DEF AuditDelete, Logged
  <1>3. TypeOK'  BY <1>1, <1>2 DEF TypeOK
  <1>4. CheckedAgainstOthers'
    BY <1>1, <1>2 DEF CheckedAgainstOthers, TypeOK, TakesSuper
  <1>5. DeletionTraced'  BY <1>1 DEF DeletionTraced
  <1>6. TracedFirst'  BY <1>1, <1>2 DEF TracedFirst, TypeOK
  <1>7. GroupsOfOneRequest'  BY <1>1 DEF GroupsOfOneRequest
  <1>8. BetweenStatements'  BY <1>1, <1>2 DEF BetweenStatements, TypeOK
  <1>. QED  BY <1>3, <1>4, <1>5, <1>6, <1>7, <1>8

LEMMA StepDeleteRow ==
  ASSUME IInv, NEW r \in Requests, DeleteRow(r)  PROVE IInv'
PROOF
  <1> USE DEF IInv, DeleteRow
  <1>1. TypeOK'  BY DEF TypeOK
  <1>2. CheckedAgainstOthers'  BY DEF CheckedAgainstOthers, TypeOK, TakesSuper
  <1>3. DeletionTraced'  BY DEF DeletionTraced, TracedFirst, TypeOK
  <1>4. TracedFirst'  BY DEF TracedFirst, TypeOK
  <1>5. GroupsOfOneRequest'  BY DEF GroupsOfOneRequest, TypeOK
  <1>6. BetweenStatements'  BY DEF BetweenStatements, TypeOK
  <1>. QED  BY <1>1, <1>2, <1>3, <1>4, <1>5, <1>6

LEMMA StepAbort ==
  ASSUME IInv, NEW r \in Requests, Abort(r)  PROVE IInv'
  BY Leaves DEF Abort

LEMMA Stutters ==
  ASSUME IInv, UNCHANGED vars  PROVE IInv'
PROOF
  <1> USE DEF IInv
  <1>1. TypeOK'  BY DEF TypeOK
  <1>2. CheckedAgainstOthers'  BY DEF CheckedAgainstOthers, TakesSuper
  <1>3. DeletionTraced'  BY DEF DeletionTraced
  <1>4. TracedFirst'  BY DEF TracedFirst
  <1>5. GroupsOfOneRequest'  BY DEF GroupsOfOneRequest
  <1>6. BetweenStatements'  BY DEF BetweenStatements
  <1>. QED  BY <1>1, <1>2, <1>3, <1>4, <1>5, <1>6

LEMMA NextInv == IInv /\ [Next]_vars => IInv'
PROOF
  <1> SUFFICES ASSUME IInv, [Next]_vars  PROVE IInv'
    OBVIOUS
  <1>1. ASSUME NEW r \in Requests, Step(r)  PROVE IInv'
    BY <1>1, StepAuthorise, StepReadTarget, StepCountSupers, StepWriteFields,
       StepClearGroups, StepFillGroups, StepAuditUpdate, StepAuditDelete,
       StepDeleteRow, StepAbort DEF Step
  <1>2. CASE UNCHANGED vars  BY <1>2, Stutters
  <1>. QED  BY <1>1, <1>2 DEF Next

-----------------------------------------------------------------------------
(* The inductive invariant holds for every set of users, requests and      *)
(* changes, however the repository calls of the requests interleave.       *)
THEOREM Invariance == Spec => []IInv
  BY InitInv, NextInv, PTL DEF Spec

(* A deleted account has its entry in the audit log, for any number of     *)
(* concurrent deletions, failures included (delete_admin).                 *)
THEOREM DeletionsAreTraced == Spec => []DeletionTraced
PROOF
  <1>1. IInv => DeletionTraced  BY DEF IInv
  <1>. QED  BY <1>1, Invariance, PTL

(* set_groups mixes the grants of two requests only when they overlap.     *)
THEOREM GrantsAreOneRequests == Spec => []GroupsOfOneRequest
PROOF
  <1>1. IInv => GroupsOfOneRequest  BY DEF IInv
  <1>. QED  BY <1>1, Invariance, PTL

(* Only a write can take a super admin away, and only its own target.      *)
LEMMA WhoTakes ==
  ASSUME IInv, NEW r \in Requests, Step(r), LosesLastSuper
  PROVE  /\ pc[r] \in {"write", "erase"} /\ pc'[r] # pc[r]
         /\ seen[r] # ActiveSupers
PROOF
  <1> USE DEF IInv
  <1>1. (role' = role /\ active' = active) \/ WriteFields(r) \/ DeleteRow(r)
    BY DEF Step, Authorise, ReadTarget, CountSupers, ClearGroups, FillGroups,
           AuditUpdate, AuditDelete, Abort
  <1>2. ~(role' = role /\ active' = active)
    BY DEF LosesLastSuper, ActiveSupers
  <1>3. /\ pc[r] \in {"write", "erase"} /\ pc'[r] # pc[r]
        /\ \A u \in Users \ {target[r]} : role'[u] = role[u] /\ active'[u] = active[u]
    BY <1>1, <1>2 DEF WriteFields, DeleteRow, TypeOK
  <1>4. ActiveSupers = {target[r]}
    BY <1>3 DEF LosesLastSuper, ActiveSupers
  <1>5. TakesSuper(change[r])
    <2>1. CASE WriteFields(r)
      <3> DEFINE u == target[r]
      <3>1. u \in Users /\ role[u] = "super_admin" /\ active[u]
        BY <1>4 DEF ActiveSupers
      <3>2. ~(role'[u] = "super_admin" /\ active'[u])
        BY <3>1 DEF LosesLastSuper, ActiveSupers
      <3>3. role'[u] = NewRole(change[r], role[u])
        BY <2>1, <3>1 DEF WriteFields, TypeOK
      <3>4. active'[u] = IF change[r].active = "keep" THEN active[u]
                                                      ELSE change[r].active = "on"
        BY <2>1, <3>1, Zenon DEF WriteFields, TypeOK
      <3>5. /\ change[r].active \in {"on", "off", "keep"}
            /\ change[r].role \in Roles \cup {"keep"}
        BY DEF TypeOK, AllChanges
      <3>6. CASE change[r].active = "off"  BY <3>6 DEF TakesSuper
      <3>7. CASE change[r].active # "off"
        <4>1. active'[u]  BY <3>1, <3>4, <3>5, <3>7
        <4>. QED  BY <3>1, <3>2, <3>3, <3>5, <4>1 DEF NewRole, Roles, TakesSuper
      <3>. QED  BY <3>6, <3>7
    <2>2. CASE DeleteRow(r)
      BY <2>2 DEF DeleteRow, CheckedAgainstOthers, TakesSuper
    <2>. QED  BY <1>1, <1>2, <2>1, <2>2
  <1>. QED  BY <1>3, <1>4, <1>5 DEF CheckedAgainstOthers

(* The last active super admin is lost only to a request that was checked  *)
(* against a set of super admins that has changed since (update_admin,     *)
(* delete_admin), for any number of super admins and requests.             *)
THEOREM LastSuperIsLostByRace == Spec => SuperLostOnlyByRace
PROOF
  <1>1. IInv /\ [Next]_vars =>
          [LosesLastSuper =>
             \E r \in Requests : /\ pc[r] \in {"write", "erase"} /\ pc'[r] # pc[r]
                                 /\ seen[r] # ActiveSupers]_vars
    BY WhoTakes DEF Next
  <1>. QED  BY <1>1, Invariance, PTL DEF Spec, SuperLostOnlyByRace

-----------------------------------------------------------------------------
(* The page of the accounts                                                *)

USE AdminsPanelAssumption

PanelRequests == [form : Forms, invite : BOOLEAN, run : {"not", "last", "past"}]

PanelShape ==
  /\ entries \in [Accounts -> Entry] /\ table \in [Accounts -> Entry]
  /\ form \subseteq Forms /\ inviting \in BOOLEAN
  /\ sent \subseteq PanelRequests /\ confirmed \subseteq Forms

(* The rights an account has are those that the form asked for.            *)
HasAsked(e, f) ==
  /\ e.role = "viewer" <=> f.scope = "viewer"
  /\ e.role = "super_admin" <=> f.scope = "all"
  /\ f.scope \in {"group", "card"} => e.role = "admin"
  /\ f.scope = "group" => e.cats = f.cats

(* So it is with every form that is reported, or ran last on its account.  *)
ReportedHolds == \A f \in confirmed : HasAsked(entries[f.account], f)
LastHolds     == \A q \in sent : q.run = "last" => HasAsked(entries[q.form.account], q.form)

AdminsInv == PanelShape /\ ReportedHolds /\ LastHolds

LEMMA AdminsInitially == AdminsPanelInit => AdminsInv
PROOF
  <1>. SUFFICES ASSUME AdminsPanelInit PROVE AdminsInv  OBVIOUS
  <1>1. entries \in [Accounts -> Entry]
    BY DEF AdminsPanelInit, Entry, PanelRoles, Absent
  <1>2. PanelShape  BY <1>1 DEF AdminsPanelInit, PanelShape
  <1>3. ReportedHolds /\ LastHolds
    BY DEF AdminsPanelInit, ReportedHolds, LastHolds
  <1>. QED  BY <1>2, <1>3 DEF AdminsInv

LEMMA ScopeIs == \A e \in Entry : ScopeOf(e) \in Scopes
  BY DEF ScopeOf, Scopes, Entry

(* What the server makes of a form is what the form asks for.              *)
LEMMA GrantedIsAsked ==
  ASSUME PanelShape, NEW f \in Forms, NEW invite \in BOOLEAN
  PROVE  Granted(f, invite) \in Entry /\ HasAsked(Granted(f, invite), f)
PROOF
  <1>1. /\ f.account \in Accounts /\ f.scope \in Scopes /\ f.cats \in BOOLEAN
        /\ entries[f.account].cats \in BOOLEAN
    BY DEF PanelShape, Forms, Entry
  <1>2. PICK kept \in BOOLEAN :
          kept = IF f.scope = "group" THEN f.cats ELSE ~invite /\ entries[f.account].cats
    BY <1>1
  <1>3. PICK r : r = RoleForScope(f.scope)  OBVIOUS
  <1>4. Granted(f, invite) = [role |-> r, cats |-> kept]
    BY <1>2, <1>3, Zenon DEF Granted
  <1>5. PICK e : e = [role |-> r, cats |-> kept]  OBVIOUS
  <1>6. e.role = r /\ e.cats = kept  BY <1>5
  <1>7. CASE f.scope = "viewer"
    <2>1. r = "viewer"  BY <1>3, <1>7 DEF RoleForScope
    <2>. QED  BY <1>4, <1>5, <1>6, <1>7, <2>1 DEF HasAsked, Entry, PanelRoles
  <1>8. CASE f.scope = "all"
    <2>1. r = "super_admin"  BY <1>3, <1>8 DEF RoleForScope
    <2>. QED  BY <1>4, <1>5, <1>6, <1>8, <2>1 DEF HasAsked, Entry, PanelRoles
  <1>9. CASE f.scope = "group"
    <2>1. r = "admin" /\ kept = f.cats  BY <1>2, <1>3, <1>9 DEF RoleForScope
    <2>. QED  BY <1>4, <1>5, <1>6, <1>9, <2>1 DEF HasAsked, Entry, PanelRoles
  <1>10. CASE f.scope = "card"
    <2>1. r = "admin"  BY <1>3, <1>10 DEF RoleForScope
    <2>. QED  BY <1>4, <1>5, <1>6, <1>10, <2>1 DEF HasAsked, Entry, PanelRoles
  <1>. QED  BY <1>1, <1>7, <1>8, <1>9, <1>10 DEF Scopes

(* A request that ran on an account is not the last any more.              *)
LEMMA PastAre ==
  ASSUME PanelShape, NEW a \in Accounts, NEW p \in Past(a)
  PROVE  /\ p \in PanelRequests
         /\ p.run = "last" => p \in sent /\ p.form.account # a
PROOF
  <1>1. PICK q \in sent :
          p = IF q.form.account = a /\ q.run = "last" THEN [q EXCEPT !.run = "past"] ELSE q
    BY DEF Past
  <1>2. q \in PanelRequests  BY DEF PanelShape
  <1>3. CASE q.form.account = a /\ q.run = "last"
    <2>1. p = [q EXCEPT !.run = "past"]  BY <1>1, <1>3
    <2>. QED  BY <1>2, <2>1 DEF PanelRequests
  <1>4. CASE ~(q.form.account = a /\ q.run = "last")
    BY <1>1, <1>2, <1>4
  <1>. QED  BY <1>3, <1>4

LEMMA RunKeeps ==
  ASSUME AdminsInv, NEW q \in sent, RequestRuns(q)  PROVE AdminsInv'
PROOF
  <1>0. PanelShape /\ ReportedHolds /\ LastHolds  BY DEF AdminsInv
  <1>1. q \in PanelRequests  BY <1>0 DEF PanelShape
  <1>2. PICK f \in Forms : f = q.form  BY <1>1 DEF PanelRequests
  <1>3. PICK x \in Accounts : x = f.account  BY DEF Forms
  <1>4. PICK e \in Entry : e = Granted(f, q.invite) /\ HasAsked(e, f)
    <2>1. q.invite \in BOOLEAN  BY <1>1 DEF PanelRequests
    <2>. QED  BY <1>0, <2>1, GrantedIsAsked
  <1>5. PICK d : d = [q EXCEPT !.run = "last"]  OBVIOUS
  <1>6. d \in PanelRequests /\ d.form = f  BY <1>1, <1>2, <1>5 DEF PanelRequests
  <1>7. /\ sent' = (Past(x) \ {q}) \cup {d}
        /\ entries' = [entries EXCEPT ![x] = e]
        /\ confirmed' = {g \in confirmed : g.account # x}
        /\ UNCHANGED <<table, form, inviting>>
    BY <1>2, <1>3, <1>4, <1>5 DEF RequestRuns
  <1>8. /\ entries' \in [Accounts -> Entry] /\ entries'[x] = e
        /\ \A y \in Accounts \ {x} : entries'[y] = entries[y]
    BY <1>0, <1>7 DEF PanelShape
  <1>9. ASSUME NEW p \in sent'
        PROVE  /\ p \in PanelRequests
               /\ p = d \/ (p.run = "last" => p \in sent /\ p.form.account # x)
    BY <1>0, <1>6, <1>7, PastAre
  <1>10. PanelShape'  BY <1>0, <1>7, <1>8, <1>9 DEF PanelShape
  <1>11. ReportedHolds'
    <2>1. SUFFICES ASSUME NEW g \in confirmed'  PROVE HasAsked(entries'[g.account], g)
      BY DEF ReportedHolds
    <2>2. g \in confirmed /\ g.account # x  BY <1>7
    <2>3. g.account \in Accounts  BY <1>0, <2>2 DEF PanelShape, Forms
    <2>4. HasAsked(entries[g.account], g)  BY <1>0, <2>2 DEF ReportedHolds
    <2>. QED  BY <1>8, <2>2, <2>3, <2>4
  <1>12. LastHolds'
    <2>1. SUFFICES ASSUME NEW p \in sent', p.run = "last"
                   PROVE  HasAsked(entries'[p.form.account], p.form)
      BY DEF LastHolds
    <2>2. CASE p = d
      <3>1. p.form = f /\ entries'[p.form.account] = e  BY <1>3, <1>6, <1>8, <2>2
      <3>. QED  BY <1>4, <3>1
    <2>3. CASE p # d
      <3>1. p \in sent /\ p.form.account # x  BY <1>9, <2>1, <2>3
      <3>2. p.form.account \in Accounts  BY <1>9 DEF PanelRequests, Forms
      <3>3. HasAsked(entries[p.form.account], p.form)  BY <1>0, <2>1, <3>1 DEF LastHolds
      <3>. QED  BY <1>8, <3>1, <3>2, <3>3
    <2>. QED  BY <2>2, <2>3
  <1>. QED  BY <1>10, <1>11, <1>12 DEF AdminsInv

LEMMA AnswerKeeps ==
  ASSUME AdminsInv, NEW q \in sent, RequestAnswered(q)  PROVE AdminsInv'
PROOF
  <1>0. PanelShape /\ ReportedHolds /\ LastHolds  BY DEF AdminsInv
  <1>1. q \in PanelRequests  BY <1>0 DEF PanelShape
  <1>2. sent' = sent \ {q} /\ UNCHANGED <<entries, table>>
    BY DEF RequestAnswered
  <1>3. /\ form' \subseteq Forms /\ inviting' \in BOOLEAN
        /\ \/ confirmed' = confirmed
           \/ q.run = "last" /\ confirmed' = confirmed \cup {q.form}
    BY <1>0, <1>1 DEF RequestAnswered, PanelShape, PanelRequests
  <1>4. q.form \in Forms  BY <1>1 DEF PanelRequests
  <1>5. PanelShape'  BY <1>0, <1>2, <1>3, <1>4 DEF PanelShape
  <1>6. ReportedHolds'  BY <1>0, <1>2, <1>3 DEF ReportedHolds, LastHolds
  <1>7. LastHolds'  BY <1>0, <1>2 DEF LastHolds
  <1>. QED  BY <1>5, <1>6, <1>7 DEF AdminsInv

LEMMA DeletionKeeps ==
  ASSUME AdminsInv, AdminDeleteAnswered  PROVE AdminsInv'
PROOF
  <1>0. PanelShape /\ ReportedHolds /\ LastHolds  BY DEF AdminsInv
  <1>1. UNCHANGED <<table, form, inviting>>  BY DEF AdminDeleteAnswered
  <1>2. CASE UNCHANGED <<entries, sent, confirmed>>
    BY <1>0, <1>1, <1>2 DEF AdminsInv, PanelShape, ReportedHolds, LastHolds
  <1>3. ASSUME NEW x \in Accounts,
               entries' = [entries EXCEPT ![x] = [role |-> "gone", cats |-> FALSE]],
               sent' = Past(x), confirmed' = {f \in confirmed : f.account # x}
        PROVE  AdminsInv'
    <2>1. PICK e \in Entry : e = [role |-> "gone", cats |-> FALSE]  BY DEF Entry, Absent
    <2>2. /\ entries' \in [Accounts -> Entry]
          /\ \A y \in Accounts \ {x} : entries'[y] = entries[y]
      BY <1>0, <1>3, <2>1 DEF PanelShape
    <2>3. \A p \in sent' : /\ p \in PanelRequests
                           /\ p.run = "last" => p \in sent /\ p.form.account # x
      BY <1>0, <1>3, PastAre
    <2>4. PanelShape'  BY <1>0, <1>1, <1>3, <2>2, <2>3 DEF PanelShape
    <2>5. ReportedHolds'
      <3>1. SUFFICES ASSUME NEW g \in confirmed'  PROVE HasAsked(entries'[g.account], g)
        BY DEF ReportedHolds
      <3>2. g \in confirmed /\ g.account # x  BY <1>3
      <3>3. g.account \in Accounts  BY <1>0, <3>2 DEF PanelShape, Forms
      <3>4. HasAsked(entries[g.account], g)  BY <1>0, <3>2 DEF ReportedHolds
      <3>. QED  BY <2>2, <3>2, <3>3, <3>4
    <2>6. LastHolds'
      <3>1. SUFFICES ASSUME NEW p \in sent', p.run = "last"
                     PROVE  HasAsked(entries'[p.form.account], p.form)
        BY DEF LastHolds
      <3>2. p \in sent /\ p.form.account # x /\ p.form.account \in Accounts
        BY <2>3, <3>1 DEF PanelRequests, Forms
      <3>3. HasAsked(entries[p.form.account], p.form)  BY <1>0, <3>1, <3>2 DEF LastHolds
      <3>. QED  BY <2>2, <3>2, <3>3
    <2>. QED  BY <2>4, <2>5, <2>6 DEF AdminsInv
  <1>4. \A x \in Alive(entries) : x \in Accounts  BY DEF Alive
  <1>. QED  BY <1>2, <1>3, <1>4 DEF AdminDeleteAnswered

(* The dialogs set forms up and send them, the table is read.              *)
LEMMA DialogsKeep ==
  ASSUME AdminsInv,
         EditOpened \/ InviteOpened \/ ScopeSelected \/ DialogLeft \/ Submitted \/ AdminDeleteAsked
  PROVE  AdminsInv'
PROOF
  <1>0. PanelShape /\ ReportedHolds /\ LastHolds  BY DEF AdminsInv
  <1>1. UNCHANGED <<entries, table, confirmed>>
    BY DEF EditOpened, InviteOpened, ScopeSelected, DialogLeft, Submitted, AdminDeleteAsked
  <1>2. form' \subseteq Forms /\ inviting' \in BOOLEAN
    <2>1. CASE EditOpened
      <3>1. PICK x \in Alive(table) :
              form' = {[account |-> x, scope |-> ScopeOf(table[x]), cats |-> table[x].cats]}
        BY <2>1 DEF EditOpened
      <3>2. x \in Accounts  BY DEF Alive
      <3>3. PICK e \in Entry : e = table[x]  BY <1>0, <3>2 DEF PanelShape
      <3>4. ScopeOf(e) \in Scopes /\ e.cats \in BOOLEAN  BY ScopeIs DEF Entry
      <3>5. PICK s \in Scopes : s = ScopeOf(e)  BY <3>4
      <3>6. PICK c \in BOOLEAN : c = e.cats  BY <3>4
      <3>7. form' = {[account |-> x, scope |-> s, cats |-> c]}  BY <3>1, <3>3, <3>5, <3>6
      <3>8. inviting' = FALSE  BY <2>1 DEF EditOpened
      <3>9. PICK f : f = [account |-> x, scope |-> s, cats |-> c]  OBVIOUS
      <3>10. f \in Forms  BY <3>2, <3>9 DEF Forms
      <3>11. form' = {f}  BY <3>7, <3>9
      <3>. QED  BY <3>8, <3>10, <3>11
    <2>2. CASE InviteOpened
      <3>1. PICK x \in Accounts, s \in Scopes, c \in BOOLEAN :
              form' = {[account |-> x, scope |-> s, cats |-> c]}
        BY <2>2 DEF InviteOpened
      <3>. QED  BY <2>2, <3>1 DEF InviteOpened, Forms
    <2>3. CASE ScopeSelected
      <3>1. PICK f \in form, s \in Scopes, c \in BOOLEAN :
              form' = {[f EXCEPT !.scope = s, !.cats = c]}
        BY <2>3 DEF ScopeSelected
      <3>2. f \in Forms  BY <1>0 DEF PanelShape
      <3>3. [f EXCEPT !.scope = s, !.cats = c] \in Forms  BY <3>2 DEF Forms
      <3>. QED  BY <1>0, <2>3, <3>1, <3>3 DEF ScopeSelected, PanelShape
    <2>4. CASE DialogLeft \/ Submitted \/ AdminDeleteAsked
      BY <1>0, <2>4 DEF DialogLeft, Submitted, AdminDeleteAsked, PanelShape
    <2>. QED  BY <2>1, <2>2, <2>3, <2>4
  <1>3. \A q \in sent' : q \in sent \/ (q \in PanelRequests /\ q.run = "not")
    <2>1. CASE Submitted
      <3>1. PICK f \in form : sent' = sent \cup {[form |-> f, invite |-> inviting, run |-> "not"]}
        BY <2>1 DEF Submitted
      <3>2. f \in Forms /\ inviting \in BOOLEAN  BY <1>0 DEF PanelShape
      <3>3. PICK d : d = [form |-> f, invite |-> inviting, run |-> "not"]  OBVIOUS
      <3>4. d \in PanelRequests /\ d.run = "not"  BY <3>2, <3>3 DEF PanelRequests
      <3>. QED  BY <3>1, <3>3, <3>4
    <2>2. CASE ~Submitted
      BY <2>2 DEF EditOpened, InviteOpened, ScopeSelected, DialogLeft, AdminDeleteAsked
    <2>. QED  BY <2>1, <2>2
  <1>4. PanelShape'  BY <1>0, <1>1, <1>2, <1>3 DEF PanelShape
  <1>5. ReportedHolds'  BY <1>0, <1>1 DEF ReportedHolds
  <1>6. LastHolds'  BY <1>0, <1>1, <1>3 DEF LastHolds
  <1>. QED  BY <1>4, <1>5, <1>6 DEF AdminsInv

LEMMA TableKeeps ==
  ASSUME AdminsInv,
         TableFetched \/ UNCHANGED admVars
  PROVE  AdminsInv'
PROOF
  <1>0. PanelShape /\ ReportedHolds /\ LastHolds  BY DEF AdminsInv
  <1>1. UNCHANGED <<entries, confirmed, form, inviting, sent>> /\ table' \in {table, entries}
    BY DEF TableFetched, admVars
  <1>3. PanelShape'  BY <1>0, <1>1 DEF PanelShape
  <1>4. ReportedHolds'  BY <1>0, <1>1 DEF ReportedHolds
  <1>5. LastHolds'  BY <1>0, <1>1 DEF LastHolds
  <1>. QED  BY <1>3, <1>4, <1>5 DEF AdminsInv

LEMMA AdminsKept == AdminsInv /\ [AdminsPanelNext]_admVars => AdminsInv'
  BY RunKeeps, AnswerKeeps, DeletionKeeps, DialogsKeep, TableKeeps DEF AdminsPanelNext

(* An account has the role that its dialog reported as saved, and with the *)
(* scope "group" the categories, whatever requests ran in between, for any *)
(* number of accounts (AdminsPage.handleEditSubmit, update_admin). Nothing *)
(* is claimed of the categories that another scope leaves alone.           *)
THEOREM RightsAreAsReported == AdminsPanelSpec => []RightsAsReported
PROOF
  <1>1. AdminsInv => RightsAsReported
    BY DEF AdminsInv, ReportedHolds, HasAsked, RightsAsReported
  <1>. QED  BY <1>1, AdminsInitially, AdminsKept, PTL DEF AdminsPanelSpec

=============================================================================
