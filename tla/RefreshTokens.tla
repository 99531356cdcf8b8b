----------------------------- MODULE RefreshTokens -----------------------------
(***************************************************************************)
(* The sessions of one account: logins that issue refresh tokens, their    *)
(* rotation, and what ends a session (logout, a token presented again, a   *)
(* change of the password, an admin). Every repository call is a step, and *)
(* an UPDATE of many rows is two: the statement takes its snapshot of the  *)
(* table, and its transaction commits later. A family is the login token   *)
(* with all tokens that were rotated from it.                              *)
(***************************************************************************)
EXTENDS Integers, FiniteSets

CONSTANTS
  Slots,      \* requests under way at a time
  MaxTokens,  \* bound of the model: rows of refresh_tokens
  MaxVersion  \* bound of the model: users.token_version

ASSUME TokensAssumption ==
  /\ IsFiniteSet(Slots)
  /\ MaxTokens \in Nat /\ MaxVersion \in Nat

Tokens == 1..MaxTokens

VARIABLES
  version,  \* users.token_version
  count,    \* rows inserted so far; their ids are 1..count
  family,   \* family_id: the token of the login
  claim,    \* the token_version in the access token issued with each row
  revoked,  \* rows with revoked_at
  deleted,  \* rows that the hourly maintenance removed
  held,     \* tokens of these rows that were answered to the client
  pc,       \* the next repository call of each request
  tok,      \* the token it presented, 0 for a login
  seen,     \* token_version of the user as the request read it
  fresh,    \* the row it inserted
  doomed,   \* the rows its UPDATE found
  ended,    \* history: families that were ended by anything
  cut,      \* history: families ended together with the access tokens
  stray,    \* history: families with a row that an UPDATE ending them missed
  doubled   \* history: families with two rotations of a token at a time

table   == <<count, family, claim, revoked, deleted>>
request == <<pc, tok, seen, fresh, doomed>>
history == <<ended, cut, stray, doubled>>
vars    == <<version, table, held, request, history>>

Issued == 1..count
Rows == Issued \ deleted
Live == Rows \ revoked
FamilyOf(s) == family[tok[s]]

TypeOK ==
  /\ version \in 0..MaxVersion
  /\ count \in 0..MaxTokens
  /\ family \in [Tokens -> Tokens]
  /\ claim \in [Tokens -> 0..MaxVersion]
  /\ deleted \in {1..k : k \in 0..count}
  /\ revoked \subseteq Rows /\ held \subseteq Rows
  /\ pc \in [Slots -> {"idle", "issue", "user", "create", "rotate", "chain",
                       "bumped", "commitChain", "commitAll", "commitCut"}]
  /\ tok \in [Slots -> Issued \cup {0}]
  /\ seen \in [Slots -> 0..MaxVersion]
  /\ fresh \in [Slots -> Issued \cup {0}]
  /\ doomed \in [Slots -> SUBSET Issued]
  /\ ended \subseteq Issued /\ cut \subseteq ended
  /\ stray \subseteq Issued /\ doubled \subseteq Issued

Init ==
  /\ version = 0 /\ count = 0
  /\ family = [t \in Tokens |-> t]
  /\ claim = [t \in Tokens |-> 0]
  /\ revoked = {} /\ deleted = {} /\ held = {}
  /\ pc = [s \in Slots |-> "idle"]
  /\ tok = [s \in Slots |-> 0]
  /\ seen = [s \in Slots |-> 0]
  /\ fresh = [s \in Slots |-> 0]
  /\ doomed = [s \in Slots |-> {}]
  /\ ended = {} /\ cut = {} /\ stray = {} /\ doubled = {}

Goto(s, l) == pc' = [pc EXCEPT ![s] = l]

(* The end of a request forgets its local variables.                       *)
Return(s) ==
  /\ Goto(s, "idle")
  /\ tok' = [tok EXCEPT ![s] = 0]
  /\ fresh' = [fresh EXCEPT ![s] = 0]
  /\ doomed' = [doomed EXCEPT ![s] = {}]
  /\ seen' = [seen EXCEPT ![s] = 0]

(* refresh_tokens.create, for a family.                                    *)
Insert(f, v) ==
  /\ count < MaxTokens
  /\ count' = count + 1
  /\ family' = [family EXCEPT ![count + 1] = f]
  /\ claim' = [claim EXCEPT ![count + 1] = v]
  /\ UNCHANGED <<revoked, deleted>>

(* The family of a row that comes between the snapshot of an UPDATE of the *)
(* family and its commit.                                                  *)
Unseen(f) ==
  IF \E q \in Slots : \/ pc[q] \in {"commitAll", "commitCut"}
                      \/ pc[q] = "commitChain" /\ FamilyOf(q) = f
    THEN {f} ELSE {}

-----------------------------------------------------------------------------
(* Logins                                                                  *)

(* The account is read and its password or code checked.                   *)
LoginChecks(s) ==
  /\ pc[s] = "idle"
  /\ Goto(s, "issue")
  /\ seen' = [seen EXCEPT ![s] = version]
  /\ UNCHANGED <<version, table, held, tok, fresh, doomed, history>>

(* _issue_tokens starts a family, with the version of the check before it. *)
(* An answer that is lost is a token the client never presents.            *)
LoginIssues(s) ==
  LET t == count + 1
  IN /\ pc[s] = "issue"
     /\ Insert(t, seen[s])
     /\ held' = held \cup {t}
     /\ Return(s)
     /\ stray' = stray \cup Unseen(t)
     /\ UNCHANGED <<version, ended, cut, doubled>>

-----------------------------------------------------------------------------
(* refresh_tokens                                                          *)

(* Requests that are to insert a token of the family of their own.         *)
Inserting == {s \in Slots : pc[s] \in {"user", "create"}}
Rotating(t) == {s \in Slots : pc[s] \in {"user", "create", "rotate"} /\ tok[s] = t}

(* get_by_hash found the row, and the token has not expired: an expired one*)
(* is refused, which changes nothing, unless it was revoked.               *)
AfterLookup(t) ==
  IF t \in revoked THEN "chain" ELSE "user"

Present(s, t) ==
  /\ pc[s] = "idle"
  /\ t \in held
  /\ Goto(s, AfterLookup(t))
  /\ tok' = [tok EXCEPT ![s] = t]
  /\ doubled' = doubled \cup
       IF AfterLookup(t) = "user" /\ Rotating(t) # {} THEN {family[t]} ELSE {}
  /\ UNCHANGED <<version, table, held, seen, fresh, doomed, ended, cut, stray>>

(* get_by_id, for a user who is active.                                    *)
ReadUser(s) ==
  /\ pc[s] = "user"
  /\ Goto(s, "create")
  /\ seen' = [seen EXCEPT ![s] = version]
  /\ UNCHANGED <<version, table, held, tok, fresh, doomed, history>>

CreateNext(s) ==
  /\ pc[s] = "create"
  /\ Insert(FamilyOf(s), seen[s])
  /\ fresh' = [fresh EXCEPT ![s] = count + 1]
  /\ Goto(s, "rotate")
  /\ stray' = stray \cup Unseen(FamilyOf(s))
  /\ UNCHANGED <<version, held, tok, seen, doomed, ended, cut, doubled>>

(* A slip: the rotated token stays valid.                                  *)
SupersededNone(s) == {}

Superseded(s) == {tok[s]} \ deleted

(* revoke(existing.id), and the answer.                                    *)
Rotate(s) ==
  /\ pc[s] = "rotate"
  /\ revoked' = revoked \cup Superseded(s)
  /\ held' = held \cup ({fresh[s]} \ deleted)
  /\ Return(s)
  /\ UNCHANGED <<version, count, family, claim, deleted, history>>

-----------------------------------------------------------------------------
(* What ends a family                                                      *)

(* logout of a token that is live; a revoked one is ignored.               *)
Logout(s, t) ==
  /\ pc[s] = "idle"
  /\ t \in held \ revoked
  /\ Goto(s, "chain")
  /\ tok' = [tok EXCEPT ![s] = t]
  /\ UNCHANGED <<version, table, held, seen, fresh, doomed, history>>

(* A slip: only the token that was presented.                              *)
ChainAlone(t) == {t}

Chain(t) == {u \in Live : family[u] = family[t]}

(* The UPDATE of revoke_chain_from, after a logout or a reuse; the family  *)
(* is looked up by the row, which maintenance may have removed.            *)
RevokeChain(s) ==
  /\ pc[s] = "chain"
  /\ IF tok[s] \in deleted
       THEN Return(s)
       ELSE /\ doomed' = [doomed EXCEPT ![s] = Chain(tok[s])]
            /\ Goto(s, "commitChain")
            /\ UNCHANGED <<tok, seen, fresh>>
  /\ UNCHANGED <<version, table, held, history>>

(* The row of users is locked from its UPDATE to the commit.               *)
UserLocked == \E q \in Slots : pc[q] = "commitCut"

(* update_password, bump_token_version and revoke_all_for_user in one      *)
(* transaction: change_password, password_reset_confirm, force_logout_all. *)
CutRevokes(s) ==
  /\ pc[s] = "idle" /\ ~UserLocked
  /\ version < MaxVersion
  /\ doomed' = [doomed EXCEPT ![s] = Live]
  /\ Goto(s, "commitCut")
  /\ UNCHANGED <<version, table, held, tok, seen, fresh, history>>

(* The same by an admin (reset_password, reset_2fa, force_logout): each    *)
(* call commits for itself.                                                *)
AdminBumps(s) ==
  /\ pc[s] = "idle" /\ ~UserLocked
  /\ version < MaxVersion
  /\ version' = version + 1
  /\ Goto(s, "bumped")
  /\ UNCHANGED <<table, held, tok, seen, fresh, doomed, history>>

AdminRevokes(s) ==
  /\ pc[s] = "bumped"
  /\ doomed' = [doomed EXCEPT ![s] = Live]
  /\ Goto(s, "commitAll")
  /\ UNCHANGED <<version, table, held, tok, seen, fresh, history>>

(* A slip: the access tokens are left to their expiry.                     *)
BumpedNot(s) == version

Bumped(s) == IF pc[s] = "commitCut" THEN version + 1 ELSE version

Families == {family[t] : t \in Issued}

(* Families of which a row is to be inserted after the commit.             *)
Escaping == {FamilyOf(q) : q \in Inserting}

Commit(s) ==
  LET all == pc[s] \in {"commitAll", "commitCut"}
      ending == IF all THEN Families ELSE {FamilyOf(s)}
      between == IF pc[s] = "commitAll"
                   THEN {family[t] : t \in {u \in Issued : claim[u] = version}}
                   ELSE {}
  IN /\ pc[s] \in {"commitChain", "commitAll", "commitCut"}
     /\ version' = Bumped(s)
     /\ revoked' = revoked \cup (doomed[s] \ deleted)
     /\ Return(s)
     /\ ended' = ended \cup ending
     /\ cut' = cut \cup IF all THEN ending ELSE {}
     /\ stray' = stray \cup (ending \cap (Escaping \cup between))
     /\ UNCHANGED <<count, family, claim, deleted, held, doubled>>

-----------------------------------------------------------------------------
(* A request is refused, its process ends, or a call raises.               *)
Abort(s) ==
  /\ pc[s] # "idle"
  /\ Return(s)
  /\ UNCHANGED <<version, table, held, history>>

Swept(k) == 1..k

(* cleanup_expired of the worker. All rows have the same lifetime, so that *)
(* they expire in their order; how many have by now is not tracked.        *)
Maintenance ==
  /\ \E k \in Rows : deleted' = Swept(k)
  /\ revoked' = revoked \ deleted'
  /\ held' = held \ deleted'
  /\ UNCHANGED <<version, count, family, claim, request, history>>

Step(s) ==
  \/ LoginChecks(s) \/ LoginIssues(s)
  \/ ReadUser(s) \/ CreateNext(s) \/ Rotate(s)
  \/ RevokeChain(s) \/ CutRevokes(s) \/ AdminBumps(s) \/ AdminRevokes(s)
  \/ Commit(s) \/ Abort(s)
  \/ \E t \in Issued : Present(s, t) \/ Logout(s, t)

Next ==
  \/ \E s \in Slots : Step(s)
  \/ Maintenance

Spec == Init /\ [][Next]_vars

-----------------------------------------------------------------------------
(* A session that was ended stays ended: no token of its family is live,   *)
(* so that none can be rotated, unless a request of the family inserted    *)
(* one that the UPDATE could not see. Covers logout, reuse detection, the  *)
(* change and the reset of a password and the actions of an admin.         *)
EndedStaysEnded ==
  \A t \in Live : family[t] \in ended => family[t] \in stray

(* Nor is an access token of a family that a password change or an admin   *)
(* cut accepted by get_current_user, whichever of the two statements of an *)
(* admin's action a rotation came between.                                 *)
CutEndsAccess ==
  \A t \in Issued :
    claim[t] = version /\ family[t] \in cut => family[t] \in stray

(* Rotation leaves a client one token: of a family, at most one live token *)
(* was ever answered to a client, unless the same token was being rotated  *)
(* twice at a time. Failures between the INSERT and the revocation are     *)
(* included.                                                               *)
Usable(f) == {t \in Live \cap held : family[t] = f}

SingleHolder ==
  \A f \in Families \ doubled : Cardinality(Usable(f)) <= 1

=============================================================================
