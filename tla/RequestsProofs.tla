---------------------------- MODULE RequestsProofs ----------------------------
(***************************************************************************)
(* Theorems about Access, for any number of users and requests, whatever   *)
(* GitHub answers and whatever role changes are asked for; about           *)
(* RateLimit, for any number of requests and processes; and about their    *)
(* composition with the bounties (MCRequests), in which one component at a *)
(* time moves, also from a start at which a decision has been made.        *)
(***************************************************************************)
EXTENDS MCRequests, BountiesProofs

(* A role change in flight is of a member with a row, and one to owner or  *)
(* administrator is an owner's.                                            *)
ChangesKnown ==
  \A k \in Desks :
    office[k] # Idle /\ "by" \in DOMAIN office[k] =>
      /\ member[office[k].target] # None
      /\ office[k].role \in {"owner", "admin"} => office[k].by = "owner"

(* A token belongs to a user with a row.                                   *)
TokensOwned == \A t \in tokens : account[t[1]] # None

(* What GitHub refused stays refused in the tables.                        *)
Outside(u) ==
  told[u] = [org |-> "none", repo |-> "none"] =>
    ~Active(u) /\ permission[u] = None

AccessInv ==
  /\ AccessTypeOK /\ ChangesKnown /\ TokensOwned
  /\ \A u \in Members : Outside(u)

-----------------------------------------------------------------------------
(* The records of the unions are told apart by their fields.               *)
LEMMA Records ==
  /\ \A x \in {Idle} \cup RoleChange \cup Leaving :
       /\ "by" \in DOMAIN x => x \in RoleChange
       /\ "leaving" \in DOMAIN x => x \in Leaving
  /\ \A x \in {Idle} \cup Answered \cup GitHubView :
       /\ x # Idle /\ DOMAIN x = {"org"} => x \in Answered
       /\ "repo" \in DOMAIN x => x \in GitHubView
  /\ \A x \in RoleChange : "leaving" \notin DOMAIN x
  /\ \A x \in Leaving : "by" \notin DOMAIN x
  /\ DOMAIN Idle = {"idle"}
PROOF
BY DEF Idle, RoleChange, Leaving, Answered, GitHubView

(* The tables start empty.                                                 *)
LEMMA AccessStart == AccessInit => AccessInv
PROOF
<1> SUFFICES ASSUME AccessInit PROVE AccessInv
  OBVIOUS
<1>1. AccessTypeOK
  BY AccessAssumption DEF AccessInit, AccessTypeOK
<1>2. ChangesKnown /\ TokensOwned
  BY DEF AccessInit, ChangesKnown, TokensOwned
<1>3. \A u \in Members : Outside(u)
  BY DEF AccessInit, Outside, Active
<1> QED BY <1>1, <1>2, <1>3 DEF AccessInv

(* A synchronized membership is a row or none, is inactive if GitHub lists *)
(* none, and leads only if GitHub says so or it did before.                *)
LEMMA Synced ==
  ASSUME NEW row \in Member \cup {None}, NEW org \in {"none", "member", "admin"}
  PROVE  /\ SyncedMembership(row, org) \in Member \cup {None}
         /\ row # None => SyncedMembership(row, org) # None
         /\ org = "none" => SyncedMembership(row, org) = None
                            \/ ~SyncedMembership(row, org).active
         /\ Leading(SyncedMembership(row, org)) => Leading(row) \/ org = "admin"
PROOF
<1>1. CASE org = "none"
  <2>1. CASE row = None
    BY <1>1, <2>1 DEF SyncedMembership, Leading
  <2>2. CASE row # None
    <3>1. row \in Member /\ SyncedMembership(row, org) = [row EXCEPT !.active = FALSE]
      BY <1>1, <2>2 DEF SyncedMembership
    <3>2. /\ [row EXCEPT !.active = FALSE] \in Member
          /\ [row EXCEPT !.active = FALSE].role = row.role
          /\ [row EXCEPT !.active = FALSE].active = FALSE
      BY <3>1 DEF Member
    <3> QED BY <1>1, <2>2, <3>1, <3>2, AccessAssumption DEF Leading
  <2> QED BY <2>1, <2>2
<1>2. CASE org # "none"
  <2> DEFINE role == IF org = "admin" THEN "owner"
                     ELSE IF row = None \/ row.role = "owner" THEN "viewer" ELSE row.role
  <2>1. SyncedMembership(row, org) = [role |-> role, active |-> TRUE]
    BY <1>2 DEF SyncedMembership
  <2>2. role \in Role
    BY DEF Member, Role
  <2>3. role \in {"owner", "admin"} => Leading(row) \/ org = "admin"
    BY DEF Leading
  <2> HIDE DEF role
  <2>4. SyncedMembership(row, org) \in Member
    BY <2>1, <2>2 DEF Member
  <2>5. SyncedMembership(row, org) # None
    BY <2>4, AccessAssumption
  <2>6. Leading(SyncedMembership(row, org)) => Leading(row) \/ org = "admin"
    BY <2>1, <2>3 DEF Leading
  <2> QED BY <1>2, <2>4, <2>5, <2>6
<1> QED BY <1>1, <1>2

(* What GitHub says of a repository gives a role or none.                  *)
LEMMA RepositoryRoles ==
  ASSUME NEW repo \in {"none", "pull", "triage", "push", "maintain", "admin"}
  PROVE  /\ RepositoryRole(repo) \in Role \cup {None}
         /\ repo = "none" => RepositoryRole(repo) = None
PROOF
BY DEF RepositoryRole, Role

-----------------------------------------------------------------------------
(* The steps *)

(* Roles rise as the property says.                                        *)
Raised(u) ==
  Leading(member'[u]) /\ ~Leading(member[u]) =>
    \/ login[u] # Idle /\ login[u].org = "admin"
    \/ \E k \in Desks : /\ office[k] # Idle /\ "by" \in DOMAIN office[k]
                        /\ office[k].target = u /\ office[k].by = "owner"

Step ==
  /\ AccessInv'
  /\ \A u \in Members : Raised(u)

(* GitHub, and a login before its commit, touch no table.                  *)
LEMMA AskingStep ==
  ASSUME AccessInv, NEW u \in Members,
         \/ \E view \in Views : GitHubChanges(u, view)
         \/ AskMemberships(u) \/ AskRepositories(u) \/ AbandonLogin(u)
  PROVE  Step
PROOF
<1>1. UNCHANGED <<account, member, permission, office, tokens, told>>
  BY DEF GitHubChanges, AskMemberships, AskRepositories, AbandonLogin
<1>2. /\ github \in [view : [Members -> Views], changes : 0..MaxGitHubChanges]
      /\ \A x \in Members : github.view[x] \in GitHubView
      /\ login \in [Members -> {Idle} \cup Answered \cup GitHubView]
  BY AccessAssumption DEF AccessInv, AccessTypeOK
<1>3. github' \in [view : [Members -> Views], changes : 0..MaxGitHubChanges]
  <2>1. ASSUME NEW view \in Views, GitHubChanges(u, view)
        PROVE  github' \in [view : [Members -> Views], changes : 0..MaxGitHubChanges]
    <3>1. /\ [github.view EXCEPT ![u] = view] \in [Members -> Views]
          /\ github.changes + 1 \in 0..MaxGitHubChanges
      BY <1>2, <2>1, AccessAssumption DEF GitHubChanges
    <3> QED BY <2>1, <3>1 DEF GitHubChanges
  <2>2. CASE AskMemberships(u) \/ AskRepositories(u) \/ AbandonLogin(u)
    BY <1>2, <2>2 DEF AskMemberships, AskRepositories, AbandonLogin
  <2> QED BY <2>1, <2>2
<1>4. login' \in [Members -> {Idle} \cup Answered \cup GitHubView]
  <2>1. CASE AskMemberships(u)
    <3>1. [org |-> github.view[u].org] \in Answered
      BY <1>2 DEF GitHubView, Answered
    <3>2. login' = [login EXCEPT ![u] = [org |-> github.view[u].org]]
      BY <2>1 DEF AskMemberships
    <3> QED BY <1>2, <3>1, <3>2
  <2>2. CASE AskRepositories(u)
    <3>1. login[u] \in Answered
      BY <1>2, <2>2, Records DEF AskRepositories
    <3>2. [org |-> login[u].org, repo |-> github.view[u].repo] \in GitHubView
      BY <1>2, <3>1 DEF GitHubView, Answered
    <3>3. login' = [login EXCEPT ![u] =
                      [org |-> login[u].org, repo |-> github.view[u].repo]]
      BY <2>2 DEF AskRepositories
    <3> QED BY <1>2, <3>2, <3>3
  <2>3. CASE AbandonLogin(u)
    BY <1>2, <2>3 DEF AbandonLogin
  <2>4. CASE \E view \in Views : GitHubChanges(u, view)
    BY <1>2, <2>4 DEF GitHubChanges
  <2> QED BY <2>1, <2>2, <2>3, <2>4
<1>5. AccessTypeOK'
  BY <1>1, <1>3, <1>4 DEF AccessInv, AccessTypeOK
<1>6. ChangesKnown' /\ TokensOwned' /\ \A x \in Members : Outside(x)'
  BY <1>1 DEF AccessInv, ChangesKnown, TokensOwned, Outside, Active
<1> QED BY <1>1, <1>5, <1>6 DEF Step, AccessInv, Raised

(* A completed login writes the rows of its user.                          *)
LEMMA LoginStep ==
  ASSUME AccessInv, NEW u \in Members, CommitLogin(u)
  PROVE  Step
PROOF
<1> DEFINE version == UpsertedUser(account[u])
           row == SyncedMembership(member[u], login[u].org)
           role == RepositoryRole(login[u].repo)
<1>1. /\ account' = [account EXCEPT ![u] = version]
      /\ member' = [member EXCEPT ![u] = row]
      /\ permission' = [permission EXCEPT ![u] = role]
      /\ tokens' = tokens \cup {<<u, version>>}
      /\ told' = [told EXCEPT ![u] = login[u]]
      /\ login' = [login EXCEPT ![u] = Idle]
      /\ UNCHANGED <<github, office>>
  BY DEF CommitLogin
<1>2. login[u] \in GitHubView /\ login[u] # Idle
  BY Records DEF CommitLogin, AccessInv, AccessTypeOK
<1>3. version \in Nat /\ (account[u] # None => version = account[u])
  BY DEF UpsertedUser, AccessInv, AccessTypeOK
<1>4. /\ row \in Member \cup {None}
      /\ member[u] # None => row # None
      /\ login[u].org = "none" => row = None \/ ~row.active
      /\ Leading(row) => Leading(member[u]) \/ login[u].org = "admin"
  BY <1>2, Synced DEF GitHubView, AccessInv, AccessTypeOK
<1>5. role \in Role \cup {None} /\ (login[u].repo = "none" => role = None)
  BY <1>2, RepositoryRoles DEF GitHubView
<1> HIDE DEF version, row, role
<1>6. AccessTypeOK'
  BY <1>1, <1>2, <1>3, <1>4, <1>5 DEF AccessInv, AccessTypeOK
<1>7. ChangesKnown'
  BY <1>1, <1>4, Records DEF AccessInv, AccessTypeOK, ChangesKnown, RoleChange
<1>8. TokensOwned'
  <2> SUFFICES ASSUME NEW t \in tokens' PROVE account'[t[1]] # None
    BY DEF TokensOwned
  <2>1. CASE t \in tokens
    <3>1. t \in Members \X Nat /\ account[t[1]] # None
      BY <2>1 DEF AccessInv, AccessTypeOK, TokensOwned
    <3> QED BY <1>1, <1>3, <3>1 DEF AccessInv, AccessTypeOK
  <2>2. CASE t = <<u, version>>
    <3>1. account'[u] = version /\ version # None
      BY <1>1, <1>3, AccessAssumption DEF AccessInv, AccessTypeOK
    <3> QED BY <2>2, <3>1
  <2> QED BY <1>1, <2>1, <2>2
<1>9. ASSUME NEW x \in Members PROVE Outside(x)' /\ Raised(x)
  <2>1. CASE x # u
    <3>1. /\ member'[x] = member[x] /\ permission'[x] = permission[x]
          /\ told'[x] = told[x]
      BY <1>1, <2>1 DEF AccessInv, AccessTypeOK
    <3> QED BY <3>1 DEF AccessInv, Outside, Active, Raised
  <2>2. CASE x = u
    <3>1. member'[u] = row /\ permission'[u] = role /\ told'[u] = login[u]
      BY <1>1 DEF AccessInv, AccessTypeOK
    <3> QED BY <1>2, <1>4, <1>5, <2>2, <3>1 DEF Outside, Active, Raised
  <2> QED BY <2>1, <2>2
<1> QED BY <1>6, <1>7, <1>8, <1>9 DEF Step, AccessInv

(* A logout or revocation loads a version and writes the next one.         *)
LEMMA LeavingStep ==
  ASSUME AccessInv, NEW k \in Desks,
         \/ \E u \in Members : LoadForLogout(k, u) \/ LoadForRevocation(k, u)
         \/ Logout(k) \/ RevokeUserAuthorization(k)
  PROVE  Step
PROOF
<1>1. ASSUME NEW u \in Members, NEW revoked \in BOOLEAN, Leave(k, u, revoked)
      PROVE  Step
  <2> DEFINE left == [leaving |-> u, version |-> account[u], revoked |-> revoked]
  <2>1. /\ office' = [office EXCEPT ![k] = left] /\ left \in Leaving
        /\ UNCHANGED <<github, account, member, permission, login, tokens, told>>
    BY <1>1 DEF Leave, Leaving, AccessInv, AccessTypeOK
  <2>2. "by" \notin DOMAIN left
    BY <2>1, Records
  <2> HIDE DEF left
  <2>3. AccessTypeOK'
    BY <2>1 DEF AccessInv, AccessTypeOK
  <2>4. ChangesKnown'
    BY <2>1, <2>2 DEF AccessInv, AccessTypeOK, ChangesKnown, Leading
  <2>5. TokensOwned' /\ \A x \in Members : Outside(x)' /\ Raised(x)
    BY <2>1 DEF AccessInv, TokensOwned, Outside, Active, Raised
  <2> QED BY <2>1, <2>3, <2>4, <2>5 DEF Step, AccessInv
<1>2. ASSUME NEW revoked \in BOOLEAN, EndSession(k, revoked),
             \/ UNCHANGED <<member, permission>>
             \/ LET u == office[k].leaving
                IN /\ permission' = [permission EXCEPT ![u] = None]
                   /\ member' = [member EXCEPT ![u] = SyncedMembership(@, "none")]
      PROVE  Step
  <2> DEFINE u == office[k].leaving
             next == office[k].version + 1
  <2>1. office[k] \in Leaving /\ u \in Members /\ next \in Nat
    BY <1>2, Records DEF EndSession, AccessInv, AccessTypeOK, Leaving
  <2>2. /\ account' = [account EXCEPT ![u] = next]
        /\ office' = [office EXCEPT ![k] = Idle]
        /\ UNCHANGED <<github, login, tokens, told>>
    BY <1>2 DEF EndSession
  <2>3. /\ member' \in [Members -> Member \cup {None}]
        /\ permission' \in [Members -> Role \cup {None}]
        /\ \A x \in Members :
             /\ Leading(member'[x]) => Leading(member[x])
             /\ Active(x)' => Active(x)
             /\ member[x] # None => member'[x] # None
             /\ permission'[x] \in {permission[x], None}
    <3>1. CASE UNCHANGED <<member, permission>>
      BY <3>1 DEF AccessInv, AccessTypeOK, Active
    <3>2. CASE ~UNCHANGED <<member, permission>>
      <4> DEFINE row == SyncedMembership(member[u], "none")
      <4>1. /\ permission' = [permission EXCEPT ![u] = None]
            /\ member' = [member EXCEPT ![u] = row]
        BY <1>2, <3>2
      <4>2. /\ row \in Member \cup {None} /\ (row = None \/ ~row.active)
            /\ Leading(row) => Leading(member[u])
            /\ member[u] # None => row # None
        BY <2>1, Synced DEF AccessInv, AccessTypeOK
      <4> HIDE DEF row
      <4> QED BY <2>1, <4>1, <4>2 DEF AccessInv, AccessTypeOK, Active
    <3> QED BY <3>1, <3>2
  <2>4. AccessTypeOK'
    BY <2>1, <2>2, <2>3 DEF AccessInv, AccessTypeOK
  <2>5. ChangesKnown'
    BY <2>2, <2>3, Records DEF AccessInv, AccessTypeOK, ChangesKnown, RoleChange
  <2>6. TokensOwned'
    <3>1. next # None
      BY <2>1, AccessAssumption
    <3> QED BY <2>1, <2>2, <3>1 DEF AccessInv, AccessTypeOK, TokensOwned
  <2>7. \A x \in Members : Outside(x)' /\ Raised(x)
    BY <2>2, <2>3 DEF AccessInv, Outside, Raised
  <2> QED BY <2>4, <2>5, <2>6, <2>7 DEF Step, AccessInv
<1> QED BY <1>1, <1>2 DEF LoadForLogout, LoadForRevocation, Logout,
                          RevokeUserAuthorization

(* A role change is checked on the rows it loads, and written later.       *)
LEMMA RoleStep ==
  ASSUME AccessInv, NEW k \in Desks,
         \/ \E a, t \in Members, role \in AskedRoles : LoadRoles(k, a, t, role)
         \/ UpdateMemberRole(k) \/ DropDesk(k)
  PROVE  Step
PROOF
<1>1. ASSUME NEW a \in Members, NEW t \in Members, NEW role \in AskedRoles,
             LoadRoles(k, a, t, role)
      PROVE  Step
  <2> DEFINE change == [by |-> RoleIn(a), target |-> t, role |-> role,
                        loaded |-> RoleIn(t)]
  <2>1. /\ office' = [office EXCEPT ![k] = change]
        /\ UNCHANGED <<github, account, member, permission, login, tokens, told>>
        /\ Active(t) /\ MayChangeRole(a, t, role)
    BY <1>1 DEF LoadRoles
  <2>2. /\ RoleIn(a) \in {"owner", "admin"}
        /\ role \in {"owner", "admin"} => RoleIn(a) = "owner"
    BY <2>1 DEF MayChangeRole
  <2>3. change \in RoleChange /\ (change.role \in {"owner", "admin"} => change.by = "owner")
    BY <2>1, <2>2, AccessAssumption
       DEF RoleChange, Role, RoleIn, Active, Member, Leading, AccessInv, AccessTypeOK
  <2>4. change.target = t /\ member[t] # None
    BY <2>1 DEF Active
  <2> HIDE DEF change
  <2>5. AccessTypeOK'
    BY <2>1, <2>3 DEF AccessInv, AccessTypeOK
  <2>6. ChangesKnown'
    BY <2>1, <2>3, <2>4 DEF AccessInv, AccessTypeOK, ChangesKnown
  <2>7. TokensOwned' /\ \A x \in Members : Outside(x)' /\ Raised(x)
    BY <2>1 DEF AccessInv, TokensOwned, Outside, Active, Raised
  <2> QED BY <2>1, <2>5, <2>6, <2>7 DEF Step, AccessInv
<1>2. CASE UpdateMemberRole(k)
  <2> DEFINE change == office[k]
             new == Written(member[change.target].role, change.loaded, change.role)
             row == [member[change.target] EXCEPT !.role = new]
  <2>1. /\ change # Idle /\ "by" \in DOMAIN change
        /\ member' = [member EXCEPT ![change.target] = row]
        /\ office' = [office EXCEPT ![k] = Idle]
        /\ UNCHANGED <<github, account, permission, login, tokens, told>>
    BY <1>2 DEF UpdateMemberRole
  <2>2. change \in RoleChange
    BY <2>1, Records DEF AccessInv, AccessTypeOK
  <2>3. /\ member[change.target] \in Member /\ member[change.target] # None
        /\ change.role \in {"owner", "admin"} => change.by = "owner"
    BY <2>1, <2>2 DEF AccessInv, AccessTypeOK, ChangesKnown, RoleChange
  <2>4. /\ row \in Member /\ row # None
        /\ row.active = member[change.target].active /\ row.role = new
    <3>1. new \in Role
      BY <2>2, <2>3 DEF Member, RoleChange, Written
    <3> HIDE DEF new
    <3>2. /\ row \in Member
          /\ row.active = member[change.target].active /\ row.role = new
      BY <2>3, <3>1 DEF Member
    <3> QED BY <3>2, AccessAssumption
  <2>5. Leading(row) /\ ~Leading(member[change.target]) => change.by = "owner"
    BY <2>3, <2>4 DEF Leading, Written
  <2> HIDE DEF row, new
  <2>6. \A x \in Members : /\ member'[x] = IF x = change.target THEN row ELSE member[x]
                           /\ Active(x)' <=> Active(x)
    BY <2>1, <2>2, <2>3, <2>4 DEF RoleChange, AccessInv, AccessTypeOK, Active
  <2>7. AccessTypeOK'
    BY <2>1, <2>2, <2>4 DEF RoleChange, AccessInv, AccessTypeOK
  <2>8. ChangesKnown'
    BY <2>1, <2>4, <2>6, Records DEF AccessInv, AccessTypeOK, ChangesKnown, RoleChange
  <2>9. TokensOwned'
    BY <2>1 DEF AccessInv, TokensOwned
  <2>10. \A x \in Members : Outside(x)' /\ Raised(x)
    BY <2>1, <2>2, <2>5, <2>6 DEF AccessInv, Outside, Raised
  <2> QED BY <2>7, <2>8, <2>9, <2>10 DEF Step, AccessInv
<1>3. CASE DropDesk(k)
  <2>1. /\ office' = [office EXCEPT ![k] = Idle]
        /\ UNCHANGED <<github, account, member, permission, login, tokens, told>>
    BY <1>3 DEF DropDesk
  <2>2. AccessTypeOK' /\ ChangesKnown'
    BY <2>1, Records DEF AccessInv, AccessTypeOK, ChangesKnown
  <2>3. TokensOwned' /\ \A x \in Members : Outside(x)' /\ Raised(x)
    BY <2>1 DEF AccessInv, TokensOwned, Outside, Active, Raised
  <2> QED BY <2>1, <2>2, <2>3 DEF Step, AccessInv
<1> QED BY <1>1, <1>2, <1>3

(* Every step is one of these or changes nothing.                          *)
LEMMA AccessStep ==
  ASSUME AccessInv, [AccessNext]_accessVars
  PROVE  Step
PROOF
<1>1. CASE UNCHANGED accessVars
  <2>1. UNCHANGED <<github, account, member, permission, login, office, tokens, told>>
    BY <1>1 DEF accessVars
  <2>2. AccessTypeOK' /\ ChangesKnown' /\ TokensOwned'
    BY <2>1 DEF AccessInv, AccessTypeOK, ChangesKnown, TokensOwned
  <2>3. \A x \in Members : Outside(x)' /\ Raised(x)
    BY <2>1 DEF AccessInv, Outside, Active, Raised
  <2> QED BY <2>1, <2>2, <2>3 DEF Step, AccessInv
<1>2. CASE AccessNext
  BY <1>2, AskingStep, LoginStep, LeavingStep, RoleStep DEF AccessNext
<1> QED BY <1>1, <1>2

-----------------------------------------------------------------------------
(* Who has neither row has no role.                                        *)
LEMMA OutsideHasNoRole == AccessInv => AccessEndsWithGitHub
PROOF
BY DEF AccessInv, AccessEndsWithGitHub, Outside, EffectiveRole, RolesOf, RoleIn

(* What a login was refused by GitHub the user does not have, through any  *)
(* role changes, logouts and revocations that were under way.              *)
THEOREM AccessEnds == AccessSpec => []AccessEndsWithGitHub
PROOF
<1>1. AccessInv /\ [AccessNext]_accessVars => AccessInv'
  BY AccessStep DEF Step
<1> QED BY <1>1, OutsideHasNoRole, AccessStart, PTL DEF AccessSpec

(* Owners and administrators are made by GitHub or by owners.              *)
THEOREM OnlyOwnersRaise == AccessSpec => RaisedByOwners
PROOF
<1>1. AccessInv /\ [AccessNext]_accessVars => AccessInv'
  BY AccessStep DEF Step
<1>2. AccessInv /\ [AccessNext]_accessVars =>
        [\A u \in Members : Leading(member'[u]) /\ ~Leading(member[u]) =>
           \/ login[u] # Idle /\ login[u].org = "admin"
           \/ \E k \in Desks : /\ office[k] # Idle /\ "by" \in DOMAIN office[k]
                               /\ office[k].target = u /\ office[k].by = "owner"
        ]_accessVars
  BY AccessStep DEF Step, Raised
<1> QED BY <1>1, <1>2, AccessStart, PTL DEF AccessSpec, RaisedByOwners

-----------------------------------------------------------------------------
(* Sessions.  A logout and a revocation of one user that overlap can write *)
(* an old version back; otherwise versions only grow.                      *)

LeavingOf(k) == office[k] # Idle /\ "leaving" \in DOMAIN office[k]
OneLeavesAtATime ==
  \A j, k \in Desks : LeavingOf(j) /\ LeavingOf(k)
                        /\ office[j].leaving = office[k].leaving => j = k

(* No token is of a version to come, and who leaves has seen the last one. *)
SessionInv ==
  /\ \A t \in tokens : t[2] <= account[t[1]]
  /\ \A k \in Desks : LeavingOf(k) => office[k].version = account[office[k].leaving]

LEMMA SessionStart == AccessInit => SessionInv
PROOF
BY DEF AccessInit, SessionInv, LeavingOf

(* The version of a user with a row stays or grows by one.                 *)
Onwards(u) == account[u] # None => account'[u] \in {account[u], account[u] + 1}

(* Logins and everything but the end of a session keep the versions.       *)
LEMMA VersionsKept ==
  ASSUME AccessInv, SessionInv, NEW u \in Members,
         \/ \E view \in Views : GitHubChanges(u, view)
         \/ AskMemberships(u) \/ AskRepositories(u) \/ AbandonLogin(u) \/ CommitLogin(u)
  PROVE  SessionInv' /\ \A x \in Members : Onwards(x)
PROOF
<1>1. CASE CommitLogin(u)
  <2> DEFINE version == UpsertedUser(account[u])
  <2>1. /\ account' = [account EXCEPT ![u] = version]
        /\ tokens' = tokens \cup {<<u, version>>} /\ UNCHANGED office
    BY <1>1 DEF CommitLogin
  <2>2. version \in Nat /\ (account[u] # None => version = account[u])
    BY DEF UpsertedUser, AccessInv, AccessTypeOK
  <2> HIDE DEF version
  <2>3. account'[u] = version
        /\ \A x \in Members : account[x] # None => account'[x] = account[x]
    BY <2>1, <2>2 DEF AccessInv, AccessTypeOK
  <2>4. ASSUME NEW t \in tokens' PROVE t[2] <= account'[t[1]]
    <3>1. CASE t \in tokens
      <4>1. t[1] \in Members /\ account[t[1]] # None
        BY <3>1 DEF AccessInv, AccessTypeOK, TokensOwned
      <4> QED BY <2>3, <3>1, <4>1 DEF SessionInv
    <3>2. CASE t = <<u, version>>
      BY <2>2, <2>3, <3>2
    <3> QED BY <2>1, <3>1, <3>2
  <2>5. ASSUME NEW k \in Desks, LeavingOf(k)
        PROVE  office[k].version = account'[office[k].leaving]
    <3>1. office[k] \in Leaving
      BY <2>5, Records DEF LeavingOf, AccessInv, AccessTypeOK
    <3>2. office[k].leaving \in Members /\ office[k].version \in Nat
      BY <3>1 DEF Leaving
    <3>3. office[k].version = account[office[k].leaving]
      BY <2>5 DEF SessionInv
    <3> QED BY <2>3, <3>2, <3>3, AccessAssumption
  <2> QED BY <2>1, <2>3, <2>4, <2>5 DEF SessionInv, LeavingOf, Onwards
<1>2. CASE ~CommitLogin(u)
  <2>1. UNCHANGED <<account, office, tokens>>
    BY <1>2 DEF GitHubChanges, AskMemberships, AskRepositories, AbandonLogin
  <2> QED BY <2>1 DEF SessionInv, LeavingOf, Onwards
<1> QED BY <1>1, <1>2

(* The end of a session adds one to the version, and nobody else has it.   *)
LEMMA VersionsGrow ==
  ASSUME AccessInv, SessionInv, OneLeavesAtATime, NEW k \in Desks,
         \/ \E u \in Members : LoadForLogout(k, u) \/ LoadForRevocation(k, u)
         \/ Logout(k) \/ RevokeUserAuthorization(k)
  PROVE  SessionInv' /\ \A x \in Members : Onwards(x)
PROOF
<1>1. ASSUME NEW u \in Members, NEW revoked \in BOOLEAN, Leave(k, u, revoked)
      PROVE  SessionInv' /\ \A x \in Members : Onwards(x)
  <2> DEFINE left == [leaving |-> u, version |-> account[u], revoked |-> revoked]
  <2>1. office' = [office EXCEPT ![k] = left] /\ UNCHANGED <<account, tokens>>
    BY <1>1 DEF Leave
  <2>2. left.version = account[left.leaving]
    OBVIOUS
  <2> HIDE DEF left
  <2>3. \A j \in Desks : office'[j] = IF j = k THEN left ELSE office[j]
    BY <2>1 DEF AccessInv, AccessTypeOK
  <2> QED BY <2>1, <2>2, <2>3 DEF SessionInv, LeavingOf, Onwards
<1>2. ASSUME NEW revoked \in BOOLEAN, EndSession(k, revoked)
      PROVE  SessionInv' /\ \A x \in Members : Onwards(x)
  <2> DEFINE u == office[k].leaving
  <2>1. LeavingOf(k) /\ office[k] \in Leaving
    BY <1>2, Records DEF EndSession, LeavingOf, AccessInv, AccessTypeOK
  <2>2. u \in Members /\ account[u] \in Nat /\ office[k].version = account[u]
    BY <2>1 DEF Leaving, SessionInv
  <2>3. /\ account' = [account EXCEPT ![u] = account[u] + 1]
        /\ office' = [office EXCEPT ![k] = Idle] /\ UNCHANGED tokens
    BY <1>2, <2>2 DEF EndSession
  <2>4. \A x \in Members : account'[x] = IF x = u THEN account[u] + 1 ELSE account[x]
    BY <2>3 DEF AccessInv, AccessTypeOK
  <2>5. ASSUME NEW t \in tokens' PROVE t[2] <= account'[t[1]]
    <3>1. t[1] \in Members /\ t[2] \in Nat /\ t[2] <= account[t[1]]
      BY <2>3 DEF AccessInv, AccessTypeOK, SessionInv
    <3> QED BY <2>2, <2>4, <3>1
  <2>6. ASSUME NEW j \in Desks, LeavingOf(j)'
        PROVE  office'[j].version = account'[office'[j].leaving]
    <3>1. j # k /\ office'[j] = office[j] /\ LeavingOf(j)
      BY <2>3, <2>6 DEF LeavingOf, AccessInv, AccessTypeOK
    <3>2. office[j].leaving # u
      BY <2>1, <3>1 DEF OneLeavesAtATime
    <3>3. office[j] \in Leaving
      BY <3>1, Records DEF LeavingOf, AccessInv, AccessTypeOK
    <3> QED BY <2>4, <3>1, <3>2, <3>3 DEF SessionInv, Leaving
  <2> QED BY <2>4, <2>5, <2>6 DEF SessionInv, Onwards
<1> QED BY <1>1, <1>2 DEF LoadForLogout, LoadForRevocation, Logout,
                          RevokeUserAuthorization

(* Every step of Access is one of these or leaves the versions alone.      *)
LEMMA SessionStep ==
  ASSUME AccessInv, SessionInv, OneLeavesAtATime, [AccessNext]_accessVars
  PROVE  SessionInv' /\ \A x \in Members : Onwards(x)
PROOF
<1>1. CASE UNCHANGED accessVars
  BY <1>1 DEF accessVars, SessionInv, LeavingOf, Onwards
<1>2. ASSUME NEW k \in Desks,
             \/ \E a, t \in Members, role \in AskedRoles : LoadRoles(k, a, t, role)
             \/ UpdateMemberRole(k) \/ DropDesk(k)
      PROVE  SessionInv' /\ \A x \in Members : Onwards(x)
  <2>1. UNCHANGED <<account, tokens>>
    BY <1>2 DEF LoadRoles, UpdateMemberRole, DropDesk
  <2>2. \A j \in Desks : office'[j] = office[j] \/ ~LeavingOf(j)'
    <3>1. CASE UpdateMemberRole(k) \/ DropDesk(k)
      BY <3>1 DEF UpdateMemberRole, DropDesk, LeavingOf, AccessInv, AccessTypeOK
    <3>2. ASSUME NEW a \in Members, NEW t \in Members, NEW role \in AskedRoles,
                 LoadRoles(k, a, t, role)
          PROVE  \A j \in Desks : office'[j] = office[j] \/ ~LeavingOf(j)'
      BY <3>2 DEF LoadRoles, LeavingOf, AccessInv, AccessTypeOK
    <3> QED BY <1>2, <3>1, <3>2
  <2> QED BY <2>1, <2>2 DEF SessionInv, LeavingOf, Onwards
<1>3. CASE AccessNext
  BY <1>2, <1>3, VersionsKept, VersionsGrow DEF AccessNext
<1> QED BY <1>1, <1>3

(* An ended session stays ended, through any logins, role changes and      *)
(* changes at GitHub, as long as no two logouts or revocations of one user *)
(* overlap: the stale increment is the only way back.                      *)
THEOREM SessionsStayEnded == AccessSpec /\ []OneLeavesAtATime => EndedSessionsStayEnded
PROOF
<1> DEFINE Inv == AccessInv /\ SessionInv
<1>1. AccessInit => Inv
  BY AccessStart, SessionStart
<1>2. Inv /\ OneLeavesAtATime /\ [AccessNext]_accessVars => Inv'
  BY AccessStep, SessionStep DEF Step
<1>3. Inv /\ OneLeavesAtATime /\ [AccessNext]_accessVars =>
        [\A t \in tokens : account[t[1]] # t[2] => account'[t[1]] # t[2]]_accessVars
  <2> SUFFICES ASSUME Inv, OneLeavesAtATime, [AccessNext]_accessVars,
                      NEW t \in tokens, account[t[1]] # t[2]
               PROVE  account'[t[1]] # t[2]
    OBVIOUS
  <2>1. t[1] \in Members /\ t[2] \in Nat /\ account[t[1]] \in Nat
    BY DEF AccessInv, AccessTypeOK, TokensOwned
  <2>2. t[2] <= account[t[1]]
    BY DEF SessionInv
  <2>3. account'[t[1]] \in {account[t[1]], account[t[1]] + 1}
    BY <2>1, SessionStep, AccessAssumption DEF Onwards
  <2> QED BY <2>1, <2>2, <2>3
<1> QED BY <1>1, <1>2, <1>3, PTL DEF AccessSpec, EndedSessionsStayEnded

(* Members, accounts, permissions and requests keep their kinds.           *)
THEOREM AccessTyped == AccessSpec => []AccessTypeOK
PROOF
<1>1. AccessInv /\ [AccessNext]_accessVars => AccessInv'
  BY AccessStep DEF Step
<1>2. AccessInv => AccessTypeOK
  BY DEF AccessInv
<1> QED BY <1>1, <1>2, AccessStart, PTL DEF AccessSpec

-----------------------------------------------------------------------------
(* Rate limits                                                             *)

(* A request that Redis counted. *)
Counted(c) == call[c] # Idle /\ call[c].stage \in {"counted", "served"}

(* In production no two requests of a window have the same place in it, no *)
(* place is beyond the counter, and one that is served is within the limit.*)
Ranked ==
  production =>
    /\ \A c \in Calls : Counted(c) => call[c].count \in 1..shared[call[c].window]
    /\ \A c, d \in Calls :
         Counted(c) /\ Counted(d) /\ call[c].window = call[d].window
           /\ call[c].count = call[d].count => c = d
    /\ \A c \in Calls :
         call[c] # Idle /\ call[c].stage = "served" => call[c].count <= RequestLimit

RateInv == RateLimitTypeOK /\ Ranked

-----------------------------------------------------------------------------
(* The request that a request's handler works on.                          *)
LEMMA CallType ==
  ASSUME RateInv, NEW c \in Calls, call[c] # Idle
  PROVE  /\ call[c] \in Call /\ call[c].window \in Windows
         /\ call[c].host \in Hosts /\ call[c].count \in Nat
PROOF
BY DEF RateInv, RateLimitTypeOK, Call

(* Nothing is counted at first.                                            *)
LEMMA RateStart == RateLimitInit => RateInv
PROOF
<1> SUFFICES ASSUME RateLimitInit PROVE RateInv
  OBVIOUS
<1>1. RateLimitTypeOK
  BY RateLimitAssumption DEF RateLimitInit, RateLimitTypeOK, Windows
<1>2. Ranked
  BY DEF RateLimitInit, Ranked, Counted
<1> QED BY <1>1, <1>2 DEF RateInv

(* A step that counts nothing: requests keep their places, or have none.   *)
LEMMA UncountedStep ==
  ASSUME RateInv, RateLimitTypeOK', UNCHANGED production,
         \A w \in Windows : shared'[w] >= shared[w],
         \A c \in Calls :
           \/ call'[c] = call[c]
           \/ ~Counted(c)'
           \/ /\ Counted(c) /\ Counted(c)' /\ call'[c].window = call[c].window
              /\ call'[c].count = call[c].count /\ call'[c].count <= RequestLimit
  PROVE  RateInv'
PROOF
<1> SUFFICES ASSUME production PROVE Ranked'
  BY DEF RateInv, Ranked
<1>1. ASSUME NEW c \in Calls, Counted(c)'
      PROVE  /\ Counted(c) /\ call'[c].window = call[c].window
             /\ call'[c].count = call[c].count
  BY <1>1 DEF Counted
<1>2. ASSUME NEW c \in Calls, Counted(c)'
      PROVE  call'[c].count \in 1..shared'[call'[c].window]
  <2>1. /\ Counted(c) /\ call'[c].window = call[c].window
        /\ call'[c].count = call[c].count
    BY <1>1, <1>2
  <2>2. call[c].count \in 1..shared[call[c].window] /\ call[c].window \in Windows
    BY <2>1, CallType DEF RateInv, Ranked, Counted
  <2>3. /\ shared[call[c].window] \in Nat /\ shared'[call[c].window] \in Nat
        /\ shared'[call[c].window] >= shared[call[c].window]
    BY <2>2 DEF RateInv, RateLimitTypeOK
  <2> QED BY <2>1, <2>2, <2>3
<1>3. \A c, d \in Calls :
        (Counted(c) /\ Counted(d) /\ call[c].window = call[d].window
           /\ call[c].count = call[d].count)' => c = d
  BY <1>1 DEF RateInv, Ranked
<1>4. ASSUME NEW c \in Calls, call'[c] # Idle, call'[c].stage = "served"
      PROVE  call'[c].count <= RequestLimit
  <2>1. Counted(c)'
    BY <1>4 DEF Counted
  <2> QED BY <1>4, <2>1 DEF RateInv, Ranked
<1> QED BY <1>2, <1>3, <1>4 DEF Ranked

(* Redis gives a request the next place of its window.                     *)
LEMMA CountedStep ==
  ASSUME RateInv, NEW c \in Calls, CountShared(c)
  PROVE  RateInv'
PROOF
<1> DEFINE w == call[c].window
           place == shared[w] + 1
<1>1. call[c] \in Call /\ w \in Windows /\ ~Counted(c) /\ call[c] # Idle
  BY CallType DEF CountShared, Arrived, Counted
<1>2. /\ shared' = [shared EXCEPT ![w] = place]
      /\ call' = [call EXCEPT ![c] = [call[c] EXCEPT !.stage = "counted", !.count = place]]
      /\ UNCHANGED <<window, production, local>>
  BY DEF CountShared, Counts, RateInv, RateLimitTypeOK
<1>3. place \in Nat \ {0} /\ shared \in [Windows -> Nat]
  BY <1>1 DEF RateInv, RateLimitTypeOK
<1>4. /\ [call[c] EXCEPT !.stage = "counted", !.count = place] \in Call
      /\ [call[c] EXCEPT !.stage = "counted", !.count = place].window = w
  BY <1>1, <1>3 DEF Call
<1>5. RateLimitTypeOK'
  BY <1>1, <1>2, <1>3, <1>4 DEF RateInv, RateLimitTypeOK
<1>6. /\ call'[c].count = place /\ call'[c].window = w /\ call'[c].stage = "counted"
      /\ \A d \in Calls \ {c} : call'[d] = call[d]
      /\ shared'[w] = place /\ \A v \in Windows : v # w => shared'[v] = shared[v]
  BY <1>1, <1>2, <1>4 DEF RateInv, RateLimitTypeOK, Call
<1> SUFFICES ASSUME production PROVE Ranked'
  BY <1>2, <1>5 DEF RateInv, Ranked
<1>7. ASSUME NEW d \in Calls \ {c}, Counted(d)'
      PROVE  /\ Counted(d) /\ call'[d] = call[d] /\ call[d].window \in Windows
             /\ call[d].count \in 1..shared[call[d].window]
  <2>1. Counted(d) /\ call'[d] = call[d]
    BY <1>6, <1>7 DEF Counted
  <2> QED BY <2>1, CallType DEF RateInv, Ranked, Counted
<1>8. \A d \in Calls : Counted(d)' => call'[d].count \in 1..shared'[call'[d].window]
  BY <1>3, <1>6, <1>7
<1>9. ASSUME NEW d \in Calls, NEW e \in Calls,
             (Counted(d) /\ Counted(e) /\ call[d].window = call[e].window
                /\ call[d].count = call[e].count)'
      PROVE  d = e
  <2>1. CASE d # c /\ e # c
    BY <1>7, <1>9, <2>1 DEF RateInv, Ranked
  <2>2. ASSUME NEW x \in Calls \ {c}, Counted(x)', call'[x].window = w
        PROVE  call'[x].count # place
    BY <1>3, <1>7, <2>2
  <2> QED BY <1>6, <1>9, <2>1, <2>2
<1>10. \A d \in Calls : (call[d] # Idle /\ call[d].stage = "served")' =>
                          call'[d].count <= RequestLimit
  BY <1>6 DEF RateInv, Ranked
<1> QED BY <1>8, <1>9, <1>10 DEF Ranked

(* Every other step: in production a request without Redis is refused, and *)
(* only requests within the limit are served.                              *)
LEMMA RateStep == RateInv /\ [RateLimitNext]_rateVars => RateInv'
PROOF
<1> SUFFICES ASSUME RateInv, [RateLimitNext]_rateVars PROVE RateInv'
  OBVIOUS
<1> USE DEF RateLimitTypeOK
<1>1. CASE UNCHANGED rateVars
  BY <1>1 DEF rateVars, RateInv, Ranked, Counted
<1>2. CASE NextWindow
  <2>1. RateLimitTypeOK' /\ UNCHANGED <<production, shared, call>>
    BY <1>2, RateLimitAssumption DEF NextWindow, RateInv, Windows
  <2> QED BY <2>1 DEF RateInv, Ranked, Counted
<1>3. ASSUME NEW c \in Calls, NEW h \in Hosts, Arrive(c, h) PROVE RateInv'
  <2> DEFINE new == [stage |-> "arrived", host |-> h, window |-> window, count |-> 0]
  <2>1. /\ new \in Call /\ call' = [call EXCEPT ![c] = new]
        /\ UNCHANGED <<window, production, shared, local>>
    BY <1>3 DEF Arrive, Call, RateInv
  <2>2. new # Idle /\ new.stage = "arrived"
    BY DEF Idle
  <2> HIDE DEF new
  <2>3. RateLimitTypeOK'
    BY <2>1 DEF RateInv
  <2>4. \A d \in Calls : call'[d] = call[d] \/ ~Counted(d)'
    BY <2>1, <2>2 DEF RateInv, Counted
  <2>5. \A w \in Windows : shared'[w] >= shared[w]
    BY <2>1 DEF RateInv
  <2> QED BY <2>1, <2>3, <2>4, <2>5, UncountedStep
<1>4. ASSUME NEW c \in Calls, CountFails(c) PROVE RateInv'
  <2> DEFINE w == call[c].window
             h == call[c].host
  <2>1. /\ call[c] \in Call /\ w \in Windows /\ h \in Hosts /\ call[c] # Idle
        /\ UNCHANGED <<window, production>>
    BY <1>4, CallType DEF CountFails, Arrived
  <2>2. /\ shared' \in [Windows -> Nat]
        /\ \A v \in Windows : shared'[v] >= shared[v]
    BY <1>4, <2>1 DEF CountFails, RateInv
  <2>3. CASE production
    <3> DEFINE new == [call[c] EXCEPT !.stage = "refused"]
    <3>1. call' = [call EXCEPT ![c] = new] /\ UNCHANGED local
      BY <1>4, <2>3 DEF CountFails, RedisFails, Refused, RateInv
    <3>2. new \in Call /\ new.stage = "refused"
      BY <2>1 DEF Call
    <3> HIDE DEF new
    <3>3. RateLimitTypeOK'
      BY <2>1, <2>2, <3>1, <3>2 DEF RateInv
    <3>4. \A d \in Calls : call'[d] = call[d] \/ ~Counted(d)'
      BY <3>1, <3>2 DEF RateInv, Counted
    <3> QED BY <2>1, <2>2, <3>3, <3>4, UncountedStep
  <2>4. CASE ~production
    <3> DEFINE n == local[h][w] + 1
               new == [call[c] EXCEPT !.stage = "counted", !.count = n]
               row == [local[h] EXCEPT ![w] = n]
    <3>1. call' = [call EXCEPT ![c] = new] /\ local' = [local EXCEPT ![h] = row]
      BY <1>4, <2>4 DEF CountFails, RedisFails, CountLocally, Counts, RateInv
    <3>2. local[h] \in [Windows -> Nat] /\ n \in Nat
      BY <2>1 DEF RateInv
    <3> HIDE DEF n
    <3>3. new \in Call /\ row \in [Windows -> Nat]
      BY <2>1, <3>2 DEF Call
    <3> HIDE DEF new, row
    <3>4. RateLimitTypeOK'
      BY <2>1, <2>2, <3>1, <3>3 DEF RateInv
    <3> QED BY <2>1, <2>4, <3>4 DEF RateInv, Ranked
  <2> QED BY <2>3, <2>4
<1>5. ASSUME NEW c \in Calls, Answer(c) PROVE RateInv'
  <2>1. /\ call[c] \in Call /\ Counted(c)
        /\ UNCHANGED <<window, production, shared, local>>
    BY <1>5, CallType DEF Answer, Counted
  <2>2. PICK s \in {"refused", "served"} :
          /\ call' = [call EXCEPT ![c] = [call[c] EXCEPT !.stage = s]]
          /\ s = "served" => call[c].count <= RequestLimit
    BY <1>5, <2>1, RateLimitAssumption DEF Answer, Refused, RateInv, Call
  <2>3. /\ [call[c] EXCEPT !.stage = s] \in Call
        /\ [call[c] EXCEPT !.stage = s].stage = s
        /\ [call[c] EXCEPT !.stage = s].window = call[c].window
        /\ [call[c] EXCEPT !.stage = s].count = call[c].count
    BY <2>1 DEF Call
  <2>4. RateLimitTypeOK'
    BY <2>1, <2>2, <2>3 DEF RateInv
  <2>5. \A d \in Calls \ {c} : call'[d] = call[d]
    BY <2>2 DEF RateInv
  <2>6. call'[c] = [call[c] EXCEPT !.stage = s]
    BY <2>2 DEF RateInv
  <2>7. CASE s = "refused"
    <3>1. ~Counted(c)'
      BY <2>3, <2>6, <2>7 DEF Counted
    <3> QED BY <2>1, <2>4, <2>5, <3>1, UncountedStep DEF RateInv
  <2>8. CASE s = "served"
    <3>1. /\ call'[c].count = call[c].count /\ call'[c].count <= RequestLimit
          /\ call'[c].window = call[c].window
      BY <2>2, <2>3, <2>6, <2>8
    <3>2. CASE Counted(c)'
      BY <2>1, <2>4, <2>5, <3>1, <3>2, UncountedStep DEF RateInv
    <3>3. CASE ~Counted(c)'
      BY <2>1, <2>4, <2>5, <3>3, UncountedStep DEF RateInv
    <3> QED BY <3>2, <3>3
  <2> QED BY <2>7, <2>8
<1>6. ASSUME NEW h \in Hosts, RestartHost(h) PROVE RateInv'
  <2>1. /\ local' = [local EXCEPT ![h] = [w \in Windows |-> 0]]
        /\ UNCHANGED <<window, production, shared>>
        /\ DOMAIN call' = Calls /\ call' = [c \in Calls |-> call'[c]]
    BY <1>6 DEF RestartHost
  <2>2. ASSUME NEW c \in Calls
        PROVE  /\ call'[c] \in Call \cup {Idle}
               /\ call'[c] = call[c] \/ ~Counted(c)'
    <3>1. \/ call'[c] = call[c]
          \/ call[c] # Idle /\ call'[c] = [call[c] EXCEPT !.stage = "refused"]
      BY <1>6 DEF RestartHost
    <3>2. CASE call'[c] = call[c]
      BY <3>2 DEF RateInv
    <3>3. CASE call[c] # Idle /\ call'[c] = [call[c] EXCEPT !.stage = "refused"]
      BY <3>3, CallType DEF Call, Counted
    <3> QED BY <3>1, <3>2, <3>3
  <2>3. RateLimitTypeOK'
    BY <2>1, <2>2 DEF RateInv
  <2> QED BY <2>1, <2>2, <2>3, UncountedStep DEF RateInv
<1> QED BY <1>1, <1>2, <1>3, <1>4, <1>5, <1>6, CountedStep DEF RateLimitNext

(* Distinct places up to the limit are no more than the limit.             *)
LEMMA RankedWithinLimit == RateInv => RateRespected
PROOF
<1> SUFFICES ASSUME RateInv, production, NEW w \in Windows
             PROVE  Cardinality(ServedIn(w)) <= RequestLimit
  BY DEF RateRespected
<1> DEFINE place == [c \in ServedIn(w) |-> call[c].count]
<1>1. ASSUME NEW c \in ServedIn(w)
      PROVE  c \in Calls /\ Counted(c) /\ call[c].window = w
               /\ call[c].count \in 1..RequestLimit
  <2>1. /\ c \in Calls /\ call[c] # Idle /\ call[c].stage = "served"
        /\ call[c].window = w
    BY DEF ServedIn
  <2>2. Counted(c) /\ call[c].count \in Nat
    BY <2>1, CallType DEF Counted
  <2>3. call[c].count \in 1..shared[w] /\ call[c].count <= RequestLimit
    BY <2>1, <2>2 DEF RateInv, Ranked
  <2>4. shared[w] \in Nat
    BY DEF RateInv, RateLimitTypeOK
  <2> QED BY <2>1, <2>2, <2>3, <2>4, RateLimitAssumption
<1>2. place \in [ServedIn(w) -> 1..RequestLimit]
  BY <1>1
<1>3. \A c, d \in ServedIn(w) : place[c] = place[d] => c = d
  BY <1>1 DEF RateInv, Ranked
<1>4. place \in Injection(ServedIn(w), 1..RequestLimit)
  BY <1>2, <1>3 DEF Injection, IsInjective
<1>5. IsFiniteSet(1..RequestLimit) /\ Cardinality(1..RequestLimit) = RequestLimit
  BY FS_Interval, RateLimitAssumption
<1> HIDE DEF place
<1> QED BY <1>4, <1>5, FS_Injection

(* In production no window serves more requests than the limit: those it   *)
(* served have different places in it, and none is beyond the limit.       *)
THEOREM LimitHolds == RateLimitSpec => []RateRespected
PROOF
<1> QED BY RankedWithinLimit, RateStart, RateStep, PTL DEF RateLimitSpec

(* Counters are natural numbers, and requests keep their kinds.            *)
THEOREM RateTyped == RateLimitSpec => []RateLimitTypeOK
PROOF
<1>1. RateInv => RateLimitTypeOK
  BY DEF RateInv
<1> QED BY <1>1, RateStart, RateStep, PTL DEF RateLimitSpec

-----------------------------------------------------------------------------
(* The components together *)

RequestsInv == BountiesInv /\ AccessInv /\ RateInv

(* The decision the bounties start from is eligible by its quorum, or has  *)
(* the approval of one of two.                                             *)
LEMMA FirstDecision ==
  ASSUME NEW row \in {Approved, Awaited}
  PROVE  /\ row \in DecisionRow /\ Sound(row) /\ row.pr = p1
         /\ ~Failing(row.score, row.policy, row.checks)
         /\ row.policy = light /\ row.rejected = {} /\ row.endorsed = {}
         /\ row.status = "eligible" => row.approved = {ann, bob}
PROOF
<1>1. h1 \in Heads
  BY RequestsAssumption, EligibilityAssumption DEF Heads
<1>2. /\ Rules[light].required_approvals = 2 /\ Rules[light].passing = {i1}
      /\ Rules[light].approvers = Users /\ ~Rules[light].human_review_required
      /\ ~Rules[light].require_merged /\ ~Rules[light].separation_of_duties
  BY RequestsAssumption DEF PolicyRules
<1>3. /\ row.policy = light /\ row.score = i1 /\ row.pr = p1
      /\ row.checks = [head |-> h1, merged |-> TRUE, complete |-> TRUE, prior |-> FALSE]
      /\ row.status \in {"eligible", "pending_approval"} /\ row.required = 2
      /\ row.approved \subseteq {ann, bob} /\ row.rejected = {} /\ row.endorsed = {}
      /\ row.status = "eligible" => row.approved = {ann, bob}
  <2>1. CASE row = Approved
    BY <2>1 DEF Approved
  <2>2. CASE row = Awaited
    BY <2>2 DEF Approved, Awaited
  <2> QED BY <2>1, <2>2
<1>4. row \in DecisionRow
  <2>1. Approved \in DecisionRow
    BY <1>1, RequestsAssumption
    DEF Approved, DecisionRow, Checks, DecisionStatus, Score
  <2>2. Awaited \in DecisionRow
    BY <2>1, RequestsAssumption DEF Awaited, DecisionRow, DecisionStatus
  <2> QED BY <2>1, <2>2
<1>5. ~Failing(i1, light, row.checks)
  BY <1>2, <1>3, RequestsAssumption DEF Failing
<1>6. Cardinality({ann, bob}) = 2
  <2>1. Cardinality({ann}) = 1 /\ IsFiniteSet({ann})
    BY FS_Singleton
  <2>2. bob \notin {ann} /\ {ann} \cup {bob} = {ann, bob}
    BY RequestsAssumption
  <2>3. Cardinality({ann} \cup {bob}) = Cardinality({ann}) + 1
    BY <2>1, <2>2, FS_AddElement
  <2> QED BY <2>1, <2>2, <2>3
<1>7. Respected(row)
  BY <1>2, <1>3, <1>5, RequestsAssumption DEF Respected
<1>8. Sound(row)
  BY <1>2, <1>3, <1>6, <1>7 DEF Sound, Reviewable
<1> QED BY <1>3, <1>4, <1>5, <1>8

LEMMA DecidedStart == DecidedInit => DecisionsInv
PROOF
<1> SUFFICES ASSUME DecidedInit PROVE DecisionsInv
  OBVIOUS
<1>1. PICK row \in {Approved, Awaited} : decision = <<row>>
  BY DEF DecidedInit
<1>2. /\ row \in DecisionRow /\ Sound(row) /\ row.pr = p1
      /\ ~Failing(row.score, row.policy, row.checks)
      /\ row.policy = light /\ row.rejected = {} /\ row.endorsed = {}
      /\ row.status = "eligible" => row.approved = {ann, bob}
  BY FirstDecision
<1>3. DOMAIN decision = {1} /\ decision[1] = row /\ decision \in Seq(DecisionRow)
  BY <1>1, <1>2
<1>4. /\ policy = light /\ scored = {<<p1, i1>>}
      /\ pr = [p \in PullRequests |-> [merged |-> TRUE, head |-> h1,
                 complete |-> TRUE, latest |-> i1,
                 state |-> IF decision = <<Approved>> THEN "eligible"
                           ELSE "not_evaluated"]]
      /\ session = [r \in Sessions |-> Idle]
  BY DEF DecidedInit
<1>5. TypeInv
  <2>1. h1 \in Heads
    BY RequestsAssumption, EligibilityAssumption DEF Heads
  <2>2. pr \in [PullRequests -> PullRequestRow]
    BY <1>4, <2>1, RequestsAssumption DEF PullRequestRow, EligibilityState, Score
  <2>3. policy \in Policies \cup {None} /\ scored \subseteq PullRequests \X Score
    BY <1>4, RequestsAssumption DEF Score
  <2>4. session \in [Sessions -> Loaded \cup {Idle}] /\ SessionsKnow
    BY <1>4 DEF SessionsKnow
  <2> QED BY <1>3, <2>2, <2>3, <2>4 DEF TypeInv, EligibilityTypeOK
<1>6. row.status = "eligible" => Won(1)
  <2> SUFFICES ASSUME row.status = "eligible" PROVE Won(1)
    OBVIOUS
  <2>1. row.approved = {ann, bob} /\ Cardinality(row.approved) >= row.required
    BY <1>2 DEF Sound
  <2>2. /\ Rules[light].approvers = Users /\ ~Rules[light].human_review_required
        /\ row.required = Rules[light].required_approvals
        /\ {ann, bob} \subseteq Users /\ Author[p1] \notin {ann, bob}
    BY <1>2, RequestsAssumption DEF PolicyRules, Sound
  <2>3. ByQuorum(1)
    BY <1>2, <1>3, <2>1, <2>2 DEF ByQuorum
  <2> QED BY <1>3, <2>3 DEF Won
<1>7. \A p \in PullRequests : pr[p].state = "eligible" => p = p1 /\ row.status = "eligible"
  <2>1. Approved.status = "eligible"
    BY DEF Approved
  <2>2. decision = <<Approved>> => row = Approved
    BY <1>1
  <2> QED BY <1>4, <2>1, <2>2, RequestsAssumption
<1>8. EarnedInv
  BY <1>2, <1>3, <1>5, <1>6, <1>7 DEF EarnedInv, QuorumInv
<1>9. OneCurrentInv
  BY <1>3, <1>5 DEF OneCurrentInv
<1> QED BY <1>8, <1>9 DEF DecisionsInv

(* A drafted bounty has no claim either.                                   *)
LEMMA DraftedStart ==
  ASSUME DecisionsInv, DraftedInit
  PROVE  BountiesInv
PROOF
<1>1. TablesTyped
  BY RequestsAssumption
  DEF DraftedInit, TablesTyped, BountyRow, BountyStatus, FundingStatus, WalletState
<1>2. Linked /\ PayoutsClaimed /\ ClaimsSupported
  BY DEF DraftedInit, Linked, PayoutsClaimed, ClaimsSupported
<1>3. DesksTyped /\ DesksTrue
  BY DEF DraftedInit, DesksTyped, DesksTrue
<1> QED BY <1>1, <1>2, <1>3 DEF BountiesInv, TablesInv

(* Every start has the invariants of the components.                       *)
LEMMA RequestsStart == RequestsInit => RequestsInv
PROOF
<1> SUFFICES ASSUME RequestsInit PROVE RequestsInv
  OBVIOUS
<1>1. /\ RateLimitInit /\ AccessInit
      /\ \/ DecidedInit /\ (NoBounties \/ DraftedInit)
         \/ EligibilityInit /\ NoBounties
  BY DEF RequestsInit
<1>2. CASE DecidedInit /\ (NoBounties \/ DraftedInit)
  BY <1>1, <1>2, DecidedStart, NoBountiesYet, DraftedStart, RateStart, AccessStart
  DEF RequestsInv
<1>3. CASE EligibilityInit /\ NoBounties
  BY <1>1, <1>3, BountiesInductive, RateStart, AccessStart DEF BountiesInit, RequestsInv
<1> QED BY <1>1, <1>2, <1>3

(* A step is one of a component, and a stutter of the others.              *)
LEMMA RequestsSteps ==
  [RequestsNext]_requestsVars =>
    [BountiesNext]_allVars /\ [RateLimitNext]_rateVars /\ [AccessNext]_accessVars
PROOF
<1> SUFFICES ASSUME [RequestsNext]_requestsVars
             PROVE  [BountiesNext]_allVars /\ [RateLimitNext]_rateVars
                      /\ [AccessNext]_accessVars
  OBVIOUS
<1>1. CASE part = "decisions" /\ EligibilityNext /\ MergesLast
             /\ UNCHANGED <<bountyVars, desk, rateVars, accessVars>>
  BY <1>1 DEF BountiesNext
<1>2. CASE RequestsNext /\ part # "decisions"
  BY <1>2 DEF RequestsNext
<1>3. CASE UNCHANGED requestsVars
  BY <1>3 DEF requestsVars
<1> QED BY <1>1, <1>2, <1>3 DEF RequestsNext

(* The invariants of the components hold together.                         *)
LEMMA RequestsInductive ==
  /\ RequestsInit => RequestsInv
  /\ RequestsInv /\ [RequestsNext]_requestsVars => RequestsInv'
PROOF
<1>1. ASSUME RequestsInv, [RequestsNext]_requestsVars PROVE RequestsInv'
  <2>1. [BountiesNext]_allVars /\ [RateLimitNext]_rateVars /\ [AccessNext]_accessVars
    BY <1>1, RequestsSteps
  <2>2. BountiesInv'
    BY <1>1, <2>1, BountiesInductive DEF RequestsInv
  <2>3. RateInv'
    BY <1>1, <2>1, RateStep DEF RequestsInv
  <2>4. AccessInv'
    BY <1>1, <2>1, AccessStep DEF RequestsInv, Step
  <2> QED BY <2>2, <2>3, <2>4 DEF RequestsInv
<1> QED BY <1>1, RequestsStart

(* The tables and requests of every component keep their kinds, from the   *)
(* empty tables and from those with a decision and a drafted bounty.       *)
THEOREM RequestsTyped == RequestsSpec => []RequestsTypeOK
PROOF
<1>1. RequestsInv => RequestsTypeOK
  <2>1. BountiesInv => BountiesTypeOK
    BY DEF BountiesInv, DecisionsInv, OneCurrentInv, TypeInv, TablesInv, TablesTyped,
           DesksTyped, BountiesTypeOK
  <2>2. AccessInv => AccessTypeOK
    BY DEF AccessInv
  <2>3. RateInv => RateLimitTypeOK
    BY DEF RateInv
  <2> QED BY <2>1, <2>2, <2>3 DEF RequestsInv, RequestsTypeOK
<1> QED BY <1>1, RequestsInductive, PTL DEF RequestsSpec

(* Quorums, claims, rate limits and roles are as each component promises,  *)
(* wherever the behaviour starts.                                          *)
THEOREM RequestsKeepPromises ==
  RequestsSpec => [](/\ EligibleByQuorum /\ EligibleStateEarned /\ OneCurrentDecision
                     /\ ClaimsBacked /\ AssignedClaimable
                     /\ RateRespected /\ AccessEndsWithGitHub)
PROOF
<1>1. BountiesInv => EligibleByQuorum /\ EligibleStateEarned /\ OneCurrentDecision
                       /\ ClaimsBacked /\ AssignedClaimable
  BY BountiesPromises
<1>2. RateInv => RateRespected
  BY RankedWithinLimit
<1>3. AccessInv => AccessEndsWithGitHub
  BY OutsideHasNoRole
<1>4. RequestsInv => /\ EligibleByQuorum /\ EligibleStateEarned /\ OneCurrentDecision
                     /\ ClaimsBacked /\ AssignedClaimable
                     /\ RateRespected /\ AccessEndsWithGitHub
  BY <1>1, <1>2, <1>3 DEF RequestsInv
<1> QED BY <1>4, RequestsInductive, PTL DEF RequestsSpec

(* From the tables with a decision too, closed decisions and claims stay   *)
(* as they are, while everything that rests on them moves.                 *)
THEOREM RequestsRewriteNothing ==
  RequestsSpec => ClosedDecisionsFrozen /\ ClaimsFixed
PROOF
<1>1. RequestsInv /\ [RequestsNext]_requestsVars => BountiesInv /\ [BountiesNext]_allVars
  BY RequestsSteps DEF RequestsInv
<1>2. BountiesInv /\ [BountiesNext]_allVars =>
        [\A d \in DOMAIN decision :
           /\ ~decision[d].current => decision'[d] = decision[d]
           /\ decision[d].status \in {"eligible", "ineligible"} =>
                /\ Votes(decision'[d]) = Votes(decision[d])
                /\ decision'[d].status \in {decision[d].status, "superseded"}
        ]_eligibilityVars
  BY FrozenWithBounties
<1>3. BountiesInv /\ [BountiesNext]_allVars =>
        [\A b \in Bounty : claim[b] # None =>
           claim'[b] \in {claim[b], [claim[b] EXCEPT !.status = "paid"]}]_allVars
  BY BountiesStep DEF TablesStep, Onward
<1> QED BY <1>1, <1>2, <1>3, RequestsInductive, PTL
        DEF RequestsSpec, ClosedDecisionsFrozen, ClaimsFixed

(* Beside the others too, nobody rises but as Access says.                 *)
THEOREM RequestsRaiseNobody == RequestsSpec => RaisedByOwners
PROOF
<1>1. RequestsInv /\ [RequestsNext]_requestsVars => AccessInv /\ [AccessNext]_accessVars
  BY RequestsSteps DEF RequestsInv
<1>2. AccessInv /\ [AccessNext]_accessVars =>
        [\A u \in Members : Leading(member'[u]) /\ ~Leading(member[u]) =>
           \/ login[u] # Idle /\ login[u].org = "admin"
           \/ \E k \in Desks : /\ office[k] # Idle /\ "by" \in DOMAIN office[k]
                               /\ office[k].target = u /\ office[k].by = "owner"
        ]_accessVars
  BY AccessStep DEF Step, Raised
<1> QED BY <1>1, <1>2, RequestsInductive, PTL DEF RequestsSpec, RaisedByOwners
=============================================================================
