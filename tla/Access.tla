------------------------------- MODULE Access -------------------------------
(***************************************************************************)
(* Who may do what: logins through GitHub, sessions, the roles of the      *)
(* members of one organization and of one of its repositories              *)
(* (services/identity_service.py, api/auth_routes.py, api/authz.py,        *)
(* api/tenancy_routes.py, core/security.py).                               *)
(*                                                                         *)
(* A login asks GitHub for the memberships, then for the repositories, and *)
(* commits both in one transaction.  A role change checks the rows it      *)
(* loaded.  A logout, and a worker that processes the webhook of a revoked *)
(* authorization, add one to the session version they loaded.  Nothing     *)
(* here locks a row.                                                       *)
(***************************************************************************)
EXTENDS Integers, FiniteSets, Rows

CONSTANTS
  Members,         \* GitHub users
  Views,           \* what GitHub may say of a user: a role in the organization
                   \* and one in the repository, seen through an installation
  AskedRoles,      \* roles that role changes ask for
  Desks,           \* role changes, logouts and revocations at one time
  MaxVersion,      \* bound: session version of a user
  MaxGitHubChanges \* bound: changes GitHub makes

Role == {"owner", "admin", "maintainer", "reviewer", "contributor", "viewer"}

GitHubView == [org : {"none", "member", "admin"},
               repo : {"none", "pull", "triage", "push", "maintain", "admin"}]

Member == [role : Role, active : BOOLEAN]

ASSUME AccessAssumption ==
  /\ Views \subseteq GitHubView /\ AskedRoles \subseteq Role
  /\ MaxVersion \in Nat /\ MaxGitHubChanges \in Nat
  /\ None \notin Members \cup Member /\ None \notin Nat

VARIABLES
  github,      \* what GitHub says of each user, and its number of changes
  account,     \* session_version of each user's row, None without one
  member,      \* the organization_memberships table
  permission,  \* the repository_permissions table
  login,       \* what each user's login has been told so far
  office,      \* what each other request has loaded
  tokens,      \* session tokens issued: user and version
  told         \* what GitHub told each user's last completed login

accessVars == <<github, account, member, permission, login, office, tokens, told>>

ROLE_WEIGHT ==
  [owner |-> 60, admin |-> 50, maintainer |-> 40, reviewer |-> 30,
   contributor |-> 20, viewer |-> 10]

Answered == [org : {"none", "member", "admin"}]
RoleChange == [by : Role, target : Members, role : Role, loaded : Role]
Leaving == [leaving : Members, version : Nat, revoked : BOOLEAN]

AccessTypeOK ==
  /\ github \in [view : [Members -> Views], changes : 0..MaxGitHubChanges]
  /\ account \in [Members -> Nat \cup {None}]
  /\ member \in [Members -> Member \cup {None}]
  /\ permission \in [Members -> Role \cup {None}]
  /\ login \in [Members -> {Idle} \cup Answered \cup GitHubView]
  /\ office \in [Desks -> {Idle} \cup RoleChange \cup Leaving]
  /\ tokens \subseteq Members \X Nat
  /\ told \in [Members -> GitHubView \cup {None}]

AccessInit ==
  /\ github \in [view : [Members -> Views], changes : {0}]
  /\ account = [u \in Members |-> None]
  /\ member = [u \in Members |-> None]
  /\ permission = [u \in Members |-> None]
  /\ login = [u \in Members |-> Idle]
  /\ office = [k \in Desks |-> Idle]
  /\ tokens = {}
  /\ told = [u \in Members |-> None]

GitHubChanges(u, view) ==
  /\ github.changes < MaxGitHubChanges
  /\ github' = [view |-> [github.view EXCEPT ![u] = view], changes |-> github.changes + 1]
  /\ UNCHANGED <<account, member, permission, login, office, tokens, told>>

-----------------------------------------------------------------------------
(* github_oauth_callback *)

AskMemberships(u) ==
  /\ login[u] = Idle
  /\ login' = [login EXCEPT ![u] = [org |-> github.view[u].org]]
  /\ UNCHANGED <<github, account, member, permission, office, tokens, told>>

AskRepositories(u) ==
  /\ login[u] # Idle /\ DOMAIN login[u] = {"org"}
  /\ login' = [login EXCEPT ![u] = [org |-> login[u].org, repo |-> github.view[u].repo]]
  /\ UNCHANGED <<github, account, member, permission, office, tokens, told>>

(* A refused exchange, an error of GitHub, a crash: rollback. *)
AbandonLogin(u) ==
  /\ login[u] # Idle
  /\ login' = [login EXCEPT ![u] = Idle]
  /\ UNCHANGED <<github, account, member, permission, office, tokens, told>>

(* _repository_role *)
RepositoryRole(repo) ==
  CASE repo = "admin" -> "admin"
    [] repo = "maintain" -> "maintainer"
    [] repo = "push" -> "contributor"
    [] repo = "triage" -> "reviewer"
    [] repo = "pull" -> "viewer"
    [] repo = "none" -> None

(* _sync_memberships: GitHub decides who is owner, and every other role    *)
(* stays; a membership GitHub does not list is deactivated.  The mutant    *)
(* deactivates only if GitHub listed any membership.                       *)
SyncedListedMembership(row, org) ==
  IF org = "none" THEN row
  ELSE [role |-> IF org = "admin" THEN "owner"
                 ELSE IF row = None \/ row.role = "owner" THEN "viewer" ELSE row.role,
        active |-> TRUE]
SyncedMembership(row, org) ==
  IF org = "none" THEN IF row = None THEN None ELSE [row EXCEPT !.active = FALSE]
  ELSE [role |-> IF org = "admin" THEN "owner"
                 ELSE IF row = None \/ row.role = "owner" THEN "viewer" ELSE row.role,
        active |-> TRUE]

(* _upsert_user keeps the session version of a known user.                 *)
UpsertedUser(version) == IF version = None THEN 0 ELSE version

CommitLogin(u) ==
  /\ login[u] # Idle /\ "repo" \in DOMAIN login[u]
  /\ account' = [account EXCEPT ![u] = UpsertedUser(@)]
  /\ member' = [member EXCEPT ![u] = SyncedMembership(@, login[u].org)]
  /\ permission' = [permission EXCEPT ![u] = RepositoryRole(login[u].repo)]
  /\ tokens' = tokens \cup {<<u, UpsertedUser(account[u])>>}
  /\ told' = [told EXCEPT ![u] = login[u]]
  /\ login' = [login EXCEPT ![u] = Idle]
  /\ UNCHANGED <<github, office>>

-----------------------------------------------------------------------------
(* Sessions *)

(* get_current_user *)
ValidToken(u, version) == <<u, version>> \in tokens /\ account[u] = version
SignedIn(u) == account[u] # None /\ ValidToken(u, account[u])

(* logout and _revoke_user_authorization add one to the version they       *)
(* loaded.                                                                 *)
Leave(k, u, revoked) ==
  /\ office[k] = Idle /\ account[u] # None /\ account[u] < MaxVersion
  /\ office' = [office EXCEPT ![k] =
       [leaving |-> u, version |-> account[u], revoked |-> revoked]]
  /\ UNCHANGED <<github, account, member, permission, login, tokens, told>>

LoadForLogout(k, u) == SignedIn(u) /\ Leave(k, u, FALSE)
LoadForRevocation(k, u) == Leave(k, u, TRUE)

EndSession(k, revoked) ==
  /\ office[k] # Idle /\ "leaving" \in DOMAIN office[k] /\ office[k].revoked = revoked
  /\ account' = [account EXCEPT ![office[k].leaving] = office[k].version + 1]
  /\ office' = [office EXCEPT ![k] = Idle]
  /\ UNCHANGED <<github, login, tokens, told>>

Logout(k) == EndSession(k, FALSE) /\ UNCHANGED <<member, permission>>

RevokeUserAuthorization(k) ==
  /\ EndSession(k, TRUE)
  /\ LET u == office[k].leaving
     IN /\ permission' = [permission EXCEPT ![u] = None]
        /\ member' = [member EXCEPT ![u] = SyncedMembership(@, "none")]

-----------------------------------------------------------------------------
(* Roles *)

Active(u) == member[u] # None /\ member[u].active
RoleIn(u) == IF Active(u) THEN member[u].role ELSE None
Owners == {u \in Members : RoleIn(u) = "owner"}

(* effective_repository_role *)
RolesOf(u) == ({permission[u]} \ {None}) \cup ({RoleIn(u)} \cap {"owner", "admin"})
EffectiveRole(u) ==
  IF RolesOf(u) = {} THEN None
  ELSE CHOOSE r \in RolesOf(u) : \A s \in RolesOf(u) : ROLE_WEIGHT[s] <= ROLE_WEIGHT[r]

(* What update_member_role asks of the rows it loads.  The mutant compares *)
(* the new role with the administrator's own.                              *)
MayGrantOwnRole(actor, target, role) ==
  /\ RoleIn(actor) \in {"owner", "admin"}
  /\ RoleIn(actor) # "owner" =>
       /\ ROLE_WEIGHT[role] <= ROLE_WEIGHT[RoleIn(actor)]
       /\ ROLE_WEIGHT[RoleIn(target)] < ROLE_WEIGHT[RoleIn(actor)]
  /\ RoleIn(target) = "owner" /\ role # "owner" => Cardinality(Owners) > 1
MayChangeRole(actor, target, role) ==
  /\ RoleIn(actor) \in {"owner", "admin"}
  /\ RoleIn(actor) # "owner" =>
       /\ role \notin {"owner", "admin"}
       /\ ROLE_WEIGHT[RoleIn(target)] < ROLE_WEIGHT[RoleIn(actor)]
  /\ RoleIn(target) = "owner" /\ role # "owner" => Cardinality(Owners) > 1

LoadRoles(k, actor, target, role) ==
  /\ office[k] = Idle /\ SignedIn(actor) /\ Active(target)
  /\ MayChangeRole(actor, target, role)
  /\ office' = [office EXCEPT ![k] = [by |-> RoleIn(actor), target |-> target,
                                      role |-> role, loaded |-> RoleIn(target)]]
  /\ UNCHANGED <<github, account, member, permission, login, tokens, told>>

UpdateMemberRole(k) ==
  LET change == office[k]
  IN /\ change # Idle /\ "by" \in DOMAIN change
     /\ member' = [member EXCEPT ![change.target].role =
                     Written(@, change.loaded, change.role)]
     /\ office' = [office EXCEPT ![k] = Idle]
     /\ UNCHANGED <<github, account, permission, login, tokens, told>>

DropDesk(k) ==
  /\ office[k] # Idle
  /\ office' = [office EXCEPT ![k] = Idle]
  /\ UNCHANGED <<github, account, member, permission, login, tokens, told>>

-----------------------------------------------------------------------------
AccessNext ==
  \/ \E u \in Members :
       \/ \E view \in Views : GitHubChanges(u, view)
       \/ AskMemberships(u) \/ AskRepositories(u) \/ AbandonLogin(u) \/ CommitLogin(u)
  \/ \E k \in Desks :
       \/ Logout(k) \/ RevokeUserAuthorization(k) \/ UpdateMemberRole(k) \/ DropDesk(k)
       \/ \E u \in Members : LoadForLogout(k, u) \/ LoadForRevocation(k, u)
       \/ \E a, t \in Members, role \in AskedRoles : LoadRoles(k, a, t, role)

AccessSpec == AccessInit /\ [][AccessNext]_accessVars

-----------------------------------------------------------------------------
(* Properties *)

(* ANALYSIS.md: incrementing session_version revokes all prior sessions    *)
(* for a user - so a session that was ended is never valid again.          *)
EndedSessionsStayEnded ==
  [][\A t \in tokens : account[t[1]] # t[2] => account'[t[1]] # t[2]]_accessVars

(* Once a login was told by GitHub that the user is neither a member of    *)
(* the organization nor sees the repository, the user has no role there,   *)
(* whatever role changes were under way (_sync_memberships and             *)
(* _sync_installations_and_repositories, effective_repository_role).       *)
AccessEndsWithGitHub ==
  \A u \in Members :
    told[u] = [org |-> "none", repo |-> "none"] => EffectiveRole(u) = None

(* Nobody rises to owner or administrator except through GitHub, or by a   *)
(* change whose actor was an owner when the request loaded the rows        *)
(* ("Only owners can grant this role").                                    *)
Leading(row) == row # None /\ row.role \in {"owner", "admin"}
RaisedByOwners ==
  [][\A u \in Members : Leading(member'[u]) /\ ~Leading(member[u]) =>
       \/ login[u] # Idle /\ login[u].org = "admin"
       \/ \E k \in Desks : /\ office[k] # Idle /\ "by" \in DOMAIN office[k]
                           /\ office[k].target = u /\ office[k].by = "owner"]_accessVars
=============================================================================
