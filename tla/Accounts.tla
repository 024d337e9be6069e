------------------------------ MODULE Accounts ------------------------------
(***************************************************************************)
(* Accounts, credentials and links: auth.rs and operator.rs of the server, *)
(* over the users, sessions, device_tokens, reset_password_tokens and      *)
(* invitation_tokens tables.                                               *)
(*                                                                         *)
(* A handler reads rows, decides, and then runs its statements one by one; *)
(* between two of them any other request may run, and it may stop after    *)
(* any of them (an error of the database, a crash).  A request is          *)
(* therefore a record of what it has read and of the statements it has     *)
(* left, its "plan", and every statement is an action.                     *)
(*                                                                         *)
(* Users are numbered in the order of their creation.  A password is the   *)
(* number of times it has been changed.  A session cookie and a device     *)
(* token are both credentials.                                             *)
(***************************************************************************)
EXTENDS Naturals, Sequences, FiniteSets

CONSTANTS
  MaxUsers,       \* bound: users ever created
  Proc,           \* requests in flight, and runs of the operator command
  MaxCreds,       \* bound: rows of sessions and device_tokens ever inserted
  Reset,          \* rows of reset_password_tokens
  Invite,         \* rows of invitation_tokens
  DeviceLimit,    \* MAX_DEVICE_TOKENS_PER_USER
  MaxPasswords,   \* bound: changes of one password
  MaxRequests,    \* bound: requests ever begun
  Ops,            \* the operations clients ask for
  Patches,        \* the fields patches name: a role and a status, or "keep"
  InitialRoles,   \* the tables of users to start from, by role
  NoReset, NoInvite

ASSUME AccountsAssumption ==
  /\ MaxUsers \in Nat /\ MaxCreds \in Nat /\ DeviceLimit \in Nat
  /\ MaxPasswords \in Nat /\ MaxRequests \in Nat
  /\ NoReset \notin Reset /\ NoInvite \notin Invite
  /\ Patches \subseteq [role : {"admin", "user", "keep"}, status : {"active", "disabled", "keep"}]
  /\ InitialRoles \subseteq Seq({"admin", "user"})
  /\ \A roles \in InitialRoles : Len(roles) <= MaxUsers /\ Len(roles) <= MaxCreds

User == 1 .. MaxUsers
NoUser == 0
Cred == 1 .. MaxCreds
NoCred == 0
Roles == {"admin", "user"}

VARIABLES
  users,     \* the users table
  owner,     \* app_settings.owner_user_id
  booted,    \* some process has ended ensure_first_admin and serves
  creds,     \* sessions and device_tokens; "at" is history: the owner's
             \* password when the row was inserted
  resets,    \* reset_password_tokens; "by" and "uses" are history
  invites,   \* invitation_tokens; "uses" is history
  halfReset, \* history: users whose reset by the operator stopped before its
             \* end, until a password change revokes everything
  replaced,  \* history: a start has put another owner in the place of one
  reqs,      \* the requests in flight
  begun      \* bound: how many requests have begun

vars == <<users, owner, booted, creds, resets, invites, halfReset, replaced, reqs, begun>>

UserRow == [state : {"unborn", "active", "disabled", "purged"},
            role : Roles, boot : BOOLEAN, pwd : 0 .. MaxPasswords]
CredRow == [state : {"free", "live", "revoked", "deleted"}, user : User \cup {NoUser},
            kind : {"session", "device"}, at : 0 .. MaxPasswords]
ResetRow == [state : {"free", "open", "used", "expired", "deleted"},
             user : User \cup {NoUser}, by : User \cup {NoUser}, uses : Nat]
InviteRow == [state : {"free", "open", "claimed", "used", "expired", "deleted"},
              role : Roles, by : User \cup {NoUser}, uses : Nat]

Statement == {"find_owner", "first_admin", "create_owner", "set_owner", "admit",
              "issue_session", "issue_token", "logout", "revoke_session", "revoke_token", "change", "read_target", "write", "revoke_sessions",
              "revoke_tokens", "delete_sessions", "delete_tokens", "delete_resets",
              "clear_created_by", "delete_user", "insert_user", "insert_invite", "mail",
              "insert_reset", "redeem_reset", "claim", "disable", "redeem_invite",
              "set_password", "enable"}

\* A request: its operation, the statements left, who asks, what it asks for
\* (role and status, "keep" for a field the patch does not name) and the rows
\* it has found.
Idle == [op |-> "none", plan |-> <<>>, actor |-> NoUser, target |-> NoUser,
         role |-> "keep", status |-> "keep",
         cred |-> NoCred, reset |-> NoReset, invite |-> NoInvite, claimed |-> FALSE]
RequestRow == [op : {"none", "boot", "login", "request", "revoke", "change", "patch", "disable",
                     "purge", "reset", "user", "invite", "claim", "redeem", "operator"},
               plan : Seq(Statement), actor : User \cup {NoUser}, target : User \cup {NoUser},
               role : Roles \cup {"keep"}, status : {"active", "disabled", "keep"},
               cred : Cred \cup {NoCred}, reset : Reset \cup {NoReset},
               invite : Invite \cup {NoInvite}, claimed : BOOLEAN]

TypeOK ==
  /\ users \in [User -> UserRow]
  /\ owner \in User \cup {NoUser} /\ booted \in BOOLEAN
  /\ creds \in [Cred -> CredRow]
  /\ resets \in [Reset -> ResetRow]
  /\ invites \in [Invite -> InviteRow]
  /\ halfReset \subseteq User /\ replaced \in BOOLEAN /\ begun \in 0 .. MaxRequests
  /\ reqs \in [Proc -> RequestRow]

\* An instance that has never started (perhaps upgraded from a version that
\* had no owner), or one in use, where every user has a session.
Init ==
  /\ \E roles \in InitialRoles, inUse \in BOOLEAN :
       /\ inUse => roles # <<>> /\ roles[1] = "admin"
       /\ users = [u \in User |->
                     [state |-> IF u <= Len(roles) THEN "active" ELSE "unborn",
                      role |-> IF u <= Len(roles) THEN roles[u] ELSE "user",
                      boot |-> FALSE, pwd |-> 0]]
       /\ owner = (IF inUse THEN 1 ELSE NoUser) /\ booted = inUse
       /\ creds = [c \in Cred |->
                     [state |-> IF inUse /\ c <= Len(roles) THEN "live" ELSE "free",
                      user |-> IF inUse /\ c <= Len(roles) THEN c ELSE NoUser,
                      kind |-> "session", at |-> 0]]
  /\ resets = [t \in Reset |-> [state |-> "free", user |-> NoUser, by |-> NoUser, uses |-> 0]]
  /\ invites = [t \in Invite |-> [state |-> "free", role |-> "user", by |-> NoUser, uses |-> 0]]
  /\ halfReset = {} /\ replaced = FALSE /\ reqs = [p \in Proc |-> Idle] /\ begun = 0

-----------------------------------------------------------------------------
(* Rows and requests.                                                      *)

Exists(u) == users[u].state \in {"active", "disabled"}
Unborn == {u \in User : users[u].state = "unborn"}
NextUser == CHOOSE u \in Unborn : \A w \in Unborn : u <= w
Created(role, boot) ==
  [users EXCEPT ![NextUser] = [state |-> "active", role |-> role, boot |-> boot, pwd |-> 0]]

\* first_admin: the earliest admin that is enabled.
EnabledAdmins == {u \in User : users[u].state = "active" /\ users[u].role = "admin"}
FirstAdmin == CHOOSE u \in EnabledAdmins : \A w \in EnabledAdmins : u <= w

LiveTokens(u) == {c \in Cred : creds[c].user = u /\ creds[c].kind = "device"
                                 /\ creds[c].state = "live"}
\* Weaker: only browser sessions.
RevokedInBrowsers(u, kinds) ==
  [c \in Cred |-> IF creds[c].user = u /\ "session" \in kinds /\ creds[c].kind = "session"
                    THEN [creds[c] EXCEPT !.state = "revoked"] ELSE creds[c]]
\* UPDATE ... SET revoked_at = COALESCE(revoked_at, now) WHERE user_id = u
Revoked(u, kinds) ==
  [c \in Cred |-> IF creds[c].user = u /\ creds[c].kind \in kinds /\ creds[c].state = "live"
                    THEN [creds[c] EXCEPT !.state = "revoked"] ELSE creds[c]]
DeletedCreds(u, kind) ==
  [c \in Cred |-> IF creds[c].user = u /\ creds[c].kind = kind
                    THEN [creds[c] EXCEPT !.state = "deleted"] ELSE creds[c]]
WithPassword(u) == [users EXCEPT ![u].pwd = @ + 1]

At(p, s) == reqs[p].plan # <<>> /\ Head(reqs[p].plan) = s
End(p) == reqs' = [reqs EXCEPT ![p] = Idle]
Continue(p, r) == reqs' = [reqs EXCEPT ![p] = r]
\* The next statement, or the end of the request after its last one.
Advance(p) == Continue(p, IF Len(reqs[p].plan) = 1 THEN Idle
                          ELSE [reqs[p] EXCEPT !.plan = Tail(@)])
Begin(p, r) == /\ reqs[p].plan = <<>> /\ begun < MaxRequests
               /\ Continue(p, r) /\ begun' = begun + 1
               /\ UNCHANGED <<users, owner, booted, creds, resets, invites, halfReset, replaced>>
Offered(op) == booted /\ op \in Ops
settled == <<owner, booted, halfReset, replaced, begun>>

-----------------------------------------------------------------------------
(* ensure_first_admin, run by every process before it serves.              *)

Boot(p) == Begin(p, [Idle EXCEPT !.op = "boot", !.plan = <<"find_owner">>])

FindOwner(p) ==
  /\ At(p, "find_owner")
  /\ IF owner # NoUser /\ users[owner].state = "active"
       THEN booted' = TRUE /\ End(p)
       ELSE booted' = booted /\ Continue(p, [reqs[p] EXCEPT !.plan = <<"first_admin">>])
  /\ UNCHANGED <<users, owner, creds, resets, invites, halfReset, replaced, begun>>

LookForAdmin(p) ==
  /\ At(p, "first_admin")
  /\ Continue(p, IF EnabledAdmins # {}
                   THEN [reqs[p] EXCEPT !.target = FirstAdmin, !.plan = <<"set_owner">>]
                   ELSE [reqs[p] EXCEPT !.plan = <<"create_owner", "set_owner">>])
  /\ UNCHANGED <<users, creds, resets, invites, settled>>

\* The username is unique: if another process has taken it, this start fails.
CreateOwner(p) ==
  /\ At(p, "create_owner")
  /\ IF \E u \in User : Exists(u) /\ users[u].boot
       THEN End(p) /\ UNCHANGED users
       ELSE /\ Unborn # {} /\ users' = Created("admin", TRUE)
            /\ Continue(p, [reqs[p] EXCEPT !.target = NextUser, !.plan = Tail(@)])
  /\ UNCHANGED <<creds, resets, invites, settled>>

SetOwner(p) ==
  /\ At(p, "set_owner")
  /\ owner' = reqs[p].target /\ booted' = TRUE /\ End(p)
  /\ replaced' = (replaced \/ owner \notin {NoUser, reqs[p].target})
  /\ UNCHANGED <<users, creds, resets, invites, halfReset, begun>>

-----------------------------------------------------------------------------
(* Signing in, and the two reads that admit a request.                     *)

\* verify_login_password: an enabled user whose password is the one given.
Verified(u) == users[u].state = "active"

\* login and create_device_token: the row is read and the password verified;
\* nothing is written yet.
Login(p, u) ==
  /\ Offered("login") /\ Verified(u)
  /\ Begin(p, [Idle EXCEPT !.op = "login", !.actor = u, !.plan = <<"issue_session">>])
ConnectDevice(p, u) ==
  /\ Offered("login") /\ Verified(u)
  /\ Begin(p, [Idle EXCEPT !.op = "login", !.actor = u, !.plan = <<"issue_token">>])

\* The inserts check that the user exists and, for a device token, the limit;
\* they check neither the password nor is_disabled again.
FreeCreds == {c \in Cred : creds[c].state = "free"}
Inserted(u, kind) ==
  \E c \in Cred :
    /\ FreeCreds = c .. MaxCreds
    /\ creds' = [creds EXCEPT ![c] = [state |-> "live", user |-> u, kind |-> kind,
                                      at |-> users[u].pwd]]
Issue(p, s, allowed, kind) ==
  /\ At(p, s)
  /\ IF Exists(reqs[p].actor) /\ allowed THEN Inserted(reqs[p].actor, kind)
                                        ELSE UNCHANGED creds
  /\ End(p)
  /\ UNCHANGED <<users, resets, invites, settled>>
IssueSession(p) == Issue(p, "issue_session", TRUE, "session")
\* create_if_under_active_limit
IssueToken(p) ==
  Issue(p, "issue_token", Cardinality(LiveTokens(reqs[p].actor)) < DeviceLimit, "device")

\* require_auth reads the credential, then its user.
Present(p, c) ==
  /\ booted /\ creds[c].state = "live"
  /\ Begin(p, [Idle EXCEPT !.op = "request", !.cred = c, !.plan = <<"admit">>])

\* What an admitted user may ask for, with the statements the request needs.
Ask(u, op, plan) == [Idle EXCEPT !.op = op, !.actor = u, !.plan = plan]
\* require_admin
IsAdmin(u) == users[u].role = "admin" \/ u = owner
\* change_password gives a caller with a cookie a new session.
ChangePlan(kind) == IF kind = "session" THEN <<"change", "issue_session">> ELSE <<"change">>
AsksForSelf(u, kind) ==
  {Ask(u, "revoke", <<"revoke_session">>), Ask(u, "revoke", <<"revoke_token">>),
   Ask(u, "change", ChangePlan(kind))}
  \cup IF kind = "session" THEN {Ask(u, "revoke", <<"logout">>)} ELSE {}
\* create_user and create_invite_link: only the owner names the role admin.
MayGrant(u) == IF u = owner THEN Roles ELSE {"user"}
AsksForOthers(u) ==
  {[Ask(u, "patch", <<"read_target">>) EXCEPT !.role = f.role, !.status = f.status] :
     f \in Patches}
  \cup {Ask(u, op, <<"read_target">>) : op \in {"disable", "purge", "reset"}}
  \cup {[Ask(u, "user", <<"insert_user">>) EXCEPT !.role = r] : r \in MayGrant(u)}
  \cup {[Ask(u, "invite", <<"insert_invite">>) EXCEPT !.role = r] : r \in MayGrant(u)}

Admit(p) ==
  LET c == reqs[p].cred
      u == creds[c].user
  IN /\ At(p, "admit")
     /\ IF users[u].state # "active" THEN End(p)
        ELSE \E r \in AsksForSelf(u, creds[c].kind)
                         \cup (IF IsAdmin(u) THEN AsksForOthers(u) ELSE {}),
                t \in User :
               /\ Offered(r.op)
               /\ r.plan = <<"read_target">> \/ t = u
               /\ Continue(p, [r EXCEPT !.target = t, !.cred = c])
     /\ UNCHANGED <<users, creds, resets, invites, settled>>

-----------------------------------------------------------------------------
(* What a user does to its own account.                                    *)

RevokeOwn(p, s, c) ==
  /\ At(p, s)
  /\ creds' = [creds EXCEPT ![c].state = IF @ = "live" THEN "revoked" ELSE @]
  /\ Advance(p)
  /\ UNCHANGED <<users, resets, invites, settled>>
Owned(u, kind) == {c \in Cred : creds[c].user = u /\ creds[c].kind = kind}
Logout(p) == RevokeOwn(p, "logout", reqs[p].cred)
RevokeSession(p) == \E c \in Owned(reqs[p].actor, "session") : RevokeOwn(p, "revoke_session", c)
RevokeToken(p) == \E c \in Owned(reqs[p].actor, "device") : RevokeOwn(p, "revoke_token", c)

\* One transaction: the new hash, and every credential revoked.
ChangePassword(p) ==
  LET u == reqs[p].target
  IN /\ At(p, "change")
     /\ users[u].pwd < MaxPasswords
     /\ users' = IF Exists(u) THEN WithPassword(u) ELSE users
     /\ creds' = Revoked(u, {"session", "device"})
     /\ halfReset' = halfReset \ {u}
     /\ Advance(p)
     /\ UNCHANGED <<owner, booted, resets, invites, replaced, begun>>

-----------------------------------------------------------------------------
(* What an administrator does to another account.                          *)

\* Weaker: the owner may do anything to itself but end its account.
MayPatchExceptOwner(r, t) ==
  /\ users[t].role = "admin" /\ r.actor # owner => r.role \in {"keep", "admin"} /\ r.status = "keep"
  /\ r.role = "admin" /\ users[t].role # "admin" => r.actor = owner
  /\ t = r.actor => r.status # "disabled"

\* enforce_user_update_policy, enforce_user_disable_policy and
\* enforce_user_purge_policy, and the check of reset_password.
MayPatch(r, t) ==
  LET row == users[t]
      roleChange == r.role \notin {"keep", row.role}
      statusChange == r.status \notin {"keep", row.state}
  IN /\ t = owner => r.actor = owner /\ r.status # "disabled" /\ ~roleChange
     /\ row.role = "admin" /\ r.actor # owner => ~statusChange /\ ~roleChange
     /\ r.role = "admin" /\ row.role # "admin" => r.actor = owner
     /\ t = r.actor => r.status # "disabled"
MayRemove(r, t) == /\ t # r.actor /\ t # owner
                   /\ users[t].role = "admin" => r.actor = owner
MayReset(r, t) == t = owner => r.actor = owner

\* update_user: the fields to write are those the patch names and, for the
\* others, what the row holds now.
StatusAfter(r, row) == IF r.status = "keep" THEN row.state ELSE r.status
RevokeUserAuth == <<"revoke_sessions", "revoke_tokens">>
Patch(r, row) ==
  [r EXCEPT !.status = StatusAfter(r, row), !.role = IF @ = "keep" THEN row.role ELSE @,
            !.plan = <<"write">> \o (IF StatusAfter(r, row) = "disabled" /\ row.state # "disabled"
                                       THEN RevokeUserAuth ELSE <<>>)]
\* disable_user
Disabling(r) == [r EXCEPT !.plan = <<"disable">> \o RevokeUserAuth]
\* purge_user_account, its clips and uploads left aside
Purge(r, row) ==
  [r EXCEPT !.status = "disabled", !.role = row.role,
            !.plan = <<"write">> \o RevokeUserAuth
                     \o <<"delete_sessions", "delete_tokens", "delete_resets",
                          "clear_created_by", "delete_user">>]
Resetting(r) == [r EXCEPT !.plan = <<"insert_reset">>]

\* The row and the settings are read and the policy applied.
ReadTarget(p) ==
  LET r == reqs[p]
      t == r.target
      Go(may, next) == Continue(p, IF may THEN next ELSE Idle)
  IN /\ At(p, "read_target")
     /\ CASE ~Exists(t) -> End(p)
          [] Exists(t) /\ r.op = "patch" -> Go(MayPatch(r, t), Patch(r, users[t]))
          [] Exists(t) /\ r.op = "disable" -> Go(MayRemove(r, t), Disabling(r))
          [] Exists(t) /\ r.op = "purge" -> Go(MayRemove(r, t), Purge(r, users[t]))
          [] OTHER -> Go(MayReset(r, t), Resetting(r))
     /\ UNCHANGED <<users, creds, resets, invites, settled>>

\* update_profile writes role and is_disabled, whatever they are by now.
WriteProfile(p) ==
  LET r == reqs[p]
  IN /\ At(p, "write")
     /\ users' = IF Exists(r.target)
                   THEN [users EXCEPT ![r.target].role = r.role, ![r.target].state = r.status]
                   ELSE users
     /\ Advance(p)
     /\ UNCHANGED <<creds, resets, invites, settled>>

\* set_disabled writes is_disabled alone.
SetDisabled(p, s, state) ==
  /\ At(p, s)
  /\ users' = IF Exists(reqs[p].target) THEN [users EXCEPT ![reqs[p].target].state = state]
                                        ELSE users
  /\ Advance(p)
  /\ UNCHANGED <<creds, resets, invites, settled>>
Disable(p) == SetDisabled(p, "disable", "disabled")

RevokeAll(p, s, kind) ==
  /\ At(p, s)
  /\ creds' = Revoked(reqs[p].target, {kind})
  /\ Advance(p)
  /\ UNCHANGED <<users, resets, invites, settled>>
RevokeSessions(p) == RevokeAll(p, "revoke_sessions", "session")
RevokeTokens(p) == RevokeAll(p, "revoke_tokens", "device")

DeleteAll(p, s, kind) ==
  /\ At(p, s)
  /\ creds' = DeletedCreds(reqs[p].target, kind)
  /\ Advance(p)
  /\ UNCHANGED <<users, resets, invites, settled>>
DeleteSessions(p) == DeleteAll(p, "delete_sessions", "session")
DeleteTokens(p) == DeleteAll(p, "delete_tokens", "device")

DeleteResets(p) ==
  LET u == reqs[p].target
  IN /\ At(p, "delete_resets")
     /\ resets' = [t \in Reset |-> IF resets[t].user = u
                                     THEN [resets[t] EXCEPT !.state = "deleted"] ELSE resets[t]]
     /\ Advance(p)
     /\ UNCHANGED <<users, creds, invites, settled>>

ClearCreatedBy(p) ==
  /\ At(p, "clear_created_by")
  /\ invites' = [t \in Invite |-> IF invites[t].by = reqs[p].target
                                    THEN [invites[t] EXCEPT !.by = NoUser] ELSE invites[t]]
  /\ Advance(p)
  /\ UNCHANGED <<users, creds, resets, settled>>

\* The foreign keys of the other tables let a row go only when none names it.
Referenced(u) ==
  \/ owner = u
  \/ \E c \in Cred : creds[c].user = u /\ creds[c].state # "deleted"
  \/ \E t \in Reset : resets[t].user = u /\ resets[t].state # "deleted"
  \/ \E t \in Invite : invites[t].by = u /\ invites[t].state # "deleted"

DeleteUser(p) ==
  LET u == reqs[p].target
  IN /\ At(p, "delete_user")
     /\ users' = IF Exists(u) /\ ~Referenced(u) THEN [users EXCEPT ![u].state = "purged"]
                                                ELSE users
     /\ End(p)
     /\ UNCHANGED <<creds, resets, invites, settled>>

InsertUser(p) ==
  /\ At(p, "insert_user") /\ Unborn # {}
  /\ users' = Created(reqs[p].role, FALSE)
  /\ Advance(p)
  /\ UNCHANGED <<creds, resets, invites, settled>>

-----------------------------------------------------------------------------
(* Links: invitations and password resets.                                 *)

\* create_invite_link; created_by_user_id must name a user.
InsertInvite(p) ==
  /\ At(p, "insert_invite")
  /\ IF Exists(reqs[p].actor)
       THEN \E t \in Invite, sendEmail \in BOOLEAN :
              /\ invites[t].state = "free"
              /\ invites' = [invites EXCEPT ![t] = [state |-> "open", role |-> reqs[p].role,
                                                    by |-> reqs[p].actor, uses |-> 0]]
              /\ IF sendEmail
                   THEN Continue(p, [reqs[p] EXCEPT !.invite = t, !.plan = <<"mail">>])
                   ELSE End(p)
       ELSE UNCHANGED invites /\ End(p)
  /\ UNCHANGED <<users, creds, resets, settled>>

\* A failed mail takes the row back; the link may have been used meanwhile.
Mail(p) ==
  /\ At(p, "mail")
  /\ \/ UNCHANGED invites
     \/ invites' = [invites EXCEPT ![reqs[p].invite].state = "deleted"]
  /\ End(p)
  /\ UNCHANGED <<users, creds, resets, settled>>

\* claim_invite_link: the row is read, and claimed only if it still is open.
FollowInvite(p, t) ==
  /\ Offered("redeem") /\ invites[t].state = "open"
  /\ Begin(p, [Idle EXCEPT !.op = "claim", !.invite = t, !.plan = <<"claim">>])
Claim(p) ==
  /\ At(p, "claim")
  /\ invites' = [invites EXCEPT ![reqs[p].invite].state = IF @ = "open" THEN "claimed" ELSE @]
  /\ End(p)
  /\ UNCHANGED <<users, creds, resets, settled>>

\* redeem_reset_password with an invitation: the link itself, or the token a
\* claim of it gave out.
PresentInvite(p, t, claimed) ==
  /\ Offered("redeem")
  /\ invites[t].state \in IF claimed THEN {"claimed"} ELSE {"open", "claimed"}
  /\ Begin(p, [Idle EXCEPT !.op = "redeem", !.invite = t, !.claimed = claimed,
                           !.plan = <<"redeem_invite">>])
\* The conditional UPDATE of redeem_invitation_token.
Redeemable(t, claimed) == invites[t].state = IF claimed THEN "claimed" ELSE "open"
\* One transaction: the row is consumed and the user inserted; a username in
\* use takes both back.
RedeemInvite(p) ==
  LET t == reqs[p].invite
  IN /\ At(p, "redeem_invite")
     /\ IF Redeemable(t, reqs[p].claimed)
          THEN \/ /\ Unborn # {}
                  /\ users' = Created(invites[t].role, FALSE)
                  /\ invites' = [invites EXCEPT ![t].state = "used", ![t].uses = @ + 1]
               \/ UNCHANGED <<users, invites>>
          ELSE UNCHANGED <<users, invites>>
     /\ End(p)
     /\ UNCHANGED <<creds, resets, settled>>

InsertReset(p) ==
  /\ At(p, "insert_reset")
  /\ IF Exists(reqs[p].target)
       THEN \E t \in Reset :
              /\ resets[t].state = "free"
              /\ resets' = [resets EXCEPT ![t] = [state |-> "open", user |-> reqs[p].target,
                                                  by |-> reqs[p].actor, uses |-> 0]]
       ELSE UNCHANGED resets
  /\ End(p)
  /\ UNCHANGED <<users, creds, invites, settled>>

PresentReset(p, t) ==
  /\ Offered("redeem") /\ resets[t].state = "open" /\ Exists(resets[t].user)
  /\ Begin(p, [Idle EXCEPT !.op = "redeem", !.reset = t, !.target = resets[t].user,
                           !.plan = <<"redeem_reset">>])
\* Weaker: without used_at IS NULL, which the handler has checked.
ResetUnexpired(t) == resets[t].state \in {"open", "used"}
\* The conditional UPDATE of redeem_reset_password_token.
ResetIsOpen(t) == resets[t].state = "open"
RedeemReset(p) ==
  LET t == reqs[p].reset
      u == reqs[p].target
  IN /\ At(p, "redeem_reset")
     /\ IF ResetIsOpen(t)
          THEN /\ users[u].pwd < MaxPasswords
               /\ resets' = [resets EXCEPT ![t].state = "used", ![t].uses = @ + 1]
               /\ users' = WithPassword(u)
               /\ creds' = Revoked(u, {"session", "device"})
               /\ halfReset' = halfReset \ {u}
          ELSE UNCHANGED <<resets, users, creds, halfReset>>
     /\ End(p)
     /\ UNCHANGED <<owner, booted, invites, replaced, begun>>

ExpireReset(t) == /\ resets[t].state = "open"
                  /\ resets' = [resets EXCEPT ![t].state = "expired"]
                  /\ UNCHANGED <<users, creds, invites, reqs, settled>>
ExpireInvite(t) == /\ invites[t].state \in {"open", "claimed"}
                   /\ invites' = [invites EXCEPT ![t].state = "expired"]
                   /\ UNCHANGED <<users, creds, resets, reqs, settled>>

-----------------------------------------------------------------------------
(* clipline-cloud-server admin reset-password, a process of its own.       *)

OperatorReset(p, u, keepDisabled) ==
  /\ "operator" \in Ops /\ Exists(u)
  /\ Begin(p, [Idle EXCEPT !.op = "operator", !.target = u,
                           !.plan = <<"set_password">>
        \o (IF users[u].state = "disabled" /\ ~keepDisabled THEN <<"enable">> ELSE <<>>)
        \o <<"revoke_sessions", "revoke_tokens", "delete_resets">>])

SetPassword(p) ==
  LET u == reqs[p].target
  IN /\ At(p, "set_password")
     /\ users[u].pwd < MaxPasswords
     /\ users' = IF Exists(u) THEN WithPassword(u) ELSE users
     /\ Advance(p)
     /\ UNCHANGED <<creds, resets, invites, settled>>
Enable(p) == SetDisabled(p, "enable", "active")

\* An operator's reset that has written the password and not yet ended.
Midway(p) == reqs[p].op = "operator" /\ ~At(p, "set_password")

\* An error of the database, or the end of the process, stops a request
\* between two statements.
Fail(p) ==
  /\ reqs[p].plan # <<>>
  /\ halfReset' = IF Midway(p) THEN halfReset \cup {reqs[p].target} ELSE halfReset
  /\ End(p)
  /\ UNCHANGED <<users, owner, booted, creds, resets, invites, replaced, begun>>

-----------------------------------------------------------------------------
Next ==
  \/ \E p \in Proc :
       \/ Boot(p) \/ FindOwner(p) \/ LookForAdmin(p) \/ CreateOwner(p) \/ SetOwner(p)
       \/ \E u \in User : \/ Login(p, u) \/ ConnectDevice(p, u)
                          \/ \E keep \in BOOLEAN : OperatorReset(p, u, keep)
       \/ \E c \in Cred : Present(p, c)
       \/ IssueSession(p) \/ IssueToken(p) \/ Admit(p)
       \/ Logout(p) \/ RevokeSession(p) \/ RevokeToken(p) \/ ChangePassword(p)
       \/ ReadTarget(p) \/ WriteProfile(p) \/ Disable(p) \/ Enable(p)
       \/ RevokeSessions(p) \/ RevokeTokens(p) \/ DeleteSessions(p) \/ DeleteTokens(p)
       \/ DeleteResets(p) \/ ClearCreatedBy(p) \/ DeleteUser(p)
       \/ InsertUser(p) \/ InsertInvite(p) \/ Mail(p) \/ InsertReset(p)
       \/ \E t \in Invite : \/ FollowInvite(p, t)
                            \/ \E claimed \in BOOLEAN : PresentInvite(p, t, claimed)
       \/ \E t \in Reset : PresentReset(p, t)
       \/ Claim(p) \/ RedeemInvite(p) \/ RedeemReset(p)
       \/ SetPassword(p) \/ Fail(p)
  \/ \E t \in Reset : ExpireReset(t)
  \/ \E t \in Invite : ExpireInvite(t)

Spec == Init /\ [][Next]_vars

-----------------------------------------------------------------------------
(* What the handlers promise.                                              *)

\* A password change ends every credential there was: whoever changes it (the
\* user, a reset link, the operator), no credential inserted under an earlier
\* password is still live, unless the operator's reset, which is no
\* transaction, is at work or stopped before its end.
OldPasswordsEndSessions ==
  \A c \in Cred :
    creds[c].state = "live" =>
      LET u == creds[c].user
      IN \/ creds[c].at = users[u].pwd
         \/ u \in halfReset
         \/ \E p \in Proc : Midway(p) /\ reqs[p].target = u

\* A link is redeemed at most once, though its row is read long before the
\* transaction that consumes it, and an invitation has two tokens.
LinksWorkOnce == /\ \A t \in Reset : resets[t].uses <= 1
                 /\ \A t \in Invite : invites[t].uses <= 1

\* Once there is an owner it is an enabled admin: no patch, disabling or purge,
\* however delayed, locks the instance out.  (set_owner_user_id overwrites
\* whatever owner there is: a start that found none, and is overtaken by
\* another start, by a promotion and by a demotion, can replace the owner
\* with an account that no longer is an admin.)
OwnerStaysEnabled ==
  owner # NoUser /\ ~replaced => users[owner].state = "active" /\ users[owner].role = "admin"

\* docs/04: only the owner modifies the owner account.  Its row changes by a
\* request of the owner, by a link the owner made, or by the operator (but for
\* an account that a racing start has made the owner meanwhile).
OnlyOwnerModifiesOwner ==
  [][owner # NoUser /\ ~replaced /\ users'[owner] # users[owner] =>
       \E p \in Proc :
         /\ reqs'[p] # reqs[p]
         /\ \/ reqs[p].actor = owner
            \/ reqs[p].op = "operator"
            \/ reqs[p].reset # NoReset /\ resets[reqs[p].reset].by = owner]_vars

\* docs/04-authentication-users-and-first-run-admin.md:146: "Only the owner can
\* create admin accounts".  A patch by another admin that names no role writes
\* back the role it has read, and so undoes a demotion made meanwhile: the
\* code does not keep it (AccountsGrant.cfg).
OnlyOwnerGrantsAdmin ==
  [][\A u \in User :
       Exists(u) /\ users[u].role = "user" /\ users'[u].role = "admin" =>
         \E p \in Proc : reqs'[p] # reqs[p] /\ reqs[p].actor = owner]_vars
=============================================================================
