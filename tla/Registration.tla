----------------------------- MODULE Registration -----------------------------
(***************************************************************************)
(* Accounts of users and the workspaces of their clients: register and     *)
(* login of modules/auth/router.py, the chart of accounts that             *)
(* accounting_core/seed.py inserts, and the checks of dependencies.py that *)
(* a token passes at every request.                                        *)
(*                                                                         *)
(* A registration is one transaction: it inserts its rows at three points, *)
(* where only the unique index on users.email looks at what others have    *)
(* inserted and not yet committed, and publishes them all at the end.      *)
(* Rows are named for the call that inserts them.                          *)
(***************************************************************************)
EXTENDS Naturals

CONSTANTS
  Requests,      \* calls in a behaviour: each registers or logs in, once
  Emails,
  TooLong,       \* those that do not fit users.email, String(255)
  Chart,         \* codes of the jurisdiction's default chart of accounts
  Roles,         \* the roles of app/core/enums.py that a member may get
  MaxRegroups    \* bound on the changes of members

BankCode == "1020"
NoPhone  == "null"
NoToken  == [user |-> "nobody"]

ASSUME RegistrationAssumption ==
  "owner" \in Roles /\ TooLong \subseteq Emails /\ MaxRegroups \in Nat

Tables == {"users", "workspaces", "members", "accounts", "banks", "audit"}
NoRows == [t \in Tables |-> {}]

VARIABLES
  db,         \* the committed rows of each table
  session,    \* for each call the rows it has inserted and not committed
  pc,         \* where each call stands
  asked,      \* the e-mail address of each call
  token,      \* the token each call has been answered with
  regroups    \* changes of members so far

vars == <<db, session, pc, asked, token, regroups>>

Init ==
  /\ db = NoRows
  /\ session = [r \in Requests |-> NoRows]
  /\ pc = [r \in Requests |-> "idle"]
  /\ asked \in [Requests -> Emails]
  /\ token = [r \in Requests |-> NoToken]
  /\ regroups = 0

Goto(r, label) == pc' = [pc EXCEPT ![r] = label]

Registering == {"insert", "seed", "commit", "answer"}
Running(r) == pc[r] \in Registering \cup {"memberships"}

-----------------------------------------------------------------------------
(* register *)

\* Slip: a telephone number that is empty instead of none.
NewUserBlankPhone(r) == [id |-> r, email |-> asked[r], phone |-> ""]
NewUser(r) == [id |-> r, email |-> asked[r], phone |-> NoPhone]

\* The unique columns of users: any number of rows may have no telephone.
Clash(u, v) == u.email = v.email \/ (u.phone = v.phone /\ u.phone # NoPhone)

\* The check before anything is inserted.
Register(r) ==
  /\ pc[r] = "idle"
  /\ Goto(r, IF \E u \in db["users"] : u.email = asked[r] THEN "conflict" ELSE "insert")
  /\ UNCHANGED <<db, session, asked, token, regroups>>

\* The unique index makes an INSERT wait for the transaction that has inserted
\* the same value and has not ended.  Slip: one that never ends if its process
\* stops.
IndexFreeAfterCommit(r) ==
  \A q \in Requests \ {r} : pc[q] \in {"seed", "commit", "crashed"} =>
    ~Clash(NewUser(r), NewUser(q))
IndexFree(r) ==
  \A q \in Requests \ {r} : \A u \in session[q]["users"] : ~Clash(NewUser(r), u)

\* RegisterRequest does not limit the address; the column does, before the
\* index is looked at.
Fits(r) == asked[r] \notin TooLong

\* The first flush: the user and the workspace.
InsertUser(r) ==
  /\ pc[r] = "insert" /\ Fits(r) /\ IndexFree(r)
  /\ ~\E u \in db["users"] : Clash(NewUser(r), u)
  /\ session' = [session EXCEPT ![r]["users"] = {NewUser(r)},
                                ![r]["workspaces"] = {r}]
  /\ Goto(r, "seed")
  /\ UNCHANGED <<db, asked, token, regroups>>

\* The address is too long, or someone has committed it since the check: a
\* DataError or an IntegrityError that nothing handles, a server error.
InsertFails(r) ==
  /\ pc[r] = "insert"
  /\ \/ ~Fits(r)
     \/ IndexFree(r) /\ \E u \in db["users"] : Clash(NewUser(r), u)
  /\ Goto(r, "error")
  /\ UNCHANGED <<db, session, asked, token, regroups>>

Owner(r) == [user |-> r, workspace |-> r, role |-> "owner"]

\* The second flush: the membership and the chart of accounts.  Slip: the
\* seeding commits what it has inserted.
Seeded(r) == [session[r] EXCEPT !["members"] = {Owner(r)},
                                !["accounts"] = {r} \X Chart]
SeedCommits(r) ==
  /\ pc[r] = "seed"
  /\ db' = [t \in Tables |-> db[t] \cup Seeded(r)[t]]
  /\ session' = [session EXCEPT ![r] = NoRows]
  /\ Goto(r, "commit")
  /\ UNCHANGED <<asked, token, regroups>>
Seed(r) ==
  /\ pc[r] = "seed"
  /\ session' = [session EXCEPT ![r] = Seeded(r)]
  /\ Goto(r, "commit")
  /\ UNCHANGED <<db, asked, token, regroups>>

\* The bank account, if the chart has an account for it, and the audit event.
Completed(r) ==
  [session[r] EXCEPT
     !["banks"] = {[tenant |-> r, account |-> a] : a \in {r} \X (Chart \cap {BankCode})},
     !["audit"] = {[tenant |-> r, actor |-> r]}]

\* The only commit.
CommitRegistration(r) ==
  /\ pc[r] = "commit"
  /\ db' = [t \in Tables |-> db[t] \cup Completed(r)[t]]
  /\ session' = [session EXCEPT ![r] = NoRows]
  /\ Goto(r, "answer")
  /\ UNCHANGED <<asked, token, regroups>>

Issue(r, user, workspaces, role) ==
  token' = [token EXCEPT ![r] = [user |-> user, workspaces |-> workspaces, role |-> role]]

AnswerRegistration(r) ==
  /\ pc[r] = "answer"
  /\ Issue(r, r, {r}, "owner")
  /\ Goto(r, "done")
  /\ UNCHANGED <<db, session, asked, regroups>>

-----------------------------------------------------------------------------
(* login *)

\* The user with the address, and the password: right or wrong.
Login(r) ==
  /\ pc[r] = "idle"
  /\ \/ Goto(r, "rejected")
     \/ Goto(r, "memberships") /\ \E u \in db["users"] : u.email = asked[r]
  /\ UNCHANGED <<db, session, asked, token, regroups>>

\* Slip: everyone's memberships.
MembershipsOfAll(user) == db["members"]
MembershipsOf(user) == {m \in db["members"] : m.user = user}

\* The token holds the workspaces as they are now, and the role of the
\* membership that the query returns first, in no order.
AnswerLogin(r) ==
  /\ pc[r] = "memberships"
  /\ \E u \in db["users"] :
       /\ u.email = asked[r]
       /\ LET mine  == MembershipsOf(u.id)
              roles == IF mine = {} THEN {"viewer"} ELSE {m.role : m \in mine}
          IN  \E role \in roles : Issue(r, u.id, {m.workspace : m \in mine}, role)
  /\ Goto(r, "done")
  /\ UNCHANGED <<db, session, asked, regroups>>

\* ACCESS_TOKEN_TTL after it was issued, no request with it gets past
\* get_current_user.
ExpireToken(r) ==
  /\ token[r] # NoToken
  /\ token' = [token EXCEPT ![r] = NoToken]
  /\ UNCHANGED <<db, session, pc, asked, regroups>>

-----------------------------------------------------------------------------
(* What a token admits to *)

\* get_active_workspace: the token's own list, no query.
Admits(t, w) == t # NoToken /\ w \in t.workspaces

\* require_workspace_admin: the role in this workspace, as it is now.  Slip:
\* the role in the token.
AdmitsAdminByToken(t, w) == Admits(t, w) /\ t.role \in {"owner", "admin"}
AdmitsAdmin(t, w) ==
  /\ Admits(t, w)
  /\ \E m \in db["members"] :
       m.user = t.user /\ m.workspace = w /\ m.role \in {"owner", "admin"}

\* list_my_workspaces, and the rows of cross_client_summary.
Listed(t) == {m.workspace : m \in MembershipsOf(t.user)}

-----------------------------------------------------------------------------
\* No route changes members.  The role checks, and the tests of reports over
\* several clients, expect that users join other workspaces and change roles.
SetMember(user, w, role) ==
  /\ regroups < MaxRegroups
  /\ db' = [db EXCEPT !["members"] =
              {m \in @ : m.user # user \/ m.workspace # w}
                \cup {[user |-> user, workspace |-> w, role |-> role]}]
  /\ regroups' = regroups + 1
  /\ UNCHANGED <<session, pc, asked, token>>

\* The process stops or the connection drops: what was not committed is gone.
Crash(r) ==
  /\ Running(r)
  /\ session' = [session EXCEPT ![r] = NoRows]
  /\ Goto(r, "crashed")
  /\ UNCHANGED <<db, asked, token, regroups>>

Advance(r) ==
  \/ InsertUser(r) \/ InsertFails(r) \/ Seed(r) \/ CommitRegistration(r)
  \/ AnswerRegistration(r) \/ AnswerLogin(r)

Next ==
  \/ \E r \in Requests : \/ Register(r) \/ Login(r) \/ Advance(r)
                         \/ Crash(r) \/ ExpireToken(r)
  \/ \E u \in db["users"], w \in db["workspaces"], role \in Roles :
       SetMember(u.id, w, role)

Spec == Init /\ [][Next]_vars

\* The event loop runs a call that can run.
FairSpec == Spec /\ \A r \in Requests : WF_vars(Advance(r))
=============================================================================
