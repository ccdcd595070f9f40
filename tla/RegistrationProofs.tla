-------------------------- MODULE RegistrationProofs --------------------------
(***************************************************************************)
(* Theorems about registration, for any number of calls, addresses, roles  *)
(* and accounts in the chart, whatever runs or stops beside a call.        *)
(***************************************************************************)
EXTENDS RegistrationProperties, TLAPS

-----------------------------------------------------------------------------
(* The inductive invariant *)

Founded == db["workspaces"]

\* What a call has inserted after its first flush, and after its second.
FirstFlush(r) == [t \in Tables |-> IF t = "users" THEN {NewUser(r)}
                                   ELSE IF t = "workspaces" THEN {r} ELSE {}]
SecondFlush(r) == [t \in Tables |-> IF t = "members" THEN {Owner(r)}
                                    ELSE IF t = "accounts" THEN {r} \X Chart
                                    ELSE FirstFlush(r)[t]]

\* A transaction holds what its call has inserted, and nothing before or after.
SessionAt(r, label) == CASE label = "seed"   -> FirstFlush(r)
                         [] label = "commit" -> SecondFlush(r)
                         [] OTHER            -> NoRows
SessionsOK == session = [r \in Requests |-> SessionAt(r, pc[r])]

BankOf(r) == {[tenant |-> r, account |-> a] : a \in {r} \X (Chart \cap {BankCode})}

\* The tables hold the same workspaces, each with everything.
TablesOK ==
  /\ DOMAIN db = Tables /\ db = [t \in Tables |-> db[t]]
  /\ Founded \subseteq Requests
  /\ db["users"] = {NewUser(r) : r \in Founded}
  /\ db["accounts"] = Founded \X Chart
  /\ db["banks"] = UNION {BankOf(r) : r \in Founded}
  /\ db["audit"] = {[tenant |-> r, actor |-> r] : r \in Founded}

\* One role to a member, and each founder a member of his own.
MembersOK ==
  /\ db["members"] \subseteq [user : Founded, workspace : Founded, role : Roles]
  /\ \A m, n \in db["members"] : m.user = n.user /\ m.workspace = n.workspace => m = n
  /\ \A w \in Founded : \E m \in db["members"] : m.user = w /\ m.workspace = w

\* Where a call stands says whether it has founded its workspace.
FoundersOK ==
  \A r \in Requests :
    /\ pc[r] \in {"idle", "insert", "seed", "commit"} => r \notin Founded
    /\ pc[r] = "answer" => r \in Founded

\* An address is claimed by one call at most, of those that have inserted it.
Claims(r) == pc[r] \in {"seed", "commit"} \/ r \in Founded
ClaimsOK ==
  \A r, q \in Requests : Claims(r) /\ Claims(q) /\ asked[r] = asked[q] => r = q

\* What a token lists, its user is still a member of.
TokensOK ==
  \A r \in Requests : token[r] # NoToken => \A w \in token[r].workspaces :
    \E m \in db["members"] : m.user = token[r].user /\ m.workspace = w

ShapesOK ==
  /\ pc = [r \in Requests |-> pc[r]] /\ token = [r \in Requests |-> token[r]]
  /\ asked \in [Requests -> Emails]

RegistrationInv ==
  /\ ShapesOK /\ SessionsOK /\ TablesOK /\ MembersOK
  /\ FoundersOK /\ ClaimsOK /\ TokensOK /\ ErrorIsTheAddress

-----------------------------------------------------------------------------
(* The steps of one call that commit nothing *)

\* A call goes on while no other moves and nothing is committed.
Moves(r, label) == pc' = [pc EXCEPT ![r] = label] /\ UNCHANGED <<db, asked, regroups>>

\* Its transaction stays what its place in the code says it is.
SessionFollows(r, label) == session' = [session EXCEPT ![r] = SessionAt(r, label)]

\* The addresses asked for never change, nor what is inserted for them.
LEMMA AskedStays ==
  ASSUME UNCHANGED asked
  PROVE  /\ \A r : NewUser(r)' = NewUser(r)
         /\ \A r, label : SessionAt(r, label)' = SessionAt(r, label)
<1>1. ASSUME NEW r PROVE NewUser(r)' = NewUser(r)
  BY DEF NewUser
<1>2. ASSUME NEW r PROVE FirstFlush(r)' = FirstFlush(r)
  BY <1>1 DEF FirstFlush
<1>3. ASSUME NEW r PROVE SecondFlush(r)' = SecondFlush(r)
  BY <1>2 DEF SecondFlush
<1>4. ASSUME NEW r, NEW label PROVE SessionAt(r, label)' = SessionAt(r, label)
  BY <1>2, <1>3 DEF SessionAt
<1>5. QED
  BY <1>1, <1>4

\* Nothing committed, nothing changed in the tables.
LEMMA TablesKept ==
  ASSUME TablesOK, MembersOK, UNCHANGED <<db, asked>>
  PROVE  TablesOK' /\ MembersOK' /\ UNCHANGED Founded
<1>1. UNCHANGED Founded
  BY DEF Founded
<1>2. {NewUser(r) : r \in Founded}' = {NewUser(r) : r \in Founded}
  BY <1>1, AskedStays
<1>3. MembersOK'
  BY <1>1 DEF MembersOK
<1>4. TablesOK'
  BY <1>1, <1>2 DEF TablesOK
<1>5. QED
  BY <1>1, <1>3, <1>4

LEMMA SessionsMove ==
  ASSUME ShapesOK, SessionsOK, NEW r \in Requests, NEW label,
         Moves(r, label), SessionFollows(r, label)
  PROVE  SessionsOK'
<1>1. \A q, at : SessionAt(q, at)' = SessionAt(q, at)
  BY AskedStays DEF Moves
<1>2. pc' = [q \in Requests |-> IF q = r THEN label ELSE pc[q]]
  BY DEF ShapesOK, Moves
<1>3. session' = [q \in Requests |-> SessionAt(q, pc'[q])]
  BY <1>2 DEF SessionsOK, SessionFollows
<1>4. QED
  BY <1>1, <1>3 DEF SessionsOK

LEMMA SessionKept ==
  ASSUME ShapesOK, SessionsOK, NEW r \in Requests, NEW label,
         pc[r] \notin {"seed", "commit"}, label \notin {"seed", "commit"},
         UNCHANGED session
  PROVE  SessionFollows(r, label)
BY DEF ShapesOK, SessionsOK, SessionFollows, SessionAt

\* It is given a token for workspaces that the token's user is a member of.
TokenIssued(r) == \E t :
  /\ token' = [token EXCEPT ![r] = t]
  /\ \A w \in t.workspaces : \E m \in db["members"] : m.user = t.user /\ m.workspace = w

\* A step that commits nothing keeps the invariant.
LEMMA CallMoves ==
  ASSUME RegistrationInv, NEW r \in Requests, NEW label,
         Moves(r, label), SessionFollows(r, label),
         UNCHANGED token \/ TokenIssued(r),
         label \in {"seed", "commit"} => pc[r] \in {"insert", "seed"},
         label = "seed" => \A q \in Requests \ {r} : Claims(q) => asked[q] # asked[r],
         label = "insert" => pc[r] = "idle",
         label \notin {"idle", "answer"},
         label = "error" => \/ \E u \in db["users"] : u.email = asked[r] /\ u.id # r
                            \/ asked[r] \in TooLong,
         label = "commit" => pc[r] = "seed"
  PROVE  RegistrationInv'
<1>. USE DEF RegistrationInv, Moves
<1>1. ShapesOK'
  BY DEF ShapesOK, TokenIssued
<1>2. SessionsOK'
  BY SessionsMove
<1>3. TablesOK' /\ MembersOK'
  BY TablesKept
<1>4. FoundersOK'
  BY DEF ShapesOK, FoundersOK, Founded
<1>5. ClaimsOK'
  BY DEF ShapesOK, ClaimsOK, Claims, Founded
<1>6. TokensOK'
  BY DEF ShapesOK, TokensOK, TokenIssued
<1>7. ErrorIsTheAddress'
  BY DEF ShapesOK, ErrorIsTheAddress
<1>8. QED
  BY <1>1, <1>2, <1>3, <1>4, <1>5, <1>6, <1>7

\* What a transaction holds, from where its call stands.
LEMMA SessionHolds ==
  ASSUME SessionsOK, NEW r \in Requests
  PROVE  /\ session[r] = SessionAt(r, pc[r])
         /\ pc[r] = "seed" => session[r] = FirstFlush(r)
         /\ pc[r] = "commit" => session[r] = SecondFlush(r)
         /\ pc[r] \notin {"seed", "commit"} => session[r] = NoRows
         /\ pc[r] \in {"seed", "commit"} => session[r]["users"] = {NewUser(r)}
<1>1. session[r] = SessionAt(r, pc[r])
  BY DEF SessionsOK
<1>2. FirstFlush(r)["users"] = {NewUser(r)} /\ SecondFlush(r)["users"] = {NewUser(r)}
  BY DEF FirstFlush, SecondFlush, Tables
<1>3. QED
  BY <1>1, <1>2 DEF SessionAt

\* Two new users clash over the address only: neither has a telephone.
LEMMA ClashIsAddress ==
  ASSUME NEW r, NEW q, Clash(NewUser(r), NewUser(q))
  PROVE  asked[r] = asked[q]
BY DEF Clash, NewUser

LEMMA RegisterInv ==
  ASSUME RegistrationInv, NEW r \in Requests, Register(r)
  PROVE  RegistrationInv'
<1>1. PICK label \in {"conflict", "insert"} : Moves(r, label)
  BY DEF Register, Goto, Moves
<1>2. pc[r] = "idle" /\ UNCHANGED <<session, token>>
  BY DEF Register
<1>3. SessionFollows(r, label)
  BY <1>2, SessionKept DEF RegistrationInv
<1>4. QED
  BY <1>1, <1>2, <1>3, CallMoves

LEMMA InsertUserInv ==
  ASSUME RegistrationInv, NEW r \in Requests, InsertUser(r)
  PROVE  RegistrationInv'
<1>1. Moves(r, "seed") /\ pc[r] = "insert" /\ UNCHANGED token
  BY DEF InsertUser, Goto, Moves
<1>2. session[r] = NoRows /\ DOMAIN session = Requests
  BY <1>1, SessionHolds DEF RegistrationInv, SessionsOK
<1>3. SessionFollows(r, "seed")
  <2>1. [NoRows EXCEPT !["users"] = {NewUser(r)}, !["workspaces"] = {r}] = FirstFlush(r)
    BY DEF NoRows, FirstFlush, Tables
  <2>2. session' = [session EXCEPT ![r] = [NoRows EXCEPT !["users"] = {NewUser(r)},
                                                         !["workspaces"] = {r}]]
    BY <1>2 DEF InsertUser
  <2>3. QED
    BY <2>1, <2>2 DEF SessionFollows, SessionAt
<1>4. ASSUME NEW q \in Requests \ {r}, Claims(q) PROVE asked[q] # asked[r]
  <2>1. CASE pc[q] \in {"seed", "commit"}
    <3>1. NewUser(q) \in session[q]["users"]
      BY <2>1, SessionHolds DEF RegistrationInv
    <3>2. QED
      BY <3>1 DEF InsertUser, IndexFree, Clash, NewUser
  <2>2. CASE q \in Founded
    <3>1. NewUser(q) \in db["users"]
      BY <2>2 DEF RegistrationInv, TablesOK
    <3>2. QED
      BY <3>1 DEF InsertUser, Clash, NewUser
  <2>3. QED
    BY <1>4, <2>1, <2>2 DEF Claims
<1>5. QED
  BY <1>1, <1>3, <1>4, CallMoves

LEMMA InsertFailsInv ==
  ASSUME RegistrationInv, NEW r \in Requests, InsertFails(r)
  PROVE  RegistrationInv'
<1>1. Moves(r, "error") /\ pc[r] = "insert" /\ UNCHANGED <<session, token>>
  BY DEF InsertFails, Goto, Moves
<1>2. SessionFollows(r, "error")
  BY <1>1, SessionKept DEF RegistrationInv
<1>3. \/ \E u \in db["users"] : u.email = asked[r] /\ u.id # r
      \/ asked[r] \in TooLong
  <2> SUFFICES ASSUME Fits(r) PROVE \E u \in db["users"] : u.email = asked[r] /\ u.id # r
    BY DEF Fits
  <2>1. PICK u \in db["users"] : Clash(NewUser(r), u)
    BY DEF InsertFails
  <2>2. PICK q \in Founded : u = NewUser(q)
    BY DEF RegistrationInv, TablesOK
  <2>3. asked[q] = asked[r]
    BY <2>1, <2>2, ClashIsAddress
  <2>4. q # r
    BY <1>1 DEF RegistrationInv, FoundersOK, TablesOK
  <2>5. QED
    BY <2>2, <2>3, <2>4 DEF NewUser
<1>4. QED
  BY <1>1, <1>2, <1>3, CallMoves

LEMMA SeedInv ==
  ASSUME RegistrationInv, NEW r \in Requests, Seed(r)
  PROVE  RegistrationInv'
<1>1. Moves(r, "commit") /\ pc[r] = "seed" /\ UNCHANGED token
  BY DEF Seed, Goto, Moves
<1>2. session[r] = FirstFlush(r)
  BY <1>1, SessionHolds DEF RegistrationInv
<1>3. [FirstFlush(r) EXCEPT !["members"] = {Owner(r)}, !["accounts"] = {r} \X Chart]
        = SecondFlush(r)
  BY DEF FirstFlush, SecondFlush, Tables
<1>4. SessionFollows(r, "commit")
  BY <1>2, <1>3 DEF Seed, Seeded, SessionFollows, SessionAt
<1>5. QED
  BY <1>1, <1>4, CallMoves

LEMMA LoginInv ==
  ASSUME RegistrationInv, NEW r \in Requests, Login(r)
  PROVE  RegistrationInv'
<1>1. PICK label \in {"rejected", "memberships"} : Moves(r, label)
  BY DEF Login, Goto, Moves
<1>2. pc[r] = "idle" /\ UNCHANGED <<session, token>>
  BY DEF Login
<1>3. SessionFollows(r, label)
  BY <1>2, SessionKept DEF RegistrationInv
<1>4. QED
  BY <1>1, <1>2, <1>3, CallMoves

LEMMA CrashInv ==
  ASSUME RegistrationInv, NEW r \in Requests, Crash(r)
  PROVE  RegistrationInv'
<1>1. Moves(r, "crashed") /\ UNCHANGED token
  BY DEF Crash, Goto, Moves
<1>2. SessionFollows(r, "crashed")
  BY DEF Crash, SessionFollows, SessionAt
<1>3. QED
  BY <1>1, <1>2, CallMoves

\* A login's token lists what its user is a member of.
LEMMA AnswerLoginInv ==
  ASSUME RegistrationInv, NEW r \in Requests, AnswerLogin(r)
  PROVE  RegistrationInv'
<1>1. Moves(r, "done") /\ pc[r] = "memberships" /\ UNCHANGED session
  BY DEF AnswerLogin, Goto, Moves
<1>2. SessionFollows(r, "done")
  BY <1>1, SessionKept DEF RegistrationInv
<1>3. PICK u \in db["users"] : \E role : token' = [token EXCEPT ![r] =
        [user |-> u.id, workspaces |-> {m.workspace : m \in MembershipsOf(u.id)},
         role |-> role]]
  BY DEF AnswerLogin, Issue
<1>r. PICK role : token' = [token EXCEPT ![r] =
        [user |-> u.id, workspaces |-> {m.workspace : m \in MembershipsOf(u.id)},
         role |-> role]]
  BY <1>3
<1>. DEFINE t == [user |-> u.id, workspaces |-> {m.workspace : m \in MembershipsOf(u.id)},
                  role |-> role]
<1>4. \A w \in t.workspaces : \E m \in db["members"] : m.user = t.user /\ m.workspace = w
  BY DEF MembershipsOf
<1>5. token' = [token EXCEPT ![r] = t]
  BY <1>r
<1>. HIDE DEF t
<1>6. TokenIssued(r)
  BY <1>4, <1>5 DEF TokenIssued
<1>7. QED
  BY <1>1, <1>2, <1>6, CallMoves

\* A registration's token lists the workspace its user has founded.
LEMMA AnswerRegistrationInv ==
  ASSUME RegistrationInv, NEW r \in Requests, AnswerRegistration(r)
  PROVE  RegistrationInv'
<1>. DEFINE t == [user |-> r, workspaces |-> {r}, role |-> "owner"]
<1>1. Moves(r, "done") /\ pc[r] = "answer" /\ UNCHANGED session
  BY DEF AnswerRegistration, Goto, Moves
<1>2. SessionFollows(r, "done")
  BY <1>1, SessionKept DEF RegistrationInv
<1>3. \A w \in t.workspaces : \E m \in db["members"] : m.user = t.user /\ m.workspace = w
  <2>1. r \in Founded
    BY <1>1 DEF RegistrationInv, FoundersOK
  <2>2. QED
    BY <2>1 DEF RegistrationInv, MembersOK
<1>4. token' = [token EXCEPT ![r] = t]
  BY DEF AnswerRegistration, Issue
<1>. HIDE DEF t
<1>5. TokenIssued(r)
  BY <1>3, <1>4 DEF TokenIssued
<1>6. QED
  BY <1>1, <1>2, <1>5, CallMoves

LEMMA ExpireTokenInv ==
  ASSUME RegistrationInv, NEW r \in Requests, ExpireToken(r)
  PROVE  RegistrationInv'
<1>. USE DEF RegistrationInv
<1>1. token' = [token EXCEPT ![r] = NoToken] /\ UNCHANGED <<db, session, pc, asked>>
  BY DEF ExpireToken
<1>2. ShapesOK' /\ TokensOK'
  BY <1>1 DEF ShapesOK, TokensOK
<1>3. SessionsOK'
  <2>1. \A q \in Requests : SessionAt(q, pc[q])' = SessionAt(q, pc[q])
    BY <1>1, AskedStays
  <2>2. QED
    BY <1>1, <2>1 DEF SessionsOK
<1>4. TablesOK' /\ MembersOK' /\ UNCHANGED Founded
  BY <1>1, TablesKept
<1>5. FoundersOK' /\ ClaimsOK' /\ ErrorIsTheAddress'
  BY <1>1, <1>4 DEF FoundersOK, ClaimsOK, Claims, ErrorIsTheAddress
<1>6. QED
  BY <1>2, <1>3, <1>4, <1>5

-----------------------------------------------------------------------------
(* The two steps that change the committed tables *)

\* What the commit of a registration adds to each table.
LEMMA CommitAdds ==
  ASSUME RegistrationInv, NEW r \in Requests, CommitRegistration(r)
  PROVE  /\ DOMAIN db' = Tables /\ db' = [t \in Tables |-> db'[t]]
         /\ r \notin Founded /\ Founded' = Founded \cup {r}
         /\ db'["users"] = db["users"] \cup {NewUser(r)}
         /\ db'["accounts"] = db["accounts"] \cup ({r} \X Chart)
         /\ db'["banks"] = db["banks"] \cup BankOf(r)
         /\ db'["audit"] = db["audit"] \cup {[tenant |-> r, actor |-> r]}
         /\ db'["members"] = db["members"] \cup {Owner(r)}
<1>1. pc[r] = "commit" /\ db' = [t \in Tables |-> db[t] \cup Completed(r)[t]]
  BY DEF CommitRegistration
<1>2. session[r] = SecondFlush(r)
  BY <1>1, SessionHolds DEF RegistrationInv
<1>3. Completed(r) = [SecondFlush(r) EXCEPT !["banks"] = BankOf(r),
                                           !["audit"] = {[tenant |-> r, actor |-> r]}]
  BY <1>2 DEF Completed, BankOf
<1>4. /\ Completed(r)["users"] = {NewUser(r)} /\ Completed(r)["workspaces"] = {r}
      /\ Completed(r)["accounts"] = {r} \X Chart /\ Completed(r)["banks"] = BankOf(r)
      /\ Completed(r)["audit"] = {[tenant |-> r, actor |-> r]}
      /\ Completed(r)["members"] = {Owner(r)}
  BY <1>3 DEF SecondFlush, FirstFlush, Tables
<1>5. r \notin Founded
  BY <1>1 DEF RegistrationInv, FoundersOK
<1>6. QED
  BY <1>1, <1>4, <1>5 DEF Founded, Tables

LEMMA CommitTables ==
  ASSUME RegistrationInv, NEW r \in Requests, CommitRegistration(r)
  PROVE  TablesOK'
<1>. USE DEF RegistrationInv
<1>1. UNCHANGED asked
  BY DEF CommitRegistration
<1>2. \A q : NewUser(q)' = NewUser(q)
  BY <1>1, AskedStays
<1>3. Founded' = Founded \cup {r} /\ Founded' \subseteq Requests
  BY CommitAdds DEF TablesOK
<1>4. db'["users"] = {NewUser(q) : q \in Founded'}
  <2>1. {NewUser(q) : q \in Founded \cup {r}} = {NewUser(q) : q \in Founded} \cup {NewUser(r)}
    OBVIOUS
  <2>2. db["users"] = {NewUser(q) : q \in Founded}
    BY DEF TablesOK
  <2>3. QED
    BY <1>3, <2>1, <2>2, CommitAdds
<1>5. db'["accounts"] = Founded' \X Chart
  BY <1>3, CommitAdds DEF TablesOK
<1>6. db'["banks"] = UNION {BankOf(q) : q \in Founded'}
  <2>1. UNION {BankOf(q) : q \in Founded \cup {r}}
          = (UNION {BankOf(q) : q \in Founded}) \cup BankOf(r)
    OBVIOUS
  <2>2. QED
    BY <1>3, <2>1, CommitAdds DEF TablesOK
<1>7. db'["audit"] = {[tenant |-> q, actor |-> q] : q \in Founded'}
  <2>1. {[tenant |-> q, actor |-> q] : q \in Founded \cup {r}}
          = {[tenant |-> q, actor |-> q] : q \in Founded} \cup {[tenant |-> r, actor |-> r]}
    OBVIOUS
  <2>2. db["audit"] = {[tenant |-> q, actor |-> q] : q \in Founded}
    BY DEF TablesOK
  <2>3. db'["audit"] = db["audit"] \cup {[tenant |-> r, actor |-> r]}
    BY CommitAdds
  <2>4. QED
    BY <1>3, <2>1, <2>2, <2>3
<1>8. QED
  BY <1>2, <1>3, <1>4, <1>5, <1>6, <1>7, CommitAdds DEF TablesOK

LEMMA CommitInv ==
  ASSUME RegistrationInv, NEW r \in Requests, CommitRegistration(r)
  PROVE  RegistrationInv'
<1>. USE DEF RegistrationInv
<1>1. /\ pc[r] = "commit" /\ pc' = [pc EXCEPT ![r] = "answer"]
      /\ session' = [session EXCEPT ![r] = NoRows]
      /\ UNCHANGED <<asked, token, regroups>>
  BY DEF CommitRegistration, Goto
<1>2. r \notin Founded /\ Founded' = Founded \cup {r}
  BY CommitAdds
<1>3. ShapesOK'
  BY <1>1 DEF ShapesOK
<1>4. SessionsOK'
  <2>1. \A q, at : SessionAt(q, at)' = SessionAt(q, at)
    BY <1>1, AskedStays
  <2>2. SessionAt(r, "answer") = NoRows
    BY DEF SessionAt
  <2>3. pc' = [q \in Requests |-> IF q = r THEN "answer" ELSE pc[q]]
    BY <1>1 DEF ShapesOK
  <2>4. session' = [q \in Requests |-> SessionAt(q, pc'[q])]
    BY <1>1, <2>2, <2>3 DEF SessionsOK
  <2>5. QED
    BY <2>1, <2>4 DEF SessionsOK
<1>5. TablesOK'
  BY CommitTables
<1>6. MembersOK'
  <2>1. db'["members"] = db["members"] \cup {Owner(r)}
    BY CommitAdds
  <2>2. Owner(r) \in [user : Founded', workspace : Founded', role : Roles]
    BY <1>2, RegistrationAssumption DEF Owner
  <2>3. \A m \in db["members"] : m.user # r
    BY <1>2 DEF MembersOK
  <2>4. Owner(r).user = r /\ Owner(r).workspace = r
    BY DEF Owner
  <2>5. QED
    BY <1>2, <2>1, <2>2, <2>3, <2>4 DEF MembersOK
<1>7. FoundersOK' /\ ClaimsOK'
  BY <1>1, <1>2 DEF ShapesOK, FoundersOK, ClaimsOK, Claims
<1>8. TokensOK'
  BY <1>1, CommitAdds DEF TokensOK
<1>9. ErrorIsTheAddress'
  BY <1>1, CommitAdds DEF ShapesOK, ErrorIsTheAddress
<1>10. QED
  BY <1>3, <1>4, <1>5, <1>6, <1>7, <1>8, <1>9

\* Members change: one row for one member, who stays a member.
LEMMA SetMemberInv ==
  ASSUME RegistrationInv, NEW user \in Founded, NEW w \in Founded, NEW role \in Roles,
         SetMember(user, w, role)
  PROVE  /\ RegistrationInv'
         /\ \A t \in Tables \ {"members"} : db'[t] = db[t]
         /\ \A m \in db["members"] : \E n \in db'["members"] :
              n.user = m.user /\ n.workspace = m.workspace
<1>. USE DEF RegistrationInv
<1>. DEFINE row == [user |-> user, workspace |-> w, role |-> role]
            kept == {m \in db["members"] : m.user # user \/ m.workspace # w}
<1>1. /\ db' = [db EXCEPT !["members"] = kept \cup {row}]
      /\ UNCHANGED <<session, pc, asked, token>>
  BY DEF SetMember
<1>2. row.user = user /\ row.workspace = w
  OBVIOUS
<1>3. row \in [user : Founded, workspace : Founded, role : Roles]
  OBVIOUS
<1>4. /\ db'["members"] = kept \cup {row} /\ DOMAIN db' = Tables
      /\ db' = [t \in Tables |-> db'[t]]
      /\ \A t \in Tables \ {"members"} : db'[t] = db[t]
  BY <1>1 DEF TablesOK, Tables
<1>. HIDE DEF row
<1>5. \A m \in db["members"] : \E n \in db'["members"] :
        n.user = m.user /\ n.workspace = m.workspace
  BY <1>2, <1>4
<1>6. UNCHANGED Founded /\ UNCHANGED db["users"]
  BY <1>4 DEF Founded, Tables
<1>7. TablesOK'
  <2>1. \A q : NewUser(q)' = NewUser(q)
    BY <1>1, AskedStays
  <2>2. {NewUser(q) : q \in Founded}' = {NewUser(q) : q \in Founded}
    BY <1>6, <2>1
  <2>3. QED
    BY <1>4, <1>6, <2>2 DEF TablesOK, Tables
<1>8. MembersOK'
  <2>1. db'["members"] \subseteq [user : Founded, workspace : Founded, role : Roles]
    BY <1>3, <1>4 DEF MembersOK
  <2>2. \A m, n \in db'["members"] : m.user = n.user /\ m.workspace = n.workspace => m = n
    BY <1>2, <1>4 DEF MembersOK
  <2>3. \A v \in Founded : \E m \in db'["members"] : m.user = v /\ m.workspace = v
    BY <1>5 DEF MembersOK
  <2>4. QED
    BY <1>6, <2>1, <2>2, <2>3 DEF MembersOK
<1>9. TokensOK'
  BY <1>1, <1>5 DEF TokensOK
<1>10. SessionsOK'
  <2>1. \A q, at : SessionAt(q, at)' = SessionAt(q, at)
    BY <1>1, AskedStays
  <2>2. QED
    BY <1>1, <2>1 DEF SessionsOK
<1>11. ShapesOK' /\ FoundersOK' /\ ClaimsOK' /\ ErrorIsTheAddress'
  BY <1>1, <1>6 DEF ShapesOK, FoundersOK, ClaimsOK, Claims, ErrorIsTheAddress
<1>12. QED
  BY <1>4, <1>5, <1>7, <1>8, <1>9, <1>10, <1>11

-----------------------------------------------------------------------------
(* Every step *)

LEMMA RegistrationInvInit == Init => RegistrationInv
<1> SUFFICES ASSUME Init PROVE RegistrationInv
  OBVIOUS
<1>1. db = [t \in Tables |-> {}] /\ Founded = {}
  BY DEF Init, NoRows, Founded, Tables
<1>2. /\ \A r \in Requests : pc[r] = "idle" /\ token[r] = NoToken
      /\ session = [r \in Requests |-> NoRows] /\ ShapesOK
  BY DEF Init, ShapesOK
<1>3. SessionsOK
  BY <1>2 DEF SessionsOK, SessionAt
<1>4. TablesOK
  <2>1. {NewUser(r) : r \in {}} = {} /\ UNION {BankOf(r) : r \in {}} = {}
        /\ {[tenant |-> r, actor |-> r] : r \in {}} = {}
    OBVIOUS
  <2>2. QED
    BY <1>1, <2>1 DEF TablesOK, Tables
<1>5. MembersOK /\ FoundersOK /\ ClaimsOK /\ TokensOK /\ ErrorIsTheAddress
  BY <1>1, <1>2 DEF MembersOK, FoundersOK, ClaimsOK, Claims, TokensOK,
                    ErrorIsTheAddress, Tables
<1>6. QED
  BY <1>2, <1>3, <1>4, <1>5 DEF RegistrationInv

\* A change of members is one of a user, a workspace and a role.
LEMMA MembersChange ==
  ASSUME RegistrationInv, NEW u \in db["users"]
  PROVE  u.id \in Founded
<1>1. PICK q \in Founded : u = NewUser(q)
  BY DEF RegistrationInv, TablesOK
<1>2. QED
  BY <1>1 DEF NewUser

LEMMA RegistrationInvNext == RegistrationInv /\ [Next]_vars => RegistrationInv'
<1> SUFFICES ASSUME RegistrationInv, [Next]_vars PROVE RegistrationInv'
  OBVIOUS
<1>1. ASSUME NEW r \in Requests, Register(r) \/ Login(r) \/ Crash(r) \/ ExpireToken(r)
      PROVE RegistrationInv'
  BY <1>1, RegisterInv, LoginInv, CrashInv, ExpireTokenInv
<1>2. ASSUME NEW r \in Requests, Advance(r) PROVE RegistrationInv'
  BY <1>2, InsertUserInv, InsertFailsInv, SeedInv, CommitInv, AnswerRegistrationInv,
     AnswerLoginInv DEF Advance
<1>3. ASSUME NEW u \in db["users"], NEW w \in db["workspaces"], NEW role \in Roles,
             SetMember(u.id, w, role)
      PROVE RegistrationInv'
  BY <1>3, MembersChange, SetMemberInv DEF Founded
<1>4. CASE UNCHANGED vars
  <2>1. SessionsOK'
    <3>1. \A q, at : SessionAt(q, at)' = SessionAt(q, at)
      BY <1>4, AskedStays DEF vars
    <3>2. QED
      BY <1>4, <3>1 DEF RegistrationInv, SessionsOK, vars
  <2>2. TablesOK' /\ MembersOK' /\ UNCHANGED Founded
    BY <1>4, TablesKept DEF RegistrationInv, vars
  <2>3. QED
    BY <1>4, <2>1, <2>2 DEF RegistrationInv, vars, ShapesOK, FoundersOK, ClaimsOK, Claims,
       TokensOK, ErrorIsTheAddress
<1>5. QED
  BY <1>1, <1>2, <1>3, <1>4 DEF Next

LEMMA RegistrationInvariant == Spec => []RegistrationInv
<1>1. QED
  BY RegistrationInvInit, RegistrationInvNext, PTL DEF Spec

-----------------------------------------------------------------------------
(* What the properties say *)

\* The rows of a workspace, out of all the tables.
LEMMA ClientIsWhole ==
  ASSUME TablesOK, NEW w \in Founded
  PROVE  ClientOf(w) = O!Whole(w, w)
<1>1. {e.actor : e \in {x \in db["audit"] : x.tenant = w}} = {w}
  <2>1. db["audit"] = {[tenant |-> q, actor |-> q] : q \in Founded}
    BY DEF TablesOK
  <2>2. [tenant |-> w, actor |-> w] \in db["audit"]
    BY <2>1
  <2>3. ASSUME NEW e \in db["audit"], e.tenant = w PROVE e.actor = w
    BY <2>1, <2>3
  <2>4. QED
    BY <2>2, <2>3
<1>2. {a \in db["accounts"] : a[1] = w} = {w} \X Chart
  BY DEF TablesOK
<1>3. {b.account : b \in {x \in db["banks"] : x.tenant = w}} = {w} \X (Chart \cap {BankCode})
  <2>1. \A x : x \in db["banks"] <=>
          \E q \in Founded : \E a \in {q} \X (Chart \cap {BankCode}) :
            x = [tenant |-> q, account |-> a]
    BY DEF TablesOK, BankOf
  <2>2. ASSUME NEW a \in {w} \X (Chart \cap {BankCode})
        PROVE  a \in {b.account : b \in {x \in db["banks"] : x.tenant = w}}
    <3>1. [tenant |-> w, account |-> a] \in db["banks"]
      BY <2>1
    <3>2. QED
      BY <3>1
  <2>3. ASSUME NEW x \in db["banks"], x.tenant = w
        PROVE  x.account \in {w} \X (Chart \cap {BankCode})
    BY <2>1, <2>3
  <2>4. QED
    BY <2>2, <2>3
<1>4. QED
  BY <1>1, <1>2, <1>3 DEF ClientOf, O!Whole

\* The inserts of a registration fail over the address alone: it is taken by
\* then, or longer than its column (auth/router.py:31-48, auth/models.py:19).
THEOREM ErrorsAreExplained == Spec => []ErrorIsTheAddress
<1>1. RegistrationInv => ErrorIsTheAddress
  BY DEF RegistrationInv
<1>2. QED
  BY <1>1, RegistrationInvariant, PTL

\* Whoever joined what meanwhile, a token admits to whole clients that its user
\* is a member of, and is shown (auth/router.py:105-115, dependencies.py:28-41).
THEOREM TokensAdmitMembers == Spec => []AdmittedIsListed
<1>1. ASSUME RegistrationInv PROVE AdmittedIsListed
  <2>1. SUFFICES ASSUME NEW r \in Requests, NEW w \in db["workspaces"], Admits(token[r], w)
        PROVE  /\ \E m \in db["members"] : m.user = token[r].user /\ m.workspace = w
               /\ w \in Listed(token[r])
               /\ \E u \in Requests : ClientOf(w) = O!Whole(w, u)
    BY DEF AdmittedIsListed
  <2>2. PICK m \in db["members"] : m.user = token[r].user /\ m.workspace = w
    BY <1>1, <2>1 DEF Admits, RegistrationInv, TokensOK
  <2>3. w \in Listed(token[r])
    BY <2>2 DEF Listed, MembershipsOf
  <2>4. ClientOf(w) = O!Whole(w, w) /\ w \in Requests
    BY <1>1, ClientIsWhole DEF RegistrationInv, TablesOK, Founded
  <2>5. QED
    BY <2>2, <2>3, <2>4
<1>2. QED
  BY <1>1, RegistrationInvariant, PTL

\* The role that counts is the member's in that workspace, now
\* (dependencies.py:53-57): a viewer there reads no audit trail there.
THEOREM ViewersReadNoTrail == Spec => []TrailNeedsRoleThere
<1>1. ASSUME RegistrationInv PROVE TrailNeedsRoleThere
  <2>1. SUFFICES ASSUME NEW r \in Requests, NEW m \in db["members"],
                        m.user = token[r].user, m.role = "viewer",
                        AdmitsAdmin(token[r], m.workspace)
        PROVE  FALSE
    BY DEF TrailNeedsRoleThere
  <2>2. PICK n \in db["members"] :
          n.user = token[r].user /\ n.workspace = m.workspace /\ n.role \in {"owner", "admin"}
    BY <2>1 DEF AdmitsAdmin
  <2>3. m = n
    BY <1>1, <2>1, <2>2 DEF RegistrationInv, MembersOK
  <2>4. QED
    BY <2>1, <2>2, <2>3
<1>2. QED
  BY <1>1, RegistrationInvariant, PTL

-----------------------------------------------------------------------------
(* Registration implements Onboarding *)

\* The users of Onboarding, from the workspaces they have founded.
Accounts == {[id |-> q, email |-> asked[q]] : q \in Founded}
Users    == {[id |-> u.id, email |-> u.email] : u \in db["users"]}
Clients  == [w \in db["workspaces"] |-> ClientOf(w)]

LEMMA UsersAreFounders == TablesOK => Users = Accounts
<1> SUFFICES ASSUME TablesOK PROVE Users = Accounts
  OBVIOUS
<1>1. \A q : NewUser(q).id = q /\ NewUser(q).email = asked[q]
  BY DEF NewUser
<1>2. db["users"] = {NewUser(q) : q \in Founded}
  BY DEF TablesOK
<1>3. Users \subseteq Accounts
  <2>1. ASSUME NEW u \in db["users"] PROVE [id |-> u.id, email |-> u.email] \in Accounts
    BY <1>1, <1>2 DEF Accounts
  <2>2. QED
    BY <2>1 DEF Users
<1>4. Accounts \subseteq Users
  <2>1. ASSUME NEW q \in Founded PROVE [id |-> q, email |-> asked[q]] \in Users
    <3>1. NewUser(q) \in db["users"]
      BY <1>2
    <3>2. [id |-> NewUser(q).id, email |-> NewUser(q).email] \in Users
      BY <3>1 DEF Users
    <3>3. QED
      BY <1>1, <3>2
  <2>2. QED
    BY <2>1 DEF Accounts
<1>5. QED
  BY <1>3, <1>4

LEMMA ClientsAreWhole == TablesOK => Clients = [w \in Founded |-> O!Whole(w, w)]
BY ClientIsWhole DEF Clients, Founded

\* Nothing committed is a stutter.
LEMMA NothingCommitted ==
  ASSUME UNCHANGED db
  PROVE  UNCHANGED O!vars
BY DEF O!vars, ClientOf

\* The commit of a registration is Onboard, with the founder for the newcomer.
LEMMA CommitOnboards ==
  ASSUME RegistrationInv, RegistrationInv', NEW r \in Requests, CommitRegistration(r)
  PROVE  O!Next
<1>. DEFINE new == [id |-> r, email |-> asked[r]]
<1>1. /\ r \notin Founded /\ Founded' = Founded \cup {r}
      /\ db'["members"] = db["members"] \cup {Owner(r)} /\ UNCHANGED asked
  BY CommitAdds DEF CommitRegistration
<1>2. Users = Accounts /\ Users' = Accounts'
  <2>1. (TablesOK => Users = Accounts)'
    BY UsersAreFounders, PTL
  <2>2. QED
    BY <2>1, UsersAreFounders DEF RegistrationInv
<1>3. Accounts' = Accounts \cup {new}
  BY <1>1 DEF Accounts
<1>4. \A other \in Users : other.id # r /\ other.email # asked[r]
  <2>1. \A q \in Founded : q # r /\ asked[q] # asked[r]
    BY <1>1 DEF RegistrationInv, ClaimsOK, Claims, TablesOK, CommitRegistration
  <2>2. QED
    BY <1>2, <2>1 DEF Accounts
<1>5. new \in Users' \ Users
  <2>1. new.id = r
    OBVIOUS
  <2>2. QED
    BY <1>2, <1>3, <1>4, <2>1
<1>6. Clients = [w \in Founded |-> O!Whole(w, w)]
  BY ClientsAreWhole DEF RegistrationInv
<1>7. Clients' = [w \in Founded' |-> O!Whole(w, w)]
  <2>1. (TablesOK => Clients = [w \in Founded |-> O!Whole(w, w)])'
    BY ClientsAreWhole, PTL
  <2>2. QED
    BY <2>1 DEF RegistrationInv, O!Whole
<1>8. DOMAIN Clients = Founded /\ r \in DOMAIN Clients' \ DOMAIN Clients
  BY <1>1, <1>6, <1>7
<1>9. Clients' = [v \in DOMAIN Clients \cup {r} |->
                    IF v = r THEN O!Whole(r, r) ELSE Clients[v]]
  BY <1>1, <1>6, <1>7, <1>8
<1>10. db["members"]' = db["members"] \cup {[user |-> r, workspace |-> r, role |-> "owner"]}
  BY <1>1 DEF Owner
<1>11. new.id = r /\ new.email = asked[r]
  OBVIOUS
<1>12. O!Onboard(r, new.id, new.email)
  <2>1. O!Onboard(r, r, asked[r])
    BY <1>2, <1>3, <1>4, <1>8, <1>9, <1>10 DEF O!Onboard, Users, Clients
  <2>2. QED
    BY <1>11, <2>1 DEF O!Onboard
<1>. HIDE DEF new
<1>13. \E u \in Users' \ Users : \E w \in DOMAIN Clients' \ DOMAIN Clients :
         O!Onboard(w, u.id, u.email)
  BY <1>5, <1>8, <1>12 DEF O!Onboard
<1>14. QED
  BY <1>13 DEF O!Next, Users, Clients

\* A change of members is a Regroup.
LEMMA MembersRegroup ==
  ASSUME RegistrationInv, RegistrationInv', NEW u \in db["users"],
         NEW w \in db["workspaces"], NEW role \in Roles, SetMember(u.id, w, role)
  PROVE  O!Next
<1>1. u.id \in Founded /\ w \in Founded
  BY MembersChange DEF Founded
<1>2. /\ \A t \in Tables \ {"members"} : db'[t] = db[t]
      /\ \A m \in db["members"] : \E n \in db'["members"] :
           n.user = m.user /\ n.workspace = m.workspace
  BY <1>1, SetMemberInv
<1>3. UNCHANGED <<Users, Clients>>
  BY <1>2 DEF Users, Clients, ClientOf, Tables
<1>4. UNCHANGED Founded
  BY <1>2 DEF Founded, Tables
<1>5. {v.id : v \in Users} = Founded
  <2>1. Users = Accounts
    BY UsersAreFounders DEF RegistrationInv
  <2>2. ASSUME NEW v \in Users PROVE v.id \in Founded
    BY <2>1 DEF Accounts
  <2>3. ASSUME NEW q \in Founded PROVE q \in {v.id : v \in Users}
    <3>1. [id |-> q, email |-> asked[q]] \in Users
      BY <2>1 DEF Accounts
    <3>2. [id |-> q, email |-> asked[q]].id = q
      OBVIOUS
    <3>3. QED
      BY <3>1, <3>2
  <2>4. QED
    BY <2>2, <2>3
<1>6. DOMAIN Clients = Founded
  BY DEF Clients, Founded
<1>7. db'["members"] \subseteq [user : {v.id : v \in Users}, workspace : DOMAIN Clients,
                               role : Roles]
  <2>1. db'["members"] \subseteq [user : Founded, workspace : Founded, role : Roles]
    BY <1>4 DEF RegistrationInv, MembersOK
  <2>2. QED
    BY <1>5, <1>6, <2>1
<1>8. O!Regroup
  BY <1>2, <1>3, <1>7 DEF O!Regroup, Users, Clients
<1>9. QED
  BY <1>8 DEF O!Next

\* Seeding the chart of accounts is atomic with the creation of the workspace
\* (accounting_core/seed.py:33-35): every step of registration adds one client
\* with its owner and all else that register inserts (auth/router.py:29-83; tax
\* rates are not among it), changes members, or commits nothing.
THEOREM RegistrationImplementsOnboarding == Spec => OnboardingSpec
<1>1. Init => O!Init
  <2>1. ASSUME Init PROVE O!Init
    <3>1. db["users"] = {} /\ db["workspaces"] = {} /\ db["members"] = {}
      BY <2>1 DEF Init, NoRows, Tables
    <3>2. [w \in {} |-> ClientOf(w)] = <<>>
      OBVIOUS
    <3>3. QED
      BY <3>1, <3>2 DEF O!Init
  <2>2. QED
    BY <2>1
<1>2. RegistrationInv /\ RegistrationInv' /\ [Next]_vars => [O!Next]_(O!vars)
  <2> SUFFICES ASSUME RegistrationInv, RegistrationInv', [Next]_vars
      PROVE  O!Next \/ UNCHANGED O!vars
    OBVIOUS
  <2>1. ASSUME NEW r \in Requests, Register(r) \/ Login(r) \/ Crash(r) \/ ExpireToken(r)
        PROVE  UNCHANGED O!vars
    BY <2>1, NothingCommitted DEF Register, Login, Crash, ExpireToken
  <2>2. ASSUME NEW r \in Requests, Advance(r) PROVE O!Next \/ UNCHANGED O!vars
    BY <2>2, NothingCommitted, CommitOnboards
       DEF Advance, InsertUser, InsertFails, Seed, AnswerRegistration, AnswerLogin
  <2>3. ASSUME NEW u \in db["users"], NEW w \in db["workspaces"], NEW role \in Roles,
               SetMember(u.id, w, role)
        PROVE  O!Next
    BY <2>3, MembersRegroup
  <2>4. CASE UNCHANGED vars
    BY <2>4, NothingCommitted DEF vars
  <2>5. QED
    BY <2>1, <2>2, <2>3, <2>4 DEF Next
<1>3. QED
  BY <1>1, <1>2, RegistrationInvariant, PTL DEF Spec, OnboardingSpec, O!Spec
=============================================================================
