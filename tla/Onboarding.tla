------------------------------ MODULE Onboarding ------------------------------
(***************************************************************************)
(* What registration promises, as a user of the service sees it: a client  *)
(* appears with its founder, chart of accounts and bank account, or not at *)
(* all (seed.py:33-35 of modules/accounting_core: the chart is seeded with *)
(* the workspace or neither is), an e-mail address has one account, and    *)
(* nothing of these but the members of a client ever changes afterwards.   *)
(* Tax rates are promised by seed.py:1-10 as well, but register does not   *)
(* call seed_tax_rates: a new client has none, and none are part of Whole. *)
(***************************************************************************)
CONSTANTS
  Chart, BankCode,   \* codes of the chart of accounts; that of the bank
  Roles              \* roles a member may have

VARIABLES
  users,      \* [id, email]
  clients,    \* for each workspace what belongs to it
  members     \* [user, workspace, role]

vars == <<users, clients, members>>

Init == users = {} /\ clients = <<>> /\ members = {}

\* The client named w that user u has founded, with all that register inserts
\* for it: an account's id is its workspace and its code.
Whole(w, u) ==
  [founders |-> {u},
   accounts |-> {w} \X Chart,
   banks    |-> {w} \X (Chart \cap {BankCode})]

Onboard(w, u, email) ==
  /\ w \notin DOMAIN clients
  /\ \A other \in users : other.id # u /\ other.email # email
  /\ users' = users \cup {[id |-> u, email |-> email]}
  /\ clients' = [v \in DOMAIN clients \cup {w} |->
                   IF v = w THEN Whole(w, u) ELSE clients[v]]
  /\ members' = members \cup {[user |-> u, workspace |-> w, role |-> "owner"]}

\* Members come, and change roles; none goes.
Regroup ==
  /\ members' \subseteq [user : {u.id : u \in users}, workspace : DOMAIN clients,
                         role : Roles]
  /\ \A m \in members : \E n \in members' :
       n.user = m.user /\ n.workspace = m.workspace
  /\ UNCHANGED <<users, clients>>

\* A machine that adds one user at a time: the newcomer is the one that is now
\* there and was not.
Next ==
  \/ \E new \in users' \ users : \E w \in DOMAIN clients' \ DOMAIN clients :
       Onboard(w, new.id, new.email)
  \/ Regroup

Spec == Init /\ [][Next]_vars
=============================================================================
