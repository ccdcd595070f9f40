------------------------ MODULE RegistrationProperties ------------------------
(***************************************************************************)
(* What clients of the service may rely on when they register, log in and  *)
(* enter a workspace, whatever runs or stops beside them.                  *)
(***************************************************************************)
EXTENDS Registration

\* A workspace with all that stands in the committed tables for it.
ClientOf(w) ==
  [founders |-> {e.actor : e \in {x \in db["audit"] : x.tenant = w}},
   accounts |-> {a \in db["accounts"] : a[1] = w},
   banks    |-> {b.account : b \in {x \in db["banks"] : x.tenant = w}}]

O == INSTANCE Onboarding WITH
       users   <- {[id |-> u.id, email |-> u.email] : u \in db["users"]},
       clients <- [w \in db["workspaces"] |-> ClientOf(w)],
       members <- db["members"]

\* Seeding the chart of accounts is atomic with the creation of the workspace
\* (accounting_core/seed.py:33-35), and so is all that register inserts beside
\* it (auth/router.py:29-83): every step adds one client with its owner, under
\* an address of its own, its accounts, bank account and audit event, changes
\* members, or changes nothing that is committed.  Tax rates are no part of it:
\* register never calls seed_tax_rates, whatever seed.py:8-9 says of it.
OnboardingSpec == O!Spec

\* The inserts of a registration fail, and end it in a server error, only over
\* the address: when it belongs to someone else by then, which is what the check
\* before the insert leaves open (auth/router.py:31-48), or when it is longer
\* than its column (auth/models.py:19).  Any number of users may leave the
\* telephone out, and whoever waited for the address of a call that stopped
\* gets it.
ErrorIsTheAddress ==
  \A r \in Requests : pc[r] = "error" =>
    \/ \E u \in db["users"] : u.email = asked[r] /\ u.id # r
    \/ asked[r] \in TooLong

\* A token admits to nothing that the workspace switcher would not list
\* (auth/router.py:105-115), whether it was issued by a registration or a
\* login and whoever joined what meanwhile, and to no client half set up.
AdmittedIsListed ==
  \A r \in Requests : \A w \in db["workspaces"] : Admits(token[r], w) =>
    /\ \E m \in db["members"] : m.user = token[r].user /\ m.workspace = w
    /\ w \in Listed(token[r])
    /\ \E u \in Requests : ClientOf(w) = O!Whole(w, u)

\* An owner of one client who is a viewer of another reads the audit trail of
\* the first only (dependencies.py:53-57), also with a token that was issued
\* when he was an owner of both.
TrailNeedsRoleThere ==
  \A r \in Requests : \A m \in db["members"] :
    token[r] # NoToken /\ m.user = token[r].user /\ m.role = "viewer" =>
      ~AdmitsAdmin(token[r], m.workspace)

\* Waiting for another's insert of the same address ends, also when the process
\* that holds the index entry stops: a call that has begun ends.
CallsEnd == \A r \in Requests : Running(r) ~> ~Running(r)
=============================================================================
