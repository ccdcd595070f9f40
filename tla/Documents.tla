------------------------------- MODULE Documents -------------------------------
(***************************************************************************)
(* What create_invoice, create_bill, pay_bill and approve_transaction have *)
(* in common.  Each calls post_journal_entry, which commits the session:   *)
(* the entry together with every row the handler has added so far.  The    *)
(* handler then writes what it still has to write and commits again.  A    *)
(* call may be overtaken at each await and its process may stop between    *)
(* the two commits; nothing undoes the first.                              *)
(*                                                                         *)
(* The ledger itself is Ledger.tla.  Here a posting that passes the        *)
(* balance test either commits or is refused, as it is when the period of  *)
(* its date is closed, and a refusal takes the handler's rows with it.     *)
(* Everything belongs to one workspace.                                    *)
(***************************************************************************)
EXTENDS Books

CONSTANT Requests   \* calls in a behaviour: each runs one handler, once

VARIABLES
  books,   \* journal entries in commit order: the document each is for, its lines
  audit,   \* the handlers' own audit events
  pc,      \* where each call stands
  task     \* what the handler of each call holds

docVars == <<books, audit, pc, task>>

\* A document is a kind and a place among the rows of that kind.
NoTask == [doc |-> <<"none", 0>>]
Ended  == {"done", "rejected", "crashed"}

DocumentsInit ==
  /\ pc = [r \in Requests |-> "idle"]
  /\ task = [r \in Requests |-> NoTask]

Running(r) == pc[r] \notin {"idle"} \cup Ended
Goto(r, label) == pc' = [pc EXCEPT ![r] = label]
Hold(r, t) == task' = [task EXCEPT ![r] = t]

On(account, debit, credit) ==
  [account |-> account, debit |-> debit, credit |-> credit]

\* post_journal_entry on behalf of a document.  An entry's id is its place.
Post(doc, step, lines) ==
  /\ PassesBalanceCheck(lines)
  /\ books' = Append(books, [doc |-> doc, step |-> step, lines |-> Stored(lines)])
NewEntry == Len(books) + 1

\* The entry a handler links its document to.  Slip: the newest on record.
LinkedEntryNewest(t) == Len(books)
LinkedEntry(t) == t.entry

Record(doc, action) == audit' = audit \cup {<<doc, action>>}

\* The posting is refused, or fails, and the session's transaction with it.
Refused(r, label) ==
  /\ pc[r] = label
  /\ Goto(r, "rejected")
  /\ UNCHANGED <<books, audit, task>>

\* A lookup of the handler fails: an id that is no row of the workspace.
LookupFails(r) ==
  /\ pc[r] = "idle"
  /\ Goto(r, "rejected")
  /\ UNCHANGED <<books, audit, task>>

Crash(r) ==
  /\ Running(r)
  /\ Goto(r, "crashed")
  /\ UNCHANGED <<books, audit, task>>

\* No call is under way: the next one meets what the last one left.
Quiet == \A r \in Requests : ~Running(r)
=============================================================================
