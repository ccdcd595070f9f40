------------------------------- MODULE Journal -------------------------------
(***************************************************************************)
(* What the ledger promises its readers: a journal that only grows, in     *)
(* which the only change ever made to an entry is to mark it VOID, and     *)
(* that only once an entry with the mirrored lines is on record.  The      *)
(* module app/modules/accounting_core/void.py calls it the one rule that   *)
(* must never be violated.                                                 *)
(***************************************************************************)
EXTENDS Books

CONSTANTS
  Workspaces, Days, AccountIds,
  Recordable     \* the line lists that may stand in the journal

VARIABLE journal

JournalEntry == [tenant : Workspaces, date : Days, reverses : Nat,
                 status : {"DRAFT", "POSTED", "VOID"},
                 lines : Seq(Line(AccountIds))]

Init == journal = <<>>

Acceptable(e) ==
  e \in JournalEntry /\ e.status = "POSTED" /\ e.lines \in Recordable

\* j undoes i: same workspace, every line of i with its sides exchanged.
Reverses(j, i) ==
  /\ journal[j].reverses = i
  /\ journal[j].tenant = journal[i].tenant
  /\ journal[j].lines = Mirror(journal[i].lines)

\* A journal refined by a machine that grows it one entry at a time: the
\* entry is whatever now stands at the end.
Record ==
  /\ Len(journal') = Len(journal) + 1
  /\ journal' = Append(journal, journal'[Len(journal')])
  /\ Acceptable(journal'[Len(journal')])

MarkVoid(i) ==
  /\ \E j \in DOMAIN journal : Reverses(j, i)
  /\ journal' = [journal EXCEPT ![i].status = "VOID"]

Next == Record \/ \E i \in DOMAIN journal : MarkVoid(i)

Spec == Init /\ [][Next]_journal
=============================================================================
