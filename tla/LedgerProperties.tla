--------------------------- MODULE LedgerProperties ---------------------------
(***************************************************************************)
(* What the ledger must keep true whatever the order in which the steps of *)
(* concurrent calls fall, and what it keeps true only when calls do not    *)
(* overlap or amounts are whole cents.                                     *)
(***************************************************************************)
EXTENDS Ledger, Reports, FiniteSets

\* The chart of accounts: every row of accounts has a type, and the line for
\* retained earnings is that of no account (reporting/services.py:263-270).
ASSUME ChartAssumption == DOMAIN AccountType = Accounts /\ Retained \notin Accounts

EntryIds == DOMAIN entries

Reversal(j, i) ==
  /\ entries[j].reverses = i
  /\ entries[j].tenant = entries[i].tenant
  /\ entries[j].lines = Mirror(entries[i].lines)

ReversalsOf(i) == {j \in EntryIds : entries[j].reverses = i}

\* What is stored of the submissions that pass the balance test, and of the
\* reversals of those.
Accepted == {Stored(ls) : ls \in {s \in Submissions : PassesBalanceCheck(s)}}
Recordable == Accepted \cup {Mirror(ls) : ls \in Accepted}

J == INSTANCE Journal WITH
       journal <- entries, Workspaces <- Tenants, Days <- Dates

\* The ledger implements the append-only journal (void.py:1-7): an entry that
\* has been committed is never removed, and nothing of it ever changes but its
\* status, from POSTED to VOID, when its mirror image is already on record.
JournalSpec == J!Spec

\* The order of the two commits of void_journal_entry (void.py:119-128): a
\* voided entry without an offsetting reversal is a transaction silently lost.
VoidedIsReversed ==
  \A i \in EntryIds : entries[i].status = "VOID" =>
    \E j \in EntryIds : Reversal(j, i)

\* The other side of that order: a reversal next to an original that is still
\* POSTED is there only while the void that posted it is running, or because
\* its process stopped between the two commits.
UnfinishedVoidIsKnown ==
  \A j \in EntryIds : \A i \in EntryIds :
    entries[j].reverses = i /\ entries[i].status # "VOID" =>
      \E r \in Requests : posted[r] = j /\ pc[r] \in {"flip", "crashed"}

\* The audit trail tells the history of the ledger (core/audit.py:49-51): its
\* "post" events name every entry once, in commit order; a "void" event names
\* an entry that is VOID and a reversal of it, another one each time; and no
\* entry becomes VOID without one.
Events(action) == {k \in DOMAIN audit : audit[k].action = action}
AuditTellsLedger ==
  /\ {audit[k].entity : k \in Events("post")} = EntryIds
  /\ \A k, l \in Events("post") : k < l => audit[k].entity < audit[l].entity
  /\ \A k \in Events("void") :
       /\ audit[k].entity \in EntryIds /\ audit[k].reversal \in EntryIds
       /\ entries[audit[k].entity].status = "VOID"
       /\ Reversal(audit[k].reversal, audit[k].entity)
  /\ \A k, l \in Events("void") : audit[k].reversal = audit[l].reversal => k = l
  /\ \A i \in EntryIds : entries[i].status = "VOID" =>
       \E k \in Events("void") : audit[k].entity = i

\* Voiding a posted entry never ends in a server error: it is refused, or done
\* (test_void.py:68-72 voids one in an open period).
VoidIsAnswered ==
  \A r \in Requests : draft[r].reverses # 0 => pc[r] # "error"

\* An entry cannot be voided twice (void.py:49-50).  Calls that do not overlap
\* keep to it unless a process stops between the two commits of a void.
NoDoubleReversal ==
  (\A r \in Requests : pc[r] # "crashed") =>
    \A i \in EntryIds : \A j, k \in ReversalsOf(i) : j = k

\* Posting into a closed period is prohibited (periods.py:3-5): no step adds
\* an entry on a day that only closed periods cover when the entry is
\* committed.  Where periods overlap, one that is open may let it in.
Shut(t, d) ==
  LET found == {p \in Periods : Covers(p, t, d)}
  IN  found # {} /\ \A p \in found : closed[p]
NoPostingIntoClosedPeriod ==
  [][\A i \in DOMAIN entries' \ DOMAIN entries :
       ~Shut(entries'[i].tenant, entries'[i].date)]_vars

\* A call of one workspace writes nothing of another's: the accounts apart,
\* which only exist, an entry and the entry it reverses have one owner, and
\* so does every period a call is about to write.
OneOwnerPerCall ==
  /\ \A j \in EntryIds : entries[j].reverses # 0 =>
       entries[entries[j].reverses].tenant = entries[j].tenant
  /\ \A r \in Requests : \A p, q \in DOMAIN loaded[r] : Span[p].tenant = Span[q].tenant

\* Sum of debits equals sum of credits in every entry on record.
StoredEntriesBalance == \A i \in EntryIds : Balanced(entries[i].lines)

\* Closing a year leaves every period of it closed (periods.py:114): the list
\* that close_fiscal_year returns shows each of them so.
YearIsClosed ==
  [][\A r \in Requests : pc[r] = "close_year" /\ pc'[r] = "done" =>
       \A p \in DOMAIN loaded[r] : closed'[p]]_vars
-----------------------------------------------------------------------------
\* The days up to an as-of date, and the days of a period.
UpTo(d) == {x \in Dates : x <= d}
DaysOf(p) == {x \in Dates : Span[p].first <= x /\ x <= Span[p].last}

\* The trial balance always comes back balanced (reporting/services.py:16-21),
\* assets equal liabilities plus equity (services.py:212-216), and the rows of
\* every section that is printed or exported add up to the total below them,
\* whatever day the report is drawn up for, with voids and reversals on
\* different days.
TiesOut(es, t, days) ==
  LET sheet == BalanceSheet(es, t, days)
  IN  /\ IsBalanced(TrialBalance(es, t, days))
      /\ sheet.total_assets = sheet.total_liabilities + sheet.total_equity
      /\ \A type \in ReportTypes : LET csv == Export(type, es, t, days)
                                  IN  \A k \in DOMAIN csv : Total(csv[k].rows) = csv[k].total
BooksTieOut ==
  \A t \in Tenants, d \in Dates : TiesOut(entries, t, UpTo(d))

\* Marking an entry VOID takes nothing out of any report: a reversal, and only
\* it, changes what the reports show, on its own date and after.  VOID entries
\* are "deliberately included, not excluded" (reporting/services.py:5-14, 40).
\* The docstring of void.py:4-6 has it the other way, that the original is
\* marked VOID "so reports stop counting it"; with its reversal still counted,
\* a voided entry would then show with its sign turned round.
MarkingVoidKeepsReports ==
  [][Len(entries') = Len(entries) =>
       \A t \in Tenants, d \in Dates :
         /\ TrialBalance(entries', t, UpTo(d)) = TrialBalance(entries, t, UpTo(d))
         /\ ProfitAndLoss(entries', t, {d}) = ProfitAndLoss(entries, t, {d})]_vars

\* A closed period freezes its reports (periods.py:3-5): as long as the days of
\* a period stay shut, also by the periods it overlaps, its trial balance, its
\* profit and its rows stay what they are.
ClosedPeriodIsFrozen ==
  [][\A p \in Periods :
       LET t == Span[p].tenant
       IN  entries' # entries /\ (\A d \in DaysOf(p) : Shut(t, d) /\ Shut(t, d)') =>
             /\ TrialBalance(entries', t, DaysOf(p)) = TrialBalance(entries, t, DaysOf(p))
             /\ ProfitAndLoss(entries', t, DaysOf(p)) = ProfitAndLoss(entries, t, DaysOf(p))]_vars

\* The books of one client do not move with those of another
\* (_posted_lines_with_accounts, services.py:50-55): a step that changes the
\* entries of another workspace only leaves the reports of this one as they
\* are, though a line of any entry may name any account there is.
EntriesOf(es, t) == {<<i, es[i]>> : i \in {k \in DOMAIN es : es[k].tenant = t}}
ReportsStayApart ==
  [][\A t \in Tenants :
       entries' # entries /\ EntriesOf(entries', t) = EntriesOf(entries, t) =>
         BalanceSheet(entries', t, Dates) = BalanceSheet(entries, t, Dates)]_vars
-----------------------------------------------------------------------------
\* A void that has posted its reversal goes on to mark the original VOID,
\* unless its process stops: the two commits are never left half done by the
\* code itself.
IsReversal(j) == j \in EntryIds /\ entries[j].reverses # 0
VoidCompletes ==
  \A j \in 1..Cardinality(Requests) :
    IsReversal(j) ~>
      \/ IsReversal(j) /\ entries[entries[j].reverses].status = "VOID"
      \/ \E r \in Requests : posted[r] = j /\ pc[r] = "crashed"
=============================================================================
