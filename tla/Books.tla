-------------------------------- MODULE Books --------------------------------
(***************************************************************************)
(* Double-entry arithmetic of app/modules/accounting_core: the lines of a  *)
(* journal entry, the balance test of post_journal_entry, what the columns *)
(* of type Numeric(18, 2) keep of an amount, and the mirrored lines of a   *)
(* reversal.  No state: the machines that use these operators hold it.     *)
(*                                                                         *)
(* An amount is an integer number of fifths of a cent (0.002 in the        *)
(* currency).  That is fine enough to tell an amount from its value        *)
(* rounded to cents and, five being odd, no amount is halfway between two  *)
(* cents, so Python's round and PostgreSQL's numeric agree on every one.   *)
(***************************************************************************)
EXTENDS Integers, Sequences, Functions

Cent == 5

\* round(x, 2): the nearest whole number of cents.
RoundCents(a) == (a + 2) \div Cent

\* What a Numeric(18, 2) column returns for an amount written to it.
Numeric2(a) == Cent * RoundCents(a)

Line(Accounts) == [account : Accounts, debit : Int, credit : Int]

TotalDebit(lines)  == SumFunction([i \in DOMAIN lines |-> lines[i].debit])
TotalCredit(lines) == SumFunction([i \in DOMAIN lines |-> lines[i].credit])

\* The test on the unrounded totals that guards every posting.  (Slip: an
\* excess of debits let through.  Here and below a slip is a definition with a
\* mistake in it, which README.md says the properties detect.)
PassesBalanceCheckOneSided(lines) ==
  RoundCents(TotalDebit(lines) - TotalCredit(lines)) >= 0
PassesBalanceCheck(lines) ==
  RoundCents(TotalDebit(lines) - TotalCredit(lines)) = 0

\* The rows of journal_lines once the lines have been inserted.
Stored(lines) ==
  [i \in DOMAIN lines |-> [account |-> lines[i].account,
                           debit   |-> Numeric2(lines[i].debit),
                           credit  |-> Numeric2(lines[i].credit)]]

\* The lines of the entry that reverses an entry.
Mirror(lines) ==
  [i \in DOMAIN lines |-> [account |-> lines[i].account,
                           debit   |-> lines[i].credit,
                           credit  |-> lines[i].debit]]

\* Debits equal credits to the last unit.
Balanced(lines) == TotalDebit(lines) = TotalCredit(lines)

\* Debits less credits of one account, the balance a report shows.
AccountBalance(a, lines) ==
  SumFunction([i \in DOMAIN lines |->
    IF lines[i].account = a THEN lines[i].debit - lines[i].credit ELSE 0])
=============================================================================
