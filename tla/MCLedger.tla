------------------------------- MODULE MCLedger -------------------------------
(* Small instances of the ledger for TLC. *)
EXTENDS LedgerProperties, TLC

CONSTANTS r1, r2, r3, r4

Symmetric3 == Permutations({r1, r2, r3})
Symmetric4 == Permutations({r1, r2, r3, r4})

On(account, debit, credit) ==
  [account |-> account, debit |-> debit, credit |-> credit]

\* Amounts in fifths of a cent: 50 is 0.10.
Sale     == <<On("cash", 50, 0), On("sales", 0, 50)>>
Lopsided == <<On("cash", 50, 0), On("sales", 0, 45)>>
NoLines  == <<>>
Dangling == <<On("unknown", 50, 0), On("sales", 0, 50)>>
\* 0.026 against 0.024: the totals agree to the cent, the stored lines do not.
Fraction == <<On("cash", 13, 0), On("sales", 0, 12)>>

Rent     == <<On("rent", 20, 0), On("payable", 0, 20)>>

MCAccountType == [cash |-> "asset", sales |-> "revenue",
                  rent |-> "expense", payable |-> "liability"]
MCAccounts    == DOMAIN MCAccountType
MCSubmissions == {Sale, Rent, Lopsided, NoLines, Dangling}
MCSales       == {Sale}
MCFractions   == {Sale, Fraction}

MCDates  == {1, 2}
MCYearOf == <<2025, 2025>>
MCYears  == {2025, 2026}

Month(t, first, last) == [tenant |-> t, first |-> first, last |-> last]
\* One period for the first day, none for the second.
OneMonth  == [p \in {"m1"} |-> Month("acme", 1, 1)]
\* Two workspaces, acme with two periods in one year that overlap.
MCPeriods == {"m1", "m2", "b1"}
MCSpan    == [p \in MCPeriods |->
               CASE p = "m1" -> Month("acme", 1, 1)
                 [] p = "m2" -> Month("acme", 1, 2)
                 [] p = "b1" -> Month("beta", 1, 2)]
=============================================================================
