------------------------------ MODULE MCWorkspace ------------------------------
(* Small instances of a workspace for TLC. *)
EXTENDS WorkspaceProperties, TLC

CONSTANTS r1, r2, r3

Symmetric3 == Permutations({r1, r2, r3})

Sold(quantity, price, rate) == [quantity |-> quantity, price |-> price, rate |-> rate]
On2025(lines) == [year |-> 2025, lines |-> lines]
On2026(lines) == [year |-> 2026, lines |-> lines]

\* Amounts in fifths of a cent: 50 is 0.10, and 17.5 percent of it is 0.0175.
\* 2.004 pieces at 10.00 come to 20.04; the row keeps 2.00 of them.
Taxed   == On2025(<<Sold(Piece, 50, 1750), Sold(1002, 5000, NoRate)>>)
Plain   == On2026(<<Sold(Piece, 50, NoRate)>>)
Unknown == On2025(<<Sold(Piece, 50, 9900)>>)
NoLines == On2025(<<>>)
\* The tax of a credit is negative: it has no line, and nothing balances.
Credit  == On2025(<<Sold(Piece, -50, 1750)>>)

MCRates         == {1750}
MCInvoices      == {Taxed, Plain, Unknown, NoLines, Credit}
MCNumbered      == {Taxed, Plain}
OneOpenBill     == <<40>>
NoOpenBills     == <<>>
MCBills         == {40, 13}   \* 13 is 0.026, billed and posted as 0.03
MCOneBill       == {40}

\* "kiosk" occurs in the description "kiosk park".
Row(desc, amount) == [desc |-> desc, amount |-> amount]
MCMatches    == {<<"kiosk", "kiosk">>, <<"kiosk park", "kiosk park">>,
                 <<"kiosk", "kiosk park">>}
MCCategories == {"expense", "revenue"}
TwoRows      == [j \in {"s1"} |-> <<Row("kiosk", -25), Row("kiosk park", 30)>>]
TwoAlike     == [j \in {"s1"} |-> <<Row("kiosk", -25), Row("kiosk", 30)>>]
\* A statement, and a later one in which its merchant is back.
Returning    == [j \in {"s1", "s2"} |-> <<Row("kiosk", -25)>>]
NoStatements == <<>>

None == {}
=============================================================================
