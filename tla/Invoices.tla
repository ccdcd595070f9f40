------------------------------- MODULE Invoices -------------------------------
(***************************************************************************)
(* Invoices, app/modules/sales/services.py: numbered by a count of the     *)
(* year's invoices and posted to the ledger as they are created: accounts  *)
(* receivable against revenue and, when there is tax, GST payable.         *)
(***************************************************************************)
EXTENDS Documents, FiniteSets

CONSTANTS
  InvoiceInputs,   \* [year, lines]; a line is [quantity, price, rate]
  Rates            \* rows of tax_rates, each a rate in hundredths of a percent

ASSUME InvoicesAssumption ==
  InvoiceInputs \subseteq
    [year : Int, lines : Seq([quantity : Int, price : Int, rate : Int])]

\* A quantity need not be whole: it is counted in fifths of a hundredth, as an
\* amount is in fifths of a cent, and one piece is this many.
Piece == 100 * Cent

NoRate == -1       \* a line with no tax_rate_id

VARIABLE invoices  \* rows of invoices with their lines, in commit order

InvoicesInit == invoices = <<>>

InvoiceDoc(n) == <<"invoice", n>>

\* Slip: the count not limited to the year.
NextNumberEver(year) == Len(invoices) + 1
NextNumber(year) == Cardinality({i \in DOMAIN invoices : invoices[i].year = year}) + 1

\* An invoice without lines is refused; the number is read from what is
\* committed now.
CreateInvoice(r) ==
  /\ pc[r] = "idle"
  /\ \E input \in InvoiceInputs :
       IF input.lines = <<>>
       THEN Goto(r, "rejected") /\ UNCHANGED task
       ELSE /\ Hold(r, [doc |-> InvoiceDoc(0), input |-> input,
                        number |-> NextNumber(input.year)])
            /\ Goto(r, "post_invoice")
  /\ UNCHANGED <<books, audit, invoices>>

\* The amount of a line as it was sent, and the tax on it, each rounded to
\* cents.  The inputs have nothing halfway between two cents.
LineAmount(line) ==
  Cent * ((line.quantity * line.price + 50 * Cent * Cent) \div (Piece * Cent))
LineTax(line) ==
  IF line.rate = NoRate THEN 0
  ELSE Cent * ((LineAmount(line) * line.rate + 5000 * Cent) \div (10000 * Cent))

SumOfLines(amount(_), lines) == SumFunction([k \in DOMAIN lines |-> amount(lines[k])])
Subtotal(lines) == SumOfLines(LineAmount, lines)
TaxTotal(lines) == SumOfLines(LineTax, lines)

\* Tax that is not positive gets no line.  Slip: the tax not charged.
InvoiceLinesUntaxed(lines) ==
  <<On("receivable", Subtotal(lines), 0), On("revenue", 0, Subtotal(lines))>>
InvoiceLines(lines) ==
  <<On("receivable", Subtotal(lines) + TaxTotal(lines), 0),
    On("revenue", 0, Subtotal(lines))>>
  \o IF TaxTotal(lines) > 0 THEN <<On("gst", 0, TaxTotal(lines))>> ELSE <<>>

RatesKnown(lines) == \A k \in DOMAIN lines : lines[k].rate \in Rates \cup {NoRate}

\* The rows of invoice_lines once the lines have been inserted: quantity and
\* price each to two places, whatever the amount was computed from.
Kept(lines) ==
  [k \in DOMAIN lines |->
     [lines[k] EXCEPT !.quantity = Numeric2(@), !.price = Numeric2(@)]]

\* The first commit: the invoice, its lines and its entry.
PostInvoice(r) ==
  /\ pc[r] = "post_invoice"
  /\ LET input == task[r].input
         doc   == InvoiceDoc(Len(invoices) + 1)
     IN  /\ RatesKnown(input.lines)
         /\ Post(doc, "create", InvoiceLines(input.lines))
         /\ invoices' = Append(invoices,
              [year |-> input.year, number |-> task[r].number, entry |-> 0,
               lines |-> Kept(input.lines)])
         /\ Hold(r, [doc |-> doc, entry |-> NewEntry])
  /\ Goto(r, "link_invoice")
  /\ UNCHANGED audit

LinkInvoice(r) ==
  /\ pc[r] = "link_invoice"
  /\ invoices' = [invoices EXCEPT ![task[r].doc[2]].entry = LinkedEntry(task[r])]
  /\ Record(task[r].doc, "create")
  /\ Goto(r, "done")
  /\ UNCHANGED <<books, task>>

\* The ledger's refusal, a tax rate that is not the workspace's, or lines
\* that do not balance, as when the tax is negative.
PostingRefusedToInvoice(r) ==
  /\ Refused(r, "post_invoice")
  /\ UNCHANGED invoices

InvoicesAdvance(r) ==
  \/ PostInvoice(r) \/ LinkInvoice(r) \/ PostingRefusedToInvoice(r)
=============================================================================
