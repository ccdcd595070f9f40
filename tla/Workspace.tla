------------------------------- MODULE Workspace -------------------------------
(***************************************************************************)
(* One client's workspace: the handlers of bills, invoices and bank        *)
(* transactions and the import worker, interleaved over the rows they      *)
(* share.  Properties of the whole are in WorkspaceProperties.tla.         *)
(***************************************************************************)
EXTENDS Bills, Invoices, ReviewQueue

vars == <<books, audit, pc, task, bills, vendors, invoices, txns, rules, job>>

Init == DocumentsInit /\ BillsInit /\ InvoicesInit /\ BankInit

\* A call enters one handler and from there on takes the handler's steps.
Begin(r) ==
  \/ BillsBegin(r) /\ UNCHANGED <<invoices, bankVars>>
  \/ CreateInvoice(r) /\ UNCHANGED <<billVars, bankVars>>
  \/ Approve(r) /\ UNCHANGED <<billVars, invoices>>
  \/ LookupFails(r) /\ UNCHANGED <<billVars, invoices, bankVars>>

Advance(r) ==
  \/ BillsAdvance(r) /\ UNCHANGED <<invoices, bankVars>>
  \/ InvoicesAdvance(r) /\ UNCHANGED <<billVars, bankVars>>
  \/ BankAdvance(r) /\ UNCHANGED <<billVars, invoices>>

Stop(r) == Crash(r) /\ UNCHANGED <<billVars, invoices, bankVars>>

\* The worker is a process of its own.
Worker == \E j \in Jobs : ImportStep(j) /\ UNCHANGED <<billVars, invoices>>

Next == Worker \/ \E r \in Requests : Begin(r) \/ Advance(r) \/ Stop(r)

Spec == Init /\ [][Next]_vars

\* The event loop runs a handler that can run; nothing obliges a client to
\* call, a worker to take a job, or a process to stop.
FairSpec == Spec /\ \A r \in Requests : WF_vars(Advance(r))

\* One call at a time, as in the repository's tests; the worker in between.
SerialNext ==
  Worker \/ \E r \in Requests : (Quiet /\ Begin(r)) \/ Advance(r) \/ Stop(r)
SerialSpec == Init /\ [][SerialNext]_vars
=============================================================================
