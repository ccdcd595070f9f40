------------------------------ MODULE ReviewQueue ------------------------------
(***************************************************************************)
(* Bank transactions: imported by a worker (workers/import_worker.py) that *)
(* categorizes each by the workspace's vendor rules, then approved one by  *)
(* one (banking/router.py), which posts them to the ledger and teaches a   *)
(* rule for every one that no rule had matched.                            *)
(***************************************************************************)
EXTENDS Documents, FiniteSetsExt

CONSTANTS
  Jobs,         \* statements a person may upload, each an arq job
  Statement,    \* the rows of each: [desc, amount], amount in fifths of a cent
  Matches,      \* pairs <<pattern, desc>>: the pattern occurs in the description
  Categories,   \* accounts a person may choose
  MaxTries      \* deliveries of a job: arq gives up after them

NoAccount == "none"

ASSUME BankAssumption ==
  /\ Statement \in [Jobs -> Seq([desc : STRING, amount : Int])]
  /\ MaxTries \in Nat
  /\ NoAccount \notin Categories

VARIABLES
  txns,    \* rows of bank_transactions, in commit order
  rules,   \* rows of vendor_rules, in commit order
  job      \* for each job: its state, the rules it has loaded, its deliveries

bankVars == <<txns, rules, job>>

BankInit ==
  /\ txns = <<>>
  /\ rules = <<>>
  /\ job = [j \in Jobs |-> [state |-> "absent", rules |-> <<>>, tries |-> 0]]

TxnDoc(n) == <<"txn", n>>

-----------------------------------------------------------------------------
(* import_statement and process_bank_statement *)

JobMoves(j, from, to) ==
  /\ job[j].state = from
  /\ job' = [job EXCEPT ![j].state = to]
  /\ UNCHANGED <<docVars, txns, rules>>

EnqueueImport(j) == JobMoves(j, "absent", "queued")

\* The worker reads the rules once, before any row, in no order.
LoadRules(j) ==
  /\ job[j].state = "queued" /\ job[j].tries < MaxTries
  /\ \E order \in Bijection(DOMAIN rules, DOMAIN rules) :
       job' = [job EXCEPT ![j] = [state |-> "running",
                                  rules |-> [k \in DOMAIN rules |-> rules[order[k]]],
                                  tries |-> @.tries + 1]]
  /\ UNCHANGED <<docVars, txns, rules>>

\* try_rule_match over the dict that _load_vendor_rules builds: the pattern
\* first inserted among those that occur, the account last assigned to it.
RuleMatch(desc, rs) ==
  LET hits == {i \in DOMAIN rs : <<rs[i].pattern, desc>> \in Matches}
      key  == rs[Min(hits)].pattern
  IN  IF hits = {} THEN NoAccount
      ELSE rs[Max({i \in DOMAIN rs : rs[i].pattern = key})].account

\* Slip: every transaction marked as categorized.
StatusAuto(account) == "auto"
StatusOf(account) == IF account = NoAccount THEN "needs_review" ELSE "auto"

\* get_review_queue, and the count of it in the summary over all clients.
UpForReview(txn) == txn.status \in {"ai_suggested", "needs_review"}

\* categorize_transaction: a rule's account or else a place in the queue.
Categorized(j, row) ==
  LET account == RuleMatch(row.desc, job[j].rules)
  IN  [job |-> j, desc |-> row.desc, amount |-> Numeric2(row.amount), entry |-> 0,
       suggested |-> account, status |-> StatusOf(account)]

\* What the loop adds to the session.  Slip: the rows with a rule skipped.
AddedMissesOnly(j) ==
  SelectSeq([k \in DOMAIN Statement[j] |-> Categorized(j, Statement[j][k])],
            LAMBDA txn : txn.status = "needs_review")
Added(j) == [k \in DOMAIN Statement[j] |-> Categorized(j, Statement[j][k])]

\* One commit for the whole statement.
CommitImport(j) ==
  /\ job[j].state = "running"
  /\ txns' = txns \o Added(j)
  /\ job' = [job EXCEPT ![j].state = "committed"]
  /\ UNCHANGED <<docVars, rules>>

\* A statement that does not parse, or no bank account: an exception, which
\* arq does not retry.
ImportFails(j) == JobMoves(j, "running", "failed")

\* The queue hears that the job is done.
AckJob(j) == JobMoves(j, "committed", "finished")

\* The worker stops first: the job is delivered again, from the start, unless
\* it has been too many times.
Redeliver(j) == JobMoves(j, "running", "queued") \/ JobMoves(j, "committed", "queued")
GiveUp(j) == job[j].tries = MaxTries /\ JobMoves(j, "queued", "failed")

ImportStep(j) ==
  \/ EnqueueImport(j) \/ LoadRules(j) \/ CommitImport(j) \/ AckJob(j)
  \/ ImportFails(j) \/ Redeliver(j) \/ GiveUp(j)

-----------------------------------------------------------------------------
(* approve_transaction *)

\* The caller's choice or, by default, the suggestion.
AccountFor(txn, choice) == IF choice # NoAccount THEN choice ELSE txn.suggested

\* The transaction as it is read now; whether it is approved is not asked.
Approve(r) ==
  /\ pc[r] = "idle"
  /\ \E n \in DOMAIN txns, choice \in Categories \cup {NoAccount} :
       LET account == AccountFor(txns[n], choice)
       IN  IF account = NoAccount
           THEN Goto(r, "rejected") /\ UNCHANGED task
           ELSE /\ Hold(r, [doc |-> TxnDoc(n), read |-> txns[n], account |-> account])
                /\ Goto(r, "post_txn")
  /\ UNCHANGED <<books, audit, bankVars>>

\* Money in debits the bank, money out credits it.
TxnLines(amount, account) ==
  IF amount >= 0 THEN <<On("bank", amount, 0), On(account, 0, amount)>>
  ELSE <<On("bank", 0, -amount), On(account, -amount, 0)>>

\* The first commit: the entry.
PostTxn(r) ==
  /\ pc[r] = "post_txn"
  /\ Post(task[r].doc, "approve", TxnLines(task[r].read.amount, task[r].account))
  /\ Hold(r, [doc |-> task[r].doc, read |-> task[r].read,
              account |-> task[r].account, entry |-> NewEntry])
  /\ Goto(r, IF task[r].read.status = "needs_review" THEN "find_rule" ELSE "resolve")
  /\ UNCHANGED <<audit, bankVars>>

\* A call that has looked for a rule has flushed its UPDATE with the query and
\* holds the row until it commits; another UPDATE of the row waits for it.
\* Slip: the lock outlives a process that stops.
RowFreeAfterCommit(r) ==
  \A q \in Requests \ {r} :
    pc[q] \in {"known", "learn", "crashed"} => task[q].doc # task[r].doc
RowFree(r) ==
  \A q \in Requests \ {r} :
    pc[q] \in {"known", "learn"} => task[q].doc # task[r].doc

\* The pattern is the description itself, in lower case.  Slip: not looked up.
RuleKnownNever(desc) == FALSE
RuleKnown(desc) == \E i \in DOMAIN rules : rules[i].pattern = desc

FindRule(r) ==
  /\ pc[r] = "find_rule" /\ RowFree(r)
  /\ Goto(r, IF RuleKnown(task[r].read.desc) THEN "known" ELSE "learn")
  /\ UNCHANGED <<books, audit, task, bankVars>>

\* The UPDATE writes the columns whose value differs from the one read.
\* Slips: the suggestion never written; a status the queue does not know.
ResolvedMisspelt(txn, t) ==
  [txn EXCEPT !.entry = t.entry, !.suggested = t.account, !.status = "approved"]
ResolvedSuggestionKept(txn, t) == [txn EXCEPT !.entry = t.entry, !.status = "auto"]
Resolved(txn, t) ==
  [txn EXCEPT !.entry = LinkedEntry(t),
              !.suggested = IF t.account = t.read.suggested THEN @ ELSE t.account,
              !.status = IF t.read.status = "auto" THEN @ ELSE "auto"]

\* The second commit: the transaction and the rule.
Resolve(r) ==
  /\ pc[r] \in {"known", "learn"} \/ (pc[r] = "resolve" /\ RowFree(r))
  /\ txns' = [txns EXCEPT ![task[r].doc[2]] = Resolved(@, task[r])]
  /\ rules' = IF pc[r] # "learn" THEN rules
              ELSE Append(rules, [pattern |-> task[r].read.desc,
                                  account |-> task[r].account])
  /\ Goto(r, "done")
  /\ UNCHANGED <<books, audit, task, job>>

PostingRefusedToTxn(r) ==
  /\ Refused(r, "post_txn")
  /\ UNCHANGED bankVars

BankAdvance(r) == PostTxn(r) \/ FindRule(r) \/ Resolve(r) \/ PostingRefusedToTxn(r)
=============================================================================
