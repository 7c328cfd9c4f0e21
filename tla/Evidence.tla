------------------------------ MODULE Evidence ------------------------------
(***************************************************************************)
(* An operator collects the evidence pack of                               *)
(* PHASE5A_LEDGER_REPLAY_FINALITY.md from the API, in the order of its     *)
(* list, while the validators go on settling: the pages of /v1/blocks,     *)
(* /v1/blocks/latest, /v1/assets/{asset}/issued, a balance, the settlement *)
(* summary, the validator finality report and a camt.053 statement.  The   *)
(* sampled transactions, the second balance, the audit events and the list *)
(* of validators are left out.                                             *)
(*                                                                         *)
(* The ledger is AtomicLedger, which the settlement path implements.  What *)
(* save_snapshot commits in one transaction (blocks, transactions,         *)
(* balances, journal entries) changes in one step; every SELECT of a       *)
(* handler is a step.  The requests are authorized, and all transactions   *)
(* have been submitted before.                                             *)
(***************************************************************************)
EXTENDS LedgerRules, Consensus

CONSTANTS
  Drawn,      \* [Txs -> Nat]: the nonces of the submitted transactions
  Account, Asset,
  PageLimit,  \* limit of the pages of blocks
  ScanLimit   \* limit of the reports and of the statement

ASSUME DrawnAssumption == Drawn \in [Txs -> Nat \ {0}]
ASSUME ObservedAssumption == Account \in Accounts /\ Asset \in Assets
ASSUME LimitAssumption == PageLimit \in Nat \ {0} /\ ScanLimit \in Nat \ {0}

VARIABLES
  chain, balance, nonce,  \* the ledger
  pc,                     \* the SELECT that is next
  begin,                  \* the height when the collection began
  rows,                   \* the heights a handler has found in blocks
  pack                    \* the answers so far

Ledger == INSTANCE AtomicLedger

ledger == <<chain, balance, nonce>>
vars   == <<ledger, pc, begin, rows, pack>>

Slot == <<Account, Asset>>

EmptyPack ==
  [blocks |-> << >>, offset |-> 0, issued |-> 0, balance |-> 0,
   summary |-> [minted |-> 0, burned |-> 0, transferred |-> 0],
   finality |-> [blocks |-> 0, below |-> 0],
   closing |-> [amount |-> 0, indicator |-> "CRDT"], entries |-> {},
   latest |-> [height |-> 0, txs |-> {}]]

Init ==
  /\ chain = << >>
  /\ balance = [slot \in Slots |-> 0]
  /\ nonce = Drawn
  /\ pc = "idle" /\ begin = 0 /\ rows = << >>
  /\ pack = EmptyPack

\* A handler answers, and the operator sends the next request.
Collect(part, answer, step) ==
  /\ pack' = [pack EXCEPT ![part] = answer]
  /\ pc' = step
  /\ UNCHANGED <<ledger, begin>>

-----------------------------------------------------------------------------
(* The tables.                                                             *)

\* transactions, by block_height
InBlock(h) == {chain[h][i] : i \in DOMAIN chain[h]}

\* SELECT ... FROM blocks ORDER BY height LIMIT ... OFFSET ...
BlockRows(limit, offset) ==
  LET n == IF limit < Len(chain) - offset THEN limit ELSE Len(chain) - offset
  IN  [i \in 1..n |-> offset + i]

\* load_transactions_for_blocks, and the blocks made from both results.
WithTransactions(heights) ==
  [i \in DOMAIN heights |-> [height |-> heights[i], txs |-> InBlock(heights[i])]]

TxsOf(blocks) == UNION {blocks[i].txs : i \in DOMAIN blocks}

\* The entries that apply_transaction books for the account: a debit, a credit, or
\* both.
Booked(t, h) ==
  {e \in {[tx |-> t, direction |-> "DEBIT", amount |-> Debit(t, Slot), height |-> h],
          [tx |-> t, direction |-> "CREDIT", amount |-> Credit(t, Slot), height |-> h]} :
     e.amount > 0}

\* journal_entries of the account and the asset
Journal == UNION {UNION {Booked(t, h) : t \in InBlock(h)} : h \in DOMAIN chain}

-----------------------------------------------------------------------------
(* GET /v1/blocks, page after page.                                        *)

BeginCollection ==
  /\ pc = "idle"
  /\ pc' = "page" /\ begin' = Len(chain)
  /\ UNCHANGED <<ledger, rows, pack>>

\* query_blocks asks for one row more than the page has.
ReadPage ==
  /\ pc = "page"
  /\ rows' = BlockRows(PageLimit + 1, pack.offset)
  /\ pc' = "page transactions"
  /\ UNCHANGED <<ledger, begin, pack>>

\* Faulty variant: the row more stays on the page.
NotTruncated(items) == items

\* PaginatedResponse::from_limit_plus_one
Truncated(items) ==
  [i \in 1..(IF Len(items) > PageLimit THEN PageLimit ELSE Len(items)) |-> items[i]]

\* The page is complete, and next_offset is there when the row more was found.
ReadPageTransactions ==
  /\ pc = "page transactions"
  /\ pack' = [pack EXCEPT !.blocks = @ \o Truncated(WithTransactions(rows)),
                          !.offset = @ + PageLimit]
  /\ pc' = IF Len(rows) > PageLimit THEN "page" ELSE "latest"
  /\ rows' = << >>
  /\ UNCHANGED <<ledger, begin>>

-----------------------------------------------------------------------------
(* GET /v1/blocks/latest loads a snapshot: the payments with their heights *)
(* first, then the blocks.  A block with no payment loaded is empty.       *)

ReadPayments ==
  /\ pc = "latest"
  /\ rows' = BlockRows(Len(chain), 0)
  /\ pc' = "latest rows"
  /\ UNCHANGED <<ledger, begin, pack>>

ReadLatest ==
  /\ pc = "latest rows"
  /\ Collect("latest",
             [height |-> Len(chain),
              txs    |-> IF Len(rows) = Len(chain) /\ chain # << >> THEN InBlock(Len(chain))
                         ELSE {}],
             "issued")
  /\ rows' = << >>

-----------------------------------------------------------------------------
(* Supply, balance and reports.                                            *)

\* Faulty variant: what is submitted counts as issued.
IssuedWhenSubmitted ==
  /\ pc = "issued"
  /\ Collect("issued", Issued(Txs, Asset), "balance")
  /\ UNCHANGED rows

\* load_payments adds up what was minted and burned.
ReadIssued ==
  /\ pc = "issued"
  /\ Collect("issued", Issued(Ledger!Settled, Asset), "balance")
  /\ UNCHANGED rows

ReadBalance ==
  /\ pc = "balance"
  /\ Collect("balance", balance[Slot], "summary")
  /\ UNCHANGED rows

\* Both reports begin with query_blocks.
ReadReportRows ==
  /\ pc \in {"summary", "finality"}
  /\ rows' = BlockRows(ScanLimit, 0)
  /\ pc' = IF pc = "summary" THEN "summary transactions" ELSE "finality validators"
  /\ UNCHANGED <<ledger, begin, pack>>

\* add_amount over the transactions of a kind
Amount(txs, kind) ==
  MapThenSumSet(LAMBDA t : Tx[t].amount,
                {t \in txs : Tx[t].kind = kind /\ Tx[t].asset = Asset})

\* Faulty variant: burns are counted with the transfers.
SummaryWithoutBurns(txs) ==
  [minted      |-> Amount(txs, "MINT"),
   burned      |-> 0,
   transferred |-> Amount(txs, "TRANSFER") + Amount(txs, "BURN")]

\* build_settlement_summary_report
SummaryOf(txs) ==
  [minted      |-> Amount(txs, "MINT"),
   burned      |-> Amount(txs, "BURN"),
   transferred |-> Amount(txs, "TRANSFER")]

ReadSummary ==
  /\ pc = "summary transactions"
  /\ Collect("summary", SummaryOf(TxsOf(WithTransactions(rows))), "finality")
  /\ rows' = << >>

\* required_phase1_finality_votes: two thirds of the active validators, rounded up,
\* whatever the engine wants.
RequiredVotes(n) == (2 * n + 2) \div 3

\* build_validator_finality_report
ReadFinality ==
  /\ pc = "finality validators"
  /\ Collect("finality",
             [blocks |-> Len(rows),
              below  |-> Cardinality({i \in DOMAIN rows :
                           Len(FinalityVotes(rows[i])) < RequiredVotes(Len(Schedule))})],
             "statement 1")
  /\ rows' = << >>

-----------------------------------------------------------------------------
(* The camt.053 statement.                                                 *)

\* Faulty variant: the balance is read after the entries.
EntriesFirst == <<"entries", "closing">>

\* get_camt053_statement: the balance, then the entries.
StatementReads == <<"closing", "entries">>

\* build_camt053_statement: an amount without a sign and CdtDbtInd.
Closing(b) == [amount    |-> IF b < 0 THEN -b ELSE b,
               indicator |-> IF b < 0 THEN "DBIT" ELSE "CRDT"]

\* camt053_entry_from_journal_entry
StatementEntry(e) == [tx        |-> e.tx, amount |-> e.amount, height |-> e.height,
                      indicator |-> IF e.direction = "CREDIT" THEN "CRDT" ELSE "DBIT"]

\* The entries come ORDER BY created_at, the clock of the validator that booked
\* them: which of them a limit cuts off is left open.
Page(entries) == IF Cardinality(entries) <= ScanLimit THEN {entries}
                                                      ELSE kSubset(ScanLimit, entries)

ReadStatement(i, next) ==
  /\ pc = IF i = 1 THEN "statement 1" ELSE "statement 2"
  /\ \/ StatementReads[i] = "closing" /\ Collect("closing", Closing(balance[Slot]), next)
     \/ /\ StatementReads[i] = "entries"
        /\ \E page \in Page(Journal) :
             Collect("entries", {StatementEntry(e) : e \in page}, next)
  /\ UNCHANGED rows

-----------------------------------------------------------------------------

\* The validators settle a block: AppendBlock of AtomicLedger, and save_snapshot
\* commits it with its transactions, balances and journal entries.
Settle ==
  /\ \E txs \in Ledger!Batches(Txs \ Ledger!Settled) :
       /\ Ledger!ValidBatch(txs, nonce)
       /\ chain' = Append(chain, txs)
       /\ balance' = Ledger!Balances(txs)[Len(txs)]
  /\ UNCHANGED <<nonce, pc, begin, rows, pack>>

Next ==
  \/ Settle
  \/ BeginCollection \/ ReadPage \/ ReadPageTransactions \/ ReadPayments \/ ReadLatest
  \/ ReadIssued \/ ReadBalance \/ ReadReportRows \/ ReadSummary \/ ReadFinality
  \/ ReadStatement(1, "statement 2") \/ ReadStatement(2, "done")

Spec == Init /\ [][Next]_vars

-----------------------------------------------------------------------------
(* Properties.                                                             *)

Walking   == {"page", "page transactions"}

\* What a reader of a statement takes an amount with its CdtDbtInd for.
Signed(line)   == IF line.indicator = "CRDT" THEN line.amount ELSE -line.amount
Net(entries)   == MapThenSumSet(Signed, entries)

\* The transactions of the first h blocks, and how many of them a report looks at.
Upto(h)  == UNION {InBlock(k) : k \in 1..h}
Found(h) == IF h < ScanLimit THEN h ELSE ScanLimit

\* What the reports say of a set of transactions.
Totals(txs) == [minted |-> Amount(txs, "MINT"), burned |-> Amount(txs, "BURN"),
                transferred |-> Amount(txs, "TRANSFER")]

\* README "next_offset is populated only when another page is available": however
\* the chain grows between and within the pages, following next_offset gives every
\* block that was there at the beginning, in order, once, and with all its
\* transactions, and no block after a gap.
WalkIsComplete ==
  /\ Len(pack.blocks) <= Len(chain)
  /\ \A i \in DOMAIN pack.blocks :
       pack.blocks[i].height = i /\ pack.blocks[i].txs = InBlock(i)
  /\ pc \notin Walking \cup {"idle"} => begin <= Len(pack.blocks)

\* A statement with all its entries adds up: its closing balance is the sum of the
\* entries up to some block, though blocks may be settled between the two reads.
StatementAddsUp ==
  pc = "done" /\ Cardinality(pack.entries) < ScanLimit =>
    \E h \in 0..Len(chain) : Signed(pack.closing) = Net({e \in pack.entries : e.height <= h})

\* Whatever is settled between the requests, the answers together tell one history of
\* the ledger: each is true of the first blocks of the chain up to some height, and an
\* answer that was asked for later is never about fewer blocks.
AnswersFollowChain ==
  pc = "done" =>
    \E latest \in Len(pack.blocks)..Len(chain) :
      /\ pack.latest.height = latest
      /\ \E issued \in latest..Len(chain) :
           /\ pack.issued = Issued(Upto(issued), Asset)
           /\ \E held \in issued..Len(chain) :
                /\ pack.balance = Replayed(Upto(held), Slot)
                /\ \E settled \in held..Len(chain) :
                     /\ pack.summary = Totals(Upto(Found(settled)))
                     /\ \E final \in settled..Len(chain) :
                          /\ pack.finality = [blocks |-> Found(final), below |-> 0]
                          /\ \E closing \in final..Len(chain) :
                               /\ Signed(pack.closing) = Replayed(Upto(closing), Slot)
                               /\ Cardinality(pack.entries) < ScanLimit =>
                                    \E booked \in closing..Len(chain) :
                                      Net(pack.entries) = Replayed(Upto(booked), Slot)

\* PHASE5A_LEDGER_REPLAY_FINALITY.md, "Required Replay Checks": replaying the collected
\* blocks gives the collected supply, balance and settlement totals, every block has
\* its votes, and the entries of the statement about these blocks add up to the balance.
\* The operator needs one thing, which the pack shows: the finality report, complete,
\* is about as many blocks as were collected.
EvidenceReconciles ==
  LET txs   == TxsOf(pack.blocks)
      n     == Len(pack.blocks)
      known == {e \in pack.entries : e.height <= n}
  IN  pc = "done" /\ pack.finality.blocks = n /\ n < ScanLimit =>
        /\ pack.latest.height = n
        /\ n > 0 => pack.latest.txs = pack.blocks[n].txs
        /\ pack.issued = Issued(txs, Asset)
        /\ pack.balance = Replayed(txs, Slot)
        /\ pack.summary = Totals(txs)
        /\ pack.summary.minted - pack.summary.burned = pack.issued
        /\ pack.finality.below = 0
        /\ Cardinality(pack.entries) < ScanLimit =>
             /\ Net(known) = pack.balance
             /\ known = pack.entries => Signed(pack.closing) = pack.balance
=============================================================================
