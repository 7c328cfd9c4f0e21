--------------------------- MODULE EvidenceProofs ---------------------------
(***************************************************************************)
(* The evidence pack, for every ledger, every page and scan limit and any  *)
(* number of blocks that are settled between two SELECTs.                  *)
(*                                                                         *)
(* WalkInv is about the pages of /v1/blocks and says where the walk is:    *)
(* every page before the current one was full, and the rows that were      *)
(* found for the current one follow it without a gap.                      *)
(*                                                                         *)
(* EvidenceInv adds the first blocks that each answer is about: there are  *)
(* heights, none below the one before it, and a new answer is about all    *)
(* blocks.  The sums of the reports and of the statement are taken apart   *)
(* transaction by transaction with SubsetInduction of LedgerRulesProofs.   *)
(***************************************************************************)
EXTENDS Evidence, LedgerRulesProofs, SequenceTheorems, TLAPS

Block == [height : Nat, txs : SUBSET Txs]

\* The chain and the beginning of the walk.
ChainInv == chain \in Seq(Seq(Txs)) /\ begin \in 0..Len(chain)

\* What has been collected is a prefix of the chain.
PrefixInv ==
  /\ {"blocks", "offset"} \subseteq DOMAIN pack
  /\ pack.blocks \in Seq(Block)
  /\ Len(pack.blocks) <= Len(chain)
  /\ \A i \in DOMAIN pack.blocks : pack.blocks[i].height = i /\ pack.blocks[i].txs = InBlock(i)

\* Where the walk is.
PositionInv ==
  /\ pc \in Walking \cup {"idle"} => pack.offset = Len(pack.blocks)
  /\ pc \notin Walking \cup {"idle"} => begin <= Len(pack.blocks)
  /\ pc = "page transactions" =>
       /\ rows \in Seq(Nat) /\ Len(rows) <= PageLimit + 1
       /\ pack.offset + Len(rows) <= Len(chain)
       /\ \A i \in 1..Len(rows) : rows[i] = pack.offset + i
       /\ Len(rows) <= PageLimit => begin <= pack.offset + Len(rows)

WalkInv == ChainInv /\ PrefixInv /\ PositionInv

-----------------------------------------------------------------------------

\* The invariant gives the property.
LEMMA WalkSuffices == WalkInv => WalkIsComplete
  BY DEF WalkInv, PrefixInv, PositionInv, WalkIsComplete

\* Lengths are numbers.
LEMMA WalkTypes ==
  ASSUME WalkInv
  PROVE  /\ chain \in Seq(Seq(Txs)) /\ Len(chain) \in Nat
         /\ begin \in Nat /\ begin <= Len(chain)
         /\ pack.blocks \in Seq(Block) /\ Len(pack.blocks) \in Nat
         /\ DOMAIN pack.blocks = 1..Len(pack.blocks)
         /\ Len(pack.blocks) <= Len(chain)
<1>1. chain \in Seq(Seq(Txs)) /\ begin \in 0..Len(chain)
  BY DEF WalkInv, ChainInv
<1>2. Len(chain) \in Nat
  BY <1>1
<1>3. begin \in Nat /\ begin <= Len(chain)
  BY <1>1, <1>2
<1>4. pack.blocks \in Seq(Block) /\ Len(pack.blocks) <= Len(chain)
  BY DEF WalkInv, PrefixInv
<1>5. Len(pack.blocks) \in Nat /\ DOMAIN pack.blocks = 1..Len(pack.blocks)
  BY <1>4
<1> QED
  BY <1>1, <1>2, <1>3, <1>4, <1>5

\* A step that leaves the chain and the collected blocks alone.
LEMMA PrefixKept ==
  ASSUME WalkInv, UNCHANGED <<chain, begin>>, pack'.blocks = pack.blocks,
         {"blocks", "offset"} \subseteq DOMAIN pack'
  PROVE  ChainInv' /\ PrefixInv'
<1>1. ChainInv'
  BY DEF WalkInv, ChainInv
<1>2. \A i : InBlock(i)' = InBlock(i)
  BY DEF InBlock
<1>3. PrefixInv
  BY DEF WalkInv
<1> QED
  BY <1>1, <1>2, <1>3 DEF PrefixInv

\* Nothing is collected at the start.
LEMMA WalkInit == Init => WalkInv
<1> SUFFICES ASSUME Init PROVE WalkInv
  OBVIOUS
<1>1. ChainInv
  BY DEF Init, ChainInv
<1>2. pack.blocks = << >> /\ pack.offset = 0 /\ {"blocks", "offset"} \subseteq DOMAIN pack
  BY DEF Init, EmptyPack
<1>3. PrefixInv
  BY <1>1, <1>2 DEF PrefixInv, ChainInv
<1>4. PositionInv
  BY <1>2 DEF Init, PositionInv
<1> QED
  BY <1>1, <1>3, <1>4 DEF WalkInv

\* A block is appended: what was read of the blocks before stays true.
LEMMA SettleStep == WalkInv /\ Settle => WalkInv'
<1> SUFFICES ASSUME WalkInv, Settle PROVE WalkInv'
  OBVIOUS
<1>1. chain \in Seq(Seq(Txs)) /\ begin \in 0..Len(chain)
  BY DEF WalkInv, ChainInv
<1>2. PICK txs \in Ledger!Batches(Txs \ Ledger!Settled) : chain' = Append(chain, txs)
  BY DEF Settle
<1>3. txs \in Seq(Txs)
  <2> DEFINE new == Txs \ Ledger!Settled
  <2>0. txs \in UNION {[1..n -> new] : n \in 1..Ledger!Cardinality(new)}
    BY <1>2 DEF Ledger!Batches
  <2>1. PICK n \in 1..Ledger!Cardinality(new) : txs \in [1..n -> new]
    BY <2>0
  <2>2. n \in Nat
    BY <2>1
  <2>3. txs \in [1..n -> Txs]
    BY <2>1
  <2> QED
    BY <2>2, <2>3
<1>4. UNCHANGED <<pc, begin, rows, pack>>
  BY DEF Settle
<1>5. /\ chain' \in Seq(Seq(Txs)) /\ Len(chain') = Len(chain) + 1
      /\ \A h \in 1..Len(chain) : chain'[h] = chain[h]
  BY <1>1, <1>2, <1>3
<1>6. ChainInv'
  BY <1>1, <1>4, <1>5 DEF ChainInv
<1>7. \A h \in 1..Len(chain) : InBlock(h)' = InBlock(h)
  BY <1>5 DEF InBlock
<1>8. Len(pack.blocks) \in Nat /\ DOMAIN pack.blocks = 1..Len(pack.blocks)
  BY DEF WalkInv, PrefixInv
<1>9. PrefixInv'
  <2>1. Len(pack.blocks) <= Len(chain) /\ Len(chain) \in Nat
    BY <1>1 DEF WalkInv, PrefixInv
  <2>2. \A i \in DOMAIN pack.blocks : i \in 1..Len(chain)
    BY <1>8, <2>1
  <2>3. \A i \in DOMAIN pack.blocks : pack.blocks[i].txs = InBlock(i)'
    BY <1>7, <2>2 DEF WalkInv, PrefixInv
  <2>4. Len(pack.blocks) <= Len(chain')
    BY <1>5, <1>8, <2>1
  <2> QED
    BY <1>4, <2>3, <2>4 DEF WalkInv, PrefixInv
<1>10. PositionInv'
  <2>1. ASSUME pc = "page transactions"
        PROVE  pack.offset + Len(rows) <= Len(chain')
    <3>1. /\ pack.offset \in Nat /\ Len(rows) \in Nat /\ Len(chain) \in Nat
          /\ pack.offset + Len(rows) <= Len(chain)
      <4>1. PositionInv /\ Len(chain) \in Nat /\ Len(pack.blocks) \in Nat
        BY WalkTypes DEF WalkInv
      <4>2. pack.offset = Len(pack.blocks) /\ rows \in Seq(Nat)
            /\ pack.offset + Len(rows) <= Len(chain)
        BY <2>1, <4>1 DEF PositionInv, Walking
      <4>3. Len(rows) \in Nat
        BY <4>2
      <4> QED
        BY <4>1, <4>2, <4>3
    <3> QED
      BY <1>5, <3>1
  <2> QED
    BY <1>4, <2>1 DEF WalkInv, PositionInv
<1> QED
  BY <1>6, <1>9, <1>10 DEF WalkInv

\* The walk begins.
LEMMA BeginStep == WalkInv /\ BeginCollection => WalkInv'
<1> SUFFICES ASSUME WalkInv, BeginCollection PROVE WalkInv'
  OBVIOUS
<1>1. pc = "idle" /\ pc' = "page" /\ begin' = Len(chain) /\ UNCHANGED <<chain, rows, pack>>
  BY DEF BeginCollection, ledger
<1>2. ChainInv'
  BY <1>1, WalkTypes DEF ChainInv
<1>3. PrefixInv'
  <2>1. \A i : InBlock(i)' = InBlock(i)
    BY <1>1 DEF InBlock
  <2> QED
    BY <1>1, <2>1 DEF WalkInv, PrefixInv
<1>4. PositionInv'
  BY <1>1 DEF WalkInv, PositionInv, Walking
<1> QED
  BY <1>2, <1>3, <1>4 DEF WalkInv

\* LIMIT and OFFSET: either the limit cuts the rows off, or they reach the last block.
LEMMA PageSize ==
  ASSUME NEW limit \in Nat, NEW len \in Nat, NEW offset \in Nat, offset <= len
  PROVE  LET n == IF limit + 1 < len - offset THEN limit + 1 ELSE len - offset
         IN  /\ n \in Nat /\ n <= limit + 1 /\ offset + n <= len
             /\ n <= limit => offset + n = len
  OBVIOUS

\* The rows of a page follow the pages before it.
LEMMA ReadPageStep == WalkInv /\ ReadPage => WalkInv'
<1> SUFFICES ASSUME WalkInv, ReadPage PROVE WalkInv'
  OBVIOUS
<1>1. pc = "page" /\ pc' = "page transactions" /\ UNCHANGED <<chain, begin, pack>>
  BY DEF ReadPage, ledger
<1>2. ChainInv' /\ PrefixInv'
  BY <1>1, PrefixKept DEF WalkInv, PrefixInv
<1>3. /\ pack.offset \in Nat /\ pack.offset <= Len(chain) /\ Len(chain) \in Nat
      /\ pack.offset = Len(pack.blocks) /\ begin <= Len(chain)
  <2>1. pack.offset = Len(pack.blocks)
    BY <1>1 DEF WalkInv, PositionInv, Walking
  <2> QED
    BY <2>1, WalkTypes
<1> DEFINE n == IF PageLimit + 1 < Len(chain) - pack.offset THEN PageLimit + 1
                ELSE Len(chain) - pack.offset
<1>4. rows' = [i \in 1..n |-> pack.offset + i]
  BY DEF ReadPage, BlockRows
<1>5. /\ n \in Nat /\ n <= PageLimit + 1 /\ pack.offset + n <= Len(chain)
      /\ n <= PageLimit => pack.offset + n = Len(chain)
  <2>1. PageLimit \in Nat
    BY LimitAssumption
  <2> QED
    BY <1>3, <2>1, PageSize
<1> HIDE DEF n
<1>6. rows' \in Seq(Nat) /\ Len(rows') = n /\ \A i \in 1..n : rows'[i] = pack.offset + i
  BY <1>3, <1>4, <1>5
<1>7. PositionInv'
  BY <1>1, <1>3, <1>5, <1>6 DEF PositionInv, Walking
<1> QED
  BY <1>2, <1>7 DEF WalkInv

\* A page is appended to the pages before it.
LEMMA PageStep == WalkInv /\ ReadPageTransactions => WalkInv'
<1> SUFFICES ASSUME WalkInv, ReadPageTransactions PROVE WalkInv'
  OBVIOUS
<1> DEFINE page == Truncated(WithTransactions(rows))
           all  == WithTransactions(rows)
<1>1. /\ pc = "page transactions" /\ UNCHANGED <<chain, begin>>
      /\ pc' = IF Len(rows) > PageLimit THEN "page" ELSE "latest"
  BY DEF ReadPageTransactions, ledger
<1>2. pack'.blocks = pack.blocks \o page /\ pack'.offset = pack.offset + PageLimit
      /\ {"blocks", "offset"} \subseteq DOMAIN pack'
  BY DEF ReadPageTransactions, WalkInv, PrefixInv
<1>3. /\ rows \in Seq(Nat) /\ Len(rows) \in Nat /\ Len(rows) <= PageLimit + 1
      /\ pack.offset + Len(rows) <= Len(chain)
      /\ \A i \in 1..Len(rows) : rows[i] = pack.offset + i
      /\ Len(rows) <= PageLimit => begin <= pack.offset + Len(rows)
  <2>1. PositionInv
    BY DEF WalkInv
  <2>2. rows \in Seq(Nat)
    BY <1>1, <2>1 DEF PositionInv
  <2>3. Len(rows) \in Nat
    BY <2>2
  <2> QED
    BY <1>1, <2>1, <2>3 DEF PositionInv
<1>4. /\ pack.blocks \in Seq(Block) /\ Len(pack.blocks) \in Nat /\ Len(chain) \in Nat
      /\ pack.offset = Len(pack.blocks) /\ chain \in Seq(Seq(Txs))
  <2>1. pack.offset = Len(pack.blocks)
    BY <1>1 DEF WalkInv, PositionInv, Walking
  <2> QED
    BY <2>1, WalkTypes
<1> DEFINE k == IF Len(rows) > PageLimit THEN PageLimit ELSE Len(rows)
<1>5. k \in Nat /\ k <= Len(rows) /\ (Len(rows) > PageLimit => k = PageLimit)
      /\ (Len(rows) <= PageLimit => k = Len(rows))
  BY <1>3, LimitAssumption
<1>6. DOMAIN all = 1..Len(rows) /\ Len(all) = Len(rows)
      /\ \A i \in 1..Len(rows) : all[i] = [height |-> rows[i], txs |-> InBlock(rows[i])]
  BY <1>3 DEF WithTransactions
<1>7. page = [i \in 1..k |-> all[i]]
  BY <1>6 DEF Truncated
<1> HIDE DEF k, page, all
<1>8. \A i \in 1..k : /\ pack.offset + i \in 1..Len(chain)
                      /\ page[i] = [height |-> pack.offset + i, txs |-> InBlock(pack.offset + i)]
  <2> SUFFICES ASSUME NEW i \in 1..k
               PROVE  /\ pack.offset + i \in 1..Len(chain)
                      /\ page[i] = [height |-> pack.offset + i, txs |-> InBlock(pack.offset + i)]
    OBVIOUS
  <2>1. i \in 1..Len(rows)
    BY <1>3, <1>5
  <2>2. rows[i] = pack.offset + i
    BY <1>3, <2>1
  <2>3. page[i] = all[i]
    BY <1>7
  <2>4. pack.offset + i \in 1..Len(chain)
    BY <1>3, <1>4, <2>1
  <2> QED
    BY <1>6, <2>1, <2>2, <2>3, <2>4
<1>9. \A h \in 1..Len(chain) : InBlock(h) \subseteq Txs
  BY <1>4 DEF InBlock
<1>10. \A i \in 1..k : page[i] \in Block
  <2> SUFFICES ASSUME NEW i \in 1..k PROVE page[i] \in Block
    OBVIOUS
  <2>1. PICK h \in 1..Len(chain) : page[i] = [height |-> h, txs |-> InBlock(h)]
    BY <1>8
  <2>2. h \in Nat
    BY <1>4, <2>1
  <2>3. InBlock(h) \in SUBSET Txs
    BY <1>9, <2>1
  <2> QED
    BY <2>1, <2>2, <2>3 DEF Block
<1>11. page \in Seq(Block) /\ Len(page) = k
  BY <1>5, <1>7, <1>10
<1>12. /\ pack'.blocks \in Seq(Block) /\ Len(pack'.blocks) = pack.offset + k
       /\ DOMAIN pack'.blocks = 1..(pack.offset + k)
       /\ \A i \in 1..(pack.offset + k) :
            pack'.blocks[i] = IF i <= pack.offset THEN pack.blocks[i] ELSE page[i - pack.offset]
  <2>1. pack.blocks \o page \in Seq(Block)
    BY <1>4, <1>11, ConcatProperties
  <2>0. Len(pack.blocks \o page) = Len(pack.blocks) + Len(page)
    BY <1>4, <1>11, ConcatProperties
  <2>2. Len(pack.blocks \o page) = pack.offset + k
    BY <1>4, <1>11, <2>0
  <2>3. \A i \in 1..(pack.offset + k) :
          (pack.blocks \o page)[i] = IF i <= pack.offset THEN pack.blocks[i] ELSE page[i - pack.offset]
    BY <1>4, <1>11, ConcatProperties
  <2>4. DOMAIN (pack.blocks \o page) = 1..(pack.offset + k)
    BY <2>1, <2>2
  <2> QED
    BY <1>2, <2>1, <2>2, <2>3, <2>4
<1>13. \A i \in 1..(pack.offset + k) :
         pack'.blocks[i].height = i /\ pack'.blocks[i].txs = InBlock(i)
  <2> SUFFICES ASSUME NEW i \in 1..(pack.offset + k)
               PROVE  pack'.blocks[i].height = i /\ pack'.blocks[i].txs = InBlock(i)
    OBVIOUS
  <2>1. CASE i <= pack.offset
    <3>1. i \in DOMAIN pack.blocks
      BY <1>4, <2>1
    <3> QED
      BY <1>12, <2>1, <3>1 DEF WalkInv, PrefixInv
  <2>2. CASE i > pack.offset
    <3>1. i - pack.offset \in 1..k /\ pack.offset + (i - pack.offset) = i
      BY <1>4, <1>5, <2>2
    <3>2. page[i - pack.offset] = [height |-> i, txs |-> InBlock(i)]
      BY <1>8, <3>1
    <3>3. pack'.blocks[i] = page[i - pack.offset]
      BY <1>4, <1>12, <2>2
    <3> QED
      BY <3>2, <3>3
  <2> QED
    BY <1>4, <1>5, <2>1, <2>2
<1>14. \A i : InBlock(i)' = InBlock(i)
  BY <1>1 DEF InBlock
<1>15. pack.offset + k <= Len(chain)
  BY <1>3, <1>4, <1>5
<1>16. PrefixInv'
  BY <1>1, <1>2, <1>12, <1>13, <1>14, <1>15 DEF PrefixInv
<1>17. ChainInv'
  BY <1>1 DEF WalkInv, ChainInv
<1>18. PositionInv'
  <2>1. CASE Len(rows) > PageLimit
    BY <1>1, <1>2, <1>5, <1>12, <2>1 DEF PositionInv, Walking
  <2>2. CASE Len(rows) <= PageLimit
    <3>1. pc' = "latest"
      <4>1. ~(Len(rows) > PageLimit)
        BY <1>3, <2>2, LimitAssumption
      <4> QED
        BY <1>1, <4>1
    <3> QED
      BY <1>1, <1>3, <1>5, <1>12, <2>2, <3>1 DEF PositionInv, Walking
  <2> QED
    BY <1>3, <2>1, <2>2, LimitAssumption
<1> QED
  BY <1>16, <1>17, <1>18 DEF WalkInv

\* The other requests leave the collected blocks alone.
LEMMA OtherSteps ==
  ASSUME WalkInv, [Next]_vars,
         ~Settle, ~BeginCollection, ~ReadPage, ~ReadPageTransactions
  PROVE  WalkInv'
<1>1. UNCHANGED <<chain, begin>>
  BY DEF Next, vars, ledger, ReadIssued, ReadBalance, ReadReportRows, ReadSummary, ReadFinality,
         ReadStatement, ReadPayments, ReadLatest, Collect
<1>2. CASE UNCHANGED vars
  <2>1. UNCHANGED <<pc, rows, pack>>
    BY <1>2 DEF vars
  <2>2. ChainInv' /\ PrefixInv'
    BY <1>1, <2>1, PrefixKept DEF WalkInv, PrefixInv
  <2>3. PositionInv'
    BY <1>1, <2>1 DEF WalkInv, PositionInv
  <2> QED
    BY <2>2, <2>3 DEF WalkInv
<1>3. ASSUME pc \notin Walking \cup {"idle"}, pc' \notin Walking \cup {"idle"},
             pack'.blocks = pack.blocks, {"blocks", "offset"} \subseteq DOMAIN pack'
      PROVE  WalkInv'
  <2>1. ChainInv' /\ PrefixInv'
    BY <1>1, <1>3, PrefixKept
  <2>2. PositionInv'
    BY <1>1, <1>3 DEF WalkInv, PositionInv, Walking
  <2> QED
    BY <2>1, <2>2 DEF WalkInv
<1>4. ASSUME NEW part, part # "blocks", NEW answer, pack' = [pack EXCEPT ![part] = answer]
      PROVE  pack'.blocks = pack.blocks /\ {"blocks", "offset"} \subseteq DOMAIN pack'
  BY <1>4 DEF WalkInv, PrefixInv
<1>5. CASE ReadReportRows \/ ReadPayments
  <2>1. pack' = pack /\ pc \notin Walking \cup {"idle"} /\ pc' \notin Walking \cup {"idle"}
    BY <1>5 DEF ReadReportRows, ReadPayments, Walking
  <2> QED
    BY <1>3, <2>1 DEF WalkInv, PrefixInv
<1>6. CASE ReadIssued \/ ReadBalance \/ ReadSummary \/ ReadFinality \/ ReadLatest
  <2>1. pc \notin Walking \cup {"idle"} /\ pc' \notin Walking \cup {"idle"}
    BY <1>6 DEF ReadIssued, ReadBalance, ReadSummary, ReadFinality, ReadLatest, Collect, Walking
  <2>2. \E part \in {"issued", "balance", "summary", "finality", "latest"} :
          \E answer : pack' = [pack EXCEPT ![part] = answer]
    BY <1>6 DEF ReadIssued, ReadBalance, ReadSummary, ReadFinality, ReadLatest, Collect
  <2> QED
    BY <1>3, <1>4, <2>1, <2>2
<1>7. CASE ReadStatement(1, "statement 2") \/ ReadStatement(2, "done")
  <2>1. pc \notin Walking \cup {"idle"} /\ pc' \notin Walking \cup {"idle"}
    BY <1>7 DEF ReadStatement, Collect, Walking
  <2>2. \E part \in {"closing", "entries"} : \E answer : pack' = [pack EXCEPT ![part] = answer]
    BY <1>7 DEF ReadStatement, Collect
  <2> QED
    BY <1>3, <1>4, <2>1, <2>2
<1> QED
  BY <1>2, <1>5, <1>6, <1>7 DEF Next

\* Whoever follows next_offset gets every block that was there at the beginning, in
\* order, once and with all its transactions, whatever is settled meanwhile.
THEOREM WalkComplete == Spec => []WalkIsComplete
<1>1. Init => WalkInv
  BY WalkInit
<1>2. WalkInv /\ [Next]_vars => WalkInv'
  BY SettleStep, BeginStep, ReadPageStep, PageStep, OtherSteps
<1> QED
  BY <1>1, <1>2, WalkSuffices, PTL DEF Spec

-----------------------------------------------------------------------------
(* The answers after the walk.                                             *)

\* The lines of a statement about transaction t of block h, and about the first h
\* blocks.
Lines(t, h)  == {StatementEntry(e) : e \in Booked(t, h)}
LinesUpto(h) == UNION {UNION {Lines(t, k) : t \in InBlock(k)} : k \in 1..h}

AfterClosing  == {"statement 2", "done"}
AfterFinality == AfterClosing \cup {"statement 1"}
AfterSummary  == AfterFinality \cup {"finality", "finality validators"}
AfterBalance  == AfterSummary \cup {"summary", "summary transactions"}
AfterIssued   == AfterBalance \cup {"balance"}
AfterLatest   == AfterIssued \cup {"issued"}
AfterWalk     == AfterLatest \cup {"latest", "latest rows"}

\* A transaction is in one block, and the balances are those the blocks leave.
LedgerInv ==
  /\ balance \in [Slots -> Int]
  /\ \A slot \in Slots : balance[slot] = Replayed(Upto(Len(chain)), slot)
  /\ \A h, k \in DOMAIN chain : InBlock(h) \cap InBlock(k) # {} => h = k

\* How many blocks each answer is about.
Heights == [latest : Nat, issued : Nat, held : Nat, settled : Nat, final : Nat,
            closing : Nat, booked : Nat]

\* No answer is about fewer blocks than the one before.
Ordered(at) ==
  /\ Len(pack.blocks) <= at.latest
  /\ at.latest <= at.issued /\ at.issued <= at.held /\ at.held <= at.settled
  /\ at.settled <= at.final /\ at.final <= at.closing /\ at.closing <= at.booked
  /\ at.booked <= Len(chain)

\* The answers that are there, and the rows of the reports, are about these blocks.
Told(at) ==
  /\ pc \in AfterLatest =>
       /\ pack.latest.height = at.latest
       /\ at.latest = Len(pack.blocks) /\ at.latest > 0 => pack.latest.txs = InBlock(at.latest)
  /\ pc \in AfterIssued => pack.issued = Issued(Upto(at.issued), Asset)
  /\ pc \in AfterBalance => pack.balance = Replayed(Upto(at.held), Slot)
  /\ pc = "summary transactions" => rows = [i \in 1..Found(at.settled) |-> i]
  /\ pc \in AfterSummary => pack.summary = SummaryOf(Upto(Found(at.settled)))
  /\ pc = "finality validators" => rows = [i \in 1..Found(at.final) |-> i]
  /\ pc \in AfterFinality => pack.finality = [blocks |-> Found(at.final), below |-> 0]
  /\ pc \in AfterClosing => Signed(pack.closing) = Replayed(Upto(at.closing), Slot)
  /\ pc = "done" /\ Cardinality(pack.entries) < ScanLimit => pack.entries = LinesUpto(at.booked)

AnswersInv ==
  /\ pc \in AfterWalk => \E at \in Heights : Ordered(at) /\ Told(at)
  /\ pc = "latest rows" =>
       Len(rows) \in Nat /\ Len(pack.blocks) <= Len(rows) /\ Len(rows) <= Len(chain)

PackInv == DOMAIN pack = DOMAIN EmptyPack

EvidenceInv == WalkInv /\ LedgerInv /\ PackInv /\ AnswersInv

-----------------------------------------------------------------------------
(* The sums of the reports.                                                *)

\* The net amount of a set of lines is a sum.
LEMMA NetSum ==
  ASSUME NEW E, IsFiniteSet(E), NEW f \in [E -> Int], \A x \in E : f[x] = Signed(x),
         NEW S \in SUBSET E
  PROVE  Net(S) = SumFrom(f, E)[S]
<1> DEFINE Step(iter) ==
      [s \in SUBSET S |-> IF s = {} THEN 0
                          ELSE LET x == CHOOSE x \in s : TRUE IN Signed(x) + iter[s \ {x}]]
           sum == CHOOSE iter : iter = Step(iter)
<1>1. Net(S) = sum[S]
  BY DEF Net, MapThenSumSet, MapThenFoldSet
<1>2. IsFiniteSet(S) /\ \A x \in S : f[x] \in Int
  BY FS_Subset
<1>3. ASSUME NEW g
      PROVE  Step(g) = [s \in SUBSET S |-> SumStep(g, f, s)]
  <2>1. ASSUME NEW s \in SUBSET S, s # {}
        PROVE  Signed(First(s)) = f[First(s)]
    BY <2>1, FirstIsElement
  <2>2. ASSUME NEW s \in SUBSET S
        PROVE  Step(g)[s] = SumStep(g, f, s)
    BY <2>1 DEF SumStep, First
  <2> QED
    BY <2>2
<1> HIDE DEF Step
<1>4. sum = Step(sum)
  BY <1>2, <1>3, FoldExists
<1> HIDE DEF sum
<1>5. Unfolds(sum, f, S)
  BY <1>3, <1>4 DEF Unfolds
<1>6. \A x \in S : f[x] = f[x]
  OBVIOUS
<1> QED
  BY <1>1, <1>5, <1>6, SumFromAgrees

\* A line more adds its amount.
LEMMA NetSteps ==
  ASSUME NEW E, IsFiniteSet(E), \A x \in E : Signed(x) \in Int
  PROVE  /\ Net(E) \in Int
         /\ Net({}) = 0
         /\ \A x : x \notin E /\ Signed(x) \in Int => Net(E \cup {x}) = Net(E) + Signed(x)
<1>1. ASSUME NEW D, IsFiniteSet(D), \A x \in D : Signed(x) \in Int, NEW S \in SUBSET D
      PROVE  /\ Net(S) \in Int
             /\ Net({}) = 0
             /\ \A x \in D \ S : Net(S \cup {x}) = Net(S) + Signed(x)
  <2> DEFINE f == [x \in D |-> Signed(x)]
             sum == SumFrom(f, D)
  <2>1. f \in [D -> Int] /\ \A x \in D : f[x] = Signed(x)
    BY <1>1
  <2> HIDE DEF f
  <2>2. \A T \in SUBSET D : Net(T) = sum[T]
    BY <1>1, <2>1, NetSum
  <2>3. /\ sum[S] \in Int /\ sum[{}] = 0
        /\ \A x \in D \ S : sum[S \cup {x}] = f[x] + sum[S]
    BY <1>1, <2>1, SumFromSteps
  <2> HIDE DEF sum
  <2>4. ASSUME NEW x \in D \ S
        PROVE  Net(S \cup {x}) = Net(S) + Signed(x)
    <3>1. Net(S \cup {x}) = Signed(x) + Net(S)
      BY <2>1, <2>2, <2>3
    <3> QED
      BY <1>1, <2>2, <2>3, <3>1
  <2> QED
    BY <2>2, <2>3, <2>4
<1>2. Net(E) \in Int /\ Net({}) = 0
  BY <1>1
<1>3. ASSUME NEW x, x \notin E, Signed(x) \in Int
      PROVE  Net(E \cup {x}) = Net(E) + Signed(x)
  <2> DEFINE D == E \cup {x}
  <2>1. IsFiniteSet(D)
    BY FS_AddElement
  <2>2. /\ \A y \in D : Signed(y) \in Int
        /\ E \in SUBSET D /\ x \in D \ E
    BY <1>3
  <2> HIDE DEF D
  <2>3. Net(E \cup {x}) = Net(E) + Signed(x)
    BY <1>1, <2>1, <2>2
  <2> QED
    BY <2>3
<1> QED
  BY <1>2, <1>3

\* The amounts of the transactions of a kind are a sum.
LEMMA AmountSum ==
  ASSUME NEW kind, NEW f \in [Txs -> Int], \A t \in Txs : f[t] = Tx[t].amount, NEW R \in SUBSET Txs
  PROVE  Amount(R, kind) = SumFrom(f, Txs)[{t \in R : Tx[t].kind = kind /\ Tx[t].asset = Asset}]
<1> DEFINE S == {t \in R : Tx[t].kind = kind /\ Tx[t].asset = Asset}
           Step(iter) ==
      [s \in SUBSET S |-> IF s = {} THEN 0
                          ELSE LET x == CHOOSE x \in s : TRUE IN Tx[x].amount + iter[s \ {x}]]
           sum == CHOOSE iter : iter = Step(iter)
<1>1. Amount(R, kind) = sum[S]
  BY DEF Amount, MapThenSumSet, MapThenFoldSet
<1>2. S \in SUBSET Txs /\ IsFiniteSet(S) /\ \A x \in S : f[x] \in Int
  BY TxsAssumption, FS_Subset
<1> HIDE DEF S
<1>3. ASSUME NEW g
      PROVE  Step(g) = [s \in SUBSET S |-> SumStep(g, f, s)]
  <2>1. ASSUME NEW s \in SUBSET S, s # {}
        PROVE  Tx[First(s)].amount = f[First(s)]
    BY <1>2, <2>1, FirstIsElement
  <2>2. ASSUME NEW s \in SUBSET S
        PROVE  Step(g)[s] = SumStep(g, f, s)
    BY <2>1 DEF SumStep, First
  <2> QED
    BY <2>2
<1> HIDE DEF Step
<1>4. sum = Step(sum)
  BY <1>2, <1>3, FoldExists
<1> HIDE DEF sum
<1>5. Unfolds(sum, f, S)
  BY <1>3, <1>4 DEF Unfolds
<1>6. \A x \in S : f[x] = f[x]
  OBVIOUS
<1>7. sum[S] = SumFrom(f, Txs)[S]
  BY <1>2, <1>5, <1>6, TxsAssumption, SumFromAgrees
<1> QED
  BY <1>1, <1>7 DEF S

\* A transaction more adds its amount if it is of the kind and of the asset.
LEMMA AmountSteps ==
  ASSUME NEW kind, NEW S \in SUBSET Txs
  PROVE  /\ Amount(S, kind) \in Int
         /\ Amount({}, kind) = 0
         /\ \A t \in Txs \ S :
              Amount(S \cup {t}, kind) =
                Amount(S, kind)
                  + IF Tx[t].kind = kind /\ Tx[t].asset = Asset THEN Tx[t].amount ELSE 0
<1> DEFINE f == [t \in Txs |-> Tx[t].amount]
           Of(T) == {t \in T : Tx[t].kind = kind /\ Tx[t].asset = Asset}
           sum == SumFrom(f, Txs)
<1>1. f \in [Txs -> Int] /\ \A t \in Txs : f[t] = Tx[t].amount
  BY TxAssumption
<1> HIDE DEF f
<1>2. \A T \in SUBSET Txs : Amount(T, kind) = sum[Of(T)]
  BY <1>1, AmountSum
<1>3. /\ Of(S) \in SUBSET Txs /\ Of({}) = {}
      /\ sum[Of(S)] \in Int /\ sum[{}] = 0
      /\ \A t \in Txs \ Of(S) : sum[Of(S) \cup {t}] = f[t] + sum[Of(S)]
  BY <1>1, TxsAssumption, SumFromSteps
<1> HIDE DEF sum
<1>4. ASSUME NEW t \in Txs \ S
      PROVE  Amount(S \cup {t}, kind) =
               Amount(S, kind)
                 + IF Tx[t].kind = kind /\ Tx[t].asset = Asset THEN Tx[t].amount ELSE 0
  <2>1. CASE Tx[t].kind = kind /\ Tx[t].asset = Asset
    <3>1. Of(S \cup {t}) = Of(S) \cup {t} /\ t \notin Of(S) /\ S \cup {t} \in SUBSET Txs
      BY <2>1
    <3>2. Amount(S \cup {t}, kind) = f[t] + sum[Of(S)]
      BY <1>2, <1>3, <3>1
    <3>3. Amount(S, kind) = sum[Of(S)] /\ sum[Of(S)] \in Int /\ f[t] \in Int
          /\ f[t] = Tx[t].amount
      BY <1>1, <1>2, <1>3
    <3>4. Amount(S \cup {t}, kind) = Amount(S, kind) + Tx[t].amount
      BY <3>2, <3>3
    <3> QED
      BY <2>1, <3>4
  <2>2. CASE ~(Tx[t].kind = kind /\ Tx[t].asset = Asset)
    <3>1. Of(S \cup {t}) = Of(S) /\ S \cup {t} \in SUBSET Txs
      BY <2>2
    <3>2. Amount(S \cup {t}, kind) = Amount(S, kind)
      BY <1>2, <3>1
    <3>3. Amount(S, kind) \in Int
      BY <1>2, <1>3
    <3>4. Amount(S \cup {t}, kind) = Amount(S, kind) + 0
      BY <3>2, <3>3
    <3> QED
      BY <2>2, <3>4
  <2> QED
    BY <2>1, <2>2
<1> QED
  BY <1>2, <1>3, <1>4

\* What was minted and not burned is what is issued.
LEMMA MintedLessBurned ==
  ASSUME NEW S \in SUBSET Txs
  PROVE  Amount(S, "MINT") - Amount(S, "BURN") = Issued(S, Asset)
<1> DEFINE P == {T \in SUBSET Txs : Amount(T, "MINT") - Amount(T, "BURN") = Issued(T, Asset)}
<1>1. {} \in P
  BY AmountSteps, IssuedSteps
<1>2. ASSUME NEW T \in SUBSET Txs, T \in P, NEW t \in Txs \ T
      PROVE  T \cup {t} \in P
  <2> DEFINE New(kind) == IF Tx[t].kind = kind /\ Tx[t].asset = Asset THEN Tx[t].amount ELSE 0
             new == IF Tx[t].asset = Asset THEN Supply(t) ELSE 0
  <2>1. /\ Amount(T \cup {t}, "MINT") = Amount(T, "MINT") + New("MINT")
        /\ Amount(T \cup {t}, "BURN") = Amount(T, "BURN") + New("BURN")
        /\ Amount(T, "MINT") \in Int /\ Amount(T, "BURN") \in Int
    BY <1>2, AmountSteps
  <2>2. Issued(T \cup {t}, Asset) = Issued(T, Asset) + new /\ Issued(T, Asset) \in Int
    BY <1>2, IssuedSteps
  <2>3. Tx[t].amount \in Int
    BY TxAssumption
  <2>4. New("MINT") - New("BURN") = new /\ New("MINT") \in Int /\ New("BURN") \in Int
    BY <2>3 DEF Supply
  <2>5. Amount(T, "MINT") - Amount(T, "BURN") = Issued(T, Asset)
    BY <1>2
  <2> HIDE DEF New, new
  <2>6. Amount(T \cup {t}, "MINT") - Amount(T \cup {t}, "BURN") = Issued(T \cup {t}, Asset)
    BY <2>1, <2>2, <2>4, <2>5
  <2>7. T \cup {t} \in SUBSET Txs
    BY <1>2
  <2> QED
    BY <2>6, <2>7
<1> HIDE DEF P
<1>3. SUBSET Txs \subseteq P
  BY <1>1, <1>2, TxsAssumption, SubsetInduction
<1> USE DEF P
<1> QED
  BY <1>3

-----------------------------------------------------------------------------
(* The lines of a statement.                                               *)

\* The lines of a transaction: its debit, its credit, or both.
DebitLine(t, h)  == [tx |-> t, amount |-> Debit(t, Slot), height |-> h, indicator |-> "DBIT"]
CreditLine(t, h) == [tx |-> t, amount |-> Credit(t, Slot), height |-> h, indicator |-> "CRDT"]

LEMMA LineShape ==
  ASSUME NEW t \in Txs, NEW h
  PROVE  Lines(t, h) = (IF Debit(t, Slot) > 0 THEN {DebitLine(t, h)} ELSE {})
                         \cup (IF Credit(t, Slot) > 0 THEN {CreditLine(t, h)} ELSE {})
<1> DEFINE d == [tx |-> t, direction |-> "DEBIT", amount |-> Debit(t, Slot), height |-> h]
           c == [tx |-> t, direction |-> "CREDIT", amount |-> Credit(t, Slot), height |-> h]
<1>1. StatementEntry(d) = DebitLine(t, h) /\ StatementEntry(c) = CreditLine(t, h)
  BY DEF StatementEntry, DebitLine, CreditLine
<1>2. Booked(t, h) = {e \in {d, c} : e.amount > 0}
  BY DEF Booked
<1>3. d.amount = Debit(t, Slot) /\ c.amount = Credit(t, Slot)
  OBVIOUS
<1> HIDE DEF d, c
<1>4. Booked(t, h) = (IF Debit(t, Slot) > 0 THEN {d} ELSE {})
                       \cup (IF Credit(t, Slot) > 0 THEN {c} ELSE {})
  BY <1>2, <1>3
<1> QED
  BY <1>1, <1>4 DEF Lines

\* The slot of the statement.
LEMMA SlotType == Slot \in Slots
BY ObservedAssumption DEF Slot, Slots

\* The lines of a transaction more add what it does to the balance.
LEMMA LinesAdd ==
  ASSUME NEW E, IsFiniteSet(E), NEW t \in Txs, NEW h,
         \A x \in E : Signed(x) \in Int /\ x.tx # t
  PROVE  LET F == E \cup Lines(t, h)
         IN  /\ IsFiniteSet(F)
             /\ \A x \in F : Signed(x) \in Int
             /\ Net(F) = Net(E) + Effect(t, Slot)
<1> DEFINE debit == Debit(t, Slot)
           credit == Credit(t, Slot)
           d == DebitLine(t, h)
           c == CreditLine(t, h)
           M == IF debit > 0 THEN E \cup {d} ELSE E
           F == IF credit > 0 THEN M \cup {c} ELSE M
<1>1. debit \in Nat /\ credit \in Nat /\ Effect(t, Slot) = credit - debit
  <2>1. Tx[t].amount \in Nat
    BY TxAssumption
  <2> QED
    BY <2>1 DEF Debit, Credit, Effect
<1>2. d.tx = t /\ c.tx = t /\ c # d
  <2>1. d.indicator = "DBIT" /\ c.indicator = "CRDT"
    BY DEF DebitLine, CreditLine
  <2> QED
    BY <2>1 DEF DebitLine, CreditLine
<1>3. Signed(d) = -debit /\ Signed(c) = credit
  BY DEF DebitLine, CreditLine, Signed
<1>4. Lines(t, h) = (IF debit > 0 THEN {d} ELSE {}) \cup (IF credit > 0 THEN {c} ELSE {})
  BY LineShape
<1> HIDE DEF debit, credit, d, c
<1>5. F = E \cup Lines(t, h)
  BY <1>4
<1>6. d \notin E /\ c \notin M
  BY <1>2
<1>7. /\ IsFiniteSet(M) /\ \A x \in M : Signed(x) \in Int
      /\ Net(M) \in Int /\ Net(E) \in Int /\ Net(M) = Net(E) - debit
  <2>1. Net(E) \in Int
    BY NetSteps
  <2>2. CASE debit > 0
    <3>1. M = E \cup {d} /\ Signed(d) \in Int
      BY <1>1, <1>3, <2>2
    <3>2. IsFiniteSet(M)
      BY <3>1, FS_AddElement
    <3>3. Net(M) = Net(E) + Signed(d)
      BY <1>6, <3>1, NetSteps
    <3> QED
      BY <1>1, <1>3, <2>1, <3>1, <3>2, <3>3
  <2>3. CASE ~(debit > 0)
    <3>1. M = E /\ debit = 0
      BY <1>1, <2>3
    <3> QED
      BY <2>1, <3>1
  <2> QED
    BY <2>2, <2>3
<1> HIDE DEF M
<1>8. /\ IsFiniteSet(F) /\ \A x \in F : Signed(x) \in Int
      /\ Net(F) = Net(M) + credit
  <2>1. CASE credit > 0
    <3>1. F = M \cup {c} /\ Signed(c) \in Int
      BY <1>1, <1>3, <2>1
    <3>2. IsFiniteSet(F)
      BY <1>7, <3>1, FS_AddElement
    <3>3. Net(F) = Net(M) + Signed(c)
      BY <1>6, <1>7, <3>1, NetSteps
    <3> QED
      BY <1>1, <1>3, <1>7, <3>1, <3>2, <3>3
  <2>2. CASE ~(credit > 0)
    <3>1. F = M /\ credit = 0
      BY <1>1, <2>2
    <3> QED
      BY <1>7, <3>1
  <2> QED
    BY <2>1, <2>2
<1>9. Net(F) = Net(E) + Effect(t, Slot)
  BY <1>1, <1>7, <1>8
<1> HIDE DEF F
<1> QED
  BY <1>5, <1>8, <1>9

\* The transactions of a prefix of the chain.
LEMMA UptoTxs ==
  ASSUME ChainInv, NEW h \in 0..Len(chain)
  PROVE  Upto(h) \in SUBSET Txs
<1>1. \A k \in 1..h : k \in DOMAIN chain
  BY DEF ChainInv
<1>2. \A k \in DOMAIN chain : chain[k] \in Seq(Txs)
  BY DEF ChainInv
<1>3. \A k \in DOMAIN chain : InBlock(k) \subseteq Txs
  BY <1>2 DEF InBlock
<1> QED
  BY <1>1, <1>3 DEF Upto

\* The lines about the first blocks of the chain add up to the balance they leave.
LEMMA NetOfLines ==
  ASSUME ChainInv, LedgerInv, NEW h \in 0..Len(chain)
  PROVE  /\ IsFiniteSet(LinesUpto(h))
         /\ Net(LinesUpto(h)) = Replayed(Upto(h), Slot)
<1> DEFINE at == [t \in Upto(h) |-> CHOOSE k \in 1..h : t \in InBlock(k)]
           Of(S) == UNION {Lines(t, at[t]) : t \in S}
           P == {S \in SUBSET Upto(h) :
                   /\ IsFiniteSet(Of(S))
                   /\ \A x \in Of(S) : Signed(x) \in Int /\ x.tx \in S
                   /\ Net(Of(S)) = Replayed(S, Slot)}
<1>1. Upto(h) \in SUBSET Txs /\ IsFiniteSet(Upto(h))
  BY UptoTxs, TxsAssumption, FS_Subset
<1>2. \A t \in Upto(h) : at[t] \in 1..h /\ t \in InBlock(at[t])
  BY DEF Upto
<1>3. \A t \in Upto(h), k \in 1..h : t \in InBlock(k) => at[t] = k
  <2>1. \A k \in 1..h : k \in DOMAIN chain
    BY DEF ChainInv
  <2> QED
    BY <1>2, <2>1 DEF LedgerInv
<1> HIDE DEF at
<1>4. LinesUpto(h) = Of(Upto(h))
  <2>1. ASSUME NEW x \in LinesUpto(h)
        PROVE  x \in Of(Upto(h))
    <3>1. PICK k \in 1..h : \E t \in InBlock(k) : x \in Lines(t, k)
      BY DEF LinesUpto
    <3>2. PICK t \in InBlock(k) : x \in Lines(t, k)
      BY <3>1
    <3>3. t \in Upto(h)
      BY DEF Upto
    <3>4. at[t] = k
      BY <1>3, <3>3
    <3> QED
      BY <3>2, <3>3, <3>4
  <2>2. ASSUME NEW x \in Of(Upto(h))
        PROVE  x \in LinesUpto(h)
    BY <1>2 DEF LinesUpto
  <2> QED
    BY <2>1, <2>2
<1>5. {} \in P
  <2>1. Of({}) = {}
    OBVIOUS
  <2> QED
    BY <2>1, SlotType, FS_EmptySet, NetSteps, ReplayedSteps
<1>6. ASSUME NEW S \in SUBSET Upto(h), S \in P, NEW t \in Upto(h) \ S
      PROVE  S \cup {t} \in P
  <2>1. /\ IsFiniteSet(Of(S))
        /\ \A x \in Of(S) : Signed(x) \in Int /\ x.tx \in S
        /\ Net(Of(S)) = Replayed(S, Slot)
    BY <1>6
  <2>2. Of(S \cup {t}) = Of(S) \cup Lines(t, at[t])
    OBVIOUS
  <2>3. \A x \in Lines(t, at[t]) : x.tx = t
    BY <1>1, LineShape DEF DebitLine, CreditLine
  <2>4. t \in Txs /\ S \in SUBSET Txs
    BY <1>1
  <2> HIDE DEF Of
  <2>5. /\ IsFiniteSet(Of(S) \cup Lines(t, at[t]))
        /\ \A x \in Of(S) \cup Lines(t, at[t]) : Signed(x) \in Int
        /\ Net(Of(S) \cup Lines(t, at[t])) = Net(Of(S)) + Effect(t, Slot)
    BY <1>6, <2>1, <2>4, LinesAdd
  <2>6. Replayed(S \cup {t}, Slot) = Replayed(S, Slot) + Effect(t, Slot)
    BY <1>6, <2>4, SlotType, ReplayedSteps
  <2>7. \A x \in Of(S \cup {t}) : Signed(x) \in Int /\ x.tx \in S \cup {t}
    BY <2>1, <2>2, <2>3, <2>5
  <2>8. Net(Of(S \cup {t})) = Replayed(S \cup {t}, Slot) /\ IsFiniteSet(Of(S \cup {t}))
    BY <2>1, <2>2, <2>5, <2>6
  <2>9. S \cup {t} \in SUBSET Upto(h)
    BY <1>6
  <2> QED
    BY <2>7, <2>8, <2>9
<1> HIDE DEF P
<1>7. SUBSET Upto(h) \subseteq P
  <2> DEFINE D == Upto(h)
  <2>1. IsFiniteSet(D) /\ \A S \in SUBSET D : S \in P => \A t \in D \ S : S \cup {t} \in P
    BY <1>1, <1>6
  <2> HIDE DEF D
  <2>2. SUBSET D \subseteq P
    BY <1>5, <2>1, SubsetInduction
  <2> QED
    BY <2>2 DEF D
<1>8. Upto(h) \in P
  BY <1>7
<1> USE DEF P
<1> QED
  BY <1>4, <1>8

-----------------------------------------------------------------------------
(* The ledger that is observed.                                            *)

\* The rules of the instance are the rules of the ledger.
LEMMA SameApply ==
  ASSUME NEW t, NEW bal
  PROVE  Ledger!Apply(t, bal) = Apply(t, bal)
BY DEF Ledger!Apply, Apply, Ledger!Effect, Effect, Ledger!Debit, Debit, Ledger!Credit, Credit,
       Ledger!Source, Source, Ledger!Target, Target, Ledger!Slots, Slots

LEMMA SameBalances ==
  ASSUME NEW txs
  PROVE  Ledger!Balances(txs) = Along(balance, txs)
BY SameApply DEF Ledger!Balances, Along

\* What is settled are the transactions of all blocks.
LEMMA SettledIsAll ==
  ASSUME ChainInv
  PROVE  Ledger!Settled = Upto(Len(chain))
<1>1. DOMAIN chain = 1..Len(chain)
  BY DEF ChainInv
<1> QED
  BY <1>1 DEF Ledger!Settled, Upto, InBlock

\* A block is a sequence without repetition of transactions that were not settled.
LEMMA NewBatch ==
  ASSUME NEW S \in SUBSET Txs, NEW txs \in Ledger!Batches(S)
  PROVE  /\ txs \in Seq(Txs)
         /\ \A i \in DOMAIN txs : txs[i] \in S
         /\ \A i, j \in DOMAIN txs : txs[i] = txs[j] => i = j
<1>1. /\ txs \in UNION {[1..n -> S] : n \in 1..Ledger!Cardinality(S)}
      /\ \A i, j \in DOMAIN txs : txs[i] = txs[j] => i = j
  BY DEF Ledger!Batches
<1>2. PICK n \in 1..Ledger!Cardinality(S) : txs \in [1..n -> S]
  BY <1>1
<1>3. n \in Nat /\ txs \in [1..n -> Txs]
  BY <1>2
<1>4. txs \in Seq(Txs)
  BY <1>3
<1> QED
  BY <1>1, <1>2, <1>4

\* A block more leaves what is known of the blocks before it.
LEMMA PrefixesStay ==
  ASSUME ChainInv, NEW txs \in Seq(Txs), chain' = Append(chain, txs)
  PROVE  /\ Len(chain) \in Nat /\ Len(chain') = Len(chain) + 1
         /\ chain'[Len(chain) + 1] = txs
         /\ \A k \in 1..Len(chain) : InBlock(k)' = InBlock(k)
         /\ \A h \in 0..Len(chain) : Upto(h)' = Upto(h) /\ LinesUpto(h)' = LinesUpto(h)
<1>1. /\ Len(chain) \in Nat /\ Len(chain') = Len(chain) + 1
      /\ chain'[Len(chain) + 1] = txs
      /\ \A k \in 1..Len(chain) : chain'[k] = chain[k]
  BY DEF ChainInv
<1>2. \A k \in 1..Len(chain) : InBlock(k)' = InBlock(k)
  BY <1>1 DEF InBlock
<1>3. ASSUME NEW h \in 0..Len(chain)
      PROVE  Upto(h)' = Upto(h) /\ LinesUpto(h)' = LinesUpto(h)
  <2>1. \A k \in 1..h : k \in 1..Len(chain)
    BY <1>1
  <2>2. \A k \in 1..h : InBlock(k)' = InBlock(k)
    BY <1>2, <2>1
  <2>3. Upto(h)' = Upto(h)
    BY <2>2 DEF Upto
  <2>4. LinesUpto(h)' = LinesUpto(h)
    BY <2>2 DEF LinesUpto, Lines, Booked
  <2> QED
    BY <2>3, <2>4
<1> QED
  BY <1>1, <1>2, <1>3

\* Settling a block keeps the balances what the blocks leave.
LEMMA LedgerSettles ==
  ASSUME ChainInv, LedgerInv, Settle
  PROVE  LedgerInv'
<1>0. PICK n \in Nat : n = Len(chain)
  BY DEF ChainInv
<1> DEFINE S == Upto(n)
<1>1. S \in SUBSET Txs
  <2>1. n \in 0..Len(chain)
    BY <1>0
  <2> QED
    BY <2>1, UptoTxs
<1>2. PICK txs \in Ledger!Batches(Txs \ S) :
        chain' = Append(chain, txs) /\ balance' = Along(balance, txs)[Len(txs)]
  BY <1>0, SettledIsAll, SameBalances DEF Settle
<1>3. /\ txs \in Seq(Txs)
      /\ \A i \in DOMAIN txs : txs[i] \in Txs \ S
      /\ \A i, j \in DOMAIN txs : txs[i] = txs[j] => i = j
  <2> HIDE DEF S
  <2>1. Txs \ S \in SUBSET Txs
    OBVIOUS
  <2> QED
    BY <1>2, <2>1, NewBatch
<1>4. /\ n \in Nat /\ Len(chain') = n + 1 /\ chain'[n + 1] = txs
      /\ \A k \in 1..n : InBlock(k)' = InBlock(k)
      /\ Upto(n)' = Upto(n)
  <2>1. /\ Len(chain') = Len(chain) + 1
        /\ chain'[Len(chain) + 1] = txs
        /\ \A k \in 1..Len(chain) : InBlock(k)' = InBlock(k)
        /\ \A h \in 0..Len(chain) : Upto(h)' = Upto(h)
    BY <1>2, <1>3, PrefixesStay
  <2> QED
    BY <1>0, <2>1
<1>5. InBlock(n + 1)' = {txs[i] : i \in DOMAIN txs}
  BY <1>4 DEF InBlock
<1>6. Upto(n + 1)' = S \cup {txs[i] : i \in 1..Len(txs)}
  <2>1. 1..(n + 1) = 1..n \cup {n + 1}
    BY <1>4
  <2>2. Upto(n + 1)' = Upto(n)' \cup InBlock(n + 1)'
    BY <2>1 DEF Upto
  <2>3. DOMAIN txs = 1..Len(txs)
    BY <1>3
  <2> QED
    BY <1>4, <1>5, <2>2, <2>3
<1>7. /\ balance' \in [Slots -> Int]
      /\ \A slot \in Slots : balance'[slot] = Replayed(S \cup {txs[i] : i \in 1..Len(txs)}, slot)
  <2>1. balance \in [Slots -> Int] /\ \A slot \in Slots : balance[slot] = Replayed(S, slot)
    BY <1>0 DEF LedgerInv
  <2>2. Len(txs) \in 0..Len(txs)
    BY <1>3
  <2>3. \A i \in DOMAIN txs : txs[i] \notin S
    BY <1>3
  <2> HIDE DEF S
  <2>4. \A i \in 0..Len(txs) :
          /\ Along(balance, txs)[i] \in [Slots -> Int]
          /\ \A slot \in Slots :
               Along(balance, txs)[i][slot] = Replayed(S \cup {txs[j] : j \in 1..i}, slot)
    BY <1>1, <1>3, <2>1, <2>3, AlongReplays
  <2>5. balance' = Along(balance, txs)[Len(txs)]
    BY <1>2
  <2> QED
    BY <2>2, <2>4, <2>5
<1>8. \A slot \in Slots : balance'[slot] = Replayed(Upto(Len(chain))', slot)
  <2>1. Upto(Len(chain))' = Upto(n + 1)'
    BY <1>4 DEF Upto
  <2> QED
    BY <1>6, <1>7, <2>1
<1>9. ASSUME NEW h \in DOMAIN chain', NEW k \in DOMAIN chain', InBlock(h)' \cap InBlock(k)' # {}
      PROVE  h = k
  <2>1. DOMAIN chain = 1..n /\ DOMAIN chain' = 1..(n + 1)
    BY <1>0, <1>2, <1>3, <1>4 DEF ChainInv
  <2>2. \A j \in 1..n : InBlock(j) \subseteq S /\ InBlock(j)' = InBlock(j)
    BY <1>4 DEF Upto
  <2>3. InBlock(n + 1)' \cap S = {}
    BY <1>3, <1>5
  <2>4. (h \in 1..n \/ h = n + 1) /\ (k \in 1..n \/ k = n + 1)
    BY <1>4, <2>1
  <2> QED
    BY <1>9, <2>1, <2>2, <2>3, <2>4 DEF LedgerInv
<1> QED
  BY <1>7, <1>8, <1>9 DEF LedgerInv

\* The rest of the invariant, for the steps of the operator.
LEMMA LedgerFrame ==
  ASSUME UNCHANGED <<chain, balance>>, LedgerInv
  PROVE  /\ LedgerInv'
         /\ \A h : InBlock(h)' = InBlock(h)
         /\ \A h : Upto(h)' = Upto(h) /\ LinesUpto(h)' = LinesUpto(h)
<1>1. \A h : InBlock(h)' = InBlock(h)
  BY DEF InBlock
<1>2. \A h : Upto(h)' = Upto(h) /\ LinesUpto(h)' = LinesUpto(h)
  BY <1>1 DEF Upto, LinesUpto, Lines, Booked
<1> QED
  BY <1>1, <1>2 DEF LedgerInv

\* At first nothing is settled.
LEMMA LedgerInit == Init => LedgerInv
<1> SUFFICES ASSUME Init
             PROVE  LedgerInv
  OBVIOUS
<1>1. Len(chain) = 0 /\ DOMAIN chain = {}
  BY DEF Init
<1>2. Upto(Len(chain)) = {}
  BY <1>1 DEF Upto
<1>3. \A slot \in Slots : Replayed({}, slot) = 0
  BY ReplayedSteps
<1>4. balance \in [Slots -> Int] /\ \A slot \in Slots : balance[slot] = 0
  BY DEF Init
<1>5. \A slot \in Slots : balance[slot] = Replayed(Upto(Len(chain)), slot)
  BY <1>2, <1>3, <1>4
<1> QED
  BY <1>1, <1>4, <1>5 DEF LedgerInv

-----------------------------------------------------------------------------
(* What a handler reads.                                                   *)

\* An answer goes into its part of the pack.
LEMMA Collected ==
  ASSUME PackInv, NEW part \in DOMAIN EmptyPack, NEW answer, NEW step,
         Collect(part, answer, step)
  PROVE  /\ pack'[part] = answer
         /\ \A other \in DOMAIN EmptyPack \ {part} : pack'[other] = pack[other]
         /\ PackInv'
         /\ pc' = step /\ UNCHANGED <<chain, balance>>
<1>1. pack' = [pack EXCEPT ![part] = answer]
  BY DEF Collect
<1> QED
  BY <1>1 DEF PackInv, Collect, ledger

\* The sign of a closing balance is kept by its indicator.
LEMMA ClosingSign ==
  ASSUME NEW b \in Int
  PROVE  Signed(Closing(b)) = b
BY DEF Signed, Closing

\* The collected transactions are those of the first blocks.
LEMMA CollectedAll ==
  ASSUME WalkInv
  PROVE  TxsOf(pack.blocks) = Upto(Len(pack.blocks))
<1>1. DOMAIN pack.blocks = 1..Len(pack.blocks)
  BY WalkTypes
<1>2. \A i \in DOMAIN pack.blocks : pack.blocks[i].txs = InBlock(i)
  BY DEF WalkInv, PrefixInv
<1> QED
  BY <1>1, <1>2 DEF TxsOf, Upto

\* The transactions of a list of heights.
LEMMA TxsOfRows ==
  ASSUME NEW n \in Nat
  PROVE  TxsOf(WithTransactions([i \in 1..n |-> i])) = Upto(n)
<1> DEFINE blocks == WithTransactions([i \in 1..n |-> i])
<1>1. DOMAIN blocks = 1..n /\ \A i \in 1..n : blocks[i].txs = InBlock(i)
  BY DEF WithTransactions
<1> HIDE DEF blocks
<1>2. TxsOf(blocks) = Upto(n)
  BY <1>1 DEF TxsOf, Upto
<1> QED
  BY <1>2 DEF blocks

\* Every block has the votes the finality report wants.
LEMMA VotesSuffice ==
  ASSUME NEW h
  PROVE  ~(Len(FinalityVotes(h)) < RequiredVotes(Len(Schedule)))
<1>1. Len(Schedule) \in Nat
  BY ScheduleAssumption
<1>2. FinalityThreshold \in Nat /\ FinalityThreshold >= RequiredVotes(Len(Schedule))
      /\ RequiredVotes(Len(Schedule)) \in Nat
  BY <1>1 DEF FinalityThreshold, RequiredVotes
<1>3. Len(FinalityVotes(h)) = FinalityThreshold
  BY <1>2 DEF FinalityVotes
<1> QED
  BY <1>2, <1>3

\* The lines of the journal.
LEMMA JournalLines ==
  ASSUME ChainInv
  PROVE  LinesUpto(Len(chain)) = {StatementEntry(e) : e \in Journal}
<1>1. DOMAIN chain = 1..Len(chain)
  BY DEF ChainInv
<1> QED
  BY <1>1 DEF LinesUpto, Lines, Journal

\* Different entries give different lines.
LEMMA EntriesDiffer ==
  ASSUME NEW e \in Journal, NEW f \in Journal, StatementEntry(e) = StatementEntry(f)
  PROVE  e = f
<1>1. \A x \in Journal :
        \E t, h : \/ x = [tx |-> t, direction |-> "DEBIT", amount |-> Debit(t, Slot),
                          height |-> h]
                  \/ x = [tx |-> t, direction |-> "CREDIT", amount |-> Credit(t, Slot),
                          height |-> h]
  BY DEF Journal, Booked
<1>2. /\ e.tx = f.tx /\ e.height = f.height
      /\ e.direction = "CREDIT" <=> f.direction = "CREDIT"
  BY DEF StatementEntry
<1>3. PICK t, h : \/ e = [tx |-> t, direction |-> "DEBIT", amount |-> Debit(t, Slot),
                          height |-> h]
                  \/ e = [tx |-> t, direction |-> "CREDIT", amount |-> Credit(t, Slot),
                          height |-> h]
  BY <1>1
<1>4. PICK u, k : \/ f = [tx |-> u, direction |-> "DEBIT", amount |-> Debit(u, Slot),
                          height |-> k]
                  \/ f = [tx |-> u, direction |-> "CREDIT", amount |-> Credit(u, Slot),
                          height |-> k]
  BY <1>1
<1>5. t = u /\ h = k
  BY <1>2, <1>3, <1>4
<1> QED
  BY <1>2, <1>3, <1>4, <1>5

\* Fewer entries than the limit are all entries.
LEMMA NothingCutOff ==
  ASSUME ChainInv, LedgerInv, NEW page \in Page(Journal),
         Cardinality({StatementEntry(e) : e \in page}) < ScanLimit
  PROVE  {StatementEntry(e) : e \in page} = LinesUpto(Len(chain))
<1> DEFINE lines == {StatementEntry(e) : e \in page}
           all == LinesUpto(Len(chain))
           toLine == [e \in Journal |-> StatementEntry(e)]
<1>1. all = {StatementEntry(e) : e \in Journal}
  BY JournalLines
<1>2. IsFiniteSet(all)
  <2>1. Len(chain) \in 0..Len(chain)
    BY DEF ChainInv
  <2> QED
    BY <2>1, NetOfLines
<1>3. IsFiniteSet(Journal)
  <2>1. toLine \in Injection(Journal, all)
    BY <1>1, EntriesDiffer DEF Injection, IsInjective
  <2> HIDE DEF toLine, all
  <2> QED
    BY <1>2, <2>1, FS_Injection
<1>4. CASE Cardinality(Journal) <= ScanLimit
  BY <1>1, <1>4 DEF Page
<1>5. CASE ~(Cardinality(Journal) <= ScanLimit)
  <2>1. page \in SUBSET Journal /\ Cardinality(page) = ScanLimit
    BY <1>5 DEF Page, kSubset
  <2>2. lines \in SUBSET all
    BY <1>1, <2>1
  <2>3. IsFiniteSet(lines)
    <3> HIDE DEF lines, all
    <3> QED
      BY <1>2, <2>2, FS_Subset
  <2> DEFINE pageLine == [e \in page |-> StatementEntry(e)]
  <2>4. pageLine \in Injection(page, lines)
    BY <2>1, EntriesDiffer DEF Injection, IsInjective
  <2> HIDE DEF pageLine
  <2>5. Cardinality(page) <= Cardinality(lines) /\ Cardinality(lines) \in Nat
    <3> HIDE DEF lines
    <3> QED
      BY <2>3, <2>4, FS_Injection, FS_CardinalityType
  <2>6. Cardinality(lines) < ScanLimit
    OBVIOUS
  <2> HIDE DEF lines
  <2> QED
    BY <2>1, <2>5, <2>6, LimitAssumption
<1> QED
  BY <1>4, <1>5

-----------------------------------------------------------------------------
(* The steps.                                                              *)

\* The heights of the answers are numbers up to that of the chain.
LEMMA HeightTypes ==
  ASSUME EvidenceInv, NEW at \in Heights, Ordered(at)
  PROVE  /\ Len(chain) \in Nat /\ Len(pack.blocks) \in Nat
         /\ {at.latest, at.issued, at.held, at.settled, at.final, at.closing, at.booked}
              \subseteq 0..Len(chain)
         /\ Found(at.settled) \in 0..at.settled /\ Found(at.final) \in 0..at.final
<1>1. Len(chain) \in Nat /\ Len(pack.blocks) \in Nat
  BY WalkTypes DEF EvidenceInv
<1>2. /\ at.latest \in Nat /\ at.issued \in Nat /\ at.held \in Nat /\ at.settled \in Nat
      /\ at.final \in Nat /\ at.closing \in Nat /\ at.booked \in Nat
  BY DEF Heights
<1>3. /\ at.latest <= Len(chain) /\ at.issued <= Len(chain) /\ at.held <= Len(chain)
      /\ at.settled <= Len(chain) /\ at.final <= Len(chain) /\ at.closing <= Len(chain)
      /\ at.booked <= Len(chain)
  BY <1>1, <1>2 DEF Ordered
<1>4. Found(at.settled) \in 0..at.settled /\ Found(at.final) \in 0..at.final
  BY <1>2, LimitAssumption DEF Found
<1> QED
  BY <1>1, <1>2, <1>3, <1>4

\* A block that is settled leaves the answers about the blocks before it.
LEMMA SettleAnswers ==
  ASSUME EvidenceInv, Settle
  PROVE  LedgerInv' /\ PackInv' /\ AnswersInv'
<1>1. UNCHANGED <<pc, rows, pack>>
  BY DEF Settle
<1>2. LedgerInv' /\ PackInv'
  BY <1>1, LedgerSettles DEF EvidenceInv, WalkInv, PackInv
<1>3. PICK txs \in Seq(Txs) : chain' = Append(chain, txs)
  <2>1. Txs \ Ledger!Settled \in SUBSET Txs
    OBVIOUS
  <2> QED
    BY <2>1, NewBatch DEF Settle
<1>4. /\ Len(chain) \in Nat /\ Len(chain') = Len(chain) + 1
      /\ \A k \in 1..Len(chain) : InBlock(k)' = InBlock(k)
      /\ \A h \in 0..Len(chain) : Upto(h)' = Upto(h) /\ LinesUpto(h)' = LinesUpto(h)
  BY <1>3, PrefixesStay DEF EvidenceInv, WalkInv
<1>5. ASSUME NEW at \in Heights, Ordered(at), Told(at)
      PROVE  Ordered(at)' /\ Told(at)'
  <2>1. Len(pack.blocks) \in Nat
    BY <1>5, HeightTypes
  <2>2. Ordered(at)'
    BY <1>1, <1>4, <1>5, <2>1 DEF Ordered, Heights
  <2>3. /\ at.latest \in 0..Len(chain) /\ at.issued \in 0..Len(chain)
        /\ at.held \in 0..Len(chain) /\ at.closing \in 0..Len(chain)
        /\ at.booked \in 0..Len(chain)
        /\ Found(at.settled) \in 0..Len(chain)
    <3>1. /\ at.settled \in 0..Len(chain) /\ Found(at.settled) \in 0..at.settled
          /\ Len(chain) \in Nat
      BY <1>5, HeightTypes
    <3> QED
      BY <1>5, <3>1, HeightTypes
  <2>4. /\ Upto(at.issued)' = Upto(at.issued) /\ Upto(at.held)' = Upto(at.held)
        /\ Upto(at.closing)' = Upto(at.closing)
        /\ Upto(Found(at.settled))' = Upto(Found(at.settled))
        /\ LinesUpto(at.booked)' = LinesUpto(at.booked)
    BY <1>4, <2>3
  <2>5. at.latest > 0 => InBlock(at.latest)' = InBlock(at.latest)
    BY <1>4, <2>3
  <2>6. Told(at)'
    BY <1>1, <1>5, <2>4, <2>5 DEF Told
  <2> QED
    BY <2>2, <2>6
<1>6. pc' = "latest rows" =>
        Len(rows') \in Nat /\ Len(pack'.blocks) <= Len(rows') /\ Len(rows') <= Len(chain')
  <2>1. pc = "latest rows" =>
          Len(rows) \in Nat /\ Len(pack.blocks) <= Len(rows) /\ Len(rows) <= Len(chain)
    BY DEF EvidenceInv, AnswersInv
  <2>2. Len(pack'.blocks) = Len(pack.blocks) /\ Len(rows') = Len(rows)
    BY <1>1
  <2>3. \A r \in Nat : r <= Len(chain) => r <= Len(chain')
    BY <1>4
  <2> QED
    BY <1>1, <2>1, <2>2, <2>3
<1>7. AnswersInv'
  BY <1>1, <1>5, <1>6 DEF EvidenceInv, AnswersInv
<1> QED
  BY <1>2, <1>7

\* When the last page is read no answer is there yet, and all are going to be about
\* no fewer blocks than the pages.
LEMMA WalkingAnswers ==
  ASSUME EvidenceInv, BeginCollection \/ ReadPage \/ ReadPageTransactions
  PROVE  LedgerInv' /\ PackInv' /\ AnswersInv'
<1>1. UNCHANGED <<chain, balance>> /\ pc' \in {"page", "page transactions", "latest"}
  BY DEF BeginCollection, ReadPage, ReadPageTransactions, ledger
<1>2. PackInv'
  BY DEF BeginCollection, ReadPage, ReadPageTransactions, EvidenceInv, PackInv
<1>3. LedgerInv'
  BY <1>1, LedgerFrame DEF EvidenceInv
<1>4. Len(chain') \in Nat /\ Len(pack'.blocks) <= Len(chain') /\ Len(pack'.blocks) \in Nat
  <2>1. WalkInv'
    BY BeginStep, ReadPageStep, PageStep DEF EvidenceInv
  <2>2. PrefixInv' /\ ChainInv'
    BY <2>1 DEF WalkInv
  <2> QED
    BY <2>2 DEF PrefixInv, ChainInv
<1>n. PICK n \in Nat : n = Len(chain')
  BY <1>4
<1> DEFINE now == [latest |-> n, issued |-> n, held |-> n, settled |-> n, final |-> n,
                   closing |-> n, booked |-> n]
<1>5. now \in Heights /\ Ordered(now)'
  BY <1>4, <1>n DEF Heights, Ordered
<1>6. pc' = "latest" => Told(now)'
  BY DEF Told, AfterLatest, AfterIssued, AfterBalance, AfterSummary, AfterFinality, AfterClosing
<1>7. pc' \in AfterWalk => pc' = "latest"
  BY <1>1 DEF AfterWalk, AfterLatest, AfterIssued, AfterBalance, AfterSummary, AfterFinality,
              AfterClosing
<1> HIDE DEF now
<1>8. AnswersInv'
  BY <1>1, <1>5, <1>6, <1>7 DEF AnswersInv
<1> QED
  BY <1>2, <1>3, <1>8

\* An answer leaves the blocks alone: what is left is to say how many blocks the answers
\* are about now.
LEMMA AnswerStep ==
  ASSUME EvidenceInv, UNCHANGED <<chain, balance>>, pack'.blocks = pack.blocks, PackInv',
         pc' # "latest rows", NEW at \in Heights, Ordered(at), Told(at)'
  PROVE  LedgerInv' /\ PackInv' /\ AnswersInv'
<1>1. LedgerInv'
  BY LedgerFrame DEF EvidenceInv
<1>2. Ordered(at)'
  BY DEF Ordered
<1> QED
  BY <1>1, <1>2 DEF AnswersInv

\* A snapshot reads as many rows as there are blocks.
LEMMA AllRows ==
  ASSUME ChainInv
  PROVE  Len(BlockRows(Len(chain), 0)) = Len(chain)
<1>1. PICK n \in Nat : n = Len(chain)
  BY DEF ChainInv
<1>2. BlockRows(Len(chain), 0) = [i \in 1..(IF n < n - 0 THEN n ELSE n - 0) |-> 0 + i]
  BY <1>1 DEF BlockRows
<1>3. (IF n < n - 0 THEN n ELSE n - 0) = n
  OBVIOUS
<1> QED
  BY <1>1, <1>2, <1>3

\* The latest block is found in another SELECT than its transactions, but no block is
\* lost that the pages have.
LEMMA LatestAnswers ==
  ASSUME EvidenceInv, ReadPayments \/ ReadLatest
  PROVE  LedgerInv' /\ PackInv' /\ AnswersInv'
<1> USE DEF AfterLatest, AfterIssued, AfterBalance, AfterSummary, AfterFinality, AfterClosing
<1>0. PICK n \in Nat : n = Len(chain) /\ Len(pack.blocks) \in Nat /\ Len(pack.blocks) <= n
  BY WalkTypes DEF EvidenceInv
<1>1. CASE ReadPayments
  <2>1. /\ pc = "latest" /\ pc' = "latest rows" /\ pack' = pack
        /\ rows' = BlockRows(Len(chain), 0) /\ UNCHANGED <<chain, balance>>
    BY <1>1 DEF ReadPayments, ledger
  <2>2. Len(rows') = n
    BY <1>0, <2>1, AllRows DEF EvidenceInv, WalkInv
  <2>3. LedgerInv' /\ PackInv'
    BY <2>1, LedgerFrame DEF EvidenceInv, PackInv
  <2>4. PICK at \in Heights : Ordered(at)
    BY <2>1 DEF EvidenceInv, AnswersInv, AfterWalk
  <2>5. Ordered(at)' /\ Told(at)'
    BY <2>1, <2>4 DEF Ordered, Told
  <2>6. Len(rows') \in Nat /\ Len(pack'.blocks) <= Len(rows') /\ Len(rows') <= Len(chain')
    <3>1. Len(pack'.blocks) = Len(pack.blocks)
      BY <2>1
    <3>2. Len(chain') = Len(chain)
      BY <2>1
    <3>3. n <= n
      OBVIOUS
    <3> QED
      BY <1>0, <2>2, <3>1, <3>2, <3>3
  <2> QED
    BY <2>3, <2>5, <2>6 DEF AnswersInv
<1>2. CASE ReadLatest
  <2> DEFINE latest == [height |-> Len(chain),
                        txs |-> IF Len(rows) = Len(chain) /\ chain # << >>
                                THEN InBlock(Len(chain)) ELSE {}]
             now == [latest |-> n, issued |-> n, held |-> n, settled |-> n, final |-> n,
                     closing |-> n, booked |-> n]
  <2>1. pc = "latest rows"
    BY <1>2 DEF ReadLatest
  <2>2. /\ pack'.latest = latest /\ pack'.blocks = pack.blocks
        /\ PackInv' /\ pc' = "issued" /\ UNCHANGED <<chain, balance>>
    <3>1. Collect("latest", latest, "issued")
      BY <1>2 DEF ReadLatest
    <3>2. "latest" \in DOMAIN EmptyPack /\ "blocks" \in DOMAIN EmptyPack \ {"latest"}
      BY DEF EmptyPack
    <3> HIDE DEF latest
    <3> QED
      BY <3>1, <3>2, Collected DEF EvidenceInv
  <2>3. now \in Heights /\ Ordered(now)
    BY <1>0 DEF Heights, Ordered
  <2>4. now.latest = n
    OBVIOUS
  <2> HIDE DEF now
  <2>5. pack'.latest.height = n
    BY <1>0, <2>2
  <2>6. ASSUME n = Len(pack.blocks), n > 0
        PROVE  pack'.latest.txs = InBlock(n)
    <3>1. Len(rows) = n
      <4>1. Len(rows) \in Nat /\ Len(pack.blocks) <= Len(rows) /\ Len(rows) <= Len(chain)
        BY <2>1 DEF EvidenceInv, AnswersInv
      <4> QED
        BY <1>0, <2>6, <4>1
    <3>2. chain # << >>
      <4>1. chain = << >> => Len(chain) = 0
        OBVIOUS
      <4> QED
        BY <1>0, <2>6, <4>1
    <3> QED
      BY <1>0, <2>2, <3>1, <3>2
  <2>7. InBlock(n)' = InBlock(n)
    BY <2>2, LedgerFrame DEF EvidenceInv
  <2> HIDE DEF latest
  <2>8. Told(now)'
    BY <2>2, <2>4, <2>5, <2>6, <2>7 DEF Told
  <2> QED
    BY <2>2, <2>3, <2>8, AnswerStep
<1> QED
  BY <1>1, <1>2

\* The issued units and the balance are those of all blocks.
LEMMA SupplyAnswers ==
  ASSUME EvidenceInv, ReadIssued \/ ReadBalance
  PROVE  LedgerInv' /\ PackInv' /\ AnswersInv'
<1> USE DEF AfterLatest, AfterIssued, AfterBalance, AfterSummary, AfterFinality, AfterClosing
<1>0. PICK n \in Nat : n = Len(chain)
  BY WalkTypes DEF EvidenceInv
<1>1. CASE ReadIssued
  <2>1. /\ pack'.issued = Issued(Upto(n), Asset)
        /\ pack'.blocks = pack.blocks /\ pack'.latest = pack.latest
        /\ PackInv' /\ pc' = "balance" /\ UNCHANGED <<chain, balance>>
    <3>1. Collect("issued", Issued(Upto(n), Asset), "balance")
      BY <1>0, <1>1, SettledIsAll DEF ReadIssued, EvidenceInv, WalkInv
    <3>2. /\ "issued" \in DOMAIN EmptyPack
          /\ {"blocks", "latest"} \subseteq DOMAIN EmptyPack \ {"issued"}
      BY DEF EmptyPack
    <3> QED
      BY <3>1, <3>2, Collected DEF EvidenceInv
  <2>2. pc = "issued"
    BY <1>1 DEF ReadIssued
  <2>3. PICK at \in Heights : Ordered(at) /\ Told(at)
    BY <2>2 DEF EvidenceInv, AnswersInv, AfterWalk
  <2> DEFINE now == [latest |-> at.latest, issued |-> n, held |-> n, settled |-> n,
                     final |-> n, closing |-> n, booked |-> n]
  <2>4. now \in Heights /\ Ordered(now)
    BY <1>0, <2>3, HeightTypes DEF Heights, Ordered
  <2>5. now.latest = at.latest /\ now.issued = n
    OBVIOUS
  <2> HIDE DEF now
  <2>6. /\ \A h : InBlock(h)' = InBlock(h)
        /\ \A h : Upto(h)' = Upto(h)
    BY <2>1, LedgerFrame DEF EvidenceInv
  <2>7. Told(now)'
    BY <2>1, <2>2, <2>3, <2>5, <2>6 DEF Told
  <2> QED
    BY <2>1, <2>4, <2>7, AnswerStep
<1>2. CASE ReadBalance
  <2>1. /\ pack'.balance = balance[Slot]
        /\ pack'.blocks = pack.blocks /\ pack'.latest = pack.latest
        /\ pack'.issued = pack.issued
        /\ PackInv' /\ pc' = "summary" /\ UNCHANGED <<chain, balance>>
    <3>1. Collect("balance", balance[Slot], "summary")
      BY <1>2 DEF ReadBalance
    <3>2. /\ "balance" \in DOMAIN EmptyPack
          /\ {"blocks", "latest", "issued"} \subseteq DOMAIN EmptyPack \ {"balance"}
      BY DEF EmptyPack
    <3> QED
      BY <3>1, <3>2, Collected DEF EvidenceInv
  <2>2. pc = "balance"
    BY <1>2 DEF ReadBalance
  <2>3. PICK at \in Heights : Ordered(at) /\ Told(at)
    BY <2>2 DEF EvidenceInv, AnswersInv, AfterWalk
  <2> DEFINE now == [latest |-> at.latest, issued |-> at.issued, held |-> n, settled |-> n,
                     final |-> n, closing |-> n, booked |-> n]
  <2>4. now \in Heights /\ Ordered(now)
    BY <1>0, <2>3, HeightTypes DEF Heights, Ordered
  <2>5. now.latest = at.latest /\ now.issued = at.issued /\ now.held = n
    OBVIOUS
  <2> HIDE DEF now
  <2>6. /\ \A h : InBlock(h)' = InBlock(h)
        /\ \A h : Upto(h)' = Upto(h)
    BY <2>1, LedgerFrame DEF EvidenceInv
  <2>7. balance[Slot] = Replayed(Upto(n), Slot)
    BY <1>0, SlotType DEF EvidenceInv, LedgerInv
  <2>8. Told(now)'
    BY <2>1, <2>2, <2>3, <2>5, <2>6, <2>7 DEF Told
  <2> QED
    BY <2>1, <2>4, <2>8, AnswerStep
<1> QED
  BY <1>1, <1>2

\* Both reports read the first blocks up to their limit.
LEMMA FirstRows ==
  ASSUME NEW n \in Nat, n = Len(chain)
  PROVE  BlockRows(ScanLimit, 0) = [i \in 1..Found(n) |-> i]
<1>1. BlockRows(ScanLimit, 0) = [i \in 1..(IF ScanLimit < n - 0 THEN ScanLimit ELSE n - 0) |-> 0 + i]
  BY DEF BlockRows
<1>2. (IF ScanLimit < n - 0 THEN ScanLimit ELSE n - 0) = Found(n) /\ Found(n) \in Nat
  BY LimitAssumption DEF Found
<1>3. \A i \in 1..Found(n) : 0 + i = i
  BY <1>2
<1> QED
  BY <1>1, <1>2, <1>3

\* The rows are about all blocks.
LEMMA RowsOfReports ==
  ASSUME EvidenceInv, ReadReportRows
  PROVE  LedgerInv' /\ PackInv' /\ AnswersInv'
<1> USE DEF AfterLatest, AfterIssued, AfterBalance, AfterSummary, AfterFinality, AfterClosing
<1>0. PICK n \in Nat : n = Len(chain)
  BY WalkTypes DEF EvidenceInv
<1>1. /\ UNCHANGED <<chain, balance, pack>> /\ rows' = [i \in 1..Found(n) |-> i]
      /\ \/ pc = "summary" /\ pc' = "summary transactions"
         \/ pc = "finality" /\ pc' = "finality validators"
  BY <1>0, FirstRows DEF ReadReportRows, ledger
<1>2. PICK at \in Heights : Ordered(at) /\ Told(at)
  BY <1>1 DEF EvidenceInv, AnswersInv, AfterWalk
<1>3. /\ \A h : InBlock(h)' = InBlock(h)
      /\ \A h : Upto(h)' = Upto(h)
  BY <1>1, LedgerFrame DEF EvidenceInv
<1>4. PackInv' /\ pack'.blocks = pack.blocks
  BY <1>1 DEF EvidenceInv, PackInv
<1>5. CASE pc = "summary"
  <2> DEFINE now == [latest |-> at.latest, issued |-> at.issued, held |-> at.held,
                     settled |-> n, final |-> n, closing |-> n, booked |-> n]
  <2>1. now \in Heights /\ Ordered(now)
    BY <1>0, <1>2, HeightTypes DEF Heights, Ordered
  <2>2. /\ now.latest = at.latest /\ now.issued = at.issued /\ now.held = at.held
        /\ now.settled = n
    OBVIOUS
  <2> HIDE DEF now
  <2>3. Told(now)'
    BY <1>1, <1>2, <1>3, <1>5, <2>2 DEF Told
  <2> QED
    BY <1>1, <1>4, <1>5, <2>1, <2>3, AnswerStep
<1>6. CASE pc = "finality"
  <2> DEFINE now == [latest |-> at.latest, issued |-> at.issued, held |-> at.held,
                     settled |-> at.settled, final |-> n, closing |-> n, booked |-> n]
  <2>1. now \in Heights /\ Ordered(now)
    BY <1>0, <1>2, HeightTypes DEF Heights, Ordered
  <2>2. /\ now.latest = at.latest /\ now.issued = at.issued /\ now.held = at.held
        /\ now.settled = at.settled /\ now.final = n
    OBVIOUS
  <2> HIDE DEF now
  <2>3. Told(now)'
    BY <1>1, <1>2, <1>3, <1>6, <2>2 DEF Told
  <2> QED
    BY <1>1, <1>4, <1>6, <2>1, <2>3, AnswerStep
<1> QED
  BY <1>1, <1>5, <1>6

\* The settlement summary adds up the transactions of the blocks it has found, and the
\* finality report counts those whose votes do not suffice, though blocks may have been
\* settled since.
LEMMA ReportAnswers ==
  ASSUME EvidenceInv, ReadSummary \/ ReadFinality
  PROVE  LedgerInv' /\ PackInv' /\ AnswersInv'
<1> USE DEF AfterLatest, AfterIssued, AfterBalance, AfterSummary, AfterFinality, AfterClosing
<1>0. pc = "summary transactions" \/ pc = "finality validators"
  BY DEF ReadSummary, ReadFinality
<1>1. PICK at \in Heights : Ordered(at) /\ Told(at)
  BY <1>0 DEF EvidenceInv, AnswersInv, AfterWalk
<1>2. Found(at.settled) \in Nat /\ Found(at.final) \in Nat
  BY <1>1, LimitAssumption DEF Found, Heights
<1>3. CASE ReadSummary
  <2>1. pc = "summary transactions"
    BY <1>3 DEF ReadSummary
  <2>2. TxsOf(WithTransactions(rows)) = Upto(Found(at.settled))
    <3>1. rows = [i \in 1..Found(at.settled) |-> i]
      BY <1>1, <2>1 DEF Told
    <3> QED
      BY <1>2, <3>1, TxsOfRows
  <2>3. /\ pack'.summary = SummaryOf(Upto(Found(at.settled)))
        /\ pack'.blocks = pack.blocks /\ pack'.latest = pack.latest
        /\ pack'.issued = pack.issued /\ pack'.balance = pack.balance
        /\ PackInv' /\ pc' = "finality" /\ UNCHANGED <<chain, balance>>
    <3>1. Collect("summary", SummaryOf(Upto(Found(at.settled))), "finality")
      BY <1>3, <2>2 DEF ReadSummary
    <3>2. /\ "summary" \in DOMAIN EmptyPack
          /\ {"blocks", "latest", "issued", "balance"} \subseteq DOMAIN EmptyPack \ {"summary"}
      BY DEF EmptyPack
    <3> QED
      BY <3>1, <3>2, Collected DEF EvidenceInv
  <2>4. /\ \A h : InBlock(h)' = InBlock(h)
        /\ \A h : Upto(h)' = Upto(h)
    BY <2>3, LedgerFrame DEF EvidenceInv
  <2>5. Told(at)'
    BY <1>1, <2>1, <2>3, <2>4 DEF Told
  <2> QED
    BY <1>1, <2>3, <2>5, AnswerStep
<1>4. CASE ReadFinality
  <2> DEFINE below == {i \in DOMAIN rows :
                         Len(FinalityVotes(rows[i])) < RequiredVotes(Len(Schedule))}
  <2>1. pc = "finality validators"
    BY <1>4 DEF ReadFinality
  <2>2. Len(rows) = Found(at.final)
    <3>1. rows = [i \in 1..Found(at.final) |-> i]
      BY <1>1, <2>1 DEF Told
    <3> QED
      BY <1>2, <3>1
  <2>3. Cardinality(below) = 0
    <3>1. below = {}
      BY VotesSuffice
    <3> QED
      BY <3>1, FS_EmptySet
  <2>4. Collect("finality", [blocks |-> Found(at.final), below |-> 0], "statement 1")
    <3>1. Collect("finality", [blocks |-> Len(rows), below |-> Cardinality(below)], "statement 1")
      BY <1>4 DEF ReadFinality
    <3> HIDE DEF below
    <3> QED
      BY <2>2, <2>3, <3>1
  <2> HIDE DEF below
  <2>5. /\ pack'.finality = [blocks |-> Found(at.final), below |-> 0]
        /\ pack'.blocks = pack.blocks /\ pack'.latest = pack.latest
        /\ pack'.issued = pack.issued /\ pack'.balance = pack.balance
        /\ pack'.summary = pack.summary
        /\ PackInv' /\ pc' = "statement 1" /\ UNCHANGED <<chain, balance>>
    <3>1. /\ "finality" \in DOMAIN EmptyPack
          /\ {"blocks", "latest", "issued", "balance", "summary"}
               \subseteq DOMAIN EmptyPack \ {"finality"}
      BY DEF EmptyPack
    <3> QED
      BY <2>4, <3>1, Collected DEF EvidenceInv
  <2>6. /\ \A h : InBlock(h)' = InBlock(h)
        /\ \A h : Upto(h)' = Upto(h)
    BY <2>5, LedgerFrame DEF EvidenceInv
  <2>7. Told(at)'
    BY <1>1, <2>1, <2>5, <2>6 DEF Told
  <2> QED
    BY <1>1, <2>5, <2>7, AnswerStep
<1> QED
  BY <1>3, <1>4

\* The balance is read before the entries.
LEMMA StatementRequests ==
  /\ ReadStatement(1, "statement 2") =>
       pc = "statement 1" /\ Collect("closing", Closing(balance[Slot]), "statement 2")
  /\ ReadStatement(2, "done") =>
       /\ pc = "statement 2"
       /\ \E page \in Page(Journal) :
            Collect("entries", {StatementEntry(e) : e \in page}, "done")
<1>1. StatementReads[1] = "closing" /\ StatementReads[2] = "entries"
  BY DEF StatementReads
<1>2. 2 # 1 /\ "closing" # "entries"
  OBVIOUS
<1> QED
  BY <1>1, <1>2, Zenon DEF ReadStatement

\* A statement about all blocks is not about fewer than the reports.
LEMMA StatementOrdered ==
  ASSUME EvidenceInv, NEW at \in Heights, Ordered(at), NEW n \in Nat, n = Len(chain)
  PROVE  LET closed == [latest |-> at.latest, issued |-> at.issued, held |-> at.held,
                        settled |-> at.settled, final |-> at.final, closing |-> n,
                        booked |-> n]
             booked == [latest |-> at.latest, issued |-> at.issued, held |-> at.held,
                        settled |-> at.settled, final |-> at.final, closing |-> at.closing,
                        booked |-> n]
         IN  /\ closed \in Heights /\ Ordered(closed)
             /\ booked \in Heights /\ Ordered(booked)
BY HeightTypes DEF Heights, Ordered

\* The closing balance is that of all blocks settled when it is read, the entries are
\* those of all blocks settled when they are read.
LEMMA StatementAnswers ==
  ASSUME EvidenceInv, ReadStatement(1, "statement 2") \/ ReadStatement(2, "done")
  PROVE  LedgerInv' /\ PackInv' /\ AnswersInv'
<1> USE DEF AfterLatest, AfterIssued, AfterBalance, AfterSummary, AfterFinality, AfterClosing
<1> DEFINE Others == {"blocks", "latest", "issued", "balance", "summary", "finality"}
<1>0. PICK n \in Nat : n = Len(chain)
  BY WalkTypes DEF EvidenceInv
<1>1. pc = "statement 1" \/ pc = "statement 2"
  BY StatementRequests
<1>2. PICK at \in Heights : Ordered(at) /\ Told(at)
  BY <1>1 DEF EvidenceInv, AnswersInv, AfterWalk
<1>3. CASE ReadStatement(1, "statement 2")
  <2>1. Collect("closing", Closing(balance[Slot]), "statement 2") /\ pc = "statement 1"
    BY <1>3, StatementRequests
  <2>2. /\ pack'.closing = Closing(balance[Slot])
        /\ \A part \in Others : pack'[part] = pack[part]
        /\ PackInv' /\ pc' = "statement 2" /\ UNCHANGED <<chain, balance>>
    <3>1. "closing" \in DOMAIN EmptyPack /\ Others \subseteq DOMAIN EmptyPack \ {"closing"}
      BY DEF EmptyPack
    <3> QED
      BY <2>1, <3>1, Collected DEF EvidenceInv
  <2>3. /\ pack'.blocks = pack.blocks /\ pack'.latest = pack.latest
        /\ pack'.issued = pack.issued /\ pack'.balance = pack.balance
        /\ pack'.summary = pack.summary /\ pack'.finality = pack.finality
    BY <2>2
  <2>4. Signed(pack'.closing) = Replayed(Upto(n), Slot)
    <3>1. balance[Slot] \in Int /\ balance[Slot] = Replayed(Upto(n), Slot)
      BY <1>0, SlotType DEF EvidenceInv, LedgerInv
    <3> QED
      BY <2>2, <3>1, ClosingSign
  <2> DEFINE now == [latest |-> at.latest, issued |-> at.issued, held |-> at.held,
                     settled |-> at.settled, final |-> at.final, closing |-> n, booked |-> n]
  <2>5. now \in Heights /\ Ordered(now)
    BY <1>0, <1>2, StatementOrdered
  <2>6. /\ now.latest = at.latest /\ now.issued = at.issued /\ now.held = at.held
        /\ now.settled = at.settled /\ now.final = at.final /\ now.closing = n
    OBVIOUS
  <2> HIDE DEF now
  <2>7. /\ \A h : InBlock(h)' = InBlock(h)
        /\ \A h : Upto(h)' = Upto(h)
    BY <2>2, LedgerFrame DEF EvidenceInv
  <2>8. Told(now)'
    BY <1>2, <2>1, <2>2, <2>3, <2>4, <2>6, <2>7 DEF Told
  <2> QED
    BY <2>2, <2>3, <2>5, <2>8, AnswerStep
<1>4. CASE ReadStatement(2, "done")
  <2>1. PICK page \in Page(Journal) :
          /\ Collect("entries", {StatementEntry(e) : e \in page}, "done")
          /\ pc = "statement 2"
    BY <1>4, StatementRequests
  <2> DEFINE entries == {StatementEntry(e) : e \in page}
  <2>2. /\ pack'.entries = entries
        /\ pack'.closing = pack.closing
        /\ \A part \in Others : pack'[part] = pack[part]
        /\ PackInv' /\ pc' = "done" /\ UNCHANGED <<chain, balance>>
    <3>1. /\ "entries" \in DOMAIN EmptyPack
          /\ Others \cup {"closing"} \subseteq DOMAIN EmptyPack \ {"entries"}
      BY DEF EmptyPack
    <3> HIDE DEF entries
    <3>2. Collect("entries", entries, "done")
      BY <2>1 DEF entries
    <3> QED
      BY <3>1, <3>2, Collected DEF EvidenceInv
  <2>3. /\ pack'.blocks = pack.blocks /\ pack'.latest = pack.latest
        /\ pack'.issued = pack.issued /\ pack'.balance = pack.balance
        /\ pack'.summary = pack.summary /\ pack'.finality = pack.finality
    BY <2>2
  <2>4. Cardinality(entries) < ScanLimit => entries = LinesUpto(n)
    BY <1>0, NothingCutOff DEF EvidenceInv, WalkInv
  <2> HIDE DEF entries
  <2> DEFINE now == [latest |-> at.latest, issued |-> at.issued, held |-> at.held,
                     settled |-> at.settled, final |-> at.final, closing |-> at.closing,
                     booked |-> n]
  <2>5. now \in Heights /\ Ordered(now)
    BY <1>0, <1>2, StatementOrdered
  <2>6. /\ now.latest = at.latest /\ now.issued = at.issued /\ now.held = at.held
        /\ now.settled = at.settled /\ now.final = at.final /\ now.closing = at.closing
        /\ now.booked = n
    OBVIOUS
  <2> HIDE DEF now
  <2>7. /\ \A h : InBlock(h)' = InBlock(h)
        /\ \A h : Upto(h)' = Upto(h) /\ LinesUpto(h)' = LinesUpto(h)
    BY <2>2, LedgerFrame DEF EvidenceInv
  <2>8. Told(now)'
    BY <1>2, <2>1, <2>2, <2>3, <2>4, <2>6, <2>7 DEF Told
  <2> QED
    BY <2>2, <2>3, <2>5, <2>8, AnswerStep
<1> QED
  BY <1>3, <1>4

-----------------------------------------------------------------------------
(* The invariant, and what it says at the end.                             *)

\* Nothing is claimed before the collection begins.
LEMMA EvidenceInit == Init => EvidenceInv
<1> SUFFICES ASSUME Init
             PROVE  EvidenceInv
  OBVIOUS
<1>1. PackInv
  BY DEF Init, PackInv
<1>2. AnswersInv
  BY DEF Init, AnswersInv, AfterWalk, AfterLatest, AfterIssued, AfterBalance, AfterSummary,
         AfterFinality, AfterClosing
<1> QED
  BY <1>1, <1>2, WalkInit, LedgerInit DEF EvidenceInv

\* A step that changes nothing.
LEMMA EvidenceStutter == EvidenceInv /\ UNCHANGED vars => EvidenceInv'
<1> SUFFICES ASSUME EvidenceInv, UNCHANGED vars
             PROVE  EvidenceInv'
  OBVIOUS
<1>1. UNCHANGED <<chain, balance, pc, begin, rows, pack>>
  BY DEF vars, ledger
<1>2. WalkInv'
  <2>1. ChainInv' /\ PrefixInv'
    BY <1>1, PrefixKept DEF EvidenceInv, WalkInv, PrefixInv
  <2>2. PositionInv'
    BY <1>1 DEF EvidenceInv, WalkInv, PositionInv
  <2> QED
    BY <2>1, <2>2 DEF WalkInv
<1>3. /\ LedgerInv'
      /\ \A h : InBlock(h)' = InBlock(h)
      /\ \A h : Upto(h)' = Upto(h) /\ LinesUpto(h)' = LinesUpto(h)
  BY <1>1, LedgerFrame DEF EvidenceInv
<1>4. PackInv'
  BY <1>1 DEF EvidenceInv, PackInv
<1>5. AnswersInv'
  <2>1. ASSUME NEW at \in Heights, Ordered(at), Told(at)
        PROVE  Ordered(at)' /\ Told(at)'
    BY <1>1, <1>3, <2>1 DEF Ordered, Told
  <2> QED
    BY <1>1, <2>1 DEF EvidenceInv, AnswersInv
<1> QED
  BY <1>2, <1>3, <1>4, <1>5 DEF EvidenceInv

\* Every step keeps the invariant.
LEMMA EvidenceStep == EvidenceInv /\ [Next]_vars => EvidenceInv'
<1> SUFFICES ASSUME EvidenceInv, Next
             PROVE  EvidenceInv'
  BY EvidenceStutter
<1>1. WalkInv'
  BY SettleStep, BeginStep, ReadPageStep, PageStep, OtherSteps DEF EvidenceInv
<1>2. LedgerInv' /\ PackInv' /\ AnswersInv'
  BY SettleAnswers, WalkingAnswers, LatestAnswers, SupplyAnswers, RowsOfReports,
     ReportAnswers, StatementAnswers DEF Next
<1> QED
  BY <1>1, <1>2 DEF EvidenceInv

\* The lines up to some block are those of the prefix.
LEMMA LinesOfPrefix ==
  ASSUME ChainInv, NEW g \in 0..Len(chain), NEW h \in 0..g
  PROVE  {e \in LinesUpto(g) : e.height <= h} = LinesUpto(h)
<1>0. g \in Nat /\ h \in Nat /\ h <= g
  BY DEF ChainInv
<1>1. \A k \in 1..g : k \in 1..h <=> k <= h
  BY <1>0
<1>2. \A k \in 1..h : k \in 1..g
  BY <1>0
<1>3. \A t, k : \A e \in Lines(t, k) : e.height = k
  BY DEF Lines, Booked, StatementEntry
<1>4. ASSUME NEW e \in LinesUpto(g), e.height <= h
      PROVE  e \in LinesUpto(h)
  <2>1. PICK k \in 1..g : \E t \in InBlock(k) : e \in Lines(t, k)
    BY DEF LinesUpto
  <2>2. k \in 1..h
    BY <1>1, <1>3, <1>4, <2>1
  <2> QED
    BY <2>1, <2>2 DEF LinesUpto
<1>5. ASSUME NEW e \in LinesUpto(h)
      PROVE  e \in LinesUpto(g) /\ e.height <= h
  <2>1. PICK k \in 1..h : \E t \in InBlock(k) : e \in Lines(t, k)
    BY DEF LinesUpto
  <2>2. k \in 1..g /\ k <= h
    BY <1>0
  <2>3. e.height = k
    BY <1>3, <2>1
  <2> QED
    BY <2>1, <2>2, <2>3 DEF LinesUpto
<1> QED
  BY <1>4, <1>5

\* At the end every answer is about the blocks up to its height.
LEMMA AtTheEnd ==
  ASSUME EvidenceInv, pc = "done"
  PROVE  \E at \in Heights :
           /\ Ordered(at)
           /\ pack.latest.height = at.latest
           /\ at.latest = Len(pack.blocks) /\ at.latest > 0 => pack.latest.txs = InBlock(at.latest)
           /\ pack.issued = Issued(Upto(at.issued), Asset)
           /\ pack.balance = Replayed(Upto(at.held), Slot)
           /\ pack.summary = Totals(Upto(Found(at.settled)))
           /\ pack.finality = [blocks |-> Found(at.final), below |-> 0]
           /\ Signed(pack.closing) = Replayed(Upto(at.closing), Slot)
           /\ Cardinality(pack.entries) < ScanLimit =>
                /\ pack.entries = LinesUpto(at.booked)
                /\ Net(pack.entries) = Replayed(Upto(at.booked), Slot)
<1>1. PICK at \in Heights : Ordered(at) /\ Told(at)
  BY DEF EvidenceInv, AnswersInv, AfterWalk, AfterLatest, AfterIssued, AfterBalance,
         AfterSummary, AfterFinality, AfterClosing
<1>2. Net(LinesUpto(at.booked)) = Replayed(Upto(at.booked), Slot)
  <2>1. at.booked \in 0..Len(chain)
    BY <1>1, HeightTypes
  <2> QED
    BY <2>1, NetOfLines DEF EvidenceInv, WalkInv
<1>3. SummaryOf(Upto(Found(at.settled))) = Totals(Upto(Found(at.settled)))
  BY DEF SummaryOf, Totals
<1> QED
  BY <1>1, <1>2, <1>3
     DEF Told, AfterLatest, AfterIssued, AfterBalance, AfterSummary, AfterFinality, AfterClosing

\* The heights are those of the property.
LEMMA HistorySuffices == EvidenceInv => AnswersFollowChain
<1> SUFFICES ASSUME EvidenceInv, pc = "done"
             PROVE  AnswersFollowChain
  BY DEF AnswersFollowChain
<1>1. PICK at \in Heights :
        /\ Ordered(at)
        /\ pack.latest.height = at.latest
        /\ pack.issued = Issued(Upto(at.issued), Asset)
        /\ pack.balance = Replayed(Upto(at.held), Slot)
        /\ pack.summary = Totals(Upto(Found(at.settled)))
        /\ pack.finality = [blocks |-> Found(at.final), below |-> 0]
        /\ Signed(pack.closing) = Replayed(Upto(at.closing), Slot)
        /\ Cardinality(pack.entries) < ScanLimit =>
             Net(pack.entries) = Replayed(Upto(at.booked), Slot)
  BY AtTheEnd
<1>2. /\ at.latest \in Len(pack.blocks)..Len(chain)
      /\ at.issued \in at.latest..Len(chain)
      /\ at.held \in at.issued..Len(chain)
      /\ at.settled \in at.held..Len(chain)
      /\ at.final \in at.settled..Len(chain)
      /\ at.closing \in at.final..Len(chain)
      /\ at.booked \in at.closing..Len(chain)
  <2>1. Len(chain) \in Nat /\ Len(pack.blocks) \in Nat
    BY <1>1, HeightTypes
  <2> QED
    BY <1>1, <2>1 DEF Heights, Ordered
<1> QED
  BY <1>1, <1>2, Zenon DEF AnswersFollowChain

\* A statement whose entries are all there adds up.
LEMMA StatementSuffices == EvidenceInv => StatementAddsUp
<1> SUFFICES ASSUME EvidenceInv, pc = "done", Cardinality(pack.entries) < ScanLimit
             PROVE  \E h \in 0..Len(chain) :
                      Signed(pack.closing) = Net({e \in pack.entries : e.height <= h})
  BY DEF StatementAddsUp
<1>1. PICK at \in Heights :
        /\ Ordered(at)
        /\ Signed(pack.closing) = Replayed(Upto(at.closing), Slot)
        /\ pack.entries = LinesUpto(at.booked)
  BY AtTheEnd
<1>2. ChainInv /\ LedgerInv
  BY DEF EvidenceInv, WalkInv
<1>3. at.booked \in 0..Len(chain) /\ at.closing \in 0..Len(chain) /\ at.closing \in 0..at.booked
  <2>1. at.booked \in 0..Len(chain) /\ at.closing \in 0..Len(chain)
    BY <1>1, HeightTypes
  <2> QED
    BY <1>1, <2>1 DEF Ordered, Heights
<1>4. {e \in pack.entries : e.height <= at.closing} = LinesUpto(at.closing)
  BY <1>1, <1>2, <1>3, LinesOfPrefix
<1>5. Net(LinesUpto(at.closing)) = Replayed(Upto(at.closing), Slot)
  BY <1>2, <1>3, NetOfLines
<1> QED
  BY <1>1, <1>3, <1>4, <1>5

\* When the finality report is about the collected blocks, so is every answer between
\* the pages and that report.
LEMMA EvidenceSuffices == EvidenceInv => EvidenceReconciles
<1> DEFINE n     == Len(pack.blocks)
           txs   == TxsOf(pack.blocks)
           known == {e \in pack.entries : e.height <= n}
<1> SUFFICES ASSUME EvidenceInv, pc = "done", pack.finality.blocks = n, n < ScanLimit
             PROVE  /\ pack.latest.height = n
                    /\ n > 0 => pack.latest.txs = pack.blocks[n].txs
                    /\ pack.issued = Issued(txs, Asset)
                    /\ pack.balance = Replayed(txs, Slot)
                    /\ pack.summary = Totals(txs)
                    /\ pack.summary.minted - pack.summary.burned = pack.issued
                    /\ pack.finality.below = 0
                    /\ Cardinality(pack.entries) < ScanLimit =>
                         /\ Net(known) = pack.balance
                         /\ known = pack.entries => Signed(pack.closing) = pack.balance
  BY DEF EvidenceReconciles
<1>1. PICK at \in Heights :
        /\ Ordered(at)
        /\ pack.latest.height = at.latest
        /\ at.latest = n /\ at.latest > 0 => pack.latest.txs = InBlock(at.latest)
        /\ pack.issued = Issued(Upto(at.issued), Asset)
        /\ pack.balance = Replayed(Upto(at.held), Slot)
        /\ pack.summary = Totals(Upto(Found(at.settled)))
        /\ pack.finality = [blocks |-> Found(at.final), below |-> 0]
        /\ Signed(pack.closing) = Replayed(Upto(at.closing), Slot)
        /\ Cardinality(pack.entries) < ScanLimit => pack.entries = LinesUpto(at.booked)
  BY AtTheEnd
<1>2. /\ n \in Nat /\ ScanLimit \in Nat
      /\ at.latest = n /\ at.issued = n /\ at.held = n /\ at.settled = n /\ at.final = n
      /\ Found(at.settled) = n
  <2>1. n \in Nat /\ ScanLimit \in Nat
    BY LimitAssumption, WalkTypes DEF EvidenceInv
  <2>2. Found(at.final) = n
    BY <1>1
  <2>3. at.final = n
    BY <2>1, <2>2 DEF Found
  <2>4. n <= at.latest
    BY <1>1 DEF Ordered
  <2> HIDE DEF n
  <2>5. at.latest = n /\ at.issued = n /\ at.held = n /\ at.settled = n
    BY <1>1, <2>1, <2>3, <2>4 DEF Ordered, Heights
  <2> QED
    BY <2>1, <2>2, <2>3, <2>5
<1>3. txs = Upto(n)
  BY CollectedAll DEF EvidenceInv
<1>4. ASSUME n > 0
      PROVE  pack.latest.txs = pack.blocks[n].txs
  <2>1. n \in DOMAIN pack.blocks
    BY <1>2, <1>4, WalkTypes DEF EvidenceInv
  <2>2. pack.blocks[n].txs = InBlock(n)
    BY <2>1 DEF EvidenceInv, WalkInv, PrefixInv
  <2> QED
    BY <1>1, <1>2, <1>4, <2>2
<1>5. ChainInv /\ LedgerInv /\ n \in 0..Len(chain)
  <2>1. n <= Len(chain) /\ Len(chain) \in Nat
    BY WalkTypes DEF EvidenceInv
  <2> QED
    BY <1>2, <2>1 DEF EvidenceInv, WalkInv
<1>6. pack.summary.minted - pack.summary.burned = pack.issued
  <2>1. Upto(n) \in SUBSET Txs
    BY <1>5, UptoTxs
  <2>2. Amount(Upto(n), "MINT") - Amount(Upto(n), "BURN") = Issued(Upto(n), Asset)
    BY <2>1, MintedLessBurned
  <2> QED
    BY <1>1, <1>2, <2>2 DEF Totals
<1>7. ASSUME Cardinality(pack.entries) < ScanLimit
      PROVE  /\ Net(known) = pack.balance
             /\ known = pack.entries => Signed(pack.closing) = pack.balance
  <2>1. /\ at.booked \in 0..Len(chain) /\ at.closing \in 0..Len(chain)
        /\ n \in 0..at.closing /\ n \in 0..at.booked /\ at.closing \in 0..at.booked
    <3>1. at.booked \in 0..Len(chain) /\ at.closing \in 0..Len(chain) /\ Len(chain) \in Nat
      BY <1>1, HeightTypes
    <3>2. at.final <= at.closing /\ at.closing <= at.booked
      BY <1>1 DEF Ordered
    <3> QED
      BY <1>2, <3>1, <3>2
  <2>2. known = LinesUpto(n)
    BY <1>1, <1>5, <1>7, <2>1, LinesOfPrefix
  <2>3. Net(known) = pack.balance
    BY <1>1, <1>2, <1>5, <2>2, NetOfLines
  <2>4. ASSUME known = pack.entries
        PROVE  LinesUpto(at.closing) = LinesUpto(n)
    <3>1. \A e \in LinesUpto(n) : e.height \in 1..n
      BY DEF LinesUpto, Lines, Booked, StatementEntry
    <3>2. \A e \in pack.entries : e.height <= at.closing
      BY <1>2, <2>1, <2>2, <2>4, <3>1
    <3>3. {e \in pack.entries : e.height <= at.closing} = LinesUpto(at.closing)
      BY <1>1, <1>5, <1>7, <2>1, LinesOfPrefix
    <3> QED
      BY <2>2, <2>4, <3>2, <3>3
  <2>5. Net(LinesUpto(at.closing)) = Replayed(Upto(at.closing), Slot)
    BY <1>5, <2>1, NetOfLines
  <2> QED
    BY <1>1, <2>2, <2>3, <2>4, <2>5
<1> QED
  BY <1>1, <1>2, <1>3, <1>4, <1>6, <1>7

\* The closing balance of a camt.053 statement, read before its entries while the
\* validators settle, is the sum of the entries up to some block.
THEOREM StatementsAddUp == Spec => []StatementAddsUp
<1>1. Init => EvidenceInv
  BY EvidenceInit
<1>2. EvidenceInv /\ [Next]_vars => EvidenceInv'
  BY EvidenceStep
<1> QED
  BY <1>1, <1>2, StatementSuffices, PTL DEF Spec

\* The answers of an evidence pack follow the chain in the order of the requests, however
\* many blocks are settled between them, for every ledger and every page and scan limit.
THEOREM EvidenceFollowsChain == Spec => []AnswersFollowChain
<1>1. Init => EvidenceInv
  BY EvidenceInit
<1>2. EvidenceInv /\ [Next]_vars => EvidenceInv'
  BY EvidenceStep
<1> QED
  BY <1>1, <1>2, HistorySuffices, PTL DEF Spec

\* The evidence pack of PHASE5A_LEDGER_REPLAY_FINALITY.md reconciles with the collected
\* blocks whenever its finality report, complete, is about as many blocks, for every
\* ledger, every page and scan limit and every schedule of the settlements.
THEOREM EvidenceIsConsistent == Spec => []EvidenceReconciles
<1>1. Init => EvidenceInv
  BY EvidenceInit
<1>2. EvidenceInv /\ [Next]_vars => EvidenceInv'
  BY EvidenceStep
<1> QED
  BY <1>1, <1>2, EvidenceSuffices, PTL DEF Spec

\* What the operator observes is the atomic ledger: the validators append a block of it,
\* and no request changes it.
THEOREM ObservesAtomicLedger == Spec => [][Ledger!Next]_<<chain, balance, nonce>>
<1>1. ChainInv /\ [Next]_vars => [Ledger!Next]_<<chain, balance, nonce>>
  <2>1. ASSUME ChainInv, Settle
        PROVE  Ledger!AppendBlock
    <3>1. nonce' = nonce
      BY <2>1 DEF Settle
    <3>2. PICK txs \in Ledger!Batches(Txs \ Ledger!Settled) :
            /\ Ledger!ValidBatch(txs, nonce)
            /\ chain' = Append(chain, txs)
            /\ balance' = Ledger!Balances(txs)[Len(txs)]
      BY <2>1 DEF Settle
    <3>3. Len(chain') = Len(chain) + 1
      <4>1. Txs \ Ledger!Settled \in SUBSET Txs
        OBVIOUS
      <4>2. txs \in Seq(Txs)
        BY <4>1, NewBatch
      <4> QED
        BY <2>1, <3>2, <4>2, PrefixesStay
    <3>4. Ledger!Extend(txs)
      BY <3>1, <3>2 DEF Ledger!Extend
    <3> QED
      BY <3>1, <3>3, <3>4 DEF Ledger!AppendBlock
  <2>2. ASSUME Next, ~Settle
        PROVE  UNCHANGED <<chain, balance, nonce>>
    BY <2>2
       DEF Next, ledger, BeginCollection, ReadPage, ReadPageTransactions, ReadIssued,
           ReadBalance, ReadReportRows, ReadSummary, ReadFinality, ReadStatement,
           ReadPayments, ReadLatest, Collect
  <2>3. UNCHANGED vars => UNCHANGED <<chain, balance, nonce>>
    BY DEF vars, ledger
  <2> QED
    BY <2>1, <2>2, <2>3 DEF Ledger!Next
<1>2. Spec => []EvidenceInv
  <2>1. Init => EvidenceInv
    BY EvidenceInit
  <2>2. EvidenceInv /\ [Next]_vars => EvidenceInv'
    BY EvidenceStep
  <2> QED
    BY <2>1, <2>2, PTL DEF Spec
<1>3. EvidenceInv => ChainInv
  BY DEF EvidenceInv, WalkInv
<1> QED
  BY <1>1, <1>2, <1>3, PTL DEF Spec
=============================================================================
