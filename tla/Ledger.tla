------------------------------- MODULE Ledger -------------------------------
(***************************************************************************)
(* The relayer's database of the Flare -> Mina direction: the ledger of    *)
(* the shared chain (transfers), and a row for every transfer of a rail    *)
(* (withdrawals and locks), in db/index.ts; and the watcher of             *)
(* transfers.ts that fills both from Flare's logs.                         *)
(*                                                                         *)
(* A head is the position of the record that made it, 0 the empty chain:   *)
(* ReturnPath and AssetRail show that what Mina accepts and consumes are   *)
(* heads of the chain.  A record's row has the record's position.  One     *)
(* record is in each window of blocks that the watcher asks for.           *)
(***************************************************************************)
EXTENDS Integers, Sequences, FiniteSetsExt, SequencesExt

CONSTANTS
  Rails,        \* consumers on Mina, by the token whose records they take
  Escrow,       \* the rail that releases; the others mint
  Deployments,  \* what to explore, see Deployment
  Lookback,     \* TRANSFER_LOOKBACK_BLOCKS, in windows
  Null

Record == [token : Rails, recipient : STRING, amount : Nat]

\* A deployment: the consumers that are configured, what Flare will record,
\* and bounds on Flare's signing policies, of which one is in force from the
\* start, and on what goes wrong.
Deployment ==
  [consumers : SUBSET Rails, chain : Seq(Record), policies : Nat \ {0}, faults : Nat]

ASSUME LedgerAssumption ==
  /\ \A d \in Deployments : d \in Deployment
  /\ Escrow \in Rails /\ Lookback \in Nat \ {0}
  /\ Null \notin Rails /\ Null \notin Nat /\ Null \notin STRING
  /\ Null \notin [recipient : STRING, amount : Nat]

VARIABLES
  deployment,  \* never changes
  flareLen,    \* Flare: how many records the chain has
  transfers,   \* the ledger, by position
  rows,        \* the status of each row, "none" before it is inserted
  scannedTo    \* in memory: the last window scanned

ledgerVars == <<deployment, flareLen, transfers, rows, scannedTo>>

Consumers == deployment.consumers
Chain == deployment.chain
Positions == 1 .. Len(Chain)
HeadsSeen == 0 .. Len(Chain)

RowStatus == {"none", "seen", "published", "sending", "settled"}

LedgerTypeOK ==
  /\ deployment \in Deployments
  /\ flareLen \in HeadsSeen
  /\ transfers \in SUBSET Positions
  /\ rows \in [Positions -> RowStatus]
  /\ scannedTo \in HeadsSeen \union {Null}

LedgerInit ==
  /\ deployment \in Deployments
  /\ flareLen = 0 /\ transfers = {} /\ scannedTo = Null
  /\ rows = [p \in Positions |-> "none"]

----------------------------------------------------------------------------
(* Queries.                                                                *)

transferIndexOf(head) == IF head \in transfers THEN head ELSE Null

\* A range of the chain is the records after start, up to to.
Range_(start, to) == [start |-> start, to |-> to]
RecordsOf(range) == range.start + 1 .. range.to
OwnIn(rail, range) == {p \in RecordsOf(range) : Chain[p].token = rail}
IsEmptyRange(range) == range.to <= range.start

\* Null when an end is unknown or there is a hole.
transferRange(from, to) ==
  IF /\ from = 0 \/ from \in transfers
     /\ to \in transfers
     /\ from + 1 .. to \subseteq transfers
  THEN Range_(from, to) ELSE Null

RowsOf(rail) == {p \in Positions : Chain[p].token = rail}

\* Altered Waiting: a row whose transaction was sent once is not sent again.
WaitingUnsent(rail, table) == {p \in RowsOf(rail) : table[p] = "published"}

\* Rows waiting for a transaction: releasableWithdrawals and mintableLocks.
Waiting(rail, table) ==
  {p \in RowsOf(rail) : table[p] \in {"published", "sending"}}

Oldest(n, ps) == {p \in ps : Cardinality({q \in ps : q < p}) < n}

\* markWithdrawalsPublished and markLocksPublished, through the ledger.
Promoted(rail, accepted, table) ==
  [p \in Positions |->
    IF /\ p \in RowsOf(rail) /\ table[p] = "seen"
       /\ accepted \in transfers /\ p <= accepted
    THEN "published" ELSE table[p]]

\* The rows in ps are marked minted or released.
Settled(ps, table) == [p \in Positions |-> IF p \in ps THEN "settled" ELSE table[p]]

----------------------------------------------------------------------------
(* Flare records a transfer; the watcher scans the next window.            *)

RecordTransfer ==
  /\ flareLen < Len(Chain)
  /\ flareLen' = flareLen + 1
  /\ UNCHANGED <<deployment, transfers, rows, scannedTo>>

\* The record that is scanned next.
Scanned == (IF scannedTo = Null THEN Max({0, flareLen - Lookback}) ELSE scannedTo) + 1

\* Inserts are idempotent, so what is scanned again is not written again.  The
\* record and its row are two inserts, and the process may end between them.
recordTransfer ==
  /\ Scanned <= flareLen /\ Scanned \notin transfers
  /\ transfers' = transfers \union {Scanned}
  /\ scannedTo' = Scanned - 1
  /\ UNCHANGED <<deployment, flareLen, rows>>

\* The record is in the ledger, and its row goes in if it is not there.
InsertRow ==
  /\ rows' = [rows EXCEPT ![Scanned] = IF @ = "none" THEN "seen" ELSE @]
  /\ scannedTo' = Scanned
  /\ UNCHANGED <<deployment, flareLen, transfers>>

Indexed == Scanned <= flareLen /\ Scanned \in transfers
recordWithdrawal == Indexed /\ Chain[Scanned].token = Escrow /\ InsertRow
recordLock == Indexed /\ Chain[Scanned].token # Escrow /\ InsertRow

watch == recordTransfer \/ recordWithdrawal \/ recordLock
=============================================================================
