------------------------------ MODULE Deposits ------------------------------
(***************************************************************************)
(* A deposit through the relayer, from the form to the mint: the routes of *)
(* server.ts and their rows (db/index.ts), the depositor's page            *)
(* (Bridge.tsx), the lane that builds (Lanes), Mina, the watcher that      *)
(* attests (watcher.ts), and the claim that it or the depositor's wallet   *)
(* submits to Flare (submitter.ts, flare.ts).                              *)
(*                                                                         *)
(* The page and the relayer fail apart from each other: the relayer starts *)
(* again with its rows and nothing else, and the page loses an answer, or  *)
(* is closed after its wallet has sent.  The bridge refuses what its owner *)
(* has it refuse, and anyone may post that a claim has landed.             *)
(***************************************************************************)
EXTENDS Lanes, FiniteSetsExt

CONSTANTS
  Deposits,            \* the builds that are asked for, among Requests
  Deposit,             \* of each, its sender, recipient and amount
  ZeroAddress,
  MinAttested, MaxAttested,
  TickLimit,           \* the LIMIT of submittedDeposits
  AttestorKey,         \* that the watcher signs with
  Bridges,             \* settings the bridge may have
  Submitters,          \* whether the relayer may have a key to pay claims with
  MaxFaults            \* bound on what goes wrong and on what the owner changes

ASSUME DepositsAssumption ==
  /\ Deposits \subseteq Requests
  /\ \A d \in Deposits : Deposit[d].amount \in Nat \ {0}
  /\ MinAttested \in Nat /\ MaxAttested \in Nat /\ MaxFaults \in Nat
  /\ TickLimit \in Nat \ {0} /\ Submitters \subseteq BOOLEAN
  /\ \A b \in Bridges : /\ b.paused \in BOOLEAN /\ b.maxAttestedDeposit \in Nat
                        /\ b.attestedMintCap \in Nat

VARIABLES
  page,      \* where the depositor's page and its HTTP call are
  nonce,     \* the nonce the route has read, and then the row's
  rows,      \* the status of the row, "none" before it is inserted
  id,        \* of the row: 1, 2, ... as they are inserted, 0 before
  flareTx,   \* flare_tx_hash: who wrote the hash that is there
  onMina,    \* the transaction the wallet sent
  watch,     \* the watcher's tick: rows left, and the balance it has read
  submitter, \* submitterConfigured
  bridge,    \* Flare: the settings of the bridge
  minted,    \* Flare: consumedIntents of the bridge
  onFlare,   \* claims that wallets of depositors sent, while they are pending
  withdrawn, \* what was minted, burned and paid out of the escrow again
  faults

rowVars == <<rows, id, flareTx>>
flareVars == <<bridge, minted, onFlare, withdrawn>>
vars == <<laneVars, page, nonce, rowVars, onMina, watch, submitter, flareVars, faults>>

Intent(d) == [deposit |-> Deposit[d], nonce |-> nonce[d]]
Resting == [todo |-> {}, balance |-> Null]

AmountsOf(intents) == MapThenSumSet(LAMBDA i : i.deposit.amount, intents)

\* What the escrow holds.
Escrow == MapThenSumSet(LAMBDA d : Deposit[d].amount, {d \in Deposits : onMina[d] = "landed"})
            - AmountsOf(withdrawn)

TypeOK ==
  /\ LanesTypeOK
  /\ page \in [Deposits -> {"new", "read", "building", "signing", "sent", "reported",
                            "mined", "told", "over"}]
  /\ nonce \in [Deposits -> 0 .. Cardinality(Deposits)]
  /\ rows \in [Deposits -> {"none", "built", "submitted", "attested", "claimed", "failed"}]
  /\ id \in [Deposits -> 0 .. Cardinality(Deposits)]
  /\ flareTx \in [Deposits -> {"none", "relayer", "posted"}]
  /\ onMina \in [Deposits -> {"none", "pending", "landed", "lost"}]
  /\ watch.todo \subseteq Deposits /\ watch.balance \in Nat \union {Null}
  /\ submitter \in Submitters /\ bridge \in Bridges
  /\ minted \subseteq {Intent(d) : d \in Deposits} /\ withdrawn \subseteq minted
  /\ onFlare \subseteq Deposits
  /\ faults \in 0 .. MaxFaults

Init ==
  /\ LanesInit
  /\ page = [d \in Deposits |-> "new"] /\ nonce = [d \in Deposits |-> 0]
  /\ rows = [d \in Deposits |-> "none"] /\ id = [d \in Deposits |-> 0]
  /\ flareTx = [d \in Deposits |-> "none"] /\ onMina = [d \in Deposits |-> "none"]
  /\ watch = Resting /\ submitter \in Submitters
  /\ bridge \in Bridges /\ minted = {} /\ onFlare = {} /\ withdrawn = {}
  /\ faults = 0

Goes(d, to) == page[d] = to[1] /\ page' = [page EXCEPT ![d] = to[2]]

----------------------------------------------------------------------------
(* POST /deposits/build: two queries and the lane, awaited one by one.     *)

RowsOf(sender) == {d \in Deposits : rows[d] # "none" /\ Deposit[d].sender = sender}

nextNonceFor(d) ==
  /\ Goes(d, <<"new", "read">>)
  /\ nonce' = [nonce EXCEPT ![d] =
       LET own == RowsOf(Deposit[d].sender)
       IN  IF own = {} THEN 0 ELSE 1 + Max({nonce[o] : o \in own})]
  /\ UNCHANGED <<laneVars, rowVars, onMina, watch, submitter, flareVars, faults>>

\* Altered Taken: no constraint on (mina_sender, nonce).
NeverTaken(d) == FALSE

\* UNIQUE (mina_sender, nonce).
Taken(d) == \E o \in RowsOf(Deposit[d].sender) : nonce[o] = nonce[d]

recordBuilt(d) ==
  /\ \/ /\ Taken(d) /\ Goes(d, <<"read", "over">>)
        /\ UNCHANGED <<laneVars, rowVars>>
     \/ /\ ~Taken(d) /\ Goes(d, <<"read", "building">>)
        /\ rows' = [rows EXCEPT ![d] = "built"]
        /\ id' = [id EXCEPT ![d] = 1 + Cardinality({o \in Deposits : rows[o] # "none"})]
        /\ submit(d) /\ UNCHANGED flareTx
  /\ UNCHANGED <<nonce, onMina, watch, submitter, flareVars, faults>>

\* The answer: the page compares what it escrows with what was asked for.
Respond(d) ==
  /\ \/ status[d] = "built" /\ Goes(d, <<"building", "signing">>)
     \/ status[d] = "failed" /\ Goes(d, <<"building", "over">>)
  /\ UNCHANGED <<laneVars, nonce, rowVars, onMina, watch, submitter, flareVars, faults>>

----------------------------------------------------------------------------
(* The wallet, Mina, and the report.                                       *)

Sign(d) ==
  /\ \/ Goes(d, <<"signing", "sent">>) /\ onMina' = [onMina EXCEPT ![d] = "pending"]
     \/ Goes(d, <<"signing", "over">>) /\ UNCHANGED onMina
  /\ UNCHANGED <<laneVars, nonce, rowVars, watch, submitter, flareVars, faults>>

\* It lands, or another transaction of the sender has taken its nonce.
Include(d) ==
  /\ onMina[d] = "pending"
  /\ \E fate \in {"landed", "lost"} : onMina' = [onMina EXCEPT ![d] = fate]
  /\ UNCHANGED <<laneVars, page, nonce, rowVars, watch, submitter, flareVars, faults>>

\* POST /deposits/:id/submitted.
markSubmitted(d) ==
  /\ Goes(d, <<"sent", "reported">>)
  /\ rows' = [rows EXCEPT ![d] = IF @ = "built" THEN "submitted" ELSE @]
  /\ UNCHANGED <<laneVars, nonce, id, flareTx, onMina, watch, submitter, flareVars, faults>>

----------------------------------------------------------------------------
(* The watcher.                                                            *)

Older(d) == {o \in Deposits : rows[o] = "submitted" /\ id[o] < id[d]}

\* The oldest rows that were submitted, as many as one query returns.
submittedDeposits == {d \in Deposits : rows[d] = "submitted" /\ Cardinality(Older(d)) < TickLimit}

\* It reads them, and the escrow's balance, which a node may not know.
Tick ==
  /\ watch.todo = {} /\ submittedDeposits # {}
  /\ \E balance \in {Escrow, Null} : watch' = [todo |-> submittedDeposits, balance |-> balance]
  /\ UNCHANGED <<laneVars, page, nonce, rowVars, onMina, submitter, flareVars, faults>>

withinPolicy(d) == Deposit[d].amount \in MinAttested .. MaxAttested

\* Altered Attested: an escrow that does not cover a row fails it.
FailedIfShort(d) ==
  IF ~withinPolicy(d) \/ (watch.balance # Null /\ watch.balance < Deposit[d].amount) THEN "failed"
  ELSE IF rows[d] = "submitted" THEN "attested" ELSE rows[d]

\* What becomes of a row of the tick: markFailed, nothing, or markAttested.
Attested(d) ==
  IF ~withinPolicy(d) THEN "failed"
  ELSE IF watch.balance # Null /\ watch.balance < Deposit[d].amount THEN rows[d]
  ELSE IF rows[d] = "submitted" THEN "attested" ELSE rows[d]

TickRow ==
  \E d \in watch.todo :
    /\ \A o \in watch.todo : id[d] <= id[o]
    /\ rows' = [rows EXCEPT ![d] = Attested(d)]
    /\ watch' = IF watch.todo = {d} THEN Resting ELSE [watch EXCEPT !.todo = @ \ {d}]
    /\ UNCHANGED <<laneVars, page, nonce, id, flareTx, onMina, submitter, flareVars, faults>>

----------------------------------------------------------------------------
(* The claim.                                                              *)

AttestedMinted == AmountsOf(minted)

\* claimWithMinaSignature mints an intent once, never to the zero address, and
\* within the settings the bridge has.
Accepts(d) ==
  /\ ~bridge.paused /\ bridge.escrowAttestor = AttestorKey
  /\ Deposit[d].recipient # ZeroAddress
  /\ Deposit[d].amount <= bridge.maxAttestedDeposit
  /\ AttestedMinted + Deposit[d].amount <= bridge.attestedMintCap
  /\ Intent(d) \notin minted

\* The page, which polls the rows, offers what is attested; its wallet signs the
\* row's intent.
offered(d) == rows[d] = "attested" /\ page[d] = "reported"

WritesClaimed(d, by) ==
  /\ rows' = [rows EXCEPT ![d] = "claimed"] /\ flareTx' = [flareTx EXCEPT ![d] = by]
  /\ UNCHANGED id

\* Altered submitClaim: the row is marked and then the claim is sent.
ClaimMarkedFirst(d) ==
  /\ submitter /\ offered(d) /\ Goes(d, <<"reported", "mined">>)
  /\ WritesClaimed(d, "relayer")
  /\ UNCHANGED <<laneVars, nonce, onMina, watch, submitter, flareVars, faults>>

\* The relayer is asked to pay, and waits for the receipt.  A claim that is
\* refused changes nothing, and the page offers it again.
submitClaim(d) ==
  /\ submitter /\ offered(d) /\ Goes(d, <<"reported", "mined">>)
  /\ Accepts(d) /\ minted' = minted \union {Intent(d)}
  /\ UNCHANGED <<laneVars, nonce, rowVars, onMina, watch, submitter, bridge, onFlare, withdrawn,
                 faults>>

\* POST /deposits/:id/claim, once it was mined.
markClaimed(d) ==
  /\ Goes(d, <<"mined", "over">>) /\ WritesClaimed(d, "relayer")
  /\ UNCHANGED <<laneVars, nonce, onMina, watch, submitter, flareVars, faults>>

\* No relayer pays: the depositor's wallet sends the claim, ...
claimAlone(d) ==
  /\ ~submitter /\ offered(d) /\ d \notin onFlare /\ Goes(d, <<"reported", "told">>)
  /\ onFlare' = onFlare \union {d}
  /\ UNCHANGED <<laneVars, nonce, rowVars, onMina, watch, submitter, bridge, minted, withdrawn,
                 faults>>

\* ... the page reports its hash and waits for nothing, ...
postClaimed(d) ==
  /\ Goes(d, <<"told", "over">>) /\ WritesClaimed(d, "posted")
  /\ UNCHANGED <<laneVars, nonce, onMina, watch, submitter, flareVars, faults>>

\* ... and Flare mints or reverts, or never takes it.
Settle(d) ==
  /\ d \in onFlare /\ onFlare' = onFlare \ {d}
  /\ \/ Accepts(d) /\ minted' = minted \union {Intent(d)}
     \/ UNCHANGED minted
  /\ UNCHANGED <<laneVars, page, nonce, rowVars, onMina, watch, submitter, bridge, withdrawn,
                 faults>>

\* What was minted is burned, and the escrow pays it.
Withdraw ==
  /\ \E i \in minted \ withdrawn :
       i.deposit.amount <= Escrow /\ withdrawn' = withdrawn \union {i}
  /\ UNCHANGED <<laneVars, page, nonce, rowVars, onMina, watch, submitter, bridge, minted, onFlare,
                 faults>>

----------------------------------------------------------------------------
(* What goes wrong, and what the bridge's owner changes.                   *)

\* Rows survive, and pages with nothing asked of the relayer, which may be
\* started with or without a key to pay claims with.
Crash ==
  /\ provers' = [l \in Lane |-> [child |-> Null, queue |-> << >>, pending |-> {}]]
  /\ processes' = [g \in DOMAIN processes |-> [Process(processes[g].lane) EXCEPT !.phase = "gone"]]
  /\ status' = [r \in Requests |-> IF status[r] = "new" THEN "new" ELSE "failed"]
  /\ page' = [d \in Deposits |->
       CASE page[d] \in {"read", "building"} -> "over"
         [] page[d] = "mined" -> "reported"
         [] OTHER -> page[d]]
  /\ watch' = Resting /\ submitter' \in Submitters
  /\ UNCHANGED <<nonce, rowVars, onMina, flareVars>>

\* The report of the deposit does not reach the relayer, and the page does not
\* repeat it; that of the claim does not, and the row still offers it.
ReportLost(d) ==
  /\ Goes(d, <<"sent", "over">>) \/ Goes(d, <<"told", "reported">>)
  /\ UNCHANGED <<laneVars, nonce, rowVars, onMina, watch, submitter, flareVars>>

\* POST /deposits/:id/claimed asks nothing of who calls it.
PostedByAnyone(d) ==
  /\ rows[d] # "none" /\ WritesClaimed(d, "posted")
  /\ UNCHANGED <<laneVars, page, nonce, onMina, watch, submitter, flareVars>>

WorkerDies(g) ==
  /\ Ends(g)
  /\ UNCHANGED <<page, nonce, rowVars, onMina, watch, submitter, flareVars>>

Administer ==
  /\ bridge' \in Bridges \ {bridge}
  /\ UNCHANGED <<laneVars, page, nonce, rowVars, onMina, watch, submitter, minted, onFlare,
                 withdrawn>>

Fault ==
  /\ faults < MaxFaults /\ faults' = faults + 1
  /\ \/ Crash \/ Administer
     \/ \E d \in Deposits : ReportLost(d) \/ PostedByAnyone(d)
     \/ \E g \in DOMAIN processes : WorkerDies(g)

----------------------------------------------------------------------------

Elsewhere == <<page, nonce, rowVars, onMina, watch, submitter, flareVars, faults>>

\* The other requests on the lanes: burns, publications, releases and mints.
OtherRequest(r) == r \notin Deposits /\ submit(r) /\ UNCHANGED Elsewhere

LaneWork == LaneStep /\ UNCHANGED Elsewhere
Watcher == Tick \/ TickRow
Handle(d) ==
  recordBuilt(d) \/ Respond(d) \/ markSubmitted(d) \/ markClaimed(d) \/ postClaimed(d)
Claim(d) == submitClaim(d) \/ claimAlone(d)

Next ==
  \/ LaneWork \/ Watcher \/ Withdraw \/ Fault
  \/ \E r \in Requests : OtherRequest(r)
  \/ \E d \in Deposits :
       nextNonceFor(d) \/ Handle(d) \/ Sign(d) \/ Include(d) \/ Claim(d) \/ Settle(d)

Spec == Init /\ [][Next]_vars

\* Workers work, handlers run to their end, the watcher polls, the chains take
\* what is pending or drop it, and a depositor who is offered a claim takes it.
\* Nobody owes a deposit, a signature or a withdrawal.
Fairness ==
  /\ WF_vars(LaneWork) /\ WF_vars(Watcher)
  /\ \A d \in Deposits :
       WF_vars(Handle(d)) /\ WF_vars(Claim(d)) /\ WF_vars(Include(d)) /\ WF_vars(Settle(d))

FairSpec == Spec /\ Fairness

----------------------------------------------------------------------------
(* Properties.                                                             *)

\* No two deposits that landed through this relayer have the same intent, of
\* which Flare mints one: their nonces differ whatever the requests for them
\* interleave with (db/index.ts nextNonceFor, schema.sql UNIQUE).
DepositsAreDistinct ==
  \A d, e \in Deposits :
    d # e /\ onMina[d] = "landed" /\ onMina[e] = "landed" => Intent(d) # Intent(e)

\* A row whose claim the relayer paid was minted, over crashes between the claim
\* and the row, whatever the owner of the bridge sets and whoever posts hashes
\* (server.ts /deposits/:id/claim).
PaidClaimsWereMinted ==
  \A d \in Deposits : rows[d] = "claimed" /\ flareTx[d] = "relayer" => Intent(d) \in minted

\* The route for claims the relayer did not pay says as much of every row: "the
\* mint already happened" (server.ts:384).  TLC refutes it in MCDeposits (README,
\* 4): a hash that is posted is not looked up.
ClaimedWereMinted == \A d \in Deposits : rows[d] = "claimed" => Intent(d) \in minted

\* Its row waits: the escrow does not hold the deposit, or does not hold what
\* fills every query before it.
Uncovered(d) == rows[d] = "submitted" /\ withinPolicy(d) /\ Escrow < Deposit[d].amount
Starved(d) == Uncovered(d) \/ Cardinality({o \in Older(d) : Uncovered(o)}) >= TickLimit

\* A deposit that landed and was reported is minted, over crashes of the relayer
\* and its workers, lost reports and changes of the bridge (watcher.ts tick,
\* server.ts /deposits/:id/claim), if from some time on the bridge would accept
\* it and its row is not starved, and unless somebody posts a hash for it.
ReportedDepositsAreMinted ==
  \A d \in Deposits :
    <>[](Accepts(d) \/ Intent(d) \in minted) /\ <>[]~Starved(d)
      => (rows[d] = "submitted" /\ onMina[d] = "landed" /\ withinPolicy(d)
            ~> Intent(d) \in minted \/ flareTx[d] = "posted")

\* Every deposit that landed is minted, under the same conditions: the row is
\* written before it can, so the relayer does not lose track of it (server.ts
\* /deposits/build).  TLC refutes it in MCDeposits (README, 4): a row that nobody
\* reports stays built.
LandedDepositsAreMinted ==
  \A d \in Deposits :
    <>[](Accepts(d) \/ Intent(d) \in minted) /\ <>[]~Starved(d)
      => (onMina[d] = "landed" /\ withinPolicy(d)
            ~> Intent(d) \in minted \/ flareTx[d] = "posted")
=============================================================================
