--------------------------- MODULE DepositsProofs ---------------------------
(***************************************************************************)
(* For any deposits and depositors, any number of faults and of workers:   *)
(*                                                                         *)
(* No two deposits that landed have one intent, and what the relayer paid  *)
(* for and calls claimed was minted, whatever the lanes answer, whatever   *)
(* the bridge's owner sets and whoever posts hashes.  Neither follows from *)
(* the nonce a route has read, which is stale by the time the row is       *)
(* inserted; both rest on what the table refuses, and on every later step  *)
(* having a row to go by.                                                  *)
(*                                                                         *)
(* A lane proves one thing at a time.  What a live worker has been sent or *)
(* is proving is what its lane has pending, so a settlement makes room for *)
(* the next request only when the worker is free; a worker that was given  *)
(* up owes only what was said of it before.                                *)
(***************************************************************************)
EXTENDS Deposits, SequenceTheorems, TLAPS

\* No row has the sender and the nonce of another.
RowsDistinct ==
  \A d, e \in Deposits :
    /\ rows[d] # "none" /\ rows[e] # "none"
    /\ Deposit[d].sender = Deposit[e].sender /\ nonce[d] = nonce[e]
    => d = e

\* A nonce that may still change is of no row.
BeforeItsRow == \A d \in Deposits : page[d] \in {"new", "read"} => rows[d] = "none"

\* What was built, sent or is looked at by the watcher has a row.
HasItsRow ==
  /\ \A d \in Deposits :
       page[d] \in {"building", "signing", "sent", "reported", "mined", "told"} => rows[d] # "none"
  /\ \A d \in Deposits : onMina[d] # "none" => rows[d] # "none"
  /\ watch.todo \subseteq {d \in Deposits : rows[d] # "none"}

\* What the relayer's row or the page it answers takes to be minted is.
ToldIsMinted ==
  \A d \in Deposits :
    (rows[d] = "claimed" /\ flareTx[d] = "relayer") \/ page[d] = "mined" => Intent(d) \in minted

Shape == /\ DOMAIN page = Deposits /\ DOMAIN nonce = Deposits /\ DOMAIN rows = Deposits
         /\ DOMAIN flareTx = Deposits /\ DOMAIN onMina = Deposits

DepositsInv == Shape /\ RowsDistinct /\ BeforeItsRow /\ HasItsRow /\ ToldIsMinted

depositVars == <<page, nonce, rows, flareTx, onMina, watch, minted>>

\* A step of a page, read off its two ends.
LEMMA GoesWrites ==
  ASSUME Shape, NEW d \in Deposits, NEW from, NEW to, Goes(d, <<from, to>>)
  PROVE  /\ page[d] = from /\ page'[d] = to /\ DOMAIN page' = Deposits
         /\ \A e \in Deposits : e # d => page'[e] = page[e]
BY DEF Goes, Shape

\* Steps of the page alone, which leave every row, nonce and intent.
LEMMA PageMoves ==
  ASSUME DepositsInv, UNCHANGED <<nonce, rows, flareTx, minted>>, DOMAIN page' = Deposits,
         DOMAIN onMina' = Deposits, watch' = watch,
         \A d \in Deposits : page'[d] \in {"new", "read"} => page[d] = page'[d],
         \A d \in Deposits :
           page'[d] \in {"building", "signing", "sent", "reported", "mined", "told"} =>
             rows[d] # "none",
         \A d \in Deposits : onMina'[d] # "none" => rows[d] # "none",
         \A d \in Deposits : page'[d] = "mined" => Intent(d) \in minted
  PROVE  DepositsInv'
<1>1. \A d \in Deposits : Intent(d)' = Intent(d)
  BY DEF Intent
<1> QED
  BY <1>1 DEF DepositsInv, Shape, RowsDistinct, BeforeItsRow, HasItsRow, ToldIsMinted

LEMMA InitDeposits == Init => DepositsInv
BY DEF Init, Resting, DepositsInv, Shape, RowsDistinct, BeforeItsRow, HasItsRow, ToldIsMinted

LEMMA FrameDeposits == DepositsInv /\ UNCHANGED depositVars => DepositsInv'
BY DEF depositVars, DepositsInv, Shape, RowsDistinct, BeforeItsRow, HasItsRow, ToldIsMinted,
       Intent

----------------------------------------------------------------------------
(* The routes.                                                             *)

\* A nonce that is read belongs to no row yet.
LEMMA ReadKeeps ==
  ASSUME DepositsInv, NEW d \in Deposits, nextNonceFor(d)
  PROVE  DepositsInv'
<1> USE DEF DepositsInv
<1>1. /\ page[d] = "new" /\ page'[d] = "read" /\ DOMAIN page' = Deposits
      /\ \A e \in Deposits : e # d => page'[e] = page[e]
  BY GoesWrites DEF nextNonceFor
<1>2. /\ DOMAIN nonce' = Deposits /\ \A e \in Deposits : e # d => nonce'[e] = nonce[e]
      /\ UNCHANGED <<rows, flareTx, onMina, watch, minted>>
  BY DEF nextNonceFor, rowVars, flareVars, Shape
<1>3. rows[d] = "none"
  BY <1>1 DEF BeforeItsRow
<1>4. RowsDistinct'
  BY <1>2, <1>3 DEF RowsDistinct
<1>5. BeforeItsRow' /\ HasItsRow'
  BY <1>1, <1>2, <1>3 DEF BeforeItsRow, HasItsRow
<1>6. ToldIsMinted'
  BY <1>1, <1>2, <1>3 DEF ToldIsMinted, Intent
<1> QED
  BY <1>1, <1>2, <1>4, <1>5, <1>6 DEF Shape

\* The table refuses the row that would be the second.
LEMMA InsertKeeps ==
  ASSUME DepositsInv, NEW d \in Deposits, recordBuilt(d)
  PROVE  DepositsInv'
<1>0. UNCHANGED <<nonce, flareTx, onMina, watch, minted>>
  BY DEF recordBuilt, rowVars, flareVars
<1>1. CASE Taken(d) /\ Goes(d, <<"read", "over">>) /\ UNCHANGED <<laneVars, rowVars>>
  <2>1. /\ page[d] = "read" /\ page'[d] = "over" /\ DOMAIN page' = Deposits
        /\ \A e \in Deposits : e # d => page'[e] = page[e]
    BY <1>1, GoesWrites DEF DepositsInv
  <2> QED
    BY <1>0, <1>1, <2>1, PageMoves
       DEF DepositsInv, Shape, HasItsRow, ToldIsMinted, rowVars
<1>2. CASE /\ ~Taken(d) /\ Goes(d, <<"read", "building">>)
           /\ rows' = [rows EXCEPT ![d] = "built"]
  <2>1. /\ page[d] = "read" /\ page'[d] = "building" /\ DOMAIN page' = Deposits
        /\ \A e \in Deposits : e # d => page'[e] = page[e]
    BY <1>2, GoesWrites DEF DepositsInv
  <2>2. /\ rows'[d] = "built" /\ DOMAIN rows' = Deposits
        /\ \A e \in Deposits : e # d => rows'[e] = rows[e]
    BY <1>2 DEF DepositsInv, Shape
  <2>3. \A e \in Deposits : rows[e] # "none" /\ Deposit[e].sender = Deposit[d].sender
                              => nonce[e] # nonce[d]
    BY <1>2 DEF Taken, RowsOf
  <2>4. RowsDistinct'
    BY <1>0, <2>2, <2>3 DEF DepositsInv, RowsDistinct
  <2>5. BeforeItsRow' /\ HasItsRow'
    BY <1>0, <2>1, <2>2 DEF DepositsInv, BeforeItsRow, HasItsRow
  <2>6. ToldIsMinted'
    BY <1>0, <2>1, <2>2 DEF DepositsInv, ToldIsMinted, Intent
  <2> QED
    BY <1>0, <2>1, <2>2, <2>4, <2>5, <2>6 DEF DepositsInv, Shape
<1> QED
  BY <1>1, <1>2 DEF recordBuilt

\* A row that exists is written again: by the relayer's claim only if it was minted.
LEMMA RowRewritten ==
  ASSUME DepositsInv, NEW d \in Deposits, rows[d] # "none",
         NEW status1, status1 # "none", NEW by,
         status1 = "claimed" /\ by = "relayer" => Intent(d) \in minted,
         rows' = [rows EXCEPT ![d] = status1],
         DOMAIN flareTx' = Deposits, flareTx'[d] = by,
         \A e \in Deposits : e # d => flareTx'[e] = flareTx[e],
         UNCHANGED <<nonce, onMina, minted>>, DOMAIN page' = Deposits,
         watch'.todo \subseteq watch.todo,
         \A e \in Deposits : \/ page'[e] = page[e]
                             \/ page'[e] \in {"reported", "over"} /\ rows[e] # "none"
  PROVE  DepositsInv'
<1>1. /\ rows'[d] = status1 /\ DOMAIN rows' = Deposits
      /\ \A e \in Deposits : e # d => rows'[e] = rows[e]
  BY DEF DepositsInv, Shape
<1>2. \A e \in Deposits : (rows'[e] # "none") <=> (rows[e] # "none")
  BY <1>1
<1>3. RowsDistinct'
  BY <1>2 DEF DepositsInv, RowsDistinct
<1>4. BeforeItsRow' /\ HasItsRow'
  BY <1>2 DEF DepositsInv, BeforeItsRow, HasItsRow
<1>5. ToldIsMinted'
  <2> SUFFICES ASSUME NEW e \in Deposits,
                      (rows'[e] = "claimed" /\ flareTx'[e] = "relayer") \/ page'[e] = "mined"
               PROVE  Intent(e)' \in minted'
    BY DEF ToldIsMinted
  <2>1. Intent(e)' = Intent(e)
    BY DEF Intent
  <2>2. Intent(e) \in minted
    BY <1>1 DEF DepositsInv, ToldIsMinted
  <2> QED
    BY <2>1, <2>2
<1> QED
  BY <1>1, <1>3, <1>4, <1>5 DEF DepositsInv, Shape

\* What is posted is not called the relayer's.
LEMMA PostKeeps ==
  ASSUME DepositsInv, NEW d \in Deposits, rows[d] # "none", WritesClaimed(d, "posted"),
         UNCHANGED <<nonce, onMina, watch, minted>>, DOMAIN page' = Deposits,
         \A e \in Deposits : page'[e] = page[e] \/ (e = d /\ page'[e] = "over")
  PROVE  DepositsInv'
<1>1. /\ rows' = [rows EXCEPT ![d] = "claimed"] /\ DOMAIN flareTx' = Deposits
      /\ flareTx'[d] = "posted" /\ \A e \in Deposits : e # d => flareTx'[e] = flareTx[e]
  BY DEF WritesClaimed, DepositsInv, Shape
<1> QED
  BY <1>1, RowRewritten

----------------------------------------------------------------------------
(* Every step.                                                             *)

LEMMA HandleKeeps ==
  ASSUME DepositsInv, NEW d \in Deposits, Handle(d)
  PROVE  DepositsInv'
<1>1. CASE recordBuilt(d)
  BY <1>1, InsertKeeps
<1>2. CASE Respond(d)
  <2>1. /\ page[d] = "building" /\ page'[d] \in {"signing", "over"} /\ DOMAIN page' = Deposits
        /\ \A e \in Deposits : e # d => page'[e] = page[e]
    BY <1>2, GoesWrites DEF Respond, DepositsInv
  <2> QED
    BY <1>2, <2>1, PageMoves
       DEF Respond, rowVars, flareVars, DepositsInv, Shape, HasItsRow, ToldIsMinted
<1>3. CASE markSubmitted(d)
  <2>1. /\ page[d] = "sent" /\ page'[d] = "reported" /\ DOMAIN page' = Deposits
        /\ \A e \in Deposits : e # d => page'[e] = page[e]
    BY <1>3, GoesWrites DEF markSubmitted, DepositsInv
  <2>2. rows[d] # "none"
    BY <2>1 DEF DepositsInv, HasItsRow
  <2> DEFINE s == IF rows[d] = "built" THEN "submitted" ELSE rows[d]
  <2>3. /\ rows' = [rows EXCEPT ![d] = s]
        /\ UNCHANGED <<nonce, flareTx, onMina, watch, minted>>
    BY <1>3 DEF markSubmitted, flareVars
  <2>4. s # "none" /\ (s = "claimed" /\ flareTx[d] = "relayer" => Intent(d) \in minted)
    BY <2>2 DEF DepositsInv, ToldIsMinted
  <2> HIDE DEF s
  <2> QED
    BY <2>1, <2>2, <2>3, <2>4, RowRewritten DEF DepositsInv, Shape
<1>4. CASE markClaimed(d)
  <2>1. /\ page[d] = "mined" /\ page'[d] = "over" /\ DOMAIN page' = Deposits
        /\ \A e \in Deposits : e # d => page'[e] = page[e]
    BY <1>4, GoesWrites DEF markClaimed, DepositsInv
  <2>2. rows[d] # "none" /\ Intent(d) \in minted
    BY <2>1 DEF DepositsInv, HasItsRow, ToldIsMinted
  <2>3. /\ rows' = [rows EXCEPT ![d] = "claimed"] /\ flareTx' = [flareTx EXCEPT ![d] = "relayer"]
        /\ UNCHANGED <<nonce, onMina, watch, minted>>
    BY <1>4 DEF markClaimed, WritesClaimed, flareVars
  <2>4. /\ DOMAIN flareTx' = Deposits /\ flareTx'[d] = "relayer"
        /\ \A e \in Deposits : e # d => flareTx'[e] = flareTx[e]
    BY <2>3 DEF DepositsInv, Shape
  <2> QED
    BY <2>1, <2>2, <2>3, <2>4, RowRewritten
<1>5. CASE postClaimed(d)
  <2>1. /\ page[d] = "told" /\ page'[d] = "over" /\ DOMAIN page' = Deposits
        /\ \A e \in Deposits : e # d => page'[e] = page[e]
    BY <1>5, GoesWrites DEF postClaimed, DepositsInv
  <2>2. UNCHANGED <<nonce, onMina, watch, minted>>
    BY <1>5 DEF postClaimed, flareVars
  <2> QED
    BY <1>5, <2>1, <2>2, PostKeeps DEF postClaimed, DepositsInv, HasItsRow
<1> QED
  BY <1>1, <1>2, <1>3, <1>4, <1>5 DEF Handle

\* The wallet and Mina write no row.
LEMMA WalletKeeps ==
  ASSUME DepositsInv, NEW d \in Deposits, Sign(d) \/ Include(d)
  PROVE  DepositsInv'
<1>1. CASE Sign(d)
  <2>1. /\ page[d] = "signing" /\ page'[d] \in {"sent", "over"} /\ DOMAIN page' = Deposits
        /\ \A e \in Deposits : e # d => page'[e] = page[e]
    BY <1>1, GoesWrites DEF Sign, DepositsInv
  <2>2. /\ DOMAIN onMina' = Deposits
        /\ \A e \in Deposits : e # d => onMina'[e] = onMina[e]
    BY <1>1 DEF Sign, DepositsInv, Shape
  <2> QED
    BY <1>1, <2>1, <2>2, PageMoves
       DEF Sign, rowVars, flareVars, DepositsInv, HasItsRow, ToldIsMinted
<1>2. CASE Include(d)
  <2>1. /\ DOMAIN onMina' = Deposits /\ onMina[d] = "pending"
        /\ \A e \in Deposits : e # d => onMina'[e] = onMina[e]
    BY <1>2 DEF Include, DepositsInv, Shape
  <2> QED
    BY <1>2, <2>1, PageMoves
       DEF Include, rowVars, flareVars, DepositsInv, Shape, HasItsRow, ToldIsMinted
<1> QED
  BY <1>1, <1>2

\* Flare mints more.
LEMMA MintKeeps ==
  ASSUME DepositsInv, minted \subseteq minted',
         UNCHANGED <<page, nonce, rows, flareTx, onMina, watch>>
  PROVE  DepositsInv'
<1>1. \A e \in Deposits : Intent(e)' = Intent(e)
  BY DEF Intent
<1> QED
  BY <1>1 DEF DepositsInv, Shape, RowsDistinct, BeforeItsRow, HasItsRow, ToldIsMinted

\* A claim is sent by the page that is offered it, and paid by the relayer, which
\* waits for the mint, or by the wallet.
LEMMA ClaimKeeps ==
  ASSUME DepositsInv, NEW d \in Deposits, Claim(d)
  PROVE  DepositsInv'
<1>1. CASE submitClaim(d)
  <2>1. /\ page[d] = "reported" /\ page'[d] = "mined" /\ DOMAIN page' = Deposits
        /\ \A e \in Deposits : e # d => page'[e] = page[e]
    BY <1>1, GoesWrites DEF submitClaim, DepositsInv
  <2>2. /\ minted' = minted \union {Intent(d)}
        /\ UNCHANGED <<nonce, rows, flareTx, onMina, watch>>
    BY <1>1 DEF submitClaim, rowVars
  <2>3. \A e \in Deposits : Intent(e)' = Intent(e)
    BY <2>2 DEF Intent
  <2>4. ToldIsMinted'
    BY <2>1, <2>2, <2>3 DEF DepositsInv, ToldIsMinted
  <2>5. BeforeItsRow' /\ HasItsRow'
    BY <2>1, <2>2 DEF DepositsInv, BeforeItsRow, HasItsRow
  <2> QED
    BY <2>1, <2>2, <2>4, <2>5 DEF DepositsInv, Shape, RowsDistinct
<1>2. CASE claimAlone(d)
  <2>1. /\ page[d] = "reported" /\ page'[d] = "told" /\ DOMAIN page' = Deposits
        /\ \A e \in Deposits : e # d => page'[e] = page[e]
    BY <1>2, GoesWrites DEF claimAlone, DepositsInv
  <2> QED
    BY <1>2, <2>1, PageMoves
       DEF claimAlone, rowVars, DepositsInv, Shape, HasItsRow, ToldIsMinted
<1> QED
  BY <1>1, <1>2 DEF Claim

\* A claim of a wallet is mined or not, and the escrow pays withdrawals.
LEMMA FlareKeeps ==
  ASSUME DepositsInv, Withdraw \/ \E d \in Deposits : Settle(d)
  PROVE  DepositsInv'
BY MintKeeps DEF Withdraw, Settle, rowVars

LEMMA WatcherKeeps ==
  ASSUME DepositsInv, Watcher
  PROVE  DepositsInv'
<1>1. CASE Tick
  <2>1. watch'.todo \subseteq {d \in Deposits : rows[d] = "submitted"}
    BY <1>1 DEF Tick, submittedDeposits
  <2>2. UNCHANGED <<page, nonce, rows, flareTx, onMina, minted>>
    BY <1>1 DEF Tick, rowVars, flareVars
  <2> QED
    BY <2>1, <2>2 DEF DepositsInv, Shape, RowsDistinct, BeforeItsRow, HasItsRow, ToldIsMinted,
                      Intent
<1>2. CASE TickRow
  <2>1. PICK d \in watch.todo :
          /\ rows' = [rows EXCEPT ![d] = Attested(d)]
          /\ watch' = IF watch.todo = {d} THEN Resting ELSE [watch EXCEPT !.todo = @ \ {d}]
          /\ UNCHANGED <<laneVars, page, nonce, flareTx, onMina, minted, faults>>
    BY <1>2 DEF TickRow, flareVars
  <2>2. d \in Deposits /\ rows[d] # "none"
    BY DEF DepositsInv, HasItsRow
  <2>3. /\ Attested(d) # "none"
        /\ Attested(d) = "claimed" /\ flareTx[d] = "relayer" => Intent(d) \in minted
    BY <2>2 DEF Attested, DepositsInv, ToldIsMinted
  <2>4. watch'.todo \subseteq watch.todo
    <3>1. CASE watch' = Resting
      BY <3>1 DEF Resting
    <3>2. CASE watch' = [watch EXCEPT !.todo = @ \ {d}]
      <4>1. watch'.todo = watch.todo \ {d} \/ watch'.todo = watch.todo
        BY <3>2
      <4> QED
        BY <4>1
    <3> QED
      BY <2>1, <3>1, <3>2
  <2> QED
    BY <2>1, <2>2, <2>3, <2>4, RowRewritten DEF DepositsInv, Shape
<1> QED
  BY <1>1, <1>2 DEF Watcher

\* The rows survive; pages that waited for the relayer ask nothing more of it.
LEMMA FaultKeeps ==
  ASSUME DepositsInv, Fault
  PROVE  DepositsInv'
<1>1. CASE Crash
  <2>1. /\ DOMAIN page' = Deposits
        /\ \A d \in Deposits :
             page'[d] = CASE page[d] \in {"read", "building"} -> "over"
                          [] page[d] = "mined" -> "reported"
                          [] OTHER -> page[d]
        /\ watch' = Resting /\ UNCHANGED <<nonce, rows, flareTx, onMina, minted>>
    BY <1>1 DEF Crash, rowVars, flareVars
  <2>2. \A d \in Deposits : \/ page'[d] = page[d]
                            \/ page'[d] = "over"
                            \/ page'[d] = "reported" /\ page[d] = "mined"
    BY <2>1
  <2>3. watch'.todo = {}
    BY <2>1 DEF Resting
  <2>4. BeforeItsRow' /\ HasItsRow'
    BY <2>1, <2>2, <2>3 DEF DepositsInv, BeforeItsRow, HasItsRow
  <2>5. ToldIsMinted'
    BY <2>1, <2>2 DEF DepositsInv, ToldIsMinted, Intent
  <2> QED
    BY <2>1, <2>4, <2>5 DEF DepositsInv, Shape, RowsDistinct
<1>2. ASSUME NEW d \in Deposits, ReportLost(d)
      PROVE  DepositsInv'
  <2>1. /\ page[d] \in {"sent", "told"} /\ page'[d] \in {"over", "reported"}
        /\ DOMAIN page' = Deposits /\ \A e \in Deposits : e # d => page'[e] = page[e]
    BY <1>2, GoesWrites DEF ReportLost, DepositsInv
  <2> QED
    BY <1>2, <2>1, PageMoves
       DEF ReportLost, rowVars, flareVars, DepositsInv, Shape, HasItsRow, ToldIsMinted
<1>3. ASSUME NEW d \in Deposits, PostedByAnyone(d)
      PROVE  DepositsInv'
  BY <1>3, PostKeeps DEF PostedByAnyone, flareVars, DepositsInv, Shape
<1>4. ASSUME NEW g, WorkerDies(g)
      PROVE  DepositsInv'
  BY <1>4, FrameDeposits DEF WorkerDies, rowVars, flareVars, depositVars
<1>5. CASE Administer
  BY <1>5, FrameDeposits DEF Administer, rowVars, depositVars
<1> QED
  BY <1>1, <1>2, <1>3, <1>4, <1>5 DEF Fault

LEMMA NextKeepsDeposits == DepositsInv /\ [Next]_vars => DepositsInv'
<1> SUFFICES ASSUME DepositsInv, [Next]_vars PROVE DepositsInv'
  OBVIOUS
<1>1. CASE LaneWork \/ (\E r \in Requests : OtherRequest(r)) \/ UNCHANGED vars
  BY <1>1, FrameDeposits
     DEF LaneWork, OtherRequest, Elsewhere, vars, rowVars, flareVars, depositVars
<1>2. CASE Watcher \/ Fault \/ Withdraw
  BY <1>2, WatcherKeeps, FaultKeeps, FlareKeeps
<1>3. ASSUME NEW d \in Deposits,
             nextNonceFor(d) \/ Handle(d) \/ Sign(d) \/ Include(d) \/ Claim(d) \/ Settle(d)
      PROVE  DepositsInv'
  BY <1>3, ReadKeeps, HandleKeeps, WalletKeeps, ClaimKeeps, FlareKeeps
<1> QED
  BY <1>1, <1>2, <1>3 DEF Next

LEMMA DepositsInvariance == Spec => []DepositsInv
BY InitDeposits, NextKeepsDeposits, PTL DEF Spec

----------------------------------------------------------------------------
(* The lanes.  What a worker was sent and has not been heard of is what its *)
(* lane waits for, as long as the worker is the lane's; of one that was     *)
(* given up, whoever asked has been told.                                   *)

LaneState(procs) ==
  [child : DOMAIN procs \union {Null}, queue : Seq(Requests), pending : SUBSET Requests]

ProcessState ==
  [lane : Lane, phase : Phases, ready : BOOLEAN, waiting : Seq(Requests),
   inbox : Seq(Requests), outbox : Seq(Messages), unsent : BOOLEAN]

Told == {"new", "waiting", "queued"} \union Settled

LanesShape(lanes, procs, told) ==
  /\ procs \in Seq(ProcessState)
  /\ lanes \in [Lane -> LaneState(procs)]
  /\ told \in [Requests -> Told]

\* What is pending is the head of the queue; nothing is queued twice.
QueueInv(lane, prover, told) ==
  /\ prover.pending = {} \/ (prover.queue # << >> /\ prover.pending = {prover.queue[1]})
  /\ \A i \in 1 .. Len(prover.queue) :
       told[prover.queue[i]] = "queued" /\ LaneOf[prover.queue[i]] = lane
  /\ \A i, j \in 1 .. Len(prover.queue) : prover.queue[i] = prover.queue[j] => i = j

\* Nobody waits twice.
WaitInv(procs, told) ==
  \A g \in DOMAIN procs : \A i \in 1 .. Len(procs[g].waiting) :
    /\ told[procs[g].waiting[i]] = "waiting" /\ LaneOf[procs[g].waiting[i]] = procs[g].lane
    /\ \A h \in DOMAIN procs : \A j \in 1 .. Len(procs[h].waiting) :
         procs[g].waiting[i] = procs[h].waiting[j] => g = h /\ i = j

\* A worker has one thing to answer, or one answer that has not arrived.
Answers(p, i) == i \in 1 .. Len(p.outbox) /\ p.outbox[i].type # "ready"
OneThing(p) ==
  /\ Len(p.inbox) <= 1
  /\ \A i, j : Answers(p, i) /\ Answers(p, j) => p.inbox = << >> /\ i = j

Owes(p, r) ==
  \/ \E i \in 1 .. Len(p.inbox) : p.inbox[i] = r
  \/ \E i : Answers(p, i) /\ p.outbox[i].request = r

OwedTo(lanes, procs, told, g) ==
  \A r \in Requests : Owes(procs[g], r) =>
    IF lanes[procs[g].lane].child = g
    THEN lanes[procs[g].lane].pending = {r}
    ELSE told[r] \in Settled

LanesAre(lanes, procs, told) ==
  /\ LanesShape(lanes, procs, told)
  /\ \A l \in Lane : /\ QueueInv(l, lanes[l], told)
                     /\ lanes[l].child # Null => procs[lanes[l].child].lane = l
  /\ WaitInv(procs, told)
  /\ \A g \in DOMAIN procs : OneThing(procs[g]) /\ OwedTo(lanes, procs, told, g)

LanesInv == LanesAre(provers, processes, status)

\* A function from 1 to n is a sequence.
LEMMA IsSequence ==
  ASSUME NEW S, NEW n \in Nat, NEW f \in [1 .. n -> S]
  PROVE  f \in Seq(S) /\ Len(f) = n
<1>1. f \in Seq(S)
  BY SeqDef
<1> QED
  BY <1>1

\* The workers, as the invariant has them.
LEMMA ProcessesAre ==
  ASSUME NEW procs \in Seq(ProcessState)
  PROVE  /\ DOMAIN procs = 1 .. Len(procs) /\ Len(procs) \in Nat
         /\ \A g \in DOMAIN procs :
              /\ procs[g] \in ProcessState
              /\ procs[g].inbox \in Seq(Requests) /\ procs[g].outbox \in Seq(Messages)
              /\ procs[g].waiting \in Seq(Requests) /\ procs[g].lane \in Lane
<1>1. DOMAIN procs = 1 .. Len(procs) /\ Len(procs) \in Nat
  OBVIOUS
<1>2. ASSUME NEW g \in DOMAIN procs PROVE procs[g] \in ProcessState
  BY <1>1, ElementOfSeq
<1> QED
  BY <1>1, <1>2 DEF ProcessState

\* The workers move on, and owe no more than they did.
LEMMA ProcessesMove ==
  ASSUME NEW lanes, NEW procs, NEW procs2, NEW told, LanesAre(lanes, procs, told),
         procs2 \in [DOMAIN procs -> ProcessState],
         \A g \in DOMAIN procs :
           /\ procs2[g].lane = procs[g].lane
           /\ procs2[g].waiting \in {procs[g].waiting, << >>}
           /\ OneThing(procs2[g])
           /\ \A r \in Requests : Owes(procs2[g], r) => Owes(procs[g], r)
  PROVE  LanesAre(lanes, procs2, told)
<1> USE DEF LanesAre
<1>1. DOMAIN procs2 = DOMAIN procs
  OBVIOUS
<1>2. procs2 \in Seq(ProcessState)
  BY ProcessesAre, IsSequence DEF LanesShape
<1>3. LanesShape(lanes, procs2, told)
  BY <1>1, <1>2 DEF LanesShape, LaneState
<1>4. \A l \in Lane : lanes[l].child # Null => procs2[lanes[l].child].lane = l
  BY DEF LanesShape, LaneState
<1>5. WaitInv(procs2, told)
  <2>1. \A g \in DOMAIN procs : \A i \in 1 .. Len(procs2[g].waiting) :
          procs2[g].waiting = procs[g].waiting
    OBVIOUS
  <2> QED
    BY <1>1, <2>1 DEF WaitInv
<1>6. \A g \in DOMAIN procs2 : OneThing(procs2[g]) /\ OwedTo(lanes, procs2, told, g)
  BY <1>1 DEF OwedTo
<1> QED
  BY <1>3, <1>4, <1>5, <1>6

\* Those who neither wait nor are queued hear something.
LEMMA TheyHear ==
  ASSUME NEW lanes, NEW procs, NEW told, NEW told2 \in [Requests -> Told],
         LanesAre(lanes, procs, told),
         \A r \in Requests : \/ told2[r] = told[r]
                             \/ /\ told[r] \in {"new", "waiting"}
                                /\ \A g \in DOMAIN procs : \A i \in 1 .. Len(procs[g].waiting) :
                                     procs[g].waiting[i] # r
  PROVE  LanesAre(lanes, procs, told2)
<1> USE DEF LanesAre
<1>1. /\ procs \in Seq(ProcessState) /\ lanes \in [Lane -> LaneState(procs)]
      /\ LanesShape(lanes, procs, told2)
  BY DEF LanesShape, Told
<1>2. ASSUME NEW l \in Lane
      PROVE  QueueInv(l, lanes[l], told2)
  <2>1. lanes[l].queue \in Seq(Requests)
    BY <1>1 DEF LaneState
  <2>2. \A i \in 1 .. Len(lanes[l].queue) : told2[lanes[l].queue[i]] = "queued"
    BY <2>1 DEF QueueInv
  <2> QED
    BY <2>2 DEF QueueInv
<1>3. WaitInv(procs, told2)
  <2>1. \A g \in DOMAIN procs : procs[g].waiting \in Seq(Requests)
    BY <1>1, ProcessesAre
  <2>2. \A g \in DOMAIN procs : \A i \in 1 .. Len(procs[g].waiting) :
          told2[procs[g].waiting[i]] = "waiting"
    BY <2>1 DEF WaitInv
  <2> QED
    BY <2>2 DEF WaitInv
<1>4. ASSUME NEW g \in DOMAIN procs PROVE OwedTo(lanes, procs, told2, g)
  BY DEF OwedTo, Settled
<1> QED
  BY <1>1, <1>2, <1>3, <1>4

\* The queue of a lane.
LEMMA QueuesAre ==
  ASSUME NEW lanes, NEW procs, NEW told, LanesShape(lanes, procs, told), NEW l \in Lane
  PROVE  /\ lanes[l] \in LaneState(procs) /\ lanes[l].queue \in Seq(Requests)
         /\ lanes[l].pending \subseteq Requests
         /\ lanes[l].child \in DOMAIN procs \union {Null}
         /\ procs \in Seq(ProcessState) /\ DOMAIN lanes = Lane
         /\ Null \notin DOMAIN procs
BY LanesAssumption, ProcessesAre DEF LanesShape, LaneState

\* One lane changes.
LEMMA LaneChanges ==
  ASSUME NEW lanes, NEW procs, NEW told, LanesAre(lanes, procs, told),
         NEW l \in Lane, NEW prover \in LaneState(procs),
         QueueInv(l, prover, told),
         prover.child # Null => procs[prover.child].lane = l,
         \A g \in DOMAIN procs : procs[g].lane = l =>
           \A r \in Requests : Owes(procs[g], r) =>
             IF prover.child = g THEN prover.pending = {r} ELSE told[r] \in Settled
  PROVE  LanesAre([lanes EXCEPT ![l] = prover], procs, told)
<1> DEFINE lanes2 == [lanes EXCEPT ![l] = prover]
<1>1. /\ lanes \in [Lane -> LaneState(procs)] /\ procs \in Seq(ProcessState)
  BY DEF LanesAre, LanesShape
<1>2. /\ lanes2 \in [Lane -> LaneState(procs)] /\ lanes2[l] = prover
      /\ \A k \in Lane : k # l => lanes2[k] = lanes[k]
  BY <1>1
<1> HIDE DEF lanes2
<1>3. \A g \in DOMAIN procs : procs[g].lane \in Lane
  BY <1>1, ProcessesAre
<1>4. ASSUME NEW g \in DOMAIN procs PROVE OwedTo(lanes2, procs, told, g)
  <2>1. CASE procs[g].lane = l
    BY <1>2, <2>1 DEF OwedTo
  <2>2. CASE procs[g].lane # l
    BY <1>2, <1>3, <2>2 DEF OwedTo, LanesAre
  <2> QED
    BY <2>1, <2>2
<1>5. LanesAre(lanes2, procs, told)
  BY <1>2, <1>4 DEF LanesAre, LanesShape
<1> QED
  BY <1>5 DEF lanes2

LEMMA ClearedIs ==
  ASSUME NEW child, NEW child2, NEW queue, NEW pending, NEW prover,
         prover = [child |-> child, queue |-> queue, pending |-> pending]
  PROVE  [Cleared(prover) EXCEPT !.child = child2] =
           [child |-> child2, pending |-> {}, queue |-> IF pending = {} THEN queue ELSE Tail(queue)]
<1> DEFINE rest == IF pending = {} THEN queue ELSE Tail(queue)
<1>1. prover.queue = queue /\ prover.pending = pending
  OBVIOUS
<1>2. Cleared(prover) = [prover EXCEPT !.queue = rest, !.pending = {}]
  BY <1>1, Zenon DEF Cleared
<1> HIDE DEF rest
<1>3. Cleared(prover) = [child |-> child, queue |-> rest, pending |-> {}]
  BY <1>2
<1>4. [Cleared(prover) EXCEPT !.child = child2] = [child |-> child2, pending |-> {}, queue |-> rest]
  BY <1>3
<1> QED
  BY <1>4 DEF rest

\* The lane when what was pending has settled.
Afterwards(lanes, l, child) ==
  [lanes EXCEPT ![l] = [Cleared(lanes[l]) EXCEPT !.child = child]]

\* What is pending settles, and whoever asked hears of it; the lane keeps its
\* worker, which owes nothing, or gives it up.
LEMMA HeadSettles ==
  ASSUME NEW lanes, NEW procs, NEW told, NEW told2 \in [Requests -> Told],
         LanesAre(lanes, procs, told), NEW l \in Lane,
         NEW child \in {lanes[l].child, Null},
         child # Null => \A r \in Requests : ~Owes(procs[child], r),
         \A r \in Requests : IF r \in lanes[l].pending THEN told2[r] \in Settled
                             ELSE told2[r] = told[r]
  PROVE  LanesAre(Afterwards(lanes, l, child), procs, told2)
<1> DEFINE prover == [Cleared(lanes[l]) EXCEPT !.child = child]
           q == lanes[l].queue
<1>1. /\ lanes[l] \in LaneState(procs) /\ q \in Seq(Requests) /\ lanes[l].pending \subseteq Requests
      /\ lanes[l].child \in DOMAIN procs \union {Null} /\ procs \in Seq(ProcessState)
      /\ Null \notin DOMAIN procs
  BY QueuesAre DEF LanesAre
<1>2. /\ prover.child = child /\ prover.pending = {}
      /\ prover.queue = IF lanes[l].pending = {} THEN q ELSE Tail(q)
      /\ prover = [child |-> child, pending |-> {},
                   queue |-> IF lanes[l].pending = {} THEN q ELSE Tail(q)]
  <2>1. lanes[l] = [child |-> lanes[l].child, queue |-> q, pending |-> lanes[l].pending]
    BY <1>1 DEF LaneState
  <2>2. prover = [child |-> child, pending |-> {},
                  queue |-> IF lanes[l].pending = {} THEN q ELSE Tail(q)]
    BY <2>1, ClearedIs
  <2> HIDE DEF prover
  <2> QED
    BY <2>2
<1>3. QueueInv(l, lanes[l], told)
  BY DEF LanesAre
<1>4. lanes[l].pending # {} => q # << >> /\ lanes[l].pending = {q[1]}
  BY <1>3 DEF QueueInv
<1>5. prover.queue \in Seq(Requests) /\ prover \in LaneState(procs)
  <2>1. lanes[l].pending # {} => Tail(q) \in Seq(Requests)
    BY <1>1, <1>4, HeadTailProperties
  <2>2. child \in DOMAIN procs \union {Null}
    BY <1>1
  <2> HIDE DEF prover
  <2>3. prover.queue \in Seq(Requests)
    BY <1>1, <1>2, <2>1
  <2> QED
    BY <1>2, <2>1, <2>2, <2>3, <1>1 DEF LaneState
<1> HIDE DEF prover
<1>6. QueueInv(l, prover, told2)
  <2>1. CASE lanes[l].pending = {}
    <3>1. \A i \in 1 .. Len(q) : q[i] \in Requests
      BY <1>1
    <3> QED
      BY <1>2, <1>3, <2>1, <3>1 DEF QueueInv
  <2>2. CASE lanes[l].pending # {}
    <3>1. /\ prover.queue = Tail(q) /\ Len(Tail(q)) = Len(q) - 1 /\ Len(q) \in Nat
          /\ \A i \in 1 .. Len(Tail(q)) : Tail(q)[i] = q[i + 1]
      BY <1>1, <1>2, <1>4, <2>2, HeadTailProperties
    <3>2. \A i \in 1 .. Len(Tail(q)) : i + 1 \in 1 .. Len(q) /\ q[i + 1] \in Requests
      BY <1>1, <3>1
    <3>3. \A i \in 1 .. Len(Tail(q)) : q[i + 1] \notin lanes[l].pending
      <4> SUFFICES ASSUME NEW i \in 1 .. Len(Tail(q)), q[i + 1] = q[1] PROVE FALSE
        BY <1>4, <2>2
      <4>1. 1 \in 1 .. Len(q) /\ i + 1 \in 1 .. Len(q)
        BY <3>1, <3>2
      <4>2. i + 1 = 1
        BY <1>3, <4>1 DEF QueueInv
      <4> QED
        BY <4>2, <3>1
    <3>4. \A i \in 1 .. Len(prover.queue) :
            told2[prover.queue[i]] = "queued" /\ LaneOf[prover.queue[i]] = l
      <4> TAKE i \in 1 .. Len(prover.queue)
      <4>1. i \in 1 .. Len(Tail(q)) /\ prover.queue[i] = q[i + 1]
        BY <3>1
      <4>2. i + 1 \in 1 .. Len(q) /\ q[i + 1] \in Requests /\ q[i + 1] \notin lanes[l].pending
        BY <3>2, <3>3, <4>1
      <4>3. told[q[i + 1]] = "queued" /\ LaneOf[q[i + 1]] = l
        BY <4>2 DEF LanesAre, QueueInv
      <4> QED
        BY <1>3, <4>1, <4>2, <4>3
    <3>5. ASSUME NEW i \in 1 .. Len(prover.queue), NEW j \in 1 .. Len(prover.queue),
                 prover.queue[i] = prover.queue[j]
          PROVE  i = j
      <4>1. i + 1 = j + 1
        BY <1>3, <3>1, <3>2, <3>5 DEF QueueInv
      <4> QED
        BY <4>1, <3>1
    <3> QED
      BY <1>2, <3>4, <3>5 DEF QueueInv
  <2> QED
    BY <2>1, <2>2
<1>7. \A g \in DOMAIN procs : procs[g].lane = l =>
        \A r \in Requests : Owes(procs[g], r) => prover.child # g /\ told2[r] \in Settled
  <2> SUFFICES ASSUME NEW g \in DOMAIN procs, procs[g].lane = l,
                      NEW r \in Requests, Owes(procs[g], r)
               PROVE  prover.child # g /\ told2[r] \in Settled
    OBVIOUS
  <2>1. IF lanes[l].child = g THEN lanes[l].pending = {r} ELSE told[r] \in Settled
    BY DEF LanesAre, OwedTo
  <2>2. prover.child # g
    BY <1>1, <1>2
  <2> QED
    BY <2>1, <2>2
\* The other lanes' requests are not among those that settle.
<1>8. LanesAre(lanes, procs, told) /\ \A r \in Requests :
        r \in lanes[l].pending => told[r] = "queued" /\ LaneOf[r] = l
  BY <1>3, <1>4 DEF QueueInv
<1>9. LanesAre([lanes EXCEPT ![l] = prover], procs, told2)
  <2> DEFINE lanes2 == [lanes EXCEPT ![l] = prover]
  <2>1. /\ lanes \in [Lane -> LaneState(procs)] /\ lanes2 \in [Lane -> LaneState(procs)]
        /\ lanes2[l] = prover /\ \A k \in Lane : k # l => lanes2[k] = lanes[k]
    BY <1>5 DEF LanesAre, LanesShape
  <2> HIDE DEF lanes2
  <2>2. LanesShape(lanes2, procs, told2)
    BY <2>1 DEF LanesAre, LanesShape
  <2>3. ASSUME NEW k \in Lane
        PROVE  /\ QueueInv(k, lanes2[k], told2)
               /\ lanes2[k].child # Null => procs[lanes2[k].child].lane = k
    <3>1. CASE k = l
      BY <1>1, <1>2, <1>6, <2>1, <3>1 DEF LanesAre
    <3>2. CASE k # l
      <4>1. QueueInv(k, lanes[k], told) /\ lanes[k].queue \in Seq(Requests)
        BY QueuesAre DEF LanesAre
      <4>2. \A i \in 1 .. Len(lanes[k].queue) : told2[lanes[k].queue[i]] = "queued"
        BY <4>1, <1>8, <3>2 DEF QueueInv
      <4>3. QueueInv(k, lanes[k], told2)
        BY <4>1, <4>2 DEF QueueInv
      <4> QED
        BY <2>1, <3>2, <4>3 DEF LanesAre
    <3> QED
      BY <3>1, <3>2
  <2>4. WaitInv(procs, told2)
    <3>1. \A g \in DOMAIN procs : procs[g].waiting \in Seq(Requests)
      BY <1>1, ProcessesAre
    <3>2. \A g \in DOMAIN procs : \A i \in 1 .. Len(procs[g].waiting) :
            told2[procs[g].waiting[i]] = "waiting"
      BY <1>8, <3>1 DEF WaitInv, LanesAre
    <3> QED
      BY <3>2 DEF WaitInv, LanesAre
  <2>5. ASSUME NEW g \in DOMAIN procs PROVE OwedTo(lanes2, procs, told2, g)
    <3>1. CASE procs[g].lane = l
      BY <1>7, <2>1, <3>1 DEF OwedTo
    <3>2. CASE procs[g].lane # l
      <4>1. procs[g].lane \in Lane
        BY <1>1, ProcessesAre
      <4>2. \A r \in Requests : told[r] \in Settled => told2[r] \in Settled
        OBVIOUS
      <4> QED
        BY <2>1, <3>2, <4>1, <4>2 DEF OwedTo, LanesAre
    <3> QED
      BY <3>1, <3>2
  <2>6. LanesAre(lanes2, procs, told2)
    BY <2>2, <2>3, <2>4, <2>5 DEF LanesAre
  <2> QED
    BY <2>6 DEF lanes2
<1> QED
  BY <1>9 DEF prover, Afterwards

\* Requests that were told so join the queue.
LEMMA TheyQueue ==
  ASSUME NEW lanes, NEW procs, NEW told, LanesAre(lanes, procs, told), NEW l \in Lane,
         NEW rs \in Seq(Requests),
         \A i \in 1 .. Len(rs) :
           /\ told[rs[i]] = "queued" /\ LaneOf[rs[i]] = l
           /\ \A j \in 1 .. Len(lanes[l].queue) : lanes[l].queue[j] # rs[i]
           /\ \A j \in 1 .. Len(rs) : rs[i] = rs[j] => i = j
  PROVE  LanesAre([lanes EXCEPT ![l] = [lanes[l] EXCEPT !.queue = @ \o rs]], procs, told)
<1> DEFINE q == lanes[l].queue
           prover == [lanes[l] EXCEPT !.queue = q \o rs]
<1>1. /\ lanes[l] \in LaneState(procs) /\ q \in Seq(Requests)
      /\ procs \in Seq(ProcessState)
  BY QueuesAre DEF LanesAre
<1>2. /\ prover.child = lanes[l].child /\ prover.pending = lanes[l].pending
      /\ prover.queue = q \o rs /\ prover \in LaneState(procs)
  BY <1>1, ConcatProperties DEF LaneState
<1> HIDE DEF prover
<1>3. /\ Len(q \o rs) = Len(q) + Len(rs) /\ Len(q) \in Nat /\ Len(rs) \in Nat
      /\ \A i \in 1 .. Len(q) : (q \o rs)[i] = q[i]
      /\ \A i \in Len(q) + 1 .. Len(q) + Len(rs) :
           i - Len(q) \in 1 .. Len(rs) /\ (q \o rs)[i] = rs[i - Len(q)]
  BY <1>1, ConcatProperties
<1>4. QueueInv(l, lanes[l], told)
  BY DEF LanesAre
<1>5. \A i \in 1 .. Len(q \o rs) : i \in 1 .. Len(q) \/ i \in Len(q) + 1 .. Len(q) + Len(rs)
  BY <1>3
<1>a. \A i \in 1 .. Len(rs) : told[rs[i]] = "queued" /\ LaneOf[rs[i]] = l
  OBVIOUS
<1>b. \A i \in 1 .. Len(rs), j \in 1 .. Len(q) : q[j] # rs[i]
  OBVIOUS
<1>c. \A i, j \in 1 .. Len(rs) : rs[i] = rs[j] => i = j
  OBVIOUS
<1>d. \A i \in 1 .. Len(q) : told[q[i]] = "queued" /\ LaneOf[q[i]] = l
  BY <1>4 DEF QueueInv
<1>e. \A i, j \in 1 .. Len(q) : q[i] = q[j] => i = j
  BY <1>4 DEF QueueInv
<1>6. \A i \in 1 .. Len(q \o rs) : told[(q \o rs)[i]] = "queued" /\ LaneOf[(q \o rs)[i]] = l
  <2> HIDE DEF q
  <2> SUFFICES ASSUME NEW i \in 1 .. Len(q \o rs)
               PROVE  told[(q \o rs)[i]] = "queued" /\ LaneOf[(q \o rs)[i]] = l
    OBVIOUS
  <2>1. CASE i \in 1 .. Len(q)
    BY <1>3, <1>d, <2>1
  <2>2. CASE i \in Len(q) + 1 .. Len(q) + Len(rs)
    <3>1. i - Len(q) \in 1 .. Len(rs) /\ (q \o rs)[i] = rs[i - Len(q)]
      BY <1>3, <2>2
    <3> QED
      BY <1>a, <3>1
  <2> QED
    BY <1>5, <2>1, <2>2
<1>7. ASSUME NEW i \in 1 .. Len(q \o rs), NEW j \in 1 .. Len(q \o rs),
             (q \o rs)[i] = (q \o rs)[j]
      PROVE  i = j
  <2> HIDE DEF q
  <2>1. CASE i \in 1 .. Len(q) /\ j \in 1 .. Len(q)
    BY <1>3, <1>7, <1>e, <2>1
  <2>2. CASE i \in Len(q) + 1 .. Len(q) + Len(rs) /\ j \in Len(q) + 1 .. Len(q) + Len(rs)
    <3>1. /\ i - Len(q) \in 1 .. Len(rs) /\ (q \o rs)[i] = rs[i - Len(q)]
          /\ j - Len(q) \in 1 .. Len(rs) /\ (q \o rs)[j] = rs[j - Len(q)]
      BY <1>3, <2>2
    <3>2. i - Len(q) = j - Len(q)
      BY <1>7, <1>c, <3>1
    <3> QED
      BY <1>3, <3>2, <2>2
  <2>3. CASE i \in 1 .. Len(q) /\ j \in Len(q) + 1 .. Len(q) + Len(rs)
    <3>1. /\ j - Len(q) \in 1 .. Len(rs) /\ (q \o rs)[j] = rs[j - Len(q)]
          /\ (q \o rs)[i] = q[i]
      BY <1>3, <2>3
    <3> QED
      BY <1>7, <1>b, <2>3, <3>1
  <2>4. CASE j \in 1 .. Len(q) /\ i \in Len(q) + 1 .. Len(q) + Len(rs)
    <3>1. /\ i - Len(q) \in 1 .. Len(rs) /\ (q \o rs)[i] = rs[i - Len(q)]
          /\ (q \o rs)[j] = q[j]
      BY <1>3, <2>4
    <3> QED
      BY <1>7, <1>b, <2>4, <3>1
  <2> QED
    BY <1>5, <2>1, <2>2, <2>3, <2>4
<1>8. prover.pending = {} \/ (q \o rs # << >> /\ prover.pending = {(q \o rs)[1]})
  <2>1. CASE lanes[l].pending # {}
    <3>1. q # << >> /\ lanes[l].pending = {q[1]}
      BY <1>4, <2>1 DEF QueueInv
    <3>2. 1 \in 1 .. Len(q) /\ Len(q \o rs) # 0
      BY <1>1, <1>3, <3>1
    <3> QED
      BY <1>1, <1>2, <1>3, <3>1, <3>2, EmptySeq
  <2> QED
    BY <1>2, <2>1
<1>9. QueueInv(l, prover, told)
  BY <1>2, <1>6, <1>7, <1>8 DEF QueueInv
<1>10. LanesAre([lanes EXCEPT ![l] = prover], procs, told)
  <2>1. \A g \in DOMAIN procs : procs[g].lane = l =>
          \A r \in Requests : Owes(procs[g], r) =>
            IF prover.child = g THEN prover.pending = {r} ELSE told[r] \in Settled
    BY <1>2 DEF LanesAre, OwedTo
  <2>2. prover.child # Null => procs[prover.child].lane = l
    BY <1>2 DEF LanesAre
  <2> QED
    BY <1>2, <1>9, <2>1, <2>2, LaneChanges
<1> QED
  BY <1>10 DEF prover

\* Whoever is next runs: the lane's worker owes nothing when nothing is pending.
LEMMA RunKeeps ==
  ASSUME NEW l \in Lane, NEW prover, NEW procs, NEW told, DOMAIN provers = Lane,
         LanesAre([provers EXCEPT ![l] = prover], procs, told), Run(l, prover, procs)
  PROVE  LanesAre(provers', processes', told)
<1> DEFINE lanes == [provers EXCEPT ![l] = prover]
           q == prover.queue
<1>1. lanes[l] = prover /\ LanesAre(lanes, procs, told)
  OBVIOUS
<1>2. CASE prover.queue = << >> \/ prover.pending # {}
  BY <1>2 DEF Run
<1>3. CASE ~(prover.queue = << >> \/ prover.pending # {})
  <2> DEFINE next == [prover EXCEPT !.pending = {Head(q)}]
             child == prover.child
  <2>1. /\ prover \in LaneState(procs) /\ q \in Seq(Requests)
        /\ child \in DOMAIN procs \union {Null} /\ procs \in Seq(ProcessState)
        /\ DOMAIN lanes = Lane /\ Null \notin DOMAIN procs
    BY <1>1, QueuesAre DEF LanesAre
  <2>2. q # << >> /\ prover.pending = {} /\ Head(q) \in Requests /\ Head(q) = q[1]
    BY <1>3, <2>1, HeadTailProperties
  <2>3. /\ next.child = child /\ next.queue = q /\ next.pending = {Head(q)}
        /\ next \in LaneState(procs)
    BY <2>1, <2>2 DEF LaneState
  <2>4. /\ provers' = [provers EXCEPT ![l] = next]
        /\ processes' = [g \in DOMAIN procs |->
             IF g # child THEN procs[g]
             ELSE IF Alive(procs[g]) THEN [procs[g] EXCEPT !.inbox = Append(@, Head(q))]
                  ELSE [procs[g] EXCEPT !.unsent = TRUE]]
    BY <1>3 DEF Run
  <2>5. provers' = [lanes EXCEPT ![l] = next]
    BY <2>4, Zenon
  <2> HIDE DEF next, lanes
  <2>6. \A g \in DOMAIN procs :
          /\ procs[g] \in ProcessState /\ procs[g].inbox \in Seq(Requests)
          /\ procs[g].outbox \in Seq(Messages) /\ procs[g].lane \in Lane
    BY <2>1, ProcessesAre
  \* The worker has nothing to answer.
  <2>7. child # Null => /\ procs[child].lane = l
                        /\ \A r \in Requests : ~Owes(procs[child], r)
    <3> SUFFICES ASSUME child # Null
                 PROVE  /\ procs[child].lane = l
                        /\ \A r \in Requests : ~Owes(procs[child], r)
      OBVIOUS
    <3>1. procs[child].lane = l /\ OwedTo(lanes, procs, told, child)
      BY <1>1, <2>1 DEF LanesAre
    <3> QED
      BY <1>1, <2>2, <3>1 DEF OwedTo
  <2>8. child # Null => procs[child].inbox = << >> /\ \A i : ~Answers(procs[child], i)
    <3> SUFFICES ASSUME child # Null
                 PROVE  procs[child].inbox = << >> /\ \A i : ~Answers(procs[child], i)
      OBVIOUS
    <3>1. child \in DOMAIN procs
      BY <2>1
    <3>2. ASSUME procs[child].inbox # << >> PROVE FALSE
      <4>1. 1 \in 1 .. Len(procs[child].inbox) /\ procs[child].inbox[1] \in Requests
        BY <2>6, <3>1, <3>2
      <4> QED
        BY <2>7, <4>1 DEF Owes
    <3>3. ASSUME NEW i, Answers(procs[child], i) PROVE FALSE
      <4>1. procs[child].outbox[i] \in Messages /\ procs[child].outbox[i].type # "ready"
        BY <2>6, <3>1, <3>3 DEF Answers
      <4>2. procs[child].outbox[i].request \in Requests
        BY <4>1 DEF Messages
      <4> QED
        BY <2>7, <3>3, <4>2 DEF Owes
    <3> QED
      BY <3>2, <3>3
  <2>9. \A g \in DOMAIN procs :
          /\ processes'[g] \in ProcessState
          /\ processes'[g].lane = procs[g].lane /\ processes'[g].waiting = procs[g].waiting
          /\ processes'[g].outbox = procs[g].outbox
          /\ \/ processes'[g].inbox = procs[g].inbox
             \/ g = child /\ processes'[g].inbox = <<Head(q)>>
    <3> SUFFICES ASSUME NEW g \in DOMAIN procs
                 PROVE  /\ processes'[g] \in ProcessState
                        /\ processes'[g].lane = procs[g].lane
                        /\ processes'[g].waiting = procs[g].waiting
                        /\ processes'[g].outbox = procs[g].outbox
                        /\ \/ processes'[g].inbox = procs[g].inbox
                           \/ g = child /\ processes'[g].inbox = <<Head(q)>>
      OBVIOUS
    <3>1. CASE g # child
      <4>1. processes'[g] = procs[g]
        BY <2>4, <3>1
      <4> QED
        BY <2>6, <4>1
    <3>2. CASE g = child /\ Alive(procs[g])
      <4>1. processes'[g] = [procs[g] EXCEPT !.inbox = Append(@, Head(q))]
        BY <2>4, <3>2
      <4>2. procs[g].inbox = << >>
        BY <2>1, <2>8, <3>2
      <4>3. Append(<< >>, Head(q)) = <<Head(q)>> /\ <<Head(q)>> \in Seq(Requests)
        BY <2>2
      <4>4. processes'[g] = [procs[g] EXCEPT !.inbox = <<Head(q)>>]
        BY <4>1, <4>2, <4>3
      <4>5. processes'[g] \in ProcessState /\ processes'[g].inbox = <<Head(q)>>
        BY <2>6, <4>3, <4>4 DEF ProcessState
      <4> QED
        BY <3>2, <4>4, <4>5
    <3>3. CASE g = child /\ ~Alive(procs[g])
      <4>1. processes'[g] = [procs[g] EXCEPT !.unsent = TRUE]
        BY <2>4, <3>3
      <4> QED
        BY <2>6, <4>1 DEF ProcessState
    <3> QED
      BY <3>1, <3>2, <3>3
  <2>10. DOMAIN processes' = DOMAIN procs /\ processes' \in Seq(ProcessState)
    BY <2>1, <2>4, <2>9, ProcessesAre, IsSequence, ZenonT(30)
  <2>12. /\ provers' \in [Lane -> LaneState(procs)] /\ provers'[l] = next
         /\ \A k \in Lane : k # l => provers'[k] = lanes[k]
    BY <1>1, <2>3, <2>5 DEF LanesAre, LanesShape
  <2>13. LanesShape(provers', processes', told)
    BY <1>1, <2>10, <2>12 DEF LanesAre, LanesShape, LaneState
  <2>14. QueueInv(l, next, told)
    <3>1. QueueInv(l, prover, told)
      BY <1>1 DEF LanesAre
    <3> QED
      BY <2>2, <2>3, <3>1 DEF QueueInv
  <2>15. ASSUME NEW k \in Lane
         PROVE  /\ QueueInv(k, provers'[k], told)
                /\ provers'[k].child # Null => processes'[provers'[k].child].lane = k
    <3>1. CASE k = l
      BY <2>1, <2>3, <2>7, <2>9, <2>12, <2>14, <3>1
    <3>2. CASE k # l
      <4>1. /\ QueueInv(k, lanes[k], told) /\ lanes[k].child \in DOMAIN procs \union {Null}
            /\ lanes[k].child # Null => procs[lanes[k].child].lane = k
        BY <1>1, QueuesAre DEF LanesAre
      <4> QED
        BY <2>9, <2>12, <3>2, <4>1
    <3> QED
      BY <3>1, <3>2
  <2>16. WaitInv(processes', told)
    BY <1>1, <2>9, <2>10, SMTT(30) DEF WaitInv, LanesAre
  <2>17. ASSUME NEW g \in DOMAIN procs
         PROVE  OneThing(processes'[g]) /\ OwedTo(provers', processes', told, g)
    <3>1. OneThing(procs[g]) /\ OwedTo(lanes, procs, told, g)
      BY <1>1 DEF LanesAre
    <3>2. CASE processes'[g].inbox = procs[g].inbox
      <4>1. OneThing(processes'[g])
        BY <2>9, <3>1, <3>2 DEF OneThing, Answers
      <4>2. \A r : Owes(processes'[g], r) <=> Owes(procs[g], r)
        BY <2>9, <3>2 DEF Owes, Answers
      <4>3. g = child => \A r \in Requests : ~Owes(procs[g], r)
        BY <2>1, <2>7
      <4>4. CASE procs[g].lane = l
        BY <1>1, <2>3, <2>9, <2>12, <3>1, <4>1, <4>2, <4>3, <4>4 DEF OwedTo
      <4>5. CASE procs[g].lane # l
        BY <2>6, <2>9, <2>12, <3>1, <4>1, <4>2, <4>5 DEF OwedTo
      <4> QED
        BY <4>4, <4>5
    <3>3. CASE g = child /\ processes'[g].inbox = <<Head(q)>>
      <4>1. \A i : ~Answers(processes'[g], i)
        BY <2>1, <2>8, <2>9, <3>3 DEF Answers
      <4>2. Len(processes'[g].inbox) = 1 /\ processes'[g].inbox[1] = Head(q)
        BY <3>3
      <4>3. \A r : Owes(processes'[g], r) => r = Head(q)
        BY <4>1, <4>2 DEF Owes
      <4>4. processes'[g].lane = l /\ provers'[l].child = g /\ provers'[l].pending = {Head(q)}
        BY <2>1, <2>3, <2>7, <2>9, <2>12, <3>3
      <4> QED
        BY <4>1, <4>2, <4>3, <4>4 DEF OwedTo, OneThing
    <3> QED
      BY <2>9, <3>2, <3>3
  <2> QED
    BY <2>10, <2>13, <2>15, <2>16, <2>17 DEF LanesAre
<1> QED
  BY <1>2, <1>3

\* A lane is started, for somebody who waits for it.
LEMMA StartKeeps ==
  ASSUME NEW lanes, NEW procs, NEW told, LanesAre(lanes, procs, told),
         NEW r \in Requests, told[r] = "new", lanes[LaneOf[r]].child = Null
  PROVE  LanesAre([lanes EXCEPT ![LaneOf[r]].child = Len(procs) + 1],
                  Append(procs, [Process(LaneOf[r]) EXCEPT !.waiting = <<r>>]),
                  [told EXCEPT ![r] = "waiting"])
<1> DEFINE l == LaneOf[r]
           n == Len(procs) + 1
           worker == [Process(l) EXCEPT !.waiting = <<r>>]
           procs2 == Append(procs, worker)
           told2 == [told EXCEPT ![r] = "waiting"]
           prover == [lanes[l] EXCEPT !.child = n]
           lanes2 == [lanes EXCEPT ![l] = prover]
<1>1. /\ l \in Lane /\ procs \in Seq(ProcessState) /\ lanes[l] \in LaneState(procs)
      /\ told \in [Requests -> Told] /\ lanes \in [Lane -> LaneState(procs)]
  BY LanesAssumption, QueuesAre DEF LanesAre, LanesShape
<1>2. /\ worker \in ProcessState /\ worker.lane = l /\ worker.waiting = <<r>>
      /\ worker.inbox = << >> /\ worker.outbox = << >>
  <2>1. Process(l) \in ProcessState /\ <<r>> \in Seq(Requests)
    <3>1. << >> \in Seq(Requests) /\ << >> \in Seq(Messages) /\ "compiling" \in Phases
      BY DEF Phases
    <3>2. <<r>> \in Seq(Requests)
      OBVIOUS
    <3> QED
      BY <1>1, <3>1, <3>2 DEF Process, ProcessState
  <2>2. /\ Process(l).lane = l /\ Process(l).inbox = << >> /\ Process(l).outbox = << >>
    BY DEF Process
  <2> QED
    BY <2>1, <2>2 DEF ProcessState
<1> HIDE DEF worker
<1>3. /\ DOMAIN procs = 1 .. Len(procs) /\ Len(procs) \in Nat
      /\ procs2 \in Seq(ProcessState) /\ DOMAIN procs2 = DOMAIN procs \union {n}
      /\ n \notin DOMAIN procs /\ procs2[n] = worker
      /\ \A g \in DOMAIN procs : procs2[g] = procs[g]
  BY <1>1, <1>2, AppendProperties, LenProperties
<1> HIDE DEF procs2
<1>4. /\ told2 \in [Requests -> Told] /\ told2[r] = "waiting"
      /\ \A s \in Requests : s # r => told2[s] = told[s]
  BY <1>1 DEF Told
<1> HIDE DEF told2
<1>5. \A g \in DOMAIN procs : /\ procs[g] \in ProcessState /\ procs[g].waiting \in Seq(Requests)
                              /\ procs[g].lane \in Lane
  BY <1>1, ProcessesAre
\* Nobody waits or queues for, or owes, what is new.
<1>6. \A g \in DOMAIN procs : \A i \in 1 .. Len(procs[g].waiting) :
        procs[g].waiting[i] # r /\ procs[g].waiting[i] \in Requests
  BY <1>5 DEF LanesAre, WaitInv
<1>7. LanesAre(lanes, procs, told2)
  BY <1>4, <1>6, TheyHear
<1>8. /\ prover.child = n /\ prover.queue = lanes[l].queue /\ prover.pending = lanes[l].pending
      /\ prover \in LaneState(procs2)
  BY <1>1, <1>3 DEF LaneState
<1> HIDE DEF prover
<1>9. LaneState(procs) \subseteq LaneState(procs2)
  <2>1. DOMAIN procs \union {Null} \subseteq DOMAIN procs2 \union {Null}
    BY <1>3
  <2> QED
    BY <2>1 DEF LaneState
<1>10. /\ lanes2 \in [Lane -> LaneState(procs2)] /\ lanes2[l] = prover
       /\ \A k \in Lane : k # l => lanes2[k] = lanes[k]
  BY <1>1, <1>8, <1>9
<1>11. LanesShape(lanes2, procs2, told2)
  BY <1>3, <1>4, <1>10 DEF LanesShape
<1> HIDE DEF lanes2
<1>12. ASSUME NEW k \in Lane
       PROVE  /\ QueueInv(k, lanes2[k], told2)
              /\ lanes2[k].child # Null => procs2[lanes2[k].child].lane = k
  <2>1. CASE k = l
    BY <1>1, <1>2, <1>3, <1>7, <1>8, <1>10, <2>1, SMTT(30) DEF LanesAre, QueueInv
  <2>2. CASE k # l
    <3>1. lanes[k].child \in DOMAIN procs \union {Null}
      BY QueuesAre DEF LanesAre
    <3> QED
      BY <1>3, <1>7, <1>10, <2>2, <3>1 DEF LanesAre
  <2> QED
    BY <2>1, <2>2
<1>13. WaitInv(procs2, told2)
  <2>1. /\ Len(procs2[n].waiting) = 1 /\ procs2[n].waiting[1] = r
        /\ \A i \in 1 .. Len(procs2[n].waiting) : i = 1
    <3>1. procs2[n].waiting = <<r>>
      BY <1>2, <1>3
    <3> QED
      BY <3>1
  <2> SUFFICES ASSUME NEW g \in DOMAIN procs2, NEW i \in 1 .. Len(procs2[g].waiting)
               PROVE  /\ told2[procs2[g].waiting[i]] = "waiting"
                      /\ LaneOf[procs2[g].waiting[i]] = procs2[g].lane
                      /\ \A h \in DOMAIN procs2 : \A j \in 1 .. Len(procs2[h].waiting) :
                           procs2[g].waiting[i] = procs2[h].waiting[j] => g = h /\ i = j
    BY DEF WaitInv
  <2>2. CASE g = n
    <3>1. /\ told2[procs2[g].waiting[i]] = "waiting"
          /\ LaneOf[procs2[g].waiting[i]] = procs2[g].lane
          /\ procs2[g].waiting[i] = r /\ i = 1
      BY <1>2, <1>3, <1>4, <2>1, <2>2
    <3>2. ASSUME NEW h \in DOMAIN procs2, NEW j \in 1 .. Len(procs2[h].waiting),
                 r = procs2[h].waiting[j]
          PROVE  g = h /\ i = j
      <4>1. h = n
        BY <1>3, <1>6, <3>2
      <4> QED
        BY <2>1, <2>2, <3>1, <3>2, <4>1
    <3> QED
      BY <3>1, <3>2
  <2>3. CASE g \in DOMAIN procs
    <3>1. /\ procs2[g] = procs[g] /\ procs[g].waiting[i] # r
          /\ told2[procs[g].waiting[i]] = "waiting"
          /\ LaneOf[procs[g].waiting[i]] = procs[g].lane
      BY <1>3, <1>6, <1>7, <2>3 DEF LanesAre, WaitInv
    <3>2. ASSUME NEW h \in DOMAIN procs2, NEW j \in 1 .. Len(procs2[h].waiting),
                 procs[g].waiting[i] = procs2[h].waiting[j]
          PROVE  g = h /\ i = j
      <4>1. h # n
        BY <2>1, <3>1, <3>2
      <4>2. h \in DOMAIN procs /\ procs2[h] = procs[h]
        BY <1>3, <4>1
      <4> QED
        BY <1>7, <2>3, <3>1, <3>2, <4>2 DEF LanesAre, WaitInv
    <3> QED
      BY <3>1, <3>2
  <2> QED
    BY <1>3, <2>2, <2>3
<1>14. ASSUME NEW g \in DOMAIN procs2
       PROVE  OneThing(procs2[g]) /\ OwedTo(lanes2, procs2, told2, g)
  <2>1. CASE g = n
    BY <1>2, <1>3, <2>1 DEF OneThing, OwedTo, Owes, Answers
  <2>2. CASE g \in DOMAIN procs
    <3>1. OneThing(procs[g]) /\ OwedTo(lanes, procs, told2, g) /\ procs2[g] = procs[g]
      BY <1>3, <1>7, <2>2 DEF LanesAre
    <3>2. CASE procs[g].lane = l
      <4>1. lanes[l].child # g
        BY <1>3, <2>2, LanesAssumption
      <4>2. lanes2[l].child # g
        BY <1>3, <1>8, <1>10, <2>2, <1>1
      <4> QED
        BY <3>1, <3>2, <4>1, <4>2 DEF OwedTo
    <3>3. CASE procs[g].lane # l
      BY <1>5, <1>10, <2>2, <3>1, <3>3 DEF OwedTo
    <3> QED
      BY <3>2, <3>3
  <2> QED
    BY <1>3, <2>1, <2>2
<1>15. LanesAre(lanes2, procs2, told2)
  BY <1>11, <1>12, <1>13, <1>14 DEF LanesAre
<1>16. lanes2 = [lanes EXCEPT ![l].child = n]
  BY DEF lanes2, prover
<1> QED
  BY <1>15, <1>16 DEF procs2, told2, worker

\* Somebody waits for a lane that is starting.
LEMMA WaitKeeps ==
  ASSUME NEW lanes, NEW procs, NEW told, LanesAre(lanes, procs, told),
         NEW r \in Requests, told[r] = "new", NEW c \in DOMAIN procs, procs[c].lane = LaneOf[r]
  PROVE  LanesAre(lanes, [procs EXCEPT ![c].waiting = Append(@, r)],
                  [told EXCEPT ![r] = "waiting"])
<1> DEFINE line == Append(procs[c].waiting, r)
           procs2 == [procs EXCEPT ![c].waiting = Append(@, r)]
           told2 == [told EXCEPT ![r] = "waiting"]
<1>1. /\ procs \in Seq(ProcessState) /\ told \in [Requests -> Told]
      /\ \A g \in DOMAIN procs : /\ procs[g] \in ProcessState /\ procs[g].waiting \in Seq(Requests)
                                 /\ procs[g].lane \in Lane
  BY ProcessesAre DEF LanesAre, LanesShape
<1>2. /\ told2 \in [Requests -> Told] /\ told2[r] = "waiting"
      /\ \A s \in Requests : s # r => told2[s] = told[s]
  BY <1>1 DEF Told
<1> HIDE DEF told2
<1>3. \A g \in DOMAIN procs : \A i \in 1 .. Len(procs[g].waiting) :
        procs[g].waiting[i] # r /\ procs[g].waiting[i] \in Requests
  <2> SUFFICES ASSUME NEW g \in DOMAIN procs, NEW i \in 1 .. Len(procs[g].waiting)
               PROVE  procs[g].waiting[i] # r /\ procs[g].waiting[i] \in Requests
    OBVIOUS
  <2>1. told[procs[g].waiting[i]] = "waiting"
    BY DEF LanesAre, WaitInv
  <2> QED
    BY <1>1, <2>1
<1>4. LanesAre(lanes, procs, told2)
  BY <1>2, <1>3, TheyHear
<1>5. /\ line \in Seq(Requests) /\ Len(line) = Len(procs[c].waiting) + 1
      /\ Len(procs[c].waiting) \in Nat
      /\ \A i \in 1 .. Len(procs[c].waiting) : line[i] = procs[c].waiting[i]
      /\ line[Len(line)] = r
  BY <1>1, AppendProperties, LenProperties
<1>6. /\ DOMAIN procs2 = DOMAIN procs /\ procs2[c] = [procs[c] EXCEPT !.waiting = line]
      /\ \A g \in DOMAIN procs : g # c => procs2[g] = procs[g]
  BY <1>1
<1> HIDE DEF line, procs2
<1>7. /\ procs2[c] \in ProcessState /\ procs2[c].waiting = line
      /\ \A g \in DOMAIN procs : /\ procs2[g] \in ProcessState
                                 /\ procs2[g].lane = procs[g].lane
                                 /\ procs2[g].inbox = procs[g].inbox
                                 /\ procs2[g].outbox = procs[g].outbox
                                 /\ g # c => procs2[g].waiting = procs[g].waiting
  <2>1. /\ procs2[c] \in ProcessState /\ procs2[c].waiting = line
        /\ procs2[c].lane = procs[c].lane /\ procs2[c].inbox = procs[c].inbox
        /\ procs2[c].outbox = procs[c].outbox
    BY <1>1, <1>5, <1>6 DEF ProcessState
  <2> QED
    BY <1>1, <1>6, <2>1
<1>8. procs2 \in Seq(ProcessState)
  <2>1. procs2 \in [1 .. Len(procs) -> ProcessState]
    <3>1. procs2 = [g \in DOMAIN procs |-> procs2[g]]
      BY <1>6, <1>1 DEF procs2
    <3> QED
      BY <1>1, <1>7, <3>1, LenProperties
  <2> QED
    BY <1>1, <2>1, IsSequence, LenProperties
<1>9. LanesShape(lanes, procs2, told2)
  BY <1>4, <1>6, <1>8 DEF LanesAre, LanesShape, LaneState
<1>10. \A l \in Lane : /\ QueueInv(l, lanes[l], told2)
                       /\ lanes[l].child # Null => procs2[lanes[l].child].lane = l
  BY <1>4, <1>7, QueuesAre DEF LanesAre
<1>11. \A i \in 1 .. Len(line) :
         \/ i \in 1 .. Len(procs[c].waiting) /\ line[i] = procs[c].waiting[i] /\ line[i] # r
         \/ i = Len(line) /\ line[i] = r /\ i \notin 1 .. Len(procs[c].waiting)
  BY <1>3, <1>5
<1>12. WaitInv(procs2, told2)
  <2> SUFFICES ASSUME NEW g \in DOMAIN procs, NEW i \in 1 .. Len(procs2[g].waiting)
               PROVE  /\ told2[procs2[g].waiting[i]] = "waiting"
                      /\ LaneOf[procs2[g].waiting[i]] = procs[g].lane
                      /\ \A h \in DOMAIN procs : \A j \in 1 .. Len(procs2[h].waiting) :
                           procs2[g].waiting[i] = procs2[h].waiting[j] => g = h /\ i = j
    BY <1>6, <1>7 DEF WaitInv
  <2>1. CASE procs2[g].waiting[i] = r
    <3>1. \A h \in DOMAIN procs : \A j \in 1 .. Len(procs2[h].waiting) :
            procs2[h].waiting[j] = r => h = c /\ j = Len(line)
      BY <1>3, <1>7, <1>11
    <3> QED
      BY <1>2, <2>1, <3>1
  <2>2. CASE procs2[g].waiting[i] # r
    <3>1. \A h \in DOMAIN procs : \A j \in 1 .. Len(procs2[h].waiting) :
            procs2[h].waiting[j] # r =>
              j \in 1 .. Len(procs[h].waiting) /\ procs2[h].waiting[j] = procs[h].waiting[j]
      BY <1>7, <1>11
    <3> QED
      BY <1>4, <2>2, <3>1 DEF LanesAre, WaitInv
  <2> QED
    BY <2>1, <2>2
<1>13. ASSUME NEW g \in DOMAIN procs
       PROVE  OneThing(procs2[g]) /\ OwedTo(lanes, procs2, told2, g)
  <2>1. OneThing(procs[g]) /\ OwedTo(lanes, procs, told2, g)
    BY <1>4 DEF LanesAre
  <2>2. \A s : Owes(procs2[g], s) <=> Owes(procs[g], s)
    BY <1>7 DEF Owes, Answers
  <2> QED
    BY <1>7, <2>1, <2>2 DEF OneThing, OwedTo, Answers
<1>14. LanesAre(lanes, procs2, told2)
  BY <1>6, <1>9, <1>10, <1>12, <1>13 DEF LanesAre
<1> QED
  BY <1>14 DEF procs2, told2

----------------------------------------------------------------------------
(* Every step of a lane.                                                    *)

LEMMA SubmitKeeps ==
  ASSUME LanesInv, NEW r \in Requests, submit(r)
  PROVE  LanesInv'
<1> DEFINE l == LaneOf[r]
           c == provers[l].child
<1> USE DEF LanesInv
<1>1. /\ l \in Lane /\ provers[l] \in LaneState(processes) /\ DOMAIN provers = Lane
      /\ provers[l].queue \in Seq(Requests) /\ c \in DOMAIN processes \union {Null}
      /\ status \in [Requests -> Told]
  BY LanesAssumption, QueuesAre DEF LanesAre, LanesShape
<1>2. status[r] = "new"
  BY DEF submit
<1>3. CASE c = Null
  <2>1. /\ processes' = Append(processes, [Process(l) EXCEPT !.waiting = <<r>>])
        /\ provers' = [provers EXCEPT ![l].child = Len(processes) + 1]
        /\ status' = [status EXCEPT ![r] = "waiting"]
    BY <1>3 DEF submit
  <2> QED
    BY <1>2, <1>3, <2>1, StartKeeps
<1>4. CASE c # Null /\ ~processes[c].ready
  <2>1. /\ processes' = [processes EXCEPT ![c].waiting = Append(@, r)]
        /\ status' = [status EXCEPT ![r] = "waiting"] /\ provers' = provers
    BY <1>4 DEF submit
  <2>2. processes[c].lane = l
    BY <1>1, <1>4 DEF LanesAre
  <2> QED
    BY <1>1, <1>2, <1>4, <2>1, <2>2, WaitKeeps
<1>5. CASE c # Null /\ processes[c].ready
  <2> DEFINE told == [status EXCEPT ![r] = "queued"]
  <2>1. Run(l, Enqueued(l, <<r>>), processes) /\ status' = told
    BY <1>5 DEF submit
  <2>2. /\ told \in [Requests -> Told] /\ told[r] = "queued"
        /\ \A s \in Requests : s # r => told[s] = status[s]
    BY <1>1 DEF Told
  <2> HIDE DEF told
  <2>3. \A g \in DOMAIN processes : \A i \in 1 .. Len(processes[g].waiting) :
          processes[g].waiting[i] # r
    BY <1>2 DEF LanesAre, WaitInv
  <2>4. LanesAre(provers, processes, told)
    BY <1>2, <2>2, <2>3, TheyHear
  <2>5. \A j \in 1 .. Len(provers[l].queue) : provers[l].queue[j] # r
    BY <1>1, <1>2 DEF LanesAre, QueueInv
  <2>6. <<r>> \in Seq(Requests) /\ Len(<<r>>) = 1 /\ <<r>>[1] = r
    OBVIOUS
  <2>7. \A i \in 1 .. Len(<<r>>) :
           /\ told[<<r>>[i]] = "queued" /\ LaneOf[<<r>>[i]] = l
           /\ \A j \in 1 .. Len(provers[l].queue) : provers[l].queue[j] # <<r>>[i]
           /\ \A j \in 1 .. Len(<<r>>) : <<r>>[i] = <<r>>[j] => i = j
    <3>1. \A i \in 1 .. Len(<<r>>) : i = 1
      BY <2>6
    <3> QED
      BY <2>2, <2>5, <2>6, <3>1
  <2>8. LanesAre([provers EXCEPT ![l] = Enqueued(l, <<r>>)], processes, told)
    BY <1>1, <2>4, <2>6, <2>7, TheyQueue DEF Enqueued
  <2> QED
    BY <1>1, <2>1, <2>8, RunKeeps
<1> QED
  BY <1>1, <1>3, <1>4, <1>5

\* One worker changes.
LEMMA WorkerMoves ==
  ASSUME NEW lanes, NEW procs, NEW told, LanesAre(lanes, procs, told),
         NEW g \in DOMAIN procs, NEW p \in ProcessState,
         p.lane = procs[g].lane, p.waiting \in {procs[g].waiting, << >>}, OneThing(p),
         \A r \in Requests : Owes(p, r) => Owes(procs[g], r)
  PROVE  LanesAre(lanes, [procs EXCEPT ![g] = p], told)
<1> DEFINE procs2 == [procs EXCEPT ![g] = p]
<1>1. \A h \in DOMAIN procs : procs[h] \in ProcessState /\ OneThing(procs[h])
  BY ProcessesAre DEF LanesAre, LanesShape
<1>2. procs \in [DOMAIN procs -> ProcessState]
  BY LenProperties DEF LanesAre, LanesShape
<1>3. /\ procs2 \in [DOMAIN procs -> ProcessState] /\ procs2[g] = p
      /\ \A h \in DOMAIN procs : h # g => procs2[h] = procs[h]
  BY <1>2
<1> HIDE DEF procs2
<1>4. \A h \in DOMAIN procs :
           /\ procs2[h].lane = procs[h].lane
           /\ procs2[h].waiting \in {procs[h].waiting, << >>}
           /\ OneThing(procs2[h])
           /\ \A r \in Requests : Owes(procs2[h], r) => Owes(procs[h], r)
  <2> TAKE h \in DOMAIN procs
  <2>1. CASE h = g
    BY <1>3, <2>1
  <2>2. CASE h # g
    BY <1>1, <1>3, <2>2
  <2> QED
    BY <2>1, <2>2
<1>5. LanesAre(lanes, procs2, told)
  BY <1>3, <1>4, ProcessesMove
<1> QED
  BY <1>5 DEF procs2

LEMMA WorkerIs ==
  ASSUME LanesInv, NEW g \in DOMAIN processes
  PROVE  /\ processes[g] \in ProcessState /\ OneThing(processes[g])
         /\ processes[g].inbox \in Seq(Requests) /\ processes[g].outbox \in Seq(Messages)
         /\ processes[g].waiting \in Seq(Requests) /\ processes[g].lane \in Lane
         /\ OwedTo(provers, processes, status, g)
         /\ processes \in [DOMAIN processes -> ProcessState]
BY ProcessesAre, LenProperties DEF LanesInv, LanesAre, LanesShape

LEMMA CompiledKeeps ==
  ASSUME LanesInv, NEW g \in DOMAIN processes, Compiled(g)
  PROVE  LanesInv'
<1> DEFINE w == processes[g]
           out == Append(w.outbox, [type |-> "ready"])
           p == [w EXCEPT !.phase = "up", !.outbox = out]
<1>1. /\ w \in ProcessState /\ OneThing(w) /\ w.outbox \in Seq(Messages)
      /\ processes \in [DOMAIN processes -> ProcessState]
  BY WorkerIs
<1>2. [type |-> "ready"] \in Messages
  BY DEF Messages
<1>3. /\ out \in Seq(Messages) /\ Len(out) = Len(w.outbox) + 1 /\ Len(w.outbox) \in Nat
      /\ \A i \in 1 .. Len(w.outbox) : out[i] = w.outbox[i]
      /\ out[Len(out)] = [type |-> "ready"]
  BY <1>1, <1>2, AppendProperties, LenProperties
<1> HIDE DEF out
<1>4. /\ p \in ProcessState /\ p.lane = w.lane /\ p.waiting = w.waiting
      /\ p.inbox = w.inbox /\ p.outbox = out
  BY <1>1, <1>3 DEF ProcessState, Phases
<1>5. processes' = [processes EXCEPT ![g] = p] /\ UNCHANGED <<provers, status>>
  BY DEF Compiled, out
<1> HIDE DEF p
<1>6. \A i : Answers(p, i) => Answers(w, i) /\ p.outbox[i] = w.outbox[i]
  BY <1>3, <1>4 DEF Answers
<1>7. OneThing(p) /\ \A r \in Requests : Owes(p, r) => Owes(w, r)
  BY <1>1, <1>4, <1>6 DEF OneThing, Owes
<1> QED
  BY <1>4, <1>5, <1>7, WorkerMoves DEF LanesInv

LEMMA AnswerKeeps ==
  ASSUME LanesInv, NEW g \in DOMAIN processes, NEW outcome \in Settled, NEW next \in Phases,
         Answer(g, outcome, next)
  PROVE  LanesInv'
<1> DEFINE w == processes[g]
           s == Head(w.inbox)
           out == Append(w.outbox, [type |-> outcome, request |-> s])
           p == [w EXCEPT !.inbox = Tail(@), !.phase = next, !.outbox = out]
<1>1. /\ w \in ProcessState /\ OneThing(w) /\ w.outbox \in Seq(Messages)
      /\ w.inbox \in Seq(Requests) /\ processes \in [DOMAIN processes -> ProcessState]
  BY WorkerIs
<1>2. w.inbox # << >> /\ s \in Requests /\ s = w.inbox[1] /\ 1 \in 1 .. Len(w.inbox)
  BY <1>1 DEF Answer
<1>3. Len(w.inbox) = 1 /\ Tail(w.inbox) = << >>
  <2>1. Len(w.inbox) = 1
    <3>1. Len(w.inbox) <= 1 /\ Len(w.inbox) \in Nat
      BY <1>1, LenProperties DEF OneThing
    <3> QED
      <4>1. \A n \in Nat : n <= 1 /\ 1 \in 1 .. n => n = 1
        OBVIOUS
      <4> HIDE DEF s, out, p, w
      <4> QED
        BY <1>2, <3>1, <4>1
  <2>2. Tail(w.inbox) \in Seq(Requests) /\ Len(Tail(w.inbox)) = 0
    BY <1>1, <1>2, <2>1, HeadTailProperties
  <2> QED
    BY <2>1, <2>2, EmptySeq
<1>4. \A i : ~Answers(w, i)
  BY <1>1, <1>2 DEF OneThing
<1>5. [type |-> outcome, request |-> s] \in Messages
  BY <1>2 DEF Messages
<1>6. /\ out \in Seq(Messages) /\ Len(out) = Len(w.outbox) + 1 /\ Len(w.outbox) \in Nat
      /\ \A i \in 1 .. Len(w.outbox) : out[i] = w.outbox[i]
      /\ out[Len(out)] = [type |-> outcome, request |-> s]
  BY <1>1, <1>5, AppendProperties, LenProperties
<1>7. processes' = [processes EXCEPT ![g] = p] /\ UNCHANGED <<provers, status>>
  BY DEF Answer
<1> HIDE DEF out, s
<1>8. /\ p \in ProcessState /\ p.lane = w.lane /\ p.waiting = w.waiting
      /\ p.inbox = << >> /\ p.outbox = out
  <2>1. p = [w EXCEPT !.inbox = << >>, !.phase = next, !.outbox = out]
    BY <1>3
  <2>2. << >> \in Seq(Requests)
    OBVIOUS
  <2> HIDE DEF p
  <2> QED
    BY <1>1, <1>6, <2>1, <2>2 DEF ProcessState
<1> HIDE DEF p
<1>9. \A i : Answers(p, i) => i = Len(out) /\ p.outbox[i].request = s
  BY <1>4, <1>6, <1>8, SMTT(30) DEF Answers
<1>10. OneThing(p)
  BY <1>8, <1>9 DEF OneThing
<1>11. \A r \in Requests : Owes(p, r) => Owes(w, r)
  BY <1>2, <1>8, <1>9 DEF Owes
<1> QED
  BY <1>7, <1>8, <1>10, <1>11, WorkerMoves DEF LanesInv

LEMMA EndsKeeps ==
  ASSUME LanesInv, NEW g \in DOMAIN processes, Ends(g)
  PROVE  LanesInv'
<1> DEFINE w == processes[g]
           p == [w EXCEPT !.phase = "ended", !.inbox = << >>]
<1>1. w \in ProcessState /\ OneThing(w) /\ processes \in [DOMAIN processes -> ProcessState]
  BY WorkerIs
<1>2. << >> \in Seq(Requests) /\ "ended" \in Phases
  BY DEF Phases
<1>3. /\ p \in ProcessState /\ p.lane = w.lane /\ p.waiting = w.waiting
      /\ p.inbox = << >> /\ p.outbox = w.outbox
  BY <1>1, <1>2 DEF ProcessState
<1>4. processes' = [processes EXCEPT ![g] = p] /\ UNCHANGED <<provers, status>>
  BY DEF Ends
<1> HIDE DEF p
<1>5. OneThing(p) /\ \A r \in Requests : Owes(p, r) => Owes(w, r)
  BY <1>1, <1>3 DEF OneThing, Owes, Answers
<1> QED
  BY <1>3, <1>4, <1>5, WorkerMoves DEF LanesInv

\* A message that is heard: what remains of the worker owes no more.
Heard(w, ready, waiting) ==
  [w EXCEPT !.outbox = Tail(@), !.ready = ready, !.waiting = waiting]

HeardFrom(w, p) ==
  /\ p \in ProcessState /\ p.lane = w.lane
  /\ p.inbox = w.inbox /\ p.outbox = Tail(w.outbox)
  /\ \A i : Answers(p, i) => i + 1 \in 1 .. Len(w.outbox) /\ Answers(w, i + 1)

LEMMA HeardKeeps ==
  ASSUME LanesInv, NEW g \in DOMAIN processes, processes[g].outbox # << >>,
         NEW ready \in BOOLEAN, NEW waiting \in {processes[g].waiting, << >>}
  PROVE  /\ HeardFrom(processes[g], Heard(processes[g], ready, waiting))
         /\ Heard(processes[g], ready, waiting).waiting = waiting
         /\ LanesAre(provers, [processes EXCEPT ![g] = Heard(processes[g], ready, waiting)], status)
<1> DEFINE w == processes[g]
           out == Tail(w.outbox)
           p == Heard(w, ready, waiting)
<1>1. /\ w \in ProcessState /\ OneThing(w) /\ w.outbox \in Seq(Messages)
      /\ w.waiting \in Seq(Requests)
  BY WorkerIs
<1>2. /\ out \in Seq(Messages) /\ Len(out) = Len(w.outbox) - 1 /\ Len(w.outbox) \in Nat
      /\ \A i \in 1 .. Len(out) : out[i] = w.outbox[i + 1]
  BY <1>1, HeadTailProperties, LenProperties
<1>3. waiting \in Seq(Requests)
  <2>1. << >> \in Seq(Requests)
    OBVIOUS
  <2> QED
    BY <1>1, <2>1
<1>4. p = [w EXCEPT !.outbox = out, !.ready = ready, !.waiting = waiting]
  BY DEF Heard
<1> HIDE DEF out, p
<1>5. /\ p \in ProcessState /\ p.lane = w.lane /\ p.waiting = waiting
      /\ p.inbox = w.inbox /\ p.outbox = out
  BY <1>1, <1>2, <1>3, <1>4 DEF ProcessState
<1>6. \A i : Answers(p, i) => /\ i \in 1 .. Len(out) /\ i + 1 \in 1 .. Len(w.outbox)
                              /\ Answers(w, i + 1) /\ p.outbox[i] = w.outbox[i + 1]
  BY <1>2, <1>5 DEF Answers
<1>7. OneThing(p)
  <2> SUFFICES ASSUME NEW i, NEW j, Answers(p, i), Answers(p, j)
               PROVE  p.inbox = << >> /\ i = j
    BY <1>1, <1>5 DEF OneThing
  <2>1. w.inbox = << >> /\ i + 1 = j + 1
    BY <1>1, <1>6 DEF OneThing
  <2> QED
    BY <1>2, <1>5, <1>6, <2>1
<1>8. \A r \in Requests : Owes(p, r) => Owes(w, r)
  BY <1>5, <1>6 DEF Owes
<1>9. LanesAre(provers, [processes EXCEPT ![g] = p], status)
  BY <1>1, <1>5, <1>7, <1>8, WorkerMoves DEF LanesInv
<1> QED
  BY <1>5, <1>6, <1>9 DEF out, p, HeardFrom

\* The worker is ready: those who waited for it queue.
LEMMA ReadyKeeps ==
  ASSUME LanesInv, NEW g \in DOMAIN processes, Message(g),
         Head(processes[g].outbox).type = "ready"
  PROVE  LanesInv'
<1> DEFINE w == processes[g]
           l == w.lane
           ws == w.waiting
           p == Heard(w, TRUE, << >>)
           procs == [processes EXCEPT ![g] = p]
           rest == [processes EXCEPT ![g].outbox = Tail(@)]
           told == [r \in Requests |-> IF r \in Range(ws) THEN "queued" ELSE status[r]]
<1>1. /\ w \in ProcessState /\ ws \in Seq(Requests) /\ l \in Lane
      /\ processes \in [DOMAIN processes -> ProcessState]
      /\ provers[l].queue \in Seq(Requests) /\ DOMAIN provers = Lane
      /\ status \in [Requests -> Told]
  BY WorkerIs, QueuesAre DEF LanesInv, LanesAre, LanesShape
<1>2. w.outbox # << >>
  BY DEF Message
<1>3. /\ Run(l, Enqueued(l, ws), [rest EXCEPT ![g].ready = TRUE, ![g].waiting = << >>])
      /\ status' = told
  BY DEF Message
<1>4. [rest EXCEPT ![g].ready = TRUE, ![g].waiting = << >>] = procs
  BY <1>1 DEF Heard
<1>5. /\ LanesAre(provers, procs, status)
      /\ p \in ProcessState /\ p.lane = w.lane /\ p.waiting = << >>
  BY <1>2, HeardKeeps DEF HeardFrom
<1>6. /\ DOMAIN procs = DOMAIN processes /\ procs[g] = p
      /\ \A h \in DOMAIN processes : h # g => procs[h] = processes[h]
  BY <1>1
<1> HIDE DEF procs, p, rest
<1>7. \A i \in 1 .. Len(ws) :
        /\ ws[i] \in Requests /\ status[ws[i]] = "waiting" /\ LaneOf[ws[i]] = l
        /\ \A h \in DOMAIN processes : \A j \in 1 .. Len(processes[h].waiting) :
             ws[i] = processes[h].waiting[j] => g = h /\ i = j
  BY <1>1 DEF LanesInv, LanesAre, WaitInv
<1>8. /\ told \in [Requests -> Told]
      /\ \A i \in 1 .. Len(ws) : told[ws[i]] = "queued"
      /\ \A r \in Requests : told[r] = status[r] \/ \E i \in 1 .. Len(ws) : ws[i] = r
  <2>1. Range(ws) = {ws[i] : i \in 1 .. Len(ws)}
    BY <1>1, LenProperties DEF Range
  <2> QED
    BY <1>1, <1>7, <2>1 DEF Told
<1> HIDE DEF told
<1>9. LanesAre(provers, procs, told)
  <2>1. ASSUME NEW r \in Requests, told[r] # status[r]
        PROVE  /\ status[r] \in {"new", "waiting"}
               /\ \A h \in DOMAIN procs : \A i \in 1 .. Len(procs[h].waiting) :
                    procs[h].waiting[i] # r
    <3>1. PICK i \in 1 .. Len(ws) : ws[i] = r
      BY <1>8, <2>1
    <3>2. \A j : j \notin 1 .. Len(p.waiting)
      BY <1>5
    <3>3. ASSUME NEW h \in DOMAIN procs, NEW j \in 1 .. Len(procs[h].waiting),
                 procs[h].waiting[j] = r
          PROVE  FALSE
      <4>1. h # g
        BY <1>6, <3>2
      <4> QED
        BY <1>6, <1>7, <3>1, <3>3, <4>1
    <3> QED
      BY <1>7, <3>1, <3>3
  <2> QED
    BY <1>5, <1>8, <2>1, TheyHear
<1>10. \A i \in 1 .. Len(ws) :
         /\ told[ws[i]] = "queued" /\ LaneOf[ws[i]] = l
         /\ \A j \in 1 .. Len(provers[l].queue) : provers[l].queue[j] # ws[i]
         /\ \A j \in 1 .. Len(ws) : ws[i] = ws[j] => i = j
  <2> TAKE i \in 1 .. Len(ws)
  <2>1. \A j \in 1 .. Len(provers[l].queue) : status[provers[l].queue[j]] = "queued"
    BY <1>1 DEF LanesInv, LanesAre, QueueInv
  <2> QED
    BY <1>7, <1>8, <2>1
<1>11. LanesAre([provers EXCEPT ![l] = Enqueued(l, ws)], procs, told)
  BY <1>1, <1>9, <1>10, TheyQueue DEF Enqueued
<1> QED
  BY <1>1, <1>3, <1>4, <1>11, RunKeeps DEF LanesInv

\* An answer: the request that was pending settles, and the worker owes nothing.
LEMMA AnsweredKeeps ==
  ASSUME LanesInv, NEW g \in DOMAIN processes, Message(g),
         Head(processes[g].outbox).type # "ready"
  PROVE  LanesInv'
<1> DEFINE w == processes[g]
           l == w.lane
           m == Head(w.outbox)
           p == Heard(w, w.ready, w.waiting)
           procs == [processes EXCEPT ![g] = p]
           rest == [processes EXCEPT ![g].outbox = Tail(@)]
<1>1. /\ w \in ProcessState /\ w.outbox \in Seq(Messages) /\ l \in Lane /\ OneThing(w)
      /\ processes \in [DOMAIN processes -> ProcessState]
      /\ DOMAIN provers = Lane /\ status \in [Requests -> Told]
      /\ provers[l] \in LaneState(processes) /\ provers[l].pending \subseteq Requests
      /\ OwedTo(provers, processes, status, g) /\ Null \notin DOMAIN processes
  BY WorkerIs, QueuesAre DEF LanesInv, LanesAre, LanesShape
<1>2. w.outbox # << >>
  BY DEF Message
<1>3. /\ m = w.outbox[1] /\ 1 \in 1 .. Len(w.outbox) /\ m \in Messages
  BY <1>1, <1>2
<1>4. Answers(w, 1) /\ m.request \in Requests /\ m.type \in Settled
  BY <1>3 DEF Answers, Messages
<1>5. w.ready \in BOOLEAN
  BY <1>1 DEF ProcessState
<1>6. rest = procs
  <2>1. [w EXCEPT !.outbox = Tail(@)] = p
    BY <1>1 DEF ProcessState, Heard
  <2> QED
    BY <2>1
<1>7. LanesAre(provers, procs, status) /\ HeardFrom(w, p)
  BY <1>2, <1>5, HeardKeeps
<1>8. procs[g] = p /\ DOMAIN procs = DOMAIN processes
  BY <1>1
<1> HIDE DEF p, procs, rest, m
<1>9. CASE m.request \notin provers[l].pending
  <2>1. processes' = rest /\ UNCHANGED <<provers, status>>
    BY <1>9 DEF Message, m, rest
  <2> QED
    BY <1>6, <1>7, <2>1 DEF LanesInv
<1>10. CASE m.request \in provers[l].pending
  <2> DEFINE told == [status EXCEPT ![m.request] = m.type]
  <2>1. Run(l, Cleared(provers[l]), rest) /\ status' = told
    BY <1>10 DEF Message, m, rest
  \* It is the lane's worker that answers.
  <2>2. Owes(w, m.request)
    BY <1>3, <1>4 DEF Owes
  <2>3. provers[l].child = g /\ provers[l].pending = {m.request}
    <3>1. QueueInv(l, provers[l], status) /\ provers[l].queue \in Seq(Requests)
      BY <1>1, QueuesAre DEF LanesInv, LanesAre
    <3>2. provers[l].queue # << >> /\ provers[l].pending = {provers[l].queue[1]}
      BY <1>10, <3>1 DEF QueueInv
    <3>3. 1 \in 1 .. Len(provers[l].queue)
      BY <3>1, <3>2
    <3>4. status[m.request] = "queued"
      BY <1>10, <3>1, <3>2, <3>3 DEF QueueInv
    <3>5. status[m.request] \notin Settled
      BY <3>4 DEF Settled
    <3> QED
      BY <1>1, <1>4, <2>2, <3>5 DEF OwedTo
  <2>4. \A i : ~Answers(p, i)
    <3> SUFFICES ASSUME NEW i, Answers(p, i) PROVE FALSE
      OBVIOUS
    <3>1. i + 1 = 1
      BY <1>1, <1>4, <1>7 DEF OneThing, HeardFrom
    <3>2. i \in 1 .. Len(p.outbox) /\ Len(p.outbox) \in Nat
      BY <1>1, <1>2, <1>7, HeadTailProperties, LenProperties DEF Answers, HeardFrom
    <3> QED
      BY <3>1, <3>2
  <2>5. w.inbox = << >>
    BY <1>1, <1>4 DEF OneThing
  <2>6. \A r \in Requests : ~Owes(procs[g], r)
    BY <1>7, <1>8, <2>4, <2>5 DEF Owes, HeardFrom
  <2>7. /\ told \in [Requests -> Told] /\ told[m.request] \in Settled
        /\ \A r \in Requests : r # m.request => told[r] = status[r]
    BY <1>1, <1>4 DEF Told
  <2> HIDE DEF told
  <2>8. [Cleared(provers[l]) EXCEPT !.child = provers[l].child] = Cleared(provers[l])
    <3>1. provers[l] = [child |-> provers[l].child, queue |-> provers[l].queue,
                        pending |-> provers[l].pending]
      BY <1>1 DEF LaneState
    <3>2. DOMAIN Cleared(provers[l]) = {"child", "queue", "pending"}
          /\ Cleared(provers[l]).child = provers[l].child
      BY <3>1 DEF Cleared
    <3> QED
      BY <1>1, <3>2 DEF Cleared
  <2>9. LanesAre(Afterwards(provers, l, provers[l].child), procs, told)
    <3>1. \A r \in Requests : IF r \in provers[l].pending THEN told[r] \in Settled
                              ELSE told[r] = status[r]
      BY <2>3, <2>7
    <3>2. provers[l].child # Null => \A r \in Requests : ~Owes(procs[provers[l].child], r)
      BY <2>3, <2>6
    <3> HIDE DEF l
    <3> QED
      BY <1>1, <1>7, <2>7, <3>1, <3>2, HeadSettles
  <2> QED
    BY <1>1, <1>6, <2>1, <2>8, <2>9, RunKeeps DEF LanesInv, Afterwards
<1> QED
  BY <1>9, <1>10

\* The worker is given up: what was pending fails, and so does who waited.
LEMMA DieKeeps ==
  ASSUME LanesInv, NEW g \in DOMAIN processes, NEW p \in ProcessState,
         p.lane = processes[g].lane, p.waiting = processes[g].waiting, OneThing(p),
         \A r \in Requests : Owes(p, r) => Owes(processes[g], r),
         die(g, [processes EXCEPT ![g] = p])
  PROVE  LanesInv'
<1> DEFINE procs == [processes EXCEPT ![g] = p]
           l == p.lane
           ws == p.waiting
           left == [p EXCEPT !.waiting = << >>]
           procs2 == [processes EXCEPT ![g] = left]
           told == [r \in Requests |-> IF r \in Range(ws) THEN "failed" ELSE status[r]]
           lost == provers[l].pending \union Range(ws)
           told2 == [r \in Requests |-> IF r \in lost THEN "failed" ELSE status[r]]
<1>1. /\ p \in ProcessState /\ l \in Lane /\ ws \in Seq(Requests)
      /\ processes \in [DOMAIN processes -> ProcessState] /\ DOMAIN provers = Lane
      /\ status \in [Requests -> Told] /\ ws = processes[g].waiting
  BY WorkerIs, QueuesAre DEF LanesInv, LanesAre, LanesShape, ProcessState
<1>2. procs[g] = p /\ [procs EXCEPT ![g].waiting = << >>] = procs2
  BY <1>1
<1>3. /\ Run(l, [Cleared(provers[l]) EXCEPT !.child = Null], procs2)
      /\ status' = told2
  BY <1>2 DEF die
<1>4. /\ left \in ProcessState /\ left.lane = l /\ left.waiting = << >>
      /\ left.inbox = p.inbox /\ left.outbox = p.outbox
  <2>1. << >> \in Seq(Requests)
    OBVIOUS
  <2> QED
    BY <1>1, <2>1 DEF ProcessState
<1> HIDE DEF left
<1>5. OneThing(left) /\ \A r \in Requests : Owes(left, r) => Owes(processes[g], r)
  BY <1>4 DEF OneThing, Owes, Answers
<1>6. LanesAre(provers, procs2, status)
  BY <1>1, <1>4, <1>5, WorkerMoves DEF LanesInv
<1>7. /\ DOMAIN procs2 = DOMAIN processes /\ procs2[g].waiting = << >>
      /\ \A h \in DOMAIN processes : h # g => procs2[h] = processes[h]
  BY <1>1, <1>4
<1> HIDE DEF procs2, procs
<1>8. \A i \in 1 .. Len(ws) :
        /\ ws[i] \in Requests /\ status[ws[i]] = "waiting"
        /\ \A h \in DOMAIN processes : \A j \in 1 .. Len(processes[h].waiting) :
             ws[i] = processes[h].waiting[j] => g = h /\ i = j
  BY <1>1 DEF LanesInv, LanesAre, WaitInv
<1>9. Range(ws) = {ws[i] : i \in 1 .. Len(ws)}
  BY <1>1, LenProperties DEF Range
<1>10. told \in [Requests -> Told] /\ told2 \in [Requests -> Told]
  BY <1>1 DEF Told, Settled
<1>11. \A r \in Requests : told[r] = IF r \in Range(ws) THEN "failed" ELSE status[r]
  OBVIOUS
<1>12. \A r \in Requests : IF r \in provers[l].pending THEN told2[r] \in Settled
                           ELSE told2[r] = told[r]
  BY DEF Settled
<1> HIDE DEF told, told2, lost
<1>13. LanesAre(provers, procs2, told)
  <2>1. ASSUME NEW r \in Requests, told[r] # status[r]
        PROVE  /\ status[r] \in {"new", "waiting"}
               /\ \A h \in DOMAIN procs2 : \A i \in 1 .. Len(procs2[h].waiting) :
                    procs2[h].waiting[i] # r
    <3>1. PICK i \in 1 .. Len(ws) : ws[i] = r
      BY <1>9, <1>11, <2>1
    <3>2. \A j : j \notin 1 .. Len(procs2[g].waiting)
      BY <1>7
    <3>3. ASSUME NEW h \in DOMAIN procs2, NEW j \in 1 .. Len(procs2[h].waiting),
                 procs2[h].waiting[j] = r
          PROVE  FALSE
      <4>1. h # g
        BY <1>7, <3>2
      <4> QED
        BY <1>7, <1>8, <3>1, <3>3, <4>1
    <3> QED
      BY <1>8, <3>1, <3>3
  <2> QED
    BY <1>6, <1>10, <2>1, TheyHear
<1>14. LanesAre(Afterwards(provers, l, Null), procs2, told2)
  <2> HIDE DEF l
  <2> QED
    BY <1>1, <1>10, <1>12, <1>13, HeadSettles
<1> QED
  BY <1>1, <1>3, <1>14, RunKeeps DEF LanesInv, Afterwards

LEMMA GivenUpKeeps ==
  ASSUME LanesInv, NEW g \in DOMAIN processes, Exit(g) \/ SendError(g)
  PROVE  LanesInv'
<1>1. /\ processes[g] \in ProcessState /\ OneThing(processes[g])
      /\ processes \in [DOMAIN processes -> ProcessState]
  BY WorkerIs
<1>2. CASE Exit(g)
  <2> DEFINE p == [processes[g] EXCEPT !.phase = "gone"]
  <2>1. die(g, [processes EXCEPT ![g] = p])
    BY <1>2 DEF Exit
  <2>2. /\ p \in ProcessState /\ p.lane = processes[g].lane /\ p.waiting = processes[g].waiting
        /\ p.inbox = processes[g].inbox /\ p.outbox = processes[g].outbox
    BY <1>1 DEF ProcessState, Phases
  <2> HIDE DEF p
  <2>3. OneThing(p) /\ \A r \in Requests : Owes(p, r) => Owes(processes[g], r)
    BY <1>1, <2>2 DEF OneThing, Owes, Answers
  <2> QED
    BY <2>1, <2>2, <2>3, DieKeeps
<1>3. CASE SendError(g)
  <2> DEFINE p == [processes[g] EXCEPT !.unsent = FALSE]
  <2>1. die(g, [processes EXCEPT ![g] = p])
    BY <1>3 DEF SendError
  <2>2. /\ p \in ProcessState /\ p.lane = processes[g].lane /\ p.waiting = processes[g].waiting
        /\ p.inbox = processes[g].inbox /\ p.outbox = processes[g].outbox
    BY <1>1 DEF ProcessState
  <2> HIDE DEF p
  <2>3. OneThing(p) /\ \A r \in Requests : Owes(p, r) => Owes(processes[g], r)
    BY <1>1, <2>2 DEF OneThing, Owes, Answers
  <2> QED
    BY <2>1, <2>2, <2>3, DieKeeps
<1> QED
  BY <1>2, <1>3

LEMMA LaneStepKeeps ==
  ASSUME LanesInv, LaneStep
  PROVE  LanesInv'
<1> PICK g \in DOMAIN processes :
      \/ Compiled(g) \/ Message(g) \/ Exit(g) \/ SendError(g)
      \/ \E outcome \in Settled, next \in Phases : Answer(g, outcome, next)
      \/ processes[g].phase = "ending" /\ Ends(g)
  BY DEF LaneStep
<1>1. CASE Message(g)
  BY <1>1, ReadyKeeps, AnsweredKeeps
<1>2. CASE \E outcome \in Settled, next \in Phases : Answer(g, outcome, next)
  BY <1>2, AnswerKeeps
<1> QED
  BY <1>1, <1>2, CompiledKeeps, GivenUpKeeps, EndsKeeps

\* The relayer starts again with no worker, and nobody waits.
LEMMA CrashKeeps ==
  ASSUME LanesInv, Crash
  PROVE  LanesInv'
<1> DEFINE idle == [child |-> Null, queue |-> << >>, pending |-> {}]
           Left(g) == [Process(processes[g].lane) EXCEPT !.phase = "gone"]
<1>1. /\ processes \in Seq(ProcessState) /\ DOMAIN processes = 1 .. Len(processes)
      /\ Len(processes) \in Nat /\ status \in [Requests -> Told]
      /\ \A g \in DOMAIN processes : processes[g].lane \in Lane
  BY ProcessesAre DEF LanesInv, LanesAre, LanesShape
<1>2. /\ provers' = [l \in Lane |-> idle]
      /\ processes' = [g \in DOMAIN processes |-> Left(g)]
      /\ status' = [r \in Requests |-> IF status[r] = "new" THEN "new" ELSE "failed"]
  BY DEF Crash
<1>3. \A g \in DOMAIN processes :
        /\ Left(g) \in ProcessState /\ Left(g).lane = processes[g].lane
        /\ Left(g).waiting = << >> /\ Left(g).inbox = << >> /\ Left(g).outbox = << >>
  <2> TAKE g \in DOMAIN processes
  <2>1. << >> \in Seq(Requests) /\ << >> \in Seq(Messages) /\ "gone" \in Phases
    BY DEF Phases
  <2>2. Left(g) = [lane |-> processes[g].lane, phase |-> "gone", ready |-> FALSE,
                   waiting |-> << >>, inbox |-> << >>, outbox |-> << >>, unsent |-> FALSE]
    <3> DEFINE w == Process(processes[g].lane)
    <3>1. w = [lane |-> processes[g].lane, phase |-> "compiling", ready |-> FALSE,
               waiting |-> << >>, inbox |-> << >>, outbox |-> << >>, unsent |-> FALSE]
      BY DEF Process
    <3>2. Left(g) = [w EXCEPT !.phase = "gone"]
      OBVIOUS
    <3> HIDE DEF w, Left
    <3> QED
      BY <3>1, <3>2
  <2> HIDE DEF Left
  <2> QED
    BY <1>1, <2>1, <2>2 DEF ProcessState
<1>4. /\ processes' \in [1 .. Len(processes) -> ProcessState]
      /\ DOMAIN processes' = DOMAIN processes
      /\ \A g \in DOMAIN processes : processes'[g] = Left(g)
  BY <1>1, <1>2, <1>3
<1>5. processes' \in Seq(ProcessState)
  BY <1>1, <1>4, IsSequence
<1>6. /\ idle \in LaneState(processes') /\ idle.child = Null /\ idle.queue = << >>
      /\ idle.pending = {}
  BY DEF LaneState
<1> HIDE DEF Left, idle
<1>7. provers' \in [Lane -> LaneState(processes')] /\ \A l \in Lane : provers'[l] = idle
  BY <1>2, <1>6
<1>8. status' \in [Requests -> Told]
  BY <1>2 DEF Told, Settled
<1>9. LanesShape(provers', processes', status')
  BY <1>5, <1>7, <1>8 DEF LanesShape
<1>10. \A l \in Lane : QueueInv(l, provers'[l], status')
  BY <1>6, <1>7 DEF QueueInv
<1>11. WaitInv(processes', status')
  <2>1. \A g \in DOMAIN processes' : processes'[g].waiting = << >>
    BY <1>3, <1>4
  <2> QED
    BY <2>1 DEF WaitInv
<1>12. \A g \in DOMAIN processes' :
         OneThing(processes'[g]) /\ OwedTo(provers', processes', status', g)
  <2> TAKE g \in DOMAIN processes'
  <2>1. processes'[g].inbox = << >> /\ processes'[g].outbox = << >>
    BY <1>3, <1>4
  <2> QED
    BY <2>1 DEF OneThing, OwedTo, Owes, Answers
<1>13. \A l \in Lane : provers'[l].child = Null
  BY <1>6, <1>7
<1> QED
  BY <1>9, <1>10, <1>11, <1>12, <1>13 DEF LanesInv, LanesAre

LEMMA InitLanes == Init => LanesInv
<1> SUFFICES ASSUME LanesInit PROVE LanesInv
  BY DEF Init
<1> USE DEF LanesInit
<1>1. << >> \in Seq(ProcessState) /\ DOMAIN processes = {}
  OBVIOUS
<1>2. << >> \in Seq(Requests)
  OBVIOUS
<1>3. provers \in [Lane -> LaneState(processes)]
  BY <1>2 DEF LaneState
<1>4. LanesShape(provers, processes, status)
  BY <1>1, <1>3 DEF LanesShape, Told
<1>5. \A l \in Lane : QueueInv(l, provers[l], status) /\ provers[l].child = Null
  BY DEF QueueInv
<1> QED
  BY <1>1, <1>4, <1>5 DEF LanesInv, LanesAre, WaitInv

LEMMA FrameLanes == LanesInv /\ UNCHANGED laneVars => LanesInv'
BY DEF laneVars, LanesInv

LEMMA NextKeepsLanes == LanesInv /\ [Next]_vars => LanesInv'
<1> SUFFICES ASSUME LanesInv, [Next]_vars PROVE LanesInv'
  OBVIOUS
<1>1. CASE LaneWork
  BY <1>1, LaneStepKeeps DEF LaneWork
<1>2. CASE Watcher \/ Withdraw
  BY <1>2, FrameLanes DEF Watcher, Tick, TickRow, Withdraw
<1>3. CASE Fault
  <2>1. ASSUME NEW g \in DOMAIN processes, WorkerDies(g) PROVE LanesInv'
    BY <2>1, EndsKeeps DEF WorkerDies
  <2> QED
    BY <1>3, <2>1, CrashKeeps, FrameLanes
       DEF Fault, ReportLost, PostedByAnyone, Administer
<1>4. ASSUME NEW r \in Requests, OtherRequest(r) PROVE LanesInv'
  BY <1>4, SubmitKeeps DEF OtherRequest
<1>5. ASSUME NEW d \in Deposits, recordBuilt(d) PROVE LanesInv'
  BY <1>5, SubmitKeeps, FrameLanes, DepositsAssumption DEF recordBuilt
<1>6. ASSUME NEW d \in Deposits,
             \/ nextNonceFor(d) \/ Respond(d) \/ markSubmitted(d) \/ markClaimed(d)
             \/ postClaimed(d) \/ Sign(d) \/ Include(d) \/ Claim(d) \/ Settle(d)
      PROVE  LanesInv'
  BY <1>6, FrameLanes DEF nextNonceFor, Respond, markSubmitted, markClaimed, postClaimed, Sign,
                          Include, Claim, submitClaim, claimAlone, Settle
<1>7. CASE UNCHANGED vars
  BY <1>7, FrameLanes DEF vars
<1> QED
  BY <1>1, <1>2, <1>3, <1>4, <1>5, <1>6, <1>7 DEF Next, Handle

\* A worker has one request at a time, whatever dies and is started again,
\* however the requests arrive (prover/index.ts, the lanes and submit).
THEOREM LanesAreSerial == Spec => []OneProofAtATime
<1>1. LanesInv => OneProofAtATime
  BY DEF LanesInv, LanesAre, OneThing, OneProofAtATime
<1> QED
  BY <1>1, InitLanes, NextKeepsLanes, PTL DEF Spec

----------------------------------------------------------------------------
(* What follows of the rows.                                                *)

\* No two deposits that landed through the relayer have the same intent, of
\* which Flare mints one, however the requests for them interleave
\* (db/index.ts nextNonceFor, schema.sql UNIQUE (mina_sender, nonce)).
THEOREM LandedStayDistinct == Spec => []DepositsAreDistinct
<1>1. DepositsInv => DepositsAreDistinct
  BY DEF DepositsInv, RowsDistinct, HasItsRow, DepositsAreDistinct, Intent
<1> QED
  BY <1>1, DepositsInvariance, PTL

\* A row whose claim the relayer paid was minted, over crashes between the claim
\* and the row, whatever the owner of the bridge sets and whoever posts hashes
\* (server.ts /deposits/:id/claim).
THEOREM PaidClaimsAreMinted == Spec => []PaidClaimsWereMinted
<1>1. DepositsInv => PaidClaimsWereMinted
  BY DEF DepositsInv, ToldIsMinted, PaidClaimsWereMinted
<1> QED
  BY <1>1, DepositsInvariance, PTL
=============================================================================
