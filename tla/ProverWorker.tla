---------------------------- MODULE ProverWorker ----------------------------
(***************************************************************************)
(* The background lane's worker (prover/worker.ts): what it builds, signs  *)
(* and sends for publications, releases and mints.  It predicts the        *)
(* cursors and the fee payer's nonce that the transactions it has sent     *)
(* will leave, so that a wave of them can be in the pool at once.          *)
(*                                                                         *)
(* A request is one job; its reads of the chain, and each build with the   *)
(* send that follows it, are steps, and the chain may move between them.   *)
(* A build reads the chain again (Mina.transaction refetches), which is    *)
(* what predictState compares with the first reading.                      *)
(***************************************************************************)
EXTENDS Pool

CONSTANTS MaxPool     \* bound on the transactions in the pool

ASSUME ProverWorkerAssumption == MaxPool \in Nat

VARIABLES
  lane,              \* requests waiting for the worker, in order
  job,               \* the request it works on
  answer,            \* what the lane has answered, per caller
  predictedCursor,   \* per rail: predictedCursor and predictedLockCursor
  fundedThisWave,
  predictedNonce, issuedNonce

nonceVars == <<predictedNonce, issuedNonce>>
jobVars == <<job, predictedCursor, fundedThisWave, nonceVars>>
workerVars == <<lane, answer, jobVars>>

Callers == Consumers \union {"publisher"}

\* Nonces below the chain's are all the same.
Nonces == Nat \union {-1}

WorkerTypeOK ==
  /\ answer \in [Callers -> {"none", "sent", "failed"}]
  /\ predictedCursor \in [Consumers -> Positions \union {Null}]
  /\ fundedThisWave \in SUBSET Recipients
  /\ predictedNonce \in Nonces \union {Null} /\ issuedNonce \in Nonces \union {Null}

WorkerInit ==
  /\ lane = << >> /\ job = Null
  /\ answer = [c \in Callers |-> "none"]
  /\ predictedCursor = [r \in Consumers |-> Null]
  /\ fundedThisWave = {}
  /\ predictedNonce = Null /\ issuedNonce = Null

\* The three requests.  handleMint finds the mint it has to finish among the
\* candidates.
PublishRequest(r, head, policy) ==
  [kind |-> "publish", caller |-> "publisher", rail |-> r, head |-> head, policy |-> policy]
ReleaseRequest(r, range, restart) ==
  [kind |-> "release", caller |-> r, rail |-> r, range |-> range, restart |-> restart]
MintRequest(r, range, restart, candidates) ==
  [kind |-> "mint", caller |-> r, rail |-> r, range |-> range, restart |-> restart,
   candidates |-> candidates]

submit(request) ==
  /\ lane' = Append(lane, request)
  /\ answer' = [answer EXCEPT ![request.caller] = "none"]

----------------------------------------------------------------------------
(* Failing, and sending.                                                   *)

\* Altered Fail: an issued nonce is never forgotten.
FailKeepsIssued(issued) ==
  /\ answer' = [answer EXCEPT ![job.request.caller] = "failed"]
  /\ job' = Null
  /\ predictedCursor' = [r \in Consumers |-> Null]
  /\ predictedNonce' = Null /\ issuedNonce' = IF issued = Null THEN issuedNonce ELSE issued
  /\ UNCHANGED <<lane, fundedThisWave, poolVars>>

\* forgetPredictions and postFailure.  The nonce that was claimed stays
\* issued, unless the chain has said that the counting is wrong.
Fail(issued) ==
  /\ answer' = [answer EXCEPT ![job.request.caller] = "failed"]
  /\ job' = Null
  /\ predictedCursor' = [r \in Consumers |-> Null]
  /\ predictedNonce' = Null /\ issuedNonce' = issued
  /\ UNCHANGED <<lane, fundedThisWave, poolVars>>

\* claimNonce: the chain's nonce as it was read, but never one issued before.
claimNonce ==
  IF predictedNonce # Null THEN predictedNonce
  ELSE IF issuedNonce = Null THEN job.nonce
  ELSE Max({job.nonce, issuedNonce + 1})

\* What the pool says of a nonce: one that is next in order is taken, one that
\* is taken would have to pay more, and any other is Invalid_nonce.
Broadcast(n) == CASE n = Len(pool) -> "sent"
                  [] n \in 0 .. Len(pool) - 1 -> "taken"
                  [] OTHER -> "Invalid_nonce"

\* The transaction is built if buildable, and then sent.  Its nonce is claimed
\* in either case.
Send(buildable, tx) ==
  /\ Len(pool) < MaxPool
  /\ buildable /\ Broadcast(claimNonce) = "sent"
  /\ pool' = Append(pool, tx)
  /\ predictedNonce' = claimNonce + 1 /\ issuedNonce' = claimNonce
  /\ UNCHANGED <<zkapp, accounts, delivered>>

SendFails(buildable) ==
  /\ Len(pool) < MaxPool
  /\ ~(buildable /\ Broadcast(claimNonce) = "sent")
  /\ Fail(IF buildable /\ Broadcast(claimNonce) = "Invalid_nonce" THEN Null ELSE claimNonce)

Answered ==
  /\ answer' = [answer EXCEPT ![job.request.caller] = "sent"]
  /\ job' = Null

\* Altered predictState: whatever the slot holds is replaced.
PredictAnything(r, slot, expected, value) == TRUE

\* The slot must hold what was read, or already what is predicted.
predictState(r, slot, expected, value) == zkapp[r][slot] \in {expected, value}

----------------------------------------------------------------------------
(* A job begins: what it reads of the chain.                               *)

Restarts(request) == request.kind # "publish" /\ request.restart

StartJob ==
  /\ job = Null /\ lane # << >>
  /\ lane' = Tail(lane)
  /\ LET request == Head(lane)
     IN  /\ job' = [request |-> request, stage |-> "read",
                    read |-> zkapp[request.rail], funds |-> accounts[request.rail],
                    nonce |-> 0]
         /\ predictedCursor' = IF Restarts(request)
                               THEN [predictedCursor EXCEPT ![request.rail] = Null]
                               ELSE predictedCursor
         /\ fundedThisWave' = IF Restarts(request) /\ request.kind = "release"
                              THEN {} ELSE fundedThisWave
  /\ UNCHANGED <<answer, nonceVars, poolVars>>

\* A read that does not come back fails the job before a nonce is claimed.
ReadFails ==
  /\ job # Null /\ job.stage # "settling"
  /\ Fail(issuedNonce)

At(kind, stage) == job # Null /\ job.request.kind = kind /\ job.stage = stage

CursorFor(r) == IF predictedCursor[r] = Null THEN job.read.cursor ELSE predictedCursor[r]

\* proveSegment: the records link up only from the head they follow.  firstOf
\* is what the circuit will pick.
Claimed == Min(OwnIn(job.request.rail, job.request.range))
HasClaim == OwnIn(job.request.rail, job.request.range) # {}
SegmentFits(from) ==
  /\ job.request.range.start = from
  /\ job.request.range.to = zkapp[job.request.rail].accepted

----------------------------------------------------------------------------
(* handlePublish and handlePublishLock: rotate the root if it is another,  *)
(* then publish against the root the rotation leaves.                      *)

Rotates == job.read.signingPolicyRoot # job.request.policy

RotateRoot ==
  /\ At("publish", "read") /\ Rotates
  /\ LET r == job.request.rail
         tx == setSigningPolicyRoot(r, job.read.signingPolicyRoot, job.request.policy)
         buildable == zkapp[r].signingPolicyRoot = job.read.signingPolicyRoot
     IN  \/ /\ Send(buildable, tx)
            /\ job' = [job EXCEPT !.stage = "rotated"]
            /\ UNCHANGED <<lane, answer, predictedCursor, fundedThisWave>>
         \/ SendFails(buildable)

Publication ==
  /\ At("publish", "rotated") \/ (At("publish", "read") /\ ~Rotates)
  /\ LET r == job.request.rail
         tx == PublishHead(r, job.request.policy, zkapp[r].accepted, job.request.head)
         buildable == predictState(r, "signingPolicyRoot", job.read.signingPolicyRoot,
                                   job.request.policy)
     IN  \/ /\ Send(buildable, tx)
            /\ Answered
            /\ UNCHANGED <<lane, predictedCursor, fundedThisWave>>
         \/ SendFails(buildable)

handlePublish == Publication /\ job.request.rail = Escrow
handlePublishLock == Publication /\ job.request.rail # Escrow

----------------------------------------------------------------------------
(* handleRelease: the first record of the range that is the escrow's.      *)

handleRelease ==
  /\ At("release", "read")
  /\ LET r == job.request.rail
         from == CursorFor(r)
         to == Chain[Claimed].recipient
         funds == to \notin fundedThisWave /\ to \notin job.funds
         buildable == /\ predictState(r, "cursor", job.read.cursor, from)
                      /\ SegmentFits(from)
     IN  IF ~HasClaim THEN Fail(issuedNonce)
         ELSE \/ /\ Send(buildable,
                         releaseWithdrawal(r, from, zkapp[r].accepted, Claimed, funds))
                 /\ predictedCursor' = [predictedCursor EXCEPT ![r] = Claimed]
                 /\ fundedThisWave' = IF funds THEN fundedThisWave \union {to}
                                      ELSE fundedThisWave
                 /\ Answered /\ UNCHANGED lane
              \/ SendFails(buildable)

----------------------------------------------------------------------------
(* handleMint: finish what the port is armed for, or arm the first lock of *)
(* the range, and mint it in a second transaction.                         *)

Armed == job.read.mintAuthorization
AlreadyArmed == HasClaim /\ Armed = mintCommitment(Claimed)
Stale == ~AlreadyArmed /\ Armed # NO_MINT_AUTHORIZED

\* The port is armed for another claim: that mint is sent, and nothing else,
\* and answered when it has left the pool, whatever became of it (settle).
RecoverMint ==
  /\ At("mint", "read") /\ Stale
  /\ LET r == job.request.rail
         match == Armed \in {mintCommitment(p) : p \in job.request.candidates}
         funds == Armed.recipient \notin accounts[r]
         buildable == zkapp[r].mintAuthorization = Armed
     IN  IF ~match THEN Fail(issuedNonce)
         ELSE \/ /\ Send(buildable, MintToken(r, Armed, funds))
                 /\ job' = [job EXCEPT !.stage = "settling"]
                 /\ UNCHANGED <<lane, answer, predictedCursor, fundedThisWave>>
              \/ SendFails(buildable)

settle ==
  /\ At("mint", "settling")
  /\ Answered
  /\ UNCHANGED <<lane, predictedCursor, fundedThisWave, nonceVars, poolVars>>

NoLockToMint == At("mint", "read") /\ ~Stale /\ ~HasClaim /\ Fail(issuedNonce)

ArmMint ==
  /\ At("mint", "read") /\ ~Stale /\ HasClaim /\ ~AlreadyArmed
  /\ LET r == job.request.rail
         from == CursorFor(r)
         buildable == /\ predictState(r, "cursor", job.read.cursor, from)
                      /\ SegmentFits(from)
                      /\ zkapp[r].mintAuthorization = NO_MINT_AUTHORIZED
     IN  \/ /\ Send(buildable, authorizeMint(r, from, zkapp[r].accepted, Claimed))
            /\ predictedCursor' = [predictedCursor EXCEPT ![r] = Claimed]
            /\ job' = [job EXCEPT !.stage = "armed", !.funds = accounts[r]]
            /\ UNCHANGED <<lane, answer, fundedThisWave>>
         \/ SendFails(buildable)

handleMint ==
  /\ \/ At("mint", "armed")
     \/ At("mint", "read") /\ ~Stale /\ HasClaim /\ AlreadyArmed
  /\ LET r == job.request.rail
         claim == mintCommitment(Claimed)
         funds == claim.recipient \notin job.funds
         buildable ==
           IF AlreadyArmed THEN zkapp[r].mintAuthorization = claim
           ELSE /\ predictState(r, "cursor", job.read.cursor, Claimed)
                /\ predictState(r, "mintAuthorization", NO_MINT_AUTHORIZED, claim)
     IN  \/ /\ Send(buildable, MintToken(r, claim, funds))
            /\ Answered
            /\ UNCHANGED <<lane, predictedCursor, fundedThisWave>>
         \/ SendFails(buildable)

WorkerStep ==
  \/ StartJob \/ RotateRoot \/ handlePublish \/ handlePublishLock \/ handleRelease
  \/ RecoverMint \/ (pool = << >> /\ settle) \/ NoLockToMint \/ ArmMint \/ handleMint

----------------------------------------------------------------------------
(* The chain's nonce moves on, so every nonce is one nearer to it.         *)

Nearer(n) == IF n = Null THEN Null ELSE Max({-1, n - 1})

Included ==
  /\ Apply
  /\ predictedNonce' = Nearer(predictedNonce)
  /\ issuedNonce' = Nearer(issuedNonce)
  /\ job' = IF job = Null THEN Null ELSE [job EXCEPT !.nonce = Nearer(@)]
  /\ UNCHANGED <<lane, answer, predictedCursor, fundedThisWave>>

\* The worker's process starts anew.
WorkerRestarts ==
  /\ lane' = << >> /\ job' = Null
  /\ answer' = [c \in Callers |-> "none"]
  /\ predictedCursor' = [r \in Consumers |-> Null]
  /\ fundedThisWave' = {}
  /\ predictedNonce' = Null /\ issuedNonce' = Null
=============================================================================
