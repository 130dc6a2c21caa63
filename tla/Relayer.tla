------------------------------- MODULE Relayer -------------------------------
(***************************************************************************)
(* The relayer's Flare -> Mina direction: the publisher (transfers.ts),    *)
(* the release loop (withdrawals.ts) and one mint loop per asset           *)
(* (assets.ts), all callers of one worker and writers of one database,     *)
(* against a chain on which what was sent may be rejected, dropped, or     *)
(* overtaken by another publisher.                                         *)
(*                                                                         *)
(* Every await between a read of the chain and the use of what was read is *)
(* a boundary between steps.  A restart forgets the watermark, the markers *)
(* of heads in flight and every wave; rows and the pool survive it.        *)
(***************************************************************************)
EXTENDS ProverWorker

CONSTANTS
  WAVE

ASSUME RelayerAssumption ==
  /\ WAVE \in Nat \ {0}
  /\ \A d \in Deployments : 1 .. d.policies \subseteq Policies

VARIABLES
  loop,       \* per rail: the loop's place in its tick, and its wave
  pub,        \* the publisher's place in its tick
  inFlight,   \* per rail: the head sent and not expired
  policy,     \* Flare: the signing policy in force
  faults

loopVars == <<loop, pub, inFlight>>
vars == <<ledgerVars, poolVars, workerVars, loopVars, policy, faults>>

Idle == [pc |-> "idle", todo |-> {}, range |-> Range_(0, 0), sent |-> {},
         armed |-> FALSE, candidates |-> {}]
PublisherIdle == [pc |-> "idle", head |-> 0, policy |-> NoPolicy, behind |-> {}]

TypeOK ==
  /\ LedgerTypeOK /\ PoolTypeOK /\ WorkerTypeOK
  /\ \A r \in Consumers :
       /\ loop[r].pc \in {"idle", "refreshed", "wait", "confirm"}
       /\ loop[r].todo \union loop[r].sent \subseteq RowsOf(r)
       /\ loop[r].todo \intersect loop[r].sent = {}
       /\ Cardinality(loop[r].todo \union loop[r].sent) <= WAVE
  /\ pub.pc \in {"idle", "attest", "wait"} /\ pub.behind \subseteq Consumers
  /\ inFlight \in [Consumers -> HeadsSeen \union {Null}]
  /\ policy \in Policies /\ faults \in 0 .. deployment.faults

Init ==
  /\ LedgerInit /\ PoolInit /\ WorkerInit
  /\ loop = [r \in Consumers |-> Idle] /\ pub = PublisherIdle
  /\ inFlight = [r \in Consumers |-> Null]
  /\ policy = 1 /\ faults = 0

----------------------------------------------------------------------------
(* What the loops read of a zkApp, in one query each.                      *)

acceptedHead(r) == zkapp[r].accepted
escrowState == [accepted |-> zkapp[Escrow].accepted, cursor |-> zkapp[Escrow].cursor]
portState(r) == [accepted |-> zkapp[r].accepted, processed |-> zkapp[r].cursor,
                 armed |-> zkapp[r].mintAuthorization]

processedBy(r) == IF r = Escrow THEN escrowState.cursor ELSE portState(r).processed

----------------------------------------------------------------------------
(* A wave: one request after another, each with the range that follows the *)
(* record the circuit will have picked, until one fails.  What was sent is *)
(* then watched until the cursor has passed it.                            *)

Wave(todo, range, armed, candidates) ==
  [pc |-> "wait", todo |-> todo, range |-> range, sent |-> {}, armed |-> armed,
   candidates |-> candidates]

Stopped(wave) ==
  [Idle EXCEPT !.pc = IF wave.sent = {} THEN "idle" ELSE "confirm", !.sent = wave.sent]

RequestOf(r, wave) ==
  IF r = Escrow THEN ReleaseRequest(r, wave.range, wave.sent = {})
  ELSE MintRequest(r, wave.range, wave.sent = {}, wave.candidates)

\* The wave goes on with its next row, or stops.
Continue(r, wave, table) ==
  IF wave.todo = {} \/ (OwnIn(r, wave.range) = {} /\ ~wave.armed)
  THEN /\ loop' = [loop EXCEPT ![r] = Stopped(wave)]
       /\ rows' = table
       /\ answer' = [answer EXCEPT ![r] = "none"] /\ UNCHANGED lane
  ELSE /\ loop' = [loop EXCEPT ![r] = wave]
       /\ rows' = [table EXCEPT ![Min(wave.todo)] = "sending"]
       /\ submit(RequestOf(r, wave))

\* Altered SentOne: the row stays to be sent.
SentAgain(r, wave) == [wave EXCEPT !.sent = @ \union {Min(wave.todo)}]

SentOne(r, wave) ==
  LET own == OwnIn(r, wave.range)
      row == Min(wave.todo)
  IN  [wave EXCEPT !.todo = @ \ {row}, !.sent = @ \union {row},
                   !.range.start = IF own = {} THEN @ ELSE Min(own)]

TakeAnswer(r) ==
  /\ loop[r].pc = "wait" /\ answer[r] # "none"
  /\ IF answer[r] = "sent" THEN Continue(r, SentOne(r, loop[r]), rows)
     ELSE /\ loop' = [loop EXCEPT ![r] = Stopped(@)]
          /\ answer' = [answer EXCEPT ![r] = "none"]
          /\ UNCHANGED <<rows, lane>>
  /\ UNCHANGED <<deployment, flareLen, transfers, scannedTo, poolVars, jobVars, pub, inFlight, policy, faults>>

----------------------------------------------------------------------------
(* The release loop: promote what the escrow has accepted, then read it    *)
(* again, settle what its cursor has passed, and open a wave.              *)

refreshCoverage ==
  /\ loop[Escrow].pc = "idle"
  /\ escrowState.accepted # 0
  /\ rows' = Promoted(Escrow, escrowState.accepted, rows)
  /\ loop' = [loop EXCEPT ![Escrow].pc = "refreshed"]
  /\ UNCHANGED <<deployment, flareLen, transfers, scannedTo, poolVars, workerVars, pub, inFlight, policy, faults>>

release ==
  LET state == escrowState
      pending == Waiting(Escrow, rows)
      cursorIndex == transferIndexOf(state.cursor)
      past == {p \in pending : cursorIndex # Null /\ p <= cursorIndex}
      range == transferRange(state.cursor, state.accepted)
  IN  /\ loop[Escrow].pc = "refreshed"
      /\ IF pending = {} \/ range = Null \/ (range # Null /\ IsEmptyRange(range))
         THEN /\ rows' = Settled(past, rows)
              /\ loop' = [loop EXCEPT ![Escrow] = Idle]
              /\ UNCHANGED <<lane, answer>>
         ELSE Continue(Escrow, Wave(Oldest(WAVE, pending) \ past, range, FALSE, {}),
                       Settled(past, rows))
      /\ UNCHANGED <<deployment, flareLen, transfers, scannedTo, poolVars, jobVars, pub, inFlight, policy, faults>>

(* The mint loop of a port: one read of it, and candidates for the claim   *)
(* it may be left armed with.  The row of that claim is sent again, though *)
(* the cursor has passed it.                                               *)

armedCandidates(r, cursorIndex) ==
  {p \in RowsOf(r) : p = cursorIndex \/ rows[p] # "none"}

mintAsset(r) ==
  LET state == portState(r)
      promoted == Promoted(r, state.accepted, rows)
      queue == Waiting(r, promoted)
      wave == Oldest(WAVE, queue)
      cursorIndex == transferIndexOf(state.processed)
      armed == state.armed # NO_MINT_AUTHORIZED
      past == {p \in wave : /\ cursorIndex # Null /\ p <= cursorIndex
                            /\ ~(armed /\ p = cursorIndex)}
      range == transferRange(state.processed, state.accepted)
  IN  /\ r # Escrow /\ loop[r].pc = "idle"
      /\ IF queue = {} \/ range = Null \/ (range # Null /\ IsEmptyRange(range) /\ ~armed)
         THEN rows' = promoted /\ UNCHANGED <<loop, lane, answer>>
         ELSE Continue(r, Wave(wave \ past, range, armed, armedCandidates(r, cursorIndex)),
                       Settled(past, promoted))
      /\ UNCHANGED <<deployment, flareLen, transfers, scannedTo, poolVars, jobVars, pub, inFlight, policy, faults>>

----------------------------------------------------------------------------
(* Confirming.                                                             *)

\* Altered Passed: having been sent is enough.
SentIsPassed(r, sent) == sent

\* The rows of a wave that the cursor has passed.
Passed(r, sent) ==
  LET index == transferIndexOf(processedBy(r))
  IN  {p \in sent : index # Null /\ p <= index}

\* confirm and confirmMints: one poll.
confirm(r) ==
  LET passed == Passed(r, loop[r].sent)
      left == loop[r].sent \ passed
  IN  /\ loop[r].pc = "confirm"
      /\ rows' = Settled(passed, rows)
      /\ loop' = [loop EXCEPT ![r] = IF left = {} THEN Idle ELSE [@ EXCEPT !.sent = left]]
      /\ UNCHANGED <<deployment, flareLen, transfers, scannedTo, poolVars, workerVars, pub, inFlight, policy, faults>>

\* CONFIRM_MS has passed.
GiveUp(r) ==
  /\ loop[r].pc = "confirm"
  /\ loop' = [loop EXCEPT ![r] = Idle]
  /\ UNCHANGED <<ledgerVars, poolVars, workerVars, pub, inFlight, policy>>

\* The timeouts are meant to be longer than an inclusion takes.  One that
\* passes while what was sent is still in the pool is a fault.
InPool(r) == \E i \in DOMAIN pool : pool[i].rail = r

\* The two halves of a tick of the escrow's loop.
EscrowTick == refreshCoverage \/ release

LoopStep(r) ==
  \/ r = Escrow /\ EscrowTick
  \/ mintAsset(r) \/ TakeAnswer(r) \/ confirm(r)
  \/ ~InPool(r) /\ GiveUp(r) /\ UNCHANGED faults

----------------------------------------------------------------------------
(* The publisher.                                                          *)

publish ==
  LET head == flareLen
      behind == {r \in Consumers : acceptedHead(r) # head /\ inFlight[r] # head}
  IN  /\ pub.pc = "idle"
      /\ head > 0 /\ behind # {} /\ head \in transfers
      /\ pub' = [PublisherIdle EXCEPT !.pc = "attest", !.head = head, !.behind = behind]
      /\ UNCHANGED <<ledgerVars, poolVars, workerVars, loop, inFlight, policy, faults>>

\* consumers lists the escrow first.
NextConsumer(behind) == IF Escrow \in behind THEN Escrow ELSE CHOOSE r \in behind : TRUE

\* The head goes to the next consumer behind it, if one is left.
PublishTo(state, marks) ==
  IF state.behind = {}
  THEN /\ pub' = PublisherIdle /\ inFlight' = marks
       /\ answer' = [answer EXCEPT !["publisher"] = "none"] /\ UNCHANGED lane
  ELSE /\ pub' = [state EXCEPT !.pc = "wait"]
       /\ inFlight' = [marks EXCEPT ![NextConsumer(state.behind)] = state.head]
       /\ submit(PublishRequest(NextConsumer(state.behind), state.head, state.policy))

\* The round has finalised, under the policy of its epoch.
attestationFor ==
  /\ pub.pc = "attest"
  /\ PublishTo([pub EXCEPT !.policy = policy], inFlight)
  /\ UNCHANGED <<ledgerVars, poolVars, jobVars, loop, policy, faults>>

PublicationAnswered ==
  /\ pub.pc = "wait" /\ answer["publisher"] # "none"
  /\ LET r == NextConsumer(pub.behind)
     IN  PublishTo([pub EXCEPT !.behind = @ \ {r}],
                   IF answer["publisher"] = "failed"
                   THEN [inFlight EXCEPT ![r] = Null] ELSE inFlight)
  /\ UNCHANGED <<ledgerVars, poolVars, jobVars, loop, policy, faults>>

\* IN_FLIGHT_TTL_MS has passed.
Expire(r) ==
  /\ inFlight[r] # Null
  /\ inFlight' = [inFlight EXCEPT ![r] = Null]
  /\ UNCHANGED <<ledgerVars, poolVars, workerVars, loop, pub, policy>>

ExpireInTime(r) == ~InPool(r) /\ Expire(r) /\ UNCHANGED faults

PublisherStep == publish \/ attestationFor \/ PublicationAnswered

----------------------------------------------------------------------------
(* What goes wrong, a bounded number of times.                             *)

Crash ==
  /\ WorkerRestarts
  /\ loop' = [r \in Consumers |-> Idle] /\ pub' = PublisherIdle
  /\ inFlight' = [r \in Consumers |-> Null]
  /\ scannedTo' = Null
  /\ UNCHANGED <<deployment, flareLen, transfers, rows, poolVars, policy>>

\* The request for an attestation fails, or its round is not final in time.
NotAttested ==
  /\ pub.pc = "attest" /\ pub' = PublisherIdle
  /\ UNCHANGED <<ledgerVars, poolVars, workerVars, loop, inFlight, policy>>

Fault ==
  /\ faults < deployment.faults /\ faults' = faults + 1
  /\ \/ Crash \/ NotAttested
     \/ Drop /\ UNCHANGED <<ledgerVars, workerVars, loopVars, policy>>
     \/ (ReadFails \/ (pool # << >> /\ settle)) /\ UNCHANGED <<ledgerVars, loopVars, policy>>
     \/ \E r \in Consumers :
          \/ StrayPublication(r) /\ UNCHANGED <<ledgerVars, workerVars, loopVars, policy>>
          \/ InPool(r) /\ (GiveUp(r) \/ Expire(r))

NewPolicy ==
  /\ policy < deployment.policies /\ policy' = policy + 1
  /\ UNCHANGED <<ledgerVars, poolVars, workerVars, loopVars, faults>>

----------------------------------------------------------------------------

Flare == (RecordTransfer /\ UNCHANGED <<poolVars, workerVars, loopVars, policy, faults>>) \/ NewPolicy
Watch == watch /\ UNCHANGED <<poolVars, workerVars, loopVars, policy, faults>>
Work == WorkerStep /\ UNCHANGED <<ledgerVars, loopVars, policy, faults>>
Block == Included /\ UNCHANGED <<ledgerVars, loopVars, policy, faults>>

Next ==
  \/ Flare \/ Watch \/ Work \/ Block \/ Fault \/ PublisherStep
  \/ \E r \in Consumers : LoopStep(r) \/ ExpireInTime(r)

Spec == Init /\ [][Next]_vars

\* The loops run on timers, the worker as long as it has requests, and blocks
\* are produced.  Flare owes no transfer, and nothing has to go wrong.
FairSpec ==
  /\ Spec
  /\ WF_vars(Watch) /\ WF_vars(Work) /\ WF_vars(Block) /\ WF_vars(PublisherStep)
  /\ WF_vars(\E r \in Consumers : ExpireInTime(r))
  /\ \A r \in Rails : WF_vars(r \in Consumers /\ LoopStep(r))

----------------------------------------------------------------------------
(* Properties.                                                             *)

Ports == Consumers \ {Escrow}
Seen(r) == {p \in RowsOf(r) : rows[p] # "none"}

\* A row is settled only for a record the zkApp's cursor has passed, whatever
\* was sent, dropped or restarted (withdrawals.ts confirm, assets.ts
\* confirmMints: a hash proves nothing).
SettledRowsArePassed ==
  \A p \in Positions : rows[p] = "settled" => p <= zkapp[Chain[p].token].cursor

\* A withdrawal marked released was paid, for the escrow moves its cursor and
\* pays in one transaction (db/index.ts markWithdrawalReleased).
ReleasedWerePaid == \A p \in RowsOf(Escrow) : rows[p] = "settled" => p \in delivered

\* Again and again every withdrawal the watcher has seen is paid and its row
\* settled, over dropped transactions, lost reads, restarts and publications of
\* others (withdrawals.ts: what the cursor never reaches is picked up again).
EveryWithdrawalReleased ==
  []<>(\A p \in Seen(Escrow) : rows[p] = "settled" /\ p \in delivered)

\* Again and again every lock the watcher has seen is claimed: no failure keeps
\* a port's cursor where it is (assets.ts mintAsset).
EveryLockClaimed == []<>(\A r \in Ports : \A p \in Seen(r) : p <= zkapp[r].cursor)

\* Again and again every lock is minted to its recipient (assets.ts mintAsset:
\* an armed port is worth a call even with nothing new to mint).
EveryLockDelivered == []<>(\A r \in Ports : Seen(r) \subseteq delivered)
=============================================================================
