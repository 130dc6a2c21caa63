-------------------------------- MODULE Lanes --------------------------------
(***************************************************************************)
(* The proving lanes (prover/index.ts): one forked worker per lane, one    *)
(* request at a time, a queue of promises in front.  The parent is single- *)
(* threaded, so what a handler settles and what that sets off is one step; *)
(* messages and the end of a process reach it later, as events of their    *)
(* own.                                                                    *)
(***************************************************************************)
EXTENDS Integers, Sequences, SequencesExt

CONSTANTS
  Lane,       \* "user" and "background"
  Requests,   \* everything that is ever submitted
  LaneOf,
  MaxForks,   \* bound on the workers that are started
  Null

ASSUME LanesAssumption ==
  LaneOf \in [Requests -> Lane] /\ MaxForks \in Nat /\ Null \notin Nat

VARIABLES
  provers,    \* per lane: child, queue and pending
  processes,  \* the workers, in the order of their forks
  status      \* of the promise that submit returned

laneVars == <<provers, processes, status>>

\* A worker and what belongs to its fork: the promise that it is ready, and
\* who waits for it.  A failed build may leave it stuck; one that finds itself
\* stuck is ending.  unsent: a message could not be sent to it.
Process(lane) ==
  [lane |-> lane, phase |-> "compiling", ready |-> FALSE, waiting |-> << >>,
   inbox |-> << >>, outbox |-> << >>, unsent |-> FALSE]

Phases == {"compiling", "up", "stuck", "ending", "ended", "gone"}
Settled == {"built", "failed"}
Messages == [type : Settled, request : Requests] \union {[type |-> "ready"]}

LanesTypeOK ==
  /\ status \in [Requests -> {"new", "waiting", "queued"} \union Settled]
  /\ \A l \in Lane :
       /\ provers[l].child \in DOMAIN processes \union {Null}
       /\ provers[l].queue \in Seq(Requests) /\ provers[l].pending \subseteq Requests
  /\ \A g \in DOMAIN processes :
       /\ processes[g].lane \in Lane /\ processes[g].phase \in Phases
       /\ processes[g].inbox \in Seq(Requests) /\ processes[g].outbox \in Seq(Messages)

LanesInit ==
  /\ provers = [l \in Lane |-> [child |-> Null, queue |-> << >>, pending |-> {}]]
  /\ processes = << >>
  /\ status = [r \in Requests |-> "new"]

----------------------------------------------------------------------------
(* The queue.  Its head is what runs, and it is pending until it settles.  *)

Alive(p) == p.phase \in {"compiling", "up", "stuck", "ending"}

\* Altered Run: whatever is queued is sent at once.
RunAll(l, prover, procs) ==
  /\ provers' = [provers EXCEPT ![l] =
       [prover EXCEPT !.pending = Range(prover.queue)]]
  /\ processes' = [g \in DOMAIN procs |->
       IF g = prover.child
       THEN [procs[g] EXCEPT !.inbox =
               @ \o SelectSeq(prover.queue, LAMBDA r : r \notin prover.pending)]
       ELSE procs[g]]

\* The head runs if nothing does: it is pending, and sent to the child there
\* is now, which may have ended, or to none.
Run(l, prover, procs) ==
  IF prover.queue = << >> \/ prover.pending # {}
  THEN /\ provers' = [provers EXCEPT ![l] = prover]
       /\ processes' = procs
  ELSE /\ provers' = [provers EXCEPT ![l] =
            [prover EXCEPT !.pending = {Head(prover.queue)}]]
       /\ processes' = [g \in DOMAIN procs |->
            IF g # prover.child THEN procs[g]
            ELSE IF Alive(procs[g])
                 THEN [procs[g] EXCEPT !.inbox = Append(@, Head(prover.queue))]
                 ELSE [procs[g] EXCEPT !.unsent = TRUE]]

\* rs join the queue; what was pending, its head, is settled and leaves it.
Enqueued(l, rs) == [provers[l] EXCEPT !.queue = @ \o rs]
Cleared(prover) ==
  [prover EXCEPT !.queue = IF prover.pending = {} THEN @ ELSE Tail(@), !.pending = {}]

\* submit: start the lane, wait until it is ready, and queue.
submit(r) ==
  LET l == LaneOf[r]
      child == provers[l].child
  IN  /\ status[r] = "new"
      /\ IF child = Null
         THEN /\ Len(processes) < MaxForks
              /\ processes' = Append(processes, [Process(l) EXCEPT !.waiting = <<r>>])
              /\ provers' = [provers EXCEPT ![l].child = Len(processes) + 1]
              /\ status' = [status EXCEPT ![r] = "waiting"]
         ELSE IF ~processes[child].ready
         THEN /\ processes' = [processes EXCEPT ![child].waiting = Append(@, r)]
              /\ status' = [status EXCEPT ![r] = "waiting"]
              /\ UNCHANGED provers
         ELSE /\ Run(l, Enqueued(l, <<r>>), processes)
              /\ status' = [status EXCEPT ![r] = "queued"]

----------------------------------------------------------------------------
(* A worker.                                                               *)

\* It has compiled everything, and says so.
Compiled(g) ==
  /\ processes[g].phase = "compiling"
  /\ processes' = [processes EXCEPT ![g].phase = "up",
                                    ![g].outbox = Append(@, [type |-> "ready"])]
  /\ UNCHANGED <<provers, status>>

\* It answers what it was sent first.  postFailure: one that is stuck fails
\* everything, and ends soon after.
Answer(g, outcome, next) ==
  LET r == Head(processes[g].inbox)
  IN  /\ processes[g].inbox # << >>
      /\ \/ processes[g].phase = "up" /\ outcome = "built" /\ next = "up"
         \/ processes[g].phase = "up" /\ outcome = "failed" /\ next \in {"up", "stuck"}
         \/ processes[g].phase \in {"stuck", "ending"} /\ outcome = "failed" /\ next = "ending"
      /\ processes' = [processes EXCEPT ![g].inbox = Tail(@), ![g].phase = next,
                                        ![g].outbox = Append(@, [type |-> outcome, request |-> r])]
      /\ UNCHANGED <<provers, status>>

\* The process ends, and what it had not answered is lost.
Ends(g) ==
  /\ Alive(processes[g])
  /\ processes' = [processes EXCEPT ![g].phase = "ended", ![g].inbox = << >>]
  /\ UNCHANGED <<provers, status>>

----------------------------------------------------------------------------
(* What the parent hears.                                                  *)

\* A message: that the worker is ready, which lets those who waited queue in
\* their order, or an answer, which settles what is still pending.
Message(g) ==
  LET p == processes[g]
      l == p.lane
      message == Head(p.outbox)
      rest == [processes EXCEPT ![g].outbox = Tail(@)]
  IN  /\ p.outbox # << >>
      /\ IF message.type = "ready"
         THEN /\ Run(l, Enqueued(l, p.waiting),
                     [rest EXCEPT ![g].ready = TRUE, ![g].waiting = << >>])
              /\ status' = [r \in Requests |->
                   IF r \in Range(p.waiting) THEN "queued" ELSE status[r]]
         ELSE IF message.request \in provers[l].pending
         THEN /\ Run(l, Cleared(provers[l]), rest)
              /\ status' = [status EXCEPT ![message.request] = message.type]
         ELSE /\ processes' = rest
              /\ UNCHANGED <<provers, status>>

\* Altered die: what was pending is left as it is.
DieSilently(g, procs) ==
  LET l == procs[g].lane
  IN  /\ provers' = [provers EXCEPT ![l].child = Null]
      /\ processes' = [procs EXCEPT ![g].waiting = << >>]
      /\ status' = [r \in Requests |->
           IF r \in Range(procs[g].waiting) THEN "failed" ELSE status[r]]

\* die: what is pending is rejected, and so is who waited for this worker.
\* Whoever is next in the queue runs at once, with no child to send to.
die(g, procs) ==
  LET l == procs[g].lane
      lost == provers[l].pending \union Range(procs[g].waiting)
  IN  /\ Run(l, [Cleared(provers[l]) EXCEPT !.child = Null],
             [procs EXCEPT ![g].waiting = << >>])
      /\ status' = [r \in Requests |-> IF r \in lost THEN "failed" ELSE status[r]]

\* The 'exit' event.
Exit(g) ==
  /\ processes[g].phase = "ended"
  /\ die(g, [processes EXCEPT ![g].phase = "gone"])

\* The 'error' event of a message that could not be sent.
SendError(g) ==
  /\ processes[g].unsent
  /\ die(g, [processes EXCEPT ![g].unsent = FALSE])

\* What happens by itself, once there is something to do.
LaneStep ==
  \E g \in DOMAIN processes :
    \/ Compiled(g) \/ Message(g) \/ Exit(g) \/ SendError(g)
    \/ \E outcome \in Settled, next \in Phases : Answer(g, outcome, next)
    \/ processes[g].phase = "ending" /\ Ends(g)

----------------------------------------------------------------------------
(* Properties.                                                             *)

\* A worker has one request at a time, whatever dies and is started again:
\* o1js proves in one global context, which cannot be entered twice
\* (prover/index.ts, the lanes and submit).
OneProofAtATime == \A g \in DOMAIN processes : Len(processes[g].inbox) <= 1

Sent(r) == \E g \in DOMAIN processes : r \in Range(processes[g].inbox)

\* What reached a worker is answered, with its result, its failure or the death
\* of the worker (prover/index.ts die: rejecting what is in flight).
WhatWasSentIsAnswered == \A r \in Requests : Sent(r) ~> status[r] \in Settled

\* Whoever submits a request hears of it (prover/index.ts die: rejecting beats
\* leaving the callers hanging, and the next request restarts the worker).  TLC
\* refutes it in MCDeposits (README, 4): die runs what is queued with no worker.
EveryRequestAnswered ==
  \A r \in Requests : status[r] = "queued" ~> status[r] \in Settled
=============================================================================
