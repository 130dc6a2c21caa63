----------------------------- MODULE MCDeposits -----------------------------
(* Small instances of Deposits, in parts that begin where the states say.     *)
(* "build": two builds of one depositor for one amount, asked for at once,    *)
(* and a burn behind or before them, on a lane whose worker is not there yet; *)
(* nobody signs.  "twins": the same two from the lane that has built the      *)
(* burn, up to the mint, with nothing more that goes wrong.  "claim": both    *)
(* built, through every setting of the bridge.  "queue": one of them and a    *)
(* larger deposit of another depositor, of which a query returns one.         *)
EXTENDS Deposits

CONSTANTS d1, d2, d3, burn

VARIABLE part

MCDeposit ==
  [d \in Deposits |-> IF d = d3 THEN [sender |-> "k2", recipient |-> "a1", amount |-> 2]
                      ELSE [sender |-> "k1", recipient |-> "a1", amount |-> 1]]
MCLaneOf == [r \in Requests |-> "user"]

MCOpen == [paused |-> FALSE, escrowAttestor |-> "key",
           maxAttestedDeposit |-> 2, attestedMintCap |-> 3]
MCBridges ==
  {MCOpen, [MCOpen EXCEPT !.paused = TRUE], [MCOpen EXCEPT !.escrowAttestor = "another"],
   [MCOpen EXCEPT !.maxAttestedDeposit = 1, !.attestedMintCap = 1]}

----------------------------------------------------------------------------
Cold == LanesInit /\ bridge = MCOpen /\ submitter

\* The lane after it has built some requests: its worker is up and rests.
Warm(built) ==
  /\ processes = <<[Process("user") EXCEPT !.phase = "up", !.ready = TRUE]>>
  /\ provers = [l \in Lane |-> [child |-> 1, queue |-> << >>, pending |-> {}]]
  /\ status = [r \in Requests |-> IF r \in built THEN "built" ELSE "new"]

\* The rows of some deposits, built one after the other, with their pages before
\* the wallet; nothing of the others.
RowsOfBuilt(order) ==
  LET at == [d \in Deposits |-> IF \E i \in DOMAIN order : order[i] = d
                                THEN CHOOSE i \in DOMAIN order : order[i] = d ELSE 0]
  IN  /\ page = [d \in Deposits |-> IF at[d] = 0 THEN "new" ELSE "signing"]
      /\ rows = [d \in Deposits |-> IF at[d] = 0 THEN "none" ELSE "built"]
      /\ id = at
      /\ nonce = [d \in Deposits |->
           Cardinality({e \in Deposits : /\ Deposit[e].sender = Deposit[d].sender
                                         /\ at[e] \in 1 .. at[d] - 1})]

Part ==
  \/ part = "build" /\ Cold /\ RowsOfBuilt(<< >>) /\ faults = 0
  \* The owner of the bridge has just set it.
  \/ /\ part = "twins" /\ Warm({burn}) /\ bridge = MCOpen /\ submitter
     /\ RowsOfBuilt(<< >>) /\ faults = 1
  \/ part = "claim" /\ Warm({d1, d2, burn}) /\ RowsOfBuilt(<<d1, d2>>) /\ faults = 0
  \/ /\ part = "queue" /\ Warm({d1, d3, burn}) /\ bridge = MCOpen /\ submitter
     /\ \E order \in {<<d1, d3>>, <<d3, d1>>} : RowsOfBuilt(order)
     /\ faults = 0

MCInit ==
  /\ submitter \in Submitters /\ bridge \in Bridges /\ Part
  /\ flareTx = [d \in Deposits |-> "none"] /\ onMina = [d \in Deposits |-> "none"]
  /\ watch = Resting /\ minted = {} /\ onFlare = {} /\ withdrawn = {}

AskedFor == IF part = "queue" THEN {d1, d3} ELSE {d1, d2}

\* The bridge changes in "claim", and hashes are posted from there on.
MCFault ==
  /\ Fault
  /\ part # "claim" => bridge' = bridge /\ submitter'
  /\ part = "build" => rows' = rows

MCNext ==
  /\ \/ LaneWork \/ Watcher \/ MCFault \/ (part = "queue" /\ Withdraw)
     \/ \E r \in Requests : OtherRequest(r)
     \/ \E d \in AskedFor : nextNonceFor(d) \/ (part # "build" /\ Sign(d))
     \/ \E d \in Deposits : Handle(d) \/ Include(d) \/ Claim(d) \/ Settle(d)
  /\ UNCHANGED part

MCSpec == MCInit /\ [][MCNext]_<<vars, part>> /\ Fairness
=============================================================================
