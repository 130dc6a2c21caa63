----------------------------- MODULE ReleaseDesk -----------------------------
(***************************************************************************)
(* The relayer's part of the way back: a holder burns the wrapped token on *)
(* Mina, the relayer confirms it and signs, and the vault on Flare pays.   *)
(* The HTTP server builds burns and keeps a row for each (server.ts,       *)
(* releases of db/index.ts), the poller of releases.ts attests them.       *)
(*                                                                         *)
(* An HTTP request and a tick of the poller are separate steps wherever    *)
(* the code awaits and something it has read may change meanwhile.  The    *)
(* rows are of one token; the code treats tokens apart in every query.     *)
(***************************************************************************)
EXTENDS AssetVault, AssetPort, FiniteSetsExt

CONSTANTS
  ReadsMayFail,   \* whether an account may be read as absent when it is not
  NoCheck,        \* the poller between two rows
  AttestorKey     \* ATTESTOR_PRIVATE_KEY, by its address

ASSUME ReleaseDeskAssumption == AttestorKey \in Attestors /\ ReadsMayFail \in BOOLEAN

VARIABLES
  releases,   \* the rows, in the order of creation
  builds,     \* requests of /releases/build that have read and not yet written
  check       \* the row the poller is at, and the balance it has read

deskVars == <<releases, builds, check>>

Build == [minaSender : MinaKeys, recipient : FlareAccounts \union {ZeroAddress},
          amount : Nat, nonce : Nat, balanceBefore : Nat]
ReleaseRow ==
  [minaSender : MinaKeys, recipient : FlareAccounts \union {ZeroAddress},
   amount : Nat, nonce : Nat, balanceBefore : Nat,
   status : {"built", "submitted", "attested", "released"}]
Check == [row : Nat, stage : {"read", "signed"}, balance : Nat]

IntentOf(row) ==
  [minaSender |-> row.minaSender, token |-> Asset, recipient |-> row.recipient,
   amount |-> row.amount, nonce |-> row.nonce]

DeskTypeOK ==
  /\ releases \in Seq(ReleaseRow) /\ builds \in SUBSET Build
  /\ check \in Check \union {NoCheck}

DeskInit == releases = << >> /\ builds = {} /\ check = NoCheck

RowsOf(sender) == {i \in DOMAIN releases : releases[i].minaSender = sender}

nextReleaseNonceFor(sender) ==
  Max({0} \union {releases[i].nonce + 1 : i \in RowsOf(sender)})

\* /releases/build up to its insert.  Equal requests are one here: the second
\* insert would have the nonce of the first and fail.
ReadForBuild(sender, recipient, amount) ==
  /\ 0 < amount /\ amount <= balance[sender]
  /\ builds' = builds \union
       {[minaSender |-> sender, recipient |-> recipient, amount |-> amount,
         nonce |-> nextReleaseNonceFor(sender), balanceBefore |-> balance[sender]]}
  /\ UNCHANGED <<releases, check>>

NewRow(build) ==
  [minaSender |-> build.minaSender, recipient |-> build.recipient,
   amount |-> build.amount, nonce |-> build.nonce,
   balanceBefore |-> build.balanceBefore, status |-> "built"]

\* Altered recordRelease: the table has no UNIQUE (mina_sender, nonce).
RecordAnyway(build) ==
  /\ build \in builds
  /\ builds' = builds \ {build}
  /\ releases' = Append(releases, NewRow(build))
  /\ UNCHANGED check

\* The insert, which the table's UNIQUE (mina_sender, nonce) may refuse.
recordRelease(build) ==
  /\ build \in builds
  /\ builds' = builds \ {build}
  /\ releases' = IF \E i \in RowsOf(build.minaSender) : releases[i].nonce = build.nonce
                 THEN releases ELSE Append(releases, NewRow(build))
  /\ UNCHANGED check

\* /releases/:id/submitted: the wallet says it has broadcast the burn.
markReleaseSubmitted(i) ==
  /\ releases' = [releases EXCEPT ![i].status = "submitted"]
  /\ UNCHANGED <<builds, check>>

----------------------------------------------------------------------------
(* The poller: the oldest submitted row of a holder, and their balance.    *)

Submitted(sender) == {i \in RowsOf(sender) : releases[i].status = "submitted"}

\* An account that cannot be read counts as one that was reaped.
BalancesRead(sender) ==
  {balance[sender]} \union (IF ReadsMayFail THEN {0} ELSE {})

ReadForCheck(sender) ==
  /\ check = NoCheck
  /\ Submitted(sender) # {}
  /\ \E b \in BalancesRead(sender) :
       check' = [row |-> Min(Submitted(sender)), stage |-> "read", balance |-> b]
  /\ UNCHANGED <<releases, builds>>

HasDropped(row, now) == now + row.amount <= row.balanceBefore

\* The row is left for the next tick, or signed and marked.
markReleaseAttested ==
  /\ check # NoCheck /\ check.stage = "read"
  /\ IF HasDropped(releases[check.row], check.balance)
     THEN /\ releases' = [releases EXCEPT ![check.row].status = "attested"]
          /\ check' = [check EXCEPT !.stage = "signed"]
     ELSE check' = NoCheck /\ UNCHANGED releases
  /\ UNCHANGED builds

\* The holder's other rows are measured from the balance that was read.
reanchorPendingReleases ==
  /\ check # NoCheck /\ check.stage = "signed"
  /\ releases' = [i \in DOMAIN releases |->
       IF /\ releases[i].minaSender = releases[check.row].minaSender
          /\ releases[i].status \in {"built", "submitted"}
       THEN [releases[i] EXCEPT !.balanceBefore = check.balance] ELSE releases[i]]
  /\ check' = NoCheck
  /\ UNCHANGED builds

\* The relayer dies: what it holds in memory is gone, the rows are not.
Crash ==
  /\ builds # {} \/ check # NoCheck
  /\ builds' = {} /\ check' = NoCheck
  /\ UNCHANGED releases

\* /releases/:id/claim, when the row is written after the vault has paid.
markReleaseSettled(i) ==
  /\ releases' = [releases EXCEPT ![i].status = "released"]
  /\ UNCHANGED <<builds, check>>
==============================================================================
