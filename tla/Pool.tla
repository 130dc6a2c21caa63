-------------------------------- MODULE Pool --------------------------------
(***************************************************************************)
(* Mina as the relayer's fee payer sees it: the zkApps of the two rails,   *)
(* the accounts they pay, and the transactions waiting in the pool.        *)
(*                                                                         *)
(* All transactions of the relayer have one fee payer, so Mina applies     *)
(* them in the order of their nonces.  Nonces are counted from the next    *)
(* one the chain will apply: a pool of n transactions holds 0 .. n-1.  A   *)
(* transaction whose preconditions fail when it is applied uses up its     *)
(* nonce and changes nothing else.                                         *)
(***************************************************************************)
EXTENDS Ledger

CONSTANTS Policies, NoPolicy

NO_MINT_AUTHORIZED == Null
mintCommitment(p) == [recipient |-> Chain[p].recipient, amount |-> Chain[p].amount]
Commitments == {mintCommitment(p) : p \in Positions} \union {NO_MINT_AUTHORIZED}

ZkappState ==
  [signingPolicyRoot : Policies \union {NoPolicy}, accepted : HeadsSeen,
   cursor : HeadsSeen, mintAuthorization : Commitments]
Slots == {"signingPolicyRoot", "accepted", "cursor", "mintAuthorization"}

Recipients == {Chain[p].recipient : p \in Positions}

VARIABLES
  zkapp,       \* per rail, MinaPortBridge or AssetPort
  accounts,    \* per rail, the recipients whose account exists
  pool,        \* sent and not applied, in the order of nonces
  delivered    \* history: the records whose recipient was paid

poolVars == <<zkapp, accounts, pool, delivered>>

PoolInit ==
  /\ zkapp = [r \in Consumers |->
       [signingPolicyRoot |-> NoPolicy, accepted |-> 0, cursor |-> 0,
        mintAuthorization |-> NO_MINT_AUTHORIZED]]
  /\ accounts = [r \in Consumers |-> {}]
  /\ pool = << >> /\ delivered = {}

\* A transaction: what it requires of its zkApp's slots, what it sets, whom it
\* pays, and whether it pays for the creation of the account.
Transaction(rail, requires, sets, pays, funds) ==
  [rail |-> rail, requires |-> requires, sets |-> sets, pays |-> pays, funds |-> funds]

PoolTypeOK ==
  /\ zkapp \in [Consumers -> ZkappState]
  /\ accounts \in [Consumers -> SUBSET Recipients]
  /\ \A i \in DOMAIN pool :
       /\ pool[i].rail \in Consumers
       /\ DOMAIN pool[i].requires \subseteq Slots /\ DOMAIN pool[i].sets \subseteq Slots
       /\ pool[i].pays \in Recipients \union {Null} /\ pool[i].funds \in BOOLEAN
  /\ delivered \in SUBSET Positions

----------------------------------------------------------------------------
(* The methods of the zkApps, as transactions.  Each requires every slot   *)
(* it reads, with the value it was built with.                             *)

setSigningPolicyRoot(r, from, to) ==
  Transaction(r, [signingPolicyRoot |-> from], [signingPolicyRoot |-> to], Null, FALSE)

\* publishFlareActionState and publishFlareLockState.
PublishHead(r, policy, from, head) ==
  Transaction(r, [signingPolicyRoot |-> policy, accepted |-> from],
              [accepted |-> head], Null, FALSE)

\* Altered releaseWithdrawal: the cursor goes to the accepted head.
ReleaseToHead(r, cursor, accepted, first, funds) ==
  Transaction(r, [cursor |-> cursor, accepted |-> accepted], [cursor |-> accepted],
              Chain[first].recipient, funds)

releaseWithdrawal(r, cursor, accepted, first, funds) ==
  Transaction(r, [cursor |-> cursor, accepted |-> accepted], [cursor |-> first],
              Chain[first].recipient, funds)

authorizeMint(r, cursor, accepted, first) ==
  Transaction(r, [cursor |-> cursor, accepted |-> accepted,
                  mintAuthorization |-> NO_MINT_AUTHORIZED],
              [cursor |-> first, mintAuthorization |-> mintCommitment(first)], Null, FALSE)

\* The token's mint, which asks canMint.
MintToken(r, commitment, funds) ==
  Transaction(r, [mintAuthorization |-> commitment],
              [mintAuthorization |-> NO_MINT_AUTHORIZED], commitment.recipient, funds)

----------------------------------------------------------------------------

\* An account that exists is not funded, and one that does not has to be.
Applies(tx) ==
  /\ \A s \in DOMAIN tx.requires : zkapp[tx.rail][s] = tx.requires[s]
  /\ tx.pays # Null => (tx.pays \in accounts[tx.rail] <=> ~tx.funds)

\* The next transaction is applied, or fails.  A release pays the record its
\* cursor goes to, a mint the record the port's cursor is at.
Apply ==
  /\ pool # << >>
  /\ pool' = Tail(pool)
  /\ LET tx == Head(pool)
     IN  IF ~Applies(tx) THEN UNCHANGED <<zkapp, accounts, delivered>>
         ELSE /\ zkapp' = [zkapp EXCEPT ![tx.rail] =
                   [s \in Slots |-> IF s \in DOMAIN tx.sets THEN tx.sets[s] ELSE @[s]]]
              /\ IF tx.pays = Null THEN UNCHANGED <<accounts, delivered>>
                 ELSE /\ accounts' = [accounts EXCEPT ![tx.rail] = @ \union {tx.pays}]
                      /\ delivered' = delivered \union {zkapp'[tx.rail].cursor}

\* A block producer drops a transaction, and with it those that need it.
Drop ==
  /\ \E n \in 0 .. Len(pool) - 1 : pool' = SubSeq(pool, 1, n)
  /\ UNCHANGED <<zkapp, accounts, delivered>>

\* Somebody else publishes a head Flare had.
StrayPublication(r) ==
  /\ zkapp[r].signingPolicyRoot # NoPolicy
  /\ \E head \in 1 .. flareLen :
       /\ head # zkapp[r].accepted
       /\ zkapp' = [zkapp EXCEPT ![r].accepted = head]
  /\ UNCHANGED <<accounts, pool, delivered>>
=============================================================================
