---------------------------- MODULE AccountPages ----------------------------
(***************************************************************************)
(* What uses MinaAccounts: pages of the web application, which read a      *)
(* key's next nonce, have its wallet sign a batch and hand that to the     *)
(* relayer (Bridge.tsx, Swap.tsx), and the relayer, which sends it to      *)
(* Flare and tells the page how the transaction ended (server.ts,          *)
(* submitter.ts).  Nothing keeps two pages from one nonce, and whoever has *)
(* seen a signature may submit it, before the relayer or after.            *)
(***************************************************************************)
EXTENDS MinaAccounts

CONSTANTS
  Pages, SessionOf,   \* the account of each page's session
  NoExpiry,
  Elsewhere,          \* signatures that no page asked for
  NoPage

ASSUME AccountPagesAssumption ==
  /\ SessionOf \in [Pages -> Accounts] /\ NoPage \notin Pages
  /\ NoExpiry \in Nat /\ Elsewhere \subseteq Signatures

VARIABLES
  pages,     \* where each page is, with what it asks for and the nonce it read
  signed,    \* the signatures that are known
  sender     \* whose transaction Flare is at

pageVars == <<pages, signed, sender>>
allVars == <<vars, pageVars>>

\* What pages ask for, each an order of calls.
burnCalls ==
  {<<"approve", "burnToMina">>, <<"lockNative">>, <<"approve", "lock">>}
unwrapCalls == {<<"unwrap", "withdraw">>}
swapCalls == {<<"swapExactNATForTokens">>, <<"approve", "swapExactTokens">>}

Page == [at : {"idle", "signing", "submitting", "mining", "done", "failed"},
         batch : Seq(Calls), nonce : Nat]

PagesTypeOK ==
  /\ pages \in [Pages -> Page]
  /\ signed \subseteq Signatures
  /\ sender \in Pages \union {NoPage}

PagesInit ==
  /\ Init
  /\ pages = [p \in Pages |-> [at |-> "idle", batch |-> << >>, nonce |-> 0]]
  /\ signed = Elsewhere /\ sender = NoPage

At(p, from, to) == pages[p].at = from /\ pages' = [pages EXCEPT ![p].at = to]

----------------------------------------------------------------------------
(* A page.                                                                 *)

KeyOfPage(p) == KeyOf[SessionOf[p]]

\* The fields that are signed: purpose, chain, account, batch hash and nonce.
authorizationFields(p, page) ==
  [key |-> KeyOfPage(p), purpose |-> ACCOUNT_BATCH, chainId |-> ChainId,
   target |-> SessionOf[p], calls |-> page.batch, nonce |-> page.nonce,
   expiry |-> NoExpiry]

SignatureOf(p) == authorizationFields(p, pages[p])

\* The key's next nonce is read, for one of the batches; Signatures bounds which.
nextNonceFor(p, batches) ==
  /\ pages[p].at \in {"idle", "done", "failed"}
  /\ \E batch \in batches :
       LET page == [at |-> "signing", batch |-> batch, nonce |-> nextNonce[KeyOfPage(p)]]
       IN  /\ authorizationFields(p, page) \in Signatures
           /\ pages' = [pages EXCEPT ![p] = page]
  /\ UNCHANGED <<vars, signed, sender>>

burn(p) == nextNonceFor(p, burnCalls)
unwrapNative(p) == nextNonceFor(p, unwrapCalls)
doSwap(p) == nextNonceFor(p, swapCalls)

\* The wallet signs, or refuses.
signAuthorization(p) ==
  /\ \/ /\ At(p, "signing", "submitting")
        /\ signed' = signed \union {SignatureOf(p)}
     \/ At(p, "signing", "failed") /\ UNCHANGED signed
  /\ UNCHANGED <<vars, sender>>

----------------------------------------------------------------------------
(* The relayer.                                                            *)

\* POST /accounts/execute: the transaction of submitBatch is at its turn.
submitBatch(p) ==
  /\ stack = << >>
  /\ LET s == SignatureOf(p)
     IN  \/ /\ executeBatch(SessionOf[p], s)
            /\ At(p, "submitting", "mining") /\ sender' = p
         \/ /\ ~(SessionOf[p] \in deployed /\ Consumable(s, SessionOf[p], ACCOUNT_BATCH))
            /\ At(p, "submitting", "failed") /\ UNCHANGED <<vars, sender>>
  /\ UNCHANGED signed

\* Altered Told: the receipt's status is not looked at.
ToldDone(p, outcome) == At(p, "mining", "done")

\* waitForTransactionReceipt, and its status.
Told(p, outcome) == At(p, "mining", outcome)

\* A step of Flare that ends the transaction it is at, or not.
Ended(outcome) ==
  IF Len(stack) = 1 /\ sender # NoPage
  THEN /\ sender' = NoPage /\ UNCHANGED signed
       /\ IF pages[sender].at = "mining" THEN Told(sender, outcome) ELSE UNCHANGED pages
  ELSE UNCHANGED pageVars

\* The connection is lost, and the page shows an error; the relayer goes on.
AnswerLost(p) ==
  /\ At(p, "mining", "failed")
  /\ UNCHANGED <<vars, signed, sender>>

\* POST /accounts/:minaKey/deploy: isDeployed is asked before it is sent.
deployAccount(account) == deploy(account) /\ UNCHANGED pageVars

----------------------------------------------------------------------------

\* Anyone with a signature, from outside or out of a call.
Submitted ==
  /\ \E account \in Accounts, s \in signed : execute(account, s) \/ executeBatch(account, s)
  /\ UNCHANGED pageVars

PagesNext ==
  \/ \E p \in Pages :
       \/ burn(p) \/ unwrapNative(p) \/ doSwap(p)
       \/ signAuthorization(p) \/ submitBatch(p) \/ AnswerLost(p)
  \/ \E account \in Accounts : deployAccount(account)
  \/ Submitted
  \/ (Wait \/ CallOut \/ CallReturns) /\ UNCHANGED pageVars
  \/ Finish /\ Ended("done")
  \/ CallFails /\ Ended("failed")

PagesSpec == PagesInit /\ [][PagesNext]_allVars

----------------------------------------------------------------------------
(* Properties.                                                             *)

\* A page that is told its batch went through is right, whoever else submits
\* what its key signed and whichever page took its nonce (submitter.ts
\* submitBatch, which returns once the receipt says success).
ToldDoneIsDone ==
  \A p \in Pages : pages[p].at = "done" =>
    made[SignatureOf(p)] = Len(pages[p].batch)
=============================================================================
