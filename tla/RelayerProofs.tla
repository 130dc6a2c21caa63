--------------------------- MODULE RelayerProofs ---------------------------
(***************************************************************************)
(* A row is settled only for a record the zkApp's cursor has passed, and a *)
(* withdrawal marked released was paid, for any deployments, whatever is   *)
(* dropped, restarted, predicted wrongly or published by others.           *)
(*                                                                         *)
(* The loops settle a row on a reading of the cursor in the same step, so  *)
(* what has to be shown is that a cursor never goes back.  The chain       *)
(* applies a transaction only where it was built for, and every            *)
(* transaction the worker can put in the pool moves the cursor forward     *)
(* from there; one of the escrow moves it to the first withdrawal after    *)
(* that place, and pays it.  What the worker believes of the nonce, the    *)
(* balance or the accepted head needs no invariant: a wrong belief makes a *)
(* transaction that does not apply, never one that applies elsewhere.      *)
(*                                                                         *)
(* The last part is of types: it adds what keeps a wave within its size,   *)
(* and that a payment is always for a record of the chain.                 *)
(***************************************************************************)
EXTENDS Relayer, TLAPS, WellFoundedInduction, SequenceTheorems, FiniteSetTheorems

\* Ranges of heads, and the states of a loop that work on one.
Ranges == [start : HeadsSeen, to : HeadsSeen]
Waves == [pc : {"idle", "refreshed", "wait", "confirm"}, todo : SUBSET Positions,
          range : Ranges, sent : SUBSET Positions, armed : BOOLEAN,
          candidates : SUBSET Positions]

\* A transaction moves a cursor forward only, from where it was read; one of the
\* escrow moves it to the first withdrawal, and pays it.
Sound(tx) ==
  /\ tx.rail \in Consumers
  /\ "accepted" \in DOMAIN tx.sets => tx.sets["accepted"] \in HeadsSeen
  /\ "cursor" \in DOMAIN tx.sets =>
       /\ "cursor" \in DOMAIN tx.requires
       /\ tx.requires["cursor"] \in HeadsSeen /\ tx.sets["cursor"] \in HeadsSeen
       /\ tx.requires["cursor"] < tx.sets["cursor"]
       /\ tx.rail = Escrow =>
            /\ tx.pays # Null
            /\ \A p \in RowsOf(Escrow) :
                 tx.requires["cursor"] < p /\ p <= tx.sets["cursor"] => p = tx.sets["cursor"]

\* A request is for a consumer, over heads of the chain; the escrow does not mint.
SoundRequest(q) ==
  /\ q.rail \in Consumers
  /\ q.kind = "publish" => q.head \in HeadsSeen
  /\ q.kind \in {"release", "mint"} => q.range \in Ranges
  /\ q.kind = "mint" => q.rail # Escrow

SoundJob(j) == j # Null => "request" \in DOMAIN j /\ SoundRequest(j["request"])

\* What a loop works on are rows of its rail.
SoundWave(r, wave) ==
  wave \in Waves /\ wave.todo \subseteq RowsOf(r) /\ wave.sent \subseteq RowsOf(r)

\* What every part rests on, then one conjunct for each component's variables.
Base == deployment \in Deployments /\ flareLen \in HeadsSeen /\ DOMAIN rows = Positions
Slotted ==
  /\ DOMAIN zkapp = Consumers
  /\ \A r \in Consumers :
       /\ DOMAIN zkapp[r] = Slots
       /\ zkapp[r].cursor \in HeadsSeen /\ zkapp[r].accepted \in HeadsSeen
Pooled == pool \in Seq(Range(pool)) /\ \A tx \in Range(pool) : Sound(tx)
Asked == /\ lane \in Seq(Range(lane)) /\ \A q \in Range(lane) : SoundRequest(q)
         /\ SoundJob(job)
Waving ==
  /\ DOMAIN loop = Consumers
  /\ \A r \in Consumers : /\ SoundWave(r, loop[r])
                          /\ loop[r].pc = "wait" => loop[r].todo # {}
Publishing ==
  /\ DOMAIN pub = {"pc", "head", "policy", "behind"}
  /\ pub.head \in HeadsSeen /\ pub.behind \subseteq Consumers

\* What a table calls settled is of a rail that is there, below its cursor.
TellsTheTruth(table) ==
  \A p \in Positions :
    table[p] = "settled" =>
      Chain[p].token \in Consumers /\ p <= zkapp[Chain[p].token].cursor
Told == TellsTheTruth(rows)

\* Below the escrow's cursor every withdrawal was paid.
Paid ==
  Escrow \in Consumers =>
    \A p \in RowsOf(Escrow) : p <= zkapp[Escrow].cursor => p \in delivered

RInv == Base /\ Slotted /\ Pooled /\ Asked /\ Waving /\ Publishing /\ Told /\ Paid

\* What no step does to the cursors: moving one back, in whatever order waves
\* that overlap, restarts and drops leave transactions in the pool.
CursorsGrow == \A r \in Consumers : zkapp[r].cursor <= zkapp'[r].cursor
CursorsNeverGoBack == [][CursorsGrow]_vars

----------------------------------------------------------------------------
(* Each of the five transactions the worker can send is sound.             *)

\* A rotation moves no cursor.
LEMMA RotationSound ==
  ASSUME NEW r \in Consumers, NEW f, NEW t
  PROVE  Sound(setSigningPolicyRoot(r, f, t))
BY DEF Sound, setSigningPolicyRoot, Transaction

\* A publication sets the accepted head, to one of the chain.
LEMMA PublicationSound ==
  ASSUME NEW r \in Consumers, NEW p, NEW f, NEW h \in HeadsSeen
  PROVE  Sound(PublishHead(r, p, f, h))
BY DEF Sound, PublishHead, Transaction

\* A release moves it to the first withdrawal after the place it was built for.
LEMMA ReleaseSound ==
  ASSUME NEW r \in Consumers, NEW from \in HeadsSeen, NEW a, NEW first \in Positions, NEW funds,
         from < first, deployment \in Deployments,
         \A p \in RowsOf(r) : from < p /\ p <= first => p = first
  PROVE  Sound(releaseWithdrawal(r, from, a, first, funds))
<1>1. Chain[first].recipient # Null
  <2>1. deployment.chain \in Seq(Record)
    BY LedgerAssumption DEF Deployment
  <2>2. Chain[first] \in Record
    BY <2>1 DEF Positions, Chain
  <2> QED
    BY <2>2, LedgerAssumption DEF Record
<1>2. first \in HeadsSeen
  BY DEF Positions, HeadsSeen
<1> DEFINE tx == releaseWithdrawal(r, from, a, first, funds)
<1>3. /\ tx.rail = r /\ tx.pays = Chain[first].recipient
      /\ DOMAIN tx.sets = {"cursor"} /\ "cursor" \in DOMAIN tx.requires
      /\ tx.sets["cursor"] = first /\ tx.requires["cursor"] = from
  BY DEF releaseWithdrawal, Transaction
<1> SUFFICES Sound(tx)
  OBVIOUS
<1> HIDE DEF tx
<1> QED
  BY <1>1, <1>2, <1>3 DEF Sound

\* Arming moves it to the first lock; only ports are armed.
LEMMA ArmingSound ==
  ASSUME NEW r \in Consumers, r # Escrow, NEW from \in HeadsSeen, NEW a, NEW first \in Positions,
         from < first
  PROVE  Sound(authorizeMint(r, from, a, first))
<1>2. first \in HeadsSeen
  BY DEF Positions, HeadsSeen
<1> DEFINE tx == authorizeMint(r, from, a, first)
<1>3. /\ tx.rail = r /\ "accepted" \notin DOMAIN tx.sets
      /\ "cursor" \in DOMAIN tx.requires
      /\ tx.sets["cursor"] = first /\ tx.requires["cursor"] = from
  BY DEF authorizeMint, Transaction
<1> SUFFICES Sound(tx)
  OBVIOUS
<1> HIDE DEF tx
<1> QED
  BY <1>2, <1>3 DEF Sound

\* A mint leaves the cursor where arming has put it.
LEMMA MintSound ==
  ASSUME NEW r \in Consumers, NEW c, NEW f
  PROVE  Sound(MintToken(r, c, f))
BY DEF Sound, MintToken, Transaction

----------------------------------------------------------------------------
(* Minima, and sequences as what is in them.                               *)

\* A set of naturals that has a member has a least one.
LEMMA MinIn ==
  ASSUME NEW S, S \subseteq Nat, S # {}
  PROVE  Min(S) \in S /\ \A y \in S : Min(S) <= y
<1> DEFINE R == {ss \in Nat \X Nat : ss[1] < ss[2]}
<1>1. IsWellFoundedOn(R, Nat)
  BY NatLessThanWellFounded, Zenon DEF OpToRel
<1>2. PICK x \in S : \A y \in S : ~(<<y, x>> \in R)
  <2> HIDE DEF R
  <2> QED
    BY <1>1, WFMin
<1>3. \A y \in S : x <= y
  <2>1. ASSUME NEW m \in Nat, NEW n \in Nat, m < n
        PROVE  <<m, n>> \in R
    <3>1. <<m, n>> \in Nat \X Nat /\ <<m, n>>[1] < <<m, n>>[2]
      BY <2>1
    <3> QED
      BY <3>1, Zenon
  <2> HIDE DEF R
  <2> TAKE y \in S
  <2>2. x \in Nat /\ y \in Nat
    OBVIOUS
  <2>3. ~(y < x)
    BY <1>2, <2>1, <2>2, Zenon
  <2> QED
    BY <2>2, <2>3
<1> QED
  BY <1>3, Zenon DEF Min

\* A sequence over any set is one over its own range.
LEMMA InItsRange ==
  ASSUME NEW S, NEW s \in Seq(S)
  PROVE  s \in Seq(Range(s)) /\ Range(s) = {s[i] : i \in 1 .. Len(s)}
  BY DEF Range

\* Append brings in what is appended, and nothing else.
LEMMA AppendInRange ==
  ASSUME NEW s, s \in Seq(Range(s)), NEW e
  PROVE  /\ Append(s, e) \in Seq(Range(Append(s, e)))
         /\ \A x \in Range(Append(s, e)) : x \in Range(s) \/ x = e
<1> DEFINE S == Range(s) \union {e}
           t == Append(s, e)
<1>1. s \in Seq(S) /\ t \in Seq(S)
  OBVIOUS
<1> HIDE DEF S, t
<1>2. t \in Seq(Range(t)) /\ Range(t) = {t[i] : i \in 1 .. Len(t)}
  BY <1>1, InItsRange, SMTT(30)
<1>3. \A i \in 1 .. Len(t) : t[i] \in S
  BY <1>1
<1> QED
  BY <1>2, <1>3 DEF S, t

\* Tail brings in nothing.
LEMMA TailInRange ==
  ASSUME NEW s, s \in Seq(Range(s)), s # << >>
  PROVE  /\ Tail(s) \in Seq(Range(Tail(s)))
         /\ \A x \in Range(Tail(s)) : x \in Range(s)
         /\ Head(s) \in Range(s)
<1> DEFINE S == Range(s)
           t == Tail(s)
<1>1. s \in Seq(S) /\ Head(s) \in S /\ t \in Seq(S)
  OBVIOUS
<1> HIDE DEF S, t
<1>2. t \in Seq(Range(t)) /\ Range(t) = {t[i] : i \in 1 .. Len(t)}
  BY <1>1, InItsRange, SMTT(30)
<1>3. \A i \in 1 .. Len(t) : t[i] \in S
  BY <1>1
<1> QED
  BY <1>1, <1>2, <1>3 DEF S, t

\* Nor does a prefix, which is what is left when the pool drops a suffix.
LEMMA PrefixInRange ==
  ASSUME NEW s, s \in Seq(Range(s)), NEW n \in 0 .. Len(s)
  PROVE  /\ SubSeq(s, 1, n) \in Seq(Range(SubSeq(s, 1, n)))
         /\ \A x \in Range(SubSeq(s, 1, n)) : x \in Range(s)
<1> DEFINE S == Range(s)
           t == SubSeq(s, 1, n)
<1>1. s \in Seq(S) /\ t \in Seq(S)
  OBVIOUS
<1> HIDE DEF S, t
<1>2. t \in Seq(Range(t)) /\ Range(t) = {t[i] : i \in 1 .. Len(t)}
  BY <1>1, InItsRange, SMTT(30)
<1>3. \A i \in 1 .. Len(t) : t[i] \in S
  BY <1>1
<1> QED
  BY <1>1, <1>2, <1>3 DEF S, t

----------------------------------------------------------------------------
(* What stays as it is.                                                    *)

\* The chain is one of records, and positions are heads.
LEMMA ChainTyped ==
  ASSUME deployment \in Deployments
  PROVE  /\ Chain \in Seq(Record) /\ Len(Chain) \in Nat
         /\ Consumers \subseteq Rails /\ Null \notin HeadsSeen
         /\ Positions \subseteq HeadsSeen /\ HeadsSeen \subseteq Nat
<1>1. Chain \in Seq(Record) /\ Consumers \subseteq Rails
  BY LedgerAssumption DEF Deployment, Chain, Consumers
<1>2. Len(Chain) \in Nat
  BY <1>1
<1> QED
  BY <1>1, <1>2, LedgerAssumption DEF Positions, HeadsSeen

\* The chain is fixed by the deployment, and so is what is said in its terms.
LEMMA SameDeployment ==
  ASSUME deployment' = deployment
  PROVE  /\ Consumers' = Consumers /\ Chain' = Chain
         /\ Positions' = Positions /\ HeadsSeen' = HeadsSeen
         /\ Ranges' = Ranges /\ Waves' = Waves
         /\ \A r : RowsOf(r)' = RowsOf(r)
         /\ \A tx : Sound(tx)' <=> Sound(tx)
         /\ \A q : SoundRequest(q)' <=> SoundRequest(q)
         /\ \A j : SoundJob(j)' <=> SoundJob(j)
         /\ \A r, w : SoundWave(r, w)' <=> SoundWave(r, w)
<1>1. /\ Consumers' = Consumers /\ Chain' = Chain
      /\ Positions' = Positions /\ HeadsSeen' = HeadsSeen
  BY DEF Consumers, Chain, Positions, HeadsSeen
<1>2. Ranges' = Ranges /\ Waves' = Waves /\ \A r : RowsOf(r)' = RowsOf(r)
  BY <1>1 DEF Ranges, Waves, RowsOf
<1>3. \A tx : Sound(tx)' <=> Sound(tx)
  BY <1>1, <1>2 DEF Sound
<1>4. \A q : SoundRequest(q)' <=> SoundRequest(q)
  BY <1>1, <1>2 DEF SoundRequest
<1>5. \A j : SoundJob(j)' <=> SoundJob(j)
  BY <1>4 DEF SoundJob
<1>6. \A r, w : SoundWave(r, w)' <=> SoundWave(r, w)
  BY <1>1, <1>2 DEF SoundWave
<1> QED
  BY <1>1, <1>2, <1>3, <1>4, <1>5, <1>6

\* A part of the invariant stays when its variables do; rows stay true when
\* cursors only grow.
LEMMA Frame ==
  ASSUME RInv, deployment' = deployment
  PROVE  /\ flareLen' \in HeadsSeen /\ DOMAIN rows' = Positions => Base'
         /\ UNCHANGED zkapp => Slotted' /\ CursorsGrow
         /\ UNCHANGED pool => Pooled'
         /\ UNCHANGED <<lane, job>> => Asked'
         /\ UNCHANGED loop => Waving'
         /\ UNCHANGED pub => Publishing'
         /\ rows' = rows /\ CursorsGrow /\ Slotted' => Told'
         /\ UNCHANGED <<zkapp, delivered>> => Paid'
<1>0. /\ Consumers' = Consumers /\ Chain' = Chain
      /\ Positions' = Positions /\ HeadsSeen' = HeadsSeen
      /\ \A r : RowsOf(r)' = RowsOf(r)
      /\ HeadsSeen \subseteq Nat /\ Positions \subseteq Nat
  BY SameDeployment, ChainTyped DEF RInv, Base
<1>1. flareLen' \in HeadsSeen /\ DOMAIN rows' = Positions => Base'
  BY <1>0 DEF RInv, Base
<1>2. UNCHANGED zkapp => Slotted' /\ CursorsGrow
  <2>1. \A r \in Consumers : zkapp[r].cursor \in Nat
    BY <1>0 DEF RInv, Slotted
  <2>2. UNCHANGED zkapp => Slotted'
    BY <1>0 DEF RInv, Slotted
  <2>3. UNCHANGED zkapp => CursorsGrow
    BY <2>1 DEF CursorsGrow
  <2> QED
    BY <2>2, <2>3
<1>3. UNCHANGED pool => Pooled'
  BY SameDeployment DEF RInv, Pooled
<1>4. UNCHANGED <<lane, job>> => Asked'
  BY SameDeployment DEF RInv, Asked
<1>5. UNCHANGED loop => Waving'
  BY SameDeployment DEF RInv, Waving
<1>6. UNCHANGED pub => Publishing'
  BY <1>0 DEF RInv, Publishing
<1>7. ASSUME rows' = rows, CursorsGrow, Slotted'
      PROVE  Told'
  <2>1. ASSUME NEW p \in Positions, rows[p] = "settled"
        PROVE  Chain[p].token \in Consumers /\ p <= zkapp'[Chain[p].token].cursor
    <3> DEFINE r == Chain[p].token
    <3>1. r \in Consumers /\ p <= zkapp[r].cursor
      BY <2>1 DEF RInv, Told, TellsTheTruth
    <3>2. /\ zkapp[r].cursor <= zkapp'[r].cursor
          /\ zkapp[r].cursor \in Nat /\ zkapp'[r].cursor \in Nat
      BY <3>1, <1>7, <1>0 DEF CursorsGrow, RInv, Slotted
    <3> HIDE DEF r
    <3>3. p \in Nat
      BY <1>0
    <3> QED
      BY <3>1, <3>2, <3>3 DEF r
  <2> QED
    BY <1>0, <1>7, <2>1 DEF Told, TellsTheTruth
<1>8. UNCHANGED <<zkapp, delivered>> => Paid'
  BY <1>0 DEF RInv, Paid
<1> QED
  BY <1>1, <1>2, <1>3, <1>4, <1>5, <1>6, <1>7, <1>8

----------------------------------------------------------------------------
(* The chain applies what is sound, so cursors only grow and the escrow's  *)
(* leaves nothing unpaid behind it.                                        *)

\* Included, or rejected where its preconditions fail.
LEMMA ApplyKeeps ==
  ASSUME RInv, deployment' = deployment, Apply
  PROVE  Slotted' /\ Pooled' /\ CursorsGrow /\ Paid'
<1>0. /\ Consumers' = Consumers /\ HeadsSeen' = HeadsSeen
      /\ \A r : RowsOf(r)' = RowsOf(r)
      /\ HeadsSeen \subseteq Nat /\ Positions \subseteq Nat
  BY SameDeployment, ChainTyped DEF RInv, Base
<1> DEFINE tx == Head(pool)
           r == tx.rail
<1>1. /\ pool # << >> /\ pool \in Seq(Range(pool)) /\ pool' = Tail(pool)
      /\ \A x \in Range(pool) : Sound(x)
  BY DEF Apply, RInv, Pooled
<1>2. Pooled'
  BY <1>1, TailInRange, SameDeployment DEF Pooled
<1>3. Sound(tx)
  BY <1>1, TailInRange
<1>4. CASE ~Applies(tx)
  <2>1. UNCHANGED <<zkapp, delivered>>
    BY <1>4 DEF Apply
  <2> QED
    BY <1>2, <2>1, Frame
<1>5. CASE Applies(tx)
  <2> DEFINE new == [s \in Slots |-> IF s \in DOMAIN tx.sets THEN tx.sets[s] ELSE zkapp[r][s]]
  <2>1. /\ zkapp' = [zkapp EXCEPT ![r] = new]
        /\ delivered \subseteq delivered'
        /\ tx.pays # Null => zkapp'[r].cursor \in delivered'
    BY <1>5 DEF Apply
  <2>2. \A s \in DOMAIN tx.requires : zkapp[r][s] = tx.requires[s]
    BY <1>5 DEF Applies
  <2>3. /\ DOMAIN new = Slots
        /\ new["cursor"] = IF "cursor" \in DOMAIN tx.sets THEN tx.sets["cursor"]
                           ELSE zkapp[r]["cursor"]
        /\ new["accepted"] = IF "accepted" \in DOMAIN tx.sets THEN tx.sets["accepted"]
                             ELSE zkapp[r]["accepted"]
    BY DEF Slots
  <2>4. r \in Consumers /\ zkapp[r].cursor \in HeadsSeen /\ zkapp[r].accepted \in HeadsSeen
    BY <1>3 DEF Sound, RInv, Slotted
  <2> HIDE DEF tx, new
  <2>5. /\ DOMAIN zkapp' = Consumers /\ zkapp'[r] = new
        /\ \A q \in Consumers : q # r => zkapp'[q] = zkapp[q]
    BY <2>1, <2>4 DEF RInv, Slotted
  <2>6. /\ new.cursor \in HeadsSeen /\ new.accepted \in HeadsSeen
        /\ zkapp[r].cursor <= new.cursor
    <3>1. new.accepted \in HeadsSeen
      BY <1>3, <2>3, <2>4 DEF Sound
    <3>2. CASE "cursor" \in DOMAIN tx.sets
      <4>1. /\ tx.requires["cursor"] \in Nat /\ tx.sets["cursor"] \in HeadsSeen
            /\ tx.sets["cursor"] \in Nat
            /\ tx.requires["cursor"] < tx.sets["cursor"]
            /\ zkapp[r].cursor = tx.requires["cursor"]
        BY <1>0, <1>3, <2>2, <3>2 DEF Sound
      <4>2. new.cursor = tx.sets["cursor"]
        BY <2>3, <3>2
      <4> QED
        BY <3>1, <4>1, <4>2
    <3>3. CASE "cursor" \notin DOMAIN tx.sets
      <4>1. new.cursor = zkapp[r].cursor /\ zkapp[r].cursor \in Nat
        BY <1>0, <2>3, <2>4, <3>3
      <4> QED
        BY <2>4, <3>1, <4>1
    <3> QED
      BY <3>2, <3>3
  <2>7. Slotted'
    BY <1>0, <2>3, <2>5, <2>6 DEF RInv, Slotted
  <2>8. CursorsGrow
    <3>1. \A q \in Consumers : zkapp[q].cursor \in Nat
      BY <1>0 DEF RInv, Slotted
    <3> QED
      BY <2>5, <2>6, <3>1 DEF CursorsGrow
  <2>9. Paid'
    <3> SUFFICES ASSUME Escrow \in Consumers, NEW p \in RowsOf(Escrow),
                        p <= zkapp'[Escrow].cursor, p \notin delivered
                 PROVE  p \in delivered'
      BY <1>0, <2>1 DEF Paid
    <3>1. p \in Nat
      BY <1>0 DEF RowsOf
    <3>2. zkapp[Escrow].cursor \in Nat /\ ~(p <= zkapp[Escrow].cursor)
      BY <1>0 DEF RInv, Paid, Slotted
    <3>3. r = Escrow /\ p <= new.cursor
      BY <2>5, <3>2
    <3>4. "cursor" \in DOMAIN tx.sets /\ new.cursor = tx.sets["cursor"]
      BY <2>3, <3>2, <3>3
    <3>5. zkapp[r].cursor = tx.requires["cursor"]
      BY <1>3, <2>2, <3>4 DEF Sound
    <3>6. p = new.cursor /\ tx.pays # Null
      BY <1>3, <3>1, <3>2, <3>3, <3>4, <3>5 DEF Sound
    <3> QED
      BY <2>1, <2>5, <3>6
  <2> QED
    BY <1>2, <2>7, <2>8, <2>9
<1> QED
  BY <1>4, <1>5

\* Someone else's publication moves only the accepted head.
LEMMA StrayKeeps ==
  ASSUME RInv, deployment' = deployment, NEW r \in Consumers, StrayPublication(r)
  PROVE  Slotted' /\ CursorsGrow /\ Paid'
<1>0. /\ Consumers' = Consumers /\ HeadsSeen' = HeadsSeen
      /\ \A q : RowsOf(q)' = RowsOf(q)
      /\ HeadsSeen \subseteq Nat
  BY SameDeployment, ChainTyped DEF RInv, Base
<1>1. PICK head \in 1 .. flareLen : zkapp' = [zkapp EXCEPT ![r].accepted = head]
  BY DEF StrayPublication
<1>2. head \in HeadsSeen /\ UNCHANGED delivered
  BY ChainTyped DEF StrayPublication, RInv, Base, HeadsSeen
<1>3. /\ DOMAIN zkapp = Consumers
      /\ \A q \in Consumers : /\ DOMAIN zkapp[q] = Slots
                              /\ zkapp[q].cursor \in HeadsSeen
                              /\ zkapp[q].accepted \in HeadsSeen
  BY DEF RInv, Slotted
<1>4. /\ DOMAIN zkapp' = Consumers /\ \A q \in Consumers : DOMAIN zkapp'[q] = Slots
      /\ \A q \in Consumers : zkapp'[q].cursor = zkapp[q].cursor
      /\ \A q \in Consumers : zkapp'[q].accepted \in {head, zkapp[q].accepted}
  <2> DEFINE new == [zkapp[r] EXCEPT !.accepted = head]
  <2>1. /\ DOMAIN new = Slots /\ new["cursor"] = zkapp[r]["cursor"] /\ new["accepted"] = head
    BY <1>3 DEF Slots
  <2>2. zkapp' = [zkapp EXCEPT ![r] = new]
    BY <1>1
  <2> HIDE DEF new
  <2>3. DOMAIN zkapp' = Consumers /\ zkapp'[r] = new /\ \A q \in Consumers : q # r => zkapp'[q] = zkapp[q]
    BY <1>3, <2>2
  <2>4. ASSUME NEW q \in Consumers
        PROVE  /\ DOMAIN zkapp'[q] = Slots /\ zkapp'[q].cursor = zkapp[q].cursor
               /\ zkapp'[q].accepted \in {head, zkapp[q].accepted}
    <3>1. CASE q = r
      BY <2>1, <2>3, <3>1
    <3>2. CASE q # r
      BY <1>3, <2>3, <3>2
    <3> QED
      BY <3>1, <3>2
  <2> QED
    BY <2>3, <2>4
<1>5. Slotted'
  BY <1>0, <1>2, <1>3, <1>4 DEF Slotted
<1>6. CursorsGrow
  <2>1. \A q \in Consumers : zkapp[q].cursor \in Nat /\ zkapp'[q].cursor = zkapp[q].cursor
    BY <1>0, <1>3, <1>4
  <2> QED
    BY <2>1 DEF CursorsGrow
<1>7. Paid'
  BY <1>0, <1>2, <1>4 DEF RInv, Paid
<1> QED
  BY <1>5, <1>6, <1>7

----------------------------------------------------------------------------
(* The worker: what it sends is sound.                                     *)

\* What a circuit claims over a range is its rail's first record in it.
LEMMA ClaimIsFirst ==
  ASSUME deployment \in Deployments, NEW r, NEW range \in Ranges, OwnIn(r, range) # {}
  PROVE  LET first == Min(OwnIn(r, range))
         IN  /\ first \in Positions /\ range.start < first /\ range.start \in HeadsSeen
             /\ \A p \in RowsOf(r) : range.start < p /\ p <= first => p = first
<1> DEFINE own == OwnIn(r, range)
<1>1. /\ Len(Chain) \in Nat /\ range.start \in HeadsSeen /\ range.to \in HeadsSeen
      /\ range.start \in Nat /\ range.to \in Nat /\ range.to <= Len(Chain)
  BY ChainTyped DEF Ranges, HeadsSeen
<1>2. own = {p \in range.start + 1 .. range.to : Chain[p].token = r}
  BY DEF OwnIn, RecordsOf
<1>3. own \subseteq Nat
  BY <1>1, <1>2
<1> HIDE DEF own
<1>4. Min(own) \in own /\ \A p \in own : Min(own) <= p
  BY <1>3, MinIn DEF own
<1> DEFINE first == Min(own)
<1> HIDE DEF first
<1>5. /\ first \in range.start + 1 .. range.to
      /\ \A p \in range.start + 1 .. range.to : Chain[p].token = r => first <= p
  BY <1>2, <1>4 DEF first
<1>6. first \in Positions /\ range.start < first
  BY <1>1, <1>5 DEF Positions
<1>7. ASSUME NEW p \in RowsOf(r), range.start < p, p <= first
      PROVE  p = first
  <2>1. p \in Positions /\ Chain[p].token = r
    BY DEF RowsOf
  <2>2. p \in Nat
    BY <1>1, <2>1 DEF Positions
  <2>3. p \in range.start + 1 .. range.to
    BY <1>1, <1>5, <1>7, <2>2
  <2>4. first <= p
    BY <1>5, <2>1, <2>3
  <2> QED
    BY <1>1, <1>5, <1>7, <2>2, <2>4
<1> QED
  BY <1>1, <1>6, <1>7 DEF first, own

\* What is sent joins the pool, and changes no zkApp yet.
LEMMA SendKeeps ==
  ASSUME RInv, deployment' = deployment, NEW buildable, NEW tx, Sound(tx), Send(buildable, tx)
  PROVE  Pooled' /\ UNCHANGED <<zkapp, delivered>>
<1>1. pool' = Append(pool, tx) /\ UNCHANGED <<zkapp, delivered>>
  BY DEF Send
<1> QED
  BY <1>1, AppendInRange, SameDeployment DEF RInv, Pooled

\* A request that fails sends nothing.
LEMMA FailKeeps ==
  ASSUME RInv, deployment' = deployment, NEW issued, Fail(issued)
  PROVE  Pooled' /\ Asked' /\ UNCHANGED <<zkapp, delivered>>
<1>1. UNCHANGED <<lane, pool, zkapp, delivered>> /\ job' = Null
  BY DEF Fail, poolVars
<1>2. SoundJob(Null)
  BY DEF SoundJob
<1> QED
  BY <1>1, <1>2, Frame, SameDeployment DEF RInv, Asked

\* The job is as it was but for its stage and what it has read.
LEMMA JobMoves ==
  ASSUME RInv, deployment' = deployment, lane' = lane,
         \/ job' = Null
         \/ job # Null /\ "request" \in DOMAIN job' /\ job'["request"] = job["request"]
  PROVE  Asked'
<1>1. SoundJob(job')
  BY DEF RInv, Asked, SoundJob
<1> QED
  BY <1>1, SameDeployment DEF RInv, Asked

\* One step of the worker for each stage of a job.
LEMMA WorkerKeeps ==
  ASSUME RInv, deployment' = deployment, WorkerStep
  PROVE  Pooled' /\ Asked' /\ UNCHANGED <<zkapp, delivered>>
<1> DEFINE r == job.request.rail
           q == job.request
           Done == Pooled' /\ Asked' /\ UNCHANGED <<zkapp, delivered>>
<1>0. job # Null => /\ "request" \in DOMAIN job /\ SoundRequest(q) /\ r \in Consumers
                    /\ job["request"] = job.request
  BY DEF RInv, Asked, SoundJob, SoundRequest
<1>1. CASE StartJob
  <2> DEFINE j == [request |-> Head(lane), stage |-> "read",
                   read |-> zkapp[Head(lane).rail], funds |-> accounts[Head(lane).rail],
                   nonce |-> 0]
  <2>1. /\ lane # << >> /\ lane' = Tail(lane) /\ job' = j
        /\ UNCHANGED <<pool, zkapp, delivered>>
    BY <1>1 DEF StartJob, poolVars
  <2>2. "request" \in DOMAIN j /\ j["request"] = Head(lane)
    OBVIOUS
  <2> HIDE DEF j
  <2>3. /\ lane' \in Seq(Range(lane')) /\ \A x \in Range(lane') : SoundRequest(x)
        /\ SoundRequest(Head(lane))
    BY <2>1, TailInRange DEF RInv, Asked
  <2>4. SoundJob(job')
    BY <2>1, <2>2, <2>3 DEF SoundJob
  <2>5. Asked'
    BY <2>3, <2>4, SameDeployment DEF Asked
  <2> QED
    BY <2>1, <2>5, Frame
<1>2. CASE RotateRoot
  <2> DEFINE tx == setSigningPolicyRoot(r, job.read.signingPolicyRoot, q.policy)
             b == zkapp[r].signingPolicyRoot = job.read.signingPolicyRoot
             j == [job EXCEPT !.stage = "rotated"]
  <2>1. job # Null /\ ((Send(b, tx) /\ job' = j /\ lane' = lane) \/ SendFails(b))
    BY <1>2 DEF RotateRoot, At
  <2>2. Sound(tx)
    BY <1>0, <2>1, RotationSound
  <2>3. "request" \in DOMAIN j /\ j["request"] = job["request"]
    BY <1>0, <2>1
  <2> HIDE DEF tx, b, j
  <2> QED
    BY <2>1, <2>2, <2>3, SendKeeps, FailKeeps, JobMoves DEF SendFails
<1>3. CASE handlePublish \/ handlePublishLock
  <2> DEFINE tx == PublishHead(r, q.policy, zkapp[r].accepted, q.head)
             b == predictState(r, "signingPolicyRoot", job.read.signingPolicyRoot, q.policy)
  <2>1. /\ job # Null /\ q.kind = "publish"
        /\ (Send(b, tx) /\ job' = Null /\ lane' = lane) \/ SendFails(b)
    BY <1>3 DEF handlePublish, handlePublishLock, Publication, At, Answered
  <2>2. Sound(tx)
    BY <1>0, <2>1, PublicationSound DEF SoundRequest
  <2> HIDE DEF tx, b
  <2> QED
    BY <2>1, <2>2, SendKeeps, FailKeeps, JobMoves DEF SendFails
<1>4. CASE handleRelease
  <2> DEFINE from == CursorFor(r)
             to == Chain[Claimed].recipient
             funds == to \notin fundedThisWave /\ to \notin job.funds
             tx == releaseWithdrawal(r, from, zkapp[r].accepted, Claimed, funds)
             b == predictState(r, "cursor", job.read.cursor, from) /\ SegmentFits(from)
  <2>1. /\ job # Null /\ q.kind = "release"
        /\ \/ Fail(issuedNonce)
           \/ HasClaim /\ Send(b, tx) /\ job' = Null /\ lane' = lane
           \/ SendFails(b)
    BY <1>4 DEF handleRelease, At, Answered
  <2>2. ASSUME HasClaim, Send(b, tx) PROVE Sound(tx)
    <3>1. q.range.start = from
      BY <2>2 DEF Send, SegmentFits
    <3>2. q.range \in Ranges /\ OwnIn(r, q.range) # {}
      BY <1>0, <2>1, <2>2 DEF SoundRequest, HasClaim
    <3>3. Claimed = Min(OwnIn(r, q.range))
      BY DEF Claimed
    <3>4. /\ Claimed \in Positions /\ from < Claimed /\ from \in HeadsSeen
          /\ \A p \in RowsOf(r) : from < p /\ p <= Claimed => p = Claimed
      BY <3>1, <3>2, <3>3, ClaimIsFirst DEF RInv, Base
    <3> QED
      BY <1>0, <2>1, <3>4, ReleaseSound DEF RInv, Base
  <2> HIDE DEF tx, b
  <2> QED
    BY <2>1, <2>2, SendKeeps, FailKeeps, JobMoves DEF SendFails
<1>5. CASE RecoverMint
  <2> DEFINE funds == Armed.recipient \notin accounts[r]
             tx == MintToken(r, Armed, funds)
             b == zkapp[r].mintAuthorization = Armed
             j == [job EXCEPT !.stage = "settling"]
  <2>1. /\ job # Null
        /\ Fail(issuedNonce) \/ (Send(b, tx) /\ job' = j /\ lane' = lane) \/ SendFails(b)
    BY <1>5 DEF RecoverMint, At
  <2>2. Sound(tx)
    BY <1>0, <2>1, MintSound
  <2>3. "request" \in DOMAIN j /\ j["request"] = job["request"]
    BY <1>0, <2>1
  <2> HIDE DEF tx, b, j
  <2> QED
    BY <2>1, <2>2, <2>3, SendKeeps, FailKeeps, JobMoves DEF SendFails
<1>6. CASE settle
  <2>1. job' = Null /\ lane' = lane /\ UNCHANGED <<pool, zkapp, delivered>>
    BY <1>6 DEF settle, Answered, poolVars
  <2> QED
    BY <2>1, Frame, JobMoves
<1>7. CASE NoLockToMint
  BY <1>7, FailKeeps DEF NoLockToMint
<1>8. CASE ArmMint
  <2> DEFINE from == CursorFor(r)
             tx == authorizeMint(r, from, zkapp[r].accepted, Claimed)
             b == /\ predictState(r, "cursor", job.read.cursor, from)
                  /\ SegmentFits(from)
                  /\ zkapp[r].mintAuthorization = NO_MINT_AUTHORIZED
             j == [job EXCEPT !.stage = "armed", !.funds = accounts[r]]
  <2>1. /\ job # Null /\ q.kind = "mint" /\ HasClaim
        /\ (Send(b, tx) /\ job' = j /\ lane' = lane) \/ SendFails(b)
    BY <1>8 DEF ArmMint, At
  <2>2. ASSUME Send(b, tx) PROVE Sound(tx)
    <3>1. q.range.start = from
      BY <2>2 DEF Send, SegmentFits
    <3>2. q.range \in Ranges /\ OwnIn(r, q.range) # {} /\ r # Escrow
      BY <1>0, <2>1 DEF SoundRequest, HasClaim
    <3>3. Claimed = Min(OwnIn(r, q.range))
      BY DEF Claimed
    <3>4. Claimed \in Positions /\ from < Claimed /\ from \in HeadsSeen
      BY <3>1, <3>2, <3>3, ClaimIsFirst DEF RInv, Base
    <3> QED
      BY <1>0, <2>1, <3>2, <3>4, ArmingSound DEF RInv, Base
  <2>3. "request" \in DOMAIN j /\ j["request"] = job["request"]
    BY <1>0, <2>1
  <2> HIDE DEF tx, b, j
  <2> QED
    BY <2>1, <2>2, <2>3, SendKeeps, FailKeeps, JobMoves DEF SendFails
<1>9. CASE handleMint
  <2> DEFINE claim == mintCommitment(Claimed)
             funds == claim.recipient \notin job.funds
             tx == MintToken(r, claim, funds)
  <2>1. /\ job # Null
        /\ \E b : (Send(b, tx) /\ job' = Null /\ lane' = lane) \/ SendFails(b)
    BY <1>9 DEF handleMint, At, Answered
  <2>2. Sound(tx)
    BY <1>0, <2>1, MintSound
  <2> HIDE DEF tx
  <2> QED
    BY <2>1, <2>2, SendKeeps, FailKeeps, JobMoves DEF SendFails
<1> QED
  BY <1>1, <1>2, <1>3, <1>4, <1>5, <1>6, <1>7, <1>8, <1>9 DEF WorkerStep

----------------------------------------------------------------------------
(* The loops: a row is settled on a reading of the cursor.                 *)

\* Settling what the cursor has passed keeps a table true.
LEMMA SettledTells ==
  ASSUME RInv, NEW r \in Consumers, NEW table, TellsTheTruth(table), NEW ps,
         \A p \in ps : p \in RowsOf(r) /\ p <= zkapp[r].cursor
  PROVE  DOMAIN Settled(ps, table) = Positions /\ TellsTheTruth(Settled(ps, table))
<1>1. \A p \in ps : Chain[p].token = r
  BY DEF RowsOf
<1> QED
  BY <1>1 DEF Settled, TellsTheTruth

\* Promotion settles nothing.
LEMMA PromotedTells ==
  ASSUME RInv, NEW r, NEW accepted, NEW table, TellsTheTruth(table)
  PROVE  /\ DOMAIN Promoted(r, accepted, table) = Positions
         /\ TellsTheTruth(Promoted(r, accepted, table))
  BY DEF Promoted, TellsTheTruth

\* A sound request joins the lane.
LEMMA SubmitAsks ==
  ASSUME RInv, deployment' = deployment, NEW q, SoundRequest(q), submit(q), UNCHANGED job
  PROVE  Asked'
<1>1. lane' = Append(lane, q)
  BY DEF submit
<1> QED
  BY <1>1, AppendInRange, SameDeployment DEF RInv, Asked

\* A row of a table that tells the truth may be sent again.
LEMMA SendingTells ==
  ASSUME NEW table, DOMAIN table = Positions, TellsTheTruth(table), NEW p
  PROVE  /\ DOMAIN [table EXCEPT ![p] = "sending"] = Positions
         /\ TellsTheTruth([table EXCEPT ![p] = "sending"])
  BY DEF TellsTheTruth

\* The loops after one of them has moved to a sound wave.
LEMMA WavingAfter ==
  ASSUME RInv, deployment' = deployment, NEW r \in Consumers, NEW wave, SoundWave(r, wave),
         wave.pc = "wait" => wave.todo # {}, loop' = [loop EXCEPT ![r] = wave]
  PROVE  Waving'
<1>1. /\ DOMAIN loop' = Consumers /\ loop'[r] = wave
      /\ \A q \in Consumers : q # r => loop'[q] = loop[q]
  BY DEF RInv, Waving
<1>2. /\ Consumers' = Consumers /\ \A q, w : SoundWave(q, w)' <=> SoundWave(q, w)
  BY SameDeployment
<1> QED
  BY <1>1, <1>2 DEF RInv, Waving

\* A loop at rest is sound.
LEMMA IdleSound ==
  ASSUME RInv, NEW r
  PROVE  SoundWave(r, Idle) /\ Idle.pc # "wait"
<1>1. 0 \in HeadsSeen
  BY ChainTyped DEF RInv, Base, HeadsSeen
<1> QED
  BY <1>1 DEF SoundWave, Idle, Waves, Ranges, Range_

\* A wave that stops is confirmed over what it has sent.
LEMMA StoppedSound ==
  ASSUME RInv, NEW r, NEW wave, SoundWave(r, wave)
  PROVE  SoundWave(r, Stopped(wave)) /\ Stopped(wave).pc # "wait"
<1>1. 0 \in HeadsSeen
  BY ChainTyped DEF RInv, Base, HeadsSeen
<1>2. Idle \in Waves /\ Idle.todo = {}
  BY <1>1 DEF Idle, Waves, Ranges, Range_
<1>3. wave.sent \in SUBSET Positions /\ wave.sent \subseteq RowsOf(r)
  BY DEF SoundWave, Waves
<1> DEFINE pc == IF wave.sent = {} THEN "idle" ELSE "confirm"
<1>4. pc \in {"idle", "confirm"} /\ Stopped(wave) = [Idle EXCEPT !.pc = pc, !.sent = wave.sent]
  BY DEF Stopped
<1> HIDE DEF pc
<1>5. /\ Stopped(wave) \in Waves /\ Stopped(wave).pc = pc
      /\ Stopped(wave).todo = {} /\ Stopped(wave).sent = wave.sent
  BY <1>2, <1>3, <1>4 DEF Waves
<1> QED
  BY <1>3, <1>4, <1>5 DEF SoundWave

\* A wave asks for its own range.
LEMMA RequestSound ==
  ASSUME RInv, NEW r \in Consumers, NEW wave, SoundWave(r, wave)
  PROVE  SoundRequest(RequestOf(r, wave))
<1>1. wave.range \in Ranges
  BY DEF SoundWave, Waves
<1> QED
  BY <1>1 DEF RequestOf, ReleaseRequest, MintRequest, SoundRequest

\* Going on with a wave, or stopping, on a true table.
LEMMA ContinueKeeps ==
  ASSUME RInv, deployment' = deployment, UNCHANGED <<zkapp, job>>, NEW r \in Consumers,
         NEW wave, SoundWave(r, wave),
         NEW table, DOMAIN table = Positions, TellsTheTruth(table), Continue(r, wave, table)
  PROVE  Waving' /\ Asked' /\ DOMAIN rows' = Positions /\ TellsTheTruth(rows')
<1>1. CASE wave.todo = {} \/ (OwnIn(r, wave.range) = {} /\ ~wave.armed)
  <2>1. loop' = [loop EXCEPT ![r] = Stopped(wave)] /\ rows' = table /\ UNCHANGED lane
    BY <1>1 DEF Continue
  <2> QED
    BY <2>1, StoppedSound, WavingAfter, Frame
<1>2. CASE ~(wave.todo = {} \/ (OwnIn(r, wave.range) = {} /\ ~wave.armed))
  <2>1. /\ wave.todo # {} /\ loop' = [loop EXCEPT ![r] = wave]
        /\ rows' = [table EXCEPT ![Min(wave.todo)] = "sending"]
        /\ submit(RequestOf(r, wave))
    BY <1>2 DEF Continue
  <2>2. Waving'
    BY <2>1, WavingAfter
  <2>3. Asked'
    BY <2>1, RequestSound, SubmitAsks
  <2> QED
    BY <2>1, <2>2, <2>3, SendingTells
<1> QED
  BY <1>1, <1>2

\* A wave that is opened: rows that wait, and a range that was read.
LEMMA WaveSound ==
  ASSUME RInv, NEW r \in Consumers, NEW todo, todo \subseteq RowsOf(r), NEW range,
         range = transferRange(zkapp[r].cursor, zkapp[r].accepted), range # Null,
         NEW armed \in BOOLEAN, NEW candidates, candidates \subseteq RowsOf(r)
  PROVE  SoundWave(r, Wave(todo, range, armed, candidates))
<1>1. range = Range_(zkapp[r].cursor, zkapp[r].accepted)
  BY DEF transferRange
<1>2. range \in Ranges
  BY <1>1 DEF RInv, Slotted, Ranges, Range_
<1>3. RowsOf(r) \subseteq Positions
  BY DEF RowsOf
<1> QED
  BY <1>2, <1>3 DEF SoundWave, Waves, Wave

\* The range that follows one that was sent starts at the record it claimed.
LEMMA SentOneSound ==
  ASSUME RInv, NEW r \in Consumers, loop[r].pc = "wait"
  PROVE  SoundWave(r, SentOne(r, loop[r]))
<1> DEFINE w == loop[r]
           own == OwnIn(r, w.range)
           row == Min(w.todo)
           start == IF own = {} THEN w.range.start ELSE Min(own)
<1>1. /\ w \in Waves /\ w.todo \subseteq RowsOf(r) /\ w.sent \subseteq RowsOf(r)
      /\ w.todo # {} /\ RowsOf(r) \subseteq Positions /\ Positions \subseteq Nat
      /\ Positions \subseteq HeadsSeen
  BY ChainTyped DEF RInv, Base, Waving, SoundWave, RowsOf
<1>2. row \in w.todo
  BY <1>1, MinIn
<1>3. w.range \in Ranges
  BY <1>1 DEF Waves
<1>4. start \in HeadsSeen
  BY <1>1, <1>3, ClaimIsFirst DEF RInv, Base, Ranges
<1> DEFINE range == [w.range EXCEPT !.start = start]
           todo == w.todo \ {row}
           sent == w.sent \union {row}
<1>5. range \in Ranges
  BY <1>3, <1>4 DEF Ranges
<1>6. SentOne(r, w) = [w EXCEPT !.todo = todo, !.sent = sent, !.range = range]
  BY DEF SentOne
<1>7. /\ todo \in SUBSET Positions /\ todo \subseteq RowsOf(r)
      /\ sent \in SUBSET Positions /\ sent \subseteq RowsOf(r)
  BY <1>1, <1>2
<1> HIDE DEF range, todo, sent
<1>8. /\ SentOne(r, w) \in Waves
      /\ SentOne(r, w).todo = todo /\ SentOne(r, w).sent = sent
  BY <1>1, <1>5, <1>6, <1>7 DEF Waves
<1> QED
  BY <1>7, <1>8 DEF SoundWave

\* What a loop leaves alone.
LEMMA LoopFrame ==
  ASSUME RInv, UNCHANGED <<deployment, flareLen, zkapp, pool, delivered, job, pub>>,
         Waving', Asked', DOMAIN rows' = Positions, TellsTheTruth(rows')
  PROVE  RInv'
<1>1. Base' /\ Slotted' /\ Pooled' /\ Publishing' /\ Paid'
  BY Frame DEF RInv, Base
<1>2. Told'
  BY SameDeployment DEF Told, TellsTheTruth
<1> QED
  BY <1>1, <1>2 DEF RInv

\* Rows at or below what a loop reads as the index of the cursor.
LEMMA IndexIsCursor ==
  ASSUME NEW cursor, NEW p, transferIndexOf(cursor) # Null, p <= transferIndexOf(cursor)
  PROVE  p <= cursor
  BY DEF transferIndexOf

\* One case for each step of a loop.
LEMMA LoopKeeps ==
  ASSUME RInv, NEW r \in Consumers, LoopStep(r)
  PROVE  RInv'
<1>0. SoundWave(r, loop[r]) /\ DOMAIN rows = Positions /\ TellsTheTruth(rows)
  BY DEF RInv, Waving, Base, Told
<1>1. CASE r = Escrow /\ refreshCoverage
  <2> DEFINE w == [loop[r] EXCEPT !.pc = "refreshed"]
  <2>1. /\ UNCHANGED <<deployment, flareLen, zkapp, pool, delivered, lane, job, pub>>
        /\ rows' = Promoted(r, zkapp[r].accepted, rows) /\ loop' = [loop EXCEPT ![r] = w]
    BY <1>1 DEF refreshCoverage, escrowState, poolVars, workerVars, jobVars
  <2>2. SoundWave(r, w) /\ w.pc = "refreshed"
    BY <1>0 DEF SoundWave, Waves
  <2> HIDE DEF w
  <2>3. Waving' /\ Asked'
    BY <2>1, <2>2, WavingAfter, Frame
  <2> QED
    BY <1>0, <2>1, <2>3, PromotedTells, LoopFrame
<1>2. CASE r = Escrow /\ release
  <2> DEFINE pending == Waiting(r, rows)
             index == transferIndexOf(zkapp[r].cursor)
             past == {p \in pending : index # Null /\ p <= index}
             range == transferRange(zkapp[r].cursor, zkapp[r].accepted)
             wave == Wave(Oldest(WAVE, pending) \ past, range, FALSE, {})
  <2>1. /\ UNCHANGED <<deployment, flareLen, zkapp, pool, delivered, job, pub>>
        /\ \/ rows' = Settled(past, rows) /\ loop' = [loop EXCEPT ![r] = Idle] /\ UNCHANGED lane
           \/ range # Null /\ Continue(r, wave, Settled(past, rows))
    BY <1>2 DEF release, escrowState, poolVars, jobVars
  <2>2. \A p \in past : p \in RowsOf(r) /\ p <= zkapp[r].cursor
    BY IndexIsCursor DEF Waiting
  <2>3. Oldest(WAVE, pending) \ past \subseteq RowsOf(r)
    BY DEF Oldest, Waiting
  <2>4. range # Null => SoundWave(r, wave)
    BY <2>3, WaveSound
  <2> HIDE DEF past, range, wave
  <2>5. DOMAIN Settled(past, rows) = Positions /\ TellsTheTruth(Settled(past, rows))
    BY <1>0, <2>2, SettledTells
  <2>6. Waving' /\ Asked' /\ DOMAIN rows' = Positions /\ TellsTheTruth(rows')
    BY <2>1, <2>4, <2>5, ContinueKeeps, IdleSound, WavingAfter, Frame
  <2> QED
    BY <2>1, <2>6, LoopFrame
<1>3. CASE mintAsset(r)
  <2> DEFINE state == zkapp[r]
             promoted == Promoted(r, state.accepted, rows)
             queue == Waiting(r, promoted)
             index == transferIndexOf(state.cursor)
             armed == state.mintAuthorization # NO_MINT_AUTHORIZED
             past == {p \in Oldest(WAVE, queue) : /\ index # Null /\ p <= index
                                                  /\ ~(armed /\ p = index)}
             range == transferRange(state.cursor, state.accepted)
             wave == Wave(Oldest(WAVE, queue) \ past, range, armed, armedCandidates(r, index))
  <2>1. /\ UNCHANGED <<deployment, flareLen, zkapp, pool, delivered, job, pub>>
        /\ \/ rows' = promoted /\ UNCHANGED <<loop, lane>>
           \/ range # Null /\ Continue(r, wave, Settled(past, promoted))
    BY <1>3 DEF mintAsset, portState, poolVars, jobVars
  <2>2. \A p \in past : p \in RowsOf(r) /\ p <= state.cursor
    BY IndexIsCursor DEF Oldest, Waiting
  <2>3. Oldest(WAVE, queue) \ past \subseteq RowsOf(r)
    BY DEF Oldest, Waiting
  <2>4. range # Null => SoundWave(r, wave)
    <3>1. armedCandidates(r, index) \subseteq RowsOf(r) /\ armed \in BOOLEAN
      BY DEF armedCandidates
    <3> QED
      BY <2>3, <3>1, WaveSound
  <2>5. DOMAIN promoted = Positions /\ TellsTheTruth(promoted)
    BY <1>0, PromotedTells
  <2> HIDE DEF promoted, past, range, wave
  <2>6. DOMAIN Settled(past, promoted) = Positions /\ TellsTheTruth(Settled(past, promoted))
    BY <2>2, <2>5, SettledTells
  <2>7. Waving' /\ Asked' /\ DOMAIN rows' = Positions /\ TellsTheTruth(rows')
    BY <2>1, <2>4, <2>5, <2>6, ContinueKeeps, Frame
  <2> QED
    BY <2>1, <2>7, LoopFrame
<1>4. CASE TakeAnswer(r)
  <2> DEFINE wave == SentOne(r, loop[r])
  <2>1. /\ UNCHANGED <<deployment, flareLen, zkapp, pool, delivered, job, pub>>
        /\ loop[r].pc = "wait"
        /\ \/ Continue(r, wave, rows)
           \/ loop' = [loop EXCEPT ![r] = Stopped(loop[r])] /\ UNCHANGED <<rows, lane>>
    BY <1>4 DEF TakeAnswer, poolVars, jobVars
  <2>2. SoundWave(r, wave)
    BY <2>1, SentOneSound
  <2> HIDE DEF wave
  <2>3. Waving' /\ Asked' /\ DOMAIN rows' = Positions /\ TellsTheTruth(rows')
    BY <1>0, <2>1, <2>2, ContinueKeeps, StoppedSound, WavingAfter, Frame
  <2> QED
    BY <2>1, <2>3, LoopFrame
<1>5. CASE confirm(r)
  <2> DEFINE passed == Passed(r, loop[r].sent)
             left == loop[r].sent \ passed
             w == IF left = {} THEN Idle ELSE [loop[r] EXCEPT !.sent = left]
  <2>1. /\ UNCHANGED <<deployment, flareLen, zkapp, pool, delivered, lane, job, pub>>
        /\ loop[r].pc = "confirm"
        /\ rows' = Settled(passed, rows) /\ loop' = [loop EXCEPT ![r] = w]
    BY <1>5 DEF confirm, poolVars, workerVars, jobVars
  <2>2. \A p \in passed : p \in RowsOf(r) /\ p <= zkapp[r].cursor
    BY <1>0, IndexIsCursor DEF Passed, processedBy, escrowState, portState, SoundWave
  <2>3. SoundWave(r, w) /\ w.pc # "wait"
    <3>1. /\ left \in SUBSET Positions /\ left \subseteq RowsOf(r)
      BY <1>0 DEF SoundWave, Waves
    <3> HIDE DEF left
    <3>2. SoundWave(r, [loop[r] EXCEPT !.sent = left]) /\ [loop[r] EXCEPT !.sent = left].pc # "wait"
      BY <1>0, <2>1, <3>1 DEF SoundWave, Waves
    <3> QED
      BY <3>2, IdleSound
  <2> HIDE DEF passed, w
  <2>4. DOMAIN rows' = Positions /\ TellsTheTruth(rows')
    BY <1>0, <2>1, <2>2, SettledTells
  <2>5. Waving' /\ Asked'
    BY <2>1, <2>3, WavingAfter, Frame
  <2> QED
    BY <2>1, <2>4, <2>5, LoopFrame
<1>6. CASE GiveUp(r)
  <2>1. /\ UNCHANGED <<deployment, flareLen, rows, zkapp, pool, delivered, lane, job, pub>>
        /\ loop' = [loop EXCEPT ![r] = Idle]
    BY <1>6 DEF GiveUp, ledgerVars, poolVars, workerVars, jobVars
  <2>2. Waving' /\ Asked'
    BY <2>1, IdleSound, WavingAfter, Frame
  <2> QED
    BY <1>0, <2>1, <2>2, LoopFrame
<1> QED
  BY <1>1, <1>2, <1>3, <1>4, <1>5, <1>6 DEF LoopStep, EscrowTick

----------------------------------------------------------------------------
(* The ledger, the publisher, what goes wrong, and the theorems.           *)

\* Flare's chain grows, and the watcher only adds rows that are not settled.
LEMMA LedgerKeeps ==
  ASSUME RInv, RecordTransfer \/ watch, UNCHANGED <<poolVars, workerVars, loopVars>>
  PROVE  RInv'
<1>0. /\ deployment' = deployment
      /\ UNCHANGED <<zkapp, pool, delivered, lane, job, loop, pub>>
      /\ RecordTransfer \/ UNCHANGED flareLen
      /\ \/ UNCHANGED rows
         \/ rows' = [rows EXCEPT ![Scanned] = IF rows[Scanned] = "none" THEN "seen" ELSE rows[Scanned]]
  BY DEF RecordTransfer, watch, recordTransfer, recordWithdrawal, recordLock, InsertRow,
         poolVars, workerVars, jobVars, loopVars
<1>1. Len(Chain) \in Nat
  BY ChainTyped DEF RInv, Base
<1>2. flareLen' \in HeadsSeen
  BY <1>0, <1>1 DEF RecordTransfer, RInv, Base, HeadsSeen
<1>3. DOMAIN rows' = Positions /\ \A p \in Positions : rows'[p] = "settled" => rows[p] = "settled"
  BY <1>0 DEF RInv, Base
<1>4. Told'
  BY <1>0, <1>3, SameDeployment DEF RInv, Told, TellsTheTruth
<1>5. Base' /\ Slotted' /\ Pooled' /\ Asked' /\ Waving' /\ Publishing' /\ Paid'
  BY <1>0, <1>2, <1>3, Frame
<1> QED
  BY <1>4, <1>5 DEF RInv

\* The next consumer of a head is one that is behind it.
LEMMA WaitingFor ==
  ASSUME NEW behind, behind # {}, Escrow \in behind \/ Escrow \notin behind
  PROVE  NextConsumer(behind) \in behind
BY DEF NextConsumer

\* The head goes on to a consumer that is there.
LEMMA PublishToKeeps ==
  ASSUME RInv, deployment' = deployment, UNCHANGED job,
         NEW state, state.head \in HeadsSeen, state.behind \subseteq Consumers,
         DOMAIN state = {"pc", "head", "policy", "behind"}, NEW marks, PublishTo(state, marks)
  PROVE  Publishing' /\ Asked'
<1>0. HeadsSeen' = HeadsSeen /\ Consumers' = Consumers /\ 0 \in HeadsSeen
  BY SameDeployment, ChainTyped DEF RInv, Base, HeadsSeen
<1>1. CASE state.behind = {}
  <2>1. pub' = PublisherIdle /\ UNCHANGED lane
    BY <1>1 DEF PublishTo
  <2>2. Publishing'
    BY <1>0, <2>1 DEF Publishing, PublisherIdle
  <2> QED
    BY <2>1, <2>2, Frame
<1>2. CASE state.behind # {}
  <2> DEFINE q == PublishRequest(NextConsumer(state.behind), state.head, state.policy)
  <2>1. pub' = [state EXCEPT !.pc = "wait"] /\ submit(q)
    BY <1>2 DEF PublishTo
  <2>2. Publishing'
    BY <1>0, <2>1 DEF Publishing
  <2>3. SoundRequest(q)
    BY <1>2, WaitingFor DEF SoundRequest, PublishRequest
  <2> HIDE DEF q
  <2> QED
    BY <2>1, <2>2, <2>3, SubmitAsks
<1> QED
  BY <1>1, <1>2

\* The publisher asks only for heads it has read.
LEMMA PublisherKeeps ==
  ASSUME RInv, PublisherStep
  PROVE  RInv'
<1>0. /\ deployment' = deployment
      /\ UNCHANGED <<flareLen, rows, zkapp, pool, delivered, job, loop>>
  BY DEF PublisherStep, publish, attestationFor, PublicationAnswered, ledgerVars, poolVars,
         workerVars, jobVars
<1>1. /\ HeadsSeen' = HeadsSeen /\ Consumers' = Consumers
      /\ pub.head \in HeadsSeen /\ pub.behind \subseteq Consumers
      /\ DOMAIN pub = {"pc", "head", "policy", "behind"}
  BY <1>0, SameDeployment DEF RInv, Publishing
<1>2. Publishing' /\ Asked'
  <2>1. CASE publish
    <3>1. PICK behind : /\ behind \subseteq Consumers
                        /\ pub' = [PublisherIdle EXCEPT !.pc = "attest", !.head = flareLen,
                                                        !.behind = behind]
      BY <2>1 DEF publish
    <3>2. pub' = [pc |-> "attest", head |-> flareLen, policy |-> NoPolicy, behind |-> behind]
      BY <3>1 DEF PublisherIdle
    <3>3. Publishing'
      BY <1>1, <3>1, <3>2 DEF Publishing, RInv, Base
    <3>4. UNCHANGED lane
      BY <2>1 DEF publish, workerVars
    <3> QED
      BY <1>0, <3>3, <3>4, Frame
  <2>2. CASE attestationFor
    <3> DEFINE state == [pub EXCEPT !.policy = policy]
    <3>1. PublishTo(state, inFlight)
      BY <2>2 DEF attestationFor
    <3>2. /\ state.head = pub.head /\ state.behind = pub.behind
          /\ DOMAIN state = {"pc", "head", "policy", "behind"}
      BY <1>1
    <3> HIDE DEF state
    <3> QED
      BY <1>0, <1>1, <3>1, <3>2, PublishToKeeps
  <2>3. CASE PublicationAnswered
    <3> DEFINE state == [pub EXCEPT !.behind = @ \ {NextConsumer(pub.behind)}]
    <3>1. \E marks : PublishTo(state, marks)
      BY <2>3 DEF PublicationAnswered
    <3>2. /\ state.head = pub.head /\ state.behind \subseteq pub.behind
          /\ DOMAIN state = {"pc", "head", "policy", "behind"}
      BY <1>1
    <3> HIDE DEF state
    <3> QED
      BY <1>0, <1>1, <3>1, <3>2, PublishToKeeps
  <2> QED
    BY <2>1, <2>2, <2>3 DEF PublisherStep
<1>3. Base' /\ Slotted' /\ Pooled' /\ Waving' /\ Told' /\ Paid'
  BY <1>0, Frame DEF RInv, Base
<1> QED
  BY <1>2, <1>3 DEF RInv

\* A restart forgets requests and waves, neither rows nor the pool.
LEMMA CrashKeeps ==
  ASSUME RInv, Crash
  PROVE  RInv'
<1>0. /\ deployment' = deployment /\ UNCHANGED <<flareLen, rows, zkapp, pool, delivered>>
      /\ lane' = << >> /\ job' = Null
      /\ loop' = [r \in Consumers |-> Idle] /\ pub' = PublisherIdle
  BY DEF Crash, WorkerRestarts, poolVars
<1>1. Consumers' = Consumers /\ HeadsSeen' = HeadsSeen /\ 0 \in HeadsSeen
  BY <1>0, SameDeployment, ChainTyped DEF RInv, Base, HeadsSeen
<1>2. Asked'
  BY <1>0 DEF Asked, SoundJob, Range
<1>3. Waving'
  BY <1>0, <1>1, IdleSound, SameDeployment DEF Waving
<1>4. Publishing'
  BY <1>0, <1>1 DEF Publishing, PublisherIdle
<1>5. Base' /\ Slotted' /\ Pooled' /\ Told' /\ Paid'
  BY <1>0, Frame DEF RInv, Base
<1> QED
  BY <1>2, <1>3, <1>4, <1>5 DEF RInv

\* Steps of the worker and of Mina leave rows and loops alone.
LEMMA MinaFrame ==
  ASSUME RInv, UNCHANGED <<deployment, flareLen, rows, loop, pub>>,
         Slotted', Pooled', CursorsGrow, Asked', Paid'
  PROVE  RInv'
<1>1. Base' /\ Waving' /\ Publishing' /\ Told'
  BY Frame DEF RInv, Base
<1> QED
  BY <1>1 DEF RInv

\* One case for each thing that goes wrong.
LEMMA FaultKeeps ==
  ASSUME RInv, Fault
  PROVE  RInv'
<1>1. CASE Crash
  BY <1>1, CrashKeeps
<1>2. CASE NotAttested
  <2>1. /\ UNCHANGED <<deployment, flareLen, rows, zkapp, pool, delivered, lane, job, loop>>
        /\ pub' = PublisherIdle
    BY <1>2 DEF NotAttested, ledgerVars, poolVars, workerVars, jobVars
  <2>2. Publishing'
    BY <2>1, SameDeployment, ChainTyped DEF RInv, Base, HeadsSeen, Publishing, PublisherIdle
  <2> QED
    BY <2>1, <2>2, Frame DEF RInv, Base
<1>3. CASE Drop /\ UNCHANGED <<ledgerVars, workerVars, loopVars, policy>>
  <2>1. /\ UNCHANGED <<deployment, flareLen, rows, zkapp, delivered, lane, job, loop, pub>>
        /\ \E n \in 0 .. Len(pool) - 1 : pool' = SubSeq(pool, 1, n)
    BY <1>3 DEF Drop, ledgerVars, workerVars, jobVars, loopVars
  <2>2. PICK n \in 0 .. Len(pool) : pool' = SubSeq(pool, 1, n)
    BY <2>1 DEF RInv, Pooled
  <2>3. Pooled'
    BY <2>1, <2>2, PrefixInRange, SameDeployment DEF RInv, Pooled
  <2> QED
    BY <2>1, <2>3, Frame, MinaFrame
<1>4. CASE (ReadFails \/ (pool # << >> /\ settle)) /\ UNCHANGED <<ledgerVars, loopVars, policy>>
  <2>1. UNCHANGED <<deployment, flareLen, rows, loop, pub>>
    BY <1>4 DEF ledgerVars, loopVars
  <2>2. Pooled' /\ Asked' /\ UNCHANGED <<zkapp, delivered>>
    <3>1. CASE ReadFails
      BY <2>1, <3>1, FailKeeps DEF ReadFails
    <3>2. CASE settle
      <4>1. job' = Null /\ lane' = lane /\ UNCHANGED <<pool, zkapp, delivered>>
        BY <3>2 DEF settle, Answered, poolVars
      <4> QED
        BY <2>1, <4>1, Frame, JobMoves
    <3> QED
      BY <1>4, <3>1, <3>2
  <2> QED
    BY <2>1, <2>2, Frame, MinaFrame
<1>5. ASSUME NEW r \in Consumers, StrayPublication(r),
             UNCHANGED <<ledgerVars, workerVars, loopVars, policy>>
      PROVE  RInv'
  <2>1. UNCHANGED <<deployment, flareLen, rows, pool, lane, job, loop, pub>>
    BY <1>5 DEF StrayPublication, ledgerVars, workerVars, jobVars, loopVars
  <2>2. Slotted' /\ CursorsGrow /\ Paid'
    BY <1>5, <2>1, StrayKeeps
  <2> QED
    BY <2>1, <2>2, Frame, MinaFrame
<1>6. ASSUME NEW r \in Consumers, GiveUp(r)
      PROVE  RInv'
  <2>1. /\ UNCHANGED <<deployment, flareLen, rows, zkapp, pool, delivered, lane, job, pub>>
        /\ loop' = [loop EXCEPT ![r] = Idle]
    BY <1>6 DEF GiveUp, ledgerVars, poolVars, workerVars, jobVars
  <2>2. Waving' /\ Asked'
    BY <2>1, IdleSound, WavingAfter, Frame
  <2>3. TellsTheTruth(rows') /\ DOMAIN rows' = Positions
    BY <2>1 DEF RInv, Told, Base
  <2> QED
    BY <2>1, <2>2, <2>3, LoopFrame
<1>7. ASSUME NEW r \in Consumers, Expire(r)
      PROVE  RInv'
  <2>1. UNCHANGED <<deployment, flareLen, rows, zkapp, pool, delivered, lane, job, loop, pub>>
    BY <1>7 DEF Expire, ledgerVars, poolVars, workerVars, jobVars
  <2> QED
    BY <2>1, Frame, MinaFrame
<1> QED
  BY <1>1, <1>2, <1>3, <1>4, <1>5, <1>6, <1>7 DEF Fault

\* At the start nothing is settled, asked for or sent.
LEMMA InitRInv == Init => RInv
<1> SUFFICES ASSUME Init PROVE RInv
  OBVIOUS
<1>1. deployment \in Deployments
  BY DEF Init, LedgerInit
<1>2. 0 \in HeadsSeen /\ HeadsSeen \subseteq Nat /\ Len(Chain) \in Nat
  BY <1>1, ChainTyped DEF HeadsSeen
<1>3. Base
  BY <1>1, <1>2 DEF Init, LedgerInit, Base
<1>4. Slotted /\ \A r \in Consumers : zkapp[r].cursor = 0
  BY <1>2 DEF Init, PoolInit, Slotted, Slots
<1>5. Pooled
  BY DEF Init, PoolInit, Pooled, Range
<1>6. Asked
  BY DEF Init, WorkerInit, Asked, SoundJob, Range
<1>7. Publishing
  BY <1>2 DEF Init, PublisherIdle, Publishing
<1>8. Told
  BY DEF Init, LedgerInit, Told, TellsTheTruth
<1>9. Paid
  BY <1>2, <1>4 DEF Paid, RowsOf, Positions
<1>10. Waving
  <2>1. Idle \in Waves /\ Idle.todo = {} /\ Idle.sent = {} /\ Idle.pc # "wait"
    BY <1>2 DEF Idle, Waves, Ranges, Range_
  <2>2. loop = [r \in Consumers |-> Idle]
    BY DEF Init
  <2> HIDE DEF Idle
  <2> QED
    BY <2>1, <2>2 DEF Waving, SoundWave
<1> QED
  BY <1>3, <1>4, <1>5, <1>6, <1>7, <1>8, <1>9, <1>10 DEF RInv

\* One case for each disjunct of Next.
LEMMA NextRInv == RInv /\ [Next]_vars => RInv'
<1> SUFFICES ASSUME RInv, [Next]_vars PROVE RInv'
  OBVIOUS
<1>1. CASE UNCHANGED vars
  <2>1. UNCHANGED <<deployment, flareLen, rows, zkapp, pool, delivered, lane, job, loop, pub>>
    BY <1>1 DEF vars, ledgerVars, poolVars, workerVars, jobVars, loopVars
  <2> QED
    BY <2>1, Frame, MinaFrame
<1>2. CASE Flare
  <2>1. CASE NewPolicy
    <3>1. UNCHANGED <<deployment, flareLen, rows, zkapp, pool, delivered, lane, job, loop, pub>>
      BY <2>1 DEF NewPolicy, ledgerVars, poolVars, workerVars, jobVars, loopVars
    <3> QED
      BY <3>1, Frame, MinaFrame
  <2> QED
    BY <1>2, <2>1, LedgerKeeps DEF Flare
<1>3. CASE Watch
  BY <1>3, LedgerKeeps DEF Watch
<1>4. CASE Work
  <2>1. UNCHANGED <<deployment, flareLen, rows, loop, pub>> /\ WorkerStep
    BY <1>4 DEF Work, ledgerVars, loopVars
  <2>2. Pooled' /\ Asked' /\ UNCHANGED <<zkapp, delivered>>
    BY <2>1, WorkerKeeps
  <2> QED
    BY <2>1, <2>2, Frame, MinaFrame
<1>5. CASE Block
  <2>1. /\ UNCHANGED <<deployment, flareLen, rows, loop, pub, lane>> /\ Apply
        /\ job' = IF job = Null THEN Null ELSE [job EXCEPT !.nonce = Nearer(@)]
    BY <1>5 DEF Block, Included, ledgerVars, loopVars
  <2>2. Slotted' /\ Pooled' /\ CursorsGrow /\ Paid'
    BY <2>1, ApplyKeeps
  <2>3. Asked'
    <3>1. job # Null => "request" \in DOMAIN job
      BY DEF RInv, Asked, SoundJob
    <3>2. \/ job' = Null
          \/ job # Null /\ "request" \in DOMAIN job' /\ job'["request"] = job["request"]
      BY <2>1, <3>1
    <3> QED
      BY <2>1, <3>2, JobMoves
  <2> QED
    BY <2>1, <2>2, <2>3, MinaFrame
<1>6. CASE Fault
  BY <1>6, FaultKeeps
<1>7. CASE PublisherStep
  BY <1>7, PublisherKeeps
<1>8. ASSUME NEW r \in Consumers, LoopStep(r) \/ ExpireInTime(r)
      PROVE  RInv'
  <2>1. CASE ExpireInTime(r)
    <3>1. UNCHANGED <<deployment, flareLen, rows, zkapp, pool, delivered, lane, job, loop, pub>>
      BY <2>1 DEF ExpireInTime, Expire, ledgerVars, poolVars, workerVars, jobVars
    <3> QED
      BY <3>1, Frame, MinaFrame
  <2> QED
    BY <1>8, <2>1, LoopKeeps
<1> QED
  BY <1>1, <1>2, <1>3, <1>4, <1>5, <1>6, <1>7, <1>8 DEF Next

\* Only what Mina applies and what others publish touches a zkApp.
LEMMA NextCursorsGrow == RInv /\ [Next]_vars => CursorsGrow
<1> SUFFICES ASSUME RInv, [Next]_vars PROVE CursorsGrow
  OBVIOUS
<1>1. CASE UNCHANGED <<deployment, zkapp>>
  BY <1>1, Frame
<1>2. CASE Block
  BY <1>2, ApplyKeeps DEF Block, Included, ledgerVars
<1>3. ASSUME NEW r \in Consumers, StrayPublication(r),
             UNCHANGED <<ledgerVars, workerVars, loopVars, policy>>
      PROVE  CursorsGrow
  <2>1. UNCHANGED <<deployment, flareLen, rows, pool, lane, job, loop, pub>>
    BY <1>3 DEF StrayPublication, ledgerVars, workerVars, jobVars, loopVars
  <2> QED
    BY <1>3, <2>1, StrayKeeps
<1>4. ASSUME Work PROVE UNCHANGED <<deployment, zkapp>>
  <2>1. UNCHANGED deployment /\ WorkerStep
    BY <1>4 DEF Work, ledgerVars
  <2> QED
    BY <2>1, WorkerKeeps
<1>5. ASSUME Fault
      PROVE  \/ UNCHANGED <<deployment, zkapp>>
             \/ \E r \in Consumers : /\ StrayPublication(r)
                                     /\ UNCHANGED <<ledgerVars, workerVars, loopVars, policy>>
  <2>1. CASE ReadFails /\ UNCHANGED <<ledgerVars, loopVars, policy>>
    BY <2>1, FailKeeps DEF ReadFails, ledgerVars
  <2>2. CASE settle /\ UNCHANGED <<ledgerVars, loopVars, policy>>
    BY <2>2 DEF settle, ledgerVars, poolVars
  <2>3. CASE Crash \/ NotAttested
    BY <2>3 DEF Crash, NotAttested, ledgerVars, poolVars
  <2>4. CASE Drop /\ UNCHANGED <<ledgerVars, workerVars, loopVars, policy>>
    BY <2>4 DEF Drop, ledgerVars
  <2>5. ASSUME NEW r \in Consumers, GiveUp(r) \/ Expire(r)
        PROVE  UNCHANGED <<deployment, zkapp>>
    BY <2>5 DEF GiveUp, Expire, ledgerVars, poolVars
  <2> QED
    BY <1>5, <2>1, <2>2, <2>3, <2>4, <2>5 DEF Fault
<1>6. ASSUME NEW r \in Consumers, LoopStep(r) \/ ExpireInTime(r)
      PROVE  UNCHANGED <<deployment, zkapp>>
  BY <1>6 DEF LoopStep, EscrowTick, refreshCoverage, release, mintAsset, TakeAnswer, confirm,
              GiveUp, ExpireInTime, Expire, ledgerVars, poolVars
<1>7. ASSUME Flare \/ Watch \/ PublisherStep
      PROVE  UNCHANGED <<deployment, zkapp>>
  BY <1>7 DEF Flare, RecordTransfer, NewPolicy, Watch, watch, recordTransfer, recordWithdrawal,
              recordLock, InsertRow, PublisherStep, publish, attestationFor, PublicationAnswered,
              ledgerVars, poolVars
<1>8. ASSUME UNCHANGED vars PROVE UNCHANGED <<deployment, zkapp>>
  BY <1>8 DEF vars, ledgerVars, poolVars
<1> QED
  BY <1>1, <1>2, <1>3, <1>4, <1>5, <1>6, <1>7, <1>8 DEF Next

----------------------------------------------------------------------------

\* A row is settled only for a record the zkApp's cursor has passed
\* (withdrawals.ts confirm, assets.ts confirmMints).
THEOREM SettledArePassed == Spec => []SettledRowsArePassed
<1>1. RInv => SettledRowsArePassed
  BY DEF RInv, Told, TellsTheTruth, SettledRowsArePassed
<1> QED
  BY InitRInv, NextRInv, <1>1, PTL DEF Spec

\* A withdrawal that is marked released was paid (db/index.ts
\* markWithdrawalReleased).
THEOREM ReleasedArePaid == Spec => []ReleasedWerePaid
<1>1. RInv => ReleasedWerePaid
  BY DEF RInv, Told, TellsTheTruth, Paid, RowsOf, ReleasedWerePaid
<1> QED
  BY InitRInv, NextRInv, <1>1, PTL DEF Spec

\* No step moves a zkApp's cursor back, so that what a loop has found passed
\* stays passed (withdrawals.ts confirm, assets.ts confirmMints).
THEOREM CursorsOnlyGrow == Spec => CursorsNeverGoBack
BY InitRInv, NextRInv, NextCursorsGrow, PTL DEF Spec, CursorsNeverGoBack

----------------------------------------------------------------------------
(* Types.  What the loops, the worker and Mina pass to each other stays    *)
(* what it is said to be, and a wave stays one wave.                       *)

PoliciesOrNone == Policies \union {NoPolicy}
NoncesOrNull == Nonces \union {Null}

\* A transaction sets slots to values they may have, and pays a recipient of the
\* chain only for a record: one it moves the cursor to, or one the port is armed
\* for, and a port is armed where its cursor moves to a record.
TxTyped(tx) ==
  /\ tx.rail \in Consumers
  /\ DOMAIN tx.requires \subseteq Slots /\ DOMAIN tx.sets \subseteq Slots
  /\ "signingPolicyRoot" \in DOMAIN tx.sets => tx.sets["signingPolicyRoot"] \in PoliciesOrNone
  /\ "accepted" \in DOMAIN tx.sets => tx.sets["accepted"] \in HeadsSeen
  /\ "cursor" \in DOMAIN tx.sets => tx.sets["cursor"] \in Positions
  /\ "mintAuthorization" \in DOMAIN tx.sets =>
       /\ tx.sets["mintAuthorization"] \in Commitments
       /\ \/ tx.sets["mintAuthorization"] = NO_MINT_AUTHORIZED
          \/ "cursor" \in DOMAIN tx.sets
  /\ tx.pays \in Recipients \union {Null} /\ tx.funds \in BOOLEAN
  /\ tx.pays # Null =>
       \/ "cursor" \in DOMAIN tx.sets
       \/ /\ "mintAuthorization" \in DOMAIN tx.requires
          /\ tx.requires["mintAuthorization"] # NO_MINT_AUTHORIZED

\* A request has a caller to be answered, and a publication a policy.
RequestTyped(q) ==
  q.caller \in Callers /\ (q.kind = "publish" => q.policy \in PoliciesOrNone)

\* A job that has armed a port has a claim to mint.
JobTyped(j) ==
  j # Null =>
    /\ DOMAIN j = {"request", "stage", "read", "funds", "nonce"}
    /\ RequestTyped(j.request)
    /\ j.read \in ZkappState /\ j.funds \in SUBSET Recipients /\ j.nonce \in Nonces
    /\ j.stage = "armed" => OwnIn(j.request.rail, j.request.range) # {}

\* The rows to be sent and those sent make one wave.
OneWave(wave) ==
  /\ wave.todo \intersect wave.sent = {}
  /\ Cardinality(wave.todo \union wave.sent) <= WAVE

\* One conjunct for each component's variables.
LedgerTyped ==
  /\ transfers \in SUBSET Positions
  /\ rows \in [Positions -> RowStatus]
  /\ scannedTo \in HeadsSeen \union {Null}
ZkappsTyped ==
  /\ zkapp \in [Consumers -> ZkappState]
  /\ \A r \in Consumers :
       zkapp[r].mintAuthorization # NO_MINT_AUTHORIZED => zkapp[r].cursor \in Positions
PaidTyped ==
  accounts \in [Consumers -> SUBSET Recipients] /\ delivered \in SUBSET Positions
PoolTyped == \A tx \in Range(pool) : TxTyped(tx)
AskedTyped == (\A q \in Range(lane) : RequestTyped(q)) /\ JobTyped(job)
BelievedTyped ==
  /\ predictedCursor \in [Consumers -> Positions \union {Null}]
  /\ fundedThisWave \in SUBSET Recipients
  /\ predictedNonce \in NoncesOrNull /\ issuedNonce \in NoncesOrNull
AnswersTyped == answer \in [Callers -> {"none", "sent", "failed"}]
LoopsTyped == \A r \in Consumers : OneWave(loop[r])
PublisherTyped ==
  /\ pub.pc \in {"idle", "attest", "wait"} /\ pub.policy \in PoliciesOrNone
  /\ inFlight \in [Consumers -> HeadsSeen \union {Null}]
CountsTyped == policy \in 1 .. deployment.policies /\ faults \in 0 .. deployment.faults

\* What the steps of Mina and of the worker disturb.
MinaTyped == ZkappsTyped /\ PaidTyped /\ PoolTyped
WorkTyped == AskedTyped /\ BelievedTyped /\ AnswersTyped

\* Inductive, and more than TypeOK.
TInv ==
  /\ RInv /\ LedgerTyped /\ ZkappsTyped /\ PaidTyped /\ PoolTyped /\ AskedTyped
  /\ BelievedTyped /\ AnswersTyped /\ LoopsTyped /\ PublisherTyped /\ CountsTyped

----------------------------------------------------------------------------

\* What the deployment bounds.
LEMMA DeploymentTyped ==
  ASSUME deployment \in Deployments
  PROVE  /\ deployment.policies \in Nat \ {0} /\ deployment.faults \in Nat
         /\ 1 .. deployment.policies \subseteq Policies /\ WAVE \in Nat
BY LedgerAssumption, RelayerAssumption DEF Deployment

\* What is said in terms of the deployment alone.
LEMMA SameTerms ==
  ASSUME deployment' = deployment
  PROVE  /\ Recipients' = Recipients /\ Commitments' = Commitments
         /\ ZkappState' = ZkappState /\ Callers' = Callers
         /\ \A tx : TxTyped(tx)' <=> TxTyped(tx)
         /\ \A q : RequestTyped(q)' <=> RequestTyped(q)
         /\ \A j : JobTyped(j)' <=> JobTyped(j)
<1>1. /\ Consumers' = Consumers /\ Chain' = Chain
      /\ Positions' = Positions /\ HeadsSeen' = HeadsSeen
  BY SameDeployment
<1>2. /\ Recipients' = Recipients /\ Commitments' = Commitments /\ Callers' = Callers
  BY <1>1 DEF Recipients, Commitments, Callers, mintCommitment
<1>3. ZkappState' = ZkappState
  BY <1>1, <1>2 DEF ZkappState
<1>4. \A tx : TxTyped(tx)' <=> TxTyped(tx)
  BY <1>1, <1>2 DEF TxTyped
<1>5. \A q : RequestTyped(q)' <=> RequestTyped(q)
  BY <1>2 DEF RequestTyped
<1>6. \A j : JobTyped(j)' <=> JobTyped(j)
  <2>1. \A r, range : OwnIn(r, range)' = OwnIn(r, range)
    BY <1>1 DEF OwnIn, RecordsOf
  <2> QED
    BY <1>2, <1>3, <1>5, <2>1 DEF JobTyped
<1> QED
  BY <1>2, <1>3, <1>4, <1>5, <1>6

\* A part stays typed when its variables stay as they are.
LEMMA TypedFrame ==
  ASSUME TInv, deployment' = deployment
  PROVE  /\ UNCHANGED <<transfers, rows, scannedTo>> => LedgerTyped'
         /\ UNCHANGED zkapp => ZkappsTyped'
         /\ UNCHANGED <<accounts, delivered>> => PaidTyped'
         /\ UNCHANGED pool => PoolTyped'
         /\ UNCHANGED <<lane, job>> => AskedTyped'
         /\ UNCHANGED <<predictedCursor, fundedThisWave, predictedNonce, issuedNonce>> =>
              BelievedTyped'
         /\ UNCHANGED answer => AnswersTyped'
         /\ UNCHANGED loop => LoopsTyped'
         /\ UNCHANGED <<pub, inFlight>> => PublisherTyped'
         /\ UNCHANGED <<policy, faults>> => CountsTyped'
<1>1. /\ Consumers' = Consumers /\ Chain' = Chain
      /\ Positions' = Positions /\ HeadsSeen' = HeadsSeen
      /\ Recipients' = Recipients /\ Callers' = Callers /\ ZkappState' = ZkappState
  BY SameDeployment, SameTerms
<1>2. UNCHANGED <<transfers, rows, scannedTo>> => LedgerTyped'
  BY <1>1 DEF TInv, LedgerTyped
<1>3. UNCHANGED zkapp => ZkappsTyped'
  BY <1>1 DEF TInv, ZkappsTyped
<1>4. UNCHANGED <<accounts, delivered>> => PaidTyped'
  BY <1>1 DEF TInv, PaidTyped
<1>5. UNCHANGED pool => PoolTyped'
  BY SameTerms DEF TInv, PoolTyped
<1>6. UNCHANGED <<lane, job>> => AskedTyped'
  BY SameTerms DEF TInv, AskedTyped
<1>7. UNCHANGED <<predictedCursor, fundedThisWave, predictedNonce, issuedNonce>> => BelievedTyped'
  BY <1>1 DEF TInv, BelievedTyped
<1>8. UNCHANGED answer => AnswersTyped'
  BY <1>1 DEF TInv, AnswersTyped
<1>9. UNCHANGED loop => LoopsTyped'
  BY <1>1 DEF TInv, LoopsTyped, OneWave
<1>10. UNCHANGED <<pub, inFlight>> => PublisherTyped'
  BY <1>1 DEF TInv, PublisherTyped
<1>11. UNCHANGED <<policy, faults>> => CountsTyped'
  BY DEF TInv, CountsTyped
<1> QED
  BY <1>2, <1>3, <1>4, <1>5, <1>6, <1>7, <1>8, <1>9, <1>10, <1>11

----------------------------------------------------------------------------
(* Waves.                                                                  *)

\* A set of naturals up to a bound that has a member has a greatest one.
LEMMA GreatestIn ==
  ASSUME NEW n \in Nat, NEW S, S \subseteq 0 .. n, S # {}
  PROVE  \E m \in S : \A x \in S : x <= m
<1> DEFINE T == {n - x : x \in S}
<1>1. T \subseteq Nat /\ T # {}
  <2>1. \A x \in S : n - x \in Nat
    OBVIOUS
  <2>2. PICK x \in S : TRUE
    OBVIOUS
  <2>3. n - x \in T
    OBVIOUS
  <2> QED
    BY <2>1, <2>3
<1>2. \A t \in T : n - t \in S
  OBVIOUS
<1>3. \A x \in S : n - x \in T /\ x \in Nat
  OBVIOUS
<1> HIDE DEF T
<1>4. Min(T) \in T /\ \A t \in T : Min(T) <= t
  BY <1>1, MinIn
<1> DEFINE k == Min(T)
<1> HIDE DEF k
<1>5. k \in T /\ k \in Nat /\ n - k \in S /\ \A t \in T : k <= t
  BY <1>1, <1>2, <1>4 DEF k
<1>6. ASSUME NEW x \in S PROVE x <= n - k
  <2>1. n - x \in T /\ x \in Nat
    BY <1>3
  <2>2. k <= n - x
    BY <1>5, <2>1
  <2> QED
    BY <1>5, <2>1, <2>2
<1> QED
  BY <1>5, <1>6

\* The oldest n are no more than n.
LEMMA OldestBound ==
  ASSUME NEW l \in Nat, NEW ps, ps \subseteq 0 .. l, NEW n \in Nat
  PROVE  Oldest(n, ps) \subseteq ps /\ Cardinality(Oldest(n, ps)) <= n
<1> DEFINE O == Oldest(n, ps)
<1>1. O \subseteq ps /\ \A p \in O : Cardinality({q \in ps : q < p}) < n
  BY DEF Oldest
<1> HIDE DEF O
<1>2. CASE O = {}
  BY <1>1, <1>2, FS_EmptySet DEF O
<1>3. CASE O # {}
  <2>1. PICK m \in O : \A x \in O : x <= m
    BY <1>1, <1>3, GreatestIn
  <2> DEFINE B == {q \in ps : q < m}
  <2>2. IsFiniteSet(0 .. l)
    BY FS_Interval
  <2>3. IsFiniteSet(B) /\ IsFiniteSet(O) /\ B \subseteq 0 .. l
    BY <1>1, <2>2, FS_Subset
  <2>4. O \ {m} \subseteq B
    <3>1. \A x \in O : x \in Nat
      BY <1>1
    <3> QED
      BY <1>1, <2>1, <3>1
  <2>5. Cardinality(O \ {m}) = Cardinality(O) - 1
    BY <2>1, <2>3, FS_RemoveElement
  <2>6. Cardinality(O \ {m}) <= Cardinality(B)
    BY <2>3, <2>4, FS_Subset
  <2>7. Cardinality(B) < n
    BY <1>1, <2>1
  <2>8. Cardinality(B) \in Nat /\ Cardinality(O) \in Nat
    BY <2>3, FS_CardinalityType
  <2> HIDE DEF B
  <2>9. Cardinality(O) <= n
    BY <2>5, <2>6, <2>7, <2>8
  <2> QED
    BY <1>1, <2>9 DEF O
<1> QED
  BY <1>2, <1>3

\* A set of positions with no more in it than a set within a wave.
LEMMA FewerRows ==
  ASSUME deployment \in Deployments, NEW S, NEW T, T \subseteq Positions, S \subseteq T,
         Cardinality(T) <= WAVE
  PROVE  Cardinality(S) <= WAVE
<1>1. Len(Chain) \in Nat /\ WAVE \in Nat
  BY ChainTyped, DeploymentTyped
<1>2. IsFiniteSet(Positions)
  BY <1>1, FS_Interval DEF Positions
<1>3. IsFiniteSet(T)
  BY <1>2, FS_Subset
<1>4. Cardinality(S) <= Cardinality(T) /\ IsFiniteSet(S)
  BY <1>3, FS_Subset
<1>5. Cardinality(S) \in Nat /\ Cardinality(T) \in Nat
  BY <1>3, <1>4, FS_CardinalityType
<1> QED
  BY <1>1, <1>4, <1>5

\* A loop at rest has no wave.
LEMMA IdleOne ==
  ASSUME deployment \in Deployments
  PROVE  OneWave(Idle)
<1>1. Idle.todo = {} /\ Idle.sent = {}
  BY DEF Idle
<1>2. Cardinality({}) = 0 /\ WAVE \in Nat
  BY FS_EmptySet, DeploymentTyped
<1> QED
  BY <1>1, <1>2 DEF OneWave

\* What is opened is no larger than a wave.
LEMMA WaveOne ==
  ASSUME TInv, NEW ps, ps \subseteq Positions, NEW past, NEW range, NEW armed, NEW candidates
  PROVE  OneWave(Wave(Oldest(WAVE, ps) \ past, range, armed, candidates))
<1> DEFINE todo == Oldest(WAVE, ps) \ past
           w == Wave(todo, range, armed, candidates)
<1>1. deployment \in Deployments /\ Len(Chain) \in Nat /\ WAVE \in Nat
  BY ChainTyped, DeploymentTyped DEF TInv, RInv, Base
<1>2. ps \subseteq 0 .. Len(Chain)
  BY <1>1 DEF Positions
<1>3. Oldest(WAVE, ps) \subseteq ps /\ Cardinality(Oldest(WAVE, ps)) <= WAVE
  BY <1>1, <1>2, OldestBound
<1>4. todo \subseteq Oldest(WAVE, ps)
  OBVIOUS
<1>5. Cardinality(todo) <= WAVE
  BY <1>1, <1>3, <1>4, FewerRows
<1>6. w.todo = todo /\ w.sent = {}
  BY DEF Wave
<1> HIDE DEF todo, w
<1>7. w.todo \union w.sent = todo
  BY <1>6
<1>8. OneWave(w)
  BY <1>5, <1>6, <1>7 DEF OneWave
<1> QED
  BY <1>8 DEF w, todo

\* A row that is sent moves within its wave.
LEMMA SentOneOne ==
  ASSUME TInv, NEW r \in Consumers, loop[r].pc = "wait"
  PROVE  OneWave(SentOne(r, loop[r]))
<1> DEFINE w == loop[r]
           row == Min(w.todo)
           v == SentOne(r, w)
<1>1. w \in Waves /\ w.todo \subseteq Positions /\ w.todo # {} /\ Positions \subseteq Nat
  BY ChainTyped DEF TInv, RInv, Base, Waving, SoundWave, RowsOf
<1>2. row \in w.todo
  BY <1>1, MinIn
<1>3. v.todo = w.todo \ {row} /\ v.sent = w.sent \union {row}
  BY <1>1 DEF SentOne, Waves
<1>4. OneWave(w)
  BY DEF TInv, LoopsTyped
<1> HIDE DEF w, row, v
<1>5. v.todo \intersect v.sent = {} /\ v.todo \union v.sent = w.todo \union w.sent
  BY <1>2, <1>3, <1>4 DEF OneWave
<1>6. OneWave(v)
  BY <1>4, <1>5 DEF OneWave
<1> QED
  BY <1>6 DEF v, w

\* A wave that stops is what it has sent.
LEMMA StoppedOne ==
  ASSUME TInv, NEW r, NEW wave, SoundWave(r, wave), OneWave(wave)
  PROVE  OneWave(Stopped(wave))
<1> DEFINE v == Stopped(wave)
<1>1. v.todo = {} /\ v.sent = wave.sent
  BY DEF Stopped, Idle
<1>2. wave.todo \union wave.sent \subseteq Positions
  BY DEF SoundWave, Waves
<1> HIDE DEF v
<1>3. v.todo \union v.sent \subseteq wave.todo \union wave.sent
  BY <1>1
<1>4. Cardinality(v.todo \union v.sent) <= WAVE
  BY <1>2, <1>3, FewerRows DEF OneWave, TInv, RInv, Base
<1> QED
  BY <1>1, <1>4 DEF OneWave, v

\* The loops after one of them has moved to one wave.
LEMMA LoopsAfter ==
  ASSUME TInv, deployment' = deployment, NEW r \in Consumers, NEW wave, OneWave(wave),
         loop' = [loop EXCEPT ![r] = wave]
  PROVE  LoopsTyped'
<1>1. \A q \in Consumers : loop'[q] = IF q = r THEN wave ELSE loop[q]
  BY DEF TInv, RInv, Waving
<1>2. Consumers' = Consumers
  BY SameDeployment
<1>3. \A q \in Consumers : OneWave(loop'[q])
  BY <1>1 DEF TInv, LoopsTyped
<1> QED
  BY <1>2, <1>3 DEF LoopsTyped, OneWave

----------------------------------------------------------------------------
(* The ledger, and Mina.                                                   *)

\* The greater of two integers is one of them.
LEMMA MaxOfTwo ==
  ASSUME NEW a \in Int, NEW b \in Int
  PROVE  /\ Max({a, b}) \in {a, b} /\ Max({a, b}) \in Int
         /\ Max({a, b}) >= a /\ Max({a, b}) >= b
<1>1. \E x \in {a, b} : \A y \in {a, b} : x >= y
  OBVIOUS
<1>2. Max({a, b}) \in {a, b} /\ \A y \in {a, b} : Max({a, b}) >= y
  BY <1>1, Zenon DEF Max
<1> QED
  BY <1>2

\* The window that is scanned next is of a record, if Flare is that far.
LEMMA ScannedTyped ==
  ASSUME TInv, Scanned <= flareLen
  PROVE  Scanned \in Positions /\ Scanned - 1 \in HeadsSeen
<1>1. /\ Len(Chain) \in Nat /\ flareLen \in 0 .. Len(Chain) /\ Lookback \in Nat
      /\ Null \notin Nat
  BY ChainTyped, LedgerAssumption DEF TInv, RInv, Base, HeadsSeen
<1> DEFINE from == IF scannedTo = Null THEN Max({0, flareLen - Lookback}) ELSE scannedTo
<1>2. from \in Nat
  <2>1. flareLen - Lookback \in Int
    BY <1>1
  <2>2. Max({0, flareLen - Lookback}) \in Nat
    <3> DEFINE x == flareLen - Lookback
    <3> HIDE DEF x
    <3>1. x \in Int /\ 0 \in Int
      BY <2>1 DEF x
    <3>2. Max({0, x}) \in Int /\ Max({0, x}) >= 0
      BY <3>1, MaxOfTwo
    <3>3. Max({0, x}) \in Nat
      BY <3>2
    <3> QED
      BY <3>3 DEF x
  <2>3. scannedTo \in Nat \union {Null}
    BY <1>1 DEF TInv, LedgerTyped, HeadsSeen
  <2> QED
    BY <2>2, <2>3
<1>3. Scanned = from + 1
  BY DEF Scanned
<1> HIDE DEF from
<1> QED
  BY <1>1, <1>2, <1>3 DEF Positions, HeadsSeen

\* The watcher writes what it has scanned.
LEMMA WatchTyped ==
  ASSUME TInv, watch
  PROVE  LedgerTyped'
<1>1. /\ deployment' = deployment
      /\ Scanned <= flareLen
      /\ \/ /\ transfers' = transfers \union {Scanned} /\ scannedTo' = Scanned - 1
            /\ UNCHANGED rows
         \/ /\ rows' = [rows EXCEPT ![Scanned] = IF @ = "none" THEN "seen" ELSE @]
            /\ scannedTo' = Scanned /\ UNCHANGED transfers
  BY DEF watch, recordTransfer, recordWithdrawal, recordLock, InsertRow, Indexed
<1>2. /\ Scanned \in Positions /\ Scanned - 1 \in HeadsSeen /\ Positions \subseteq HeadsSeen
      /\ Positions' = Positions /\ HeadsSeen' = HeadsSeen
  BY <1>1, ScannedTyped, ChainTyped, SameDeployment DEF TInv, RInv, Base
<1>3. transfers \in SUBSET Positions /\ rows \in [Positions -> RowStatus]
  BY DEF TInv, LedgerTyped
<1>4. rows' \in [Positions -> RowStatus]
  <2> DEFINE p == Scanned
  <2> HIDE DEF p
  <2>1. rows[p] \in RowStatus /\ p \in Positions
    BY <1>2, <1>3 DEF p
  <2>2. \/ UNCHANGED rows
        \/ rows' = [rows EXCEPT ![p] = IF rows[p] = "none" THEN "seen" ELSE rows[p]]
    BY <1>1 DEF p
  <2> QED
    BY <1>3, <2>1, <2>2 DEF RowStatus
<1>5. transfers' \in SUBSET Positions /\ scannedTo' \in HeadsSeen
  BY <1>1, <1>2, <1>3
<1> QED
  BY <1>2, <1>4, <1>5 DEF LedgerTyped

\* A commitment is to a record, and is not what an unarmed port holds.
LEMMA CommitmentTyped ==
  ASSUME deployment \in Deployments, NEW p \in Positions
  PROVE  /\ mintCommitment(p) \in Commitments /\ mintCommitment(p) # NO_MINT_AUTHORIZED
         /\ Chain[p].recipient \in Recipients
<1>1. Chain[p] \in Record
  BY ChainTyped DEF Positions
<1>2. mintCommitment(p) \in [recipient : STRING, amount : Nat]
  BY <1>1 DEF Record, mintCommitment
<1>3. mintCommitment(p) # Null
  BY <1>2, LedgerAssumption
<1> QED
  BY <1>3 DEF Commitments, Recipients, NO_MINT_AUTHORIZED

\* What a port is armed for is a commitment to a record of a recipient.
LEMMA CommitmentPays ==
  ASSUME NEW c \in Commitments, c # NO_MINT_AUTHORIZED
  PROVE  c.recipient \in Recipients
<1>1. PICK p \in Positions : c = mintCommitment(p)
  BY DEF Commitments
<1> QED
  BY <1>1 DEF mintCommitment, Recipients

\* What is applied leaves the zkApps and the accounts typed.
LEMMA ApplyTyped ==
  ASSUME TInv, deployment' = deployment, Apply
  PROVE  ZkappsTyped' /\ PaidTyped' /\ PoolTyped'
<1> DEFINE tx == Head(pool)
           r == tx.rail
<1>0. /\ pool # << >> /\ pool \in Seq(Range(pool)) /\ pool' = Tail(pool)
      /\ \A x \in Range(pool) : TxTyped(x)
  BY DEF Apply, TInv, RInv, Pooled, PoolTyped
<1>1. PoolTyped'
  BY <1>0, TailInRange, SameTerms DEF PoolTyped
<1>2. TxTyped(tx)
  BY <1>0, TailInRange
<1>3. CASE ~Applies(tx)
  <2>1. UNCHANGED <<zkapp, accounts, delivered>>
    BY <1>3 DEF Apply
  <2> QED
    BY <1>1, <2>1, TypedFrame
<1>4. CASE Applies(tx)
  <2> DEFINE new == [s \in Slots |-> IF s \in DOMAIN tx.sets THEN tx.sets[s] ELSE zkapp[r][s]]
  <2>1. /\ zkapp' = [zkapp EXCEPT ![r] = new]
        /\ IF tx.pays = Null THEN UNCHANGED <<accounts, delivered>>
           ELSE /\ accounts' = [accounts EXCEPT ![r] = @ \union {tx.pays}]
                /\ delivered' = delivered \union {zkapp'[r].cursor}
    BY <1>4 DEF Apply
  <2>2. \A s \in DOMAIN tx.requires : zkapp[r][s] = tx.requires[s]
    BY <1>4 DEF Applies
  <2>3. /\ zkapp \in [Consumers -> ZkappState] /\ r \in Consumers
        /\ zkapp[r] \in ZkappState
        /\ zkapp[r].mintAuthorization # NO_MINT_AUTHORIZED => zkapp[r].cursor \in Positions
    BY <1>2 DEF TInv, ZkappsTyped, TxTyped
  <2>4. /\ zkapp[r]["signingPolicyRoot"] \in PoliciesOrNone
        /\ zkapp[r]["accepted"] \in HeadsSeen /\ zkapp[r]["cursor"] \in HeadsSeen
        /\ zkapp[r]["mintAuthorization"] \in Commitments
    BY <2>3 DEF ZkappState, PoliciesOrNone
  <2>5. /\ DOMAIN new = Slots
        /\ new["signingPolicyRoot"] = IF "signingPolicyRoot" \in DOMAIN tx.sets
                                      THEN tx.sets["signingPolicyRoot"]
                                      ELSE zkapp[r]["signingPolicyRoot"]
        /\ new["accepted"] = IF "accepted" \in DOMAIN tx.sets
                             THEN tx.sets["accepted"] ELSE zkapp[r]["accepted"]
        /\ new["cursor"] = IF "cursor" \in DOMAIN tx.sets
                           THEN tx.sets["cursor"] ELSE zkapp[r]["cursor"]
        /\ new["mintAuthorization"] = IF "mintAuthorization" \in DOMAIN tx.sets
                                      THEN tx.sets["mintAuthorization"]
                                      ELSE zkapp[r]["mintAuthorization"]
    BY DEF Slots
  <2>6. Positions \subseteq HeadsSeen
    BY ChainTyped DEF TInv, RInv, Base
  <2>7. /\ new["signingPolicyRoot"] \in PoliciesOrNone /\ new["accepted"] \in HeadsSeen
        /\ new["cursor"] \in HeadsSeen /\ new["mintAuthorization"] \in Commitments
    BY <1>2, <2>4, <2>5, <2>6 DEF TxTyped
  <2>8. new \in ZkappState
    <3>1. new = [signingPolicyRoot |-> new["signingPolicyRoot"], accepted |-> new["accepted"],
                 cursor |-> new["cursor"], mintAuthorization |-> new["mintAuthorization"]]
      BY <2>5 DEF Slots
    <3> HIDE DEF new
    <3> QED
      BY <2>7, <3>1 DEF ZkappState, PoliciesOrNone
  <2> HIDE DEF new
  <2>9. new["mintAuthorization"] # NO_MINT_AUTHORIZED => new["cursor"] \in Positions
    BY <1>2, <2>3, <2>5 DEF TxTyped
  <2>10. zkapp' \in [Consumers -> ZkappState] /\ zkapp'[r] = new
         /\ \A q \in Consumers : q # r => zkapp'[q] = zkapp[q]
    BY <2>1, <2>3, <2>8
  <2>11. ZkappsTyped'
    BY <2>9, <2>10, SameTerms, SameDeployment DEF TInv, ZkappsTyped, NO_MINT_AUTHORIZED
  <2>12. tx.pays # Null => new["cursor"] \in Positions
    <3>1. CASE "cursor" \in DOMAIN tx.sets
      BY <1>2, <2>5, <3>1 DEF TxTyped
    <3>2. CASE "cursor" \notin DOMAIN tx.sets
      BY <1>2, <2>2, <2>3, <2>5, <3>2 DEF TxTyped
    <3> QED
      BY <3>1, <3>2
  <2>13. PaidTyped'
    <3>1. accounts' \in [Consumers -> SUBSET Recipients]
      BY <1>2, <2>1, <2>3 DEF TInv, PaidTyped, TxTyped
    <3>2. delivered' \in SUBSET Positions
      BY <2>1, <2>10, <2>12 DEF TInv, PaidTyped
    <3> QED
      BY <3>1, <3>2, SameTerms, SameDeployment DEF PaidTyped
  <2> QED
    BY <1>1, <2>11, <2>13
<1> QED
  BY <1>3, <1>4

\* So does someone else's publication.
LEMMA StrayTyped ==
  ASSUME TInv, deployment' = deployment, NEW r \in Consumers, StrayPublication(r)
  PROVE  ZkappsTyped' /\ PaidTyped' /\ PoolTyped'
<1>1. /\ UNCHANGED <<accounts, delivered, pool>>
      /\ \E head \in 1 .. flareLen : zkapp' = [zkapp EXCEPT ![r].accepted = head]
  BY DEF StrayPublication
<1>2. PICK head \in 1 .. flareLen : zkapp' = [zkapp EXCEPT ![r].accepted = head]
  BY <1>1
<1>2A. head \in HeadsSeen
  BY ChainTyped DEF TInv, RInv, Base, HeadsSeen
<1>3. zkapp \in [Consumers -> ZkappState]
  BY DEF TInv, ZkappsTyped
<1>4. /\ zkapp' \in [Consumers -> ZkappState]
      /\ \A q \in Consumers : /\ zkapp'[q].cursor = zkapp[q].cursor
                              /\ zkapp'[q].mintAuthorization = zkapp[q].mintAuthorization
  <2> DEFINE new == [zkapp[r] EXCEPT !.accepted = head]
  <2>1. new \in ZkappState /\ new.cursor = zkapp[r].cursor
        /\ new.mintAuthorization = zkapp[r].mintAuthorization
    BY <1>2A, <1>3 DEF ZkappState
  <2>2. zkapp' = [zkapp EXCEPT ![r] = new]
    BY <1>2
  <2> HIDE DEF new
  <2> QED
    BY <1>3, <2>1, <2>2
<1>5. ZkappsTyped'
  BY <1>4, SameTerms, SameDeployment DEF TInv, ZkappsTyped, NO_MINT_AUTHORIZED
<1> QED
  BY <1>1, <1>5, TypedFrame

----------------------------------------------------------------------------
(* The worker.                                                             *)

\* Each of the five transactions is typed: a rotation sets the root.
LEMMA RotationTyped ==
  ASSUME NEW r \in Consumers, NEW f, NEW t \in PoliciesOrNone
  PROVE  TxTyped(setSigningPolicyRoot(r, f, t))
<1> DEFINE tx == setSigningPolicyRoot(r, f, t)
<1>1. /\ tx.rail = r /\ tx.pays = Null /\ tx.funds = FALSE
      /\ DOMAIN tx.requires = {"signingPolicyRoot"} /\ DOMAIN tx.sets = {"signingPolicyRoot"}
      /\ tx.sets["signingPolicyRoot"] = t
  BY DEF setSigningPolicyRoot, Transaction
<1> HIDE DEF tx
<1>2. TxTyped(tx)
  BY <1>1 DEF TxTyped, Slots
<1> QED
  BY <1>2 DEF tx

\* A publication sets the accepted head.
LEMMA PublicationTyped ==
  ASSUME NEW r \in Consumers, NEW p, NEW f, NEW h \in HeadsSeen
  PROVE  TxTyped(PublishHead(r, p, f, h))
<1> DEFINE tx == PublishHead(r, p, f, h)
<1>1. /\ tx.rail = r /\ tx.pays = Null /\ tx.funds = FALSE
      /\ DOMAIN tx.requires = {"signingPolicyRoot", "accepted"} /\ DOMAIN tx.sets = {"accepted"}
      /\ tx.sets["accepted"] = h
  BY DEF PublishHead, Transaction
<1> HIDE DEF tx
<1>2. TxTyped(tx)
  BY <1>1 DEF TxTyped, Slots
<1> QED
  BY <1>2 DEF tx

\* A release pays the recipient of the record it moves the cursor to.
LEMMA ReleaseTyped ==
  ASSUME deployment \in Deployments,
         NEW r \in Consumers, NEW from, NEW a, NEW first \in Positions, NEW funds \in BOOLEAN
  PROVE  TxTyped(releaseWithdrawal(r, from, a, first, funds))
<1> DEFINE tx == releaseWithdrawal(r, from, a, first, funds)
<1>1. /\ tx.rail = r /\ tx.pays = Chain[first].recipient /\ tx.funds = funds
      /\ DOMAIN tx.requires = {"cursor", "accepted"} /\ DOMAIN tx.sets = {"cursor"}
      /\ tx.sets["cursor"] = first
  BY DEF releaseWithdrawal, Transaction
<1>2. Chain[first].recipient \in Recipients
  BY CommitmentTyped
<1> HIDE DEF tx
<1>3. TxTyped(tx)
  BY <1>1, <1>2 DEF TxTyped, Slots
<1> QED
  BY <1>3 DEF tx

\* A port is armed for the record its cursor moves to.
LEMMA ArmingTyped ==
  ASSUME deployment \in Deployments,
         NEW r \in Consumers, NEW from, NEW a, NEW first \in Positions
  PROVE  TxTyped(authorizeMint(r, from, a, first))
<1> DEFINE tx == authorizeMint(r, from, a, first)
<1>1. /\ tx.rail = r /\ tx.pays = Null /\ tx.funds = FALSE
      /\ DOMAIN tx.requires = {"cursor", "accepted", "mintAuthorization"}
      /\ DOMAIN tx.sets = {"cursor", "mintAuthorization"}
      /\ tx.sets["cursor"] = first /\ tx.sets["mintAuthorization"] = mintCommitment(first)
  BY DEF authorizeMint, Transaction
<1>2. mintCommitment(first) \in Commitments
  BY CommitmentTyped
<1> HIDE DEF tx
<1>3. TxTyped(tx)
  BY <1>1, <1>2 DEF TxTyped, Slots
<1> QED
  BY <1>3 DEF tx

\* A mint pays the recipient the port is armed for.
LEMMA MintTyped ==
  ASSUME NEW r \in Consumers, NEW c \in Commitments, c # NO_MINT_AUTHORIZED,
         NEW funds \in BOOLEAN
  PROVE  TxTyped(MintToken(r, c, funds))
<1> DEFINE tx == MintToken(r, c, funds)
<1>1. /\ tx.rail = r /\ tx.pays = c.recipient /\ tx.funds = funds
      /\ DOMAIN tx.requires = {"mintAuthorization"} /\ DOMAIN tx.sets = {"mintAuthorization"}
      /\ tx.requires["mintAuthorization"] = c
      /\ tx.sets["mintAuthorization"] = NO_MINT_AUTHORIZED
  BY DEF MintToken, Transaction
<1>2. c.recipient \in Recipients /\ NO_MINT_AUTHORIZED \in Commitments
  BY CommitmentPays DEF Commitments
<1> HIDE DEF tx
<1>3. TxTyped(tx)
  BY <1>1, <1>2 DEF TxTyped, Slots
<1> QED
  BY <1>3 DEF tx

\* The nonce that is claimed is one.
LEMMA ClaimTyped ==
  ASSUME TInv, job # Null
  PROVE  claimNonce \in Nonces /\ claimNonce + 1 \in Nonces
<1>1. /\ job.nonce \in Nonces /\ predictedNonce \in Nonces \union {Null}
      /\ issuedNonce \in Nonces \union {Null}
  BY DEF TInv, AskedTyped, JobTyped, BelievedTyped, NoncesOrNull
<1>2. ASSUME issuedNonce # Null
      PROVE  Max({job.nonce, issuedNonce + 1}) \in Nonces
  <2> DEFINE a == job.nonce
             b == issuedNonce + 1
  <2>1. a \in Nonces /\ b \in Nonces /\ a \in Int /\ b \in Int
    BY <1>1, <1>2 DEF Nonces
  <2> HIDE DEF a, b
  <2>2. Max({a, b}) \in Nonces
    BY <2>1, MaxOfTwo
  <2> QED
    BY <2>2 DEF a, b
<1>3. claimNonce \in Nonces
  BY <1>1, <1>2 DEF claimNonce
<1> QED
  BY <1>3 DEF Nonces

\* What is sent is typed, and so are the nonces after it.
LEMMA SendTyped ==
  ASSUME TInv, deployment' = deployment, job # Null, NEW buildable, NEW tx, TxTyped(tx),
         Send(buildable, tx)
  PROVE  MinaTyped' /\ predictedNonce' \in NoncesOrNull /\ issuedNonce' \in NoncesOrNull
<1>1. /\ pool' = Append(pool, tx) /\ UNCHANGED <<zkapp, accounts, delivered>>
      /\ predictedNonce' = claimNonce + 1 /\ issuedNonce' = claimNonce
  BY DEF Send
<1>2. PoolTyped'
  BY <1>1, AppendInRange, SameTerms DEF TInv, RInv, Pooled, PoolTyped
<1>3. ZkappsTyped' /\ PaidTyped'
  BY <1>1, TypedFrame
<1> QED
  BY <1>1, <1>2, <1>3, ClaimTyped DEF MinaTyped, NoncesOrNull

\* An answer to the caller of the job, which is over.
LEMMA AnswerTyped ==
  ASSUME TInv, deployment' = deployment, job # Null, NEW what \in {"sent", "failed"},
         lane' = lane, job' = Null, answer' = [answer EXCEPT ![job.request.caller] = what]
  PROVE  AskedTyped' /\ AnswersTyped'
<1>1. JobTyped(Null)
  BY DEF JobTyped
<1>2. AskedTyped'
  BY <1>1, SameTerms DEF TInv, AskedTyped
<1>3. answer' \in [Callers -> {"none", "sent", "failed"}]
  BY DEF TInv, AnswersTyped
<1> QED
  BY <1>2, <1>3, SameTerms DEF AnswersTyped

\* A job that fails leaves everything typed.
LEMMA FailTyped ==
  ASSUME TInv, deployment' = deployment, job # Null, NEW issued \in NoncesOrNull, Fail(issued)
  PROVE  MinaTyped' /\ WorkTyped'
<1>1. /\ UNCHANGED <<lane, fundedThisWave, zkapp, accounts, pool, delivered>> /\ job' = Null
      /\ answer' = [answer EXCEPT ![job.request.caller] = "failed"]
      /\ predictedCursor' = [r \in Consumers |-> Null]
      /\ predictedNonce' = Null /\ issuedNonce' = issued
  BY DEF Fail, poolVars
<1>2. BelievedTyped'
  BY <1>1, SameTerms, SameDeployment DEF TInv, BelievedTyped, NoncesOrNull
<1> QED
  BY <1>1, <1>2, AnswerTyped, TypedFrame DEF MinaTyped, WorkTyped

\* So does a transaction that is not built or is refused.
LEMMA SendFailsTyped ==
  ASSUME TInv, deployment' = deployment, job # Null, NEW buildable, SendFails(buildable)
  PROVE  MinaTyped' /\ WorkTyped'
<1> DEFINE issued == IF buildable /\ Broadcast(claimNonce) = "Invalid_nonce"
                     THEN Null ELSE claimNonce
<1>1. issued \in NoncesOrNull
  BY ClaimTyped DEF NoncesOrNull
<1>2. Fail(issued)
  BY DEF SendFails
<1> HIDE DEF issued
<1> QED
  BY <1>1, <1>2, FailTyped

\* The job goes on after a send.
LEMMA GoesOnTyped ==
  ASSUME TInv, deployment' = deployment, NEW j, JobTyped(j), job' = j,
         UNCHANGED <<lane, answer>>
  PROVE  AskedTyped' /\ AnswersTyped'
<1>1. AskedTyped'
  BY SameTerms DEF TInv, AskedTyped
<1> QED
  BY <1>1, TypedFrame

\* What the worker believes after a send.
LEMMA BelievesTyped ==
  ASSUME TInv, deployment' = deployment, NEW r,
         \/ UNCHANGED predictedCursor
         \/ \E p \in Positions : predictedCursor' = [predictedCursor EXCEPT ![r] = p],
         \/ UNCHANGED fundedThisWave
         \/ \E to \in Recipients : fundedThisWave' = fundedThisWave \union {to},
         predictedNonce' \in NoncesOrNull, issuedNonce' \in NoncesOrNull
  PROVE  BelievedTyped'
<1>1. /\ predictedCursor \in [Consumers -> Positions \union {Null}]
      /\ fundedThisWave \in SUBSET Recipients
  BY DEF TInv, BelievedTyped
<1>2. predictedCursor' \in [Consumers -> Positions \union {Null}]
  BY <1>1
<1>3. fundedThisWave' \in SUBSET Recipients
  BY <1>1
<1> QED
  BY <1>2, <1>3, SameTerms, SameDeployment DEF BelievedTyped, NoncesOrNull

\* One step of the worker for each stage of a job.
LEMMA WorkerTyped ==
  ASSUME TInv, deployment' = deployment, WorkerStep
  PROVE  MinaTyped' /\ WorkTyped'
<1> DEFINE r == job.request.rail
           q == job.request
           Done == MinaTyped' /\ WorkTyped'
<1>0. job # Null => /\ r \in Consumers /\ SoundRequest(q) /\ RequestTyped(q) /\ JobTyped(job)
                    /\ job.read \in ZkappState /\ job.funds \in SUBSET Recipients
  <2>1. job # Null => SoundRequest(q) /\ JobTyped(job)
    BY DEF TInv, RInv, Asked, SoundJob, AskedTyped
  <2> QED
    BY <2>1 DEF SoundRequest, JobTyped
<1>1. /\ deployment \in Deployments /\ issuedNonce \in NoncesOrNull
      /\ \A c \in Consumers : accounts[c] \in SUBSET Recipients /\ zkapp[c] \in ZkappState
  BY DEF TInv, RInv, Base, BelievedTyped, PaidTyped, ZkappsTyped
<1>2. ASSUME job # Null, HasClaim, q.kind \in {"release", "mint"}
      PROVE  /\ Claimed \in Positions /\ Chain[Claimed].recipient \in Recipients
             /\ mintCommitment(Claimed) \in Commitments
             /\ mintCommitment(Claimed) # NO_MINT_AUTHORIZED
  <2>1. q.range \in Ranges /\ OwnIn(r, q.range) # {} /\ Claimed = Min(OwnIn(r, q.range))
    BY <1>0, <1>2 DEF SoundRequest, HasClaim, Claimed
  <2>2. Claimed \in Positions
    BY <1>1, <2>1, ClaimIsFirst
  <2> QED
    BY <1>1, <2>2, CommitmentTyped
<1>3. CASE StartJob
  <2> DEFINE c == Head(lane)
             j == [request |-> c, stage |-> "read", read |-> zkapp[c.rail],
                   funds |-> accounts[c.rail], nonce |-> 0]
  <2>1. /\ lane # << >> /\ lane' = Tail(lane) /\ job' = j
        /\ predictedCursor' = [predictedCursor EXCEPT ![c.rail] = Null] \/ UNCHANGED predictedCursor
        /\ fundedThisWave' = {} \/ UNCHANGED fundedThisWave
        /\ UNCHANGED <<answer, predictedNonce, issuedNonce, zkapp, accounts, pool, delivered>>
    BY <1>3 DEF StartJob, poolVars, nonceVars
  <2>2. /\ \A x \in Range(lane') : RequestTyped(x)
        /\ RequestTyped(c) /\ SoundRequest(c)
    BY <2>1, TailInRange DEF TInv, RInv, Asked, AskedTyped
  <2>3. c.rail \in Consumers /\ 0 \in Nonces
    BY <2>2 DEF SoundRequest, Nonces
  <2>4. /\ DOMAIN j = {"request", "stage", "read", "funds", "nonce"}
        /\ j.stage = "read" /\ j.request = c /\ j.read = zkapp[c.rail] /\ j.funds = accounts[c.rail] /\ j.nonce = 0
    OBVIOUS
  <2> HIDE DEF c, j
  <2>5. JobTyped(job')
    BY <1>1, <2>1, <2>2, <2>3, <2>4 DEF JobTyped
  <2>6. AskedTyped'
    BY <2>2, <2>5, SameTerms DEF AskedTyped
  <2>7. predictedCursor' \in [Consumers -> Positions \union {Null}]
    BY <2>1 DEF TInv, BelievedTyped
  <2>8. BelievedTyped'
    BY <2>1, <2>7, SameTerms, SameDeployment DEF TInv, BelievedTyped, NoncesOrNull
  <2> QED
    BY <2>1, <2>6, <2>8, TypedFrame DEF MinaTyped, WorkTyped
<1>4. CASE RotateRoot
  <2> DEFINE tx == setSigningPolicyRoot(r, job.read.signingPolicyRoot, q.policy)
             b == zkapp[r].signingPolicyRoot = job.read.signingPolicyRoot
             j == [job EXCEPT !.stage = "rotated"]
  <2>1. /\ job # Null /\ q.kind = "publish"
        /\ \/ /\ Send(b, tx) /\ job' = j
              /\ UNCHANGED <<lane, answer, predictedCursor, fundedThisWave>>
           \/ SendFails(b)
    BY <1>4 DEF RotateRoot, At
  <2>2. TxTyped(tx)
    BY <1>0, <2>1, RotationTyped DEF RequestTyped
  <2>3. JobTyped(j)
    BY <1>0, <2>1 DEF JobTyped
  <2> HIDE DEF tx, b, j
  <2>4. CASE SendFails(b)
    BY <2>1, <2>4, SendFailsTyped
  <2>5. CASE Send(b, tx) /\ job' = j /\ UNCHANGED <<lane, answer, predictedCursor, fundedThisWave>>
    BY <2>1, <2>2, <2>3, <2>5, SendTyped, GoesOnTyped, BelievesTyped DEF WorkTyped
  <2> QED
    BY <2>1, <2>4, <2>5
<1>5. CASE handlePublish \/ handlePublishLock
  <2> DEFINE tx == PublishHead(r, q.policy, zkapp[r].accepted, q.head)
             b == predictState(r, "signingPolicyRoot", job.read.signingPolicyRoot, q.policy)
  <2>1. /\ job # Null /\ q.kind = "publish"
        /\ \/ Send(b, tx) /\ Answered /\ UNCHANGED <<lane, predictedCursor, fundedThisWave>>
           \/ SendFails(b)
    BY <1>5 DEF handlePublish, handlePublishLock, Publication, At
  <2>2. TxTyped(tx)
    BY <1>0, <2>1, PublicationTyped DEF SoundRequest
  <2> HIDE DEF tx, b
  <2>3. CASE SendFails(b)
    BY <2>1, <2>3, SendFailsTyped
  <2>4. CASE Send(b, tx) /\ Answered /\ UNCHANGED <<lane, predictedCursor, fundedThisWave>>
    BY <2>1, <2>2, <2>4, SendTyped, AnswerTyped, BelievesTyped DEF WorkTyped, Answered
  <2> QED
    BY <2>1, <2>3, <2>4
<1>6. CASE handleRelease
  <2> DEFINE from == CursorFor(r)
             to == Chain[Claimed].recipient
             funds == to \notin fundedThisWave /\ to \notin job.funds
             tx == releaseWithdrawal(r, from, zkapp[r].accepted, Claimed, funds)
             b == predictState(r, "cursor", job.read.cursor, from) /\ SegmentFits(from)
             Sent == /\ HasClaim /\ Send(b, tx)
                     /\ predictedCursor' = [predictedCursor EXCEPT ![r] = Claimed]
                     /\ fundedThisWave' = IF funds THEN fundedThisWave \union {to}
                                          ELSE fundedThisWave
                     /\ Answered /\ UNCHANGED lane
  <2>1. /\ job # Null /\ q.kind = "release"
        /\ Fail(issuedNonce) \/ Sent \/ SendFails(b)
    BY <1>6 DEF handleRelease, At
  <2>2. ASSUME Sent PROVE Done
    <3>1. Claimed \in Positions /\ to \in Recipients /\ funds \in BOOLEAN
      BY <1>2, <2>1, <2>2
    <3>2. TxTyped(tx)
      BY <1>0, <1>1, <2>1, <3>1, ReleaseTyped
    <3>3. \/ UNCHANGED fundedThisWave
          \/ \E x \in Recipients : fundedThisWave' = fundedThisWave \union {x}
      BY <2>2, <3>1
    <3>4. /\ Send(b, tx) /\ Answered /\ UNCHANGED lane
          /\ \E p \in Positions : predictedCursor' = [predictedCursor EXCEPT ![r] = p]
      BY <2>2, <3>1
    <3> HIDE DEF tx, b, funds, to
    <3>5. BelievedTyped' /\ MinaTyped'
      BY <2>1, <3>2, <3>3, <3>4, SendTyped, BelievesTyped
    <3> QED
      BY <2>1, <3>4, <3>5, AnswerTyped DEF WorkTyped, Answered
  <2> HIDE DEF tx, b
  <2>3. CASE SendFails(b)
    BY <2>1, <2>3, SendFailsTyped
  <2>4. CASE Fail(issuedNonce)
    BY <1>1, <2>1, <2>4, FailTyped
  <2> QED
    BY <2>1, <2>2, <2>3, <2>4
<1>7. CASE RecoverMint
  <2> DEFINE funds == Armed.recipient \notin accounts[r]
             tx == MintToken(r, Armed, funds)
             b == zkapp[r].mintAuthorization = Armed
             j == [job EXCEPT !.stage = "settling"]
             Sent == /\ Send(b, tx) /\ job' = j
                     /\ UNCHANGED <<lane, answer, predictedCursor, fundedThisWave>>
  <2>1. /\ job # Null /\ Armed # NO_MINT_AUTHORIZED
        /\ Fail(issuedNonce) \/ Sent \/ SendFails(b)
    BY <1>7 DEF RecoverMint, At, Stale
  <2>2. Armed \in Commitments
    BY <1>0, <2>1 DEF Armed, ZkappState
  <2>3. TxTyped(tx)
    BY <1>0, <2>1, <2>2, MintTyped
  <2>4. JobTyped(j)
    BY <1>0, <2>1 DEF JobTyped
  <2>5. CASE Sent
    <3> HIDE DEF tx, b, j
    <3> QED
      BY <2>1, <2>3, <2>4, <2>5, SendTyped, GoesOnTyped, BelievesTyped DEF WorkTyped
  <2> HIDE DEF tx, b, j
  <2>6. CASE SendFails(b)
    BY <2>1, <2>6, SendFailsTyped
  <2>7. CASE Fail(issuedNonce)
    BY <1>1, <2>1, <2>7, FailTyped
  <2> QED
    BY <2>1, <2>5, <2>6, <2>7
<1>8. CASE settle
  <2>1. /\ job # Null /\ Answered
        /\ UNCHANGED <<lane, predictedCursor, fundedThisWave, predictedNonce, issuedNonce,
                       zkapp, accounts, pool, delivered>>
    BY <1>8 DEF settle, At, nonceVars, poolVars
  <2> QED
    BY <2>1, AnswerTyped, TypedFrame DEF MinaTyped, WorkTyped, Answered
<1>9. CASE NoLockToMint
  BY <1>1, <1>9, FailTyped DEF NoLockToMint, At
<1>10. CASE ArmMint
  <2> DEFINE from == CursorFor(r)
             tx == authorizeMint(r, from, zkapp[r].accepted, Claimed)
             b == /\ predictState(r, "cursor", job.read.cursor, from)
                  /\ SegmentFits(from)
                  /\ zkapp[r].mintAuthorization = NO_MINT_AUTHORIZED
             j == [job EXCEPT !.stage = "armed", !.funds = accounts[r]]
             Sent == /\ Send(b, tx)
                     /\ predictedCursor' = [predictedCursor EXCEPT ![r] = Claimed]
                     /\ job' = j /\ UNCHANGED <<lane, answer, fundedThisWave>>
  <2>1. /\ job # Null /\ q.kind = "mint" /\ HasClaim /\ (Sent \/ SendFails(b))
    BY <1>10 DEF ArmMint, At
  <2>2. Claimed \in Positions
    BY <1>2, <2>1
  <2>3. TxTyped(tx)
    BY <1>0, <1>1, <2>1, <2>2, ArmingTyped
  <2>4. JobTyped(j)
    BY <1>0, <1>1, <2>1 DEF JobTyped, HasClaim
  <2>5. CASE Sent
    <3>1. \E p \in Positions : predictedCursor' = [predictedCursor EXCEPT ![r] = p]
      BY <2>2, <2>5
    <3> HIDE DEF tx, b, j
    <3> QED
      BY <2>1, <2>3, <2>4, <2>5, <3>1, SendTyped, GoesOnTyped, BelievesTyped DEF WorkTyped
  <2> HIDE DEF tx, b, j
  <2>6. CASE SendFails(b)
    BY <2>1, <2>6, SendFailsTyped
  <2> QED
    BY <2>1, <2>5, <2>6
<1>11. CASE handleMint
  <2> DEFINE claim == mintCommitment(Claimed)
             funds == claim.recipient \notin job.funds
             tx == MintToken(r, claim, funds)
  <2>1. /\ job # Null /\ q.kind = "mint" /\ (HasClaim \/ job.stage = "armed")
        /\ \E b : \/ Send(b, tx) /\ Answered /\ UNCHANGED <<lane, predictedCursor, fundedThisWave>>
                  \/ SendFails(b)
    BY <1>11 DEF handleMint, At
  <2>2. claim \in Commitments /\ claim # NO_MINT_AUTHORIZED
    <3>1. HasClaim
      BY <1>0, <2>1 DEF JobTyped, HasClaim
    <3> QED
      BY <1>2, <2>1, <3>1
  <2>3. TxTyped(tx)
    BY <1>0, <2>1, <2>2, MintTyped
  <2> HIDE DEF tx
  <2>4. CASE \E b : SendFails(b)
    BY <2>1, <2>4, SendFailsTyped
  <2>5. ASSUME NEW b, Send(b, tx), Answered, UNCHANGED <<lane, predictedCursor, fundedThisWave>>
        PROVE  Done
    BY <2>1, <2>3, <2>5, SendTyped, AnswerTyped, BelievesTyped DEF WorkTyped, Answered
  <2> QED
    BY <2>1, <2>4, <2>5
<1> QED
  BY <1>3, <1>4, <1>5, <1>6, <1>7, <1>8, <1>9, <1>10, <1>11 DEF WorkerStep

----------------------------------------------------------------------------
(* The loops, and the publisher.                                           *)

\* A request of a loop is typed, and it has no answer yet.
LEMMA SubmitTyped ==
  ASSUME TInv, deployment' = deployment, NEW q, RequestTyped(q), submit(q), UNCHANGED job
  PROVE  AskedTyped' /\ AnswersTyped'
<1>1. lane' = Append(lane, q) /\ answer' = [answer EXCEPT ![q.caller] = "none"]
  BY DEF submit
<1>2. AskedTyped'
  BY <1>1, AppendInRange, SameTerms DEF TInv, RInv, Asked, AskedTyped
<1>3. answer' \in [Callers -> {"none", "sent", "failed"}]
  BY <1>1 DEF TInv, AnswersTyped
<1> QED
  BY <1>2, <1>3, SameTerms DEF AnswersTyped

\* An answer that is taken.
LEMMA TakenTyped ==
  ASSUME TInv, deployment' = deployment, NEW c, answer' = [answer EXCEPT ![c] = "none"],
         UNCHANGED <<lane, job>>
  PROVE  AskedTyped' /\ AnswersTyped'
<1>1. answer' \in [Callers -> {"none", "sent", "failed"}]
  BY DEF TInv, AnswersTyped
<1> QED
  BY <1>1, SameTerms, TypedFrame DEF AnswersTyped

\* Promoting and settling leave a table of statuses.
LEMMA TableTyped ==
  ASSUME NEW table \in [Positions -> RowStatus]
  PROVE  /\ \A ps : Settled(ps, table) \in [Positions -> RowStatus]
         /\ \A r, a : Promoted(r, a, table) \in [Positions -> RowStatus]
         /\ \A p : [table EXCEPT ![p] = "sending"] \in [Positions -> RowStatus]
<1>1. \A ps : Settled(ps, table) \in [Positions -> RowStatus]
  BY DEF Settled, RowStatus
<1>2. \A r, a : Promoted(r, a, table) \in [Positions -> RowStatus]
  BY DEF Promoted, RowStatus
<1>3. \A p : [table EXCEPT ![p] = "sending"] \in [Positions -> RowStatus]
  BY DEF RowStatus
<1> QED
  BY <1>1, <1>2, <1>3

\* A loop writes rows only.
LEMMA RowsTyped ==
  ASSUME TInv, UNCHANGED <<deployment, transfers, scannedTo>>, rows' \in [Positions -> RowStatus]
  PROVE  LedgerTyped'
BY SameDeployment DEF TInv, LedgerTyped

\* Going on with a wave, or stopping.
LEMMA ContinueTyped ==
  ASSUME TInv, deployment' = deployment, UNCHANGED job, NEW r \in Consumers,
         NEW wave, SoundWave(r, wave), OneWave(wave),
         NEW table \in [Positions -> RowStatus], Continue(r, wave, table)
  PROVE  LoopsTyped' /\ AskedTyped' /\ AnswersTyped' /\ rows' \in [Positions -> RowStatus]
<1>1. CASE wave.todo = {} \/ (OwnIn(r, wave.range) = {} /\ ~wave.armed)
  <2>1. /\ loop' = [loop EXCEPT ![r] = Stopped(wave)] /\ rows' = table /\ UNCHANGED lane
        /\ answer' = [answer EXCEPT ![r] = "none"]
    BY <1>1 DEF Continue
  <2> QED
    BY <2>1, StoppedOne, LoopsAfter, TakenTyped
<1>2. CASE ~(wave.todo = {} \/ (OwnIn(r, wave.range) = {} /\ ~wave.armed))
  <2>1. /\ loop' = [loop EXCEPT ![r] = wave]
        /\ rows' = [table EXCEPT ![Min(wave.todo)] = "sending"]
        /\ submit(RequestOf(r, wave))
    BY <1>2 DEF Continue
  <2>2. RequestTyped(RequestOf(r, wave))
    BY DEF RequestOf, ReleaseRequest, MintRequest, RequestTyped, Callers
  <2> QED
    BY <2>1, <2>2, LoopsAfter, SubmitTyped, TableTyped
<1> QED
  BY <1>1, <1>2

\* One case for each step of a loop.
LEMMA LoopTyped ==
  ASSUME TInv, NEW r \in Consumers,
         (r = Escrow /\ EscrowTick) \/ mintAsset(r) \/ TakeAnswer(r) \/ confirm(r)
  PROVE  LedgerTyped' /\ AskedTyped' /\ AnswersTyped' /\ LoopsTyped'
<1>0. /\ SoundWave(r, loop[r]) /\ OneWave(loop[r]) /\ rows \in [Positions -> RowStatus]
      /\ deployment \in Deployments /\ loop[r] \in Waves
  BY DEF TInv, RInv, Base, Waving, LoopsTyped, LedgerTyped, SoundWave
<1>1. CASE r = Escrow /\ refreshCoverage
  <2> DEFINE w == [loop[r] EXCEPT !.pc = "refreshed"]
  <2>1. /\ UNCHANGED <<deployment, transfers, scannedTo, lane, job, answer>>
        /\ rows' = Promoted(r, zkapp[r].accepted, rows) /\ loop' = [loop EXCEPT ![r] = w]
    BY <1>1 DEF refreshCoverage, escrowState, workerVars, jobVars
  <2>2. w.todo = loop[r].todo /\ w.sent = loop[r].sent
    BY <1>0 DEF Waves
  <2> HIDE DEF w
  <2>3. OneWave(w)
    BY <1>0, <2>2 DEF OneWave
  <2> QED
    BY <1>0, <2>1, <2>3, LoopsAfter, TableTyped, RowsTyped, TypedFrame
<1>2. CASE r = Escrow /\ release
  <2> DEFINE pending == Waiting(r, rows)
             index == transferIndexOf(zkapp[r].cursor)
             past == {p \in pending : index # Null /\ p <= index}
             range == transferRange(zkapp[r].cursor, zkapp[r].accepted)
             wave == Wave(Oldest(WAVE, pending) \ past, range, FALSE, {})
  <2>1. /\ UNCHANGED <<deployment, transfers, scannedTo, job>>
        /\ \/ rows' = Settled(past, rows) /\ loop' = [loop EXCEPT ![r] = Idle]
              /\ UNCHANGED <<lane, answer>>
           \/ range # Null /\ Continue(r, wave, Settled(past, rows))
    BY <1>2 DEF release, escrowState, jobVars
  <2>2. pending \subseteq RowsOf(r) /\ RowsOf(r) \subseteq Positions
    BY DEF Waiting, RowsOf
  <2>3. Oldest(WAVE, pending) \ past \subseteq RowsOf(r)
    BY <2>2 DEF Oldest
  <2>4. range # Null => SoundWave(r, wave)
    BY <2>3, WaveSound DEF TInv
  <2>5. OneWave(wave)
    BY <2>2, WaveOne
  <2> HIDE DEF pending, past, range, wave
  <2>6. Settled(past, rows) \in [Positions -> RowStatus]
    BY <1>0, TableTyped
  <2>7. CASE range # Null /\ Continue(r, wave, Settled(past, rows))
    BY <2>1, <2>4, <2>5, <2>6, <2>7, ContinueTyped, RowsTyped
  <2>8. CASE rows' = Settled(past, rows) /\ loop' = [loop EXCEPT ![r] = Idle] /\ UNCHANGED <<lane, answer>>
    BY <1>0, <2>1, <2>6, <2>8, IdleOne, LoopsAfter, RowsTyped, TypedFrame
  <2> QED
    BY <2>1, <2>7, <2>8
<1>3. CASE mintAsset(r)
  <2> DEFINE state == zkapp[r]
             promoted == Promoted(r, state.accepted, rows)
             queue == Waiting(r, promoted)
             index == transferIndexOf(state.cursor)
             armed == state.mintAuthorization # NO_MINT_AUTHORIZED
             past == {p \in Oldest(WAVE, queue) : /\ index # Null /\ p <= index
                                                  /\ ~(armed /\ p = index)}
             range == transferRange(state.cursor, state.accepted)
             wave == Wave(Oldest(WAVE, queue) \ past, range, armed, armedCandidates(r, index))
  <2>1. /\ UNCHANGED <<deployment, transfers, scannedTo, job>>
        /\ \/ rows' = promoted /\ UNCHANGED <<loop, lane, answer>>
           \/ range # Null /\ Continue(r, wave, Settled(past, promoted))
    BY <1>3 DEF mintAsset, portState, jobVars
  <2>2. queue \subseteq RowsOf(r) /\ RowsOf(r) \subseteq Positions
    BY DEF Waiting, RowsOf
  <2>3. Oldest(WAVE, queue) \ past \subseteq RowsOf(r)
    BY <2>2 DEF Oldest
  <2>4. range # Null => SoundWave(r, wave)
    <3>1. armedCandidates(r, index) \subseteq RowsOf(r) /\ armed \in BOOLEAN
      BY DEF armedCandidates
    <3> QED
      BY <2>3, <3>1, WaveSound DEF TInv
  <2>5. OneWave(wave)
    BY <2>2, WaveOne
  <2>6. promoted \in [Positions -> RowStatus]
    BY <1>0, TableTyped
  <2> HIDE DEF promoted, queue, past, range, wave
  <2>7. Settled(past, promoted) \in [Positions -> RowStatus]
    BY <2>6, TableTyped
  <2>8. CASE range # Null /\ Continue(r, wave, Settled(past, promoted))
    BY <2>1, <2>4, <2>5, <2>7, <2>8, ContinueTyped, RowsTyped
  <2>9. CASE rows' = promoted /\ UNCHANGED <<loop, lane, answer>>
    BY <2>1, <2>6, <2>9, RowsTyped, TypedFrame
  <2> QED
    BY <2>1, <2>8, <2>9
<1>4. CASE TakeAnswer(r)
  <2> DEFINE wave == SentOne(r, loop[r])
  <2>1. /\ UNCHANGED <<deployment, transfers, scannedTo, job>>
        /\ loop[r].pc = "wait"
        /\ \/ Continue(r, wave, rows)
           \/ /\ loop' = [loop EXCEPT ![r] = Stopped(loop[r])] /\ UNCHANGED <<rows, lane>>
              /\ answer' = [answer EXCEPT ![r] = "none"]
    BY <1>4 DEF TakeAnswer, jobVars
  <2>2. SoundWave(r, wave) /\ OneWave(wave)
    BY <2>1, SentOneSound, SentOneOne DEF TInv
  <2> HIDE DEF wave
  <2>3. CASE Continue(r, wave, rows)
    BY <1>0, <2>1, <2>2, <2>3, ContinueTyped, RowsTyped
  <2>4. CASE /\ loop' = [loop EXCEPT ![r] = Stopped(loop[r])] /\ UNCHANGED <<rows, lane>>
             /\ answer' = [answer EXCEPT ![r] = "none"]
    BY <1>0, <2>1, <2>4, StoppedOne, LoopsAfter, TakenTyped, TypedFrame
  <2> QED
    BY <2>1, <2>3, <2>4
<1>5. CASE confirm(r)
  <2> DEFINE passed == Passed(r, loop[r].sent)
             left == loop[r].sent \ passed
             w == IF left = {} THEN Idle ELSE [loop[r] EXCEPT !.sent = left]
  <2>1. /\ UNCHANGED <<deployment, transfers, scannedTo, lane, job, answer>>
        /\ rows' = Settled(passed, rows) /\ loop' = [loop EXCEPT ![r] = w]
    BY <1>5 DEF confirm, workerVars, jobVars
  <2>2. OneWave([loop[r] EXCEPT !.sent = left])
    <3> DEFINE v == [loop[r] EXCEPT !.sent = left]
    <3>1. v.todo = loop[r].todo /\ v.sent = left /\ left \subseteq loop[r].sent
      BY <1>0 DEF Waves
    <3> HIDE DEF v, left
    <3>2. v.todo \union v.sent \subseteq loop[r].todo \union loop[r].sent
      BY <3>1
    <3>3. loop[r].todo \union loop[r].sent \subseteq Positions
      BY <1>0 DEF Waves
    <3>4. Cardinality(v.todo \union v.sent) <= WAVE
      BY <1>0, <3>2, <3>3, FewerRows DEF OneWave
    <3>5. OneWave(v)
      BY <1>0, <3>1, <3>4 DEF OneWave
    <3> QED
      BY <3>5 DEF v
  <2>3. OneWave(w)
    BY <1>0, <2>2, IdleOne
  <2> HIDE DEF passed, w
  <2> QED
    BY <1>0, <2>1, <2>3, LoopsAfter, TableTyped, RowsTyped, TypedFrame
<1> QED
  BY <1>1, <1>2, <1>3, <1>4, <1>5 DEF EscrowTick

\* The head goes on, or the tick is over.
LEMMA PublishToTyped ==
  ASSUME TInv, deployment' = deployment, UNCHANGED job,
         NEW state, state.head \in HeadsSeen, state.behind \subseteq Consumers,
         DOMAIN state = {"pc", "head", "policy", "behind"}, state.policy \in PoliciesOrNone,
         NEW marks \in [Consumers -> HeadsSeen \union {Null}], PublishTo(state, marks)
  PROVE  PublisherTyped' /\ AskedTyped' /\ AnswersTyped'
<1>0. HeadsSeen' = HeadsSeen /\ Consumers' = Consumers
  BY SameDeployment
<1>1. CASE state.behind = {}
  <2>1. /\ pub' = PublisherIdle /\ inFlight' = marks /\ UNCHANGED lane
        /\ answer' = [answer EXCEPT !["publisher"] = "none"]
    BY <1>1 DEF PublishTo
  <2>2. PublisherTyped'
    BY <1>0, <2>1 DEF PublisherTyped, PublisherIdle, PoliciesOrNone
  <2> QED
    BY <2>1, <2>2, TakenTyped
<1>2. CASE state.behind # {}
  <2> DEFINE r == NextConsumer(state.behind)
             q == PublishRequest(r, state.head, state.policy)
  <2>1. /\ pub' = [state EXCEPT !.pc = "wait"] /\ submit(q)
        /\ inFlight' = [marks EXCEPT ![r] = state.head]
    BY <1>2 DEF PublishTo
  <2>2. PublisherTyped'
    BY <1>0, <2>1 DEF PublisherTyped, PoliciesOrNone
  <2>3. RequestTyped(q)
    BY DEF RequestTyped, PublishRequest, Callers
  <2> HIDE DEF q
  <2> QED
    BY <2>1, <2>2, <2>3, SubmitTyped
<1> QED
  BY <1>1, <1>2

\* One case for each step of the publisher.
LEMMA PublisherStepTyped ==
  ASSUME TInv, PublisherStep
  PROVE  PublisherTyped' /\ AskedTyped' /\ AnswersTyped'
<1>0. /\ deployment' = deployment /\ UNCHANGED job
      /\ pub.head \in HeadsSeen /\ pub.behind \subseteq Consumers
      /\ DOMAIN pub = {"pc", "head", "policy", "behind"} /\ pub.policy \in PoliciesOrNone
      /\ inFlight \in [Consumers -> HeadsSeen \union {Null}]
      /\ policy \in PoliciesOrNone
  <2>1. policy \in Policies
    BY DeploymentTyped DEF TInv, RInv, Base, CountsTyped
  <2> QED
    BY <2>1 DEF TInv, RInv, Publishing, PublisherTyped, PublisherStep, publish, attestationFor,
                PublicationAnswered, ledgerVars, workerVars, jobVars, PoliciesOrNone
<1>1. CASE publish
  <2>1. /\ UNCHANGED <<inFlight, lane, answer>>
        /\ \E behind : pub' = [PublisherIdle EXCEPT !.pc = "attest", !.head = flareLen,
                                                    !.behind = behind]
    BY <1>1 DEF publish, workerVars
  <2>2. pub'.pc = "attest" /\ pub'.policy = NoPolicy
    BY <2>1 DEF PublisherIdle
  <2>3. PublisherTyped'
    BY <1>0, <2>1, <2>2, SameDeployment DEF PublisherTyped, PoliciesOrNone
  <2> QED
    BY <1>0, <2>1, <2>3, TypedFrame
<1>2. CASE attestationFor
  <2> DEFINE state == [pub EXCEPT !.policy = policy]
  <2>1. PublishTo(state, inFlight)
    BY <1>2 DEF attestationFor
  <2>2. /\ state.head = pub.head /\ state.behind = pub.behind /\ state.policy = policy
        /\ DOMAIN state = {"pc", "head", "policy", "behind"}
    BY <1>0
  <2> HIDE DEF state
  <2> QED
    BY <1>0, <2>1, <2>2, PublishToTyped
<1>3. CASE PublicationAnswered
  <2> DEFINE r == NextConsumer(pub.behind)
             state == [pub EXCEPT !.behind = @ \ {r}]
             marks == IF answer["publisher"] = "failed"
                      THEN [inFlight EXCEPT ![r] = Null] ELSE inFlight
  <2>1. PublishTo(state, marks)
    BY <1>3 DEF PublicationAnswered
  <2>2. /\ state.head = pub.head /\ state.behind \subseteq pub.behind
        /\ state.policy = pub.policy /\ DOMAIN state = {"pc", "head", "policy", "behind"}
    BY <1>0
  <2>3. marks \in [Consumers -> HeadsSeen \union {Null}]
    BY <1>0
  <2> HIDE DEF state, marks
  <2> QED
    BY <1>0, <2>1, <2>2, <2>3, PublishToTyped
<1> QED
  BY <1>1, <1>2, <1>3 DEF PublisherStep

\* A marker that expires.
LEMMA ExpireTyped ==
  ASSUME TInv, NEW r, Expire(r)
  PROVE  PublisherTyped'
<1>1. /\ deployment' = deployment /\ pub' = pub /\ inFlight' = [inFlight EXCEPT ![r] = Null]
  BY DEF Expire, ledgerVars
<1>2. inFlight' \in [Consumers -> HeadsSeen \union {Null}]
  BY <1>1 DEF TInv, PublisherTyped
<1> QED
  BY <1>1, <1>2, SameDeployment DEF TInv, PublisherTyped

\* A wave that is given up.
LEMMA GiveUpTyped ==
  ASSUME TInv, NEW r \in Consumers, GiveUp(r)
  PROVE  LoopsTyped'
BY IdleOne, LoopsAfter DEF GiveUp, ledgerVars, TInv, RInv, Base

\* A restart.
LEMMA CrashTyped ==
  ASSUME TInv, Crash
  PROVE  LedgerTyped' /\ MinaTyped' /\ WorkTyped' /\ LoopsTyped' /\ PublisherTyped'
<1>1. /\ deployment' = deployment
      /\ UNCHANGED <<transfers, rows, zkapp, accounts, pool, delivered>>
      /\ lane' = << >> /\ job' = Null /\ answer' = [c \in Callers |-> "none"]
      /\ predictedCursor' = [r \in Consumers |-> Null] /\ fundedThisWave' = {}
      /\ predictedNonce' = Null /\ issuedNonce' = Null
      /\ loop' = [r \in Consumers |-> Idle] /\ pub' = PublisherIdle
      /\ inFlight' = [r \in Consumers |-> Null] /\ scannedTo' = Null
  BY DEF Crash, WorkerRestarts, poolVars
<1>2. LedgerTyped'
  BY <1>1, SameDeployment DEF TInv, LedgerTyped
<1>3. AskedTyped'
  BY <1>1 DEF AskedTyped, JobTyped, Range
<1>4. AnswersTyped' /\ BelievedTyped'
  BY <1>1, SameTerms, SameDeployment DEF AnswersTyped, BelievedTyped, NoncesOrNull
<1>5. LoopsTyped'
  <2>1. OneWave(Idle)
    BY IdleOne DEF TInv, RInv, Base
  <2> HIDE DEF Idle
  <2> QED
    BY <1>1, <2>1, SameDeployment DEF LoopsTyped, OneWave
<1>6. PublisherTyped'
  BY <1>1, SameDeployment DEF PublisherTyped, PublisherIdle, PoliciesOrNone
<1> QED
  BY <1>1, <1>2, <1>3, <1>4, <1>5, <1>6, TypedFrame DEF MinaTyped, WorkTyped

\* One case for each thing that goes wrong.
LEMMA FaultTyped ==
  ASSUME TInv, Fault
  PROVE  /\ LedgerTyped' /\ MinaTyped' /\ WorkTyped' /\ LoopsTyped' /\ PublisherTyped'
         /\ CountsTyped'
<1> DEFINE Done == LedgerTyped' /\ MinaTyped' /\ WorkTyped' /\ LoopsTyped' /\ PublisherTyped'
<1>0. deployment' = deployment /\ policy' = policy
  BY DEF Fault, Crash, NotAttested, GiveUp, Expire, ledgerVars
<1>1. CountsTyped'
  <2>1. faults' = faults + 1 /\ faults < deployment.faults /\ deployment.faults \in Nat
    BY DeploymentTyped DEF Fault, TInv, RInv, Base
  <2> QED
    BY <1>0, <2>1 DEF TInv, CountsTyped
<1>2. CASE Crash
  BY <1>1, <1>2, CrashTyped
<1>3. CASE NotAttested
  <2>1. /\ UNCHANGED <<transfers, rows, scannedTo, zkapp, accounts, pool, delivered, lane, answer,
                       job, predictedCursor, fundedThisWave, predictedNonce, issuedNonce, loop,
                       inFlight>>
        /\ pub' = PublisherIdle
    BY <1>3 DEF NotAttested, ledgerVars, poolVars, workerVars, jobVars, nonceVars
  <2>2. PublisherTyped'
    BY <1>0, <2>1, SameDeployment DEF TInv, PublisherTyped, PublisherIdle, PoliciesOrNone
  <2> QED
    BY <1>0, <1>1, <2>1, <2>2, TypedFrame DEF MinaTyped, WorkTyped
<1>4. CASE Drop /\ UNCHANGED <<ledgerVars, workerVars, loopVars, policy>>
  <2>1. /\ UNCHANGED <<transfers, rows, scannedTo, zkapp, accounts, delivered, lane, answer,
                       job, predictedCursor, fundedThisWave, predictedNonce, issuedNonce, loop,
                       pub, inFlight>>
        /\ \E n \in 0 .. Len(pool) - 1 : pool' = SubSeq(pool, 1, n)
    BY <1>4 DEF Drop, ledgerVars, workerVars, jobVars, nonceVars, loopVars
  <2>2. PICK n \in 0 .. Len(pool) : pool' = SubSeq(pool, 1, n)
    BY <2>1 DEF TInv, RInv, Pooled
  <2>3. PoolTyped'
    BY <1>0, <2>1, <2>2, PrefixInRange, SameTerms DEF TInv, RInv, Pooled, PoolTyped
  <2> QED
    BY <1>0, <1>1, <2>1, <2>3, TypedFrame DEF MinaTyped, WorkTyped
<1>5. CASE (ReadFails \/ (pool # << >> /\ settle)) /\ UNCHANGED <<ledgerVars, loopVars, policy>>
  <2>1. UNCHANGED <<transfers, rows, scannedTo, loop, pub, inFlight>>
    BY <1>5 DEF ledgerVars, loopVars
  <2>2. MinaTyped' /\ WorkTyped'
    <3>1. CASE ReadFails
      <4>1. job # Null /\ Fail(issuedNonce) /\ issuedNonce \in NoncesOrNull
        BY <3>1 DEF ReadFails, TInv, BelievedTyped
      <4> QED
        BY <1>0, <4>1, FailTyped
    <3>2. CASE settle
      <4>1. /\ job # Null /\ Answered
            /\ UNCHANGED <<lane, predictedCursor, fundedThisWave, predictedNonce, issuedNonce,
                           zkapp, accounts, pool, delivered>>
        BY <3>2 DEF settle, At, nonceVars, poolVars
      <4> QED
        BY <1>0, <4>1, AnswerTyped, TypedFrame DEF MinaTyped, WorkTyped, Answered
    <3> QED
      BY <1>5, <3>1, <3>2
  <2> QED
    BY <1>0, <1>1, <2>1, <2>2, TypedFrame
<1>6. ASSUME NEW r \in Consumers, StrayPublication(r),
             UNCHANGED <<ledgerVars, workerVars, loopVars, policy>>
      PROVE  Done
  <2>1. UNCHANGED <<transfers, rows, scannedTo, lane, answer, job, predictedCursor,
                    fundedThisWave, predictedNonce, issuedNonce, loop, pub, inFlight>>
    BY <1>6 DEF ledgerVars, workerVars, jobVars, nonceVars, loopVars
  <2>2. MinaTyped'
    BY <1>0, <1>6, StrayTyped DEF MinaTyped
  <2> QED
    BY <1>0, <2>1, <2>2, TypedFrame DEF WorkTyped
<1>7. ASSUME NEW r \in Consumers, GiveUp(r)
      PROVE  Done
  <2>1. UNCHANGED <<transfers, rows, scannedTo, zkapp, accounts, pool, delivered, lane, answer,
                    job, predictedCursor, fundedThisWave, predictedNonce, issuedNonce, pub,
                    inFlight>>
    BY <1>7 DEF GiveUp, ledgerVars, poolVars, workerVars, jobVars, nonceVars
  <2> QED
    BY <1>0, <1>7, <2>1, GiveUpTyped, TypedFrame DEF MinaTyped, WorkTyped
<1>8. ASSUME NEW r \in Consumers, Expire(r)
      PROVE  Done
  <2>1. UNCHANGED <<transfers, rows, scannedTo, zkapp, accounts, pool, delivered, lane, answer,
                    job, predictedCursor, fundedThisWave, predictedNonce, issuedNonce, loop>>
    BY <1>8 DEF Expire, ledgerVars, poolVars, workerVars, jobVars, nonceVars
  <2> QED
    BY <1>0, <1>8, <2>1, ExpireTyped, TypedFrame DEF MinaTyped, WorkTyped
<1> QED
  BY <1>1, <1>2, <1>3, <1>4, <1>5, <1>6, <1>7, <1>8 DEF Fault

\* At the start everything is typed.
LEMMA InitTyped == Init => TInv
<1> SUFFICES ASSUME Init PROVE TInv
  OBVIOUS
<1>1. RInv
  BY InitRInv
<1>2. /\ deployment \in Deployments /\ 0 \in HeadsSeen
      /\ deployment.policies \in Nat \ {0} /\ deployment.faults \in Nat
  BY <1>1, ChainTyped, DeploymentTyped DEF RInv, Base, HeadsSeen
<1>3. LedgerTyped
  BY DEF Init, LedgerInit, LedgerTyped, RowStatus
<1>4. ZkappsTyped
  <2> DEFINE z == [signingPolicyRoot |-> NoPolicy, accepted |-> 0, cursor |-> 0,
                   mintAuthorization |-> NO_MINT_AUTHORIZED]
  <2>1. z \in ZkappState /\ z.mintAuthorization = NO_MINT_AUTHORIZED
    BY <1>2 DEF ZkappState, Commitments
  <2>2. zkapp = [r \in Consumers |-> z]
    BY DEF Init, PoolInit
  <2> HIDE DEF z
  <2> QED
    BY <2>1, <2>2 DEF ZkappsTyped
<1>5. PaidTyped /\ PoolTyped
  BY DEF Init, PoolInit, PaidTyped, PoolTyped, Range
<1>6. AskedTyped /\ BelievedTyped /\ AnswersTyped
  BY DEF Init, WorkerInit, AskedTyped, JobTyped, BelievedTyped, AnswersTyped, NoncesOrNull, Range
<1>7. LoopsTyped
  <2>1. OneWave(Idle) /\ loop = [r \in Consumers |-> Idle]
    BY <1>2, IdleOne DEF Init
  <2> HIDE DEF Idle
  <2> QED
    BY <2>1 DEF LoopsTyped
<1>8. PublisherTyped /\ CountsTyped
  BY <1>2 DEF Init, PublisherIdle, PublisherTyped, PoliciesOrNone, CountsTyped
<1> QED
  BY <1>1, <1>3, <1>4, <1>5, <1>6, <1>7, <1>8 DEF TInv

\* One case for each disjunct of Next.
LEMMA NextTyped == TInv /\ [Next]_vars => TInv'
<1> SUFFICES ASSUME TInv, [Next]_vars PROVE TInv'
  OBVIOUS
<1> DEFINE Done == /\ LedgerTyped' /\ MinaTyped' /\ WorkTyped' /\ LoopsTyped' /\ PublisherTyped'
                   /\ CountsTyped'
<1> SUFFICES Done
  BY NextRInv DEF TInv, MinaTyped, WorkTyped
<1>1. CASE UNCHANGED vars
  <2>1. UNCHANGED <<deployment, transfers, rows, scannedTo, zkapp, accounts, pool, delivered,
                    lane, answer, job, predictedCursor, fundedThisWave, predictedNonce,
                    issuedNonce, loop, pub, inFlight, policy, faults>>
    BY <1>1 DEF vars, ledgerVars, poolVars, workerVars, jobVars, nonceVars, loopVars
  <2> QED
    BY <2>1, TypedFrame DEF MinaTyped, WorkTyped
<1>2. CASE Flare \/ Watch
  <2>1. CASE NewPolicy
    <3>1. /\ UNCHANGED <<deployment, transfers, rows, scannedTo, zkapp, accounts, pool, delivered,
                         lane, answer, job, predictedCursor, fundedThisWave, predictedNonce,
                         issuedNonce, loop, pub, inFlight, faults>>
          /\ policy < deployment.policies /\ policy' = policy + 1
      BY <2>1 DEF NewPolicy, ledgerVars, poolVars, workerVars, jobVars, nonceVars, loopVars
    <3>2. CountsTyped'
      BY <3>1, DeploymentTyped DEF TInv, RInv, Base, CountsTyped
    <3> QED
      BY <3>1, <3>2, TypedFrame DEF MinaTyped, WorkTyped
  <2>2. CASE (RecordTransfer \/ watch) /\ UNCHANGED <<poolVars, workerVars, loopVars, policy, faults>>
    <3>1. UNCHANGED <<deployment, zkapp, accounts, pool, delivered, lane, answer, job,
                      predictedCursor, fundedThisWave, predictedNonce, issuedNonce, loop, pub,
                      inFlight, policy, faults>>
      BY <2>2 DEF RecordTransfer, watch, recordTransfer, recordWithdrawal, recordLock, InsertRow,
                  poolVars, workerVars, jobVars, nonceVars, loopVars
    <3>2. LedgerTyped'
      BY <2>2, <3>1, WatchTyped, TypedFrame DEF RecordTransfer
    <3> QED
      BY <3>1, <3>2, TypedFrame DEF MinaTyped, WorkTyped
  <2> QED
    BY <1>2, <2>1, <2>2 DEF Flare, Watch
<1>3. CASE Work
  <2>1. /\ UNCHANGED <<deployment, transfers, rows, scannedTo, loop, pub, inFlight, policy, faults>>
        /\ WorkerStep
    BY <1>3 DEF Work, ledgerVars, loopVars
  <2> QED
    BY <2>1, WorkerTyped, TypedFrame
<1>4. CASE Block
  <2>1. /\ UNCHANGED <<deployment, transfers, rows, scannedTo, loop, pub, inFlight, policy, faults,
                       lane, answer, predictedCursor, fundedThisWave>>
        /\ Apply
        /\ predictedNonce' = Nearer(predictedNonce) /\ issuedNonce' = Nearer(issuedNonce)
        /\ job' = IF job = Null THEN Null ELSE [job EXCEPT !.nonce = Nearer(@)]
    BY <1>4 DEF Block, Included, ledgerVars, loopVars
  <2>2. \A n \in Nonces : Nearer(n) \in Nonces \union {Null} /\ (n # Null => Nearer(n) \in Nonces)
    <3> SUFFICES ASSUME NEW n \in Nonces, n # Null PROVE Nearer(n) \in Nonces
      BY DEF Nearer
    <3> DEFINE a == -1
               b == n - 1
    <3>1. a \in Int /\ b \in Int /\ \A x \in Int : x >= a => x \in Nonces
      BY DEF Nonces
    <3> HIDE DEF a, b
    <3>2. Max({a, b}) \in Nonces
      BY <3>1, MaxOfTwo
    <3> QED
      BY <3>2 DEF Nearer, a, b
  <2>3. predictedNonce' \in NoncesOrNull /\ issuedNonce' \in NoncesOrNull
    BY <2>1, <2>2 DEF TInv, BelievedTyped, NoncesOrNull, Nearer
  <2>4. BelievedTyped'
    BY <2>1, <2>3, BelievesTyped
  <2>5. AskedTyped' /\ AnswersTyped'
    <3>1. CASE job = Null
      BY <2>1, <3>1, TypedFrame
    <3>2. CASE job # Null
      <4> DEFINE j == [job EXCEPT !.nonce = Nearer(@)]
      <4>1. JobTyped(job)
        BY DEF TInv, AskedTyped
      <4>2. Nearer(job.nonce) \in Nonces
        BY <2>2, <3>2, <4>1 DEF JobTyped
      <4>3. JobTyped(j)
        BY <3>2, <4>1, <4>2 DEF JobTyped
      <4> HIDE DEF j
      <4> QED
        BY <2>1, <3>2, <4>3, GoesOnTyped DEF j
    <3> QED
      BY <3>1, <3>2
  <2> QED
    BY <2>1, <2>4, <2>5, ApplyTyped, TypedFrame DEF MinaTyped, WorkTyped
<1>5. CASE Fault
  BY <1>5, FaultTyped
<1>6. CASE PublisherStep
  <2>1. UNCHANGED <<deployment, transfers, rows, scannedTo, zkapp, accounts, pool, delivered,
                    predictedCursor, fundedThisWave, predictedNonce, issuedNonce, loop, policy,
                    faults>>
    BY <1>6 DEF PublisherStep, publish, attestationFor, PublicationAnswered, ledgerVars, poolVars,
                workerVars, jobVars, nonceVars
  <2> QED
    BY <1>6, <2>1, PublisherStepTyped, TypedFrame DEF MinaTyped, WorkTyped
<1>7. ASSUME NEW r \in Consumers, LoopStep(r) \/ ExpireInTime(r)
      PROVE  Done
  <2>1. CASE GiveUp(r) /\ UNCHANGED faults
    <3>1. UNCHANGED <<deployment, transfers, rows, scannedTo, zkapp, accounts, pool, delivered, lane,
                      answer, job, predictedCursor, fundedThisWave, predictedNonce, issuedNonce,
                      pub, inFlight, policy, faults>>
      BY <2>1 DEF GiveUp, ledgerVars, poolVars, workerVars, jobVars, nonceVars
    <3> QED
      BY <2>1, <3>1, GiveUpTyped, TypedFrame DEF MinaTyped, WorkTyped
  <2>2. CASE ExpireInTime(r)
    <3>1. UNCHANGED <<deployment, transfers, rows, scannedTo, zkapp, accounts, pool, delivered, lane,
                      answer, job, predictedCursor, fundedThisWave, predictedNonce, issuedNonce,
                      loop, policy, faults>>
      BY <2>2 DEF ExpireInTime, Expire, ledgerVars, poolVars, workerVars, jobVars, nonceVars
    <3> QED
      BY <2>2, <3>1, ExpireTyped, TypedFrame DEF MinaTyped, WorkTyped, ExpireInTime
  <2>3. CASE (r = Escrow /\ EscrowTick) \/ mintAsset(r) \/ TakeAnswer(r) \/ confirm(r)
    <3>1. UNCHANGED <<deployment, zkapp, accounts, pool, delivered, predictedCursor,
                      fundedThisWave, predictedNonce, issuedNonce, pub, inFlight, policy, faults>>
      BY <2>3 DEF EscrowTick, refreshCoverage, release, mintAsset, TakeAnswer, confirm,
                  poolVars, workerVars, jobVars, nonceVars
    <3> QED
      BY <2>3, <3>1, LoopTyped, TypedFrame DEF MinaTyped, WorkTyped
  <2> QED
    BY <1>7, <2>1, <2>2, <2>3 DEF LoopStep
<1> QED
  BY <1>1, <1>2, <1>3, <1>4, <1>5, <1>6, <1>7 DEF Next

\* Every variable keeps its type; and a wave is never larger than WAVE, nor is a
\* row in it both sent and to be sent (withdrawals.ts, assets.ts).
THEOREM RelayerTypeCorrect == Spec => []TypeOK
<1>1. TInv => TypeOK
  <2> SUFFICES ASSUME TInv PROVE TypeOK
    OBVIOUS
  <2>1. LedgerTypeOK
    BY DEF TInv, RInv, Base, LedgerTyped, LedgerTypeOK
  <2>2. PoolTypeOK
    <3>1. \A i \in DOMAIN pool : TxTyped(pool[i])
      BY DEF TInv, PoolTyped, Range
    <3> QED
      BY <3>1 DEF TInv, ZkappsTyped, PaidTyped, TxTyped, PoolTypeOK
  <2>3. WorkerTypeOK
    BY DEF TInv, BelievedTyped, AnswersTyped, NoncesOrNull, WorkerTypeOK
  <2>4. ASSUME NEW r \in Consumers
        PROVE  /\ loop[r].pc \in {"idle", "refreshed", "wait", "confirm"}
               /\ loop[r].todo \union loop[r].sent \subseteq RowsOf(r)
               /\ loop[r].todo \intersect loop[r].sent = {}
               /\ Cardinality(loop[r].todo \union loop[r].sent) <= WAVE
    BY DEF TInv, RInv, Waving, SoundWave, Waves, LoopsTyped, OneWave
  <2>5. policy \in Policies
    BY DeploymentTyped DEF TInv, RInv, Base, CountsTyped
  <2> QED
    BY <2>1, <2>2, <2>3, <2>4, <2>5
       DEF TInv, RInv, Publishing, PublisherTyped, CountsTyped, TypeOK
<1> QED
  BY InitTyped, NextTyped, <1>1, PTL DEF Spec
=============================================================================
