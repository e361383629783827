------------------------- MODULE PositionExitProofs -------------------------
(***************************************************************************)
(* Proofs about PositionExit, for every quantity, retry limit, percentage, *)
(* set of modes and set of faults allowed by its assumptions.              *)
(***************************************************************************)
EXTENDS PositionExit, TLAPS

(***************************************************************************)
(* TypeOK is not inductive: realized stays below Qty only because a sale   *)
(* moves tokens from remaining to realized, and the one correction that    *)
(* may raise remaining is made while nothing has been realized.            *)
(***************************************************************************)
WithinEntry(p) == p.remaining + p.realized <= Qty

EntryUnpaid(p) ==
  p.status = "RECONCILE_PENDING" /\ p.context = "entry" => p.realized = 0

GoodPosition(p) == p \in Position /\ WithinEntry(p) /\ EntryUnpaid(p)

TypeInv ==
  /\ TypeOK
  /\ GoodPosition(pos)
  /\ GoodPosition(disk)

-----------------------------------------------------------------------------
(* Arithmetic *)

LEMMA PartType ==
  ASSUME NEW q \in Nat, NEW pct \in 1..100
  PROVE  Part(q, pct) \in Nat /\ Part(q, pct) \in Int
  BY DEF Part, Larger

\* What is asked for is never more than the position has.
LEMMA WantedBounded ==
  ASSUME NEW p \in Position, NEW q \in Wanted(p)
  PROVE  q \in 0..p.remaining
<1> USE QtyAssumption, PercentAssumption
<1>1. p.remaining \in Nat /\ p.pendingQty \in Nat /\ p.dripLeft \in Nat
  BY DEF Position
<1>2. CASE p.drip
  <2>1. CASE q = Smaller(p.pendingQty, p.remaining)
    BY <1>1, <2>1 DEF Smaller
  <2>2. ASSUME NEW pct \in ChunkPcts,
               q = Smaller(Part(p.remaining, pct),
                           IF p.dripLeft > 0 THEN Smaller(p.remaining, p.dripLeft)
                                             ELSE p.remaining)
        PROVE  q \in 0..p.remaining
    <3>1. Part(p.remaining, pct) \in Nat
      BY <1>1, PartType
    <3> QED BY <1>1, <2>2, <3>1 DEF Smaller
  <2> QED BY <1>2, <2>1, <2>2 DEF Wanted
<1>3. CASE ~p.drip
  BY <1>1, <1>3 DEF Wanted, Smaller
<1> QED BY <1>2, <1>3

LEMMA CountedType ==
  ASSUME NEW r \in 0..RetryCap
  PROVE  Counted(r) \in 0..RetryCap
  BY RetryMaxAssumption DEF Counted, Smaller, RetryCap

-----------------------------------------------------------------------------
(* Each result of a sale leaves a good position. *)

LEMMA ClearDripGood ==
  ASSUME NEW p, GoodPosition(p)
  PROVE  GoodPosition(ClearDrip(p))
<1>1. 0 \in 0..Qty
  BY QtyAssumption
<1>2. ClearDrip(p) \in Position
  BY <1>1 DEF GoodPosition, ClearDrip, Position
<1>3. /\ ClearDrip(p).remaining = p.remaining /\ ClearDrip(p).realized = p.realized
      /\ ClearDrip(p).status = p.status /\ ClearDrip(p).context = p.context
  BY DEF GoodPosition, ClearDrip, Position
<1> QED BY <1>2, <1>3 DEF GoodPosition, WithinEntry, EntryUnpaid

LEMMA ReconcileExitGood ==
  ASSUME NEW p, GoodPosition(p)
  PROVE  GoodPosition(ReconcileExit(p))
<1>1. Counted(ClearDrip(p).retries) \in 0..RetryCap
  BY CountedType, ClearDripGood DEF GoodPosition, Position
<1>2. GoodPosition(ClearDrip(p))
  BY ClearDripGood
<1> QED BY <1>1, <1>2 DEF GoodPosition, ReconcileExit, Position, WithinEntry, EntryUnpaid, Statuses

LEMMA FailedSaleGood ==
  ASSUME NEW p, GoodPosition(p)
  PROVE  GoodPosition(FailedSale(p))
<1>1. Counted(ClearDrip(p).retries) \in 0..RetryCap
  BY CountedType, ClearDripGood DEF GoodPosition, Position
<1>2. GoodPosition(ClearDrip(p))
  BY ClearDripGood
<1> QED BY <1>1, <1>2 DEF GoodPosition, FailedSale, Position, WithinEntry, EntryUnpaid, Statuses

LEMMA ThresholdFailureGood ==
  ASSUME NEW p, GoodPosition(p), NEW q \in 0..Qty
  PROVE  GoodPosition(ThresholdFailure(p, q))
  BY ClearDripGood
  DEF GoodPosition, ThresholdFailure, Position, WithinEntry, EntryUnpaid, Statuses, Reasons

LEMMA SkippedSaleGood ==
  ASSUME NEW p, GoodPosition(p)
  PROVE  GoodPosition(SkippedSale(p))
  BY ClearDripGood DEF GoodPosition, SkippedSale, Position, WithinEntry, EntryUnpaid, Statuses

LEMMA UnconfirmedSaleGood ==
  ASSUME NEW p, GoodPosition(p), NEW sig \in {"none", "landed", "dropped"}
  PROVE  GoodPosition(UnconfirmedSale(p, sig))
  BY ReconcileExitGood DEF GoodPosition, UnconfirmedSale, Position, WithinEntry, EntryUnpaid

LEMMA UnpaidSaleGood ==
  ASSUME NEW p, GoodPosition(p), NEW q \in Nat, NEW sig \in {"none", "landed", "dropped"}
  PROVE  GoodPosition(UnpaidSale(p, q, sig))
<1> DEFINE r == ReconcileExit(p)
<1>1. GoodPosition(r) /\ r.context = "exit"
  BY ReconcileExitGood DEF ReconcileExit, ClearDrip, GoodPosition, Position
<1>2. 0 \in 0..Qty /\ Larger(0, r.remaining - q) \in 0..r.remaining /\ r.remaining \in 0..Qty
  BY <1>1, QtyAssumption DEF GoodPosition, Position, Larger
<1>3. r.realized \in 0..Qty
  BY <1>1 DEF GoodPosition, Position
<1> HIDE DEF r
<1>4. UnpaidSale(p, q, sig) =
        [r EXCEPT !.remaining = Larger(0, @ - q), !.pendingQty = 0, !.signature = sig]
  BY DEF UnpaidSale, r
<1>5. UnpaidSale(p, q, sig) \in Position
  <2>1. Larger(0, r.remaining - q) \in 0..Qty
    BY <1>2, QtyAssumption
  <2> QED BY <1>1, <1>2, <1>4, <2>1 DEF GoodPosition, Position
<1>6. /\ UnpaidSale(p, q, sig).remaining = Larger(0, r.remaining - q)
      /\ UnpaidSale(p, q, sig).realized = r.realized
      /\ UnpaidSale(p, q, sig).context = "exit"
  BY <1>1, <1>4 DEF GoodPosition, Position
<1>7. Larger(0, r.remaining - q) + r.realized <= Qty
  <2>1. r.remaining + r.realized <= Qty
    BY <1>1 DEF GoodPosition, WithinEntry
  <2> QED BY <1>2, <1>3, <2>1, QtyAssumption
<1> QED BY <1>5, <1>6, <1>7 DEF GoodPosition, WithinEntry, EntryUnpaid

LEMMA BookedSaleGood ==
  ASSUME NEW p, GoodPosition(p), NEW q \in 0..p.remaining, NEW armHachi \in BOOLEAN
  PROVE  GoodPosition(BookedSale(p, q, armHachi))
<1> DEFINE left == Larger(0, p.dripLeft - q)
           sold == [p EXCEPT !.remaining = Larger(0, @ - q), !.realized = @ + q,
                             !.retries = 0, !.waiting = FALSE, !.pendingQty = 0,
                             !.reason = "none", !.signature = "none", !.context = "none"]
<1>1. left \in 0..Qty
  BY QtyAssumption DEF GoodPosition, Position, Larger
<1>2. GoodPosition(sold) /\ sold.context = "none"
  <2>1. /\ Larger(0, p.remaining - q) \in 0..Qty /\ p.realized + q \in 0..Qty
        /\ Larger(0, p.remaining - q) + (p.realized + q) <= Qty
    BY QtyAssumption DEF GoodPosition, Position, WithinEntry, Larger
  <2>2. 0 \in 0..RetryCap /\ 0 \in 0..Qty
    BY QtyAssumption, RetryMaxAssumption DEF RetryCap
  <2>3. sold \in Position
    BY <2>1, <2>2 DEF GoodPosition, Position, Reasons
  <2>4. /\ sold.remaining = Larger(0, p.remaining - q) /\ sold.realized = p.realized + q
        /\ sold.context = "none"
    BY DEF GoodPosition, Position
  <2> QED BY <2>1, <2>3, <2>4 DEF GoodPosition, WithinEntry, EntryUnpaid
<1>3. GoodPosition([sold EXCEPT !.dripLeft = left, !.chunkWaiting = TRUE, !.pendingQty = left,
                                !.reason = "take_profit", !.status = "EXIT_PENDING"])
  <2> HIDE DEF sold, left
  <2> QED BY <1>1, <1>2 DEF GoodPosition, Position, WithinEntry, EntryUnpaid, Statuses, Reasons
<1>4. ASSUME NEW e, GoodPosition(e), e.context = "none"
      PROVE  /\ GoodPosition([e EXCEPT !.status = "CLOSED"])
             /\ GoodPosition([e EXCEPT !.status = "PARTIAL", !.chunkWaiting = @ \/ armHachi])
  BY <1>4 DEF GoodPosition, Position, WithinEntry, EntryUnpaid, Statuses
<1>5. GoodPosition(ClearDrip(sold)) /\ ClearDrip(sold).context = "none"
  <2> HIDE DEF sold
  <2> QED BY <1>2, ClearDripGood DEF ClearDrip, GoodPosition, Position
<1> DEFINE ended == IF sold.drip THEN ClearDrip(sold) ELSE sold
<1>6. GoodPosition(ended) /\ ended.context = "none"
  <2> HIDE DEF sold
  <2> QED BY <1>2, <1>5
<1>7. BookedSale(p, q, armHachi) =
        IF sold.drip /\ sold.remaining > 0 /\ left > 0
        THEN [sold EXCEPT !.dripLeft = left, !.chunkWaiting = TRUE, !.pendingQty = left,
                          !.reason = "take_profit", !.status = "EXIT_PENDING"]
        ELSE IF sold.remaining = 0
        THEN [ended EXCEPT !.status = "CLOSED"]
        ELSE [ended EXCEPT !.status = "PARTIAL", !.chunkWaiting = @ \/ armHachi]
  BY DEF BookedSale
<1> HIDE DEF sold, left, ended
<1> QED BY <1>3, <1>4, <1>6, <1>7

-----------------------------------------------------------------------------
(* What an attempt to sell does to the books and to the wallet. *)

\* The recovery never reads an invented balance, and a swap that Jupiter answered for has
\* landed or a wallet read contradicts it.
HonestReads ==
  /\ "recovery_error" \notin Faults
  /\ "unlanded_reply" \in Faults =>
       "read_timeout" \notin Faults /\ "read_error" \notin Faults

Kept(p, r) == r.remaining = p.remaining /\ r.realized = p.realized /\ r.status # "CLOSED"

Sold(p, r, n) ==
  /\ r.remaining = p.remaining - n
  /\ r.realized \in {p.realized, p.realized + n}
  /\ r.status = "CLOSED" => r.remaining = 0

\* Some tokens leave the wallet, and the books are kept or reduced by a sale; with honest
\* reads the sale that is booked is the one that happened.  In dry-run nothing is sold.
Effect(p, landed) ==
  /\ GoodPosition(pos')
  /\ landed \in 0..wallet
  /\ wallet' = wallet - landed
  /\ plan' \in Int
  /\ ~mode.live => landed = 0 /\ Kept(p, pos')
  /\ \/ Kept(p, pos')
     \/ \E n \in 1..p.remaining : Sold(p, pos', n) /\ (HonestReads => landed = n)

LEMMA FailuresKeep ==
  ASSUME NEW p, GoodPosition(p), NEW q, NEW sig
  PROVE  /\ Kept(p, ReconcileExit(p))
         /\ Kept(p, UnconfirmedSale(p, sig))
         /\ Kept(p, FailedSale(p))
         /\ Kept(p, ThresholdFailure(p, q))
         /\ Kept(p, SkippedSale(p))
<1>1. Kept(p, ReconcileExit(p))
  BY DEF GoodPosition, Position, Kept, ReconcileExit, ClearDrip
<1>2. Kept(p, UnconfirmedSale(p, sig))
  BY DEF GoodPosition, Position, Kept, UnconfirmedSale, ReconcileExit, ClearDrip
<1>3. Kept(p, FailedSale(p))
  BY DEF GoodPosition, Position, Kept, FailedSale, ClearDrip
<1>4. Kept(p, ThresholdFailure(p, q))
  BY DEF GoodPosition, Position, Kept, ThresholdFailure, ClearDrip
<1>5. Kept(p, SkippedSale(p))
  BY DEF GoodPosition, Position, Kept, SkippedSale, ClearDrip
<1> QED BY <1>1, <1>2, <1>3, <1>4, <1>5

LEMMA BookedSaleSold ==
  ASSUME NEW p, GoodPosition(p), NEW q \in 1..p.remaining, NEW armHachi \in BOOLEAN
  PROVE  Sold(p, BookedSale(p, q, armHachi), q)
<1> DEFINE b == BookedSale(p, q, armHachi)
<1>1. Larger(0, p.remaining - q) = p.remaining - q
  BY QtyAssumption DEF GoodPosition, Position, Larger
<1>2. b.remaining = Larger(0, p.remaining - q) /\ b.realized = p.realized + q
  BY DEF BookedSale, ClearDrip, GoodPosition, Position
<1>3. b.status = "CLOSED" => b.remaining = 0
  BY DEF BookedSale, ClearDrip, GoodPosition, Position
<1> QED BY <1>1, <1>2, <1>3 DEF Sold

LEMMA UnpaidSaleSold ==
  ASSUME NEW p, GoodPosition(p), NEW q \in 1..p.remaining, NEW sig
  PROVE  Sold(p, UnpaidSale(p, q, sig), q)
<1> DEFINE u == UnpaidSale(p, q, sig)
<1>1. Larger(0, p.remaining - q) = p.remaining - q
  BY QtyAssumption DEF GoodPosition, Position, Larger
<1>2. /\ u.remaining = Larger(0, p.remaining - q) /\ u.realized = p.realized
      /\ u.status = "RECONCILE_PENDING"
  BY DEF UnpaidSale, ReconcileExit, ClearDrip, GoodPosition, Position
<1> QED BY <1>1, <1>2 DEF Sold

\* With honest reads a swap that did not land is never confirmed.
LEMMA HonestSettlement ==
  ASSUME wallet \in Nat, NEW q \in Nat,
         "unlanded_reply" \in Faults, HonestReads,
         NEW pre \in Reads(wallet), NEW post \in ReadsAfterSale(wallet, wallet - 0)
  PROVE  ~SettlementConfirmed(q, pre, post)
<1>1. Reads(wallet) = {wallet}
  BY DEF Reads, HonestReads
<1>2. wallet - 0 = wallet
  OBVIOUS
<1>3. pre = wallet /\ post = wallet
  BY <1>1, <1>2 DEF ReadsAfterSale
<1> QED BY <1>3 DEF SettlementConfirmed, NoRead

LEMMA SellEffect ==
  ASSUME NEW p, GoodPosition(p), wallet \in 0..Qty,
         NEW q \in 1..p.remaining, NEW allowance \in Int, NEW armHachi \in BOOLEAN,
         Sell(p, q, allowance, armHachi)
  PROVE  \E landed : Effect(p, landed)
<1>1. q \in Nat /\ q \in 0..p.remaining /\ q \in 0..Qty /\ wallet \in Nat
  BY QtyAssumption DEF GoodPosition, Position
<1>2. CASE SellRefused(p, q, allowance)
  <2>1. Effect(p, 0)
    BY <1>1, <1>2, FailedSaleGood, FailuresKeep DEF SellRefused, NoSwap, Swap, Effect
  <2> QED BY <2>1
<1>3. CASE SellThreshold(p, q, allowance)
  <2>1. Effect(p, 0)
    <3>1. pos' = ThresholdFailure(p, q) /\ wallet' = wallet - 0 /\ plan' = allowance - 0
      BY <1>3 DEF SellThreshold, NoSwap, Swap
    <3>2. GoodPosition(pos') /\ Kept(p, pos')
      BY <1>1, <3>1, ThresholdFailureGood, FailuresKeep
    <3> QED BY <1>1, <3>1, <3>2 DEF Effect
  <2> QED BY <2>1
<1>4. CASE SellSkipped(p, allowance)
  <2>1. Effect(p, 0)
    BY <1>1, <1>4, SkippedSaleGood, FailuresKeep DEF SellSkipped, NoSwap, Swap, Effect
  <2> QED BY <2>1
<1>5. CASE SellReplyLost(p, q, allowance)
  <2>1. Effect(p, q)
    BY <1>1, <1>5, FailedSaleGood, FailuresKeep DEF SellReplyLost, Swap, Effect
  <2> QED BY <2>1
<1>6. CASE SellAnswered(p, q, allowance, armHachi)
  <2>1. PICK landed \in {0, q} :
          /\ landed <= wallet
          /\ landed = 0 => "unlanded_reply" \in Faults
          /\ \E pre \in Reads(wallet), post \in ReadsAfterSale(wallet, wallet - landed) :
               LET sig == IF landed = q THEN "landed" ELSE "dropped"
               IN  IF ~SettlementConfirmed(q, pre, post)
                   THEN pos' = UnconfirmedSale(p, sig)
                   ELSE \/ pos' = BookedSale(p, q, armHachi)
                        \/ /\ "no_proceeds" \in Faults
                           /\ pos' = UnpaidSale(p, q, sig)
          /\ Swap(landed, allowance)
    BY <1>6 DEF SellAnswered
  <2>2. PICK pre \in Reads(wallet), post \in ReadsAfterSale(wallet, wallet - landed) :
          LET sig == IF landed = q THEN "landed" ELSE "dropped"
          IN  IF ~SettlementConfirmed(q, pre, post)
              THEN pos' = UnconfirmedSale(p, sig)
              ELSE \/ pos' = BookedSale(p, q, armHachi)
                   \/ pos' = UnpaidSale(p, q, sig)
    BY <2>1
  <2> DEFINE sig == IF landed = q THEN "landed" ELSE "dropped"
  <2>3. /\ landed \in 0..wallet /\ wallet' = wallet - landed /\ plan' \in Int
        /\ sig \in {"none", "landed", "dropped"}
    BY <1>1, <2>1 DEF Swap
  <2> HIDE DEF sig
  <2>4. CASE pos' = UnconfirmedSale(p, sig)
    BY <1>6, <2>3, <2>4, UnconfirmedSaleGood, FailuresKeep DEF Effect, SellAnswered
  <2>5. CASE /\ SettlementConfirmed(q, pre, post)
             /\ pos' \in {BookedSale(p, q, armHachi), UnpaidSale(p, q, sig)}
    <3>1. GoodPosition(pos') /\ Sold(p, pos', q)
      BY <1>1, <2>3, <2>5, BookedSaleGood, UnpaidSaleGood, BookedSaleSold, UnpaidSaleSold
    <3>2. HonestReads => landed = q
      BY <1>1, <2>1, <2>5, HonestSettlement
    <3> QED BY <1>6, <2>3, <3>1, <3>2 DEF Effect, SellAnswered
  <2> QED BY <2>2, <2>4, <2>5 DEF sig
<1> QED BY <1>2, <1>3, <1>4, <1>5, <1>6 DEF Sell

LEMMA AttemptEffect ==
  ASSUME NEW p, GoodPosition(p), p.status # "CLOSED", wallet \in 0..Qty,
         NEW allowance \in Int, NEW armHachi \in BOOLEAN,
         AttemptExit(p, allowance, armHachi)
  PROVE  \E landed : Effect(p, landed)
<1>1. 0 \in 0..wallet /\ wallet - 0 = wallet /\ allowance - 0 \in Int
  BY QtyAssumption
<1>2. CASE MissingQty(p, allowance)
  <2>1. GoodPosition(pos') /\ Kept(p, pos')
    <3>1. pos' = [ClearDrip(p) EXCEPT !.status = "EXIT_BLOCKED"]
      BY <1>2 DEF MissingQty
    <3>2. GoodPosition(ClearDrip(p)) /\ Kept(p, ClearDrip(p))
      BY ClearDripGood DEF Kept, ClearDrip, GoodPosition, Position
    <3> QED BY <3>1, <3>2 DEF GoodPosition, Position, WithinEntry, EntryUnpaid, Statuses, Kept
  <2>2. Effect(p, 0)
    BY <1>1, <1>2, <2>1 DEF MissingQty, NoSwap, Swap, Effect
  <2> QED BY <2>2
<1>3. CASE ChunkNotDue(p, allowance)
  <2>1. Effect(p, 0)
    BY <1>1, <1>3 DEF ChunkNotDue, NoSwap, Swap, Effect, Kept
  <2> QED BY <2>1
<1>4. CASE SubmitSell(p, allowance, armHachi)
  <2>1. PICK want \in Wanted(p), read \in Reads(wallet) :
          LET short == read # NoRead /\ read < want
              q == IF short THEN read ELSE want
              p1 == IF short THEN Adjusted(p, q) ELSE p
          IN  IF q = 0
              THEN pos' = ReconcileExit(p1) /\ NoSwap(allowance)
              ELSE Sell(p1, q, allowance, armHachi)
    BY <1>4 DEF SubmitSell
  <2> DEFINE short == read # NoRead /\ read < want
             q == IF short THEN read ELSE want
             p1 == IF short THEN Adjusted(p, q) ELSE p
  <2>2. /\ p.remaining \in 0..Qty /\ want \in 0..p.remaining /\ read \in Int
        /\ (read \in Nat \/ read = NoRead)
    BY <2>1, WantedBounded, QtyAssumption DEF GoodPosition, Position, Reads, NoRead
  <2>3. q \in 0..p.remaining /\ q \in 0..Qty
    BY <2>2, QtyAssumption DEF NoRead
  <2> HIDE DEF q, short
  <2>4. GoodPosition(Adjusted(p, q)) /\ Adjusted(p, q).status = p.status
    BY <2>3 DEF Adjusted, GoodPosition, Position, WithinEntry, EntryUnpaid
  <2>5. Adjusted(p, q).remaining = p.remaining /\ Adjusted(p, q).realized = p.realized
    BY DEF Adjusted, GoodPosition, Position
  <2>6. /\ GoodPosition(p1)
        /\ p1.remaining = p.remaining /\ p1.realized = p.realized
    BY <2>4, <2>5
  <2> HIDE DEF p1
  <2>7. ASSUME NEW landed, Effect(p1, landed)
        PROVE  Effect(p, landed)
    BY <2>6, <2>7 DEF Effect, Kept, Sold
  <2>8. CASE q = 0
    <3>1. pos' = ReconcileExit(p1) /\ NoSwap(allowance)
      BY <2>1, <2>8 DEF p1, q, short
    <3>2. Effect(p1, 0)
      BY <1>1, <2>6, <3>1, ReconcileExitGood, FailuresKeep DEF NoSwap, Swap, Effect
    <3> QED BY <2>7, <3>2
  <2>9. CASE q # 0
    <3>1. Sell(p1, q, allowance, armHachi)
      BY <2>1, <2>9 DEF p1, q, short
    <3>2. q \in 1..p1.remaining
      BY <2>2, <2>3, <2>6, <2>9
    <3>3. \E landed : Effect(p1, landed)
      BY <2>6, <3>1, <3>2, SellEffect
    <3> QED BY <2>7, <3>3
  <2> QED BY <2>8, <2>9
<1> QED BY <1>2, <1>3, <1>4 DEF AttemptExit

\* An exit starts as an attempt of the same position, now in EXIT_PENDING.
LEMMA StartPrepares ==
  ASSUME NEW p, GoodPosition(p),
         NEW qty \in Int, NEW reason \in Reasons, NEW armHachi \in BOOLEAN,
         StartExit(p, qty, reason, armHachi)
  PROVE  \E q, r : /\ q \in Int /\ GoodPosition(r) /\ r.status = "EXIT_PENDING"
                   /\ r.remaining = p.remaining /\ r.realized = p.realized
                   /\ AttemptExit(r, q, armHachi)
<1> DEFINE q == Smaller(Larger(1, qty), p.remaining)
           p1 == IF reason = "hard" THEN [p EXCEPT !.chunkWaiting = FALSE] ELSE p
           p2 == IF mode.sell = "drip" /\ reason = "take_profit"
                 THEN [p1 EXCEPT !.drip = TRUE, !.dripLeft = q, !.chunkWaiting = FALSE]
                 ELSE p1
           p3 == [p2 EXCEPT !.status = "EXIT_PENDING", !.reason = reason, !.pendingQty = q]
<1>1. p.remaining \in 0..Qty /\ q \in 0..Qty /\ q \in Int
  BY QtyAssumption DEF GoodPosition, Position, Smaller, Larger
<1> HIDE DEF q
<1>2. /\ p1 \in Position /\ p1.remaining = p.remaining /\ p1.realized = p.realized
  BY DEF GoodPosition, Position
<1> HIDE DEF p1
<1>3. /\ p2 \in Position /\ p2.remaining = p.remaining /\ p2.realized = p.realized
  BY <1>1, <1>2 DEF Position
<1> HIDE DEF p2
<1>4. /\ p3 \in Position /\ p3.remaining = p.remaining /\ p3.realized = p.realized
      /\ p3.status = "EXIT_PENDING"
  BY <1>1, <1>3 DEF Position, Statuses
<1> HIDE DEF p3
<1>5. GoodPosition(p3)
  BY <1>4 DEF GoodPosition, WithinEntry, EntryUnpaid
<1>6. AttemptExit(p3, q, armHachi)
  BY DEF StartExit, p3, p2, p1, q
<1> QED BY <1>1, <1>4, <1>5, <1>6

LEMMA StartEffect ==
  ASSUME NEW p, GoodPosition(p), wallet \in 0..Qty,
         NEW qty \in Int, NEW reason \in Reasons, NEW armHachi \in BOOLEAN,
         StartExit(p, qty, reason, armHachi)
  PROVE  \E landed : Effect(p, landed)
<1>1. PICK q, r : /\ q \in Int /\ GoodPosition(r) /\ r.status = "EXIT_PENDING"
                  /\ r.remaining = p.remaining /\ r.realized = p.realized
                  /\ AttemptExit(r, q, armHachi)
  BY StartPrepares
<1>2. PICK landed : Effect(r, landed)
  BY <1>1, AttemptEffect
<1>3. Effect(p, landed)
  BY <1>1, <1>2 DEF Effect, Kept, Sold
<1> QED BY <1>3

-----------------------------------------------------------------------------
(* What a visit and a recovery do to the books. *)

Same(p, r) ==
  /\ r.remaining = p.remaining /\ r.realized = p.realized
  /\ (r.status = "CLOSED") = (p.status = "CLOSED")

\* The books stay, an attempt to sell was made, or an unconfirmed entry was resolved.
VisitEffect ==
  /\ GoodPosition(pos')
  /\ wallet' \in 0..wallet
  /\ plan' \in Int
  /\ ~mode.live => wallet' = wallet /\ pos'.realized = pos.realized
  /\ \/ wallet' = wallet /\ Same(pos, pos')
     \/ pos.status # "CLOSED" /\ \E landed : Effect(pos, landed)
     \/ /\ wallet' = wallet
        /\ pos'.remaining \in Reads(wallet) /\ pos'.remaining > 0
        /\ pos'.realized = pos.realized /\ pos.realized = 0
        /\ pos'.status = "OPEN" /\ pos.status # "CLOSED"

LEMMA EffectIsVisit ==
  ASSUME wallet \in 0..Qty, pos.status # "CLOSED", NEW landed, Effect(pos, landed)
  PROVE  VisitEffect
<1>1. wallet' \in 0..wallet
  BY QtyAssumption DEF Effect
<1>2. ~mode.live => wallet' = wallet /\ pos'.realized = pos.realized
  BY QtyAssumption DEF Effect, Kept
<1> QED BY <1>1, <1>2 DEF VisitEffect, Effect

LEMMA UnchangedIsVisit ==
  ASSUME TypeInv, UNCHANGED <<pos, wallet, plan>>
  PROVE  VisitEffect
<1>1. wallet \in 0..wallet
  BY QtyAssumption DEF TypeInv, TypeOK
<1>2. GoodPosition(pos') /\ Same(pos, pos') /\ wallet' = wallet /\ plan' \in Int
  BY DEF TypeInv, TypeOK, Same
<1> QED BY <1>1, <1>2 DEF VisitEffect, Same

LEMMA MarkEffect ==
  ASSUME TypeInv, Mark
  PROVE  VisitEffect
<1>1. GoodPosition(pos) /\ wallet \in 0..Qty /\ wallet \in Nat /\ plan \in Int
  BY QtyAssumption DEF TypeInv, TypeOK
<1>2. /\ pos.remaining \in 0..Qty /\ pos.remaining \in Nat /\ pos.remaining \in Int
      /\ pos.tpDone \in 0..TpSteps /\ "hard" \in Reasons
  BY <1>1, QtyAssumption DEF GoodPosition, Position, Reasons
<1>3. CASE MarkBlocked
  <2>1. CASE UNCHANGED <<pos, wallet, plan>>
    BY <2>1, UnchangedIsVisit
  <2>2. CASE AttemptExit(pos, plan, FALSE)
    <3>1. \E landed : Effect(pos, landed)
      BY <1>1, <1>3, <2>2, AttemptEffect DEF MarkBlocked
    <3> QED BY <1>1, <1>3, <3>1, EffectIsVisit DEF MarkBlocked
  <2> QED BY <1>3, <2>1, <2>2 DEF MarkBlocked
<1>4. CASE MarkExhausted
  <2>1. /\ pos' = [pos EXCEPT !.status = "EXIT_BLOCKED", !.reason = "none", !.pendingQty = 0]
        /\ wallet' = wallet /\ plan' = plan
        /\ pos.status # "CLOSED"
    BY <1>4 DEF MarkExhausted, Exiting
  <2>2. pos' \in Position
    <3>1. 0 \in 0..Qty /\ pos \in Position
      BY <1>1, QtyAssumption DEF GoodPosition
    <3> QED BY <2>1, <3>1 DEF Position, Statuses, Reasons
  <2>3. /\ pos'.remaining = pos.remaining /\ pos'.realized = pos.realized
        /\ pos'.status = "EXIT_BLOCKED"
    BY <1>1, <2>1 DEF GoodPosition, Position
  <2>4. GoodPosition(pos') /\ Same(pos, pos')
    BY <1>1, <2>1, <2>2, <2>3 DEF GoodPosition, WithinEntry, EntryUnpaid, Same
  <2>5. wallet \in 0..wallet
    BY <1>1
  <2> QED BY <1>1, <2>1, <2>3, <2>4, <2>5 DEF VisitEffect
<1>5. CASE MarkPending
  <2>1. CASE UNCHANGED <<pos, wallet, plan>>
    BY <2>1, UnchangedIsVisit
  <2>2. CASE AttemptExit(pos, plan, FALSE)
    <3>1. pos.status # "CLOSED"
      BY <1>5 DEF MarkPending, Exiting
    <3>2. \E landed : Effect(pos, landed)
      BY <1>1, <2>2, <3>1, AttemptEffect
    <3> QED BY <1>1, <3>1, <3>2, EffectIsVisit
  <2> QED BY <1>5, <2>1, <2>2 DEF MarkPending
<1>6. CASE MarkUnconfirmedEntry
  <2>1. pos.status = "RECONCILE_PENDING" /\ pos.context = "entry" /\ pos.realized = 0
    BY <1>1, <1>6 DEF MarkUnconfirmedEntry, GoodPosition, EntryUnpaid
  <2>2. PICK read \in Reads(wallet) :
          IF read > 0
          THEN /\ pos' = [pos EXCEPT !.remaining = read, !.status = "OPEN", !.context = "none"]
               /\ UNCHANGED <<wallet, plan>>
          ELSE IF signal = "hard"
          THEN StartExit(pos, pos.remaining, "hard", FALSE)
          ELSE UNCHANGED <<pos, wallet, plan>>
    BY <1>6 DEF MarkUnconfirmedEntry
  <2>3. CASE read > 0
    <3>1. read \in 0..wallet /\ read \in 0..Qty
      BY <1>1, <2>2, <2>3, QtyAssumption DEF Reads, NoRead
    <3>2. /\ pos' = [pos EXCEPT !.remaining = read, !.status = "OPEN", !.context = "none"]
          /\ pos \in Position
      BY <1>1, <2>2, <2>3 DEF GoodPosition
    <3>3. pos' \in Position
      BY <3>1, <3>2 DEF Position, Statuses
    <3>4. /\ pos'.remaining = read /\ pos'.realized = pos.realized /\ pos'.status = "OPEN"
          /\ wallet' = wallet /\ plan' = plan
      BY <1>1, <2>2, <2>3 DEF GoodPosition, Position
    <3>5. GoodPosition(pos')
      BY <2>1, <3>1, <3>3, <3>4, QtyAssumption DEF GoodPosition, WithinEntry, EntryUnpaid
    <3> QED BY <1>1, <2>1, <2>2, <2>3, <3>1, <3>4, <3>5 DEF VisitEffect
  <2>4. CASE StartExit(pos, pos.remaining, "hard", FALSE)
    <3>1. \E landed : Effect(pos, landed)
      BY <1>1, <1>2, <2>4, StartEffect
    <3> QED BY <1>1, <2>1, <3>1, EffectIsVisit
  <2>5. CASE UNCHANGED <<pos, wallet, plan>>
    BY <2>5, UnchangedIsVisit
  <2> QED BY <2>2, <2>3, <2>4, <2>5
<1>7. CASE MarkHardExit
  <2>1. \E landed : Effect(pos, landed)
    BY <1>1, <1>2, <1>7, StartEffect DEF MarkHardExit
  <2> QED BY <1>1, <1>7, <2>1, EffectIsVisit DEF MarkHardExit, Evaluated
<1>8. CASE MarkSoftExit
  <2>1. Part(pos.remaining, 50) \in Int
    <3>1. 50 \in 1..100
      OBVIOUS
    <3> QED BY <1>2, <3>1, PartType
  <2>2. \E landed : Effect(pos, landed)
    BY <1>1, <1>8, <2>1, StartEffect DEF MarkSoftExit, Reasons
  <2> QED BY <1>1, <1>8, <2>2, EffectIsVisit DEF MarkSoftExit, Evaluated
<1>9. CASE MarkTakeProfit
  <2> DEFINE p == [pos EXCEPT !.tpDone = @ + 1]
  <2>1. pos.tpDone < TpSteps /\ pos.status # "CLOSED"
    BY <1>9 DEF MarkTakeProfit, Evaluated
  <2>2. p \in Position /\ p.remaining = pos.remaining /\ p.realized = pos.realized
        /\ p.status = pos.status /\ p.context = pos.context
    BY <1>1, <1>2, <2>1, PercentAssumption DEF GoodPosition, Position
  <2>3. StartExit(p, Part(pos.remaining, TpPct), "take_profit", FALSE)
    BY <1>9 DEF MarkTakeProfit
  <2> HIDE DEF p
  <2>4. GoodPosition(p)
    BY <1>1, <2>2 DEF GoodPosition, WithinEntry, EntryUnpaid
  <2>5. Part(pos.remaining, TpPct) \in Int
    BY <1>2, PartType, PercentAssumption
  <2>6. PICK landed : Effect(p, landed)
    BY <1>1, <2>3, <2>4, <2>5, StartEffect DEF Reasons
  <2>7. Effect(pos, landed)
    BY <2>2, <2>6 DEF Effect, Kept, Sold
  <2> QED BY <1>1, <2>1, <2>7, EffectIsVisit
<1>10. CASE MarkHachi
  <2>1. PICK pct \in ChunkPcts : StartExit(pos, Part(pos.remaining, pct), "hachi_dripper", TRUE)
    BY <1>10 DEF MarkHachi
  <2>2. Part(pos.remaining, pct) \in Int
    BY <1>2, PartType, PercentAssumption
  <2>3. \E landed : Effect(pos, landed)
    BY <1>1, <2>1, <2>2, StartEffect DEF Reasons
  <2> QED BY <1>1, <1>10, <2>3, EffectIsVisit DEF MarkHachi, Evaluated
<1>11. CASE MarkIdle
  BY <1>11, UnchangedIsVisit DEF MarkIdle
<1> QED BY <1>3, <1>4, <1>5, <1>6, <1>7, <1>8, <1>9, <1>10, <1>11 DEF Mark

LEMMA RecoveredEffect ==
  ASSUME NEW p, GoodPosition(p), wallet \in 0..Qty, NEW read \in RecoveryReads(wallet),
         NEW txFailed \in BOOLEAN
  PROVE  LET r == Recovered(p, read, txFailed)
         IN  /\ GoodPosition(r)
             /\ r.realized = p.realized
             /\ IF read = NoRead \/ p.status = "CLOSED"
                THEN r = p
                ELSE /\ r.remaining = Smaller(p.remaining, read)
                     /\ r.status = "CLOSED" => r.remaining = 0
<1> DEFINE capped == [p EXCEPT !.remaining = Smaller(@, read)]
           r == Recovered(p, read, txFailed)
<1>1. CASE read = NoRead \/ p.status = "CLOSED"
  BY <1>1 DEF Recovered
<1>2. CASE ~(read = NoRead \/ p.status = "CLOSED")
  <2>1. read \in 0..Qty /\ p.remaining \in 0..Qty /\ p.realized \in 0..Qty
    BY <1>2, QtyAssumption DEF GoodPosition, Position, RecoveryReads, NoRead
  <2>2. Smaller(p.remaining, read) \in 0..p.remaining /\ Smaller(p.remaining, read) \in 0..Qty
    BY <2>1, QtyAssumption DEF Smaller
  <2>3. /\ capped \in Position
        /\ capped.remaining = Smaller(p.remaining, read) /\ capped.realized = p.realized
        /\ capped.status = p.status /\ capped.context = p.context
    BY <2>2 DEF GoodPosition, Position
  <2>4. p.remaining + p.realized <= Qty
    BY DEF GoodPosition, WithinEntry
  <2>5. Smaller(p.remaining, read) + p.realized <= Qty
    BY <2>1, <2>2, <2>4, QtyAssumption
  <2>6. GoodPosition(capped)
    BY <2>3, <2>5 DEF GoodPosition, WithinEntry, EntryUnpaid
  <2>7. read = 0 => Smaller(p.remaining, read) = 0
    BY <2>1, QtyAssumption DEF Smaller
  <2> HIDE DEF capped
  <2>8. \/ r = capped
        \/ /\ read = 0
           /\ r = [capped EXCEPT !.status = "CLOSED", !.pendingQty = 0,
                                 !.reason = "none", !.signature = "none"]
        \/ r = [capped EXCEPT !.status = "EXIT_BLOCKED"]
        \/ r = [capped EXCEPT !.status = "EXIT_BLOCKED", !.context = "none"]
        \/ r = [capped EXCEPT !.status = "PARTIAL", !.context = "none"]
    BY <1>2 DEF Recovered, capped
  <2> HIDE DEF r
  <2>9. /\ r \in Position /\ r.remaining = capped.remaining /\ r.realized = capped.realized
        /\ r = capped \/ r.status \in {"CLOSED", "EXIT_BLOCKED", "PARTIAL"}
        /\ r.status = "CLOSED" => read = 0 \/ r = capped
    <3>1. 0 \in 0..Qty
      BY QtyAssumption
    <3>2. capped \in Position
      BY <2>3
    <3>3. CASE r = capped
      BY <3>2, <3>3
    <3>4. CASE /\ read = 0
               /\ r = [capped EXCEPT !.status = "CLOSED", !.pendingQty = 0,
                                     !.reason = "none", !.signature = "none"]
      BY <3>1, <3>2, <3>4 DEF Position, Statuses, Reasons
    <3>5. CASE r = [capped EXCEPT !.status = "EXIT_BLOCKED"]
      BY <3>2, <3>5 DEF Position, Statuses
    <3>6. CASE r = [capped EXCEPT !.status = "EXIT_BLOCKED", !.context = "none"]
      BY <3>2, <3>6 DEF Position, Statuses
    <3>7. CASE r = [capped EXCEPT !.status = "PARTIAL", !.context = "none"]
      BY <3>2, <3>7 DEF Position, Statuses
    <3> QED BY <2>8, <3>3, <3>4, <3>5, <3>6, <3>7
  <2>10. GoodPosition(r)
    BY <2>6, <2>9 DEF GoodPosition, WithinEntry, EntryUnpaid
  <2> QED BY <1>2, <2>3, <2>7, <2>9, <2>10 DEF r
<1> QED BY <1>1, <1>2

-----------------------------------------------------------------------------
(* Type correctness *)

LEMMA NewPositionGood ==
  ASSUME NEW kind \in AllEntryKinds
  PROVE  GoodPosition(NewPosition(kind))
<1>1. 0 \in 0..Qty /\ Qty \in 0..Qty /\ 0 \in 0..RetryCap /\ 0 \in 0..TpSteps /\ Qty + 0 <= Qty
  BY QtyAssumption, RetryMaxAssumption, PercentAssumption DEF RetryCap
<1>2. NewPosition(kind) \in Position
  BY <1>1 DEF NewPosition, Position, Statuses, Reasons
<1>3. NewPosition(kind).remaining = Qty /\ NewPosition(kind).realized = 0
  BY DEF NewPosition
<1> QED BY <1>1, <1>2, <1>3 DEF GoodPosition, WithinEntry, EntryUnpaid

LEMMA TypeInit ==
  ASSUME Init
  PROVE  TypeInv
<1>1. PICK kind \in EntryKinds :
        /\ pos = NewPosition(kind)
        /\ wallet \in CASE kind = "confirmed" -> {Qty}
                       [] kind = "short" -> 1..(Qty - 1)
                       [] kind = "unlanded" -> {0}
                       [] kind = "unconfirmed" -> 0..Qty
  BY DEF Init
<1>2. kind \in AllEntryKinds
  BY EnvironmentAssumption
<1>3. GoodPosition(pos) /\ GoodPosition(disk)
  BY <1>1, <1>2, NewPositionGood DEF Init
<1>4. wallet \in 0..Qty
  <2>1. {0} \subseteq 0..Qty /\ {Qty} \subseteq 0..Qty /\ 1..(Qty - 1) \subseteq 0..Qty
    BY QtyAssumption
  <2> QED BY <1>1, <1>2, <2>1 DEF AllEntryKinds
<1>5. crashes \in 0..MaxCrashes /\ plan \in Int
  BY QtyAssumption, EnvironmentAssumption DEF Init
<1> QED BY <1>3, <1>4, <1>5 DEF TypeInv, TypeOK, GoodPosition, Init, Signals

LEMMA MarkPhases ==
  ASSUME Mark
  PROVE  /\ phase = "mark" /\ phase' = "save"
         /\ UNCHANGED <<disk, signal, mode, crashes>>
  BY DEF Mark, MarkBlocked, MarkExhausted, MarkPending, MarkUnconfirmedEntry,
         MarkHardExit, MarkSoftExit, MarkTakeProfit, MarkHachi, MarkIdle, Visit

LEMMA TypeStep ==
  ASSUME TypeInv, [Next]_vars
  PROVE  TypeInv'
<1>1. ASSUME NEW expired \in BOOLEAN, BeginCycle(expired)
      PROVE  TypeInv'
  <2>1. GoodPosition(pos')
    <3>1. GoodPosition([pos EXCEPT !.waiting = FALSE, !.chunkWaiting = FALSE])
      BY DEF TypeInv, GoodPosition, Position, WithinEntry, EntryUnpaid
    <3> QED BY <1>1, <3>1 DEF TypeInv, BeginCycle
  <2> QED BY <1>1, <2>1 DEF TypeInv, TypeOK, GoodPosition, BeginCycle
<1>2. CASE Mark
  <2>1. VisitEffect
    BY <1>2, MarkEffect
  <2>2. UNCHANGED <<disk, signal, mode, crashes>> /\ phase' = "save"
    BY <1>2, MarkPhases
  <2>3. wallet' \in 0..Qty
    BY <2>1, QtyAssumption DEF VisitEffect, TypeInv, TypeOK
  <2>4. GoodPosition(pos') /\ plan' \in Int
    BY <2>1 DEF VisitEffect
  <2> QED BY <2>2, <2>3, <2>4 DEF TypeInv, TypeOK, GoodPosition
<1>3. CASE Persist
  BY <1>3 DEF TypeInv, TypeOK, GoodPosition, Persist, Signals
<1>4. CASE Crash
  <2>1. crashes' \in 0..MaxCrashes
    BY <1>4, EnvironmentAssumption DEF TypeInv, TypeOK, Crash
  <2> QED BY <1>4, <2>1 DEF TypeInv, TypeOK, GoodPosition, Crash, Signals
<1>5. CASE Restart
  <2>1. PICK read \in RecoveryReads(wallet), txFailed \in BOOLEAN :
          pos' = Recovered(disk, read, txFailed)
    BY <1>5 DEF Restart
  <2>2. GoodPosition(pos')
    BY <2>1, RecoveredEffect DEF TypeInv, TypeOK
  <2>3. /\ UNCHANGED <<disk, wallet, plan, signal, crashes>>
        /\ mode' \in Modes /\ phase' \in {"idle", "save"}
    BY <1>5 DEF Restart
  <2> QED BY <2>2, <2>3 DEF TypeInv, TypeOK, GoodPosition
<1>6. CASE UNCHANGED vars
  BY <1>6 DEF TypeInv, TypeOK, GoodPosition, WithinEntry, EntryUnpaid, vars
<1> QED BY <1>1, <1>2, <1>3, <1>4, <1>5, <1>6 DEF Next

\* Every reachable state has its type; in particular the quantity, the proceeds and the
\* retry count stay in their ranges through every sale, correction and recovery.
THEOREM TypeCorrect == Spec => []TypeOK
<1>1. Init => TypeInv
  BY TypeInit
<1>2. TypeInv /\ [Next]_vars => TypeInv'
  BY TypeStep
<1>3. TypeInv => TypeOK
  BY DEF TypeInv
<1> QED BY <1>1, <1>2, <1>3, PTL DEF Spec

-----------------------------------------------------------------------------
(***************************************************************************)
(* The books are sound, whenever reads are honest.  Neither statement is   *)
(* inductive alone: what is paid is bounded by what left the wallet only   *)
(* if no sale is booked that did not happen, and a position is closed at   *)
(* remaining = 0, which says something of the wallet only because the book *)
(* covers it - in the process, and in the file it restarts from.           *)
(***************************************************************************)
Sound(p) ==
  /\ p.remaining >= wallet
  /\ p.realized <= Qty - wallet
  /\ p.status = "CLOSED" => p.remaining = 0

SoundInv ==
  /\ TypeInv
  /\ Sound(pos)
  /\ Sound(disk)

LEMMA HonestRead ==
  ASSUME HonestReads, NEW read \in RecoveryReads(wallet)
  PROVE  read = wallet \/ read = NoRead
  BY DEF HonestReads, RecoveryReads

\* A read made while the process runs may also be wrong, but then it shows nothing.
LEMMA RunningRead ==
  ASSUME NEW read \in Reads(wallet)
  PROVE  read = wallet \/ read = NoRead \/ read = 0
  BY DEF Reads

\* Tokens only ever leave the wallet: old books stay sound.
LEMMA SoundUnderSales ==
  ASSUME NEW p, GoodPosition(p), Sound(p), wallet \in 0..Qty, wallet' \in 0..wallet,
         NEW r, r.remaining = p.remaining, r.realized = p.realized,
         r.status = "CLOSED" => p.status = "CLOSED"
  PROVE  /\ r.remaining >= wallet'
         /\ r.realized <= Qty - wallet'
         /\ r.status = "CLOSED" => r.remaining = 0
<1>1. p.remaining \in Int /\ p.realized \in Int
  BY DEF GoodPosition, Position
<1> QED BY <1>1, QtyAssumption DEF Sound

LEMMA SoundVisit ==
  ASSUME SoundInv, HonestReads, VisitEffect, UNCHANGED disk
  PROVE  Sound(pos)' /\ Sound(disk)'
<1>1. /\ GoodPosition(pos) /\ Sound(pos) /\ GoodPosition(disk) /\ Sound(disk)
      /\ wallet \in 0..Qty /\ wallet' \in 0..wallet
  BY DEF SoundInv, TypeInv, TypeOK, VisitEffect
<1>2. pos.remaining \in Int /\ pos.realized \in Int /\ wallet \in Int /\ wallet' \in Int
  BY <1>1, QtyAssumption DEF GoodPosition, Position
<1>3. Sound(disk)'
  BY <1>1, SoundUnderSales DEF Sound
<1> SUFFICES Sound(pos)'
  BY <1>3
<1>4. CASE wallet' = wallet /\ Same(pos, pos')
  BY <1>1, <1>4, SoundUnderSales DEF Sound, Same
<1>5. ASSUME NEW landed, Effect(pos, landed)
      PROVE  Sound(pos)'
  <2>1. CASE Kept(pos, pos')
    BY <1>1, <2>1, SoundUnderSales DEF Sound, Kept
  <2>2. CASE \E n \in 1..pos.remaining : Sold(pos, pos', n) /\ landed = n
    <3>1. PICK n \in 1..pos.remaining : Sold(pos, pos', n) /\ landed = n
      BY <2>2
    <3>2. n \in Int /\ n > 0 /\ wallet' = wallet - n
      BY <1>2, <1>5, <3>1 DEF Effect
    <3>3. pos.remaining >= wallet /\ pos.realized <= Qty - wallet
      BY <1>1 DEF Sound
    <3>4. pos'.remaining >= wallet' /\ pos'.realized <= Qty - wallet'
      BY <1>2, <3>1, <3>2, <3>3, QtyAssumption DEF Sold
    <3> QED BY <3>1, <3>4 DEF Sound, Sold
  <2> QED BY <1>5, <2>1, <2>2 DEF Effect
<1>6. CASE /\ wallet' = wallet
           /\ pos'.remaining \in Reads(wallet) /\ pos'.remaining > 0
           /\ pos'.realized = pos.realized /\ pos.realized = 0
           /\ pos'.status = "OPEN"
  <2>1. pos'.remaining = wallet
    BY <1>6, RunningRead DEF NoRead
  <2>2. 0 <= Qty - wallet
    BY <1>1, QtyAssumption
  <2> QED BY <1>2, <1>6, <2>1, <2>2 DEF Sound
<1> QED BY <1>4, <1>5, <1>6 DEF VisitEffect

LEMMA SoundInit ==
  ASSUME Init
  PROVE  SoundInv
<1>1. TypeInv
  BY TypeInit
<1>2. PICK kind \in EntryKinds : pos = NewPosition(kind)
  BY DEF Init
<1>3. pos.remaining = Qty /\ pos.realized = 0 /\ pos.status # "CLOSED" /\ disk = pos
  BY <1>2 DEF NewPosition, Init
<1>4. wallet \in 0..Qty
  BY <1>1 DEF TypeInv, TypeOK
<1>5. Qty >= wallet /\ 0 <= Qty - wallet
  BY <1>4, QtyAssumption
<1> QED BY <1>1, <1>3, <1>5 DEF SoundInv, Sound

LEMMA SoundStep ==
  ASSUME SoundInv, HonestReads, [Next]_vars
  PROVE  SoundInv'
<1>1. TypeInv'
  BY TypeStep DEF SoundInv
<1> SUFFICES Sound(pos)' /\ Sound(disk)'
  BY <1>1 DEF SoundInv
<1>2. ASSUME NEW expired \in BOOLEAN, BeginCycle(expired)
      PROVE  Sound(pos)' /\ Sound(disk)'
  <2>1. /\ pos'.remaining = pos.remaining /\ pos'.realized = pos.realized
        /\ pos'.status = pos.status
    BY <1>2 DEF BeginCycle, SoundInv, TypeInv, GoodPosition, Position
  <2>2. disk' = disk /\ wallet' = wallet
    BY <1>2 DEF BeginCycle
  <2> QED BY <2>1, <2>2 DEF SoundInv, Sound
<1>3. CASE Mark
  <2>1. UNCHANGED disk
    BY <1>3, MarkPhases
  <2> QED BY <1>3, <2>1, MarkEffect, SoundVisit DEF SoundInv
<1>4. CASE Persist
  BY <1>4 DEF Persist, SoundInv, Sound
<1>5. CASE Crash
  BY <1>5 DEF Crash, SoundInv, Sound
<1>6. CASE Restart
  <2>1. PICK read \in RecoveryReads(wallet), txFailed \in BOOLEAN :
          pos' = Recovered(disk, read, txFailed)
    BY <1>6 DEF Restart
  <2>2. /\ GoodPosition(disk) /\ Sound(disk) /\ wallet \in 0..Qty
        /\ UNCHANGED <<disk, wallet>>
    BY <1>6 DEF Restart, SoundInv, TypeInv, TypeOK
  <2>3. CASE read = NoRead \/ disk.status = "CLOSED"
    <3>1. pos' = disk
      BY <2>1, <2>2, <2>3, RecoveredEffect
    <3> QED BY <2>2, <3>1 DEF Sound
  <2>4. CASE ~(read = NoRead \/ disk.status = "CLOSED")
    <3>1. /\ pos'.remaining = Smaller(disk.remaining, wallet)
          /\ pos'.realized = disk.realized
          /\ pos'.status = "CLOSED" => pos'.remaining = 0
      BY <2>1, <2>2, <2>4, HonestRead, RecoveredEffect
    <3>2. disk.remaining \in Int /\ wallet \in Int
      BY <2>2, QtyAssumption DEF GoodPosition, Position
    <3>3. pos'.remaining >= wallet
      BY <2>2, <3>1, <3>2 DEF Sound, Smaller
    <3> QED BY <2>2, <3>1, <3>3 DEF Sound
  <2> QED BY <2>3, <2>4
<1>7. CASE UNCHANGED vars
  BY <1>7 DEF vars, SoundInv, Sound
<1> QED BY <1>2, <1>3, <1>4, <1>5, <1>6, <1>7 DEF Next

LEMMA SoundAlways ==
  ASSUME HonestReads
  PROVE  Spec => []SoundInv
<1>1. Init => SoundInv
  BY SoundInit
<1>2. SoundInv /\ [Next]_vars => SoundInv'
  BY SoundStep
<1> QED BY <1>1, <1>2, PTL DEF Spec

\* The process and its state file never believe in fewer tokens than the wallet holds,
\* for any quantity, retry limit, crashes and faults that leave reads honest.
THEOREM BookAlwaysCoversWallet ==
  ASSUME HonestReads
  PROVE  Spec => []BookCoversWallet
<1>1. SoundInv => BookCoversWallet
  BY DEF SoundInv, Sound, BookCoversWallet
<1> QED BY <1>1, SoundAlways, PTL

\* A position that has been closed, by a sale or by the recovery, left nothing behind.
THEOREM ClosedIsEmpty ==
  ASSUME HonestReads
  PROVE  Spec => []ClosedMeansEmpty
<1>1. SoundInv => ClosedMeansEmpty
  BY QtyAssumption DEF SoundInv, Sound, TypeInv, TypeOK, ClosedMeansEmpty
<1> QED BY <1>1, SoundAlways, PTL

\* No token is paid for twice, and none that is still in the wallet.
THEOREM PaidOnlyOnce ==
  ASSUME HonestReads
  PROVE  Spec => []PaidOnlyForSold
<1>1. SoundInv => PaidOnlyForSold
  BY DEF SoundInv, Sound, PaidOnlyForSold
<1> QED BY <1>1, SoundAlways, PTL

-----------------------------------------------------------------------------
(* What needs no honest reads: a process that is down is its state file. *)

FromDisk == phase = "down" => pos = disk

LEMMA FromDiskStep ==
  ASSUME FromDisk, [Next]_vars
  PROVE  FromDisk'
<1>1. CASE \E expired \in BOOLEAN : BeginCycle(expired)
  BY <1>1 DEF BeginCycle, FromDisk
<1>2. CASE Mark
  BY <1>2, MarkPhases DEF FromDisk
<1>3. CASE Persist
  BY <1>3 DEF Persist, FromDisk
<1>4. CASE Crash
  BY <1>4 DEF Crash, FromDisk
<1>5. CASE Restart
  BY <1>5 DEF Restart, FromDisk
<1>6. CASE UNCHANGED vars
  BY <1>6 DEF vars, FromDisk
<1> QED BY <1>1, <1>2, <1>3, <1>4, <1>5, <1>6 DEF Next

\* What a process that may not trade has booked as paid is what it found in the file: a
\* crash of it loses nothing.
DryInv == TypeInv /\ FromDisk /\ (~mode.live => pos.realized = disk.realized)

LEMMA DryStep ==
  ASSUME DryInv, [Next]_vars
  PROVE  /\ DryInv'
         /\ phase # "down" /\ ~mode.live => wallet' = wallet /\ pos'.realized = pos.realized
<1>1. TypeInv' /\ FromDisk'
  BY TypeStep, FromDiskStep DEF DryInv
<1> SUFFICES /\ ~mode'.live => pos'.realized = disk'.realized
             /\ phase # "down" /\ ~mode.live
                  => wallet' = wallet /\ pos'.realized = pos.realized
  BY <1>1 DEF DryInv
<1>2. ASSUME NEW expired \in BOOLEAN, BeginCycle(expired)
      PROVE  /\ UNCHANGED <<wallet, mode, disk>>
             /\ pos'.realized = pos.realized
  BY <1>2 DEF BeginCycle, DryInv, TypeInv, GoodPosition, Position
<1>3. CASE Mark
  <2>1. VisitEffect /\ UNCHANGED <<disk, mode>>
    BY <1>3, MarkEffect, MarkPhases DEF DryInv
  <2> QED BY <2>1 DEF VisitEffect, DryInv
<1>4. CASE Persist
  BY <1>4 DEF Persist
<1>5. CASE Crash
  BY <1>5 DEF Crash, DryInv
<1>6. CASE Restart
  <2>1. PICK read \in RecoveryReads(wallet), txFailed \in BOOLEAN :
          pos' = Recovered(disk, read, txFailed)
    BY <1>6 DEF Restart
  <2>2. pos'.realized = disk.realized
    BY <2>1, RecoveredEffect DEF DryInv, TypeInv, TypeOK
  <2> QED BY <1>6, <2>2 DEF Restart
<1>7. CASE UNCHANGED vars
  BY <1>7 DEF vars, DryInv
<1> QED BY <1>2, <1>3, <1>4, <1>5, <1>6, <1>7 DEF Next, DryInv

\* Dry-run (or live trading off) never touches the wallet and never books proceeds, with
\* any faults, and whatever exit it found in the state file.
THEOREM DryRunIsDry == Spec => DryRunSellsNothing
<1>1. Init => DryInv
  BY TypeInit DEF DryInv, FromDisk, Init
<1>2. DryInv /\ [Next]_vars => DryInv'
  BY DryStep
<1>3. DryInv /\ [Next]_vars
        => [ phase # "down" /\ ~mode.live
               => wallet' = wallet /\ pos'.realized = pos.realized ]_vars
  BY DryStep
<1> QED BY <1>1, <1>2, <1>3, PTL DEF Spec, DryRunSellsNothing

-----------------------------------------------------------------------------
(***************************************************************************)
(* The exit machinery implements the ledger.  The recovery corrects the    *)
(* book of the new process, which starts as the saved one; the correction  *)
(* is exact because the saved book covers the wallet.                      *)
(***************************************************************************)
LedgerInv == SoundInv /\ FromDisk

LEMMA LedgerInvStep ==
  ASSUME LedgerInv, HonestReads, [Next]_vars
  PROVE  LedgerInv'
  BY SoundStep, FromDiskStep DEF LedgerInv

LEMMA LedgerInit ==
  ASSUME Init
  PROVE  Ledger!Init
<1>1. PICK kind \in EntryKinds : pos = NewPosition(kind)
  BY DEF Init
<1>2. wallet \in 0..Qty
  BY TypeInit DEF TypeInv, TypeOK
<1>3. Books(pos) = [qty |-> Qty, paid |-> 0, closed |-> FALSE]
  <2>1. pos.remaining = Qty /\ pos.realized = 0 /\ (pos.status = "CLOSED") = FALSE
    BY <1>1 DEF NewPosition
  <2> QED BY <2>1 DEF Books
<1>4. disk = pos
  BY DEF Init
<1> QED BY <1>2, <1>3, <1>4 DEF Ledger!Init, Ledger!Entry

LEMMA LedgerVisit ==
  ASSUME LedgerInv, LedgerInv', HonestReads, VisitEffect, UNCHANGED disk
  PROVE  [Ledger!Next]_<<wallet, Books(pos), Books(disk)>>
<1>1. /\ wallet \in 0..Qty /\ pos' \in Position
      /\ Sound(pos)' /\ wallet' \in 0..wallet
  BY DEF LedgerInv, SoundInv, TypeInv, TypeOK, GoodPosition, VisitEffect
<1>2. UNCHANGED Books(disk)
  OBVIOUS
<1>3. Books(pos)'.closed => Books(pos)'.qty = 0 /\ wallet' = 0
  <2>1. wallet \in Int /\ wallet' \in Int /\ wallet' >= 0
    BY <1>1, QtyAssumption
  <2>2. pos'.status = "CLOSED" => pos'.remaining = 0 /\ wallet' = 0
    BY <1>1, <2>1 DEF Sound
  <2> QED BY <2>2 DEF Books
<1>4. CASE wallet' = wallet /\ Same(pos, pos')
  <2>1. UNCHANGED Books(pos)
    BY <1>4 DEF Same, Books
  <2> QED BY <1>2, <1>4, <2>1
<1>5. ASSUME NEW landed, pos.status # "CLOSED", Effect(pos, landed)
      PROVE  [Ledger!Next]_<<wallet, Books(pos), Books(disk)>>
  <2>1. landed \in 0..wallet /\ wallet' = wallet - landed
    BY <1>5 DEF Effect
  <2>2. CASE Kept(pos, pos')
    <3>1. UNCHANGED Books(pos)
      BY <1>5, <2>2 DEF Kept, Books
    <3>2. CASE landed = 0
      <4>1. wallet' = wallet
        BY <1>1, <2>1, <3>2, QtyAssumption
      <4> QED BY <1>2, <3>1, <4>1
    <3>3. CASE landed # 0
      <4>1. landed \in 1..wallet
        BY <1>1, <2>1, <3>3, QtyAssumption
      <4>2. ~Books(pos).closed
        BY <1>5 DEF Books
      <4>3. Ledger!SellOnChain(landed)
        BY <1>2, <1>3, <2>1, <3>1, <4>2 DEF Ledger!SellOnChain, Ledger!ClosedOnlyWhenEmpty
      <4> QED BY <4>1, <4>3 DEF Ledger!Next
    <3> QED BY <3>2, <3>3
  <2>3. CASE \E n \in 1..pos.remaining : Sold(pos, pos', n) /\ landed = n
    <3>1. PICK n \in 1..pos.remaining : Sold(pos, pos', n) /\ landed = n
      BY <2>3
    <3>2. n \in 1..wallet /\ wallet' = wallet - n
      BY <1>1, <2>1, <3>1, QtyAssumption
    <3>3. /\ Books(pos)'.qty = Books(pos).qty - n
          /\ Books(pos)'.paid \in {Books(pos).paid, Books(pos).paid + n}
      BY <3>1 DEF Sold, Books
    <3>4. ~Books(pos).closed
      BY <1>5 DEF Books
    <3>5. Ledger!SellOnChain(n)
      BY <1>2, <1>3, <3>2, <3>3, <3>4 DEF Ledger!SellOnChain, Ledger!ClosedOnlyWhenEmpty
    <3> QED BY <3>2, <3>5 DEF Ledger!Next
  <2> QED BY <1>5, <2>2, <2>3 DEF Effect
<1>6. CASE /\ wallet' = wallet
           /\ pos'.remaining \in Reads(wallet) /\ pos'.remaining > 0
           /\ pos'.realized = pos.realized /\ pos.realized = 0
           /\ pos'.status = "OPEN" /\ pos.status # "CLOSED"
  <2>1. pos'.remaining = wallet
    BY <1>6, RunningRead DEF NoRead
  <2>2. Books(pos)'.qty = wallet /\ Books(pos)'.paid = Books(pos).paid /\ ~Books(pos).closed
    BY <1>6, <2>1 DEF Books
  <2>3. Ledger!CorrectBook
    BY <1>2, <1>3, <1>6, <2>2 DEF Ledger!CorrectBook, Ledger!ClosedOnlyWhenEmpty
  <2> QED BY <2>3 DEF Ledger!Next
<1> QED BY <1>4, <1>5, <1>6 DEF VisitEffect

LEMMA LedgerRestart ==
  ASSUME LedgerInv, LedgerInv', HonestReads, Restart
  PROVE  [Ledger!Next]_<<wallet, Books(pos), Books(disk)>>
<1>1. PICK read \in RecoveryReads(wallet), txFailed \in BOOLEAN :
        pos' = Recovered(disk, read, txFailed)
  BY DEF Restart
<1>2. /\ GoodPosition(disk) /\ Sound(disk) /\ wallet \in 0..Qty
      /\ pos = disk /\ UNCHANGED <<disk, wallet>> /\ Sound(pos)'
  BY DEF Restart, LedgerInv, FromDisk, SoundInv, TypeInv, TypeOK
<1>3. UNCHANGED Books(disk)
  BY <1>2
<1>4. CASE read = NoRead \/ disk.status = "CLOSED"
  <2>1. pos' = pos
    BY <1>1, <1>2, <1>4, RecoveredEffect
  <2> QED BY <1>2, <1>3, <2>1
<1>5. CASE ~(read = NoRead \/ disk.status = "CLOSED")
  <2>1. /\ pos'.remaining = Smaller(disk.remaining, wallet)
        /\ pos'.realized = disk.realized
        /\ pos'.status = "CLOSED" => pos'.remaining = 0
    BY <1>1, <1>2, <1>5, HonestRead, RecoveredEffect
  <2>2. disk.remaining \in Int /\ wallet \in Int /\ wallet >= 0
    BY <1>2, QtyAssumption DEF GoodPosition, Position
  <2>3. pos'.remaining = wallet
    BY <1>2, <2>1, <2>2 DEF Sound, Smaller
  <2>4. /\ Books(pos)'.qty = wallet /\ Books(pos)'.paid = Books(pos).paid
        /\ ~Books(pos).closed
    BY <1>2, <1>5, <2>1, <2>3 DEF Books
  <2>5. Books(pos)'.closed => Books(pos)'.qty = 0 /\ wallet' = 0
    BY <1>2, <2>1, <2>3 DEF Books
  <2>6. Ledger!CorrectBook
    BY <1>2, <1>3, <2>4, <2>5 DEF Ledger!CorrectBook, Ledger!ClosedOnlyWhenEmpty
  <2> QED BY <2>6 DEF Ledger!Next
<1> QED BY <1>4, <1>5

LEMMA LedgerStep ==
  ASSUME LedgerInv, LedgerInv', HonestReads, [Next]_vars
  PROVE  [Ledger!Next]_<<wallet, Books(pos), Books(disk)>>
<1>1. ASSUME NEW expired \in BOOLEAN, BeginCycle(expired)
      PROVE  [Ledger!Next]_<<wallet, Books(pos), Books(disk)>>
  <2>1. /\ pos'.remaining = pos.remaining /\ pos'.realized = pos.realized
        /\ pos'.status = pos.status
    BY <1>1 DEF BeginCycle, LedgerInv, SoundInv, TypeInv, GoodPosition, Position
  <2>2. UNCHANGED <<disk, wallet>>
    BY <1>1 DEF BeginCycle
  <2> QED BY <2>1, <2>2 DEF Books
<1>2. CASE Mark
  <2>1. UNCHANGED disk
    BY <1>2, MarkPhases
  <2>2. VisitEffect
    BY <1>2, MarkEffect DEF LedgerInv, SoundInv
  <2> QED BY <2>1, <2>2, LedgerVisit
<1>3. CASE Persist
  <2>1. Ledger!Save
    BY <1>3 DEF Persist, Ledger!Save
  <2> QED BY <2>1 DEF Ledger!Next
<1>4. CASE Crash
  <2>1. Ledger!Reload
    BY <1>4 DEF Crash, Ledger!Reload
  <2> QED BY <2>1 DEF Ledger!Next
<1>5. CASE Restart
  BY <1>5, LedgerRestart
<1>6. CASE UNCHANGED vars
  BY <1>6 DEF vars
<1> QED BY <1>1, <1>2, <1>3, <1>4, <1>5, <1>6 DEF Next

\* The detailed exit machinery implements the abstract ledger: every visit, save, crash
\* and recovery is a step of the ledger or leaves it alone.
THEOREM LedgerImplemented ==
  ASSUME HonestReads
  PROVE  Spec => ImplementsLedger
<1>1. Init => LedgerInv
  BY SoundInit DEF LedgerInv, FromDisk, Init
<1>2. LedgerInv /\ [Next]_vars => LedgerInv'
  BY LedgerInvStep
<1>3. Init => Ledger!Init
  BY LedgerInit
<1>4. LedgerInv /\ LedgerInv' /\ [Next]_vars
        => [Ledger!Next]_<<wallet, Books(pos), Books(disk)>>
  BY LedgerStep
<1> QED BY <1>1, <1>2, <1>3, <1>4, PTL DEF Spec, ImplementsLedger, Ledger!Spec

-----------------------------------------------------------------------------
(* What the rest of the trader sees: the slot of a position. *)

LEMMA SlotInSlots ==
  ASSUME NEW p
  PROVE  Slot(p) \in Slots
  BY DEF Slot, Slots

LEMMA SlotStays ==
  ASSUME NEW s \in Slots
  PROVE  /\ s \in VisitMoves(s) /\ s \in RecoveryMoves(s)
         /\ s \in {"open", "exiting", "blocked", "threshold", "none"} =>
              \A sig : s \in SignalMoves(s, sig)
  BY DEF Slots, VisitMoves, RecoveryMoves, SignalMoves

\* An attempt leaves the position as it was, or sells, waits or blocks; a position that
\* is blocked by a threshold failure is never blocked for good.
SaleMoves(p, r) ==
  \/ Slot(r) \in {"open", "exiting", "threshold", "none"}
  \/ Slot(r) = "blocked" /\ p.reason # "threshold"

AttemptMoves(p, r) == r = p \/ SaleMoves(p, r)

LEMMA BlockedSlot ==
  ASSUME NEW p, p.status = "EXIT_BLOCKED"
  PROVE  Slot(p) = IF p.reason = "threshold" THEN "threshold" ELSE "blocked"
<1>1. p.status # "CLOSED" /\ p.status \notin {"OPEN", "PARTIAL"} /\ ~Exiting(p)
  BY DEF Exiting
<1>2. CASE p.reason = "threshold"
  BY <1>1, <1>2 DEF Slot
<1>3. CASE p.reason # "threshold"
  BY <1>1, <1>3 DEF Slot
<1> QED BY <1>2, <1>3

LEMMA ResultSlots ==
  ASSUME NEW p \in Position, NEW q, NEW sig, NEW armHachi
  PROVE  /\ Slot(ReconcileExit(p)) = "exiting"
         /\ Slot(UnconfirmedSale(p, sig)) = "exiting"
         /\ Slot(UnpaidSale(p, q, sig)) = "exiting"
         /\ Slot(SkippedSale(p)) = "exiting"
         /\ Slot(ThresholdFailure(p, q)) = "threshold"
         /\ Slot(FailedSale(p)) = IF p.reason = "threshold" THEN "threshold" ELSE "blocked"
         /\ Slot(BookedSale(p, q, armHachi)) \in {"exiting", "none", "open"}
<1>1. /\ ReconcileExit(p).status = "RECONCILE_PENDING" /\ ReconcileExit(p).context = "exit"
      /\ UnconfirmedSale(p, sig).status = "RECONCILE_PENDING"
      /\ UnconfirmedSale(p, sig).context = "exit"
      /\ UnpaidSale(p, q, sig).status = "RECONCILE_PENDING"
      /\ UnpaidSale(p, q, sig).context = "exit"
  BY DEF Position, ReconcileExit, UnconfirmedSale, UnpaidSale, ClearDrip
<1>2. SkippedSale(p).status = "EXIT_PENDING"
  BY DEF Position, SkippedSale, ClearDrip
<1>3. /\ ThresholdFailure(p, q).status = "EXIT_BLOCKED"
      /\ ThresholdFailure(p, q).reason = "threshold"
  BY DEF Position, ThresholdFailure, ClearDrip
<1>4. FailedSale(p).status = "EXIT_BLOCKED" /\ FailedSale(p).reason = p.reason
  BY DEF Position, FailedSale, ClearDrip
<1>5. BookedSale(p, q, armHachi).status \in {"EXIT_PENDING", "CLOSED", "PARTIAL"}
  BY DEF Position, BookedSale, ClearDrip
<1>6. /\ Slot(ReconcileExit(p)) = "exiting"
      /\ Slot(UnconfirmedSale(p, sig)) = "exiting"
      /\ Slot(UnpaidSale(p, q, sig)) = "exiting"
  BY <1>1 DEF Slot, Exiting
<1>7. Slot(SkippedSale(p)) = "exiting"
  BY <1>2 DEF Slot, Exiting
<1>8. Slot(ThresholdFailure(p, q)) = "threshold"
  BY <1>3, BlockedSlot
<1>9. Slot(FailedSale(p)) = IF p.reason = "threshold" THEN "threshold" ELSE "blocked"
  BY <1>4, BlockedSlot
<1>10. Slot(BookedSale(p, q, armHachi)) \in {"exiting", "none", "open"}
  BY <1>5 DEF Slot, Exiting
<1> QED BY <1>6, <1>7, <1>8, <1>9, <1>10

LEMMA SellMoves ==
  ASSUME NEW p \in Position, NEW q, NEW allowance, NEW armHachi,
         Sell(p, q, allowance, armHachi)
  PROVE  SaleMoves(p, pos')
<1>1. CASE SellAnswered(p, q, allowance, armHachi)
  <2>1. PICK landed \in {0, q} :
          \E pre \in Reads(wallet), post \in ReadsAfterSale(wallet, wallet - landed) :
            LET sig == IF landed = q THEN "landed" ELSE "dropped"
            IN  \/ pos' = UnconfirmedSale(p, sig)
                \/ pos' = BookedSale(p, q, armHachi)
                \/ pos' = UnpaidSale(p, q, sig)
    BY <1>1 DEF SellAnswered
  <2> QED BY <2>1, ResultSlots DEF SaleMoves
<1>2. CASE SellRefused(p, q, allowance) \/ SellReplyLost(p, q, allowance)
  BY <1>2, ResultSlots DEF SellRefused, SellReplyLost, SaleMoves
<1>3. CASE SellThreshold(p, q, allowance) \/ SellSkipped(p, allowance)
  BY <1>3, ResultSlots DEF SellThreshold, SellSkipped, SaleMoves
<1> QED BY <1>1, <1>2, <1>3 DEF Sell

LEMMA AttemptKeepsToMoves ==
  ASSUME NEW p, GoodPosition(p), wallet \in 0..Qty, NEW allowance, NEW armHachi,
         AttemptExit(p, allowance, armHachi)
  PROVE  AttemptMoves(p, pos')
<1>1. p \in Position
  BY DEF GoodPosition
<1>2. CASE MissingQty(p, allowance)
  <2>1. pos'.status = "EXIT_BLOCKED" /\ pos'.reason = p.reason
    BY <1>1, <1>2 DEF MissingQty, ClearDrip, Position
  <2> QED BY <2>1, BlockedSlot DEF AttemptMoves, SaleMoves
<1>3. CASE ChunkNotDue(p, allowance)
  BY <1>3 DEF ChunkNotDue, AttemptMoves
<1>4. CASE SubmitSell(p, allowance, armHachi)
  <2>1. PICK want \in Wanted(p), read \in Reads(wallet) :
          LET short == read # NoRead /\ read < want
              q == IF short THEN read ELSE want
              p1 == IF short THEN Adjusted(p, q) ELSE p
          IN  IF q = 0
              THEN pos' = ReconcileExit(p1) /\ NoSwap(allowance)
              ELSE Sell(p1, q, allowance, armHachi)
    BY <1>4 DEF SubmitSell
  <2> DEFINE short == read # NoRead /\ read < want
             q == IF short THEN read ELSE want
             p1 == IF short THEN Adjusted(p, q) ELSE p
  <2>2. want \in 0..p.remaining /\ p.remaining \in 0..Qty
    BY <1>1, <2>1, WantedBounded DEF Position
  <2>3. short => read \in 0..Qty
    BY <2>1, <2>2, QtyAssumption DEF Reads, NoRead
  <2>4. p1 \in Position /\ p1.reason = p.reason
    BY <1>1, <2>3 DEF Adjusted, Position
  <2>5. pos' = ReconcileExit(p1) \/ Sell(p1, q, allowance, armHachi)
    BY <2>1
  <2> HIDE DEF p1, q, short
  <2>6. CASE pos' = ReconcileExit(p1)
    BY <2>4, <2>6, ResultSlots DEF AttemptMoves, SaleMoves
  <2>7. CASE Sell(p1, q, allowance, armHachi)
    <3>1. SaleMoves(p1, pos')
      BY <2>4, <2>7, SellMoves
    <3> QED BY <2>4, <3>1 DEF AttemptMoves, SaleMoves
  <2> QED BY <2>5, <2>6, <2>7
<1> QED BY <1>2, <1>3, <1>4 DEF AttemptExit

LEMMA StartMoves ==
  ASSUME NEW p, GoodPosition(p), wallet \in 0..Qty,
         NEW qty \in Int, NEW reason \in Reasons, NEW armHachi \in BOOLEAN,
         StartExit(p, qty, reason, armHachi)
  PROVE  Slot(pos') \in {"open", "exiting", "blocked", "threshold", "none"}
<1>1. PICK q, r : /\ q \in Int /\ GoodPosition(r) /\ r.status = "EXIT_PENDING"
                  /\ AttemptExit(r, q, armHachi)
  BY StartPrepares
<1>2. Slot(r) = "exiting"
  BY <1>1 DEF Slot, Exiting
<1> QED BY <1>1, <1>2, AttemptKeepsToMoves DEF AttemptMoves, SaleMoves

LEMMA MarkMoves ==
  ASSUME TypeInv, Mark
  PROVE  Slot(pos') \in SignalMoves(Slot(pos), signal)
<1>1. GoodPosition(pos) /\ wallet \in 0..Qty
  BY DEF TypeInv, TypeOK
<1>2. /\ pos.remaining \in Int /\ pos.remaining \in Nat /\ pos.tpDone \in 0..TpSteps
      /\ Reasons = {"none", "hard", "take_profit", "hachi_dripper", "threshold"}
  BY <1>1, QtyAssumption DEF GoodPosition, Position, Reasons
<1>3. CASE pos' = pos /\ Slot(pos) # "unconfirmed"
  <2>1. Slot(pos) \in {"open", "exiting", "blocked", "threshold", "none"}
    BY <1>3, SlotInSlots DEF Slots
  <2> QED BY <1>3, <2>1, SlotInSlots, SlotStays
<1>4. CASE MarkBlocked /\ pos' # pos
  <2>1. pos.status = "EXIT_BLOCKED" /\ pos.reason = "threshold" /\ AttemptExit(pos, plan, FALSE)
    BY <1>4 DEF MarkBlocked
  <2>2. Slot(pos) = "threshold"
    BY <2>1, BlockedSlot
  <2>3. Slot(pos') \in {"open", "exiting", "threshold", "none"}
    BY <1>1, <1>4, <2>1, AttemptKeepsToMoves DEF AttemptMoves, SaleMoves
  <2> QED BY <2>2, <2>3 DEF SignalMoves, VisitMoves
<1>5. CASE MarkExhausted
  <2>1. Slot(pos) = "exiting"
    BY <1>5 DEF MarkExhausted, Slot, Exiting
  <2>2. pos'.status = "EXIT_BLOCKED"
    BY <1>1, <1>5 DEF MarkExhausted, GoodPosition, Position
  <2> QED BY <2>1, <2>2, BlockedSlot DEF SignalMoves, VisitMoves
<1>6. CASE MarkPending /\ pos' # pos
  <2>1. Slot(pos) = "exiting"
    BY <1>6 DEF MarkPending, Slot, Exiting
  <2>2. AttemptExit(pos, plan, FALSE)
    BY <1>6 DEF MarkPending
  <2>3. Slot(pos') \in {"open", "exiting", "blocked", "threshold", "none"}
    BY <1>1, <1>6, <2>2, AttemptKeepsToMoves DEF AttemptMoves, SaleMoves
  <2> QED BY <2>1, <2>3 DEF SignalMoves, VisitMoves
<1>7. CASE MarkUnconfirmedEntry
  <2>1. Slot(pos) = "unconfirmed"
    BY <1>7 DEF MarkUnconfirmedEntry, Slot, Exiting
  <2>2. PICK read \in Reads(wallet) :
          IF read > 0
          THEN pos' = [pos EXCEPT !.remaining = read, !.status = "OPEN", !.context = "none"]
          ELSE IF signal = "hard"
          THEN StartExit(pos, pos.remaining, "hard", FALSE)
          ELSE pos' = pos
    BY <1>7 DEF MarkUnconfirmedEntry
  <2>3. CASE read > 0
    <3>1. pos'.status = "OPEN"
      BY <1>1, <2>2, <2>3 DEF GoodPosition, Position
    <3>2. Slot(pos') = "open"
      BY <3>1 DEF Slot, Exiting
    <3> QED BY <2>1, <3>2 DEF SignalMoves, VisitMoves
  <2>4. CASE ~(read > 0) /\ signal = "hard"
    <3>1. Slot(pos') \in {"open", "exiting", "blocked", "threshold", "none"}
      BY <1>1, <1>2, <2>2, <2>4, StartMoves
    <3> QED BY <2>1, <2>4, <3>1 DEF SignalMoves, VisitMoves
  <2>5. CASE ~(read > 0) /\ signal # "hard"
    BY <2>1, <2>2, <2>5 DEF SignalMoves
  <2> QED BY <2>3, <2>4, <2>5
<1>8. ASSUME Evaluated, signal # "none",
             Slot(pos') \in {"open", "exiting", "blocked", "threshold", "none"}
      PROVE  Slot(pos') \in SignalMoves(Slot(pos), signal)
  <2>1. Slot(pos) = "open"
    BY <1>8 DEF Evaluated, Slot, Exiting
  <2> QED BY <1>8, <2>1 DEF SignalMoves, VisitMoves
<1>9. CASE MarkHardExit
  BY <1>1, <1>2, <1>8, <1>9, StartMoves DEF MarkHardExit
<1>10. CASE MarkSoftExit
  <2>1. 50 \in 1..100
    OBVIOUS
  <2>2. Part(pos.remaining, 50) \in Int
    BY <1>2, <2>1, PartType
  <2> QED BY <1>1, <1>2, <1>8, <1>10, <2>2, StartMoves DEF MarkSoftExit
<1>11. CASE MarkTakeProfit
  <2> DEFINE p == [pos EXCEPT !.tpDone = @ + 1]
  <2>1. p \in Position /\ p.remaining = pos.remaining /\ p.realized = pos.realized
        /\ p.status = pos.status /\ p.context = pos.context
    BY <1>1, <1>2, <1>11, PercentAssumption DEF MarkTakeProfit, GoodPosition, Position
  <2>2. StartExit(p, Part(pos.remaining, TpPct), "take_profit", FALSE) /\ Evaluated /\ signal # "none"
    BY <1>11 DEF MarkTakeProfit
  <2> HIDE DEF p
  <2>3. GoodPosition(p)
    BY <1>1, <2>1 DEF GoodPosition, WithinEntry, EntryUnpaid
  <2>4. Part(pos.remaining, TpPct) \in Int
    BY <1>2, PartType, PercentAssumption
  <2> QED BY <1>1, <1>2, <1>8, <2>2, <2>3, <2>4, StartMoves
<1>12. CASE MarkHachi
  <2>1. PICK pct \in ChunkPcts : StartExit(pos, Part(pos.remaining, pct), "hachi_dripper", TRUE)
    BY <1>12 DEF MarkHachi
  <2>2. Part(pos.remaining, pct) \in Int
    BY <1>2, PartType, PercentAssumption
  <2> QED BY <1>1, <1>2, <1>8, <1>12, <2>1, <2>2, StartMoves DEF MarkHachi
<1>13. CASE MarkIdle
  <2>1. pos' = pos /\ (pos.status = "CLOSED" \/ Evaluated)
    BY <1>13 DEF MarkIdle, NothingToDo
  <2>2. Slot(pos) # "unconfirmed"
    BY <2>1 DEF Evaluated, Slot
  <2> QED BY <1>3, <2>1, <2>2
<1>14. CASE pos' = pos /\ (MarkBlocked \/ MarkPending)
  <2>1. pos.status = "EXIT_BLOCKED" \/ Exiting(pos)
    BY <1>14 DEF MarkBlocked, MarkPending
  <2>2. Slot(pos) # "unconfirmed"
    BY <2>1, BlockedSlot DEF Slot, Exiting
  <2> QED BY <1>3, <1>14, <2>2
<1> QED BY <1>3, <1>4, <1>5, <1>6, <1>7, <1>9, <1>10, <1>11, <1>12, <1>13, <1>14 DEF Mark

LEMMA RecoveredMoves ==
  ASSUME NEW p \in Position, NEW read, NEW txFailed
  PROVE  Slot(Recovered(p, read, txFailed)) \in RecoveryMoves(Slot(p))
<1> DEFINE capped == [p EXCEPT !.remaining = Smaller(@, read)]
           r == Recovered(p, read, txFailed)
<1>1. /\ capped.status = p.status /\ capped.context = p.context /\ capped.reason = p.reason
      /\ Slot(capped) = Slot(p)
  BY DEF Position, Slot, Exiting
<1>2. CASE r = p \/ r = capped
  BY <1>1, <1>2, SlotInSlots, SlotStays
<1>3. ASSUME r # p, r # capped
      PROVE  \/ Exiting(p) /\ r.status \in {"CLOSED", "EXIT_BLOCKED", "PARTIAL"}
             \/ /\ p.status \notin {"EXIT_PENDING", "RECONCILE_PENDING", "CLOSED"}
                /\ r.status = "EXIT_BLOCKED" /\ r.reason = p.reason
  BY <1>3 DEF Recovered, Position, Exiting
<1> HIDE DEF r, capped
<1>4. CASE Exiting(p) /\ r.status \in {"CLOSED", "EXIT_BLOCKED", "PARTIAL"}
  <2>1. Slot(p) = "exiting"
    BY <1>4 DEF Slot, Exiting
  <2>2. r.status \in {"CLOSED", "PARTIAL"} => Slot(r) \in {"none", "open"}
    BY DEF Slot, Exiting
  <2> QED BY <1>4, <2>1, <2>2, BlockedSlot DEF RecoveryMoves, r
<1>5. CASE /\ p.status \notin {"EXIT_PENDING", "RECONCILE_PENDING", "CLOSED"}
           /\ r.status = "EXIT_BLOCKED" /\ r.reason = p.reason
  <2>1. CASE p.status = "EXIT_BLOCKED"
    <3>1. Slot(r) = Slot(p)
      BY <1>5, <2>1, BlockedSlot
    <3> QED BY <3>1, SlotInSlots, SlotStays DEF r
  <2>2. CASE p.status \in {"OPEN", "PARTIAL"}
    <3>1. Slot(p) = "open"
      BY <2>2 DEF Slot, Exiting
    <3> QED BY <1>5, <3>1, BlockedSlot DEF RecoveryMoves, r
  <2> QED BY <1>5, <2>1, <2>2 DEF Position, Statuses
<1> QED BY <1>2, <1>3, <1>4, <1>5 DEF r

\* A position moves between slots only as TradingCycle and ExitRules assume, with any
\* faults: an open position is sold only when the rules ask for it, an abandoned exit is
\* never revived and a closed position never reopened.
THEOREM SlotsFollowed == Spec => FollowsSlots
<1> DEFINE Inv == TypeInv /\ FromDisk
<1>1. Init => Inv
  BY TypeInit DEF FromDisk, Init
<1>2. Inv /\ [Next]_vars => Inv'
  BY TypeStep, FromDiskStep
<1>3. Inv => [ /\ Mark => Slot(pos') \in SignalMoves(Slot(pos), signal)
               /\ Restart => Slot(pos') \in RecoveryMoves(Slot(pos)) ]_vars
  <2> SUFFICES ASSUME Inv
               PROVE  /\ Mark => Slot(pos') \in SignalMoves(Slot(pos), signal)
                      /\ Restart => Slot(pos') \in RecoveryMoves(Slot(pos))
    OBVIOUS
  <2>1. Mark => Slot(pos') \in SignalMoves(Slot(pos), signal)
    BY MarkMoves
  <2>2. Restart => Slot(pos') \in RecoveryMoves(Slot(pos))
    BY RecoveredMoves DEF Restart, FromDisk, TypeInv, GoodPosition
  <2> QED BY <2>1, <2>2
<1> HIDE DEF Inv
<1> QED BY <1>1, <1>2, <1>3, PTL DEF Spec, FollowsSlots

-----------------------------------------------------------------------------
(***************************************************************************)
(* The drip and the retry count, until the first crash.  A drip lives      *)
(* inside one exit: it starts with a clean count, every attempt that fails *)
(* ends it, and what is pending is what is left of it.                     *)
(***************************************************************************)
Starting(p) ==
  \/ p.status \in {"OPEN", "PARTIAL"}
  \/ p.status = "RECONCILE_PENDING" /\ p.context = "entry"

DripReady(p) ==
  p.drip => /\ p.status = "EXIT_PENDING" /\ p.retries = 0
            /\ p.pendingQty = p.dripLeft /\ p.dripLeft \in 0..p.remaining

Orderly(p) ==
  /\ DripReady(p)
  /\ p.drip => p.dripLeft > 0
  /\ Starting(p) => p.retries = 0

OrderlyInv ==
  /\ TypeInv
  /\ crashes = 0 => phase # "down" /\ Orderly(pos)

\* The position after an attempt: orderly, with at most one retry more than before.
OrderlyAfter(p, r) == Orderly(r) /\ r.retries \in Nat /\ r.retries <= p.retries + 1

\* An attempt that fails ends the drip and counts once at most.
LEMMA FailuresOrderly ==
  ASSUME NEW p \in Position, NEW q, NEW sig
  PROVE  /\ OrderlyAfter(p, ReconcileExit(p))
         /\ OrderlyAfter(p, UnconfirmedSale(p, sig))
         /\ OrderlyAfter(p, UnpaidSale(p, q, sig))
         /\ OrderlyAfter(p, FailedSale(p))
         /\ OrderlyAfter(p, ThresholdFailure(p, q))
         /\ OrderlyAfter(p, SkippedSale(p))
<1>1. /\ p.retries \in 0..RetryCap /\ p.retries \in Nat
      /\ Counted(p.retries) \in 0..RetryCap /\ Counted(p.retries) \in Nat
  BY RetryMaxAssumption, CountedType DEF Position, RetryCap
<1>2. Counted(p.retries) <= p.retries + 1 /\ p.retries <= p.retries + 1
  BY <1>1, RetryMaxAssumption DEF Counted, Smaller, RetryCap
<1>3. ASSUME NEW r, r.drip = FALSE, ~Starting(r), r.retries \in {p.retries, Counted(p.retries)}
      PROVE  OrderlyAfter(p, r)
  BY <1>1, <1>2, <1>3 DEF OrderlyAfter, Orderly, DripReady
<1>4. /\ ReconcileExit(p).drip = FALSE /\ ReconcileExit(p).status = "RECONCILE_PENDING"
      /\ ReconcileExit(p).context = "exit" /\ ReconcileExit(p).retries = Counted(p.retries)
  BY DEF Position, ReconcileExit, ClearDrip
<1>5. /\ UnconfirmedSale(p, sig).drip = FALSE
      /\ UnconfirmedSale(p, sig).status = "RECONCILE_PENDING"
      /\ UnconfirmedSale(p, sig).context = "exit"
      /\ UnconfirmedSale(p, sig).retries = Counted(p.retries)
  BY DEF Position, UnconfirmedSale, ReconcileExit, ClearDrip
<1>6. /\ UnpaidSale(p, q, sig).drip = FALSE
      /\ UnpaidSale(p, q, sig).status = "RECONCILE_PENDING"
      /\ UnpaidSale(p, q, sig).context = "exit"
      /\ UnpaidSale(p, q, sig).retries = Counted(p.retries)
  BY DEF Position, UnpaidSale, ReconcileExit, ClearDrip
<1>7. /\ FailedSale(p).drip = FALSE /\ FailedSale(p).status = "EXIT_BLOCKED"
      /\ FailedSale(p).retries = Counted(p.retries)
  BY DEF Position, FailedSale, ClearDrip
<1>8. /\ ThresholdFailure(p, q).drip = FALSE /\ ThresholdFailure(p, q).status = "EXIT_BLOCKED"
      /\ ThresholdFailure(p, q).retries = p.retries
  BY DEF Position, ThresholdFailure, ClearDrip
<1>9. /\ SkippedSale(p).drip = FALSE /\ SkippedSale(p).status = "EXIT_PENDING"
      /\ SkippedSale(p).retries = p.retries
  BY DEF Position, SkippedSale, ClearDrip
<1>10. /\ OrderlyAfter(p, ReconcileExit(p)) /\ OrderlyAfter(p, UnconfirmedSale(p, sig))
       /\ OrderlyAfter(p, UnpaidSale(p, q, sig))
  BY <1>3, <1>4, <1>5, <1>6 DEF Starting
<1>11. /\ OrderlyAfter(p, FailedSale(p)) /\ OrderlyAfter(p, ThresholdFailure(p, q))
       /\ OrderlyAfter(p, SkippedSale(p))
  BY <1>3, <1>7, <1>8, <1>9 DEF Starting
<1> QED BY <1>10, <1>11

\* A chunk that is sold is taken from the position and from the drip alike.
LEMMA BookedSaleOrderly ==
  ASSUME NEW p \in Position, DripReady(p), NEW q \in 1..p.remaining, NEW armHachi \in BOOLEAN
  PROVE  OrderlyAfter(p, BookedSale(p, q, armHachi))
<1> DEFINE b == BookedSale(p, q, armHachi)
           left == Larger(0, p.dripLeft - q)
<1>1. p.remaining \in 0..Qty /\ p.dripLeft \in 0..Qty /\ p.retries \in Nat
  BY RetryMaxAssumption DEF Position, RetryCap
<1>2. b.retries = 0 /\ b.remaining = Larger(0, p.remaining - q)
  BY DEF BookedSale, ClearDrip, Position
<1>3. b.drip => /\ p.drip /\ left > 0 /\ b.status = "EXIT_PENDING"
                /\ b.pendingQty = left /\ b.dripLeft = left
  BY DEF BookedSale, ClearDrip, Position
<1>4. CASE b.drip
  <2>1. p.dripLeft \in 0..p.remaining
    BY <1>3, <1>4 DEF DripReady
  <2>2. left \in 0..b.remaining /\ left > 0
    BY <1>1, <1>2, <1>3, <1>4, <2>1, QtyAssumption DEF Larger
  <2> HIDE DEF b, left
  <2>3. Orderly(b)
    BY <1>2, <1>3, <1>4, <2>2 DEF Orderly, DripReady, Starting
  <2> QED BY <1>1, <1>2, <2>3 DEF OrderlyAfter, b
<1>5. CASE ~b.drip
  <2> HIDE DEF b, left
  <2>1. Orderly(b)
    BY <1>2, <1>5 DEF Orderly, DripReady
  <2> QED BY <1>1, <1>2, <2>1 DEF OrderlyAfter, b
<1> QED BY <1>4, <1>5

LEMMA SellOrderly ==
  ASSUME NEW p \in Position, DripReady(p), NEW q \in 1..p.remaining,
         NEW allowance, NEW armHachi \in BOOLEAN,
         Sell(p, q, allowance, armHachi)
  PROVE  OrderlyAfter(p, pos')
<1>1. CASE SellAnswered(p, q, allowance, armHachi)
  <2>1. PICK landed \in {0, q} :
          \E pre \in Reads(wallet), post \in ReadsAfterSale(wallet, wallet - landed) :
            LET sig == IF landed = q THEN "landed" ELSE "dropped"
            IN  \/ pos' = UnconfirmedSale(p, sig)
                \/ pos' = BookedSale(p, q, armHachi)
                \/ pos' = UnpaidSale(p, q, sig)
    BY <1>1 DEF SellAnswered
  <2> QED BY <2>1, FailuresOrderly, BookedSaleOrderly
<1>2. CASE SellRefused(p, q, allowance) \/ SellReplyLost(p, q, allowance)
  BY <1>2, FailuresOrderly DEF SellRefused, SellReplyLost
<1>3. CASE SellThreshold(p, q, allowance) \/ SellSkipped(p, allowance)
  BY <1>3, FailuresOrderly DEF SellThreshold, SellSkipped
<1> QED BY <1>1, <1>2, <1>3 DEF Sell

LEMMA AttemptOrderly ==
  ASSUME NEW p, GoodPosition(p), DripReady(p), ~Starting(p), wallet \in 0..Qty,
         NEW allowance, NEW armHachi \in BOOLEAN,
         AttemptExit(p, allowance, armHachi)
  PROVE  OrderlyAfter(p, pos')
<1>1. p \in Position /\ p.retries \in Nat /\ p.pendingQty \in Nat
  BY QtyAssumption, RetryMaxAssumption DEF GoodPosition, Position, RetryCap
<1>2. CASE MissingQty(p, allowance)
  <2>1. /\ pos'.drip = FALSE /\ pos'.status = "EXIT_BLOCKED" /\ pos'.retries = p.retries
    BY <1>1, <1>2 DEF MissingQty, ClearDrip, Position
  <2> QED BY <1>1, <2>1 DEF OrderlyAfter, Orderly, DripReady, Starting
<1>3. CASE ChunkNotDue(p, allowance)
  <2>1. pos' = p /\ p.pendingQty > 0
    BY <1>3 DEF ChunkNotDue
  <2>2. Orderly(p)
    BY <2>1 DEF Orderly, DripReady
  <2> QED BY <1>1, <2>1, <2>2 DEF OrderlyAfter
<1>4. CASE SubmitSell(p, allowance, armHachi)
  <2>1. PICK want \in Wanted(p), read \in Reads(wallet) :
          LET short == read # NoRead /\ read < want
              q == IF short THEN read ELSE want
              p1 == IF short THEN Adjusted(p, q) ELSE p
          IN  IF q = 0
              THEN pos' = ReconcileExit(p1) /\ NoSwap(allowance)
              ELSE Sell(p1, q, allowance, armHachi)
    BY <1>4 DEF SubmitSell
  <2> DEFINE short == read # NoRead /\ read < want
             q == IF short THEN read ELSE want
             p1 == IF short THEN Adjusted(p, q) ELSE p
  <2>2. /\ p.remaining \in 0..Qty /\ want \in 0..p.remaining /\ read \in Int
        /\ (read \in Nat \/ read = NoRead)
    BY <1>1, <2>1, WantedBounded, QtyAssumption DEF Position, Reads, NoRead
  <2>3. q \in 0..p.remaining /\ q \in 0..Qty
    BY <2>2, QtyAssumption DEF NoRead
  <2> HIDE DEF q, short
  <2>4. /\ Adjusted(p, q) \in Position /\ DripReady(Adjusted(p, q))
        /\ Adjusted(p, q).remaining = p.remaining /\ Adjusted(p, q).retries = p.retries
    BY <1>1, <2>3 DEF Adjusted, DripReady, Position
  <2>5. /\ p1 \in Position /\ DripReady(p1)
        /\ p1.remaining = p.remaining /\ p1.retries = p.retries
    BY <1>1, <2>4
  <2> HIDE DEF p1
  <2>6. OrderlyAfter(p1, pos')
    <3>1. CASE q = 0
      <4>1. pos' = ReconcileExit(p1)
        BY <2>1, <3>1 DEF p1, q, short
      <4> QED BY <2>5, <4>1, FailuresOrderly
    <3>2. CASE q # 0
      <4>1. Sell(p1, q, allowance, armHachi)
        BY <2>1, <3>2 DEF p1, q, short
      <4>2. q \in 1..p1.remaining
        BY <2>2, <2>3, <2>5, <3>2
      <4> QED BY <2>5, <4>1, <4>2, SellOrderly
    <3> QED BY <3>1, <3>2
  <2> QED BY <2>5, <2>6 DEF OrderlyAfter
<1> QED BY <1>2, <1>3, <1>4 DEF AttemptExit

\* An exit starts without a drip of an earlier one, and with a clean count.
LEMMA StartOrderly ==
  ASSUME NEW p, GoodPosition(p), ~p.drip, p.retries = 0, wallet \in 0..Qty,
         NEW qty \in Int, NEW reason \in Reasons, NEW armHachi \in BOOLEAN,
         StartExit(p, qty, reason, armHachi)
  PROVE  Orderly(pos') /\ pos'.retries \in Nat /\ pos'.retries <= 1
<1> DEFINE q == Smaller(Larger(1, qty), p.remaining)
           p1 == IF reason = "hard" THEN [p EXCEPT !.chunkWaiting = FALSE] ELSE p
           p2 == IF mode.sell = "drip" /\ reason = "take_profit"
                 THEN [p1 EXCEPT !.drip = TRUE, !.dripLeft = q, !.chunkWaiting = FALSE]
                 ELSE p1
           p3 == [p2 EXCEPT !.status = "EXIT_PENDING", !.reason = reason, !.pendingQty = q]
<1>1. /\ p.remaining \in 0..Qty /\ q \in 0..Qty /\ q \in 0..p.remaining
  BY QtyAssumption DEF GoodPosition, Position, Smaller, Larger
<1> HIDE DEF q
<1>2. /\ p1 \in Position /\ p1.remaining = p.remaining /\ p1.realized = p.realized
      /\ ~p1.drip /\ p1.retries = 0
  BY DEF GoodPosition, Position
<1> HIDE DEF p1
<1>3. /\ p2 \in Position /\ p2.remaining = p.remaining /\ p2.realized = p.realized
      /\ p2.retries = 0 /\ (p2.drip => p2.dripLeft = q)
  BY <1>1, <1>2 DEF Position
<1> HIDE DEF p2
<1>4. /\ p3 \in Position /\ p3.remaining = p.remaining /\ p3.realized = p.realized
      /\ p3.retries = 0 /\ p3.status = "EXIT_PENDING" /\ p3.pendingQty = q
      /\ (p3.drip => p3.dripLeft = q)
  BY <1>1, <1>3 DEF Position, Statuses
<1> HIDE DEF p3
<1>5. GoodPosition(p3) /\ DripReady(p3) /\ ~Starting(p3)
  BY <1>1, <1>4 DEF GoodPosition, WithinEntry, EntryUnpaid, DripReady, Starting
<1>6. AttemptExit(p3, q, armHachi)
  BY DEF StartExit, p3, p2, p1, q
<1>7. OrderlyAfter(p3, pos')
  BY <1>5, <1>6, AttemptOrderly
<1> QED BY <1>4, <1>7 DEF OrderlyAfter

\* A visit keeps the position in order; the count passes RetryMax only by an exit that a
\* threshold failure keeps alive.
LEMMA MarkOrderly ==
  ASSUME TypeInv, Orderly(pos), Mark
  PROVE  /\ Orderly(pos')
         /\ pos'.retries > RetryMax => pos.retries > RetryMax \/ pos.reason = "threshold"
<1>1. /\ GoodPosition(pos) /\ pos \in Position /\ wallet \in 0..Qty
      /\ RetryMax \in Nat /\ RetryMax >= 1
  BY RetryMaxAssumption DEF TypeInv, TypeOK, GoodPosition
<1>2. /\ pos.remaining \in Int /\ pos.remaining \in Nat /\ pos.retries \in Nat
      /\ pos.tpDone \in 0..TpSteps /\ DripReady(pos)
      /\ Reasons = {"none", "hard", "take_profit", "hachi_dripper", "threshold"}
  BY <1>1, QtyAssumption, RetryMaxAssumption DEF Position, Reasons, RetryCap, Orderly
<1>3. CASE pos' = pos
  BY <1>3
<1>4. ASSUME ~Starting(pos), AttemptExit(pos, plan, FALSE)
      PROVE  Orderly(pos') /\ pos'.retries \in Nat /\ pos'.retries <= pos.retries + 1
  BY <1>1, <1>2, <1>4, AttemptOrderly DEF OrderlyAfter
<1>5. ASSUME Starting(pos)
      PROVE  ~pos.drip /\ pos.retries = 0
  BY <1>2, <1>5 DEF Orderly, DripReady, Starting
<1>6. ASSUME NEW p, GoodPosition(p), p.drip = pos.drip, p.retries = pos.retries,
             NEW qty \in Int, NEW reason \in Reasons, NEW armHachi \in BOOLEAN,
             Starting(pos), StartExit(p, qty, reason, armHachi)
      PROVE  Orderly(pos') /\ ~(pos'.retries > RetryMax)
  <2>1. Orderly(pos') /\ pos'.retries \in Nat /\ pos'.retries <= 1
    BY <1>1, <1>5, <1>6, StartOrderly
  <2> QED BY <1>1, <2>1
<1>7. CASE MarkBlocked /\ pos' # pos
  <2>1. pos.reason = "threshold" /\ ~Starting(pos) /\ AttemptExit(pos, plan, FALSE)
    BY <1>7 DEF MarkBlocked, Starting
  <2> QED BY <1>4, <2>1
<1>8. CASE MarkExhausted
  <2>1. pos.retries >= RetryMax /\ Exiting(pos)
    BY <1>8 DEF MarkExhausted
  <2>2. pos'.status = "EXIT_BLOCKED" /\ pos'.drip = pos.drip /\ pos'.retries = pos.retries
    BY <1>1, <1>8 DEF MarkExhausted, Position
  <2>3. ~pos.drip
    BY <1>1, <1>2, <2>1 DEF DripReady
  <2> QED BY <2>2, <2>3 DEF Orderly, DripReady, Starting
<1>9. CASE MarkPending /\ pos' # pos
  <2>1. pos.retries < RetryMax /\ ~Starting(pos) /\ AttemptExit(pos, plan, FALSE)
    BY <1>9 DEF MarkPending, Exiting, Starting
  <2>2. Orderly(pos') /\ pos'.retries \in Nat /\ pos'.retries <= pos.retries + 1
    BY <1>4, <2>1
  <2> QED BY <1>1, <1>2, <2>1, <2>2
<1>10. CASE MarkUnconfirmedEntry
  <2>1. Starting(pos)
    BY <1>10 DEF MarkUnconfirmedEntry, Starting
  <2>2. CASE pos'.status = "OPEN" /\ pos'.drip = pos.drip /\ pos'.retries = pos.retries
    BY <1>1, <1>5, <2>1, <2>2 DEF Orderly, DripReady
  <2>3. \/ pos'.status = "OPEN" /\ pos'.drip = pos.drip /\ pos'.retries = pos.retries
        \/ StartExit(pos, pos.remaining, "hard", FALSE)
        \/ pos' = pos
    BY <1>1, <1>10 DEF MarkUnconfirmedEntry, Position
  <2> QED BY <1>1, <1>2, <1>3, <1>6, <2>1, <2>2, <2>3
<1>11. CASE MarkHardExit
  BY <1>1, <1>2, <1>6, <1>11 DEF MarkHardExit, Evaluated, Starting
<1>12. CASE MarkSoftExit
  <2>1. 50 \in 1..100
    OBVIOUS
  <2>2. Part(pos.remaining, 50) \in Int
    BY <1>2, <2>1, PartType
  <2> QED BY <1>1, <1>2, <1>6, <1>12, <2>2 DEF MarkSoftExit, Evaluated, Starting
<1>13. CASE MarkTakeProfit
  <2> DEFINE p == [pos EXCEPT !.tpDone = @ + 1]
  <2>1. p \in Position /\ p.remaining = pos.remaining /\ p.realized = pos.realized
        /\ p.status = pos.status /\ p.context = pos.context
        /\ p.drip = pos.drip /\ p.retries = pos.retries
    BY <1>1, <1>2, <1>13, PercentAssumption DEF MarkTakeProfit, Position
  <2>2. StartExit(p, Part(pos.remaining, TpPct), "take_profit", FALSE) /\ Starting(pos)
    BY <1>13 DEF MarkTakeProfit, Evaluated, Starting
  <2> HIDE DEF p
  <2>3. GoodPosition(p)
    BY <1>1, <2>1 DEF GoodPosition, WithinEntry, EntryUnpaid
  <2>4. Part(pos.remaining, TpPct) \in Int
    BY <1>2, PartType, PercentAssumption
  <2> QED BY <1>2, <1>6, <2>1, <2>2, <2>3, <2>4
<1>14. CASE MarkHachi
  <2>1. PICK pct \in ChunkPcts : StartExit(pos, Part(pos.remaining, pct), "hachi_dripper", TRUE)
    BY <1>14 DEF MarkHachi
  <2>2. Part(pos.remaining, pct) \in Int
    BY <1>2, PartType, PercentAssumption
  <2> QED BY <1>1, <1>2, <1>6, <1>14, <2>1, <2>2 DEF MarkHachi, Evaluated, Starting
<1>15. CASE MarkIdle
  BY <1>3, <1>15 DEF MarkIdle
<1> QED BY <1>3, <1>7, <1>8, <1>9, <1>10, <1>11, <1>12, <1>13, <1>14, <1>15 DEF Mark

LEMMA OrderlyInit ==
  ASSUME Init
  PROVE  OrderlyInv
<1>1. TypeInv
  BY TypeInit
<1>2. /\ phase = "idle" /\ pos.drip = FALSE /\ pos.retries = 0
  BY DEF Init, NewPosition
<1> QED BY <1>1, <1>2 DEF OrderlyInv, Orderly, DripReady

LEMMA OrderlyStep ==
  ASSUME OrderlyInv, [Next]_vars
  PROVE  OrderlyInv'
<1>1. TypeInv'
  BY TypeStep DEF OrderlyInv
<1>2. crashes \in 0..MaxCrashes /\ crashes \in Nat /\ pos \in Position
  BY EnvironmentAssumption DEF OrderlyInv, TypeInv, TypeOK, GoodPosition
<1> SUFFICES ASSUME crashes' = 0
             PROVE  phase' # "down" /\ Orderly(pos')
  BY <1>1 DEF OrderlyInv, Orderly, DripReady, Starting
<1>3. ~Crash
  BY <1>2 DEF Crash
<1>4. CASE crashes = 0
  <2>1. phase # "down" /\ Orderly(pos)
    BY <1>4 DEF OrderlyInv
  <2>2. CASE Mark
    <3>1. phase' # "down"
      BY <2>2, MarkPhases
    <3> QED BY <2>1, <2>2, <3>1, MarkOrderly DEF OrderlyInv
  <2>3. ASSUME NEW expired \in BOOLEAN, BeginCycle(expired)
        PROVE  phase' # "down" /\ Orderly(pos')
    <3>1. /\ pos'.drip = pos.drip /\ pos'.status = pos.status /\ pos'.retries = pos.retries
          /\ pos'.context = pos.context /\ pos'.pendingQty = pos.pendingQty
          /\ pos'.dripLeft = pos.dripLeft /\ pos'.remaining = pos.remaining
      BY <1>2, <2>3 DEF BeginCycle, Position
    <3>2. phase' = "mark"
      BY <2>3 DEF BeginCycle
    <3> QED BY <2>1, <3>1, <3>2 DEF Orderly, DripReady, Starting
  <2>4. CASE Persist
    BY <2>1, <2>4 DEF Persist
  <2>5. CASE UNCHANGED vars
    BY <2>1, <2>5 DEF vars
  <2>6. ~Restart
    BY <2>1 DEF Restart
  <2> QED BY <1>3, <2>2, <2>3, <2>4, <2>5, <2>6 DEF Next
<1>5. crashes' = crashes
  <2>1. CASE Mark
    BY <2>1, MarkPhases
  <2>2. CASE (\E expired \in BOOLEAN : BeginCycle(expired)) \/ Persist \/ Restart
    BY <2>2 DEF BeginCycle, Persist, Restart
  <2>3. CASE UNCHANGED vars
    BY <2>3 DEF vars
  <2> QED BY <1>3, <2>1, <2>2, <2>3 DEF Next
<1> QED BY <1>4, <1>5

LEMMA OrderlyAlways == Spec => []OrderlyInv
<1>1. Init => OrderlyInv
  BY OrderlyInit
<1>2. OrderlyInv /\ [Next]_vars => OrderlyInv'
  BY OrderlyStep
<1> QED BY <1>1, <1>2, PTL DEF Spec

\* Until a crash, a drip ends with its exit, and what it has pending is what is left of it.
THEOREM DripPlanKept == Spec => []DripPlanConsistent
<1>1. OrderlyInv => DripPlanConsistent
  <2> SUFFICES ASSUME OrderlyInv, crashes = 0, pos.drip
               PROVE  /\ pos.status = "EXIT_PENDING"
                      /\ pos.pendingQty = pos.dripLeft /\ pos.dripLeft \in 1..pos.remaining
    BY DEF DripPlanConsistent
  <2>1. pos.remaining \in 0..Qty
    BY DEF OrderlyInv, TypeInv, GoodPosition, Position
  <2> QED BY <2>1, QtyAssumption DEF OrderlyInv, Orderly, DripReady
<1> QED BY <1>1, OrderlyAlways, PTL

\* Until a crash, in whatever order its attempts fail, an exit that no threshold failure
\* keeps alive is tried without success at most RetryMax times.
THEOREM RetriesAreBounded == Spec => RetriesBounded
<1>1. OrderlyInv /\ [Next]_vars =>
        [ crashes' = 0 /\ pos'.retries > RetryMax =>
            pos.retries > RetryMax \/ pos.reason = "threshold" ]_vars
  <2> SUFFICES ASSUME OrderlyInv, [Next]_vars, crashes' = 0, pos'.retries > RetryMax
               PROVE  pos.retries > RetryMax \/ pos.reason = "threshold"
    OBVIOUS
  <2>1. crashes \in Nat /\ pos \in Position
    BY EnvironmentAssumption DEF OrderlyInv, TypeInv, TypeOK, GoodPosition
  <2>2. CASE Mark
    <3>1. crashes = 0
      BY <2>2, MarkPhases
    <3> QED BY <2>2, <3>1, MarkOrderly DEF OrderlyInv
  <2>3. CASE pos'.retries = pos.retries
    BY <2>3
  <2>4. CASE \E expired \in BOOLEAN : BeginCycle(expired)
    <3>1. pos'.retries = pos.retries
      BY <2>1, <2>4 DEF BeginCycle, Position
    <3> QED BY <2>3, <3>1
  <2>5. ~Crash
    BY <2>1 DEF Crash
  <2>6. ~Restart
    BY DEF Restart, OrderlyInv
  <2>7. Persist \/ UNCHANGED vars => pos' = pos
    BY DEF Persist, vars
  <2> QED BY <2>2, <2>3, <2>4, <2>5, <2>6, <2>7 DEF Next
<1> QED BY <1>1, OrderlyAlways, PTL DEF Spec, RetriesBounded
=============================================================================
