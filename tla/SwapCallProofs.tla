--------------------------- MODULE SwapCallProofs ---------------------------
(***************************************************************************)
(* What one swap call promises, for every amount, every number of attempts *)
(* and every set of faults.                                                *)
(***************************************************************************)
EXTENDS SwapCall, TLAPS

USE DEF NoRead, Getting

-----------------------------------------------------------------------------
(* The inductive invariant.                                                 *)

\* TypeOK but for its last conjunct: the provers take truth values and numbers apart.
NumbersTyped ==
  /\ side \in Sides /\ live \in Modes
  /\ pc \in Steps
  /\ attempt \in Nat
  /\ Getting => attempt < Attempts
  /\ pc = "pre" => attempt < PreReads
  /\ pc = "settle" => attempt < PostReads[side]
  /\ pc \in {"sign", "sent"} => attempt = 0
  /\ quote \in Nat /\ order \in Nat /\ reply \in Nat
  /\ pre \in Nat \cup {NoRead}
  /\ result \in Results
  /\ sent \in Nat
  /\ flight \in {"none", "flying", "landed", "dropped"}
  /\ held \in Held /\ moved \in {0, Qty} \cup Bought

Asking == {"quote", "order", "pre", "sign"}
Trading == {"order", "pre", "sign", "sent", "settle"}

\* The POST is sent once, on the way from "sign" to "sent".
SentOnce ==
  /\ sent \in {0, 1}
  /\ pc \in Asking => sent = 0
  /\ pc \in {"sent", "settle"} => sent = 1

\* Nothing is on its way before the POST, and nothing has moved before it landed.
FlightFollowsSent ==
  /\ flight # "none" => sent = 1
  /\ pc = "settle" => flight # "none"
  /\ moved > 0 <=> flight = "landed"

\* A sale moves what it asked for, and only if the wallet holds it.
MovedInFull ==
  /\ side = "sell" => moved \in {0, Qty}
  /\ side = "sell" /\ moved > 0 => held >= Qty

\* Only a call with leave to trade comes past the quote.
LiveBeyondQuote ==
  /\ pc \in Trading => live
  /\ sent = 1 => live
  /\ result.status \in {"success", "unknown"} => live
  /\ result.code = "execute_failed" => live

\* The answer is given at the end, and one that rules the swap out is given before it.
AnswersLast ==
  /\ pc # "done" => result = Pending
  /\ pc = "done" => result.status # "pending"
  /\ result.status = "skipped" => sent = 0
  /\ result.status = "failed" /\ result.code # "execute_failed" => sent = 0

\* The call goes on with a quote that names an amount.
Quoted == pc \in Trading => quote > 0

\* What a correct read before a sale has seen.
PreIsHeld == side = "sell" /\ pre # NoRead /\ ~misread => pre = held

IInv ==
  /\ TypeOK /\ SentOnce /\ FlightFollowsSent /\ MovedInFull /\ LiveBeyondQuote
  /\ AnswersLast /\ Quoted /\ PreIsHeld /\ BuyAlwaysSettles /\ SoldIsGone

-----------------------------------------------------------------------------
(* Reads and amounts.                                                       *)

LEMMA TypeOKParts == TypeOK <=> NumbersTyped /\ misread \in BOOLEAN
BY DEF TypeOK, NumbersTyped

LEMMA BalanceIsNat ==
  ASSUME TypeOK, MovedInFull
  PROVE  Balance \in Nat
<1>1. held \in Nat /\ moved \in Nat /\ Qty \in Nat
  BY AmountsAssumption DEF TypeOK
<1>2. CASE side = "sell"
  BY <1>1, <1>2 DEF Balance, MovedInFull
<1>3. CASE side # "sell"
  BY <1>1, <1>3 DEF Balance
<1> QED BY <1>2, <1>3

LEMMA ReadsTyped ==
  ASSUME TypeOK, MovedInFull, NEW read \in Reads
  PROVE  read \in Nat \cup {NoRead}
BY BalanceIsNat DEF Reads

LEMMA ZeroOrMore ==
  ASSUME TypeOK, NEW read \in Nat \cup {NoRead}
  PROVE  First(reply, First(order, First(quote, Larger(read, 0)))) \in Nat
BY DEF TypeOK, First, Larger

LEMMA SoldIsNat ==
  ASSUME TypeOK
  PROVE  Sold \in Nat
BY AmountsAssumption DEF TypeOK, Sold, Smaller, First

-----------------------------------------------------------------------------
(* The invariant holds.                                                     *)

LEMMA IInvInit == Init => IInv
<1> SUFFICES ASSUME Init PROVE IInv
  OBVIOUS
<1>1. TypeOK
  <2>1. misread \in BOOLEAN
    BY DEF Init
  <2>2. NumbersTyped
    BY AmountsAssumption, CallsAssumption, AttemptsAssumption
       DEF Init, NumbersTyped, Steps, Results, Codes, Pending
  <2> QED BY <2>1, <2>2, TypeOKParts
<1>2. SentOnce /\ FlightFollowsSent /\ MovedInFull /\ Quoted /\ PreIsHeld
  BY DEF Init, SentOnce, Asking, FlightFollowsSent, MovedInFull, Quoted, Trading, PreIsHeld
<1>3. LiveBeyondQuote /\ AnswersLast /\ BuyAlwaysSettles /\ SoldIsGone
  BY DEF Init, LiveBeyondQuote, Trading, AnswersLast, Pending, BuyAlwaysSettles, SoldIsGone
<1> QED BY <1>1, <1>2, <1>3 DEF IInv

\* Types, one step per request.
LEMMA TypeOKStep ==
  ASSUME TypeOK, MovedInFull, Next
  PROVE  TypeOK'
<1> USE TypeOKParts
<1>1. CASE QuoteAnswered
  BY <1>1, AmountsAssumption, AttemptsAssumption
     DEF QuoteAnswered, TypeOK, GoOn, Return, Steps, Results, Codes, Chain
<1>2. CASE OrderAnswered
  <2>1. order' \in Nat /\ attempt' = 0 /\ pc' \in {"pre", "sign"}
    BY <1>2, AmountsAssumption DEF OrderAnswered, GoOn
  <2> QED BY <1>2, <2>1, AttemptsAssumption DEF OrderAnswered, TypeOK, Steps, Chain
<1>3. CASE RequestRetried
  BY <1>3, AttemptsAssumption DEF RequestRetried, TypeOK, Steps, Names, Chain
<1>4. ASSUME NEW code \in Codes, GivenUp(code)
      PROVE  TypeOK'
  BY <1>4 DEF TypeOK, GivenUp, Return, Names, Chain, Steps, Results, Codes
<1>5. CASE RequestGivenUp \/ RequestRefused \/ NotSigned \/ ExecuteFailed
  BY <1>4, <1>5 DEF RequestGivenUp, RequestRefused, NotSigned, ExecuteFailed, Codes
<1>6. CASE PreRead
  <2>1. PICK read \in Reads :
          IF read = NoRead /\ attempt + 1 < PreReads
          THEN attempt' = attempt + 1 /\ UNCHANGED <<pc, pre, misread>>
          ELSE /\ GoOn("sign") /\ pre' = read
               /\ misread' = (misread \/ Wrong(read))
    BY <1>6 DEF PreRead
  <2>2. misread' \in BOOLEAN
    BY <2>1 DEF TypeOK
  <2>3. pre' \in Nat \cup {NoRead}
    BY <2>1, ReadsTyped DEF TypeOK
  <2>4. \/ pc' = "pre" /\ attempt' = attempt + 1 /\ attempt + 1 < PreReads
        \/ pc' = "sign" /\ attempt' = 0
    BY <1>6, <2>1 DEF PreRead, GoOn
  <2> QED BY <1>6, <2>2, <2>3, <2>4, AttemptsAssumption
          DEF PreRead, TypeOK, Steps, Names, Chain
<1>7. CASE Execute
  <2>1. sent' \in Nat /\ flight' \in {"none", "flying"} /\ pc' = "sent" /\ attempt' = 0
    BY <1>7 DEF Execute, GoOn, TypeOK
  <2> QED BY <1>7, <2>1 DEF Execute, TypeOK, Steps, Names
<1>8. CASE ExecuteAnswered
  <2>1. reply' \in Nat /\ pc' = "settle" /\ attempt' = 0
    BY <1>8, AmountsAssumption DEF ExecuteAnswered, GoOn
  <2>2. attempt' < PostReads[side]
    BY <2>1, CallsAssumption, AttemptsAssumption DEF TypeOK
  <2> QED BY <1>8, <2>1, <2>2 DEF ExecuteAnswered, TypeOK, Steps, Chain
<1>9. CASE Settle
  <2>1. PICK read \in Reads :
          IF read = NoRead /\ attempt + 1 < PostReads[side]
          THEN attempt' = attempt + 1 /\ UNCHANGED <<pc, result, misread>>
          ELSE /\ IF side = "sell" THEN SettleSell(read) ELSE SettleBuy(read)
               /\ misread' = (misread \/ Wrong(read))
               /\ UNCHANGED attempt
    BY <1>9 DEF Settle
  <2>2. misread' \in BOOLEAN
    BY <2>1 DEF TypeOK
  <2>3. read \in Nat \cup {NoRead}
    BY ReadsTyped
  <2>4. CASE UNCHANGED <<pc, result>> /\ attempt' = attempt + 1 /\ attempt + 1 < PostReads[side]
    BY <1>9, <2>2, <2>4 DEF Settle, TypeOK, Names, Chain
  <2>5. CASE attempt' = attempt /\ (SettleSell(read) \/ SettleBuy(read))
    <3>1. PICK amount \in Nat, status \in {"success", "unknown"} :
            Return(status, "none", amount, read)
      BY <2>3, <2>5, SoldIsNat, ZeroOrMore DEF SettleSell, SettleBuy, TypeOK
    <3>2. result' \in Results /\ pc' = "done"
      BY <2>3, <3>1 DEF Return, Results, Codes
    <3> QED BY <1>9, <2>2, <2>5, <3>2 DEF Settle, TypeOK, Steps, Names, Chain
  <2> QED BY <2>1, <2>4, <2>5
<1>10. CASE Land
  <2>1. moved' \in {Qty} \cup Bought
    BY <1>10 DEF Land, Fills
  <2> QED BY <1>10, <2>1 DEF Land, TypeOK, Names
<1>11. CASE Drop
  BY <1>11 DEF Drop, TypeOK, Names
<1> QED BY <1>1, <1>2, <1>3, <1>5, <1>6, <1>7, <1>8, <1>9, <1>10, <1>11 DEF Next, Process

\* An answer without a swap: a request was given up or refused.
LEMMA IInvGivenUp ==
  ASSUME IInv, NEW code \in Codes \ {"none"}, GivenUp(code), pc # "done",
         code = "execute_failed" => pc \in Trading,
         code # "execute_failed" => pc \in Asking, TypeOK'
  PROVE  IInv'
<1>2. SentOnce' /\ FlightFollowsSent' /\ MovedInFull'
  BY DEF IInv, SentOnce, FlightFollowsSent, MovedInFull, GivenUp, Return, Names, Chain,
         Asking
<1>3. LiveBeyondQuote' /\ AnswersLast'
  BY DEF IInv, LiveBeyondQuote, SentOnce, AnswersLast, GivenUp, Return, Names, Chain,
         Asking, Trading
<1>4. Quoted' /\ PreIsHeld' /\ BuyAlwaysSettles' /\ SoldIsGone'
  BY DEF Quoted, PreIsHeld, BuyAlwaysSettles, SoldIsGone, IInv, GivenUp, Return, Names,
         Chain, Trading
<1> QED BY <1>2, <1>3, <1>4 DEF IInv

\* The GET requests.
LEMMA IInvGet ==
  ASSUME IInv, QuoteAnswered \/ OrderAnswered \/ RequestRetried, TypeOK'
  PROVE  IInv'
<1> USE DEF IInv, SentOnce, FlightFollowsSent, MovedInFull, LiveBeyondQuote, AnswersLast,
            Quoted, PreIsHeld, BuyAlwaysSettles, SoldIsGone, Names, Chain, Trading, Asking
<1>1. CASE QuoteAnswered
  BY <1>1, AmountsAssumption DEF QuoteAnswered, GoOn, Return
<1>2. CASE OrderAnswered
  BY <1>2 DEF OrderAnswered, GoOn
<1>3. CASE RequestRetried
  BY <1>3 DEF RequestRetried
<1> QED BY <1>1, <1>2, <1>3

LEMMA IInvPreRead ==
  ASSUME IInv, PreRead, TypeOK'
  PROVE  IInv'
<1> USE DEF IInv, Names, Chain
<1>0. PICK read \in Reads :
        IF read = NoRead /\ attempt + 1 < PreReads
        THEN attempt' = attempt + 1 /\ UNCHANGED <<pc, pre, misread>>
        ELSE /\ GoOn("sign") /\ pre' = read
             /\ misread' = (misread \/ Wrong(read))
  BY DEF PreRead
<1>1. read \in Nat \cup {NoRead}
  BY ReadsTyped
<1>3. PreIsHeld'
  <2>1. side = "sell" => moved = 0
    BY AmountsAssumption
       DEF PreRead, SentOnce, FlightFollowsSent, MovedInFull, Asking
  <2>2. side = "sell" => Balance = held
    BY <2>1, AmountsAssumption DEF Balance, TypeOK
  <2>3. CASE UNCHANGED <<pre, misread>>
    BY <2>3 DEF PreRead, PreIsHeld
  <2>4. CASE pre' = read /\ misread' = (misread \/ Wrong(read))
    BY <2>2, <2>4 DEF PreRead, PreIsHeld, Wrong
  <2> QED BY <1>0, <2>3, <2>4
<1>4. SentOnce' /\ FlightFollowsSent' /\ MovedInFull'
  BY <1>0 DEF PreRead, GoOn, SentOnce, FlightFollowsSent, MovedInFull, Asking
<1>5. LiveBeyondQuote' /\ AnswersLast' /\ Quoted'
  BY <1>0 DEF PreRead, GoOn, LiveBeyondQuote, AnswersLast, Quoted, Trading
<1>6. BuyAlwaysSettles' /\ SoldIsGone'
  BY <1>0 DEF PreRead, BuyAlwaysSettles, SoldIsGone, AnswersLast, Pending
<1> QED BY <1>3, <1>4, <1>5, <1>6

\* The POST and its answer.
LEMMA IInvExecute ==
  ASSUME IInv, Execute \/ ExecuteAnswered, TypeOK'
  PROVE  IInv'
<1> USE DEF IInv, SentOnce, FlightFollowsSent, MovedInFull, LiveBeyondQuote, AnswersLast,
            Quoted, PreIsHeld, BuyAlwaysSettles, SoldIsGone, Names, Chain, Trading, Asking
<1>1. CASE Execute
  BY <1>1 DEF Execute, GoOn, Pending
<1>2. CASE ExecuteAnswered
  BY <1>2 DEF ExecuteAnswered, GoOn
<1> QED BY <1>1, <1>2

\* The chain.
LEMMA IInvChain ==
  ASSUME IInv, Land \/ Drop, TypeOK'
  PROVE  IInv'
<1> USE DEF IInv, SentOnce, FlightFollowsSent, MovedInFull, LiveBeyondQuote, AnswersLast,
            Quoted, PreIsHeld, BuyAlwaysSettles, Names
<1>0. flight = "flying" /\ moved = 0
  BY AmountsAssumption DEF Land, Drop, TypeOK
<1>1. CASE Land
  <2>1. moved' \in {Qty} \cup Bought /\ moved' > 0
    BY <1>1, AmountsAssumption DEF Land, Fills
  <2>3. side = "sell" => moved' = Qty /\ held >= Qty
    BY <1>1 DEF Land, Fills
  <2>4. SoldIsGone'
    BY <1>0, <1>1, AmountsAssumption DEF SoldIsGone, Land, TypeOK
  <2> QED BY <2>1, <2>3, <2>4, <1>1 DEF Land, TypeOK
<1>2. CASE Drop
  BY <1>0, <1>2 DEF Drop, SoldIsGone
<1> QED BY <1>1, <1>2

LEMMA IInvSettle ==
  ASSUME IInv, Settle, TypeOK'
  PROVE  IInv'
<1> USE DEF IInv
<1>0. PICK read \in Reads :
        IF read = NoRead /\ attempt + 1 < PostReads[side]
        THEN attempt' = attempt + 1 /\ UNCHANGED <<pc, result, misread>>
        ELSE /\ IF side = "sell" THEN SettleSell(read) ELSE SettleBuy(read)
             /\ misread' = (misread \/ Wrong(read))
             /\ UNCHANGED attempt
  BY DEF Settle
<1>1. SentOnce /\ pc = "settle" /\ live /\ quote > 0
  BY DEF Settle, LiveBeyondQuote, Quoted, Trading
<1>2. UNCHANGED <<side, live, quote, order, reply, pre, sent, flight, held, moved>>
  BY DEF Settle, Names, Chain
<1>3. CASE UNCHANGED <<pc, result, misread>>
  BY <1>2, <1>3 DEF SentOnce, FlightFollowsSent, MovedInFull, LiveBeyondQuote, AnswersLast,
     Quoted, PreIsHeld, BuyAlwaysSettles, SoldIsGone
<1>4. CASE (IF side = "sell" THEN SettleSell(read) ELSE SettleBuy(read))
             /\ misread' = (misread \/ Wrong(read))
  <2>1. /\ pc' = "done"
        /\ result'.status \in {"success", "unknown"}
        /\ result'.code = "none" /\ result'.post = read
        /\ side # "sell" => result'.status = "success"
        /\ side = "sell" => result'.amount = Sold
        /\ side = "sell" /\ result'.status = "success" => ~Contradicted(Sold, read)
    <3>1. CASE side = "sell"
      BY <1>4, <3>1 DEF SettleSell, Return
    <3>2. CASE side # "sell"
      <4> DEFINE bought == First(reply, First(order, First(quote, Larger(read, 0))))
      <4>1. bought > 0
        BY <1>1 DEF First, TypeOK
      <4> HIDE DEF bought
      <4> QED BY <1>4, <3>2, <4>1 DEF SettleBuy, bought, Return
    <3> QED BY <3>1, <3>2
  <2>3. SentOnce' /\ FlightFollowsSent' /\ MovedInFull' /\ Quoted'
    BY <1>1, <1>2, <2>1
       DEF SentOnce, Asking, FlightFollowsSent, MovedInFull, Quoted, Trading
  <2>4. LiveBeyondQuote' /\ AnswersLast' /\ BuyAlwaysSettles'
    BY <1>1, <1>2, <2>1
       DEF LiveBeyondQuote, Trading, AnswersLast, BuyAlwaysSettles
  <2>5. PreIsHeld'
    BY <1>2, <1>4 DEF PreIsHeld
  <2>6. SoldIsGone'
    <3>1. SUFFICES ASSUME side = "sell", result'.status = "success", pre # NoRead,
                          read # NoRead, ~misread, ~Wrong(read)
                   PROVE  moved = Qty /\ Distance(moved, Sold) <= Tolerance(Sold)
      BY <1>2, <1>4, <2>1 DEF SoldIsGone
    <3>2. pre = held /\ read = held - moved
      BY <3>1 DEF PreIsHeld, Wrong, Balance
    <3>3. held \in Nat /\ moved \in {0, Qty} /\ Qty \in Nat
      BY <3>1, AmountsAssumption DEF TypeOK, MovedInFull
    <3>4. ~(read >= pre) /\ ~(Distance(pre - read, Sold) > Tolerance(Sold))
      BY <2>1, <3>1 DEF Contradicted
    <3>5. moved = Qty /\ pre - read = moved
      BY <3>2, <3>3, <3>4
    <3>6. Distance(moved, Sold) \in Int /\ Tolerance(Sold) \in Int
      BY <3>3, SoldIsNat DEF Distance, Tolerance, Larger
    <3> QED BY <3>4, <3>5, <3>6
  <2> QED BY <2>3, <2>4, <2>5, <2>6
<1> QED BY <1>0, <1>3, <1>4

LEMMA IInvStep == IInv /\ [Next]_vars => IInv'
<1> SUFFICES ASSUME IInv, [Next]_vars PROVE IInv'
  OBVIOUS
<1>1. CASE UNCHANGED vars
  BY <1>1 DEF vars, IInv, TypeOK, SentOnce, FlightFollowsSent, MovedInFull,
     LiveBeyondQuote, AnswersLast, Quoted, PreIsHeld, BuyAlwaysSettles, SoldIsGone
<1>2. CASE Next
  <2>0. TypeOK'
    BY <1>2, TypeOKStep DEF IInv
  <2>1. CASE RequestGivenUp \/ RequestRefused \/ NotSigned \/ ExecuteFailed
    <3>1. PICK code \in Codes \ {"none"} :
            /\ GivenUp(code) /\ pc # "done"
            /\ code = "execute_failed" => pc \in Trading
            /\ code # "execute_failed" => pc \in Asking
      BY <2>1 DEF RequestGivenUp, RequestRefused, NotSigned, ExecuteFailed, Codes,
                  Trading, Asking
    <3> QED BY <2>0, <3>1, IInvGivenUp
  <2>2. CASE QuoteAnswered \/ OrderAnswered \/ RequestRetried
    BY <2>0, <2>2, IInvGet
  <2>3. CASE PreRead
    BY <2>0, <2>3, IInvPreRead
  <2>4. CASE Execute \/ ExecuteAnswered
    BY <2>0, <2>4, IInvExecute
  <2>5. CASE Settle
    BY <2>0, <2>5, IInvSettle
  <2>6. CASE Land \/ Drop
    BY <2>0, <2>6, IInvChain
  <2> QED BY <1>2, <2>1, <2>2, <2>3, <2>4, <2>5, <2>6 DEF Next, Process
<1> QED BY <1>1, <1>2

LEMMA IInvAlways == Spec => []IInv
BY IInvInit, IInvStep, PTL DEF Spec

\* Every variable of a call keeps its type, and no request is tried more often than its
\* number of attempts, whatever that number is.
THEOREM CallTyped == Spec => []TypeOK
BY IInvAlways, PTL DEF IInv

\* At most one swap moves tokens on behalf of one call, whatever is retried or lost.
THEOREM SwapsOnce == Spec => []OneSwapPerCall
<1>1. IInv => OneSwapPerCall
  BY DEF IInv, SentOnce, FlightFollowsSent, OneSwapPerCall
<1> QED BY <1>1, IInvAlways, PTL

\* A sale reported as settled between two correct wallet reads has taken the tokens,
\* whatever Jupiter has named in the quote, the order and the reply.
THEOREM SettledSalesAreReal == Spec => []SoldIsGone
BY IInvAlways, PTL DEF IInv

\* A buy is settled or failed, never left for a later settlement.
THEOREM BuysSettle == Spec => []BuyAlwaysSettles
BY IInvAlways, PTL DEF IInv

-----------------------------------------------------------------------------
(* A call keeps its promise.                                                *)

LEMMA OutcomeOfResult ==
  ASSUME TypeOK
  PROVE  /\ result.status # "failed" => Outcome = result.status
         /\ result.status = "failed" /\ result.code = "execute_failed" => Outcome = "lost"
         /\ result.status = "failed" /\ result.code # "execute_failed" => Outcome = "refused"
BY DEF Outcome

LEMMA OutcomeLater ==
  ASSUME TypeOK'
  PROVE  /\ result'.status # "failed" => Outcome' = result'.status
         /\ result'.status = "failed" /\ result'.code = "execute_failed" => Outcome' = "lost"
         /\ result'.status = "failed" /\ result'.code # "execute_failed"
              => Outcome' = "refused"
BY DEF Outcome

LEMMA PromiseInit == Init => Promise!Init
<1> SUFFICES ASSUME Init PROVE Promise!Init
  OBVIOUS
<1>1. Outcome = "pending"
  BY DEF Init, Pending, Outcome
<1>2. live \in BOOLEAN
  BY CallsAssumption DEF Init
<1>3. moved = 0
  BY DEF Init
<1> QED BY <1>1, <1>2, <1>3 DEF Promise!Init

\* A step of the chain that moves tokens is one the promise reckons with.
LEMMA PromiseLand ==
  ASSUME IInv, IInv', Land
  PROVE  Promise!Land
<1>1. sent = 1 /\ moved = 0 /\ moved' \in {Qty} \cup Bought /\ UNCHANGED <<live, result>>
  BY AmountsAssumption DEF IInv, Land, Fills, FlightFollowsSent, TypeOK
<1>2. live
  BY <1>1 DEF IInv, LiveBeyondQuote
<1>3. Outcome \notin {"refused", "skipped"}
  <2>1. result.status # "skipped" /\ ~(result.status = "failed" /\ result.code # "execute_failed")
    BY <1>1 DEF IInv, AnswersLast
  <2>2. CASE result.status = "failed"
    BY <2>1, <2>2, OutcomeOfResult DEF IInv
  <2>3. CASE result.status # "failed"
    BY <2>1, <2>3, OutcomeOfResult DEF IInv, TypeOK, Results
  <2> QED BY <2>2, <2>3
<1>4. Outcome' = Outcome
  BY <1>1 DEF Outcome
<1> QED BY <1>1, <1>2, <1>3, <1>4 DEF Promise!Land, Promise!Nothing

\* The step that answers.
LEMMA PromiseReturn ==
  ASSUME IInv, IInv', UNCHANGED <<live, moved>>, pc # "done", pc' = "done"
  PROVE  Promise!Return
<1>1. Outcome = "pending"
  BY OutcomeOfResult DEF IInv, AnswersLast, Pending
<1>2. result'.status \in {"failed", "skipped", "success", "unknown"}
  BY DEF IInv, AnswersLast, TypeOK, Results
<1>3. CASE result'.status = "failed" /\ result'.code = "execute_failed"
  <2>1. Outcome' = "lost" /\ live
    BY <1>3, OutcomeLater DEF IInv, LiveBeyondQuote
  <2> QED BY <1>1, <2>1 DEF Promise!Return, Promise!Outcomes, Promise!Nothing
<1>4. CASE result'.status = "failed" /\ result'.code # "execute_failed"
  <2>1. Outcome' = "refused" /\ sent' = 0
    BY <1>4, OutcomeLater DEF IInv, AnswersLast
  <2>2. moved = 0
    BY <2>1, AmountsAssumption DEF IInv, FlightFollowsSent, TypeOK
  <2> QED BY <1>1, <2>1, <2>2 DEF Promise!Return, Promise!Outcomes, Promise!Nothing
<1>5. CASE result'.status = "skipped"
  <2>1. Outcome' = "skipped" /\ sent' = 0
    BY <1>5, OutcomeLater DEF IInv, AnswersLast
  <2>2. moved = 0
    BY <2>1, AmountsAssumption DEF IInv, FlightFollowsSent, TypeOK
  <2> QED BY <1>1, <2>1, <2>2 DEF Promise!Return, Promise!Outcomes, Promise!Nothing
<1>6. CASE result'.status \in {"success", "unknown"}
  <2>1. Outcome' \in {"success", "unknown"} /\ live
    BY <1>6, OutcomeLater DEF IInv, LiveBeyondQuote
  <2> QED BY <1>1, <2>1 DEF Promise!Return, Promise!Outcomes, Promise!Nothing
<1> QED BY <1>2, <1>3, <1>4, <1>5, <1>6

LEMMA PromiseStep == IInv /\ IInv' /\ [Next]_vars => [Promise!Next]_(Promise!vars)
<1> SUFFICES ASSUME IInv, IInv', [Next]_vars PROVE [Promise!Next]_(Promise!vars)
  OBVIOUS
<1>1. CASE Land
  BY <1>1, PromiseLand DEF Promise!Next
<1>2. CASE pc' = pc /\ UNCHANGED <<live, result, moved>>
  BY <1>2 DEF Promise!vars, Outcome
<1>3. CASE pc # "done" /\ pc' # "done" /\ UNCHANGED <<live, moved>>
  <2>1. result = Pending /\ result' = Pending
    BY <1>3 DEF IInv, AnswersLast, Pending
  <2>2. Outcome' = Outcome
    BY <2>1 DEF Outcome
  <2> QED BY <1>3, <2>2 DEF Promise!vars
<1>4. CASE pc # "done" /\ pc' = "done" /\ UNCHANGED <<live, moved>>
  BY <1>4, PromiseReturn DEF Promise!Next
<1>5. CASE UNCHANGED vars \/ Drop
  BY <1>2, <1>5 DEF vars, Drop
<1>6. CASE Process
  <2>1. pc # "done"
    BY <1>6 DEF Process, QuoteAnswered, OrderAnswered, RequestRetried, RequestGivenUp,
       RequestRefused, Getting, PreRead, NotSigned, Execute, ExecuteAnswered,
       ExecuteFailed, Settle
  <2>2. UNCHANGED <<live, moved>>
    BY <1>6 DEF Process, QuoteAnswered, OrderAnswered, RequestRetried, RequestGivenUp,
       RequestRefused, PreRead, NotSigned, Execute, ExecuteAnswered, ExecuteFailed,
       Settle, GivenUp, Chain
  <2> QED BY <1>3, <1>4, <2>1, <2>2
<1> QED BY <1>1, <1>5, <1>6 DEF Next

\* Seen by its callers, a call is one of the outcomes they reckon with: a swap moves
\* tokens at most once, never after "refused" or "skipped", possibly after "lost".
THEOREM CallKeepsPromise == Spec => ImplementsPromise
<1>1. Init => Promise!Init
  BY PromiseInit
<1>2. IInv /\ IInv' /\ [Next]_vars => [Promise!Next]_(Promise!vars)
  BY PromiseStep
<1> QED BY <1>1, <1>2, IInvAlways, PTL DEF Spec, ImplementsPromise, Promise!Spec


-----------------------------------------------------------------------------
(***************************************************************************)
(* The end.  Every step of a call uses up one of its attempts or goes on   *)
(* to the next request, so a call takes at most as many steps as are left  *)
(* to it at its start: CallReturns, but for the fairness that lets the     *)
(* process take them.                                                      *)
(***************************************************************************)
StepsLeft ==
  CASE pc = "quote" -> (Attempts - attempt) + Attempts + PreReads + 2 + PostReads[side]
    [] pc = "order" -> (Attempts - attempt) + PreReads + 2 + PostReads[side]
    [] pc = "pre" -> (PreReads - attempt) + 2 + PostReads[side]
    [] pc = "sign" -> 2 + PostReads[side]
    [] pc = "sent" -> 1 + PostReads[side]
    [] pc = "settle" -> PostReads[side] - attempt
    [] pc = "done" -> 0

\* The process counts down to the return of the call, and the chain does not hold it up
\* (JupiterClient._get, _retry_wallet_token_balance, JupiterExecutor.buy and sell).
CountsDown ==
  /\ [](StepsLeft \in Nat)
  /\ [][ /\ Process => StepsLeft' < StepsLeft
         /\ Land \/ Drop => StepsLeft' = StepsLeft ]_vars

LEMMA StepsLeftType ==
  ASSUME TypeOK
  PROVE  StepsLeft \in Nat /\ (pc # "done" => StepsLeft > 0)
<1>1. /\ Attempts \in Nat /\ PreReads \in Nat /\ PostReads[side] \in Nat \ {0}
      /\ attempt \in Nat /\ pc \in Steps
  BY CallsAssumption, AttemptsAssumption DEF TypeOK
<1>2. CASE pc \in {"quote", "order"}
  BY <1>1, <1>2 DEF TypeOK, StepsLeft
<1>3. CASE pc = "pre"
  BY <1>1, <1>3 DEF TypeOK, StepsLeft
<1>4. CASE pc = "settle"
  BY <1>1, <1>4 DEF TypeOK, StepsLeft
<1>5. CASE pc \in {"sign", "sent", "done"}
  BY <1>1, <1>5 DEF StepsLeft
<1> QED BY <1>1, <1>2, <1>3, <1>4, <1>5 DEF Steps

LEMMA ProcessCountsDown ==
  ASSUME TypeOK, Process
  PROVE  StepsLeft' < StepsLeft
<1>1. /\ Attempts \in Nat \ {0} /\ PreReads \in Nat \ {0} /\ PostReads[side] \in Nat \ {0}
      /\ attempt \in Nat /\ pc \in Steps
      /\ pc \in {"quote", "order"} => attempt < Attempts
      /\ pc = "pre" => attempt < PreReads
      /\ pc = "settle" => attempt < PostReads[side]
  BY CallsAssumption, AttemptsAssumption DEF TypeOK
<1>2. side' = side
  BY DEF Process, QuoteAnswered, OrderAnswered, RequestRetried, RequestGivenUp, RequestRefused,
         PreRead, NotSigned, Execute, ExecuteAnswered, ExecuteFailed, Settle, GivenUp
<1>3. ASSUME pc' = "done", pc # "done"
      PROVE  StepsLeft' < StepsLeft
  <2>1. StepsLeft' = 0
    BY <1>3 DEF StepsLeft
  <2> QED BY <1>3, <2>1, StepsLeftType
<1>4. CASE RequestGivenUp \/ RequestRefused \/ NotSigned \/ ExecuteFailed
  BY <1>3, <1>4 DEF RequestGivenUp, RequestRefused, NotSigned, ExecuteFailed, GivenUp, Return
<1>5. CASE QuoteAnswered
  <2>1. CASE pc' = "done"
    BY <1>3, <1>5, <2>1 DEF QuoteAnswered
  <2>2. CASE pc = "quote" /\ pc' = "order" /\ attempt' = 0
    BY <1>1, <1>2, <2>2 DEF StepsLeft
  <2> QED BY <1>5, <2>1, <2>2 DEF QuoteAnswered, GoOn, Return
<1>6. CASE OrderAnswered
  <2>1. pc = "order" /\ pc' \in {"pre", "sign"} /\ attempt' = 0
    BY <1>6 DEF OrderAnswered, GoOn
  <2> QED BY <1>1, <1>2, <2>1 DEF StepsLeft
<1>7. CASE RequestRetried
  <2>1. pc \in {"quote", "order"} /\ pc' = pc /\ attempt' = attempt + 1
    BY <1>7 DEF RequestRetried
  <2> QED BY <1>1, <1>2, <2>1 DEF StepsLeft
<1>8. CASE PreRead
  <2>1. /\ pc = "pre"
        /\ \/ pc' = "pre" /\ attempt' = attempt + 1
           \/ pc' = "sign" /\ attempt' = 0
    BY <1>8 DEF PreRead, GoOn
  <2> QED BY <1>1, <1>2, <2>1 DEF StepsLeft
<1>9. CASE Execute \/ ExecuteAnswered
  <2>1. /\ attempt' = 0
        /\ \/ pc = "sign" /\ pc' = "sent"
           \/ pc = "sent" /\ pc' = "settle"
    BY <1>9 DEF Execute, ExecuteAnswered, GoOn
  <2> QED BY <1>1, <1>2, <2>1 DEF StepsLeft
<1>10. CASE Settle
  <2>1. CASE pc' = "done"
    BY <1>3, <1>10, <2>1 DEF Settle
  <2>2. CASE pc = "settle" /\ pc' = "settle" /\ attempt' = attempt + 1
    BY <1>1, <1>2, <2>2 DEF StepsLeft
  <2> QED BY <1>10, <2>1, <2>2 DEF Settle, SettleSell, SettleBuy, Return
<1> QED BY <1>4, <1>5, <1>6, <1>7, <1>8, <1>9, <1>10 DEF Process

\* No request, wallet read or reply of a call is waited for without end.
THEOREM CallIsBounded == Spec => CountsDown
<1>1. TypeOK => StepsLeft \in Nat
  BY StepsLeftType
<1>2. TypeOK /\ [Next]_vars =>
        [ /\ Process => StepsLeft' < StepsLeft
          /\ Land \/ Drop => StepsLeft' = StepsLeft ]_vars
  BY ProcessCountsDown DEF Land, Drop, StepsLeft
<1> QED BY <1>1, <1>2, CallTyped, PTL DEF CountsDown, Spec
=============================================================================
