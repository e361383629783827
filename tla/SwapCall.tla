------------------------------ MODULE SwapCall ------------------------------
(***************************************************************************)
(* One call of executor.buy or executor.sell, request by request: quote,   *)
(* order, wallet reads, signature, /execute, settlement; the swap itself   *)
(* lands or is dropped by the chain in its own time.                       *)
(*                                                                         *)
(* Source: execution/executor.py (buy, sell, sign_and_execute_v2,          *)
(* _settle_buy_after_execute, _settle_sell_after_execute),                 *)
(* clients/jupiter.py (_get with its retries, _post without).              *)
(*                                                                         *)
(* Amounts are tokens: what a sale takes out of the wallet, or what a buy  *)
(* brings in.  The SOL side of a swap is left out.                         *)
(***************************************************************************)
EXTENDS Integers

CONSTANTS
  Qty,        \* tokens a sale asks for
  Held,       \* tokens the wallet may hold when the call begins
  Bought,     \* tokens a buy may bring in
  Amounts,    \* amounts a quote, an order or a reply may name
  Sides,      \* "buy", "sell"
  Modes,      \* values of: live_trading_enabled and not dry_run
  Attempts,   \* attempts of one GET request (3)
  PreReads,   \* attempts of the wallet read before a sale (2)
  PostReads,  \* attempts of the wallet read after a swap, by side (6 and 3)
  Faults      \* what can go wrong with a wallet read

FaultKinds ==
  { "read_timeout", \* no answer
    "read_error" }  \* an RPC error body, read as a balance of 0

ASSUME AmountsAssumption ==
  /\ Qty \in Nat \ {0} /\ Held \subseteq Nat
  /\ Bought \subseteq Nat \ {0} /\ Amounts \subseteq Nat \ {0}
ASSUME CallsAssumption == Sides \subseteq {"buy", "sell"} /\ Modes \subseteq BOOLEAN
ASSUME AttemptsAssumption ==
  /\ Attempts \in Nat \ {0} /\ PreReads \in Nat \ {0}
  /\ PostReads \in [{"buy", "sell"} -> Nat \ {0}]
ASSUME FaultsAssumption == Faults \subseteq FaultKinds

VARIABLES
  side, live,
  pc,      \* the request the call is at
  attempt, \* attempts of it that have failed
  quote,   \* amount named by the quote,
  order,   \*   by the order
  reply,   \*   and by the reply of /execute; 0 if none
  pre,     \* wallet read before a sale
  result,  \* what the caller gets
  sent,    \* POSTs to /execute
  flight,  \* the swap on its way
  held,    \* tokens in the wallet when the call began
  moved,   \* tokens the swap has moved
  misread  \* history: has a wallet read been wrong

vars == <<side, live, pc, attempt, quote, order, reply, pre, result, sent, flight, held,
          moved, misread>>

Steps == {"quote", "order", "pre", "sign", "sent", "settle", "done"}
Codes == {"none", "unavailable", "no_route", "order_failed", "sign_failed", "execute_failed"}
NoRead == -1
Pending == [status |-> "pending", code |-> "none", amount |-> 0, post |-> NoRead]

Larger(a, b) == IF a >= b THEN a ELSE b
Smaller(a, b) == IF a <= b THEN a ELSE b
Distance(a, b) == IF a <= b THEN b - a ELSE a - b
First(a, b) == IF a > 0 THEN a ELSE b

Balance == IF side = "sell" THEN held - moved ELSE held + moved

\* wallet_token_balance_atomic
Reads ==
  {Balance}
    \cup (IF "read_timeout" \in Faults THEN {NoRead} ELSE {})
    \cup (IF "read_error" \in Faults THEN {0} ELSE {})

Wrong(read) == read \notin {NoRead, Balance}

Chain == <<sent, flight, held, moved>>
Names == <<quote, order, reply>>

Return(status, code, amount, post) ==
  /\ pc' = "done"
  /\ result' = [status |-> status, code |-> code, amount |-> amount, post |-> post]

-----------------------------------------------------------------------------
(* GET /quote and GET /order: JupiterClient._get.                           *)

GoOn(step) == pc' = step /\ attempt' = 0

QuoteUngated == \* mutant: the mode gate is missing
  /\ pc = "quote"
  /\ quote' \in Amounts
  /\ GoOn("order") /\ UNCHANGED result
  /\ UNCHANGED <<side, live, order, reply, pre, Chain, misread>>

\* A usable quote.  Without leave to trade the call ends here.
QuoteAnswered ==
  /\ pc = "quote"
  /\ quote' \in Amounts
  /\ \/ live /\ GoOn("order") /\ UNCHANGED result
     \/ ~live /\ Return("skipped", "none", 0, NoRead) /\ UNCHANGED attempt
  /\ UNCHANGED <<side, live, order, reply, pre, Chain, misread>>

\* The order may or may not name the amount.
OrderAnswered ==
  /\ pc = "order"
  /\ order' \in Amounts \cup {0}
  /\ GoOn(IF side = "sell" THEN "pre" ELSE "sign")
  /\ UNCHANGED <<side, live, quote, reply, pre, result, Chain, misread>>

Getting == pc \in {"quote", "order"}

RetriedInCircles == \* mutant: the count of attempts starts over
  /\ Getting
  /\ attempt' = IF attempt = 0 THEN 1 ELSE 0
  /\ UNCHANGED <<side, live, pc, Names, pre, result, Chain, misread>>

RetriedOnceMore == \* mutant: the attempt after the last
  /\ Getting
  /\ attempt < Attempts
  /\ attempt' = attempt + 1
  /\ UNCHANGED <<side, live, pc, Names, pre, result, Chain, misread>>

\* A read timeout, a connection error or a 5xx is tried again.
RequestRetried ==
  /\ Getting
  /\ attempt + 1 < Attempts
  /\ attempt' = attempt + 1
  /\ UNCHANGED <<side, live, pc, Names, pre, result, Chain, misread>>

GivenUp(code) ==
  /\ Return("failed", code, 0, NoRead)
  /\ UNCHANGED <<side, live, attempt, Names, pre, Chain, misread>>

\* The last attempt failed in this way.
RequestGivenUp ==
  /\ Getting /\ attempt + 1 = Attempts
  /\ GivenUp(IF pc = "quote" THEN "unavailable" ELSE "order_failed")

\* Any other error status, a quote that _quote_ok turns down, or no key to sign with.
RequestRefused ==
  /\ Getting
  /\ GivenUp(IF pc = "quote" THEN "no_route" ELSE "order_failed")

-----------------------------------------------------------------------------
(* The wallet read before a sale, the signature, /execute.                  *)

\* _retry_wallet_token_balance; the sale goes on without the read.
PreRead ==
  /\ pc = "pre"
  /\ \E read \in Reads :
       IF read = NoRead /\ attempt + 1 < PreReads
       THEN attempt' = attempt + 1 /\ UNCHANGED <<pc, pre, misread>>
       ELSE /\ GoOn("sign") /\ pre' = read
            /\ misread' = (misread \/ Wrong(read))
  /\ UNCHANGED <<side, live, Names, result, Chain>>

\* The signature fails, or the order carries nothing to sign.
NotSigned ==
  /\ pc = "sign"
  /\ \E code \in {"sign_failed", "execute_failed"} : GivenUp(code)

\* POST /execute: the request arrives, or does not.
Execute ==
  /\ pc = "sign"
  /\ GoOn("sent")
  /\ sent' = sent + 1
  /\ flight' \in {"none", "flying"}
  /\ UNCHANGED <<side, live, Names, pre, result, held, moved, misread>>

\* Jupiter answers with a signature, which does not say that the swap lands.
ExecuteAnswered ==
  /\ pc = "sent" /\ flight # "none"
  /\ reply' \in Amounts \cup {0}
  /\ GoOn("settle")
  /\ UNCHANGED <<side, live, quote, order, pre, result, Chain, misread>>

ExecuteRepeated == \* mutant: a POST without an answer is sent again
  /\ pc = "sent" /\ GoOn("sign")
  /\ UNCHANGED <<side, live, Names, pre, result, Chain, misread>>

\* No answer, an error, or an answer without a signature: a POST is never repeated, and
\* whatever happened is execute_failed.
ExecuteFailed == pc = "sent" /\ GivenUp("execute_failed")

-----------------------------------------------------------------------------
(* The chain.                                                               *)

\* A sale takes what it asked for, or fails as a whole.
Fills == IF side = "sell" THEN {Qty} ELSE Bought

Land ==
  /\ flight = "flying"
  /\ side = "sell" => held >= Qty
  /\ flight' = "landed" /\ moved' \in Fills
  /\ UNCHANGED <<side, live, pc, attempt, Names, pre, result, sent, held, misread>>

Drop ==
  /\ flight = "flying"
  /\ flight' = "dropped"
  /\ UNCHANGED <<side, live, pc, attempt, Names, pre, result, sent, held, moved, misread>>

-----------------------------------------------------------------------------
(* Settlement.                                                              *)

\* Jupiter's word first: what /execute reports, else the order, else what was asked for.
Sold == Smaller(First(reply, First(order, Qty)), Qty)

Tolerance(sold) == Larger(1, (sold * 2) \div 100)

ContradictedByGrowth(sold, post) == \* mutant: a balance that did not fall is no contradiction
  pre # NoRead /\ post # NoRead /\ post > pre

\* The wallet can only contradict it: more tokens than before, none fewer, or not the
\* number sold.
Contradicted(sold, post) ==
  /\ pre # NoRead /\ post # NoRead
  /\ \/ post >= pre
     \/ Distance(pre - post, sold) > Tolerance(sold)

SettleSell(post) ==
  IF Contradicted(Sold, post) THEN Return("unknown", "none", Sold, post)
  ELSE Return("success", "none", Sold, post)

SettleBuyWithoutQuote(post) == \* mutant: the quote is no substitute for the order
  LET bought == First(reply, First(order, Larger(post, 0)))
  IN IF bought > 0 THEN Return("success", "none", bought, post)
     ELSE Return("unknown", "none", 0, post)

\* What /execute reports, else the order, else the quote, else the wallet.
SettleBuy(post) ==
  LET bought == First(reply, First(order, First(quote, Larger(post, 0))))
  IN IF bought > 0 THEN Return("success", "none", bought, post)
     ELSE Return("unknown", "none", 0, post)

\* The wallet is read until it answers; then the call returns.
Settle ==
  /\ pc = "settle"
  /\ \E read \in Reads :
       IF read = NoRead /\ attempt + 1 < PostReads[side]
       THEN attempt' = attempt + 1 /\ UNCHANGED <<pc, result, misread>>
       ELSE /\ IF side = "sell" THEN SettleSell(read) ELSE SettleBuy(read)
            /\ misread' = (misread \/ Wrong(read))
            /\ UNCHANGED attempt
  /\ UNCHANGED <<side, live, Names, pre, Chain>>

-----------------------------------------------------------------------------

Init ==
  /\ side \in Sides /\ live \in Modes /\ held \in Held
  /\ pc = "quote" /\ attempt = 0
  /\ quote = 0 /\ order = 0 /\ reply = 0 /\ pre = NoRead
  /\ result = Pending
  /\ sent = 0 /\ flight = "none" /\ moved = 0
  /\ misread = FALSE

Process ==
  \/ QuoteAnswered \/ OrderAnswered
  \/ RequestRetried \/ RequestGivenUp \/ RequestRefused
  \/ PreRead \/ NotSigned \/ Execute \/ ExecuteAnswered \/ ExecuteFailed
  \/ Settle

Next == Process \/ Land \/ Drop

\* Every request has a timeout, so the process always goes on; the chain need not.
Spec == Init /\ [][Next]_vars /\ WF_vars(Process)

-----------------------------------------------------------------------------
(* What a call promises.                                                    *)

Results ==
  [ status : {"pending", "failed", "skipped", "success", "unknown"},
    code : Codes, amount : Nat, post : Nat \cup {NoRead} ]

\* Every variable has its type; no request is tried more often than the code allows.
TypeOK ==
  /\ side \in Sides /\ live \in Modes
  /\ pc \in Steps
  /\ attempt \in Nat
  /\ Getting => attempt < Attempts
  /\ pc = "pre" => attempt < PreReads
  /\ pc = "settle" => attempt < PostReads[side]
  /\ pc \in {"sign", "sent"} => attempt = 0
  /\ quote \in Nat /\ order \in Nat /\ reply \in Nat
  /\ pre \in Nat \cup {NoRead}
  /\ result \in Results
  /\ sent \in Nat
  /\ flight \in {"none", "flying", "landed", "dropped"}
  /\ held \in Held /\ moved \in {0, Qty} \cup Bought
  /\ misread \in BOOLEAN

\* One call swaps at most once, whatever is retried and whatever is lost: GET requests
\* are repeated and swap nothing, the POST that swaps is sent once.
OneSwapPerCall == sent <= 1 /\ (moved > 0 => sent = 1 /\ flight = "landed")

\* A sale that is reported as settled, by a call that has read the wallet before and
\* after it, has really taken the tokens, as many as are reported within the tolerance.
SoldIsGone ==
  side = "sell" /\ result.status = "success"
    /\ pre # NoRead /\ result.post # NoRead /\ ~misread
    => moved = Qty /\ Distance(moved, result.amount) <= Tolerance(result.amount)

\* A buy is never left unsettled: the quote it began with names an amount.  The entry
\* that waits for its settlement (RECONCILE_PENDING in the entry context), which the
\* trader handles throughout, comes from no call of this executor.
BuyAlwaysSettles == side = "buy" => result.status # "unknown"

\* Every call comes to an end, also when nobody ever answers.
CallReturns == <>(pc = "done")

Outcome ==
  CASE result.status = "failed" ->
         IF result.code = "execute_failed" THEN "lost" ELSE "refused"
    [] result.status # "failed" -> result.status

Promise == INSTANCE SwapPromise WITH
  Fills <- {Qty} \cup Bought, outcome <- Outcome

\* The call is one of the outcomes its callers reckon with.
ImplementsPromise == Promise!Spec
=============================================================================
