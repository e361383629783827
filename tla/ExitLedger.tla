----------------------------- MODULE ExitLedger -----------------------------
(***************************************************************************)
(* What the exit machinery promises about one position, whatever the      *)
(* market and the network do: a ledger of the tokens really held, the      *)
(* bookkeeping of the running process, and the bookkeeping that survives a *)
(* crash.  Sales are booked at most once and only when they happened, a    *)
(* correction moves the books to what the wallet holds, and a position is  *)
(* closed only with nothing left in the wallet, for good unless the        *)
(* closing is lost with the process.                                       *)
(***************************************************************************)
EXTENDS Integers

CONSTANT Qty \* tokens bought

VARIABLES
  held,  \* tokens in the wallet
  book,  \* what the process believes: [qty, paid, closed]
  saved  \* what the state file says

Entry == [qty |-> Qty, paid |-> 0, closed |-> FALSE]

Init ==
  /\ held \in 0..Qty
  /\ book = Entry
  /\ saved = Entry

ClosedOnlyWhenEmpty == book'.closed => book'.qty = 0 /\ held' = 0

\* n tokens are sold; the process books the sale with its proceeds, books it
\* without them, or does not learn of it.
SellOnChain(n) ==
  /\ ~book.closed
  /\ held' = held - n
  /\ \/ book'.qty = book.qty - n /\ book'.paid \in {book.paid, book.paid + n}
     \/ book'.qty = book.qty /\ book'.paid = book.paid
  /\ ClosedOnlyWhenEmpty
  /\ UNCHANGED saved

\* The books are corrected to the wallet.
CorrectBook ==
  /\ ~book.closed
  /\ book'.qty = held /\ book'.paid = book.paid
  /\ ClosedOnlyWhenEmpty
  /\ UNCHANGED <<held, saved>>

Save == saved' = book /\ UNCHANGED <<held, book>>

\* A crash: the process comes back with the saved books.
Reload == book' = saved /\ UNCHANGED <<held, saved>>

Next ==
  \/ \E n \in 1..held : SellOnChain(n)
  \/ CorrectBook
  \/ Save
  \/ Reload

Spec == Init /\ [][Next]_<<held, book, saved>>
=============================================================================
