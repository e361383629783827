---------------------------- MODULE MCExitRules ----------------------------
(***************************************************************************)
(* Quotes for model-checking ExitRules.                                    *)
(***************************************************************************)
EXTENDS ExitRules

\* A loss beyond the stop and in the emergency zone, through a route that has become
\* worse; a profit that arms the trailing stop and spares the position the time stop; a
\* profit beyond the ladder's step, after which the other one trails.
LadderQuotes ==
  { [mark |-> 86, impact |-> 4, hops |-> 1],
    [mark |-> 116, impact |-> 1, hops |-> 0],
    [mark |-> 130, impact |-> 1, hops |-> 0] }

\* A settlement that turns out better than booked: the loss is then an emergency, but
\* above the stop.
EntryPrices == {98}
OneStep == <<24>>
BothSellers == {"ladder", "hachi"}
MinusThree == -3
MinusTwelve == -12
=============================================================================
