---------------------------- MODULE MCTraceStore ----------------------------
(* Small instances of TraceStore for TLC. *)
EXTENDS TraceStore

CONSTANTS t1, t2, m1, s1

Root(t, i, from, to, session) ==
  [trace |-> t, id |-> i, root |-> TRUE, start |-> from, end |-> to,
   tokens |-> NoValue, session |-> session, model |-> NoValue]
Call(t, i, from, to, tokens, model) ==
  [trace |-> t, id |-> i, root |-> FALSE, start |-> from, end |-> to,
   tokens |-> tokens, session |-> NoValue, model |-> model]

(* A trace whose root and whose model calls come in two batches, one call *)
(* of a model nobody prices, and a trace of one batch.                    *)
TwoTraces ==
  [rootFirst |-> <<Root(t1, 1, 1, 4, s1)>>,
   calls |-> <<Call(t1, 2, 3, 5, 2, m1), Call(t1, 3, 2, 3, 1, NoValue)>>,
   onlyPriced |-> <<Call(t1, 6, 2, 3, 1, m1)>>,
   other |-> <<Call(t2, 4, 3, 4, 1, m1), Root(t2, 5, 3, 6, NoValue)>>]
NoPrices == [m \in Models |-> NoValue]
PriceOne == [m \in Models |-> 1]
PriceTwo == [m \in Models |-> 2]

(* The instances are among those the theorems are about. *)
ASSUME Instance == SpansAreFinal /\ StartsAreSet /\ CountsFit
=============================================================================
