--------------------------- MODULE MCTraceImport ---------------------------
(* Two traces, in a store that has an error for a trace it does not hold. *)
EXTENDS TraceImport

CONSTANTS t1, t2

TwoTraces == [t \in {t1, t2} |-> IF t = t1 THEN <<1, 2>> ELSE <<3>>]
=============================================================================
