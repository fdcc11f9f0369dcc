---------------------------- MODULE MCDashboards ----------------------------
(* A small instance of Dashboards for TLC. *)
EXTENDS Dashboards, TLC

Panel(expression, numerator, func) ==
  [title |-> "cost", metric |-> "m", expressionType |-> expression,
   numeratorMetric |-> numerator, func |-> func, aggregation |-> "", chartType |-> "line"]

(* Two that are accepted, one of them as it is, and two that are not. *)
SomeInputs ==
  {Panel("", "", ""), Panel("ratio", "n", "rate"), Panel("ratio", "", "none"),
   Panel("single", "", "avg")}

(* Ids and names are interchangeable, and so are the handlers. *)
Symmetry == Permutations(Handlers) \cup Permutations(Ids) \cup Permutations(Names)
=============================================================================
