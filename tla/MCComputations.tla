--------------------------- MODULE MCComputations ---------------------------
(***************************************************************************)
(* Computations over every input of some items, and Metrics with a few     *)
(* requests, which a behaviour turns to instead.                           *)
(***************************************************************************)
EXTENDS Computations, Metrics

CONSTANTS
  Sessions,  (* session ids a root may carry                              *)
  Tools, UNSET, Bad, Info, NoLevel,
  MaxTime,   (* times are 1 .. MaxTime                                    *)
  c, d, h, q, a, b, le

MaxLen == [row |-> 3, calls |-> 4, tree |-> 4, attributes |-> 3, log |-> 2]

(* The values of the constants that are functions. *)
Aliases ==
  [k \in Range(Buckets) \cup {Model} |->
     CASE k = Buckets[1] -> <<"input_tokens", "llm.usage.input_tokens">>
       [] k = Buckets[4] -> <<"cache_read_tokens">>
       [] k = Model -> <<"model">>
       [] OTHER -> << >>]
Labels == {Label, Info, NoLevel}
SomeUpper == [l \in Labels |-> l]
SomeNumbers == [n \in {0, 9, 13} |-> CASE n = 0 -> NoLevel [] n = 9 -> Info
                                    [] OTHER -> Label]
Texts == [t \in {"warn", "Warning", "info"} |-> IF t = "info" THEN Info ELSE Label]
SomePricings == <<[model |-> Bad, input |-> 3, output |-> 5, currency |-> "CNY"]>>

(* What a further item may be. *)
Spans(n) ==
  {sp \in [id : {n}, root : BOOLEAN, start : 1 .. MaxTime, end : 1 .. MaxTime,
           tokens : {NoValue, 1}, session : Sessions \cup {NoValue}] :
      /\ sp.start <= sp.end
      /\ ~sp.root => sp.session = NoValue}
Calls(n) == [id : {n}, start : 1 .. 2, status : {OK, ERROR, UNSET}, tool : Tools]
Nodes(n) ==
  [id : {n}, trace : {1}, parent : {NoValue} \cup 1 .. MaxLen["tree"], start : {n},
   invoke : BOOLEAN, tokens : {NoValue, 1}]
SomeKeys == <<"gen_ai.usage.input_tokens", "input_tokens", "llm.usage.input_tokens",
              "gen_ai.usage.cache_read_input_tokens", "cache_read_tokens",
              "gen_ai.request.model", "model">>
Attributes(n) ==
  [key : {SomeKeys[i] : i \in n .. Len(SomeKeys)}, value : {Bad, 1, WordSize - 1}]
Records(n) ==
  [number : DOMAIN NumberLabel, text : DOMAIN TextLabel \cup {Nothing}, time : {0},
   observed : {2}, attrs : {<< >>}, trace : {NoValue}, span : {NoValue}, body : {NoValue}]
SomeInputs ==
  [p \in DOMAIN MaxLen |->
     [n \in 1 .. MaxLen[p] |->
        CASE p = "row" -> Spans(n)
          [] p = "calls" -> Calls(n)
          [] p = "tree" -> Nodes(n)
          [] p = "attributes" -> Attributes(n)
          [] p = "log" -> Records(n)]]

Init == InputInit /\ MetricsInit
Idle == rows = << >> /\ pending = << >> /\ stored = 0 /\ stops = 0
Next ==
  \/ Idle /\ Extend /\ UNCHANGED metricVars
  \/ kind = "row" /\ input = << >> /\ MetricsNext /\ UNCHANGED <<kind, input>>
Spec == Init /\ [][Next]_<<kind, input, metricVars>>

-----------------------------------------------------------------------------
(* A request with the metrics ms of one service. *)
From(svc, ms) ==
  <<[resource |-> [l \in {"service.name"} |-> svc], scope |-> << >>, metrics |-> ms]>>
Counter(n, at, v) ==
  [kind |-> "sum", name |-> n, points |-> <<[labels |-> << >>, at |-> at, value |-> Whole(v)]>>]
Quantile == [quantile |-> le, value |-> Whole(1)]
SomeRequests ==
  {From(a, <<Counter(c, 1, 1), Counter(d, 1, 1)>>), From(a, <<Counter(c, 3, 4)>>),
   From(b, <<Counter(c, 3, 3)>>) \o From(NoName, <<Counter(c, 3, 1), Counter(d, 3, 2)>>),
   From(a, <<Counter(d, 3, 3), Counter(c, 5, 2), [kind |-> "other", name |-> c, points |-> << >>]>>),
   From(a, <<[kind |-> "histogram", name |-> h, points |->
                <<[labels |-> << >>, at |-> 3, bounds |-> <<le>>, counts |-> <<2, 1>>,
                   sum |-> NoName, count |-> Whole(3)]>>]>>),
   From(a, <<[kind |-> "summary", name |-> q, points |->
                <<[labels |-> << >>, at |-> 3, sum |-> Whole(3), count |-> Whole(2),
                   quantiles |-> <<Quantile>>]>>]>>)}
=============================================================================
