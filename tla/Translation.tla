---------------------------- MODULE Translation ----------------------------
(***************************************************************************)
(* From OTLP to records: the spans and logs of receiver/otlp.go and        *)
(* receiver/logs_translator.go, the token buckets of storage/tokens.go and *)
(* the price of a span of pricing/pricing.go.                              *)
(*                                                                         *)
(* Attributes are a function of keys to values; a value that is a number   *)
(* of 32 bits is that number, every other is a model value.  A price is in *)
(* hundredths of a token's, rounding is left out.                          *)
(***************************************************************************)
EXTENDS Integers, Sequences, SequencesExt, Sublists

CONSTANTS
  Nothing,     (* nil, "", an absent number                               *)
  AttrAliases, (* the fallback keys of each standard key, in their order  *)
  WordSize,    (* token counts are below it: 2^32                         *)
  Unspecified, (* the severity number that stands for none                *)
  NumberLabel, (* the label of each severity number                       *)
  TextLabel    (* the label of each severity text, by its beginning       *)

ASSUME WordSizeAssumption == WordSize \in Nat \ {0}

Buckets == <<"gen_ai.usage.input_tokens", "gen_ai.usage.output_tokens",
             "gen_ai.usage.cache_creation_input_tokens",
             "gen_ai.usage.cache_read_input_tokens">>
Model == "gen_ai.request.model"

(* A fallback belongs to one standard key, and is none itself. *)
ASSUME AliasesAssumption ==
  /\ Range(Buckets) \cup {Model} \subseteq DOMAIN AttrAliases
  /\ \A k \in DOMAIN AttrAliases :
       /\ AttrAliases[k] \in Seq(Range(AttrAliases[k]))
       /\ Nothing \notin {k} \cup Range(AttrAliases[k])
       /\ Range(AttrAliases[k]) \cap DOMAIN AttrAliases = {}
       /\ \A l \in DOMAIN AttrAliases \ {k} : Range(AttrAliases[k]) \cap Range(AttrAliases[l]) = {}

-----------------------------------------------------------------------------
FirstOf(keys, Is(_)) ==
  LET I == {i \in DOMAIN keys : Is(keys[i])} IN IF I = {} THEN Nothing ELSE keys[Min(I)]

(* Mutant of NormalizeAttributes: also if the standard key is there. *)
NormalizeAttributesAnyway(attrs) ==
  LET Has(k) == k \in DOMAIN attrs
      source == [k \in DOMAIN AttrAliases |-> FirstOf(AttrAliases[k], Has)]
      copied == {k \in DOMAIN source : source[k] # Nothing}
  IN  [k \in DOMAIN attrs \cup copied |-> IF k \in copied THEN attrs[source[k]] ELSE attrs[k]]

(* A standard key that is absent is given the value of its first fallback. *)
NormalizeAttributes(attrs) ==
  LET Has(k) == k \in DOMAIN attrs
      source == [k \in DOMAIN AttrAliases \ DOMAIN attrs |-> FirstOf(AttrAliases[k], Has)]
      copied == {k \in DOMAIN source : source[k] # Nothing}
  IN  [k \in DOMAIN attrs \cup copied |-> IF k \in copied THEN attrs[source[k]] ELSE attrs[k]]

(* The first of a key and its fallbacks that is there and a number. *)
ReadUint32(attrs, key) ==
  LET Counts(k) == k \in DOMAIN attrs /\ attrs[k] \in Nat /\ attrs[k] < WordSize
      found == FirstOf(<<key>> \o AttrAliases[key], Counts)
  IN  IF found = Nothing THEN Nothing ELSE attrs[found]

TotalOf(counts) ==
  LET given == SelectSeq(counts, LAMBDA n : n # Nothing)
  IN  IF given = << >> THEN Nothing ELSE FoldLeft(LAMBDA x, y : (x + y) % WordSize, 0, given)
DeriveTokenBuckets(attrs) ==
  LET counts == [i \in 1 .. 4 |-> ReadUint32(attrs, Buckets[i])]
  IN  [buckets |-> counts, total |-> TotalOf(counts)]

TranslateSpan(ps) ==
  LET attrs == NormalizeAttributes(ps.attrs)
      end == IF ps.end < ps.start THEN ps.start ELSE ps.end
  IN  [trace |-> ps.trace, id |-> ps.id, parent |-> ps.parent, start |-> ps.start, end |-> end,
       duration |-> end - ps.start, status |-> ps.status, attrs |-> attrs,
       tokens |-> DeriveTokenBuckets(attrs),
       model |-> IF Model \in DOMAIN attrs THEN attrs[Model] ELSE Nothing]
NilSpan == << >>
TranslateSpans(pss) ==
  LET there == Picked(pss, {i \in DOMAIN pss : pss[i] # NilSpan})
  IN  [i \in DOMAIN there |-> TranslateSpan(there[i])]

-----------------------------------------------------------------------------
(* The price of what is not cached, is written to the cache (5/4 of it),   *)
(* read from it (1/10) and answered, by the first price of the model.      *)
CalculateSpanCost(span, pricings) ==
  LET I == {i \in DOMAIN pricings : pricings[i].model = span.model}
      price == pricings[Min(I)]
      n == [i \in 1 .. 4 |-> IF span.tokens.buckets[i] = Nothing THEN 0 ELSE span.tokens.buckets[i]]
  IN  IF span.tokens.total \in {Nothing, 0} \/ span.model = Nothing \/ I = {} THEN Nothing
      ELSE 100 * n[1] * price.input + 125 * n[3] * price.input + 10 * n[4] * price.input
           + 100 * n[2] * price.output

(* nil if no span has a price; the currency is the first priced span's. *)
CalculateTraceCost(spans, pricings) ==
  LET Cost(sp) == CalculateSpanCost(sp, pricings)
      priced == Picked(spans, {i \in DOMAIN spans : Cost(spans[i]) # Nothing})
      costs == [i \in DOMAIN priced |-> Cost(priced[i])]
  IN  [cost |-> IF priced = << >> THEN Nothing ELSE FoldLeft(LAMBDA x, y : x + y, 0, costs),
       currency |-> IF priced = << >> THEN Nothing
                    ELSE pricings[Min({i \in DOMAIN pricings :
                                         pricings[i].model = priced[1].model})].currency,
       unpriced |-> Cardinality({i \in DOMAIN spans :
                                   /\ Cost(spans[i]) = Nothing
                                   /\ spans[i].tokens.total \notin {Nothing, 0}})]

-----------------------------------------------------------------------------
(* A log record: the time it was observed if it has none, the label of its *)
(* severity text if its number says nothing, and the attributes of the     *)
(* resource, the scope and itself, the later ones first.                   *)
TranslateLogRecord(lr, resource, scope) ==
  LET attrs == lr.attrs @@ scope @@ resource
  IN  [time |-> IF lr.time = 0 THEN lr.observed ELSE lr.time,
       severity |-> IF lr.number = Unspecified /\ lr.text # Nothing
                    THEN TextLabel[lr.text] ELSE NumberLabel[lr.number],
       event |-> IF "event.name" \in DOMAIN attrs THEN attrs["event.name"] ELSE Nothing,
       trace |-> lr.trace, span |-> lr.span, body |-> lr.body, attrs |-> attrs]
TranslateLogs(resourceLogs) ==
  FlattenSeq([r \in DOMAIN resourceLogs |->
    FlattenSeq([s \in DOMAIN resourceLogs[r].scopes |->
      LET scope == resourceLogs[r].scopes[s]
      IN  [l \in DOMAIN scope.records |->
             TranslateLogRecord(scope.records[l], resourceLogs[r].attrs, scope.attrs)]])])
=============================================================================
