------------------------------- MODULE Event -------------------------------
(***************************************************************************)
(* One event as the field helpers of src/util.cpp change and read it: the  *)
(* three set_event_value overloads (string, int, double value; replace =   *)
(* with, no replace = with_ifempty / default_x), clear_metrics, and the    *)
(* readers metric_to_double, event_str_value and attribute_value.          *)
(* A field is Unset or a value; the metric is three optional protobuf      *)
(* fields; attributes are a sequence of <<key, value>>.                   *)
(***************************************************************************)
EXTENDS Naturals, FiniteSets, Sequences, SequencesExt

CONSTANTS
  Strs,       \* string values
  Nums,       \* numeric values (int and double overloads take the same)
  AttrKeys,   \* keys that are not event fields: attributes
  Unset,      \* a field that has_X() reports absent
  MaxAttrs,   \* bound: attributes on the event
  StrFields   \* the string fields modelled (all four behave alike)

NumFields == {"ttl", "time"}
Keys      == StrFields \cup NumFields \cup {"metric"} \cup AttrKeys
Variants  == {"sint64", "d", "f"}

ASSUME /\ StrFields \subseteq {"host", "service", "description", "state"}
       /\ Unset \notin Strs /\ Unset \notin Nums
       /\ AttrKeys \cap (StrFields \cup NumFields \cup {"metric"}) = {}
       /\ MaxAttrs \in Nat

VARIABLE e

Events ==
  [str : [StrFields -> Strs \cup {Unset}],
   ttl : Nums \cup {Unset}, time : Nums \cup {Unset},
   metric : [Variants -> Nums \cup {Unset}],
   attrs : BoundedSeq((Keys \ StrFields) \X Strs, MaxAttrs)]

TypeOK == e \in Events

MetricSet(ev) == {v \in Variants : ev.metric[v] # Unset}

(* Events the program builds or receives with at most one metric variant. *)
Init ==
  /\ e \in Events
  /\ Len(e.attrs) <= 1
  /\ Cardinality(MetricSet(e)) <= 1

-----------------------------------------------------------------------------
(* metric_to_double: f first, then sint64, then d; 0 when none is set.     *)
metric_to_double(ev) ==
  IF ev.metric["f"] # Unset THEN ev.metric["f"]
  ELSE IF ev.metric["sint64"] # Unset THEN ev.metric["sint64"]
  ELSE IF ev.metric["d"] # Unset THEN ev.metric["d"]
  ELSE 0

(* attribute_exists / attribute_value: the first attribute with the key.   *)
attribute_value(ev, key) ==
  LET hits == SelectSeq(ev.attrs, LAMBDA a : a[1] = key)
  IN IF hits = <<>> THEN "" ELSE hits[1][2]

(* event_str_value: a string field (protobuf "" when unset) or an          *)
(* attribute.                                                              *)
event_str_value(ev, key) ==
  IF key \in StrFields THEN (IF ev.str[key] = Unset THEN "" ELSE ev.str[key])
  ELSE attribute_value(ev, key)

(* Bug variant of set_string: no branch for the string fields, so every    *)
(* key becomes an attribute.                                               *)
set_string_all_attrs(key, value, replace) ==
  e' = [e EXCEPT !.attrs = Append(@, <<key, value>>)]

(* set_event_value, string value: a string field honours replace; any     *)
(* other key, "ttl", "time" and "metric" included, appends an attribute,   *)
(* whatever replace says.                                                  *)
set_string(key, value, replace) ==
  e' = IF key \in StrFields
       THEN IF replace \/ e.str[key] = Unset THEN [e EXCEPT !.str[key] = value] ELSE e
       ELSE [e EXCEPT !.attrs = Append(@, <<key, value>>)]

(* Bug variant of set_int: replacing the metric leaves metric_f set.       *)
set_int_keep_f(key, value, replace) ==
  e' = CASE key = "metric" /\ replace ->
              [e EXCEPT !.metric = [@ EXCEPT !["d"] = Unset, !["sint64"] = value]]
         [] key = "metric" /\ MetricSet(e) = {} ->
              [e EXCEPT !.metric["sint64"] = value]
         [] key \in NumFields /\ (replace \/ e[key] = Unset) ->
              [e EXCEPT ![key] = value]
         [] OTHER -> e

(* set_event_value, int value: metric clears d and f and sets sint64 when  *)
(* replacing, else only when no metric is set; ttl and time honour         *)
(* replace; other keys are logged and ignored.                             *)
set_int(key, value, replace) ==
  e' = CASE key = "metric" /\ replace ->
              [e EXCEPT !.metric = [@ EXCEPT !["d"] = Unset, !["f"] = Unset,
                                             !["sint64"] = value]]
         [] key = "metric" /\ MetricSet(e) = {} ->
              [e EXCEPT !.metric["sint64"] = value]
         [] key \in NumFields /\ (replace \/ e[key] = Unset) ->
              [e EXCEPT ![key] = value]
         [] OTHER -> e

(* Bug variant of set_double: without replace, metric_d is written even    *)
(* when a metric is already set (no_metric_set not consulted).            *)
set_double_no_check(key, value, replace) ==
  e' = CASE key = "metric" /\ replace ->
              [e EXCEPT !.metric = [@ EXCEPT !["sint64"] = Unset, !["f"] = Unset,
                                             !["d"] = value]]
         [] key = "metric" -> [e EXCEPT !.metric["d"] = value]
         [] OTHER -> e

(* set_event_value, double value: metric only, clearing sint64 and f.     *)
set_double(key, value, replace) ==
  e' = CASE key = "metric" /\ replace ->
              [e EXCEPT !.metric = [@ EXCEPT !["sint64"] = Unset, !["f"] = Unset,
                                             !["d"] = value]]
         [] key = "metric" /\ MetricSet(e) = {} ->
              [e EXCEPT !.metric["d"] = value]
         [] OTHER -> e

clear_metrics ==
  e' = [e EXCEPT !.metric = [v \in Variants |-> Unset]]

Next ==
  \/ \E k \in Keys, s \in Strs, r \in BOOLEAN :
       /\ k \in StrFields \/ Len(e.attrs) < MaxAttrs
       /\ set_string(k, s, r)
  \/ \E k \in Keys, n \in Nums, r \in BOOLEAN : set_int(k, n, r)
  \/ \E k \in Keys, n \in Nums, r \in BOOLEAN : set_double(k, n, r)
  \/ clear_metrics

Spec == Init /\ [][Next]_e

-----------------------------------------------------------------------------
(* What a reader of key k sees: the string accessors, metric_to_double, or *)
(* the numeric field.                                                      *)
Observed(ev, k) ==
  CASE k = "metric"     -> metric_to_double(ev)
    [] k \in NumFields  -> ev[k]
    [] OTHER            -> event_str_value(ev, k)

IsSet(ev, k) ==
  CASE k = "metric"     -> MetricSet(ev) # {}
    [] k \in AttrKeys   -> \E i \in 1 .. Len(ev.attrs) : ev.attrs[i][1] = k
    [] k \in NumFields  -> ev[k] # Unset
    [] OTHER            -> ev.str[k] # Unset

(* A sequence of with / with_ifempty writes of int and double metrics,     *)
(* clearing the other variants, never leaves an event with two metric      *)
(* variants set, which the three metric readers would read differently.    *)
MetricExclusive == Cardinality(MetricSet(e)) <= 1

(* with_ifempty / default_x (replace = FALSE) never changes what a reader  *)
(* sees for a key that was already set, whatever the overload and key.     *)
DefaultKeepsSet ==
  [][(\/ \E k \in Keys, s \in Strs : set_string(k, s, FALSE)
      \/ \E k \in Keys, n \in Nums : set_int(k, n, FALSE) \/ set_double(k, n, FALSE))
     => \A k \in Keys : IsSet(e, k) => Observed(e', k) = Observed(e, k)]_e

(* with (replace = TRUE) of a string value for a key event_str_value reads *)
(* (spec 4.3: "unconditionally set listed fields"): afterwards the key     *)
(* reads as the value written.                                             *)
WithOverrides ==
  [][\A k \in StrFields \cup AttrKeys, s \in Strs :
       set_string(k, s, TRUE) => event_str_value(e', k) = s]_e
=============================================================================
