--------------------------- MODULE MetricsRegistry ---------------------------
(***************************************************************************)
(* The metrics registry (src/src/metrics_export.rs): metrics are           *)
(* registered once and set or incremented by name, with or without labels, *)
(* and a scrape gets all of them as lines of text.  A scrape is a sequence *)
(* of lines, each a record of what is written on it; how numbers and names *)
(* are spelled is left out.                                                *)
(***************************************************************************)
EXTENDS Integers, FiniteSets, Sequences, SequencesExt

CONSTANTS
  Names,      \* metric names; numbers, in their BTreeMap order
  Labels,     \* label sets; numbers, 0 for the empty string
  Helps,      \* help texts
  Deltas,     \* what a caller adds or sets
  MaxValue    \* bound: values stay within -MaxValue..MaxValue

ASSUME MetricsAssumption ==
  /\ Names \subseteq Nat /\ Labels \subseteq Nat /\ 0 \in Labels
  /\ Deltas \subseteq Int /\ MaxValue \in Nat

MetricType == {"counter", "gauge"}
NoValues == [l \in {} |-> 0]

VARIABLES
  metrics,  \* MetricsRegistry::metrics: name -> entry
  misused   \* history: counters that were set or given a negative delta

metricsVars == <<metrics, misused>>

MetricsInit == metrics = [n \in {} |-> 0] /\ misused = {}

(* f with x mapped to v: insert of a map. *)
Put(f, x, v) == [y \in DOMAIN f \cup {x} |-> IF y = x THEN v ELSE f[y]]

(* Mutant of Register: a second registration replaces the first. *)
RegisterAnew(n, help, type) ==
  /\ metrics' = Put(metrics, n, [help |-> help, type |-> type, values |-> NoValues])
  /\ UNCHANGED misused

(* or_insert_with: a name that is registered keeps its entry. *)
Register(n, help, type) ==
  /\ metrics' = IF n \in DOMAIN metrics THEN metrics
                ELSE Put(metrics, n, [help |-> help, type |-> type, values |-> NoValues])
  /\ UNCHANGED misused

Write(n, label, value) ==
  /\ value \in (-MaxValue)..MaxValue
  /\ metrics' = [metrics EXCEPT ![n].values = Put(@, label, value)]

Misuse(n, cond) ==
  misused' = IF cond /\ metrics[n].type = "counter" THEN misused \cup {n} ELSE misused

(* counter_inc and counter_inc_labels: a name nobody registered is ignored, *)
(* and so is the type.                                                      *)
CounterInc(n, label, delta) ==
  /\ n \in DOMAIN metrics
  /\ LET values == metrics[n].values IN
     Write(n, label, (IF label \in DOMAIN values THEN values[label] ELSE 0) + delta)
  /\ Misuse(n, delta < 0)

GaugeSet(n, label, value) ==
  /\ n \in DOMAIN metrics
  /\ Write(n, label, value)
  /\ Misuse(n, TRUE)

(* The elements of a finite set of numbers in ascending order, as a       *)
(* BTreeMap gives its keys.                                               *)
Ascending(S) ==
  CHOOSE order \in [1..Cardinality(S) -> S] :
    \A i, j \in 1..Cardinality(S) : i < j => order[i] < order[j]

ValueLines(n) ==
  LET values == metrics[n].values
      order == Ascending(DOMAIN values)
  IN [i \in DOMAIN order |->
        [line |-> "value", name |-> n, label |-> order[i], value |-> values[order[i]]]]

(* Mutant of EntryLines: the labels of a value are not written. *)
EntryLinesUnlabelled(n) ==
  <<[line |-> "HELP", name |-> n, help |-> metrics[n].help],
    [line |-> "TYPE", name |-> n, type |-> metrics[n].type]>>
  \o [i \in DOMAIN ValueLines(n) |-> [ValueLines(n)[i] EXCEPT !.label = 0]]

EntryLines(n) ==
  <<[line |-> "HELP", name |-> n, help |-> metrics[n].help],
    [line |-> "TYPE", name |-> n, type |-> metrics[n].type]>> \o ValueLines(n)

RenderPrometheus ==
  LET order == Ascending(DOMAIN metrics)
  IN FlattenSeq([i \in DOMAIN order |-> EntryLines(order[i])])

MetricsNext ==
  \E n \in Names :
    \/ \E help \in Helps, type \in MetricType : Register(n, help, type)
    \/ \E label \in Labels, delta \in Deltas :
         CounterInc(n, label, delta) \/ GaugeSet(n, label, delta)

MetricsSpec == MetricsInit /\ [][MetricsNext]_metricsVars

-----------------------------------------------------------------------------
(* "Cumulative counter (monotonically increasing)" (metrics_export.rs:11): *)
(* a counter that callers only give positive deltas neither falls nor      *)
(* disappears, whatever else is registered, re-registered or set.          *)
CountersMonotone ==
  [][\A n \in DOMAIN metrics \ misused' : metrics[n].type = "counter" =>
       /\ n \in DOMAIN metrics'
       /\ \A l \in DOMAIN metrics[n].values :
            /\ l \in DOMAIN metrics'[n].values
            /\ metrics'[n].values[l] >= metrics[n].values[l]]_metricsVars

(* The reader's side of the text format: a name is announced by its HELP   *)
(* and TYPE lines, once and together, and every value line belongs to the  *)
(* name announced last.                                                    *)
Announced(lines) == {lines[i].name : i \in {j \in DOMAIN lines : lines[j].line = "HELP"}}

ParsedValues(lines, n) ==
  LET mine == {j \in DOMAIN lines : lines[j].line = "value" /\ lines[j].name = n}
  IN [l \in {lines[j].label : j \in mine} |->
        lines[CHOOSE j \in mine : lines[j].label = l].value]

WellFormed(lines) ==
  \A i \in DOMAIN lines :
    CASE lines[i].line = "HELP" ->
           /\ i + 1 \in DOMAIN lines /\ lines[i + 1].line = "TYPE"
           /\ lines[i + 1].name = lines[i].name
           /\ \A j \in DOMAIN lines \ {i} :
                lines[j].line = "HELP" => lines[j].name # lines[i].name
      [] lines[i].line = "TYPE" -> i > 1 /\ lines[i - 1].line = "HELP"
      [] lines[i].line = "value" ->
           /\ i > 1 /\ lines[i - 1].name = lines[i].name
           /\ \A j \in DOMAIN lines \ {i} :
                lines[j].line = "value" /\ lines[j].name = lines[i].name
                  => lines[j].label # lines[i].label

(* "Prometheus-compatible text format" (metrics_export.rs:4): what a       *)
(* scrape writes can be read back, no sample is given twice, and what is   *)
(* read is the registry: every name with its type and every value.         *)
ScrapeParsesBack ==
  LET lines == RenderPrometheus IN
  /\ WellFormed(lines)
  /\ Announced(lines) = DOMAIN metrics
  /\ \A n \in DOMAIN metrics :
       /\ ParsedValues(lines, n) = metrics[n].values
       /\ \E i \in DOMAIN lines : lines[i].line = "TYPE" /\ lines[i].name = n
                                    /\ lines[i].type = metrics[n].type
=============================================================================
