--------------------------- MODULE FeedbackEvents ---------------------------
(***************************************************************************)
(* Event specs of a capability (workflow/event_spec.cpp) and the gates that *)
(* decide when one fires (workflow/feedback_trigger.cpp).  A payload is a   *)
(* function from fields to numbers; the conversions between JSON types and  *)
(* the operator contains are left out.                                     *)
(***************************************************************************)
EXTENDS Naturals, Sequences, SequencesExt

CONSTANT Null   \* a field that is not in the payload, or holds null

Ops == {"eq", "neq", "gt", "gte", "lt", "lte", "exists", "truthy", "ros_success"}
Sources == {"RESULT", "FEEDBACK"}

\* parseEventSpec throws for anything else.
WellFormed(spec) ==
  /\ spec.event_name # ""
  /\ spec.source \in Sources
  /\ spec.op \in Ops
  /\ spec.max_firings \in Nat /\ spec.cooldown_ms \in Nat

\* Only actions have feedback.
ValidForOperation(kind, specs) ==
  \A i \in DOMAIN specs :
    WellFormed(specs[i]) /\ (specs[i].source = "FEEDBACK" => kind = "ACTION")

\* A node's name for success becomes a spec, unless there is one already.
LegacySpec(name) ==
  [event_name |-> name, source |-> "RESULT", enabled |-> TRUE, field |-> "",
   op |-> "ros_success", value |-> 0, max_firings |-> 1, cooldown_ms |-> 0]

ResolveEventSpecs(capability, action, success_event) ==
  LET specs == IF action = << >> THEN capability ELSE action
      named == \E i \in DOMAIN specs : /\ specs[i].event_name = success_event
                                       /\ specs[i].source = "RESULT"
  IN IF success_event = "" \/ named THEN specs
     ELSE Append(specs, LegacySpec(success_event))

Lookup(payload, field) == IF field \in DOMAIN payload THEN payload[field] ELSE Null

CompareNumbers(a, b, op) ==
  CASE op = "eq" -> a = b
    [] op = "neq" -> a # b
    [] op = "gt" -> a > b
    [] op = "gte" -> a >= b
    [] op = "lt" -> a < b
    [] op = "lte" -> a <= b

EvaluateWhen(spec, payload, ros_success) ==
  LET found == Lookup(payload, spec.field) IN
  CASE spec.op = "ros_success" -> ros_success
    [] spec.op = "exists" -> found # Null
    [] spec.op = "truthy" -> found # Null /\ found # 0
    [] OTHER -> found # Null /\ CompareNumbers(found, spec.value, spec.op)

-----------------------------------------------------------------------------
(* FeedbackTriggerGate.                                                    *)
NewGate == [previous |-> FALSE, count |-> 0]

\* cooled: the cooldown since the last firing, if any, is over.
Fires(gate, spec, condition, cooled) ==
  /\ condition /\ ~gate.previous
  /\ spec.max_firings = 0 \/ gate.count < spec.max_firings
  /\ cooled \/ gate.count = 0 \/ spec.cooldown_ms = 0

\* The condition is remembered even when the edge is not fired upon.
Evaluated(gate, spec, condition, cooled) ==
  [previous |-> condition,
   count |-> gate.count + (IF Fires(gate, spec, condition, cooled) THEN 1 ELSE 0)]
=============================================================================
