----------------------------- MODULE Selectors -----------------------------
(***************************************************************************)
(* Whether a selector of the custom resources selects a monitor.  A part   *)
(* of a selector that is not set is the empty set; a label of a monitor is *)
(* the set of its value, empty if it has none.  A name is a full one, with *)
(* its namespace.                                                          *)
(***************************************************************************)

HasLabels(labels, required) ==
    \A key \in DOMAIN required : required[key] # {} => labels[key] = required[key]

Satisfies(labels, expression) ==
    LET value == labels[expression.key]
    IN  CASE expression.operator = "In" -> value # {} /\ value \subseteq expression.values
          [] expression.operator = "NotIn" -> value \cap expression.values = {}
          [] expression.operator = "Exists" -> value # {}
          [] expression.operator = "DoesNotExist" -> value = {}

MatchesSelector(selector, monitor) ==
    /\ selector.namespaces # {} => monitor.namespace \in selector.namespaces
    /\ HasLabels(monitor.labels, selector.labels)
    /\ \A expression \in selector.expressions : Satisfies(monitor.labels, expression)
    /\ selector.tags # {} => selector.tags \cap monitor.tags # {}
    /\ selector.names # {} => monitor.name \in selector.names
=============================================================================
