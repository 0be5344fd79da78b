-------------------------- MODULE PolicyValidation --------------------------
(***************************************************************************)
(* The spec of a CIDRPolicy and its validation before anything is fetched  *)
(* (crates/ipmaze-controller/src/validation.rs, the types of api.rs).      *)
(*                                                                         *)
(* A label selector is its labels, an opaque value, and its expressions;   *)
(* an expression is whether its key is more than blanks, its operator, and *)
(* how many values it lists, if it has a list. A pointer is whether its    *)
(* regex compiles, a query whether it does, and a schedule its number of   *)
(* fields, whether cron parses them and whether it ever comes to a time.   *)
(***************************************************************************)
EXTENDS SourceAddress

Direction == {"Egress", "Ingress"}
ListOperators == {"In", "NotIn"}
PresenceOperators == {"Exists", "DoesNotExist"}

Requirements ==
    [key : BOOLEAN, operator : ListOperators \cup PresenceOperators, values : Options(Nat)]
Schedules == [fields : Nat, parses : BOOLEAN, fires : BOOLEAN]

\* Mutant: an empty list counts as no list.
RequirementAcceptedLoosely(requirement) ==
    /\ requirement.key
    /\ requirement.operator \in ListOperators => \E n \in requirement.values : n > 0
    /\ requirement.operator \in PresenceOperators => \A n \in requirement.values : n = 0

\* validate_selector_requirement
RequirementAccepted(requirement) ==
    /\ requirement.key
    /\ requirement.operator \in ListOperators => \E n \in requirement.values : n > 0
    /\ requirement.operator \in PresenceOperators => requirement.values = {}

SelectorAccepted(selector) ==
    \A requirement \in ToSet(selector.expressions) : RequirementAccepted(requirement)

\* Mutant: a rule without a selector is let through.
RuleAcceptedUnselective(rule) ==
    /\ rule.directions # {{}}
    /\ \A selector \in rule.podSelector \cup rule.namespaceSelector : SelectorAccepted(selector)

\* validate_rule: a rule has a selector, and a list of directions that is there is not empty.
RuleAccepted(rule) ==
    /\ rule.podSelector \cup rule.namespaceSelector # {}
    /\ rule.directions # {{}}
    /\ \A selector \in rule.podSelector \cup rule.namespaceSelector : SelectorAccepted(selector)

\* validate_resync_schedule: no schedule is the default one.
ScheduleAccepted(schedule) == \A s \in schedule : s.fields = 5 /\ s.parses

\* The stage of the error validate_spec returns, by the order of its checks; "none" for a good spec.
Defect(spec) ==
    IF spec.rules = <<>> \/ ~AcceptedAddress(spec.source) \/ spec.pointer = {FALSE}
    THEN "validation"
    ELSE IF ~spec.query THEN "jmespath-compile"
    ELSE IF /\ ScheduleAccepted(spec.schedule)
            /\ SelectorAccepted(spec.target)
            /\ \A rule \in ToSet(spec.rules) : RuleAccepted(rule)
         THEN "none" ELSE "validation"

\* Whether the schedule has a next time; the default one has.
Fires(spec) == \A s \in spec.schedule : s.fires
=============================================================================
