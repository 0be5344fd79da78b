------------------------ MODULE NetworkPolicyObject ------------------------
(***************************************************************************)
(* The managed NetworkPolicy: how it is rendered from a CIDRPolicy, how    *)
(* the controller recognises one as its own, and what the API server does  *)
(* with it (crates/ipmaze-controller/src/netpol.rs, controller.rs).        *)
(*                                                                         *)
(* A NetworkPolicy is [marked, owner, extra, spec]: whether it carries the *)
(* managed-by label and the source-policy annotation, the uid of the       *)
(* CIDRPolicy in its controller owner reference (NoOwner for none,         *)
(* OtherOwner for an object that is no CIDRPolicy),                        *)
(* whether it carries further labels or annotations, and its spec.         *)
(* A peer is selectors or an ipBlock. A rendered selector holds the labels *)
(* and expressions of the selector of the CIDRPolicy as they are.          *)
(***************************************************************************)
EXTENDS CidrDocument, PolicyValidation

CONSTANTS
    None,               \* no object of that name
    OmitsEmptyLists     \* whether the API server returns an empty rule list as absent

ASSUME OmitsEmptyListsAssumption == OmitsEmptyLists \in BOOLEAN

NoOwner == 0
OtherOwner == -1

EffectiveDirections(rule) ==
    IF rule.directions = {} THEN Direction ELSE UNION rule.directions

\* Mutant: the CIDRs stand in for the selectors.
BuildPeersOfCidrs(rule, cidrs) ==
    [k \in DOMAIN cidrs |-> [podSelector |-> {}, namespaceSelector |-> {}, ipBlock |-> {cidrs[k]}]]

\* The peers of one rule: one for its selectors first, then an ipBlock for each CIDR.
BuildPeers(rule, cidrs) ==
    LET selectors == [podSelector |-> rule.podSelector,
                      namespaceSelector |-> rule.namespaceSelector, ipBlock |-> {}]
        selected == IF rule.podSelector \cup rule.namespaceSelector = {} THEN <<>> ELSE <<selectors>>
    IN  selected \o [k \in DOMAIN cidrs |->
            [podSelector |-> {}, namespaceSelector |-> {}, ipBlock |-> {cidrs[k]}]]

\* The positions of the rules for one direction.
Chosen(direction, rules) == {k \in DOMAIN rules : direction \in EffectiveDirections(rules[k])}

\* build_ingress_rules and build_egress_rules: the rules of one direction, in the order of the spec.
BuildRules(direction, rules, cidrs) ==
    LET chosen == Ascending(Chosen(direction, rules))
    IN  [k \in DOMAIN chosen |-> BuildPeers(rules[chosen[k]], cidrs)]

\* Mutant: both policy types, whatever the rules.
BothPolicyTypes(rules) == Direction

BuildPolicyTypes(rules) == UNION {EffectiveDirections(rule) : rule \in ToSet(rules)}

RenderSpec(spec, cidrs) ==
    [subject |-> spec.target,
     policyTypes |-> BuildPolicyTypes(spec.rules),
     ingress |-> {BuildRules("Ingress", spec.rules, cidrs)},
     egress |-> {BuildRules("Egress", spec.rules, cidrs)}]

\* render_selector copies a selector unless an expression lists values its operator has no use for,
\* or none where it needs one.
SelectorRenders(selector) ==
    \A requirement \in ToSet(selector.expressions) :
        /\ requirement.operator \in ListOperators => requirement.values \notin {{}, {0}}
        /\ requirement.operator \in PresenceOperators => requirement.values = {}

\* Whether build_managed_network_policy gets through: the selectors of a rule are rendered with each
\* of its directions.
Renders(spec) ==
    /\ SelectorRenders(spec.target)
    /\ \A rule \in ToSet(spec.rules) :
          EffectiveDirections(rule) # {}
              => \A selector \in rule.podSelector \cup rule.namespaceSelector :
                    SelectorRenders(selector)

BuildManagedNetworkPolicy(policy, cidrs) ==
    [marked |-> TRUE, owner |-> policy.uid, extra |-> FALSE,
     spec |-> RenderSpec(policy.spec, cidrs)]

\* Mutants: one of the ownership proofs is not asked for.
IsMarkedAsManaged(policy, netpol) == netpol.marked
IsOwnedByPolicy(policy, netpol) == netpol.owner = policy.uid

IsManagedNetworkPolicyFor(policy, netpol) == netpol.marked /\ netpol.owner = policy.uid

\* Mutant: the spec is not compared.
MetadataMatches(current, desired) ==
    /\ current.marked = desired.marked /\ current.owner = desired.owner
    /\ current.extra = desired.extra

\* managed_policy_matches: spec, labels, annotations and owner references are all equal.
ManagedPolicyMatches(current, desired) == current = desired

\* What a read of a stored spec returns.
Returned(spec) ==
    LET list(rules) == IF OmitsEmptyLists /\ rules = {<<>>} THEN {} ELSE rules
    IN  [spec EXCEPT !.ingress = list(@), !.egress = list(@)]

\* A second controller owner reference is the one thing a forced server-side apply is refused for. The
\* reference to a CIDRPolicy is the field manager's own, which every process of the controller shares:
\* the apply drops the one it names no more. That of another operator stays.
ApplyAccepted(current) == current # None => current.owner # OtherOwner

\* Mutant: the apply is not forced and fields of others stay.
ApplyWithoutForce(current, desired) ==
    IF current = None THEN [desired EXCEPT !.spec = Returned(@)] ELSE current

\* Mutant: the object is replaced.
ReplaceObject(current, desired) == [desired EXCEPT !.spec = Returned(@)]

\* A forced server-side apply by name: creates the object, or takes over every field it names and
\* leaves the labels and annotations of others alone.
ServerSideApply(current, desired) ==
    [desired EXCEPT !.spec = Returned(@),
                    !.extra = IF current = None THEN FALSE ELSE current.extra]
=============================================================================
