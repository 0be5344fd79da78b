--------------------------- MODULE PolicyAdmission ---------------------------
(***************************************************************************)
(* The way of one spec through reconcile(): validate_spec when it starts,  *)
(* and build_managed_network_policy once the CIDRs are there               *)
(* (crates/ipmaze-controller/src/validation.rs, netpol.rs).                *)
(***************************************************************************)
EXTENDS NetworkPolicyObject, FiniteSets

CONSTANTS
    CandidateSpecs,     \* bound: the specs to look at
    CidrLists           \* bound: the extracted lists to look at

ASSUME AdmissionAssumption ==
    /\ \A s \in CandidateSpecs :
          /\ s.rules \in Seq(ToSet(s.rules))
          /\ \A rule \in ToSet(s.rules) : rule.directions \subseteq SUBSET Direction
    /\ \A list \in CidrLists : list \in Seq(Nat)

VARIABLES
    spec,       \* the spec of the policy
    cidrs,      \* what extract_cidrs returns for it
    stage,      \* "given", "accepted", "rendered", or the stage the reconcile failed at
    rendered    \* the spec of the NetworkPolicy, if it was rendered

vars == <<spec, cidrs, stage, rendered>>

Init ==
    /\ spec \in CandidateSpecs /\ cidrs \in CidrLists
    /\ stage = "given" /\ rendered = {}

\* validate_spec, before anything is fetched.
Validate ==
    /\ stage = "given"
    /\ stage' = IF Defect(spec) = "none" THEN "accepted" ELSE Defect(spec)
    /\ UNCHANGED <<spec, cidrs, rendered>>

\* build_managed_network_policy, after the source was fetched.
Render ==
    /\ stage = "accepted"
    /\ rendered' = IF Renders(spec) THEN {RenderSpec(spec, cidrs)} ELSE {}
    /\ stage' = IF Renders(spec) THEN "rendered" ELSE "selector-translation"
    /\ UNCHANGED <<spec, cidrs>>

Next == Validate \/ Render

Spec == Init /\ [][Next]_vars

-----------------------------------------------------------------------------

\* The rules of one direction of a rendered spec, each a list of peers.
RulesFor(r, direction) == IF direction = "Ingress" THEN r.ingress ELSE r.egress
AllRules(r) == UNION {ToSet(list) : list \in r.ingress \cup r.egress}

\* Validation and rendering ask the same of a selector, each in its own words, so that a spec which
\* was accepted never fails after its source was fetched (validate_selector_requirement,
\* render_selector).
TranslationNeverFails == stage # "selector-translation"

\* Kubernetes reads a rule without peers, or a peer without selectors and ipBlock, as no restriction,
\* and refuses a peer that mixes them. No accepted spec comes to that, not even with a source that
\* lists no CIDR at all (validate_rule, build_peers).
NeverAllowsAll ==
    \A r \in rendered : \A peers \in AllRules(r) :
        /\ peers # <<>>
        /\ \A peer \in ToSet(peers) :
              (peer.ipBlock = {}) # (peer.podSelector \cup peer.namespaceSelector = {})

\* A policy type without a rule isolates the pods in that direction, and rules without the policy type
\* may be ignored: a direction is listed just when some rule is for it (build_policy_types,
\* build_ingress_rules, build_egress_rules).
DirectionsAreComplete ==
    \A r \in rendered :
        r.policyTypes = {d \in Direction : RulesFor(r, d) # {<<>>}}

\* The rules of a direction are the rules of the spec that are for it, in their order, each with every
\* CIDR once and, beside them, the selectors of that very rule (build_peers).
RulesAreComplete ==
    \A r \in rendered, d \in Direction :
        LET chosen == {k \in DOMAIN spec.rules : d \in EffectiveDirections(spec.rules[k])}
            place(k) == Cardinality({j \in chosen : j <= k})
        IN  \A list \in RulesFor(r, d) :
              /\ Len(list) = Cardinality(chosen)
              /\ \A k \in chosen :
                    LET peers == list[place(k)]
                        selectors == Len(peers) - Len(cidrs)
                    IN  /\ \A j \in DOMAIN cidrs : peers[selectors + j].ipBlock = {cidrs[j]}
                        /\ \A j \in 1 .. selectors : peers[j].ipBlock = {}
                        /\ \E peer \in ToSet(peers) :
                              /\ peer.podSelector = spec.rules[k].podSelector
                              /\ peer.namespaceSelector = spec.rules[k].namespaceSelector

-----------------------------------------------------------------------------
(* The inductive invariant of these properties *)

\* Only an accepted spec is rendered, and with the list that was extracted for it.
IInv ==
    /\ spec \in CandidateSpecs /\ cidrs \in CidrLists
    /\ stage \in {"accepted", "rendered"} => Defect(spec) = "none"
    /\ rendered = IF stage = "rendered" THEN {RenderSpec(spec, cidrs)} ELSE {}
    /\ TranslationNeverFails
=============================================================================
