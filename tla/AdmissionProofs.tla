--------------------------- MODULE AdmissionProofs ---------------------------
(***************************************************************************)
(* Proofs about PolicyAdmission, for all specs and lists of CIDRs.         *)
(***************************************************************************)
EXTENDS PolicyAdmission, RenderingProofs

LEMMA AdmissionInductive == Spec => []IInv
<1>1. Init => IInv
  BY DEF Init, IInv, TranslationNeverFails
<1>2. IInv /\ [Next]_vars => IInv'
  <2> SUFFICES ASSUME IInv, [Next]_vars PROVE IInv'
    OBVIOUS
  <2>1. CASE Validate
    <3>1. Defect(spec) \notin {"accepted", "rendered", "selector-translation"}
      BY DEF Defect
    <3>. QED BY <2>1, <3>1 DEF Validate, IInv, TranslationNeverFails
  <2>2. CASE Render
    <3>1. Renders(spec)
      BY <2>2, AcceptedSpecRenders DEF Render, IInv
    <3>. QED BY <2>2, <3>1 DEF Render, IInv, TranslationNeverFails
  <2>3. CASE UNCHANGED vars
    BY <2>3 DEF vars, IInv, TranslationNeverFails
  <2>. QED BY <2>1, <2>2, <2>3 DEF Next
<1>. QED BY <1>1, <1>2, PTL DEF Spec

\* No accepted spec fails in rendering after its source was fetched.
THEOREM AcceptedIsRendered == Spec => []TranslationNeverFails
<1>1. IInv => TranslationNeverFails
  BY DEF IInv
<1>. QED BY <1>1, AdmissionInductive, PTL

-----------------------------------------------------------------------------
(* What an accepted spec is rendered to *)

\* What is known of a spec that was rendered.
LEMMA RenderedFacts ==
    ASSUME IInv, NEW r \in rendered
    PROVE  /\ r = RenderSpec(spec, cidrs) /\ cidrs \in Seq(Nat)
           /\ Len(spec.rules) \in Nat /\ DOMAIN spec.rules = 1 .. Len(spec.rules)
           /\ \A k \in DOMAIN spec.rules :
                 /\ spec.rules[k].podSelector \cup spec.rules[k].namespaceSelector # {}
                 /\ spec.rules[k].directions \subseteq SUBSET Direction
           /\ \A d \in Direction : RulesFor(r, d) = {BuildRules(d, spec.rules, cidrs)}
<1>1. /\ r = RenderSpec(spec, cidrs) /\ Defect(spec) = "none"
      /\ spec \in CandidateSpecs /\ cidrs \in CidrLists
  BY DEF IInv
<1>2. /\ spec.rules \in Seq(ToSet(spec.rules)) /\ cidrs \in Seq(Nat)
      /\ \A rule \in ToSet(spec.rules) : rule.directions \subseteq SUBSET Direction
  BY <1>1, AdmissionAssumption
<1>3. Len(spec.rules) \in Nat /\ DOMAIN spec.rules = 1 .. Len(spec.rules)
  BY <1>2
<1>4. \A k \in DOMAIN spec.rules : spec.rules[k] \in ToSet(spec.rules)
  BY DEF ToSet
<1>5. \A rule \in ToSet(spec.rules) : RuleAccepted(rule)
  BY <1>1 DEF Defect
<1>6. \A d \in Direction : RulesFor(r, d) = {BuildRules(d, spec.rules, cidrs)}
  <2>1. /\ r.ingress = {BuildRules("Ingress", spec.rules, cidrs)}
        /\ r.egress = {BuildRules("Egress", spec.rules, cidrs)}
    BY <1>1 DEF RenderSpec
  <2>. QED BY <2>1 DEF RulesFor, Direction
<1>. QED BY <1>1, <1>2, <1>3, <1>4, <1>5, <1>6, Zenon DEF RuleAccepted

\* The rules of a direction of the rendered spec, and the peers of one of them.
LEMMA RenderedRulesOf ==
    ASSUME IInv, NEW r \in rendered, NEW d \in Direction,
           NEW list, list = BuildRules(d, spec.rules, cidrs),
           NEW chosen, chosen = Chosen(d, spec.rules)
    PROVE  /\ Cardinality(chosen) \in Nat /\ (Cardinality(chosen) = 0 <=> chosen = {})
           /\ list = [k \in 1 .. Cardinality(chosen) |-> list[k]]
           /\ \A k \in DOMAIN list : \E m \in chosen : list[k] = BuildPeers(spec.rules[m], cidrs)
           /\ \A m \in chosen : list[Rank(chosen, m)] = BuildPeers(spec.rules[m], cidrs)
<1> DEFINE rules == spec.rules
           n == Len(rules)
<1>1. n \in Nat /\ DOMAIN rules = 1 .. n
  BY RenderedFacts
<1>2. list = BuildRules(d, rules, cidrs) /\ chosen = Chosen(d, rules)
  OBVIOUS
<1> HIDE DEF n, rules
<1>3. /\ Cardinality(chosen) \in Nat /\ (Cardinality(chosen) = 0 <=> chosen = {})
      /\ list = [k \in 1 .. Cardinality(chosen) |-> list[k]]
      /\ \A k \in DOMAIN list : \E m \in chosen : list[k] = BuildPeers(rules[m], cidrs)
      /\ \A m \in chosen : list[Rank(chosen, m)] = BuildPeers(rules[m], cidrs)
  BY <1>1, <1>2, RulesOfDirection
<1>. QED BY <1>3 DEF rules

LEMMA RenderedPeers ==
    ASSUME IInv, NEW r \in rendered, NEW m \in DOMAIN spec.rules,
           NEW rule, rule = spec.rules[m], NEW peers, peers = BuildPeers(rule, cidrs),
           NEW n, n = Len(cidrs)
    PROVE  /\ rule.podSelector \cup rule.namespaceSelector # {}
           /\ n \in Nat /\ DOMAIN cidrs = 1 .. n
           /\ Len(peers) = n + 1 /\ DOMAIN peers = 1 .. n + 1
           /\ peers[1] = SelectorPeer(rule)
           /\ \A j \in 2 .. n + 1 : peers[j] = BlockPeer(cidrs[j - 1])
<1>1. rule.podSelector \cup rule.namespaceSelector # {} /\ cidrs \in Seq(Nat)
  BY RenderedFacts
<1>2. n \in Nat /\ DOMAIN cidrs = 1 .. n
  BY <1>1
<1>. QED BY <1>1, <1>2, PeersOfRule

LEMMA RenderedNeverAllowsAll == IInv => NeverAllowsAll
<1> SUFFICES ASSUME IInv, NEW r \in rendered, NEW peers \in AllRules(r)
             PROVE  /\ peers # <<>>
                    /\ \A peer \in ToSet(peers) :
                          (peer.ipBlock = {}) # (peer.podSelector \cup peer.namespaceSelector = {})
  BY DEF NeverAllowsAll
<1>1. PICK d \in Direction : peers \in ToSet(BuildRules(d, spec.rules, cidrs))
  BY RenderedFacts DEF AllRules, RenderSpec, Direction
<1> DEFINE list == BuildRules(d, spec.rules, cidrs)
<1>2. PICK k \in DOMAIN list : peers = list[k]
  BY <1>1 DEF ToSet
<1>3. PICK m \in Chosen(d, spec.rules) : peers = BuildPeers(spec.rules[m], cidrs)
  BY <1>2, RenderedRulesOf
<1>4. m \in DOMAIN spec.rules
  BY Zenon DEF Chosen
<1> DEFINE rule == spec.rules[m]
           n == Len(cidrs)
<1>5. rule.podSelector \cup rule.namespaceSelector # {} /\ n \in Nat
  BY <1>3, <1>4, RenderedPeers
<1>6. /\ Len(peers) = n + 1 /\ DOMAIN peers = 1 .. n + 1
      /\ peers[1] = SelectorPeer(rule) /\ \A j \in 2 .. n + 1 : peers[j] = BlockPeer(cidrs[j - 1])
  BY <1>3, <1>4, RenderedPeers
<1> HIDE DEF n, rule
<1>7. peers # <<>>
  BY <1>5, <1>6
<1>8. ASSUME NEW peer \in ToSet(peers)
      PROVE  (peer.ipBlock = {}) # (peer.podSelector \cup peer.namespaceSelector = {})
  <2>1. PICK j \in 1 .. n + 1 : peer = peers[j]
    BY <1>6, <1>8 DEF ToSet
  <2>2. CASE j = 1
    BY <1>5, <1>6, <2>1, <2>2 DEF SelectorPeer
  <2>3. CASE j # 1
    <3>1. peer = BlockPeer(cidrs[j - 1])
      BY <1>5, <1>6, <2>1, <2>3
    <3>. QED BY <3>1 DEF BlockPeer
  <2>. QED BY <2>2, <2>3
<1>. QED BY <1>7, <1>8

LEMMA RenderedDirections == IInv => DirectionsAreComplete
<1> SUFFICES ASSUME IInv, NEW r \in rendered
             PROVE  r.policyTypes = {d \in Direction : RulesFor(r, d) # {<<>>}}
  BY DEF DirectionsAreComplete
<1>1. r.policyTypes = UNION {EffectiveDirections(rule) : rule \in ToSet(spec.rules)}
  BY RenderedFacts DEF RenderSpec, BuildPolicyTypes
<1>2. \A k \in DOMAIN spec.rules : EffectiveDirections(spec.rules[k]) \subseteq Direction
  BY RenderedFacts DEF EffectiveDirections
<1>3. r.policyTypes = {d \in Direction : Chosen(d, spec.rules) # {}}
  BY <1>1, <1>2 DEF Chosen, ToSet
<1>4. ASSUME NEW d \in Direction
      PROVE  Chosen(d, spec.rules) # {} <=> RulesFor(r, d) # {<<>>}
  <2> DEFINE list == BuildRules(d, spec.rules, cidrs)
             n == Cardinality(Chosen(d, spec.rules))
  <2>1. n \in Nat /\ (n = 0 <=> Chosen(d, spec.rules) = {}) /\ list = [k \in 1 .. n |-> list[k]]
    BY RenderedRulesOf
  <2> HIDE DEF list, n
  <2>2. list = <<>> <=> n = 0
    BY <2>1
  <2>3. RulesFor(r, d) = {list}
    BY RenderedFacts DEF list
  <2>. QED BY <2>1, <2>2, <2>3
<1>. QED BY <1>3, <1>4

LEMMA RenderedRules == IInv => RulesAreComplete
<1> DEFINE chosen(d) == {k \in DOMAIN spec.rules : d \in EffectiveDirections(spec.rules[k])}
           place(d, k) == Cardinality({j \in chosen(d) : j <= k})
<1> SUFFICES ASSUME IInv, NEW r \in rendered, NEW d \in Direction, NEW list \in RulesFor(r, d)
             PROVE  /\ Len(list) = Cardinality(chosen(d))
                    /\ \A k \in chosen(d) :
                          LET peers == list[place(d, k)]
                              selectors == Len(peers) - Len(cidrs)
                          IN  /\ \A j \in DOMAIN cidrs : peers[selectors + j].ipBlock = {cidrs[j]}
                              /\ \A j \in 1 .. selectors : peers[j].ipBlock = {}
                              /\ \E peer \in ToSet(peers) :
                                    /\ peer.podSelector = spec.rules[k].podSelector
                                    /\ peer.namespaceSelector = spec.rules[k].namespaceSelector
  BY DEF RulesAreComplete
<1>1. list = BuildRules(d, spec.rules, cidrs) /\ chosen(d) = Chosen(d, spec.rules)
  BY RenderedFacts DEF Chosen
<1> HIDE DEF chosen
<1>2. /\ Cardinality(chosen(d)) \in Nat /\ list = [k \in 1 .. Cardinality(chosen(d)) |-> list[k]]
      /\ \A k \in chosen(d) : list[Rank(chosen(d), k)] = BuildPeers(spec.rules[k], cidrs)
  BY <1>1, RenderedRulesOf
<1>3. Len(list) = Cardinality(chosen(d))
  BY <1>2
<1>4. ASSUME NEW k \in chosen(d), NEW peers, peers = list[place(d, k)]
      PROVE  LET selectors == Len(peers) - Len(cidrs)
             IN  /\ \A j \in DOMAIN cidrs : peers[selectors + j].ipBlock = {cidrs[j]}
                 /\ \A j \in 1 .. selectors : peers[j].ipBlock = {}
                 /\ \E peer \in ToSet(peers) :
                       /\ peer.podSelector = spec.rules[k].podSelector
                       /\ peer.namespaceSelector = spec.rules[k].namespaceSelector
  <2> DEFINE rule == spec.rules[k]
             n == Len(cidrs)
  <2>1. k \in DOMAIN spec.rules
    BY Zenon DEF chosen
  <2>2. /\ n \in Nat /\ DOMAIN cidrs = 1 .. n
        /\ Len(peers) = n + 1 /\ DOMAIN peers = 1 .. n + 1
        /\ peers[1] = SelectorPeer(rule) /\ \A j \in 2 .. n + 1 : peers[j] = BlockPeer(cidrs[j - 1])
    <3>1. peers = BuildPeers(rule, cidrs)
      <4>1. place(d, k) = Rank(chosen(d), k)
        BY DEF Rank
      <4>. QED BY <1>2, <1>4, <4>1
    <3>. QED BY <2>1, <3>1, RenderedPeers
  <2> HIDE DEF n, rule
  <2>3. Len(peers) - n = 1 /\ 1 \in DOMAIN peers
    BY <2>2
  <2>4. ASSUME NEW j \in DOMAIN cidrs PROVE peers[1 + j].ipBlock = {cidrs[j]}
    <3>1. 1 + j \in 2 .. n + 1 /\ (1 + j) - 1 = j
      BY <2>2
    <3>2. peers[1 + j] = BlockPeer(cidrs[j])
      BY <2>2, <3>1
    <3>. QED BY <3>2 DEF BlockPeer
  <2>5. \A j \in 1 .. 1 : peers[j].ipBlock = {}
    BY <2>2 DEF SelectorPeer
  <2>6. peers[1] \in ToSet(peers)
    BY <2>3 DEF ToSet
  <2>7. peers[1].podSelector = rule.podSelector /\ peers[1].namespaceSelector = rule.namespaceSelector
    BY <2>2 DEF SelectorPeer
  <2>. QED BY <2>3, <2>4, <2>5, <2>6, <2>7 DEF n, rule
<1>. QED BY <1>3, <1>4, Zenon

\* Whatever the rules of an accepted spec are, and even if its source lists nothing, no rule and no
\* peer of the NetworkPolicy is without restriction.
THEOREM NothingAllowsAll == Spec => []NeverAllowsAll
  BY RenderedNeverAllowsAll, AdmissionInductive, PTL

\* The policy types of the NetworkPolicy are just the directions it has rules for.
THEOREM PolicyTypesFit == Spec => []DirectionsAreComplete
  BY RenderedDirections, AdmissionInductive, PTL

\* Every rule of an accepted spec is rendered, once for each of its directions and in its place, with
\* its own selectors and every CIDR.
THEOREM NoRuleIsLost == Spec => []RulesAreComplete
  BY RenderedRules, AdmissionInductive, PTL
=============================================================================
