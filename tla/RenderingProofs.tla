-------------------------- MODULE RenderingProofs --------------------------
(***************************************************************************)
(* Facts about NetworkPolicyObject: what an accepted spec is rendered to,  *)
(* and what a read of it returns.                                          *)
(***************************************************************************)
EXTENDS NetworkPolicyObject, OrderProofs

-----------------------------------------------------------------------------
(* Validation and rendering *)

LEMMA RequirementAcceptedRenders ==
    ASSUME NEW requirement, RequirementAccepted(requirement)
    PROVE  /\ requirement.operator \in ListOperators => requirement.values \notin {{}, {0}}
           /\ requirement.operator \in PresenceOperators => requirement.values = {}
<1>1. ASSUME requirement.operator \in ListOperators
      PROVE  requirement.values \notin {{}, {0}}
  <2>1. PICK n \in requirement.values : n > 0
    BY <1>1 DEF RequirementAccepted
  <2>2. ~(0 > 0)
    BY SMT
  <2>3. n # 0
    BY <2>1, <2>2, Zenon
  <2>. QED BY <2>1, <2>3, Zenon
<1>2. requirement.operator \in PresenceOperators => requirement.values = {}
  BY Zenon DEF RequirementAccepted
<1>. QED BY <1>1, <1>2

LEMMA SelectorAcceptedRenders ==
    ASSUME NEW selector, SelectorAccepted(selector)
    PROVE  SelectorRenders(selector)
  BY RequirementAcceptedRenders, Zenon DEF SelectorAccepted, SelectorRenders

\* Whatever a spec is, validate_spec lets it through only if render_selector gets through with each of
\* its selectors: the two agree on what a good selector is.
THEOREM AcceptedSpecRenders ==
    ASSUME NEW s, Defect(s) = "none"
    PROVE  Renders(s)
<1>1. SelectorAccepted(s.target) /\ \A rule \in ToSet(s.rules) : RuleAccepted(rule)
  BY DEF Defect
<1>2. SelectorRenders(s.target)
  BY <1>1, SelectorAcceptedRenders
<1>3. ASSUME NEW rule \in ToSet(s.rules),
             NEW selector \in rule.podSelector \cup rule.namespaceSelector
      PROVE  SelectorRenders(selector)
  BY <1>1, SelectorAcceptedRenders DEF RuleAccepted
<1>. QED BY <1>2, <1>3 DEF Renders

-----------------------------------------------------------------------------
(* The rules and their peers *)

\* The rules of one direction are the chosen rules of the spec, in their order: the rule of a position
\* comes after as many as are chosen before it (build_ingress_rules, build_egress_rules).
LEMMA RulesOfDirection ==
    ASSUME NEW rules, NEW n \in Nat, DOMAIN rules = 1 .. n, NEW cidrs, NEW direction,
           NEW chosen, chosen = Chosen(direction, rules),
           NEW list, list = BuildRules(direction, rules, cidrs)
    PROVE  /\ Cardinality(chosen) \in Nat /\ (Cardinality(chosen) = 0 <=> chosen = {})
           /\ list = [k \in 1 .. Cardinality(chosen) |-> list[k]]
           /\ \A k \in DOMAIN list : \E m \in chosen : list[k] = BuildPeers(rules[m], cidrs)
           /\ \A m \in chosen : list[Rank(chosen, m)] = BuildPeers(rules[m], cidrs)
<1> DEFINE order == Ascending(chosen)
<1>1. chosen \in SUBSET (1 .. n) /\ chosen \in SUBSET Nat
  <2>1. chosen \subseteq DOMAIN rules
    BY Zenon DEF Chosen
  <2>. QED BY <2>1
<1>2. IsFiniteSet(chosen) /\ Cardinality(chosen) \in Nat
  <2>1. IsFiniteSet(1 .. n)
    BY FS_Interval
  <2>2. IsFiniteSet(chosen)
    BY <1>1, <2>1, FS_Subset
  <2>. QED BY <2>2, FS_CardinalityType
<1>3. Enumerates(order, chosen)
  BY <1>1, <1>2, AscendingEnumerates
<1>4. list = [k \in DOMAIN order |-> BuildPeers(rules[order[k]], cidrs)]
  BY DEF BuildRules
<1> HIDE DEF order
<1>5. order \in [1 .. Cardinality(chosen) -> chosen] /\ ToSet(order) = chosen
  BY <1>3 DEF Enumerates
<1>6. list = [k \in 1 .. Cardinality(chosen) |-> list[k]]
  BY <1>4, <1>5
<1>7. \A k \in DOMAIN list : \E m \in chosen : list[k] = BuildPeers(rules[m], cidrs)
  BY <1>4, <1>5
<1>8. ASSUME NEW m \in chosen
      PROVE  list[Rank(chosen, m)] = BuildPeers(rules[m], cidrs)
  <2>1. PICK k \in 1 .. Cardinality(chosen) : order[k] = m
    BY <1>5 DEF ToSet
  <2>2. Rank(chosen, m) = k
    BY <1>1, <1>2, <1>3, <2>1, RankOfPosition
  <2>. QED BY <1>4, <1>5, <2>1, <2>2
<1>9. Cardinality(chosen) = 0 <=> chosen = {}
  BY <1>2, FS_EmptySet
<1>. QED BY <1>2, <1>6, <1>7, <1>8, <1>9

SelectorPeer(rule) ==
    [podSelector |-> rule.podSelector, namespaceSelector |-> rule.namespaceSelector, ipBlock |-> {}]
BlockPeer(cidr) == [podSelector |-> {}, namespaceSelector |-> {}, ipBlock |-> {cidr}]

\* A rule with a selector has one peer for its selectors and after it one for each CIDR (build_peers).
LEMMA PeersOfRule ==
    ASSUME NEW rule, rule.podSelector \cup rule.namespaceSelector # {}, NEW cidrs \in Seq(Nat),
           NEW peers, peers = BuildPeers(rule, cidrs)
    PROVE  /\ Len(peers) = Len(cidrs) + 1 /\ DOMAIN peers = 1 .. Len(cidrs) + 1
           /\ peers[1] = SelectorPeer(rule)
           /\ \A j \in 2 .. Len(cidrs) + 1 : peers[j] = BlockPeer(cidrs[j - 1])
<1> DEFINE blocks == [k \in DOMAIN cidrs |-> BlockPeer(cidrs[k])]
<1>1. peers = <<SelectorPeer(rule)>> \o blocks
  BY DEF BuildPeers, SelectorPeer, BlockPeer
<1>2. DOMAIN cidrs = 1 .. Len(cidrs) /\ Len(cidrs) \in Nat
  OBVIOUS
<1>3. blocks \in Seq({BlockPeer(cidrs[k]) : k \in DOMAIN cidrs}) /\ Len(blocks) = Len(cidrs)
  BY <1>2
<1>4. \A j \in 1 .. Len(cidrs) : blocks[j] = BlockPeer(cidrs[j])
  BY <1>2
<1> HIDE DEF blocks
<1>5. /\ Len(peers) = Len(cidrs) + 1 /\ DOMAIN peers = 1 .. Len(cidrs) + 1
      /\ peers[1] = SelectorPeer(rule)
      /\ \A j \in 2 .. Len(cidrs) + 1 : peers[j] = blocks[j - 1]
  BY <1>1, <1>2, <1>3
<1>. QED BY <1>2, <1>4, <1>5

-----------------------------------------------------------------------------
(* Reading an object *)

\* What the object reads as is not changed by reading it again.
LEMMA ReadTwice ==
    ASSUME NEW s, NEW cidrs
    PROVE  Returned(Returned(RenderSpec(s, cidrs))) = Returned(RenderSpec(s, cidrs))
  BY DEF Returned, RenderSpec
=============================================================================
