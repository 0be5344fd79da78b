-------------------------- MODULE ExtractionProofs --------------------------
(***************************************************************************)
(* Proofs about CidrExtraction, for all arrays over all sets of CIDRs.     *)
(***************************************************************************)
EXTENDS CidrExtraction, OrderProofs

\* The document whose query result is the array of the run.
Whole == [stage |-> "none", elements |-> values, captures |-> {}]

LEMMA ElementTyped ==
    ASSUME TypeOK, NEW k \in DOMAIN values
    PROVE  /\ values \in Seq(Elements) /\ values[k] \in Elements
           /\ ElementStage(values[k]) \in {"none", "result-shape", "cidr-validation"}
           /\ ElementStage(values[k]) = "none" => \E c \in Cidrs : values[k].cidr = {c}
<1>1. values \in Seq(Elements) /\ values[k] \in Elements
  BY ExtractionAssumption DEF TypeOK
<1>2. ElementStage(values[k]) = "none" => \E c \in Cidrs : values[k].cidr = {c}
  BY <1>1 DEF Elements, Options, ElementStage
<1>. QED BY <1>1, <1>2 DEF ElementStage

LEMMA SequenceOfNumbers ==
    ASSUME NEW C, C \subseteq Nat, NEW n \in Nat, NEW s \in [1 .. n -> C]
    PROVE  s \in Seq(C) /\ s \in [1 .. n -> Nat]
<1>1. s \in Seq(C)
  OBVIOUS
<1>2. s \in [1 .. n -> Nat]
  OBVIOUS
<1>. QED BY <1>1, <1>2

LEMMA InitCollected == Init => IInv
<1> SUFFICES ASSUME Init PROVE IInv
  OBVIOUS
<1>1. Len(values) \in Nat
  BY ExtractionAssumption DEF Init
<1>2. TypeOK
  BY <1>1 DEF Init, TypeOK, Running
<1>3. Collected
  BY DEF Init, Collected, ToSet
<1>4. ReturnsReference /\ IgnoresOrder
  BY DEF Init, ReturnsReference, IgnoresOrder, Running
<1>. QED BY <1>2, <1>3, <1>4 DEF IInv

\* The element that is rejected is the first of those that would be.
LEMMA RejectReturns ==
    ASSUME IInv, RejectElement
    PROVE  IInv'
<1> DEFINE failed == ElementStage(values[next])
           bad == Rejected(values)
<1>1. TypeOK /\ Collected /\ next \in DOMAIN values /\ failed # "none"
  BY ExtractionAssumption DEF IInv, RejectElement, AtElement, TypeOK
<1>2. failed \in {"result-shape", "cidr-validation"}
  BY <1>1, ElementTyped
<1>3. outcome' = [stage |-> failed, cidrs |-> <<>>]
  BY DEF RejectElement
<1>4. next \in bad /\ \A k \in bad : next <= k /\ k \in Nat
  BY <1>1, ExtractionAssumption DEF Rejected, Collected, TypeOK
<1>5. (CHOOSE k \in bad : \A j \in bad : k <= j) = next
  BY <1>4
<1>6. ExtractCidrs(Whole) = [stage |-> failed, cidrs |-> <<>>]
  BY <1>4, <1>5, Zenon DEF ExtractCidrs, Whole
<1>7. UNCHANGED <<values, next, seen, cidrs>>
  BY DEF RejectElement
<1> HIDE DEF failed
<1>8. TypeOK'
  BY <1>1, <1>2, <1>3, <1>7 DEF TypeOK
<1>9. ReturnsReference'
  BY <1>3, <1>6, <1>7 DEF ReturnsReference, Whole
<1>10. IgnoresOrder' /\ outcome' # Running
  BY <1>2, <1>3 DEF IgnoresOrder, Running
<1>11. (outcome = Running => Collected)'
  BY <1>10 DEF Running
<1>. QED BY <1>8, <1>9, <1>10, <1>11 DEF IInv

LEMMA TakeCollects ==
    ASSUME IInv, TakeElement
    PROVE  IInv'
<1>1. /\ TypeOK /\ Collected /\ next \in DOMAIN values /\ next \in Nat
      /\ Len(values) \in Nat /\ next <= Len(values) /\ DOMAIN values = 1 .. Len(values)
      /\ ElementStage(values[next]) = "none" /\ outcome = Running
  BY ExtractionAssumption DEF IInv, TakeElement, AtElement, TypeOK
<1>2. PICK cidr \in Cidrs : values[next].cidr = {cidr}
  BY <1>1, ElementTyped
<1>3. /\ seen' = seen \cup {cidr} /\ next' = next + 1 /\ UNCHANGED <<values, outcome>>
      /\ cidrs' = IF cidr \in seen THEN cidrs ELSE Append(cidrs, cidr)
  BY <1>2 DEF TakeElement
<1>4. TypeOK'
  BY <1>1, <1>3 DEF TypeOK
<1>5. 1 .. next' - 1 = (1 .. next - 1) \cup {next}
  BY <1>1, <1>3
<1>6. \A k \in 1 .. next' - 1 : ElementStage(values'[k]) = "none"
  BY <1>1, <1>3, <1>5 DEF Collected
<1>7. seen' = UNION {values'[k].cidr : k \in 1 .. next' - 1}
  BY <1>1, <1>2, <1>3, <1>5 DEF Collected
<1>8. /\ ToSet(cidrs') = seen'
      /\ \A j, k \in DOMAIN cidrs' : cidrs'[j] = cidrs'[k] => j = k
  <2>1. cidrs \in Seq(Cidrs) /\ ToSet(cidrs) = seen
    BY <1>1 DEF TypeOK, Collected
  <2>2. CASE cidr \in seen
    BY <1>1, <1>3, <2>2 DEF Collected
  <2>3. CASE cidr \notin seen
    <3> DEFINE n == Len(cidrs)
    <3>1. /\ n \in Nat /\ DOMAIN cidrs' = 1 .. n + 1 /\ DOMAIN cidrs = 1 .. n
          /\ cidrs'[n + 1] = cidr /\ \A k \in 1 .. n : cidrs'[k] = cidrs[k]
      BY <1>3, <2>1, <2>3
    <3> HIDE DEF n
    <3>2. \A k \in 1 .. n : cidrs[k] # cidr
      BY <2>1, <2>3, <3>1 DEF ToSet
    <3>3. 1 .. n + 1 = (1 .. n) \cup {n + 1} /\ n + 1 \notin 1 .. n
      BY <3>1
    <3>4. \A j, k \in DOMAIN cidrs' : cidrs'[j] = cidrs'[k] => j = k
      BY <1>1, <3>1, <3>2, <3>3 DEF Collected
    <3>5. ToSet(cidrs') = ToSet(cidrs) \cup {cidr}
      BY <3>1, <3>3 DEF ToSet
    <3>. QED BY <1>3, <2>1, <3>4, <3>5
  <2>. QED BY <2>2, <2>3
<1>9. Collected'
  BY <1>6, <1>7, <1>8 DEF Collected
<1>10. ReturnsReference' /\ IgnoresOrder'
  BY <1>1, <1>3 DEF ReturnsReference, IgnoresOrder, Running
<1>. QED BY <1>4, <1>9, <1>10 DEF IInv

\* Sorting moves the elements and loses none: what comes out is the one ascending enumeration of the
\* CIDRs of the array.
LEMMA SortReturns ==
    ASSUME IInv, SortAndReturn
    PROVE  IInv'
<1> DEFINE D == DOMAIN cidrs
           all == UNION {e.cidr : e \in ToSet(values)}
<1>1. /\ TypeOK /\ Collected /\ values \in Seq(Elements) /\ next = Len(values) + 1
      /\ Len(values) \in Nat /\ cidrs \in Seq(Cidrs) /\ Cidrs \subseteq Nat
  BY ExtractionAssumption DEF IInv, SortAndReturn, TypeOK
<1>2. PICK move \in Bijection(D, D) :
         /\ \A j, k \in D : j < k => cidrs[move[j]] <= cidrs[move[k]]
         /\ cidrs' = [k \in D |-> cidrs[move[k]]]
  BY DEF SortAndReturn
<1>3. /\ move \in [D -> D] /\ \A k \in D : \E j \in D : move[j] = k
      /\ \A j, k \in D : move[j] = move[k] => j = k
  BY Zenon DEF Bijection, Injection, Surjection, IsInjective
<1>4. PICK n \in Nat : D = 1 .. n /\ cidrs \in [1 .. n -> Cidrs]
  BY <1>1
<1>5. cidrs' \in [1 .. n -> Cidrs] /\ cidrs' \in Seq(Cidrs) /\ cidrs' \in [1 .. n -> Nat]
  <2>1. cidrs' \in [D -> Cidrs]
    <3>1. cidrs \in [D -> Cidrs]
      BY <1>4
    <3> HIDE DEF D
    <3>. QED BY <1>2, <1>3, <3>1
  <2>2. cidrs' \in [1 .. n -> Cidrs]
    BY <1>4, <2>1
  <2>. QED BY <1>1, <2>2, SequenceOfNumbers
<1>6. ToSet(cidrs') = ToSet(cidrs)
  BY <1>2, <1>3 DEF ToSet
<1>7. Ascends(cidrs')
  <2> SUFFICES ASSUME NEW j \in D, NEW k \in D, j < k PROVE cidrs'[j] < cidrs'[k]
    BY <1>4, <1>5 DEF Ascends
  <2>1. cidrs'[j] <= cidrs'[k] /\ cidrs'[j] \in Nat /\ cidrs'[k] \in Nat
    BY <1>2, <1>4, <1>5
  <2>2. cidrs'[j] # cidrs'[k]
    <3>1. move[j] # move[k]
      BY <1>3, <1>4
    <3>. QED BY <1>1, <1>2, <1>3, <3>1 DEF Collected
  <2>. QED BY <2>1, <2>2
<1>8. all = ToSet(cidrs)
  <2>1. DOMAIN values = 1 .. next - 1
    BY <1>1
  <2>2. all = UNION {values[k].cidr : k \in 1 .. next - 1}
    BY <2>1 DEF ToSet
  <2>. QED BY <1>1, <2>2 DEF Collected
<1>9. SortedCidrs(values) = cidrs'
  BY <1>5, <1>6, <1>7, <1>8, StrictlyAscending DEF SortedCidrs
<1>10. Rejected(values) = {}
  BY <1>1 DEF Rejected, Collected
<1>11. ExtractCidrs(Whole) = [stage |-> "none", cidrs |-> cidrs']
  BY <1>9, <1>10 DEF ExtractCidrs, Whole
<1>12. outcome' = [stage |-> "none", cidrs |-> cidrs'] /\ UNCHANGED <<values, next, seen>>
  BY DEF SortAndReturn
<1>13. TypeOK'
  BY <1>1, <1>5, <1>12 DEF TypeOK
<1>14. ReturnsReference'
  BY <1>11, <1>12 DEF ReturnsReference, Whole
<1>15. IgnoresOrder'
  BY <1>6, <1>7, <1>8, <1>12 DEF IgnoresOrder, Ascends
<1>16. (outcome = Running => Collected)'
  BY <1>12 DEF Running
<1>. QED BY <1>13, <1>14, <1>15, <1>16 DEF IInv

LEMMA NextCollects == IInv /\ [Next]_vars => IInv'
<1> SUFFICES ASSUME IInv, [Next]_vars PROVE IInv'
  OBVIOUS
<1>1. CASE UNCHANGED vars
  BY <1>1 DEF vars, IInv, TypeOK, ReturnsReference, IgnoresOrder, Collected, Running
<1>. QED BY <1>1, RejectReturns, TakeCollects, SortReturns DEF Next

\* The loop never leaves its array, and what it holds at each step are CIDRs of the array.
THEOREM ExtractionTyped == Spec => []TypeOK
<1>1. IInv => TypeOK
  BY DEF IInv
<1>. QED BY <1>1, InitCollected, NextCollects, PTL DEF Spec

\* For an array of any length the loop returns what ExtractCidrs says of the whole of it: the stage of
\* its first rejected element and nothing else, or all of its CIDRs.
THEOREM LoopReturnsReference == Spec => []ReturnsReference
<1>1. IInv => ReturnsReference
  BY DEF IInv
<1>. QED BY <1>1, InitCollected, NextCollects, PTL DEF Spec

\* Neither the order nor the repetitions of an array are seen in what the loop returns.
THEOREM OrderIsIgnored == Spec => []IgnoresOrder
<1>1. IInv => IgnoresOrder
  BY DEF IInv
<1>. QED BY <1>1, InitCollected, NextCollects, PTL DEF Spec
=============================================================================
