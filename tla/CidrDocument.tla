---------------------------- MODULE CidrDocument ----------------------------
(***************************************************************************)
(* What the controller makes of the body a remote source returns           *)
(* (crates/ipmaze-controller/src/source.rs and extract.rs).                *)
(*                                                                         *)
(* A CIDR is a natural number standing for the text IpNet::to_string       *)
(* gives it, and the order of the numbers for the order of those texts.    *)
(* An element of a query result is a string or not, and a string parses    *)
(* to at most one CIDR; texts that render alike are the same element.      *)
(* A document is what the two requests of a reconcile see of a source:     *)
(* the stage that rejects its body or its query result before any element  *)
(* is looked at ("none" when the result is an array), the elements of that *)
(* array, and the address the pointer regex captures in its text ({} when  *)
(* it does not match, or its first group is not there or blank).           *)
(***************************************************************************)
EXTENDS SourceAddress

\* The stages of ReconcileError::stage a document can fail at.
DocumentStages ==
    {"transport", "json-decode", "jmespath-evaluate", "result-shape", "cidr-validation"}

Documents(sources) ==
    [stage : DocumentStages \cup {"none"},
     elements : Seq([string : BOOLEAN, cidr : SUBSET Nat]),
     captures : Options(sources)]

\* Mutant: an element that is no string counts as broken JSON.
NonStringIsBrokenJson(element) ==
    IF ~element.string THEN "json-decode"
    ELSE IF element.cidr = {} THEN "cidr-validation" ELSE "none"

\* The checks of one element in the order of the loop of extract_cidrs.
ElementStage(element) ==
    IF ~element.string THEN "result-shape"
    ELSE IF element.cidr = {} THEN "cidr-validation" ELSE "none"

\* The elements extract_cidrs rejects, by position.
Rejected(elements) == {k \in DOMAIN elements : ElementStage(elements[k]) # "none"}

\* The sequence of the numbers of a finite set in ascending order.
Ascends(s) == \A j, k \in DOMAIN s : j < k => s[j] < s[k]
Ascending(S) == CHOOSE s \in [1 .. Cardinality(S) -> S] : ToSet(s) = S /\ Ascends(s)

\* The CIDRs an array of elements names, each once, in ascending order.
SortedCidrs(elements) == Ascending(UNION {e.cidr : e \in ToSet(elements)})

\* Mutant: elements that are no CIDR are skipped.
ExtractWhatParses(document) ==
    [stage |-> document.stage,
     cidrs |-> IF document.stage = "none" THEN SortedCidrs(document.elements) ELSE <<>>]

\* fetch_json and extract_cidrs on one document: the CIDRs, or the stage that failed. The first
\* rejected element decides the stage and nothing of the array is kept.
ExtractCidrs(document) ==
    LET bad == Rejected(document.elements)
        failedAt(stage) == [stage |-> stage, cidrs |-> <<>>]
    IN  IF document.stage # "none" THEN failedAt(document.stage)
        ELSE IF bad = {} THEN [stage |-> "none", cidrs |-> SortedCidrs(document.elements)]
        ELSE failedAt(ElementStage(document.elements[CHOOSE k \in bad : \A j \in bad : k <= j]))

\* A document every check accepts: an array of strings that all are CIDRs.
Accepted(document) ==
    document.stage = "none" /\ \A e \in ToSet(document.elements) : e.string /\ e.cidr # {}

\* The CIDRs such a document stands for, all of them; no sequence at all for any other document.
Yields(document) == IF Accepted(document) THEN {SortedCidrs(document.elements)} ELSE {}
=============================================================================
