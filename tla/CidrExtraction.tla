--------------------------- MODULE CidrExtraction ---------------------------
(***************************************************************************)
(* The loop of extract_cidrs over the array of a query result, one element *)
(* a step (crates/ipmaze-controller/src/extract.rs), against what          *)
(* CidrDocument says it returns.                                           *)
(***************************************************************************)
EXTENDS CidrDocument

CONSTANTS
    Cidrs,      \* the CIDRs a text may parse to
    Arrays      \* bound: the query results to look at

Elements == [string : {TRUE}, cidr : Options(Cidrs)] \cup [string : {FALSE}, cidr : {{}}]

ASSUME ExtractionAssumption == Cidrs \subseteq Nat /\ Arrays \subseteq Seq(Elements)

VARIABLES
    values,     \* the array
    next,       \* the position of the loop in it
    seen,       \* the rendered CIDRs met so far
    cidrs,      \* the result under construction
    outcome     \* what extract_cidrs returned; "running" until then

vars == <<values, next, seen, cidrs, outcome>>

Running == [stage |-> "running", cidrs |-> <<>>]

Init ==
    /\ values \in Arrays
    /\ next = 1 /\ seen = {} /\ cidrs = <<>>
    /\ outcome = Running

AtElement == outcome = Running /\ next <= Len(values)

\* The first element that is no string or no CIDR ends the extraction.
RejectElement ==
    /\ AtElement /\ ElementStage(values[next]) # "none"
    /\ outcome' = [stage |-> ElementStage(values[next]), cidrs |-> <<>>]
    /\ UNCHANGED <<values, next, seen, cidrs>>

\* Mutant: the answer of seen.insert is ignored.
TakeEveryElement ==
    /\ AtElement /\ ElementStage(values[next]) = "none"
    /\ \E cidr \in values[next].cidr :
          seen' = seen \cup {cidr} /\ cidrs' = Append(cidrs, cidr)
    /\ next' = next + 1
    /\ UNCHANGED <<values, outcome>>

\* seen.insert is true for a CIDR that was not there, and only then it is pushed.
TakeElement ==
    /\ AtElement /\ ElementStage(values[next]) = "none"
    /\ \E cidr \in values[next].cidr :
          /\ seen' = seen \cup {cidr}
          /\ cidrs' = IF cidr \in seen THEN cidrs ELSE Append(cidrs, cidr)
    /\ next' = next + 1
    /\ UNCHANGED <<values, outcome>>

\* Mutant: the result is returned in the order of the document.
ReturnUnsorted ==
    /\ outcome = Running /\ next > Len(values)
    /\ outcome' = [stage |-> "none", cidrs |-> cidrs]
    /\ UNCHANGED <<values, next, seen, cidrs>>

\* cidrs.sort() moves the elements about until none is before a lesser one.
SortAndReturn ==
    /\ outcome = Running /\ next > Len(values)
    /\ \E move \in Bijection(DOMAIN cidrs, DOMAIN cidrs) :
          /\ \A j, k \in DOMAIN cidrs : j < k => cidrs[move[j]] <= cidrs[move[k]]
          /\ cidrs' = [k \in DOMAIN cidrs |-> cidrs[move[k]]]
    /\ outcome' = [stage |-> "none", cidrs |-> cidrs']
    /\ UNCHANGED <<values, next, seen>>

Next == RejectElement \/ TakeElement \/ SortAndReturn

Spec == Init /\ [][Next]_vars

-----------------------------------------------------------------------------

\* The types of the variables; the loop never runs past the end of the array.
TypeOK ==
    /\ values \in Arrays
    /\ next \in 1 .. Len(values) + 1
    /\ seen \subseteq Cidrs
    /\ cidrs \in Seq(Cidrs)
    /\ outcome.stage \in {"running", "none", "result-shape", "cidr-validation"}
    /\ outcome.cidrs \in Seq(Cidrs)

\* The loop returns what CidrDocument says: the stage of the first rejected element and nothing else,
\* or every CIDR of the array once and in order (extract_cidrs).
ReturnsReference ==
    outcome # Running
        => outcome = ExtractCidrs([stage |-> "none", elements |-> values, captures |-> {}])

\* Two arrays with the same elements give the same result, however a source orders or repeats them, so
\* that a reordered document is no change of the rendered NetworkPolicy (the sort and the seen set).
IgnoresOrder ==
    outcome.stage = "none"
        => /\ ToSet(outcome.cidrs) = UNION {v.cidr : v \in ToSet(values)}
           /\ \A j, k \in DOMAIN outcome.cidrs : j < k => outcome.cidrs[j] < outcome.cidrs[k]

-----------------------------------------------------------------------------
(* The inductive invariant of these properties *)

\* After next - 1 elements: they all were CIDRs, seen holds just these, and so does cidrs, each once.
Collected ==
    /\ \A k \in 1 .. next - 1 : ElementStage(values[k]) = "none"
    /\ seen = UNION {values[k].cidr : k \in 1 .. next - 1}
    /\ ToSet(cidrs) = seen
    /\ \A j, k \in DOMAIN cidrs : cidrs[j] = cidrs[k] => j = k

IInv == TypeOK /\ ReturnsReference /\ IgnoresOrder /\ (outcome = Running => Collected)
=============================================================================
