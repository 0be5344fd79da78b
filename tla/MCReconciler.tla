---------------------------- MODULE MCReconciler ----------------------------
(***************************************************************************)
(* Instances of Reconciler for TLC: documents, sources, specs and the      *)
(* NetworkPolicies of users.                                               *)
(***************************************************************************)
EXTENDS ReconcilerRefinement

Cidr(c) == [string |-> TRUE, cidr |-> {c}]
NotACidr == [string |-> TRUE, cidr |-> {}]

Array(elements) == [stage |-> "none", elements |-> elements, captures |-> {}]
Unusable(stage) == [stage |-> stage, elements |-> <<>>, captures |-> {}]
PageFor(captures) == [stage |-> "json-decode", elements |-> <<>>, captures |-> captures]

\* Arrays of CIDRs, one with a repetition; an array part of which is no CIDR.
One == Array(<<Cidr(1)>>)
Two == Array(<<Cidr(2), Cidr(1), Cidr(2)>>)
Torn == Array(<<Cidr(1), NotACidr>>)

\* Three addresses: two host names, and a host name with a path, which no request can be made of.
Name(length) ==
    [url |-> {}, ip |-> {}, host |-> TRUE,
     labels |-> <<[length |-> length, hyphenEdge |-> FALSE, plain |-> TRUE]>>]
List == Name(4)
Page == Name(5)
NoAddress == [Name(9) EXCEPT !.labels[1].plain = FALSE]

Selector(labels) == [labels |-> labels, expressions |-> <<>>]
Rule(directions) ==
    [directions |-> directions, podSelector |-> {Selector("peers")}, namespaceSelector |-> {}]
PlainSpec ==
    [source |-> List, pointer |-> {}, query |-> TRUE, schedule |-> {},
     target |-> Selector("app"), rules |-> <<Rule({})>>]
EgressSpec == [PlainSpec EXCEPT !.rules = <<Rule({{"Egress"}})>>]
PointerSpec == [PlainSpec EXCEPT !.source = Page, !.pointer = {TRUE}]
PageSpec == [PlainSpec EXCEPT !.source = Page]
InvalidSpec == [PlainSpec EXCEPT !.rules = <<Rule({{}})>>]
NeverSpec == [EgressSpec EXCEPT !.schedule = {[fields |-> 5, parses |-> TRUE, fires |-> FALSE]}]

UserNetpol ==
    [marked |-> FALSE, owner |-> NoOwner, extra |-> FALSE,
     spec |-> [subject |-> Selector("app"), policyTypes |-> {"Ingress"}, ingress |-> {}, egress |-> {}]]
OperatorNetpol == [UserNetpol EXCEPT !.owner = OtherOwner]

Symmetry == Permutations(Instances) \cup Permutations(Tasks)

NoSources == {}
ListOnly == {List}
PageAndList == {Page, List}
AllAddresses == {Page, List, NoAddress}
SteadyList == [src \in {List} |-> {Two}]
FlakyList == [src \in {List} |-> {Two, Torn}]
SteadyPair == [src \in {Page, List} |-> {Two}]
ListBehindPage ==
    [src \in {Page, List, NoAddress} |->
        CASE src = Page -> {PageFor({List}), PageFor({NoAddress}), One, Unusable("transport")}
          [] src = List -> {Two}
          [] src = NoAddress -> {Unusable("transport")}]

NoNetpols == {}
OneUserNetpol == {UserNetpol}
ForeignNetpols == {UserNetpol, OperatorNetpol}
JustPlain == {PlainSpec}
PlainAndEgress == {PlainSpec, EgressSpec}
PlainAndPage == {PlainSpec, PageSpec}
PointerAndBroken == {PointerSpec, InvalidSpec, NeverSpec}
=============================================================================
