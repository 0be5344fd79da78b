------------------------- MODULE MCPolicyAdmission -------------------------
(***************************************************************************)
(* Specs for PolicyAdmission: every spec of one rule whose selectors have  *)
(* at most one expression, specs of two rules, and a spec that is good but *)
(* for its address, pointer, query or schedule.                            *)
(***************************************************************************)
EXTENDS PolicyAdmission

Selector(expressions) == [labels |-> "app", expressions |-> expressions]
Plain == Selector(<<>>)
OneExpression ==
    {<<>>} \cup {<<[key |-> key, operator |-> op, values |-> values]>> :
        key \in BOOLEAN, op \in ListOperators \cup PresenceOperators, values \in Options(0 .. 2)}
TwoExpressions ==
    {<<[key |-> TRUE, operator |-> "In", values |-> {1}], last[1]>> : last \in OneExpression \ {<<>>}}
Selectors == {Selector(e) : e \in OneExpression \cup TwoExpressions}
DirectionLists == Options(SUBSET Direction)

Rules(selectors) ==
    [directions : DirectionLists, podSelector : Options(selectors),
     namespaceSelector : Options({Plain})]
    \cup [directions : {{}}, podSelector : {{}}, namespaceSelector : Options(selectors)]

Label(length) == [length |-> length, hyphenEdge |-> FALSE, plain |-> TRUE]
Name(labels) == [url |-> {}, ip |-> {}, labels |-> labels, host |-> TRUE]
Text(url, ip, host) == [url |-> url, ip |-> ip, labels |-> <<[Label(9) EXCEPT !.plain = FALSE]>>,
                        host |-> host]
Hostname == Name(<<Label(7), Label(7)>>)
Blank == [url |-> {}, ip |-> {}, labels |-> <<>>, host |-> FALSE]
\* Host names at the limits of their labels and of the whole.
EdgeNames ==
    {Name(<<Label(n), Label(3)>>) : n \in {0, 1, 63, 64}}
    \cup {Name(<<Label(63), Label(63), Label(63), Label(n)>>) : n \in {61, 62}}
    \cup {Name(<<[Label(3) EXCEPT !.hyphenEdge = TRUE]>>), Name(<<[Label(3) EXCEPT !.plain = FALSE]>>),
          [Hostname EXCEPT !.host = FALSE]}
\* URLs, a link-local address that reads as one, IPv4 and IPv6.
Texts ==
    {Text({scheme}, {}, FALSE) : scheme \in Schemes}
    \cup {Text({"other"}, {6}, FALSE), Text({}, {6}, FALSE),
          [Text({}, {4}, TRUE) EXCEPT !.labels = <<Label(3), Label(1), Label(3), Label(2)>>]}

PlainRule == [directions |-> {}, podSelector |-> {Plain}, namespaceSelector |-> {}]
PlainSpec ==
    [source |-> Hostname, pointer |-> {}, query |-> TRUE, schedule |-> {}, target |-> Plain,
     rules |-> <<PlainRule>>]

Candidates ==
    {[PlainSpec EXCEPT !.rules = <<rule>>] : rule \in Rules(Selectors)}
    \cup {[PlainSpec EXCEPT !.rules = rules] : rules \in {<<>>} \cup [1 .. 2 -> Rules({Plain})]}
    \cup {[PlainSpec EXCEPT !.target = selector] : selector \in Selectors}
    \cup {[PlainSpec EXCEPT !.source = address] : address \in EdgeNames \cup Texts \cup {Blank}}
    \cup {[PlainSpec EXCEPT !.pointer = pointer, !.query = query, !.schedule = schedule] :
            pointer \in Options(BOOLEAN), query \in BOOLEAN,
            schedule \in Options([fields : 4 .. 6, parses : BOOLEAN, fires : BOOLEAN])}
Lists == {<<>>, <<1>>, <<1, 2>>}
=============================================================================
