---------------------------- MODULE SourceAddress ----------------------------
(***************************************************************************)
(* The remote addresses ipmaze-controller accepts, and the request each    *)
(* turns into (normalize_source_address in                                 *)
(* crates/ipmaze-controller/src/source.rs). A configured address and one a *)
(* pointer page yields are read by the same rules.                         *)
(*                                                                         *)
(* An address is what the checks see of its trimmed text: the scheme when  *)
(* it parses as an absolute URL, its family when it parses as an IP        *)
(* address, its labels as a host name (none when the text is blank), and   *)
(* whether the URL parser takes the text as the host of a URL. The text    *)
(* fe80::1 is an absolute URL, and a text with a colon is no host.         *)
(***************************************************************************)
EXTENDS Integers, Sequences, SequencesExt

\* Option<T> of the code: {} is None, {x} is Some(x).
Options(S) == {{}} \cup {{x} : x \in S}

\* A label of a host name: its length in bytes, whether it begins or ends with a hyphen, and whether
\* all its characters are letters, digits and hyphens of ASCII.
Labels == [length : Nat, hyphenEdge : BOOLEAN, plain : BOOLEAN]
Schemes == {"http", "https", "other"}
Addresses ==
    [url : Options(Schemes), ip : Options({4, 6}), labels : Seq(Labels), host : BOOLEAN]

IsValidHostnameLabel(label) ==
    label.length \in 1 .. 63 /\ ~label.hyphenEdge /\ label.plain

IsValidHostname(labels) ==
    LET dots == Len(labels) - 1
        length == FoldLeft(LAMBDA sum, label : sum + label.length, dots, labels)
    IN  length \in 1 .. 253 /\ \A label \in ToSet(labels) : IsValidHostnameLabel(label)

\* The request an address stands for: the kind of address, and the scheme of the URL that is fetched.
NormalizeSourceAddress(address) ==
    LET request(kind, scheme) ==
            IF address.host THEN {[kind |-> kind, scheme |-> scheme]} ELSE {}
    IN  IF address.url # {}
        THEN {[kind |-> "url", scheme |-> s] : s \in address.url \cap {"http", "https"}}
        ELSE IF address.ip # {} THEN request("ip", "http")
        ELSE IF IsValidHostname(address.labels) THEN request("hostname", "https")
        ELSE {}

AcceptedAddress(address) == NormalizeSourceAddress(address) # {}
=============================================================================
