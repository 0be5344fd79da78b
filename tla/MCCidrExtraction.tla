-------------------------- MODULE MCCidrExtraction --------------------------
(***************************************************************************)
(* All query results of up to four elements over three CIDRs, texts that   *)
(* are no CIDR and elements that are no string.                            *)
(***************************************************************************)
EXTENDS CidrExtraction

ThreeCidrs == {1, 2, 3}
ShortArrays == UNION {[1 .. n -> Elements] : n \in 0 .. 4}
=============================================================================
