------------------------------- MODULE MCOspf -------------------------------
(* Instances of OspfAdjacency for TLC. *)
EXTENDS OspfAdjacency

(* The third router's LSA is the same at both routers. *)
Same == <<[seq |-> 1, sum |-> 10], [seq |-> 1, sum |-> 10]>>

(* It restarted between the two, with other links: its LSA has the initial *)
(* sequence number at both, with different contents.                       *)
Restarted == <<[seq |-> 1, sum |-> 10], [seq |-> 1, sum |-> 30]>>

OnlyOne == {1}
=============================================================================
