------------------------------ MODULE VotePool ------------------------------
(***************************************************************************)
(* What the voting extension promises about each router's pool, without    *)
(* packets, sessions or numbers: a pool is handed to an AS only while that *)
(* AS waits for it and after every neighbouring AS has voted, and votes    *)
(* are thrown away only all together, with the hand-out that leaves nobody *)
(* waiting.                                                                *)
(***************************************************************************)
CONSTANTS Node, Electorate   \* Electorate[n]: the ASes that vote about n

VARIABLES wanted, voted      \* who waits for n's pool; who has voted about n

poolVars == <<wanted, voted>>

Init ==
  /\ wanted = [n \in Node |-> {}]
  /\ voted = [n \in Node |-> {}]

Want(n, a) ==
  /\ wanted' = [wanted EXCEPT ![n] = @ \cup {a}]
  /\ UNCHANGED voted

Vote(n, a) ==
  /\ voted' = [voted EXCEPT ![n] = @ \cup {a}]
  /\ UNCHANGED wanted

HandOut(n, a) ==
  /\ a \in wanted[n]
  /\ voted[n] = Electorate[n]
  /\ wanted' = [wanted EXCEPT ![n] = @ \ {a}]
  /\ voted' = IF wanted'[n] = {} THEN [voted EXCEPT ![n] = {}] ELSE voted

Next ==
  \E n \in Node : \E a \in Electorate[n] :
    Want(n, a) \/ Vote(n, a) \/ HandOut(n, a)

Spec == Init /\ [][Next]_poolVars
=============================================================================
