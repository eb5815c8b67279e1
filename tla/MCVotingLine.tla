---------------------------- MODULE MCVotingLine ----------------------------
(* Three routers in a line, a - b - c, each in an AS of its own: b is the   *)
(* only one with two neighbours, and a is in AS 1, the one that drops.      *)
EXTENDS BgpVoting

CONSTANTS a, b, c

MCNode == {a, b, c}
MCLinks == {<<a, b>>, <<b, a>>, <<b, c>>, <<c, b>>}
MCAsOf == [n \in MCNode |-> CASE n = a -> 1 [] n = b -> 2 [] n = c -> 3]

(* Both neighbours of b are routers of the same AS. *)
SharedAsOf == [n \in MCNode |-> IF n = b THEN 2 ELSE 3]

(* The first rows and columns of the table in bgp_process_main. *)
MCInTrust == <<<<71, 40, 50, 60>>, <<25, 44, 78, 33>>,
               <<67, 40, 28, 76>>, <<88, 53, 66, 28>>>>
=============================================================================
