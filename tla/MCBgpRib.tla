------------------------------ MODULE MCBgpRib ------------------------------
(* A router of AS 1 with neighbours in AS 2, 3 and 4. *)
EXTENDS BgpRib

CONSTANTS x, y, z

Route(hops) == [weight |-> 0, local_pref |-> 100, hops |-> hops,
                origin |-> 0, med |-> 0, left |-> 2]
Short == Route(1)
Long == Route(2)
Looped == Route(3)
Secret == Route(4)
FourRoutes == {Short, Long, Looped, Secret}
OnlyLooped == {Looped}
OnlySecret == {Secret}

ThreePeers == {x, y, z}
ThreeAs == [q \in ThreePeers |-> IF q = x THEN 2 ELSE IF q = y THEN 3 ELSE 4]
ThreeId == ThreeAs

(* x announces both prefixes, the first with attributes that may change or *)
(* be denied; y, to which routes are also announced, and z, whose route is *)
(* kept from y, compete for it.                                            *)
Announcements ==
  {<<1, x, Short>>, <<1, x, Long>>, <<1, x, Looped>>, <<2, x, Short>>,
   <<1, y, Long>>, <<1, z, Secret>>}
TwoNodes == {1, 2}

ThreeTrust == <<71, 40, 50, 45>>
OnePool == {<<0, 60, 0, 30>>}
=============================================================================
