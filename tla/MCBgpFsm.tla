------------------------------ MODULE MCBgpFsm ------------------------------
(* Two routers; "a" has the smaller BGP Identifier. *)
EXTENDS BgpFsm, TLC

TwoRouters == {"a", "b"}
OneEach == "a" :> {1} @@ "b" :> {2}
TwoFromB == "a" :> {} @@ "b" :> {1, 2}
=============================================================================
