---------------------------- MODULE RouteMirror ----------------------------
(***************************************************************************)
(* What the Adj-RIB-Out of a neighbour promises: the neighbour is told the *)
(* routes that are wanted for it at that moment and nothing else, and      *)
(* forgets all of them with the session.                                   *)
(***************************************************************************)
CONSTANTS Prefix, Attr, NULL

VARIABLES
  want,         \* the attributes it is to have for each prefix, NULL: no route
  told          \* those it has been sent

Routes == [Prefix -> Attr \cup {NULL}]
NoRoutes == [p \in Prefix |-> NULL]

Init == want = NoRoutes /\ told = NoRoutes

Choose == told' = told /\ want' \in Routes

(* One UPDATE: some prefixes, with the attributes wanted for all of them. *)
Tell ==
  /\ want' = want
  /\ told' \in Routes
  /\ \E a \in Attr \cup {NULL} : \A p \in Prefix :
       told'[p] # told[p] => want[p] = a /\ told'[p] = a

Forget == told' = NoRoutes /\ want' \in Routes

Spec == Init /\ [][Choose \/ Tell \/ Forget]_<<want, told>>
=============================================================================
