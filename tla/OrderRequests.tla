--------------------------- MODULE OrderRequests ---------------------------
(***************************************************************************)
(* The order requests one symbol may receive, shared by the matching       *)
(* engine and the abstract book it implements.                             *)
(***************************************************************************)
EXTENDS Integers

CONSTANTS Users,
          Requests,    \* order requests: user, side, px, qty, tif, ro, po
          MaxMakers    \* MAX_MAKERS_PER_ORDER: makers one order may consume

ASSUME RequestsAssumption ==
  /\ Requests \subseteq [user : Users, side : {"buy", "sell"}, px : Int, qty : Int,
                         tif : {"GTC", "IOC", "FOK"}, ro : BOOLEAN, po : BOOLEAN]
  /\ MaxMakers \in Nat
=============================================================================
