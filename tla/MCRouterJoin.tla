---------------------------- MODULE MCRouterJoin ----------------------------
(***************************************************************************)
(* Three machines: two that list each other and a third that lists both.   *)
(***************************************************************************)
EXTENDS RouterJoin, TLC

CONSTANTS h1, h2, h3

Lists == h1 :> <<h2>> @@ h2 :> <<h1>> @@ h3 :> <<h2, h1>>
=============================================================================
