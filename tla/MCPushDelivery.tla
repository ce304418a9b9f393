--------------------------- MODULE MCPushDelivery ---------------------------
(***************************************************************************)
(* Instances of PushDelivery.  The ids of effects are hashes: any order of *)
(* them will do.                                                           *)
(***************************************************************************)
EXTENDS PushDelivery, TLC

MCEffectRank ==
  CHOOSE rank \in [Effect -> 1..Cardinality(Effect)] :
    \A x, y \in Effect : rank[x] = rank[y] => x = y
=============================================================================
