--------------------------- MODULE MCAttackDetector ---------------------------
(* The values of AttackDetector's constants for TLC. *)
EXTENDS AttackDetector, TLC

CONSTANTS leader, follower, com

MCNodes  == {leader, follower}
MCRank   == leader :> 0 @@ follower :> 1
(* The leader alone never exceeds the threshold, the follower may. *)
MCLoad   == leader :> {1} @@ follower :> {0, 1, 2}

OneDomain     == {com}
OneLonger     == com :> {com}
OneThreshold  == com :> 1
===============================================================================
