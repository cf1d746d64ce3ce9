---------------------------- MODULE MCShardRepair ----------------------------
(* Two markets on one shard.  The intervals keep the order of the real ones:   *)
(* the deadline of a game in play, a sweep, the ordinary deadline, the         *)
(* cooldown; and the repairs run out before the cooldown does (5 x 15 s, 120 s). *)
EXTENDS ShardRepair

CONSTANTS s1, s2
=============================================================================
