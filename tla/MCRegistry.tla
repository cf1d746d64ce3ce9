----------------------------- MODULE MCRegistry -----------------------------
(* One request of the operator against any passes of discovery, on two groups *)
(* that may be registered by either from the start, with a restart at any      *)
(* point.  Two tasks hold at most three generations at once, so the fourth is  *)
(* always free.                                                                *)
EXTENDS Registry

CONSTANTS g1, g2, c1, w1, w2, w3, w4
=============================================================================
