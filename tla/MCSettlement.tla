----------------------------- MODULE MCSettlement -----------------------------
(* The YES leg of one game on Kalshi and its NO leg on Polymarket.            *)
EXTENDS Settlement

CONSTANTS kYes, pShort

MCOneLeg == <<kYes>>
MCLegOrder == <<kYes, pShort>>
MCSides == [l \in Legs |-> l = kYes]
=============================================================================
