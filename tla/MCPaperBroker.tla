---------------------------- MODULE MCPaperBroker ----------------------------
(* One game on two venues, with the fee coefficients of shared/fees.py.  A   *)
(* dollar is 10000 units, so that every fee of these instances is a whole    *)
(* number of units.                                                          *)
EXTENDS PaperBroker

CONSTANTS default, kalshi, polymarket, kYes, kNo, pLong, pShort

MCVenueOf == [o \in Outcomes |-> IF o \in {kYes, kNo} THEN kalshi ELSE polymarket]
MCSides   == [o \in Outcomes |-> o \in {kYes, pLong}]
MCFeeRate == [v \in Venues |-> IF v = kalshi THEN 7 ELSE 6]
=============================================================================
