------------------------------- MODULE MCDesk -------------------------------
(* One game: both legs of a Kalshi market, one of a Polymarket US market. *)
EXTENDS Desk

CONSTANTS kalshi, polymarket, kYes, kNo, pShort, t1, t2

MCVenueOf  == [o \in Outcomes |-> IF o = pShort THEN polymarket ELSE kalshi]
MCIsYes    == [o \in Outcomes |-> o = kYes]
MCPosition == [o \in Outcomes |-> CASE o = kYes -> 0 [] o = kNo -> 1 [] o = pShort -> 2]
MCFeeRate  == [v \in Venues |-> IF v = kalshi THEN 7 ELSE 6]

\* The feed.  A book with nothing asked and the size of its bids unknown, and a
\* crossed one.
MCLadderPrices == [side \in Sides |-> IF side = "yes" THEN {} ELSE {6}]
MCPmBooks == {[bid |-> 5, ask |-> Missing, bidSize |-> Unknown, askSize |-> 0],
              [bid |-> 6, ask |-> 4, bidSize |-> 1, askSize |-> 1]}

\* Quotes pushed by hand, of a Kalshi leg and of the other venue's.
MCPushed == [o \in Outcomes |->
               CASE o = kYes -> {[ask |-> 4, size |-> 1]}
                 [] o = kNo -> {}
                 [] o = pShort -> {[ask |-> 5, size |-> Unknown]}]

\* The account.  Two tickets of the same second, at different prices.
MCTickets == <<t1, t2>>
MCPair   == <<kYes, pShort>>
MCAsk    == [t \in Tickets |-> [o \in Outcomes |-> IF t = t1 /\ o = pShort THEN 5 ELSE 4]]
MCAt     == [t \in Tickets |-> 7]
MCRank   == [t \in Tickets |-> IF t = t1 THEN 1 ELSE 2]
MCLeague == [t \in Tickets |-> IF t = t1 THEN "mlb" ELSE "atp"]
=============================================================================
