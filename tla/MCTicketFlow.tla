----------------------------- MODULE MCTicketFlow -----------------------------
(* An operator's clicks and two runs of the auto-trader on one pair, with a    *)
(* reset of the account in between.                                            *)
EXTENDS TicketFlow

CONSTANTS c1, c2, a1, a2
=============================================================================
