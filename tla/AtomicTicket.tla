---------------------------- MODULE AtomicTicket ----------------------------
(***************************************************************************)
(* What the router promises of a ticket, with no commit, book, limit or     *)
(* rollback in it: both legs at once, one of each side, for less than the   *)
(* pair will pay ("no naked leg", _commit_atomically); and what settlement  *)
(* and the sweep may do to the accounts besides.  PaperBroker implements it *)
(* (RefinesAtomicTicket).                                                   *)
(***************************************************************************)
EXTENDS Integers

CONSTANTS Accounts, Venues, Outcomes, VenueOf, IsYesSide, Unit, StartCash, Resolutions

VARIABLES
  cash,     \* free cash per account and venue
  qty,      \* contracts held per account and outcome
  yesPays,  \* environment: what a YES contract resolves to
  settled   \* outcomes settled so far

ticketVars == <<cash, qty, yesPays, settled>>

Init ==
  /\ cash = [a \in Accounts |-> [v \in Venues |-> StartCash]]
  /\ qty = [a \in Accounts |-> [o \in Outcomes |-> 0]]
  /\ yesPays \in Resolutions
  /\ settled = {}

\* Both legs, `bought` contracts of each, for less than a dollar a pair; no
\* other cash moves, and none of it below zero.
FillTicket(a, y, n) ==
  LET bought  == qty'[a][y] - qty[a][y]
      paid(v) == cash[a][v] - cash'[a][v]
      vy == VenueOf[y]
      vn == VenueOf[n]
  IN /\ settled = {}
     /\ IsYesSide[y] /\ ~IsYesSide[n]
     /\ qty' = [qty EXCEPT ![a] = [qty[a] EXCEPT ![y] = qty[a][y] + bought,
                                                 ![n] = qty[a][n] + bought]]
     /\ cash' = [cash EXCEPT ![a] = [cash[a] EXCEPT ![vy] = cash'[a][vy],
                                                    ![vn] = cash'[a][vn]]]
     /\ \A v \in {vy, vn} : paid(v) >= 0 /\ cash'[a][v] >= 0
     /\ (IF vy = vn THEN paid(vy) ELSE paid(vy) + paid(vn)) < Unit * bought
     /\ UNCHANGED <<yesPays, settled>>

ResolvedValue(o) == IF IsYesSide[o] THEN yesPays ELSE Unit - yesPays

\* Whoever holds the outcome is paid for it, once.
SettleOutcome(o) ==
  /\ o \notin settled
  /\ settled' = settled \cup {o}
  /\ qty' = [a \in Accounts |-> [qty[a] EXCEPT ![o] = 0]]
  /\ cash' = [a \in Accounts |->
                [cash[a] EXCEPT ![VenueOf[o]] = @ + ResolvedValue(o) * qty[a][o]]]
  /\ UNCHANGED yesPays

\* Cash changes venue and none is lost.
Sweep(a, from, to) ==
  LET moved == cash[a][from] - cash'[a][from]
  IN /\ from # to
     /\ moved > 0
     /\ cash'[a][from] >= 0
     /\ cash' = [cash EXCEPT ![a] = [cash[a] EXCEPT ![from] = cash[a][from] - moved,
                                                    ![to] = cash[a][to] + moved]]
     /\ UNCHANGED <<qty, yesPays, settled>>

Next ==
  \/ \E a \in Accounts, y, n \in Outcomes : FillTicket(a, y, n)
  \/ \E o \in Outcomes : SettleOutcome(o)
  \/ \E a \in Accounts, from, to \in Venues : Sweep(a, from, to)

Spec == Init /\ [][Next]_ticketVars
=============================================================================
