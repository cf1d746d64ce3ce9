------------------------------ MODULE Reports ------------------------------
(***************************************************************************)
(* What the account pages say of the ledger: the queries over tickets,      *)
(* orders, fills and settlements (db/repositories.py), the dashboard        *)
(* figures (backend/performance.py) and the paging of the ticket log        *)
(* (backend/app.py).  The same figure is computed in several places, in SQL *)
(* and in Python, from rows that are being written: the dashboard reads its *)
(* tables in statements it awaits one by one, in a session without snapshot *)
(* isolation, and whatever lands between two of them is on one side only.   *)
(***************************************************************************)
EXTENDS Ledger, Functions

CONSTANTS
  Excluded,     \* tickets withheld by hand (excluded_reason)
  SubmittedAt,  \* a ticket's submitted_at, one second for several of them
  IdRank,       \* the order of ticket ids
  League,       \* the sport a ticket's group id parses to
  CurvePoints,  \* _MAX_CURVE_POINTS
  MaxMeanwhile  \* bound: steps of the account while one page is read

ASSUME ReportsAssumption ==
  /\ Excluded \subseteq Tickets
  /\ SubmittedAt \in [Tickets -> Nat]
  /\ IdRank \in [Tickets -> Nat]
  /\ \A t, u \in Tickets : IdRank[t] = IdRank[u] => t = u
  /\ CurvePoints \in Nat \ {0}
  /\ MaxMeanwhile \in Nat

VARIABLES
  reading,    \* what paper_performance awaits next
  scalars,    \* the status of each ticket, as paper_ticket_scalars read it
  seen,       \* the tables of list_paper_tickets, each as its statement read it
  withheld,   \* the tickets count_excluded_tickets counted
  meanwhile   \* steps of the account since the page was begun

pageVars == <<reading, scalars, seen, withheld, meanwhile>>
reportsVars == <<ledgerVars, pageVars>>

-----------------------------------------------------------------------------
(* Queries.                                                                 *)

\* SUM over the rows of a query, sum() over a list.
Total(f) == SumFunctionOnSet(f, DOMAIN f)

TicketStatuses == {"pending", "filled", "rejected", "missed"}
TradedStatuses == {"filled", "pending"}
NeverTraded    == {"rejected", "missed"}

ASSUME StatusAssumption == NoRow \notin TicketStatuses

Status(t) == seen[TicketRow(t)]

\* _ticket_filters.
Population(statuses) == {t \in Tickets \ Excluded : Status(t) \in statuses}

\* The legs list_paper_tickets hydrates, and what each of them brought.
LegsOf(t)   == {o \in Traded : seen[OrderRow(t, o)] # NoRow}
Filled(t)   == {o \in LegsOf(t) : seen[FillRow(t, o)] # NoRow}
Resolved(t) == {o \in Filled(t) : seen[SettlementRow(o)] # NoRow}
Cost(t, o)  == seen[FillRow(t, o)].price + seen[FillRow(t, o)].fee
Gain(t, o)  == seen[SettlementRow(o)] - Cost(t, o)

\* _score_ticket: None while a leg is unsettled, or when there is none.
Score(t) == IF LegsOf(t) = {} \/ Resolved(t) # LegsOf(t) THEN NoRow
            ELSE Total([o \in LegsOf(t) |-> Gain(t, o)])

BySign(n) == IF n > 0 THEN "won" ELSE IF n < 0 THEN "lost" ELSE "flat"

\* The outer joins of ticket_outcomes and count_open_paper_tickets: a row per
\* order of the ticket, or one without an order.
Joined(t) == IF LegsOf(t) = {} THEN {NoRow} ELSE LegsOf(t)
JoinedOpen(t) ==
  \E o \in Joined(t) :
    \/ o = NoRow
    \/ seen[FillRow(t, o)] = NoRow
    \/ seen[SettlementRow(o)] = NoRow

\* ticket_outcomes, the ledger's filter.
FilteredOutcome(t) ==
  IF JoinedOpen(t) THEN "open"
  ELSE BySign(Total([o \in Joined(t) |-> Gain(t, o)]))

\* count_open_paper_tickets, the account strip, which withholds nothing.
CountOpen == Cardinality({t \in Tickets : Status(t) = "filled" /\ JoinedOpen(t)})

\* count_paper_tickets and list_paper_tickets under an outcome filter.
Matching(outcome) ==
  IF outcome = "none" THEN Population(NeverTraded)
  ELSE {t \in Population({"filled"}) : FilteredOutcome(t) = outcome}

Hydrated == Population(TradedStatuses)

-----------------------------------------------------------------------------
(* The dashboard, one awaited statement after the other.                    *)

Unread == [r \in Rows |-> NoRow]
AsRead(table) == [r \in Rows |-> IF r[1] = table THEN store[r] ELSE seen[r]]

ReportsInit ==
  /\ LedgerInit
  /\ reading = "none"
  /\ scalars = [t \in Tickets |-> NoRow]
  /\ seen = Unread
  /\ withheld = {}
  /\ meanwhile = 0

ReadScalars ==
  /\ reading = "none"
  /\ reading' = "tickets"
  /\ scalars' = [t \in Tickets |-> store[TicketRow(t)]]
  /\ UNCHANGED <<seen, withheld, meanwhile>>

\* list_paper_tickets: with no ticket it returns, with no order it has no fill
\* to ask for.
ReadTickets ==
  /\ reading = "tickets"
  /\ seen' = AsRead("ticket")
  /\ reading' = IF Hydrated' = {} THEN "excluded" ELSE "orders"
  /\ UNCHANGED <<scalars, withheld, meanwhile>>

ReadOrders ==
  /\ reading = "orders"
  /\ seen' = AsRead("order")
  /\ reading' = IF \A t \in Hydrated : LegsOf(t)' = {} THEN "settlements" ELSE "fills"
  /\ UNCHANGED <<scalars, withheld, meanwhile>>

ReadFills ==
  /\ reading = "fills"
  /\ seen' = AsRead("fill")
  /\ reading' = "settlements"
  /\ UNCHANGED <<scalars, withheld, meanwhile>>

ReadSettlements ==
  /\ reading = "settlements"
  /\ seen' = AsRead("settlement")
  /\ reading' = "excluded"
  /\ UNCHANGED <<scalars, withheld, meanwhile>>

\* count_excluded_tickets, after which the figures are made of what was read.
ReadExcluded ==
  /\ reading = "excluded"
  /\ withheld' = {t \in Excluded : store[TicketRow(t)] # NoRow}
  /\ reading' = "answered"
  /\ UNCHANGED <<scalars, seen, meanwhile>>

\* The response is on its way.
Answer ==
  /\ reading = "answered"
  /\ reading' = "none"
  /\ scalars' = [t \in Tickets |-> NoRow]
  /\ seen' = Unread
  /\ withheld' = {}
  /\ meanwhile' = 0

PageNext ==
  \/ ReadScalars \/ ReadTickets \/ ReadOrders \/ ReadFills
  \/ ReadSettlements \/ ReadExcluded \/ Answer

\* The account does not wait for the page; only the figures are made of what
\* was read without another await.
AccountNext ==
  /\ reading # "answered"
  /\ LedgerNext
  /\ IF reading = "none" THEN UNCHANGED meanwhile
     ELSE meanwhile < MaxMeanwhile /\ meanwhile' = meanwhile + 1
  /\ UNCHANGED <<reading, scalars, seen, withheld>>

ReportsNext == AccountNext \/ (PageNext /\ UNCHANGED ledgerVars)
ReportsSpec == ReportsInit /\ [][ReportsNext]_reportsVars

-----------------------------------------------------------------------------
(* One page of the ticket log, newest first.                                *)

Newer(t, u) == \/ SubmittedAt[t] > SubmittedAt[u]
               \/ SubmittedAt[t] = SubmittedAt[u] /\ IdRank[t] > IdRank[u]

Page(S, limit) == {t \in S : Cardinality({u \in S : Newer(u, t)}) < limit}
LastOf(S) == CHOOSE t \in S : \A u \in S \ {t} : Newer(u, t)

\* The row-value comparison with the cursor.
AfterByTime(S, t) == {u \in S : SubmittedAt[t] > SubmittedAt[u]}
After(S, t) == {u \in S : Newer(t, u)}

\* What the next pages show of S, after a first page `shown`; a short page is
\* the last.
Remaining(shown, S, limit) == IF Cardinality(shown) = limit THEN After(S, LastOf(shown)) ELSE {}

-----------------------------------------------------------------------------
(* summarize.                                                               *)

\* ticket_outcome.
OutcomeOf(t) == IF Status(t) \in NeverTraded THEN "none"
                ELSE IF Score(t) = NoRow THEN "open" ELSE BySign(Score(t))
SettledTickets == {t \in Hydrated : OutcomeOf(t) \in {"won", "lost", "flat"}}
OpenTickets    == {t \in Hydrated : OutcomeOf(t) = "open"}

\* _Row: the economics of a ticket, zero standing for none where they are summed.
Capital(t)  == Total([o \in Filled(t) |-> Cost(t, o)])
Returned(t) == Total([o \in Resolved(t) |-> seen[SettlementRow(o)]])
Fees(t)     == Total([o \in Filled(t) |-> seen[FillRow(t, o)].fee])

\* A matched pair pays a dollar a contract whoever wins.
IsMatched(t) == Cardinality(Filled(t)) >= 2
SettlementValue(t) == Payout - Capital(t)

RealizedNet       == Total([t \in SettledTickets |-> Score(t)])
FeesPaid        == Total([t \in SettledTickets |-> Fees(t)])
GrossProfit     == RealizedNet + FeesPaid
CapitalDeployed == Total([t \in Hydrated |-> Capital(t)])
CapitalReturned == Total([t \in SettledTickets |-> Returned(t)])
OpenExposure    == Total([t \in OpenTickets |-> Capital(t)])

\* _accrual_curve: the running total of the matched pairs, one point in so
\* many, the last always.  The sort is by submitted_at alone and stable, over
\* rows that came newest first.
MatchedTickets == {t \in Hydrated : IsMatched(t)}
AccrualTotal == Total([t \in MatchedTickets |-> SettlementValue(t)])
Precedes(u, t) == \/ SubmittedAt[u] < SubmittedAt[t]
                  \/ SubmittedAt[u] = SubmittedAt[t] /\ IdRank[u] > IdRank[t]
IndexOf(t) == Cardinality({u \in MatchedTickets : Precedes(u, t)})
Step == LET n == Cardinality(MatchedTickets) \div CurvePoints IN IF n > 1 THEN n ELSE 1
Plotted == {t \in MatchedTickets : \/ IndexOf(t) % Step = 0
                                   \/ IndexOf(t) = Cardinality(MatchedTickets) - 1}
TotalAt(t) ==
  LET soFar == {u \in MatchedTickets : u = t \/ Precedes(u, t)}
  IN  Total([u \in soFar |-> SettlementValue(u)])

\* quantize(_CENTS): to the nearest cent, a half to the even one.
Cent == Unit * Unit
Quantized(money) ==
  LET cents == money \div Cent
      over  == 2 * (money % Cent)
  IN  Cent * (IF over > Cent \/ (over = Cent /\ cents % 2 = 1) THEN cents + 1 ELSE cents)
AccrualCurve == IF Cardinality(MatchedTickets) < 2 THEN {}
                ELSE {<<IndexOf(t), Quantized(TotalAt(t))>> : t \in Plotted}

\* _by_venue.
LegsTraded(v) == {p \in Hydrated \X Traded : VenueOf[p[2]] = v /\ p[2] \in Filled(p[1])}
LegsPaid(v)   == {p \in LegsTraded(v) : p[2] \in Resolved(p[1])}
Deployed(v)    == Total([p \in LegsTraded(v) |-> Cost(p[1], p[2])])
StillOpen(v)   == Total([p \in LegsTraded(v) \ LegsPaid(v) |-> Cost(p[1], p[2])])
VenueNet(v)    == Total([p \in LegsPaid(v) |-> Gain(p[1], p[2])])

\* _activity, _outcome_mix and _group_by: the counts range over the tickets
\* the scalars had, the economics over those that traded.
Attempts == {t \in Tickets \ Excluded : scalars[t] \in TicketStatuses}
CountOf(status) == Cardinality({t \in Attempts : scalars[t] = status})
Attempted == Cardinality(Attempts)
MixOfRows(outcome) == Cardinality({t \in Population(TicketStatuses) : OutcomeOf(t) = outcome})
MixOf(outcome) == IF outcome = "none" THEN CountOf("rejected") + CountOf("missed")
                  ELSE Cardinality({t \in Hydrated : OutcomeOf(t) = outcome})
Leagues == {League[t] : t \in Attempts}
LeagueCount(l) == Cardinality({t \in Attempts : League[t] = l})
LeagueNet(l) ==
  LET mine == {t \in SettledTickets : League[t] = l} IN Total([t \in mine |-> Score(t)])

-----------------------------------------------------------------------------
(* Properties.                                                              *)

\* "so the two can never disagree" (count_open_paper_tickets): whatever the
\* rows are, those of one moment, also between a ticket's own writes, or of
\* several, the strip's count, the ledger's filter and the score of a filled
\* ticket say the same of it.
OutcomesAgree ==
  /\ CountOpen = Cardinality({t \in Tickets : Status(t) = "filled" /\ Score(t) = NoRow})
  /\ \A t \in Population({"filled"}) : FilteredOutcome(t) = OutcomeOf(t)
  /\ \A outcome \in {"won", "lost", "flat"} :
       Matching(outcome) \subseteq {t \in Hydrated : OutcomeOf(t) = outcome}

\* Between the two readings of the tickets some may have come, and some that
\* were pending have been refused, or been erased.
Answered == reading = "answered"
Came == Hydrated \ Attempts
Gone == {t \in Attempts : scalars[t] \in TradedStatuses} \ Hydrated

\* A page whose statements saw different moments is off by what happened
\* between them and by nothing else: a ticket that had its outcome keeps it or
\* is erased, so none is in two slices of the mix; the slices add up to the
\* attempts but for the tickets that came or are gone; the leagues add up to
\* the attempts, and the excluded tickets are what is missing from them.
CountsReconcile ==
  /\ \A t \in Tickets : scalars[t] \in {"filled", "rejected", "missed"} =>
       Status(t) \in {scalars[t], NoRow}
  /\ Total([outcome \in {"won", "open", "lost", "flat", "none"} |-> MixOf(outcome)])
       + Cardinality(Gone) = Attempted + Cardinality(Came)
  /\ Total([l \in Leagues |-> LeagueCount(l)]) = Attempted
  /\ withheld = {t \in Excluded : scalars[t] # NoRow} =>
       Attempted + Cardinality(withheld) = Cardinality({t \in Tickets : scalars[t] # NoRow})

\* The figures of one response agree, once anything was bought: what the
\* venues deployed is the capital, what is open at them belongs to the open
\* tickets, their nets add up to the header's, the leagues' too unless a
\* settled ticket came after the leagues were counted, and the header is the
\* curve's last point to the cent.
FiguresReconcile ==
  (\E t \in Hydrated : Filled(t) # {}) =>
    /\ Total([v \in Venues |-> Deployed(v)]) = CapitalDeployed
    /\ Total([v \in Venues |-> StillOpen(v)]) <= OpenExposure
    /\ OpenTickets = {} => Total([v \in Venues |-> VenueNet(v)]) = RealizedNet
    /\ Came \cap SettledTickets = {} => Total([l \in Leagues |-> LeagueNet(l)]) = RealizedNet
    /\ GrossProfit - FeesPaid = CapitalReturned - (CapitalDeployed - OpenExposure)
    /\ AccrualCurve # {} =>
         \E p \in AccrualCurve : /\ p[2] = Quantized(AccrualTotal)
                                /\ \A r \in AccrualCurve : r[1] <= p[1]

\* A log paged through while it is written to (list_paper_tickets): with a
\* first page of the tickets there were at one moment and the rest of those of
\* a later one, no ticket is on two pages and none that was there both times
\* is on no page, whichever of them were submitted in the same second.
PagesPartition ==
  \A limit \in 1..Cardinality(Tickets) :
    LET shown == Page(Attempts, limit)
        rest  == Remaining(shown, Population(TicketStatuses), limit)
    IN /\ shown \cap rest = {}
       /\ Attempts \cap Population(TicketStatuses) \subseteq shown \cup rest

\* The audit trail explains the account: when nothing was given up, overtaken
\* or reset under way, and nothing was bought of a leg already settled, a
\* venue's cash is its seed, less its fills, with its
\* payouts and its transfers, and what the settled tickets of a page as new as
\* the rows netted is what the brokers realized (PaperTransfer's and
\* _score_ticket's docstrings).
OrZero(x) == IF x = NoRow THEN 0 ELSE x
Bought(v) == {p \in Tickets \X OnVenue(v) : store[OrderRow(p[1], p[2])] # NoRow
                                           /\ store[FillRow(p[1], p[2])] # NoRow}
PaidOut(v) == {p \in Bought(v) : store[SettlementRow(p[2])] # NoRow}
Explained(v) ==
  Seed - Total([p \in Bought(v) |-> store[FillRow(p[1], p[2])].price
                                     + store[FillRow(p[1], p[2])].fee])
       + Total([p \in PaidOut(v) |-> store[SettlementRow(p[2])]])
       + OrZero(store[TransferRow(v)])
Current ==
  \A r \in Rows : r[1] \in {"ticket", "order", "fill", "settlement"} => seen[r] = store[r]
AuditExplainsCash ==
  /\ Quiet /\ clean /\ suspect = {}
  /\ \A o \in Traded : store[SettlementRow(o)] # NoRow => position[o].qty = 0
  =>
    /\ \A v \in Venues : store[BalanceRow(v)] = Explained(v)
    /\ Answered /\ Current /\ (\A o \in Traded : position[o].qty = 0) /\ Excluded = {} =>
         RealizedNet = Total([o \in Traded |-> position[o].realized])

\* Every part of a page under way is of its kind.
PageTypeOK ==
  /\ reading \in {"none", "tickets", "orders", "fills", "settlements", "excluded", "answered"}
  /\ \A t \in Tickets : scalars[t] \in TicketStatuses \cup {NoRow}
  /\ DOMAIN seen = Rows
  /\ withheld \subseteq Excluded
  /\ meanwhile \in 0..MaxMeanwhile

\* What a page answers agrees with itself, the log with its own pages, and the
\* rows with the account.
ReportsAgree ==
  /\ Answered => /\ OutcomesAgree
                 /\ CountsReconcile
                 /\ FiguresReconcile
                 /\ PagesPartition
  /\ AuditExplainsCash
=============================================================================
