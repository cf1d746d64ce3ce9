-------------------------------- MODULE Desk --------------------------------
(***************************************************************************)
(* The two halves of the desk that share nothing but the event group: the   *)
(* feed that publishes opportunities (QuoteFeed) and the account whose      *)
(* tickets, settlements and reports they lead to (Reports, over Ledger).    *)
(* What joins them, a ticket priced from the book, is PaperBroker's; here   *)
(* one of the two runs.                                                     *)
(***************************************************************************)
EXTENDS QuoteFeed, Reports

VARIABLE running   \* which of the two runs

deskVars == <<running, feedVars, reportsVars>>

\* The account's run leaves the feed alone, in one of its initial states.
DeskInit ==
  /\ running \in {"feed", "account"}
  /\ FeedInit
  /\ running = "account" => polled /\ resting = EmptyLadder
  /\ ReportsInit

DeskNext ==
  /\ UNCHANGED running
  /\ \/ running = "feed" /\ FeedNext /\ UNCHANGED reportsVars
     \/ running = "account" /\ ReportsNext /\ UNCHANGED feedVars

DeskSpec == DeskInit /\ [][DeskNext]_deskVars

\* Every variable of the feed and of the account is of its kind in every
\* reachable state: the queue within its limit, cash never below zero.
DeskTypeOK == FeedTypeOK /\ LedgerTypeOK /\ PageTypeOK
=============================================================================
