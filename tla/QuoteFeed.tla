------------------------------ MODULE QuoteFeed ------------------------------
(***************************************************************************)
(* From a venue's book to a live opportunity: the Kalshi socket and its     *)
(* ladders (adapters/kalshi_ws.py), the pollers (adapters/kalshi.py,        *)
(* adapters/polymarket_us.py), the quote book, the engine's callback, the   *)
(* set of live opportunities and one /ws/opportunities subscriber.          *)
(*                                                                          *)
(* One Kalshi market and one Polymarket US market make the event group.     *)
(* Time is the age of what the book holds: a tick is longer than the        *)
(* regression tolerance, MaxAge of them pass before a quote is withheld.    *)
(***************************************************************************)
EXTENDS Detector, Sequences

CONSTANTS
  Kalshi,       \* the venue whose ladders are kept here
  LadderPrices, \* per ladder, the prices at which the venue may hold a bid
  MaxLots,      \* bound: lots at one level
  PmBooks,      \* the tops of book the other venue may show
  PushedQuotes, \* per outcome, what is pushed by hand
  SourceAges,   \* how far behind a frame's own timestamp may be, in ticks
  Tolerance,    \* REGRESSION_TOLERANCE_S, in ticks
  MaxAge,       \* the age past which the book withholds a quote, in ticks
  QueueMax,     \* a subscriber queue's maxsize (100)
  CrossVenueOnly, \* ARBYS_CROSS_VENUE_ONLY
  MaxFrames     \* bound: frames on the wire

Sides == {"yes", "no"}
Opposite(side) == IF side = "yes" THEN "no" ELSE "yes"
Missing == -1   \* a side of the other venue's book with nothing resting

ASSUME FeedAssumption ==
  /\ LadderPrices \in [Sides -> SUBSET (1..(Unit - 1))]
  /\ MaxLots \in Nat \ {0}
  /\ PushedQuotes \in [Outcomes -> SUBSET [ask : 0..Unit, size : Nat \cup {Unknown}]]
  /\ PmBooks \subseteq [bid : 0..Unit \cup {Missing}, ask : 0..Unit \cup {Missing},
                        bidSize : Nat \cup {Unknown}, askSize : Nat \cup {Unknown}]
  /\ SourceAges \subseteq 0..(MaxAge + 1)
  /\ Tolerance \in Nat
  /\ MaxAge \in Nat
  /\ QueueMax \in Nat \ {0}
  /\ CrossVenueOnly \in BOOLEAN
  /\ MaxFrames \in Nat \ {0}

\* Both outcomes of the Kalshi market are legs of the group.
ASSUME LegsAssumption ==
  /\ IsFiniteSet(Outcomes)
  /\ \A side \in Sides :
       \E o \in Outcomes : VenueOf[o] = Kalshi /\ IsYesSide[o] = (side = "yes")

VARIABLES
  resting,    \* environment: the lots bid at each level at Kalshi
  polled,     \* no credentials: Kalshi is polled instead of streamed
  connected,  \* the socket is up
  frames,     \* the frames on the wire, oldest first
  ladder,     \* the _MarketBook of the ticker
  inHand,     \* outcomes whose quotes the pump has still to put in the book
  book,       \* the quote book: per outcome a quote and its age
  pushing,    \* POST /quotes handlers awaiting their database writes
  unevaluated,\* a POST /quotes put a quote in the book and nothing was told yet
  byHand,     \* history: Kalshi sides whose quote in the book was pushed
  offers,     \* _opps_by_group: the group's live opportunities
  listening,  \* a /ws/opportunities client is subscribed
  queue,      \* its queue
  told,       \* history: live opportunities it was sent since they went live
  missed      \* history: live opportunities it was not to be sent

socket == <<connected, frames, ladder, inHand>>
push   == <<pushing, unevaluated, byHand>>
subscriber == <<listening, queue, told, missed>>
feedVars == <<resting, polled, socket, book, push, offers, subscriber>>

-----------------------------------------------------------------------------
(* Quotes.                                                                  *)

Levels == [yes : [LadderPrices["yes"] -> 0..MaxLots], no : [LadderPrices["no"] -> 0..MaxLots]]
EmptyLadder == [side \in Sides |-> [price \in LadderPrices[side] |-> 0]]
Bids(levels, side) == {price \in LadderPrices[side] : levels[side][price] > 0}

Highest(S) == CHOOSE x \in S : \A y \in S : y <= x

\* A YES bid and a NO bid that make a dollar would have traded.
Uncrossed(levels) ==
  \A x \in Bids(levels, "yes"), y \in Bids(levels, "no") : x + y < Unit

\* The ask of an outcome faces the best bid of the other ladder; with no bid
\* there, it is a dollar with nothing resting.
KalshiQuote(side, levels) ==
  LET bids == Bids(levels, Opposite(side))
  IN IF bids = {} THEN QuoteOf(Unit, 0)
     ELSE QuoteOf(Unit - Highest(bids), levels[Opposite(side)][Highest(bids)])

KalshiLeg ==
  [side \in Sides |->
     CHOOSE o \in Outcomes : VenueOf[o] = Kalshi /\ IsYesSide[o] = (side = "yes")]
PmLegs == {o \in Outcomes : VenueOf[o] # Kalshi}

\* _pair_to_quotes.  The short side is the complement of the long; a side
\* with nothing resting is quoted at the other's price with size zero; an
\* empty or a crossed book quotes nothing.
PmQuote(o, b) ==
  LET bid == IF b.bid = Missing THEN b.ask ELSE b.bid
      ask == IF b.ask = Missing THEN b.bid ELSE b.ask
      bidSize == IF b.bid = Missing THEN 0 ELSE b.bidSize
      askSize == IF b.ask = Missing THEN 0 ELSE b.askSize
  IN IF bid = Missing \/ bid > ask THEN NoQuote
     ELSE IF IsYesSide[o] THEN QuoteOf(ask, askSize) ELSE QuoteOf(Unit - bid, bidSize)

NoEntry == [quote |-> NoQuote, age |-> MaxAge + 1]
Fresh(o) == book[o].age <= MaxAge

\* QuoteBook.upsert: aged from when the venue said the book was current, and
\* refused when that is materially older than what is held.
Upserted(o, q, age) ==
  IF age > book[o].age + Tolerance THEN book
  ELSE [book EXCEPT ![o] = [quote |-> q, age |-> age]]

\* QuoteBook.get, for each leg of the group.
GetFrom(b) == [o \in Outcomes |-> IF b[o].age <= MaxAge THEN b[o].quote ELSE NoQuote]

-----------------------------------------------------------------------------
FeedInit ==
  /\ resting \in {levels \in Levels : Uncrossed(levels)}
  /\ polled \in BOOLEAN
  /\ connected = FALSE
  /\ frames = <<>>
  /\ ladder = EmptyLadder
  /\ inHand = <<>>
  /\ book = [o \in Outcomes |-> NoEntry]
  /\ pushing = FALSE
  /\ unevaluated = FALSE
  /\ byHand = {}
  /\ offers = {}
  /\ listening = FALSE
  /\ queue = <<>>
  /\ told = {}
  /\ missed = {}

\* The pump is not between the two quotes of one frame.
LoopFree == inHand = <<>>

-----------------------------------------------------------------------------
(* EngineRuntime._evaluate and AppState._set_group_opportunities.           *)

\* What is broadcast: the offers that were not in the set, byte for byte.
NewsByLegs(found) == {f \in found : \A o \in offers : o.legs # f.legs}
News(found) == found \ offers

\* What the group holds from now on: an evaluation that finds nothing empties it.
LiveAfterKeepingLast(found) == IF found = {} THEN offers ELSE found
LiveAfter(found) == found

\* put_nowait on the subscriber's queue; a full queue drops.
RoomFor(news) ==
  {sent \in SUBSET news :
     Cardinality(sent) = IF Cardinality(news) <= QueueMax - Len(queue)
                         THEN Cardinality(news) ELSE QueueMax - Len(queue)}
Ordered(S) == {s \in [1..Cardinality(S) -> S] : \A x \in S : \E i \in DOMAIN s : s[i] = x}

\* The group is evaluated against the book as it now is.
Evaluate(newBook) ==
  LET found == Offers(GetFrom(newBook), CrossVenueOnly)
      news  == News(found)
  IN /\ book' = newBook
     /\ offers' = LiveAfter(found)
     /\ unevaluated' = FALSE
     /\ told' = told \cap found
     /\ IF listening
        THEN \E sent \in RoomFor(news) :
               /\ \E s \in Ordered(sent) : queue' = queue \o s
               /\ missed' = (missed \cap found) \cup (news \ sent)
        ELSE UNCHANGED <<queue, missed>>
     /\ UNCHANGED listening

-----------------------------------------------------------------------------
(* The Kalshi socket.                                                       *)

Snapshot(levels) == [type |-> "snapshot", levels |-> levels]
Delta(side, price, change) ==
  [type |-> "delta", side |-> side, price |-> price, change |-> change]

\* Bids come to rest at the venue or are taken; a subscribed socket is sent
\* the change.
VenueMoves(side, price, left) ==
  LET change == left - resting[side][price]
  IN /\ LoopFree
     /\ connected => Len(frames) < MaxFrames
     /\ change # 0
     /\ resting' = [resting EXCEPT ![side][price] = left]
     /\ Uncrossed(resting')
     /\ frames' = IF connected THEN Append(frames, Delta(side, price, change)) ELSE frames
     /\ UNCHANGED <<polled, connected, ladder, inHand, book, push, offers, subscriber>>

\* _connect_and_stream: the subscription is answered with a snapshot.
Connect ==
  /\ LoopFree
  /\ ~polled /\ ~connected
  /\ connected' = TRUE
  /\ frames' = <<Snapshot(resting)>>
  /\ UNCHANGED <<resting, polled, ladder, inHand, book, push, offers, subscriber>>

\* The socket drops: what was on the wire is gone, the ladders stay.
Disconnect ==
  /\ LoopFree
  /\ connected
  /\ connected' = FALSE
  /\ frames' = <<>>
  /\ UNCHANGED <<resting, polled, ladder, inHand, book, push, offers, subscriber>>

\* restart_ingest builds a new adapter; the book and the offers outlive it.
RestartFeed ==
  /\ LoopFree
  /\ ~polled
  /\ connected' = FALSE
  /\ frames' = <<>>
  /\ ladder' = EmptyLadder
  /\ UNCHANGED <<resting, polled, inHand, book, push, offers, subscriber>>

\* apply_snapshot replaces both ladders, apply_delta adds to one level, which
\* goes when nothing is left at it.
ChangedBy(frame) ==
  LET lots == ladder[frame.side][frame.price] + frame.change
  IN  [ladder EXCEPT ![frame.side][frame.price] = IF lots <= 0 THEN 0 ELSE lots]
AppliedMerging(frame) ==
  IF frame.type = "delta" THEN ChangedBy(frame)
  ELSE [side \in Sides |-> [price \in LadderPrices[side] |->
          IF frame.levels[side][price] > 0 THEN frame.levels[side][price]
          ELSE ladder[side][price]]]
Applied(frame) == IF frame.type = "delta" THEN ChangedBy(frame) ELSE frame.levels

\* _handle_message: the ladder moves, and both outcomes are quoted from it.
ReadFrame ==
  /\ LoopFree
  /\ frames # <<>>
  /\ ladder' = Applied(Head(frames))
  /\ frames' = Tail(frames)
  /\ inHand' = <<"yes", "no">>
  /\ UNCHANGED <<resting, polled, connected, book, push, offers, subscriber>>

\* IngestWorker._pump: each quote goes to the book, then to the engine.
PumpQuote ==
  /\ inHand # <<>>
  /\ LET side == Head(inHand)
         leg  == KalshiLeg[side]
     IN Evaluate(Upserted(leg, KalshiQuote(side, ladder), 0))
  /\ inHand' = Tail(inHand)
  /\ byHand' = byHand \ {Head(inHand)}
  /\ UNCHANGED <<resting, polled, connected, frames, ladder, pushing>>

-----------------------------------------------------------------------------
(* The other sources of quotes.                                             *)

\* KalshiAdapter.stream_quotes: one outcome's order book, read as it stands.
PollKalshi(side) ==
  /\ polled
  /\ Evaluate(Upserted(KalshiLeg[side], KalshiQuote(side, resting), 0))
  /\ byHand' = byHand \ {side}
  /\ UNCHANGED <<resting, polled, socket, pushing>>

\* A Polymarket US quote comes off its queue or a poll: the book a frame
\* carried, as old as the frame said, a replayed snapshot older than most.
QuoteArrives(o) ==
  /\ LoopFree
  /\ \E b \in PmBooks, age \in SourceAges :
       /\ PmQuote(o, b) # NoQuote
       /\ Evaluate(Upserted(o, PmQuote(o, b), age))
  /\ UNCHANGED <<resting, polled, socket, pushing, byHand>>

\* push_quote takes a quote of any outcome, of Kalshi's too: the book has it
\* at once, the engine hears of it only when the database does.
PushQuote(o) ==
  /\ LoopFree
  /\ ~pushing
  /\ \E q \in PushedQuotes[o] : book' = Upserted(o, q, 0)
  /\ pushing' = TRUE
  /\ unevaluated' = TRUE
  /\ byHand' = byHand \cup {side \in Sides : KalshiLeg[side] = o}
  /\ UNCHANGED <<resting, polled, socket, offers, subscriber>>

PushRecorded ==
  /\ LoopFree
  /\ pushing
  /\ pushing' = FALSE
  /\ Evaluate(book)
  /\ UNCHANGED <<resting, polled, socket, byHand>>

\* The writes raise: the quote stays in the book and the engine is not told.
PushFails ==
  /\ LoopFree
  /\ pushing
  /\ pushing' = FALSE
  /\ UNCHANGED <<resting, polled, socket, book, unevaluated, byHand, offers, subscriber>>

\* Time passes; everything in the book ages.
Ages ==
  /\ LoopFree
  /\ book' = [o \in Outcomes |->
                [book[o] EXCEPT !.age = IF @ <= MaxAge THEN @ + 1 ELSE @]]
  /\ book' # book
  /\ UNCHANGED <<resting, polled, socket, push, offers, subscriber>>

-----------------------------------------------------------------------------
(* The subscriber.                                                          *)

\* What is live when it subscribes is not replayed to it.
Subscribe ==
  /\ LoopFree
  /\ ~listening
  /\ listening' = TRUE
  /\ queue' = <<>>
  /\ told' = {}
  /\ missed' = offers
  /\ UNCHANGED <<resting, polled, socket, book, push, offers>>

Unsubscribe ==
  /\ LoopFree
  /\ listening
  /\ listening' = FALSE
  /\ queue' = <<>>
  /\ told' = {}
  /\ missed' = {}
  /\ UNCHANGED <<resting, polled, socket, book, push, offers>>

\* ws_opps sends the next opportunity, which may be gone by now.
Deliver ==
  /\ LoopFree
  /\ queue # <<>>
  /\ queue' = Tail(queue)
  /\ told' = told \cup ({Head(queue)} \cap offers)
  /\ UNCHANGED <<resting, polled, socket, book, push, offers,
                 listening, missed>>

-----------------------------------------------------------------------------
FeedNext ==
  \/ \E side \in Sides : \E price \in LadderPrices[side], left \in 0..MaxLots :
       VenueMoves(side, price, left)
  \/ Connect
  \/ Disconnect
  \/ RestartFeed
  \/ ReadFrame
  \/ PumpQuote
  \/ \E side \in Sides : PollKalshi(side)
  \/ \E o \in PmLegs : QuoteArrives(o)
  \/ \E o \in Outcomes : PushQuote(o)
  \/ PushRecorded
  \/ PushFails
  \/ Ages
  \/ Subscribe
  \/ Unsubscribe
  \/ Deliver

FeedSpec == FeedInit /\ [][FeedNext]_feedVars
-----------------------------------------------------------------------------
(* Properties.                                                              *)

AllQuotes == {q \in [ask : 0..(Unit + 1), size : Nat \cup {Unknown}] :
                q.ask <= Unit \/ q = NoQuote}

\* Every part of the feed is of its kind: a ladder holds the venue's levels,
\* the book's quotes are priced within a dollar, the queue within its limit.
FeedTypeOK ==
  /\ resting \in Levels
  /\ polled \in BOOLEAN
  /\ connected \in BOOLEAN
  /\ Len(frames) <= MaxFrames
  /\ ladder \in Levels
  /\ inHand \in {<<>>, <<"no">>, <<"yes", "no">>}
  /\ \A o \in Outcomes : book[o].quote \in AllQuotes /\ book[o].age \in 0..(MaxAge + 1)
  /\ pushing \in BOOLEAN
  /\ unevaluated \in BOOLEAN
  /\ byHand \subseteq Sides
  /\ Len(queue) <= QueueMax
  /\ told \subseteq offers
  /\ missed \subseteq offers

\* Once everything sent on the connection has been read, the ladder is the
\* venue's book, lot for lot, and the quote book prices both outcomes from it,
\* but for one that was pushed by hand after the last frame, however many times
\* the socket dropped and whatever the venue did meanwhile
\* (_MarketBook.apply_snapshot, "a reconnect").
LadderMirrorsVenue ==
  connected /\ frames = <<>> /\ LoopFree =>
    /\ ladder = resting
    /\ \A side \in Sides \ byHand :
         book[KalshiLeg[side]].quote = KalshiQuote(side, resting)

\* /opportunities is "live state, not history" (AppState.opportunities): it
\* misses nothing the detector finds at current quotes, and what it holds is
\* what the detector finds, unless a leg of it has gone stale since, or a
\* pushed quote has not reached the engine.
LegsFresh(offer) == \A i \in DOMAIN offer.legs : Fresh(offer.legs[i])
OffersMatchDetector ==
  LoopFree /\ ~unevaluated /\ (\A offer \in offers : LegsFresh(offer)) =>
    offers = Offers(GetFrom(book), CrossVenueOnly)

\* A subscriber is sent every opportunity that goes live while it listens,
\* each time it goes live, unless its queue was full at that moment
\* (_set_group_opportunities' fingerprints and put_nowait).
OffersHeard ==
  listening => \A offer \in offers :
    \/ \E i \in DOMAIN queue : queue[i] = offer
    \/ offer \in told
    \/ offer \in missed
=============================================================================
