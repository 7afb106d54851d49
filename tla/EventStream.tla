----------------------------- MODULE EventStream -----------------------------
(****************************************************************************)
(* The events of one conversation on their way to the browsers that show it: *)
(* the durable log of internal/store/events.go, the bus of                   *)
(* internal/events/bus.go that persists and fans out under one mutex, the    *)
(* SSE handler handleEvents of internal/httpapi/handlers_chat.go, the        *)
(* connection, and the EventSource of web/src/lib/useEvents.ts.              *)
(*                                                                           *)
(* A durable event is its seq; in a subscriber's buffer an ephemeral delta   *)
(* is 0 and a failure that cannot be replayed is -1.  On the connection only *)
(* durable events are kept: whether a failure was written is the flag owed.  *)
(*                                                                           *)
(* A definition whose name begins with Broken is the one below it with a     *)
(* plausible bug; PROJECT.json pairs it with the property that catches it.   *)
(****************************************************************************)
EXTENDS Integers, Sequences

CONSTANTS
  Clients,      \* pages that show the conversation
  Handlers,     \* requests to /events that run at one time (a bound)
  BufCap,       \* the buffer of a subscriber: 64 in the code
  MaxLog,       \* bound: durable events
  MaxDeltas,    \* bound: ephemeral events
  MaxFaults,    \* bound: store calls that fail
  MaxDrops,     \* bound: connections that break, by a reload or otherwise
  NoHandler

ASSUME StreamAssumption ==
  /\ NoHandler \notin Handlers
  /\ BufCap \in Nat \ {0} /\ MaxLog \in Nat \ {0}
  /\ {MaxDeltas, MaxFaults, MaxDrops} \subseteq Nat

VARIABLES
  log,      \* the largest seq in the events table
  fanned,   \* the largest seq handed to the subscribers; the bus mutex is held
            \* while it is behind log
  handler,  \* the requests: the goroutine, its subscription, its connection
  conn,     \* the request each client is connected to
  last,     \* the Last-Event-ID of each client: the last seq it received
  budget

vars == <<log, fanned, handler, conn, last, budget>>

Delta == 0
Failure == -1

\* buf and open are the channel of the subscription; sent is lastSeq; hand is
\* the event taken from the channel; wire is written and not yet received.
NoRequest == [pc |-> "none", buf |-> <<>>, open |-> FALSE, failure |-> FALSE,
              owed |-> FALSE, sent |-> 0, hand |-> 0, wire |-> <<>>, gone |-> FALSE]

Spend(what) == budget[what] > 0 /\ budget' = [budget EXCEPT ![what] = @ - 1]
BusFree == fanned = log
Connected(h) == \E c \in Clients : conn[c] = h
At(h, pc) == [handler EXCEPT ![h].pc = pc]

-----------------------------------------------------------------------------
(* The bus.                                                                  *)

\* One transaction appends the events of a turn, then they are fanned out one
\* by one, still under the mutex.
Publish(n) ==
  /\ BusFree /\ log + n <= MaxLog /\ log' = log + n
  /\ UNCHANGED <<fanned, handler, conn, last, budget>>

\* A non-blocking send; a subscriber without room is poisoned: its channel is
\* closed, and what it holds can still be read.
BrokenOffer(s, e) == IF Len(s.buf) < BufCap THEN [s EXCEPT !.buf = Append(@, e)] ELSE s
Offer(s, e) == IF Len(s.buf) < BufCap THEN [s EXCEPT !.buf = Append(@, e)]
               ELSE [s EXCEPT !.open = FALSE, !.failure = (e = Failure)]

fanoutDurable ==
  /\ ~BusFree /\ fanned' = fanned + 1
  /\ handler' = [h \in Handlers |-> IF handler[h].open THEN Offer(handler[h], fanned + 1)
                                    ELSE handler[h]]
  /\ UNCHANGED <<log, conn, last, budget>>

\* A full buffer drops a delta.
PublishEphemeral ==
  /\ BusFree /\ Spend("delta")
  /\ handler' = [h \in Handlers |->
       IF handler[h].open /\ Len(handler[h].buf) < BufCap
       THEN [handler[h] EXCEPT !.buf = Append(@, Delta)] ELSE handler[h]]
  /\ UNCHANGED <<log, fanned, conn, last>>

\* The turn could not be persisted: every viewer is owed the failure.
Viewing(s) == s.pc \in {"resume", "replay", "live", "deliver"}
PublishLiveFailure ==
  /\ BusFree /\ Spend("fault")
  /\ handler' = [h \in Handlers |->
       LET s == [handler[h] EXCEPT !.owed = @ \/ Viewing(handler[h])]
       IN IF s.open THEN Offer(s, Failure) ELSE s]
  /\ UNCHANGED <<log, fanned, conn, last>>

-----------------------------------------------------------------------------
(* A request.                                                                *)

\* The events after seq n up to m are written; nobody reads a broken connection.
Written(h, m) ==
  LET s == handler[h]
  IN [s EXCEPT !.sent = m,
               !.wire = IF Connected(h) THEN @ \o [i \in 1..(m - s.sent) |-> s.sent + i]
                        ELSE @]

\* Subscribe comes before the replay.  Only a request without Last-Event-ID
\* records that the session was resumed.
Subscribe(h) ==
  /\ handler[h].pc = "attach" /\ BusFree
  /\ handler' = [handler EXCEPT ![h].open = TRUE,
                    ![h].pc = IF handler[h].sent = 0 THEN "resume" ELSE "replay"]
  /\ UNCHANGED <<log, fanned, conn, last, budget>>

\* SessionResumed is best effort (and fails when the model's log is full).
SessionResumed(h) ==
  /\ handler[h].pc = "resume" /\ handler' = At(h, "replay")
  /\ \/ BusFree /\ log < MaxLog /\ log' = log + 1 /\ UNCHANGED budget
     \/ (handler[h].gone \/ log = MaxLog) /\ UNCHANGED <<log, budget>>
     \/ Spend("fault") /\ UNCHANGED log
  /\ UNCHANGED <<fanned, conn, last>>

\* A store call made for a client that is gone fails; any call may fail.
StoreFails(h) == (handler[h].gone /\ UNCHANGED budget) \/ Spend("fault")

\* The replay reads the log at once and without the bus.
Replay(h) ==
  /\ handler[h].pc = "replay"
  /\ \/ /\ handler' = [handler EXCEPT ![h] = [Written(h, log) EXCEPT !.pc = "live"]]
        /\ UNCHANGED budget
     \/ StoreFails(h) /\ handler' = At(h, "leaving")
  /\ UNCHANGED <<log, fanned, conn, last>>

Take(h) ==
  LET s == handler[h] IN
  /\ s.pc = "live" /\ s.buf # <<>>
  /\ handler' = [handler EXCEPT ![h].pc = "deliver", ![h].hand = Head(s.buf),
                                ![h].buf = Tail(s.buf)]
  /\ UNCHANGED <<log, fanned, conn, last, budget>>

\* deliverEvent: what was sent already is skipped; a gap would be filled from
\* the log, but there is none (NothingSlipsBy), so that this replay and its
\* failure never happen.
BrokenSentAfter(s) == IF s.hand <= 0 THEN s.sent ELSE s.hand
SentAfter(s) == IF s.hand <= s.sent THEN s.sent
                ELSE IF s.hand > s.sent + 1 THEN log ELSE s.hand
deliverEvent(h) ==
  LET s == handler[h] IN
  /\ s.pc = "deliver"
  /\ handler' = [handler EXCEPT ![h] =
       [Written(h, SentAfter(s)) EXCEPT !.pc = "live", !.hand = 0,
                                        !.owed = @ /\ s.hand # Failure]]
  /\ UNCHANGED <<log, fanned, conn, last, budget>>

\* The channel is closed and empty: a failure that closed it is written, the
\* rest of the log is replayed if the store answers, and the stream ends.
Poisoned(h) ==
  LET s == handler[h] IN
  /\ s.pc = "live" /\ s.buf = <<>> /\ ~s.open
  /\ \E m \in {log, s.sent} :
       /\ IF m = log THEN UNCHANGED budget ELSE StoreFails(h)
       /\ handler' = [handler EXCEPT ![h] =
            [Written(h, m) EXCEPT !.pc = "leaving", !.owed = @ /\ ~s.failure]]
  /\ UNCHANGED <<log, fanned, conn, last>>

\* ctx.Done, which select may take whatever the channel holds.
ClientGone(h) ==
  /\ handler[h].pc = "live" /\ handler[h].gone /\ handler' = At(h, "leaving")
  /\ UNCHANGED <<log, fanned, conn, last, budget>>

\* The deferred Cancel, then the response ends.
Cancel(h) ==
  LET s == handler[h] IN
  /\ s.pc = "leaving" /\ BusFree
  /\ handler' = [handler EXCEPT ![h] =
       IF s.gone THEN NoRequest
       ELSE [NoRequest EXCEPT !.pc = "ended", !.sent = s.sent, !.wire = s.wire, !.owed = s.owed]]
  /\ UNCHANGED <<log, fanned, conn, last, budget>>

handleEvents(h) == \/ Subscribe(h) \/ SessionResumed(h) \/ Replay(h) \/ Take(h)
                   \/ deliverEvent(h) \/ Poisoned(h) \/ ClientGone(h) \/ Cancel(h)

-----------------------------------------------------------------------------
(* The browser.                                                              *)

\* EventSource connects, again and again, with the last id it received.
BrokenResumeFrom(c) == last[c] + 1
ResumeFrom(c) == last[c]
Connect(c, h) ==
  /\ conn[c] = NoHandler /\ handler[h].pc = "none"
  /\ conn' = [conn EXCEPT ![c] = h]
  /\ handler' = [handler EXCEPT ![h] = [NoRequest EXCEPT !.pc = "attach", !.sent = ResumeFrom(c)]]
  /\ UNCHANGED <<log, fanned, last, budget>>

Receive(c) ==
  LET h == conn[c] IN
  /\ h # NoHandler /\ handler[h].wire # <<>>
  /\ last' = [last EXCEPT ![c] = Head(handler[h].wire)]
  /\ handler' = [handler EXCEPT ![h].wire = Tail(@)]
  /\ UNCHANGED <<log, fanned, conn, budget>>

EndOfStream(c) ==
  LET h == conn[c] IN
  /\ h # NoHandler /\ handler[h].pc = "ended" /\ handler[h].wire = <<>>
  /\ conn' = [conn EXCEPT ![c] = NoHandler]
  /\ handler' = [handler EXCEPT ![h] = NoRequest]
  /\ UNCHANGED <<log, fanned, last, budget>>

\* The connection breaks, with whatever was on it.
Left(h) == [handler EXCEPT ![h] = IF @.pc = "ended" THEN NoRequest
                                  ELSE [@ EXCEPT !.gone = TRUE, !.wire = <<>>]]
Drop(c) ==
  /\ conn[c] # NoHandler /\ Spend("drop")
  /\ conn' = [conn EXCEPT ![c] = NoHandler] /\ handler' = Left(conn[c])
  /\ UNCHANGED <<log, fanned, last>>

\* The page is loaded again: a new EventSource that has received nothing.
Reload(c) ==
  /\ Spend("drop") /\ last' = [last EXCEPT ![c] = 0]
  /\ conn' = [conn EXCEPT ![c] = NoHandler]
  /\ handler' = IF conn[c] = NoHandler THEN handler ELSE Left(conn[c])
  /\ UNCHANGED <<log, fanned>>

Browser(c) == Receive(c) \/ EndOfStream(c) \/ \E h \in Handlers : Connect(c, h)

\* The conversation is created together with its first event.
Init ==
  /\ log = 1 /\ fanned = 1
  /\ handler = [h \in Handlers |-> NoRequest]
  /\ conn = [c \in Clients |-> NoHandler] /\ last = [c \in Clients |-> 0]
  /\ budget = [delta |-> MaxDeltas, fault |-> MaxFaults, drop |-> MaxDrops]

Next == \/ \E n \in 1..2 : Publish(n)
        \/ fanoutDurable \/ PublishEphemeral \/ PublishLiveFailure
        \/ \E h \in Handlers : handleEvents(h)
        \/ \E c \in Clients : Browser(c) \/ Drop(c) \/ Reload(c)
Spec == Init /\ [][Next]_vars

\* The publisher finishes its fan-out, a request goes on, a browser reads and
\* reconnects.  Nobody owes an event; faults and broken connections are finite.
Fairness == /\ WF_vars(fanoutDurable)
            /\ \A h \in Handlers : WF_vars(handleEvents(h))
            /\ \A c \in Clients : WF_vars(Browser(c))
FairSpec == Spec /\ Fairness

-----------------------------------------------------------------------------
(* Properties.                                                               *)

\* Every variable stays in its type.
RequestType ==
  [pc : {"none", "attach", "resume", "replay", "live", "deliver", "leaving", "ended"},
   buf : Seq(Int), open : BOOLEAN, failure : BOOLEAN, owed : BOOLEAN,
   sent : Nat, hand : Int, wire : Seq(Nat), gone : BOOLEAN]
TypeOK ==
  /\ log \in Nat /\ fanned \in Nat
  /\ handler \in [Handlers -> RequestType]
  /\ conn \in [Clients -> Handlers \cup {NoHandler}]
  /\ last \in [Clients -> Nat]
  /\ budget \in [delta : Nat, fault : Nat, drop : Nat]

\* What is on a connection continues what its client has received, without a
\* gap or a repetition, up to what the handler believes it has sent: replay,
\* live delivery and the resume of a reconnect fit together.
StreamContinues ==
  \A c \in Clients : conn[c] # NoHandler =>
    LET s == handler[conn[c]]
    IN /\ s.sent = last[c] + Len(s.wire)
       /\ \A i \in 1..Len(s.wire) : s.wire[i] = last[c] + i

\* "Persisted events are never silently dropped": what was fanned out and not
\* sent waits in the channel of a subscriber that is not poisoned, and what is
\* taken from it is the next event or an old one.
NothingSlipsBy ==
  \A h \in Handlers :
    LET s == handler[h] IN
    /\ s.pc \in {"live", "deliver"} /\ s.open =>
         \A n \in s.sent + 1 .. fanned : n = s.hand \/ \E i \in 1..Len(s.buf) : s.buf[i] = n
    /\ s.hand <= s.sent + 1

\* "So no live viewer silently misses it": a request that ends by itself has
\* written every failure published since it subscribed.
NoViewerMissesFailure ==
  \A h \in Handlers : handler[h].pc \in {"leaving", "ended"} /\ handler[h].owed => handler[h].gone

\* The clients read the log of EventFeed, one event after the other.
Feed == INSTANCE EventFeed WITH feed <- log, seen <- last
ImplementsFeed == Feed!FeedSpec

\* A client that stays gets every durable event.
CatchesUp == \A c \in Clients, n \in 1..MaxLog : log >= n ~> last[c] >= n
=============================================================================
