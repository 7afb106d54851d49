------------------------------ MODULE EventFeed ------------------------------
(****************************************************************************)
(* What the event stream of a conversation promises its clients: a log that  *)
(* only grows, and each client reading it one event after the other, from    *)
(* the first, however often it reconnects.  How the events travel is         *)
(* EventStream's.                                                            *)
(****************************************************************************)
EXTENDS Naturals

CONSTANTS Clients

VARIABLES
  feed,  \* the number of the last durable event
  seen   \* the number of the last event each client has seen

feedVars == <<feed, seen>>

Append == feed' > feed /\ feed' \in Nat /\ UNCHANGED seen
ReadNext(c) == /\ seen[c] < feed /\ seen' = [seen EXCEPT ![c] = @ + 1]
               /\ UNCHANGED feed
\* The page is loaded again and starts from nothing.
StartOver(c) == seen' = [seen EXCEPT ![c] = 0] /\ UNCHANGED feed

FeedInit == feed \in Nat /\ seen = [c \in Clients |-> 0]
FeedNext == Append \/ \E c \in Clients : ReadNext(c) \/ StartOver(c)
FeedSpec == FeedInit /\ [][FeedNext]_feedVars
=============================================================================
