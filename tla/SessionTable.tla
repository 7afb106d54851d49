---------------------------- MODULE SessionTable ----------------------------
(****************************************************************************)
(* The talk sessions of one user (internal/rtc/manager.go, and the channels *)
(* and the teardown of internal/rtc/session.go): an offer is negotiated,    *)
(* its session waits until both of its channels are open, and then replaces *)
(* the session that the user has.  Offers, channels, timers, lost           *)
(* connections, the signaling handler and the shutdown run against each     *)
(* other.  The media of a session are not modelled here.                    *)
(*                                                                          *)
(* Locks: the mutex of the manager, which Commit keeps between its check    *)
(* and its swap, and the commitMu of each session, taken before it.         *)
(****************************************************************************)
EXTENDS Naturals

CONSTANTS
  Sessions,  \* the offers of the user, each with the session it may become
  Nobody     \* no session

VARIABLES
  table,  \* Manager: the active session, the pending ones, userGen and closed
  sess    \* the sessions
vars == <<table, sess>>

\* close is how far Session.Close is: asked for by somebody, marked closed, torn down,
\* over.  timer is the pendingTimer, commit the call of Commit by onReady; open is of both
\* channels, which only serve together.
New == [at |-> "none", gen |-> 0, open |-> "no",
        commit |-> "none", timer |-> "off", close |-> "no"]

\* A session that was never in the table, or has left it, is closed by steps that touch
\* nothing shared.
Gone == [New EXCEPT !.at = "gone", !.close = "over"]

Closed(s) == sess[s].close \in {"marked", "torn", "over"}
Active(s) == table.active = s
Pending(s) == s \in table.pending
Asked(r) == [r EXCEPT !.close = IF @ = "no" THEN "asked" ELSE @]
Stopped(r) == [r EXCEPT !.timer = IF @ = "armed" THEN "off" ELSE @]
Set(s, r) == sess' = [sess EXCEPT ![s] = r]
\* A commit between its check and its swap holds both mutexes.
Swapping(s) == sess[s].commit \in {"promote", "discard"}
MuFree == \A s \in Sessions : ~Swapping(s)
BrokenCommitMuFree(s) == TRUE
CommitMuFree(s) == ~Swapping(s)
-----------------------------------------------------------------------------
(* Negotiation: Manager.Answer and the signaling handler.                    *)

\* The generation is the order of arrival.
Offer(s) ==
  /\ sess[s].at = "none" /\ MuFree
  /\ IF table.closed
     THEN Set(s, Gone) /\ UNCHANGED table
     ELSE /\ table' = [table EXCEPT !.gen = @ + 1]
          /\ Set(s, [New EXCEPT !.at = "offer", !.gen = table.gen + 1])

\* The offer is wrong, its negotiation fails, or a newer one or its caller cancels it.
Fail(s) ==
  /\ sess[s].at = "offer"
  /\ Set(s, Gone) /\ UNCHANGED table

\* It succeeds: one session of the user waits, the newest.
Superseded(s) == table.gen # sess[s].gen
BrokenEvicted(s) == {}
Evicted(s) == table.pending
Register(s) ==
  /\ sess[s].at = "offer" /\ MuFree
  /\ IF table.closed \/ Superseded(s) \/ Closed(s)
     THEN Set(s, Gone) /\ UNCHANGED table
     ELSE /\ table' = [table EXCEPT !.pending = (@ \ Evicted(s)) \cup {s}]
          /\ sess' = [x \in Sessions |->
               IF x = s THEN [sess[s] EXCEPT !.at = "answered", !.timer = "armed"]
               ELSE IF x \in Evicted(s) THEN Asked(Stopped(sess[x])) ELSE sess[x]]

\* The answer is not delivered: CloseSession, whatever the session is by now.
CloseSession(s) ==
  /\ sess[s].at = "answered" /\ MuFree
  /\ table' = [table EXCEPT !.pending = @ \ {s}]
  /\ LET r == [sess[s] EXCEPT !.at = "undelivered"] IN
     Set(s, IF Pending(s) THEN Asked(Stopped(r)) ELSE IF Active(s) THEN Asked(r) ELSE r)

\* pendingTimer: stopping it does not stop a callback that has begun.
Fire(s) ==
  /\ sess[s].timer = "armed" /\ Set(s, [sess[s] EXCEPT !.timer = "fired"]) /\ UNCHANGED table
expirePending(s) ==
  /\ sess[s].timer = "fired" /\ MuFree
  /\ table' = [table EXCEPT !.pending = @ \ {s}]
  /\ LET r == [sess[s] EXCEPT !.timer = "off"] IN Set(s, IF Pending(s) THEN Asked(r) ELSE r)
-----------------------------------------------------------------------------
(* The channels and the connection of a session.                             *)

\* Both are open: commit, once; an audio channel with another contract never opens.
markChannelReady(s) ==
  /\ sess[s].at \in {"answered", "undelivered"} /\ sess[s].open = "no"
  /\ Set(s, [sess[s] EXCEPT !.open = "open", !.commit = IF Closed(s) THEN "none" ELSE "peek"])
  /\ UNCHANGED table
\* The browser hangs up: either channel ends the session.
Drop(s) ==
  /\ sess[s].open = "open" /\ Set(s, Asked([sess[s] EXCEPT !.open = "closed"]))
  /\ UNCHANGED table
\* handleConnState: the connection fails, or it is disconnected for its grace.
Lost(s) ==
  /\ sess[s].at \notin {"none", "gone"} /\ sess[s].close = "no" /\ Set(s, Asked(sess[s]))
  /\ UNCHANGED table

\* Commit: peek; then both locks, the decision and the swap; then whichever has lost is
\* closed.
CommitPeek(s) ==
  /\ sess[s].commit = "peek" /\ MuFree
  /\ Set(s, [sess[s] EXCEPT !.commit = IF Pending(s) THEN "lock" ELSE "none"])
  /\ UNCHANGED table
Discard(s) == table.closed \/ Superseded(s) \/ Closed(s) \/ sess[s].open # "open"
CommitDecide(s) ==
  /\ sess[s].commit = "lock" /\ MuFree
  /\ table' = [table EXCEPT !.pending = @ \ {s}]
  /\ Set(s, [Stopped(sess[s]) EXCEPT !.commit =
               IF ~Pending(s) THEN "none" ELSE IF Discard(s) THEN "discard" ELSE "promote"])
CommitSwap(s) ==
  LET loser == IF sess[s].commit = "discard" THEN s ELSE table.active IN
  /\ Swapping(s)
  /\ table' = [table EXCEPT !.active = IF sess[s].commit = "discard" THEN @ ELSE s]
  /\ sess' = [x \in Sessions |->
       LET r == IF x = s THEN [sess[x] EXCEPT !.commit = "none"] ELSE sess[x]
       IN IF x = loser THEN Asked(r) ELSE r]
-----------------------------------------------------------------------------
(* Session.Close, and the shutdown of the manager.                           *)

Mark(s) ==
  /\ sess[s].close = "asked" /\ CommitMuFree(s)
  /\ Set(s, [sess[s] EXCEPT !.close = "marked"]) /\ UNCHANGED table
Teardown(s) ==
  /\ sess[s].close = "marked"
  /\ Set(s, [sess[s] EXCEPT !.close = "torn", !.open = "closed"])
  /\ UNCHANGED table
\* A session that has been replaced must not remove its successor.
Removed(s) == IF Active(s) THEN Nobody ELSE table.active
onSessionClosed(s) ==
  /\ sess[s].close = "torn" /\ MuFree
  /\ table' = [table EXCEPT !.active = Removed(s), !.pending = @ \ {s}]
  /\ Set(s, [Gone EXCEPT !.commit = sess[s].commit, !.timer = Stopped(sess[s]).timer])

Close ==
  /\ ~table.closed /\ MuFree
  /\ table' = [table EXCEPT !.closed = TRUE, !.active = Nobody, !.pending = {}]
  /\ sess' = [s \in Sessions |->
       IF Pending(s) THEN Asked(Stopped(sess[s])) ELSE IF Active(s) THEN Asked(sess[s]) ELSE sess[s]]
-----------------------------------------------------------------------------
Init == /\ table = [active |-> Nobody, pending |-> {}, gen |-> 0, closed |-> FALSE]
        /\ sess = [s \in Sessions |-> New]
Step(s) == \/ Offer(s) \/ Fail(s) \/ Register(s) \/ CloseSession(s) \/ Fire(s) \/ expirePending(s)
           \/ Lost(s) \/ CommitPeek(s) \/ CommitDecide(s) \/ CommitSwap(s) \/ Mark(s)
           \/ Teardown(s) \/ onSessionClosed(s) \/ markChannelReady(s) \/ Drop(s)
Next == Close \/ \E s \in Sessions : Step(s)
Spec == Init /\ [][Next]_vars
-----------------------------------------------------------------------------
\* Whoever has a connection that nobody is closing can be found: it negotiates, waits with
\* its timer running, is being committed, or is the active session.  Only the newest waits,
\* and after the shutdown none does.
Tracked(s) == \/ sess[s].at = "offer" \/ Active(s) \/ Swapping(s)
              \/ Pending(s) /\ sess[s].timer # "off"
OneWaits == \A s, x \in table.pending : s = x
NothingOrphaned ==
  /\ \A s \in Sessions : sess[s].at \notin {"none", "gone"} /\ sess[s].close = "no" => Tracked(s)
  /\ OneWaits
  /\ table.closed => table.active = Nobody /\ table.pending = {}

\* A user who has a call loses it only to a session that is not being torn down and was
\* offered after it, unless the call itself is being closed or the server shuts down.
KeepsCall ==
  LET a == table.active IN
  table'.active # a /\ a # Nobody =>
     \/ table'.closed \/ sess[a].close # "no"
     \/ \E s \in Sessions : Active(s)' /\ ~Closed(s) /\ sess[s].gen > sess[a].gen
CallIsKept == [][KeepsCall]_vars
-----------------------------------------------------------------------------
(* The assumption on the constants and the inductive invariant. *)

Named == Nobody \notin Sessions

SessionType == [at : {"none", "offer", "answered", "undelivered", "gone"}, gen : Nat,
                open : {"no", "open", "closed"},
                commit : {"none", "peek", "lock", "promote", "discard"},
                timer : {"off", "armed", "fired"},
                close : {"no", "asked", "marked", "torn", "over"}]
TableType == [active : Sessions \cup {Nobody}, pending : SUBSET Sessions, gen : Nat,
              closed : BOOLEAN]
TypeOK == table \in TableType /\ sess \in [Sessions -> SessionType]

\* A session that has been answered and that nobody closes is known to the table, or to the
\* commit that holds its mutex; what waits has a timer.
Known(r, s, t) ==
  /\ s \in t.pending => r.at = "answered" /\ r.timer # "off"
  /\ t.active = s => r.at \in {"answered", "undelivered"}
  /\ r.commit \in {"promote", "discard"} => r.at \in {"answered", "undelivered"}
  /\ r.at \in {"answered", "undelivered"} /\ r.close = "no" =>
       s \in t.pending \/ t.active = s \/ r.commit \in {"promote", "discard"}
\* A commit that has decided to promote its session is still right about it.
Right(r, t) ==
  r.commit = "promote" => /\ ~t.closed /\ r.gen = t.gen
                          /\ r.close \notin {"marked", "torn", "over"}
\* Generations are the order of the offers.
Ordered(r, t) == r.gen <= t.gen
Serves(r) == r.at \in {"offer", "answered", "undelivered"}
Distinct == \A s, x \in Sessions :
  Serves(sess[s]) /\ Serves(sess[x]) /\ sess[s].gen = sess[x].gen => s = x
OneSwaps == \A s, x \in Sessions : Swapping(s) /\ Swapping(x) => s = x
Shut == table.closed => table.active = Nobody /\ table.pending = {}
\* A commit begins when both channels are open.
Opened(r) == r.at = "offer" \/ (r.at \in {"answered", "undelivered"} /\ r.open = "no") =>
               r.commit = "none"
Good(r, s, t) == Known(r, s, t) /\ Right(r, t) /\ Ordered(r, t) /\ Opened(r)
AllGood == \A s \in Sessions : Good(sess[s], s, table)
IInv == TypeOK /\ AllGood /\ Distinct /\ OneSwaps /\ OneWaits /\ Shut
=============================================================================
