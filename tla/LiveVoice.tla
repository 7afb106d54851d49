------------------------------ MODULE LiveVoice ------------------------------
(****************************************************************************)
(* One live voice session (internal/rtc/live.go, speak.go and the playback   *)
(* of outbound.go) and the turns of its conversation                         *)
(* (internal/httpapi/voice.go and handlePostMessage): the start and the stop *)
(* of live mode, the utterances the inbound loop opens, commits or drops,    *)
(* the serial reply worker, barge-in, the turn lock and the interrupt fence. *)
(*                                                                           *)
(* A live mode, its pipeline, its commit queue and its worker are named by   *)
(* the liveGen they start under.  An utterance names its recognizer, its     *)
(* reply generation and the assistant turn that answers it; 0 is none.       *)
(*                                                                           *)
(* A definition whose name begins with Broken is the one below it with a     *)
(* plausible bug; PROJECT.json pairs it with the property that catches it.   *)
(****************************************************************************)
EXTENDS Integers, Sequences, FiniteSets

CONSTANTS
  MaxUtterances,  \* bound: recognizers opened
  MaxStops,       \* bound: client messages that leave live mode
  MaxStarts,      \* bound: client messages that enter it
  MaxPosts,       \* bound: text messages posted to the conversation
  MaxFaults,      \* bound: loads, writes, model calls, frames that fail
  QueueCap,       \* liveCommitQueue: 8 in the code
  Length,         \* frames of a spoken reply
  PromptCleanup   \* the cleanup that ends finishLive is over before live mode
                  \* is left and entered again

ASSUME VoiceAssumption ==
  /\ {MaxUtterances, MaxStops, MaxStarts, MaxPosts, MaxFaults} \subseteq Nat
  /\ QueueCap \in Nat \ {0} /\ Length \in Nat \ {0} /\ PromptCleanup \in BOOLEAN

Utterances == 1..MaxUtterances
Gens == 1..(MaxStops + 1)          \* Close bumps liveGen once more
Stoppers == {"control", "close"}   \* the two goroutines that may call stopLive

Steps == {"none", "idle", "finalize", "begin", "reply", "claim", "wait", "await",
          "context", "generate", "commit", "fence", "zero", "speak", "reject",
          "playing", "playout", "short", "end", "release", "clear", "exit"}

VARIABLES
  live,    \* the fields of Session under liveMu; lp = 0 is live = false
  setup,   \* the running finishLive goroutines
  stop,    \* stopLive of the control channel and of Close
  lp,      \* the pipelines: turn detection, commits, done
  feed,    \* the inbound loop
  worker,  \* the reply workers, with the runSpeak each waits for
  recog,   \* the recognizers
  ctx,     \* cancelled reply contexts, cancelled speech, the current speech
  out,     \* the playback
  conv,    \* the turn lock and the pending interrupts of the conversation
  post,    \* the handler of a text message
  marks,   \* MarkTurnInterrupted goroutines of stopLive
  turn,    \* the durable turns of each utterance, and what was heard
  budget

vars == <<live, setup, stop, lp, feed, worker, recog, ctx, out, conv, post, marks,
          turn, budget>>

NotLive == [lp |-> 0, gen |-> 1, starting |-> FALSE, ready |-> FALSE, turnRecog |-> 0,
            workerRecog |-> 0, reply |-> 0, replyTurn |-> 0]
NotStopping == [pc |-> "idle", reply |-> 0, turn |-> 0, at |-> 0, recogs |-> {}, lp |-> 0]
FreshPipe == [seg |-> "idle", over |-> FALSE, barged |-> FALSE, queue |-> <<>>,
              done |-> FALSE]
NoEvents == [pc |-> "idle", lp |-> 0, evs |-> <<>>, turn |-> 0, at |-> 0]
NoJob == [pc |-> "none", u |-> 0, fence |-> FALSE, speech |-> "none"]
Silent == [of |-> 0, running |-> FALSE, left |-> 0, sent |-> 0, played |-> 0,
           lost |-> FALSE]
Unsaid == [reply |-> "none", at |-> 0, heard |-> 0, whole |-> FALSE, captured |-> 0,
           unmarked |-> FALSE]

Spend(what) == budget[what] > 0 /\ budget' = [budget EXCEPT ![what] = @ - 1]
Some(u) == {u} \ {0}
Closed == stop["close"].pc # "idle"
Owns(g) == live.lp = g
Close(rs) == [u \in Utterances |-> IF u \in rs THEN "closed" ELSE recog[u]]
Members(q) == {q[i] : i \in DOMAIN q}

\* The result of cancelSpeak, and of a reply cancel with it.
Cancelled(rs) == [ctx EXCEPT !.cancelled = @ \cup rs, !.cut = @ \cup Some(ctx.speech),
                             !.speech = 0]
Halted == [out EXCEPT !.running = FALSE]

\* The durable write of MarkTurnInterrupted; a failure is only logged.
MarkTurnInterrupted(u, at) ==
  \/ turn' = [turn EXCEPT ![u].reply = "interrupted", ![u].at = at] /\ UNCHANGED budget
  \/ turn' = [turn EXCEPT ![u].unmarked = TRUE] /\ Spend("fault")

-----------------------------------------------------------------------------
(* Entering live mode.                                                       *)

startLive ==
  /\ stop["control"].pc = "idle" /\ live.lp = 0 /\ ~live.starting
  /\ PromptCleanup => \A s \in setup : s.pc # "cleanup"
  /\ Spend("start")
  /\ live' = [live EXCEPT !.starting = TRUE]
  /\ setup' = setup \cup {[pc |-> "load", gen |-> live.gen]}
  /\ UNCHANGED <<stop, lp, feed, worker, recog, ctx, out, conv, post, marks, turn>>

failLiveStart(s) ==
  /\ s.pc = "load" /\ Spend("fault")
  /\ setup' = setup \ {s}
  /\ live' = [live EXCEPT !.starting = @ /\ live.gen # s.gen]
  /\ UNCHANGED <<stop, lp, feed, worker, recog, ctx, out, conv, post, marks, turn>>

\* A superseded start discards only its own streams.
Superseded(s) == live.gen # s.gen \/ Closed

install(s) ==
  /\ s.pc = "load"
  /\ IF Superseded(s)
     THEN setup' = setup \ {s} /\ UNCHANGED <<live, worker>>
     ELSE /\ setup' = (setup \ {s}) \cup {[s EXCEPT !.pc = "cleanup"]}
          /\ live' = [live EXCEPT !.starting = FALSE, !.lp = s.gen, !.ready = FALSE]
          /\ worker' = [worker EXCEPT ![s.gen].pc = "idle"]
  /\ UNCHANGED <<stop, lp, feed, recog, ctx, out, conv, post, marks, turn, budget>>

\* Manual playback is stopped; whose it is, is not checked.
cleanup(s) ==
  /\ s.pc = "cleanup"
  /\ setup' = (setup \ {s}) \cup {[s EXCEPT !.pc = "ready"]}
  /\ out' = Halted /\ ctx' = Cancelled({})
  /\ UNCHANGED <<live, stop, lp, feed, worker, recog, conv, post, marks, turn, budget>>

goReady(s) ==
  /\ s.pc = "ready"
  /\ setup' = setup \ {s}
  /\ live' = [live EXCEPT !.ready = @ \/ Owns(s.gen)]
  /\ UNCHANGED <<stop, lp, feed, worker, recog, ctx, out, conv, post, marks, turn, budget>>

finishLive == \E s \in setup : failLiveStart(s) \/ install(s) \/ cleanup(s) \/ goReady(s)

-----------------------------------------------------------------------------
(* Leaving live mode.  The first step is what stopLive does under liveMu.    *)

Left == [NotLive EXCEPT !.gen = live.gen + 1]

Reserved(u) == IF u = 0 THEN conv ELSE [conv EXCEPT !.fences = @ + 1]
Captured(u) == IF u = 0 THEN turn ELSE [turn EXCEPT ![u].captured = @ + 1]

stopLive(t) ==
  /\ IF t = "control" THEN stop[t].pc = "idle" /\ Spend("stop")
                      ELSE stop[t].pc = "closing" /\ UNCHANGED budget
  /\ stop' = [stop EXCEPT ![t] =
       [pc |-> "teardown", reply |-> live.reply, turn |-> live.replyTurn,
        at |-> out.played, recogs |-> Some(live.turnRecog) \cup Some(live.workerRecog),
        lp |-> live.lp]]
  /\ live' = Left
  /\ conv' = Reserved(live.replyTurn) /\ turn' = Captured(live.replyTurn)
  /\ UNCHANGED <<setup, lp, feed, worker, recog, ctx, out, post, marks>>

teardown(t) ==
  LET s == stop[t]
  IN /\ s.pc = "teardown"
     /\ ctx' = Cancelled(Some(s.reply))
     /\ marks' = marks \cup {[turn |-> u, at |-> s.at] : u \in Some(s.turn)}
     /\ recog' = Close(s.recogs)
     /\ lp' = [g \in Gens |-> IF g # s.lp THEN lp[g]
                             ELSE [FreshPipe EXCEPT !.queue = lp[g].queue, !.done = TRUE]]
     /\ stop' = [stop EXCEPT ![t] = IF t = "control" THEN NotStopping
                                    ELSE [NotStopping EXCEPT !.pc = "cancel"]]
     /\ UNCHANGED <<live, setup, feed, worker, out, conv, post, turn, budget>>

\* The mark holds the fence until it is written.
markStopped ==
  \E m \in marks :
    /\ MarkTurnInterrupted(m.turn, m.at)
    /\ marks' = marks \ {m} /\ conv' = [conv EXCEPT !.fences = @ - 1]
    /\ UNCHANGED <<live, setup, stop, lp, feed, worker, recog, ctx, out, post>>

\* Close: the flag first, then stopLive, then the context of the session.
CloseSession ==
  /\ stop["close"].pc = "idle"
  /\ stop' = [stop EXCEPT !["close"].pc = "closing"]
  /\ UNCHANGED <<live, setup, lp, feed, worker, recog, ctx, out, conv, post, marks, turn, budget>>

cancelSession ==
  /\ stop["close"].pc = "cancel"
  /\ stop' = [stop EXCEPT !["close"].pc = "closed"]
  /\ ctx' = Cancelled({worker[g].u : g \in Gens} \ {0}) /\ out' = Halted
  /\ UNCHANGED <<live, setup, lp, feed, worker, recog, conv, post, marks, turn, budget>>

Stopping(t) == (t = "close" /\ stopLive(t)) \/ teardown(t) \/ (t = "close" /\ cancelSession)

-----------------------------------------------------------------------------
(* The inbound loop: feedLive takes the events of a chunk under liveMu and   *)
(* handles them one after the other, each re-checking that it is not stale.  *)

Playing == live.reply # 0 \/ (out.running /\ out.of # 0)

\* What turn detection may say of a chunk that changes the turn.
Said(p) ==
  IF p.seg = "idle" THEN {<<"Open">>}
  ELSE {<<"Commit">>, <<"Cancel">>}
       \cup (IF ~p.barged /\ (p.over \/ Playing) THEN {<<"BargeIn">>} ELSE {})
       \cup (IF ~p.barged /\ p.over THEN {<<"BargeIn", "Commit">>} ELSE {})

Heard(p, evs) ==
  [p EXCEPT !.seg = IF evs[Len(evs)] \in {"Commit", "Cancel"} THEN "idle" ELSE "open",
            !.over = IF evs[1] = "Open" THEN Playing ELSE @,
            !.barged = evs[1] # "Open" /\ (@ \/ evs[1] = "BargeIn")]

feedLive ==
  /\ feed.pc = "idle" /\ feed.evs = <<>> /\ live.lp # 0 /\ live.ready
  /\ \E evs \in Said(lp[live.lp]) :
       /\ evs = <<"Open">> => \E u \in Utterances : recog[u] = "none"
       /\ lp' = [lp EXCEPT ![live.lp] = Heard(@, evs)]
       /\ feed' = [feed EXCEPT !.lp = live.lp, !.evs = evs]
  /\ UNCHANGED <<live, setup, stop, worker, recog, ctx, out, conv, post, marks, turn, budget>>

\* The event at the head of evs is handled next, by its owner or not at all.
Handling(ev) == feed.pc = "idle" /\ feed.evs # <<>> /\ Head(feed.evs) = ev
Handled == IF Len(feed.evs) = 1 THEN NoEvents ELSE [feed EXCEPT !.evs = Tail(@)]

dropStale ==
  /\ feed.pc = "idle" /\ feed.evs # <<>> /\ ~Owns(feed.lp)
  /\ feed' = Handled
  /\ UNCHANGED <<live, setup, stop, lp, worker, recog, ctx, out, conv, post, marks, turn, budget>>

\* A recognizer left over is closed; the new one is opened without the lock.
openTurn ==
  /\ Handling("Open") /\ Owns(feed.lp)
  /\ feed' = [feed EXCEPT !.pc = "opening"]
  /\ live' = [live EXCEPT !.turnRecog = 0] /\ recog' = Close(Some(live.turnRecog))
  /\ UNCHANGED <<setup, stop, lp, worker, ctx, out, conv, post, marks, turn, budget>>

NextIs(u) == recog[u] = "none" /\ \A v \in Utterances : v < u => recog[v] # "none"

installRecog ==
  /\ feed.pc = "opening"
  /\ feed' = [Handled EXCEPT !.pc = "idle"]
  /\ \E u \in Utterances :
       /\ NextIs(u)
       /\ \/ /\ Owns(feed.lp) /\ live' = [live EXCEPT !.turnRecog = u]
             /\ recog' = [recog EXCEPT ![u] = "open"] /\ UNCHANGED budget
          \/ /\ ~Owns(feed.lp) /\ recog' = [recog EXCEPT ![u] = "closed"]
             /\ UNCHANGED <<live, budget>>
          \/ /\ Spend("fault") /\ recog' = [recog EXCEPT ![u] = "closed"]
             /\ UNCHANGED live
  /\ UNCHANGED <<setup, stop, lp, worker, ctx, out, conv, post, marks, turn>>

bargeIn ==
  /\ Handling("BargeIn") /\ Owns(feed.lp)
  /\ feed' = IF live.replyTurn = 0 THEN Handled
             ELSE [feed EXCEPT !.pc = "marking", !.turn = live.replyTurn, !.at = out.played]
  /\ conv' = Reserved(live.replyTurn) /\ turn' = Captured(live.replyTurn)
  /\ out' = Halted /\ ctx' = Cancelled(Some(live.reply))
  /\ live' = [live EXCEPT !.reply = 0, !.replyTurn = 0]
  /\ UNCHANGED <<setup, stop, lp, worker, recog, post, marks, budget>>

\* The inbound loop waits for the mark of its own barge-in.
markBarged ==
  /\ feed.pc = "marking" /\ MarkTurnInterrupted(feed.turn, feed.at)
  /\ conv' = [conv EXCEPT !.fences = @ - 1]
  /\ feed' = [Handled EXCEPT !.pc = "idle", !.turn = 0, !.at = 0]
  /\ UNCHANGED <<live, setup, stop, lp, worker, recog, ctx, out, post, marks>>

\* A commit without room in the queue is dropped.
Room(g) == Len(lp[g].queue) < QueueCap

commitTurn ==
  /\ Handling("Commit") /\ Owns(feed.lp)
  /\ feed' = Handled /\ live' = [live EXCEPT !.turnRecog = 0]
  /\ LET u == live.turnRecog
     IN IF u # 0 /\ Room(feed.lp)
        THEN lp' = [lp EXCEPT ![feed.lp].queue = Append(@, u)] /\ UNCHANGED recog
        ELSE recog' = Close(Some(u)) /\ UNCHANGED lp
  /\ UNCHANGED <<setup, stop, worker, ctx, out, conv, post, marks, turn, budget>>

cancelTurn ==
  /\ Handling("Cancel") /\ Owns(feed.lp)
  /\ feed' = Handled /\ live' = [live EXCEPT !.turnRecog = 0]
  /\ recog' = Close(Some(live.turnRecog))
  /\ UNCHANGED <<setup, stop, lp, worker, ctx, out, conv, post, marks, turn, budget>>

handleLiveEvent == dropStale \/ openTurn \/ installRecog \/ bargeIn \/ markBarged
                   \/ commitTurn \/ cancelTurn

-----------------------------------------------------------------------------
(* The serial reply worker of a pipeline.                                    *)

At(g, pc) == worker[g].pc = pc
Goto(g, pc) == [worker EXCEPT ![g].pc = pc]

BrokenDrained(g) == recog
Drained(g) == Close(Members(lp[g].queue))

\* The recognizer is registered with the ownership check, or the queue drained.
dequeue(g) ==
  /\ At(g, "idle") /\ lp[g].queue # <<>>
  /\ LET u == Head(lp[g].queue)
     IN IF Owns(g)
        THEN /\ lp' = [lp EXCEPT ![g].queue = Tail(@)]
             /\ live' = [live EXCEPT !.workerRecog = u]
             /\ worker' = [worker EXCEPT ![g].pc = "finalize", ![g].u = u]
             /\ UNCHANGED recog
        ELSE /\ lp' = [lp EXCEPT ![g].queue = <<>>]
             /\ recog' = Drained(g) /\ worker' = Goto(g, "exit")
             /\ UNCHANGED live
  /\ UNCHANGED <<setup, stop, feed, ctx, out, conv, post, marks, turn, budget>>

drain(g) ==
  /\ At(g, "idle") /\ lp[g].done
  /\ lp' = [lp EXCEPT ![g].queue = <<>>]
  /\ recog' = Drained(g) /\ worker' = Goto(g, "exit")
  /\ UNCHANGED <<live, setup, stop, feed, ctx, out, conv, post, marks, turn, budget>>

\* A closed recognizer gives no text; nor do a timeout, an error or silence.
finalize(g) ==
  /\ At(g, "finalize")
  /\ recog' = Close({worker[g].u})
  /\ \/ recog[worker[g].u] = "open" /\ worker' = Goto(g, "begin")
     \/ worker' = Goto(g, "clear")
  /\ UNCHANGED <<live, setup, stop, lp, feed, ctx, out, conv, post, marks, turn, budget>>

beginReplyOwned(g) ==
  /\ At(g, "begin")
  /\ IF Owns(g)
     THEN /\ live' = [live EXCEPT !.reply = worker[g].u, !.replyTurn = 0]
          /\ ctx' = [ctx EXCEPT !.cancelled = @ \cup Some(live.reply)]
          /\ worker' = Goto(g, "reply")
     ELSE worker' = Goto(g, "clear") /\ UNCHANGED <<live, ctx>>
  /\ UNCHANGED <<setup, stop, lp, feed, recog, out, conv, post, marks, turn, budget>>

replyContext(g) ==
  /\ At(g, "reply")
  /\ worker' = Goto(g, IF live.reply = worker[g].u THEN "claim" ELSE "end")
  /\ UNCHANGED <<live, setup, stop, lp, feed, recog, ctx, out, conv, post, marks, turn, budget>>

\* The lock, or an error: when the reply is cancelled while it waits, or the
\* lock is still held after liveTurnLockWait.
Claimed(g) == [conv EXCEPT !.lock = g]

waitBeginTurn(g) ==
  /\ \/ /\ At(g, "claim") \/ At(g, "wait")
        /\ conv.lock = 0 /\ conv' = Claimed(g) /\ worker' = Goto(g, "await")
     \/ At(g, "claim") /\ conv.lock # 0 /\ worker' = Goto(g, "wait") /\ UNCHANGED conv
     \/ /\ At(g, "wait") /\ (conv.lock # 0 \/ worker[g].u \in ctx.cancelled)
        /\ worker' = Goto(g, "end") /\ UNCHANGED conv
  /\ UNCHANGED <<live, setup, stop, lp, feed, recog, ctx, out, post, marks, turn, budget>>

Unlocked == [conv EXCEPT !.lock = 0]

FenceClear == conv.fences = 0

awaitInterrupts(g) ==
  /\ At(g, "await")
  /\ \/ FenceClear /\ worker' = Goto(g, "context") /\ UNCHANGED conv
     \/ /\ ~FenceClear /\ worker[g].u \in ctx.cancelled
        /\ worker' = Goto(g, "end") /\ conv' = Unlocked
  /\ UNCHANGED <<live, setup, stop, lp, feed, recog, ctx, out, post, marks, turn, budget>>

\* The user turn is written, then the history is read for the model.
BuildContext(g) ==
  /\ At(g, "context")
  /\ \/ worker' = Goto(g, "generate") /\ UNCHANGED <<conv, budget>>
     \/ Spend("fault") /\ worker' = Goto(g, "end") /\ conv' = Unlocked
  /\ UNCHANGED <<live, setup, stop, lp, feed, recog, ctx, out, post, marks, turn>>

\* The model answers in full, or in part when the reply is cancelled; an error
\* of the model leaves an errored turn, an error of the store none.
generate(g) ==
  /\ At(g, "generate")
  /\ LET u == worker[g].u
     IN \/ /\ worker' = Goto(g, "commit") /\ UNCHANGED <<conv, budget>>
           /\ \E r \in {"full"} \cup (IF u \in ctx.cancelled THEN {"interrupted"} ELSE {}) :
                turn' = [turn EXCEPT ![u].reply = r]
        \/ /\ Spend("fault") /\ worker' = Goto(g, "end") /\ conv' = Unlocked
           /\ \E r \in {"error", "none"} : turn' = [turn EXCEPT ![u].reply = r]
  /\ UNCHANGED <<live, setup, stop, lp, feed, recog, ctx, out, post, marks>>

\* onCommitted, with the turn lock held: the reply that is still current gets
\* its id recorded and the cursor reset, one that was interrupted is marked.
Current(g) == live.lp # 0 /\ live.reply = worker[g].u

BrokenReset == out
Reset == [Silent EXCEPT !.running = out.running]

onCommitted(g) ==
  /\ At(g, "commit")
  /\ IF Current(g)
     THEN live' = [live EXCEPT !.replyTurn = worker[g].u] /\ out' = Reset
          /\ worker' = Goto(g, "fence")
     ELSE worker' = Goto(g, "zero") /\ UNCHANGED <<live, out>>
  /\ UNCHANGED <<setup, stop, lp, feed, recog, ctx, conv, post, marks, turn, budget>>

\* The playback fence is reserved before the turn lock is released.
BrokenFenced == Unlocked
Fenced == [Unlocked EXCEPT !.fences = @ + 1]

reserveFence(g) ==
  /\ At(g, "fence")
  /\ worker' = [worker EXCEPT ![g].pc = "speak", ![g].fence = TRUE]
  /\ conv' = Fenced
  /\ UNCHANGED <<live, setup, stop, lp, feed, recog, ctx, out, post, marks, turn, budget>>

markUncommitted(g) ==
  /\ At(g, "zero") /\ MarkTurnInterrupted(worker[g].u, 0)
  /\ worker' = Goto(g, "speak") /\ conv' = Unlocked
  /\ UNCHANGED <<live, setup, stop, lp, feed, recog, ctx, out, post, marks>>

\* What the worker does once the reply plays: it waits for runSpeak.

\* The check and speakStream are one step under liveMu.
MaySpeak(g) == Current(g) /\ worker[g].u \notin ctx.cancelled

speak(g) ==
  /\ At(g, "speak")
  /\ LET u == worker[g].u
     IN \/ /\ MaySpeak(g)
           /\ out' = [Silent EXCEPT !.of = u, !.running = TRUE, !.left = Length]
           /\ ctx' = [ctx EXCEPT !.cut = @ \cup Some(ctx.speech), !.speech = u]
           /\ worker' = [worker EXCEPT ![g].pc = "playing", ![g].speech = "run"]
           /\ UNCHANGED budget
        \/ /\ MaySpeak(g) /\ Spend("fault") /\ worker' = Goto(g, "reject")
           /\ UNCHANGED <<out, ctx>>
        \/ ~MaySpeak(g) /\ worker' = Goto(g, "end") /\ UNCHANGED <<out, ctx, budget>>
  /\ UNCHANGED <<live, setup, stop, lp, feed, recog, conv, post, marks, turn>>

markRejected(g) ==
  /\ At(g, "reject") /\ MarkTurnInterrupted(worker[g].u, 0)
  /\ worker' = Goto(g, "end")
  /\ UNCHANGED <<live, setup, stop, lp, feed, recog, ctx, out, conv, post, marks>>

\* runSpeak: cut by cancelSpeak, ended by an error, or played to the end.  A
\* halt is of its own epoch; one that finds the pacer stopped reports nothing.
runSpeak(g) ==
  LET u == worker[g].u
      mine == out.of = u
      Ends(how) == worker' = [worker EXCEPT ![g].speech = how, ![g].pc = "playout"]
                   /\ out' = IF mine THEN Halted ELSE out
  IN /\ At(g, "playing")
     /\ \/ u \in ctx.cut /\ Ends("cut") /\ UNCHANGED <<turn, budget>>
        \/ u \notin ctx.cut /\ Spend("fault") /\ Ends("short") /\ UNCHANGED turn
        \/ /\ mine /\ out.left = 0 /\ UNCHANGED budget
           /\ Ends(IF ~out.running THEN "none" ELSE IF out.lost THEN "short" ELSE "whole")
           /\ turn' = [turn EXCEPT ![u].whole = out.running /\ ~out.lost]
     /\ UNCHANGED <<live, setup, stop, lp, feed, recog, ctx, conv, post, marks>>

\* waitPlayedOut ends by the cursor, a cancel, a newer epoch or its deadline.
waitPlayedOut(g) ==
  /\ At(g, "playout")
  /\ worker' = [worker EXCEPT ![g].speech = "none",
                              ![g].pc = IF worker[g].speech = "short" THEN "short" ELSE "end"]
  /\ UNCHANGED <<live, setup, stop, lp, feed, recog, ctx, out, conv, post, marks, turn, budget>>

markTruncated(g) ==
  /\ At(g, "short") /\ MarkTurnInterrupted(worker[g].u, out.played)
  /\ worker' = Goto(g, "end")
  /\ UNCHANGED <<live, setup, stop, lp, feed, recog, ctx, out, conv, post, marks>>

endReply(g) ==
  /\ At(g, "end")
  /\ worker' = Goto(g, "release")
  /\ live' = IF live.reply = worker[g].u THEN [live EXCEPT !.reply = 0, !.replyTurn = 0]
             ELSE live
  /\ UNCHANGED <<setup, stop, lp, feed, recog, ctx, out, conv, post, marks, turn, budget>>

BrokenReleased(g) == IF worker[g].fence /\ worker[g].u \notin ctx.cancelled
                     THEN [conv EXCEPT !.fences = @ - 1] ELSE conv
Released(g) == IF worker[g].fence THEN [conv EXCEPT !.fences = @ - 1] ELSE conv

releaseFence(g) ==
  /\ At(g, "release")
  /\ worker' = [worker EXCEPT ![g].pc = "clear", ![g].fence = FALSE]
  /\ conv' = Released(g)
  /\ UNCHANGED <<live, setup, stop, lp, feed, recog, ctx, out, post, marks, turn, budget>>

\* The contexts of a reply that is over are nobody's.
Forgotten(u) == [cancelled |-> ctx.cancelled \ {u}, cut |-> ctx.cut \ {u},
                 speech |-> IF ctx.speech = u THEN 0 ELSE ctx.speech]

BrokenDeregistered(u) == [live EXCEPT !.workerRecog = 0]
Deregistered(u) == IF live.workerRecog = u THEN [live EXCEPT !.workerRecog = 0] ELSE live

clearWorkerRecog(g) ==
  /\ At(g, "clear")
  /\ live' = Deregistered(worker[g].u)
  /\ worker' = [worker EXCEPT ![g].pc = "idle", ![g].u = 0]
  /\ ctx' = Forgotten(worker[g].u)
  /\ UNCHANGED <<setup, stop, lp, feed, recog, out, conv, post, marks, turn, budget>>

replyWorker(g) ==
  \/ dequeue(g) \/ drain(g) \/ finalize(g) \/ beginReplyOwned(g) \/ replyContext(g)
  \/ waitBeginTurn(g) \/ awaitInterrupts(g) \/ BuildContext(g) \/ generate(g)
  \/ onCommitted(g) \/ reserveFence(g) \/ markUncommitted(g) \/ speak(g)
  \/ markRejected(g) \/ runSpeak(g) \/ waitPlayedOut(g) \/ markTruncated(g)
  \/ endReply(g) \/ releaseFence(g) \/ clearWorkerRecog(g)

-----------------------------------------------------------------------------
(* The playback and the text messages.                                       *)

\* The pacer takes a frame; on a slow channel it is not delivered.
pace ==
  /\ out.running /\ out.left > 0
  /\ \/ out' = [out EXCEPT !.left = @ - 1, !.sent = @ + 1] /\ UNCHANGED budget
     \/ out' = [out EXCEPT !.left = @ - 1, !.lost = TRUE] /\ Spend("fault")
  /\ UNCHANGED <<live, setup, stop, lp, feed, worker, recog, ctx, conv, post, marks, turn>>

\* The browser reports what it has played of the current epoch.
recordCursor ==
  /\ out.played < out.sent
  /\ out' = [out EXCEPT !.played = out.sent]
  /\ turn' = [turn EXCEPT ![out.of].heard = out.sent]
  /\ UNCHANGED <<live, setup, stop, lp, feed, worker, recog, ctx, conv, post, marks, budget>>

Text == -1      \* the holder of the turn lock that is no worker
ToPost(pc) == post' = pc
Rest == <<live, setup, stop, lp, feed, worker, recog, ctx, out, marks, turn>>

\* A message is refused while the lock is held.
handlePostMessage ==
  /\ post = "idle" /\ conv.lock = 0 /\ Spend("post")
  /\ ToPost("await") /\ conv' = [conv EXCEPT !.lock = Text]
  /\ UNCHANGED Rest

postAwaits ==
  /\ post = "await" /\ FenceClear /\ ToPost("context")
  /\ UNCHANGED <<conv, budget, Rest>>

\* The client is gone before the fence clears: nothing is written.
postAborts ==
  /\ post = "await" /\ ~FenceClear /\ ToPost("idle") /\ conv' = Unlocked
  /\ UNCHANGED <<budget, Rest>>

postReads == post = "context" /\ ToPost("generate") /\ UNCHANGED <<conv, budget, Rest>>

postEnds ==
  /\ post \in {"context", "generate"} /\ ToPost("idle") /\ conv' = Unlocked
  /\ IF post = "context" THEN Spend("fault") ELSE UNCHANGED budget
  /\ UNCHANGED Rest

textTurn == postAwaits \/ postReads \/ postEnds

-----------------------------------------------------------------------------
Init ==
  /\ live = NotLive /\ setup = {} /\ feed = NoEvents
  /\ stop = [t \in Stoppers |-> NotStopping]
  /\ lp = [g \in Gens |-> FreshPipe] /\ worker = [g \in Gens |-> NoJob]
  /\ recog = [u \in Utterances |-> "none"]
  /\ ctx = [cancelled |-> {}, cut |-> {}, speech |-> 0]
  /\ out = Silent /\ conv = [lock |-> 0, fences |-> 0]
  /\ post = "idle" /\ marks = {}
  /\ turn = [u \in Utterances |-> Unsaid]
  /\ budget = [start |-> MaxStarts, stop |-> MaxStops, post |-> MaxPosts,
               fault |-> MaxFaults]

\* What runs by itself, and what the client and the user do.
Server ==
  \/ finishLive \/ handleLiveEvent \/ markStopped \/ pace \/ textTurn
  \/ \E t \in Stoppers : Stopping(t)
  \/ \E g \in Gens : replyWorker(g)
Client == startLive \/ stopLive("control") \/ CloseSession \/ feedLive
          \/ recordCursor \/ handlePostMessage \/ postAborts

Quiet ==
  /\ stop["close"].pc = "closed" /\ setup = {} /\ marks = {} /\ post = "idle"
  /\ stop["control"].pc = "idle" /\ feed = NoEvents
  /\ \A g \in Gens : At(g, "none") \/ At(g, "exit")

\* The session is closed and every goroutine has ended.
Ended == Quiet /\ UNCHANGED vars

Next == Server \/ Client \/ Ended

Spec == Init /\ [][Next]_vars

Fairness ==
  /\ WF_vars(finishLive) /\ WF_vars(handleLiveEvent) /\ WF_vars(markStopped)
  /\ WF_vars(pace) /\ WF_vars(textTurn)
  /\ \A t \in Stoppers : WF_vars(Stopping(t))
  /\ \A g \in Gens : WF_vars(replyWorker(g))

FairSpec == Spec /\ Fairness

-----------------------------------------------------------------------------
(* Properties.                                                               *)

Turns == 0..MaxUtterances
LiveType == [lp : 0..(MaxStops + 1), gen : 1..(MaxStops + 2), starting : BOOLEAN,
             ready : BOOLEAN, turnRecog : Turns, workerRecog : Turns,
             reply : Turns, replyTurn : Turns]
SetupType == [pc : {"load", "cleanup", "ready"}, gen : 1..(MaxStops + 2)]
StopType == [pc : {"idle", "closing", "teardown", "cancel", "closed"},
             reply : Turns, turn : Turns, at : Nat,
             recogs : SUBSET Utterances, lp : 0..(MaxStops + 1)]
PipeType == [seg : {"idle", "open"}, over : BOOLEAN, barged : BOOLEAN,
             queue : Seq(Utterances), done : BOOLEAN]
FeedType == [pc : {"idle", "opening", "marking"}, lp : 0..(MaxStops + 1),
             evs : Seq({"Open", "BargeIn", "Commit", "Cancel"}), turn : Turns, at : Nat]
JobType == [pc : Steps, u : Turns, fence : BOOLEAN,
            speech : {"none", "run", "cut", "short", "whole"}]
CtxType == [cancelled : SUBSET Utterances, cut : SUBSET Utterances, speech : Turns]
OutType == [of : Turns, running : BOOLEAN, left : Nat, sent : Nat, played : Nat,
            lost : BOOLEAN]
ConvType == [lock : Gens \cup {0, Text}, fences : Int]
TurnType == [reply : {"none", "full", "interrupted", "error"}, at : Nat, heard : Nat,
             whole : BOOLEAN, captured : Nat, unmarked : BOOLEAN]
BudgetType == [{"start", "stop", "post", "fault"} -> Nat]

\* Every variable stays in its type (session.go:60-93, live.go:27-52).
TypeOK ==
  /\ live \in LiveType /\ setup \subseteq SetupType /\ stop \in [Stoppers -> StopType]
  /\ lp \in [Gens -> PipeType] /\ \A g \in Gens : Len(lp[g].queue) <= QueueCap
  /\ feed \in FeedType /\ worker \in [Gens -> JobType]
  /\ recog \in [Utterances -> {"none", "open", "closed"}] /\ ctx \in CtxType
  /\ out \in OutType /\ conv \in ConvType
  /\ post \in {"idle", "await", "context", "generate"}
  /\ marks \subseteq [turn : Utterances, at : Nat]
  /\ turn \in [Utterances -> TurnType] /\ budget \in BudgetType

\* A model is never told of a reply that the user did not hear to the end as
\* if it was heard, unless the mark could not be written
\* (agent/context.go:25-28, server.go:221-227).
Reading == post = "context" \/ \E g \in Gens : At(g, "context")
ContextIsHeard ==
  Reading => \A u \in Utterances :
    turn[u].reply = "full" => turn[u].whole \/ turn[u].unmarked

\* The boundary recorded of an interrupted reply is not beyond what the browser
\* reported of that reply (outbound.go:196-206, live.go:189-195).
BoundaryIsHeard == \A u \in Utterances : turn[u].at <= turn[u].heard

\* Exactly one of stopLive and bargeIn captures a reply (live.go:191-192).
CapturedOnce == \A u \in Utterances : turn[u].captured <= 1

\* An interrupted reply is marked once, and no further than it was heard.
MarksAreTrue == BoundaryIsHeard /\ CapturedOnce

\* An open recognizer has somebody who will close it (live.go:447-451).
InHand(u) ==
  \/ live.turnRecog = u
  \/ \E g \in Gens : worker[g].u = u /\ At(g, "finalize")
  \/ \E g \in Gens : u \in Members(lp[g].queue) /\ ~At(g, "exit")
  \/ \E t \in Stoppers : u \in stop[t].recogs
NoRecognizerLeaks == \A u \in Utterances : recog[u] = "open" => InHand(u)

\* The fences are those somebody holds and will release: no path leaks one
\* or releases it twice (server.go:189-210).
FencesHeld ==
  conv.fences = Cardinality({g \in Gens : worker[g].fence}) + Cardinality(marks)
       + (IF feed.pc = "marking" THEN 1 ELSE 0)
       + Cardinality({t \in Stoppers : stop[t].turn # 0})

\* Neither a recognizer nor a fence is ever left without a holder.
EverythingIsHeld == NoRecognizerLeaks /\ FencesHeld

\* Once live mode is left, a worker finalizes no open recognizer: the stop
\* closes the one in its hand (live.go:235-240, 525-531).
StopAborts ==
  live.lp = 0 /\ (\A t \in Stoppers : stop[t].pc # "teardown")
    => \A g \in Gens : At(g, "finalize") => recog[worker[g].u] # "open"

\* A text message that waits for the fence is answered or given up, whatever
\* the voice session does (server.go:221-245).
PostProceeds == post = "await" ~> post = "idle"

\* The serial worker comes back from every job, so that later turns are not
\* held up (live.go:474-523); no reply waits for its own fence (live.go:753-754).
WorkerReturns == \A g \in Gens : worker[g].u # 0 ~> worker[g].u = 0

\* Neither holds up the other: text and speech share the turn lock and the fence
\* (server.go:200-245).
TurnsGoOn == PostProceeds /\ WorkerReturns
=============================================================================
