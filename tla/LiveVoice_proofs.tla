---------------------------- MODULE LiveVoice_proofs ----------------------------
(* Theorems about live voice, for every number of utterances, stops, starts,   *)
(* posts and faults and every length of a queue.                               *)
(*                                                                             *)
(* IInv is inductive: an utterance is in one place, what live mode says of its *)
(* worker, its reply and its turn is true, the turn lock and the fence say who *)
(* writes the history, a reply is captured once, and each fence is somebody's. *)
(* There is one lemma per step, then the case analysis of Next, then the five  *)
(* theorems.                                                                   *)
EXTENDS LiveVoice, TLAPS, FiniteSetTheorems

-----------------------------------------------------------------------------
(* The inductive invariant. *)

\* The steps of a reply worker: until it owns a reply, until its reply is generated, until it
\* speaks; with the turn lock, and with it after the fence was seen clear; with a playback
\* fence; and those of a reply that may be the current one.
Early == {"finalize", "begin"}
Before == Early \cup {"reply", "claim", "wait", "await", "context", "generate"}
Unspoken == Before \cup {"commit", "fence", "zero", "speak", "reject"}
Locking == {"await", "context", "generate", "commit", "fence", "zero"}
Writing == {"context", "generate", "commit", "zero"}
Speaking == {"reject", "playing", "playout", "short"}
Fencing == Speaking \cup {"speak", "end", "release"}
Replying == (Before \ Early) \cup {"commit", "fence", "speak", "end"} \cup Speaking

\* A live mode is of the latest generation; what was left, or is done, is of an earlier one.
Generations ==
  /\ live.gen = 1 + (MaxStops - budget["stop"])
                + (IF stop["close"].pc \in {"idle", "closing"} THEN 0 ELSE 1)
  /\ live.lp # 0 => /\ live.lp = live.gen /\ ~live.starting
                    /\ stop["close"].pc \in {"idle", "closing"}
  /\ \A g \in Gens : /\ worker[g].pc # "none" => g < live.gen \/ live.lp = g
                     /\ worker[g].pc = "exit" \/ lp[g].done => g < live.gen
  /\ feed.evs # <<>> => feed.lp # 0 /\ (feed.lp < live.gen \/ live.lp = feed.lp)
  /\ feed.pc # "idle" => feed.evs # <<>>
  /\ \A t \in Stoppers : stop[t].lp < live.gen

\* One goroutine enters live mode, and one generation is set up once.
Setups ==
  /\ \A s \in setup : /\ s.gen <= live.gen
                      /\ s.pc = "load" /\ s.gen = live.gen => live.starting
                      /\ s.pc # "load" => s.gen \in Gens /\ worker[s.gen].pc # "none"
  /\ \A s, x \in setup : s.pc # "load" /\ x.pc # "load" /\ s.gen = x.gen => s = x

\* Before live mode is ready nothing of it runs.
Unready ==
  /\ PromptCleanup => \A s \in setup : s.pc = "cleanup" =>
       ~live.starting /\ live.lp \in {0, s.gen} /\ ~live.ready
  /\ \A g \in Gens : worker[g].pc = "none" \/ (live.lp = g /\ ~live.ready) =>
       /\ lp[g].queue = <<>> /\ worker[g].u = 0
       /\ feed.evs # <<>> => feed.lp # g

WorkerOK(w) == /\ w.u = 0 <=> w.pc \in {"none", "idle", "exit"}
               /\ w.fence => w.pc \in Fencing
               /\ w.pc \in Speaking => w.fence
Workers == \A g \in Gens : WorkerOK(worker[g])

\* An utterance is in one place: the turn being heard, a queue or a worker.
Q(g) == lp[g].queue
Places ==
  /\ \A g, h \in Gens : worker[g].u = worker[h].u /\ worker[g].u # 0 => g = h
  /\ \A g, h \in Gens : \A i \in 1..Len(Q(g)), j \in 1..Len(Q(h)) :
       Q(g)[i] = Q(h)[j] => g = h /\ i = j
  /\ \A g, h \in Gens : \A i \in 1..Len(Q(g)) : Q(g)[i] # worker[h].u
  /\ \A g \in Gens : live.turnRecog # 0 =>
       /\ worker[g].u # live.turnRecog
       /\ \A i \in 1..Len(Q(g)) : Q(g)[i] # live.turnRecog
Opened ==
  /\ live.turnRecog # 0 => recog[live.turnRecog] # "none"
  /\ \A g \in Gens : /\ worker[g].u # 0 => recog[worker[g].u] # "none"
                     /\ \A i \in 1..Len(Q(g)) : recog[Q(g)[i]] # "none"

\* Until its worker owns a reply nothing is known of an utterance, and until the reply is
\* spoken nothing was heard of it.
InQ(u, g) == \E i \in 1..Len(Q(g)) : Q(g)[i] = u
Fresh(u) == \/ recog[u] = "none" \/ live.turnRecog = u
            \/ \E g \in Gens : InQ(u, g) \/ (worker[g].u = u /\ worker[g].pc \in Early)
Untouched(u) == /\ turn[u] = Unsaid
                /\ \A t \in Stoppers : stop[t].reply # u
                /\ u \in ctx.cancelled => stop["close"].pc = "closed"
Unheard(u) == /\ turn[u].heard = 0 /\ ~turn[u].whole
              /\ out.of # u /\ ctx.speech # u /\ u \notin ctx.cut
Freshness == \A u \in Utterances : Fresh(u) => Untouched(u) /\ Unheard(u)
Progress == \A g \in Gens :
  /\ worker[g].pc \in Before => turn[worker[g].u] = Unsaid
  /\ worker[g].pc \in {"commit", "zero"} => turn[worker[g].u].captured = 0
  /\ worker[g].pc \in Unspoken => Unheard(worker[g].u)
  /\ worker[g].pc = "playing" => ~turn[worker[g].u].whole

\* What live mode says of its worker, its reply and its turn is true of them.
Replies ==
  /\ live.workerRecog # 0 => live.lp # 0 /\ worker[live.lp].u = live.workerRecog
  /\ live.reply # 0 => /\ live.lp # 0 /\ worker[live.lp].u = live.reply
                       /\ worker[live.lp].pc \in Replying
                       /\ worker[live.lp].pc = "speak" => worker[live.lp].fence
                       /\ live.reply \notin ctx.cancelled
                       /\ \A t \in Stoppers : stop[t].reply # live.reply
  /\ live.replyTurn # 0 => /\ live.replyTurn = live.reply
                           /\ worker[live.lp].pc = "fence" \/ worker[live.lp].fence
                           /\ turn[live.replyTurn].captured = 0
                           /\ out.of \in {0, live.replyTurn}

\* The turn lock has one holder; behind the fence nothing is pending; one reply plays.
Locks ==
  /\ \A g \in Gens : conv.lock = g <=> worker[g].pc \in Locking
  /\ conv.lock = Text <=> post # "idle"
  /\ \A g \in Gens : worker[g].pc \in Writing => conv.fences = 0
  /\ post \in {"context", "generate"} => conv.fences = 0
  /\ \A g, h \in Gens : worker[g].pc = "fence" => ~worker[h].fence
  /\ \A g, h \in Gens : worker[g].fence /\ worker[h].fence => g = h

\* A reply is captured once, with a boundary that was heard.
Captures ==
  /\ CapturedOnce
  /\ \A t \in Stoppers : stop[t].turn # 0 =>
       /\ turn[stop[t].turn].captured = 1 /\ stop[t].at <= turn[stop[t].turn].heard
       /\ \A m \in marks : m.turn # stop[t].turn
       /\ \A x \in Stoppers : stop[x].turn = stop[t].turn => x = t
  /\ \A m \in marks : turn[m.turn].captured = 1 /\ m.at <= turn[m.turn].heard
  /\ feed.pc = "marking" => /\ feed.turn # 0 /\ turn[feed.turn].captured = 1
                            /\ feed.at <= turn[feed.turn].heard
  /\ \A t \in Stoppers : stop[t].pc # "teardown" =>
       stop[t].turn = 0 /\ stop[t].reply = 0 /\ stop[t].recogs = {}

\* The cursor is that of the reply that plays.
Cursor ==
  /\ out.of = 0 => out.left = 0 /\ out.sent = 0 /\ out.played = 0
  /\ out.of # 0 => turn[out.of].heard = out.played
  /\ \A g \in Gens : worker[g].pc \in {"playing", "playout", "short"} => out.of = worker[g].u

\* A full reply was heard to the end, or could not be marked, or somebody is going to mark it:
\* a capture, or the worker that still has it.
Pend(u) == \/ \E t \in Stoppers : stop[t].turn = u
           \/ \E m \in marks : m.turn = u
           \/ feed.pc = "marking" /\ feed.turn = u
Done(u) == turn[u].reply # "full" \/ turn[u].whole \/ turn[u].unmarked
Open(u, g) ==
  /\ worker[g].u = u
  /\ \/ worker[g].pc \in {"commit", "zero", "reject", "short"}
     \/ worker[g].pc \in {"fence", "speak"} /\ live.replyTurn = u
     \/ worker[g].pc = "playing" /\ live.replyTurn = u /\ u \notin ctx.cut /\ out.running
     \/ worker[g].pc = "playout" /\ worker[g].speech = "short"
Settled == PromptCleanup =>
  \A u \in Utterances : Done(u) \/ Pend(u) \/ \E g \in Gens : Open(u, g)

\* The recognizer in the hand of a worker is closed by whoever leaves its live mode.
Aborts == \A g \in Gens : worker[g].pc = "finalize" /\ recog[worker[g].u] = "open" =>
  \/ live.lp = g /\ live.workerRecog = worker[g].u
  \/ \E t \in Stoppers : stop[t].pc = "teardown" /\ worker[g].u \in stop[t].recogs
Opening == feed.pc = "opening" => live.turnRecog = 0

\* Live mode is left until its teardown is over, and has a worker until then.
Modes == /\ \A t \in Stoppers : stop[t].pc = "teardown" =>
                live.lp = 0 /\ (t = "control" => ~live.starting)
         /\ live.lp # 0 => worker[live.lp].pc # "none"
Finite == IsFiniteSet(marks)

IInv == /\ TypeOK /\ Generations /\ Setups /\ Unready /\ Workers /\ Places /\ Opened /\ Freshness
        /\ Progress /\ Replies /\ Locks /\ Captures /\ Cursor /\ Settled /\ Aborts /\ Opening /\ Modes
        /\ Finite /\ BoundaryIsHeard /\ NoRecognizerLeaks /\ FencesHeld

-----------------------------------------------------------------------------
(* What the names range over, and what one assignment changes. *)

NConst == /\ 0 \notin Gens /\ 0 \notin Utterances /\ Text \notin Gens /\ Text # 0
          /\ \A g \in Gens : g \in Nat
NLive == /\ live.lp \in Gens \cup {0} /\ live.gen \in Nat
         /\ live.turnRecog \in Utterances \cup {0} /\ live.workerRecog \in Utterances \cup {0}
         /\ live.reply \in Utterances \cup {0} /\ live.replyTurn \in Utterances \cup {0}
NFeed == feed.lp \in Gens \cup {0} /\ feed.turn \in Utterances \cup {0} /\ feed.at \in Nat
NWorker == \A g \in Gens : worker[g].u \in Utterances \cup {0} /\ worker[g].fence \in BOOLEAN
NQueue == \A g \in Gens : /\ Q(g) \in Seq(Utterances) /\ Len(Q(g)) \in Nat
                          /\ \A i \in 1..Len(Q(g)) : Q(g)[i] \in Utterances
NStop == /\ "close" \in Stoppers /\ "control" \in Stoppers
         /\ \A t \in Stoppers : t = "close" \/ t = "control"
         /\ \A t \in Stoppers :
              /\ stop[t].turn \in Utterances \cup {0} /\ stop[t].at \in Nat
              /\ stop[t].reply \in Utterances \cup {0} /\ stop[t].recogs \subseteq Utterances
              /\ stop[t].lp \in Gens \cup {0}
NOut == /\ out.of \in Utterances \cup {0} /\ out.played \in Nat /\ out.sent \in Nat
        /\ out.left \in Nat /\ out.running \in BOOLEAN
NCtx == /\ ctx.speech \in Utterances \cup {0} /\ ctx.cut \subseteq Utterances
        /\ ctx.cancelled \subseteq Utterances
NConv == conv.lock \in Gens \cup {0, Text} /\ conv.fences \in Int
NTurn == \A u \in Utterances : /\ turn[u].captured \in Nat /\ turn[u].heard \in Nat
                               /\ turn[u].at \in Nat /\ turn[u].whole \in BOOLEAN
NRest == /\ \A m \in marks : m.turn \in Utterances /\ m.at \in Nat
         /\ \A s \in setup : s.gen \in Nat
         /\ budget["stop"] \in Nat
Names == /\ NConst /\ NLive /\ NFeed /\ NWorker /\ NQueue /\ NStop /\ NOut /\ NCtx /\ NConv
         /\ NTurn /\ NRest

\* The types, as facts about the names the proofs use.
LEMMA TypedNames == ASSUME TypeOK PROVE Names
<1>1. /\ 0 \notin Gens /\ 0 \notin Utterances /\ Text \notin Gens /\ Text # 0
      /\ Gens = 1..(MaxStops + 1) /\ Turns = Utterances \cup {0} /\ Gens \subseteq Nat
      /\ 0..(MaxStops + 1) = Gens \cup {0}
  BY VoiceAssumption DEF Gens, Utterances, Text, Turns
<1>2. NConst
  BY <1>1 DEF NConst
<1>3. NLive
  <2>1. live \in LiveType
    BY DEF TypeOK
  <2> QED BY <1>1, <2>1, VoiceAssumption DEF LiveType, NLive
<1>4. NFeed /\ NWorker
  BY <1>1 DEF TypeOK, FeedType, JobType, NFeed, NWorker
<1>5. NQueue
  <2>1. ASSUME NEW g \in Gens
        PROVE  /\ Q(g) \in Seq(Utterances) /\ Len(Q(g)) \in Nat
               /\ \A i \in 1..Len(Q(g)) : Q(g)[i] \in Utterances
    <3>1. Q(g) \in Seq(Utterances)
      BY DEF TypeOK, PipeType, Q
    <3> QED BY <3>1
  <2> QED BY <2>1 DEF NQueue
<1>6. NStop
  BY <1>1 DEF TypeOK, StopType, NStop, Stoppers
<1>7. NOut /\ NCtx /\ NConv
  BY <1>1 DEF TypeOK, OutType, CtxType, ConvType, NOut, NCtx, NConv
<1>8. NTurn
  BY DEF TypeOK, TurnType, NTurn
<1>9. NRest
  BY VoiceAssumption DEF TypeOK, SetupType, BudgetType, NRest
<1> QED BY <1>2, <1>3, <1>4, <1>5, <1>6, <1>7, <1>8, <1>9 DEF Names

\* A worker takes a step: its place, and all of its job.
Moves(g, x) == \A h \in Gens :
  /\ worker'[h].pc = IF h = g THEN x ELSE worker[h].pc
  /\ worker'[h].u = worker[h].u /\ worker'[h].fence = worker[h].fence
  /\ worker'[h].speech = worker[h].speech
Job(g, x, v, f, s) == \A h \in Gens :
  /\ worker'[h].pc = IF h = g THEN x ELSE worker[h].pc
  /\ worker'[h].u = IF h = g THEN v ELSE worker[h].u
  /\ worker'[h].fence = IF h = g THEN f ELSE worker[h].fence
  /\ worker'[h].speech = IF h = g THEN s ELSE worker[h].speech

\* A worker goes to its next step.
LEMMA Went ==
  ASSUME TypeOK, NEW g \in Gens, NEW x \in Steps, worker' = Goto(g, x)
  PROVE  worker' \in [Gens -> JobType] /\ Moves(g, x)
  BY DEF TypeOK, Goto, JobType, Moves

\* A worker takes or leaves a job.
LEMMA Worked ==
  ASSUME TypeOK, NEW g \in Gens, NEW x \in Steps, NEW v \in Turns, NEW f \in BOOLEAN,
         NEW s \in {"none", "run", "cut", "short", "whole"},
         worker' = [worker EXCEPT ![g] = [pc |-> x, u |-> v, fence |-> f, speech |-> s]]
  PROVE  worker' \in [Gens -> JobType] /\ Job(g, x, v, f, s)
  BY DEF TypeOK, JobType, Job

\* What changes of live mode, and of its turns.
Mode(l, g, s, r) == live'.lp = l /\ live'.gen = g /\ live'.starting = s /\ live'.ready = r
SameMode == Mode(live.lp, live.gen, live.starting, live.ready)
Talk(tr, wr, r, rt) ==
  live'.turnRecog = tr /\ live'.workerRecog = wr /\ live'.reply = r /\ live'.replyTurn = rt
SameTalk == Talk(live.turnRecog, live.workerRecog, live.reply, live.replyTurn)

\* Only a stop spends the budget of stops.
LEMMA Spent ==
  ASSUME budget \in BudgetType, NEW what \in {"start", "post", "fault"},
         Spend(what) \/ budget' = budget
  PROVE  budget' \in BudgetType /\ budget'["stop"] = budget["stop"]
  BY DEF BudgetType, Spend

\* What changes of the turns: one of them, in the fields given.
Heard0 == \A v \in Utterances : turn'[v].heard = turn[v].heard
Whole0 == \A v \in Utterances : turn'[v].whole = turn[v].whole
Capt0 == \A v \in Utterances : turn'[v].captured = turn[v].captured
Told0 == \A v \in Utterances : turn'[v].reply = turn[v].reply /\ turn'[v].at = turn[v].at
                               /\ turn'[v].unmarked = turn[v].unmarked
Others(u) == \A v \in Utterances : v # u => turn'[v] = turn[v]

\* A turn is marked, or is known to be unmarked.
Marked(u, at) ==
  /\ Others(u) /\ Heard0 /\ Whole0 /\ Capt0
  /\ turn'[u].at \in {turn[u].at, at}
  /\ turn'[u].reply = "interrupted" \/ turn'[u].unmarked
\* What MarkTurnInterrupted leaves of the turns.
LEMMA Marking ==
  ASSUME turn \in [Utterances -> TurnType], budget \in BudgetType, NEW u \in Utterances,
         NEW at \in Nat, MarkTurnInterrupted(u, at)
  PROVE  /\ turn' \in [Utterances -> TurnType] /\ Marked(u, at)
         /\ budget' \in BudgetType /\ budget'["stop"] = budget["stop"]
<1>1. turn' \in [Utterances -> TurnType]
  <2>1. CASE turn' = [turn EXCEPT ![u].reply = "interrupted", ![u].at = at]
    BY <2>1 DEF TurnType
  <2>2. CASE turn' = [turn EXCEPT ![u].unmarked = TRUE]
    BY <2>2 DEF TurnType
  <2> QED BY <2>1, <2>2 DEF MarkTurnInterrupted
<1>2. Marked(u, at)
  <2>1. CASE turn' = [turn EXCEPT ![u].reply = "interrupted", ![u].at = at]
    BY <2>1 DEF TurnType, Marked, Others, Heard0, Whole0, Capt0
  <2>2. CASE turn' = [turn EXCEPT ![u].unmarked = TRUE]
    BY <2>2 DEF TurnType, Marked, Others, Heard0, Whole0, Capt0
  <2> QED BY <2>1, <2>2 DEF MarkTurnInterrupted
<1>3. budget' \in BudgetType /\ budget'["stop"] = budget["stop"]
  BY Spent DEF MarkTurnInterrupted
<1> QED BY <1>1, <1>2, <1>3

\* Recognizers are closed.
Shut(rs) == \A u \in Utterances : recog'[u] = IF u \in rs THEN "closed" ELSE recog[u]
\* What closing recognizers leaves of them.
LEMMA Closing ==
  ASSUME TypeOK, NEW rs, recog' = Close(rs)
  PROVE  recog' \in [Utterances -> {"none", "open", "closed"}] /\ Shut(rs)
  BY DEF TypeOK, Close, Shut

\* The cut of the current speech, with the replies that are cancelled.
Cuts(rs) == /\ ctx'.cancelled = ctx.cancelled \cup rs /\ ctx'.cut = ctx.cut \cup Some(ctx.speech)
            /\ ctx'.speech = 0
\* What the cut of the speech leaves of the contexts.
LEMMA Cutting ==
  ASSUME TypeOK, NEW rs \in SUBSET Utterances, ctx' = Cancelled(rs)
  PROVE  ctx' \in CtxType /\ Cuts(rs)
<1>1. Some(ctx.speech) \subseteq Utterances /\ 0 \in Turns
  BY VoiceAssumption DEF TypeOK, CtxType, Some, Turns, Utterances
<1> QED BY <1>1 DEF TypeOK, CtxType, Cancelled, Cuts

\* The playback is halted.
Halts == /\ out'.of = out.of /\ out'.running = FALSE /\ out'.left = out.left
         /\ out'.sent = out.sent /\ out'.played = out.played
\* What a halt leaves of the playback.
LEMMA Halting == ASSUME TypeOK, out' = Halted PROVE out' \in OutType /\ Halts
  BY DEF TypeOK, OutType, Halted, Halts

\* A capture of the turn u, or none if it is 0.
Captures1(u) ==
  /\ Others(u) /\ Heard0 /\ Whole0 /\ Told0
  /\ \A v \in Utterances : turn'[v].captured = turn[v].captured + (IF v = u THEN 1 ELSE 0)
  /\ conv'.lock = conv.lock
  /\ conv'.fences = conv.fences + (IF u = 0 THEN 0 ELSE 1)
\* What the capture of a reply leaves of the turns and the fences.
LEMMA Capturing ==
  ASSUME TypeOK, NEW u \in Utterances \cup {0}, conv' = Reserved(u), turn' = Captured(u)
  PROVE  turn' \in [Utterances -> TurnType] /\ conv' \in ConvType /\ Captures1(u)
<1>0. 0 \notin Utterances
  BY DEF Utterances
<1>1. CASE u = 0
  BY <1>0, <1>1 DEF TypeOK, TurnType, ConvType, Captures1, Reserved, Captured, Others, Heard0, Whole0, Told0
<1>2. CASE u \in Utterances
  <2>1. turn' \in [Utterances -> TurnType]
    <3>1. turn \in [Utterances -> TurnType]
      BY DEF TypeOK
    <3>2. turn' = [turn EXCEPT ![u] = [turn[u] EXCEPT !.captured = @ + 1]]
      BY <1>0, <1>2 DEF Captured
    <3>3. [turn[u] EXCEPT !.captured = @ + 1] \in TurnType
      BY <1>2, <3>1 DEF TurnType
    <3> QED BY <1>2, <3>1, <3>2, <3>3
  <2>2. conv' \in ConvType /\ conv'.lock = conv.lock /\ conv'.fences = conv.fences + 1
    BY <1>0, <1>2 DEF TypeOK, ConvType, Reserved
  <2>3. Captures1(u)
    BY <1>0, <1>2, <2>2 DEF TypeOK, TurnType, Captured, Captures1, Others, Heard0, Whole0, Told0
  <2> QED BY <2>1, <2>2, <2>3
<1> QED BY <1>1, <1>2

\* The next event of the chunk is up, if there is one.
Handles == feed'.pc = "idle" /\ (feed'.evs # <<>> => feed'.lp = feed.lp)
\* What is left of a chunk once an event of it is handled.
LEMMA Handling1 ==
  ASSUME TypeOK, feed.evs # <<>>
  PROVE  /\ feed.pc = "idle" /\ feed' = Handled => feed' \in FeedType /\ Handles
         /\ feed' = [Handled EXCEPT !.pc = "idle"] => feed' \in FeedType /\ Handles
         /\ feed' = [Handled EXCEPT !.pc = "idle", !.turn = 0, !.at = 0] =>
              feed' \in FeedType /\ Handles
<1>0. 0 \in Turns /\ 0 \in 0..(MaxStops + 1) /\ <<>> \in Seq({"Open", "BargeIn", "Commit", "Cancel"})
  BY VoiceAssumption DEF Turns
<1>1. /\ NoEvents \in FeedType /\ NoEvents.evs = <<>> /\ NoEvents.pc = "idle"
  BY <1>0 DEF NoEvents, FeedType
<1>8. ASSUME NEW e \in FeedType, e.evs = <<>>
      PROVE  /\ [e EXCEPT !.pc = "idle"] \in FeedType /\ [e EXCEPT !.pc = "idle"].evs = <<>>
             /\ [e EXCEPT !.pc = "idle"].pc = "idle"
             /\ [e EXCEPT !.pc = "idle", !.turn = 0, !.at = 0] \in FeedType
             /\ [e EXCEPT !.pc = "idle", !.turn = 0, !.at = 0].evs = <<>>
             /\ [e EXCEPT !.pc = "idle", !.turn = 0, !.at = 0].pc = "idle"
  BY <1>0, <1>8 DEF FeedType
<1>2. Tail(feed.evs) \in Seq({"Open", "BargeIn", "Commit", "Cancel"})
  BY DEF TypeOK, FeedType
<1> DEFINE r == [feed EXCEPT !.evs = Tail(@)]
<1>3. /\ r \in FeedType /\ r.lp = feed.lp /\ r.pc = feed.pc
      /\ [r EXCEPT !.pc = "idle"] \in FeedType /\ [r EXCEPT !.pc = "idle"].lp = feed.lp
      /\ [r EXCEPT !.pc = "idle"].pc = "idle"
  BY <1>2 DEF TypeOK, FeedType
<1>4. /\ [r EXCEPT !.pc = "idle", !.turn = 0, !.at = 0] \in FeedType
      /\ [r EXCEPT !.pc = "idle", !.turn = 0, !.at = 0].lp = feed.lp
      /\ [r EXCEPT !.pc = "idle", !.turn = 0, !.at = 0].pc = "idle"
  BY <1>0, <1>2 DEF TypeOK, FeedType
<1>5. Handled \in {NoEvents, r}
  BY DEF Handled
<1> HIDE DEF r
<1>6. CASE Handled = NoEvents
  BY <1>1, <1>6, <1>8 DEF Handles
<1>7. CASE Handled = r
  BY <1>3, <1>4, <1>7 DEF Handles
<1> QED BY <1>5, <1>6, <1>7

\* Who holds a fence, and who has captured a turn and not begun to mark it.
Holders == {g \in Gens : worker[g].fence}
Takers == {t \in Stoppers : stop[t].turn # 0}
\* Those who can hold a fence are finitely many.
LEMMA FiniteHolders ==
  ASSUME IInv
  PROVE  /\ IsFiniteSet(Holders) /\ IsFiniteSet(Takers) /\ IsFiniteSet(marks)
         /\ Cardinality(Holders) \in Nat /\ Cardinality(Takers) \in Nat /\ Cardinality(marks) \in Nat
<1>1. IsFiniteSet(Gens) /\ IsFiniteSet(Stoppers)
  <2>1. IsFiniteSet(1..(MaxStops + 1))
    BY FS_Interval, VoiceAssumption
  <2>2. IsFiniteSet({"control"} \cup {"close"})
    BY FS_Singleton, FS_Union
  <2>3. Stoppers = {"control"} \cup {"close"}
    BY DEF Stoppers
  <2> QED BY <2>1, <2>2, <2>3 DEF Gens
<1>2. IsFiniteSet(Holders) /\ IsFiniteSet(Takers)
  BY <1>1, FS_Subset DEF Holders, Takers
<1>3. IsFiniteSet(marks)
  BY DEF IInv, Finite
<1> QED BY <1>2, <1>3, FS_CardinalityType

\* The count of the fences, in the names of this module.
LEMMA CountFences ==
  FencesHeld <=> conv.fences = Cardinality(Holders) + Cardinality(marks)
                               + (IF feed.pc = "marking" THEN 1 ELSE 0) + Cardinality(Takers)
  BY DEF FencesHeld, Holders, Takers

\* Where the fences are clear nobody holds one.
LEMMA NoFences ==
  ASSUME IInv, conv.fences = 0
  PROVE  /\ \A g \in Gens : ~worker[g].fence
         /\ marks = {} /\ feed.pc # "marking" /\ \A t \in Stoppers : stop[t].turn = 0
<1>1. /\ conv.fences = Cardinality(Holders) + Cardinality(marks)
                       + (IF feed.pc = "marking" THEN 1 ELSE 0) + Cardinality(Takers)
  BY CountFences DEF IInv
<1>2. Cardinality(Holders) = 0 /\ Cardinality(marks) = 0 /\ feed.pc # "marking" /\ Cardinality(Takers) = 0
  <2>2. /\ Cardinality(Holders) \in Nat /\ Cardinality(Takers) \in Nat
        /\ Cardinality(marks) \in Nat
    BY FiniteHolders
  <2>3. CASE feed.pc = "marking"
    BY <1>1, <2>2, <2>3
  <2>4. CASE feed.pc # "marking"
    <3>1. ASSUME NEW a \in Nat, NEW b \in Nat, NEW c \in Nat, 0 = a + b + 0 + c
          PROVE  a = 0 /\ b = 0 /\ c = 0
      BY <3>1
    <3>2. 0 = Cardinality(Holders) + Cardinality(marks) + 0 + Cardinality(Takers)
      BY <1>1, <2>4
    <3> HIDE <1>1
    <3> QED BY <2>2, <2>4, <3>1, <3>2
  <2> QED BY <2>3, <2>4
<1>3. Holders = {} /\ marks = {} /\ Takers = {}
  BY <1>2, FiniteHolders, FS_EmptySet
<1> QED BY <1>2, <1>3 DEF Holders, Takers

\* A turn is an utterance or none.
LEMMA TurnsAre == 0 \in Turns /\ \A u \in Utterances : u \in Turns
  BY VoiceAssumption DEF Turns, Utterances

\* What changes of the queues and of what a stop has taken.
Queued(g, q) == \A h \in Gens : /\ lp'[h].queue = (IF h = g THEN q ELSE lp[h].queue)
                                /\ lp'[h].done = lp[h].done
Stopped(t, pc, reply, u, at, recogs, g) == \A x \in Stoppers :
  /\ stop'[x].pc = IF x = t THEN pc ELSE stop[x].pc
  /\ stop'[x].reply = IF x = t THEN reply ELSE stop[x].reply
  /\ stop'[x].turn = IF x = t THEN u ELSE stop[x].turn
  /\ stop'[x].at = IF x = t THEN at ELSE stop[x].at
  /\ stop'[x].recogs = IF x = t THEN recogs ELSE stop[x].recogs
  /\ stop'[x].lp = IF x = t THEN g ELSE stop[x].lp

\* Where nobody takes or gives a fence, the count stays true.
LEMMA FencesKept ==
  ASSUME FencesHeld, Holders' = Holders, Takers' = Takers, marks' = marks,
         conv'.fences = conv.fences, feed'.pc = "marking" <=> feed.pc = "marking"
  PROVE  FencesHeld'
<1>1. conv.fences = Cardinality(Holders) + Cardinality(marks)
                    + (IF feed.pc = "marking" THEN 1 ELSE 0) + Cardinality(Takers)
  BY CountFences
<1>2. FencesHeld' <=>
        conv'.fences = Cardinality(Holders') + Cardinality(marks')
                       + (IF feed'.pc = "marking" THEN 1 ELSE 0) + Cardinality(Takers')
  BY DEF FencesHeld, Holders, Takers
<1> QED BY <1>1, <1>2

\* A worker that has a job has an utterance.
LEMMA Busy ==
  ASSUME IInv
  PROVE  \A g \in Gens : worker[g].pc \notin {"none", "idle", "exit"} =>
           worker[g].u \in Utterances /\ worker[g].u # 0
<1>1. \A g \in Gens : WorkerOK(worker[g])
  BY DEF IInv, Workers
<1>2. NWorker /\ NConst
  BY TypedNames DEF IInv, Names
<1> QED BY <1>1, <1>2 DEF WorkerOK, NWorker, NConst

\* The ways of a worker that change nothing else.
Paths == {<<"begin", "clear">>, <<"reply", "claim">>, <<"reply", "end">>, <<"claim", "wait">>,
          <<"wait", "end">>, <<"context", "generate">>, <<"commit", "zero">>, <<"speak", "end">>}
Passes(g, x) ==
  /\ worker' = Goto(g, x) /\ <<worker[g].pc, x>> \in Paths
  /\ worker[g].pc = "commit" => ~Current(g)
  /\ worker[g].pc = "speak" => ~MaySpeak(g)
  /\ UNCHANGED <<live, setup, stop, lp, feed, recog, ctx, out, conv, post, marks, turn, budget>>
Drains(g) ==
  /\ worker[g].pc = "idle" /\ (lp[g].done \/ live.lp # g)
  /\ lp' = [lp EXCEPT ![g].queue = <<>>] /\ recog' = Drained(g) /\ worker' = Goto(g, "exit")
  /\ UNCHANGED <<live, setup, stop, feed, ctx, out, conv, post, marks, turn, budget>>
Drops ==
  /\ feed.pc = "idle" /\ feed.evs # <<>> /\ live.lp = feed.lp
  /\ feed' = Handled /\ live' = [live EXCEPT !.turnRecog = 0] /\ recog' = Close(Some(live.turnRecog))
  /\ UNCHANGED <<setup, stop, lp, worker, ctx, out, conv, post, marks, turn, budget>>
Speaks(g) ==
  /\ worker[g].pc = "speak" /\ MaySpeak(g)
  /\ out' = [Silent EXCEPT !.of = worker[g].u, !.running = TRUE, !.left = Length]
  /\ ctx' = [ctx EXCEPT !.cut = @ \cup Some(ctx.speech), !.speech = worker[g].u]
  /\ worker' = [worker EXCEPT ![g].pc = "playing", ![g].speech = "run"]
  /\ UNCHANGED <<live, setup, stop, lp, feed, recog, conv, post, marks, turn, budget>>

\* A worker that owns a reply has nothing fresh; the current reply is that of a worker.
LEMMA NotFresh ==
  ASSUME IInv
  PROVE  \A g \in Gens : worker[g].u \in Utterances /\ worker[g].pc \notin Early => ~Fresh(worker[g].u)
<1>1. Places /\ Opened
  BY DEF IInv
<1>2. NConst
  BY TypedNames DEF IInv, Names
<1>3. SUFFICES ASSUME NEW g \in Gens, worker[g].u \in Utterances, worker[g].pc \notin Early,
                      Fresh(worker[g].u)
               PROVE  FALSE
  OBVIOUS
<1>4. worker[g].u # 0
  BY <1>2, <1>3 DEF NConst
<1>5. recog[worker[g].u] # "none" /\ live.turnRecog # worker[g].u
  BY <1>1, <1>3, <1>4 DEF Places, Opened
<1>6. ASSUME NEW h \in Gens PROVE ~InQ(worker[g].u, h)
  BY <1>1, <1>3, <1>4 DEF Places, InQ
<1>7. ASSUME NEW h \in Gens, worker[h].u = worker[g].u PROVE worker[h].pc \notin Early
  BY <1>1, <1>3, <1>4, <1>7 DEF Places
<1> QED BY <1>3, <1>5, <1>6, <1>7 DEF Fresh

\* The current reply is that of the worker of live mode, and of no other.
LEMMA ReplyOf ==
  ASSUME IInv, live.reply # 0
  PROVE  /\ live.reply \in Utterances /\ live.lp \in Gens /\ worker[live.lp].u = live.reply
         /\ worker[live.lp].pc \in Replying /\ ~Fresh(live.reply)
         /\ \A g \in Gens : worker[g].u = live.reply => g = live.lp
<1>1. Replies /\ Places
  BY DEF IInv
<1>2. NLive
  BY TypedNames DEF IInv, Names
<1>3. /\ live.reply \in Utterances /\ live.lp \in Gens /\ worker[live.lp].u = live.reply
      /\ worker[live.lp].pc \in Replying
  BY <1>1, <1>2 DEF Replies, NLive
<1>4. worker[live.lp].pc \notin Early
  BY <1>3 DEF Replying, Before, Early, Speaking
<1>5. ~Fresh(live.reply)
  BY <1>3, <1>4, NotFresh
<1> QED BY <1>1, <1>3, <1>5 DEF Places

\* A committed reply that is current has, or is about to reserve, the fence.
LEMMA ReplyTurnOf ==
  ASSUME IInv, live.replyTurn # 0
  PROVE  /\ live.replyTurn = live.reply /\ live.reply # 0
         /\ turn[live.replyTurn].captured = 0 /\ out.of \in {0, live.replyTurn}
         /\ worker[live.lp].pc \in Fencing \cup {"fence"}
         /\ \A g \in Gens : worker[g].pc \notin Writing
         /\ post \notin {"context", "generate"}
<1>1. Replies /\ Workers /\ Locks
  BY DEF IInv
<1>2. NLive /\ NConst
  BY TypedNames DEF IInv, Names
<1>3. /\ live.replyTurn = live.reply /\ live.reply # 0 /\ live.lp \in Gens
      /\ turn[live.replyTurn].captured = 0 /\ out.of \in {0, live.replyTurn}
      /\ worker[live.lp].pc = "fence" \/ worker[live.lp].fence
  BY <1>1, <1>2 DEF Replies, NLive
<1>4. worker[live.lp].pc \in Fencing \cup {"fence"}
  BY <1>1, <1>3 DEF Workers, WorkerOK
<1>5. CASE worker[live.lp].fence
  <2>1. conv.fences # 0
    BY <1>3, <1>5, NoFences
  <2> QED BY <1>1, <1>3, <1>4, <2>1 DEF Locks
<1>6. CASE worker[live.lp].pc = "fence"
  <2>1. conv.lock = live.lp
    BY <1>1, <1>3, <1>6 DEF Locks, Locking
  <2>2. \A g \in Gens : worker[g].pc \in Writing => g = live.lp
    BY <1>1, <2>1 DEF Locks, Locking, Writing
  <2>3. \A g \in Gens : worker[g].pc \notin Writing
    BY <1>6, <2>2 DEF Writing
  <2>4. conv.lock # Text
    BY <1>2, <1>3, <2>1 DEF NConst
  <2> QED BY <1>1, <1>3, <1>4, <2>3, <2>4 DEF Locks
<1> QED BY <1>3, <1>5, <1>6

\* A turn that is captured is nobody's who has not committed it, and is not fresh.
LEMMA CapturedTurn ==
  ASSUME IInv, NEW u \in Utterances, turn[u].captured = 1
  PROVE  /\ ~Fresh(u)
         /\ \A g \in Gens : worker[g].pc \in Before => worker[g].u # u
<1>1. Freshness /\ Progress
  BY DEF IInv
<1>2. turn[u] # Unsaid
  BY DEF Unsaid
<1> QED BY <1>1, <1>2 DEF Freshness, Untouched, Progress

\* What was heard of an utterance is not touched.
LEMMA UnheardKept ==
  ASSUME Heard0, Whole0, out' = out, ctx' = ctx
  PROVE  \A v \in Utterances : Unheard(v) => Unheard(v)'
  BY DEF Heard0, Whole0, Unheard

-----------------------------------------------------------------------------
(* Entering live mode: one goroutine at a time.                              *)

\* A client message enters live mode.
LEMMA StartLiveKeeps ==
  ASSUME IInv, startLive
  PROVE  IInv'
<1>1. /\ TypeOK /\ Generations /\ Setups /\ Unready /\ Workers /\ Places /\ Opened /\ Freshness
      /\ Progress /\ Replies /\ Locks /\ Captures /\ Cursor /\ Settled /\ Aborts /\ Opening
      /\ Modes /\ Finite /\ BoundaryIsHeard /\ NoRecognizerLeaks /\ FencesHeld
  BY DEF IInv
<1>2. Names
  BY <1>1, TypedNames
<1>3. live' \in LiveType /\ Mode(live.lp, live.gen, TRUE, live.ready) /\ SameTalk
  BY <1>1 DEF startLive, TypeOK, LiveType, Mode, SameMode, Talk, SameTalk
<1>4. /\ live.lp = 0 /\ ~live.starting
      /\ setup' = setup \cup {[pc |-> "load", gen |-> live.gen]}
      /\ PromptCleanup => \A s \in setup : s.pc # "cleanup"
      /\ [pc |-> "load", gen |-> live.gen] \in SetupType
  BY <1>1 DEF startLive, TypeOK, LiveType, SetupType
<1>5. budget' \in BudgetType /\ budget'["stop"] = budget["stop"]
  BY <1>1, Spent DEF startLive, TypeOK
<1>6. /\ stop' = stop /\ lp' = lp /\ feed' = feed /\ worker' = worker /\ recog' = recog
      /\ ctx' = ctx /\ out' = out /\ conv' = conv /\ post' = post /\ marks' = marks
      /\ turn' = turn
  BY DEF startLive
<1>20. TypeOK'
  BY <1>1, <1>3, <1>4, <1>5, <1>6 DEF TypeOK
<1>21. Generations'
  BY <1>1, <1>2, <1>3, <1>4, <1>5, <1>6 DEF Generations, Mode, SameTalk, Talk, Names, NConst
<1>22. Setups'
  BY <1>1, <1>2, <1>3, <1>4, <1>6 DEF Setups, Mode, SameTalk, Talk, Names, NConst, NLive,
     NWorker, NRest
<1>23. Unready'
  BY <1>1, <1>3, <1>4, <1>6 DEF Unready, Mode, SameTalk, Talk
<1>24. Workers'
  BY <1>1, <1>6 DEF Workers, WorkerOK, Fencing, Speaking
<1>25. Places'
  BY <1>1, <1>3, <1>6 DEF Places, Q, Mode, SameTalk, Talk
<1>26. Opened'
  BY <1>1, <1>3, <1>6 DEF Opened, Q, Mode, SameTalk, Talk
<1>27. Freshness'
  BY <1>1, <1>3, <1>6 DEF Freshness, Fresh, InQ, Untouched, Unheard, Q, Early, Mode, SameTalk,
     Talk
<1>28. Progress'
  BY <1>1, <1>6 DEF Progress, Unheard, Unspoken, Before, Early
<1>29. Replies'
  BY <1>1, <1>3, <1>6 DEF Replies, Replying, Before, Early, Speaking, Mode, SameTalk, Talk
<1>30. Locks'
  BY <1>1, <1>6 DEF Locks, Locking, Writing
<1>31. Captures'
  BY <1>1, <1>6 DEF Captures, CapturedOnce
<1>32. Cursor'
  BY <1>1, <1>6 DEF Cursor
<1>33. Settled'
  BY <1>1, <1>3, <1>6 DEF Settled, Done, Pend, Open, Mode, SameTalk, Talk
<1>34. Aborts'
  BY <1>1, <1>3, <1>6 DEF Aborts, Mode, SameTalk, Talk
<1>35. Opening'
  BY <1>1, <1>3, <1>6 DEF Opening, Mode, SameTalk, Talk
<1>36. Modes'
  <2>1. stop["control"].pc = "idle" /\ live'.lp = live.lp
    BY <1>3 DEF startLive, Mode
  <2> QED BY <1>1, <1>2, <2>1, <1>6 DEF Modes, Names, NStop
<1>37. Finite'
  BY <1>1, <1>6 DEF Finite
<1>38. BoundaryIsHeard'
  BY <1>1, <1>6 DEF BoundaryIsHeard
<1>39. NoRecognizerLeaks'
  BY <1>1, <1>3, <1>6 DEF NoRecognizerLeaks, InHand, Members, At, Mode, SameTalk, Talk
<1>40. FencesHeld'
  BY <1>1, <1>6, FencesKept DEF Holders, Takers
<1> QED BY <1>20, <1>21, <1>22, <1>23, <1>24, <1>25, <1>26, <1>27, <1>28, <1>29, <1>30, <1>31,
   <1>32, <1>33, <1>34, <1>35, <1>36, <1>37, <1>38, <1>39, <1>40 DEF IInv

\* A start fails to load what it needs.
LEMMA FailLiveStartKeeps ==
  ASSUME IInv, NEW s \in setup, failLiveStart(s)
  PROVE  IInv'
<1>1. /\ TypeOK /\ Generations /\ Setups /\ Unready /\ Workers /\ Places /\ Opened /\ Freshness
      /\ Progress /\ Replies /\ Locks /\ Captures /\ Cursor /\ Settled /\ Aborts /\ Opening
      /\ Modes /\ Finite /\ BoundaryIsHeard /\ NoRecognizerLeaks /\ FencesHeld
  BY DEF IInv
<1>2. Names
  BY <1>1, TypedNames
<1>3. live' \in LiveType /\ Mode(live.lp, live.gen, live.starting /\ live.gen # s.gen, live.ready) /\ SameTalk
  BY <1>1 DEF failLiveStart, TypeOK, LiveType, Mode, SameMode, Talk, SameTalk
<1>4. s.pc = "load" /\ setup' = setup \ {s}
  BY DEF failLiveStart
<1>5. \A x \in setup : x.pc = "load" /\ x.gen = s.gen => x = s
  BY <1>1, <1>4 DEF TypeOK, SetupType
<1>6. budget' \in BudgetType /\ budget'["stop"] = budget["stop"]
  BY <1>1, Spent DEF failLiveStart, TypeOK
<1>7. /\ stop' = stop /\ lp' = lp /\ feed' = feed /\ worker' = worker /\ recog' = recog
      /\ ctx' = ctx /\ out' = out /\ conv' = conv /\ post' = post /\ marks' = marks
      /\ turn' = turn
  BY DEF failLiveStart
<1>20. TypeOK'
  BY <1>1, <1>3, <1>4, <1>5, <1>6, <1>7 DEF TypeOK
<1>21. Generations'
  BY <1>1, <1>3, <1>5, <1>6, <1>7 DEF Generations, Mode, SameTalk, Talk
<1>22. Setups'
  BY <1>1, <1>3, <1>4, <1>5, <1>7 DEF Setups, Mode, SameTalk, Talk
<1>23. Unready'
  BY <1>1, <1>3, <1>4, <1>5, <1>7 DEF Unready, Mode, SameTalk, Talk
<1>24. Workers'
  BY <1>1, <1>7 DEF Workers, WorkerOK, Fencing, Speaking
<1>25. Places'
  BY <1>1, <1>3, <1>5, <1>7 DEF Places, Q, Mode, SameTalk, Talk
<1>26. Opened'
  BY <1>1, <1>3, <1>5, <1>7 DEF Opened, Q, Mode, SameTalk, Talk
<1>27. Freshness'
  BY <1>1, <1>3, <1>5, <1>7 DEF Freshness, Fresh, InQ, Untouched, Unheard, Q, Early, Mode,
     SameTalk, Talk
<1>28. Progress'
  BY <1>1, <1>7 DEF Progress, Unheard, Unspoken, Before, Early
<1>29. Replies'
  BY <1>1, <1>3, <1>5, <1>7 DEF Replies, Replying, Before, Early, Speaking, Mode, SameTalk, Talk
<1>30. Locks'
  BY <1>1, <1>7 DEF Locks, Locking, Writing
<1>31. Captures'
  BY <1>1, <1>7 DEF Captures, CapturedOnce
<1>32. Cursor'
  BY <1>1, <1>7 DEF Cursor
<1>33. Settled'
  BY <1>1, <1>3, <1>5, <1>7 DEF Settled, Done, Pend, Open, Mode, SameTalk, Talk
<1>34. Aborts'
  BY <1>1, <1>3, <1>5, <1>7 DEF Aborts, Mode, SameTalk, Talk
<1>35. Opening'
  BY <1>1, <1>3, <1>5, <1>7 DEF Opening, Mode, SameTalk, Talk
<1>36. Modes'
  BY <1>1, <1>3, <1>5, <1>7 DEF Modes, Mode, SameTalk, Talk
<1>37. Finite'
  BY <1>1, <1>7 DEF Finite
<1>38. BoundaryIsHeard'
  BY <1>1, <1>7 DEF BoundaryIsHeard
<1>39. NoRecognizerLeaks'
  BY <1>1, <1>3, <1>5, <1>7 DEF NoRecognizerLeaks, InHand, Members, At, Mode, SameTalk, Talk
<1>40. FencesHeld'
  BY <1>1, <1>7, FencesKept DEF Holders, Takers
<1> QED BY <1>20, <1>21, <1>22, <1>23, <1>24, <1>25, <1>26, <1>27, <1>28, <1>29, <1>30, <1>31,
   <1>32, <1>33, <1>34, <1>35, <1>36, <1>37, <1>38, <1>39, <1>40 DEF IInv

\* A start that was superseded is given up.
LEMMA SupersededKeeps ==
  ASSUME IInv, NEW s \in setup, setup' = setup \ {s},
         UNCHANGED <<live, stop, lp, feed, worker, recog, ctx, out, conv, post, marks, turn, budget>>
  PROVE  IInv'
<1>1. /\ TypeOK /\ Generations /\ Setups /\ Unready /\ Workers /\ Places /\ Opened /\ Freshness
      /\ Progress /\ Replies /\ Locks /\ Captures /\ Cursor /\ Settled /\ Aborts /\ Opening
      /\ Modes /\ Finite /\ BoundaryIsHeard /\ NoRecognizerLeaks /\ FencesHeld
  BY DEF IInv
<1>2. Names
  BY <1>1, TypedNames
<1>3. /\ live' = live /\ stop' = stop /\ lp' = lp /\ feed' = feed /\ worker' = worker
      /\ recog' = recog /\ ctx' = ctx /\ out' = out /\ conv' = conv /\ post' = post
      /\ marks' = marks /\ turn' = turn /\ budget' = budget
  OBVIOUS
<1>20. TypeOK'
  BY <1>1, <1>3 DEF TypeOK
<1>21. Generations'
  BY <1>1, <1>3 DEF Generations
<1>22. Setups'
  BY <1>1, <1>3 DEF Setups
<1>23. Unready'
  BY <1>1, <1>3 DEF Unready
<1>24. Workers'
  BY <1>1, <1>3 DEF Workers, WorkerOK, Fencing, Speaking
<1>25. Places'
  BY <1>1, <1>3 DEF Places, Q
<1>26. Opened'
  BY <1>1, <1>3 DEF Opened, Q
<1>27. Freshness'
  BY <1>1, <1>3 DEF Freshness, Fresh, InQ, Untouched, Unheard, Q, Early
<1>28. Progress'
  BY <1>1, <1>3 DEF Progress, Unheard, Unspoken, Before, Early
<1>29. Replies'
  BY <1>1, <1>3 DEF Replies, Replying, Before, Early, Speaking
<1>30. Locks'
  BY <1>1, <1>3 DEF Locks, Locking, Writing
<1>31. Captures'
  BY <1>1, <1>3 DEF Captures, CapturedOnce
<1>32. Cursor'
  BY <1>1, <1>3 DEF Cursor
<1>33. Settled'
  BY <1>1, <1>3 DEF Settled, Done, Pend, Open
<1>34. Aborts'
  BY <1>1, <1>3 DEF Aborts
<1>35. Opening'
  BY <1>1, <1>3 DEF Opening
<1>36. Modes'
  BY <1>1, <1>3 DEF Modes
<1>37. Finite'
  BY <1>1, <1>3 DEF Finite
<1>38. BoundaryIsHeard'
  BY <1>1, <1>3 DEF BoundaryIsHeard
<1>39. NoRecognizerLeaks'
  BY <1>1, <1>3 DEF NoRecognizerLeaks, InHand, Members, At
<1>40. FencesHeld'
  BY <1>1, <1>3, FencesKept DEF Holders, Takers
<1> QED BY <1>20, <1>21, <1>22, <1>23, <1>24, <1>25, <1>26, <1>27, <1>28, <1>29, <1>30, <1>31,
   <1>32, <1>33, <1>34, <1>35, <1>36, <1>37, <1>38, <1>39, <1>40 DEF IInv

\* A start that is still of the current generation installs its live mode.
LEMMA InstallKeeps ==
  ASSUME IInv, NEW s \in setup, install(s), ~Superseded(s)
  PROVE  IInv'
<1>1. /\ TypeOK /\ Generations /\ Setups /\ Unready /\ Workers /\ Places /\ Opened /\ Freshness
      /\ Progress /\ Replies /\ Locks /\ Captures /\ Cursor /\ Settled /\ Aborts /\ Opening
      /\ Modes /\ Finite /\ BoundaryIsHeard /\ NoRecognizerLeaks /\ FencesHeld
  BY DEF IInv
<1>2. Names
  BY <1>1, TypedNames
<1>3. s.pc = "load" /\ s.gen = live.gen /\ stop["close"].pc = "idle"
  BY DEF install, Superseded, Closed
<1>4. PICK r \in SetupType : r.gen = s.gen /\ r.pc = "cleanup" /\ setup' = (setup \ {s}) \cup {r}
  <2> DEFINE r == [s EXCEPT !.pc = "cleanup"]
  <2>1. r \in SetupType /\ r.gen = s.gen /\ r.pc = "cleanup"
    BY <1>1 DEF TypeOK, SetupType
  <2>2. setup' = (setup \ {s}) \cup {r}
    BY DEF install, Superseded
  <2> QED BY <2>1, <2>2
<1>5. live.starting /\ live.lp = 0
  BY <1>1, <1>3 DEF Setups, Generations
<1>6. s.gen \in Gens
  <2>0. stop["close"].pc \in {"idle", "closing"}
    BY <1>3
  <2>1. live.gen = 1 + (MaxStops - budget["stop"]) + 0
    BY <1>1, <2>0 DEF Generations
  <2>2. budget["stop"] \in Nat
    BY <1>2 DEF Names, NRest
  <2>3. live.gen \in 1..(MaxStops + 2)
    BY <1>1 DEF TypeOK, LiveType
  <2> QED BY <1>3, <2>1, <2>2, <2>3, VoiceAssumption DEF Gens
<1>7. worker[s.gen].pc = "none"
  BY <1>1, <1>2, <1>3, <1>5, <1>6 DEF Generations, Names, NConst
<1>8. live' \in LiveType /\ Mode(s.gen, live.gen, FALSE, FALSE) /\ SameTalk
  <2>1. s.gen \in 0..(MaxStops + 1)
    BY <1>6, VoiceAssumption DEF Gens
  <2> QED BY <1>1, <1>3, <2>1 DEF install, TypeOK, LiveType, Mode, SameTalk, Talk
<1>9. worker' \in [Gens -> JobType] /\ Moves(s.gen, "idle")
  BY <1>1, <1>3, <1>6, Went DEF install, Superseded, Closed, Goto, Steps
<1>10. /\ stop' = stop /\ lp' = lp /\ feed' = feed /\ recog' = recog /\ ctx' = ctx /\ out' = out
       /\ conv' = conv /\ post' = post /\ marks' = marks /\ turn' = turn /\ budget' = budget
  BY DEF install, Superseded
<1>20. TypeOK'
  BY <1>1, <1>3, <1>4, <1>5, <1>6, <1>7, <1>8, <1>9, <1>10 DEF TypeOK
<1>21. Generations'
  BY <1>1, <1>2, <1>3, <1>4, <1>5, <1>6, <1>7, <1>8, <1>9, <1>10 DEF Generations, Mode, SameTalk,
     Talk, Moves, Names, NConst
<1>22. Setups'
  <2>1. \A x \in setup : x.pc = "load" /\ x.gen = s.gen => x = s
    BY <1>1, <1>3 DEF TypeOK, SetupType
  <2>2. \A x \in setup : x.pc # "load" => x.gen # s.gen
    BY <1>1, <1>7 DEF Setups
  <2>3. \A x \in setup' : /\ x.gen <= live'.gen
                          /\ x.pc = "load" /\ x.gen = live'.gen => live'.starting
                          /\ x.pc # "load" => x.gen \in Gens /\ worker'[x.gen].pc # "none"
    BY <1>1, <1>3, <1>4, <1>6, <1>8, <1>9, <2>1 DEF Setups, Mode, Moves
  <2>4. \A x, y \in setup' : x.pc # "load" /\ y.pc # "load" /\ x.gen = y.gen => x = y
    BY <1>1, <1>3, <1>4, <2>2 DEF Setups
  <2> QED BY <2>3, <2>4 DEF Setups
<1>23. Unready'
  BY <1>1, Busy, <1>3, <1>4, <1>5, <1>6, <1>7, <1>8, <1>9, <1>10 DEF Unready, Mode, SameTalk,
     Talk, Moves, Some
<1>24. Workers'
  BY <1>1, <1>3, <1>5, <1>6, <1>7, <1>9, <1>10 DEF Workers, WorkerOK, Fencing, Speaking, Moves
<1>25. Places'
  BY <1>1, <1>3, <1>5, <1>6, <1>7, <1>8, <1>9, <1>10 DEF Places, Q, Mode, SameTalk, Talk, Moves
<1>26. Opened'
  BY <1>1, <1>3, <1>5, <1>6, <1>7, <1>8, <1>9, <1>10 DEF Opened, Q, Mode, SameTalk, Talk, Moves
<1>27. Freshness'
  BY <1>1, <1>3, <1>5, <1>6, <1>7, <1>8, <1>9, <1>10 DEF Freshness, Fresh, InQ, Untouched,
     Unheard, Q, Early, Mode, SameTalk, Talk, Moves
<1>28. Progress'
  BY <1>1, <1>3, <1>5, <1>6, <1>7, <1>9, <1>10 DEF Progress, Unheard, Unspoken, Before, Early,
     Moves
<1>29. Replies'
  BY <1>1, <1>3, <1>5, <1>6, <1>7, <1>8, <1>9, <1>10 DEF Replies, Replying, Before, Early,
     Speaking, Mode, SameTalk, Talk, Moves
<1>30. Locks'
  BY <1>1, <1>3, <1>5, <1>6, <1>7, <1>9, <1>10 DEF Locks, Locking, Writing, Moves
<1>31. Captures'
  BY <1>1, <1>10 DEF Captures, CapturedOnce
<1>32. Cursor'
  BY <1>1, <1>3, <1>5, <1>6, <1>7, <1>9, <1>10 DEF Cursor, Moves
<1>33. Settled'
  BY <1>1, <1>3, <1>5, <1>6, <1>7, <1>8, <1>9, <1>10 DEF Settled, Done, Pend, Open, Mode,
     SameTalk, Talk, Moves
<1>34. Aborts'
  BY <1>1, <1>2, <1>3, <1>5, <1>6, <1>7, <1>8, <1>9, <1>10 DEF Aborts, Mode, SameTalk, Talk,
     Moves, Names, NConst, NLive, NWorker, NStop
<1>35. Opening'
  BY <1>1, <1>3, <1>5, <1>6, <1>7, <1>8, <1>10 DEF Opening, Mode, SameTalk, Talk
<1>36. Modes'
  <2>1. \A x \in Stoppers : stop[x].pc # "teardown"
    BY <1>1, <1>2, <1>3, <1>5 DEF Modes, Names, NStop
  <2>2. live'.lp = s.gen /\ worker'[s.gen].pc # "none"
    BY <1>6, <1>8, <1>9 DEF Mode, Moves
  <2> QED BY <2>1, <2>2, <1>10 DEF Modes
<1>37. Finite'
  BY <1>1, <1>10 DEF Finite
<1>38. BoundaryIsHeard'
  BY <1>1, <1>10 DEF BoundaryIsHeard
<1>39. NoRecognizerLeaks'
  BY <1>1, <1>3, <1>5, <1>6, <1>7, <1>8, <1>9, <1>10 DEF NoRecognizerLeaks, InHand, Members, At,
     Mode, SameTalk, Talk, Moves
<1>40. FencesHeld'
  <2>1. Holders' = Holders
    BY <1>9, <1>10 DEF Holders, Moves
  <2>2. Takers' = Takers
    BY <1>10 DEF Takers
  <2> QED BY <1>1, <2>1, <2>2, <1>3, <1>5, <1>6, <1>7, <1>10, FencesKept
<1> QED BY <1>20, <1>21, <1>22, <1>23, <1>24, <1>25, <1>26, <1>27, <1>28, <1>29, <1>30, <1>31,
   <1>32, <1>33, <1>34, <1>35, <1>36, <1>37, <1>38, <1>39, <1>40 DEF IInv

\* The cleanup that ends a start stops manual playback.
LEMMA CleanupKeeps ==
  ASSUME IInv, NEW s \in setup, cleanup(s)
  PROVE  IInv'
<1>1. /\ TypeOK /\ Generations /\ Setups /\ Unready /\ Workers /\ Places /\ Opened /\ Freshness
      /\ Progress /\ Replies /\ Locks /\ Captures /\ Cursor /\ Settled /\ Aborts /\ Opening
      /\ Modes /\ Finite /\ BoundaryIsHeard /\ NoRecognizerLeaks /\ FencesHeld
  BY DEF IInv
<1>2. Names
  BY <1>1, TypedNames
<1>3. s.pc = "cleanup"
  BY DEF cleanup
<1>4. PICK r \in SetupType : r.gen = s.gen /\ r.pc = "ready" /\ setup' = (setup \ {s}) \cup {r}
  <2> DEFINE r == [s EXCEPT !.pc = "ready"]
  <2>1. r \in SetupType /\ r.gen = s.gen /\ r.pc = "ready"
    BY <1>1 DEF TypeOK, SetupType
  <2>2. setup' = (setup \ {s}) \cup {r}
    BY DEF cleanup
  <2> QED BY <2>1, <2>2
<1>5. out' \in OutType /\ Halts
  BY <1>1, Halting DEF cleanup
<1>6. ctx' \in CtxType /\ Cuts({})
  BY <1>1, Cutting DEF cleanup
<1>7. /\ live' = live /\ stop' = stop /\ lp' = lp /\ feed' = feed /\ worker' = worker
      /\ recog' = recog /\ conv' = conv /\ post' = post /\ marks' = marks /\ turn' = turn
      /\ budget' = budget
  BY DEF cleanup
<1>20. TypeOK'
  BY <1>1, <1>3, <1>4, <1>5, <1>6, <1>7 DEF TypeOK
<1>21. Generations'
  BY <1>1, <1>7 DEF Generations
<1>22. Setups'
  BY <1>1, Busy, <1>3, <1>4, <1>7 DEF Setups, Some
<1>23. Unready'
  BY <1>1, <1>3, <1>4, <1>7 DEF Unready
<1>24. Workers'
  BY <1>1, <1>7 DEF Workers, WorkerOK, Fencing, Speaking
<1>25. Places'
  BY <1>1, <1>7 DEF Places, Q
<1>26. Opened'
  BY <1>1, <1>7 DEF Opened, Q
<1>27. Freshness'
  BY <1>1, <1>3, <1>4, <1>5, <1>6, <1>7, VoiceAssumption DEF Freshness, Fresh, InQ, Untouched,
     Unheard, Q, Early, Halts, Cuts, Utterances, Gens, Some
<1>28. Progress'
  BY <1>1, Busy, <1>3, <1>5, <1>6, <1>7 DEF Progress, Unheard, Unspoken, Before, Early, Halts,
     Cuts, Some
<1>29. Replies'
  BY <1>1, <1>3, <1>5, <1>6, <1>7 DEF Replies, Replying, Before, Early, Speaking, Halts, Cuts
<1>30. Locks'
  BY <1>1, <1>7 DEF Locks, Locking, Writing
<1>31. Captures'
  BY <1>1, <1>7 DEF Captures, CapturedOnce
<1>32. Cursor'
  BY <1>1, <1>3, <1>5, <1>7 DEF Cursor, Halts
<1>33. Settled'
  <2>1. PromptCleanup => live.replyTurn = 0
    <3>1. live.replyTurn # 0 => live.lp \in Gens /\ worker[live.lp].u # 0
      BY <1>1, <1>2 DEF Replies, Names, NLive, NConst
    <3>2. PromptCleanup => live.lp \in {0, s.gen} /\ ~live.ready
      BY <1>1, <1>3 DEF Unready
    <3> QED BY <1>1, <1>2, <3>1, <3>2 DEF Unready, Names, NConst
  <2>11. SUFFICES ASSUME PromptCleanup, NEW v \in Utterances
                  PROVE  Done(v)' \/ Pend(v)' \/ \E h \in Gens : Open(v, h)'
    BY DEF Settled
  <2>12. CASE Done(v)
    BY <2>12, <1>7 DEF Done
  <2>13. CASE Pend(v)
    BY <2>13, <1>7 DEF Pend
  <2>14. ASSUME NEW h \in Gens, Open(v, h)
         PROVE  Done(v)' \/ Pend(v)' \/ \E k \in Gens : Open(v, k)'
    BY <1>2, <2>1, <2>11, <2>14, <1>7 DEF Open, Names, NConst
  <2> QED BY <1>1, <2>11, <2>12, <2>13, <2>14 DEF Settled
<1>34. Aborts'
  BY <1>1, <1>7 DEF Aborts
<1>35. Opening'
  BY <1>1, <1>7 DEF Opening
<1>36. Modes'
  BY <1>1, <1>7 DEF Modes
<1>37. Finite'
  BY <1>1, <1>7 DEF Finite
<1>38. BoundaryIsHeard'
  BY <1>1, <1>7 DEF BoundaryIsHeard
<1>39. NoRecognizerLeaks'
  BY <1>1, <1>7 DEF NoRecognizerLeaks, InHand, Members, At
<1>40. FencesHeld'
  BY <1>1, <1>7, FencesKept DEF Holders, Takers
<1> QED BY <1>20, <1>21, <1>22, <1>23, <1>24, <1>25, <1>26, <1>27, <1>28, <1>29, <1>30, <1>31,
   <1>32, <1>33, <1>34, <1>35, <1>36, <1>37, <1>38, <1>39, <1>40 DEF IInv

\* A start lets the inbound loop feed its live mode, if that is still there.
LEMMA GoReadyKeeps ==
  ASSUME IInv, NEW s \in setup, goReady(s)
  PROVE  IInv'
<1>1. /\ TypeOK /\ Generations /\ Setups /\ Unready /\ Workers /\ Places /\ Opened /\ Freshness
      /\ Progress /\ Replies /\ Locks /\ Captures /\ Cursor /\ Settled /\ Aborts /\ Opening
      /\ Modes /\ Finite /\ BoundaryIsHeard /\ NoRecognizerLeaks /\ FencesHeld
  BY DEF IInv
<1>2. Names
  BY <1>1, TypedNames
<1>3. s.pc = "ready" /\ setup' = setup \ {s}
  BY DEF goReady
<1>4. live' \in LiveType /\ Mode(live.lp, live.gen, live.starting, live.ready \/ live.lp = s.gen) /\ SameTalk
  BY <1>1 DEF goReady, Owns, TypeOK, LiveType, Mode, SameMode, Talk, SameTalk
<1>5. /\ stop' = stop /\ lp' = lp /\ feed' = feed /\ worker' = worker /\ recog' = recog
      /\ ctx' = ctx /\ out' = out /\ conv' = conv /\ post' = post /\ marks' = marks
      /\ turn' = turn /\ budget' = budget
  BY DEF goReady
<1>20. TypeOK'
  BY <1>1, <1>3, <1>4, <1>5 DEF TypeOK
<1>21. Generations'
  BY <1>1, <1>4, <1>5 DEF Generations, Mode, SameTalk, Talk
<1>22. Setups'
  BY <1>1, <1>3, <1>4, <1>5 DEF Setups, Mode, SameTalk, Talk
<1>23. Unready'
  <2>1. PromptCleanup /\ (\E x \in setup' : x.pc = "cleanup") => live'.ready = FALSE /\ live.ready = FALSE
    BY <1>1, <1>2, <1>3, <1>4 DEF Unready, Setups, Mode, TypeOK, LiveType, Names, NConst
  <2>2. live'.ready = FALSE => live.ready = FALSE
    BY <1>1, <1>4 DEF Mode, TypeOK, LiveType
  <2> QED BY <1>1, <1>3, <1>4, <2>1, <2>2, <1>5 DEF Unready, Mode
<1>24. Workers'
  BY <1>1, <1>5 DEF Workers, WorkerOK, Fencing, Speaking
<1>25. Places'
  BY <1>1, <1>4, <1>5 DEF Places, Q, Mode, SameTalk, Talk
<1>26. Opened'
  BY <1>1, <1>4, <1>5 DEF Opened, Q, Mode, SameTalk, Talk
<1>27. Freshness'
  BY <1>1, <1>4, <1>5 DEF Freshness, Fresh, InQ, Untouched, Unheard, Q, Early, Mode, SameTalk,
     Talk
<1>28. Progress'
  BY <1>1, <1>5 DEF Progress, Unheard, Unspoken, Before, Early
<1>29. Replies'
  BY <1>1, <1>4, <1>5 DEF Replies, Replying, Before, Early, Speaking, Mode, SameTalk, Talk
<1>30. Locks'
  BY <1>1, <1>5 DEF Locks, Locking, Writing
<1>31. Captures'
  BY <1>1, <1>5 DEF Captures, CapturedOnce
<1>32. Cursor'
  BY <1>1, <1>5 DEF Cursor
<1>33. Settled'
  BY <1>1, <1>4, <1>5 DEF Settled, Done, Pend, Open, Mode, SameTalk, Talk
<1>34. Aborts'
  BY <1>1, <1>4, <1>5 DEF Aborts, Mode, SameTalk, Talk
<1>35. Opening'
  BY <1>1, <1>4, <1>5 DEF Opening, Mode, SameTalk, Talk
<1>36. Modes'
  BY <1>1, <1>4, <1>5 DEF Modes, Mode, SameTalk, Talk
<1>37. Finite'
  BY <1>1, <1>5 DEF Finite
<1>38. BoundaryIsHeard'
  BY <1>1, <1>5 DEF BoundaryIsHeard
<1>39. NoRecognizerLeaks'
  BY <1>1, <1>4, <1>5 DEF NoRecognizerLeaks, InHand, Members, At, Mode, SameTalk, Talk
<1>40. FencesHeld'
  BY <1>1, <1>5, FencesKept DEF Holders, Takers
<1> QED BY <1>20, <1>21, <1>22, <1>23, <1>24, <1>25, <1>26, <1>27, <1>28, <1>29, <1>30, <1>31,
   <1>32, <1>33, <1>34, <1>35, <1>36, <1>37, <1>38, <1>39, <1>40 DEF IInv

-----------------------------------------------------------------------------
(* Leaving live mode.                                                        *)

\* A stop leaves live mode under the lock, and takes what its teardown is to settle.
LEMMA StopLiveKeeps ==
  ASSUME IInv, NEW t \in Stoppers, stopLive(t)
  PROVE  IInv'
<1>1. /\ TypeOK /\ Generations /\ Setups /\ Unready /\ Workers /\ Places /\ Opened /\ Freshness
      /\ Progress /\ Replies /\ Locks /\ Captures /\ Cursor /\ Settled /\ Aborts /\ Opening
      /\ Modes /\ Finite /\ BoundaryIsHeard /\ NoRecognizerLeaks /\ FencesHeld
  BY DEF IInv
<1>2. Names
  BY <1>1, TypedNames
<1>3. /\ stop[t].pc \in {"idle", "closing"} /\ stop[t].turn = 0 /\ stop[t].reply = 0
      /\ stop[t].recogs = {} /\ (t = "close" => stop[t].pc = "closing")
  BY <1>1 DEF stopLive, Captures
<1>4. /\ budget' \in BudgetType
      /\ budget'["stop"] = budget["stop"] - (IF t = "control" THEN 1 ELSE 0)
      /\ t = "control" => budget["stop"] > 0
  BY <1>1 DEF stopLive, Spend, TypeOK, BudgetType
<1>5. live.gen + 1 \in 1..(MaxStops + 2)
  <2>1. budget["stop"] \in Nat
    BY <1>2 DEF Names, NRest
  <2>2. live.gen \in 1..(MaxStops + 2)
    BY <1>1 DEF TypeOK, LiveType
  <2>3. CASE t = "control"
    <3>1. live.gen <= 1 + (MaxStops - budget["stop"]) + 1
      BY <1>1, <2>1, <2>2, VoiceAssumption DEF Generations
    <3> QED BY <1>4, <2>1, <2>2, <2>3, <3>1, VoiceAssumption
  <2>4. CASE t = "close"
    <3>0. stop["close"].pc \in {"idle", "closing"}
      BY <1>3, <2>4
    <3>1. live.gen = 1 + (MaxStops - budget["stop"]) + 0
      BY <1>1, <3>0 DEF Generations
    <3> QED BY <2>1, <2>2, <3>1, VoiceAssumption
  <2> QED BY <2>3, <2>4 DEF Stoppers
<1>6. live' \in LiveType /\ Mode(0, live.gen + 1, FALSE, FALSE) /\ Talk(0, 0, 0, 0)
  <2>1. 0 \in 0..(MaxStops + 1)
    BY VoiceAssumption
  <2>2. live' = [lp |-> 0, gen |-> live.gen + 1, starting |-> FALSE, ready |-> FALSE,
                 turnRecog |-> 0, workerRecog |-> 0, reply |-> 0, replyTurn |-> 0]
    BY DEF stopLive, Left, NotLive
  <2> QED BY <1>5, <2>1, <2>2, TurnsAre DEF LiveType, Mode, Talk
<1>7. /\ stop' \in [Stoppers -> StopType]
      /\ Stopped(t, "teardown", live.reply, live.replyTurn, out.played,
                 Some(live.turnRecog) \cup Some(live.workerRecog), live.lp)
  BY <1>1, <1>2 DEF stopLive, TypeOK, StopType, LiveType, OutType, Names, NLive, Some, Stopped
<1>8. turn' \in [Utterances -> TurnType] /\ conv' \in ConvType /\ Captures1(live.replyTurn)
  BY <1>1, <1>2, Capturing DEF stopLive, Names, NLive
<1>9. /\ setup' = setup /\ lp' = lp /\ feed' = feed /\ worker' = worker /\ recog' = recog
      /\ ctx' = ctx /\ out' = out /\ post' = post /\ marks' = marks
  BY DEF stopLive
<1>20. TypeOK'
  BY <1>1, <1>3, <1>4, <1>5, <1>6, <1>7, <1>8, <1>9 DEF TypeOK
<1>21. Generations'
  <2> DEFINE here(pc) == IF pc \in {"idle", "closing"} THEN 0 ELSE 1
  <2>1. budget["stop"] \in Nat /\ live.gen \in Nat
    BY <1>2 DEF Names, NRest, NLive
  <2>2. live.gen = 1 + (MaxStops - budget["stop"]) + here(stop["close"].pc)
    BY <1>1 DEF Generations
  <2>3. live'.gen = 1 + (MaxStops - budget'["stop"]) + here(stop'["close"].pc)
    <3>1. CASE t = "control"
      <4>1. stop'["close"].pc = stop["close"].pc
        BY <1>2, <1>7, <3>1 DEF Stopped, Names, NStop
      <4>2. here(stop["close"].pc) \in Nat
        OBVIOUS
      <4>3. budget'["stop"] = budget["stop"] - 1 /\ live'.gen = live.gen + 1
        BY <1>4, <1>6, <3>1 DEF Mode
      <4> HIDE DEF here
      <4> QED BY <2>1, <2>2, <4>1, <4>2, <4>3, VoiceAssumption
    <3>2. CASE t = "close"
      <4>1. here(stop["close"].pc) = 0 /\ here(stop'["close"].pc) = 1
        BY <1>2, <1>3, <1>7, <3>2 DEF Stopped, Names, NStop
      <4>3. budget'["stop"] = budget["stop"] /\ live'.gen = live.gen + 1
        BY <1>4, <1>6, <2>1, <3>2 DEF Mode
      <4> HIDE DEF here
      <4> QED BY <2>1, <2>2, <4>1, <4>3, VoiceAssumption
    <3> QED BY <3>1, <3>2 DEF Stoppers
  <2>4. live'.lp = 0 /\ live'.gen = live.gen + 1
    BY <1>6 DEF Mode
  <2>5. \A g \in Gens : /\ worker'[g].pc # "none" => g < live'.gen
                        /\ worker'[g].pc = "exit" \/ lp'[g].done => g < live'.gen
    BY <1>1, <1>2, <2>1, <2>4, <1>9 DEF Generations, Names, NConst
  <2>6. feed'.evs # <<>> => feed'.lp # 0 /\ feed'.lp < live'.gen
    BY <1>1, <1>2, <2>1, <2>4, <1>9 DEF Generations, Names, NConst, NFeed
  <2>7. \A x \in Stoppers : stop'[x].lp < live'.gen
    <3>1. live.lp \in Nat /\ live.lp <= live.gen /\ \A x \in Stoppers : stop[x].lp \in Nat
      BY <1>1, <1>2, <2>1 DEF Generations, Names, NConst, NStop, NLive
    <3> QED BY <1>1, <1>7, <2>1, <2>4, <3>1 DEF Generations, Stopped
  <2> QED BY <1>1, <2>3, <2>4, <2>5, <2>6, <2>7, <1>9 DEF Generations
<1>22. Setups'
  BY <1>1, <1>2, <1>3, <1>5, <1>6, <1>9 DEF Setups, Mode, Talk, Names, NConst, NLive, NWorker,
     NRest
<1>23. Unready'
  BY <1>1, <1>2, <1>3, <1>5, <1>6, <1>9 DEF Unready, Mode, Talk, Names, NConst, NLive, NFeed,
     NWorker, NQueue, NRest
<1>24. Workers'
  BY <1>1, <1>9 DEF Workers, WorkerOK, Fencing, Speaking
<1>25. Places'
  BY <1>1, <1>3, <1>5, <1>6, <1>9 DEF Places, Q, Mode, Talk
<1>26. Opened'
  BY <1>1, <1>3, <1>5, <1>6, <1>9 DEF Opened, Q, Mode, Talk
<1>27. Freshness'
  <2>1. \A v \in Utterances : Fresh(v)' => Fresh(v)
    BY <1>2, <1>6, <1>9 DEF Fresh, InQ, Q, Talk, Names, NConst
  <2>2. \A v \in Utterances : Fresh(v) /\ Untouched(v) => Untouched(v)'
    <3>1. live.replyTurn # 0 => ~Fresh(live.replyTurn)
      BY ReplyOf, ReplyTurnOf
    <3>2. live.reply # 0 => ~Fresh(live.reply)
      BY ReplyOf
    <3>3. SUFFICES ASSUME NEW v \in Utterances, Fresh(v), Untouched(v) PROVE Untouched(v)'
      OBVIOUS
    <3>4. turn'[v] = turn[v] /\ v # live.reply
      BY <1>2, <1>8, <3>1, <3>2, <3>3 DEF Captures1, Others, Names, NConst
    <3>5. \A x \in Stoppers : stop'[x].reply # v
      BY <1>7, <3>3, <3>4 DEF Untouched, Stopped
    <3>6. v \in ctx'.cancelled => stop'["close"].pc = "closed"
      BY <1>2, <1>3, <1>7, <3>3, <1>9 DEF Untouched, Stopped, Names, NStop
    <3> QED BY <3>3, <3>4, <3>5, <3>6 DEF Untouched
  <2>3. \A v \in Utterances : Fresh(v) /\ Unheard(v) => Unheard(v)'
    BY <1>8, <1>9, UnheardKept DEF Captures1
  <2> QED BY <1>1, <2>1, <2>2, <2>3 DEF Freshness
<1>28. Progress'
  <2>1. \A h \in Gens : worker[h].pc \in Before \cup {"commit", "zero"} => worker[h].u # live.replyTurn
    <3>1. CASE live.replyTurn = 0
      BY <1>2, <3>1, Busy DEF Before, Early
    <3>2. CASE live.replyTurn # 0
      BY <3>2, ReplyOf, ReplyTurnOf DEF Fencing, Speaking, Before, Early
    <3> QED BY <3>1, <3>2
  <2>2. \A h \in Gens : worker[h].pc \in Before \cup {"commit", "zero"} =>
          worker[h].u \in Utterances /\ turn'[worker[h].u] = turn[worker[h].u]
    BY <1>8, <2>1, Busy DEF Captures1, Others, Before, Early
  <2>3. \A h \in Gens : worker[h].pc \in Unspoken => worker[h].u \in Utterances /\ Unheard(worker[h].u)'
    BY <1>1, <1>8, <1>9, Busy, UnheardKept DEF Progress, Captures1, Unspoken, Before, Early
  <2>4. \A h \in Gens : worker[h].pc = "playing" => ~turn'[worker[h].u].whole
    BY <1>1, <1>8, Busy DEF Progress, Captures1, Whole0
  <2> QED BY <1>1, <2>2, <2>3, <2>4, <1>9 DEF Progress
<1>29. Replies'
  BY <1>1, <1>3, <1>5, <1>6, <1>7, <1>8, <1>9 DEF Replies, Replying, Before, Early, Speaking,
     Mode, Talk, Stopped, Captures1, Others, Heard0, Whole0, Told0
<1>30. Locks'
  <2>2. conv'.lock = conv.lock
    BY <1>8 DEF Captures1
  <2>3. live.replyTurn = 0 => conv'.fences = conv.fences
    BY <1>2, <1>8 DEF Captures1, Names, NConv
  <2>4. \A h \in Gens : worker[h].pc \in Writing => conv'.fences = 0
    BY <1>1, <2>3, ReplyTurnOf DEF Locks
  <2>5. post \in {"context", "generate"} => conv'.fences = 0
    BY <1>1, <2>3, ReplyTurnOf DEF Locks
  <2> QED BY <1>1, <2>2, <2>4, <2>5, <1>9 DEF Locks
<1>31. Captures'
  <2> DEFINE u == live.replyTurn
  <2>1. u # 0 => u \in Utterances /\ turn[u].captured = 0 /\ turn'[u].captured = 1
    BY <1>2, <1>8, ReplyTurnOf DEF Captures1, Names, NLive
  <2>2. \A v \in Utterances : v # u => turn'[v].captured = turn[v].captured
    BY <1>2, <1>8 DEF Captures1, Names, NTurn
  <2>3. \A v \in Utterances : turn'[v].heard = turn[v].heard
    BY <1>8 DEF Captures1, Heard0
  <2>4. u # 0 => out.played <= turn[u].heard
    BY <1>1, <1>2, <2>1, ReplyTurnOf DEF Cursor, Names, NOut, NTurn, NConst
  <2>5. CapturedOnce'
    <3>1. \A v \in Utterances : turn[v].captured <= 1
      BY <1>1 DEF Captures, CapturedOnce
    <3>2. \A v \in Utterances : turn'[v].captured <= 1
      <4> HIDE DEF u
      <4> QED BY <1>2, <2>1, <2>2, <3>1 DEF Names, NConst
    <3> QED BY <3>2 DEF CapturedOnce
  <2>6. /\ \A x \in Stoppers : stop[x].turn # 0 =>
             /\ stop[x].turn \in Utterances /\ stop[x].turn # u
             /\ turn'[stop[x].turn].captured = 1
        /\ \A m \in marks : m.turn \in Utterances /\ m.turn # u /\ turn'[m.turn].captured = 1
        /\ feed.pc = "marking" => /\ feed.turn \in Utterances /\ feed.turn # u
                                  /\ turn'[feed.turn].captured = 1
    BY <1>1, <1>2, <2>1, <2>2 DEF Captures, Names, NStop, NRest, NFeed, NConst

  <2>7. \A x \in Stoppers : stop'[x].turn # 0 =>
          /\ turn'[stop'[x].turn].captured = 1 /\ stop'[x].at <= turn'[stop'[x].turn].heard
          /\ \A m \in marks : m.turn # stop'[x].turn
          /\ \A y \in Stoppers : stop'[y].turn = stop'[x].turn => y = x
    <3>1. SUFFICES ASSUME NEW x \in Stoppers, stop'[x].turn # 0
                   PROVE  /\ turn'[stop'[x].turn].captured = 1
                          /\ stop'[x].at <= turn'[stop'[x].turn].heard
                          /\ \A m \in marks : m.turn # stop'[x].turn
                          /\ \A y \in Stoppers : stop'[y].turn = stop'[x].turn => y = x
      OBVIOUS
    <3>2. CASE x = t
      BY <1>7, <2>1, <2>3, <2>4, <2>6, <3>1, <3>2 DEF Stopped
    <3>3. CASE x # t
      BY <1>1, <1>7, <2>3, <2>6, <3>1, <3>3 DEF Stopped, Captures
    <3> QED BY <3>2, <3>3
  <2>8. \A x \in Stoppers : stop'[x].pc # "teardown" =>
          stop'[x].turn = 0 /\ stop'[x].reply = 0 /\ stop'[x].recogs = {}
    BY <1>1, <1>7 DEF Stopped, Captures
  <2>9. \A m \in marks : turn'[m.turn].captured = 1 /\ m.at <= turn'[m.turn].heard
    BY <1>1, <2>3, <2>6 DEF Captures
  <2>10. feed.pc = "marking" => /\ feed.turn # 0 /\ turn'[feed.turn].captured = 1
                                /\ feed.at <= turn'[feed.turn].heard
    BY <1>1, <2>3, <2>6 DEF Captures
  <2> QED BY <2>5, <2>7, <2>8, <2>9, <2>10, <1>9 DEF Captures
<1>32. Cursor'
  BY <1>1, <1>2, <1>3, <1>5, <1>8, <1>9 DEF Cursor, Captures1, Others, Heard0, Whole0, Told0,
     Names, NConst, NWorker, NOut, NTurn
<1>33. Settled'
  BY <1>1, <1>2, <1>3, <1>5, <1>6, <1>7, <1>8, <1>9 DEF Settled, Done, Pend, Open, Mode, Talk,
     Stopped, Captures1, Others, Heard0, Whole0, Told0, Names, NConst, NLive, NFeed, NWorker,
     NStop, NOut, NCtx, NTurn, NRest
<1>34. Aborts'
  BY <1>1, Busy, <1>3, <1>5, <1>6, <1>7, <1>9 DEF Aborts, Mode, Talk, Stopped, Some
<1>35. Opening'
  BY <1>1, <1>3, <1>5, <1>6, <1>9 DEF Opening, Mode, Talk
<1>36. Modes'
  BY <1>1, <1>3, <1>5, <1>6, <1>7, <1>9 DEF Modes, Mode, Talk, Stopped
<1>37. Finite'
  BY <1>1, <1>9 DEF Finite
<1>38. BoundaryIsHeard'
  BY <1>1, <1>3, <1>5, <1>8, <1>9 DEF BoundaryIsHeard, Captures1, Others, Heard0, Whole0, Told0
<1>39. NoRecognizerLeaks'
  BY <1>1, Busy, <1>3, <1>5, <1>6, <1>7, <1>9 DEF NoRecognizerLeaks, InHand, Members, At, Mode,
     Talk, Stopped, Some
<1>40. FencesHeld'
  <2>1. Holders' = Holders
    BY <1>9 DEF Holders
  <2>2. CASE live.replyTurn = 0
    <3>1. Takers' = Takers
      BY <1>3, <1>7, <2>2 DEF Takers, Stopped
    <3>2. conv'.fences = conv.fences
      BY <1>2, <1>8, <2>2 DEF Captures1, Names, NConv
    <3> QED BY <1>1, <2>1, <3>1, <3>2, <1>9, FencesKept
  <2>3. CASE live.replyTurn # 0
    <3>1. Takers' = Takers \cup {t} /\ t \notin Takers
      BY <1>3, <1>7, <2>3 DEF Takers, Stopped
    <3>2. Cardinality(Takers') = Cardinality(Takers) + 1
      BY <3>1, FiniteHolders, FS_AddElement
    <3>3. conv.fences = Cardinality(Holders) + Cardinality(marks)
                        + (IF feed.pc = "marking" THEN 1 ELSE 0) + Cardinality(Takers)
      BY <1>1, CountFences
    <3>4. conv'.fences = conv.fences + 1
      BY <1>8, <2>3 DEF Captures1
    <3>5. conv'.fences = Cardinality(Holders') + Cardinality(marks')
                         + (IF feed'.pc = "marking" THEN 1 ELSE 0) + Cardinality(Takers')
      <4> DEFINE m == IF feed.pc = "marking" THEN 1 ELSE 0
      <4>1. m \in Nat /\ conv.fences = Cardinality(Holders) + Cardinality(marks) + m + Cardinality(Takers)
        BY <3>3
      <4>2. (IF feed'.pc = "marking" THEN 1 ELSE 0) = m
        BY <1>9
      <4> HIDE DEF m
      <4> QED BY <2>1, <3>2, <3>4, <4>1, <4>2, <1>9, FiniteHolders
    <3> QED BY <3>5 DEF FencesHeld, Holders, Takers
  <2> QED BY <2>2, <2>3
<1> QED BY <1>20, <1>21, <1>22, <1>23, <1>24, <1>25, <1>26, <1>27, <1>28, <1>29, <1>30, <1>31,
   <1>32, <1>33, <1>34, <1>35, <1>36, <1>37, <1>38, <1>39, <1>40 DEF IInv

\* The teardown of a stop cancels, closes and marks what the stop has taken.
LEMMA TeardownKeeps ==
  ASSUME IInv, NEW t \in Stoppers, teardown(t)
  PROVE  IInv'
<1>1. /\ TypeOK /\ Generations /\ Setups /\ Unready /\ Workers /\ Places /\ Opened /\ Freshness
      /\ Progress /\ Replies /\ Locks /\ Captures /\ Cursor /\ Settled /\ Aborts /\ Opening
      /\ Modes /\ Finite /\ BoundaryIsHeard /\ NoRecognizerLeaks /\ FencesHeld
  BY DEF IInv
<1>2. Names
  BY <1>1, TypedNames
<1>3. /\ stop[t].pc = "teardown"
      /\ marks' = marks \cup {[turn |-> u, at |-> stop[t].at] : u \in Some(stop[t].turn)}
  BY DEF teardown
<1>4. ctx' \in CtxType /\ Cuts(Some(stop[t].reply))
  BY <1>1, <1>2, Cutting DEF teardown, Names, NStop, Some
<1>5. recog' \in [Utterances -> {"none", "open", "closed"}] /\ Shut(stop[t].recogs)
  BY <1>1, Closing DEF teardown
<1>6. \A g \in Gens : /\ lp'[g] \in PipeType /\ lp'[g].queue = lp[g].queue
                      /\ lp'[g].done = (g = stop[t].lp \/ lp[g].done)
  BY <1>1 DEF teardown, TypeOK, PipeType, FreshPipe
<1>7. lp' \in [Gens -> PipeType]
  BY <1>6 DEF teardown
<1>8. stop' \in [Stoppers -> StopType] /\ Stopped(t, IF t = "control" THEN "idle" ELSE "cancel", 0, 0, 0, {}, 0)
  <2> DEFINE r == [pc |-> IF t = "control" THEN "idle" ELSE "cancel", reply |-> 0, turn |-> 0,
                   at |-> 0, recogs |-> {}, lp |-> 0]
  <2>1. stop' = [stop EXCEPT ![t] = r]
    <3>1. stop' = [stop EXCEPT ![t] = IF t = "control" THEN NotStopping
                                      ELSE [NotStopping EXCEPT !.pc = "cancel"]]
      BY DEF teardown
    <3>2. r = IF t = "control" THEN NotStopping ELSE [NotStopping EXCEPT !.pc = "cancel"]
      BY DEF NotStopping
    <3> QED BY <3>1, <3>2
  <2>2. 0 \in 0..(MaxStops + 1)
    BY VoiceAssumption
  <2>3. r \in StopType
    BY <2>2, TurnsAre DEF StopType
  <2>4. stop' \in [Stoppers -> StopType]
    BY <1>1, <2>1, <2>3 DEF TypeOK
  <2>5. \A x \in Stoppers : stop'[x] = IF x = t THEN r ELSE stop[x]
    BY <1>1, <2>1 DEF TypeOK
  <2> QED BY <2>4, <2>5 DEF Stopped
<1>9. /\ stop[t].turn = 0 => marks' = marks
      /\ stop[t].turn # 0 => marks' = marks \cup {[turn |-> stop[t].turn, at |-> stop[t].at]}
      /\ live.lp = 0 /\ live.replyTurn = 0 /\ stop[t].pc \notin {"idle", "closing"}
  BY <1>1, <1>3 DEF Some, Modes, Replies
<1>10. /\ live' = live /\ setup' = setup /\ feed' = feed /\ worker' = worker /\ out' = out
       /\ conv' = conv /\ post' = post /\ turn' = turn /\ budget' = budget
  BY DEF teardown
<1>20. TypeOK'
  <2>1. marks' \subseteq [turn : Utterances, at : Nat]
    <3>1. marks \subseteq [turn : Utterances, at : Nat]
      BY <1>1 DEF TypeOK
    <3>2. stop[t].turn # 0 => [turn |-> stop[t].turn, at |-> stop[t].at] \in [turn : Utterances, at : Nat]
      BY <1>2 DEF Names, NStop
    <3> QED BY <1>9, <3>1, <3>2
  <2>2. \A g \in Gens : Len(lp'[g].queue) <= QueueCap
    BY <1>1, <1>6 DEF TypeOK
  <2> QED BY <1>1, <1>4, <1>5, <1>7, <1>8, <2>1, <2>2, <1>10 DEF TypeOK
<1>21. Generations'
  <2>1. live.gen \in Nat /\ 0 < live.gen
    BY <1>1, VoiceAssumption DEF TypeOK, LiveType
  <2>2. /\ stop'["close"].pc \in {"idle", "closing"} <=> stop["close"].pc \in {"idle", "closing"}
        /\ \A x \in Stoppers : stop'[x].lp < live.gen
    BY <1>1, <1>2, <1>8, <1>9, <2>1 DEF Generations, Stopped, Names, NStop
  <2>3. \A g \in Gens : lp'[g].done => g < live.gen
    BY <1>1, <1>6 DEF Generations
  <2> QED BY <1>1, <2>2, <2>3, <1>10 DEF Generations
<1>22. Setups'
  BY <1>1, <1>10 DEF Setups
<1>23. Unready'
  BY <1>1, <1>6, <1>7, <1>10 DEF Unready
<1>24. Workers'
  BY <1>1, <1>10 DEF Workers, WorkerOK, Fencing, Speaking
<1>25. Places'
  BY <1>1, <1>6, <1>7, <1>10 DEF Places, Q
<1>26. Opened'
  <2>1. \A v \in Utterances : recog[v] # "none" => recog'[v] # "none"
    BY <1>5 DEF Shut
  <2>2. \A g \in Gens : lp'[g].queue = Q(g)
    BY <1>6 DEF Q
  <2> QED BY <1>1, <1>2, <2>1, <2>2, <1>10 DEF Opened, Q, Names, NLive, NWorker, NQueue
<1>27. Freshness'
  <2>1. \A v \in Utterances : Fresh(v)' => Fresh(v)
    <3>1. \A v \in Utterances : recog'[v] = "none" => recog[v] = "none"
      BY <1>5 DEF Shut
    <3>2. \A g \in Gens : lp'[g].queue = Q(g)
      BY <1>6 DEF Q
    <3> QED BY <3>1, <3>2, <1>10 DEF Fresh, InQ, Q
  <2>2. \A v \in Utterances : Fresh(v) /\ Untouched(v) => Untouched(v)'
    <3>1. SUFFICES ASSUME NEW v \in Utterances, Fresh(v), Untouched(v) PROVE Untouched(v)'
      OBVIOUS
    <3>2. \A x \in Stoppers : stop'[x].reply # v
      BY <1>2, <1>8, <3>1 DEF Untouched, Stopped, Names, NConst
    <3>3. v \in ctx'.cancelled => stop'["close"].pc = "closed"
      BY <1>2, <1>3, <1>4, <1>8, <3>1 DEF Untouched, Stopped, Cuts, Some, Names, NStop
    <3> QED BY <3>1, <3>2, <3>3, <1>10 DEF Untouched
  <2>3. \A v \in Utterances : Fresh(v) /\ Unheard(v) => Unheard(v)'
    BY <1>2, <1>4, <1>10 DEF Unheard, Cuts, Some, Names, NConst
  <2> QED BY <1>1, <2>1, <2>2, <2>3 DEF Freshness
<1>28. Progress'
  BY <1>1, Busy, <1>4, <1>10 DEF Progress, Unheard, Unspoken, Before, Early, Cuts, Some
<1>29. Replies'
  BY <1>1, <1>3, <1>4, <1>5, <1>6, <1>7, <1>8, <1>9, <1>10, VoiceAssumption DEF Replies,
     Replying, Before, Early, Speaking, Cuts, Shut, Stopped, Utterances, Gens, Some
<1>30. Locks'
  BY <1>1, <1>10 DEF Locks, Locking, Writing
<1>31. Captures'
  BY <1>1, <1>3, <1>4, <1>5, <1>6, <1>7, <1>8, <1>9, <1>10, VoiceAssumption DEF Captures,
     CapturedOnce, Cuts, Shut, Stopped, Utterances, Gens, Some
<1>32. Cursor'
  BY <1>1, <1>10 DEF Cursor
<1>33. Settled'
  <2>11. SUFFICES ASSUME PromptCleanup, NEW v \in Utterances
                  PROVE  Done(v)' \/ Pend(v)' \/ \E h \in Gens : Open(v, h)'
    BY DEF Settled
  <2>12. CASE Done(v)
    BY <2>12, <1>10 DEF Done
  <2>13. CASE Pend(v)
    <3>1. CASE stop[t].turn = v
      <4>1. stop[t].turn # 0
        BY <1>2, <2>11, <3>1 DEF Names, NConst
      <4>2. [turn |-> v, at |-> stop[t].at] \in marks'
        BY <1>9, <3>1, <4>1
      <4> QED BY <4>2 DEF Pend
    <3>2. CASE stop[t].turn # v
      <4>1. marks \subseteq marks'
        BY <1>9
      <4>2. \A x \in Stoppers : stop[x].turn = v => stop'[x].turn = v
        BY <1>8, <3>2 DEF Stopped
      <4> QED BY <2>13, <4>1, <4>2, <1>10 DEF Pend
    <3> QED BY <3>1, <3>2
  <2>14. ASSUME NEW h \in Gens, Open(v, h)
         PROVE  Done(v)' \/ Pend(v)' \/ \E k \in Gens : Open(v, k)'
    BY <1>2, <1>9, <2>11, <2>14, <1>10 DEF Open, Names, NConst
  <2> QED BY <1>1, <2>11, <2>12, <2>13, <2>14 DEF Settled
<1>34. Aborts'
  BY <1>1, Busy, <1>5, <1>8, <1>10 DEF Aborts, Shut, Stopped, Some
<1>35. Opening'
  BY <1>1, <1>10 DEF Opening
<1>36. Modes'
  BY <1>1, <1>8, <1>10 DEF Modes, Stopped
<1>37. Finite'
  <2>1. CASE stop[t].turn = 0
    BY <1>1, <1>9, <2>1 DEF Finite
  <2>2. CASE stop[t].turn # 0
    BY <1>1, <1>9, <2>2, FS_AddElement DEF Finite
  <2> QED BY <2>1, <2>2
<1>38. BoundaryIsHeard'
  BY <1>1, <1>10 DEF BoundaryIsHeard
<1>39. NoRecognizerLeaks'
  BY <1>1, <1>5, <1>6, <1>7, <1>8, <1>10 DEF NoRecognizerLeaks, InHand, Members, At, Shut,
     Stopped
<1>40. FencesHeld'
  <2>1. Holders' = Holders
    BY <1>10 DEF Holders
  <2>2. CASE stop[t].turn = 0
    <3>1. Takers' = Takers
      BY <1>8, <2>2 DEF Takers, Stopped
    <3> QED BY <1>1, <1>9, <2>1, <2>2, <3>1, <1>10, FencesKept
  <2>3. CASE stop[t].turn # 0
    <3> DEFINE m == [turn |-> stop[t].turn, at |-> stop[t].at]
    <3>1. marks' = marks \cup {m} /\ m \notin marks
      BY <1>1, <1>9, <2>3 DEF Captures
    <3> HIDE DEF m
    <3>2. Takers' = Takers \ {t} /\ t \in Takers
      BY <1>8, <2>3 DEF Takers, Stopped
    <3>3. Cardinality(marks') = Cardinality(marks) + 1
      BY <3>1, FiniteHolders, FS_AddElement
    <3>4. Cardinality(Takers') = Cardinality(Takers) - 1
      BY <3>2, FiniteHolders, FS_RemoveElement
    <3>5. conv.fences = Cardinality(Holders) + Cardinality(marks)
                        + (IF feed.pc = "marking" THEN 1 ELSE 0) + Cardinality(Takers)
      BY <1>1, CountFences
    <3>6. conv'.fences = Cardinality(Holders') + Cardinality(marks')
                         + (IF feed'.pc = "marking" THEN 1 ELSE 0) + Cardinality(Takers')
      BY <2>1, <3>3, <3>4, <3>5, <1>10, FiniteHolders
    <3> QED BY <3>6 DEF FencesHeld, Holders, Takers
  <2> QED BY <2>2, <2>3
<1> QED BY <1>20, <1>21, <1>22, <1>23, <1>24, <1>25, <1>26, <1>27, <1>28, <1>29, <1>30, <1>31,
   <1>32, <1>33, <1>34, <1>35, <1>36, <1>37, <1>38, <1>39, <1>40 DEF IInv

\* The mark of a stop is written, and its fence released.
LEMMA MarkStoppedKeeps ==
  ASSUME IInv, NEW m, m \in marks, MarkTurnInterrupted(m.turn, m.at), marks' = marks \ {m},
         conv' = [conv EXCEPT !.fences = @ - 1],
         UNCHANGED <<live, setup, stop, lp, feed, worker, recog, ctx, out, post>>
  PROVE  IInv'
<1>1. /\ TypeOK /\ Generations /\ Setups /\ Unready /\ Workers /\ Places /\ Opened /\ Freshness
      /\ Progress /\ Replies /\ Locks /\ Captures /\ Cursor /\ Settled /\ Aborts /\ Opening
      /\ Modes /\ Finite /\ BoundaryIsHeard /\ NoRecognizerLeaks /\ FencesHeld
  BY DEF IInv
<1>2. Names
  BY <1>1, TypedNames
<1>3. m.turn \in Utterances /\ m.at \in Nat
  BY <1>2 DEF Names, NRest
<1>4. /\ turn' \in [Utterances -> TurnType] /\ Marked(m.turn, m.at)
      /\ budget' \in BudgetType /\ budget'["stop"] = budget["stop"]
  BY <1>1, <1>3, Marking DEF TypeOK
<1>5. conv' \in ConvType /\ conv'.lock = conv.lock /\ conv'.fences = conv.fences - 1
  BY <1>1 DEF TypeOK, ConvType
<1>6. /\ live' = live /\ setup' = setup /\ stop' = stop /\ lp' = lp /\ feed' = feed
      /\ worker' = worker /\ recog' = recog /\ ctx' = ctx /\ out' = out /\ post' = post
  OBVIOUS
<1>20. TypeOK'
  BY <1>1, <1>3, <1>4, <1>5, <1>6 DEF TypeOK
<1>21. Generations'
  BY <1>1, <1>3, <1>4, <1>6 DEF Generations, Marked, Others, Heard0, Whole0, Capt0
<1>22. Setups'
  BY <1>1, <1>6 DEF Setups
<1>23. Unready'
  BY <1>1, <1>6 DEF Unready
<1>24. Workers'
  BY <1>1, <1>6 DEF Workers, WorkerOK, Fencing, Speaking
<1>25. Places'
  BY <1>1, <1>6 DEF Places, Q
<1>26. Opened'
  BY <1>1, <1>6 DEF Opened, Q
<1>27. Freshness'
  <2>1. \A v \in Utterances : Fresh(v)' => Fresh(v)
    BY <1>6 DEF Fresh, InQ, Q
  <2>2. \A v \in Utterances : Fresh(v) /\ Untouched(v) => Untouched(v)'
    <3>1. turn[m.turn].captured = 1
      BY <1>1, <1>3 DEF Captures
    <3>2. SUFFICES ASSUME NEW v \in Utterances, Fresh(v), Untouched(v) PROVE Untouched(v)'
      OBVIOUS
    <3>3. turn'[v] = turn[v]
      BY <1>3, <1>4, <3>1, <3>2, CapturedTurn DEF Marked, Others
    <3> QED BY <3>2, <3>3, <1>6 DEF Untouched
  <2>3. \A v \in Utterances : Fresh(v) /\ Unheard(v) => Unheard(v)'
    BY <1>4, <1>6, UnheardKept DEF Marked
  <2> QED BY <1>1, <2>1, <2>2, <2>3 DEF Freshness
<1>28. Progress'
  <2>1. turn[m.turn].captured = 1
    BY <1>1, <1>3 DEF Captures
  <2>2. \A h \in Gens : worker[h].pc \in Before => turn'[worker[h].u] = turn[worker[h].u]
    BY <1>3, <1>4, <2>1, Busy, CapturedTurn DEF Marked, Others, Before, Early
  <2>3. \A h \in Gens : worker[h].pc \in {"commit", "zero"} => turn'[worker[h].u].captured = turn[worker[h].u].captured
    BY <1>4, Busy DEF Marked, Capt0
  <2>4. \A h \in Gens : worker[h].pc \in Unspoken => Unheard(worker[h].u)'
    BY <1>1, <1>4, <1>6, Busy, UnheardKept DEF Progress, Marked, Unspoken, Before, Early
  <2>5. \A h \in Gens : worker[h].pc = "playing" => turn'[worker[h].u].whole = turn[worker[h].u].whole
    BY <1>4, Busy DEF Marked, Whole0
  <2> QED BY <1>1, <2>2, <2>3, <2>4, <2>5, <1>6 DEF Progress
<1>29. Replies'
  BY <1>1, <1>2, <1>3, <1>4, <1>6 DEF Replies, Replying, Before, Early, Speaking, Marked, Others,
     Heard0, Whole0, Capt0, Names, NConst, NLive, NWorker, NStop, NOut, NCtx, NTurn
<1>30. Locks'
  <2>1. conv.fences # 0
    BY <1>1, <1>3, NoFences DEF IInv
  <2> QED BY <1>1, <1>5, <2>1, <1>6 DEF Locks
<1>31. Captures'
  BY <1>1, <1>2, <1>3, <1>4, <1>6 DEF Captures, CapturedOnce, Marked, Others, Heard0, Whole0,
     Capt0, Names, NFeed, NStop, NTurn, NRest
<1>32. Cursor'
  BY <1>1, <1>2, <1>3, <1>4, <1>6 DEF Cursor, Marked, Others, Heard0, Whole0, Capt0, Names,
     NConst, NWorker, NOut, NTurn
<1>33. Settled'
  BY <1>1, <1>3, <1>4, <1>6 DEF Settled, Done, Pend, Open, Marked, Others, Heard0, Whole0, Capt0
<1>34. Aborts'
  BY <1>1, <1>6 DEF Aborts
<1>35. Opening'
  BY <1>1, <1>6 DEF Opening
<1>36. Modes'
  BY <1>1, <1>6 DEF Modes
<1>37. Finite'
  BY <1>1, <1>6, FS_RemoveElement DEF Finite
<1>38. BoundaryIsHeard'
  <2>1. m.at <= turn[m.turn].heard
    BY <1>1, <1>3 DEF Captures
  <2> QED BY <1>1, <1>3, <1>4, <2>1 DEF BoundaryIsHeard, Marked, Others, Heard0
<1>39. NoRecognizerLeaks'
  BY <1>1, <1>6 DEF NoRecognizerLeaks, InHand, Members, At
<1>40. FencesHeld'
  <2>1. Holders' = Holders /\ Takers' = Takers
    BY <1>6 DEF Holders, Takers
  <2>2. Cardinality(marks') = Cardinality(marks) - 1
    BY FiniteHolders, FS_RemoveElement
  <2>3. conv.fences = Cardinality(Holders) + Cardinality(marks)
                      + (IF feed.pc = "marking" THEN 1 ELSE 0) + Cardinality(Takers)
    BY <1>1, CountFences
  <2>4. conv'.fences = Cardinality(Holders') + Cardinality(marks')
                       + (IF feed'.pc = "marking" THEN 1 ELSE 0) + Cardinality(Takers')
    BY <1>5, <2>1, <2>2, <2>3, <1>6, FiniteHolders
  <2> QED BY <2>4 DEF FencesHeld, Holders, Takers
<1> QED BY <1>20, <1>21, <1>22, <1>23, <1>24, <1>25, <1>26, <1>27, <1>28, <1>29, <1>30, <1>31,
   <1>32, <1>33, <1>34, <1>35, <1>36, <1>37, <1>38, <1>39, <1>40 DEF IInv

\* Close raises its flag.
LEMMA CloseSessionKeeps ==
  ASSUME IInv, CloseSession
  PROVE  IInv'
<1>1. /\ TypeOK /\ Generations /\ Setups /\ Unready /\ Workers /\ Places /\ Opened /\ Freshness
      /\ Progress /\ Replies /\ Locks /\ Captures /\ Cursor /\ Settled /\ Aborts /\ Opening
      /\ Modes /\ Finite /\ BoundaryIsHeard /\ NoRecognizerLeaks /\ FencesHeld
  BY DEF IInv
<1>2. Names
  BY <1>1, TypedNames
<1>3. stop["close"].pc = "idle"
  BY DEF CloseSession
<1>4. /\ stop' \in [Stoppers -> StopType]
      /\ Stopped("close", "closing", stop["close"].reply, stop["close"].turn, stop["close"].at,
                 stop["close"].recogs, stop["close"].lp)
  BY <1>1, <1>2 DEF CloseSession, TypeOK, StopType, Names, NStop, Stopped
<1>5. /\ live' = live /\ setup' = setup /\ lp' = lp /\ feed' = feed /\ worker' = worker
      /\ recog' = recog /\ ctx' = ctx /\ out' = out /\ conv' = conv /\ post' = post
      /\ marks' = marks /\ turn' = turn /\ budget' = budget
  BY DEF CloseSession
<1>20. TypeOK'
  BY <1>1, <1>3, <1>4, <1>5 DEF TypeOK
<1>21. Generations'
  BY <1>1, <1>2, <1>3, <1>4, <1>5 DEF Generations, Stopped, Names, NConst, NLive, NFeed, NWorker,
     NQueue, NStop, NRest
<1>22. Setups'
  BY <1>1, <1>5 DEF Setups
<1>23. Unready'
  BY <1>1, <1>5 DEF Unready
<1>24. Workers'
  BY <1>1, <1>5 DEF Workers, WorkerOK, Fencing, Speaking
<1>25. Places'
  BY <1>1, <1>5 DEF Places, Q
<1>26. Opened'
  BY <1>1, <1>5 DEF Opened, Q
<1>27. Freshness'
  BY <1>1, <1>3, <1>4, <1>5 DEF Freshness, Fresh, InQ, Untouched, Unheard, Q, Early, Stopped
<1>28. Progress'
  BY <1>1, <1>5 DEF Progress, Unheard, Unspoken, Before, Early
<1>29. Replies'
  BY <1>1, <1>3, <1>4, <1>5 DEF Replies, Replying, Before, Early, Speaking, Stopped
<1>30. Locks'
  BY <1>1, <1>5 DEF Locks, Locking, Writing
<1>31. Captures'
  BY <1>1, <1>3, <1>4, <1>5 DEF Captures, CapturedOnce, Stopped
<1>32. Cursor'
  BY <1>1, <1>5 DEF Cursor
<1>33. Settled'
  BY <1>1, <1>3, <1>4, <1>5 DEF Settled, Done, Pend, Open, Stopped
<1>34. Aborts'
  BY <1>1, <1>3, <1>4, <1>5 DEF Aborts, Stopped
<1>35. Opening'
  BY <1>1, <1>5 DEF Opening
<1>36. Modes'
  BY <1>1, <1>3, <1>4, <1>5 DEF Modes, Stopped
<1>37. Finite'
  BY <1>1, <1>5 DEF Finite
<1>38. BoundaryIsHeard'
  BY <1>1, <1>5 DEF BoundaryIsHeard
<1>39. NoRecognizerLeaks'
  BY <1>1, <1>3, <1>4, <1>5 DEF NoRecognizerLeaks, InHand, Members, At, Stopped
<1>40. FencesHeld'
  <2>1. Holders' = Holders
    BY <1>5 DEF Holders
  <2>2. Takers' = Takers
    BY <1>4, <1>5 DEF Takers, Stopped
  <2> QED BY <1>1, <2>1, <2>2, <1>3, <1>5, FencesKept
<1> QED BY <1>20, <1>21, <1>22, <1>23, <1>24, <1>25, <1>26, <1>27, <1>28, <1>29, <1>30, <1>31,
   <1>32, <1>33, <1>34, <1>35, <1>36, <1>37, <1>38, <1>39, <1>40 DEF IInv

\* Close cancels the context of the session.
LEMMA CancelSessionKeeps ==
  ASSUME IInv, cancelSession
  PROVE  IInv'
<1>1. /\ TypeOK /\ Generations /\ Setups /\ Unready /\ Workers /\ Places /\ Opened /\ Freshness
      /\ Progress /\ Replies /\ Locks /\ Captures /\ Cursor /\ Settled /\ Aborts /\ Opening
      /\ Modes /\ Finite /\ BoundaryIsHeard /\ NoRecognizerLeaks /\ FencesHeld
  BY DEF IInv
<1>2. Names
  BY <1>1, TypedNames
<1>3. stop["close"].pc = "cancel"
  BY DEF cancelSession
<1>4. /\ stop' \in [Stoppers -> StopType]
      /\ Stopped("close", "closed", stop["close"].reply, stop["close"].turn, stop["close"].at,
                 stop["close"].recogs, stop["close"].lp)
  BY <1>1, <1>2 DEF cancelSession, TypeOK, StopType, Names, NStop, Stopped
<1>5. live.lp = 0 /\ live.reply = 0 /\ live.replyTurn = 0
  BY <1>1, <1>3 DEF Generations, Replies
<1>6. ctx' \in CtxType /\ Cuts({worker[g].u : g \in Gens} \ {0})
  BY <1>1, <1>2, Cutting DEF cancelSession, Names, NWorker
<1>7. out' \in OutType /\ Halts
  BY <1>1, Halting DEF cancelSession
<1>8. /\ live' = live /\ setup' = setup /\ lp' = lp /\ feed' = feed /\ worker' = worker
      /\ recog' = recog /\ conv' = conv /\ post' = post /\ marks' = marks /\ turn' = turn
      /\ budget' = budget
  BY DEF cancelSession
<1>20. TypeOK'
  BY <1>1, <1>3, <1>4, <1>5, <1>6, <1>7, <1>8 DEF TypeOK
<1>21. Generations'
  BY <1>1, <1>2, <1>3, <1>4, <1>5, <1>8 DEF Generations, Stopped, Names, NConst, NLive, NFeed,
     NWorker, NQueue, NStop, NRest
<1>22. Setups'
  BY <1>1, <1>8 DEF Setups
<1>23. Unready'
  BY <1>1, <1>8 DEF Unready
<1>24. Workers'
  BY <1>1, <1>8 DEF Workers, WorkerOK, Fencing, Speaking
<1>25. Places'
  BY <1>1, <1>8 DEF Places, Q
<1>26. Opened'
  BY <1>1, <1>8 DEF Opened, Q
<1>27. Freshness'
  BY <1>1, <1>2, Busy, <1>3, <1>4, <1>5, <1>6, <1>7, <1>8 DEF Freshness, Fresh, InQ, Untouched,
     Unheard, Q, Early, Stopped, Cuts, Halts, Some, Names, NConst, NLive, NWorker, NQueue, NStop,
     NOut, NCtx, NTurn
<1>28. Progress'
  BY <1>1, Busy, <1>3, <1>5, <1>6, <1>7, <1>8 DEF Progress, Unheard, Unspoken, Before, Early,
     Cuts, Halts, Some
<1>29. Replies'
  BY <1>1, <1>3, <1>4, <1>5, <1>6, <1>7, <1>8 DEF Replies, Replying, Before, Early, Speaking,
     Stopped, Cuts, Halts
<1>30. Locks'
  BY <1>1, <1>8 DEF Locks, Locking, Writing
<1>31. Captures'
  BY <1>1, <1>3, <1>4, <1>5, <1>8 DEF Captures, CapturedOnce, Stopped
<1>32. Cursor'
  BY <1>1, <1>3, <1>5, <1>7, <1>8 DEF Cursor, Halts
<1>33. Settled'
  BY <1>1, <1>2, <1>3, <1>4, <1>5, <1>6, <1>7, <1>8 DEF Settled, Done, Pend, Open, Stopped, Cuts,
     Halts, Names, NConst, NLive, NFeed, NWorker, NStop, NOut, NCtx, NTurn, NRest
<1>34. Aborts'
  BY <1>1, <1>3, <1>4, <1>5, <1>8 DEF Aborts, Stopped
<1>35. Opening'
  BY <1>1, <1>8 DEF Opening
<1>36. Modes'
  BY <1>1, <1>3, <1>4, <1>5, <1>8 DEF Modes, Stopped
<1>37. Finite'
  BY <1>1, <1>8 DEF Finite
<1>38. BoundaryIsHeard'
  BY <1>1, <1>8 DEF BoundaryIsHeard
<1>39. NoRecognizerLeaks'
  BY <1>1, <1>3, <1>4, <1>5, <1>8 DEF NoRecognizerLeaks, InHand, Members, At, Stopped
<1>40. FencesHeld'
  <2>1. Holders' = Holders
    BY <1>8 DEF Holders
  <2>2. Takers' = Takers
    BY <1>4, <1>8 DEF Takers, Stopped
  <2> QED BY <1>1, <2>1, <2>2, <1>3, <1>5, <1>8, FencesKept
<1> QED BY <1>20, <1>21, <1>22, <1>23, <1>24, <1>25, <1>26, <1>27, <1>28, <1>29, <1>30, <1>31,
   <1>32, <1>33, <1>34, <1>35, <1>36, <1>37, <1>38, <1>39, <1>40 DEF IInv

-----------------------------------------------------------------------------
(* The inbound loop.                                                         *)

\* The events of a chunk are up to be handled.
LEMMA FeedLiveKeeps ==
  ASSUME IInv, feedLive
  PROVE  IInv'
<1>1. /\ TypeOK /\ Generations /\ Setups /\ Unready /\ Workers /\ Places /\ Opened /\ Freshness
      /\ Progress /\ Replies /\ Locks /\ Captures /\ Cursor /\ Settled /\ Aborts /\ Opening
      /\ Modes /\ Finite /\ BoundaryIsHeard /\ NoRecognizerLeaks /\ FencesHeld
  BY DEF IInv
<1>2. Names
  BY <1>1, TypedNames
<1>3. live.lp # 0 /\ live.ready /\ feed.pc = "idle" /\ feed.evs = <<>>
  BY DEF feedLive
<1>4. PICK evs \in Said(lp[live.lp]) :
        /\ lp' = [lp EXCEPT ![live.lp] = Heard(@, evs)]
        /\ feed' = [feed EXCEPT !.lp = live.lp, !.evs = evs]
  BY DEF feedLive
<1>5. evs \in Seq({"Open", "BargeIn", "Commit", "Cancel"}) /\ evs # <<>>
  <2>1. /\ <<"Open">> \in Seq({"Open", "BargeIn", "Commit", "Cancel"})
        /\ <<"Commit">> \in Seq({"Open", "BargeIn", "Commit", "Cancel"})
        /\ <<"Cancel">> \in Seq({"Open", "BargeIn", "Commit", "Cancel"})
        /\ <<"BargeIn">> \in Seq({"Open", "BargeIn", "Commit", "Cancel"})
        /\ <<"BargeIn", "Commit">> \in Seq({"Open", "BargeIn", "Commit", "Cancel"})
    OBVIOUS
  <2>2. /\ <<"Open">> # <<>> /\ <<"Commit">> # <<>> /\ <<"Cancel">> # <<>> /\ <<"BargeIn">> # <<>>
        /\ <<"BargeIn", "Commit">> # <<>>
    OBVIOUS
  <2>3. evs \in {<<"Open">>, <<"Commit">>, <<"Cancel">>, <<"BargeIn">>, <<"BargeIn", "Commit">>}
    BY <1>4 DEF Said
  <2> QED BY <2>1, <2>2, <2>3
<1>6. live.lp \in Gens
  BY <1>2, <1>3 DEF Names, NLive
<1>7. /\ Heard(lp[live.lp], evs) \in PipeType /\ Heard(lp[live.lp], evs).queue = lp[live.lp].queue
      /\ Heard(lp[live.lp], evs).done = lp[live.lp].done
  <2> DEFINE p == lp[live.lp]
             seg == IF evs[Len(evs)] \in {"Commit", "Cancel"} THEN "idle" ELSE "open"
             over == IF evs[1] = "Open" THEN Playing ELSE p.over
             barged == evs[1] # "Open" /\ (p.barged \/ evs[1] = "BargeIn")
  <2>1. p \in PipeType
    BY <1>1, <1>6 DEF TypeOK
  <2>2. over \in BOOLEAN /\ barged \in BOOLEAN /\ seg \in {"idle", "open"}
    BY <1>2, <2>1 DEF PipeType, Playing, Names, NOut
  <2>3. Heard(p, evs) = [p EXCEPT !.seg = seg, !.over = over, !.barged = barged]
    BY DEF Heard
  <2> HIDE DEF seg, over, barged
  <2> QED BY <2>1, <2>2, <2>3 DEF PipeType
<1>8. lp' \in [Gens -> PipeType] /\ Queued(live.lp, lp[live.lp].queue)
  BY <1>1, <1>4, <1>6, <1>7 DEF TypeOK, Queued
<1>9. /\ feed' \in FeedType /\ feed'.evs = evs /\ feed'.lp = live.lp /\ feed'.pc = "idle"
  BY <1>1, <1>3, <1>4, <1>5 DEF FeedType, LiveType, TypeOK
<1>10. /\ live' = live /\ setup' = setup /\ stop' = stop /\ worker' = worker /\ recog' = recog
       /\ ctx' = ctx /\ out' = out /\ conv' = conv /\ post' = post /\ marks' = marks
       /\ turn' = turn /\ budget' = budget
  BY DEF feedLive
<1>20. TypeOK'
  BY <1>1, <1>3, <1>4, <1>5, <1>6, <1>7, <1>8, <1>9, <1>10 DEF TypeOK, Queued
<1>21. Generations'
  BY <1>1, <1>3, <1>4, <1>5, <1>6, <1>7, <1>8, <1>9, <1>10 DEF Generations, Queued
<1>22. Setups'
  BY <1>1, <1>10 DEF Setups
<1>23. Unready'
  <2>1. \A h \in Gens : lp'[h].queue = lp[h].queue
    BY <1>8 DEF Queued
  <2>2. \A h \in Gens : worker[h].pc = "none" \/ (live.lp = h /\ ~live.ready) => feed'.lp # h
    BY <1>1, <1>3, <1>9 DEF Modes
  <2> QED BY <1>1, <2>1, <2>2, <1>10 DEF Unready
<1>24. Workers'
  BY <1>1, <1>10 DEF Workers, WorkerOK, Fencing, Speaking
<1>25. Places'
  <2>1. \A h \in Gens : Q(h)' = Q(h)
    BY <1>8 DEF Queued, Q
  <2> QED BY <1>1, <2>1, <1>10 DEF Places
<1>26. Opened'
  BY <1>1, <1>3, <1>4, <1>5, <1>6, <1>7, <1>8, <1>10 DEF Opened, Q, Queued
<1>27. Freshness'
  BY <1>1, <1>3, <1>4, <1>5, <1>6, <1>7, <1>8, <1>10 DEF Freshness, Fresh, InQ, Untouched,
     Unheard, Q, Early, Queued
<1>28. Progress'
  BY <1>1, <1>10 DEF Progress, Unheard, Unspoken, Before, Early
<1>29. Replies'
  BY <1>1, <1>10 DEF Replies, Replying, Before, Early, Speaking
<1>30. Locks'
  BY <1>1, <1>10 DEF Locks, Locking, Writing
<1>31. Captures'
  BY <1>1, <1>3, <1>4, <1>5, <1>6, <1>7, <1>9, <1>10 DEF Captures, CapturedOnce
<1>32. Cursor'
  BY <1>1, <1>10 DEF Cursor
<1>33. Settled'
  BY <1>1, <1>3, <1>4, <1>5, <1>6, <1>7, <1>9, <1>10 DEF Settled, Done, Pend, Open
<1>34. Aborts'
  BY <1>1, <1>10 DEF Aborts
<1>35. Opening'
  BY <1>1, <1>3, <1>4, <1>5, <1>6, <1>7, <1>9, <1>10 DEF Opening
<1>36. Modes'
  BY <1>1, <1>10 DEF Modes
<1>37. Finite'
  BY <1>1, <1>10 DEF Finite
<1>38. BoundaryIsHeard'
  BY <1>1, <1>10 DEF BoundaryIsHeard
<1>39. NoRecognizerLeaks'
  BY <1>1, <1>3, <1>4, <1>5, <1>6, <1>7, <1>8, <1>10 DEF NoRecognizerLeaks, InHand, Members, At,
     Queued
<1>40. FencesHeld'
  <2>1. Holders' = Holders
    BY <1>10 DEF Holders
  <2>2. Takers' = Takers
    BY <1>10 DEF Takers
  <2> QED BY <1>1, <2>1, <2>2, <1>3, <1>4, <1>5, <1>6, <1>7, <1>9, <1>10, FencesKept
<1> QED BY <1>20, <1>21, <1>22, <1>23, <1>24, <1>25, <1>26, <1>27, <1>28, <1>29, <1>30, <1>31,
   <1>32, <1>33, <1>34, <1>35, <1>36, <1>37, <1>38, <1>39, <1>40 DEF IInv

\* An event of a live mode that was left is dropped.
LEMMA DropStaleKeeps ==
  ASSUME IInv, dropStale
  PROVE  IInv'
<1>1. /\ TypeOK /\ Generations /\ Setups /\ Unready /\ Workers /\ Places /\ Opened /\ Freshness
      /\ Progress /\ Replies /\ Locks /\ Captures /\ Cursor /\ Settled /\ Aborts /\ Opening
      /\ Modes /\ Finite /\ BoundaryIsHeard /\ NoRecognizerLeaks /\ FencesHeld
  BY DEF IInv
<1>2. Names
  BY <1>1, TypedNames
<1>3. feed.pc = "idle" /\ feed.evs # <<>> /\ live.lp # feed.lp
  BY DEF dropStale, Owns
<1>4. feed' \in FeedType /\ Handles
  BY <1>1, <1>3, Handling1 DEF dropStale
<1>5. /\ live' = live /\ setup' = setup /\ stop' = stop /\ lp' = lp /\ worker' = worker
      /\ recog' = recog /\ ctx' = ctx /\ out' = out /\ conv' = conv /\ post' = post
      /\ marks' = marks /\ turn' = turn /\ budget' = budget
  BY DEF dropStale
<1>20. TypeOK'
  BY <1>1, <1>3, <1>4, <1>5 DEF TypeOK
<1>21. Generations'
  BY <1>1, <1>3, <1>4, <1>5 DEF Generations, Handles
<1>22. Setups'
  BY <1>1, <1>5 DEF Setups
<1>23. Unready'
  BY <1>1, <1>3, <1>4, <1>5 DEF Unready, Handles
<1>24. Workers'
  BY <1>1, <1>5 DEF Workers, WorkerOK, Fencing, Speaking
<1>25. Places'
  BY <1>1, <1>5 DEF Places, Q
<1>26. Opened'
  BY <1>1, <1>5 DEF Opened, Q
<1>27. Freshness'
  BY <1>1, <1>5 DEF Freshness, Fresh, InQ, Untouched, Unheard, Q, Early
<1>28. Progress'
  BY <1>1, <1>5 DEF Progress, Unheard, Unspoken, Before, Early
<1>29. Replies'
  BY <1>1, <1>5 DEF Replies, Replying, Before, Early, Speaking
<1>30. Locks'
  BY <1>1, <1>5 DEF Locks, Locking, Writing
<1>31. Captures'
  BY <1>1, <1>3, <1>4, <1>5 DEF Captures, CapturedOnce, Handles
<1>32. Cursor'
  BY <1>1, <1>5 DEF Cursor
<1>33. Settled'
  BY <1>1, <1>3, <1>4, <1>5 DEF Settled, Done, Pend, Open, Handles
<1>34. Aborts'
  BY <1>1, <1>5 DEF Aborts
<1>35. Opening'
  BY <1>1, <1>3, <1>4, <1>5 DEF Opening, Handles
<1>36. Modes'
  BY <1>1, <1>5 DEF Modes
<1>37. Finite'
  BY <1>1, <1>5 DEF Finite
<1>38. BoundaryIsHeard'
  BY <1>1, <1>5 DEF BoundaryIsHeard
<1>39. NoRecognizerLeaks'
  BY <1>1, <1>5 DEF NoRecognizerLeaks, InHand, Members, At
<1>40. FencesHeld'
  <2>1. Holders' = Holders
    BY <1>5 DEF Holders
  <2>2. Takers' = Takers
    BY <1>5 DEF Takers
  <2> QED BY <1>1, <2>1, <2>2, <1>3, <1>4, <1>5, FencesKept DEF Handles
<1> QED BY <1>20, <1>21, <1>22, <1>23, <1>24, <1>25, <1>26, <1>27, <1>28, <1>29, <1>30, <1>31,
   <1>32, <1>33, <1>34, <1>35, <1>36, <1>37, <1>38, <1>39, <1>40 DEF IInv

\* A turn begins: a recognizer left over is closed.
LEMMA OpenTurnKeeps ==
  ASSUME IInv, openTurn
  PROVE  IInv'
<1>1. /\ TypeOK /\ Generations /\ Setups /\ Unready /\ Workers /\ Places /\ Opened /\ Freshness
      /\ Progress /\ Replies /\ Locks /\ Captures /\ Cursor /\ Settled /\ Aborts /\ Opening
      /\ Modes /\ Finite /\ BoundaryIsHeard /\ NoRecognizerLeaks /\ FencesHeld
  BY DEF IInv
<1>2. Names
  BY <1>1, TypedNames
<1>3. /\ feed.pc = "idle" /\ feed.evs # <<>> /\ live.lp = feed.lp /\ live.lp # 0
  BY <1>1 DEF openTurn, Owns, Handling, Generations
<1>4. /\ feed' \in FeedType /\ feed'.evs = feed.evs /\ feed'.lp = feed.lp /\ feed'.pc = "opening"
  BY <1>1 DEF openTurn, FeedType, TypeOK
<1>5. 0 \in Turns
  BY VoiceAssumption DEF Turns
<1>6. live' \in LiveType /\ SameMode /\ Talk(0, live.workerRecog, live.reply, live.replyTurn)
  BY <1>1, <1>5 DEF openTurn, TypeOK, LiveType, Mode, SameMode, Talk, SameTalk
<1>7. recog' \in [Utterances -> {"none", "open", "closed"}] /\ Shut(Some(live.turnRecog))
  BY <1>1, Closing DEF openTurn
<1>8. /\ setup' = setup /\ stop' = stop /\ lp' = lp /\ worker' = worker /\ ctx' = ctx
      /\ out' = out /\ conv' = conv /\ post' = post /\ marks' = marks /\ turn' = turn
      /\ budget' = budget
  BY DEF openTurn
<1>20. TypeOK'
  BY <1>1, <1>3, <1>4, <1>5, <1>6, <1>7, <1>8 DEF TypeOK
<1>21. Generations'
  BY <1>1, <1>3, <1>4, <1>5, <1>6, <1>8 DEF Generations, SameMode, Mode, Talk
<1>22. Setups'
  BY <1>1, <1>3, <1>5, <1>6, <1>8 DEF Setups, SameMode, Mode, Talk
<1>23. Unready'
  BY <1>1, <1>3, <1>4, <1>5, <1>6, <1>8 DEF Unready, SameMode, Mode, Talk
<1>24. Workers'
  BY <1>1, <1>8 DEF Workers, WorkerOK, Fencing, Speaking
<1>25. Places'
  BY <1>1, <1>3, <1>5, <1>6, <1>8 DEF Places, Q, SameMode, Mode, Talk
<1>26. Opened'
  BY <1>1, <1>2, <1>3, <1>5, <1>6, <1>7, <1>8 DEF Opened, Q, SameMode, Mode, Talk, Shut, Names,
     NConst, NLive, NWorker, NQueue
<1>27. Freshness'
  BY <1>1, <1>2, <1>3, <1>4, <1>5, <1>6, <1>7, <1>8 DEF Freshness, Fresh, InQ, Untouched,
     Unheard, Q, Early, SameMode, Mode, Talk, Shut, Names, NConst
<1>28. Progress'
  BY <1>1, <1>8 DEF Progress, Unheard, Unspoken, Before, Early
<1>29. Replies'
  BY <1>1, <1>3, <1>5, <1>6, <1>8 DEF Replies, Replying, Before, Early, Speaking, SameMode, Mode,
     Talk
<1>30. Locks'
  BY <1>1, <1>8 DEF Locks, Locking, Writing
<1>31. Captures'
  BY <1>1, <1>3, <1>4, <1>5, <1>8 DEF Captures, CapturedOnce
<1>32. Cursor'
  BY <1>1, <1>8 DEF Cursor
<1>33. Settled'
  BY <1>1, <1>3, <1>4, <1>5, <1>6, <1>8 DEF Settled, Done, Pend, Open, SameMode, Mode, Talk
<1>34. Aborts'
  BY <1>1, Busy, <1>3, <1>5, <1>6, <1>7, <1>8 DEF Aborts, SameMode, Mode, Talk, Shut, Some
<1>35. Opening'
  BY <1>1, <1>3, <1>4, <1>5, <1>6, <1>8 DEF Opening, SameMode, Mode, Talk
<1>36. Modes'
  BY <1>1, <1>3, <1>5, <1>6, <1>8 DEF Modes, SameMode, Mode, Talk
<1>37. Finite'
  BY <1>1, <1>8 DEF Finite
<1>38. BoundaryIsHeard'
  BY <1>1, <1>8 DEF BoundaryIsHeard
<1>39. NoRecognizerLeaks'
  BY <1>1, <1>3, <1>4, <1>5, <1>6, <1>7, <1>8, VoiceAssumption DEF NoRecognizerLeaks, InHand,
     Members, At, SameMode, Mode, Talk, Shut, Utterances, Gens, Some
<1>40. FencesHeld'
  <2>1. Holders' = Holders
    BY <1>8 DEF Holders
  <2>2. Takers' = Takers
    BY <1>8 DEF Takers
  <2> QED BY <1>1, <2>1, <2>2, <1>3, <1>4, <1>5, <1>8, FencesKept
<1> QED BY <1>20, <1>21, <1>22, <1>23, <1>24, <1>25, <1>26, <1>27, <1>28, <1>29, <1>30, <1>31,
   <1>32, <1>33, <1>34, <1>35, <1>36, <1>37, <1>38, <1>39, <1>40 DEF IInv

\* The recognizer of the turn is opened, and kept by its owner only.
LEMMA InstallRecogKeeps ==
  ASSUME IInv, installRecog
  PROVE  IInv'
<1>1. /\ TypeOK /\ Generations /\ Setups /\ Unready /\ Workers /\ Places /\ Opened /\ Freshness
      /\ Progress /\ Replies /\ Locks /\ Captures /\ Cursor /\ Settled /\ Aborts /\ Opening
      /\ Modes /\ Finite /\ BoundaryIsHeard /\ NoRecognizerLeaks /\ FencesHeld
  BY DEF IInv
<1>2. Names
  BY <1>1, TypedNames
<1>3. feed.pc = "opening" /\ feed.evs # <<>> /\ live.turnRecog = 0
  BY <1>1 DEF installRecog, Generations, Opening
<1>4. feed' \in FeedType /\ Handles
  BY <1>1, <1>3, Handling1 DEF installRecog
<1>5. PICK u \in Utterances :
        /\ recog[u] = "none"
        /\ \/ live.lp = feed.lp /\ live' = [live EXCEPT !.turnRecog = u] /\ recog' = [recog EXCEPT ![u] = "open"]
           \/ live' = live /\ recog' = [recog EXCEPT ![u] = "closed"]
        /\ Spend("fault") \/ budget' = budget
  BY DEF installRecog, NextIs, Owns
<1>6. /\ live' \in LiveType /\ SameMode /\ live'.turnRecog \in {0, u} /\ live'.workerRecog = live.workerRecog
      /\ live'.reply = live.reply /\ live'.replyTurn = live.replyTurn
  <2>1. live \in LiveType /\ u \in Turns
    BY <1>1, TurnsAre DEF TypeOK
  <2> QED BY <1>3, <1>5, <2>1 DEF LiveType, SameMode, Mode
<1>7. /\ recog' \in [Utterances -> {"none", "open", "closed"}]
      /\ \A v \in Utterances : v # u => recog'[v] = recog[v]
      /\ recog'[u] \in {"open", "closed"}
      /\ recog'[u] = "open" => live'.turnRecog = u /\ live.lp = feed.lp
      /\ live'.turnRecog = u => live.lp = feed.lp
  <2>1. live \in LiveType /\ recog \in [Utterances -> {"none", "open", "closed"}] /\ 0 # u
    BY <1>1, <1>2 DEF TypeOK, Names, NConst
  <2>2. CASE live' = live
    BY <1>3, <1>5, <2>1, <2>2 DEF LiveType
  <2>3. CASE live' # live
    BY <1>3, <1>5, <2>1, <2>3 DEF LiveType
  <2> QED BY <2>2, <2>3
<1>8. budget' \in BudgetType /\ budget'["stop"] = budget["stop"]
  BY <1>1, <1>5, Spent DEF TypeOK
<1>9. /\ setup' = setup /\ stop' = stop /\ lp' = lp /\ worker' = worker /\ ctx' = ctx
      /\ out' = out /\ conv' = conv /\ post' = post /\ marks' = marks /\ turn' = turn
  BY DEF installRecog
<1>20. TypeOK'
  BY <1>1, <1>3, <1>4, <1>5, <1>6, <1>7, <1>8, <1>9 DEF TypeOK
<1>21. Generations'
  BY <1>1, <1>3, <1>4, <1>5, <1>6, <1>7, <1>8, <1>9 DEF Generations, Handles, SameMode, Mode
<1>22. Setups'
  BY <1>1, <1>3, <1>5, <1>6, <1>7, <1>9 DEF Setups, SameMode, Mode
<1>23. Unready'
  BY <1>1, <1>3, <1>4, <1>5, <1>6, <1>7, <1>9 DEF Unready, Handles, SameMode, Mode
<1>24. Workers'
  BY <1>1, <1>9 DEF Workers, WorkerOK, Fencing, Speaking
<1>25. Places'
  <2>1. \A h \in Gens : worker[h].u # u /\ \A i \in 1..Len(Q(h)) : Q(h)[i] # u
    BY <1>1, <1>2, <1>5 DEF Opened, Names, NConst
  <2> QED BY <1>1, <1>6, <2>1, <1>9 DEF Places, Q
<1>26. Opened'
  BY <1>1, <1>2, <1>3, <1>5, <1>6, <1>7, <1>9 DEF Opened, Q, SameMode, Mode, Names, NConst,
     NLive, NWorker, NQueue
<1>27. Freshness'
  BY <1>1, <1>3, <1>5, <1>6, <1>7, <1>9 DEF Freshness, Fresh, InQ, Untouched, Unheard, Q, Early,
     SameMode, Mode
<1>28. Progress'
  BY <1>1, <1>9 DEF Progress, Unheard, Unspoken, Before, Early
<1>29. Replies'
  BY <1>1, <1>3, <1>5, <1>6, <1>7, <1>9 DEF Replies, Replying, Before, Early, Speaking, SameMode,
     Mode
<1>30. Locks'
  BY <1>1, <1>9 DEF Locks, Locking, Writing
<1>31. Captures'
  BY <1>1, <1>3, <1>4, <1>9 DEF Captures, CapturedOnce, Handles
<1>32. Cursor'
  BY <1>1, <1>9 DEF Cursor
<1>33. Settled'
  BY <1>1, <1>3, <1>4, <1>5, <1>6, <1>7, <1>9 DEF Settled, Done, Pend, Open, Handles, SameMode,
     Mode
<1>34. Aborts'
  <2>1. SUFFICES ASSUME NEW h \in Gens, worker[h].pc = "finalize", recog'[worker[h].u] = "open"
                 PROVE  \/ live'.lp = h /\ live'.workerRecog = worker[h].u
                        \/ \E x \in Stoppers : stop[x].pc = "teardown" /\ worker[h].u \in stop[x].recogs
    BY <1>9 DEF Aborts
  <2>2. worker[h].u \in Utterances /\ worker[h].u # 0
    BY <2>1, Busy
  <2>3. worker[h].u # u
    BY <1>1, <1>5, <2>2 DEF Opened
  <2>4. recog[worker[h].u] = "open"
    BY <1>7, <2>1, <2>2, <2>3
  <2> QED BY <1>1, <1>6, <2>1, <2>4 DEF Aborts, SameMode, Mode
<1>35. Opening'
  BY <1>1, <1>3, <1>4, <1>5, <1>6, <1>7, <1>9 DEF Opening, Handles, SameMode, Mode
<1>36. Modes'
  BY <1>1, <1>3, <1>5, <1>6, <1>7, <1>9 DEF Modes, SameMode, Mode
<1>37. Finite'
  BY <1>1, <1>9 DEF Finite
<1>38. BoundaryIsHeard'
  BY <1>1, <1>9 DEF BoundaryIsHeard
<1>39. NoRecognizerLeaks'
  BY <1>1, <1>2, <1>3, <1>5, <1>6, <1>7, <1>9 DEF NoRecognizerLeaks, InHand, Members, At,
     SameMode, Mode, Names, NConst, NLive, NWorker, NQueue, NStop
<1>40. FencesHeld'
  <2>1. Holders' = Holders
    BY <1>9 DEF Holders
  <2>2. Takers' = Takers
    BY <1>9 DEF Takers
  <2> QED BY <1>1, <2>1, <2>2, <1>3, <1>4, <1>9, FencesKept DEF Handles
<1> QED BY <1>20, <1>21, <1>22, <1>23, <1>24, <1>25, <1>26, <1>27, <1>28, <1>29, <1>30, <1>31,
   <1>32, <1>33, <1>34, <1>35, <1>36, <1>37, <1>38, <1>39, <1>40 DEF IInv

\* A barge-in cuts the reply that plays, and captures it.
LEMMA BargeInKeeps ==
  ASSUME IInv, bargeIn
  PROVE  IInv'
<1>1. /\ TypeOK /\ Generations /\ Setups /\ Unready /\ Workers /\ Places /\ Opened /\ Freshness
      /\ Progress /\ Replies /\ Locks /\ Captures /\ Cursor /\ Settled /\ Aborts /\ Opening
      /\ Modes /\ Finite /\ BoundaryIsHeard /\ NoRecognizerLeaks /\ FencesHeld
  BY DEF IInv
<1>2. Names
  BY <1>1, TypedNames
<1>3. /\ feed.pc = "idle" /\ feed.evs # <<>> /\ live.lp = feed.lp /\ live.lp # 0
  BY <1>1 DEF bargeIn, Owns, Handling, Generations
<1>4. /\ feed' \in FeedType
      /\ live.replyTurn = 0 => Handles
      /\ live.replyTurn # 0 => /\ feed'.pc = "marking" /\ feed'.turn = live.replyTurn
                              /\ feed'.at = out.played /\ feed'.evs = feed.evs /\ feed'.lp = feed.lp
  BY <1>1, <1>3, Handling1 DEF bargeIn, FeedType, TypeOK, LiveType, OutType
<1>5. turn' \in [Utterances -> TurnType] /\ conv' \in ConvType /\ Captures1(live.replyTurn)
  BY <1>1, <1>2, Capturing DEF bargeIn, Names, NLive
<1>6. out' \in OutType /\ Halts
  BY <1>1, Halting DEF bargeIn
<1>7. ctx' \in CtxType /\ Cuts(Some(live.reply))
  BY <1>1, <1>2, Cutting DEF bargeIn, Names, NLive, Some
<1>8. live' \in LiveType /\ SameMode /\ Talk(live.turnRecog, live.workerRecog, 0, 0)
  BY <1>1, TurnsAre DEF bargeIn, TypeOK, LiveType, SameMode, Mode, Talk
<1>9. /\ setup' = setup /\ stop' = stop /\ lp' = lp /\ worker' = worker /\ recog' = recog
      /\ post' = post /\ marks' = marks /\ budget' = budget
  BY DEF bargeIn
<1>20. TypeOK'
  BY <1>1, <1>3, <1>4, <1>5, <1>6, <1>7, <1>8, <1>9 DEF TypeOK
<1>21. Generations'
  BY <1>1, <1>3, <1>4, <1>8, <1>9 DEF Generations, Handles, SameMode, Mode, Talk
<1>22. Setups'
  BY <1>1, <1>3, <1>8, <1>9 DEF Setups, SameMode, Mode, Talk
<1>23. Unready'
  BY <1>1, <1>3, <1>4, <1>8, <1>9 DEF Unready, Handles, SameMode, Mode, Talk
<1>24. Workers'
  BY <1>1, <1>9 DEF Workers, WorkerOK, Fencing, Speaking
<1>25. Places'
  BY <1>1, <1>3, <1>8, <1>9 DEF Places, Q, SameMode, Mode, Talk
<1>26. Opened'
  BY <1>1, <1>3, <1>8, <1>9 DEF Opened, Q, SameMode, Mode, Talk
<1>27. Freshness'
  <2>1. \A v \in Utterances : Fresh(v)' => Fresh(v)
    BY <1>8, <1>9 DEF Fresh, InQ, Q, Talk
  <2>2. \A v \in Utterances : Fresh(v) /\ Untouched(v) => Untouched(v)'
    <3>1. live.replyTurn # 0 => ~Fresh(live.replyTurn)
      BY ReplyOf, ReplyTurnOf
    <3>2. live.reply # 0 => ~Fresh(live.reply)
      BY ReplyOf
    <3>3. SUFFICES ASSUME NEW v \in Utterances, Fresh(v), Untouched(v) PROVE Untouched(v)'
      OBVIOUS
    <3>4. turn'[v] = turn[v] /\ v # live.reply
      BY <1>2, <1>5, <3>1, <3>2, <3>3 DEF Captures1, Others, Names, NConst
    <3>5. v \in ctx'.cancelled => v \in ctx.cancelled
      BY <1>7, <3>4 DEF Cuts, Some
    <3> QED BY <3>3, <3>4, <3>5, <1>9 DEF Untouched
  <2>3. \A v \in Utterances : Fresh(v) /\ Unheard(v) => Unheard(v)'
    <3>1. SUFFICES ASSUME NEW v \in Utterances, Unheard(v) PROVE Unheard(v)'
      OBVIOUS
    <3>2. turn'[v].heard = turn[v].heard /\ turn'[v].whole = turn[v].whole
      BY <1>5 DEF Captures1, Heard0, Whole0
    <3> QED BY <1>2, <1>6, <1>7, <3>1, <3>2 DEF Unheard, Cuts, Halts, Some, Names, NConst
  <2> QED BY <1>1, <2>1, <2>2, <2>3 DEF Freshness
<1>28. Progress'
  <2>1. \A h \in Gens : worker[h].pc \in Before \cup {"commit", "zero"} => worker[h].u # live.replyTurn
    <3>1. CASE live.replyTurn = 0
      BY <1>2, <3>1, Busy DEF Before, Early
    <3>2. CASE live.replyTurn # 0
      BY <3>2, ReplyOf, ReplyTurnOf DEF Fencing, Speaking, Before, Early
    <3> QED BY <3>1, <3>2
  <2>2. \A h \in Gens : worker[h].pc \in Before \cup {"commit", "zero"} =>
          worker[h].u \in Utterances /\ turn'[worker[h].u] = turn[worker[h].u]
    BY <1>5, <2>1, Busy DEF Captures1, Others, Before, Early
  <2>3. \A h \in Gens : worker[h].pc \in Unspoken => worker[h].u \in Utterances /\ Unheard(worker[h].u)'
    <3>1. \A v \in Utterances : turn'[v].heard = turn[v].heard /\ turn'[v].whole = turn[v].whole
      BY <1>5 DEF Captures1, Heard0, Whole0
    <3>2. \A v \in Utterances : Unheard(v) => Unheard(v)'
      <4>1. SUFFICES ASSUME NEW v \in Utterances, Unheard(v) PROVE Unheard(v)'
        OBVIOUS
      <4> QED BY <1>2, <1>6, <1>7, <3>1, <4>1 DEF Unheard, Cuts, Halts, Some, Names, NConst
    <3> QED BY <1>1, <3>2, <1>9, Busy DEF Progress, Unspoken, Before, Early
  <2>4. \A h \in Gens : worker[h].pc = "playing" => ~turn'[worker[h].u].whole
    BY <1>1, <1>5, Busy DEF Progress, Captures1, Whole0
  <2> QED BY <1>1, <2>2, <2>3, <2>4, <1>9 DEF Progress
<1>29. Replies'
  BY <1>1, <1>3, <1>5, <1>6, <1>7, <1>8, <1>9 DEF Replies, Replying, Before, Early, Speaking,
     Captures1, Others, Heard0, Whole0, Told0, Halts, Cuts, SameMode, Mode, Talk
<1>30. Locks'
  <2>2. conv'.lock = conv.lock
    BY <1>5 DEF Captures1
  <2>3. live.replyTurn = 0 => conv'.fences = conv.fences
    BY <1>2, <1>5 DEF Captures1, Names, NConv
  <2>4. \A h \in Gens : worker[h].pc \in Writing => conv'.fences = 0
    BY <1>1, <2>3, ReplyTurnOf DEF Locks
  <2>5. post \in {"context", "generate"} => conv'.fences = 0
    BY <1>1, <2>3, ReplyTurnOf DEF Locks
  <2> QED BY <1>1, <2>2, <2>4, <2>5, <1>9 DEF Locks
<1>31. Captures'
  <2> DEFINE u == live.replyTurn
  <2>1. u # 0 => u \in Utterances /\ turn[u].captured = 0 /\ turn'[u].captured = 1
    BY <1>2, <1>5, ReplyTurnOf DEF Captures1, Names, NLive
  <2>2. \A v \in Utterances : v # u => turn'[v].captured = turn[v].captured
    BY <1>2, <1>5 DEF Captures1, Names, NTurn
  <2>3. \A v \in Utterances : turn'[v].heard = turn[v].heard
    BY <1>5 DEF Captures1, Heard0
  <2>4. u # 0 => out.played <= turn[u].heard
    BY <1>1, <1>2, <2>1, ReplyTurnOf DEF Cursor, Names, NOut, NTurn, NConst
  <2>5. CapturedOnce'
    <3>1. \A v \in Utterances : turn[v].captured <= 1
      BY <1>1 DEF Captures, CapturedOnce
    <3>2. \A v \in Utterances : turn'[v].captured <= 1
      <4> HIDE DEF u
      <4> QED BY <1>2, <2>1, <2>2, <3>1 DEF Names, NConst
    <3> QED BY <3>2 DEF CapturedOnce
  <2>6. /\ \A x \in Stoppers : stop[x].turn # 0 =>
             /\ stop[x].turn \in Utterances /\ stop[x].turn # u
             /\ turn'[stop[x].turn].captured = 1
        /\ \A m \in marks : m.turn \in Utterances /\ m.turn # u /\ turn'[m.turn].captured = 1
        /\ feed.pc = "marking" => /\ feed.turn \in Utterances /\ feed.turn # u
                                  /\ turn'[feed.turn].captured = 1
    BY <1>1, <1>2, <2>1, <2>2 DEF Captures, Names, NStop, NRest, NFeed, NConst

  <2>7. feed'.pc = "marking" => /\ feed'.turn # 0 /\ turn'[feed'.turn].captured = 1
                                /\ feed'.at <= turn'[feed'.turn].heard
    BY <1>4, <2>1, <2>3, <2>4 DEF Handles
  <2>8. /\ \A x \in Stoppers : stop[x].turn # 0 =>
             turn'[stop[x].turn].captured = 1 /\ stop[x].at <= turn'[stop[x].turn].heard
        /\ \A m \in marks : turn'[m.turn].captured = 1 /\ m.at <= turn'[m.turn].heard
    BY <1>1, <2>3, <2>6 DEF Captures
  <2> QED BY <1>1, <2>5, <2>7, <2>8, <1>9 DEF Captures
<1>32. Cursor'
  BY <1>1, <1>2, <1>3, <1>5, <1>6, <1>9 DEF Cursor, Captures1, Others, Heard0, Whole0, Told0,
     Halts, Names, NConst, NWorker, NOut, NTurn
<1>33. Settled'
  BY <1>1, <1>2, <1>3, <1>4, <1>5, <1>6, <1>7, <1>8, <1>9 DEF Settled, Done, Pend, Open, Handles,
     Captures1, Others, Heard0, Whole0, Told0, Halts, Cuts, SameMode, Mode, Talk, Names, NConst,
     NLive, NFeed, NWorker, NStop, NOut, NCtx, NTurn, NRest
<1>34. Aborts'
  BY <1>1, <1>3, <1>8, <1>9 DEF Aborts, SameMode, Mode, Talk
<1>35. Opening'
  BY <1>1, <1>3, <1>4, <1>8, <1>9 DEF Opening, Handles, SameMode, Mode, Talk
<1>36. Modes'
  BY <1>1, <1>3, <1>8, <1>9 DEF Modes, SameMode, Mode, Talk
<1>37. Finite'
  BY <1>1, <1>9 DEF Finite
<1>38. BoundaryIsHeard'
  BY <1>1, <1>3, <1>5, <1>9 DEF BoundaryIsHeard, Captures1, Others, Heard0, Whole0, Told0
<1>39. NoRecognizerLeaks'
  BY <1>1, <1>3, <1>8, <1>9 DEF NoRecognizerLeaks, InHand, Members, At, SameMode, Mode, Talk
<1>40. FencesHeld'
  <2>1. Holders' = Holders /\ Takers' = Takers
    BY <1>9 DEF Holders, Takers
  <2>2. CASE live.replyTurn = 0
    <3>1. conv'.fences = conv.fences /\ feed'.pc = "idle"
      BY <1>2, <1>4, <1>5, <2>2 DEF Captures1, Handles, Names, NConv
    <3> QED BY <1>1, <1>3, <2>1, <3>1, <1>9, FencesKept
  <2>3. CASE live.replyTurn # 0
    <3>1. conv'.fences = conv.fences + 1 /\ feed'.pc = "marking" /\ feed.pc = "idle"
      BY <1>3, <1>4, <1>5, <2>3 DEF Captures1
    <3>2. conv.fences = Cardinality(Holders) + Cardinality(marks)
                        + (IF feed.pc = "marking" THEN 1 ELSE 0) + Cardinality(Takers)
      BY <1>1, CountFences
    <3>3. conv'.fences = Cardinality(Holders') + Cardinality(marks')
                         + (IF feed'.pc = "marking" THEN 1 ELSE 0) + Cardinality(Takers')
      BY <2>1, <3>1, <3>2, <1>9, FiniteHolders
    <3> QED BY <3>3 DEF FencesHeld, Holders, Takers
  <2> QED BY <2>2, <2>3
<1> QED BY <1>20, <1>21, <1>22, <1>23, <1>24, <1>25, <1>26, <1>27, <1>28, <1>29, <1>30, <1>31,
   <1>32, <1>33, <1>34, <1>35, <1>36, <1>37, <1>38, <1>39, <1>40 DEF IInv

\* The mark of a barge-in is written, and its fence released.
LEMMA MarkBargedKeeps ==
  ASSUME IInv, markBarged
  PROVE  IInv'
<1>1. /\ TypeOK /\ Generations /\ Setups /\ Unready /\ Workers /\ Places /\ Opened /\ Freshness
      /\ Progress /\ Replies /\ Locks /\ Captures /\ Cursor /\ Settled /\ Aborts /\ Opening
      /\ Modes /\ Finite /\ BoundaryIsHeard /\ NoRecognizerLeaks /\ FencesHeld
  BY DEF IInv
<1>2. Names
  BY <1>1, TypedNames
<1>3. feed.pc = "marking" /\ feed.evs # <<>> /\ feed.turn \in Utterances /\ feed.at \in Nat
  BY <1>1, <1>2 DEF markBarged, Generations, Captures, Names, NFeed
<1>4. /\ turn' \in [Utterances -> TurnType] /\ Marked(feed.turn, feed.at)
      /\ budget' \in BudgetType /\ budget'["stop"] = budget["stop"]
  BY <1>1, <1>3, Marking DEF markBarged, TypeOK
<1>5. conv' \in ConvType /\ conv'.lock = conv.lock /\ conv'.fences = conv.fences - 1
  BY <1>1 DEF markBarged, TypeOK, ConvType
<1>6. feed' \in FeedType /\ Handles
  BY <1>1, <1>3, Handling1 DEF markBarged
<1>7. /\ live' = live /\ setup' = setup /\ stop' = stop /\ lp' = lp /\ worker' = worker
      /\ recog' = recog /\ ctx' = ctx /\ out' = out /\ post' = post /\ marks' = marks
  BY DEF markBarged
<1>20. TypeOK'
  BY <1>1, <1>3, <1>4, <1>5, <1>6, <1>7 DEF TypeOK
<1>21. Generations'
  BY <1>1, <1>3, <1>4, <1>6, <1>7 DEF Generations, Marked, Others, Heard0, Whole0, Capt0, Handles
<1>22. Setups'
  BY <1>1, <1>7 DEF Setups
<1>23. Unready'
  BY <1>1, <1>3, <1>6, <1>7 DEF Unready, Handles
<1>24. Workers'
  BY <1>1, <1>7 DEF Workers, WorkerOK, Fencing, Speaking
<1>25. Places'
  BY <1>1, <1>7 DEF Places, Q
<1>26. Opened'
  BY <1>1, <1>7 DEF Opened, Q
<1>27. Freshness'
  <2>1. \A v \in Utterances : Fresh(v)' => Fresh(v)
    BY <1>7 DEF Fresh, InQ, Q
  <2>2. \A v \in Utterances : Fresh(v) /\ Untouched(v) => Untouched(v)'
    <3>1. turn[feed.turn].captured = 1
      BY <1>1, <1>3 DEF Captures
    <3>2. SUFFICES ASSUME NEW v \in Utterances, Fresh(v), Untouched(v) PROVE Untouched(v)'
      OBVIOUS
    <3>3. turn'[v] = turn[v]
      BY <1>3, <1>4, <3>1, <3>2, CapturedTurn DEF Marked, Others
    <3> QED BY <3>2, <3>3, <1>7 DEF Untouched
  <2>3. \A v \in Utterances : Fresh(v) /\ Unheard(v) => Unheard(v)'
    BY <1>4, <1>7, UnheardKept DEF Marked
  <2> QED BY <1>1, <2>1, <2>2, <2>3 DEF Freshness
<1>28. Progress'
  <2>1. turn[feed.turn].captured = 1
    BY <1>1, <1>3 DEF Captures
  <2>2. \A h \in Gens : worker[h].pc \in Before => turn'[worker[h].u] = turn[worker[h].u]
    BY <1>3, <1>4, <2>1, Busy, CapturedTurn DEF Marked, Others, Before, Early
  <2>3. \A h \in Gens : worker[h].pc \in {"commit", "zero"} => turn'[worker[h].u].captured = turn[worker[h].u].captured
    BY <1>4, Busy DEF Marked, Capt0
  <2>4. \A h \in Gens : worker[h].pc \in Unspoken => Unheard(worker[h].u)'
    BY <1>1, <1>4, <1>7, Busy, UnheardKept DEF Progress, Marked, Unspoken, Before, Early
  <2>5. \A h \in Gens : worker[h].pc = "playing" => turn'[worker[h].u].whole = turn[worker[h].u].whole
    BY <1>4, Busy DEF Marked, Whole0
  <2> QED BY <1>1, <2>2, <2>3, <2>4, <2>5, <1>7 DEF Progress
<1>29. Replies'
  BY <1>1, <1>2, <1>3, <1>4, <1>7 DEF Replies, Replying, Before, Early, Speaking, Marked, Others,
     Heard0, Whole0, Capt0, Names, NConst, NLive, NWorker, NStop, NOut, NCtx, NTurn
<1>30. Locks'
  <2>1. conv.fences # 0
    BY <1>1, <1>3, NoFences DEF IInv
  <2> QED BY <1>1, <1>5, <2>1, <1>7 DEF Locks
<1>31. Captures'
  BY <1>1, <1>2, <1>3, <1>4, <1>6, <1>7 DEF Captures, CapturedOnce, Marked, Others, Heard0,
     Whole0, Capt0, Handles, Names, NFeed, NStop, NTurn, NRest
<1>32. Cursor'
  BY <1>1, <1>2, <1>3, <1>4, <1>7 DEF Cursor, Marked, Others, Heard0, Whole0, Capt0, Names,
     NConst, NWorker, NOut, NTurn
<1>33. Settled'
  BY <1>1, <1>3, <1>4, <1>6, <1>7 DEF Settled, Done, Pend, Open, Marked, Others, Heard0, Whole0,
     Capt0, Handles
<1>34. Aborts'
  BY <1>1, <1>7 DEF Aborts
<1>35. Opening'
  BY <1>1, <1>3, <1>6, <1>7 DEF Opening, Handles
<1>36. Modes'
  BY <1>1, <1>7 DEF Modes
<1>37. Finite'
  BY <1>1, <1>7 DEF Finite
<1>38. BoundaryIsHeard'
  <2>1. feed.at <= turn[feed.turn].heard
    BY <1>1, <1>3 DEF Captures
  <2> QED BY <1>1, <1>3, <1>4, <2>1 DEF BoundaryIsHeard, Marked, Others, Heard0
<1>39. NoRecognizerLeaks'
  BY <1>1, <1>7 DEF NoRecognizerLeaks, InHand, Members, At
<1>40. FencesHeld'
  <2>1. Holders' = Holders /\ Takers' = Takers /\ feed'.pc = "idle"
    BY <1>6, <1>7 DEF Holders, Takers, Handles
  <2>2. conv.fences = Cardinality(Holders) + Cardinality(marks)
                      + (IF feed.pc = "marking" THEN 1 ELSE 0) + Cardinality(Takers)
    BY <1>1, CountFences
  <2>3. conv'.fences = Cardinality(Holders') + Cardinality(marks')
                       + (IF feed'.pc = "marking" THEN 1 ELSE 0) + Cardinality(Takers')
    BY <1>3, <1>5, <2>1, <2>2, <1>7, FiniteHolders
  <2> QED BY <2>3 DEF FencesHeld, Holders, Takers
<1> QED BY <1>20, <1>21, <1>22, <1>23, <1>24, <1>25, <1>26, <1>27, <1>28, <1>29, <1>30, <1>31,
   <1>32, <1>33, <1>34, <1>35, <1>36, <1>37, <1>38, <1>39, <1>40 DEF IInv

\* A turn is committed to the queue of the worker.
LEMMA QueueTurnKeeps ==
  ASSUME IInv, commitTurn, live.turnRecog # 0, Room(feed.lp)
  PROVE  IInv'
<1>1. /\ TypeOK /\ Generations /\ Setups /\ Unready /\ Workers /\ Places /\ Opened /\ Freshness
      /\ Progress /\ Replies /\ Locks /\ Captures /\ Cursor /\ Settled /\ Aborts /\ Opening
      /\ Modes /\ Finite /\ BoundaryIsHeard /\ NoRecognizerLeaks /\ FencesHeld
  BY DEF IInv
<1>2. Names
  BY <1>1, TypedNames
<1>3. /\ feed.pc = "idle" /\ feed.evs # <<>> /\ live.lp = feed.lp /\ live.lp \in Gens
      /\ live.turnRecog \in Utterances
  BY <1>1, <1>2 DEF commitTurn, Owns, Handling, Generations, Names, NLive
<1>4. feed' \in FeedType /\ Handles
  BY <1>1, <1>3, Handling1 DEF commitTurn
<1>5. 0 \in Turns
  BY VoiceAssumption DEF Turns
<1>6. live' \in LiveType /\ SameMode /\ Talk(0, live.workerRecog, live.reply, live.replyTurn)
  BY <1>1, <1>5 DEF commitTurn, TypeOK, LiveType, Mode, SameMode, Talk, SameTalk
<1>7. lp' = [lp EXCEPT ![live.lp].queue = Append(@, live.turnRecog)] /\ recog' = recog
  BY <1>3 DEF commitTurn
<1>8. /\ Append(Q(live.lp), live.turnRecog) \in Seq(Utterances)
      /\ Len(Append(Q(live.lp), live.turnRecog)) = Len(Q(live.lp)) + 1
      /\ Append(Q(live.lp), live.turnRecog)[Len(Q(live.lp)) + 1] = live.turnRecog
      /\ \A i \in 1..Len(Q(live.lp)) : Append(Q(live.lp), live.turnRecog)[i] = Q(live.lp)[i]
      /\ Len(Q(live.lp)) + 1 <= QueueCap
  <2> DEFINE q == Q(live.lp)
  <2>1. q \in Seq(Utterances)
    BY <1>2, <1>3 DEF Names, NQueue
  <2>2. Len(q) < QueueCap /\ Len(q) \in Nat
    BY <1>3, <2>1 DEF Room, Q
  <2> HIDE DEF q
  <2>3. /\ Append(q, live.turnRecog) \in Seq(Utterances)
        /\ Len(Append(q, live.turnRecog)) = Len(q) + 1
        /\ Append(q, live.turnRecog)[Len(q) + 1] = live.turnRecog
        /\ \A i \in 1..Len(q) : Append(q, live.turnRecog)[i] = q[i]
    BY <1>3, <2>1
  <2>4. Len(q) + 1 <= QueueCap
    BY <2>2, VoiceAssumption
  <2> QED BY <2>3, <2>4 DEF q
<1>9. lp' \in [Gens -> PipeType] /\ Queued(live.lp, Append(Q(live.lp), live.turnRecog))
  <2> DEFINE q == Append(Q(live.lp), live.turnRecog)
  <2>1. lp \in [Gens -> PipeType] /\ q \in Seq(Utterances) /\ live.lp \in Gens
    BY <1>1, <1>3, <1>8 DEF TypeOK
  <2>2. lp' = [lp EXCEPT ![live.lp] = [lp[live.lp] EXCEPT !.queue = q]]
    BY <1>7 DEF Q
  <2> HIDE DEF q
  <2>3. /\ [lp[live.lp] EXCEPT !.queue = q] \in PipeType /\ [lp[live.lp] EXCEPT !.queue = q].queue = q
        /\ [lp[live.lp] EXCEPT !.queue = q].done = lp[live.lp].done
    BY <2>1 DEF PipeType
  <2>4. lp' \in [Gens -> PipeType] /\ Queued(live.lp, q)
    BY <2>1, <2>2, <2>3 DEF Queued
  <2> QED BY <2>4 DEF q
<1>10. /\ setup' = setup /\ stop' = stop /\ worker' = worker /\ recog' = recog /\ ctx' = ctx
       /\ out' = out /\ conv' = conv /\ post' = post /\ marks' = marks /\ turn' = turn
       /\ budget' = budget
  BY DEF commitTurn
<1>20. TypeOK'
  <2>1. Len(Q(live.lp)) + 1 <= QueueCap /\ Len(Append(Q(live.lp), live.turnRecog)) = Len(Q(live.lp)) + 1
    BY <1>8
  <2>2. \A h \in Gens : Len(lp'[h].queue) <= QueueCap
    BY <1>1, <1>9, <2>1 DEF TypeOK, Queued
  <2> QED BY <1>1, <1>4, <1>6, <1>7, <1>9, <2>2, <1>10 DEF TypeOK
<1>21. Generations'
  BY <1>1, <1>3, <1>4, <1>5, <1>6, <1>7, <1>8, <1>9, <1>10 DEF Generations, Handles, SameMode,
     Mode, Talk, Queued
<1>22. Setups'
  BY <1>1, <1>3, <1>5, <1>6, <1>8, <1>10 DEF Setups, SameMode, Mode, Talk
<1>23. Unready'
  BY <1>1, <1>3, <1>4, <1>5, <1>6, <1>7, <1>8, <1>9, <1>10 DEF Unready, Handles, SameMode, Mode,
     Talk, Queued
<1>24. Workers'
  BY <1>1, <1>10 DEF Workers, WorkerOK, Fencing, Speaking
<1>25. Places'
  <2> DEFINE A == Append(Q(live.lp), live.turnRecog)
             u == live.turnRecog
             N == Len(Q(live.lp))
  <2>1. /\ N \in Nat /\ Len(A) = N + 1 /\ A[N + 1] = u /\ \A i \in 1..N : A[i] = Q(live.lp)[i]
    BY <1>2, <1>3, <1>8 DEF Names, NQueue
  <2>2. \A h \in Gens : Q(h)' = IF h = live.lp THEN A ELSE Q(h)
    BY <1>9 DEF Queued, Q
  <2>3. \A h \in Gens : \A i \in 1..Len(Q(h)') :
          \/ i \in 1..Len(Q(h)) /\ Q(h)'[i] = Q(h)[i]
          \/ h = live.lp /\ i = N + 1 /\ Q(h)'[i] = u
    <3> HIDE DEF A
    <3> QED BY <2>1, <2>2

  <2>4. u # 0 /\ live'.turnRecog = 0
    BY <1>2, <1>3, <1>6 DEF Talk, Names, NConst
  <2>5. \A h \in Gens : worker[h].u # u /\ \A i \in 1..Len(Q(h)) : Q(h)[i] # u
    BY <1>1, <2>4 DEF Places
  <2>6. \A g, h \in Gens : \A i \in 1..Len(Q(g)'), j \in 1..Len(Q(h)') :
          Q(g)'[i] = Q(h)'[j] => g = h /\ i = j
    <3> HIDE DEF A, u, N
    <3>1. SUFFICES ASSUME NEW g \in Gens, NEW h \in Gens, NEW i \in 1..Len(Q(g)'),
                          NEW j \in 1..Len(Q(h)'), Q(g)'[i] = Q(h)'[j]
                   PROVE  g = h /\ i = j
      OBVIOUS
    <3>2. \/ i \in 1..Len(Q(g)) /\ Q(g)'[i] = Q(g)[i]
          \/ g = live.lp /\ i = N + 1 /\ Q(g)'[i] = u
      BY <2>3, <3>1
    <3>3. \/ j \in 1..Len(Q(h)) /\ Q(h)'[j] = Q(h)[j]
          \/ h = live.lp /\ j = N + 1 /\ Q(h)'[j] = u
      BY <2>3, <3>1
    <3>4. CASE i \in 1..Len(Q(g)) /\ Q(g)'[i] = Q(g)[i] /\ j \in 1..Len(Q(h)) /\ Q(h)'[j] = Q(h)[j]
      <4>1. \A a \in 1..Len(Q(g)), b \in 1..Len(Q(h)) : Q(g)[a] = Q(h)[b] => g = h /\ a = b
        BY <1>1 DEF Places
      <4>2. Q(g)[i] = Q(h)[j]
        BY <3>1, <3>4
      <4> QED BY <3>4, <4>1, <4>2
    <3> QED BY <2>5, <3>1, <3>2, <3>3, <3>4
  <2>7. \A g, h \in Gens : \A i \in 1..Len(Q(g)') : Q(g)'[i] # worker[h].u
    <3> HIDE DEF A, u, N
    <3> QED BY <1>1, <2>3, <2>5 DEF Places
  <2> QED BY <1>1, <2>4, <2>6, <2>7, <1>10 DEF Places
<1>26. Opened'
  BY <1>1, <1>3, <1>5, <1>6, <1>7, <1>8, <1>9, <1>10 DEF Opened, Q, SameMode, Mode, Talk, Queued
<1>27. Freshness'
  BY <1>1, <1>2, <1>3, <1>5, <1>6, <1>7, <1>8, <1>9, <1>10 DEF Freshness, Fresh, InQ, Untouched,
     Unheard, Q, Early, SameMode, Mode, Talk, Queued, Names, NConst, NLive, NWorker, NQueue,
     NStop, NOut, NCtx, NTurn
<1>28. Progress'
  BY <1>1, <1>10 DEF Progress, Unheard, Unspoken, Before, Early
<1>29. Replies'
  BY <1>1, <1>3, <1>5, <1>6, <1>8, <1>10 DEF Replies, Replying, Before, Early, Speaking,
     SameMode, Mode, Talk
<1>30. Locks'
  BY <1>1, <1>10 DEF Locks, Locking, Writing
<1>31. Captures'
  BY <1>1, <1>3, <1>4, <1>5, <1>8, <1>10 DEF Captures, CapturedOnce, Handles
<1>32. Cursor'
  BY <1>1, <1>10 DEF Cursor
<1>33. Settled'
  BY <1>1, <1>3, <1>4, <1>5, <1>6, <1>8, <1>10 DEF Settled, Done, Pend, Open, Handles, SameMode,
     Mode, Talk
<1>34. Aborts'
  BY <1>1, <1>3, <1>5, <1>6, <1>7, <1>8, <1>10 DEF Aborts, SameMode, Mode, Talk
<1>35. Opening'
  BY <1>1, <1>3, <1>4, <1>5, <1>6, <1>8, <1>10 DEF Opening, Handles, SameMode, Mode, Talk
<1>36. Modes'
  BY <1>1, <1>3, <1>5, <1>6, <1>8, <1>10 DEF Modes, SameMode, Mode, Talk
<1>37. Finite'
  BY <1>1, <1>10 DEF Finite
<1>38. BoundaryIsHeard'
  BY <1>1, <1>10 DEF BoundaryIsHeard
<1>39. NoRecognizerLeaks'
  <2> DEFINE A == Append(Q(live.lp), live.turnRecog)
             u == live.turnRecog
             N == Len(Q(live.lp))
  <2>1. /\ N \in Nat /\ Len(A) = N + 1 /\ A[N + 1] = u /\ \A i \in 1..N : A[i] = Q(live.lp)[i]
    BY <1>2, <1>3, <1>8 DEF Names, NQueue
  <2>2. \A h \in Gens : Q(h)' = IF h = live.lp THEN A ELSE Q(h)
    BY <1>9 DEF Queued, Q
  <2>3. \A h \in Gens : \A i \in 1..Len(Q(h)') :
          \/ i \in 1..Len(Q(h)) /\ Q(h)'[i] = Q(h)[i]
          \/ h = live.lp /\ i = N + 1 /\ Q(h)'[i] = u
    <3> HIDE DEF A
    <3> QED BY <2>1, <2>2

  <2>4. SUFFICES ASSUME NEW v \in Utterances, recog[v] = "open" PROVE InHand(v)'
    BY <1>7 DEF NoRecognizerLeaks
  <2>5. InHand(v)
    BY <1>1, <2>4 DEF NoRecognizerLeaks
  <2>6. \A h \in Gens, w \in Utterances : w \in Members(Q(h)) => w \in Members(Q(h)')
    <3>1. \A h \in Gens : DOMAIN Q(h) = 1..Len(Q(h)) /\ DOMAIN A = 1..Len(A)
      BY <1>2, <1>8 DEF Names, NQueue
    <3> HIDE DEF A, u
    <3> QED BY <2>1, <2>2, <3>1 DEF Members
  <2> DEFINE l == live.lp
  <2>7. \A h \in Gens : h = l => u \in Members(Q(h)')
    <3>1. DOMAIN A = 1..Len(A)
      BY <1>8
    <3>2. N + 1 \in DOMAIN A
      <4>1. N \in Nat /\ Len(A) = N + 1
        BY <2>1
      <4> HIDE DEF A, N
      <4> QED BY <3>1, <4>1
    <3> HIDE DEF A, u
    <3> QED BY <1>3, <2>1, <2>2, <3>2 DEF Members
  <2>8. worker[live.lp].pc # "exit"
    BY <1>1, <1>2, <1>3 DEF Generations, Names, NLive, NConst
  <2>9. CASE v = u
    <3>1. PICK h \in Gens : h = live.lp
      BY <1>3
    <3>2. v \in Members(Q(h)') /\ worker'[h].pc # "exit"
      BY <2>7, <2>8, <2>9, <3>1, <1>10
    <3> QED BY <3>2 DEF InHand, At, Q
  <2>10. CASE v # u
    BY <2>4, <2>5, <2>6, <2>10, <1>10 DEF InHand, At, Q
  <2> QED BY <2>9, <2>10
<1>40. FencesHeld'
  <2>1. Holders' = Holders
    BY <1>10 DEF Holders
  <2>2. Takers' = Takers
    BY <1>10 DEF Takers
  <2> QED BY <1>1, <2>1, <2>2, <1>3, <1>4, <1>5, <1>8, <1>10, FencesKept DEF Handles
<1> QED BY <1>20, <1>21, <1>22, <1>23, <1>24, <1>25, <1>26, <1>27, <1>28, <1>29, <1>30, <1>31,
   <1>32, <1>33, <1>34, <1>35, <1>36, <1>37, <1>38, <1>39, <1>40 DEF IInv

\* A turn is given up, or finds the queue full.
LEMMA DropTurnKeeps ==
  ASSUME IInv, Drops
  PROVE  IInv'
<1>1. /\ TypeOK /\ Generations /\ Setups /\ Unready /\ Workers /\ Places /\ Opened /\ Freshness
      /\ Progress /\ Replies /\ Locks /\ Captures /\ Cursor /\ Settled /\ Aborts /\ Opening
      /\ Modes /\ Finite /\ BoundaryIsHeard /\ NoRecognizerLeaks /\ FencesHeld
  BY DEF IInv
<1>2. Names
  BY <1>1, TypedNames
<1>3. /\ feed.pc = "idle" /\ feed.evs # <<>> /\ live.lp = feed.lp /\ live.lp # 0
  BY <1>1 DEF Drops, Generations
<1>4. feed' \in FeedType /\ Handles
  BY <1>1, <1>3, Handling1 DEF Drops
<1>5. 0 \in Turns
  BY VoiceAssumption DEF Turns
<1>6. live' \in LiveType /\ SameMode /\ Talk(0, live.workerRecog, live.reply, live.replyTurn)
  BY <1>1, <1>5 DEF Drops, TypeOK, LiveType, Mode, SameMode, Talk, SameTalk
<1>7. recog' \in [Utterances -> {"none", "open", "closed"}] /\ Shut(Some(live.turnRecog))
  BY <1>1, Closing DEF Drops
<1>8. /\ setup' = setup /\ stop' = stop /\ lp' = lp /\ worker' = worker /\ ctx' = ctx
      /\ out' = out /\ conv' = conv /\ post' = post /\ marks' = marks /\ turn' = turn
      /\ budget' = budget
  BY DEF Drops
<1>20. TypeOK'
  BY <1>1, <1>3, <1>4, <1>5, <1>6, <1>7, <1>8 DEF TypeOK
<1>21. Generations'
  BY <1>1, <1>3, <1>4, <1>5, <1>6, <1>8 DEF Generations, Handles, SameMode, Mode, Talk
<1>22. Setups'
  BY <1>1, <1>3, <1>5, <1>6, <1>8 DEF Setups, SameMode, Mode, Talk
<1>23. Unready'
  BY <1>1, <1>3, <1>4, <1>5, <1>6, <1>8 DEF Unready, Handles, SameMode, Mode, Talk
<1>24. Workers'
  BY <1>1, <1>8 DEF Workers, WorkerOK, Fencing, Speaking
<1>25. Places'
  BY <1>1, <1>3, <1>5, <1>6, <1>8 DEF Places, Q, SameMode, Mode, Talk
<1>26. Opened'
  BY <1>1, <1>2, <1>3, <1>5, <1>6, <1>7, <1>8 DEF Opened, Q, SameMode, Mode, Talk, Shut, Names,
     NConst, NLive, NWorker, NQueue
<1>27. Freshness'
  BY <1>1, <1>2, <1>3, <1>4, <1>5, <1>6, <1>7, <1>8 DEF Freshness, Fresh, InQ, Untouched,
     Unheard, Q, Early, Handles, SameMode, Mode, Talk, Shut, Names, NConst
<1>28. Progress'
  BY <1>1, <1>8 DEF Progress, Unheard, Unspoken, Before, Early
<1>29. Replies'
  BY <1>1, <1>3, <1>5, <1>6, <1>8 DEF Replies, Replying, Before, Early, Speaking, SameMode, Mode,
     Talk
<1>30. Locks'
  BY <1>1, <1>8 DEF Locks, Locking, Writing
<1>31. Captures'
  BY <1>1, <1>3, <1>4, <1>5, <1>8 DEF Captures, CapturedOnce, Handles
<1>32. Cursor'
  BY <1>1, <1>8 DEF Cursor
<1>33. Settled'
  BY <1>1, <1>3, <1>4, <1>5, <1>6, <1>8 DEF Settled, Done, Pend, Open, Handles, SameMode, Mode,
     Talk
<1>34. Aborts'
  BY <1>1, Busy, <1>3, <1>5, <1>6, <1>7, <1>8 DEF Aborts, SameMode, Mode, Talk, Shut, Some
<1>35. Opening'
  BY <1>1, <1>3, <1>4, <1>5, <1>6, <1>8 DEF Opening, Handles, SameMode, Mode, Talk
<1>36. Modes'
  BY <1>1, <1>3, <1>5, <1>6, <1>8 DEF Modes, SameMode, Mode, Talk
<1>37. Finite'
  BY <1>1, <1>8 DEF Finite
<1>38. BoundaryIsHeard'
  BY <1>1, <1>8 DEF BoundaryIsHeard
<1>39. NoRecognizerLeaks'
  BY <1>1, Busy, <1>3, <1>5, <1>6, <1>7, <1>8 DEF NoRecognizerLeaks, InHand, Members, At,
     SameMode, Mode, Talk, Shut, Some
<1>40. FencesHeld'
  <2>1. Holders' = Holders
    BY <1>8 DEF Holders
  <2>2. Takers' = Takers
    BY <1>8 DEF Takers
  <2> QED BY <1>1, <2>1, <2>2, <1>3, <1>4, <1>5, <1>8, FencesKept DEF Handles
<1> QED BY <1>20, <1>21, <1>22, <1>23, <1>24, <1>25, <1>26, <1>27, <1>28, <1>29, <1>30, <1>31,
   <1>32, <1>33, <1>34, <1>35, <1>36, <1>37, <1>38, <1>39, <1>40 DEF IInv

-----------------------------------------------------------------------------
(* The reply workers.                                                        *)

\* The worker takes an utterance that is its own.
LEMMA DequeueKeeps ==
  ASSUME IInv, NEW g \in Gens, dequeue(g), Owns(g)
  PROVE  IInv'
<1>1. /\ TypeOK /\ Generations /\ Setups /\ Unready /\ Workers /\ Places /\ Opened /\ Freshness
      /\ Progress /\ Replies /\ Locks /\ Captures /\ Cursor /\ Settled /\ Aborts /\ Opening
      /\ Modes /\ Finite /\ BoundaryIsHeard /\ NoRecognizerLeaks /\ FencesHeld
  BY DEF IInv
<1>2. Names
  BY <1>1, TypedNames
<1>3. /\ worker[g].pc = "idle" /\ worker[g].u = 0 /\ Q(g) # <<>> /\ live.lp = g
      /\ worker[g].fence = FALSE
  BY <1>1, <1>2 DEF dequeue, At, Owns, Q, Workers, WorkerOK, Fencing, Speaking, Names, NWorker
<1>4. /\ lp' = [lp EXCEPT ![g].queue = Tail(@)] /\ recog' = recog /\ Head(Q(g)) = Q(g)[1]
      /\ 1 \in 1..Len(Q(g)) /\ Q(g)[1] \in Utterances
  BY <1>2, <1>3 DEF dequeue, Names, NQueue, Q
<1>5. /\ Tail(Q(g)) \in Seq(Utterances) /\ Len(Tail(Q(g))) = Len(Q(g)) - 1
      /\ \A i \in 1..Len(Tail(Q(g))) : i + 1 \in 1..Len(Q(g)) /\ Tail(Q(g))[i] = Q(g)[i + 1]
  BY <1>2, <1>3, <1>4 DEF Names, NQueue
<1>6. lp' \in [Gens -> PipeType] /\ Queued(g, Tail(Q(g)))
  <2> DEFINE q == Tail(Q(g))
  <2>1. lp \in [Gens -> PipeType] /\ q \in Seq(Utterances)
    BY <1>1, <1>5 DEF TypeOK
  <2>2. lp' = [lp EXCEPT ![g] = [lp[g] EXCEPT !.queue = q]]
    BY <1>4 DEF Q
  <2> HIDE DEF q
  <2>3. /\ [lp[g] EXCEPT !.queue = q] \in PipeType /\ [lp[g] EXCEPT !.queue = q].queue = q
        /\ [lp[g] EXCEPT !.queue = q].done = lp[g].done
    BY <2>1 DEF PipeType
  <2>4. lp' \in [Gens -> PipeType] /\ Queued(g, q)
    BY <2>1, <2>2, <2>3 DEF Queued
  <2> QED BY <2>4 DEF q
<1>7. live' \in LiveType /\ SameMode /\ Talk(live.turnRecog, Q(g)[1], live.reply, live.replyTurn)
  BY <1>1, <1>3, <1>4, TurnsAre DEF dequeue, Q, TypeOK, LiveType, SameMode, Mode, Talk
<1>8. worker' = [worker EXCEPT ![g] = [pc |-> "finalize", u |-> Q(g)[1], fence |-> FALSE, speech |-> worker[g].speech]]
  BY <1>1, <1>3, <1>4 DEF dequeue, Q, TypeOK, JobType
<1>9. worker' \in [Gens -> JobType] /\ Job(g, "finalize", Q(g)[1], FALSE, worker[g].speech)
  <2> DEFINE r == [pc |-> "finalize", u |-> Q(g)[1], fence |-> FALSE, speech |-> worker[g].speech]
  <2>1. worker \in [Gens -> JobType] /\ worker' = [worker EXCEPT ![g] = r]
    BY <1>1, <1>8 DEF TypeOK
  <2>2. r \in JobType
    BY <1>1, <1>3, <1>4, TurnsAre DEF TypeOK, JobType, Steps
  <2>3. /\ r.pc = "finalize" /\ r.u = Q(g)[1] /\ r.fence = (FALSE)
        /\ r.speech = worker[g].speech
    OBVIOUS
  <2> HIDE DEF r
  <2> QED BY <2>1, <2>2, <2>3 DEF Job
<1>10. /\ setup' = setup /\ stop' = stop /\ feed' = feed /\ recog' = recog /\ ctx' = ctx
       /\ out' = out /\ conv' = conv /\ post' = post /\ marks' = marks /\ turn' = turn
       /\ budget' = budget
  BY DEF dequeue
<1>20. TypeOK'
  <2> DEFINE T == Tail(Q(g))
  <2>1. \A h \in Gens : Q(h)' = IF h = g THEN T ELSE Q(h)
    BY <1>6 DEF Queued, Q
  <2>2. /\ Len(T) = Len(Q(g)) - 1 /\ Len(Q(g)) \in Nat
        /\ \A i \in 1..Len(T) : i + 1 \in 1..Len(Q(g)) /\ T[i] = Q(g)[i + 1]
    BY <1>2, <1>5 DEF Names, NQueue
  <2> HIDE DEF T

  <2>3. \A h \in Gens : Len(lp'[h].queue) <= QueueCap
    BY <1>1, <2>1, <2>2, VoiceAssumption DEF TypeOK, Q
  <2> QED BY <1>1, <1>4, <1>6, <1>7, <1>9, <2>3, <1>10 DEF TypeOK
<1>21. Generations'
  BY <1>1, <1>3, <1>4, <1>5, <1>6, <1>7, <1>8, <1>9, <1>10 DEF Generations, Queued, SameMode,
     Mode, Talk, Job
<1>22. Setups'
  BY <1>1, <1>3, <1>5, <1>7, <1>8, <1>9, <1>10 DEF Setups, SameMode, Mode, Talk, Job
<1>23. Unready'
  <2> DEFINE T == Tail(Q(g))
  <2>1. \A h \in Gens : Q(h)' = IF h = g THEN T ELSE Q(h)
    BY <1>6 DEF Queued, Q
  <2>2. /\ Len(T) = Len(Q(g)) - 1 /\ Len(Q(g)) \in Nat
        /\ \A i \in 1..Len(T) : i + 1 \in 1..Len(Q(g)) /\ T[i] = Q(g)[i + 1]
    BY <1>2, <1>5 DEF Names, NQueue
  <2> HIDE DEF T

  <2>3. live.ready /\ worker[g].pc # "none"
    BY <1>1, <1>3 DEF Unready, Q
  <2>4. live'.lp = live.lp /\ live'.ready = live.ready /\ live'.starting = live.starting
    BY <1>7 DEF SameMode, Mode
  <2>5. \A h \in Gens : h # g => /\ worker'[h].pc = worker[h].pc /\ worker'[h].u = worker[h].u
                                 /\ lp'[h].queue = lp[h].queue
    BY <1>9, <2>1 DEF Job, Q
  <2>6. worker'[g].pc # "none"
    BY <1>9 DEF Job
  <2> QED BY <1>1, <1>3, <2>3, <2>4, <2>5, <2>6, <1>10 DEF Unready
<1>24. Workers'
  BY <1>1, <1>2, <1>3, <1>5, <1>8, <1>9, <1>10 DEF Workers, WorkerOK, Fencing, Speaking, Job,
     Names, NConst, NWorker
<1>25. Places'
  <2> DEFINE T == Tail(Q(g))
  <2>1. \A h \in Gens : Q(h)' = IF h = g THEN T ELSE Q(h)
    BY <1>6 DEF Queued, Q
  <2>2. /\ Len(T) = Len(Q(g)) - 1 /\ Len(Q(g)) \in Nat
        /\ \A i \in 1..Len(T) : i + 1 \in 1..Len(Q(g)) /\ T[i] = Q(g)[i + 1]
    BY <1>2, <1>5 DEF Names, NQueue
  <2> HIDE DEF T

  <2>3. \A h \in Gens : worker'[h].u = IF h = g THEN Q(g)[1] ELSE worker[h].u
    BY <1>9 DEF Job
  <2>4. live'.turnRecog = live.turnRecog
    BY <1>7 DEF Talk
  <2>5. \A h \in Gens : \A i \in 1..Len(Q(h)') :
          \E j \in 1..Len(Q(h)) : Q(h)'[i] = Q(h)[j] /\ j = (IF h = g THEN i + 1 ELSE i)
    BY <2>1, <2>2
  <2>6. \A k, h \in Gens : worker'[k].u = worker'[h].u /\ worker'[k].u # 0 => k = h
    BY <1>1, <1>4, <2>3 DEF Places
  <2>7. \A k, h \in Gens : \A i \in 1..Len(Q(k)'), j \in 1..Len(Q(h)') :
          Q(k)'[i] = Q(h)'[j] => k = h /\ i = j
    <3>1. SUFFICES ASSUME NEW k \in Gens, NEW h \in Gens, NEW i \in 1..Len(Q(k)'),
                          NEW j \in 1..Len(Q(h)'), Q(k)'[i] = Q(h)'[j]
                   PROVE  k = h /\ i = j
      OBVIOUS
    <3>2. PICK a \in 1..Len(Q(k)) : Q(k)'[i] = Q(k)[a] /\ a = (IF k = g THEN i + 1 ELSE i)
      BY <2>5
    <3>3. PICK b \in 1..Len(Q(h)) : Q(h)'[j] = Q(h)[b] /\ b = (IF h = g THEN j + 1 ELSE j)
      BY <2>5
    <3>4. k = h /\ a = b
      <4>1. \A c \in 1..Len(Q(k)), d \in 1..Len(Q(h)) : Q(k)[c] = Q(h)[d] => k = h /\ c = d
        BY <1>1 DEF Places
      <4>2. Q(k)[a] = Q(h)[b]
        BY <3>1, <3>2, <3>3
      <4> QED BY <4>1, <4>2
    <3> QED BY <3>2, <3>3, <3>4
  <2>8. \A k, h \in Gens : \A i \in 1..Len(Q(k)') : Q(k)'[i] # worker'[h].u
    <3>1. SUFFICES ASSUME NEW k \in Gens, NEW h \in Gens, NEW i \in 1..Len(Q(k)'),
                          Q(k)'[i] = worker'[h].u
                   PROVE  FALSE
      OBVIOUS
    <3>2. PICK a \in 1..Len(Q(k)) : Q(k)'[i] = Q(k)[a] /\ a = (IF k = g THEN i + 1 ELSE i)
      BY <2>5
    <3>3. CASE h = g
      <4>1. k = g /\ a = 1
        <5>1. \A c \in 1..Len(Q(k)), d \in 1..Len(Q(g)) : Q(k)[c] = Q(g)[d] => k = g /\ c = d
          BY <1>1 DEF Places
        <5>2. Q(k)[a] = Q(g)[1]
          BY <2>3, <3>1, <3>2, <3>3
        <5> QED BY <1>4, <5>1, <5>2
      <4> QED BY <3>2, <4>1
    <3>4. CASE h # g
      <4>1. Q(k)[a] = worker[h].u
        BY <2>3, <3>1, <3>2, <3>4
      <4> QED BY <1>1, <4>1 DEF Places
    <3> QED BY <3>3, <3>4
  <2>9. \A h \in Gens : live.turnRecog # 0 =>
          /\ worker'[h].u # live.turnRecog
          /\ \A i \in 1..Len(Q(h)') : Q(h)'[i] # live.turnRecog
    BY <1>1, <1>4, <2>3, <2>5 DEF Places
  <2> QED BY <2>4, <2>6, <2>7, <2>8, <2>9 DEF Places
<1>26. Opened'
  BY <1>1, <1>3, <1>4, <1>5, <1>6, <1>7, <1>8, <1>9, <1>10 DEF Opened, Q, Queued, SameMode, Mode,
     Talk, Job
<1>27. Freshness'
  BY <1>1, <1>3, <1>4, <1>5, <1>6, <1>7, <1>8, <1>9, <1>10 DEF Freshness, Fresh, InQ, Untouched,
     Unheard, Q, Early, Queued, SameMode, Mode, Talk, Job
<1>28. Progress'

  <2>1. Fresh(Q(g)[1])
    BY <1>4 DEF Fresh, InQ
  <2>2. turn[Q(g)[1]] = Unsaid /\ Unheard(Q(g)[1])
    BY <1>1, <1>4, <2>1 DEF Freshness, Untouched
  <2>3. \A h \in Gens : /\ worker'[h].pc = IF h = g THEN "finalize" ELSE worker[h].pc
                        /\ worker'[h].u = IF h = g THEN Q(g)[1] ELSE worker[h].u
    BY <1>9 DEF Job
  <2>4. SUFFICES ASSUME NEW h \in Gens
                 PROVE  /\ worker'[h].pc \in Before => turn'[worker'[h].u] = Unsaid
                        /\ worker'[h].pc \in {"commit", "zero"} => turn'[worker'[h].u].captured = 0
                        /\ worker'[h].pc \in Unspoken => Unheard(worker[h].u)'
                        /\ worker'[h].pc = "playing" => ~turn'[worker'[h].u].whole
    BY DEF Progress
  <2>5. CASE h = g
    BY <2>2, <2>3, <2>5, <1>10 DEF Unheard
  <2>6. CASE h # g
    BY <1>1, <2>3, <2>6, <1>10 DEF Progress, Unheard
  <2> QED BY <2>5, <2>6
<1>29. Replies'
  BY <1>1, <1>2, <1>3, <1>5, <1>7, <1>8, <1>9, <1>10 DEF Replies, Replying, Before, Early,
     Speaking, SameMode, Mode, Talk, Job, Names, NConst, NLive, NWorker, NStop, NOut, NCtx, NTurn
<1>30. Locks'
  BY <1>1, <1>3, <1>5, <1>8, <1>9, <1>10 DEF Locks, Locking, Writing, Job
<1>31. Captures'
  BY <1>1, <1>10 DEF Captures, CapturedOnce
<1>32. Cursor'
  BY <1>1, <1>3, <1>5, <1>8, <1>9, <1>10 DEF Cursor, Job
<1>33. Settled'
  BY <1>1, <1>3, <1>5, <1>7, <1>8, <1>9, <1>10 DEF Settled, Done, Pend, Open, SameMode, Mode,
     Talk, Job
<1>34. Aborts'
  BY <1>1, <1>3, <1>4, <1>5, <1>7, <1>8, <1>9, <1>10 DEF Aborts, SameMode, Mode, Talk, Job
<1>35. Opening'
  BY <1>1, <1>3, <1>5, <1>7, <1>10 DEF Opening, SameMode, Mode, Talk
<1>36. Modes'
  BY <1>1, <1>3, <1>5, <1>7, <1>8, <1>9, <1>10 DEF Modes, SameMode, Mode, Talk, Job
<1>37. Finite'
  BY <1>1, <1>10 DEF Finite
<1>38. BoundaryIsHeard'
  BY <1>1, <1>10 DEF BoundaryIsHeard
<1>39. NoRecognizerLeaks'
  <2> DEFINE T == Tail(Q(g))
  <2>1. \A h \in Gens : Q(h)' = IF h = g THEN T ELSE Q(h)
    BY <1>6 DEF Queued, Q
  <2>2. /\ Len(T) = Len(Q(g)) - 1 /\ Len(Q(g)) \in Nat
        /\ \A i \in 1..Len(T) : i + 1 \in 1..Len(Q(g)) /\ T[i] = Q(g)[i + 1]
    BY <1>2, <1>5 DEF Names, NQueue
  <2> HIDE DEF T

  <2>3. \A h \in Gens : /\ worker'[h].pc = IF h = g THEN "finalize" ELSE worker[h].pc
                        /\ worker'[h].u = IF h = g THEN Q(g)[1] ELSE worker[h].u
    BY <1>9 DEF Job
  <2>4. SUFFICES ASSUME NEW v \in Utterances, recog[v] = "open" PROVE InHand(v)'
    BY <1>4 DEF NoRecognizerLeaks
  <2>5. InHand(v)
    BY <1>1, <2>4 DEF NoRecognizerLeaks
  <2>6. v \in Members(Q(g)) => v = Q(g)[1] \/ v \in Members(T)
    <3>1. DOMAIN Q(g) = 1..Len(Q(g)) /\ DOMAIN T = 1..Len(T)
      BY <1>2, <1>5 DEF T, Names, NQueue
    <3>2. \A i \in 1..Len(Q(g)) : i # 1 => i - 1 \in 1..Len(T) /\ T[i - 1] = Q(g)[i]
      BY <2>2
    <3> QED BY <3>1, <3>2 DEF Members
  <2>7. live'.turnRecog = live.turnRecog
    BY <1>7 DEF Talk
  <2>8. CASE v = Q(g)[1]
    BY <2>3, <2>8 DEF InHand, At
  <2>9. CASE v # Q(g)[1]
    BY <1>3, <2>1, <2>3, <2>5, <2>6, <2>7, <2>9, <1>10 DEF InHand, At, Q
  <2> QED BY <2>8, <2>9
<1>40. FencesHeld'
  <2>1. Holders' = Holders /\ Takers' = Takers
    BY <1>3, <1>9, <1>10 DEF Holders, Takers, Job
  <2> QED BY <1>1, <2>1, <1>10, FencesKept
<1> QED BY <1>20, <1>21, <1>22, <1>23, <1>24, <1>25, <1>26, <1>27, <1>28, <1>29, <1>30, <1>31,
   <1>32, <1>33, <1>34, <1>35, <1>36, <1>37, <1>38, <1>39, <1>40 DEF IInv

\* A worker whose live mode is done closes what is queued, and ends.
LEMMA DrainKeeps ==
  ASSUME IInv, NEW g \in Gens, Drains(g)
  PROVE  IInv'
<1>1. /\ TypeOK /\ Generations /\ Setups /\ Unready /\ Workers /\ Places /\ Opened /\ Freshness
      /\ Progress /\ Replies /\ Locks /\ Captures /\ Cursor /\ Settled /\ Aborts /\ Opening
      /\ Modes /\ Finite /\ BoundaryIsHeard /\ NoRecognizerLeaks /\ FencesHeld
  BY DEF IInv
<1>2. Names
  BY <1>1, TypedNames
<1>3. /\ worker[g].pc = "idle" /\ (lp[g].done \/ live.lp # g)
      /\ <<>> \in Seq(Utterances) /\ Len(<<>>) = 0
  BY DEF Drains
<1>4. lp' \in [Gens -> PipeType] /\ Queued(g, <<>>)
  BY <1>1, <1>3 DEF Drains, TypeOK, PipeType, Queued
<1>5. /\ recog' \in [Utterances -> {"none", "open", "closed"}]
      /\ Shut({Q(g)[i] : i \in 1..Len(Q(g))})
  <2>1. Drained(g) = Close({Q(g)[i] : i \in 1..Len(Q(g))})
    <3>1. DOMAIN Q(g) = 1..Len(Q(g))
      BY <1>2 DEF Names, NQueue
    <3> QED BY <3>1 DEF Drained, Members, Q
  <2> QED BY <1>1, <2>1, Closing DEF Drains
<1>6. worker' \in [Gens -> JobType] /\ Moves(g, "exit")
  BY <1>1, Went DEF Drains, Steps
<1>7. g < live.gen /\ live.lp # g
  BY <1>1, <1>2, <1>3 DEF Generations, Names, NConst, NLive
<1>8. /\ live' = live /\ setup' = setup /\ stop' = stop /\ feed' = feed /\ ctx' = ctx
      /\ out' = out /\ conv' = conv /\ post' = post /\ marks' = marks /\ turn' = turn
      /\ budget' = budget
  BY DEF Drains
<1>20. TypeOK'
  <2>1. \A h \in Gens : Len(lp'[h].queue) <= QueueCap
    BY <1>1, <1>3, <1>4, VoiceAssumption DEF TypeOK, Queued
  <2> QED BY <1>1, <1>4, <1>5, <1>6, <2>1, <1>8 DEF TypeOK
<1>21. Generations'
  BY <1>1, <1>3, <1>4, <1>6, <1>7, <1>8 DEF Generations, Queued, Moves
<1>22. Setups'
  BY <1>1, <1>3, <1>6, <1>7, <1>8 DEF Setups, Moves
<1>23. Unready'
  BY <1>1, <1>3, <1>4, <1>6, <1>7, <1>8 DEF Unready, Queued, Moves
<1>24. Workers'
  BY <1>1, <1>3, <1>6, <1>7, <1>8 DEF Workers, WorkerOK, Fencing, Speaking, Moves
<1>25. Places'
  <2>1. \A h \in Gens : Q(h)' = IF h = g THEN <<>> ELSE Q(h)
    BY <1>4 DEF Queued, Q
  <2>2. \A i : i \notin 1..Len(<<>>)
    BY <1>3

  <2>3. \A h \in Gens : worker'[h].u = worker[h].u
    BY <1>6 DEF Moves
  <2>4. \A h \in Gens : \A i \in 1..Len(Q(h)') : i \in 1..Len(Q(h)) /\ Q(h)'[i] = Q(h)[i]
    BY <2>1, <2>2
  <2> QED BY <1>1, <2>3, <2>4, <1>8 DEF Places
<1>26. Opened'
  <2>1. \A h \in Gens : Q(h)' = IF h = g THEN <<>> ELSE Q(h)
    BY <1>4 DEF Queued, Q
  <2>2. \A i : i \notin 1..Len(<<>>)
    BY <1>3

  <2>3. \A h \in Gens : worker'[h].u = worker[h].u
    BY <1>6 DEF Moves
  <2>4. \A h \in Gens : \A i \in 1..Len(Q(h)') : i \in 1..Len(Q(h)) /\ Q(h)'[i] = Q(h)[i]
    BY <2>1, <2>2
  <2>5. \A v \in Utterances : recog[v] # "none" => recog'[v] # "none"
    BY <1>5 DEF Shut
  <2> QED BY <1>1, <1>2, <2>3, <2>4, <2>5, <1>8 DEF Opened, Names, NLive, NWorker, NQueue
<1>27. Freshness'
  BY <1>1, <1>3, <1>4, <1>5, <1>6, <1>7, <1>8 DEF Freshness, Fresh, InQ, Untouched, Unheard, Q,
     Early, Queued, Shut, Moves
<1>28. Progress'
  BY <1>1, <1>3, <1>6, <1>7, <1>8 DEF Progress, Unheard, Unspoken, Before, Early, Moves
<1>29. Replies'
  BY <1>1, <1>2, <1>3, <1>6, <1>7, <1>8 DEF Replies, Replying, Before, Early, Speaking, Moves,
     Names, NConst, NLive, NWorker, NStop, NOut, NCtx, NTurn
<1>30. Locks'
  BY <1>1, <1>3, <1>6, <1>7, <1>8 DEF Locks, Locking, Writing, Moves
<1>31. Captures'
  BY <1>1, <1>8 DEF Captures, CapturedOnce
<1>32. Cursor'
  BY <1>1, <1>3, <1>6, <1>7, <1>8 DEF Cursor, Moves
<1>33. Settled'
  BY <1>1, <1>3, <1>6, <1>7, <1>8 DEF Settled, Done, Pend, Open, Moves
<1>34. Aborts'
  BY <1>1, Busy, <1>3, <1>5, <1>6, <1>7, <1>8 DEF Aborts, Shut, Moves, Some
<1>35. Opening'
  BY <1>1, <1>8 DEF Opening
<1>36. Modes'
  <2>1. \A h \in Gens : h # g => worker'[h].pc = worker[h].pc
    BY <1>6 DEF Moves
  <2>2. worker'[g].pc # "none"
    BY <1>6 DEF Moves
  <2> QED BY <1>1, <1>2, <2>1, <2>2, <1>8 DEF Modes, Names, NLive
<1>37. Finite'
  BY <1>1, <1>8 DEF Finite
<1>38. BoundaryIsHeard'
  BY <1>1, <1>8 DEF BoundaryIsHeard
<1>39. NoRecognizerLeaks'
  <2>1. \A h \in Gens : Q(h)' = IF h = g THEN <<>> ELSE Q(h)
    BY <1>4 DEF Queued, Q
  <2>2. \A i : i \notin 1..Len(<<>>)
    BY <1>3

  <2>3. \A h \in Gens : /\ worker'[h].pc = IF h = g THEN "exit" ELSE worker[h].pc
                        /\ worker'[h].u = worker[h].u
    BY <1>6 DEF Moves
  <2>4. SUFFICES ASSUME NEW v \in Utterances, recog'[v] = "open" PROVE InHand(v)'
    BY DEF NoRecognizerLeaks
  <2>5. v \notin Members(Q(g)) /\ recog[v] = "open"
    <3>1. DOMAIN Q(g) = 1..Len(Q(g))
      BY <1>2 DEF Names, NQueue
    <3> QED BY <1>5, <2>4, <3>1 DEF Shut, Members
  <2>6. InHand(v)
    BY <1>1, <2>5 DEF NoRecognizerLeaks
  <2> QED BY <1>3, <2>1, <2>3, <2>5, <2>6, <1>8 DEF InHand, At, Q
<1>40. FencesHeld'
  <2>1. Holders' = Holders
    BY <1>6, <1>8 DEF Holders, Moves
  <2>2. Takers' = Takers
    BY <1>8 DEF Takers
  <2> QED BY <1>1, <2>1, <2>2, <1>3, <1>7, <1>8, FencesKept
<1> QED BY <1>20, <1>21, <1>22, <1>23, <1>24, <1>25, <1>26, <1>27, <1>28, <1>29, <1>30, <1>31,
   <1>32, <1>33, <1>34, <1>35, <1>36, <1>37, <1>38, <1>39, <1>40 DEF IInv

\* The recognizer in the hand of the worker gives its text, or none.
LEMMA FinalizeKeeps ==
  ASSUME IInv, NEW g \in Gens, finalize(g)
  PROVE  IInv'
<1>1. /\ TypeOK /\ Generations /\ Setups /\ Unready /\ Workers /\ Places /\ Opened /\ Freshness
      /\ Progress /\ Replies /\ Locks /\ Captures /\ Cursor /\ Settled /\ Aborts /\ Opening
      /\ Modes /\ Finite /\ BoundaryIsHeard /\ NoRecognizerLeaks /\ FencesHeld
  BY DEF IInv
<1>2. Names
  BY <1>1, TypedNames
<1>3. worker[g].pc = "finalize" /\ worker[g].u \in Utterances
  BY <1>1, <1>2 DEF finalize, At, Workers, WorkerOK, Fencing, Speaking, Names, NWorker
<1>4. recog' \in [Utterances -> {"none", "open", "closed"}] /\ Shut({worker[g].u})
  BY <1>1, Closing DEF finalize
<1>5. PICK x \in {"begin", "clear"} : worker' = Goto(g, x)
  BY DEF finalize
<1>6. worker' \in [Gens -> JobType] /\ Moves(g, x)
  BY <1>1, <1>5, Went DEF Steps
<1>7. /\ live' = live /\ setup' = setup /\ stop' = stop /\ lp' = lp /\ feed' = feed /\ ctx' = ctx
      /\ out' = out /\ conv' = conv /\ post' = post /\ marks' = marks /\ turn' = turn
      /\ budget' = budget
  BY DEF finalize
<1>20. TypeOK'
  BY <1>1, <1>3, <1>4, <1>5, <1>6, <1>7 DEF TypeOK
<1>21. Generations'
  BY <1>1, <1>3, <1>5, <1>6, <1>7 DEF Generations, Moves
<1>22. Setups'
  BY <1>1, <1>3, <1>5, <1>6, <1>7 DEF Setups, Moves
<1>23. Unready'
  BY <1>1, <1>3, <1>5, <1>6, <1>7 DEF Unready, Moves
<1>24. Workers'
  BY <1>1, <1>3, <1>5, <1>6, <1>7 DEF Workers, WorkerOK, Fencing, Speaking, Moves
<1>25. Places'
  BY <1>1, <1>3, <1>5, <1>6, <1>7 DEF Places, Q, Moves
<1>26. Opened'
  <2>1. \A h \in Gens : worker'[h].u = worker[h].u
    BY <1>6 DEF Moves
  <2>2. \A v \in Utterances : recog[v] # "none" => recog'[v] # "none"
    BY <1>4 DEF Shut
  <2> QED BY <1>1, <1>2, <2>1, <2>2, <1>7 DEF Opened, Q, Names, NLive, NWorker, NQueue
<1>27. Freshness'
  BY <1>1, <1>3, <1>4, <1>5, <1>6, <1>7 DEF Freshness, Fresh, InQ, Untouched, Unheard, Q, Early,
     Shut, Moves
<1>28. Progress'
  BY <1>1, <1>3, <1>5, <1>6, <1>7 DEF Progress, Unheard, Unspoken, Before, Early, Moves
<1>29. Replies'
  BY <1>1, <1>2, <1>3, <1>5, <1>6, <1>7 DEF Replies, Replying, Before, Early, Speaking, Moves,
     Names, NConst, NLive, NWorker, NStop, NOut, NCtx, NTurn
<1>30. Locks'
  BY <1>1, <1>3, <1>5, <1>6, <1>7 DEF Locks, Locking, Writing, Moves
<1>31. Captures'
  BY <1>1, <1>7 DEF Captures, CapturedOnce
<1>32. Cursor'
  BY <1>1, <1>3, <1>5, <1>6, <1>7 DEF Cursor, Moves
<1>33. Settled'
  BY <1>1, <1>3, <1>5, <1>6, <1>7 DEF Settled, Done, Pend, Open, Moves
<1>34. Aborts'
  BY <1>1, Busy, <1>3, <1>4, <1>5, <1>6, <1>7 DEF Aborts, Shut, Moves, Some
<1>35. Opening'
  BY <1>1, <1>7 DEF Opening
<1>36. Modes'
  BY <1>1, <1>2, <1>3, <1>5, <1>6, <1>7 DEF Modes, Moves, Names, NConst, NLive, NWorker, NStop
<1>37. Finite'
  BY <1>1, <1>7 DEF Finite
<1>38. BoundaryIsHeard'
  BY <1>1, <1>7 DEF BoundaryIsHeard
<1>39. NoRecognizerLeaks'
  BY <1>1, <1>3, <1>4, <1>5, <1>6, <1>7 DEF NoRecognizerLeaks, InHand, Members, At, Shut, Moves
<1>40. FencesHeld'
  <2>1. Holders' = Holders
    BY <1>5, <1>6, <1>7 DEF Holders, Moves
  <2>2. Takers' = Takers
    BY <1>7 DEF Takers
  <2> QED BY <1>1, <2>1, <2>2, <1>3, <1>7, FencesKept
<1> QED BY <1>20, <1>21, <1>22, <1>23, <1>24, <1>25, <1>26, <1>27, <1>28, <1>29, <1>30, <1>31,
   <1>32, <1>33, <1>34, <1>35, <1>36, <1>37, <1>38, <1>39, <1>40 DEF IInv

\* The worker owns a reply.
LEMMA BeginReplyKeeps ==
  ASSUME IInv, NEW g \in Gens, beginReplyOwned(g), Owns(g)
  PROVE  IInv'
<1>1. /\ TypeOK /\ Generations /\ Setups /\ Unready /\ Workers /\ Places /\ Opened /\ Freshness
      /\ Progress /\ Replies /\ Locks /\ Captures /\ Cursor /\ Settled /\ Aborts /\ Opening
      /\ Modes /\ Finite /\ BoundaryIsHeard /\ NoRecognizerLeaks /\ FencesHeld
  BY DEF IInv
<1>2. Names
  BY <1>1, TypedNames
<1>3. worker[g].pc = "begin" /\ worker[g].u \in Utterances /\ live.lp = g
  BY <1>1, <1>2 DEF beginReplyOwned, At, Workers, WorkerOK, Fencing, Speaking, Names, NWorker,
     Owns
<1>4. live.reply = 0 /\ live.replyTurn = 0
  BY <1>1, <1>3 DEF Replies, Replying, Before, Early, Speaking
<1>5. live' \in LiveType /\ SameMode /\ Talk(live.turnRecog, live.workerRecog, worker[g].u, 0)
  BY <1>1, <1>3, TurnsAre DEF beginReplyOwned, TypeOK, LiveType, SameMode, Mode, Talk
<1>6. /\ ctx' \in CtxType /\ ctx'.cancelled = ctx.cancelled /\ ctx'.cut = ctx.cut
      /\ ctx'.speech = ctx.speech
  BY <1>1, <1>4 DEF beginReplyOwned, TypeOK, CtxType, Some
<1>7. worker' \in [Gens -> JobType] /\ Moves(g, "reply")
  BY <1>1, Went DEF beginReplyOwned, Steps
<1>8. /\ setup' = setup /\ stop' = stop /\ lp' = lp /\ feed' = feed /\ recog' = recog
      /\ out' = out /\ conv' = conv /\ post' = post /\ marks' = marks /\ turn' = turn
      /\ budget' = budget
  BY DEF beginReplyOwned
<1>20. TypeOK'
  BY <1>1, <1>3, <1>4, <1>5, <1>6, <1>7, <1>8 DEF TypeOK
<1>21. Generations'
  BY <1>1, <1>3, <1>4, <1>5, <1>7, <1>8 DEF Generations, SameMode, Mode, Talk, Moves
<1>22. Setups'
  BY <1>1, <1>3, <1>4, <1>5, <1>7, <1>8 DEF Setups, SameMode, Mode, Talk, Moves
<1>23. Unready'
  BY <1>1, <1>3, <1>4, <1>5, <1>7, <1>8 DEF Unready, SameMode, Mode, Talk, Moves
<1>24. Workers'
  BY <1>1, <1>3, <1>4, <1>7, <1>8 DEF Workers, WorkerOK, Fencing, Speaking, Moves
<1>25. Places'
  BY <1>1, <1>3, <1>4, <1>5, <1>7, <1>8 DEF Places, Q, SameMode, Mode, Talk, Moves
<1>26. Opened'
  BY <1>1, <1>3, <1>4, <1>5, <1>7, <1>8 DEF Opened, Q, SameMode, Mode, Talk, Moves
<1>27. Freshness'
  BY <1>1, <1>3, <1>4, <1>5, <1>6, <1>7, <1>8 DEF Freshness, Fresh, InQ, Untouched, Unheard, Q,
     Early, SameMode, Mode, Talk, Moves
<1>28. Progress'
  BY <1>1, <1>3, <1>4, <1>6, <1>7, <1>8 DEF Progress, Unheard, Unspoken, Before, Early, Moves
<1>29. Replies'
  <2>1. Fresh(worker[g].u)
    BY <1>3 DEF Fresh, Early
  <2>2. Untouched(worker[g].u)
    BY <1>1, <1>3, <2>1 DEF Freshness
  <2>3. worker[g].u \notin ctx.cancelled /\ \A t \in Stoppers : stop[t].reply # worker[g].u
    BY <1>1, <1>2, <1>3, <2>2 DEF Untouched, Generations, Names, NConst
  <2>4. /\ live'.lp = g /\ live'.workerRecog = live.workerRecog /\ live'.reply = worker[g].u
        /\ live'.replyTurn = 0
    BY <1>3, <1>5 DEF SameMode, Mode, Talk
  <2>5. /\ worker'[g].pc = "reply"
        /\ \A h \in Gens : worker'[h].u = worker[h].u
    BY <1>3, <1>7 DEF Moves
  <2>6. "reply" \in Replying
    BY DEF Replying, Before, Early
  <2>7. live.workerRecog # 0 => worker'[g].u = live.workerRecog
    BY <1>1, <1>3, <2>5 DEF Replies
  <2>8. g # 0
    BY <1>2 DEF Names, NConst
  <2>9. ctx'.cancelled = ctx.cancelled
    BY <1>6
  <2> QED BY <2>3, <2>4, <2>5, <2>6, <2>7, <2>8, <2>9, <1>8 DEF Replies
<1>30. Locks'
  BY <1>1, <1>3, <1>4, <1>7, <1>8 DEF Locks, Locking, Writing, Moves
<1>31. Captures'
  BY <1>1, <1>8 DEF Captures, CapturedOnce
<1>32. Cursor'
  BY <1>1, <1>3, <1>4, <1>7, <1>8 DEF Cursor, Moves
<1>33. Settled'
  BY <1>1, <1>3, <1>4, <1>5, <1>6, <1>7, <1>8 DEF Settled, Done, Pend, Open, SameMode, Mode,
     Talk, Moves
<1>34. Aborts'
  BY <1>1, <1>3, <1>4, <1>5, <1>7, <1>8 DEF Aborts, SameMode, Mode, Talk, Moves
<1>35. Opening'
  BY <1>1, <1>3, <1>4, <1>5, <1>8 DEF Opening, SameMode, Mode, Talk
<1>36. Modes'
  BY <1>1, <1>3, <1>4, <1>5, <1>7, <1>8 DEF Modes, SameMode, Mode, Talk, Moves
<1>37. Finite'
  BY <1>1, <1>8 DEF Finite
<1>38. BoundaryIsHeard'
  BY <1>1, <1>8 DEF BoundaryIsHeard
<1>39. NoRecognizerLeaks'
  BY <1>1, <1>3, <1>4, <1>5, <1>7, <1>8 DEF NoRecognizerLeaks, InHand, Members, At, SameMode,
     Mode, Talk, Moves
<1>40. FencesHeld'
  <2>1. Holders' = Holders
    BY <1>7, <1>8 DEF Holders, Moves
  <2>2. Takers' = Takers
    BY <1>8 DEF Takers
  <2> QED BY <1>1, <2>1, <2>2, <1>3, <1>4, <1>8, FencesKept
<1> QED BY <1>20, <1>21, <1>22, <1>23, <1>24, <1>25, <1>26, <1>27, <1>28, <1>29, <1>30, <1>31,
   <1>32, <1>33, <1>34, <1>35, <1>36, <1>37, <1>38, <1>39, <1>40 DEF IInv

\* The worker takes a way that changes nothing else.
LEMMA GoesKeeps ==
  ASSUME IInv, NEW g \in Gens, NEW x, Passes(g, x)
  PROVE  IInv'
<1>1. /\ TypeOK /\ Generations /\ Setups /\ Unready /\ Workers /\ Places /\ Opened /\ Freshness
      /\ Progress /\ Replies /\ Locks /\ Captures /\ Cursor /\ Settled /\ Aborts /\ Opening
      /\ Modes /\ Finite /\ BoundaryIsHeard /\ NoRecognizerLeaks /\ FencesHeld
  BY DEF IInv
<1>2. Names
  BY <1>1, TypedNames
<1>3. \/ worker[g].pc = "begin" /\ x = "clear"
      \/ worker[g].pc = "reply" /\ x \in {"claim", "end"}
      \/ worker[g].pc = "claim" /\ x = "wait"
      \/ worker[g].pc = "wait" /\ x = "end"
      \/ worker[g].pc = "context" /\ x = "generate"
      \/ worker[g].pc = "commit" /\ x = "zero" /\ ~Current(g)
      \/ worker[g].pc = "speak" /\ x = "end" /\ ~MaySpeak(g)
  BY DEF Passes, Paths
<1>4. worker' \in [Gens -> JobType] /\ Moves(g, x)
  BY <1>1, <1>3, Went DEF Passes, Steps
<1>5. worker[g].u \in Utterances
  BY <1>1, <1>2, <1>3 DEF Workers, WorkerOK, Names, NWorker
<1>6. /\ live' = live /\ setup' = setup /\ stop' = stop /\ lp' = lp /\ feed' = feed
      /\ recog' = recog /\ ctx' = ctx /\ out' = out /\ conv' = conv /\ post' = post
      /\ marks' = marks /\ turn' = turn /\ budget' = budget
  BY DEF Passes
<1>20. TypeOK'
  BY <1>1, <1>3, <1>4, <1>5, <1>6 DEF TypeOK
<1>21. Generations'
  BY <1>1, Busy, <1>3, <1>4, <1>5, <1>6 DEF Generations, Moves, Some
<1>22. Setups'
  BY <1>1, <1>3, <1>4, <1>5, <1>6 DEF Setups, Moves
<1>23. Unready'
  BY <1>1, <1>3, <1>4, <1>5, <1>6 DEF Unready, Moves
<1>24. Workers'
  BY <1>1, Busy, <1>3, <1>4, <1>5, <1>6 DEF Workers, WorkerOK, Fencing, Speaking, Moves, Some
<1>25. Places'
  BY <1>1, <1>3, <1>4, <1>5, <1>6 DEF Places, Q, Moves
<1>26. Opened'
  BY <1>1, <1>3, <1>4, <1>5, <1>6 DEF Opened, Q, Moves
<1>27. Freshness'
  BY <1>1, <1>3, <1>4, <1>5, <1>6 DEF Freshness, Fresh, InQ, Untouched, Unheard, Q, Early, Moves
<1>28. Progress'
  BY <1>1, Busy, <1>3, <1>4, <1>5, <1>6 DEF Progress, Unheard, Unspoken, Before, Early, Moves,
     Some
<1>29. Replies'
  <2>1. CASE live.reply = 0
    <3>1. \A h \in Gens : worker'[h].u = worker[h].u
      BY <1>4 DEF Moves
    <3>2. live.replyTurn = 0
      BY <2>1, ReplyTurnOf
    <3> QED BY <1>1, <1>2, <2>1, <3>1, <3>2, <1>6 DEF Replies, Names, NLive
  <2>2. CASE live.reply # 0
    <3>1. live.lp \in Gens /\ worker[live.lp].u = live.reply /\ worker[live.lp].pc \in Replying
      BY <2>2, ReplyOf
    <3>2. \A h \in Gens : worker'[h].u = worker[h].u /\ worker'[h].fence = worker[h].fence
      BY <1>4 DEF Moves
    <3>3. worker'[live.lp].pc = IF live.lp = g THEN x ELSE worker[live.lp].pc
      BY <1>4, <3>1 DEF Moves
    <3>4. g = live.lp => /\ x \in Replying /\ x # "speak"
                         /\ worker[g].pc \notin {"fence", "speak"}
      BY <1>1, <1>3, <2>2, <3>1 DEF Replies, Replying, Before, Early, Speaking, Current, MaySpeak
    <3>5. worker'[live.lp].pc \in Replying
      BY <3>1, <3>3, <3>4
    <3>6. worker'[live.lp].pc = "speak" => worker'[live.lp].fence
      BY <1>1, <2>2, <3>1, <3>2, <3>3, <3>4 DEF Replies
    <3>7. live.replyTurn # 0 => worker'[live.lp].pc = "fence" \/ worker'[live.lp].fence
      BY <1>1, <3>1, <3>2, <3>3, <3>4 DEF Replies
    <3> QED BY <1>1, <2>2, <3>1, <3>2, <3>5, <3>6, <3>7, <1>6 DEF Replies
  <2> QED BY <2>1, <2>2
<1>30. Locks'
  BY <1>1, Busy, <1>3, <1>4, <1>5, <1>6 DEF Locks, Locking, Writing, Moves, Some
<1>31. Captures'
  BY <1>1, <1>6 DEF Captures, CapturedOnce
<1>32. Cursor'
  BY <1>1, <1>3, <1>4, <1>5, <1>6 DEF Cursor, Moves
<1>33. Settled'
  <2>1. \A h \in Gens : /\ worker'[h].pc = IF h = g THEN x ELSE worker[h].pc
                        /\ worker'[h].u = worker[h].u /\ worker'[h].speech = worker[h].speech
    BY <1>4 DEF Moves
  <2>11. SUFFICES ASSUME PromptCleanup, NEW v \in Utterances
                  PROVE  Done(v)' \/ Pend(v)' \/ \E h \in Gens : Open(v, h)'
    BY DEF Settled
  <2>12. CASE Done(v)
    BY <2>12, <1>6 DEF Done
  <2>13. CASE Pend(v)
    BY <2>13, <1>6 DEF Pend
  <2>14. ASSUME NEW h \in Gens, Open(v, h)
         PROVE  Done(v)' \/ Pend(v)' \/ \E k \in Gens : Open(v, k)'
    <3>1. v # 0
      BY <1>2, <2>11 DEF Names, NConst
    <3>2. CASE h # g
      <4>1. Open(v, h)'
        BY <2>1, <2>14, <3>2, <1>6 DEF Open
      <4> QED BY <4>1
    <3>3. CASE h = g
      <4>1. worker[g].pc = "commit" /\ x = "zero"
        <5>1. live.replyTurn = v => /\ live.reply = v /\ live.lp # 0 /\ v \notin ctx.cancelled
          BY <1>1, <3>1 DEF Replies
        <5>2. worker[g].u = v
          BY <2>14, <3>3 DEF Open
        <5>3. live.replyTurn = v => MaySpeak(g)
          BY <5>1, <5>2 DEF MaySpeak, Current
        <5> QED BY <1>3, <2>14, <3>3, <5>3 DEF Open
      <4>2. Open(v, g)'
        BY <2>1, <2>14, <3>3, <4>1 DEF Open
      <4> QED BY <4>2
    <3> QED BY <3>2, <3>3
  <2> QED BY <1>1, <2>11, <2>12, <2>13, <2>14 DEF Settled
<1>34. Aborts'
  BY <1>1, <1>3, <1>4, <1>5, <1>6 DEF Aborts, Moves
<1>35. Opening'
  BY <1>1, <1>6 DEF Opening
<1>36. Modes'
  <2>1. \A h \in Gens : worker'[h].pc = IF h = g THEN x ELSE worker[h].pc
    BY <1>4 DEF Moves
  <2>2. x # "none"
    BY <1>3
  <2> QED BY <1>1, <1>2, <2>1, <2>2, <1>6 DEF Modes, Names, NLive
<1>37. Finite'
  BY <1>1, <1>6 DEF Finite
<1>38. BoundaryIsHeard'
  BY <1>1, <1>6 DEF BoundaryIsHeard
<1>39. NoRecognizerLeaks'
  BY <1>1, Busy, <1>3, <1>4, <1>5, <1>6 DEF NoRecognizerLeaks, InHand, Members, At, Moves, Some
<1>40. FencesHeld'
  <2>1. Holders' = Holders
    BY <1>4, <1>6 DEF Holders, Moves
  <2>2. Takers' = Takers
    BY <1>6 DEF Takers
  <2> QED BY <1>1, <2>1, <2>2, <1>3, <1>5, <1>6, FencesKept
<1> QED BY <1>20, <1>21, <1>22, <1>23, <1>24, <1>25, <1>26, <1>27, <1>28, <1>29, <1>30, <1>31,
   <1>32, <1>33, <1>34, <1>35, <1>36, <1>37, <1>38, <1>39, <1>40 DEF IInv

\* The worker takes the turn lock.
LEMMA TakesLockKeeps ==
  ASSUME IInv, NEW g \in Gens, worker' = Goto(g, "await"), worker[g].pc \in {"claim", "wait"},
         conv.lock = 0, conv' = Claimed(g),
         UNCHANGED <<live, setup, stop, lp, feed, recog, ctx, out, post, marks, turn, budget>>
  PROVE  IInv'
<1>1. /\ TypeOK /\ Generations /\ Setups /\ Unready /\ Workers /\ Places /\ Opened /\ Freshness
      /\ Progress /\ Replies /\ Locks /\ Captures /\ Cursor /\ Settled /\ Aborts /\ Opening
      /\ Modes /\ Finite /\ BoundaryIsHeard /\ NoRecognizerLeaks /\ FencesHeld
  BY DEF IInv
<1>2. Names
  BY <1>1, TypedNames
<1>3. worker' \in [Gens -> JobType] /\ Moves(g, "await")
  BY <1>1, Went DEF TypeOK, Steps
<1>4. /\ conv' \in ConvType /\ conv'.lock = g /\ conv'.fences = conv.fences
      /\ worker[g].pc \in {"claim", "wait"}
  BY <1>1 DEF Claimed, TypeOK, ConvType
<1>5. /\ live' = live /\ setup' = setup /\ stop' = stop /\ lp' = lp /\ feed' = feed
      /\ recog' = recog /\ ctx' = ctx /\ out' = out /\ post' = post /\ marks' = marks
      /\ turn' = turn /\ budget' = budget
  OBVIOUS
<1>20. TypeOK'
  BY <1>1, <1>3, <1>4, <1>5 DEF TypeOK
<1>21. Generations'
  BY <1>1, <1>3, <1>5 DEF Generations, Moves
<1>22. Setups'
  BY <1>1, <1>3, <1>5 DEF Setups, Moves
<1>23. Unready'
  BY <1>1, <1>3, <1>5 DEF Unready, Moves
<1>24. Workers'
  BY <1>1, <1>3, <1>5 DEF Workers, WorkerOK, Fencing, Speaking, Moves
<1>25. Places'
  BY <1>1, <1>3, <1>5 DEF Places, Q, Moves
<1>26. Opened'
  BY <1>1, <1>3, <1>5 DEF Opened, Q, Moves
<1>27. Freshness'
  BY <1>1, <1>3, <1>5 DEF Freshness, Fresh, InQ, Untouched, Unheard, Q, Early, Moves
<1>28. Progress'
  BY <1>1, <1>3, <1>5 DEF Progress, Unheard, Unspoken, Before, Early, Moves
<1>29. Replies'
  BY <1>1, <1>2, <1>3, <1>5 DEF Replies, Replying, Before, Early, Speaking, Moves, Names, NConst,
     NLive, NWorker, NStop, NOut, NCtx, NTurn
<1>30. Locks'
  BY <1>1, <1>2, <1>3, <1>4, <1>5 DEF Locks, Locking, Writing, Moves, Names, NConst, NWorker,
     NConv
<1>31. Captures'
  BY <1>1, <1>5 DEF Captures, CapturedOnce
<1>32. Cursor'
  BY <1>1, <1>3, <1>5 DEF Cursor, Moves
<1>33. Settled'
  BY <1>1, <1>3, <1>5 DEF Settled, Done, Pend, Open, Moves
<1>34. Aborts'
  BY <1>1, <1>3, <1>5 DEF Aborts, Moves
<1>35. Opening'
  BY <1>1, <1>5 DEF Opening
<1>36. Modes'
  BY <1>1, <1>2, <1>3, <1>5 DEF Modes, Moves, Names, NConst, NLive, NWorker, NStop
<1>37. Finite'
  BY <1>1, <1>5 DEF Finite
<1>38. BoundaryIsHeard'
  BY <1>1, <1>5 DEF BoundaryIsHeard
<1>39. NoRecognizerLeaks'
  BY <1>1, <1>3, <1>5 DEF NoRecognizerLeaks, InHand, Members, At, Moves
<1>40. FencesHeld'
  <2>1. Holders' = Holders
    BY <1>3, <1>5 DEF Holders, Moves
  <2>2. Takers' = Takers
    BY <1>5 DEF Takers
  <2> QED BY <1>1, <2>1, <2>2, <1>4, <1>5, FencesKept
<1> QED BY <1>20, <1>21, <1>22, <1>23, <1>24, <1>25, <1>26, <1>27, <1>28, <1>29, <1>30, <1>31,
   <1>32, <1>33, <1>34, <1>35, <1>36, <1>37, <1>38, <1>39, <1>40 DEF IInv

\* The worker gives the turn lock up before its model is called.
LEMMA GivesUpKeeps ==
  ASSUME IInv, NEW g \in Gens, worker' = Goto(g, "end"), worker[g].pc \in {"await", "context"},
         conv' = Unlocked, Spend("fault") \/ budget' = budget,
         UNCHANGED <<live, setup, stop, lp, feed, recog, ctx, out, post, marks, turn>>
  PROVE  IInv'
<1>1. /\ TypeOK /\ Generations /\ Setups /\ Unready /\ Workers /\ Places /\ Opened /\ Freshness
      /\ Progress /\ Replies /\ Locks /\ Captures /\ Cursor /\ Settled /\ Aborts /\ Opening
      /\ Modes /\ Finite /\ BoundaryIsHeard /\ NoRecognizerLeaks /\ FencesHeld
  BY DEF IInv
<1>2. Names
  BY <1>1, TypedNames
<1>3. worker' \in [Gens -> JobType] /\ Moves(g, "end")
  BY <1>1, Went DEF TypeOK, Steps
<1>4. conv' \in ConvType /\ conv'.lock = 0 /\ conv'.fences = conv.fences
  BY <1>1 DEF Unlocked, TypeOK, ConvType
<1>5. conv.lock = g
  BY <1>1 DEF Locks, Locking
<1>6. budget' \in BudgetType /\ budget'["stop"] = budget["stop"]
  BY <1>1, Spent DEF TypeOK
<1>7. /\ live' = live /\ setup' = setup /\ stop' = stop /\ lp' = lp /\ feed' = feed
      /\ recog' = recog /\ ctx' = ctx /\ out' = out /\ post' = post /\ marks' = marks
      /\ turn' = turn
  OBVIOUS
<1>20. TypeOK'
  BY <1>1, <1>3, <1>4, <1>5, <1>6, <1>7 DEF TypeOK
<1>21. Generations'
  BY <1>1, <1>3, <1>5, <1>6, <1>7 DEF Generations, Moves
<1>22. Setups'
  BY <1>1, <1>3, <1>5, <1>7 DEF Setups, Moves
<1>23. Unready'
  BY <1>1, <1>3, <1>5, <1>7 DEF Unready, Moves
<1>24. Workers'
  BY <1>1, <1>3, <1>5, <1>7 DEF Workers, WorkerOK, Fencing, Speaking, Moves
<1>25. Places'
  BY <1>1, <1>3, <1>5, <1>7 DEF Places, Q, Moves
<1>26. Opened'
  BY <1>1, <1>3, <1>5, <1>7 DEF Opened, Q, Moves
<1>27. Freshness'
  BY <1>1, <1>3, <1>5, <1>7 DEF Freshness, Fresh, InQ, Untouched, Unheard, Q, Early, Moves
<1>28. Progress'
  BY <1>1, <1>3, <1>5, <1>7 DEF Progress, Unheard, Unspoken, Before, Early, Moves
<1>29. Replies'
  BY <1>1, <1>2, <1>3, <1>5, <1>7 DEF Replies, Replying, Before, Early, Speaking, Moves, Names,
     NConst, NLive, NWorker, NStop, NOut, NCtx, NTurn
<1>30. Locks'
  BY <1>1, <1>2, <1>3, <1>4, <1>5, <1>7 DEF Locks, Locking, Writing, Moves, Names, NConst,
     NWorker, NConv
<1>31. Captures'
  BY <1>1, <1>7 DEF Captures, CapturedOnce
<1>32. Cursor'
  BY <1>1, <1>3, <1>5, <1>7 DEF Cursor, Moves
<1>33. Settled'
  BY <1>1, <1>3, <1>5, <1>7 DEF Settled, Done, Pend, Open, Moves
<1>34. Aborts'
  BY <1>1, <1>3, <1>5, <1>7 DEF Aborts, Moves
<1>35. Opening'
  BY <1>1, <1>7 DEF Opening
<1>36. Modes'
  BY <1>1, <1>2, <1>3, <1>5, <1>7 DEF Modes, Moves, Names, NConst, NLive, NWorker, NStop
<1>37. Finite'
  BY <1>1, <1>7 DEF Finite
<1>38. BoundaryIsHeard'
  BY <1>1, <1>7 DEF BoundaryIsHeard
<1>39. NoRecognizerLeaks'
  BY <1>1, <1>3, <1>5, <1>7 DEF NoRecognizerLeaks, InHand, Members, At, Moves
<1>40. FencesHeld'
  <2>1. Holders' = Holders
    BY <1>3, <1>7 DEF Holders, Moves
  <2>2. Takers' = Takers
    BY <1>7 DEF Takers
  <2> QED BY <1>1, <2>1, <2>2, <1>4, <1>5, <1>7, FencesKept
<1> QED BY <1>20, <1>21, <1>22, <1>23, <1>24, <1>25, <1>26, <1>27, <1>28, <1>29, <1>30, <1>31,
   <1>32, <1>33, <1>34, <1>35, <1>36, <1>37, <1>38, <1>39, <1>40 DEF IInv

\* The worker has seen the fence clear.
LEMMA ClearsKeeps ==
  ASSUME IInv, NEW g \in Gens, worker' = Goto(g, "context"), worker[g].pc = "await",
         conv.fences = 0,
         UNCHANGED <<live, setup, stop, lp, feed, recog, ctx, out, conv, post, marks, turn, budget>>
  PROVE  IInv'
<1>1. /\ TypeOK /\ Generations /\ Setups /\ Unready /\ Workers /\ Places /\ Opened /\ Freshness
      /\ Progress /\ Replies /\ Locks /\ Captures /\ Cursor /\ Settled /\ Aborts /\ Opening
      /\ Modes /\ Finite /\ BoundaryIsHeard /\ NoRecognizerLeaks /\ FencesHeld
  BY DEF IInv
<1>2. Names
  BY <1>1, TypedNames
<1>3. worker' \in [Gens -> JobType] /\ Moves(g, "context")
  BY <1>1, Went DEF TypeOK, Steps
<1>4. /\ live' = live /\ setup' = setup /\ stop' = stop /\ lp' = lp /\ feed' = feed
      /\ recog' = recog /\ ctx' = ctx /\ out' = out /\ conv' = conv /\ post' = post
      /\ marks' = marks /\ turn' = turn /\ budget' = budget
  OBVIOUS
<1>20. TypeOK'
  BY <1>1, <1>3, <1>4 DEF TypeOK
<1>21. Generations'
  BY <1>1, <1>3, <1>4 DEF Generations, Moves
<1>22. Setups'
  BY <1>1, <1>3, <1>4 DEF Setups, Moves
<1>23. Unready'
  BY <1>1, <1>3, <1>4 DEF Unready, Moves
<1>24. Workers'
  BY <1>1, <1>3, <1>4 DEF Workers, WorkerOK, Fencing, Speaking, Moves
<1>25. Places'
  BY <1>1, <1>3, <1>4 DEF Places, Q, Moves
<1>26. Opened'
  BY <1>1, <1>3, <1>4 DEF Opened, Q, Moves
<1>27. Freshness'
  BY <1>1, <1>3, <1>4 DEF Freshness, Fresh, InQ, Untouched, Unheard, Q, Early, Moves
<1>28. Progress'
  BY <1>1, <1>3, <1>4 DEF Progress, Unheard, Unspoken, Before, Early, Moves
<1>29. Replies'
  BY <1>1, <1>2, <1>3, <1>4 DEF Replies, Replying, Before, Early, Speaking, Moves, Names, NConst,
     NLive, NWorker, NStop, NOut, NCtx, NTurn
<1>30. Locks'
  BY <1>1, <1>3, <1>4 DEF Locks, Locking, Writing, Moves
<1>31. Captures'
  BY <1>1, <1>4 DEF Captures, CapturedOnce
<1>32. Cursor'
  BY <1>1, <1>3, <1>4 DEF Cursor, Moves
<1>33. Settled'
  BY <1>1, <1>3, <1>4 DEF Settled, Done, Pend, Open, Moves
<1>34. Aborts'
  BY <1>1, <1>3, <1>4 DEF Aborts, Moves
<1>35. Opening'
  BY <1>1, <1>4 DEF Opening
<1>36. Modes'
  BY <1>1, <1>2, <1>3, <1>4 DEF Modes, Moves, Names, NConst, NLive, NWorker, NStop
<1>37. Finite'
  BY <1>1, <1>4 DEF Finite
<1>38. BoundaryIsHeard'
  BY <1>1, <1>4 DEF BoundaryIsHeard
<1>39. NoRecognizerLeaks'
  BY <1>1, <1>3, <1>4 DEF NoRecognizerLeaks, InHand, Members, At, Moves
<1>40. FencesHeld'
  <2>1. Holders' = Holders
    BY <1>3, <1>4 DEF Holders, Moves
  <2>2. Takers' = Takers
    BY <1>4 DEF Takers
  <2> QED BY <1>1, <2>1, <2>2, <1>4, FencesKept
<1> QED BY <1>20, <1>21, <1>22, <1>23, <1>24, <1>25, <1>26, <1>27, <1>28, <1>29, <1>30, <1>31,
   <1>32, <1>33, <1>34, <1>35, <1>36, <1>37, <1>38, <1>39, <1>40 DEF IInv

\* The model has answered, or not.
LEMMA GenerateKeeps ==
  ASSUME IInv, NEW g \in Gens, generate(g)
  PROVE  IInv'
<1>1. /\ TypeOK /\ Generations /\ Setups /\ Unready /\ Workers /\ Places /\ Opened /\ Freshness
      /\ Progress /\ Replies /\ Locks /\ Captures /\ Cursor /\ Settled /\ Aborts /\ Opening
      /\ Modes /\ Finite /\ BoundaryIsHeard /\ NoRecognizerLeaks /\ FencesHeld
  BY DEF IInv
<1>2. Names
  BY <1>1, TypedNames
<1>3. worker[g].pc = "generate" /\ worker[g].u \in Utterances
  BY <1>1, <1>2 DEF generate, At, Workers, WorkerOK, Fencing, Speaking, Names, NWorker
<1>4. PICK x \in {"commit", "end"}, r \in {"full", "interrupted", "error", "none"} :
        /\ worker' = Goto(g, x) /\ turn' = [turn EXCEPT ![worker[g].u].reply = r]
        /\ x = "commit" => conv' = conv
        /\ x = "end" => conv' = Unlocked /\ r # "full"
  BY DEF generate
<1>5. worker' \in [Gens -> JobType] /\ Moves(g, x)
  BY <1>1, <1>4, Went DEF Steps
<1>6. /\ turn' \in [Utterances -> TurnType]
      /\ Others(worker[g].u) /\ Heard0 /\ Whole0 /\ Capt0
      /\ turn'[worker[g].u].reply = r /\ turn'[worker[g].u].at = turn[worker[g].u].at
      /\ turn'[worker[g].u].unmarked = turn[worker[g].u].unmarked
  <2> DEFINE u == worker[g].u
             r1 == [turn[u] EXCEPT !.reply = r]
  <2>1. turn \in [Utterances -> TurnType] /\ u \in Utterances
    BY <1>1, <1>3 DEF TypeOK
  <2>2. turn' = [turn EXCEPT ![u] = r1]
    BY <1>4
  <2>3. /\ r1 \in TurnType /\ r1.reply = r /\ r1.at = turn[u].at /\ r1.unmarked = turn[u].unmarked
        /\ r1.heard = turn[u].heard /\ r1.whole = turn[u].whole /\ r1.captured = turn[u].captured
    BY <2>1 DEF TurnType
  <2> HIDE DEF r1, u
  <2>4. /\ turn' \in [Utterances -> TurnType]
        /\ Others(u) /\ Heard0 /\ Whole0 /\ Capt0
        /\ turn'[u].reply = r /\ turn'[u].at = turn[u].at /\ turn'[u].unmarked = turn[u].unmarked
    BY <2>1, <2>2, <2>3 DEF Others, Heard0, Whole0, Capt0
  <2> QED BY <2>4 DEF u
<1>7. conv.lock = g
  BY <1>1, <1>3 DEF Locks, Locking
<1>8. /\ conv' \in ConvType /\ conv'.fences = conv.fences
      /\ conv'.lock = IF x = "end" THEN 0 ELSE conv.lock
  BY <1>1, <1>4 DEF Unlocked, TypeOK, ConvType
<1>9. budget' \in BudgetType /\ budget'["stop"] = budget["stop"]
  BY <1>1, Spent DEF TypeOK, generate
<1>10. /\ live' = live /\ setup' = setup /\ stop' = stop /\ lp' = lp /\ feed' = feed
       /\ recog' = recog /\ ctx' = ctx /\ out' = out /\ post' = post /\ marks' = marks
  BY DEF generate
<1>20. TypeOK'
  BY <1>1, <1>3, <1>4, <1>5, <1>6, <1>7, <1>8, <1>9, <1>10 DEF TypeOK
<1>21. Generations'
  BY <1>1, <1>3, <1>4, <1>5, <1>7, <1>9, <1>10 DEF Generations, Moves
<1>22. Setups'
  BY <1>1, <1>3, <1>4, <1>5, <1>7, <1>10 DEF Setups, Moves
<1>23. Unready'
  BY <1>1, <1>3, <1>4, <1>5, <1>7, <1>10 DEF Unready, Moves
<1>24. Workers'
  BY <1>1, <1>3, <1>4, <1>5, <1>7, <1>10 DEF Workers, WorkerOK, Fencing, Speaking, Moves
<1>25. Places'
  BY <1>1, <1>3, <1>4, <1>5, <1>7, <1>10 DEF Places, Q, Moves
<1>26. Opened'
  BY <1>1, <1>3, <1>4, <1>5, <1>7, <1>10 DEF Opened, Q, Moves
<1>27. Freshness'
  <2>1. \A v \in Utterances : Fresh(v)' => Fresh(v)
    BY <1>5, <1>10 DEF Fresh, InQ, Q, Moves, Early
  <2>2. \A v \in Utterances : Fresh(v) /\ Untouched(v) => Untouched(v)'
    <3>1. ~Fresh(worker[g].u)
      BY <1>3, NotFresh DEF Early
    <3> QED BY <1>6, <3>1, <1>10 DEF Untouched, Others
  <2>3. \A v \in Utterances : Fresh(v) /\ Unheard(v) => Unheard(v)'
    BY <1>6, <1>10, UnheardKept
  <2> QED BY <1>1, <2>1, <2>2, <2>3 DEF Freshness
<1>28. Progress'
  <2> DEFINE u == worker[g].u
  <2>1. \A h \in Gens : h # g /\ worker[h].u = u => u = 0
    BY <1>1 DEF Places
  <2>2. u # 0 /\ turn[u] = Unsaid /\ Unheard(u)
    BY <1>1, <1>2, <1>3 DEF Progress, Before, Early, Unspoken, Names, NConst
  <2>3. turn'[u].captured = 0
    BY <1>3, <1>6, <2>2 DEF Capt0, Unsaid
  <2>4. \A h \in Gens : /\ worker'[h].pc = IF h = g THEN x ELSE worker[h].pc
                        /\ worker'[h].u = worker[h].u
    BY <1>5 DEF Moves
  <2>5. \A h \in Gens : worker[h].pc \notin {"none", "idle", "exit"} => worker[h].u \in Utterances
    BY Busy
  <2>6. \A v \in Utterances : Unheard(v) => Unheard(v)'
    BY <1>6, <1>10, UnheardKept
  <2>7. \A h \in Gens : h # g /\ worker[h].pc \notin {"none", "idle", "exit"} =>
          turn'[worker[h].u] = turn[worker[h].u]
    BY <1>6, <2>1, <2>2, <2>5 DEF Others
  <2>8. SUFFICES ASSUME NEW h \in Gens
                 PROVE  /\ worker'[h].pc \in Before => turn'[worker'[h].u] = Unsaid
                        /\ worker'[h].pc \in {"commit", "zero"} => turn'[worker'[h].u].captured = 0
                        /\ worker'[h].pc \in Unspoken => Unheard(worker[h].u)'
                        /\ worker'[h].pc = "playing" => ~turn'[worker'[h].u].whole
    BY DEF Progress
  <2>9. CASE h = g
    <3>1. Unheard(u)'
      <4>1. PICK v \in Utterances : v = u
        BY <1>3
      <4>2. Unheard(v)'
        BY <2>2, <2>6, <4>1
      <4>3. worker'[g].u = v
        BY <2>4, <4>1
      <4> QED BY <4>2, <4>3 DEF Unheard
    <3> QED BY <1>4, <2>3, <2>4, <2>9, <3>1 DEF Before, Early
  <2>10. CASE h # g
    <3>1. PICK v : v = worker[h].u
      OBVIOUS
    <3>2. worker[h].pc \in Unspoken => Unheard(v)'
      BY <1>1, <2>5, <2>6, <3>1 DEF Progress, Unspoken, Before, Early
    <3>3. worker'[h].pc \in Unspoken => Unheard(worker[h].u)'
      BY <2>4, <2>10, <3>1, <3>2 DEF Unheard
    <3> QED BY <1>1, <2>4, <2>7, <2>10, <3>3 DEF Progress, Before, Early
  <2> QED BY <2>9, <2>10
<1>29. Replies'
  BY <1>1, <1>2, <1>3, <1>4, <1>5, <1>6, <1>7, <1>10 DEF Replies, Replying, Before, Early,
     Speaking, Moves, Others, Heard0, Whole0, Capt0, Names, NConst, NLive, NWorker, NStop, NOut,
     NCtx, NTurn
<1>30. Locks'
  BY <1>1, <1>2, <1>3, <1>4, <1>5, <1>7, <1>8, <1>10 DEF Locks, Locking, Writing, Moves, Names,
     NConst, NWorker, NConv
<1>31. Captures'
  BY <1>1, <1>3, <1>4, <1>6, <1>7, <1>10 DEF Captures, CapturedOnce, Others, Heard0, Whole0,
     Capt0
<1>32. Cursor'
  BY <1>1, <1>3, <1>4, <1>5, <1>6, <1>7, <1>10 DEF Cursor, Moves, Others, Heard0, Whole0, Capt0
<1>33. Settled'
  BY <1>1, <1>3, <1>4, <1>5, <1>6, <1>7, <1>10 DEF Settled, Done, Pend, Open, Moves, Others,
     Heard0, Whole0, Capt0
<1>34. Aborts'
  BY <1>1, <1>3, <1>4, <1>5, <1>7, <1>10 DEF Aborts, Moves
<1>35. Opening'
  BY <1>1, <1>10 DEF Opening
<1>36. Modes'
  <2>1. \A h \in Gens : worker'[h].pc = IF h = g THEN x ELSE worker[h].pc
    BY <1>5 DEF Moves
  <2>2. x # "none"
    BY <1>4
  <2> QED BY <1>1, <1>2, <2>1, <2>2, <1>10 DEF Modes, Names, NLive
<1>37. Finite'
  BY <1>1, <1>10 DEF Finite
<1>38. BoundaryIsHeard'
  BY <1>1, <1>3, <1>4, <1>6, <1>7, <1>10 DEF BoundaryIsHeard, Others, Heard0, Whole0, Capt0
<1>39. NoRecognizerLeaks'
  BY <1>1, <1>3, <1>4, <1>5, <1>7, <1>10 DEF NoRecognizerLeaks, InHand, Members, At, Moves
<1>40. FencesHeld'
  <2>1. Holders' = Holders
    BY <1>4, <1>5, <1>10 DEF Holders, Moves
  <2>2. Takers' = Takers
    BY <1>10 DEF Takers
  <2> QED BY <1>1, <2>1, <2>2, <1>3, <1>4, <1>7, <1>8, <1>10, FencesKept
<1> QED BY <1>20, <1>21, <1>22, <1>23, <1>24, <1>25, <1>26, <1>27, <1>28, <1>29, <1>30, <1>31,
   <1>32, <1>33, <1>34, <1>35, <1>36, <1>37, <1>38, <1>39, <1>40 DEF IInv

\* A reply that is still current is committed: its cursor is reset.
LEMMA CommittedKeeps ==
  ASSUME IInv, NEW g \in Gens, onCommitted(g), Current(g)
  PROVE  IInv'
<1>1. /\ TypeOK /\ Generations /\ Setups /\ Unready /\ Workers /\ Places /\ Opened /\ Freshness
      /\ Progress /\ Replies /\ Locks /\ Captures /\ Cursor /\ Settled /\ Aborts /\ Opening
      /\ Modes /\ Finite /\ BoundaryIsHeard /\ NoRecognizerLeaks /\ FencesHeld
  BY DEF IInv
<1>2. Names
  BY <1>1, TypedNames
<1>3. worker[g].pc = "commit" /\ worker[g].u \in Utterances /\ live.lp # 0 /\ live.reply = worker[g].u
  BY <1>1, <1>2 DEF onCommitted, At, Workers, WorkerOK, Fencing, Speaking, Names, NWorker,
     Current
<1>4. live.lp = g
  <2>1. live.lp \in Gens /\ worker[live.lp].u = live.reply /\ live.reply # 0
    BY <1>1, <1>2, <1>3 DEF Replies, Names, NLive, NConst
  <2> QED BY <1>1, <1>3, <2>1 DEF Places
<1>5. live' \in LiveType /\ SameMode /\ Talk(live.turnRecog, live.workerRecog, live.reply, worker[g].u)
  BY <1>1, <1>3 DEF onCommitted, Turns, Utterances, TypeOK, LiveType, Mode, SameMode, Talk,
     SameTalk
<1>6. /\ out' \in OutType /\ out'.of = 0 /\ out'.left = 0 /\ out'.sent = 0 /\ out'.played = 0
      /\ out'.running = out.running
  <2>1. out' = [of |-> 0, running |-> out.running, left |-> 0, sent |-> 0, played |-> 0,
                lost |-> FALSE]
    BY DEF onCommitted, Reset, Silent
  <2> QED BY <1>2, <2>1, TurnsAre DEF OutType, Names, NOut
<1>7. worker' \in [Gens -> JobType] /\ Moves(g, "fence")
  BY <1>1, Went DEF onCommitted, Steps
<1>8. conv.fences = 0 /\ \A h \in Gens : ~worker[h].fence
  BY <1>1, <1>3, NoFences DEF Locks, Writing
<1>9. /\ setup' = setup /\ stop' = stop /\ lp' = lp /\ feed' = feed /\ recog' = recog
      /\ ctx' = ctx /\ conv' = conv /\ post' = post /\ marks' = marks /\ turn' = turn
      /\ budget' = budget
  BY DEF onCommitted
<1>20. TypeOK'
  BY <1>1, <1>3, <1>4, <1>5, <1>6, <1>7, <1>8, <1>9 DEF TypeOK
<1>21. Generations'
  BY <1>1, <1>3, <1>4, <1>5, <1>7, <1>8, <1>9 DEF Generations, SameMode, Mode, Talk, Moves
<1>22. Setups'
  BY <1>1, <1>3, <1>4, <1>5, <1>7, <1>8, <1>9 DEF Setups, SameMode, Mode, Talk, Moves
<1>23. Unready'
  BY <1>1, <1>3, <1>4, <1>5, <1>7, <1>8, <1>9 DEF Unready, SameMode, Mode, Talk, Moves
<1>24. Workers'
  BY <1>1, <1>3, <1>4, <1>7, <1>8, <1>9 DEF Workers, WorkerOK, Fencing, Speaking, Moves
<1>25. Places'
  BY <1>1, <1>3, <1>4, <1>5, <1>7, <1>8, <1>9 DEF Places, Q, SameMode, Mode, Talk, Moves
<1>26. Opened'
  BY <1>1, <1>3, <1>4, <1>5, <1>7, <1>8, <1>9 DEF Opened, Q, SameMode, Mode, Talk, Moves
<1>27. Freshness'
  BY <1>1, <1>2, <1>3, <1>4, <1>5, <1>6, <1>7, <1>8, <1>9 DEF Freshness, Fresh, InQ, Untouched,
     Unheard, Q, Early, SameMode, Mode, Talk, Moves, Names, NConst
<1>28. Progress'
  BY <1>1, Busy, <1>3, <1>4, <1>6, <1>7, <1>8, <1>9 DEF Progress, Unheard, Unspoken, Before,
     Early, Moves, Some
<1>29. Replies'
  <2>1. \A h \in Gens : worker'[h].u = worker[h].u
    BY <1>7 DEF Moves
  <2>2. worker'[g].pc = "fence"
    BY <1>4, <1>7 DEF Moves
  <2>3. turn[worker[g].u].captured = 0
    BY <1>1, <1>3 DEF Progress
  <2>4. /\ live'.lp = g /\ live'.workerRecog = live.workerRecog /\ live'.reply = live.reply
        /\ live'.replyTurn = worker[g].u
    BY <1>4, <1>5 DEF SameMode, Mode, Talk
  <2>5. live.reply # 0
    BY <1>2, <1>3 DEF Names, NConst
  <2> QED BY <1>1, <1>3, <1>4, <1>6, <2>1, <2>2, <2>3, <2>4, <2>5, <1>9 DEF Replies, Replying
<1>30. Locks'
  BY <1>1, <1>3, <1>4, <1>7, <1>8, <1>9 DEF Locks, Locking, Writing, Moves
<1>31. Captures'
  BY <1>1, <1>9 DEF Captures, CapturedOnce
<1>32. Cursor'
  <2>1. \A h \in Gens : worker'[h].pc \notin {"playing", "playout", "short"}
    BY <1>1, <1>7, <1>8 DEF Moves, Workers, WorkerOK, Speaking
  <2> QED BY <1>6, <2>1 DEF Cursor
<1>33. Settled'
  <2>1. \A h \in Gens : /\ worker'[h].pc = IF h = g THEN "fence" ELSE worker[h].pc
                        /\ worker'[h].u = worker[h].u /\ worker'[h].speech = worker[h].speech
    BY <1>7 DEF Moves
  <2>2. live'.replyTurn = worker[g].u
    BY <1>5 DEF Talk
  <2>11. SUFFICES ASSUME PromptCleanup, NEW v \in Utterances
                  PROVE  Done(v)' \/ Pend(v)' \/ \E h \in Gens : Open(v, h)'
    BY DEF Settled
  <2>12. CASE Done(v)
    BY <2>12, <1>9 DEF Done
  <2>13. CASE Pend(v)
    BY <2>13, <1>9 DEF Pend
  <2>14. ASSUME NEW h \in Gens, Open(v, h)
         PROVE  Done(v)' \/ Pend(v)' \/ \E k \in Gens : Open(v, k)'
    <3>1. CASE h = g
      <4>1. worker'[g].u = v /\ worker'[g].pc = "fence" /\ live'.replyTurn = v
        BY <2>1, <2>2, <2>14, <3>1 DEF Open
      <4> QED BY <4>1 DEF Open
    <3>2. CASE h # g
      <4>1. v # 0 /\ worker[h].u = v
        BY <1>2, <2>11, <2>14 DEF Open, Names, NConst
      <4>2. worker[g].u # v
        BY <1>1, <3>2, <4>1 DEF Places
      <4>3. live.replyTurn # v
        BY <1>3, <4>1, <4>2, ReplyTurnOf
      <4>4. Open(v, h)'
        BY <2>1, <2>14, <3>2, <4>3 DEF Open
      <4> QED BY <4>4
    <3> QED BY <3>1, <3>2
  <2> QED BY <1>1, <2>11, <2>12, <2>13, <2>14 DEF Settled
<1>34. Aborts'
  BY <1>1, <1>3, <1>4, <1>5, <1>7, <1>8, <1>9 DEF Aborts, SameMode, Mode, Talk, Moves
<1>35. Opening'
  BY <1>1, <1>3, <1>4, <1>5, <1>8, <1>9 DEF Opening, SameMode, Mode, Talk
<1>36. Modes'
  BY <1>1, <1>3, <1>4, <1>5, <1>7, <1>8, <1>9 DEF Modes, SameMode, Mode, Talk, Moves
<1>37. Finite'
  BY <1>1, <1>9 DEF Finite
<1>38. BoundaryIsHeard'
  BY <1>1, <1>9 DEF BoundaryIsHeard
<1>39. NoRecognizerLeaks'
  BY <1>1, <1>3, <1>4, <1>5, <1>7, <1>8, <1>9 DEF NoRecognizerLeaks, InHand, Members, At,
     SameMode, Mode, Talk, Moves
<1>40. FencesHeld'
  <2>1. Holders' = Holders
    BY <1>7, <1>9 DEF Holders, Moves
  <2>2. Takers' = Takers
    BY <1>9 DEF Takers
  <2> QED BY <1>1, <2>1, <2>2, <1>3, <1>4, <1>8, <1>9, FencesKept
<1> QED BY <1>20, <1>21, <1>22, <1>23, <1>24, <1>25, <1>26, <1>27, <1>28, <1>29, <1>30, <1>31,
   <1>32, <1>33, <1>34, <1>35, <1>36, <1>37, <1>38, <1>39, <1>40 DEF IInv

\* The playback fence is reserved, and the turn lock released.
LEMMA ReserveFenceKeeps ==
  ASSUME IInv, NEW g \in Gens, reserveFence(g)
  PROVE  IInv'
<1>1. /\ TypeOK /\ Generations /\ Setups /\ Unready /\ Workers /\ Places /\ Opened /\ Freshness
      /\ Progress /\ Replies /\ Locks /\ Captures /\ Cursor /\ Settled /\ Aborts /\ Opening
      /\ Modes /\ Finite /\ BoundaryIsHeard /\ NoRecognizerLeaks /\ FencesHeld
  BY DEF IInv
<1>2. Names
  BY <1>1, TypedNames
<1>3. worker[g].pc = "fence" /\ worker[g].u \in Utterances /\ worker[g].fence = FALSE
  BY <1>1, <1>2 DEF reserveFence, At, Workers, WorkerOK, Fencing, Speaking, Names, NWorker
<1>4. worker' = [worker EXCEPT ![g] = [pc |-> "speak", u |-> worker[g].u, fence |-> TRUE, speech |-> worker[g].speech]]
  BY <1>1, <1>3 DEF reserveFence, TypeOK, JobType
<1>5. worker' \in [Gens -> JobType] /\ Job(g, "speak", worker[g].u, TRUE, worker[g].speech)
  <2> DEFINE r == [pc |-> "speak", u |-> worker[g].u, fence |-> TRUE, speech |-> worker[g].speech]
  <2>1. worker \in [Gens -> JobType] /\ worker' = [worker EXCEPT ![g] = r]
    BY <1>1, <1>4 DEF TypeOK
  <2>2. r \in JobType
    BY <1>1, TurnsAre DEF TypeOK, JobType, Steps
  <2>3. /\ r.pc = "speak" /\ r.u = worker[g].u /\ r.fence = (TRUE)
        /\ r.speech = worker[g].speech
    OBVIOUS
  <2> HIDE DEF r
  <2> QED BY <2>1, <2>2, <2>3 DEF Job
<1>6. conv' \in ConvType /\ conv'.lock = 0 /\ conv'.fences = conv.fences + 1 /\ conv.lock = g
  <2>1. conv \in ConvType
    BY <1>1 DEF TypeOK
  <2>2. conv' = [lock |-> 0, fences |-> conv.fences + 1]
    BY <2>1 DEF reserveFence, Fenced, Unlocked, ConvType
  <2>3. conv.lock = g
    BY <1>1, <1>3 DEF Locks, Locking
  <2> QED BY <2>1, <2>2, <2>3 DEF ConvType
<1>7. \A h \in Gens : ~worker[h].fence
  BY <1>1, <1>3 DEF Locks
<1>8. /\ live' = live /\ setup' = setup /\ stop' = stop /\ lp' = lp /\ feed' = feed
      /\ recog' = recog /\ ctx' = ctx /\ out' = out /\ post' = post /\ marks' = marks
      /\ turn' = turn /\ budget' = budget
  BY DEF reserveFence
<1>20. TypeOK'
  BY <1>1, <1>3, <1>4, <1>5, <1>6, <1>7, <1>8 DEF TypeOK
<1>21. Generations'
  BY <1>1, <1>3, <1>4, <1>5, <1>7, <1>8 DEF Generations, Job
<1>22. Setups'
  BY <1>1, <1>3, <1>4, <1>5, <1>7, <1>8 DEF Setups, Job
<1>23. Unready'
  BY <1>1, <1>3, <1>4, <1>5, <1>7, <1>8 DEF Unready, Job
<1>24. Workers'
  BY <1>1, <1>3, <1>4, <1>5, <1>7, <1>8 DEF Workers, WorkerOK, Fencing, Speaking, Job
<1>25. Places'
  BY <1>1, <1>3, <1>4, <1>5, <1>7, <1>8 DEF Places, Q, Job
<1>26. Opened'
  BY <1>1, <1>3, <1>4, <1>5, <1>7, <1>8 DEF Opened, Q, Job
<1>27. Freshness'
  BY <1>1, <1>3, <1>4, <1>5, <1>7, <1>8 DEF Freshness, Fresh, InQ, Untouched, Unheard, Q, Early,
     Job
<1>28. Progress'
  BY <1>1, <1>3, <1>4, <1>5, <1>7, <1>8 DEF Progress, Unheard, Unspoken, Before, Early, Job
<1>29. Replies'
  BY <1>1, <1>3, <1>4, <1>5, <1>7, <1>8 DEF Replies, Replying, Before, Early, Speaking, Job
<1>30. Locks'
  BY <1>1, <1>2, <1>3, <1>4, <1>5, <1>6, <1>7, <1>8 DEF Locks, Locking, Writing, Job, Names,
     NConst, NWorker, NConv
<1>31. Captures'
  BY <1>1, <1>8 DEF Captures, CapturedOnce
<1>32. Cursor'
  BY <1>1, <1>3, <1>4, <1>5, <1>7, <1>8 DEF Cursor, Job
<1>33. Settled'
  BY <1>1, <1>3, <1>4, <1>5, <1>7, <1>8 DEF Settled, Done, Pend, Open, Job
<1>34. Aborts'
  BY <1>1, <1>3, <1>4, <1>5, <1>7, <1>8 DEF Aborts, Job
<1>35. Opening'
  BY <1>1, <1>8 DEF Opening
<1>36. Modes'
  BY <1>1, <1>3, <1>4, <1>5, <1>7, <1>8 DEF Modes, Job
<1>37. Finite'
  BY <1>1, <1>8 DEF Finite
<1>38. BoundaryIsHeard'
  BY <1>1, <1>8 DEF BoundaryIsHeard
<1>39. NoRecognizerLeaks'
  BY <1>1, <1>3, <1>4, <1>5, <1>7, <1>8 DEF NoRecognizerLeaks, InHand, Members, At, Job
<1>40. FencesHeld'
  <2>1. Takers' = Takers
    BY <1>8 DEF Takers
  <2>2. Holders' = Holders \cup {g} /\ g \notin Holders
    BY <1>3, <1>5 DEF Holders, Job
  <2>3. Cardinality(Holders') = Cardinality(Holders) + 1
    BY <2>2, FiniteHolders, FS_AddElement
  <2>4. conv.fences = Cardinality(Holders) + Cardinality(marks)
                      + (IF feed.pc = "marking" THEN 1 ELSE 0) + Cardinality(Takers)
    BY <1>1, CountFences
  <2>5. conv'.fences = conv.fences + 1
    BY <1>6
  <2>6. conv'.fences = Cardinality(Holders') + Cardinality(marks')
                       + (IF feed'.pc = "marking" THEN 1 ELSE 0) + Cardinality(Takers')
    <3> DEFINE m == IF feed.pc = "marking" THEN 1 ELSE 0
    <3>1. m \in Nat /\ conv.fences = Cardinality(Holders) + Cardinality(marks) + m + Cardinality(Takers)
      BY <2>4
    <3>2. (IF feed'.pc = "marking" THEN 1 ELSE 0) = m
      BY <1>8
    <3> HIDE DEF m
    <3> QED BY <2>1, <2>3, <2>5, <3>1, <3>2, <1>8, FiniteHolders
  <2> QED BY <2>6 DEF FencesHeld, Holders, Takers
<1> QED BY <1>20, <1>21, <1>22, <1>23, <1>24, <1>25, <1>26, <1>27, <1>28, <1>29, <1>30, <1>31,
   <1>32, <1>33, <1>34, <1>35, <1>36, <1>37, <1>38, <1>39, <1>40 DEF IInv

\* The worker marks its own reply: uncommitted, rejected or cut short.
LEMMA MarksKeeps ==
  ASSUME IInv, NEW g \in Gens, NEW at, NEW x, worker[g].pc \in {"zero", "reject", "short"},
         at \in {0, out.played}, worker[g].pc # "short" => at = 0,
         MarkTurnInterrupted(worker[g].u, at), worker' = Goto(g, x),
         worker[g].pc = "zero" => x = "speak" /\ conv' = Unlocked,
         worker[g].pc # "zero" => x = "end" /\ conv' = conv,
         UNCHANGED <<live, setup, stop, lp, feed, recog, ctx, out, post, marks>>
  PROVE  IInv'
<1>1. /\ TypeOK /\ Generations /\ Setups /\ Unready /\ Workers /\ Places /\ Opened /\ Freshness
      /\ Progress /\ Replies /\ Locks /\ Captures /\ Cursor /\ Settled /\ Aborts /\ Opening
      /\ Modes /\ Finite /\ BoundaryIsHeard /\ NoRecognizerLeaks /\ FencesHeld
  BY DEF IInv
<1>2. Names
  BY <1>1, TypedNames
<1>3. worker[g].u \in Utterances /\ x \in {"speak", "end"} /\ at \in Nat
  BY <1>1, <1>2 DEF Workers, WorkerOK, Names, NWorker, NOut
<1>4. /\ turn' \in [Utterances -> TurnType] /\ Marked(worker[g].u, at)
      /\ budget' \in BudgetType /\ budget'["stop"] = budget["stop"]
  BY <1>1, <1>3, Marking DEF TypeOK
<1>5. worker' \in [Gens -> JobType] /\ Moves(g, x)
  BY <1>1, <1>3, Went DEF Steps
<1>6. worker[g].pc = "zero" => conv.lock = g
  BY <1>1 DEF Locks, Locking
<1>7. /\ conv' \in ConvType /\ conv'.fences = conv.fences
      /\ conv'.lock = IF worker[g].pc = "zero" THEN 0 ELSE conv.lock
  BY <1>1 DEF Unlocked, TypeOK, ConvType
<1>8. /\ live' = live /\ setup' = setup /\ stop' = stop /\ lp' = lp /\ feed' = feed
      /\ recog' = recog /\ ctx' = ctx /\ out' = out /\ post' = post /\ marks' = marks
  OBVIOUS
<1>20. TypeOK'
  BY <1>1, <1>3, <1>4, <1>5, <1>6, <1>7, <1>8 DEF TypeOK
<1>21. Generations'
  BY <1>1, <1>3, <1>4, <1>5, <1>6, <1>8 DEF Generations, Marked, Others, Heard0, Whole0, Capt0,
     Moves
<1>22. Setups'
  BY <1>1, <1>3, <1>5, <1>6, <1>8 DEF Setups, Moves
<1>23. Unready'
  BY <1>1, <1>3, <1>5, <1>6, <1>8 DEF Unready, Moves
<1>24. Workers'
  BY <1>1, <1>3, <1>5, <1>6, <1>8 DEF Workers, WorkerOK, Fencing, Speaking, Moves
<1>25. Places'
  BY <1>1, <1>3, <1>5, <1>6, <1>8 DEF Places, Q, Moves
<1>26. Opened'
  BY <1>1, <1>3, <1>5, <1>6, <1>8 DEF Opened, Q, Moves
<1>27. Freshness'
  <2>1. \A v \in Utterances : Fresh(v)' => Fresh(v)
    BY <1>5, <1>8 DEF Fresh, InQ, Q, Moves, Early
  <2>2. \A v \in Utterances : Fresh(v) /\ Untouched(v) => Untouched(v)'
    <3>1. ~Fresh(worker[g].u)
      BY <1>3, NotFresh DEF Early
    <3> QED BY <1>4, <3>1, <1>8 DEF Untouched, Marked, Others
  <2>3. \A v \in Utterances : Fresh(v) /\ Unheard(v) => Unheard(v)'
    BY <1>4, <1>8, UnheardKept DEF Marked
  <2> QED BY <1>1, <2>1, <2>2, <2>3 DEF Freshness
<1>28. Progress'
  <2> DEFINE u == worker[g].u
  <2>1. \A h \in Gens : h # g /\ worker[h].u = u => u = 0
    BY <1>1 DEF Places
  <2>2. u # 0 /\ (worker[g].pc = "zero" => Unheard(u))
    BY <1>1, <1>2, <1>3 DEF Progress, Unspoken, Names, NConst
  <2>4. \A h \in Gens : /\ worker'[h].pc = IF h = g THEN x ELSE worker[h].pc
                        /\ worker'[h].u = worker[h].u
    BY <1>5 DEF Moves
  <2>5. \A h \in Gens : worker[h].pc \notin {"none", "idle", "exit"} => worker[h].u \in Utterances
    BY Busy
  <2>6. \A v \in Utterances : Unheard(v) => Unheard(v)'
    BY <1>4, <1>8, UnheardKept DEF Marked
  <2>7. \A h \in Gens : h # g /\ worker[h].pc \notin {"none", "idle", "exit"} =>
          turn'[worker[h].u] = turn[worker[h].u]
    BY <1>4, <2>1, <2>2, <2>5 DEF Marked, Others
  <2>8. SUFFICES ASSUME NEW h \in Gens
                 PROVE  /\ worker'[h].pc \in Before => turn'[worker'[h].u] = Unsaid
                        /\ worker'[h].pc \in {"commit", "zero"} => turn'[worker'[h].u].captured = 0
                        /\ worker'[h].pc \in Unspoken => Unheard(worker[h].u)'
                        /\ worker'[h].pc = "playing" => ~turn'[worker'[h].u].whole
    BY DEF Progress
  <2>9. CASE h = g
    <3>1. worker[g].pc = "zero" => Unheard(u)'
      <4>1. PICK v \in Utterances : v = u
        BY <1>3
      <4>2. worker[g].pc = "zero" => Unheard(v)'
        BY <2>2, <2>6, <4>1
      <4>3. worker'[g].u = v
        BY <2>4, <4>1
      <4> QED BY <4>2, <4>3 DEF Unheard
    <3>2. x \in Unspoken => worker[g].pc = "zero"
      BY <1>3 DEF Unspoken, Before, Early
    <3>3. x \notin Before \cup {"commit", "zero", "playing"}
      BY <1>3 DEF Before, Early
    <3> QED BY <2>4, <2>9, <3>1, <3>2, <3>3
  <2>10. CASE h # g
    <3>1. PICK v : v = worker[h].u
      OBVIOUS
    <3>2. worker[h].pc \in Unspoken => Unheard(v)'
      BY <1>1, <2>5, <2>6, <3>1 DEF Progress, Unspoken, Before, Early
    <3>3. worker'[h].pc \in Unspoken => Unheard(worker[h].u)'
      BY <2>4, <2>10, <3>1, <3>2 DEF Unheard
    <3> QED BY <1>1, <2>4, <2>7, <2>10, <3>3 DEF Progress, Before, Early
  <2> QED BY <2>9, <2>10
<1>29. Replies'
  BY <1>1, <1>2, <1>3, <1>4, <1>5, <1>6, <1>8 DEF Replies, Replying, Before, Early, Speaking,
     Marked, Others, Heard0, Whole0, Capt0, Moves, Names, NConst, NLive, NWorker, NStop, NOut,
     NCtx, NTurn
<1>30. Locks'
  BY <1>1, <1>2, <1>3, <1>5, <1>6, <1>7, <1>8 DEF Locks, Locking, Writing, Moves, Names, NConst,
     NWorker, NConv
<1>31. Captures'
  BY <1>1, <1>2, <1>3, <1>4, <1>6, <1>8 DEF Captures, CapturedOnce, Marked, Others, Heard0,
     Whole0, Capt0, Names, NFeed, NStop, NTurn, NRest
<1>32. Cursor'
  BY <1>1, <1>2, <1>3, <1>4, <1>5, <1>6, <1>8 DEF Cursor, Marked, Others, Heard0, Whole0, Capt0,
     Moves, Names, NConst, NWorker, NOut, NTurn
<1>33. Settled'
  BY <1>1, <1>3, <1>4, <1>5, <1>6, <1>8 DEF Settled, Done, Pend, Open, Marked, Others, Heard0,
     Whole0, Capt0, Moves
<1>34. Aborts'
  BY <1>1, <1>3, <1>5, <1>6, <1>8 DEF Aborts, Moves
<1>35. Opening'
  BY <1>1, <1>8 DEF Opening
<1>36. Modes'
  <2>1. \A h \in Gens : worker'[h].pc = IF h = g THEN x ELSE worker[h].pc
    BY <1>5 DEF Moves
  <2> QED BY <1>1, <1>2, <1>3, <2>1, <1>8 DEF Modes, Names, NLive
<1>37. Finite'
  BY <1>1, <1>8 DEF Finite
<1>38. BoundaryIsHeard'
  <2> DEFINE u == worker[g].u
  <2>1. at <= turn[u].heard
    <3>1. CASE at = 0
      BY <1>2, <1>3, <3>1 DEF Names, NTurn
    <3>2. CASE at # 0
      BY <1>1, <1>2, <1>3, <3>2 DEF Cursor, Names, NConst
    <3> QED BY <3>1, <3>2
  <2> QED BY <1>1, <1>3, <1>4, <2>1 DEF BoundaryIsHeard, Marked, Others, Heard0
<1>39. NoRecognizerLeaks'
  BY <1>1, <1>3, <1>5, <1>6, <1>8 DEF NoRecognizerLeaks, InHand, Members, At, Moves
<1>40. FencesHeld'
  <2>1. Holders' = Holders
    BY <1>5, <1>8 DEF Holders, Moves
  <2>2. Takers' = Takers
    BY <1>8 DEF Takers
  <2> QED BY <1>1, <2>1, <2>2, <1>3, <1>6, <1>7, <1>8, FencesKept
<1> QED BY <1>20, <1>21, <1>22, <1>23, <1>24, <1>25, <1>26, <1>27, <1>28, <1>29, <1>30, <1>31,
   <1>32, <1>33, <1>34, <1>35, <1>36, <1>37, <1>38, <1>39, <1>40 DEF IInv

\* The reply starts to play.
LEMMA SpeakKeeps ==
  ASSUME IInv, NEW g \in Gens, Speaks(g)
  PROVE  IInv'
<1>1. /\ TypeOK /\ Generations /\ Setups /\ Unready /\ Workers /\ Places /\ Opened /\ Freshness
      /\ Progress /\ Replies /\ Locks /\ Captures /\ Cursor /\ Settled /\ Aborts /\ Opening
      /\ Modes /\ Finite /\ BoundaryIsHeard /\ NoRecognizerLeaks /\ FencesHeld
  BY DEF IInv
<1>2. Names
  BY <1>1, TypedNames
<1>3. /\ worker[g].pc = "speak"
      /\ worker[g].u \in Utterances /\ live.reply = worker[g].u /\ live.lp = g /\ worker[g].fence = TRUE
      /\ worker[g].u \notin ctx.cancelled
  BY <1>1, <1>2 DEF Speaks, MaySpeak, Current, Workers, WorkerOK, Names, NWorker, NLive, Replies,
     Places
<1>4. /\ out' \in OutType /\ out'.of = worker[g].u /\ out'.running = TRUE /\ out'.sent = 0 /\ out'.played = 0
  <2>1. out' = [of |-> worker[g].u, running |-> TRUE, left |-> Length, sent |-> 0, played |-> 0,
                lost |-> FALSE]
    BY DEF Speaks, Silent
  <2>2. Length \in Nat /\ worker[g].u \in Turns
    BY <1>3, TurnsAre, VoiceAssumption
  <2> QED BY <2>1, <2>2 DEF OutType
<1>5. /\ ctx' \in CtxType /\ ctx'.cancelled = ctx.cancelled /\ ctx'.cut = ctx.cut \cup Some(ctx.speech)
      /\ ctx'.speech = worker[g].u
  <2>1. ctx \in CtxType /\ Some(ctx.speech) \subseteq Utterances
    BY <1>1, <1>2 DEF TypeOK, Some, Names, NCtx
  <2> QED BY <1>3, <2>1, TurnsAre DEF Speaks, CtxType
<1>6. worker' = [worker EXCEPT ![g] = [worker[g] EXCEPT !.pc = "playing", !.speech = "run"]]
  BY DEF Speaks
<1>7. worker' \in [Gens -> JobType] /\ Job(g, "playing", worker[g].u, worker[g].fence, "run")
  <2> DEFINE r == [worker[g] EXCEPT !.pc = "playing", !.speech = "run"]
  <2>0. worker \in [Gens -> JobType]
    BY <1>1 DEF TypeOK
  <2>1. worker' = [worker EXCEPT ![g] = r]
    BY <1>6
  <2>2. /\ r \in JobType /\ r.pc = "playing" /\ r.u = worker[g].u /\ r.fence = worker[g].fence
        /\ r.speech = "run"
    BY <1>3, <2>0, TurnsAre DEF JobType, Steps
  <2> HIDE DEF r
  <2> QED BY <2>0, <2>1, <2>2 DEF Job
<1>8. /\ live' = live /\ setup' = setup /\ stop' = stop /\ lp' = lp /\ feed' = feed
      /\ recog' = recog /\ conv' = conv /\ post' = post /\ marks' = marks /\ turn' = turn
      /\ budget' = budget
  BY DEF Speaks
<1>20. TypeOK'
  BY <1>1, <1>3, <1>4, <1>5, <1>6, <1>7, <1>8 DEF TypeOK
<1>21. Generations'
  BY <1>1, <1>3, <1>6, <1>7, <1>8 DEF Generations, Job
<1>22. Setups'
  BY <1>1, <1>3, <1>6, <1>7, <1>8 DEF Setups, Job
<1>23. Unready'
  BY <1>1, Busy, <1>3, <1>6, <1>7, <1>8 DEF Unready, Job, Some
<1>24. Workers'
  BY <1>1, <1>2, <1>3, <1>6, <1>7, <1>8 DEF Workers, WorkerOK, Fencing, Speaking, Job, Names,
     NConst, NWorker
<1>25. Places'
  BY <1>1, <1>3, <1>6, <1>7, <1>8 DEF Places, Q, Job
<1>26. Opened'
  BY <1>1, <1>3, <1>6, <1>7, <1>8 DEF Opened, Q, Job
<1>27. Freshness'
  <2>1. \A v \in Utterances : Fresh(v)' => Fresh(v)
    BY <1>7, <1>8 DEF Fresh, InQ, Q, Job, Early
  <2>2. \A v \in Utterances : Fresh(v) /\ Untouched(v) => Untouched(v)'
    BY <1>5, <1>8 DEF Untouched
  <2>3. \A v \in Utterances : Fresh(v) /\ Unheard(v) => Unheard(v)'
    <3>1. ~Fresh(worker[g].u)
      BY <1>3, NotFresh DEF Early
    <3> QED BY <1>4, <1>5, <3>1, <1>8 DEF Unheard, Some
  <2> QED BY <1>1, <2>1, <2>2, <2>3 DEF Freshness
<1>28. Progress'
  <2> DEFINE u == worker[g].u
  <2>1. \A h \in Gens : h # g /\ worker[h].u = u => u = 0
    BY <1>1 DEF Places
  <2>2. u # 0 /\ Unheard(u)
    BY <1>1, <1>2, <1>3 DEF Progress, Unspoken, Names, NConst
  <2>3. \A h \in Gens : /\ worker'[h].pc = IF h = g THEN "playing" ELSE worker[h].pc
                        /\ worker'[h].u = worker[h].u
    BY <1>7 DEF Job
  <2>4. SUFFICES ASSUME NEW h \in Gens
                 PROVE  /\ worker'[h].pc \in Before => turn'[worker'[h].u] = Unsaid
                        /\ worker'[h].pc \in {"commit", "zero"} => turn'[worker'[h].u].captured = 0
                        /\ worker'[h].pc \in Unspoken => Unheard(worker[h].u)'
                        /\ worker'[h].pc = "playing" => ~turn'[worker'[h].u].whole
    BY DEF Progress
  <2>5. CASE h = g
    BY <2>2, <2>3, <2>5, <1>8 DEF Unheard, Unspoken, Before, Early
  <2>6. CASE h # g
    <3>1. worker[h].pc \in Unspoken => Unheard(worker[h].u)
      BY <1>1 DEF Progress
    <3>2. worker'[h].pc \in Unspoken => Unheard(worker[h].u)'
      BY <1>4, <1>5, <2>1, <2>2, <2>3, <2>6, <3>1, <1>8 DEF Unheard, Some
    <3> QED BY <1>1, <2>3, <2>6, <3>2, <1>8 DEF Progress
  <2> QED BY <2>5, <2>6
<1>29. Replies'
  BY <1>1, <1>3, <1>4, <1>5, <1>6, <1>7, <1>8 DEF Replies, Replying, Before, Early, Speaking, Job
<1>30. Locks'
  BY <1>1, Busy, <1>3, <1>6, <1>7, <1>8 DEF Locks, Locking, Writing, Job, Some
<1>31. Captures'
  BY <1>1, <1>8 DEF Captures, CapturedOnce
<1>32. Cursor'
  <2>1. worker[g].u # 0 /\ turn[worker[g].u].heard = 0
    BY <1>1, <1>2, <1>3 DEF Progress, Unspoken, Unheard, Names, NConst
  <2>2. \A h \in Gens : worker'[h].pc \in {"playing", "playout", "short"} => h = g
    BY <1>1, <1>3, <1>7 DEF Job, Workers, WorkerOK, Speaking, Locks
  <2>3. worker'[g].u = worker[g].u
    BY <1>7 DEF Job
  <2> QED BY <1>4, <2>1, <2>2, <2>3, <1>8 DEF Cursor
<1>33. Settled'
  <2>1. \A h \in Gens : /\ worker'[h].pc = IF h = g THEN "playing" ELSE worker[h].pc
                        /\ worker'[h].u = worker[h].u
                        /\ worker'[h].speech = IF h = g THEN "run" ELSE worker[h].speech
    BY <1>7 DEF Job
  <2>2. worker[g].u # 0 /\ Unheard(worker[g].u)
    BY <1>1, <1>2, <1>3 DEF Progress, Unspoken, Names, NConst
  <2>3. worker[g].u \notin ctx'.cut
    BY <1>5, <2>2 DEF Unheard, Some
  <2>11. SUFFICES ASSUME PromptCleanup, NEW v \in Utterances
                  PROVE  Done(v)' \/ Pend(v)' \/ \E h \in Gens : Open(v, h)'
    BY DEF Settled
  <2>12. CASE Done(v)
    BY <2>12, <1>8 DEF Done
  <2>13. CASE Pend(v)
    BY <2>13, <1>8 DEF Pend
  <2>14. ASSUME NEW h \in Gens, Open(v, h)
         PROVE  Done(v)' \/ Pend(v)' \/ \E k \in Gens : Open(v, k)'
    <3>1. CASE h = g
      <4>1. Open(v, g)'
        BY <1>3, <1>4, <2>1, <2>3, <2>14, <3>1, <1>8 DEF Open
      <4> QED BY <4>1
    <3>2. CASE h # g
      <4>1. worker[h].pc \notin Speaking
        BY <1>1, <1>3, <3>2 DEF Workers, WorkerOK, Locks
      <4>2. Open(v, h)'
        BY <2>1, <2>14, <3>2, <4>1, <1>8 DEF Open, Speaking
      <4> QED BY <4>2
    <3> QED BY <3>1, <3>2
  <2> QED BY <1>1, <2>11, <2>12, <2>13, <2>14 DEF Settled
<1>34. Aborts'
  BY <1>1, <1>3, <1>6, <1>7, <1>8 DEF Aborts, Job
<1>35. Opening'
  BY <1>1, <1>8 DEF Opening
<1>36. Modes'
  BY <1>1, <1>3, <1>6, <1>7, <1>8 DEF Modes, Job
<1>37. Finite'
  BY <1>1, <1>8 DEF Finite
<1>38. BoundaryIsHeard'
  BY <1>1, <1>8 DEF BoundaryIsHeard
<1>39. NoRecognizerLeaks'
  BY <1>1, Busy, <1>3, <1>6, <1>7, <1>8 DEF NoRecognizerLeaks, InHand, Members, At, Job, Some
<1>40. FencesHeld'
  <2>1. Holders' = Holders
    BY <1>6, <1>7, <1>8 DEF Holders, Job
  <2>2. Takers' = Takers
    BY <1>8 DEF Takers
  <2> QED BY <1>1, <2>1, <2>2, <1>3, <1>8, FencesKept
<1> QED BY <1>20, <1>21, <1>22, <1>23, <1>24, <1>25, <1>26, <1>27, <1>28, <1>29, <1>30, <1>31,
   <1>32, <1>33, <1>34, <1>35, <1>36, <1>37, <1>38, <1>39, <1>40 DEF IInv

\* The speech of the reply is refused.
LEMMA RejectedKeeps ==
  ASSUME IInv, NEW g \in Gens, MaySpeak(g), worker[g].pc = "speak", Spend("fault"),
         worker' = Goto(g, "reject"),
         UNCHANGED <<live, setup, stop, lp, feed, recog, ctx, out, conv, post, marks, turn>>
  PROVE  IInv'
<1>1. /\ TypeOK /\ Generations /\ Setups /\ Unready /\ Workers /\ Places /\ Opened /\ Freshness
      /\ Progress /\ Replies /\ Locks /\ Captures /\ Cursor /\ Settled /\ Aborts /\ Opening
      /\ Modes /\ Finite /\ BoundaryIsHeard /\ NoRecognizerLeaks /\ FencesHeld
  BY DEF IInv
<1>2. Names
  BY <1>1, TypedNames
<1>3. /\ worker[g].u \in Utterances /\ live.reply = worker[g].u /\ live.lp = g /\ worker[g].fence
  BY <1>1, <1>2 DEF MaySpeak, Current, Workers, WorkerOK, Names, NWorker, NLive, Replies, Places
<1>4. worker' \in [Gens -> JobType] /\ Moves(g, "reject")
  BY <1>1, Went DEF TypeOK, Steps
<1>5. budget' \in BudgetType /\ budget'["stop"] = budget["stop"]
  BY <1>1, Spent DEF TypeOK
<1>6. /\ live' = live /\ setup' = setup /\ stop' = stop /\ lp' = lp /\ feed' = feed
      /\ recog' = recog /\ ctx' = ctx /\ out' = out /\ conv' = conv /\ post' = post
      /\ marks' = marks /\ turn' = turn
  OBVIOUS
<1>20. TypeOK'
  BY <1>1, <1>3, <1>4, <1>5, <1>6 DEF TypeOK
<1>21. Generations'
  BY <1>1, <1>3, <1>4, <1>5, <1>6 DEF Generations, Moves
<1>22. Setups'
  BY <1>1, <1>3, <1>4, <1>6 DEF Setups, Moves
<1>23. Unready'
  BY <1>1, <1>3, <1>4, <1>6 DEF Unready, Moves
<1>24. Workers'
  BY <1>1, <1>3, <1>4, <1>6 DEF Workers, WorkerOK, Fencing, Speaking, Moves
<1>25. Places'
  BY <1>1, <1>3, <1>4, <1>6 DEF Places, Q, Moves
<1>26. Opened'
  BY <1>1, <1>3, <1>4, <1>6 DEF Opened, Q, Moves
<1>27. Freshness'
  BY <1>1, <1>3, <1>4, <1>6 DEF Freshness, Fresh, InQ, Untouched, Unheard, Q, Early, Moves
<1>28. Progress'
  BY <1>1, <1>3, <1>4, <1>6 DEF Progress, Unheard, Unspoken, Before, Early, Moves
<1>29. Replies'
  BY <1>1, <1>3, <1>4, <1>6 DEF Replies, Replying, Before, Early, Speaking, Moves
<1>30. Locks'
  BY <1>1, <1>3, <1>4, <1>6 DEF Locks, Locking, Writing, Moves
<1>31. Captures'
  BY <1>1, <1>6 DEF Captures, CapturedOnce
<1>32. Cursor'
  BY <1>1, <1>3, <1>4, <1>6 DEF Cursor, Moves
<1>33. Settled'
  BY <1>1, <1>3, <1>4, <1>6 DEF Settled, Done, Pend, Open, Moves
<1>34. Aborts'
  BY <1>1, <1>3, <1>4, <1>6 DEF Aborts, Moves
<1>35. Opening'
  BY <1>1, <1>6 DEF Opening
<1>36. Modes'
  BY <1>1, <1>3, <1>4, <1>6 DEF Modes, Moves
<1>37. Finite'
  BY <1>1, <1>6 DEF Finite
<1>38. BoundaryIsHeard'
  BY <1>1, <1>6 DEF BoundaryIsHeard
<1>39. NoRecognizerLeaks'
  BY <1>1, <1>3, <1>4, <1>6 DEF NoRecognizerLeaks, InHand, Members, At, Moves
<1>40. FencesHeld'
  <2>1. Holders' = Holders
    BY <1>4, <1>6 DEF Holders, Moves
  <2>2. Takers' = Takers
    BY <1>6 DEF Takers
  <2> QED BY <1>1, <2>1, <2>2, <1>3, <1>6, FencesKept
<1> QED BY <1>20, <1>21, <1>22, <1>23, <1>24, <1>25, <1>26, <1>27, <1>28, <1>29, <1>30, <1>31,
   <1>32, <1>33, <1>34, <1>35, <1>36, <1>37, <1>38, <1>39, <1>40 DEF IInv

\* The speech of the reply is over.
LEMMA RunSpeakKeeps ==
  ASSUME IInv, NEW g \in Gens, runSpeak(g)
  PROVE  IInv'
<1>1. /\ TypeOK /\ Generations /\ Setups /\ Unready /\ Workers /\ Places /\ Opened /\ Freshness
      /\ Progress /\ Replies /\ Locks /\ Captures /\ Cursor /\ Settled /\ Aborts /\ Opening
      /\ Modes /\ Finite /\ BoundaryIsHeard /\ NoRecognizerLeaks /\ FencesHeld
  BY DEF IInv
<1>2. Names
  BY <1>1, TypedNames
<1>3. worker[g].pc = "playing" /\ worker[g].u \in Utterances /\ out.of = worker[g].u
  BY <1>1, <1>2 DEF runSpeak, At, Workers, WorkerOK, Fencing, Speaking, Names, NWorker, Cursor
<1>4. PICK how \in {"cut", "short", "none", "whole"} :
        /\ worker' = [worker EXCEPT ![g].speech = how, ![g].pc = "playout"] /\ out' = Halted
        /\ \/ turn' = turn /\ how \in {"cut", "short"}
           \/ turn' = [turn EXCEPT ![worker[g].u].whole = out.running /\ ~out.lost]
        /\ how = "whole" => out.running /\ ~out.lost
        /\ how = "whole" => turn' = [turn EXCEPT ![worker[g].u].whole = out.running /\ ~out.lost]
        /\ how = "cut" => worker[g].u \in ctx.cut
        /\ how = "none" => ~out.running
  BY <1>3 DEF runSpeak
<1>5. worker' = [worker EXCEPT ![g] = [pc |-> "playout", u |-> worker[g].u, fence |-> worker[g].fence, speech |-> how]]
  BY <1>1, <1>3, <1>4 DEF TypeOK, JobType
<1>6. worker' \in [Gens -> JobType] /\ Job(g, "playout", worker[g].u, worker[g].fence, how)
  <2> DEFINE r == [pc |-> "playout", u |-> worker[g].u, fence |-> worker[g].fence, speech |-> how]
  <2>1. worker \in [Gens -> JobType] /\ worker' = [worker EXCEPT ![g] = r]
    BY <1>1, <1>5 DEF TypeOK
  <2>2. r \in JobType
    BY <1>1, <1>3, <1>4, TurnsAre DEF TypeOK, JobType, Steps
  <2>3. /\ r.pc = "playout" /\ r.u = worker[g].u /\ r.fence = (worker[g].fence)
        /\ r.speech = how
    OBVIOUS
  <2> HIDE DEF r
  <2> QED BY <2>1, <2>2, <2>3 DEF Job
<1>7. out' \in OutType /\ Halts
  BY <1>1, <1>4, Halting
<1>8. /\ turn' \in [Utterances -> TurnType]
      /\ Others(worker[g].u) /\ Heard0 /\ Capt0 /\ Told0
  <2> DEFINE u == worker[g].u
             w == out.running /\ ~out.lost
             r1 == [turn[u] EXCEPT !.whole = w]
  <2>1. turn \in [Utterances -> TurnType] /\ u \in Utterances /\ w \in BOOLEAN
    BY <1>1, <1>3 DEF TypeOK
  <2>2. turn' = turn \/ turn' = [turn EXCEPT ![u] = r1]
    BY <1>4
  <2> HIDE DEF w
  <2>3. /\ r1 \in TurnType /\ r1.reply = turn[u].reply /\ r1.at = turn[u].at
        /\ r1.unmarked = turn[u].unmarked
        /\ r1.heard = turn[u].heard /\ r1.captured = turn[u].captured
    BY <2>1 DEF TurnType
  <2> HIDE DEF r1, u
  <2>4. turn' \in [Utterances -> TurnType] /\ Others(u) /\ Heard0 /\ Capt0 /\ Told0
    BY <2>1, <2>2, <2>3 DEF Others, Heard0, Capt0, Told0
  <2> QED BY <2>4 DEF u
<1>9. /\ \A v \in Utterances : turn[v].whole => turn'[v].whole
      /\ how = "whole" => turn'[worker[g].u].whole
      /\ turn[worker[g].u].whole = FALSE
  <2> DEFINE u == worker[g].u
  <2>1. turn \in [Utterances -> TurnType] /\ u \in Utterances /\ turn[u].whole = FALSE
    BY <1>1, <1>2, <1>3 DEF TypeOK, Progress, Names, NTurn
  <2>2. Others(u)
    BY <1>8
  <2>3. how = "whole" => turn'[u].whole = TRUE
    <3>1. CASE how = "whole"
      <4>1. turn' = [turn EXCEPT ![u].whole = out.running /\ ~out.lost] /\ out.running /\ ~out.lost
        BY <1>4, <3>1
      <4>2. turn'[u].whole = (out.running /\ ~out.lost)
        BY <2>1, <4>1 DEF TurnType
      <4> QED BY <4>1, <4>2
    <3> QED BY <3>1
  <2> QED BY <2>1, <2>2, <2>3 DEF Others
<1>10. budget' \in BudgetType /\ budget'["stop"] = budget["stop"]
  BY <1>1, Spent DEF TypeOK, runSpeak
<1>11. /\ live' = live /\ setup' = setup /\ stop' = stop /\ lp' = lp /\ feed' = feed
       /\ recog' = recog /\ ctx' = ctx /\ conv' = conv /\ post' = post /\ marks' = marks
  BY DEF runSpeak
<1>20. TypeOK'
  BY <1>1, <1>3, <1>4, <1>5, <1>6, <1>7, <1>8, <1>9, <1>10, <1>11 DEF TypeOK
<1>21. Generations'
  BY <1>1, <1>3, <1>4, <1>5, <1>6, <1>10, <1>11 DEF Generations, Job
<1>22. Setups'
  BY <1>1, <1>3, <1>4, <1>5, <1>6, <1>11 DEF Setups, Job
<1>23. Unready'
  BY <1>1, <1>3, <1>4, <1>5, <1>6, <1>11 DEF Unready, Job
<1>24. Workers'
  BY <1>1, <1>3, <1>4, <1>5, <1>6, <1>11 DEF Workers, WorkerOK, Fencing, Speaking, Job
<1>25. Places'
  BY <1>1, <1>3, <1>4, <1>5, <1>6, <1>11 DEF Places, Q, Job
<1>26. Opened'
  BY <1>1, <1>3, <1>4, <1>5, <1>6, <1>11 DEF Opened, Q, Job
<1>27. Freshness'
  BY <1>1, <1>3, <1>4, <1>5, <1>6, <1>7, <1>8, <1>9, <1>11 DEF Freshness, Fresh, InQ, Untouched,
     Unheard, Q, Early, Job, Halts, Others, Heard0, Capt0, Told0
<1>28. Progress'
  BY <1>1, <1>3, <1>4, <1>5, <1>6, <1>7, <1>8, <1>9, <1>11 DEF Progress, Unheard, Unspoken,
     Before, Early, Job, Halts, Others, Heard0, Capt0, Told0
<1>29. Replies'
  BY <1>1, <1>3, <1>4, <1>5, <1>6, <1>7, <1>8, <1>9, <1>11 DEF Replies, Replying, Before, Early,
     Speaking, Job, Halts, Others, Heard0, Capt0, Told0
<1>30. Locks'
  BY <1>1, <1>3, <1>4, <1>5, <1>6, <1>11 DEF Locks, Locking, Writing, Job
<1>31. Captures'
  BY <1>1, <1>2, <1>3, <1>4, <1>8, <1>9, <1>11 DEF Captures, CapturedOnce, Others, Heard0, Capt0,
     Told0, Names, NFeed, NStop, NTurn, NRest
<1>32. Cursor'
  BY <1>1, <1>3, <1>4, <1>5, <1>6, <1>7, <1>8, <1>9, <1>11 DEF Cursor, Job, Halts, Others,
     Heard0, Capt0, Told0
<1>33. Settled'
  BY <1>1, <1>3, <1>4, <1>5, <1>6, <1>7, <1>8, <1>9, <1>11 DEF Settled, Done, Pend, Open, Job,
     Halts, Others, Heard0, Capt0, Told0
<1>34. Aborts'
  BY <1>1, <1>3, <1>4, <1>5, <1>6, <1>11 DEF Aborts, Job
<1>35. Opening'
  BY <1>1, <1>11 DEF Opening
<1>36. Modes'
  BY <1>1, <1>3, <1>4, <1>5, <1>6, <1>11 DEF Modes, Job
<1>37. Finite'
  BY <1>1, <1>11 DEF Finite
<1>38. BoundaryIsHeard'
  BY <1>1, <1>3, <1>4, <1>8, <1>9, <1>11 DEF BoundaryIsHeard, Others, Heard0, Capt0, Told0
<1>39. NoRecognizerLeaks'
  BY <1>1, <1>3, <1>4, <1>5, <1>6, <1>11 DEF NoRecognizerLeaks, InHand, Members, At, Job
<1>40. FencesHeld'
  <2>1. Holders' = Holders
    BY <1>4, <1>5, <1>6, <1>11 DEF Holders, Job
  <2>2. Takers' = Takers
    BY <1>11 DEF Takers
  <2> QED BY <1>1, <2>1, <2>2, <1>3, <1>11, FencesKept
<1> QED BY <1>20, <1>21, <1>22, <1>23, <1>24, <1>25, <1>26, <1>27, <1>28, <1>29, <1>30, <1>31,
   <1>32, <1>33, <1>34, <1>35, <1>36, <1>37, <1>38, <1>39, <1>40 DEF IInv

\* The playback of the reply is over.
LEMMA PlayedOutKeeps ==
  ASSUME IInv, NEW g \in Gens, waitPlayedOut(g)
  PROVE  IInv'
<1>1. /\ TypeOK /\ Generations /\ Setups /\ Unready /\ Workers /\ Places /\ Opened /\ Freshness
      /\ Progress /\ Replies /\ Locks /\ Captures /\ Cursor /\ Settled /\ Aborts /\ Opening
      /\ Modes /\ Finite /\ BoundaryIsHeard /\ NoRecognizerLeaks /\ FencesHeld
  BY DEF IInv
<1>2. Names
  BY <1>1, TypedNames
<1>3. worker[g].pc = "playout" /\ worker[g].u \in Utterances
  BY <1>1, <1>2 DEF waitPlayedOut, At, Workers, WorkerOK, Fencing, Speaking, Names, NWorker
<1>4. worker' = [worker EXCEPT ![g] = [pc |-> IF worker[g].speech = "short" THEN "short" ELSE "end", u |-> worker[g].u, fence |-> worker[g].fence, speech |-> "none"]]
  BY <1>1, <1>3 DEF waitPlayedOut, TypeOK, JobType
<1>5. worker' \in [Gens -> JobType] /\ Job(g, IF worker[g].speech = "short" THEN "short" ELSE "end", worker[g].u, worker[g].fence, "none")
  <2> DEFINE r == [pc |-> (IF worker[g].speech = "short" THEN "short" ELSE "end"), u |-> worker[g].u, fence |-> worker[g].fence, speech |-> "none"]
  <2>1. worker \in [Gens -> JobType] /\ worker' = [worker EXCEPT ![g] = r]
    BY <1>1, <1>4 DEF TypeOK
  <2>2. r \in JobType
    BY <1>1, TurnsAre DEF TypeOK, JobType, Steps
  <2>3. /\ r.pc = (IF worker[g].speech = "short" THEN "short" ELSE "end") /\ r.u = worker[g].u /\ r.fence = (worker[g].fence)
        /\ r.speech = "none"
    OBVIOUS
  <2> HIDE DEF r
  <2> QED BY <2>1, <2>2, <2>3 DEF Job
<1>6. /\ live' = live /\ setup' = setup /\ stop' = stop /\ lp' = lp /\ feed' = feed
      /\ recog' = recog /\ ctx' = ctx /\ out' = out /\ conv' = conv /\ post' = post
      /\ marks' = marks /\ turn' = turn /\ budget' = budget
  BY DEF waitPlayedOut
<1>20. TypeOK'
  BY <1>1, <1>3, <1>4, <1>5, <1>6 DEF TypeOK
<1>21. Generations'
  BY <1>1, <1>3, <1>4, <1>5, <1>6 DEF Generations, Job
<1>22. Setups'
  BY <1>1, <1>3, <1>4, <1>5, <1>6 DEF Setups, Job
<1>23. Unready'
  BY <1>1, <1>3, <1>4, <1>5, <1>6 DEF Unready, Job
<1>24. Workers'
  BY <1>1, <1>3, <1>4, <1>5, <1>6 DEF Workers, WorkerOK, Fencing, Speaking, Job
<1>25. Places'
  BY <1>1, <1>3, <1>4, <1>5, <1>6 DEF Places, Q, Job
<1>26. Opened'
  BY <1>1, <1>3, <1>4, <1>5, <1>6 DEF Opened, Q, Job
<1>27. Freshness'
  BY <1>1, <1>3, <1>4, <1>5, <1>6 DEF Freshness, Fresh, InQ, Untouched, Unheard, Q, Early, Job
<1>28. Progress'
  BY <1>1, <1>3, <1>4, <1>5, <1>6 DEF Progress, Unheard, Unspoken, Before, Early, Job
<1>29. Replies'
  BY <1>1, <1>3, <1>4, <1>5, <1>6 DEF Replies, Replying, Before, Early, Speaking, Job
<1>30. Locks'
  BY <1>1, <1>3, <1>4, <1>5, <1>6 DEF Locks, Locking, Writing, Job
<1>31. Captures'
  BY <1>1, <1>6 DEF Captures, CapturedOnce
<1>32. Cursor'
  BY <1>1, <1>3, <1>4, <1>5, <1>6 DEF Cursor, Job
<1>33. Settled'
  BY <1>1, <1>3, <1>4, <1>5, <1>6 DEF Settled, Done, Pend, Open, Job
<1>34. Aborts'
  BY <1>1, <1>3, <1>4, <1>5, <1>6 DEF Aborts, Job
<1>35. Opening'
  BY <1>1, <1>6 DEF Opening
<1>36. Modes'
  BY <1>1, <1>3, <1>4, <1>5, <1>6 DEF Modes, Job
<1>37. Finite'
  BY <1>1, <1>6 DEF Finite
<1>38. BoundaryIsHeard'
  BY <1>1, <1>6 DEF BoundaryIsHeard
<1>39. NoRecognizerLeaks'
  BY <1>1, <1>3, <1>4, <1>5, <1>6 DEF NoRecognizerLeaks, InHand, Members, At, Job
<1>40. FencesHeld'
  <2>1. Holders' = Holders
    BY <1>4, <1>5, <1>6 DEF Holders, Job
  <2>2. Takers' = Takers
    BY <1>6 DEF Takers
  <2> QED BY <1>1, <2>1, <2>2, <1>3, <1>6, FencesKept
<1> QED BY <1>20, <1>21, <1>22, <1>23, <1>24, <1>25, <1>26, <1>27, <1>28, <1>29, <1>30, <1>31,
   <1>32, <1>33, <1>34, <1>35, <1>36, <1>37, <1>38, <1>39, <1>40 DEF IInv

\* The worker ends its reply, if it is still the current one.
LEMMA EndReplyKeeps ==
  ASSUME IInv, NEW g \in Gens, endReply(g)
  PROVE  IInv'
<1>1. /\ TypeOK /\ Generations /\ Setups /\ Unready /\ Workers /\ Places /\ Opened /\ Freshness
      /\ Progress /\ Replies /\ Locks /\ Captures /\ Cursor /\ Settled /\ Aborts /\ Opening
      /\ Modes /\ Finite /\ BoundaryIsHeard /\ NoRecognizerLeaks /\ FencesHeld
  BY DEF IInv
<1>2. Names
  BY <1>1, TypedNames
<1>3. worker[g].pc = "end" /\ worker[g].u \in Utterances
  BY <1>1, <1>2 DEF endReply, At, Workers, WorkerOK, Fencing, Speaking, Names, NWorker
<1>4. worker' \in [Gens -> JobType] /\ Moves(g, "release")
  BY <1>1, Went DEF endReply, Steps
<1>5. /\ live' \in LiveType /\ SameMode /\ live'.turnRecog = live.turnRecog /\ live'.workerRecog = live.workerRecog
      /\ live.reply = worker[g].u => live'.reply = 0 /\ live'.replyTurn = 0
      /\ live.reply # worker[g].u => live'.reply = live.reply /\ live'.replyTurn = live.replyTurn
  BY <1>1, TurnsAre DEF endReply, TypeOK, LiveType, SameMode, Mode
<1>6. /\ setup' = setup /\ stop' = stop /\ lp' = lp /\ feed' = feed /\ recog' = recog
      /\ ctx' = ctx /\ out' = out /\ conv' = conv /\ post' = post /\ marks' = marks
      /\ turn' = turn /\ budget' = budget
  BY DEF endReply
<1>20. TypeOK'
  BY <1>1, <1>3, <1>4, <1>5, <1>6 DEF TypeOK
<1>21. Generations'
  BY <1>1, <1>3, <1>4, <1>5, <1>6 DEF Generations, Moves, SameMode, Mode
<1>22. Setups'
  BY <1>1, <1>3, <1>4, <1>5, <1>6 DEF Setups, Moves, SameMode, Mode
<1>23. Unready'
  BY <1>1, <1>3, <1>4, <1>5, <1>6 DEF Unready, Moves, SameMode, Mode
<1>24. Workers'
  BY <1>1, <1>3, <1>4, <1>6 DEF Workers, WorkerOK, Fencing, Speaking, Moves
<1>25. Places'
  <2>1. \A h \in Gens : worker'[h].u = worker[h].u
    BY <1>4 DEF Moves
  <2>2. live'.turnRecog = live.turnRecog
    BY <1>5
  <2> QED BY <1>1, <2>1, <2>2, <1>6 DEF Places, Q
<1>26. Opened'
  BY <1>1, <1>3, <1>4, <1>5, <1>6 DEF Opened, Q, Moves, SameMode, Mode
<1>27. Freshness'
  BY <1>1, <1>3, <1>4, <1>5, <1>6 DEF Freshness, Fresh, InQ, Untouched, Unheard, Q, Early, Moves,
     SameMode, Mode
<1>28. Progress'
  BY <1>1, <1>3, <1>4, <1>6 DEF Progress, Unheard, Unspoken, Before, Early, Moves
<1>29. Replies'
  BY <1>1, <1>2, <1>3, <1>4, <1>5, <1>6 DEF Replies, Replying, Before, Early, Speaking, Moves,
     SameMode, Mode, Names, NConst, NLive, NWorker, NStop, NOut, NCtx, NTurn
<1>30. Locks'
  BY <1>1, <1>3, <1>4, <1>6 DEF Locks, Locking, Writing, Moves
<1>31. Captures'
  BY <1>1, <1>6 DEF Captures, CapturedOnce
<1>32. Cursor'
  BY <1>1, <1>3, <1>4, <1>6 DEF Cursor, Moves
<1>33. Settled'
  <2>1. \A h \in Gens : /\ worker'[h].pc = IF h = g THEN "release" ELSE worker[h].pc
                        /\ worker'[h].u = worker[h].u /\ worker'[h].speech = worker[h].speech
    BY <1>4 DEF Moves
  <2>11. SUFFICES ASSUME PromptCleanup, NEW v \in Utterances
                  PROVE  Done(v)' \/ Pend(v)' \/ \E h \in Gens : Open(v, h)'
    BY DEF Settled
  <2>12. CASE Done(v)
    BY <2>12, <1>6 DEF Done
  <2>13. CASE Pend(v)
    BY <2>13, <1>6 DEF Pend
  <2>14. ASSUME NEW h \in Gens, Open(v, h)
         PROVE  Done(v)' \/ Pend(v)' \/ \E k \in Gens : Open(v, k)'
    <3>1. worker[h].u = v /\ v # 0 /\ h # g
      BY <1>2, <1>3, <2>11, <2>14 DEF Open, Names, NConst
    <3>2. worker[g].u # v
      BY <1>1, <3>1 DEF Places
    <3>3. live.replyTurn = v => live'.replyTurn = v
      BY <1>5, <3>1, <3>2, ReplyTurnOf
    <3>4. Open(v, h)'
      BY <2>1, <2>14, <3>1, <3>3, <1>6 DEF Open
    <3> QED BY <3>4
  <2> QED BY <1>1, <2>11, <2>12, <2>13, <2>14 DEF Settled
<1>34. Aborts'
  BY <1>1, <1>3, <1>4, <1>5, <1>6 DEF Aborts, Moves, SameMode, Mode
<1>35. Opening'
  BY <1>1, <1>3, <1>5, <1>6 DEF Opening, SameMode, Mode
<1>36. Modes'
  <2>1. \A h \in Gens : worker'[h].pc = IF h = g THEN "release" ELSE worker[h].pc
    BY <1>4 DEF Moves
  <2>2. live'.lp = live.lp /\ live'.starting = live.starting
    BY <1>5 DEF SameMode, Mode
  <2> QED BY <1>1, <1>2, <2>1, <2>2, <1>6 DEF Modes, Names, NLive
<1>37. Finite'
  BY <1>1, <1>6 DEF Finite
<1>38. BoundaryIsHeard'
  BY <1>1, <1>6 DEF BoundaryIsHeard
<1>39. NoRecognizerLeaks'
  BY <1>1, <1>3, <1>4, <1>5, <1>6 DEF NoRecognizerLeaks, InHand, Members, At, Moves, SameMode,
     Mode
<1>40. FencesHeld'
  <2>1. Holders' = Holders
    BY <1>4, <1>6 DEF Holders, Moves
  <2>2. Takers' = Takers
    BY <1>6 DEF Takers
  <2> QED BY <1>1, <2>1, <2>2, <1>3, <1>6, FencesKept
<1> QED BY <1>20, <1>21, <1>22, <1>23, <1>24, <1>25, <1>26, <1>27, <1>28, <1>29, <1>30, <1>31,
   <1>32, <1>33, <1>34, <1>35, <1>36, <1>37, <1>38, <1>39, <1>40 DEF IInv

\* The worker releases the fence it holds.
LEMMA ReleaseFenceKeeps ==
  ASSUME IInv, NEW g \in Gens, releaseFence(g)
  PROVE  IInv'
<1>1. /\ TypeOK /\ Generations /\ Setups /\ Unready /\ Workers /\ Places /\ Opened /\ Freshness
      /\ Progress /\ Replies /\ Locks /\ Captures /\ Cursor /\ Settled /\ Aborts /\ Opening
      /\ Modes /\ Finite /\ BoundaryIsHeard /\ NoRecognizerLeaks /\ FencesHeld
  BY DEF IInv
<1>2. Names
  BY <1>1, TypedNames
<1>3. worker[g].pc = "release" /\ worker[g].u \in Utterances
  BY <1>1, <1>2 DEF releaseFence, At, Workers, WorkerOK, Fencing, Speaking, Names, NWorker
<1>4. worker' = [worker EXCEPT ![g] = [worker[g] EXCEPT !.pc = "clear", !.fence = FALSE]]
  BY DEF releaseFence
<1>5. worker' \in [Gens -> JobType] /\ Job(g, "clear", worker[g].u, FALSE, worker[g].speech)
  <2> DEFINE r == [worker[g] EXCEPT !.pc = "clear", !.fence = FALSE]
  <2>0. worker \in [Gens -> JobType]
    BY <1>1 DEF TypeOK
  <2>1. worker' = [worker EXCEPT ![g] = r]
    BY <1>4
  <2>2. /\ r \in JobType /\ r.pc = "clear" /\ r.u = worker[g].u /\ r.fence = FALSE
        /\ r.speech = worker[g].speech
    BY <1>3, <2>0, TurnsAre DEF JobType, Steps
  <2> HIDE DEF r
  <2> QED BY <2>0, <2>1, <2>2 DEF Job
<1>6. /\ conv' \in ConvType /\ conv'.lock = conv.lock
      /\ conv'.fences = IF worker[g].fence THEN conv.fences - 1 ELSE conv.fences
  BY <1>1 DEF releaseFence, Released, TypeOK, ConvType
<1>7. /\ live' = live /\ setup' = setup /\ stop' = stop /\ lp' = lp /\ feed' = feed
      /\ recog' = recog /\ ctx' = ctx /\ out' = out /\ post' = post /\ marks' = marks
      /\ turn' = turn /\ budget' = budget
  BY DEF releaseFence
<1>20. TypeOK'
  BY <1>1, <1>3, <1>4, <1>5, <1>6, <1>7 DEF TypeOK
<1>21. Generations'
  BY <1>1, <1>3, <1>4, <1>5, <1>7 DEF Generations, Job
<1>22. Setups'
  BY <1>1, <1>3, <1>4, <1>5, <1>7 DEF Setups, Job
<1>23. Unready'
  BY <1>1, <1>3, <1>4, <1>5, <1>7 DEF Unready, Job
<1>24. Workers'
  BY <1>1, <1>3, <1>4, <1>5, <1>7 DEF Workers, WorkerOK, Fencing, Speaking, Job
<1>25. Places'
  BY <1>1, <1>3, <1>4, <1>5, <1>7 DEF Places, Q, Job
<1>26. Opened'
  BY <1>1, <1>3, <1>4, <1>5, <1>7 DEF Opened, Q, Job
<1>27. Freshness'
  BY <1>1, <1>3, <1>4, <1>5, <1>7 DEF Freshness, Fresh, InQ, Untouched, Unheard, Q, Early, Job
<1>28. Progress'
  BY <1>1, <1>3, <1>4, <1>5, <1>7 DEF Progress, Unheard, Unspoken, Before, Early, Job
<1>29. Replies'
  BY <1>1, <1>3, <1>4, <1>5, <1>7 DEF Replies, Replying, Before, Early, Speaking, Job
<1>30. Locks'
  <2>1. \A h \in Gens : /\ worker'[h].pc = IF h = g THEN "clear" ELSE worker[h].pc
                        /\ worker'[h].fence = IF h = g THEN FALSE ELSE worker[h].fence
    BY <1>5 DEF Job
  <2>2. conv.fences = 0 => conv'.fences = 0
    BY <1>6, NoFences
  <2>3. conv'.lock = conv.lock
    BY <1>6
  <2>4. \A h \in Gens : conv'.lock = h <=> worker'[h].pc \in Locking
    BY <1>1, <1>3, <2>1, <2>3 DEF Locks, Locking
  <2>5. \A h \in Gens : worker'[h].pc \in Writing => conv'.fences = 0
    BY <1>1, <2>1, <2>2 DEF Locks, Writing
  <2>6. /\ \A k, h \in Gens : worker'[k].pc = "fence" => ~worker'[h].fence
        /\ \A k, h \in Gens : worker'[k].fence /\ worker'[h].fence => k = h
    <3>1. \A h \in Gens : /\ worker'[h].fence => worker[h].fence
                          /\ worker'[h].pc = "fence" => worker[h].pc = "fence"
      BY <2>1
    <3> QED BY <1>1, <3>1 DEF Locks
  <2> QED BY <1>1, <2>2, <2>3, <2>4, <2>5, <2>6, <1>7 DEF Locks
<1>31. Captures'
  BY <1>1, <1>7 DEF Captures, CapturedOnce
<1>32. Cursor'
  BY <1>1, <1>3, <1>4, <1>5, <1>7 DEF Cursor, Job
<1>33. Settled'
  BY <1>1, <1>3, <1>4, <1>5, <1>7 DEF Settled, Done, Pend, Open, Job
<1>34. Aborts'
  BY <1>1, <1>3, <1>4, <1>5, <1>7 DEF Aborts, Job
<1>35. Opening'
  BY <1>1, <1>7 DEF Opening
<1>36. Modes'
  BY <1>1, <1>3, <1>4, <1>5, <1>7 DEF Modes, Job
<1>37. Finite'
  BY <1>1, <1>7 DEF Finite
<1>38. BoundaryIsHeard'
  BY <1>1, <1>7 DEF BoundaryIsHeard
<1>39. NoRecognizerLeaks'
  BY <1>1, <1>3, <1>4, <1>5, <1>7 DEF NoRecognizerLeaks, InHand, Members, At, Job
<1>40. FencesHeld'
  <2>1. Takers' = Takers
    BY <1>7 DEF Takers
  <2>2. CASE ~worker[g].fence
    <3>1. Holders' = Holders
      BY <1>5, <2>2 DEF Holders, Job
    <3> QED BY <1>1, <1>6, <2>1, <2>2, <3>1, <1>7, FencesKept
  <2>3. CASE worker[g].fence
    <3>1. Holders' = Holders \ {g} /\ g \in Holders
      BY <1>5, <2>3 DEF Holders, Job
    <3>2. Cardinality(Holders') = Cardinality(Holders) - 1
      BY <3>1, FiniteHolders, FS_RemoveElement
    <3>3. conv.fences = Cardinality(Holders) + Cardinality(marks)
                        + (IF feed.pc = "marking" THEN 1 ELSE 0) + Cardinality(Takers)
      BY <1>1, CountFences
    <3>4. conv'.fences = conv.fences - 1
      BY <1>6, <2>3
    <3>5. conv'.fences = Cardinality(Holders') + Cardinality(marks')
                         + (IF feed'.pc = "marking" THEN 1 ELSE 0) + Cardinality(Takers')
      <4> DEFINE m == IF feed.pc = "marking" THEN 1 ELSE 0
      <4>1. m \in Nat /\ conv.fences = Cardinality(Holders) + Cardinality(marks) + m + Cardinality(Takers)
        BY <3>3
      <4>2. (IF feed'.pc = "marking" THEN 1 ELSE 0) = m
        BY <1>7
      <4> HIDE DEF m
      <4> QED BY <2>1, <3>2, <3>4, <4>1, <4>2, <1>7, FiniteHolders
    <3> QED BY <3>5 DEF FencesHeld, Holders, Takers
  <2> QED BY <2>2, <2>3
<1> QED BY <1>20, <1>21, <1>22, <1>23, <1>24, <1>25, <1>26, <1>27, <1>28, <1>29, <1>30, <1>31,
   <1>32, <1>33, <1>34, <1>35, <1>36, <1>37, <1>38, <1>39, <1>40 DEF IInv

\* The worker has done its job.
LEMMA ClearKeeps ==
  ASSUME IInv, NEW g \in Gens, clearWorkerRecog(g)
  PROVE  IInv'
<1>1. /\ TypeOK /\ Generations /\ Setups /\ Unready /\ Workers /\ Places /\ Opened /\ Freshness
      /\ Progress /\ Replies /\ Locks /\ Captures /\ Cursor /\ Settled /\ Aborts /\ Opening
      /\ Modes /\ Finite /\ BoundaryIsHeard /\ NoRecognizerLeaks /\ FencesHeld
  BY DEF IInv
<1>2. Names
  BY <1>1, TypedNames
<1>3. worker[g].pc = "clear" /\ worker[g].u \in Utterances /\ worker[g].fence = FALSE
  BY <1>1, <1>2 DEF clearWorkerRecog, At, Workers, WorkerOK, Fencing, Speaking, Names, NWorker
<1>4. worker' = [worker EXCEPT ![g] = [worker[g] EXCEPT !.pc = "idle", !.u = 0]]
  BY DEF clearWorkerRecog
<1>5. worker' \in [Gens -> JobType] /\ Job(g, "idle", 0, FALSE, worker[g].speech)
  <2> DEFINE r == [worker[g] EXCEPT !.pc = "idle", !.u = 0]
  <2>0. worker \in [Gens -> JobType]
    BY <1>1 DEF TypeOK
  <2>1. worker' = [worker EXCEPT ![g] = r]
    BY <1>4
  <2>2. /\ r \in JobType /\ r.pc = "idle" /\ r.u = 0 /\ r.fence = FALSE
        /\ r.speech = worker[g].speech
    BY <1>3, <2>0, TurnsAre DEF JobType, Steps
  <2> HIDE DEF r
  <2> QED BY <2>0, <2>1, <2>2 DEF Job
<1>6. live' \in LiveType /\ SameMode /\ Talk(live.turnRecog, IF live.workerRecog = worker[g].u THEN 0 ELSE live.workerRecog,
                live.reply, live.replyTurn)
  BY <1>1, TurnsAre DEF clearWorkerRecog, Deregistered, TypeOK, LiveType, SameMode, Mode, Talk
<1>7. /\ ctx' \in CtxType /\ ctx'.cancelled = ctx.cancelled \ {worker[g].u}
      /\ ctx'.cut = ctx.cut \ {worker[g].u} /\ ctx'.speech \in {0, ctx.speech}
      /\ ctx.speech = worker[g].u => ctx'.speech = 0
  BY <1>1, VoiceAssumption DEF clearWorkerRecog, Forgotten, TypeOK, CtxType, Turns
<1>8. /\ setup' = setup /\ stop' = stop /\ lp' = lp /\ feed' = feed /\ recog' = recog
      /\ out' = out /\ conv' = conv /\ post' = post /\ marks' = marks /\ turn' = turn
      /\ budget' = budget
  BY DEF clearWorkerRecog
<1>20. TypeOK'
  BY <1>1, <1>3, <1>4, <1>5, <1>6, <1>7, <1>8 DEF TypeOK
<1>21. Generations'
  BY <1>1, <1>3, <1>4, <1>5, <1>6, <1>8 DEF Generations, Job, SameMode, Mode, Talk
<1>22. Setups'
  BY <1>1, <1>3, <1>4, <1>5, <1>6, <1>8 DEF Setups, Job, SameMode, Mode, Talk
<1>23. Unready'
  BY <1>1, <1>3, <1>4, <1>5, <1>6, <1>8 DEF Unready, Job, SameMode, Mode, Talk
<1>24. Workers'
  BY <1>1, <1>3, <1>4, <1>5, <1>8 DEF Workers, WorkerOK, Fencing, Speaking, Job
<1>25. Places'
  BY <1>1, <1>2, <1>3, <1>4, <1>5, <1>6, <1>8 DEF Places, Q, Job, SameMode, Mode, Talk, Names,
     NConst, NLive, NWorker, NQueue
<1>26. Opened'
  BY <1>1, <1>3, <1>4, <1>5, <1>6, <1>8 DEF Opened, Q, Job, SameMode, Mode, Talk
<1>27. Freshness'
  BY <1>1, <1>2, <1>3, <1>4, <1>5, <1>6, <1>7, <1>8 DEF Freshness, Fresh, InQ, Untouched,
     Unheard, Q, Early, Job, SameMode, Mode, Talk, Names, NConst, NLive, NWorker, NQueue, NStop,
     NOut, NCtx, NTurn
<1>28. Progress'
  BY <1>1, Busy, <1>3, <1>4, <1>5, <1>7, <1>8 DEF Progress, Unheard, Unspoken, Before, Early,
     Job, Some
<1>29. Replies'
  BY <1>1, <1>3, <1>4, <1>5, <1>6, <1>7, <1>8 DEF Replies, Replying, Before, Early, Speaking,
     Job, SameMode, Mode, Talk
<1>30. Locks'
  BY <1>1, <1>3, <1>4, <1>5, <1>8 DEF Locks, Locking, Writing, Job
<1>31. Captures'
  BY <1>1, <1>8 DEF Captures, CapturedOnce
<1>32. Cursor'
  BY <1>1, <1>3, <1>4, <1>5, <1>8 DEF Cursor, Job
<1>33. Settled'
  BY <1>1, <1>3, <1>4, <1>5, <1>6, <1>7, <1>8 DEF Settled, Done, Pend, Open, Job, SameMode, Mode,
     Talk
<1>34. Aborts'
  <2>1. SUFFICES ASSUME NEW h \in Gens, worker'[h].pc = "finalize", recog'[worker'[h].u] = "open"
                 PROVE  \/ live'.lp = h /\ live'.workerRecog = worker'[h].u
                        \/ \E x \in Stoppers : stop'[x].pc = "teardown" /\ worker'[h].u \in stop'[x].recogs
    BY DEF Aborts
  <2>2. h # g /\ worker[h].pc = "finalize" /\ worker'[h].u = worker[h].u
    BY <1>5, <2>1 DEF Job
  <2>3. worker[h].u # worker[g].u
    BY <1>1, <1>2, <1>3, <2>2 DEF Places, Names, NConst
  <2>4. live'.lp = live.lp /\ (live.workerRecog # worker[g].u => live'.workerRecog = live.workerRecog)
    BY <1>6 DEF SameMode, Mode, Talk
  <2> QED BY <1>1, <2>1, <2>2, <2>3, <2>4, <1>8 DEF Aborts
<1>35. Opening'
  BY <1>1, <1>3, <1>6, <1>8 DEF Opening, SameMode, Mode, Talk
<1>36. Modes'
  BY <1>1, <1>3, <1>4, <1>5, <1>6, <1>8 DEF Modes, Job, SameMode, Mode, Talk
<1>37. Finite'
  BY <1>1, <1>8 DEF Finite
<1>38. BoundaryIsHeard'
  BY <1>1, <1>8 DEF BoundaryIsHeard
<1>39. NoRecognizerLeaks'
  BY <1>1, <1>3, <1>4, <1>5, <1>6, <1>8 DEF NoRecognizerLeaks, InHand, Members, At, Job,
     SameMode, Mode, Talk
<1>40. FencesHeld'
  BY <1>1, <1>2, <1>3, <1>4, <1>5, <1>6, <1>7, <1>8 DEF FencesHeld, Job, SameMode, Mode, Talk,
     Names, NConst
<1> QED BY <1>20, <1>21, <1>22, <1>23, <1>24, <1>25, <1>26, <1>27, <1>28, <1>29, <1>30, <1>31,
   <1>32, <1>33, <1>34, <1>35, <1>36, <1>37, <1>38, <1>39, <1>40 DEF IInv

-----------------------------------------------------------------------------
(* The playback and the text messages.                                       *)

\* A frame is sent.
LEMMA PaceKeeps ==
  ASSUME IInv, pace
  PROVE  IInv'
<1>1. /\ TypeOK /\ Generations /\ Setups /\ Unready /\ Workers /\ Places /\ Opened /\ Freshness
      /\ Progress /\ Replies /\ Locks /\ Captures /\ Cursor /\ Settled /\ Aborts /\ Opening
      /\ Modes /\ Finite /\ BoundaryIsHeard /\ NoRecognizerLeaks /\ FencesHeld
  BY DEF IInv
<1>2. Names
  BY <1>1, TypedNames
<1>3. out.running /\ out.left > 0 /\ out.of # 0
  BY <1>1 DEF pace, Cursor
<1>4. /\ out' \in OutType /\ out'.of = out.of /\ out'.running = out.running /\ out'.played = out.played
  <2>1. out \in OutType /\ out.left - 1 \in Nat /\ out.sent + 1 \in Nat
    BY <1>1, <1>3 DEF TypeOK, OutType
  <2> QED BY <2>1 DEF pace, OutType
<1>5. budget' \in BudgetType /\ budget'["stop"] = budget["stop"]
  BY <1>1, Spent DEF TypeOK, pace
<1>6. /\ live' = live /\ setup' = setup /\ stop' = stop /\ lp' = lp /\ feed' = feed
      /\ worker' = worker /\ recog' = recog /\ ctx' = ctx /\ conv' = conv /\ post' = post
      /\ marks' = marks /\ turn' = turn
  BY DEF pace
<1>20. TypeOK'
  BY <1>1, <1>3, <1>4, <1>5, <1>6 DEF TypeOK
<1>21. Generations'
  BY <1>1, <1>3, <1>5, <1>6 DEF Generations
<1>22. Setups'
  BY <1>1, <1>6 DEF Setups
<1>23. Unready'
  BY <1>1, <1>6 DEF Unready
<1>24. Workers'
  BY <1>1, <1>6 DEF Workers, WorkerOK, Fencing, Speaking
<1>25. Places'
  BY <1>1, <1>6 DEF Places, Q
<1>26. Opened'
  BY <1>1, <1>6 DEF Opened, Q
<1>27. Freshness'
  BY <1>1, <1>3, <1>4, <1>6 DEF Freshness, Fresh, InQ, Untouched, Unheard, Q, Early
<1>28. Progress'
  BY <1>1, <1>3, <1>4, <1>6 DEF Progress, Unheard, Unspoken, Before, Early
<1>29. Replies'
  BY <1>1, <1>3, <1>4, <1>6 DEF Replies, Replying, Before, Early, Speaking
<1>30. Locks'
  BY <1>1, <1>6 DEF Locks, Locking, Writing
<1>31. Captures'
  BY <1>1, <1>6 DEF Captures, CapturedOnce
<1>32. Cursor'
  BY <1>1, <1>3, <1>4, <1>6 DEF Cursor
<1>33. Settled'
  BY <1>1, <1>3, <1>4, <1>6 DEF Settled, Done, Pend, Open
<1>34. Aborts'
  BY <1>1, <1>6 DEF Aborts
<1>35. Opening'
  BY <1>1, <1>6 DEF Opening
<1>36. Modes'
  BY <1>1, <1>6 DEF Modes
<1>37. Finite'
  BY <1>1, <1>6 DEF Finite
<1>38. BoundaryIsHeard'
  BY <1>1, <1>6 DEF BoundaryIsHeard
<1>39. NoRecognizerLeaks'
  BY <1>1, <1>6 DEF NoRecognizerLeaks, InHand, Members, At
<1>40. FencesHeld'
  BY <1>1, <1>6, FencesKept DEF Holders, Takers
<1> QED BY <1>20, <1>21, <1>22, <1>23, <1>24, <1>25, <1>26, <1>27, <1>28, <1>29, <1>30, <1>31,
   <1>32, <1>33, <1>34, <1>35, <1>36, <1>37, <1>38, <1>39, <1>40 DEF IInv

\* The browser reports what it has played.
LEMMA RecordCursorKeeps ==
  ASSUME IInv, recordCursor
  PROVE  IInv'
<1>1. /\ TypeOK /\ Generations /\ Setups /\ Unready /\ Workers /\ Places /\ Opened /\ Freshness
      /\ Progress /\ Replies /\ Locks /\ Captures /\ Cursor /\ Settled /\ Aborts /\ Opening
      /\ Modes /\ Finite /\ BoundaryIsHeard /\ NoRecognizerLeaks /\ FencesHeld
  BY DEF IInv
<1>2. Names
  BY <1>1, TypedNames
<1>3. out.played < out.sent /\ out.of \in Utterances
  BY <1>1, <1>2 DEF recordCursor, Cursor, Names, NOut
<1>4. /\ out' \in OutType /\ out'.of = out.of /\ out'.running = out.running /\ out'.played = out.sent
      /\ out'.left = out.left /\ out'.sent = out.sent
  BY <1>1 DEF recordCursor, TypeOK, OutType
<1>5. /\ turn' \in [Utterances -> TurnType]
      /\ Others(out.of) /\ Whole0 /\ Capt0 /\ Told0
      /\ \A v \in Utterances : turn[v].heard <= turn'[v].heard
      /\ turn'[out.of].heard = out.sent
  <2> DEFINE u == out.of
             r1 == [turn[u] EXCEPT !.heard = out.sent]
  <2>1. turn \in [Utterances -> TurnType] /\ u \in Utterances /\ out.sent \in Nat /\ out.played \in Nat
    BY <1>1, <1>2, <1>3 DEF TypeOK, Names, NOut
  <2>2. turn' = [turn EXCEPT ![u] = r1] /\ out.played < out.sent
    BY DEF recordCursor
  <2>3. turn[u].heard = out.played
    BY <1>1, <1>2, <2>1 DEF Cursor, Names, NConst
  <2>4. /\ r1 \in TurnType /\ r1.reply = turn[u].reply /\ r1.at = turn[u].at
        /\ r1.unmarked = turn[u].unmarked /\ r1.whole = turn[u].whole
        /\ r1.captured = turn[u].captured /\ r1.heard = out.sent
    BY <2>1 DEF TurnType
  <2>5. \A v \in Utterances : turn[v].heard \in Nat
    BY <2>1 DEF TurnType
  <2> HIDE DEF r1, u
  <2>6. turn' \in [Utterances -> TurnType] /\ Others(u) /\ Whole0 /\ Capt0 /\ Told0
    BY <2>1, <2>2, <2>4 DEF Others, Whole0, Capt0, Told0
  <2>7. turn'[u].heard = out.sent /\ turn[u].heard <= turn'[u].heard
    BY <2>1, <2>2, <2>3, <2>4
  <2>8. \A v \in Utterances : turn[v].heard <= turn'[v].heard
    BY <2>5, <2>6, <2>7 DEF Others
  <2> QED BY <2>6, <2>7, <2>8 DEF u
<1>6. /\ live' = live /\ setup' = setup /\ stop' = stop /\ lp' = lp /\ feed' = feed
      /\ worker' = worker /\ recog' = recog /\ ctx' = ctx /\ conv' = conv /\ post' = post
      /\ marks' = marks /\ budget' = budget
  BY DEF recordCursor
<1>20. TypeOK'
  BY <1>1, <1>3, <1>4, <1>5, <1>6 DEF TypeOK
<1>21. Generations'
  BY <1>1, <1>6 DEF Generations
<1>22. Setups'
  BY <1>1, <1>6 DEF Setups
<1>23. Unready'
  BY <1>1, <1>6 DEF Unready
<1>24. Workers'
  BY <1>1, <1>6 DEF Workers, WorkerOK, Fencing, Speaking
<1>25. Places'
  BY <1>1, <1>6 DEF Places, Q
<1>26. Opened'
  BY <1>1, <1>6 DEF Opened, Q
<1>27. Freshness'
  BY <1>1, <1>3, <1>4, <1>5, <1>6 DEF Freshness, Fresh, InQ, Untouched, Unheard, Q, Early,
     Others, Whole0, Capt0, Told0
<1>28. Progress'
  BY <1>1, Busy, <1>3, <1>4, <1>5, <1>6 DEF Progress, Unheard, Unspoken, Before, Early, Others,
     Whole0, Capt0, Told0, Some
<1>29. Replies'
  BY <1>1, <1>2, <1>3, <1>4, <1>5, <1>6 DEF Replies, Replying, Before, Early, Speaking, Others,
     Whole0, Capt0, Told0, Names, NConst, NLive, NWorker, NStop, NOut, NCtx, NTurn
<1>30. Locks'
  BY <1>1, <1>6 DEF Locks, Locking, Writing
<1>31. Captures'
  <2>1. ASSUME NEW v \in Utterances, NEW n \in Nat, n <= turn[v].heard
        PROVE  n <= turn'[v].heard
    <3>1. turn[v].heard <= turn'[v].heard /\ turn[v].heard \in Nat /\ turn'[v].heard \in Nat
      BY <1>2, <1>5 DEF Names, NTurn, TurnType
    <3> QED BY <2>1, <3>1
  <2>2. \A v \in Utterances : turn'[v].captured = turn[v].captured
    BY <1>5 DEF Capt0
  <2>3. /\ \A t \in Stoppers : stop[t].turn # 0 =>
             turn'[stop[t].turn].captured = 1 /\ stop[t].at <= turn'[stop[t].turn].heard
        /\ \A m \in marks : turn'[m.turn].captured = 1 /\ m.at <= turn'[m.turn].heard
        /\ feed.pc = "marking" =>
             turn'[feed.turn].captured = 1 /\ feed.at <= turn'[feed.turn].heard
    BY <1>1, <1>2, <2>1, <2>2 DEF Captures, Names, NStop, NFeed, NRest
  <2>4. CapturedOnce'
    BY <1>1, <2>2 DEF Captures, CapturedOnce
  <2> QED BY <1>1, <2>3, <2>4, <1>6 DEF Captures
<1>32. Cursor'
  BY <1>1, <1>3, <1>4, <1>5, <1>6 DEF Cursor, Others, Whole0, Capt0, Told0
<1>33. Settled'
  BY <1>1, <1>3, <1>4, <1>5, <1>6 DEF Settled, Done, Pend, Open, Others, Whole0, Capt0, Told0
<1>34. Aborts'
  BY <1>1, <1>6 DEF Aborts
<1>35. Opening'
  BY <1>1, <1>6 DEF Opening
<1>36. Modes'
  BY <1>1, <1>6 DEF Modes
<1>37. Finite'
  BY <1>1, <1>6 DEF Finite
<1>38. BoundaryIsHeard'
  <2>1. \A v \in Utterances : /\ turn'[v].at = turn[v].at /\ turn[v].at <= turn[v].heard
                              /\ turn[v].heard <= turn'[v].heard
                              /\ turn[v].at \in Nat /\ turn[v].heard \in Nat /\ turn'[v].heard \in Nat
    BY <1>1, <1>2, <1>5 DEF BoundaryIsHeard, Told0, Names, NTurn, TurnType
  <2>2. \A v \in Utterances : turn'[v].at <= turn'[v].heard
    BY <2>1
  <2> QED BY <2>2 DEF BoundaryIsHeard
<1>39. NoRecognizerLeaks'
  BY <1>1, <1>6 DEF NoRecognizerLeaks, InHand, Members, At
<1>40. FencesHeld'
  BY <1>1, <1>6, FencesKept DEF Holders, Takers
<1> QED BY <1>20, <1>21, <1>22, <1>23, <1>24, <1>25, <1>26, <1>27, <1>28, <1>29, <1>30, <1>31,
   <1>32, <1>33, <1>34, <1>35, <1>36, <1>37, <1>38, <1>39, <1>40 DEF IInv

\* A text message moves: the lock it has, the fence it waits for.
LEMMA TextsKeeps ==
  ASSUME IInv, conv' \in ConvType, conv'.fences = conv.fences,
         post' \in {"idle", "await", "context", "generate"},
         IF post' = "idle" THEN post # "idle" /\ conv'.lock = 0 ELSE conv'.lock = Text,
         post # "idle" \/ conv.lock = 0, post' \in {"context", "generate"} => conv.fences = 0,
         budget' \in BudgetType, budget'["stop"] = budget["stop"], UNCHANGED Rest
  PROVE  IInv'
<1>1. /\ TypeOK /\ Generations /\ Setups /\ Unready /\ Workers /\ Places /\ Opened /\ Freshness
      /\ Progress /\ Replies /\ Locks /\ Captures /\ Cursor /\ Settled /\ Aborts /\ Opening
      /\ Modes /\ Finite /\ BoundaryIsHeard /\ NoRecognizerLeaks /\ FencesHeld
  BY DEF IInv
<1>2. Names
  BY <1>1, TypedNames
<1>3. /\ live' = live /\ setup' = setup /\ stop' = stop /\ lp' = lp /\ feed' = feed
      /\ worker' = worker /\ recog' = recog /\ ctx' = ctx /\ out' = out /\ marks' = marks
      /\ turn' = turn
  BY DEF Rest
<1>20. TypeOK'
  BY <1>1, <1>3 DEF TypeOK
<1>21. Generations'
  BY <1>1, <1>3 DEF Generations
<1>22. Setups'
  BY <1>1, <1>3 DEF Setups
<1>23. Unready'
  BY <1>1, <1>3 DEF Unready
<1>24. Workers'
  BY <1>1, <1>3 DEF Workers, WorkerOK, Fencing, Speaking
<1>25. Places'
  BY <1>1, <1>3 DEF Places, Q
<1>26. Opened'
  BY <1>1, <1>3 DEF Opened, Q
<1>27. Freshness'
  BY <1>1, <1>3 DEF Freshness, Fresh, InQ, Untouched, Unheard, Q, Early
<1>28. Progress'
  BY <1>1, <1>3 DEF Progress, Unheard, Unspoken, Before, Early
<1>29. Replies'
  BY <1>1, <1>3 DEF Replies, Replying, Before, Early, Speaking
<1>30. Locks'
  BY <1>1, <1>2, <1>3 DEF Locks, Locking, Writing, Names, NConst, NWorker, NConv
<1>31. Captures'
  BY <1>1, <1>3 DEF Captures, CapturedOnce
<1>32. Cursor'
  BY <1>1, <1>3 DEF Cursor
<1>33. Settled'
  BY <1>1, <1>3 DEF Settled, Done, Pend, Open
<1>34. Aborts'
  BY <1>1, <1>3 DEF Aborts
<1>35. Opening'
  BY <1>1, <1>3 DEF Opening
<1>36. Modes'
  BY <1>1, <1>3 DEF Modes
<1>37. Finite'
  BY <1>1, <1>3 DEF Finite
<1>38. BoundaryIsHeard'
  BY <1>1, <1>3 DEF BoundaryIsHeard
<1>39. NoRecognizerLeaks'
  BY <1>1, <1>3 DEF NoRecognizerLeaks, InHand, Members, At
<1>40. FencesHeld'
  <2>1. Holders' = Holders
    BY <1>3 DEF Holders
  <2>2. Takers' = Takers
    BY <1>3 DEF Takers
  <2> QED BY <1>1, <2>1, <2>2, <1>3, FencesKept
<1> QED BY <1>20, <1>21, <1>22, <1>23, <1>24, <1>25, <1>26, <1>27, <1>28, <1>29, <1>30, <1>31,
   <1>32, <1>33, <1>34, <1>35, <1>36, <1>37, <1>38, <1>39, <1>40 DEF IInv

\* A step that changes nothing.
LEMMA SameKeeps ==
  ASSUME IInv, UNCHANGED vars
  PROVE  IInv'
<1>1. /\ TypeOK /\ Generations /\ Setups /\ Unready /\ Workers /\ Places /\ Opened /\ Freshness
      /\ Progress /\ Replies /\ Locks /\ Captures /\ Cursor /\ Settled /\ Aborts /\ Opening
      /\ Modes /\ Finite /\ BoundaryIsHeard /\ NoRecognizerLeaks /\ FencesHeld
  BY DEF IInv
<1>2. Names
  BY <1>1, TypedNames
<1>3. /\ live' = live /\ setup' = setup /\ stop' = stop /\ lp' = lp /\ feed' = feed
      /\ worker' = worker /\ recog' = recog /\ ctx' = ctx /\ out' = out /\ conv' = conv
      /\ post' = post /\ marks' = marks /\ turn' = turn /\ budget' = budget
  BY DEF vars
<1>20. TypeOK'
  BY <1>1, <1>3 DEF TypeOK
<1>21. Generations'
  BY <1>1, <1>3 DEF Generations
<1>22. Setups'
  BY <1>1, <1>3 DEF Setups
<1>23. Unready'
  BY <1>1, <1>3 DEF Unready
<1>24. Workers'
  BY <1>1, <1>3 DEF Workers, WorkerOK, Fencing, Speaking
<1>25. Places'
  BY <1>1, <1>3 DEF Places, Q
<1>26. Opened'
  BY <1>1, <1>3 DEF Opened, Q
<1>27. Freshness'
  BY <1>1, <1>3 DEF Freshness, Fresh, InQ, Untouched, Unheard, Q, Early
<1>28. Progress'
  BY <1>1, <1>3 DEF Progress, Unheard, Unspoken, Before, Early
<1>29. Replies'
  BY <1>1, <1>3 DEF Replies, Replying, Before, Early, Speaking
<1>30. Locks'
  BY <1>1, <1>3 DEF Locks, Locking, Writing
<1>31. Captures'
  BY <1>1, <1>3 DEF Captures, CapturedOnce
<1>32. Cursor'
  BY <1>1, <1>3 DEF Cursor
<1>33. Settled'
  BY <1>1, <1>3 DEF Settled, Done, Pend, Open
<1>34. Aborts'
  BY <1>1, <1>3 DEF Aborts
<1>35. Opening'
  BY <1>1, <1>3 DEF Opening
<1>36. Modes'
  BY <1>1, <1>3 DEF Modes
<1>37. Finite'
  BY <1>1, <1>3 DEF Finite
<1>38. BoundaryIsHeard'
  BY <1>1, <1>3 DEF BoundaryIsHeard
<1>39. NoRecognizerLeaks'
  BY <1>1, <1>3 DEF NoRecognizerLeaks, InHand, Members, At
<1>40. FencesHeld'
  BY <1>1, <1>3, FencesKept DEF Holders, Takers
<1> QED BY <1>20, <1>21, <1>22, <1>23, <1>24, <1>25, <1>26, <1>27, <1>28, <1>29, <1>30, <1>31,
   <1>32, <1>33, <1>34, <1>35, <1>36, <1>37, <1>38, <1>39, <1>40 DEF IInv

-----------------------------------------------------------------------------
(* The steps of the specification.                                           *)

\* It holds to begin with.
LEMMA InitHolds == Init => IInv
<1> SUFFICES ASSUME Init PROVE IInv
  OBVIOUS
<1>1. /\ live.lp = 0 /\ live.gen = 1 /\ ~live.starting /\ ~live.ready /\ live.turnRecog = 0
      /\ live.workerRecog = 0 /\ live.reply = 0 /\ live.replyTurn = 0
  BY DEF Init, NotLive
<1>2. \A t \in Stoppers : /\ stop[t].pc = "idle" /\ stop[t].reply = 0 /\ stop[t].turn = 0
                          /\ stop[t].at = 0 /\ stop[t].recogs = {} /\ stop[t].lp = 0
  BY DEF Init, NotStopping
<1>3. \A g \in Gens : /\ worker[g].pc = "none" /\ worker[g].u = 0 /\ worker[g].fence = FALSE
                      /\ lp[g].queue = <<>> /\ ~lp[g].done
  BY DEF Init, NoJob, FreshPipe
<1>4. /\ feed.pc = "idle" /\ feed.evs = <<>> /\ setup = {} /\ marks = {} /\ post = "idle"
      /\ conv.lock = 0 /\ conv.fences = 0 /\ out.of = 0 /\ out.left = 0 /\ out.sent = 0
      /\ out.played = 0 /\ ctx.cancelled = {} /\ ctx.cut = {} /\ ctx.speech = 0
      /\ budget["stop"] = MaxStops
  BY DEF Init, NoEvents, Silent
<1>5. \A u \in Utterances : turn[u] = Unsaid /\ recog[u] = "none"
  BY DEF Init
<1>6. TypeOK
  <2>1. 0 \in 0..(MaxStops + 1) /\ 1 \in 1..(MaxStops + 2) /\ <<>> \in Seq(Utterances)
        /\ <<>> \in Seq({"Open", "BargeIn", "Commit", "Cancel"}) /\ Len(<<>>) = 0
    BY VoiceAssumption
  <2>2. live \in LiveType
    BY <2>1, TurnsAre DEF Init, NotLive, LiveType
  <2>3. stop \in [Stoppers -> StopType]
    BY <2>1, TurnsAre DEF Init, NotStopping, StopType
  <2>4. lp \in [Gens -> PipeType] /\ \A g \in Gens : Len(lp[g].queue) <= QueueCap
    BY <2>1, VoiceAssumption DEF Init, FreshPipe, PipeType
  <2>5. feed \in FeedType /\ worker \in [Gens -> JobType]
    BY <2>1, TurnsAre DEF Init, NoEvents, FeedType, NoJob, JobType, Steps
  <2>6. ctx \in CtxType /\ out \in OutType /\ conv \in ConvType
    BY TurnsAre DEF Init, CtxType, Silent, OutType, ConvType
  <2>7. turn \in [Utterances -> TurnType] /\ budget \in BudgetType
    BY VoiceAssumption DEF Init, Unsaid, TurnType, BudgetType
  <2>8. /\ setup \subseteq SetupType /\ marks \subseteq [turn : Utterances, at : Nat]
        /\ recog \in [Utterances -> {"none", "open", "closed"}]
    BY DEF Init
  <2> QED BY <1>4, <2>2, <2>3, <2>4, <2>5, <2>6, <2>7, <2>8 DEF TypeOK
<1>7. Names
  BY <1>6, TypedNames
<1>8. NConst /\ NStop /\ \A t \in Stoppers : stop[t].pc = "idle"
  BY <1>2, <1>7 DEF Names
<1>9. Generations
  BY <1>1, <1>2, <1>3, <1>4, <1>8, VoiceAssumption DEF Generations, NStop
<1>10. Setups /\ Opening /\ Modes /\ Finite
  BY <1>1, <1>2, <1>4, FS_EmptySet DEF Setups, Opening, Modes, Finite
<1>11. Unready /\ Workers
  BY <1>1, <1>3, <1>4 DEF Unready, Workers, WorkerOK, Speaking
<1>12. Places /\ Opened
  <2>1. \A i : i \notin 1..Len(<<>>)
    OBVIOUS
  <2> QED BY <1>1, <1>3, <2>1 DEF Places, Opened, Q
<1>13. Freshness
  BY <1>2, <1>4, <1>5, <1>8 DEF Freshness, Untouched, Unheard, Unsaid, NConst
<1>14. Progress /\ Aborts
  BY <1>3 DEF Progress, Aborts, Unspoken, Before, Early
<1>15. Replies
  BY <1>1 DEF Replies
<1>16. Locks
  BY <1>3, <1>4, <1>8 DEF Locks, Locking, Writing, NConst
<1>17. Captures
  BY <1>2, <1>4, <1>5 DEF Captures, CapturedOnce, Unsaid
<1>18. Cursor
  BY <1>3, <1>4 DEF Cursor
<1>19. Settled /\ BoundaryIsHeard
  BY <1>5 DEF Settled, Done, BoundaryIsHeard, Unsaid
<1>20. NoRecognizerLeaks
  BY <1>5 DEF NoRecognizerLeaks
<1>21. FencesHeld
  <2>1. Holders = {} /\ Takers = {}
    BY <1>2, <1>3 DEF Holders, Takers
  <2> QED BY <1>4, <2>1, CountFences, FS_EmptySet
<1> QED BY <1>6, <1>9, <1>10, <1>11, <1>12, <1>13, <1>14, <1>15, <1>16, <1>17, <1>18, <1>19,
           <1>20, <1>21 DEF IInv

\* Entering live mode keeps it.
LEMMA finishLiveHolds == ASSUME IInv, finishLive PROVE IInv'
<1>1. PICK s \in setup : failLiveStart(s) \/ install(s) \/ cleanup(s) \/ goReady(s)
  BY DEF finishLive
<1>2. CASE failLiveStart(s)
  BY <1>2, FailLiveStartKeeps
<1>3. CASE install(s) /\ Superseded(s)
  <2>1. /\ setup' = setup \ {s}
        /\ UNCHANGED <<live, stop, lp, feed, worker, recog, ctx, out, conv, post, marks, turn, budget>>
    BY <1>3 DEF install
  <2> QED BY <2>1, SupersededKeeps
<1>4. CASE install(s) /\ ~Superseded(s)
  BY <1>4, InstallKeeps
<1>5. CASE cleanup(s)
  BY <1>5, CleanupKeeps
<1>6. CASE goReady(s)
  BY <1>6, GoReadyKeeps
<1> QED BY <1>1, <1>2, <1>3, <1>4, <1>5, <1>6

\* Every event of a chunk keeps it.
LEMMA handleLiveEventHolds == ASSUME IInv, handleLiveEvent PROVE IInv'
<1>1. CASE commitTurn
  <2>1. CASE live.turnRecog # 0 /\ Room(feed.lp)
    BY <1>1, <2>1, QueueTurnKeeps
  <2>2. CASE ~(live.turnRecog # 0 /\ Room(feed.lp))
    <3>1. Drops
      BY <1>1, <2>2 DEF commitTurn, Handling, Owns, Drops
    <3> QED BY <3>1, DropTurnKeeps
  <2> QED BY <2>1, <2>2
<1>2. CASE cancelTurn
  <2>1. Drops
    BY <1>2 DEF cancelTurn, Handling, Owns, Drops
  <2> QED BY <2>1, DropTurnKeeps
<1> QED BY <1>1, <1>2, DropStaleKeeps, OpenTurnKeeps, InstallRecogKeeps, BargeInKeeps,
           MarkBargedKeeps DEF handleLiveEvent

\* Marking a stopped reply keeps it.
LEMMA markStoppedHolds == ASSUME IInv, markStopped PROVE IInv'
  BY MarkStoppedKeeps DEF markStopped

\* Every way of stopping keeps it.
LEMMA StoppingHolds == ASSUME IInv, NEW t \in Stoppers, Stopping(t) PROVE IInv'
  BY StopLiveKeeps, TeardownKeeps, CancelSessionKeeps DEF Stopping

\* The ways of a worker to a reply, and without one.
LEMMA ReplyStarts ==
  ASSUME IInv, NEW g \in Gens,
         \/ dequeue(g) \/ drain(g) \/ finalize(g) \/ beginReplyOwned(g) \/ replyContext(g)
         \/ waitBeginTurn(g) \/ awaitInterrupts(g) \/ BuildContext(g)
  PROVE  IInv'
<1>1. CASE dequeue(g) /\ Owns(g)
  BY <1>1, DequeueKeeps
<1>2. CASE dequeue(g) /\ ~Owns(g)
  <2>1. Drains(g)
    BY <1>2 DEF dequeue, Owns, At, Drains
  <2> QED BY <2>1, DrainKeeps
<1>3. CASE drain(g)
  <2>1. Drains(g)
    BY <1>3 DEF drain, At, Drains
  <2> QED BY <2>1, DrainKeeps
<1>4. CASE finalize(g)
  BY <1>4, FinalizeKeeps
<1>5. CASE beginReplyOwned(g) /\ Owns(g)
  BY <1>5, BeginReplyKeeps
<1>6. CASE beginReplyOwned(g) /\ ~Owns(g)
  <2>1. Passes(g, "clear")
    BY <1>6 DEF beginReplyOwned, At, Passes, Paths
  <2> QED BY <2>1, GoesKeeps
<1>7. CASE replyContext(g)
  <2>1. Passes(g, "claim") \/ Passes(g, "end")
    BY <1>7 DEF replyContext, At, Passes, Paths
  <2> QED BY <2>1, GoesKeeps
<1>8. CASE waitBeginTurn(g)
  <2>1. CASE conv' = Claimed(g) /\ worker' = Goto(g, "await") /\ conv.lock = 0 /\ worker[g].pc \in {"claim", "wait"}
    <3>1. UNCHANGED <<live, setup, stop, lp, feed, recog, ctx, out, post, marks, turn, budget>>
      BY <1>8 DEF waitBeginTurn
    <3> QED BY <2>1, <3>1, TakesLockKeeps
  <2>2. CASE worker[g].pc = "claim" /\ worker' = Goto(g, "wait") /\ UNCHANGED conv
    <3>1. Passes(g, "wait")
      BY <1>8, <2>2 DEF waitBeginTurn, Passes, Paths
    <3> QED BY <3>1, GoesKeeps
  <2>3. CASE worker[g].pc = "wait" /\ worker' = Goto(g, "end") /\ UNCHANGED conv
    <3>1. Passes(g, "end")
      BY <1>8, <2>3 DEF waitBeginTurn, Passes, Paths
    <3> QED BY <3>1, GoesKeeps
  <2> QED BY <1>8, <2>1, <2>2, <2>3 DEF waitBeginTurn, At
<1>9. CASE awaitInterrupts(g)
  <2>1. CASE worker' = Goto(g, "context") /\ conv.fences = 0 /\ UNCHANGED conv
    <3>1. worker[g].pc = "await"
          /\ UNCHANGED <<live, setup, stop, lp, feed, recog, ctx, out, conv, post, marks, turn, budget>>
      BY <1>9, <2>1 DEF awaitInterrupts, At
    <3> QED BY <2>1, <3>1, ClearsKeeps
  <2>2. CASE worker' = Goto(g, "end") /\ conv' = Unlocked
    <3>1. /\ worker[g].pc \in {"await", "context"} /\ budget' = budget
          /\ UNCHANGED <<live, setup, stop, lp, feed, recog, ctx, out, post, marks, turn>>
      BY <1>9 DEF awaitInterrupts, At
    <3> QED BY <2>2, <3>1, GivesUpKeeps
  <2> QED BY <1>9, <2>1, <2>2 DEF awaitInterrupts, FenceClear
<1>10. CASE BuildContext(g)
  <2>1. CASE worker' = Goto(g, "generate") /\ UNCHANGED <<conv, budget>>
    <3>1. Passes(g, "generate")
      BY <1>10, <2>1 DEF BuildContext, At, Passes, Paths
    <3> QED BY <3>1, GoesKeeps
  <2>2. CASE Spend("fault") /\ worker' = Goto(g, "end") /\ conv' = Unlocked
    <3>1. /\ worker[g].pc \in {"await", "context"}
          /\ UNCHANGED <<live, setup, stop, lp, feed, recog, ctx, out, post, marks, turn>>
      BY <1>10 DEF BuildContext, At
    <3> QED BY <2>2, <3>1, GivesUpKeeps
  <2> QED BY <1>10, <2>1, <2>2 DEF BuildContext
<1> QED BY <1>1, <1>2, <1>3, <1>4, <1>5, <1>6, <1>7, <1>8, <1>9, <1>10

\* A reply worker that speaks keeps it.
LEMMA ReplyPlays ==
  ASSUME IInv, NEW g \in Gens,
         \/ onCommitted(g) \/ markUncommitted(g) \/ speak(g) \/ markRejected(g) \/ markTruncated(g)
  PROVE  IInv'
<1>0. out.played \in {0, out.played}
  OBVIOUS
<1>1. CASE onCommitted(g) /\ Current(g)
  BY <1>1, CommittedKeeps
<1>2. CASE onCommitted(g) /\ ~Current(g)
  <2>1. Passes(g, "zero")
    BY <1>2 DEF onCommitted, At, Passes, Paths
  <2> QED BY <2>1, GoesKeeps
<1>3. CASE markUncommitted(g)
  <2>1. /\ worker[g].pc = "zero" /\ MarkTurnInterrupted(worker[g].u, 0)
        /\ worker' = Goto(g, "speak") /\ conv' = Unlocked
        /\ UNCHANGED <<live, setup, stop, lp, feed, recog, ctx, out, post, marks>>
    BY <1>3 DEF markUncommitted, At
  <2> QED BY <2>1, MarksKeeps
<1>4. CASE markRejected(g)
  <2>1. /\ worker[g].pc = "reject" /\ MarkTurnInterrupted(worker[g].u, 0)
        /\ worker' = Goto(g, "end") /\ conv' = conv
        /\ UNCHANGED <<live, setup, stop, lp, feed, recog, ctx, out, post, marks>>
    BY <1>4 DEF markRejected, At
  <2> QED BY <2>1, MarksKeeps
<1>5. CASE markTruncated(g)
  <2>1. /\ worker[g].pc = "short" /\ MarkTurnInterrupted(worker[g].u, out.played)
        /\ worker' = Goto(g, "end") /\ conv' = conv
        /\ UNCHANGED <<live, setup, stop, lp, feed, recog, ctx, out, post, marks>>
    BY <1>5 DEF markTruncated, At
  <2> QED BY <1>0, <2>1, MarksKeeps
<1>6. CASE speak(g)
  <2>1. CASE Speaks(g)
    BY <2>1, SpeakKeeps
  <2>2. CASE MaySpeak(g) /\ Spend("fault") /\ worker' = Goto(g, "reject") /\ UNCHANGED <<out, ctx>>
    <3>1. /\ worker[g].pc = "speak"
          /\ UNCHANGED <<live, setup, stop, lp, feed, recog, ctx, out, conv, post, marks, turn>>
      BY <1>6, <2>2 DEF speak, At
    <3> QED BY <2>2, <3>1, RejectedKeeps
  <2>3. CASE ~MaySpeak(g) /\ worker' = Goto(g, "end") /\ UNCHANGED <<out, ctx, budget>>
    <3>1. Passes(g, "end")
      BY <1>6, <2>3 DEF speak, At, Passes, Paths
    <3> QED BY <3>1, GoesKeeps
  <2> QED BY <1>6, <2>1, <2>2, <2>3 DEF speak, At, Speaks
<1> QED BY <1>1, <1>2, <1>3, <1>4, <1>5, <1>6

\* Every step of a reply worker keeps it.
LEMMA replyWorkerHolds == ASSUME IInv, NEW g \in Gens, replyWorker(g) PROVE IInv'
  BY ReplyStarts, ReplyPlays, GenerateKeeps, ReserveFenceKeeps, RunSpeakKeeps, PlayedOutKeeps,
     EndReplyKeeps, ReleaseFenceKeeps, ClearKeeps DEF replyWorker

\* The handler of a text message: it takes the lock, waits for the fence, and lets it go.
LEMMA TextHolds ==
  ASSUME IInv, textTurn \/ handlePostMessage \/ postAborts PROVE IInv'
<1>1. conv \in ConvType /\ budget \in BudgetType /\ Locks
  BY DEF IInv, TypeOK
<1>2. Unlocked \in ConvType /\ Unlocked.lock = 0 /\ Unlocked.fences = conv.fences
  BY <1>1 DEF Unlocked, ConvType
<1>3. post # "idle" => conv.lock = Text
  BY <1>1 DEF Locks
<1> HIDE DEF Unlocked
<1>4. CASE handlePostMessage
  <2>1. [conv EXCEPT !.lock = Text] \in ConvType /\ [conv EXCEPT !.lock = Text].lock = Text
        /\ [conv EXCEPT !.lock = Text].fences = conv.fences
    BY <1>1 DEF ConvType
  <2>2. /\ post = "idle" /\ conv.lock = 0 /\ post' = "await" /\ conv' = [conv EXCEPT !.lock = Text]
        /\ Spend("post") /\ UNCHANGED Rest
    BY <1>4 DEF handlePostMessage, ToPost
  <2>3. budget' \in BudgetType /\ budget'["stop"] = budget["stop"]
    BY <1>1, <2>2, Spent
  <2>4. conv' \in ConvType /\ conv'.fences = conv.fences /\ conv'.lock = Text
    BY <2>1, <2>2
  <2> QED BY <2>2, <2>3, <2>4, TextsKeeps
<1>5. CASE postAwaits \/ postReads
  <2>1. /\ post \in {"await", "context"} /\ post' \in {"context", "generate"}
        /\ conv' = conv /\ budget' = budget /\ UNCHANGED Rest
    BY <1>5 DEF postAwaits, postReads, ToPost
  <2>2. conv.fences = 0
    BY <1>1, <1>5 DEF postAwaits, postReads, FenceClear, Locks
  <2> QED BY <1>1, <1>3, <2>1, <2>2, TextsKeeps
<1>6. CASE postAborts \/ postEnds
  <2>1. /\ post # "idle" /\ post' = "idle" /\ conv' = Unlocked /\ UNCHANGED Rest
        /\ Spend("fault") \/ budget' = budget
    BY <1>6 DEF postAborts, postEnds, ToPost
  <2>2. budget' \in BudgetType /\ budget'["stop"] = budget["stop"]
    BY <1>1, <2>1, Spent
  <2> QED BY <1>2, <2>1, <2>2, TextsKeeps
<1> QED BY <1>4, <1>5, <1>6 DEF textTurn

\* Every step of the session keeps the invariant.
LEMMA StepHolds == ASSUME IInv, [Next]_vars PROVE IInv'
<1>1. CASE Server
  <2>1. CASE \E t \in Stoppers : Stopping(t)
    BY <2>1, StoppingHolds
  <2>2. CASE \E g \in Gens : replyWorker(g)
    BY <2>2, replyWorkerHolds
  <2> QED BY <1>1, <2>1, <2>2, finishLiveHolds, handleLiveEventHolds, markStoppedHolds,
             PaceKeeps, TextHolds DEF Server
<1>2. CASE Client
  <2>1. "control" \in Stoppers
    BY DEF Stoppers
  <2> QED BY <1>2, <2>1, StartLiveKeeps, StopLiveKeeps, CloseSessionKeeps, FeedLiveKeeps,
             RecordCursorKeeps, TextHolds DEF Client
<1>3. CASE UNCHANGED vars
  BY <1>3, SameKeeps
<1> QED BY <1>1, <1>2, <1>3 DEF Next, Ended

\* It is an invariant of the specification.
LEMMA Inductive == Spec => []IInv
<1>1. Init => IInv
  BY InitHolds
<1>2. IInv /\ [Next]_vars => IInv'
  BY StepHolds
<1> QED BY <1>1, <1>2, PTL DEF Spec

-----------------------------------------------------------------------------
(* The theorems.                                                             *)

\* Every variable stays in its type, and no queue of commits is longer than its buffer
\* (session.go:60-93, live.go:27-52).
THEOREM TypeCorrect == Spec => []TypeOK
<1>1. IInv => TypeOK
  BY DEF IInv
<1> QED BY <1>1, Inductive, PTL

\* An open recognizer and a pending interrupt fence always have somebody who will close it and
\* release it, however starts, stops, barge-ins, a Close and failures are interleaved
\* (live.go:447-451, server.go:189-210).
THEOREM HandsAreFull == Spec => []EverythingIsHeld
<1>1. IInv => EverythingIsHeld
  BY DEF IInv, EverythingIsHeld
<1> QED BY <1>1, Inductive, PTL

\* Once live mode is left and torn down, no worker is finalizing an open recognizer
\* (live.go:235-240, 525-531).
THEOREM StopsAbort == Spec => []StopAborts
<1>1. ASSUME IInv PROVE StopAborts
  <2>1. Aborts /\ NConst /\ \A g \in Gens : worker[g].pc = "finalize" => worker[g].u \in Utterances
    BY <1>1, TypedNames, Busy DEF IInv, Names
  <2> QED BY <2>1 DEF StopAborts, Aborts, At, NConst
<1> QED BY <1>1, Inductive, PTL

\* However a stop, a barge-in and a late commit race for a reply, it is captured once and is
\* recorded as heard no further than the browser reported (outbound.go:196-206, live.go:189-195).
THEOREM BoundariesAreTrue == Spec => []MarksAreTrue
<1>1. IInv => MarksAreTrue
  BY DEF IInv, Captures, MarksAreTrue
<1> QED BY <1>1, Inductive, PTL

\* If a start's cleanup is over before live mode is entered again, then whoever reads the history
\* for a model, holding the turn lock behind the fence, finds no reply told as heard that was not
\* (agent/context.go:25-28, server.go:221-227).
THEOREM ContextsAreHeard == PromptCleanup => (Spec => []ContextIsHeard)
<1>1. ASSUME IInv, PromptCleanup PROVE ContextIsHeard
  <2>1. SUFFICES ASSUME Reading, NEW u \in Utterances PROVE Done(u)
    BY DEF ContextIsHeard, Done
  <2>2. Settled /\ Locks /\ Replies /\ Workers
    BY <1>1 DEF IInv
  <2>3. conv.fences = 0
    BY <2>1, <2>2 DEF Reading, Locks, Writing, At
  <2>4. /\ \A g \in Gens : ~worker[g].fence
        /\ marks = {} /\ feed.pc # "marking" /\ \A t \in Stoppers : stop[t].turn = 0
    BY <1>1, <2>3, NoFences
  <2>5. u # 0
    BY <1>1, TypedNames DEF IInv, Names, NConst
  <2>6. ~Pend(u)
    BY <2>4, <2>5 DEF Pend
  <2>7. ASSUME NEW g \in Gens, Open(u, g) PROVE FALSE
    <3>1. worker[g].pc \in {"commit", "zero", "fence"}
      <4>1. worker[g].pc \notin Speaking
        BY <2>2, <2>4 DEF Workers, WorkerOK
      <4>2. worker[g].pc = "speak" => live.replyTurn # u
        <5>1. SUFFICES ASSUME worker[g].pc = "speak", live.replyTurn = u PROVE FALSE
          OBVIOUS
        <5>2. live.lp \in Gens /\ worker[live.lp].u = u /\ worker[g].u = u
              /\ \A h \in Gens : worker[h].u = u => h = live.lp
          BY <1>1, <2>5, <2>7, <5>1, ReplyOf, ReplyTurnOf DEF Open
        <5>3. worker[live.lp].pc = "fence" \/ worker[live.lp].fence
          BY <2>2, <2>5, <5>1 DEF Replies
        <5> QED BY <2>4, <5>1, <5>2, <5>3
      <4> QED BY <2>7, <4>1, <4>2 DEF Open, Speaking
    <3>2. conv.lock = g
      BY <2>2, <3>1 DEF Locks, Locking
    <3>3. CASE post = "context"
      <4>1. conv.lock = Text
        BY <2>2, <3>3 DEF Locks
      <4>2. Text \notin Gens
        BY <1>1, TypedNames DEF IInv, Names, NConst
      <4> QED BY <3>2, <4>1, <4>2
    <3>4. CASE \E h \in Gens : worker[h].pc = "context"
      <4>1. PICK h \in Gens : worker[h].pc = "context"
        BY <3>4
      <4>2. conv.lock = h
        BY <2>2, <4>1 DEF Locks, Locking
      <4> QED BY <3>1, <3>2, <4>1, <4>2
    <3> QED BY <2>1, <3>3, <3>4 DEF Reading, At
  <2> QED BY <1>1, <2>2, <2>6, <2>7 DEF Settled
<1>2. CASE PromptCleanup
  <2>1. IInv => ContextIsHeard
    BY <1>1, <1>2
  <2> QED BY <2>1, Inductive, PTL
<1> QED BY <1>2

=============================================================================
