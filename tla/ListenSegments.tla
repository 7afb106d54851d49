--------------------------- MODULE ListenSegments ---------------------------
(****************************************************************************)
(* Manual listening in one talk session: internal/rtc/listen.go, under the  *)
(* controls and the teardown of session.go.  (LiveVoice has the other way   *)
(* to listen.)  Control messages are handled one at a time; the load of the *)
(* recognizer, the timers, the finalizers, the microphone and the teardown  *)
(* run beside them, and what is done under asrMu is one step.               *)
(****************************************************************************)
EXTENDS Integers

CONSTANTS
  MaxGen,     \* bound: generations of listening
  MaxLost     \* bound: microphone frames dropped in a segment

VARIABLES
  life,   \* Session.Close: up, marked closed, or past closeListen
  lis,    \* asrStream, asrStarting, listenGen, asrDropped
  seg     \* the segments, by their generation
vars == <<life, lis, seg>>

Gens == 0 .. MaxGen
NoStream == -1
NoSegment == [at |-> "none", timer |-> "off", asked |-> FALSE, lost |-> 0, told |-> 0, ends |-> 0]
isClosed == life # "up"
\* A segment is named by the generation at its start.
InSeg(g, at) == seg[g].at = at
Be(g, at) == seg' = [seg EXCEPT ![g].at = at]
beginListen ==
  /\ life = "up" /\ lis.stream = NoStream /\ ~lis.starting
  /\ lis' = [lis EXCEPT !.starting = TRUE]
  /\ seg' = [seg EXCEPT ![lis.gen] = [NoSegment EXCEPT !.at = "loading"]]
  /\ UNCHANGED life

\* The recognizer is loaded, or not: it is installed unless it has been stopped since.
BrokenMayInstall(g) == ~isClosed
MayInstall(g) == ~isClosed /\ lis.gen = g
finishListen(g) ==
  /\ InSeg(g, "loading")
  /\ \/ lis' = [lis EXCEPT !.starting = FALSE] /\ Be(g, "closed")
     \/ /\ MayInstall(g)
        /\ lis' = [lis EXCEPT !.starting = FALSE, !.stream = g, !.dropped = 0]
        /\ seg' = [seg EXCEPT ![g].at = "installed", ![g].timer = "armed"]
  /\ UNCHANGED life

\* TryWrite: a frame finds no room.
feedASR ==
  /\ lis.stream # NoStream /\ lis.dropped < MaxLost
  /\ lis' = [lis EXCEPT !.dropped = @ + 1] /\ seg' = [seg EXCEPT ![lis.stream].lost = @ + 1]
  /\ UNCHANGED life

\* A stop invalidates a start, and takes what is installed to its end.
Stopped == [lis EXCEPT !.gen = @ + 1, !.stream = NoStream]
Quit(r, at) == [r EXCEPT !.at = IF @ = "installed" THEN at ELSE @, !.asked = TRUE,
                          !.timer = IF @ = "armed" THEN "off" ELSE @, !.told = lis.dropped]
Take(at) == lis' = Stopped /\ seg' = [g \in Gens |-> IF g \in {lis.gen, lis.stream}
                                                    THEN Quit(seg[g], at) ELSE seg[g]]
stopListen ==
  /\ life = "up" /\ lis.gen < MaxGen - 1 /\ Take("finalizing")
  /\ UNCHANGED life
\* The timer of a segment may have fired when it is stopped.
Fire(g) ==
  /\ seg[g].timer = "armed" /\ seg' = [seg EXCEPT ![g].timer = "fired"]
  /\ UNCHANGED <<life, lis>>
timedStop(g) ==
  /\ seg[g].timer = "fired"
  /\ IF lis.stream = g
     THEN /\ lis.gen < MaxGen - 1 /\ lis' = Stopped
          /\ seg' = [seg EXCEPT ![g] = [Quit(@, "finalizing") EXCEPT !.timer = "off"]]
     ELSE seg' = [seg EXCEPT ![g].timer = "off"] /\ UNCHANGED lis
  /\ UNCHANGED life
\* It ends with a result, an error or a timeout; a closed session says nothing.
finalizeSegment(g) ==
  /\ InSeg(g, "finalizing")
  /\ seg' = [seg EXCEPT ![g].at = "closed", ![g].ends = IF isClosed THEN @ ELSE @ + 1]
  /\ UNCHANGED <<life, lis>>

\* Session.Close: the flag, and later the end of what still listens.
Mark == life = "up" /\ life' = "marked" /\ UNCHANGED <<lis, seg>>
closeListen == life = "marked" /\ life' = "deaf" /\ Take("closed")
-----------------------------------------------------------------------------
Init ==
  /\ life = "up" /\ seg = [g \in Gens |-> NoSegment]
  /\ lis = [stream |-> NoStream, starting |-> FALSE, gen |-> 0, dropped |-> 0]
Next == \/ beginListen \/ feedASR \/ stopListen \/ Mark \/ closeListen
        \/ \E g \in Gens : finishListen(g) \/ Fire(g) \/ timedStop(g) \/ finalizeSegment(g)
Spec == Init /\ [][Next]_vars
-----------------------------------------------------------------------------
\* What listens is a segment that nobody has asked to stop since it was started, and every
\* other recognizer is closed, loading or being finalized; a segment ends once, with the
\* number of frames that it lost; and when the session is over none is left.
OneLoads == \A g, h \in Gens : InSeg(g, "loading") /\ InSeg(h, "loading") => g = h
SegmentsHonest ==
  /\ \A g \in Gens : /\ InSeg(g, "installed") <=> lis.stream = g
                     /\ InSeg(g, "installed") => ~seg[g].asked
                     /\ seg[g].ends <= 1
                     /\ seg[g].ends = 1 => seg[g].told = seg[g].lost
  /\ OneLoads
  /\ life = "deaf" => lis.stream = NoStream
-----------------------------------------------------------------------------
(* The assumption on the constants and the inductive invariant. *)

Bounded == MaxGen \in Nat \ {0} /\ MaxLost \in Nat

SegmentType == [at : {"none", "loading", "installed", "finalizing", "closed"},
                timer : {"off", "armed", "fired"}, asked : BOOLEAN,
                lost : Nat, told : Nat, ends : Nat]
TypeOK ==
  /\ life \in {"up", "marked", "deaf"}
  /\ lis \in [stream : Gens \cup {NoStream}, starting : BOOLEAN, gen : Nat, dropped : Nat]
  /\ seg \in [Gens -> SegmentType]

\* What the generation of a segment says about it: whoever is asked to stop, finalized or
\* ended is of an earlier one, and what listens is of this one.
Honest(r, g, l) ==
  /\ r.at = "installed" <=> l.stream = g
  /\ r.at = "installed" => g = l.gen /\ r.lost = l.dropped
  /\ r.at = "loading" => l.starting /\ r.lost = 0
  /\ r.at \in {"loading", "installed"} => r.ends = 0
  /\ r.asked => g < l.gen
  /\ r.at = "finalizing" => r.ends = 0 /\ r.told = r.lost /\ g < l.gen
  /\ r.ends <= 1
  /\ r.ends = 1 => r.told = r.lost /\ g < l.gen
AllHonest == \A g \in Gens : Honest(seg[g], g, lis)
Within == /\ lis.gen <= MaxGen /\ (life # "deaf" => lis.gen < MaxGen)
          /\ life = "deaf" => lis.stream = NoStream
IInv == TypeOK /\ AllHonest /\ OneLoads /\ Within
=============================================================================
