---------------------------- MODULE TurnDetection ----------------------------
(****************************************************************************)
(* From speech probabilities to turns: the detector of internal/vad         *)
(* (vad.go, stream.go) under the pipeline of internal/voice (pipeline.go,   *)
(* semantic.go, backchannel.go, config.go).  Time is counted in windows of  *)
(* the detector, and a chunk of the microphone is one window; the echo      *)
(* suppressor only lowers probabilities, which are arbitrary here.          *)
(* LiveVoice takes the events of this module as a choice.                   *)
(****************************************************************************)
EXTENDS Integers, Sequences, SequencesExt

CONSTANTS
  MinSpeech, MaxDuration,          \* vad.Params, in windows
  DefaultSilence, MaxSilence,      \* the silence of a turn_detection request
  DefaultPadding, MaxPadding,      \* its pre-roll
  BaseSilence, MaxWait,            \* semantic VAD: candidate end, forced commit
  BargeInConfirm                   \* sustained speech that interrupts a reply

VARIABLES
  cfg,      \* TurnDetection, normalized, with the parameters it gives the detector
  det,      \* Detector: in a segment, its windows so far, where its silence began
  preroll,  \* Stream: per window, whether it is speech that some segment already has
  pipe,     \* Pipeline, without the detector
  events,   \* what the last Write returned
  turn      \* of the turn: it has had an utterance; its last segment was a blip or
            \* was cut by MaxDuration; the pre-roll brought speech a second time
vars == <<cfg, det, preroll, pipe, events, turn>>

Requests == [semantic : BOOLEAN, interrupts : BOOLEAN,
             silence : {0, MaxSilence + 1}, padding : {0, MaxPadding + 1}]
Clamped(n, default, most) == IF n <= 0 THEN default ELSE IF n > most THEN most ELSE n
Shorter(m, n) == IF m < n THEN m ELSE n
Normalize(t) == [t EXCEPT !.silence = Clamped(@, DefaultSilence, MaxSilence),
                          !.padding = Clamped(@, DefaultPadding, MaxPadding)]
VADParams(t) == [t EXCEPT !.silence = IF t.semantic THEN Shorter(BaseSilence, @) ELSE @]
-----------------------------------------------------------------------------
(* The detector: a window is speech, ambiguous (between the thresholds) or not. *)

Windows == {"speech", "ambiguous", "quiet"}
NoSegment == [on |-> FALSE, len |-> 0, quietFrom |-> 0]
QuietFrom == IF det.quietFrom = 0 THEN det.len ELSE det.quietFrom
\* Only speech voids a run of silence, and what comes before the run is measured.
Push(w) ==
  CASE ~det.on -> IF w = "speech" THEN "start" ELSE "continue"
    [] det.on /\ det.len + 1 >= MaxDuration -> "max"
    [] det.on /\ det.len + 1 < MaxDuration /\ w = "quiet"
         /\ det.len - QuietFrom + 1 >= cfg.silence -> IF QuietFrom < MinSpeech THEN "cancel" ELSE "end"
    [] OTHER -> "continue"
Pushed(w, d) ==
  IF d \in {"end", "cancel", "max"} \/ (~det.on /\ d # "start") THEN NoSegment
  ELSE [on |-> TRUE, len |-> det.len + 1,
        quietFrom |-> CASE w = "speech" -> 0 [] w = "quiet" -> QuietFrom
                        [] OTHER -> det.quietFrom]
InSpeech(d) == d = "start" \/ (d = "continue" /\ det.on)
Rolled(w, d) ==
  LET all == Append(preroll, w = "speech" /\ InSpeech(d))
  IN IF Len(all) > cfg.padding THEN Tail(all) ELSE all
-----------------------------------------------------------------------------
(* The pipeline.  Partial transcripts are the words of the recognizer so far. *)

Partials == {"", "yeah", "hmm", "um", "stop", "I want to", "play it"}
IsBackchannel(p) == p \in {"", "yeah", "hmm"}
InterruptsWith(p) == p \in {"I want to", "play it"}     \* two words that are none
LooksComplete(p) == p \in {"yeah", "stop", "play it"}
Commits(p, wait) == wait >= MaxWait \/ (LooksComplete(p) /\ wait >= BaseSilence)

Result(p, es) == [pipe |-> p, events |-> es]
Open(playing) == [state |-> "capture", partial |-> "", wait |-> 0, speech |-> 0,
                  barged |-> FALSE, over |-> playing]
\* Only a transcript can show that what was said over a reply was nothing.
BrokenDiscards == pipe.over /\ ~pipe.barged /\ IsBackchannel(pipe.partial)
Discards == pipe.over /\ ~pipe.barged /\ pipe.partial # "" /\ IsBackchannel(pipe.partial)
Ended ==
  LET cuts == pipe.over /\ ~pipe.barged /\ cfg.interrupts
      p == [pipe EXCEPT !.barged = @ \/ cuts]
      es == IF cuts THEN <<"barge">> ELSE <<>>
  IN IF Discards THEN Result([pipe EXCEPT !.state = "idle"], <<"cancel">>)
     ELSE IF cfg.semantic /\ ~Commits(pipe.partial, BaseSilence)
     THEN Result([p EXCEPT !.state = "await", !.wait = BaseSilence], es)
     ELSE Result([p EXCEPT !.state = "idle"], Append(es, "commit"))
handle(d, playing) ==
  CASE d = "start" /\ pipe.state = "idle" -> Result(Open(playing), <<"open">>)
    [] d = "start" /\ pipe.state = "await" ->
         Result([pipe EXCEPT !.state = "capture", !.wait = 0], <<"audio">>)
    [] d = "continue" /\ det.on /\ pipe.state = "capture" ->
         Result([pipe EXCEPT !.speech = Shorter(@ + 1, BargeInConfirm)], <<"audio">>)
    [] d = "end" /\ pipe.state = "capture" -> Ended
    [] d = "cancel" /\ pipe.state = "capture" ->
         Result([pipe EXCEPT !.state = "idle"], <<"cancel">>)
    [] d = "max" /\ pipe.state \in {"capture", "await"} ->
         Result([pipe EXCEPT !.state = "idle"], <<"commit">>)
    [] OTHER -> Result(pipe, <<>>)
confirmBargeIn(p) ==
  \/ InterruptsWith(p.partial)
  \/ ~(p.partial # "" /\ IsBackchannel(p.partial)) /\ p.speech >= BargeInConfirm
tick(r, playing) ==
  LET p == r.pipe IN
  IF p.state = "await"
  THEN IF Commits(p.partial, p.wait + 1)
       THEN Result([p EXCEPT !.state = "idle", !.wait = @ + 1], Append(r.events, "commit"))
       ELSE Result([p EXCEPT !.wait = @ + 1], r.events)
  ELSE IF playing /\ p.state = "capture" /\ ~p.barged /\ cfg.interrupts /\ confirmBargeIn(p)
  THEN Result([p EXCEPT !.barged = TRUE], Append(r.events, "barge"))
  ELSE r
-----------------------------------------------------------------------------
Remembered(d) ==
  [heard |-> (pipe.state # "idle" /\ turn.heard) \/ d = "end",
   blip |-> d = "cancel" \/ (d # "start" /\ turn.blip),
   forced |-> d = "max" \/ (d \notin {"end", "cancel"} /\ turn.forced),
   twice |-> d = "start" /\ TRUE \in ToSet(preroll)]
Write(w, playing) ==
  LET d == Push(w)
      r == tick(handle(d, playing), playing)
  IN /\ det' = Pushed(w, d) /\ preroll' = Rolled(w, d)
     /\ pipe' = r.pipe /\ events' = r.events
     /\ turn' = Remembered(d) /\ UNCHANGED cfg
\* The model fails on a window, which is dropped; the timers of the chunk go on.
WriteFails(playing) ==
  LET r == tick(Result(pipe, <<>>), playing)
  IN /\ pipe' = r.pipe /\ events' = r.events
     /\ UNCHANGED <<cfg, det, preroll, turn>>
\* The recognizer of the open turn says what it has heard (observeLive).
Observe(p) ==
  /\ pipe.state # "idle" /\ p # "" /\ pipe' = [pipe EXCEPT !.partial = p]
  /\ events' = <<>> /\ UNCHANGED <<cfg, det, preroll, turn>>

Init ==
  /\ cfg \in {VADParams(Normalize(t)) : t \in Requests}
  /\ det = NoSegment /\ preroll = <<>> /\ events = <<>>
  /\ pipe = [Open(FALSE) EXCEPT !.state = "idle"]
  /\ turn = [heard |-> FALSE, blip |-> FALSE, forced |-> FALSE, twice |-> FALSE]
Next == \/ \E playing \in BOOLEAN : WriteFails(playing) \/ \E w \in Windows : Write(w, playing)
        \/ \E p \in Partials : Observe(p)
Spec == Init /\ [][Next]_vars
-----------------------------------------------------------------------------
Said(e) == e \in ToSet(events)

\* A turn is captured exactly while the detector is in a segment, and is not held open
\* longer than MaxWait.  One with an utterance in it is not discarded, but for what the
\* recognizer shows to be an acknowledgement of a reply (and for a blip after a pause,
\* see the README); one that began over a reply has interrupted it when it commits; and no
\* speech reaches the recognizer twice, unless a segment was cut or the pre-roll is
\* longer than the silence between two segments.
TurnsAreKept ==
  /\ pipe.state = "capture" <=> det.on
  /\ pipe.state = "await" => pipe.wait < MaxWait
  /\ Said("cancel") /\ turn.heard /\ ~turn.blip =>
       pipe.over /\ ~pipe.barged /\ pipe.partial \in {"yeah", "hmm"}
  /\ Said("commit") /\ pipe.over /\ cfg.interrupts /\ ~turn.forced => pipe.barged
  /\ turn.twice => turn.forced \/ cfg.padding >= cfg.silence

\* A segment shorter than MinSpeech does not interrupt the reply it was heard over
\* (vad.go:53-55, stream.go:30-31).
BlipsDontInterrupt ==
  Said("cancel") /\ turn.blip /\ ~turn.heard /\ ~InterruptsWith(pipe.partial) => ~pipe.barged
-----------------------------------------------------------------------------
(* The assumption on the constants and the inductive invariant. *)

Durations ==
  /\ MinSpeech \in Nat /\ MaxDuration \in Nat /\ DefaultSilence \in Nat /\ MaxSilence \in Nat
  /\ DefaultPadding \in Nat /\ MaxPadding \in Nat /\ BaseSilence \in Nat /\ MaxWait \in Nat
  /\ BargeInConfirm \in Nat
TypeOK ==
  /\ cfg \in [semantic : BOOLEAN, interrupts : BOOLEAN, silence : Nat, padding : Nat]
  /\ det \in [on : BOOLEAN, len : Nat, quietFrom : Nat]
  /\ preroll \in Seq(BOOLEAN)
  /\ pipe \in [state : {"idle", "capture", "await"}, partial : Partials, wait : Nat, speech : Nat,
               barged : BOOLEAN, over : BOOLEAN]
  /\ turn \in [heard : BOOLEAN, blip : BOOLEAN, forced : BOOLEAN, twice : BOOLEAN]

\* A segment has had a window; its silence began within it.
Measured == IF det.on THEN det.len > 0 /\ det.quietFrom <= det.len ELSE det = NoSegment
\* The windows since a silence began are not speech, and the pre-roll holds the last windows.
Since(n) == \A i \in 1 .. Len(preroll) : i > Len(preroll) - n => ~preroll[i]
Silent ==
  /\ Len(preroll) <= cfg.padding
  /\ det.on /\ det.quietFrom # 0 => Since(det.len - det.quietFrom)
  /\ ~det.on /\ ~turn.forced => Since(cfg.silence)
\* A turn that waits for its end has already interrupted the reply it was heard over.
Interrupted == pipe.state = "await" /\ pipe.over /\ cfg.interrupts => pipe.barged
IInv == TypeOK /\ Measured /\ Silent /\ Interrupted /\ TurnsAreKept
=============================================================================
