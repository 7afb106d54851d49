---------------------------- MODULE SpokenReplies ----------------------------
(****************************************************************************)
(* Replies that one talk session speaks with live mode off: speakStream and *)
(* runSpeak of internal/rtc/speak.go, the output of outbound.go, and the    *)
(* mode changes, interruptions and teardown of session.go.  Requests come   *)
(* over HTTP and from the browser; control messages are handled one at a    *)
(* time; what is done under speakMu, or under the lock of the output, is    *)
(* one step.                                                                *)
(****************************************************************************)
EXTENDS Naturals

CONSTANTS
  Speaks,     \* requests to speak
  MaxModes    \* bound: mode changes and interruptions

VARIABLES
  life,   \* how far Session.Close is
  ctl,    \* the control message that is being handled
  say,    \* speakGen, speakCancel; and the generation of the last cancelSpeak
  speech, \* the requests to speak
  out     \* the output: source and epoch
vars == <<life, ctl, say, speech, out>>

None == "none"
Spoken(k, at) == speech' = [speech EXCEPT ![k].at = at]
\* outbound.halt with the epoch of a reply: a newer playback is left alone.
BrokenCurrent(k) == TRUE
Current(k) == out.epoch = speech[k].epoch
halt(k) == out' = IF Current(k) THEN [out EXCEPT !.source = None] ELSE out

speakStream(k) ==
  /\ speech[k].at = "none"
  /\ say' = [say EXCEPT !.gen = @ + 1]
  /\ speech' = [speech EXCEPT ![k].at = "synth", ![k].gen = say.gen + 1]
  /\ UNCHANGED <<life, ctl, out>>
\* Synthesis is refused, or starts: the latest to arrive plays, in the place of the
\* reply before it.
CancelOf(k) == [speech EXCEPT ![k].cancelled = TRUE]
Superseding(k) == IF say.cancel = None THEN speech ELSE CancelOf(say.cancel)
commitSpeak(k) ==
  /\ speech[k].at = "synth"
  /\ \/ Spoken(k, "ended") /\ UNCHANGED <<say, out>>
     \/ /\ say.gen = speech[k].gen
        /\ say' = [say EXCEPT !.cancel = k]
        /\ out' = [source |-> k, epoch |-> out.epoch + 1]
        /\ speech' = [Superseding(k) EXCEPT ![k].at = "playing", ![k].epoch = out.epoch + 1,
                                            ![k].cancelled = life \notin {"up", "marked"}]
  /\ UNCHANGED <<life, ctl>>
\* The pacer has played all of it, or it was cancelled, or synthesis fails.
Drained(k) ==
  /\ speech[k].at = "playing" /\ out.source = k /\ life \in {"up", "marked"} /\ Spoken(k, "drained")
  /\ UNCHANGED <<life, ctl, say, out>>
runSpeak(k) ==
  /\ speech[k].at \in {"playing", "drained"}
  /\ Spoken(k, "ended") /\ halt(k)
  /\ UNCHANGED <<life, ctl, say>>

\* cancelSpeak, and then what the message is for: another source, none, or the end of
\* one epoch.  A request to speak may come between the two.
cancelSpeak ==
  /\ say' = [gen |-> say.gen + 1, cancel |-> None, last |-> say.gen + 1]
  /\ speech' = IF say.cancel = None THEN speech ELSE CancelOf(say.cancel)
Control ==
  /\ life = "up" /\ ctl.at = None /\ ctl.left > 0 /\ cancelSpeak
  /\ \E at \in {None, "start", "stop", "interrupt"} :
       ctl' = [ctl EXCEPT !.at = at, !.left = @ - 1]
  /\ UNCHANGED <<life, out>>
Overtaken == IF out.source \in Speaks /\ ~speech[out.source].cancelled THEN {out.source} ELSE {}
setMode ==
  /\ ctl.at \in {"start", "stop"}
  /\ out' = IF ctl.at = "stop" THEN [out EXCEPT !.source = None]
            ELSE [source |-> "mode", epoch |-> out.epoch + 1]
  /\ ctl' = [ctl EXCEPT !.at = None, !.overtaken = @ \cup Overtaken]
  /\ UNCHANGED <<life, say, speech>>
\* The browser names an epoch: the one that plays, or an older one.
interrupt ==
  /\ ctl.at = "interrupt"
  /\ \/ out' = [out EXCEPT !.source = None] /\ ctl' = [ctl EXCEPT !.at = None, !.overtaken = @ \cup Overtaken]
     \/ ctl' = [ctl EXCEPT !.at = None] /\ UNCHANGED out
  /\ UNCHANGED <<life, say, speech>>
-----------------------------------------------------------------------------
(* Session.Close, in its order: the flag, the context of everything, the     *)
(* reply, the output.                                                        *)

Close(from, to) == life = from /\ life' = to
Mark == Close("up", "marked") /\ UNCHANGED <<ctl, say, speech, out>>
CancelContext ==
  /\ Close("marked", "cancelled")
  /\ speech' = [k \in Speaks |-> [speech[k] EXCEPT !.cancelled = TRUE]]
  /\ UNCHANGED <<ctl, say, out>>
Quiet == Close("cancelled", "quiet") /\ cancelSpeak /\ UNCHANGED <<ctl, out>>
StopOut ==
  /\ Close("quiet", "over") /\ out' = [out EXCEPT !.source = None]
  /\ UNCHANGED <<ctl, say, speech>>
-----------------------------------------------------------------------------
Init ==
  /\ life = "up"
  /\ ctl = [at |-> None, left |-> MaxModes, overtaken |-> {}]
  /\ say = [gen |-> 0, cancel |-> None, last |-> 0]
  /\ speech = [k \in Speaks |-> [at |-> "none", gen |-> 0, epoch |-> 0, cancelled |-> FALSE]]
  /\ out = [source |-> None, epoch |-> 0]
Next == \/ Control \/ setMode \/ interrupt \/ Mark \/ CancelContext \/ Quiet \/ StopOut
        \/ \E k \in Speaks : speakStream(k) \/ commitSpeak(k) \/ Drained(k) \/ runSpeak(k)
Spec == Init /\ [][Next]_vars
-----------------------------------------------------------------------------
\* A reply that plays is not one that a newer reply has replaced, or a control message
\* or the teardown has cancelled since it was asked for, unless it is about to halt; and a
\* reply that has neither ended nor been cancelled is heard, unless its request came
\* between the two halves of a mode change or an interruption.
SpeechInOrder == \A k \in Speaks :
  /\ out.source = k /\ ~speech[k].cancelled =>
       /\ speech[k].gen > say.last
       /\ \A j \in Speaks : speech[j].at \in {"playing", "drained"} => speech[j].gen <= speech[k].gen
  /\ speech[k].at = "playing" /\ ~speech[k].cancelled =>
       out.source = k \/ k \in ctl.overtaken
-----------------------------------------------------------------------------
(* The assumption on the constants and the inductive invariant. *)

\* A request to speak is neither the silence nor the source of a mode.
Named == None \notin Speaks /\ "mode" \notin Speaks /\ MaxModes \in Nat

RequestType == [at : {"none", "synth", "playing", "drained", "ended"}, gen : Nat, epoch : Nat,
                cancelled : BOOLEAN]
ControlType == [at : {None, "start", "stop", "interrupt"}, left : Nat, overtaken : SUBSET Speaks]
TypeOK ==
  /\ life \in {"up", "marked", "cancelled", "quiet", "over"}
  /\ ctl \in ControlType
  /\ say \in [gen : Nat, cancel : Speaks \cup {None}, last : Nat]
  /\ speech \in [Speaks -> RequestType]
  /\ out \in [source : Speaks \cup {None, "mode"}, epoch : Nat]

\* Generations and epochs are taken once: the last cancelSpeak has none of a request, and a
\* reply whose epoch is current plays, or nothing does.
Generations == /\ say.last <= say.gen
               /\ \A k \in Speaks : /\ speech[k].gen <= say.gen
                                    /\ speech[k].at # "none" => speech[k].gen # say.last
Epochs == \A k \in Speaks :
  /\ speech[k].epoch <= out.epoch
  /\ speech[k].at \in {"playing", "drained"} /\ speech[k].epoch = out.epoch =>
       out.source \in {k, None}
\* What plays has been committed, and unless it was cancelled it is what speakCancel cancels.
Playing == \A k \in Speaks : out.source = k =>
  /\ speech[k].at \in {"playing", "drained", "ended"}
  /\ ~speech[k].cancelled => say.cancel = k
\* After the context of the session nothing is left to cancel.
Cancelled == life \notin {"up", "marked"} => \A k \in Speaks : speech[k].cancelled
IInv == TypeOK /\ Generations /\ Epochs /\ Playing /\ Cancelled /\ SpeechInOrder
=============================================================================
