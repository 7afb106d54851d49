---------------------------- MODULE OnnxLifecycle ----------------------------
(****************************************************************************)
(* The idle-unloading owner of an ONNX model bundle:                         *)
(* internal/onnx/lifecycle.go, used by speech synthesis and recognition.     *)
(*                                                                           *)
(* Callers acquire the bundle, use it and release it; the first one loads    *)
(* it and the others wait.  The last release arms a timer whose callback     *)
(* unloads.  One action is one section under Lifecycle.mu; loading a bundle  *)
(* and closing one happen outside the lock, and a timer that has fired is a  *)
(* callback that still waits for it.                                         *)
(*                                                                           *)
(* A definition whose name begins with Broken is the one below it with a     *)
(* plausible bug; PROJECT.json pairs it with the property that catches it.   *)
(****************************************************************************)
EXTENDS Integers, FiniteSets

CONSTANTS
  Callers,      \* goroutines that use the model; each calls Acquire many times
  Bundles,      \* copies of the model in memory (a bound, reused once closed)
  Timers,       \* time.Timer objects (a bound, reused once spent)
  IdleTTL,      \* in ticks; 0 is "never unload"
  MaxFailures,  \* bound: loads that fail
  MaxCancels,   \* bound: Acquire contexts that are cancelled
  NoBundle, NoTimer

ASSUME LifecycleAssumption ==
  /\ IsFiniteSet(Callers)
  /\ NoBundle \notin Bundles /\ NoTimer \notin Timers
  /\ {IdleTTL, MaxFailures, MaxCancels} \subseteq Nat

VARIABLES
  pc,        \* where each caller is in Acquire, or holding, or idle
  cancelled, \* callers whose context is done
  held,      \* the bundle each caller got from Acquire
  val,       \* Lifecycle.val, NoBundle unless Lifecycle.loaded
  refs,      \* Lifecycle.refs
  timer,     \* Lifecycle.timer
  clock,     \* the runtime's timers, each with the ticks left
  closed,    \* Lifecycle.closed
  open,      \* bundles in memory
  doomed,    \* bundles taken out of val whose Close call is still to come
  budget     \* what is left of MaxFailures and MaxCancels

vars == <<pc, cancelled, held, val, refs, timer, clock, closed, open, doomed,
          budget>>

loaded == val # NoBundle
\* Lifecycle.loading is set from the start of a load to its commit.
Loading == {c \in Callers : pc[c] = "loading"}
Holders == {c \in Callers : pc[c] = "holding"}

Spend(what) == budget[what] > 0 /\ budget' = [budget EXCEPT ![what] = @ - 1]
Goto(c, where) == pc' = [pc EXCEPT ![c] = where]
Return(c) == cancelled' = cancelled \ {c}

-----------------------------------------------------------------------------
(* Timers.                                                                   *)

Free == [st |-> "free", left |-> 0]
Fired == [st |-> "fired", left |-> 0]
Armed(n) == [st |-> "armed", left |-> n]

\* stopTimerLocked: a timer that has fired cannot be stopped any more.
Stopped(t) == IF t # NoTimer /\ clock[t].st = "armed" THEN [clock EXCEPT ![t] = Free]
              ELSE clock
stopTimerLocked == timer' = NoTimer /\ clock' = Stopped(timer)

\* armTimerLocked.
armTimerLocked ==
  IF IdleTTL = 0 THEN UNCHANGED <<timer, clock>>
  ELSE \E t \in Timers : /\ clock[t] = Free /\ timer' = t
                         /\ clock' = [Stopped(timer) EXCEPT ![t] = Armed(IdleTTL)]

-----------------------------------------------------------------------------
(* Acquire.                                                                  *)

\* A call begins, or a waiter is woken: both go to the switch under the lock.
AtSwitch(c) == pc[c] \in {"enter", "woken"}
Enter(c) ==
  /\ pc[c] = "idle" /\ Goto(c, "enter")
  /\ UNCHANGED <<cancelled, held, val, refs, timer, clock, closed, open, doomed, budget>>

\* The context of the call is done: at any time, while it runs.
Cancel(c) ==
  /\ pc[c] \in {"enter", "wait", "woken", "loading"} /\ c \notin cancelled
  /\ Spend("cancel") /\ cancelled' = cancelled \cup {c}
  /\ UNCHANGED <<pc, held, val, refs, timer, clock, closed, open, doomed>>

RefuseClosed(c) ==
  /\ AtSwitch(c) /\ closed /\ Goto(c, "idle") /\ Return(c)
  /\ UNCHANGED <<held, val, refs, timer, clock, closed, open, doomed, budget>>

AcquireWarm(c) ==
  /\ AtSwitch(c) /\ ~closed /\ loaded
  /\ Goto(c, "holding") /\ Return(c) /\ held' = [held EXCEPT ![c] = val]
  /\ refs' = refs + 1 /\ stopTimerLocked
  /\ UNCHANGED <<val, closed, open, doomed, budget>>

\* Another caller is loading: wait on its channel.
Wait(c) ==
  /\ AtSwitch(c) /\ ~closed /\ ~loaded /\ Loading # {} /\ Goto(c, "wait")
  /\ UNCHANGED <<cancelled, held, val, refs, timer, clock, closed, open, doomed, budget>>

\* select may take ctx.Done even when the channel is closed too.
GiveUp(c) ==
  /\ pc[c] \in {"wait", "woken"} /\ c \in cancelled /\ Goto(c, "idle") /\ Return(c)
  /\ UNCHANGED <<held, val, refs, timer, clock, closed, open, doomed, budget>>

\* This caller owns the load.
BrokenMayLoad(c) == AtSwitch(c) /\ ~closed /\ ~loaded
MayLoad(c) == AtSwitch(c) /\ ~closed /\ ~loaded /\ Loading = {}
StartLoad(c) ==
  /\ MayLoad(c) /\ Goto(c, "loading")
  /\ UNCHANGED <<cancelled, held, val, refs, timer, clock, closed, open, doomed, budget>>

\* The load is over and the channel closed: every waiter looks again.
BrokenLoadOver(c, where) == Goto(c, where)
LoadOver(c, where) == pc' = [d \in Callers |->
  IF d = c THEN where ELSE IF pc[d] = "wait" THEN "woken" ELSE pc[d]]

LoadFailed(c) ==
  /\ pc[c] = "loading" /\ Spend("fail") /\ LoadOver(c, "idle") /\ Return(c)
  /\ UNCHANGED <<held, val, refs, timer, clock, closed, open, doomed>>

\* A bundle that comes after Close or for a cancelled caller is closed again.
Unwanted(c) == closed \/ c \in cancelled
LoadDiscarded(c) ==
  /\ pc[c] = "loading" /\ Unwanted(c) /\ LoadOver(c, "idle") /\ Return(c)
  /\ \E b \in Bundles \ open : open' = open \cup {b} /\ doomed' = doomed \cup {b}
  /\ UNCHANGED <<held, val, refs, timer, clock, closed, budget>>

LoadCommitted(c) ==
  /\ pc[c] = "loading" /\ ~Unwanted(c) /\ LoadOver(c, "holding") /\ Return(c)
  /\ \E b \in Bundles \ open :
       open' = open \cup {b} /\ val' = b /\ held' = [held EXCEPT ![c] = b]
  /\ refs' = refs + 1
  /\ UNCHANGED <<timer, clock, closed, doomed, budget>>

-----------------------------------------------------------------------------
(* release, the idle callback and Close.                                     *)

\* The bundle leaves the Lifecycle; its Close call follows outside the lock.
Unload == val' = NoBundle /\ doomed' = doomed \cup {val}

\* A deferred Close is carried out by the last holder; otherwise the countdown
\* starts.  (A holder is about to leave, so the bundle is loaded.)
BrokenLastOut == armTimerLocked /\ UNCHANGED <<val, doomed>>
LastOut == IF closed THEN Unload /\ UNCHANGED <<timer, clock>>
           ELSE armTimerLocked /\ UNCHANGED <<val, doomed>>
Release(c) ==
  /\ pc[c] = "holding" /\ Goto(c, "idle") /\ held' = [held EXCEPT ![c] = NoBundle]
  /\ refs' = refs - 1
  /\ IF refs' = 0 THEN LastOut ELSE UNCHANGED <<val, doomed, timer, clock>>
  /\ UNCHANGED <<cancelled, closed, open, budget>>

BrokenIdleNow == loaded /\ ~closed
IdleNow == loaded /\ ~closed /\ refs = 0
idleUnload(t) ==
  /\ clock[t] = Fired /\ clock' = [clock EXCEPT ![t] = Free]
  /\ IF IdleNow THEN Unload /\ timer' = NoTimer ELSE UNCHANGED <<val, doomed, timer>>
  /\ UNCHANGED <<pc, cancelled, held, refs, closed, open, budget>>

Close ==
  /\ ~closed /\ closed' = TRUE /\ stopTimerLocked
  /\ IF refs = 0 /\ loaded THEN Unload ELSE UNCHANGED <<val, doomed>>
  /\ UNCHANGED <<pc, cancelled, held, refs, open, budget>>

\* The bundle's own Close returns and its memory is free.
CloseBundle(b) ==
  /\ b \in doomed /\ doomed' = doomed \ {b} /\ open' = open \ {b}
  /\ UNCHANGED <<pc, cancelled, held, val, refs, timer, clock, closed, budget>>

\* Time passes; a timer with no ticks left fires, late or not.
Ticking(t) == clock[t].st = "armed" /\ clock[t].left > 0
Tick ==
  /\ \E t \in Timers : Ticking(t)
  /\ clock' = [t \in Timers |-> IF Ticking(t) THEN Armed(clock[t].left - 1) ELSE clock[t]]
  /\ UNCHANGED <<pc, cancelled, held, val, refs, timer, closed, open, doomed, budget>>
Expire(t) ==
  /\ clock[t] = Armed(0) /\ clock' = [clock EXCEPT ![t] = Fired]
  /\ UNCHANGED <<pc, cancelled, held, val, refs, timer, closed, open, doomed, budget>>

Init ==
  /\ pc = [c \in Callers |-> "idle"] /\ cancelled = {}
  /\ held = [c \in Callers |-> NoBundle]
  /\ val = NoBundle /\ refs = 0
  /\ timer = NoTimer /\ clock = [t \in Timers |-> Free]
  /\ closed = FALSE /\ open = {} /\ doomed = {}
  /\ budget = [fail |-> MaxFailures, cancel |-> MaxCancels]

Acquire(c) == \/ RefuseClosed(c) \/ AcquireWarm(c) \/ Wait(c) \/ GiveUp(c)
              \/ StartLoad(c) \/ LoadFailed(c) \/ LoadDiscarded(c) \/ LoadCommitted(c)
Next == \/ \E c \in Callers : Enter(c) \/ Cancel(c) \/ Acquire(c) \/ Release(c)
        \/ \E t \in Timers : Expire(t) \/ idleUnload(t)
        \/ \E b \in Bundles : CloseBundle(b)
        \/ Close \/ Tick
Spec == Init /\ [][Next]_vars

\* A goroutine inside Acquire goes on, a load ends, an inference ends and its
\* caller releases (both callers defer the release), callbacks run, bundles are
\* closed and time passes.  The fairness on AcquireWarm is strong: a goroutine the
\* load woke gets the lock well before others can use the bundle, release it,
\* let it idle for IdleTTL and load again, time after time.  Nobody owes a call
\* of Acquire, a cancellation or Close.
Fairness == /\ \A c \in Callers : WF_vars(Acquire(c)) /\ SF_vars(AcquireWarm(c))
                                /\ WF_vars(Release(c))
            /\ \A t \in Timers : WF_vars(Expire(t)) /\ WF_vars(idleUnload(t))
            /\ \A b \in Bundles : WF_vars(CloseBundle(b))
            /\ WF_vars(Tick)
FairSpec == Spec /\ Fairness

-----------------------------------------------------------------------------
(* Properties.                                                               *)

\* Every variable stays in its type.
TypeOK ==
  /\ pc \in [Callers -> {"idle", "enter", "wait", "woken", "loading", "holding"}]
  /\ cancelled \subseteq Callers
  /\ held \in [Callers -> Bundles \cup {NoBundle}]
  /\ val \in Bundles \cup {NoBundle} /\ refs \in Nat
  /\ timer \in Timers \cup {NoTimer}
  /\ clock \in [Timers -> [st : {"free", "armed", "fired"}, left : 0..IdleTTL]]
  /\ closed \in BOOLEAN
  /\ open \subseteq Bundles /\ doomed \subseteq Bundles
  /\ budget \in [fail : Nat, cancel : Nat]

\* "An in-flight inference is never unloaded mid-use": what a holder got from
\* Acquire is the bundle the Lifecycle has, and nobody is about to close it.
HeldIsPinned ==
  \A c \in Holders : held[c] = val /\ held[c] \in open \ doomed

\* A bundle in memory is the one the Lifecycle has or is about to be closed:
\* a load that races Close, a cancellation or an unload leaks nothing.
NothingLeaked == open = doomed \cup (IF loaded THEN {val} ELSE {})

\* "Loads are single-flight", and nobody loads while a bundle is loaded.
SingleFlight == /\ \A c, d \in Loading : c = d
                /\ Loading # {} => ~loaded

\* After Close the bundle survives only as long as somebody holds it.
ClosedIsEmpty == closed /\ Holders = {} => ~loaded

\* An idle bundle has a callback under way that will unload it: neither a stale
\* callback, which forgets Lifecycle.timer, nor a stop that comes too late
\* leaves it in memory for ever.
IdleIsTimed == loaded /\ refs = 0 /\ IdleTTL > 0 => \E t \in Timers : clock[t] # Free

\* The leases of ModelLease: reference counting, late loads and late timer
\* callbacks never evict a copy in use, nor offer one after the shutdown.
Lease == INSTANCE ModelLease WITH lease <- held, warm <- val, shut <- closed
ImplementsLease == Lease!LeaseSpec

\* A call of Acquire returns while loads fail and contexts end finitely often.
AcquireReturns == \A c \in Callers : pc[c] = "enter" ~> pc[c] \in {"idle", "holding"}

\* After Close the memory is given back.
CloseFreesAll == closed ~> open = {}
=============================================================================
