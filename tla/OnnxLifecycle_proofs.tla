------------------------- MODULE OnnxLifecycle_proofs -------------------------
(****************************************************************************)
(* Proofs about OnnxLifecycle for every number of callers, bundles and       *)
(* timers and every IdleTTL.                                                 *)
(*                                                                           *)
(* The inductive invariant adds to the checked ones that refs counts the     *)
(* holders exactly and that the loaded bundle is not one about to be closed. *)
(* With it the implementation of ModelLease is a step-by-step matter.        *)
(****************************************************************************)
EXTENDS OnnxLifecycle, FiniteSetTheorems, TLAPS

RefsExact == IsFiniteSet(Holders) /\ refs = Cardinality(Holders)
OnlyHoldersHold == \A c \in Callers : pc[c] # "holding" => held[c] = NoBundle
LoadedIsKept == loaded => val \notin doomed

IInv == /\ TypeOK /\ RefsExact /\ OnlyHoldersHold /\ LoadedIsKept
        /\ HeldIsPinned /\ NothingLeaked /\ SingleFlight /\ ClosedIsEmpty /\ IdleIsTimed

-----------------------------------------------------------------------------
(* Counting.                                                                 *)

\* A caller that becomes a holder adds one reference.
LEMMA OneMore ==
  ASSUME RefsExact, NEW c \in Callers, c \notin Holders, Holders' = Holders \cup {c},
         refs' = refs + 1
  PROVE  RefsExact' /\ refs' > 0 /\ refs' \in Nat
<1>1. IsFiniteSet(Holders') /\ Cardinality(Holders') = Cardinality(Holders) + 1
  BY FS_AddElement DEF RefsExact
<1>2. Cardinality(Holders) \in Nat
  BY FS_CardinalityType DEF RefsExact
<1> QED BY <1>1, <1>2 DEF RefsExact

\* A holder that releases takes one away, and the count is 0 exactly when it
\* was the last one.
LEMMA OneLess ==
  ASSUME RefsExact, NEW c \in Callers, c \in Holders, Holders' = Holders \ {c},
         refs' = refs - 1
  PROVE  RefsExact' /\ refs' \in Nat /\ (refs' = 0 <=> Holders' = {})
<1>1. IsFiniteSet(Holders') /\ Cardinality(Holders') = Cardinality(Holders) - 1
  BY FS_RemoveElement DEF RefsExact
<1>2. Cardinality(Holders') \in Nat
  BY <1>1, FS_CardinalityType
<1>3. Cardinality(Holders') = 0 <=> Holders' = {}
  BY <1>1, FS_EmptySet
<1> QED BY <1>1, <1>2, <1>3 DEF RefsExact

\* No reference, no holder.
LEMMA NoRefs ==
  ASSUME RefsExact
  PROVE  refs = 0 <=> Holders = {}
BY FS_EmptySet DEF RefsExact

-----------------------------------------------------------------------------
(* Timers.                                                                   *)

\* Stopping a timer keeps the types of the timers.
LEMMA StopTyped ==
  ASSUME TypeOK, stopTimerLocked
  PROVE  /\ timer' \in Timers \cup {NoTimer}
         /\ clock' \in [Timers -> [st : {"free", "armed", "fired"}, left : 0..IdleTTL]]
BY LifecycleAssumption DEF TypeOK, stopTimerLocked, Stopped, Free

\* Arming one does too, and leaves a timer that will fire.
LEMMA ArmTyped ==
  ASSUME TypeOK, armTimerLocked
  PROVE  /\ timer' \in Timers \cup {NoTimer}
         /\ clock' \in [Timers -> [st : {"free", "armed", "fired"}, left : 0..IdleTTL]]
         /\ IdleTTL > 0 => \E t \in Timers : clock'[t] # Free
<1>1. CASE IdleTTL = 0
  BY <1>1 DEF TypeOK, armTimerLocked
<1>2. CASE IdleTTL # 0
  <2>1. PICK t \in Timers : /\ timer' = t
                            /\ clock' = [Stopped(timer) EXCEPT ![t] = Armed(IdleTTL)]
    BY <1>2 DEF armTimerLocked
  <2>2. Stopped(timer) \in [Timers -> [st : {"free", "armed", "fired"}, left : 0..IdleTTL]]
    BY LifecycleAssumption DEF TypeOK, Stopped, Free
  <2>3. Armed(IdleTTL) \in [st : {"free", "armed", "fired"}, left : 0..IdleTTL]
    BY LifecycleAssumption DEF Armed
  <2>4. clock'[t] # Free
    BY <2>1, <2>2 DEF Armed, Free
  <2> QED BY <2>1, <2>2, <2>3, <2>4
<1> QED BY <1>1, <1>2

-----------------------------------------------------------------------------
(* The invariant holds at first and every step keeps it.                     *)

\* The empty lifecycle satisfies the invariant.
LEMMA InitInv == Init => IInv
<1> SUFFICES ASSUME Init PROVE IInv
  OBVIOUS
<1>1. Holders = {} /\ Loading = {}
  BY DEF Init, Holders, Loading
<1>2. TypeOK
  <2>1. IdleTTL \in Nat /\ MaxFailures \in Nat /\ MaxCancels \in Nat
    BY LifecycleAssumption
  <2>2. Free \in [st : {"free", "armed", "fired"}, left : 0..IdleTTL]
    BY <2>1 DEF Init, Free
  <2>3. clock \in [Timers -> [st : {"free", "armed", "fired"}, left : 0..IdleTTL]]
    BY <2>2 DEF Init
  <2>4. budget \in [fail : Nat, cancel : Nat]
    BY <2>1 DEF Init
  <2> QED BY <2>2, <2>3, <2>4 DEF Init, TypeOK
<1>3. RefsExact
  BY <1>1, FS_EmptySet DEF Init, RefsExact
<1> QED BY <1>1, <1>2, <1>3 DEF Init, IInv, OnlyHoldersHold, LoadedIsKept, HeldIsPinned,
           NothingLeaked, SingleFlight, ClosedIsEmpty, IdleIsTimed, loaded

\* Steps that only move a caller about, outside the critical states.
LEMMA MoveInv ==
  ASSUME IInv, NEW c \in Callers,
         \/ Enter(c) \/ Cancel(c) \/ RefuseClosed(c) \/ Wait(c) \/ GiveUp(c) \/ LoadFailed(c)
  PROVE  IInv'
<1> USE DEF IInv
<1>1. /\ UNCHANGED <<held, val, refs, timer, clock, closed, open, doomed>>
      /\ Holders' = Holders /\ Loading' \subseteq Loading
      /\ pc' \in [Callers -> {"idle", "enter", "wait", "woken", "loading", "holding"}]
      /\ cancelled' \subseteq Callers
  BY DEF TypeOK, Enter, Cancel, RefuseClosed, Wait, GiveUp, LoadFailed, Goto, Return,
         LoadOver, AtSwitch, Holders, Loading
<1>2. budget' \in [fail : Nat, cancel : Nat]
  BY DEF TypeOK, Enter, Cancel, RefuseClosed, Wait, GiveUp, LoadFailed, Spend
<1>3. TypeOK'
  BY <1>1, <1>2 DEF TypeOK
<1>4. RefsExact' /\ HeldIsPinned' /\ ClosedIsEmpty'
  BY <1>1 DEF RefsExact, HeldIsPinned, ClosedIsEmpty, loaded
<1>5. OnlyHoldersHold'
  BY <1>1 DEF OnlyHoldersHold, Holders
<1>6. LoadedIsKept' /\ NothingLeaked' /\ SingleFlight' /\ IdleIsTimed'
  BY <1>1 DEF LoadedIsKept, NothingLeaked, SingleFlight, IdleIsTimed, loaded
<1> QED BY <1>3, <1>4, <1>5, <1>6

\* A load may start: nobody else is loading and nothing is loaded.
LEMMA StartLoadInv ==
  ASSUME IInv, NEW c \in Callers, StartLoad(c)
  PROVE  IInv'
<1> USE DEF IInv
<1>1. /\ Holders' = Holders /\ Loading' = {c} /\ ~loaded
      /\ UNCHANGED <<cancelled, held, val, refs, timer, clock, closed, open, doomed,
                     budget>>
      /\ pc' = [pc EXCEPT ![c] = "loading"]
  BY DEF TypeOK, StartLoad, MayLoad, AtSwitch, Goto, Holders, Loading
<1>2. TypeOK'
  BY <1>1 DEF TypeOK
<1>3. RefsExact' /\ HeldIsPinned' /\ ClosedIsEmpty'
  BY <1>1 DEF RefsExact, HeldIsPinned, ClosedIsEmpty, loaded
<1>4. OnlyHoldersHold'
  BY <1>1 DEF OnlyHoldersHold, Holders
<1>5. LoadedIsKept' /\ NothingLeaked' /\ SingleFlight' /\ IdleIsTimed'
  BY <1>1 DEF LoadedIsKept, NothingLeaked, SingleFlight, IdleIsTimed, loaded
<1> QED BY <1>2, <1>3, <1>4, <1>5

\* A caller joins the holders of the loaded bundle.
LEMMA AcquireWarmInv ==
  ASSUME IInv, NEW c \in Callers, AcquireWarm(c)
  PROVE  IInv'
<1> USE DEF IInv
<1>1. /\ c \notin Holders /\ Holders' = Holders \cup {c} /\ Loading' \subseteq Loading
      /\ loaded /\ ~closed /\ held' = [held EXCEPT ![c] = val] /\ refs' = refs + 1
      /\ UNCHANGED <<val, closed, open, doomed, budget>>
      /\ pc' = [pc EXCEPT ![c] = "holding"] /\ cancelled' \subseteq cancelled
  BY DEF TypeOK, AcquireWarm, AtSwitch, Goto, Return, Holders, Loading
<1>2. RefsExact' /\ refs' > 0 /\ refs' \in Nat
  BY <1>1, OneMore
<1>3. TypeOK'
  BY <1>1, <1>2, StopTyped, LifecycleAssumption DEF AcquireWarm, TypeOK
<1>4. HeldIsPinned'
  BY <1>1 DEF HeldIsPinned, NothingLeaked, LoadedIsKept, TypeOK, Holders
<1>5. OnlyHoldersHold'
  BY <1>1 DEF OnlyHoldersHold, TypeOK
<1>6. LoadedIsKept' /\ NothingLeaked' /\ SingleFlight' /\ ClosedIsEmpty' /\ IdleIsTimed'
  BY <1>1, <1>2 DEF LoadedIsKept, NothingLeaked, SingleFlight, ClosedIsEmpty, IdleIsTimed, loaded
<1> QED BY <1>2, <1>3, <1>4, <1>5, <1>6

\* A bundle nobody wants any more goes straight to its Close call.
LEMMA LoadDiscardedInv ==
  ASSUME IInv, NEW c \in Callers, LoadDiscarded(c)
  PROVE  IInv'
<1> USE DEF IInv
<1>1. PICK b \in Bundles \ open : open' = open \cup {b} /\ doomed' = doomed \cup {b}
  BY DEF LoadDiscarded
<1>2. /\ Holders' = Holders /\ Loading' \subseteq Loading
      /\ UNCHANGED <<held, val, refs, timer, clock, closed, budget>>
      /\ pc' \in [Callers -> {"idle", "enter", "wait", "woken", "loading", "holding"}]
      /\ cancelled' \subseteq cancelled
  BY DEF TypeOK, LoadDiscarded, LoadOver, Return, Holders, Loading
<1>3. TypeOK'
  BY <1>1, <1>2 DEF TypeOK
<1>4. RefsExact' /\ ClosedIsEmpty'
  BY <1>2 DEF RefsExact, ClosedIsEmpty, loaded
<1>5. HeldIsPinned'
  BY <1>1, <1>2 DEF HeldIsPinned
<1>6. OnlyHoldersHold'
  BY <1>2 DEF OnlyHoldersHold, Holders
<1>7. LoadedIsKept' /\ NothingLeaked'
  BY <1>1, <1>2 DEF LoadedIsKept, NothingLeaked, loaded
<1>8. SingleFlight' /\ IdleIsTimed'
  BY <1>2 DEF SingleFlight, IdleIsTimed, loaded
<1> QED BY <1>3, <1>4, <1>5, <1>6, <1>7, <1>8

\* The loader becomes the first holder: nothing was loaded, so nobody held.
LEMMA LoadCommittedInv ==
  ASSUME IInv, NEW c \in Callers, LoadCommitted(c)
  PROVE  IInv'
<1> USE DEF IInv
<1>1. PICK b \in Bundles \ open :
        open' = open \cup {b} /\ val' = b /\ held' = [held EXCEPT ![c] = b]
  BY DEF LoadCommitted
<1>2. /\ c \notin Holders /\ Holders' = Holders \cup {c} /\ Loading' = Loading \ {c}
      /\ ~closed /\ refs' = refs + 1
      /\ UNCHANGED <<timer, clock, closed, doomed, budget>>
      /\ pc' \in [Callers -> {"idle", "enter", "wait", "woken", "loading", "holding"}]
      /\ cancelled' \subseteq cancelled /\ c \in Loading
  BY DEF TypeOK, LoadCommitted, LoadOver, Unwanted, Return, Holders, Loading
<1>3. ~loaded /\ Holders = {} /\ Loading' = {} /\ b # NoBundle
  <2>1. ~loaded /\ Loading' = {}
    BY <1>2 DEF SingleFlight
  <2>2. Holders = {}
    BY <2>1, LifecycleAssumption DEF HeldIsPinned, loaded, TypeOK
  <2> QED BY <2>1, <2>2, <1>1, LifecycleAssumption
<1>4. RefsExact' /\ refs' > 0 /\ refs' \in Nat
  BY <1>2, OneMore
<1>5. TypeOK'
  <2>1. held' \in [Callers -> Bundles \cup {NoBundle}] /\ val' \in Bundles
    BY <1>1 DEF TypeOK
  <2> QED BY <1>1, <1>2, <1>4, <2>1, LifecycleAssumption DEF TypeOK
<1>6. NothingLeaked' /\ LoadedIsKept' /\ doomed \subseteq open
  BY <1>1, <1>2, <1>3 DEF NothingLeaked, LoadedIsKept, loaded
<1>7. HeldIsPinned'
  BY <1>1, <1>2, <1>3, <1>6 DEF HeldIsPinned, TypeOK
<1>8. OnlyHoldersHold'
  BY <1>1, <1>2 DEF OnlyHoldersHold, TypeOK, Holders
<1>9. SingleFlight' /\ ClosedIsEmpty' /\ IdleIsTimed'
  BY <1>2, <1>3, <1>4 DEF SingleFlight, ClosedIsEmpty, IdleIsTimed, loaded
<1> QED BY <1>4, <1>5, <1>6, <1>7, <1>8, <1>9

\* The last holder closes or arms; the others only count down.
LEMMA ReleaseInv ==
  ASSUME IInv, NEW c \in Callers, Release(c)
  PROVE  IInv'
<1> USE DEF IInv
<1>1. /\ c \in Holders /\ Holders' = Holders \ {c} /\ Loading' = Loading
      /\ held' = [held EXCEPT ![c] = NoBundle] /\ refs' = refs - 1
      /\ UNCHANGED <<cancelled, closed, open, budget>>
      /\ pc' = [pc EXCEPT ![c] = "idle"]
  BY DEF TypeOK, Release, Goto, Holders, Loading
<1>2. RefsExact' /\ refs' \in Nat /\ (refs' = 0 <=> Holders' = {})
  BY <1>1, OneLess
<1>3. loaded /\ val \in Bundles /\ val \in open /\ val \notin doomed
  BY <1>1, LifecycleAssumption DEF HeldIsPinned, TypeOK, loaded
<1>4. OnlyHoldersHold'
  BY <1>1 DEF OnlyHoldersHold, TypeOK
<1>5. CASE refs' # 0
  <2>1. UNCHANGED <<val, doomed, timer, clock>>
    BY <1>5 DEF Release
  <2>2. TypeOK'
    BY <1>1, <1>2, <2>1, LifecycleAssumption DEF TypeOK
  <2>3. HeldIsPinned'
    BY <1>1, <2>1 DEF HeldIsPinned, TypeOK, Holders
  <2>4. LoadedIsKept' /\ NothingLeaked' /\ SingleFlight' /\ ClosedIsEmpty' /\ IdleIsTimed'
    BY <1>1, <1>2, <1>5, <2>1 DEF LoadedIsKept, NothingLeaked, SingleFlight, ClosedIsEmpty,
       IdleIsTimed, loaded
  <2> QED BY <1>2, <1>4, <2>2, <2>3, <2>4
<1>6. CASE refs' = 0 /\ closed
  <2>1. Unload /\ UNCHANGED <<timer, clock>>
    BY <1>6 DEF Release, LastOut
  <2>2. TypeOK'
    BY <1>1, <1>2, <1>3, <2>1, LifecycleAssumption DEF TypeOK, Unload
  <2>3. HeldIsPinned'
    BY <1>2, <1>6 DEF HeldIsPinned
  <2>4. LoadedIsKept' /\ NothingLeaked' /\ SingleFlight' /\ ClosedIsEmpty' /\ IdleIsTimed'
    BY <1>1, <1>3, <2>1 DEF LoadedIsKept, NothingLeaked, SingleFlight, ClosedIsEmpty,
       IdleIsTimed, loaded, Unload
  <2> QED BY <1>2, <1>4, <2>2, <2>3, <2>4
<1>7. CASE refs' = 0 /\ ~closed
  <2>1. armTimerLocked /\ UNCHANGED <<val, doomed>>
    BY <1>7 DEF Release, LastOut
  <2>2. TypeOK'
    BY <1>1, <1>2, <2>1, ArmTyped, LifecycleAssumption DEF TypeOK
  <2>3. HeldIsPinned'
    BY <1>2, <1>7 DEF HeldIsPinned
  <2>4. IdleIsTimed'
    BY <2>1, ArmTyped DEF IdleIsTimed
  <2>5. LoadedIsKept' /\ NothingLeaked' /\ SingleFlight' /\ ClosedIsEmpty'
    BY <1>1, <1>7, <2>1 DEF LoadedIsKept, NothingLeaked, SingleFlight, ClosedIsEmpty, loaded
  <2> QED BY <1>2, <1>4, <2>2, <2>3, <2>4, <2>5
<1> QED BY <1>5, <1>6, <1>7

\* A callback, stale or not, unloads only what nobody holds.
LEMMA IdleUnloadInv ==
  ASSUME IInv, NEW t \in Timers, idleUnload(t)
  PROVE  IInv'
<1> USE DEF IInv
<1>1. /\ UNCHANGED <<pc, cancelled, held, refs, closed, open, budget>>
      /\ clock' = [clock EXCEPT ![t] = Free]
      /\ Holders' = Holders /\ Loading' = Loading
  BY DEF idleUnload, Holders, Loading
<1>2. clock' \in [Timers -> [st : {"free", "armed", "fired"}, left : 0..IdleTTL]]
  BY <1>1, LifecycleAssumption DEF TypeOK, Free
<1>3. RefsExact' /\ OnlyHoldersHold'
  BY <1>1 DEF RefsExact, OnlyHoldersHold
<1>4. CASE IdleNow
  <2>1. Unload /\ timer' = NoTimer
    BY <1>4 DEF idleUnload
  <2>2. Holders = {}
    BY <1>4, NoRefs DEF IdleNow
  <2>3. TypeOK'
    BY <1>1, <1>2, <1>4, <2>1 DEF TypeOK, Unload, IdleNow, loaded
  <2>4. LoadedIsKept' /\ NothingLeaked' /\ SingleFlight' /\ ClosedIsEmpty' /\ IdleIsTimed'
    BY <1>1, <1>4, <2>1 DEF LoadedIsKept, NothingLeaked, SingleFlight, ClosedIsEmpty,
       IdleIsTimed, loaded, Unload, IdleNow
  <2>5. HeldIsPinned'
    BY <1>1, <2>2 DEF HeldIsPinned
  <2> QED BY <1>3, <2>3, <2>4, <2>5
<1>5. CASE ~IdleNow
  <2>1. UNCHANGED <<val, doomed, timer>>
    BY <1>5 DEF idleUnload
  <2>2. TypeOK'
    BY <1>1, <1>2, <2>1 DEF TypeOK
  <2>3. LoadedIsKept' /\ NothingLeaked' /\ SingleFlight' /\ ClosedIsEmpty' /\ HeldIsPinned'
    BY <1>1, <2>1 DEF LoadedIsKept, NothingLeaked, SingleFlight, ClosedIsEmpty, HeldIsPinned, loaded
  <2>4. IdleIsTimed'
    <3>1. ~(loaded /\ refs = 0)
      BY <1>5, NoRefs DEF IdleNow, ClosedIsEmpty
    <3> QED BY <1>1, <2>1, <3>1 DEF IdleIsTimed, loaded
  <2> QED BY <1>3, <2>2, <2>3, <2>4
<1> QED BY <1>4, <1>5

\* Close unloads at once or leaves it to the last holder.
LEMMA CloseInv ==
  ASSUME IInv, Close
  PROVE  IInv'
<1> USE DEF IInv
<1>1. /\ UNCHANGED <<pc, cancelled, held, refs, open, budget>> /\ closed' = TRUE
      /\ stopTimerLocked /\ Holders' = Holders /\ Loading' = Loading
  BY DEF Close, Holders, Loading
<1>2. RefsExact' /\ OnlyHoldersHold'
  BY <1>1 DEF RefsExact, OnlyHoldersHold
<1>3. CASE refs = 0 /\ loaded
  <2>1. Unload
    BY <1>3 DEF Close
  <2>2. Holders = {}
    BY <1>3, NoRefs
  <2>3. TypeOK'
    BY <1>1, <1>3, <2>1, StopTyped DEF TypeOK, Unload, loaded
  <2>4. LoadedIsKept' /\ NothingLeaked' /\ SingleFlight' /\ ClosedIsEmpty' /\ IdleIsTimed'
    BY <1>1, <1>3, <2>1 DEF LoadedIsKept, NothingLeaked, SingleFlight, ClosedIsEmpty,
       IdleIsTimed, loaded, Unload
  <2>5. HeldIsPinned'
    BY <1>1, <2>2 DEF HeldIsPinned
  <2> QED BY <1>2, <2>3, <2>4, <2>5
<1>4. CASE ~(refs = 0 /\ loaded)
  <2>1. UNCHANGED <<val, doomed>>
    BY <1>4 DEF Close
  <2>2. TypeOK'
    BY <1>1, <2>1, StopTyped DEF TypeOK
  <2>3. LoadedIsKept' /\ NothingLeaked' /\ SingleFlight' /\ HeldIsPinned' /\ IdleIsTimed'
    BY <1>1, <1>4, <2>1 DEF LoadedIsKept, NothingLeaked, SingleFlight, HeldIsPinned,
       IdleIsTimed, loaded
  <2>4. ClosedIsEmpty'
    BY <1>1, <1>4, <2>1, NoRefs DEF ClosedIsEmpty, loaded
  <2> QED BY <1>2, <2>2, <2>3, <2>4
<1> QED BY <1>3, <1>4

\* Time, expiring timers and finished Close calls.
LEMMA RuntimeInv ==
  ASSUME IInv, \/ Tick \/ (\E t \in Timers : Expire(t)) \/ (\E b \in Bundles : CloseBundle(b))
  PROVE  IInv'
<1> USE DEF IInv
<1>1. /\ UNCHANGED <<pc, cancelled, held, val, refs, timer, closed, budget>>
      /\ Holders' = Holders /\ Loading' = Loading
  BY DEF Tick, Expire, CloseBundle, Holders, Loading
<1>2. RefsExact' /\ OnlyHoldersHold' /\ SingleFlight' /\ ClosedIsEmpty'
  BY <1>1 DEF RefsExact, OnlyHoldersHold, SingleFlight, ClosedIsEmpty, loaded
<1>3. CASE Tick
  <2>1. UNCHANGED <<open, doomed>>
        /\ clock' = [t \in Timers |-> IF Ticking(t) THEN Armed(clock[t].left - 1) ELSE clock[t]]
    BY <1>3 DEF Tick
  <2>2. clock' \in [Timers -> [st : {"free", "armed", "fired"}, left : 0..IdleTTL]]
    BY <2>1, LifecycleAssumption DEF TypeOK, Ticking, Armed
  <2>3. TypeOK'
    BY <1>1, <2>1, <2>2 DEF TypeOK
  <2>4. LoadedIsKept' /\ NothingLeaked' /\ HeldIsPinned'
    BY <1>1, <2>1 DEF LoadedIsKept, NothingLeaked, HeldIsPinned, loaded
  <2>5. \A t \in Timers : clock[t] # Free => clock'[t] # Free
    BY <2>1 DEF Ticking, Armed, Free
  <2>6. IdleIsTimed'
    BY <1>1, <2>5 DEF IdleIsTimed, loaded
  <2> QED BY <1>2, <2>3, <2>4, <2>6
<1>4. ASSUME NEW t \in Timers, Expire(t) PROVE IInv'
  <2>1. UNCHANGED <<open, doomed>> /\ clock' = [clock EXCEPT ![t] = Fired]
    BY <1>4 DEF Expire
  <2>2. TypeOK'
    BY <1>1, <2>1, LifecycleAssumption DEF TypeOK, Fired
  <2>3. LoadedIsKept' /\ NothingLeaked' /\ HeldIsPinned'
    BY <1>1, <2>1 DEF LoadedIsKept, NothingLeaked, HeldIsPinned, loaded
  <2>4. clock'[t] # Free
    BY <2>1 DEF TypeOK, Fired, Free
  <2>5. IdleIsTimed'
    BY <2>4 DEF IdleIsTimed
  <2> QED BY <1>2, <2>2, <2>3, <2>5
<1>5. ASSUME NEW b \in Bundles, CloseBundle(b) PROVE IInv'
  <2>1. UNCHANGED <<clock>> /\ b \in doomed
        /\ doomed' = doomed \ {b} /\ open' = open \ {b}
    BY <1>5 DEF CloseBundle
  <2>2. TypeOK'
    BY <1>1, <2>1 DEF TypeOK
  <2>3. LoadedIsKept' /\ NothingLeaked'
    BY <1>1, <2>1 DEF LoadedIsKept, NothingLeaked, loaded
  <2>4. HeldIsPinned'
    BY <1>1, <2>1 DEF HeldIsPinned
  <2>5. IdleIsTimed'
    BY <1>1, <2>1 DEF IdleIsTimed, loaded
  <2> QED BY <1>2, <2>2, <2>3, <2>4, <2>5
<1> QED BY <1>3, <1>4, <1>5

\* The invariant is inductive.
LEMMA Inductive == IInv /\ [Next]_vars => IInv'
<1> SUFFICES ASSUME IInv, [Next]_vars PROVE IInv'
  OBVIOUS
<1>1. CASE UNCHANGED vars
  BY <1>1 DEF vars, IInv, TypeOK, RefsExact, OnlyHoldersHold, LoadedIsKept, HeldIsPinned,
     NothingLeaked, SingleFlight, ClosedIsEmpty, IdleIsTimed, loaded, Holders, Loading
<1>2. CASE Next
  BY <1>2, MoveInv, StartLoadInv, AcquireWarmInv, LoadDiscardedInv, LoadCommittedInv,
     ReleaseInv, IdleUnloadInv, CloseInv, RuntimeInv DEF Next, Acquire
<1> QED BY <1>1, <1>2

\* In every reachable state.
LEMMA Invariant == Spec => []IInv
<1> QED BY InitInv, Inductive, PTL DEF Spec

-----------------------------------------------------------------------------
(* The results.                                                              *)

\* Every variable keeps its type: in particular refs never goes below 0.
THEOREM TypeCorrect == Spec => []TypeOK
<1>1. IInv => TypeOK
  BY DEF IInv
<1> QED BY Invariant, <1>1, PTL

\* A bundle in use is the loaded one and is never closed under its user.
THEOREM Pinned == Spec => []HeldIsPinned
<1>1. IInv => HeldIsPinned
  BY DEF IInv
<1> QED BY Invariant, <1>1, PTL

\* No bundle is left in memory without an owner.
THEOREM NoLeak == Spec => []NothingLeaked
<1>1. IInv => NothingLeaked
  BY DEF IInv
<1> QED BY Invariant, <1>1, PTL

\* Loads are single-flight.
THEOREM OneLoad == Spec => []SingleFlight
<1>1. IInv => SingleFlight
  BY DEF IInv
<1> QED BY Invariant, <1>1, PTL

\* An idle bundle always has a callback to come.
THEOREM Timed == Spec => []IdleIsTimed
<1>1. IInv => IdleIsTimed
  BY DEF IInv
<1> QED BY Invariant, <1>1, PTL

\* After Close nothing is loaded that nobody holds.
THEOREM ClosedEmpty == Spec => []ClosedIsEmpty
<1>1. IInv => ClosedIsEmpty
  BY DEF IInv
<1> QED BY Invariant, <1>1, PTL

\* The steps of the lifecycle are steps of ModelLease or leave it alone.
LEMMA StepSimulation ==
  ASSUME IInv, Next
  PROVE  [Lease!LeaseNext]_(Lease!leaseVars)
<1> USE DEF IInv, Lease!leaseVars
<1>1. ASSUME NEW c \in Callers, AcquireWarm(c) PROVE Lease!Grant(c)
  BY <1>1 DEF AcquireWarm, AtSwitch, OnlyHoldersHold, Lease!Grant, loaded, TypeOK
<1>2. ASSUME NEW c \in Callers, LoadCommitted(c) PROVE Lease!Grant(c)
  <2>1. c \in Loading /\ pc[c] # "holding" /\ ~closed
    BY <1>2 DEF LoadCommitted, Loading, Unwanted
  <2>2. val = NoBundle /\ held[c] = NoBundle
    BY <2>1 DEF SingleFlight, OnlyHoldersHold, loaded
  <2> QED BY <1>2, <2>1, <2>2 DEF LoadCommitted, Lease!Grant
<1>3. ASSUME NEW c \in Callers, Release(c) PROVE Lease!GiveBack(c)
  <2>1. /\ c \in Holders /\ Holders' = Holders \ {c} /\ refs' = refs - 1 /\ closed' = closed
        /\ held' = [held EXCEPT ![c] = NoBundle]
    BY <1>3 DEF TypeOK, Release, Goto, Holders
  <2>2. held[c] # NoBundle
    BY <2>1, LifecycleAssumption DEF HeldIsPinned, TypeOK
  <2>3. refs' = 0 <=> Holders' = {}
    BY <2>1, OneLess
  <2>4. Lease!LeasedBut(c) <=> Holders' # {}
    BY <2>1, LifecycleAssumption DEF Lease!LeasedBut, OnlyHoldersHold, HeldIsPinned, TypeOK, Holders
  <2>5. val' = IF closed /\ refs' = 0 THEN NoBundle ELSE val
    BY <1>3 DEF Release, LastOut, Unload
  <2> QED BY <2>1, <2>2, <2>3, <2>4, <2>5 DEF Lease!GiveBack
<1>4. Lease!Leased <=> Holders # {}
  BY LifecycleAssumption DEF Lease!Leased, OnlyHoldersHold, HeldIsPinned, TypeOK, Holders
<1>5. ASSUME NEW t \in Timers, idleUnload(t)
      PROVE  Lease!Evict \/ UNCHANGED <<held, val, closed>>
  BY <1>4, <1>5, NoRefs DEF idleUnload, IdleNow, Unload, Lease!Evict
<1>6. ASSUME Close PROVE Lease!Shut
  BY <1>4, <1>6, NoRefs DEF Close, Unload, Lease!Shut, loaded
<1>7. ASSUME NEW c \in Callers,
             \/ Enter(c) \/ Cancel(c) \/ RefuseClosed(c) \/ Wait(c) \/ GiveUp(c)
             \/ StartLoad(c) \/ LoadFailed(c) \/ LoadDiscarded(c)
      PROVE  UNCHANGED <<held, val, closed>>
  BY <1>7 DEF Enter, Cancel, RefuseClosed, Wait, GiveUp, StartLoad, LoadFailed, LoadDiscarded
<1>8. ASSUME \/ Tick \/ (\E t \in Timers : Expire(t)) \/ (\E b \in Bundles : CloseBundle(b))
      PROVE  UNCHANGED <<held, val, closed>>
  BY <1>8 DEF Tick, Expire, CloseBundle
<1> QED BY <1>1, <1>2, <1>3, <1>5, <1>6, <1>7, <1>8 DEF Next, Acquire, Lease!LeaseNext

\* The lifecycle implements the leases of ModelLease.
THEOREM Implements == Spec => ImplementsLease
<1>1. Init => Lease!LeaseInit
  BY DEF Init, Lease!LeaseInit
<1>2. IInv /\ [Next]_vars => [Lease!LeaseNext]_(Lease!leaseVars)
  BY StepSimulation DEF vars, Lease!leaseVars
<1> QED BY Invariant, <1>1, <1>2, PTL DEF Spec, ImplementsLease, Lease!LeaseSpec
=============================================================================
