------------------------- MODULE AutomationScheduler -------------------------
(****************************************************************************)
(* The durable automation scheduler: internal/autorun (scheduler.go and the  *)
(* CRUD and run-execution half of service.go) over the automation rows of    *)
(* internal/store/automations.go.                                            *)
(*                                                                           *)
(* Actors that interleave: the scheduler goroutine (reconcile at start, then *)
(* one tick after another), one goroutine per admitted run (execute), the    *)
(* HTTP handlers that edit an automation or trigger it by hand, and the      *)
(* process itself (signal, Stop, crash, restart).  One action is one section *)
(* under Service.mu or one SQL statement: those are the atomic units of the  *)
(* code.  Time is a count of schedule slots and the next slot after now is   *)
(* now + 1.                                                                  *)
(*                                                                           *)
(* A definition whose name begins with Broken is the one below it with a     *)
(* plausible bug; PROJECT.json pairs it with the property that catches it.   *)
(****************************************************************************)
EXTENDS Integers, FiniteSets

CONSTANTS
  Autos,              \* automation ids; the store lists them ORDER BY id
  Users,
  Owner,              \* [Autos -> Users], the owner_user_id column
  Defs,               \* the definitions users may store: [trigger, policy, missed]
  Runs,               \* run ids that can exist at one time (a bound)
  Tokens,             \* pending_fire tokens that can exist at one time (a bound)
  Handlers,           \* HTTP handlers that edit automations at one time (a bound)
  MaxParallel,        \* Concurrency.MaxParallel
  MaxRunsPerUser,     \* 0 is "no cap", as in ServiceConfig
  MaxConcurrentRuns,  \* 0 is "no cap"
  MaxEnabledPerUser,  \* 0 is "no cap"
  MaxTime,            \* bound: the clock stops here
  MaxGen,             \* bound: edits of one automation
  MaxTriggers,        \* bound: manual triggers
  MaxFaults,          \* bound: store calls that fail
  MaxCrashes,         \* bound: process exits
  NoToken,            \* the empty pending_fire column
  NoRun               \* no queued replacement

Policies == {"skip_if_running", "parallel", "queue_one", "cancel_previous"}

ASSUME SchedulerAssumption ==
  /\ Autos \subseteq Nat \ {0}
  /\ IsFiniteSet(Runs)
  /\ Owner \in [Autos -> Users]
  /\ Defs # {}
  /\ Defs \subseteq [trigger : {"schedule", "manual"}, policy : Policies,
                     missed : {"skip", "run_once"}]
  /\ NoToken \notin Tokens
  /\ NoRun \notin Runs
  /\ MaxParallel \in Nat \ {0}
  /\ {MaxTime, MaxGen} \subseteq Nat \ {0}
  /\ {MaxRunsPerUser, MaxConcurrentRuns, MaxEnabledPerUser, MaxTriggers,
      MaxFaults, MaxCrashes} \subseteq Nat

VARIABLES
  row,        \* the automations table
  history,    \* the automation_runs table: status by run id, "none" when free
  active,     \* Service.active: the admitted runs of each automation
  pending,    \* Service.pending: the run id of each queued replacement
  userRuns,   \* Service.userRuns
  runSlots,   \* permits taken from Service.runSlots
  run,        \* the goroutine of each run: execute, TriggerNow, startPending
  sched,      \* the scheduler goroutine
  phase,      \* the life of the process
  req,        \* the handlers that edit automations
  now,
  budget,     \* what is left of MaxTriggers, MaxFaults and MaxCrashes
  ledger      \* history variable: what became of every claimed occurrence

durable == <<row, history>>
memory == <<active, pending, userRuns, runSlots>>
vars == <<row, history, active, pending, userRuns, runSlots, run, sched, phase,
          req, now, budget, ledger>>

-----------------------------------------------------------------------------
(* Values *)

\* A schedule slot claimed under one generation of an automation.
Occs == [auto : Autos, gen : 1..MaxGen, slot : 1..MaxTime]
NoOcc == [auto |-> 0, gen |-> 0, slot |-> 0]

Fires == [auto : Autos, gen : 1..MaxGen, token : Tokens \cup {NoToken},
          occ : Occs \cup {NoOcc}, def : Defs]
NoFire == [auto |-> 0]

\* What a List call keeps of a row, and of a row it did not return.
Snaps == [def : Defs, gen : 0..MaxGen, next : 0..MaxTime + 1,
          token : Tokens \cup {NoToken}, occ : Occs \cup {NoOcc}]
BlankSnap == [def |-> CHOOSE d \in Defs : TRUE, gen |-> 0, next |-> 0,
              token |-> NoToken, occ |-> NoOcc]

IdleRun == [pc |-> "free", fire |-> NoFire, manual |-> FALSE,
            canceled |-> FALSE, done |-> FALSE]
IdleReq == [pc |-> "idle"]
IdleSched == [pc |-> "idle", todo |-> {}, snap |-> [a \in Autos |-> BlankSnap],
              at |-> 1, fire |-> NoFire]

\* The process accepts scheduled fires: Service.started.
Started == phase \in {"boot", "up", "signalled"}
\* Service.stopCtx is cancelled: by the signal, then by Stop.
StopCtxDone == phase \in {"signalled", "stopping", "stopped"}
\* HTTP handlers can run: ListenAndServe follows Start, and Shutdown lets
\* handlers in flight finish while Stop runs.
Serving == phase \in {"up", "signalled", "stopping", "stopped"}

\* The goroutine of the run has registered the run as active and not ended it.
Admitted == {"record", "bind", "verify", "elig", "consume", "insert", "claim",
             "engine", "running", "restamp", "end"}

Spend(what) == /\ budget[what] > 0
               /\ budget' = [budget EXCEPT ![what] = @ - 1]

\* id.New: an id nothing refers to.
FreshRun(r) == run[r].pc = "free" /\ history[r] = "none"
TokensInUse == {row[a].token : a \in Autos} \cup {run[r].fire.token :
                  r \in {x \in Runs : run[x].pc # "free"}}
               \cup {sched.snap[a].token : a \in Autos}
               \cup (IF sched.fire = NoFire THEN {} ELSE {sched.fire.token})
FreshTokens == Tokens \ TokensInUse

-----------------------------------------------------------------------------
(* The store.  Each operator is one SQL statement of store/automations.go.   *)

NewRow(d) == [def |-> d, enabled |-> FALSE, deleted |-> FALSE, gen |-> 1,
              next |-> 0, token |-> NoToken, occ |-> NoOcc, fence |-> 1]

\* SetPendingFireIfCurrent's WHERE clause.
Stampable(a, g) == row[a].gen = g /\ row[a].enabled /\ ~row[a].deleted
Stamp(a, t, o) == [row EXCEPT ![a].token = t, ![a].occ = o]

\* ClaimPendingFire: compare and clear.
BrokenClaimable(a, t) == t # NoToken /\ row[a].token # NoToken
BrokenClaimAlways(a, t) == t # NoToken
Claimable(a, t) == t # NoToken /\ row[a].token = t
ClearToken(a) == [row EXCEPT ![a].token = NoToken, ![a].occ = NoOcc]

\* UpdateAutomation and SoftDeleteAutomation: every edit disables the row,
\* drops the queued fire and the schedule, and moves the generation.
Edited(a, d, del) ==
  [row EXCEPT ![a] = [def |-> d, enabled |-> FALSE, deleted |-> @.deleted \/ del,
                      gen |-> @.gen + 1, next |-> 0, token |-> NoToken,
                      occ |-> NoOcc, fence |-> @.gen + 1]]

\* SetAutomationEnabled.
EnableFlip(a, on, next) ==
  [row EXCEPT ![a] = [def |-> @.def, enabled |-> on, deleted |-> @.deleted,
                      gen |-> @.gen + 1, next |-> next, token |-> NoToken,
                      occ |-> NoOcc, fence |-> IF on THEN @.fence ELSE @.gen + 1]]

EnabledOf(u) == {a \in Autos : Owner[a] = u /\ row[a].enabled /\ ~row[a].deleted}

\* ListSchedulableAutomations.
Schedulable == {a \in Autos : /\ row[a].enabled /\ ~row[a].deleted
                              /\ \/ row[a].token # NoToken
                                 \/ row[a].def.trigger # "manual"}
Snapshot == [a \in Autos |-> IF a \in Schedulable
               THEN [def |-> row[a].def, gen |-> row[a].gen, next |-> row[a].next,
                     token |-> row[a].token, occ |-> row[a].occ]
               ELSE BlankSnap]

\* NextAfterNow on an abstract clock: strictly after now, missed slots skipped.
NextAfterNow(d, t) == IF d.trigger = "manual" THEN 0 ELSE t + 1

-----------------------------------------------------------------------------
(* Admission: beginRun, under Service.mu.                                    *)

Admits(a, d) == IF d.policy = "parallel" THEN Cardinality(active[a]) < MaxParallel
                                         ELSE active[a] = {}
Queues(a, d) == d.policy \in {"queue_one", "cancel_previous"} /\ active[a] # {}
HasPermit(u) == /\ MaxRunsPerUser > 0 => userRuns[u] < MaxRunsPerUser
                /\ MaxConcurrentRuns > 0 => runSlots < MaxConcurrentRuns

Register(a, r) ==
  /\ active' = [active EXCEPT ![a] = @ \cup {r}]
  /\ userRuns' = [userRuns EXCEPT ![Owner[a]] = @ + 1]
  /\ runSlots' = IF MaxConcurrentRuns > 0 THEN runSlots + 1 ELSE runSlots

BrokenRelease(a, r) ==
  /\ active' = [active EXCEPT ![a] = @ \ {r}]
  /\ userRuns' = [userRuns EXCEPT ![Owner[a]] = @ - 1]
  /\ UNCHANGED runSlots
Release(a, r) ==
  /\ active' = [active EXCEPT ![a] = @ \ {r}]
  /\ userRuns' = [userRuns EXCEPT ![Owner[a]] = @ - 1]
  /\ runSlots' = IF MaxConcurrentRuns > 0 THEN runSlots - 1 ELSE runSlots

\* Mark runs cancelled; a run whose cancel func is bound is cancelled at once.
Unbound == {"record", "bind"}
BrokenCanceled(rs) == [r \in Runs |->
  IF r \in rs THEN [run[r] EXCEPT !.canceled = TRUE] ELSE run[r]]
Canceled(rs) == [r \in Runs |->
  IF r \in rs THEN [run[r] EXCEPT !.canceled = TRUE,
                                  !.done = @ \/ run[r].pc \notin Unbound]
              ELSE run[r]]

Close(os) == ledger' = [ledger EXCEPT !.open = @ \ os]

\* fireWithID, outcome beginStarted: the run goroutine is launched.
FireStart(f, r) ==
  /\ Started /\ Admits(f.auto, f.def) /\ HasPermit(Owner[f.auto])
  /\ Register(f.auto, r)
  /\ run' = [run EXCEPT ![r] = [IdleRun EXCEPT !.pc = "bind", !.fire = f]]
  /\ UNCHANGED <<row, pending, ledger, budget>>

\* Outcome beginQueued: the new token is durable before anything is cancelled.
\* A replacement already queued is displaced, in memory and in the row.
FireQueue(f, r) ==
  LET a == f.auto
      victims == IF f.def.policy = "cancel_previous" THEN active[a] ELSE {}
      displaced == IF pending[a] = NoRun THEN {} ELSE {pending[a]}
  IN /\ Started /\ Queues(a, f.def) /\ Stampable(a, f.gen)
     /\ \E t \in FreshTokens :
          /\ row' = Stamp(a, t, f.occ)
          /\ run' = [x \in Runs |->
               IF x = r THEN [IdleRun EXCEPT !.pc = "queued", !.fire = [f EXCEPT !.token = t]]
               ELSE IF x \in displaced THEN IdleRun ELSE Canceled(victims)[x]]
     /\ pending' = [pending EXCEPT ![a] = r]
     /\ Close({row[a].occ} \ {f.occ})
     /\ UNCHANGED <<active, userRuns, runSlots, budget>>

\* Outcome beginRefused: stopped, refused by the policy, or the token of a
\* replacement could not be stamped.  A drain leaves its token in the row.
FireRefuse(f, r) ==
  /\ \/ /\ Started => /\ ~Admits(f.auto, f.def)
                      /\ Queues(f.auto, f.def) => ~Stampable(f.auto, f.gen)
        /\ UNCHANGED budget
     \/ Started /\ Queues(f.auto, f.def) /\ Spend("fault")
  /\ run' = [run EXCEPT ![r] = IdleRun]
  /\ Close(IF f.token = NoToken THEN {f.occ} ELSE {})
  /\ UNCHANGED <<row, memory>>

\* Outcome beginCapped, before the caller reacts to it.
Capped(f) == Started /\ Admits(f.auto, f.def) /\ ~HasPermit(Owner[f.auto])

\* persistPendingDurable outside beginRun: keep a fresh occurrence for a retry.
StampFresh(f) ==
  \/ /\ Stampable(f.auto, f.gen)
     /\ \E t \in FreshTokens : row' = Stamp(f.auto, t, f.occ)
     /\ Close({row[f.auto].occ} \ {f.occ})
     /\ UNCHANGED budget
  \/ /\ ~Stampable(f.auto, f.gen)
     /\ Close({f.occ})
     /\ UNCHANGED <<row, budget>>
  \/ Spend("fault") /\ Close({f.occ}) /\ UNCHANGED row

-----------------------------------------------------------------------------
(* The scheduler goroutine.                                                  *)

\* A snapshot row is what a List call returned, at the time the pass reads once;
\* both go stale.
Fire(a, tok, occ) == [auto |-> a, gen |-> sched.snap[a].gen, token |-> tok,
                      occ |-> occ, def |-> sched.snap[a].def]
AtRow(a) == /\ sched.pc = "scan" /\ a \in sched.todo
            /\ \A b \in sched.todo : a <= b
NextRow(a) == [sched EXCEPT !.todo = @ \ {a}, !.snap[a] = BlankSnap]
Due(a) == sched.snap[a].next # 0 /\ sched.snap[a].next <= sched.at
Manual(a) == sched.snap[a].def.trigger = "manual"

\* Once the context is cancelled the loop ends, and a tick that still starts
\* fails in its List call.
BrokenTicking == Serving
Ticking == phase = "up"
TickList ==
  /\ sched.pc = "idle" /\ Ticking
  /\ sched' = [sched EXCEPT !.pc = "scan", !.todo = Schedulable, !.snap = Snapshot,
                            !.at = now]
  /\ UNCHANGED <<durable, memory, run, phase, req, now, budget, ledger>>

\* The drain branch of tick: a durable token, due or not, and at this instant
\* no active run.
BrokenDrainable(a) == sched.snap[a].token # NoToken /\ active[a] = {} /\ Due(a)
Drainable(a) == sched.snap[a].token # NoToken /\ active[a] = {}
TickDrain(a) ==
  /\ AtRow(a) /\ phase # "boot" /\ ~Manual(a) /\ Drainable(a)
  /\ sched' = [NextRow(a) EXCEPT !.pc = "fire",
                 !.fire = Fire(a, sched.snap[a].token, sched.snap[a].occ)]
  /\ UNCHANGED <<durable, memory, run, phase, req, now, budget, ledger>>

\* With a run active the token waits and the schedule is looked at, later.
TickBusy(a) ==
  /\ AtRow(a) /\ phase # "boot" /\ ~Manual(a)
  /\ sched.snap[a].token # NoToken /\ ~Drainable(a)
  /\ sched' = [sched EXCEPT !.snap[a].token = NoToken]
  /\ UNCHANGED <<durable, memory, run, phase, req, now, budget, ledger>>

\* reconcile drains a token that survived the restart; the token of a manual
\* automation is cleared instead (a defence: an edit to manual clears it too),
\* and the schedule is looked at afterwards.
BootDrain(a) ==
  /\ AtRow(a) /\ phase = "boot"
  /\ sched.snap[a].token # NoToken
  /\ IF sched.snap[a].def.trigger = "manual"
     THEN row' = ClearToken(a) /\ sched' = [sched EXCEPT !.snap[a].token = NoToken]
     ELSE /\ sched' = [sched EXCEPT !.pc = "fire", !.snap[a].token = NoToken,
                         !.fire = Fire(a, sched.snap[a].token, sched.snap[a].occ)]
          /\ UNCHANGED row
  /\ UNCHANGED <<history, memory, run, phase, req, now, budget, ledger>>

\* The schedule half of an iteration comes after the drain half.
AtSlot(a) == /\ AtRow(a)
             /\ sched.snap[a].token = NoToken \/ (phase # "boot" /\ Manual(a))

\* ClaimDueRun wins: the slot is advanced before anything is launched.  A
\* missed slot is dropped at boot unless the definition says run_once.
ClaimSlot(a) ==
  /\ AtSlot(a) /\ ~Manual(a) /\ Due(a)
  /\ LET s == sched.snap[a]
         o == [auto |-> a, gen |-> s.gen, slot |-> s.next]
     IN /\ ~StopCtxDone /\ row[a].enabled /\ row[a].next = s.next
        /\ row' = [row EXCEPT ![a].next = NextAfterNow(s.def, sched.at)]
        /\ IF phase = "boot" /\ s.def.missed = "skip"
           THEN sched' = NextRow(a) /\ UNCHANGED ledger
           ELSE /\ sched' = [NextRow(a) EXCEPT !.pc = "fire",
                               !.fire = Fire(a, NoToken, o)]
                /\ ledger' = [ledger EXCEPT !.open = @ \cup {o}]
  /\ UNCHANGED <<history, memory, run, phase, req, now, budget>>

\* Nothing to claim: manual, no slot, a slot in the future, or a lost claim
\* (edited meanwhile, shutting down, or the statement failed).
SkipSlot(a) ==
  /\ AtSlot(a)
  /\ LET s == sched.snap[a] IN
     /\ ~(phase = "boot" /\ s.next = 0 /\ ~Manual(a))
     /\ \/ /\ \/ Manual(a) \/ ~Due(a) \/ StopCtxDone
              \/ ~row[a].enabled \/ row[a].next # s.next
           /\ UNCHANGED budget
        \/ Due(a) /\ Spend("fault")
     /\ sched' = NextRow(a)
  /\ UNCHANGED <<durable, memory, run, phase, req, now, ledger>>

\* The next slot cannot be computed: the slot is cleared so that it stops
\* firing, best effort.  This write is not guarded by the generation.
ClearSlot(a) ==
  /\ AtSlot(a) /\ ~Manual(a) /\ Due(a) /\ Spend("fault")
  /\ row' \in {row, [row EXCEPT ![a].next = 0]} /\ (StopCtxDone => row' = row)
  /\ sched' = NextRow(a)
  /\ UNCHANGED <<history, memory, run, phase, req, now, ledger>>

\* scheduleNext: at boot a row without a slot gets one.
BootSchedule(a) ==
  /\ AtSlot(a) /\ phase = "boot" /\ ~Manual(a) /\ sched.snap[a].next = 0
  /\ \/ row' = [row EXCEPT ![a].next = NextAfterNow(sched.snap[a].def, sched.at)]
        /\ UNCHANGED budget
     \/ Spend("fault") /\ UNCHANGED row
  /\ sched' = NextRow(a)
  /\ UNCHANGED <<history, memory, run, phase, req, now, ledger>>

\* fire: a new run id for the occurrence, then beginRun.
SchedulerFire ==
  /\ sched.pc = "fire"
  /\ \E r \in Runs : /\ FreshRun(r)
                     /\ \/ FireStart(sched.fire, r)
                        \/ FireQueue(sched.fire, r)
                        \/ FireRefuse(sched.fire, r)
  /\ sched' = [sched EXCEPT !.pc = "scan", !.fire = NoFire]
  /\ UNCHANGED <<history, phase, req, now>>

\* A capped drain leaves its token alone; a capped fresh fire needs one.
AfterCap == IF sched.fire.token # NoToken
            THEN [sched EXCEPT !.pc = "scan", !.fire = NoFire]
            ELSE [sched EXCEPT !.pc = "stamp"]
SchedulerCapped ==
  /\ sched.pc = "fire" /\ Capped(sched.fire) /\ sched' = AfterCap
  /\ UNCHANGED <<durable, memory, run, phase, req, now, budget, ledger>>

SchedulerStamp ==
  /\ sched.pc = "stamp"
  /\ StampFresh(sched.fire)
  /\ sched' = [sched EXCEPT !.pc = "scan", !.fire = NoFire]
  /\ UNCHANGED <<history, memory, run, phase, req, now>>

\* The pass is over: reconcile returns and serving begins, or the tick ends.
PassDone ==
  /\ sched.pc = "scan" /\ sched.todo = {}
  /\ sched' = IdleSched
  /\ phase' = IF phase = "boot" THEN "up" ELSE phase
  /\ UNCHANGED <<durable, memory, run, req, now, budget, ledger>>

Scheduler == \/ TickList \/ SchedulerFire \/ SchedulerCapped \/ SchedulerStamp
             \/ PassDone
             \/ \E a \in Autos : \/ TickDrain(a) \/ TickBusy(a) \/ BootDrain(a)
                                 \/ ClaimSlot(a) \/ SkipSlot(a) \/ ClearSlot(a) \/ BootSchedule(a)

-----------------------------------------------------------------------------
(* The goroutine of a run: execute, then endRun and startPending.            *)

Goto(r, pc) == run' = [run EXCEPT ![r].pc = pc]
Finalize(r, status) == history' = [history EXCEPT ![r] = status]
Scheduled(r) == ~run[r].manual
Drains(r) == run[r].fire.token # NoToken

\* After a failed read or insert: a drain still has its token in the row, a
\* fresh fire is parked first.
BrokenRetry(r) == "end"
Retry(r) == IF Drains(r) THEN "end" ELSE "restamp"

\* setRunCancel: a cancellation that came before the bind is honoured here.
Bind(r) ==
  /\ run[r].pc = "bind"
  /\ run' = [run EXCEPT ![r].pc = "verify",
                        ![r].done = run[r].canceled \/ StopCtxDone]
  /\ UNCHANGED <<durable, memory, sched, phase, req, now, budget, ledger>>

\* The row is read again before any side effect: it must still be enabled and
\* at the generation the fire was claimed under.
VerifyPasses(r) == LET a == run[r].fire.auto
                   IN row[a].enabled /\ row[a].gen = run[r].fire.gen
Verify(r) ==
  /\ run[r].pc = "verify"
  /\ \/ VerifyPasses(r) /\ Goto(r, "elig") /\ UNCHANGED <<history, budget>>
     \/ /\ ~VerifyPasses(r) /\ Goto(r, "end") /\ UNCHANGED budget
        /\ IF Scheduled(r) THEN UNCHANGED history ELSE Finalize(r, "cancelled")
     \/ /\ Spend("fault")
        /\ IF Scheduled(r) THEN UNCHANGED history ELSE Finalize(r, "cancelled")
        /\ Goto(r, IF Scheduled(r) THEN Retry(r) ELSE "end")
  /\ UNCHANGED <<row, memory, sched, phase, req, now, ledger>>

\* The eligibility check runs again.  An ineligible run is recorded as failed;
\* the record of a scheduled one may fail to commit.
BrokenAfterChecks(r) == IF Drains(r) THEN "claim" ELSE IF Scheduled(r) THEN "insert" ELSE "engine"
AfterChecks(r) == IF Scheduled(r) THEN "insert" ELSE "engine"
Eligible(r) ==
  /\ run[r].pc = "elig"
  /\ \/ Goto(r, AfterChecks(r))
        /\ UNCHANGED <<history, budget, ledger>>
     \/ /\ Finalize(r, "failed")
        /\ Goto(r, IF Drains(r) THEN "consume" ELSE "end")
        /\ Close({run[r].fire.occ}) /\ UNCHANGED budget
     \/ /\ Scheduled(r) /\ Spend("fault")
        /\ Goto(r, Retry(r))
        /\ UNCHANGED <<history, ledger>>
  /\ UNCHANGED <<row, memory, sched, phase, req, now>>

\* The token of an ineligible drain is consumed, best effort.
Consume(r) ==
  /\ run[r].pc = "consume" /\ Goto(r, "end")
  /\ LET a == run[r].fire.auto IN
     \/ /\ row' = IF Claimable(a, run[r].fire.token) THEN ClearToken(a) ELSE row
        /\ UNCHANGED budget
     \/ Spend("fault") /\ UNCHANGED row
  /\ UNCHANGED <<history, memory, sched, phase, req, now, ledger>>

\* The durable run row comes before the claim, and both before the engine.
InsertRow(r) ==
  /\ run[r].pc = "insert"
  /\ \/ Finalize(r, "running") /\ UNCHANGED budget
        /\ Goto(r, IF Drains(r) THEN "claim" ELSE "engine")
     \/ Spend("fault") /\ UNCHANGED history
        /\ Goto(r, Retry(r))
  /\ UNCHANGED <<row, memory, sched, phase, req, now, ledger>>

\* claimPending: won, lost, or failed; only a won claim goes on.
ClaimToken(r) ==
  /\ run[r].pc = "claim"
  /\ LET a == run[r].fire.auto
         t == run[r].fire.token
     IN \/ /\ Claimable(a, t) /\ row' = ClearToken(a)
           /\ Goto(r, "engine") /\ UNCHANGED <<history, budget>>
        \/ /\ ~Claimable(a, t) /\ Goto(r, "end") /\ Finalize(r, "cancelled")
           /\ UNCHANGED <<row, budget>>
        \/ /\ Spend("fault") /\ Goto(r, "end") /\ Finalize(r, "cancelled")
           /\ UNCHANGED row
  /\ UNCHANGED <<memory, sched, phase, req, now, ledger>>

\* The engine starts: side effects happen unless the context is done.  The
\* scratch directory may fail to appear, and then the run is recorded failed.
StartEngine(r) ==
  LET o == run[r].fire.occ IN
  /\ run[r].pc = "engine"
  /\ \/ /\ Goto(r, "running") /\ UNCHANGED <<history, budget>>
        /\ ledger' = IF run[r].done \/ run[r].manual
                     THEN [ledger EXCEPT !.open = @ \ {o}]
                     ELSE [open  |-> ledger.open \ {o},
                           ran   |-> ledger.ran \cup {o},
                           rerun |-> ledger.rerun \cup (ledger.ran \cap {o})]
     \/ /\ Spend("fault") /\ Goto(r, "end") /\ Finalize(r, "failed")
        /\ Close({o})
  /\ UNCHANGED <<row, memory, sched, phase, req, now>>

\* The engine returns and the record is finalized; that write may fail.  A run
\* killed for its disk use is failed even when it was cancelled too.
Finish(r) ==
  /\ run[r].pc = "running" /\ Goto(r, "end")
  /\ \/ /\ \E s \in {"failed", IF run[r].done THEN "cancelled" ELSE "success"} :
             Finalize(r, s)
        /\ UNCHANGED budget
     \/ Spend("fault") /\ UNCHANGED history
  /\ UNCHANGED <<row, memory, sched, phase, req, now, ledger>>

\* A fresh fire that could not be recorded is parked for a retry.
Restamp(r) ==
  /\ run[r].pc = "restamp" /\ Goto(r, "end")
  /\ StampFresh(run[r].fire)
  /\ UNCHANGED <<history, memory, sched, phase, req, now>>

\* endRun: the permits go back and a queued replacement is popped.  The lock
\* is released before the popped fire reaches beginRun again.
EndRun(r) ==
  LET a == run[r].fire.auto
      pop == /\ pending[a] # NoRun /\ active[a] = {r} /\ Started
  IN
  /\ run[r].pc = "end" /\ Release(a, r)
  /\ pending' = IF pop THEN [pending EXCEPT ![a] = NoRun] ELSE pending
  /\ run' = [x \in Runs |->
       IF x = r THEN IdleRun
       ELSE IF pop /\ x = pending[a] THEN [run[x] EXCEPT !.pc = "drain"]
       ELSE run[x]]
  /\ history' = [history EXCEPT ![r] = IF @ = "running" THEN @ ELSE "none"]
  /\ UNCHANGED <<row, sched, phase, req, now, budget, ledger>>

\* startPending: the row is read for its definition, then the fire goes through
\* beginRun again with the token it was queued under.
DrainPending(r) ==
  LET f == [run[r].fire EXCEPT !.def = row[run[r].fire.auto].def] IN
  /\ run[r].pc = "drain"
  /\ \/ FireStart(f, r) \/ FireQueue(f, r) \/ FireRefuse(f, r)
     \/ /\ Capped(f) /\ run' = [run EXCEPT ![r] = IdleRun]
        /\ UNCHANGED <<row, memory, budget, ledger>>
     \/ /\ Spend("fault") /\ run' = [run EXCEPT ![r] = IdleRun]
        /\ UNCHANGED <<row, memory, ledger>>
  /\ UNCHANGED <<history, sched, phase, req, now>>

Execute(r) == \/ Bind(r) \/ Verify(r) \/ Eligible(r) \/ Consume(r)
              \/ InsertRow(r) \/ ClaimToken(r) \/ StartEngine(r) \/ Finish(r)
              \/ Restamp(r) \/ EndRun(r) \/ DrainPending(r)

-----------------------------------------------------------------------------
(* HTTP handlers.                                                            *)

Editable(a) == row[a].gen > 0 /\ ~row[a].deleted

Create(a, d) ==
  /\ Serving /\ row[a].gen = 0
  /\ row' = [row EXCEPT ![a] = NewRow(d)]
  /\ UNCHANGED <<history, memory, run, sched, phase, req, now, budget, ledger>>

\* Update and Delete commit first and cancel the runs in a second step.  The
\* read that precedes the commit of an Update decides nothing the commit does
\* not decide again, except that a row deleted in between stays deleted.
Update(h, a, d) ==
  /\ Serving /\ req[h].pc = "idle" /\ Editable(a) /\ row[a].gen < MaxGen
  /\ row' = Edited(a, d, FALSE)
  /\ req' = [req EXCEPT ![h] = [pc |-> "cancel", auto |-> a]]
  /\ UNCHANGED <<history, memory, run, sched, phase, now, budget, ledger>>

Delete(h, a) ==
  /\ Serving /\ req[h].pc = "idle" /\ Editable(a) /\ row[a].gen < MaxGen
  /\ row' = Edited(a, row[a].def, TRUE)
  /\ req' = [req EXCEPT ![h] = [pc |-> "cancel", auto |-> a]]
  /\ UNCHANGED <<history, memory, run, sched, phase, now, budget, ledger>>

\* SetEnabled reads and checks, then commits against the generation it read.
ReadFlip(h, a, on) ==
  /\ Serving /\ req[h].pc = "idle" /\ Editable(a)
  /\ LET fresh == on /\ ~row[a].enabled /\ MaxEnabledPerUser > 0 IN
     /\ fresh => Cardinality(EnabledOf(Owner[a])) < MaxEnabledPerUser
     /\ req' = [req EXCEPT ![h] =
          [pc |-> "flip", auto |-> a, on |-> on, gen |-> row[a].gen, capped |-> fresh,
           next |-> IF on THEN NextAfterNow(row[a].def, now) ELSE 0]]
  /\ UNCHANGED <<durable, memory, run, sched, phase, now, budget, ledger>>

FlipMatches(q) == /\ ~row[q.auto].deleted /\ row[q.auto].gen = q.gen
                  /\ q.capped => Cardinality(EnabledOf(Owner[q.auto]) \ {q.auto})
                                 < MaxEnabledPerUser
CommitFlip(h) ==
  LET q == req[h] IN
  /\ q.pc = "flip" /\ q.gen < MaxGen
  /\ IF FlipMatches(q)
     THEN /\ row' = EnableFlip(q.auto, q.on, q.next)
          /\ req' = [req EXCEPT ![h] = IF q.on THEN IdleReq
                                       ELSE [pc |-> "cancel", auto |-> q.auto]]
     ELSE req' = [req EXCEPT ![h] = IdleReq] /\ UNCHANGED row
  /\ UNCHANGED <<history, memory, run, sched, phase, now, budget, ledger>>

\* cancelAutomation, after the commit of an Update, a disable or a Delete.
CancelAutomation(h) ==
  /\ req[h].pc = "cancel"
  /\ LET a == req[h].auto IN
     /\ pending' = [pending EXCEPT ![a] = NoRun]
     /\ run' = [r \in Runs |-> IF r = pending[a] THEN IdleRun
                               ELSE Canceled(active[a])[r]]
  /\ req' = [req EXCEPT ![h] = IdleReq]
  /\ UNCHANGED <<durable, active, userRuns, runSlots, sched, phase, now, budget, ledger>>

\* TriggerNow: the row is read and checked, the run is admitted, and its row is
\* inserted before the caller gets the run id.
Trigger(a) ==
  /\ Serving /\ Editable(a) /\ row[a].enabled /\ Spend("trigger")
  /\ \E r \in Runs : FreshRun(r) /\ run' = [run EXCEPT ![r] =
       [IdleRun EXCEPT !.pc = "trigger", !.manual = TRUE,
          !.fire = [auto |-> a, gen |-> row[a].gen, token |-> NoToken,
                    occ |-> NoOcc, def |-> row[a].def]]]
  /\ UNCHANGED <<durable, memory, sched, phase, req, now, ledger>>

TriggerBegin(r) ==
  LET f == run[r].fire IN
  /\ run[r].pc = "trigger"
  /\ IF Admits(f.auto, f.def) /\ HasPermit(Owner[f.auto])
     THEN Register(f.auto, r) /\ Goto(r, "record")
     ELSE run' = [run EXCEPT ![r] = IdleRun] /\ UNCHANGED <<active, userRuns, runSlots>>
  /\ UNCHANGED <<durable, pending, sched, phase, req, now, budget, ledger>>

TriggerRecord(r) ==
  /\ run[r].pc = "record"
  /\ \/ Finalize(r, "running") /\ Goto(r, "bind") /\ UNCHANGED budget
     \/ Spend("fault") /\ Goto(r, "end") /\ UNCHANGED history
  /\ UNCHANGED <<row, memory, sched, phase, req, now, ledger>>

HandlerStep == \/ \E h \in Handlers : CommitFlip(h) \/ CancelAutomation(h)
               \/ \E r \in Runs : TriggerBegin(r) \/ TriggerRecord(r)
UserRequest == \E a \in Autos :
  \/ \E d \in Defs : Create(a, d)
  \/ Trigger(a)
  \/ \E h \in Handlers : \/ \E d \in Defs : Update(h, a, d)
                         \/ Delete(h, a)
                         \/ \E on \in BOOLEAN : ReadFlip(h, a, on)

-----------------------------------------------------------------------------
(* The process.                                                              *)

ClockTick ==
  /\ now < MaxTime /\ now' = now + 1
  /\ UNCHANGED <<durable, memory, run, sched, phase, req, budget, ledger>>

\* MarkRunningRunsInterrupted: a finalized row is of no further interest here.
Interrupted == [r \in Runs |-> "none"]

\* Start: stale rows are finalized, then reconcile runs before serving.  Either
\* of its two statements may fail, and it goes on.
Listed(rows) == [pc |-> "scan", todo |-> rows, at |-> now, fire |-> NoFire,
                 snap |-> [a \in Autos |-> IF a \in rows THEN Snapshot[a] ELSE BlankSnap]]
Start ==
  /\ phase = "down" /\ phase' = "boot"
  /\ \/ history' = Interrupted /\ sched' = Listed(Schedulable) /\ UNCHANGED budget
     \/ Spend("fault") /\ UNCHANGED history /\ sched' = Listed(Schedulable)
     \/ Spend("fault") /\ history' = Interrupted /\ sched' = Listed({})
  /\ UNCHANGED <<row, memory, run, req, now, ledger>>

\* The shutdown signal cancels the context every run and the loop derive from.
Signal ==
  /\ phase = "up" /\ phase' = "signalled"
  /\ run' = [r \in Runs |-> IF run[r].pc \in Admitted \ Unbound
                            THEN [run[r] EXCEPT !.done = TRUE] ELSE run[r]]
  /\ UNCHANGED <<durable, memory, sched, req, now, budget, ledger>>

\* Stop cancels every active run and then waits for the wait group.
Stop ==
  /\ phase = "signalled" /\ phase' = "stopping"
  /\ run' = Canceled(UNION {active[a] : a \in Autos})
  /\ UNCHANGED <<durable, memory, sched, req, now, budget, ledger>>

\* The goroutines the wait group counts: the loop, execute with the endRun and
\* startPending it defers, and TriggerNow from its admission on.
Waited == Admitted \cup {"drain"}
StopReturns ==
  /\ phase = "stopping" /\ sched.pc = "idle" /\ \A r \in Runs : run[r].pc \notin Waited
  /\ phase' = "stopped"
  /\ UNCHANGED <<durable, memory, run, sched, req, now, budget, ledger>>

\* The process ends, by exit or crash: the two tables are what is left.
Exit ==
  /\ phase # "down" /\ phase' = "down"
  /\ IF phase = "stopped" THEN UNCHANGED budget ELSE Spend("crash")
  /\ active' = [a \in Autos |-> {}] /\ pending' = [a \in Autos |-> NoRun]
  /\ userRuns' = [u \in Users |-> 0] /\ runSlots' = 0
  /\ run' = [r \in Runs |-> IdleRun]
  /\ history' = [r \in Runs |-> IF history[r] = "running" THEN "running" ELSE "none"]
  /\ sched' = IdleSched /\ req' = [h \in Handlers |-> IdleReq]
  /\ ledger' = [ledger EXCEPT !.open = {o \in @ : row[o.auto].occ = o}]
  /\ UNCHANGED <<row, now>>

Init ==
  /\ row = [a \in Autos |-> [NewRow(CHOOSE d \in Defs : TRUE) EXCEPT !.gen = 0, !.fence = 0]]
  /\ history = [r \in Runs |-> "none"]
  /\ active = [a \in Autos |-> {}] /\ pending = [a \in Autos |-> NoRun]
  /\ userRuns = [u \in Users |-> 0] /\ runSlots = 0
  /\ run = [r \in Runs |-> IdleRun]
  /\ sched = IdleSched /\ phase = "down"
  /\ req = [h \in Handlers |-> IdleReq]
  /\ now = 1
  /\ budget = [trigger |-> MaxTriggers, fault |-> MaxFaults, crash |-> MaxCrashes]
  /\ ledger = [open |-> {}, ran |-> {}, rerun |-> {}]

Next == \/ Scheduler \/ (\E r \in Runs : Execute(r)) \/ HandlerStep
        \/ UserRequest \/ ClockTick \/ Start \/ Signal \/ Stop \/ StopReturns \/ Exit

Spec == Init /\ [][Next]_vars

-----------------------------------------------------------------------------
(* Fairness.  Goroutines that can run do run: the loop has a ticker, every   *)
(* engine run is bounded by its budgets, store calls have a 10 s timeout and *)
(* handlers run to their end.  Users, faults, crashes and the signal owe     *)
(* nothing.                                                                  *)
Fairness == /\ WF_vars(Scheduler)
            /\ \A r \in Runs : WF_vars(Execute(r))
            /\ WF_vars(HandlerStep)
            /\ WF_vars(StopReturns) /\ WF_vars(Stop)

FairSpec == Spec /\ Fairness

-----------------------------------------------------------------------------
(* Properties.                                                               *)

\* Every variable stays in its type.
RowType == [def : Defs, enabled : BOOLEAN, deleted : BOOLEAN, gen : 0..MaxGen,
            next : 0..MaxTime + 1, token : Tokens \cup {NoToken},
            occ : Occs \cup {NoOcc}, fence : 0..MaxGen]
RunPcs == Admitted \cup {"free", "trigger", "queued", "drain"}
RunType == [pc : RunPcs, fire : Fires \cup {NoFire}, manual : BOOLEAN,
            canceled : BOOLEAN, done : BOOLEAN]
ReqType == {IdleReq} \cup [pc : {"cancel"}, auto : Autos]
           \cup [pc : {"flip"}, auto : Autos, on : BOOLEAN, gen : 1..MaxGen,
                 capped : BOOLEAN, next : 0..MaxTime + 1]
TypeOK ==
  /\ row \in [Autos -> RowType]
  /\ history \in [Runs -> {"none", "running", "cancelled", "failed", "success"}]
  /\ active \in [Autos -> SUBSET Runs]
  /\ pending \in [Autos -> Runs \cup {NoRun}]
  /\ userRuns \in [Users -> Int] /\ runSlots \in Int
  /\ run \in [Runs -> RunType]
  /\ sched \in [pc : {"idle", "scan", "fire", "stamp"}, todo : SUBSET Autos,
                snap : [Autos -> Snaps], at : 1..MaxTime, fire : Fires \cup {NoFire}]
  /\ phase \in {"down", "boot", "up", "signalled", "stopping", "stopped"}
  /\ req \in [Handlers -> ReqType]
  /\ now \in 1..MaxTime
  /\ budget \in [trigger : Nat, fault : Nat, crash : Nat]
  /\ ledger \in [open : SUBSET (Occs \cup {NoOcc}), ran : SUBSET (Occs \cup {NoOcc}),
                 rerun : SUBSET (Occs \cup {NoOcc})]

\* The permit counters agree with the admitted runs and stay within the caps
\* (beginRun acquires, endRun releases exactly once), whatever is cancelled,
\* queued, refused or popped in between.
AllActive == UNION {active[a] : a \in Autos}
PermitsConserved ==
  /\ MaxConcurrentRuns > 0 => /\ runSlots = Cardinality(AllActive)
                              /\ runSlots <= MaxConcurrentRuns
  /\ \A u \in Users :
       /\ userRuns[u] = Cardinality({r \in AllActive : Owner[run[r].fire.auto] = u})
       /\ MaxRunsPerUser > 0 => userRuns[u] <= MaxRunsPerUser

\* Two runs of one automation are admitted together only under the parallel
\* policy, and never more than MaxParallel of them (beginRun's policy switch).
OverlapNeedsParallel ==
  \A a \in Autos :
    /\ Cardinality(active[a]) <= MaxParallel
    /\ \A r, s \in active[a] : r # s =>
         "parallel" \in {run[r].fire.def.policy, run[s].fire.def.policy}

\* Both together: whoever is admitted has its permits, and nobody has more.
AdmissionIsLawful == PermitsConserved /\ OverlapNeedsParallel

\* "A side-effecting run MUST have a durable record": from the claim of its
\* token to the end of the engine, the run row exists and says running.
EffectsHaveRecord ==
  \A r \in Runs : run[r].pc \in {"claim", "engine", "running"} => history[r] = "running"

\* No run that passed its checks goes on under a definition that an Update, a
\* disable or a Delete has replaced, except while the handler that committed
\* the edit has yet to call cancelAutomation.
PastChecks == {"elig", "insert", "claim", "engine", "running"}
StaleRunsAreCancelled ==
  \A r \in Runs :
    LET a == run[r].fire.auto IN
    run[r].pc \in PastChecks /\ ~run[r].done /\ run[r].fire.gen < row[a].fence
      => \E h \in Handlers : req[h].pc = "cancel" /\ req[h].auto = a

\* An in-memory replacement is backed by a durable token, its own or one that
\* superseded it, so a crash cannot forget that something was queued, unless an
\* edit invalidated it (beginRun stamps the row before it queues).
PendingIsDurable ==
  \A a \in Autos : pending[a] # NoRun =>
    LET f == run[pending[a]].fire IN
    /\ run[pending[a]].pc = "queued" /\ f.auto = a
    /\ row[a].token # NoToken \/ row[a].gen # f.gen

\* An occurrence whose slot was claimed is carried by someone until it has run,
\* is on record, or is dropped on purpose: the advance of next_run_at before
\* the fire loses none of them (cap pressure, failed reads, failed inserts).  A
\* drop by policy, by shutdown or by a crash is the at-most-once choice that
\* tick and ClaimDueRun document.
Carried(o) == \/ \E r \in Runs : run[r].pc # "free" /\ run[r].fire.occ = o
              \/ sched.fire # NoFire /\ sched.fire.occ = o
NoOccurrenceLost ==
  \A o \in ledger.open : \/ row[o.auto].gen # o.gen \/ row[o.auto].occ = o
                         \/ Carried(o)

\* "A queued occurrence is consumed exactly once" (ClaimPendingFire): none is
\* executed twice, which queue_one and cancel_previous break.
QueuedRunsOnce == ledger.rerun = {}

\* A run that has yet to start its engine has the occurrence of a fresh fire,
\* and one that is about to start it has that of any; the scheduler has the one
\* it has just claimed.
Early == {"bind", "verify", "elig", "insert", "restamp"}
Bears(r, o) == /\ \/ run[r].pc = "engine"
                  \/ run[r].pc \in Early /\ run[r].fire.token = NoToken
               /\ run[r].fire.occ = o
SchedBears(o) == /\ sched.pc \in {"fire", "stamp"} /\ sched.fire.token = NoToken
                 /\ sched.fire.occ = o
Borne(o) == (\E r \in Runs : Bears(r, o)) \/ SchedBears(o)

\* The life of the occurrences is that of OccurrenceLedger, where nothing is
\* queued: through full caps, retries, lost claims, edits and crashes each is
\* claimed in order, is in one place at a time, and its engine starts once.
Ledger == INSTANCE OccurrenceLedger
  WITH Occurrences <- Occs, carried <- {o \in Occs : Borne(o)},
       parked <- {o \in Occs : row[o.auto].occ = o}, ran <- ledger.ran
ImplementsLedger == Ledger!LedgerSpec

\* The per-user cap on enabled automations holds although the check before the
\* commit is made on a stale row.
EnabledWithinCap == MaxEnabledPerUser > 0 =>
  \A u \in Users : Cardinality(EnabledOf(u)) <= MaxEnabledPerUser

\* While no store call has failed, a row that says running has a goroutine
\* behind it: what a crash left is finalized before the first new run.
RunningRowsHaveRunner ==
  phase # "down" /\ budget.fault = MaxFaults =>
    \A r \in Runs : history[r] = "running" => run[r].pc \in Admitted

\* What the tables say holds through failures, crashes and restarts: every open
\* occurrence is carried, every running row has a goroutine, and no user has more
\* automations enabled than the cap allows.
TablesAreTrue == NoOccurrenceLost /\ RunningRowsHaveRunner /\ EnabledWithinCap

\* "After Stop returns nothing lingers: no goroutines, no unfinalized run rows".
NothingLingers ==
  phase = "stopped" => /\ \A r \in Runs : run[r].pc \notin Admitted
                       /\ \A r \in Runs : history[r] # "running"

\* A durable token leaves the row only by an edit, by a newer token, or into a
\* run that carries this token and already has its record.
TokenStep(a) ==
  row[a].token # NoToken /\ row'[a].token = NoToken /\ row'[a].gen = row[a].gen =>
    \E r \in Runs : /\ run[r].fire # NoFire /\ run[r].fire.token = row[a].token
                    /\ run[r].fire.gen = row[a].gen
                    /\ history[r] \in {"running", "failed"}
TokenConsumedIntoRecord == [][\A a \in Autos : TokenStep(a)]_vars

\* A token parked for a retry is drained while the server stays up.
TokenEventuallyDrained ==
  \A a \in Autos : row[a].token # NoToken ~> row[a].token = NoToken \/ phase # "up"

\* Stop returns: nothing it waits for waits for something else.
StopEventuallyReturns == phase = "stopping" ~> phase # "stopping"
=============================================================================
