------------------------ MODULE SchedulerTables_proofs ------------------------
(* What the tables of AutomationScheduler say is true, for every value of its   *)
(* constants: the cap on enabled automations holds, a row that says running has *)
(* a goroutine behind it, and whoever has claimed an occurrence carries it      *)
(* until it has run, is on record, or is dropped on purpose.  And where no      *)
(* definition queues a fire, no occurrence is executed twice, and the tables    *)
(* implement OccurrenceLedger.                                                  *)
EXTENDS AutomationScheduler_proofs

-----------------------------------------------------------------------------
(* Writes that leave the identity of the rows alone.                         *)

Plain == \A b \in Autos : /\ row'[b].enabled = row[b].enabled /\ row'[b].deleted = row[b].deleted
                          /\ row'[b].gen = row[b].gen /\ row'[b].def = row[b].def

LEMMA StampPlain ==
  ASSUME IInv, NEW a \in Autos, NEW t, NEW o, row' = Stamp(a, t, o) PROVE Plain
BY TypedParts DEF IInv, RowOK, RowType, Stamp, Plain

LEMMA ClearPlain ==
  ASSUME IInv, NEW a \in Autos, row' = ClearToken(a) PROVE Plain
BY TypedParts DEF IInv, RowOK, RowType, ClearToken, Plain

LEMMA NextPlain ==
  ASSUME IInv, NEW a \in Autos, NEW n, row' = [row EXCEPT ![a].next = n] PROVE Plain
BY TypedParts DEF IInv, RowOK, RowType, Plain

\* Every write of a row is an edit or plain.
LEMMA RowPlain == ASSUME IInv, RowWrite PROVE Plain \/ \E a \in Autos : Moves(a)
<1>1. CASE UNCHANGED row
  BY <1>1 DEF Plain
<1>2. ASSUME NEW r \in Runs, run[r].pc \in {"consume", "claim"}, row' = ClearToken(run[r].fire.auto)
      PROVE  Plain
  <2>1. run[r].fire.auto \in Autos
    BY <1>2, RunFields, TypedParts DEF IInv
  <2> QED BY <1>2, <2>1, ClearPlain
<1>3. ASSUME NEW f \in Fires, NEW t, row' = Stamp(f.auto, t, f.occ) PROVE Plain
  BY <1>3, FireFields, StampPlain
<1> QED BY <1>1, <1>2, <1>3, NextPlain, ClearPlain DEF RowWrite

LEMMA StampFreshPlain ==
  ASSUME IInv, NEW f \in Fires, StampFresh(f) PROVE Plain
<1>1. UNCHANGED row \/ \E t : row' = Stamp(f.auto, t, f.occ)
  BY DEF StampFresh
<1> QED BY <1>1, FireFields, StampPlain DEF Plain

LEMMA BeginPlain ==
  ASSUME IInv, NEW f \in Fires, NEW r, FireStart(f, r) \/ FireQueue(f, r) \/ FireRefuse(f, r)
  PROVE  Plain
<1>1. UNCHANGED row \/ \E t : row' = Stamp(f.auto, t, f.occ)
  BY DEF FireStart, FireQueue, FireRefuse
<1> QED BY <1>1, FireFields, StampPlain DEF Plain

LEMMA SchedulerPlain == ASSUME IInv, Scheduler PROVE Plain
<1>0. sched.pc \in {"fire", "stamp"} => sched.fire \in Fires
  BY TypedParts DEF IInv, SchedOK, SchedReal
<1>1. CASE SchedulerFire \/ SchedulerStamp
  BY <1>0, <1>1, BeginPlain, StampFreshPlain DEF SchedulerFire, SchedulerStamp
<1>2. ASSUME NEW a \in Autos,
             TickDrain(a) \/ TickBusy(a) \/ BootDrain(a) \/ ClaimSlot(a) \/ SkipSlot(a)
             \/ ClearSlot(a) \/ BootSchedule(a)
      PROVE  Plain
  <2>1. UNCHANGED row \/ row' = ClearToken(a) \/ \E n : row' = [row EXCEPT ![a].next = n]
    BY <1>2 DEF TickDrain, TickBusy, BootDrain, ClaimSlot, SkipSlot, ClearSlot, BootSchedule, durable
  <2> QED BY <2>1, ClearPlain, NextPlain DEF Plain
<1>3. CASE TickList \/ SchedulerCapped \/ PassDone
  BY <1>3 DEF TickList, SchedulerCapped, PassDone, durable, Plain
<1> QED BY <1>1, <1>2, <1>3 DEF Scheduler

LEMMA ExecutePlain == ASSUME IInv, NEW r \in Runs, Execute(r) PROVE Plain
<1>0. run[r].pc # "free"
  BY DEF Execute, Bind, Verify, Eligible, Consume, InsertRow, ClaimToken, StartEngine, Finish,
     Restamp, EndRun, DrainPending
<1>1. run[r].fire \in Fires /\ run[r].fire.auto \in Autos
  BY <1>0, RunFields, TypedParts DEF IInv
<1>2. CASE DrainPending(r)
  <2> DEFINE f == [run[r].fire EXCEPT !.def = row[run[r].fire.auto].def]
  <2>1. FireStart(f, r) \/ FireQueue(f, r) \/ FireRefuse(f, r) \/ UNCHANGED row
    BY <1>2 DEF DrainPending
  <2>2. f \in Fires
    <3>1. row[run[r].fire.auto].def \in Defs
      BY <1>1, TypedParts DEF IInv, RowOK, RowType
    <3> QED BY <1>1, <3>1 DEF Fires
  <2> HIDE DEF f
  <2> QED BY <2>1, <2>2, BeginPlain DEF Plain
<1>3. CASE Restamp(r)
  BY <1>1, <1>3, StampFreshPlain DEF Restamp
<1>4. CASE ~DrainPending(r) /\ ~Restamp(r)
  <2>1. UNCHANGED row \/ row' = ClearToken(run[r].fire.auto)
    BY <1>4 DEF Execute, Bind, Verify, Eligible, Consume, InsertRow, ClaimToken, StartEngine, Finish,
       EndRun, durable
  <2> QED BY <1>1, <2>1, ClearPlain DEF Plain
<1> QED BY <1>2, <1>3, <1>4

-----------------------------------------------------------------------------
(* The cap on enabled automations.                                           *)

\* A request that goes without the check of the cap is about an automation that is enabled, unless
\* somebody has edited it since.
Flips == \A h \in Handlers : req[h].pc = "flip" =>
  LET q == req[h] IN
  /\ q.gen <= row[q.auto].gen
  /\ q.on /\ ~q.capped /\ MaxEnabledPerUser > 0 /\ q.gen = row[q.auto].gen => row[q.auto].enabled
Capping == MaxEnabledPerUser > 0 => \A u \in Users :
  IsFiniteSet(EnabledOf(u)) /\ Cardinality(EnabledOf(u)) <= MaxEnabledPerUser
CapInv == Flips /\ Capping

\* No automation is enabled that was not.
Shrinks == \A b \in Autos :
  row'[b].enabled /\ ~row'[b].deleted => row[b].enabled /\ ~row[b].deleted
Enables(h) == CommitFlip(h) /\ FlipMatches(req[h]) /\ req[h].on

LEMMA CapStep ==
  ASSUME IInv, [Next]_vars PROVE Shrinks \/ \E h \in Handlers : Enables(h)
<1>1. CASE Scheduler \/ \E r \in Runs : Execute(r)
  BY <1>1, SchedulerPlain, ExecutePlain DEF Plain, Shrinks
<1>2. ASSUME NEW a \in Autos,
             \/ \E d \in Defs : Create(a, d)
             \/ \E h \in Handlers : (\E d \in Defs : Update(h, a, d)) \/ Delete(h, a)
      PROVE  Shrinks
  <2>1. \/ \E d, del : row' = Edited(a, d, del)
        \/ \E d : row' = [row EXCEPT ![a] = NewRow(d)]
    BY <1>2 DEF Create, Update, Delete
  <2> QED BY <2>1, TypedParts DEF IInv, RowOK, Edited, NewRow, Shrinks
<1>3. ASSUME NEW h \in Handlers, CommitFlip(h), ~Enables(h) PROVE Shrinks
  <2>1. req[h].auto \in Autos
    BY <1>3, TypedParts DEF CommitFlip, IInv, ReqOK, ReqType, IdleReq
  <2>2. UNCHANGED row \/ (row' = EnableFlip(req[h].auto, req[h].on, req[h].next) /\ ~req[h].on)
    BY <1>3 DEF CommitFlip, Enables
  <2> QED BY <2>1, <2>2, TypedParts DEF IInv, RowOK, EnableFlip, Shrinks
<1>4. CASE UNCHANGED row
  BY <1>4 DEF Shrinks
<1> QED BY <1>1, <1>2, <1>3, <1>4
    DEF Next, HandlerStep, UserRequest, CancelAutomation, TriggerBegin, TriggerRecord, Trigger,
        ReadFlip, ClockTick, Start, Signal, Stop, StopReturns, Exit, vars, durable

LEMMA CappingNext == ASSUME IInv, CapInv, [Next]_vars PROVE Capping'
<1> SUFFICES ASSUME MaxEnabledPerUser > 0, NEW u \in Users
             PROVE  IsFiniteSet(EnabledOf(u)') /\ Cardinality(EnabledOf(u)') <= MaxEnabledPerUser
  BY DEF Capping
<1> DEFINE E == EnabledOf(u)
           F == EnabledOf(u)'
<1>1. IsFiniteSet(E) /\ Cardinality(E) <= MaxEnabledPerUser /\ Cardinality(E) \in Nat
  BY FS_CardinalityType DEF CapInv, Capping
<1>2. MaxEnabledPerUser \in Nat
  BY SchedulerAssumption
<1>3. ASSUME F \subseteq E PROVE IsFiniteSet(F) /\ Cardinality(F) <= MaxEnabledPerUser
  <2> HIDE DEF E, F
  <2>1. IsFiniteSet(F) /\ Cardinality(F) <= Cardinality(E) /\ Cardinality(F) \in Nat
    BY <1>1, <1>3, FS_Subset, FS_CardinalityType
  <2> QED BY <1>1, <1>2, <2>1
<1>4. CASE Shrinks
  <2>1. F \subseteq E
    BY <1>4 DEF Shrinks, EnabledOf
  <2> QED BY <1>3, <2>1
<1>5. ASSUME NEW h \in Handlers, Enables(h)
      PROVE  IsFiniteSet(F) /\ Cardinality(F) <= MaxEnabledPerUser
  <2> DEFINE a == req[h].auto
             D == E \ {a}
  <2>1. a \in Autos /\ req[h].on /\ req[h].pc = "flip" /\ req[h].gen = row[a].gen
    BY <1>5, TypedParts DEF Enables, CommitFlip, FlipMatches, IInv, ReqOK, ReqType, IdleReq
  <2>2. row' = EnableFlip(a, TRUE, req[h].next)
    BY <1>5, <2>1, TypedParts DEF Enables, CommitFlip, IInv, ReqOK, ReqType, IdleReq
  <2>3. F \subseteq E \cup {a} /\ (Owner[a] # u => F \subseteq E)
    BY <2>1, <2>2, TypedParts DEF IInv, RowOK, EnableFlip, EnabledOf
  <2>4. CASE Owner[a] = u /\ ~req[h].capped
    <3>1. row[a].enabled /\ ~row[a].deleted
      BY <1>5, <2>1, <2>4 DEF CapInv, Flips, Enables, FlipMatches
    <3>2. F \subseteq E
      BY <2>1, <2>3, <2>4, <3>1 DEF EnabledOf
    <3> HIDE DEF E, F
    <3> QED BY <1>3, <3>2
  <2>5. CASE Owner[a] = u /\ req[h].capped
    <3>1. Cardinality(D) < MaxEnabledPerUser
      BY <1>5, <2>5 DEF Enables, FlipMatches
    <3>2. F \subseteq D \cup {a} /\ a \notin D
      BY <2>3
    <3> HIDE DEF E, F, a
    <3>3. IsFiniteSet(D) /\ Cardinality(D) \in Nat
      BY <1>1, FS_Subset, FS_CardinalityType
    <3> HIDE DEF D
    <3>4. IsFiniteSet(D \cup {a}) /\ Cardinality(D \cup {a}) = Cardinality(D) + 1
      BY <3>2, <3>3, FS_AddElement
    <3>5. IsFiniteSet(F) /\ Cardinality(F) <= Cardinality(D \cup {a}) /\ Cardinality(F) \in Nat
      BY <3>2, <3>4, FS_Subset, FS_CardinalityType
    <3> QED BY <1>2, <3>1, <3>3, <3>4, <3>5
  <2> HIDE DEF E, F
  <2> QED BY <1>3, <2>3, <2>4, <2>5
<1> QED BY <1>4, <1>5, CapStep

\* What a step does to a request: it ends, or stays, or has just been read.
LEMMA ReqStep ==
  ASSUME IInv, [Next]_vars, NEW h \in Handlers, req'[h].pc = "flip"
  PROVE  \/ req'[h] = req[h]
         \/ UNCHANGED row /\ \E a \in Autos, on \in BOOLEAN :
              LET fresh == on /\ ~row[a].enabled /\ MaxEnabledPerUser > 0 IN
              req'[h] = [pc |-> "flip", auto |-> a, on |-> on, gen |-> row[a].gen, capped |-> fresh,
                         next |-> IF on THEN NextAfterNow(row[a].def, now) ELSE 0]
<1>0. req \in [Handlers -> ReqType]
  BY TypedParts DEF IInv, ReqOK
<1>1. ASSUME NEW g \in Handlers, NEW a \in Autos, NEW on \in BOOLEAN, ReadFlip(g, a, on)
      PROVE  \/ req'[h] = req[h]
             \/ UNCHANGED row /\ LET fresh == on /\ ~row[a].enabled /\ MaxEnabledPerUser > 0 IN
                  req'[h] = [pc |-> "flip", auto |-> a, on |-> on, gen |-> row[a].gen,
                             capped |-> fresh,
                             next |-> IF on THEN NextAfterNow(row[a].def, now) ELSE 0]
  BY <1>0, <1>1 DEF ReadFlip, durable
<1>2. ASSUME NEW g \in Handlers, NEW q \in {IdleReq} \cup [pc : {"cancel"}, auto : {req[g].auto} \cup Autos],
             req' = [req EXCEPT ![g] = q]
      PROVE  req'[h] = req[h]
  BY <1>0, <1>2 DEF IdleReq
<1>3. ASSUME NEW g \in Handlers, CommitFlip(g) \/ CancelAutomation(g) PROVE req'[h] = req[h]
  BY <1>2, <1>3 DEF CommitFlip, CancelAutomation
<1>4. ASSUME NEW g \in Handlers, NEW a \in Autos, (\E d \in Defs : Update(g, a, d)) \/ Delete(g, a)
      PROVE  req'[h] = req[h]
  BY <1>2, <1>4 DEF Update, Delete
<1>5. CASE Exit
  BY <1>5 DEF Exit, IdleReq
<1>6. CASE UNCHANGED req
  BY <1>6
<1>7. CASE Scheduler \/ (\E r \in Runs : Execute(r)) \/ ClockTick \/ Start \/ Signal \/ Stop
           \/ StopReturns \/ UNCHANGED vars \/ (\E r \in Runs : TriggerBegin(r) \/ TriggerRecord(r))
           \/ (\E a \in Autos : Trigger(a) \/ \E d \in Defs : Create(a, d))
  <2>1. UNCHANGED req
    BY <1>7 DEF Scheduler, TickList, TickDrain, TickBusy, BootDrain, ClaimSlot, SkipSlot,
       ClearSlot, BootSchedule, SchedulerFire, SchedulerCapped, SchedulerStamp, PassDone, Execute,
       Bind, Verify, Eligible, Consume, InsertRow, ClaimToken, StartEngine, Finish, Restamp, EndRun,
       DrainPending, ClockTick, Start, Signal, Stop, StopReturns, vars, TriggerBegin, TriggerRecord,
       Trigger, Create
  <2> QED BY <2>1
<1> QED BY <1>1, <1>3, <1>4, <1>5, <1>7 DEF Next, HandlerStep, UserRequest

LEMMA FlipsNext == ASSUME IInv, IInv', TokenInv, WriteInv, CapInv, [Next]_vars PROVE Flips'
<1> SUFFICES ASSUME NEW h \in Handlers, req'[h].pc = "flip"
             PROVE  /\ req'[h].gen <= row'[req'[h].auto].gen
                    /\ req'[h].on /\ ~req'[h].capped /\ MaxEnabledPerUser > 0
                       /\ req'[h].gen = row'[req'[h].auto].gen => row'[req'[h].auto].enabled
  BY DEF Flips
<1>1. CASE req'[h] = req[h]
  <2>1. PICK a \in Autos : a = req[h].auto
    BY <1>1, TypedParts DEF IInv, ReqOK, ReqType, IdleReq
  <2>2. /\ req[h].gen \in Nat /\ row[a].gen \in Nat /\ row'[a].gen \in Nat
        /\ req[h].gen <= row[a].gen
        /\ req[h].on /\ ~req[h].capped /\ MaxEnabledPerUser > 0 /\ req[h].gen = row[a].gen
             => row[a].enabled
    <3>1. req[h].gen \in 1..MaxGen
      BY <1>1, TypedParts DEF IInv, ReqOK, ReqType, IdleReq
    <3> QED BY <1>1, <2>1, <3>1, Generations, NextGenerations, SchedulerAssumption DEF CapInv, Flips
  <2>3. row'[a].gen > row[a].gen \/ (row'[a].gen = row[a].gen /\ row'[a].enabled = row[a].enabled)
    <3>1. CASE Plain
      BY <3>1 DEF Plain
    <3>2. ASSUME NEW b \in Autos, Moves(b)
          PROVE  \/ row'[a].gen > row[a].gen
                 \/ row'[a].gen = row[a].gen /\ row'[a].enabled = row[a].enabled
      BY <3>2 DEF Moves
    <3> QED BY <3>1, <3>2, NextWrites, RowPlain
  <2> QED BY <1>1, <2>1, <2>2, <2>3
<1>2. ASSUME UNCHANGED row, NEW a \in Autos, NEW on \in BOOLEAN,
             LET fresh == on /\ ~row[a].enabled /\ MaxEnabledPerUser > 0 IN
             req'[h] = [pc |-> "flip", auto |-> a, on |-> on, gen |-> row[a].gen, capped |-> fresh,
                        next |-> IF on THEN NextAfterNow(row[a].def, now) ELSE 0]
      PROVE  /\ req'[h].gen <= row'[req'[h].auto].gen
             /\ req'[h].on /\ ~req'[h].capped /\ MaxEnabledPerUser > 0
                /\ req'[h].gen = row'[req'[h].auto].gen => row'[req'[h].auto].enabled
  <2>1. /\ req'[h].auto = a /\ req'[h].on = on /\ req'[h].gen = row[a].gen
        /\ req'[h].capped = (on /\ ~row[a].enabled /\ MaxEnabledPerUser > 0)
    BY <1>2
  <2>2. row[a].gen \in Nat /\ row' = row
    BY <1>2, Generations
  <2>3. row[a].enabled \in BOOLEAN
    BY TypedParts DEF IInv, RowOK, RowType
  <2> QED BY <2>1, <2>2, <2>3
<1> QED BY <1>1, <1>2, ReqStep

-----------------------------------------------------------------------------
(* What beginRun makes of a run.                                             *)

Untouched(x) == run'[x].pc = run[x].pc /\ run'[x].fire = run[x].fire /\ run'[x].manual = run[x].manual
Displaced(x) == run[x].pc = "queued" /\ run'[x].pc = "free"
\* The run of the fire is refused, admitted, or queued with the token that the row now has.
Begun(f, r) ==
  \/ run'[r].pc = "free"
  \/ run'[r].pc = "bind" /\ ~run'[r].manual /\ run'[r].fire = f
  \/ run'[r].pc = "queued" /\ ~run'[r].manual
     /\ \E t \in FreshTokens : /\ run'[r].fire = [f EXCEPT !.token = t]
                               /\ row' = Stamp(f.auto, t, f.occ)

LEMMA BeginOne ==
  ASSUME IInv, NEW f \in Fires, NEW r \in Runs,
         FireStart(f, r) \/ FireQueue(f, r) \/ FireRefuse(f, r)
  PROVE  Begun(f, r) /\ \A x \in Runs \ {r} : Untouched(x) \/ Displaced(x)
<1>0. run \in [Runs -> RunType]
  BY TypedParts DEF IInv, RunOK
<1>1. CASE FireStart(f, r)
  BY <1>0, <1>1 DEF FireStart, IdleRun, Begun, Untouched
<1>2. CASE FireRefuse(f, r)
  BY <1>0, <1>2 DEF FireRefuse, IdleRun, Begun, Untouched
<1>3. CASE FireQueue(f, r)
  <2> DEFINE victims == IF f.def.policy = "cancel_previous" THEN active[f.auto] ELSE {}
             new(t) == [IdleRun EXCEPT !.pc = "queued", !.fire = [f EXCEPT !.token = t]]
             gone == IF pending[f.auto] = NoRun THEN {} ELSE {pending[f.auto]}
  <2>1. PICK t \in FreshTokens :
          /\ row' = Stamp(f.auto, t, f.occ)
          /\ run' = [x \in Runs |-> IF x = r THEN new(t) ELSE IF x \in gone THEN IdleRun
                                    ELSE Canceled(victims)[x]]
    BY <1>3 DEF FireQueue
  <2>2. f.auto \in Autos
    BY FireFields
  <2>3. \A x \in gone : run[x].pc = "queued"
    BY <2>2 DEF IInv, Safe, PendingReal
  <2> HIDE DEF victims, gone
  <2>4. ASSUME NEW x \in Runs PROVE /\ Canceled(victims)[x].pc = run[x].pc
                                    /\ Canceled(victims)[x].fire = run[x].fire
                                    /\ Canceled(victims)[x].manual = run[x].manual
    BY CanceledKept
  <2>5. IdleRun.pc = "free"
    BY DEF IdleRun
  <2>6. ASSUME NEW x \in Runs \ {r} PROVE Untouched(x) \/ Displaced(x)
    BY <2>1, <2>3, <2>4, <2>5 DEF Untouched, Displaced
  <2>7. /\ new(t).pc = "queued" /\ new(t).fire = [f EXCEPT !.token = t]
        /\ new(t).manual = FALSE
    BY DEF IdleRun
  <2> HIDE DEF new
  <2> QED BY <2>1, <2>6, <2>7 DEF Begun
<1> QED BY <1>1, <1>2, <1>3

-----------------------------------------------------------------------------
(* Who stands behind a row that says running.                                *)

HasRow(r) == \/ run[r].pc \in {"claim", "engine", "running"}
             \/ run[r].manual /\ run[r].pc \in {"bind", "verify", "elig"}
Staffed(r) == history[r] = "running" => HasRow(r)
RunnerInv == /\ budget.fault <= MaxFaults
             /\ phase # "down" /\ budget.fault = MaxFaults => \A r \in Runs : Staffed(r)

LEMMA UntouchedStaffed ==
  ASSUME NEW x \in Runs, Staffed(x), Untouched(x), history'[x] = history[x] PROVE Staffed(x)'
BY DEF Staffed, Untouched, HasRow

LEMMA BeginStaffed ==
  ASSUME IInv, UNCHANGED history, NEW f \in Fires, NEW r \in Runs,
         FireStart(f, r) \/ FireQueue(f, r) \/ FireRefuse(f, r), history[r] # "running",
         NEW x \in Runs, Staffed(x)
  PROVE  Staffed(x)'
<1>1. CASE x = r
  BY <1>1 DEF Staffed
<1>2. CASE Displaced(x)
  BY <1>2 DEF Displaced, Staffed, HasRow
<1> QED BY <1>1, <1>2, BeginOne, UntouchedStaffed

\* A goroutine that goes on, with what becomes of its record.
LEMMA GotoStaffed ==
  ASSUME IInv, NEW r \in Runs, NEW pc, Goto(r, pc), \A x \in Runs \ {r} : history'[x] = history[x],
         history'[r] = "running" => \/ pc \in {"claim", "engine", "running"}
                                    \/ run[r].manual /\ pc \in {"bind", "verify", "elig"},
         NEW x \in Runs, Staffed(x)
  PROVE  Staffed(x)'
<1>0. run \in [Runs -> RunType]
  BY TypedParts DEF IInv, RunOK
<1>1. CASE x = r
  <2>1. run'[r].pc = pc /\ run'[r].manual = run[r].manual
    BY <1>0 DEF Goto, RunType
  <2> QED BY <1>1, <2>1 DEF Staffed, HasRow
<1>2. CASE x # r
  BY <1>0, <1>2, UntouchedStaffed DEF Goto, Untouched
<1> QED BY <1>1, <1>2

LEMMA OnlyOne ==
  ASSUME IInv, NEW r \in Runs, NEW st, Finalize(r, st)
  PROVE  history'[r] = st /\ \A x \in Runs \ {r} : history'[x] = history[x]
BY TypedParts DEF IInv, HistoryOK, Finalize

LEMMA GoroutineStaffed ==
  ASSUME IInv, NotByHand, ~Spend("fault"), \A y \in Runs : Staffed(y), NEW r \in Runs,
         \/ Verify(r) \/ Eligible(r) \/ Consume(r) \/ InsertRow(r) \/ ClaimToken(r)
         \/ StartEngine(r) \/ Finish(r) \/ Restamp(r) \/ TriggerRecord(r),
         NEW x \in Runs
  PROVE  Staffed(x)'
<1>0. history[r] = "running" => HasRow(r)
  BY DEF Staffed
<1>1. CASE Verify(r)
  <2>1. \/ Goto(r, "elig") /\ UNCHANGED history /\ run[r].pc = "verify"
        \/ Goto(r, "end") /\ UNCHANGED history /\ run[r].pc = "verify" /\ ~run[r].manual
        \/ Goto(r, "end") /\ Finalize(r, "cancelled")
    BY <1>1 DEF Verify, Scheduled
  <2> QED BY <1>0, <2>1, GotoStaffed, OnlyOne DEF HasRow
<1>2. CASE Eligible(r)
  <2>1. \/ /\ Goto(r, IF run[r].manual THEN "engine" ELSE "insert") /\ UNCHANGED history
           /\ run[r].pc = "elig"
        \/ \E pc : Goto(r, pc) /\ Finalize(r, "failed")
    BY <1>2 DEF Eligible, AfterChecks, Scheduled
  <2> QED BY <1>0, <2>1, GotoStaffed, OnlyOne DEF HasRow
<1>3. CASE InsertRow(r)
  <2>1. \E pc \in {"claim", "engine"} : Goto(r, pc) /\ Finalize(r, "running")
    BY <1>3 DEF InsertRow
  <2> QED BY <2>1, GotoStaffed, OnlyOne
<1>4. CASE ClaimToken(r)
  <2>1. \/ Goto(r, "engine") /\ UNCHANGED history
        \/ Goto(r, "end") /\ Finalize(r, "cancelled")
    BY <1>4 DEF ClaimToken
  <2> QED BY <2>1, GotoStaffed, OnlyOne
<1>5. CASE StartEngine(r)
  <2>1. Goto(r, "running") /\ UNCHANGED history
    BY <1>5 DEF StartEngine
  <2> QED BY <2>1, GotoStaffed
<1>6. CASE Finish(r)
  <2>1. Goto(r, "end") /\ \E st \in {"failed", "cancelled", "success"} : Finalize(r, st)
    BY <1>6 DEF Finish
  <2> QED BY <2>1, GotoStaffed, OnlyOne
<1>7. CASE Consume(r) \/ Restamp(r)
  <2>1. Goto(r, "end") /\ UNCHANGED history /\ run[r].pc \in {"consume", "restamp"}
    BY <1>7 DEF Consume, Restamp
  <2> QED BY <1>0, <2>1, GotoStaffed DEF HasRow
<1>8. CASE TriggerRecord(r)
  <2>1. Goto(r, "bind") /\ Finalize(r, "running") /\ run[r].manual
    BY <1>8 DEF TriggerRecord, NotByHand
  <2> QED BY <2>1, GotoStaffed, OnlyOne
<1> QED BY <1>1, <1>2, <1>3, <1>4, <1>5, <1>6, <1>7, <1>8

LEMMA BindStaffed ==
  ASSUME IInv, NEW r \in Runs, Bind(r), NEW x \in Runs, Staffed(x) PROVE Staffed(x)'
<1>0. run \in [Runs -> RunType]
  BY TypedParts DEF IInv, RunOK
<1>1. UNCHANGED history
  BY DEF Bind, durable
<1>2. CASE x = r
  <2>1. run[r].pc = "bind" /\ run'[r].pc = "verify" /\ run'[r].manual = run[r].manual
    BY <1>0 DEF Bind, RunType
  <2> QED BY <1>1, <1>2, <2>1 DEF Staffed, HasRow
<1>3. CASE x # r
  BY <1>0, <1>1, <1>3, UntouchedStaffed DEF Bind, Untouched
<1> QED BY <1>2, <1>3

LEMMA EndRunStaffed ==
  ASSUME IInv, NEW r \in Runs, EndRun(r), NEW x \in Runs, Staffed(x) PROVE Staffed(x)'
<1> DEFINE a == run[r].fire.auto
           pop == pending[a] # NoRun /\ active[a] = {r} /\ Started
<1>1. /\ run'[x] = (IF x = r THEN IdleRun
                    ELSE IF pop /\ x = pending[a] THEN [run[x] EXCEPT !.pc = "drain"]
                    ELSE run[x])
      /\ a \in Autos /\ run[r].pc = "end"
  BY RunFields, TypedParts DEF EndRun, IInv
<1>2. pop /\ x = pending[a] => run[x].pc = "queued"
  BY <1>1 DEF IInv, Safe, PendingReal
<1>3. history'[x] = IF x = r THEN IF history[r] = "running" THEN "running" ELSE "none" ELSE history[x]
  BY TypedParts DEF EndRun, IInv, HistoryOK
<1> HIDE DEF pop, a
<1> QED BY <1>1, <1>2, <1>3 DEF Staffed, HasRow, IdleRun

LEMMA ExecuteStaffed ==
  ASSUME IInv, TokenInv, WriteInv, ~Spend("fault"), \A y \in Runs : Staffed(y), NEW r \in Runs,
         Execute(r), NEW x \in Runs
  PROVE  Staffed(x)'
<1>1. CASE DrainPending(r)
  <2> DEFINE f == [run[r].fire EXCEPT !.def = row[run[r].fire.auto].def]
  <2>1. /\ run[r].pc = "drain" /\ UNCHANGED history
        /\ \/ FireStart(f, r) \/ FireQueue(f, r) \/ FireRefuse(f, r)
           \/ run' = [run EXCEPT ![r] = IdleRun]
    BY <1>1 DEF DrainPending
  <2>2. f \in Fires
    BY <2>1, DrainFire
  <2>3. history[r] # "running"
    BY <2>1 DEF Staffed, HasRow
  <2> HIDE DEF f
  <2>4. CASE run' = [run EXCEPT ![r] = IdleRun]
    <3>1. run'[x] = IF x = r THEN IdleRun ELSE run[x]
      BY <2>4, TypedParts DEF IInv, RunOK
    <3> QED BY <2>1, <2>3, <3>1 DEF Staffed, HasRow
  <2> QED BY <2>1, <2>2, <2>3, <2>4, BeginStaffed
<1> QED BY <1>1, GoroutineStaffed, BindStaffed, EndRunStaffed DEF Execute, WriteInv

LEMMA SchedulerStaffed ==
  ASSUME IInv, Scheduler, NEW x \in Runs, Staffed(x) PROVE Staffed(x)'
<1>1. CASE SchedulerFire
  <2>1. PICK f \in Fires : f = sched.fire
    BY <1>1, TypedParts DEF SchedulerFire, IInv, SchedOK, SchedReal
  <2>2. PICK r \in Runs : /\ FreshRun(r)
                          /\ FireStart(f, r) \/ FireQueue(f, r) \/ FireRefuse(f, r)
    BY <1>1, <2>1 DEF SchedulerFire
  <2> QED BY <1>1, <2>2, BeginStaffed DEF SchedulerFire, FreshRun
<1>2. CASE ~SchedulerFire
  <2>1. UNCHANGED <<run, history>>
    BY <1>2 DEF Scheduler, TickList, TickDrain, TickBusy, BootDrain, ClaimSlot, SkipSlot,
       ClearSlot, BootSchedule, SchedulerCapped, SchedulerStamp, PassDone, durable
  <2> QED BY <2>1, UntouchedStaffed DEF Untouched
<1> QED BY <1>1, <1>2

LEMMA HandlerStaffed ==
  ASSUME IInv, NotByHand, ~Spend("fault"), \A y \in Runs : Staffed(y),
         HandlerStep \/ UserRequest, NEW x \in Runs
  PROVE  Staffed(x)'
<1>1. CASE UNCHANGED <<run, history>>
  BY <1>1, UntouchedStaffed DEF Untouched
<1>2. ASSUME NEW h \in Handlers, CancelAutomation(h) PROVE Staffed(x)'
  <2>1. req[h].auto \in Autos
    BY <1>2, TypedParts DEF CancelAutomation, IInv, ReqOK, ReqType, IdleReq
  <2>2. /\ UNCHANGED history
        /\ run'[x] = IF x = pending[req[h].auto] THEN IdleRun ELSE Canceled(active[req[h].auto])[x]
    BY <1>2 DEF CancelAutomation, durable
  <2>3. CASE x = pending[req[h].auto]
    <3>1. run[x].pc = "queued"
      BY <2>1, <2>3, SchedulerAssumption DEF IInv, Safe, PendingReal
    <3> QED BY <2>2, <3>1 DEF Staffed, HasRow
  <2>4. CASE x # pending[req[h].auto]
    BY <2>2, <2>4, CanceledKept, UntouchedStaffed DEF Untouched
  <2> QED BY <2>3, <2>4
<1>3. ASSUME NEW r \in Runs, TriggerBegin(r) PROVE Staffed(x)'
  <2>0. run[r].pc = "trigger" /\ UNCHANGED history /\ (Staffed(r) => history[r] # "running")
    BY <1>3 DEF TriggerBegin, durable, Staffed, HasRow
  <2>1. Goto(r, "record") \/ run' = [run EXCEPT ![r] = IdleRun]
    BY <1>3 DEF TriggerBegin
  <2>2. CASE run' = [run EXCEPT ![r] = IdleRun]
    <3>1. run'[x] = IF x = r THEN IdleRun ELSE run[x]
      BY <2>2, TypedParts DEF IInv, RunOK
    <3> QED BY <2>0, <3>1 DEF Staffed, HasRow
  <2> QED BY <2>0, <2>1, <2>2, GotoStaffed
<1>4. ASSUME NEW a \in Autos, Trigger(a) PROVE Staffed(x)'
  <2>1. PICK r \in Runs : FreshRun(r) /\ \A y \in Runs \ {r} : run'[y] = run[y]
    BY <1>4, TypedParts DEF Trigger, IInv, RunOK
  <2>2. UNCHANGED history
    BY <1>4 DEF Trigger, durable
  <2>3. CASE x = r
    BY <2>1, <2>2, <2>3 DEF FreshRun, Staffed
  <2> QED BY <2>1, <2>2, <2>3, UntouchedStaffed DEF Untouched
<1> QED BY <1>1, <1>2, <1>3, <1>4, GoroutineStaffed
    DEF HandlerStep, UserRequest, CommitFlip, Create, Update, Delete, ReadFlip, durable

\* Budgets only go down.
LEMMA BudgetStep ==
  ASSUME [Next]_vars PROVE UNCHANGED budget \/ Spend("trigger") \/ Spend("fault") \/ Spend("crash")
<1>1. CASE Scheduler
  BY <1>1 DEF Scheduler, TickList, TickDrain, TickBusy, BootDrain, ClaimSlot, SkipSlot, ClearSlot,
     BootSchedule, SchedulerFire, SchedulerCapped, SchedulerStamp, PassDone, FireStart, FireQueue,
     FireRefuse, StampFresh
<1>2. ASSUME NEW r \in Runs, DrainPending(r) \/ Restamp(r)
      PROVE  UNCHANGED budget \/ Spend("fault")
  BY <1>2 DEF DrainPending, Restamp, FireStart, FireQueue, FireRefuse, StampFresh
<1>3. ASSUME NEW r \in Runs, Execute(r), ~DrainPending(r), ~Restamp(r)
      PROVE  UNCHANGED budget \/ Spend("fault")
  BY <1>3 DEF Execute, Bind, Verify, Eligible, Consume, InsertRow, ClaimToken, StartEngine, Finish,
     EndRun
<1>4. CASE HandlerStep \/ UserRequest
  BY <1>4 DEF HandlerStep, CommitFlip, CancelAutomation, TriggerBegin, TriggerRecord, UserRequest,
     Create, Update, Delete, ReadFlip, Trigger
<1>5. CASE ClockTick \/ Start \/ Signal \/ Stop \/ StopReturns \/ Exit \/ UNCHANGED vars
  BY <1>5 DEF ClockTick, Start, Signal, Stop, StopReturns, Exit, vars
<1> QED BY <1>1, <1>2, <1>3, <1>4, <1>5 DEF Next

\* The process comes up by Start only.
LEMMA DownStays ==
  ASSUME IInv, WriteInv, [Next]_vars, phase = "down", ~Start PROVE phase' = "down"
<1>1. \A r \in Runs : run[r].pc = "free"
  BY DEF IInv, Safe, NoneWhenDown
<1> QED BY <1>1 DEF Next, Scheduler, TickList, TickDrain, TickBusy, BootDrain, ClaimSlot, SkipSlot,
     ClearSlot, BootSchedule, SchedulerFire, SchedulerCapped, SchedulerStamp, PassDone, Execute,
     Bind, Verify, Eligible, Consume, InsertRow, ClaimToken, StartEngine, Finish, Restamp, EndRun,
     DrainPending, HandlerStep, CommitFlip, CancelAutomation, TriggerBegin, TriggerRecord,
     UserRequest, Create, Update, Delete, ReadFlip, Trigger, ClockTick, Signal, Stop,
     StopReturns, Exit, vars

LEMMA RunnerNext == ASSUME IInv, IInv', TokenInv, WriteInv, RunnerInv, [Next]_vars PROVE RunnerInv'
<1>0. /\ budget \in [trigger : Nat, fault : Nat, crash : Nat] /\ BudgetOK'
      /\ budget.fault \in Nat /\ budget'.fault \in Nat /\ MaxFaults \in Nat
  <2>1. BudgetOK /\ BudgetOK'
    BY TypedParts, TypedNext DEF IInv
  <2> QED BY <2>1, SchedulerAssumption DEF BudgetOK
<1>1. budget'.fault = budget.fault \/ (Spend("fault") /\ budget'.fault = budget.fault - 1)
  BY <1>0, BudgetStep DEF Spend
<1>2. budget'.fault <= MaxFaults /\ (budget'.fault = MaxFaults => ~Spend("fault") /\ budget.fault = MaxFaults)
  <2>1. Spend("fault") => budget'.fault = budget.fault - 1
    BY <1>0 DEF Spend
  <2> QED BY <1>0, <1>1, <2>1 DEF RunnerInv
<1>4. ASSUME phase' # "down", budget'.fault = MaxFaults, NEW x \in Runs PROVE Staffed(x)'
  <2>1. ~Spend("fault") /\ (phase # "down" => \A y \in Runs : Staffed(y))
    BY <1>2, <1>4 DEF RunnerInv
  <2>2. CASE Start
    <3>1. history' = Interrupted
      BY <2>1, <2>2 DEF Start
    <3> QED BY <3>1 DEF Interrupted, Staffed
  <2>3. CASE ~Start
    <3>1. phase # "down"
      BY <1>4, <2>3, DownStays
    <3>2. CASE Signal
      <4>1. run[x] \in RunType
        BY TypedParts DEF IInv, RunOK
      <4>2. Untouched(x) /\ UNCHANGED history
        BY <3>2, <4>1 DEF Signal, durable, Untouched, RunType
      <4> QED BY <2>1, <3>1, <4>2, UntouchedStaffed
    <3>3. CASE Stop
      BY <2>1, <3>1, <3>3, CanceledKept, UntouchedStaffed DEF Stop, durable, Untouched
    <3>4. CASE ClockTick \/ StopReturns \/ UNCHANGED vars
      BY <2>1, <3>1, <3>4, UntouchedStaffed DEF ClockTick, StopReturns, durable, vars, Untouched
    <3>5. CASE Scheduler
      BY <2>1, <3>1, <3>5, SchedulerStaffed
    <3>6. ASSUME NEW r \in Runs, Execute(r) PROVE Staffed(x)'
      BY <2>1, <3>1, <3>6, ExecuteStaffed
    <3>7. CASE HandlerStep \/ UserRequest
      BY <2>1, <3>1, <3>7, HandlerStaffed DEF WriteInv
    <3>8. ~Exit
      BY <1>4 DEF Exit
    <3> QED BY <2>3, <3>2, <3>3, <3>4, <3>5, <3>6, <3>7, <3>8 DEF Next
  <2> QED BY <2>2, <2>3
<1> QED BY <1>2, <1>4 DEF RunnerInv

-----------------------------------------------------------------------------
(* Who carries an occurrence.                                                *)

\* An open occurrence of the row's generation is in the row or is borne.
Held == \A o \in ledger.open :
  /\ o \in Occs /\ o.gen <= row[o.auto].gen
  /\ row[o.auto].gen = o.gen => row[o.auto].occ = o \/ Borne(o)
\* Who is about to consume the token of the row has put its occurrence on record.  Should the slot
\* have been claimed anew since, then somebody else bears it.
OwedBy(r) == \A o \in Occs :
  (/\ run[r].pc = "consume" /\ run[r].fire.token # NoToken /\ run[r].fire.occ = o
   /\ row[run[r].fire.auto].token = run[r].fire.token /\ o \in ledger.open)
  => Borne(o)
Owed == \A r \in Runs : OwedBy(r)
SchedDown == phase = "down" => sched.pc = "idle"
CarryInv == Held /\ Owed /\ SchedDown

\* An occurrence is still borne, or is in the row under a new token, or is outdated.
Passed(o) == \/ Borne(o)' \/ row'[o.auto].gen # o.gen
             \/ row'[o.auto].occ = o /\ row'[o.auto].token \in FreshTokens
\* What a step does with the occurrences that stay open: who bears one passes it on, and so does
\* the row; a new one is borne; and a run that is to consume its token has its own on record.
Carry ==
  /\ \A o \in ledger.open \cap ledger'.open : Borne(o) => Passed(o)
  /\ \A o \in ledger.open \cap ledger'.open :
       row[o.auto].occ = o /\ row[o.auto].gen = o.gen => row'[o.auto].occ = o \/ Passed(o)
  /\ \A o \in ledger'.open \ ledger.open : o \in Occs /\ o.gen <= row'[o.auto].gen /\ Borne(o)'
  /\ \A r \in Runs : run'[r].pc = "consume" =>
       \/ run[r].pc = "consume" /\ run'[r].fire = run[r].fire
       \/ run'[r].fire.occ \notin ledger'.open

LEMMA OccFields ==
  ASSUME NEW o \in Occs PROVE o.auto \in Autos /\ o.gen \in Nat /\ o # NoOcc
BY SchedulerAssumption DEF Occs, NoOcc

LEMMA CarryOn ==
  ASSUME IInv, IInv', TokenInv, TokenInv', RowStep, CarryInv, Carry PROVE Held' /\ Owed'
<1>1. ASSUME NEW a \in Autos
      PROVE  /\ row[a].gen \in Nat /\ row'[a].gen \in Nat /\ row'[a].gen >= row[a].gen
             /\ row'[a].token \in {NoToken, row[a].token} \cup FreshTokens
  BY Generations, NextGenerations DEF RowStep, Quiet, Moves, Stamps
<1>2. ASSUME NEW o \in ledger'.open
      PROVE  /\ o \in Occs /\ o.gen <= row'[o.auto].gen
             /\ row'[o.auto].gen = o.gen => row'[o.auto].occ = o \/ Borne(o)'
  <2>1. CASE o \notin ledger.open
    BY <2>1 DEF Carry
  <2>2. CASE o \in ledger.open
    <3>1. o \in Occs /\ o.gen <= row[o.auto].gen /\ o.auto \in Autos /\ o.gen \in Nat
      BY <2>2, OccFields DEF CarryInv, Held
    <3>2. o.gen <= row'[o.auto].gen
      BY <1>1, <3>1
    <3>3. ASSUME row'[o.auto].gen = o.gen PROVE row'[o.auto].occ = o \/ Borne(o)'
      <4>1. row[o.auto].gen = o.gen
        BY <1>1, <3>1, <3>3
      <4>2. row[o.auto].occ = o \/ Borne(o)
        BY <2>2, <4>1 DEF CarryInv, Held
      <4>3. row'[o.auto].occ = o \/ Passed(o)
        BY <2>2, <4>1, <4>2 DEF Carry
      <4> QED BY <3>3, <4>3 DEF Passed
    <3> QED BY <3>1, <3>2, <3>3
  <2> QED BY <2>1, <2>2
<1>3. ASSUME NEW r \in Runs PROVE OwedBy(r)'
  <2>0. SUFFICES ASSUME NEW o \in Occs, run'[r].pc = "consume", run'[r].fire.token # NoToken,
                        run'[r].fire.occ = o, o \in ledger'.open,
                        row'[run'[r].fire.auto].token = run'[r].fire.token
                 PROVE  Borne(o)'
    BY DEF OwedBy
  <2>1. CASE o \notin ledger.open
    BY <2>0, <2>1 DEF Carry
  <2>2. CASE o \in ledger.open
    <3>1. run[r].pc = "consume" /\ run'[r].fire = run[r].fire
      BY <2>0 DEF Carry
    <3>2. PICK f \in Fires : f = run[r].fire /\ InFlight(f) /\ InFlight(f)'
      <4>1. run[r].fire \in Fires
        BY <3>1, RunFields, TypedParts DEF IInv
      <4>2. run[r].pc # "free" /\ run'[r].pc # "free"
        BY <2>0, <3>1
      <4> QED BY <3>1, <4>1, <4>2 DEF InFlight, RunHolds
    <3>3. f.auto \in Autos /\ f.token # NoToken /\ row'[f.auto].token = f.token /\ f.occ = o
      BY <2>0, <3>1, <3>2, FireFields
    <3>4. row[f.auto].token = f.token /\ row'[f.auto].token \notin FreshTokens
      BY <1>1, <3>2, <3>3, FreshIsNobodys
    <3>5. row'[f.auto].gen = f.gen /\ Own(f)
      BY <3>2, <3>3 DEF TokenInv, Agreed, Agrees, Own
    <3>6. o.auto = f.auto /\ o.gen = f.gen
      BY <3>3, <3>5, OccFields DEF Own
    <3>7. Borne(o)
      BY <2>0, <2>2, <3>1, <3>2, <3>3, <3>4 DEF CarryInv, Owed, OwedBy
    <3>8. Passed(o)
      BY <2>0, <2>2, <3>7 DEF Carry
    <3> QED BY <3>4, <3>5, <3>6, <3>8 DEF Passed
  <2> QED BY <2>1, <2>2
<1> QED BY <1>2, <1>3 DEF Held, Owed

-----------------------------------------------------------------------------
(* How each step passes the occurrences on.                                  *)

NoneOpens == ledger'.open \subseteq ledger.open
RowGoesOn == \A o \in ledger.open \cap ledger'.open :
  row[o.auto].occ = o /\ row[o.auto].gen = o.gen => row'[o.auto].occ = o \/ Passed(o)
GoesOn(x) ==
  /\ \A o \in ledger.open \cap ledger'.open : Bears(x, o) => Passed(o)
  /\ run'[x].pc = "consume" => \/ run[x].pc = "consume" /\ run'[x].fire = run[x].fire
                               \/ run'[x].fire.occ \notin ledger'.open
SchedGoesOn == \A o \in ledger.open \cap ledger'.open : SchedBears(o) => Passed(o)

LEMMA Going ==
  ASSUME NoneOpens, RowGoesOn, SchedGoesOn, \A x \in Runs : GoesOn(x) PROVE Carry
<1>1. ASSUME NEW o \in ledger.open \cap ledger'.open, Borne(o) PROVE Passed(o)
  BY <1>1 DEF Borne, GoesOn, SchedGoesOn
<1>2. \A r \in Runs : run'[r].pc = "consume" => \/ run[r].pc = "consume" /\ run'[r].fire = run[r].fire
                                                \/ run'[r].fire.occ \notin ledger'.open
  BY DEF GoesOn
<1> QED BY <1>1, <1>2 DEF Carry, NoneOpens, RowGoesOn

\* An open occurrence is one, and of a row.
LEMMA OpenFields ==
  ASSUME IInv, CarryInv, NEW o \in ledger.open
  PROVE  /\ o \in Occs /\ o # NoOcc /\ o.auto \in Autos /\ o.gen \in Nat
         /\ row[o.auto].gen \in Nat
<1>1. o \in Occs
  BY DEF CarryInv, Held
<1> QED BY <1>1, OccFields, Generations

LEMMA KeptGoes ==
  ASSUME NEW x \in Runs, Untouched(x) \/ Displaced(x) PROVE GoesOn(x)
<1>1. CASE Untouched(x)
  <2>1. ASSUME NEW o, Bears(x, o) PROVE Passed(o)
    <3>1. Bears(x, o)'
      BY <1>1, <2>1 DEF Untouched, Bears
    <3> QED BY <3>1 DEF Passed, Borne
  <2> QED BY <1>1, <2>1 DEF GoesOn, Untouched
<1>2. CASE Displaced(x)
  BY <1>2 DEF Displaced, GoesOn, Bears, Early
<1> QED BY <1>1, <1>2

LEMMA SchedKeeps ==
  ASSUME UNCHANGED sched \/ sched.pc \in {"idle", "scan"} PROVE SchedGoesOn
<1>1. CASE UNCHANGED sched
  BY <1>1 DEF SchedGoesOn, SchedBears, Passed, Borne
<1>2. CASE sched.pc \in {"idle", "scan"}
  BY <1>2 DEF SchedGoesOn, SchedBears
<1> QED BY <1>1, <1>2

LEMMA QuietRows ==
  ASSUME IInv, CarryInv,
         (\A a \in Autos : row'[a].occ = row[a].occ) \/ \E a \in Autos : Moves(a)
  PROVE  RowGoesOn
<1> SUFFICES ASSUME NEW o \in ledger.open, row[o.auto].occ = o, row[o.auto].gen = o.gen
             PROVE  row'[o.auto].occ = o \/ Passed(o)
  BY DEF RowGoesOn
<1>0. o.auto \in Autos /\ o.gen \in Nat
  BY OpenFields
<1>1. CASE \A a \in Autos : row'[a].occ = row[a].occ
  BY <1>0, <1>1
<1>2. ASSUME NEW a \in Autos, Moves(a) PROVE row'[o.auto].occ = o \/ Passed(o)
  <2>1. CASE a = o.auto
    <3>1. row'[o.auto].gen # o.gen
      BY <1>0, <1>2, <2>1 DEF Moves
    <3> QED BY <3>1 DEF Passed
  <2>2. CASE a # o.auto
    BY <1>0, <1>2, <2>2 DEF Moves
  <2> QED BY <2>1, <2>2
<1> QED BY <1>1, <1>2

LEMMA Closes ==
  ASSUME IInv, NEW os, Close(os) PROVE ledger'.open = ledger.open \ os /\ NoneOpens
BY TypedParts DEF IInv, LedgerOK, Close, NoneOpens

\* A fire with a fresh token in the row, in place of whatever was there.
LEMMA ParkCarry ==
  ASSUME IInv, CarryInv, NEW f \in Fires, Agrees(f), NEW t \in FreshTokens,
         row' = Stamp(f.auto, t, f.occ), Close({row[f.auto].occ} \ {f.occ})
  PROVE  /\ NoneOpens /\ RowGoesOn
         /\ f.occ \in ledger.open \cap ledger'.open => Passed(f.occ)
<1>1. Stamps(f.auto, t, f.occ) /\ f.auto \in Autos
  BY FireFields, StampStep
<1>2. NoneOpens /\ ledger'.open = ledger.open \ ({row[f.auto].occ} \ {f.occ})
  BY Closes
<1>3. ASSUME f.occ \in ledger.open PROVE Passed(f.occ)
  <2>1. f.occ.auto = f.auto
    BY <1>3, OpenFields DEF Agrees, Own
  <2> QED BY <1>1, <2>1 DEF Passed, Stamps
<1>4. ASSUME NEW o \in ledger.open \cap ledger'.open, row[o.auto].occ = o
      PROVE  row'[o.auto].occ = o
  <2>1. o.auto \in Autos
    BY OpenFields
  <2>2. CASE o.auto = f.auto
    <3>1. o = f.occ
      BY <1>2, <1>4, <2>2
    <3> QED BY <1>1, <2>2, <3>1 DEF Stamps
  <2>3. CASE o.auto # f.auto
    BY <1>1, <1>4, <2>1, <2>3 DEF Stamps
  <2> QED BY <2>2, <2>3
<1> QED BY <1>2, <1>3, <1>4 DEF RowGoesOn

\* An occurrence that is parked is in the row, and one that is dropped is no longer open.
LEMMA StampCarry ==
  ASSUME IInv, CarryInv, NEW f \in Fires, Agrees(f), StampFresh(f)
  PROVE  /\ NoneOpens /\ RowGoesOn
         /\ f.occ \in ledger.open \cap ledger'.open => Passed(f.occ)
<1>1. CASE UNCHANGED row /\ Close({f.occ})
  BY <1>1, Closes, QuietRows
<1>2. ASSUME NEW t \in FreshTokens, row' = Stamp(f.auto, t, f.occ),
             Close({row[f.auto].occ} \ {f.occ})
      PROVE  /\ NoneOpens /\ RowGoesOn
             /\ f.occ \in ledger.open \cap ledger'.open => Passed(f.occ)
  BY <1>2, ParkCarry
<1> QED BY <1>1, <1>2 DEF StampFresh

LEMMA BeginCarry ==
  ASSUME IInv, CarryInv, NEW f \in Fires, Agrees(f), NEW r \in Runs,
         run[r].pc \in {"free", "drain"},
         FireStart(f, r) \/ FireQueue(f, r) \/ FireRefuse(f, r)
  PROVE  /\ NoneOpens /\ RowGoesOn /\ \A x \in Runs : GoesOn(x)
         /\ f.occ \in ledger.open \cap ledger'.open /\ f.token = NoToken => Passed(f.occ)
<1>1. \A x \in Runs \ {r} : GoesOn(x)
  BY BeginOne, KeptGoes
<1>2. GoesOn(r)
  BY BeginOne DEF Begun, GoesOn, Bears, Early
<1>3. CASE FireStart(f, r)
  <2>1. UNCHANGED <<row, ledger>> /\ run'[r].pc = "bind" /\ run'[r].fire = f
    BY <1>3, TypedParts DEF FireStart, IInv, RunOK, IdleRun
  <2>2. f.token = NoToken => Bears(r, f.occ)'
    BY <2>1 DEF Bears, Early
  <2>3. f.token = NoToken => Passed(f.occ)
    BY <2>2 DEF Passed, Borne
  <2> QED BY <1>1, <1>2, <2>1, <2>3, QuietRows DEF NoneOpens
<1>4. CASE FireQueue(f, r)
  <2>1. PICK t \in FreshTokens : row' = Stamp(f.auto, t, f.occ)
    BY <1>4 DEF FireQueue
  <2>2. Close({row[f.auto].occ} \ {f.occ})
    BY <1>4 DEF FireQueue
  <2> QED BY <1>1, <1>2, <2>1, <2>2, ParkCarry
<1>5. CASE FireRefuse(f, r)
  <2>1. UNCHANGED row /\ Close(IF f.token = NoToken THEN {f.occ} ELSE {})
    BY <1>5 DEF FireRefuse
  <2> QED BY <1>1, <1>2, <2>1, Closes, QuietRows
<1> QED BY <1>3, <1>4, <1>5

LEMMA StillGoes == ASSUME UNCHANGED run PROVE \A x \in Runs : GoesOn(x)
BY KeptGoes DEF Untouched

LEMMA StillRows == ASSUME IInv, CarryInv, UNCHANGED row PROVE RowGoesOn
BY QuietRows

\* The slot that the scheduler claims is of no later generation than the row.
LEMMA ClaimCarry ==
  ASSUME IInv, TokenInv, CarryInv, NEW a \in Autos, ClaimSlot(a) PROVE Carry
<1> DEFINE s == sched.snap[a]
<1>0. PICK o : o = [auto |-> a, gen |-> s.gen, slot |-> s.next]
  OBVIOUS
<1>1. /\ sched.pc = "scan" /\ a \in sched.todo /\ UNCHANGED run
      /\ row' = [row EXCEPT ![a].next = NextAfterNow(s.def, sched.at)]
      /\ \/ UNCHANGED ledger
         \/ /\ sched' = [NextRow(a) EXCEPT !.pc = "fire", !.fire = Fire(a, NoToken, o)]
            /\ ledger' = [ledger EXCEPT !.open = @ \cup {o}]
  BY <1>0 DEF ClaimSlot, AtSlot, AtRow
<1>2. SchedOK /\ SchedGoesOn /\ \A x \in Runs : GoesOn(x)
  BY <1>1, SchedKeeps, StillGoes, TypedParts DEF IInv
<1>3. (\A b \in Autos : row'[b].occ = row[b].occ /\ row'[b].gen = row[b].gen) /\ RowGoesOn
  <2>1. \A b \in Autos : row'[b].occ = row[b].occ /\ row'[b].gen = row[b].gen
    BY <1>1, NextStep DEF Quiet
  <2> QED BY <2>1, QuietRows
<1>4. CASE UNCHANGED ledger
  BY <1>2, <1>3, <1>4, Going DEF NoneOpens
<1>5. CASE /\ sched' = [NextRow(a) EXCEPT !.pc = "fire", !.fire = Fire(a, NoToken, o)]
           /\ ledger' = [ledger EXCEPT !.open = @ \cup {o}]
  <2>1. o \in Occs
    <3>1. s.gen \in 1..MaxGen
      BY <1>1, <1>2, SnapFields, SchedulerAssumption DEF SchedReal, SchedOK
    <3>2. s.next \in 1..MaxTime
      BY <1>2, SnapFields, SchedulerAssumption DEF ClaimSlot, Due
    <3> QED BY <1>0, <3>1, <3>2 DEF Occs
  <2>2. o.auto = a /\ o.gen = s.gen
    BY <1>0
  <2>3. PICK f \in Fires : f = Fire(a, NoToken, NoOcc)
    BY <1>1, <1>2, FireType
  <2>4. f.auto = a /\ f.gen = s.gen /\ f.def = s.def /\ f.token = NoToken /\ f.occ = NoOcc
    BY <2>3 DEF Fire
  <2>5. Agrees(f)
    BY <1>1, <2>4 DEF TokenInv, Agreed, InFlight, SchedHolds, Own
  <2>6. o.gen <= row'[o.auto].gen
    BY <1>3, <2>2, <2>4, <2>5 DEF Agrees
  <2>7. Fire(a, NoToken, o).token = NoToken /\ Fire(a, NoToken, o).occ = o
    BY DEF Fire
  <2>8. sched'.pc = "fire" /\ sched'.fire = Fire(a, NoToken, o)
    BY <1>2, <1>5 DEF SchedOK, NextRow
  <2>9. Borne(o)'
    BY <2>7, <2>8 DEF Borne, SchedBears
  <2>10. ledger'.open = ledger.open \cup {o}
    BY <1>5, TypedParts DEF IInv, LedgerOK
  <2>11. \A p \in ledger.open \cap ledger'.open : Borne(p) => Passed(p)
    BY <1>2 DEF Borne, GoesOn, SchedGoesOn
  <2>12. UNCHANGED run
    BY <1>1
  <2> QED BY <1>3, <2>1, <2>6, <2>9, <2>10, <2>11, <2>12 DEF Carry, RowGoesOn
<1> QED BY <1>1, <1>4, <1>5

LEMMA SchedulerCarry == ASSUME IInv, TokenInv, WriteInv, CarryInv, Scheduler PROVE Carry
<1>0. ASSUME sched.pc \in {"fire", "stamp"}
      PROVE  \E f \in Fires : f = sched.fire /\ Agrees(f)
  BY <1>0, TypedParts DEF IInv, SchedOK, SchedReal, TokenInv, Agreed, InFlight, SchedHolds
<1>1. CASE SchedulerFire
  <2>1. PICK f \in Fires : f = sched.fire /\ Agrees(f)
    BY <1>0, <1>1 DEF SchedulerFire
  <2>2. PICK r \in Runs : /\ run[r].pc = "free"
                          /\ FireStart(f, r) \/ FireQueue(f, r) \/ FireRefuse(f, r)
    BY <1>1, <2>1 DEF SchedulerFire, FreshRun
  <2>3. /\ NoneOpens /\ RowGoesOn /\ \A x \in Runs : GoesOn(x)
        /\ f.occ \in ledger.open \cap ledger'.open /\ f.token = NoToken => Passed(f.occ)
    BY <2>1, <2>2, BeginCarry
  <2>4. SchedGoesOn
    BY <2>1, <2>3 DEF SchedGoesOn, SchedBears
  <2> QED BY <2>3, <2>4, Going
<1>2. CASE SchedulerStamp
  <2>1. PICK f \in Fires : f = sched.fire /\ Agrees(f)
    BY <1>0, <1>2 DEF SchedulerStamp
  <2>2. StampFresh(f) /\ UNCHANGED run
    BY <1>2, <2>1 DEF SchedulerStamp
  <2>3. /\ NoneOpens /\ RowGoesOn
        /\ f.occ \in ledger.open \cap ledger'.open => Passed(f.occ)
    BY <2>1, <2>2, StampCarry
  <2>4. SchedGoesOn
    BY <2>1, <2>3 DEF SchedGoesOn, SchedBears
  <2> QED BY <2>2, <2>3, <2>4, StillGoes, Going
<1>3. CASE SchedulerCapped
  <2>1. sched.pc = "fire" /\ sched' = AfterCap /\ UNCHANGED <<run, row, ledger>>
    BY <1>3 DEF SchedulerCapped, durable
  <2>2. sched.fire.token = NoToken => sched'.pc = "stamp" /\ sched'.fire = sched.fire
    BY <2>1, TypedParts DEF IInv, SchedOK, AfterCap
  <2>3. SchedGoesOn
    <3>1. ASSUME NEW o, SchedBears(o) PROVE Passed(o)
      <4>1. SchedBears(o)'
        BY <2>2, <3>1 DEF SchedBears
      <4> QED BY <4>1 DEF Passed, Borne
    <3> QED BY <3>1 DEF SchedGoesOn
  <2> QED BY <2>1, <2>3, StillGoes, StillRows, Going DEF NoneOpens
<1>4. CASE TickList \/ PassDone
  <2>1. sched.pc \in {"idle", "scan"} /\ UNCHANGED <<run, row, ledger>>
    BY <1>4 DEF TickList, PassDone, durable
  <2> QED BY <2>1, SchedKeeps, StillGoes, StillRows, Going DEF NoneOpens
<1>5. ASSUME NEW a \in Autos,
             TickDrain(a) \/ TickBusy(a) \/ SkipSlot(a) \/ ClearSlot(a) \/ BootSchedule(a)
             \/ BootDrain(a)
      PROVE  Carry
  <2>1. sched.pc = "scan" /\ UNCHANGED <<run, ledger>>
    BY <1>5 DEF TickDrain, TickBusy, SkipSlot, ClearSlot, BootSchedule, BootDrain, AtSlot, AtRow,
       durable
  <2>2. \A b \in Autos : row'[b].occ = row[b].occ
    <3>1. CASE BootDrain(a)
      <4>1. UNCHANGED row \/ (row' = ClearToken(a) /\ row[a].token = NoToken)
        BY <1>5, <3>1, NoManualDrain DEF BootDrain, AtRow
      <4>2. row[a].token = NoToken => row[a].occ = NoOcc
        BY DEF TokenInv, Apart
      <4> QED BY <4>1, <4>2, TypedParts DEF IInv, RowOK, RowType, ClearToken
    <3>2. CASE ~BootDrain(a)
      <4>1. UNCHANGED row \/ \E n : row' = [row EXCEPT ![a].next = n]
        BY <1>5, <3>2 DEF TickDrain, TickBusy, SkipSlot, ClearSlot, BootSchedule, durable
      <4> QED BY <4>1, NextStep
    <3> QED BY <3>1, <3>2
  <2> QED BY <2>1, <2>2, SchedKeeps, StillGoes, QuietRows, Going DEF NoneOpens
<1> QED BY <1>1, <1>2, <1>3, <1>4, <1>5, ClaimCarry DEF Scheduler

\* A run that goes on alone.
LEMMA GotoOne ==
  ASSUME IInv, NEW r \in Runs, NEW pc, Goto(r, pc)
  PROVE  /\ run'[r].pc = pc /\ run'[r].fire = run[r].fire
         /\ \A x \in Runs \ {r} : Untouched(x) /\ GoesOn(x)
<1>1. run \in [Runs -> RunType]
  BY TypedParts DEF IInv, RunOK
<1>2. run'[r].pc = pc /\ run'[r].fire = run[r].fire
  BY <1>1 DEF Goto, RunType
<1>3. \A x \in Runs \ {r} : Untouched(x)
  BY <1>1 DEF Goto, Untouched
<1> QED BY <1>2, <1>3, KeptGoes

\* Whoever bears its occurrence goes on to do so, or has passed it on.
LEMMA GotoGoes ==
  ASSUME IInv, NEW r \in Runs, NEW pc, Goto(r, pc), pc # "consume", NEW f, f = run[r].fire,
         \/ run[r].pc \notin Early \cup {"engine"}
         \/ run[r].pc \in Early /\ (pc \in Early \cup {"engine"} \/ f.token # NoToken)
         \/ f.occ \notin ledger.open \cap ledger'.open
         \/ Passed(f.occ)
  PROVE  \A x \in Runs : GoesOn(x)
<1>1. /\ run'[r].pc = pc /\ run'[r].fire = f
      /\ \A x \in Runs \ {r} : GoesOn(x)
  BY GotoOne
<1>2. "engine" \notin Early
  BY DEF Early
<1>3. ASSUME NEW o \in ledger.open \cap ledger'.open, Bears(r, o) PROVE Passed(o)
  <2>1. f.occ = o /\ (run[r].pc = "engine" \/ (run[r].pc \in Early /\ f.token = NoToken))
    BY <1>3 DEF Bears
  <2>2. CASE run[r].pc \in Early /\ pc \in Early \cup {"engine"}
    <3>1. Bears(r, o)'
      BY <1>1, <1>2, <2>1, <2>2 DEF Bears
    <3> QED BY <3>1 DEF Passed, Borne
  <2> QED BY <1>2, <2>1, <2>2
<1> QED BY <1>1, <1>3 DEF GoesOn

\* The fire of a run that is under way.
LEMMA RunFire ==
  ASSUME IInv, TokenInv, NEW r \in Runs, run[r].pc # "free"
  PROVE  \E f \in Fires : f = run[r].fire /\ Agrees(f) /\ f.auto \in Autos
BY RunFields, FireFields, TypedParts DEF IInv, TokenInv, Agreed, InFlight, RunHolds

\* A run that fails its checks has no occurrence, or an outdated one.
LEMMA VerifyGoes ==
  ASSUME IInv, TokenInv, WriteInv, CarryInv, NEW r \in Runs, Verify(r)
  PROVE  \A x \in Runs : GoesOn(x)
<1>0. run[r].pc = "verify" /\ UNCHANGED row
  BY DEF Verify
<1>1. PICK f \in Fires : f = run[r].fire /\ Agrees(f) /\ f.auto \in Autos
  BY <1>0, RunFire
<1>2. run[r].manual => f.occ \notin ledger.open
  <2>1. run[r].manual => f.occ = NoOcc
    BY <1>0, <1>1 DEF WriteInv, NotByHand
  <2> QED BY <2>1, OpenFields
<1>3. CASE Goto(r, "elig") \/ Goto(r, "restamp")
  BY <1>0, <1>1, <1>3, GotoGoes DEF Early
<1>4. CASE Goto(r, "end")
  <2>1. \/ ~VerifyPasses(r)
        \/ run[r].manual
        \/ f.token # NoToken
    <3>1. "elig" # "end" /\ "restamp" # "end" /\ run'[r].pc = "end"
      BY <1>4, GotoOne
    <3>2. Goto(r, "elig") => run'[r].pc = "elig"
      BY GotoOne
    <3>3. Goto(r, "restamp") => run'[r].pc = "restamp"
      BY GotoOne
    <3> QED BY <1>1, <3>1, <3>2, <3>3 DEF Verify, Retry, Drains, Scheduled
  <2>2. CASE ~VerifyPasses(r)
    <3>1. row[f.auto].gen # f.gen
      BY <1>1, <2>2 DEF VerifyPasses, Agrees
    <3>2. f.occ \in ledger.open => f.occ.auto = f.auto /\ f.occ.gen = f.gen
      BY <1>1, OpenFields DEF Agrees, Own
    <3>3. f.occ \in ledger.open => Passed(f.occ)
      BY <1>0, <3>1, <3>2 DEF Passed
    <3> QED BY <1>1, <1>4, <3>3, GotoGoes
  <2>3. CASE run[r].manual
    BY <1>1, <1>2, <1>4, <2>3, GotoGoes
  <2>4. CASE f.token # NoToken
    BY <1>0, <1>1, <1>4, <2>4, GotoGoes DEF Early
  <2> QED BY <2>1, <2>2, <2>3, <2>4
<1>5. Goto(r, "elig") \/ Goto(r, "restamp") \/ Goto(r, "end")
  BY DEF Verify, Retry
<1> QED BY <1>3, <1>4, <1>5

\* An ineligible run has closed its occurrence before it consumes its token.
LEMMA EligibleGoes ==
  ASSUME IInv, TokenInv, WriteInv, CarryInv, NEW r \in Runs, Eligible(r)
  PROVE  NoneOpens /\ \A x \in Runs : GoesOn(x)
<1>0. run[r].pc = "elig"
  BY DEF Eligible
<1>1. PICK f \in Fires : f = run[r].fire
  BY <1>0, RunFire
<1>2. CASE UNCHANGED ledger /\ \E pc \in {"insert", "engine", "restamp"} : Goto(r, pc)
  BY <1>0, <1>1, <1>2, GotoGoes DEF Early, NoneOpens
<1>3. CASE UNCHANGED ledger /\ Goto(r, "end") /\ f.token # NoToken
  BY <1>0, <1>1, <1>3, GotoGoes DEF Early, NoneOpens
<1>4. ASSUME NEW pc \in {"consume", "end"}, Goto(r, pc), Close({f.occ})
      PROVE  NoneOpens /\ \A x \in Runs : GoesOn(x)
  <2>1. NoneOpens /\ f.occ \notin ledger'.open
    BY <1>4, Closes
  <2>2. GoesOn(r) /\ \A x \in Runs \ {r} : GoesOn(x)
    BY <1>1, <1>4, <2>1, GotoOne DEF GoesOn, Bears
  <2> QED BY <2>1, <2>2
<1> QED BY <1>1, <1>2, <1>3, <1>4 DEF Eligible, AfterChecks, Retry, Drains

\* Who consumes a token that has been claimed anew since leaves the occurrence to whoever did so.
LEMMA ConsumeCarry ==
  ASSUME IInv, TokenInv, CarryInv, NEW r \in Runs, Consume(r) PROVE Carry
<1>0. run[r].pc = "consume" /\ Goto(r, "end") /\ UNCHANGED <<sched, ledger>>
  BY DEF Consume
<1>1. PICK f \in Fires : f = run[r].fire /\ Agrees(f) /\ f.auto \in Autos
  BY <1>0, RunFire
<1>2. SchedGoesOn /\ NoneOpens /\ \A x \in Runs : GoesOn(x)
  BY <1>0, <1>1, SchedKeeps, GotoGoes DEF NoneOpens, Early
<1>3. CASE UNCHANGED row
  BY <1>2, <1>3, StillRows, Going
<1>4. CASE Claimable(f.auto, f.token) /\ row' = ClearToken(f.auto)
  <2>1. \A b \in Autos \ {f.auto} : row'[b] = row[b]
    BY <1>1, <1>4, ClearStep
  <2>2. ASSUME NEW o \in ledger.open, row[o.auto].occ = o
        PROVE  row'[o.auto].occ = o \/ Passed(o)
    <3>1. o \in Occs /\ o.auto \in Autos
      BY OpenFields
    <3>2. CASE o.auto = f.auto
      <4>1. f.occ = o /\ f.token # NoToken
        BY <1>1, <1>4, <2>2, <3>2 DEF Agrees, Claimable
      <4>2. Borne(o)
        BY <1>0, <1>1, <1>4, <3>1, <4>1 DEF CarryInv, Owed, OwedBy, Claimable
      <4> QED BY <1>0, <1>2, <4>2 DEF Borne, GoesOn, SchedGoesOn
    <3>3. CASE o.auto # f.auto
      BY <2>1, <2>2, <3>1, <3>3
    <3> QED BY <3>2, <3>3
  <2>3. RowGoesOn
    BY <2>2 DEF RowGoesOn
  <2> QED BY <1>2, <2>3, Going
<1> QED BY <1>1, <1>3, <1>4 DEF Consume

\* Who claims the token of the row has its occurrence.
LEMMA ClaimTokenCarry ==
  ASSUME IInv, TokenInv, CarryInv, NEW r \in Runs, ClaimToken(r) PROVE Carry
<1>0. run[r].pc = "claim" /\ UNCHANGED <<sched, ledger>>
  BY DEF ClaimToken
<1>1. PICK f \in Fires : f = run[r].fire /\ Agrees(f) /\ f.auto \in Autos
  BY <1>0, RunFire
<1>2. PICK pc \in {"engine", "end"} : Goto(r, pc)
  BY DEF ClaimToken
<1>3. SchedGoesOn /\ NoneOpens /\ \A x \in Runs : GoesOn(x)
  BY <1>0, <1>1, <1>2, SchedKeeps, GotoGoes DEF NoneOpens, Early
<1>4. CASE UNCHANGED row
  BY <1>3, <1>4, StillRows, Going
<1>5. CASE Claimable(f.auto, f.token) /\ row' = ClearToken(f.auto) /\ Goto(r, "engine")
  <2>1. \A b \in Autos \ {f.auto} : row'[b] = row[b]
    BY <1>1, <1>5, ClearStep
  <2>2. ASSUME NEW o \in ledger.open, row[o.auto].occ = o
        PROVE  row'[o.auto].occ = o \/ Passed(o)
    <3>1. o \in Occs /\ o.auto \in Autos
      BY OpenFields
    <3>2. CASE o.auto = f.auto
      <4>1. f.occ = o
        BY <1>1, <1>5, <2>2, <3>2 DEF Agrees, Claimable
      <4>2. Bears(r, o)'
        BY <1>1, <1>5, <4>1, GotoOne DEF Bears
      <4> QED BY <4>2 DEF Passed, Borne
    <3>3. CASE o.auto # f.auto
      BY <2>1, <2>2, <3>1, <3>3
    <3> QED BY <3>2, <3>3
  <2>3. RowGoesOn
    BY <2>2 DEF RowGoesOn
  <2> QED BY <1>3, <2>3, Going
<1> QED BY <1>1, <1>4, <1>5 DEF ClaimToken

\* The occurrence of a run is closed before its engine does anything.
LEMMA StartEngineGoes ==
  ASSUME IInv, TokenInv, NEW r \in Runs, StartEngine(r)
  PROVE  NoneOpens /\ \A x \in Runs : GoesOn(x)
<1>0. run[r].pc = "engine"
  BY DEF StartEngine
<1>1. PICK f \in Fires : f = run[r].fire
  BY <1>0, RunFire
<1>2. PICK pc \in {"running", "end"} : Goto(r, pc)
  BY DEF StartEngine
<1>3. ledger'.open = ledger.open \ {f.occ}
  <2>1. \/ ledger' = [ledger EXCEPT !.open = @ \ {f.occ}]
        \/ /\ DOMAIN ledger' = {"open", "ran", "rerun"}
           /\ ledger'.open = ledger.open \ {f.occ}
    BY <1>1 DEF StartEngine, Close
  <2> QED BY <2>1, TypedParts DEF IInv, LedgerOK
<1> QED BY <1>1, <1>2, <1>3, GotoGoes DEF NoneOpens

\* A run whose retry is to come is parked with its occurrence.
LEMMA RestampCarry ==
  ASSUME IInv, TokenInv, CarryInv, NEW r \in Runs, Restamp(r) PROVE Carry
<1>0. run[r].pc = "restamp" /\ Goto(r, "end") /\ UNCHANGED sched
  BY DEF Restamp
<1>1. PICK f \in Fires : f = run[r].fire /\ Agrees(f)
  BY <1>0, RunFire
<1>2. NoneOpens /\ RowGoesOn /\ (f.occ \in ledger.open \cap ledger'.open => Passed(f.occ))
  BY <1>1, StampCarry DEF Restamp
<1>3. \A x \in Runs : GoesOn(x)
  BY <1>0, <1>1, <1>2, GotoGoes
<1> QED BY <1>0, <1>2, <1>3, SchedKeeps, Going

LEMMA BindGoes == ASSUME IInv, NEW r \in Runs, Bind(r) PROVE \A x \in Runs : GoesOn(x)
<1>0. run \in [Runs -> RunType] /\ run[r].pc = "bind"
  BY TypedParts DEF IInv, RunOK, Bind
<1>1. run'[r].pc = "verify" /\ run'[r].fire = run[r].fire
  BY <1>0 DEF Bind, RunType
<1>2. \A x \in Runs \ {r} : GoesOn(x)
  BY <1>0, KeptGoes DEF Bind, Untouched
<1>3. ASSUME NEW o, Bears(r, o) PROVE Passed(o)
  <2>1. Bears(r, o)'
    BY <1>0, <1>1, <1>3 DEF Bears, Early
  <2> QED BY <2>1 DEF Passed, Borne
<1> QED BY <1>1, <1>2, <1>3 DEF GoesOn

LEMMA EndRunGoes == ASSUME IInv, NEW r \in Runs, EndRun(r) PROVE \A x \in Runs : GoesOn(x)
<1> SUFFICES ASSUME NEW x \in Runs PROVE GoesOn(x)
  OBVIOUS
<1> DEFINE a == run[r].fire.auto
           pop == pending[a] # NoRun /\ active[a] = {r} /\ Started
<1>1. /\ run'[x] = (IF x = r THEN IdleRun
                    ELSE IF pop /\ x = pending[a] THEN [run[x] EXCEPT !.pc = "drain"]
                    ELSE run[x])
      /\ a \in Autos /\ run[r].pc = "end"
  BY RunFields, TypedParts DEF EndRun, IInv
<1>2. pop /\ x = pending[a] => run[x].pc = "queued"
  BY <1>1 DEF IInv, Safe, PendingReal
<1>3. run[x] \in RunType
  BY TypedParts DEF IInv, RunOK
<1> HIDE DEF pop, a
<1>4. CASE x = r \/ (pop /\ x = pending[a])
  <2>1. run'[x].pc \in {"free", "drain"} /\ run[x].pc \in {"end", "queued"}
    BY <1>1, <1>2, <1>3, <1>4 DEF IdleRun, RunType
  <2> QED BY <2>1 DEF GoesOn, Bears, Early
<1>5. CASE ~(x = r \/ (pop /\ x = pending[a]))
  BY <1>1, <1>5, KeptGoes DEF Untouched
<1> QED BY <1>4, <1>5

LEMMA ExecuteCarry ==
  ASSUME IInv, TokenInv, WriteInv, CarryInv, NEW r \in Runs, Execute(r) PROVE Carry
<1>1. CASE DrainPending(r)
  <2>1. run[r].pc = "drain" /\ UNCHANGED sched
    BY <1>1 DEF DrainPending
  <2>2. PICK f : f = [run[r].fire EXCEPT !.def = row[run[r].fire.auto].def]
    OBVIOUS
  <2>3. f \in Fires /\ Agrees(f)
    BY <2>1, <2>2, DrainFire
  <2>4. \/ FireStart(f, r) \/ FireQueue(f, r) \/ FireRefuse(f, r)
        \/ run' = [run EXCEPT ![r] = IdleRun] /\ UNCHANGED <<row, ledger>>
    BY <1>1, <2>2 DEF DrainPending
  <2>5. CASE run' = [run EXCEPT ![r] = IdleRun] /\ UNCHANGED <<row, ledger>>
    <3>1. \A x \in Runs : run'[x] = IF x = r THEN IdleRun ELSE run[x]
      BY <2>5, TypedParts DEF IInv, RunOK
    <3>2. \A x \in Runs \ {r} : GoesOn(x)
      BY <3>1, KeptGoes DEF Untouched
    <3>3. GoesOn(r)
      BY <2>1, <3>1 DEF GoesOn, Bears, Early, IdleRun
    <3> QED BY <2>1, <2>5, <3>2, <3>3, StillRows, SchedKeeps, Going DEF NoneOpens
  <2> QED BY <2>1, <2>3, <2>4, <2>5, BeginCarry, SchedKeeps, Going
<1>2. CASE Verify(r)
  BY <1>2, VerifyGoes, StillRows, SchedKeeps, Going DEF Verify, NoneOpens
<1>3. CASE Eligible(r)
  BY <1>3, EligibleGoes, StillRows, SchedKeeps, Going DEF Eligible
<1>4. CASE StartEngine(r)
  BY <1>4, StartEngineGoes, StillRows, SchedKeeps, Going DEF StartEngine
<1>5. CASE Bind(r)
  BY <1>5, BindGoes, StillRows, SchedKeeps, Going DEF Bind, durable, NoneOpens
<1>6. CASE EndRun(r)
  BY <1>6, EndRunGoes, StillRows, SchedKeeps, Going DEF EndRun, NoneOpens
<1>7. CASE InsertRow(r)
  <2>1. run[r].pc = "insert" /\ UNCHANGED <<row, sched, ledger>>
    BY <1>7 DEF InsertRow
  <2>2. PICK f : f = run[r].fire
    OBVIOUS
  <2>3. \/ \E pc \in {"engine", "restamp"} : Goto(r, pc)
        \/ f.token # NoToken /\ \E pc \in {"claim", "end"} : Goto(r, pc)
    BY <1>7, <2>2 DEF InsertRow, Retry, Drains
  <2>4. \A x \in Runs : GoesOn(x)
    BY <2>1, <2>2, <2>3, GotoGoes DEF Early
  <2> QED BY <2>1, <2>4, StillRows, SchedKeeps, Going DEF NoneOpens
<1>8. CASE Finish(r)
  <2>1. run[r].pc = "running" /\ Goto(r, "end") /\ UNCHANGED <<row, sched, ledger>>
    BY <1>8 DEF Finish
  <2>2. \A x \in Runs : GoesOn(x)
    BY <2>1, GotoGoes DEF Early
  <2> QED BY <2>1, <2>2, StillRows, SchedKeeps, Going DEF NoneOpens
<1> QED BY <1>1, <1>2, <1>3, <1>4, <1>5, <1>6, <1>7, <1>8, ConsumeCarry, ClaimTokenCarry,
           RestampCarry DEF Execute

LEMMA HandlerCarry ==
  ASSUME IInv, CarryInv, WriteInv, HandlerStep \/ UserRequest PROVE Carry
<1>0. NoneOpens /\ SchedGoesOn
  BY SchedKeeps DEF HandlerStep, CommitFlip, CancelAutomation, TriggerBegin, TriggerRecord,
     UserRequest, Create, Update, Delete, ReadFlip, Trigger, NoneOpens
<1>1. CASE UNCHANGED run /\ (UNCHANGED row \/ \E a \in Autos : Moves(a))
  BY <1>0, <1>1, StillGoes, StillRows, QuietRows, Going
<1>2. ASSUME NEW h \in Handlers, CommitFlip(h)
      PROVE  UNCHANGED run /\ (UNCHANGED row \/ \E a \in Autos : Moves(a))
  <2>1. PICK a \in Autos : a = req[h].auto
    BY <1>2, TypedParts DEF CommitFlip, IInv, ReqOK, ReqType, IdleReq
  <2>2. UNCHANGED row \/ row' = EnableFlip(a, req[h].on, req[h].next)
    BY <1>2, <2>1 DEF CommitFlip
  <2> QED BY <1>2, <2>2, EditRows DEF CommitFlip
<1>3. ASSUME NEW a \in Autos,
             \/ \E d \in Defs : Create(a, d)
             \/ \E h \in Handlers : (\E d \in Defs : Update(h, a, d)) \/ Delete(h, a)
      PROVE  UNCHANGED run /\ (UNCHANGED row \/ \E b \in Autos : Moves(b))
  <2>1. \/ \E d, del : row' = Edited(a, d, del)
        \/ row[a].gen = 0 /\ \E d : row' = [row EXCEPT ![a] = NewRow(d)]
    BY <1>3 DEF Create, Update, Delete
  <2>2. UNCHANGED run
    BY <1>3 DEF Create, Update, Delete
  <2> QED BY <2>1, <2>2, EditRows
<1>4. ASSUME NEW h \in Handlers, CancelAutomation(h) PROVE Carry
  <2>1. req[h].auto \in Autos /\ UNCHANGED row
    BY <1>4, TypedParts DEF CancelAutomation, durable, IInv, ReqOK, ReqType, IdleReq
  <2>2. ASSUME NEW x \in Runs PROVE GoesOn(x)
    <3>1. run'[x] = IF x = pending[req[h].auto] THEN IdleRun ELSE Canceled(active[req[h].auto])[x]
      BY <1>4 DEF CancelAutomation
    <3>2. CASE x = pending[req[h].auto]
      <4>1. run[x].pc = "queued"
        BY <2>1, <3>2, SchedulerAssumption DEF IInv, Safe, PendingReal
      <4>2. run'[x].pc = "free"
        BY <3>1, <3>2 DEF IdleRun
      <4> QED BY <4>1, <4>2, KeptGoes DEF Displaced
    <3>3. CASE x # pending[req[h].auto]
      BY <3>1, <3>3, CanceledKept, KeptGoes DEF Untouched
    <3> QED BY <3>2, <3>3
  <2> QED BY <1>0, <2>1, <2>2, StillRows, Going
<1>5. ASSUME NEW r \in Runs, TriggerBegin(r) \/ TriggerRecord(r) PROVE Carry
  <2>1. UNCHANGED row /\ run[r].pc \in {"trigger", "record"}
    BY <1>5 DEF TriggerBegin, TriggerRecord, durable
  <2>2. \/ \E pc \in {"record", "bind", "end"} : Goto(r, pc)
        \/ run' = [run EXCEPT ![r] = IdleRun]
    BY <1>5 DEF TriggerBegin, TriggerRecord
  <2>3. CASE \E pc \in {"record", "bind", "end"} : Goto(r, pc)
    BY <1>0, <2>1, <2>3, GotoGoes, StillRows, Going DEF Early
  <2>4. CASE run' = [run EXCEPT ![r] = IdleRun]
    <3>1. \A x \in Runs : run'[x] = IF x = r THEN IdleRun ELSE run[x]
      BY <2>4, TypedParts DEF IInv, RunOK
    <3>2. \A x \in Runs \ {r} : GoesOn(x)
      BY <3>1, KeptGoes DEF Untouched
    <3>3. GoesOn(r)
      BY <2>1, <3>1 DEF GoesOn, Bears, Early, IdleRun
    <3> QED BY <1>0, <2>1, <3>2, <3>3, StillRows, Going
  <2> QED BY <2>2, <2>3, <2>4
<1>6. ASSUME NEW a \in Autos, Trigger(a) PROVE Carry
  <2>1. PICK r \in Runs : run[r].pc = "free" /\ run'[r].pc = "trigger"
                          /\ \A y \in Runs \ {r} : run'[y] = run[y]
    BY <1>6, TypedParts DEF Trigger, FreshRun, IInv, RunOK, IdleRun
  <2>2. \A x \in Runs \ {r} : GoesOn(x)
    BY <2>1, KeptGoes DEF Untouched
  <2>3. GoesOn(r)
    BY <2>1 DEF GoesOn, Bears, Early
  <2>4. UNCHANGED row
    BY <1>6 DEF Trigger, durable
  <2> QED BY <1>0, <2>2, <2>3, <2>4, StillRows, Going
<1>7. ASSUME NEW h \in Handlers, NEW a \in Autos, NEW on \in BOOLEAN, ReadFlip(h, a, on)
      PROVE  UNCHANGED run /\ UNCHANGED row
  BY <1>7 DEF ReadFlip, durable
<1> QED BY <1>1, <1>2, <1>3, <1>4, <1>5, <1>6, <1>7 DEF HandlerStep, UserRequest

LEMMA ProcessCarry ==
  ASSUME IInv, CarryInv, ClockTick \/ Start \/ Signal \/ Stop \/ StopReturns \/ UNCHANGED vars
  PROVE  Carry
<1>1. UNCHANGED <<row, ledger>> /\ NoneOpens /\ RowGoesOn
  <2>1. UNCHANGED <<row, ledger>>
    BY DEF ClockTick, Start, Signal, Stop, StopReturns, durable, vars
  <2> QED BY <2>1, StillRows DEF NoneOpens
<1>2. SchedGoesOn
  <2>1. Start => sched.pc = "idle"
    BY DEF Start, CarryInv, SchedDown
  <2>2. ~Start => UNCHANGED sched
    BY DEF ClockTick, Signal, Stop, StopReturns, vars
  <2> QED BY <2>1, <2>2, SchedKeeps
<1>3. ASSUME NEW x \in Runs PROVE GoesOn(x)
  <2>1. CASE Signal
    <3>1. run[x] \in RunType
      BY TypedParts DEF IInv, RunOK
    <3> QED BY <2>1, <3>1, KeptGoes DEF Signal, Untouched, RunType
  <2>2. CASE Stop
    BY <2>2, CanceledKept, KeptGoes DEF Stop, Untouched
  <2>3. CASE ClockTick \/ Start \/ StopReturns \/ UNCHANGED vars
    BY <2>3, StillGoes DEF ClockTick, Start, StopReturns, vars
  <2> QED BY <2>1, <2>2, <2>3
<1> QED BY <1>1, <1>2, <1>3, Going

\* A crash forgets the fires, and what is open afterwards is in the rows.
LEMMA ExitCarries == ASSUME IInv, CarryInv, Exit PROVE Held' /\ Owed'
<1>1. UNCHANGED row /\ ledger'.open = {o \in ledger.open : row[o.auto].occ = o}
  BY TypedParts DEF Exit, IInv, LedgerOK
<1>2. Held'
  BY <1>1 DEF Held, CarryInv
<1>3. \A r \in Runs : run'[r].pc # "consume"
  BY DEF Exit, IdleRun
<1> QED BY <1>2, <1>3 DEF Owed, OwedBy

LEMMA DownNext == ASSUME CarryInv, [Next]_vars PROVE SchedDown'
<1> SUFFICES ASSUME phase' = "down" PROVE sched'.pc = "idle"
  BY DEF SchedDown
<1>1. CASE Exit
  BY <1>1 DEF Exit, IdleSched
<1>2. CASE phase = "down" /\ ~Exit
  <2>1. sched.pc = "idle"
    BY <1>2 DEF CarryInv, SchedDown
  <2>2. UNCHANGED sched
    <3>1. ~Scheduler
      BY <1>2, <2>1 DEF Scheduler, TickList, Ticking, TickDrain, TickBusy, BootDrain, ClaimSlot,
         SkipSlot, ClearSlot, BootSchedule, SchedulerFire, SchedulerCapped, SchedulerStamp,
         PassDone, AtSlot, AtRow
    <3>2. ~Start
      BY DEF Start
    <3>3. ASSUME NEW r \in Runs, Execute(r) PROVE UNCHANGED sched
      BY <3>3 DEF Execute, Bind, Verify, Eligible, Consume, InsertRow, ClaimToken, StartEngine,
         Finish, Restamp, EndRun, DrainPending
    <3>4. HandlerStep \/ UserRequest => UNCHANGED sched
      BY DEF HandlerStep, CommitFlip, CancelAutomation, TriggerBegin, TriggerRecord,
         UserRequest, Create, Update, Delete, ReadFlip, Trigger
    <3> QED BY <1>2, <3>1, <3>2, <3>3, <3>4 DEF Next, ClockTick, Signal, Stop, StopReturns, vars
  <2> QED BY <2>1, <2>2
<1>3. phase = "down" \/ Exit
  <2>1. Scheduler => UNCHANGED phase \/ phase' = "up"
    BY DEF Scheduler, TickList, TickDrain, TickBusy, BootDrain, ClaimSlot, SkipSlot, ClearSlot,
       BootSchedule, SchedulerFire, SchedulerCapped, SchedulerStamp, PassDone
  <2>2. ASSUME NEW r \in Runs, Execute(r) PROVE UNCHANGED phase
    BY <2>2 DEF Execute, Bind, Verify, Eligible, Consume, InsertRow, ClaimToken, StartEngine,
       Finish, Restamp, EndRun, DrainPending
  <2>3. HandlerStep \/ UserRequest => UNCHANGED phase
    BY DEF HandlerStep, CommitFlip, CancelAutomation, TriggerBegin, TriggerRecord,
       UserRequest, Create, Update, Delete, ReadFlip, Trigger
  <2> QED BY <2>1, <2>2, <2>3 DEF Next, ClockTick, Start, Signal, Stop, StopReturns, vars
<1> QED BY <1>1, <1>2, <1>3

LEMMA CarryNext ==
  ASSUME IInv, IInv', TokenInv, TokenInv', WriteInv, CarryInv, [Next]_vars PROVE CarryInv'
<1>1. CASE Exit
  BY <1>1, ExitCarries, DownNext DEF CarryInv
<1>2. CASE ~Exit
  <2>1. Carry
    BY <1>2, SchedulerCarry, ExecuteCarry, HandlerCarry, ProcessCarry DEF Next
  <2>2. RowStep
    BY NextWrites, WriteStep
  <2> QED BY <2>1, <2>2, CarryOn, DownNext DEF CarryInv
<1> QED BY <1>1, <1>2

-----------------------------------------------------------------------------
(* The tables are true.                                                      *)

TablesInv == CapInv /\ RunnerInv /\ CarryInv

LEMMA TablesInit == ASSUME Init PROVE TablesInv
<1>0. \A u \in Users : EnabledOf(u) = {}
  BY DEF Init, NewRow, EnabledOf
<1>1. CapInv
  <2>1. Flips
    BY DEF Init, Flips, IdleReq
  <2>2. Capping
    BY <1>0, FS_EmptySet, SchedulerAssumption DEF Capping
  <2> QED BY <2>1, <2>2 DEF CapInv
<1>2. RunnerInv
  <2>1. budget.fault = MaxFaults /\ phase = "down"
    BY DEF Init
  <2>2. MaxFaults \in Nat
    BY SchedulerAssumption
  <2> QED BY <2>1, <2>2 DEF RunnerInv
<1>3. CarryInv
  <2>1. ledger.open = {} /\ sched.pc = "idle"
    BY DEF Init, IdleSched
  <2>2. \A r \in Runs : run[r].pc = "free"
    BY DEF Init, IdleRun
  <2> QED BY <2>1, <2>2 DEF CarryInv, Held, Owed, OwedBy, SchedDown
<1> QED BY <1>1, <1>2, <1>3 DEF TablesInv

LEMMA TablesNext ==
  ASSUME IInv, IInv', TokenInv, TokenInv', WriteInv, TablesInv, [Next]_vars PROVE TablesInv'
BY FlipsNext, CappingNext, RunnerNext, CarryNext DEF TablesInv, CapInv

LEMMA TablesTell == ASSUME IInv, TablesInv PROVE TablesAreTrue
<1>1. NoOccurrenceLost
  <2>1. ASSUME NEW o \in ledger.open, row[o.auto].gen = o.gen, row[o.auto].occ # o PROVE Carried(o)
    <3>1. Borne(o) /\ o \in Occs /\ o.auto \in Autos
      BY <2>1, OccFields DEF TablesInv, CarryInv, Held
    <3>2. CASE \E r \in Runs : Bears(r, o)
      BY <3>2 DEF Bears, Early, Carried
    <3>3. CASE SchedBears(o)
      <4>1. sched.fire # NoFire
        <5>1. sched.fire \in Fires
          BY <3>3, TypedParts DEF SchedBears, IInv, SchedOK, SchedReal
        <5>2. sched.fire.auto # 0
          BY <5>1, FireFields, SchedulerAssumption
        <5> QED BY <5>2 DEF NoFire
      <4> QED BY <3>3, <4>1 DEF SchedBears, Carried
    <3> QED BY <3>1, <3>2, <3>3 DEF Borne
  <2> QED BY <2>1 DEF NoOccurrenceLost
<1>2. RunningRowsHaveRunner
  BY DEF TablesInv, RunnerInv, RunningRowsHaveRunner, Staffed, HasRow, Admitted
<1>3. EnabledWithinCap
  BY DEF TablesInv, CapInv, Capping, EnabledWithinCap
<1> QED BY <1>1, <1>2, <1>3 DEF TablesAreTrue

\* What the tables say holds through every failure, crash and restart.  An occurrence whose slot
\* ClaimDueRun advanced is in its row, with the scheduler, or with a run that has yet to start its
\* engine, until it has run, is on record, is superseded by an edit or is dropped on purpose; while
\* no store call has failed, a row that says running has a goroutine behind it; and no user ever
\* has more automations enabled than the cap, although SetEnabled checks it on a stale row.
THEOREM TablesTrue == Spec => []TablesAreTrue
<1>1. Init => TablesInv
  BY TablesInit
<1>2. IInv /\ IInv' /\ TokenInv /\ TokenInv' /\ WriteInv /\ TablesInv /\ [Next]_vars => TablesInv'
  BY TablesNext
<1>3. Spec => []WriteInv
  BY WriteInit, WriteNext, Inductive, Backing, PTL DEF Spec
<1>4. IInv /\ TablesInv => TablesAreTrue
  BY TablesTell
<1> QED BY <1>1, <1>2, <1>3, <1>4, Inductive, Backing, PTL DEF Spec

-----------------------------------------------------------------------------
(* No occurrence is executed twice, where nothing is ever queued.             *)

NoQueueing == \A d \in Defs : d.policy \in {"skip_if_running", "parallel"}

\* A scheduled run has an occurrence, is never queued, and is parked only without a token.
Sound(x) == /\ run[x].pc # "free" /\ ~run[x].manual => run[x].fire.occ \in Occs
            /\ run[x].pc = "restamp" => run[x].fire.token = NoToken
            /\ run[x].pc \notin {"queued", "drain"}
RowsDated == \A a \in Autos : row[a].token # NoToken => row[a].occ \in Occs
SchedDated == /\ sched.pc \in {"fire", "stamp"} => sched.fire.occ \in Occs
              /\ sched.pc = "stamp" => sched.fire.token = NoToken
              /\ \A a \in sched.todo : sched.snap[a].token # NoToken => sched.snap[a].occ \in Occs
Dated == (\A x \in Runs : Sound(x)) /\ RowsDated /\ SchedDated
\* An occurrence is with one run, with the scheduler, in its row or has run: one of these at a time.
Distinct(o) == /\ \A r, s \in Runs : Bears(r, o) /\ Bears(s, o) => r = s
               /\ \A r \in Runs : ~(Bears(r, o) /\ SchedBears(o))
               /\ row[o.auto].occ = o => ~Borne(o)
               /\ o \in ledger.ran => ~Borne(o) /\ row[o.auto].occ # o
Taken(o) == o \in ledger.ran \/ Borne(o) \/ row[o.auto].occ = o
\* The slot of one that was claimed is over: the clock, the row and the scan are past it.
Over(o) == Taken(o) =>
  /\ o.gen <= row[o.auto].gen /\ o.slot <= now
  /\ sched.pc # "idle" => o.slot <= sched.at
  /\ row[o.auto].gen = o.gen => row[o.auto].next = 0 \/ row[o.auto].next > o.slot
  /\ o.auto \in sched.todo => o.gen <= sched.snap[o.auto].gen
  /\ o.auto \in sched.todo /\ sched.snap[o.auto].gen = o.gen =>
       sched.snap[o.auto].next = 0 \/ sched.snap[o.auto].next > o.slot
OnceInv == /\ Dated /\ (\A o \in Occs : Distinct(o) /\ Over(o))
           /\ sched.at <= now /\ ledger.rerun = {}

\* A step takes an occurrence from its holders, or hands it over.
Loses(x) == (\A o \in Occs : Bears(x, o)' => Bears(x, o)) /\ Sound(x)'
SchedLoses == \A o \in Occs : SchedBears(o)' => SchedBears(o)
RowsLose == \A o \in Occs : row'[o.auto].occ = o => row[o.auto].occ = o
RanLoses == \A o \in Occs : o \in ledger'.ran => o \in ledger.ran
Handed(o) == Distinct(o)' /\ Taken(o)
Lost(o) == /\ \A r \in Runs : Bears(r, o)' => Bears(r, o)
           /\ SchedBears(o)' => SchedBears(o)
           /\ row'[o.auto].occ = o => row[o.auto].occ = o
           /\ o \in ledger'.ran => o \in ledger.ran
Passes == \A o \in Occs : Lost(o) \/ Handed(o)

LEMMA Losing ==
  ASSUME \A x \in Runs : Loses(x), SchedLoses, RowsLose, RanLoses PROVE Passes
BY DEF Loses, SchedLoses, RowsLose, RanLoses, Lost, Passes

LEMMA LostOne == ASSUME NEW o \in Occs, Lost(o), Distinct(o) PROVE Distinct(o)' /\ (Taken(o)' => Taken(o))
BY DEF Lost, Distinct, Taken, Borne

LEMMA PassesOn ==
  ASSUME Passes, NEW o \in Occs, Distinct(o) PROVE Distinct(o)' /\ (Taken(o)' => Taken(o))
BY LostOne DEF Passes, Handed

LEMMA KeptLoses ==
  ASSUME NEW x \in Runs, Untouched(x) \/ Displaced(x), Sound(x) PROVE Loses(x)
<1>1. CASE Untouched(x)
  BY <1>1 DEF Untouched, Loses, Bears, Sound
<1>2. CASE Displaced(x)
  BY <1>2 DEF Displaced, Sound
<1> QED BY <1>1, <1>2

LEMMA StillLoses == ASSUME UNCHANGED run, \A x \in Runs : Sound(x) PROVE \A x \in Runs : Loses(x)
BY KeptLoses DEF Untouched

\* A run that is let go.
LEMMA IdleLoses ==
  ASSUME IInv, NEW r \in Runs, run' = [run EXCEPT ![r] = IdleRun], \A x \in Runs : Sound(x)
  PROVE  \A x \in Runs : Loses(x)
<1>1. \A x \in Runs : run'[x] = IF x = r THEN IdleRun ELSE run[x]
  BY TypedParts DEF IInv, RunOK
<1>2. Loses(r)
  BY <1>1 DEF Loses, Bears, Early, IdleRun, Sound
<1>3. \A x \in Runs \ {r} : Loses(x)
  BY <1>1, KeptLoses DEF Untouched
<1> QED BY <1>2, <1>3

LEMMA GotoLoses ==
  ASSUME IInv, \A x \in Runs : Sound(x), NEW r \in Runs, NEW pc, Goto(r, pc),
         run[r].pc # "free", pc \notin {"queued", "drain"}, NEW f, f = run[r].fire,
         pc = "restamp" => f.token = NoToken,
         \/ pc \notin Early \cup {"engine"}
         \/ run[r].pc \in Early /\ (pc \in Early \/ f.token = NoToken)
         \/ f.occ = NoOcc
  PROVE  \A x \in Runs : Loses(x)
<1>1. /\ run'[r].pc = pc /\ run'[r].fire = f /\ run'[r].manual = run[r].manual
      /\ \A x \in Runs \ {r} : Untouched(x)
  <2>1. run'[r].manual = run[r].manual
    BY TypedParts DEF IInv, RunOK, Goto, RunType
  <2> QED BY <2>1, GotoOne
<1>2. \A x \in Runs \ {r} : Loses(x)
  BY <1>1, KeptLoses
<1>3. Sound(r)'
  BY <1>1 DEF Sound
<1>4. "engine" \notin Early /\ \A o \in Occs : o # NoOcc
  BY OccFields DEF Early
<1>5. ASSUME NEW o \in Occs, Bears(r, o)' PROVE Bears(r, o)
  <2>1. f.occ = o /\ (pc = "engine" \/ (pc \in Early /\ f.token = NoToken))
    BY <1>1, <1>5 DEF Bears
  <2> QED BY <1>4, <2>1 DEF Bears
<1> QED BY <1>2, <1>3, <1>5 DEF Loses

LEMMA SchedLosing ==
  ASSUME UNCHANGED sched \/ sched'.pc \in {"idle", "scan"} PROVE SchedLoses
BY DEF SchedLoses, SchedBears

LEMMA RowsLosing ==
  ASSUME RowsDated, Quiet \/ \E a \in Autos : Moves(a) PROVE RowsLose /\ RowsDated'
<1>0. \A o \in Occs : o # NoOcc /\ o.auto \in Autos
  BY OccFields
<1>1. CASE Quiet
  BY <1>0, <1>1 DEF Quiet, RowsLose, RowsDated
<1>2. ASSUME NEW a \in Autos, Moves(a) PROVE RowsLose /\ RowsDated'
  BY <1>0, <1>2 DEF Moves, RowsLose, RowsDated
<1> QED BY <1>1, <1>2

LEMMA StillLose == ASSUME RowsDated, UNCHANGED row PROVE RowsLose /\ RowsDated'
BY DEF RowsLose, RowsDated

\* The holder of an occurrence parks it in its row.
LEMMA ParkPasses ==
  ASSUME IInv, NEW f \in Fires, f.occ \in Occs, Agrees(f), StampFresh(f), RowsDated,
         \A o \in Occs : Distinct(o), Borne(f.occ),
         \A x \in Runs : Loses(x) /\ ~Bears(x, f.occ)', SchedLoses, ~SchedBears(f.occ)',
         UNCHANGED run \/ UNCHANGED sched
  PROVE  Passes /\ RowsDated'
<1>1. RanLoses
  BY TypedParts DEF StampFresh, Close, RanLoses, IInv, LedgerOK
<1>2. CASE UNCHANGED row
  BY <1>1, <1>2, Losing, StillLose
<1>3. ASSUME NEW t \in FreshTokens, row' = Stamp(f.auto, t, f.occ) PROVE Passes /\ RowsDated'
  <2>1. Stamps(f.auto, t, f.occ) /\ f.auto \in Autos
    BY <1>3, FireFields, StampStep
  <2>2. RowsDated'
    BY <2>1 DEF Stamps, RowsDated
  <2>3. ASSUME NEW o \in Occs, o # f.occ PROVE Lost(o)
    <3>1. row'[o.auto].occ = o => row[o.auto].occ = o
      BY <2>1, <2>3, OccFields DEF Stamps
    <3> QED BY <1>1, <3>1 DEF Lost, Loses, SchedLoses, RanLoses
  <2>4. Handed(f.occ)
    <3>1. f.occ \notin ledger'.ran
      BY <1>1 DEF Distinct, RanLoses
    <3> QED BY <3>1 DEF Handed, Distinct, Taken, Borne
  <2> QED BY <2>2, <2>3, <2>4 DEF Passes
<1> QED BY <1>2, <1>3 DEF StampFresh

\* The run that is started takes the occurrence from the scheduler.
LEMMA BeginPasses ==
  ASSUME IInv, NoQueueing, NEW f \in Fires, f = sched.fire, sched.pc = "fire", f.occ \in Occs,
         sched'.pc = "scan", NEW r \in Runs, RowsDated,
         FireStart(f, r) \/ FireQueue(f, r) \/ FireRefuse(f, r),
         \A x \in Runs : Sound(x), \A o \in Occs : Distinct(o)
  PROVE  Passes /\ (\A x \in Runs : Sound(x)') /\ RowsDated' /\ UNCHANGED row
<1>1. ~FireQueue(f, r)
  BY FireFields DEF FireQueue, Queues, NoQueueing
<1>2. UNCHANGED row /\ RowsLose /\ RowsDated' /\ RanLoses /\ SchedLoses
  <2>1. UNCHANGED row
    BY <1>1 DEF FireStart, FireRefuse
  <2>2. RanLoses
    BY <1>1, TypedParts DEF FireStart, FireRefuse, Close, RanLoses, IInv, LedgerOK
  <2> QED BY <2>1, <2>2, StillLose, SchedLosing
<1>3. \A x \in Runs \ {r} : Loses(x)
  BY BeginOne, KeptLoses
<1>4. CASE run'[r].pc = "free"
  <2>1. Loses(r)
    BY <1>4 DEF Loses, Bears, Early, Sound
  <2> QED BY <1>2, <1>3, <2>1, Losing DEF Loses
<1>5. CASE run'[r].pc = "bind" /\ run'[r].fire = f
  <2>1. Sound(r)'
    BY <1>5 DEF Sound
  <2>2. ~SchedBears(f.occ)'
    BY DEF SchedBears
  <2>3. ASSUME NEW o \in Occs, o # f.occ \/ f.token # NoToken PROVE Lost(o)
    <3>1. ~Bears(r, o)'
      BY <1>5, <2>3 DEF Bears
    <3> QED BY <1>2, <1>3, <3>1 DEF Lost, Loses, SchedLoses, RowsLose, RanLoses
  <2>4. ASSUME f.token = NoToken PROVE Handed(f.occ)
    <3>1. SchedBears(f.occ)
      BY <2>4 DEF SchedBears
    <3>2. /\ \A x \in Runs : ~Bears(x, f.occ)
          /\ row[f.occ.auto].occ # f.occ /\ f.occ \notin ledger.ran
      BY <3>1 DEF Distinct, Borne
    <3>3. \A x \in Runs \ {r} : ~Bears(x, f.occ)'
      BY <1>3, <3>2 DEF Loses
    <3>4. row'[f.occ.auto].occ # f.occ /\ f.occ \notin ledger'.ran
      BY <1>2, <3>2 DEF RanLoses
    <3>5. Distinct(f.occ)'
      BY <2>2, <3>3, <3>4 DEF Distinct
    <3> QED BY <3>1, <3>5 DEF Handed, Taken, Borne
  <2> QED BY <1>2, <1>3, <2>1, <2>3, <2>4 DEF Passes, Loses
<1>6. run'[r].pc # "queued"
  <2>0. run \in [Runs -> RunType]
    BY TypedParts DEF IInv, RunOK
  <2>1. CASE FireStart(f, r)
    BY <2>0, <2>1 DEF FireStart, IdleRun
  <2>2. CASE FireRefuse(f, r)
    BY <2>0, <2>2 DEF FireRefuse, IdleRun
  <2> QED BY <1>1, <2>1, <2>2
<1> QED BY <1>4, <1>5, <1>6, BeginOne DEF Begun

LEMMA SchedulerPasses ==
  ASSUME IInv, TokenInv, WriteInv, NoQueueing, OnceInv, Scheduler,
         \A a \in Autos : ~ClaimSlot(a)
  PROVE  Passes /\ (\A x \in Runs : Sound(x)') /\ RowsDated'
<1>0. /\ \A x \in Runs : Sound(x)
      /\ RowsDated /\ SchedDated /\ \A o \in Occs : Distinct(o)
  BY DEF OnceInv, Dated
<1>1. ASSUME sched.pc \in {"fire", "stamp"}
      PROVE  \E f \in Fires : f = sched.fire /\ Agrees(f) /\ f.occ \in Occs
  <2>1. sched.fire \in Fires /\ sched.fire.occ \in Occs
    BY <1>0, <1>1, TypedParts DEF IInv, SchedOK, SchedReal, SchedDated
  <2> QED BY <1>1, <2>1 DEF TokenInv, Agreed, InFlight, SchedHolds
<1>2. CASE SchedulerFire
  <2>1. PICK f \in Fires : f = sched.fire /\ f.occ \in Occs /\ sched.pc = "fire"
    BY <1>1, <1>2 DEF SchedulerFire
  <2>2. PICK r \in Runs : FireStart(f, r) \/ FireQueue(f, r) \/ FireRefuse(f, r)
    BY <1>2, <2>1 DEF SchedulerFire
  <2>3. sched'.pc = "scan"
    BY <1>2, TypedParts DEF SchedulerFire, IInv, SchedOK
  <2> QED BY <1>0, <2>1, <2>2, <2>3, BeginPasses
<1>3. CASE SchedulerStamp
  <2>1. PICK f \in Fires : f = sched.fire /\ Agrees(f) /\ f.occ \in Occs /\ sched.pc = "stamp"
    BY <1>1, <1>3 DEF SchedulerStamp
  <2>2. StampFresh(f) /\ UNCHANGED run /\ sched'.pc = "scan"
    BY <1>3, <2>1, TypedParts DEF SchedulerStamp, IInv, SchedOK
  <2>3. SchedBears(f.occ)
    BY <1>0, <2>1 DEF SchedDated, SchedBears
  <2>4. \A x \in Runs : Loses(x) /\ ~Bears(x, f.occ)
    BY <1>0, <2>1, <2>2, <2>3, StillLoses DEF Distinct
  <2>5. \A x \in Runs : ~Bears(x, f.occ)'
    BY <2>1, <2>4 DEF Loses
  <2>6. SchedLoses /\ ~SchedBears(f.occ)'
    BY <2>2 DEF SchedLoses, SchedBears
  <2>7. Borne(f.occ)
    BY <2>3 DEF Borne
  <2>8. Passes /\ RowsDated'
    BY <1>0, <2>1, <2>2, <2>4, <2>5, <2>6, <2>7, ParkPasses
  <2> QED BY <2>4, <2>8 DEF Loses
<1>4. CASE SchedulerCapped
  <2>1. sched.pc = "fire" /\ sched' = AfterCap /\ UNCHANGED <<run, row, ledger>>
    BY <1>4 DEF SchedulerCapped, durable
  <2>2. SchedLoses
    BY <2>1, TypedParts DEF IInv, SchedOK, AfterCap, SchedLoses, SchedBears
  <2>3. RanLoses /\ \A x \in Runs : Loses(x)
    BY <1>0, <2>1, StillLoses DEF RanLoses
  <2> QED BY <1>0, <2>1, <2>2, <2>3, StillLose, Losing DEF Loses
<1>5. CASE TickList \/ PassDone
  <2>0. TickList => sched'.pc = "scan"
    BY TypedParts DEF TickList, IInv, SchedOK
  <2>1. sched'.pc \in {"idle", "scan"} /\ UNCHANGED <<run, row, ledger>>
    BY <1>5, <2>0 DEF TickList, PassDone, durable, IdleSched
  <2>2. RanLoses /\ \A x \in Runs : Loses(x)
    BY <1>0, <2>1, StillLoses DEF RanLoses
  <2> QED BY <1>0, <2>1, <2>2, SchedLosing, StillLose, Losing DEF Loses
<1>6. ASSUME NEW a \in Autos,
             TickDrain(a) \/ TickBusy(a) \/ SkipSlot(a) \/ ClearSlot(a) \/ BootSchedule(a)
             \/ BootDrain(a)
      PROVE  Passes /\ (\A x \in Runs : Sound(x)') /\ RowsDated'
  <2>1. UNCHANGED <<run, ledger>> /\ sched.pc = "scan"
    BY <1>6 DEF TickDrain, TickBusy, SkipSlot, ClearSlot, BootSchedule, BootDrain, AtSlot, AtRow,
       durable
  <2>2. Quiet
    <3>1. UNCHANGED row \/ row' = ClearToken(a) \/ \E n : row' = [row EXCEPT ![a].next = n]
      BY <1>6 DEF TickDrain, TickBusy, SkipSlot, ClearSlot, BootSchedule, BootDrain, durable
    <3> QED BY <3>1, ClearStep, NextStep DEF Quiet
  <2>3. SchedLoses
    <3>1. \/ sched' = [sched EXCEPT !.snap[a].token = NoToken] \/ sched' = NextRow(a)
          \/ /\ sched.snap[a].token # NoToken
             /\ sched'.fire = Fire(a, sched.snap[a].token, sched.snap[a].occ)
      BY <1>6, TypedParts DEF TickDrain, Drainable, TickBusy, SkipSlot, ClearSlot, BootSchedule,
         BootDrain, NextRow, IInv, SchedOK
    <3>2. Fire(a, sched.snap[a].token, sched.snap[a].occ).token = sched.snap[a].token
      BY DEF Fire
    <3>3. sched' = [sched EXCEPT !.snap[a].token = NoToken] \/ sched' = NextRow(a)
            => sched'.pc = sched.pc
      BY TypedParts DEF NextRow, IInv, SchedOK
    <3> QED BY <2>1, <3>1, <3>2, <3>3 DEF SchedLoses, SchedBears
  <2>4. RanLoses /\ \A x \in Runs : Loses(x)
    BY <1>0, <2>1, StillLoses DEF RanLoses
  <2> QED BY <1>0, <2>2, <2>3, <2>4, RowsLosing, Losing DEF Loses
<1> QED BY <1>2, <1>3, <1>4, <1>5, <1>6 DEF Scheduler

\* The scan keeps what it listed, and a list is what the rows say.
Listing(a) == UNCHANGED row /\ sched'.snap[a].gen = row[a].gen /\ sched'.snap[a].next = row[a].next
ScanAhead ==
  /\ sched'.at \in {sched.at, now, 1}
  /\ sched'.pc # "idle" => (sched.pc # "idle" /\ sched'.at = sched.at) \/ sched'.at = now
  /\ \A a \in sched'.todo :
       \/ /\ a \in sched.todo /\ sched'.snap[a].gen = sched.snap[a].gen
          /\ sched'.snap[a].next = sched.snap[a].next
       \/ Listing(a)

LEMMA ScanForms ==
  ASSUME IInv, SchedDated, NEW a \in Autos, sched.pc = "scan", NEW f, f.occ \in Occs,
         \/ sched' = NextRow(a)
         \/ sched' = [NextRow(a) EXCEPT !.pc = "fire", !.fire = f]
         \/ sched' = [sched EXCEPT !.snap[a].token = NoToken]
         \/ sched' = [sched EXCEPT !.pc = "fire", !.snap[a].token = NoToken, !.fire = f]
  PROVE  SchedDated' /\ ScanAhead
<1>1. SchedOK /\ \A b \in Autos : sched.snap[b] \in Snaps
  BY TypedParts DEF IInv, SchedOK
<1>2. CASE \/ sched' = NextRow(a)
           \/ sched' = [NextRow(a) EXCEPT !.pc = "fire", !.fire = f]
  <2>1. /\ sched'.todo = sched.todo \ {a} /\ sched'.at = sched.at
        /\ sched'.snap = [sched.snap EXCEPT ![a] = BlankSnap]
        /\ sched'.pc = "scan" \/ (sched'.pc = "fire" /\ sched'.fire = f)
    BY <1>1, <1>2 DEF NextRow, SchedOK
  <2>2. \A b \in sched'.todo : b \in sched.todo /\ sched'.snap[b] = sched.snap[b]
    BY <1>1, <2>1 DEF SchedOK
  <2> QED BY <2>1, <2>2 DEF SchedDated, ScanAhead
<1>3. CASE \/ sched' = [sched EXCEPT !.snap[a].token = NoToken]
           \/ sched' = [sched EXCEPT !.pc = "fire", !.snap[a].token = NoToken, !.fire = f]
  <2>1. /\ sched'.todo = sched.todo /\ sched'.at = sched.at
        /\ sched'.snap = [sched.snap EXCEPT ![a].token = NoToken]
        /\ sched'.pc = "scan" \/ (sched'.pc = "fire" /\ sched'.fire = f)
    BY <1>1, <1>3 DEF SchedOK
  <2>2. \A b \in Autos : sched'.snap[b] = IF b = a THEN [sched.snap[a] EXCEPT !.token = NoToken]
                                                   ELSE sched.snap[b]
    BY <1>1, <2>1 DEF SchedOK
  <2>3. \A b \in Autos : /\ sched'.snap[b].gen = sched.snap[b].gen
                         /\ sched'.snap[b].next = sched.snap[b].next
                         /\ sched'.snap[b].occ = sched.snap[b].occ
                         /\ sched'.snap[b].token \in {NoToken, sched.snap[b].token}
    BY <1>1, <2>2 DEF Snaps
  <2>4. sched.todo \subseteq Autos
    BY <1>1 DEF SchedOK
  <2> QED BY <2>1, <2>3, <2>4 DEF SchedDated, ScanAhead
<1> QED BY <1>2, <1>3

LEMMA SchedulerScans ==
  ASSUME IInv, Dated, Scheduler, \A a \in Autos : ~ClaimSlot(a) PROVE SchedDated' /\ ScanAhead
<1>0. SchedOK /\ SchedDated /\ RowsDated
  BY TypedParts DEF IInv, Dated
<1>1. CASE /\ \/ sched' = [sched EXCEPT !.pc = "scan", !.fire = NoFire]
              \/ sched' = [sched EXCEPT !.pc = "stamp"]
           /\ sched.pc \in {"fire", "stamp"}
           /\ sched'.pc = "stamp" => sched.fire.token = NoToken
  <2>1. /\ sched'.at = sched.at /\ sched'.todo = sched.todo /\ sched'.snap = sched.snap
        /\ sched'.pc = "scan" \/ (sched'.pc = "stamp" /\ sched'.fire = sched.fire)
    <3>1. CASE sched' = [sched EXCEPT !.pc = "scan", !.fire = NoFire]
      BY <1>0, <3>1 DEF SchedOK
    <3>2. CASE sched' = [sched EXCEPT !.pc = "stamp"]
      BY <1>0, <3>2 DEF SchedOK
    <3> QED BY <1>1, <3>1, <3>2
  <2> QED BY <1>0, <1>1, <2>1 DEF SchedDated, ScanAhead
<1>2. CASE SchedulerFire \/ SchedulerStamp
  <2>1. /\ sched.pc \in {"fire", "stamp"}
        /\ sched' = [sched EXCEPT !.pc = "scan", !.fire = NoFire]
    BY <1>2 DEF SchedulerFire, SchedulerStamp
  <2>2. sched'.pc = "scan"
    BY <1>0, <2>1 DEF SchedOK
  <2> QED BY <1>1, <2>1, <2>2
<1>3. CASE SchedulerCapped
  <2>1. sched.pc = "fire" /\ sched' = AfterCap
    BY <1>3 DEF SchedulerCapped
  <2>2. CASE sched.fire.token # NoToken
    <3>1. sched' = [sched EXCEPT !.pc = "scan", !.fire = NoFire]
      BY <2>1, <2>2 DEF AfterCap
    <3>2. sched'.pc = "scan"
      BY <1>0, <3>1 DEF SchedOK
    <3> QED BY <1>1, <2>1, <3>1, <3>2
  <2>3. CASE sched.fire.token = NoToken
    <3>1. sched' = [sched EXCEPT !.pc = "stamp"]
      BY <2>1, <2>3 DEF AfterCap
    <3> QED BY <1>1, <2>1, <2>3, <3>1
  <2> QED BY <2>2, <2>3
<1>4. CASE TickList
  <2>1. /\ sched'.pc = "scan" /\ sched'.todo = Schedulable /\ sched'.snap = Snapshot
        /\ sched'.at = now /\ UNCHANGED row
    BY <1>0, <1>4 DEF TickList, SchedOK, durable
  <2>2. \A a \in Schedulable : /\ a \in Autos /\ Snapshot[a].gen = row[a].gen
                               /\ Snapshot[a].next = row[a].next /\ Snapshot[a].occ = row[a].occ
                               /\ Snapshot[a].token = row[a].token
    BY DEF Schedulable, Snapshot
  <2> HIDE DEF Schedulable
  <2> QED BY <1>0, <2>1, <2>2 DEF SchedDated, RowsDated, ScanAhead, Listing
<1>5. CASE PassDone
  BY <1>5 DEF PassDone, IdleSched, SchedDated, ScanAhead
<1>6. ASSUME NEW a \in Autos,
             TickDrain(a) \/ TickBusy(a) \/ SkipSlot(a) \/ ClearSlot(a) \/ BootSchedule(a)
             \/ BootDrain(a)
      PROVE  SchedDated' /\ ScanAhead
  <2>1. sched.pc = "scan" /\ a \in sched.todo
    BY <1>6 DEF TickDrain, TickBusy, SkipSlot, ClearSlot, BootSchedule, BootDrain, AtSlot, AtRow
  <2>2. Occs # {}
    <3>1. [auto |-> a, gen |-> 1, slot |-> 1] \in Occs
      BY SchedulerAssumption DEF Occs
    <3> QED BY <3>1
  <2>3. PICK f : f.occ \in Occs /\ (sched.snap[a].token # NoToken =>
                                      f = Fire(a, sched.snap[a].token, sched.snap[a].occ))
    <3>1. CASE sched.snap[a].token # NoToken
      <4>1. Fire(a, sched.snap[a].token, sched.snap[a].occ).occ \in Occs
        BY <1>0, <2>1, <3>1 DEF SchedDated, Fire
      <4> QED BY <3>1, <4>1
    <3>2. CASE sched.snap[a].token = NoToken
      <4>1. PICK o \in Occs : TRUE
        BY <2>2
      <4>2. [occ |-> o].occ \in Occs
        OBVIOUS
      <4> QED BY <3>2, <4>2
    <3> QED BY <3>1, <3>2
  <2>4. \/ sched' = NextRow(a)
        \/ sched' = [NextRow(a) EXCEPT !.pc = "fire", !.fire = f]
        \/ sched' = [sched EXCEPT !.snap[a].token = NoToken]
        \/ sched' = [sched EXCEPT !.pc = "fire", !.snap[a].token = NoToken, !.fire = f]
    BY <1>6, <2>3 DEF TickDrain, Drainable, TickBusy, SkipSlot, ClearSlot, BootSchedule, BootDrain
  <2> QED BY <1>0, <2>1, <2>3, <2>4, ScanForms
<1> QED BY <1>2, <1>3, <1>4, <1>5, <1>6 DEF Scheduler

\* A row keeps its slot, loses it, or gets one after the scan; an edit moves its generation.
RowAhead == \A a \in Autos :
  \/ row'[a].gen > row[a].gen
  \/ /\ row'[a].gen = row[a].gen
     /\ \/ row'[a].next \in {0, row[a].next}
        \/ sched.pc = "scan" /\ row'[a].next = sched.at + 1

LEMMA AheadRows ==
  ASSUME IInv,
         \/ UNCHANGED row
         \/ \E a \in Autos : Moves(a) \/ row' = ClearToken(a)
         \/ \E a \in Autos : \E t, o : row' = Stamp(a, t, o)
         \/ \E a \in Autos : \E n \in {0, sched.at + 1} :
              sched.pc = "scan" /\ row' = [row EXCEPT ![a].next = n]
  PROVE  RowAhead
<1>0. row \in [Autos -> RowType]
  BY TypedParts DEF IInv, RowOK
<1>1. CASE UNCHANGED row
  BY <1>1 DEF RowAhead
<1>2. ASSUME NEW a \in Autos, Moves(a) PROVE RowAhead
  BY <1>2 DEF Moves, RowAhead
<1>3. ASSUME NEW a \in Autos, row' = ClearToken(a) PROVE RowAhead
  BY <1>0, <1>3 DEF ClearToken, RowAhead, RowType
<1>4. ASSUME NEW a \in Autos, NEW t, NEW o, row' = Stamp(a, t, o) PROVE RowAhead
  BY <1>0, <1>4 DEF Stamp, RowAhead, RowType
<1>5. ASSUME NEW a \in Autos, NEW n \in {0, sched.at + 1}, sched.pc = "scan",
             row' = [row EXCEPT ![a].next = n]
      PROVE  RowAhead
  <2>1. \A b \in Autos : row'[b].gen = row[b].gen /\ row'[b].next = IF b = a THEN n ELSE row[b].next
    BY <1>0, <1>5 DEF RowType
  <2> QED BY <1>5, <2>1 DEF RowAhead
<1> QED BY <1>1, <1>2, <1>3, <1>4, <1>5

\* The slot of an occurrence stays over.
LEMMA OverOn ==
  ASSUME IInv, IInv', NEW o \in Occs, Over(o), Taken(o)' => Taken(o), RowAhead, ScanAhead,
         sched.at <= now, now' \in {now, now + 1}
  PROVE  Over(o)'
<1> SUFFICES ASSUME Taken(o)
             PROVE  /\ o.gen <= row'[o.auto].gen /\ o.slot <= now'
                    /\ sched'.pc # "idle" => o.slot <= sched'.at
                    /\ row'[o.auto].gen = o.gen => row'[o.auto].next = 0 \/ row'[o.auto].next > o.slot
                    /\ o.auto \in sched'.todo => o.gen <= sched'.snap[o.auto].gen
                    /\ o.auto \in sched'.todo /\ sched'.snap[o.auto].gen = o.gen =>
                         sched'.snap[o.auto].next = 0 \/ sched'.snap[o.auto].next > o.slot
  BY DEF Over
<1>0. /\ o.auto \in Autos /\ o.gen \in Nat /\ o.slot \in Nat /\ now \in Nat /\ sched.at \in Nat
      /\ row[o.auto].gen \in Nat /\ row'[o.auto].gen \in Nat
  <2>1. now \in Nat /\ sched.at \in Nat
    <3>1. now \in 1..MaxTime /\ sched.at \in 1..MaxTime
      BY TypedParts DEF IInv, SchedOK
    <3> QED BY <3>1, SchedulerAssumption
  <2>2. o.slot \in Nat
    BY SchedulerAssumption DEF Occs
  <2>3. o.auto \in Autos /\ o.gen \in Nat
    BY OccFields
  <2>4. row[o.auto].gen \in Nat
    BY <2>3, Generations
  <2>5. row'[o.auto].gen \in Nat
    BY <2>3, NextGenerations
  <2> QED BY <2>1, <2>2, <2>3, <2>4, <2>5
<1>1. /\ o.gen <= row[o.auto].gen /\ o.slot <= now
      /\ sched.pc # "idle" => o.slot <= sched.at
      /\ row[o.auto].gen = o.gen => row[o.auto].next = 0 \/ row[o.auto].next > o.slot
      /\ o.auto \in sched.todo => o.gen <= sched.snap[o.auto].gen
      /\ o.auto \in sched.todo /\ sched.snap[o.auto].gen = o.gen =>
           sched.snap[o.auto].next = 0 \/ sched.snap[o.auto].next > o.slot
  BY DEF Over
<1>2. o.gen <= row'[o.auto].gen /\ (row'[o.auto].gen = o.gen => row[o.auto].gen = o.gen)
  BY <1>0, <1>1 DEF RowAhead
<1>3. o.slot <= now'
  BY <1>0, <1>1
<1>4. sched'.pc # "idle" => o.slot <= sched'.at
  BY <1>0, <1>1 DEF ScanAhead
<1>5. ASSUME row'[o.auto].gen = o.gen PROVE row'[o.auto].next = 0 \/ row'[o.auto].next > o.slot
  <2>1. CASE row'[o.auto].next \in {0, row[o.auto].next}
    BY <1>1, <1>2, <1>5, <2>1
  <2>2. CASE sched.pc = "scan" /\ row'[o.auto].next = sched.at + 1
    BY <1>0, <1>1, <2>2
  <2>3. ~(row'[o.auto].gen > row[o.auto].gen)
    BY <1>0, <1>2, <1>5
  <2> QED BY <1>0, <2>1, <2>2, <2>3 DEF RowAhead
<1>6. ASSUME o.auto \in sched'.todo, sched'.snap[o.auto].gen = o.gen
      PROVE  sched'.snap[o.auto].next = 0 \/ sched'.snap[o.auto].next > o.slot
  BY <1>1, <1>6 DEF ScanAhead, Listing
<1>7. ASSUME o.auto \in sched'.todo PROVE o.gen <= sched'.snap[o.auto].gen
  BY <1>1, <1>7 DEF ScanAhead, Listing
<1> QED BY <1>2, <1>3, <1>4, <1>5, <1>6, <1>7

LEMMA OnceOn ==
  ASSUME IInv, IInv', OnceInv, Passes, (\A x \in Runs : Sound(x)'), RowsDated', SchedDated',
         RowAhead, ScanAhead, now' \in {now, now + 1}, ledger'.rerun = {}
  PROVE  OnceInv'
<1>1. \A o \in Occs : Distinct(o)' /\ (Taken(o)' => Taken(o))
  BY PassesOn DEF OnceInv
<1>2. \A o \in Occs : Over(o)'
  BY <1>1, OverOn DEF OnceInv
<1>3. sched'.at <= now'
  <2>1. now \in 1..MaxTime /\ sched.at \in 1..MaxTime /\ MaxTime \in Nat
    BY TypedParts, SchedulerAssumption DEF IInv, SchedOK
  <2> QED BY <2>1 DEF ScanAhead, OnceInv
<1> QED BY <1>1, <1>2, <1>3 DEF OnceInv, Dated

\* The slot that is claimed was nobody's: the row and the scan still had it.
LEMMA ClaimIsNew ==
  ASSUME IInv, OnceInv, NEW a \in Autos, ClaimSlot(a), NEW o \in Occs,
         o = [auto |-> a, gen |-> sched.snap[a].gen, slot |-> sched.snap[a].next]
  PROVE  /\ ~Taken(o) /\ o.auto = a /\ o.gen = sched.snap[a].gen /\ o.slot = sched.snap[a].next
         /\ o.slot \in Nat /\ sched.at \in Nat /\ o.slot <= sched.at
<1>1. /\ a \in sched.todo /\ o.auto = a /\ o.gen = sched.snap[a].gen
      /\ o.slot = sched.snap[a].next /\ sched.snap[a].next # 0 /\ o.slot <= sched.at
  BY DEF ClaimSlot, AtSlot, AtRow, Due
<1>2. o.slot \in Nat /\ sched.at \in Nat
  <2>1. sched.at \in 1..MaxTime
    BY TypedParts DEF IInv, SchedOK
  <2> QED BY <2>1, SchedulerAssumption DEF Occs
<1>3. Over(o)
  BY DEF OnceInv
<1> QED BY <1>1, <1>2, <1>3 DEF Over

LEMMA ClaimOnce ==
  ASSUME IInv, IInv', TokenInv, OnceInv, NEW a \in Autos, ClaimSlot(a) PROVE OnceInv'
<1> DEFINE s == sched.snap[a]
<1>0. PICK o : o = [auto |-> a, gen |-> s.gen, slot |-> s.next]
  OBVIOUS
<1>1. /\ sched.pc = "scan" /\ a \in sched.todo /\ UNCHANGED <<run, now>>
      /\ row' = [row EXCEPT ![a].next = NextAfterNow(s.def, sched.at)]
      /\ \/ UNCHANGED ledger /\ sched' = NextRow(a)
         \/ /\ sched' = [NextRow(a) EXCEPT !.pc = "fire", !.fire = Fire(a, NoToken, o)]
            /\ ledger' = [ledger EXCEPT !.open = @ \cup {o}]
  BY <1>0 DEF ClaimSlot, AtSlot, AtRow
<1>2. SchedOK /\ SchedDated /\ RowsDated /\ \A x \in Runs : Sound(x)
  BY TypedParts DEF IInv, OnceInv, Dated
<1>3. o \in Occs
  <2>1. s.gen \in 1..MaxGen
    BY <1>1, <1>2, SnapFields, SchedulerAssumption DEF SchedReal, SchedOK, IInv, Typed
  <2>2. s.next \in 1..MaxTime
    BY <1>2, SnapFields, SchedulerAssumption DEF ClaimSlot, Due
  <2> QED BY <1>0, <2>1, <2>2 DEF Occs
<1>4. /\ ~Taken(o) /\ o.auto = a /\ o.gen = s.gen /\ o.slot = s.next
      /\ o.slot \in Nat /\ sched.at \in Nat /\ o.slot <= sched.at
  BY <1>0, <1>3, ClaimIsNew
<1>5. NextAfterNow(s.def, sched.at) = sched.at + 1
  BY DEF ClaimSlot, Manual, NextAfterNow
<1>6. Quiet /\ RowAhead
  BY <1>1, <1>5, NextStep, AheadRows DEF Quiet
<1>7. RowsLose /\ RowsDated'
  BY <1>2, <1>6, RowsLosing
<1>8. \A x \in Runs : Loses(x)
  BY <1>1, <1>2, StillLoses
<1>9. RanLoses /\ ledger'.rerun = {}
  BY <1>1, TypedParts DEF IInv, LedgerOK, RanLoses, OnceInv
<1>10. SchedDated' /\ ScanAhead
  <2>1. Fire(a, NoToken, o).occ \in Occs
    BY <1>3 DEF Fire
  <2> HIDE DEF s
  <2> QED BY <1>1, <1>2, <2>1, ScanForms
<1>11. now' \in {now, now + 1}
  BY <1>1
<1>12. CASE sched' = NextRow(a)
  <2>1. SchedLoses
    BY <1>1, <1>2, <1>12 DEF SchedLoses, SchedBears, NextRow, SchedOK
  <2>2. Passes
    BY <1>7, <1>8, <1>9, <2>1, Losing
  <2> QED BY <1>6, <1>7, <1>8, <1>9, <1>10, <1>11, <2>2, OnceOn DEF Loses
<1>13. CASE sched' = [NextRow(a) EXCEPT !.pc = "fire", !.fire = Fire(a, NoToken, o)]
  <2>1. /\ sched'.pc = "fire" /\ sched'.fire.token = NoToken /\ sched'.fire.occ = o
        /\ sched'.todo = sched.todo \ {a} /\ sched'.at = sched.at
    BY <1>2, <1>13 DEF SchedOK, NextRow, Fire
  <2>2. ASSUME NEW p \in Occs, p # o PROVE Distinct(p)' /\ Over(p)'
    <3>1. Lost(p)
      BY <1>7, <1>8, <1>9, <2>1, <2>2 DEF Lost, Loses, RowsLose, RanLoses, SchedBears
    <3>2. Distinct(p)' /\ (Taken(p)' => Taken(p))
      BY <3>1, LostOne DEF OnceInv
    <3> QED BY <1>6, <1>10, <1>11, <3>2, OverOn DEF OnceInv
  <2>3. Distinct(o)'
    <3>1. /\ \A x \in Runs : ~Bears(x, o)'
          /\ row'[o.auto].occ # o /\ o \notin ledger'.ran
      BY <1>3, <1>4, <1>7, <1>8, <1>9 DEF Taken, Borne, Loses, RowsLose, RanLoses
    <3> QED BY <3>1 DEF Distinct
  <2>4. Over(o)'
    <3>1. row'[a].gen = row[a].gen /\ row'[a].next = sched.at + 1
      <4>1. row \in [Autos -> RowType]
        BY TypedParts DEF IInv, RowOK
      <4> HIDE DEF s
      <4> QED BY <1>1, <1>5, <4>1 DEF RowType
    <3>2. o.gen <= row[a].gen
      <4>1. PICK f \in Fires : f = Fire(a, NoToken, NoOcc)
        BY <1>1, <1>2, FireType DEF IInv, Typed
      <4>2. f.auto = a /\ f.gen = s.gen /\ f.def = s.def /\ f.token = NoToken /\ f.occ = NoOcc
        BY <4>1 DEF Fire
      <4>3. Agrees(f)
        BY <1>1, <4>2 DEF TokenInv, Agreed, InFlight, SchedHolds, Own
      <4> QED BY <1>4, <4>2, <4>3 DEF Agrees
    <3>3. o.slot <= now' /\ o.slot <= sched'.at /\ row'[a].next > o.slot
      <4>1. now \in 1..MaxTime /\ MaxTime \in Nat
        BY TypedParts, SchedulerAssumption DEF IInv
      <4> QED BY <1>1, <1>4, <2>1, <3>1, <4>1 DEF OnceInv
    <3> QED BY <1>4, <2>1, <3>1, <3>2, <3>3 DEF Over
  <2>5. sched'.at <= now'
    BY <1>1, <2>1 DEF OnceInv
  <2> QED BY <1>7, <1>8, <1>9, <1>10, <2>2, <2>3, <2>4, <2>5 DEF OnceInv, Dated, Loses
<1> QED BY <1>1, <1>12, <1>13

LEMMA SchedulerRows ==
  ASSUME IInv, Scheduler, \A a \in Autos : ~ClaimSlot(a)
  PROVE  RowAhead /\ ledger'.rerun = ledger.rerun /\ UNCHANGED now
<1>1. UNCHANGED now
  BY DEF Scheduler, TickList, SchedulerFire, SchedulerCapped, SchedulerStamp, PassDone, TickDrain,
     TickBusy, BootDrain, SkipSlot, ClearSlot, BootSchedule
<1>2. UNCHANGED ledger \/ \E os : Close(os)
  BY DEF Scheduler, TickList, SchedulerFire, SchedulerCapped, SchedulerStamp, PassDone, TickDrain,
     TickBusy, BootDrain, SkipSlot, ClearSlot, BootSchedule, FireStart, FireQueue, FireRefuse,
     StampFresh
<1>3. ledger'.rerun = ledger.rerun
  BY <1>2, TypedParts DEF Close, IInv, LedgerOK
<1>4. CASE TickList \/ SchedulerFire \/ SchedulerCapped \/ SchedulerStamp \/ PassDone
  <2>1. UNCHANGED row \/ \E a \in Autos : \E t, o : row' = Stamp(a, t, o)
    <3>1. CASE SchedulerFire \/ SchedulerStamp
      <4>1. PICK f \in Fires : f = sched.fire /\ f.auto \in Autos
        BY <3>1, FireFields, TypedParts DEF IInv, SchedOK, SchedReal, SchedulerFire, SchedulerStamp
      <4>2. UNCHANGED row \/ \E t, o : row' = Stamp(f.auto, t, o)
        BY <3>1, <4>1 DEF SchedulerFire, SchedulerStamp, FireStart, FireQueue, FireRefuse, StampFresh
      <4> QED BY <4>1, <4>2
    <3>2. CASE ~(SchedulerFire \/ SchedulerStamp)
      BY <1>4, <3>2 DEF TickList, SchedulerCapped, PassDone, durable
    <3> QED BY <3>1, <3>2
  <2>2. RowAhead
    BY <2>1, AheadRows
  <2> QED BY <1>1, <1>3, <2>2
<1>5. ASSUME NEW a \in Autos,
             TickDrain(a) \/ TickBusy(a) \/ SkipSlot(a) \/ ClearSlot(a) \/ BootSchedule(a)
             \/ BootDrain(a)
      PROVE  RowAhead
  <2>1. sched.pc = "scan"
    BY <1>5 DEF TickDrain, TickBusy, SkipSlot, ClearSlot, BootSchedule, BootDrain, AtSlot, AtRow
  <2>2. BootSchedule(a) => NextAfterNow(sched.snap[a].def, sched.at) = sched.at + 1
    BY DEF BootSchedule, Manual, NextAfterNow
  <2>3. UNCHANGED row \/ row' = ClearToken(a)
        \/ \E n \in {0, sched.at + 1} : row' = [row EXCEPT ![a].next = n]
    BY <1>5, <2>2 DEF TickDrain, TickBusy, SkipSlot, ClearSlot, BootSchedule, BootDrain, durable
  <2> QED BY <2>1, <2>3, AheadRows
<1> QED BY <1>1, <1>3, <1>4, <1>5 DEF Scheduler

LEMMA SchedulerOnce ==
  ASSUME IInv, IInv', TokenInv, WriteInv, NoQueueing, OnceInv, Scheduler PROVE OnceInv'
<1>1. CASE \E a \in Autos : ClaimSlot(a)
  BY <1>1, ClaimOnce
<1>2. CASE \A a \in Autos : ~ClaimSlot(a)
  <2>1. Passes /\ (\A x \in Runs : Sound(x)') /\ RowsDated'
    BY <1>2, SchedulerPasses
  <2>2. SchedDated' /\ ScanAhead
    BY <1>2, SchedulerScans DEF OnceInv
  <2>3. RowAhead /\ ledger'.rerun = {} /\ now' \in {now, now + 1}
    BY <1>2, SchedulerRows DEF OnceInv
  <2> QED BY <2>1, <2>2, <2>3, OnceOn
<1> QED BY <1>1, <1>2

\* Every other step leaves the scan alone, but for the list that reconcile makes.
LEMMA StillScans == ASSUME SchedDated, UNCHANGED sched PROVE SchedDated' /\ ScanAhead
BY DEF SchedDated, ScanAhead

-----------------------------------------------------------------------------
(* The steps of a run pass its occurrence on.                                *)

LEMMA BindPasses ==
  ASSUME IInv, OnceInv, NEW r \in Runs, Bind(r)
  PROVE  Passes /\ (\A x \in Runs : Loses(x) /\ Sound(x)') /\ RowsDated'
<1>0. run \in [Runs -> RunType] /\ run[r].pc = "bind" /\ UNCHANGED <<row, sched, ledger>>
  BY TypedParts DEF IInv, RunOK, Bind, durable
<1>1. Dated /\ \A x \in Runs : Sound(x)
  BY DEF OnceInv, Dated
<1>2. run'[r].pc = "verify" /\ run'[r].fire = run[r].fire /\ run'[r].manual = run[r].manual
  BY <1>0 DEF Bind, RunType
<1>3. \A x \in Runs \ {r} : Loses(x)
  BY <1>0, <1>1, KeptLoses DEF Bind, Untouched
<1>4. Loses(r)
  BY <1>0, <1>1, <1>2 DEF Loses, Sound, Bears, Early
<1>5. SchedLoses /\ RowsLose /\ RowsDated' /\ RanLoses
  BY <1>0, <1>1, SchedLosing, StillLose DEF Dated, RanLoses
<1> QED BY <1>3, <1>4, <1>5, Losing DEF Loses

\* A run that goes on with its occurrence, or without it.
LEMMA WalkPasses ==
  ASSUME IInv, OnceInv, NEW r \in Runs, NEW pc, Goto(r, pc),
         run[r].pc # "free", pc \notin {"queued", "drain"}, NEW f, f = run[r].fire,
         pc = "restamp" => f.token = NoToken,
         \/ pc \notin Early \cup {"engine"}
         \/ run[r].pc \in Early /\ (pc \in Early \/ f.token = NoToken)
         \/ f.occ = NoOcc,
         UNCHANGED sched, UNCHANGED row \/ row' = ClearToken(f.auto), RanLoses
  PROVE  Passes /\ (\A x \in Runs : Loses(x) /\ Sound(x)') /\ RowsDated'
<1>1. Dated /\ \A x \in Runs : Sound(x)
  BY DEF OnceInv, Dated
<1>2. \A x \in Runs : Loses(x)
  BY <1>1, GotoLoses
<1>3. f.auto \in Autos
  BY RunFields, FireFields, TypedParts DEF IInv
<1>4. RowsLose /\ RowsDated'
  <2>1. CASE UNCHANGED row
    BY <1>1, <2>1, StillLose DEF Dated
  <2>2. CASE row' = ClearToken(f.auto)
    <3>1. Quiet
      BY <1>3, <2>2, ClearStep DEF Quiet
    <3> QED BY <1>1, <3>1, RowsLosing DEF Dated
  <2> QED BY <2>1, <2>2
<1> QED BY <1>2, <1>4, SchedLosing, Losing DEF Loses

LEMMA ChecksPass ==
  ASSUME IInv, TokenInv, WriteInv, OnceInv, NEW r \in Runs,
         Verify(r) \/ Eligible(r) \/ Consume(r) \/ InsertRow(r) \/ Finish(r)
  PROVE  Passes /\ (\A x \in Runs : Loses(x) /\ Sound(x)') /\ RowsDated'
<1>0. run[r].pc \in {"verify", "elig", "consume", "insert", "running"} /\ UNCHANGED sched
  BY DEF Verify, Eligible, Consume, InsertRow, Finish
<1>1. PICK f \in Fires : f = run[r].fire /\ f.auto \in Autos
  BY <1>0, RunFire
<1>2. UNCHANGED row \/ row' = ClearToken(f.auto)
  BY <1>1 DEF Verify, Eligible, Consume, InsertRow, Finish
<1>3. RanLoses
  <2>1. UNCHANGED ledger \/ \E os : Close(os)
    BY DEF Verify, Eligible, Consume, InsertRow, Finish
  <2> QED BY <2>1, TypedParts DEF Close, RanLoses, IInv, LedgerOK
<1>4. run[r].manual => f.occ = NoOcc
  BY <1>0, <1>1 DEF WriteInv, NotByHand
<1>5. PICK pc : /\ Goto(r, pc)
                /\ \/ pc \in {"consume", "end"}
                   \/ pc = "restamp" /\ f.token = NoToken /\ run[r].pc \in Early
                   \/ pc = "claim"
                   \/ pc = "elig" /\ run[r].pc = "verify"
                   \/ pc = "insert" /\ run[r].pc = "elig"
                   \/ pc = "engine" /\ run[r].pc \in Early /\ (run[r].manual \/ f.token = NoToken)
  BY <1>1 DEF Verify, Eligible, Consume, InsertRow, Finish, Retry, AfterChecks, Drains, Scheduled,
     Early
<1> QED BY <1>0, <1>1, <1>2, <1>3, <1>4, <1>5, WalkPasses DEF Early

\* Who claims the token of the row takes its occurrence out of the row.
LEMMA ClaimTokenPasses ==
  ASSUME IInv, TokenInv, OnceInv, NEW r \in Runs, ClaimToken(r)
  PROVE  Passes /\ (\A x \in Runs : Sound(x)') /\ RowsDated'
<1>0. run[r].pc = "claim" /\ UNCHANGED <<sched, ledger>>
  BY DEF ClaimToken
<1>1. PICK f \in Fires : f = run[r].fire /\ Agrees(f) /\ f.auto \in Autos
  BY <1>0, RunFire
<1>2. RanLoses
  BY <1>0 DEF RanLoses
<1>3. CASE Goto(r, "end") /\ UNCHANGED row
  BY <1>0, <1>1, <1>2, <1>3, WalkPasses DEF Early
<1>4. CASE Claimable(f.auto, f.token) /\ row' = ClearToken(f.auto) /\ Goto(r, "engine")
  <2>1. /\ run'[r].pc = "engine" /\ run'[r].fire = f
        /\ \A x \in Runs \ {r} : Loses(x)
    BY <1>1, <1>4, GotoOne, KeptLoses DEF OnceInv, Dated
  <2>2. Sound(r)'
    BY <1>0, <1>1, <1>4, <2>1, TypedParts DEF OnceInv, Dated, Sound, Goto, IInv, RunOK, RunType
  <2>3. row[f.auto].occ = f.occ /\ row'[f.auto].occ = NoOcc /\ Quiet
    <3>1. Quiet
      BY <1>1, <1>4, ClearStep DEF Quiet
    <3>2. row'[f.auto].occ = NoOcc
      BY <1>1, <1>4, TypedParts DEF ClearToken, IInv, RowOK, RowType
    <3> QED BY <1>1, <1>4, <3>1, <3>2 DEF Agrees, Claimable
  <2>4. RowsLose /\ RowsDated' /\ SchedLoses
    BY <1>0, <2>3, RowsLosing, SchedLosing DEF OnceInv, Dated
  <2>5. ASSUME NEW o \in Occs, o # f.occ PROVE Lost(o)
    <3>1. ~Bears(r, o)'
      BY <2>1, <2>5 DEF Bears
    <3> QED BY <1>2, <2>1, <2>4, <3>1 DEF Lost, Loses, SchedLoses, RowsLose, RanLoses
  <2>6. ASSUME f.occ \in Occs PROVE Handed(f.occ)
    <3>1. f.occ.auto = f.auto /\ f.occ # NoOcc
      BY <1>1, <2>6, OccFields DEF Agrees, Own
    <3>2. row[f.occ.auto].occ = f.occ /\ row'[f.occ.auto].occ # f.occ
      BY <2>3, <3>1
    <3>3. ~Borne(f.occ) /\ f.occ \notin ledger.ran
      BY <2>6, <3>2 DEF OnceInv, Distinct
    <3>4. \A x \in Runs \ {r} : ~Bears(x, f.occ)'
      BY <2>1, <2>6, <3>3 DEF Loses, Borne
    <3>5. ~SchedBears(f.occ)' /\ f.occ \notin ledger'.ran
      BY <1>2, <2>4, <2>6, <3>3 DEF SchedLoses, Borne, RanLoses
    <3>6. Distinct(f.occ)'
      BY <3>2, <3>4, <3>5 DEF Distinct
    <3> QED BY <3>2, <3>6 DEF Handed, Taken
  <2> QED BY <2>1, <2>2, <2>4, <2>5, <2>6 DEF Passes, Loses
<1> QED BY <1>1, <1>3, <1>4 DEF ClaimToken

\* The engine takes the occurrence of its run, which has not run before.
LEMMA StartEnginePasses ==
  ASSUME IInv, TokenInv, OnceInv, NEW r \in Runs, StartEngine(r)
  PROVE  Passes /\ (\A x \in Runs : Loses(x) /\ Sound(x)') /\ RowsDated' /\ ledger'.rerun = {}
<1>0. run[r].pc = "engine" /\ UNCHANGED <<row, sched>>
  BY DEF StartEngine
<1>1. PICK f \in Fires : f = run[r].fire
  BY <1>0, RunFire
<1>2. PICK pc \in {"running", "end"} : Goto(r, pc)
  BY DEF StartEngine
<1>3. /\ run'[r].pc = pc /\ run'[r].fire = f
      /\ \A x \in Runs \ {r} : Loses(x)
  BY <1>1, <1>2, GotoOne, KeptLoses DEF OnceInv, Dated
<1>4. Sound(r)' /\ \A o \in Occs : ~Bears(r, o)'
  <2>1. Sound(r)'
    BY <1>0, <1>2, <1>3, TypedParts DEF OnceInv, Dated, Sound, Goto, IInv, RunOK, RunType
  <2> QED BY <1>3, <2>1 DEF Bears, Early
<1>5. RowsLose /\ RowsDated' /\ SchedLoses
  BY <1>0, StillLose, SchedLosing DEF OnceInv, Dated
<1>6. CASE \E os : Close(os)
  <2>1. RanLoses /\ ledger'.rerun = {}
    BY <1>6, TypedParts DEF Close, RanLoses, OnceInv, IInv, LedgerOK
  <2> QED BY <1>3, <1>4, <1>5, <2>1, Losing DEF Loses
<1>7. CASE /\ ~run[r].manual
           /\ ledger' = [open  |-> ledger.open \ {f.occ},
                         ran   |-> ledger.ran \cup {f.occ},
                         rerun |-> ledger.rerun \cup (ledger.ran \cap {f.occ})]
  <2>1. f.occ \in Occs
    BY <1>0, <1>1, <1>7 DEF OnceInv, Dated, Sound
  <2>2. Bears(r, f.occ) /\ Distinct(f.occ)
    BY <1>0, <1>1, <2>1 DEF Bears, OnceInv
  <2>3. Borne(f.occ) /\ f.occ \notin ledger.ran
    BY <2>2 DEF Distinct, Borne
  <2>4. ledger'.ran = ledger.ran \cup {f.occ} /\ ledger'.rerun = {}
    BY <1>7, <2>3 DEF OnceInv
  <2>5. ASSUME NEW o \in Occs, o # f.occ PROVE Lost(o)
    BY <1>3, <1>4, <1>5, <2>4, <2>5 DEF Lost, Loses, SchedLoses, RowsLose
  <2>6. Handed(f.occ)
    <3>1. \A x \in Runs \ {r} : ~Bears(x, f.occ)
      BY <2>2 DEF Distinct
    <3>2. \A x \in Runs : ~Bears(x, f.occ)'
      BY <1>3, <1>4, <2>1, <3>1 DEF Loses
    <3>3. ~SchedBears(f.occ)'
      BY <1>5, <2>1, <2>2 DEF SchedLoses, Distinct
    <3>4. row'[f.occ.auto].occ # f.occ
      BY <1>5, <2>1, <2>2, <2>3 DEF RowsLose, Distinct
    <3>5. Distinct(f.occ)'
      BY <3>2, <3>3, <3>4 DEF Distinct, Borne
    <3> QED BY <2>3, <3>5 DEF Handed, Taken
  <2> QED BY <1>3, <1>4, <1>5, <2>4, <2>5, <2>6 DEF Passes, Loses
<1> QED BY <1>1, <1>6, <1>7 DEF StartEngine, Close

LEMMA RestampPasses ==
  ASSUME IInv, TokenInv, WriteInv, OnceInv, NEW r \in Runs, Restamp(r)
  PROVE  Passes /\ (\A x \in Runs : Loses(x) /\ Sound(x)') /\ RowsDated'
<1>0. run[r].pc = "restamp" /\ Goto(r, "end") /\ UNCHANGED sched
  BY DEF Restamp
<1>1. Dated /\ (\A x \in Runs : Sound(x)) /\ \A o \in Occs : Distinct(o)
  BY DEF OnceInv, Dated
<1>2. PICK f \in Fires : f = run[r].fire /\ Agrees(f)
  BY <1>0, RunFire
<1>3. f.occ \in Occs /\ f.token = NoToken
  BY <1>0, <1>1, <1>2 DEF Sound, WriteInv, NotByHand
<1>4. Bears(r, f.occ)
  BY <1>0, <1>2, <1>3 DEF Bears, Early
<1>5. \A x \in Runs : Loses(x)
  BY <1>0, <1>1, <1>2, GotoLoses DEF Early
<1>6. \A x \in Runs : ~Bears(x, f.occ)'
  <2>1. \A x \in Runs \ {r} : ~Bears(x, f.occ)
    BY <1>1, <1>3, <1>4 DEF Distinct
  <2>2. ~Bears(r, f.occ)'
    BY <1>0, GotoOne DEF Bears, Early
  <2> QED BY <1>3, <1>5, <2>1, <2>2 DEF Loses
<1>7. SchedLoses /\ ~SchedBears(f.occ)'
  BY <1>0, <1>1, <1>3, <1>4, SchedLosing DEF SchedLoses, Distinct
<1>8. StampFresh(f)
  BY <1>2 DEF Restamp
<1>9. Passes /\ RowsDated'
  BY <1>0, <1>1, <1>2, <1>3, <1>4, <1>5, <1>6, <1>7, <1>8, ParkPasses DEF Dated, Borne
<1> QED BY <1>5, <1>9 DEF Loses

\* Nobody waits, so nobody is popped.
LEMMA EndRunPasses ==
  ASSUME IInv, OnceInv, NEW r \in Runs, EndRun(r)
  PROVE  Passes /\ (\A x \in Runs : Loses(x) /\ Sound(x)') /\ RowsDated'
<1>0. Dated /\ \A x \in Runs : Sound(x)
  BY DEF OnceInv, Dated
<1>1. PICK a \in Autos : a = run[r].fire.auto
  BY RunFields, FireFields, TypedParts DEF IInv, EndRun
<1>2. pending[a] = NoRun
  <2>1. pending[a] \in Runs \cup {NoRun}
    BY TypedParts DEF IInv, MemoryOK
  <2> QED BY <1>0, <2>1 DEF IInv, Safe, PendingReal, Sound
<1>3. \A x \in Runs : run'[x] = IF x = r THEN IdleRun ELSE run[x]
  BY <1>1, <1>2 DEF EndRun
<1>4. \A x \in Runs : Loses(x)
  <2>1. Loses(r)
    BY <1>3 DEF Loses, Bears, Early, IdleRun, Sound
  <2>2. \A x \in Runs \ {r} : Loses(x)
    BY <1>0, <1>3, KeptLoses DEF Untouched
  <2> QED BY <2>1, <2>2
<1>5. UNCHANGED <<row, sched, ledger>>
  BY DEF EndRun
<1> QED BY <1>0, <1>4, <1>5, StillLose, SchedLosing, Losing DEF Dated, Loses, RanLoses

LEMMA ExecuteOnce ==
  ASSUME IInv, IInv', TokenInv, WriteInv, OnceInv, NEW r \in Runs, Execute(r) PROVE OnceInv'
<1>0. ~DrainPending(r)
  BY DEF OnceInv, Dated, Sound, DrainPending
<1>1. UNCHANGED <<sched, now>>
  BY <1>0 DEF Execute, Bind, Verify, Eligible, Consume, InsertRow, ClaimToken, StartEngine, Finish,
     Restamp, EndRun
<1>2. SchedDated' /\ ScanAhead
  BY <1>1, StillScans DEF OnceInv, Dated
<1>3. RowAhead
  <2>1. PICK a \in Autos : a = run[r].fire.auto
    BY <1>0, RunFire DEF Execute, Bind, Verify, Eligible, Consume, InsertRow, ClaimToken,
       StartEngine, Finish, Restamp, EndRun
  <2>2. UNCHANGED row \/ row' = ClearToken(a) \/ \E t, o : row' = Stamp(a, t, o)
    BY <1>0, <2>1 DEF Execute, Bind, Verify, Eligible, Consume, InsertRow, ClaimToken,
       StartEngine, Finish, Restamp, EndRun, StampFresh, durable
  <2> QED BY <2>2, AheadRows
<1>4. CASE StartEngine(r)
  BY <1>1, <1>2, <1>3, <1>4, StartEnginePasses, OnceOn
<1>5. CASE ~StartEngine(r)
  <2>1. UNCHANGED ledger \/ \E os : Close(os)
    BY <1>0, <1>5 DEF Execute, Bind, Verify, Eligible, Consume, InsertRow, ClaimToken, Finish,
       Restamp, EndRun, StampFresh
  <2>2. ledger'.rerun = {}
    BY <2>1, TypedParts DEF Close, OnceInv, IInv, LedgerOK
  <2>3. Passes /\ (\A x \in Runs : Sound(x)') /\ RowsDated'
    BY <1>0, <1>5, BindPasses, ChecksPass, ClaimTokenPasses, RestampPasses, EndRunPasses DEF Execute
  <2> QED BY <1>1, <1>2, <1>3, <2>2, <2>3, OnceOn
<1> QED BY <1>4, <1>5

-----------------------------------------------------------------------------
(* Handlers and the process take no occurrence from anybody.                 *)

LEMMA HandlerRows ==
  ASSUME IInv, HandlerStep \/ UserRequest
  PROVE  UNCHANGED <<sched, now, ledger>> /\ (UNCHANGED row \/ \E a \in Autos : Moves(a))
<1>1. UNCHANGED <<sched, now, ledger>>
  BY DEF HandlerStep, CommitFlip, CancelAutomation, TriggerBegin, TriggerRecord,
     UserRequest, Create, Update, Delete, ReadFlip, Trigger
<1>2. ASSUME NEW h \in Handlers, CommitFlip(h)
      PROVE  UNCHANGED row \/ \E a \in Autos : Moves(a)
  <2>1. PICK a \in Autos : a = req[h].auto
    BY <1>2, TypedParts DEF CommitFlip, IInv, ReqOK, ReqType, IdleReq
  <2>2. UNCHANGED row \/ row' = EnableFlip(a, req[h].on, req[h].next)
    BY <1>2, <2>1 DEF CommitFlip
  <2> QED BY <1>2, <2>2, EditRows DEF CommitFlip
<1>3. ASSUME NEW a \in Autos,
             \/ \E d \in Defs : Create(a, d)
             \/ \E h \in Handlers : (\E d \in Defs : Update(h, a, d)) \/ Delete(h, a)
      PROVE  \E b \in Autos : Moves(b)
  <2>1. \/ \E d, del : row' = Edited(a, d, del)
        \/ row[a].gen = 0 /\ \E d : row' = [row EXCEPT ![a] = NewRow(d)]
    BY <1>3 DEF Create, Update, Delete
  <2> QED BY <2>1, EditRows
<1>4. ASSUME \/ \E h \in Handlers : CancelAutomation(h)
             \/ \E r \in Runs : TriggerBegin(r) \/ TriggerRecord(r)
             \/ \E a \in Autos : \/ Trigger(a)
                                 \/ \E h \in Handlers : \E on \in BOOLEAN : ReadFlip(h, a, on)
      PROVE  UNCHANGED row
  BY <1>4 DEF CancelAutomation, TriggerBegin, TriggerRecord, ReadFlip, Trigger, durable
<1> QED BY <1>1, <1>2, <1>3, <1>4 DEF HandlerStep, UserRequest

LEMMA HandlerLoses ==
  ASSUME IInv, WriteInv, OnceInv, HandlerStep \/ UserRequest PROVE \A x \in Runs : Loses(x)
<1>0. \A x \in Runs : Sound(x)
  BY DEF OnceInv, Dated
<1>1. CASE UNCHANGED run
  BY <1>0, <1>1, StillLoses
<1>2. ASSUME NEW h \in Handlers, CancelAutomation(h) PROVE \A x \in Runs : Loses(x)
  <2>0. req[h].auto \in Autos
    BY <1>2, TypedParts DEF CancelAutomation, IInv, ReqOK, ReqType, IdleReq
  <2> SUFFICES ASSUME NEW x \in Runs PROVE Loses(x)
    OBVIOUS
  <2>1. run'[x] = IF x = pending[req[h].auto] THEN IdleRun ELSE Canceled(active[req[h].auto])[x]
    BY <1>2 DEF CancelAutomation
  <2>2. CASE x = pending[req[h].auto]
    <3>1. run[x].pc = "queued"
      BY <2>0, <2>2, SchedulerAssumption DEF IInv, Safe, PendingReal
    <3> QED BY <1>0, <3>1 DEF Sound
  <2>3. CASE x # pending[req[h].auto]
    BY <1>0, <2>1, <2>3, CanceledKept, KeptLoses DEF Untouched
  <2> QED BY <2>2, <2>3
<1>3. ASSUME NEW r \in Runs, TriggerBegin(r) \/ TriggerRecord(r) PROVE \A x \in Runs : Loses(x)
  <2>1. run[r].pc \in {"trigger", "record"}
    BY <1>3 DEF TriggerBegin, TriggerRecord
  <2>2. run[r].fire.occ = NoOcc
    BY <2>1 DEF WriteInv, NotByHand
  <2>3. PICK f : f = run[r].fire
    OBVIOUS
  <2>4. \/ \E pc \in {"record", "bind", "end"} : Goto(r, pc)
        \/ run' = [run EXCEPT ![r] = IdleRun]
    BY <1>3 DEF TriggerBegin, TriggerRecord
  <2>5. CASE \E pc \in {"record", "bind", "end"} : Goto(r, pc)
    BY <1>0, <2>1, <2>2, <2>3, <2>5, GotoLoses
  <2>6. CASE run' = [run EXCEPT ![r] = IdleRun]
    BY <1>0, <2>6, IdleLoses
  <2> QED BY <2>4, <2>5, <2>6
<1>4. ASSUME NEW a \in Autos, Trigger(a) PROVE \A x \in Runs : Loses(x)
  <2>1. PICK r \in Runs : /\ run'[r].pc = "trigger" /\ run'[r].manual
                          /\ \A y \in Runs \ {r} : run'[y] = run[y]
    BY <1>4, TypedParts DEF Trigger, FreshRun, IInv, RunOK, IdleRun
  <2>2. \A x \in Runs \ {r} : Loses(x)
    BY <1>0, <2>1, KeptLoses DEF Untouched
  <2>3. Loses(r)
    BY <2>1 DEF Loses, Bears, Early, Sound
  <2> QED BY <2>2, <2>3
<1>5. \/ UNCHANGED run
      \/ \E h \in Handlers : CancelAutomation(h)
      \/ \E r \in Runs : TriggerBegin(r) \/ TriggerRecord(r)
      \/ \E a \in Autos : Trigger(a)
  BY DEF HandlerStep, UserRequest, CommitFlip, Create, Update, Delete, ReadFlip
<1> QED BY <1>1, <1>2, <1>3, <1>4, <1>5

LEMMA HandlerOnce ==
  ASSUME IInv, IInv', WriteInv, OnceInv, HandlerStep \/ UserRequest PROVE OnceInv'
<1>0. UNCHANGED <<sched, now, ledger>> /\ (UNCHANGED row \/ \E a \in Autos : Moves(a))
  BY HandlerRows
<1>1. \A x \in Runs : Loses(x)
  BY HandlerLoses
<1>2. RowAhead
  BY <1>0, AheadRows
<1>3. RowsLose /\ RowsDated'
  BY <1>0, StillLose, RowsLosing DEF OnceInv, Dated
<1>4. SchedDated' /\ ScanAhead /\ SchedLoses /\ RanLoses
  BY <1>0, StillScans, SchedLosing DEF OnceInv, Dated, RanLoses
<1>5. Passes
  BY <1>1, <1>3, <1>4, Losing
<1> QED BY <1>0, <1>1, <1>2, <1>3, <1>4, <1>5, OnceOn DEF OnceInv, Loses

\* reconcile lists the rows as they are.
LEMMA StartScans == ASSUME IInv, OnceInv, Start PROVE SchedDated' /\ ScanAhead
<1>0. PICK rows \in {{}, Schedulable} : sched' = Listed(rows) /\ UNCHANGED row
  BY DEF Start
<1>1. rows \subseteq Schedulable
  BY <1>0
<1>2. \A a \in Schedulable : /\ a \in Autos /\ Snapshot[a].gen = row[a].gen
                             /\ Snapshot[a].next = row[a].next /\ Snapshot[a].occ = row[a].occ
                             /\ Snapshot[a].token = row[a].token
  BY DEF Schedulable, Snapshot
<1>3. sched'.pc = "scan" /\ sched'.todo = rows /\ sched'.at = now
  BY <1>0 DEF Listed
<1>4. \A a \in rows : sched'.snap[a] = Snapshot[a]
  BY <1>0, <1>1, <1>2 DEF Listed
<1> HIDE DEF Schedulable, Snapshot
<1> QED BY <1>0, <1>1, <1>2, <1>3, <1>4 DEF OnceInv, Dated, RowsDated, SchedDated, ScanAhead, Listing

LEMMA ProcessOnce ==
  ASSUME IInv, IInv', OnceInv,
         ClockTick \/ Start \/ Signal \/ Stop \/ StopReturns \/ Exit \/ UNCHANGED vars
  PROVE  OnceInv'
<1>0. UNCHANGED row /\ now' \in {now, now + 1}
  BY DEF ClockTick, Start, Signal, Stop, StopReturns, Exit, durable, vars
<1>1. Dated /\ \A x \in Runs : Sound(x)
  BY DEF OnceInv, Dated
<1>2. RanLoses /\ ledger'.rerun = {}
  <2>1. UNCHANGED ledger \/ \E os : ledger' = [ledger EXCEPT !.open = os]
    BY DEF ClockTick, Start, Signal, Stop, StopReturns, Exit, vars
  <2> QED BY <2>1, TypedParts DEF RanLoses, OnceInv, IInv, LedgerOK
<1>3. ASSUME NEW x \in Runs PROVE Loses(x)
  <2>1. CASE Signal
    <3>1. run[x] \in RunType
      BY TypedParts DEF IInv, RunOK
    <3> QED BY <1>1, <2>1, <3>1, KeptLoses DEF Signal, Untouched, RunType
  <2>2. CASE Stop
    BY <1>1, <2>2, CanceledKept, KeptLoses DEF Stop, Untouched
  <2>3. CASE ClockTick \/ Start \/ StopReturns \/ UNCHANGED vars
    BY <1>1, <2>3, StillLoses DEF ClockTick, Start, StopReturns, vars
  <2>4. CASE Exit
    BY <2>4 DEF Exit, IdleRun, Loses, Bears, Early, Sound
  <2> QED BY <2>1, <2>2, <2>3, <2>4
<1>4. SchedDated' /\ ScanAhead /\ SchedLoses
  <2>1. CASE Start
    <3>1. sched'.pc = "scan"
      BY <2>1 DEF Start, Listed
    <3> QED BY <2>1, <3>1, StartScans, SchedLosing
  <2>2. CASE Exit
    BY <2>2 DEF Exit, IdleSched, SchedDated, ScanAhead, SchedLoses, SchedBears
  <2>3. CASE UNCHANGED sched
    BY <1>1, <2>3, StillScans, SchedLosing DEF Dated
  <2> QED BY <2>1, <2>2, <2>3 DEF ClockTick, Signal, Stop, StopReturns, vars
<1>5. RowsLose /\ RowsDated' /\ RowAhead
  BY <1>0, <1>1, StillLose, AheadRows DEF Dated
<1>6. Passes
  BY <1>2, <1>3, <1>4, <1>5, Losing
<1> QED BY <1>0, <1>2, <1>3, <1>4, <1>5, <1>6, OnceOn DEF Loses

LEMMA OnceNext ==
  ASSUME IInv, IInv', TokenInv, WriteInv, NoQueueing, OnceInv, [Next]_vars PROVE OnceInv'
BY SchedulerOnce, ExecuteOnce, HandlerOnce, ProcessOnce DEF Next

LEMMA OnceInit == ASSUME Init PROVE OnceInv
<1>1. /\ \A x \in Runs : run[x].pc = "free"
      /\ sched.pc = "idle" /\ sched.todo = {} /\ sched.at = 1 /\ now = 1
      /\ \A a \in Autos : row[a].token = NoToken /\ row[a].occ = NoOcc
      /\ ledger.ran = {} /\ ledger.rerun = {}
  BY DEF Init, IdleRun, IdleSched, NewRow
<1>2. Dated
  BY <1>1 DEF Dated, Sound, RowsDated, SchedDated
<1>3. ASSUME NEW o \in Occs PROVE Distinct(o) /\ Over(o)
  <2>1. ~Taken(o)
    BY <1>1, OccFields DEF Taken, Borne, Bears, SchedBears, Early
  <2> QED BY <2>1 DEF Distinct, Over, Taken, Borne
<1> QED BY <1>1, <1>2, <1>3 DEF OnceInv

\* Where no definition queues a fire, which leaves skip_if_running and parallel, no occurrence is
\* executed twice: ClaimDueRun advances the slot of an occurrence before anybody has it, and from
\* then on one run, the scheduler or the row has it, or it has run, through every crash, retry,
\* lost claim and stale list.  With queue_one and cancel_previous the same is false.
THEOREM RunsOnce == NoQueueing => (Spec => []QueuedRunsOnce)
<1> SUFFICES ASSUME NoQueueing PROVE Spec => []QueuedRunsOnce
  OBVIOUS
<1>1. Init => OnceInv
  BY OnceInit
<1>2. IInv /\ IInv' /\ TokenInv /\ WriteInv /\ OnceInv /\ [Next]_vars => OnceInv'
  BY OnceNext
<1>3. Spec => []WriteInv
  BY WriteInit, WriteNext, Inductive, Backing, PTL DEF Spec
<1>4. OnceInv => QueuedRunsOnce
  BY DEF OnceInv, QueuedRunsOnce
<1> QED BY <1>1, <1>2, <1>3, <1>4, Inductive, Backing, PTL DEF Spec

-----------------------------------------------------------------------------
(* The life of the occurrences is that of OccurrenceLedger: what a step does  *)
(* to those carried and those parked, and which of its actions that is.       *)

LedgerStep == [Ledger!LedgerNext]_(Ledger!ledgerVars)

CarriedSame == \A o \in Occs : Borne(o)' <=> Borne(o)
CarriedBut(p) == \A o \in Occs : Borne(o)' <=> Borne(o) /\ o # p
CarriedWith(p) == \A o \in Occs : Borne(o)' <=> Borne(o) \/ o = p
ParkedSame == \A o \in Occs : row'[o.auto].occ = o <=> row[o.auto].occ = o
ParkedBut(p) == \A o \in Occs : row'[o.auto].occ = o <=> row[o.auto].occ = o /\ o # p
ParkedWith(p) == \A o \in Occs :
  row'[o.auto].occ = o <=> o = p \/ (o.auto # p.auto /\ row[o.auto].occ = o)
RanSame == ledger'.ran = ledger.ran

\* At most one is dropped.
LEMMA Drops ==
  ASSUME RanSame, NEW p \in Occs \cup {NoOcc},
         \/ (CarriedSame \/ CarriedBut(p)) /\ ParkedSame
         \/ CarriedSame /\ ParkedBut(p)
  PROVE  LedgerStep
<1>0. NoOcc \notin Occs
  BY OccFields
<1>1. CASE p \in Occs
  <2>1. CASE CarriedSame /\ ParkedSame
    BY <2>1 DEF RanSame, CarriedSame, ParkedSame, LedgerStep, Ledger!ledgerVars
  <2>2. CASE CarriedBut(p) /\ ParkedSame
    <3>1. Ledger!Drop(p)
      BY <2>2 DEF RanSame, CarriedBut, ParkedSame, Ledger!Drop
    <3> QED BY <1>1, <3>1 DEF LedgerStep, Ledger!LedgerNext
  <2>3. CASE CarriedSame /\ ParkedBut(p)
    <3>1. Ledger!Drop(p)
      BY <2>3 DEF RanSame, CarriedSame, ParkedBut, Ledger!Drop
    <3> QED BY <1>1, <3>1 DEF LedgerStep, Ledger!LedgerNext
  <2> QED BY <2>1, <2>2, <2>3
<1>2. CASE p \notin Occs
  <2>1. CarriedSame /\ ParkedSame
    BY <1>2 DEF CarriedSame, CarriedBut, ParkedSame, ParkedBut
  <2> QED BY <2>1 DEF RanSame, CarriedSame, ParkedSame, LedgerStep, Ledger!ledgerVars
<1> QED BY <1>1, <1>2

LEMMA Parks ==
  ASSUME NEW p \in Occs, Borne(p), CarriedBut(p), ParkedWith(p), RanSame PROVE LedgerStep
<1>1. Ledger!Park(p)
  BY DEF CarriedBut, ParkedWith, RanSame, Ledger!Park
<1> QED BY <1>1 DEF LedgerStep, Ledger!LedgerNext

LEMMA Resumes ==
  ASSUME NEW p \in Occs, row[p.auto].occ = p, ParkedBut(p), CarriedWith(p), RanSame
  PROVE  LedgerStep
<1>1. Ledger!Resume(p)
  BY DEF CarriedWith, ParkedBut, RanSame, Ledger!Resume
<1> QED BY <1>1 DEF LedgerStep, Ledger!LedgerNext

LEMMA Starts ==
  ASSUME NEW p \in Occs, Borne(p), p \notin ledger.ran, CarriedBut(p), ParkedSame,
         ledger'.ran = ledger.ran \cup {p}
  PROVE  LedgerStep
<1>1. Ledger!Run(p)
  BY DEF CarriedBut, ParkedSame, Ledger!Run
<1> QED BY <1>1 DEF LedgerStep, Ledger!LedgerNext

LEMMA Claims ==
  ASSUME NEW p \in Occs, CarriedWith(p), ParkedSame, RanSame,
         \A q \in Occs : Taken(q) => Ledger!Precedes(q, p),
         \A q \in ledger.ran \ Occs : Ledger!Precedes(q, p)
  PROVE  LedgerStep
<1>1. \A q \in {o \in Occs : Borne(o)} \cup {o \in Occs : row[o.auto].occ = o} \cup ledger.ran :
        Ledger!Precedes(q, p)
  BY DEF Taken
<1>2. Ledger!Claim(p)
  BY <1>1 DEF CarriedWith, ParkedSame, RanSame, Ledger!Claim
<1> QED BY <1>2 DEF LedgerStep, Ledger!LedgerNext

LEMMA Crashes ==
  ASSUME \A o \in Occs : ~Borne(o)', ParkedSame, RanSame PROVE LedgerStep
<1>1. Ledger!Crash
  BY DEF ParkedSame, RanSame, Ledger!Crash
<1> QED BY <1>1 DEF LedgerStep, Ledger!LedgerNext

\* Rows: a token that leaves its row takes at most one occurrence out, a stamp puts one in.
LEMMA RowsForget ==
  ASSUME IInv, TokenInv, NEW a \in Autos,
         UNCHANGED row \/ row' = ClearToken(a) \/ Moves(a)
         \/ \E n : row' = [row EXCEPT ![a].next = n]
  PROVE  ParkedSame \/ ParkedBut(row[a].occ)
<1>1. \A o \in Occs : o.auto \in Autos /\ o # NoOcc
  BY OccFields
<1>2. CASE UNCHANGED row \/ \E n : row' = [row EXCEPT ![a].next = n]
  BY <1>1, <1>2, NextStep DEF ParkedSame
<1>3. CASE row' = ClearToken(a) \/ Moves(a)
  <2>1. row'[a].occ = NoOcc /\ \A b \in Autos \ {a} : row'[b] = row[b]
    BY <1>3, ClearStep, TypedParts DEF ClearToken, Moves, IInv, RowOK, RowType
  <2>2. row[a].occ # NoOcc => row[a].occ.auto = a
    BY DEF TokenInv, Apart, Files
  <2> QED BY <1>1, <2>1, <2>2 DEF ParkedBut
<1> QED BY <1>2, <1>3

LEMMA RowsPark ==
  ASSUME IInv, NEW f \in Fires, f.occ \in Occs, Own(f), NEW t, row' = Stamp(f.auto, t, f.occ)
  PROVE  ParkedWith(f.occ)
<1>1. Stamps(f.auto, t, f.occ) /\ f.occ.auto = f.auto
  BY FireFields, StampStep, OccFields DEF Own
<1> QED BY <1>1, OccFields DEF Stamps, ParkedWith

-----------------------------------------------------------------------------
(* What the steps of a run are to the ledger.                                *)

Keeps(x) == \A o \in Occs : Bears(x, o)' <=> Bears(x, o)

LEMMA KeptKeeps ==
  ASSUME NEW x \in Runs, Untouched(x) \/ Displaced(x) PROVE Keeps(x)
<1>1. CASE Untouched(x)
  BY <1>1 DEF Untouched, Keeps, Bears
<1>2. CASE Displaced(x)
  BY <1>2 DEF Displaced, Keeps, Bears, Early
<1> QED BY <1>1, <1>2

LEMMA AllKeep ==
  ASSUME \A x \in Runs : Keeps(x), \A o \in Occs : SchedBears(o)' <=> SchedBears(o)
  PROVE  CarriedSame
BY DEF Keeps, CarriedSame, Borne

\* One run lets its occurrence go, or nothing changes.
LEMMA OneLets ==
  ASSUME OnceInv, NEW r \in Runs, \A x \in Runs \ {r} : Keeps(x), Loses(r), UNCHANGED sched
  PROVE  /\ CarriedSame \/ CarriedBut(run[r].fire.occ)
         /\ \A o \in Occs : Bears(r, o) /\ ~Bears(r, o)' => CarriedBut(o)
<1>0. \A o \in Occs : SchedBears(o)' <=> SchedBears(o)
  BY DEF SchedBears
<1>1. ASSUME NEW p \in Occs, Bears(r, p), ~Bears(r, p)' PROVE CarriedBut(p)
  <2> SUFFICES ASSUME NEW o \in Occs PROVE Borne(o)' <=> Borne(o) /\ o # p
    BY DEF CarriedBut
  <2>1. CASE o = p
    <3>1. \A x \in Runs \ {r} : ~Bears(x, p)
      BY <1>1 DEF OnceInv, Distinct
    <3>2. ~SchedBears(p)
      BY <1>1 DEF OnceInv, Distinct
    <3>3. \A x \in Runs : ~Bears(x, p)'
      BY <1>1, <3>1 DEF Keeps
    <3>4. ~Borne(p)'
      BY <1>0, <3>2, <3>3 DEF Borne
    <3> QED BY <2>1, <3>4
  <2>2. CASE o # p
    <3>1. ~Bears(r, o) /\ ~Bears(r, o)'
      <4>1. ~Bears(r, o)
        BY <1>1, <2>2 DEF Bears
      <4> QED BY <4>1 DEF Loses
    <3>2. \A x \in Runs : Bears(x, o)' <=> Bears(x, o)
      BY <3>1 DEF Keeps
    <3> QED BY <1>0, <2>2, <3>2 DEF Borne
  <2> QED BY <2>1, <2>2
<1>2. CASE Keeps(r)
  BY <1>0, <1>1, <1>2, AllKeep
<1>3. CASE ~Keeps(r)
  <2>1. PICK o \in Occs : Bears(r, o) /\ ~Bears(r, o)'
    BY <1>3 DEF Keeps, Loses
  <2>2. o = run[r].fire.occ
    BY <2>1 DEF Bears
  <2> QED BY <1>1, <2>1, <2>2
<1> QED BY <1>2, <1>3

\* The checks of a run: it goes on, or drops what it carried.
LEMMA ChecksLedger ==
  ASSUME IInv, TokenInv, WriteInv, OnceInv, NEW r \in Runs,
         Bind(r) \/ Verify(r) \/ Eligible(r) \/ InsertRow(r) \/ Finish(r) \/ EndRun(r)
  PROVE  LedgerStep
<1>1. UNCHANGED <<row, sched>> /\ RanSame
  <2>1. UNCHANGED <<row, sched>> /\ (UNCHANGED ledger \/ \E os : Close(os))
    BY DEF Bind, Verify, Eligible, InsertRow, Finish, EndRun, durable
  <2> QED BY <2>1, TypedParts DEF Close, RanSame, IInv, LedgerOK
<1>2. Loses(r)
  BY BindPasses, ChecksPass, EndRunPasses
<1>3. ASSUME NEW x \in Runs \ {r} PROVE Untouched(x)
  <2>1. CASE EndRun(r)
    <3>1. PICK a \in Autos : a = run[r].fire.auto
      BY <2>1, RunFields, FireFields, TypedParts DEF IInv, EndRun
    <3>2. pending[a] = NoRun
      <4>1. pending[a] \in Runs \cup {NoRun}
        BY TypedParts DEF IInv, MemoryOK
      <4> QED BY <4>1 DEF IInv, Safe, PendingReal, OnceInv, Dated, Sound
    <3> QED BY <2>1, <3>1, <3>2 DEF EndRun, Untouched
  <2>2. CASE Bind(r)
    BY <2>2, TypedParts DEF Bind, Untouched, IInv, RunOK
  <2>3. CASE \E pc : Goto(r, pc)
    BY <2>3, GotoOne
  <2> QED BY <2>1, <2>2, <2>3 DEF Verify, Eligible, InsertRow, Finish
<1>4. CarriedSame \/ CarriedBut(run[r].fire.occ)
  BY <1>1, <1>2, <1>3, OneLets, KeptKeeps
<1>5. run[r].fire.occ \in Occs \cup {NoOcc}
  BY RunFire, FireFields DEF Bind, Verify, Eligible, InsertRow, Finish, EndRun
<1>6. ParkedSame
  BY <1>1 DEF ParkedSame
<1> QED BY <1>1, <1>4, <1>5, <1>6, Drops

LEMMA ConsumeLedger ==
  ASSUME IInv, TokenInv, WriteInv, OnceInv, NEW r \in Runs, Consume(r) PROVE LedgerStep
<1>1. PICK f \in Fires : f = run[r].fire /\ f.auto \in Autos
  BY RunFire DEF Consume
<1>2. /\ run[r].pc = "consume" /\ Goto(r, "end") /\ UNCHANGED <<sched, ledger>>
      /\ UNCHANGED row \/ row' = ClearToken(f.auto)
  BY <1>1 DEF Consume
<1>3. Keeps(r) /\ \A x \in Runs \ {r} : Keeps(x)
  BY <1>2, GotoOne, KeptKeeps DEF Keeps, Bears, Early
<1>4. CarriedSame
  BY <1>2, <1>3, AllKeep DEF SchedBears
<1>5. ParkedSame \/ ParkedBut(row[f.auto].occ)
  BY <1>1, <1>2, RowsForget
<1>6. row[f.auto].occ \in Occs \cup {NoOcc}
  BY <1>1, TypedParts DEF IInv, RowOK, RowType
<1> QED BY <1>2, <1>4, <1>5, <1>6, Drops DEF RanSame

\* A claim that is won takes the occurrence out of the row; one that is lost has nothing.
LEMMA ClaimTokenLedger ==
  ASSUME IInv, TokenInv, WriteInv, OnceInv, NEW r \in Runs, ClaimToken(r) PROVE LedgerStep
<1>1. PICK f \in Fires : f = run[r].fire /\ Agrees(f) /\ f.auto \in Autos
  BY RunFire DEF ClaimToken
<1>2. run[r].pc = "claim" /\ UNCHANGED <<sched, ledger>> /\ RanSame
  BY DEF ClaimToken, RanSame
<1>3. \A o \in Occs : ~Bears(r, o) /\ (SchedBears(o)' <=> SchedBears(o))
  BY <1>2 DEF Bears, Early, SchedBears
<1>4. CASE Goto(r, "end") /\ UNCHANGED row
  <2>1. Keeps(r) /\ \A x \in Runs \ {r} : Keeps(x)
    BY <1>3, <1>4, GotoOne, KeptKeeps DEF Keeps, Bears, Early
  <2>2. CarriedSame /\ ParkedSame
    BY <1>3, <1>4, <2>1, AllKeep DEF ParkedSame
  <2> QED BY <1>2, <2>2, Drops
<1>5. CASE Claimable(f.auto, f.token) /\ row' = ClearToken(f.auto) /\ Goto(r, "engine")
  <2>1. /\ run'[r].pc = "engine" /\ run'[r].fire = f
        /\ \A x \in Runs \ {r} : Keeps(x)
    BY <1>1, <1>5, GotoOne, KeptKeeps
  <2>2. row[f.auto].occ = f.occ
    BY <1>1, <1>5 DEF Agrees, Claimable
  <2>3. f.occ \in Occs \cup {NoOcc} /\ (f.occ # NoOcc => f.occ.auto = f.auto)
    BY <1>1, FireFields DEF Agrees, Own
  <2>4. \A o \in Occs : Bears(r, o)' <=> f.occ = o
    BY <2>1 DEF Bears, Early
  <2>5. CarriedWith(f.occ)
    BY <1>3, <2>1, <2>4 DEF CarriedWith, Borne, Keeps
  <2>6. ParkedBut(f.occ)
    <3>1. row'[f.auto].occ = NoOcc
      BY <1>1, <1>5, TypedParts DEF ClearToken, IInv, RowOK, RowType
    <3>2. \A b \in Autos \ {f.auto} : row'[b] = row[b]
      BY <1>1, <1>5, ClearStep
    <3> QED BY <2>2, <2>3, <3>1, <3>2, OccFields DEF ParkedBut
  <2>7. CASE f.occ \in Occs
    <3>1. f.occ # NoOcc
      BY <2>7, OccFields
    <3>2. row[f.occ.auto].occ = f.occ
      BY <2>2, <2>3, <3>1
    <3> QED BY <1>2, <2>5, <2>6, <2>7, <3>2, Resumes
  <2>8. CASE f.occ \notin Occs
    <3>1. CarriedSame
      BY <2>5, <2>8 DEF CarriedWith, CarriedSame
    <3> QED BY <1>2, <2>3, <2>6, <3>1, Drops
  <2> QED BY <2>7, <2>8
<1> QED BY <1>1, <1>4, <1>5 DEF ClaimToken

LEMMA StartEngineLedger ==
  ASSUME IInv, TokenInv, WriteInv, OnceInv, NEW r \in Runs, StartEngine(r) PROVE LedgerStep
<1>0. run[r].pc = "engine" /\ UNCHANGED <<row, sched>> /\ ParkedSame
  BY DEF StartEngine, ParkedSame
<1>1. PICK f \in Fires : f = run[r].fire
  BY <1>0, RunFire
<1>2. PICK pc \in {"running", "end"} : Goto(r, pc)
  BY DEF StartEngine
<1>3. /\ run'[r].pc = pc /\ Loses(r)
      /\ \A x \in Runs \ {r} : Keeps(x)
  BY <1>2, GotoOne, KeptKeeps, StartEnginePasses
<1>4. CarriedSame \/ CarriedBut(f.occ)
  BY <1>0, <1>1, <1>3, OneLets
<1>5. CASE \E os : Close(os)
  <2>1. RanSame
    BY <1>5, TypedParts DEF Close, RanSame, IInv, LedgerOK
  <2>2. f.occ \in Occs \cup {NoOcc}
    BY FireFields
  <2> QED BY <1>0, <1>4, <2>1, <2>2, Drops
<1>6. CASE ~run[r].manual /\ ledger'.ran = ledger.ran \cup {f.occ}
  <2>1. f.occ \in Occs
    BY <1>0, <1>1, <1>6 DEF OnceInv, Dated, Sound
  <2>2. Bears(r, f.occ) /\ ~Bears(r, f.occ)'
    BY <1>0, <1>1, <1>3 DEF Bears, Early
  <2>3. CarriedBut(f.occ)
    BY <1>0, <1>3, <2>1, <2>2, OneLets
  <2>4. Borne(f.occ)
    BY <2>2 DEF Borne
  <2>5. f.occ \notin ledger.ran
    BY <2>1, <2>4 DEF OnceInv, Distinct
  <2> QED BY <1>0, <1>6, <2>1, <2>3, <2>4, <2>5, Starts
<1>7. \/ \E os : Close(os)
      \/ ~run[r].manual /\ ledger'.ran = ledger.ran \cup {f.occ}
  <2>1. \/ Close({f.occ})
        \/ /\ ~run[r].manual
           /\ ledger' = [open  |-> ledger.open \ {f.occ},
                         ran   |-> ledger.ran \cup {f.occ},
                         rerun |-> ledger.rerun \cup (ledger.ran \cap {f.occ})]
    BY <1>1 DEF StartEngine, Close
  <2> QED BY <2>1
<1> QED BY <1>5, <1>6, <1>7

\* Who parks an occurrence had it, and has it no longer; if it cannot be parked it is dropped.
LEMMA StampLedger ==
  ASSUME IInv, NEW f \in Fires, f.occ \in Occs, Agrees(f), StampFresh(f),
         Borne(f.occ), CarriedBut(f.occ)
  PROVE  LedgerStep
<1>1. RanSame
  BY TypedParts DEF StampFresh, Close, RanSame, IInv, LedgerOK
<1>2. CASE UNCHANGED row
  <2>1. ParkedSame
    BY <1>2 DEF ParkedSame
  <2> QED BY <1>1, <2>1, Drops
<1>3. ASSUME NEW t, row' = Stamp(f.auto, t, f.occ) PROVE LedgerStep
  <2>1. ParkedWith(f.occ)
    BY <1>3, RowsPark DEF Agrees
  <2> QED BY <1>1, <2>1, Parks
<1> QED BY <1>2, <1>3 DEF StampFresh

LEMMA RestampLedger ==
  ASSUME IInv, TokenInv, WriteInv, OnceInv, NEW r \in Runs, Restamp(r) PROVE LedgerStep
<1>0. run[r].pc = "restamp" /\ Goto(r, "end") /\ UNCHANGED sched
  BY DEF Restamp
<1>1. PICK f \in Fires : f = run[r].fire /\ Agrees(f) /\ StampFresh(f)
  BY <1>0, RunFire DEF Restamp
<1>2. f.occ \in Occs /\ f.token = NoToken
  BY <1>0, <1>1 DEF OnceInv, Dated, Sound, WriteInv, NotByHand
<1>3. Bears(r, f.occ) /\ ~Bears(r, f.occ)'
  BY <1>0, <1>1, <1>2, GotoOne DEF Bears, Early
<1>4. Loses(r) /\ \A x \in Runs \ {r} : Keeps(x)
  BY <1>0, RestampPasses, GotoOne, KeptKeeps
<1>5. CarriedBut(f.occ)
  BY <1>0, <1>2, <1>3, <1>4, OneLets
<1>6. Borne(f.occ)
  BY <1>3 DEF Borne
<1> QED BY <1>1, <1>2, <1>5, <1>6, StampLedger

LEMMA ExecuteLedger ==
  ASSUME IInv, TokenInv, WriteInv, OnceInv, NEW r \in Runs, Execute(r) PROVE LedgerStep
<1>1. ~DrainPending(r)
  BY DEF OnceInv, Dated, Sound, DrainPending
<1> QED BY <1>1, ChecksLedger, ConsumeLedger, ClaimTokenLedger, StartEngineLedger, RestampLedger
       DEF Execute

-----------------------------------------------------------------------------
(* What the steps of the scheduler are to the ledger.                        *)

\* The slot that is claimed is after every one of its automation that is still about.
LEMMA ClaimLedger ==
  ASSUME IInv, TokenInv, OnceInv, NEW a \in Autos, ClaimSlot(a) PROVE LedgerStep
<1> DEFINE s == sched.snap[a]
<1>0. PICK o : o = [auto |-> a, gen |-> s.gen, slot |-> s.next]
  OBVIOUS
<1>1. /\ sched.pc = "scan" /\ a \in sched.todo /\ UNCHANGED run
      /\ row' = [row EXCEPT ![a].next = NextAfterNow(s.def, sched.at)]
      /\ \/ UNCHANGED ledger /\ sched' = NextRow(a)
         \/ /\ sched' = [NextRow(a) EXCEPT !.pc = "fire", !.fire = Fire(a, NoToken, o)]
            /\ ledger' = [ledger EXCEPT !.open = @ \cup {o}]
  BY <1>0 DEF ClaimSlot, AtSlot, AtRow
<1>2. o \in Occs /\ s.gen \in Nat /\ s.next \in Nat /\ s.next # 0
  <2>1. s.gen \in 1..MaxGen
    BY <1>1, SnapFields, TypedParts, SchedulerAssumption DEF SchedReal, SchedOK, IInv
  <2>2. s.next \in 1..MaxTime /\ s.next # 0
    BY SnapFields, TypedParts, SchedulerAssumption DEF ClaimSlot, Due, IInv
  <2> QED BY <1>0, <2>1, <2>2, SchedulerAssumption DEF Occs
<1>3. o.auto = a /\ o.gen = s.gen /\ o.slot = s.next
  BY <1>0
<1> HIDE DEF s
<1>4. ParkedSame
  <2>1. \A b \in Autos : row'[b].occ = row[b].occ
    BY <1>1, NextStep
  <2> QED BY <2>1, OccFields DEF ParkedSame
<1>5. RanSame
  BY <1>1, TypedParts DEF RanSame, IInv, LedgerOK
<1>6. (\A x \in Runs : Keeps(x)) /\ \A p \in Occs : ~SchedBears(p)
  BY <1>1, KeptKeeps DEF Untouched, SchedBears
<1>7. CASE sched' = NextRow(a)
  <2>1. sched'.pc = "scan"
    BY <1>1, <1>7, TypedParts DEF NextRow, IInv, SchedOK
  <2>2. CarriedSame
    BY <1>6, <2>1, AllKeep DEF SchedBears
  <2> QED BY <1>4, <1>5, <2>2, Drops
<1>8. CASE sched' = [NextRow(a) EXCEPT !.pc = "fire", !.fire = Fire(a, NoToken, o)]
  <2>1. sched'.pc = "fire" /\ sched'.fire.token = NoToken /\ sched'.fire.occ = o
    BY <1>8, TypedParts DEF IInv, SchedOK, NextRow, Fire
  <2>2. \A p \in Occs : SchedBears(p)' <=> p = o
    BY <2>1 DEF SchedBears
  <2>3. CarriedWith(o)
    BY <1>6, <2>2 DEF CarriedWith, Keeps, Borne
  <2>4. ASSUME NEW q \in Occs, Taken(q) PROVE Ledger!Precedes(q, o)
    <3> SUFFICES ASSUME q.auto = a PROVE q.gen < o.gen \/ (q.gen = o.gen /\ q.slot < o.slot)
      BY <1>3 DEF Ledger!Precedes
    <3>1. /\ q.gen <= sched.snap[a].gen
          /\ q.gen = sched.snap[a].gen => sched.snap[a].next = 0 \/ sched.snap[a].next > q.slot
      BY <1>1, <2>4 DEF OnceInv, Over
    <3>2. q.gen \in Nat /\ q.slot \in Nat
      BY SchedulerAssumption DEF Occs
    <3> QED BY <1>2, <1>3, <3>1, <3>2 DEF s
  <2>5. ASSUME NEW q \in ledger.ran \ Occs PROVE Ledger!Precedes(q, o)
    <3>1. q = NoOcc /\ a # 0
      BY TypedParts, SchedulerAssumption DEF IInv, LedgerOK
    <3> QED BY <1>3, <3>1 DEF NoOcc, Ledger!Precedes
  <2> QED BY <1>2, <1>4, <1>5, <2>3, <2>4, <2>5, Claims
<1> QED BY <1>1, <1>7, <1>8

\* The fire is started, and its run has the occurrence then, or refused.
LEMMA FireLedger ==
  ASSUME IInv, NoQueueing, OnceInv, SchedulerFire PROVE LedgerStep
<1>1. sched.pc = "fire" /\ sched.fire \in Fires
  BY TypedParts DEF SchedulerFire, IInv, SchedOK, SchedReal
<1>2. PICK f \in Fires : f = sched.fire
  BY <1>1
<1>3. PICK r \in Runs : FreshRun(r) /\ (FireStart(f, r) \/ FireQueue(f, r) \/ FireRefuse(f, r))
  BY <1>2 DEF SchedulerFire
<1>4. ~FireQueue(f, r)
  BY FireFields DEF FireQueue, Queues, NoQueueing
<1>5. UNCHANGED row /\ ParkedSame /\ RanSame
  <2>1. UNCHANGED row
    BY <1>3, <1>4 DEF FireStart, FireRefuse
  <2>2. RanSame
    BY <1>3, <1>4, TypedParts DEF FireStart, FireRefuse, Close, RanSame, IInv, LedgerOK
  <2> QED BY <2>1, <2>2 DEF ParkedSame
<1>6. (\A x \in Runs \ {r} : Keeps(x)) /\ \A o \in Occs : ~Bears(r, o)
  BY <1>3, BeginOne, KeptKeeps DEF FreshRun, Bears, Early
<1>7. \A o \in Occs : ~SchedBears(o)' /\ (SchedBears(o) <=> f.token = NoToken /\ f.occ = o)
  <2>1. sched'.pc = "scan"
    BY TypedParts DEF SchedulerFire, IInv, SchedOK
  <2> QED BY <1>1, <1>2, <2>1 DEF SchedBears
<1>8. CASE FireStart(f, r)
  <2>1. run'[r].pc = "bind" /\ run'[r].fire = f
    BY <1>8, TypedParts DEF FireStart, IdleRun, IInv, RunOK
  <2>2. \A o \in Occs : Bears(r, o)' <=> f.token = NoToken /\ f.occ = o
    BY <2>1 DEF Bears, Early
  <2>3. CarriedSame
    BY <1>6, <1>7, <2>2 DEF CarriedSame, Borne, Keeps
  <2> QED BY <1>5, <2>3, Drops
<1>9. CASE FireRefuse(f, r)
  <2>1. \A o \in Occs : ~Bears(r, o)'
    BY <1>9, TypedParts DEF FireRefuse, IdleRun, IInv, RunOK, Bears, Early
  <2>2. \A x \in Runs : Keeps(x)
    BY <1>6, <2>1 DEF Keeps
  <2>3. CASE f.token # NoToken
    BY <1>5, <1>7, <2>2, <2>3, AllKeep, Drops
  <2>4. CASE f.token = NoToken
    <3>1. \A o \in Occs : o = f.occ => \A x \in Runs : ~Bears(x, o)
      BY <1>7, <2>4 DEF OnceInv, Distinct
    <3>2. CarriedBut(f.occ)
      BY <1>7, <2>2, <2>4, <3>1 DEF CarriedBut, Borne, Keeps
    <3>3. f.occ \in Occs \cup {NoOcc}
      BY FireFields
    <3> QED BY <1>5, <3>2, <3>3, Drops
  <2> QED BY <2>3, <2>4
<1> QED BY <1>3, <1>4, <1>8, <1>9

\* The other steps of a pass pass nothing on, but for the stamp of a capped fire.
LEMMA ScanLedger ==
  ASSUME IInv, TokenInv, OnceInv, NEW a \in Autos,
         TickDrain(a) \/ TickBusy(a) \/ SkipSlot(a) \/ ClearSlot(a) \/ BootSchedule(a)
         \/ BootDrain(a)
  PROVE  LedgerStep
<1>1. UNCHANGED <<run, ledger>> /\ sched.pc = "scan"
  BY DEF TickDrain, TickBusy, SkipSlot, ClearSlot, BootSchedule, BootDrain, AtSlot, AtRow, durable
<1>2. UNCHANGED row \/ row' = ClearToken(a) \/ \E n : row' = [row EXCEPT ![a].next = n]
  BY DEF TickDrain, TickBusy, SkipSlot, ClearSlot, BootSchedule, BootDrain, durable
<1>3. ParkedSame \/ ParkedBut(row[a].occ)
  BY <1>2, RowsForget
<1>4. \A o \in Occs : ~SchedBears(o)'
  <2>1. \/ sched' = [sched EXCEPT !.snap[a].token = NoToken] \/ sched' = NextRow(a)
        \/ /\ sched.snap[a].token # NoToken
           /\ sched'.fire = Fire(a, sched.snap[a].token, sched.snap[a].occ)
    BY TypedParts DEF TickDrain, Drainable, TickBusy, SkipSlot, ClearSlot, BootSchedule,
       BootDrain, NextRow, IInv, SchedOK
  <2>2. Fire(a, sched.snap[a].token, sched.snap[a].occ).token = sched.snap[a].token
    BY DEF Fire
  <2>3. sched' = [sched EXCEPT !.snap[a].token = NoToken] \/ sched' = NextRow(a)
          => sched'.pc = sched.pc
    BY TypedParts DEF NextRow, IInv, SchedOK
  <2> QED BY <1>1, <2>1, <2>2, <2>3 DEF SchedBears
<1>5. CarriedSame
  <2>1. \A x \in Runs : Keeps(x)
    BY <1>1, KeptKeeps DEF Untouched
  <2> QED BY <1>1, <1>4, <2>1, AllKeep DEF SchedBears
<1>6. row[a].occ \in Occs \cup {NoOcc}
  BY TypedParts DEF IInv, RowOK, RowType
<1> QED BY <1>1, <1>3, <1>5, <1>6, Drops DEF RanSame

LEMMA SchedulerStampLedger ==
  ASSUME IInv, TokenInv, OnceInv, SchedulerStamp PROVE LedgerStep
<1>1. sched.pc = "stamp" /\ UNCHANGED run
  BY DEF SchedulerStamp
<1>2. PICK f \in Fires : /\ f = sched.fire /\ Agrees(f) /\ f.occ \in Occs /\ f.token = NoToken
                         /\ StampFresh(f)
  <2>1. sched.fire \in Fires /\ sched.fire.occ \in Occs /\ sched.fire.token = NoToken
    BY <1>1, TypedParts DEF IInv, SchedOK, SchedReal, OnceInv, Dated, SchedDated
  <2> QED BY <1>1, <2>1 DEF TokenInv, Agreed, InFlight, SchedHolds, SchedulerStamp
<1>3. SchedBears(f.occ) /\ \A o \in Occs : SchedBears(o) => o = f.occ
  BY <1>1, <1>2 DEF SchedBears
<1>4. \A o \in Occs : ~SchedBears(o)'
  <2>1. sched'.pc = "scan"
    BY TypedParts DEF SchedulerStamp, IInv, SchedOK
  <2> QED BY <2>1 DEF SchedBears
<1>5. \A x \in Runs : Keeps(x) /\ ~Bears(x, f.occ)
  BY <1>1, <1>2, <1>3, KeptKeeps DEF Untouched, OnceInv, Distinct
<1>6. Borne(f.occ) /\ CarriedBut(f.occ)
  BY <1>3, <1>4, <1>5 DEF CarriedBut, Borne, Keeps
<1> QED BY <1>2, <1>6, StampLedger

LEMMA SchedulerLedger ==
  ASSUME IInv, TokenInv, NoQueueing, OnceInv, Scheduler PROVE LedgerStep
<1>1. CASE TickList \/ PassDone \/ SchedulerCapped
  <2>1. UNCHANGED <<run, row, ledger>>
    BY <1>1 DEF TickList, PassDone, SchedulerCapped, durable
  <2>2. \A o \in Occs : SchedBears(o)' <=> SchedBears(o)
    <3>1. CASE TickList \/ PassDone
      <4>1. TickList => sched'.pc = "scan"
        BY TypedParts DEF TickList, IInv, SchedOK
      <4>2. PassDone => sched'.pc = "idle"
        BY DEF PassDone, IdleSched
      <4>3. sched.pc \in {"idle", "scan"}
        BY <3>1 DEF TickList, PassDone
      <4> QED BY <3>1, <4>1, <4>2, <4>3 DEF SchedBears
    <3>2. CASE SchedulerCapped
      BY <3>2, TypedParts DEF SchedulerCapped, AfterCap, SchedBears, IInv, SchedOK
    <3> QED BY <1>1, <3>1, <3>2
  <2>3. \A x \in Runs : Keeps(x)
    BY <2>1, KeptKeeps DEF Untouched
  <2>4. CarriedSame /\ ParkedSame /\ RanSame
    BY <2>1, <2>2, <2>3, AllKeep DEF ParkedSame, RanSame
  <2> QED BY <2>4, Drops
<1> QED BY <1>1, FireLedger, SchedulerStampLedger, ScanLedger, ClaimLedger DEF Scheduler

-----------------------------------------------------------------------------
(* Handlers drop what an edit clears from its row; a crash, what is carried. *)

LEMMA HandlerLeaves ==
  ASSUME IInv, WriteInv, OnceInv, HandlerStep \/ UserRequest PROVE \A x \in Runs : Keeps(x)
<1> SUFFICES ASSUME NEW x \in Runs PROVE Keeps(x)
  OBVIOUS
<1>1. CASE UNCHANGED run
  BY <1>1, KeptKeeps DEF Untouched
<1>2. ASSUME NEW h \in Handlers, CancelAutomation(h) PROVE Keeps(x)
  <2>0. req[h].auto \in Autos
    BY <1>2, TypedParts DEF CancelAutomation, IInv, ReqOK, ReqType, IdleReq
  <2>1. run'[x] = IF x = pending[req[h].auto] THEN IdleRun ELSE Canceled(active[req[h].auto])[x]
    BY <1>2 DEF CancelAutomation
  <2>2. CASE x = pending[req[h].auto]
    <3>1. run[x].pc = "queued"
      BY <2>0, <2>2, SchedulerAssumption DEF IInv, Safe, PendingReal
    <3> QED BY <3>1 DEF OnceInv, Dated, Sound
  <2>3. CASE x # pending[req[h].auto]
    BY <2>1, <2>3, CanceledKept, KeptKeeps DEF Untouched
  <2> QED BY <2>2, <2>3
<1>3. ASSUME NEW r \in Runs, TriggerBegin(r) \/ TriggerRecord(r) PROVE Keeps(x)
  <2>1. run[r].pc \in {"trigger", "record"}
    BY <1>3 DEF TriggerBegin, TriggerRecord
  <2>2. run[r].fire.occ = NoOcc
    BY <2>1 DEF WriteInv, NotByHand
  <2>3. \/ \E pc \in {"record", "bind", "end"} : Goto(r, pc)
        \/ run' = [run EXCEPT ![r] = IdleRun]
    BY <1>3 DEF TriggerBegin, TriggerRecord
  <2>4. CASE x # r
    <3>1. CASE \E pc : Goto(r, pc)
      BY <2>4, <3>1, GotoOne, KeptKeeps
    <3>2. CASE run' = [run EXCEPT ![r] = IdleRun]
      <4>1. run'[x] = run[x]
        BY <2>4, <3>2, TypedParts DEF IInv, RunOK
      <4> QED BY <4>1, KeptKeeps DEF Untouched
    <3> QED BY <2>3, <3>1, <3>2
  <2>5. CASE x = r
    <3>1. run'[r].fire = run[r].fire \/ run'[r].pc = "free"
      BY <2>3, GotoOne, TypedParts DEF IdleRun, IInv, RunOK
    <3> QED BY <2>1, <2>2, <2>5, <3>1, OccFields DEF Keeps, Bears, Early
  <2> QED BY <2>4, <2>5
<1>4. ASSUME NEW a \in Autos, Trigger(a) PROVE Keeps(x)
  <2>1. PICK r \in Runs : /\ run[r].pc = "free" /\ run'[r].pc = "trigger"
                          /\ \A y \in Runs \ {r} : run'[y] = run[y]
    BY <1>4, TypedParts DEF Trigger, FreshRun, IInv, RunOK, IdleRun
  <2>2. CASE x = r
    BY <2>1, <2>2 DEF Keeps, Bears, Early
  <2>3. CASE x # r
    BY <2>1, <2>3, KeptKeeps DEF Untouched
  <2> QED BY <2>2, <2>3
<1>5. \/ UNCHANGED run
      \/ \E h \in Handlers : CancelAutomation(h)
      \/ \E r \in Runs : TriggerBegin(r) \/ TriggerRecord(r)
      \/ \E a \in Autos : Trigger(a)
  BY DEF HandlerStep, UserRequest, CommitFlip, Create, Update, Delete, ReadFlip
<1> QED BY <1>1, <1>2, <1>3, <1>4, <1>5

LEMMA HandlerLedger ==
  ASSUME IInv, TokenInv, WriteInv, OnceInv, HandlerStep \/ UserRequest PROVE LedgerStep
<1>1. UNCHANGED <<sched, ledger>> /\ (UNCHANGED row \/ \E a \in Autos : Moves(a))
  BY HandlerRows
<1>2. CarriedSame /\ RanSame
  <2>1. \A x \in Runs : Keeps(x)
    BY HandlerLeaves
  <2>2. \A o \in Occs : SchedBears(o)' <=> SchedBears(o)
    BY <1>1 DEF SchedBears
  <2> QED BY <1>1, <2>1, <2>2, AllKeep DEF RanSame
<1>3. CASE UNCHANGED row
  BY <1>2, <1>3, Drops DEF ParkedSame
<1>4. ASSUME NEW a \in Autos, Moves(a) PROVE LedgerStep
  <2>1. ParkedSame \/ ParkedBut(row[a].occ)
    BY <1>4, RowsForget
  <2>2. row[a].occ \in Occs \cup {NoOcc}
    BY TypedParts DEF IInv, RowOK, RowType
  <2> QED BY <1>2, <2>1, <2>2, Drops
<1> QED BY <1>1, <1>3, <1>4

LEMMA ProcessLedger ==
  ASSUME IInv, SchedDown,
         ClockTick \/ Start \/ Signal \/ Stop \/ StopReturns \/ Exit \/ UNCHANGED vars
  PROVE  LedgerStep
<1>1. ParkedSame
  BY DEF ClockTick, Start, Signal, Stop, StopReturns, Exit, durable, vars, ParkedSame
<1>2. RanSame
  <2>1. UNCHANGED ledger \/ \E os : ledger' = [ledger EXCEPT !.open = os]
    BY DEF ClockTick, Start, Signal, Stop, StopReturns, Exit, vars
  <2> QED BY <2>1, TypedParts DEF RanSame, IInv, LedgerOK
<1>3. CASE Exit
  <2>1. \A o \in Occs : ~Borne(o)'
    BY <1>3 DEF Exit, IdleRun, IdleSched, Borne, Bears, SchedBears, Early
  <2> QED BY <1>1, <1>2, <2>1, Crashes
<1>4. CASE ~Exit
  <2>1. ASSUME NEW x \in Runs PROVE Untouched(x)
    <3>1. CASE Signal
      <4>1. run[x] \in RunType
        BY TypedParts DEF IInv, RunOK
      <4> QED BY <3>1, <4>1 DEF Signal, Untouched, RunType
    <3>2. CASE Stop
      BY <3>2, CanceledKept DEF Stop, Untouched
    <3>3. CASE ClockTick \/ Start \/ StopReturns \/ UNCHANGED vars
      BY <3>3 DEF ClockTick, Start, StopReturns, vars, Untouched
    <3> QED BY <1>4, <3>1, <3>2, <3>3
  <2>2. \A o \in Occs : SchedBears(o)' <=> SchedBears(o)
    <3>1. CASE Start
      <4>1. sched.pc = "idle" /\ sched'.pc = "scan"
        BY <3>1 DEF Start, Listed, SchedDown
      <4> QED BY <4>1 DEF SchedBears
    <3>2. CASE UNCHANGED sched
      BY <3>2 DEF SchedBears
    <3> QED BY <1>4, <3>1, <3>2 DEF ClockTick, Signal, Stop, StopReturns, vars
  <2>3. CarriedSame
    BY <2>1, <2>2, KeptKeeps, AllKeep
  <2> QED BY <1>1, <1>2, <2>3, Drops
<1> QED BY <1>3, <1>4

LEMMA StepLedger ==
  ASSUME IInv, TokenInv, WriteInv, NoQueueing, OnceInv, SchedDown, [Next]_vars PROVE LedgerStep
BY SchedulerLedger, ExecuteLedger, HandlerLedger, ProcessLedger DEF Next

\* Where no definition queues a fire, the scheduler does with the occurrences of a schedule what
\* OccurrenceLedger says, whatever is capped, fails, is edited or crashes: each is claimed after
\* every one of its automation that is still about, is with the scheduler or one run or in its
\* row, from which a crash takes it only if it is in memory, and has its engine started once.  One
\* step drops one of them at most, a crash those in memory, and a stamp what the row had before.
THEOREM Implements == NoQueueing => (Spec => ImplementsLedger)
<1> SUFFICES ASSUME NoQueueing PROVE Spec => ImplementsLedger
  OBVIOUS
<1>1. Init => Ledger!LedgerInit
  <2>1. ASSUME Init, NEW o \in Occs PROVE ~Borne(o) /\ row[o.auto].occ # o
    BY <2>1, OccFields DEF Init, IdleRun, IdleSched, NewRow, Borne, Bears, SchedBears, Early
  <2>2. ASSUME Init PROVE ledger.ran = {}
    <3>1. ledger = [open |-> {}, ran |-> {}, rerun |-> {}]
      BY <2>2 DEF Init
    <3> QED BY <3>1
  <2> QED BY <2>1, <2>2 DEF Ledger!LedgerInit
<1>2. IInv /\ TokenInv /\ WriteInv /\ OnceInv /\ SchedDown /\ [Next]_vars
        => [Ledger!LedgerNext]_(Ledger!ledgerVars)
  BY StepLedger DEF LedgerStep
<1>3. Init => OnceInv /\ TablesInv
  BY OnceInit, TablesInit
<1>4. /\ IInv /\ IInv' /\ TokenInv /\ WriteInv /\ OnceInv /\ [Next]_vars => OnceInv'
      /\ IInv /\ IInv' /\ TokenInv /\ TokenInv' /\ WriteInv /\ TablesInv /\ [Next]_vars => TablesInv'
  BY OnceNext, TablesNext
<1>5. Spec => []WriteInv
  BY WriteInit, WriteNext, Inductive, Backing, PTL DEF Spec
<1>6. TablesInv => SchedDown
  BY DEF TablesInv, CarryInv
<1> QED BY <1>1, <1>2, <1>3, <1>4, <1>5, <1>6, Inductive, Backing, PTL
       DEF Spec, ImplementsLedger, Ledger!LedgerSpec
=============================================================================
