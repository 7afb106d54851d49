---------------------- MODULE AutomationScheduler_proofs ----------------------
(* Theorems about AutomationScheduler for every value of its constants: typing; *)
(* no engine runs without its durable record, and no run goes on under a        *)
(* definition that an edit has replaced; permits are out for exactly the        *)
(* admitted runs, within the caps; a queued replacement has a durable token,    *)
(* and a token leaves its row only into a run that has its record.              *)
EXTENDS AutomationScheduler, FiniteSetTheorems, TLAPS

-----------------------------------------------------------------------------
(* Typing.  TypeOK is not inductive: it does not say that a fire on its way   *)
(* is a real one, nor that only rows that exist are enabled and listed.       *)

RowsReal == \A a \in Autos : row[a].enabled => row[a].gen >= 1
RunsReal == \A r \in Runs : run[r].pc # "free" => run[r].fire \in Fires
SchedReal == /\ \A a \in sched.todo : sched.snap[a].gen >= 1
             /\ sched.pc \in {"fire", "stamp"} => sched.fire \in Fires
\* A queued replacement is a run that waits, of the automation it is queued for.
PendingReal == \A a \in Autos : pending[a] # NoRun =>
                 run[pending[a]].pc = "queued" /\ run[pending[a]].fire.auto = a
Typed == TypeOK /\ RowsReal /\ RunsReal /\ SchedReal

\* The typing conjunct of each variable that a step may change.
RowOK == row \in [Autos -> RowType] /\ RowsReal
RunOK == run \in [Runs -> RunType] /\ RunsReal
HistoryOK == history \in [Runs -> {"none", "running", "cancelled", "failed", "success"}]
MemoryOK == /\ active \in [Autos -> SUBSET Runs]
            /\ pending \in [Autos -> Runs \cup {NoRun}]
            /\ userRuns \in [Users -> Int] /\ runSlots \in Int
SchedOK == /\ sched \in [pc : {"idle", "scan", "fire", "stamp"}, todo : SUBSET Autos,
                         snap : [Autos -> Snaps], at : 1..MaxTime,
                         fire : Fires \cup {NoFire}]
           /\ SchedReal
PhaseOK == phase \in {"down", "boot", "up", "signalled", "stopping", "stopped"}
ReqOK == req \in [Handlers -> ReqType]
BudgetOK == budget \in [trigger : Nat, fault : Nat, crash : Nat]
LedgerOK == ledger \in [open : SUBSET (Occs \cup {NoOcc}), ran : SUBSET (Occs \cup {NoOcc}),
                        rerun : SUBSET (Occs \cup {NoOcc})]

LEMMA TypedParts ==
  Typed <=> /\ RowOK /\ RunOK /\ HistoryOK /\ MemoryOK /\ SchedOK /\ PhaseOK
            /\ ReqOK /\ now \in 1..MaxTime /\ BudgetOK /\ LedgerOK
  BY DEF Typed, TypeOK, RowOK, RunOK, HistoryOK, MemoryOK, SchedOK, PhaseOK, ReqOK,
         BudgetOK, LedgerOK

LEMMA TypedNext ==
  Typed' <=> /\ RowOK' /\ RunOK' /\ HistoryOK' /\ MemoryOK' /\ SchedOK' /\ PhaseOK'
             /\ ReqOK' /\ now' \in 1..MaxTime /\ BudgetOK' /\ LedgerOK'
  BY DEF Typed, TypeOK, RowOK, RunOK, HistoryOK, MemoryOK, SchedOK, PhaseOK, ReqOK,
         BudgetOK, LedgerOK

LEMMA BlankSnapType == BlankSnap \in Snaps
  BY SchedulerAssumption DEF BlankSnap, Snaps

LEMMA FireFields ==
  ASSUME NEW f \in Fires
  PROVE  /\ f.auto \in Autos /\ Owner[f.auto] \in Users /\ f.gen \in 1..MaxGen
         /\ f.token \in Tokens \cup {NoToken} /\ f.occ \in Occs \cup {NoOcc} /\ f.def \in Defs
  BY SchedulerAssumption DEF Fires

\* Budgets only go down, and stay natural numbers.
LEMMA SpendTyped ==
  ASSUME BudgetOK, NEW w \in {"trigger", "fault", "crash"}, Spend(w) PROVE BudgetOK'
  BY DEF BudgetOK, Spend

\* The ledger only ever holds occurrences.
LEMMA CloseTyped ==
  ASSUME LedgerOK, NEW os, Close(os) PROVE LedgerOK'
  BY DEF LedgerOK, Close

-----------------------------------------------------------------------------
(* The writes to a row.                                                      *)

\* One row is rewritten, and is real if it was.
LEMMA OneRow ==
  ASSUME RowOK, NEW a \in Autos, NEW w \in RowType, row' = [row EXCEPT ![a] = w],
         w.enabled = row[a].enabled, w.gen = row[a].gen
  PROVE  RowOK'
<1>1. row' \in [Autos -> RowType]
  BY DEF RowOK
<1>2. \A b \in Autos : row'[b].enabled = row[b].enabled /\ row'[b].gen = row[b].gen
  BY DEF RowOK
<1> QED BY <1>1, <1>2 DEF RowOK, RowsReal

LEMMA StampTyped ==
  ASSUME RowOK, NEW a \in Autos, NEW t \in Tokens, NEW o \in Occs \cup {NoOcc},
         row' = Stamp(a, t, o)
  PROVE  RowOK'
<1> DEFINE w == [row[a] EXCEPT !.token = t, !.occ = o]
<1>1. w \in RowType /\ w.enabled = row[a].enabled /\ w.gen = row[a].gen
  BY DEF RowOK, RowType
<1>2. row' = [row EXCEPT ![a] = w]
  BY DEF Stamp, RowOK
<1> HIDE DEF w
<1> QED BY <1>1, <1>2, OneRow

LEMMA ClearTyped ==
  ASSUME RowOK, NEW a \in Autos, row' = ClearToken(a) PROVE RowOK'
<1> DEFINE w == [row[a] EXCEPT !.token = NoToken, !.occ = NoOcc]
<1>1. w \in RowType /\ w.enabled = row[a].enabled /\ w.gen = row[a].gen
  BY DEF RowOK, RowType
<1>2. row' = [row EXCEPT ![a] = w]
  BY DEF ClearToken, RowOK
<1> HIDE DEF w
<1> QED BY <1>1, <1>2, OneRow

LEMMA NextTyped ==
  ASSUME RowOK, NEW a \in Autos, NEW n \in 0..MaxTime + 1, row' = [row EXCEPT ![a].next = n]
  PROVE  RowOK'
  BY DEF RowOK, RowsReal, RowType

LEMMA EditedTyped ==
  ASSUME RowOK, NEW a \in Autos, NEW d \in Defs, NEW del \in BOOLEAN,
         row[a].gen < MaxGen, row' = Edited(a, d, del)
  PROVE  RowOK'
<1>1. row[a].deleted \/ del \in BOOLEAN
  OBVIOUS
<1>2. row[a].gen + 1 \in 0..MaxGen
  BY SchedulerAssumption DEF RowOK, RowType
<1>3. row'[a] \in RowType /\ row'[a].enabled = FALSE
  BY <1>1, <1>2, SchedulerAssumption DEF RowOK, Edited, RowType
<1>4. \A b \in Autos : b # a => row'[b] = row[b]
  BY DEF RowOK, Edited
<1>5. row' \in [Autos -> RowType]
  BY <1>3, <1>4 DEF RowOK, Edited
<1> QED BY <1>3, <1>4, <1>5 DEF RowOK, RowsReal

LEMMA FlipTyped ==
  ASSUME RowOK, NEW a \in Autos, NEW on \in BOOLEAN, NEW n \in 0..MaxTime + 1,
         row[a].gen < MaxGen, row' = EnableFlip(a, on, n)
  PROVE  RowOK'
<1>1. row[a].gen + 1 \in 1..MaxGen
  BY SchedulerAssumption DEF RowOK, RowType
<1>a. row[a] \in RowType /\ row[a].fence \in 0..MaxGen
  BY DEF RowOK, RowType
<1>b. (IF on THEN row[a].fence ELSE row[a].gen + 1) \in 0..MaxGen
  BY <1>1, <1>a
<1>2. row'[a] \in RowType /\ row'[a].gen = row[a].gen + 1
  BY <1>1, <1>a, <1>b, SchedulerAssumption DEF RowOK, EnableFlip, RowType
<1>3. \A b \in Autos : b # a => row'[b] = row[b]
  BY DEF RowOK, EnableFlip
<1>4. row' \in [Autos -> RowType]
  BY <1>2, <1>3 DEF RowOK, EnableFlip
<1> QED BY <1>1, <1>2, <1>3, <1>4 DEF RowOK, RowsReal

LEMMA NextAfterNowType ==
  ASSUME NEW d, NEW t \in 1..MaxTime PROVE NextAfterNow(d, t) \in 0..MaxTime + 1
  BY SchedulerAssumption DEF NextAfterNow

-----------------------------------------------------------------------------
(* The writes to a run.                                                      *)

LEMMA IdleRunType == IdleRun \in RunType /\ IdleRun.pc = "free"
  BY DEF IdleRun, RunType, RunPcs

LEMMA GotoTyped ==
  ASSUME RunOK, NEW r \in Runs, NEW pc \in RunPcs, run[r].pc # "free", Goto(r, pc)
  PROVE  RunOK'
  BY DEF RunOK, RunsReal, Goto, RunType

LEMMA IdleTyped ==
  ASSUME RunOK, NEW r \in Runs, run' = [run EXCEPT ![r] = IdleRun]
  PROVE  RunOK'
  BY IdleRunType DEF RunOK, RunsReal

LEMMA CanceledFields ==
  ASSUME RunOK, NEW rs, NEW r \in Runs
  PROVE  /\ Canceled(rs)[r] \in RunType
         /\ Canceled(rs)[r].pc = run[r].pc /\ Canceled(rs)[r].fire = run[r].fire
         /\ r \notin rs => Canceled(rs)[r] = run[r]
<1>1. (run[r].done \/ run[r].pc \notin Unbound) \in BOOLEAN
  OBVIOUS
<1> QED BY <1>1 DEF RunOK, Canceled, RunType

LEMMA NewRunType ==
  ASSUME NEW f \in Fires, NEW pc \in RunPcs
  PROVE  /\ [IdleRun EXCEPT !.pc = pc, !.fire = f] \in RunType
         /\ [IdleRun EXCEPT !.pc = pc, !.fire = f].fire = f
         /\ [IdleRun EXCEPT !.pc = pc, !.fire = f].pc = pc
         /\ [IdleRun EXCEPT !.pc = pc, !.fire = f].manual = FALSE
  BY DEF IdleRun, RunType, RunPcs

-----------------------------------------------------------------------------
(* The outcomes of beginRun.                                                 *)

LEMMA RegisterTyped ==
  ASSUME MemoryOK, NEW a \in Autos, NEW r \in Runs, Register(a, r), UNCHANGED pending
  PROVE  MemoryOK'
<1>1. active' \in [Autos -> SUBSET Runs]
  BY DEF MemoryOK, Register
<1>a. Owner[a] \in Users
  BY SchedulerAssumption
<1>2. userRuns' \in [Users -> Int]
  BY <1>a DEF MemoryOK, Register
<1>3. runSlots' \in Int
  BY DEF MemoryOK, Register
<1>4. pending' \in [Autos -> Runs \cup {NoRun}]
  BY DEF MemoryOK
<1> QED BY <1>1, <1>2, <1>3, <1>4 DEF MemoryOK

LEMMA FireStartTyped ==
  ASSUME Typed, NEW f \in Fires, NEW r \in Runs, FireStart(f, r)
  PROVE  RowOK' /\ RunOK' /\ MemoryOK' /\ BudgetOK' /\ LedgerOK'
<1>1. MemoryOK'
  BY RegisterTyped, FireFields, TypedParts DEF FireStart
<1> DEFINE new == [IdleRun EXCEPT !.pc = "bind", !.fire = f]
<1>a. new \in RunType /\ new.fire = f
  BY NewRunType DEF RunPcs, Admitted
<1>b. run' = [run EXCEPT ![r] = new]
  BY DEF FireStart
<1> HIDE DEF new
<1>2. RunOK'
  BY <1>a, <1>b, TypedParts DEF RunOK, RunsReal
<1> QED BY <1>1, <1>2, TypedParts DEF FireStart, RowOK, RowsReal, BudgetOK, LedgerOK

LEMMA FireQueueTyped ==
  ASSUME Typed, NEW f \in Fires, NEW r \in Runs, FireQueue(f, r)
  PROVE  RowOK' /\ RunOK' /\ MemoryOK' /\ BudgetOK' /\ LedgerOK'
<1> DEFINE a == f.auto
<1>1. PICK t \in Tokens : row' = Stamp(a, t, f.occ)
         /\ run' = [x \in Runs |->
               IF x = r THEN [IdleRun EXCEPT !.pc = "queued", !.fire = [f EXCEPT !.token = t]]
               ELSE IF x \in (IF pending[a] = NoRun THEN {} ELSE {pending[a]}) THEN IdleRun
               ELSE Canceled(IF f.def.policy = "cancel_previous" THEN active[a] ELSE {})[x]]
  BY DEF FireQueue, FreshTokens
<1>2. RowOK'
  BY <1>1, StampTyped, FireFields, TypedParts
<1>3. [f EXCEPT !.token = t] \in Fires
  BY DEF Fires
<1> DEFINE new == [IdleRun EXCEPT !.pc = "queued", !.fire = [f EXCEPT !.token = t]]
           victims == IF f.def.policy = "cancel_previous" THEN active[a] ELSE {}
<1>q. "queued" \in RunPcs
  BY DEF RunPcs
<1>a. new \in RunType /\ new.fire \in Fires
  BY <1>3, <1>q, NewRunType
<1>b. \A x \in Runs : run'[x] \in {new, IdleRun, Canceled(victims)[x]}
  BY <1>1
<1>c. DOMAIN run' = Runs /\ run' = [x \in Runs |-> run'[x]]
  BY <1>1
<1> HIDE DEF new, victims
<1>4. RunOK'
  <2>1. ASSUME NEW x \in Runs
        PROVE  run'[x] \in RunType /\ (run'[x].pc # "free" => run'[x].fire \in Fires)
    <3>1. Canceled(victims)[x] \in RunType
          /\ (Canceled(victims)[x].pc # "free" => Canceled(victims)[x].fire \in Fires)
      BY CanceledFields, TypedParts DEF RunOK, RunsReal
    <3> QED BY <1>a, <1>b, <3>1, IdleRunType
  <2> QED BY <2>1, <1>c DEF RunOK, RunsReal
<1>5. MemoryOK'
  BY FireFields, TypedParts DEF FireQueue, MemoryOK
<1>6. LedgerOK'
  BY CloseTyped, TypedParts DEF FireQueue
<1> QED BY <1>2, <1>4, <1>5, <1>6, TypedParts DEF FireQueue, BudgetOK

LEMMA FireRefuseTyped ==
  ASSUME Typed, NEW f \in Fires, NEW r \in Runs, FireRefuse(f, r)
  PROVE  RowOK' /\ RunOK' /\ MemoryOK' /\ BudgetOK' /\ LedgerOK'
<1>1. RunOK'
  BY IdleTyped, TypedParts DEF FireRefuse
<1>2. BudgetOK'
  BY SpendTyped, TypedParts DEF FireRefuse, BudgetOK
<1>3. LedgerOK'
  BY CloseTyped, TypedParts DEF FireRefuse
<1> QED BY <1>1, <1>2, <1>3, TypedParts DEF FireRefuse, RowOK, RowsReal, MemoryOK, memory

LEMMA StampFreshTyped ==
  ASSUME Typed, NEW f \in Fires, StampFresh(f)
  PROVE  RowOK' /\ BudgetOK' /\ LedgerOK'
<1>1. LedgerOK'
  BY CloseTyped, TypedParts DEF StampFresh
<1>2. BudgetOK'
  BY SpendTyped, TypedParts DEF StampFresh, BudgetOK
<1>3. RowOK'
  BY StampTyped, FireFields, TypedParts DEF StampFresh, FreshTokens, RowOK, RowsReal
<1> QED BY <1>1, <1>2, <1>3

-----------------------------------------------------------------------------
(* One lemma per group of actions.                                           *)

\* Whatever a step leaves alone stays typed.
LEMMA Unchanged ==
  /\ UNCHANGED row => (RowOK => RowOK')
  /\ UNCHANGED run => (RunOK => RunOK')
  /\ UNCHANGED history => (HistoryOK => HistoryOK')
  /\ UNCHANGED memory => (MemoryOK => MemoryOK')
  /\ UNCHANGED sched => (SchedOK => SchedOK')
  /\ UNCHANGED phase => (PhaseOK => PhaseOK')
  /\ UNCHANGED req => (ReqOK => ReqOK')
  /\ UNCHANGED budget => (BudgetOK => BudgetOK')
  /\ UNCHANGED ledger => (LedgerOK => LedgerOK')
  BY DEF RowOK, RowsReal, RunOK, RunsReal, HistoryOK, MemoryOK, memory, SchedOK,
         SchedReal, PhaseOK, ReqOK, BudgetOK, LedgerOK

\* Moving on to the next row of a scan, with or without a fire in hand.
LEMMA NextRowTyped ==
  ASSUME SchedOK, NEW a \in Autos, sched' = NextRow(a) PROVE SchedOK'
  BY BlankSnapType DEF SchedOK, SchedReal, NextRow

LEMMA NextRowFireTyped ==
  ASSUME SchedOK, NEW a \in Autos, NEW f \in Fires,
         sched' = [NextRow(a) EXCEPT !.pc = "fire", !.fire = f]
  PROVE  SchedOK'
  BY BlankSnapType DEF SchedOK, SchedReal, NextRow

\* A fire made from a listed row is a real one.
LEMMA FireType ==
  ASSUME SchedOK, NEW a \in sched.todo, NEW t \in Tokens \cup {NoToken},
         NEW o \in Occs \cup {NoOcc}
  PROVE  Fire(a, t, o) \in Fires
<1>1. a \in Autos /\ sched.snap[a] \in Snaps /\ sched.snap[a].gen >= 1
  BY DEF SchedOK, SchedReal
<1> QED BY <1>1, SchedulerAssumption DEF Fire, Fires, Snaps

LEMMA SnapFields ==
  ASSUME SchedOK, NEW a \in Autos
  PROVE  /\ sched.snap[a].token \in Tokens \cup {NoToken}
         /\ sched.snap[a].occ \in Occs \cup {NoOcc}
         /\ sched.snap[a].next \in 0..MaxTime + 1
         /\ sched.snap[a].gen \in 0..MaxGen
         /\ sched.at \in 1..MaxTime
  BY DEF SchedOK, Snaps

LEMMA IdleSchedTyped == ASSUME sched' = IdleSched PROVE SchedOK'
  BY BlankSnapType, SchedulerAssumption DEF IdleSched, SchedOK, SchedReal

LEMMA ListTyped ==
  ASSUME RowOK
  PROVE  /\ Schedulable \in SUBSET Autos /\ Snapshot \in [Autos -> Snaps]
         /\ \A a \in Schedulable : Snapshot[a].gen >= 1
<1>1. Schedulable \in SUBSET Autos
  BY DEF Schedulable
<1>2. Snapshot \in [Autos -> Snaps]
  BY BlankSnapType DEF Snapshot, RowOK, RowType, Snaps
<1>3. \A a \in Schedulable : Snapshot[a].gen >= 1
  BY DEF Snapshot, Schedulable, RowOK, RowsReal
<1> QED BY <1>1, <1>2, <1>3

LEMMA SchedulerTyped == ASSUME Typed, Scheduler PROVE Typed'
<1> USE TypedParts, TypedNext, Unchanged
<1>1. CASE TickList
  BY <1>1, ListTyped DEF TickList, durable, SchedOK, SchedReal
<1>2. ASSUME NEW a \in Autos, TickDrain(a) PROVE Typed'
  <2>1. Fire(a, sched.snap[a].token, sched.snap[a].occ) \in Fires
    BY <1>2, FireType, SnapFields DEF TickDrain, AtRow
  <2>2. SchedOK'
    BY <1>2, <2>1, NextRowFireTyped DEF TickDrain
  <2> QED BY <1>2, <2>2 DEF TickDrain, durable
<1>b2. ASSUME NEW a \in Autos, TickBusy(a) PROVE Typed'
  <2>1. SchedOK'
    <3> DEFINE w == [sched.snap[a] EXCEPT !.token = NoToken]
    <3>1. SchedOK /\ sched.snap[a] \in Snaps /\ sched.pc = "scan" /\ a \in sched.todo
      BY <1>b2 DEF SchedOK, TickBusy, AtRow
    <3>2. w \in Snaps /\ w.gen = sched.snap[a].gen
      BY <3>1 DEF Snaps
    <3>3. sched' = [sched EXCEPT !.snap = [sched.snap EXCEPT ![a] = w]]
      BY <1>b2, <3>1 DEF TickBusy, SchedOK
    <3> HIDE DEF w
    <3>4. /\ sched'.pc = sched.pc /\ sched'.todo = sched.todo /\ sched'.at = sched.at
          /\ sched'.fire = sched.fire /\ sched'.snap \in [Autos -> Snaps]
          /\ \A b \in Autos : sched'.snap[b].gen = sched.snap[b].gen
      BY <3>1, <3>2, <3>3 DEF SchedOK
    <3> QED BY <3>1, <3>3, <3>4 DEF SchedOK, SchedReal
  <2> QED BY <1>b2, <2>1 DEF TickBusy, durable
<1>3. ASSUME NEW a \in Autos, BootDrain(a) PROVE Typed'
  <2> DEFINE f == Fire(a, sched.snap[a].token, sched.snap[a].occ)
  <2>1. f \in Fires
    BY <1>3, FireType, SnapFields DEF BootDrain, AtRow
  <2> HIDE DEF f
  <2>2. CASE sched.snap[a].def.trigger = "manual"
    <3>1. SchedOK'
      BY <1>3, <2>2 DEF BootDrain, SchedOK, SchedReal, Snaps
    <3>2. RowOK'
      BY <1>3, <2>2, ClearTyped DEF BootDrain
    <3> QED BY <1>3, <3>1, <3>2 DEF BootDrain
  <2>3. CASE sched.snap[a].def.trigger # "manual"
    <3>1. sched' = [sched EXCEPT !.pc = "fire", !.snap[a].token = NoToken, !.fire = f]
          /\ UNCHANGED row
      BY <1>3, <2>3 DEF BootDrain, f
    <3>2. /\ sched'.pc = "fire" /\ sched'.fire = f /\ sched'.todo = sched.todo
          /\ sched'.snap = [sched.snap EXCEPT ![a].token = NoToken]
          /\ sched' = [pc |-> "fire", todo |-> sched.todo, snap |-> sched'.snap,
                       at |-> sched.at, fire |-> f]
      BY <3>1 DEF SchedOK
    <3>3. /\ sched'.snap \in [Autos -> Snaps]
          /\ \A b \in sched.todo : sched'.snap[b].gen = sched.snap[b].gen
      BY <3>2 DEF SchedOK, Snaps
    <3>4. SchedOK'
      BY <2>1, <3>2, <3>3 DEF SchedOK, SchedReal
    <3> QED BY <1>3, <3>1, <3>4 DEF BootDrain
  <2> QED BY <2>2, <2>3
<1>4. ASSUME NEW a \in Autos, ClaimSlot(a) PROVE Typed'
  <2> DEFINE s == sched.snap[a]
             o == [auto |-> a, gen |-> s.gen, slot |-> s.next]
  <2>1. o \in Occs
    <3>1. s.gen \in 1..MaxGen
      BY <1>4, SnapFields, SchedulerAssumption DEF ClaimSlot, AtSlot, AtRow, SchedOK, SchedReal
    <3>2. s.next \in 1..MaxTime
      BY <1>4, SnapFields, SchedulerAssumption DEF ClaimSlot, Due
    <3> QED BY <3>1, <3>2 DEF Occs
  <2>2. Fire(a, NoToken, o) \in Fires
    BY <1>4, <2>1, FireType DEF ClaimSlot, AtSlot, AtRow
  <2> HIDE DEF o
  <2>3. RowOK'
    BY <1>4, NextTyped, NextAfterNowType, SnapFields DEF ClaimSlot
  <2>4. \/ sched' = NextRow(a) /\ UNCHANGED ledger
        \/ /\ sched' = [NextRow(a) EXCEPT !.pc = "fire", !.fire = Fire(a, NoToken, o)]
           /\ ledger' = [ledger EXCEPT !.open = @ \cup {o}]
    BY <1>4 DEF ClaimSlot, o
  <2>5. SchedOK'
    BY <2>2, <2>4, NextRowTyped, NextRowFireTyped
  <2>6. LedgerOK'
    BY <2>1, <2>4 DEF LedgerOK
  <2> QED BY <1>4, <2>3, <2>5, <2>6 DEF ClaimSlot
<1>5. ASSUME NEW a \in Autos, SkipSlot(a) PROVE Typed'
  <2>1. SchedOK'
    BY <1>5, NextRowTyped DEF SkipSlot
  <2>2. BudgetOK'
    BY <1>5, SpendTyped DEF SkipSlot
  <2> QED BY <1>5, <2>1, <2>2 DEF SkipSlot, durable
<1>6. ASSUME NEW a \in Autos, ClearSlot(a) PROVE Typed'
  <2>1. SchedOK'
    BY <1>6, NextRowTyped DEF ClearSlot
  <2>2. RowOK'
    <3>1. 0 \in 0..MaxTime + 1
      BY SchedulerAssumption
    <3> QED BY <1>6, <3>1, NextTyped DEF ClearSlot
  <2>3. BudgetOK'
    BY <1>6, SpendTyped DEF ClearSlot
  <2> QED BY <1>6, <2>1, <2>2, <2>3 DEF ClearSlot
<1>7. ASSUME NEW a \in Autos, BootSchedule(a) PROVE Typed'
  <2>1. SchedOK'
    BY <1>7, NextRowTyped DEF BootSchedule
  <2>2. RowOK'
    BY <1>7, NextTyped, NextAfterNowType, SnapFields DEF BootSchedule
  <2>3. BudgetOK'
    BY <1>7, SpendTyped DEF BootSchedule
  <2> QED BY <1>7, <2>1, <2>2, <2>3 DEF BootSchedule
<1> DEFINE done == [sched EXCEPT !.pc = "scan", !.fire = NoFire]
<1>a. ASSUME sched' = done PROVE SchedOK'
  BY <1>a DEF SchedOK, SchedReal
<1>b. sched.pc \in {"fire", "stamp"} => sched.fire \in Fires
  BY DEF SchedOK, SchedReal
<1>8. CASE SchedulerFire
  <2>1. SchedOK'
    BY <1>8, <1>a DEF SchedulerFire
  <2>2. PICK r \in Runs : \/ FireStart(sched.fire, r) \/ FireQueue(sched.fire, r)
                          \/ FireRefuse(sched.fire, r)
    BY <1>8 DEF SchedulerFire
  <2>3. sched.fire \in Fires
    BY <1>8, <1>b DEF SchedulerFire
  <2>4. RowOK' /\ RunOK' /\ MemoryOK' /\ BudgetOK' /\ LedgerOK'
    BY <2>2, <2>3, FireStartTyped, FireQueueTyped, FireRefuseTyped
  <2> QED BY <1>8, <2>1, <2>4 DEF SchedulerFire
<1>9. CASE SchedulerCapped
  <2>1. SchedOK'
    BY <1>9, <1>a, <1>b DEF SchedulerCapped, AfterCap, SchedOK, SchedReal
  <2> QED BY <1>9, <2>1 DEF SchedulerCapped, durable
<1>10. CASE SchedulerStamp
  <2>1. SchedOK'
    BY <1>10, <1>a DEF SchedulerStamp
  <2>2. RowOK' /\ BudgetOK' /\ LedgerOK'
    BY <1>10, <1>b, StampFreshTyped DEF SchedulerStamp
  <2> QED BY <1>10, <2>1, <2>2 DEF SchedulerStamp
<1>11. CASE PassDone
  BY <1>11, IdleSchedTyped DEF PassDone, durable, PhaseOK
<1> QED
  BY <1>1, <1>2, <1>b2, <1>3, <1>4, <1>5, <1>6, <1>7, <1>8, <1>9, <1>10, <1>11
     DEF Scheduler

\* The pc values a run goroutine moves to.
LEMMA RunPcsAre ==
  RunPcs = {"record", "bind", "verify", "elig", "consume", "insert", "claim", "engine",
            "running", "restamp", "end", "free", "trigger", "queued", "drain"}
  BY DEF RunPcs, Admitted

LEMMA RunFields ==
  ASSUME RunOK, NEW r \in Runs, run[r].pc # "free"
  PROVE  run[r].fire \in Fires /\ run[r].fire.auto \in Autos
  BY FireFields DEF RunOK, RunsReal

LEMMA FinalizeTyped ==
  ASSUME HistoryOK, NEW r \in Runs,
         NEW st \in {"none", "running", "cancelled", "failed", "success"}, Finalize(r, st)
  PROVE  HistoryOK'
  BY DEF HistoryOK, Finalize

LEMMA ReleaseTyped ==
  ASSUME MemoryOK, NEW a \in Autos, NEW r \in Runs, Release(a, r),
         pending' \in [Autos -> Runs \cup {NoRun}]
  PROVE  MemoryOK'
<1>1. active' \in [Autos -> SUBSET Runs]
  BY DEF MemoryOK, Release
<1>2. Owner[a] \in Users
  BY SchedulerAssumption
<1>3. userRuns' \in [Users -> Int]
  BY <1>2 DEF MemoryOK, Release
<1>4. runSlots' \in Int
  BY DEF MemoryOK, Release
<1> QED BY <1>1, <1>3, <1>4 DEF MemoryOK

LEMMA ExecuteTyped == ASSUME Typed, PendingReal, NEW r \in Runs, Execute(r) PROVE Typed'
<1> USE TypedParts, TypedNext, Unchanged, RunPcsAre
<1>1. CASE Bind(r)
  <2>1. (run[r].canceled \/ StopCtxDone) \in BOOLEAN
    OBVIOUS
  <2>2. RunOK'
    <3> DEFINE w == [run[r] EXCEPT !.pc = "verify", !.done = run[r].canceled \/ StopCtxDone]
    <3>1. RunOK /\ run[r] \in RunType /\ run[r].pc = "bind" /\ run' = [run EXCEPT ![r] = w]
      BY <1>1 DEF RunOK, Bind
    <3>2. w \in RunType /\ w.pc = "verify" /\ w.fire = run[r].fire
      BY <2>1, <3>1 DEF RunType
    <3> HIDE DEF w
    <3> QED BY <3>1, <3>2 DEF RunOK, RunsReal
  <2> QED BY <1>1, <2>2 DEF Bind, durable
<1>2. CASE Verify(r)
  <2>1. RunOK'
    BY <1>2, GotoTyped DEF Verify, Retry
  <2>2. HistoryOK'
    BY <1>2, FinalizeTyped DEF Verify
  <2>3. BudgetOK'
    BY <1>2, SpendTyped DEF Verify
  <2> QED BY <1>2, <2>1, <2>2, <2>3 DEF Verify
<1>3. CASE Eligible(r)
  <2>1. RunOK'
    BY <1>3, GotoTyped DEF Eligible, Retry, AfterChecks
  <2>2. HistoryOK'
    BY <1>3, FinalizeTyped DEF Eligible
  <2>3. BudgetOK'
    BY <1>3, SpendTyped DEF Eligible
  <2>4. LedgerOK'
    BY <1>3, CloseTyped DEF Eligible
  <2> QED BY <1>3, <2>1, <2>2, <2>3, <2>4 DEF Eligible
<1>4. CASE Consume(r)
  <2>1. RunOK'
    BY <1>4, GotoTyped DEF Consume
  <2>2. RowOK'
    BY <1>4, ClearTyped, RunFields DEF Consume
  <2>3. BudgetOK'
    BY <1>4, SpendTyped DEF Consume
  <2> QED BY <1>4, <2>1, <2>2, <2>3 DEF Consume
<1>5. CASE InsertRow(r)
  <2>1. RunOK'
    BY <1>5, GotoTyped DEF InsertRow, Retry
  <2>2. HistoryOK'
    BY <1>5, FinalizeTyped DEF InsertRow
  <2>3. BudgetOK'
    BY <1>5, SpendTyped DEF InsertRow
  <2> QED BY <1>5, <2>1, <2>2, <2>3 DEF InsertRow
<1>6. CASE ClaimToken(r)
  <2>1. RunOK'
    BY <1>6, GotoTyped DEF ClaimToken
  <2>2. HistoryOK'
    BY <1>6, FinalizeTyped DEF ClaimToken
  <2>3. RowOK'
    BY <1>6, ClearTyped, RunFields DEF ClaimToken
  <2>4. BudgetOK'
    BY <1>6, SpendTyped DEF ClaimToken
  <2> QED BY <1>6, <2>1, <2>2, <2>3, <2>4 DEF ClaimToken
<1>7. CASE StartEngine(r)
  <2>1. RunOK'
    BY <1>7, GotoTyped DEF StartEngine
  <2>2. HistoryOK'
    BY <1>7, FinalizeTyped DEF StartEngine
  <2>3. BudgetOK'
    BY <1>7, SpendTyped DEF StartEngine
  <2>4. run[r].fire.occ \in Occs \cup {NoOcc}
    BY <1>7, RunFields, FireFields DEF StartEngine
  <2>5. LedgerOK'
    BY <1>7, <2>4, CloseTyped DEF StartEngine, LedgerOK
  <2> QED BY <1>7, <2>1, <2>2, <2>3, <2>5 DEF StartEngine
<1>8. CASE Finish(r)
  <2>1. RunOK'
    BY <1>8, GotoTyped DEF Finish
  <2>2. HistoryOK'
    BY <1>8, FinalizeTyped DEF Finish
  <2>3. BudgetOK'
    BY <1>8, SpendTyped DEF Finish
  <2> QED BY <1>8, <2>1, <2>2, <2>3 DEF Finish
<1>9. CASE Restamp(r)
  <2>1. RunOK'
    BY <1>9, GotoTyped DEF Restamp
  <2>2. RowOK' /\ BudgetOK' /\ LedgerOK'
    BY <1>9, StampFreshTyped, RunFields DEF Restamp
  <2> QED BY <1>9, <2>1, <2>2 DEF Restamp
<1>10. CASE EndRun(r)
  <2> DEFINE a == run[r].fire.auto
  <2>1. a \in Autos
    BY <1>10, RunFields DEF EndRun
  <2>2. MemoryOK'
    <3>1. Release(a, r)
      BY <1>10 DEF EndRun
    <3>2. pending' = pending \/ pending' = [pending EXCEPT ![a] = NoRun]
      BY <1>10 DEF EndRun
    <3>3. pending' \in [Autos -> Runs \cup {NoRun}]
      BY <2>1, <3>2 DEF MemoryOK
    <3> HIDE DEF a
    <3> QED BY <2>1, <3>1, <3>3, ReleaseTyped
  <2>3. RunOK'
    <3>1. ASSUME NEW x \in Runs
          PROVE  \/ run'[x] = IdleRun \/ run'[x] = run[x]
                 \/ /\ run'[x] = [run[x] EXCEPT !.pc = "drain"]
                    /\ x = pending[a] /\ pending[a] # NoRun
      BY <1>10 DEF EndRun
    <3>2. ASSUME NEW x \in Runs
          PROVE  run'[x] \in RunType /\ (run'[x].pc # "free" => run'[x].fire \in Fires)
      <4>1. CASE run'[x] = IdleRun
        BY <4>1, IdleRunType
      <4>2. CASE run'[x] = run[x]
        BY <4>2 DEF RunOK, RunsReal
      <4>3. CASE /\ run'[x] = [run[x] EXCEPT !.pc = "drain"]
                 /\ x = pending[a] /\ pending[a] # NoRun
        <5>1. run[x].fire \in Fires
          BY <2>1, <4>3, RunFields DEF PendingReal
        <5> QED BY <4>3, <5>1 DEF RunOK, RunType
      <4> QED BY <3>1, <4>1, <4>2, <4>3
    <3>3. run' = [x \in Runs |-> run'[x]]
      BY <1>10 DEF EndRun
    <3> QED BY <3>2, <3>3 DEF RunOK, RunsReal
  <2>4. HistoryOK'
    BY <1>10 DEF EndRun, HistoryOK
  <2> QED BY <1>10, <2>2, <2>3, <2>4 DEF EndRun
<1>11. CASE DrainPending(r)
  <2> DEFINE f == [run[r].fire EXCEPT !.def = row[run[r].fire.auto].def]
  <2>1. f \in Fires
    <3>1. run[r].fire \in Fires /\ run[r].fire.auto \in Autos
      BY <1>11, RunFields DEF DrainPending
    <3>2. row[run[r].fire.auto].def \in Defs
      BY <3>1 DEF RowOK, RowType
    <3> QED BY <3>1, <3>2 DEF Fires
  <2>2. \/ FireStart(f, r) \/ FireQueue(f, r) \/ FireRefuse(f, r)
        \/ /\ run' = [run EXCEPT ![r] = IdleRun] /\ UNCHANGED <<row, memory, ledger>>
           /\ UNCHANGED budget \/ Spend("fault")
    BY <1>11 DEF DrainPending
  <2> HIDE DEF f
  <2>3. RowOK' /\ RunOK' /\ MemoryOK' /\ BudgetOK' /\ LedgerOK'
    BY <2>1, <2>2, FireStartTyped, FireQueueTyped, FireRefuseTyped, IdleTyped, SpendTyped
  <2> QED BY <1>11, <2>3 DEF DrainPending
<1> QED
  BY <1>1, <1>2, <1>3, <1>4, <1>5, <1>6, <1>7, <1>8, <1>9, <1>10, <1>11 DEF Execute

\* The record of a handler.
LEMMA ReqTyped ==
  ASSUME ReqOK, NEW h \in Handlers, NEW q \in ReqType, req' = [req EXCEPT ![h] = q]
  PROVE  ReqOK'
  BY DEF ReqOK

LEMMA HandlerTyped == ASSUME Typed, HandlerStep PROVE Typed'
<1> USE TypedParts, TypedNext, Unchanged, RunPcsAre
<1>0. IdleReq \in ReqType /\ \A a \in Autos : [pc |-> "cancel", auto |-> a] \in ReqType
  BY DEF ReqType
<1>1. ASSUME NEW h \in Handlers, CommitFlip(h) PROVE Typed'
  <2> DEFINE q == req[h]
  <2>1. q \in [pc : {"flip"}, auto : Autos, on : BOOLEAN, gen : 1..MaxGen,
                 capped : BOOLEAN, next : 0..MaxTime + 1]
    BY <1>1 DEF CommitFlip, ReqOK, ReqType, IdleReq
  <2>2. q.auto \in Autos /\ q.on \in BOOLEAN /\ q.next \in 0..MaxTime + 1
    BY <2>1
  <2>3. ReqOK'
    BY <1>1, <1>0, <2>2, ReqTyped DEF CommitFlip
  <2>4. RowOK'
    <3>1. CASE FlipMatches(q)
      <4>1. row[q.auto].gen < MaxGen /\ row' = EnableFlip(q.auto, q.on, q.next)
        BY <1>1, <3>1 DEF CommitFlip, FlipMatches
      <4> HIDE DEF q
      <4> QED BY <2>2, <4>1, FlipTyped
    <3>2. CASE ~FlipMatches(q)
      BY <1>1, <3>2 DEF CommitFlip
    <3> QED BY <3>1, <3>2
  <2> QED BY <1>1, <2>3, <2>4 DEF CommitFlip
<1>2. ASSUME NEW h \in Handlers, CancelAutomation(h) PROVE Typed'
  <2>1. ReqOK'
    BY <1>2, <1>0, ReqTyped DEF CancelAutomation
  <2>2. MemoryOK'
    BY <1>2 DEF CancelAutomation, MemoryOK
  <2>3. RunOK'
    <3> DEFINE a == req[h].auto
    <3>1. ASSUME NEW r \in Runs
          PROVE  run'[r] \in RunType /\ (run'[r].pc # "free" => run'[r].fire \in Fires)
      <4>1. run'[r] = IdleRun \/ run'[r] = Canceled(active[a])[r]
        BY <1>2 DEF CancelAutomation
      <4>2. Canceled(active[a])[r] \in RunType
            /\ (Canceled(active[a])[r].pc # "free" => Canceled(active[a])[r].fire \in Fires)
        BY CanceledFields DEF RunOK, RunsReal
      <4> QED BY <4>1, <4>2, IdleRunType
    <3>2. run' = [r \in Runs |-> run'[r]]
      BY <1>2 DEF CancelAutomation
    <3> QED BY <3>1, <3>2 DEF RunOK, RunsReal
  <2> QED BY <1>2, <2>1, <2>2, <2>3 DEF CancelAutomation, durable
<1>3. ASSUME NEW r \in Runs, TriggerBegin(r) PROVE Typed'
  <2>1. RunOK'
    BY <1>3, GotoTyped, IdleTyped DEF TriggerBegin
  <2>2. MemoryOK'
    <3>1. CASE Register(run[r].fire.auto, r)
      BY <1>3, <3>1, RunFields, RegisterTyped DEF TriggerBegin
    <3>2. CASE UNCHANGED <<active, userRuns, runSlots>>
      BY <1>3, <3>2 DEF TriggerBegin, MemoryOK
    <3> QED BY <1>3, <3>1, <3>2 DEF TriggerBegin
  <2> QED BY <1>3, <2>1, <2>2 DEF TriggerBegin, durable
<1>4. ASSUME NEW r \in Runs, TriggerRecord(r) PROVE Typed'
  <2>1. RunOK'
    BY <1>4, GotoTyped DEF TriggerRecord
  <2>2. HistoryOK'
    BY <1>4, FinalizeTyped DEF TriggerRecord
  <2>3. BudgetOK'
    BY <1>4, SpendTyped DEF TriggerRecord
  <2> QED BY <1>4, <2>1, <2>2, <2>3 DEF TriggerRecord
<1> QED BY <1>1, <1>2, <1>3, <1>4 DEF HandlerStep

LEMMA RequestTyped == ASSUME Typed, UserRequest PROVE Typed'
<1> USE TypedParts, TypedNext, Unchanged, RunPcsAre
<1>0. ASSUME NEW a \in Autos, Editable(a) PROVE row[a].gen \in 1..MaxGen
  BY <1>0 DEF Editable, RowOK, RowType
<1>1. ASSUME NEW a \in Autos, NEW d \in Defs, Create(a, d) PROVE Typed'
  <2>1. 0 \in 0..MaxTime + 1 /\ 1 \in 0..MaxGen
    BY SchedulerAssumption
  <2>2. NewRow(d) \in RowType /\ NewRow(d).enabled = FALSE
    BY <2>1 DEF NewRow, RowType
  <2>3. RowOK'
    BY <1>1, <2>2 DEF Create, RowOK, RowsReal
  <2> QED BY <1>1, <2>3 DEF Create
<1>2. ASSUME NEW a \in Autos, Trigger(a) PROVE Typed'
  <2> DEFINE f == [auto |-> a, gen |-> row[a].gen, token |-> NoToken,
                   occ |-> NoOcc, def |-> row[a].def]
             new == [IdleRun EXCEPT !.pc = "trigger", !.manual = TRUE, !.fire = f]
  <2>1. f \in Fires
    BY <1>2, <1>0 DEF Trigger, Fires, RowOK, RowType
  <2>2. PICK r \in Runs : run' = [run EXCEPT ![r] = new]
    BY <1>2 DEF Trigger
  <2> HIDE DEF f
  <2>3. new \in RunType /\ new.fire = f
    BY <2>1 DEF RunType, IdleRun
  <2> HIDE DEF new
  <2>4. RunOK'
    BY <2>1, <2>2, <2>3 DEF RunOK, RunsReal
  <2>5. BudgetOK'
    BY <1>2, SpendTyped DEF Trigger
  <2> QED BY <1>2, <2>4, <2>5 DEF Trigger, durable
<1>3. ASSUME NEW a \in Autos, NEW h \in Handlers PROVE [pc |-> "cancel", auto |-> a] \in ReqType
  BY DEF ReqType
<1>4. ASSUME NEW a \in Autos, NEW h \in Handlers, NEW d \in Defs, Update(h, a, d) PROVE Typed'
  <2>1. RowOK'
    BY <1>4, EditedTyped DEF Update
  <2>2. ReqOK'
    BY <1>4, <1>3, ReqTyped DEF Update
  <2> QED BY <1>4, <2>1, <2>2 DEF Update
<1>5. ASSUME NEW a \in Autos, NEW h \in Handlers, Delete(h, a) PROVE Typed'
  <2>1. row[a].def \in Defs
    BY DEF RowOK, RowType
  <2>2. RowOK'
    BY <1>5, <2>1, EditedTyped DEF Delete
  <2>3. ReqOK'
    BY <1>5, <1>3, ReqTyped DEF Delete
  <2> QED BY <1>5, <2>2, <2>3 DEF Delete
<1>6. ASSUME NEW a \in Autos, NEW h \in Handlers, NEW on \in BOOLEAN, ReadFlip(h, a, on)
      PROVE  Typed'
  <2> DEFINE fresh == on /\ ~row[a].enabled /\ MaxEnabledPerUser > 0
             next == IF on THEN NextAfterNow(row[a].def, now) ELSE 0
             q == [pc |-> "flip", auto |-> a, on |-> on, gen |-> row[a].gen,
                   capped |-> fresh, next |-> next]
  <2>1. fresh \in BOOLEAN
    OBVIOUS
  <2>2. next \in 0..MaxTime + 1
    BY NextAfterNowType, SchedulerAssumption
  <2>3. row[a].gen \in 1..MaxGen
    BY <1>6, <1>0 DEF ReadFlip
  <2>4. req' = [req EXCEPT ![h] = q]
    BY <1>6 DEF ReadFlip
  <2> HIDE DEF fresh, next
  <2>5. q \in ReqType
    BY <2>1, <2>2, <2>3 DEF ReqType
  <2>6. ReqOK'
    BY <2>4, <2>5, ReqTyped
  <2> QED BY <1>6, <2>6 DEF ReadFlip, durable
<1> QED BY <1>1, <1>2, <1>4, <1>5, <1>6 DEF UserRequest

LEMMA ProcessTyped ==
  ASSUME Typed, ClockTick \/ Start \/ Signal \/ Stop \/ StopReturns \/ Exit PROVE Typed'
<1> USE TypedParts, TypedNext, Unchanged
<1>1. CASE ClockTick
  BY <1>1, SchedulerAssumption DEF ClockTick, durable
<1>2. CASE Start
  <2>1. SchedOK'
    BY <1>2, ListTyped, BlankSnapType DEF Start, Listed, SchedOK, SchedReal
  <2>2. HistoryOK'
    BY <1>2 DEF Start, HistoryOK, Interrupted
  <2>3. BudgetOK'
    BY <1>2, SpendTyped DEF Start
  <2> QED BY <1>2, <2>1, <2>2, <2>3 DEF Start, PhaseOK
<1>3. CASE Signal
  <2>1. ASSUME NEW r \in Runs
        PROVE  run'[r] \in RunType /\ (run'[r].pc # "free" => run'[r].fire \in Fires)
    BY <1>3 DEF Signal, RunOK, RunsReal, RunType
  <2>2. RunOK'
    BY <1>3, <2>1 DEF Signal, RunOK, RunsReal
  <2> QED BY <1>3, <2>2 DEF Signal, durable, PhaseOK
<1>4. CASE Stop
  <2> DEFINE all == UNION {active[a] : a \in Autos}
  <2>0. run' = Canceled(all)
    BY <1>4 DEF Stop
  <2> HIDE DEF all
  <2>1. ASSUME NEW r \in Runs
        PROVE  run'[r] \in RunType /\ (run'[r].pc # "free" => run'[r].fire \in Fires)
    BY <2>0, CanceledFields DEF RunOK, RunsReal
  <2>2. DOMAIN run' = Runs /\ run' = [r \in Runs |-> run'[r]]
    BY <2>0 DEF Canceled
  <2>3. RunOK'
    BY <2>1, <2>2 DEF RunOK, RunsReal
  <2> QED BY <1>4, <2>3 DEF Stop, durable, PhaseOK
<1>5. CASE StopReturns
  BY <1>5 DEF StopReturns, durable, PhaseOK
<1>6. CASE Exit
  <2>1. MemoryOK'
    BY <1>6 DEF Exit, MemoryOK
  <2>2. RunOK'
    BY <1>6, IdleRunType DEF Exit, RunOK, RunsReal
  <2>3. HistoryOK'
    BY <1>6 DEF Exit, HistoryOK
  <2>4. SchedOK'
    BY <1>6, IdleSchedTyped DEF Exit
  <2>5. ReqOK'
    BY <1>6 DEF Exit, ReqOK, ReqType
  <2>6. LedgerOK'
    BY <1>6 DEF Exit, LedgerOK
  <2>7. BudgetOK'
    BY <1>6, SpendTyped DEF Exit
  <2>8. PhaseOK' /\ RowOK' /\ now' \in 1..MaxTime
    BY <1>6 DEF Exit, PhaseOK
  <2> QED BY <2>1, <2>2, <2>3, <2>4, <2>5, <2>6, <2>7, <2>8
<1> QED BY <1>1, <1>2, <1>3, <1>4, <1>5, <1>6

LEMMA InitTyped == Init => Typed
<1> SUFFICES ASSUME Init PROVE Typed
  OBVIOUS
<1> USE SchedulerAssumption
<1>1. (CHOOSE d \in Defs : TRUE) \in Defs
  OBVIOUS
<1>2. RowOK
  <2> DEFINE r0 == [NewRow(CHOOSE d \in Defs : TRUE) EXCEPT !.gen = 0, !.fence = 0]
  <2>1. 0 \in 0..MaxTime + 1 /\ 0 \in 0..MaxGen
    OBVIOUS
  <2>2. r0 \in RowType /\ r0.enabled = FALSE
    BY <1>1, <2>1 DEF NewRow, RowType
  <2>3. row = [a \in Autos |-> r0]
    BY DEF Init
  <2> HIDE DEF r0
  <2> QED BY <2>2, <2>3 DEF RowOK, RowsReal
<1>3. RunOK
  BY IdleRunType DEF Init, RunOK, RunsReal
<1>4. SchedOK
  <2>1. 1 \in 1..MaxTime
    OBVIOUS
  <2> QED BY <2>1, BlankSnapType DEF Init, IdleSched, SchedOK, SchedReal
<1>5. ReqOK
  BY DEF Init, ReqOK, ReqType
<1>6. MemoryOK
  <2>1. active \in [Autos -> SUBSET Runs] /\ pending \in [Autos -> Runs \cup {NoRun}]
    BY DEF Init
  <2>0. 0 \in Int
    OBVIOUS
  <2>2. userRuns \in [Users -> Int] /\ runSlots \in Int
    BY ONLY <2>0, Init, Zenon DEF Init
  <2> QED BY <2>1, <2>2 DEF MemoryOK
<1>7. HistoryOK /\ PhaseOK /\ LedgerOK
  BY DEF Init, HistoryOK, PhaseOK, LedgerOK
<1>8. {MaxTriggers, MaxFaults, MaxCrashes} \subseteq Nat /\ 1 \in 1..MaxTime
  OBVIOUS
<1>9. BudgetOK /\ now \in 1..MaxTime
  BY <1>8 DEF Init, BudgetOK
<1> QED BY <1>2, <1>3, <1>4, <1>5, <1>6, <1>7, <1>9, TypedParts

-----------------------------------------------------------------------------
(* The inductive invariant.                                                  *)

\* Service.active holds exactly the runs between beginRun and endRun.
ActiveExact == \A a \in Autos : \A r \in Runs :
  r \in active[a] <=> run[r].pc \in Admitted /\ run[r].fire.auto = a

\* No goroutine outlives the process.
NoneWhenDown == phase = "down" => \A r \in Runs : run[r].pc = "free"

\* The generation below which runs are stale is never ahead of the row.
FenceReached == \A a \in Autos : row[a].fence <= row[a].gen

\* A manual run has its record from TriggerRecord on, a scheduled one from
\* InsertRow on.
Recorded(r) ==
  \/ run[r].pc \in {"claim", "engine", "running"}
  \/ run[r].manual /\ run[r].pc \in {"bind", "verify", "elig"}
  => history[r] = "running"

CancelDue(a) == \E h \in Handlers : req[h].pc = "cancel" /\ req[h].auto = a
Fresh(r) == LET a == run[r].fire.auto IN
  run[r].pc \in PastChecks /\ ~run[r].done /\ run[r].fire.gen < row[a].fence => CancelDue(a)

Safe == /\ PendingReal /\ ActiveExact /\ NoneWhenDown /\ FenceReached
        /\ \A r \in Runs : Recorded(r)
        /\ \A r \in Runs : Fresh(r)

IInv == Typed /\ Safe

LEMMA PcSets ==
  /\ PastChecks \subseteq Admitted /\ "queued" \notin Admitted /\ "drain" \notin Admitted
  /\ "free" \notin Admitted /\ "trigger" \notin Admitted
  /\ {"bind", "verify", "elig", "claim", "engine", "running"} \subseteq Admitted
  /\ Unbound \cap PastChecks = {}
  BY DEF PastChecks, Admitted, Unbound

\* What a run means to Safe, and what a step of another actor leaves of it.
Kept(x) == /\ run'[x].pc = run[x].pc /\ run'[x].fire = run[x].fire
           /\ run'[x].manual = run[x].manual /\ (run[x].done => run'[x].done)
           /\ history'[x] = history[x]

\* No generation moves and no pending cancellation is carried out.
RowsKept == \A a \in Autos : row'[a].gen = row[a].gen /\ row'[a].fence = row[a].fence
DuesKept == \A h \in Handlers : req[h].pc = "cancel" => req'[h] = req[h]

LEMMA KeptSafe ==
  ASSUME IInv, RowsKept, DuesKept, NEW x \in Runs, Kept(x)
  PROVE  Recorded(x)' /\ Fresh(x)'
<1>1. Recorded(x)'
  BY DEF IInv, Safe, Recorded, Kept
<1>2. run[x].pc \in PastChecks => run[x].fire.auto \in Autos
  BY RunFields, PcSets, TypedParts DEF IInv
<1>3. Fresh(x)'
  BY <1>2 DEF IInv, Safe, Fresh, Kept, RowsKept, DuesKept, CancelDue
<1> QED BY <1>1, <1>3

-----------------------------------------------------------------------------
(* Shapes of steps.                                                          *)

\* A step that touches no run.
LEMMA CalmSafe ==
  ASSUME IInv, RowsKept, DuesKept, UNCHANGED <<run, history, active, pending>>,
         phase' = "down" => phase = "down"
  PROVE  Safe'
<1>1. \A x \in Runs : Recorded(x)' /\ Fresh(x)'
  BY KeptSafe DEF Kept
<1>2. PendingReal' /\ ActiveExact' /\ NoneWhenDown' /\ FenceReached'
  BY DEF IInv, Safe, PendingReal, ActiveExact, NoneWhenDown, FenceReached, RowsKept
<1> QED BY <1>1, <1>2 DEF Safe

\* A step of one run that neither registers nor releases it.
LEMMA MoveSafe ==
  ASSUME IInv, RowsKept, DuesKept, UNCHANGED <<active, pending>>,
         NEW r \in Runs, \A x \in Runs \ {r} : Kept(x),
         run[r].pc # "queued", phase' = "down" => phase = "down" /\ run'[r].pc = "free",
         run[r].pc \in Admitted <=> run'[r].pc \in Admitted,
         run[r].pc \in Admitted => run'[r].fire = run[r].fire,
         Recorded(r)', Fresh(r)'
  PROVE  Safe'
<1>1. \A x \in Runs : Recorded(x)' /\ Fresh(x)'
  BY KeptSafe
<1>2. PendingReal'
  <2>1. ASSUME NEW a \in Autos, pending[a] # NoRun
        PROVE  run'[pending[a]].pc = "queued" /\ run'[pending[a]].fire.auto = a
    BY <2>1, TypedParts DEF IInv, Safe, PendingReal, Kept, MemoryOK
  <2> QED BY <2>1 DEF PendingReal
<1>3. ActiveExact'
  BY DEF IInv, Safe, ActiveExact, Kept
<1>4. NoneWhenDown'
  BY DEF IInv, Safe, NoneWhenDown, Kept
<1>5. FenceReached'
  BY DEF IInv, Safe, FenceReached, RowsKept
<1> QED BY <1>1, <1>2, <1>3, <1>4, <1>5 DEF Safe

\* A goroutine of an admitted run goes on to another place it is admitted at.
LEMMA GotoSafe ==
  ASSUME IInv, RowsKept, NEW r \in Runs, NEW pc \in Admitted, run[r].pc \in Admitted,
         Goto(r, pc), UNCHANGED <<active, pending, phase, req>>,
         \A x \in Runs \ {r} : history'[x] = history[x], Recorded(r)',
         pc \in PastChecks => run[r].pc \in PastChecks \/ VerifyPasses(r)
  PROVE  Safe'
<1>1. /\ run'[r] = [run[r] EXCEPT !.pc = pc]
      /\ \A x \in Runs \ {r} : run'[x] = run[x]
  BY TypedParts DEF IInv, Goto, RunOK
<1>2. run'[r].pc = pc /\ run'[r].fire = run[r].fire /\ run'[r].done = run[r].done
  BY <1>1, TypedParts DEF IInv, RunOK, RunType
<1>3. \A x \in Runs \ {r} : Kept(x)
  BY <1>1 DEF Kept
<1>4. phase # "down"
  BY PcSets DEF IInv, Safe, NoneWhenDown
<1>5. run[r].fire.auto \in Autos /\ run[r].fire.gen \in 1..MaxGen
  BY PcSets, RunFields, FireFields, TypedParts DEF IInv
<1>6. Fresh(r)'
  <2>1. CASE run[r].pc \in PastChecks
    BY <1>2, <1>5, <2>1 DEF IInv, Safe, Fresh, CancelDue, RowsKept
  <2>2. CASE pc \in PastChecks /\ VerifyPasses(r)
    <3>1. row[run[r].fire.auto].fence <= run[r].fire.gen
      BY <1>5, <2>2 DEF VerifyPasses, IInv, Safe, FenceReached
    <3>a. row[run[r].fire.auto] \in RowType
      BY <1>5, TypedParts DEF IInv, RowOK
    <3>2. row[run[r].fire.auto].fence \in 0..MaxGen /\ run[r].fire.gen \in 0..MaxGen
      BY <1>5, <3>a DEF RowType
    <3> QED BY <1>2, <1>5, <3>1, <3>2 DEF Fresh, RowsKept
  <2>3. CASE pc \notin PastChecks
    BY <1>2, <2>3 DEF Fresh
  <2> QED BY <2>1, <2>2, <2>3
<1>7. DuesKept
  BY DEF DuesKept
<1>8. run[r].pc # "queued"
  BY PcSets
<1> QED BY <1>2, <1>3, <1>4, <1>6, <1>7, <1>8, MoveSafe

\* A run leaves without ever having been admitted.
LEMMA DropSafe ==
  ASSUME IInv, RowsKept, NEW r \in Runs, run[r].pc \notin Admitted \cup {"queued"},
         run' = [run EXCEPT ![r] = IdleRun],
         UNCHANGED <<history, active, pending, phase, req>>
  PROVE  Safe'
<1>1. run'[r] = IdleRun /\ \A x \in Runs \ {r} : run'[x] = run[x]
  BY TypedParts DEF IInv, RunOK
<1>2. run'[r].pc = "free" /\ run'[r].manual = FALSE
  BY <1>1 DEF IdleRun
<1>3. \A x \in Runs \ {r} : Kept(x)
  BY <1>1 DEF Kept
<1>4. Recorded(r)' /\ Fresh(r)'
  BY <1>2, PcSets DEF Recorded, Fresh
<1>5. DuesKept /\ (phase' = "down" => phase = "down")
  BY DEF DuesKept
<1>6. run'[r].pc \notin Admitted
  BY <1>2, PcSets
<1> QED BY <1>2, <1>3, <1>4, <1>5, <1>6, MoveSafe

\* beginRun admits a run that has not been admitted yet.
LEMMA AdmitSafe ==
  ASSUME IInv, RowsKept, UNCHANGED <<history, pending, phase, req>>, phase # "down",
         NEW r \in Runs, NEW a \in Autos, Register(a, r),
         run[r].pc \notin Admitted \cup {"queued"}, run'[r].pc \in {"record", "bind"},
         run'[r].fire.auto = a, run'[r].manual => run'[r].pc = "record",
         \A x \in Runs \ {r} : run'[x] = run[x]
  PROVE  Safe'
<1>1. \A x \in Runs \ {r} : Kept(x)
  BY DEF Kept
<1>2. DuesKept
  BY DEF DuesKept
<1>3. Recorded(r)' /\ Fresh(r)'
  BY DEF Recorded, Fresh, PastChecks
<1>4. \A x \in Runs : Recorded(x)' /\ Fresh(x)'
  BY <1>1, <1>2, <1>3, KeptSafe
<1>5. PendingReal'
  <2>1. ASSUME NEW b \in Autos, pending[b] # NoRun
        PROVE  run'[pending[b]].pc = "queued" /\ run'[pending[b]].fire.auto = b
    BY <2>1, TypedParts DEF IInv, Safe, PendingReal, MemoryOK
  <2> QED BY <2>1 DEF PendingReal
<1>6. ActiveExact'
  <2>1. active' = [active EXCEPT ![a] = @ \cup {r}]
    BY DEF Register
  <2>2. \A b \in Autos : active'[b] = IF b = a THEN active[a] \cup {r} ELSE active[b]
    BY <2>1, TypedParts DEF IInv, MemoryOK
  <2>3. run'[r].pc \in Admitted
    BY DEF Admitted
  <2> QED BY <2>2, <2>3 DEF IInv, Safe, ActiveExact
<1>7. NoneWhenDown' /\ FenceReached'
  BY DEF IInv, Safe, NoneWhenDown, FenceReached, RowsKept
<1> QED BY <1>4, <1>5, <1>6, <1>7 DEF Safe

\* Canceled changes what Kept allows and nothing else.
LEMMA CanceledKept ==
  ASSUME IInv, NEW rs, NEW x \in Runs
  PROVE  LET c == Canceled(rs)[x] IN
         /\ c.pc = run[x].pc /\ c.fire = run[x].fire /\ c.manual = run[x].manual
         /\ run[x].done => c.done
         /\ x \in rs /\ run[x].pc \notin Unbound => c.done
<1>1. run[x] \in RunType
  BY TypedParts DEF IInv, RunOK
<1> QED BY <1>1 DEF Canceled, RunType

-----------------------------------------------------------------------------
(* The outcomes of beginRun.                                                 *)

LEMMA StampKept ==
  ASSUME IInv, NEW a \in Autos, NEW t, NEW o, row' = Stamp(a, t, o)
  PROVE  RowsKept
  BY TypedParts DEF IInv, RowOK, RowType, Stamp, RowsKept

LEMMA ClearKept ==
  ASSUME IInv, NEW a \in Autos, row' = ClearToken(a) \/ row' = row
  PROVE  RowsKept
  BY TypedParts DEF IInv, RowOK, RowType, ClearToken, RowsKept

LEMMA StampFreshKept ==
  ASSUME IInv, NEW f \in Fires, StampFresh(f) PROVE RowsKept
  BY StampKept, FireFields DEF StampFresh, RowsKept

LEMMA FireStartSafe ==
  ASSUME IInv, NEW f \in Fires, NEW r \in Runs, run[r].pc \in {"free", "drain"},
         FireStart(f, r), UNCHANGED <<history, phase, req>>
  PROVE  Safe'
<1>1. f.auto \in Autos /\ RowsKept
  BY FireFields DEF FireStart, RowsKept
<1>2. /\ run'[r] = [IdleRun EXCEPT !.pc = "bind", !.fire = f]
      /\ \A x \in Runs \ {r} : run'[x] = run[x]
  BY TypedParts DEF IInv, RunOK, FireStart
<1>3. run'[r].pc = "bind" /\ run'[r].fire = f /\ run'[r].manual = FALSE
  BY <1>2 DEF IdleRun
<1>4. run[r].pc \notin Admitted \cup {"queued"}
  BY PcSets
<1>5. Register(f.auto, r) /\ phase # "down" /\ UNCHANGED pending
  BY DEF FireStart, Started
<1> QED BY <1>1, <1>2, <1>3, <1>4, <1>5, AdmitSafe

LEMMA FireRefuseSafe ==
  ASSUME IInv, NEW f \in Fires, NEW r \in Runs, run[r].pc \in {"free", "drain"},
         FireRefuse(f, r), UNCHANGED <<history, phase, req>>
  PROVE  Safe'
<1>1. RowsKept /\ run[r].pc \notin Admitted \cup {"queued"}
  BY PcSets DEF FireRefuse, RowsKept
<1> QED BY <1>1, DropSafe DEF FireRefuse, memory

LEMMA FireQueueSafe ==
  ASSUME IInv, NEW f \in Fires, NEW r \in Runs, run[r].pc \in {"free", "drain"},
         FireQueue(f, r), UNCHANGED <<history, phase, req>>
  PROVE  Safe'
<1> DEFINE a == f.auto
           victims == IF f.def.policy = "cancel_previous" THEN active[a] ELSE {}
<1>0. a \in Autos /\ DuesKept
  BY FireFields DEF DuesKept
<1>1. PICK t \in Tokens : row' = Stamp(a, t, f.occ)
         /\ run' = [x \in Runs |->
               IF x = r THEN [IdleRun EXCEPT !.pc = "queued", !.fire = [f EXCEPT !.token = t]]
               ELSE IF x \in (IF pending[a] = NoRun THEN {} ELSE {pending[a]}) THEN IdleRun
               ELSE Canceled(victims)[x]]
  BY DEF FireQueue, FreshTokens
<1>2. RowsKept
  BY <1>0, <1>1, StampKept
<1>3. run'[r].pc = "queued" /\ run'[r].fire.auto = a
  BY <1>1 DEF IdleRun, Fires
<1> HIDE DEF victims
<1>4. \A x \in Runs \ {r} :
        \/ pending[a] # NoRun /\ x = pending[a] /\ run'[x] = IdleRun
        \/ (pending[a] # NoRun => x # pending[a]) /\ run'[x] = Canceled(victims)[x]
  BY <1>1
<1>5. \A x \in Runs \ {r} : (pending[a] # NoRun => x # pending[a]) => Kept(x)
  BY <1>4, CanceledKept DEF Kept
<1>6. \A x \in Runs \ {r} : pending[a] # NoRun /\ x = pending[a] =>
        run[x].pc = "queued" /\ run'[x].pc = "free" /\ run'[x].manual = FALSE
  BY <1>0, <1>4 DEF IdleRun, IInv, Safe, PendingReal
<1>7. ASSUME NEW x \in Runs PROVE Recorded(x)' /\ Fresh(x)'
  <2>1. CASE x # r /\ (pending[a] # NoRun => x # pending[a])
    BY <1>0, <1>2, <1>5, <2>1, KeptSafe
  <2>2. CASE run'[x].pc \in {"queued", "free"}
    BY <2>2 DEF Recorded, Fresh, PastChecks
  <2> QED BY <1>3, <1>6, <2>1, <2>2
<1>8. PendingReal'
  <2>0. pending' = [pending EXCEPT ![a] = r]
    BY DEF FireQueue
  <2>1. ASSUME NEW b \in Autos, pending'[b] # NoRun
        PROVE  run'[pending'[b]].pc = "queued" /\ run'[pending'[b]].fire.auto = b
    <3>1. CASE b = a
      BY <1>0, <1>3, <2>0, <3>1, TypedParts DEF IInv, MemoryOK
    <3>2. CASE b # a
      <4>1. pending'[b] = pending[b] /\ pending[b] \in Runs /\ pending[b] # NoRun
        BY <1>0, <2>0, <2>1, <3>2, TypedParts DEF IInv, MemoryOK
      <4>2. run[pending[b]].pc = "queued" /\ run[pending[b]].fire.auto = b
        BY <4>1 DEF IInv, Safe, PendingReal
      <4>3. pending[b] # r /\ (pending[a] # NoRun => pending[b] # pending[a])
        BY <1>0, <3>2, <4>2 DEF IInv, Safe, PendingReal
      <4> QED BY <1>5, <4>1, <4>2, <4>3 DEF Kept
    <3> QED BY <3>1, <3>2
  <2> QED BY <2>1 DEF PendingReal
<1>9. ActiveExact'
  <2>1. active' = active
    BY DEF FireQueue
  <2>2. ASSUME NEW x \in Runs
        PROVE  \/ run'[x].pc = run[x].pc /\ run'[x].fire = run[x].fire
               \/ run[x].pc \notin Admitted /\ run'[x].pc \notin Admitted
    BY <1>3, <1>5, <1>6, PcSets DEF Kept
  <2> QED BY <2>1, <2>2 DEF IInv, Safe, ActiveExact
<1>10. NoneWhenDown' /\ FenceReached'
  BY <1>2 DEF FireQueue, Started, IInv, Safe, NoneWhenDown, FenceReached, RowsKept
<1> QED BY <1>7, <1>8, <1>9, <1>10 DEF Safe

LEMMA BeginSafe ==
  ASSUME IInv, NEW f \in Fires, NEW r \in Runs, run[r].pc \in {"free", "drain"},
         FireStart(f, r) \/ FireQueue(f, r) \/ FireRefuse(f, r),
         UNCHANGED <<history, phase, req>>
  PROVE  Safe'
  BY FireStartSafe, FireQueueSafe, FireRefuseSafe

-----------------------------------------------------------------------------
(* One lemma per group of actions.                                           *)

LEMMA SchedulerSafe == ASSUME IInv, Scheduler PROVE Safe'
<1>0. DuesKept /\ UNCHANGED <<history, req>>
  BY DEF Scheduler, TickList, TickDrain, TickBusy, BootDrain, ClaimSlot, SkipSlot, ClearSlot,
     BootSchedule, SchedulerFire, SchedulerCapped, SchedulerStamp, PassDone, DuesKept, durable
<1>1. CASE SchedulerFire
  <2>1. sched.fire \in Fires
    BY <1>1, TypedParts DEF SchedulerFire, IInv, SchedOK, SchedReal
  <2>2. PICK r \in Runs : /\ FreshRun(r)
                          /\ \/ FireStart(sched.fire, r) \/ FireQueue(sched.fire, r)
                             \/ FireRefuse(sched.fire, r)
    BY <1>1 DEF SchedulerFire
  <2> QED BY <1>0, <1>1, <2>1, <2>2, BeginSafe DEF SchedulerFire, FreshRun
<1>2. CASE SchedulerStamp
  <2>1. RowsKept
    BY <1>2, StampFreshKept, TypedParts DEF SchedulerStamp, IInv, SchedOK, SchedReal
  <2> QED BY <1>0, <1>2, <2>1, CalmSafe DEF SchedulerStamp, memory
<1>3. CASE TickList \/ SchedulerCapped \/ PassDone
  <2>1. RowsKept
    BY <1>3 DEF TickList, SchedulerCapped, PassDone, durable, RowsKept
  <2> QED BY <1>0, <1>3, <2>1, CalmSafe DEF TickList, SchedulerCapped, PassDone, memory, durable
<1>4. ASSUME NEW a \in Autos, TickDrain(a) \/ TickBusy(a) \/ BootDrain(a) \/ ClaimSlot(a) \/ SkipSlot(a)
                              \/ ClearSlot(a) \/ BootSchedule(a)
      PROVE  Safe'
  <2>1. \/ row' = row \/ row' = ClearToken(a)
        \/ \E n : row' = [row EXCEPT ![a].next = n]
    BY <1>4 DEF TickDrain, TickBusy, BootDrain, ClaimSlot, SkipSlot, ClearSlot, BootSchedule, durable
  <2>2. RowsKept
    BY <2>1, ClearKept, TypedParts DEF IInv, RowOK, RowType, RowsKept
  <2> QED BY <1>0, <1>4, <2>2, CalmSafe
          DEF TickDrain, TickBusy, BootDrain, ClaimSlot, SkipSlot, ClearSlot,
              BootSchedule, memory, durable
<1> QED BY <1>1, <1>2, <1>3, <1>4 DEF Scheduler

LEMMA FinalizeOthers ==
  ASSUME IInv, NEW r \in Runs, NEW st, Finalize(r, st)
  PROVE  history'[r] = st /\ \A x \in Runs \ {r} : history'[x] = history[x]
  BY TypedParts DEF IInv, HistoryOK, Finalize

\* The goroutine of a run, up to endRun.  Each place it goes to keeps the record
\* that the place before it needed.
LEMMA GoroutineSafe ==
  ASSUME IInv, NEW r \in Runs,
         \/ Verify(r) \/ Eligible(r) \/ Consume(r) \/ InsertRow(r)
         \/ ClaimToken(r) \/ StartEngine(r) \/ Finish(r) \/ Restamp(r)
  PROVE  Safe'
<1>1. PICK pc \in {"elig", "end", "restamp", "insert", "engine", "consume", "claim", "running"} :
        Goto(r, pc)
  BY DEF Verify, Eligible, Consume, InsertRow, ClaimToken, StartEngine, Finish, Restamp,
         Retry, AfterChecks
<1>2. /\ run[r].pc \in {"verify", "elig", "consume", "insert", "claim", "engine", "running",
                        "restamp"}
      /\ UNCHANGED <<active, pending, phase, req>>
  BY DEF Verify, Eligible, Consume, InsertRow, ClaimToken, StartEngine, Finish, Restamp, memory
<1>3. pc \in Admitted /\ run[r].pc \in Admitted
  BY <1>1, <1>2 DEF Admitted
<1>4. run[r].fire \in Fires /\ run[r].fire.auto \in Autos
  BY <1>3, PcSets, RunFields, TypedParts DEF IInv
<1>5. run'[r].pc = pc /\ run'[r].manual = run[r].manual
  BY <1>1, TypedParts DEF IInv, RunOK, RunType, Goto
<1>6. RowsKept
  <2>1. CASE Restamp(r)
    BY <1>4, <2>1, StampFreshKept DEF Restamp
  <2>2. CASE ~Restamp(r)
    <3>1. row' = row \/ row' = ClearToken(run[r].fire.auto)
      BY <2>2 DEF Verify, Eligible, Consume, InsertRow, ClaimToken, StartEngine, Finish
    <3> QED BY <1>4, <3>1, ClearKept
  <2> QED BY <2>1, <2>2
<1>7. \A x \in Runs \ {r} : history'[x] = history[x]
  BY FinalizeOthers
     DEF Verify, Eligible, Consume, InsertRow, ClaimToken, StartEngine, Finish, Restamp
<1>8. Recorded(r)'
  <2>0. Recorded(r)
    BY DEF IInv, Safe
  <2>1. CASE pc \in {"end", "restamp", "insert", "consume"}
    BY <1>5, <2>1 DEF Recorded
  <2>2. CASE pc = "elig"
    <3>1. Verify(r) /\ UNCHANGED history
      BY <1>1, <1>5, <2>2, TypedParts
         DEF Verify, Eligible, Consume, InsertRow, ClaimToken, StartEngine, Finish, Restamp,
             Retry, AfterChecks, Goto, IInv, RunOK, RunType
    <3> QED BY <1>5, <2>0, <2>2, <3>1 DEF Verify, Recorded
  <2>3. CASE pc \in {"engine", "claim", "running"}
    <3>1. CASE UNCHANGED history /\ (Eligible(r) \/ ClaimToken(r) \/ StartEngine(r))
      BY <1>1, <1>5, <2>0, <2>3, <3>1, TypedParts
         DEF Eligible, ClaimToken, StartEngine, Retry, AfterChecks, Scheduled, Goto,
             Recorded, IInv, RunOK, RunType
    <3>2. CASE InsertRow(r) /\ Finalize(r, "running")
      BY <3>2, FinalizeOthers DEF Recorded
    <3>3. \/ UNCHANGED history /\ (Eligible(r) \/ ClaimToken(r) \/ StartEngine(r))
          \/ InsertRow(r) /\ Finalize(r, "running")
      BY <1>1, <1>5, <2>3, TypedParts
         DEF Verify, Eligible, Consume, InsertRow, ClaimToken, StartEngine, Finish, Restamp,
             Retry, AfterChecks, Goto, IInv, RunOK, RunType
    <3> QED BY <3>1, <3>2, <3>3
  <2> QED BY <2>1, <2>2, <2>3
<1>9. pc \in PastChecks => run[r].pc \in PastChecks \/ VerifyPasses(r)
  BY <1>1, <1>2, <1>5, TypedParts
     DEF PastChecks, Verify, Eligible, Consume, InsertRow, ClaimToken, StartEngine, Finish,
         Restamp, Retry, AfterChecks, Goto, IInv, RunOK, RunType
<1> QED BY <1>1, <1>2, <1>3, <1>6, <1>7, <1>8, <1>9, GotoSafe

LEMMA BindSafe == ASSUME IInv, NEW r \in Runs, Bind(r) PROVE Safe'
<1>1. \A x \in Runs \ {r} : run'[x] = run[x]
  BY TypedParts DEF Bind, IInv, RunOK
<1>2. run'[r].pc = "verify" /\ run'[r].fire = run[r].fire /\ run'[r].manual = run[r].manual
  BY TypedParts DEF Bind, IInv, RunOK, RunType
<1>3. RowsKept /\ DuesKept /\ \A x \in Runs \ {r} : Kept(x)
  BY <1>1 DEF Bind, durable, RowsKept, DuesKept, Kept
<1>4. Recorded(r)' /\ Fresh(r)'
  BY <1>2 DEF Bind, durable, Recorded, Fresh, PastChecks, IInv, Safe
<1>5. phase # "down" /\ phase' = phase /\ run[r].pc = "bind"
  BY DEF Bind, IInv, Safe, NoneWhenDown
<1>6. run[r].pc \in Admitted /\ run'[r].pc \in Admitted
  BY <1>2, <1>5 DEF Admitted
<1> QED BY <1>2, <1>3, <1>4, <1>5, <1>6, MoveSafe DEF Bind, memory

\* The successor that endRun pops leaves the queue for beginRun.
LEMMA EndRunSafe == ASSUME IInv, NEW r \in Runs, EndRun(r) PROVE Safe'
<1> DEFINE a == run[r].fire.auto
           pop == pending[a] # NoRun /\ active[a] = {r} /\ Started
<1>1. a \in Autos /\ run[r].pc = "end" /\ run[r].pc \in Admitted
  BY RunFields, TypedParts DEF EndRun, IInv, Admitted
<1>2. /\ run' = [x \in Runs |-> IF x = r THEN IdleRun
                 ELSE IF pop /\ x = pending[a] THEN [run[x] EXCEPT !.pc = "drain"]
                 ELSE run[x]]
      /\ pending' = IF pop THEN [pending EXCEPT ![a] = NoRun] ELSE pending
      /\ active' = [active EXCEPT ![a] = @ \ {r}]
      /\ UNCHANGED <<row, phase, req>>
  BY DEF EndRun, Release
<1>3. \A x \in Runs \ {r} : history'[x] = history[x]
  BY TypedParts DEF EndRun, IInv, HistoryOK
<1>4. run'[r].pc = "free" /\ run'[r].manual = FALSE
  BY <1>2 DEF IdleRun
<1>5. \A x \in Runs \ {r} : ~(pop /\ x = pending[a]) => Kept(x)
  BY <1>2, <1>3 DEF Kept
<1>6. \A x \in Runs \ {r} : pop /\ x = pending[a] =>
        run[x].pc = "queued" /\ run'[x].pc = "drain"
  <2>1. ASSUME NEW x \in Runs \ {r}, pop, x = pending[a]
        PROVE  run[x].pc = "queued" /\ run'[x].pc = "drain"
    <3>1. run[x] \in RunType
      BY TypedParts DEF IInv, RunOK
    <3> QED BY <1>1, <1>2, <2>1, <3>1 DEF IInv, Safe, PendingReal, RunType
  <2> QED BY <2>1
<1>7. pop => pending' = [pending EXCEPT ![a] = NoRun]
  BY <1>2
<1>8. ~pop => pending' = pending
  BY <1>2
<1> HIDE DEF pop
<1>9. RowsKept /\ DuesKept
  BY <1>2 DEF RowsKept, DuesKept
<1>10. ASSUME NEW x \in Runs PROVE Recorded(x)' /\ Fresh(x)'
  <2>1. CASE x # r /\ ~(pop /\ x = pending[a])
    BY <1>5, <1>9, <2>1, KeptSafe
  <2>2. CASE run'[x].pc \in {"free", "drain"}
    BY <2>2 DEF Recorded, Fresh, PastChecks
  <2> QED BY <1>4, <1>6, <2>1, <2>2
<1>11. PendingReal'
  <2>1. ASSUME NEW b \in Autos, pending'[b] # NoRun
        PROVE  run'[pending'[b]].pc = "queued" /\ run'[pending'[b]].fire.auto = b
    <3>1. pending'[b] = pending[b] /\ pending[b] \in Runs /\ (pop => b # a)
      BY <1>1, <1>7, <1>8, <2>1, TypedParts DEF IInv, MemoryOK
    <3>2. run[pending[b]].pc = "queued" /\ run[pending[b]].fire.auto = b
      BY <2>1, <3>1 DEF IInv, Safe, PendingReal
    <3>3. pop => run[pending[a]].fire.auto = a
      BY <1>1 DEF pop, IInv, Safe, PendingReal
    <3>4. pending[b] # r /\ ~(pop /\ pending[b] = pending[a])
      BY <1>1, <3>1, <3>2, <3>3
    <3> QED BY <1>5, <3>1, <3>2, <3>4 DEF Kept
  <2> QED BY <2>1 DEF PendingReal
<1>12. ActiveExact'
  <2>1. \A b \in Autos : active'[b] = IF b = a THEN active[a] \ {r} ELSE active[b]
    BY <1>1, <1>2, TypedParts DEF IInv, MemoryOK
  <2>2. ASSUME NEW x \in Runs \ {r}
        PROVE  \/ run'[x].pc = run[x].pc /\ run'[x].fire = run[x].fire
               \/ run[x].pc \notin Admitted /\ run'[x].pc \notin Admitted
    BY <1>5, <1>6, PcSets DEF Kept
  <2>3. \A b \in Autos : r \notin active'[b]
    BY <1>1, <2>1 DEF IInv, Safe, ActiveExact
  <2> QED BY <1>4, <2>1, <2>2, <2>3, PcSets DEF IInv, Safe, ActiveExact
<1>13. NoneWhenDown' /\ FenceReached'
  BY <1>1, <1>2, <1>9 DEF IInv, Safe, NoneWhenDown, FenceReached, RowsKept
<1> QED BY <1>10, <1>11, <1>12, <1>13 DEF Safe

LEMMA ExecuteSafe == ASSUME IInv, NEW r \in Runs, Execute(r) PROVE Safe'
<1>1. CASE DrainPending(r)
  <2> DEFINE f == [run[r].fire EXCEPT !.def = row[run[r].fire.auto].def]
  <2>1. f \in Fires
    <3>1. run[r].fire \in Fires /\ run[r].fire.auto \in Autos
      BY <1>1, RunFields, TypedParts DEF DrainPending, IInv
    <3>2. row[run[r].fire.auto].def \in Defs
      BY <3>1, TypedParts DEF IInv, RowOK, RowType
    <3> QED BY <3>1, <3>2 DEF Fires
  <2>2. \/ FireStart(f, r) \/ FireQueue(f, r) \/ FireRefuse(f, r)
        \/ run' = [run EXCEPT ![r] = IdleRun] /\ UNCHANGED <<row, memory>>
    BY <1>1 DEF DrainPending
  <2> HIDE DEF f
  <2>3. run[r].pc = "drain" /\ run[r].pc \notin Admitted \cup {"queued"}
        /\ UNCHANGED <<history, phase, req>>
    BY <1>1, PcSets DEF DrainPending
  <2>4. CASE run' = [run EXCEPT ![r] = IdleRun] /\ UNCHANGED <<row, memory>>
    BY <2>3, <2>4, DropSafe DEF memory, RowsKept
  <2> QED BY <2>1, <2>2, <2>3, <2>4, BeginSafe
<1> QED BY <1>1, GoroutineSafe, BindSafe, EndRunSafe DEF Execute

-----------------------------------------------------------------------------
(* The edits of a row.                                                       *)

\* A row that starts to exist or is enabled makes no run stale.
LEMMA RowSafe ==
  ASSUME IInv, NEW a \in Autos, \A b \in Autos \ {a} : row'[b] = row[b],
         row'[a].fence \in {1, row[a].fence}, row'[a].fence <= row'[a].gen, DuesKept,
         UNCHANGED <<run, history, active, pending, phase>>
  PROVE  Safe'
<1>1. ASSUME NEW x \in Runs PROVE Recorded(x)' /\ Fresh(x)'
  <2>1. Recorded(x)'
    BY DEF IInv, Safe, Recorded
  <2>2. run[x].pc \in PastChecks =>
          run[x].fire.auto \in Autos /\ run[x].fire.gen \in 1..MaxGen
    BY RunFields, FireFields, PcSets, TypedParts DEF IInv
  <2>3. ASSUME run[x].pc \in PastChecks, ~run[x].done,
               run[x].fire.gen < row'[run[x].fire.auto].fence
        PROVE  CancelDue(run[x].fire.auto)'
    <3>1. run[x].fire.gen < row[run[x].fire.auto].fence
      <4>1. run[x].fire.gen \in 1..MaxGen /\ MaxGen \in Nat
        BY <2>2, <2>3, SchedulerAssumption
      <4>2. CASE run[x].fire.auto = a
        BY <2>3, <4>1, <4>2
      <4>3. CASE run[x].fire.auto # a
        BY <2>2, <2>3, <4>3
      <4> QED BY <4>2, <4>3
    <3> QED BY <2>3, <3>1 DEF IInv, Safe, Fresh, DuesKept, CancelDue
  <2> QED BY <2>1, <2>3 DEF Fresh
<1>2. PendingReal' /\ ActiveExact' /\ NoneWhenDown' /\ FenceReached'
  BY DEF IInv, Safe, PendingReal, ActiveExact, NoneWhenDown, FenceReached
<1> QED BY <1>1, <1>2 DEF Safe

\* An edit that makes runs stale leaves its handler with their cancellation due.
LEMMA EditSafe ==
  ASSUME IInv, NEW a \in Autos, NEW h \in Handlers, req[h].pc # "cancel",
         req' = [req EXCEPT ![h] = [pc |-> "cancel", auto |-> a]],
         \A b \in Autos \ {a} : row'[b] = row[b], row'[a].fence <= row'[a].gen,
         UNCHANGED <<run, history, active, pending, phase>>
  PROVE  Safe'
<1>1. req'[h].pc = "cancel" /\ req'[h].auto = a /\ DuesKept
  BY TypedParts DEF IInv, ReqOK, DuesKept
<1>2. ASSUME NEW x \in Runs PROVE Recorded(x)' /\ Fresh(x)'
  <2>1. Recorded(x)'
    BY DEF IInv, Safe, Recorded
  <2>2. run[x].pc \in PastChecks => run[x].fire.auto \in Autos
    BY RunFields, PcSets, TypedParts DEF IInv
  <2>3. CancelDue(a)'
    BY <1>1 DEF CancelDue
  <2>4. CASE run[x].fire.auto = a
    BY <2>1, <2>3, <2>4 DEF Fresh, CancelDue
  <2>5. CASE run[x].fire.auto # a
    BY <1>1, <2>1, <2>2, <2>5 DEF IInv, Safe, Fresh, DuesKept, CancelDue
  <2> QED BY <2>4, <2>5
<1>3. PendingReal' /\ ActiveExact' /\ NoneWhenDown' /\ FenceReached'
  BY DEF IInv, Safe, PendingReal, ActiveExact, NoneWhenDown, FenceReached
<1> QED BY <1>2, <1>3 DEF Safe

LEMMA GenType ==
  ASSUME IInv, NEW a \in Autos
  PROVE  row[a] \in RowType /\ row[a].gen \in Nat /\ row[a].fence \in Nat
<1>1. row[a] \in RowType
  BY TypedParts DEF IInv, RowOK
<1> QED BY <1>1, SchedulerAssumption DEF RowType

LEMMA RequestSafe == ASSUME IInv, UserRequest PROVE Safe'
<1>1. ASSUME NEW a \in Autos, NEW d \in Defs, Create(a, d) PROVE Safe'
  <2>1. /\ row'[a].fence = 1 /\ row'[a].gen = 1 /\ DuesKept
        /\ \A b \in Autos \ {a} : row'[b] = row[b]
    BY <1>1, TypedParts DEF Create, NewRow, IInv, RowOK, DuesKept
  <2> QED BY <1>1, <2>1, RowSafe DEF Create, memory
<1>2. ASSUME NEW a \in Autos, Trigger(a) PROVE Safe'
  <2> DEFINE f == [auto |-> a, gen |-> row[a].gen, token |-> NoToken,
                   occ |-> NoOcc, def |-> row[a].def]
  <2>1. PICK r \in Runs : FreshRun(r) /\
          run' = [run EXCEPT ![r] = [IdleRun EXCEPT !.pc = "trigger", !.manual = TRUE,
                                                    !.fire = f]]
    BY <1>2 DEF Trigger
  <2> HIDE DEF f
  <2>2. run[r].pc = "free" /\ run'[r].pc = "trigger" /\ \A x \in Runs \ {r} : run'[x] = run[x]
    BY <2>1, TypedParts DEF FreshRun, IdleRun, IInv, RunOK
  <2>3. RowsKept /\ DuesKept /\ \A x \in Runs \ {r} : Kept(x)
    BY <1>2, <2>2 DEF Trigger, durable, RowsKept, DuesKept, Kept
  <2>4. Recorded(r)' /\ Fresh(r)'
    BY <2>2 DEF Recorded, Fresh, PastChecks
  <2>5. phase # "down" /\ phase' = phase /\ UNCHANGED <<active, pending>>
    BY <1>2 DEF Trigger, Serving, memory
  <2>6. run[r].pc \notin Admitted /\ run'[r].pc \notin Admitted
    BY <2>2, PcSets
  <2> QED BY <2>2, <2>3, <2>4, <2>5, <2>6, MoveSafe
<1>3. ASSUME NEW a \in Autos, NEW h \in Handlers, NEW d \in Defs, Update(h, a, d) PROVE Safe'
  <2>1. /\ row'[a].fence = row'[a].gen /\ row'[a].gen = row[a].gen + 1
        /\ \A b \in Autos \ {a} : row'[b] = row[b]
    BY <1>3, TypedParts DEF Update, Edited, IInv, RowOK
  <2>2. row'[a].fence <= row'[a].gen
    BY <2>1, GenType
  <2> QED BY <1>3, <2>1, <2>2, EditSafe DEF Update, memory
<1>4. ASSUME NEW a \in Autos, NEW h \in Handlers, Delete(h, a) PROVE Safe'
  <2>1. /\ row'[a].fence = row'[a].gen /\ row'[a].gen = row[a].gen + 1
        /\ \A b \in Autos \ {a} : row'[b] = row[b]
    BY <1>4, TypedParts DEF Delete, Edited, IInv, RowOK
  <2>2. row'[a].fence <= row'[a].gen
    BY <2>1, GenType
  <2> QED BY <1>4, <2>1, <2>2, EditSafe DEF Delete, memory
<1>5. ASSUME NEW a \in Autos, NEW h \in Handlers, NEW on \in BOOLEAN, ReadFlip(h, a, on)
      PROVE  Safe'
  <2>1. RowsKept /\ DuesKept
    BY <1>5, TypedParts DEF ReadFlip, durable, RowsKept, DuesKept, IInv, ReqOK
  <2> QED BY <1>5, <2>1, CalmSafe DEF ReadFlip, durable, memory
<1> QED BY <1>1, <1>2, <1>3, <1>4, <1>5 DEF UserRequest

\* The commit of SetEnabled: enabling leaves the fence, disabling moves it.
LEMMA CommitFlipSafe == ASSUME IInv, NEW h \in Handlers, CommitFlip(h) PROVE Safe'
<1> DEFINE q == req[h]
<1>1. q.auto \in Autos /\ q.on \in BOOLEAN
  BY TypedParts DEF CommitFlip, IInv, ReqOK, ReqType, IdleReq
<1>2. q.pc = "flip" /\ UNCHANGED <<run, history, active, pending, phase>>
  BY DEF CommitFlip, memory
<1>3. CASE ~FlipMatches(q)
  <2>1. RowsKept /\ DuesKept
    BY <1>2, <1>3, TypedParts DEF CommitFlip, RowsKept, DuesKept, IInv, ReqOK
  <2> QED BY <1>2, <2>1, CalmSafe
<1>4. CASE FlipMatches(q)
  <2>1. row' = EnableFlip(q.auto, q.on, q.next)
    BY <1>4 DEF CommitFlip
  <2>2. /\ row'[q.auto].gen = row[q.auto].gen + 1
        /\ row'[q.auto].fence = IF q.on THEN row[q.auto].fence ELSE row[q.auto].gen + 1
        /\ \A b \in Autos \ {q.auto} : row'[b] = row[b]
    BY <1>1, <2>1, TypedParts DEF EnableFlip, IInv, RowOK
  <2>3. row'[q.auto].fence <= row'[q.auto].gen
    BY <1>1, <2>2, GenType DEF IInv, Safe, FenceReached
  <2>4. CASE q.on
    <3>1. DuesKept
      BY <1>2, <1>4, <2>4, TypedParts DEF CommitFlip, DuesKept, IInv, ReqOK
    <3> QED BY <1>1, <1>2, <2>2, <2>3, <2>4, <3>1, RowSafe
  <2>5. CASE ~q.on
    <3>1. req' = [req EXCEPT ![h] = [pc |-> "cancel", auto |-> q.auto]]
      BY <1>4, <2>5 DEF CommitFlip
    <3> QED BY <1>1, <1>2, <2>2, <2>3, <3>1, EditSafe
  <2> QED BY <2>4, <2>5
<1> QED BY <1>3, <1>4

\* cancelAutomation reaches every stale run there is: they are all in active.
LEMMA CancelSafe == ASSUME IInv, NEW h \in Handlers, CancelAutomation(h) PROVE Safe'
<1> DEFINE a == req[h].auto
<1>1. a \in Autos
  BY TypedParts DEF CancelAutomation, IInv, ReqOK, ReqType, IdleReq
<1>2. /\ run' = [r \in Runs |-> IF r = pending[a] THEN IdleRun ELSE Canceled(active[a])[r]]
      /\ pending' = [pending EXCEPT ![a] = NoRun] /\ req' = [req EXCEPT ![h] = IdleReq]
      /\ UNCHANGED <<row, history, active, phase>>
  BY DEF CancelAutomation, durable
<1>3. \A x \in Runs : x # pending[a] => Kept(x)
  BY <1>2, CanceledKept DEF Kept
<1>4. \A x \in Runs : x = pending[a] =>
        run[x].pc = "queued" /\ run'[x].pc = "free" /\ run'[x].manual = FALSE
  <2>1. NoRun \notin Runs
    BY SchedulerAssumption
  <2>2. IdleRun.pc = "free" /\ IdleRun.manual = FALSE
    BY DEF IdleRun
  <2> QED BY <1>1, <1>2, <2>1, <2>2 DEF IInv, Safe, PendingReal
<1>5. \A x \in Runs : x # pending[a] /\ run[x].pc \in PastChecks /\ run[x].fire.auto = a =>
        run'[x].done
  <2>1. ASSUME NEW x \in Runs, x # pending[a], run[x].pc \in PastChecks, run[x].fire.auto = a
        PROVE  run'[x].done
    <3>1. x \in active[a] /\ run[x].pc \notin Unbound
      BY <1>1, <2>1, PcSets DEF IInv, Safe, ActiveExact
    <3> QED BY <1>2, <2>1, <3>1, CanceledKept
  <2> QED BY <2>1
<1>6. \A g \in Handlers : g # h => req'[g] = req[g]
  BY <1>2, TypedParts DEF IInv, ReqOK
<1>7. ASSUME NEW x \in Runs PROVE Recorded(x)' /\ Fresh(x)'
  <2>1. CASE x = pending[a]
    BY <1>4, <2>1 DEF Recorded, Fresh, PastChecks
  <2>2. CASE x # pending[a]
    <3>1. Recorded(x)'
      BY <1>3, <2>2 DEF IInv, Safe, Recorded, Kept
    <3>2. CASE run[x].fire.auto = a
      BY <1>3, <1>5, <2>2, <3>1, <3>2 DEF Fresh, Kept
    <3>3. CASE run[x].fire.auto # a
      <4>1. \A g \in Handlers : req[g].pc = "cancel" /\ req[g].auto # a => req'[g] = req[g]
        BY <1>6
      <4>2. Kept(x) /\ Fresh(x) /\ row' = row
        BY <1>2, <1>3, <2>2 DEF IInv, Safe
      <4>3. Fresh(x)'
        BY <3>3, <4>1, <4>2 DEF Fresh, Kept, CancelDue
      <4> QED BY <3>1, <4>3
    <3> QED BY <3>1, <3>2, <3>3
  <2> QED BY <2>1, <2>2
<1>8. PendingReal'
  <2>1. ASSUME NEW b \in Autos, pending'[b] # NoRun
        PROVE  run'[pending'[b]].pc = "queued" /\ run'[pending'[b]].fire.auto = b
    <3>1. b # a /\ pending'[b] = pending[b] /\ pending[b] \in Runs
      BY <1>1, <1>2, <2>1, TypedParts DEF IInv, MemoryOK
    <3>2. pending[b] # pending[a]
      BY <1>1, <2>1, <3>1 DEF IInv, Safe, PendingReal
    <3> QED BY <1>3, <2>1, <3>1, <3>2 DEF IInv, Safe, PendingReal, Kept
  <2> QED BY <2>1 DEF PendingReal
<1>9. ActiveExact'
  <2>1. ASSUME NEW x \in Runs
        PROVE  \/ run'[x].pc = run[x].pc /\ run'[x].fire = run[x].fire
               \/ run[x].pc \notin Admitted /\ run'[x].pc \notin Admitted
    BY <1>3, <1>4, PcSets DEF Kept
  <2> QED BY <1>2, <2>1 DEF IInv, Safe, ActiveExact
<1>10. NoneWhenDown' /\ FenceReached'
  <2>1. FenceReached'
    BY <1>2 DEF IInv, Safe, FenceReached
  <2>2. NoneWhenDown'
    BY <1>2, <1>3, <1>4 DEF IInv, Safe, NoneWhenDown, Kept
  <2> QED BY <2>1, <2>2
<1> QED BY <1>7, <1>8, <1>9, <1>10 DEF Safe

LEMMA HandlerSafe == ASSUME IInv, HandlerStep PROVE Safe'
<1>1. ASSUME NEW r \in Runs, TriggerBegin(r) PROVE Safe'
  <2> DEFINE a == run[r].fire.auto
  <2>1. a \in Autos /\ run[r].pc \notin Admitted \cup {"queued"} /\ phase # "down"
    BY <1>1, PcSets, RunFields, TypedParts DEF TriggerBegin, IInv, Safe, NoneWhenDown
  <2>2. RowsKept /\ UNCHANGED <<history, pending, phase, req>>
    BY <1>1 DEF TriggerBegin, durable, RowsKept
  <2>3. CASE run' = [run EXCEPT ![r] = IdleRun] /\ UNCHANGED active
    BY <2>1, <2>2, <2>3, DropSafe
  <2>4. CASE Register(a, r) /\ Goto(r, "record")
    <3>1. /\ run'[r].pc = "record" /\ run'[r].fire.auto = a
          /\ \A x \in Runs \ {r} : run'[x] = run[x]
      BY <2>4, TypedParts DEF Goto, IInv, RunOK, RunType
    <3> HIDE DEF a
    <3> QED BY <2>1, <2>2, <2>4, <3>1, AdmitSafe
  <2> QED BY <1>1, <2>3, <2>4 DEF TriggerBegin
<1>2. ASSUME NEW r \in Runs, TriggerRecord(r) PROVE Safe'
  <2>1. \/ Goto(r, "bind") /\ Finalize(r, "running")
        \/ Goto(r, "end") /\ UNCHANGED history
    BY <1>2 DEF TriggerRecord
  <2>2. /\ run[r].pc = "record" /\ RowsKept /\ UNCHANGED <<active, pending, phase, req>>
        /\ {"record", "bind", "end"} \subseteq Admitted
        /\ {"bind", "end"} \cap PastChecks = {}
    BY <1>2 DEF TriggerRecord, RowsKept, memory, Admitted, PastChecks
  <2>3. CASE Goto(r, "bind") /\ Finalize(r, "running")
    <3>1. Recorded(r)' /\ \A x \in Runs \ {r} : history'[x] = history[x]
      BY <2>3, FinalizeOthers DEF Recorded
    <3> QED BY <2>2, <2>3, <3>1, GotoSafe
  <2>4. CASE Goto(r, "end") /\ UNCHANGED history
    <3>1. run'[r].pc = "end"
      BY <2>4, TypedParts DEF Goto, IInv, RunOK, RunType
    <3>2. Recorded(r)'
      BY <3>1 DEF Recorded
    <3> QED BY <2>2, <2>4, <3>2, GotoSafe
  <2> QED BY <2>1, <2>3, <2>4
<1> QED BY <1>1, <1>2, CommitFlipSafe, CancelSafe DEF HandlerStep

\* A signal, or Stop, cancels runs and moves none of them.
LEMMA CancelAllSafe ==
  ASSUME IInv, RowsKept, DuesKept, UNCHANGED <<history, active, pending>>, phase' # "down",
         \A x \in Runs : Kept(x)
  PROVE  Safe'
<1>1. \A x \in Runs : Recorded(x)' /\ Fresh(x)'
  BY KeptSafe
<1>2. PendingReal'
  <2>1. ASSUME NEW a \in Autos, pending[a] # NoRun
        PROVE  run'[pending[a]].pc = "queued" /\ run'[pending[a]].fire.auto = a
    BY <2>1, TypedParts DEF IInv, Safe, PendingReal, Kept, MemoryOK
  <2> QED BY <2>1 DEF PendingReal
<1>3. ActiveExact' /\ NoneWhenDown' /\ FenceReached'
  BY DEF IInv, Safe, ActiveExact, NoneWhenDown, FenceReached, Kept, RowsKept
<1> QED BY <1>1, <1>2, <1>3 DEF Safe

LEMMA ProcessSafe ==
  ASSUME IInv, ClockTick \/ Start \/ Signal \/ Stop \/ StopReturns \/ Exit PROVE Safe'
<1>1. CASE ClockTick \/ StopReturns
  <2>1. RowsKept /\ DuesKept
    BY <1>1 DEF ClockTick, StopReturns, durable, RowsKept, DuesKept
  <2> QED BY <1>1, <2>1, CalmSafe DEF ClockTick, StopReturns, durable, memory
<1>2. CASE Start
  <2>1. \A r \in Runs : run[r].pc = "free"
    BY <1>2 DEF Start, IInv, Safe, NoneWhenDown
  <2>2. run' = run /\ active' = active /\ pending' = pending /\ row' = row /\ req' = req
    BY <1>2 DEF Start, memory
  <2>3. \A r \in Runs : Recorded(r)' /\ Fresh(r)'
    BY <2>1, <2>2 DEF Recorded, Fresh, PastChecks
  <2>4. PendingReal' /\ ActiveExact' /\ NoneWhenDown' /\ FenceReached'
    BY <2>1, <2>2 DEF IInv, Safe, PendingReal, ActiveExact, NoneWhenDown, FenceReached
  <2> QED BY <2>3, <2>4 DEF Safe
<1>3. CASE Signal
  <2>1. ASSUME NEW x \in Runs PROVE Kept(x)
    <3>1. run[x] \in RunType
      BY TypedParts DEF IInv, RunOK
    <3> QED BY <1>3, <3>1 DEF Signal, durable, Kept, RunType
  <2>2. RowsKept /\ DuesKept
    BY <1>3 DEF Signal, durable, RowsKept, DuesKept
  <2> QED BY <1>3, <2>1, <2>2, CancelAllSafe DEF Signal, durable, memory
<1>4. CASE Stop
  <2>1. ASSUME NEW x \in Runs PROVE Kept(x)
    BY <1>4, CanceledKept DEF Stop, durable, Kept
  <2>2. RowsKept /\ DuesKept
    BY <1>4 DEF Stop, durable, RowsKept, DuesKept
  <2> QED BY <1>4, <2>1, <2>2, CancelAllSafe DEF Stop, durable, memory
<1>5. CASE Exit
  <2>1. /\ run' = [r \in Runs |-> IdleRun] /\ pending' = [a \in Autos |-> NoRun]
        /\ active' = [a \in Autos |-> {}] /\ row' = row
    BY <1>5 DEF Exit
  <2>2. IdleRun.pc = "free" /\ IdleRun.manual = FALSE
    BY DEF IdleRun
  <2>3. \A r \in Runs : run'[r].pc = "free" /\ run'[r].manual = FALSE
    BY <2>1, <2>2
  <2>4. \A r \in Runs : Recorded(r)' /\ Fresh(r)'
    BY <2>3 DEF Recorded, Fresh, PastChecks
  <2>5. PendingReal' /\ ActiveExact' /\ NoneWhenDown' /\ FenceReached'
    BY <2>1, <2>3, PcSets DEF IInv, Safe, PendingReal, ActiveExact, NoneWhenDown, FenceReached
  <2> QED BY <2>4, <2>5 DEF Safe
<1> QED BY <1>1, <1>2, <1>3, <1>4, <1>5

-----------------------------------------------------------------------------
(* The theorems.                                                             *)

LEMMA InitIInv == Init => IInv
<1> SUFFICES ASSUME Init PROVE IInv
  OBVIOUS
<1>1. Typed
  BY InitTyped
<1>2. \A r \in Runs : run[r].pc = "free" /\ run[r].manual = FALSE
  BY DEF Init, IdleRun
<1>3. \A r \in Runs : Recorded(r) /\ Fresh(r)
  BY <1>2 DEF Recorded, Fresh, PastChecks
<1>4. PendingReal /\ ActiveExact /\ NoneWhenDown
  BY <1>2, PcSets DEF Init, PendingReal, ActiveExact, NoneWhenDown
<1>5. FenceReached
  <2>1. \A a \in Autos : row[a].fence = 0 /\ row[a].gen = 0
    BY DEF Init, NewRow
  <2> QED BY <2>1 DEF FenceReached
<1> QED BY <1>1, <1>3, <1>4, <1>5 DEF IInv, Safe

LEMMA NextIInv == IInv /\ [Next]_vars => IInv'
<1> SUFFICES ASSUME IInv, [Next]_vars PROVE IInv'
  OBVIOUS
<1>0. Typed /\ PendingReal
  BY DEF IInv, Safe
<1>1. CASE Scheduler
  BY <1>0, <1>1, SchedulerTyped, SchedulerSafe DEF IInv
<1>2. ASSUME NEW r \in Runs, Execute(r) PROVE IInv'
  BY <1>0, <1>2, ExecuteTyped, ExecuteSafe DEF IInv
<1>3. CASE HandlerStep
  BY <1>0, <1>3, HandlerTyped, HandlerSafe DEF IInv
<1>4. CASE UserRequest
  BY <1>0, <1>4, RequestTyped, RequestSafe DEF IInv
<1>5. CASE ClockTick \/ Start \/ Signal \/ Stop \/ StopReturns \/ Exit
  BY <1>0, <1>5, ProcessTyped, ProcessSafe DEF IInv
<1>6. CASE UNCHANGED vars
  <2>1. Typed'
    BY <1>0, <1>6, Unchanged, TypedParts, TypedNext DEF vars, memory
  <2>2. RowsKept /\ DuesKept /\ UNCHANGED <<run, history, active, pending, phase>>
    BY <1>6 DEF vars, RowsKept, DuesKept
  <2> QED BY <2>1, <2>2, CalmSafe DEF IInv
<1> QED BY <1>1, <1>2, <1>3, <1>4, <1>5, <1>6 DEF Next

LEMMA Inductive == Spec => []IInv
  BY InitIInv, NextIInv, PTL DEF Spec

\* Every variable keeps its type: ids stay in range, no enabled row without a
\* generation, no goroutine without a real fire.
THEOREM TypeCorrect == Spec => []TypeOK
<1>1. IInv => TypeOK
  BY DEF IInv, Typed
<1> QED BY <1>1, Inductive, PTL

\* No engine ever runs, and no token is ever claimed, without a durable run
\* record that says running (execute inserts before it claims and before it
\* starts the engine), whatever the store refuses and whenever it crashes.
THEOREM EffectsRecorded == Spec => []EffectsHaveRecord
<1>1. IInv => EffectsHaveRecord
  BY DEF IInv, Safe, Recorded, EffectsHaveRecord
<1> QED BY <1>1, Inductive, PTL

\* A run past its checks whose definition was replaced is cancelled, or the
\* handler that replaced it is about to cancel it (Update, SetEnabled and Delete
\* commit, then call cancelAutomation).
THEOREM StaleCancelled == Spec => []StaleRunsAreCancelled
<1>1. IInv => StaleRunsAreCancelled
  BY DEF IInv, Safe, Fresh, CancelDue, StaleRunsAreCancelled
<1> QED BY <1>1, Inductive, PTL

-----------------------------------------------------------------------------
(* Admission: the permits that are out, and the runs that have them.         *)

\* What a run's fire says while it is admitted does not change.
FireKept(r) == run[r].pc \in Admitted => run'[r].fire = run[r].fire
AdmissionKept == UNCHANGED <<active, userRuns, runSlots>> /\ \A r \in Runs : FireKept(r)

\* The admitted runs of a user.
RunsOf(u) == {r \in AllActive : Owner[run[r].fire.auto] = u}

LEMMA ActiveFacts ==
  ASSUME IInv
  PROVE  /\ AllActive \subseteq Runs /\ IsFiniteSet(AllActive)
         /\ \A u : IsFiniteSet(RunsOf(u)) /\ RunsOf(u) \subseteq AllActive
         /\ \A a \in Autos : active[a] \subseteq Runs /\ IsFiniteSet(active[a])
         /\ \A a \in Autos : \A r \in active[a] : run[r].pc \in Admitted /\ run[r].fire.auto = a
<1>1. \A a \in Autos : active[a] \subseteq Runs
  BY TypedParts DEF IInv, MemoryOK
<1>2. AllActive \subseteq Runs /\ \A u : RunsOf(u) \subseteq AllActive
  BY <1>1 DEF AllActive, RunsOf
<1>3. IsFiniteSet(Runs)
  BY SchedulerAssumption
<1>4. \A S : S \subseteq Runs => IsFiniteSet(S)
  BY <1>3, FS_Subset
<1>5. \A u : RunsOf(u) \subseteq Runs
  BY <1>2
<1>6. \A a \in Autos : \A r \in active[a] : run[r].pc \in Admitted /\ run[r].fire.auto = a
  BY <1>1 DEF IInv, Safe, ActiveExact
<1> QED BY <1>1, <1>2, <1>4, <1>5, <1>6

LEMMA KeptLawful ==
  ASSUME IInv, AdmissionIsLawful, AdmissionKept PROVE AdmissionIsLawful'
<1>1. AllActive' = AllActive
  BY DEF AdmissionKept, AllActive
<1>2. \A r \in AllActive : run'[r].fire = run[r].fire
  BY ActiveFacts DEF AdmissionKept, FireKept, AllActive
<1>3. \A u \in Users : {r \in AllActive' : Owner[run'[r].fire.auto] = u}
                     = {r \in AllActive : Owner[run[r].fire.auto] = u}
  BY <1>1, <1>2
<1>4. PermitsConserved'
  BY <1>1, <1>3 DEF AdmissionIsLawful, PermitsConserved, AdmissionKept
<1>5. OverlapNeedsParallel'
  <2>1. \A a \in Autos : active'[a] = active[a] /\ active[a] \subseteq AllActive
    BY DEF AdmissionKept, AllActive
  <2> QED BY <1>2, <2>1 DEF AdmissionIsLawful, OverlapNeedsParallel
<1> QED BY <1>4, <1>5 DEF AdmissionIsLawful

\* beginRun admits: the policy and the caps were looked at in the same section.
LEMMA AdmitLawful ==
  ASSUME IInv, AdmissionIsLawful, NEW a \in Autos, NEW r \in Runs, NEW d,
         run[r].pc \notin Admitted, Admits(a, d), HasPermit(Owner[a]), Register(a, r),
         run'[r].fire.auto = a, run'[r].fire.def = d, \A x \in Runs \ {r} : run'[x] = run[x]
  PROVE  AdmissionIsLawful'
<1>1. r \notin AllActive
  BY ActiveFacts DEF AllActive
<1>2. \A b \in Autos : active'[b] = IF b = a THEN active[a] \cup {r} ELSE active[b]
  BY TypedParts DEF Register, IInv, MemoryOK
<1>3. AllActive' = AllActive \cup {r}
  BY <1>2 DEF AllActive
<1>4. Cardinality(AllActive') = Cardinality(AllActive) + 1
  BY <1>1, <1>3, ActiveFacts, FS_AddElement
<1>5. Owner[a] \in Users
  BY SchedulerAssumption
<1>6. \A x \in AllActive : run'[x] = run[x]
  BY <1>1, ActiveFacts
<1>7. \A u \in Users : RunsOf(u)' = IF u = Owner[a] THEN RunsOf(u) \cup {r} ELSE RunsOf(u)
  BY <1>1, <1>3, <1>6 DEF RunsOf
<1>8. \A u \in Users : r \notin RunsOf(u)
  BY <1>1 DEF RunsOf
<1>9. Cardinality(RunsOf(Owner[a])') = Cardinality(RunsOf(Owner[a])) + 1
  <2>1. IsFiniteSet(RunsOf(Owner[a])) /\ r \notin RunsOf(Owner[a])
    BY <1>5, <1>8, ActiveFacts
  <2>2. Cardinality(RunsOf(Owner[a]) \cup {r}) = Cardinality(RunsOf(Owner[a])) + 1
    BY <2>1, FS_AddElement
  <2> QED BY <1>5, <1>7, <2>2
<1>10. PermitsConserved'
  <2>1. MaxConcurrentRuns > 0 => /\ runSlots' = Cardinality(AllActive')
                                 /\ runSlots' <= MaxConcurrentRuns
    <3>1. runSlots \in Int /\ MaxConcurrentRuns \in Nat
      BY SchedulerAssumption, TypedParts DEF IInv, MemoryOK
    <3> QED BY <1>4, <3>1 DEF AdmissionIsLawful, PermitsConserved, Register, HasPermit
  <2>2. ASSUME NEW u \in Users
        PROVE  /\ userRuns'[u] = Cardinality(RunsOf(u)')
               /\ MaxRunsPerUser > 0 => userRuns'[u] <= MaxRunsPerUser
    <3>1. userRuns \in [Users -> Int] /\ MaxRunsPerUser \in Nat
      BY SchedulerAssumption, TypedParts DEF IInv, MemoryOK
    <3>2. userRuns[u] = Cardinality(RunsOf(u))
          /\ (MaxRunsPerUser > 0 => userRuns[u] <= MaxRunsPerUser)
      BY DEF AdmissionIsLawful, PermitsConserved, RunsOf
    <3>3. userRuns'[u] = IF u = Owner[a] THEN userRuns[u] + 1 ELSE userRuns[u]
      BY <1>5, <3>1 DEF Register
    <3>4. CASE u = Owner[a]
      BY <1>9, <3>1, <3>2, <3>3, <3>4 DEF HasPermit
    <3>5. CASE u # Owner[a]
      BY <1>7, <3>2, <3>3, <3>5
    <3> QED BY <3>4, <3>5
  <2> QED BY <2>1, <2>2 DEF PermitsConserved, RunsOf
<1>11. OverlapNeedsParallel'
  <2>0. active[a] \subseteq AllActive /\ IsFiniteSet(active[a]) /\ MaxParallel \in Nat \ {0}
    BY ActiveFacts, SchedulerAssumption DEF AllActive
  <2>1. Cardinality(active'[a]) <= MaxParallel
    <3>1. Cardinality(active'[a]) = Cardinality(active[a]) + 1 /\ Cardinality(active[a]) \in Nat
      BY <1>1, <1>2, <2>0, FS_AddElement, FS_CardinalityType
    <3>2. CASE d.policy = "parallel"
      BY <2>0, <3>1, <3>2 DEF Admits
    <3>3. CASE active[a] = {}
      <4>1. Cardinality(active[a]) = 0
        BY <3>3, FS_EmptySet
      <4> QED BY <2>0, <3>1, <4>1
    <3> QED BY <3>2, <3>3 DEF Admits
  <2>2. ASSUME NEW x \in active'[a], NEW y \in active'[a], x # y
        PROVE  "parallel" \in {run'[x].fire.def.policy, run'[y].fire.def.policy}
    <3>1. CASE x # r /\ y # r
      <4>1. x \in active[a] /\ y \in active[a] /\ run'[x] = run[x] /\ run'[y] = run[y]
        BY <1>2, <1>6, <2>0, <3>1
      <4> QED BY <2>2, <4>1 DEF AdmissionIsLawful, OverlapNeedsParallel
    <3>2. CASE x = r \/ y = r
      <4>1. active[a] # {}
        BY <1>2, <2>2, <3>2
      <4>2. d.policy = "parallel"
        BY <4>1 DEF Admits
      <4> QED BY <3>2, <4>2
    <3> QED BY <3>1, <3>2
  <2>3. ASSUME NEW b \in Autos, b # a
        PROVE  /\ Cardinality(active'[b]) <= MaxParallel
               /\ \A x, y \in active'[b] : x # y =>
                    "parallel" \in {run'[x].fire.def.policy, run'[y].fire.def.policy}
    <3>1. active'[b] = active[b] /\ active[b] \subseteq AllActive
      BY <1>2, <2>3 DEF AllActive
    <3> QED BY <1>6, <3>1 DEF AdmissionIsLawful, OverlapNeedsParallel
  <2> QED BY <2>1, <2>2, <2>3 DEF OverlapNeedsParallel
<1> QED BY <1>10, <1>11 DEF AdmissionIsLawful

\* endRun gives back what beginRun took.
LEMMA ReleaseLawful ==
  ASSUME IInv, AdmissionIsLawful, NEW r \in Runs, EndRun(r) PROVE AdmissionIsLawful'
<1>a. run[r].pc \in Admitted /\ run[r].fire.auto \in Autos
  <2>1. run[r].pc = "end" /\ run[r].pc \in Admitted
    BY DEF EndRun, Admitted
  <2> QED BY <2>1, RunFields, TypedParts DEF IInv
<1>b. PICK a \in Autos : a = run[r].fire.auto
  BY <1>a
<1>0. run[r].pc \in Admitted /\ Release(a, r)
  BY <1>a, <1>b DEF EndRun
<1>1. a \in Autos /\ Owner[a] \in Users
  BY SchedulerAssumption
<1>2. r \in active[a] /\ \A b \in Autos : b # a => r \notin active[b]
  BY <1>0, <1>b DEF IInv, Safe, ActiveExact
<1>3. \A b \in Autos : active'[b] = active[b] \ {r}
  BY <1>0, <1>1, <1>2, TypedParts DEF Release, IInv, MemoryOK
<1>4. AllActive' = AllActive \ {r} /\ r \in AllActive
  BY <1>1, <1>2, <1>3 DEF AllActive
<1>5. Cardinality(AllActive') = Cardinality(AllActive) - 1
  BY <1>4, ActiveFacts, FS_RemoveElement
<1>6. \A x \in AllActive \ {r} : run'[x].fire = run[x].fire
  <2>1. \A x \in Runs \ {r} : run'[x].fire = run[x].fire
    <3>1. \A x \in Runs : run[x] \in RunType
      BY TypedParts DEF IInv, RunOK
    <3> QED BY <3>1 DEF EndRun, RunType
  <2> QED BY <2>1, ActiveFacts
<1>7. \A u \in Users : RunsOf(u)' = RunsOf(u) \ {r}
  BY <1>4, <1>6 DEF RunsOf
<1>8. r \in RunsOf(Owner[a]) /\ \A u \in Users : u # Owner[a] => r \notin RunsOf(u)
  BY <1>4, <1>b DEF RunsOf
<1>9. Cardinality(RunsOf(Owner[a])') = Cardinality(RunsOf(Owner[a])) - 1
  <2>1. IsFiniteSet(RunsOf(Owner[a])) /\ r \in RunsOf(Owner[a])
    BY <1>1, <1>8, ActiveFacts
  <2>2. Cardinality(RunsOf(Owner[a]) \ {r}) = Cardinality(RunsOf(Owner[a])) - 1
    BY <2>1, FS_RemoveElement
  <2> QED BY <1>1, <1>7, <2>2
<1>10. PermitsConserved'
  <2>1. MaxConcurrentRuns > 0 => /\ runSlots' = Cardinality(AllActive')
                                 /\ runSlots' <= MaxConcurrentRuns
    <3>1. runSlots \in Int /\ MaxConcurrentRuns \in Nat
      BY SchedulerAssumption, TypedParts DEF IInv, MemoryOK
    <3> QED BY <1>0, <1>5, <3>1 DEF AdmissionIsLawful, PermitsConserved, Release
  <2>2. ASSUME NEW u \in Users
        PROVE  /\ userRuns'[u] = Cardinality(RunsOf(u)')
               /\ MaxRunsPerUser > 0 => userRuns'[u] <= MaxRunsPerUser
    <3>1. userRuns \in [Users -> Int] /\ MaxRunsPerUser \in Nat
      BY SchedulerAssumption, TypedParts DEF IInv, MemoryOK
    <3>2. userRuns[u] = Cardinality(RunsOf(u))
          /\ (MaxRunsPerUser > 0 => userRuns[u] <= MaxRunsPerUser)
      BY DEF AdmissionIsLawful, PermitsConserved, RunsOf
    <3>3. userRuns'[u] = IF u = Owner[a] THEN userRuns[u] - 1 ELSE userRuns[u]
      BY <1>0, <1>1, <3>1 DEF Release
    <3>4. CASE u = Owner[a]
      <4>1. Cardinality(RunsOf(u)') = Cardinality(RunsOf(u)) - 1
        BY <1>9, <3>4
      <4>2. userRuns[u] \in Int /\ userRuns'[u] = userRuns[u] - 1
        BY <3>1, <3>3, <3>4
      <4> QED BY <3>1, <3>2, <4>1, <4>2
    <3>5. CASE u # Owner[a]
      BY <1>7, <1>8, <3>2, <3>3, <3>5
    <3> QED BY <3>4, <3>5
  <2> QED BY <2>1, <2>2 DEF PermitsConserved, RunsOf
<1>11. OverlapNeedsParallel'
  <2>1. ASSUME NEW b \in Autos
        PROVE  /\ Cardinality(active'[b]) <= MaxParallel
               /\ \A x, y \in active'[b] : x # y =>
                    "parallel" \in {run'[x].fire.def.policy, run'[y].fire.def.policy}
    <3>1. active'[b] \subseteq active[b] /\ IsFiniteSet(active[b])
          /\ active'[b] \subseteq AllActive \ {r}
      BY <1>3, ActiveFacts DEF AllActive
    <3>2. Cardinality(active'[b]) <= Cardinality(active[b])
          /\ Cardinality(active'[b]) \in Nat /\ Cardinality(active[b]) \in Nat
      BY <3>1, FS_Subset, FS_CardinalityType
    <3>3. Cardinality(active[b]) <= MaxParallel /\ MaxParallel \in Nat
      BY SchedulerAssumption DEF AdmissionIsLawful, OverlapNeedsParallel
    <3>4. Cardinality(active'[b]) <= MaxParallel
      BY <3>2, <3>3
    <3> QED BY <1>6, <3>1, <3>4 DEF AdmissionIsLawful, OverlapNeedsParallel
  <2> QED BY <2>1 DEF OverlapNeedsParallel
<1> QED BY <1>10, <1>11 DEF AdmissionIsLawful

\* A run that was never admitted leaves, and no permit moves.
LEMMA LeaveLawful ==
  ASSUME IInv, AdmissionIsLawful, NEW r \in Runs, run[r].pc \notin Admitted,
         \A x \in Runs \ {r} : run'[x] = run[x], UNCHANGED <<active, userRuns, runSlots>>
  PROVE  AdmissionIsLawful'
<1>1. AdmissionKept
  BY DEF AdmissionKept, FireKept
<1> QED BY <1>1, KeptLawful

\* A goroutine goes on, with its permit.
LEMMA GoOnLawful ==
  ASSUME IInv, AdmissionIsLawful, UNCHANGED memory, NEW r \in Runs,
         (\E pc : Goto(r, pc)) \/ Bind(r)
  PROVE  AdmissionIsLawful'
<1>1. ASSUME NEW x \in Runs PROVE run'[x].fire = run[x].fire
  <2>1. run[x] \in RunType /\ run \in [Runs -> RunType]
    BY TypedParts DEF IInv, RunOK
  <2>2. CASE \E pc : Goto(r, pc)
    BY <2>1, <2>2 DEF Goto, RunType
  <2>3. CASE Bind(r)
    <3>1. run' = [run EXCEPT ![r] = [run[r] EXCEPT !.pc = "verify",
                                                   !.done = run[r].canceled \/ StopCtxDone]]
      BY <2>1, <2>3 DEF Bind
    <3> QED BY <2>1, <3>1 DEF RunType
  <2> QED BY <2>2, <2>3
<1>2. AdmissionKept
  BY <1>1 DEF memory, AdmissionKept, FireKept
<1> QED BY <1>2, KeptLawful

LEMMA BeginLawful ==
  ASSUME IInv, AdmissionIsLawful, NEW f \in Fires, NEW r \in Runs,
         run[r].pc \in {"free", "drain"}, FireStart(f, r) \/ FireQueue(f, r) \/ FireRefuse(f, r)
  PROVE  AdmissionIsLawful'
<1>0. run[r].pc \notin Admitted /\ f.auto \in Autos /\ Owner[f.auto] \in Users
  BY PcSets, FireFields
<1>1. CASE FireStart(f, r)
  <2>1. /\ run'[r] = [IdleRun EXCEPT !.pc = "bind", !.fire = f]
        /\ \A x \in Runs \ {r} : run'[x] = run[x]
    BY <1>1, TypedParts DEF IInv, RunOK, FireStart
  <2>2. run'[r].fire = f
    BY <2>1 DEF IdleRun
  <2>3. Admits(f.auto, f.def) /\ HasPermit(Owner[f.auto]) /\ Register(f.auto, r)
    BY <1>1 DEF FireStart
  <2> QED BY <1>0, <2>1, <2>2, <2>3, AdmitLawful
<1>2. CASE FireQueue(f, r)
  <2> DEFINE victims == IF f.def.policy = "cancel_previous" THEN active[f.auto] ELSE {}
  <2>1. \A x \in Runs \ {r} :
          \/ pending[f.auto] # NoRun /\ x = pending[f.auto]
          \/ run'[x] = Canceled(victims)[x]
    BY <1>2 DEF FireQueue
  <2> HIDE DEF victims
  <2>2. pending[f.auto] # NoRun => run[pending[f.auto]].pc = "queued"
    BY <1>0 DEF IInv, Safe, PendingReal
  <2>3. ASSUME NEW x \in Runs PROVE FireKept(x)
    BY <1>0, <2>1, <2>2, PcSets, CanceledKept DEF FireKept
  <2>4. AdmissionKept
    BY <1>2, <2>3 DEF FireQueue, AdmissionKept
  <2> QED BY <2>4, KeptLawful
<1>3. CASE FireRefuse(f, r)
  <2>1. \A x \in Runs \ {r} : run'[x] = run[x]
    BY <1>3, TypedParts DEF FireRefuse, IInv, RunOK
  <2> QED BY <1>0, <1>3, <2>1, LeaveLawful DEF FireRefuse, memory
<1> QED BY <1>1, <1>2, <1>3

LEMMA SchedulerLawful == ASSUME IInv, AdmissionIsLawful, Scheduler PROVE AdmissionIsLawful'
<1>1. CASE SchedulerFire
  <2>1. sched.fire \in Fires
    BY <1>1, TypedParts DEF SchedulerFire, IInv, SchedOK, SchedReal
  <2>2. PICK r \in Runs : /\ FreshRun(r)
                          /\ \/ FireStart(sched.fire, r) \/ FireQueue(sched.fire, r)
                             \/ FireRefuse(sched.fire, r)
    BY <1>1 DEF SchedulerFire
  <2> QED BY <2>1, <2>2, BeginLawful DEF FreshRun
<1>2. CASE ~SchedulerFire
  <2>1. UNCHANGED <<run, memory>>
    BY <1>2 DEF Scheduler, TickList, TickDrain, TickBusy, BootDrain, ClaimSlot, SkipSlot,
       ClearSlot, BootSchedule, SchedulerCapped, SchedulerStamp, PassDone
  <2>2. AdmissionKept
    BY <2>1 DEF memory, AdmissionKept, FireKept
  <2> QED BY <2>2, KeptLawful
<1> QED BY <1>1, <1>2

LEMMA ExecuteLawful ==
  ASSUME IInv, AdmissionIsLawful, NEW r \in Runs, Execute(r) PROVE AdmissionIsLawful'
<1>1. CASE DrainPending(r)
  <2> DEFINE f == [run[r].fire EXCEPT !.def = row[run[r].fire.auto].def]
  <2>1. f \in Fires
    <3>1. run[r].fire \in Fires /\ run[r].fire.auto \in Autos
      BY <1>1, RunFields, TypedParts DEF DrainPending, IInv
    <3>2. row[run[r].fire.auto].def \in Defs
      BY <3>1, TypedParts DEF IInv, RowOK, RowType
    <3> QED BY <3>1, <3>2 DEF Fires
  <2>2. \/ FireStart(f, r) \/ FireQueue(f, r) \/ FireRefuse(f, r)
        \/ run' = [run EXCEPT ![r] = IdleRun] /\ UNCHANGED memory
    BY <1>1 DEF DrainPending
  <2> HIDE DEF f
  <2>3. run[r].pc = "drain" /\ run[r].pc \notin Admitted
    BY <1>1, PcSets DEF DrainPending
  <2>4. CASE run' = [run EXCEPT ![r] = IdleRun] /\ UNCHANGED memory
    <3>1. \A x \in Runs \ {r} : run'[x] = run[x]
      BY <2>4, TypedParts DEF IInv, RunOK
    <3> QED BY <2>3, <2>4, <3>1, LeaveLawful DEF memory
  <2> QED BY <2>1, <2>2, <2>3, <2>4, BeginLawful
<1>2. CASE Bind(r)
  BY <1>2, GoOnLawful DEF Bind
<1>3. CASE \/ Verify(r) \/ Eligible(r) \/ Consume(r) \/ InsertRow(r) \/ ClaimToken(r)
           \/ StartEngine(r) \/ Finish(r) \/ Restamp(r)
  <2>1. UNCHANGED memory /\ \E pc : Goto(r, pc)
    BY <1>3 DEF Verify, Eligible, Consume, InsertRow, ClaimToken, StartEngine, Finish, Restamp
  <2> QED BY <2>1, GoOnLawful
<1> QED BY <1>1, <1>2, <1>3, ReleaseLawful DEF Execute

LEMMA HandlerLawful == ASSUME IInv, AdmissionIsLawful, HandlerStep PROVE AdmissionIsLawful'
<1>1. ASSUME NEW h \in Handlers, CommitFlip(h) PROVE AdmissionIsLawful'
  <2>1. AdmissionKept
    BY <1>1 DEF CommitFlip, memory, AdmissionKept, FireKept
  <2> QED BY <2>1, KeptLawful
<1>2. ASSUME NEW h \in Handlers, CancelAutomation(h) PROVE AdmissionIsLawful'
  <2>1. PICK a \in Autos : a = req[h].auto
    BY <1>2, TypedParts DEF CancelAutomation, IInv, ReqOK, ReqType, IdleReq
  <2>2. \A x \in Runs : run'[x] = IF x = pending[a] THEN IdleRun ELSE Canceled(active[a])[x]
    BY <1>2, <2>1 DEF CancelAutomation
  <2>3. ASSUME NEW x \in Runs, x = pending[a] PROVE run[x].pc = "queued"
    BY <2>3, SchedulerAssumption DEF IInv, Safe, PendingReal
  <2>4. ASSUME NEW x \in Runs PROVE FireKept(x)
    BY <2>2, <2>3, PcSets, CanceledKept DEF FireKept
  <2>5. AdmissionKept
    BY <1>2, <2>4 DEF CancelAutomation, AdmissionKept
  <2> QED BY <2>5, KeptLawful
<1>3. ASSUME NEW r \in Runs, TriggerBegin(r) PROVE AdmissionIsLawful'
  <2>1. run[r].pc = "trigger" /\ run[r].pc \notin Admitted
    BY <1>3, PcSets DEF TriggerBegin
  <2>2. PICK f \in Fires : f = run[r].fire
    BY <2>1, RunFields, TypedParts DEF IInv, RunOK, RunsReal
  <2>3. CASE /\ Admits(f.auto, f.def) /\ HasPermit(Owner[f.auto])
             /\ Register(f.auto, r) /\ Goto(r, "record")
    <3>1. /\ run'[r].fire = f
          /\ \A x \in Runs \ {r} : run'[x] = run[x]
      BY <2>2, <2>3, TypedParts DEF Goto, IInv, RunOK, RunType
    <3> QED BY <2>1, <2>3, <3>1, FireFields, AdmitLawful
  <2>4. CASE run' = [run EXCEPT ![r] = IdleRun] /\ UNCHANGED <<active, userRuns, runSlots>>
    <3>1. \A x \in Runs \ {r} : run'[x] = run[x]
      BY <2>4, TypedParts DEF IInv, RunOK
    <3> QED BY <2>1, <2>4, <3>1, LeaveLawful
  <2> QED BY <1>3, <2>2, <2>3, <2>4 DEF TriggerBegin
<1>4. ASSUME NEW r \in Runs, TriggerRecord(r) PROVE AdmissionIsLawful'
  <2>1. UNCHANGED memory /\ \E pc : Goto(r, pc)
    BY <1>4 DEF TriggerRecord
  <2> QED BY <2>1, GoOnLawful
<1> QED BY <1>1, <1>2, <1>3, <1>4 DEF HandlerStep

LEMMA RequestLawful == ASSUME IInv, AdmissionIsLawful, UserRequest PROVE AdmissionIsLawful'
<1>1. ASSUME NEW a \in Autos, Trigger(a) PROVE AdmissionIsLawful'
  <2>1. PICK r \in Runs : FreshRun(r) /\ \A x \in Runs \ {r} : run'[x] = run[x]
    BY <1>1, TypedParts DEF Trigger, IInv, RunOK
  <2>2. run[r].pc \notin Admitted
    BY <2>1, PcSets DEF FreshRun
  <2> QED BY <1>1, <2>1, <2>2, LeaveLawful DEF Trigger, memory
<1>2. CASE ~\E a \in Autos : Trigger(a)
  <2>1. UNCHANGED <<run, memory>>
    BY <1>2 DEF UserRequest, Create, Update, Delete, ReadFlip
  <2>2. AdmissionKept
    BY <2>1 DEF memory, AdmissionKept, FireKept
  <2> QED BY <2>2, KeptLawful
<1> QED BY <1>1, <1>2

LEMMA ProcessLawful ==
  ASSUME IInv, AdmissionIsLawful, ClockTick \/ Start \/ Signal \/ Stop \/ StopReturns
  PROVE  AdmissionIsLawful'
<1>1. UNCHANGED memory
  BY DEF ClockTick, Start, Signal, Stop, StopReturns
<1>2. ASSUME NEW x \in Runs PROVE FireKept(x)
  <2>1. CASE Signal
    <3>1. run[x] \in RunType
      BY TypedParts DEF IInv, RunOK
    <3> QED BY <2>1, <3>1 DEF Signal, FireKept, RunType
  <2>2. CASE Stop
    BY <2>2, CanceledKept DEF Stop, FireKept
  <2>3. CASE ClockTick \/ Start \/ StopReturns
    BY <2>3 DEF ClockTick, Start, StopReturns, FireKept
  <2> QED BY <2>1, <2>2, <2>3
<1>3. AdmissionKept
  BY <1>1, <1>2 DEF memory, AdmissionKept
<1> QED BY <1>3, KeptLawful

\* Nobody is admitted, in a process that has not started.
NobodyAdmitted == /\ active = [a \in Autos |-> {}] /\ userRuns = [u \in Users |-> 0]
                  /\ runSlots = 0
LEMMA IdleLawful == NobodyAdmitted => AdmissionIsLawful
<1> SUFFICES ASSUME NobodyAdmitted PROVE AdmissionIsLawful
  OBVIOUS
<1> USE DEF NobodyAdmitted
<1>1. AllActive = {} /\ \A a \in Autos : active[a] = {}
  BY DEF AllActive
<1>2. \A u \in Users : userRuns[u] = 0 /\ {r \in AllActive : Owner[run[r].fire.auto] = u} = {}
  BY <1>1
<1>3. Cardinality({}) = 0 /\ MaxParallel \in Nat /\ MaxRunsPerUser \in Nat
      /\ MaxConcurrentRuns \in Nat
  BY FS_EmptySet, SchedulerAssumption
<1> QED BY <1>1, <1>2, <1>3 DEF AdmissionIsLawful, PermitsConserved, OverlapNeedsParallel

LEMMA ExitLawful == NobodyAdmitted' => AdmissionIsLawful'
BY IdleLawful, PTL

\* Permits are out for exactly the admitted runs, of all users and of each, within the caps; and
\* runs of one automation overlap only under the parallel policy, MaxParallel of them at most
\* (beginRun and endRun), whatever is cancelled, queued, refused or popped in between.
THEOREM AdmissionLawful == Spec => []AdmissionIsLawful
<1>1. Init => AdmissionIsLawful
  BY IdleLawful DEF Init, NobodyAdmitted
<1>2. IInv /\ AdmissionIsLawful /\ [Next]_vars => AdmissionIsLawful'
  <2> SUFFICES ASSUME IInv, AdmissionIsLawful, [Next]_vars PROVE AdmissionIsLawful'
    OBVIOUS
  <2>1. CASE Exit
    <3>1. NobodyAdmitted'
      BY <2>1 DEF Exit, NobodyAdmitted
    <3> QED BY <3>1, ExitLawful
  <2>2. CASE UNCHANGED vars
    <3>1. AdmissionKept
      BY <2>2 DEF vars, AdmissionKept, FireKept
    <3> QED BY <3>1, KeptLawful
  <2> QED BY <2>1, <2>2, SchedulerLawful, ExecuteLawful, HandlerLawful, RequestLawful,
             ProcessLawful DEF Next
<1> QED BY <1>1, <1>2, Inductive, PTL DEF Spec

-----------------------------------------------------------------------------
(* What a queued replacement rests on: everybody who holds a token agrees on  *)
(* its automation, its generation and its definition.                         *)

\* The occurrence of a fire, if it has one, is of its automation and its generation.
Own(f) == f.occ # NoOcc => f.occ.auto = f.auto /\ f.occ.gen = f.gen
\* A fire that a run, the scheduler or the rest of a scan has in hand.
RunHolds(f) == \E r \in Runs : run[r].pc # "free" /\ run[r].fire = f
SchedHolds(f) ==
  \/ sched.pc \in {"fire", "stamp"} /\ sched.fire = f
  \/ \E a \in sched.todo : /\ f.auto = a /\ f.gen = sched.snap[a].gen /\ f.def = sched.snap[a].def
                           /\ f.token \in {NoToken, sched.snap[a].token}
                           /\ IF f.token = NoToken THEN Own(f) ELSE f.occ = sched.snap[a].occ
InFlight(f) == RunHolds(f) \/ SchedHolds(f)
\* It is of no later generation than the row, and of the same definition, which is enabled, if of
\* the same generation; its token is in no other row, and in this one only with its generation and
\* its occurrence; and the occurrence is its own.
Agrees(f) ==
  /\ f.gen <= row[f.auto].gen
  /\ f.gen = row[f.auto].gen => f.def = row[f.auto].def /\ row[f.auto].enabled
  /\ \A b \in Autos : f.token # NoToken /\ row[b].token = f.token =>
                        b = f.auto /\ row[b].gen = f.gen /\ row[b].occ = f.occ
  /\ Own(f)
Agreed == \A f \in Fires : InFlight(f) => Agrees(f)
\* No two rows have one token, and the occurrence of a row is its own and comes with a token.
Files(a, o) == o # NoOcc => o.auto = a /\ o.gen = row[a].gen
Apart == /\ \A a, b \in Autos : row[a].token # NoToken /\ row[a].token = row[b].token => a = b
         /\ \A a \in Autos : Files(a, row[a].occ) /\ (row[a].token = NoToken => row[a].occ = NoOcc)

\* A replacement of the row's generation has a token in the row that no admitted run has.
Backs(a) == pending[a] # NoRun =>
  LET f == run[pending[a]].fire IN
  /\ f.def.policy \in {"queue_one", "cancel_previous"}
  /\ row[a].gen = f.gen => /\ row[a].token # NoToken
                           /\ \A r \in active[a] : run[r].fire.token # row[a].token
Backed == \A a \in Autos : Backs(a)
\* Who waits, waits for somebody.
Occupied == Started => \A a \in Autos : pending[a] # NoRun => active[a] # {}
\* reconcile drains the token of an automation before anything else of it runs.
BootFirst == phase = "boot" => \A a \in sched.todo : sched.snap[a].token # NoToken =>
  /\ \A r \in Runs : run[r].pc # "free" => run[r].fire.auto # a
  /\ sched.pc \in {"fire", "stamp"} => sched.fire.auto # a
\* A manual run has no token.
Bare == \A r \in Runs : run[r].pc = "trigger" => run[r].fire.token = NoToken
TokenInv == Agreed /\ Apart /\ Backed /\ Occupied /\ BootFirst /\ Bare

\* What a step does to the rows: no token is new, or one automation is edited or created, or one
\* is given a fresh token.
Quiet == \A b \in Autos :
  /\ row'[b].gen = row[b].gen /\ row'[b].def = row[b].def /\ row'[b].enabled = row[b].enabled
  /\ \/ row'[b].token = row[b].token /\ row'[b].occ = row[b].occ
     \/ row'[b].token = NoToken /\ row'[b].occ = NoOcc
Moves(a) == /\ row'[a].gen > row[a].gen /\ row'[a].token = NoToken /\ row'[a].occ = NoOcc
            /\ \A b \in Autos \ {a} : row'[b] = row[b]
Stamps(a, t, o) == /\ row'[a].gen = row[a].gen /\ row'[a].def = row[a].def
                   /\ row'[a].enabled = row[a].enabled
                   /\ row'[a].token = t /\ row'[a].occ = o
                   /\ \A b \in Autos \ {a} : row'[b] = row[b]
RowStep == \/ Quiet \/ \E a \in Autos : Moves(a)
           \/ \E a \in Autos : \E t \in FreshTokens : \E o : Files(a, o) /\ Stamps(a, t, o)

LEMMA Generations ==
  ASSUME IInv, NEW a \in Autos
  PROVE  row[a].gen \in Nat /\ \A f \in Fires : f.auto \in Autos /\ f.gen \in Nat /\ f.gen >= 1
<1>1. row[a] \in RowType
  BY TypedParts DEF IInv, RowOK
<1> QED BY <1>1, FireFields, SchedulerAssumption DEF RowType

LEMMA NextGenerations ==
  ASSUME IInv', NEW a \in Autos PROVE row'[a].gen \in Nat
<1>1. row'[a] \in RowType
  BY TypedNext DEF IInv, RowOK
<1> QED BY <1>1, SchedulerAssumption DEF RowType

\* A fresh token is nobody's.
LEMMA FreshIsNobodys ==
  ASSUME IInv, NEW t \in FreshTokens
  PROVE  /\ t # NoToken /\ \A b \in Autos : row[b].token # t
         /\ \A f \in Fires : InFlight(f) => f.token # t
         /\ \A r \in Runs : run[r].pc # "free" => run[r].fire.token # t
<1>1. t \in Tokens /\ t \notin TokensInUse /\ t # NoToken
  BY SchedulerAssumption DEF FreshTokens
<1>2. \A b \in Autos : row[b].token # t /\ sched.snap[b].token # t
  BY <1>1 DEF TokensInUse
<1>3. \A r \in Runs : run[r].pc # "free" => run[r].fire.token # t
  BY <1>1 DEF TokensInUse
<1>4. sched.fire # NoFire => sched.fire.token # t
  BY <1>1 DEF TokensInUse
<1>5. ASSUME NEW f \in Fires, sched.pc \in {"fire", "stamp"}, sched.fire = f PROVE f.token # t
  <2>1. f.auto \in Autos /\ f.auto # 0
    BY FireFields, SchedulerAssumption
  <2>2. f # NoFire
    BY <2>1 DEF NoFire
  <2> QED BY <1>4, <1>5, <2>2
<1>6. sched.todo \subseteq Autos
  BY TypedParts DEF IInv, SchedOK
<1> QED BY <1>1, <1>2, <1>3, <1>5, <1>6 DEF InFlight, RunHolds, SchedHolds

LEMMA AgreesOn ==
  ASSUME IInv, IInv', RowStep, NEW f \in Fires, InFlight(f), Agrees(f)
  PROVE  Agrees(f)'
<1>0. f.auto \in Autos /\ f.gen \in Nat /\ row[f.auto].gen \in Nat
  BY Generations, FireFields
<1>1. CASE Quiet
  BY <1>0, <1>1 DEF Quiet, Agrees, Own
<1>2. ASSUME NEW a \in Autos, Moves(a) PROVE Agrees(f)'
  <2>1. CASE f.auto = a
    <3>1. row'[a].gen > f.gen /\ row'[a].gen \in Nat
      BY <1>0, <1>2, <2>1, NextGenerations DEF Moves, Agrees
    <3> QED BY <1>0, <1>2, <2>1, <3>1 DEF Moves, Agrees, Own
  <2>2. CASE f.auto # a
    BY <1>0, <1>2, <2>2 DEF Moves, Agrees, Own
  <2> QED BY <2>1, <2>2
<1>3. ASSUME NEW a \in Autos, NEW t \in FreshTokens, NEW o, Stamps(a, t, o) PROVE Agrees(f)'
  <2>1. f.token # t
    BY FreshIsNobodys
  <2>2. /\ row'[f.auto].gen = row[f.auto].gen /\ row'[f.auto].def = row[f.auto].def
        /\ row'[f.auto].enabled = row[f.auto].enabled
    BY <1>0, <1>3 DEF Stamps
  <2> QED BY <1>3, <2>1, <2>2 DEF Stamps, Agrees, Own
<1> QED BY <1>1, <1>2, <1>3 DEF RowStep

LEMMA ApartOn == ASSUME IInv, Apart, RowStep PROVE Apart'
<1>1. CASE Quiet
  BY <1>1 DEF Quiet, Apart, Files
<1>2. ASSUME NEW a \in Autos, Moves(a) PROVE Apart'
  BY <1>2 DEF Moves, Apart, Files
<1>3. ASSUME NEW a \in Autos, NEW t \in FreshTokens, NEW o, Files(a, o), Stamps(a, t, o) PROVE Apart'
  BY <1>3, FreshIsNobodys DEF Stamps, Apart, Files
<1> QED BY <1>1, <1>2, <1>3 DEF RowStep

LEMMA AgreedOn ==
  ASSUME IInv, IInv', Agreed, RowStep,
         \A g \in Fires : InFlight(g)' => InFlight(g) \/ Agrees(g)'
  PROVE  Agreed'
<1>1. ASSUME NEW g \in Fires, InFlight(g)' PROVE Agrees(g)'
  BY <1>1, AgreesOn DEF Agreed
<1> QED BY <1>1 DEF Agreed

\* The writes of the store, as row steps.
LEMMA StampStep ==
  ASSUME IInv, NEW a \in Autos, NEW t, NEW o, row' = Stamp(a, t, o)
  PROVE  Stamps(a, t, o)
<1>1. row \in [Autos -> RowType]
  BY TypedParts DEF IInv, RowOK
<1> QED BY <1>1 DEF Stamp, Stamps, RowType

LEMMA ClearStep ==
  ASSUME IInv, NEW a \in Autos, row' = ClearToken(a)
  PROVE  Quiet /\ row'[a].token = NoToken /\ \A b \in Autos \ {a} : row'[b] = row[b]
<1>1. row \in [Autos -> RowType]
  BY TypedParts DEF IInv, RowOK
<1> QED BY <1>1 DEF ClearToken, Quiet, RowType

LEMMA NextStep ==
  ASSUME IInv, NEW a \in Autos, NEW n, row' = [row EXCEPT ![a].next = n]
  PROVE  Quiet /\ \A b \in Autos : row'[b].token = row[b].token /\ row'[b].occ = row[b].occ
<1>1. row \in [Autos -> RowType]
  BY TypedParts DEF IInv, RowOK
<1> QED BY <1>1 DEF Quiet, RowType

\* No row of an automation in whose name a replacement waits loses its token without moving on.
RowsBack == \A a \in Autos : pending[a] # NoRun /\ pending'[a] # NoRun =>
  \/ row'[a].gen > row[a].gen
  \/ row'[a].gen = row[a].gen /\ row'[a].token \in FreshTokens \cup {row[a].token}
  \/ row[a].gen = row'[a].gen /\ row[a].gen # run[pending[a]].fire.gen

LEMMA BacksOn ==
  ASSUME IInv, Agreed, RowsBack, NEW a \in Autos, Backs(a),
         pending'[a] \in {pending[a], NoRun},
         pending'[a] # NoRun => run'[pending[a]].fire = run[pending[a]].fire,
         active'[a] \subseteq active[a], \A r \in active'[a] : run'[r].fire = run[r].fire
  PROVE  Backs(a)'
<1> SUFFICES ASSUME pending'[a] # NoRun PROVE Backs(a)'
  BY DEF Backs
<1>1. pending'[a] = pending[a] /\ pending[a] # NoRun /\ pending[a] \in Runs
  BY TypedParts DEF IInv, MemoryOK
<1>2. PICK f \in Fires : f = run[pending[a]].fire
  BY <1>1, TypedParts DEF IInv, Safe, PendingReal, RunOK, RunsReal
<1>3. f.auto = a /\ InFlight(f)
  BY <1>1, <1>2 DEF IInv, Safe, PendingReal, InFlight, RunHolds
<1>4. f.gen <= row[a].gen /\ f.gen \in Nat /\ row[a].gen \in Nat
  BY <1>3, Generations DEF Agreed, Agrees
<1>5. f = run'[pending'[a]].fire
  BY <1>1, <1>2
<1>6. f.def.policy \in {"queue_one", "cancel_previous"}
  BY <1>1, <1>2 DEF Backs
<1>7. ASSUME row'[a].gen = f.gen
      PROVE  row'[a].token # NoToken /\ \A r \in active'[a] : run'[r].fire.token # row'[a].token
  <2>1. row'[a].gen = row[a].gen /\ row'[a].token \in FreshTokens \cup {row[a].token}
    BY <1>1, <1>2, <1>4, <1>7 DEF RowsBack
  <2>2. row[a].token # NoToken /\ \A r \in active[a] : run[r].fire.token # row[a].token
    BY <1>1, <1>2, <1>7, <2>1 DEF Backs
  <2>3. \A r \in active[a] : r \in Runs /\ run[r].pc # "free"
    BY ActiveFacts, PcSets
  <2> QED BY <2>1, <2>2, <2>3, FreshIsNobodys
<1> QED BY <1>5, <1>6, <1>7 DEF Backs

-----------------------------------------------------------------------------
(* Shapes of steps.                                                          *)

\* Whoever holds a fire after the step held it before, or the fire agrees with the new rows.
Origin == \A g \in Fires : InFlight(g)' => InFlight(g) \/ Agrees(g)'
\* No run has a fire that it did not have.
RunsOld == \A x \in Runs : run'[x].pc # "free" => run[x].pc # "free" /\ run'[x].fire = run[x].fire
SchedOld == \A g \in Fires : SchedHolds(g)' => SchedHolds(g)

LEMMA OldOrigin == ASSUME RunsOld, SchedOld PROVE Origin
BY DEF RunsOld, SchedOld, Origin, InFlight, RunHolds

LEMMA SameSched == ASSUME UNCHANGED sched PROVE SchedOld
BY DEF SchedOld, SchedHolds

LEMMA BootOn ==
  ASSUME BootFirst, phase' = "boot" => phase = "boot",
         \A x \in Runs : run'[x].pc # "free" =>
           \/ \E y \in Runs : run[y].pc # "free" /\ run'[x].fire.auto = run[y].fire.auto
           \/ sched.pc \in {"fire", "stamp"} /\ run'[x].fire.auto = sched.fire.auto,
         sched'.pc \in {"fire", "stamp"} =>
           \/ sched.pc \in {"fire", "stamp"} /\ sched'.fire.auto = sched.fire.auto
           \/ sched'.fire.auto \notin sched'.todo \/ sched'.snap[sched'.fire.auto].token = NoToken,
         \A a \in sched'.todo : a \in sched.todo
                                /\ sched'.snap[a].token \in {sched.snap[a].token, NoToken}
  PROVE  BootFirst'
BY DEF BootFirst

\* In any other phase there is nothing to show.
LEMMA NotBoot == ASSUME phase' # "boot" PROVE BootFirst'
BY DEF BootFirst

\* The runs may go on and the scheduler does nothing.
LEMMA BootSame ==
  ASSUME BootFirst, RunsOld, UNCHANGED sched, phase' = "boot" => phase = "boot"
  PROVE  BootFirst'
BY BootOn DEF RunsOld

LEMMA StepKeeps ==
  ASSUME IInv, IInv', TokenInv, RowStep, RowsBack, Origin, Occupied', BootFirst', Bare',
         \A a \in Autos :
           /\ pending'[a] \in {pending[a], NoRun}
           /\ pending'[a] # NoRun => run'[pending[a]].fire = run[pending[a]].fire
           /\ active'[a] \subseteq active[a]
           /\ \A r \in active'[a] : run'[r].fire = run[r].fire
  PROVE  TokenInv'
<1>1. Agreed' /\ Apart'
  BY AgreedOn, ApartOn DEF TokenInv, Origin
<1>2. ASSUME NEW a \in Autos PROVE Backs(a)'
  BY BacksOn DEF TokenInv, Backed
<1>3. Backed'
  BY <1>2 DEF Backed
<1> QED BY <1>1, <1>3 DEF TokenInv

\* The runs that are admitted or wait keep their fires, and nobody else enters.
LEMMA CalmKeeps ==
  ASSUME IInv, IInv', TokenInv, RowStep, RowsBack, RunsOld, Origin, BootFirst',
         UNCHANGED <<active, pending>>, Started' => Started,
         \A r \in Runs : run[r].pc \in Admitted \cup {"queued"} => run'[r].fire = run[r].fire,
         \A r \in Runs : run'[r].pc = "trigger" => run[r].pc = "trigger"
  PROVE  TokenInv'
<1>1. Occupied'
  BY DEF TokenInv, Occupied
<1>2. Bare'
  BY DEF TokenInv, Bare, RunsOld
<1>3. ASSUME NEW a \in Autos
      PROVE  /\ pending'[a] \in {pending[a], NoRun}
             /\ pending'[a] # NoRun => run'[pending[a]].fire = run[pending[a]].fire
             /\ active'[a] \subseteq active[a]
             /\ \A r \in active'[a] : run'[r].fire = run[r].fire
  <2>1. pending[a] # NoRun => pending[a] \in Runs /\ run[pending[a]].pc = "queued"
    BY TypedParts DEF IInv, MemoryOK, Safe, PendingReal
  <2>2. \A r \in active[a] : r \in Runs /\ run[r].pc \in Admitted
    BY ActiveFacts
  <2> QED BY <2>1, <2>2
<1> QED BY <1>1, <1>2, <1>3, StepKeeps

\* No run moves.
LEMMA StillKeeps ==
  ASSUME IInv, IInv', TokenInv, RowStep, RowsBack, Origin, BootFirst',
         UNCHANGED <<run, active, pending>>, Started' => Started
  PROVE  TokenInv'
<1>1. RunsOld
  BY DEF RunsOld
<1> QED BY <1>1, CalmKeeps

LEMMA SameRows == ASSUME UNCHANGED row PROVE RowStep /\ (IInv => RowsBack)
BY DEF RowStep, Quiet, RowsBack

LEMMA MovedRows ==
  ASSUME NEW a \in Autos, Moves(a) PROVE RowStep /\ RowsBack
<1>1. RowStep
  BY DEF RowStep
<1>2. ASSUME NEW b \in Autos
      PROVE  \/ row'[b].gen > row[b].gen
             \/ row'[b].gen = row[b].gen /\ row'[b].token \in FreshTokens \cup {row[b].token}
  BY DEF Moves
<1> QED BY <1>1, <1>2 DEF RowsBack

LEMMA StampedRows ==
  ASSUME NEW a \in Autos, NEW t \in FreshTokens, NEW o, Files(a, o), Stamps(a, t, o)
  PROVE  RowStep /\ RowsBack
<1>1. RowStep
  BY DEF RowStep
<1>2. ASSUME NEW b \in Autos
      PROVE  row'[b].gen = row[b].gen /\ row'[b].token \in FreshTokens \cup {row[b].token}
  BY DEF Stamps
<1> QED BY <1>1, <1>2 DEF RowsBack

LEMMA StampFreshRows ==
  ASSUME IInv, NEW f \in Fires, Agrees(f), StampFresh(f) PROVE RowStep /\ RowsBack
<1>0. f.auto \in Autos
  BY FireFields
<1>1. CASE UNCHANGED row
  BY <1>1, SameRows
<1>2. ASSUME Stampable(f.auto, f.gen), NEW t \in FreshTokens, row' = Stamp(f.auto, t, f.occ)
      PROVE  RowStep /\ RowsBack
  <2>1. Files(f.auto, f.occ)
    BY <1>2 DEF Agrees, Own, Files, Stampable
  <2> QED BY <1>0, <1>2, <2>1, StampStep, StampedRows
<1> QED BY <1>1, <1>2 DEF StampFresh

\* An admitted run consumes its own token, which backs no replacement of this generation.
LEMMA ClearedRows ==
  ASSUME IInv, TokenInv, NEW r \in Runs, run[r].pc \in Admitted,
         Claimable(run[r].fire.auto, run[r].fire.token), row' = ClearToken(run[r].fire.auto)
  PROVE  RowStep /\ RowsBack
<1>0. run[r].fire.auto \in Autos
  BY RunFields, TypedParts, PcSets DEF IInv
<1>1. PICK a \in Autos : a = run[r].fire.auto
  BY <1>0
<1>2. Quiet /\ row'[a].token = NoToken /\ \A b \in Autos \ {a} : row'[b] = row[b]
  BY <1>1, ClearStep
<1>3. r \in active[a] /\ run[r].fire.token = row[a].token
  BY <1>1 DEF IInv, Safe, ActiveExact, Claimable
<1>4. pending[a] # NoRun => row[a].gen # run[pending[a]].fire.gen
  BY <1>3 DEF TokenInv, Backed, Backs
<1>5. ASSUME NEW b \in Autos, pending[b] # NoRun
      PROVE  \/ row'[b].gen = row[b].gen /\ row'[b].token \in FreshTokens \cup {row[b].token}
             \/ row[b].gen = row'[b].gen /\ row[b].gen # run[pending[b]].fire.gen
  BY <1>2, <1>4, <1>5 DEF Quiet
<1> QED BY <1>2, <1>5 DEF RowStep, RowsBack

-----------------------------------------------------------------------------
(* What the scheduler holds.                                                 *)

\* The scan goes on: a fire it takes in hand is one that the scan held, of a row it has
\* done the drain half of.
SchedStep ==
  /\ \A a \in sched'.todo :
       /\ a \in sched.todo /\ sched'.snap[a].gen = sched.snap[a].gen
       /\ sched'.snap[a].def = sched.snap[a].def
       /\ sched'.snap[a].token \in {sched.snap[a].token, NoToken}
       /\ sched'.snap[a].occ = sched.snap[a].occ
  /\ sched'.pc \in {"fire", "stamp"} =>
       \/ sched.pc \in {"fire", "stamp"} /\ sched'.fire = sched.fire
       \/ LET f == sched'.fire IN
          /\ f.auto \in sched.todo /\ f.gen = sched.snap[f.auto].gen
          /\ f.def = sched.snap[f.auto].def /\ f.token \in {NoToken, sched.snap[f.auto].token}
          /\ IF f.token = NoToken THEN Own(f) ELSE f.occ = sched.snap[f.auto].occ
          /\ f.auto \notin sched'.todo \/ sched'.snap[f.auto].token = NoToken

LEMMA StepOld == ASSUME SchedStep PROVE SchedOld
<1>1. ASSUME NEW g \in Fires, sched'.pc \in {"fire", "stamp"}, sched'.fire = g
      PROVE  SchedHolds(g)
  BY <1>1 DEF SchedStep, SchedHolds
<1>2. ASSUME NEW g \in Fires, NEW a \in sched'.todo, g.auto = a, g.gen = sched'.snap[a].gen,
             g.def = sched'.snap[a].def, g.token \in {NoToken, sched'.snap[a].token},
             IF g.token = NoToken THEN Own(g) ELSE g.occ = sched'.snap[a].occ
      PROVE  SchedHolds(g)
  BY <1>2 DEF SchedStep, SchedHolds
<1> QED BY <1>1, <1>2 DEF SchedOld, SchedHolds

LEMMA StepBoot ==
  ASSUME BootFirst, SchedStep, phase' = "boot" => phase = "boot",
         \A x \in Runs : run'[x].pc # "free" =>
           \/ \E y \in Runs : run[y].pc # "free" /\ run'[x].fire.auto = run[y].fire.auto
           \/ sched.pc \in {"fire", "stamp"} /\ run'[x].fire.auto = sched.fire.auto
  PROVE  BootFirst'
<1>1. sched'.pc \in {"fire", "stamp"} =>
        \/ sched.pc \in {"fire", "stamp"} /\ sched'.fire.auto = sched.fire.auto
        \/ sched'.fire.auto \notin sched'.todo \/ sched'.snap[sched'.fire.auto].token = NoToken
  BY DEF SchedStep
<1>2. \A a \in sched'.todo : a \in sched.todo
                             /\ sched'.snap[a].token \in {sched.snap[a].token, NoToken}
  BY DEF SchedStep
<1> QED BY <1>1, <1>2, BootOn

\* The scheduler rests, or lets go of the fire in hand.
LEMMA RestStep ==
  ASSUME IInv, sched' \in {sched, [sched EXCEPT !.pc = "scan", !.fire = NoFire],
                           [sched EXCEPT !.pc = "stamp"]},
         sched'.pc = "stamp" => sched.pc \in {"fire", "stamp"}
  PROVE  SchedStep
BY TypedParts DEF IInv, SchedOK, SchedStep

\* A fresh list of rows: everything it holds is what the rows say.
LEMMA ListAgrees ==
  ASSUME IInv, Apart, UNCHANGED row, sched'.pc = "scan", sched'.todo \subseteq Schedulable,
         \A a \in sched'.todo : sched'.snap[a] = Snapshot[a],
         NEW g \in Fires, SchedHolds(g)'
  PROVE  Agrees(g)'
<1>1. PICK a \in sched'.todo : /\ g.auto = a /\ g.gen = sched'.snap[a].gen
                               /\ g.def = sched'.snap[a].def
                               /\ g.token \in {NoToken, sched'.snap[a].token}
                               /\ IF g.token = NoToken THEN Own(g) ELSE g.occ = sched'.snap[a].occ
  BY DEF SchedHolds, Own
<1>2. a \in Autos /\ a \in Schedulable
  BY <1>1 DEF Schedulable
<1>3. /\ sched'.snap[a].gen = row[a].gen /\ sched'.snap[a].def = row[a].def
      /\ sched'.snap[a].token = row[a].token /\ sched'.snap[a].occ = row[a].occ
      /\ row[a].enabled
  <2>1. sched'.snap[a] = Snapshot[a]
    BY <1>1
  <2>2. Snapshot[a] = [def |-> row[a].def, gen |-> row[a].gen, next |-> row[a].next,
                       token |-> row[a].token, occ |-> row[a].occ]
    BY <1>2 DEF Snapshot
  <2> QED BY <1>2, <2>1, <2>2 DEF Schedulable
<1>4. row[a].gen \in Nat
  BY <1>2, Generations
<1>5. Own(g)
  BY <1>1, <1>2, <1>3 DEF Own, Apart, Files
<1>6. row' = row
  OBVIOUS
<1> QED BY <1>1, <1>2, <1>3, <1>4, <1>5, <1>6 DEF Agrees, Apart, Own

-----------------------------------------------------------------------------
(* The outcomes of beginRun.                                                 *)

\* A run is admitted; its token backs no replacement that waits.
LEMMA AdmitKeeps ==
  ASSUME IInv, IInv', TokenInv, Origin, BootFirst', UNCHANGED <<row, pending, phase>>,
         NEW r \in Runs, NEW a \in Autos, Register(a, r),
         run[r].pc \notin Admitted \cup {"queued"}, run'[r].pc # "trigger",
         \A x \in Runs \ {r} : run'[x] = run[x],
         pending[a] # NoRun /\ row[a].gen = run[pending[a]].fire.gen =>
           run'[r].fire.token # row[a].token
  PROVE  TokenInv'
<1>0. RowStep /\ RowsBack
  BY SameRows
<1>1. Agreed' /\ Apart'
  BY <1>0, AgreedOn, ApartOn DEF TokenInv, Origin
<1>2. \A b \in Autos : active'[b] = IF b = a THEN active[a] \cup {r} ELSE active[b]
  BY TypedParts DEF IInv, MemoryOK, Register
<1>3. Occupied'
  BY <1>2 DEF TokenInv, Occupied, Started
<1>4. Bare'
  BY DEF TokenInv, Bare
<1>5. ASSUME NEW b \in Autos
      PROVE  /\ pending[b] # NoRun => pending[b] \in Runs \ {r}
             /\ \A x \in active[b] : x \in Runs \ {r}
  <2>1. pending[b] # NoRun => pending[b] \in Runs /\ run[pending[b]].pc = "queued"
    BY TypedParts DEF IInv, MemoryOK, Safe, PendingReal
  <2>2. \A x \in active[b] : x \in Runs /\ run[x].pc \in Admitted
    BY ActiveFacts
  <2> QED BY <2>1, <2>2
<1>6. ASSUME NEW b \in Autos PROVE Backs(b)'
  <2>1. CASE b # a
    <3>1. active'[b] \subseteq active[b] /\ \A x \in active'[b] : run'[x].fire = run[x].fire
      BY <1>2, <1>5, <2>1
    <3>2. pending'[b] = pending[b] /\ (pending[b] # NoRun => run'[pending[b]] = run[pending[b]])
      BY <1>5
    <3> QED BY <1>0, <3>1, <3>2, BacksOn DEF TokenInv, Backed
  <2>2. CASE b = a
    <3>1. pending'[a] = pending[a] /\ (pending[a] # NoRun => run'[pending[a]] = run[pending[a]])
      BY <1>5
    <3>2. \A x \in active'[a] : x = r \/ (x \in active[a] /\ run'[x] = run[x])
      BY <1>2, <1>5
    <3> QED BY <2>2, <3>1, <3>2 DEF TokenInv, Backed, Backs
  <2> QED BY <2>1, <2>2
<1> QED BY <1>1, <1>3, <1>4, <1>6 DEF TokenInv, Backed

LEMMA StartKeeps ==
  ASSUME IInv, IInv', TokenInv, NEW f \in Fires, NEW r \in Runs, run[r].pc \in {"free", "drain"},
         Agrees(f), FireStart(f, r), UNCHANGED phase, SchedOld, BootFirst'
  PROVE  TokenInv'
<1>0. f.auto \in Autos
  BY FireFields
<1>1. PICK a \in Autos : a = f.auto
  BY <1>0
<1>2. /\ run'[r] = [IdleRun EXCEPT !.pc = "bind", !.fire = f]
      /\ \A x \in Runs \ {r} : run'[x] = run[x]
  BY TypedParts DEF IInv, RunOK, FireStart
<1>3. run'[r].pc = "bind" /\ run'[r].fire = f
  BY <1>2 DEF IdleRun
<1>4. Started /\ Admits(a, f.def) /\ Register(a, r) /\ UNCHANGED <<row, pending>>
  BY <1>1 DEF FireStart
<1>5. Agrees(f)'
  BY <1>4 DEF Agrees, Own
<1>6. ASSUME NEW g \in Fires, RunHolds(g)' PROVE InFlight(g) \/ Agrees(g)'
  <2>1. PICK x \in Runs : run'[x].pc # "free" /\ run'[x].fire = g
    BY <1>6 DEF RunHolds
  <2>2. CASE x = r
    BY <1>3, <1>5, <2>1, <2>2
  <2>3. CASE x # r
    BY <1>2, <2>1, <2>3 DEF InFlight, RunHolds
  <2> QED BY <2>2, <2>3
<1>7. Origin
  BY <1>6 DEF Origin, InFlight, SchedOld
<1>8. ASSUME pending[a] # NoRun, row[a].gen = run[pending[a]].fire.gen, f.token = row[a].token
      PROVE  FALSE
  <2>1. active[a] # {}
    BY <1>4, <1>8 DEF TokenInv, Occupied
  <2>2. f.def.policy = "parallel"
    BY <1>4, <2>1 DEF Admits
  <2>3. row[a].token # NoToken /\ run[pending[a]].fire.def.policy \in {"queue_one", "cancel_previous"}
    BY <1>8 DEF TokenInv, Backed, Backs
  <2>4. f.def = row[a].def
    BY <1>1, <1>8, <2>3 DEF Agrees
  <2>5. PICK p \in Fires : p = run[pending[a]].fire /\ p.auto = a /\ InFlight(p)
    <3>1. pending[a] \in Runs /\ run[pending[a]].pc = "queued" /\ run[pending[a]].fire.auto = a
      BY <1>8, TypedParts DEF IInv, MemoryOK, Safe, PendingReal
    <3>2. run[pending[a]].fire \in Fires
      BY <3>1, RunFields, TypedParts DEF IInv
    <3> QED BY <3>1, <3>2 DEF InFlight, RunHolds
  <2>6. p.def = row[a].def
    BY <1>8, <2>5 DEF TokenInv, Agreed, Agrees
  <2> QED BY <2>2, <2>3, <2>4, <2>5, <2>6
<1>9. run[r].pc \notin Admitted \cup {"queued"}
  BY PcSets
<1> QED BY <1>2, <1>3, <1>4, <1>7, <1>8, <1>9, AdmitKeeps

\* The new replacement has a token of its own, which nobody else has.
LEMMA QueueKeeps ==
  ASSUME IInv, IInv', TokenInv, NEW f \in Fires, NEW r \in Runs, run[r].pc \in {"free", "drain"},
         Agrees(f), FireQueue(f, r), UNCHANGED phase, SchedOld, BootFirst'
  PROVE  TokenInv'
<1> DEFINE a == f.auto
           victims == IF f.def.policy = "cancel_previous" THEN active[a] ELSE {}
<1>0. a \in Autos
  BY FireFields
<1>1. PICK t \in FreshTokens : row' = Stamp(a, t, f.occ)
         /\ run' = [x \in Runs |->
               IF x = r THEN [IdleRun EXCEPT !.pc = "queued", !.fire = [f EXCEPT !.token = t]]
               ELSE IF x \in (IF pending[a] = NoRun THEN {} ELSE {pending[a]}) THEN IdleRun
               ELSE Canceled(victims)[x]]
  BY DEF FireQueue
<1>2. PICK g \in Fires : g = [f EXCEPT !.token = t]
  BY DEF Fires, FreshTokens
<1>3. g.auto = a /\ g.gen = f.gen /\ g.def = f.def /\ g.token = t /\ g.occ = f.occ
  BY <1>2 DEF Fires
<1>4. run'[r].pc = "queued" /\ run'[r].fire = g
  BY <1>1, <1>2 DEF IdleRun
<1>5. /\ pending' = [pending EXCEPT ![a] = r] /\ active' = active
      /\ active[a] # {} /\ f.def.policy \in {"queue_one", "cancel_previous"}
      /\ row[a].gen = f.gen /\ row[a].enabled
  BY DEF FireQueue, Queues, Stampable
<1> HIDE DEF victims
<1>6. \A x \in Runs \ {r} :
        \/ pending[a] # NoRun /\ x = pending[a] /\ run'[x].pc = "free"
        \/ (pending[a] # NoRun => x # pending[a]) /\ run'[x] = Canceled(victims)[x]
  BY <1>1 DEF IdleRun
<1>7. \A x \in Runs \ {r} : (pending[a] # NoRun => x # pending[a]) =>
        run'[x].pc = run[x].pc /\ run'[x].fire = run[x].fire
  BY <1>6, CanceledKept
<1> HIDE DEF a
<1>8. Stamps(a, t, f.occ) /\ RowStep /\ RowsBack
  <2>1. Files(a, f.occ)
    BY <1>5 DEF Agrees, Own, Files, a
  <2> QED BY <1>0, <1>1, <2>1, StampStep, StampedRows
<1>9. t # NoToken /\ (\A b \in Autos : row[b].token # t)
      /\ \A x \in Runs : run[x].pc # "free" => run[x].fire.token # t
  BY FreshIsNobodys
<1>10. Agrees(g)'
  <2>1. /\ row'[a].gen = g.gen /\ row'[a].def = row[a].def /\ row'[a].token = t
        /\ row'[a].occ = g.occ /\ row'[a].enabled
    BY <1>3, <1>5, <1>8 DEF Stamps
  <2>2. f.def = row[a].def
    BY <1>5 DEF Agrees, a
  <2>3. \A b \in Autos : row'[b].token = t => b = a
    BY <1>8, <1>9 DEF Stamps
  <2>4. row[a].gen \in Nat
    BY <1>0, Generations
  <2>5. Own(g)
    BY <1>3 DEF Agrees, Own, a
  <2> QED BY <1>3, <1>5, <2>1, <2>2, <2>3, <2>4, <2>5 DEF Agrees, Own
<1>11. ASSUME NEW h \in Fires, RunHolds(h)' PROVE InFlight(h) \/ Agrees(h)'
  <2>1. PICK x \in Runs : run'[x].pc # "free" /\ run'[x].fire = h
    BY <1>11 DEF RunHolds
  <2>2. CASE x = r
    BY <1>4, <1>10, <2>1, <2>2
  <2>3. CASE x # r
    <3>1. run[x].pc # "free" /\ run[x].fire = h
      BY <1>6, <1>7, <2>1, <2>3
    <3> QED BY <3>1 DEF InFlight, RunHolds
  <2> QED BY <2>2, <2>3
<1>12. Origin
  BY <1>11 DEF Origin, InFlight, SchedOld
<1>13. Agreed' /\ Apart'
  BY <1>8, <1>12, AgreedOn, ApartOn DEF TokenInv, Origin
<1>14. \A b \in Autos : pending'[b] = IF b = a THEN r ELSE pending[b]
  BY <1>0, <1>5, TypedParts DEF IInv, MemoryOK
<1>15. Occupied'
  BY <1>5, <1>14 DEF TokenInv, Occupied, Started
<1>16. Bare'
  BY <1>4, <1>6, <1>7 DEF TokenInv, Bare
<1>17. ASSUME NEW b \in Autos, NEW x \in active[b]
       PROVE  x \in Runs \ {r} /\ run'[x].fire = run[x].fire /\ run[x].pc # "free"
  <2>1. x \in Runs /\ run[x].pc \in Admitted
    BY ActiveFacts
  <2>2. run[x].pc \notin {"free", "drain", "queued"}
    BY <2>1, PcSets
  <2>3. pending[a] # NoRun => run[pending[a]].pc = "queued"
    BY <1>0 DEF IInv, Safe, PendingReal
  <2> QED BY <1>7, <2>1, <2>2, <2>3
<1>18. ASSUME NEW b \in Autos PROVE Backs(b)'
  <2>1. CASE b = a
    <3>1. \A x \in active'[a] : run'[x].fire.token # t
      BY <1>0, <1>5, <1>9, <1>17
    <3>2. row'[a].token = t
      BY <1>8 DEF Stamps
    <3> QED BY <1>0, <1>3, <1>4, <1>5, <1>9, <1>14, <2>1, <3>1, <3>2 DEF Backs
  <2>2. CASE b # a
    <3>1. pending'[b] = pending[b]
      BY <1>14, <2>2
    <3>2. ASSUME pending[b] # NoRun PROVE run'[pending[b]].fire = run[pending[b]].fire
      <4>1. pending[b] \in Runs /\ run[pending[b]].pc = "queued" /\ run[pending[b]].fire.auto = b
        BY <3>2, TypedParts DEF IInv, MemoryOK, Safe, PendingReal
      <4>2. pending[a] # NoRun => run[pending[a]].fire.auto = a
        BY <1>0 DEF IInv, Safe, PendingReal
      <4>3. pending[b] # r /\ (pending[a] # NoRun => pending[b] # pending[a])
        BY <2>2, <4>1, <4>2
      <4> QED BY <1>7, <4>1, <4>3
    <3>3. active'[b] \subseteq active[b] /\ \A x \in active'[b] : run'[x].fire = run[x].fire
      BY <1>5, <1>17
    <3> QED BY <1>8, <3>1, <3>2, <3>3, BacksOn DEF TokenInv, Backed
  <2> QED BY <2>1, <2>2
<1> QED BY <1>13, <1>15, <1>16, <1>18 DEF TokenInv, Backed

LEMMA RefuseKeeps ==
  ASSUME IInv, IInv', TokenInv, NEW r \in Runs, run[r].pc \notin Admitted \cup {"queued"},
         run' = [run EXCEPT ![r] = IdleRun], UNCHANGED <<row, active, pending, phase>>,
         SchedOld, BootFirst'
  PROVE  TokenInv'
<1>1. run'[r].pc = "free" /\ \A x \in Runs \ {r} : run'[x] = run[x]
  BY TypedParts DEF IInv, RunOK, IdleRun
<1>2. RunsOld /\ Origin
  BY <1>1, OldOrigin DEF RunsOld
<1>3. \A x \in Runs : run[x].pc \in Admitted \cup {"queued"} => run'[x].fire = run[x].fire
  BY <1>1
<1>4. \A x \in Runs : run'[x].pc = "trigger" => run[x].pc = "trigger"
  BY <1>1
<1>5. RowStep /\ RowsBack
  BY SameRows
<1> QED BY <1>2, <1>3, <1>4, <1>5, CalmKeeps DEF Started

\* What a step of beginRun leaves of the runs: they hold what they held, and one may hold the fire.
LEMMA BeginRuns ==
  ASSUME IInv, NEW f \in Fires, NEW r \in Runs, run[r].pc \in {"free", "drain"},
         FireStart(f, r) \/ FireQueue(f, r) \/ FireRefuse(f, r), NEW x \in Runs,
         run'[x].pc # "free"
  PROVE  \/ /\ run[x].pc # "free" /\ run'[x].pc = run[x].pc /\ run'[x].fire = run[x].fire
            /\ run'[x].manual = run[x].manual
         \/ /\ run'[x].pc \in {"bind", "queued"} /\ ~run'[x].manual
            /\ run'[x].fire.auto = f.auto /\ run'[x].fire.gen = f.gen
<1>1. CASE FireStart(f, r)
  BY <1>1, TypedParts DEF IInv, RunOK, FireStart, IdleRun
<1>2. CASE FireRefuse(f, r)
  BY <1>2, TypedParts DEF IInv, RunOK, FireRefuse, IdleRun
<1>3. CASE FireQueue(f, r)
  <2> DEFINE victims == IF f.def.policy = "cancel_previous" THEN active[f.auto] ELSE {}
             new(t) == [IdleRun EXCEPT !.pc = "queued", !.fire = [f EXCEPT !.token = t]]
  <2>1. PICK t \in Tokens : run'[x] \in {new(t), IdleRun, Canceled(victims)[x]}
    BY <1>3 DEF FireQueue, FreshTokens
  <2> HIDE DEF victims
  <2>2. [f EXCEPT !.token = t].auto = f.auto /\ [f EXCEPT !.token = t].gen = f.gen
    BY DEF Fires
  <2>3. /\ Canceled(victims)[x].pc = run[x].pc /\ Canceled(victims)[x].fire = run[x].fire
        /\ Canceled(victims)[x].manual = run[x].manual
    BY CanceledKept
  <2>4. IdleRun.pc = "free"
    BY DEF IdleRun
  <2>5. /\ new(t).pc = "queued" /\ new(t).fire = [f EXCEPT !.token = t]
        /\ new(t).manual = FALSE
    BY DEF IdleRun
  <2> HIDE DEF new
  <2> QED BY <2>1, <2>2, <2>3, <2>4, <2>5
<1> QED BY <1>1, <1>2, <1>3

LEMMA BeginKeeps ==
  ASSUME IInv, IInv', TokenInv, NEW f \in Fires, NEW r \in Runs, run[r].pc \in {"free", "drain"},
         Agrees(f), FireStart(f, r) \/ FireQueue(f, r) \/ FireRefuse(f, r), UNCHANGED phase,
         SchedOld, BootFirst'
  PROVE  TokenInv'
<1>1. run[r].pc \notin Admitted \cup {"queued"}
  BY PcSets
<1>2. CASE FireRefuse(f, r)
  BY <1>1, <1>2, RefuseKeeps DEF FireRefuse, memory
<1> QED BY <1>2, StartKeeps, QueueKeeps

-----------------------------------------------------------------------------
(* One lemma per group of actions.                                           *)

LEMMA FireKeeps == ASSUME IInv, IInv', TokenInv, SchedulerFire PROVE TokenInv'
<1>1. PICK f \in Fires : f = sched.fire
  BY TypedParts DEF SchedulerFire, IInv, SchedOK, SchedReal
<1>2. PICK r \in Runs : /\ run[r].pc \in {"free", "drain"}
                        /\ FireStart(f, r) \/ FireQueue(f, r) \/ FireRefuse(f, r)
  BY <1>1 DEF SchedulerFire, FreshRun
<1>3. sched.pc = "fire" /\ sched' = [sched EXCEPT !.pc = "scan", !.fire = NoFire]
      /\ UNCHANGED phase
  BY DEF SchedulerFire
<1>4. SchedStep
  <2>1. sched'.pc = "scan"
    BY <1>3, TypedParts DEF IInv, SchedOK
  <2> QED BY <1>3, <2>1, RestStep
<1>5. Agrees(f)
  BY <1>1, <1>3 DEF TokenInv, Agreed, InFlight, SchedHolds
<1>6. BootFirst'
  BY <1>1, <1>2, <1>3, <1>4, BeginRuns, StepBoot DEF TokenInv
<1> QED BY <1>2, <1>3, <1>4, <1>5, <1>6, StepOld, BeginKeeps

\* The steps of a scan.
LEMMA ScanSteps ==
  ASSUME IInv, NEW a \in Autos,
         TickDrain(a) \/ TickBusy(a) \/ BootDrain(a) \/ ClaimSlot(a) \/ SkipSlot(a)
         \/ ClearSlot(a) \/ BootSchedule(a)
  PROVE  SchedStep
<1>1. a \in sched.todo /\ sched.pc = "scan"
  BY DEF TickDrain, TickBusy, BootDrain, ClaimSlot, SkipSlot, ClearSlot, BootSchedule, AtSlot, AtRow
<1>2. sched.todo \subseteq Autos
  BY TypedParts DEF IInv, SchedOK
<1>3. CASE sched' = NextRow(a)
  <2>1. sched'.pc = "scan" /\ \A b \in sched'.todo : b \in sched.todo /\ sched'.snap[b] = sched.snap[b]
    BY <1>1, <1>2, <1>3, TypedParts DEF IInv, SchedOK, NextRow
  <2> QED BY <2>1 DEF SchedStep
<1>4. CASE \E n : sched' = [NextRow(a) EXCEPT !.pc = "fire", !.fire =
                     Fire(a, NoToken, [auto |-> a, gen |-> sched.snap[a].gen, slot |-> n])]
  <2>1. PICK n : sched' = [NextRow(a) EXCEPT !.pc = "fire", !.fire =
                     Fire(a, NoToken, [auto |-> a, gen |-> sched.snap[a].gen, slot |-> n])]
    BY <1>4
  <2> DEFINE o == [auto |-> a, gen |-> sched.snap[a].gen, slot |-> n]
  <2>2. /\ \A b \in sched'.todo : b \in sched.todo /\ b # a /\ sched'.snap[b] = sched.snap[b]
        /\ sched'.fire = Fire(a, NoToken, o)
    BY <1>1, <1>2, <2>1, TypedParts DEF IInv, SchedOK, NextRow
  <2>3. /\ sched'.fire.auto = a /\ sched'.fire.gen = sched.snap[a].gen
        /\ sched'.fire.def = sched.snap[a].def /\ sched'.fire.token = NoToken
        /\ Own(sched'.fire)
    BY <2>2 DEF Fire, Own
  <2> QED BY <1>1, <2>2, <2>3 DEF SchedStep
<1>5. CASE TickDrain(a)
  <2>1. sched' = [NextRow(a) EXCEPT !.pc = "fire",
                    !.fire = Fire(a, sched.snap[a].token, sched.snap[a].occ)]
    BY <1>5 DEF TickDrain
  <2>2. /\ \A b \in sched'.todo : b \in sched.todo /\ b # a /\ sched'.snap[b] = sched.snap[b]
        /\ sched'.fire = Fire(a, sched.snap[a].token, sched.snap[a].occ)
    BY <1>1, <1>2, <2>1, TypedParts DEF IInv, SchedOK, NextRow
  <2>3. /\ sched'.fire.auto = a /\ sched'.fire.gen = sched.snap[a].gen
        /\ sched'.fire.def = sched.snap[a].def /\ sched'.fire.token = sched.snap[a].token
        /\ sched'.fire.occ = sched.snap[a].occ /\ sched'.fire.token # NoToken
    BY <1>5, <2>2 DEF Fire, TickDrain, Drainable
  <2> QED BY <1>1, <2>2, <2>3 DEF SchedStep
<1>6. CASE sched' = [sched EXCEPT !.snap[a].token = NoToken]
  <2>1. /\ sched'.pc = "scan" /\ sched'.todo = sched.todo
        /\ sched'.snap = [sched.snap EXCEPT ![a].token = NoToken]
    BY <1>1, <1>6, TypedParts DEF IInv, SchedOK
  <2>2. \A b \in Autos : sched'.snap[b] = IF b = a THEN [sched.snap[a] EXCEPT !.token = NoToken]
                                                   ELSE sched.snap[b]
    BY <2>1, TypedParts DEF IInv, SchedOK
  <2>3. sched.snap[a] \in Snaps
    BY TypedParts DEF IInv, SchedOK
  <2> QED BY <1>2, <2>1, <2>2, <2>3 DEF SchedStep, Snaps
<1>7. CASE /\ sched.snap[a].token # NoToken
           /\ sched' = [sched EXCEPT !.pc = "fire", !.snap[a].token = NoToken,
                          !.fire = Fire(a, sched.snap[a].token, sched.snap[a].occ)]
  <2>1. /\ sched'.todo = sched.todo /\ sched'.fire = Fire(a, sched.snap[a].token, sched.snap[a].occ)
        /\ sched'.snap = [sched.snap EXCEPT ![a].token = NoToken]
    BY <1>1, <1>7, TypedParts DEF IInv, SchedOK
  <2>2. \A b \in Autos : sched'.snap[b] = IF b = a THEN [sched.snap[a] EXCEPT !.token = NoToken]
                                                   ELSE sched.snap[b]
    BY <2>1, TypedParts DEF IInv, SchedOK
  <2>3. sched.snap[a] \in Snaps
    BY TypedParts DEF IInv, SchedOK
  <2>4. \A b \in Autos : /\ sched'.snap[b].gen = sched.snap[b].gen
                         /\ sched'.snap[b].def = sched.snap[b].def
                         /\ sched'.snap[b].token \in {sched.snap[b].token, NoToken}
                         /\ sched'.snap[b].occ = sched.snap[b].occ
    BY <2>2, <2>3 DEF Snaps
  <2>5. sched'.snap[a].token = NoToken
    BY <2>2, <2>3 DEF Snaps
  <2>6. /\ sched'.fire.auto = a /\ sched'.fire.gen = sched.snap[a].gen
        /\ sched'.fire.def = sched.snap[a].def /\ sched'.fire.token = sched.snap[a].token
        /\ sched'.fire.occ = sched.snap[a].occ /\ sched'.fire.token # NoToken
    BY <1>7, <2>1 DEF Fire
  <2> QED BY <1>1, <1>2, <2>1, <2>4, <2>5, <2>6 DEF SchedStep
<1> QED BY <1>3, <1>4, <1>5, <1>6, <1>7
    DEF TickBusy, BootDrain, ClaimSlot, SkipSlot, ClearSlot, BootSchedule

\* What a scan writes: a next slot, or at boot the token of an automation of which nothing runs.
LEMMA ScanRows ==
  ASSUME IInv, TokenInv, NEW a \in Autos,
         TickDrain(a) \/ TickBusy(a) \/ BootDrain(a) \/ ClaimSlot(a) \/ SkipSlot(a)
         \/ ClearSlot(a) \/ BootSchedule(a)
  PROVE  RowStep /\ RowsBack
<1>1. CASE UNCHANGED row
  BY <1>1, SameRows
<1>2. CASE \E n : row' = [row EXCEPT ![a].next = n]
  BY <1>2, NextStep DEF RowStep, RowsBack, Quiet
<1>3. CASE BootDrain(a) /\ row' = ClearToken(a)
  <2>1. phase = "boot" /\ a \in sched.todo /\ sched.snap[a].token # NoToken
    BY <1>3 DEF BootDrain, AtRow
  <2>2. pending[a] = NoRun
    <3>1. pending[a] # NoRun =>
            pending[a] \in Runs /\ run[pending[a]].pc = "queued" /\ run[pending[a]].fire.auto = a
      BY TypedParts DEF IInv, MemoryOK, Safe, PendingReal
    <3> QED BY <2>1, <3>1 DEF TokenInv, BootFirst
  <2>3. Quiet /\ \A b \in Autos \ {a} : row'[b] = row[b]
    BY <1>3, ClearStep
  <2> QED BY <2>2, <2>3 DEF RowStep, RowsBack
<1> QED BY <1>1, <1>2, <1>3
    DEF TickDrain, TickBusy, BootDrain, ClaimSlot, SkipSlot, ClearSlot, BootSchedule, durable

LEMMA SchedulerKeeps == ASSUME IInv, IInv', TokenInv, Scheduler PROVE TokenInv'
<1>1. CASE SchedulerStamp
  <2>0. PICK f \in Fires : f = sched.fire /\ Agrees(f) /\ StampFresh(f)
    BY <1>1, TypedParts DEF SchedulerStamp, IInv, SchedOK, SchedReal, TokenInv, Agreed, InFlight,
       SchedHolds
  <2>1. RowStep /\ RowsBack
    BY <2>0, StampFreshRows
  <2>2. sched'.pc = "scan"
    BY <1>1, TypedParts DEF SchedulerStamp, IInv, SchedOK
  <2>3. SchedStep /\ UNCHANGED <<run, active, pending, phase>>
    BY <1>1, <2>2, RestStep DEF SchedulerStamp, memory
  <2>4. Origin /\ BootFirst'
    BY <2>3, StepOld, StepBoot, OldOrigin DEF TokenInv, RunsOld
  <2> QED BY <2>1, <2>3, <2>4, StillKeeps DEF Started
<1>2. CASE SchedulerCapped \/ PassDone
  <2>1. RowStep /\ RowsBack
    BY <1>2, SameRows DEF SchedulerCapped, PassDone, durable
  <2>2. CASE SchedulerCapped
    <3>1. sched.pc = "fire" /\ sched' = AfterCap /\ UNCHANGED <<run, active, pending, phase>>
      BY <2>2 DEF SchedulerCapped, memory
    <3>2. SchedStep
      BY <3>1, RestStep DEF AfterCap
    <3>3. Origin /\ BootFirst'
      BY <3>1, <3>2, StepOld, StepBoot, OldOrigin DEF TokenInv, RunsOld
    <3> QED BY <2>1, <3>1, <3>3, StillKeeps DEF Started
  <2>3. CASE PassDone
    <3>1. sched'.pc = "idle" /\ sched'.todo = {}
      BY <2>3 DEF PassDone, IdleSched
    <3>2. /\ UNCHANGED <<run, active, pending>> /\ phase' # "boot" /\ (Started' => Started)
      BY <2>3 DEF PassDone, memory, Started
    <3>3. SchedOld /\ BootFirst'
      BY <3>1, <3>2 DEF SchedOld, SchedHolds, BootFirst
    <3> QED BY <2>1, <3>2, <3>3, OldOrigin, StillKeeps DEF RunsOld
  <2> QED BY <1>2, <2>2, <2>3
<1>3. CASE TickList
  <2>1. RowStep /\ RowsBack /\ UNCHANGED row
    BY <1>3, SameRows DEF TickList, durable
  <2>2. /\ UNCHANGED <<run, active, pending, phase>> /\ phase = "up"
    BY <1>3 DEF TickList, memory, Ticking
  <2>3. sched'.pc = "scan" /\ sched'.todo = Schedulable /\ sched'.snap = Snapshot
    BY <1>3, TypedParts DEF TickList, IInv, SchedOK
  <2>4. Origin
    BY <2>1, <2>2, <2>3, ListAgrees DEF TokenInv, Origin, InFlight, RunHolds
  <2>5. BootFirst'
    BY <2>2, NotBoot
  <2> QED BY <2>1, <2>2, <2>4, <2>5, StillKeeps DEF Started
<1>4. ASSUME NEW a \in Autos,
             TickDrain(a) \/ TickBusy(a) \/ BootDrain(a) \/ ClaimSlot(a) \/ SkipSlot(a)
             \/ ClearSlot(a) \/ BootSchedule(a)
      PROVE  TokenInv'
  <2>1. UNCHANGED <<run, active, pending, phase>>
    BY <1>4 DEF TickDrain, TickBusy, BootDrain, ClaimSlot, SkipSlot, ClearSlot, BootSchedule, memory
  <2>2. SchedStep /\ RowStep /\ RowsBack
    BY <1>4, ScanSteps, ScanRows
  <2>3. Origin /\ BootFirst'
    BY <2>1, <2>2, StepOld, StepBoot, OldOrigin DEF TokenInv, RunsOld
  <2> QED BY <2>1, <2>2, <2>3, StillKeeps DEF Started
<1> QED BY <1>1, <1>2, <1>3, <1>4, FireKeeps DEF Scheduler

\* A goroutine goes on, with the fire it has.
LEMMA GoKeeps ==
  ASSUME IInv, IInv', TokenInv, RowStep, RowsBack, NEW r \in Runs, run[r].pc \in Admitted,
         (\E pc \in Admitted : Goto(r, pc)) \/ Bind(r),
         UNCHANGED <<active, pending, sched, phase>>
  PROVE  TokenInv'
<1>1. ASSUME NEW x \in Runs
      PROVE  /\ run'[x].fire = run[x].fire /\ (run'[x].pc # "free" => run[x].pc # "free")
             /\ run'[x].pc = "trigger" => run[x].pc = "trigger"
  <2>1. run[x] \in RunType /\ run[r] \in RunType /\ run \in [Runs -> RunType]
    BY TypedParts DEF IInv, RunOK
  <2>2. run[r].pc # "free"
    BY PcSets
  <2>3. CASE x # r
    BY <2>1, <2>3 DEF Goto, Bind
  <2>4. ASSUME x = r, NEW pc \in Admitted, Goto(r, pc)
        PROVE  run'[x].fire = run[x].fire /\ run'[x].pc = pc
    BY <2>1, <2>4 DEF Goto, RunType
  <2>5. CASE x = r /\ Bind(r)
    <3>1. run' = [run EXCEPT ![r] = [run[r] EXCEPT !.pc = "verify",
                                                   !.done = run[r].canceled \/ StopCtxDone]]
      BY <2>1, <2>5 DEF Bind
    <3> QED BY <2>1, <2>2, <2>5, <3>1 DEF RunType
  <2> QED BY <2>2, <2>3, <2>4, <2>5, PcSets
<1>2. RunsOld /\ SchedOld
  BY <1>1, SameSched DEF RunsOld
<1>3. Origin /\ BootFirst'
  BY <1>2, OldOrigin, BootSame DEF TokenInv
<1> QED BY <1>1, <1>2, <1>3, CalmKeeps DEF Started

LEMMA ExecuteSteps ==
  ASSUME IInv, IInv', TokenInv, NEW r \in Runs,
         \/ Bind(r) \/ Verify(r) \/ Eligible(r) \/ Consume(r) \/ InsertRow(r)
         \/ ClaimToken(r) \/ StartEngine(r) \/ Finish(r) \/ Restamp(r)
  PROVE  TokenInv'
<1>1. UNCHANGED <<active, pending, sched, phase>>
  BY DEF Bind, Verify, Eligible, Consume, InsertRow, ClaimToken, StartEngine, Finish, Restamp, memory
<1>2. run[r].pc \in Admitted
  BY DEF Bind, Verify, Eligible, Consume, InsertRow, ClaimToken, StartEngine, Finish, Restamp,
     Admitted
<1>3. (\E pc \in Admitted : Goto(r, pc)) \/ Bind(r)
  <2>1. \/ Bind(r)
        \/ \E pc \in {"elig", "end", "restamp", "insert", "engine", "consume", "claim", "running"} :
             Goto(r, pc)
    BY DEF Verify, Eligible, Consume, InsertRow, ClaimToken, StartEngine, Finish, Restamp,
           Retry, AfterChecks
  <2> QED BY <2>1 DEF Admitted
<1>4. RowStep /\ RowsBack
  <2>1. CASE UNCHANGED row
    BY <2>1, SameRows
  <2>2. CASE Restamp(r)
    <3>1. PICK f \in Fires : f = run[r].fire
      BY <1>2, PcSets, RunFields, TypedParts DEF IInv
    <3>2. Agrees(f) /\ StampFresh(f)
      BY <1>2, <2>2, <3>1, PcSets DEF Restamp, TokenInv, Agreed, InFlight, RunHolds
    <3> QED BY <3>2, StampFreshRows
  <2>3. CASE /\ Claimable(run[r].fire.auto, run[r].fire.token)
             /\ row' = ClearToken(run[r].fire.auto)
    BY <1>2, <2>3, ClearedRows
  <2> QED BY <2>1, <2>2, <2>3
      DEF Bind, Verify, Eligible, Consume, InsertRow, ClaimToken, StartEngine, Finish, durable
<1> QED BY <1>1, <1>2, <1>3, <1>4, GoKeeps

\* The last run to end pops the replacement; whoever waits on waits for another run.
LEMMA EndRunKeeps == ASSUME IInv, IInv', TokenInv, NEW r \in Runs, EndRun(r) PROVE TokenInv'
<1> DEFINE pop == pending[run[r].fire.auto] # NoRun /\ active[run[r].fire.auto] = {r} /\ Started
<1>0. run[r].pc = "end" /\ run[r].pc \in Admitted /\ run[r].fire.auto \in Autos
  BY RunFields, TypedParts DEF EndRun, IInv, Admitted
<1>1. PICK a \in Autos : a = run[r].fire.auto
  BY <1>0
<1>2. /\ run' = [x \in Runs |-> IF x = r THEN IdleRun
                 ELSE IF pop /\ x = pending[a] THEN [run[x] EXCEPT !.pc = "drain"]
                 ELSE run[x]]
      /\ pending' = IF pop THEN [pending EXCEPT ![a] = NoRun] ELSE pending
      /\ active' = [active EXCEPT ![a] = @ \ {r}]
      /\ UNCHANGED <<row, sched, phase>>
  BY <1>1 DEF EndRun, Release
<1>3. \A b \in Autos : active'[b] = IF b = a THEN active[a] \ {r} ELSE active[b]
  BY <1>2, TypedParts DEF IInv, MemoryOK
<1>4. \A b \in Autos : pending'[b] = IF pop /\ b = a THEN NoRun ELSE pending[b]
  BY <1>2, TypedParts DEF IInv, MemoryOK
<1>5. pop <=> pending[a] # NoRun /\ active[a] = {r} /\ Started
  BY <1>1
<1> HIDE DEF pop
<1>6. ASSUME NEW x \in Runs
      PROVE  \/ x = r /\ run'[x].pc = "free"
             \/ x # r /\ run'[x].fire = run[x].fire /\ run'[x].pc \in {run[x].pc, "drain"}
                      /\ (run'[x].pc # "free" => run[x].pc # "free")
  <2>1. run[x] \in RunType
    BY TypedParts DEF IInv, RunOK
  <2>2. pop /\ x = pending[a] => run[x].pc = "queued"
    BY <1>5 DEF IInv, Safe, PendingReal
  <2> QED BY <1>2, <2>1, <2>2 DEF RunType, IdleRun
<1>7. RunsOld /\ SchedOld
  BY <1>2, <1>6, SameSched DEF RunsOld
<1>8. Origin /\ BootFirst' /\ RowStep /\ RowsBack
  BY <1>2, <1>7, OldOrigin, BootSame, SameRows DEF TokenInv
<1>9. Bare'
  BY <1>6 DEF TokenInv, Bare
<1>10. Occupied'
  <2>1. r \in active[a]
    BY <1>0, <1>1 DEF IInv, Safe, ActiveExact
  <2>2. ASSUME Started, NEW b \in Autos, pending'[b] # NoRun PROVE active'[b] # {}
    <3>1. pending[b] # NoRun /\ ~(pop /\ b = a) /\ active[b] # {}
      BY <1>4, <2>2 DEF TokenInv, Occupied
    <3>2. CASE b = a
      BY <1>3, <1>5, <2>1, <2>2, <3>1, <3>2
    <3> QED BY <1>3, <3>1, <3>2
  <2> QED BY <1>2, <2>2 DEF Occupied, Started
<1>11. ASSUME NEW b \in Autos
       PROVE  /\ pending'[b] \in {pending[b], NoRun}
              /\ pending'[b] # NoRun => run'[pending[b]].fire = run[pending[b]].fire
              /\ active'[b] \subseteq active[b]
              /\ \A x \in active'[b] : run'[x].fire = run[x].fire
  <2>1. pending'[b] \in {pending[b], NoRun} /\ active'[b] \subseteq active[b]
    BY <1>3, <1>4
  <2>2. pending[b] # NoRun => pending[b] \in Runs \ {r}
    BY <1>0, TypedParts DEF IInv, MemoryOK, Safe, PendingReal
  <2>3. \A x \in active[b] : x \in Runs /\ run[x].fire.auto = b
    BY ActiveFacts
  <2>4. \A x \in active'[b] : x \in Runs \ {r}
    BY <1>1, <1>3, <2>3
  <2> QED BY <1>6, <2>1, <2>2, <2>4
<1> QED BY <1>8, <1>9, <1>10, <1>11, StepKeeps

LEMMA ExecuteKeeps == ASSUME IInv, IInv', TokenInv, NEW r \in Runs, Execute(r) PROVE TokenInv'
<1>1. CASE DrainPending(r)
  <2> DEFINE f == [run[r].fire EXCEPT !.def = row[run[r].fire.auto].def]
  <2>0. run[r].pc = "drain" /\ UNCHANGED <<sched, phase>>
    BY <1>1 DEF DrainPending
  <2>1. run[r].fire \in Fires /\ run[r].fire.auto \in Autos
    BY <2>0, RunFields, TypedParts DEF IInv
  <2>2. row[run[r].fire.auto].def \in Defs
    BY <2>1, TypedParts DEF IInv, RowOK, RowType
  <2>3. f \in Fires
    BY <2>1, <2>2 DEF Fires
  <2>4. /\ f.auto = run[r].fire.auto /\ f.gen = run[r].fire.gen /\ f.token = run[r].fire.token
        /\ f.def = row[run[r].fire.auto].def /\ f.occ = run[r].fire.occ
    BY <2>1 DEF Fires
  <2>5. Agrees(run[r].fire)
    BY <2>0, <2>1 DEF TokenInv, Agreed, InFlight, RunHolds
  <2>6. \/ FireStart(f, r) \/ FireQueue(f, r) \/ FireRefuse(f, r)
        \/ run' = [run EXCEPT ![r] = IdleRun] /\ UNCHANGED <<row, memory>>
    BY <1>1 DEF DrainPending
  <2> HIDE DEF f
  <2>7. Agrees(f)
    BY <2>4, <2>5 DEF Agrees, Own
  <2>8. SchedStep /\ SchedOld
    BY <2>0, SameSched DEF SchedStep
  <2>9. CASE FireStart(f, r) \/ FireQueue(f, r) \/ FireRefuse(f, r)
    <3>1. \A x \in Runs : run'[x].pc # "free" =>
            \E y \in Runs : run[y].pc # "free" /\ run'[x].fire.auto = run[y].fire.auto
      BY <2>0, <2>3, <2>4, <2>9, BeginRuns
    <3>2. BootFirst'
      BY <2>0, <2>8, <3>1, StepBoot DEF TokenInv
    <3> QED BY <2>0, <2>3, <2>7, <2>8, <2>9, <3>2, BeginKeeps
  <2>10. CASE run' = [run EXCEPT ![r] = IdleRun] /\ UNCHANGED <<row, memory>>
    <3>1. RunsOld
      BY <2>10, TypedParts DEF IInv, RunOK, IdleRun, RunsOld
    <3>2. BootFirst'
      BY <2>0, <3>1, BootSame DEF TokenInv
    <3> QED BY <2>0, <2>8, <2>10, <3>2, PcSets, RefuseKeeps DEF memory
  <2> QED BY <2>6, <2>9, <2>10
<1> QED BY <1>1, ExecuteSteps, EndRunKeeps DEF Execute

\* The runs go on as they are, some of them cancelled.
LEMMA MarkKeeps ==
  ASSUME IInv, IInv', TokenInv, RowStep, RowsBack, UNCHANGED <<active, pending, sched>>,
         phase' = "boot" => phase = "boot", Started' => Started,
         \A x \in Runs : run'[x].pc = run[x].pc /\ run'[x].fire = run[x].fire
  PROVE  TokenInv'
<1>1. RunsOld /\ SchedOld
  BY SameSched DEF RunsOld
<1>2. Origin /\ BootFirst'
  BY <1>1, OldOrigin, BootSame DEF TokenInv
<1> QED BY <1>1, <1>2, CalmKeeps

\* An edit moves the generation on and drops the token.
LEMMA EditRows ==
  ASSUME IInv, NEW a \in Autos,
         \/ \E d, del : row' = Edited(a, d, del)
         \/ \E on, n : row' = EnableFlip(a, on, n)
         \/ row[a].gen = 0 /\ \E d : row' = [row EXCEPT ![a] = NewRow(d)]
  PROVE  Moves(a) /\ RowStep /\ RowsBack
<1>1. row \in [Autos -> RowType] /\ row[a].gen \in Nat
  BY Generations, TypedParts DEF IInv, RowOK
<1>2. Moves(a)
  BY <1>1 DEF Edited, EnableFlip, NewRow, Moves
<1> QED BY <1>2, MovedRows

LEMMA HandlerKeeps == ASSUME IInv, IInv', TokenInv, HandlerStep PROVE TokenInv'
<1>1. ASSUME NEW h \in Handlers, CommitFlip(h) PROVE TokenInv'
  <2>1. PICK a \in Autos : a = req[h].auto
    BY <1>1, TypedParts DEF CommitFlip, IInv, ReqOK, ReqType, IdleReq
  <2>2. RowStep /\ RowsBack
    <3>1. CASE UNCHANGED row
      BY <3>1, SameRows
    <3>2. CASE row' = EnableFlip(a, req[h].on, req[h].next)
      BY <3>2, EditRows
    <3> QED BY <1>1, <2>1, <3>1, <3>2 DEF CommitFlip
  <2> QED BY <1>1, <2>2, MarkKeeps DEF CommitFlip, memory, Started
<1>2. ASSUME NEW h \in Handlers, CancelAutomation(h) PROVE TokenInv'
  <2>1. PICK a \in Autos : a = req[h].auto
    BY <1>2, TypedParts DEF CancelAutomation, IInv, ReqOK, ReqType, IdleReq
  <2>2. /\ \A x \in Runs : run'[x] = IF x = pending[a] THEN IdleRun ELSE Canceled(active[a])[x]
        /\ pending' = [pending EXCEPT ![a] = NoRun] /\ UNCHANGED <<row, active, sched, phase>>
    BY <1>2, <2>1 DEF CancelAutomation, durable
  <2>3. \A b \in Autos : pending'[b] = IF b = a THEN NoRun ELSE pending[b]
    BY <2>2, TypedParts DEF IInv, MemoryOK
  <2>4. \A x \in Runs : x = pending[a] => run'[x].pc = "free"
    BY <2>2 DEF IdleRun
  <2>5. \A x \in Runs : x # pending[a] => run'[x].pc = run[x].pc /\ run'[x].fire = run[x].fire
    BY <2>2, CanceledKept
  <2>6. RunsOld /\ SchedOld
    BY <2>2, <2>4, <2>5, SameSched DEF RunsOld
  <2>7. Origin /\ BootFirst' /\ RowStep /\ RowsBack
    BY <2>2, <2>6, OldOrigin, BootSame, SameRows DEF TokenInv
  <2>8. Occupied' /\ Bare'
    BY <2>2, <2>3, <2>4, <2>5 DEF TokenInv, Occupied, Bare, Started
  <2>9. ASSUME NEW b \in Autos
        PROVE  /\ pending'[b] \in {pending[b], NoRun}
               /\ pending'[b] # NoRun => run'[pending[b]].fire = run[pending[b]].fire
               /\ active'[b] \subseteq active[b]
               /\ \A x \in active'[b] : run'[x].fire = run[x].fire
    <3>1. pending[a] # NoRun => run[pending[a]].pc = "queued" /\ run[pending[a]].fire.auto = a
      BY DEF IInv, Safe, PendingReal
    <3>2. pending[b] # NoRun => pending[b] \in Runs /\ run[pending[b]].fire.auto = b
      BY TypedParts DEF IInv, MemoryOK, Safe, PendingReal
    <3>3. \A x \in active[b] : x \in Runs /\ run[x].pc \in Admitted
      BY ActiveFacts
    <3>4. \A x \in active[b] : x # pending[a]
      BY <3>1, <3>3, PcSets, SchedulerAssumption
    <3>5. pending'[b] # NoRun => pending[b] # pending[a]
      BY <2>3, <3>1, <3>2
    <3> QED BY <2>2, <2>3, <2>5, <3>2, <3>3, <3>4, <3>5
  <2> QED BY <2>7, <2>8, <2>9, StepKeeps
<1>3. ASSUME NEW r \in Runs, TriggerBegin(r) PROVE TokenInv'
  <2>1. run[r].pc = "trigger" /\ run[r].pc \notin Admitted \cup {"queued"}
    BY <1>3, PcSets DEF TriggerBegin
  <2>2. PICK f \in Fires : f = run[r].fire
    BY <2>1, RunFields, TypedParts DEF IInv
  <2>3. PICK a \in Autos : a = f.auto
    BY FireFields
  <2>4. UNCHANGED <<row, pending, sched, phase>>
    BY <1>3 DEF TriggerBegin, durable
  <2>5. CASE Register(a, r) /\ Goto(r, "record")
    <3>1. /\ run'[r].pc = "record" /\ run'[r].fire = f
          /\ \A x \in Runs \ {r} : run'[x] = run[x]
      BY <2>2, <2>5, TypedParts DEF Goto, IInv, RunOK, RunType
    <3>2. RunsOld /\ SchedOld
      BY <2>1, <2>2, <2>4, <3>1, SameSched DEF RunsOld
    <3>3. Origin /\ BootFirst'
      BY <2>4, <3>2, OldOrigin, BootSame DEF TokenInv
    <3>4. pending[a] # NoRun /\ row[a].gen = run[pending[a]].fire.gen => f.token # row[a].token
      BY <2>1, <2>2 DEF TokenInv, Bare, Backed, Backs
    <3> QED BY <2>1, <2>4, <2>5, <3>1, <3>3, <3>4, AdmitKeeps
  <2>6. CASE run' = [run EXCEPT ![r] = IdleRun] /\ UNCHANGED active
    <3>1. RunsOld /\ SchedOld
      BY <2>4, <2>6, TypedParts, SameSched DEF IInv, RunOK, IdleRun, RunsOld
    <3>2. BootFirst'
      BY <2>4, <3>1, BootSame DEF TokenInv
    <3> QED BY <2>1, <2>4, <2>6, <3>1, <3>2, RefuseKeeps
  <2> QED BY <1>3, <2>2, <2>3, <2>5, <2>6 DEF TriggerBegin
<1>4. ASSUME NEW r \in Runs, TriggerRecord(r) PROVE TokenInv'
  <2>1. run[r].pc \in Admitted /\ UNCHANGED <<row, active, pending, sched, phase>>
    BY <1>4 DEF TriggerRecord, Admitted, memory
  <2>2. \E pc \in Admitted : Goto(r, pc)
    <3>1. "bind" \in Admitted /\ "end" \in Admitted
      BY DEF Admitted
    <3> QED BY <1>4, <3>1 DEF TriggerRecord
  <2>3. RowStep /\ RowsBack
    BY <2>1, SameRows
  <2> QED BY <2>1, <2>2, <2>3, GoKeeps
<1> QED BY <1>1, <1>2, <1>3, <1>4 DEF HandlerStep

LEMMA RequestKeeps == ASSUME IInv, IInv', TokenInv, UserRequest PROVE TokenInv'
<1>1. ASSUME NEW a \in Autos, Trigger(a) PROVE TokenInv'
  <2>1. PICK r \in Runs : /\ FreshRun(r)
          /\ run' = [run EXCEPT ![r] = [IdleRun EXCEPT !.pc = "trigger", !.manual = TRUE,
               !.fire = [auto |-> a, gen |-> row[a].gen, token |-> NoToken,
                         occ |-> NoOcc, def |-> row[a].def]]]
    BY <1>1 DEF Trigger
  <2>2. /\ run'[r].pc = "trigger"
        /\ run'[r].fire = [auto |-> a, gen |-> row[a].gen, token |-> NoToken,
                           occ |-> NoOcc, def |-> row[a].def]
        /\ \A x \in Runs \ {r} : run'[x] = run[x]
    BY <2>1, TypedParts DEF IInv, RunOK, IdleRun
  <2>3. run[r].pc = "free" /\ UNCHANGED <<row, active, pending, sched, phase>> /\ phase # "boot"
    BY <1>1, <2>1 DEF FreshRun, Trigger, durable, memory, Serving
  <2>4. RowStep /\ RowsBack /\ SchedOld /\ BootFirst'
    BY <2>3, SameRows, SameSched, NotBoot
  <2>5. row[a].gen \in Nat
    BY Generations
  <2>6. ASSUME NEW g \in Fires, RunHolds(g)' PROVE InFlight(g) \/ Agrees(g)'
    <3>1. PICK x \in Runs : run'[x].pc # "free" /\ run'[x].fire = g
      BY <2>6 DEF RunHolds
    <3>2. CASE x = r
      <4>1. /\ g.auto = a /\ g.gen = row[a].gen /\ g.def = row[a].def /\ g.token = NoToken
            /\ g.occ = NoOcc /\ row[a].enabled
        BY <1>1, <2>2, <3>1, <3>2 DEF Trigger
      <4> QED BY <2>3, <2>5, <4>1 DEF Agrees, Own
    <3>3. CASE x # r
      BY <2>2, <3>1, <3>3 DEF InFlight, RunHolds
    <3> QED BY <3>2, <3>3
  <2>7. Origin
    BY <2>4, <2>6 DEF Origin, InFlight, SchedOld
  <2>8. Occupied' /\ Bare'
    BY <2>2, <2>3 DEF TokenInv, Occupied, Bare, Started
  <2>9. ASSUME NEW b \in Autos
        PROVE  /\ pending'[b] \in {pending[b], NoRun}
               /\ pending'[b] # NoRun => run'[pending[b]].fire = run[pending[b]].fire
               /\ active'[b] \subseteq active[b]
               /\ \A x \in active'[b] : run'[x].fire = run[x].fire
    <3>1. pending[b] # NoRun => pending[b] \in Runs /\ run[pending[b]].pc = "queued"
      BY TypedParts DEF IInv, MemoryOK, Safe, PendingReal
    <3>2. \A x \in active[b] : x \in Runs /\ run[x].pc \in Admitted
      BY ActiveFacts
    <3> QED BY <2>2, <2>3, <3>1, <3>2, PcSets
  <2> QED BY <2>4, <2>7, <2>8, <2>9, StepKeeps
<1>2. ASSUME NEW a \in Autos,
             \/ \E d \in Defs : Create(a, d)
             \/ \E h \in Handlers : \/ \E d \in Defs : Update(h, a, d)
                                    \/ Delete(h, a)
                                    \/ \E on \in BOOLEAN : ReadFlip(h, a, on)
      PROVE  TokenInv'
  <2>1. UNCHANGED <<run, active, pending, sched, phase>>
    BY <1>2 DEF Create, Update, Delete, ReadFlip, memory
  <2>2. RowStep /\ RowsBack
    <3>1. CASE UNCHANGED row
      BY <3>1, SameRows
    <3>2. CASE \/ \E d, del : row' = Edited(a, d, del)
               \/ row[a].gen = 0 /\ \E d : row' = [row EXCEPT ![a] = NewRow(d)]
      BY <3>2, EditRows
    <3> QED BY <1>2, <3>1, <3>2 DEF Create, Update, Delete, ReadFlip, durable
  <2> QED BY <2>1, <2>2, MarkKeeps DEF Started
<1> QED BY <1>1, <1>2 DEF UserRequest

\* Nothing runs, nothing waits and the scheduler holds nothing.
LEMMA EmptyKeeps ==
  ASSUME Apart, \A r \in Runs : run[r].pc = "free", \A a \in Autos : pending[a] = NoRun,
         sched.pc \notin {"fire", "stamp"}, sched.todo = {}
  PROVE  TokenInv
<1>1. \A f \in Fires : ~InFlight(f)
  BY DEF InFlight, RunHolds, SchedHolds
<1> QED BY <1>1 DEF TokenInv, Agreed, Backed, Backs, Occupied, BootFirst, Bare

LEMMA ProcessKeeps ==
  ASSUME IInv, IInv', TokenInv, ClockTick \/ Start \/ Signal \/ Stop \/ StopReturns
  PROVE  TokenInv'
<1>0. UNCHANGED <<row, active, pending>> /\ RowStep /\ RowsBack
  BY SameRows DEF ClockTick, Start, Signal, Stop, StopReturns, durable, memory
<1>1. CASE Start
  <2>1. (\A r \in Runs : run[r].pc = "free") /\ UNCHANGED run
    BY <1>1 DEF Start, IInv, Safe, NoneWhenDown
  <2>2. \A a \in Autos : pending[a] = NoRun
    BY <2>1, TypedParts DEF IInv, MemoryOK, Safe, PendingReal
  <2>3. \E rows : sched' = Listed(rows) /\ rows \subseteq Schedulable
    BY <1>1 DEF Start
  <2>4. /\ sched'.pc = "scan" /\ sched'.todo \subseteq Schedulable
        /\ \A a \in sched'.todo : sched'.snap[a] = Snapshot[a]
    BY <2>3 DEF Listed, Schedulable
  <2>5. Origin
    BY <1>0, <2>1, <2>4, ListAgrees DEF TokenInv, Origin, InFlight, RunHolds
  <2>6. Occupied' /\ Bare' /\ BootFirst'
    BY <1>0, <2>1, <2>2, <2>4 DEF Occupied, Bare, BootFirst
  <2> QED BY <1>0, <2>1, <2>5, <2>6, StepKeeps
<1>2. CASE Signal \/ Stop
  <2>1. ASSUME NEW x \in Runs PROVE run'[x].pc = run[x].pc /\ run'[x].fire = run[x].fire
    <3>1. run[x] \in RunType
      BY TypedParts DEF IInv, RunOK
    <3>2. CASE Signal
      BY <3>1, <3>2 DEF Signal, RunType
    <3>3. CASE Stop
      BY <3>3, CanceledKept DEF Stop
    <3> QED BY <1>2, <3>2, <3>3
  <2> QED BY <1>0, <1>2, <2>1, MarkKeeps DEF Signal, Stop, Started
<1>3. CASE ClockTick \/ StopReturns
  BY <1>0, <1>3, MarkKeeps DEF ClockTick, StopReturns, Started
<1> QED BY <1>1, <1>2, <1>3

LEMMA Backing == Spec => []TokenInv
<1>1. Init => TokenInv
  <2> SUFFICES ASSUME Init PROVE TokenInv
    OBVIOUS
  <2>1. \A r \in Runs : run[r].pc = "free"
    BY DEF Init, IdleRun
  <2>2. Apart
    BY DEF Init, NewRow, Apart, Files
  <2> QED BY <2>1, <2>2, EmptyKeeps DEF Init, IdleSched
<1>2. IInv /\ IInv' /\ TokenInv /\ [Next]_vars => TokenInv'
  <2> SUFFICES ASSUME IInv, IInv', TokenInv, [Next]_vars PROVE TokenInv'
    OBVIOUS
  <2>1. CASE Exit
    <3>1. \A r \in Runs : run'[r].pc = "free"
      BY <2>1 DEF Exit, IdleRun
    <3>2. Apart'
      BY <2>1 DEF Exit, TokenInv, Apart, Files
    <3>3. (\A a \in Autos : pending'[a] = NoRun) /\ sched'.pc = "idle" /\ sched'.todo = {}
      BY <2>1 DEF Exit, IdleSched
    <3>4. \A f \in Fires : ~InFlight(f)'
      BY <3>1, <3>3 DEF InFlight, RunHolds, SchedHolds
    <3> QED BY <3>1, <3>2, <3>3, <3>4
            DEF TokenInv, Agreed, Backed, Backs, Occupied, BootFirst, Bare
  <2>2. CASE UNCHANGED vars
    <3>1. RowStep /\ RowsBack
      BY <2>2, SameRows DEF vars
    <3> QED BY <2>2, <3>1, MarkKeeps DEF vars, Started
  <2> QED BY <2>1, <2>2, SchedulerKeeps, ExecuteKeeps, HandlerKeeps, RequestKeeps, ProcessKeeps
          DEF Next
<1> QED BY <1>1, <1>2, Inductive, PTL DEF Spec

\* A queued replacement is backed by a durable token, its own or one that superseded it, so a
\* crash cannot forget that something was queued (beginRun stamps the row before it queues):
\* whoever clears a token of the row was admitted with it, and no run that is admitted while a
\* replacement waits has the token that backs it.
THEOREM ReplacementBacked == Spec => []PendingIsDurable
<1>1. IInv /\ TokenInv => PendingIsDurable
  <2> SUFFICES ASSUME IInv, TokenInv, NEW a \in Autos, pending[a] # NoRun
               PROVE  LET f == run[pending[a]].fire IN
                      /\ run[pending[a]].pc = "queued" /\ f.auto = a
                      /\ row[a].token # NoToken \/ row[a].gen # f.gen
    BY DEF PendingIsDurable
  <2> QED BY DEF IInv, Safe, PendingReal, TokenInv, Backed, Backs
<1> QED BY <1>1, Inductive, Backing, PTL

-----------------------------------------------------------------------------
(* Who may clear a token.                                                    *)

\* A fire that goes by the row's definition goes by a schedule, and so does a token.
OfSchedule(f) == f.gen = row[f.auto].gen => row[f.auto].def.trigger # "manual"
TokenOfSchedule == \A a \in Autos : row[a].token # NoToken => row[a].def.trigger # "manual"
HeldOfSchedule == \A r \in Runs : run[r].pc # "free" /\ ~run[r].manual => OfSchedule(run[r].fire)
SchedOfSchedule == sched.pc \in {"fire", "stamp"} => OfSchedule(sched.fire)
\* Nobody edits while reconcile runs, so what it listed is what the rows say.
BootCurrent == /\ phase \in {"down", "boot"} => \A h \in Handlers : req[h].pc = "idle"
               /\ phase = "boot" => \A a \in sched.todo : sched.snap[a].gen = row[a].gen
\* The record of an ineligible run comes before its token is consumed.
Refused == \A r \in Runs : run[r].pc = "consume" => history[r] = "failed"
\* Only a run that was triggered by hand gets its record at once; none is parked or queued, and
\* none has an occurrence.
NotByHand == \A r \in Runs :
  /\ run[r].pc \in {"insert", "restamp", "queued", "drain"} => ~run[r].manual
  /\ run[r].pc \in {"trigger", "record"} => run[r].manual
  /\ run[r].pc # "free" /\ run[r].manual => run[r].fire.occ = NoOcc
WriteInv == TokenOfSchedule /\ HeldOfSchedule /\ SchedOfSchedule /\ BootCurrent /\ Refused /\ NotByHand

\* Every write of a row: an edit, a next slot, the token of a run that has its record, the token of
\* a manual automation at boot, or a fresh token for a fire of the row's generation.
RowWrite ==
  \/ UNCHANGED row
  \/ phase \notin {"down", "boot"} /\ \E a \in Autos : Moves(a)
  \/ \E a \in Autos : \E n : row' = [row EXCEPT ![a].next = n]
  \/ \E r \in Runs : /\ run[r].pc \in {"consume", "claim"}
                     /\ Claimable(run[r].fire.auto, run[r].fire.token)
                     /\ row' = ClearToken(run[r].fire.auto)
  \/ \E a \in Autos : /\ phase = "boot" /\ a \in sched.todo /\ sched.snap[a].token # NoToken
                      /\ sched.snap[a].def.trigger = "manual" /\ row' = ClearToken(a)
  \/ \E f \in Fires : \E t \in FreshTokens :
       /\ OfSchedule(f) /\ Agrees(f) /\ Stampable(f.auto, f.gen) /\ row' = Stamp(f.auto, t, f.occ)

\* What the scan of reconcile lists is a fire that agrees with the row.
LEMMA ListedAgrees ==
  ASSUME IInv, TokenInv, NEW a \in sched.todo
  PROVE  sched.snap[a].gen = row[a].gen => sched.snap[a].def = row[a].def
<1>1. SchedOK /\ a \in Autos
  BY TypedParts DEF IInv, SchedOK
<1>2. PICK f \in Fires : f = Fire(a, NoToken, NoOcc)
  BY <1>1, FireType
<1>3. /\ f.auto = a /\ f.gen = sched.snap[a].gen /\ f.def = sched.snap[a].def /\ f.token = NoToken
      /\ Own(f)
  BY <1>2 DEF Fire, Own
<1>4. Agrees(f)
  BY <1>3 DEF TokenInv, Agreed, InFlight, SchedHolds
<1> QED BY <1>3, <1>4 DEF Agrees

\* reconcile finds no token of a manual automation: an edit to manual cleared it.
LEMMA NoManualDrain ==
  ASSUME IInv, TokenInv, WriteInv, NEW a \in Autos, phase = "boot", a \in sched.todo,
         sched.snap[a].def.trigger = "manual"
  PROVE  row[a].token = NoToken
<1>1. sched.snap[a].gen = row[a].gen
  BY DEF WriteInv, BootCurrent
<1> QED BY <1>1, ListedAgrees DEF WriteInv, TokenOfSchedule

LEMMA WriteStep == ASSUME IInv, TokenInv, WriteInv, RowWrite PROVE RowStep
<1>1. CASE UNCHANGED row
  BY <1>1, SameRows
<1>2. ASSUME NEW a \in Autos, Moves(a) PROVE RowStep
  BY <1>2 DEF RowStep
<1>3. ASSUME NEW a \in Autos, NEW n, row' = [row EXCEPT ![a].next = n] PROVE RowStep
  BY <1>3, NextStep DEF RowStep
<1>4. ASSUME NEW a \in Autos, row' = ClearToken(a) PROVE RowStep
  BY <1>4, ClearStep DEF RowStep
<1>5. ASSUME NEW r \in Runs, run[r].pc \in {"consume", "claim"} PROVE run[r].fire.auto \in Autos
  BY <1>5, RunFields, TypedParts DEF IInv
<1>6. ASSUME NEW f \in Fires, NEW t \in FreshTokens, Agrees(f), Stampable(f.auto, f.gen),
             row' = Stamp(f.auto, t, f.occ)
      PROVE  RowStep
  <2>1. Files(f.auto, f.occ)
    BY <1>6 DEF Agrees, Own, Files, Stampable
  <2> QED BY <1>6, <2>1, FireFields, StampStep DEF RowStep
<1> QED BY <1>1, <1>2, <1>3, <1>4, <1>5, <1>6 DEF RowWrite

\* Only a run with a record clears the token of a generation.
LEMMA WriteConsumes ==
  ASSUME IInv, TokenInv, WriteInv, RowWrite, NEW a \in Autos PROVE TokenStep(a)
<1> SUFFICES ASSUME row[a].token # NoToken, row'[a].token = NoToken, row'[a].gen = row[a].gen
             PROVE  \E r \in Runs : /\ run[r].fire # NoFire /\ run[r].fire.token = row[a].token
                                    /\ run[r].fire.gen = row[a].gen
                                    /\ history[r] \in {"running", "failed"}
  BY DEF TokenStep
<1>1. CASE UNCHANGED row
  BY <1>1
<1>2. ASSUME NEW b \in Autos, Moves(b) PROVE FALSE
  BY <1>2, Generations DEF Moves
<1>3. ASSUME NEW b \in Autos, NEW n, row' = [row EXCEPT ![b].next = n] PROVE FALSE
  BY <1>3, NextStep
<1>4. ASSUME NEW r \in Runs, run[r].pc \in {"consume", "claim"},
             Claimable(run[r].fire.auto, run[r].fire.token), row' = ClearToken(run[r].fire.auto)
      PROVE  /\ run[r].fire # NoFire /\ run[r].fire.token = row[a].token
             /\ run[r].fire.gen = row[a].gen /\ history[r] \in {"running", "failed"}
  <2>1. PICK f \in Fires : f = run[r].fire
    BY <1>4, RunFields, TypedParts DEF IInv
  <2>2. f.auto \in Autos /\ f.auto # 0
    BY FireFields, SchedulerAssumption
  <2>3. f.auto = a
    BY <1>4, <2>1, <2>2, ClearStep
  <2>4. f.token # NoToken /\ f.token = row[a].token
    BY <1>4, <2>1, <2>3 DEF Claimable
  <2>5. Agrees(f)
    BY <1>4, <2>1 DEF TokenInv, Agreed, InFlight, RunHolds
  <2>6. f.gen = row[a].gen
    BY <2>4, <2>5 DEF Agrees
  <2>7. history[r] \in {"running", "failed"}
    BY <1>4 DEF WriteInv, Refused, IInv, Safe, Recorded
  <2> QED BY <2>1, <2>2, <2>4, <2>6, <2>7 DEF NoFire
<1>5. ASSUME NEW b \in Autos, phase = "boot", b \in sched.todo,
             sched.snap[b].def.trigger = "manual", row' = ClearToken(b)
      PROVE  FALSE
  BY <1>5, NoManualDrain, ClearStep
<1>6. ASSUME NEW f \in Fires, NEW t \in FreshTokens, row' = Stamp(f.auto, t, f.occ) PROVE FALSE
  BY <1>6, FireFields, StampStep, FreshIsNobodys DEF Stamps
<1> QED BY <1>1, <1>2, <1>3, <1>4, <1>5, <1>6 DEF RowWrite

LEMMA WriteTokens == ASSUME IInv, TokenInv, WriteInv, RowWrite PROVE TokenOfSchedule'
<1> SUFFICES ASSUME NEW a \in Autos, row'[a].token # NoToken PROVE row'[a].def.trigger # "manual"
  BY DEF TokenOfSchedule
<1>0. row[a].token # NoToken => row[a].def.trigger # "manual"
  BY DEF WriteInv, TokenOfSchedule
<1>1. CASE Quiet
  BY <1>0, <1>1 DEF Quiet
<1>2. ASSUME NEW b \in Autos, Moves(b) PROVE row'[a].def.trigger # "manual"
  BY <1>0, <1>2 DEF Moves
<1>3. ASSUME NEW f \in Fires, NEW t \in FreshTokens, OfSchedule(f), Stampable(f.auto, f.gen),
             row' = Stamp(f.auto, t, f.occ)
      PROVE  row'[a].def.trigger # "manual"
  <2>1. Stamps(f.auto, t, f.occ) /\ row[f.auto].def.trigger # "manual" /\ f.auto \in Autos
    BY <1>3, FireFields, StampStep DEF OfSchedule, Stampable
  <2>2. CASE a = f.auto
    BY <2>1, <2>2 DEF Stamps
  <2>3. CASE a # f.auto
    BY <1>0, <2>1, <2>3 DEF Stamps
  <2> QED BY <2>2, <2>3
<1>4. CASE UNCHANGED row
  BY <1>0, <1>4
<1>5. ASSUME NEW r \in Runs, run[r].pc \in {"consume", "claim"} PROVE run[r].fire.auto \in Autos
  BY <1>5, RunFields, TypedParts DEF IInv
<1> QED BY <1>1, <1>2, <1>3, <1>4, <1>5, NextStep, ClearStep DEF RowWrite

LEMMA OfScheduleOn ==
  ASSUME IInv, IInv', TokenInv, RowStep, NEW f \in Fires, InFlight(f), OfSchedule(f)
  PROVE  OfSchedule(f)'
<1>1. Agrees(f) /\ f.auto \in Autos /\ f.gen \in Nat /\ row[f.auto].gen \in Nat
      /\ row'[f.auto].gen \in Nat
  BY Generations, NextGenerations, FireFields DEF TokenInv, Agreed
<1>2. CASE Quiet
  BY <1>1, <1>2 DEF Quiet, OfSchedule
<1>3. ASSUME NEW a \in Autos, Moves(a) PROVE OfSchedule(f)'
  BY <1>1, <1>3 DEF Moves, OfSchedule, Agrees
<1>4. ASSUME NEW a \in Autos, NEW t \in FreshTokens, NEW o, Stamps(a, t, o) PROVE OfSchedule(f)'
  BY <1>1, <1>4 DEF Stamps, OfSchedule
<1> QED BY <1>2, <1>3, <1>4 DEF RowStep

LEMMA StampWrites ==
  ASSUME NEW f \in Fires, OfSchedule(f), Agrees(f), StampFresh(f) PROVE RowWrite
BY DEF StampFresh, RowWrite

LEMMA BeginWrites ==
  ASSUME NEW f \in Fires, OfSchedule(f), Agrees(f), NEW r \in Runs,
         FireStart(f, r) \/ FireQueue(f, r) \/ FireRefuse(f, r)
  PROVE  RowWrite
<1>1. CASE FireStart(f, r) \/ FireRefuse(f, r)
  BY <1>1 DEF FireStart, FireRefuse, RowWrite
<1>2. CASE FireQueue(f, r)
  BY <1>2 DEF FireQueue, RowWrite
<1> QED BY <1>1, <1>2

LEMMA SchedulerWrites == ASSUME IInv, TokenInv, WriteInv, Scheduler PROVE RowWrite
<1>0. sched.pc \in {"fire", "stamp"} =>
        sched.fire \in Fires /\ OfSchedule(sched.fire) /\ Agrees(sched.fire)
  BY TypedParts DEF IInv, SchedOK, SchedReal, WriteInv, SchedOfSchedule, TokenInv, Agreed,
     InFlight, SchedHolds
<1>1. CASE SchedulerFire
  BY <1>0, <1>1, BeginWrites DEF SchedulerFire
<1>2. CASE SchedulerStamp
  BY <1>0, <1>2, StampWrites DEF SchedulerStamp
<1>3. CASE TickList \/ SchedulerCapped \/ PassDone
  BY <1>3 DEF TickList, SchedulerCapped, PassDone, durable, RowWrite
<1>4. ASSUME NEW a \in Autos,
             TickDrain(a) \/ TickBusy(a) \/ ClaimSlot(a) \/ SkipSlot(a) \/ ClearSlot(a)
             \/ BootSchedule(a)
      PROVE  RowWrite
  <2>1. UNCHANGED row \/ \E n : row' = [row EXCEPT ![a].next = n]
    BY <1>4 DEF TickDrain, TickBusy, ClaimSlot, SkipSlot, ClearSlot, BootSchedule, durable
  <2> QED BY <2>1 DEF RowWrite
<1>5. ASSUME NEW a \in Autos, BootDrain(a) PROVE RowWrite
  BY <1>5 DEF BootDrain, AtRow, RowWrite
<1> QED BY <1>1, <1>2, <1>3, <1>4, <1>5 DEF Scheduler

\* The fire of a popped replacement goes by the definition of the row.
LEMMA DrainFire ==
  ASSUME IInv, TokenInv, WriteInv, NEW r \in Runs, run[r].pc = "drain",
         NEW f, f = [run[r].fire EXCEPT !.def = row[run[r].fire.auto].def]
  PROVE  /\ f \in Fires /\ run[r].fire \in Fires /\ f.auto = run[r].fire.auto
         /\ f.gen = run[r].fire.gen /\ OfSchedule(f) /\ OfSchedule(run[r].fire) /\ Agrees(f)
<1>1. run[r].fire \in Fires /\ run[r].fire.auto \in Autos
  BY RunFields, TypedParts DEF IInv
<1>2. row[run[r].fire.auto].def \in Defs
  BY <1>1, TypedParts DEF IInv, RowOK, RowType
<1>3. OfSchedule(run[r].fire)
  BY DEF WriteInv, NotByHand, HeldOfSchedule
<1>4. /\ f \in Fires /\ f.auto = run[r].fire.auto /\ f.gen = run[r].fire.gen
      /\ f.token = run[r].fire.token /\ f.occ = run[r].fire.occ
      /\ f.def = row[run[r].fire.auto].def
  BY <1>1, <1>2 DEF Fires
<1>5. Agrees(run[r].fire)
  BY <1>1 DEF TokenInv, Agreed, InFlight, RunHolds
<1>6. Agrees(f)
  BY <1>4, <1>5 DEF Agrees, Own
<1> QED BY <1>1, <1>3, <1>4, <1>6 DEF OfSchedule

LEMMA ExecuteWrites == ASSUME IInv, TokenInv, WriteInv, NEW r \in Runs, Execute(r) PROVE RowWrite
<1>1. CASE DrainPending(r)
  <2> DEFINE f == [run[r].fire EXCEPT !.def = row[run[r].fire.auto].def]
  <2>1. /\ run[r].pc = "drain"
        /\ FireStart(f, r) \/ FireQueue(f, r) \/ FireRefuse(f, r) \/ UNCHANGED row
    BY <1>1 DEF DrainPending
  <2>2. f \in Fires /\ OfSchedule(f) /\ Agrees(f)
    BY <2>1, DrainFire
  <2> HIDE DEF f
  <2> QED BY <2>1, <2>2, BeginWrites DEF RowWrite
<1>2. CASE Restamp(r)
  <2>1. run[r].pc = "restamp" /\ StampFresh(run[r].fire)
    BY <1>2 DEF Restamp
  <2>2. run[r].fire \in Fires /\ OfSchedule(run[r].fire) /\ Agrees(run[r].fire)
    BY <2>1, RunFields, TypedParts DEF IInv, WriteInv, NotByHand, HeldOfSchedule, TokenInv,
       Agreed, InFlight, RunHolds
  <2> QED BY <2>1, <2>2, StampWrites
<1>3. CASE Consume(r)
  BY <1>3 DEF Consume, RowWrite
<1>4. CASE ClaimToken(r)
  BY <1>4 DEF ClaimToken, RowWrite
<1>5. CASE Bind(r) \/ Verify(r) \/ Eligible(r) \/ InsertRow(r) \/ StartEngine(r) \/ Finish(r)
           \/ EndRun(r)
  BY <1>5 DEF Bind, Verify, Eligible, InsertRow, StartEngine, Finish, EndRun, durable, RowWrite
<1> QED BY <1>1, <1>2, <1>3, <1>4, <1>5 DEF Execute

\* Nobody edits before serving begins.
LEMMA EditWrites ==
  ASSUME IInv, WriteInv, HandlerStep \/ UserRequest PROVE RowWrite
<1>1. ASSUME NEW h \in Handlers, CommitFlip(h) PROVE RowWrite
  <2>1. PICK a \in Autos : a = req[h].auto
    BY <1>1, TypedParts DEF CommitFlip, IInv, ReqOK, ReqType, IdleReq
  <2>2. phase \notin {"down", "boot"}
    BY <1>1 DEF CommitFlip, WriteInv, BootCurrent
  <2>3. UNCHANGED row \/ row' = EnableFlip(a, req[h].on, req[h].next)
    BY <1>1, <2>1 DEF CommitFlip
  <2> QED BY <2>2, <2>3, EditRows DEF RowWrite
<1>2. ASSUME NEW a \in Autos,
             \/ \E d \in Defs : Create(a, d)
             \/ \E h \in Handlers : (\E d \in Defs : Update(h, a, d)) \/ Delete(h, a)
      PROVE  RowWrite
  <2>1. phase \notin {"down", "boot"}
    BY <1>2 DEF Create, Update, Delete, Serving
  <2>2. \/ \E d, del : row' = Edited(a, d, del)
        \/ row[a].gen = 0 /\ \E d : row' = [row EXCEPT ![a] = NewRow(d)]
    BY <1>2 DEF Create, Update, Delete
  <2> QED BY <2>1, <2>2, EditRows DEF RowWrite
<1>3. CASE \/ \E h \in Handlers : CancelAutomation(h)
           \/ \E r \in Runs : TriggerBegin(r) \/ TriggerRecord(r)
           \/ \E a \in Autos : Trigger(a) \/ \E h \in Handlers, on \in BOOLEAN : ReadFlip(h, a, on)
  BY <1>3 DEF CancelAutomation, TriggerBegin, TriggerRecord, Trigger, ReadFlip, durable, RowWrite
<1> QED BY <1>1, <1>2, <1>3 DEF HandlerStep, UserRequest

LEMMA NextWrites == ASSUME IInv, TokenInv, WriteInv, [Next]_vars PROVE RowWrite
<1>1. CASE ClockTick \/ Start \/ Signal \/ Stop \/ StopReturns \/ Exit \/ UNCHANGED vars
  BY <1>1 DEF ClockTick, Start, Signal, Stop, StopReturns, Exit, vars, durable, RowWrite
<1> QED BY <1>1, SchedulerWrites, ExecuteWrites, EditWrites DEF Next

-----------------------------------------------------------------------------
(* What becomes of a run.                                                    *)

RunStep(x) ==
  \/ run'[x].pc = "free"
  \/ /\ run[x].pc # "free" /\ run'[x].fire = run[x].fire /\ run'[x].manual = run[x].manual
     /\ run'[x].pc \in {"insert", "restamp", "queued", "drain"} => ~run[x].manual
     /\ run'[x].pc \in {"trigger", "record"} => run[x].manual
     /\ run'[x].pc = "consume" => history'[x] = "failed"
  \/ /\ run'[x].pc \in {"bind", "queued"} /\ ~run'[x].manual
     /\ \E f \in Fires : /\ InFlight(f) /\ OfSchedule(f)
                         /\ run'[x].fire.auto = f.auto /\ run'[x].fire.gen = f.gen
  \/ run'[x].pc = "trigger" /\ run'[x].manual /\ run'[x].fire.occ = NoOcc

LEMMA KeptStep == ASSUME WriteInv, NEW x \in Runs, Kept(x) PROVE RunStep(x)
BY DEF WriteInv, Kept, RunStep, NotByHand, Refused

LEMMA BeginSteps ==
  ASSUME IInv, WriteInv, UNCHANGED history, NEW f \in Fires, NEW g \in Fires, NEW r \in Runs,
         run[r].pc \in {"free", "drain"}, FireStart(f, r) \/ FireQueue(f, r) \/ FireRefuse(f, r),
         InFlight(g), OfSchedule(g), g.auto = f.auto, g.gen = f.gen, NEW x \in Runs
  PROVE  RunStep(x)
<1>1. CASE /\ run[x].pc # "free" /\ run'[x].pc = run[x].pc /\ run'[x].fire = run[x].fire
           /\ run'[x].manual = run[x].manual
  BY <1>1 DEF WriteInv, RunStep, NotByHand, Refused
<1> QED BY <1>1, BeginRuns DEF RunStep

LEMMA SchedulerRuns == ASSUME IInv, WriteInv, Scheduler, NEW x \in Runs PROVE RunStep(x)
<1>1. CASE SchedulerFire
  <2>1. PICK f \in Fires : f = sched.fire
    BY <1>1, TypedParts DEF SchedulerFire, IInv, SchedOK, SchedReal
  <2>2. PICK r \in Runs : /\ run[r].pc \in {"free", "drain"}
                          /\ FireStart(f, r) \/ FireQueue(f, r) \/ FireRefuse(f, r)
    BY <1>1, <2>1 DEF SchedulerFire, FreshRun
  <2>3. InFlight(f) /\ OfSchedule(f) /\ UNCHANGED history
    BY <1>1, <2>1 DEF SchedulerFire, InFlight, SchedHolds, WriteInv, SchedOfSchedule
  <2> QED BY <2>2, <2>3, BeginSteps
<1>2. CASE ~SchedulerFire
  <2>1. UNCHANGED <<run, history>>
    BY <1>2 DEF Scheduler, TickList, TickDrain, TickBusy, BootDrain, ClaimSlot, SkipSlot,
       ClearSlot, BootSchedule, SchedulerCapped, SchedulerStamp, PassDone, durable
  <2> QED BY <2>1, KeptStep DEF Kept
<1> QED BY <1>1, <1>2

\* A goroutine goes on to another place.
LEMMA GotoStep ==
  ASSUME IInv, NEW r \in Runs, run[r].pc # "free", NEW pc, Goto(r, pc),
         pc \in {"insert", "restamp", "queued", "drain"} => ~run[r].manual,
         pc \in {"trigger", "record"} => run[r].manual,
         pc = "consume" => history'[r] = "failed"
  PROVE  RunStep(r)
<1>1. run[r] \in RunType /\ run'[r] = [run[r] EXCEPT !.pc = pc]
  BY TypedParts DEF IInv, RunOK, Goto
<1>2. run'[r].pc = pc /\ run'[r].fire = run[r].fire /\ run'[r].manual = run[r].manual
  BY <1>1 DEF RunType
<1> QED BY <1>2 DEF RunStep

LEMMA GoroutineRuns ==
  ASSUME IInv, WriteInv, NEW r \in Runs,
         \/ Verify(r) \/ Eligible(r) \/ Consume(r) \/ InsertRow(r)
         \/ ClaimToken(r) \/ StartEngine(r) \/ Finish(r) \/ Restamp(r),
         NEW x \in Runs
  PROVE  RunStep(x)
<1>1. PICK pc \in {"elig", "end", "restamp", "insert", "engine", "consume", "claim", "running"} :
        /\ Goto(r, pc) /\ run[r].pc # "free"
        /\ pc \in {"insert", "restamp"} => ~run[r].manual
        /\ pc = "consume" => Finalize(r, "failed")
  <2>1. CASE Verify(r)
    BY <2>1 DEF Verify, Retry, Scheduled
  <2>2. CASE Eligible(r)
    BY <2>2 DEF Eligible, AfterChecks, Retry, Scheduled
  <2>3. CASE InsertRow(r)
    BY <2>3 DEF InsertRow, Retry, WriteInv, NotByHand
  <2>4. CASE Consume(r) \/ ClaimToken(r) \/ StartEngine(r) \/ Finish(r) \/ Restamp(r)
    BY <2>4 DEF Consume, ClaimToken, StartEngine, Finish, Restamp
  <2> QED BY <2>1, <2>2, <2>3, <2>4
<1>2. CASE x = r
  BY <1>1, <1>2, FinalizeOthers, GotoStep
<1>3. CASE x # r
  <2>1. history'[x] = history[x]
    BY <1>3, FinalizeOthers
       DEF Verify, Eligible, Consume, InsertRow, ClaimToken, StartEngine, Finish, Restamp
  <2>2. run'[x] = run[x]
    BY <1>1, <1>3, TypedParts DEF IInv, RunOK, Goto
  <2> QED BY <2>1, <2>2, KeptStep DEF Kept
<1> QED BY <1>2, <1>3

LEMMA BindRuns == ASSUME IInv, WriteInv, NEW r \in Runs, Bind(r), NEW x \in Runs PROVE RunStep(x)
<1>1. CASE x = r
  <2>1. /\ run[r].pc # "free" /\ run'[r].pc = "verify" /\ run'[r].fire = run[r].fire
        /\ run'[r].manual = run[r].manual
    BY TypedParts DEF Bind, IInv, RunOK, RunType
  <2> QED BY <1>1, <2>1 DEF RunStep
<1>2. CASE x # r
  BY <1>2, KeptStep, TypedParts DEF Bind, durable, Kept, IInv, RunOK
<1> QED BY <1>1, <1>2

LEMMA EndRunRuns == ASSUME IInv, WriteInv, NEW r \in Runs, EndRun(r), NEW x \in Runs PROVE RunStep(x)
<1> DEFINE a == run[r].fire.auto
           pop == pending[a] # NoRun /\ active[a] = {r} /\ Started
<1>1. /\ run'[x] = (IF x = r THEN IdleRun
                    ELSE IF pop /\ x = pending[a] THEN [run[x] EXCEPT !.pc = "drain"]
                    ELSE run[x])
      /\ a \in Autos
  BY RunFields, TypedParts DEF EndRun, IInv
<1>2. pop /\ x = pending[a] => run[x].pc = "queued"
  BY <1>1 DEF IInv, Safe, PendingReal
<1> HIDE DEF pop, a
<1>3. CASE x = r
  BY <1>1, <1>3 DEF IdleRun, RunStep
<1>4. CASE x # r /\ pop /\ x = pending[a]
  <2>1. run[x] \in RunType
    BY TypedParts DEF IInv, RunOK
  <2>2. /\ run'[x].pc = "drain" /\ run'[x].fire = run[x].fire /\ run'[x].manual = run[x].manual
        /\ run[x].pc = "queued"
    BY <1>1, <1>2, <1>4, <2>1 DEF RunType
  <2> QED BY <2>2 DEF RunStep, WriteInv, NotByHand
<1>5. CASE x # r /\ ~(pop /\ x = pending[a])
  <2>1. run'[x] = run[x]
    BY <1>1, <1>5
  <2>2. history'[x] = history[x]
    BY <1>5, TypedParts DEF EndRun, IInv, HistoryOK
  <2> QED BY <2>1, <2>2, KeptStep DEF Kept
<1> QED BY <1>3, <1>4, <1>5

LEMMA ExecuteRuns ==
  ASSUME IInv, TokenInv, WriteInv, NEW r \in Runs, Execute(r), NEW x \in Runs PROVE RunStep(x)
<1>1. CASE DrainPending(r)
  <2> DEFINE f == [run[r].fire EXCEPT !.def = row[run[r].fire.auto].def]
  <2>1. /\ run[r].pc = "drain" /\ UNCHANGED history
        /\ \/ FireStart(f, r) \/ FireQueue(f, r) \/ FireRefuse(f, r)
           \/ run' = [run EXCEPT ![r] = IdleRun]
    BY <1>1 DEF DrainPending
  <2>2. /\ f \in Fires /\ run[r].fire \in Fires /\ f.auto = run[r].fire.auto
        /\ f.gen = run[r].fire.gen /\ OfSchedule(run[r].fire)
    BY <2>1, DrainFire
  <2>3. InFlight(run[r].fire)
    BY <2>1 DEF InFlight, RunHolds
  <2> HIDE DEF f
  <2>4. CASE run' = [run EXCEPT ![r] = IdleRun]
    <3>1. run'[x] = IF x = r THEN IdleRun ELSE run[x]
      BY <2>4, TypedParts DEF IInv, RunOK
    <3>2. CASE x = r
      BY <3>1, <3>2 DEF RunStep, IdleRun
    <3>3. CASE x # r
      BY <2>1, <3>1, <3>3, KeptStep DEF Kept
    <3> QED BY <3>2, <3>3
  <2> QED BY <2>1, <2>2, <2>3, <2>4, BeginSteps
<1> QED BY <1>1, GoroutineRuns, BindRuns, EndRunRuns DEF Execute

LEMMA HandlerRuns ==
  ASSUME IInv, WriteInv, HandlerStep \/ UserRequest, NEW x \in Runs PROVE RunStep(x)
<1>1. CASE UNCHANGED <<run, history>>
  BY <1>1, KeptStep DEF Kept
<1>2. ASSUME NEW h \in Handlers, CancelAutomation(h) PROVE RunStep(x)
  <2>1. run'[x] \in {IdleRun, Canceled(active[req[h].auto])[x]} /\ UNCHANGED history
    BY <1>2 DEF CancelAutomation, durable
  <2>2. CASE run'[x] = IdleRun
    BY <2>2 DEF IdleRun, RunStep
  <2>3. CASE run'[x] = Canceled(active[req[h].auto])[x]
    <3>1. Kept(x)
      BY <2>1, <2>3, CanceledKept DEF Kept
    <3> QED BY <3>1, KeptStep
  <2> QED BY <2>1, <2>2, <2>3
<1>3. ASSUME NEW r \in Runs, TriggerBegin(r) \/ TriggerRecord(r) PROVE RunStep(x)
  <2>1. /\ run[r].pc # "free" /\ \A y \in Runs \ {r} : history'[y] = history[y]
        /\ \/ \E pc \in {"record", "bind", "end"} : Goto(r, pc)
           \/ run' = [run EXCEPT ![r] = IdleRun]
        /\ run[r].manual
    BY <1>3, FinalizeOthers DEF TriggerBegin, TriggerRecord, durable, WriteInv, NotByHand
  <2>2. \A y \in Runs \ {r} : run'[y] = run[y]
    BY <2>1, TypedParts DEF IInv, RunOK, Goto
  <2>3. CASE x # r
    BY <2>1, <2>2, <2>3, KeptStep DEF Kept
  <2>4. CASE x = r /\ run' = [run EXCEPT ![r] = IdleRun]
    BY <2>4, TypedParts DEF IInv, RunOK, IdleRun, RunStep
  <2> QED BY <2>1, <2>3, <2>4, GotoStep
<1>4. ASSUME NEW a \in Autos, Trigger(a) PROVE RunStep(x)
  <2>1. UNCHANGED history
        /\ \/ run'[x] = run[x]
           \/ run'[x] = [IdleRun EXCEPT !.pc = "trigger", !.manual = TRUE,
                           !.fire = [auto |-> a, gen |-> row[a].gen, token |-> NoToken,
                                     occ |-> NoOcc, def |-> row[a].def]]
    BY <1>4, TypedParts DEF Trigger, durable, IInv, RunOK
  <2>2. CASE run'[x] = run[x]
    BY <2>1, <2>2, KeptStep DEF Kept
  <2>3. CASE run'[x] # run[x]
    <3> DEFINE g == [auto |-> a, gen |-> row[a].gen, token |-> NoToken, occ |-> NoOcc,
                     def |-> row[a].def]
    <3>1. run'[x] = [IdleRun EXCEPT !.pc = "trigger", !.manual = TRUE, !.fire = g]
      BY <2>1, <2>3
    <3>2. g.occ = NoOcc
      OBVIOUS
    <3> HIDE DEF g
    <3>3. run'[x].pc = "trigger" /\ run'[x].manual = TRUE /\ run'[x].fire = g
      BY <3>1 DEF IdleRun
    <3> QED BY <3>2, <3>3 DEF RunStep
  <2> QED BY <2>2, <2>3
<1> QED BY <1>1, <1>2, <1>3, <1>4
    DEF HandlerStep, UserRequest, CommitFlip, Create, Update, Delete, ReadFlip, durable

LEMMA NextRuns == ASSUME IInv, TokenInv, WriteInv, [Next]_vars, NEW x \in Runs PROVE RunStep(x)
<1>1. CASE ClockTick \/ StopReturns \/ UNCHANGED vars
  BY <1>1, KeptStep DEF ClockTick, StopReturns, durable, vars, Kept
<1>2. CASE Start
  BY <1>2 DEF Start, IInv, Safe, NoneWhenDown, RunStep
<1>3. CASE Exit
  BY <1>3 DEF Exit, IdleRun, RunStep
<1>4. CASE Signal
  <2>1. run[x] \in RunType
    BY TypedParts DEF IInv, RunOK
  <2>2. Kept(x)
    BY <1>4, <2>1 DEF Signal, durable, Kept, RunType
  <2> QED BY <2>2, KeptStep
<1>5. CASE Stop
  <2>1. Kept(x)
    BY <1>5, CanceledKept DEF Stop, durable, Kept
  <2> QED BY <2>1, KeptStep
<1> QED BY <1>1, <1>2, <1>3, <1>4, <1>5, SchedulerRuns, ExecuteRuns, HandlerRuns DEF Next

LEMMA RunsKeep ==
  ASSUME IInv, IInv', TokenInv, WriteInv, RowStep, \A x \in Runs : RunStep(x)
  PROVE  HeldOfSchedule' /\ Refused' /\ NotByHand'
<1>1. Refused' /\ NotByHand'
  BY DEF RunStep, Refused, NotByHand, WriteInv
<1>2. ASSUME NEW x \in Runs, run'[x].pc # "free", ~run'[x].manual
      PROVE  OfSchedule(run[x].fire)'
  <2>1. PICK f \in Fires : /\ InFlight(f) /\ OfSchedule(f)
                           /\ run'[x].fire.auto = f.auto /\ run'[x].fire.gen = f.gen
    <3>1. CASE /\ run[x].pc # "free" /\ run'[x].fire = run[x].fire
               /\ run'[x].manual = run[x].manual
      <4>1. run[x].fire \in Fires /\ InFlight(run[x].fire)
        BY <3>1, RunFields, TypedParts DEF IInv, InFlight, RunHolds
      <4>2. OfSchedule(run[x].fire)
        BY <1>2, <3>1 DEF WriteInv, HeldOfSchedule
      <4> QED BY <3>1, <4>1, <4>2
    <3> QED BY <1>2, <3>1 DEF RunStep
  <2>2. OfSchedule(f)'
    BY <2>1, OfScheduleOn
  <2> QED BY <2>1, <2>2 DEF OfSchedule
<1>3. HeldOfSchedule'
  BY <1>2 DEF HeldOfSchedule
<1> QED BY <1>1, <1>3

-----------------------------------------------------------------------------
(* What becomes of the scan.                                                 *)

\* A fire that the scheduler takes in hand is of a schedule.
LEMMA ScanFires ==
  ASSUME IInv, IInv', TokenInv, WriteInv, RowStep, [Next]_vars PROVE SchedOfSchedule'
<1> SUFFICES ASSUME sched'.pc \in {"fire", "stamp"} PROVE OfSchedule(sched.fire)'
  BY DEF SchedOfSchedule
<1>1. CASE sched.pc \in {"fire", "stamp"} /\ sched'.fire = sched.fire
  <2>1. PICK f \in Fires : f = sched.fire
    BY <1>1, TypedParts DEF IInv, SchedOK, SchedReal
  <2>2. InFlight(f) /\ OfSchedule(f)
    BY <1>1, <2>1 DEF InFlight, SchedHolds, WriteInv, SchedOfSchedule
  <2> QED BY <1>1, <2>1, <2>2, OfScheduleOn
<1>2. ASSUME NEW a \in sched.todo, NEW t \in {NoToken, sched.snap[a].token}, NEW o,
             sched.snap[a].def.trigger # "manual", sched'.fire = Fire(a, t, o)
      PROVE  OfSchedule(sched.fire)'
  <2>1. SchedOK /\ a \in Autos
    BY TypedParts DEF IInv, SchedOK
  <2>2. PICK f \in Fires : f = Fire(a, NoToken, NoOcc)
    BY <2>1, FireType
  <2>3. /\ f.auto = a /\ f.gen = sched.snap[a].gen /\ f.def = sched.snap[a].def
        /\ f.token = NoToken /\ Own(f)
    BY <2>2 DEF Fire, Own
  <2>4. InFlight(f)
    BY <2>3 DEF InFlight, SchedHolds
  <2>5. OfSchedule(f)
    BY <1>2, <2>3, ListedAgrees DEF OfSchedule
  <2>6. OfSchedule(f)'
    BY <2>4, <2>5, OfScheduleOn
  <2>7. sched'.fire.auto = f.auto /\ sched'.fire.gen = f.gen
    BY <1>2, <2>3 DEF Fire
  <2> QED BY <2>6, <2>7 DEF OfSchedule
<1>3. ASSUME NEW a \in Autos,
             TickDrain(a) \/ TickBusy(a) \/ BootDrain(a) \/ ClaimSlot(a) \/ SkipSlot(a)
             \/ ClearSlot(a) \/ BootSchedule(a)
      PROVE  \E t \in {NoToken, sched.snap[a].token} : \E o :
               /\ a \in sched.todo /\ sched.snap[a].def.trigger # "manual"
               /\ sched'.fire = Fire(a, t, o)
  <2>1. a \in sched.todo /\ sched.pc = "scan"
    BY <1>3 DEF TickDrain, TickBusy, BootDrain, ClaimSlot, SkipSlot, ClearSlot, BootSchedule, AtSlot,
       AtRow
  <2>2. sched' = NextRow(a) => sched'.pc = "scan"
    BY <2>1, TypedParts DEF IInv, SchedOK, NextRow
  <2>3. sched' = [sched EXCEPT !.snap[a].token = NoToken] => sched'.pc = "scan"
    BY <2>1, TypedParts DEF IInv, SchedOK
  <2>4. CASE TickDrain(a)
    <3>1. sched'.fire = Fire(a, sched.snap[a].token, sched.snap[a].occ)
      BY <2>4, TypedParts DEF TickDrain, IInv, SchedOK, NextRow
    <3> QED BY <2>1, <2>4, <3>1 DEF TickDrain, Manual
  <2>5. CASE BootDrain(a)
    <3>1. sched.snap[a].def.trigger # "manual"
      BY <2>3, <2>5 DEF BootDrain
    <3>2. sched'.fire = Fire(a, sched.snap[a].token, sched.snap[a].occ)
      BY <2>5, <3>1, TypedParts DEF BootDrain, IInv, SchedOK
    <3> QED BY <2>1, <3>1, <3>2
  <2>6. CASE ClaimSlot(a)
    <3>1. \E o : sched' = [NextRow(a) EXCEPT !.pc = "fire", !.fire = Fire(a, NoToken, o)]
      BY <2>2, <2>6 DEF ClaimSlot
    <3>2. \E o : sched'.fire = Fire(a, NoToken, o)
      BY <3>1, TypedParts DEF IInv, SchedOK, NextRow
    <3> QED BY <2>1, <2>6, <3>2 DEF ClaimSlot, Manual
  <2> QED BY <1>3, <2>2, <2>3, <2>4, <2>5, <2>6 DEF TickBusy, SkipSlot, ClearSlot, BootSchedule
<1>4. CASE SchedulerFire \/ SchedulerStamp \/ TickList \/ PassDone
  <2>1. CASE SchedulerFire \/ SchedulerStamp
    <3>1. sched' = [sched EXCEPT !.pc = "scan", !.fire = NoFire]
      BY <2>1 DEF SchedulerFire, SchedulerStamp
    <3>2. sched'.pc = "scan"
      BY <3>1, TypedParts DEF IInv, SchedOK
    <3> QED BY <3>2
  <2>2. CASE TickList
    <3>1. sched'.pc = "scan"
      BY <2>2, TypedParts DEF TickList, IInv, SchedOK
    <3> QED BY <3>1
  <2>3. CASE PassDone
    BY <2>3 DEF PassDone, IdleSched
  <2> QED BY <1>4, <2>1, <2>2, <2>3
<1>5. CASE SchedulerCapped
  <2>1. sched.pc = "fire" /\ sched' = AfterCap
    BY <1>5 DEF SchedulerCapped
  <2>2. sched'.fire = sched.fire
    BY <2>1, TypedParts DEF AfterCap, IInv, SchedOK
  <2> QED BY <1>1, <2>1, <2>2
<1>6. CASE Start \/ Exit
  BY <1>6 DEF Start, Listed, Exit, IdleSched
<1>7. CASE UNCHANGED sched
  BY <1>1, <1>7
<1>8. CASE \/ \E r \in Runs : Execute(r)
           \/ HandlerStep \/ UserRequest \/ ClockTick \/ Signal \/ Stop \/ StopReturns
           \/ UNCHANGED vars
  <2>1. UNCHANGED sched
    BY <1>8 DEF Execute, Bind, Verify, Eligible, Consume, InsertRow, ClaimToken, StartEngine, Finish,
       Restamp, EndRun, DrainPending, HandlerStep, CommitFlip, CancelAutomation, TriggerBegin,
       TriggerRecord, UserRequest, Create, Update, Delete, ReadFlip, Trigger, ClockTick, Signal,
       Stop, StopReturns, vars
  <2> QED BY <1>7, <2>1
<1>9. CASE Scheduler
  BY <1>2, <1>3, <1>4, <1>5, <1>9 DEF Scheduler
<1> QED BY <1>6, <1>8, <1>9 DEF Next

LEMMA BootSteps == ASSUME IInv, Scheduler, phase' = "boot" PROVE SchedStep
<1>1. CASE SchedulerFire \/ SchedulerStamp
  <2>1. sched' = [sched EXCEPT !.pc = "scan", !.fire = NoFire]
    BY <1>1 DEF SchedulerFire, SchedulerStamp
  <2>2. sched'.pc = "scan"
    BY <2>1, TypedParts DEF IInv, SchedOK
  <2> QED BY <2>1, <2>2, RestStep
<1>2. CASE SchedulerCapped
  <2>1. sched.pc = "fire" /\ sched' = AfterCap
    BY <1>2 DEF SchedulerCapped
  <2> QED BY <2>1, RestStep DEF AfterCap
<1>3. CASE TickList \/ PassDone
  BY <1>3 DEF TickList, Ticking, PassDone
<1> QED BY <1>1, <1>2, <1>3, ScanSteps DEF Scheduler

LEMMA WriteKept == ASSUME IInv, RowWrite, phase \in {"down", "boot"} PROVE RowsKept
<1>1. CASE UNCHANGED row
  BY <1>1 DEF RowsKept
<1>2. ASSUME NEW a \in Autos, NEW n, row' = [row EXCEPT ![a].next = n] PROVE RowsKept
  BY <1>2, TypedParts DEF IInv, RowOK, RowType, RowsKept
<1>3. ASSUME NEW r \in Runs, run[r].pc \in {"consume", "claim"} PROVE run[r].fire.auto \in Autos
  BY <1>3, RunFields, TypedParts DEF IInv
<1>4. ASSUME NEW f \in Fires, NEW t, row' = Stamp(f.auto, t, f.occ) PROVE RowsKept
  BY <1>4, FireFields, StampKept
<1> QED BY <1>1, <1>2, <1>3, <1>4, ClearKept DEF RowWrite

\* While reconcile runs, no request is under way and no row moves on.
LEMMA BootKeeps ==
  ASSUME IInv, TokenInv, WriteInv, RowWrite, [Next]_vars PROVE BootCurrent'
<1>1. CASE Start
  <2>1. UNCHANGED <<row, req>> /\ phase = "down"
    BY <1>1 DEF Start
  <2>2. \E rows : sched' = Listed(rows) /\ rows \subseteq Schedulable
    BY <1>1 DEF Start
  <2>3. \A a \in sched'.todo : a \in Schedulable /\ a \in Autos /\ sched'.snap[a] = Snapshot[a]
    BY <2>2 DEF Listed, Schedulable
  <2>4. \A a \in Schedulable : a \in Autos => Snapshot[a].gen = row[a].gen
    BY DEF Snapshot
  <2>5. \A a \in sched'.todo : sched'.snap[a].gen = row'[a].gen
    BY <2>1, <2>3, <2>4
  <2>6. \A h \in Handlers : req[h].pc = "idle"
    BY <2>1 DEF WriteInv, BootCurrent
  <2> QED BY <2>1, <2>5, <2>6 DEF BootCurrent
<1>2. CASE Exit
  BY <1>2 DEF Exit, IdleReq, BootCurrent
<1>3. CASE ~Start /\ ~Exit
  <2> SUFFICES ASSUME phase' \in {"down", "boot"} PROVE BootCurrent'
    BY DEF BootCurrent
  <2>1. phase = phase'
    BY <1>3 DEF Next, Scheduler, TickList, TickDrain, TickBusy, BootDrain, ClaimSlot, SkipSlot,
       ClearSlot, BootSchedule, SchedulerFire, SchedulerCapped, SchedulerStamp, PassDone, Execute,
       Bind, Verify, Eligible, Consume, InsertRow, ClaimToken, StartEngine, Finish, Restamp, EndRun,
       DrainPending, HandlerStep, CommitFlip, CancelAutomation, TriggerBegin, TriggerRecord,
       UserRequest, Create, Update, Delete, ReadFlip, Trigger, ClockTick, Signal, Stop,
       StopReturns, vars
  <2>2. \A h \in Handlers : req[h].pc = "idle"
    BY <2>1 DEF WriteInv, BootCurrent
  <2>3. UNCHANGED req
    BY <1>3, <2>1, <2>2 DEF Next, Scheduler, TickList, TickDrain, TickBusy, BootDrain, ClaimSlot,
       SkipSlot, ClearSlot, BootSchedule, SchedulerFire, SchedulerCapped, SchedulerStamp, PassDone,
       Execute, Bind, Verify, Eligible, Consume, InsertRow, ClaimToken, StartEngine, Finish,
       Restamp, EndRun, DrainPending, HandlerStep, CommitFlip, CancelAutomation, TriggerBegin,
       TriggerRecord, UserRequest, Create, Update, Delete, ReadFlip, Serving, Trigger, ClockTick,
       Signal, Stop, StopReturns, vars
  <2>4. ASSUME phase' = "boot", NEW a \in sched'.todo PROVE sched'.snap[a].gen = row'[a].gen
    <3>1. a \in sched.todo /\ sched'.snap[a].gen = sched.snap[a].gen
      <4>1. CASE Scheduler
        BY <2>4, <4>1, BootSteps DEF SchedStep
      <4>2. CASE ~Scheduler
        <5>1. UNCHANGED sched
          BY <1>3, <4>2 DEF Next, Execute, Bind, Verify, Eligible, Consume, InsertRow, ClaimToken,
             StartEngine, Finish, Restamp, EndRun, DrainPending, HandlerStep, CommitFlip,
             CancelAutomation, TriggerBegin, TriggerRecord, UserRequest, Create, Update, Delete,
             ReadFlip, Trigger, ClockTick, Signal, Stop, StopReturns, vars
        <5> QED BY <2>4, <5>1
      <4> QED BY <4>1, <4>2
    <3>2. a \in Autos /\ sched.snap[a].gen = row[a].gen
      BY <2>1, <2>4, <3>1, TypedParts DEF WriteInv, BootCurrent, IInv, SchedOK
    <3>3. row'[a].gen = row[a].gen
      BY <2>1, <2>4, <3>2, WriteKept DEF RowsKept
    <3> QED BY <3>1, <3>2, <3>3
  <2> QED BY <2>2, <2>3, <2>4 DEF BootCurrent
<1> QED BY <1>1, <1>2, <1>3

LEMMA WriteInit == Init => WriteInv
<1> SUFFICES ASSUME Init PROVE WriteInv
  OBVIOUS
<1>1. \A r \in Runs : run[r].pc = "free"
  BY DEF Init, IdleRun
<1>2. TokenOfSchedule
  BY DEF Init, NewRow, TokenOfSchedule
<1>3. sched.pc = "idle" /\ phase = "down" /\ \A h \in Handlers : req[h].pc = "idle"
  BY DEF Init, IdleSched, IdleReq
<1> QED BY <1>1, <1>2, <1>3
    DEF WriteInv, HeldOfSchedule, SchedOfSchedule, BootCurrent, Refused, NotByHand

LEMMA WriteNext == IInv /\ IInv' /\ TokenInv /\ WriteInv /\ [Next]_vars =>
                     WriteInv' /\ \A a \in Autos : TokenStep(a)
<1> SUFFICES ASSUME IInv, IInv', TokenInv, WriteInv, [Next]_vars
             PROVE  WriteInv' /\ \A a \in Autos : TokenStep(a)
  OBVIOUS
<1>1. RowWrite
  BY NextWrites
<1>2. RowStep /\ TokenOfSchedule' /\ \A a \in Autos : TokenStep(a)
  BY <1>1, WriteStep, WriteTokens, WriteConsumes
<1>3. HeldOfSchedule' /\ Refused' /\ NotByHand'
  BY <1>2, NextRuns, RunsKeep
<1>4. SchedOfSchedule' /\ BootCurrent'
  BY <1>1, <1>2, ScanFires, BootKeeps
<1> QED BY <1>2, <1>3, <1>4 DEF WriteInv

\* A durable token leaves its row only by an edit, by a newer token, or into a run that has this
\* token and its record already (execute inserts the row before ClaimPendingFire clears the token):
\* reconcile's clearing of manual automations' tokens never meets one, and whoever holds the token
\* of a row was made under the row's generation.
THEOREM TokenRecorded == Spec => TokenConsumedIntoRecord
<1>1. IInv /\ IInv' /\ TokenInv /\ WriteInv /\ [Next]_vars => [\A a \in Autos : TokenStep(a)]_vars
  BY WriteNext
<1>2. Spec => []WriteInv
  BY WriteInit, WriteNext, Inductive, Backing, PTL DEF Spec
<1> QED BY <1>1, <1>2, Inductive, Backing, PTL DEF Spec, TokenConsumedIntoRecord
=============================================================================
