-------------------------- MODULE AutomationEngine --------------------------
(****************************************************************************)
(* One run of an automation: the engine of internal/automation/engine.go,   *)
(* which executes a tree of steps with a goroutine per parallel child.      *)
(*                                                                          *)
(* A goroutine is named by the path of parallel children that leads to it,  *)
(* <<>> for the run itself, so its context is cancelled with the group of   *)
(* any of its prefixes.  Its stack holds the calls it is in, and ret the    *)
(* finish or the fatal error with which the innermost one has ended.        *)
(* Values are abstracted: a scope is the set of steps that have an output,  *)
(* every output has size 1, and what a predicate, a reference or the world  *)
(* outside answers is a choice.                                             *)
(****************************************************************************)
EXTENDS Integers, Sequences, FiniteSets, SequencesExt

CONSTANTS
  Steps,           \* ids of steps
  Definitions,     \* a function to definitions: their steps and outermost level
  MaxParallelism,  \* Caps.MaxParallelism
  Budget,          \* calls allowed of each kind, 0 for no limit
  OutputCap,       \* what an aggregate may hold
  MaxStepLogs,     \* nodes that the nested logs of a record may have
  MaxItems         \* bound: items of a loop

Kinds == {"tool", "llm", "agent_cli"}
StepType == [type : Kinds \cup {"condition", "for_each", "parallel", "finish"},
             kids : Seq(Steps), then : Seq(Steps), else : Seq(Steps), cont : BOOLEAN]
ASSUME EngineAssumption ==
  /\ \A d \in Range(Definitions) : d.top \in Seq(Steps) /\ d.step \in [Steps -> StepType]
  /\ MaxParallelism \in Nat \ {0} /\ Budget \in [Kinds -> Nat]
  /\ {OutputCap, MaxStepLogs, MaxItems} \subseteq Nat

VARIABLES
  def,      \* the name of the definition that is run
  go,       \* the goroutines not yet joined: stack and ret
  sem,      \* the goroutines that hold a place of e.sem
  charged,  \* modelCalls, agentRuns, toolCalls
  nodes,    \* recordedLogs and logsTruncated
  dead,     \* goroutines whose parallel group has been cancelled
  ctx,      \* the context of the run, and whether its parent is cancelled
  status,   \* of the run record
  past      \* ghost: calls made, whether the run must fail,
            \* whether a budget was hit and whether a step has finished it as failed
vars == <<def, go, sem, charged, nodes, dead, ctx, status, past>>

Step(s) == Definitions[def].step[s]
None == [is |-> "none", why |-> "none"]
Ok == [is |-> "ok", why |-> "none"]
Fin(why) == [is |-> "fin", why |-> why]
Fatal(why) == [is |-> "fatal", why |-> why]
isCanceled(r) == r = Fatal("cancel")
BrokenisAbort(r) == isCanceled(r)
isAbort(r) == isCanceled(r) \/ r = Fatal("budget")

\* indexLevel: a step that a condition of its level may branch to is no root.
Targets(level) == UNION {ToSet(Step(s).then) \cup ToSet(Step(s).else) :
                           s \in {s \in ToSet(level) : Step(s).type = "condition"}}
Roots(level) == {i \in DOMAIN level : level[i] \notin Targets(level)}

\* The calls on a stack: execLevel with its scope, the branch of a condition, runForEach,
\* runParallel, runLeaf; todo holds the places of the steps that are left, and n counts
\* the nodes of the log it builds.
Level(steps, todo) == [f |-> "level", steps |-> steps, todo |-> todo, outs |-> {}, n |-> 0]
Branch(steps, chain) ==
  [f |-> "branch", steps |-> steps, todo |-> DOMAIN steps, chain |-> chain, n |-> 1]
Loop(s, left) == [f |-> "loop", step |-> s, left |-> left, agg |-> 0, n |-> 1]
Join(s) == [f |-> "join", step |-> s, n |-> 1]
Leaf(s, at) == [f |-> "leaf", step |-> s, at |-> at, n |-> 1]
Ended(level) == [f |-> "end", outs |-> level.outs, n |-> level.n]

Stack(g) == go[g].stack
Call(g) == Last(Stack(g))
In(g, f) == g \in DOMAIN go /\ Call(g).f = f
At(g, at) == In(g, "leaf") /\ Call(g).at = at
Put(g, stack, r) == go' = [go EXCEPT ![g] = [stack |-> stack, ret |-> r]]
Now(g, call) == Append(Front(Stack(g)), call)
Goto(g, call) == Put(g, Now(g, call), None)

\* The context of a goroutine: that of the run, and those of the groups around it.
Groups(g) == {SubSeq(g, 1, i) : i \in 0 .. Len(g) - 1}
Done(g) == ctx.run # "live" \/ Groups(g) \cap dead # {}

\* The innermost of the calls returns r, and its log becomes part of its caller's.
Logged(calls, more) == Append(Front(calls), [Last(calls) EXCEPT !.n = @ + more])
Return(g, calls, r) ==
  Put(g, Logged(Front(calls), Last(calls).n), IF r = Ok THEN None ELSE r)

\* setOutput: into the scope of the innermost level.
ScopeOf(calls) == CHOOSE i \in DOMAIN calls :
  /\ calls[i].f = "level" /\ \A j \in i + 1 .. Len(calls) : calls[j].f # "level"
setOutput(calls, s) == [calls EXCEPT ![ScopeOf(calls)].outs = @ \cup {s}]

\* What no continue_on_error may swallow.
Aborts == {Fatal("cancel"), Fatal("budget")}
\* The run must fail: no loop or group around goroutine g (its calls, and those of the
\* goroutines that wait for it) swallows failures, or it is aborted with no sibling to
\* speak first.
Around(g, calls) == ToSet(calls) \cup UNION {ToSet(Stack(h)) : h \in Groups(g)}
Swallowed(g, calls) == \E c \in Around(g, calls) : c.f \in {"loop", "join"} /\ Step(c.step).cont
Dooms(g, calls, r) ==
  /\ r.is = "fatal" /\ (isCanceled(r) => ctx.run # "live")
  /\ ~Swallowed(g, calls) \/ (r \in Aborts /\ g = <<>>)
Doom(g, calls, r) == past' = [past EXCEPT !.doomed = @ \/ Dooms(g, calls, r),
                                          !.hit = @ \/ r = Fatal("budget")]
Raise(g, calls, r) == Return(g, calls, r) /\ Doom(g, Front(calls), r)

-----------------------------------------------------------------------------
(* Sequences of steps: execLevel, the branch of a condition, runStep.        *)

Chain(g) == IF Call(g).f = "branch" THEN Call(g).chain ELSE {}
Rest(g) == Now(g, [Call(g) EXCEPT !.todo = @ \ {Min(@)}])
Enter(g, call) == Put(g, Append(Rest(g), call), None) /\ UNCHANGED past
Give(g, r, n) == /\ Put(g, Logged(Rest(g), n), IF r = Ok THEN None ELSE r)
                 /\ Doom(g, Stack(g), r)
Lenient(d) == IF d.cont THEN Ok ELSE Fatal("step")

\* runCondition: a cycle of conditions fails, and so may the predicate.
runCondition(g, s, d) ==
  IF s \in Chain(g) THEN Give(g, Fatal("step"), 1)
  ELSE \/ Give(g, Lenient(d), 1)
       \/ \E branch \in {d.then, d.else} : Enter(g, Branch(branch, Chain(g) \cup {s}))

\* resolveItems: no array, too many items, or a loop over them.
resolveItems(g, s, d) ==
  Give(g, Lenient(d), 1) \/ \E items \in 0 .. MaxItems : Enter(g, Loop(s, items))

\* A goroutine per root of the group.
Children(g, s) == LET kids == Step(s).kids IN [i \in Roots(kids) |-> Append(g, kids[i])]
Spawned(g, s) == Range(Children(g, s))
Born(c) == [stack |-> <<Level(<<Last(c)>>, {1})>>, ret |-> None]
spawn(g, s) ==
  /\ go' = [c \in DOMAIN go \cup Spawned(g, s) |->
              IF c = g THEN [stack |-> Append(Rest(g), Join(s)), ret |-> None]
              ELSE IF c \in Spawned(g, s) THEN Born(c) ELSE go[c]]
  /\ UNCHANGED past

runStep(g, s, d) ==
  \/ Done(g) /\ Give(g, Fatal("cancel"), 0)
  \/ /\ ~Done(g)
     /\ \/ d.type = "finish" /\ \E why \in {"success", "skipped", "failed"} : Give(g, Fin(why), 1)
        \/ d.type = "condition" /\ runCondition(g, s, d)
        \/ d.type = "for_each" /\ resolveItems(g, s, d)
        \/ d.type = "parallel" /\ spawn(g, s)
        \/ d.type \in Kinds /\ Enter(g, Leaf(s, "acquire"))

\* The next step of a level or branch.
InSteps(g) == In(g, "level") \/ In(g, "branch")
execLevel(g) ==
  /\ InSteps(g) /\ go[g].ret = None /\ Call(g).todo # {}
  /\ LET s == Call(g).steps[Min(Call(g).todo)] IN runStep(g, s, Step(s))
  /\ UNCHANGED <<def, sem, charged, nodes, dead, ctx, status>>

\* Its end: no step is left, or one has raised a finish or a fatal error.
Over(g) == go[g].ret # None \/ Call(g).todo = {}
Result(g) == IF go[g].ret = None THEN Ok ELSE go[g].ret
endBranch(g) ==
  /\ In(g, "branch") /\ Over(g) /\ Return(g, Stack(g), Result(g))
  /\ UNCHANGED <<def, sem, charged, nodes, dead, ctx, status, past>>

-----------------------------------------------------------------------------
(* Leaves: runLeaf, dispatchLeaf and the executor.                           *)

acquire(g) ==
  /\ At(g, "acquire")
  /\ \/ /\ Cardinality(sem) < MaxParallelism /\ sem' = sem \cup {g}
        /\ Goto(g, Leaf(Call(g).step, "charge")) /\ UNCHANGED past
     \/ Done(g) /\ Raise(g, Stack(g), Fatal("cancel")) /\ UNCHANGED sem
  /\ UNCHANGED <<def, charged, nodes, dead, ctx, status>>

\* A leaf is over: its place is given back, and a cancelled context goes before
\* whatever the executor has answered.
Brokenrelease(g) == sem' = sem
release(g) == sem' = sem \ {g}
Answer(g, r, out) ==
  /\ release(g)
  /\ IF Done(g) THEN Raise(g, Stack(g), Fatal("cancel"))
     ELSE Raise(g, IF out THEN setOutput(Stack(g), Call(g).step) ELSE Stack(g), r)

\* chargeModel, chargeAgent, chargeTool.
Kind(g) == Step(Call(g).step).type
BrokenAffordable(k) == Budget[k] = 0 \/ charged[k] <= Budget[k]
Affordable(k) == Budget[k] = 0 \/ charged[k] < Budget[k]
charge(g) ==
  /\ At(g, "charge")
  /\ IF Affordable(Kind(g))
     THEN /\ charged' = [charged EXCEPT ![Kind(g)] = @ + 1]
          /\ Goto(g, Leaf(Call(g).step, "resolve")) /\ UNCHANGED <<sem, past>>
     ELSE Answer(g, Fatal("budget"), FALSE) /\ UNCHANGED charged
  /\ UNCHANGED <<def, nodes, dead, ctx, status>>

\* A failed step: swallowed by its own continue_on_error, or fatal.
Failure(g) == LET r == Lenient(Step(Call(g).step)) IN Answer(g, r, r = Ok)
dispatchLeaf(g) ==
  /\ At(g, "resolve")
  /\ \/ Failure(g)
     \/ /\ Goto(g, Leaf(Call(g).step, "run")) /\ UNCHANGED sem
        /\ past' = [past EXCEPT !.calls[Kind(g)] = @ + 1]
  /\ UNCHANGED <<def, charged, nodes, dead, ctx, status>>
runLeaf(g) ==
  /\ At(g, "run") /\ (Answer(g, Ok, TRUE) \/ Failure(g))
  /\ UNCHANGED <<def, charged, nodes, dead, ctx, status>>

-----------------------------------------------------------------------------
(* Loops.                                                                    *)

\* recordLogs: a subtree that does not fit is dropped, with one marker in the run.
Fits(log, more) == log.n + more <= MaxStepLogs
Recorded(log, more) == IF Fits(log, more) THEN more ELSE IF log.cut THEN 0 ELSE 1
recordLogs(log, more) == [n |-> log.n + Recorded(log, more), cut |-> log.cut \/ ~Fits(log, more)]

\* The results are complete: they become the output of the loop or group.
Aggregate(g, calls, r) == Return(g, setOutput(calls, Last(calls).step), r)
forEachNext(g) ==
  /\ In(g, "loop")
  /\ IF Call(g).left = 0 THEN Aggregate(g, Stack(g), Ok) /\ UNCHANGED past
     ELSE IF Done(g) THEN Raise(g, Stack(g), Fatal("cancel"))
     ELSE /\ LET kids == Step(Call(g).step).kids IN
             Put(g, Append(Now(g, [Call(g) EXCEPT !.left = @ - 1]), Level(kids, Roots(kids))), None)
          /\ UNCHANGED past
  /\ UNCHANGED <<def, sem, charged, nodes, dead, ctx, status>>

\* An iteration is over.  An abort ends the loop, so does an aggregate that has become
\* too big, and then the policy of the loop decides about a failure.
Truncated(agg) == agg > OutputCap
Swallows(call, r) == r.is = "fatal" /\ Step(call.step).cont
runForEach(g) ==
  LET calls == Front(Stack(g))
      loop == [Last(calls) EXCEPT !.agg = @ + 1, !.n = @ + Recorded(nodes, Call(g).n)]
      upTo == Append(Front(calls), loop)
      r == Result(g)
  IN /\ In(g, "level") /\ Len(Stack(g)) > 1 /\ Over(g)
     /\ nodes' = recordLogs(nodes, Call(g).n)
     /\ IF isAbort(r) THEN Return(g, upTo, r)
        ELSE IF Truncated(loop.agg) THEN Return(g, upTo, Fatal("cut"))
        ELSE IF r = Ok \/ Swallows(loop, r) THEN Put(g, upTo, None)
        ELSE IF r.is = "fatal" THEN Return(g, upTo, r)
        ELSE Aggregate(g, upTo, r)
     /\ Doom(g, Front(calls), IF ~isAbort(r) /\ Truncated(loop.agg) THEN Fatal("cut") ELSE Ok)
     /\ UNCHANGED <<def, sem, charged, dead, ctx, status>>

-----------------------------------------------------------------------------
(* Parallel groups.                                                          *)

\* A child is over: a finish, or a failure the group does not swallow, cancels the rest.
Fails(call, r) == r.is = "fatal" /\ (~Step(call.step).cont \/ isAbort(r))
endChild(c) ==
  /\ c # <<>> /\ In(c, "level") /\ Len(Stack(c)) = 1 /\ Over(c)
  /\ Put(c, <<Ended(Call(c))>>, Result(c))
  /\ dead' = IF Result(c).is = "fin" \/ Fails(Call(Front(c)), Result(c))
             THEN dead \cup {Front(c)} ELSE dead
  /\ UNCHANGED <<def, sem, charged, nodes, ctx, status, past>>

\* wg.Wait, then the logs and outputs in the order of the children.  A cause goes before
\* the cancellations it led to; cancellations that only a finish led to are none.
First(rets, is) == rets[Min(is)]
Outcome(g, rets, cut) ==
  LET fatals == {i \in DOMAIN rets : Fails(Call(g), rets[i])}
      causes == {i \in fatals : ~isCanceled(rets[i])}
      fins == {i \in DOMAIN rets : rets[i].is = "fin"}
  IN IF causes # {} THEN First(rets, causes)
     ELSE IF fatals # {} /\ Done(g) THEN Fatal("cancel")
     ELSE IF cut THEN Fatal("cut")
     ELSE IF fins # {} THEN First(rets, fins) ELSE Ok
MergeLogs(g, cs) ==
  LET Log(log, s) == IF Append(g, s) \in cs THEN recordLogs(log, Call(Append(g, s)).n) ELSE log
  IN FoldLeft(Log, nodes, Step(Call(g).step).kids)
Merged(cs) == Cardinality(UNION {{c} \X Call(c).outs : c \in cs})
join(g, cs, log, r) ==
  LET group == [Call(g) EXCEPT !.n = @ + log.n - nodes.n]
      calls == IF r.is = "fatal" THEN Now(g, group) ELSE setOutput(Now(g, group), group.step)
  IN /\ nodes' = log
     /\ go' = [h \in DOMAIN go \ cs |->
                 IF h = g THEN [stack |-> Logged(Front(calls), group.n),
                                ret |-> IF r = Ok THEN None ELSE r]
                 ELSE go[h]]
     /\ Doom(g, Front(Stack(g)), r)
runParallel(g) ==
  /\ In(g, "join") /\ \A c \in Spawned(g, Call(g).step) : In(c, "end")
  /\ LET cs == Children(g, Call(g).step)
         rets == [i \in DOMAIN cs |-> go[cs[i]].ret]
     IN \E log \in {MergeLogs(g, Range(cs))}, r \in {Outcome(g, rets, Truncated(Merged(Range(cs))))} :
          join(g, Range(cs), log, r)
  /\ dead' = dead \ {g}
  /\ UNCHANGED <<def, sem, charged, ctx, status>>

-----------------------------------------------------------------------------
(* The run.                                                                  *)

\* Shutdown, cancel_previous or the disk watchdog cancel the parent; the run has a
\* timeout of its own.
Cancel ==
  /\ ~ctx.parent /\ status = "running"
  /\ ctx' = [run |-> IF ctx.run = "live" THEN "cancelled" ELSE ctx.run, parent |-> TRUE]
  /\ UNCHANGED <<def, go, sem, charged, nodes, dead, status, past>>
Timeout ==
  /\ ctx.run = "live" /\ status = "running" /\ ctx' = [ctx EXCEPT !.run = "timeout"]
  /\ UNCHANGED <<def, go, sem, charged, nodes, dead, status, past>>

Verdict(r) == IF ctx.run = "cancelled" THEN "cancelled"
              ELSE IF r.is = "fatal" THEN "failed"
              ELSE IF r.is = "fin" THEN r.why ELSE "success"
Run ==
  /\ status = "running" /\ In(<<>>, "level") /\ Len(Stack(<<>>)) = 1 /\ Over(<<>>)
  /\ status' = Verdict(Result(<<>>))
  /\ past' = [past EXCEPT !.finish = Result(<<>>) = Fin("failed")]
  /\ UNCHANGED <<def, go, sem, charged, nodes, dead, ctx>>

Init ==
  /\ def \in DOMAIN Definitions
  /\ go = [g \in {<<>>} |-> [stack |-> <<Level(Definitions[def].top, Roots(Definitions[def].top))>>, ret |-> None]]
  /\ sem = {} /\ charged = [k \in Kinds |-> 0] /\ nodes = [n |-> 0, cut |-> FALSE]
  /\ dead = {} /\ ctx = [run |-> "live", parent |-> FALSE] /\ status = "running"
  /\ past = [calls |-> [k \in Kinds |-> 0],
             doomed |-> FALSE, hit |-> FALSE, finish |-> FALSE]

\* A goroutine runs; what the run waits for ends, since a cancelled context ends it.
Goes(g) == execLevel(g) \/ endBranch(g) \/ acquire(g) \/ charge(g) \/ dispatchLeaf(g)
           \/ runLeaf(g) \/ forEachNext(g) \/ runForEach(g) \/ endChild(g) \/ runParallel(g)
Rests == status # "running" /\ UNCHANGED vars
Next == (\E g \in DOMAIN go : Goes(g)) \/ Run \/ Cancel \/ Timeout \/ Rests
Spec == Init /\ [][Next]_vars
Fairness == WF_vars((\E g \in DOMAIN go : Goes(g)) \/ Run)
FairSpec == Spec /\ Fairness
-----------------------------------------------------------------------------
\* Every variable is of its type.
TypeOK ==
  /\ def \in DOMAIN Definitions /\ DOMAIN go \subseteq Seq(Steps) /\ <<>> \in DOMAIN go
  /\ sem \subseteq DOMAIN go /\ dead \subseteq DOMAIN go
  /\ charged \in [Kinds -> Nat] /\ nodes \in [n : Nat, cut : BOOLEAN]
  /\ ctx \in [run : {"live", "timeout", "cancelled"}, parent : BOOLEAN]
  /\ status \in {"running", "success", "skipped", "failed", "cancelled"}

\* Whatever runs in parallel, no more calls are made of a kind than its budget, and no
\* more at a time than the run may make.
BudgetHeld ==
  /\ \A k \in Kinds : Budget[k] = 0 \/ past.calls[k] <= Budget[k]
  /\ Cardinality({g \in DOMAIN go : At(g, "run")}) <= MaxParallelism

\* A run whose step failed, or whose aggregate was cut, with nothing around it to swallow
\* that, or that hit a budget or met a dead context while no group had another failure to
\* report, is not recorded as a success, whatever finished next to it; and only such a run,
\* one that finishes so, or one whose time is up is failed.
StatusIsEarned ==
  /\ past.doomed /\ status # "running" => status \in {"failed", "cancelled"}
  /\ status = "failed" => past.doomed \/ past.finish \/ ctx.run = "timeout"

\* A budget that is hit ends the run, and no continue_on_error swallows that, as
\* engine.go:86-88 and 422-423 say.
AbortsAreNotSwallowed == past.hit /\ status # "running" => status \in {"failed", "cancelled"}

\* Every run ends: no goroutine waits for ever for a place or for a child.
RunEnds == <>(status # "running")
=============================================================================
