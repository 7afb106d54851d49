--------------------------- MODULE StepReferences ---------------------------
(****************************************************************************)
(* What one step of an automation may refer to: the checks before it is     *)
(* enabled (internal/automation/validate.go) and the scopes in which the    *)
(* steps of it run (engine.go, engineutil.go, selector.go).                 *)
(*                                                                          *)
(* A definition is a tree of steps, named by their place in the document.   *)
(* Every reference is checked, and resolved, without regard to the others:  *)
(* a definition here has one of interest, and the others do resolve.        *)
(****************************************************************************)
EXTENDS Integers, Sequences, FiniteSets

CONSTANTS Ids     \* the steps, 1 .. n, in document order

VARIABLES
  def,      \* the definition: types, parents, branches and the reference
  stack,    \* the levels being executed, each with what is to run and its scope
  unread    \* for_each steps that went on without their items, and without output
vars == <<def, stack, unread>>

Top == 0       \* the level of the definition itself
Item == 0      \* the loop variables: item and index
Types == {"leaf", "condition", "for_each", "parallel", "finish"}

Level(d, p) == {i \in Ids : d.up[i] = p}
Siblings(d, i) == Level(d, d.up[i])
IsA(d, i, t) == d.type[i] = t
Branches(d, i) == IF IsA(d, i, "condition") THEN d.to[i] ELSE {}
branchTargets(d, p) == UNION {Branches(d, i) : i \in Level(d, p)}
Roots(d, p) == Level(d, p) \ branchTargets(d, p)
producesOutput(d, i) == d.type[i] \in {"leaf", "for_each", "parallel"}
\* The steps that the branches of step i lead to, at once or in turn.
Reach(d, i) ==
  LET Within[n \in Ids] == LET near == IF n = 1 THEN Branches(d, i) ELSE Within[n - 1]
                           IN  near \cup UNION {Branches(d, j) : j \in near}
  IN  Within[Cardinality(Ids)]

\* Document order: a step stands in the one before it or in one that holds that.
Forests ==
  {up \in [Ids -> {Top} \cup Ids] :
     \A i \in Ids : up[i] < i /\ \A j \in Ids : up[i] < j /\ j < i => up[i] <= up[j]}
\* Only containers have children, and they must have some; a condition leads to siblings.
\* Which of them are its then and which its else makes no difference here.
Typings(up) ==
  {type \in [Ids -> Types] : \A i \in Ids : type[i] \in {"for_each", "parallel"} <=> \E j \in Ids : up[j] = i}
Conditions(type) == {i \in Ids : type[i] = "condition"}
BranchesOf(type, up) ==
  {to \in [Conditions(type) -> SUBSET Ids] :
     \A i \in Conditions(type) : to[i] # {} /\ \A j \in to[i] : up[j] = up[i]}
checkBranchCycles(d) == \A i \in Ids : i \notin Reach(d, i)

\* A target is validated where the first condition that leads to it stands, and
\* what stands before that in a list that runs in order is visible there.
Entry(d, i) ==
  CHOOSE r \in Roots(d, d.up[i]) :
    /\ r = i \/ i \in Reach(d, r)
    /\ \A q \in Roots(d, d.up[i]) : (q = i \/ i \in Reach(d, q)) => r <= q
BrokenBefore(d, i) ==
  IF d.up[i] # Top /\ IsA(d, d.up[i], "parallel") THEN {}
  ELSE {j \in Siblings(d, i) : j < i /\ producesOutput(d, j)}
Before(d, i) ==
  IF d.up[i] # Top /\ IsA(d, d.up[i], "parallel") THEN {}
  ELSE {j \in Roots(d, d.up[i]) : j < i /\ producesOutput(d, j)}
Visible(d) ==
  LET scope[i \in {Top} \cup Ids] ==
        IF i = Top THEN {} ELSE scope[d.up[i]] \cup Before(d, Entry(d, i))
  IN  scope
InLoop(d) ==
  LET in[i \in Ids] == d.up[i] # Top /\ (IsA(d, d.up[i], "for_each") \/ in[d.up[i]]) IN in
checkRef(d) == IF d.root = Item THEN InLoop(d)[d.at] ELSE d.root \in Visible(d)[d.at]
\* The step of interest has the kind that can refer: arguments, a prompt, an input, items.
Structures(type, up) == {d \in [type : {type}, up : {up}, to : BranchesOf(type, up)] : checkBranchCycles(d)}
Definitions(d) ==
  {e \in {[type |-> d.type, up |-> d.up, to |-> d.to, root |-> r, at |-> i] :
            r \in {Item} \cup Ids, i \in {j \in Ids : d.type[j] \in {"leaf", "condition", "for_each"}}} :
     checkRef(e)}
-----------------------------------------------------------------------------
InOrder(S) == CHOOSE q \in [1 .. Cardinality(S) -> S] : \A i, j \in DOMAIN q : i < j => q[i] < q[j]
Frame(p, run, scope, more) == [in |-> p, run |-> run, scope |-> scope, more |-> more]
top == Head(stack)
s == Head(top.run)
Run(t) == stack # <<>> /\ top.run # <<>> /\ IsA(def, s, t)
Resolves == s = def.at => def.root \in top.scope
Went(run, outputs) ==
  stack' = <<[top EXCEPT !.run = run \o Tail(@), !.scope = @ \cup outputs]>> \o Tail(stack)

\* A leaf that fails and goes on has null for an output.
runLeaf == Run("leaf") /\ Resolves /\ Went(<<>>, {s}) /\ UNCHANGED unread
\* A branch runs in the scope of its condition; a predicate that fails may be passed over.
runCondition ==
  /\ Run("condition") /\ Resolves
  /\ \E b \in SUBSET Branches(def, s) : Went(InOrder(b), {})
  /\ UNCHANGED unread
\* Every iteration has a scope of its own, made from that of the loop.
runForEach ==
  /\ Run("for_each")
  /\ \/ /\ Resolves /\ Went(<<>>, {s}) /\ UNCHANGED unread
     \/ /\ Resolves /\ UNCHANGED unread
        /\ stack' = <<Frame(s, InOrder(Roots(def, s)), top.scope \cup {Item}, FALSE)>> \o stack
     \/ Went(<<>>, {}) /\ unread' = unread \cup {s}
\* The children of a group read what was there when it started.
runParallel ==
  /\ Run("parallel") /\ UNCHANGED unread
  /\ LET kids == InOrder(Roots(def, s))
         Child(i) == Frame(s, <<kids[i]>>, top.scope, i < Len(kids))
     IN  stack' = [i \in 1 .. Len(kids) |-> Child(i)] \o stack
finish == Run("finish") /\ stack' = <<>> /\ UNCHANGED unread
\* A level is done: the last one of a container gives it its output.
Rest ==
  /\ stack # <<>> /\ top.run = <<>>
  /\ stack' = IF top.in = Top \/ top.more THEN Tail(stack)
              ELSE <<[stack[2] EXCEPT !.run = Tail(@), !.scope = @ \cup {top.in}]>> \o SubSeq(stack, 3, Len(stack))
  /\ UNCHANGED unread
\* A failure ends the run, or the iteration or the child of a container that goes on.
Fail ==
  /\ stack # <<>> /\ top.run # <<>> /\ def.type[s] \in {"leaf", "condition", "for_each"}
  /\ \/ stack' = <<>>
     \/ \E k \in 1 .. Len(stack) :
          /\ stack[k].in # Top
          /\ stack' = <<[stack[k] EXCEPT !.run = <<>>]>> \o SubSeq(stack, k + 1, Len(stack))
  /\ UNCHANGED unread

Init ==
  /\ \E up \in Forests : \E type \in Typings(up) : \E d \in Structures(type, up) : def \in Definitions(d)
  /\ stack = <<Frame(Top, InOrder(Roots(def, Top)), {}, FALSE)>>
  /\ unread = {}
Next == UNCHANGED def /\ (runLeaf \/ runCondition \/ runForEach \/ runParallel \/ finish \/ Rest \/ Fail)
Spec == Init /\ [][Next]_vars

\* "It must be a prior step in the same or an enclosing scope": when a step of an enabled
\* automation is reached, the step it refers to has an output in its scope, whichever
\* branches were taken, whatever failed and went on, and however loops and groups nest;
\* but for a for_each that went on when its items could not be read.
ReferencesResolve ==
  stack # <<>> /\ top.run # <<>> /\ s = def.at => def.root \in top.scope \cup unread
-----------------------------------------------------------------------------
(* What keeps it so.                                                         *)

\* The steps are numbered as they stand.
Numbered == IsFiniteSet(Ids) /\ Ids = 1 .. Cardinality(Ids)
\* The definition is a tree in document order, of which branches stay in one list.
Tree(d) == /\ d.up \in [Ids -> {Top} \cup Ids]
           /\ \A i \in Ids : d.up[i] < i /\ Branches(d, i) \subseteq Siblings(d, i)
\* It was validated, and stays as it was.
Validated == Tree(def) /\ def.at \in Ids /\ checkRef(def)
\* What is in scope inside step p: all that is visible to it, and the item in a loop.
Looped(p) == p # Top /\ (IsA(def, p, "for_each") \/ InLoop(def)[p])
Covered(F) ==
  /\ F.in # Top => Visible(def)[F.in] \subseteq F.scope \cup unread
  /\ Looped(F.in) => Item \in F.scope
\* What is to run follows from a root of its level, and what stands before that root
\* has an output, is to run before it, or went on without.
Leads(r, i) == r = i \/ i \in Reach(def, r)
Earlier(F, x) == {F.run[y] : y \in 1 .. x - 1}
Ready(F) == \A x \in 1 .. Len(F.run) :
  /\ F.run[x] \in Level(def, F.in)
  /\ \E r \in Roots(def, F.in) :
       Leads(r, F.run[x]) /\ Before(def, r) \subseteq F.scope \cup unread \cup Earlier(F, x)
\* A level below another is inside of the step that runs there.
Nested(k) == stack[k].in # Top =>
  /\ k < Len(stack)
  /\ IF stack[k].more THEN stack[k + 1].in = stack[k].in
     ELSE stack[k + 1].run # <<>> /\ Head(stack[k + 1].run) = stack[k].in
Frames == [in : {Top} \cup Ids, run : Seq(Ids), scope : SUBSET ({Item} \cup Ids), more : BOOLEAN]
Levels == {stack[k] : k \in 1 .. Len(stack)}
IInv ==
  /\ Validated
  /\ stack \in Seq(Frames) /\ unread \subseteq Ids
  /\ \A k \in 1 .. Len(stack) : Nested(k)
  /\ \A F \in Levels : Covered(F) /\ Ready(F)
=============================================================================
