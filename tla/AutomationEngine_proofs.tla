----------------------- MODULE AutomationEngine_proofs -----------------------
(****************************************************************************)
(* Proofs about AutomationEngine, for every definition, budget and          *)
(* parallelism: no run makes more calls than it is allowed, and its status  *)
(* is the one it has earned.                                                *)
(*                                                                          *)
(* The stack of a goroutine mixes records of several shapes, so it is typed *)
(* by what the calls are (Frames), not by a set of them.  Every step but    *)
(* those that start and end a parallel group changes one stack (Moves); the *)
(* failure a goroutine carries is followed from there to the run (Fated).   *)
(****************************************************************************)
EXTENDS AutomationEngine, TLAPS, FiniteSetTheorems, SequenceTheorems, WellFoundedInduction

-----------------------------------------------------------------------------
(* Stacks.                                                                   *)

IsStack(st) == \E S : st \in Seq(S)
Waiting == {"level", "branch", "loop"}
Inner == {"branch", "loop", "join", "leaf"}
Named == {"loop", "join", "leaf"}
IsCall(c) ==
  /\ "f" \in DOMAIN c
  /\ c.f \in Named => "step" \in DOMAIN c /\ c.step \in Steps
  /\ c.f \in {"level", "branch"} =>
       {"steps", "todo"} \subseteq DOMAIN c /\ c.steps \in Seq(Steps) /\ c.todo \subseteq DOMAIN c.steps

\* What can be on a stack: only the innermost call is a leaf or a join or has ended, a
\* level that is not the outermost one is an iteration of the loop below it, the only
\* call that a loop makes, and a leaf runs a step that is one.
Frames(st) ==
  /\ IsStack(st) /\ Len(st) >= 1 /\ st[1].f \in {"level", "end"}
  /\ \A i \in 1 .. Len(st) : IsCall(st[i])
  /\ \A i \in 1 .. Len(st) : i < Len(st) => st[i].f \in Waiting
  /\ \A i \in 1 .. Len(st) : i > 1 => /\ st[i].f # "end"
                                      /\ st[i].f = "level" <=> st[i - 1].f = "loop"
  /\ st[Len(st)].f = "leaf" => Step(st[Len(st)].step).type \in Kinds

\* The same calls of the same steps, with other data.
Same(a, b) ==
  /\ IsStack(b) /\ Len(b) = Len(a)
  /\ \A i \in 1 .. Len(b) : /\ IsCall(b[i]) /\ b[i].f = a[i].f
                            /\ a[i].f \in Named => b[i].step = a[i].step

\* What Append and Front do to any stack.
Adds(st, c, b) == b = Append(st, c)
Drops(st, b) == b = Front(st)
Swaps(st, c, b) == b = Append(Front(st), c)
LEMMA Appended == ASSUME NEW st, IsStack(st), NEW c, NEW b, Adds(st, c, b)
                  PROVE /\ IsStack(b) /\ Len(b) = Len(st) + 1 /\ Len(st) \in Nat
                        /\ \A i \in 1 .. Len(st) : b[i] = st[i]
                        /\ b[Len(st) + 1] = c /\ Last(b) = c
<1>1. PICK S : st \in Seq(S) BY DEF IsStack
<1>2. st \in Seq(S \cup {c}) /\ c \in S \cup {c} BY <1>1
<1>3. Append(st, c) \in Seq(S \cup {c}) BY <1>2
<1>4. /\ Len(Append(st, c)) = Len(st) + 1 /\ Len(st) \in Nat
      /\ \A i \in 1 .. Len(st) : Append(st, c)[i] = st[i]
      /\ Append(st, c)[Len(st) + 1] = c
  BY <1>2, AppendProperties
<1>5. b \in Seq(S \cup {c}) /\ b[Len(st) + 1] = c BY <1>3, <1>4 DEF Adds
<1>6. \A i \in 1 .. Len(st) : b[i] = st[i] BY <1>4 DEF Adds
<1>7. Len(b) = Len(st) + 1 /\ Len(st) \in Nat BY <1>4 DEF Adds
<1>8. Last(b) = c BY <1>5, <1>7 DEF Last
<1> QED BY <1>5, <1>6, <1>7, <1>8 DEF IsStack

LEMMA Fronted == ASSUME NEW st, IsStack(st), Len(st) >= 1, NEW b, Drops(st, b)
                 PROVE /\ IsStack(b) /\ Len(b) = Len(st) - 1
                       /\ \A i \in 1 .. Len(st) - 1 : b[i] = st[i]
                       /\ Last(st) = st[Len(st)] /\ Len(st) \in Nat
<1>1. PICK S : st \in Seq(S) BY DEF IsStack
<1>2. Len(st) \in Nat /\ Len(st) - 1 \in 0 .. Len(st) BY <1>1
<1>3. b = SubSeq(st, 1, Len(st) - 1) BY DEF Drops, Front
<1> DEFINE n == Len(st) - 1
<1>4. n \in Int /\ n >= 0 /\ 1 \in Int BY <1>2
<1>5. \A i \in 1 .. n : st[i] \in S BY <1>1, <1>2
<1> HIDE DEF n
<1>6. /\ SubSeq(st, 1, n) \in Seq(S)
      /\ Len(SubSeq(st, 1, n)) = IF 1 <= n THEN n - 1 + 1 ELSE 0
      /\ \A i \in 1 .. n - 1 + 1 : SubSeq(st, 1, n)[i] = st[1 + i - 1]
  BY <1>4, <1>5, SubSeqProperties
<1>7. b = SubSeq(st, 1, n) BY <1>3 DEF n
<1>8. b \in Seq(S) BY <1>6, <1>7
<1>9. Len(b) = IF 1 <= n THEN n - 1 + 1 ELSE 0 BY <1>6, <1>7
<1>10. \A i \in 1 .. n : b[i] = st[i]
  <2>1. TAKE i \in 1 .. n
  <2>2. i \in 1 .. n - 1 + 1 /\ 1 + i - 1 = i BY <1>4
  <2> QED BY <2>2, <1>6, <1>7
<1>11. Len(b) = n BY <1>4, <1>9
<1> QED BY <1>2, <1>8, <1>10, <1>11 DEF n, IsStack, Last

\* Its innermost call replaced.
LEMMA Exchanged == ASSUME NEW st, IsStack(st), Len(st) >= 1, NEW c, NEW b, Swaps(st, c, b)
                   PROVE /\ IsStack(b) /\ Len(b) = Len(st) /\ Len(st) \in Nat
                         /\ \A i \in 1 .. Len(st) - 1 : b[i] = st[i]
                         /\ b[Len(st)] = c /\ Last(b) = c
<1>1. PICK f : Drops(st, f) /\ Adds(f, c, b) BY DEF Drops, Adds, Swaps
<1>2. /\ IsStack(f) /\ Len(f) = Len(st) - 1 /\ Len(st) \in Nat
      /\ \A i \in 1 .. Len(st) - 1 : f[i] = st[i]
  BY <1>1, Fronted
<1>3. /\ IsStack(b) /\ Len(b) = Len(f) + 1
      /\ \A i \in 1 .. Len(f) : b[i] = f[i]
      /\ b[Len(f) + 1] = c /\ Last(b) = c
  BY <1>1, <1>2, Appended
<1>4. Len(f) + 1 = Len(st) BY <1>2
<1>5. \A i \in 1 .. Len(st) - 1 : b[i] = st[i] BY <1>2, <1>3
<1>6. IsStack(b) /\ Len(b) = Len(st) BY <1>3, <1>4
<1>7. b[Len(st)] = c /\ Last(b) = c BY <1>3, <1>4
<1> QED BY <1>2, <1>5, <1>6, <1>7

LEMMA SameFrames == ASSUME NEW a, NEW b, Frames(a), Same(a, b) PROVE Frames(b)
<1>1. Len(b) = Len(a) /\ Len(b) >= 1 /\ IsStack(b) BY DEF Frames, Same
<1>2. Len(b) \in Nat BY <1>1 DEF IsStack
<1>3. \A i \in 1 .. Len(b) : IsCall(b[i]) /\ b[i].f = a[i].f BY DEF Same
<1>4. b[Len(b)].f = "leaf" => Step(b[Len(b)].step).type \in Kinds
  <2>1. Len(b) \in 1 .. Len(b) BY <1>1, <1>2
  <2>2. SUFFICES ASSUME b[Len(b)].f = "leaf" PROVE Step(b[Len(b)].step).type \in Kinds OBVIOUS
  <2>3. Step(a[Len(b)].step).type \in Kinds BY <1>1, <1>3, <2>1, <2>2 DEF Frames
  <2>4. a[Len(b)].f \in Named BY <1>3, <2>1, <2>2 DEF Named
  <2>5. b[Len(b)].step = a[Len(b)].step BY <2>1, <2>4 DEF Same
  <2> QED BY <2>3, <2>5
<1>5. 1 \in 1 .. Len(b) BY <1>1, <1>2
<1>6. b[1].f \in {"level", "end"} BY <1>3, <1>5 DEF Frames
<1>7. \A i \in 1 .. Len(b) : i < Len(b) => b[i].f \in Waiting BY <1>1, <1>3 DEF Frames
<1>8. ASSUME NEW i \in 1 .. Len(b), i > 1
      PROVE b[i].f # "end" /\ (b[i].f = "level" <=> b[i - 1].f = "loop")
  <2>1. i - 1 \in 1 .. Len(b) BY <1>2, <1>8
  <2>2. a[i].f # "end" /\ (a[i].f = "level" <=> a[i - 1].f = "loop") BY <1>1, <1>8 DEF Frames
  <2> QED BY <2>1, <2>2, <1>3
<1> QED BY <1>1, <1>3, <1>4, <1>6, <1>7, <1>8 DEF Frames

-----------------------------------------------------------------------------
(* What the engine does to a stack.                                          *)

\* A record that is only given another value of a field is a call as before.
Alike(c, d) == IsCall(d) /\ d.f = c.f /\ (c.f \in Named => d.step = c.step)
LEMMA Field == ASSUME NEW c, IsCall(c), NEW v
               PROVE /\ Alike(c, [c EXCEPT !.n = v]) /\ Alike(c, [c EXCEPT !.outs = v])
                     /\ Alike(c, [c EXCEPT !.left = v]) /\ Alike(c, [c EXCEPT !.agg = v])
BY DEF Alike, IsCall
LEMMA Ticked == ASSUME NEW c, IsCall(c), NEW v, c.f \in {"level", "branch"}, v \subseteq c.todo
               PROVE Alike(c, [c EXCEPT !.todo = v])
BY DEF Alike, IsCall

LEMMA LikeIsLike == ASSUME NEW a, NEW b, NEW c, Alike(a, b), Alike(b, c) PROVE Alike(a, c)
BY DEF Alike

\* The innermost call with other data.
LEMMA Replaced == ASSUME NEW st, Frames(st), NEW c, Alike(st[Len(st)], c),
                         NEW b, Swaps(st, c, b)
                  PROVE Frames(b) /\ Same(st, b) /\ Last(b) = c
<1>1. /\ IsStack(st) /\ Len(st) >= 1 /\ \A i \in 1 .. Len(st) : IsCall(st[i]) BY DEF Frames
<1>2. /\ IsStack(b) /\ Len(b) = Len(st) /\ \A i \in 1 .. Len(st) - 1 : b[i] = st[i]
      /\ b[Len(st)] = c /\ Last(b) = c /\ Len(st) \in Nat
  BY <1>1, Exchanged
<1>3. ASSUME NEW i \in 1 .. Len(b)
      PROVE IsCall(b[i]) /\ b[i].f = st[i].f /\ (st[i].f \in Named => b[i].step = st[i].step)
  <2>1. CASE i = Len(st) BY <2>1, <1>2 DEF Alike
  <2>2. CASE i # Len(st)
    <3>1. i \in 1 .. Len(st) - 1 /\ i \in 1 .. Len(st) BY <2>2, <1>2
    <3> QED BY <3>1, <1>1, <1>2
  <2> QED BY <2>1, <2>2
<1>4. Same(st, b) BY <1>2, <1>3 DEF Same
<1> QED BY <1>2, <1>4, SameFrames

\* A leaf goes on to its next point.
LEMMA LeafOn == ASSUME NEW st, Frames(st), Last(st).f = "leaf", NEW at,
                       NEW b, Swaps(st, Leaf(Last(st).step, at), b)
                PROVE Frames(b) /\ Last(b) = Leaf(Last(st).step, at)
<1>1. Last(st) = st[Len(st)] BY DEF Last
<1>2. IsCall(st[Len(st)])
  <2>1. Len(st) \in 1 .. Len(st) BY DEF Frames, IsStack
  <2> QED BY <2>1 DEF Frames
<1>3. Last(st).step \in Steps BY <1>1, <1>2 DEF IsCall, Named
<1>4. Alike(st[Len(st)], Leaf(Last(st).step, at)) BY <1>1, <1>3 DEF Alike, Leaf, IsCall, Named
<1> QED BY <1>4, Replaced

\* A call on top of one that waits for it.
Stands(st, c) ==
  /\ IsCall(c) /\ c.f \in Inner \cup {"level"} /\ st[Len(st)].f \in Waiting
  /\ c.f = "level" <=> st[Len(st)].f = "loop"
  /\ c.f = "leaf" => Step(c.step).type \in Kinds
LEMMA Pushed == ASSUME NEW st, Frames(st), NEW c, Stands(st, c), NEW b, Adds(st, c, b)
                PROVE Frames(b) /\ Last(b) = c
<1>1. /\ IsStack(st) /\ Len(st) >= 1 /\ \A i \in 1 .. Len(st) : IsCall(st[i])
      /\ st[1].f \in {"level", "end"}
  BY DEF Frames
<1>2. /\ IsStack(b) /\ Len(b) = Len(st) + 1 /\ \A i \in 1 .. Len(st) : b[i] = st[i]
      /\ b[Len(st) + 1] = c /\ Last(b) = c /\ Len(st) \in Nat
  BY <1>1, Appended
<1>3. b[1] = st[1] /\ Len(b) >= 1 BY <1>1, <1>2
<1>4. ASSUME NEW i \in 1 .. Len(b)
      PROVE /\ IsCall(b[i]) /\ (i < Len(b) => b[i].f \in Waiting)
            /\ i > 1 => b[i].f # "end" /\ (b[i].f = "level" <=> b[i - 1].f = "loop")
  <2>1. CASE i = Len(st) + 1
    <3>1. b[i] = c /\ b[i - 1] = st[Len(st)] BY <2>1, <1>1, <1>2
    <3> QED BY <2>1, <3>1, <1>2 DEF Stands, Inner
  <2>2. CASE i # Len(st) + 1
    <3>1. i \in 1 .. Len(st) /\ b[i] = st[i] BY <2>2, <1>2
    <3>2. i < Len(b) => b[i].f \in Waiting
      <4>1. CASE i = Len(st) BY <4>1, <3>1 DEF Stands
      <4>2. CASE i # Len(st) BY <4>2, <3>1, <1>2 DEF Frames
      <4> QED BY <4>1, <4>2
    <3>3. i > 1 => b[i].f # "end" /\ (b[i].f = "level" <=> b[i - 1].f = "loop")
      <4>1. SUFFICES ASSUME i > 1 PROVE b[i].f # "end" /\ (b[i].f = "level" <=> b[i - 1].f = "loop")
        OBVIOUS
      <4>2. i - 1 \in 1 .. Len(st) BY <4>1, <3>1, <1>2
      <4>3. b[i - 1] = st[i - 1] BY <4>2, <1>2
      <4> QED BY <4>1, <4>3, <3>1 DEF Frames
    <3> QED BY <3>1, <3>2, <3>3, <1>1
  <2> QED BY <2>1, <2>2
<1>5. b[Len(b)].f = "leaf" => Step(b[Len(b)].step).type \in Kinds BY <1>2 DEF Stands
<1>6. Frames(b) BY <1>1, <1>2, <1>3, <1>4, <1>5 DEF Frames
<1> QED BY <1>2, <1>6

\* A call that some other waits for ends.
LEMMA Popped == ASSUME NEW st, Frames(st), Len(st) >= 2, NEW b, Drops(st, b)
                PROVE /\ Frames(b) /\ Last(b) = b[Len(b)] /\ b[Len(b)] = st[Len(st) - 1]
                      /\ st[Len(st) - 1].f \in Waiting /\ Len(b) = Len(st) - 1
<1>1. /\ IsStack(st) /\ Len(st) >= 1 /\ \A i \in 1 .. Len(st) : IsCall(st[i])
      /\ st[1].f \in {"level", "end"}
  BY DEF Frames
<1>2. /\ IsStack(b) /\ Len(b) = Len(st) - 1 /\ Len(st) \in Nat
      /\ \A i \in 1 .. Len(st) - 1 : b[i] = st[i]
  BY <1>1, Fronted
<1>3. Len(b) >= 1 /\ b[1] = st[1] /\ b[Len(b)] = st[Len(st) - 1] /\ Len(b) \in 1 .. Len(st)
      /\ Len(b) < Len(st)
  BY <1>2
<1>4. ASSUME NEW i \in 1 .. Len(b)
      PROVE /\ IsCall(b[i]) /\ b[i].f \in Waiting
            /\ i > 1 => b[i].f # "end" /\ (b[i].f = "level" <=> b[i - 1].f = "loop")
  <2>1. i \in 1 .. Len(st) /\ i < Len(st) /\ b[i] = st[i] BY <1>2
  <2>2. i > 1 => b[i].f # "end" /\ (b[i].f = "level" <=> b[i - 1].f = "loop")
    <3>1. SUFFICES ASSUME i > 1 PROVE b[i].f # "end" /\ (b[i].f = "level" <=> b[i - 1].f = "loop")
      OBVIOUS
    <3>2. i - 1 \in 1 .. Len(st) - 1 BY <3>1, <2>1, <1>2
    <3>3. b[i - 1] = st[i - 1] BY <3>2, <1>2
    <3> QED BY <3>1, <3>3, <2>1 DEF Frames
  <2>3. b[i].f \in Waiting BY <2>1 DEF Frames
  <2> QED BY <2>1, <2>2, <2>3, <1>1
<1>5. b[Len(b)].f \in Waiting /\ b[Len(b)].f # "leaf"
  <2>1. Len(b) \in 1 .. Len(b) BY <1>2, <1>3
  <2> QED BY <2>1, <1>4 DEF Waiting
<1>6. Frames(b) BY <1>1, <1>2, <1>3, <1>4, <1>5 DEF Frames
<1>7. Last(b) = b[Len(b)] BY DEF Last
<1> QED BY <1>2, <1>3, <1>5, <1>6, <1>7

\* An output is stored in a scope of the stack.
LEMMA OutputSame == ASSUME NEW st, Frames(st), NEW s
                    PROVE Same(st, setOutput(st, s)) /\ Frames(setOutput(st, s))
<1>1. PICK S : st \in Seq(S) BY DEF Frames, IsStack
<1> DEFINE i == ScopeOf(st)
           e == [st[i] EXCEPT !.outs = @ \cup {s}]
           b == [st EXCEPT ![i] = e]
<1>2. setOutput(st, s) = b BY DEF setOutput
<1>3. Len(st) \in Nat /\ DOMAIN st = 1 .. Len(st) BY <1>1
<1>4. b \in Seq(S \cup {e}) /\ Len(b) = Len(st)
  <2> HIDE DEF e, i
  <2>1. st \in Seq(S \cup {e}) /\ e \in S \cup {e} BY <1>1
  <2>2. CASE i \in 1 .. Len(st) BY <2>1, <2>2, ExceptSeq
  <2>3. CASE i \notin 1 .. Len(st)
    <3>1. b = st BY <2>3, <1>1, <1>3
    <3> QED BY <2>1, <3>1
  <2> QED BY <2>2, <2>3
<1>5. ASSUME NEW j \in 1 .. Len(b) PROVE Alike(st[j], b[j])
  <2>1. j \in 1 .. Len(st) /\ IsCall(st[j]) BY <1>4 DEF Frames
  <2>2. CASE j = i
    <3> DEFINE v == st[j].outs \cup {s}
    <3>1. b[j] = e /\ e = [st[j] EXCEPT !.outs = v] BY <2>1, <2>2, <1>3
    <3> HIDE DEF e, b, v
    <3>2. Alike(st[j], [st[j] EXCEPT !.outs = v]) BY <2>1, Field
    <3> QED BY <3>1, <3>2
  <2>3. CASE j # i
    <3>1. b[j] = st[j] BY <2>1, <2>3, <1>3
    <3> QED BY <3>1, <2>1 DEF Alike
  <2> QED BY <2>2, <2>3
<1>6. IsStack(b) BY <1>4 DEF IsStack
<1>7. Same(st, b) BY <1>4, <1>5, <1>6 DEF Same, Alike
<1> QED BY <1>2, <1>7, SameFrames

-----------------------------------------------------------------------------
(* Names of goroutines.                                                      *)

Names == Seq(Steps)

LEMMA Parent == ASSUME NEW c \in Names, c # <<>>
                PROVE /\ Front(c) \in Names /\ Front(c) \in Groups(c) /\ Last(c) \in Steps
                      /\ Len(c) \in Nat \ {0} /\ Front(c) = SubSeq(c, 1, Len(c) - 1)
<1>1. Len(c) \in Nat \ {0} /\ \A i \in 1 .. Len(c) : c[i] \in Steps BY DEF Names
<1>2. Front(c) = SubSeq(c, 1, Len(c) - 1) BY DEF Front
<1>3. Len(c) - 1 \in 0 .. Len(c) - 1 BY <1>1
<1>4. Front(c) \in Groups(c) BY <1>2, <1>3 DEF Groups
<1>5. SubSeq(c, 1, Len(c) - 1) \in Seq(Steps) BY <1>1, SubSeqProperties
<1>6. Last(c) \in Steps BY <1>1 DEF Last
<1> QED BY <1>1, <1>2, <1>4, <1>5, <1>6 DEF Names

LEMMA GroupIsName == ASSUME NEW c \in Names, NEW h \in Groups(c)
                     PROVE h \in Names /\ Len(h) < Len(c) /\ h = SubSeq(c, 1, Len(h)) /\ Len(h) \in Nat
<1>1. Len(c) \in Nat /\ \A i \in 1 .. Len(c) : c[i] \in Steps BY DEF Names
<1>2. PICK n \in 0 .. Len(c) - 1 : h = SubSeq(c, 1, n) BY DEF Groups
<1>3. /\ SubSeq(c, 1, n) \in Seq(Steps)
      /\ Len(SubSeq(c, 1, n)) = IF 1 <= n THEN n - 1 + 1 ELSE 0
  BY <1>1, SubSeqProperties
<1>4. Len(h) = n BY <1>2, <1>3
<1> QED BY <1>1, <1>2, <1>3, <1>4 DEF Names

LEMMA NoSelf == ASSUME NEW g \in Names PROVE g \notin Groups(g)
<1>1. Len(g) \in Nat BY DEF Names
<1> QED BY <1>1, GroupIsName

LEMMA NoGroups == Groups(<<>>) = {} /\ <<>> \in Names
BY DEF Groups, Names

\* A child of g is in g and in what g is in.
LEMMA Child == ASSUME NEW g \in Names, NEW s \in Steps, NEW c, Adds(g, s, c)
               PROVE /\ c \in Names /\ c # <<>> /\ c # g /\ Front(c) = g /\ Last(c) = s
                     /\ Groups(c) = Groups(g) \cup {g}
<1>1. Len(g) \in Nat /\ \A i \in 1 .. Len(g) : g[i] \in Steps BY DEF Names
<1>2. /\ Append(g, s) \in Seq(Steps) /\ Len(Append(g, s)) = Len(g) + 1
      /\ \A i \in 1 .. Len(g) : Append(g, s)[i] = g[i]
      /\ Append(g, s)[Len(g) + 1] = s
  BY AppendProperties DEF Names
<1>3. c \in Seq(Steps) /\ Len(c) = Len(g) + 1 /\ c[Len(g) + 1] = s
  BY <1>2 DEF Adds
<1>4. \A i \in 1 .. Len(g) : c[i] = g[i] BY <1>2 DEF Adds
<1>5. ASSUME NEW n \in 0 .. Len(g) PROVE SubSeq(c, 1, n) = SubSeq(g, 1, n)
  <2>1. \A i \in 1 .. n : c[i] \in Steps /\ g[i] \in Steps /\ c[i] = g[i] BY <1>1, <1>4
  <2> DEFINE a == SubSeq(c, 1, n)
             b == SubSeq(g, 1, n)
  <2>2. /\ a \in Seq(Steps) /\ Len(a) = IF 1 <= n THEN n - 1 + 1 ELSE 0
        /\ \A i \in 1 .. n - 1 + 1 : a[i] = c[1 + i - 1]
    BY <2>1, SubSeqProperties
  <2>3. /\ b \in Seq(Steps) /\ Len(b) = IF 1 <= n THEN n - 1 + 1 ELSE 0
        /\ \A i \in 1 .. n - 1 + 1 : b[i] = g[1 + i - 1]
    BY <2>1, SubSeqProperties
  <2> HIDE DEF a, b
  <2>4. Len(a) = Len(b) /\ Len(a) = n BY <2>2, <2>3
  <2>5. \A i \in 1 .. Len(a) : a[i] = b[i]
    <3>1. TAKE i \in 1 .. Len(a)
    <3>2. i \in 1 .. n - 1 + 1 /\ 1 + i - 1 = i /\ i \in 1 .. n BY <2>4
    <3>3. a[i] = c[i] BY <3>2, <2>2
    <3>4. b[i] = g[i] BY <3>2, <2>3
    <3> QED BY <3>2, <3>3, <3>4, <2>1
  <2>6. a = b BY <2>2, <2>3, <2>4, <2>5, SeqEqual
  <2> QED BY <2>6 DEF a, b
<1>6. SubSeq(g, 1, Len(g)) = g
  <2>1. /\ SubSeq(g, 1, Len(g)) \in Seq(Steps)
        /\ Len(SubSeq(g, 1, Len(g))) = IF 1 <= Len(g) THEN Len(g) - 1 + 1 ELSE 0
        /\ \A i \in 1 .. Len(g) - 1 + 1 : SubSeq(g, 1, Len(g))[i] = g[1 + i - 1]
    BY <1>1, SubSeqProperties
  <2> DEFINE a == SubSeq(g, 1, Len(g))
  <2>2. Len(a) = Len(g) /\ a \in Seq(Steps) BY <2>1, <1>1
  <2>3. \A i \in 1 .. Len(a) : a[i] = g[i]
    <3>1. TAKE i \in 1 .. Len(a)
    <3>2. i \in 1 .. Len(g) - 1 + 1 /\ 1 + i - 1 = i BY <2>2, <1>1
    <3> QED BY <3>2, <2>1
  <2> HIDE DEF a
  <2>4. a = g BY <2>2, <2>3, SeqEqual DEF Names
  <2> QED BY <2>4 DEF a
<1>7. Front(c) = SubSeq(c, 1, Len(g)) BY <1>1, <1>3 DEF Front
<1>8. Front(c) = g BY <1>1, <1>5, <1>6, <1>7
<1>9. Last(c) = s BY <1>3 DEF Last
<1>10. c # <<>> /\ c # g BY <1>1, <1>3
<1>11. Groups(c) = {SubSeq(c, 1, i) : i \in 0 .. Len(g)} BY <1>1, <1>3 DEF Groups
<1>12. Groups(c) = {SubSeq(g, 1, i) : i \in 0 .. Len(g)} BY <1>11, <1>5
<1>13. 0 .. Len(g) = (0 .. Len(g) - 1) \cup {Len(g)} BY <1>1
<1>14. Groups(c) = Groups(g) \cup {g}
  <2>1. {SubSeq(g, 1, i) : i \in 0 .. Len(g)}
        = {SubSeq(g, 1, i) : i \in 0 .. Len(g) - 1} \cup {SubSeq(g, 1, Len(g))}
    BY <1>13
  <2> QED BY <2>1, <1>6, <1>12 DEF Groups
<1> QED BY <1>3, <1>8, <1>9, <1>10, <1>14 DEF Names

\* What is in g is a child of g, or in one.
LEMMA Between == ASSUME NEW c \in Names, NEW g \in Groups(c), Front(c) # g
                 PROVE \E p \in Groups(c) : p # <<>> /\ Front(p) = g
<1>1. Len(c) \in Nat /\ \A i \in 1 .. Len(c) : c[i] \in Steps BY DEF Names
<1>2. g \in Names /\ Len(g) < Len(c) /\ g = SubSeq(c, 1, Len(g)) /\ Len(g) \in Nat BY GroupIsName
<1> DEFINE n == Len(g)
<1>3. c # <<>> BY <1>1, <1>2
<1>4. Front(c) = SubSeq(c, 1, Len(c) - 1) BY <1>3, Parent
<1>5. n # Len(c) - 1 BY <1>2, <1>4
<1>6. n + 1 \in 0 .. Len(c) - 1 BY <1>1, <1>2, <1>5
<1> DEFINE p == SubSeq(c, 1, n + 1)
<1>7. p \in Groups(c) BY <1>6 DEF Groups
<1>8. p \in Names BY <1>7, GroupIsName
<1>9. /\ Len(p) = IF 1 <= n + 1 THEN n + 1 - 1 + 1 ELSE 0
      /\ \A i \in 1 .. n + 1 - 1 + 1 : p[i] = c[1 + i - 1]
  BY <1>1, <1>6, SubSeqProperties
<1>10. Len(p) = n + 1 BY <1>9, <1>2
<1>11. \A i \in 1 .. n : p[i] = c[i]
  <2>1. TAKE i \in 1 .. n
  <2>2. i \in 1 .. n + 1 - 1 + 1 /\ 1 + i - 1 = i BY <1>2
  <2> QED BY <2>2, <1>9
<1> HIDE DEF p
<1>12. p # <<>> BY <1>10, <1>2
<1>13. Front(p) = SubSeq(p, 1, n) BY <1>10, <1>2 DEF Front
<1> DEFINE a == SubSeq(p, 1, n)
           b == SubSeq(c, 1, n)
<1>14. \A i \in 1 .. n : p[i] \in Steps /\ c[i] \in Steps BY <1>1, <1>2, <1>11
<1>15. /\ a \in Seq(Steps) /\ Len(a) = IF 1 <= n THEN n - 1 + 1 ELSE 0
       /\ \A i \in 1 .. n - 1 + 1 : a[i] = p[1 + i - 1]
  BY <1>2, <1>14, SubSeqProperties
<1>16. /\ b \in Seq(Steps) /\ Len(b) = IF 1 <= n THEN n - 1 + 1 ELSE 0
       /\ \A i \in 1 .. n - 1 + 1 : b[i] = c[1 + i - 1]
  BY <1>2, <1>14, SubSeqProperties
<1> HIDE DEF a, b
<1>17. Len(a) = Len(b) /\ Len(a) = n BY <1>2, <1>15, <1>16
<1>18. \A i \in 1 .. Len(a) : a[i] = b[i]
  <2>1. TAKE i \in 1 .. Len(a)
  <2>2. i \in 1 .. n - 1 + 1 /\ 1 + i - 1 = i /\ i \in 1 .. n BY <1>17, <1>2
  <2>3. a[i] = p[i] BY <2>2, <1>15
  <2>4. b[i] = c[i] BY <2>2, <1>16
  <2> QED BY <2>2, <2>3, <2>4, <1>11
<1>19. a = b BY <1>15, <1>16, <1>17, <1>18, SeqEqual
<1>20. Front(p) = g BY <1>2, <1>13, <1>19 DEF a, b
<1> QED BY <1>7, <1>12, <1>20

-----------------------------------------------------------------------------
(* What holds in every reachable state.                                      *)

Whys == {"success", "skipped", "failed"}
Errors == {"step", "cut", "budget", "cancel"}
Rets == {None, Ok} \cup {Fin(why) : why \in Whys} \cup {Fatal(why) : why \in Errors}
Typed ==
  /\ def \in DOMAIN Definitions /\ charged \in [Kinds -> Nat]
  /\ ctx \in [run : {"live", "timeout", "cancelled"}, parent : BOOLEAN]
  /\ status \in {"running", "success", "skipped", "failed", "cancelled"}
  /\ past \in [calls : [Kinds -> Nat], doomed : BOOLEAN, hit : BOOLEAN, finish : BOOLEAN]

\* Stacks are well formed, and only what runs steps ends with a result.
Shaped(st, r) == Frames(st) /\ r \in Rets /\ (r # None => Last(st).f \in {"level", "branch", "end"})
Shape == \A g \in DOMAIN go : Shaped(Stack(g), go[g].ret)

\* A goroutine is a child of one that waits for it, and what that is in waits as well.
Tree ==
  /\ <<>> \in DOMAIN go /\ DOMAIN go \subseteq Names
  /\ \A c \in DOMAIN go : /\ \A h \in Groups(c) : In(h, "join")
                          /\ c # <<>> => c \in Spawned(Front(c), Call(Front(c)).step)

\* Who reports a cancellation has been cancelled.
Cancelled == \A g \in DOMAIN go : go[g].ret = Fatal("cancel") => Done(g)

\* A run that must fail is cancelled, or some goroutine carries a failure that nothing
\* around it swallows; and what the run itself carries so has been counted.
Carries(g) == Dooms(g, Stack(g), go[g].ret)
Doomed == past.doomed /\ status = "running" =>
            ctx.run = "cancelled" \/ \E g \in DOMAIN go : Carries(g)
Blamed == Carries(<<>>) => past.doomed \/ ctx.run # "live"

\* Once its status is recorded nothing of the run is left to go on.
Stopped == status # "running" => In(<<>>, "level") /\ Len(Stack(<<>>)) = 1 /\ Over(<<>>)

\* A leaf past acquire has a place, and what is charged covers the calls that have been
\* made and those that are about to be made.
Placed ==
  /\ \A g \in DOMAIN go : Call(g).f = "leaf" /\ Call(g).at # "acquire" => g \in sem
  /\ IsFiniteSet(sem) /\ Cardinality(sem) <= MaxParallelism
Resolving(k) == {g \in DOMAIN go : At(g, "resolve") /\ Kind(g) = k}
Accounts == \A k \in Kinds : /\ Budget[k] = 0 \/ charged[k] <= Budget[k]
                             /\ past.calls[k] + Cardinality(Resolving(k)) <= charged[k]

-----------------------------------------------------------------------------
(* Whom a failure dooms.                                                     *)

Soft(c) == c.f \in {"loop", "join"} /\ Step(c.step).cont
Lenience(calls) == \E i \in 1 .. Len(calls) : Soft(calls[i])
GroupsWait(g) == \A h \in Groups(g) : IsStack(Stack(h))

LEMMA SwallowedIs == ASSUME NEW g, NEW calls, IsStack(calls), GroupsWait(g)
                     PROVE Swallowed(g, calls)
                           <=> Lenience(calls) \/ \E h \in Groups(g) : Lenience(Stack(h))
<1>1. \A s : IsStack(s) => \A c : c \in ToSet(s) <=> \E i \in 1 .. Len(s) : c = s[i]
  BY DEF IsStack, ToSet
<1>2. \A s : IsStack(s) => ((\E c \in ToSet(s) : Soft(c)) <=> \E i \in 1 .. Len(s) : Soft(s[i]))
  BY <1>1
<1>3. Swallowed(g, calls) <=> \E c \in Around(g, calls) : Soft(c) BY DEF Swallowed, Soft
<1>4. \A s : Lenience(s) <=> \E i \in 1 .. Len(s) : Soft(s[i]) BY DEF Lenience
<1>5. Swallowed(g, calls) <=> \/ \E c \in ToSet(calls) : Soft(c)
                             \/ \E h \in Groups(g) : \E c \in ToSet(Stack(h)) : Soft(c)
  BY <1>3 DEF Around
<1> QED BY <1>2, <1>4, <1>5 DEF GroupsWait

\* Who has fewer loops and groups around it is doomed at least as much.
LEMMA DoomsMore == ASSUME NEW g, NEW a, NEW b, NEW r, IsStack(a), IsStack(b), GroupsWait(g),
                          Lenience(b) => Lenience(a), Dooms(g, a, r)
                   PROVE Dooms(g, b, r)
<1>1. Swallowed(g, b) => Swallowed(g, a) BY SwallowedIs
<1> QED BY <1>1 DEF Dooms

LEMMA SameLenience == ASSUME NEW a, NEW b, Same(a, b) PROVE Lenience(a) <=> Lenience(b)
BY DEF Same, Lenience, Soft, Named
LEMMA SameTwice == ASSUME NEW a, NEW b, NEW c, Same(a, b), Same(b, c) PROVE Same(a, c)
BY DEF Same
LEMMA SameSelf == ASSUME NEW a, Frames(a) PROVE Same(a, a)
BY DEF Same, Frames
LEMMA TopLenience == ASSUME NEW a, IsStack(a), Len(a) >= 1, NEW b, Drops(a, b)
                     PROVE Lenience(a) <=> Lenience(b) \/ Soft(Last(a))
<1>1. Len(b) = Len(a) - 1 /\ Len(a) \in Nat /\ Last(a) = a[Len(a)] BY Fronted
<1>2. \A i \in 1 .. Len(a) - 1 : b[i] = a[i] BY Fronted
<1>3. \A i \in 1 .. Len(b) : i \in 1 .. Len(a) /\ b[i] = a[i] BY <1>1, <1>2
<1>4. Len(a) \in 1 .. Len(a) BY <1>1
<1>5. Lenience(b) => Lenience(a) BY <1>3 DEF Lenience
<1>6. Soft(Last(a)) => Lenience(a) BY <1>1, <1>4 DEF Lenience
<1>7. ASSUME Lenience(a), ~Soft(Last(a)) PROVE Lenience(b)
  <2>1. PICK i \in 1 .. Len(a) : Soft(a[i]) BY <1>7 DEF Lenience
  <2>2. i # Len(a) BY <1>1, <1>7, <2>1
  <2>3. i \in 1 .. Len(b) BY <1>1, <2>2
  <2> QED BY <1>3, <2>1, <2>3 DEF Lenience
<1> QED BY <1>5, <1>6, <1>7

LEMMA FrontsAlike == ASSUME NEW a, IsStack(a), Len(a) >= 1, NEW c, NEW b, Swaps(a, c, b),
                            NEW x, Drops(a, x), NEW y, Drops(b, y)
                     PROVE IsStack(x) /\ IsStack(y) /\ (Lenience(x) <=> Lenience(y))
<1>1. IsStack(b) /\ Len(b) = Len(a) /\ Len(a) \in Nat /\ \A i \in 1 .. Len(a) - 1 : b[i] = a[i]
  BY Exchanged
<1>2. Len(b) >= 1 BY <1>1
<1>3. IsStack(x) /\ Len(x) = Len(a) - 1 /\ \A i \in 1 .. Len(a) - 1 : x[i] = a[i] BY Fronted
<1>4. IsStack(y) /\ Len(y) = Len(b) - 1 /\ \A i \in 1 .. Len(b) - 1 : y[i] = b[i] BY <1>1, <1>2, Fronted
<1>5. Len(x) = Len(y) /\ \A i \in 1 .. Len(x) : x[i] = y[i] BY <1>1, <1>3, <1>4
<1> QED BY <1>3, <1>4, <1>5 DEF Lenience

\* The engine takes for an abort what dooms a run in spite of a continue_on_error.
LEMMA AbortsAre == ASSUME NEW r PROVE isAbort(r) <=> r \in Aborts
BY DEF isAbort, isCanceled, Aborts

\* Only a fatal error dooms.
LEMMA HarmlessNone == ASSUME NEW g, NEW calls PROVE ~Dooms(g, calls, None) /\ ~Dooms(g, calls, Ok)
BY DEF Dooms, None, Ok

-----------------------------------------------------------------------------
(* A step that changes the stack of one goroutine, before and after which    *)
(* it does not wait for children.                                            *)

Moves(g, st, r) ==
  /\ g \in DOMAIN go /\ go' = [go EXCEPT ![g] = [stack |-> st, ret |-> r]]
  /\ Call(g).f # "join" /\ Last(st).f # "join" /\ Shaped(st, r)
  /\ r = Fatal("cancel") => Done(g)

\* What it carries then is what it carried or what is counted now.
Fated(g, st, r) ==
  /\ Carries(g) => Dooms(g, st, r)
  /\ past.doomed => past'.doomed
  /\ past'.doomed => past.doomed \/ Dooms(g, st, r)
  /\ g = <<>> /\ Dooms(g, st, r) => past'.doomed \/ Carries(g)

LEMMA Waits == ASSUME Shape, Tree, NEW g \in DOMAIN go
               PROVE /\ GroupsWait(g) /\ IsStack(Stack(g)) /\ Len(Stack(g)) >= 1
                     /\ Frames(Stack(g)) /\ Call(g) = Stack(g)[Len(Stack(g))] /\ IsCall(Call(g))
                     /\ g \in Names /\ go[g].ret \in Rets /\ Len(Stack(g)) \in Nat
<1>1. \A h \in DOMAIN go : Frames(Stack(h)) /\ IsStack(Stack(h)) BY DEF Shape, Shaped, Frames
<1>2. \A h \in Groups(g) : h \in DOMAIN go BY DEF Tree, In
<1>3. GroupsWait(g) BY <1>1, <1>2 DEF GroupsWait
<1>4. Len(Stack(g)) >= 1 /\ Len(Stack(g)) \in Nat BY <1>1 DEF Frames, IsStack
<1>5. Call(g) = Stack(g)[Len(Stack(g))] BY DEF Call, Last
<1>6. IsCall(Call(g)) BY <1>1, <1>4, <1>5 DEF Frames
<1> QED BY <1>1, <1>3, <1>4, <1>5, <1>6 DEF Tree, Shape, Shaped

LEMMA Others == ASSUME Tree, NEW g, NEW st, NEW r, Moves(g, st, r), UNCHANGED def
                PROVE /\ DOMAIN go' = DOMAIN go /\ go'[g] = [stack |-> st, ret |-> r]
                      /\ \A h \in DOMAIN go : h # g => go'[h] = go[h]
                      /\ \A c \in DOMAIN go : g \notin Groups(c)
                      /\ \A c \in DOMAIN go : \A h \in Groups(c) : go'[h] = go[h] /\ h \in DOMAIN go
<1>1. \A c \in DOMAIN go : \A h \in Groups(c) : h # g /\ h \in DOMAIN go BY DEF Tree, In, Moves
<1> QED BY <1>1 DEF Moves

\* What a goroutine carries depends on its own stack and on those of the groups around it.
LEMMA FateAfter == ASSUME UNCHANGED <<def, ctx>>, NEW c, \A h \in Groups(c) : go'[h].stack = go[h].stack
                   PROVE Carries(c)' <=> Dooms(c, go'[c].stack, go'[c].ret)
<1>2. UNION {ToSet(go'[h].stack) : h \in Groups(c)} = UNION {ToSet(go[h].stack) : h \in Groups(c)}
  OBVIOUS
<1>3. \A s : Step(s)' = Step(s) BY DEF Step
<1>4. Swallowed(c, Stack(c))' <=> Swallowed(c, go'[c].stack)
  <2> DEFINE Weak(x) == x.f \in {"loop", "join"} /\ Step(x.step).cont
  <2>1. Swallowed(c, Stack(c))'
        <=> \E x \in ToSet(go'[c].stack) \cup UNION {ToSet(go'[h].stack) : h \in Groups(c)} : Weak(x)
    BY <1>3 DEF Swallowed, Around, Stack
  <2>2. Swallowed(c, go'[c].stack)
        <=> \E x \in ToSet(go'[c].stack) \cup UNION {ToSet(go[h].stack) : h \in Groups(c)} : Weak(x)
    BY DEF Swallowed, Around, Stack
  <2> HIDE DEF Weak
  <2> QED BY <2>1, <2>2, <1>2
<1> QED BY <1>4 DEF Carries, Dooms, isCanceled, isAbort, Stack

\* What the others carry does not change.
LEMMA SameFate == ASSUME Shape, Tree, NEW g, NEW st, NEW r, Moves(g, st, r), UNCHANGED <<def, ctx>>,
                         NEW c \in DOMAIN go
                  PROVE IF c = g THEN Carries(c)' <=> Dooms(g, st, r) ELSE Carries(c)' <=> Carries(c)
<1>1. \A h \in Groups(c) : go'[h].stack = go[h].stack BY Others
<1>5. Carries(c)' <=> Dooms(c, go'[c].stack, go'[c].ret) BY <1>1, FateAfter
<1>6. CASE c = g
  <2>0. go'[g] = [stack |-> st, ret |-> r] BY Others
  <2>1. go'[c].stack = st /\ go'[c].ret = r BY <1>6, <2>0
  <2> QED BY <1>5, <1>6, <2>1
<1>7. CASE c # g
  <2>1. go'[c] = go[c] BY <1>7, Others
  <2> QED BY <1>5, <1>7, <2>1 DEF Carries, Stack
<1> QED BY <1>6, <1>7

\* The children of a group are those of the definition.
LEMMA SameChildren == ASSUME UNCHANGED def
                      PROVE \A h, x : Spawned(h, x)' = Spawned(h, x)
<1>1. \A s : Step(s)' = Step(s) BY DEF Step
<1>2. ASSUME NEW x PROVE Targets(x)' = Targets(x)
  <2>1. {s \in ToSet(x) : Step(s).type = "condition"}' = {s \in ToSet(x) : Step(s).type = "condition"}
    BY <1>1
  <2> QED BY <1>1, <2>1 DEF Targets
<1>3. ASSUME NEW x PROVE Roots(x)' = Roots(x) BY <1>2 DEF Roots
<1>4. ASSUME NEW h, NEW x PROVE Spawned(h, x)' = Spawned(h, x)
  <2>1. Step(x).kids' = Step(x).kids BY <1>1
  <2>2. Roots(Step(x).kids)' = Roots(Step(x).kids)
    BY <1>1, <2>1, <1>3
  <2>3. Children(h, x)' = Children(h, x) BY <2>1, <2>2 DEF Children
  <2> QED BY <2>3 DEF Spawned
<1> QED BY <1>4

LEMMA MovesKeep ==
  ASSUME Shape, Tree, Cancelled, Doomed, Blamed, NEW g, NEW st, NEW r, Moves(g, st, r), Fated(g, st, r),
         past.doomed \in BOOLEAN, dead \subseteq dead', UNCHANGED <<def, ctx, status>>
  PROVE  Shape' /\ Tree' /\ Cancelled' /\ Doomed' /\ Blamed'
<1>1. /\ DOMAIN go' = DOMAIN go /\ go'[g] = [stack |-> st, ret |-> r]
      /\ \A h \in DOMAIN go : h # g => go'[h] = go[h]
      /\ \A c \in DOMAIN go : g \notin Groups(c)
      /\ \A c \in DOMAIN go : \A h \in Groups(c) : go'[h] = go[h] /\ h \in DOMAIN go
  BY Others
<1>2. \A s : Step(s)' = Step(s) BY DEF Step
<1>3. Shape'
  <2>1. SUFFICES ASSUME NEW c \in DOMAIN go PROVE Shaped(Stack(c), go[c].ret)'
    BY <1>1 DEF Shape
  <2>2. Shaped(go'[c].stack, go'[c].ret)
    <3>1. CASE c = g BY <3>1, <1>1 DEF Moves
    <3>2. CASE c # g BY <3>2, <1>1 DEF Shape, Stack
    <3> QED BY <3>1, <3>2
  <2> QED BY <2>2, <1>2 DEF Shaped, Frames, Stack
<1>4. Tree'
  <2>1. ASSUME NEW c \in DOMAIN go, NEW h \in Groups(c) PROVE In(h, "join")'
    <3>1. In(h, "join") /\ go'[h] = go[h] /\ h \in DOMAIN go BY <1>1 DEF Tree
    <3> QED BY <1>1, <3>1 DEF In, Call, Stack
  <2>2. ASSUME NEW c \in DOMAIN go, c # <<>> PROVE (c \in Spawned(Front(c), Call(Front(c)).step))'
    <3>1. Front(c) \in Groups(c) BY <2>2, Parent DEF Tree
    <3>2. Call(Front(c))' = Call(Front(c)) BY <1>1, <3>1 DEF Call, Stack
    <3>3. \A x : Spawned(Front(c), x)' = Spawned(Front(c), x) BY SameChildren
    <3>4. c \in Spawned(Front(c), Call(Front(c)).step) BY <2>2 DEF Tree
    <3> QED BY <3>2, <3>3, <3>4
  <2> QED BY <1>1, <2>1, <2>2 DEF Tree
<1>5. Cancelled'
  <2>1. \A c \in DOMAIN go : Done(c) => Done(c)' BY DEF Done
  <2>2. g \in DOMAIN go /\ (r = Fatal("cancel") => Done(g)) BY DEF Moves
  <2> QED BY <1>1, <2>1, <2>2 DEF Cancelled, Fatal
<1>6. Doomed'
  <2>1. SUFFICES ASSUME past'.doomed, status = "running", ctx.run # "cancelled"
                 PROVE \E c \in DOMAIN go : Carries(c)'
    BY <1>1 DEF Doomed
  <2>2. CASE Dooms(g, st, r) BY <2>2, SameFate DEF Moves
  <2>3. CASE ~Dooms(g, st, r)
    <3>1. past.doomed BY <2>1, <2>3 DEF Fated
    <3>2. PICK c \in DOMAIN go : Carries(c) BY <2>1, <3>1 DEF Doomed
    <3>3. c # g BY <2>3, <3>2 DEF Fated
    <3> QED BY <3>2, <3>3, SameFate
  <2> QED BY <2>2, <2>3
<1>7. Blamed'
  <2>1. <<>> \in DOMAIN go BY DEF Tree
  <2>2. past.doomed => past'.doomed BY DEF Fated
  <2>3. CASE g = <<>>
    <3>1. Carries(<<>>)' <=> Dooms(g, st, r) BY <2>1, <2>3, SameFate
    <3> QED BY <2>2, <2>3, <3>1 DEF Fated, Blamed
  <2>4. CASE g # <<>>
    <3>1. Carries(<<>>)' <=> Carries(<<>>) BY <2>1, <2>4, SameFate
    <3> QED BY <2>2, <3>1 DEF Blamed
  <2> QED BY <2>3, <2>4
<1> QED BY <1>3, <1>4, <1>5, <1>6, <1>7

-----------------------------------------------------------------------------
(* The steps of one goroutine.                                               *)

Kept(x) == IF x = Ok THEN None ELSE x
Logs(st, n, b) == b = Logged(st, n)

LEMMA SameLast == ASSUME NEW a, Frames(a), NEW b, Same(a, b)
                  PROVE Last(b).f = Last(a).f /\ Len(b) = Len(a)
<1>1. Len(b) = Len(a) /\ Len(b) >= 1 /\ Len(b) \in Nat BY DEF Frames, Same, IsStack
<1>2. Len(b) \in 1 .. Len(b) BY <1>1
<1> QED BY <1>1, <1>2 DEF Same, Last

LEMMA LoggedSame == ASSUME NEW st, Frames(st), NEW n, NEW b, Logs(st, n, b)
                    PROVE Frames(b) /\ Same(st, b)
<1> DEFINE v == Last(st).n + n
           c == [Last(st) EXCEPT !.n = v]
<1>1. Swaps(st, c, b) BY DEF Logs, Logged, Swaps
<1>2. Last(st) = st[Len(st)] BY DEF Last
<1>3. IsCall(st[Len(st)])
  <2>1. Len(st) \in 1 .. Len(st) BY DEF Frames, IsStack
  <2> QED BY <2>1 DEF Frames
<1>4. Alike(st[Len(st)], c)
  <2> HIDE DEF v
  <2> QED BY <1>2, <1>3, Field
<1> HIDE DEF c
<1> QED BY <1>1, <1>4, Replaced

\* The next step is taken from the innermost level or branch.
LEMMA RestSame == ASSUME Shape, Tree, NEW g \in DOMAIN go, InSteps(g)
                  PROVE Frames(Rest(g)) /\ Same(Stack(g), Rest(g))
<1>1. /\ Frames(Stack(g)) /\ Call(g) = Stack(g)[Len(Stack(g))] /\ IsCall(Call(g)) BY Waits
<1> DEFINE v == Call(g).todo \ {Min(Call(g).todo)}
           c == [Call(g) EXCEPT !.todo = v]
           b == Rest(g)
<1>2. Swaps(Stack(g), c, b) BY DEF Rest, Now, Swaps
<1>3. Alike(Call(g), c)
  <2>1. v \subseteq Call(g).todo OBVIOUS
  <2>2. Call(g).f \in {"level", "branch"} BY DEF InSteps, In
  <2> HIDE DEF v
  <2> QED BY <1>1, <2>1, <2>2, Ticked
<1> HIDE DEF c, b
<1>4. Frames(b) /\ Same(Stack(g), b) BY <1>1, <1>2, <1>3, Replaced
<1> QED BY <1>4 DEF b

\* A result is counted where it arises.
LEMMA FateOf == ASSUME Typed, NEW g \in DOMAIN go, go[g].ret = None, NEW a, NEW st, NEW x, IsStack(a), IsStack(st),
                       GroupsWait(g), Lenience(a) <=> Lenience(st), Doom(g, a, x)
                PROVE Fated(g, st, Kept(x)) /\ past'.calls = past.calls
<1>1. Dooms(g, a, x) <=> Dooms(g, st, x) BY DoomsMore
<1>2. ~Carries(g) BY HarmlessNone DEF Carries
<1>3. /\ past'.doomed = (past.doomed \/ Dooms(g, a, x)) /\ past'.calls = past.calls
      /\ past.doomed \in BOOLEAN /\ Dooms(g, a, x) \in BOOLEAN
  BY DEF Doom, Typed, Dooms
<1>4. Dooms(g, st, Kept(x)) <=> Dooms(g, st, x) BY HarmlessNone DEF Kept
<1> QED BY <1>1, <1>2, <1>3, <1>4 DEF Fated
LEMMA NoFate == ASSUME NEW g, go[g].ret = None, NEW st, past'.doomed = past.doomed
                PROVE Fated(g, st, None)
BY HarmlessNone DEF Fated, Carries

\* What does not make g a leaf with a place.
Calm(g) == \E st, x : Moves(g, st, x) /\ Fated(g, st, x) /\ (Last(st).f = "leaf" => Last(st).at = "acquire")
Onward(g, at) == \E st : Moves(g, st, None) /\ Fated(g, st, None) /\ Last(st) = Leaf(Call(g).step, at)

LEMMA Gives == ASSUME Typed, Shape, Tree, NEW g \in DOMAIN go, InSteps(g), go[g].ret = None,
                      NEW x \in Rets, NEW n, Give(g, x, n), x = Fatal("cancel") => Done(g)
               PROVE Calm(g) /\ past'.calls = past.calls
<1>1. /\ GroupsWait(g) /\ IsStack(Stack(g)) /\ Frames(Stack(g)) /\ Call(g) = Last(Stack(g))
  BY Waits DEF Call
<1> DEFINE a == Rest(g)
           st == Logged(Rest(g), n)
<1>2. Frames(a) /\ Same(Stack(g), a) BY RestSame
<1>3. Logs(a, n, st) BY DEF Logs
<1>4. go' = [go EXCEPT ![g] = [stack |-> st, ret |-> Kept(x)]] /\ Doom(g, Stack(g), x)
  BY DEF Give, Put, Kept
<1> HIDE DEF a, st
<1>5. Frames(st) /\ Same(Stack(g), st) BY <1>2, <1>3, LoggedSame, SameTwice
<1>6. Last(st).f \in {"level", "branch"} /\ Call(g).f \in {"level", "branch"}
  BY <1>1, <1>5, SameLast DEF InSteps, In
<1>7. Fated(g, st, Kept(x)) /\ past'.calls = past.calls
  <2>1. Lenience(Stack(g)) <=> Lenience(st) BY <1>5, SameLenience
  <2>2. IsStack(st) BY <1>5 DEF Frames
  <2> QED BY <1>1, <1>4, <2>1, <2>2, FateOf
<1>8. Shaped(st, Kept(x))
  <2>1. Kept(x) \in Rets BY DEF Kept, Rets
  <2> QED BY <1>5, <1>6, <2>1 DEF Shaped
<1>9. Kept(x) = Fatal("cancel") => Done(g) BY DEF Kept, Fatal, None
<1>10. Moves(g, st, Kept(x)) BY <1>4, <1>6, <1>8, <1>9 DEF Moves
<1> QED BY <1>6, <1>7, <1>10 DEF Calm

LEMMA Enters == ASSUME Shape, Tree, NEW g \in DOMAIN go, InSteps(g), go[g].ret = None,
                       NEW c, Enter(g, c), Stands(Stack(g), c), c.f # "join",
                       c.f = "leaf" => c.at = "acquire"
                PROVE Calm(g) /\ past'.calls = past.calls
<1>1. Frames(Stack(g)) /\ Call(g) = Last(Stack(g)) BY Waits DEF Call
<1> DEFINE a == Rest(g)
           st == Append(Rest(g), c)
<1>2. Frames(a) /\ Same(Stack(g), a) BY RestSame
<1>3. Adds(a, c, st) BY DEF Adds
<1>4. go' = [go EXCEPT ![g] = [stack |-> st, ret |-> None]] /\ past' = past BY DEF Enter, Put
<1> HIDE DEF a, st
<1>5. Last(a).f = Last(Stack(g)).f BY <1>1, <1>2, SameLast
<1>6. Stands(a, c) BY <1>5 DEF Stands, Last
<1>7. Frames(st) /\ Last(st) = c BY <1>2, <1>3, <1>6, Pushed
<1>8. Shaped(st, None) BY <1>7 DEF Shaped, Rets
<1>9. Call(g).f # "join" BY DEF InSteps, In
<1>10. None # Fatal("cancel") BY DEF None, Fatal
<1>11. Moves(g, st, None) BY <1>4, <1>7, <1>8, <1>9, <1>10 DEF Moves
<1>12. Fated(g, st, None) BY <1>4, NoFate
<1> QED BY <1>4, <1>7, <1>11, <1>12 DEF Calm

\* A call ends, and its caller is a level or a branch.
Outer(calls, st) ==
  /\ Frames(st) /\ Last(st).f \in {"level", "branch"}
  /\ IsStack(Front(calls)) /\ Len(calls) >= 2
  /\ Lenience(st) <=> Lenience(Front(calls))
  /\ Lenience(Front(calls)) => Lenience(calls)
Pops(g, calls, x, st) ==
  go' = [go EXCEPT ![g] = [stack |-> st, ret |-> Kept(x)]] /\ Outer(calls, st)
LEMMA OuterIs == ASSUME NEW calls, Frames(calls), Last(calls).f \in Inner, NEW n
                 PROVE Outer(calls, Logged(Front(calls), n))
<1>1. Len(calls) >= 1 /\ Len(calls) \in Nat /\ IsStack(calls) BY DEF Frames, IsStack
<1>2. Last(calls) = calls[Len(calls)] BY DEF Last
<1>3. Len(calls) # 1 BY <1>2 DEF Frames, Inner
<1>4. Len(calls) >= 2
  <2> DEFINE m == Len(calls)
  <2>1. m \in Nat /\ m >= 1 /\ m # 1 BY <1>1, <1>3
  <2> HIDE DEF m
  <2>2. m >= 2 BY <2>1
  <2> QED BY <2>2 DEF m
<1> DEFINE b == Front(calls)
           st == Logged(b, n)
<1>5. Drops(calls, b) BY DEF Drops
<1>6. Logs(b, n, st) BY DEF Logs
<1> HIDE DEF b, st
<1>8. /\ Frames(b) /\ Last(b) = b[Len(b)] /\ b[Len(b)] = calls[Len(calls) - 1]
      /\ calls[Len(calls) - 1].f \in Waiting
  BY <1>4, <1>5, Popped
<1>9. Frames(st) /\ Same(b, st) BY <1>6, <1>8, LoggedSame
<1>10. Len(calls) \in 1 .. Len(calls) /\ Len(calls) > 1 BY <1>1, <1>4
<1>11. calls[Len(calls) - 1].f # "loop" BY <1>2, <1>10 DEF Frames, Inner
<1>12. Last(st).f \in {"level", "branch"} BY <1>8, <1>9, <1>11, SameLast DEF Waiting
<1>13. Lenience(st) <=> Lenience(b) BY <1>9, SameLenience
<1>14. Lenience(b) => Lenience(calls) BY <1>1, <1>5, TopLenience
<1>15. IsStack(b) BY <1>8 DEF Frames
<1>16. Outer(calls, st) BY <1>4, <1>9, <1>12, <1>13, <1>14, <1>15 DEF b, Outer
<1> QED BY <1>16 DEF st, b
LEMMA Returned == ASSUME NEW calls, Frames(calls), Last(calls).f \in Inner, NEW g, NEW x, Return(g, calls, x)
                  PROVE \E st : Pops(g, calls, x, st)
<1> DEFINE st == Logged(Front(calls), Last(calls).n)
<1>1. go' = [go EXCEPT ![g] = [stack |-> st, ret |-> Kept(x)]] BY DEF Return, Put, Kept
<1>2. Outer(calls, st) BY OuterIs
<1> HIDE DEF st
<1> QED BY <1>1, <1>2 DEF Pops

\* It ends with an error of its own, or without one.
LEMMA Raises == ASSUME Typed, Shape, Tree, NEW g \in DOMAIN go, Call(g).f \in {"leaf", "loop"},
                       NEW calls, Same(Stack(g), calls), NEW x \in Rets, Raise(g, calls, x),
                       x = Fatal("cancel") => Done(g)
                PROVE Calm(g) /\ past'.calls = past.calls
<1>1. /\ GroupsWait(g) /\ Frames(Stack(g)) /\ Call(g) = Last(Stack(g)) BY Waits DEF Call
<1>2. go[g].ret = None BY DEF Shape, Shaped, Call
<1>3. Frames(calls) /\ Last(calls).f \in Inner BY <1>1, SameFrames, SameLast DEF Inner
<1>0. PICK st : Pops(g, calls, x, st) BY <1>3, Returned DEF Raise
<1>4. /\ go' = [go EXCEPT ![g] = [stack |-> st, ret |-> Kept(x)]]
      /\ Frames(st) /\ Last(st).f \in {"level", "branch"} /\ IsStack(Front(calls))
      /\ Lenience(Front(calls)) <=> Lenience(st)
  BY <1>0 DEF Pops, Outer
<1>5. IsStack(st) /\ Doom(g, Front(calls), x) BY <1>4 DEF Frames, Raise
<1>6. Fated(g, st, Kept(x)) /\ past'.calls = past.calls BY <1>1, <1>2, <1>4, <1>5, FateOf
<1>7. Kept(x) \in Rets BY DEF Kept, Rets
<1>8. Moves(g, st, Kept(x)) BY <1>4, <1>7 DEF Moves, Shaped, Kept, Fatal, None
<1> QED BY <1>4, <1>6, <1>8 DEF Calm

Harmless(x) == x \in {None, Ok} \cup {Fin(why) : why \in Whys}
LEMMA HarmlessIs == ASSUME NEW x, Harmless(x)
                    PROVE /\ x \in Rets /\ Kept(x) \in Rets /\ Kept(x) # Fatal("cancel")
                          /\ \A g, calls : ~Dooms(g, calls, x) /\ ~Dooms(g, calls, Kept(x))
BY DEF Harmless, Rets, Kept, Fatal, Fin, None, Ok, Dooms
LEMMA Returns == ASSUME Shape, Tree, NEW g \in DOMAIN go, Harmless(go[g].ret), Call(g).f # "join",
                        NEW calls, Frames(calls), Last(calls).f \in Inner, NEW x, Harmless(x),
                        Return(g, calls, x), past'.doomed = past.doomed
                 PROVE Calm(g)
<1>0. PICK st : Pops(g, calls, x, st) BY Returned
<1>1. /\ go' = [go EXCEPT ![g] = [stack |-> st, ret |-> Kept(x)]]
      /\ Frames(st) /\ Last(st).f \in {"level", "branch"}
  BY <1>0 DEF Pops, Outer
<1>2. Fated(g, st, Kept(x)) BY HarmlessIs DEF Fated, Carries
<1>3. Moves(g, st, Kept(x)) BY <1>1, HarmlessIs DEF Moves, Shaped
<1> QED BY <1>1, <1>2, <1>3 DEF Calm

\* A leaf.
LEMMA Answers == ASSUME Typed, Shape, Tree, NEW g \in DOMAIN go, In(g, "leaf"), NEW x \in Rets \ {Fatal("cancel")},
                        NEW out \in BOOLEAN, Answer(g, x, out)
                 PROVE Calm(g) /\ past'.calls = past.calls /\ sem' = sem \ {g}
<1>1. Frames(Stack(g)) /\ Call(g).f = "leaf" BY Waits DEF In
<1>2. sem' = sem \ {g} BY DEF Answer, release
<1>3. Same(Stack(g), Stack(g)) BY <1>1, SameSelf
<1>4. CASE Done(g)
  <2>1. Raise(g, Stack(g), Fatal("cancel")) BY <1>4 DEF Answer
  <2>2. Fatal("cancel") \in Rets BY DEF Rets, Errors
  <2> QED BY <1>1, <1>2, <1>3, <1>4, <2>1, <2>2, Raises
<1>5. CASE ~Done(g) /\ out
  <2> DEFINE b == setOutput(Stack(g), Call(g).step)
  <2>1. Raise(g, b, x) BY <1>5 DEF Answer
  <2>2. Same(Stack(g), b) BY <1>1, OutputSame
  <2> HIDE DEF b
  <2>3. Calm(g) /\ past'.calls = past.calls BY <1>1, <2>1, <2>2, Raises
  <2> QED BY <1>2, <2>3
<1>6. CASE ~Done(g) /\ ~out
  <2>1. Raise(g, Stack(g), x) BY <1>6 DEF Answer
  <2> QED BY <1>1, <1>2, <1>3, <2>1, Raises
<1> QED BY <1>4, <1>5, <1>6

LEMMA LeafGoes == ASSUME Shape, Tree, NEW g \in DOMAIN go, In(g, "leaf"), NEW at,
                         Goto(g, Leaf(Call(g).step, at)), past'.doomed = past.doomed
                  PROVE Onward(g, at)
<1>1. Frames(Stack(g)) /\ Call(g).f = "leaf" /\ Call(g) = Last(Stack(g)) BY Waits DEF In, Call
<1>2. go[g].ret = None BY <1>1 DEF Shape, Shaped
<1> DEFINE st == Append(Front(Stack(g)), Leaf(Call(g).step, at))
<1>3. Swaps(Stack(g), Leaf(Last(Stack(g)).step, at), st) BY <1>1 DEF Swaps
<1>4. go' = [go EXCEPT ![g] = [stack |-> st, ret |-> None]] BY DEF Goto, Put, Now
<1> HIDE DEF st
<1>5. Frames(st) /\ Last(st) = Leaf(Call(g).step, at) BY <1>1, <1>3, LeafOn
<1>6. Last(st).f # "join" BY <1>5 DEF Leaf
<1>7. None # Fatal("cancel") BY DEF None, Fatal
<1>8. Moves(g, st, None) BY <1>1, <1>4, <1>5, <1>6, <1>7 DEF Moves, Shaped, Rets
<1>9. Fated(g, st, None) BY <1>2, NoFate
<1> QED BY <1>5, <1>8, <1>9 DEF Onward

-----------------------------------------------------------------------------
(* Definitions, and the first of a set of places.                            *)

LEMMA LeastIn == ASSUME NEW T, T \subseteq Nat, T # {}
                 PROVE Min(T) \in T
<1>1. PICK i \in T : \A j \in T : ~(<<j, i>> \in OpToRel(<, Nat)) BY NatLessThanWellFounded, WFMin
<1>2. \A j \in T : i <= j
  <2>1. TAKE j \in T
  <2>2. ~(j < i) BY <1>1 DEF OpToRel
  <2> QED BY <2>2
<1>3. \E x \in T : \A y \in T : x =< y BY <1>2
<1> QED BY <1>3 DEF Min

LEMMA StepIs == ASSUME Typed, NEW s \in Steps
                PROVE /\ Step(s) \in StepType /\ Step(s).type \in Kinds \cup {"condition", "for_each", "parallel", "finish"}
                      /\ Step(s).kids \in Seq(Steps) /\ Step(s).then \in Seq(Steps)
                      /\ Step(s).else \in Seq(Steps) /\ Step(s).cont \in BOOLEAN
<1>1. Definitions[def] \in Range(Definitions) BY DEF Typed, Range
<1>2. Definitions[def].step \in [Steps -> StepType] BY <1>1, EngineAssumption
<1>3. Step(s) \in StepType BY <1>2 DEF Step
<1> QED BY <1>3 DEF StepType

LEMMA RootsIn == ASSUME NEW level \in Seq(Steps)
                 PROVE /\ Roots(level) \subseteq DOMAIN level /\ DOMAIN level \subseteq Nat
                       /\ \A i \in DOMAIN level : level[i] \in Steps
                       /\ IsCall(Level(level, Roots(level))) /\ \A chain : IsCall(Branch(level, chain))
BY DEF Roots, IsCall, Level, Branch, Named

LEMMA NextStep == ASSUME Shape, Tree, NEW g \in DOMAIN go, InSteps(g), Call(g).todo # {}
                  PROVE Call(g).steps[Min(Call(g).todo)] \in Steps
<1>1. IsCall(Call(g)) /\ Call(g).f \in {"level", "branch"} BY Waits DEF InSteps, In
<1>2. Call(g).steps \in Seq(Steps) /\ Call(g).todo \subseteq DOMAIN Call(g).steps BY <1>1 DEF IsCall
<1>3. Call(g).todo \subseteq Nat BY <1>2
<1>4. Min(Call(g).todo) \in DOMAIN Call(g).steps BY <1>2, <1>3, LeastIn
<1> QED BY <1>2, <1>4

-----------------------------------------------------------------------------
(* The actions of one goroutine that are no leaf's.                          *)

LEMMA StepCalm ==
  ASSUME Typed, Shape, Tree, NEW g \in DOMAIN go, InSteps(g), go[g].ret = None,
         NEW s \in Steps, runStep(g, s, Step(s)), ~spawn(g, s)
  PROVE  Calm(g) /\ past'.calls = past.calls
<1>1. /\ Frames(Stack(g)) /\ Call(g) = Stack(g)[Len(Stack(g))] /\ Call(g).f \in {"level", "branch"}
  BY Waits DEF InSteps, In
<1>2. /\ Step(s).then \in Seq(Steps) /\ Step(s).else \in Seq(Steps) /\ Step(s).cont \in BOOLEAN
  BY StepIs
<1>3. /\ Lenient(Step(s)) \in Rets \ {Fatal("cancel")} /\ Fatal("step") \in Rets
      /\ Fatal("step") # Fatal("cancel") /\ Fatal("cancel") \in Rets
      /\ \A why \in Whys : Fin(why) \in Rets /\ Fin(why) # Fatal("cancel")
  BY DEF Lenient, Rets, Errors, Fatal, Fin, Ok, None
<1>4. \A c : IsCall(c) /\ c.f \in {"branch", "loop"} => Stands(Stack(g), c)
  BY <1>1 DEF Stands, Inner, Waiting
<1>5. CASE Done(g) /\ Give(g, Fatal("cancel"), 0) BY <1>3, <1>5, Gives
<1>6. CASE \E why \in {"success", "skipped", "failed"} : Give(g, Fin(why), 1)
  <2>1. PICK why \in Whys : Give(g, Fin(why), 1) BY <1>6 DEF Whys
  <2> QED BY <1>3, <2>1, Gives
<1>7. CASE runCondition(g, s, Step(s))
  <2>1. CASE Give(g, Fatal("step"), 1) BY <1>3, <2>1, Gives
  <2>2. CASE Give(g, Lenient(Step(s)), 1) BY <1>3, <2>2, Gives
  <2>3. CASE \E branch \in {Step(s).then, Step(s).else} : Enter(g, Branch(branch, Chain(g) \cup {s}))
    <3>1. PICK branch \in Seq(Steps) : Enter(g, Branch(branch, Chain(g) \cup {s})) BY <1>2, <2>3
    <3> DEFINE c == Branch(branch, Chain(g) \cup {s})
    <3>2. IsCall(c) BY RootsIn
    <3>3. c.f = "branch" BY DEF Branch
    <3> HIDE DEF c
    <3>4. Stands(Stack(g), c) /\ c.f # "join" /\ c.f # "leaf" BY <3>2, <3>3, <1>4
    <3>5. Enter(g, c) BY <3>1 DEF c
    <3> QED BY <3>4, <3>5, Enters
  <2> QED BY <1>7, <2>1, <2>2, <2>3 DEF runCondition
<1>8. CASE resolveItems(g, s, Step(s))
  <2>1. CASE Give(g, Lenient(Step(s)), 1) BY <1>3, <2>1, Gives
  <2>2. CASE \E items \in 0 .. MaxItems : Enter(g, Loop(s, items))
    <3>1. PICK items \in 0 .. MaxItems : Enter(g, Loop(s, items)) BY <2>2
    <3> DEFINE c == Loop(s, items)
    <3>2. IsCall(c) /\ c.f = "loop" BY DEF IsCall, Loop, Named
    <3> HIDE DEF c
    <3>3. Stands(Stack(g), c) /\ c.f # "join" /\ c.f # "leaf" BY <3>2, <1>4
    <3>4. Enter(g, c) BY <3>1 DEF c
    <3> QED BY <3>3, <3>4, Enters
  <2> QED BY <1>8, <2>1, <2>2 DEF resolveItems
<1>9. CASE Step(s).type \in Kinds /\ Enter(g, Leaf(s, "acquire"))
  <2> DEFINE c == Leaf(s, "acquire")
  <2>1. IsCall(c) /\ c.f = "leaf" /\ c.step = s /\ c.at = "acquire" BY DEF IsCall, Leaf, Named
  <2>2. Enter(g, c) BY <1>9
  <2> HIDE DEF c
  <2>3. Stands(Stack(g), c) BY <1>1, <1>9, <2>1 DEF Stands, Inner, Waiting
  <2> QED BY <2>1, <2>2, <2>3, Enters
<1> QED BY <1>5, <1>6, <1>7, <1>8, <1>9 DEF runStep

LEMMA LoopCalm == ASSUME Typed, Shape, Tree, NEW g \in DOMAIN go, forEachNext(g)
                  PROVE Calm(g) /\ past'.calls = past.calls
<1>1. /\ Frames(Stack(g)) /\ Call(g) = Last(Stack(g)) /\ Call(g).f = "loop" /\ IsCall(Call(g))
      /\ Call(g) = Stack(g)[Len(Stack(g))]
  BY Waits DEF forEachNext, In, Call
<1>2. go[g].ret = None BY <1>1 DEF Shape, Shaped
<1>3. CASE Aggregate(g, Stack(g), Ok) /\ UNCHANGED past
  <2> DEFINE b == setOutput(Stack(g), Last(Stack(g)).step)
  <2>1. Return(g, b, Ok) BY <1>3 DEF Aggregate
  <2>2. Same(Stack(g), b) /\ Frames(b) BY <1>1, OutputSame
  <2> HIDE DEF b
  <2>3. Last(b).f \in Inner BY <1>1, <2>2, SameLast DEF Inner
  <2>4. Harmless(Ok) /\ Harmless(go[g].ret) BY <1>2 DEF Harmless
  <2> QED BY <1>1, <1>3, <2>1, <2>2, <2>3, <2>4, Returns
<1>4. CASE Done(g) /\ Raise(g, Stack(g), Fatal("cancel"))
  <2>1. Fatal("cancel") \in Rets BY DEF Rets, Errors
  <2>2. Same(Stack(g), Stack(g)) BY <1>1, SameSelf
  <2> QED BY <1>1, <1>4, <2>1, <2>2, Raises
<1>5. CASE /\ LET kids == Step(Call(g).step).kids IN
                Put(g, Append(Now(g, [Call(g) EXCEPT !.left = @ - 1]), Level(kids, Roots(kids))), None)
           /\ UNCHANGED past
  <2> DEFINE kids == Step(Call(g).step).kids
             v == Call(g).left - 1
             loop == [Call(g) EXCEPT !.left = v]
             a == Append(Front(Stack(g)), loop)
             c == Level(kids, Roots(kids))
             st == Append(a, c)
  <2>1. go' = [go EXCEPT ![g] = [stack |-> st, ret |-> None]] BY <1>5 DEF Put, Now
  <2>2. Swaps(Stack(g), loop, a) /\ Adds(a, c, st) BY DEF Swaps, Adds
  <2>3. Call(g).step \in Steps BY <1>1 DEF IsCall, Named
  <2>4. IsCall(c) /\ c.f = "level"
    <3>1. kids \in Seq(Steps) BY <2>3, StepIs
    <3> QED BY <3>1, RootsIn DEF Level
  <2> HIDE DEF c, v
  <2>5. Alike(Call(g), loop) BY <1>1, Field
  <2> HIDE DEF loop, a, st
  <2>6. Frames(a) /\ Same(Stack(g), a) BY <1>1, <2>2, <2>5, Replaced
  <2>7. Last(a).f = "loop" BY <1>1, <2>6, SameLast
  <2>8. Stands(a, c) BY <2>4, <2>7 DEF Stands, Waiting, Last
  <2>9. Frames(st) /\ Last(st) = c BY <2>2, <2>6, <2>8, Pushed
  <2>10. None # Fatal("cancel") BY DEF None, Fatal
  <2>11. Moves(g, st, None) BY <1>1, <2>1, <2>4, <2>9, <2>10 DEF Moves, Shaped, Rets
  <2>12. Fated(g, st, None) BY <1>2, <1>5, NoFate
  <2> QED BY <1>5, <2>4, <2>9, <2>11, <2>12 DEF Calm
<1> QED BY <1>3, <1>4, <1>5 DEF forEachNext

\* A branch hands on what it has ended with.
LEMMA BranchCalm == ASSUME Typed, Shape, Tree, NEW g \in DOMAIN go, Cancelled, endBranch(g)
                    PROVE Calm(g) /\ past'.calls = past.calls
<1> DEFINE a == Stack(g)
           x == Result(g)
<1>1. /\ GroupsWait(g) /\ IsStack(a) /\ Frames(a) /\ Last(a).f = "branch" /\ Call(g) = Last(a)
      /\ go[g].ret \in Rets /\ Len(a) >= 1 /\ Len(a) \in Nat
  BY Waits DEF endBranch, In, Call
<1>2. Return(g, a, x) /\ past' = past BY DEF endBranch
<1>3. x \in Rets /\ (x = Fatal("cancel") => Done(g)) /\ (Carries(g) <=> Dooms(g, a, x))
  BY <1>1, HarmlessNone DEF Result, Rets, Cancelled, Carries, Fatal, Ok
<1> HIDE DEF a, x
<1>4. PICK st : Pops(g, a, x, st) BY <1>1, <1>2, Returned DEF Inner
<1>5. /\ go' = [go EXCEPT ![g] = [stack |-> st, ret |-> Kept(x)]] /\ IsStack(Front(a))
      /\ Frames(st) /\ IsStack(st) /\ Last(st).f \in {"level", "branch"}
      /\ Lenience(Front(a)) <=> Lenience(st)
  BY <1>4 DEF Pops, Outer, Frames
<1>6. Lenience(a) <=> Lenience(st)
  <2>1. Drops(a, Front(a)) BY DEF Drops
  <2>2. ~Soft(Last(a)) BY <1>1 DEF Soft
  <2> QED BY <1>1, <1>5, <2>1, <2>2, TopLenience
<1>7. Dooms(g, a, x) <=> Dooms(g, st, x) BY <1>1, <1>5, <1>6, DoomsMore
<1>8. Dooms(g, st, Kept(x)) <=> Dooms(g, st, x) BY HarmlessNone DEF Kept
<1>9. Fated(g, st, Kept(x)) BY <1>2, <1>3, <1>7, <1>8 DEF Fated
<1>10. Kept(x) \in Rets /\ (Kept(x) = Fatal("cancel") => x = Fatal("cancel")) BY <1>3 DEF Kept, Rets, Fatal, None
<1>11. Moves(g, st, Kept(x)) BY <1>1, <1>3, <1>5, <1>10 DEF Moves, Shaped
<1> QED BY <1>2, <1>5, <1>9, <1>11 DEF Calm

\* A child keeps its result for the group.
LEMMA ChildCalm == ASSUME Typed, Shape, Tree, NEW c \in DOMAIN go, Cancelled, endChild(c)
                   PROVE Calm(c) /\ past'.calls = past.calls
<1> DEFINE a == Stack(c)
           x == Result(c)
           e == Ended(Call(c))
           st == <<e>>
<1>1. /\ GroupsWait(c) /\ IsStack(a) /\ Last(a).f = "level" /\ Call(c) = Last(a) /\ Len(a) = 1
      /\ go[c].ret \in Rets /\ c # <<>>
  BY Waits DEF endChild, In, Call
<1>2. go' = [go EXCEPT ![c] = [stack |-> st, ret |-> x]] /\ past' = past BY DEF endChild, Put
<1>3. x \in Rets /\ (x = Fatal("cancel") => Done(c)) /\ (Carries(c) <=> Dooms(c, a, x))
  BY <1>1, HarmlessNone DEF Result, Rets, Cancelled, Carries, Fatal, Ok
<1>4. IsCall(e) /\ e.f = "end" BY DEF Ended, IsCall, Named
<1> HIDE DEF e, x, a
<1>5. st \in Seq({e}) /\ Len(st) = 1 /\ st[1] = e OBVIOUS
<1> HIDE DEF st
<1>6. IsStack(st) BY <1>5 DEF IsStack
<1>7. Frames(st) /\ Last(st) = e BY <1>4, <1>5, <1>6 DEF Frames, Last
<1>8. ~Lenience(st) BY <1>4, <1>5 DEF Lenience, Soft
<1>9. Dooms(c, a, x) => Dooms(c, st, x) BY <1>1, <1>6, <1>8, DoomsMore
<1>10. Fated(c, st, x) BY <1>1, <1>2, <1>3, <1>9 DEF Fated
<1>11. Moves(c, st, x) BY <1>1, <1>2, <1>3, <1>4, <1>7 DEF Moves, Shaped
<1> QED BY <1>2, <1>4, <1>7, <1>10, <1>11 DEF Calm

LEMMA LevelOnLoop == ASSUME NEW a, Frames(a), Len(a) > 1, a[Len(a)].f = "level"
                     PROVE a[Len(a) - 1].f = "loop"
<1>1. Len(a) \in 1 .. Len(a) BY DEF Frames, IsStack
<1> QED BY <1>1 DEF Frames

\* An iteration is over, and the loop goes on, or ends with what it passes on.
LEMMA IterationCalm == ASSUME Typed, Shape, Tree, NEW g \in DOMAIN go, Cancelled, runForEach(g)
                       PROVE Calm(g) /\ past'.calls = past.calls
<1> DEFINE a == Stack(g)
           x == Result(g)
           calls == Front(a)
           old == Last(calls)
           v == old.agg + 1
           w == old.n + Recorded(nodes, Call(g).n)
           mid == [old EXCEPT !.agg = v]
           loop == [mid EXCEPT !.n = w]
           upTo == Append(Front(calls), loop)
           cut == ~isAbort(x) /\ Truncated(loop.agg)
<1>1. /\ GroupsWait(g) /\ IsStack(a) /\ Frames(a) /\ Last(a).f = "level" /\ Call(g) = Last(a)
      /\ go[g].ret \in Rets /\ Len(a) > 1 /\ Len(a) \in Nat /\ Last(a) = a[Len(a)]
  BY Waits DEF runForEach, In, Call
<1>2. x \in Rets /\ (x = Fatal("cancel") => Done(g)) /\ (Carries(g) <=> Dooms(g, a, x))
      /\ (x # Ok => x = go[g].ret)
  BY <1>1, HarmlessNone DEF Result, Rets, Cancelled, Carries, Fatal, Ok
<1>3. /\ IF isAbort(x) THEN Return(g, upTo, x)
         ELSE IF Truncated(loop.agg) THEN Return(g, upTo, Fatal("cut"))
         ELSE IF x = Ok \/ Swallows(loop, x) THEN Put(g, upTo, None)
         ELSE IF x.is = "fatal" THEN Return(g, upTo, x)
         ELSE Aggregate(g, upTo, x)
      /\ Doom(g, Front(calls), IF cut THEN Fatal("cut") ELSE Ok)
  BY DEF runForEach
<1>4. Drops(a, calls) /\ Swaps(calls, loop, upTo) BY DEF Drops, Swaps
<1> HIDE DEF calls, v, w
<1>5. /\ Frames(calls) /\ Len(calls) = Len(a) - 1 /\ old = calls[Len(calls)] /\ calls[Len(calls)] = a[Len(a) - 1]
      /\ Len(calls) \in 1 .. Len(calls)
  <2>1. Len(a) >= 2 BY <1>1
  <2>2. /\ Frames(calls) /\ old = calls[Len(calls)] /\ calls[Len(calls)] = a[Len(a) - 1]
        /\ Len(calls) = Len(a) - 1
    BY <1>1, <1>4, <2>1, Popped
  <2>3. Len(calls) \in 1 .. Len(calls) BY <2>2 DEF Frames, IsStack
  <2> QED BY <2>2, <2>3
<1>6. IsCall(old) BY <1>5 DEF Frames
<1>7. old.f = "loop"
  <2> HIDE DEF a, old
  <2> QED BY <1>1, <1>5, LevelOnLoop
<1> HIDE DEF old
<1>8. Alike(old, mid) BY <1>6, Field
<1> HIDE DEF mid
<1>9. Alike(mid, loop) /\ Alike(old, loop)
  <2>1. IsCall(mid) BY <1>8 DEF Alike
  <2>2. Alike(mid, loop) BY <2>1, Field
  <2> QED BY <1>8, <2>2, LikeIsLike
<1> HIDE DEF loop, upTo, a, x
<1>10. Frames(upTo) /\ Same(calls, upTo) /\ Last(upTo) = loop /\ loop.f = "loop"
       /\ loop.step = old.step
  BY <1>4, <1>5, <1>7, <1>9, Replaced DEF Alike, Named
<1>11. Lenience(a) <=> Lenience(upTo)
  <2>1. ~Soft(Last(a)) BY <1>1 DEF Soft
  <2>2. Lenience(a) <=> Lenience(calls) BY <1>1, <1>4, <2>1, TopLenience
  <2>3. Lenience(calls) <=> Lenience(upTo) BY <1>10, SameLenience
  <2> QED BY <2>2, <2>3
<1> DEFINE top == Front(upTo)
<1>12. Drops(upTo, top) /\ IsStack(upTo) /\ Len(upTo) >= 1 BY <1>10 DEF Drops, Frames
<1> HIDE DEF top
<1>13. Lenience(upTo) <=> Lenience(top) \/ Step(loop.step).cont
  <2>1. Soft(Last(upTo)) <=> Step(loop.step).cont BY <1>10 DEF Soft
  <2> QED BY <1>12, <2>1, TopLenience
\* What it returns.
<1>14. ASSUME NEW y \in Rets, Return(g, upTo, y), y = Fatal("cancel") => Done(g),
              NEW b, IsStack(b), Lenience(b) <=> Lenience(top),
              Carries(g) => Dooms(g, b, y), past.doomed => past'.doomed,
              past'.doomed => past.doomed \/ Dooms(g, b, y),
              g = <<>> /\ Dooms(g, b, y) => past'.doomed \/ Carries(g)
       PROVE Calm(g)
  <2>1. PICK st : Pops(g, upTo, y, st) BY <1>10, <1>14, Returned DEF Inner
  <2>2. /\ go' = [go EXCEPT ![g] = [stack |-> st, ret |-> Kept(y)]]
        /\ Frames(st) /\ IsStack(st) /\ Last(st).f \in {"level", "branch"}
        /\ Lenience(st) <=> Lenience(top)
    BY <2>1 DEF Pops, Outer, Frames, top
  <2>3. Dooms(g, st, y) <=> Dooms(g, b, y) BY <1>1, <1>14, <2>2, DoomsMore
  <2>4. Dooms(g, st, Kept(y)) <=> Dooms(g, st, y) BY HarmlessNone DEF Kept
  <2>5. Fated(g, st, Kept(y)) BY <1>14, <2>3, <2>4 DEF Fated
  <2>6. Kept(y) \in Rets /\ (Kept(y) = Fatal("cancel") => y = Fatal("cancel"))
    BY <1>14 DEF Kept, Rets, Fatal, None
  <2>7. Moves(g, st, Kept(y)) BY <1>1, <1>14, <2>2, <2>6 DEF Moves, Shaped
  <2> QED BY <2>2, <2>5, <2>7 DEF Calm
<1>15. /\ past'.calls = past.calls /\ past.doomed \in BOOLEAN
       /\ past'.doomed = (past.doomed \/ Dooms(g, Front(calls), IF cut THEN Fatal("cut") ELSE Ok))
  BY <1>3 DEF Doom, Typed
<1> DEFINE rest == Front(calls)
<1>16. IsStack(rest) /\ IsStack(top) /\ (Lenience(rest) <=> Lenience(top)) /\ IsStack(upTo) /\ IsStack(a)
  <2>1. Drops(calls, rest) BY DEF Drops
  <2>2. IsStack(calls) /\ Len(calls) >= 1 BY <1>5 DEF Frames
  <2> HIDE DEF rest
  <2> QED BY <1>1, <1>4, <1>12, <2>1, <2>2, FrontsAlike
<1>17. past'.doomed = (past.doomed \/ Dooms(g, rest, IF cut THEN Fatal("cut") ELSE Ok))
  BY <1>15
<1> HIDE DEF rest
<1>18. Lenience(top) => Lenience(a) BY <1>11, <1>13
<1>19. ~cut => past'.doomed = past.doomed BY <1>15, <1>17, HarmlessNone
<1>20. CASE isAbort(x)
  <2>1. Return(g, upTo, x) /\ ~cut BY <1>3, <1>20
  <2>2. Dooms(g, a, x) => Dooms(g, top, x) BY <1>1, <1>16, <1>18, DoomsMore
  <2>3. g = <<>> /\ Dooms(g, top, x) => Dooms(g, a, x) BY <1>20, AbortsAre DEF Dooms
  <2> QED BY <1>2, <1>14, <1>15, <1>16, <1>19, <2>1, <2>2, <2>3
<1>21. CASE cut
  <2> DEFINE y == Fatal("cut")
  <2>1. Return(g, upTo, y) BY <1>3, <1>21
  <2>2. past'.doomed = (past.doomed \/ Dooms(g, rest, y)) BY <1>17, <1>21
  <2>3. Dooms(g, a, x) => Dooms(g, a, y) BY <1>21, AbortsAre DEF Dooms, Fatal, isCanceled
  <2>4. y \in Rets /\ y # Fatal("cancel") BY DEF Rets, Errors, Fatal
  <2> HIDE DEF y
  <2>5. Dooms(g, a, y) => Dooms(g, rest, y) BY <1>1, <1>16, <1>18, DoomsMore
  <2>6. Carries(g) => Dooms(g, rest, y) BY <1>2, <2>3, <2>5
  <2> QED BY <1>14, <1>15, <1>16, <2>1, <2>2, <2>4, <2>6
<1>22. CASE ~isAbort(x) /\ ~cut /\ (x = Ok \/ Swallows(loop, x))
  <2>1. go' = [go EXCEPT ![g] = [stack |-> upTo, ret |-> None]] BY <1>3, <1>22 DEF Put
  <2>2. ~Carries(g)
    <3>1. CASE x = Ok BY <3>1, <1>2, HarmlessNone
    <3>2. CASE Swallows(loop, x)
      <4>1. Lenience(a) BY <3>2, <1>11, <1>13 DEF Swallows
      <4>2. Swallowed(g, a) BY <4>1, <1>1, SwallowedIs
      <4> QED BY <4>2, <1>2, <1>22, AbortsAre DEF Dooms
    <3> QED BY <3>1, <3>2, <1>22
  <2>3. Fated(g, upTo, None) BY <1>19, <1>22, <2>2, HarmlessNone DEF Fated
  <2>4. None # Fatal("cancel") BY DEF None, Fatal
  <2>5. Moves(g, upTo, None) BY <1>1, <1>10, <2>1, <2>4 DEF Moves, Shaped, Rets
  <2> QED BY <1>10, <1>15, <2>3, <2>5 DEF Calm
<1>23. CASE ~isAbort(x) /\ ~cut /\ x # Ok /\ ~Swallows(loop, x) /\ x.is = "fatal"
  <2>1. Return(g, upTo, x) BY <1>3, <1>23
  <2>2. Lenience(a) <=> Lenience(top) BY <1>11, <1>13, <1>23 DEF Swallows
  <2>3. Dooms(g, a, x) <=> Dooms(g, top, x) BY <1>1, <1>16, <2>2, DoomsMore
  <2> QED BY <1>2, <1>14, <1>15, <1>16, <1>19, <1>23, <2>1, <2>3
<1>24. CASE ~isAbort(x) /\ ~cut /\ x # Ok /\ ~Swallows(loop, x) /\ x.is # "fatal"
  <2>1. Aggregate(g, upTo, x) BY <1>3, <1>24
  <2>2. Harmless(x) BY <1>2, <1>24 DEF Harmless, Rets, Fatal
  <2>3. Harmless(go[g].ret) BY <1>2, <1>24, <2>2
  <2> DEFINE b == setOutput(upTo, Last(upTo).step)
  <2>4. Return(g, b, x) BY <2>1 DEF Aggregate
  <2>5. Same(upTo, b) /\ Frames(b) BY <1>10, OutputSame
  <2> HIDE DEF b
  <2>6. Last(b).f \in Inner BY <1>10, <2>5, SameLast DEF Inner
  <2>7. Call(g).f # "join" BY <1>1
  <2> QED BY <1>15, <1>19, <1>24, <2>2, <2>3, <2>4, <2>5, <2>6, <2>7, Returns
<1> QED BY <1>20, <1>21, <1>22, <1>23, <1>24

-----------------------------------------------------------------------------
(* Places and budgets.                                                       *)

LEMMA ResolvingIs == ASSUME Placed, NEW k
                     PROVE /\ Resolving(k) \subseteq sem /\ IsFiniteSet(Resolving(k))
                           /\ Cardinality(Resolving(k)) \in Nat
<1>1. Resolving(k) \subseteq sem BY DEF Resolving, At, In, Placed
<1>2. IsFiniteSet(sem) BY DEF Placed
<1>3. IsFiniteSet(Resolving(k)) BY <1>1, <1>2, FS_Subset
<1> QED BY <1>1, <1>3, FS_CardinalityType

\* The accounts hold while the calls that are about to be made only become fewer.
LEMMA FewerResolve ==
  ASSUME Typed, Placed, Accounts, UNCHANGED charged, past'.calls = past.calls,
         \A k : Resolving(k)' \subseteq Resolving(k)
  PROVE  Accounts'
<1> SUFFICES ASSUME NEW k \in Kinds
             PROVE /\ Budget[k] = 0 \/ charged'[k] <= Budget[k]
                   /\ past'.calls[k] + Cardinality(Resolving(k)') <= charged'[k]
  BY DEF Accounts
<1>1. IsFiniteSet(Resolving(k)) /\ Cardinality(Resolving(k)) \in Nat BY ResolvingIs
<1>2. Cardinality(Resolving(k)') <= Cardinality(Resolving(k)) /\ IsFiniteSet(Resolving(k)') BY <1>1, FS_Subset
<1>3. Cardinality(Resolving(k)') \in Nat BY <1>2, FS_CardinalityType
<1> DEFINE m == Cardinality(Resolving(k))
           n == Cardinality(Resolving(k)')
<1>4. past.calls[k] \in Nat /\ charged[k] \in Nat BY DEF Typed
<1>5. (Budget[k] = 0 \/ charged[k] <= Budget[k]) /\ past.calls[k] + m <= charged[k] BY DEF Accounts
<1>6. n <= m /\ n \in Nat /\ m \in Nat BY <1>1, <1>2, <1>3
<1> HIDE DEF m, n
<1>7. past.calls[k] + n <= charged[k] BY <1>4, <1>5, <1>6
<1> QED BY <1>5, <1>7 DEF n

LEMMA CallsAfter == ASSUME Tree, NEW g, NEW st, NEW x, Moves(g, st, x), UNCHANGED def
                    PROVE /\ DOMAIN go' = DOMAIN go /\ g \in DOMAIN go /\ Call(g)' = Last(st)
                          /\ \A h \in DOMAIN go : h # g => Call(h)' = Call(h)
                          /\ \A s : Step(s)' = Step(s)
<1>1. DOMAIN go' = DOMAIN go /\ go'[g] = [stack |-> st, ret |-> x] BY Others
<1>2. \A h \in DOMAIN go : h # g => go'[h] = go[h] BY Others
<1>3. Call(g)' = Last(st) BY <1>1 DEF Call, Stack
<1>4. \A h \in DOMAIN go : h # g => Call(h)' = Call(h) BY <1>2 DEF Call, Stack
<1>5. g \in DOMAIN go BY DEF Moves
<1> QED BY <1>1, <1>3, <1>4, <1>5 DEF Step

LEMMA CalmAccounts ==
  ASSUME Typed, Tree, Placed, Accounts, NEW g, Calm(g), sem' \in {sem, sem \ {g}},
         UNCHANGED <<def, charged>>, past'.calls = past.calls
  PROVE  Placed' /\ Accounts'
<1>1. PICK st, x : Moves(g, st, x) /\ (Last(st).f = "leaf" => Last(st).at = "acquire") BY DEF Calm
<1>2. /\ DOMAIN go' = DOMAIN go /\ g \in DOMAIN go /\ Call(g)' = Last(st)
      /\ \A h \in DOMAIN go : h # g => Call(h)' = Call(h)
      /\ \A s : Step(s)' = Step(s)
  BY <1>1, CallsAfter
<1>3. IsFiniteSet(sem') /\ Cardinality(sem') <= MaxParallelism
  <2>1. IsFiniteSet(sem) /\ Cardinality(sem) <= MaxParallelism /\ sem' \subseteq sem BY DEF Placed
  <2>2. IsFiniteSet(sem') /\ Cardinality(sem') <= Cardinality(sem) BY <2>1, FS_Subset
  <2>3. Cardinality(sem) \in Nat /\ Cardinality(sem') \in Nat BY <2>1, <2>2, FS_CardinalityType
  <2> QED BY <2>1, <2>2, <2>3, EngineAssumption
<1>4. ASSUME NEW h \in DOMAIN go, Call(h)'.f = "leaf", Call(h)'.at # "acquire" PROVE h \in sem'
  <2>1. h # g BY <1>1, <1>2, <1>4
  <2> QED BY <1>2, <1>4, <2>1 DEF Placed
<1>5. Placed' BY <1>2, <1>3, <1>4 DEF Placed
<1>6. ASSUME NEW k, NEW h \in Resolving(k)' PROVE h \in Resolving(k)
  <2>1. h \in DOMAIN go /\ Call(h)'.f = "leaf" /\ Call(h)'.at = "resolve" /\ Step(Call(h)'.step).type = k
    BY <1>2 DEF Resolving, At, In, Kind
  <2>2. h # g BY <1>1, <1>2, <2>1
  <2> QED BY <1>2, <2>1, <2>2 DEF Resolving, At, In, Kind
<1> QED BY <1>5, <1>6, FewerResolve

\* Who goes on as a leaf with a place.
LEMMA OnwardAccounts ==
  ASSUME Typed, Shape, Tree, Placed, NEW g, In(g, "leaf"), NEW at, Onward(g, at), UNCHANGED def
  PROVE  /\ Kind(g) \in Kinds /\ g \in DOMAIN go /\ DOMAIN go' = DOMAIN go
         /\ at # "acquire" => (g \in sem' /\ sem \subseteq sem' => \A h \in DOMAIN go :
              Call(h)'.f = "leaf" /\ Call(h)'.at # "acquire" => h \in sem')
         /\ \A k : Resolving(k)' = IF at = "resolve" /\ k = Kind(g) THEN Resolving(k) \cup {g}
                                  ELSE Resolving(k) \ {g}
<1>1. PICK st : Moves(g, st, None) /\ Last(st) = Leaf(Call(g).step, at) BY DEF Onward
<1>2. /\ DOMAIN go' = DOMAIN go /\ g \in DOMAIN go /\ Call(g)' = Leaf(Call(g).step, at)
      /\ \A h \in DOMAIN go : h # g => Call(h)' = Call(h)
      /\ \A s : Step(s)' = Step(s)
  BY <1>1, CallsAfter
<1>3. Kind(g) \in Kinds
  <2>1. Frames(Stack(g)) /\ Call(g) = Stack(g)[Len(Stack(g))] /\ Call(g).f = "leaf" BY <1>2, Waits DEF In
  <2> QED BY <2>1 DEF Frames, Kind
<1>4. /\ Call(g)'.f = "leaf" /\ Call(g)'.at = at /\ Call(g)'.step = Call(g).step BY <1>2 DEF Leaf
<1>5. ASSUME at # "acquire", g \in sem', sem \subseteq sem', NEW h \in DOMAIN go,
             Call(h)'.f = "leaf", Call(h)'.at # "acquire"
      PROVE h \in sem'
  <2>1. CASE h = g BY <2>1, <1>5
  <2>2. CASE h # g BY <2>2, <1>2, <1>5 DEF Placed
  <2> QED BY <2>1, <2>2
<1>6. ASSUME NEW k
      PROVE Resolving(k)' = IF at = "resolve" /\ k = Kind(g) THEN Resolving(k) \cup {g}
                            ELSE Resolving(k) \ {g}
  <2>1. ASSUME NEW h \in DOMAIN go, h # g PROVE h \in Resolving(k)' <=> h \in Resolving(k)
    BY <1>2, <2>1 DEF Resolving, At, In, Kind
  <2>2. g \in Resolving(k)' <=> at = "resolve" /\ k = Kind(g)
    BY <1>2, <1>4 DEF Resolving, At, In, Kind
  <2>3. Resolving(k) \subseteq DOMAIN go /\ Resolving(k)' \subseteq DOMAIN go BY <1>2 DEF Resolving
  <2> QED BY <1>2, <2>1, <2>2, <2>3
<1> QED BY <1>2, <1>3, <1>5, <1>6

\* The steps of a leaf move one goroutine, and keep to the places and budgets.
Moved(g) == \E st, x : Moves(g, st, x) /\ Fated(g, st, x)

LEMMA AcquireKeeps ==
  ASSUME Typed, Shape, Tree, Placed, Accounts, NEW g \in DOMAIN go, acquire(g)
  PROVE  Moved(g) /\ Placed' /\ Accounts' /\ past'.calls = past.calls /\ charged' = charged
<1>1. In(g, "leaf") /\ UNCHANGED <<def, charged>> BY DEF acquire, At
<1>2. CASE /\ Cardinality(sem) < MaxParallelism /\ sem' = sem \cup {g}
           /\ Goto(g, Leaf(Call(g).step, "charge")) /\ UNCHANGED past
  <2>1. Onward(g, "charge") BY <1>1, <1>2, LeafGoes
  <2>2. /\ \A h \in DOMAIN go' : Call(h)'.f = "leaf" /\ Call(h)'.at # "acquire" => h \in sem'
        /\ \A k : Resolving(k)' = Resolving(k) \ {g}
    BY <1>1, <1>2, <2>1, OnwardAccounts
  <2>3. IsFiniteSet(sem') /\ Cardinality(sem') <= MaxParallelism
    <3>1. IsFiniteSet(sem) BY DEF Placed
    <3>2. IsFiniteSet(sem \cup {g})
          /\ Cardinality(sem \cup {g}) = IF g \in sem THEN Cardinality(sem) ELSE Cardinality(sem) + 1
      BY <3>1, FS_AddElement
    <3>3. Cardinality(sem) \in Nat BY <3>1, FS_CardinalityType
    <3> QED BY <1>2, <3>2, <3>3, EngineAssumption
  <2>4. Placed' BY <2>2, <2>3 DEF Placed
  <2>5. \A k : Resolving(k)' \subseteq Resolving(k) BY <2>2
  <2>6. Accounts' BY <1>1, <1>2, <2>5, FewerResolve
  <2>7. Moved(g) BY <2>1 DEF Onward, Moved
  <2> QED BY <1>1, <1>2, <2>4, <2>6, <2>7
<1>3. CASE Done(g) /\ Raise(g, Stack(g), Fatal("cancel")) /\ UNCHANGED sem
  <2>1. Frames(Stack(g)) /\ Call(g).f = "leaf" BY <1>1, Waits DEF In
  <2>2. Same(Stack(g), Stack(g)) BY <2>1, SameSelf
  <2>3. Fatal("cancel") \in Rets BY DEF Rets, Errors
  <2>4. Calm(g) /\ past'.calls = past.calls BY <1>3, <2>1, <2>2, <2>3, Raises
  <2>5. Placed' /\ Accounts' BY <1>1, <1>3, <2>4, CalmAccounts
  <2> QED BY <1>1, <2>4, <2>5 DEF Calm, Moved
<1> QED BY <1>2, <1>3 DEF acquire

LEMMA AnswerKeeps ==
  ASSUME Typed, Shape, Tree, Placed, Accounts, NEW g \in DOMAIN go, In(g, "leaf"),
         NEW x \in Rets \ {Fatal("cancel")}, NEW out \in BOOLEAN, Answer(g, x, out), UNCHANGED <<def, charged>>
  PROVE  Moved(g) /\ Placed' /\ Accounts' /\ past'.calls = past.calls
<1>1. Calm(g) /\ past'.calls = past.calls /\ sem' = sem \ {g} BY Answers
<1>2. Placed' /\ Accounts' BY <1>1, CalmAccounts
<1> QED BY <1>1, <1>2 DEF Calm, Moved

LEMMA ChargeKeeps ==
  ASSUME Typed, Shape, Tree, Placed, Accounts, NEW g \in DOMAIN go, charge(g)
  PROVE  Moved(g) /\ Placed' /\ Accounts' /\ past'.calls = past.calls /\ charged' \in [Kinds -> Nat]
<1>1. In(g, "leaf") /\ UNCHANGED def /\ Call(g).at = "charge" BY DEF charge, At
<1>2. CASE /\ Affordable(Kind(g)) /\ charged' = [charged EXCEPT ![Kind(g)] = @ + 1]
           /\ Goto(g, Leaf(Call(g).step, "resolve")) /\ UNCHANGED <<sem, past>>
  <2>1. Onward(g, "resolve") BY <1>1, <1>2, LeafGoes
  <2>2. g \in sem BY <1>1 DEF Placed, In
  <2>3. Kind(g) \in Kinds BY <1>1, <2>1, OnwardAccounts
  <2>4. /\ \A h \in DOMAIN go' : Call(h)'.f = "leaf" /\ Call(h)'.at # "acquire" => h \in sem'
        /\ \A k : Resolving(k)' = IF k = Kind(g) THEN Resolving(k) \cup {g} ELSE Resolving(k) \ {g}
    BY <1>1, <1>2, <2>1, <2>2, OnwardAccounts
  <2>5. Placed' BY <1>2, <2>4 DEF Placed
  <2>6. charged' \in [Kinds -> Nat] BY <1>2, <2>3 DEF Typed
  <2>7. ASSUME NEW k \in Kinds
        PROVE /\ Budget[k] = 0 \/ charged'[k] <= Budget[k]
              /\ past.calls[k] + Cardinality(Resolving(k)') <= charged'[k]
    <3> DEFINE m == Cardinality(Resolving(k))
               n == Cardinality(Resolving(k)')
    <3>1. IsFiniteSet(Resolving(k)) /\ m \in Nat BY ResolvingIs
    <3>2. past.calls[k] \in Nat /\ charged[k] \in Nat /\ Budget[k] \in Nat BY EngineAssumption DEF Typed
    <3>3. (Budget[k] = 0 \/ charged[k] <= Budget[k]) /\ past.calls[k] + m <= charged[k] BY DEF Accounts
    <3>4. CASE k = Kind(g)
      <4>1. Resolving(k)' = Resolving(k) \cup {g} BY <2>4, <3>4
      <4>2. n <= m + 1 /\ n \in Nat
        <5>1. /\ IsFiniteSet(Resolving(k) \cup {g})
              /\ Cardinality(Resolving(k) \cup {g})
                 = IF g \in Resolving(k) THEN Cardinality(Resolving(k)) ELSE Cardinality(Resolving(k)) + 1
          BY <3>1, FS_AddElement
        <5> QED BY <3>1, <4>1, <5>1
      <4>3. charged'[k] = charged[k] + 1 BY <1>2, <3>4 DEF Typed
      <4>4. Budget[k] = 0 \/ charged[k] < Budget[k] BY <1>2, <3>4 DEF Affordable
      <4> HIDE DEF m, n
      <4>5. past.calls[k] + n <= charged'[k] BY <3>1, <3>2, <3>3, <4>2, <4>3
      <4>6. Budget[k] = 0 \/ charged'[k] <= Budget[k] BY <3>2, <4>3, <4>4
      <4> QED BY <4>5, <4>6 DEF n
    <3>5. CASE k # Kind(g)
      <4>1. Resolving(k)' = Resolving(k) \ {g} BY <2>4, <3>5
      <4>2. n <= m /\ n \in Nat
        <5>1. IsFiniteSet(Resolving(k) \ {g}) /\ Cardinality(Resolving(k) \ {g}) <= Cardinality(Resolving(k))
          BY <3>1, FS_Subset
        <5>2. Cardinality(Resolving(k) \ {g}) \in Nat BY <5>1, FS_CardinalityType
        <5> QED BY <4>1, <5>1, <5>2
      <4>3. charged'[k] = charged[k] BY <1>2, <3>5 DEF Typed
      <4> HIDE DEF m, n
      <4>5. past.calls[k] + n <= charged'[k] BY <3>1, <3>2, <3>3, <4>2, <4>3
      <4>6. Budget[k] = 0 \/ charged'[k] <= Budget[k] BY <3>3, <4>3
      <4> QED BY <4>5, <4>6 DEF n
    <3> QED BY <3>4, <3>5
  <2>8. Accounts' BY <1>2, <2>7 DEF Accounts
  <2>9. Moved(g) BY <2>1 DEF Onward, Moved
  <2> QED BY <1>2, <2>5, <2>6, <2>8, <2>9
<1>3. CASE Answer(g, Fatal("budget"), FALSE) /\ UNCHANGED charged
  <2>1. Fatal("budget") \in Rets \ {Fatal("cancel")} BY DEF Rets, Errors, Fatal
  <2>2. Moved(g) /\ Placed' /\ Accounts' /\ past'.calls = past.calls BY <1>1, <1>3, <2>1, AnswerKeeps
  <2> QED BY <1>3, <2>2 DEF Typed
<1> QED BY <1>2, <1>3 DEF charge

LEMMA FailureIs == ASSUME NEW g, Failure(g)
                   PROVE \E x \in Rets \ {Fatal("cancel")} : \E out \in BOOLEAN : Answer(g, x, out)
<1> DEFINE x == Lenient(Step(Call(g).step))
<1>1. Answer(g, x, x = Ok) BY DEF Failure
<1>2. x \in Rets \ {Fatal("cancel")} BY DEF Lenient, Rets, Errors, Fatal, Ok
<1> HIDE DEF x
<1>3. (x = Ok) \in BOOLEAN OBVIOUS
<1> QED BY <1>1, <1>2, <1>3

LEMMA DispatchKeeps ==
  ASSUME Typed, Shape, Tree, Placed, Accounts, NEW g \in DOMAIN go, dispatchLeaf(g)
  PROVE  Moved(g) /\ Placed' /\ Accounts' /\ past'.calls \in [Kinds -> Nat] /\ charged' = charged
<1>1. In(g, "leaf") /\ UNCHANGED <<def, charged>> /\ Call(g).at = "resolve" BY DEF dispatchLeaf, At
<1>2. CASE Failure(g)
  <2>1. PICK x \in Rets \ {Fatal("cancel")}, out \in BOOLEAN : Answer(g, x, out) BY <1>2, FailureIs
  <2>2. Moved(g) /\ Placed' /\ Accounts' /\ past'.calls = past.calls BY <1>1, <2>1, AnswerKeeps
  <2> QED BY <1>1, <2>2 DEF Typed
<1>3. CASE /\ Goto(g, Leaf(Call(g).step, "run")) /\ UNCHANGED sem
           /\ past' = [past EXCEPT !.calls[Kind(g)] = @ + 1]
  <2>1. past'.doomed = past.doomed /\ past'.calls = [past.calls EXCEPT ![Kind(g)] = @ + 1]
    BY <1>3 DEF Typed
  <2>2. Onward(g, "run") BY <1>1, <1>3, <2>1, LeafGoes
  <2>3. g \in sem BY <1>1 DEF Placed, In
  <2>4. Kind(g) \in Kinds BY <1>1, <2>2, OnwardAccounts
  <2>5. /\ \A h \in DOMAIN go' : Call(h)'.f = "leaf" /\ Call(h)'.at # "acquire" => h \in sem'
        /\ \A k : Resolving(k)' = Resolving(k) \ {g}
    BY <1>1, <1>3, <2>2, <2>3, OnwardAccounts
  <2>6. Placed' BY <1>3, <2>5 DEF Placed
  <2>7. past'.calls \in [Kinds -> Nat] BY <2>1, <2>4 DEF Typed
  <2>8. ASSUME NEW k \in Kinds PROVE past'.calls[k] + Cardinality(Resolving(k)') <= charged[k]
    <3> DEFINE m == Cardinality(Resolving(k))
               n == Cardinality(Resolving(k)')
    <3>1. IsFiniteSet(Resolving(k)) /\ m \in Nat BY ResolvingIs
    <3>2. past.calls[k] \in Nat /\ charged[k] \in Nat BY DEF Typed
    <3>3. past.calls[k] + m <= charged[k] BY DEF Accounts
    <3>4. /\ IsFiniteSet(Resolving(k) \ {g})
          /\ Cardinality(Resolving(k) \ {g})
             = IF g \in Resolving(k) THEN Cardinality(Resolving(k)) - 1 ELSE Cardinality(Resolving(k))
      BY <3>1, FS_RemoveElement
    <3>5. n = IF g \in Resolving(k) THEN m - 1 ELSE m BY <2>5, <3>4
    <3>6. g \in Resolving(k) <=> k = Kind(g) BY <1>1 DEF Resolving, At
    <3>7. past'.calls[k] = IF k = Kind(g) THEN past.calls[k] + 1 ELSE past.calls[k] BY <2>1 DEF Typed
    <3> HIDE DEF m, n
    <3>8. past'.calls[k] + n <= charged[k] BY <3>1, <3>2, <3>3, <3>5, <3>6, <3>7
    <3> QED BY <3>8 DEF n
  <2>9. Accounts' BY <1>1, <2>8 DEF Accounts
  <2>10. Moved(g) BY <2>2 DEF Onward, Moved
  <2> QED BY <1>1, <2>6, <2>7, <2>9, <2>10
<1> QED BY <1>2, <1>3 DEF dispatchLeaf

LEMMA RunLeafKeeps ==
  ASSUME Typed, Shape, Tree, Placed, Accounts, NEW g \in DOMAIN go, runLeaf(g)
  PROVE  Moved(g) /\ Placed' /\ Accounts' /\ past'.calls = past.calls /\ charged' = charged
<1>1. In(g, "leaf") /\ UNCHANGED <<def, charged>> BY DEF runLeaf, At
<1>2. Ok \in Rets \ {Fatal("cancel")} BY DEF Rets, Ok, Fatal
<1>3. PICK x \in Rets \ {Fatal("cancel")}, out \in BOOLEAN : Answer(g, x, out) BY <1>2, FailureIs DEF runLeaf
<1> QED BY <1>1, <1>3, AnswerKeeps
-----------------------------------------------------------------------------
(* Parallel groups.                                                          *)

\* The children of g and what is around them.
LEMMA SpawnedAre ==
  ASSUME Typed, NEW g \in Names, NEW s \in Steps, NEW c \in Spawned(g, s)
  PROVE  /\ c \in Names /\ c # <<>> /\ c # g /\ Front(c) = g /\ Last(c) \in Steps
         /\ Groups(c) = Groups(g) \cup {g}
<1> DEFINE kids == Step(s).kids
<1>1. kids \in Seq(Steps) BY StepIs
<1> HIDE DEF kids
<1>2. Roots(kids) \subseteq DOMAIN kids /\ \A i \in DOMAIN kids : kids[i] \in Steps BY <1>1, RootsIn
<1>3. c \in Range([i \in Roots(kids) |-> Append(g, kids[i])]) BY DEF Spawned, Children, kids
<1>4. PICK i \in Roots(kids) : c = Append(g, kids[i]) BY <1>3 DEF Range
<1>5. kids[i] \in Steps /\ Adds(g, kids[i], c) BY <1>2, <1>4 DEF Adds
<1> QED BY <1>5, Child

LEMMA SpawnKeeps ==
  ASSUME Typed, Shape, Tree, Cancelled, Doomed, Blamed, Placed, Accounts,
         NEW g \in DOMAIN go, InSteps(g), go[g].ret = None, NEW s \in Steps, spawn(g, s),
         UNCHANGED <<def, sem, charged, dead, ctx, status>>
  PROVE  /\ Shape' /\ Tree' /\ Cancelled' /\ Doomed' /\ Blamed' /\ Placed' /\ Accounts'
         /\ past' = past
<1> DEFINE K == Spawned(g, s)
           a == Rest(g)
           top == Join(s)
           st == Append(a, top)
<1>1. /\ Frames(Stack(g)) /\ Call(g) = Stack(g)[Len(Stack(g))] /\ Call(g).f \in {"level", "branch"}
      /\ Call(g) = Last(Stack(g)) /\ g \in Names
  BY Waits DEF InSteps, In, Call
<1>2. \A c \in K : /\ c \in Names /\ c # <<>> /\ c # g /\ Front(c) = g /\ Last(c) \in Steps
                   /\ Groups(c) = Groups(g) \cup {g}
  BY <1>1, SpawnedAre
<1>3. \A c \in DOMAIN go : g \notin Groups(c) /\ c \notin K
  <2>1. \A c \in DOMAIN go : g \notin Groups(c) BY <1>1 DEF Tree, In
  <2> HIDE DEF K
  <2> QED BY <1>2, <2>1
<1>4. /\ DOMAIN go' = DOMAIN go \cup K /\ go'[g] = [stack |-> st, ret |-> None]
      /\ \A c \in DOMAIN go : c # g => go'[c] = go[c]
      /\ \A c \in K : go'[c] = Born(c)
      /\ past' = past
  <2>1. /\ go' = [c \in DOMAIN go \cup K |->
                    IF c = g THEN [stack |-> st, ret |-> None] ELSE IF c \in K THEN Born(c) ELSE go[c]]
        /\ past' = past
    BY DEF spawn
  <2> HIDE DEF K, st
  <2> QED BY <1>2, <1>3, <2>1
<1>5. Adds(a, top, st) BY DEF Adds
<1>6. top.f = "join" /\ top.step = s /\ IsCall(top) BY DEF Join, IsCall, Named
<1>7. Frames(a) /\ Same(Stack(g), a) BY RestSame
<1> HIDE DEF K, a, top, st
<1>8. Frames(st) /\ Last(st) = top
  <2>1. Last(a).f = Last(Stack(g)).f BY <1>1, <1>7, SameLast
  <2>2. Stands(a, top) BY <1>1, <1>6, <2>1 DEF Stands, Last, Inner, Waiting
  <2> QED BY <1>5, <1>7, <2>2, Pushed
<1>9. ASSUME NEW c \in K
      PROVE Frames(go'[c].stack) /\ go'[c].ret = None /\ Last(go'[c].stack).f = "level"
  <2> DEFINE l == Level(<<Last(c)>>, {1})
             b == <<l>>
  <2>1. go'[c].stack = b /\ go'[c].ret = None BY <1>4 DEF Born
  <2>2. IsCall(l) /\ l.f = "level"
    <3>1. Last(c) \in Steps BY <1>2
    <3>2. <<Last(c)>> \in Seq(Steps) /\ DOMAIN <<Last(c)>> = {1} BY <3>1
    <3> QED BY <3>2 DEF IsCall, Level, Named
  <2> HIDE DEF l
  <2>3. b \in Seq({l}) /\ Len(b) = 1 /\ b[1] = l OBVIOUS
  <2> HIDE DEF b
  <2>4. IsStack(b) BY <2>3 DEF IsStack
  <2>5. Frames(b) /\ Last(b) = l BY <2>2, <2>3, <2>4 DEF Frames, Last
  <2> QED BY <2>1, <2>2, <2>5
<1>10. \A x : Step(x)' = Step(x) BY DEF Step
<1>11. Shape'
  <2>1. SUFFICES ASSUME NEW c \in DOMAIN go' PROVE Shaped(Stack(c), go[c].ret)' BY DEF Shape
  <2>2. Shaped(go'[c].stack, go'[c].ret)
    <3>1. CASE c = g BY <3>1, <1>4, <1>8 DEF Shaped, Rets
    <3>2. CASE c \in K BY <3>2, <1>9 DEF Shaped, Rets
    <3>3. CASE c \in DOMAIN go /\ c # g BY <3>3, <1>4 DEF Shape, Stack
    <3> QED BY <3>1, <3>2, <3>3, <1>4
  <2> QED BY <2>2, <1>10 DEF Shaped, Frames, Stack
<1>12. In(g, "join")' /\ Call(g)'.step = s BY <1>4, <1>6, <1>8 DEF In, Call, Stack
<1>13. ASSUME NEW c \in DOMAIN go, NEW h \in Groups(c)
       PROVE In(h, "join")' /\ go'[h] = go[h] /\ Call(h)' = Call(h)
  <2>1. In(h, "join") /\ h # g /\ h \in DOMAIN go BY <1>3 DEF Tree, In
  <2>2. go'[h] = go[h] BY <1>4, <2>1
  <2> QED BY <1>4, <2>1, <2>2 DEF In, Call, Stack
<1>14. Tree'
  <2>1. ASSUME NEW c \in DOMAIN go', NEW h \in Groups(c) PROVE In(h, "join")'
    <3>1. CASE c \in DOMAIN go BY <3>1, <1>13
    <3>2. CASE c \in K
      <4>1. h = g \/ h \in Groups(g) BY <3>2, <1>2, <2>1
      <4> QED BY <4>1, <1>12, <1>13
    <3> QED BY <3>1, <3>2, <1>4
  <2>2. ASSUME NEW c \in DOMAIN go', c # <<>> PROVE (c \in Spawned(Front(c), Call(Front(c)).step))'
    <3>0. \A h, x : Spawned(h, x)' = Spawned(h, x) BY SameChildren
    <3>1. CASE c \in DOMAIN go
      <4>1. Front(c) \in Groups(c) BY <2>2, <3>1, Parent DEF Tree
      <4>2. Call(Front(c))' = Call(Front(c)) BY <3>1, <4>1, <1>13
      <4>3. c \in Spawned(Front(c), Call(Front(c)).step) BY <2>2, <3>1 DEF Tree
      <4> QED BY <3>0, <4>2, <4>3
    <3>2. CASE c \in K
      <4>1. Front(c) = g /\ c \in Spawned(g, s) BY <3>2, <1>2 DEF K
      <4> QED BY <3>0, <4>1, <1>12
    <3> QED BY <3>1, <3>2, <1>4
  <2>3. <<>> \in DOMAIN go' /\ DOMAIN go' \subseteq Names BY <1>2, <1>4 DEF Tree
  <2> QED BY <2>1, <2>2, <2>3 DEF Tree
<1>15. None # Fatal("cancel") BY DEF None, Fatal
<1>16. Cancelled'
  <2>1. SUFFICES ASSUME NEW c \in DOMAIN go', go'[c].ret = Fatal("cancel") PROVE Done(c)'
    BY DEF Cancelled, Fatal
  <2>2. c \in DOMAIN go /\ c # g BY <2>1, <1>4, <1>9, <1>15
  <2>3. Done(c) BY <2>1, <2>2, <1>4 DEF Cancelled
  <2> QED BY <2>3 DEF Done
<1>17. ASSUME NEW c \in DOMAIN go, c # g PROVE Carries(c)' <=> Carries(c)
  <2>1. \A h \in Groups(c) : go'[h].stack = go[h].stack BY <1>13
  <2>2. Carries(c)' <=> Dooms(c, go'[c].stack, go'[c].ret) BY <2>1, FateAfter
  <2>3. go'[c] = go[c] BY <1>4, <1>17
  <2> QED BY <2>2, <2>3 DEF Carries, Stack
<1>18. ~Carries(g) /\ ~Carries(g)'
  <2>1. \A h \in Groups(g) : go'[h].stack = go[h].stack BY <1>13
  <2>2. Carries(g)' <=> Dooms(g, go'[g].stack, go'[g].ret) BY <2>1, FateAfter
  <2> QED BY <2>2, <1>4, HarmlessNone DEF Carries
<1>19. Doomed'
  <2>1. SUFFICES ASSUME past'.doomed, status = "running", ctx.run # "cancelled"
                 PROVE \E c \in DOMAIN go : Carries(c)'
    BY <1>4 DEF Doomed
  <2>2. PICK c \in DOMAIN go : Carries(c) BY <1>4, <2>1 DEF Doomed
  <2> QED BY <2>2, <1>17, <1>18
<1>20. Blamed'
  <2>1. <<>> \in DOMAIN go BY DEF Tree
  <2>2. Carries(<<>>)' => Carries(<<>>) BY <2>1, <1>17, <1>18
  <2> QED BY <2>2, <1>4 DEF Blamed
<1>21. ASSUME NEW c \in DOMAIN go', Call(c)'.f = "leaf" PROVE c \in DOMAIN go /\ Call(c)' = Call(c)
  <2>1. c # g BY <1>21, <1>4, <1>6, <1>8 DEF Call, Stack
  <2>2. c \notin K BY <1>21, <1>9 DEF Call, Stack
  <2> QED BY <2>1, <2>2, <1>4 DEF Call, Stack
<1>22. Placed' BY <1>21 DEF Placed
<1>23. Accounts'
  <2>1. ASSUME NEW k, NEW h \in Resolving(k)' PROVE h \in Resolving(k)
    <3>1. h \in DOMAIN go' /\ Call(h)'.f = "leaf" /\ Call(h)'.at = "resolve" /\ Step(Call(h)'.step).type = k
      BY <1>10 DEF Resolving, At, In, Kind
    <3>2. h \in DOMAIN go /\ Call(h)' = Call(h) BY <3>1, <1>21
    <3> QED BY <3>1, <3>2 DEF Resolving, At, In, Kind
  <2> QED BY <2>1, <1>4, FewerResolve
<1> QED BY <1>4, <1>11, <1>14, <1>16, <1>19, <1>20, <1>22, <1>23
LEMMA FrontsSame == ASSUME NEW a, Frames(a), NEW b, Same(a, b), NEW x, Drops(a, x), NEW y, Drops(b, y)
                    PROVE IsStack(x) /\ IsStack(y) /\ (Lenience(x) <=> Lenience(y))
<1>1. IsStack(a) /\ Len(a) >= 1 /\ Len(a) \in Nat BY DEF Frames, IsStack
<1>2. IsStack(b) /\ Len(b) = Len(a) BY DEF Same
<1>3. IsStack(x) /\ Len(x) = Len(a) - 1 /\ \A i \in 1 .. Len(a) - 1 : x[i] = a[i] BY <1>1, Fronted
<1>4. Len(b) >= 1 BY <1>1, <1>2
<1>5. IsStack(y) /\ Len(y) = Len(b) - 1 /\ \A i \in 1 .. Len(b) - 1 : y[i] = b[i] BY <1>2, <1>4, Fronted
<1>6. ASSUME NEW i \in 1 .. Len(a) - 1 PROVE Soft(x[i]) <=> Soft(y[i])
  <2>1. x[i] = a[i] /\ y[i] = b[i] BY <1>2, <1>3, <1>5
  <2>2. i \in 1 .. Len(b) BY <1>1, <1>2
  <2>3. b[i].f = a[i].f /\ (a[i].f \in Named => b[i].step = a[i].step) BY <2>2 DEF Same
  <2> QED BY <2>1, <2>3 DEF Soft, Named
<1>7. Len(x) = Len(y) BY <1>2, <1>3, <1>5
<1>8. \A i \in 1 .. Len(x) : Soft(x[i]) <=> Soft(y[i]) BY <1>3, <1>6
<1> QED BY <1>3, <1>5, <1>7, <1>8 DEF Lenience

\* What a group ends with: a failure of a child that is none but a cancellation comes first,
\* and in a cancelled group any other.
Decides(g, rets, cut, r) == r = Outcome(g, rets, cut)
LEMMA OutcomeIs ==
  ASSUME NEW g, NEW rets, DOMAIN rets \subseteq Nat, \A i \in DOMAIN rets : rets[i] \in Rets, NEW cut,
         NEW r, Decides(g, rets, cut, r)
  PROVE  /\ r \in Rets /\ (r = Fatal("cancel") => Done(g))
         /\ \A i \in DOMAIN rets : Fails(Call(g), rets[i]) /\ ~isCanceled(rets[i]) =>
              r.is = "fatal" /\ ~isCanceled(r)
         /\ \A i \in DOMAIN rets : Fails(Call(g), rets[i]) /\ Done(g) => r.is = "fatal"
<1> DEFINE fatals == {i \in DOMAIN rets : Fails(Call(g), rets[i])}
           causes == {i \in fatals : ~isCanceled(rets[i])}
           fins == {i \in DOMAIN rets : rets[i].is = "fin"}
<1>1. r = IF causes # {} THEN First(rets, causes)
          ELSE IF fatals # {} /\ Done(g) THEN Fatal("cancel")
          ELSE IF cut THEN Fatal("cut")
          ELSE IF fins # {} THEN First(rets, fins) ELSE Ok
  BY DEF Outcome, Decides
<1>2. \A T : T \subseteq DOMAIN rets /\ T # {} => \E i \in T : First(rets, T) = rets[i]
  <2>1. SUFFICES ASSUME NEW T, T \subseteq DOMAIN rets, T # {} PROVE \E i \in T : First(rets, T) = rets[i]
    OBVIOUS
  <2>2. Min(T) \in T BY <2>1, LeastIn
  <2> QED BY <2>2 DEF First
<1>3. causes \subseteq DOMAIN rets /\ fins \subseteq DOMAIN rets OBVIOUS
<1>4. \A i \in causes : rets[i].is = "fatal" /\ ~isCanceled(rets[i]) BY DEF Fails
<1>5. \A i \in fins : rets[i].is = "fin" OBVIOUS
<1>6. \A i \in DOMAIN rets : Fails(Call(g), rets[i]) => i \in fatals OBVIOUS
<1>7. \A i \in DOMAIN rets : Fails(Call(g), rets[i]) /\ ~isCanceled(rets[i]) => i \in causes OBVIOUS
<1>8. Ok \in Rets /\ Fatal("cut") \in Rets /\ Fatal("cancel") \in Rets BY DEF Rets, Errors
<1>9. /\ Fatal("cancel").is = "fatal" /\ Fatal("cut").is = "fatal" /\ Ok # Fatal("cancel")
      /\ Fatal("cut") # Fatal("cancel") /\ ~isCanceled(Fatal("cut"))
  BY DEF Fatal, Ok, isCanceled
<1> HIDE DEF fatals, causes, fins
<1>10. CASE causes # {}
  <2>1. PICK i \in causes : r = rets[i] BY <1>1, <1>2, <1>3, <1>10
  <2> QED BY <2>1, <1>3, <1>4 DEF isCanceled
<1>11. CASE causes = {} /\ fatals # {} /\ Done(g)
  <2>1. r = Fatal("cancel") BY <1>1, <1>11
  <2> QED BY <2>1, <1>7, <1>8, <1>9, <1>11
<1>12. CASE causes = {} /\ ~(fatals # {} /\ Done(g)) /\ cut
  <2>1. r = Fatal("cut") BY <1>1, <1>12
  <2> QED BY <2>1, <1>7, <1>8, <1>9
<1>13. CASE causes = {} /\ ~(fatals # {} /\ Done(g)) /\ ~cut
  <2>1. r \in Rets /\ r # Fatal("cancel")
    <3>1. CASE fins # {}
      <4>1. PICK i \in fins : r = rets[i] BY <1>1, <1>2, <1>3, <1>13, <3>1
      <4> QED BY <4>1, <1>3, <1>5, <1>9
    <3>2. CASE fins = {} BY <3>2, <1>1, <1>8, <1>9, <1>13
    <3> QED BY <3>1, <3>2
  <2> QED BY <2>1, <1>6, <1>7, <1>13
<1> QED BY <1>10, <1>11, <1>12, <1>13

\* A group ends: its caller gets an outcome that fails if a child carries what it does
\* not swallow.
LEMMA GroupEnds ==
  ASSUME Typed, Shape, Tree, NEW g \in DOMAIN go, runParallel(g)
  PROVE  LET K == Spawned(g, Call(g).step) IN
         \E st, r : /\ DOMAIN go' = DOMAIN go \ K /\ go'[g] = [stack |-> st, ret |-> Kept(r)]
                    /\ \A h \in DOMAIN go \ K : h # g => go'[h] = go[h]
                    /\ Frames(st) /\ Last(st).f \in {"level", "branch"}
                    /\ r \in Rets /\ (r = Fatal("cancel") => Done(g))
                    /\ past' = [past EXCEPT !.doomed = @ \/ Dooms(g, st, r), !.hit = @ \/ r = Fatal("budget")]
                    /\ Lenience(st) => Lenience(Stack(g))
                    /\ \A c \in K : /\ Fails(Call(g), go[c].ret) /\ ~isCanceled(go[c].ret) =>
                                         r.is = "fatal" /\ ~isCanceled(r)
                                    /\ Fails(Call(g), go[c].ret) /\ Done(g) => r.is = "fatal"
<1> DEFINE a == Stack(g)
           s == Call(g).step
           cs == Children(g, s)
           K == Spawned(g, s)
           rets == [i \in DOMAIN cs |-> go[cs[i]].ret]
           cut == Truncated(Merged(Range(cs)))
<1>1. /\ GroupsWait(g) /\ IsStack(a) /\ Frames(a) /\ Last(a).f = "join" /\ Call(g) = Last(a)
      /\ Len(a) >= 1 /\ Len(a) \in Nat /\ Last(a) = a[Len(a)] /\ IsCall(Call(g)) /\ g \in Names
      /\ Call(g).f = "join"
  BY Waits DEF runParallel, In, Call
<1>2. s \in Steps BY <1>1 DEF IsCall, Named
<1>3. \A c \in K : c \in DOMAIN go /\ go[c].ret \in Rets BY DEF runParallel, In, Shape, Shaped
<1>4. K = Range(cs) BY DEF Spawned
<1>5. PICK log, r : join(g, K, log, r) /\ Decides(g, rets, cut, r)
  <2> HIDE DEF rets, cut
  <2> QED BY <1>4 DEF runParallel, rets, cut, Decides
<1>6. DOMAIN cs \subseteq Nat
  <2>1. Step(s).kids \in Seq(Steps) BY <1>2, StepIs
  <2>2. DOMAIN cs = Roots(Step(s).kids) BY DEF Children
  <2> QED BY <2>1, <2>2, RootsIn
<1>7. \A i \in DOMAIN cs : cs[i] \in K BY <1>4 DEF Range
<1>8. \A c \in K : \E i \in DOMAIN cs : c = cs[i] BY <1>4 DEF Range
<1> HIDE DEF cs, K, cut, s
<1>9. /\ DOMAIN rets \subseteq Nat /\ \A i \in DOMAIN rets : rets[i] \in Rets
      /\ \A c \in K : \E i \in DOMAIN rets : go[c].ret = rets[i]
  BY <1>3, <1>6, <1>7, <1>8
<1> HIDE DEF rets
<1>10. /\ r \in Rets /\ (r = Fatal("cancel") => Done(g))
       /\ \A i \in DOMAIN rets : Fails(Call(g), rets[i]) /\ ~isCanceled(rets[i]) =>
            r.is = "fatal" /\ ~isCanceled(r)
       /\ \A i \in DOMAIN rets : Fails(Call(g), rets[i]) /\ Done(g) => r.is = "fatal"
  BY <1>5, <1>9, OutcomeIs
<1> DEFINE v == Call(g).n + log.n - nodes.n
           group == [Call(g) EXCEPT !.n = v]
           now == Append(Front(a), group)
           calls == IF r.is = "fatal" THEN now ELSE setOutput(now, group.step)
           st == Logged(Front(calls), group.n)
<1>11. /\ go' = [h \in DOMAIN go \ K |-> IF h = g THEN [stack |-> st, ret |-> Kept(r)] ELSE go[h]]
       /\ Doom(g, Front(a), r)
  BY <1>5 DEF join, Kept, Now
<1>12. Swaps(a, group, now) BY DEF Swaps
<1> HIDE DEF v, a
<1>13. Alike(Call(g), group) BY <1>1, Field
<1> HIDE DEF group, now
<1>14. Frames(now) /\ Same(a, now) BY <1>1, <1>12, <1>13, Replaced
<1>15. Frames(calls) /\ Same(a, calls)
  <2>1. CASE r.is = "fatal" BY <2>1, <1>14
  <2>2. CASE r.is # "fatal"
    <3>1. Same(now, setOutput(now, group.step)) /\ Frames(setOutput(now, group.step)) BY <1>14, OutputSame
    <3> QED BY <2>2, <3>1, <1>14, SameTwice
  <2> QED BY <2>1, <2>2
<1> HIDE DEF calls
<1>16. Last(calls).f \in Inner BY <1>1, <1>15, SameLast DEF Inner
<1>17. Outer(calls, st) BY <1>15, <1>16, OuterIs
<1> HIDE DEF st
<1>18. Frames(st) /\ Last(st).f \in {"level", "branch"} /\ (Lenience(st) <=> Lenience(Front(calls)))
  BY <1>17 DEF Outer
<1> DEFINE x == Front(a)
           y == Front(calls)
<1>19. Drops(a, x) /\ Drops(calls, y) BY DEF Drops
<1>20. Doom(g, x, r) /\ (Lenience(st) <=> Lenience(y)) BY <1>11, <1>18
<1> HIDE DEF x, y
<1>21. IsStack(x) /\ IsStack(y) /\ (Lenience(x) <=> Lenience(y)) BY <1>1, <1>15, <1>19, FrontsSame
<1>22. Lenience(x) => Lenience(a) BY <1>1, <1>19, TopLenience
<1>23. IsStack(st) BY <1>18 DEF Frames
<1>24. Dooms(g, x, r) <=> Dooms(g, st, r) BY <1>1, <1>20, <1>21, <1>23, DoomsMore
<1>25. past' = [past EXCEPT !.doomed = @ \/ Dooms(g, st, r), !.hit = @ \/ r = Fatal("budget")]
  <2>1. Dooms(g, x, r) = Dooms(g, st, r) BY <1>24 DEF Dooms
  <2> QED BY <1>20, <2>1 DEF Doom
<1>26. g \notin K
  <2>1. \A c \in K : c # g BY <1>1, <1>2, SpawnedAre DEF K
  <2> QED BY <2>1
<1>27. /\ DOMAIN go' = DOMAIN go \ K /\ go'[g] = [stack |-> st, ret |-> Kept(r)]
       /\ \A h \in DOMAIN go \ K : h # g => go'[h] = go[h]
  BY <1>11, <1>26
<1>28. Lenience(st) => Lenience(Stack(g)) BY <1>20, <1>21, <1>22 DEF a
<1>29. \A c \in K : /\ Fails(Call(g), go[c].ret) /\ ~isCanceled(go[c].ret) => r.is = "fatal" /\ ~isCanceled(r)
                    /\ Fails(Call(g), go[c].ret) /\ Done(g) => r.is = "fatal"
  BY <1>9, <1>10
<1> QED BY <1>10, <1>18, <1>25, <1>27, <1>28, <1>29 DEF K, s

LEMMA ParallelKeeps ==
  ASSUME Typed, Shape, Tree, Cancelled, Doomed, Blamed, Placed, Accounts,
         NEW g \in DOMAIN go, runParallel(g)
  PROVE  /\ Shape' /\ Tree' /\ Cancelled' /\ Doomed' /\ Blamed' /\ Placed' /\ Accounts'
         /\ past'.calls = past.calls
<1> DEFINE K == Spawned(g, Call(g).step)
<1>1. PICK st, r :
        /\ DOMAIN go' = DOMAIN go \ K /\ go'[g] = [stack |-> st, ret |-> Kept(r)]
        /\ \A h \in DOMAIN go \ K : h # g => go'[h] = go[h]
        /\ Frames(st) /\ Last(st).f \in {"level", "branch"}
        /\ r \in Rets /\ (r = Fatal("cancel") => Done(g))
        /\ past' = [past EXCEPT !.doomed = @ \/ Dooms(g, st, r), !.hit = @ \/ r = Fatal("budget")]
        /\ Lenience(st) => Lenience(Stack(g))
        /\ \A c \in K : /\ Fails(Call(g), go[c].ret) /\ ~isCanceled(go[c].ret) => r.is = "fatal" /\ ~isCanceled(r)
                        /\ Fails(Call(g), go[c].ret) /\ Done(g) => r.is = "fatal"
  BY GroupEnds
<1>2. /\ GroupsWait(g) /\ IsStack(Stack(g)) /\ Frames(Stack(g)) /\ Call(g) = Last(Stack(g))
      /\ Call(g) = Stack(g)[Len(Stack(g))] /\ Call(g).f = "join" /\ Call(g).step \in Steps
      /\ Len(Stack(g)) \in 1 .. Len(Stack(g)) /\ g \in Names
  BY Waits DEF runParallel, In, Call, IsCall, Named
<1>3. go[g].ret = None BY <1>2 DEF Shape, Shaped
<1>4. \A c \in K : In(c, "end") /\ c \in DOMAIN go BY DEF runParallel, In
<1>5. \A c \in K : c \in Names /\ c # <<>> /\ c # g /\ Front(c) = g /\ Groups(c) = Groups(g) \cup {g}
  BY <1>2, SpawnedAre
<1>6. \A c \in DOMAIN go \ K : c # <<>> => Front(c) # g BY DEF Tree
<1>7. UNCHANGED <<def, sem, charged, ctx, status>> /\ dead' = dead \ {g} BY DEF runParallel
<1> HIDE DEF K
<1>8. ASSUME NEW c \in DOMAIN go, NEW h \in Groups(c) PROVE In(h, "join") /\ h \notin K /\ h \in DOMAIN go
  <2>1. In(h, "join") BY DEF Tree
  <2> QED BY <2>1, <1>4 DEF In
<1>9. ASSUME NEW c \in DOMAIN go \ K PROVE g \notin Groups(c)
  <2>1. SUFFICES ASSUME g \in Groups(c) PROVE FALSE OBVIOUS
  <2>2. c \in Names /\ c # <<>> BY <2>1, NoGroups DEF Tree
  <2>3. PICK p \in Groups(c) : p # <<>> /\ Front(p) = g BY <2>1, <2>2, <1>6, Between
  <2>4. p \in DOMAIN go \ K BY <1>8
  <2> QED BY <2>3, <2>4, <1>6
<1>10. \A x : Step(x)' = Step(x) BY <1>7 DEF Step
<1>11. past'.doomed = (past.doomed \/ Dooms(g, st, r)) /\ past'.calls = past.calls BY <1>1 DEF Typed
<1>12. Kept(r) \in Rets /\ (Kept(r) = Fatal("cancel") => r = Fatal("cancel"))
  BY <1>1 DEF Kept, Rets, Fatal, None
<1>13. Shape'
  <2>1. SUFFICES ASSUME NEW c \in DOMAIN go' PROVE Shaped(Stack(c), go[c].ret)' BY DEF Shape
  <2>2. Shaped(go'[c].stack, go'[c].ret)
    <3>1. CASE c = g BY <3>1, <1>1, <1>12 DEF Shaped
    <3>2. CASE c # g BY <3>2, <1>1, <2>1 DEF Shape, Stack
    <3> QED BY <3>1, <3>2
  <2> QED BY <2>2, <1>10 DEF Shaped, Frames, Stack
<1>14. ASSUME NEW c \in DOMAIN go', NEW h \in Groups(c)
       PROVE h \in DOMAIN go' /\ go'[h] = go[h] /\ Call(h)' = Call(h) /\ In(h, "join")'
  <2>1. c \in DOMAIN go \ K BY <1>1
  <2>2. In(h, "join") /\ h \in DOMAIN go \ K /\ h # g BY <2>1, <1>8, <1>9
  <2>3. go'[h] = go[h] /\ h \in DOMAIN go' BY <1>1, <2>2
  <2> QED BY <2>2, <2>3 DEF In, Call, Stack
<1>15. Tree'
  <2>1. ASSUME NEW c \in DOMAIN go', c # <<>> PROVE (c \in Spawned(Front(c), Call(Front(c)).step))'
    <3>1. c \in DOMAIN go /\ c \in Names BY <1>1 DEF Tree
    <3>2. Front(c) \in Groups(c) BY <2>1, <3>1, Parent
    <3>3. Call(Front(c))' = Call(Front(c)) BY <3>2, <1>14
    <3>4. \A h, x : Spawned(h, x)' = Spawned(h, x) BY <1>7, SameChildren
    <3>5. c \in Spawned(Front(c), Call(Front(c)).step) BY <2>1, <3>1 DEF Tree
    <3> QED BY <3>3, <3>4, <3>5
  <2>2. <<>> \in DOMAIN go' /\ DOMAIN go' \subseteq Names BY <1>1, <1>5 DEF Tree
  <2> QED BY <2>1, <2>2, <1>14 DEF Tree
<1>16. g \in DOMAIN go' BY <1>1, <1>5
<1>17. g \notin Groups(g) BY <1>2, NoSelf
<1>18. \A c \in DOMAIN go' : Done(c) => Done(c)'
  <2>1. \A c \in DOMAIN go' : g \notin Groups(c) BY <1>1, <1>9
  <2> QED BY <2>1, <1>7 DEF Done
<1>19. Cancelled'
  <2>1. SUFFICES ASSUME NEW c \in DOMAIN go', go'[c].ret = Fatal("cancel") PROVE Done(c)'
    BY DEF Cancelled, Fatal
  <2>2. Done(c)
    <3>1. CASE c = g BY <3>1, <2>1, <1>1, <1>12
    <3>2. CASE c # g BY <3>2, <2>1, <1>1 DEF Cancelled
    <3> QED BY <3>1, <3>2
  <2> QED BY <2>2, <1>18
<1>20. ASSUME NEW c \in DOMAIN go' PROVE Carries(c)' <=> Dooms(c, go'[c].stack, go'[c].ret)
  <2>1. \A h \in Groups(c) : go'[h].stack = go[h].stack BY <1>14
  <2> QED BY <2>1, <1>7, FateAfter
<1>21. \A c \in DOMAIN go' : c # g => (Carries(c)' <=> Carries(c)) BY <1>1, <1>20 DEF Carries, Stack
<1>22. Carries(g)' <=> Dooms(g, st, r)
  <2>1. Dooms(g, st, Kept(r)) <=> Dooms(g, st, r) BY HarmlessNone DEF Kept
  <2>2. go'[g].stack = st /\ go'[g].ret = Kept(r) BY <1>1
  <2> QED BY <1>16, <1>20, <2>1, <2>2
<1>23. ASSUME NEW c \in K, Carries(c) PROVE Dooms(g, st, r)
  <2>1. /\ c \in DOMAIN go /\ c # <<>> /\ Groups(c) = Groups(g) \cup {g} BY <1>4, <1>5
  <2>2. /\ go[c].ret.is = "fatal" /\ (isCanceled(go[c].ret) => ctx.run # "live") /\ ~Swallowed(c, Stack(c))
    BY <1>23, <2>1 DEF Carries, Dooms
  <2>3. IsStack(Stack(c)) /\ GroupsWait(c) BY <2>1, Waits
  <2>4. ~Lenience(Stack(g)) /\ \A h \in Groups(g) : ~Lenience(Stack(h)) BY <2>1, <2>2, <2>3, SwallowedIs
  <2>5. ~Soft(Call(g)) BY <2>4, <1>2 DEF Lenience
  <2>6. Fails(Call(g), go[c].ret) BY <2>2, <2>5, <1>2 DEF Fails, Soft
  <2>7. r.is = "fatal" /\ (isCanceled(r) => ctx.run # "live")
    <3>1. CASE ~isCanceled(go[c].ret) BY <3>1, <2>6, <1>1
    <3>2. CASE isCanceled(go[c].ret)
      <4>1. ctx.run # "live" BY <3>2, <2>2
      <4>2. Done(g) BY <4>1 DEF Done
      <4> QED BY <4>1, <4>2, <2>6, <1>1
    <3> QED BY <3>1, <3>2
  <2>8. ~Swallowed(g, st)
    <3>1. IsStack(st) /\ ~Lenience(st) BY <2>4, <1>1 DEF Frames
    <3> QED BY <3>1, <2>4, <1>2, SwallowedIs
  <2> QED BY <2>7, <2>8 DEF Dooms
<1>24. Doomed'
  <2>1. SUFFICES ASSUME past'.doomed, status = "running", ctx.run # "cancelled"
                 PROVE \E c \in DOMAIN go' : Carries(c)'
    BY <1>7 DEF Doomed
  <2>2. CASE Dooms(g, st, r) BY <2>2, <1>16, <1>22
  <2>3. CASE ~Dooms(g, st, r)
    <3>1. past.doomed BY <2>1, <2>3, <1>11
    <3>2. PICK c \in DOMAIN go : Carries(c) BY <2>1, <3>1 DEF Doomed
    <3>3. c # g BY <3>2, <1>3, HarmlessNone DEF Carries
    <3>4. c \notin K BY <2>3, <3>2, <1>23
    <3> QED BY <3>2, <3>3, <3>4, <1>1, <1>21
  <2> QED BY <2>2, <2>3
<1>25. Blamed'
  <2>1. <<>> \in DOMAIN go' BY <1>15 DEF Tree
  <2>2. CASE g = <<>> BY <2>2, <1>11, <1>22 DEF Blamed, Typed
  <2>3. CASE g # <<>> BY <2>1, <2>3, <1>7, <1>11, <1>21 DEF Blamed, Typed
  <2> QED BY <2>2, <2>3
<1>26. ASSUME NEW c \in DOMAIN go', Call(c)'.f = "leaf" PROVE c \in DOMAIN go /\ Call(c)' = Call(c)
  <2>1. c # g BY <1>26, <1>1 DEF Call, Stack
  <2> QED BY <2>1, <1>1 DEF Call, Stack
<1>27. Placed' BY <1>7, <1>26 DEF Placed
<1>28. Accounts'
  <2>1. ASSUME NEW k, NEW h \in Resolving(k)' PROVE h \in Resolving(k)
    <3>1. h \in DOMAIN go' /\ Call(h)'.f = "leaf" /\ Call(h)'.at = "resolve" /\ Step(Call(h)'.step).type = k
      BY <1>10 DEF Resolving, At, In, Kind
    <3>2. h \in DOMAIN go /\ Call(h)' = Call(h) BY <3>1, <1>26
    <3> QED BY <3>1, <3>2 DEF Resolving, At, In, Kind
  <2> QED BY <2>1, <1>7, <1>11, FewerResolve
<1> QED BY <1>11, <1>13, <1>15, <1>19, <1>24, <1>25, <1>27, <1>28
-----------------------------------------------------------------------------
(* The run.                                                                  *)

PastType == [calls : [Kinds -> Nat], doomed : BOOLEAN, hit : BOOLEAN, finish : BOOLEAN]
Counts(g) == past' = past \/ \E calls, r : Doom(g, calls, r)
LEMMA GoesCount == ASSUME NEW g, Goes(g), ~dispatchLeaf(g) PROVE Counts(g)
<1>1. ASSUME NEW r, NEW n, Give(g, r, n) PROVE Counts(g) BY <1>1 DEF Give, Counts
<1>2. ASSUME NEW calls, NEW r, Raise(g, calls, r) PROVE Counts(g) BY <1>2 DEF Raise, Counts
<1>3. ASSUME NEW r, NEW out, Answer(g, r, out) PROVE Counts(g) BY <1>2, <1>3 DEF Answer
<1>4. ASSUME NEW c, Enter(g, c) PROVE Counts(g) BY <1>4 DEF Enter, Counts
<1>5. ASSUME NEW s, NEW d, runStep(g, s, d) PROVE Counts(g)
  <2>1. CASE runCondition(g, s, d) BY <1>1, <1>4, <2>1 DEF runCondition
  <2>2. CASE resolveItems(g, s, d) BY <1>1, <1>4, <2>2 DEF resolveItems
  <2>3. CASE spawn(g, s) BY <2>3 DEF spawn, Counts
  <2> QED BY <1>1, <1>4, <1>5, <2>1, <2>2, <2>3 DEF runStep
<1>6. CASE execLevel(g) BY <1>5, <1>6 DEF execLevel
<1>7. CASE endBranch(g) \/ endChild(g) BY <1>7 DEF endBranch, endChild, Counts
<1>8. CASE acquire(g) BY <1>2, <1>8 DEF acquire, Counts
<1>9. CASE charge(g) BY <1>3, <1>9 DEF charge, Counts
<1>10. CASE runLeaf(g) BY <1>3, <1>10 DEF runLeaf, Failure
<1>11. CASE forEachNext(g) BY <1>2, <1>11 DEF forEachNext, Counts
<1>12. CASE runForEach(g) BY <1>12 DEF runForEach, Counts
<1>13. CASE runParallel(g)
  <2>1. PICK cs, log, r : join(g, cs, log, r) BY <1>13 DEF runParallel
  <2>2. Doom(g, Front(Stack(g)), r) BY <2>1 DEF join
  <2> QED BY <2>2 DEF Counts
<1> QED BY <1>6, <1>7, <1>8, <1>9, <1>10, <1>11, <1>12, <1>13 DEF Goes

LEMMA PastTyped == ASSUME Typed, NEW g, Goes(g), past'.calls \in [Kinds -> Nat] PROVE past' \in PastType
<1>1. past \in PastType BY DEF Typed, PastType
<1>2. CASE dispatchLeaf(g) /\ past' = [past EXCEPT !.calls[Kind(g)] = @ + 1]
  <2> DEFINE v == [past.calls EXCEPT ![Kind(g)] = @ + 1]
  <2>1. past' = [past EXCEPT !.calls = v] BY <1>2
  <2> HIDE DEF v
  <2>2. past'.calls = v BY <1>1, <2>1 DEF PastType
  <2> QED BY <1>1, <2>1, <2>2 DEF PastType
<1>3. ASSUME NEW calls, NEW r, Doom(g, calls, r) PROVE past' \in PastType
  BY <1>1, <1>3 DEF Doom, Dooms, PastType
<1>4. CASE dispatchLeaf(g) /\ Failure(g)
  <2>1. PICK r, out : Answer(g, r, out) BY <1>4 DEF Failure
  <2>2. \E calls, x : Raise(g, calls, x) BY <2>1 DEF Answer
  <2>3. \E calls, x : Doom(g, calls, x) BY <2>2 DEF Raise
  <2> QED BY <1>3, <2>3
<1>5. CASE ~dispatchLeaf(g) BY <1>1, <1>3, <1>5, GoesCount DEF Counts
<1> QED BY <1>2, <1>4, <1>5 DEF dispatchLeaf

\* The inductive invariant.
IInv == /\ Typed /\ Shape /\ Tree /\ Cancelled /\ Doomed /\ Blamed /\ Stopped /\ Placed /\ Accounts
        /\ StatusIsEarned

LEMMA GoesKeeps ==
  ASSUME Typed, Shape, Tree, Cancelled, Doomed, Blamed, Placed, Accounts, NEW g \in DOMAIN go, Goes(g)
  PROVE  /\ Shape' /\ Tree' /\ Cancelled' /\ Doomed' /\ Blamed' /\ Placed' /\ Accounts'
         /\ past'.calls \in [Kinds -> Nat] /\ charged' \in [Kinds -> Nat] /\ UNCHANGED <<def, ctx, status>>
<1>1. UNCHANGED <<def, ctx, status>>
  BY DEF Goes, execLevel, endBranch, acquire, charge, dispatchLeaf, runLeaf, forEachNext, runForEach,
         endChild, runParallel
<1>2. past.doomed \in BOOLEAN /\ past.calls \in [Kinds -> Nat] /\ charged \in [Kinds -> Nat] BY DEF Typed
<1>3. ASSUME Moved(g), dead \subseteq dead' PROVE Shape' /\ Tree' /\ Cancelled' /\ Doomed' /\ Blamed'
  <2>1. PICK st, x : Moves(g, st, x) /\ Fated(g, st, x) BY <1>3 DEF Moved
  <2> QED BY <1>1, <1>2, <1>3, <2>1, MovesKeep
<1>4. ASSUME Calm(g), sem' = sem, charged' = charged, past'.calls = past.calls, dead \subseteq dead'
      PROVE Shape' /\ Tree' /\ Cancelled' /\ Doomed' /\ Blamed' /\ Placed' /\ Accounts'
  <2>1. Moved(g) BY <1>4 DEF Calm, Moved
  <2>2. Placed' /\ Accounts' BY <1>1, <1>4, CalmAccounts
  <2> QED BY <1>3, <1>4, <2>1, <2>2
<1>5. CASE execLevel(g)
  <2> DEFINE s == Call(g).steps[Min(Call(g).todo)]
  <2>1. InSteps(g) /\ go[g].ret = None /\ Call(g).todo # {} /\ UNCHANGED <<sem, charged, dead>>
    BY <1>5 DEF execLevel
  <2>2. runStep(g, s, Step(s)) BY <1>5 DEF execLevel
  <2>3. s \in Steps BY <2>1, NextStep
  <2> HIDE DEF s
  <2>4. CASE spawn(g, s) BY <1>1, <1>2, <2>1, <2>3, <2>4, SpawnKeeps
  <2>5. CASE ~spawn(g, s)
    <3>1. Calm(g) /\ past'.calls = past.calls BY <2>1, <2>2, <2>3, <2>5, StepCalm
    <3> QED BY <1>1, <1>2, <1>4, <2>1, <3>1
  <2> QED BY <2>4, <2>5
<1>6. CASE endBranch(g)
  <2>1. Calm(g) /\ past'.calls = past.calls BY <1>6, BranchCalm
  <2>2. UNCHANGED <<sem, charged, dead>> BY <1>6 DEF endBranch
  <2> QED BY <1>1, <1>2, <1>4, <2>1, <2>2
<1>7. CASE forEachNext(g)
  <2>1. Calm(g) /\ past'.calls = past.calls BY <1>7, LoopCalm
  <2>2. UNCHANGED <<sem, charged, dead>> BY <1>7 DEF forEachNext
  <2> QED BY <1>1, <1>2, <1>4, <2>1, <2>2
<1>8. CASE runForEach(g)
  <2>1. Calm(g) /\ past'.calls = past.calls BY <1>8, IterationCalm
  <2>2. UNCHANGED <<sem, charged, dead>> BY <1>8 DEF runForEach
  <2> QED BY <1>1, <1>2, <1>4, <2>1, <2>2
<1>9. CASE endChild(g)
  <2>1. Calm(g) /\ past'.calls = past.calls BY <1>9, ChildCalm
  <2>2. UNCHANGED <<sem, charged>> /\ dead \subseteq dead' BY <1>9 DEF endChild
  <2> QED BY <1>1, <1>2, <1>4, <2>1, <2>2
<1>10. CASE acquire(g)
  <2>1. Moved(g) /\ Placed' /\ Accounts' /\ past'.calls = past.calls /\ charged' = charged BY <1>10, AcquireKeeps
  <2>2. UNCHANGED dead BY <1>10 DEF acquire
  <2> QED BY <1>1, <1>2, <1>3, <2>1, <2>2
<1>11. CASE charge(g)
  <2>1. Moved(g) /\ Placed' /\ Accounts' /\ past'.calls = past.calls /\ charged' \in [Kinds -> Nat]
    BY <1>11, ChargeKeeps
  <2>2. UNCHANGED dead BY <1>11 DEF charge
  <2> QED BY <1>1, <1>2, <1>3, <2>1, <2>2
<1>12. CASE dispatchLeaf(g)
  <2>1. Moved(g) /\ Placed' /\ Accounts' /\ past'.calls \in [Kinds -> Nat] /\ charged' = charged
    BY <1>12, DispatchKeeps
  <2>2. UNCHANGED dead BY <1>12 DEF dispatchLeaf
  <2> QED BY <1>1, <1>2, <1>3, <2>1, <2>2
<1>13. CASE runLeaf(g)
  <2>1. Moved(g) /\ Placed' /\ Accounts' /\ past'.calls = past.calls /\ charged' = charged BY <1>13, RunLeafKeeps
  <2>2. UNCHANGED dead BY <1>13 DEF runLeaf
  <2> QED BY <1>1, <1>2, <1>3, <2>1, <2>2
<1>14. CASE runParallel(g)
  <2>1. UNCHANGED charged BY <1>14 DEF runParallel
  <2> QED BY <1>1, <1>2, <1>14, <2>1, ParallelKeeps
<1> QED BY <1>5, <1>6, <1>7, <1>8, <1>9, <1>10, <1>11, <1>12, <1>13, <1>14 DEF Goes

\* When the run itself is in a level it is alone.
LEMMA Alone == ASSUME Tree, In(<<>>, "level") PROVE DOMAIN go = {<<>>}
<1>1. ASSUME NEW g \in DOMAIN go, g # <<>> PROVE FALSE
  <2>1. g \in Names /\ \A h \in Groups(g) : In(h, "join") BY DEF Tree
  <2>2. Len(g) \in Nat \ {0} BY <1>1, <2>1, Parent
  <2>3. 0 \in 0 .. Len(g) - 1 BY <2>2
  <2>4. SubSeq(g, 1, 0) \in Groups(g) BY <2>3 DEF Groups
  <2>5. SubSeq(g, 1, 0) = <<>>
    <3>1. \A i \in 1 .. 0 : g[i] \in Steps OBVIOUS
    <3>2. /\ SubSeq(g, 1, 0) \in Seq(Steps)
          /\ Len(SubSeq(g, 1, 0)) = IF 1 <= 0 THEN 0 - 1 + 1 ELSE 0
      BY <3>1, SubSeqProperties
    <3> QED BY <3>2
  <2>6. In(<<>>, "join") BY <2>1, <2>4, <2>5
  <2> QED BY <2>6 DEF In
<1> QED BY <1>1 DEF Tree

LEMMA Quiet == ASSUME Tree, Stopped, status # "running", NEW g \in DOMAIN go, Goes(g) PROVE FALSE
<1>1. In(<<>>, "level") /\ Len(Stack(<<>>)) = 1 /\ Over(<<>>) BY DEF Stopped
<1>2. g = <<>> /\ Call(g).f = "level" BY <1>1, Alone DEF In
<1>3. ~execLevel(g) BY <1>1, <1>2 DEF execLevel, Over
<1>4. ~endChild(g) BY <1>2 DEF endChild
<1>5. Len(Stack(g)) = 1 BY <1>1, <1>2
<1>6. ~runForEach(g)
  <2>1. ~(1 > 1) OBVIOUS
  <2> QED BY <1>5, <2>1 DEF runForEach
<1>7. ~endBranch(g) /\ ~acquire(g) /\ ~charge(g) /\ ~dispatchLeaf(g) /\ ~runLeaf(g) /\ ~forEachNext(g)
      /\ ~runParallel(g)
  BY <1>2 DEF endBranch, acquire, charge, dispatchLeaf, runLeaf, forEachNext, runParallel, At, In
<1> QED BY <1>3, <1>4, <1>6, <1>7 DEF Goes

\* No goroutine goes on.
LEMMA GoSame ==
  ASSUME Shape, Tree, Placed, Accounts, UNCHANGED <<def, go, sem, charged>>, past'.calls = past.calls
  PROVE  Shape' /\ Tree' /\ Placed' /\ Accounts'
<1>1. \A s : Step(s)' = Step(s) BY DEF Step
<1>2. Shape' BY <1>1 DEF Shape, Shaped, Frames, Stack
<1>3. \A h : (In(h, "join")' <=> In(h, "join")) /\ Call(h)' = Call(h) BY DEF In, Call, Stack
<1>4. \A h, y : Spawned(h, y)' = Spawned(h, y) BY SameChildren
<1>5. Tree' BY <1>3, <1>4 DEF Tree
<1>6. Placed' BY DEF Placed, Call, Stack
<1>7. Accounts' BY <1>1 DEF Accounts, Resolving, At, In, Call, Stack, Kind
<1> QED BY <1>2, <1>5, <1>6, <1>7

LEMMA RunKeeps == ASSUME IInv, Run PROVE IInv'
<1> USE DEF IInv
<1>1. /\ status = "running" /\ In(<<>>, "level") /\ Len(Stack(<<>>)) = 1 /\ Over(<<>>)
      /\ status' = Verdict(Result(<<>>))
      /\ past' = [past EXCEPT !.finish = (Result(<<>>) = Fin("failed"))]
      /\ UNCHANGED <<def, go, sem, charged, nodes, dead, ctx>>
  BY DEF Run
<1>2. DOMAIN go = {<<>>} BY <1>1, Alone
<1> DEFINE r == go[<<>>].ret
           x == Result(<<>>)
<1>3. r \in Rets /\ x \in Rets /\ (x.is = "fatal" => x = r) /\ (r.is = "fatal" => x = r)
  <2>1. r \in Rets BY <1>2 DEF Shape, Shaped
  <2> QED BY <2>1 DEF Result, Rets, None, Ok, Fatal
<1>4. past'.doomed = past.doomed /\ past'.calls = past.calls /\ (x = Fin("failed") => past'.finish)
      /\ past' \in PastType
  BY <1>1 DEF Typed, PastType
<1>5. \A why : (Fin(why) \in Rets => why \in Whys) /\ Fin(why).is = "fin" /\ Fin(why).why = why
  BY DEF Rets, Fin, Fatal, None, Ok
<1>6. x.is = "fin" => x.why \in Whys /\ x = Fin(x.why) BY <1>3, <1>5 DEF Rets, Fatal, None, Ok
<1>8. Typed' BY <1>1, <1>4, <1>6 DEF Typed, PastType, Verdict, Whys
<1>9. status' # "running" BY <1>1, <1>6 DEF Verdict, Whys
<1>10. Shape' /\ Tree' /\ Placed' /\ Accounts' BY <1>1, <1>4, GoSame
<1>12. Cancelled' BY <1>1 DEF Cancelled, Done
<1>13. Carries(<<>>)' <=> Carries(<<>>)
  <2>1. Carries(<<>>)' <=> Dooms(<<>>, go'[<<>>].stack, go'[<<>>].ret) BY <1>1, FateAfter
  <2> QED BY <1>1, <2>1 DEF Carries, Stack
<1>14. Doomed' /\ Blamed' BY <1>1, <1>4, <1>9, <1>13 DEF Doomed, Blamed
<1>15. Stopped' BY <1>1 DEF Stopped, In, Call, Stack, Over
<1>18. past.doomed => status' \in {"failed", "cancelled"}
  <2>1. SUFFICES ASSUME past.doomed, ctx.run # "cancelled" PROVE x.is = "fatal"
    BY <1>1 DEF Verdict
  <2>2. Carries(<<>>) BY <1>1, <1>2, <2>1 DEF Doomed
  <2> QED BY <1>3, <2>2 DEF Carries, Dooms
<1>19. ASSUME status' = "failed" PROVE past.doomed \/ past'.finish \/ ctx.run = "timeout"
  <2>1. ctx.run # "cancelled" BY <1>1, <1>19 DEF Verdict
  <2>2. CASE x.is = "fatal"
    <3>1. SUFFICES ASSUME ctx.run = "live" PROVE past.doomed BY <2>1 DEF Typed
    <3>2. ~Done(<<>>) BY <3>1, NoGroups DEF Done
    <3>3. ~isCanceled(r) BY <1>2, <3>2 DEF Cancelled, isCanceled
    <3>4. ~Swallowed(<<>>, Stack(<<>>))
      <4>1. IsStack(Stack(<<>>)) /\ GroupsWait(<<>>) /\ Call(<<>>) = Stack(<<>>)[Len(Stack(<<>>))]
        BY <1>2, Waits
      <4>2. ~Lenience(Stack(<<>>)) BY <1>1, <4>1 DEF Lenience, Soft, In
      <4> QED BY <4>1, <4>2, SwallowedIs, NoGroups
    <3>5. Carries(<<>>) BY <1>3, <2>2, <3>3, <3>4 DEF Carries, Dooms
    <3> QED BY <3>1, <3>5 DEF Blamed
  <2>3. CASE x.is # "fatal"
    <3>1. x.is = "fin" /\ x.why = "failed" BY <1>1, <1>19, <2>1, <2>3 DEF Verdict
    <3> QED BY <1>4, <1>6, <3>1
  <2> QED BY <2>2, <2>3
<1>20. StatusIsEarned' BY <1>1, <1>4, <1>18, <1>19 DEF StatusIsEarned
<1> QED BY <1>8, <1>10, <1>12, <1>14, <1>15, <1>20

\* The context only gets worse, and then no goroutine carries less.
LEMMA ContextKeeps ==
  ASSUME IInv, UNCHANGED <<def, go, sem, charged, dead, status, past>>, Typed', ctx'.run # "live",
         ctx'.run # "cancelled" => ctx.run # "cancelled", status = "running"
  PROVE  IInv'
<1> USE DEF IInv
<1>1. \A s : Step(s)' = Step(s) BY DEF Step
<1>2. Shape' /\ Tree' /\ Placed' /\ Accounts' BY GoSame
<1>4. Cancelled' BY DEF Cancelled, Done
<1>5. ASSUME NEW c, Carries(c) PROVE Carries(c)'
  BY <1>1, <1>5 DEF Carries, Dooms, Swallowed, Around, isCanceled, isAbort, Stack
<1>6. Doomed' BY <1>5 DEF Doomed
<1>7. Blamed' BY DEF Blamed
<1>8. Stopped' BY DEF Stopped
<1>11. StatusIsEarned' BY DEF StatusIsEarned
<1> QED BY <1>2, <1>4, <1>6, <1>7, <1>8, <1>11

LEMMA Keeps == ASSUME IInv, [Next]_vars PROVE IInv'
<1> USE DEF IInv
<1>1. CASE \E g \in DOMAIN go : Goes(g)
  <2>1. PICK g \in DOMAIN go : Goes(g) BY <1>1
  <2>2. /\ Shape' /\ Tree' /\ Cancelled' /\ Doomed' /\ Blamed' /\ Placed' /\ Accounts'
        /\ past'.calls \in [Kinds -> Nat] /\ charged' \in [Kinds -> Nat] /\ UNCHANGED <<def, ctx, status>>
    BY <2>1, GoesKeeps
  <2>3. status = "running" BY <2>1, Quiet
  <2>4. past' \in PastType BY <2>1, <2>2, PastTyped
  <2>5. Typed' BY <2>2, <2>4 DEF Typed, PastType
  <2>6. Stopped' /\ StatusIsEarned' BY <2>2, <2>3 DEF Stopped, StatusIsEarned
  <2> QED BY <2>2, <2>5, <2>6
<1>2. CASE Run BY <1>2, RunKeeps
<1>3. CASE Cancel
  <2>1. /\ UNCHANGED <<def, go, sem, charged, dead, status, past>> /\ status = "running"
        /\ ctx' = [run |-> IF ctx.run = "live" THEN "cancelled" ELSE ctx.run, parent |-> TRUE]
    BY <1>3 DEF Cancel
  <2>2. Typed' BY <2>1 DEF Typed
  <2> QED BY <2>1, <2>2, ContextKeeps
<1>4. CASE Timeout
  <2>1. /\ UNCHANGED <<def, go, sem, charged, dead, status, past>> /\ status = "running"
        /\ ctx' = [ctx EXCEPT !.run = "timeout"] /\ ctx.run = "live"
    BY <1>4 DEF Timeout
  <2>2. Typed' /\ ctx'.run = "timeout" BY <2>1 DEF Typed
  <2> QED BY <2>1, <2>2, ContextKeeps
<1>5. CASE UNCHANGED vars
  <2>1. UNCHANGED <<def, go, sem, charged, dead, ctx, status, past>> BY <1>5 DEF vars
  <2>2. Shape' /\ Tree' /\ Placed' /\ Accounts' BY <2>1, GoSame
  <2>3. \A c : Carries(c)' <=> Carries(c)
    <3>1. SUFFICES ASSUME NEW c PROVE Carries(c)' <=> Carries(c) OBVIOUS
    <3>2. Carries(c)' <=> Dooms(c, go'[c].stack, go'[c].ret) BY <2>1, FateAfter
    <3> QED BY <2>1, <3>2 DEF Carries, Stack
  <2>4. Typed' /\ Cancelled' /\ Stopped' /\ StatusIsEarned'
    BY <2>1 DEF Typed, Cancelled, Done, Stopped, In, Call, Stack, Over, StatusIsEarned
  <2>5. Doomed' /\ Blamed' BY <2>1, <2>3 DEF Doomed, Blamed
  <2> QED BY <2>2, <2>4, <2>5
<1> QED BY <1>1, <1>2, <1>3, <1>4, <1>5 DEF Next, Rests
LEMMA Starts == ASSUME Init PROVE IInv
<1> DEFINE top == Definitions[def].top
           l == Level(top, Roots(top))
           st == <<l>>
<1>1. /\ def \in DOMAIN Definitions
      /\ go = [g \in {<<>>} |-> [stack |-> st, ret |-> None]]
      /\ sem = {} /\ charged = [k \in Kinds |-> 0]
      /\ dead = {} /\ ctx = [run |-> "live", parent |-> FALSE] /\ status = "running"
      /\ past = [calls |-> [k \in Kinds |-> 0], doomed |-> FALSE, hit |-> FALSE, finish |-> FALSE]
  BY DEF Init
<1>2. Typed BY <1>1 DEF Typed
<1>3. top \in Seq(Steps)
  <2>1. Definitions[def] \in Range(Definitions) BY <1>1 DEF Range
  <2> QED BY <2>1, EngineAssumption
<1> HIDE DEF top
<1>4. IsCall(l) /\ l.f = "level"
  <2>1. IsCall(l) BY <1>3, RootsIn
  <2> QED BY <2>1 DEF Level
<1> HIDE DEF l
<1>5. st \in Seq({l}) /\ Len(st) = 1 /\ st[1] = l OBVIOUS
<1> HIDE DEF st
<1>6. Frames(st) /\ Last(st) = l
  <2>1. IsStack(st) BY <1>5 DEF IsStack
  <2> QED BY <1>4, <1>5, <2>1 DEF Frames, Last
<1>7. DOMAIN go = {<<>>} /\ Stack(<<>>) = st /\ go[<<>>].ret = None BY <1>1 DEF Stack
<1>8. Shape BY <1>6, <1>7 DEF Shape, Shaped, Rets
<1>9. Tree BY <1>7, NoGroups DEF Tree
<1>10. None # Fatal("cancel") BY DEF None, Fatal
<1>11. Cancelled BY <1>7, <1>10 DEF Cancelled
<1>12. ~Carries(<<>>) BY <1>7, HarmlessNone DEF Carries
<1>13. Doomed /\ Blamed /\ Stopped /\ StatusIsEarned BY <1>1, <1>12 DEF Doomed, Blamed, Stopped, StatusIsEarned
<1>14. \A g \in DOMAIN go : Call(g).f = "level" BY <1>4, <1>6, <1>7 DEF Call
<1>15. IsFiniteSet({}) /\ Cardinality({}) = 0 BY FS_EmptySet
<1>16. Placed BY <1>1, <1>14, <1>15, EngineAssumption DEF Placed
<1>17. Accounts
  <2>1. \A k \in Kinds : Resolving(k) = {} BY <1>14 DEF Resolving, At, In
  <2>2. \A k \in Kinds : charged[k] = 0 /\ past.calls[k] = 0 /\ Budget[k] \in Nat BY <1>1, EngineAssumption
  <2> QED BY <1>15, <2>1, <2>2 DEF Accounts
<1> QED BY <1>2, <1>8, <1>9, <1>11, <1>13, <1>16, <1>17 DEF IInv

\* No more calls are made than were charged, and who makes one has a place.
LEMMA HoldsBudget == ASSUME IInv PROVE BudgetHeld
<1> USE DEF IInv
<1>1. ASSUME NEW k \in Kinds PROVE Budget[k] = 0 \/ past.calls[k] <= Budget[k]
  <2>1. Cardinality(Resolving(k)) \in Nat BY ResolvingIs
  <2>2. past.calls[k] \in Nat /\ charged[k] \in Nat /\ Budget[k] \in Nat BY EngineAssumption DEF Typed
  <2>3. (Budget[k] = 0 \/ charged[k] <= Budget[k]) /\ past.calls[k] + Cardinality(Resolving(k)) <= charged[k]
    BY DEF Accounts
  <2> QED BY <2>1, <2>2, <2>3
<1> DEFINE R == {g \in DOMAIN go : At(g, "run")}
<1>2. R \subseteq sem BY DEF Placed, At, In
<1> HIDE DEF R
<1>3. IsFiniteSet(sem) /\ Cardinality(sem) <= MaxParallelism BY DEF Placed
<1>4. Cardinality(R) <= Cardinality(sem) /\ IsFiniteSet(R) BY <1>2, <1>3, FS_Subset
<1>5. Cardinality(R) \in Nat /\ Cardinality(sem) \in Nat /\ MaxParallelism \in Nat
  BY <1>3, <1>4, FS_CardinalityType, EngineAssumption
<1>6. Cardinality(R) <= MaxParallelism BY <1>3, <1>4, <1>5
<1> QED BY <1>1, <1>6 DEF BudgetHeld, R

\* Whatever the definition, what its predicates and references answer, and the order in
\* which the goroutines of its groups go, a run never makes more calls of a kind than its
\* budget, nor more at a time than it may (chargeModel, chargeAgent, chargeTool, e.sem).
THEOREM BudgetsHold == Spec => []BudgetHeld
<1>1. Spec => []IInv BY Starts, Keeps, PTL DEF Spec
<1>2. IInv => BudgetHeld BY HoldsBudget
<1> QED BY <1>1, <1>2, PTL

\* The status a run records is the one it has earned: an unswallowed failure is never
\* lost between a child and the run, however the cancellations it causes among the
\* siblings race with it, and no run is failed that met none.
THEOREM StatusesAreEarned == Spec => []StatusIsEarned
<1>1. Spec => []IInv BY Starts, Keeps, PTL DEF Spec
<1>2. IInv => StatusIsEarned BY DEF IInv
<1> QED BY <1>1, <1>2, PTL
=============================================================================
