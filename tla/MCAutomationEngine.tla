------------------------ MODULE MCAutomationEngine ------------------------
(* Small definitions for AutomationEngine. *)
EXTENDS AutomationEngine, TLC

No == [type |-> "finish", kids |-> <<>>, then |-> <<>>, else |-> <<>>, cont |-> FALSE]
Of(type, kids, cont) == [No EXCEPT !.type = type, !.kids = kids, !.cont = cont]
Cond(then, else, cont) == [No EXCEPT !.type = "condition", !.then = then, !.else = else, !.cont = cont]

\* A loop that swallows failures over a group that does not; a condition of the group
\* calls tools or finishes the run; an agent afterwards.
LoopOfGroups ==
  [top |-> <<"loop", "last">>,
   step |-> [loop |-> Of("for_each", <<"group">>, TRUE),
             group |-> Of("parallel", <<"if", "tool", "note", "finish", "llm">>, FALSE),
             if |-> Cond(<<"tool", "note">>, <<"finish">>, TRUE),
             tool |-> Of("tool", <<>>, FALSE), note |-> Of("tool", <<>>, TRUE), finish |-> No,
             llm |-> Of("llm", <<>>, FALSE), last |-> Of("agent_cli", <<>>, TRUE)]]
\* A group that swallows failures, with a group that does not as one of its children,
\* and nothing after it to notice that the context is dead.
GroupOfGroups ==
  [top |-> <<"loop">>,
   step |-> [LoopOfGroups.step EXCEPT
             !["loop"] = Of("parallel", <<"group", "if", "finish">>, TRUE),
             !["group"] = Of("parallel", <<"tool", "llm">>, FALSE),
             !["if"] = Cond(<<"finish">>, <<"if">>, FALSE)]]
SmallDefinitions == [loop |-> LoopOfGroups, group |-> GroupOfGroups]
SmallBudget == [tool |-> 2, llm |-> 1, agent_cli |-> 0]
SmallSteps == DOMAIN LoopOfGroups.step
=============================================================================
