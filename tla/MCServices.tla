------------------------------ MODULE MCServices ------------------------------
(* Small instances of the services. *)
EXTENDS Services, TLC

\* A policy with the network and every secret, one without either, and one without the tool.
SmallPolicies == {[tool |-> TRUE, net |-> TRUE, grants |-> Secrets],
                  [tool |-> TRUE, net |-> FALSE, grants |-> {}],
                  [tool |-> FALSE, net |-> TRUE, grants |-> {}]}
SmallList == <<"lib", "enc", "voice">>

\* Every kind of step under many profiles, and every choice of secrets and agents under a few.
ToolSteps == [type : {"tool"}, tool : {"github", "checkout", "http"}, bin : {"none"}]
             \cup [type : {"tool"}, tool : {"shell"}, bin : {"gh", "sh", "computed", "command"}]
OtherSteps == [type : {"agent_cli"}, adapter : {"codex", "pi"}] \cup [type : {"llm"}]
ToolDefinitions ==
  [mode : {"granular", "unrestricted"}, network : {"unset", "enabled", "disabled"},
   tools : {{}, {"github", "checkout", "http", "shell"}},
   clis : {{}, {"gh"}, {"gh", "git", "curl", "sh"}},
   secrets : {{}}, agents : {{}}, llamacpp : {FALSE}, step : ToolSteps]
OtherDefinitions ==
  [mode : {"granular", "unrestricted"}, network : {"unset", "enabled"},
   tools : {{"github"}}, clis : {{"gh"}}, secrets : {{}, {"token"}, {"token", "TOKEN"}, {"path"}},
   agents : {{"codex"}, {"pi"}}, llamacpp : BOOLEAN,
   step : OtherSteps \cup [type : {"tool"}, tool : {"github"}, bin : {"none"}]]
Ready == [sandbox |-> TRUE, agents |-> TRUE, isolated |-> TRUE, allowed |-> {}, endpoint |-> TRUE]
SmallDefinitions == ToolDefinitions \cup OtherDefinitions
SmallConfigs == {Ready, [Ready EXCEPT !.sandbox = FALSE], [Ready EXCEPT !.agents = FALSE],
                 [Ready EXCEPT !.isolated = FALSE], [Ready EXCEPT !.allowed = {"pi"}],
                 [Ready EXCEPT !.endpoint = FALSE]}

\* A clock with hours of two minutes, days of two hours, weeks of three days and months of two.
SmallRanges == [minute |-> [lo |-> 0, hi |-> 1], hour |-> [lo |-> 0, hi |-> 1],
                dom |-> [lo |-> 1, hi |-> 2], month |-> [lo |-> 1, hi |-> 2], dow |-> [lo |-> 0, hi |-> 3]]
SmallCalendar ==
  [m \in 0 .. 20 |-> [minute |-> m % 2, hour |-> (m \div 2) % 2, dow |-> (m \div 4) % 3,
                     dom |-> 1 + ((m \div 4) % 2), month |-> 1 + ((m \div 8) % 2)]]
On(n) == {[from |-> n, to |-> n, step |-> 1]}
Every(a, b, n) == {[from |-> a, to |-> b, step |-> n]}
SmallTriggers ==
  {[type |-> "manual"]} \cup [type : {"interval"}, every : {1, 3, 5}]
  \cup [type : {"cron"}, minute : {{}, On(1)}, hour : {{}, On(2)}, dom : {{}}, month : {{}, On(2)},
        dow : {{}, Every(2, 3, 1)}]
  \cup [type : {"cron"}, minute : {On(0)}, hour : {On(1)}, dom : {{}, On(2)}, month : {{}, On(1)},
        dow : {{}, Every(0, 3, 3)}]

Symmetry == Permutations(Runs) \cup Permutations(Values) \cup Permutations(Calls)
            \cup Permutations(Secrets) \cup Permutations(Sessions) \cup Permutations(Pulls)
=============================================================================
