--------------------------- MODULE EnablementGates ---------------------------
(****************************************************************************)
(* What an automation may do, decided twice: for the whole definition when  *)
(* it is enabled and when it fires (CheckEligibility in automation/         *)
(* eligibility.go, over the facts of httpapi/handlers_automations.go), and  *)
(* for each step when it runs (the gates of autorun/executor.go and of      *)
(* sandbox/agentrun.go).  An automation here has one step.  Left out: what  *)
(* no profile can forbid, an argument that is malformed, internal or secret.*)
(****************************************************************************)
EXTENDS FiniteSets

CONSTANTS
  Definitions,  \* definitions of automations
  Configs       \* configurations of the server

VARIABLES
  auto,    \* the definition, and whether it is enabled
  config,  \* the configuration of the server that runs
  vault,   \* the names of the secrets that the owner keeps
  authed,  \* the agents that the owner has authenticated
  run      \* the run
vars == <<auto, config, vault, authed, run>>

Adapters == {"codex", "pi"}
Refs == {"token", "TOKEN", "path"}
Tools == {"github", "checkout", "http", "shell"}
Bins == {"gh", "git", "curl", "sh"}
\* A step of a tool names the program: of the shell it may be one that a reference gives
\* ("computed"), or the command string ("command"), which is run by /bin/sh.
ToolCLIs == [github |-> {"gh"}, checkout |-> {"sh", "gh", "git"}, http |-> {"curl"}, shell |-> {}]
IsShellInterpreter(bin) == bin = "sh"
Granular(d) == d.mode # "unrestricted"
NetworkAllowed(d) == IF Granular(d) THEN d.network = "enabled" ELSE d.network # "disabled"

\* EnvVarName, and the names that the host would interpret.
EnvVarName(ref) == IF ref = "path" THEN "PATH" ELSE "TOKEN"
IsDangerousEnvName(env) == env = "PATH"
Injectable(refs, have) ==
  /\ refs \subseteq have
  /\ \A r \in refs : ~IsDangerousEnvName(EnvVarName(r))
  /\ \A r, s \in refs : EnvVarName(r) = EnvVarName(s) => r = s

\* agentRunnable, of a profile; config.allowed is empty when every provider is.
ProviderAllowed(c, a) == c.allowed = {} \/ a \in c.allowed
Runnable(c, a) == c.agents /\ c.sandbox /\ c.isolated /\ (a = "pi" => c.endpoint)
-----------------------------------------------------------------------------
\* CheckEligibility, its part about the step and then the whole.
BrokenExecIssue(d, s) == s.bin \notin d.clis
ExecIssue(d, s) ==
  \/ s.bin \in {"command", "computed"} \/ IsShellInterpreter(s.bin)
  \/ s.bin \notin d.clis
ToolEligible(d, s) ==
  /\ NetworkAllowed(d)
  /\ Granular(d) => /\ s.tool \in d.tools /\ ToolCLIs[s.tool] \subseteq d.clis
                    /\ s.tool = "shell" => ~ExecIssue(d, s)
AgentEligible(d, s, c, auths) ==
  /\ NetworkAllowed(d) /\ ProviderAllowed(c, s.adapter) /\ s.adapter \in d.agents
  /\ s.adapter \in auths /\ Runnable(c, s.adapter) /\ c.agents
  /\ s.adapter = "pi" => c.endpoint /\ d.llamacpp
CheckEligibility(d, c, have, auths) ==
  LET s == d.step IN
  /\ c.sandbox /\ c.isolated /\ Injectable(d.secrets, have)
  /\ CASE s.type = "tool" -> ToolEligible(d, s)
       [] s.type = "agent_cli" -> AgentEligible(d, s, c, auths)
       [] s.type = "llm" -> NetworkAllowed(d)

\* enforceProfile, after the gate of the command string; bin is what the reference gave.
EnforceProfile(d, s, bin) ==
  /\ NetworkAllowed(d)
  /\ Granular(d) =>
       /\ s.tool \in d.tools
       /\ s.tool # "shell" => ToolCLIs[s.tool] \subseteq d.clis
       /\ s.tool = "shell" => bin # "command" /\ ~IsShellInterpreter(bin) /\ bin \in d.clis
\* Only a tool is given the secrets.
Gates(d, s, bin, c, have, auths) ==
  CASE s.type = "tool" -> EnforceProfile(d, s, bin) /\ c.isolated /\ Injectable(d.secrets, have)
    [] s.type = "agent_cli" -> /\ c.agents /\ NetworkAllowed(d) /\ ProviderAllowed(c, s.adapter)
                               /\ c.sandbox /\ c.isolated /\ s.adapter \in auths
                               /\ s.adapter = "pi" => c.endpoint
    [] s.type = "llm" -> NetworkAllowed(d) /\ c.isolated
-----------------------------------------------------------------------------
NoRun == [at |-> "none", lawful |-> FALSE]
\* A vault that cannot be listed counts as empty; profiles that cannot be are an error.
Eligible == \E have \in {vault, {}} : CheckEligibility(auto.def, config, have, authed)
Enable ==
  /\ ~auto.enabled /\ Eligible
  /\ auto' = [auto EXCEPT !.enabled = TRUE]
  /\ UNCHANGED <<config, vault, authed, run>>
\* recheckEligibility, before a run that the clock or the user has started.
Fire ==
  /\ auto.enabled /\ run = NoRun /\ Eligible
  /\ run' = [NoRun EXCEPT !.at = "step"]
  /\ UNCHANGED <<auto, config, vault, authed>>
\* Ghost: lawful says what CheckEligibility, asked of the step now, would answer.
Step(bin) ==
  LET d == auto.def
      s == d.step
      have == IF s.type = "tool" THEN vault ELSE Refs IN
  /\ run.at = "step"
  /\ s.type = "tool" => bin = s.bin \/ (s.bin = "computed" /\ bin \in Bins)
  /\ run' = [at |-> IF Gates(d, s, bin, config, vault, authed) THEN "ran" ELSE "refused",
             lawful |-> CheckEligibility(d, config, have, authed)]
  /\ UNCHANGED <<auto, config, vault, authed>>
Finish == run.at \in {"ran", "refused"} /\ run' = NoRun /\ UNCHANGED <<auto, config, vault, authed>>

\* The owner adds and deletes secrets, and authenticates and revokes agents, at any time.
Facts ==
  /\ \/ UNCHANGED authed /\ \E r \in Refs : vault' \in {vault \cup {r}, vault \ {r}}
     \/ UNCHANGED vault /\ \E a \in Adapters : authed' \in {authed \cup {a}, authed \ {a}}
  /\ UNCHANGED <<auto, config, run>>
\* The server is started again, with another configuration; the row stays as it was.
Restart(c) == config' = c /\ run' = NoRun /\ UNCHANGED <<auto, vault, authed>>

Init ==
  /\ auto \in [def : Definitions, enabled : {FALSE}]
  /\ config \in Configs /\ vault = {} /\ authed = {} /\ run = NoRun
Next ==
  \/ Enable \/ Fire \/ Finish \/ Facts
  \/ \E bin \in Bins \cup {"command", "none"} : Step(bin)
  \/ \E c \in Configs : Restart(c)
Spec == Init /\ [][Next]_vars
-----------------------------------------------------------------------------
\* The gates of a step refuse what CheckEligibility would now refuse, and nothing else:
\* they stop what has changed since the run was checked, and let every step through that
\* has not (eligibility.go:52-56, tooldefs.go:40-45).
GatesAgree == run.at \in {"ran", "refused"} => (run.at = "ran" <=> run.lawful)
-----------------------------------------------------------------------------
(* The assumption on the constants and the inductive invariant. *)

\* What a definition may say.
Steps == [type : {"tool"}, tool : Tools \ {"shell"}, bin : {"none"}]
         \cup [type : {"tool"}, tool : {"shell"}, bin : Bins \cup {"computed", "command"}]
         \cup [type : {"agent_cli"}, adapter : Adapters] \cup [type : {"llm"}]
Lawful == Definitions \subseteq
  [mode : {"granular", "unrestricted"}, network : {"unset", "enabled", "disabled"},
   tools : SUBSET Tools, clis : SUBSET Bins, secrets : SUBSET Refs, agents : SUBSET Adapters,
   llamacpp : BOOLEAN, step : Steps]

\* A run that is at its step was eligible, of the same definition and configuration, under the
\* secrets and the agents of then.
Checked == run.at = "step" =>
  \E have, auths : CheckEligibility(auto.def, config, have, auths)
TypeOK == /\ auto \in [def : Definitions, enabled : BOOLEAN]
          /\ run \in [at : {"none", "step", "ran", "refused"}, lawful : BOOLEAN]
IInv == TypeOK /\ Checked /\ GatesAgree
=============================================================================
