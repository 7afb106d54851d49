---------------------------- MODULE SandboxTools ----------------------------
(****************************************************************************)
(* What one user's tools run in the sandbox, while the user edits the       *)
(* policy and the secrets those runs depend on: the calls of the model      *)
(* (Router.Handle in internal/sandbox/tools.go, with the approval cards of  *)
(* internal/httpapi/toolscope.go), the tool and llm steps of an automation  *)
(* (internal/autorun/executor.go), and the vault they read.                 *)
(*                                                                          *)
(* A secret is an id and its value.  All of them have one name, so the      *)
(* vault holds one at a time and a new value is a new secret.  Text is the  *)
(* set of secrets it quotes; redaction is set difference.                   *)
(****************************************************************************)
EXTENDS Naturals, FiniteSets

CONSTANTS
  Calls,       \* calls and steps
  Secrets,     \* ids of secrets
  Policies,    \* the policies that the user may save
  Quota,       \* QuotaBytes of the workspace; a run writes 0 or 1
  MaxEdits,    \* bound: policies saved, secrets created and deleted
  MaxFaults    \* bound: reads, writes and commands that fail

VARIABLES
  config,  \* the mode of approval, and whether the network is isolated
  policy,  \* the Sandbox Environment of the user
  meta,    \* the secrets that have a row
  blob,    \* the secrets that have an encrypted file
  edit,    \* the request about a secret that is under way
  used,    \* bytes in the workspace
  lock,    \* the call that holds the lock of the user
  call,    \* the calls
  budget   \* what is left of the bounds
vars == <<config, policy, meta, blob, edit, used, lock, call, budget>>

NoHolder == "nobody"
NoEdit == [what |-> "none"]
NoPolicy == [tool |-> FALSE, net |-> FALSE, grants |-> {}]
\* Ghosts: kept is the secrets in the vault ever since the call was decided or had its
\* turn, inforce the policies since it has the lock, quoted the secrets among those that
\* it was to hide which it has shown.
Idle == [at |-> "idle", kind |-> "none", text |-> {}, net |-> FALSE, env |-> NoPolicy,
         base |-> {}, red |-> {}, inj |-> {}, said |-> "none", row |-> "none",
         quoted |-> {}, kept |-> {}, inforce |-> {}]

At(c, at) == call[c].at = at
Move(c, at) == [call[c] EXCEPT !.at = at]
Ended(r) == [Idle EXCEPT !.at = "done", !.row = r.row, !.quoted = r.quoted]
Put(r, c) == call' = [call EXCEPT ![c] = IF r.at = "done" THEN Ended(r) ELSE r]
Goto(c, at) == Put(Move(c, at), c)
Fault == budget.fault > 0 /\ budget' = [budget EXCEPT !.fault = @ - 1]
Fine == UNCHANGED budget

\* AllValuesRedactor: a row without a blob is an error, not a deleted secret.
Vault == meta \cap blob
AllValues == meta
CanRead == meta \subseteq blob
BrokenMerged(base, cur) == base
Merged(base, cur) == base \cup cur
Hidden(r) == r.base \cup r.inj \cup r.kept
Redacted(r, text) == text \ r.red
Shows(r, text) == [r EXCEPT !.quoted = @ \cup (text \cap Hidden(r))]
-----------------------------------------------------------------------------
(* The user: the policy and the secrets.                                     *)

\* The secrets that a policy grants are among those it could be shown.
Issued(p, ids) == [p EXCEPT !.grants = @ \cap ids]
SavePolicy ==
  /\ budget.edit > 0 /\ budget' = [budget EXCEPT !.edit = @ - 1]
  /\ \E p \in Policies : policy' = Issued(p, budget.old)
  /\ call' = [c \in Calls |-> [call[c] EXCEPT !.inforce = IF lock = c THEN @ \cup {policy'} ELSE @]]
  /\ UNCHANGED <<config, meta, blob, edit, used, lock>>

\* Vault.Put: the row reserves the name, then the blob is written; a failure takes the
\* row back, if it can.
CreateSecret(s) ==
  /\ edit = NoEdit /\ meta = {} /\ s \notin budget.old
  /\ budget.edit > 0 /\ budget' = [budget EXCEPT !.edit = @ - 1, !.old = @ \cup {s}]
  /\ meta' = {s} /\ edit' = [what |-> "put", s |-> s]
  /\ UNCHANGED <<config, policy, blob, used, lock, call>>
writeBlob ==
  /\ edit.what = "put" /\ edit' = NoEdit
  /\ \/ Fine /\ blob' = blob \cup {edit.s} /\ UNCHANGED meta
     \/ Fault /\ meta' \in {meta \ {edit.s}, meta} /\ UNCHANGED blob
  /\ UNCHANGED <<config, policy, used, lock, call>>

\* Vault.Delete: the blob first, then the row; either may fail, and may be tried again.
DeleteSecret(s) ==
  /\ edit = NoEdit /\ s \in meta
  /\ budget.edit > 0 /\ budget' = [budget EXCEPT !.edit = @ - 1]
  /\ blob' = blob \ {s} /\ edit' = [what |-> "delete", s |-> s]
  /\ call' = [c \in Calls |-> [call[c] EXCEPT !.kept = @ \ {s}]]
  /\ UNCHANGED <<config, policy, meta, used, lock>>
DeleteSecretMeta ==
  /\ edit.what = "delete" /\ edit' = NoEdit
  /\ (Fine /\ meta' = meta \ {edit.s}) \/ (Fault /\ UNCHANGED meta)
  /\ UNCHANGED <<config, policy, blob, used, lock, call>>
-----------------------------------------------------------------------------
(* Calls of the model: Router.Handle.                                        *)

\* The policy is loaded and the arguments are parsed: a target on the network, or text.
Arguments == {<<{}, TRUE>>} \cup {<<text, FALSE>> : text \in {{}} \cup {{s} : s \in Secrets}}
Handle(c) ==
  /\ At(c, "idle")
  /\ \/ Fault /\ Goto(c, "done")
     \/ Fine /\ ~policy.tool /\ Put([Move(c, "done") EXCEPT !.row = "blocked"], c)
     \/ /\ Fine /\ policy.tool
        /\ \E a \in Arguments :
             Put([Move(c, "request") EXCEPT !.kind = "chat", !.text = a[1], !.net = a[2],
                                            !.env = policy], c)
  /\ UNCHANGED <<config, policy, meta, blob, edit, used, lock>>

\* deniedNetwork, or another refusal that leaves a row.
Denied(c) == call[c].net /\ ~call[c].env.net
Blocked(r) == Shows([r EXCEPT !.row = "blocked"], Redacted(r, r.text))

\* The summary is redacted and shown on the card, which the user may now decide.
Request(c) ==
  LET r == [Move(c, "card") EXCEPT !.base = AllValues, !.red = AllValues] IN
  /\ At(c, "request")
  /\ \/ Fine /\ ~CanRead /\ Goto(c, "done")
     \/ Fine /\ CanRead /\ Denied(c) /\ Put(Blocked([r EXCEPT !.at = "done"]), c)
     \/ Fault /\ CanRead /\ ~Denied(c) /\ Goto(c, "done")
     \/ /\ Fine /\ CanRead /\ ~Denied(c)
        /\ Put(Shows([r EXCEPT !.at = IF config.approval = "always" THEN "card" ELSE "lock"],
                     Redacted(r, r.text)), c)
  /\ UNCHANGED <<config, policy, meta, blob, edit, used, lock>>

\* The user decides once.  Approve takes the decision, the timeout, or the end of the
\* turn, whichever it sees first of those that are there.
Decide(c) ==
  /\ At(c, "card") /\ call[c].said = "none" /\ Fine
  /\ \E said \in {"yes", "no"} : Put([Move(c, "card") EXCEPT !.said = said], c)
  /\ UNCHANGED <<config, policy, meta, blob, edit, used, lock>>
Granted(c) == call[c].said = "yes"
Approve(c) ==
  /\ At(c, "card") /\ Fine
  /\ \/ Granted(c) /\ Goto(c, "lock")
     \/ call[c].said # "yes" /\ Put([Move(c, "deny") EXCEPT !.kept = Vault], c)
     \/ Goto(c, "done")
  /\ UNCHANGED <<config, policy, meta, blob, edit, used, lock>>
Timeout(c) ==
  /\ At(c, "card") /\ Fine /\ Put([Move(c, "deny") EXCEPT !.kept = Vault], c)
  /\ UNCHANGED <<config, policy, meta, blob, edit, used, lock>>

\* The row of a denied call: redacted with what the vault holds by now, or generic.
AuditDenied(c) ==
  LET r == [Move(c, "done") EXCEPT !.row = "denied"] IN
  /\ At(c, "deny") /\ Fine
  /\ Put(IF CanRead THEN Shows(r, Redacted([r EXCEPT !.red = Merged(r.base, AllValues)], r.text)) ELSE r, c)
  /\ UNCHANGED <<config, policy, meta, blob, edit, used, lock>>

\* One run of the user at a time.
Free == lock = NoHolder
lockUser(c) ==
  /\ At(c, "lock") /\ Free /\ lock' = c /\ Fine
  /\ Put([Move(c, "reload") EXCEPT !.kept = Vault, !.inforce = {policy}], c)
  /\ UNCHANGED <<config, policy, meta, blob, edit, used>>
Leave(r, c) == Put([r EXCEPT !.at = "done"], c) /\ lock' = IF lock = c THEN NoHolder ELSE lock

\* What may have changed while the call waited is read again.
BrokenEnvironment(c) == call[c].env
Environment(c) == policy
Reload(c) ==
  /\ At(c, "reload")
  /\ \/ Fine /\ Put([Move(c, "recheck") EXCEPT !.env = Environment(c)], c) /\ UNCHANGED lock
     \/ Fault /\ Leave(Move(c, "done"), c)
  /\ UNCHANGED <<config, policy, meta, blob, edit, used>>
Recheck(c) ==
  LET r == [Move(c, "inject") EXCEPT !.red = Merged(call[c].base, AllValues)] IN
  /\ At(c, "recheck") /\ Fine
  /\ IF ~CanRead THEN Leave(Move(c, "done"), c)
     ELSE IF ~r.env.tool \/ Denied(c) \/ r.text \cap r.red # {} THEN Leave(Blocked(r), c)
     ELSE Put(r, c) /\ UNCHANGED lock
  /\ UNCHANGED <<config, policy, meta, blob, edit, used>>

\* Materialize: a grant of a deleted secret is skipped; nothing is injected into a run
\* whose network is open.
Materialize(c) ==
  LET ids == call[c].env.grants \cap meta IN
  /\ At(c, "inject") /\ Fine
  /\ IF ids \subseteq blob
     THEN /\ Put([Move(c, "audit") EXCEPT !.inj = IF config.isolated THEN ids ELSE {}], c)
          /\ UNCHANGED lock
     ELSE Leave(Move(c, "done"), c)
  /\ UNCHANGED <<config, policy, meta, blob, edit, used>>

\* The quota, then the pending row, then the command.
Launch(r) == Shows([r EXCEPT !.at = "run", !.row = "pending"], r.text)
Preflight(c) ==
  /\ At(c, "audit")
  /\ \/ Fine /\ used > Quota /\ Leave(Move(c, "done"), c)
     \/ Fault /\ used <= Quota /\ Leave(Move(c, "done"), c)
     \/ Fine /\ used <= Quota /\ Put(Launch(Move(c, "run")), c) /\ UNCHANGED lock
  /\ UNCHANGED <<config, policy, meta, blob, edit, used>>

\* The command may print any value it finds in the workspace; its row is finalized, or
\* stays pending.
Printed(r) == Shows(r, Redacted(r, Secrets))
Finish(c) ==
  /\ At(c, "run") /\ call[c].kind = "chat" /\ used' \in {used, used + 1}
  /\ \/ Fine /\ Leave(Printed([Move(c, "done") EXCEPT !.row = "final"]), c)
     \/ Fault /\ Leave(Printed(Move(c, "done")), c)
  /\ UNCHANGED <<config, policy, meta, blob, edit>>
-----------------------------------------------------------------------------
(* Steps of an automation: Tool and LLM of runExecutor.                      *)

\* The gates of the profile, which a definition fixes, are passed or end the step.
Step(c) ==
  /\ At(c, "idle") /\ Fine
  /\ \/ Goto(c, "done")
     \/ \E a \in Arguments, kind \in {"tool", "llm"} :
          Put([Move(c, "redactor") EXCEPT !.kind = kind, !.text = a[1], !.kept = Vault], c)
  /\ UNCHANGED <<config, policy, meta, blob, edit, used, lock>>
StepRedactor(c) ==
  /\ At(c, "redactor") /\ Fine
  /\ IF CanRead THEN Put([Move(c, call[c].kind) EXCEPT !.red = AllValues], c) ELSE Goto(c, "done")
  /\ UNCHANGED <<config, policy, meta, blob, edit, used, lock>>

\* secretGrants maps the one name to an id, if the step declares it and the network is
\* isolated; a secret that has gone when it is materialized fails the step.
secretGrants(c) ==
  /\ At(c, "tool") /\ Fine
  /\ \/ Goto(c, "begin")
     \/ /\ config.isolated /\ meta # {}
        /\ Put([Move(c, "values") EXCEPT !.env.grants = meta], c)
     \/ (~config.isolated \/ meta = {}) /\ Goto(c, "done")
  /\ UNCHANGED <<config, policy, meta, blob, edit, used, lock>>
Fold(r) == r.red \cup r.inj
injectableSecrets(c) ==
  LET r == [Move(c, "begin") EXCEPT !.inj = call[c].env.grants] IN
  /\ At(c, "values") /\ Fine
  /\ IF r.inj \subseteq Vault THEN Put([r EXCEPT !.red = Fold(r)], c) ELSE Goto(c, "done")
  /\ UNCHANGED <<config, policy, meta, blob, edit, used, lock>>

\* No secret on a command line, in a body or in a prompt; the row comes first.
beginToolAudit(c) ==
  /\ At(c, "begin")
  /\ \/ Fine /\ call[c].text \cap call[c].red # {} /\ Goto(c, "done")
     \/ Fault /\ call[c].text \cap call[c].red = {} /\ Goto(c, "done")
     \/ Fine /\ call[c].text \cap call[c].red = {} /\ Put(Launch(Move(c, "run")), c)
  /\ UNCHANGED <<config, policy, meta, blob, edit, used, lock>>
finalizeToolAudit(c) ==
  /\ At(c, "run") /\ call[c].kind = "tool"
  /\ \/ Fine /\ Put(Printed([Move(c, "done") EXCEPT !.row = "final"]), c)
     \/ Fault /\ Put(Printed(Move(c, "done")), c)
  /\ UNCHANGED <<config, policy, meta, blob, edit, used, lock>>
LLM(c) ==
  /\ At(c, "llm") /\ Fine
  /\ IF config.isolated /\ call[c].text \cap call[c].red = {}
     THEN Put(Shows(Move(c, "done"), call[c].text), c) ELSE Goto(c, "done")
  /\ UNCHANGED <<config, policy, meta, blob, edit, used, lock>>
-----------------------------------------------------------------------------
Init ==
  /\ config \in [approval : {"always", "auto"}, isolated : BOOLEAN]
  /\ meta \in {{}} \cup {{s} : s \in Secrets} /\ blob = meta
  /\ policy \in {Issued(p, meta) : p \in Policies}
  /\ edit = NoEdit /\ used = 0 /\ lock = NoHolder /\ call = [c \in Calls |-> Idle]
  /\ budget = [edit |-> MaxEdits, fault |-> MaxFaults, old |-> meta]
Router(c) == \/ Handle(c) \/ Request(c) \/ Decide(c) \/ Approve(c) \/ Timeout(c)
             \/ AuditDenied(c) \/ lockUser(c) \/ Reload(c) \/ Recheck(c) \/ Materialize(c)
             \/ Preflight(c) \/ Finish(c)
Executor(c) == \/ Step(c) \/ StepRedactor(c) \/ secretGrants(c) \/ injectableSecrets(c)
               \/ beginToolAudit(c) \/ finalizeToolAudit(c) \/ LLM(c)
User == \/ SavePolicy \/ writeBlob \/ DeleteSecretMeta
        \/ \E s \in Secrets : CreateSecret(s) \/ DeleteSecret(s)
Next == User \/ \E c \in Calls : Router(c) \/ Executor(c)
Spec == Init /\ [][Next]_vars
-----------------------------------------------------------------------------
\* A command of the model runs alone, under a policy that was in force after its turn had
\* come: with that policy's tool, target and grants, within the quota, with a row that
\* tells of it, and, where calls are approved, only after its owner said yes.
RunsAsPermitted == \A c \in Calls : At(c, "run") /\ call[c].kind = "chat" =>
  /\ lock = c /\ used <= Quota /\ call[c].row = "pending"
  /\ config.approval = "always" => call[c].said = "yes"
  /\ call[c].inj # {} => config.isolated
  /\ \E p \in call[c].inforce : p.tool /\ (call[c].net => p.net) /\ call[c].inj \subseteq p.grants

\* Nothing that a call shows on a card, in a row, on a command line, in a prompt or in its
\* output quotes a secret it was given, one that the vault held when the call was shown to
\* its user, or one that it has held since the call was decided or had its turn.
NothingQuoted == \A c \in Calls : call[c].quoted = {}
-----------------------------------------------------------------------------
(* The assumption on the constants and the inductive invariant. *)

PolicyType == [tool : BOOLEAN, net : BOOLEAN, grants : SUBSET Secrets]
Lawful == Policies \subseteq PolicyType /\ NoHolder \notin Calls
          /\ MaxEdits \in Nat /\ MaxFaults \in Nat
Ats == {"idle", "request", "card", "deny", "lock", "reload", "recheck", "inject", "audit", "run", "done",
        "redactor", "tool", "values", "begin", "llm"}
CallType == [at : Ats, kind : {"none", "chat", "tool", "llm"}, text : SUBSET Secrets, net : BOOLEAN,
             env : PolicyType, base : SUBSET Secrets, red : SUBSET Secrets, inj : SUBSET Secrets,
             said : {"none", "yes", "no"}, row : {"none", "blocked", "denied", "pending", "final"},
             quoted : SUBSET Secrets, kept : SUBSET Secrets, inforce : SUBSET PolicyType]
TypeOK ==
  /\ config \in [approval : {"always", "auto"}, isolated : BOOLEAN]
  /\ policy \in PolicyType /\ meta \in SUBSET Secrets /\ blob \in SUBSET Secrets
  /\ budget \in [edit : Nat, fault : Nat, old : SUBSET Secrets]
  /\ lock \in Calls \cup {NoHolder} /\ call \in [Calls -> CallType]

\* An id is given once, so what was granted before it was given does not grant it; what is
\* being written, or was just deleted, is not in the vault, and nobody counts on it.
VaultInv ==
  /\ meta \subseteq budget.old /\ blob \subseteq budget.old /\ policy.grants \subseteq budget.old
  /\ edit # NoEdit =>
       /\ edit.what \in {"put", "delete"} /\ edit.s \in budget.old \ blob
       /\ \A c \in Calls : edit.s \notin call[c].kept

\* The call has had its turn, and has not left.
HasTurn(r) == r.at \in {"reload", "recheck", "inject", "audit"} \/ (r.at = "run" /\ r.kind = "chat")
Admitted(r) == r.at \in {"inject", "audit"} \/ (r.at = "run" /\ r.kind = "chat")
\* What the call c is permitted, when lk has the lock and us is used.
Permitted(r, c, lk, us) ==
  /\ HasTurn(r) => lk = c
  /\ HasTurn(r) \/ r.at = "lock" => (config.approval = "always" => r.said = "yes")
  /\ r.at = "reload" => policy \in r.inforce
  /\ r.at = "recheck" \/ Admitted(r) => r.env \in r.inforce
  /\ Admitted(r) => r.env.tool /\ (r.net => r.env.net)
  /\ Admitted(r) /\ r.at # "inject" => r.inj \subseteq r.env.grants /\ (r.inj # {} => config.isolated)
  /\ Admitted(r) /\ r.at = "run" => r.row = "pending" /\ us <= Quota
  /\ r.at \in {"redactor", "tool", "values", "begin", "llm"} => r.kind \in {"tool", "llm"}
\* What it hides, among the secrets that there have been.
Hides(r, old) ==
  /\ r.quoted = {} /\ r.kept \subseteq meta
  /\ r.at \in {"idle", "request"} => r.kept = {}
  /\ r.at \in {"idle", "request", "card", "deny", "lock", "reload", "recheck", "redactor"} => r.inj = {}
  /\ r.at \in {"idle", "redactor"} => r.base = {}
  /\ r.at \in {"inject", "audit", "run", "tool", "values", "begin", "llm"} => Hidden(r) \subseteq r.red
  /\ r.at \in {"inject", "audit"} => r.text \cap r.red = {}
  /\ r.at \in {"recheck", "inject"} => r.env.grants \subseteq old
  /\ r.at = "inject" => r.env.grants \cap meta \subseteq r.red
CallInv == \A c \in Calls : Permitted(call[c], c, lock, used) /\ Hides(call[c], budget.old)
IInv == TypeOK /\ VaultInv /\ CallInv
=============================================================================
