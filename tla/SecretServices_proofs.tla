-------------------------- MODULE SecretServices_proofs ------------------------
(* Theorems about the two services that handle secrets, the tools that run in a *)
(* sandbox and the credentials of the coding agents, for every value of their   *)
(* constants.  Each keeps the invariant IInv of its module.                     *)
EXTENDS Services, TLAPS

-----------------------------------------------------------------------------
(* SandboxTools: nothing is quoted, and the model's commands run as permitted. *)

Old == budget.old
\* The record r may become that of call c.
Suits(r, c, lk, us) ==
  /\ r \in Tools!CallType
  /\ \/ r.at = "done" /\ r.quoted = {}
     \/ Tools!Permitted(r, c, lk, us) /\ Tools!Hides(r, Old) /\ r.kept \subseteq calls[c].kept \cup files

\* What the invariant says of one call.
LEMMA ToolsOfCall ==
  ASSUME Tools!IInv, NEW c \in Calls
  PROVE  /\ calls[c] \in Tools!CallType /\ Tools!Permitted(calls[c], c, lock, used) /\ Tools!Hides(calls[c], Old)
         /\ policy \in Tools!PolicyType /\ meta \in SUBSET Secrets /\ files \in SUBSET Secrets
         /\ calls \in [Calls -> Tools!CallType] /\ Old \in SUBSET Secrets
         /\ meta \subseteq Old /\ files \subseteq Old /\ policy.grants \subseteq Old
  BY DEF Tools!IInv, Tools!TypeOK, Tools!CallInv, Tools!VaultInv, Old

\* A call that has ended.
LEMMA ToolsEnded ==
  ASSUME NEW r \in Tools!CallType, r.quoted = {}, NEW c, NEW lk, NEW us
  PROVE  /\ Tools!Ended(r) \in Tools!CallType /\ Tools!Ended(r).kept = {}
         /\ Tools!Permitted(Tools!Ended(r), c, lk, us) /\ Tools!Hides(Tools!Ended(r), Old)
<1> DEFINE e == Tools!Ended(r)
<1>1. e = [Tools!Idle EXCEPT !.at = "done", !.row = r.row, !.quoted = {}]
  BY DEF Tools!Ended
<1>2. r.row \in {"none", "blocked", "denied", "pending", "final"}
  BY DEF Tools!CallType
<1>3. e = [at |-> "done", kind |-> "none", text |-> {}, net |-> FALSE, env |-> Tools!NoPolicy,
           base |-> {}, red |-> {}, inj |-> {}, said |-> "none", row |-> r.row, quoted |-> {}, kept |-> {}, inforce |-> {}]
  BY <1>1 DEF Tools!Idle
<1>4. e.at = "done" /\ e.quoted = {} /\ e.kept = {}
  BY <1>3
<1>5. Tools!NoPolicy \in Tools!PolicyType /\ "done" \in Tools!Ats
  BY DEF Tools!NoPolicy, Tools!PolicyType, Tools!Ats
<1>6. e \in Tools!CallType
  BY <1>2, <1>3, <1>5 DEF Tools!CallType
<1> HIDE DEF e
<1>7. Tools!Permitted(e, c, lk, us) /\ Tools!Hides(e, Old)
  BY <1>4 DEF Tools!Permitted, Tools!Hides, Tools!HasTurn, Tools!Admitted
<1> QED BY <1>4, <1>6, <1>7 DEF e

\* One call changes, and the vault and the policy do not.
LEMMA ToolsPutInv ==
  ASSUME Tools!Lawful, Tools!IInv, NEW c \in Calls, NEW r, Tools!Put(r, c), Tools!Fine \/ Tools!Fault,
         UNCHANGED <<config, policy, meta, files, edit>>, lock' \in Calls \cup {Tools!NoHolder},
         Suits(r, c, lock', used'),
         \A x \in Calls \ {c} : Tools!Permitted(calls[x], x, lock', used')
  PROVE  Tools!IInv'
<1>1. PICK z \in Tools!CallType :
        /\ calls' = [calls EXCEPT ![c] = z] /\ z.kept \subseteq calls[c].kept \cup files
        /\ Tools!Permitted(z, c, lock', used') /\ Tools!Hides(z, Old)
  <2>1. CASE r.at = "done"
    <3>1. calls' = [calls EXCEPT ![c] = Tools!Ended(r)]
      BY <2>1 DEF Tools!Put
    <3>2. r \in Tools!CallType /\ r.quoted = {}
      BY DEF Suits, Tools!Hides
    <3> QED BY <3>1, <3>2, ToolsEnded
  <2>2. CASE r.at # "done"
    BY <2>2 DEF Tools!Put, Suits
  <2> QED BY <2>1, <2>2
<1>2. /\ budget' \in [edit : Nat, fault : Nat, old : SUBSET Secrets] /\ budget'.old = budget.old
  <2>1. budget \in [edit : Nat, fault : Nat, old : SUBSET Secrets]
    BY DEF Tools!IInv, Tools!TypeOK
  <2>2. CASE Tools!Fault
    <3>1. budget' = [budget EXCEPT !.fault = budget.fault - 1] /\ budget.fault - 1 \in Nat
      BY <2>1, <2>2 DEF Tools!Fault
    <3> QED BY <2>1, <3>1
  <2> QED BY <2>1, <2>2 DEF Tools!Fine
<1>3. calls \in [Calls -> Tools!CallType]
  BY DEF Tools!IInv, Tools!TypeOK
<1>4. calls'[c] = z /\ \A x \in Calls \ {c} : calls'[x] = calls[x]
  BY <1>1, <1>3
<1>5. Tools!TypeOK'
  BY <1>1, <1>2, <1>3 DEF Tools!IInv, Tools!TypeOK
<1>6. Tools!VaultInv'
  <2>1. edit # Tools!NoEdit => \A x \in Calls : edit.s \notin calls'[x].kept
    BY <1>1, <1>4 DEF Tools!IInv, Tools!VaultInv
  <2> QED BY <1>2, <2>1 DEF Tools!IInv, Tools!VaultInv
<1>7. Tools!CallInv'
  <2> SUFFICES ASSUME NEW x \in Calls
               PROVE  (Tools!Permitted(calls[x], x, lock, used) /\ Tools!Hides(calls[x], budget.old))'
    BY DEF Tools!CallInv
  <2>1. Tools!Permitted(calls'[x], x, lock', used') /\ Tools!Hides(calls'[x], Old)
    BY <1>1, <1>4 DEF Tools!IInv, Tools!CallInv, Old
  <2>2. Tools!Permitted(calls[x], x, lock, used)'
    BY <2>1 DEF Tools!Permitted
  <2>3. Tools!Hides(calls[x], budget.old)'
    BY <1>2, <2>1 DEF Tools!Hides, Old, Tools!Hidden
  <2> QED BY <2>2, <2>3
<1> QED BY <1>5, <1>6, <1>7 DEF Tools!IInv

\* A call goes on, and the vault, the lock and the policy do not change.
LEMMA ToolsGoInv ==
  ASSUME Tools!Lawful, Tools!IInv, NEW c \in Calls, NEW r, Tools!Put(r, c), Tools!Fine \/ Tools!Fault,
         UNCHANGED <<config, policy, meta, files, edit, used, lock>>, Suits(r, c, lock, used)
  PROVE  Tools!IInv'
<1>1. \A x \in Calls \ {c} : Tools!Permitted(calls[x], x, lock, used)
  BY DEF Tools!IInv, Tools!CallInv
<1>2. lock \in Calls \cup {Tools!NoHolder}
  BY DEF Tools!IInv, Tools!TypeOK
<1> QED BY <1>1, <1>2, ToolsPutInv

\* The call that has its turn leaves; no other has had it.
LEMMA ToolsLeaveInv ==
  ASSUME Tools!Lawful, Tools!IInv, NEW c \in Calls, NEW r \in Tools!CallType, r.quoted = {}, Tools!Leave(r, c),
         Tools!Fine \/ Tools!Fault, Tools!HasTurn(calls[c]), UNCHANGED <<config, policy, meta, files, edit>>
  PROVE  Tools!IInv'
<1>1. lock = c
  BY DEF Tools!IInv, Tools!CallInv, Tools!Permitted
<1>2. Tools!Put([r EXCEPT !.at = "done"], c) /\ lock' = Tools!NoHolder
  BY <1>1 DEF Tools!Leave
<1>3. \A x \in Calls \ {c} : Tools!Permitted(calls[x], x, lock', used')
  <2> SUFFICES ASSUME NEW x \in Calls \ {c} PROVE Tools!Permitted(calls[x], x, lock', used')
    OBVIOUS
  <2>1. ~Tools!HasTurn(calls[x]) /\ Tools!Permitted(calls[x], x, lock, used)
    BY <1>1 DEF Tools!IInv, Tools!CallInv, Tools!Permitted
  <2>2. ~Tools!Admitted(calls[x])
    BY <2>1 DEF Tools!HasTurn, Tools!Admitted
  <2> QED BY <2>1, <2>2 DEF Tools!Permitted
<1>4. Suits([r EXCEPT !.at = "done"], c, lock', used')
  <2>1. [r EXCEPT !.at = "done"] \in Tools!CallType /\ [r EXCEPT !.at = "done"].at = "done"
        /\ [r EXCEPT !.at = "done"].quoted = {}
    BY DEF Tools!CallType, Tools!Ats
  <2> QED BY <2>1 DEF Suits
<1> QED BY <1>2, <1>3, <1>4, ToolsPutInv

\* To move a call.
LEMMA ToolsMove ==
  ASSUME NEW c, calls[c] \in Tools!CallType, NEW at \in Tools!Ats
  PROVE  /\ Tools!Move(c, at) \in Tools!CallType /\ Tools!Move(c, at).at = at
         /\ \A m : m = Tools!Move(c, at) =>
              /\ m.kind = calls[c].kind /\ m.text = calls[c].text /\ m.net = calls[c].net /\ m.env = calls[c].env
              /\ m.base = calls[c].base /\ m.red = calls[c].red /\ m.inj = calls[c].inj /\ m.said = calls[c].said
              /\ m.row = calls[c].row /\ m.quoted = calls[c].quoted /\ m.kept = calls[c].kept
              /\ m.inforce = calls[c].inforce
  BY DEF Tools!Move, Tools!CallType

\* A call that ends with nothing shown.
LEMMA ToolsDoneInv ==
  ASSUME Tools!Lawful, Tools!IInv, NEW c \in Calls, Tools!Goto(c, "done"), Tools!Fine \/ Tools!Fault,
         UNCHANGED <<config, policy, meta, files, edit, used, lock>>
  PROVE  Tools!IInv'
<1>1. "done" \in Tools!Ats
  BY DEF Tools!Ats
<1>2. PICK m : m = Tools!Move(c, "done") /\ m \in Tools!CallType /\ m.at = "done" /\ m.quoted = calls[c].quoted
  BY <1>1, ToolsOfCall, ToolsMove
<1>3. m.quoted = {}
  BY <1>2, ToolsOfCall DEF Tools!Hides
<1> QED BY <1>2, <1>3, ToolsGoInv DEF Tools!Goto, Suits

\* The arguments of a call may quote a secret.
LEMMA ToolsArguments ==
  ASSUME NEW a \in Tools!Arguments
  PROVE  a[1] \in SUBSET Secrets /\ a[2] \in BOOLEAN
<1>1. CASE a = <<{}, TRUE>>
  BY <1>1
<1>2. CASE a # <<{}, TRUE>>
  <2>1. PICK text \in {{}} \cup {{s} : s \in Secrets} : a = <<text, FALSE>>
    BY <1>2 DEF Tools!Arguments
  <2>2. text \in SUBSET Secrets
    OBVIOUS
  <2> QED BY <2>1, <2>2
<1> QED BY <1>1, <1>2

\* What the redaction hides is not shown.
LEMMA ToolsShows ==
  ASSUME NEW r \in Tools!CallType, NEW text, text \cap Tools!Hidden(r) = {}
  PROVE  Tools!Shows(r, text) = r
<1>1. r.quoted \cup (text \cap Tools!Hidden(r)) = r.quoted
  OBVIOUS
<1>2. Tools!Shows(r, text) = [r EXCEPT !.quoted = r.quoted \cup (text \cap Tools!Hidden(r))]
  BY DEF Tools!Shows
<1> QED BY <1>1, <1>2 DEF Tools!CallType
-----------------------------------------------------------------------------

\* A call begins.
LEMMA ToolsHandleInv ==
  ASSUME Tools!Lawful, Tools!IInv, NEW c \in Calls, Tools!Handle(c)
  PROVE  Tools!IInv'
<1>1. UNCHANGED <<config, policy, meta, files, edit, used, lock>> /\ calls[c].at = "idle"
  BY DEF Tools!Handle, Tools!At
<1>2. calls[c] \in Tools!CallType /\ Tools!Hides(calls[c], Old) /\ policy \in Tools!PolicyType /\ "done" \in Tools!Ats
      /\ "request" \in Tools!Ats
  BY ToolsOfCall DEF Tools!Ats
<1>3. CASE Tools!Fault /\ Tools!Goto(c, "done")
  BY <1>1, <1>3, ToolsDoneInv
<1>4. CASE Tools!Fine /\ Tools!Put([Tools!Move(c, "done") EXCEPT !.row = "blocked"], c)
  <2>1. PICK m : m = Tools!Move(c, "done") /\ m \in Tools!CallType /\ m.at = "done" /\ m.quoted = calls[c].quoted
    BY <1>2, ToolsMove
  <2>2. PICK r : r = [m EXCEPT !.row = "blocked"]
    OBVIOUS
  <2>3. r \in Tools!CallType /\ r.at = "done" /\ r.quoted = {}
    BY <1>2, <2>1, <2>2 DEF Tools!CallType, Tools!Hides
  <2> QED BY <1>1, <1>4, <2>1, <2>2, <2>3, ToolsGoInv DEF Suits
<1>5. ASSUME NEW a \in Tools!Arguments, Tools!Fine,
             Tools!Put([Tools!Move(c, "request") EXCEPT !.kind = "chat", !.text = a[1], !.net = a[2], !.env = policy], c)
      PROVE  Tools!IInv'
  <2>1. a[1] \in SUBSET Secrets /\ a[2] \in BOOLEAN
    BY ToolsArguments
  <2>2. PICK m : m = Tools!Move(c, "request") /\ m \in Tools!CallType /\ m.at = "request" /\ m.quoted = calls[c].quoted
                 /\ m.kept = calls[c].kept /\ m.inj = calls[c].inj
    BY <1>2, ToolsMove
  <2>3. PICK r : r = [m EXCEPT !.kind = "chat", !.text = a[1], !.net = a[2], !.env = policy]
    OBVIOUS
  <2>4. r \in Tools!CallType
    BY <1>2, <2>1, <2>2, <2>3 DEF Tools!CallType
  <2>5. r.at = "request" /\ r.quoted = m.quoted /\ r.kept = m.kept /\ r.inj = m.inj /\ r.kind = "chat"
    BY <2>2, <2>3 DEF Tools!CallType
  <2>6. r.quoted = {} /\ r.kept = {} /\ r.inj = {}
    BY <1>1, <1>2, <2>2, <2>5 DEF Tools!Hides
  <2>7. Tools!Permitted(r, c, lock, used) /\ Tools!Hides(r, Old)
    BY <2>5, <2>6 DEF Tools!Permitted, Tools!Hides, Tools!HasTurn, Tools!Admitted
  <2> QED BY <1>1, <1>5, <2>2, <2>3, <2>4, <2>6, <2>7, ToolsGoInv DEF Suits
<1> QED BY <1>3, <1>4, <1>5 DEF Tools!Handle

\* The card: what the vault holds now is hidden.
LEMMA ToolsRequestInv ==
  ASSUME Tools!Lawful, Tools!IInv, NEW c \in Calls, Tools!Request(c)
  PROVE  Tools!IInv'
<1>1. UNCHANGED <<config, policy, meta, files, edit, used, lock>> /\ calls[c].at = "request"
      /\ (Tools!Fine \/ Tools!Fault)
  BY DEF Tools!Request, Tools!At
<1>2. calls[c] \in Tools!CallType /\ Tools!Hides(calls[c], Old) /\ meta \in SUBSET Secrets /\ "card" \in Tools!Ats
  BY ToolsOfCall DEF Tools!Ats
<1>3. PICK m : m = Tools!Move(c, "card") /\ m \in Tools!CallType /\ m.quoted = calls[c].quoted
               /\ m.kept = calls[c].kept /\ m.inj = calls[c].inj
  BY <1>2, ToolsMove
<1>4. m.quoted = {} /\ m.kept = {} /\ m.inj = {}
  BY <1>1, <1>2, <1>3 DEF Tools!Hides
<1>5. PICK r : r = [m EXCEPT !.base = meta, !.red = meta]
  OBVIOUS
<1>6. r \in Tools!CallType /\ r.quoted = {} /\ r.kept = {} /\ r.inj = {} /\ r.base = meta /\ r.red = meta
  BY <1>2, <1>3, <1>4, <1>5 DEF Tools!CallType
<1>7. ASSUME NEW at \in {"card", "lock", "done"}
      PROVE  \A z : z = [r EXCEPT !.at = at] =>
               /\ z \in Tools!CallType /\ z.at = at /\ z.quoted = {} /\ z.kept = {} /\ z.inj = {} /\ z.base = meta
               /\ Tools!Shows(z, Tools!Redacted(r, r.text)) = z
  <2> SUFFICES ASSUME NEW z, z = [r EXCEPT !.at = at]
               PROVE  /\ z \in Tools!CallType /\ z.at = at /\ z.quoted = {} /\ z.kept = {} /\ z.inj = {} /\ z.base = meta
                      /\ Tools!Shows(z, Tools!Redacted(r, r.text)) = z
    OBVIOUS
  <2>1. z \in Tools!CallType /\ z.at = at /\ z.quoted = {} /\ z.kept = {} /\ z.inj = {} /\ z.base = meta
    BY <1>6, <1>7 DEF Tools!CallType, Tools!Ats
  <2>2. Tools!Redacted(r, r.text) \cap Tools!Hidden(z) = {}
    BY <1>6, <2>1 DEF Tools!Redacted, Tools!Hidden
  <2> QED BY <2>1, <2>2, ToolsShows
<1>8. CASE Tools!Goto(c, "done")
  BY <1>1, <1>8, ToolsDoneInv
<1>9. CASE Tools!Put(Tools!Blocked([r EXCEPT !.at = "done"]), c)
  <2>1. PICK z : z = [[r EXCEPT !.at = "done"] EXCEPT !.row = "blocked"]
    OBVIOUS
  <2>2. z \in Tools!CallType /\ z.at = "done" /\ z.quoted = {} /\ z.kept = {} /\ z.inj = {} /\ z.base = meta
        /\ z.red = meta
    BY <1>6, <2>1 DEF Tools!CallType, Tools!Ats
  <2>3. PICK y : y = [r EXCEPT !.at = "done"]
    OBVIOUS
  <2>4. y.red = meta
    BY <1>6, <2>3 DEF Tools!CallType
  <2>5. Tools!Blocked(y) = Tools!Shows(z, Tools!Redacted(y, y.text))
    BY <2>1, <2>3 DEF Tools!Blocked
  <2>6. Tools!Redacted(y, y.text) \cap Tools!Hidden(z) = {}
    BY <2>2, <2>4 DEF Tools!Redacted, Tools!Hidden
  <2>7. Tools!Put(z, c)
    BY <1>9, <2>2, <2>3, <2>5, <2>6, ToolsShows
  <2> QED BY <1>1, <2>2, <2>7, ToolsGoInv DEF Suits
<1>10. CASE Tools!Put(Tools!Shows([r EXCEPT !.at = IF config.approval = "always" THEN "card" ELSE "lock"],
                                  Tools!Redacted(r, r.text)), c)
  <2>1. PICK at \in {"card", "lock", "done"} : at = IF config.approval = "always" THEN "card" ELSE "lock"
    OBVIOUS
  <2>2. PICK z : z = [r EXCEPT !.at = at]
    OBVIOUS
  <2>3. /\ z \in Tools!CallType /\ z.at = at /\ z.quoted = {} /\ z.kept = {} /\ z.inj = {} /\ z.base = meta
        /\ Tools!Shows(z, Tools!Redacted(r, r.text)) = z
    BY <1>7, <2>2
  <2>4. Tools!Put(z, c)
    BY <1>10, <2>1, <2>2, <2>3
  <2>5. Tools!Permitted(z, c, lock, used) /\ Tools!Hides(z, Old)
    BY <2>1, <2>3 DEF Tools!Permitted, Tools!Hides, Tools!HasTurn, Tools!Admitted
  <2> QED BY <1>1, <2>3, <2>4, <2>5, ToolsGoInv DEF Suits
<1>11. r = [Tools!Move(c, "card") EXCEPT !.base = Tools!AllValues, !.red = Tools!AllValues]
  BY <1>3, <1>5 DEF Tools!AllValues
<1> QED BY <1>8, <1>9, <1>10, <1>11 DEF Tools!Request

\* The user decides, the card times out, or the turn ends.
LEMMA ToolsCardInv ==
  ASSUME Tools!Lawful, Tools!IInv, NEW c \in Calls, Tools!Decide(c) \/ Tools!Approve(c) \/ Tools!Timeout(c)
  PROVE  Tools!IInv'
<1>1. UNCHANGED <<config, policy, meta, files, edit, used, lock>> /\ calls[c].at = "card" /\ Tools!Fine
  BY DEF Tools!Decide, Tools!Approve, Tools!Timeout, Tools!At
<1>2. /\ calls[c] \in Tools!CallType /\ Tools!Hides(calls[c], Old) /\ meta \in SUBSET Secrets
      /\ files \in SUBSET Secrets /\ {"card", "lock", "deny"} \subseteq Tools!Ats
  BY ToolsOfCall DEF Tools!Ats
<1>3. calls[c].quoted = {} /\ calls[c].kept \subseteq meta /\ calls[c].inj = {}
  BY <1>1, <1>2 DEF Tools!Hides
<1>4. CASE Tools!Goto(c, "done")
  BY <1>1, <1>4, ToolsDoneInv
<1>5. ASSUME NEW said \in {"yes", "no"}, Tools!Put([Tools!Move(c, "card") EXCEPT !.said = said], c)
      PROVE  Tools!IInv'
  <2>1. PICK m : m = Tools!Move(c, "card") /\ m \in Tools!CallType /\ m.at = "card" /\ m.quoted = {}
                 /\ m.kept = calls[c].kept /\ m.inj = {}
    BY <1>2, <1>3, ToolsMove
  <2>2. PICK r : r = [m EXCEPT !.said = said]
    OBVIOUS
  <2>3. r \in Tools!CallType /\ r.at = "card" /\ r.quoted = {} /\ r.kept = calls[c].kept /\ r.inj = {}
    BY <1>5, <2>1, <2>2 DEF Tools!CallType
  <2>4. Tools!Permitted(r, c, lock, used) /\ Tools!Hides(r, Old)
    BY <1>3, <2>3 DEF Tools!Permitted, Tools!Hides, Tools!HasTurn, Tools!Admitted
  <2> QED BY <1>1, <1>5, <2>1, <2>2, <2>3, <2>4, ToolsGoInv DEF Suits
<1>6. CASE Tools!Put([Tools!Move(c, "deny") EXCEPT !.kept = Tools!Vault], c)
  <2>1. PICK m : m = Tools!Move(c, "deny") /\ m \in Tools!CallType /\ m.at = "deny" /\ m.quoted = {} /\ m.inj = {}
    BY <1>2, <1>3, ToolsMove
  <2>2. PICK r : r = [m EXCEPT !.kept = Tools!Vault]
    OBVIOUS
  <2>3. r \in Tools!CallType /\ r.at = "deny" /\ r.quoted = {} /\ r.kept = Tools!Vault /\ r.inj = {}
    BY <1>2, <2>1, <2>2 DEF Tools!CallType, Tools!Vault
  <2>4. r.kept \subseteq meta /\ r.kept \subseteq files
    BY <2>3 DEF Tools!Vault
  <2>5. Tools!Permitted(r, c, lock, used) /\ Tools!Hides(r, Old)
    BY <2>3, <2>4 DEF Tools!Permitted, Tools!Hides, Tools!HasTurn, Tools!Admitted
  <2> QED BY <1>1, <1>6, <2>1, <2>2, <2>3, <2>4, <2>5, ToolsGoInv DEF Suits
<1>7. CASE Tools!Granted(c) /\ Tools!Goto(c, "lock")
  <2>1. PICK r : r = Tools!Move(c, "lock") /\ r \in Tools!CallType /\ r.at = "lock" /\ r.quoted = {} /\ r.inj = {}
                 /\ r.kept = calls[c].kept /\ r.said = calls[c].said
    BY <1>2, <1>3, ToolsMove
  <2>2. r.said = "yes"
    BY <1>7, <2>1 DEF Tools!Granted
  <2>3. Tools!Permitted(r, c, lock, used) /\ Tools!Hides(r, Old)
    BY <1>3, <2>1, <2>2 DEF Tools!Permitted, Tools!Hides, Tools!HasTurn, Tools!Admitted
  <2> QED BY <1>1, <1>7, <2>1, <2>3, ToolsGoInv DEF Suits, Tools!Goto
<1> QED BY <1>4, <1>5, <1>6, <1>7 DEF Tools!Decide, Tools!Approve, Tools!Timeout

\* The audit row of a call that was denied.
LEMMA ToolsAuditDeniedInv ==
  ASSUME Tools!Lawful, Tools!IInv, NEW c \in Calls, Tools!AuditDenied(c)
  PROVE  Tools!IInv'
<1>1. UNCHANGED <<config, policy, meta, files, edit, used, lock>> /\ calls[c].at = "deny" /\ Tools!Fine
  BY DEF Tools!AuditDenied, Tools!At
<1>2. /\ calls[c] \in Tools!CallType /\ Tools!Hides(calls[c], Old) /\ meta \in SUBSET Secrets /\ "done" \in Tools!Ats
  BY ToolsOfCall DEF Tools!Ats
<1>3. calls[c].quoted = {} /\ calls[c].kept \subseteq meta /\ calls[c].inj = {}
  BY <1>1, <1>2 DEF Tools!Hides
<1>4. PICK m : m = Tools!Move(c, "done") /\ m \in Tools!CallType /\ m.at = "done" /\ m.quoted = {} /\ m.inj = {}
               /\ m.kept = calls[c].kept
  BY <1>2, <1>3, ToolsMove
<1>5. PICK r : r = [m EXCEPT !.row = "denied"]
  OBVIOUS
<1>6. r \in Tools!CallType /\ r.at = "done" /\ r.quoted = {} /\ r.inj = {} /\ r.kept \subseteq meta
  BY <1>3, <1>4, <1>5 DEF Tools!CallType
<1>7. PICK z : z = [r EXCEPT !.red = Tools!Merged(r.base, Tools!AllValues)]
  OBVIOUS
<1>8. z.red = r.base \cup meta
  BY <1>6, <1>7 DEF Tools!CallType, Tools!Merged, Tools!AllValues
<1>9. Tools!Shows(r, Tools!Redacted(z, r.text)) = r
  <2>1. Tools!Redacted(z, r.text) \cap Tools!Hidden(r) = {}
    BY <1>6, <1>8 DEF Tools!Redacted, Tools!Hidden
  <2> QED BY <1>6, <2>1, ToolsShows
<1>10. Tools!Put(r, c)
  BY <1>4, <1>5, <1>7, <1>9 DEF Tools!AuditDenied
<1> QED BY <1>1, <1>6, <1>10, ToolsGoInv DEF Suits
-----------------------------------------------------------------------------
\* A call has its turn: what the vault holds now is what it is to hide from now on.
LEMMA ToolsLockInv ==
  ASSUME Tools!Lawful, Tools!IInv, NEW c \in Calls, Tools!lockUser(c)
  PROVE  Tools!IInv'
<1>1. /\ UNCHANGED <<config, policy, meta, files, edit, used>> /\ calls[c].at = "lock" /\ Tools!Fine
      /\ lock = Tools!NoHolder /\ lock' = c
  BY DEF Tools!lockUser, Tools!At, Tools!Free
<1>2. /\ calls[c] \in Tools!CallType /\ Tools!Hides(calls[c], Old) /\ meta \in SUBSET Secrets
      /\ Tools!Permitted(calls[c], c, lock, used)
      /\ files \in SUBSET Secrets /\ "reload" \in Tools!Ats /\ policy \in Tools!PolicyType
  BY ToolsOfCall DEF Tools!Ats
<1>3. PICK m : m = Tools!Move(c, "reload") /\ m \in Tools!CallType /\ m.at = "reload" /\ m.quoted = calls[c].quoted
               /\ m.inj = calls[c].inj /\ m.said = calls[c].said
  BY <1>2, ToolsMove
<1>4. PICK r : r = [m EXCEPT !.kept = Tools!Vault, !.inforce = {policy}]
  OBVIOUS
<1>5. /\ r \in Tools!CallType /\ r.at = "reload" /\ r.quoted = {} /\ r.inj = {} /\ r.kept = Tools!Vault
      /\ r.inforce = {policy} /\ r.said = calls[c].said
  <2>1. m.quoted = {} /\ m.inj = {}
    BY <1>1, <1>2, <1>3 DEF Tools!Hides
  <2>2. Tools!Vault \in SUBSET Secrets /\ {policy} \in SUBSET Tools!PolicyType
    BY <1>2 DEF Tools!Vault
  <2> QED BY <1>3, <1>4, <2>1, <2>2 DEF Tools!CallType
<1>6. r.kept \subseteq meta /\ r.kept \subseteq files
  BY <1>5 DEF Tools!Vault
<1>7. config.approval = "always" => r.said = "yes"
  BY <1>1, <1>2, <1>5 DEF Tools!Permitted
<1>8. Tools!Permitted(r, c, lock', used') /\ Tools!Hides(r, Old)
  BY <1>1, <1>5, <1>6, <1>7 DEF Tools!Permitted, Tools!Hides, Tools!HasTurn, Tools!Admitted
<1>9. \A x \in Calls \ {c} : Tools!Permitted(calls[x], x, lock', used')
  <2> SUFFICES ASSUME NEW x \in Calls \ {c} PROVE Tools!Permitted(calls[x], x, lock', used')
    OBVIOUS
  <2>1. ~Tools!HasTurn(calls[x]) /\ Tools!Permitted(calls[x], x, lock, used)
    BY <1>1 DEF Tools!IInv, Tools!CallInv, Tools!Permitted, Tools!Lawful
  <2>2. ~Tools!Admitted(calls[x])
    BY <2>1 DEF Tools!HasTurn, Tools!Admitted
  <2> QED BY <2>1, <2>2 DEF Tools!Permitted
<1>10. Tools!Put(r, c)
  BY <1>3, <1>4 DEF Tools!lockUser
<1> QED BY <1>1, <1>5, <1>6, <1>8, <1>9, <1>10, ToolsPutInv DEF Suits

\* The policy of now.
LEMMA ToolsReloadInv ==
  ASSUME Tools!Lawful, Tools!IInv, NEW c \in Calls, Tools!Reload(c)
  PROVE  Tools!IInv'
<1>1. UNCHANGED <<config, policy, meta, files, edit, used>> /\ calls[c].at = "reload"
  BY DEF Tools!Reload, Tools!At
<1>2. /\ calls[c] \in Tools!CallType /\ Tools!Hides(calls[c], Old) /\ policy \in Tools!PolicyType
      /\ Tools!Permitted(calls[c], c, lock, used) /\ policy.grants \subseteq Old
      /\ {"recheck", "done"} \subseteq Tools!Ats
  BY ToolsOfCall DEF Tools!Ats
<1>3. Tools!HasTurn(calls[c]) /\ calls[c].quoted = {} /\ calls[c].inj = {} /\ calls[c].kept \subseteq meta
  BY <1>1, <1>2 DEF Tools!HasTurn, Tools!Hides
<1>4. CASE Tools!Fault /\ Tools!Leave(Tools!Move(c, "done"), c)
  <2>1. PICK m : m = Tools!Move(c, "done") /\ m \in Tools!CallType /\ m.quoted = {}
    BY <1>2, <1>3, ToolsMove
  <2> QED BY <1>1, <1>3, <1>4, <2>1, ToolsLeaveInv
<1>5. CASE Tools!Fine /\ Tools!Put([Tools!Move(c, "recheck") EXCEPT !.env = Tools!Environment(c)], c) /\ UNCHANGED lock
  <2>1. PICK m : m = Tools!Move(c, "recheck") /\ m \in Tools!CallType /\ m.at = "recheck" /\ m.quoted = {}
                 /\ m.inj = {} /\ m.kept = calls[c].kept /\ m.inforce = calls[c].inforce /\ m.said = calls[c].said
    BY <1>2, <1>3, ToolsMove
  <2>2. PICK r : r = [m EXCEPT !.env = policy]
    OBVIOUS
  <2>3. /\ r \in Tools!CallType /\ r.at = "recheck" /\ r.quoted = {} /\ r.inj = {} /\ r.kept = calls[c].kept
        /\ r.inforce = calls[c].inforce /\ r.said = calls[c].said /\ r.env = policy
    BY <1>2, <2>1, <2>2 DEF Tools!CallType
  <2>4. Tools!Permitted(r, c, lock, used)
    BY <1>1, <1>2, <2>3 DEF Tools!Permitted, Tools!HasTurn, Tools!Admitted
  <2>5. Tools!Hides(r, Old)
    BY <1>2, <1>3, <2>3 DEF Tools!Hides
  <2> QED BY <1>1, <1>5, <2>1, <2>2, <2>3, <2>4, <2>5, ToolsGoInv DEF Suits, Tools!Environment
<1> QED BY <1>4, <1>5 DEF Tools!Reload

\* Everything that is to be hidden by now is, or the call does not go on.
LEMMA ToolsRecheckInv ==
  ASSUME Tools!Lawful, Tools!IInv, NEW c \in Calls, Tools!Recheck(c)
  PROVE  Tools!IInv'
<1>1. UNCHANGED <<config, policy, meta, files, edit, used>> /\ calls[c].at = "recheck" /\ Tools!Fine
  BY DEF Tools!Recheck, Tools!At
<1>2. /\ calls[c] \in Tools!CallType /\ Tools!Hides(calls[c], Old) /\ meta \in SUBSET Secrets
      /\ Tools!Permitted(calls[c], c, lock, used) /\ {"inject", "done"} \subseteq Tools!Ats
  BY ToolsOfCall DEF Tools!Ats
<1>3. Tools!HasTurn(calls[c]) /\ calls[c].quoted = {} /\ calls[c].inj = {} /\ calls[c].kept \subseteq meta
      /\ calls[c].env.grants \subseteq Old
  BY <1>1, <1>2 DEF Tools!HasTurn, Tools!Hides
<1>4. PICK m : /\ m = Tools!Move(c, "inject") /\ m \in Tools!CallType /\ m.at = "inject" /\ m.quoted = {} /\ m.inj = {}
               /\ m.kept = calls[c].kept /\ m.inforce = calls[c].inforce /\ m.said = calls[c].said
               /\ m.env = calls[c].env /\ m.base = calls[c].base /\ m.net = calls[c].net
  BY <1>2, <1>3, ToolsMove
<1>5. PICK red : red = Tools!Merged(calls[c].base, Tools!AllValues)
  OBVIOUS
<1>6. red = calls[c].base \cup meta /\ red \in SUBSET Secrets
  BY <1>2, <1>5 DEF Tools!Merged, Tools!AllValues, Tools!CallType
<1>7. PICK r : r = [m EXCEPT !.red = red]
  OBVIOUS
<1>8. /\ r \in Tools!CallType /\ r.at = "inject" /\ r.quoted = {} /\ r.inj = {} /\ r.kept = calls[c].kept
      /\ r.inforce = calls[c].inforce /\ r.said = calls[c].said /\ r.env = calls[c].env /\ r.base = calls[c].base
      /\ r.net = calls[c].net /\ r.red = red
  BY <1>4, <1>6, <1>7 DEF Tools!CallType
<1>9. Tools!Hidden(r) \subseteq r.red
  BY <1>3, <1>6, <1>8 DEF Tools!Hidden
<1>10. CASE Tools!Leave(Tools!Move(c, "done"), c)
  <2>1. PICK n : n = Tools!Move(c, "done") /\ n \in Tools!CallType /\ n.quoted = {}
    BY <1>2, <1>3, ToolsMove
  <2> QED BY <1>1, <1>3, <1>10, <2>1, ToolsLeaveInv
<1>11. CASE Tools!Leave(Tools!Blocked(r), c)
  <2>1. PICK z : z = [r EXCEPT !.row = "blocked"]
    OBVIOUS
  <2>2. z \in Tools!CallType /\ z.quoted = {} /\ z.base = r.base /\ z.inj = r.inj /\ z.kept = r.kept
    BY <1>8, <2>1 DEF Tools!CallType
  <2>3. Tools!Redacted(r, r.text) \cap Tools!Hidden(z) = {}
    BY <1>9, <2>2 DEF Tools!Redacted, Tools!Hidden
  <2>4. Tools!Blocked(r) = z
    BY <2>1, <2>2, <2>3, ToolsShows DEF Tools!Blocked
  <2> QED BY <1>1, <1>3, <1>11, <2>2, <2>4, ToolsLeaveInv
<1>12. CASE Tools!Put(r, c) /\ UNCHANGED lock /\ r.env.tool /\ ~Tools!Denied(c) /\ r.text \cap r.red = {}
  <2>1. r.net => r.env.net
    BY <1>8, <1>12 DEF Tools!Denied
  <2>2. Tools!Permitted(r, c, lock, used)
    BY <1>1, <1>2, <1>8, <1>12, <2>1 DEF Tools!Permitted, Tools!HasTurn, Tools!Admitted
  <2>3. r.env.grants \cap meta \subseteq r.red
    BY <1>6, <1>8
  <2>4. Tools!Hides(r, Old)
    BY <1>3, <1>8, <1>9, <1>12, <2>3 DEF Tools!Hides
  <2> QED BY <1>1, <1>8, <1>12, <2>2, <2>4, ToolsGoInv DEF Suits
<1>13. r = [Tools!Move(c, "inject") EXCEPT !.red = Tools!Merged(calls[c].base, Tools!AllValues)]
  BY <1>4, <1>5, <1>7
<1> QED BY <1>10, <1>11, <1>12, <1>13 DEF Tools!Recheck

\* What is injected was granted, so it was there when the call was checked.
LEMMA ToolsMaterializeInv ==
  ASSUME Tools!Lawful, Tools!IInv, NEW c \in Calls, Tools!Materialize(c)
  PROVE  Tools!IInv'
<1>1. UNCHANGED <<config, policy, meta, files, edit, used>> /\ calls[c].at = "inject" /\ Tools!Fine
  BY DEF Tools!Materialize, Tools!At
<1>2. /\ calls[c] \in Tools!CallType /\ Tools!Hides(calls[c], Old) /\ meta \in SUBSET Secrets
      /\ Tools!Permitted(calls[c], c, lock, used) /\ {"audit", "done"} \subseteq Tools!Ats
      /\ config.isolated \in BOOLEAN
  BY ToolsOfCall DEF Tools!Ats, Tools!IInv, Tools!TypeOK
<1>3. /\ Tools!HasTurn(calls[c]) /\ calls[c].quoted = {} /\ calls[c].kept \subseteq meta
      /\ Tools!Hidden(calls[c]) \subseteq calls[c].red /\ calls[c].text \cap calls[c].red = {}
      /\ calls[c].env.grants \cap meta \subseteq calls[c].red
  BY <1>1, <1>2 DEF Tools!HasTurn, Tools!Hides
<1>4. CASE Tools!Leave(Tools!Move(c, "done"), c)
  <2>1. PICK n : n = Tools!Move(c, "done") /\ n \in Tools!CallType /\ n.quoted = {}
    BY <1>2, <1>3, ToolsMove
  <2> QED BY <1>1, <1>3, <1>4, <2>1, ToolsLeaveInv
<1>5. PICK inj : inj = IF config.isolated THEN calls[c].env.grants \cap meta ELSE {}
  OBVIOUS
<1>6. /\ inj \in SUBSET Secrets /\ inj \subseteq calls[c].red /\ inj \subseteq calls[c].env.grants
      /\ inj # {} => config.isolated
  BY <1>2, <1>3, <1>5
<1>7. CASE Tools!Put([Tools!Move(c, "audit") EXCEPT !.inj = inj], c) /\ UNCHANGED lock
  <2>1. PICK m : /\ m = Tools!Move(c, "audit") /\ m \in Tools!CallType /\ m.at = "audit" /\ m.quoted = {}
                 /\ m.kept = calls[c].kept /\ m.inforce = calls[c].inforce /\ m.said = calls[c].said
                 /\ m.env = calls[c].env /\ m.base = calls[c].base /\ m.net = calls[c].net
                 /\ m.red = calls[c].red /\ m.text = calls[c].text
    BY <1>2, <1>3, ToolsMove
  <2>2. PICK r : r = [m EXCEPT !.inj = inj]
    OBVIOUS
  <2>3. /\ r \in Tools!CallType /\ r.at = "audit" /\ r.quoted = {} /\ r.inj = inj
        /\ r.kept = calls[c].kept /\ r.inforce = calls[c].inforce /\ r.said = calls[c].said
        /\ r.env = calls[c].env /\ r.base = calls[c].base /\ r.net = calls[c].net
        /\ r.red = calls[c].red /\ r.text = calls[c].text
    BY <1>6, <2>1, <2>2 DEF Tools!CallType
  <2>4. Tools!Permitted(r, c, lock, used)
    BY <1>1, <1>2, <1>6, <2>3 DEF Tools!Permitted, Tools!HasTurn, Tools!Admitted
  <2>5. Tools!Hidden(r) \subseteq r.red
    BY <1>3, <1>6, <2>3 DEF Tools!Hidden
  <2>6. Tools!Hides(r, Old)
    BY <1>3, <2>3, <2>5 DEF Tools!Hides
  <2> QED BY <1>1, <1>7, <2>1, <2>2, <2>3, <2>4, <2>6, ToolsGoInv DEF Suits
<1> QED BY <1>4, <1>5, <1>7 DEF Tools!Materialize

\* What a call launches or prints shows nothing that it hides.
LEMMA ToolsLaunch ==
  ASSUME NEW r \in Tools!CallType, r.quoted = {}, Tools!Hidden(r) \subseteq r.red, r.text \cap r.red = {},
         NEW z, z = Tools!Launch(r)
  PROVE  z = [r EXCEPT !.at = "run", !.row = "pending"] /\ z \in Tools!CallType
<1>1. PICK y : y = [r EXCEPT !.at = "run", !.row = "pending"]
  OBVIOUS
<1>2. y \in Tools!CallType /\ y.base = r.base /\ y.inj = r.inj /\ y.kept = r.kept
  BY <1>1 DEF Tools!CallType, Tools!Ats
<1>3. r.text \cap Tools!Hidden(y) = {}
  BY <1>2 DEF Tools!Hidden
<1> QED BY <1>1, <1>2, <1>3, ToolsShows DEF Tools!Launch

\* What it prints shows nothing that it hides.
LEMMA ToolsPrinted ==
  ASSUME NEW r \in Tools!CallType, Tools!Hidden(r) \subseteq r.red
  PROVE  Tools!Printed(r) = r
<1>1. Tools!Redacted(r, Secrets) \cap Tools!Hidden(r) = {}
  BY DEF Tools!Redacted
<1> QED BY <1>1, ToolsShows DEF Tools!Printed

\* The last checks before a call runs.
LEMMA ToolsPreflightInv ==
  ASSUME Tools!Lawful, Tools!IInv, NEW c \in Calls, Tools!Preflight(c)
  PROVE  Tools!IInv'
<1>1. UNCHANGED <<config, policy, meta, files, edit, used>> /\ calls[c].at = "audit"
  BY DEF Tools!Preflight, Tools!At
<1>2. /\ calls[c] \in Tools!CallType /\ Tools!Hides(calls[c], Old)
      /\ Tools!Permitted(calls[c], c, lock, used) /\ {"run", "done"} \subseteq Tools!Ats
  BY ToolsOfCall DEF Tools!Ats
<1>3. /\ Tools!HasTurn(calls[c]) /\ calls[c].quoted = {} /\ calls[c].kept \subseteq meta
      /\ Tools!Hidden(calls[c]) \subseteq calls[c].red /\ calls[c].text \cap calls[c].red = {}
  BY <1>1, <1>2 DEF Tools!HasTurn, Tools!Hides
<1>4. CASE Tools!Leave(Tools!Move(c, "done"), c) /\ (Tools!Fine \/ Tools!Fault)
  <2>1. PICK n : n = Tools!Move(c, "done") /\ n \in Tools!CallType /\ n.quoted = {}
    BY <1>2, <1>3, ToolsMove
  <2> QED BY <1>1, <1>3, <1>4, <2>1, ToolsLeaveInv
<1>5. CASE Tools!Fine /\ used <= Quota /\ Tools!Put(Tools!Launch(Tools!Move(c, "run")), c) /\ UNCHANGED lock
  <2>1. PICK m : /\ m = Tools!Move(c, "run") /\ m \in Tools!CallType /\ m.quoted = {} /\ m.inj = calls[c].inj
                 /\ m.kept = calls[c].kept /\ m.inforce = calls[c].inforce /\ m.said = calls[c].said
                 /\ m.env = calls[c].env /\ m.base = calls[c].base /\ m.net = calls[c].net
                 /\ m.red = calls[c].red /\ m.text = calls[c].text
    BY <1>2, <1>3, ToolsMove
  <2>2. Tools!Hidden(m) \subseteq m.red /\ m.text \cap m.red = {}
    BY <1>3, <2>1 DEF Tools!Hidden
  <2>3. PICK r : r = Tools!Launch(m) /\ r = [m EXCEPT !.at = "run", !.row = "pending"] /\ r \in Tools!CallType
    BY <2>1, <2>2, ToolsLaunch
  <2>4. /\ r.at = "run" /\ r.row = "pending" /\ r.quoted = {} /\ r.inj = calls[c].inj
        /\ r.kept = calls[c].kept /\ r.inforce = calls[c].inforce /\ r.said = calls[c].said
        /\ r.env = calls[c].env /\ r.base = calls[c].base /\ r.net = calls[c].net
        /\ r.red = calls[c].red
    BY <2>1, <2>3 DEF Tools!CallType
  <2>5. Tools!Permitted(r, c, lock, used)
    BY <1>1, <1>2, <1>5, <2>4 DEF Tools!Permitted, Tools!HasTurn, Tools!Admitted
  <2>6. Tools!Hides(r, Old)
    BY <1>3, <2>4 DEF Tools!Hides, Tools!Hidden
  <2> QED BY <1>1, <1>5, <2>1, <2>3, <2>4, <2>5, <2>6, ToolsGoInv DEF Suits
<1> QED BY <1>4, <1>5 DEF Tools!Preflight

\* A call ends, and its audit row is final.
LEMMA ToolsFinishInv ==
  ASSUME Tools!Lawful, Tools!IInv, NEW c \in Calls, Tools!Finish(c)
  PROVE  Tools!IInv'
<1>1. UNCHANGED <<config, policy, meta, files, edit>> /\ calls[c].at = "run" /\ calls[c].kind = "chat"
  BY DEF Tools!Finish, Tools!At
<1>2. calls[c] \in Tools!CallType /\ Tools!Hides(calls[c], Old) /\ "done" \in Tools!Ats
  BY ToolsOfCall DEF Tools!Ats
<1>3. Tools!HasTurn(calls[c]) /\ calls[c].quoted = {} /\ Tools!Hidden(calls[c]) \subseteq calls[c].red
  BY <1>1, <1>2 DEF Tools!HasTurn, Tools!Hides
<1>4. PICK m : /\ m = Tools!Move(c, "done") /\ m \in Tools!CallType /\ m.quoted = {} /\ m.inj = calls[c].inj
               /\ m.kept = calls[c].kept /\ m.base = calls[c].base /\ m.red = calls[c].red
  BY <1>2, <1>3, ToolsMove
<1>5. PICK r : r = [m EXCEPT !.row = "final"]
  OBVIOUS
<1>6. r \in Tools!CallType /\ r.quoted = {} /\ r.inj = m.inj /\ r.kept = m.kept /\ r.base = m.base /\ r.red = m.red
  BY <1>4, <1>5 DEF Tools!CallType
<1>7. Tools!Printed(m) = m /\ Tools!Printed(r) = r
  BY <1>3, <1>4, <1>6, ToolsPrinted DEF Tools!Hidden
<1>8. (Tools!Leave(r, c) \/ Tools!Leave(m, c)) /\ (Tools!Fine \/ Tools!Fault)
  BY <1>4, <1>5, <1>7 DEF Tools!Finish
<1> QED BY <1>1, <1>3, <1>4, <1>6, <1>8, ToolsLeaveInv
-----------------------------------------------------------------------------
\* A step of an automation begins.
LEMMA ToolsStepInv ==
  ASSUME Tools!Lawful, Tools!IInv, NEW c \in Calls, Tools!Step(c)
  PROVE  Tools!IInv'
<1>1. UNCHANGED <<config, policy, meta, files, edit, used, lock>> /\ calls[c].at = "idle" /\ Tools!Fine
  BY DEF Tools!Step, Tools!At
<1>2. /\ calls[c] \in Tools!CallType /\ Tools!Hides(calls[c], Old) /\ meta \in SUBSET Secrets /\ "redactor" \in Tools!Ats
  BY ToolsOfCall DEF Tools!Ats
<1>3. calls[c].quoted = {} /\ calls[c].inj = {} /\ calls[c].base = {}
  BY <1>1, <1>2 DEF Tools!Hides
<1>4. CASE Tools!Goto(c, "done")
  BY <1>1, <1>4, ToolsDoneInv
<1>5. ASSUME NEW a \in Tools!Arguments, NEW kind \in {"tool", "llm"},
             Tools!Put([Tools!Move(c, "redactor") EXCEPT !.kind = kind, !.text = a[1], !.kept = Tools!Vault], c)
      PROVE  Tools!IInv'
  <2>1. a[1] \in SUBSET Secrets /\ Tools!Vault \in SUBSET Secrets
    BY <1>2, ToolsArguments DEF Tools!Vault
  <2>2. PICK m : m = Tools!Move(c, "redactor") /\ m \in Tools!CallType /\ m.at = "redactor" /\ m.quoted = {}
                 /\ m.inj = {} /\ m.base = {}
    BY <1>2, <1>3, ToolsMove
  <2>3. PICK r : r = [m EXCEPT !.kind = kind, !.text = a[1], !.kept = Tools!Vault]
    OBVIOUS
  <2>4. r \in Tools!CallType /\ r.kind = kind /\ r.kept = Tools!Vault
    BY <1>5, <2>1, <2>2, <2>3 DEF Tools!CallType
  <2>5. r.at = "redactor" /\ r.quoted = {} /\ r.inj = {} /\ r.base = {}
    BY <2>2, <2>3 DEF Tools!CallType
  <2>6. r.kept \subseteq meta /\ r.kept \subseteq files
    BY <2>4 DEF Tools!Vault
  <2>7. Tools!Permitted(r, c, lock, used) /\ Tools!Hides(r, Old)
    BY <1>5, <2>4, <2>5, <2>6 DEF Tools!Permitted, Tools!Hides, Tools!HasTurn, Tools!Admitted
  <2> QED BY <1>1, <1>5, <2>2, <2>3, <2>4, <2>6, <2>7, ToolsGoInv DEF Suits
<1> QED BY <1>4, <1>5 DEF Tools!Step

\* What the vault holds now is hidden from what a step shows.
LEMMA ToolsStepRedactorInv ==
  ASSUME Tools!Lawful, Tools!IInv, NEW c \in Calls, Tools!StepRedactor(c)
  PROVE  Tools!IInv'
<1>1. UNCHANGED <<config, policy, meta, files, edit, used, lock>> /\ calls[c].at = "redactor" /\ Tools!Fine
  BY DEF Tools!StepRedactor, Tools!At
<1>2. /\ calls[c] \in Tools!CallType /\ Tools!Hides(calls[c], Old) /\ meta \in SUBSET Secrets
      /\ Tools!Permitted(calls[c], c, lock, used)
  BY ToolsOfCall
<1>3. /\ calls[c].quoted = {} /\ calls[c].inj = {} /\ calls[c].base = {} /\ calls[c].kept \subseteq meta
      /\ calls[c].kind \in {"tool", "llm"}
  BY <1>1, <1>2 DEF Tools!Hides, Tools!Permitted
<1>4. CASE Tools!Goto(c, "done")
  BY <1>1, <1>4, ToolsDoneInv
<1>5. CASE Tools!Put([Tools!Move(c, calls[c].kind) EXCEPT !.red = Tools!AllValues], c)
  <2>1. PICK k \in {"tool", "llm"} : k = calls[c].kind /\ k \in Tools!Ats
    BY <1>3 DEF Tools!Ats
  <2>2. PICK m : m = Tools!Move(c, k) /\ m \in Tools!CallType /\ m.at = k /\ m.quoted = {}
                 /\ m.inj = {} /\ m.base = {} /\ m.kept = calls[c].kept /\ m.kind = k
    BY <1>2, <1>3, <2>1, ToolsMove
  <2>3. PICK r : r = [m EXCEPT !.red = meta]
    OBVIOUS
  <2>4. r \in Tools!CallType /\ r.kind = k /\ r.kept = calls[c].kept /\ r.red = meta
    BY <1>2, <2>2, <2>3 DEF Tools!CallType
  <2>5. r.at = k /\ r.quoted = {} /\ r.inj = {} /\ r.base = {}
    BY <2>2, <2>3 DEF Tools!CallType
  <2>6. Tools!Hidden(r) \subseteq r.red
    BY <1>3, <2>4, <2>5 DEF Tools!Hidden
  <2>7. Tools!Permitted(r, c, lock, used) /\ Tools!Hides(r, Old)
    BY <1>3, <2>1, <2>4, <2>5, <2>6 DEF Tools!Permitted, Tools!Hides, Tools!HasTurn, Tools!Admitted
  <2> QED BY <1>1, <1>5, <2>1, <2>2, <2>3, <2>4, <2>7, ToolsGoInv DEF Suits, Tools!AllValues
<1> QED BY <1>4, <1>5 DEF Tools!StepRedactor

\* The grants of a step, and their values.
LEMMA ToolsGrantsInv ==
  ASSUME Tools!Lawful, Tools!IInv, NEW c \in Calls, Tools!secretGrants(c)
  PROVE  Tools!IInv'
<1>1. UNCHANGED <<config, policy, meta, files, edit, used, lock>> /\ calls[c].at = "tool" /\ Tools!Fine
  BY DEF Tools!secretGrants, Tools!At
<1>2. /\ calls[c] \in Tools!CallType /\ Tools!Hides(calls[c], Old) /\ meta \in SUBSET Secrets
      /\ Tools!Permitted(calls[c], c, lock, used) /\ {"begin", "values"} \subseteq Tools!Ats
  BY ToolsOfCall DEF Tools!Ats
<1>3. /\ calls[c].quoted = {} /\ calls[c].kept \subseteq meta /\ calls[c].kind \in {"tool", "llm"}
      /\ Tools!Hidden(calls[c]) \subseteq calls[c].red
  BY <1>1, <1>2 DEF Tools!Hides, Tools!Permitted
<1>4. CASE Tools!Goto(c, "done")
  BY <1>1, <1>4, ToolsDoneInv
<1>5. ASSUME NEW r \in Tools!CallType, Tools!Put(r, c), r.at \in {"begin", "values"}, r.quoted = {},
             r.inj = calls[c].inj, r.base = calls[c].base, r.kept = calls[c].kept, r.red = calls[c].red,
             r.kind = calls[c].kind
      PROVE  Tools!IInv'
  <2>1. Tools!Hidden(r) \subseteq r.red
    BY <1>3, <1>5 DEF Tools!Hidden
  <2>2. Tools!Permitted(r, c, lock, used) /\ Tools!Hides(r, Old)
    BY <1>3, <1>5, <2>1 DEF Tools!Permitted, Tools!Hides, Tools!HasTurn, Tools!Admitted
  <2> QED BY <1>1, <1>5, <2>2, ToolsGoInv DEF Suits
<1>6. CASE Tools!Goto(c, "begin")
  <2>1. PICK m : m = Tools!Move(c, "begin") /\ m \in Tools!CallType /\ m.at = "begin" /\ m.quoted = {}
                 /\ m.inj = calls[c].inj /\ m.base = calls[c].base /\ m.kept = calls[c].kept /\ m.red = calls[c].red
                 /\ m.kind = calls[c].kind
    BY <1>2, <1>3, ToolsMove
  <2> QED BY <1>5, <1>6, <2>1 DEF Tools!Goto
<1>7. CASE Tools!Put([Tools!Move(c, "values") EXCEPT !.env.grants = meta], c)
  <2>1. PICK m : m = Tools!Move(c, "values") /\ m \in Tools!CallType /\ m.at = "values" /\ m.quoted = {}
                 /\ m.inj = calls[c].inj /\ m.base = calls[c].base /\ m.kept = calls[c].kept /\ m.red = calls[c].red
                 /\ m.kind = calls[c].kind /\ m.env = calls[c].env
    BY <1>2, <1>3, ToolsMove
  <2>2. PICK env : env = [m.env EXCEPT !.grants = meta]
    OBVIOUS
  <2>3. env \in Tools!PolicyType
    <3>1. m.env \in Tools!PolicyType
      BY <2>1 DEF Tools!CallType
    <3> QED BY <1>2, <2>2, <3>1 DEF Tools!PolicyType
  <2>4. PICK r : r = [m EXCEPT !.env = env]
    OBVIOUS
  <2>5. r \in Tools!CallType /\ r.at = "values" /\ r.quoted = {}
        /\ r.inj = calls[c].inj /\ r.base = calls[c].base /\ r.kept = calls[c].kept /\ r.red = calls[c].red
        /\ r.kind = calls[c].kind
    BY <2>1, <2>3, <2>4 DEF Tools!CallType
  <2>6. Tools!Put(r, c)
    BY <1>7, <2>1, <2>2, <2>4
  <2> QED BY <1>5, <2>5, <2>6
<1> QED BY <1>4, <1>6, <1>7 DEF Tools!secretGrants

\* The values of the grants are read for injection.
LEMMA ToolsInjectableInv ==
  ASSUME Tools!Lawful, Tools!IInv, NEW c \in Calls, Tools!injectableSecrets(c)
  PROVE  Tools!IInv'
<1>1. UNCHANGED <<config, policy, meta, files, edit, used, lock>> /\ calls[c].at = "values" /\ Tools!Fine
  BY DEF Tools!injectableSecrets, Tools!At
<1>2. /\ calls[c] \in Tools!CallType /\ Tools!Hides(calls[c], Old) /\ meta \in SUBSET Secrets
      /\ Tools!Permitted(calls[c], c, lock, used) /\ {"begin"} \subseteq Tools!Ats
  BY ToolsOfCall DEF Tools!Ats
<1>3. /\ calls[c].quoted = {} /\ calls[c].kept \subseteq meta /\ calls[c].kind \in {"tool", "llm"}
      /\ Tools!Hidden(calls[c]) \subseteq calls[c].red
  BY <1>1, <1>2 DEF Tools!Hides, Tools!Permitted
<1>4. CASE Tools!Goto(c, "done")
  BY <1>1, <1>4, ToolsDoneInv
<1>5. PICK m : m = Tools!Move(c, "begin") /\ m \in Tools!CallType /\ m.at = "begin" /\ m.quoted = {}
               /\ m.base = calls[c].base /\ m.kept = calls[c].kept /\ m.red = calls[c].red
               /\ m.kind = calls[c].kind
  BY <1>2, <1>3, ToolsMove
<1>6. PICK y : y = [m EXCEPT !.inj = calls[c].env.grants]
  OBVIOUS
<1>7. calls[c].env.grants \in SUBSET Secrets
  BY <1>2 DEF Tools!CallType, Tools!PolicyType
<1>8. /\ y \in Tools!CallType /\ y.at = "begin" /\ y.quoted = {} /\ y.base = calls[c].base /\ y.kept = calls[c].kept
      /\ y.red = calls[c].red /\ y.kind = calls[c].kind /\ y.inj = calls[c].env.grants
  BY <1>5, <1>6, <1>7 DEF Tools!CallType
<1>9. CASE Tools!Put([y EXCEPT !.red = Tools!Fold(y)], c)
  <2>1. PICK r : r = [y EXCEPT !.red = y.red \cup y.inj]
    OBVIOUS
  <2>2. y.red \cup y.inj \in SUBSET Secrets
    BY <1>2, <1>7, <1>8 DEF Tools!CallType
  <2>3. /\ r \in Tools!CallType /\ r.at = "begin" /\ r.quoted = {} /\ r.base = y.base /\ r.kept = y.kept
        /\ r.red = y.red \cup y.inj /\ r.kind = y.kind /\ r.inj = y.inj
    BY <1>8, <2>1, <2>2 DEF Tools!CallType
  <2>4. Tools!Hidden(r) \subseteq r.red
    BY <1>3, <1>8, <2>3 DEF Tools!Hidden
  <2>5. Tools!Permitted(r, c, lock, used) /\ Tools!Hides(r, Old)
    BY <1>3, <1>8, <2>3, <2>4 DEF Tools!Permitted, Tools!Hides, Tools!HasTurn, Tools!Admitted
  <2> QED BY <1>1, <1>8, <1>9, <2>1, <2>3, <2>5, ToolsGoInv DEF Suits, Tools!Fold
<1> QED BY <1>4, <1>5, <1>6, <1>9 DEF Tools!injectableSecrets

\* What a step runs, prints and asks the model.
LEMMA ToolsBeginInv ==
  ASSUME Tools!Lawful, Tools!IInv, NEW c \in Calls, Tools!beginToolAudit(c)
  PROVE  Tools!IInv'
<1>1. UNCHANGED <<config, policy, meta, files, edit, used, lock>> /\ calls[c].at = "begin" /\ (Tools!Fine \/ Tools!Fault)
  BY DEF Tools!beginToolAudit, Tools!At
<1>2. /\ calls[c] \in Tools!CallType /\ Tools!Hides(calls[c], Old)
      /\ Tools!Permitted(calls[c], c, lock, used) /\ {"run"} \subseteq Tools!Ats
  BY ToolsOfCall DEF Tools!Ats
<1>3. /\ calls[c].quoted = {} /\ calls[c].kept \subseteq meta /\ calls[c].kind \in {"tool", "llm"}
      /\ Tools!Hidden(calls[c]) \subseteq calls[c].red
  BY <1>1, <1>2 DEF Tools!Hides, Tools!Permitted
<1>4. CASE Tools!Goto(c, "done")
  BY <1>1, <1>4, ToolsDoneInv
<1>5. CASE calls[c].text \cap calls[c].red = {} /\ Tools!Put(Tools!Launch(Tools!Move(c, "run")), c)
  <2>1. PICK m : /\ m = Tools!Move(c, "run") /\ m \in Tools!CallType /\ m.quoted = {} /\ m.inj = calls[c].inj
                 /\ m.kept = calls[c].kept /\ m.base = calls[c].base /\ m.red = calls[c].red /\ m.text = calls[c].text
                 /\ m.kind = calls[c].kind
    BY <1>2, <1>3, ToolsMove
  <2>2. Tools!Hidden(m) \subseteq m.red /\ m.text \cap m.red = {}
    BY <1>3, <1>5, <2>1 DEF Tools!Hidden
  <2>3. PICK r : r = Tools!Launch(m) /\ r = [m EXCEPT !.at = "run", !.row = "pending"] /\ r \in Tools!CallType
    BY <2>1, <2>2, ToolsLaunch
  <2>4. /\ r.at = "run" /\ r.quoted = {} /\ r.inj = calls[c].inj /\ r.kept = calls[c].kept /\ r.base = calls[c].base
        /\ r.red = calls[c].red /\ r.kind = calls[c].kind
    BY <2>1, <2>3 DEF Tools!CallType
  <2>5. Tools!Permitted(r, c, lock, used)
    BY <1>3, <2>4 DEF Tools!Permitted, Tools!HasTurn, Tools!Admitted
  <2>6. Tools!Hides(r, Old)
    BY <1>3, <2>4 DEF Tools!Hides, Tools!Hidden
  <2> QED BY <1>1, <1>5, <2>1, <2>3, <2>4, <2>5, <2>6, ToolsGoInv DEF Suits
<1> QED BY <1>4, <1>5 DEF Tools!beginToolAudit

\* A step has run, and shows what it printed.
LEMMA ToolsFinalizeInv ==
  ASSUME Tools!Lawful, Tools!IInv, NEW c \in Calls, Tools!finalizeToolAudit(c)
  PROVE  Tools!IInv'
<1>1. UNCHANGED <<config, policy, meta, files, edit, used, lock>> /\ calls[c].at = "run"
  BY DEF Tools!finalizeToolAudit, Tools!At
<1>2. calls[c] \in Tools!CallType /\ Tools!Hides(calls[c], Old) /\ "done" \in Tools!Ats
  BY ToolsOfCall DEF Tools!Ats
<1>3. calls[c].quoted = {} /\ Tools!Hidden(calls[c]) \subseteq calls[c].red
  BY <1>1, <1>2 DEF Tools!Hides
<1>4. PICK m : /\ m = Tools!Move(c, "done") /\ m \in Tools!CallType /\ m.quoted = {} /\ m.inj = calls[c].inj
               /\ m.kept = calls[c].kept /\ m.base = calls[c].base /\ m.red = calls[c].red /\ m.at = "done"
  BY <1>2, <1>3, ToolsMove
<1>5. PICK r : r = [m EXCEPT !.row = "final"]
  OBVIOUS
<1>6. r \in Tools!CallType /\ r.quoted = {} /\ r.inj = m.inj /\ r.kept = m.kept /\ r.base = m.base /\ r.red = m.red
      /\ r.at = "done"
  BY <1>4, <1>5 DEF Tools!CallType
<1>7. Tools!Printed(m) = m /\ Tools!Printed(r) = r
  BY <1>3, <1>4, <1>6, ToolsPrinted DEF Tools!Hidden
<1>8. (Tools!Put(r, c) \/ Tools!Put(m, c)) /\ (Tools!Fine \/ Tools!Fault)
  BY <1>4, <1>5, <1>7 DEF Tools!finalizeToolAudit
<1> QED BY <1>1, <1>4, <1>6, <1>8, ToolsGoInv DEF Suits

\* A step asks the model.
LEMMA ToolsLLMInv ==
  ASSUME Tools!Lawful, Tools!IInv, NEW c \in Calls, Tools!LLM(c)
  PROVE  Tools!IInv'
<1>1. UNCHANGED <<config, policy, meta, files, edit, used, lock>> /\ calls[c].at = "llm" /\ Tools!Fine
  BY DEF Tools!LLM, Tools!At
<1>2. calls[c] \in Tools!CallType /\ Tools!Hides(calls[c], Old) /\ "done" \in Tools!Ats
  BY ToolsOfCall DEF Tools!Ats
<1>3. calls[c].quoted = {} /\ Tools!Hidden(calls[c]) \subseteq calls[c].red
  BY <1>1, <1>2 DEF Tools!Hides
<1>4. CASE Tools!Goto(c, "done")
  BY <1>1, <1>4, ToolsDoneInv
<1>5. CASE calls[c].text \cap calls[c].red = {} /\ Tools!Put(Tools!Shows(Tools!Move(c, "done"), calls[c].text), c)
  <2>1. PICK m : /\ m = Tools!Move(c, "done") /\ m \in Tools!CallType /\ m.quoted = {} /\ m.inj = calls[c].inj
                 /\ m.kept = calls[c].kept /\ m.base = calls[c].base /\ m.at = "done"
    BY <1>2, <1>3, ToolsMove
  <2>2. calls[c].text \cap Tools!Hidden(m) = {}
    BY <1>3, <1>5, <2>1 DEF Tools!Hidden
  <2>3. Tools!Put(m, c)
    BY <1>5, <2>1, <2>2, ToolsShows
  <2> QED BY <1>1, <2>1, <2>3, ToolsGoInv DEF Suits
<1> QED BY <1>4, <1>5 DEF Tools!LLM
-----------------------------------------------------------------------------
\* The user saves a policy, and the call that has its turn sees it in force.
LEMMA ToolsPolicyInv ==
  ASSUME Tools!Lawful, Tools!IInv, Tools!SavePolicy
  PROVE  Tools!IInv'
<1>1. PICK p \in Policies : policy' = Tools!Issued(p, budget.old)
  BY DEF Tools!SavePolicy
<1>2. policy' \in Tools!PolicyType /\ policy'.grants \subseteq budget.old
  BY <1>1 DEF Tools!Lawful, Tools!Issued, Tools!PolicyType
<1>3. /\ UNCHANGED <<config, meta, files, edit, used, lock>>
      /\ calls' = [c \in Calls |-> [calls[c] EXCEPT !.inforce = IF lock = c THEN @ \cup {policy'} ELSE @]]
  BY DEF Tools!SavePolicy
<1>4. budget' \in [edit : Nat, fault : Nat, old : SUBSET Secrets] /\ budget'.old = budget.old
  <2>1. budget \in [edit : Nat, fault : Nat, old : SUBSET Secrets]
    BY DEF Tools!IInv, Tools!TypeOK
  <2>2. budget' = [budget EXCEPT !.edit = budget.edit - 1] /\ budget.edit - 1 \in Nat
    BY <2>1 DEF Tools!SavePolicy
  <2> QED BY <2>1, <2>2
<1>5. ASSUME NEW c \in Calls
      PROVE  /\ calls'[c] \in Tools!CallType /\ Tools!Permitted(calls[c], c, lock, used)'
             /\ Tools!Hides(calls[c], budget.old)' /\ calls'[c].kept = calls[c].kept
  <2>1. calls[c] \in Tools!CallType /\ Tools!Permitted(calls[c], c, lock, used) /\ Tools!Hides(calls[c], budget.old)
    BY ToolsOfCall DEF Old
  <2>2. PICK n : n = IF lock = c THEN calls[c].inforce \cup {policy'} ELSE calls[c].inforce
    OBVIOUS
  <2>3. n \in SUBSET Tools!PolicyType /\ calls[c].inforce \subseteq n /\ (lock = c => policy' \in n)
    BY <1>2, <2>1, <2>2 DEF Tools!CallType
  <2>4. PICK r : r = [calls[c] EXCEPT !.inforce = n]
    OBVIOUS
  <2>5. calls'[c] = r
    BY <1>3, <2>2, <2>4
  <2>6. /\ r \in Tools!CallType /\ r.inforce = n
        /\ r.at = calls[c].at /\ r.kind = calls[c].kind /\ r.text = calls[c].text /\ r.net = calls[c].net
        /\ r.env = calls[c].env /\ r.base = calls[c].base /\ r.red = calls[c].red /\ r.inj = calls[c].inj
        /\ r.said = calls[c].said /\ r.row = calls[c].row /\ r.quoted = calls[c].quoted /\ r.kept = calls[c].kept
    BY <2>1, <2>3, <2>4 DEF Tools!CallType
  <2>7. Tools!Permitted(calls[c], c, lock, used)'
    BY <1>3, <2>1, <2>3, <2>5, <2>6 DEF Tools!Permitted, Tools!HasTurn, Tools!Admitted
  <2>8. Tools!Hides(calls[c], budget.old)'
    BY <1>3, <1>4, <2>1, <2>5, <2>6 DEF Tools!Hides, Tools!Hidden
  <2> QED BY <2>5, <2>6, <2>7, <2>8
<1>6. Tools!TypeOK'
  <2>1. calls' \in [Calls -> Tools!CallType]
    BY <1>3, <1>5
  <2> QED BY <1>2, <1>3, <1>4, <2>1 DEF Tools!IInv, Tools!TypeOK
<1>7. Tools!VaultInv'
  BY <1>2, <1>3, <1>4, <1>5 DEF Tools!IInv, Tools!VaultInv
<1>8. Tools!CallInv'
  BY <1>5 DEF Tools!CallInv
<1> QED BY <1>6, <1>7, <1>8 DEF Tools!IInv

\* The vault changes, the calls do not: nothing that is kept goes away, and what comes is new.
LEMMA ToolsVaultChanges ==
  ASSUME Tools!Lawful, Tools!IInv, UNCHANGED <<config, policy, used, lock, calls>>,
         budget' \in [edit : Nat, fault : Nat, old : SUBSET Secrets],
         meta' \in SUBSET Secrets, files' \in SUBSET Secrets, Tools!VaultInv', budget.old \subseteq budget'.old,
         \A c \in Calls : calls[c].kept \subseteq meta',
         meta' \cap budget.old \subseteq meta
  PROVE  Tools!IInv'
<1>1. Tools!TypeOK'
  BY DEF Tools!IInv, Tools!TypeOK
<1>2. ASSUME NEW c \in Calls PROVE Tools!Permitted(calls[c], c, lock, used)' /\ Tools!Hides(calls[c], budget.old)'
  <2>1. Tools!Permitted(calls[c], c, lock, used) /\ Tools!Hides(calls[c], budget.old)
    BY ToolsOfCall DEF Old
  <2>2. Tools!Permitted(calls[c], c, lock, used)'
    BY <2>1 DEF Tools!Permitted
  <2>3. calls[c].at = "inject" => calls[c].env.grants \cap meta' \subseteq calls[c].red
    BY <2>1 DEF Tools!Hides
  <2>4. calls[c].at \in {"recheck", "inject"} => calls[c].env.grants \subseteq budget'.old
    BY <2>1 DEF Tools!Hides
  <2>5. Tools!Hides(calls[c], budget.old)'
    BY <2>1, <2>3, <2>4 DEF Tools!Hides, Tools!Hidden
  <2> QED BY <2>2, <2>5
<1> QED BY <1>1, <1>2 DEF Tools!IInv, Tools!CallInv

\* The value of a secret is written, its row is deleted, or a new one is created.
LEMMA ToolsSecretInv ==
  ASSUME Tools!Lawful, Tools!IInv,
         Tools!writeBlob \/ Tools!DeleteSecretMeta \/ \E s \in Secrets : Tools!CreateSecret(s)
  PROVE  Tools!IInv'
<1>1. /\ budget \in [edit : Nat, fault : Nat, old : SUBSET Secrets] /\ meta \in SUBSET Secrets /\ files \in SUBSET Secrets
      /\ \A c \in Calls : calls[c].kept \subseteq meta
      /\ meta \subseteq budget.old /\ files \subseteq budget.old /\ policy.grants \subseteq budget.old
      /\ budget.old \in SUBSET Secrets
  BY DEF Tools!IInv, Tools!TypeOK, Tools!CallInv, Tools!Hides, Tools!VaultInv
<1>2. ASSUME Tools!Fine \/ Tools!Fault
      PROVE  budget' \in [edit : Nat, fault : Nat, old : SUBSET Secrets] /\ budget'.old = budget.old
  <2>1. CASE Tools!Fault
    <3>1. budget' = [budget EXCEPT !.fault = budget.fault - 1] /\ budget.fault - 1 \in Nat
      BY <1>1, <2>1 DEF Tools!Fault
    <3> QED BY <1>1, <3>1
  <2> QED BY <1>1, <1>2, <2>1 DEF Tools!Fine
<1>3. ASSUME edit.what \in {"put", "delete"}, edit # Tools!NoEdit
      PROVE  edit.s \in Secrets /\ edit.s \notin files /\ \A c \in Calls : edit.s \notin calls[c].kept
  BY <1>1, <1>3 DEF Tools!IInv, Tools!VaultInv
<1>4. Tools!NoEdit.what = "none"
  BY DEF Tools!NoEdit
<1>5. CASE Tools!writeBlob
  <2>1. /\ UNCHANGED <<config, policy, used, lock, calls>> /\ edit.what = "put" /\ edit' = Tools!NoEdit
        /\ Tools!Fine \/ Tools!Fault
        /\ \/ files' = files \cup {edit.s} /\ UNCHANGED meta
           \/ meta' \in {meta \ {edit.s}, meta} /\ UNCHANGED files
    BY <1>5 DEF Tools!writeBlob
  <2>2. edit # Tools!NoEdit
    BY <1>4, <2>1
  <2>3. edit.s \in budget.old
    BY <2>1, <2>2 DEF Tools!IInv, Tools!VaultInv
  <2>4. files' \in SUBSET Secrets /\ meta' \in SUBSET Secrets /\ meta' \subseteq meta /\ files' \subseteq budget.old
    BY <1>1, <1>3, <2>1, <2>2, <2>3
  <2>5. \A c \in Calls : calls[c].kept \subseteq meta'
    BY <1>1, <1>3, <2>1, <2>2
  <2>6. Tools!VaultInv'
    BY <1>1, <1>2, <2>1, <2>4 DEF Tools!VaultInv
  <2>7. budget' \in [edit : Nat, fault : Nat, old : SUBSET Secrets] /\ budget'.old = budget.old
    BY <1>2, <2>1
  <2> QED BY <2>1, <2>4, <2>5, <2>6, <2>7, ToolsVaultChanges
<1>6. CASE Tools!DeleteSecretMeta
  <2>1. /\ UNCHANGED <<config, policy, used, lock, calls, files>> /\ edit.what = "delete" /\ edit' = Tools!NoEdit
        /\ Tools!Fine \/ Tools!Fault
        /\ meta' = meta \ {edit.s} \/ UNCHANGED meta
    BY <1>6 DEF Tools!DeleteSecretMeta
  <2>2. edit # Tools!NoEdit
    BY <1>4, <2>1
  <2>3. meta' \in SUBSET Secrets /\ meta' \subseteq meta
    BY <1>1, <2>1
  <2>4. \A c \in Calls : calls[c].kept \subseteq meta'
    BY <1>1, <1>3, <2>1, <2>2
  <2>5. Tools!VaultInv'
    BY <1>1, <1>2, <2>1, <2>3 DEF Tools!VaultInv
  <2>6. budget' \in [edit : Nat, fault : Nat, old : SUBSET Secrets] /\ budget'.old = budget.old
    BY <1>2, <2>1
  <2> QED BY <1>1, <2>1, <2>3, <2>4, <2>5, <2>6, ToolsVaultChanges
<1>7. ASSUME NEW s \in Secrets, Tools!CreateSecret(s) PROVE Tools!IInv'
  <2>1. /\ UNCHANGED <<config, policy, used, lock, calls, files>> /\ meta = {} /\ s \notin budget.old
        /\ meta' = {s} /\ edit' = [what |-> "put", s |-> s] /\ budget.edit > 0
        /\ budget' = [budget EXCEPT !.edit = budget.edit - 1, !.old = budget.old \cup {s}]
    BY <1>7 DEF Tools!CreateSecret
  <2>2. /\ budget' \in [edit : Nat, fault : Nat, old : SUBSET Secrets] /\ budget'.old = budget.old \cup {s}
    <3>1. budget.edit - 1 \in Nat /\ budget.old \cup {s} \in SUBSET Secrets
      BY <1>1, <2>1
    <3> QED BY <1>1, <2>1, <3>1
  <2>3. \A c \in Calls : calls[c].kept = {}
    BY <1>1, <2>1
  <2>4. edit'.what = "put" /\ edit'.s = s
    BY <2>1
  <2>5. Tools!VaultInv'
    BY <1>1, <2>1, <2>2, <2>3, <2>4 DEF Tools!VaultInv
  <2> QED BY <1>1, <2>1, <2>2, <2>3, <2>5, ToolsVaultChanges
<1> QED BY <1>5, <1>6, <1>7

\* A secret is deleted: nobody counts on it any more.
LEMMA ToolsDeleteInv ==
  ASSUME Tools!Lawful, Tools!IInv, NEW s \in Secrets, Tools!DeleteSecret(s)
  PROVE  Tools!IInv'
<1>1. /\ UNCHANGED <<config, policy, meta, used, lock>> /\ files' = files \ {s} /\ edit' = [what |-> "delete", s |-> s]
      /\ calls' = [c \in Calls |-> [calls[c] EXCEPT !.kept = @ \ {s}]] /\ s \in meta
      /\ budget.edit > 0 /\ budget' = [budget EXCEPT !.edit = budget.edit - 1]
  BY DEF Tools!DeleteSecret
<1>2. budget' \in [edit : Nat, fault : Nat, old : SUBSET Secrets] /\ budget'.old = budget.old
  <2>1. budget \in [edit : Nat, fault : Nat, old : SUBSET Secrets]
    BY DEF Tools!IInv, Tools!TypeOK
  <2>2. budget.edit - 1 \in Nat
    BY <1>1, <2>1
  <2> QED BY <1>1, <2>1, <2>2
<1>3. ASSUME NEW c \in Calls
      PROVE  /\ calls'[c] \in Tools!CallType /\ Tools!Permitted(calls[c], c, lock, used)'
             /\ Tools!Hides(calls[c], budget.old)' /\ s \notin calls'[c].kept
  <2>1. calls[c] \in Tools!CallType /\ Tools!Permitted(calls[c], c, lock, used) /\ Tools!Hides(calls[c], budget.old)
    BY ToolsOfCall DEF Old
  <2>2. PICK r : r = [calls[c] EXCEPT !.kept = calls[c].kept \ {s}]
    OBVIOUS
  <2>3. calls'[c] = r
    BY <1>1, <2>2
  <2>4. /\ r \in Tools!CallType /\ r.kept = calls[c].kept \ {s}
        /\ r.at = calls[c].at /\ r.kind = calls[c].kind /\ r.text = calls[c].text /\ r.net = calls[c].net
        /\ r.env = calls[c].env /\ r.base = calls[c].base /\ r.red = calls[c].red /\ r.inj = calls[c].inj
        /\ r.said = calls[c].said /\ r.row = calls[c].row /\ r.quoted = calls[c].quoted
        /\ r.inforce = calls[c].inforce
    BY <2>1, <2>2 DEF Tools!CallType
  <2>5. Tools!Permitted(calls[c], c, lock, used)'
    BY <1>1, <2>1, <2>3, <2>4 DEF Tools!Permitted, Tools!HasTurn, Tools!Admitted
  <2>6. Tools!Hidden(r) \subseteq Tools!Hidden(calls[c])
    BY <2>4 DEF Tools!Hidden
  <2>7. Tools!Hides(r, budget.old)
    BY <2>1, <2>4, <2>6 DEF Tools!Hides
  <2>8. Tools!Hides(calls[c], budget.old)'
    BY <1>1, <1>2, <2>3, <2>7 DEF Tools!Hides, Tools!Hidden
  <2> QED BY <2>3, <2>4, <2>5, <2>8
<1>4. Tools!TypeOK'
  <2>1. calls' \in [Calls -> Tools!CallType]
    BY <1>1, <1>3
  <2>2. files' \in SUBSET Secrets
    BY <1>1 DEF Tools!IInv, Tools!TypeOK
  <2> QED BY <1>1, <1>2, <2>1, <2>2 DEF Tools!IInv, Tools!TypeOK
<1>5. Tools!VaultInv'
  <2>1. edit'.what = "delete" /\ edit'.s = s /\ s \notin files'
    BY <1>1
  <2> QED BY <1>1, <1>2, <1>3, <2>1 DEF Tools!IInv, Tools!VaultInv
<1>6. Tools!CallInv'
  BY <1>3 DEF Tools!CallInv
<1> QED BY <1>4, <1>5, <1>6 DEF Tools!IInv

\* It holds to begin with.
LEMMA ToolsInitInv == ASSUME Tools!Lawful PROVE Tools!Init => Tools!IInv
<1> SUFFICES ASSUME Tools!Init PROVE Tools!IInv
  OBVIOUS
<1>1. meta \in SUBSET Secrets /\ files = meta
  BY DEF Tools!Init
<1>2. policy \in Tools!PolicyType /\ policy.grants \subseteq meta
  <2>1. PICK p \in Policies : policy = Tools!Issued(p, meta)
    BY DEF Tools!Init
  <2> QED BY <2>1 DEF Tools!Issued, Tools!Lawful, Tools!PolicyType
<1>3. budget = [edit |-> MaxEdits, fault |-> MaxFaults, old |-> meta]
  BY DEF Tools!Init
<1>4. budget \in [edit : Nat, fault : Nat, old : SUBSET Secrets] /\ budget.old = meta
  BY <1>1, <1>3 DEF Tools!Lawful
<1>5. Tools!Idle \in Tools!CallType /\ Tools!Idle.at = "idle" /\ Tools!Idle.kept = {} /\ Tools!Idle.quoted = {}
      /\ Tools!Idle.inj = {} /\ Tools!Idle.base = {}
  <2>1. Tools!NoPolicy \in Tools!PolicyType /\ "idle" \in Tools!Ats
    BY DEF Tools!NoPolicy, Tools!PolicyType, Tools!Ats
  <2> QED BY <2>1 DEF Tools!Idle, Tools!CallType
<1>6. \A c \in Calls : calls[c] = Tools!Idle
  BY DEF Tools!Init
<1>7. Tools!TypeOK
  <2>1. calls \in [Calls -> Tools!CallType]
    BY <1>5 DEF Tools!Init
  <2>2. config \in [approval : {"always", "auto"}, isolated : BOOLEAN] /\ lock = Tools!NoHolder
    BY DEF Tools!Init
  <2> QED BY <1>1, <1>2, <1>4, <2>1, <2>2 DEF Tools!TypeOK
<1>8. Tools!VaultInv
  BY <1>1, <1>2, <1>4 DEF Tools!Init, Tools!VaultInv
<1>9. \A c \in Calls : Tools!Permitted(Tools!Idle, c, lock, used) /\ Tools!Hides(Tools!Idle, budget.old)
  BY <1>5 DEF Tools!Permitted, Tools!Hides, Tools!HasTurn, Tools!Admitted
<1> QED BY <1>6, <1>7, <1>8, <1>9 DEF Tools!IInv, Tools!CallInv

\* A call, a step, the user: it is kept.
LEMMA ToolsNextInv == ASSUME Tools!Lawful, Tools!IInv, Tools!Next \/ UNCHANGED Tools!vars PROVE Tools!IInv'
<1>1. CASE UNCHANGED Tools!vars
  <2>1. UNCHANGED <<config, policy, meta, files, edit, used, lock, calls, budget>>
    BY <1>1 DEF Tools!vars
  <2>2. Tools!TypeOK' /\ Tools!VaultInv'
    BY <2>1 DEF Tools!IInv, Tools!TypeOK, Tools!VaultInv
  <2>3. ASSUME NEW c \in Calls PROVE Tools!Permitted(calls[c], c, lock, used)' /\ Tools!Hides(calls[c], budget.old)'
    BY <2>1, ToolsOfCall DEF Old, Tools!Permitted, Tools!Hides, Tools!Hidden
  <2> QED BY <2>2, <2>3 DEF Tools!IInv, Tools!CallInv
<1>2. CASE Tools!User
  BY <1>2, ToolsPolicyInv, ToolsSecretInv, ToolsDeleteInv DEF Tools!User
<1>3. ASSUME NEW c \in Calls, Tools!Router(c) PROVE Tools!IInv'
  BY <1>3, ToolsHandleInv, ToolsRequestInv, ToolsCardInv, ToolsAuditDeniedInv, ToolsLockInv, ToolsReloadInv,
     ToolsRecheckInv, ToolsMaterializeInv, ToolsPreflightInv, ToolsFinishInv DEF Tools!Router
<1>4. ASSUME NEW c \in Calls, Tools!Executor(c) PROVE Tools!IInv'
  BY <1>4, ToolsStepInv, ToolsStepRedactorInv, ToolsGrantsInv, ToolsInjectableInv, ToolsBeginInv,
     ToolsFinalizeInv, ToolsLLMInv DEF Tools!Executor
<1> QED BY <1>1, <1>2, <1>3, <1>4 DEF Tools!Next

\* It implies what the services promise.
LEMMA ToolsKept ==
  ASSUME Tools!IInv PROVE Tools!RunsAsPermitted /\ Tools!NothingQuoted
<1>1. ASSUME NEW c \in Calls, Tools!At(c, "run"), calls[c].kind = "chat"
      PROVE  /\ lock = c /\ used <= Quota /\ calls[c].row = "pending"
             /\ config.approval = "always" => calls[c].said = "yes"
             /\ calls[c].inj # {} => config.isolated
             /\ calls[c].env \in calls[c].inforce /\ calls[c].env.tool /\ (calls[c].net => calls[c].env.net)
             /\ calls[c].inj \subseteq calls[c].env.grants
  <2>1. Tools!Permitted(calls[c], c, lock, used)
    BY ToolsOfCall
  <2> QED BY <1>1, <2>1 DEF Tools!Permitted, Tools!HasTurn, Tools!Admitted, Tools!At
<1>2. Tools!RunsAsPermitted
  BY <1>1 DEF Tools!RunsAsPermitted
<1>3. Tools!NothingQuoted
  BY DEF Tools!NothingQuoted, Tools!IInv, Tools!CallInv, Tools!Hides
<1> QED BY <1>2, <1>3

-----------------------------------------------------------------------------
(* AgentCredentials: no credential comes back, and what is revoked is stopped. *)

\* It holds to begin with.
LEMMA AgentsInitInv == ASSUME Agents!Named PROVE Agents!Init => Agents!IInv
<1> SUFFICES ASSUME Agents!Init PROVE Agents!IInv
  OBVIOUS
<1>1. /\ blob = NoBlob /\ profile = "none" /\ writes = 0 /\ op = Agents!IdleOp /\ ~torn
      /\ runLock = Nobody /\ runs = {} /\ torn = FALSE
      /\ past = [era |-> 0, done |-> 0, dead |-> {}, leaked |-> {}, crashes |-> MaxCrashes]
  BY DEF Agents!Init
<1>2. MaxWrites \in Nat /\ MaxEra \in Nat /\ MaxCrashes \in Nat
  BY DEF Agents!Named
<1>3. /\ past \in Agents!PastType /\ past.era = 0 /\ past.done = 0 /\ past.dead = {} /\ past.leaked = {}
  BY <1>1, <1>2 DEF Agents!PastType
<1>4. Agents!IdleOp \in Agents!OpType /\ op.by = "idle" /\ op.at = "none" /\ op.era = 0
  BY <1>1, <1>2 DEF Agents!IdleOp, Agents!OpType, Agents!Kinds, Agents!Blobs
<1>5. Agents!IdleCall \in Agents!CallType /\ Agents!IdleCall.at = "idle" /\ Agents!IdleCall.cred = NoBlob
  BY DEF Agents!IdleCall, Agents!CallType, Agents!Ats, Agents!Blobs
<1>6. Agents!IdleLogin \in Agents!LoginType /\ Agents!IdleLogin.at = "gone"
  BY <1>2 DEF Agents!IdleLogin, Agents!LoginType
<1>7. /\ call = [r \in Runs |-> Agents!IdleCall] /\ login = [l \in Logins |-> Agents!IdleLogin]
      /\ \A r \in Runs : call[r] = Agents!IdleCall
      /\ \A l \in Logins : login[l] = Agents!IdleLogin
  BY DEF Agents!Init
<1>8. call \in [Runs -> Agents!CallType] /\ login \in [Logins -> Agents!LoginType]
  BY <1>5, <1>6, <1>7
<1>9. Agents!TypeOK
  <2>1. blob \in Agents!Blobs /\ profile \in Agents!Kinds \cup {"none"} /\ writes \in 0 .. MaxWrites
    BY <1>1, <1>2 DEF Agents!Blobs
  <2>2. op \in Agents!OpType /\ torn \in BOOLEAN /\ past \in Agents!PastType
    BY <1>1, <1>3, <1>4
  <2>3. runLock \in Runs \cup {Nobody} /\ runs \subseteq Runs
    BY <1>1
  <2> QED BY <1>8, <2>1, <2>2, <2>3 DEF Agents!TypeOK
<1>10. Agents!Versions /\ Agents!Eras
  <2>1. Agents!Versions
    <3>1. \A r \in Runs : call[r].cred = NoBlob
      BY <1>5, <1>7
    <3> QED BY <1>1, <1>3, <3>1 DEF Agents!Versions
  <2>2. \A l \in Logins : login[l].at = "gone"
    BY <1>6, <1>7
  <2> QED BY <1>1, <1>3, <2>1, <2>2 DEF Agents!Eras
<1>11. Agents!Holding /\ Agents!Told
  BY <1>1, <1>3, <1>4 DEF Agents!Holding, Agents!Told, Agents!Replacing, Agents!Half, Agents!KindOf, Agents!Named
<1>12. Agents!Registered /\ Agents!RevokedRunsAreCancelled /\ Agents!NothingLeaks
  BY <1>3, <1>5, <1>7 DEF Agents!Registered, Agents!RevokedRunsAreCancelled, Agents!NothingLeaks, Agents!At
<1> QED BY <1>9, <1>10, <1>11, <1>12 DEF Agents!IInv

-----------------------------------------------------------------------------
\* Only the logins move.
LEMMA AgentsLoginMoves ==
  ASSUME Agents!IInv, UNCHANGED <<blob, profile, writes, op, call, runLock, runs, past, torn>>,
         login' \in [Logins -> Agents!LoginType],
         \A l \in Logins : login'[l].at # "gone" /\ ~login'[l].cancelled => login'[l].era = past.era,
         op.by \in Logins => login'[op.by].at = "confirmed"
  PROVE  Agents!IInv'
<1>1. Agents!TypeOK'
  BY DEF Agents!IInv, Agents!TypeOK
<1>2. Agents!Versions' /\ Agents!Eras'
  BY DEF Agents!IInv, Agents!Versions, Agents!Eras
<1>3. Agents!Holding' /\ Agents!Told'
  BY DEF Agents!IInv, Agents!Holding, Agents!Told, Agents!Replacing, Agents!Half, Agents!KindOf
<1>4. Agents!Registered' /\ Agents!RevokedRunsAreCancelled' /\ Agents!NothingLeaks'
  BY DEF Agents!IInv, Agents!Registered, Agents!RevokedRunsAreCancelled, Agents!NothingLeaks, Agents!At
<1> QED BY <1>1, <1>2, <1>3, <1>4 DEF Agents!IInv

\* One login moves: it was there, and it is not the one that is committing.
LEMMA AgentsOneLogin ==
  ASSUME Agents!IInv, UNCHANGED <<blob, profile, writes, op, call, runLock, runs, past, torn>>,
         NEW l \in Logins, NEW g \in Agents!LoginType, login' = [login EXCEPT ![l] = g],
         g.at = "gone" \/ g.cancelled \/ g.era = past.era,
         op.by # l \/ login[l].at # "confirmed"
  PROVE  Agents!IInv'
<1>1. /\ login \in [Logins -> Agents!LoginType]
      /\ \A k \in Logins : login[k].at # "gone" /\ ~login[k].cancelled => login[k].era = past.era
      /\ op.by \in Logins => login[op.by].at = "confirmed"
  BY DEF Agents!IInv, Agents!TypeOK, Agents!Eras, Agents!Holding
<1>2. login' \in [Logins -> Agents!LoginType] /\ login'[l] = g /\ \A k \in Logins \ {l} : login'[k] = login[k]
  BY <1>1
<1>3. op.by \in Logins => login'[op.by].at = "confirmed"
  BY <1>1, <1>2
<1>4. \A k \in Logins : login'[k].at # "gone" /\ ~login'[k].cancelled => login'[k].era = past.era
  BY <1>1, <1>2
<1> QED BY <1>2, <1>3, <1>4, AgentsLoginMoves

\* A login starts, waits, is cancelled or ends.
LEMMA AgentsLoginInv ==
  ASSUME Agents!Named, Agents!IInv, NEW l \in Logins,
         \/ Agents!StartLogin(l) \/ Agents!StartFails(l) \/ Agents!Attach(l) \/ Agents!Exit(l)
         \/ Agents!CancelLogin(l) \/ Agents!EndSession(l)
  PROVE  Agents!IInv'
<1>1. UNCHANGED <<blob, profile, writes, op, call, runLock, runs, past, torn>>
  BY DEF Agents!StartLogin, Agents!StartFails, Agents!Attach, Agents!Exit, Agents!CancelLogin, Agents!EndSession
<1>2. login[l] \in Agents!LoginType /\ past.era \in 0 .. MaxEra /\ login[l].era \in 0 .. MaxEra
  BY DEF Agents!IInv, Agents!TypeOK, Agents!PastType, Agents!LoginType
<1>3. Agents!IdleLogin \in Agents!LoginType /\ Agents!IdleLogin.at = "gone"
  BY <1>2 DEF Agents!IdleLogin, Agents!LoginType, Agents!Named
<1>4. login[l].at # "gone" /\ ~login[l].cancelled => login[l].era = past.era
  BY DEF Agents!IInv, Agents!Eras
<1>5. op.by = l => login[l].at = "confirmed"
  BY DEF Agents!IInv, Agents!Holding
<1>6. CASE Agents!StartLogin(l)
  <2>1. PICK g : g = [Agents!IdleLogin EXCEPT !.at = "starting", !.era = past.era]
    OBVIOUS
  <2>2. g \in Agents!LoginType /\ g.era = past.era
    BY <1>2, <1>3, <2>1 DEF Agents!LoginType
  <2>3. login' = [login EXCEPT ![l] = g] /\ login[l].at = "gone"
    BY <1>6, <2>1 DEF Agents!StartLogin
  <2> QED BY <1>1, <2>2, <2>3, AgentsOneLogin
<1>7. CASE Agents!StartFails(l)
  BY <1>1, <1>3, <1>7, AgentsOneLogin DEF Agents!StartFails
<1>8. CASE Agents!Attach(l)
  <2>1. PICK g : g = [login[l] EXCEPT !.at = "live"]
    OBVIOUS
  <2>2. g \in Agents!LoginType /\ g.era = login[l].era /\ g.cancelled = login[l].cancelled
    BY <1>2, <2>1 DEF Agents!LoginType
  <2>3. /\ login[l].at = "starting"
        /\ login' = [login EXCEPT ![l] = Agents!IdleLogin] \/ login' = [login EXCEPT ![l] = g]
    BY <1>8, <2>1 DEF Agents!Attach
  <2> QED BY <1>1, <1>3, <1>4, <2>2, <2>3, AgentsOneLogin
<1>9. CASE Agents!Exit(l)
  <2>1. login[l].at = "live"
    BY <1>9 DEF Agents!Exit
  <2>2. CASE login' = [login EXCEPT ![l].at = "ending"]
    <3>1. PICK g : g = [login[l] EXCEPT !.at = "ending"]
      OBVIOUS
    <3>2. g \in Agents!LoginType /\ g.era = login[l].era /\ g.cancelled = login[l].cancelled
      BY <1>2, <3>1 DEF Agents!LoginType
    <3>3. login' = [login EXCEPT ![l] = g]
      BY <2>2, <3>1
    <3> QED BY <1>1, <1>4, <2>1, <3>2, <3>3, AgentsOneLogin
  <2>3. ASSUME NEW v \in Values,
               login' = [login EXCEPT ![l] = [login[l] EXCEPT !.at = "confirmed", !.val = {v}]]
        PROVE  Agents!IInv'
    <3>1. PICK g : g = [login[l] EXCEPT !.at = "confirmed", !.val = {v}]
      OBVIOUS
    <3>2. g \in Agents!LoginType /\ g.era = login[l].era /\ g.cancelled = login[l].cancelled
      BY <1>2, <3>1 DEF Agents!LoginType
    <3>3. login' = [login EXCEPT ![l] = g]
      BY <2>3, <3>1
    <3> QED BY <1>1, <1>4, <2>1, <3>2, <3>3, AgentsOneLogin
  <2> QED BY <1>9, <2>2, <2>3 DEF Agents!Exit
<1>10. CASE Agents!CancelLogin(l)
  <2>1. PICK g : g = [login[l] EXCEPT !.cancelled = TRUE]
    OBVIOUS
  <2>2. g \in Agents!LoginType /\ g.cancelled
    BY <1>2, <2>1 DEF Agents!LoginType
  <2>3. login' = [login EXCEPT ![l] = g] /\ op.by # l
    BY <1>10, <2>1 DEF Agents!CancelLogin, Agents!MuFree
  <2> QED BY <1>1, <2>2, <2>3, AgentsOneLogin
<1>11. CASE Agents!EndSession(l)
  BY <1>1, <1>3, <1>11, AgentsOneLogin DEF Agents!EndSession
<1> QED BY <1>6, <1>7, <1>8, <1>9, <1>10, <1>11

-----------------------------------------------------------------------------
\* One run moves, and neither what is stored nor who replaces it.
LEMMA AgentsOneRun ==
  ASSUME Agents!IInv, UNCHANGED <<blob, profile, writes, op, login, past, torn>>,
         NEW r \in Runs, NEW c \in Agents!CallType, call' = [call EXCEPT ![r] = c],
         runLock' \in Runs \cup {Nobody}, runs' \subseteq Runs, runs \ {r} \subseteq runs',
         c.cred \in {NoBlob, blob, call[r].cred},
         c.at \in {"running", "persisting", "finishing"} => r \in runs',
         c.at \in {"launching", "running", "persisting"} => c.cred # NoBlob,
         c.at = "running" /\ c.cred.ver \in past.dead => c.cancelled
  PROVE  Agents!IInv'
<1>1. Agents!TypeOK'
  BY DEF Agents!IInv, Agents!TypeOK
<1>2. call'[r] = c /\ \A x \in Runs \ {r} : call'[x] = call[x]
  BY DEF Agents!IInv, Agents!TypeOK
<1>3. Agents!Versions'
  <2>1. c.cred # NoBlob => c.cred.ver <= writes /\ (blob # NoBlob /\ blob.ver = c.cred.ver => c.cred = blob)
    BY DEF Agents!IInv, Agents!Versions
  <2> QED BY <1>2, <2>1 DEF Agents!IInv, Agents!Versions
<1>4. Agents!Eras'
  BY DEF Agents!IInv, Agents!Eras
<1>5. Agents!Holding' /\ Agents!Told'
  BY DEF Agents!IInv, Agents!Holding, Agents!Told, Agents!Replacing, Agents!Half, Agents!KindOf
<1>6. Agents!Registered'
  BY <1>2 DEF Agents!IInv, Agents!Registered
<1>7. Agents!RevokedRunsAreCancelled' /\ Agents!NothingLeaks'
  BY <1>2 DEF Agents!IInv, Agents!RevokedRunsAreCancelled, Agents!NothingLeaks, Agents!At
<1> QED BY <1>1, <1>3, <1>4, <1>5, <1>6, <1>7 DEF Agents!IInv

\* What the invariant says of one run.
LEMMA AgentsOfRun ==
  ASSUME Agents!Named, Agents!IInv, NEW r \in Runs
  PROVE  /\ call[r] \in Agents!CallType /\ runs \subseteq Runs /\ runLock \in Runs \cup {Nobody}
         /\ profile \in Agents!Kinds \cup {"none"} /\ blob \in Agents!Blobs
         /\ call[r].at \in {"running", "persisting", "finishing"} => r \in runs
         /\ call[r].at \in {"launching", "running", "persisting"} => call[r].cred # NoBlob
         /\ call[r].at = "running" /\ call[r].cred.ver \in past.dead => call[r].cancelled
         /\ Agents!IdleCall \in Agents!CallType /\ Agents!IdleCall.at = "idle" /\ Agents!IdleCall.cred = NoBlob
<1>1. Agents!IdleCall \in Agents!CallType /\ Agents!IdleCall.at = "idle" /\ Agents!IdleCall.cred = NoBlob
  BY DEF Agents!IdleCall, Agents!CallType, Agents!Ats, Agents!Blobs
<1>2. call[r] \in Agents!CallType
  BY DEF Agents!IInv, Agents!TypeOK
<1> QED BY <1>1, <1>2 DEF Agents!IInv, Agents!TypeOK, Agents!Registered, Agents!RevokedRunsAreCancelled, Agents!At

\* A run that waits, asks, reads or leaves: it is not past the fence.
LEMMA AgentsBefore ==
  ASSUME Agents!Named, Agents!IInv, UNCHANGED <<blob, profile, writes, op, login, past, torn, runs>>,
         NEW r \in Runs, NEW c \in Agents!CallType, Agents!Set(r, c),
         runLock' \in Runs \cup {Nobody},
         c.cred \in {NoBlob, blob, call[r].cred},
         c.at \notin {"launching", "running", "persisting", "finishing"}
  PROVE  Agents!IInv'
<1>1. runs \subseteq Runs
  BY AgentsOfRun
<1>2. call' = [call EXCEPT ![r] = c]
  BY DEF Agents!Set
<1> QED BY <1>1, <1>2, AgentsOneRun

\* Nothing is shown that is known: nothing has leaked.
LEMMA AgentsNoLeak ==
  ASSUME Agents!IInv, NEW shown, NEW known, shown \cap known = {}, Agents!Leak(shown, known)
  PROVE  past' = past
<1>1. past \in Agents!PastType
  BY DEF Agents!IInv, Agents!TypeOK
<1>2. past' = [past EXCEPT !.leaked = past.leaked \cup (shown \cap known)] /\ past.leaked \cup (shown \cap known) = past.leaked
  BY DEF Agents!Leak
<1> QED BY <1>1, <1>2 DEF Agents!PastType

\* A call begins.
LEMMA AgentsHandleInv ==
  ASSUME Agents!Named, Agents!IInv, NEW r \in Runs, NEW unasked \in BOOLEAN, NEW q \in Agents!Quotes,
         Agents!Handle(r, unasked, q)
  PROVE  Agents!IInv'
<1>1. PICK c : c = [Agents!IdleCall EXCEPT !.at = "asking", !.auto = unasked, !.prompt = q, !.type = profile]
  OBVIOUS
<1>2. q \in SUBSET Values
  BY DEF Agents!Quotes
<1>3. c \in Agents!CallType /\ c.cred = NoBlob /\ c.at = "asking"
  BY <1>1, <1>2, AgentsOfRun DEF Agents!CallType, Agents!Ats
<1>4. UNCHANGED <<blob, profile, writes, op, runLock, runs, login, past, torn>> /\ Agents!Set(r, c)
  BY <1>1 DEF Agents!Handle
<1> QED BY <1>3, <1>4, AgentsBefore, AgentsOfRun

\* What is known is read, and the card is decided.
LEMMA AgentsCardInv ==
  ASSUME Agents!Named, Agents!IInv, NEW r \in Runs, Agents!Snapshot(r) \/ Agents!Decide(r) \/ Agents!Deny(r)
  PROVE  Agents!IInv'
<1>1. UNCHANGED <<blob, profile, writes, op, runLock, runs, login, past, torn>>
  BY DEF Agents!Snapshot, Agents!Decide, Agents!Deny
<1>2. ASSUME Agents!Set(r, Agents!IdleCall) PROVE Agents!IInv'
  BY <1>1, <1>2, AgentsBefore, AgentsOfRun
<1>3. CASE Agents!Snapshot(r)
  <2>1. PICK ok \in {Agents!Readable(call[r].type), FALSE} :
          Agents!Set(r, [call[r] EXCEPT !.at = IF call[r].auto THEN "queued" ELSE "asked",
                                        !.pre = IF ok THEN blob.val ELSE {}])
    BY <1>3 DEF Agents!Snapshot
  <2>2. PICK at : at = IF call[r].auto THEN "queued" ELSE "asked"
    OBVIOUS
  <2>3. PICK pre : pre = IF ok THEN blob.val ELSE {}
    OBVIOUS
  <2>4. pre \in SUBSET Values
    <3>1. ok => blob # NoBlob
      BY <2>1 DEF Agents!Readable
    <3> QED BY <2>3, <3>1, AgentsOfRun DEF Agents!Blobs, Agents!Written
  <2>5. PICK c : c = [call[r] EXCEPT !.at = at, !.pre = pre]
    OBVIOUS
  <2>6. c \in Agents!CallType /\ c.cred = call[r].cred /\ c.at \in {"queued", "asked"}
    BY <2>2, <2>4, <2>5, AgentsOfRun DEF Agents!CallType, Agents!Ats
  <2>7. Agents!Set(r, c)
    BY <2>1, <2>2, <2>3, <2>5
  <2> QED BY <1>1, <2>6, <2>7, AgentsBefore, AgentsOfRun
<1>4. CASE Agents!Decide(r)
  <2>1. PICK where \in {"queued", "denied", "idle"} :
          Agents!Set(r, IF where = "idle" THEN Agents!IdleCall ELSE [call[r] EXCEPT !.at = where])
    BY <1>4 DEF Agents!Decide
  <2>2. PICK c : c = [call[r] EXCEPT !.at = where]
    OBVIOUS
  <2>3. c \in Agents!CallType /\ c.cred = call[r].cred /\ c.at = where
    BY <2>2, AgentsOfRun DEF Agents!CallType, Agents!Ats
  <2>4. Agents!Set(r, Agents!IdleCall) \/ Agents!Set(r, c)
    BY <2>1, <2>2
  <2> QED BY <1>1, <1>2, <2>3, <2>4, AgentsBefore, AgentsOfRun
<1>5. CASE Agents!Deny(r)
  <2>1. PICK c : c = [call[r] EXCEPT !.at = "denying", !.type = profile]
    OBVIOUS
  <2>2. c \in Agents!CallType /\ c.cred = call[r].cred /\ c.at = "denying"
    BY <2>1, AgentsOfRun DEF Agents!CallType, Agents!Ats
  <2>3. Agents!Set(r, Agents!IdleCall) \/ Agents!Set(r, c)
    BY <1>5, <2>1 DEF Agents!Deny
  <2> QED BY <1>1, <1>2, <2>2, <2>3, AgentsBefore, AgentsOfRun
<1> QED BY <1>3, <1>4, <1>5

\* The audit row of a call that was denied shows nothing that is known.
LEMMA AgentsDeniedInv ==
  ASSUME Agents!Named, Agents!IInv, NEW r \in Runs, Agents!AuditDenied(r)
  PROVE  Agents!IInv'
<1>1. UNCHANGED <<blob, profile, writes, op, runLock, runs, login, torn>> /\ Agents!Set(r, Agents!IdleCall)
  BY DEF Agents!AuditDenied
<1>2. CASE UNCHANGED past
  BY <1>1, <1>2, AgentsBefore, AgentsOfRun
<1>3. CASE /\ call[r].type = "none" \/ Agents!Readable(call[r].type)
           /\ Agents!Leak(Agents!DenySummary(r),
                          call[r].pre \cup (IF call[r].type = "none" THEN {} ELSE Agents!ContentsOf(blob)))
  <2>1. PICK known : known = call[r].pre \cup (IF call[r].type = "none" THEN {} ELSE Agents!ContentsOf(blob))
    OBVIOUS
  <2>2. known = call[r].pre \cup (IF call[r].type = "none" THEN {} ELSE blob.val)
    BY <1>3, <2>1 DEF Agents!Readable, Agents!ContentsOf
  <2>3. Agents!DenySummary(r) \cap known = {}
    BY <2>2 DEF Agents!DenySummary
  <2>4. past' = past
    BY <1>3, <2>1, <2>3, AgentsNoLeak
  <2> QED BY <1>1, <2>4, AgentsBefore, AgentsOfRun
<1> QED BY <1>2, <1>3 DEF Agents!AuditDenied

\* A run has the user's lock, and reads the credential that it binds.
LEMMA AgentsLoadInv ==
  ASSUME Agents!Named, Agents!IInv, NEW r \in Runs, Agents!Dequeue(r) \/ Agents!Load(r)
  PROVE  Agents!IInv'
<1>1. UNCHANGED <<blob, profile, writes, op, runs, login, past, torn>>
  BY DEF Agents!Dequeue, Agents!Load
<1>2. CASE Agents!Dequeue(r)
  <2>1. PICK c : c = [call[r] EXCEPT !.at = "loading", !.type = profile]
    OBVIOUS
  <2>2. c \in Agents!CallType /\ c.cred = call[r].cred /\ c.at = "loading"
    BY <2>1, AgentsOfRun DEF Agents!CallType, Agents!Ats
  <2>3. \/ Agents!Set(r, Agents!IdleCall) /\ UNCHANGED runLock
        \/ Agents!Set(r, c) /\ runLock' = r
    BY <1>2, <2>1 DEF Agents!Dequeue
  <2>4. runLock' \in Runs \cup {Nobody}
    BY <2>3, AgentsOfRun
  <2> QED BY <1>1, <2>2, <2>3, <2>4, AgentsBefore, AgentsOfRun
<1>3. CASE Agents!Load(r)
  <2>1. PICK b \in {blob, NoBlob} : Agents!Set(r, [call[r] EXCEPT !.at = "checking", !.cred = b])
    BY <1>3 DEF Agents!Load
  <2>2. b \in Agents!Blobs
    BY AgentsOfRun DEF Agents!Blobs
  <2>3. PICK c : c = [call[r] EXCEPT !.at = "checking", !.cred = b]
    OBVIOUS
  <2>4. c \in Agents!CallType /\ c.cred = b /\ c.at = "checking"
    BY <2>2, <2>3, AgentsOfRun DEF Agents!CallType, Agents!Ats
  <2>5. UNCHANGED runLock
    BY <1>3 DEF Agents!Load
  <2> QED BY <1>1, <2>1, <2>3, <2>4, <2>5, AgentsBefore, AgentsOfRun
<1> QED BY <1>2, <1>3

\* The audit row that comes before the run shows nothing that is known.
LEMMA AgentsPrepareInv ==
  ASSUME Agents!Named, Agents!IInv, NEW r \in Runs, Agents!Prepare(r)
  PROVE  Agents!IInv'
<1>1. UNCHANGED <<blob, profile, writes, op, runs, login, torn>>
  BY DEF Agents!Prepare
<1>2. ASSUME Agents!Leave(r), UNCHANGED past PROVE Agents!IInv'
  <2>1. Agents!Set(r, Agents!IdleCall) /\ runLock' \in Runs \cup {Nobody}
    BY <1>2 DEF Agents!Leave
  <2> QED BY <1>1, <1>2, <2>1, AgentsBefore, AgentsOfRun
<1>3. ASSUME Agents!Materialized(r), Agents!Leak(Agents!Summary(r), call[r].pre \cup Agents!ContentsOf(call[r].cred))
      PROVE  UNCHANGED past
  <2>1. PICK known : known = call[r].pre \cup Agents!ContentsOf(call[r].cred)
    OBVIOUS
  <2>2. known = Agents!Known(r)
    BY <1>3, <2>1 DEF Agents!Materialized, Agents!ContentsOf, Agents!Known
  <2>3. Agents!Summary(r) \cap known = {}
    BY <2>2 DEF Agents!Summary
  <2> QED BY <1>3, <2>1, <2>3, AgentsNoLeak
<1>4. ASSUME Agents!Materialized(r), UNCHANGED <<past, runLock>>, Agents!Set(r, [call[r] EXCEPT !.at = "launching"])
      PROVE  Agents!IInv'
  <2>1. PICK c : c = [call[r] EXCEPT !.at = "launching"]
    OBVIOUS
  <2>2. c \in Agents!CallType /\ c.cred = call[r].cred /\ c.at = "launching"
    BY <2>1, AgentsOfRun DEF Agents!CallType, Agents!Ats
  <2>3. call' = [call EXCEPT ![r] = c] /\ c.cred # NoBlob /\ runLock' \in Runs \cup {Nobody} /\ runs' = runs
        /\ runs' \subseteq Runs
    BY <1>1, <1>4, <2>1, <2>2, AgentsOfRun DEF Agents!Set, Agents!Materialized
  <2> QED BY <1>1, <1>4, <2>2, <2>3, AgentsOneRun
<1>5. CASE Agents!Unprepared(r)
  BY <1>2, <1>5 DEF Agents!Unprepared
<1>6. CASE ~Agents!Unprepared(r)
  <2>1. /\ Agents!Materialized(r) /\ UNCHANGED past
        /\ Agents!Leave(r) \/ (Agents!Set(r, [call[r] EXCEPT !.at = "launching"]) /\ UNCHANGED runLock)
    BY <1>3, <1>6 DEF Agents!Prepare
  <2> QED BY <1>2, <1>4, <2>1
<1> QED BY <1>5, <1>6

\* The fence: what is launched is what is stored, and nobody has revoked that.
LEMMA AgentsLaunchInv ==
  ASSUME Agents!Named, Agents!IInv, NEW r \in Runs, Agents!Launch(r)
  PROVE  Agents!IInv'
<1>1. /\ UNCHANGED <<blob, profile, writes, op, login, past, torn>> /\ call[r].at = "launching"
  BY DEF Agents!Launch, Agents!At
<1>2. CASE Agents!Unchanged(r)
  <2>1. PICK c : c = [call[r] EXCEPT !.at = "running"]
    OBVIOUS
  <2>2. /\ c \in Agents!CallType /\ c.cred = call[r].cred /\ c.at = "running" /\ c.cred # NoBlob
        /\ c.cred \in Agents!Written
    BY <1>1, <2>1, AgentsOfRun DEF Agents!CallType, Agents!Ats, Agents!Blobs
  <2>3. /\ call' = [call EXCEPT ![r] = c] /\ runs' = runs \cup {r} /\ UNCHANGED runLock
    BY <1>2, <2>1 DEF Agents!Launch, Agents!Set
  <2>4. c.cred.ver \notin past.dead
    <3>1. Agents!Version = c.cred.ver /\ c.cred.ver # 0
      BY <1>2, <2>2 DEF Agents!Unchanged, Agents!Written, Agents!Named
    <3>2. blob # NoBlob /\ blob.ver = c.cred.ver
      BY <3>1 DEF Agents!Version
    <3> QED BY <3>2 DEF Agents!IInv, Agents!Versions
  <2>5. runs' \subseteq Runs /\ r \in runs' /\ runs \ {r} \subseteq runs' /\ runLock' \in Runs \cup {Nobody}
    BY <2>3, AgentsOfRun
  <2> QED BY <1>1, <2>2, <2>3, <2>4, <2>5, AgentsOneRun
<1>3. CASE ~Agents!Unchanged(r)
  <2>1. Agents!Set(r, Agents!IdleCall) /\ runLock' \in Runs \cup {Nobody} /\ UNCHANGED runs
    BY <1>3 DEF Agents!Launch, Agents!Leave
  <2> QED BY <1>1, <2>1, AgentsBefore, AgentsOfRun
<1> QED BY <1>2, <1>3

\* A run is interrupted, or ends: what it shows is not what it knows.
LEMMA AgentsEndsInv ==
  ASSUME Agents!Named, Agents!IInv, NEW r \in Runs,
         Agents!Interrupt(r) \/ Agents!Ends(r) \/ Agents!Finish(r)
  PROVE  Agents!IInv'
<1>1. UNCHANGED <<blob, profile, writes, op, login, torn>>
  BY DEF Agents!Interrupt, Agents!Ends, Agents!Exited, Agents!Finish
<1>2. /\ call[r] \in Agents!CallType /\ runs \subseteq Runs /\ runLock \in Runs \cup {Nobody}
      /\ call[r].at = "running" => call[r].cred # NoBlob /\ r \in runs
  BY AgentsOfRun
<1>3. CASE Agents!Interrupt(r)
  <2>1. PICK c : c = [call[r] EXCEPT !.cancelled = TRUE]
    OBVIOUS
  <2>2. c \in Agents!CallType /\ c.cred = call[r].cred /\ c.at = call[r].at /\ c.cancelled
    BY <1>2, <2>1 DEF Agents!CallType
  <2>3. /\ call[r].at = "running" /\ call' = [call EXCEPT ![r] = c] /\ runs' = runs /\ UNCHANGED <<runLock, past>>
    BY <1>3, <2>1 DEF Agents!Interrupt, Agents!At, Agents!Set
  <2>4. runs' \subseteq Runs /\ runLock' \in Runs \cup {Nobody} /\ c.cred # NoBlob /\ r \in runs'
    BY <1>2, <2>3, <2>2
  <2> QED BY <1>1, <2>2, <2>3, <2>4, AgentsOneRun
<1>4. CASE Agents!Ends(r)
  <2>1. PICK m \in Agents!Quotes, clean \in BOOLEAN, scanned \in BOOLEAN : Agents!Exited(r, m, clean, scanned)
    BY <1>4 DEF Agents!Ends
  <2>2. m \in SUBSET Values
    BY DEF Agents!Quotes
  <2>3. PICK at : at = IF Agents!Persists(r, clean, scanned) THEN "persisting" ELSE "finishing"
    OBVIOUS
  <2>4. PICK c : c = [call[r] EXCEPT !.mint = m, !.at = at]
    OBVIOUS
  <2>5. c \in Agents!CallType /\ c.cred = call[r].cred /\ c.at \in {"persisting", "finishing"}
    BY <1>2, <2>2, <2>3, <2>4 DEF Agents!CallType, Agents!Ats
  <2>6. /\ call[r].at = "running" /\ call' = [call EXCEPT ![r] = c] /\ runs' = runs /\ UNCHANGED runLock
        /\ Agents!Leak(Agents!Shown(r, m, scanned), m \cup call[r].cred.val)
    BY <2>1, <2>3, <2>4 DEF Agents!Exited, Agents!At, Agents!Set
  <2>7. Agents!Shown(r, m, scanned) \cap (m \cup call[r].cred.val) = {}
    <3>1. call[r].cred.val \subseteq Agents!Known(r)
      BY DEF Agents!Known
    <3> QED BY <3>1 DEF Agents!Shown
  <2>8. past' = past
    BY <2>6, <2>7, AgentsNoLeak
  <2>9. runs' \subseteq Runs /\ runLock' \in Runs \cup {Nobody} /\ c.cred # NoBlob /\ r \in runs'
    BY <1>2, <2>5, <2>6
  <2> QED BY <1>1, <2>5, <2>6, <2>8, <2>9, AgentsOneRun
<1>5. CASE Agents!Finish(r)
  <2>1. /\ call' = [call EXCEPT ![r] = Agents!IdleCall] /\ runs' = runs \ {r} /\ runLock' = Nobody /\ UNCHANGED past
    BY <1>5 DEF Agents!Finish, Agents!Leave, Agents!Set
  <2>2. runs' \subseteq Runs /\ runLock' \in Runs \cup {Nobody} /\ runs \ {r} \subseteq runs'
    BY <1>2, <2>1
  <2> QED BY <1>1, <2>1, <2>2, AgentsOneRun, AgentsOfRun
<1> QED BY <1>3, <1>4, <1>5

\* A new blob has a version of its own.
LEMMA AgentsPut ==
  ASSUME Agents!Named, Agents!IInv, NEW k \in Agents!Kinds, NEW v \in SUBSET Values, NEW e \in 0 .. MaxEra,
         Agents!Put(k, v, e)
  PROVE  /\ blob' \in Agents!Written /\ blob' \in Agents!Blobs /\ blob' # NoBlob
         /\ blob'.kind = k /\ blob'.era = e /\ blob'.ver = writes + 1
         /\ writes' = writes + 1 /\ writes' \in 0 .. MaxWrites /\ writes \in Nat
<1>1. writes \in 0 .. MaxWrites /\ MaxWrites \in Nat /\ writes < MaxWrites /\ writes' = writes + 1
  BY DEF Agents!IInv, Agents!TypeOK, Agents!Put, Agents!Named
<1>2. writes + 1 \in 1 .. MaxWrites /\ writes' \in 0 .. MaxWrites /\ writes \in Nat
  BY <1>1
<1>3. blob' = [kind |-> k, val |-> v, ver |-> writes + 1, era |-> e]
  BY DEF Agents!Put
<1>4. blob' \in Agents!Written
  BY <1>2, <1>3 DEF Agents!Written
<1> QED BY <1>1, <1>2, <1>3, <1>4 DEF Agents!Blobs, Agents!Named

\* What is stored is new or gone, and the runs are as they were.
LEMMA AgentsVersions ==
  ASSUME Agents!Named, Agents!IInv, UNCHANGED call, past'.dead = past.dead,
         \/ blob' = NoBlob /\ writes' = writes
         \/ blob' = blob /\ writes' = writes
         \/ blob' # NoBlob /\ blob'.ver = writes + 1 /\ writes' = writes + 1
  PROVE  Agents!Versions'
<1>1. writes \in 0 .. MaxWrites /\ past.dead \subseteq 0 .. writes
  BY DEF Agents!IInv, Agents!TypeOK, Agents!Versions
<1>2. past'.dead \subseteq 0 .. writes'
  BY <1>1 DEF Agents!Named
<1>3. blob' # NoBlob => blob'.ver <= writes' /\ blob'.ver \notin past'.dead
  BY <1>1 DEF Agents!IInv, Agents!Versions
<1>4. ASSUME NEW r \in Runs, call[r].cred # NoBlob
      PROVE  /\ call[r].cred.ver <= writes'
             /\ blob' # NoBlob /\ blob'.ver = call[r].cred.ver => call[r].cred = blob'
  <2>1. call[r].cred.ver \in Nat /\ call[r].cred.ver <= writes
    BY <1>4 DEF Agents!IInv, Agents!TypeOK, Agents!CallType, Agents!Blobs, Agents!Written, Agents!Versions, Agents!Named
  <2> QED BY <1>1, <1>4, <2>1 DEF Agents!IInv, Agents!Versions
<1> QED BY <1>2, <1>3, <1>4 DEF Agents!Versions

\* A refreshed credential replaces the one it came from, of the same era, and no other.
LEMMA AgentsPersistInv ==
  ASSUME Agents!Named, Agents!IInv, NEW r \in Runs, Agents!Persist(r)
  PROVE  Agents!IInv'
<1>1. /\ UNCHANGED <<profile, op, runLock, runs, login, past, torn>> /\ op.by = "idle" /\ op.at = "none"
      /\ call[r].at = "persisting" /\ ~Agents!Half
  BY DEF Agents!Persist, Agents!CredLockFree, Agents!At, Agents!IInv, Agents!Holding, Agents!Half
<1>2. PICK c : c = [call[r] EXCEPT !.at = "finishing"]
  OBVIOUS
<1>3. /\ c \in Agents!CallType /\ c.cred = call[r].cred /\ c.at = "finishing" /\ c.cred # NoBlob /\ r \in runs
      /\ call[r].cred \in Agents!Written /\ call[r].mint \in SUBSET Values
  BY <1>1, <1>2, AgentsOfRun DEF Agents!CallType, Agents!Ats, Agents!Blobs
<1>4. call' = [call EXCEPT ![r] = c]
  BY <1>2 DEF Agents!Persist, Agents!Set
<1>5. call'[r] = c /\ \A x \in Runs \ {r} : call'[x] = call[x]
  BY <1>4 DEF Agents!IInv, Agents!TypeOK
<1>6. CASE UNCHANGED <<blob, writes>>
  <2>1. runs' \subseteq Runs /\ runs \ {r} \subseteq runs' /\ r \in runs' /\ runLock' \in Runs \cup {Nobody}
    BY <1>1, <1>3, AgentsOfRun
  <2> QED BY <1>1, <1>3, <1>4, <1>6, <2>1, AgentsOneRun
<1>7. CASE Agents!Fresh(r) /\ Agents!Put("tar", call[r].mint, call[r].cred.era)
  <2>1. call[r].cred.era \in 0 .. MaxEra /\ call[r].cred.ver \in 1 .. MaxWrites /\ "tar" \in Agents!Kinds
    BY <1>3 DEF Agents!Written, Agents!Kinds
  <2>2. /\ blob' \in Agents!Blobs /\ blob' # NoBlob /\ blob'.kind = "tar" /\ blob'.era = call[r].cred.era
        /\ blob'.ver = writes + 1 /\ writes' = writes + 1 /\ writes' \in 0 .. MaxWrites /\ writes \in Nat
    BY <1>3, <1>7, <2>1, AgentsPut
  <2>3. blob # NoBlob /\ blob = call[r].cred /\ profile = "tar"
    <3>1. profile = "tar" /\ Agents!Version = call[r].cred.ver /\ call[r].cred.ver # 0
      BY <1>7, <2>1 DEF Agents!Fresh, Agents!Named
    <3>2. blob # NoBlob /\ blob.ver = call[r].cred.ver
      BY <3>1 DEF Agents!Version
    <3> QED BY <1>3, <3>1, <3>2 DEF Agents!IInv, Agents!Versions
  <2>4. Agents!TypeOK'
    <3>1. call' \in [Runs -> Agents!CallType]
      BY <1>3, <1>4 DEF Agents!IInv, Agents!TypeOK
    <3> QED BY <1>1, <2>2, <3>1 DEF Agents!IInv, Agents!TypeOK
  <2>5. Agents!Versions'
    <3>1. past.dead \subseteq 0 .. writes /\ \A x \in Runs : call'[x].cred = call[x].cred
      BY <1>3, <1>5 DEF Agents!IInv, Agents!Versions
    <3>2. past'.dead \subseteq 0 .. writes' /\ blob'.ver <= writes' /\ blob'.ver \notin past'.dead
      BY <1>1, <2>2, <3>1
    <3>3. ASSUME NEW x \in Runs, call[x].cred # NoBlob
          PROVE  call[x].cred.ver <= writes' /\ blob'.ver # call[x].cred.ver
      <4>1. call[x].cred.ver \in Nat /\ call[x].cred.ver <= writes
        BY <3>3 DEF Agents!IInv, Agents!TypeOK, Agents!CallType, Agents!Blobs, Agents!Written, Agents!Versions, Agents!Named
      <4> QED BY <2>2, <4>1
    <3> QED BY <3>1, <3>2, <3>3 DEF Agents!Versions
  <2>6. Agents!Eras'
    BY <1>1, <2>2, <2>3 DEF Agents!IInv, Agents!Eras
  <2>7. Agents!Holding'
    BY <1>1 DEF Agents!IInv, Agents!Holding, Agents!Replacing, Agents!Half
  <2>8. Agents!Told'
    BY <1>1, <2>2, <2>3 DEF Agents!Told, Agents!Half, Agents!KindOf
  <2>9. Agents!Registered' /\ Agents!RevokedRunsAreCancelled' /\ Agents!NothingLeaks'
    BY <1>1, <1>3, <1>5 DEF Agents!IInv, Agents!Registered, Agents!RevokedRunsAreCancelled, Agents!NothingLeaks, Agents!At
  <2> QED BY <2>4, <2>5, <2>6, <2>7, <2>8, <2>9 DEF Agents!IInv
<1> QED BY <1>6, <1>7 DEF Agents!Persist

-----------------------------------------------------------------------------
\* The credential lock is taken; what is stored, and the runs, are as they were.
LEMMA AgentsTaken ==
  ASSUME Agents!Named, Agents!IInv, UNCHANGED <<blob, profile, writes, call, runLock, runs, torn>>,
         op' \in Agents!OpType, login' \in [Logins -> Agents!LoginType], past' \in Agents!PastType,
         past'.done = past.done, past'.dead = past.dead, past'.leaked = past.leaked, past'.era >= past.era,
         \A l \in Logins : login'[l].at # "gone" /\ ~login'[l].cancelled => login'[l].era = past'.era,
         ~Agents!Half, ~Agents!Half', Agents!Holding',
         op.at = "drop" => op'.at = "drop" 
  PROVE  Agents!IInv'
<1>1. Agents!TypeOK'
  BY DEF Agents!IInv, Agents!TypeOK
<1>2. Agents!Versions'
  BY AgentsVersions
<1>3. Agents!Eras'
  <2>1. past.done \in Nat /\ past.era \in Nat /\ past'.era \in Nat /\ past.done <= past.era
    BY DEF Agents!IInv, Agents!TypeOK, Agents!PastType, Agents!Eras, Agents!Named
  <2> QED BY <2>1 DEF Agents!IInv, Agents!Eras
<1>4. Agents!Told'
  BY DEF Agents!IInv, Agents!Told, Agents!KindOf, Agents!Half
<1>5. Agents!Registered' /\ Agents!RevokedRunsAreCancelled' /\ Agents!NothingLeaks'
  BY DEF Agents!IInv, Agents!Registered, Agents!RevokedRunsAreCancelled, Agents!NothingLeaks, Agents!At
<1> QED BY <1>1, <1>2, <1>3, <1>4, <1>5 DEF Agents!IInv

\* What the invariant says of what is kept outside the runs.
LEMMA AgentsTypes ==
  ASSUME Agents!Named, Agents!IInv
  PROVE  /\ blob \in Agents!Blobs /\ profile \in Agents!Kinds \cup {"none"} /\ writes \in 0 .. MaxWrites
         /\ op \in Agents!OpType /\ torn \in BOOLEAN /\ past \in Agents!PastType
         /\ login \in [Logins -> Agents!LoginType] /\ call \in [Runs -> Agents!CallType]
         /\ runs \subseteq Runs /\ runLock \in Runs \cup {Nobody} /\ MaxEra \in Nat /\ MaxWrites \in Nat
         /\ past.era \in 0 .. MaxEra /\ past.done \in 0 .. MaxEra /\ past.done <= past.era
         /\ op.era \in 0 .. MaxEra /\ op.era <= past.era
         /\ op.by = "idle" <=> op.at = "none"
<1>1. op \in Agents!OpType /\ past \in Agents!PastType
  BY DEF Agents!IInv, Agents!TypeOK
<1>2. op.era \in 0 .. MaxEra /\ past.era \in 0 .. MaxEra /\ past.done \in 0 .. MaxEra
  BY <1>1 DEF Agents!OpType, Agents!PastType
<1> QED BY <1>1, <1>2 DEF Agents!Named, Agents!IInv, Agents!TypeOK, Agents!Eras, Agents!Holding

\* A login that was not cancelled commits: it began in this era.
LEMMA AgentsCommitInv ==
  ASSUME Agents!Named, Agents!IInv, NEW l \in Logins, Agents!Commit(l)
  PROVE  Agents!IInv'
<1>1. /\ UNCHANGED <<blob, profile, writes, call, runLock, runs, past, torn>>
      /\ login[l].at = "confirmed" /\ op.by = "idle" /\ op.at = "none"
  BY AgentsTypes DEF Agents!Commit, Agents!CredLockFree
<1>2. login[l] \in Agents!LoginType /\ (login[l].cancelled \/ login[l].era = past.era)
  BY <1>1 DEF Agents!IInv, Agents!TypeOK, Agents!Eras
<1>3. CASE Agents!Ending(l) /\ UNCHANGED op
  <2>1. PICK g : g = [login[l] EXCEPT !.at = "ending"]
    OBVIOUS
  <2>2. g \in Agents!LoginType /\ g.era = login[l].era /\ g.cancelled = login[l].cancelled
    BY <1>2, <2>1 DEF Agents!LoginType
  <2>3. login' = [login EXCEPT ![l] = g]
    BY <1>3, <2>1 DEF Agents!Ending
  <2>4. op.by # l
    BY <1>1 DEF Agents!Named
  <2> QED BY <1>1, <1>2, <1>3, <2>2, <2>3, <2>4, AgentsOneLogin
<1>4. CASE /\ Agents!MayCommit(l) /\ UNCHANGED login
           /\ op' = [Agents!IdleOp EXCEPT !.by = l, !.at = "put", !.kind = "tar",
                                !.val = login[l].val, !.old = blob, !.era = login[l].era]
  <2>1. login[l].era = past.era /\ login[l].era \in 0 .. MaxEra /\ login[l].val \in SUBSET Values
    BY <1>2, <1>4 DEF Agents!MayCommit, Agents!LoginType
  <2>2. /\ op' = [by |-> l, at |-> "put", kind |-> "tar", val |-> login[l].val, old |-> blob,
                  era |-> login[l].era]
    BY <1>4 DEF Agents!IdleOp
  <2>3. op' \in Agents!OpType /\ op'.by = l /\ op'.at = "put" /\ op'.old = blob /\ op'.era = past.era
    BY <2>1, <2>2, AgentsTypes DEF Agents!OpType, Agents!Kinds
  <2>4. Agents!Holding'
    BY <1>1, <1>4, <2>1, <2>3, AgentsTypes
       DEF Agents!Holding, Agents!Replacing, Agents!Half, Agents!Named, Agents!IInv, Agents!Eras
  <2>5. ~Agents!Half /\ ~Agents!Half'
    BY <1>1, <2>3 DEF Agents!Half
  <2>6. /\ login' \in [Logins -> Agents!LoginType] /\ past' = past /\ past \in Agents!PastType /\ past.era >= past.era
        /\ \A k \in Logins : login'[k].at # "gone" /\ ~login'[k].cancelled => login'[k].era = past'.era
    BY <1>1, <1>4, AgentsTypes DEF Agents!IInv, Agents!Eras
  <2> QED BY <1>1, <2>3, <2>4, <2>5, <2>6, AgentsTaken
<1> QED BY <1>3, <1>4 DEF Agents!Commit

\* A new era begins, and no login that had started may commit any more.
LEMMA AgentsNewEra ==
  ASSUME Agents!Named, Agents!IInv, Agents!NewEra, Agents!cancelSessions
  PROVE  /\ past' \in Agents!PastType /\ past'.era = past.era + 1 /\ past'.era \in 0 .. MaxEra
         /\ past'.done = past.done /\ past'.dead = past.dead /\ past'.leaked = past.leaked
         /\ login' \in [Logins -> Agents!LoginType]
         /\ \A l \in Logins : login'[l].at # "gone" /\ ~login'[l].cancelled => login'[l].era = past'.era
<1>1. past \in Agents!PastType /\ past.era \in 0 .. MaxEra /\ MaxEra \in Nat
  BY AgentsTypes
<1>2. past.era < MaxEra /\ past' = [past EXCEPT !.era = past.era + 1]
  BY DEF Agents!NewEra
<1>3. past.era + 1 \in 0 .. MaxEra
  BY <1>1, <1>2
<1>4. /\ past' \in Agents!PastType /\ past'.era = past.era + 1
      /\ past'.done = past.done /\ past'.dead = past.dead /\ past'.leaked = past.leaked
  BY <1>1, <1>2, <1>3 DEF Agents!PastType
<1>5. ASSUME NEW l \in Logins
      PROVE  /\ Agents!Cancelled(l) \in Agents!LoginType
             /\ Agents!Cancelled(l).at = "gone" \/ Agents!Cancelled(l).cancelled
  <2>1. login[l] \in Agents!LoginType
    BY DEF Agents!IInv, Agents!TypeOK
  <2>2. CASE login[l].at = "gone"
    BY <2>1, <2>2 DEF Agents!Cancelled
  <2>3. CASE login[l].at # "gone"
    BY <2>1, <2>3 DEF Agents!Cancelled, Agents!LoginType
  <2> QED BY <2>2, <2>3
<1>6. login' = [l \in Logins |-> Agents!Cancelled(l)]
  BY DEF Agents!cancelSessions
<1>7. login' \in [Logins -> Agents!LoginType]
  BY <1>5, <1>6
<1>8. \A l \in Logins : login'[l].at = "gone" \/ login'[l].cancelled
  BY <1>5, <1>6
<1> QED BY <1>3, <1>4, <1>7, <1>8

\* The key is typed in: what it replaces is older.
LEMMA AgentsKeyInv ==
  ASSUME Agents!Named, Agents!IInv, NEW v \in Values, Agents!SetKey(v)
  PROVE  Agents!IInv'
<1>1. /\ UNCHANGED <<blob, profile, writes, call, runLock, runs, torn>> /\ op.by = "idle" /\ op.at = "none"
      /\ Agents!NewEra /\ Agents!cancelSessions
  BY AgentsTypes DEF Agents!SetKey, Agents!CredLockFree
<1>2. /\ past' \in Agents!PastType /\ past'.era = past.era + 1 /\ past'.era \in 0 .. MaxEra
      /\ past'.done = past.done /\ past'.dead = past.dead /\ past'.leaked = past.leaked
      /\ login' \in [Logins -> Agents!LoginType]
      /\ \A l \in Logins : login'[l].at # "gone" /\ ~login'[l].cancelled => login'[l].era = past'.era
  BY <1>1, AgentsNewEra
<1>3. /\ past.era \in Nat /\ op.era \in Nat /\ op.era <= past.era /\ past'.era >= past.era /\ op.era <= past'.era
      /\ MaxEra \in Nat
  <2>1. past.era \in Nat /\ op.era \in Nat /\ op.era <= past.era
    BY AgentsTypes
  <2> QED BY <1>2, <2>1 DEF Agents!Named
<1>4. "idle" \notin Logins /\ "key" \notin Logins
  BY DEF Agents!Named
<1>5. CASE UNCHANGED op
  <2>1. Agents!Holding' /\ ~Agents!Half /\ ~Agents!Half'
    BY <1>1, <1>3, <1>4, <1>5 DEF Agents!Holding, Agents!Replacing, Agents!Half
  <2>2. op' \in Agents!OpType
    BY <1>5, AgentsTypes
  <2> QED BY <1>1, <1>2, <1>3, <2>1, <2>2, AgentsTaken
<1>6. CASE op' = [Agents!IdleOp EXCEPT !.by = "key", !.at = "put", !.val = {v}, !.old = blob, !.era = past.era + 1]
  <2>1. op' = [by |-> "key", at |-> "put", kind |-> "key", val |-> {v}, old |-> blob, era |-> past'.era]
    BY <1>2, <1>6 DEF Agents!IdleOp
  <2>2. op' \in Agents!OpType /\ op'.by = "key" /\ op'.at = "put" /\ op'.old = blob /\ op'.era = past'.era
    BY <1>2, <2>1, AgentsTypes DEF Agents!OpType, Agents!Kinds
  <2>3. past.done \in Nat /\ blob # NoBlob => blob.era >= past.done
    BY DEF Agents!IInv, Agents!Eras
  <2>4. Agents!Holding'
    BY <1>1, <1>2, <1>3, <1>4, <2>2, <2>3, AgentsTypes DEF Agents!Holding, Agents!Replacing, Agents!Half
  <2>5. ~Agents!Half /\ ~Agents!Half'
    BY <1>1, <2>2 DEF Agents!Half
  <2> QED BY <1>1, <1>2, <1>3, <2>2, <2>4, <2>5, AgentsTaken
<1> QED BY <1>5, <1>6 DEF Agents!SetKey

\* A logout drops what is stored, or fails to and cancels the runs all the same.
LEMMA AgentsLogoutInv ==
  ASSUME Agents!Named, Agents!IInv, Agents!Logout
  PROVE  Agents!IInv'
<1>1. /\ UNCHANGED <<profile, writes, call, runLock, runs, torn>> /\ op.by = "idle" /\ op.at = "none"
      /\ Agents!NewEra /\ Agents!cancelSessions
  BY AgentsTypes DEF Agents!Logout, Agents!CredLockFree
<1>2. /\ past' \in Agents!PastType /\ past'.era = past.era + 1 /\ past'.era \in 0 .. MaxEra
      /\ past'.done = past.done /\ past'.dead = past.dead /\ past'.leaked = past.leaked
      /\ login' \in [Logins -> Agents!LoginType]
      /\ \A l \in Logins : login'[l].at # "gone" /\ ~login'[l].cancelled => login'[l].era = past'.era
  BY <1>1, AgentsNewEra
<1>3. past.era \in 0 .. MaxEra /\ past.done \in 0 .. MaxEra /\ past.done <= past.era /\ MaxEra \in Nat
  BY AgentsTypes
<1>4. PICK at \in {"drop", "revoke"} :
        /\ op' = [Agents!IdleOp EXCEPT !.by = "logout", !.at = at,
                                !.era = IF at = "drop" THEN past.era + 1 ELSE past.done]
        /\ blob' = IF at = "drop" THEN NoBlob ELSE blob
  BY DEF Agents!Logout
<1>5. op' = [by |-> "logout", at |-> at, kind |-> "key", val |-> {}, old |-> NoBlob,
             era |-> IF at = "drop" THEN past'.era ELSE past.done]
  BY <1>2, <1>4 DEF Agents!IdleOp
<1>6. /\ op' \in Agents!OpType /\ op'.by = "logout" /\ op'.at = at
      /\ op'.era = (IF at = "drop" THEN past'.era ELSE past.done)
  BY <1>2, <1>3, <1>5 DEF Agents!OpType, Agents!Kinds, Agents!Blobs
<1>7. op'.era <= past'.era /\ past'.era >= past.era
  BY <1>2, <1>3, <1>6
<1>8. blob # NoBlob => blob.era >= past.done
  BY DEF Agents!IInv, Agents!Eras
<1>9. "logout" \notin Logins /\ ~Agents!Half /\ ~Agents!Half'
  BY <1>1, <1>6 DEF Agents!Named, Agents!Half
<1>10. Agents!Holding'
  BY <1>4, <1>6, <1>7, <1>8, <1>9 DEF Agents!Holding, Agents!Replacing, Agents!Half
<1>11. CASE at = "revoke"
  BY <1>1, <1>2, <1>4, <1>6, <1>7, <1>9, <1>10, <1>11, AgentsTaken
<1>12. CASE at = "drop"
  <2>1. blob' = NoBlob /\ op'.at = "drop"
    BY <1>4, <1>6, <1>12
  <2>2. Agents!TypeOK'
    BY <1>1, <1>2, <1>6, <2>1, AgentsTypes DEF Agents!TypeOK, Agents!Blobs
  <2>3. Agents!Versions'
    BY <1>1, <1>2, <2>1, AgentsVersions
  <2>4. Agents!Eras' /\ Agents!Told'
    BY <1>2, <1>3, <2>1 DEF Agents!Eras, Agents!Told
  <2>5. Agents!Registered' /\ Agents!RevokedRunsAreCancelled' /\ Agents!NothingLeaks'
    BY <1>1, <1>2 DEF Agents!IInv, Agents!Registered, Agents!RevokedRunsAreCancelled, Agents!NothingLeaks, Agents!At
  <2> QED BY <1>10, <2>2, <2>3, <2>4, <2>5 DEF Agents!IInv
<1> QED BY <1>11, <1>12

\* The lock is released, and a login that held it ends.
LEMMA AgentsUnlock ==
  ASSUME Agents!Named, Agents!IInv, Agents!Unlock, past'.era = past.era
  PROVE  /\ op' \in Agents!OpType /\ op'.by = "idle" /\ op'.at = "none" /\ login' \in [Logins -> Agents!LoginType]
         /\ \A l \in Logins : login'[l].at # "gone" /\ ~login'[l].cancelled => login'[l].era = past'.era
         /\ Agents!Holding' /\ ~Agents!Half'
<1>1. op' = [by |-> "idle", at |-> "none", kind |-> "key", val |-> {}, old |-> NoBlob, era |-> 0]
  BY DEF Agents!Unlock, Agents!IdleOp
<1>2. past.era \in 0 .. MaxEra /\ MaxEra \in Nat /\ login \in [Logins -> Agents!LoginType]
  BY AgentsTypes
<1>3. op' \in Agents!OpType /\ op'.by = "idle" /\ op'.at = "none" /\ op'.era = 0 /\ op'.era <= past'.era
  BY <1>1, <1>2 DEF Agents!OpType, Agents!Kinds, Agents!Blobs
<1>4. \A l \in Logins : login[l].at # "gone" /\ ~login[l].cancelled => login[l].era = past.era
  BY DEF Agents!IInv, Agents!Eras
<1>5. /\ login' \in [Logins -> Agents!LoginType]
      /\ \A l \in Logins : login'[l].at # "gone" /\ ~login'[l].cancelled => login'[l].era = past.era
  <2>1. CASE op.by \notin Logins
    BY <1>2, <1>4, <2>1 DEF Agents!Unlock
  <2>2. CASE op.by \in Logins
    <3>1. PICK l \in Logins : l = op.by
      BY <2>2
    <3>2. login[l].at = "confirmed" /\ login[l] \in Agents!LoginType
      BY <1>2, <3>1 DEF Agents!IInv, Agents!Holding
    <3>3. PICK g : g = [login[l] EXCEPT !.at = "ending"]
      OBVIOUS
    <3>4. g \in Agents!LoginType /\ g.era = login[l].era /\ g.cancelled = login[l].cancelled
      BY <3>2, <3>3 DEF Agents!LoginType
    <3>5. login' = [login EXCEPT ![l] = g]
      BY <3>1, <3>3 DEF Agents!Unlock, Agents!Ending
    <3>6. login'[l] = g /\ \A k \in Logins \ {l} : login'[k] = login[k]
      BY <1>2, <3>5
    <3>7. login' \in [Logins -> Agents!LoginType]
      BY <1>2, <3>4, <3>5
    <3> QED BY <1>4, <3>2, <3>4, <3>6, <3>7
  <2> QED BY <2>1, <2>2
<1>6. Agents!Holding'
  BY <1>3 DEF Agents!Holding, Agents!Replacing, Agents!Half, Agents!Named
<1> QED BY <1>3, <1>5, <1>6 DEF Agents!Half

\* What is said of the runs, when only the rest changes.
LEMMA AgentsRest ==
  ASSUME Agents!IInv, UNCHANGED <<call, runs, past>>
  PROVE  Agents!Registered' /\ Agents!RevokedRunsAreCancelled' /\ Agents!NothingLeaks'
  BY DEF Agents!IInv, Agents!Registered, Agents!RevokedRunsAreCancelled, Agents!NothingLeaks, Agents!At

\* The blob is written, or not and the lock is released.
LEMMA AgentsStoreInv ==
  ASSUME Agents!Named, Agents!IInv, Agents!Store
  PROVE  Agents!IInv'
<1>1. UNCHANGED <<profile, call, runLock, runs, past, torn>> /\ op.at = "put"
  BY DEF Agents!Store
<1>2. /\ op.old = blob /\ op.era = past.era /\ (op.old # NoBlob => op.old.era >= past.done)
      /\ op.by # "idle" /\ (op.by \in Logins => login[op.by].at = "confirmed")
      /\ torn \/ profile = Agents!KindOf(blob)
  BY <1>1 DEF Agents!IInv, Agents!Holding, Agents!Replacing, Agents!Told, Agents!Half
<1>3. Agents!Registered' /\ Agents!RevokedRunsAreCancelled' /\ Agents!NothingLeaks'
  BY <1>1, AgentsRest
<1>4. CASE Agents!Unlock /\ UNCHANGED <<blob, writes>>
  <2>1. /\ op' \in Agents!OpType /\ op'.at = "none" /\ login' \in [Logins -> Agents!LoginType]
        /\ \A l \in Logins : login'[l].at # "gone" /\ ~login'[l].cancelled => login'[l].era = past'.era
        /\ Agents!Holding' /\ ~Agents!Half'
    BY <1>1, <1>4, AgentsUnlock
  <2>2. Agents!TypeOK'
    BY <1>1, <1>4, <2>1 DEF Agents!IInv, Agents!TypeOK
  <2>3. Agents!Versions'
    BY <1>1, <1>4, AgentsVersions
  <2>4. Agents!Eras'
    BY <1>1, <1>4, <2>1 DEF Agents!IInv, Agents!Eras
  <2>5. Agents!Told'
    BY <1>1, <1>2, <1>4, <2>1 DEF Agents!Told, Agents!KindOf
  <2> QED BY <1>3, <2>1, <2>2, <2>3, <2>4, <2>5 DEF Agents!IInv
<1>5. CASE Agents!Put(op.kind, op.val, op.era) /\ op' = [op EXCEPT !.at = "record"] /\ UNCHANGED login
  <2>1. op \in Agents!OpType /\ op.kind \in Agents!Kinds /\ op.val \in SUBSET Values /\ op.era \in 0 .. MaxEra
    BY AgentsTypes DEF Agents!OpType
  <2>2. /\ blob' \in Agents!Blobs /\ blob' # NoBlob /\ blob'.kind = op.kind /\ blob'.era = op.era
        /\ blob'.ver = writes + 1 /\ writes' = writes + 1 /\ writes' \in 0 .. MaxWrites
    BY <1>5, <2>1, AgentsPut
  <2>3. /\ op' \in Agents!OpType /\ op'.at = "record" /\ op'.by = op.by /\ op'.kind = op.kind
        /\ op'.old = op.old /\ op'.era = op.era
    BY <1>5, <2>1 DEF Agents!OpType
  <2>4. Agents!TypeOK'
    BY <1>1, <1>5, <2>2, <2>3 DEF Agents!IInv, Agents!TypeOK
  <2>5. Agents!Versions'
    BY <1>1, <2>2, AgentsVersions
  <2>6. past.done <= past.era /\ past.era \in Nat /\ past.done \in Nat
    BY AgentsTypes
  <2>7. Agents!Eras'
    BY <1>1, <1>2, <1>5, <2>2, <2>6 DEF Agents!IInv, Agents!Eras
  <2>8. Agents!Holding'
    BY <1>1, <1>2, <1>5, <2>2, <2>3, <2>6, AgentsTypes DEF Agents!IInv, Agents!Holding, Agents!Replacing, Agents!Half
  <2>9. Agents!Told'
    BY <1>1, <1>2, <2>3 DEF Agents!Told, Agents!Half, Agents!KindOf
  <2> QED BY <1>3, <2>4, <2>5, <2>7, <2>8, <2>9 DEF Agents!IInv
<1> QED BY <1>4, <1>5 DEF Agents!Store

\* The row is written; if it is not, the blob is to be put back.
LEMMA AgentsRecordInv ==
  ASSUME Agents!Named, Agents!IInv, Agents!Record
  PROVE  Agents!IInv'
<1>1. UNCHANGED <<blob, writes, call, runLock, runs, login, past>> /\ op.at = "record"
  BY DEF Agents!Record
<1>2. /\ op.era = past.era /\ (op.old # NoBlob => op.old.era >= past.done)
      /\ op.by # "idle" /\ (op.by \in Logins => login[op.by].at = "confirmed")
      /\ blob # NoBlob /\ blob.kind = op.kind /\ (blob # NoBlob => blob.era >= op.era)
      /\ torn \/ profile = Agents!KindOf(op.old)
  BY <1>1 DEF Agents!IInv, Agents!Holding, Agents!Replacing, Agents!Told, Agents!Half
<1>3. Agents!Registered' /\ Agents!RevokedRunsAreCancelled' /\ Agents!NothingLeaks'
  BY <1>1, AgentsRest
<1>4. op \in Agents!OpType /\ op.kind \in Agents!Kinds /\ op.era <= past.era
  BY AgentsTypes DEF Agents!OpType
<1>5. Agents!Versions' /\ Agents!Eras'
  BY <1>1, AgentsVersions DEF Agents!IInv, Agents!Eras
<1>6. PICK at \in {"revoke", "restore"} :
        /\ op' = [op EXCEPT !.at = at]
        /\ at = "revoke" => profile' = op.kind /\ torn' = FALSE
        /\ at = "restore" => UNCHANGED <<profile, torn>>
  BY DEF Agents!Record
<1>7. /\ op' \in Agents!OpType /\ op'.at = at /\ op'.by = op.by /\ op'.kind = op.kind
      /\ op'.old = op.old /\ op'.era = op.era
  BY <1>4, <1>6 DEF Agents!OpType
<1>8. Agents!TypeOK'
  <2>1. profile' \in Agents!Kinds \cup {"none"} /\ torn' \in BOOLEAN
    BY <1>4, <1>6, AgentsTypes
  <2> QED BY <1>1, <1>7, <2>1 DEF Agents!IInv, Agents!TypeOK
<1>9. Agents!Holding'
  BY <1>1, <1>2, <1>4, <1>6, <1>7 DEF Agents!Holding, Agents!Replacing, Agents!Half
<1>10. Agents!Told'
  BY <1>1, <1>2, <1>6, <1>7 DEF Agents!Told, Agents!Half, Agents!KindOf
<1> QED BY <1>3, <1>5, <1>8, <1>9, <1>10 DEF Agents!IInv

\* What was replaced is put back with a version of its own, or is not and the operation is torn.
LEMMA AgentsRestoreInv ==
  ASSUME Agents!Named, Agents!IInv, Agents!Restore
  PROVE  Agents!IInv'
<1>1. UNCHANGED <<profile, call, runLock, runs, past>> /\ op.at = "restore" /\ Agents!Unlock
  BY DEF Agents!Restore
<1>2. /\ op.era = past.era /\ (op.old # NoBlob => op.old.era >= past.done)
      /\ torn \/ profile = Agents!KindOf(op.old)
  BY <1>1 DEF Agents!IInv, Agents!Holding, Agents!Replacing, Agents!Told, Agents!Half
<1>3. Agents!Registered' /\ Agents!RevokedRunsAreCancelled' /\ Agents!NothingLeaks'
  BY <1>1, AgentsRest
<1>4. /\ op' \in Agents!OpType /\ op'.at = "none" /\ login' \in [Logins -> Agents!LoginType]
      /\ \A l \in Logins : login'[l].at # "gone" /\ ~login'[l].cancelled => login'[l].era = past'.era
      /\ Agents!Holding' /\ ~Agents!Half'
  BY <1>1, AgentsUnlock
<1>5. past.done <= past.era /\ op.old \in Agents!Blobs
  BY AgentsTypes DEF Agents!OpType
<1>6. ASSUME blob' \in Agents!Blobs, writes' \in 0 .. MaxWrites, Agents!Versions',
             blob' # NoBlob => blob'.era >= past.done, torn' \in BOOLEAN,
             torn' \/ profile = Agents!KindOf(blob')
      PROVE  Agents!IInv'
  <2>1. Agents!TypeOK'
    BY <1>1, <1>4, <1>6 DEF Agents!IInv, Agents!TypeOK
  <2>2. Agents!Eras'
    BY <1>1, <1>4, <1>5, <1>6 DEF Agents!Eras
  <2>3. Agents!Told'
    BY <1>1, <1>4, <1>6 DEF Agents!Told, Agents!KindOf
  <2> QED BY <1>3, <1>4, <1>6, <2>1, <2>2, <2>3 DEF Agents!IInv
<1>7. CASE UNCHANGED <<blob, writes>> /\ torn' = TRUE
  <2>1. Agents!Versions'
    BY <1>1, <1>7, AgentsVersions
  <2>2. blob' # NoBlob => blob'.era >= past.done
    BY <1>7 DEF Agents!IInv, Agents!Eras
  <2> QED BY <1>6, <1>7, <2>1, <2>2, AgentsTypes
<1>8. CASE op.old = NoBlob /\ blob' = NoBlob /\ UNCHANGED <<writes, torn>>
  <2>1. Agents!Versions'
    BY <1>1, <1>8, AgentsVersions
  <2> QED BY <1>2, <1>6, <1>8, <2>1, AgentsTypes DEF Agents!Blobs
<1>9. CASE op.old # NoBlob /\ Agents!Put(op.old.kind, op.old.val, op.old.era) /\ UNCHANGED torn
  <2>1. op.old.kind \in Agents!Kinds /\ op.old.val \in SUBSET Values /\ op.old.era \in 0 .. MaxEra
    BY <1>5, <1>9 DEF Agents!Blobs, Agents!Written
  <2>2. /\ blob' \in Agents!Blobs /\ blob' # NoBlob /\ blob'.kind = op.old.kind /\ blob'.era = op.old.era
        /\ blob'.ver = writes + 1 /\ writes' = writes + 1 /\ writes' \in 0 .. MaxWrites
    BY <1>9, <2>1, AgentsPut
  <2>3. Agents!Versions'
    BY <1>1, <2>2, AgentsVersions
  <2>4. blob'.era >= past.done /\ (torn' \/ profile = Agents!KindOf(blob'))
    BY <1>2, <1>9, <2>2 DEF Agents!KindOf
  <2> QED BY <1>6, <1>9, <2>2, <2>3, <2>4, AgentsTypes
<1>10. \/ Agents!Restored /\ UNCHANGED torn
       \/ UNCHANGED <<blob, writes>> /\ torn' = TRUE
  BY DEF Agents!Restore
<1> QED BY <1>7, <1>8, <1>9, <1>10 DEF Agents!Restored

\* The row is dropped, or the operation is torn if there was one.
LEMMA AgentsDropInv ==
  ASSUME Agents!Named, Agents!IInv, Agents!DropProfile
  PROVE  Agents!IInv'
<1>1. UNCHANGED <<blob, writes, call, runLock, runs, login, past>> /\ op.at = "drop" /\ op' = [op EXCEPT !.at = "revoke"]
  BY DEF Agents!DropProfile
<1>2. op.by # "idle" /\ (op.by \in Logins => login[op.by].at = "confirmed") /\ blob = NoBlob
  BY <1>1 DEF Agents!IInv, Agents!Holding
<1>3. Agents!Registered' /\ Agents!RevokedRunsAreCancelled' /\ Agents!NothingLeaks'
  BY <1>1, AgentsRest
<1>4. op \in Agents!OpType /\ op.era <= past.era
  BY AgentsTypes
<1>5. Agents!Versions' /\ Agents!Eras'
  BY <1>1, AgentsVersions DEF Agents!IInv, Agents!Eras
<1>6. /\ op' \in Agents!OpType /\ op'.at = "revoke" /\ op'.by = op.by /\ op'.era = op.era
  BY <1>1, <1>4 DEF Agents!OpType
<1>7. \/ profile' = "none" /\ torn' = FALSE
      \/ UNCHANGED profile /\ torn' = (torn \/ profile # "none")
  BY DEF Agents!DropProfile
<1>8. Agents!TypeOK'
  <2>1. profile' \in Agents!Kinds \cup {"none"} /\ torn' \in BOOLEAN
    BY <1>7, AgentsTypes
  <2> QED BY <1>1, <1>6, <2>1 DEF Agents!IInv, Agents!TypeOK
<1>9. Agents!Holding'
  BY <1>1, <1>2, <1>4, <1>6 DEF Agents!Holding, Agents!Replacing, Agents!Half
<1>10. torn' \/ profile' = "none"
  BY <1>7
<1>11. Agents!Told'
  BY <1>1, <1>2, <1>6, <1>10 DEF Agents!Told, Agents!Half, Agents!KindOf
<1> QED BY <1>3, <1>5, <1>8, <1>9, <1>11 DEF Agents!IInv

\* The runs past the fence are told to stop, and only what is stored now is not revoked.
LEMMA AgentsRevokeInv ==
  ASSUME Agents!Named, Agents!IInv, Agents!Revoke
  PROVE  Agents!IInv'
<1>1. /\ UNCHANGED <<blob, profile, writes, runLock, runs, torn>> /\ op.at = "revoke"
      /\ Agents!cancelAll /\ Agents!Unlock
      /\ past' = [past EXCEPT !.done = IF op.by \in Logins THEN past.done ELSE op.era,
                              !.dead = past.dead \cup ((0 .. writes) \ {Agents!Version})]
  BY DEF Agents!Revoke
<1>2. (blob # NoBlob => blob.era >= op.era) /\ (torn \/ profile = Agents!KindOf(blob))
  BY <1>1 DEF Agents!IInv, Agents!Holding, Agents!Told, Agents!Half
<1>3. /\ past \in Agents!PastType /\ writes \in 0 .. MaxWrites /\ MaxWrites \in Nat /\ op.era \in 0 .. MaxEra
      /\ op.era <= past.era /\ past.done <= past.era /\ past.done \in 0 .. MaxEra
  BY AgentsTypes
<1>4. PICK done \in 0 .. MaxEra : done = (IF op.by \in Logins THEN past.done ELSE op.era)
  BY <1>3
<1>5. PICK dead : dead = past.dead \cup ((0 .. writes) \ {Agents!Version})
  OBVIOUS
<1>6. past.dead \subseteq 0 .. writes /\ dead \in SUBSET (0 .. MaxWrites) /\ dead \subseteq 0 .. writes
  <2>1. past.dead \subseteq 0 .. writes
    BY DEF Agents!IInv, Agents!Versions
  <2> QED BY <1>3, <1>5, <2>1
<1>7. /\ past' \in Agents!PastType /\ past'.done = done /\ past'.dead = dead
      /\ past'.era = past.era /\ past'.leaked = past.leaked
  <2>1. past' = [past EXCEPT !.done = done, !.dead = dead]
    BY <1>1, <1>4, <1>5
  <2> QED BY <1>3, <1>6, <2>1 DEF Agents!PastType
<1>8. /\ op' \in Agents!OpType /\ op'.at = "none" /\ login' \in [Logins -> Agents!LoginType]
      /\ \A l \in Logins : login'[l].at # "gone" /\ ~login'[l].cancelled => login'[l].era = past'.era
      /\ Agents!Holding' /\ ~Agents!Half'
  BY <1>1, <1>7, AgentsUnlock
<1>9. ASSUME NEW r \in Runs
      PROVE  /\ call'[r] \in Agents!CallType /\ call'[r].cred = call[r].cred /\ call'[r].at = call[r].at
             /\ r \in runs => call'[r].cancelled
  <2>1. call[r] \in Agents!CallType /\ call' = [x \in Runs |-> IF x \in runs THEN [call[x] EXCEPT !.cancelled = TRUE]
                                                              ELSE call[x]]
    BY <1>1, AgentsTypes DEF Agents!cancelAll
  <2>2. call'[r] = IF r \in runs THEN [call[r] EXCEPT !.cancelled = TRUE] ELSE call[r]
    BY <2>1
  <2> QED BY <2>1, <2>2 DEF Agents!CallType
<1>10. Agents!TypeOK'
  <2>1. call' \in [Runs -> Agents!CallType]
    <3>1. call' = [x \in Runs |-> IF x \in runs THEN [call[x] EXCEPT !.cancelled = TRUE] ELSE call[x]]
      BY <1>1 DEF Agents!cancelAll
    <3> QED BY <1>9, <3>1
  <2> QED BY <1>1, <1>7, <1>8, <2>1 DEF Agents!IInv, Agents!TypeOK
<1>11. Agents!Versions'
  <2>1. blob # NoBlob => blob.ver <= writes /\ blob.ver \notin dead
    <3>1. blob # NoBlob => blob.ver <= writes /\ blob.ver \notin past.dead /\ Agents!Version = blob.ver
      BY DEF Agents!IInv, Agents!Versions, Agents!Version
    <3> QED BY <1>5, <3>1
  <2> QED BY <1>1, <1>6, <1>7, <1>9, <2>1 DEF Agents!IInv, Agents!Versions
<1>12. Agents!Eras'
  <2>1. done <= past.era
    BY <1>3, <1>4
  <2>2. blob # NoBlob => blob.era >= done
    BY <1>2, <1>4 DEF Agents!IInv, Agents!Eras
  <2> QED BY <1>1, <1>7, <1>8, <2>1, <2>2 DEF Agents!Eras
<1>13. Agents!Told'
  BY <1>1, <1>2, <1>8 DEF Agents!Told, Agents!KindOf
<1>14. Agents!Registered' /\ Agents!RevokedRunsAreCancelled' /\ Agents!NothingLeaks'
  BY <1>1, <1>7, <1>9 DEF Agents!IInv, Agents!Registered, Agents!RevokedRunsAreCancelled, Agents!NothingLeaks, Agents!At
<1> QED BY <1>8, <1>10, <1>11, <1>12, <1>13, <1>14 DEF Agents!IInv

\* The process dies: what is stored and the row stay, and the runs and the logins are gone.
LEMMA AgentsCrashInv ==
  ASSUME Agents!Named, Agents!IInv, Agents!Crash
  PROVE  Agents!IInv'
<1>1. /\ UNCHANGED <<blob, profile, writes>> /\ op' = Agents!IdleOp /\ runLock' = Nobody /\ runs' = {}
      /\ past.crashes > 0 /\ past' = [past EXCEPT !.crashes = past.crashes - 1]
      /\ torn' = (torn \/ op.at \in {"record", "restore", "drop"})
  BY DEF Agents!Crash
<1>2. past \in Agents!PastType /\ past.crashes \in 0 .. MaxCrashes /\ past.era \in 0 .. MaxEra /\ MaxEra \in Nat
  BY AgentsTypes DEF Agents!PastType
<1>3. /\ past' \in Agents!PastType /\ past'.era = past.era /\ past'.done = past.done
      /\ past'.dead = past.dead /\ past'.leaked = past.leaked
  <2>1. past.crashes - 1 \in 0 .. MaxCrashes
    BY <1>1, <1>2 DEF Agents!Named
  <2> QED BY <1>1, <1>2, <2>1 DEF Agents!PastType
<1>4. op' \in Agents!OpType /\ op'.by = "idle" /\ op'.at = "none" /\ op'.era = 0
  BY <1>1, <1>2 DEF Agents!IdleOp, Agents!OpType, Agents!Kinds, Agents!Blobs
<1>5. Agents!IdleCall \in Agents!CallType /\ Agents!IdleCall.at = "idle" /\ Agents!IdleCall.cred = NoBlob
  BY DEF Agents!IdleCall, Agents!CallType, Agents!Ats, Agents!Blobs
<1>6. Agents!IdleLogin \in Agents!LoginType /\ Agents!IdleLogin.at = "gone"
  BY <1>2 DEF Agents!IdleLogin, Agents!LoginType
<1>7. call' = [r \in Runs |-> Agents!IdleCall] /\ login' = [l \in Logins |-> Agents!IdleLogin]
  BY DEF Agents!Crash
<1>8. /\ call' \in [Runs -> Agents!CallType] /\ login' \in [Logins -> Agents!LoginType]
      /\ \A r \in Runs : call'[r].at = "idle" /\ call'[r].cred = NoBlob
      /\ \A l \in Logins : login'[l].at = "gone"
  BY <1>5, <1>6, <1>7
<1>9. Agents!TypeOK'
  <2>1. torn' \in BOOLEAN /\ runLock' \in Runs \cup {Nobody} /\ runs' \subseteq Runs
    BY <1>1, AgentsTypes
  <2> QED BY <1>1, <1>3, <1>4, <1>8, <2>1 DEF Agents!IInv, Agents!TypeOK
<1>10. Agents!Versions'
  BY <1>1, <1>3, <1>8 DEF Agents!IInv, Agents!Versions
<1>11. Agents!Eras'
  BY <1>1, <1>3, <1>8 DEF Agents!IInv, Agents!Eras
<1>12. Agents!Holding'
  BY <1>2, <1>3, <1>4 DEF Agents!Holding, Agents!Replacing, Agents!Half, Agents!Named
<1>13. Agents!Told'
  BY <1>1, <1>4 DEF Agents!IInv, Agents!Told, Agents!KindOf, Agents!Half
<1>14. Agents!Registered' /\ Agents!RevokedRunsAreCancelled' /\ Agents!NothingLeaks'
  BY <1>3, <1>8 DEF Agents!IInv, Agents!Registered, Agents!RevokedRunsAreCancelled, Agents!NothingLeaks, Agents!At
<1> QED BY <1>9, <1>10, <1>11, <1>12, <1>13, <1>14 DEF Agents!IInv

\* A login, an operation, a run, a crash: it is kept.
LEMMA AgentsNextInv ==
  ASSUME Agents!Named, Agents!IInv, Agents!Next \/ UNCHANGED Agents!vars
  PROVE  Agents!IInv'
<1>1. CASE UNCHANGED Agents!vars
  <2>1. UNCHANGED <<blob, profile, writes, op, call, runLock, runs, login, past, torn>>
    BY <1>1 DEF Agents!vars
  <2>2. /\ \A l \in Logins : login'[l].at # "gone" /\ ~login'[l].cancelled => login'[l].era = past.era
        /\ op.by \in Logins => login'[op.by].at = "confirmed"
    BY <2>1 DEF Agents!IInv, Agents!Eras, Agents!Holding
  <2> QED BY <2>1, <2>2, AgentsLoginMoves, AgentsTypes
<1>2. ASSUME NEW l \in Logins, Agents!LoginStep(l) PROVE Agents!IInv'
  BY <1>2, AgentsLoginInv, AgentsCommitInv DEF Agents!LoginStep
<1>3. ASSUME NEW r \in Runs, Agents!RunStep(r) PROVE Agents!IInv'
  BY <1>3, AgentsCardInv, AgentsDeniedInv, AgentsLoadInv, AgentsPrepareInv, AgentsLaunchInv, AgentsEndsInv,
     AgentsPersistInv DEF Agents!RunStep
<1>4. ASSUME NEW r \in Runs, NEW unasked \in BOOLEAN, NEW q \in Agents!Quotes, Agents!Handle(r, unasked, q)
      PROVE  Agents!IInv'
  BY <1>4, AgentsHandleInv
<1>5. CASE Agents!OpStep
  BY <1>5, AgentsStoreInv, AgentsRecordInv, AgentsRestoreInv, AgentsDropInv, AgentsRevokeInv DEF Agents!OpStep
<1>6. CASE (\E v \in Values : Agents!SetKey(v)) \/ Agents!Logout \/ Agents!Crash
  BY <1>6, AgentsKeyInv, AgentsLogoutInv, AgentsCrashInv
<1> QED BY <1>1, <1>2, <1>3, <1>4, <1>5, <1>6 DEF Agents!Next

\* It implies what the service promises.
LEMMA AgentsKept ==
  ASSUME Agents!Named, Agents!IInv
  PROVE  /\ Agents!RevokedRunsAreCancelled /\ Agents!NothingLeaks
         /\ Agents!NoResurrection /\ Agents!RowMatchesBlob
<1>1. Agents!NoResurrection
  BY DEF Agents!IInv, Agents!Eras, Agents!NoResurrection
<1>2. Agents!RowMatchesBlob
  <2>1. op.by = "idle" => op.at = "none"
    BY DEF Agents!IInv, Agents!Holding
  <2> QED BY <2>1 DEF Agents!IInv, Agents!Told, Agents!RowMatchesBlob, Agents!CredLockFree, Agents!Half, Agents!KindOf
<1> QED BY <1>1, <1>2 DEF Agents!IInv

-----------------------------------------------------------------------------
(* The two services among the others.                                         *)

\* A behaviour stays with its service, and each step is one of it.
LEMMA StepOfSecrets ==
  ASSUME [Next]_vars
  PROVE  /\ service' = service
         /\ service = "tools" => Tools!Next \/ UNCHANGED Tools!vars
         /\ service = "agents" => Agents!Next \/ UNCHANGED Agents!vars
<1>1. CASE UNCHANGED vars
  BY <1>1 DEF vars, toolVars, agentVars, Tools!vars, Agents!vars
<1>2. CASE Next
  BY <1>2 DEF Next, OfAgents, OfTools, OfTable, OfListen, OfSpeak, OfAssets, OfSteps, OfTurns,
              OfWeb, OfGates, OfTimes
<1> QED BY <1>1, <1>2

\* The invariant of the tools, of the behaviours that pick them.
LEMMA ToolsOfService == Spec => [](service = "tools" => Tools!IInv)
<1> DEFINE I == service = "tools" => Tools!IInv
<1> USE ServicesAssumption
<1>1. Init => I
  BY ToolsInitInv DEF Init
<1>2. I /\ [Next]_vars => I'
  <2> SUFFICES ASSUME I, [Next]_vars, service' = "tools" PROVE Tools!IInv'
    OBVIOUS
  <2>1. Tools!IInv /\ (Tools!Next \/ UNCHANGED Tools!vars)
    BY StepOfSecrets
  <2> QED BY <2>1, ToolsNextInv
<1> QED BY <1>1, <1>2, PTL DEF Spec

\* A command of the model runs alone, under a policy that was in force after its turn had come,
\* within the quota, on the record, and after its owner said yes where calls are approved
\* (Router.Handle of internal/sandbox/tools.go).
THEOREM CommandsArePermitted == Spec => []RunsAsPermitted
<1>1. (service = "tools" => Tools!IInv) => RunsAsPermitted
  BY ToolsKept DEF RunsAsPermitted
<1> QED BY <1>1, ToolsOfService, PTL

\* Nothing that a call shows quotes a secret it was given, one that the vault held when its user
\* was asked, or one that it has held since the call was decided or had its turn
\* (Router.Handle, the executor of internal/autorun and the redactors of internal/vault).
THEOREM SecretsAreHidden == Spec => []NothingQuoted
<1>1. (service = "tools" => Tools!IInv) => NothingQuoted
  BY ToolsKept DEF NothingQuoted
<1> QED BY <1>1, ToolsOfService, PTL

\* The invariant of the credentials, of the behaviours that pick them.
LEMMA AgentsOfService == Spec => [](service = "agents" => Agents!IInv)
<1> DEFINE I == service = "agents" => Agents!IInv
<1> USE ServicesAssumption
<1>1. Init => I
  BY AgentsInitInv DEF Init
<1>2. I /\ [Next]_vars => I'
  <2> SUFFICES ASSUME I, [Next]_vars, service' = "agents" PROVE Agents!IInv'
    OBVIOUS
  <2>1. Agents!IInv /\ (Agents!Next \/ UNCHANGED Agents!vars)
    BY StepOfSecrets
  <2> QED BY <2>1, AgentsNextInv
<1> QED BY <1>1, <1>2, PTL DEF Spec

\* A run whose container works with a credential that a logout, a key change or a login has
\* replaced has been told to stop (the launch fence of internal/sandbox/agentrun.go against
\* the revocations of internal/agentauth/broker.go).
THEOREM RevokedRunsStop == Spec => []RevokedRunsAreCancelled
<1>1. (service = "agents" => Agents!IInv) => RevokedRunsAreCancelled
  BY ServicesAssumption, AgentsKept DEF RevokedRunsAreCancelled
<1> QED BY <1>1, AgentsOfService, PTL

\* No late login, no late refresh by a run and no repair of a half-done write brings back a
\* credential older than the last logout or key change that succeeded (finishLogin, SetKey,
\* restoreState and Logout of broker.go, persistRefreshedState of agentrun.go).
THEOREM NothingReturns == Spec => []NoResurrection
<1>1. (service = "agents" => Agents!IInv) => NoResurrection
  BY ServicesAssumption, AgentsKept DEF NoResurrection
<1> QED BY <1>1, AgentsOfService, PTL

\* When nobody is replacing the credential, the profile row tells of the blob that is stored,
\* unless an operation failed or the process died between the two writes (SetKey, finishLogin and
\* restoreState of broker.go).
THEOREM RowTellsOfBlob == Spec => []RowMatchesBlob
<1>1. (service = "agents" => Agents!IInv) => RowMatchesBlob
  BY ServicesAssumption, AgentsKept DEF RowMatchesBlob
<1> QED BY <1>1, AgentsOfService, PTL

\* No audit row and no result of a run shows a credential that was live when the call was made
\* or the row written, or that the run had or minted (storedCredRedactor, deniedRedactor and
\* the scan of the store in agentrun.go).
THEOREM CredentialsAreHidden == Spec => []NothingLeaks
<1>1. (service = "agents" => Agents!IInv) => NothingLeaks
  BY ServicesAssumption, AgentsKept DEF NothingLeaks
<1> QED BY <1>1, AgentsOfService, PTL
=============================================================================
