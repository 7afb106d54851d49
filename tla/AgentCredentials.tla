--------------------------- MODULE AgentCredentials ---------------------------
(****************************************************************************)
(* One user's credential for one callable coding agent, and everything that *)
(* reads or replaces it: the agent runs of internal/sandbox/agentrun.go,    *)
(* the logins, key changes and logouts of internal/agentauth/broker.go, the *)
(* encrypted blob of internal/vault and the profile row of internal/store.  *)
(*                                                                          *)
(* Three locks: the long run lock of the user (runLock), the short          *)
(* credential lock (held by the operation in op) and the broker's mutex     *)
(* (held by a committing login).  Handlers read the blob and the profile    *)
(* without the credential lock, so each of these reads is a step of its own.*)
(* A credential value, a prompt and an output are the secrets they contain. *)
(****************************************************************************)
EXTENDS Integers, FiniteSets

CONSTANTS
  Runs,       \* tool calls agent.<provider>.run and automation steps
  Logins,     \* interactive login sessions
  Values,     \* secret values: keys, tokens of a credential store
  MaxWrites,  \* bound: writes of the blob
  MaxEra,     \* bound: key changes and logouts
  MaxCrashes, \* bound: crashes of the server
  Nobody, NoBlob

VARIABLES
  blob,     \* agents/<provider>.enc: kind, value and write-unique version
  profile,  \* agent_profiles.auth_type, "none" without a row
  writes,   \* versions given so far
  op,       \* the holder of the credential lock between two of its steps
  call,     \* what each agent run has read and where it is
  runLock,  \* the run that holds the user lock
  runs,     \* RunRegistry
  login,    \* Broker.sessions
  past,     \* ghost: eras, what is revoked, what leaked, crashes left
  torn      \* ghost: an operation failed or died between its two writes
vars == <<blob, profile, writes, op, call, runLock, runs, login, past, torn>>

Kinds == {"key", "tar"}
IdleOp == [by |-> "idle", at |-> "none", kind |-> "key", val |-> {}, old |-> NoBlob, era |-> 0]
IdleCall == [at |-> "idle", auto |-> FALSE, prompt |-> {}, type |-> "none",
             pre |-> {}, cred |-> NoBlob, cancelled |-> FALSE, mint |-> {}]
IdleLogin == [at |-> "gone", cancelled |-> FALSE, era |-> 0, val |-> {}]

CredLockFree == op.by = "idle"
MuFree == op.by \notin Logins
Version == IF blob = NoBlob THEN 0 ELSE blob.ver
ContentsOf(b) == IF b = NoBlob THEN {} ELSE b.val
At(r, where) == call[r].at = where
Set(r, c) == call' = [call EXCEPT ![r] = c]
Leak(shown, known) == past' = [past EXCEPT !.leaked = @ \cup (shown \cap known)]

\* PutAgentState: every write gets a version of its own, even of the same value.
Put(kind, val, era) ==
  /\ writes < MaxWrites /\ writes' = writes + 1
  /\ blob' = [kind |-> kind, val |-> val, ver |-> writes + 1, era |-> era]

-----------------------------------------------------------------------------
(* Logins: the broker's sessions.                                            *)

\* The reservation, under the credential lock and the broker's mutex.
NoneActive == \A l \in Logins : login[l].at = "gone"
StartLogin(l) ==
  /\ login[l].at = "gone" /\ CredLockFree /\ NoneActive
  /\ login' = [login EXCEPT ![l] = [IdleLogin EXCEPT !.at = "starting", !.era = past.era]]
  /\ UNCHANGED <<blob, profile, writes, op, call, runLock, runs, past, torn>>

\* Scratch, container or its start fails: the reservation is dropped.
StartFails(l) ==
  /\ login[l].at = "starting" /\ MuFree
  /\ login' = [login EXCEPT ![l] = IdleLogin]
  /\ UNCHANGED <<blob, profile, writes, op, call, runLock, runs, past, torn>>

\* The container is up: attach it, or tear it down if the login was cancelled.
Attach(l) ==
  /\ login[l].at = "starting" /\ MuFree
  /\ login' = [login EXCEPT ![l] = IF login[l].cancelled THEN IdleLogin
                                   ELSE [login[l] EXCEPT !.at = "live"]]
  /\ UNCHANGED <<blob, profile, writes, op, call, runLock, runs, past, torn>>

\* The process ends, by itself, killed or at the timeout; Wait fails or not, and
\* then the status command confirms what the CLI left in the store or not.
Exit(l) ==
  /\ login[l].at = "live"
  /\ \/ login' = [login EXCEPT ![l].at = "ending"]
     \/ \E v \in Values :
          login' = [login EXCEPT ![l] = [login[l] EXCEPT !.at = "confirmed", !.val = {v}]]
  /\ UNCHANGED <<blob, profile, writes, op, call, runLock, runs, past, torn>>

\* finishLogin under both locks: a cancelled login stores nothing, nor does one
\* that cannot read what it would replace.
Ending(l) == login' = [login EXCEPT ![l].at = "ending"]
BrokenMayCommit(l) == TRUE
MayCommit(l) == ~login[l].cancelled
Commit(l) ==
  /\ login[l].at = "confirmed" /\ CredLockFree
  /\ \/ Ending(l) /\ UNCHANGED op
     \/ /\ MayCommit(l) /\ UNCHANGED login
        /\ op' = [IdleOp EXCEPT !.by = l, !.at = "put", !.kind = "tar",
                                !.val = login[l].val, !.old = blob, !.era = login[l].era]
  /\ UNCHANGED <<blob, profile, writes, call, runLock, runs, past, torn>>

\* Cancel, by the user: no credential lock.
CancelLogin(l) ==
  /\ login[l].at # "gone" /\ MuFree /\ ~login[l].cancelled
  /\ login' = [login EXCEPT ![l].cancelled = TRUE]
  /\ UNCHANGED <<blob, profile, writes, op, call, runLock, runs, past, torn>>

EndSession(l) ==
  /\ login[l].at = "ending" /\ MuFree
  /\ login' = [login EXCEPT ![l] = IdleLogin]
  /\ UNCHANGED <<blob, profile, writes, op, call, runLock, runs, past, torn>>

\* cancelSessionsLocked.
Cancelled(l) == IF login[l].at = "gone" THEN login[l]
                ELSE [login[l] EXCEPT !.cancelled = TRUE]
cancelSessions == login' = [l \in Logins |-> Cancelled(l)]

-----------------------------------------------------------------------------
(* Replacing and removing the credential, step by step under the credential  *)
(* lock.                                                                     *)

NewEra == past.era < MaxEra /\ past' = [past EXCEPT !.era = @ + 1]
SetKey(v) ==
  /\ CredLockFree /\ NewEra /\ cancelSessions
  /\ \/ UNCHANGED op
     \/ op' = [IdleOp EXCEPT !.by = "key", !.at = "put", !.val = {v}, !.old = blob,
                             !.era = past.era + 1]
  /\ UNCHANGED <<blob, profile, writes, call, runLock, runs, torn>>

\* The lock is released; a login whose commit is over ends its session.
Unlock == /\ op' = IdleOp
          /\ IF op.by \in Logins THEN Ending(op.by) ELSE UNCHANGED login
Store ==
  /\ op.at = "put"
  /\ \/ Unlock /\ UNCHANGED <<blob, writes>>
     \/ Put(op.kind, op.val, op.era) /\ op' = [op EXCEPT !.at = "record"] /\ UNCHANGED login
  /\ UNCHANGED <<profile, call, runLock, runs, past, torn>>

Record ==
  /\ op.at = "record"
  /\ \/ profile' = op.kind /\ op' = [op EXCEPT !.at = "revoke"] /\ torn' = FALSE
     \/ op' = [op EXCEPT !.at = "restore"] /\ UNCHANGED <<profile, torn>>
  /\ UNCHANGED <<blob, writes, call, runLock, runs, login, past>>

\* restoreState: the profile write failed, put the old blob back or drop the new.
BrokenRestored == blob' = NoBlob /\ UNCHANGED writes
Restored == IF op.old = NoBlob THEN blob' = NoBlob /\ UNCHANGED writes
            ELSE Put(op.old.kind, op.old.val, op.old.era)
Restore ==
  /\ op.at = "restore" /\ Unlock
  /\ \/ Restored /\ UNCHANGED torn
     \/ UNCHANGED <<blob, writes>> /\ torn' = TRUE
  /\ UNCHANGED <<profile, call, runLock, runs, past>>

\* Logout: sessions and blob under the broker's mutex, then the row; the runs
\* are cancelled whatever failed.
Logout ==
  /\ CredLockFree /\ NewEra /\ cancelSessions
  /\ \E at \in {"drop", "revoke"} :
       /\ op' = [IdleOp EXCEPT !.by = "logout", !.at = at,
                                !.era = IF at = "drop" THEN past.era + 1 ELSE past.done]
       /\ blob' = IF at = "drop" THEN NoBlob ELSE blob
  /\ UNCHANGED <<profile, writes, call, runLock, runs, torn>>
DropProfile ==
  /\ op.at = "drop" /\ op' = [op EXCEPT !.at = "revoke"]
  /\ \/ profile' = "none" /\ torn' = FALSE
     \/ UNCHANGED profile /\ torn' = (torn \/ profile # "none")
  /\ UNCHANGED <<blob, writes, call, runLock, runs, login, past>>

\* RunRegistry.Cancel, and the lock is released.
cancelAll == call' = [r \in Runs |-> IF r \in runs THEN [call[r] EXCEPT !.cancelled = TRUE]
                                     ELSE call[r]]
Revoke ==
  /\ op.at = "revoke" /\ cancelAll /\ Unlock
  /\ past' = [past EXCEPT !.done = IF op.by \in Logins THEN @ ELSE op.era,
                          !.dead = @ \cup ((0 .. writes) \ {Version})]
  /\ UNCHANGED <<blob, profile, writes, runLock, runs, torn>>

-----------------------------------------------------------------------------
(* Agent runs: AgentRouter.handle.                                           *)

\* Gates, the profile, the arguments.  A prompt may quote one secret.  A call that
\* a gate or the allow-list of the user refuses changes nothing.
Handle(r, auto, quoted) ==
  /\ At(r, "idle") /\ profile # "none"
  /\ Set(r, [IdleCall EXCEPT !.at = "asking", !.auto = auto, !.prompt = quoted,
                             !.type = profile])
  /\ UNCHANGED <<blob, profile, writes, op, runLock, runs, login, past, torn>>

\* storedCredRedactor: nothing is known if the blob is unreadable or of another kind.
Readable(type) == blob # NoBlob /\ blob.kind = type
Snapshot(r) ==
  /\ At(r, "asking")
  /\ \E ok \in {Readable(call[r].type), FALSE} :
       Set(r, [call[r] EXCEPT !.at = IF call[r].auto THEN "queued" ELSE "asked",
                              !.pre = IF ok THEN blob.val ELSE {}])
  /\ UNCHANGED <<blob, profile, writes, op, runLock, runs, login, past, torn>>

\* The approval card: approved, interrupted, or denied (also by the timeout).
Decide(r) ==
  /\ At(r, "asked")
  /\ \E where \in {"queued", "denied", "idle"} :
       Set(r, IF where = "idle" THEN IdleCall ELSE [call[r] EXCEPT !.at = where])
  /\ UNCHANGED <<blob, profile, writes, op, runLock, runs, login, past, torn>>

\* deniedRedactor: the profile of now, then the blob of now; the audit row shows
\* the prompt without the values known, or no prompt if one read failed.
Deny(r) ==
  /\ At(r, "denied")
  /\ \/ Set(r, [call[r] EXCEPT !.at = "denying", !.type = profile])
     \/ Set(r, IdleCall)
  /\ UNCHANGED <<blob, profile, writes, op, runLock, runs, login, past, torn>>
DenySummary(r) == call[r].prompt \ (call[r].pre \cup (IF call[r].type = "none" THEN {} ELSE blob.val))
AuditDenied(r) ==
  /\ At(r, "denying") /\ Set(r, IdleCall)
  /\ IF call[r].type = "none" \/ Readable(call[r].type)
     THEN Leak(DenySummary(r), call[r].pre \cup
                 (IF call[r].type = "none" THEN {} ELSE ContentsOf(blob)))
     ELSE UNCHANGED past
  /\ UNCHANGED <<blob, profile, writes, op, runLock, runs, login, torn>>

\* The user lock, and the profile again: a logout in the meantime is honoured.
Dequeue(r) ==
  /\ At(r, "queued") /\ runLock = Nobody
  /\ IF profile = "none" THEN Set(r, IdleCall) /\ UNCHANGED runLock
     ELSE Set(r, [call[r] EXCEPT !.at = "loading", !.type = profile]) /\ runLock' = r
  /\ UNCHANGED <<blob, profile, writes, op, runs, login, past, torn>>

\* One read of the blob binds the value, the mount and the version of the fence.
Load(r) ==
  /\ At(r, "loading")
  /\ \E b \in {blob, NoBlob} : Set(r, [call[r] EXCEPT !.at = "checking", !.cred = b])
  /\ UNCHANGED <<blob, profile, writes, op, runLock, runs, login, past, torn>>

Leave(r) == Set(r, IdleCall) /\ runLock' = Nobody
Known(r) == call[r].pre \cup call[r].cred.val
Materialized(r) == call[r].cred # NoBlob /\ call[r].cred.kind = call[r].type
\* materializeCredential, the allow-list and the secret guards, then the audit
\* row (pending, or blocked) with the summary; no row when a check before fails.
Summary(r) == call[r].prompt \ Known(r)
Admitted(r, permitted) ==
  (call[r].auto \/ permitted) /\ call[r].prompt \cap Known(r) = {}
\* No mount, no workspace or no audit row; or the adapter's files cannot be staged.
Unprepared(r) == Leave(r) /\ UNCHANGED past
Staging == BOOLEAN
Prepare(r) ==
  /\ At(r, "checking")
  /\ \/ Unprepared(r)
     \/ /\ Materialized(r) /\ Leak(Summary(r), call[r].pre \cup ContentsOf(call[r].cred))
        /\ \E permitted \in BOOLEAN, staged \in Staging :
             IF Admitted(r, permitted) /\ staged
             THEN Set(r, [call[r] EXCEPT !.at = "launching"]) /\ UNCHANGED runLock
             ELSE Leave(r)
  /\ UNCHANGED <<blob, profile, writes, op, runs, login, torn>>

\* The launch fence, under the credential lock: refuse, or register and run.
BrokenUnchanged(r) == profile # "none"
Unchanged(r) == profile # "none" /\ Version = call[r].cred.ver
Launch(r) ==
  /\ At(r, "launching") /\ CredLockFree
  /\ IF Unchanged(r)
     THEN /\ Set(r, [call[r] EXCEPT !.at = "running"]) /\ runs' = runs \cup {r}
          /\ UNCHANGED runLock
     ELSE Leave(r) /\ UNCHANGED runs
  /\ UNCHANGED <<blob, profile, writes, op, login, past, torn>>

\* The caller of the run goes away.
Interrupt(r) ==
  /\ At(r, "running") /\ ~call[r].cancelled /\ Set(r, [call[r] EXCEPT !.cancelled = TRUE])
  /\ UNCHANGED <<blob, profile, writes, op, runLock, runs, login, past, torn>>

\* The container has exited.  It may have minted a token into its store and may
\* echo any secret it had; the store is scanned before anything is shown.
BrokenShown(r, mint, scanned) == (mint \cup call[r].cred.val) \ Known(r)
Shown(r, mint, scanned) ==
  IF scanned THEN (mint \cup call[r].cred.val) \ (Known(r) \cup mint) ELSE {}
Persists(r, clean, scanned) ==
  call[r].type = "tar" /\ clean /\ scanned /\ ~call[r].cancelled
Exited(r, mint, clean, scanned) ==
  /\ At(r, "running")
  /\ Leak(Shown(r, mint, scanned), mint \cup call[r].cred.val)
  /\ Set(r, [call[r] EXCEPT !.mint = mint,
               !.at = IF Persists(r, clean, scanned) THEN "persisting" ELSE "finishing"])
  /\ UNCHANGED <<blob, profile, writes, op, runLock, runs, login, torn>>

\* persistRefreshedState under the credential lock; best effort.
Fresh(r) == profile = "tar" /\ Version = call[r].cred.ver
Persist(r) ==
  /\ At(r, "persisting") /\ CredLockFree /\ Set(r, [call[r] EXCEPT !.at = "finishing"])
  /\ \/ UNCHANGED <<blob, writes>>
     \/ Fresh(r) /\ Put("tar", call[r].mint, call[r].cred.era)
  /\ UNCHANGED <<profile, op, runLock, runs, login, past, torn>>

\* The audit row is final, the scratch removed, registry and lock released.
Finish(r) ==
  /\ At(r, "finishing") /\ Leave(r) /\ runs' = runs \ {r}
  /\ UNCHANGED <<blob, profile, writes, op, login, past, torn>>

-----------------------------------------------------------------------------
\* The process dies: the vault's file and the row stay as they are.
Crash ==
  /\ past.crashes > 0 /\ past' = [past EXCEPT !.crashes = @ - 1]
  /\ op' = IdleOp /\ torn' = (torn \/ op.at \in {"record", "restore", "drop"})
  /\ call' = [r \in Runs |-> IdleCall] /\ runLock' = Nobody /\ runs' = {}
  /\ login' = [l \in Logins |-> IdleLogin]
  /\ UNCHANGED <<blob, profile, writes>>

Init ==
  /\ blob = NoBlob /\ profile = "none" /\ writes = 0 /\ op = IdleOp
  /\ call = [r \in Runs |-> IdleCall] /\ runLock = Nobody /\ runs = {}
  /\ login = [l \in Logins |-> IdleLogin] /\ torn = FALSE
  /\ past = [era |-> 0, done |-> 0, dead |-> {}, leaked |-> {}, crashes |-> MaxCrashes]

Quotes == {{}} \cup {{v} : v \in Values}
LoginStep(l) == StartLogin(l) \/ StartFails(l) \/ Attach(l) \/ Exit(l) \/ Commit(l)
                \/ CancelLogin(l) \/ EndSession(l)
OpStep == Store \/ Record \/ Restore \/ DropProfile \/ Revoke
Ends(r) == \E m \in Quotes, clean, scanned \in BOOLEAN : Exited(r, m, clean, scanned)
RunStep(r) ==
  \/ Snapshot(r) \/ Decide(r) \/ Deny(r) \/ AuditDenied(r) \/ Dequeue(r) \/ Load(r)
  \/ Prepare(r) \/ Launch(r) \/ Interrupt(r) \/ Ends(r) \/ Persist(r) \/ Finish(r)
Next ==
  \/ \E l \in Logins : LoginStep(l)
  \/ (\E v \in Values : SetKey(v)) \/ Logout \/ OpStep \/ Crash
  \/ \E r \in Runs : RunStep(r) \/ \E auto \in BOOLEAN, q \in Quotes : Handle(r, auto, q)
Spec == Init /\ [][Next]_vars

-----------------------------------------------------------------------------
Written == [kind : Kinds, val : SUBSET Values, ver : 1 .. MaxWrites, era : 0 .. MaxEra]
Blobs == {NoBlob} \cup Written
OpType == [by : {"idle", "key", "logout"} \cup Logins, kind : Kinds, val : SUBSET Values,
           at : {"none", "put", "record", "restore", "drop", "revoke"},
           old : Blobs, era : 0 .. MaxEra]
Ats == {"idle", "asking", "asked", "denied", "denying", "queued", "loading", "checking",
        "launching", "running", "persisting", "finishing"}
CallType == [at : Ats, auto : BOOLEAN, prompt : SUBSET Values, type : Kinds \cup {"none"},
             pre : SUBSET Values, cred : Blobs, cancelled : BOOLEAN, mint : SUBSET Values]
LoginType == [at : {"gone", "starting", "live", "confirmed", "ending"},
              cancelled : BOOLEAN, era : 0 .. MaxEra, val : SUBSET Values]
PastType == [era : 0 .. MaxEra, done : 0 .. MaxEra, dead : SUBSET (0 .. MaxWrites),
             leaked : SUBSET Values, crashes : 0 .. MaxCrashes]
\* Everything the handlers and operations hold is of its type.
TypeOK ==
  /\ blob \in Blobs /\ profile \in Kinds \cup {"none"} /\ writes \in 0 .. MaxWrites
  /\ op \in OpType /\ torn \in BOOLEAN /\ past \in PastType
  /\ runLock \in Runs \cup {Nobody} /\ runs \subseteq Runs
  /\ call \in [Runs -> CallType] /\ login \in [Logins -> LoginType]

\* A run whose container works with a credential that a logout, a key change or a
\* login has replaced is a run that has been told to stop.
RevokedRunsAreCancelled ==
  \A r \in Runs : At(r, "running") /\ call[r].cred.ver \in past.dead => call[r].cancelled

\* What is stored when nobody is replacing it was typed in, or its login began,
\* after the last logout or key change that succeeded: no late login, and no late
\* refresh by a run, brings an older credential back.
NoResurrection == CredLockFree /\ blob # NoBlob => blob.era >= past.done

\* The row and the blob agree, unless an operation failed between its two writes
\* (its second write, or the repair of the first) or the process died there.
RowMatchesBlob ==
  CredLockFree /\ ~torn => profile = (IF blob = NoBlob THEN "none" ELSE blob.kind)

\* No audit row and no result shows a credential that was live when the call was
\* made or when the row was written, or that the run had or minted.
NothingLeaks == past.leaked = {}
-----------------------------------------------------------------------------
(* The assumption on the constants and the inductive invariant.              *)

Named == /\ MaxWrites \in Nat /\ MaxEra \in Nat /\ MaxCrashes \in Nat
         /\ NoBlob \notin Written /\ Logins \cap {"idle", "key", "logout"} = {}

\* A version is of one blob, and what is stored is not among what was revoked.
Versions ==
  /\ past.dead \subseteq 0 .. writes
  /\ (blob # NoBlob => blob.ver <= writes /\ blob.ver \notin past.dead)
  /\ \A r \in Runs : call[r].cred # NoBlob =>
       /\ call[r].cred.ver <= writes
       /\ blob # NoBlob /\ blob.ver = call[r].cred.ver => call[r].cred = blob
\* A login that may still commit began after the last key change or logout.
Eras ==
  /\ past.done <= past.era /\ (blob # NoBlob => blob.era >= past.done)
  /\ \A l \in Logins : login[l].at # "gone" /\ ~login[l].cancelled => login[l].era = past.era
\* What the holder of the credential lock has done by now.
Replacing == op.at \in {"put", "record", "restore"}
Half == op.at \in {"record", "restore"}
Holding ==
  /\ op.by = "idle" <=> op.at = "none"
  /\ op.era <= past.era /\ (op.by \in Logins => login[op.by].at = "confirmed")
  /\ Replacing => op.era = past.era /\ (op.old # NoBlob => op.old.era >= past.done)
  /\ op.at = "put" => op.old = blob
  /\ Half => blob # NoBlob /\ blob.kind = op.kind
  /\ Half \/ op.at = "revoke" => (blob # NoBlob => blob.era >= op.era)
  /\ op.at = "drop" => blob = NoBlob
\* The row tells of the blob, or of the one that is being replaced.
KindOf(b) == IF b = NoBlob THEN "none" ELSE b.kind
Told == torn \/ op.at = "drop" \/ profile = KindOf(IF Half THEN op.old ELSE blob)
\* Who is past the fence is registered, and has a credential.
Registered == \A r \in Runs :
  /\ call[r].at \in {"running", "persisting", "finishing"} => r \in runs
  /\ call[r].at \in {"launching", "running", "persisting"} => call[r].cred # NoBlob
IInv == /\ TypeOK /\ Versions /\ Eras /\ Holding /\ Told /\ Registered
        /\ RevokedRunsAreCancelled /\ NothingLeaks
=============================================================================
