---------------------------- MODULE LoginSessions ----------------------------
(****************************************************************************)
(* The first administrator, the login sessions and the gate of the local    *)
(* network: internal/auth, the handlers of internal/httpapi/handlers_auth   *)
(* and the startup in cmd/hina/server.go.  No call creates another user.    *)
(* A session that has expired, or whose cookie is lost, is not used again,  *)
(* which every behaviour of the model allows.                               *)
(****************************************************************************)
EXTENDS Naturals

CONSTANTS
  Requests,    \* requests under way
  Tickets,     \* rows of auth_sessions, one token each
  Passwords,   \* passwords
  Bootstrap,   \* the one of them that EnsureAdmin made up
  MaxChanges   \* bound: changes of the password

VARIABLES
  admin,    \* the row of the administrator
  ticket,   \* the rows of auth_sessions
  proc,     \* the processes: the server, and `hina setup` beside it
  req,      \* the requests
  changes   \* ghost: how often the password was changed
vars == <<admin, ticket, proc, req, changes>>

NoAdmin == [password |-> "none", must |-> FALSE]
NoTicket == [exists |-> FALSE, proof |-> 0, minted |-> 0]
\* Ghosts: proof counts the changes before the password that a request has shown, or set;
\* minted those before its session was inserted.
Idle == [at |-> "idle", new |-> "none", proof |-> 0]
Processes == {"server", "setup"}
Up == proc["server"] \in {"loopback", "lan"}
Go(p, at) == proc' = [proc EXCEPT ![p] = at]

\* EnsureAdmin: the count and the insert are two statements, and names are unique.
Count(p) ==
  /\ proc[p] = "off"
  /\ Go(p, IF admin = NoAdmin THEN "create" ELSE "ready")
  /\ UNCHANGED admin
Create(p) ==
  /\ proc[p] = "create"
  /\ \/ admin = NoAdmin /\ admin' = [password |-> Bootstrap, must |-> TRUE] /\ Go(p, "ready")
     \/ UNCHANGED admin /\ Go(p, "off")

\* LANAllowed, of the server that is to bind an address that is not the loopback.
Allowed == ~admin.must
Bind ==
  /\ proc["server"] = "ready" /\ UNCHANGED admin
  /\ \/ Go("server", "loopback")
     \/ Go("server", IF Allowed THEN "lan" ELSE "off")
\* A process ends, or dies, with the requests that it serves.
Exit(p) ==
  /\ proc[p] # "off" /\ Go(p, "off")
  /\ req' = IF p = "server" THEN [r \in Requests |-> Idle] ELSE req
  /\ UNCHANGED admin

\* Authenticate: what is not the password changes nothing.
Authenticate(r) ==
  /\ req[r] = Idle /\ Up
  /\ \E p \in Passwords : p = admin.password
\* handleLogin; the hash was read, and the session is inserted later.
LogIn(r) ==
  /\ Authenticate(r)
  /\ req' = [req EXCEPT ![r] = [Idle EXCEPT !.at = "mint", !.proof = changes]]
  /\ UNCHANGED <<admin, ticket, changes>>
Mint(r, t) ==
  /\ req[r].at = "mint" /\ ~ticket[t].exists
  /\ ticket' = [ticket EXCEPT ![t] = [exists |-> TRUE, proof |-> req[r].proof, minted |-> changes]]
  /\ req' = [req EXCEPT ![r] = Idle]
  /\ UNCHANGED <<admin, changes>>

\* handleChangePassword: a session, the password, and any new one, which may be the same.
Ask(r, t, new) ==
  /\ Authenticate(r) /\ ticket[t].exists
  /\ req' = [req EXCEPT ![r] = [Idle EXCEPT !.at = "change", !.new = new]]
  /\ UNCHANGED <<admin, ticket, changes>>
\* UpdateUserPasswordAndRevokeSessions: one transaction; then a session of its own.
BrokenKept(t) == ticket[t].exists
Kept(t) == FALSE
Change(r) ==
  /\ req[r].at = "change" /\ changes < MaxChanges
  /\ admin' = [password |-> req[r].new, must |-> FALSE]
  /\ ticket' = [t \in Tickets |-> IF Kept(t) THEN ticket[t] ELSE NoTicket]
  /\ changes' = changes + 1
  /\ req' = [req EXCEPT ![r] = [Idle EXCEPT !.at = "mint", !.proof = changes + 1]]
\* A statement that fails ends the request; what it has committed stays.
GiveUp(r) ==
  /\ req[r] # Idle /\ req' = [req EXCEPT ![r] = Idle]
  /\ UNCHANGED <<admin, ticket, changes>>
LogOut(t) ==
  /\ Up /\ ticket[t].exists
  /\ ticket' = [ticket EXCEPT ![t] = NoTicket]
  /\ UNCHANGED <<admin, req, changes>>

Starting ==
  /\ UNCHANGED <<ticket, changes>>
  /\ \/ (\E p \in Processes : Count(p) \/ Create(p)) /\ UNCHANGED req
     \/ Bind /\ UNCHANGED req
     \/ \E p \in Processes : Exit(p)
Serving ==
  /\ UNCHANGED proc
  /\ \/ \E r \in Requests : LogIn(r) \/ Change(r) \/ GiveUp(r)
     \/ \E r \in Requests, t \in Tickets : Mint(r, t) \/ \E p \in Passwords : Ask(r, t, p)
     \/ \E t \in Tickets : LogOut(t)
Init ==
  /\ admin = NoAdmin /\ ticket = [t \in Tickets |-> NoTicket]
  /\ proc = [p \in Processes |-> "off"] /\ req = [r \in Requests |-> Idle] /\ changes = 0
Next == Starting \/ Serving
Spec == Init /\ [][Next]_vars
-----------------------------------------------------------------------------
\* A session outlives no change of the password: whoever holds one has shown, or set, the
\* password in force, unless a change came between the check of his password and the insert
\* of his session.  On the local network nobody still has to change the one-time password
\* (store/users.go:91-95, bootstrap.go:79-80).
OldSessionsDie ==
  /\ \A t \in Tickets : ticket[t].exists => ticket[t].minted = changes
  /\ proc["server"] = "lan" => ~admin.must /\ changes > 0
-----------------------------------------------------------------------------
(* The assumption on the constants and the inductive invariant. *)

\* EnsureAdmin always makes up a password, and "none" stands for the missing row.
Named == Bootstrap \in Passwords /\ "none" \notin Passwords

TypeOK ==
  /\ admin \in [password : Passwords, must : BOOLEAN] \cup {NoAdmin}
  /\ ticket \in [Tickets -> [exists : BOOLEAN, proof : Nat, minted : Nat]]
  /\ proc \in [Processes -> {"off", "create", "ready", "loopback", "lan"}]
  /\ req \in [Requests -> [at : {"idle", "mint", "change"}, new : Passwords \cup {"none"},
                           proof : Nat]]
  /\ changes \in Nat

\* A process that is past its startup has seen the administrator; and he still has the
\* password that was made up for him, or has changed it.
Ensured == \A p \in Processes : proc[p] \in {"ready", "loopback", "lan"} => admin # NoAdmin
Replaced == admin # NoAdmin => admin.must \/ changes > 0
Asking == \A r \in Requests : req[r].at = "change" => req[r].new \in Passwords
Minted == \A t \in Tickets : ticket[t].exists => ticket[t].minted = changes
Gated == proc["server"] = "lan" => ~admin.must
IInv == TypeOK /\ Ensured /\ Replaced /\ Asking /\ Minted /\ Gated
=============================================================================
