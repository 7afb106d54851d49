----------------------------- MODULE ModelAssets -----------------------------
(****************************************************************************)
(* The pinned model files: internal/assets/assets.go, pulled by the command *)
(* line (several pulls may run, and any may be killed) and loaded by the    *)
(* server (cmd/hina/server.go).  What one system call does to a file is one *)
(* step; the assets of a manifest are handled in its order.                 *)
(****************************************************************************)
EXTENDS Integers, Sequences

CONSTANTS
  List,       \* Manifest: the assets, in order
  Archived,   \* those that are a member of an archive
  ByPath,     \* those the runtime opens by name: the library, the encoder
  Pulls,      \* the processes that run `hina assets pull`
  Attempts    \* retryAttempts

VARIABLES
  disk,     \* what is at the path of an asset
  pull,     \* the pulls: where, at which asset, and after how many attempts
  server,   \* the server: where, at which asset, what it has loaded
  botched   \* history: the assets onto which a pull extracted a bad member
vars == <<disk, pull, server, botched>>

Assets == {List[i] : i \in 1 .. Len(List)}
\* "link": the file is a symlink; "detour": a directory above it is one.
Kinds == {"none", "good", "bad", "link", "detour"}
Idle == [at |-> "idle", i |-> 1, tries |-> 0]
Off == [at |-> "off", i |-> 1, has |-> [a \in Assets |-> "none"]]

Put(f, c) == disk' = [disk EXCEPT ![f] = c]
At(p, s) == pull[p].at = s
Go(p, s) == pull' = [pull EXCEPT ![p].at = s]
Cur(p) == List[pull[p].i]

\* A link on the way to a file, wrong contents and a missing file are one answer.
Verified(f) == disk[f] = "good"

\* Pull.  SecureRoot may refuse the root.
Start(p) ==
  /\ pull[p].at \in {"idle", "done", "failed"}
  /\ pull' = [pull EXCEPT ![p] = [Idle EXCEPT !.at = "look"]]
Past(r) == IF r.i = Len(List) THEN [r EXCEPT !.at = "done"] ELSE [Idle EXCEPT !.at = "look", !.i = r.i + 1]
Skip(p) ==
  /\ At(p, "look") /\ Verified(Cur(p))
  /\ pull' = [pull EXCEPT ![p] = Past(@)]
\* The chain of directories is walked, and made, before the temporary file.
Enter(p) ==
  /\ At(p, "look") /\ ~Verified(Cur(p)) /\ disk[Cur(p)] # "detour"
  /\ Go(p, "get")
Fail(p) ==
  /\ pull[p].at \in {"look", "get", "extract"}
  /\ Go(p, "failed")

\* One attempt: a passing failure or a short body is tried again from an empty file,
\* a refusal is not, and a body of the right length is taken for what it is.
Retry(p) ==
  /\ At(p, "get")
  /\ IF pull[p].tries = Attempts - 1 THEN Go(p, "failed") ELSE pull' = [pull EXCEPT ![p].tries = @ + 1]
BrokenAccepts(c) == c \in {"good", "bad"}
Accepts(c) == c = "good"
Got(p, c) ==
  /\ At(p, "get")
  /\ IF ~Accepts(c) THEN Go(p, "failed") /\ UNCHANGED disk
     ELSE IF Cur(p) \in Archived THEN Go(p, "extract") /\ UNCHANGED disk
     ELSE Put(Cur(p), c) /\ pull' = [pull EXCEPT ![p] = Past(@)]
\* The member is renamed into place, and only then compared with its digest.
Extract(p, c) ==
  /\ At(p, "extract")
  /\ Put(Cur(p), c) /\ Go(p, "check")
  /\ botched' = IF c = "bad" THEN botched \cup {Cur(p)} ELSE botched
Check(p) ==
  /\ At(p, "check")
  /\ IF Verified(Cur(p)) THEN pull' = [pull EXCEPT ![p] = Past(@)] /\ UNCHANGED disk
     ELSE Put(Cur(p), "none") /\ Go(p, "failed")
Kill(p) == ~At(p, "idle") /\ Go(p, "idle")

Pulling ==
  /\ UNCHANGED server
  /\ \E p \in Pulls :
       \/ (Start(p) \/ Skip(p) \/ Enter(p) \/ Fail(p) \/ Retry(p) \/ Kill(p)) /\ UNCHANGED <<disk, botched>>
       \/ (Check(p) \/ \E c \in {"good", "bad"} : Got(p, c)) /\ UNCHANGED botched
       \/ \E c \in {"good", "bad"} : Extract(p, c)

\* The server verifies every file of an engine, one by one, and is up or goes without.
Boot == server.at = "off" /\ server' = [Off EXCEPT !.at = "verify"]
Gate ==
  /\ server.at = "verify"
  /\ server' = IF ~Verified(List[server.i]) THEN Off
               ELSE IF server.i = Len(List) THEN [server EXCEPT !.at = "up"]
               ELSE [server EXCEPT !.i = @ + 1]
\* A model is loaded when it is first used and again after it was unloaded: a file
\* opened by name is what is there now, any other is the bytes that were verified.
Loadable(f) == IF f \in ByPath THEN disk[f] # "none" ELSE Verified(f)
Load(f) ==
  /\ server.at = "up" /\ Loadable(f)
  /\ server' = [server EXCEPT !.has[f] = disk[f]]
Stop == server.at # "off" /\ server' = Off
Serving == UNCHANGED <<disk, pull, botched>> /\ (Boot \/ Gate \/ Stop \/ \E f \in Assets : Load(f))

Init ==
  /\ disk \in [Assets -> Kinds]
  /\ pull = [p \in Pulls |-> Idle] /\ server = Off /\ botched = {}
Next == Pulling \/ Serving
Spec == Init /\ [][Next]_vars

\* A pull that reported success leaves every asset verified, and the server has loaded
\* nothing but pinned bytes, with any number of pulls beside them, wherever they are
\* killed and whatever the network sent: but for a library onto which a pull that
\* started from an unverified one renamed a bad member before it compared the digest.
PinnedBytesOnly ==
  \A f \in Assets \ botched :
    /\ (\E p \in Pulls : At(p, "done")) => Verified(f)
    /\ server.has[f] \in {"none", "good"}
-----------------------------------------------------------------------------
(* The assumption on the constants and the inductive invariant. *)

\* The manifest names something.
Listed == List \in Seq(STRING) /\ List # <<>>
TypeOK ==
  /\ disk \in [Assets -> Kinds] /\ botched \subseteq Assets
  /\ pull \in [Pulls -> [at : {"idle", "look", "get", "extract", "check", "done", "failed"},
                         i : 1 .. Len(List), tries : Nat]]
  /\ server \in [at : {"off", "verify", "up"}, i : 1 .. Len(List), has : [Assets -> Kinds]]

\* Nobody takes the pinned bytes of a file away again, or they are replaced by a bad member.
Kept(f) == f \in botched \/ Verified(f)
\* What a pull or the server has gone past in the manifest is kept.
PulledSoFar == \A p \in Pulls :
  /\ pull[p].at \in {"look", "get", "extract", "check"} => \A j \in 1 .. pull[p].i - 1 : Kept(List[j])
  /\ pull[p].at = "done" => \A f \in Assets : Kept(f)
GatedSoFar ==
  /\ server.at = "verify" => \A j \in 1 .. server.i - 1 : Kept(List[j])
  /\ server.at = "up" => \A f \in Assets : Kept(f)
HasPinned == \A f \in Assets \ botched : server.has[f] \in {"none", "good"}
IInv == TypeOK /\ PulledSoFar /\ GatedSoFar /\ HasPinned
=============================================================================
