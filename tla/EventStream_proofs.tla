-------------------------- MODULE EventStream_proofs --------------------------
(****************************************************************************)
(* Proofs about EventStream for every number of clients and requests, every  *)
(* buffer and every bound: what is on a connection continues what its client *)
(* has, and so the clients read the log of EventFeed in order.               *)
(*                                                                           *)
(* The inductive invariant needs two more facts: a connected request is      *)
(* alive and has one client, and nothing anywhere is newer than the log.     *)
(****************************************************************************)
EXTENDS EventStream, TLAPS

OneClient ==
  /\ \A c, d \in Clients : conn[c] = conn[d] /\ conn[c] # NoHandler => c = d
  /\ \A c \in Clients : conn[c] # NoHandler =>
       handler[conn[c]].pc # "none" /\ ~handler[conn[c]].gone

KnownTo(s, n) == /\ s.sent <= n /\ s.hand <= n
                 /\ \A i \in 1..Len(s.buf) : s.buf[i] <= n
NothingNewer == /\ fanned <= log
                /\ \A h \in Handlers : KnownTo(handler[h], log)
                /\ \A c \in Clients : last[c] <= log

\* StreamContinues for one request s of a client that has received up to a.
Continues(s, a) == /\ s.sent = a + Len(s.wire)
                   /\ \A i \in 1..Len(s.wire) : s.wire[i] = a + i

IInv == TypeOK /\ OneClient /\ NothingNewer /\ StreamContinues

-----------------------------------------------------------------------------
(* Requests.                                                                 *)

\* The empty request is typed.
LEMMA NoRequestTyped == NoRequest \in RequestType
BY DEF NoRequest, RequestType

\* Spending keeps the budget's type.
LEMMA SpendTyped ==
  ASSUME TypeOK, NEW what \in {"delta", "fault", "drop"}, Spend(what)
  PROVE  budget' \in [delta : Nat, fault : Nat, drop : Nat]
BY DEF TypeOK, Spend

\* Written keeps a request typed, alters nothing but sent and wire, and keeps
\* StreamContinues for its client.
LEMMA WrittenKeeps ==
  ASSUME IInv, NEW h \in Handlers, NEW m \in Nat, handler[h].sent <= m, m <= log
  PROVE  /\ Written(h, m) \in RequestType
         /\ Written(h, m) = [handler[h] EXCEPT !.sent = m, !.wire = Written(h, m).wire]
         /\ KnownTo(Written(h, m), log)
         /\ \A c \in Clients : conn[c] = h => Continues(Written(h, m), last[c])
<1> DEFINE s == handler[h]
           v == s.wire \o [i \in 1..(m - s.sent) |-> s.sent + i]
<1>1. s \in RequestType /\ s.wire \in Seq(Nat) /\ s.sent \in Nat
  BY DEF IInv, TypeOK, RequestType
<1>2. ASSUME NEW c \in Clients, conn[c] = h
      PROVE  v \in Seq(Nat) /\ m = last[c] + Len(v) /\ \A i \in 1..Len(v) : v[i] = last[c] + i
  <2>1. last[c] \in Nat /\ conn[c] # NoHandler
    BY <1>2, StreamAssumption DEF IInv, TypeOK
  <2>2. s.sent = last[c] + Len(s.wire) /\ \A i \in 1..Len(s.wire) : s.wire[i] = last[c] + i
    BY <1>2, <2>1 DEF IInv, StreamContinues
  <2> DEFINE x == [i \in 1..(m - s.sent) |-> s.sent + i]
  <2>3. x \in Seq(Nat) /\ Len(x) = m - s.sent /\ \A i \in 1..Len(x) : x[i] = s.sent + i
    <3> DEFINE n == s.sent
    <3>1. n \in Nat /\ n <= m
      BY <1>1
    <3> HIDE DEF n
    <3>2. /\ [i \in 1..(m - n) |-> n + i] \in Seq(Nat)
          /\ Len([i \in 1..(m - n) |-> n + i]) = m - n
          /\ \A i \in 1..(m - n) : [j \in 1..(m - n) |-> n + j][i] = n + i
      BY <3>1
    <3> QED BY <3>1, <3>2 DEF n
  <2> HIDE DEF x
  <2>4. /\ s.wire \o x \in Seq(Nat) /\ m = last[c] + Len(s.wire \o x)
        /\ \A i \in 1..Len(s.wire \o x) : (s.wire \o x)[i] = last[c] + i
    <3> DEFINE n == s.sent
               w == s.wire
               a == last[c]
    <3>1. n \in Nat /\ n <= m /\ w \in Seq(Nat) /\ a \in Nat
      BY <1>1, <2>1
    <3> HIDE DEF n, w, a
    <3>2. n = a + Len(w) /\ \A i \in 1..Len(w) : w[i] = a + i
      BY <2>2 DEF n, w, a
    <3>3. x \in Seq(Nat) /\ Len(x) = m - n /\ \A i \in 1..Len(x) : x[i] = n + i
      BY <2>3 DEF n
    <3>4. /\ w \o x \in Seq(Nat) /\ m = a + Len(w \o x)
          /\ \A i \in 1..Len(w \o x) : (w \o x)[i] = a + i
      <4> DEFINE u == w \o x
      <4>1. u \in Seq(Nat) /\ Len(u) = Len(w) + Len(x)
        BY <3>1, <3>3
      <4>2. \A i \in 1..Len(u) : u[i] = IF i <= Len(w) THEN w[i] ELSE x[i - Len(w)]
        BY <3>1, <3>3
      <4>3. ASSUME NEW i \in 1..Len(u) PROVE u[i] = a + i
        <5>1. CASE i <= Len(w)
          BY <3>2, <4>2, <5>1
        <5>2. CASE i > Len(w)
          <6>1. i - Len(w) \in 1..Len(x)
            BY <3>1, <3>3, <4>1, <5>2
          <6>2. u[i] = n + (i - Len(w))
            BY <3>3, <4>2, <5>2, <6>1
          <6> QED BY <3>1, <3>2, <6>2
        <5> QED BY <3>1, <5>1, <5>2
      <4> QED BY <3>1, <3>2, <3>3, <4>1, <4>3
    <3> QED BY <3>4 DEF w, a
  <2> QED BY <2>4 DEF x
<1>3. CASE Connected(h)
  <2>1. Written(h, m) = [s EXCEPT !.sent = m, !.wire = v]
    BY <1>3 DEF Written
  <2>2. v \in Seq(Nat)
    BY <1>2, <1>3 DEF Connected
  <2>3. [s EXCEPT !.sent = m, !.wire = v] \in RequestType
    BY <1>1, <2>2 DEF RequestType
  <2>4. [s EXCEPT !.sent = m, !.wire = v].wire = v /\ [s EXCEPT !.sent = m, !.wire = v].sent = m
        /\ [s EXCEPT !.sent = m, !.wire = v].hand = s.hand
        /\ [s EXCEPT !.sent = m, !.wire = v].buf = s.buf
    BY <1>1 DEF RequestType
  <2>5. KnownTo(Written(h, m), log)
    BY <2>1, <2>4 DEF IInv, NothingNewer, KnownTo
  <2>6. \A c \in Clients : conn[c] = h => Continues(Written(h, m), last[c])
    BY <1>2, <2>1, <2>4 DEF Continues
  <2> QED BY <2>1, <2>3, <2>4, <2>5, <2>6
<1>4. CASE ~Connected(h)
  <2>1. Written(h, m) = [s EXCEPT !.sent = m, !.wire = s.wire]
    BY <1>4 DEF Written
  <2>2. Written(h, m) \in RequestType /\ Written(h, m).wire = s.wire /\ Written(h, m).sent = m
        /\ Written(h, m).hand = s.hand /\ Written(h, m).buf = s.buf
    BY <1>1, <2>1 DEF RequestType
  <2>3. KnownTo(Written(h, m), log)
    BY <2>2 DEF IInv, NothingNewer, KnownTo
  <2> QED BY <1>4, <2>1, <2>2, <2>3 DEF Connected
<1> QED BY <1>3, <1>4

\* What a request knows stays known when the log grows.
LEMMA KnownGrows ==
  ASSUME NEW s \in RequestType, NEW m \in Nat, NEW n \in Nat, m <= n, KnownTo(s, m)
  PROVE  KnownTo(s, n)
<1>1. s.sent \in Nat /\ s.hand \in Int /\ s.buf \in Seq(Int)
  BY DEF RequestType
<1>2. \A i \in 1..Len(s.buf) : s.buf[i] \in Int
  BY <1>1
<1> QED BY <1>1, <1>2 DEF KnownTo

\* Most steps change one request and nothing of the browsers: it is enough that
\* the new request is typed, known and continues, and stays alive if connected.
LEMMA OneRequest ==
  ASSUME IInv, NEW h \in Handlers, NEW s \in RequestType,
         handler' = [handler EXCEPT ![h] = s],
         log' \in Nat, log <= log', UNCHANGED <<fanned, conn, last>>,
         budget' \in [delta : Nat, fault : Nat, drop : Nat],
         KnownTo(s, log'),
         \A c \in Clients : conn[c] = h => /\ Continues(s, last[c])
                                           /\ s.pc # "none" /\ ~s.gone
  PROVE  IInv'
<1>1. TypeOK'
  BY DEF IInv, TypeOK
<1>2. \A k \in Handlers : handler'[k] = IF k = h THEN s ELSE handler[k]
  BY DEF IInv, TypeOK
<1>3. OneClient'
  BY <1>2 DEF IInv, OneClient, TypeOK
<1>4. NothingNewer'
  <2>1. \A k \in Handlers : handler[k] \in RequestType /\ KnownTo(handler[k], log)
    BY DEF IInv, TypeOK, NothingNewer
  <2>2. \A k \in Handlers : KnownTo(handler[k], log')
    BY <2>1, KnownGrows DEF IInv, TypeOK
  <2>3. \A k \in Handlers : KnownTo(handler'[k], log')
    BY <1>2, <2>2
  <2>4. fanned' <= log' /\ \A c \in Clients : last'[c] <= log'
    BY DEF IInv, TypeOK, NothingNewer
  <2> QED BY <2>3, <2>4 DEF NothingNewer
<1>5. StreamContinues'
  BY <1>2 DEF IInv, StreamContinues, Continues, TypeOK
<1> QED BY <1>1, <1>3, <1>4, <1>5 DEF IInv

\* A step that leaves sent, wire, pc, gone and the connections alone.
LEMMA SameStreams ==
  ASSUME IInv, handler' \in [Handlers -> RequestType],
         \A h \in Handlers : /\ handler'[h].sent = handler[h].sent
                             /\ handler'[h].wire = handler[h].wire
                             /\ handler'[h].pc = handler[h].pc
                             /\ handler'[h].gone = handler[h].gone,
         UNCHANGED <<conn, last>>
  PROVE  OneClient' /\ StreamContinues'
BY DEF IInv, OneClient, StreamContinues, TypeOK

-----------------------------------------------------------------------------
(* The steps of the bus.                                                     *)

\* Offering keeps a request typed and puts nothing newer than e into it.
LEMMA OfferKeeps ==
  ASSUME NEW s \in RequestType, NEW n \in Nat, NEW e \in Int, e <= n, KnownTo(s, n)
  PROVE  /\ Offer(s, e) \in RequestType /\ KnownTo(Offer(s, e), n)
         /\ Offer(s, e).sent = s.sent /\ Offer(s, e).wire = s.wire
         /\ Offer(s, e).pc = s.pc /\ Offer(s, e).gone = s.gone
<1>1. CASE Len(s.buf) < BufCap
  <2> DEFINE b == Append(s.buf, e)
             t == [s EXCEPT !.buf = b]
  <2>1. s.buf \in Seq(Int)
    BY DEF RequestType
  <2>2. b \in Seq(Int) /\ Len(b) = Len(s.buf) + 1
        /\ \A i \in 1..Len(b) : b[i] = IF i <= Len(s.buf) THEN s.buf[i] ELSE e
    BY <2>1
  <2>3. Offer(s, e) = t
    BY <1>1 DEF Offer
  <2>4. t \in RequestType /\ t.buf = b /\ t.sent = s.sent /\ t.wire = s.wire
        /\ t.pc = s.pc /\ t.gone = s.gone /\ t.hand = s.hand
    BY <2>2 DEF RequestType
  <2>5. \A i \in 1..Len(b) : b[i] <= n
    BY <2>1, <2>2 DEF KnownTo
  <2> QED BY <2>3, <2>4, <2>5 DEF KnownTo
<1>2. CASE ~(Len(s.buf) < BufCap)
  <2>1. Offer(s, e) = [s EXCEPT !.open = FALSE, !.failure = (e = Failure)]
    BY <1>2 DEF Offer
  <2> QED BY <2>1 DEF RequestType, KnownTo
<1> QED BY <1>1, <1>2

\* Publishing, fanning out, and events that are not in the log.
LEMMA BusInv ==
  ASSUME IInv, \/ (\E n \in 1..2 : Publish(n)) \/ fanoutDurable
               \/ PublishEphemeral \/ PublishLiveFailure
  PROVE  IInv'
<1>0. log \in Nat /\ fanned \in Nat /\ fanned <= log
      /\ \A h \in Handlers : handler[h] \in RequestType /\ KnownTo(handler[h], log)
  BY DEF IInv, TypeOK, NothingNewer
<1>1. ASSUME NEW n \in 1..2, Publish(n) PROVE IInv'
  <2>1. log' = log + n /\ log' \in Nat /\ log < log'
        /\ UNCHANGED <<fanned, handler, conn, last, budget>>
    BY <1>0, <1>1 DEF Publish
  <2>2. TypeOK'
    BY <2>1 DEF IInv, TypeOK
  <2>3. \A h \in Handlers : KnownTo(handler'[h], log')
    <3> SUFFICES ASSUME NEW h \in Handlers PROVE KnownTo(handler[h], log')
      BY <2>1
    <3> QED BY <1>0, <2>1, KnownGrows
  <2>4. NothingNewer'
    BY <1>0, <2>1, <2>3 DEF IInv, TypeOK, NothingNewer
  <2>5. OneClient' /\ StreamContinues'
    BY <2>1 DEF IInv, OneClient, StreamContinues
  <2> QED BY <2>2, <2>4, <2>5 DEF IInv
<1>2. ASSUME UNCHANGED <<log, conn, last>>, fanned' \in Nat, fanned' <= log,
             budget' \in [delta : Nat, fault : Nat, drop : Nat],
             handler' \in [Handlers -> RequestType],
             \A h \in Handlers : /\ KnownTo(handler'[h], log)
                                 /\ handler'[h].sent = handler[h].sent
                                 /\ handler'[h].wire = handler[h].wire
                                 /\ handler'[h].pc = handler[h].pc
                                 /\ handler'[h].gone = handler[h].gone
      PROVE  IInv'
  <2>1. TypeOK'
    BY <1>2 DEF IInv, TypeOK
  <2>2. NothingNewer'
    BY <1>2 DEF IInv, NothingNewer
  <2>3. OneClient' /\ StreamContinues'
    BY <1>2, SameStreams
  <2> QED BY <2>1, <2>2, <2>3 DEF IInv
<1>3. CASE fanoutDurable
  <2>1. fanned + 1 \in Nat /\ fanned + 1 <= log /\ fanned' = fanned + 1
    BY <1>0, <1>3 DEF fanoutDurable, BusFree
  <2>2. \A h \in Handlers : handler'[h] = IF handler[h].open THEN Offer(handler[h], fanned + 1)
                                          ELSE handler[h]
    BY <1>3 DEF fanoutDurable
  <2>3. \A h \in Handlers : /\ handler'[h] \in RequestType /\ KnownTo(handler'[h], log)
                            /\ handler'[h].sent = handler[h].sent
                            /\ handler'[h].wire = handler[h].wire
                            /\ handler'[h].pc = handler[h].pc
                            /\ handler'[h].gone = handler[h].gone
    BY <1>0, <2>1, <2>2, OfferKeeps
  <2>4. handler' \in [Handlers -> RequestType]
    BY <1>3, <2>3 DEF fanoutDurable
  <2> QED BY <1>2, <1>3, <2>1, <2>3, <2>4 DEF fanoutDurable, IInv, TypeOK
<1>4. CASE PublishEphemeral
  <2>1. \A h \in Handlers : handler'[h] \in {Offer(handler[h], Delta), handler[h]}
    BY <1>4 DEF PublishEphemeral, Offer
  <2>2. \A h \in Handlers : /\ handler'[h] \in RequestType /\ KnownTo(handler'[h], log)
                            /\ handler'[h].sent = handler[h].sent
                            /\ handler'[h].wire = handler[h].wire
                            /\ handler'[h].pc = handler[h].pc
                            /\ handler'[h].gone = handler[h].gone
    BY <1>0, <2>1, OfferKeeps DEF Delta
  <2>3. handler' \in [Handlers -> RequestType]
    BY <1>4, <2>2 DEF PublishEphemeral
  <2>4. budget' \in [delta : Nat, fault : Nat, drop : Nat]
    BY <1>4, SpendTyped DEF PublishEphemeral, IInv
  <2> QED BY <1>0, <1>2, <1>4, <2>2, <2>3, <2>4 DEF PublishEphemeral
<1>5. CASE PublishLiveFailure
  <2> DEFINE o(h) == [handler[h] EXCEPT !.owed = @ \/ Viewing(handler[h])]
  <2>1. \A h \in Handlers : handler'[h] = IF o(h).open THEN Offer(o(h), Failure) ELSE o(h)
    BY <1>5 DEF PublishLiveFailure
  <2>2. \A h \in Handlers : /\ o(h) \in RequestType /\ KnownTo(o(h), log)
                            /\ o(h).sent = handler[h].sent /\ o(h).wire = handler[h].wire
                            /\ o(h).pc = handler[h].pc /\ o(h).gone = handler[h].gone
    <3> SUFFICES ASSUME NEW h \in Handlers
                 PROVE  /\ o(h) \in RequestType /\ KnownTo(o(h), log)
                        /\ o(h).sent = handler[h].sent /\ o(h).wire = handler[h].wire
                        /\ o(h).pc = handler[h].pc /\ o(h).gone = handler[h].gone
      OBVIOUS
    <3>1. (handler[h].owed \/ Viewing(handler[h])) \in BOOLEAN
      BY <1>0 DEF RequestType, Viewing
    <3> QED BY <1>0, <3>1 DEF RequestType, KnownTo
  <2> HIDE DEF o
  <2>3. \A h \in Handlers : /\ handler'[h] \in RequestType /\ KnownTo(handler'[h], log)
                            /\ handler'[h].sent = handler[h].sent
                            /\ handler'[h].wire = handler[h].wire
                            /\ handler'[h].pc = handler[h].pc
                            /\ handler'[h].gone = handler[h].gone
    BY <1>0, <2>1, <2>2, OfferKeeps DEF Failure
  <2>4. handler' \in [Handlers -> RequestType]
    BY <1>5, <2>3 DEF PublishLiveFailure
  <2>5. budget' \in [delta : Nat, fault : Nat, drop : Nat]
    BY <1>5, SpendTyped DEF PublishLiveFailure, IInv
  <2> QED BY <1>0, <1>2, <1>5, <2>3, <2>4, <2>5 DEF PublishLiveFailure
<1> QED BY <1>1, <1>3, <1>4, <1>5

-----------------------------------------------------------------------------
(* The steps of a request.                                                   *)

\* What OneRequest needs to know of a request that is about to change.
LEMMA Standing ==
  ASSUME IInv, NEW h \in Handlers
  PROVE  /\ handler[h] \in RequestType /\ KnownTo(handler[h], log)
         /\ handler[h].buf \in Seq(Int) /\ log \in Nat
         /\ budget \in [delta : Nat, fault : Nat, drop : Nat]
         /\ \A c \in Clients : conn[c] = h => /\ Continues(handler[h], last[c])
                                              /\ handler[h].pc # "none" /\ ~handler[h].gone
<1>1. handler[h] \in RequestType /\ KnownTo(handler[h], log) /\ log \in Nat
      /\ budget \in [delta : Nat, fault : Nat, drop : Nat]
  BY DEF IInv, TypeOK, NothingNewer
<1>2. handler[h].buf \in Seq(Int)
  BY <1>1 DEF RequestType
<1>3. \A c \in Clients : conn[c] = h => /\ Continues(handler[h], last[c])
                                        /\ handler[h].pc # "none" /\ ~handler[h].gone
  BY StreamAssumption DEF IInv, StreamContinues, Continues, OneClient
<1> QED BY <1>1, <1>2, <1>3

\* A store call that fails, or does not, keeps the budget's type.
LEMMA StoreTyped ==
  ASSUME IInv, NEW h \in Handlers, UNCHANGED budget \/ StoreFails(h)
  PROVE  budget' \in [delta : Nat, fault : Nat, drop : Nat]
BY SpendTyped DEF IInv, TypeOK, StoreFails

\* Only the program counter of a request changes; the log may have grown.
LEMMA MovesOn ==
  ASSUME IInv, NEW h \in Handlers,
         NEW pc \in {"replay", "live", "leaving"}, handler' = At(h, pc),
         log' \in Nat, log <= log', UNCHANGED <<fanned, conn, last>>,
         budget' \in [delta : Nat, fault : Nat, drop : Nat]
  PROVE  IInv'
<1> DEFINE t == [handler[h] EXCEPT !.pc = pc]
<1>1. handler[h] \in RequestType /\ KnownTo(handler[h], log) /\ log \in Nat
      /\ \A c \in Clients : conn[c] = h => /\ Continues(handler[h], last[c])
                                           /\ handler[h].pc # "none" /\ ~handler[h].gone
  BY Standing
<1>2. t \in RequestType /\ KnownTo(t, log) /\ t.pc # "none" /\ t.gone = handler[h].gone
      /\ t.sent = handler[h].sent /\ t.wire = handler[h].wire
  BY <1>1 DEF RequestType, KnownTo
<1>3. handler' = [handler EXCEPT ![h] = t]
  BY DEF At, IInv, TypeOK
<1> HIDE DEF t
<1>4. KnownTo(t, log')
  BY <1>1, <1>2, KnownGrows
<1>5. \A c \in Clients : conn[c] = h => Continues(t, last[c]) /\ t.pc # "none" /\ ~t.gone
  BY <1>1, <1>2 DEF Continues
<1> QED BY <1>2, <1>3, <1>4, <1>5, OneRequest

\* What is sent after an event was taken is neither less than before nor more
\* than there is.
LEMMA SentForward ==
  ASSUME NEW s \in RequestType, log \in Nat, KnownTo(s, log)
  PROVE  SentAfter(s) \in Nat /\ s.sent <= SentAfter(s) /\ SentAfter(s) <= log
BY DEF RequestType, KnownTo, SentAfter

\* Every step of a request.
LEMMA HandlerInv ==
  ASSUME IInv, NEW h \in Handlers, handleEvents(h)
  PROVE  IInv'
<1> DEFINE s == handler[h]
<1>0. /\ s \in RequestType /\ KnownTo(s, log) /\ s.buf \in Seq(Int) /\ log \in Nat
      /\ budget \in [delta : Nat, fault : Nat, drop : Nat]
      /\ \A c \in Clients : conn[c] = h => /\ Continues(s, last[c])
                                           /\ s.pc # "none" /\ ~s.gone
  BY Standing
\* One request changes to t, and keeps its stream.
<1>1. ASSUME NEW t \in RequestType, handler' = [handler EXCEPT ![h] = t],
             UNCHANGED <<log, fanned, conn, last>>,
             budget' \in [delta : Nat, fault : Nat, drop : Nat],
             KnownTo(t, log), t.sent = s.sent, t.wire = s.wire,
             t.pc # "none", t.gone = s.gone
      PROVE  IInv'
  <2>1. \A c \in Clients : conn[c] = h => Continues(t, last[c]) /\ t.pc # "none" /\ ~t.gone
    BY <1>0, <1>1 DEF Continues
  <2>2. log' \in Nat /\ log <= log' /\ KnownTo(t, log')
    BY <1>0, <1>1
  <2> QED BY <1>1, <2>1, <2>2, OneRequest
\* One request writes up to m and then changes to t in other fields.
<1>2. ASSUME NEW m \in Nat, s.sent <= m, m <= log, NEW t \in RequestType,
             handler' = [handler EXCEPT ![h] = t],
             UNCHANGED <<log, fanned, conn, last>>,
             budget' \in [delta : Nat, fault : Nat, drop : Nat],
             KnownTo(t, log), t.sent = m, t.wire = Written(h, m).wire,
             t.pc # "none", t.gone = s.gone
      PROVE  IInv'
  <2>1. \A c \in Clients : conn[c] = h => Continues(Written(h, m), last[c])
    BY <1>2, WrittenKeeps
  <2>2. Written(h, m).sent = m
    BY <1>0 DEF Written, RequestType
  <2>3. \A c \in Clients : conn[c] = h => Continues(t, last[c]) /\ t.pc # "none" /\ ~t.gone
    BY <1>0, <1>2, <2>1, <2>2 DEF Continues
  <2>4. log' \in Nat /\ log <= log' /\ KnownTo(t, log')
    BY <1>0, <1>2
  <2> QED BY <1>2, <2>3, <2>4, OneRequest
\* What Written leaves of a request.
<1>3. ASSUME NEW m \in Nat, s.sent <= m, m <= log
      PROVE  /\ Written(h, m) \in RequestType /\ KnownTo(Written(h, m), log)
             /\ Written(h, m).sent = m /\ Written(h, m).gone = s.gone
             /\ Written(h, m).owed = s.owed
  <2>1. Written(h, m) \in RequestType /\ KnownTo(Written(h, m), log)
        /\ Written(h, m) = [s EXCEPT !.sent = m, !.wire = Written(h, m).wire]
    BY <1>3, WrittenKeeps
  <2> DEFINE v == Written(h, m).wire
  <2> HIDE DEF v
  <2>2. Written(h, m) = [s EXCEPT !.sent = m, !.wire = v]
    BY <2>1 DEF v
  <2> QED BY <1>0, <2>1, <2>2 DEF RequestType
<1> HIDE DEF s
<1>4. CASE Subscribe(h)
  <2> DEFINE t == [s EXCEPT !.open = TRUE, !.pc = IF s.sent = 0 THEN "resume" ELSE "replay"]
  <2>1. handler' = [handler EXCEPT ![h] = t] /\ UNCHANGED <<log, fanned, conn, last, budget>>
    BY <1>4 DEF Subscribe, IInv, TypeOK, s
  <2>2. t \in RequestType /\ KnownTo(t, log) /\ t.sent = s.sent /\ t.wire = s.wire
        /\ t.pc # "none" /\ t.gone = s.gone
    BY <1>0 DEF RequestType, KnownTo
  <2> HIDE DEF t
  <2> QED BY <1>0, <1>1, <2>1, <2>2
<1>5. CASE SessionResumed(h)
  <2>1. handler' = At(h, "replay") /\ UNCHANGED <<fanned, conn, last>>
    BY <1>5 DEF SessionResumed
  <2>2. log' \in Nat /\ log <= log'
    BY <1>0, <1>5 DEF SessionResumed
  <2>3. budget' \in [delta : Nat, fault : Nat, drop : Nat]
    BY <1>0, <1>5, SpendTyped DEF SessionResumed, IInv
  <2> QED BY <2>1, <2>2, <2>3, MovesOn
<1>6. CASE Replay(h)
  <2>1. CASE UNCHANGED budget /\ handler' = [handler EXCEPT ![h] = [Written(h, log) EXCEPT !.pc = "live"]]
    <3>1. PICK m \in Nat : m = log
      BY <1>0
    <3> DEFINE w == Written(h, m)
               t == [w EXCEPT !.pc = "live"]
    <3>2. s.sent <= m /\ m <= log
      BY <1>0, <3>1 DEF KnownTo
    <3>3. w \in RequestType /\ KnownTo(w, log) /\ w.sent = m /\ w.gone = s.gone
      BY <3>2, <1>3
    <3>4. handler' = [handler EXCEPT ![h] = t]
      BY <2>1, <3>1
    <3> HIDE DEF w
    <3>5. t \in RequestType /\ KnownTo(t, log) /\ t.sent = m /\ t.wire = w.wire
          /\ t.pc # "none" /\ t.gone = s.gone
      BY <3>3 DEF RequestType, KnownTo
    <3> HIDE DEF t
    <3>6. t.wire = Written(h, m).wire
      BY <3>5 DEF w
    <3>7. UNCHANGED <<log, fanned, conn, last>>
          /\ budget' \in [delta : Nat, fault : Nat, drop : Nat]
      BY <1>0, <1>6, <2>1 DEF Replay
    <3> QED BY <1>2, <3>2, <3>4, <3>5, <3>6, <3>7
  <2>2. CASE StoreFails(h) /\ handler' = At(h, "leaving")
    <3>1. budget' \in [delta : Nat, fault : Nat, drop : Nat]
      BY <2>2, StoreTyped
    <3>2. UNCHANGED <<log, fanned, conn, last>>
      BY <1>6 DEF Replay
    <3> QED BY <1>0, <2>2, <3>1, <3>2, MovesOn
  <2> QED BY <1>6, <2>1, <2>2 DEF Replay
<1>7. CASE Take(h)
  <2> DEFINE b == Tail(s.buf)
             e == Head(s.buf)
             t == [s EXCEPT !.pc = "deliver", !.hand = e, !.buf = b]
  <2>1. s.buf \in Seq(Int) /\ s.buf # <<>> /\ UNCHANGED <<log, fanned, conn, last, budget>>
    BY <1>0, <1>7 DEF Take, s
  <2>2. handler' = [handler EXCEPT ![h] = t]
    BY <1>7 DEF Take, IInv, TypeOK, s
  <2>3. e \in Int /\ e <= log /\ b \in Seq(Int)
    <3>1. b \in Seq(Int) /\ e = s.buf[1] /\ e \in Int /\ 1 \in 1..Len(s.buf)
      BY <2>1
    <3> QED BY <1>0, <3>1 DEF KnownTo
  <2>4. \A i \in 1..Len(b) : b[i] <= log
    <3>1. \A i \in 1..Len(b) : i + 1 \in 1..Len(s.buf) /\ b[i] = s.buf[i + 1]
      BY <2>1
    <3> QED BY <1>0, <3>1 DEF KnownTo
  <2> HIDE DEF b, e
  <2>5. t \in RequestType /\ t.buf = b /\ t.hand = e /\ t.sent = s.sent /\ t.wire = s.wire
        /\ t.pc # "none" /\ t.gone = s.gone
    BY <1>0, <2>3 DEF RequestType
  <2> HIDE DEF t
  <2>6. KnownTo(t, log)
    BY <1>0, <2>3, <2>4, <2>5 DEF KnownTo
  <2> QED BY <1>0, <1>1, <2>1, <2>2, <2>5, <2>6
<1>8. CASE deliverEvent(h)
  <2> DEFINE m == SentAfter(s)
             w == Written(h, m)
             t == [w EXCEPT !.pc = "live", !.hand = 0, !.owed = @ /\ s.hand # Failure]
  <2>1. m \in Nat /\ s.sent <= m /\ m <= log
    BY <1>0, SentForward
  <2> HIDE DEF m
  <2>2. w \in RequestType /\ KnownTo(w, log) /\ w.sent = m /\ w.gone = s.gone
    BY <1>3, <2>1
  <2> HIDE DEF w
  <2>3. t \in RequestType /\ KnownTo(t, log) /\ t.sent = m /\ t.wire = w.wire
        /\ t.pc # "none" /\ t.gone = s.gone
    <3> DEFINE o == w.owed /\ s.hand # Failure
    <3>1. o \in BOOLEAN /\ t = [w EXCEPT !.pc = "live", !.hand = 0, !.owed = o]
      BY <2>2 DEF RequestType
    <3> HIDE DEF o, t
    <3>2. t \in RequestType
      <4>1. 0 \in Int
        OBVIOUS
      <4> QED BY <2>2, <3>1, <4>1 DEF RequestType
    <3>3. t.sent = w.sent /\ t.wire = w.wire /\ t.gone = w.gone /\ t.buf = w.buf
          /\ t.hand = 0 /\ t.pc = "live"
      BY <2>2, <3>1 DEF RequestType
    <3> QED BY <1>0, <2>2, <3>2, <3>3 DEF KnownTo
  <2>4. handler' = [handler EXCEPT ![h] = t] /\ UNCHANGED <<log, fanned, conn, last, budget>>
    BY <1>8 DEF deliverEvent, w, m, s
  <2> HIDE DEF t
  <2>5. t.wire = Written(h, m).wire
    BY <2>3 DEF w
  <2> QED BY <1>0, <1>2, <2>1, <2>3, <2>4, <2>5
<1>9. CASE Poisoned(h)
  <2>1. PICK m \in {log, s.sent} :
          /\ IF m = log THEN UNCHANGED budget ELSE StoreFails(h)
          /\ handler' = [handler EXCEPT ![h] =
               [Written(h, m) EXCEPT !.pc = "leaving", !.owed = @ /\ ~s.failure]]
    BY <1>9 DEF Poisoned, s
  <2> DEFINE w == Written(h, m)
             t == [w EXCEPT !.pc = "leaving", !.owed = @ /\ ~s.failure]
  <2>2. m \in Nat /\ s.sent <= m /\ m <= log
    BY <1>0, <2>1 DEF KnownTo, RequestType
  <2>3. w \in RequestType /\ KnownTo(w, log) /\ w.sent = m /\ w.gone = s.gone
    BY <1>3, <2>2
  <2>4. handler' = [handler EXCEPT ![h] = t] /\ UNCHANGED <<log, fanned, conn, last>>
    BY <1>9, <2>1 DEF Poisoned
  <2>5. budget' \in [delta : Nat, fault : Nat, drop : Nat]
    BY <2>1, StoreTyped
  <2> HIDE DEF w
  <2>6. t \in RequestType /\ KnownTo(t, log) /\ t.sent = m /\ t.wire = w.wire
        /\ t.pc # "none" /\ t.gone = s.gone
    BY <1>0, <2>3 DEF RequestType, KnownTo
  <2> HIDE DEF t
  <2>7. t.wire = Written(h, m).wire
    BY <2>6 DEF w
  <2> QED BY <1>2, <2>2, <2>4, <2>5, <2>6, <2>7
<1>10. CASE ClientGone(h)
  <2>1. handler' = At(h, "leaving") /\ UNCHANGED <<log, fanned, conn, last, budget>>
    BY <1>10 DEF ClientGone
  <2> QED BY <1>0, <2>1, MovesOn
<1>11. CASE Cancel(h)
  <2>1. UNCHANGED <<log, fanned, conn, last, budget>>
    BY <1>11 DEF Cancel
  <2>2. CASE s.gone
    <3>1. handler' = [handler EXCEPT ![h] = NoRequest]
      BY <1>11, <2>2 DEF Cancel, s
    <3>2. KnownTo(NoRequest, log)
      BY <1>0 DEF NoRequest, KnownTo
    <3>3. \A c \in Clients : conn[c] # h
      BY <1>0, <2>2
    <3>4. log' \in Nat /\ log <= log' /\ KnownTo(NoRequest, log')
      BY <1>0, <2>1, <3>2
    <3> QED BY <1>0, <2>1, <3>1, <3>3, <3>4, NoRequestTyped, OneRequest
  <2>3. CASE ~s.gone
    <3> DEFINE t == [NoRequest EXCEPT !.pc = "ended", !.sent = s.sent, !.wire = s.wire,
                                      !.owed = s.owed]
    <3>1. handler' = [handler EXCEPT ![h] = t]
      BY <1>11, <2>3 DEF Cancel, s
    <3>2. t \in RequestType /\ KnownTo(t, log) /\ t.sent = s.sent /\ t.wire = s.wire
          /\ t.pc # "none" /\ t.gone = s.gone
      <4>1. s.sent \in Nat /\ s.wire \in Seq(Nat) /\ s.owed \in BOOLEAN /\ s.sent <= log
        BY <1>0 DEF RequestType, KnownTo
      <4>2. t \in RequestType
        BY <4>1, NoRequestTyped DEF RequestType
      <4>3. t.sent = s.sent /\ t.wire = s.wire /\ t.pc = "ended" /\ t.gone = FALSE
            /\ t.hand = 0 /\ t.buf = <<>>
        BY DEF NoRequest
      <4> HIDE DEF t
      <4> QED BY <1>0, <2>3, <4>1, <4>2, <4>3 DEF KnownTo, RequestType
    <3> HIDE DEF t
    <3> QED BY <1>0, <1>1, <2>1, <3>1, <3>2
  <2> QED BY <2>2, <2>3
<1> QED BY <1>4, <1>5, <1>6, <1>7, <1>8, <1>9, <1>10, <1>11 DEF handleEvents

-----------------------------------------------------------------------------
(* The steps of a browser.                                                   *)

\* One client connects or leaves, and its request changes to t: no other client
\* sees the change, because nobody shares a request.
Browses(c, g, n, h, t) ==
  /\ conn' = [conn EXCEPT ![c] = g] /\ last' = [last EXCEPT ![c] = n]
  /\ handler' = [handler EXCEPT ![h] = t] /\ UNCHANGED <<log, fanned>>
  /\ budget' \in [delta : Nat, fault : Nat, drop : Nat]
  /\ KnownTo(t, log) /\ n <= log
  /\ \A d \in Clients : conn[d] = h => d = c
  /\ g # NoHandler => g = h /\ Continues(t, n) /\ t.pc # "none" /\ ~t.gone
LEMMA OneBrowser ==
  ASSUME IInv, NEW c \in Clients, NEW g \in Handlers \cup {NoHandler}, NEW n \in Nat,
         NEW h \in Handlers, NEW t \in RequestType,
         Browses(c, g, n, h, t)
  PROVE  IInv'
<1>0. /\ conn' = [conn EXCEPT ![c] = g] /\ last' = [last EXCEPT ![c] = n]
      /\ handler' = [handler EXCEPT ![h] = t] /\ UNCHANGED <<log, fanned>>
      /\ budget' \in [delta : Nat, fault : Nat, drop : Nat]
      /\ KnownTo(t, log) /\ n <= log
      /\ \A d \in Clients : conn[d] = h => d = c
      /\ g # NoHandler => g = h /\ Continues(t, n) /\ t.pc # "none" /\ ~t.gone
  BY DEF Browses
<1>1. TypeOK'
  BY <1>0 DEF IInv, TypeOK
<1>2. /\ \A k \in Handlers : handler'[k] = IF k = h THEN t ELSE handler[k]
      /\ \A d \in Clients : conn'[d] = IF d = c THEN g ELSE conn[d]
      /\ \A d \in Clients : last'[d] = IF d = c THEN n ELSE last[d]
  BY <1>0 DEF IInv, TypeOK
<1>3. \A d \in Clients : conn'[d] # NoHandler /\ d # c =>
        conn'[d] = conn[d] /\ conn[d] \in Handlers /\ conn[d] # h
  BY <1>0, <1>2 DEF IInv, TypeOK
<1>4. \A d, e \in Clients : conn'[d] = conn'[e] /\ conn'[d] # NoHandler => d = e
  <2> SUFFICES ASSUME NEW d \in Clients, NEW e \in Clients,
                      conn'[d] = conn'[e], conn'[d] # NoHandler
               PROVE  d = e
    OBVIOUS
  <2>1. CASE d # c /\ e # c
    BY <1>0, <1>2, <2>1 DEF IInv, OneClient
  <2>2. CASE d = c /\ e # c
    BY <1>0, <1>2, <1>3, <2>2
  <2>3. CASE d # c /\ e = c
    BY <1>0, <1>2, <1>3, <2>3
  <2> QED BY <2>1, <2>2, <2>3
<1>5. \A d \in Clients : conn'[d] # NoHandler =>
        handler'[conn'[d]].pc # "none" /\ ~handler'[conn'[d]].gone
  <2> SUFFICES ASSUME NEW d \in Clients, conn'[d] # NoHandler
               PROVE  handler'[conn'[d]].pc # "none" /\ ~handler'[conn'[d]].gone
    OBVIOUS
  <2>1. CASE d = c
    BY <1>0, <1>2, <2>1
  <2>2. CASE d # c
    BY <1>0, <1>2, <1>3, <2>2 DEF IInv, OneClient
  <2> QED BY <2>1, <2>2
<1>6. StreamContinues'
  <2> SUFFICES ASSUME NEW d \in Clients, conn'[d] # NoHandler
               PROVE  Continues(handler'[conn'[d]], last'[d])
    BY DEF StreamContinues, Continues
  <2>1. CASE d = c
    BY <1>0, <1>2, <2>1
  <2>2. CASE d # c
    BY <1>0, <1>2, <1>3, <2>2 DEF IInv, StreamContinues, Continues
  <2> QED BY <2>1, <2>2
<1>7. NothingNewer'
  BY <1>0, <1>2 DEF IInv, NothingNewer
<1> QED BY <1>1, <1>4, <1>5, <1>6, <1>7 DEF IInv, OneClient

\* A client is connected to a request of its own, which continues its stream.
LEMMA OwnRequest ==
  ASSUME IInv, NEW c \in Clients, conn[c] # NoHandler
  PROVE  /\ conn[c] \in Handlers /\ handler[conn[c]] \in RequestType
         /\ \A d \in Clients : conn[d] = conn[c] => d = c
         /\ Continues(handler[conn[c]], last[c]) /\ handler[conn[c]].sent <= log
         /\ KnownTo(handler[conn[c]], log)
         /\ handler[conn[c]].pc # "none" /\ ~handler[conn[c]].gone
         /\ handler[conn[c]].wire \in Seq(Nat) /\ last[c] \in Nat /\ last[c] <= log
         /\ log \in Nat
<1>1. conn[c] \in Handlers /\ last[c] \in Nat /\ last[c] <= log /\ log \in Nat
  BY DEF IInv, TypeOK, NothingNewer
<1>2. handler[conn[c]] \in RequestType /\ KnownTo(handler[conn[c]], log)
  BY <1>1 DEF IInv, TypeOK, NothingNewer
<1>3. handler[conn[c]].wire \in Seq(Nat)
  BY <1>2 DEF RequestType
<1>4. /\ \A d \in Clients : conn[d] = conn[c] => d = c
      /\ handler[conn[c]].pc # "none" /\ ~handler[conn[c]].gone
  BY DEF IInv, OneClient
<1>5. Continues(handler[conn[c]], last[c])
  BY DEF IInv, StreamContinues, Continues
<1> QED BY <1>1, <1>2, <1>3, <1>4, <1>5 DEF KnownTo

\* A received event is the one after the last, and in the log.
LEMMA ReceivesNext ==
  ASSUME IInv, NEW c \in Clients, Receive(c)
  PROVE  /\ last' = [last EXCEPT ![c] = last[c] + 1]
         /\ last[c] < log /\ UNCHANGED <<log, fanned, conn, budget>>
<1> DEFINE h == conn[c]
           w == handler[h].wire
<1>1. h # NoHandler /\ w # <<>> /\ last' = [last EXCEPT ![c] = Head(w)]
      /\ UNCHANGED <<log, fanned, conn, budget>>
  BY DEF Receive
<1>2. w \in Seq(Nat) /\ handler[h].sent <= log /\ last[c] \in Nat /\ log \in Nat
      /\ handler[h].sent = last[c] + Len(w) /\ \A i \in 1..Len(w) : w[i] = last[c] + i
  BY <1>1, OwnRequest DEF Continues
<1> HIDE DEF w
<1>3. Len(w) >= 1 /\ Head(w) = w[1] /\ 1 \in 1..Len(w)
  BY <1>1, <1>2
<1>4. Head(w) = last[c] + 1 /\ last[c] < log
  BY <1>2, <1>3
<1> QED BY <1>1, <1>4

\* Every step of a browser.
LEMMA BrowserInv ==
  ASSUME IInv, NEW c \in Clients, Browser(c) \/ Drop(c) \/ Reload(c)
  PROVE  IInv'
<1>0. /\ log \in Nat /\ last[c] \in Nat /\ last[c] <= log
      /\ budget \in [delta : Nat, fault : Nat, drop : Nat]
      /\ conn[c] \in Handlers \cup {NoHandler}
      /\ last = [last EXCEPT ![c] = last[c]] /\ conn = [conn EXCEPT ![c] = conn[c]]
      /\ handler \in [Handlers -> RequestType]
  BY DEF IInv, TypeOK, NothingNewer
<1>1. ASSUME NEW h \in Handlers, Connect(c, h) PROVE IInv'
  <2> DEFINE t == [NoRequest EXCEPT !.pc = "attach", !.sent = ResumeFrom(c)]
  <2>1. conn[c] = NoHandler /\ handler[h].pc = "none" /\ conn' = [conn EXCEPT ![c] = h]
        /\ handler' = [handler EXCEPT ![h] = t] /\ UNCHANGED <<log, fanned, last, budget>>
    BY <1>1 DEF Connect
  <2>2. t \in RequestType /\ KnownTo(t, log) /\ t.pc # "none" /\ ~t.gone /\ Continues(t, last[c])
    <3>1. t.pc = "attach" /\ t.gone = FALSE /\ t.sent = last[c] /\ t.hand = 0
          /\ t.buf = <<>> /\ t.wire = <<>>
      BY DEF NoRequest, ResumeFrom
    <3>2. t \in RequestType
      BY <1>0, NoRequestTyped DEF RequestType, ResumeFrom
    <3> HIDE DEF t
    <3> QED BY <1>0, <3>1, <3>2 DEF KnownTo, Continues
  <2>3. \A d \in Clients : conn[d] = h => d = c
    BY <2>1, StreamAssumption DEF IInv, OneClient
  <2> HIDE DEF t
  <2>4. Browses(c, h, last[c], h, t)
    BY <1>0, <2>1, <2>2, <2>3 DEF Browses
  <2> QED BY <1>0, <2>2, <2>4, OneBrowser
<1>2. CASE Receive(c)
  <2> DEFINE h == conn[c]
             w == handler[h].wire
             v == Tail(w)
             t == [handler[h] EXCEPT !.wire = v]
  <2>1. h # NoHandler /\ w # <<>> /\ handler' = [handler EXCEPT ![h] = t]
    BY <1>2, <1>0 DEF Receive
  <2>2. h \in Handlers /\ handler[h] \in RequestType /\ w \in Seq(Nat)
        /\ Continues(handler[h], last[c]) /\ handler[h].pc # "none" /\ ~handler[h].gone
        /\ KnownTo(handler[h], log) /\ \A d \in Clients : conn[d] = h => d = c
    BY <2>1, OwnRequest
  <2>3. v \in Seq(Nat) /\ Len(w) = Len(v) + 1 /\ \A i \in 1..Len(v) : v[i] = w[i + 1]
    BY <2>1, <2>2
  <2>4. \A i \in 1..Len(v) : v[i] = last[c] + 1 + i
    <3>1. \A i \in 1..Len(w) : w[i] = last[c] + i
      BY <2>2 DEF Continues
    <3> HIDE DEF w, v
    <3>2. \A i \in 1..Len(v) : i + 1 \in 1..Len(w)
      BY <2>2, <2>3
    <3>3. \A i \in 1..Len(v) : v[i] = last[c] + (i + 1)
      BY <2>3, <3>1, <3>2
    <3>4. last[c] \in Nat
      BY <1>0
    <3>5. \A i \in 1..Len(v) : last[c] + (i + 1) = last[c] + 1 + i
      BY <3>4
    <3> QED BY <3>3, <3>5
  <2>5. handler[h].sent = last[c] + 1 + Len(v)
    BY <1>0, <2>2, <2>3 DEF Continues
  <2> HIDE DEF v
  <2>6. t \in RequestType /\ t.wire = v /\ t.sent = handler[h].sent /\ t.pc # "none" /\ ~t.gone
        /\ KnownTo(t, log)
    BY <2>2, <2>3 DEF RequestType, KnownTo
  <2>7. Continues(t, last[c] + 1)
    BY <2>4, <2>5, <2>6 DEF Continues
  <2> HIDE DEF t
  <2>8. last' = [last EXCEPT ![c] = last[c] + 1] /\ last[c] + 1 \in Nat /\ last[c] + 1 <= log
        /\ UNCHANGED <<log, fanned, conn, budget>>
    BY <1>0, <1>2, ReceivesNext
  <2>9. conn' = [conn EXCEPT ![c] = h]
    BY <1>0, <2>8
  <2> HIDE DEF h
  <2>10. PICK n \in Nat : n = last[c] + 1
    BY <2>8
  <2>11. PICK k \in Handlers : k = h
    BY <2>2
  <2>12. last' = [last EXCEPT ![c] = n] /\ n <= log /\ Continues(t, n)
    BY <2>7, <2>8, <2>10
  <2>13. conn' = [conn EXCEPT ![c] = k] /\ handler' = [handler EXCEPT ![k] = t]
         /\ \A d \in Clients : conn[d] = k => d = c
    BY <2>1, <2>2, <2>9, <2>11
  <2>14. UNCHANGED <<log, fanned>>
         /\ budget' \in [delta : Nat, fault : Nat, drop : Nat]
    BY <1>0, <2>8
  <2>15. Browses(c, k, n, k, t)
    BY <2>6, <2>12, <2>13, <2>14 DEF Browses
  <2> QED BY <2>6, <2>15, OneBrowser
<1>3. CASE EndOfStream(c)
  <2>1. conn[c] # NoHandler /\ conn' = [conn EXCEPT ![c] = NoHandler]
        /\ handler' = [handler EXCEPT ![conn[c]] = NoRequest]
        /\ UNCHANGED <<log, fanned, last, budget>>
    BY <1>3 DEF EndOfStream
  <2>2. conn[c] \in Handlers /\ \A d \in Clients : conn[d] = conn[c] => d = c
    BY <2>1, OwnRequest
  <2>3. KnownTo(NoRequest, log)
    BY <1>0 DEF NoRequest, KnownTo
  <2>4. Browses(c, NoHandler, last[c], conn[c], NoRequest)
    BY <1>0, <2>1, <2>2, <2>3 DEF Browses
  <2> QED BY <1>0, <2>2, <2>4, NoRequestTyped, OneBrowser
\* A connection that breaks, with or without a new page.
<1>4. ASSUME NEW n \in Nat, n <= log, last' = [last EXCEPT ![c] = n],
             conn[c] # NoHandler, conn' = [conn EXCEPT ![c] = NoHandler],
             handler' = Left(conn[c]), UNCHANGED <<log, fanned>>,
             budget' \in [delta : Nat, fault : Nat, drop : Nat]
      PROVE  IInv'
  <2> DEFINE h == conn[c]
             t == IF handler[h].pc = "ended" THEN NoRequest
                  ELSE [handler[h] EXCEPT !.gone = TRUE, !.wire = <<>>]
  <2>1. h \in Handlers /\ handler[h] \in RequestType /\ KnownTo(handler[h], log)
        /\ \A d \in Clients : conn[d] = h => d = c
    BY <1>4, OwnRequest
  <2>2. handler' = [handler EXCEPT ![h] = t]
    BY <1>4 DEF Left
  <2>3. t \in RequestType /\ KnownTo(t, log)
    <3>1. KnownTo(NoRequest, log)
      BY <1>0 DEF NoRequest, KnownTo
    <3>2. ASSUME handler[h].pc # "ended" PROVE t \in RequestType /\ KnownTo(t, log)
      <4> DEFINE u == [handler[h] EXCEPT !.gone = TRUE, !.wire = <<>>]
      <4>0. <<>> \in Seq(Nat)
        OBVIOUS
      <4> HIDE DEF h
      <4>1. u \in RequestType /\ u.sent = handler[h].sent /\ u.hand = handler[h].hand
            /\ u.buf = handler[h].buf
        BY <2>1, <4>0 DEF RequestType
      <4> HIDE DEF u
      <4>2. KnownTo(u, log)
        BY <2>1, <4>1 DEF KnownTo
      <4> QED BY <3>2, <4>1, <4>2 DEF u
    <3> QED BY <3>1, <3>2, NoRequestTyped
  <2> HIDE DEF t
  <2>4. Browses(c, NoHandler, n, h, t)
    BY <1>4, <2>1, <2>2, <2>3 DEF Browses
  <2> QED BY <2>1, <2>3, <2>4, OneBrowser
<1>5. CASE Drop(c)
  <2>1. budget' \in [delta : Nat, fault : Nat, drop : Nat]
    BY <1>5, SpendTyped DEF Drop, IInv
  <2>2. PICK n \in Nat : n = last[c]
    BY <1>0
  <2>3. last' = [last EXCEPT ![c] = n] /\ n <= log
    BY <1>0, <1>5, <2>2 DEF Drop
  <2>4. conn[c] # NoHandler /\ conn' = [conn EXCEPT ![c] = NoHandler]
    BY <1>5 DEF Drop
  <2>5. handler' = Left(conn[c]) /\ log' = log /\ fanned' = fanned
    BY <1>5 DEF Drop
  <2> QED BY <1>4, <2>1, <2>3, <2>4, <2>5, Zenon
<1>6. CASE Reload(c)
  <2>1. budget' \in [delta : Nat, fault : Nat, drop : Nat]
    BY <1>6, SpendTyped DEF Reload, IInv
  <2>2. CASE conn[c] # NoHandler
    <3>1. PICK n \in Nat : n = 0
      OBVIOUS
    <3>2. last' = [last EXCEPT ![c] = n] /\ n <= log
      BY <1>0, <1>6, <3>1 DEF Reload
    <3>3. conn' = [conn EXCEPT ![c] = NoHandler]
      BY <1>6 DEF Reload
    <3>4. handler' = Left(conn[c]) /\ log' = log /\ fanned' = fanned
      BY <1>6, <2>2 DEF Reload
    <3> QED BY <1>4, <2>1, <2>2, <3>2, <3>3, <3>4, Zenon
  <2>3. CASE conn[c] = NoHandler
    <3>1. UNCHANGED <<log, fanned, handler, conn>> /\ last' = [last EXCEPT ![c] = 0]
      BY <1>0, <1>6, <2>3 DEF Reload
    <3>2. TypeOK' /\ NothingNewer'
      BY <1>0, <2>1, <3>1 DEF IInv, TypeOK, NothingNewer
    <3>3. OneClient' /\ StreamContinues'
      BY <2>3, <3>1 DEF IInv, OneClient, StreamContinues, TypeOK
    <3> QED BY <3>2, <3>3 DEF IInv
  <2> QED BY <2>2, <2>3
<1> QED BY <1>1, <1>2, <1>3, <1>5, <1>6 DEF Browser

-----------------------------------------------------------------------------
(* The theorems.                                                             *)

\* The invariant holds at first.
LEMMA InitInv == ASSUME Init PROVE IInv
<1>1. TypeOK
  BY NoRequestTyped, StreamAssumption DEF Init, TypeOK
<1>2. OneClient /\ StreamContinues
  BY DEF Init, OneClient, StreamContinues
<1>3. NothingNewer
  BY DEF Init, NothingNewer, KnownTo, NoRequest
<1> QED BY <1>1, <1>2, <1>3 DEF IInv

\* No step breaks the invariant.
LEMMA Inductive == ASSUME IInv, [Next]_vars PROVE IInv'
<1>1. CASE Next
  BY <1>1, BusInv, HandlerInv, BrowserInv DEF Next
<1>2. CASE UNCHANGED vars
  BY <1>2 DEF vars, IInv, TypeOK, OneClient, NothingNewer, KnownTo, StreamContinues
<1> QED BY <1>1, <1>2

\* In every behaviour the invariant holds throughout.
LEMMA AlwaysIInv == Spec => []IInv
BY InitInv, Inductive, PTL DEF Spec

\* Every variable of the stream stays in its type.
THEOREM TypeCorrect == Spec => []TypeOK
<1>1. IInv => TypeOK
  BY DEF IInv
<1> QED BY <1>1, AlwaysIInv, PTL

\* Replay, live delivery and resume fit together: what is on a connection
\* continues what its client has received, without a gap or a repetition.
THEOREM Continuous == Spec => []StreamContinues
<1>1. IInv => StreamContinues
  BY DEF IInv
<1> QED BY <1>1, AlwaysIInv, PTL

\* A step of the stream is a step of the feed, or none.
LEMMA FeedStep == ASSUME IInv, [Next]_vars PROVE [Feed!FeedNext]_(Feed!feedVars)
<1>1. ASSUME UNCHANGED <<log, last>> PROVE [Feed!FeedNext]_(Feed!feedVars)
  BY <1>1 DEF Feed!feedVars
<1>2. ASSUME log' \in Nat, log' > log, UNCHANGED last
      PROVE  [Feed!FeedNext]_(Feed!feedVars)
  BY <1>2 DEF Feed!FeedNext, Feed!Append
<1>3. ASSUME NEW n \in 1..2, Publish(n) PROVE [Feed!FeedNext]_(Feed!feedVars)
  BY <1>2, <1>3 DEF Publish, IInv, TypeOK
<1>4. CASE fanoutDurable \/ PublishEphemeral \/ PublishLiveFailure \/ UNCHANGED vars
  BY <1>1, <1>4 DEF fanoutDurable, PublishEphemeral, PublishLiveFailure, vars
<1>5. ASSUME NEW h \in Handlers, SessionResumed(h) PROVE [Feed!FeedNext]_(Feed!feedVars)
  BY <1>1, <1>2, <1>5 DEF SessionResumed, IInv, TypeOK
<1>6. ASSUME NEW h \in Handlers,
             Subscribe(h) \/ Replay(h) \/ Take(h) \/ deliverEvent(h) \/ Poisoned(h)
               \/ ClientGone(h) \/ Cancel(h)
      PROVE  [Feed!FeedNext]_(Feed!feedVars)
  BY <1>1, <1>6 DEF Subscribe, Replay, Take, deliverEvent, Poisoned, ClientGone, Cancel
<1>7. ASSUME NEW c \in Clients, Receive(c) PROVE [Feed!FeedNext]_(Feed!feedVars)
  <2>1. last' = [last EXCEPT ![c] = @ + 1] /\ last[c] < log /\ UNCHANGED log
    BY <1>7, ReceivesNext
  <2> QED BY <2>1 DEF Feed!FeedNext, Feed!ReadNext
<1>8. ASSUME NEW c \in Clients, EndOfStream(c) \/ Drop(c) \/ \E h \in Handlers : Connect(c, h)
      PROVE  [Feed!FeedNext]_(Feed!feedVars)
  BY <1>1, <1>8 DEF EndOfStream, Drop, Connect
<1>9. ASSUME NEW c \in Clients, Reload(c) PROVE [Feed!FeedNext]_(Feed!feedVars)
  BY <1>9 DEF Reload, Feed!FeedNext, Feed!StartOver
<1> QED BY <1>3, <1>4, <1>5, <1>6, <1>7, <1>8, <1>9 DEF Next, handleEvents, Browser

\* The clients read the log of EventFeed one event after the other, however the
\* events reach them and however often they reconnect.
THEOREM Implements == Spec => ImplementsFeed
<1>1. Init => Feed!FeedInit
  BY DEF Init, Feed!FeedInit
<1>2. IInv /\ [Next]_vars => [Feed!FeedNext]_(Feed!feedVars)
  BY FeedStep
<1> QED BY <1>1, <1>2, AlwaysIInv, PTL DEF Spec, ImplementsFeed, Feed!FeedSpec

-----------------------------------------------------------------------------
(* Nothing slips by an open subscriber.                                      *)

\* What a request still has to write is in its hand or in its channel, and what is
\* there comes right after what it has written or after something ahead of it.
Covered(s, f) == s.open => \A n \in s.sent + 1 .. f :
  n = s.hand \/ \E i \in 1..Len(s.buf) : s.buf[i] = n
Follows(s, i) == \/ s.buf[i] <= s.sent + 1 \/ s.buf[i] = s.hand + 1
                 \/ \E j \in 1..Len(s.buf) : j < i /\ s.buf[i] = s.buf[j] + 1
Queued(s, f) ==
  /\ s.pc # "deliver" => s.hand = 0
  /\ s.pc \in {"live", "deliver"} => /\ s.hand <= s.sent + 1
                                     /\ Covered(s, f)
                                     /\ \A i \in 1..Len(s.buf) : Follows(s, i)
AllQueued == \A h \in Handlers : Queued(handler[h], fanned)

\* An event at the end of the channel: the next one, or one that is not in the log.
LEMMA QueuedAppend ==
  ASSUME NEW s \in RequestType, NEW f \in Nat, NEW g \in Nat, NEW e \in Int, Queued(s, f),
         (e = f + 1 /\ g = f + 1 /\ s.open) \/ (e <= 0 /\ g = f)
  PROVE  Queued([s EXCEPT !.buf = Append(@, e)], g)
<1> DEFINE b == Append(s.buf, e)
           t == [s EXCEPT !.buf = b]
<1>1. s.sent \in Nat /\ s.hand \in Int /\ s.buf \in Seq(Int) /\ Len(s.buf) \in Nat
  BY DEF RequestType
<1>2. b \in Seq(Int) /\ Len(b) = Len(s.buf) + 1 /\ b[Len(b)] = e
      /\ \A i \in 1..Len(s.buf) : b[i] = s.buf[i]
  BY <1>1
<1> HIDE DEF b
<1>3. /\ t.buf = b /\ t.pc = s.pc /\ t.open = s.open /\ t.sent = s.sent /\ t.hand = s.hand
      /\ t = [s EXCEPT !.buf = Append(@, e)]
  BY DEF RequestType, b
<1> HIDE DEF t
<1>4. ASSUME s.pc \in {"live", "deliver"} PROVE Covered(t, g)
  <2> SUFFICES ASSUME s.open, NEW n \in s.sent + 1 .. g
               PROVE  n = s.hand \/ \E i \in 1..Len(b) : b[i] = n
    BY <1>3 DEF Covered
  <2>1. CASE n = f + 1
    <3>1. e = n /\ Len(b) \in 1..Len(b)
      BY <1>1, <1>2, <2>1
    <3> QED BY <1>2, <3>1
  <2>2. CASE n # f + 1
    <3>1. n \in s.sent + 1 .. f
      BY <1>1, <2>2
    <3>2. n = s.hand \/ \E i \in 1..Len(s.buf) : s.buf[i] = n
      BY <1>4, <3>1 DEF Queued, Covered
    <3>3. \A i \in 1..Len(s.buf) : i \in 1..Len(b)
      BY <1>1, <1>2
    <3> QED BY <1>2, <3>2, <3>3
  <2> QED BY <2>1, <2>2
<1>5. ASSUME s.pc \in {"live", "deliver"}, NEW i \in 1..Len(b) PROVE Follows(t, i)
  <2>1. CASE i \in 1..Len(s.buf)
    <3>1. Follows(s, i) /\ b[i] = s.buf[i]
      BY <1>2, <1>5, <2>1 DEF Queued
    <3>2. \A j \in 1..Len(s.buf) : j \in 1..Len(b) /\ b[j] = s.buf[j]
      BY <1>1, <1>2
    <3> QED BY <1>3, <3>1, <3>2 DEF Follows
  <2>2. CASE i \notin 1..Len(s.buf)
    <3>1. i = Len(b) /\ b[i] = e
      BY <1>1, <1>2, <2>2
    <3>2. CASE e <= s.sent + 1
      BY <1>3, <3>1, <3>2 DEF Follows
    <3>3. CASE ~(e <= s.sent + 1)
      <4>1. e = f + 1 /\ s.open /\ f \in s.sent + 1 .. f
        BY <1>1, <3>3
      <4>2. f = s.hand \/ \E j \in 1..Len(s.buf) : s.buf[j] = f
        BY <1>5, <4>1 DEF Queued, Covered
      <4>3. ASSUME NEW j \in 1..Len(s.buf) PROVE j \in 1..Len(b) /\ j < i /\ b[j] = s.buf[j]
        <5>1. b[j] = s.buf[j] /\ Len(b) = Len(s.buf) + 1 /\ i = Len(b) /\ Len(s.buf) \in Nat
          BY <1>1, <1>2, <3>1
        <5>2. j \in Int /\ 1 <= j /\ j <= Len(s.buf)
          BY <1>1
        <5> QED BY <5>1, <5>2
      <4>4. CASE f = s.hand
        <5>1. t.buf[i] = t.hand + 1
          BY <1>3, <3>1, <4>1, <4>4
        <5> QED BY <5>1 DEF Follows
      <4>5. CASE \E j \in 1..Len(s.buf) : s.buf[j] = f
        <5>1. PICK j \in 1..Len(s.buf) : s.buf[j] = f
          BY <4>5
        <5>2. j \in 1..Len(t.buf) /\ j < i /\ t.buf[i] = t.buf[j] + 1
          BY <1>3, <3>1, <4>1, <4>3, <5>1
        <5> QED BY <5>2 DEF Follows
      <4> QED BY <4>2, <4>4, <4>5
    <3> QED BY <3>2, <3>3
  <2> QED BY <2>1, <2>2
<1> QED BY <1>3, <1>4, <1>5 DEF Queued

\* A subscriber without room is closed, and one that is closed gets nothing.
LEMMA QueuedClosed ==
  ASSUME NEW s \in RequestType, NEW t \in RequestType, NEW f \in Nat, NEW g \in Nat,
         Queued(s, f), ~t.open, t.buf = s.buf, t.pc = s.pc, t.sent = s.sent, t.hand = s.hand
  PROVE  Queued(t, g)
BY DEF Queued, Covered, Follows

\* Whatever is offered, the channel stays in order.
LEMMA QueuedOffer ==
  ASSUME NEW s \in RequestType, NEW f \in Nat, NEW g \in Nat, NEW e \in Int, Queued(s, f), s.open,
         (e = f + 1 /\ g = f + 1) \/ (e <= 0 /\ g = f)
  PROVE  Queued(Offer(s, e), g)
<1>1. CASE Len(s.buf) < BufCap
  BY <1>1, QueuedAppend DEF Offer
<1>2. CASE ~(Len(s.buf) < BufCap)
  <2> DEFINE t == [s EXCEPT !.open = FALSE, !.failure = (e = Failure)]
  <2>1. t \in RequestType /\ ~t.open /\ t.buf = s.buf /\ t.pc = s.pc /\ t.sent = s.sent
        /\ t.hand = s.hand
    BY DEF RequestType
  <2>2. Offer(s, e) = t
    BY <1>2 DEF Offer
  <2> HIDE DEF t
  <2> QED BY <2>1, <2>2, QueuedClosed
<1> QED BY <1>1, <1>2

\* The first of the channel comes into the hand of a request that has none.
LEMMA QueuedTake ==
  ASSUME NEW s \in RequestType, NEW f \in Nat, Queued(s, f), s.pc = "live", s.buf # <<>>,
         NEW t \in RequestType, t.pc = "deliver", t.hand = Head(s.buf), t.buf = Tail(s.buf),
         t.open = s.open, t.sent = s.sent
  PROVE  Queued(t, f)
<1>1. s.sent \in Nat /\ s.hand = 0 /\ s.buf \in Seq(Int) /\ Len(s.buf) \in Nat \ {0}
      /\ \A i \in 1..Len(s.buf) : s.buf[i] \in Int
  BY DEF Queued, RequestType
<1>2. /\ t.hand = s.buf[1] /\ Len(t.buf) = Len(s.buf) - 1
      /\ \A i \in 1..Len(t.buf) : t.buf[i] = s.buf[i + 1]
  BY <1>1
<1>3. 1 \in 1..Len(s.buf) /\ \A i \in 1..Len(t.buf) : i + 1 \in 1..Len(s.buf)
  BY <1>1, <1>2
<1>4. ASSUME NEW i \in 2..Len(s.buf) PROVE i - 1 \in 1..Len(t.buf) /\ t.buf[i - 1] = s.buf[i]
  <2>1. i - 1 \in 1..Len(t.buf) /\ i - 1 + 1 = i
    BY <1>1, <1>2
  <2> QED BY <1>2, <2>1
<1>5. t.hand <= t.sent + 1
  <2>1. Follows(s, 1)
    BY <1>3 DEF Queued
  <2>2. ASSUME NEW j \in 1..Len(s.buf), j < 1 PROVE FALSE
    BY <1>1, <2>2
  <2>3. s.buf[1] <= s.sent + 1 \/ s.buf[1] = s.hand + 1
    BY <2>1, <2>2 DEF Follows
  <2> QED BY <1>1, <1>2, <2>3
<1>6. Covered(t, f)
  <2> SUFFICES ASSUME s.open, NEW n \in s.sent + 1 .. f
               PROVE  n = t.hand \/ \E i \in 1..Len(t.buf) : t.buf[i] = n
    BY DEF Covered
  <2>1. n = 0 \/ \E i \in 1..Len(s.buf) : s.buf[i] = n
    BY <1>1 DEF Queued, Covered
  <2>2. PICK i \in 1..Len(s.buf) : s.buf[i] = n
    BY <1>1, <2>1
  <2>3. i = 1 \/ i \in 2..Len(s.buf)
    BY <1>1
  <2> QED BY <1>2, <1>4, <2>2, <2>3
<1>7. ASSUME NEW i \in 1..Len(t.buf) PROVE Follows(t, i)
  <2>1. Follows(s, i + 1) /\ t.buf[i] = s.buf[i + 1]
    BY <1>2, <1>3 DEF Queued
  <2>2. CASE s.buf[i + 1] <= s.sent + 1 \/ s.buf[i + 1] = s.hand + 1
    BY <1>1, <2>1, <2>2 DEF Follows
  <2>3. ASSUME NEW j \in 1..Len(s.buf), j < i + 1, s.buf[i + 1] = s.buf[j] + 1
        PROVE  Follows(t, i)
    <3>1. CASE j = 1
      BY <1>2, <2>1, <2>3, <3>1 DEF Follows
    <3>2. CASE j # 1
      <4>1. j \in 2..Len(s.buf) /\ j - 1 < i
        BY <1>1, <2>3, <3>2
      <4> QED BY <1>4, <2>1, <2>3, <4>1 DEF Follows
    <3> QED BY <3>1, <3>2
  <2> QED BY <2>1, <2>2, <2>3 DEF Follows
<1> QED BY <1>5, <1>6, <1>7 DEF Queued

\* What is in the hand is written, if it is not old: there is no gap.
LEMMA QueuedDeliver ==
  ASSUME NEW s \in RequestType, NEW f \in Nat, Queued(s, f), s.pc = "deliver",
         NEW t \in RequestType, t.pc = "live", t.hand = 0, t.buf = s.buf, t.open = s.open,
         t.sent = SentAfter(s)
  PROVE  Queued(t, f)
<1>1. s.sent \in Nat /\ s.hand \in Int /\ s.buf \in Seq(Int)
      /\ \A i \in 1..Len(s.buf) : s.buf[i] \in Int
  BY DEF RequestType
<1>2. t.sent = IF s.hand <= s.sent THEN s.sent ELSE s.hand
  BY <1>1 DEF Queued, SentAfter
<1>3. s.sent <= t.sent /\ s.hand <= t.sent /\ t.sent \in Nat
  BY <1>1, <1>2
<1>4. Covered(t, f)
  <2> SUFFICES ASSUME s.open, NEW n \in t.sent + 1 .. f
               PROVE  \E i \in 1..Len(s.buf) : s.buf[i] = n
    BY DEF Covered
  <2>1. n \in s.sent + 1 .. f /\ n # s.hand
    BY <1>1, <1>3
  <2> QED BY <2>1 DEF Queued, Covered
<1>5. ASSUME NEW i \in 1..Len(t.buf) PROVE Follows(t, i)
  <2>1. Follows(s, i)
    BY DEF Queued
  <2>2. t.buf[i] \in Int /\ t.buf[i] = s.buf[i] /\ t.buf = s.buf
    BY <1>1
  <2>3. CASE s.buf[i] <= s.sent + 1 \/ s.buf[i] = s.hand + 1
    <3>1. t.buf[i] <= t.sent + 1
      BY <1>1, <1>3, <2>2, <2>3
    <3> QED BY <3>1 DEF Follows
  <2>4. CASE \E j \in 1..Len(s.buf) : j < i /\ s.buf[i] = s.buf[j] + 1
    BY <2>2, <2>4 DEF Follows
  <2> QED BY <2>1, <2>3, <2>4 DEF Follows
<1>6. t.hand <= t.sent + 1
  BY <1>3
<1> QED BY <1>4, <1>5, <1>6 DEF Queued

\* A replay writes the whole log, so that all that is in the channel is old.
LEMMA QueuedReplay ==
  ASSUME NEW s \in RequestType, NEW f \in Nat, NEW n \in Nat, Queued(s, f), KnownTo(s, n), f <= n,
         s.pc # "deliver", NEW t \in RequestType, t.pc = "live", t.hand = s.hand, t.buf = s.buf,
         t.open = s.open, t.sent = n
  PROVE  Queued(t, f)
<1>1. \A i \in 1..Len(t.buf) : t.buf[i] \in Int /\ t.buf[i] <= n
  BY DEF KnownTo, RequestType
<1> QED BY <1>1 DEF Queued, Covered, Follows

\* The steps of the bus.
LEMMA BusQueued ==
  ASSUME IInv, AllQueued, \/ (\E n \in 1..2 : Publish(n)) \/ fanoutDurable
                          \/ PublishEphemeral \/ PublishLiveFailure
  PROVE  AllQueued'
<1>0. fanned \in Nat /\ fanned + 1 \in Nat
      /\ \A h \in Handlers : handler[h] \in RequestType /\ Queued(handler[h], fanned)
  BY DEF IInv, TypeOK, AllQueued
<1>1. CASE \E n \in 1..2 : Publish(n)
  BY <1>1 DEF Publish, AllQueued
<1>2. CASE fanoutDurable
  <2>1. fanned' = fanned + 1
        /\ \A h \in Handlers : handler'[h] = IF handler[h].open THEN Offer(handler[h], fanned + 1)
                                             ELSE handler[h]
    BY <1>2 DEF fanoutDurable
  <2>2. ASSUME NEW h \in Handlers, handler[h].open PROVE Queued(handler'[h], fanned')
    <3>1. fanned + 1 \in Int
      BY <1>0
    <3> QED BY <1>0, <2>1, <2>2, <3>1, QueuedOffer
  <2>3. ASSUME NEW h \in Handlers, ~handler[h].open PROVE Queued(handler'[h], fanned')
    BY <1>0, <2>1, <2>3, QueuedClosed
  <2> QED BY <2>2, <2>3 DEF AllQueued
<1>3. CASE PublishEphemeral
  <2>1. fanned' = fanned
        /\ \A h \in Handlers : handler'[h] = IF handler[h].open /\ Len(handler[h].buf) < BufCap
                                             THEN [handler[h] EXCEPT !.buf = Append(@, Delta)]
                                             ELSE handler[h]
    BY <1>3 DEF PublishEphemeral
  <2>2. Delta \in Int /\ Delta <= 0
    BY DEF Delta
  <2>3. \A h \in Handlers : Queued([handler[h] EXCEPT !.buf = Append(@, Delta)], fanned)
    BY <1>0, <2>2, QueuedAppend
  <2> QED BY <1>0, <2>1, <2>3 DEF AllQueued
<1>4. CASE PublishLiveFailure
  <2> DEFINE o(h) == [handler[h] EXCEPT !.owed = @ \/ Viewing(handler[h])]
  <2>1. fanned' = fanned
        /\ \A h \in Handlers : handler'[h] = IF o(h).open THEN Offer(o(h), Failure) ELSE o(h)
    BY <1>4 DEF PublishLiveFailure
  <2>2. ASSUME NEW h \in Handlers
        PROVE  o(h) \in RequestType /\ Queued(o(h), fanned)
    <3>1. (handler[h].owed \/ Viewing(handler[h])) \in BOOLEAN
      BY <1>0 DEF RequestType, Viewing
    <3>2. /\ o(h) \in RequestType /\ o(h).pc = handler[h].pc /\ o(h).open = handler[h].open
          /\ o(h).buf = handler[h].buf /\ o(h).sent = handler[h].sent
          /\ o(h).hand = handler[h].hand
      BY <1>0, <3>1 DEF RequestType
    <3> HIDE DEF o
    <3> QED BY <1>0, <3>2 DEF Queued, Covered, Follows
  <2>3. Failure \in Int /\ Failure <= 0
    BY DEF Failure
  <2> HIDE DEF o
  <2>4. \A h \in Handlers : o(h).open => Queued(Offer(o(h), Failure), fanned)
    BY <1>0, <2>2, <2>3, QueuedOffer
  <2> QED BY <2>1, <2>2, <2>4 DEF AllQueued
<1> QED BY <1>1, <1>2, <1>3, <1>4

\* One request changes and the fan-out does not move.
LEMMA OneQueued ==
  ASSUME IInv, AllQueued, NEW h \in Handlers, NEW t, Queued(t, fanned),
         handler' = [handler EXCEPT ![h] = t], fanned' = fanned
  PROVE  AllQueued'
BY DEF AllQueued, IInv, TypeOK

\* A request in none of the states that read its channel has nothing in hand.
LEMMA QueuedIdle ==
  ASSUME NEW s, NEW f, s.pc \notin {"live", "deliver"}, s.hand = 0
  PROVE  Queued(s, f)
BY DEF Queued

\* The steps of a request.
LEMMA HandlerQueued ==
  ASSUME IInv, AllQueued, NEW h \in Handlers, handleEvents(h)
  PROVE  AllQueued'
<1> DEFINE s == handler[h]
<1>0. /\ s \in RequestType /\ KnownTo(s, log) /\ Queued(s, fanned)
      /\ log \in Nat /\ fanned \in Nat /\ fanned <= log
  BY DEF IInv, TypeOK, NothingNewer, AllQueued
<1>1. ASSUME NEW m \in Nat
      PROVE  \E v : Written(h, m) = [s EXCEPT !.sent = m, !.wire = v]
  BY DEF Written
<1> HIDE DEF s
<1>2. CASE Subscribe(h)
  <2> DEFINE t == [s EXCEPT !.open = TRUE, !.pc = IF s.sent = 0 THEN "resume" ELSE "replay"]
  <2>1. handler' = [handler EXCEPT ![h] = t] /\ fanned' = fanned /\ s.pc = "attach"
    BY <1>2 DEF Subscribe, IInv, TypeOK, s
  <2>2. t.pc \notin {"live", "deliver"} /\ t.hand = 0
    BY <1>0, <2>1 DEF RequestType, Queued
  <2> HIDE DEF t
  <2> QED BY <2>1, <2>2, OneQueued, QueuedIdle
<1>3. ASSUME NEW pc \in {"replay", "leaving"}, handler' = At(h, pc), fanned' = fanned,
             s.pc \in {"resume", "replay", "live"}
      PROVE  AllQueued'
  <2> DEFINE t == [s EXCEPT !.pc = pc]
  <2>1. handler' = [handler EXCEPT ![h] = t]
    BY <1>3 DEF At, IInv, TypeOK, s
  <2>2. t.pc \notin {"live", "deliver"} /\ t.hand = 0
    BY <1>0, <1>3 DEF RequestType, Queued
  <2> HIDE DEF t
  <2> QED BY <1>3, <2>1, <2>2, OneQueued, QueuedIdle
<1>4. CASE SessionResumed(h)
  BY <1>3, <1>4 DEF SessionResumed, s
<1>5. CASE Replay(h)
  <2>1. s.pc = "replay" /\ fanned' = fanned
    BY <1>5 DEF Replay, s
  <2>2. CASE handler' = At(h, "leaving")
    BY <1>3, <2>1, <2>2
  <2>3. CASE handler' = [handler EXCEPT ![h] = [Written(h, log) EXCEPT !.pc = "live"]]
    <3>1. PICK v : Written(h, log) = [s EXCEPT !.sent = log, !.wire = v]
      BY <1>0, <1>1
    <3> DEFINE t == [Written(h, log) EXCEPT !.pc = "live"]
    <3>2. t.pc = "live" /\ t.hand = s.hand /\ t.buf = s.buf /\ t.open = s.open /\ t.sent = log
      BY <1>0, <3>1 DEF RequestType
    <3>3. t \in RequestType
      <4>1. Written(h, log) \in RequestType
        <5>1. handler[h].sent <= log /\ log <= log
          BY <1>0 DEF KnownTo, s
        <5> QED BY <1>0, <5>1, WrittenKeeps
      <4> QED BY <4>1 DEF RequestType
    <3>4. handler' = [handler EXCEPT ![h] = t]
      BY <2>3
    <3> HIDE DEF t
    <3>5. Queued(t, fanned)
      BY <1>0, <2>1, <3>2, <3>3, QueuedReplay
    <3> QED BY <2>1, <3>4, <3>5, OneQueued
  <2> QED BY <1>5, <2>2, <2>3 DEF Replay
<1>6. CASE Take(h)
  <2> DEFINE t == [s EXCEPT !.pc = "deliver", !.hand = Head(s.buf), !.buf = Tail(s.buf)]
  <2>1. handler' = [handler EXCEPT ![h] = t] /\ fanned' = fanned /\ s.pc = "live"
        /\ s.buf # <<>>
    BY <1>6 DEF Take, IInv, TypeOK, s
  <2>2. s.buf \in Seq(Int) /\ Head(s.buf) \in Int /\ Tail(s.buf) \in Seq(Int)
    BY <1>0, <2>1 DEF RequestType
  <2>3. t \in RequestType /\ t.pc = "deliver" /\ t.hand = Head(s.buf) /\ t.buf = Tail(s.buf)
        /\ t.open = s.open /\ t.sent = s.sent
    BY <1>0, <2>2 DEF RequestType
  <2> HIDE DEF t
  <2>4. Queued(t, fanned)
    BY <1>0, <2>1, <2>3, QueuedTake
  <2> QED BY <2>1, <2>4, OneQueued
<1>7. CASE deliverEvent(h)
  <2> DEFINE m == SentAfter(s)
             w == Written(h, m)
             t == [w EXCEPT !.pc = "live", !.hand = 0, !.owed = @ /\ s.hand # Failure]
  <2>1. m \in Nat /\ s.sent <= m /\ m <= log
    BY <1>0, SentForward
  <2>2. s.pc = "deliver" /\ fanned' = fanned /\ handler' = [handler EXCEPT ![h] = t]
    BY <1>7 DEF deliverEvent, s
  <2> HIDE DEF m
  <2>3. PICK v : w = [s EXCEPT !.sent = m, !.wire = v]
    BY <1>1, <2>1
  <2>4. w \in RequestType
    BY <2>1, WrittenKeeps DEF s
  <2>5. w.sent = m /\ w.buf = s.buf /\ w.open = s.open
    BY <1>0, <2>3 DEF RequestType
  <2> HIDE DEF w
  <2>6. t \in RequestType /\ t.pc = "live" /\ t.hand = 0 /\ t.buf = s.buf /\ t.open = s.open
        /\ t.sent = m
    <3> DEFINE o == w.owed /\ s.hand # Failure
    <3>1. o \in BOOLEAN /\ t = [w EXCEPT !.pc = "live", !.hand = 0, !.owed = o]
      BY <2>4 DEF RequestType
    <3>2. 0 \in Int
      OBVIOUS
    <3> HIDE DEF o, t
    <3> QED BY <2>4, <2>5, <3>1, <3>2 DEF RequestType
  <2> HIDE DEF t
  <2>7. Queued(t, fanned)
    BY <1>0, <2>2, <2>6, QueuedDeliver DEF m
  <2> QED BY <2>2, <2>7, OneQueued
<1>8. CASE Poisoned(h)
  <2>1. PICK m \in {log, s.sent} :
          handler' = [handler EXCEPT ![h] =
            [Written(h, m) EXCEPT !.pc = "leaving", !.owed = @ /\ ~s.failure]]
    BY <1>8 DEF Poisoned, s
  <2>2. s.pc = "live" /\ fanned' = fanned
    BY <1>8 DEF Poisoned, s
  <2> DEFINE t == [Written(h, m) EXCEPT !.pc = "leaving", !.owed = @ /\ ~s.failure]
  <2>3. m \in Nat
    BY <1>0, <2>1 DEF RequestType
  <2>4. PICK v : Written(h, m) = [s EXCEPT !.sent = m, !.wire = v]
    BY <1>1, <2>3
  <2>5. t.pc = "leaving" /\ t.hand = 0
    BY <1>0, <2>2, <2>4 DEF RequestType, Queued
  <2>6. handler' = [handler EXCEPT ![h] = t]
    BY <2>1
  <2> HIDE DEF t
  <2> QED BY <2>2, <2>5, <2>6, OneQueued, QueuedIdle
<1>9. CASE ClientGone(h)
  BY <1>3, <1>9 DEF ClientGone, s
<1>10. CASE Cancel(h)
  <2> DEFINE t == IF s.gone THEN NoRequest
                  ELSE [NoRequest EXCEPT !.pc = "ended", !.sent = s.sent, !.wire = s.wire,
                                         !.owed = s.owed]
  <2>1. handler' = [handler EXCEPT ![h] = t] /\ fanned' = fanned
    BY <1>10 DEF Cancel, s
  <2>2. t.pc \notin {"live", "deliver"} /\ t.hand = 0
    BY DEF NoRequest
  <2> HIDE DEF t
  <2> QED BY <2>1, <2>2, OneQueued, QueuedIdle
<1> QED BY <1>2, <1>4, <1>5, <1>6, <1>7, <1>8, <1>9, <1>10 DEF handleEvents

\* A browser reads the connection, which the channel does not depend on, and breaks it
\* for good.
LEMMA SameQueue ==
  ASSUME NEW s \in RequestType, NEW t, NEW f \in Nat, Queued(s, f), t.pc = s.pc, t.hand = s.hand,
         t.buf = s.buf, t.open = s.open, t.sent = s.sent
  PROVE  Queued(t, f)
BY DEF Queued, Covered, Follows

\* The steps of a browser.
LEMMA BrowserQueued ==
  ASSUME IInv, AllQueued, NEW c \in Clients, Browser(c) \/ Drop(c) \/ Reload(c)
  PROVE  AllQueued'
<1>0. fanned \in Nat
      /\ \A h \in Handlers : handler[h] \in RequestType /\ Queued(handler[h], fanned)
  BY DEF IInv, TypeOK, AllQueued
<1>1. ASSUME NEW h \in Handlers, Connect(c, h) PROVE AllQueued'
  <2> DEFINE t == [NoRequest EXCEPT !.pc = "attach", !.sent = ResumeFrom(c)]
  <2>1. handler' = [handler EXCEPT ![h] = t] /\ fanned' = fanned
    BY <1>1 DEF Connect
  <2>2. t.pc \notin {"live", "deliver"} /\ t.hand = 0
    BY DEF NoRequest
  <2> HIDE DEF t
  <2> QED BY <2>1, <2>2, OneQueued, QueuedIdle
<1>2. ASSUME conn[c] # NoHandler PROVE conn[c] \in Handlers
  BY <1>2 DEF IInv, TypeOK
<1>3. CASE Receive(c)
  <2> DEFINE h == conn[c]
             t == [handler[h] EXCEPT !.wire = Tail(@)]
  <2>1. h \in Handlers /\ handler' = [handler EXCEPT ![h] = t] /\ fanned' = fanned
    BY <1>2, <1>3 DEF Receive, IInv, TypeOK
  <2> HIDE DEF h
  <2>2. t.pc = handler[h].pc /\ t.hand = handler[h].hand /\ t.buf = handler[h].buf
        /\ t.open = handler[h].open /\ t.sent = handler[h].sent
    BY <1>0, <2>1 DEF RequestType
  <2> HIDE DEF t
  <2>3. Queued(t, fanned)
    BY <1>0, <2>1, <2>2, SameQueue
  <2> QED BY <2>1, <2>3, OneQueued
<1>4. Queued(NoRequest, fanned)
  BY QueuedIdle DEF NoRequest
<1>5. CASE EndOfStream(c)
  <2>1. conn[c] \in Handlers /\ handler' = [handler EXCEPT ![conn[c]] = NoRequest]
        /\ fanned' = fanned
    BY <1>2, <1>5 DEF EndOfStream
  <2> QED BY <1>4, <2>1, OneQueued
<1>6. ASSUME conn[c] # NoHandler, handler' = Left(conn[c]), fanned' = fanned PROVE AllQueued'
  <2> DEFINE h == conn[c]
             t == [handler[h] EXCEPT !.gone = TRUE, !.wire = <<>>]
  <2>1. h \in Handlers
        /\ handler' = [handler EXCEPT ![h] = IF handler[h].pc = "ended" THEN NoRequest ELSE t]
    BY <1>2, <1>6 DEF Left, IInv, TypeOK
  <2> HIDE DEF h
  <2>2. t.pc = handler[h].pc /\ t.hand = handler[h].hand /\ t.buf = handler[h].buf
        /\ t.open = handler[h].open /\ t.sent = handler[h].sent
    BY <1>0, <2>1 DEF RequestType
  <2> HIDE DEF t
  <2>3. Queued(t, fanned)
    BY <1>0, <2>1, <2>2, SameQueue
  <2> QED BY <1>4, <1>6, <2>1, <2>3, OneQueued
<1>7. CASE Drop(c)
  BY <1>6, <1>7 DEF Drop
<1>8. CASE Reload(c)
  <2>1. CASE conn[c] # NoHandler
    BY <1>6, <1>8, <2>1 DEF Reload
  <2>2. CASE conn[c] = NoHandler
    BY <1>8, <2>2 DEF Reload, AllQueued
  <2> QED BY <2>1, <2>2
<1> QED BY <1>1, <1>3, <1>5, <1>7, <1>8 DEF Browser

\* A subscriber that is open misses nothing: what was fanned out and not written waits
\* for it, and what it takes is the next event or an old one.
THEOREM NothingSlips == Spec => []NothingSlipsBy
<1>1. Init => AllQueued
  BY QueuedIdle DEF Init, AllQueued, NoRequest
<1>2. ASSUME IInv, AllQueued, [Next]_vars PROVE AllQueued'
  <2>1. CASE Next
    BY <1>2, <2>1, BusQueued, HandlerQueued, BrowserQueued DEF Next
  <2>2. CASE UNCHANGED vars
    BY <1>2, <2>2 DEF vars, AllQueued
  <2> QED BY <1>2, <2>1, <2>2
<1>3. ASSUME IInv, AllQueued PROVE NothingSlipsBy
  <2>1. \A h \in Handlers : handler[h].sent \in Nat /\ Queued(handler[h], fanned)
    BY <1>3 DEF IInv, TypeOK, RequestType, AllQueued
  <2> QED BY <2>1 DEF NothingSlipsBy, Queued, Covered
<1> QED BY <1>1, <1>2, <1>3, AlwaysIInv, PTL DEF Spec
=============================================================================
