---------------------------- MODULE Services_proofs ----------------------------
(* Theorems about nine of the services for every value of their constants: the  *)
(* session table, listening, the spoken replies, the login sessions, the gates, *)
(* the assets of the models, the detection of turns, the references of the      *)
(* steps and the schedules.  Each keeps the invariant IInv of its module; the   *)
(* theorems at the end put that together for Services, whose behaviours are     *)
(* those of one service.                                                        *)
EXTENDS Services, Sequences, FiniteSetTheorems, WellFoundedInduction, TLAPS

-----------------------------------------------------------------------------
(* SessionTable: no connection is lost sight of, and no call to an older one. *)

\* It holds to begin with.
LEMMA TableInitInv == ASSUME Table!Named PROVE Table!Init => Table!IInv
<1> SUFFICES ASSUME Table!Init PROVE Table!IInv
  OBVIOUS
<1>1. Table!New \in Table!SessionType /\ Table!New.at = "none" /\ Table!New.gen = 0 /\ Table!New.commit = "none"
  BY DEF Table!New, Table!SessionType
<1>2. /\ table \in Table!TableType /\ table.active = Nobody /\ table.pending = {} /\ table.gen = 0
      /\ ~table.closed
  BY DEF Table!Init, Table!TableType
<1>3. \A s \in Sessions : sess[s] = Table!New
  BY DEF Table!Init
<1>4. Table!TypeOK
  BY <1>1, <1>2 DEF Table!Init, Table!TypeOK
<1>5. Table!AllGood
  BY <1>1, <1>2, <1>3 DEF Table!Named, Table!AllGood, Table!Good, Table!Known, Table!Right,
     Table!Ordered, Table!Opened
<1>6. Table!Distinct /\ Table!OneSwaps /\ Table!OneWaits /\ Table!Shut
  BY <1>1, <1>2, <1>3
     DEF Table!Distinct, Table!Serves, Table!OneSwaps, Table!Swapping, Table!OneWaits,
         Table!Shut
<1> QED BY <1>4, <1>5, <1>6 DEF Table!IInv

\* One session changes, and what is said of the others does not.
LEMMA TableOneChanges ==
  ASSUME Table!IInv, NEW s \in Sessions, NEW r \in Table!SessionType, sess' = [sess EXCEPT ![s] = r],
         table' \in Table!TableType, Table!Good(r, s, table'),
         \A x \in Sessions \ {s} : Table!Good(sess[x], x, table'),
         Table!Serves(r) => \/ Table!Serves(sess[s]) /\ r.gen = sess[s].gen
                            \/ \A x \in Sessions : sess[x].gen < r.gen,
         r.commit \in {"promote", "discard"} => Table!Swapping(s) \/ Table!MuFree,
         Table!OneWaits', Table!Shut'
  PROVE  Table!IInv'
<1>1. sess'[s] = r /\ \A x \in Sessions \ {s} : sess'[x] = sess[x]
  BY DEF Table!IInv, Table!TypeOK
<1>2. Table!TypeOK'
  BY DEF Table!IInv, Table!TypeOK
<1>3. Table!AllGood'
  BY <1>1 DEF Table!AllGood
<1>4. Table!Distinct'
  <2>1. \A x \in Sessions : sess[x].gen \in Nat /\ r.gen \in Nat
    BY DEF Table!IInv, Table!TypeOK, Table!SessionType
  <2>2. CASE Table!Serves(r) => Table!Serves(sess[s]) /\ r.gen = sess[s].gen
    BY <1>1, <2>2 DEF Table!Distinct, Table!IInv
  <2>3. CASE \A x \in Sessions : sess[x].gen < r.gen
    <3>1. \A x \in Sessions : sess[x].gen # r.gen
      BY <2>1, <2>3
    <3> QED BY <1>1, <3>1 DEF Table!Distinct, Table!IInv
  <2> QED BY <2>2, <2>3
<1>5. Table!OneSwaps'
  BY <1>1 DEF Table!OneSwaps, Table!Swapping, Table!MuFree, Table!IInv
<1> QED BY <1>2, <1>3, <1>4, <1>5 DEF Table!IInv

\* Several sessions are asked to close, and their timers are stopped: this changes neither
\* who they are nor how far their commit is.
Tame(r, o) == /\ r \in Table!SessionType /\ r.at = o.at /\ r.gen = o.gen /\ r.commit = o.commit
              /\ r.open = o.open /\ r.close \in {o.close, "asked"}
              /\ (r.close = o.close \/ o.close = "no") /\ r.timer \in {o.timer, "off"}

\* Asked and Stopped are that.
LEMMA TableTamed ==
  ASSUME NEW r \in Table!SessionType
  PROVE  /\ Tame(Table!Asked(r), r) /\ Table!Asked(r).timer = r.timer /\ Table!Asked(r).close # "no"
         /\ Tame(Table!Stopped(r), r) /\ Table!Stopped(r).close = r.close
         /\ Tame(Table!Asked(Table!Stopped(r)), r) /\ Table!Asked(Table!Stopped(r)).close # "no"
<1> DEFINE c(b) == IF b = "no" THEN "asked" ELSE b
           k(b) == IF b = "armed" THEN "off" ELSE b
<1>1. /\ Table!Asked(r) = [r EXCEPT !.close = c(r.close)]
      /\ Table!Stopped(r) = [r EXCEPT !.timer = k(r.timer)]
      /\ Table!Asked(Table!Stopped(r)) = [r EXCEPT !.timer = k(r.timer), !.close = c(r.close)]
  BY DEF Table!Asked, Table!Stopped, Table!SessionType
<1>2. /\ \A b \in {"no", "asked", "marked", "torn", "over"} :
           /\ c(b) \in {"asked", "marked", "torn", "over"} /\ c(b) \in {b, "asked"}
           /\ c(b) = b \/ b = "no"
      /\ \A b \in {"off", "armed", "fired"} : k(b) \in {"off", "fired"} /\ k(b) \in {b, "off"}
  OBVIOUS
<1> HIDE DEF c, k
<1>3. /\ c(r.close) \in {"asked", "marked", "torn", "over"} /\ c(r.close) \in {r.close, "asked"}
      /\ c(r.close) = r.close \/ r.close = "no"
      /\ k(r.timer) \in {"off", "fired"} /\ k(r.timer) \in {r.timer, "off"}
  BY <1>2 DEF Table!SessionType
<1>4. Tame(Table!Asked(r), r) /\ Table!Asked(r).timer = r.timer /\ Table!Asked(r).close # "no"
  BY <1>1, <1>3 DEF Tame, Table!SessionType
<1>5. Tame(Table!Stopped(r), r) /\ Table!Stopped(r).close = r.close
  BY <1>1, <1>3 DEF Tame, Table!SessionType
<1>6. Tame(Table!Asked(Table!Stopped(r)), r) /\ Table!Asked(Table!Stopped(r)).close # "no"
  <2> DEFINE Q(e, d) == [r EXCEPT !.timer = e, !.close = d]
  <2>1. ASSUME NEW e \in {"off", "fired"}, NEW d \in {"asked", "marked", "torn", "over"}
        PROVE  /\ Q(e, d) \in Table!SessionType /\ Q(e, d).at = r.at /\ Q(e, d).gen = r.gen
               /\ Q(e, d).commit = r.commit /\ Q(e, d).open = r.open
               /\ Q(e, d).timer = e /\ Q(e, d).close = d
    BY DEF Table!SessionType
  <2>2. Table!Asked(Table!Stopped(r)) = Q(k(r.timer), c(r.close))
    BY <1>1
  <2> HIDE DEF Q
  <2> QED BY <1>3, <2>1, <2>2 DEF Tame
<1> QED BY <1>4, <1>5, <1>6

\* The table changes and every session is tamed at most.
LEMMA TableAllTamed ==
  ASSUME Table!IInv, table' \in Table!TableType, sess' = [x \in Sessions |-> sess'[x]],
         \A x \in Sessions : Tame(sess'[x], sess[x]) /\ Table!Good(sess'[x], x, table'),
         Table!OneWaits', Table!Shut'
  PROVE  Table!IInv'
<1>1. Table!TypeOK'
  BY DEF Tame, Table!TypeOK
<1>2. Table!AllGood' /\ Table!Distinct' /\ Table!OneSwaps'
  BY DEF Tame, Table!AllGood, Table!Distinct, Table!Serves, Table!OneSwaps, Table!Swapping,
     Table!IInv
<1> QED BY <1>1, <1>2 DEF Table!IInv

\* Negotiation.
LEMMA TableOfferKeeps ==
  ASSUME Table!Named, Table!IInv, NEW s \in Sessions, Table!Offer(s) \/ Table!Fail(s) \/ Table!Register(s)
  PROVE  Table!IInv'
<1>0. /\ Table!TypeOK /\ table \in Table!TableType /\ Table!OneWaits /\ Table!Shut /\ Table!Good(sess[s], s, table)
      /\ sess[s] \in Table!SessionType /\ \A x \in Sessions : Table!Good(sess[x], x, table)
  BY DEF Table!IInv, Table!AllGood, Table!TypeOK
<1>1. Table!Gone \in Table!SessionType /\ Table!Gone.at = "gone" /\ Table!Gone.gen = 0 /\ Table!Gone.commit = "none"
  BY DEF Table!Gone, Table!New, Table!SessionType
<1>2. ASSUME sess[s].at \in {"none", "offer"}, Table!Set(s, Table!Gone), UNCHANGED table PROVE Table!IInv'
  <2>1. Table!Good(Table!Gone, s, table)
    BY <1>0, <1>1, <1>2
       DEF Table!Good, Table!Known, Table!Right, Table!Ordered, Table!Opened, Table!TableType
  <2>2. sess' = [sess EXCEPT ![s] = Table!Gone] /\ table' = table
    BY <1>2 DEF Table!Set
  <2>3. Table!TypeOK' /\ Table!AllGood' /\ Table!OneWaits' /\ Table!Shut'
    BY <1>0, <1>1, <2>1, <2>2 DEF Table!TypeOK, Table!AllGood, Table!OneWaits, Table!Shut
  <2>4. sess'[s] = Table!Gone /\ \A x \in Sessions \ {s} : sess'[x] = sess[x]
    BY <1>0, <2>2 DEF Table!TypeOK
  <2>5. Table!Distinct'
    BY <1>1, <2>4 DEF Table!Distinct, Table!Serves, Table!IInv
  <2>6. Table!OneSwaps'
    BY <1>1, <2>4 DEF Table!OneSwaps, Table!Swapping, Table!IInv
  <2> QED BY <2>3, <2>5, <2>6 DEF Table!IInv
<1>3. CASE Table!Offer(s)
  <2>1. CASE table.closed
    BY <1>2, <1>3, <2>1 DEF Table!Offer
  <2>2. CASE ~table.closed
    <3> DEFINE r == [Table!New EXCEPT !.at = "offer", !.gen = table.gen + 1]
    <3>1. /\ sess[s].at = "none" /\ Table!MuFree /\ sess' = [sess EXCEPT ![s] = r]
          /\ table' = [table EXCEPT !.gen = table.gen + 1]
      BY <1>3, <2>2 DEF Table!Offer, Table!Set
    <3>2. /\ table' \in Table!TableType /\ table'.active = table.active /\ table'.closed = table.closed
          /\ table'.pending = table.pending /\ table'.gen = table.gen + 1 /\ table.gen \in Nat
      BY <1>0, <3>1 DEF Table!TableType
    <3>3. /\ r \in Table!SessionType /\ r.at = "offer" /\ r.gen = table.gen + 1 /\ r.commit = "none"
      <4>1. /\ Table!New \in Table!SessionType /\ Table!New.commit = "none"
        BY DEF Table!New, Table!SessionType
      <4>2. table.gen + 1 \in Nat
        BY <3>2
      <4> QED BY <4>1, <4>2 DEF Table!SessionType
    <3> HIDE DEF r
    <3>4. Table!Good(r, s, table')
      BY <1>0, <3>1, <3>2, <3>3
         DEF Table!Good, Table!Known, Table!Right, Table!Ordered, Table!Opened
    <3>5. \A x \in Sessions : sess[x].gen \in Nat /\ sess[x].gen <= table.gen
      BY <1>0 DEF Table!TypeOK, Table!SessionType, Table!Good, Table!Ordered
    <3>6. \A x \in Sessions : Table!Good(sess[x], x, table') /\ sess[x].gen < r.gen
      BY <1>0, <3>1, <3>2, <3>3, <3>5 DEF Table!Good, Table!Known, Table!Right, Table!Ordered,
         Table!Opened, Table!MuFree, Table!Swapping
    <3>7. Table!OneWaits' /\ Table!Shut'
      BY <1>0, <3>2 DEF Table!OneWaits, Table!Shut
    <3> QED BY <3>1, <3>2, <3>3, <3>4, <3>6, <3>7, TableOneChanges
  <2> QED BY <2>1, <2>2
<1>4. CASE Table!Fail(s)
  BY <1>2, <1>4 DEF Table!Fail
<1>5. CASE Table!Register(s)
  <2>1. CASE table.closed \/ Table!Superseded(s) \/ Table!Closed(s)
    BY <1>2, <1>5, <2>1 DEF Table!Register
  <2>2. CASE ~(table.closed \/ Table!Superseded(s) \/ Table!Closed(s))
    <3> DEFINE r == [sess[s] EXCEPT !.at = "answered", !.timer = "armed"]
    <3>1. /\ sess[s].at = "offer" /\ Table!MuFree /\ ~table.closed
          /\ table' = [table EXCEPT !.pending = {s}]
          /\ sess' = [x \in Sessions |-> IF x = s THEN r
                                         ELSE IF x \in table.pending THEN Table!Asked(Table!Stopped(sess[x]))
                                         ELSE sess[x]]
      BY <1>5, <2>2 DEF Table!Register, Table!Evicted
    <3>2. /\ table' \in Table!TableType /\ table'.active = table.active /\ table'.closed = table.closed
          /\ table'.pending = {s} /\ table'.gen = table.gen
      BY <1>0, <3>1 DEF Table!TableType
    <3>3. /\ r \in Table!SessionType /\ r.at = "answered" /\ r.gen = sess[s].gen
          /\ r.commit = sess[s].commit /\ r.timer = "armed" /\ r.close = sess[s].close
      BY <1>0 DEF Table!SessionType
    <3>4. Table!Good(r, s, table') /\ r.commit \notin {"promote", "discard"}
      BY <1>0, <3>1, <3>2, <3>3 DEF Table!Good, Table!Known, Table!Right, Table!Ordered,
         Table!Opened, Table!MuFree, Table!Swapping
    <3>5. ASSUME NEW x \in Sessions \ {s}
          PROVE  /\ sess'[x] \in Table!SessionType /\ sess'[x].at = sess[x].at
                 /\ sess'[x].gen = sess[x].gen /\ sess'[x].commit = sess[x].commit
                 /\ Table!Good(sess'[x], x, table')
      <4>1. sess[x] \in Table!SessionType /\ Table!Good(sess[x], x, table)
            /\ sess[x].commit \notin {"promote", "discard"}
        BY <1>0, <3>1 DEF Table!TypeOK, Table!MuFree, Table!Swapping
      <4>2. CASE x \in table.pending
        <5>1. sess'[x] = Table!Asked(Table!Stopped(sess[x]))
          BY <3>1, <4>2
        <5>2. Tame(sess'[x], sess[x]) /\ sess'[x].close # "no"
          BY <4>1, <5>1, TableTamed
        <5> QED BY <3>2, <4>1, <5>2
                   DEF Tame, Table!Good, Table!Known, Table!Right, Table!Ordered, Table!Opened
      <4>3. CASE x \notin table.pending
        <5>1. sess'[x] = sess[x]
          BY <3>1, <4>3
        <5> QED BY <3>2, <4>1, <4>3, <5>1
                   DEF Table!Good, Table!Known, Table!Right, Table!Ordered, Table!Opened
      <4> QED BY <4>2, <4>3
    <3>6. sess'[s] = r
      BY <3>1
    <3> HIDE DEF r
    <3>7. Table!TypeOK'
      <4>1. sess' = [x \in Sessions |-> sess'[x]]
        BY <3>1
      <4>2. \A x \in Sessions : sess'[x] \in Table!SessionType
        BY <3>3, <3>5, <3>6
      <4> QED BY <3>2, <4>1, <4>2 DEF Table!TypeOK
    <3>8. Table!AllGood' /\ Table!OneWaits' /\ Table!Shut'
      BY <3>1, <3>2, <3>4, <3>5, <3>6 DEF Table!AllGood, Table!OneWaits, Table!Shut
    <3>9. Table!Distinct' /\ Table!OneSwaps'
      BY <3>1, <3>3, <3>4, <3>5, <3>6
         DEF Table!Distinct, Table!Serves, Table!OneSwaps, Table!Swapping, Table!IInv
    <3> QED BY <3>7, <3>8, <3>9 DEF Table!IInv
  <2> QED BY <2>1, <2>2
<1> QED BY <1>3, <1>4, <1>5

\* A session leaves those that wait: nothing changes for the others.
LEMMA TableLeaves ==
  ASSUME Table!IInv, NEW s \in Sessions, table' = [table EXCEPT !.pending = table.pending \ {s}]
  PROVE  /\ table' \in Table!TableType /\ s \notin table'.pending /\ table'.active = table.active
         /\ table'.gen = table.gen /\ table'.closed = table.closed /\ Table!OneWaits' /\ Table!Shut'
         /\ \A x \in Sessions \ {s} : Table!Good(sess[x], x, table')
<1>1. /\ table' \in Table!TableType /\ table'.pending = table.pending \ {s}
      /\ table'.active = table.active /\ table'.gen = table.gen /\ table'.closed = table.closed
  BY DEF Table!IInv, Table!TypeOK, Table!TableType
<1>2. \A x \in Sessions \ {s} : Table!Good(sess[x], x, table')
  BY <1>1 DEF Table!IInv, Table!AllGood, Table!Good, Table!Known, Table!Right, Table!Ordered,
     Table!Opened
<1> QED BY <1>1, <1>2 DEF Table!IInv, Table!OneWaits, Table!Shut

\* Only one session changes, in what the table knows nothing of.
LEMMA TableTableSame ==
  ASSUME Table!IInv, NEW s \in Sessions, NEW r \in Table!SessionType, sess' = [sess EXCEPT ![s] = r],
         table' = table, r.at = sess[s].at, r.gen = sess[s].gen, Table!Good(r, s, table),
         r.commit \in {"promote", "discard"} => Table!Swapping(s)
  PROVE  Table!IInv'
<1>1. table \in Table!TableType /\ \A x \in Sessions : Table!Good(sess[x], x, table)
  BY DEF Table!IInv, Table!TypeOK, Table!AllGood
<1>2. Table!OneWaits' /\ Table!Shut' /\ (Table!Serves(r) => Table!Serves(sess[s]))
  BY DEF Table!IInv, Table!OneWaits, Table!Shut, Table!Serves
<1> QED BY <1>1, <1>2, TableOneChanges

\* The answer is not delivered, or the timer of a session fires.
LEMMA TableWaitKeeps ==
  ASSUME Table!Named, Table!IInv, NEW s \in Sessions, Table!CloseSession(s) \/ Table!Fire(s) \/ Table!expirePending(s)
  PROVE  Table!IInv'
<1>0. /\ Table!TypeOK /\ Table!Good(sess[s], s, table) /\ sess[s] \in Table!SessionType
  BY DEF Table!IInv, Table!AllGood, Table!TypeOK
<1>1. CASE Table!CloseSession(s)
  <2> DEFINE u == [sess[s] EXCEPT !.at = "undelivered"]
             r == IF Table!Pending(s) THEN Table!Asked(Table!Stopped(u)) ELSE IF Table!Active(s) THEN Table!Asked(u) ELSE u
  <2>1. /\ sess[s].at = "answered" /\ Table!MuFree /\ sess' = [sess EXCEPT ![s] = r]
        /\ table' = [table EXCEPT !.pending = table.pending \ {s}]
    BY <1>1 DEF Table!CloseSession, Table!Set
  <2>2. /\ u \in Table!SessionType /\ u.at = "undelivered" /\ u.gen = sess[s].gen
        /\ u.commit = sess[s].commit /\ u.close = sess[s].close /\ u.open = sess[s].open
    BY <1>0 DEF Table!SessionType
  <2>3. /\ r \in Table!SessionType /\ r.at = "undelivered" /\ r.gen = sess[s].gen
        /\ r.commit = sess[s].commit /\ r.open = sess[s].open
        /\ r.close = "no" => ~Table!Pending(s) /\ ~Table!Active(s) /\ sess[s].close = "no"
    <3> HIDE DEF u
    <3>1. /\ Tame(Table!Asked(u), u) /\ Table!Asked(u).close # "no"
          /\ Tame(Table!Asked(Table!Stopped(u)), u) /\ Table!Asked(Table!Stopped(u)).close # "no"
      BY <2>2, TableTamed
    <3>2. CASE Table!Pending(s)
      BY <2>2, <3>1, <3>2 DEF Tame
    <3>3. CASE ~Table!Pending(s) /\ Table!Active(s)
      BY <2>2, <3>1, <3>3 DEF Tame
    <3>4. CASE ~Table!Pending(s) /\ ~Table!Active(s)
      BY <2>2, <3>4
    <3> QED BY <3>2, <3>3, <3>4
  <2>4. r.commit \notin {"promote", "discard"}
    BY <2>1, <2>3 DEF Table!MuFree, Table!Swapping
  <2>5. r.close # "no"
    BY <1>0, <2>1, <2>3, <2>4 DEF Table!Good, Table!Known, Table!Pending, Table!Active
  <2> HIDE DEF r, u
  <2>6. Table!Good(r, s, table')
    BY <1>0, <2>1, <2>3, <2>4, <2>5, TableLeaves
       DEF Table!Good, Table!Known, Table!Right, Table!Ordered, Table!Opened
  <2> QED BY <2>1, <2>3, <2>4, <2>6, TableLeaves, TableOneChanges DEF Table!Serves
<1>2. CASE Table!Fire(s)
  <2> DEFINE r == [sess[s] EXCEPT !.timer = "fired"]
  <2>1. sess' = [sess EXCEPT ![s] = r] /\ table' = table
    BY <1>2 DEF Table!Fire, Table!Set
  <2>2. /\ r \in Table!SessionType /\ r.at = sess[s].at /\ r.gen = sess[s].gen /\ r.timer = "fired"
        /\ r.commit = sess[s].commit /\ r.close = sess[s].close /\ r.open = sess[s].open
    BY <1>0 DEF Table!SessionType
  <2> HIDE DEF r
  <2>3. Table!Good(r, s, table)
    BY <1>0, <2>2 DEF Table!Good, Table!Known, Table!Right, Table!Ordered, Table!Opened
  <2> QED BY <2>1, <2>2, <2>3, TableTableSame DEF Table!Swapping
<1>3. CASE Table!expirePending(s)
  <2> DEFINE u == [sess[s] EXCEPT !.timer = "off"]
             r == IF Table!Pending(s) THEN Table!Asked(u) ELSE u
  <2>1. /\ Table!MuFree /\ sess' = [sess EXCEPT ![s] = r]
        /\ table' = [table EXCEPT !.pending = table.pending \ {s}]
    BY <1>3 DEF Table!expirePending, Table!Set
  <2>2. /\ u \in Table!SessionType /\ u.at = sess[s].at /\ u.gen = sess[s].gen
        /\ u.commit = sess[s].commit /\ u.close = sess[s].close /\ u.open = sess[s].open
    BY <1>0 DEF Table!SessionType
  <2>3. /\ r \in Table!SessionType /\ r.at = sess[s].at /\ r.gen = sess[s].gen
        /\ r.commit = sess[s].commit /\ r.open = sess[s].open
        /\ r.close = "no" => ~Table!Pending(s) /\ sess[s].close = "no"
    <3> HIDE DEF u
    <3>1. Tame(Table!Asked(u), u) /\ Table!Asked(u).close # "no"
      BY <2>2, TableTamed
    <3>2. CASE Table!Pending(s)
      BY <2>2, <3>1, <3>2 DEF Tame
    <3>3. CASE ~Table!Pending(s)
      BY <2>2, <3>3
    <3> QED BY <3>2, <3>3
  <2>4. r.commit \notin {"promote", "discard"}
    BY <2>1, <2>3 DEF Table!MuFree, Table!Swapping
  <2> HIDE DEF r, u
  <2>5. Table!Good(r, s, table')
    BY <1>0, <2>1, <2>3, <2>4, TableLeaves
       DEF Table!Good, Table!Known, Table!Right, Table!Ordered, Table!Opened, Table!Pending
  <2> QED BY <2>1, <2>3, <2>4, <2>5, TableLeaves, TableOneChanges DEF Table!Serves
<1> QED BY <1>1, <1>2, <1>3

\* The channels and the connection of a session, and the first steps of its end.
LEMMA TableLinkKeeps ==
  ASSUME Table!Named, Table!IInv, NEW s \in Sessions,
         Table!markChannelReady(s) \/ Table!Drop(s) \/ Table!Lost(s) \/ Table!Mark(s) \/ Table!Teardown(s)
  PROVE  Table!IInv'
<1>0. /\ Table!TypeOK /\ Table!Good(sess[s], s, table) /\ sess[s] \in Table!SessionType
  BY DEF Table!IInv, Table!AllGood, Table!TypeOK
<1>1. CASE Table!markChannelReady(s)
  <2> DEFINE c == IF Table!Closed(s) THEN "none" ELSE "peek"
             r == [sess[s] EXCEPT !.open = "open", !.commit = c]
  <2>1. /\ sess' = [sess EXCEPT ![s] = r] /\ table' = table
        /\ sess[s].at \in {"answered", "undelivered"} /\ sess[s].open = "no"
    BY <1>1 DEF Table!markChannelReady, Table!Set
  <2>2. /\ r \in Table!SessionType /\ r.at = sess[s].at /\ r.gen = sess[s].gen /\ r.commit = c
        /\ r.close = sess[s].close /\ r.timer = sess[s].timer /\ r.open = "open"
    BY <1>0 DEF Table!SessionType
  <2>3. c \notin {"promote", "discard"}
    OBVIOUS
  <2>4. sess[s].commit \notin {"promote", "discard"}
    BY <1>0, <2>1 DEF Table!Good, Table!Opened
  <2> HIDE DEF r, c
  <2>5. Table!Good(r, s, table)
    BY <1>0, <2>1, <2>2, <2>3, <2>4
       DEF Table!Good, Table!Known, Table!Right, Table!Ordered, Table!Opened
  <2> QED BY <2>1, <2>2, <2>3, <2>5, TableTableSame
<1>2. ASSUME NEW open \in {sess[s].open, "closed"},
             NEW close \in {sess[s].close, "asked", "marked", "torn"},
             sess' = [sess EXCEPT ![s] = [sess[s] EXCEPT !.open = open, !.close = close]],
             table' = table, close = "no" => sess[s].close = "no",
             close \in {"marked", "torn"} => ~Table!Swapping(s) \/ Table!Closed(s)
      PROVE  Table!IInv'
  <2> DEFINE r == [sess[s] EXCEPT !.open = open, !.close = close]
  <2>1. /\ r \in Table!SessionType /\ r.at = sess[s].at /\ r.gen = sess[s].gen /\ r.close = close
        /\ r.commit = sess[s].commit /\ r.timer = sess[s].timer /\ r.open = open
    BY <1>0 DEF Table!SessionType
  <2> HIDE DEF r
  <2>2. Table!Good(r, s, table)
    BY <1>0, <1>2, <2>1 DEF Table!Good, Table!Known, Table!Right, Table!Ordered, Table!Opened,
       Table!Swapping, Table!Closed
  <2> QED BY <1>2, <2>1, <2>2, TableTableSame DEF Table!Swapping, r
<1>3. CASE Table!Drop(s) \/ Table!Lost(s) \/ Table!Mark(s) \/ Table!Teardown(s)
  <2> DEFINE f == sess[s]
             c == IF f.close = "no" THEN "asked" ELSE f.close
  <2>1. /\ table' = table
        /\ \/ sess' = [sess EXCEPT ![s] = [f EXCEPT !.open = "closed", !.close = c]]
           \/ sess' = [sess EXCEPT ![s] = [f EXCEPT !.open = f.open, !.close = c]]
           \/ /\ Table!CommitMuFree(s)
              /\ sess' = [sess EXCEPT ![s] = [f EXCEPT !.open = f.open, !.close = "marked"]]
           \/ /\ f.close = "marked"
              /\ sess' = [sess EXCEPT ![s] = [f EXCEPT !.open = "closed", !.close = "torn"]]
    <3>1. /\ [f EXCEPT !.close = c] = [f EXCEPT !.open = f.open, !.close = c]
          /\ [f EXCEPT !.close = "marked"] = [f EXCEPT !.open = f.open, !.close = "marked"]
          /\ [f EXCEPT !.close = "torn", !.open = "closed"]
             = [f EXCEPT !.open = "closed", !.close = "torn"]
          /\ Table!Asked(f) = [f EXCEPT !.close = c]
          /\ Table!Asked([f EXCEPT !.open = "closed"]) = [f EXCEPT !.open = "closed", !.close = c]
      BY <1>0 DEF Table!SessionType, Table!Asked
    <3> HIDE DEF c
    <3>2. CASE Table!Drop(s)
      BY <3>1, <3>2 DEF Table!Drop, Table!Set
    <3>3. CASE Table!Lost(s)
      BY <3>1, <3>3 DEF Table!Lost, Table!Set
    <3>4. CASE Table!Mark(s)
      BY <3>1, <3>4 DEF Table!Mark, Table!Set
    <3>5. CASE Table!Teardown(s)
      BY <3>1, <3>5 DEF Table!Teardown, Table!Set
    <3> QED BY <1>3, <3>2, <3>3, <3>4, <3>5
  <2>2. c \in {f.close, "asked"} /\ c # "no" /\ (c \in {"marked", "torn"} => Table!Closed(s))
    BY DEF Table!Closed
  <2> HIDE DEF c
  <2> QED BY <1>2, <2>1, <2>2 DEF Table!CommitMuFree, Table!Closed
<1> QED BY <1>1, <1>3

\* Commit: what it decides stays right until its swap, since it holds both mutexes.
LEMMA TableCommitKeeps ==
  ASSUME Table!Named, Table!IInv, NEW s \in Sessions, Table!CommitPeek(s) \/ Table!CommitDecide(s) \/ Table!CommitSwap(s)
  PROVE  Table!IInv'
<1>0. /\ Table!TypeOK /\ Table!Good(sess[s], s, table) /\ sess[s] \in Table!SessionType /\ table \in Table!TableType
  BY DEF Table!IInv, Table!AllGood, Table!TypeOK
<1>1. CASE Table!CommitPeek(s)
  <2> DEFINE c == IF Table!Pending(s) THEN "lock" ELSE "none"
             r == [sess[s] EXCEPT !.commit = c]
  <2>1. sess[s].commit = "peek" /\ sess' = [sess EXCEPT ![s] = r] /\ table' = table
    BY <1>1 DEF Table!CommitPeek, Table!Set
  <2>2. /\ r \in Table!SessionType /\ r.at = sess[s].at /\ r.gen = sess[s].gen /\ r.commit = c
        /\ r.close = sess[s].close /\ r.timer = sess[s].timer /\ r.open = sess[s].open
    BY <1>0 DEF Table!SessionType
  <2>3. c \notin {"promote", "discard"}
    OBVIOUS
  <2> HIDE DEF r, c
  <2>4. Table!Good(r, s, table)
    BY <1>0, <2>1, <2>2, <2>3
       DEF Table!Good, Table!Known, Table!Right, Table!Ordered, Table!Opened
  <2> QED BY <2>1, <2>2, <2>3, <2>4, TableTableSame
<1>2. CASE Table!CommitDecide(s)
  <2> DEFINE c == IF ~Table!Pending(s) THEN "none" ELSE IF Table!Discard(s) THEN "discard" ELSE "promote"
             r == [Table!Stopped(sess[s]) EXCEPT !.commit = c]
  <2>1. /\ sess[s].commit = "lock" /\ Table!MuFree /\ sess' = [sess EXCEPT ![s] = r]
        /\ table' = [table EXCEPT !.pending = table.pending \ {s}]
    BY <1>2 DEF Table!CommitDecide, Table!Set
  <2>2. Tame(Table!Stopped(sess[s]), sess[s]) /\ Table!Stopped(sess[s]).close = sess[s].close
    BY <1>0, TableTamed
  <2>3. /\ r \in Table!SessionType /\ r.at = sess[s].at /\ r.gen = sess[s].gen /\ r.commit = c
        /\ r.close = sess[s].close /\ r.open = sess[s].open
    BY <2>2 DEF Tame, Table!SessionType
  <2>4. /\ c \in {"none", "discard", "promote"}
        /\ c = "none" => ~Table!Pending(s)
        /\ c # "none" => Table!Pending(s)
        /\ c = "promote" => ~Table!Discard(s)
    OBVIOUS
  <2> HIDE DEF r, c
  <2>5. Table!Good(r, s, table')
    BY <1>0, <2>1, <2>3, <2>4, TableLeaves
       DEF Table!Good, Table!Known, Table!Right, Table!Ordered, Table!Opened, Table!Pending,
           Table!Discard, Table!Superseded, Table!Closed
  <2> QED BY <2>1, <2>3, <2>5, TableLeaves, TableOneChanges DEF Table!Serves
<1>3. CASE Table!CommitSwap(s)
  <2> DEFINE loser == IF sess[s].commit = "discard" THEN s ELSE table.active
             done == [sess[s] EXCEPT !.commit = "none"]
  <2>1. /\ Table!Swapping(s)
        /\ table' = [table EXCEPT !.active = IF sess[s].commit = "discard" THEN table.active ELSE s]
        /\ sess' = [x \in Sessions |-> LET r == IF x = s THEN done ELSE sess[x]
                                       IN IF x = loser THEN Table!Asked(r) ELSE r]
    BY <1>3 DEF Table!CommitSwap
  <2>2. /\ table' \in Table!TableType /\ table'.pending = table.pending /\ table'.gen = table.gen
        /\ table'.closed = table.closed
        /\ table'.active = IF sess[s].commit = "discard" THEN table.active ELSE s
    BY <1>0, <2>1 DEF Table!TableType
  <2>3. /\ done \in Table!SessionType /\ done.at = sess[s].at /\ done.gen = sess[s].gen
        /\ done.commit = "none" /\ done.close = sess[s].close /\ done.timer = sess[s].timer
        /\ done.open = sess[s].open
    BY <1>0 DEF Table!SessionType
  <2>4. ASSUME NEW x \in Sessions \ {s}
        PROVE  /\ sess'[x] \in Table!SessionType /\ sess'[x].at = sess[x].at
               /\ sess'[x].gen = sess[x].gen /\ sess'[x].commit = sess[x].commit
               /\ Table!Good(sess'[x], x, table')
    <3>1. /\ sess[x] \in Table!SessionType /\ Table!Good(sess[x], x, table)
          /\ sess[x].commit \notin {"promote", "discard"}
      BY <2>1 DEF Table!IInv, Table!AllGood, Table!TypeOK, Table!OneSwaps, Table!Swapping
    <3>2. sess'[x] = IF x = loser THEN Table!Asked(sess[x]) ELSE sess[x]
      BY <2>1
    <3>3. Tame(Table!Asked(sess[x]), sess[x]) /\ Table!Asked(sess[x]).close # "no"
          /\ Table!Asked(sess[x]).timer = sess[x].timer
      BY <3>1, TableTamed
    <3>4. CASE x = loser
      <4>1. table'.active # x
        BY <2>2, <3>4
      <4> QED BY <2>2, <3>1, <3>2, <3>3, <3>4, <4>1
                 DEF Tame, Table!Good, Table!Known, Table!Right, Table!Ordered, Table!Opened
    <3>5. CASE x # loser
      <4>1. table'.active = x => table.active = x
        BY <2>2
      <4>2. sess[s].commit = "discard" => table'.active = table.active
        BY <2>2
      <4> QED BY <2>2, <3>1, <3>2, <3>5, <4>1, <4>2
                 DEF Table!Good, Table!Known, Table!Right, Table!Ordered, Table!Opened
    <3> QED BY <3>4, <3>5
  <2>5. /\ sess'[s] \in Table!SessionType /\ sess'[s].at = sess[s].at /\ sess'[s].gen = sess[s].gen
        /\ sess'[s].commit = "none" /\ sess'[s].timer = sess[s].timer
        /\ loser = s => sess'[s].close # "no"
        /\ loser # s => sess'[s].close = sess[s].close
    <3>1. sess'[s] = IF s = loser THEN Table!Asked(done) ELSE done
      BY <2>1
    <3> HIDE DEF done, loser
    <3>2. Tame(Table!Asked(done), done) /\ Table!Asked(done).close # "no" /\ Table!Asked(done).timer = done.timer
      BY <2>3, TableTamed
    <3>3. CASE s = loser
      BY <2>3, <3>1, <3>2, <3>3 DEF Tame
    <3>4. CASE s # loser
      BY <2>3, <3>1, <3>4
    <3> QED BY <3>3, <3>4
  <2>6. Table!Good(sess'[s], s, table')
    <3>1. loser # s => table'.active = s
      BY <2>2
    <3> HIDE DEF loser
    <3> QED BY <1>0, <2>1, <2>2, <2>5, <3>1
            DEF Table!Good, Table!Known, Table!Right, Table!Ordered, Table!Opened,
                Table!Swapping
  <2>7. Table!TypeOK'
    <3>1. sess' = [x \in Sessions |-> sess'[x]]
      BY <2>1
    <3>2. \A x \in Sessions : sess'[x] \in Table!SessionType
      BY <2>4, <2>5
    <3> QED BY <2>2, <3>1, <3>2 DEF Table!TypeOK
  <2>8. Table!AllGood' /\ Table!OneWaits'
    BY <2>2, <2>4, <2>6 DEF Table!AllGood, Table!OneWaits, Table!IInv
  <2>9. Table!Shut'
    BY <1>0, <2>1, <2>2 DEF Table!Shut, Table!IInv, Table!Good, Table!Right, Table!Swapping
  <2>10. Table!Distinct' /\ Table!OneSwaps'
    BY <2>4, <2>5 DEF Table!Distinct, Table!Serves, Table!OneSwaps, Table!Swapping, Table!IInv
  <2> QED BY <2>7, <2>8, <2>9, <2>10 DEF Table!IInv
<1> QED BY <1>1, <1>2, <1>3

\* The end of a session, and the shutdown of the manager.
LEMMA TableEndKeeps ==
  ASSUME Table!Named, Table!IInv, (\E s \in Sessions : Table!onSessionClosed(s)) \/ Table!Close
  PROVE  Table!IInv'
<1>0. Table!TypeOK /\ table \in Table!TableType
  BY DEF Table!IInv, Table!TypeOK
<1>1. ASSUME NEW s \in Sessions, Table!onSessionClosed(s) PROVE Table!IInv'
  <2> DEFINE r == [Table!Gone EXCEPT !.commit = sess[s].commit,
  !.timer = Table!Stopped(sess[s]).timer]
             a == IF Table!Active(s) THEN Nobody ELSE table.active
  <2>1. /\ Table!MuFree /\ sess' = [sess EXCEPT ![s] = r]
        /\ table' = [table EXCEPT !.active = a, !.pending = table.pending \ {s}]
    BY <1>1 DEF Table!onSessionClosed, Table!Set, Table!Removed
  <2>2. Table!Good(sess[s], s, table) /\ sess[s] \in Table!SessionType /\ Tame(Table!Stopped(sess[s]), sess[s])
    BY TableTamed DEF Table!IInv, Table!AllGood, Table!TypeOK
  <2>3. /\ r \in Table!SessionType /\ r.at = "gone" /\ r.gen = 0 /\ r.commit = sess[s].commit
        /\ r.close = "over"
    <3>1. Table!Gone \in Table!SessionType /\ Table!Gone.at = "gone" /\ Table!Gone.gen = 0 /\ Table!Gone.close = "over"
      BY DEF Table!Gone, Table!New, Table!SessionType
    <3>2. Table!Stopped(sess[s]).timer \in {"off", "armed", "fired"}
      BY <2>2 DEF Tame, Table!SessionType
    <3> QED BY <2>2, <3>1, <3>2 DEF Table!SessionType
  <2>4. a \in Sessions \cup {Nobody} /\ a # s /\ (a = table.active \/ (a = Nobody /\ Table!Active(s)))
    BY <1>0 DEF Table!Named, Table!Active, Table!TableType
  <2> HIDE DEF r, a
  <2>5. /\ table' \in Table!TableType /\ table'.pending = table.pending \ {s} /\ table'.active = a
        /\ table'.gen = table.gen /\ table'.closed = table.closed
    BY <1>0, <2>1, <2>4 DEF Table!TableType
  <2>6. Table!Good(r, s, table')
    BY <1>0, <2>1, <2>2, <2>3, <2>4, <2>5
       DEF Table!Good, Table!Known, Table!Right, Table!Ordered, Table!Opened, Table!MuFree,
           Table!Swapping, Table!TableType
  <2>7. ASSUME NEW x \in Sessions \ {s} PROVE Table!Good(sess[x], x, table')
    <3>1. Table!Good(sess[x], x, table) /\ (table'.active = x <=> table.active = x)
      BY <2>4, <2>5 DEF Table!IInv, Table!AllGood, Table!Active, Table!Named
    <3> QED BY <2>5, <3>1 DEF Table!Good, Table!Known, Table!Right, Table!Ordered, Table!Opened
  <2>8. Table!OneWaits' /\ Table!Shut'
    BY <2>4, <2>5 DEF Table!IInv, Table!OneWaits, Table!Shut
  <2>9. ~Table!Serves(r) /\ r.commit \notin {"promote", "discard"}
    BY <2>1, <2>3 DEF Table!Serves, Table!MuFree, Table!Swapping
  <2> QED BY <2>1, <2>3, <2>5, <2>6, <2>7, <2>8, <2>9, TableOneChanges
<1>2. CASE Table!Close
  <2>1. /\ Table!MuFree /\ table' = [table EXCEPT !.closed = TRUE, !.active = Nobody, !.pending = {}]
        /\ sess' = [x \in Sessions |-> IF Table!Pending(x) THEN Table!Asked(Table!Stopped(sess[x]))
                                       ELSE IF Table!Active(x) THEN Table!Asked(sess[x]) ELSE sess[x]]
    BY <1>2 DEF Table!Close
  <2>2. /\ table' \in Table!TableType /\ table'.pending = {} /\ table'.active = Nobody
        /\ table'.gen = table.gen /\ table'.closed
    BY <1>0, <2>1 DEF Table!TableType
  <2>3. ASSUME NEW x \in Sessions PROVE Tame(sess'[x], sess[x]) /\ Table!Good(sess'[x], x, table')
    <3>1. /\ sess[x] \in Table!SessionType /\ Table!Good(sess[x], x, table) /\ x # Nobody
          /\ sess[x].commit \notin {"promote", "discard"}
      BY <2>1
         DEF Table!IInv, Table!AllGood, Table!TypeOK, Table!MuFree, Table!Swapping, Table!Named
    <3>2. Tame(sess'[x], sess[x]) /\ (sess'[x].close = "no" => ~Table!Pending(x) /\ ~Table!Active(x))
      <4>1. CASE Table!Pending(x)
        BY <2>1, <3>1, <4>1, TableTamed
      <4>2. CASE ~Table!Pending(x) /\ Table!Active(x)
        BY <2>1, <3>1, <4>2, TableTamed
      <4>3. CASE ~Table!Pending(x) /\ ~Table!Active(x)
        BY <2>1, <3>1, <4>3 DEF Tame
      <4> QED BY <4>1, <4>2, <4>3
    <3>3. Table!Good(sess'[x], x, table')
      BY <2>2, <3>1, <3>2 DEF Tame, Table!Good, Table!Known, Table!Right, Table!Ordered,
         Table!Opened, Table!Pending, Table!Active
    <3> QED BY <3>2, <3>3
  <2>4. Table!OneWaits' /\ Table!Shut'
    BY <2>2 DEF Table!OneWaits, Table!Shut
  <2>5. sess' = [x \in Sessions |-> sess'[x]]
    BY <2>1
  <2> QED BY <2>2, <2>3, <2>4, <2>5, TableAllTamed
<1> QED BY <1>1, <1>2

\* Every step keeps it.
LEMMA TableNextInv == ASSUME Table!Named PROVE Table!IInv /\ (Table!Next \/ UNCHANGED Table!vars) => Table!IInv'
<1> SUFFICES ASSUME Table!IInv, (Table!Next \/ UNCHANGED Table!vars) PROVE Table!IInv'
  OBVIOUS
<1>1. CASE Table!Next
  BY <1>1, TableOfferKeeps, TableWaitKeeps, TableLinkKeeps, TableCommitKeeps, TableEndKeeps
     DEF Table!Next, Table!Step
<1>2. CASE UNCHANGED Table!vars
  BY <1>2 DEF Table!vars, Table!IInv, Table!TypeOK, Table!AllGood, Table!Distinct,
     Table!OneSwaps, Table!Swapping, Table!OneWaits, Table!Shut
<1> QED BY <1>1, <1>2

\* Whoever has a connection that nobody is closing can be found, and only the newest waits
\* (Answer, Commit, expirePending, CloseSession and Close of internal/rtc/manager.go).
LEMMA TableFound == Table!IInv => Table!NothingOrphaned
<1> SUFFICES ASSUME Table!IInv PROVE Table!NothingOrphaned
  OBVIOUS
<1>1. ASSUME NEW s \in Sessions, sess[s].at \notin {"none", "gone"}, sess[s].close = "no"
      PROVE  Table!Tracked(s)
  BY <1>1 DEF Table!IInv, Table!AllGood, Table!TypeOK, Table!SessionType, Table!Good,
     Table!Known, Table!Tracked, Table!Active, Table!Pending, Table!Swapping
<1> QED BY <1>1 DEF Table!NothingOrphaned, Table!IInv, Table!Shut

\* A call is lost only to a newer session that is not being torn down (Commit and
\* onSessionClosed of internal/rtc/manager.go).
LEMMA TableKept ==
  ASSUME Table!Named, Table!IInv, Table!Next
  PROVE  Table!KeepsCall \/ UNCHANGED <<table, sess>>
<1> SUFFICES ASSUME Table!IInv, Table!Next, table'.active # table.active, table.active # Nobody
             PROVE  Table!KeepsCall
  BY DEF Table!KeepsCall, Table!vars
<1> DEFINE a == table.active
<1>1. /\ table \in Table!TableType /\ a \in Sessions
      /\ \A s \in Sessions : sess[s] \in Table!SessionType /\ Table!Good(sess[s], s, table)
  BY DEF Table!IInv, Table!TypeOK, Table!AllGood, Table!TableType
<1>2. CASE Table!Close
  BY <1>1, <1>2 DEF Table!Close, Table!KeepsCall, Table!TableType
<1>3. ASSUME NEW s \in Sessions, Table!Step(s) PROVE Table!KeepsCall
  <2>1. CASE Table!CommitSwap(s)
    <3>1. sess[s].commit = "promote" /\ table'.active = s
      BY <1>1, <2>1 DEF Table!CommitSwap, Table!Swapping, Table!TableType
    <3>2. /\ ~Table!Closed(s) /\ sess[s].gen = table.gen /\ Table!Serves(sess[s])
          /\ Table!Serves(sess[a]) /\ sess[a].gen <= table.gen /\ s # a
      BY <1>1, <3>1
         DEF Table!Good, Table!Known, Table!Right, Table!Ordered, Table!Closed, Table!Serves
    <3>3. sess[s].gen > sess[a].gen
      BY <1>1, <3>2 DEF Table!IInv, Table!Distinct, Table!SessionType
    <3> QED BY <3>1, <3>2, <3>3 DEF Table!KeepsCall, Table!Active
  <2>2. CASE Table!onSessionClosed(s)
    <3>1. s = a /\ sess[a].close = "torn"
      BY <1>1, <2>2 DEF Table!onSessionClosed, Table!Removed, Table!Active, Table!TableType
    <3> QED BY <3>1 DEF Table!KeepsCall
  <2>3. CASE \/ Table!Offer(s) \/ Table!Register(s) \/ Table!CloseSession(s) \/ Table!expirePending(s)
             \/ Table!CommitDecide(s) \/ UNCHANGED table
    BY <1>1, <2>3 DEF Table!Offer, Table!Register, Table!CloseSession, Table!expirePending,
       Table!CommitDecide, Table!TableType
  <2> QED BY <1>3, <2>1, <2>2, <2>3
          DEF Table!Step, Table!Fail, Table!Fire, Table!Lost, Table!CommitPeek, Table!Mark,
              Table!Teardown, Table!markChannelReady, Table!Drop
<1> QED BY <1>2, <1>3 DEF Table!Next

-----------------------------------------------------------------------------
(* ListenSegments: what listens is meant to, and a segment ends once.          *)

\* It holds to begin with.
LEMMA ListenInitInv == ASSUME Listen!Bounded PROVE Listen!Init => Listen!IInv
BY DEF Listen!Bounded, Listen!Init, Listen!IInv, Listen!TypeOK, Listen!SegmentType,
   Listen!Gens, Listen!NoStream, Listen!NoSegment, Listen!AllHonest, Listen!Honest,
       Listen!OneLoads, Listen!InSeg, Listen!Within

\* What the fields of the state are.
LEMMA ListenFields ==
  ASSUME Listen!TypeOK
  PROVE  /\ lis.stream \in Listen!Gens \cup {Listen!NoStream} /\ lis.starting \in BOOLEAN /\ lis.gen \in Nat
         /\ lis.dropped \in Nat /\ lis.gen + 1 \in Nat /\ lis.dropped + 1 \in Nat
         /\ \A g \in Listen!Gens : seg[g] \in Listen!SegmentType /\ g \in Nat
BY DEF Listen!TypeOK, Listen!Gens

\* One segment changes, and what is said of the others does not.
LEMMA ListenOneChanges ==
  ASSUME Listen!IInv, NEW g \in Listen!Gens, NEW r \in Listen!SegmentType, seg' = [seg EXCEPT ![g] = r],
         lis' \in [stream : Listen!Gens \cup {Listen!NoStream}, starting : BOOLEAN, gen : Nat, dropped : Nat],
         hears' \in {"up", "marked", "deaf"}, Listen!Within',
         Listen!Honest(r, g, lis'), \A h \in Listen!Gens \ {g} : Listen!Honest(seg[h], h, lis'),
         r.at = "loading" => \A h \in Listen!Gens \ {g} : seg[h].at # "loading"
  PROVE  Listen!IInv'
<1>1. Listen!TypeOK'
  BY DEF Listen!IInv, Listen!TypeOK
<1>2. seg'[g] = r /\ \A h \in Listen!Gens \ {g} : seg'[h] = seg[h]
  BY DEF Listen!IInv, Listen!TypeOK
<1>3. Listen!AllHonest' /\ Listen!OneLoads'
  BY <1>2 DEF Listen!AllHonest, Listen!OneLoads, Listen!InSeg, Listen!IInv
<1> QED BY <1>1, <1>3 DEF Listen!IInv

\* A stop: what is installed is taken to its end, and a start that loads is invalidated.
LEMMA ListenQuitHonest ==
  ASSUME Listen!TypeOK, NEW g \in Listen!Gens, Listen!Honest(seg[g], g, lis), g = lis.gen,
         NEW at \in {"finalizing", "closed"}
  PROVE  /\ Listen!Quit(seg[g], at) \in Listen!SegmentType /\ Listen!Honest(Listen!Quit(seg[g], at), g, Listen!Stopped)
         /\ Listen!Quit(seg[g], at).at = "loading" => seg[g].at = "loading"
<1> DEFINE s == seg[g]
           a == IF s.at = "installed" THEN at ELSE s.at
           k == IF s.timer = "armed" THEN "off" ELSE s.timer
<1>1. s \in Listen!SegmentType /\ lis.dropped \in Nat /\ lis.gen \in Nat
  BY ListenFields
<1>2. /\ a \in {"none", "loading", "installed", "finalizing", "closed"}
      /\ k \in {"off", "armed", "fired"}
  BY <1>1 DEF Listen!SegmentType
<1>3. Listen!Quit(s, at) = [s EXCEPT !.at = a, !.asked = TRUE, !.timer = k, !.told = lis.dropped]
  BY DEF Listen!Quit
<1>4. a # "installed" /\ (a = s.at \/ (s.at = "installed" /\ a = at))
  OBVIOUS
<1> HIDE DEF a, k, s
<1>5. /\ Listen!Quit(s, at) \in Listen!SegmentType /\ Listen!Quit(s, at).at = a /\ Listen!Quit(s, at).asked
      /\ Listen!Quit(s, at).told = lis.dropped /\ Listen!Quit(s, at).lost = s.lost /\ Listen!Quit(s, at).ends = s.ends
  BY <1>1, <1>2, <1>3 DEF Listen!SegmentType
<1>6. /\ Listen!Stopped.gen = lis.gen + 1 /\ Listen!Stopped.stream = Listen!NoStream
      /\ Listen!Stopped.starting = lis.starting
  BY DEF Listen!Stopped, Listen!TypeOK
<1>7. Listen!Honest(Listen!Quit(s, at), g, Listen!Stopped)
  <2>1. Listen!Honest(s, g, lis) /\ g # Listen!NoStream /\ g < lis.gen + 1 /\ ~(g < lis.gen)
    BY <1>1 DEF s, Listen!NoStream, Listen!Gens
  <2>2. a = "finalizing" => s.at = "installed"
    BY <1>4, <2>1 DEF Listen!Honest
  <2>3. s.ends <= 1 /\ s.ends # 1
    BY <2>1 DEF Listen!Honest
  <2> QED BY <1>1, <1>4, <1>5, <1>6, <2>1, <2>2, <2>3 DEF Listen!Honest
<1> QED BY <1>4, <1>5, <1>7 DEF s

\* stopListen and closeListen take what is installed and what loads.
LEMMA ListenTakeKeeps ==
  ASSUME Listen!IInv, NEW at \in {"finalizing", "closed"}, Listen!Take(at), lis.gen < MaxGen, Listen!Bounded,
         hears' \in {"up", "marked", "deaf"}, hears' # "deaf" => lis.gen + 1 < MaxGen
  PROVE  Listen!IInv'
<1>0. Listen!TypeOK /\ Listen!AllHonest /\ Listen!OneLoads /\ Listen!Within
  BY DEF Listen!IInv
<1>1. lis.gen \in Listen!Gens /\ lis.stream \in {lis.gen, Listen!NoStream} /\ Listen!NoStream \notin Listen!Gens
  BY <1>0, ListenFields
     DEF Listen!AllHonest, Listen!Honest, Listen!Gens, Listen!NoStream, Listen!Bounded
<1> DEFINE r == Listen!Quit(seg[lis.gen], at)
<1>2. seg' = [seg EXCEPT ![lis.gen] = r]
  BY <1>0, <1>1 DEF Listen!Take, Listen!TypeOK
<1>3. /\ r \in Listen!SegmentType /\ Listen!Honest(r, lis.gen, Listen!Stopped)
      /\ r.at = "loading" => seg[lis.gen].at = "loading"
  BY <1>0, <1>1, ListenQuitHonest DEF Listen!AllHonest
<1>4. lis' = Listen!Stopped
  BY DEF Listen!Take
<1>5. /\ Listen!Stopped.gen = lis.gen + 1 /\ Listen!Stopped.stream = Listen!NoStream
      /\ Listen!Stopped.starting = lis.starting /\ Listen!Stopped.dropped = lis.dropped
      /\ Listen!Stopped \in [stream : Listen!Gens \cup {Listen!NoStream}, starting : BOOLEAN, gen : Nat, dropped : Nat]
  BY <1>0, ListenFields DEF Listen!Stopped, Listen!TypeOK
<1>6. ASSUME NEW h \in Listen!Gens \ {lis.gen} PROVE Listen!Honest(seg[h], h, Listen!Stopped)
  <2>1. Listen!Honest(seg[h], h, lis) /\ seg[h].at # "installed" /\ h # Listen!NoStream
    BY <1>0, <1>1 DEF Listen!AllHonest, Listen!Honest
  <2>2. h < lis.gen => h < lis.gen + 1
    BY <1>0, ListenFields
  <2> QED BY <1>5, <2>1, <2>2 DEF Listen!Honest
<1>7. Listen!Within'
  BY <1>0, <1>4, <1>5, ListenFields DEF Listen!Within, Listen!Bounded
<1>8. r.at = "loading" => \A h \in Listen!Gens \ {lis.gen} : seg[h].at # "loading"
  BY <1>0, <1>1, <1>3 DEF Listen!OneLoads, Listen!InSeg
<1> HIDE DEF r
<1> QED BY <1>1, <1>2, <1>3, <1>4, <1>5, <1>6, <1>7, <1>8, ListenOneChanges

\* Every step keeps the invariant.
LEMMA ListenStepInv ==
  ASSUME Listen!Bounded, Listen!IInv, Listen!Next
  PROVE  Listen!IInv'
<1>0. Listen!TypeOK /\ Listen!AllHonest /\ Listen!OneLoads /\ Listen!Within
  BY DEF Listen!IInv
<1>1. CASE Listen!beginListen
  <2> DEFINE r == [Listen!NoSegment EXCEPT !.at = "loading"]
  <2>1. /\ hears = "up" /\ hears' = hears /\ lis.stream = Listen!NoStream /\ ~lis.starting
        /\ lis' = [lis EXCEPT !.starting = TRUE] /\ seg' = [seg EXCEPT ![lis.gen] = r]
    BY <1>1 DEF Listen!beginListen
  <2>2. lis.gen \in Listen!Gens /\ lis.gen # Listen!NoStream
    BY <1>0, <2>1, ListenFields DEF Listen!Within, Listen!Gens, Listen!Bounded, Listen!NoStream
  <2>3. /\ lis'.stream = Listen!NoStream /\ lis'.starting /\ lis'.gen = lis.gen
        /\ lis'.dropped = lis.dropped
        /\ lis' \in [stream : Listen!Gens \cup {Listen!NoStream}, starting : BOOLEAN, gen : Nat, dropped : Nat]
    BY <1>0, <2>1 DEF Listen!TypeOK
  <2>4. r \in Listen!SegmentType /\ Listen!Honest(r, lis.gen, lis')
    <3>1. /\ r.at = "loading" /\ r.lost = 0 /\ r.told = 0 /\ r.ends = 0 /\ ~r.asked
      BY DEF Listen!NoSegment
    <3>2. r \in Listen!SegmentType
      BY DEF Listen!NoSegment, Listen!SegmentType
    <3> HIDE DEF r
    <3> QED BY <2>2, <2>3, <3>1, <3>2 DEF Listen!Honest
  <2>5. \A h \in Listen!Gens \ {lis.gen} : Listen!Honest(seg[h], h, lis') /\ seg[h].at # "loading"
    BY <1>0, <2>1, <2>3 DEF Listen!AllHonest, Listen!Honest
  <2>6. Listen!Within'
    BY <1>0, <2>1, <2>3 DEF Listen!Within
  <2> HIDE DEF r
  <2> QED BY <1>0, <2>1, <2>2, <2>3, <2>4, <2>5, <2>6, ListenOneChanges DEF Listen!TypeOK
<1>2. CASE Listen!feedASR
  <2> DEFINE g == lis.stream
             r == [seg[g] EXCEPT !.lost = seg[g].lost + 1]
  <2>1. /\ hears' = hears /\ lis.stream # Listen!NoStream /\ lis' = [lis EXCEPT !.dropped = lis.dropped + 1]
        /\ seg' = [seg EXCEPT ![g] = r] /\ g \in Listen!Gens
    BY <1>0, <1>2 DEF Listen!feedASR, Listen!TypeOK
  <2>2. /\ lis'.stream = g /\ lis'.starting = lis.starting /\ lis'.gen = lis.gen
        /\ lis'.dropped = lis.dropped + 1
        /\ lis' \in [stream : Listen!Gens \cup {Listen!NoStream}, starting : BOOLEAN, gen : Nat, dropped : Nat]
    BY <1>0, <2>1, ListenFields DEF Listen!TypeOK
  <2>3. /\ r \in Listen!SegmentType /\ r.at = seg[g].at /\ r.lost = seg[g].lost + 1
        /\ r.ends = seg[g].ends /\ r.told = seg[g].told /\ r.asked = seg[g].asked
    BY <1>0, <2>1, ListenFields DEF Listen!SegmentType
  <2>4. Listen!Honest(seg[g], g, lis) /\ seg[g].at = "installed"
    BY <1>0, <2>1 DEF Listen!AllHonest, Listen!Honest
  <2> HIDE DEF r
  <2>5. Listen!Honest(r, g, lis') /\ r.at # "loading"
    BY <2>2, <2>3, <2>4 DEF Listen!Honest
  <2>6. \A h \in Listen!Gens \ {g} : Listen!Honest(seg[h], h, lis')
    BY <1>0, <2>2 DEF Listen!AllHonest, Listen!Honest
  <2>7. Listen!Within'
    BY <1>0, <2>1, <2>2 DEF Listen!Within
  <2> QED BY <1>0, <2>1, <2>2, <2>3, <2>5, <2>6, <2>7, ListenOneChanges DEF Listen!TypeOK
<1>3. CASE Listen!stopListen
  <2>1. lis.gen + 1 < MaxGen /\ lis.gen < MaxGen
    BY <1>0, <1>3, ListenFields DEF Listen!stopListen, Listen!Bounded
  <2> QED BY <1>0, <1>3, <2>1, ListenTakeKeeps DEF Listen!stopListen, Listen!TypeOK
<1>4. CASE Listen!closeListen
  BY <1>0, <1>4, ListenTakeKeeps DEF Listen!closeListen, Listen!Within
<1>5. CASE Listen!Mark
  BY <1>0, <1>5 DEF Listen!Mark, Listen!IInv, Listen!TypeOK, Listen!AllHonest, Listen!OneLoads,
     Listen!InSeg, Listen!Within
<1>6. ASSUME NEW g \in Listen!Gens, Listen!finishListen(g) PROVE Listen!IInv'
  <2>1. seg[g].at = "loading" /\ hears' = hears /\ Listen!Honest(seg[g], g, lis) /\ seg[g] \in Listen!SegmentType
        /\ \A h \in Listen!Gens \ {g} : seg[h].at # "loading"
    BY <1>0, <1>6, ListenFields
       DEF Listen!finishListen, Listen!InSeg, Listen!AllHonest, Listen!OneLoads
  <2>2. CASE lis' = [lis EXCEPT !.starting = FALSE] /\ Listen!Be(g, "closed")
    <3> DEFINE r == [seg[g] EXCEPT !.at = "closed"]
    <3>1. /\ r \in Listen!SegmentType /\ r.at = "closed" /\ r.ends = seg[g].ends /\ r.asked = seg[g].asked
          /\ r.told = seg[g].told /\ r.lost = seg[g].lost /\ seg' = [seg EXCEPT ![g] = r]
      BY <1>0, <2>1, <2>2 DEF Listen!Be, Listen!SegmentType, Listen!TypeOK
    <3>2. /\ lis'.stream = lis.stream /\ lis'.gen = lis.gen /\ lis'.dropped = lis.dropped
          /\ lis' \in [stream : Listen!Gens \cup {Listen!NoStream}, starting : BOOLEAN, gen : Nat, dropped : Nat]
      BY <1>0, <2>2 DEF Listen!TypeOK
    <3> HIDE DEF r
    <3>3. Listen!Honest(r, g, lis')
      BY <2>1, <3>1, <3>2 DEF Listen!Honest
    <3>4. \A h \in Listen!Gens \ {g} : Listen!Honest(seg[h], h, lis')
      BY <1>0, <2>1, <3>2 DEF Listen!AllHonest, Listen!Honest
    <3>5. Listen!Within'
      BY <1>0, <2>1, <3>2 DEF Listen!Within
    <3> QED BY <1>0, <2>1, <3>1, <3>2, <3>3, <3>4, <3>5, ListenOneChanges DEF Listen!TypeOK
  <2>3. CASE /\ Listen!MayInstall(g) /\ lis' = [lis EXCEPT !.starting = FALSE, !.stream = g, !.dropped = 0]
             /\ seg' = [seg EXCEPT ![g].at = "installed", ![g].timer = "armed"]
    <3> DEFINE r == [seg[g] EXCEPT !.at = "installed", !.timer = "armed"]
    <3>1. /\ r \in Listen!SegmentType /\ r.at = "installed" /\ r.ends = seg[g].ends
          /\ r.asked = seg[g].asked /\ r.told = seg[g].told /\ r.lost = seg[g].lost
      BY <2>1 DEF Listen!SegmentType
    <3>2. seg' = [seg EXCEPT ![g] = r]
      BY <1>0, <2>3 DEF Listen!TypeOK
    <3>3. /\ lis'.stream = g /\ lis'.gen = lis.gen /\ lis'.dropped = 0 /\ lis.gen = g
          /\ lis' \in [stream : Listen!Gens \cup {Listen!NoStream}, starting : BOOLEAN, gen : Nat, dropped : Nat]
          /\ hears # "deaf"
      BY <1>0, <2>3 DEF Listen!TypeOK, Listen!MayInstall, Listen!isClosed
    <3> HIDE DEF r
    <3>4. Listen!Honest(r, g, lis') /\ r.at # "loading"
      BY <2>1, <3>1, <3>3 DEF Listen!Honest
    <3>5. \A h \in Listen!Gens \ {g} : Listen!Honest(seg[h], h, lis')
      <4> SUFFICES ASSUME NEW h \in Listen!Gens \ {g} PROVE Listen!Honest(seg[h], h, lis')
        OBVIOUS
      <4>1. Listen!Honest(seg[h], h, lis) /\ seg[h].at # "installed"
        BY <1>0, <3>3 DEF Listen!AllHonest, Listen!Honest
      <4> QED BY <2>1, <3>3, <4>1 DEF Listen!Honest
    <3>6. Listen!Within'
      BY <1>0, <2>1, <3>3 DEF Listen!Within
    <3> QED BY <1>0, <2>1, <3>1, <3>2, <3>3, <3>4, <3>5, <3>6, ListenOneChanges
               DEF Listen!TypeOK
  <2> QED BY <1>6, <2>2, <2>3 DEF Listen!finishListen
<1>7. ASSUME NEW g \in Listen!Gens, NEW timer \in {"off", "fired"}, UNCHANGED <<hears, lis>>,
             seg' = [seg EXCEPT ![g].timer = timer]
      PROVE  Listen!IInv'
  <2> DEFINE r == [seg[g] EXCEPT !.timer = timer]
  <2>1. /\ r \in Listen!SegmentType /\ r.at = seg[g].at /\ r.ends = seg[g].ends /\ r.asked = seg[g].asked
        /\ r.told = seg[g].told /\ r.lost = seg[g].lost /\ seg' = [seg EXCEPT ![g] = r]
    BY <1>0, <1>7, ListenFields DEF Listen!SegmentType, Listen!TypeOK
  <2> HIDE DEF r
  <2>2. Listen!Honest(r, g, lis') /\ \A h \in Listen!Gens \ {g} : Listen!Honest(seg[h], h, lis')
    BY <1>0, <1>7, <2>1 DEF Listen!AllHonest, Listen!Honest
  <2>3. r.at = "loading" => \A h \in Listen!Gens \ {g} : seg[h].at # "loading"
    BY <1>0, <2>1 DEF Listen!OneLoads, Listen!InSeg
  <2> QED BY <1>0, <1>7, <2>1, <2>2, <2>3, ListenOneChanges DEF Listen!TypeOK, Listen!Within
<1>8. ASSUME NEW g \in Listen!Gens, Listen!timedStop(g) PROVE Listen!IInv'
  <2>1. CASE lis.stream = g
    <3> DEFINE r == [Listen!Quit(seg[g], "finalizing") EXCEPT !.timer = "off"]
    <3>1. /\ lis.gen < MaxGen - 1 /\ lis' = Listen!Stopped /\ hears' = hears
          /\ seg' = [seg EXCEPT ![g] = r]
      BY <1>0, <1>8, <2>1 DEF Listen!timedStop, Listen!TypeOK
    <3>2. Listen!Honest(seg[g], g, lis) /\ g = lis.gen /\ g # Listen!NoStream /\ seg[g].at = "installed"
      BY <1>0, <2>1 DEF Listen!AllHonest, Listen!Honest, Listen!Gens, Listen!NoStream
    <3>3. /\ Listen!Quit(seg[g], "finalizing") \in Listen!SegmentType
          /\ Listen!Honest(Listen!Quit(seg[g], "finalizing"), g, Listen!Stopped)
          /\ Listen!Quit(seg[g], "finalizing").at = "loading" => seg[g].at = "loading"
      BY <1>0, <3>2, ListenQuitHonest
    <3>4. r \in Listen!SegmentType /\ Listen!Honest(r, g, Listen!Stopped) /\ r.at # "loading"
      BY <3>2, <3>3 DEF Listen!SegmentType, Listen!Honest
    <3>5. /\ Listen!Stopped.gen = lis.gen + 1 /\ Listen!Stopped.stream = Listen!NoStream
          /\ Listen!Stopped.starting = lis.starting /\ Listen!Stopped.dropped = lis.dropped
          /\ Listen!Stopped \in [stream : Listen!Gens \cup {Listen!NoStream}, starting : BOOLEAN, gen : Nat, dropped : Nat]
      BY <1>0, ListenFields DEF Listen!Stopped, Listen!TypeOK
    <3>6. ASSUME NEW h \in Listen!Gens \ {g} PROVE Listen!Honest(seg[h], h, Listen!Stopped)
      <4>1. Listen!Honest(seg[h], h, lis) /\ seg[h].at # "installed" /\ h # Listen!NoStream
        BY <1>0, <2>1 DEF Listen!AllHonest, Listen!Honest, Listen!Gens, Listen!NoStream
      <4>2. h < lis.gen => h < lis.gen + 1
        BY <1>0, ListenFields
      <4> QED BY <3>5, <4>1, <4>2 DEF Listen!Honest
    <3>7. Listen!Within'
      BY <1>0, <3>1, <3>5, ListenFields DEF Listen!Within, Listen!Bounded
    <3> HIDE DEF r
    <3> QED BY <1>0, <3>1, <3>4, <3>5, <3>6, <3>7, ListenOneChanges DEF Listen!TypeOK
  <2>2. CASE lis.stream # g
    BY <1>7, <1>8, <2>2 DEF Listen!timedStop
  <2> QED BY <2>1, <2>2
<1>9. ASSUME NEW g \in Listen!Gens, Listen!finalizeSegment(g) PROVE Listen!IInv'
  <2> DEFINE e == IF Listen!isClosed THEN seg[g].ends ELSE seg[g].ends + 1
             r == [seg[g] EXCEPT !.at = "closed", !.ends = e]
  <2>1. /\ seg[g].at = "finalizing" /\ UNCHANGED <<hears, lis>> /\ seg' = [seg EXCEPT ![g] = r]
        /\ Listen!Honest(seg[g], g, lis) /\ seg[g] \in Listen!SegmentType
    BY <1>0, <1>9, ListenFields
       DEF Listen!finalizeSegment, Listen!InSeg, Listen!TypeOK, Listen!AllHonest
  <2>2. e \in {0, 1} /\ e \in Nat
    BY <2>1 DEF Listen!Honest, Listen!SegmentType
  <2> HIDE DEF e
  <2>3. /\ r \in Listen!SegmentType /\ r.at = "closed" /\ r.ends = e /\ r.asked = seg[g].asked
        /\ r.told = seg[g].told /\ r.lost = seg[g].lost
    BY <2>1, <2>2 DEF Listen!SegmentType
  <2> HIDE DEF r
  <2>4. Listen!Honest(r, g, lis') /\ r.at # "loading" /\ \A h \in Listen!Gens \ {g} : Listen!Honest(seg[h], h, lis')
    BY <1>0, <2>1, <2>2, <2>3 DEF Listen!AllHonest, Listen!Honest
  <2> QED BY <1>0, <2>1, <2>3, <2>4, ListenOneChanges DEF Listen!TypeOK, Listen!Within
<1>10. ASSUME NEW g \in Listen!Gens, Listen!Fire(g) PROVE Listen!IInv'
  BY <1>7, <1>10 DEF Listen!Fire
<1> QED BY <1>1, <1>2, <1>3, <1>4, <1>5, <1>6, <1>8, <1>9, <1>10 DEF Listen!Next

\* What listens was not asked to stop, every other recognizer is closed or about to be, and a
\* segment ends once with the frames it lost (beginListen, finishListen and finalizeSegment of
\* internal/rtc/listen.go).
LEMMA ListenHonest == ASSUME Listen!Bounded PROVE Listen!IInv => Listen!SegmentsHonest
<1> SUFFICES ASSUME Listen!IInv PROVE Listen!SegmentsHonest
  OBVIOUS
<1>1. \A g \in Listen!Gens : /\ Listen!InSeg(g, "installed") <=> lis.stream = g
                             /\ Listen!InSeg(g, "installed") => ~seg[g].asked
                             /\ seg[g].ends <= 1
                             /\ seg[g].ends = 1 => seg[g].told = seg[g].lost
  BY ListenFields DEF Listen!IInv, Listen!AllHonest, Listen!Honest, Listen!InSeg
<1> QED BY <1>1 DEF Listen!SegmentsHonest, Listen!IInv, Listen!Within

-----------------------------------------------------------------------------
(* SpokenReplies: what plays is the latest reply that nobody has cancelled.    *)

\* What the fields of the state are.
LEMMA SpeakFields ==
  ASSUME Speak!TypeOK
  PROVE  /\ say.gen \in Nat /\ say.last \in Nat /\ out.epoch \in Nat /\ out.epoch + 1 \in Nat
         /\ say.gen + 1 \in Nat /\ say.gen + 1 > say.gen /\ out.epoch + 1 > out.epoch
         /\ \A k \in Speaks : speech[k] \in Speak!RequestType /\ speech[k].gen \in Nat
                             /\ speech[k].epoch \in Nat /\ speech[k].cancelled \in BOOLEAN
BY DEF Speak!TypeOK, Speak!RequestType

\* A request moves on.
LEMMA SpeakMoved ==
  ASSUME Speak!TypeOK, NEW k \in Speaks, NEW at \in {"none", "synth", "playing", "drained", "ended"},
         speech' = [speech EXCEPT ![k] = [speech[k] EXCEPT !.at = at]]
  PROVE  /\ speech' \in [Speaks -> Speak!RequestType] /\ speech'[k].at = at
         /\ \A j \in Speaks : /\ j # k => speech'[j] = speech[j]
                              /\ speech'[j].gen = speech[j].gen
                              /\ speech'[j].epoch = speech[j].epoch
                              /\ speech'[j].cancelled = speech[j].cancelled
<1> DEFINE t == [speech[k] EXCEPT !.at = at]
<1>1. /\ t \in Speak!RequestType /\ t.at = at /\ t.gen = speech[k].gen /\ t.epoch = speech[k].epoch
      /\ t.cancelled = speech[k].cancelled
  BY SpeakFields DEF Speak!RequestType
<1>2. speech' = [speech EXCEPT ![k] = t]
  OBVIOUS
<1> HIDE DEF t
<1> QED BY <1>1, <1>2 DEF Speak!TypeOK

\* It holds to begin with.
LEMMA SpeakInitInv == ASSUME Speak!Named PROVE Speak!Init => Speak!IInv
BY DEF Speak!Named, Speak!Init, Speak!IInv, Speak!TypeOK, Speak!RequestType, Speak!ControlType,
   Speak!Generations, Speak!Epochs, Speak!Playing,
       Speak!Cancelled, Speak!SpeechInOrder, Speak!None

\* cancelSpeak leaves no reply that plays uncancelled, and takes a generation of its own.
LEMMA SpeakCancelKeeps ==
  ASSUME Speak!Named, Speak!IInv, Speak!cancelSpeak, UNCHANGED out, ctl'.overtaken = ctl.overtaken,
         Speak!Cancelled', talks' \in {"up", "marked", "cancelled", "quiet", "over"},
         ctl' \in Speak!ControlType
  PROVE  Speak!IInv'
<1>0. Speak!TypeOK /\ Speak!Generations /\ Speak!Epochs /\ Speak!Playing /\ Speak!SpeechInOrder
  BY DEF Speak!IInv
<1>1. /\ say' = [gen |-> say.gen + 1, cancel |-> Speak!None, last |-> say.gen + 1]
      /\ speech' \in [Speaks -> Speak!RequestType]
      /\ \A k \in Speaks : /\ speech'[k].at = speech[k].at /\ speech'[k].gen = speech[k].gen
                           /\ speech'[k].epoch = speech[k].epoch
                           /\ speech[k].cancelled \/ say.cancel = k => speech'[k].cancelled
  <2>1. CASE say.cancel = Speak!None
    BY <1>0, <2>1 DEF Speak!cancelSpeak, Speak!TypeOK, Speak!Named
  <2>2. CASE say.cancel # Speak!None
    <3>1. say.cancel \in Speaks /\ speech[say.cancel] \in Speak!RequestType
      BY <1>0, <2>2 DEF Speak!TypeOK
    <3> DEFINE t == [speech[say.cancel] EXCEPT !.cancelled = TRUE]
    <3>2. /\ t \in Speak!RequestType /\ t.cancelled /\ t.at = speech[say.cancel].at
          /\ t.gen = speech[say.cancel].gen /\ t.epoch = speech[say.cancel].epoch
      BY <3>1 DEF Speak!RequestType
    <3>3. speech' = [speech EXCEPT ![say.cancel] = t]
      BY <2>2 DEF Speak!cancelSpeak, Speak!CancelOf
    <3>4. say' = [gen |-> say.gen + 1, cancel |-> Speak!None, last |-> say.gen + 1]
      BY DEF Speak!cancelSpeak
    <3> HIDE DEF t
    <3> QED BY <1>0, <3>1, <3>2, <3>3, <3>4 DEF Speak!TypeOK
  <2> QED BY <2>1, <2>2
<1>3. Speak!TypeOK'
  BY <1>0, <1>1 DEF Speak!TypeOK
<1>4. say'.gen = say.gen + 1 /\ say'.last = say.gen + 1
  BY <1>1
<1>5. Speak!Generations' /\ Speak!Epochs'
  BY <1>0, <1>1, <1>4, SpeakFields DEF Speak!Generations, Speak!Epochs
<1>6. \A k \in Speaks : out.source = k => speech'[k].cancelled
  BY <1>0, <1>1 DEF Speak!Playing
<1>7. Speak!Playing' /\ Speak!SpeechInOrder'
  BY <1>0, <1>1, <1>6 DEF Speak!Playing, Speak!SpeechInOrder
<1> QED BY <1>3, <1>5, <1>7 DEF Speak!IInv

\* The steps of a request.
LEMMA SpeakSpeakKeeps ==
  ASSUME Speak!Named, Speak!IInv, NEW k \in Speaks,
         Speak!speakStream(k) \/ Speak!commitSpeak(k) \/ Speak!Drained(k) \/ Speak!runSpeak(k)
  PROVE  Speak!IInv'
<1>0. Speak!TypeOK /\ Speak!Generations /\ Speak!Epochs /\ Speak!Playing /\ Speak!Cancelled /\ Speak!SpeechInOrder
  BY DEF Speak!IInv
<1>1. CASE Speak!speakStream(k)
  <2>1. /\ speech[k].at = "none" /\ UNCHANGED <<talks, ctl, out>>
        /\ say' = [say EXCEPT !.gen = say.gen + 1]
        /\ speech' = [speech EXCEPT ![k] = [speech[k] EXCEPT !.at = "synth", !.gen = say.gen + 1]]
    BY <1>0, <1>1 DEF Speak!speakStream, Speak!TypeOK
  <2>2. Speak!TypeOK'
    BY <1>0, <2>1, SpeakFields DEF Speak!TypeOK, Speak!RequestType
  <2>3. out.source # k
    BY <1>0, <2>1 DEF Speak!Playing
  <2>4. /\ say'.gen = say.gen + 1 /\ say'.last = say.last /\ say'.cancel = say.cancel
        /\ speech'[k].at = "synth" /\ speech'[k].gen = say.gen + 1
        /\ speech'[k].epoch = speech[k].epoch /\ speech'[k].cancelled = speech[k].cancelled
        /\ \A j \in Speaks \ {k} : speech'[j] = speech[j]
    BY <1>0, <2>1, SpeakFields DEF Speak!TypeOK, Speak!RequestType
  <2>5. Speak!Generations'
    BY <1>0, <2>4, SpeakFields DEF Speak!Generations
  <2>6. Speak!Epochs'
    BY <1>0, <2>1, <2>4 DEF Speak!Epochs
  <2>7. Speak!Playing' /\ Speak!Cancelled' /\ Speak!SpeechInOrder'
    BY <1>0, <2>1, <2>3, <2>4 DEF Speak!Playing, Speak!Cancelled, Speak!SpeechInOrder
  <2> QED BY <2>2, <2>5, <2>6, <2>7 DEF Speak!IInv
<1>2. CASE Speak!commitSpeak(k)
  <2>1. CASE Speak!Spoken(k, "ended") /\ UNCHANGED <<say, out>>
    <3>1. /\ speech[k].at = "synth" /\ UNCHANGED <<talks, ctl, out, say>>
          /\ speech' = [speech EXCEPT ![k] = [speech[k] EXCEPT !.at = "ended"]]
      BY <1>0, <1>2, <2>1 DEF Speak!commitSpeak, Speak!Spoken, Speak!TypeOK
    <3>2. /\ speech' \in [Speaks -> Speak!RequestType] /\ speech'[k].at = "ended"
          /\ \A j \in Speaks : /\ j # k => speech'[j] = speech[j]
                               /\ speech'[j].gen = speech[j].gen
                               /\ speech'[j].epoch = speech[j].epoch
                               /\ speech'[j].cancelled = speech[j].cancelled
      BY <1>0, <3>1, SpeakMoved
    <3>3. Speak!TypeOK'
      BY <1>0, <3>1, <3>2 DEF Speak!TypeOK
    <3>4. Speak!Generations'
      BY <1>0, <3>1, <3>2 DEF Speak!Generations
    <3>5. Speak!Epochs'
      BY <1>0, <3>1, <3>2 DEF Speak!Epochs
    <3>6. Speak!Playing' /\ Speak!Cancelled' /\ Speak!SpeechInOrder'
      BY <1>0, <3>1, <3>2 DEF Speak!Playing, Speak!Cancelled, Speak!SpeechInOrder
    <3> QED BY <3>3, <3>4, <3>5, <3>6 DEF Speak!IInv
  <2>2. CASE say.gen = speech[k].gen /\ out' = [source |-> k, epoch |-> out.epoch + 1]
    <3>1. /\ speech[k].at = "synth" /\ UNCHANGED <<talks, ctl>>
          /\ say' = [say EXCEPT !.cancel = k]
          /\ speech' = [Speak!Superseding(k) EXCEPT ![k].at = "playing", ![k].epoch = out.epoch + 1,
                                              ![k].cancelled = talks \notin {"up", "marked"}]
      BY <1>0, <1>2, <2>2 DEF Speak!commitSpeak, Speak!Spoken, Speak!TypeOK
    <3> DEFINE c == talks \notin {"up", "marked"}
               r(j) == IF say.cancel = j THEN [speech[j] EXCEPT !.cancelled = TRUE] ELSE speech[j]
               t == [r(k) EXCEPT !.at = "playing", !.epoch = out.epoch + 1, !.cancelled = c]
    <3>2. \A j \in Speaks :
            /\ r(j) \in Speak!RequestType /\ r(j).at = speech[j].at /\ r(j).gen = speech[j].gen
            /\ r(j).epoch = speech[j].epoch
            /\ speech[j].cancelled \/ say.cancel = j => r(j).cancelled
      BY <1>0, SpeakFields DEF Speak!RequestType
    <3>3. Speak!Superseding(k) = [j \in Speaks |-> r(j)]
      <4>1. CASE say.cancel = Speak!None
        BY <1>0, <4>1 DEF Speak!Superseding, Speak!TypeOK, Speak!Named
      <4>2. CASE say.cancel \in Speaks
        BY <1>0, <4>2 DEF Speak!Superseding, Speak!CancelOf, Speak!TypeOK, Speak!Named
      <4> QED BY <1>0, <4>1, <4>2 DEF Speak!TypeOK
    <3>4. c \in BOOLEAN
      OBVIOUS
    <3> HIDE DEF r, c
    <3>5. /\ t \in Speak!RequestType /\ t.at = "playing" /\ t.gen = speech[k].gen
          /\ t.epoch = out.epoch + 1 /\ t.cancelled = c
      <4>1. r(k) \in Speak!RequestType /\ r(k).gen = speech[k].gen /\ out.epoch + 1 \in Nat
        BY <1>0, <3>2, SpeakFields
      <4> QED BY <3>4, <4>1 DEF Speak!RequestType
    <3>6. speech' = [[j \in Speaks |-> r(j)] EXCEPT ![k] = t]
      BY <3>1, <3>3 DEF c
    <3> HIDE DEF t
    <3>7. /\ speech' \in [Speaks -> Speak!RequestType] /\ speech'[k] = t
          /\ \A j \in Speaks \ {k} : speech'[j] = r(j)
      BY <3>2, <3>5, <3>6
    <3>8. Speak!TypeOK'
      BY <1>0, <2>2, <3>1, <3>7, SpeakFields DEF Speak!TypeOK
    <3>9. /\ speech'[k].at = "playing" /\ speech'[k].gen = say.gen
          /\ speech'[k].epoch = out.epoch + 1
          /\ \A j \in Speaks : speech'[j].gen = speech[j].gen
          /\ \A j \in Speaks \ {k} :
               /\ speech'[j].at = speech[j].at /\ speech'[j].epoch = speech[j].epoch
               /\ speech[j].cancelled \/ say.cancel = j => speech'[j].cancelled
      BY <2>2, <3>2, <3>5, <3>7
    <3>10. say'.gen = say.gen /\ say'.last = say.last /\ say'.cancel = k
           /\ out'.source = k /\ out'.epoch = out.epoch + 1
      BY <1>0, <2>2, <3>1 DEF Speak!TypeOK
    <3>11. Speak!Generations' /\ Speak!Epochs' /\ Speak!Playing'
      <4>1. Speak!Generations'
        BY <1>0, <2>2, <3>1, <3>9, <3>10, SpeakFields DEF Speak!Generations, Speak!TypeOK
      <4>2. Speak!Epochs'
        <5>1. \A j \in Speaks : speech[j].epoch <= out.epoch /\ speech[j].epoch \in Nat
          BY <1>0, SpeakFields DEF Speak!Epochs
        <5>2. out.epoch \in Nat
          BY <1>0, SpeakFields
        <5>3. \A j \in Speaks \ {k} : speech'[j].epoch <= out.epoch /\ speech'[j].epoch \in Nat
          BY <3>9, <5>1
        <5> QED BY <3>9, <3>10, <5>2, <5>3 DEF Speak!Epochs
      <4>3. Speak!Playing'
        BY <3>9, <3>10 DEF Speak!Playing
      <4> QED BY <4>1, <4>2, <4>3
    <3>12. Speak!Cancelled'
      <4>1. speech'[k].cancelled = (talks \notin {"up", "marked"})
        BY <3>5, <3>7 DEF c
      <4> QED BY <1>0, <3>1, <3>9, <4>1 DEF Speak!Cancelled
    <3>13. Speak!SpeechInOrder'
      <4>1. say.gen > say.last /\ \A j \in Speaks : speech[j].gen <= say.gen
        BY <1>0, <2>2, <3>1 DEF Speak!TypeOK, Speak!Generations
      <4>2. ASSUME NEW j \in Speaks, speech'[j].at = "playing", ~speech'[j].cancelled
            PROVE  j = k \/ j \in ctl.overtaken
        BY <1>0, <3>9, <4>2 DEF Speak!SpeechInOrder, Speak!Playing
      <4> QED BY <3>1, <3>9, <3>10, <4>1, <4>2 DEF Speak!SpeechInOrder
    <3> QED BY <3>8, <3>11, <3>12, <3>13 DEF Speak!IInv
  <2> QED BY <1>2, <2>1, <2>2 DEF Speak!commitSpeak
<1>3. CASE Speak!Drained(k)
  <2>1. /\ speech[k].at = "playing" /\ UNCHANGED <<talks, ctl, out, say>>
        /\ speech' = [speech EXCEPT ![k] = [speech[k] EXCEPT !.at = "drained"]]
    BY <1>0, <1>3 DEF Speak!Drained, Speak!Spoken, Speak!TypeOK
  <2>2. /\ speech' \in [Speaks -> Speak!RequestType] /\ speech'[k].at = "drained"
        /\ \A j \in Speaks : /\ j # k => speech'[j] = speech[j]
                             /\ speech'[j].gen = speech[j].gen
                             /\ speech'[j].epoch = speech[j].epoch
                             /\ speech'[j].cancelled = speech[j].cancelled
    BY <1>0, <2>1, SpeakMoved
  <2>3. Speak!TypeOK' /\ Speak!Generations'
    BY <1>0, <2>1, <2>2 DEF Speak!TypeOK, Speak!Generations
  <2>4. Speak!Epochs'
    BY <1>0, <2>1, <2>2 DEF Speak!Epochs
  <2>5. Speak!Playing' /\ Speak!Cancelled' /\ Speak!SpeechInOrder'
    BY <1>0, <2>1, <2>2 DEF Speak!Playing, Speak!Cancelled, Speak!SpeechInOrder
  <2> QED BY <2>3, <2>4, <2>5 DEF Speak!IInv
<1>4. CASE Speak!runSpeak(k)
  <2>1. /\ speech[k].at \in {"playing", "drained"} /\ UNCHANGED <<talks, ctl, say>>
        /\ speech' = [speech EXCEPT ![k] = [speech[k] EXCEPT !.at = "ended"]]
        /\ out' = IF out.epoch = speech[k].epoch THEN [out EXCEPT !.source = Speak!None] ELSE out
    BY <1>0, <1>4 DEF Speak!runSpeak, Speak!Spoken, Speak!halt, Speak!Current, Speak!TypeOK
  <2>2. /\ speech' \in [Speaks -> Speak!RequestType] /\ speech'[k].at = "ended"
         /\ \A j \in Speaks : /\ j # k => speech'[j] = speech[j]
                              /\ speech'[j].gen = speech[j].gen
                              /\ speech'[j].epoch = speech[j].epoch
                              /\ speech'[j].cancelled = speech[j].cancelled
    BY <1>0, <2>1, SpeakMoved
  <2>3. /\ out'.epoch = out.epoch /\ out'.source \in {out.source, Speak!None}
        /\ out'.source = Speak!None \/ out' = out
        /\ out.source \in Speaks \ {k} => out' = out
    BY <1>0, <2>1 DEF Speak!TypeOK, Speak!Epochs, Speak!Named
  <2>4. Speak!TypeOK'
    BY <1>0, <2>1, <2>2 DEF Speak!TypeOK
  <2>5. Speak!Generations'
    BY <1>0, <2>1, <2>2 DEF Speak!Generations
  <2>6. Speak!Epochs'
    BY <1>0, <2>1, <2>3, <2>2 DEF Speak!Epochs
  <2>7. Speak!Cancelled'
    BY <1>0, <2>1, <2>2 DEF Speak!Cancelled
  <2>8. \A j \in Speaks : out'.source = j => out.source = j
    BY <2>3 DEF Speak!Named
  <2>9. /\ speech'[k].at = "ended" /\ speech'[k].gen = speech[k].gen
        /\ speech'[k].cancelled = speech[k].cancelled
        /\ \A j \in Speaks \ {k} : speech'[j] = speech[j]
    BY <2>2
  <2>10. Speak!Playing'
    BY <1>0, <2>1, <2>8, <2>9 DEF Speak!Playing
  <2>11. Speak!SpeechInOrder'
    <3>1. \A j \in Speaks : /\ speech'[j].at \in {"playing", "drained"} => speech'[j].at = speech[j].at
                            /\ speech'[j].gen = speech[j].gen
                            /\ speech'[j].cancelled = speech[j].cancelled
      BY <2>9
    <3>2. ASSUME NEW j \in Speaks, out'.source = j, ~speech'[j].cancelled
          PROVE  /\ speech'[j].gen > say'.last
                 /\ \A i \in Speaks : speech'[i].at \in {"playing", "drained"} =>
                                        speech'[i].gen <= speech'[j].gen
      <4>1. /\ speech[j].gen > say.last
            /\ \A i \in Speaks : speech[i].at \in {"playing", "drained"} =>
                                   speech[i].gen <= speech[j].gen
        BY <1>0, <2>8, <3>1, <3>2 DEF Speak!SpeechInOrder
      <4> QED BY <2>1, <3>1, <4>1
    <3>3. ASSUME NEW j \in Speaks, speech'[j].at = "playing", ~speech'[j].cancelled
          PROVE  out'.source = j \/ j \in ctl'.overtaken
      <4>1. j # k /\ (out.source = j \/ j \in ctl.overtaken)
        BY <1>0, <2>9, <3>1, <3>3 DEF Speak!SpeechInOrder
      <4> QED BY <2>1, <2>3, <4>1
    <3> QED BY <3>2, <3>3 DEF Speak!SpeechInOrder
  <2> QED BY <2>4, <2>6, <2>7, <2>10, <2>11, <2>5 DEF Speak!IInv
<1> QED BY <1>1, <1>2, <1>3, <1>4

\* The output changes its source under a control message, or falls silent.
LEMMA SpeakSourceKeeps ==
  ASSUME Speak!Named, Speak!IInv, UNCHANGED <<talks, say, speech>>,
         ctl' \in {[ctl EXCEPT !.at = Speak!None, !.overtaken = ctl.overtaken \cup Speak!Overtaken],
                   [ctl EXCEPT !.at = Speak!None]},
         \/ out' = out
         \/ /\ ctl'.overtaken = ctl.overtaken \cup Speak!Overtaken
            /\ out' \in {[out EXCEPT !.source = Speak!None], [source |-> "mode", epoch |-> out.epoch + 1]}
  PROVE  Speak!IInv'
<1>0. Speak!TypeOK /\ Speak!Generations /\ Speak!Epochs /\ Speak!Playing /\ Speak!Cancelled /\ Speak!SpeechInOrder
  BY DEF Speak!IInv
<1>1. Speak!Overtaken \subseteq Speaks
  BY DEF Speak!Overtaken
<1>2. Speak!TypeOK' /\ Speak!Generations'
  <2>1. ctl' \in Speak!ControlType
    <3>1. (ctl.overtaken \cup Speak!Overtaken) \subseteq Speaks
      BY <1>0, <1>1 DEF Speak!TypeOK, Speak!ControlType
    <3> DEFINE both == ctl.overtaken \cup Speak!Overtaken
    <3>2. both \in SUBSET Speaks /\ Speak!None \in {Speak!None, "start", "stop", "interrupt"}
      BY <3>1
    <3>3. ctl' \in {[ctl EXCEPT !.at = Speak!None, !.overtaken = both], [ctl EXCEPT !.at = Speak!None]}
      OBVIOUS
    <3> HIDE DEF both
    <3> QED BY <1>0, <3>2, <3>3 DEF Speak!TypeOK, Speak!ControlType
  <2>2. out' \in [source : Speaks \cup {Speak!None, "mode"}, epoch : Nat]
    BY <1>0, SpeakFields DEF Speak!TypeOK
  <2> QED BY <1>0, <2>1, <2>2 DEF Speak!TypeOK, Speak!Generations
<1>3. ctl.overtaken \subseteq ctl'.overtaken
  BY <1>0 DEF Speak!TypeOK, Speak!ControlType
<1>4. CASE out' = out
  BY <1>0, <1>2, <1>3, <1>4
     DEF Speak!IInv, Speak!Epochs, Speak!Playing, Speak!Cancelled, Speak!SpeechInOrder
<1>5. CASE out' # out
  <2>1. /\ out'.source \in {Speak!None, "mode"}
        /\ \/ out'.source = Speak!None /\ out'.epoch = out.epoch
           \/ out'.epoch = out.epoch + 1
    BY <1>0, <1>5 DEF Speak!TypeOK
  <2>2. Speak!Playing' /\ Speak!Cancelled'
    BY <1>0, <2>1 DEF Speak!Named, Speak!Playing, Speak!Cancelled
  <2>3. Speak!Epochs'
    <3>1. CASE out'.source = Speak!None /\ out'.epoch = out.epoch
      BY <1>0, <3>1 DEF Speak!Epochs
    <3>2. CASE out'.epoch = out.epoch + 1
      <4>1. \A k \in Speaks : speech[k].epoch < out.epoch + 1
        BY <1>0, SpeakFields DEF Speak!Epochs
      <4> QED BY <1>0, <3>2, <4>1, SpeakFields DEF Speak!Epochs
    <3> QED BY <2>1, <3>1, <3>2
  <2>4. \A k \in Speaks : out.source = k /\ ~speech[k].cancelled => k \in ctl'.overtaken
    BY <1>5 DEF Speak!Overtaken
  <2>5. Speak!SpeechInOrder'
    BY <1>0, <1>3, <2>1, <2>4 DEF Speak!Named, Speak!SpeechInOrder
  <2> QED BY <1>2, <2>2, <2>3, <2>5 DEF Speak!IInv
<1> QED BY <1>4, <1>5

\* The steps of the control channel.
LEMMA SpeakControlKeeps ==
  ASSUME Speak!Named, Speak!IInv, Speak!Control \/ Speak!setMode \/ Speak!interrupt
  PROVE  Speak!IInv'
<1>0. Speak!TypeOK /\ Speak!Cancelled
  BY DEF Speak!IInv
<1>1. CASE Speak!Control
  <2>1. PICK at \in {Speak!None, "start", "stop", "interrupt"} :
          ctl' = [ctl EXCEPT !.at = at, !.left = ctl.left - 1]
    BY <1>1 DEF Speak!Control
  <2>2. /\ ctl'.overtaken = ctl.overtaken
        /\ ctl' \in Speak!ControlType
    <3>1. ctl \in Speak!ControlType /\ ctl.left - 1 \in Nat
      BY <1>0, <1>1 DEF Speak!Control, Speak!TypeOK, Speak!ControlType
    <3> QED BY <2>1, <3>1 DEF Speak!ControlType
  <2>3. Speak!Cancelled' /\ talks' \in {"up", "marked", "cancelled", "quiet", "over"} /\ UNCHANGED out
    BY <1>0, <1>1 DEF Speak!Control, Speak!Cancelled, Speak!TypeOK
  <2> QED BY <1>1, <2>2, <2>3, SpeakCancelKeeps DEF Speak!Control
<1>2. CASE Speak!setMode
  <2>1. ctl' = [ctl EXCEPT !.at = Speak!None, !.overtaken = ctl.overtaken \cup Speak!Overtaken]
    BY <1>2 DEF Speak!setMode
  <2>2. ctl'.overtaken = ctl.overtaken \cup Speak!Overtaken
    BY <1>0, <2>1 DEF Speak!TypeOK
  <2> QED BY <1>2, <2>1, <2>2, SpeakSourceKeeps DEF Speak!setMode
<1>3. CASE Speak!interrupt
  <2>1. CASE UNCHANGED out /\ ctl' = [ctl EXCEPT !.at = Speak!None]
    BY <1>3, <2>1, SpeakSourceKeeps DEF Speak!interrupt
  <2>2. CASE /\ out' = [out EXCEPT !.source = Speak!None]
             /\ ctl' = [ctl EXCEPT !.at = Speak!None, !.overtaken = ctl.overtaken \cup Speak!Overtaken]
    <3>1. ctl'.overtaken = ctl.overtaken \cup Speak!Overtaken
      BY <1>0, <2>2 DEF Speak!TypeOK
    <3> QED BY <1>3, <2>2, <3>1, SpeakSourceKeeps DEF Speak!interrupt
  <2> QED BY <1>3, <2>1, <2>2 DEF Speak!interrupt
<1> QED BY <1>1, <1>2, <1>3

\* The steps of Session.Close.
LEMMA SpeakCloseKeeps ==
  ASSUME Speak!Named, Speak!IInv, Speak!Mark \/ Speak!CancelContext \/ Speak!Quiet \/ Speak!StopOut
  PROVE  Speak!IInv'
<1>0. Speak!TypeOK /\ Speak!Generations /\ Speak!Epochs /\ Speak!Playing /\ Speak!Cancelled /\ Speak!SpeechInOrder
  BY DEF Speak!IInv
<1>1. CASE Speak!Mark
  BY <1>0, <1>1 DEF Speak!Mark, Speak!Close, Speak!IInv, Speak!TypeOK, Speak!Generations,
     Speak!Epochs, Speak!Playing, Speak!Cancelled,
                    Speak!SpeechInOrder
<1>2. CASE Speak!CancelContext
  <2>1. /\ talks' = "cancelled" /\ UNCHANGED <<ctl, say, out>>
        /\ speech' = [k \in Speaks |-> [speech[k] EXCEPT !.cancelled = TRUE]]
    BY <1>2 DEF Speak!CancelContext, Speak!Close
  <2>2. \A k \in Speaks :
          /\ speech'[k] \in Speak!RequestType /\ speech'[k].at = speech[k].at
          /\ speech'[k].gen = speech[k].gen /\ speech'[k].epoch = speech[k].epoch
          /\ speech'[k].cancelled
    BY <1>0, <2>1, SpeakFields DEF Speak!RequestType
  <2>3. Speak!TypeOK' /\ Speak!Generations' /\ Speak!Epochs'
    BY <1>0, <2>1, <2>2 DEF Speak!TypeOK, Speak!Generations, Speak!Epochs
  <2>4. Speak!Playing' /\ Speak!Cancelled' /\ Speak!SpeechInOrder'
    BY <1>0, <2>1, <2>2 DEF Speak!Playing, Speak!Cancelled, Speak!SpeechInOrder
  <2> QED BY <2>3, <2>4 DEF Speak!IInv
<1>3. CASE Speak!Quiet
  <2>1. talks = "cancelled" /\ talks' = "quiet" /\ Speak!cancelSpeak /\ UNCHANGED <<ctl, out>>
    BY <1>3 DEF Speak!Quiet, Speak!Close
  <2>2. Speak!Cancelled'
    BY <1>0, <2>1 DEF Speak!Cancelled, Speak!cancelSpeak, Speak!CancelOf, Speak!TypeOK
  <2> QED BY <1>0, <2>1, <2>2, SpeakCancelKeeps DEF Speak!TypeOK
<1>4. CASE Speak!StopOut
  <2>1. /\ talks = "quiet" /\ talks' = "over" /\ UNCHANGED <<ctl, say, speech>>
        /\ out' = [out EXCEPT !.source = Speak!None]
    BY <1>4 DEF Speak!StopOut, Speak!Close
  <2>2. out'.source = Speak!None /\ out'.epoch = out.epoch /\ \A k \in Speaks : speech[k].cancelled
    BY <1>0, <2>1 DEF Speak!TypeOK, Speak!Cancelled
  <2>3. Speak!TypeOK' /\ Speak!Generations' /\ Speak!Epochs'
    BY <1>0, <2>1, <2>2 DEF Speak!TypeOK, Speak!Generations, Speak!Epochs
  <2>4. Speak!Playing' /\ Speak!Cancelled' /\ Speak!SpeechInOrder'
    BY <1>0, <2>1, <2>2 DEF Speak!Named, Speak!Playing, Speak!Cancelled, Speak!SpeechInOrder
  <2> QED BY <2>3, <2>4 DEF Speak!IInv
<1> QED BY <1>1, <1>2, <1>3, <1>4

-----------------------------------------------------------------------------
(* LoginSessions: a change of the password ends every session.                 *)

\* It holds to begin with.
LEMMA WebInitInv == Web!Init => Web!IInv
BY DEF Web!Init, Web!IInv, Web!TypeOK, Web!Ensured, Web!Replaced, Web!Asking, Web!Minted,
   Web!Gated, Web!NoAdmin, Web!NoTicket, Web!Idle,
       Web!Processes

\* What a process does of itself.
LEMMA WebStartingInv ==
  ASSUME Web!Named, Web!IInv, Web!Starting
  PROVE  Web!IInv'
<1> USE DEF Web!Processes, Web!NoAdmin
<1>0. Web!TypeOK /\ Web!Ensured /\ Web!Replaced /\ Web!Asking /\ Web!Minted /\ Web!Gated /\ UNCHANGED <<ticket, changes>>
  BY DEF Web!IInv, Web!Starting
<1>1. Web!Minted'
  BY <1>0 DEF Web!Minted
<1>2. ASSUME NEW p \in Web!Processes, Web!Count(p), UNCHANGED req
      PROVE  Web!IInv'
  BY <1>0, <1>1, <1>2
     DEF Web!Count, Web!Go, Web!IInv, Web!TypeOK, Web!Ensured, Web!Replaced, Web!Asking,
         Web!Gated
<1>3. ASSUME NEW p \in Web!Processes, Web!Create(p), UNCHANGED req
      PROVE  Web!IInv'
  <2>1. CASE admin' = [password |-> Bootstrap, must |-> TRUE] /\ Web!Go(p, "ready") /\ admin = Web!NoAdmin
    <3>1. admin' # Web!NoAdmin /\ admin'.must
      BY <2>1 DEF Web!Named
    <3>2. Web!TypeOK'
      BY <1>0, <1>3, <2>1 DEF Web!TypeOK, Web!Go, Web!Named
    <3>3. Web!Ensured' /\ Web!Replaced' /\ Web!Asking'
      BY <1>0, <1>3, <2>1, <3>1 DEF Web!Ensured, Web!Replaced, Web!Asking
    <3>4. proc["server"] # "lan"
      BY <1>0, <2>1 DEF Web!Ensured
    <3> QED BY <1>0, <1>1, <2>1, <3>2, <3>3, <3>4 DEF Web!Gated, Web!Go, Web!IInv, Web!TypeOK
  <2>2. CASE UNCHANGED admin /\ Web!Go(p, "off")
    BY <1>0, <1>1, <1>3, <2>2
       DEF Web!Go, Web!IInv, Web!TypeOK, Web!Ensured, Web!Replaced, Web!Asking, Web!Gated
  <2> QED BY <1>3, <2>1, <2>2 DEF Web!Create
<1>4. ASSUME Web!Bind, UNCHANGED req
      PROVE  Web!IInv'
  BY <1>0, <1>1, <1>4 DEF Web!Bind, Web!Go, Web!Allowed, Web!IInv, Web!TypeOK, Web!Ensured,
     Web!Replaced, Web!Asking, Web!Gated
<1>5. ASSUME NEW p \in Web!Processes, Web!Exit(p)
      PROVE  Web!IInv'
  BY <1>0, <1>1, <1>5 DEF Web!Exit, Web!Go, Web!Idle, Web!IInv, Web!TypeOK, Web!Ensured,
     Web!Replaced, Web!Asking, Web!Gated
<1> QED BY <1>2, <1>3, <1>4, <1>5 DEF Web!Starting

\* What the server does for its requests.
LEMMA WebServingInv ==
  ASSUME Web!Named, Web!IInv, Web!Serving
  PROVE  Web!IInv'
<1> USE DEF Web!NoAdmin, Web!Idle
<1>0. Web!TypeOK /\ Web!Ensured /\ Web!Replaced /\ Web!Asking /\ Web!Minted /\ Web!Gated /\ UNCHANGED proc
  BY DEF Web!IInv, Web!Serving
<1>1. ASSUME NEW r \in LoginRequests, Web!LogIn(r) PROVE Web!IInv'
  BY <1>0, <1>1 DEF Web!LogIn, Web!IInv, Web!TypeOK, Web!Ensured, Web!Replaced, Web!Asking,
     Web!Minted, Web!Gated
<1>2. ASSUME NEW r \in LoginRequests, Web!Change(r) PROVE Web!IInv'
  <2>1. /\ req[r].new \in Passwords /\ admin' = [password |-> req[r].new, must |-> FALSE]
        /\ changes' = changes + 1 /\ ticket' = [t \in Tickets |-> Web!NoTicket]
        /\ req' = [req EXCEPT ![r] = [Web!Idle EXCEPT !.at = "mint", !.proof = changes + 1]]
    BY <1>0, <1>2 DEF Web!Change, Web!Kept, Web!Asking
  <2>2. admin' # Web!NoAdmin /\ ~admin'.must /\ changes' \in Nat /\ changes' > 0
    BY <1>0, <2>1 DEF Web!Named, Web!TypeOK
  <2>3. Web!TypeOK' /\ Web!Asking'
    BY <1>0, <2>1, <2>2 DEF Web!TypeOK, Web!Asking, Web!NoTicket
  <2>4. Web!Ensured' /\ Web!Replaced' /\ Web!Gated'
    BY <1>0, <2>2 DEF Web!Ensured, Web!Replaced, Web!Gated
  <2>5. Web!Minted'
    BY <2>1 DEF Web!Minted, Web!NoTicket
  <2> QED BY <2>3, <2>4, <2>5 DEF Web!IInv
<1>3. ASSUME NEW r \in LoginRequests, Web!GiveUp(r) PROVE Web!IInv'
  BY <1>0, <1>3 DEF Web!GiveUp, Web!IInv, Web!TypeOK, Web!Ensured, Web!Replaced, Web!Asking,
     Web!Minted, Web!Gated
<1>4. ASSUME NEW r \in LoginRequests, NEW t \in Tickets, Web!Mint(r, t) PROVE Web!IInv'
  BY <1>0, <1>4 DEF Web!Mint, Web!IInv, Web!TypeOK, Web!Ensured, Web!Replaced, Web!Asking,
     Web!Minted, Web!Gated
<1>5. ASSUME NEW r \in LoginRequests, NEW t \in Tickets, NEW p \in Passwords, Web!Ask(r, t, p) PROVE Web!IInv'
  BY <1>0, <1>5 DEF Web!Ask, Web!IInv, Web!TypeOK, Web!Ensured, Web!Replaced, Web!Asking,
     Web!Minted, Web!Gated
<1>6. ASSUME NEW t \in Tickets, Web!LogOut(t) PROVE Web!IInv'
  BY <1>0, <1>6 DEF Web!LogOut, Web!NoTicket, Web!IInv, Web!TypeOK, Web!Ensured, Web!Replaced,
     Web!Asking, Web!Minted, Web!Gated
<1> QED BY <1>1, <1>2, <1>3, <1>4, <1>5, <1>6 DEF Web!Serving

-----------------------------------------------------------------------------
(* EnablementGates: the two places that decide about a step decide the same.   *)

\* What was eligible once is eligible now if the gates of the step let it through, and only then:
\* the secrets and the agents are all that can have changed.
LEMMA GatesSameAnswer ==
  ASSUME Gates!Lawful, NEW d \in WrittenDefinitions, NEW c, NEW have, NEW auths, NEW kept, NEW now,
         Gates!CheckEligibility(d, c, have, auths),
         NEW bin \in Gates!Bins \cup {"command", "none"},
         d.step.type = "tool" => bin = d.step.bin \/ (d.step.bin = "computed" /\ bin \in Gates!Bins)
  PROVE  Gates!Gates(d, d.step, bin, c, kept, now)
           <=> Gates!CheckEligibility(d, c, IF d.step.type = "tool" THEN kept ELSE Gates!Refs, now)
<1> DEFINE s == d.step
<1>0. /\ s \in Gates!Steps /\ d.secrets \subseteq Gates!Refs /\ d.clis \subseteq Gates!Bins
      /\ c.sandbox /\ c.isolated /\ Gates!Injectable(d.secrets, have)
  BY DEF Gates!Lawful, Gates!CheckEligibility
<1>1. CASE s.type = "tool"
  <2>1. Gates!ToolEligible(d, s)
    BY <1>1 DEF Gates!CheckEligibility
  <2>2. s.tool \in Gates!Tools /\ (s.tool # "shell" => s.bin = "none")
        /\ (s.tool = "shell" => s.bin \in Gates!Bins \cup {"computed", "command"})
    BY <1>0, <1>1 DEF Gates!Steps, Gates!Tools
  <2>3. Gates!EnforceProfile(d, s, bin)
    <3>1. CASE Gates!Granular(d)
      <4>1. s.tool \in d.tools /\ Gates!ToolCLIs[s.tool] \subseteq d.clis /\ Gates!NetworkAllowed(d)
        BY <2>1, <3>1 DEF Gates!ToolEligible
      <4>2. ASSUME s.tool = "shell"
            PROVE  bin # "command" /\ ~Gates!IsShellInterpreter(bin) /\ bin \in d.clis
        <5>1. ~Gates!ExecIssue(d, s)
          BY <2>1, <3>1, <4>2 DEF Gates!ToolEligible
        <5>2. bin = s.bin
          BY <1>1, <5>1 DEF Gates!ExecIssue
        <5> QED BY <5>1, <5>2 DEF Gates!ExecIssue, Gates!IsShellInterpreter
      <4> QED BY <3>1, <4>1, <4>2 DEF Gates!EnforceProfile
    <3>2. CASE ~Gates!Granular(d)
      BY <2>1, <3>2 DEF Gates!ToolEligible, Gates!EnforceProfile
    <3> QED BY <3>1, <3>2
  <2> QED BY <1>0, <1>1, <2>1, <2>3 DEF Gates!Gates, Gates!CheckEligibility
<1>2. Gates!Injectable(d.secrets, Gates!Refs)
  BY <1>0 DEF Gates!Injectable
<1>3. CASE s.type = "agent_cli"
  <2>1. Gates!AgentEligible(d, s, c, auths)
    BY <1>3 DEF Gates!CheckEligibility
  <2>2. Gates!Gates(d, s, bin, c, kept, now) <=> s.adapter \in now
    BY <1>0, <1>3, <2>1 DEF Gates!Gates, Gates!AgentEligible, Gates!Runnable
  <2>3. Gates!CheckEligibility(d, c, Gates!Refs, now) <=> Gates!AgentEligible(d, s, c, now)
    BY <1>0, <1>2, <1>3 DEF Gates!CheckEligibility
  <2>4. Gates!AgentEligible(d, s, c, now) <=> s.adapter \in now
    BY <2>1 DEF Gates!AgentEligible
  <2> QED BY <1>3, <2>2, <2>3, <2>4
<1>4. CASE s.type = "llm"
  BY <1>0, <1>2, <1>4 DEF Gates!Gates, Gates!CheckEligibility
<1>5. s.type \in {"tool", "agent_cli", "llm"}
  BY <1>0 DEF Gates!Steps
<1> HIDE DEF s
<1> QED BY <1>1, <1>3, <1>4, <1>5

\* It holds to begin with.
LEMMA GatesInitInv == Gates!Init => Gates!IInv
<1> SUFFICES ASSUME Gates!Init PROVE Gates!IInv
  OBVIOUS
<1>1. auto \in [def : WrittenDefinitions, enabled : BOOLEAN]
  BY DEF Gates!Init
<1>2. run = [at |-> "none", lawful |-> FALSE]
  BY DEF Gates!Init, Gates!NoRun
<1>3. run \in [at : {"none", "step", "ran", "refused"}, lawful : BOOLEAN] /\ run.at = "none"
  BY <1>2
<1> QED BY <1>1, <1>3 DEF Gates!IInv, Gates!TypeOK, Gates!Checked, Gates!GatesAgree

\* And every step keeps it.
LEMMA GatesNextInv == ASSUME Gates!Lawful, Gates!IInv, (Gates!Next \/ UNCHANGED Gates!vars) PROVE Gates!IInv'
<1>0. Gates!TypeOK /\ Gates!Checked /\ Gates!GatesAgree
  BY DEF Gates!IInv
<1>1. CASE Gates!Enable
  <2>1. auto'.def = auto.def /\ auto' \in [def : WrittenDefinitions, enabled : BOOLEAN]
    BY <1>0, <1>1 DEF Gates!Enable, Gates!TypeOK
  <2> QED BY <1>0, <1>1, <2>1
             DEF Gates!Enable, Gates!IInv, Gates!TypeOK, Gates!Checked, Gates!GatesAgree
<1>2. CASE Gates!Fire
  <2>1. run' = [at |-> "step", lawful |-> FALSE]
    BY <1>2 DEF Gates!Fire, Gates!NoRun
  <2> QED BY <1>0, <1>2, <2>1
             DEF Gates!Fire, Gates!Eligible, Gates!IInv, Gates!TypeOK, Gates!Checked,
                 Gates!GatesAgree
<1>3. CASE Gates!Finish \/ \E c \in Configs : Gates!Restart(c)
  <2>1. run' = [at |-> "none", lawful |-> FALSE] /\ auto' = auto
    BY <1>3 DEF Gates!Finish, Gates!Restart, Gates!NoRun
  <2> QED BY <1>0, <2>1 DEF Gates!IInv, Gates!TypeOK, Gates!Checked, Gates!GatesAgree
<1>4. CASE Gates!Facts
  BY <1>0, <1>4 DEF Gates!Facts, Gates!IInv, Gates!TypeOK, Gates!Checked, Gates!GatesAgree
<1>5. ASSUME NEW bin \in Gates!Bins \cup {"command", "none"}, Gates!Step(bin) PROVE Gates!IInv'
  <2> DEFINE d == auto.def
             h == IF d.step.type = "tool" THEN vault ELSE Gates!Refs
  <2>1. d \in WrittenDefinitions /\ \E have, auths : Gates!CheckEligibility(d, machine, have, auths)
    BY <1>0, <1>5 DEF Gates!Step, Gates!TypeOK, Gates!Checked
  <2>2. /\ run' = [at |-> IF Gates!Gates(d, d.step, bin, machine, vault, authed) THEN "ran" ELSE "refused",
                   lawful |-> Gates!CheckEligibility(d, machine, h, authed)]
        /\ d.step.type = "tool" => bin = d.step.bin \/ (d.step.bin = "computed" /\ bin \in Gates!Bins)
        /\ UNCHANGED auto
    BY <1>5 DEF Gates!Step
  <2>3. Gates!Gates(d, d.step, bin, machine, vault, authed) <=> Gates!CheckEligibility(d, machine, h, authed)
    BY <2>1, <2>2, GatesSameAnswer
  <2>4. Gates!CheckEligibility(d, machine, h, authed) \in BOOLEAN
    BY <2>1 DEF Gates!CheckEligibility
  <2> HIDE DEF d, h
  <2>5. run'.at \in {"ran", "refused"} /\ (run'.at = "ran" <=> run'.lawful)
        /\ run' \in [at : {"none", "step", "ran", "refused"}, lawful : BOOLEAN]
    BY <2>2, <2>3, <2>4
  <2> QED BY <1>0, <2>2, <2>5 DEF Gates!IInv, Gates!TypeOK, Gates!Checked, Gates!GatesAgree
<1>6. CASE UNCHANGED Gates!vars
  BY <1>0, <1>6 DEF Gates!vars, Gates!IInv, Gates!TypeOK, Gates!Checked, Gates!GatesAgree
<1> QED BY <1>1, <1>2, <1>3, <1>4, <1>5, <1>6 DEF Gates!Next

-----------------------------------------------------------------------------
(* ModelAssets: what a pull or the server has gone past stays pinned. *)

\* The manifest is a non-empty sequence of assets.
LEMMA AssetsListed ==
  ASSUME Assets!Listed
  PROVE  /\ Len(List) \in Nat \ {0} /\ DOMAIN List = 1 .. Len(List)
         /\ \A i \in 1 .. Len(List) : List[i] \in Assets!Assets
         /\ \A f \in Assets!Assets : \E i \in 1 .. Len(List) : f = List[i]
<1>1. List \in Seq(STRING) /\ List # <<>>
  BY DEF Assets!Listed
<1>2. Len(List) \in Nat \ {0} /\ DOMAIN List = 1 .. Len(List)
  BY <1>1
<1> QED BY <1>2 DEF Assets!Assets

\* It holds to begin with.
LEMMA AssetsInitInv == ASSUME Assets!Listed PROVE Assets!Init => Assets!IInv
<1> SUFFICES ASSUME Assets!Init PROVE Assets!IInv
  OBVIOUS
<1>1. 1 \in 1 .. Len(List)
  BY AssetsListed
<1>2. \A p \in Pulls : pull[p] = Assets!Idle
  BY DEF Assets!Init
<1>3. Assets!Off \in [at : {"off", "verify", "up"}, i : 1 .. Len(List), has : [Assets!Assets -> Assets!Kinds]]
  BY <1>1 DEF Assets!Off, Assets!Kinds
<1>4. Assets!TypeOK
  BY <1>1, <1>3 DEF Assets!Init, Assets!TypeOK, Assets!Idle
<1>5. Assets!PulledSoFar
  BY <1>2 DEF Assets!PulledSoFar, Assets!Idle
<1>6. Assets!GatedSoFar /\ Assets!HasPinned
  BY DEF Assets!Init, Assets!Off, Assets!GatedSoFar, Assets!HasPinned
<1> QED BY <1>4, <1>5, <1>6 DEF Assets!IInv

\* The asset that a pull is at is in the manifest, and to go past it is to keep one more.
LEMMA AssetsPast ==
  ASSUME Assets!Listed, Assets!TypeOK, Assets!PulledSoFar, NEW p \in Pulls,
         pull[p].at \in {"look", "get", "extract", "check"}
  PROVE  /\ Assets!Cur(p) \in Assets!Assets
         /\ Assets!Past(pull[p]) \in [at : {"look", "done"}, i : 1 .. Len(List), tries : Nat]
         /\ \A j \in 1 .. Assets!Past(pull[p]).i - 1 :
              Assets!Past(pull[p]).at = "look" => Assets!Kept(List[j]) \/ List[j] = Assets!Cur(p)
         /\ Assets!Past(pull[p]).at = "done" =>
              \A f \in Assets!Assets : Assets!Kept(f) \/ f = Assets!Cur(p)
<1>1. /\ pull[p].i \in 1 .. Len(List) /\ Len(List) \in Nat \ {0} /\ pull[p].tries \in Nat
      /\ pull[p] \in [at : {"idle", "look", "get", "extract", "check", "done", "failed"},
                      i : 1 .. Len(List), tries : Nat]
  BY AssetsListed DEF Assets!TypeOK
<1>2. \A j \in 1 .. pull[p].i - 1 : Assets!Kept(List[j])
  BY DEF Assets!PulledSoFar
<1>3. Assets!Cur(p) = List[pull[p].i]
  BY DEF Assets!Cur
<1>4. CASE pull[p].i = Len(List)
  <2>1. Assets!Past(pull[p]) = [pull[p] EXCEPT !.at = "done"]
    BY <1>4 DEF Assets!Past
  <2>2. /\ Assets!Past(pull[p]).at = "done"
        /\ Assets!Past(pull[p]) \in [at : {"look", "done"}, i : 1 .. Len(List), tries : Nat]
    BY <1>1, <2>1
  <2>3. \A i \in 1 .. Len(List) : Assets!Kept(List[i]) \/ List[i] = Assets!Cur(p)
    BY <1>1, <1>2, <1>3, <1>4
  <2> QED BY <1>1, <1>3, <2>2, <2>3, AssetsListed
<1>5. CASE pull[p].i # Len(List)
  <2>1. Assets!Past(pull[p]) = [at |-> "look", i |-> pull[p].i + 1, tries |-> 0]
    BY <1>5 DEF Assets!Past, Assets!Idle
  <2>2. /\ Assets!Past(pull[p]).at = "look" /\ Assets!Past(pull[p]).i = pull[p].i + 1
        /\ Assets!Past(pull[p]).tries = 0
    BY <2>1
  <2>3. pull[p].i + 1 \in 1 .. Len(List)
    BY <1>1, <1>5
  <2>4. Assets!Past(pull[p]) \in [at : {"look", "done"}, i : 1 .. Len(List), tries : Nat]
    BY <2>1, <2>3
  <2>5. \A j \in 1 .. pull[p].i : Assets!Kept(List[j]) \/ List[j] = Assets!Cur(p)
    BY <1>1, <1>2, <1>3
  <2> QED BY <1>1, <1>3, <2>2, <2>4, <2>5, AssetsListed
<1> QED BY <1>4, <1>5

\* A pull that takes a step leaves the files that were kept; what it goes past is kept.
LEMMA AssetsPullKeeps ==
  ASSUME Assets!Listed, Assets!IInv, NEW p \in Pulls, NEW r, UNCHANGED server,
         r \in [at : {"idle", "look", "get", "extract", "check", "done", "failed"}, i : 1 .. Len(List), tries : Nat],
         pull' = [pull EXCEPT ![p] = r],
         disk' \in [Assets!Assets -> Assets!Kinds], botched' \in SUBSET Assets!Assets, botched \subseteq botched',
         \A f \in Assets!Assets : Assets!Kept(f) => Assets!Kept(f)',
         r.at \in {"look", "get", "extract", "check"} => \A j \in 1 .. r.i - 1 : Assets!Kept(List[j])',
         r.at = "done" => \A f \in Assets!Assets : Assets!Kept(f)'
  PROVE  Assets!IInv'
<1>1. pull'[p] = r /\ \A q \in Pulls \ {p} : pull'[q] = pull[q]
  BY DEF Assets!IInv, Assets!TypeOK
<1>2. Assets!TypeOK'
  BY DEF Assets!IInv, Assets!TypeOK
<1>3. \A q \in Pulls : pull[q].i \in 1 .. Len(List) /\ Len(List) \in Nat
  BY AssetsListed DEF Assets!IInv, Assets!TypeOK
<1>4. Assets!PulledSoFar'
  <2> SUFFICES ASSUME NEW q \in Pulls
               PROVE  /\ pull'[q].at \in {"look", "get", "extract", "check"} =>
                           \A j \in 1 .. pull'[q].i - 1 : Assets!Kept(List[j])'
                      /\ pull'[q].at = "done" => \A f \in Assets!Assets : Assets!Kept(f)'
    BY DEF Assets!PulledSoFar
  <2>1. CASE q = p
    BY <1>1, <2>1
  <2>2. CASE q # p
    <3>1. pull'[q] = pull[q]
      BY <1>1, <2>2
    <3>2. \A j \in 1 .. pull[q].i - 1 : List[j] \in Assets!Assets
      BY <1>3, AssetsListed
    <3> QED BY <3>1, <3>2 DEF Assets!IInv, Assets!PulledSoFar
  <2> QED BY <2>1, <2>2
<1>5. Assets!GatedSoFar'
  <2>1. server.i \in 1 .. Len(List) /\ Len(List) \in Nat
    BY AssetsListed DEF Assets!IInv, Assets!TypeOK
  <2>2. \A j \in 1 .. server.i - 1 : List[j] \in Assets!Assets
    BY <2>1, AssetsListed
  <2> QED BY <2>2 DEF Assets!IInv, Assets!GatedSoFar
<1>6. Assets!HasPinned'
  BY DEF Assets!IInv, Assets!HasPinned
<1> QED BY <1>2, <1>4, <1>5, <1>6 DEF Assets!IInv

\* A pull that only moves: the files are as they were.
LEMMA AssetsPullMoves ==
  ASSUME Assets!Listed, Assets!IInv, NEW p \in Pulls, UNCHANGED <<server, disk, botched>>,
         Assets!Start(p) \/ Assets!Skip(p) \/ Assets!Enter(p) \/ Assets!Fail(p) \/ Assets!Retry(p) \/ Assets!Kill(p)
  PROVE  Assets!IInv'
<1> DEFINE Ats == {"idle", "look", "get", "extract", "check", "done", "failed"}
<1>1. \A f : Assets!Kept(f)' <=> Assets!Kept(f)
  BY DEF Assets!Kept, Assets!Verified
<1>2. /\ pull[p] \in [at : Ats, i : 1 .. Len(List), tries : Nat] /\ 1 \in 1 .. Len(List)
      /\ pull \in [Pulls -> [at : Ats, i : 1 .. Len(List), tries : Nat]]
  BY AssetsListed DEF Assets!IInv, Assets!TypeOK
<1>3. disk \in [Assets!Assets -> Assets!Kinds] /\ botched \in SUBSET Assets!Assets
  BY DEF Assets!IInv, Assets!TypeOK
<1>4. /\ pull[p].at \in {"look", "get", "extract", "check"} => \A j \in 1 .. pull[p].i - 1 : Assets!Kept(List[j])
      /\ pull[p].at = "done" => \A f \in Assets!Assets : Assets!Kept(f)
  BY DEF Assets!IInv, Assets!PulledSoFar
<1>5. CASE Assets!Start(p)
  <2> DEFINE r == [Assets!Idle EXCEPT !.at = "look"]
  <2>1. pull' = [pull EXCEPT ![p] = r]
    BY <1>5 DEF Assets!Start
  <2>2. r \in [at : Ats, i : 1 .. Len(List), tries : Nat] /\ r.at = "look" /\ r.i = 1
    BY <1>2 DEF Assets!Idle
  <2>3. \A j \in 1 .. r.i - 1 : Assets!Kept(List[j])'
    BY <2>2
  <2> HIDE DEF r
  <2> QED BY <1>1, <1>3, <2>1, <2>2, <2>3, AssetsPullKeeps
<1>6. CASE Assets!Skip(p)
  <2> DEFINE r == Assets!Past(pull[p])
  <2>1. pull' = [pull EXCEPT ![p] = r] /\ pull[p].at = "look" /\ Assets!Kept(Assets!Cur(p))
    BY <1>2, <1>6 DEF Assets!Skip, Assets!Kept, Assets!At
  <2>2. /\ r \in [at : {"look", "done"}, i : 1 .. Len(List), tries : Nat]
        /\ r.at = "look" => \A j \in 1 .. r.i - 1 : Assets!Kept(List[j])
        /\ r.at = "done" => \A f \in Assets!Assets : Assets!Kept(f)
    BY <2>1, AssetsPast DEF Assets!IInv
  <2> HIDE DEF r
  <2>3. r \in [at : Ats, i : 1 .. Len(List), tries : Nat] /\ r.at \in {"look", "done"}
    BY <2>2
  <2> QED BY <1>1, <1>3, <2>1, <2>2, <2>3, AssetsPullKeeps
<1>7. ASSUME NEW s \in {"get", "failed", "idle"}, Assets!Go(p, s), s = "get" => pull[p].at = "look"
      PROVE  Assets!IInv'
  <2> DEFINE r == [pull[p] EXCEPT !.at = s]
  <2>1. pull' = [pull EXCEPT ![p] = r]
    BY <1>2, <1>7 DEF Assets!Go
  <2>2. r \in [at : Ats, i : 1 .. Len(List), tries : Nat] /\ r.at = s /\ r.i = pull[p].i
    BY <1>2, <1>7
  <2>3. r.at \in {"look", "get", "extract", "check"} => \A j \in 1 .. r.i - 1 : Assets!Kept(List[j])'
    BY <1>1, <1>4, <1>7, <2>2
  <2>4. r.at # "done"
    BY <1>7, <2>2
  <2> HIDE DEF r
  <2> QED BY <1>1, <1>3, <2>1, <2>2, <2>3, <2>4, AssetsPullKeeps
<1>8. CASE Assets!Enter(p) \/ Assets!Fail(p) \/ Assets!Kill(p)
  BY <1>7, <1>8 DEF Assets!Enter, Assets!Fail, Assets!Kill, Assets!At
<1>9. CASE Assets!Retry(p) /\ pull[p].tries = Attempts - 1
  BY <1>2, <1>7, <1>9 DEF Assets!Retry
<1>10. CASE Assets!Retry(p) /\ pull[p].tries # Attempts - 1
  <2> DEFINE r == [pull[p] EXCEPT !.tries = pull[p].tries + 1]
  <2>1. pull' = [pull EXCEPT ![p] = r]
    BY <1>2, <1>10 DEF Assets!Retry
  <2>0. pull[p].at = "get"
    BY <1>10 DEF Assets!Retry, Assets!At
  <2>2. r \in [at : Ats, i : 1 .. Len(List), tries : Nat] /\ r.at = "get" /\ r.i = pull[p].i
    BY <1>2, <2>0
  <2> HIDE DEF r
  <2>3. \A j \in 1 .. r.i - 1 : Assets!Kept(List[j])'
    BY <1>1, <1>4, <2>0, <2>2
  <2> QED BY <1>1, <1>3, <2>1, <2>2, <2>3, AssetsPullKeeps
<1> QED BY <1>5, <1>6, <1>8, <1>9, <1>10

\* A body that was taken, a member that was extracted, and the check of it.
LEMMA AssetsPullWrites ==
  ASSUME Assets!Listed, Assets!IInv, NEW p \in Pulls, UNCHANGED server, NEW c \in {"good", "bad"},
         \/ Assets!Check(p) /\ UNCHANGED botched
         \/ Assets!Got(p, c) /\ UNCHANGED botched
         \/ Assets!Extract(p, c)
  PROVE  Assets!IInv'
<1> DEFINE Ats == {"idle", "look", "get", "extract", "check", "done", "failed"}
<1>1. /\ pull[p] \in [at : Ats, i : 1 .. Len(List), tries : Nat]
      /\ pull \in [Pulls -> [at : Ats, i : 1 .. Len(List), tries : Nat]]
      /\ disk \in [Assets!Assets -> Assets!Kinds] /\ botched \in SUBSET Assets!Assets
  BY DEF Assets!IInv, Assets!TypeOK
<1>2. pull[p].at \in {"get", "extract", "check"}
  BY DEF Assets!Check, Assets!Got, Assets!Extract, Assets!At
<1>3. PICK f \in Assets!Assets : f = Assets!Cur(p)
  BY <1>2, AssetsPast DEF Assets!IInv
<1>4. \A j \in 1 .. pull[p].i - 1 : Assets!Kept(List[j]) /\ List[j] \in Assets!Assets
  <2>1. pull[p].i \in 1 .. Len(List) /\ Len(List) \in Nat
    BY <1>1, AssetsListed
  <2> QED BY <1>2, <2>1, AssetsListed DEF Assets!IInv, Assets!PulledSoFar
\* Where it goes when it stays with the asset.
<1>5. ASSUME NEW s \in {"extract", "check", "failed"}, Assets!Go(p, s),
             disk' \in [Assets!Assets -> Assets!Kinds], botched' \in SUBSET Assets!Assets, botched \subseteq botched',
             \A g \in Assets!Assets : Assets!Kept(g) => Assets!Kept(g)'
      PROVE  Assets!IInv'
  <2> DEFINE r == [pull[p] EXCEPT !.at = s]
  <2>1. pull' = [pull EXCEPT ![p] = r]
    BY <1>1, <1>5 DEF Assets!Go
  <2>2. r \in [at : Ats, i : 1 .. Len(List), tries : Nat] /\ r.at = s /\ r.i = pull[p].i
    BY <1>1, <1>5
  <2>3. \A j \in 1 .. r.i - 1 : Assets!Kept(List[j])'
    BY <1>4, <1>5, <2>2
  <2>4. r.at # "done"
    BY <1>5, <2>2
  <2> HIDE DEF r
  <2> QED BY <1>5, <2>1, <2>2, <2>3, <2>4, AssetsPullKeeps
\* Where it goes with an asset that is verified by now.
<1>6. ASSUME pull' = [pull EXCEPT ![p] = Assets!Past(pull[p])],
             disk' \in [Assets!Assets -> Assets!Kinds], UNCHANGED botched,
             \A g \in Assets!Assets : Assets!Kept(g) => Assets!Kept(g)', Assets!Verified(f)'
      PROVE  Assets!IInv'
  <2> DEFINE r == Assets!Past(pull[p])
  <2>1. /\ r \in [at : {"look", "done"}, i : 1 .. Len(List), tries : Nat]
        /\ \A j \in 1 .. r.i - 1 : r.at = "look" => Assets!Kept(List[j]) \/ List[j] = f
        /\ r.at = "done" => \A g \in Assets!Assets : Assets!Kept(g) \/ g = f
    BY <1>2, <1>3, AssetsPast DEF Assets!IInv
  <2> HIDE DEF r
  <2>2. r \in [at : Ats, i : 1 .. Len(List), tries : Nat] /\ r.at \in {"look", "done"} /\ r.i \in 1 .. Len(List)
    BY <2>1
  <2>3. \A j \in 1 .. r.i - 1 : List[j] \in Assets!Assets
    <3>1. Len(List) \in Nat
      BY AssetsListed
    <3> QED BY <2>2, <3>1, AssetsListed
  <2>4. ASSUME NEW g \in Assets!Assets, Assets!Kept(g) \/ g = f PROVE Assets!Kept(g)'
    BY <1>6, <2>4 DEF Assets!Kept, Assets!Verified
  <2>5. r.at = "look" => \A j \in 1 .. r.i - 1 : Assets!Kept(List[j])'
    BY <2>1, <2>3, <2>4
  <2>6. r.at = "done" => \A g \in Assets!Assets : Assets!Kept(g)'
    BY <2>1, <2>4
  <2>7. pull' = [pull EXCEPT ![p] = r] /\ botched' \in SUBSET Assets!Assets /\ botched \subseteq botched'
    BY <1>1, <1>6 DEF r
  <2> QED BY <1>6, <2>2, <2>5, <2>6, <2>7, AssetsPullKeeps
<1>7. CASE Assets!Check(p) /\ UNCHANGED botched
  <2>1. CASE Assets!Verified(f)
    <3>1. pull' = [pull EXCEPT ![p] = Assets!Past(pull[p])] /\ UNCHANGED disk
      BY <1>1, <1>3, <1>7, <2>1 DEF Assets!Check
    <3> QED BY <1>1, <1>6, <1>7, <2>1, <3>1 DEF Assets!Kept, Assets!Verified
  <2>2. CASE ~Assets!Verified(f)
    <3>1. disk' = [disk EXCEPT ![f] = "none"] /\ Assets!Go(p, "failed")
      BY <1>3, <1>7, <2>2 DEF Assets!Check, Assets!Put
    <3>2. disk' \in [Assets!Assets -> Assets!Kinds]
      BY <1>1, <3>1 DEF Assets!Kinds
    <3>3. \A g \in Assets!Assets : Assets!Kept(g) => Assets!Kept(g)'
      BY <1>1, <1>7, <2>2, <3>1 DEF Assets!Kept, Assets!Verified
    <3> QED BY <1>1, <1>5, <1>7, <3>1, <3>2, <3>3
  <2> QED BY <2>1, <2>2
<1>8. CASE Assets!Got(p, c) /\ UNCHANGED botched
  <2>1. CASE UNCHANGED disk /\ (Assets!Go(p, "failed") \/ Assets!Go(p, "extract"))
    <3>1. \A g \in Assets!Assets : Assets!Kept(g) => Assets!Kept(g)'
      BY <1>8, <2>1 DEF Assets!Kept, Assets!Verified
    <3> QED BY <1>1, <1>5, <1>8, <2>1, <3>1
  <2>2. CASE Assets!Accepts(c) /\ Assets!Put(f, c) /\ pull' = [pull EXCEPT ![p] = Assets!Past(pull[p])]
    <3>1. c = "good" /\ disk' = [disk EXCEPT ![f] = "good"]
      BY <2>2 DEF Assets!Accepts, Assets!Put
    <3>2. disk' \in [Assets!Assets -> Assets!Kinds]
      BY <1>1, <3>1 DEF Assets!Kinds
    <3>3. Assets!Verified(f)' /\ \A g \in Assets!Assets : Assets!Kept(g) => Assets!Kept(g)'
      <4>1. disk'[f] = "good" /\ \A g \in Assets!Assets : disk'[g] = IF g = f THEN "good" ELSE disk[g]
        BY <1>1, <1>3, <3>1
      <4> QED BY <1>8, <4>1 DEF Assets!Kept, Assets!Verified, Assets!Cur
    <3> QED BY <1>6, <1>8, <2>2, <3>2, <3>3
  <2> QED BY <1>1, <1>3, <1>8, <2>1, <2>2 DEF Assets!Got
<1>9. CASE Assets!Extract(p, c)
  <2>1. /\ disk' = [disk EXCEPT ![f] = c] /\ Assets!Go(p, "check")
        /\ botched' = IF c = "bad" THEN botched \cup {f} ELSE botched
    BY <1>3, <1>9 DEF Assets!Extract, Assets!Put
  <2>2. disk' \in [Assets!Assets -> Assets!Kinds]
    BY <1>1, <2>1 DEF Assets!Kinds
  <2>3. botched' \in SUBSET Assets!Assets /\ botched \subseteq botched'
    BY <1>1, <1>3, <2>1
  <2>4. \A g \in Assets!Assets : Assets!Kept(g) => Assets!Kept(g)'
    BY <1>1, <1>3, <2>1 DEF Assets!Kept, Assets!Verified
  <2> QED BY <1>5, <2>1, <2>2, <2>3, <2>4
<1> QED BY <1>7, <1>8, <1>9

\* The server goes past an asset that it has verified, and loads from those alone.
LEMMA AssetsServerInv ==
  ASSUME Assets!Listed, Assets!IInv, Assets!Serving
  PROVE  Assets!IInv'
<1> DEFINE Servers == [at : {"off", "verify", "up"}, i : 1 .. Len(List), has : [Assets!Assets -> Assets!Kinds]]
<1>1. UNCHANGED <<disk, pull, botched>>
  BY DEF Assets!Serving
<1>2. \A f : Assets!Kept(f)' <=> Assets!Kept(f)
  BY <1>1 DEF Assets!Kept, Assets!Verified
<1>3. Assets!PulledSoFar'
  BY <1>1, <1>2 DEF Assets!IInv, Assets!PulledSoFar
<1>4. server \in Servers /\ server.i \in 1 .. Len(List) /\ server.has \in [Assets!Assets -> Assets!Kinds] /\ 1 \in 1 .. Len(List)
  BY AssetsListed DEF Assets!IInv, Assets!TypeOK
<1>5. SUFFICES server' \in Servers /\ Assets!GatedSoFar' /\ Assets!HasPinned'
  BY <1>1, <1>3 DEF Assets!IInv, Assets!TypeOK
<1>6. Assets!Off \in Servers /\ Assets!Off.at = "off" /\ \A f \in Assets!Assets : Assets!Off.has[f] = "none"
  BY <1>4 DEF Assets!Off, Assets!Kinds
<1>7. CASE server' = Assets!Off
  BY <1>6, <1>7 DEF Assets!GatedSoFar, Assets!HasPinned
<1>8. CASE Assets!Boot
  <2>1. server' = [Assets!Off EXCEPT !.at = "verify"]
    BY <1>8 DEF Assets!Boot
  <2>2. /\ server' \in Servers /\ server'.at = "verify" /\ server'.i = 1
        /\ server'.has = Assets!Off.has
    BY <1>4, <1>6, <2>1 DEF Assets!Off
  <2> QED BY <1>6, <2>2 DEF Assets!GatedSoFar, Assets!HasPinned
<1>9. CASE Assets!Gate /\ server' # Assets!Off
  <2>1. server.at = "verify" /\ Assets!Verified(List[server.i])
    BY <1>9 DEF Assets!Gate
  <2>2. Len(List) \in Nat
    BY AssetsListed
  <2>3. \A j \in 1 .. server.i : Assets!Kept(List[j])
    <3>1. \A j \in 1 .. server.i : j \in 1 .. server.i - 1 \/ j = server.i
      BY <1>4, <2>2
    <3> QED BY <2>1, <3>1 DEF Assets!IInv, Assets!GatedSoFar, Assets!Kept
  <2>4. CASE server.i = Len(List)
    <3>1. server' = [server EXCEPT !.at = "up"]
      BY <1>9, <2>4 DEF Assets!Gate
    <3>2. server' \in Servers /\ server'.at = "up" /\ server'.has = server.has
      BY <1>4, <3>1
    <3>3. \A f \in Assets!Assets : Assets!Kept(f)
      BY <2>3, <2>4, AssetsListed
    <3> QED BY <1>1, <1>2, <3>2, <3>3 DEF Assets!GatedSoFar, Assets!HasPinned, Assets!IInv
  <2>5. CASE server.i # Len(List)
    <3>1. server' = [server EXCEPT !.i = @ + 1]
      BY <1>9, <2>5 DEF Assets!Gate
    <3>2. server.i + 1 \in 1 .. Len(List)
      BY <1>4, <2>2, <2>5
    <3>3. /\ server' \in Servers /\ server'.at = "verify" /\ server'.has = server.has
          /\ server'.i = server.i + 1 /\ server'.i - 1 = server.i
      BY <1>4, <2>1, <3>1, <3>2
    <3> QED BY <1>1, <1>2, <2>3, <3>3 DEF Assets!GatedSoFar, Assets!HasPinned, Assets!IInv
  <2> QED BY <2>4, <2>5
<1>10. ASSUME NEW f \in Assets!Assets, Assets!Load(f)
       PROVE  server' \in Servers /\ Assets!GatedSoFar' /\ Assets!HasPinned'
  <2>1. server' = [server EXCEPT !.has[f] = disk[f]] /\ server.at = "up"
    BY <1>10 DEF Assets!Load
  <2>2. disk[f] \in Assets!Kinds /\ (f \in botched \/ disk[f] = "good")
    BY <2>1 DEF Assets!IInv, Assets!TypeOK, Assets!GatedSoFar, Assets!Kept, Assets!Verified
  <2>3. server' \in Servers /\ server'.at = "up" /\ server'.has = [server.has EXCEPT ![f] = disk[f]]
    BY <1>4, <2>1, <2>2
  <2>4. \A g \in Assets!Assets : server'.has[g] = IF g = f THEN disk[f] ELSE server.has[g]
    BY <1>4, <2>3
  <2>5. Assets!HasPinned'
    BY <1>1, <2>2, <2>4 DEF Assets!HasPinned, Assets!IInv
  <2>6. Assets!GatedSoFar'
    BY <1>2, <2>1, <2>3 DEF Assets!GatedSoFar, Assets!IInv
  <2> QED BY <2>3, <2>5, <2>6
<1> QED BY <1>7, <1>8, <1>9, <1>10 DEF Assets!Serving, Assets!Stop

\* A pull, or the server: it is kept.
LEMMA AssetsNextInv == ASSUME Assets!Listed, Assets!IInv, Assets!Next \/ UNCHANGED Assets!vars PROVE Assets!IInv'
<1>1. CASE UNCHANGED Assets!vars
  BY <1>1 DEF Assets!vars, Assets!IInv, Assets!TypeOK, Assets!PulledSoFar, Assets!GatedSoFar, Assets!HasPinned,
              Assets!Kept, Assets!Verified
<1>2. CASE Assets!Pulling
  <2>1. PICK p \in Pulls :
          \/ (Assets!Start(p) \/ Assets!Skip(p) \/ Assets!Enter(p) \/ Assets!Fail(p) \/ Assets!Retry(p) \/ Assets!Kill(p))
             /\ UNCHANGED <<disk, botched>>
          \/ (Assets!Check(p) \/ \E c \in {"good", "bad"} : Assets!Got(p, c)) /\ UNCHANGED botched
          \/ \E c \in {"good", "bad"} : Assets!Extract(p, c)
    BY <1>2 DEF Assets!Pulling
  <2>2. UNCHANGED server
    BY <1>2 DEF Assets!Pulling
  <2> QED BY <2>1, <2>2, AssetsPullMoves, AssetsPullWrites
<1> QED BY <1>1, <1>2, AssetsServerInv DEF Assets!Next

-----------------------------------------------------------------------------
(* TurnDetection: a turn with an utterance in it is kept. *)

Pipes == [state : {"idle", "capture", "await"}, partial : Turns!Partials, wait : Nat, speech : Nat,
          barged : BOOLEAN, over : BOOLEAN]
\* A turn that waits does so in bounds, and has interrupted what it was heard over.
PipeGood(p) == /\ p \in Pipes
               /\ p.state = "await" => p.wait < MaxWait /\ (p.over /\ cfg.interrupts => p.barged)
Names == {"open", "audio", "cancel", "barge", "commit"}
Says(r, e) == e \in Turns!ToSet(r.events)
\* What the events say of the pipeline that the decision d left.
EventsGood(r, d) ==
  /\ r.events \in Seq(Names)
  /\ Says(r, "cancel") \/ Says(r, "commit") => r.pipe.state = "idle"
  /\ Says(r, "cancel") => d = "cancel" \/ (r.pipe.over /\ ~r.pipe.barged /\ r.pipe.partial \in {"yeah", "hmm"})
  /\ Says(r, "commit") => d = "max" \/ (r.pipe.over /\ cfg.interrupts => r.pipe.barged)
ResultGood(r, d) == r = Turns!Result(r.pipe, r.events) /\ PipeGood(r.pipe) /\ EventsGood(r, d)
Decisions == {"start", "continue", "end", "cancel", "max"}

\* Of sequences of events.
LEMMA TurnsSaid ==
  /\ <<>> \in Seq(Names) /\ \A a \in Names : <<a>> \in Seq(Names)
  /\ \A a \in {"open", "audio", "cancel", "barge", "commit"} : a \in Names
  /\ \A q \in Seq(Names), a \in Names : Append(q, a) \in Seq(Names)
  /\ \A e : e \notin Turns!ToSet(<<>>)
  /\ \A a, e : e \in Turns!ToSet(<<a>>) <=> e = a
  /\ \A q \in Seq(Names), a \in Names : \A e : e \in Turns!ToSet(Append(q, a)) <=> e \in Turns!ToSet(q) \/ e = a
<1>1. \A e : e \notin Turns!ToSet(<<>>)
  BY DEF Turns!ToSet
<1>2. \A a, e : e \in Turns!ToSet(<<a>>) <=> e = a
  BY DEF Turns!ToSet
<1>3. ASSUME NEW q \in Seq(Names), NEW a \in Names, NEW e
      PROVE  e \in Turns!ToSet(Append(q, a)) <=> e \in Turns!ToSet(q) \/ e = a
  <2>0. Append(q, a) \in Seq(Names) /\ Len(Append(q, a)) = Len(q) + 1 /\ Len(q) \in Nat
    OBVIOUS
  <2>1. /\ Len(Append(q, a)) = Len(q) + 1 /\ Len(q) \in Nat
        /\ \A i \in 1 .. Len(q) : Append(q, a)[i] = q[i]
        /\ Append(q, a)[Len(q) + 1] = a
        /\ DOMAIN q = 1 .. Len(q) /\ DOMAIN Append(q, a) = 1 .. (Len(q) + 1)
    BY <2>0
  <2>2. \A i : i \in 1 .. (Len(q) + 1) <=> i \in 1 .. Len(q) \/ i = Len(q) + 1
    BY <2>1
  <2>3. e \in Turns!ToSet(Append(q, a)) <=> \E i \in 1 .. (Len(q) + 1) : e = Append(q, a)[i]
    BY <2>1 DEF Turns!ToSet
  <2>4. e \in Turns!ToSet(q) <=> \E i \in 1 .. Len(q) : e = q[i]
    BY <2>1 DEF Turns!ToSet
  <2> QED BY <2>1, <2>2, <2>3, <2>4
<1>4. /\ <<>> \in Seq(Names) /\ \A a \in Names : <<a>> \in Seq(Names)
      /\ \A q \in Seq(Names), a \in Names : Append(q, a) \in Seq(Names)
  OBVIOUS
<1>5. \A a \in {"open", "audio", "cancel", "barge", "commit"} : a \in Names
  BY DEF Names
<1> QED BY <1>1, <1>2, <1>3, <1>4, <1>5

\* It holds to begin with.
LEMMA TurnsInitInv == ASSUME Turns!Durations PROVE Turns!Init => Turns!IInv
<1> SUFFICES ASSUME Turns!Init PROVE Turns!IInv
  OBVIOUS
<1>1. cfg \in [semantic : BOOLEAN, interrupts : BOOLEAN, silence : Nat, padding : Nat]
  <2>1. PICK t \in Turns!Requests : cfg = Turns!VADParams(Turns!Normalize(t))
    BY DEF Turns!Init
  <2>2. t \in [semantic : BOOLEAN, interrupts : BOOLEAN, silence : Nat, padding : Nat]
    BY DEF Turns!Requests, Turns!Durations
  <2>3. \A n \in Nat, m \in Nat, k \in Nat : Turns!Clamped(n, m, k) \in Nat /\ Turns!Shorter(m, n) \in Nat
    BY DEF Turns!Clamped, Turns!Shorter
  <2>4. Turns!Normalize(t) \in [semantic : BOOLEAN, interrupts : BOOLEAN, silence : Nat, padding : Nat]
    BY <2>2, <2>3 DEF Turns!Normalize, Turns!Durations
  <2>5. ASSUME NEW u \in [semantic : BOOLEAN, interrupts : BOOLEAN, silence : Nat, padding : Nat]
        PROVE  Turns!VADParams(u) \in [semantic : BOOLEAN, interrupts : BOOLEAN, silence : Nat, padding : Nat]
    BY <2>3 DEF Turns!VADParams, Turns!Durations
  <2> QED BY <2>1, <2>4, <2>5
<1>2. det \in [on : BOOLEAN, len : Nat, quietFrom : Nat] /\ ~det.on /\ Turns!Measured
  BY DEF Turns!Init, Turns!NoSegment, Turns!Measured
<1>3. preroll = <<>> /\ Len(preroll) = 0 /\ preroll \in Seq(BOOLEAN)
  BY DEF Turns!Init
<1>4. pipe \in Pipes /\ pipe.state = "idle"
  BY DEF Turns!Init, Turns!Open, Pipes, Turns!Partials
<1>5. /\ turn \in [heard : BOOLEAN, blip : BOOLEAN, forced : BOOLEAN, twice : BOOLEAN]
      /\ ~turn.twice /\ events = <<>>
  BY DEF Turns!Init
<1>6. Turns!Silent
  BY <1>1, <1>2, <1>3 DEF Turns!Silent, Turns!Since
<1>7. Turns!TurnsAreKept
  BY <1>2, <1>4, <1>5, TurnsSaid DEF Turns!TurnsAreKept, Turns!Said
<1> QED BY <1>1, <1>2, <1>3, <1>4, <1>5, <1>6, <1>7 DEF Turns!IInv, Turns!TypeOK, Pipes, Turns!Interrupted

\* What the detector decides of a window.
LEMMA TurnsPush ==
  ASSUME Turns!Durations, Turns!IInv, NEW w \in Turns!Windows
  PROVE  /\ Turns!Push(w) \in Decisions
         /\ Turns!Push(w) = "start" <=> ~det.on /\ w = "speech"
         /\ Turns!Push(w) \in {"end", "cancel"} =>
              det.on /\ w = "quiet" /\ det.len - Turns!QuietFrom + 1 >= cfg.silence
         /\ Turns!Push(w) = "max" => det.on
<1>1. CASE ~det.on
  BY <1>1 DEF Turns!Push, Decisions
<1>2. CASE det.on
  BY <1>2 DEF Turns!Push, Decisions
<1> QED BY <1>1, <1>2

\* A result whose pipeline and events are these.
LEMMA TurnsMade ==
  ASSUME NEW h, NEW d, NEW p, NEW es, h = Turns!Result(p, es), PipeGood(p), es \in Seq(Names),
         "cancel" \in Turns!ToSet(es) \/ "commit" \in Turns!ToSet(es) => p.state = "idle",
         "cancel" \in Turns!ToSet(es) => d = "cancel" \/ (p.over /\ ~p.barged /\ p.partial \in {"yeah", "hmm"}),
         "commit" \in Turns!ToSet(es) => d = "max" \/ (p.over /\ cfg.interrupts => p.barged)
  PROVE  ResultGood(h, d) /\ h.pipe = p /\ h.events = es
<1>1. h.pipe = p /\ h.events = es
  BY DEF Turns!Result
<1> QED BY <1>1 DEF ResultGood, EventsGood, Says

\* What the pipeline makes of it.
LEMMA TurnsHandle ==
  ASSUME Turns!Durations, Turns!IInv, NEW w \in Turns!Windows, NEW playing \in BOOLEAN, NEW d, d = Turns!Push(w)
  PROVE  /\ ResultGood(Turns!handle(d, playing), d)
         /\ Turns!handle(d, playing).pipe.state = "capture" <=> Turns!InSpeech(d)
<1> DEFINE h == Turns!handle(d, playing)
<1>1. /\ pipe \in Pipes /\ (pipe.state = "capture" <=> det.on)
      /\ cfg.silence \in Nat /\ cfg.interrupts \in BOOLEAN /\ cfg.semantic \in BOOLEAN /\ det.on \in BOOLEAN
      /\ PipeGood(pipe)
  BY DEF Turns!IInv, Turns!TypeOK, Turns!TurnsAreKept, Turns!Interrupted, PipeGood, Pipes
<1>2. /\ d \in Decisions /\ (d = "start" => ~det.on) /\ (d \in {"end", "cancel", "max"} => det.on)
  BY TurnsPush
<1>4. CASE d = "start" /\ pipe.state = "idle"
  <2> DEFINE p == Turns!Open(playing)
  <2>1. h = Turns!Result(p, <<"open">>)
    BY <1>4 DEF Turns!handle
  <2>2. PipeGood(p) /\ p.state = "capture"
    BY DEF Turns!Open, Pipes, Turns!Partials, PipeGood
  <2> HIDE DEF h, p
  <2>9. <<"open">> \in Seq(Names) /\ \A e : e \in Turns!ToSet(<<"open">>) => e = "open"
    BY TurnsSaid
  <2>3. ResultGood(h, d) /\ h.pipe = p
    BY <2>1, <2>2, <2>9, TurnsMade
  <2> QED BY <1>4, <2>2, <2>3 DEF h, Turns!InSpeech
<1>5. CASE d = "start" /\ pipe.state = "await"
  <2> DEFINE p == [pipe EXCEPT !.state = "capture", !.wait = 0]
  <2>1. h = Turns!Result(p, <<"audio">>)
    BY <1>5 DEF Turns!handle
  <2>2. PipeGood(p) /\ p.state = "capture"
    BY <1>1 DEF Pipes, PipeGood
  <2> HIDE DEF h, p
  <2>9. <<"audio">> \in Seq(Names) /\ \A e : e \in Turns!ToSet(<<"audio">>) => e = "audio"
    BY TurnsSaid
  <2>3. ResultGood(h, d) /\ h.pipe = p
    BY <2>1, <2>2, <2>9, TurnsMade
  <2> QED BY <1>5, <2>2, <2>3 DEF h, Turns!InSpeech
<1>6. CASE d = "continue" /\ det.on
  <2> DEFINE p == [pipe EXCEPT !.speech = Turns!Shorter(pipe.speech + 1, BargeInConfirm)]
  <2>1. h = Turns!Result(p, <<"audio">>)
    BY <1>1, <1>6 DEF Turns!handle
  <2>2. Turns!Shorter(pipe.speech + 1, BargeInConfirm) \in Nat
    BY <1>1 DEF Turns!Shorter, Turns!Durations, Pipes
  <2>3. PipeGood(p) /\ p.state = "capture"
    BY <1>1, <1>6, <2>2 DEF Pipes, PipeGood
  <2> HIDE DEF h, p
  <2>9. <<"audio">> \in Seq(Names) /\ \A e : e \in Turns!ToSet(<<"audio">>) => e = "audio"
    BY TurnsSaid
  <2>4. ResultGood(h, d) /\ h.pipe = p
    BY <2>1, <2>3, <2>9, TurnsMade
  <2> QED BY <1>6, <2>3, <2>4 DEF h, Turns!InSpeech
<1>7. CASE d \in {"cancel", "max"}
  <2> DEFINE es == IF d = "max" THEN <<"commit">> ELSE <<"cancel">>
             p == [pipe EXCEPT !.state = "idle"]
  <2>1. h = Turns!Result(p, es)
    BY <1>1, <1>2, <1>7 DEF Turns!handle
  <2>2. PipeGood(p) /\ p.state = "idle"
    BY <1>1 DEF Pipes, PipeGood
  <2>3. es \in Seq(Names) /\ \A e : e \in Turns!ToSet(es) => (e = "commit" /\ d = "max") \/ (e = "cancel" /\ d = "cancel")
    BY <1>7, TurnsSaid
  <2> HIDE DEF h, es, p
  <2>4. ResultGood(h, d) /\ h.pipe = p
    BY <2>1, <2>2, <2>3, TurnsMade
  <2> QED BY <1>7, <2>2, <2>4 DEF h, Turns!InSpeech
<1>8. CASE d = "end"
  <2>1. h = Turns!Ended /\ ~Turns!InSpeech(d)
    BY <1>1, <1>2, <1>8 DEF Turns!handle, Turns!InSpeech
  <2> DEFINE cuts == pipe.over /\ ~pipe.barged /\ cfg.interrupts
             b == pipe.barged \/ cuts
             es == IF cuts THEN <<"barge">> ELSE <<>>
  <2>2. b \in BOOLEAN /\ (pipe.over /\ cfg.interrupts => b)
    BY <1>1 DEF Pipes
  <2>3. es \in Seq(Names) /\ \A e : e \in Turns!ToSet(es) => e = "barge"
    BY TurnsSaid
  <2>4. CASE Turns!Discards
    <3> DEFINE p == [pipe EXCEPT !.state = "idle"]
    <3>1. h = Turns!Result(p, <<"cancel">>)
      BY <2>1, <2>4 DEF Turns!Ended
    <3>2. PipeGood(p) /\ p.state = "idle"
      BY <1>1 DEF Pipes, PipeGood
    <3>3. p.over /\ ~p.barged /\ p.partial \in {"yeah", "hmm"}
      BY <1>1, <2>4 DEF Turns!Discards, Turns!IsBackchannel, Pipes
    <3> HIDE DEF h, p
    <3>9. <<"cancel">> \in Seq(Names) /\ \A e : e \in Turns!ToSet(<<"cancel">>) => e = "cancel"
      BY TurnsSaid
    <3>4. ResultGood(h, d) /\ h.pipe = p
      BY <3>1, <3>2, <3>3, <3>9, TurnsMade
    <3> QED BY <2>1, <3>2, <3>4 DEF h
  <2>5. CASE ~Turns!Discards /\ cfg.semantic /\ ~Turns!Commits(pipe.partial, BaseSilence)
    <3> DEFINE q == [pipe EXCEPT !.barged = b]
               p == [q EXCEPT !.state = "await", !.wait = BaseSilence]
    <3>1. h = Turns!Result(p, es)
      BY <2>1, <2>5 DEF Turns!Ended
    <3>2. BaseSilence < MaxWait /\ BaseSilence \in Nat
      BY <2>5 DEF Turns!Commits, Turns!Durations
    <3>3. q \in Pipes /\ q.barged = b /\ q.over = pipe.over
      <4> HIDE DEF b
      <4> QED BY <1>1, <2>2 DEF Pipes
    <3> HIDE DEF h, b, es, q
    <3>4. p \in Pipes /\ p.state = "await" /\ p.wait = BaseSilence /\ p.barged = b /\ p.over = pipe.over
      BY <3>2, <3>3 DEF Pipes
    <3> HIDE DEF p
    <3>5. ResultGood(h, d) /\ h.pipe = p
      BY <2>2, <2>3, <3>1, <3>2, <3>4, TurnsMade DEF PipeGood
    <3> QED BY <2>1, <3>4, <3>5 DEF h
  <2>6. CASE ~Turns!Discards /\ ~(cfg.semantic /\ ~Turns!Commits(pipe.partial, BaseSilence))
    <3> DEFINE q == [pipe EXCEPT !.barged = b]
               p == [q EXCEPT !.state = "idle"]
    <3>1. h = Turns!Result(p, Append(es, "commit"))
      BY <2>1, <2>6 DEF Turns!Ended
    <3>2. q \in Pipes /\ q.barged = b /\ q.over = pipe.over
      <4> HIDE DEF b
      <4> QED BY <1>1, <2>2 DEF Pipes
    <3> HIDE DEF h, b, es, q
    <3>3. p \in Pipes /\ p.state = "idle" /\ p.barged = b /\ p.over = pipe.over
      BY <3>2 DEF Pipes
    <3>4. Append(es, "commit") \in Seq(Names)
      BY <2>3, TurnsSaid
    <3>5. \A e : e \in Turns!ToSet(Append(es, "commit")) => e \in {"barge", "commit"}
      BY <2>3, TurnsSaid
    <3> HIDE DEF p
    <3>6. ResultGood(h, d) /\ h.pipe = p
      BY <2>2, <3>1, <3>3, <3>4, <3>5, TurnsMade DEF PipeGood
    <3> QED BY <2>1, <3>3, <3>6 DEF h
  <2> QED BY <2>4, <2>5, <2>6
<1>9. CASE d = "continue" /\ ~det.on
  <2>1. h = Turns!Result(pipe, <<>>)
    BY <1>1, <1>9 DEF Turns!handle
  <2> HIDE DEF h
  <2>2. ResultGood(h, d) /\ h.pipe = pipe
    BY <1>1, <2>1, TurnsMade, TurnsSaid
  <2> QED BY <1>1, <1>9, <2>2 DEF h, Turns!InSpeech
<1> QED BY <1>1, <1>2, <1>4, <1>5, <1>6, <1>7, <1>8, <1>9 DEF Pipes, Decisions

\* What the timers of the chunk make of that.
LEMMA TurnsTick ==
  ASSUME Turns!Durations, NEW r, NEW d, ResultGood(r, d), NEW playing \in BOOLEAN
  PROVE  /\ ResultGood(Turns!tick(r, playing), d)
         /\ Turns!tick(r, playing).pipe.state = "capture" <=> r.pipe.state = "capture"
<1> DEFINE h == Turns!tick(r, playing)
           q == r.pipe
           es == r.events
<1>1. /\ PipeGood(q) /\ q \in Pipes /\ es \in Seq(Names) /\ r = Turns!Result(q, es)
      /\ q.state # "idle" => "cancel" \notin Turns!ToSet(es) /\ "commit" \notin Turns!ToSet(es)
  BY DEF ResultGood, PipeGood, EventsGood, Says
<1> HIDE DEF q, es
<1>2. \A a \in Names : /\ Append(es, a) \in Seq(Names)
                       /\ \A e : e \in Turns!ToSet(Append(es, a)) <=> e \in Turns!ToSet(es) \/ e = a
  BY <1>1, TurnsSaid
<1>3. "commit" \in Names /\ "barge" \in Names
  BY DEF Names
<1>4. CASE q.state = "await" /\ Turns!Commits(q.partial, q.wait + 1)
  <2> DEFINE p == [q EXCEPT !.state = "idle", !.wait = q.wait + 1]
  <2>1. h = Turns!Result(p, Append(es, "commit"))
    BY <1>4 DEF Turns!tick, q, es
  <2>2. p \in Pipes /\ p.state = "idle" /\ p.over = q.over /\ p.barged = q.barged
    <3>1. q.wait \in Nat /\ q.wait + 1 \in Nat
      BY <1>1 DEF Pipes
    <3> QED BY <1>1, <3>1 DEF Pipes
  <2>3. q.over /\ cfg.interrupts => q.barged
    BY <1>1, <1>4 DEF PipeGood
  <2> HIDE DEF h, p
  <2>4. "cancel" \notin Turns!ToSet(Append(es, "commit")) /\ Append(es, "commit") \in Seq(Names)
    BY <1>1, <1>2, <1>3, <1>4
  <2>5. ResultGood(h, d) /\ h.pipe = p
    BY <2>1, <2>2, <2>3, <2>4, TurnsMade DEF PipeGood
  <2> QED BY <1>4, <2>2, <2>5 DEF h, q
<1>5. CASE q.state = "await" /\ ~Turns!Commits(q.partial, q.wait + 1)
  <2> DEFINE p == [q EXCEPT !.wait = q.wait + 1]
  <2>1. h = Turns!Result(p, es)
    BY <1>5 DEF Turns!tick, q, es
  <2>2. /\ p \in Pipes /\ p.state = "await" /\ p.over = q.over /\ p.barged = q.barged
        /\ p.wait = q.wait + 1 /\ q.wait \in Nat
    BY <1>1, <1>5 DEF Pipes
  <2>3. q.wait + 1 < MaxWait
    BY <1>5, <2>2 DEF Turns!Commits, Turns!Durations
  <2> HIDE DEF h, p
  <2>4. PipeGood(p)
    BY <1>1, <1>5, <2>2, <2>3 DEF PipeGood
  <2>5. ResultGood(h, d) /\ h.pipe = p
    BY <1>1, <1>5, <2>1, <2>4, TurnsMade
  <2> QED BY <1>5, <2>2, <2>5 DEF h, q
<1>6. CASE q.state # "await" /\ playing /\ q.state = "capture" /\ ~q.barged /\ cfg.interrupts /\ Turns!confirmBargeIn(q)
  <2> DEFINE p == [q EXCEPT !.barged = TRUE]
  <2>1. h = Turns!Result(p, Append(es, "barge"))
    BY <1>6 DEF Turns!tick, q, es
  <2>2. p \in Pipes /\ p.state = "capture"
    BY <1>1, <1>6 DEF Pipes
  <2> HIDE DEF h, p
  <2>3. /\ Append(es, "barge") \in Seq(Names) /\ "cancel" \notin Turns!ToSet(Append(es, "barge"))
        /\ "commit" \notin Turns!ToSet(Append(es, "barge"))
    BY <1>1, <1>2, <1>3, <1>6
  <2>4. ResultGood(h, d) /\ h.pipe = p
    BY <2>1, <2>2, <2>3, TurnsMade DEF PipeGood
  <2> QED BY <1>6, <2>2, <2>4 DEF h, q
<1>7. CASE /\ q.state # "await"
           /\ ~(playing /\ q.state = "capture" /\ ~q.barged /\ cfg.interrupts /\ Turns!confirmBargeIn(q))
  <2>1. h = r
    BY <1>7 DEF Turns!tick, q
  <2> QED BY <2>1
<1> QED BY <1>4, <1>5, <1>6, <1>7

\* The pre-roll takes one window more, and keeps the last ones.
LEMMA TurnsRolls ==
  ASSUME NEW q \in Seq(BOOLEAN), NEW n \in Nat, Len(q) <= n, NEW b \in BOOLEAN, NEW all, all = Append(q, b),
         NEW z, z = IF Len(all) > n THEN Tail(all) ELSE all
  PROVE  /\ z \in Seq(BOOLEAN) /\ Len(z) <= n
         /\ ~b => \A k \in Nat :
              (\A i \in 1 .. Len(q) : i > Len(q) - k => ~q[i]) => \A i \in 1 .. Len(z) : i > Len(z) - (k + 1) => ~z[i]
<1>1. /\ all \in Seq(BOOLEAN) /\ Len(all) = Len(q) + 1 /\ Len(q) \in Nat /\ all[Len(q) + 1] = b
      /\ \A i \in 1 .. Len(q) : all[i] = q[i]
  OBVIOUS
<1>2. CASE Len(all) > n
  <2>1. z = Tail(all) /\ all # <<>>
    BY <1>1, <1>2
  <2>2. z \in Seq(BOOLEAN) /\ Len(z) = Len(q) /\ \A i \in 1 .. Len(z) : z[i] = all[i + 1]
    <3>1. Tail(all) \in Seq(BOOLEAN) /\ Len(Tail(all)) = Len(all) - 1
      BY <1>1, <2>1
    <3>2. \A i \in 1 .. Len(Tail(all)) : Tail(all)[i] = all[i + 1]
      BY <1>1, <2>1
    <3>3. Len(all) - 1 = Len(q)
      BY <1>1
    <3> QED BY <2>1, <3>1, <3>2, <3>3
  <2>3. ASSUME ~b, NEW k \in Nat, \A i \in 1 .. Len(q) : i > Len(q) - k => ~q[i],
               NEW i \in 1 .. Len(z), i > Len(z) - (k + 1)
        PROVE  ~z[i]
    <3>1. i + 1 \in 1 .. Len(q) + 1 /\ i \in Nat /\ i + 1 > Len(q) - k
      BY <1>1, <2>2, <2>3
    <3>2. CASE i = Len(q)
      BY <1>1, <2>2, <2>3, <3>2
    <3>3. CASE i # Len(q)
      <4>1. i + 1 \in 1 .. Len(q)
        BY <1>1, <2>2, <3>1, <3>3
      <4> QED BY <1>1, <2>2, <2>3, <3>1, <4>1
    <3> QED BY <3>2, <3>3
  <2>4. Len(z) <= n
    BY <1>1, <2>2
  <2> QED BY <2>2, <2>3, <2>4
<1>3. CASE ~(Len(all) > n)
  <2>1. z = all /\ z \in Seq(BOOLEAN) /\ Len(z) = Len(q) + 1 /\ Len(z) <= n
    BY <1>1, <1>3
  <2>2. ASSUME ~b, NEW k \in Nat, \A i \in 1 .. Len(q) : i > Len(q) - k => ~q[i],
               NEW i \in 1 .. Len(z), i > Len(z) - (k + 1)
        PROVE  ~z[i]
    <3>1. i > Len(q) - k
      BY <1>1, <2>1, <2>2
    <3>2. CASE i = Len(q) + 1
      BY <1>1, <2>1, <2>2, <3>2
    <3>3. CASE i # Len(q) + 1
      <4>1. i \in 1 .. Len(q)
        BY <1>1, <2>1, <3>3
      <4> QED BY <1>1, <2>1, <2>2, <3>1, <4>1
    <3> QED BY <3>2, <3>3
  <2> QED BY <2>1, <2>2
<1> QED BY <1>2, <1>3

\* The parts that the timers change, whatever the detector decided.
LEMMA TurnsResultKept ==
  ASSUME Turns!Durations, NEW r, NEW d, ResultGood(r, d), pipe' = r.pipe, events' = r.events, UNCHANGED cfg,
         r.pipe.state = "capture" <=> det'.on,
         d = "cancel" => turn'.blip, d = "max" => turn'.forced,
         turn'.twice => turn'.forced \/ cfg.padding >= cfg.silence
  PROVE  pipe' \in Pipes /\ Turns!Interrupted' /\ Turns!TurnsAreKept'
<1>1. pipe' \in Pipes /\ Turns!Interrupted'
  BY DEF ResultGood, PipeGood, Turns!Interrupted
<1>2. pipe'.state = "await" => pipe'.wait < MaxWait
  BY DEF ResultGood, PipeGood
<1>3. "cancel" \in Turns!ToSet(events') =>
        d = "cancel" \/ (pipe'.over /\ ~pipe'.barged /\ pipe'.partial \in {"yeah", "hmm"})
  BY DEF ResultGood, EventsGood, Says
<1>4. "commit" \in Turns!ToSet(events') => d = "max" \/ (pipe'.over /\ cfg'.interrupts => pipe'.barged)
  BY DEF ResultGood, EventsGood, Says
<1>5. Turns!Said("cancel")' = ("cancel" \in Turns!ToSet(events')) /\ Turns!Said("commit")' = ("commit" \in Turns!ToSet(events'))
  BY DEF Turns!Said
<1>6. Turns!TurnsAreKept'
  BY <1>2, <1>3, <1>4, <1>5 DEF Turns!TurnsAreKept
<1> QED BY <1>1, <1>6

\* A window goes through the detector and the pipeline.
LEMMA TurnsWriteInv ==
  ASSUME Turns!Durations, Turns!IInv, NEW w \in Turns!Windows, NEW playing \in BOOLEAN, Turns!Write(w, playing)
  PROVE  Turns!IInv'
<1>1. PICK d : d = Turns!Push(w)
  OBVIOUS
<1>2. PICK h : h = Turns!handle(d, playing)
  OBVIOUS
<1>3. PICK r : r = Turns!tick(h, playing)
  OBVIOUS
<1>4. /\ det' = Turns!Pushed(w, d) /\ preroll' = Turns!Rolled(w, d) /\ pipe' = r.pipe /\ events' = r.events
      /\ turn' = Turns!Remembered(d) /\ UNCHANGED cfg
  BY <1>1, <1>2, <1>3 DEF Turns!Write
<1>5. /\ d \in Decisions /\ (d = "start" <=> ~det.on /\ w = "speech") /\ (d = "max" => det.on)
      /\ d \in {"end", "cancel"} => det.on /\ w = "quiet" /\ det.len - Turns!QuietFrom + 1 >= cfg.silence
  BY <1>1, TurnsPush
<1>6. ResultGood(r, d) /\ (r.pipe.state = "capture" <=> Turns!InSpeech(d))
  <2>1. ResultGood(h, d) /\ (h.pipe.state = "capture" <=> Turns!InSpeech(d))
    BY <1>1, <1>2, TurnsHandle
  <2> QED BY <1>3, <2>1, TurnsTick
<1>7. /\ det.on \in BOOLEAN /\ det.len \in Nat /\ det.quietFrom \in Nat /\ Turns!Measured
      /\ cfg.silence \in Nat /\ cfg.padding \in Nat /\ preroll \in Seq(BOOLEAN) /\ Len(preroll) \in Nat
      /\ cfg \in [semantic : BOOLEAN, interrupts : BOOLEAN, silence : Nat, padding : Nat]
  BY DEF Turns!IInv, Turns!TypeOK
<1>8. turn.heard \in BOOLEAN /\ turn.blip \in BOOLEAN /\ turn.forced \in BOOLEAN
  BY DEF Turns!IInv, Turns!TypeOK
<1>9. /\ turn' \in [heard : BOOLEAN, blip : BOOLEAN, forced : BOOLEAN, twice : BOOLEAN]
      /\ turn'.blip <=> d = "cancel" \/ (d # "start" /\ turn.blip)
      /\ turn'.forced <=> d = "max" \/ (d \notin {"end", "cancel"} /\ turn.forced)
      /\ turn'.twice <=> d = "start" /\ TRUE \in Turns!ToSet(preroll)
  <2>1. turn' = [heard |-> (pipe.state # "idle" /\ turn.heard) \/ d = "end",
                 blip |-> d = "cancel" \/ (d # "start" /\ turn.blip),
                 forced |-> d = "max" \/ (d \notin {"end", "cancel"} /\ turn.forced),
                 twice |-> d = "start" /\ TRUE \in Turns!ToSet(preroll)]
    BY <1>4 DEF Turns!Remembered
  <2>2. turn'.heard \in BOOLEAN /\ turn'.blip \in BOOLEAN /\ turn'.forced \in BOOLEAN /\ turn'.twice \in BOOLEAN
    BY <1>8, <2>1
  <2> QED BY <2>1, <2>2
<1>10. /\ det' \in [on : BOOLEAN, len : Nat, quietFrom : Nat] /\ Turns!Measured'
       /\ det'.on <=> Turns!InSpeech(d)
       /\ det'.on => det'.len = det.len + 1
       /\ det'.on => det'.quietFrom = CASE w = "speech" -> 0 [] w = "quiet" -> Turns!QuietFrom [] OTHER -> det.quietFrom
  <2>1. CASE Turns!InSpeech(d)
    <3>1. det' = [on |-> TRUE, len |-> det.len + 1,
                  quietFrom |-> CASE w = "speech" -> 0 [] w = "quiet" -> Turns!QuietFrom [] OTHER -> det.quietFrom]
      BY <1>4, <1>5, <2>1 DEF Turns!Pushed, Turns!InSpeech
    <3>2. Turns!QuietFrom \in Nat /\ Turns!QuietFrom <= det.len /\ det.quietFrom <= det.len
      BY <1>7 DEF Turns!QuietFrom, Turns!Measured, Turns!NoSegment
    <3>3. det'.quietFrom \in Nat /\ det'.quietFrom <= det.len + 1
      BY <1>7, <3>1, <3>2
    <3> QED BY <1>7, <2>1, <3>1, <3>3 DEF Turns!Measured
  <2>2. CASE ~Turns!InSpeech(d)
    <3>1. det' = Turns!NoSegment
      BY <1>4, <1>5, <2>2 DEF Turns!Pushed, Turns!InSpeech, Decisions
    <3> QED BY <2>2, <3>1 DEF Turns!Measured, Turns!NoSegment
  <2> QED BY <2>1, <2>2
<1>11. PICK b \in BOOLEAN : b = (w = "speech" /\ Turns!InSpeech(d))
  OBVIOUS
<1>12. /\ preroll' \in Seq(BOOLEAN) /\ Len(preroll') <= cfg.padding
       /\ ~b => \A k \in Nat : Turns!Since(k) =>
            \A i \in 1 .. Len(preroll') : i > Len(preroll') - (k + 1) => ~preroll'[i]
  <2>1. PICK all : all = Append(preroll, b)
    OBVIOUS
  <2>2. preroll' = IF Len(all) > cfg.padding THEN Tail(all) ELSE all
    BY <1>4, <1>11, <2>1 DEF Turns!Rolled
  <2>3. Len(preroll) <= cfg.padding
    BY DEF Turns!IInv, Turns!Silent
  <2>4. /\ preroll' \in Seq(BOOLEAN) /\ Len(preroll') <= cfg.padding
        /\ ~b => \A k \in Nat :
             (\A i \in 1 .. Len(preroll) : i > Len(preroll) - k => ~preroll[i]) =>
               \A i \in 1 .. Len(preroll') : i > Len(preroll') - (k + 1) => ~preroll'[i]
    BY <1>7, <2>1, <2>2, <2>3, TurnsRolls
  <2> QED BY <2>4 DEF Turns!Since
<1>13. Len(preroll') \in Nat
  BY <1>12
\* The windows since a silence began.
<1>14. ASSUME det'.on, det'.quietFrom # 0, NEW i \in 1 .. Len(preroll'), i > Len(preroll') - (det'.len - det'.quietFrom)
       PROVE  ~preroll'[i]
  <2>1. Turns!InSpeech(d) /\ w # "speech" /\ ~b /\ det.on /\ d = "continue"
    BY <1>5, <1>10, <1>11, <1>14 DEF Turns!InSpeech
  <2>2. det'.len = det.len + 1 /\ (det'.quietFrom = Turns!QuietFrom \/ det'.quietFrom = det.quietFrom)
    BY <1>10, <1>14, <2>1
  <2>3. det.len > 0 /\ det.quietFrom <= det.len
    BY <1>7, <2>1 DEF Turns!Measured
  <2>4. CASE det.quietFrom # 0
    <3>1. Turns!Since(det.len - det.quietFrom) /\ det'.quietFrom = det.quietFrom /\ det.len - det.quietFrom \in Nat
      BY <1>7, <2>1, <2>2, <2>3, <2>4 DEF Turns!IInv, Turns!Silent, Turns!QuietFrom
    <3>2. i > Len(preroll') - (det.len - det.quietFrom + 1)
      BY <1>7, <1>13, <1>14, <2>2, <3>1
    <3> QED BY <1>12, <1>14, <2>1, <3>1, <3>2
  <2>5. CASE det.quietFrom = 0
    <3>1. det'.quietFrom = det.len
      BY <1>10, <1>14, <2>2, <2>5 DEF Turns!QuietFrom
    <3>2. Turns!Since(0) /\ i > Len(preroll') - (0 + 1)
      BY <1>7, <1>13, <1>14, <2>2, <3>1 DEF Turns!Since
    <3> QED BY <1>12, <1>14, <2>1, <3>2
  <2> QED BY <2>4, <2>5
<1>15. ASSUME ~det'.on, ~turn'.forced, NEW i \in 1 .. Len(preroll'), i > Len(preroll') - cfg.silence
       PROVE  ~preroll'[i]
  <2>1. ~Turns!InSpeech(d) /\ ~b /\ d # "max" /\ d # "start"
    BY <1>9, <1>10, <1>11, <1>15 DEF Turns!InSpeech
  <2>2. CASE d \in {"end", "cancel"}
    <3>1. PICK k \in Nat : Turns!Since(k) /\ k + 1 >= cfg.silence
      <4>1. det.on /\ det.len - Turns!QuietFrom + 1 >= cfg.silence /\ det.len > 0 /\ det.quietFrom <= det.len
        BY <1>5, <1>7, <2>2 DEF Turns!Measured
      <4>2. CASE det.quietFrom # 0
        <5>1. Turns!Since(det.len - det.quietFrom) /\ det.len - det.quietFrom \in Nat
          BY <1>7, <4>1, <4>2 DEF Turns!IInv, Turns!Silent
        <5> QED BY <4>1, <4>2, <5>1 DEF Turns!QuietFrom
      <4>3. CASE det.quietFrom = 0
        <5>1. Turns!Since(0) /\ 0 + 1 >= cfg.silence
          BY <1>7, <4>1, <4>3 DEF Turns!QuietFrom, Turns!Since
        <5> QED BY <5>1
      <4> QED BY <4>2, <4>3
    <3>2. i > Len(preroll') - (k + 1)
      BY <1>7, <1>13, <1>15, <3>1
    <3> QED BY <1>12, <1>15, <2>1, <3>1, <3>2
  <2>3. CASE d = "continue"
    <3>1. ~det.on /\ ~turn.forced
      BY <1>7, <1>8, <1>9, <1>15, <2>1, <2>3 DEF Turns!InSpeech
    <3>2. Turns!Since(cfg.silence)
      BY <3>1 DEF Turns!IInv, Turns!Silent
    <3>3. i > Len(preroll') - (cfg.silence + 1)
      BY <1>7, <1>13, <1>15
    <3> QED BY <1>7, <1>12, <1>15, <2>1, <3>2, <3>3
  <2> QED BY <1>5, <2>1, <2>2, <2>3 DEF Decisions
<1>16. Turns!Silent'
  BY <1>4, <1>12, <1>14, <1>15 DEF Turns!Silent, Turns!Since
<1>17. turn'.twice => turn'.forced \/ cfg.padding >= cfg.silence
  <2> SUFFICES ASSUME turn'.twice, ~turn'.forced, ~(cfg.padding >= cfg.silence) PROVE FALSE
    OBVIOUS
  <2>1. d = "start" /\ TRUE \in Turns!ToSet(preroll) /\ ~det.on /\ ~turn.forced
    BY <1>5, <1>9
  <2>2. Turns!Since(cfg.silence) /\ Len(preroll) <= cfg.padding
    BY <2>1 DEF Turns!IInv, Turns!Silent
  <2>3. PICK i \in 1 .. Len(preroll) : preroll[i] = TRUE
    <3>1. DOMAIN preroll = 1 .. Len(preroll)
      BY <1>7
    <3> QED BY <2>1, <3>1 DEF Turns!ToSet
  <2>4. i > Len(preroll) - cfg.silence
    BY <1>7, <2>2
  <2> QED BY <2>2, <2>3, <2>4 DEF Turns!Since
<1>18. pipe' \in Pipes /\ Turns!Interrupted' /\ Turns!TurnsAreKept'
  BY <1>4, <1>6, <1>9, <1>10, <1>17, TurnsResultKept
<1> QED BY <1>4, <1>7, <1>9, <1>10, <1>12, <1>16, <1>18 DEF Turns!IInv, Turns!TypeOK, Pipes

\* A window is dropped, or the recognizer says more of the open turn.
LEMMA TurnsOtherInv ==
  ASSUME Turns!Durations, Turns!IInv,
         \/ \E playing \in BOOLEAN : Turns!WriteFails(playing)
         \/ \E p \in Turns!Partials : Turns!Observe(p)
         \/ UNCHANGED Turns!vars
  PROVE  Turns!IInv'
<1>1. /\ pipe \in Pipes /\ PipeGood(pipe) /\ (pipe.state = "capture" <=> det.on)
      /\ turn.twice => turn.forced \/ cfg.padding >= cfg.silence
  BY DEF Turns!IInv, Turns!TypeOK, Turns!TurnsAreKept, Turns!Interrupted, PipeGood, Pipes
<1>2. ASSUME UNCHANGED <<cfg, det, preroll, turn>>, pipe' \in Pipes, Turns!Interrupted', Turns!TurnsAreKept'
      PROVE  Turns!IInv'
  <2>1. Turns!Measured'
    BY <1>2 DEF Turns!IInv, Turns!Measured, Turns!NoSegment
  <2>2. Turns!Silent'
    BY <1>2 DEF Turns!IInv, Turns!Silent, Turns!Since
  <2> QED BY <1>2, <2>1, <2>2 DEF Turns!IInv, Turns!TypeOK, Pipes
<1>3. ASSUME NEW playing \in BOOLEAN, Turns!WriteFails(playing) PROVE Turns!IInv'
  <2>1. PICK h : h = Turns!Result(pipe, <<>>)
    OBVIOUS
  <2>2. PICK r : r = Turns!tick(h, playing)
    OBVIOUS
  <2>3. ResultGood(h, "continue") /\ h.pipe = pipe
    BY <1>1, <2>1, TurnsMade, TurnsSaid
  <2>4. ResultGood(r, "continue") /\ (r.pipe.state = "capture" <=> det.on)
    BY <1>1, <2>2, <2>3, TurnsTick
  <2>5. pipe' = r.pipe /\ events' = r.events /\ UNCHANGED <<cfg, det, preroll, turn>>
    BY <1>3, <2>1, <2>2 DEF Turns!WriteFails
  <2> QED BY <1>1, <1>2, <2>4, <2>5, TurnsResultKept
<1>4. ASSUME NEW p \in Turns!Partials, Turns!Observe(p) PROVE Turns!IInv'
  <2>1. /\ pipe' = [pipe EXCEPT !.partial = p] /\ events' = <<>> /\ UNCHANGED <<cfg, det, preroll, turn>>
    BY <1>4 DEF Turns!Observe
  <2>2. PipeGood(pipe') /\ pipe'.state = pipe.state
    BY <1>1, <2>1 DEF Pipes, PipeGood
  <2>3. PICK h : h = Turns!Result(pipe', <<>>)
    OBVIOUS
  <2>9. <<>> \in Seq(Names) /\ \A e : e \notin Turns!ToSet(<<>>)
    BY TurnsSaid
  <2>4. ResultGood(h, "continue") /\ h.pipe = pipe' /\ h.events = events'
    BY <2>1, <2>2, <2>3, <2>9, TurnsMade
  <2> QED BY <1>1, <1>2, <2>1, <2>2, <2>4, TurnsResultKept
<1>5. CASE UNCHANGED Turns!vars
  <2>1. UNCHANGED <<cfg, det, preroll, pipe, events, turn>>
    BY <1>5 DEF Turns!vars
  <2>2. Turns!Interrupted' /\ Turns!TurnsAreKept'
    BY <2>1 DEF Turns!IInv, Turns!Interrupted, Turns!TurnsAreKept, Turns!Said
  <2> QED BY <1>1, <1>2, <2>1, <2>2
<1> QED BY <1>3, <1>4, <1>5

\* A window, a word recognized, a window lost: it is kept.
LEMMA TurnsNextInv == ASSUME Turns!Durations, Turns!IInv, Turns!Next \/ UNCHANGED Turns!vars PROVE Turns!IInv'
  BY TurnsWriteInv, TurnsOtherInv DEF Turns!Next

-----------------------------------------------------------------------------
(* StepReferences: what a step refers to is there when the step is reached.   *)
(* What is visible to a step is computed over the tree, and what a condition  *)
(* leads to round by round: induction, from the least natural number of a     *)
(* set, gives both their equations and what follows from them.                *)

\* Every nonempty set of natural numbers has a least element.
LEMMA Least ==
  ASSUME NEW S, S \subseteq Nat, S # {}
  PROVE  \E m \in S : \A k \in S : m <= k
<1> DEFINE R == OpToRel(<, Nat)
<1>1. IsWellFoundedOn(R, Nat) BY NatLessThanWellFounded
<1>2. \A y, x \in Nat : <<y, x>> \in R <=> y < x BY DEF OpToRel
<1> HIDE DEF R
<1>3. PICK m \in S : \A k \in S : ~ (<<k, m>> \in R) BY <1>1, WFMin
<1>4. ASSUME NEW k \in S PROVE m <= k
  <2>1. k \in Nat /\ m \in Nat OBVIOUS
  <2>2. ~(k < m) BY <1>2, <1>3, <2>1
  <2> QED BY <2>1, <2>2
<1> QED BY <1>4

LEMMA Induction ==
  ASSUME NEW S, 0 \in S, \A n \in Nat : n \in S => n + 1 \in S
  PROVE  Nat \subseteq S
<1>1. SUFFICES ASSUME Nat \ S # {} PROVE FALSE OBVIOUS
<1>2. PICK m \in Nat \ S : \A k \in Nat \ S : m <= k BY <1>1, Least
<1>3. m - 1 \in Nat /\ m = (m - 1) + 1 BY <1>2
<1> QED BY <1>2, <1>3

Follows(f, n, up, G) == \A i \in 1 .. n : f[i] = G[<<f[up[i]], i>>]

\* A function whose value at i is computed from the value at an earlier place exists.
LEMMA Recursion ==
  ASSUME NEW n \in Nat, NEW X, NEW x0 \in X, NEW G \in [X \X (1 .. n) -> X],
         NEW up, \A i \in 1 .. n : up[i] \in 0 .. i - 1
  PROVE  \E f \in [0 .. n -> X] : f[0] = x0 /\ Follows(f, n, up, G)
<1> DEFINE S == {k \in Nat : k <= n => \E f \in [0 .. k -> X] : f[0] = x0 /\ Follows(f, k, up, G)}
<1>1. 0 \in S
  <2>1. [i \in 0 .. 0 |-> x0] \in [0 .. 0 -> X] OBVIOUS
  <2>2. [i \in 0 .. 0 |-> x0][0] = x0 OBVIOUS
  <2>3. Follows([i \in 0 .. 0 |-> x0], 0, up, G) BY DEF Follows
  <2> QED BY <2>1, <2>2, <2>3
<1>2. ASSUME NEW k \in Nat, k \in S PROVE k + 1 \in S
  <2>1. SUFFICES ASSUME k + 1 <= n
                 PROVE  \E f \in [0 .. k + 1 -> X] : f[0] = x0 /\ Follows(f, k + 1, up, G)
    OBVIOUS
  <2>2. PICK f \in [0 .. k -> X] : f[0] = x0 /\ Follows(f, k, up, G) BY <1>2, <2>1
  <2> DEFINE y == G[<<f[up[k + 1]], k + 1>>]
             g == [i \in 0 .. k + 1 |-> IF i = k + 1 THEN y ELSE f[i]]
  <2>3. up[k + 1] \in 0 .. k
    <3>1. k + 1 \in 1 .. n /\ (k + 1) - 1 = k BY <2>1
    <3> QED BY <3>1
  <2>4. y \in X
    <3>1. f[up[k + 1]] \in X BY <2>2, <2>3
    <3> QED BY <2>1, <3>1
  <2>5. g \in [0 .. k + 1 -> X]
    <3>1. \A i \in 0 .. k + 1 : i = k + 1 \/ i \in 0 .. k OBVIOUS
    <3> QED BY <2>2, <2>4, <3>1
  <2>6. \A i \in 0 .. k : g[i] = f[i] OBVIOUS
  <2>7. g[k + 1] = y OBVIOUS
  <2>8. \A i \in 1 .. k + 1 : g[i] = G[<<g[up[i]], i>>]
    <3>1. TAKE i \in 1 .. k + 1
    <3>2. CASE i = k + 1
      <4>1. g[up[i]] = f[up[k + 1]] BY <2>3, <2>6, <3>2
      <4> QED BY <2>7, <3>2, <4>1
    <3>3. CASE i \in 1 .. k
      <4>1. up[i] \in 0 .. k
        <5>1. i \in 1 .. n BY <2>1, <3>3
        <5>2. up[i] \in 0 .. i - 1 BY <5>1
        <5> QED BY <3>3, <5>2
      <4>2. g[up[i]] = f[up[i]] /\ g[i] = f[i] BY <2>6, <3>3, <4>1
      <4> QED BY <2>2, <3>3, <4>2 DEF Follows
    <3> QED BY <3>2, <3>3
  <2>9. g[0] = x0 BY <2>2, <2>6
  <2> QED BY <2>5, <2>8, <2>9 DEF Follows
<1>3. Nat \subseteq S BY <1>1, <1>2, Induction
<1> QED BY <1>3


\* The instance has its own copies of two operators on sets.
LEMMA StepsSame ==
  \A S : (Steps!IsFiniteSet(S) <=> IsFiniteSet(S)) /\ Steps!Cardinality(S) = Cardinality(S)
<1>1. TAKE S
<1>2. Steps!IsFiniteSet(S) <=> IsFiniteSet(S) BY DEF Steps!IsFiniteSet, IsFiniteSet
<1>3. Steps!Cardinality(S) = Cardinality(S) BY DEF Steps!Cardinality, Cardinality
<1> QED BY <1>2, <1>3

LEMMA StepsNumbers ==
  ASSUME Steps!Numbered
  PROVE  /\ Cardinality(Ids) \in Nat /\ Ids = 1 .. Cardinality(Ids) /\ IsFiniteSet(Ids)
         /\ {Steps!Top} \cup Ids = 0 .. Cardinality(Ids)
<1>1. IsFiniteSet(Ids) /\ Ids = 1 .. Cardinality(Ids) BY StepsSame DEF Steps!Numbered
<1>2. Cardinality(Ids) \in Nat BY <1>1, FS_CardinalityType
<1> QED BY <1>1, <1>2 DEF Steps!Top

LEMMA StepsAbove ==
  ASSUME Steps!Numbered, NEW d, Steps!Tree(d), NEW i \in Ids
  PROVE  d.up[i] \in 0 .. i - 1
<1>1. d.up[i] \in 0 .. Cardinality(Ids) /\ i \in Nat BY StepsNumbers DEF Steps!Tree
<1> QED BY <1>1 DEF Steps!Tree

\* What is visible to a step, is visible to the step that holds it or stands before it.
LEMMA StepsVisibleDef ==
  ASSUME Steps!Numbered, NEW d, Steps!Tree(d)
  PROVE  /\ Steps!Visible(d)[Steps!Top] = {}
         /\ \A i \in Ids : Steps!Visible(d)[i] = Steps!Visible(d)[d.up[i]] \cup Steps!Before(d, Steps!Entry(d, i))
<1> DEFINE n == Cardinality(Ids)
           Eq(f) == f = [i \in {Steps!Top} \cup Ids |->
                          IF i = Steps!Top THEN {} ELSE f[d.up[i]] \cup Steps!Before(d, Steps!Entry(d, i))]
<1>0. n \in Nat /\ Ids = 1 .. n /\ {Steps!Top} \cup Ids = 0 .. n BY StepsNumbers
<1>1. \E f : Eq(f)
  <2> HIDE DEF n
  <2> DEFINE X == SUBSET Ids
             G == [p \in X \X (1 .. n) |-> p[1] \cup Steps!Before(d, Steps!Entry(d, p[2]))]
  <2>1. \A i : Steps!Before(d, i) \subseteq Ids BY DEF Steps!Before, Steps!Roots, Steps!Level
  <2>2. G \in [X \X (1 .. n) -> X] BY <2>1
  <2>3. \A i \in 1 .. n : d.up[i] \in 0 .. i - 1 BY <1>0, StepsAbove
  <2>4. PICK f \in [0 .. n -> X] : f[0] = {} /\ Follows(f, n, d.up, G)
    <3>1. {} \in X OBVIOUS
    <3> HIDE DEF X, G
    <3> QED BY <1>0, <2>2, <2>3, <3>1, Recursion
  <2>5. \A i \in 1 .. n : f[i] = f[d.up[i]] \cup Steps!Before(d, Steps!Entry(d, i))
    <3>1. TAKE i \in 1 .. n
    <3>2. d.up[i] \in 0 .. n BY <1>0, <2>3
    <3>3. f[d.up[i]] \in X BY <3>2
    <3>4. f[i] = G[<<f[d.up[i]], i>>] BY <2>4 DEF Follows
    <3> QED BY <3>3, <3>4
  <2>6. \A i \in 0 .. n : f[i] = IF i = Steps!Top THEN {} ELSE f[d.up[i]] \cup Steps!Before(d, Steps!Entry(d, i))
    BY <1>0, <2>4, <2>5 DEF Steps!Top
  <2>7. f = [i \in 0 .. n |-> f[i]] BY <2>4
  <2>8. f = [i \in 0 .. n |-> IF i = Steps!Top THEN {} ELSE f[d.up[i]] \cup Steps!Before(d, Steps!Entry(d, i))]
    BY <2>6, <2>7
  <2>9. Eq(f) BY <1>0, <2>8
  <2> QED BY <2>9
<1>2. Steps!Visible(d) = CHOOSE f : Eq(f) BY DEF Steps!Visible
<1>3. Eq(Steps!Visible(d))
  <2> HIDE DEF Eq
  <2> QED BY <1>1, <1>2
<1>4. \A i \in {Steps!Top} \cup Ids : Steps!Visible(d)[i] =
        IF i = Steps!Top THEN {} ELSE Steps!Visible(d)[d.up[i]] \cup Steps!Before(d, Steps!Entry(d, i))
  BY <1>3
<1>5. \A i \in Ids : i # Steps!Top BY <1>0 DEF Steps!Top
<1> HIDE DEF Eq
<1>6. Steps!Visible(d)[Steps!Top] = {} BY <1>4
<1>7. ASSUME NEW i \in Ids PROVE Steps!Visible(d)[i] = Steps!Visible(d)[d.up[i]] \cup Steps!Before(d, Steps!Entry(d, i))
  BY <1>4, <1>5
<1> QED BY <1>6, <1>7

\* A step is in a loop if what holds it is one, or is in one.
LEMMA StepsInLoopDef ==
  ASSUME Steps!Numbered, NEW d, Steps!Tree(d), NEW j \in Ids
  PROVE  Steps!InLoop(d)[j] = (d.up[j] # Steps!Top /\ (Steps!IsA(d, d.up[j], "for_each") \/ Steps!InLoop(d)[d.up[j]]))
<1> DEFINE n == Cardinality(Ids)
           Eq(f) == f = [i \in Ids |-> d.up[i] # Steps!Top /\ (Steps!IsA(d, d.up[i], "for_each") \/ f[d.up[i]])]
<1>0. n \in Nat /\ Ids = 1 .. n /\ {Steps!Top} \cup Ids = 0 .. n BY StepsNumbers
<1>1. \E f : Eq(f)
  <2> HIDE DEF n
  <2> DEFINE G == [p \in BOOLEAN \X (1 .. n) |->
                     d.up[p[2]] # Steps!Top /\ (Steps!IsA(d, d.up[p[2]], "for_each") \/ p[1])]
  <2>2. G \in [BOOLEAN \X (1 .. n) -> BOOLEAN] OBVIOUS
  <2>3. \A i \in 1 .. n : d.up[i] \in 0 .. i - 1 BY <1>0, StepsAbove
  <2>4. PICK f \in [0 .. n -> BOOLEAN] : f[0] = FALSE /\ Follows(f, n, d.up, G)
    <3>1. FALSE \in BOOLEAN OBVIOUS
    <3> HIDE DEF G
    <3> QED BY <1>0, <2>2, <2>3, <3>1, Recursion
  <2> DEFINE g == [i \in Ids |-> f[i]]
  <2>5. ASSUME NEW i \in 1 .. n
        PROVE  f[i] = (d.up[i] # Steps!Top /\ (Steps!IsA(d, d.up[i], "for_each") \/ f[d.up[i]]))
    <3>2. d.up[i] \in 0 .. n BY <1>0, <2>3
    <3>3. f[d.up[i]] \in BOOLEAN BY <3>2
    <3>4. f[i] = G[<<f[d.up[i]], i>>] BY <2>4 DEF Follows
    <3> QED BY <3>3, <3>4
  <2>6. ASSUME NEW i \in Ids
        PROVE  f[i] = (d.up[i] # Steps!Top /\ (Steps!IsA(d, d.up[i], "for_each") \/ g[d.up[i]]))
    <3>1. CASE d.up[i] = Steps!Top BY <1>0, <2>5, <3>1
    <3>2. CASE d.up[i] # Steps!Top
      <4>1. d.up[i] \in Ids BY <3>2 DEF Steps!Tree
      <4>2. g[d.up[i]] = f[d.up[i]] BY <4>1
      <4> QED BY <1>0, <2>5, <4>2
    <3> QED BY <3>1, <3>2
  <2>7. g = [i \in Ids |-> d.up[i] # Steps!Top /\ (Steps!IsA(d, d.up[i], "for_each") \/ g[d.up[i]])]
    BY <2>6
  <2>8. Eq(g) BY <2>7
  <2> HIDE DEF Eq, g
  <2> QED BY <2>8
<1>2. Steps!InLoop(d) = CHOOSE f : Eq(f) BY DEF Steps!InLoop
<1>3. Eq(Steps!InLoop(d))
  <2> HIDE DEF Eq
  <2> QED BY <1>1, <1>2
<1> QED BY <1>3


\* The branches of whatever a step leads to, are led to.
LEMMA StepsReachClosed ==
  ASSUME Steps!Numbered, NEW d, Steps!Tree(d), NEW i \in Ids
  PROVE  /\ Steps!Branches(d, i) \subseteq Steps!Reach(d, i)
         /\ \A j \in Steps!Reach(d, i) : j \in Ids /\ Steps!Branches(d, j) \subseteq Steps!Reach(d, i)
<1> DEFINE N == Cardinality(Ids)
           Step(A) == A \cup UNION {Steps!Branches(d, j) : j \in A}
           Eq(W) == W = [n \in Ids |-> LET near == IF n = 1 THEN Steps!Branches(d, i) ELSE W[n - 1]
                                       IN  near \cup UNION {Steps!Branches(d, j) : j \in near}]
<1>0. N \in Nat /\ Ids = 1 .. N BY StepsNumbers
<1>1. \A j \in Ids : Steps!Branches(d, j) \subseteq Ids BY DEF Steps!Tree, Steps!Siblings, Steps!Level
<1>2. \A A : A \subseteq Ids => Step(A) \subseteq Ids
  <2> HIDE <1>0
  <2> QED BY <1>1
<1>3. \E W : Eq(W)
  <2> DEFINE X == SUBSET Ids
             G == [p \in X \X (1 .. N) |-> Step(p[1])]
             up == [n \in 1 .. N |-> n - 1]
  <2> HIDE DEF N, Step
  <2>1. G \in [X \X (1 .. N) -> X] BY <1>2
  <2>2. \A n \in 1 .. N : up[n] \in 0 .. n - 1 BY <1>0
  <2>3. PICK f \in [0 .. N -> X] : f[0] = Steps!Branches(d, i) /\ Follows(f, N, up, G)
    <3>1. Steps!Branches(d, i) \in X BY <1>1
    <3> HIDE DEF X, G, up
    <3> QED BY <1>0, <2>1, <2>2, <3>1, Recursion
  <2> DEFINE g == [n \in Ids |-> f[n]]
  <2>4. ASSUME NEW n \in Ids
        PROVE  f[n] = Step(IF n = 1 THEN Steps!Branches(d, i) ELSE g[n - 1])
    <3>1. n \in 1 .. N /\ n - 1 \in 0 .. N /\ up[n] = n - 1 BY <1>0
    <3>2. f[n - 1] \in X BY <3>1
    <3>3. f[n] = G[<<f[n - 1], n>>] BY <2>3, <3>1 DEF Follows
    <3>4. f[n] = Step(f[n - 1]) BY <3>1, <3>2, <3>3
    <3>5. CASE n = 1 BY <2>3, <3>4, <3>5
    <3>6. CASE n # 1
      <4>1. n - 1 \in Ids BY <1>0, <3>6
      <4> QED BY <3>4, <3>6, <4>1
    <3> QED BY <3>5, <3>6
  <2>5. g = [n \in Ids |-> Step(IF n = 1 THEN Steps!Branches(d, i) ELSE g[n - 1])] BY <2>4
  <2>6. Eq(g) BY <2>5 DEF Step
  <2> HIDE DEF Eq, g
  <2> QED BY <2>6
<1> DEFINE Within == CHOOSE W : Eq(W)
<1>4. Eq(Within)
  <2> HIDE DEF Eq
  <2> QED BY <1>3
<1>5. Steps!Reach(d, i) = Within[N] BY StepsSame DEF Steps!Reach
<1> HIDE DEF Within
<1>6. \A n \in Ids : Within[n] = Step(IF n = 1 THEN Steps!Branches(d, i) ELSE Within[n - 1])
  BY <1>4
<1> HIDE DEF Eq
<1> DEFINE f == [n \in 0 .. N |-> IF n = 0 THEN Steps!Branches(d, i) ELSE Within[n]]
<1>7. f[0] = Steps!Branches(d, i) BY <1>0
<1>8. \A n \in Nat : n + 1 <= N => f[n + 1] = Step(f[n])
  <2> HIDE DEF Step
  <2> SUFFICES ASSUME NEW n \in Nat, n + 1 <= N PROVE f[n + 1] = Step(f[n]) OBVIOUS
  <2>1. n + 1 \in Ids /\ n + 1 \in 0 .. N /\ n \in 0 .. N /\ n + 1 # 0 /\ (n + 1) - 1 = n BY <1>0
  <2>2. f[n + 1] = Within[n + 1] BY <2>1
  <2>3. f[n] = IF n + 1 = 1 THEN Steps!Branches(d, i) ELSE Within[n] BY <2>1
  <2>4. Within[n + 1] = Step(IF n + 1 = 1 THEN Steps!Branches(d, i) ELSE Within[n]) BY <1>6, <2>1
  <2> QED BY <2>2, <2>3, <2>4
<1> DEFINE Full(n) == \A j \in f[n] : Steps!Branches(d, j) \subseteq f[n]
           Grows(n) == /\ f[n] \subseteq Ids /\ Steps!Branches(d, i) \subseteq f[n]
                       /\ Full(n) \/ Cardinality(f[n]) > n
           S == {n \in Nat : n <= N => Grows(n)}
<1> HIDE DEF f
<1>9. 0 \in S
  <2>1. f[0] \subseteq Ids /\ IsFiniteSet(f[0])
    BY <1>1, <1>7, FS_Subset, StepsNumbers
  <2>2. f[0] = {} => Full(0) OBVIOUS
  <2>3. f[0] # {} => Cardinality(f[0]) > 0
    BY <2>1, FS_EmptySet, FS_CardinalityType
  <2> QED BY <1>7, <2>1, <2>2, <2>3
<1>10. ASSUME NEW n \in Nat, n \in S PROVE n + 1 \in S
  <2>1. SUFFICES ASSUME n + 1 <= N PROVE Grows(n + 1) OBVIOUS
  <2>2. Grows(n) BY <1>0, <1>10, <2>1
  <2>3. f[n + 1] = Step(f[n]) BY <1>8, <2>1
  <2>4. f[n] \subseteq f[n + 1] /\ f[n + 1] \subseteq Ids BY <1>2, <2>2, <2>3
  <2>5. CASE Full(n)
    <3>1. f[n + 1] = f[n] BY <2>3, <2>5
    <3> QED BY <2>2, <2>5, <3>1
  <2>6. CASE ~Full(n)
    <3>1. PICK j \in f[n] : ~(Steps!Branches(d, j) \subseteq f[n]) BY <2>6
    <3>2. PICK k \in Steps!Branches(d, j) : k \notin f[n] BY <3>1
    <3>3. k \in f[n + 1] BY <2>3, <3>1, <3>2
    <3>4. IsFiniteSet(f[n + 1]) BY <2>4, FS_Subset, StepsNumbers
    <3>5. Cardinality(f[n]) <= Cardinality(f[n + 1]) /\ Cardinality(f[n]) # Cardinality(f[n + 1])
      BY <2>4, <3>2, <3>3, <3>4, FS_Subset
    <3>6. IsFiniteSet(f[n]) BY <2>4, <3>4, FS_Subset
    <3>7. Cardinality(f[n]) \in Nat /\ Cardinality(f[n + 1]) \in Nat
      BY <3>4, <3>6, FS_CardinalityType
    <3>8. Cardinality(f[n]) > n BY <2>2, <2>6
    <3>9. Cardinality(f[n + 1]) > n + 1 BY <3>5, <3>7, <3>8
    <3>10. Steps!Branches(d, i) \subseteq f[n + 1] BY <2>2, <2>4
    <3> QED BY <2>4, <3>9, <3>10
  <2> QED BY <2>5, <2>6
<1>11. Nat \subseteq S
  <2> HIDE DEF S
  <2> QED BY <1>9, <1>10, Induction
<1>12. Grows(N) BY <1>0, <1>11
<1>13. Full(N)
  <2>1. Cardinality(f[N]) <= N /\ Cardinality(f[N]) \in Nat
    BY <1>12, FS_Subset, FS_CardinalityType, StepsNumbers
  <2> QED BY <1>0, <1>12, <2>1
<1>14. f[N] = Steps!Reach(d, i) BY <1>0, <1>5 DEF f
<1> QED BY <1>12, <1>13, <1>14

-----------------------------------------------------------------------------
\* A set of steps in document order: all of them, and none before an earlier one.
LEMMA StepsOrdered ==
  ASSUME Steps!Numbered, NEW S, S \subseteq Ids
  PROVE  /\ Steps!InOrder(S) \in Seq(S) /\ Len(Steps!InOrder(S)) = Cardinality(S)
         /\ \A i, j \in 1 .. Len(Steps!InOrder(S)) : i < j => Steps!InOrder(S)[i] < Steps!InOrder(S)[j]
         /\ \A x \in S : \E k \in 1 .. Len(Steps!InOrder(S)) : Steps!InOrder(S)[k] = x
<1> DEFINE n == Cardinality(S)
           Below(x) == {y \in S : y <= x}
           rank == [x \in S |-> Cardinality(Below(x))]
           Sorts(q) == \A i, j \in DOMAIN q : i < j => q[i] < q[j]
<1>0. IsFiniteSet(S) /\ n \in Nat /\ S \subseteq Nat
  BY StepsNumbers, FS_Subset, FS_CardinalityType
<1>1. \A x \in S : IsFiniteSet(Below(x)) /\ rank[x] \in 1 .. n
  <2>1. TAKE x \in S
  <2>2. IsFiniteSet(Below(x)) /\ Cardinality(Below(x)) <= n BY <1>0, FS_Subset
  <2>3. x \in Below(x) BY <1>0
  <2>4. Cardinality(Below(x)) \in Nat /\ Cardinality(Below(x)) # 0
    BY <2>2, <2>3, FS_EmptySet, FS_CardinalityType
  <2> QED BY <1>0, <2>2, <2>4
<1>2. \A x, y \in S : x < y => rank[x] < rank[y]
  <2>1. SUFFICES ASSUME NEW x \in S, NEW y \in S, x < y PROVE rank[x] < rank[y] OBVIOUS
  <2>2. Below(x) \subseteq Below(y) /\ y \in Below(y) /\ y \notin Below(x)
    <3>1. x \in Nat /\ y \in Nat /\ ~(y <= x) BY <1>0, <2>1
    <3>2. \A z \in S : z <= x => z <= y
      <4>1. TAKE z \in S
      <4>2. z \in Nat BY <1>0
      <4> QED BY <2>1, <3>1, <4>2
    <3>3. Below(x) \subseteq Below(y) BY <3>2
    <3>4. y \in Below(y) BY <3>1
    <3>5. y \notin Below(x) BY <3>1
    <3> QED BY <3>3, <3>4, <3>5
  <2>3. rank[x] <= rank[y] /\ rank[x] # rank[y] BY <1>1, <2>2, FS_Subset
  <2> QED BY <1>1, <2>3
<1>3. rank \in Injection(S, 1 .. n)
  <2>1. rank \in [S -> 1 .. n] BY <1>1
  <2>2. ASSUME NEW x \in S, NEW y \in S, rank[x] = rank[y] PROVE x = y
    <3>1. ~(x < y) /\ ~(y < x) BY <1>1, <1>2, <2>2
    <3> QED BY <1>0, <3>1
  <2> HIDE DEF rank
  <2> QED BY <2>1, <2>2 DEF Injection, IsInjective
<1>4. rank \in Surjection(S, 1 .. n)
  <2>1. IsFiniteSet(1 .. n) /\ Cardinality(1 .. n) = n BY <1>0, FS_Interval
  <2> HIDE DEF rank, n
  <2> QED BY <1>0, <1>3, <2>1, FS_Injection DEF n
<1> HIDE DEF rank
<1> DEFINE q == [k \in 1 .. n |-> CHOOSE x \in S : rank[x] = k]
<1>5. \A k \in 1 .. n : q[k] \in S /\ rank[q[k]] = k
  <2>1. \A k \in 1 .. n : \E x \in S : rank[x] = k BY <1>4 DEF Surjection
  <2> QED BY <2>1
<1>6. q \in [1 .. n -> S] BY <1>5
<1>7. Sorts(q)
  <2>1. SUFFICES ASSUME NEW i \in 1 .. n, NEW j \in 1 .. n, i < j PROVE q[i] < q[j] BY <1>6
  <2>2. ~(q[j] < q[i]) /\ q[i] # q[j]
    <3> HIDE DEF q
    <3>1. rank[q[i]] < rank[q[j]] BY <1>5, <2>1
    <3>2. rank[q[j]] < rank[q[i]] => FALSE BY <1>5, <2>1
    <3> QED BY <1>2, <1>5, <2>1, <3>2
  <2>3. q[i] \in Nat /\ q[j] \in Nat BY <1>0, <1>5
  <2> QED BY <2>2, <2>3
<1> DEFINE r == Steps!InOrder(S)
<1>8. r \in [1 .. n -> S] /\ Sorts(r)
  <2>1. \E p \in [1 .. n -> S] : Sorts(p)
    <3> HIDE DEF q, Sorts
    <3> QED BY <1>6, <1>7
  <2>2. r = CHOOSE p \in [1 .. n -> S] : Sorts(p) BY StepsSame DEF Steps!InOrder
  <2> HIDE DEF Sorts, r, n
  <2> QED BY <2>1, <2>2
<1> HIDE DEF r, q
<1>9. r \in Seq(S) /\ Len(r) = n /\ DOMAIN r = 1 .. n BY <1>0, <1>8
<1>10. r \in Injection(1 .. n, S)
  <2>1. ASSUME NEW i \in 1 .. n, NEW j \in 1 .. n, r[i] = r[j] PROVE i = j
    <3>1. r[i] \in Nat /\ r[j] \in Nat BY <1>0, <1>8
    <3>2. ~(i < j) /\ ~(j < i) BY <1>8, <1>9, <2>1, <3>1
    <3> QED BY <1>0, <3>2
  <2> QED BY <1>8, <2>1 DEF Injection, IsInjective
<1>11. r \in Surjection(1 .. n, S)
  <2>1. IsFiniteSet(1 .. n) /\ Cardinality(1 .. n) = n BY <1>0, FS_Interval
  <2> HIDE DEF n
  <2> QED BY <1>0, <1>10, <2>1, FS_Injection DEF n
<1>12. \A x \in S : \E k \in 1 .. n : r[k] = x BY <1>11 DEF Surjection
<1> HIDE DEF n
<1> QED BY <1>8, <1>9, <1>12 DEF r, n


-----------------------------------------------------------------------------
\* What is visible where a target was validated, is visible to whatever leads there.
LEMMA StepsEntryFirst ==
  ASSUME Steps!Numbered, Steps!Validated, NEW i \in Ids, NEW r \in Steps!Roots(def, def.up[i]), Steps!Leads(r, i)
  PROVE  Steps!Before(def, Steps!Entry(def, i)) \subseteq Steps!Before(def, r)
<1> DEFINE p == def.up[i]
           S == {q \in Steps!Roots(def, p) : q = i \/ i \in Steps!Reach(def, q)}
<1>1. S \subseteq Ids /\ Ids \subseteq Nat BY StepsNumbers DEF Steps!Roots, Steps!Level
<1>2. r \in S BY DEF Steps!Leads
<1>3. PICK e \in S : \A q \in S : e <= q BY <1>1, <1>2, Least
<1>4. /\ Steps!Entry(def, i) \in Steps!Roots(def, p) /\ (Steps!Entry(def, i) = i \/ i \in Steps!Reach(def, Steps!Entry(def, i)))
      /\ \A q \in Steps!Roots(def, p) : (q = i \/ i \in Steps!Reach(def, q)) => Steps!Entry(def, i) <= q
  <2> DEFINE First(x) == /\ x = i \/ i \in Steps!Reach(def, x)
                         /\ \A q \in Steps!Roots(def, p) : (q = i \/ i \in Steps!Reach(def, q)) => x <= q
  <2>1. \E x \in Steps!Roots(def, p) : First(x) BY <1>3
  <2>2. Steps!Entry(def, i) = CHOOSE x \in Steps!Roots(def, p) : First(x) BY DEF Steps!Entry
  <2>3. Steps!Entry(def, i) \in Steps!Roots(def, p) /\ First(Steps!Entry(def, i))
    <3> HIDE DEF First
    <3> QED BY <2>1, <2>2
  <2> QED BY <2>3
<1>5. Steps!Entry(def, i) <= r /\ Steps!Entry(def, i) \in Nat /\ r \in Nat BY <1>1, <1>2, <1>4
<1>6. def.up[Steps!Entry(def, i)] = p /\ def.up[r] = p BY <1>2, <1>4 DEF Steps!Roots, Steps!Level
<1>7. ASSUME NEW j \in Steps!Roots(def, p), j < Steps!Entry(def, i) PROVE j < r
  <2>1. j \in Nat BY <1>1 DEF Steps!Roots, Steps!Level
  <2> QED BY <1>5, <1>7, <2>1
<1> QED BY <1>6, <1>7 DEF Steps!Before

\* A step that is reached has all that is visible to it, and the item in a loop.
LEMMA StepsHeadSees ==
  ASSUME Steps!Numbered, Steps!IInv, NEW F \in Steps!Frames, Steps!Covered(F), Steps!Ready(F), F.run # <<>>
  PROVE  /\ Head(F.run) \in Ids /\ def.up[Head(F.run)] = F.in
         /\ Steps!Visible(def)[Head(F.run)] \subseteq F.scope \cup unread
         /\ Steps!InLoop(def)[Head(F.run)] => Steps!Item \in F.scope
<1> DEFINE i == F.run[1]
<1>1. F.run \in Seq(Ids) /\ Len(F.run) \in Nat /\ Len(F.run) > 0 /\ Head(F.run) = i BY DEF Steps!Frames
<1>2. i \in Ids /\ def.up[i] = F.in
  BY <1>1 DEF Steps!Ready, Steps!Level
<1>3. PICK r \in Steps!Roots(def, F.in) :
        Steps!Leads(r, i) /\ Steps!Before(def, r) \subseteq F.scope \cup unread \cup Steps!Earlier(F, 1)
  BY <1>1 DEF Steps!Ready
<1>4. Steps!Earlier(F, 1) = {} BY DEF Steps!Earlier
<1>5. Steps!Before(def, Steps!Entry(def, i)) \subseteq F.scope \cup unread
  BY <1>2, <1>3, <1>4, StepsEntryFirst DEF Steps!IInv
<1>6. Steps!Tree(def) BY DEF Steps!IInv, Steps!Validated
<1>7. Steps!Visible(def)[i] = Steps!Visible(def)[F.in] \cup Steps!Before(def, Steps!Entry(def, i))
  BY <1>2, <1>6, StepsVisibleDef
<1>8. Steps!Visible(def)[F.in] \subseteq F.scope \cup unread
  BY <1>6, StepsVisibleDef DEF Steps!Covered
<1>9. Steps!InLoop(def)[i] = Steps!Looped(F.in)
  BY <1>2, <1>6, StepsInLoopDef DEF Steps!Looped
<1> QED BY <1>1, <1>2, <1>5, <1>7, <1>8, <1>9 DEF Steps!Covered

\* The property is a part of that.
LEMMA StepsSeesReference == ASSUME Steps!Numbered, Steps!IInv PROVE Steps!ReferencesResolve
<1> SUFFICES ASSUME stack # <<>>, Steps!top.run # <<>>, Steps!s = def.at
             PROVE  def.root \in Steps!top.scope \cup unread
  BY DEF Steps!ReferencesResolve
<1>1. stack \in Seq(Steps!Frames) /\ Len(stack) > 0 /\ Steps!top = stack[1] BY DEF Steps!IInv, Steps!top
<1>2. Steps!top \in Steps!Frames /\ Steps!Covered(Steps!top) /\ Steps!Ready(Steps!top)
  BY <1>1 DEF Steps!IInv, Steps!Levels
<1>3. /\ Steps!Visible(def)[Steps!s] \subseteq Steps!top.scope \cup unread
      /\ Steps!InLoop(def)[Steps!s] => Steps!Item \in Steps!top.scope
  BY <1>2, StepsHeadSees DEF Steps!s
<1> QED BY <1>3 DEF Steps!IInv, Steps!Validated, Steps!checkRef

\* A level that is left alone stays as it should be.
LEMMA StepsKeptLevel ==
  ASSUME NEW F, Steps!Covered(F), Steps!Ready(F), def' = def, unread \subseteq unread'
  PROVE  Steps!Covered(F)' /\ Steps!Ready(F)'
<1>1. Steps!Covered(F)' BY DEF Steps!Covered, Steps!Looped
<1>2. Steps!Ready(F)'
  <2>1. SUFFICES ASSUME NEW x \in 1 .. Len(F.run)
        PROVE  /\ F.run[x] \in Steps!Level(def, F.in)
               /\ \E r \in Steps!Roots(def, F.in) : /\ Steps!Leads(r, F.run[x])
                    /\ Steps!Before(def, r) \subseteq F.scope \cup unread' \cup Steps!Earlier(F, x)
    BY DEF Steps!Ready, Steps!Leads, Steps!Earlier
  <2>2. PICK r \in Steps!Roots(def, F.in) : /\ Steps!Leads(r, F.run[x])
                    /\ Steps!Before(def, r) \subseteq F.scope \cup unread \cup Steps!Earlier(F, x)
    BY DEF Steps!Ready
  <2> QED BY <2>2 DEF Steps!Ready
<1> QED BY <1>1, <1>2

LEMMA Joined ==
  ASSUME NEW T, NEW a \in Seq(T), NEW b \in Seq(T)
  PROVE  /\ a \o b \in Seq(T) /\ Len(a \o b) = Len(a) + Len(b)
         /\ \A k \in 1 .. Len(a) : (a \o b)[k] = a[k]
         /\ \A k \in 1 .. Len(b) : (a \o b)[Len(a) + k] = b[k]
OBVIOUS

\* A step replaces the levels above some level.
LEMMA StepsRestacked ==
  ASSUME Steps!IInv, def' = def, unread \subseteq unread', unread' \subseteq Ids,
         NEW new \in Seq(Steps!Frames), NEW m \in 0 .. Len(stack),
         stack' = new \o SubSeq(stack, m + 1, Len(stack)),
         \A k \in 1 .. Len(new) : Steps!Nested(k)' /\ Steps!Covered(new[k])' /\ Steps!Ready(new[k])'
  PROVE  Steps!IInv'
<1> DEFINE n == Len(new)
<1>1. stack \in Seq(Steps!Frames) /\ Len(stack) \in Nat /\ n \in Nat BY DEF Steps!IInv
<1>2. /\ SubSeq(stack, m + 1, Len(stack)) \in Seq(Steps!Frames)
      /\ Len(SubSeq(stack, m + 1, Len(stack))) = Len(stack) - m
      /\ \A k \in 1 .. Len(stack) - m : SubSeq(stack, m + 1, Len(stack))[k] = stack[m + k]
  BY <1>1
<1>3. /\ stack' \in Seq(Steps!Frames) /\ Len(stack') = n + (Len(stack) - m)
      /\ \A k \in 1 .. n : stack'[k] = new[k]
      /\ \A k \in 1 .. Len(stack) - m : stack'[n + k] = stack[m + k]
  <2> DEFINE rest == SubSeq(stack, m + 1, Len(stack))
  <2>1. stack' = new \o rest /\ rest \in Seq(Steps!Frames) /\ Len(rest) = Len(stack) - m
        /\ \A k \in 1 .. Len(stack) - m : rest[k] = stack[m + k]
    BY <1>2
  <2> HIDE DEF rest
  <2>2. /\ new \o rest \in Seq(Steps!Frames) /\ Len(new \o rest) = Len(new) + Len(rest)
        /\ \A k \in 1 .. Len(new) : (new \o rest)[k] = new[k]
        /\ \A k \in 1 .. Len(rest) : (new \o rest)[Len(new) + k] = rest[k]
    <3> HIDE DEF n
    <3>1. rest \in Seq(Steps!Frames) BY <2>1
    <3> QED BY <3>1, Joined
  <2> QED BY <2>1, <2>2
<1>4. Steps!Validated' BY DEF Steps!IInv, Steps!Validated
<1>5. ASSUME NEW F \in Steps!Levels' PROVE Steps!Covered(F)' /\ Steps!Ready(F)'
  <2>1. PICK k \in 1 .. Len(stack') : F = stack'[k] BY DEF Steps!Levels
  <2>2. CASE k <= n
    <3>1. k \in 1 .. n /\ F = new[k] BY <1>1, <1>3, <2>1, <2>2
    <3>2. Steps!Covered(new[k])' /\ Steps!Ready(new[k])' BY <3>1
    <3> QED BY <3>1, <3>2
  <2>3. CASE k > n
    <3>1. k - n \in 1 .. Len(stack) - m /\ k = n + (k - n) /\ m + (k - n) \in 1 .. Len(stack)
      BY <1>1, <1>3, <2>3
    <3>2. F = stack[m + (k - n)] BY <1>3, <2>1, <3>1
    <3>3. F \in Steps!Levels BY <3>1, <3>2 DEF Steps!Levels
    <3>4. Steps!Covered(F) /\ Steps!Ready(F) BY <3>3 DEF Steps!IInv
    <3> QED BY <3>4, StepsKeptLevel
  <2> QED BY <1>1, <2>2, <2>3
<1>6. ASSUME NEW k \in 1 .. Len(stack') PROVE Steps!Nested(k)'
  <2>1. CASE k <= n
    <3>1. k \in 1 .. n BY <1>1, <1>3, <2>1
    <3> QED BY <3>1
  <2>2. CASE k > n
    <3> DEFINE j == k - n
    <3>1. j \in 1 .. Len(stack) - m /\ k = n + j /\ m + j \in 1 .. Len(stack)
      BY <1>1, <1>3, <2>2
    <3>2. stack'[k] = stack[m + j] BY <1>3, <3>1
    <3>3. Steps!Nested(m + j) BY <3>1 DEF Steps!IInv
    <3> HIDE DEF j
    <3>4. SUFFICES ASSUME stack'[k].in # Steps!Top
          PROVE  /\ k < Len(stack')
                 /\ IF stack'[k].more THEN stack'[k + 1].in = stack'[k].in
                    ELSE stack'[k + 1].run # <<>> /\ Head(stack'[k + 1].run) = stack'[k].in
      BY DEF Steps!Nested
    <3>5. m + j < Len(stack) BY <3>2, <3>3, <3>4 DEF Steps!Nested
    <3>6. j + 1 \in 1 .. Len(stack) - m /\ n + (j + 1) = k + 1 /\ m + (j + 1) = (m + j) + 1
      BY <1>1, <3>1, <3>5
    <3>7. stack'[k + 1] = stack[(m + j) + 1] BY <1>3, <3>6
    <3>8. k < Len(stack') BY <1>1, <1>3, <3>1, <3>6
    <3>9. IF stack[m + j].more THEN stack[(m + j) + 1].in = stack[m + j].in
          ELSE stack[(m + j) + 1].run # <<>> /\ Head(stack[(m + j) + 1].run) = stack[m + j].in
      BY <3>2, <3>3, <3>4 DEF Steps!Nested
    <3> QED BY <3>2, <3>7, <3>8, <3>9
  <2> QED BY <1>1, <2>1, <2>2
<1> QED BY <1>3, <1>4, <1>5, <1>6 DEF Steps!IInv


-----------------------------------------------------------------------------
\* What a step leaves of the list it stood in, when what it has is in scope.
LEMMA StepsHeadGone ==
  ASSUME Steps!Numbered, Steps!IInv, NEW E \in Steps!Frames, Steps!Covered(E), Steps!Ready(E), E.run # <<>>,
         def' = def, unread \subseteq unread', NEW list \in Seq(Ids), NEW outputs \in SUBSET Ids,
         Steps!producesOutput(def, Head(E.run)) => Head(E.run) \in outputs \cup unread',
         \A x \in 1 .. Len(list) :
           /\ list[x] \in Steps!Level(def, E.in)
           /\ \E r \in Steps!Roots(def, E.in) : Steps!Leads(r, list[x]) /\ Steps!Before(def, r) \subseteq E.scope \cup unread,
         NEW F, F = [in |-> E.in, run |-> list \o Tail(E.run), scope |-> E.scope \cup outputs, more |-> E.more]
  PROVE  F \in Steps!Frames /\ Steps!Covered(F)' /\ Steps!Ready(F)'
<1> DEFINE n == Len(list)
           rest == Tail(E.run)
<1>1. /\ E.run \in Seq(Ids) /\ Len(E.run) \in Nat /\ Len(E.run) > 0 /\ Head(E.run) = E.run[1]
      /\ n \in Nat
  BY DEF Steps!Frames
<1>2. /\ rest \in Seq(Ids) /\ Len(rest) = Len(E.run) - 1
      /\ \A k \in 1 .. Len(E.run) - 1 : rest[k] = E.run[k + 1]
  BY <1>1
<1>3. /\ F.run \in Seq(Ids) /\ Len(F.run) = n + (Len(E.run) - 1)
      /\ \A k \in 1 .. n : F.run[k] = list[k]
      /\ \A k \in 1 .. Len(E.run) - 1 : F.run[n + k] = E.run[k + 1]
  <2> HIDE DEF rest
  <2>1. /\ list \o rest \in Seq(Ids) /\ Len(list \o rest) = Len(list) + Len(rest)
        /\ \A k \in 1 .. Len(list) : (list \o rest)[k] = list[k]
        /\ \A k \in 1 .. Len(rest) : (list \o rest)[Len(list) + k] = rest[k]
    <3>1. rest \in Seq(Ids) BY <1>2
    <3> QED BY <3>1, Joined
  <2>2. F.run = list \o rest BY DEF rest
  <2> QED BY <1>2, <2>1, <2>2
<1>4. F.in = E.in /\ F.scope = E.scope \cup outputs /\ F.more = E.more OBVIOUS
<1>5. F \in Steps!Frames
  <2>1. E.in \in {Steps!Top} \cup Ids /\ E.scope \subseteq {Steps!Item} \cup Ids /\ E.more \in BOOLEAN
    BY DEF Steps!Frames
  <2>2. list \o Tail(E.run) \in Seq(Ids) BY <1>3
  <2> QED BY <2>1, <2>2 DEF Steps!Frames
<1>6. Steps!Covered(F)'
  <2>1. Steps!Covered(E)' BY StepsKeptLevel
  <2> QED BY <1>4, <2>1 DEF Steps!Covered
<1>7. ASSUME NEW x \in 1 .. Len(F.run)
      PROVE  /\ F.run[x] \in Steps!Level(def, F.in)
             /\ \E r \in Steps!Roots(def, F.in) : /\ Steps!Leads(r, F.run[x])
                  /\ Steps!Before(def, r) \subseteq F.scope \cup unread' \cup Steps!Earlier(F, x)
  <2>1. CASE x <= n
    <3>1. x \in 1 .. n BY <1>1, <1>3, <2>1
    <3>2. F.run[x] = list[x] BY <1>3, <3>1
    <3>3. PICK r \in Steps!Roots(def, E.in) : Steps!Leads(r, list[x]) /\ Steps!Before(def, r) \subseteq E.scope \cup unread
      BY <3>1
    <3>4. Steps!Before(def, r) \subseteq F.scope \cup unread' \cup Steps!Earlier(F, x) BY <1>4, <3>3
    <3> QED BY <1>4, <3>1, <3>2, <3>3, <3>4
  <2>2. CASE x > n
    <3> DEFINE y == x - n + 1
    <3>1. y \in 2 .. Len(E.run) /\ y - 1 \in 1 .. Len(E.run) - 1 /\ x = n + (y - 1) /\ (y - 1) + 1 = y
      BY <1>1, <1>3, <2>2
    <3> HIDE DEF y
    <3>2. F.run[x] = E.run[y]
      <4>1. F.run[n + (y - 1)] = E.run[(y - 1) + 1] BY <1>3, <3>1
      <4> QED BY <3>1, <4>1
    <3>3. /\ E.run[y] \in Steps!Level(def, E.in)
          /\ \E r \in Steps!Roots(def, E.in) :
               Steps!Leads(r, E.run[y]) /\ Steps!Before(def, r) \subseteq E.scope \cup unread \cup Steps!Earlier(E, y)
      BY <1>1, <3>1 DEF Steps!Ready
    <3>4. PICK r \in Steps!Roots(def, E.in) :
             Steps!Leads(r, E.run[y]) /\ Steps!Before(def, r) \subseteq E.scope \cup unread \cup Steps!Earlier(E, y)
      BY <3>3
    <3>5. ASSUME NEW j \in Steps!Before(def, r), j \in Steps!Earlier(E, y)
          PROVE  j \in F.scope \cup unread' \cup Steps!Earlier(F, x)
      <4>1. PICK z \in 1 .. y - 1 : j = E.run[z] BY <3>5 DEF Steps!Earlier
      <4>2. CASE z = 1
        <5>1. Steps!producesOutput(def, j) BY DEF Steps!Before
        <5> QED BY <1>1, <1>4, <4>1, <4>2, <5>1
      <4>3. CASE z # 1
        <5>1. z - 1 \in 1 .. Len(E.run) - 1 /\ (z - 1) + 1 = z /\ n + (z - 1) \in 1 .. x - 1
          BY <1>1, <3>1, <4>1, <4>3
        <5>2. F.run[n + (z - 1)] = E.run[(z - 1) + 1] BY <1>3, <5>1
        <5>3. F.run[n + (z - 1)] = j BY <4>1, <5>1, <5>2
        <5> QED BY <5>1, <5>3 DEF Steps!Earlier
      <4> QED BY <4>2, <4>3
    <3>6. Steps!Before(def, r) \subseteq F.scope \cup unread' \cup Steps!Earlier(F, x)
      BY <1>4, <3>4, <3>5
    <3> QED BY <1>4, <3>2, <3>3, <3>4, <3>6
  <2>3. x <= n \/ x > n BY <1>1
  <2> HIDE DEF n
  <2> QED BY <2>1, <2>2, <2>3
<1>8. Steps!Ready(F)' BY <1>7 DEF Steps!Ready, Steps!Leads, Steps!Earlier
<1> QED BY <1>5, <1>6, <1>8

\* A level changes, and those above it are done.
LEMMA StepsReplaced ==
  ASSUME Steps!IInv, def' = def, unread \subseteq unread', unread' \subseteq Ids, NEW m \in 1 .. Len(stack),
         NEW F \in Steps!Frames, F.in = stack[m].in, F.more = stack[m].more, Steps!Covered(F)', Steps!Ready(F)',
         stack' = <<F>> \o SubSeq(stack, m + 1, Len(stack))
  PROVE  Steps!IInv'
<1> DEFINE new == <<F>>
           rest == SubSeq(stack, m + 1, Len(stack))
<1>1. stack \in Seq(Steps!Frames) /\ Len(stack) \in Nat /\ m \in 0 .. Len(stack) BY DEF Steps!IInv
<1>2. new \in Seq(Steps!Frames) /\ Len(new) = 1 /\ new[1] = F OBVIOUS
<1>3. rest \in Seq(Steps!Frames) /\ Len(rest) = Len(stack) - m /\ \A k \in 1 .. Len(stack) - m : rest[k] = stack[m + k]
  BY <1>1
<1>4. /\ Len(stack') = 1 + (Len(stack) - m) /\ stack'[1] = F
      /\ \A k \in 1 .. Len(stack) - m : stack'[1 + k] = stack[m + k]
  <2> HIDE DEF new, rest
  <2>1. stack' = new \o rest BY DEF new, rest
  <2>2. /\ Len(new \o rest) = Len(new) + Len(rest)
        /\ \A k \in 1 .. Len(new) : (new \o rest)[k] = new[k]
        /\ \A k \in 1 .. Len(rest) : (new \o rest)[Len(new) + k] = rest[k]
    <3>1. new \in Seq(Steps!Frames) /\ rest \in Seq(Steps!Frames) BY <1>2, <1>3
    <3> QED BY <3>1, Joined
  <2> QED BY <1>2, <1>3, <2>1, <2>2
<1>5. Steps!Nested(1)'
  <2>1. SUFFICES ASSUME stack'[1].in # Steps!Top
        PROVE  /\ 1 < Len(stack')
               /\ IF stack'[1].more THEN stack'[2].in = stack'[1].in
                  ELSE stack'[2].run # <<>> /\ Head(stack'[2].run) = stack'[1].in
    BY DEF Steps!Nested
  <2>2. Steps!Nested(m) BY DEF Steps!IInv
  <2>3. m < Len(stack) BY <1>4, <2>1, <2>2 DEF Steps!Nested
  <2>4. 1 \in 1 .. Len(stack) - m BY <1>1, <2>3
  <2>5. stack'[2] = stack[m + 1] /\ 1 < Len(stack')
    <3>1. stack'[1 + 1] = stack[m + 1] BY <1>4, <2>4
    <3> QED BY <1>1, <1>4, <2>3, <3>1
  <2> QED BY <1>4, <2>1, <2>2, <2>5 DEF Steps!Nested
<1>6. \A k \in 1 .. Len(new) : Steps!Nested(k)' /\ Steps!Covered(new[k])' /\ Steps!Ready(new[k])'
  <2>1. SUFFICES ASSUME NEW k \in 1 .. Len(new) PROVE Steps!Nested(k)' /\ Steps!Covered(new[k])' /\ Steps!Ready(new[k])'
    OBVIOUS
  <2>2. k = 1 BY <1>2
  <2>3. Steps!Nested(k)' BY <1>5, <2>2
  <2>4. new[k] = F BY <1>2, <2>2
  <2> HIDE DEF new
  <2> QED BY <2>3, <2>4
<1>7. stack' = new \o SubSeq(stack, m + 1, Len(stack)) OBVIOUS
<1> HIDE DEF new
<1> QED BY <1>1, <1>2, <1>6, <1>7, StepsRestacked

\* A level is done, or all of them are.
LEMMA StepsPopped ==
  ASSUME Steps!IInv, def' = def, UNCHANGED unread, NEW m \in 0 .. Len(stack),
         stack' = SubSeq(stack, m + 1, Len(stack))
  PROVE  Steps!IInv'
<1>1. stack \in Seq(Steps!Frames) /\ unread \subseteq Ids /\ Len(stack) \in Nat BY DEF Steps!IInv
<1>2. SubSeq(stack, m + 1, Len(stack)) \in Seq(Steps!Frames) BY <1>1
<1> DEFINE new == << >>
<1>3. new \in Seq(Steps!Frames) /\ Len(new) = 0 OBVIOUS
<1>4. stack' = new \o SubSeq(stack, m + 1, Len(stack)) BY <1>2
<1>5. \A k \in 1 .. Len(new) : Steps!Nested(k)' /\ Steps!Covered(new[k])' /\ Steps!Ready(new[k])'
  BY <1>3
<1> HIDE DEF new
<1> QED BY <1>1, <1>3, <1>4, <1>5, StepsRestacked

\* The step that is reached, and the rest of the stack.
LEMMA StepsReached ==
  ASSUME Steps!IInv, stack # <<>>
  PROVE  /\ stack \in Seq(Steps!Frames) /\ Len(stack) \in Nat /\ 1 \in 1 .. Len(stack) /\ Steps!top = stack[1]
         /\ Steps!top \in Steps!Frames /\ Steps!Covered(Steps!top) /\ Steps!Ready(Steps!top)
         /\ Tail(stack) = SubSeq(stack, 2, Len(stack)) /\ stack = SubSeq(stack, 1, Len(stack))
<1>1. stack \in Seq(Steps!Frames) /\ Len(stack) \in Nat /\ 1 \in 1 .. Len(stack) /\ Steps!top = stack[1]
  BY DEF Steps!IInv, Steps!top
<1>2. Steps!top \in Steps!Levels BY <1>1 DEF Steps!Levels
<1>3. Steps!top \in Steps!Frames /\ Steps!Covered(Steps!top) /\ Steps!Ready(Steps!top)
  BY <1>1, <1>2 DEF Steps!IInv
<1>4. Tail(stack) = SubSeq(stack, 2, Len(stack)) BY <1>1
<1>5. stack = SubSeq(stack, 1, Len(stack)) BY <1>1
<1> QED BY <1>1, <1>3, <1>4, <1>5

LEMMA StepsRewritten ==
  ASSUME NEW E \in Steps!Frames, NEW q, NEW c
  PROVE  [E EXCEPT !.run = q, !.scope = c] = [in |-> E.in, run |-> q, scope |-> c, more |-> E.more]
<1>1. PICK G : G = [E EXCEPT !.run = q] OBVIOUS
<1>2. G = [in |-> E.in, run |-> q, scope |-> E.scope, more |-> E.more] BY <1>1 DEF Steps!Frames
<1>3. [G EXCEPT !.scope = c] = [in |-> E.in, run |-> q, scope |-> c, more |-> E.more] BY <1>2
<1>4. [E EXCEPT !.run = q, !.scope = c] = [[E EXCEPT !.run = q] EXCEPT !.scope = c]
  BY DEF Steps!Frames
<1> QED BY <1>1, <1>3, <1>4

\* The list goes on without the step, before the rest of which come its branches.
LEMMA StepsWentOn ==
  ASSUME Steps!Numbered, Steps!IInv, stack # <<>>, Steps!top.run # <<>>, def' = def,
         unread \subseteq unread', unread' \subseteq Ids, NEW list \in Seq(Ids), NEW outputs \in SUBSET Ids,
         Steps!producesOutput(def, Steps!s) => Steps!s \in outputs \cup unread',
         \A x \in 1 .. Len(list) :
           /\ list[x] \in Steps!Level(def, Steps!top.in)
           /\ \E r \in Steps!Roots(def, Steps!top.in) :
                Steps!Leads(r, list[x]) /\ Steps!Before(def, r) \subseteq Steps!top.scope \cup unread,
         Steps!Went(list, outputs)
  PROVE  Steps!IInv'
<1>1. PICK E : E = Steps!top OBVIOUS
<1>2. PICK F : F = [in |-> E.in, run |-> list \o Tail(E.run), scope |-> E.scope \cup outputs, more |-> E.more]
  OBVIOUS
<1>3. E \in Steps!Frames /\ Steps!Covered(E) /\ Steps!Ready(E) /\ E = stack[1] BY <1>1, StepsReached
<1>4. F \in Steps!Frames /\ Steps!Covered(F)' /\ Steps!Ready(F)'
  <2>1. Steps!producesOutput(def, Head(E.run)) => Head(E.run) \in outputs \cup unread'
    BY <1>1 DEF Steps!s
  <2>2. E.run # <<>> BY <1>1
  <2>3. \A x \in 1 .. Len(list) :
           /\ list[x] \in Steps!Level(def, E.in)
           /\ \E r \in Steps!Roots(def, E.in) : Steps!Leads(r, list[x]) /\ Steps!Before(def, r) \subseteq E.scope \cup unread
    BY <1>1
  <2> QED BY <1>2, <1>3, <2>1, <2>2, <2>3, StepsHeadGone
<1>5. F.in = stack[1].in /\ F.more = stack[1].more BY <1>2, <1>3
<1>6. stack' = <<F>> \o SubSeq(stack, 1 + 1, Len(stack))
  <2> DEFINE q == list \o Tail(E.run)
             c == E.scope \cup outputs
  <2>0. F = [E EXCEPT !.run = q, !.scope = c]
    <3>1. E \in Steps!Frames /\ F = [in |-> E.in, run |-> q, scope |-> c, more |-> E.more] BY <1>2, <1>3
    <3> HIDE DEF q, c
    <3> QED BY <3>1, StepsRewritten
  <2>1. F = [Steps!top EXCEPT !.run = list \o Tail(@), !.scope = @ \cup outputs] BY <1>1, <2>0
  <2>2. Tail(stack) = SubSeq(stack, 1 + 1, Len(stack)) BY StepsReached
  <2> QED BY <2>1, <2>2 DEF Steps!Went
<1>7. 1 \in 1 .. Len(stack) BY StepsReached
<1> QED BY <1>4, <1>5, <1>6, <1>7, StepsReplaced

\* What the step that is reached is, and what is in scope inside of it.
LEMMA StepsInside ==
  ASSUME Steps!Numbered, Steps!IInv, stack # <<>>, Steps!top.run # <<>>
  PROVE  /\ Steps!s \in Ids /\ def.up[Steps!s] = Steps!top.in /\ Steps!s \in Steps!Level(def, Steps!top.in) /\ Steps!s # Steps!Top
         /\ Steps!Visible(def)[Steps!s] \subseteq Steps!top.scope \cup unread
         /\ Steps!InLoop(def)[Steps!s] => Steps!Item \in Steps!top.scope
         /\ \E r \in Steps!Roots(def, Steps!top.in) : Steps!Leads(r, Steps!s) /\ Steps!Before(def, r) \subseteq Steps!top.scope \cup unread
         /\ Steps!top.scope \in SUBSET ({Steps!Item} \cup Ids) /\ unread \subseteq Ids
<1>1. Steps!top \in Steps!Frames /\ Steps!Covered(Steps!top) /\ Steps!Ready(Steps!top) BY StepsReached
<1>2. /\ Steps!s \in Ids /\ def.up[Steps!s] = Steps!top.in
      /\ Steps!Visible(def)[Steps!s] \subseteq Steps!top.scope \cup unread
      /\ Steps!InLoop(def)[Steps!s] => Steps!Item \in Steps!top.scope
  BY <1>1, StepsHeadSees DEF Steps!s
<1>3. Steps!top.run \in Seq(Ids) /\ 1 \in 1 .. Len(Steps!top.run) /\ Steps!s = Steps!top.run[1]
  BY <1>1 DEF Steps!Frames, Steps!s
<1>4. \E r \in Steps!Roots(def, Steps!top.in) : Steps!Leads(r, Steps!s) /\ Steps!Before(def, r) \subseteq Steps!top.scope \cup unread
  <2>1. Steps!Earlier(Steps!top, 1) = {} BY DEF Steps!Earlier
  <2>2. \E r \in Steps!Roots(def, Steps!top.in) :
          Steps!Leads(r, Steps!top.run[1]) /\ Steps!Before(def, r) \subseteq Steps!top.scope \cup unread \cup Steps!Earlier(Steps!top, 1)
    BY <1>1, <1>3 DEF Steps!Ready
  <2> QED BY <1>3, <2>1, <2>2
<1>5. Steps!s # Steps!Top BY <1>2, StepsNumbers DEF Steps!Top
<1> QED BY <1>1, <1>2, <1>4, <1>5 DEF Steps!Frames, Steps!IInv, Steps!Level

LEMMA StepsLeafKeeps == ASSUME Steps!Numbered, Steps!IInv, Steps!runLeaf, def' = def PROVE Steps!IInv'
<1>1. stack # <<>> /\ Steps!top.run # <<>> /\ Steps!Went(<<>>, {Steps!s}) /\ unread' = unread
  BY DEF Steps!runLeaf, Steps!Run
<1>2. PICK outputs : outputs = {Steps!s} OBVIOUS
<1>3. outputs \in SUBSET Ids /\ unread \subseteq Ids BY <1>1, <1>2, StepsInside
<1>4. Steps!Went(<<>>, outputs) /\ (Steps!producesOutput(def, Steps!s) => Steps!s \in outputs \cup unread')
  BY <1>1, <1>2
<1>5. << >> \in Seq(Ids) OBVIOUS
<1>6. PICK list \in Seq(Ids) : list = << >> BY <1>5, Zenon
<1>7. \A x \in 1 .. Len(list) : FALSE
  <2>1. Len(list) = 0 BY <1>6
  <2> QED BY <2>1
<1>8. Steps!Went(list, outputs) BY <1>4, <1>6
<1>9. unread \subseteq unread' /\ unread' \subseteq Ids BY <1>1, <1>3
<1> QED BY <1>1, <1>3, <1>4, <1>7, <1>8, <1>9, StepsWentOn

LEMMA StepsConditionKeeps ==
  ASSUME Steps!Numbered, Steps!IInv, Steps!runCondition, def' = def
  PROVE  Steps!IInv'
<1>1. stack # <<>> /\ Steps!top.run # <<>> /\ unread' = unread /\ Steps!IsA(def, Steps!s, "condition")
  BY DEF Steps!runCondition, Steps!Run
<1>2. PICK b \in SUBSET Steps!Branches(def, Steps!s) : Steps!Went(Steps!InOrder(b), {})
  BY DEF Steps!runCondition
<1>3. PICK list : list = Steps!InOrder(b) OBVIOUS
<1>4. Steps!Tree(def) /\ Steps!s \in Ids /\ def.up[Steps!s] = Steps!top.in /\ unread \subseteq Ids
  BY <1>1, StepsInside DEF Steps!IInv, Steps!Validated
<1>5. b \subseteq Steps!Level(def, Steps!top.in) /\ b \subseteq Ids
  BY <1>4 DEF Steps!Tree, Steps!Siblings, Steps!Level
<1>6. list \in Seq(Ids) /\ \A x \in 1 .. Len(list) : list[x] \in b
  <2>1. list \in Seq(b) BY <1>3, <1>5, StepsOrdered
  <2>2. \A x \in 1 .. Len(list) : list[x] \in b BY <2>1
  <2> QED BY <1>5, <2>1, <2>2
<1>7. PICK r \in Steps!Roots(def, Steps!top.in) : Steps!Leads(r, Steps!s) /\ Steps!Before(def, r) \subseteq Steps!top.scope \cup unread
  BY <1>1, StepsInside
<1>8. \A x \in b : Steps!Leads(r, x)
  <2>1. r \in Ids BY DEF Steps!Roots, Steps!Level
  <2>2. /\ Steps!Branches(def, r) \subseteq Steps!Reach(def, r)
        /\ \A j \in Steps!Reach(def, r) : Steps!Branches(def, j) \subseteq Steps!Reach(def, r)
    BY <1>4, <2>1, StepsReachClosed
  <2> QED BY <1>2, <1>7, <2>2 DEF Steps!Leads
<1>9. \A x \in 1 .. Len(list) :
         /\ list[x] \in Steps!Level(def, Steps!top.in)
         /\ \E q \in Steps!Roots(def, Steps!top.in) :
              Steps!Leads(q, list[x]) /\ Steps!Before(def, q) \subseteq Steps!top.scope \cup unread
  BY <1>5, <1>6, <1>7, <1>8
<1>10. ~Steps!producesOutput(def, Steps!s) BY <1>1 DEF Steps!IsA, Steps!producesOutput
<1>11. PICK outputs \in SUBSET Ids : outputs = {} OBVIOUS
<1>12. Steps!Went(list, outputs) BY <1>2, <1>3, <1>11
<1> QED BY <1>1, <1>4, <1>6, <1>9, <1>10, <1>12, StepsWentOn

\* A level that starts: what stands before a root, is to run before it.
LEMMA StepsStarts ==
  ASSUME Steps!Numbered, Steps!Tree(def), NEW p \in {Steps!Top} \cup Ids, NEW scope \in SUBSET ({Steps!Item} \cup Ids),
         Steps!Visible(def)[p] \subseteq scope \cup unread, Steps!Looped(p) => Steps!Item \in scope,
         NEW F, F = [in |-> p, run |-> Steps!InOrder(Steps!Roots(def, p)), scope |-> scope, more |-> FALSE]
  PROVE  F \in Steps!Frames /\ Steps!Covered(F) /\ Steps!Ready(F)
<1> DEFINE R == Steps!Roots(def, p)
<1>1. R \subseteq Ids /\ R \subseteq Steps!Level(def, p) BY DEF Steps!Roots, Steps!Level
<1>2. PICK q : q = Steps!InOrder(R) OBVIOUS
<1>3. /\ q \in Seq(R) /\ \A i, j \in 1 .. Len(q) : i < j => q[i] < q[j]
      /\ \A x \in R : \E k \in 1 .. Len(q) : q[k] = x
  BY <1>1, <1>2, StepsOrdered
<1>4. q \in Seq(Ids) /\ Len(q) \in Nat /\ \A x \in 1 .. Len(q) : q[x] \in R BY <1>1, <1>3
<1>5. F.run = q /\ F.in = p /\ F.scope = scope /\ F.more = FALSE BY <1>2
<1>6. F \in Steps!Frames
  <2>1. F = [in |-> p, run |-> q, scope |-> scope, more |-> FALSE] BY <1>2
  <2> QED BY <1>4, <2>1 DEF Steps!Frames
<1>7. Steps!Covered(F) BY <1>5 DEF Steps!Covered
<1>8. ASSUME NEW x \in 1 .. Len(q) PROVE Steps!Before(def, q[x]) \subseteq Steps!Earlier(F, x)
  <2>1. SUFFICES ASSUME NEW j \in Steps!Before(def, q[x]) PROVE j \in Steps!Earlier(F, x) OBVIOUS
  <2>2. q[x] \in R /\ def.up[q[x]] = p BY <1>4 DEF Steps!Roots, Steps!Level
  <2>3. j \in R /\ j < q[x] BY <2>1, <2>2 DEF Steps!Before
  <2>4. PICK k \in 1 .. Len(q) : q[k] = j BY <1>3, <2>3
  <2>5. q[x] \in Nat /\ q[k] \in Nat BY <1>1, <1>4, StepsNumbers
  <2>6. ~(x < k) /\ x # k
    <3>1. q[k] < q[x] BY <2>3, <2>4
    <3>2. x < k => q[x] < q[k] BY <1>3
    <3>3. ~(q[x] < q[k]) /\ q[x] # q[k] BY <2>5, <3>1
    <3> QED BY <3>2, <3>3
  <2>7. k \in 1 .. x - 1 BY <1>4, <2>6
  <2> QED BY <1>5, <2>4, <2>7 DEF Steps!Earlier
<1>9. Steps!Ready(F)
  <2>1. SUFFICES ASSUME NEW x \in 1 .. Len(q)
        PROVE  /\ q[x] \in Steps!Level(def, p)
               /\ \E r \in R : Steps!Leads(r, q[x]) /\ Steps!Before(def, r) \subseteq scope \cup unread \cup Steps!Earlier(F, x)
    BY <1>5 DEF Steps!Ready
  <2>2. q[x] \in R /\ Steps!Leads(q[x], q[x]) BY <1>4 DEF Steps!Leads
  <2> QED BY <1>1, <1>8, <2>2
<1> QED BY <1>6, <1>7, <1>9

\* The levels in a step that starts.
LEMMA StepsPushed ==
  ASSUME Steps!Numbered, Steps!IInv, stack # <<>>, Steps!top.run # <<>>, def' = def, UNCHANGED unread,
         NEW new \in Seq(Steps!Frames), stack' = new \o stack,
         \A k \in 1 .. Len(new) : /\ Steps!Covered(new[k]) /\ Steps!Ready(new[k]) /\ new[k].in = Steps!s
                                  /\ new[k].more <=> k < Len(new)
  PROVE  Steps!IInv'
<1>1. /\ stack \in Seq(Steps!Frames) /\ Len(stack) \in Nat /\ 1 \in 1 .. Len(stack) /\ Steps!top = stack[1]
      /\ stack = SubSeq(stack, 1, Len(stack)) /\ unread \subseteq Ids
  BY StepsReached DEF Steps!IInv
<1>2. /\ Len(stack') = Len(new) + Len(stack) /\ Len(new) \in Nat
      /\ \A k \in 1 .. Len(new) : stack'[k] = new[k]
      /\ \A k \in 1 .. Len(stack) : stack'[Len(new) + k] = stack[k]
  BY <1>1, Joined
<1>3. ASSUME NEW k \in 1 .. Len(new) PROVE Steps!Nested(k)' /\ Steps!Covered(new[k])' /\ Steps!Ready(new[k])'
  <2>1. Steps!Covered(new[k])' /\ Steps!Ready(new[k])'
    <3>1. PICK F : F = new[k] OBVIOUS
    <3>2. Steps!Covered(F)' /\ Steps!Ready(F)' BY <1>3, <3>1, StepsKeptLevel
    <3> QED BY <3>1, <3>2
  <2>2. k < Len(stack') /\ stack'[k].in = Steps!s BY <1>1, <1>2
  <2>3. CASE k < Len(new)
    <3>1. k + 1 \in 1 .. Len(new) BY <1>2, <2>3
    <3>2. stack'[k + 1].in = Steps!s /\ stack'[k].more BY <1>2, <2>3, <3>1
    <3> QED BY <2>1, <2>2, <3>2 DEF Steps!Nested
  <2>4. CASE k = Len(new)
    <3>1. stack'[k + 1] = Steps!top /\ ~ stack'[k].more BY <1>1, <1>2, <2>4
    <3>2. Head(Steps!top.run) = Steps!s BY DEF Steps!s
    <3> QED BY <2>1, <2>2, <3>1, <3>2 DEF Steps!Nested
  <2> QED BY <1>2, <2>3, <2>4
<1>4. stack' = new \o SubSeq(stack, 0 + 1, Len(stack)) BY <1>1
<1> QED BY <1>1, <1>3, <1>4, StepsRestacked

LEMMA StepsForEachKeeps ==
  ASSUME Steps!Numbered, Steps!IInv, Steps!runForEach, def' = def
  PROVE  Steps!IInv'
<1>1. stack # <<>> /\ Steps!top.run # <<>> /\ Steps!IsA(def, Steps!s, "for_each")
  BY DEF Steps!runForEach, Steps!Run
<1>2. Steps!s \in Ids /\ Steps!s # Steps!Top /\ unread \subseteq Ids /\ Steps!top.scope \in SUBSET ({Steps!Item} \cup Ids)
  BY <1>1, StepsInside
<1>3. << >> \in Seq(Ids) OBVIOUS
<1>4. PICK list \in Seq(Ids) : list = << >> BY <1>3, Zenon
<1>5. \A x \in 1 .. Len(list) : FALSE
  <2>1. Len(list) = 0 BY <1>4
  <2> QED BY <2>1
<1>6. CASE Steps!Went(<<>>, {Steps!s}) /\ UNCHANGED unread
  <2>1. PICK outputs \in SUBSET Ids : outputs = {Steps!s} BY <1>2
  <2>2. Steps!Went(list, outputs) /\ unread \subseteq unread' /\ unread' \subseteq Ids
    BY <1>2, <1>4, <1>6, <2>1
  <2> QED BY <1>1, <1>5, <2>1, <2>2, StepsWentOn
<1>7. CASE Steps!Went(<<>>, {}) /\ unread' = unread \cup {Steps!s}
  <2>1. PICK outputs \in SUBSET Ids : outputs = {} OBVIOUS
  <2>2. Steps!Went(list, outputs) /\ unread \subseteq unread' /\ unread' \subseteq Ids /\ Steps!s \in unread'
    BY <1>2, <1>4, <1>7, <2>1
  <2> QED BY <1>1, <1>5, <2>2, StepsWentOn
<1>8. CASE /\ stack' = <<Steps!Frame(Steps!s, Steps!InOrder(Steps!Roots(def, Steps!s)), Steps!top.scope \cup {Steps!Item}, FALSE)>> \o stack
           /\ UNCHANGED unread
  <2>1. PICK scope : scope = Steps!top.scope \cup {Steps!Item} OBVIOUS
  <2>2. PICK p : p = Steps!s OBVIOUS
  <2>3. PICK F : F = [in |-> p, run |-> Steps!InOrder(Steps!Roots(def, p)), scope |-> scope, more |-> FALSE]
    OBVIOUS
  <2>4. F \in Steps!Frames /\ Steps!Covered(F) /\ Steps!Ready(F)
    <3>1. Steps!Tree(def) BY DEF Steps!IInv, Steps!Validated
    <3>2. scope \in SUBSET ({Steps!Item} \cup Ids) /\ Steps!Item \in scope BY <1>2, <2>1
    <3>3. Steps!Visible(def)[p] \subseteq scope \cup unread BY <1>1, <2>1, <2>2, StepsInside
    <3>4. p \in {Steps!Top} \cup Ids BY <1>2, <2>2
    <3> QED BY <2>3, <3>1, <3>2, <3>3, <3>4, StepsStarts
  <2>5. PICK new : new = <<F>> OBVIOUS
  <2>6. new \in Seq(Steps!Frames) /\ Len(new) = 1 /\ new[1] = F BY <2>4, <2>5
  <2>7. stack' = new \o stack BY <1>8, <2>1, <2>2, <2>3, <2>5 DEF Steps!Frame
  <2>8. F.in = Steps!s /\ F.more = FALSE BY <2>2, <2>3
  <2>9. ASSUME NEW k \in 1 .. Len(new)
        PROVE  /\ Steps!Covered(new[k]) /\ Steps!Ready(new[k]) /\ new[k].in = Steps!s
               /\ new[k].more <=> k < Len(new)
    <3>1. k = 1 BY <2>6
    <3>2. new[k] = F /\ ~(k < Len(new)) BY <2>6, <3>1
    <3> QED BY <2>4, <2>8, <3>2
  <2> QED BY <1>1, <1>8, <2>6, <2>7, <2>9, StepsPushed
<1> QED BY <1>6, <1>7, <1>8 DEF Steps!runForEach

\* The children of a group each have what was there when it started.
LEMMA StepsParallelKeeps ==
  ASSUME Steps!Numbered, Steps!IInv, Steps!runParallel, def' = def
  PROVE  Steps!IInv'
<1>1. stack # <<>> /\ Steps!top.run # <<>> /\ Steps!IsA(def, Steps!s, "parallel") /\ UNCHANGED unread
  BY DEF Steps!runParallel, Steps!Run
<1>2. /\ Steps!s \in Ids /\ Steps!s # Steps!Top /\ Steps!top.scope \in SUBSET ({Steps!Item} \cup Ids)
      /\ Steps!Visible(def)[Steps!s] \subseteq Steps!top.scope \cup unread
      /\ Steps!InLoop(def)[Steps!s] => Steps!Item \in Steps!top.scope
  BY <1>1, StepsInside
<1>3. PICK kids : kids = Steps!InOrder(Steps!Roots(def, Steps!s)) OBVIOUS
<1>4. Steps!Roots(def, Steps!s) \subseteq Ids BY DEF Steps!Roots, Steps!Level
<1>5. kids \in Seq(Steps!Roots(def, Steps!s)) BY <1>3, <1>4, StepsOrdered
<1>6. Len(kids) \in Nat /\ \A i \in 1 .. Len(kids) : kids[i] \in Steps!Roots(def, Steps!s) BY <1>5
<1> DEFINE Child(i) == [in |-> Steps!s, run |-> <<kids[i]>>, scope |-> Steps!top.scope, more |-> i < Len(kids)]
<1>7. PICK new : new = [i \in 1 .. Len(kids) |-> Child(i)] OBVIOUS
<1>8. stack' = new \o stack BY <1>3, <1>7 DEF Steps!runParallel, Steps!Frame
<1>9. ASSUME NEW i \in 1 .. Len(kids)
      PROVE  /\ Child(i) \in Steps!Frames /\ Steps!Covered(Child(i)) /\ Steps!Ready(Child(i))
             /\ Child(i).in = Steps!s /\ (Child(i).more <=> i < Len(kids))
  <2>1. PICK F : F = Child(i) OBVIOUS
  <2>2. PICK list : list = <<kids[i]>> OBVIOUS
  <2>3. /\ kids[i] \in Steps!Roots(def, Steps!s) /\ kids[i] \in Ids /\ list \in Seq(Ids) /\ Len(list) = 1
        /\ list[1] = kids[i]
    BY <1>4, <1>6, <2>2
  <2>4. F.in = Steps!s /\ F.run = list /\ F.scope = Steps!top.scope /\ (F.more <=> i < Len(kids))
    BY <2>1, <2>2
  <2>5. F \in Steps!Frames
    <3>1. F = [in |-> Steps!s, run |-> list, scope |-> Steps!top.scope, more |-> i < Len(kids)]
      BY <2>1, <2>2
    <3>2. (i < Len(kids)) \in BOOLEAN BY <1>6
    <3> QED BY <1>2, <2>3, <3>1, <3>2 DEF Steps!Frames
  <2>6. Steps!Covered(F)
    <3>1. Steps!Looped(Steps!s) => Steps!InLoop(def)[Steps!s] BY <1>1 DEF Steps!Looped, Steps!IsA
    <3>2. Steps!Looped(Steps!s) => Steps!Item \in Steps!top.scope BY <1>2, <3>1
    <3>3. Steps!Visible(def)[Steps!s] \subseteq Steps!top.scope \cup unread BY <1>2
    <3> HIDE DEF Child
    <3> QED BY <2>4, <3>2, <3>3 DEF Steps!Covered
  <2>7. Steps!Ready(F)
    <3>1. def.up[kids[i]] = Steps!s /\ kids[i] \in Steps!Level(def, Steps!s)
      BY <2>3 DEF Steps!Roots, Steps!Level
    <3>2. Steps!Before(def, kids[i]) = {} BY <1>1, <1>2, <3>1 DEF Steps!Before
    <3>3. SUFFICES ASSUME NEW x \in 1 .. Len(list)
          PROVE  /\ list[x] \in Steps!Level(def, Steps!s)
                 /\ \E r \in Steps!Roots(def, Steps!s) :
                      Steps!Leads(r, list[x]) /\ Steps!Before(def, r) \subseteq Steps!top.scope \cup unread \cup Steps!Earlier(F, x)
      BY <2>4 DEF Steps!Ready
    <3>4. list[x] = kids[i] BY <2>3
    <3>5. Steps!Leads(kids[i], kids[i]) BY DEF Steps!Leads
    <3> QED BY <2>3, <3>1, <3>2, <3>4, <3>5
  <2> HIDE DEF Child
  <2> QED BY <2>1, <2>4, <2>5, <2>6, <2>7
<1> HIDE DEF Child
<1>10. new \in Seq(Steps!Frames) /\ Len(new) = Len(kids) /\ \A k \in 1 .. Len(new) : new[k] = Child(k)
  <2>1. new \in [1 .. Len(kids) -> Steps!Frames] BY <1>7, <1>9
  <2>2. new \in Seq(Steps!Frames) BY <1>6, <2>1
  <2>3. Len(new) = Len(kids) BY <1>6, <2>1
  <2> QED BY <1>7, <2>2, <2>3
<1>11. \A k \in 1 .. Len(new) : /\ Steps!Covered(new[k]) /\ Steps!Ready(new[k]) /\ new[k].in = Steps!s
                                /\ new[k].more <=> k < Len(new)
  <2>1. SUFFICES ASSUME NEW k \in 1 .. Len(new)
        PROVE  /\ Steps!Covered(new[k]) /\ Steps!Ready(new[k]) /\ new[k].in = Steps!s
               /\ new[k].more <=> k < Len(new)
    OBVIOUS
  <2>2. new[k] = Child(k) /\ k \in 1 .. Len(kids) BY <1>10
  <2> QED BY <1>9, <1>10, <2>2
<1> QED BY <1>1, <1>8, <1>10, <1>11, StepsPushed

LEMMA StepsFinishKeeps == ASSUME Steps!Numbered, Steps!IInv, Steps!finish, def' = def PROVE Steps!IInv'
<1>1. stack # <<>> /\ stack' = << >> /\ UNCHANGED unread BY DEF Steps!finish, Steps!Run
<1>2. stack \in Seq(Steps!Frames) /\ Len(stack) \in Nat BY <1>1, StepsReached
<1>3. SubSeq(stack, Len(stack) + 1, Len(stack)) = << >> BY <1>2
<1> QED BY <1>1, <1>2, <1>3, StepsPopped

\* A container gets its output when the last level in it is done.
LEMMA StepsRestKeeps == ASSUME Steps!Numbered, Steps!IInv, Steps!Rest, def' = def PROVE Steps!IInv'
<1>1. stack # <<>> /\ UNCHANGED unread BY DEF Steps!Rest
<1>2. /\ stack \in Seq(Steps!Frames) /\ Len(stack) \in Nat /\ 1 \in 1 .. Len(stack) /\ Steps!top = stack[1]
      /\ Tail(stack) = SubSeq(stack, 1 + 1, Len(stack)) /\ unread \subseteq Ids
  BY <1>1, StepsReached DEF Steps!IInv
<1>3. CASE Steps!top.in = Steps!Top \/ Steps!top.more
  <2>1. stack' = SubSeq(stack, 1 + 1, Len(stack)) BY <1>2, <1>3 DEF Steps!Rest
  <2> QED BY <1>1, <1>2, <2>1, StepsPopped
<1>4. CASE ~(Steps!top.in = Steps!Top \/ Steps!top.more)
  <2>1. PICK E : E = stack[2] OBVIOUS
  <2>2. Steps!Nested(1) BY <1>2 DEF Steps!IInv
  <2>3. 2 \in 1 .. Len(stack) /\ E.run # <<>> /\ Head(E.run) = Steps!top.in
    BY <1>2, <1>4, <2>1, <2>2 DEF Steps!Nested
  <2>4. E \in Steps!Frames /\ Steps!Covered(E) /\ Steps!Ready(E)
    <3>1. E \in Steps!Levels BY <2>1, <2>3 DEF Steps!Levels
    <3> QED BY <1>2, <2>1, <2>3, <3>1 DEF Steps!IInv
  <2>5. Steps!top.in \in Ids BY <1>1, <1>4, StepsReached DEF Steps!Frames
  <2>6. PICK outputs \in SUBSET Ids : outputs = {Steps!top.in} BY <2>5
  <2>7. << >> \in Seq(Ids) OBVIOUS
  <2>8. PICK list \in Seq(Ids) : list = << >> BY <2>7, Zenon
  <2>9. Len(list) = 0 /\ list \o Tail(E.run) = Tail(E.run)
    <3>1. E.run \in Seq(Ids) BY <2>4 DEF Steps!Frames
    <3>2. Tail(E.run) \in Seq(Ids) BY <2>3, <3>1
    <3> QED BY <2>8, <3>2
  <2>10. PICK F : F = [in |-> E.in, run |-> list \o Tail(E.run), scope |-> E.scope \cup outputs, more |-> E.more]
    OBVIOUS
  <2>11. F \in Steps!Frames /\ Steps!Covered(F)' /\ Steps!Ready(F)'
    <3>1. Steps!producesOutput(def, Head(E.run)) => Head(E.run) \in outputs \cup unread' BY <2>3, <2>6
    <3>2. \A x \in 1 .. Len(list) : FALSE BY <2>9
    <3>3. unread \subseteq unread' BY <1>1
    <3> QED BY <2>3, <2>4, <2>10, <3>1, <3>2, <3>3, StepsHeadGone
  <2>12. F = [E EXCEPT !.run = Tail(@), !.scope = @ \cup outputs]
    <3> DEFINE q == Tail(E.run)
               c == E.scope \cup outputs
    <3>1. F = [in |-> E.in, run |-> q, scope |-> c, more |-> E.more] BY <2>9, <2>10
    <3>2. F = [E EXCEPT !.run = q, !.scope = c]
      <4> HIDE DEF q, c
      <4> QED BY <2>4, <3>1, StepsRewritten
    <3> QED BY <3>2
  <2>13. stack' = <<F>> \o SubSeq(stack, 2 + 1, Len(stack))
    <3>1. stack' = <<[stack[2] EXCEPT !.run = Tail(@), !.scope = @ \cup {Steps!top.in}]>> \o SubSeq(stack, 3, Len(stack))
      BY <1>4 DEF Steps!Rest
    <3> QED BY <2>1, <2>6, <2>12, <3>1
  <2>14. F.in = stack[2].in /\ F.more = stack[2].more BY <2>1, <2>10
  <2>15. unread \subseteq unread' /\ unread' \subseteq Ids BY <1>1, <1>2
  <2> QED BY <2>3, <2>11, <2>13, <2>14, <2>15, StepsReplaced
<1> QED BY <1>3, <1>4

\* What fails runs nothing more, in the run or in a level that the rest goes on without.
LEMMA StepsFailKeeps == ASSUME Steps!Numbered, Steps!IInv, Steps!Fail, def' = def PROVE Steps!IInv'
<1>1. stack # <<>> /\ UNCHANGED unread BY DEF Steps!Fail
<1>2. stack \in Seq(Steps!Frames) /\ Len(stack) \in Nat /\ unread \subseteq Ids
  BY <1>1, StepsReached DEF Steps!IInv
<1>3. CASE stack' = <<>>
  <2>1. SubSeq(stack, Len(stack) + 1, Len(stack)) = << >> BY <1>2
  <2> QED BY <1>1, <1>2, <1>3, <2>1, StepsPopped
<1>4. CASE \E k \in 1 .. Len(stack) : /\ stack[k].in # Steps!Top
             /\ stack' = <<[stack[k] EXCEPT !.run = <<>>]>> \o SubSeq(stack, k + 1, Len(stack))
  <2>1. PICK k \in 1 .. Len(stack) :
          stack' = <<[stack[k] EXCEPT !.run = <<>>]>> \o SubSeq(stack, k + 1, Len(stack))
    BY <1>4
  <2>2. PICK E : E = stack[k] OBVIOUS
  <2>3. E \in Steps!Frames /\ Steps!Covered(E) /\ Steps!Ready(E)
    <3>1. E \in Steps!Levels BY <2>1, <2>2 DEF Steps!Levels
    <3> QED BY <1>2, <2>2, <3>1 DEF Steps!IInv
  <2>4. PICK F : F = [E EXCEPT !.run = <<>>] OBVIOUS
  <2>5. F = [in |-> E.in, run |-> << >>, scope |-> E.scope, more |-> E.more]
    BY <2>3, <2>4 DEF Steps!Frames
  <2>6. F \in Steps!Frames
    <3>1. << >> \in Seq(Ids) OBVIOUS
    <3> QED BY <2>3, <2>5, <3>1 DEF Steps!Frames
  <2>7. Steps!Covered(F)' /\ Steps!Ready(F)'
    <3>1. Steps!Covered(E)' BY <1>1, <2>3, StepsKeptLevel
    <3>2. Steps!Covered(F)' BY <2>5, <3>1 DEF Steps!Covered
    <3>3. F.run = << >> BY <2>5
    <3>4. Len(F.run) = 0 BY <3>3
    <3>5. \A x \in 1 .. Len(F.run) : FALSE BY <3>4
    <3> QED BY <3>2, <3>5 DEF Steps!Ready
  <2>8. stack' = <<F>> \o SubSeq(stack, k + 1, Len(stack)) BY <2>1, <2>2, <2>4
  <2>9. F.in = stack[k].in /\ F.more = stack[k].more BY <2>2, <2>5
  <2>10. unread \subseteq unread' /\ unread' \subseteq Ids BY <1>1, <1>2
  <2> QED BY <2>6, <2>7, <2>8, <2>9, <2>10, StepsReplaced
<1> QED BY <1>3, <1>4 DEF Steps!Fail

\* A definition that was validated is a tree, and its list begins with nothing in scope.
LEMMA StepsInitInv == ASSUME Steps!Numbered PROVE Steps!Init => Steps!IInv
<1> SUFFICES ASSUME Steps!Init PROVE Steps!IInv OBVIOUS
<1>1. PICK up \in Steps!Forests : \E type \in Steps!Typings(up) : \E d \in Steps!Structures(type, up) : def \in Steps!Definitions(d)
  BY DEF Steps!Init
<1>2. PICK type \in Steps!Typings(up) : \E d \in Steps!Structures(type, up) : def \in Steps!Definitions(d)
  BY <1>1
<1>3. PICK d \in Steps!Structures(type, up) : def \in Steps!Definitions(d) BY <1>2
<1>4. /\ d.type = type /\ d.up = up /\ d.to \in Steps!BranchesOf(type, up) BY <1>3 DEF Steps!Structures
<1>5. /\ def.type = type /\ def.up = up /\ def.to = d.to /\ def.at \in Ids /\ Steps!checkRef(def)
  BY <1>3, <1>4 DEF Steps!Definitions
<1>6. Steps!Tree(def)
  <2>1. up \in [Ids -> {Steps!Top} \cup Ids] /\ \A i \in Ids : up[i] < i BY DEF Steps!Forests
  <2>2. ASSUME NEW i \in Ids PROVE Steps!Branches(def, i) \subseteq Steps!Siblings(def, i)
    <3>1. CASE type[i] = "condition"
      <4>1. i \in Steps!Conditions(type) BY <3>1 DEF Steps!Conditions
      <4>2. def.to[i] \subseteq Ids /\ \A j \in def.to[i] : up[j] = up[i]
        BY <1>4, <1>5, <4>1 DEF Steps!BranchesOf
      <4> QED BY <1>5, <3>1, <4>2 DEF Steps!Branches, Steps!Siblings, Steps!Level, Steps!IsA
    <3>2. CASE type[i] # "condition"
      BY <1>5, <3>2 DEF Steps!Branches, Steps!IsA
    <3> QED BY <3>1, <3>2
  <2> QED BY <1>5, <2>1, <2>2 DEF Steps!Tree
<1>7. Steps!Validated BY <1>5, <1>6 DEF Steps!Validated
<1>8. PICK scope : scope = {} OBVIOUS
<1>9. PICK F : F = [in |-> Steps!Top, run |-> Steps!InOrder(Steps!Roots(def, Steps!Top)), scope |-> scope, more |-> FALSE]
  OBVIOUS
<1>10. stack = <<F>> /\ unread = {} BY <1>8, <1>9 DEF Steps!Init, Steps!Frame
<1>11. F \in Steps!Frames /\ Steps!Covered(F) /\ Steps!Ready(F)
  <2>1. Steps!Visible(def)[Steps!Top] \subseteq scope \cup unread BY <1>6, StepsVisibleDef
  <2>2. Steps!Looped(Steps!Top) => Steps!Item \in scope BY DEF Steps!Looped
  <2>3. Steps!Top \in {Steps!Top} \cup Ids /\ scope \in SUBSET ({Steps!Item} \cup Ids) BY <1>8
  <2> QED BY <1>6, <1>9, <2>1, <2>2, <2>3, StepsStarts
<1>12. stack \in Seq(Steps!Frames) /\ Len(stack) = 1 /\ stack[1] = F BY <1>10, <1>11
<1>13. \A k \in 1 .. Len(stack) : Steps!Nested(k)
  <2>1. SUFFICES ASSUME NEW k \in 1 .. Len(stack) PROVE Steps!Nested(k) OBVIOUS
  <2>2. k = 1 BY <1>12
  <2>3. stack[k].in = Steps!Top BY <1>9, <1>12, <2>2
  <2> QED BY <2>3 DEF Steps!Nested
<1>14. \A E \in Steps!Levels : Steps!Covered(E) /\ Steps!Ready(E)
  <2>1. SUFFICES ASSUME NEW E \in Steps!Levels PROVE E = F BY <1>11
  <2> QED BY <1>12 DEF Steps!Levels
<1> QED BY <1>7, <1>10, <1>12, <1>13, <1>14 DEF Steps!IInv

LEMMA StepsNextInv ==
  ASSUME Steps!Numbered, Steps!IInv, Steps!Next \/ UNCHANGED Steps!vars
  PROVE  Steps!IInv'
<1>1. CASE Steps!Next
  <2>1. def' = def BY <1>1 DEF Steps!Next
  <2> QED
    BY <1>1, <2>1, StepsLeafKeeps, StepsConditionKeeps, StepsForEachKeeps, StepsParallelKeeps, StepsFinishKeeps,
             StepsRestKeeps, StepsFailKeeps DEF Steps!Next
<1>2. CASE UNCHANGED Steps!vars
  <2>1. def' = def /\ stack' = stack /\ unread' = unread BY <1>2 DEF Steps!vars
  <2>2. Steps!Validated' BY <2>1 DEF Steps!IInv, Steps!Validated
  <2>3. \A k \in 1 .. Len(stack) : Steps!Nested(k)' BY <2>1 DEF Steps!IInv, Steps!Nested
  <2>4. ASSUME NEW E \in Steps!Levels' PROVE Steps!Covered(E)' /\ Steps!Ready(E)'
    <3>1. E \in Steps!Levels BY <2>1 DEF Steps!Levels
    <3>2. Steps!Covered(E) /\ Steps!Ready(E) BY <3>1 DEF Steps!IInv
    <3>3. unread \subseteq unread' BY <2>1
    <3> QED BY <2>1, <3>2, <3>3, StepsKeptLevel
  <2> QED BY <2>1, <2>2, <2>3, <2>4 DEF Steps!IInv
<1> QED BY <1>1, <1>2

-----------------------------------------------------------------------------
(* Schedule: the slot is the first fire after the time at which it was asked. *)

\* The finite sets of the module are those of the library.
LEMMA TimesSame == ASSUME NEW S PROVE Times!Cardinality(S) = Cardinality(S)
BY DEF Cardinality, Times!Cardinality, IsFiniteSet, Times!IsFiniteSet

\* Division with a remainder.
LEMMA Divides ==
  ASSUME NEW a \in Nat, NEW n \in Nat \ {0}
  PROVE  a = n * (a \div n) + (a % n) /\ a % n \in 0 .. n - 1 /\ a \div n \in Nat
OBVIOUS

\* A number without remainder is a multiple.
LEMMA Factor ==
  ASSUME NEW a \in Nat, NEW n \in Nat \ {0}, a % n = 0
  PROVE  a \div n \in Nat /\ a = n * (a \div n)
<1>1. PICK k \in Nat : k = a \div n BY Divides
<1>2. a = n * k + 0 BY <1>1, Divides
<1>3. n * k \in Nat OBVIOUS
<1> QED BY <1>1, <1>2, <1>3

\* A multiple has no remainder.
LEMMA Multiple ==
  ASSUME NEW k \in Nat, NEW n \in Nat \ {0}
  PROVE  n * k \in Nat /\ (n * k) % n = 0 /\ (n * k) \div n = k
OBVIOUS

\* Multiples are in order.
LEMMA Multiplied ==
  ASSUME NEW p \in Nat, NEW q \in Nat, NEW n \in Nat \ {0}
  PROVE  (p < q => n * p + n <= n * q) /\ (n * p < n * q => p < q)
<1>1. ASSUME NEW a \in Nat, NEW b \in Nat, a < b PROVE n * a + n <= n * b
  <2>1. PICK d \in Nat : b = a + 1 + d BY <1>1, b - a - 1 \in Nat
  <2>2. n * b = n * a + n + n * d BY <2>1
  <2>3. n * d \in Nat OBVIOUS
  <2> QED BY <2>2, <2>3
<1>2. ASSUME n * p < n * q, ~(p < q) PROVE FALSE
  <2>1. p = q \/ q < p BY <1>2
  <2>2. CASE p = q BY <1>2, <2>2
  <2>3. CASE q < p
    <3>1. n * q + n <= n * p BY <2>3, <1>1
    <3>2. n * p \in Nat /\ n * q \in Nat OBVIOUS
    <3> QED BY <1>2, <3>1, <3>2
  <2> QED BY <2>1, <2>2, <2>3
<1> QED BY <1>1, <1>2

\* So are quotients.
LEMMA DividedOrder ==
  ASSUME NEW a \in Nat, NEW b \in Nat, NEW n \in Nat \ {0}, a <= b
  PROVE  a \div n <= b \div n
<1>1. SUFFICES ASSUME b \div n < a \div n PROVE FALSE BY Divides
<1>2. n * (b \div n) + n <= n * (a \div n) BY <1>1, Divides, Multiplied
<1>3. n * (a \div n) \in Nat /\ n * (b \div n) \in Nat BY Divides
<1> QED BY <1>2, <1>3, Divides

\* cronSchedule.next finds the first minute that matches after t, or the horizon has none.
Matching(c, x) == x % Minute = 0 /\ Times!matches(c, x \div Minute)
LEMMA TimesNextMinute ==
  ASSUME Times!Lawful, NEW c, NEW t \in Nat, NEW next, next = Times!NextMinute(c, t)
  PROVE  \/ /\ next = Times!None
            /\ \A k \in t \div Minute + 1 .. t \div Minute + 1 + Horizon - 1 : ~ Times!matches(c, k)
         \/ /\ next \in Nat /\ next > t /\ next # Times!None /\ Matching(c, next)
            /\ \A x \in t + 1 .. next - 1 : ~ Matching(c, x)
<1> DEFINE first == t \div Minute + 1
           found == {m \in first .. first + Horizon - 1 : Times!matches(c, m)}
<1>1. Minute \in Nat \ {0} /\ Horizon \in Nat \ {0} BY DEF Times!Lawful
<1>2. t \div Minute \in Nat /\ t = Minute * (t \div Minute) + (t % Minute) /\ t % Minute \in 0 .. Minute - 1
  BY <1>1, Divides
<1>3. first \in Nat /\ found \subseteq Nat BY <1>1, <1>2
<1>4. CASE found = {}
  <2>1. next = Times!None BY <1>4 DEF Times!NextMinute
  <2>2. \A k \in first .. first + Horizon - 1 : ~ Times!matches(c, k) BY <1>4
  <2> QED BY <2>1, <2>2
<1>5. CASE found # {}
  <2> DEFINE m == CHOOSE m \in found : \A k \in found : m <= k
  <2>1. m \in found /\ \A k \in found : m <= k BY <1>3, <1>5, Least
  <2>2. next = Minute * m BY <1>5 DEF Times!NextMinute
  <2> HIDE DEF m
  <2>3. m \in Nat /\ m >= first /\ m <= first + Horizon - 1 /\ Times!matches(c, m) BY <1>1, <1>3, <2>1
  <2>4. next \in Nat /\ next % Minute = 0 /\ next \div Minute = m BY <1>1, <2>2, <2>3, Multiple
  <2>5. next > t
    <3>1. Minute * (t \div Minute) + Minute <= Minute * m BY <1>1, <1>2, <2>3, Multiplied
    <3>2. Minute * (t \div Minute) \in Nat BY <1>1, <1>2
    <3> QED BY <1>1, <1>2, <2>2, <2>4, <3>1, <3>2
  <2>6. ASSUME NEW x \in t + 1 .. next - 1, Matching(c, x) PROVE FALSE
    <3>1. x \in Nat /\ t < x /\ x < next BY <2>4
    <3>2. x = Minute * (x \div Minute) /\ x \div Minute \in Nat BY <1>1, <2>6, <3>1, Factor DEF Matching
    <3>3. t \div Minute < x \div Minute
      <4>1. Minute * (t \div Minute) < Minute * (x \div Minute)
        <5>1. Minute * (t \div Minute) \in Nat BY <1>1, <1>2
        <5> QED BY <1>2, <3>1, <3>2, <5>1
      <4> QED BY <1>1, <1>2, <3>2, <4>1, Multiplied
    <3>4. x \div Minute < m BY <1>1, <2>2, <2>3, <3>1, <3>2, Multiplied
    <3>5. x \div Minute \in found BY <1>1, <1>3, <2>3, <2>6, <3>2, <3>3, <3>4 DEF Matching
    <3> QED BY <2>1, <2>3, <3>2, <3>4, <3>5
  <2>7. next # Times!None BY <2>4, <2>5 DEF Times!None
  <2> QED BY <2>3, <2>4, <2>5, <2>6, <2>7 DEF Matching
<1> QED BY <1>4, <1>5

\* An interval that sets out from one of its fires jumps to the first one after t.
LEMMA TimesJump ==
  ASSUME NEW every \in Nat \ {0}, NEW origin \in Nat, NEW from \in Nat, NEW t \in Nat,
         origin <= from, from <= t, (from - origin) % every = 0,
         NEW next, next = Times!Jump(every, from, t)
  PROVE  /\ next \in Nat /\ next > t /\ next > origin /\ next - every <= t
         /\ (next - origin) % every = 0
<1>1. PICK a \in Nat : from - origin = every * a BY from - origin \in Nat, Factor
<1>2. PICK q \in Nat \ {0} : next = from + every * q /\ t < next /\ next - every <= t
  <2>1. CASE from + every > t
    <3>1. next = from + every BY <2>1 DEF Times!Jump
    <3>2. every * 1 = every OBVIOUS
    <3>3. from + every - every <= t OBVIOUS
    <3> QED BY <2>1, <3>1, <3>2, <3>3
  <2>2. CASE ~(from + every > t)
    <3> DEFINE rest == t - (from + every)
               d == rest \div every
    <3>1. rest \in Nat BY <2>2
    <3>2. rest = every * d + (rest % every) /\ rest % every \in 0 .. every - 1 /\ d \in Nat BY <3>1, Divides
    <3>3. next = (from + every) + every * (d + 1) BY <2>2 DEF Times!Jump
    <3> HIDE DEF d
    <3>4. every * (d + 1) = every * d + every /\ every * (d + 2) = every * d + every + every BY <3>2
    <3>5. every * d \in Nat BY <3>2
    <3>6. t = from + every + every * d + (rest % every) BY <3>1, <3>2, <3>5
    <3> HIDE DEF rest
    <3>7. PICK e \in Nat : e = every * d BY <3>5
    <3>8. PICK r \in 0 .. every - 1 : r = rest % every BY <3>2
    <3>9. t = from + every + e + r /\ next = from + every + e + every BY <3>3, <3>4, <3>6, <3>7, <3>8
    <3>10. t < next /\ next - every <= t BY <3>8, <3>9
    <3>11. next = from + every * (d + 2) BY <3>4, <3>7, <3>9
    <3>12. d + 2 \in Nat \ {0} BY <3>2
    <3> QED BY <3>10, <3>11, <3>12
  <2> QED BY <2>1, <2>2
<1>3. every * q \in Nat /\ every * a \in Nat OBVIOUS
<1>4. next - origin = every * (a + q)
  <2>1. every * (a + q) = every * a + every * q OBVIOUS
  <2> QED BY <1>1, <1>2, <1>3, <2>1
<1>5. (next - origin) % every = 0 BY <1>4, Multiple, a + q \in Nat
<1> QED BY <1>2, <1>3, <1>5

\* Between two fires of an interval there is none.
LEMMA TimesBetween ==
  ASSUME NEW every \in Nat \ {0}, NEW origin \in Nat, NEW x \in Nat, NEW next \in Nat,
         origin <= x, next - every < x, x < next, (x - origin) % every = 0, (next - origin) % every = 0
  PROVE  FALSE
<1>1. PICK a \in Nat : next - origin = every * a BY next - origin \in Nat, Factor
<1>2. PICK b \in Nat : x - origin = every * b BY x - origin \in Nat, Factor
<1>3. every * b + every <= every * a
  <2>1. every * b < every * a BY <1>1, <1>2
  <2> QED BY <2>1, Multiplied
<1>4. PICK z \in Nat : z = every * b BY every * b \in Nat
<1>5. x - origin + every <= next - origin BY <1>1, <1>2, <1>3, <1>4
<1> QED BY <1>5

\* What is kept when a search ends: the slot, when it was computed and from where.
LEMMA TimesReturned ==
  ASSUME Times!IInv, search.at = "search", NEW next \in Nat, Times!Return(next),
         IF next # Times!None
         THEN /\ next > clock /\ Times!Fires(search.origin, next)
              /\ \A x \in clock + 1 .. next - 1 : ~ Times!Fires(search.origin, x)
         ELSE \/ trigger.type = "manual"
              \/ trigger.type = "cron" /\ (Times!Rare' \/ Times!Cardinality(Times!Missed') >= Backlog)
  PROVE  Times!IInv'
<1>1. /\ slot' = next /\ trigger' = trigger /\ clock' = clock /\ search' = Times!Rest
      /\ last' = [asked |-> clock, since |-> search.since, origin |-> search.origin]
  BY DEF Times!Return
<1>2. search \in Times!Searches /\ clock \in 1 .. MaxNow /\ clock \in Nat
  BY DEF Times!IInv, Times!TypeOK
<1>3. /\ last' \in [asked : Nat, since : Nat, origin : Nat]
      /\ last'.asked = clock /\ last'.since = search.since /\ last'.origin = search.origin
  BY <1>1, <1>2 DEF Times!Searches
<1>4. \A o, x : Times!Fires(o, x)' = Times!Fires(o, x)
  BY <1>1 DEF Times!Fires
<1>5. search' \in Times!Searches /\ search'.at = "idle" BY <1>1 DEF Times!Rest, Times!Searches
<1>6. Times!TypeOK' BY <1>1, <1>3, <1>5 DEF Times!IInv, Times!TypeOK
<1>7. Times!Searching' BY <1>5 DEF Times!Searching
<1>8. Times!Searched' BY <1>2, <1>3 DEF Times!Searched
<1>9. Times!SlotIsNext'
  <2>1. CASE next # Times!None BY <1>1, <1>2, <1>3, <1>4, <2>1 DEF Times!SlotIsNext
  <2>2. CASE next = Times!None BY <1>1, <2>2 DEF Times!SlotIsNext
  <2> QED BY <2>1, <2>2
<1> QED BY <1>6, <1>7, <1>8, <1>9 DEF Times!IInv

\* A search that fails for a user leaves everything as it was.
LEMMA TimesRefused ==
  ASSUME Times!IInv, search' = Times!Rest, UNCHANGED <<trigger, clock, slot, last>>
  PROVE  Times!IInv'
<1>1. search' \in Times!Searches /\ search'.at = "idle" BY DEF Times!Rest, Times!Searches
<1>2. \A o, x : Times!Fires(o, x)' = Times!Fires(o, x) BY DEF Times!Fires
<1>3. Times!Missed' = Times!Missed /\ Times!Rare' = Times!Rare
  <2>1. Times!Missed' = Times!Missed BY <1>2 DEF Times!Missed
  <2>2. Times!Rare' = Times!Rare BY DEF Times!Rare
  <2> QED BY <2>1, <2>2
<1>4. Times!SlotIsNext' BY <1>2, <1>3 DEF Times!IInv, Times!SlotIsNext
<1>5. Times!TypeOK' /\ Times!Searching' /\ Times!Searched'
  BY <1>1 DEF Times!IInv, Times!TypeOK, Times!Searching, Times!Searched
<1> QED BY <1>4, <1>5 DEF Times!IInv

\* Intervals have a length.
LEMMA TimesEvery ==
  ASSUME Times!Lawful, Times!IInv, trigger.type = "interval"
  PROVE  trigger.every \in Nat \ {0}
<1>1. trigger.every \in Nat /\ MinInterval \in Nat \ {0} BY DEF Times!Lawful, Times!IInv, Times!TypeOK
<1>2. trigger.every >= MinInterval BY DEF Times!IInv, Times!TypeOK, Times!validateTrigger
<1> QED BY <1>1, <1>2

\* An interval returns its first fire after now.
LEMMA TimesInterval == ASSUME Times!Lawful, Times!IInv, Times!Interval PROVE Times!IInv'
<1>0. PICK next : next = Times!Jump(trigger.every, search.from, clock) OBVIOUS
<1>1. search.at = "search" /\ trigger.type = "interval" /\ Times!Return(next) BY <1>0 DEF Times!Interval
<1>2. trigger.every \in Nat \ {0} BY <1>1, TimesEvery
<1>3. /\ search.origin \in Nat /\ search.from \in Nat /\ clock \in Nat
      /\ search.origin <= search.from /\ search.from <= clock
      /\ (search.from - search.origin) % trigger.every = 0
  BY <1>1 DEF Times!IInv, Times!TypeOK, Times!Searching, Times!Searches, Times!Lawful
<1>4. /\ next \in Nat /\ next > clock /\ next > search.origin /\ next - trigger.every <= clock
      /\ (next - search.origin) % trigger.every = 0
  BY <1>0, <1>2, <1>3, TimesJump
<1>5. Times!Fires(search.origin, next) BY <1>1, <1>4 DEF Times!Fires
<1>6. next # Times!None BY <1>3, <1>4 DEF Times!None
<1>7. ASSUME NEW x \in clock + 1 .. next - 1, Times!Fires(search.origin, x) PROVE FALSE
  <2>1. x \in Nat /\ next - trigger.every < x /\ x < next BY <1>2, <1>3, <1>4
  <2>2. search.origin <= x /\ (x - search.origin) % trigger.every = 0
    BY <1>1, <1>3, <1>7, <2>1 DEF Times!Fires
  <2> QED BY <1>2, <1>3, <1>4, <2>1, <2>2, TimesBetween
<1> QED BY <1>1, <1>4, <1>5, <1>6, <1>7, TimesReturned

\* A manual trigger has no slot.
LEMMA TimesManual == ASSUME Times!Lawful, Times!IInv, Times!Manual PROVE Times!IInv'
<1>1. search.at = "search" /\ trigger.type = "manual" /\ Times!Return(Times!None) BY DEF Times!Manual
<1>2. Times!None \in Nat BY DEF Times!None
<1> QED BY <1>1, <1>2, TimesReturned

\* One more fire is in the past, and has been counted.
LEMMA TimesFurther ==
  ASSUME Times!Lawful, Times!IInv, search.at = "search", trigger.type = "cron",
         NEW next \in Nat, next <= clock, next > search.from, Times!Fires(search.origin, next),
         search' = [search EXCEPT !.from = next, !.tries = @ + 1], UNCHANGED <<trigger, clock, slot, last>>
  PROVE  Times!IInv'
<1>1. /\ search \in Times!Searches
      /\ search.since \in Nat /\ search.from \in Nat /\ search.tries \in Nat
      /\ search.since <= search.from /\ search.from <= clock
      /\ search.tries <= Times!Cardinality(Times!Tried)
  BY DEF Times!IInv, Times!TypeOK, Times!Searching, Times!Searches
<1>2. /\ search'.at = "search" /\ search'.since = search.since /\ search'.origin = search.origin
      /\ search'.from = next /\ search'.tries = search.tries + 1
      /\ search' \in Times!Searches
  <2>1. PICK g : g = [search EXCEPT !.from = next] OBVIOUS
  <2>2. /\ g.at = "search" /\ g.since = search.since /\ g.origin = search.origin
        /\ g.from = next /\ g.tries = search.tries /\ g \in Times!Searches
    BY <1>1, <2>1 DEF Times!Searches
  <2>3. search.tries + 1 \in Nat BY <1>1
  <2>4. search' = [[search EXCEPT !.from = next] EXCEPT !.tries = search.tries + 1]
    BY <1>1 DEF Times!Searches
  <2>5. search' = [g EXCEPT !.tries = search.tries + 1] BY <2>1, <2>4
  <2> QED BY <2>2, <2>3, <2>5 DEF Times!Searches
<1>3. \A o, x : Times!Fires(o, x)' = Times!Fires(o, x) BY DEF Times!Fires
<1>4. search'.tries <= Times!Cardinality(Times!Tried')
  <2>1. IsFiniteSet(search.since + 1 .. next) BY <1>1, search.since + 1 \in Int, next \in Int, FS_Interval
  <2>2. Times!Tried' = {x \in search.since + 1 .. next : Times!Fires(search.origin, x)}
    BY <1>2, <1>3 DEF Times!Tried
  <2>3. Times!Tried \cup {next} \subseteq Times!Tried' BY <1>1, <2>2 DEF Times!Tried
  <2>4. IsFiniteSet(Times!Tried') /\ IsFiniteSet(Times!Tried)
    <3>1. Times!Tried' \subseteq search.since + 1 .. next BY <2>2
    <3>2. Times!Tried \subseteq Times!Tried' BY <2>3
    <3> QED BY <2>1, <3>1, <3>2, FS_Subset
  <2>5. next \notin Times!Tried BY <1>1 DEF Times!Tried
  <2>6. Cardinality(Times!Tried \cup {next}) = Cardinality(Times!Tried) + 1
    BY <2>4, <2>5, FS_AddElement
  <2>7. Cardinality(Times!Tried \cup {next}) <= Cardinality(Times!Tried') BY <2>3, <2>4, FS_Subset
  <2>8. Cardinality(Times!Tried) \in Nat /\ Cardinality(Times!Tried') \in Nat BY <2>4, FS_CardinalityType
  <2>9. search.tries <= Cardinality(Times!Tried) BY <1>1, TimesSame
  <2>10. search'.tries <= Cardinality(Times!Tried') BY <1>1, <1>2, <2>6, <2>7, <2>8, <2>9
  <2> QED BY <2>10, TimesSame
<1>5. Times!TypeOK' BY <1>2 DEF Times!IInv, Times!TypeOK
<1>6. Times!Searching'
  <2>1. search'.since <= search'.from /\ search'.from <= clock' BY <1>1, <1>2
  <2> QED BY <1>4, <2>1 DEF Times!Searching
<1>7. Times!Missed' = Times!Missed /\ Times!Rare' = Times!Rare
  <2>1. Times!Missed' = Times!Missed BY <1>3 DEF Times!Missed
  <2>2. Times!Rare' = Times!Rare BY DEF Times!Rare
  <2> QED BY <2>1, <2>2
<1>8. Times!Searched' /\ Times!SlotIsNext'
  BY <1>3, <1>7 DEF Times!IInv, Times!Searched, Times!SlotIsNext
<1> QED BY <1>5, <1>6, <1>8 DEF Times!IInv

\* A cron expression returns its first fire after now, takes one more that was missed, or has
\* come upon a horizon without fires or missed too many.
LEMMA TimesCron == ASSUME Times!Lawful, Times!IInv, Times!Cron PROVE Times!IInv'
<1> DEFINE c == Times!parseCron(trigger)
<1>1. PICK next : next = Times!NextMinute(c, search.from) OBVIOUS
<1>2. search.at = "search" /\ trigger.type = "cron" BY DEF Times!Cron
<1>3. /\ search.since \in Nat /\ search.from \in Nat /\ search.tries \in Nat /\ clock \in Nat
      /\ search.since <= search.from /\ search.from <= clock
      /\ search.tries <= Times!Cardinality(Times!Tried)
  BY <1>2 DEF Times!IInv, Times!TypeOK, Times!Searching, Times!Searches
<1> HIDE DEF c
<1>4. \/ /\ next = Times!None
         /\ \A k \in search.from \div Minute + 1 .. search.from \div Minute + 1 + Horizon - 1 : ~ Times!matches(c, k)
      \/ /\ next \in Nat /\ next > search.from /\ next # Times!None /\ Matching(c, next)
         /\ \A x \in search.from + 1 .. next - 1 : ~ Matching(c, x)
  BY <1>1, <1>3, TimesNextMinute
<1>5. \A x : Times!Fires(search.origin, x) <=> Matching(c, x)
  BY <1>2 DEF Times!Fires, Matching, c
<1>6. Times!None \in Nat BY DEF Times!None
<1>7. CASE search.tries < Backlog /\ next # Times!None /\ next > clock /\ Times!Return(next)
  <2>1. next \in Nat /\ next > search.from /\ Times!Fires(search.origin, next) BY <1>4, <1>5, <1>7
  <2>2. \A x \in clock + 1 .. next - 1 : ~ Times!Fires(search.origin, x) BY <1>3, <1>4, <1>5, <1>7
  <2> QED BY <1>2, <1>7, <2>1, <2>2, TimesReturned
<1>8. CASE /\ search.tries < Backlog /\ next # Times!None /\ next <= clock /\ next > search.from
           /\ search' = [search EXCEPT !.from = next, !.tries = @ + 1] /\ UNCHANGED <<trigger, clock, slot, last>>
  BY <1>2, <1>4, <1>5, <1>8, TimesFurther
<1>9. CASE /\ ~ (search.tries < Backlog /\ next # Times!None /\ (next > clock \/ next > search.from))
           /\ Times!Return(Times!None)
  <2>1. /\ last'.asked = clock /\ last'.since = search.since /\ last'.origin = search.origin /\ trigger' = trigger
    BY <1>9 DEF Times!Return
  <2>2. CASE ~(search.tries < Backlog)
    <3>1. Times!Missed' = {x \in search.since + 1 .. clock : Times!Fires(search.origin, x)}
      BY <2>1 DEF Times!Missed, Times!Fires
    <3>2. IsFiniteSet(search.since + 1 .. clock)
      BY <1>3, search.since + 1 \in Int, clock \in Int, FS_Interval
    <3>3. Times!Tried \subseteq Times!Missed' BY <1>3, <3>1 DEF Times!Tried
    <3>4. IsFiniteSet(Times!Missed') BY <3>1, <3>2, FS_Subset
    <3>5. Cardinality(Times!Tried) <= Cardinality(Times!Missed') BY <3>3, <3>4, FS_Subset
    <3>6. Cardinality(Times!Tried) \in Nat /\ Cardinality(Times!Missed') \in Nat
      BY <3>3, <3>4, FS_Subset, FS_CardinalityType
    <3>7. search.tries <= Cardinality(Times!Tried) BY <1>3, TimesSame
    <3>8. Backlog \in Nat BY DEF Times!Lawful
    <3>9. Cardinality(Times!Missed') >= Backlog BY <1>3, <2>2, <3>5, <3>6, <3>7, <3>8
    <3>10. Times!Cardinality(Times!Missed') >= Backlog BY <3>9, TimesSame
    <3> QED BY <1>2, <1>6, <1>9, <3>10, TimesReturned
  <2>3. CASE search.tries < Backlog
    <3>1. next = Times!None BY <1>4, <1>9, <2>3
    <3>2. Minute \in Nat \ {0} BY DEF Times!Lawful
    <3>3. /\ search.since \div Minute <= search.from \div Minute
          /\ search.from \div Minute <= clock \div Minute
          /\ search.since \div Minute \in Nat /\ search.from \div Minute \in Nat /\ clock \div Minute \in Nat
      BY <1>3, <3>2, DividedOrder, Divides
    <3>4. PICK m \in search.since \div Minute + 1 .. clock \div Minute + 1 : m = search.from \div Minute + 1
      BY <3>3
    <3>5. \A k \in m .. m + Horizon - 1 : ~ Times!matches(c, k) BY <1>4, <3>1, <3>4
    <3>6. Times!Rare' BY <2>1, <3>5 DEF Times!Rare, c
    <3> QED BY <1>2, <1>6, <1>9, <3>6, TimesReturned
  <2> QED BY <2>2, <2>3
<1>10. CASE /\ ~ (search.tries < Backlog /\ next # Times!None /\ (next > clock \/ next > search.from))
            /\ Times!Error
  <2>1. CASE search.enabling BY <1>10, <2>1, TimesRefused DEF Times!Error
  <2>2. CASE ~search.enabling BY <1>9, <1>10, <2>2 DEF Times!Error
  <2> QED BY <2>1, <2>2
<1> QED BY <1>1, <1>7, <1>8, <1>10 DEF Times!Cron, c

\* Who asks for the next fire sets out from one, or from the present.
LEMMA TimesCalled ==
  ASSUME Times!Lawful, Times!IInv, NEW enabling \in BOOLEAN, NEW from \in Nat, NEW origin \in Nat, from <= clock,
         trigger.type = "interval" => from >= origin /\ (from - origin) % trigger.every = 0,
         Times!NextAfterNow(enabling, from, origin)
  PROVE  Times!IInv'
<1>1. /\ UNCHANGED <<trigger, clock, slot, last>>
      /\ search' = [at |-> "search", enabling |-> enabling, since |-> from, from |-> from, tries |-> 0,
                    origin |-> origin]
  BY DEF Times!NextAfterNow
<1>2. /\ search'.at = "search" /\ search'.since = from /\ search'.from = from /\ search'.tries = 0
      /\ search'.origin = origin /\ search' \in Times!Searches
  BY <1>1 DEF Times!Searches
<1>3. Times!TypeOK' BY <1>1, <1>2 DEF Times!IInv, Times!TypeOK
<1>4. \A o, x : Times!Fires(o, x)' = Times!Fires(o, x) BY <1>1 DEF Times!Fires
<1>5. Times!Missed' = Times!Missed /\ Times!Rare' = Times!Rare
  <2>1. Times!Missed' = Times!Missed BY <1>1, <1>4 DEF Times!Missed
  <2>2. Times!Rare' = Times!Rare BY <1>1 DEF Times!Rare
  <2> QED BY <2>1, <2>2
<1>6. Times!Searched' /\ Times!SlotIsNext'
  BY <1>1, <1>4, <1>5 DEF Times!IInv, Times!Searched, Times!SlotIsNext
<1>7. Times!Cardinality(Times!Tried') = 0
  <2>1. Times!Tried' = {} BY <1>2 DEF Times!Tried
  <2> QED BY <2>1, TimesSame, FS_EmptySet
<1>8. Times!Searching'
  <2>1. search'.tries <= Times!Cardinality(Times!Tried') BY <1>2, <1>7
  <2> QED BY <1>1, <1>2, <2>1 DEF Times!Searching
<1> QED BY <1>3, <1>6, <1>8 DEF Times!IInv

\* The user asks from the present on.
LEMMA TimesEnable == ASSUME Times!Lawful, Times!IInv, Times!Enable PROVE Times!IInv'
<1>1. clock \in Nat /\ clock <= clock BY DEF Times!IInv, Times!TypeOK, Times!Lawful
<1>2. trigger.type = "interval" => clock >= clock /\ (clock - clock) % trigger.every = 0
  <2>1. clock - clock = 0 BY <1>1
  <2> QED BY <1>1, <2>1, TimesEvery
<1> QED BY <1>1, <1>2, TimesCalled DEF Times!Enable

\* The scheduler asks from the slot on, which is a fire.
LEMMA TimesAsk == ASSUME Times!Lawful, Times!IInv, Times!Ask PROVE Times!IInv'
<1>1. clock \in Nat /\ slot \in Nat /\ slot <= clock /\ last.origin \in Nat
  BY DEF Times!Ask, Times!IInv, Times!TypeOK, Times!Lawful
<1>2. CASE slot = Times!None
  <2>1. Times!From = clock BY <1>2 DEF Times!From
  <2>2. Times!NextAfterNow(FALSE, clock, clock) BY <1>2, <2>1 DEF Times!Ask
  <2>3. trigger.type = "interval" => clock >= clock /\ (clock - clock) % trigger.every = 0
    <3>1. clock - clock = 0 BY <1>1
    <3> QED BY <1>1, <3>1, TimesEvery
  <2> QED BY <1>1, <2>2, <2>3, FALSE \in BOOLEAN, clock <= clock, TimesCalled
<1>3. CASE slot # Times!None
  <2>1. Times!From = slot BY <1>1, <1>3 DEF Times!From
  <2>2. Times!NextAfterNow(FALSE, slot, last.origin) BY <1>3, <2>1 DEF Times!Ask
  <2>3. Times!Fires(last.origin, slot) BY <1>3 DEF Times!IInv, Times!Searched, Times!SlotIsNext
  <2>4. trigger.type = "interval" => slot >= last.origin /\ (slot - last.origin) % trigger.every = 0
    BY <1>1, <2>3 DEF Times!Fires
  <2> QED BY <1>1, <2>2, <2>4, TimesCalled
<1> QED BY <1>2, <1>3

\* It holds to begin with.
LEMMA TimesInitInv == ASSUME Times!Lawful PROVE Times!Init => Times!IInv
<1> SUFFICES ASSUME Times!Init PROVE Times!IInv OBVIOUS
<1>1. /\ search.at = "idle" /\ last.asked = 0 /\ slot = Times!None /\ Times!None \in Nat
      /\ search \in Times!Searches /\ last \in [asked : Nat, since : Nat, origin : Nat]
  BY DEF Times!Init, Times!None, Times!Rest, Times!Searches
<1>2. Times!TypeOK BY <1>1 DEF Times!Init, Times!TypeOK
<1> QED BY <1>1, <1>2 DEF Times!IInv, Times!Searching, Times!Searched, Times!SlotIsNext

\* Every step keeps it.
LEMMA TimesNextInv ==
  ASSUME Times!Lawful, Times!IInv, Times!Next \/ UNCHANGED Times!vars
  PROVE  Times!IInv'
<1>1. CASE Times!Elapse \/ UNCHANGED Times!vars
  <2>1. /\ UNCHANGED <<trigger, slot, last, search>> /\ clock' \in 1 .. MaxNow
        /\ (clock' = clock \/ search.at = "idle")
    BY <1>1 DEF Times!IInv, Times!TypeOK, Times!Lawful, Times!Elapse, Times!Idle, Times!vars
  <2>2. \A o, x : Times!Fires(o, x)' = Times!Fires(o, x) BY <2>1 DEF Times!Fires
  <2>3. Times!Tried' = Times!Tried /\ Times!Missed' = Times!Missed /\ Times!Rare' = Times!Rare
    <3>1. Times!Tried' = Times!Tried BY <2>1, <2>2 DEF Times!Tried
    <3>2. Times!Missed' = Times!Missed BY <2>1, <2>2 DEF Times!Missed
    <3>3. Times!Rare' = Times!Rare BY <2>1 DEF Times!Rare
    <3> QED BY <3>1, <3>2, <3>3
  <2>4. Times!TypeOK' BY <2>1 DEF Times!IInv, Times!TypeOK
  <2>5. Times!Searching' BY <2>1, <2>3 DEF Times!IInv, Times!Searching
  <2>6. Times!SlotIsNext' BY <2>1, <2>2, <2>3 DEF Times!IInv, Times!SlotIsNext
  <2>7. Times!Searched' BY <2>1 DEF Times!IInv, Times!Searched
  <2> QED BY <2>4, <2>5, <2>6, <2>7 DEF Times!IInv
<1> QED BY <1>1, TimesEnable, TimesAsk, TimesManual, TimesInterval, TimesCron DEF Times!Next

-----------------------------------------------------------------------------
(* The services one beside the other.                                         *)

\* A behaviour stays with its service, and each step is one of it.
LEMMA StepOfService ==
  ASSUME [Next]_vars
  PROVE  /\ service' = service
         /\ service = "table" => Table!Next \/ UNCHANGED Table!vars
         /\ service = "listen" => Listen!Next \/ UNCHANGED Listen!vars
         /\ service = "speak" => Speak!Next \/ UNCHANGED Speak!vars
         /\ service = "web" => Web!Next \/ UNCHANGED Web!vars
         /\ service = "gates" => Gates!Next \/ UNCHANGED Gates!vars
         /\ service = "assets" => Assets!Next \/ UNCHANGED Assets!vars
         /\ service = "turns" => Turns!Next \/ UNCHANGED Turns!vars
         /\ service = "steps" => Steps!Next \/ UNCHANGED Steps!vars
         /\ service = "times" => Times!Next \/ UNCHANGED Times!vars
<1>1. CASE UNCHANGED vars
  BY <1>1 DEF vars, tableVars, listenVars, speakVars, loginVars, gateVars, assetVars, turnVars,
              stepVars, timeVars, Steps!vars, Times!vars, Table!vars, Listen!vars, Speak!vars, Web!vars, Gates!vars, Assets!vars, Turns!vars
<1>2. CASE Next
  BY <1>2 DEF Next, OfAgents, OfTools, OfTable, OfListen, OfSpeak, OfAssets, OfSteps, OfTurns,
              OfWeb, OfGates, OfTimes
<1> QED BY <1>1, <1>2

\* Whoever has a connection that nobody is closing can be found, and only the newest waits
\* (Answer, Commit, expirePending, CloseSession and Close of internal/rtc/manager.go).
THEOREM TableIsHonest == Spec => []NothingOrphaned
<1> DEFINE I == service = "table" => Table!IInv
<1> USE ServicesAssumption
<1>1. Init => I
  BY TableInitInv DEF Init
<1>2. I /\ [Next]_vars => I'
  <2> SUFFICES ASSUME I, [Next]_vars, service' = "table" PROVE Table!IInv'
    OBVIOUS
  <2>1. Table!IInv /\ (Table!Next \/ UNCHANGED Table!vars)
    BY StepOfService
  <2> QED BY <2>1, TableNextInv
<1>3. I => NothingOrphaned
  BY TableFound DEF NothingOrphaned
<1> QED BY <1>1, <1>2, <1>3, PTL DEF Spec

\* A call is lost only to a newer session that is not being torn down (Commit and
\* onSessionClosed of internal/rtc/manager.go).
THEOREM CallKept == Spec => CallIsKept
<1> DEFINE I == service = "table" => Table!IInv
<1> USE ServicesAssumption
<1>1. Init => I
  BY TableInitInv DEF Init
<1>2. I /\ [Next]_vars => I'
  BY StepOfService, TableNextInv
<1>3. I /\ [Next]_vars => [service = "table" => Table!KeepsCall]_tableVars
  <2> SUFFICES ASSUME I, [Next]_vars, service = "table" PROVE Table!KeepsCall \/ UNCHANGED <<table, sess>>
    BY DEF tableVars
  <2>1. Table!IInv /\ (Table!Next \/ UNCHANGED <<table, sess>>)
    BY StepOfService DEF Table!vars
  <2> QED BY <2>1, TableKept
<1> QED BY <1>1, <1>2, <1>3, PTL DEF Spec, CallIsKept

\* What listens was not asked to stop, every other recognizer is closed or about to be, and a
\* segment ends once with the frames it lost (beginListen, finishListen and finalizeSegment of
\* internal/rtc/listen.go).
THEOREM ListeningIsHonest == Spec => []SegmentsHonest
<1> DEFINE I == service = "listen" => Listen!IInv
<1> USE ServicesAssumption
<1>1. Init => I
  BY ListenInitInv DEF Init
<1>2. I /\ [Next]_vars => I'
  <2> SUFFICES ASSUME I, [Next]_vars, service' = "listen" PROVE Listen!IInv'
    OBVIOUS
  <2>1. Listen!IInv /\ (Listen!Next \/ UNCHANGED Listen!vars)
    BY StepOfService
  <2>2. CASE Listen!Next
    BY <2>1, <2>2, ListenStepInv
  <2>3. CASE UNCHANGED Listen!vars
    BY <2>1, <2>3 DEF Listen!vars, Listen!IInv, Listen!TypeOK, Listen!AllHonest, Listen!OneLoads, Listen!InSeg,
                    Listen!Within
  <2> QED BY <2>1, <2>2, <2>3
<1>3. I => SegmentsHonest
  BY ListenHonest DEF SegmentsHonest
<1> QED BY <1>1, <1>2, <1>3, PTL DEF Spec

\* What plays is neither replaced nor cancelled, unless it is about to halt; and a reply that
\* goes on is heard, unless it came between the two halves of a control message (speakStream,
\* runSpeak, setMode and interrupt of internal/rtc).
THEOREM RepliesInOrder == Spec => []SpeechInOrder
<1> DEFINE I == service = "speak" => Speak!IInv
<1> USE ServicesAssumption
<1>1. Init => I
  BY SpeakInitInv DEF Init
<1>2. I /\ [Next]_vars => I'
  <2> SUFFICES ASSUME I, [Next]_vars, service' = "speak" PROVE Speak!IInv'
    OBVIOUS
  <2>1. Speak!IInv /\ (Speak!Next \/ UNCHANGED Speak!vars)
    BY StepOfService
  <2>2. CASE Speak!Next
    BY <2>1, <2>2, SpeakSpeakKeeps, SpeakControlKeeps, SpeakCloseKeeps DEF Speak!Next
  <2>3. CASE UNCHANGED Speak!vars
    BY <2>1, <2>3 DEF Speak!vars, Speak!IInv, Speak!TypeOK, Speak!Generations, Speak!Epochs, Speak!Playing,
                    Speak!Cancelled, Speak!SpeechInOrder
  <2> QED BY <2>1, <2>2, <2>3
<1>3. I => SpeechInOrder
  BY DEF SpeechInOrder, Speak!IInv
<1> QED BY <1>1, <1>2, <1>3, PTL DEF Spec

\* A session outlives no change of the password, and nobody on the local network still has
\* to change the one-time password (UpdateUserPasswordAndRevokeSessions, LANAllowed).
THEOREM SessionsDie == Spec => []OldSessionsDie
<1> DEFINE I == service = "web" => Web!IInv
<1> USE ServicesAssumption
<1>1. Init => I
  BY WebInitInv DEF Init
<1>2. I /\ [Next]_vars => I'
  <2> SUFFICES ASSUME I, [Next]_vars, service' = "web" PROVE Web!IInv'
    OBVIOUS
  <2>1. Web!IInv /\ (Web!Next \/ UNCHANGED Web!vars)
    BY StepOfService
  <2>2. CASE Web!Next
    BY <2>1, <2>2, WebStartingInv, WebServingInv DEF Web!Next
  <2>3. CASE UNCHANGED Web!vars
    BY <2>1, <2>3 DEF Web!vars, Web!IInv, Web!TypeOK, Web!Ensured, Web!Replaced, Web!Asking, Web!Minted,
                    Web!Gated
  <2> QED BY <2>1, <2>2, <2>3
<1>3. I => OldSessionsDie
  BY DEF OldSessionsDie, Web!IInv, Web!Ensured, Web!Replaced, Web!Minted, Web!Gated,
         Web!OldSessionsDie, Web!Processes
<1> QED BY <1>1, <1>2, <1>3, PTL DEF Spec

\* Whatever a definition says and whatever has changed since the run was checked, the gates of a
\* step (enforceProfile, the agent runner, the model's) let through what CheckEligibility would
\* still allow, and nothing else.
THEOREM OneVerdict == Spec => []GatesAgree
<1> DEFINE I == service = "gates" => Gates!IInv
<1> USE ServicesAssumption
<1>1. Init => I
  BY GatesInitInv DEF Init
<1>2. I /\ [Next]_vars => I'
  <2> SUFFICES ASSUME I, [Next]_vars, service' = "gates" PROVE Gates!IInv'
    OBVIOUS
  <2>1. Gates!IInv /\ (Gates!Next \/ UNCHANGED Gates!vars)
    BY StepOfService
  <2> QED BY <2>1, GatesNextInv
<1>3. I => GatesAgree
  BY DEF GatesAgree, Gates!IInv
<1> QED BY <1>1, <1>2, <1>3, PTL DEF Spec

\* A pull that reported success leaves every file with its pinned bytes and the server has
\* loaded no others, but for a file onto which an archive put a bad member (install
\* and withRetry of internal/assets, buildASR and buildTTS of cmd/hina/server.go).
THEOREM PinnedBytes == Spec => []PinnedBytesOnly
<1> DEFINE I == service = "assets" => Assets!IInv
<1> USE ServicesAssumption
<1>1. Init => I
  BY AssetsInitInv DEF Init
<1>2. I /\ [Next]_vars => I'
  <2> SUFFICES ASSUME I, [Next]_vars, service' = "assets" PROVE Assets!IInv'
    OBVIOUS
  <2>1. Assets!IInv /\ (Assets!Next \/ UNCHANGED Assets!vars)
    BY StepOfService
  <2> QED BY <2>1, AssetsNextInv
<1>3. I => PinnedBytesOnly
  BY DEF PinnedBytesOnly, Assets!PinnedBytesOnly, Assets!IInv, Assets!PulledSoFar, Assets!HasPinned,
         Assets!Kept, Assets!At
<1> QED BY <1>1, <1>2, <1>3, PTL DEF Spec

\* A turn is captured while the detector is in a segment and waits no longer than MaxWait, one
\* with an utterance in it is not discarded, one that began over a reply has interrupted it when
\* it commits, and no speech is recognized twice, with the exceptions that the property names
\* (Push of internal/vad, handle and tick of internal/voice/pipeline.go).
THEOREM TurnsKept == Spec => []TurnsAreKept
<1> DEFINE I == service = "turns" => Turns!IInv
<1> USE ServicesAssumption
<1>1. Init => I
  BY TurnsInitInv DEF Init
<1>2. I /\ [Next]_vars => I'
  <2> SUFFICES ASSUME I, [Next]_vars, service' = "turns" PROVE Turns!IInv'
    OBVIOUS
  <2>1. Turns!IInv /\ (Turns!Next \/ UNCHANGED Turns!vars)
    BY StepOfService
  <2> QED BY <2>1, TurnsNextInv
<1>3. I => TurnsAreKept
  BY DEF TurnsAreKept, Turns!IInv
<1> QED BY <1>1, <1>2, <1>3, PTL DEF Spec

\* When a step of an enabled automation is reached, what it refers to has an output in its
\* scope, for every definition that passes validation, however its loops, groups and branches
\* nest and whatever failed and went on, but for a for_each whose items could not be read
\* (checkRef, validateLevel and checkBranchCycles of validate.go; engine.go, scope.resolve).
THEOREM ReferencesFound == Spec => []ReferencesResolve
<1> DEFINE I == service = "steps" => Steps!IInv
<1> USE ServicesAssumption
<1>1. Init => I
  BY StepsInitInv DEF Init
<1>2. I /\ [Next]_vars => I'
  <2> SUFFICES ASSUME I, [Next]_vars, service' = "steps" PROVE Steps!IInv'
    OBVIOUS
  <2>1. Steps!IInv /\ (Steps!Next \/ UNCHANGED Steps!vars)
    BY StepOfService
  <2> QED BY <2>1, StepsNextInv
<1>3. I => ReferencesResolve
  BY StepsSeesReference DEF ReferencesResolve
<1> QED BY <1>1, <1>2, <1>3, PTL DEF Spec

\* However late somebody looks, the slot of an automation is the first fire after that time,
\* intervals keep their cadence, and only an automation by hand, one that hardly ever fires or one
\* that missed Backlog fires of a cron expression goes without (NextAfterNow and
\* cronSchedule.next of internal/automation/schedule.go, tick and reconcile of internal/autorun).
THEOREM SlotsAreNext == Spec => []SlotIsNext
<1> DEFINE I == service = "times" => Times!IInv
<1> USE ServicesAssumption
<1>1. Init => I
  BY TimesInitInv DEF Init
<1>2. I /\ [Next]_vars => I'
  <2> SUFFICES ASSUME I, [Next]_vars, service' = "times" PROVE Times!IInv'
    OBVIOUS
  <2>1. Times!IInv /\ (Times!Next \/ UNCHANGED Times!vars)
    BY StepOfService
  <2> QED BY <2>1, TimesNextInv
<1>3. I => SlotIsNext
  BY DEF SlotIsNext, Times!IInv
<1> QED BY <1>1, <1>2, <1>3, PTL DEF Spec
=============================================================================
