------------------------ MODULE MCAutomationScheduler ------------------------
(* Small instances of AutomationScheduler for TLC. *)
EXTENDS AutomationScheduler, TLC

OneUser == [a \in Autos |-> "u1"]
Def(t, p, m) == [trigger |-> t, policy |-> p, missed |-> m]

SkipDefs == {Def("schedule", "skip_if_running", "skip")}
SkipManualDefs == {Def("schedule", "skip_if_running", "run_once"),
                   Def("manual", "skip_if_running", "skip")}
QueueDefs == {Def("schedule", "queue_one", "run_once")}
MixDefs == {Def("schedule", "queue_one", "run_once"),
            Def("schedule", "cancel_previous", "run_once"),
            Def("schedule", "parallel", "skip")}

\* The server is up and every automation was created and enabled at time 1: a
\* reachable state, from which the runs reach the interesting ones sooner.
UpInit ==
  /\ \E d \in [Autos -> {d \in Defs : d.trigger = "schedule"}] :
       row = [a \in Autos |-> [NewRow(d[a]) EXCEPT !.enabled = TRUE, !.gen = 2, !.next = 2]]
  /\ history = [r \in Runs |-> "none"]
  /\ active = [a \in Autos |-> {}] /\ pending = [a \in Autos |-> NoRun]
  /\ userRuns = [u \in Users |-> 0] /\ runSlots = 0
  /\ run = [r \in Runs |-> IdleRun]
  /\ sched = IdleSched /\ phase = "up"
  /\ req = [h \in Handlers |-> IdleReq]
  /\ now = 1
  /\ budget = [trigger |-> MaxTriggers, fault |-> MaxFaults, crash |-> MaxCrashes]
  /\ ledger = [open |-> {}, ran |-> {}, rerun |-> {}]

UpSpec == UpInit /\ [][Next]_vars
FairUpSpec == UpSpec /\ Fairness

Symmetry == Permutations(Runs) \cup Permutations(Tokens)
=============================================================================
