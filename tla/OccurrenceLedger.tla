--------------------------- MODULE OccurrenceLedger ---------------------------
(****************************************************************************)
(* What internal/autorun promises of the occurrences of a schedule ("at most *)
(* once", says ClaimDueRun): each is claimed once, after every one before it *)
(* that is still about; it is in one place at a time, in memory or in its    *)
(* row, of which there is one; what is in memory may be dropped, and all of  *)
(* it is with a crash, while the row survives; and it runs once.  Who passes *)
(* it to whom, through permits, reads and records that fail, is              *)
(* AutomationScheduler's.                                                    *)
(****************************************************************************)
EXTENDS Naturals

CONSTANT Occurrences  \* records of an automation, its generation and a slot

VARIABLES
  carried,  \* with the scheduler, or a run that has yet to start its engine
  parked,   \* in the row of its automation, for a retry
  ran       \* the engine was started for it

ledgerVars == <<carried, parked, ran>>

\* Of one automation, p is of an earlier generation or of an earlier slot.
Precedes(p, o) == p.auto = o.auto => \/ p.gen < o.gen
                                     \/ p.gen = o.gen /\ p.slot < o.slot

Claim(o) == /\ \A p \in carried \cup parked \cup ran : Precedes(p, o)
            /\ carried' = carried \cup {o} /\ UNCHANGED <<parked, ran>>

\* The row has one place: what was parked there is superseded.
Park(o) == /\ o \in carried /\ carried' = carried \ {o}
           /\ parked' = {p \in parked : p.auto # o.auto} \cup {o}
           /\ UNCHANGED ran

Resume(o) == /\ o \in parked /\ parked' = parked \ {o}
             /\ carried' = carried \cup {o} /\ UNCHANGED ran

Run(o) == /\ o \in carried \ ran /\ carried' = carried \ {o}
          /\ ran' = ran \cup {o} /\ UNCHANGED parked

\* By the policy, an edit, a cancellation, or a record that says failed.
Drop(o) == \/ carried' = carried \ {o} /\ UNCHANGED <<parked, ran>>
           \/ parked' = parked \ {o} /\ UNCHANGED <<carried, ran>>

Crash == carried' = {} /\ UNCHANGED <<parked, ran>>

LedgerInit == carried = {} /\ parked = {} /\ ran = {}
LedgerNext == \/ Crash
              \/ \E o \in Occurrences : Claim(o) \/ Park(o) \/ Resume(o) \/ Run(o) \/ Drop(o)
LedgerSpec == LedgerInit /\ [][LedgerNext]_ledgerVars
=============================================================================
