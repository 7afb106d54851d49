------------------------------ MODULE ModelLease ------------------------------
(****************************************************************************)
(* What internal/onnx promises the services that share one model: everybody  *)
(* who has it on lease has the same copy, a copy is evicted only when nobody *)
(* has it, and after the shutdown there are no new leases and the last       *)
(* return evicts.  How it is loaded, counted and timed is OnnxLifecycle's.   *)
(****************************************************************************)
CONSTANTS Callers, Bundles, NoBundle

VARIABLES
  lease,  \* what each caller has
  warm,   \* the copy on offer, or NoBundle
  shut

leaseVars == <<lease, warm, shut>>

Leased == \E c \in Callers : lease[c] # NoBundle
LeasedBut(c) == \E d \in Callers \ {c} : lease[d] # NoBundle

Grant(c) ==
  /\ ~shut /\ lease[c] = NoBundle
  /\ \E b \in IF warm = NoBundle THEN Bundles ELSE {warm} :
       lease' = [lease EXCEPT ![c] = b] /\ warm' = b
  /\ UNCHANGED shut

GiveBack(c) ==
  /\ lease[c] # NoBundle /\ lease' = [lease EXCEPT ![c] = NoBundle]
  /\ warm' = IF shut /\ ~LeasedBut(c) THEN NoBundle ELSE warm
  /\ UNCHANGED shut

Evict == ~Leased /\ ~shut /\ warm' = NoBundle /\ UNCHANGED <<lease, shut>>

Shut == /\ ~shut /\ shut' = TRUE
        /\ warm' = IF Leased THEN warm ELSE NoBundle
        /\ UNCHANGED lease

LeaseInit == /\ lease = [c \in Callers |-> NoBundle]
             /\ warm = NoBundle /\ shut = FALSE
LeaseNext == (\E c \in Callers : Grant(c) \/ GiveBack(c)) \/ Evict \/ Shut
LeaseSpec == LeaseInit /\ [][LeaseNext]_leaseVars
=============================================================================
