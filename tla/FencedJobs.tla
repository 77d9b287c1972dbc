----------------------------- MODULE FencedJobs -----------------------------
(***************************************************************************)
(* What the durable job queue promises, without leases, clocks or rows: a  *)
(* job is submitted once, is held under a growing fencing epoch, applies   *)
(* each local effect at most once while it is held, and never moves again  *)
(* after it settled.  A job that already applied an effect is never        *)
(* withdrawn.  WorkerQueue is shown to implement this specification.       *)
(***************************************************************************)
EXTENDS Naturals

CONSTANTS Jobs,         \* the jobs, one per (scope_key, semantic_key)
          EffectKeys,   \* the effect keys a job may commit
          MaxAttempts   \* the attempt budget of a job

VARIABLES phase,        \* phase[j]: where job j stands
          epoch,        \* epoch[j]: the number of times j was taken
          applied       \* applied[j]: the effect keys j has committed

vars == <<phase, epoch, applied>>

Phases == {"absent", "waiting", "held", "settled", "withdrawn"}

Open(j) == phase[j] \in {"waiting", "held"}

Init == /\ phase = [j \in Jobs |-> "absent"]
        /\ epoch = [j \in Jobs |-> 0]
        /\ applied = [j \in Jobs |-> {}]

\* A job enters the queue.
Submit(j) == /\ phase[j] = "absent"
             /\ phase' = [phase EXCEPT ![j] = "waiting"]
             /\ UNCHANGED <<epoch, applied>>

\* One poll of the queue: the jobs of gone, out of attempts, settle, and at
\* most one other job (the one of took) is taken under a new epoch.
Poll(gone, took) ==
  /\ gone \cap took = {}
  /\ \A j \in gone \cup took : Open(j)
  /\ \A j \in gone : epoch[j] = MaxAttempts
  /\ \A j \in took : epoch[j] < MaxAttempts
  /\ \A i, j \in took : i = j
  /\ phase' = [j \in Jobs |-> IF j \in gone THEN "settled"
                              ELSE IF j \in took THEN "held" ELSE phase[j]]
  /\ epoch' = [j \in Jobs |-> IF j \in took THEN epoch[j] + 1 ELSE epoch[j]]
  /\ UNCHANGED applied

\* The holder applies an effect it has not applied before.
Apply(j, k) == /\ phase[j] = "held"
               /\ k \notin applied[j]
               /\ applied' = [applied EXCEPT ![j] = @ \cup {k}]
               /\ UNCHANGED <<phase, epoch>>

\* The holder gives the job back for a later attempt.
Release(j) == /\ phase[j] = "held"
              /\ phase' = [phase EXCEPT ![j] = "waiting"]
              /\ UNCHANGED <<epoch, applied>>

\* The holder ends the job.
Settle(j) == /\ phase[j] = "held"
             /\ phase' = [phase EXCEPT ![j] = "settled"]
             /\ UNCHANGED <<epoch, applied>>

\* The job is withdrawn before any effect was applied.
Withdraw(j) == /\ Open(j)
               /\ applied[j] = {}
               /\ phase' = [phase EXCEPT ![j] = "withdrawn"]
               /\ UNCHANGED <<epoch, applied>>

Next == \/ \E j \in Jobs : Submit(j) \/ Release(j) \/ Settle(j) \/ Withdraw(j)
        \/ \E j \in Jobs, k \in EffectKeys : Apply(j, k)
        \/ \E gone, took \in SUBSET Jobs : Poll(gone, took)

Spec == Init /\ [][Next]_vars
=============================================================================
