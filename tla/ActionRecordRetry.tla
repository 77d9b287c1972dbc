-------------------------- MODULE ActionRecordRetry -------------------------
(***************************************************************************)
(* Clients that record an external action and repeat the command until it  *)
(* is answered: record_external_action and reconcile_external_action of    *)
(* application/decision_loop.py on top of CommandCore.                     *)
(*                                                                         *)
(* The client keeps the command id and its arguments, and leaves the time  *)
(* out.  The service fills in the present for it (requested_at, or         *)
(* observed_at), and the executor hashes it with the rest of the payload:  *)
(* payloads are instants here.                                             *)
(***************************************************************************)
EXTENDS CommandCore

CONSTANTS Target,   \* the Episode whose action the client records
          Expected  \* the version of it that the client has seen

VARIABLE now

retryVars == <<vars, now>>

\* The command that the service builds from the client's arguments.
Command(k) == [key |-> k, target |-> Target, create |-> FALSE, expected |-> Expected,
               payload |-> now]

Record(c, k) == Start(c, Command(k)) /\ UNCHANGED now

Tick ==
  /\ now + 1 \in Payloads
  /\ now' = now + 1
  /\ UNCHANGED vars

RetryInit == Init /\ now = 0

RetryNext ==
  \/ \E c \in Calls, k \in Keys : Record(c, k)
  \/ /\ \E c \in Calls : Proceed(c) \/ Crash(c)
     /\ UNCHANGED now
  \/ /\ Authority \/ \E a \in Aggregates : OtherWrite(a)
     /\ UNCHANGED now
  \/ Tick

RetrySpec == RetryInit /\ [][RetryNext]_retryVars

\* "Same command ID/payload arrives concurrently or after lost response: same
\* committed receipt": a client that repeats what it sent is not told that it
\* used the command id for something else.
RetryIsRecognized == \A c \in Calls : call[c].answer # "IDEMPOTENCY_CONFLICT"
=============================================================================
