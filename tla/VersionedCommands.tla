-------------------------- MODULE VersionedCommands -------------------------
(***************************************************************************)
(* What the command core promises: a command key is accepted at most once, *)
(* on the version its caller expected, and the effect, the recorded event  *)
(* and the stored result are one step.  A caller is only ever told the     *)
(* stored result of its own request.  CommandCore is shown to implement    *)
(* this specification.                                                     *)
(***************************************************************************)
EXTENDS Naturals

CONSTANTS Aggregates,  \* the versioned aggregates
          Keys,        \* command keys: (scope, subject, command_id)
          Requests,    \* the requests, each with a key, target and expected
          None

VARIABLES version,     \* version[a] of aggregate a, None before it exists
          result,      \* result[k]: the accepted request and its new version
          told         \* the results that callers were told

vars == <<version, result, told>>

Init == /\ version = [a \in Aggregates |-> None]
        /\ result = [k \in Keys |-> None]
        /\ told = {}

\* A request is accepted on the version it expected; a command that may create
\* its aggregate is also accepted when there is none.
Accept(r) ==
  /\ result[r.key] = None
  /\ \/ version[r.target] = r.expected
     \/ r.create /\ version[r.target] = None
  /\ version' = [version EXCEPT ![r.target] = r.expected + 1]
  /\ result' = [result EXCEPT ![r.key] = [req |-> r, version |-> r.expected + 1]]
  /\ told' \in {told, told \cup {[req |-> r, version |-> r.expected + 1]}}

\* A caller is told the result of a request that was accepted.
Tell(r) ==
  /\ result[r.key] # None
  /\ result[r.key].req = r
  /\ told' = told \cup {[req |-> r, version |-> result[r.key].version]}
  /\ UNCHANGED <<version, result>>

\* Something else adds an aggregate or moves it forward.
Advance(a) ==
  /\ version' = [version EXCEPT ![a] = IF @ = None THEN 0 ELSE @ + 1]
  /\ UNCHANGED <<result, told>>

Next == \/ \E r \in Requests : Accept(r) \/ Tell(r)
        \/ \E a \in Aggregates : Advance(a)

Spec == Init /\ [][Next]_vars
=============================================================================
