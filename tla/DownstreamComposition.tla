------------------------ MODULE DownstreamComposition -----------------------
(***************************************************************************)
(* The providers of a deployment are foreign code.  A bundle of them is    *)
(* judged by its public contracts before any provider is touched, then by  *)
(* the shape of the providers, and only then is the application composed   *)
(* out of them: each call can raise, the connection to the database that   *)
(* one of them opens must not survive a failure, and what was judged can   *)
(* be another by the time it is used, as a provider reads its policy when  *)
(* it is asked (downstream/validation.py, composition.py, preflight.py).   *)
(***************************************************************************)
CONSTANTS
  Callers,   \* preflights and starts of the application
  Versions,  \* versions of the policy configuration; the first is the published one
  Published,
  None

Category == {"identity", "source", "artifacts", "notifications", "policy", "runtime"}

\* What can be wrong with a binding.  The metadata belong to the contract; a
\* schema of policies that is not supported is found in the metadata.
Faults == {"missing", "contract", "schema", "shape"}

VARIABLES
  binding,  \* what, if anything, is wrong with each provider of the bundle
  policy,   \* the version that the policy provider would give now
  call,     \* what each caller is doing
  opened,   \* the connections that somebody holds, by caller
  stuck     \* the connections whose closing failed

vars == <<binding, policy, call, opened, stuck>>

Init ==
  /\ binding \in {f \in [Category -> Faults \cup {None}] :
       \A c, d \in Category : f[c] # None /\ f[d] # None => c = d}
  /\ \A c \in Category : binding[c] = "schema" => c = "policy"
  /\ policy = Published
  /\ call = [who \in Callers |-> None]
  /\ opened = {} /\ stuck = {}

---------------------------------------------------------------------------
(* Validation.                                                             *)

\* The report that is made for the operator has a status for every category,
\* from public facts only.
ProviderInventory ==
  [c \in Category |-> CASE binding[c] = "missing" -> "MISSING"
                        [] binding[c] \in {"contract", "schema"} -> "INCOMPATIBLE"
                        [] OTHER -> "COMPATIBLE"]

\* In the code's order: what is missing, the public contracts of all, the
\* schema of the policies, and only then the providers themselves; those of
\* policies, notifications and runtime are asked for what they hold.
PublicReason ==
  IF \E c \in Category : binding[c] = "missing" THEN "MISSING_REQUIRED_PROVIDER"
  ELSE IF \E c \in Category : binding[c] = "contract" THEN "INCOMPATIBLE_PROVIDER_CONTRACT"
  ELSE IF binding["policy"] = "schema" THEN "POLICY_SCHEMA_UNSUPPORTED"
  ELSE None

\* Mistake: whether the policies are published ones is not asked again.
ShapeOnly ==
  IF \E c \in Category : binding[c] = "shape" THEN "INCOMPATIBLE_PROVIDER_CONTRACT" ELSE None

ShapeReason ==
  IF \E c \in Category : binding[c] = "shape" THEN "INCOMPATIBLE_PROVIDER_CONTRACT"
  ELSE IF policy # Published THEN "POLICY_SCHEMA_UNSUPPORTED"
  ELSE None

At(who, pc) == call[who] # None /\ call[who].pc = pc

Begin(who, purpose) ==
  /\ call[who] = None
  /\ call' = [call EXCEPT ![who] =
       [pc |-> "public", purpose |-> purpose, touched |-> {}, policy |-> None,
        moved |-> FALSE, inventory |-> ProviderInventory, reason |-> None]]
  /\ UNCHANGED <<binding, policy, opened, stuck>>

\* A caller that fails gives its reason; a preflight that does not compose is
\* done with a bundle that is valid.
Leave(who, reason) == call' = [call EXCEPT ![who].pc = "done", ![who].reason = reason]

ValidatePublic(who) ==
  /\ At(who, "public")
  /\ IF PublicReason # None
     THEN Leave(who, PublicReason)
     ELSE call' = [call EXCEPT ![who].pc = "shape"]
  /\ UNCHANGED <<binding, policy, opened, stuck>>

\* A preflight validates, and then composes, which validates once more.  moved
\* says that the policy has changed since the last validation.
ValidateShape(who) ==
  /\ At(who, "shape")
  /\ LET asked == {"notifications", "policy", "runtime"} IN
       IF ShapeReason # None
       THEN call' = [call EXCEPT ![who].pc = "done", ![who].reason = ShapeReason,
                                 ![who].touched = asked]
       ELSE call' = [call EXCEPT
              ![who].pc = CASE call[who].purpose = "contract" -> "done"
                            [] call[who].purpose = "preflight" -> "public"
                            [] OTHER -> "identity",
              ![who].purpose = IF @ = "preflight" THEN "composition" ELSE @,
              ![who].reason = IF call[who].purpose = "contract" THEN "CONTRACT_PASS" ELSE None,
              ![who].moved = FALSE, ![who].touched = asked]
  /\ UNCHANGED <<binding, policy, opened, stuck>>

---------------------------------------------------------------------------
(* Composition.                                                            *)

\* Mistake: a failure after the connection was opened does not close it.
LeavesOpen(who, reason) == Leave(who, reason) /\ UNCHANGED <<opened, stuck>>

\* Whatever is open is closed when a step fails.  That can fail as well, which
\* is swallowed: the connection stays with nobody to close it.
Abandon(who, reason) ==
  /\ Leave(who, reason)
  /\ opened' = opened \ {who}
  /\ stuck' \in {stuck, stuck \cup (opened \cap {who})}

\* A provider is called, and answers what it should or does not.
Try(who, pc, next, reason) ==
  /\ At(who, pc)
  /\ \/ /\ call' = [call EXCEPT ![who].pc = next, ![who].touched = @ \cup ({pc} \cap Category)]
        /\ UNCHANGED <<opened, stuck>>
     \/ Abandon(who, reason)
  /\ UNCHANGED <<binding, policy>>

\* The environment is compared with that of the runtime provider; then the
\* caller is resolved, who must hold the scope.
ResolveIdentity(who) == Try(who, "identity", "source", "COMPOSITION_FAIL_CLOSED")

\* The source must say of itself what was expected of it.
DescribeSource(who) == Try(who, "source", "runtime", "SOURCE_BINDING_MISMATCH")

\* The runtime provider opens a connection, raises, or returns what is not an
\* adapter, which is closed if it can be.
OpenPostgresql(who) ==
  /\ At(who, "runtime")
  /\ \/ /\ call' = [call EXCEPT ![who].pc = "server", ![who].touched = @ \cup {"runtime"}]
        /\ opened' = opened \cup {who} /\ UNCHANGED stuck
     \/ Abandon(who, "COMPOSITION_FAIL_CLOSED")
  /\ UNCHANGED <<binding, policy>>

\* The server must be of the major version that the metadata promise.
CheckServer(who) == Try(who, "server", "artifacts", "COMPOSITION_FAIL_CLOSED")

OpenArtifacts(who) == Try(who, "artifacts", "policy", "COMPOSITION_FAIL_CLOSED")

\* The policy is read once more, and it is that reading which the application
\* will use; only its type is looked at.
ReadPolicy(who) ==
  /\ At(who, "policy")
  /\ \/ /\ call' = [call EXCEPT ![who].pc = "services", ![who].policy = policy]
        /\ UNCHANGED <<opened, stuck>>
     \/ Abandon(who, "COMPOSITION_FAIL_CLOSED")
  /\ UNCHANGED <<binding, policy>>

\* The services are made out of what was resolved; the recipients are asked for.
ComposeServices(who) == Try(who, "services", "composed", "COMPOSITION_FAIL_CLOSED")

\* A preflight closes what it has composed, and passes if that works; a start
\* does so when the application ends.
Close(who) ==
  /\ At(who, "composed")
  /\ opened' = opened \ {who}
  /\ \/ Leave(who, "CONTRACT_PASS") /\ UNCHANGED stuck
     \/ Leave(who, "COMPOSITION_FAIL_CLOSED") /\ stuck' = stuck \cup {who}
  /\ UNCHANGED <<binding, policy>>

\* The deployment changes its policy, which its provider then gives.
ChangePolicy(version) ==
  /\ policy # version
  /\ policy' = version
  /\ call' = [who \in Callers |->
       IF call[who] = None THEN None ELSE [call[who] EXCEPT !.moved = TRUE]]
  /\ UNCHANGED <<binding, opened, stuck>>

Next ==
  \/ \E who \in Callers, purpose \in {"contract", "preflight", "start"} : Begin(who, purpose)
  \/ \E who \in Callers :
       \/ ValidatePublic(who) \/ ValidateShape(who)
       \/ ResolveIdentity(who) \/ DescribeSource(who) \/ OpenPostgresql(who) \/ CheckServer(who)
       \/ OpenArtifacts(who) \/ ReadPolicy(who) \/ ComposeServices(who) \/ Close(who)
  \/ \E version \in Versions : ChangePolicy(version)

Spec == Init /\ [][Next]_vars

---------------------------------------------------------------------------
\* A provider is not touched before the public contracts of all are known to
\* be good; what is composed was valid, with the policy that was validated
\* unless the deployment changed it after that; whoever is done holds no
\* connection, and a preflight that passed has not left one behind
\* (downstream/validation.py, validate_provider_bundle; composition.py,
\* compose_downstream; preflight.py, preflight).
ComposedIsValid ==
  \A who \in Callers : call[who] # None =>
    LET c == call[who] IN
      /\ c.touched # {} => \A d \in Category : c.inventory[d] = "COMPATIBLE"
      /\ c.pc = "composed" =>
           /\ \A d \in Category : binding[d] = None
           /\ c.touched = Category
           /\ who \in opened
           /\ c.policy = Published \/ c.moved
      /\ c.pc = "done" =>
           /\ who \notin opened
           /\ c.reason = "CONTRACT_PASS" => who \notin stuck
=============================================================================
