------------------------------- MODULE StartUp ------------------------------
(***************************************************************************)
(* A deployment is configured by its environment, one setting at a time.   *)
(* Before it starts an operator may ask two preflights whether it would;   *)
(* the start judges again, builds the policy of the browser's origins and  *)
(* the runtime's configuration, and composes the application.  Once it     *)
(* runs, every request passes a gate that knows the origins of the start   *)
(* (config.py, config_preflight.py, transport.py, ui/app.py).              *)
(***************************************************************************)
EXTENDS Integers, FiniteSets

CONSTANTS
  MaxSettings,  \* bound: settings that differ from the first configuration
  None

\* What each variable of the environment can hold, its first value being the
\* one that the configuration below starts with.  The profile "test" is
\* treated as "development" is.
Choices == [
  profile    |-> {"development", "qa", "production", "other"},
  port       |-> {"good", "bad"},
  host       |-> {"loopback", "any"},
  origins    |-> {"loopback", "http", "https", "none", "malformed", "twice"},
  secret     |-> BOOLEAN,
  secure     |-> {"unset", "on", "off", "bad"},
  same_site  |-> {"strict", "none", "bad"},
  replicas   |-> {0, 1, 2},
  redis      |-> BOOLEAN,
  affinity   |-> {"unset", "true", "on"},
  proxy      |-> {"off", "on", "bad"},
  trusted    |-> {"default", "empty", "wildcard"},
  root       |-> {"good", "bad"},
  debug      |-> BOOLEAN,
  entrypoint |-> {"none", "valid", "malformed"},
  direct     |-> {"complete", "incomplete", "invalid"},
  contract   |-> BOOLEAN]

First == [
  profile |-> "development", port |-> "good", host |-> "loopback", origins |-> "loopback",
  secret |-> TRUE, secure |-> "unset", same_site |-> "strict", replicas |-> 1, redis |-> FALSE,
  affinity |-> "unset", proxy |-> "off", trusted |-> "default", root |-> "good",
  debug |-> FALSE, entrypoint |-> "valid", direct |-> "complete", contract |-> TRUE]

VARIABLES
  settings,  \* the environment
  report,    \* what the preflights said of it, or None
  server,    \* "runs", "refused" by a judgment, "failed" in composing, or None
  admitted   \* the last request that the gate has let through, or None

vars == <<settings, report, server, admitted>>

Init == settings = First /\ report = None /\ server = None /\ admitted = None

---------------------------------------------------------------------------
(* The judgments: a set of reasons each, empty when there is none.         *)

If(condition, reason) == IF condition THEN {reason} ELSE {}

\* RuntimeSettings.from_environment
SettingsReasons(s) == If(s.port = "bad", "INVALID_RUNTIME_SETTINGS")

\* A policy has the origins that it was built with; it stops at the first thing
\* that is wrong, and there is always a reason when one is.
PolicyReasons(s) ==
  IF s.profile = "other" THEN {"INVALID_ENVIRONMENT"}
  ELSE IF s.origins = "malformed" THEN {"MALFORMED_ORIGIN"}
  ELSE IF s.origins = "twice" THEN {"DUPLICATE_BROWSER_ORIGIN"}
  ELSE IF s.profile = "development" /\ s.origins \in {"http", "https"}
       THEN {"NON_LOOPBACK_DEVELOPMENT_ORIGIN"}
  ELSE If(s.origins = "none", "BROWSER_ORIGIN_ALLOWLIST_REQUIRED")

\* The inputs of the runtime's configuration, in the order of their checks.
InputReasons(s) ==
  IF s.profile = "other" THEN {"INVALID_ENVIRONMENT"}
  ELSE IF s.trusted = "wildcard" THEN {"WILDCARD_TRUSTED_PROXY_FORBIDDEN"}
  ELSE IF s.proxy = "bad" THEN {"INVALID_BOOLEAN_CONFIGURATION"}
  ELSE IF s.proxy = "on" /\ s.trusted = "empty" THEN {"TRUSTED_PROXY_REQUIRED"}
  ELSE IF s.replicas < 1 THEN {"INVALID_EXPECTED_REPLICAS"}
  ELSE IF s.same_site = "bad" THEN {"INVALID_SAMESITE"}
  ELSE IF s.secure = "bad" THEN {"INVALID_BOOLEAN_CONFIGURATION"}
  ELSE IF s.same_site = "none" /\ (s.secure = "off" \/ (s.secure = "unset" /\ s.profile # "production"))
       THEN {"INSECURE_SAMESITE_NONE"}
  ELSE IF s.profile = "production" /\ s.debug THEN {"PRODUCTION_DEBUG_FORBIDDEN"}
  ELSE If(s.root = "bad", "INVALID_ROOT_PATH")

EffectiveSecureCookie(s) == s.secure = "on" \/ (s.secure = "unset" /\ s.profile = "production")

\* Only the word "true", or its like, confirms the affinity of sessions here; the
\* preflight's own check below takes "on" as well.
EnvironmentIssues(s) ==
  If(~s.secret, "MISSING_STORAGE_SECRET")
    \cup If(s.profile = "production" /\ ~EffectiveSecureCookie(s), "PRODUCTION_COOKIE_NOT_SECURE")
    \cup If(s.replicas > 1 /\ ~s.redis, "MULTI_REPLICA_WITHOUT_SHARED_STORAGE")
    \cup If(s.replicas > 1 /\ s.affinity # "true",
            "MULTI_REPLICA_WITHOUT_SESSION_AFFINITY_CONFIRMATION")
    \cup If(s.proxy = "on" /\ s.host = "loopback", "PROXY_MODE_BOUND_TO_LOOPBACK")

\* Mistake: a secure origin may set a cookie that is sent over any transport.
AnyCookie(s) == {}

CookieReasons(s) ==
  If(s.profile \in {"qa", "production"} /\ s.origins = "https" /\ ~EffectiveSecureCookie(s),
     "HTTPS_BROWSER_ORIGIN_REQUIRES_SECURE_COOKIE")

\* The security preflight goes on after a failure, as far as it can: what needs
\* the settings, the policy or the configuration is left out without them.
SecurityPreflight(s) ==
  LET configured == SettingsReasons(s) = {} /\ InputReasons(s) = {} IN
    PolicyReasons(s) \cup SettingsReasons(s)
      \cup (IF SettingsReasons(s) = {} THEN InputReasons(s) ELSE {})
      \cup (IF configured THEN EnvironmentIssues(s) ELSE {})
      \cup (IF configured /\ PolicyReasons(s) = {} THEN CookieReasons(s) ELSE {})
      \cup If(s.replicas > 1 /\ ~s.redis, "MULTI_REPLICA_WITHOUT_SHARED_STORAGE")
      \cup If(s.replicas > 1 /\ s.affinity = "unset",
              "MULTI_REPLICA_WITHOUT_SESSION_AFFINITY_CONFIRMATION")

\* Mistake: only the form of the entrypoint is judged.
WellFormed(s) == If(s.entrypoint = "malformed", "INVALID_DOWNSTREAM_ENTRYPOINT")

\* Without an explicit entrypoint only a development composition is possible,
\* and that one needs its identity, its database and its source.
EntrypointReasons(s) ==
  If(s.entrypoint = "malformed", "INVALID_DOWNSTREAM_ENTRYPOINT")
    \cup If(s.entrypoint = "none" /\ s.profile # "development", "MISSING_DOWNSTREAM_ENTRYPOINT")

DirectReasons(s) ==
  IF s.profile = "development" /\ s.entrypoint = "none"
  THEN If(s.direct = "incomplete", "DEVELOPMENT_CONFIGURATION_INCOMPLETE")
         \cup If(s.direct = "invalid", "DEVELOPMENT_CONFIGURATION_INVALID")
  ELSE {}

\* The configuration preflight asks the security preflight, and nobody outside.
ConfigurationPreflight(s) ==
  If(~s.contract, "CONFIGURATION_CONTRACT_INVALID")
    \cup SettingsReasons(s)
    \cup If(SecurityPreflight(s) # {}, "RUNTIME_SECURITY_CONFIGURATION_INVALID")
    \cup EntrypointReasons(s) \cup DirectReasons(s)

\* What the start builds its policy and configuration from, once more.
SecurityContract(s) ==
  PolicyReasons(s) \cup InputReasons(s) \cup EnvironmentIssues(s) \cup CookieReasons(s)

---------------------------------------------------------------------------
Differences(s) == Cardinality({name \in DOMAIN First : s[name] # First[name]})

\* An operator sets one variable; what was reported is then of the past.
Configure(name, value) ==
  /\ server = None /\ settings[name] # value
  /\ Differences([settings EXCEPT ![name] = value]) <= MaxSettings
  /\ settings' = [settings EXCEPT ![name] = value]
  /\ report' = None
  /\ UNCHANGED <<server, admitted>>

Preflight ==
  /\ server = None
  /\ report' = IF ConfigurationPreflight(settings) = {} THEN "PASS" ELSE "FAIL"
  /\ UNCHANGED <<settings, server, admitted>>

\* What the start judges, in its composition too.
StartReasons(s) ==
  SettingsReasons(s) \cup SecurityPreflight(s) \cup SecurityContract(s)
    \cup EntrypointReasons(s) \cup DirectReasons(s)

\* The start asks the security preflight, builds the contract and composes.  The
\* composition can raise for what no preflight has looked at: a provider that is
\* not there or fails, a database that does not answer (DownstreamComposition).
RunEphi ==
  /\ server = None
  /\ IF StartReasons(settings) # {} THEN server' = "refused"
     ELSE server' \in {"runs", "failed"}
  /\ UNCHANGED <<settings, report, admitted>>

\* A request brings the origins that the browser says.
Requests == [kind : {"websocket", "post", "get"},
             origins : {<<>>, <<"loopback">>, <<"https">>, <<"http">>, <<"https", "https">>}]

\* The gate wants exactly one origin, an allowed one, of whatever can change
\* something.
Allows(s, request) ==
  request.kind \in {"websocket", "post"} =>
    /\ Cardinality(DOMAIN request.origins) = 1
    /\ request.origins[1] = s.origins

Request(request) ==
  /\ server = "runs" /\ Allows(settings, request)
  /\ admitted' = request
  /\ UNCHANGED <<settings, report, server>>

Next ==
  \/ \E name \in DOMAIN First : \E value \in Choices[name] : Configure(name, value)
  \/ Preflight \/ RunEphi
  \/ \E request \in Requests : Request(request)

Spec == Init /\ [][Next]_vars

---------------------------------------------------------------------------
\* A configuration that the preflights have passed is not refused when it
\* starts, though its composition can fail.  What runs has a secret, origins that
\* its cookies fit, one set of sessions for all replicas, and outside of
\* development explicit providers; and what was let through came from one allowed
\* origin (config_preflight.py, preflight; transport.py, security_preflight;
\* ui/app.py, run_ephi).
RunsAsConfigured ==
  /\ report = "PASS" => server # "refused"
  /\ server = "runs" =>
       LET s == settings IN
         /\ s.secret /\ s.origins \in {"loopback", "http", "https"}
         /\ s.profile = "development" => s.origins = "loopback"
         /\ s.profile # "development" => s.entrypoint = "valid"
         /\ s.profile = "production" => EffectiveSecureCookie(s) /\ ~s.debug
         /\ s.same_site = "none" => EffectiveSecureCookie(s)
         /\ s.profile = "qa" /\ s.origins = "https" => EffectiveSecureCookie(s)
         /\ s.replicas > 1 => s.redis /\ s.affinity = "true"
         /\ s.proxy = "on" => s.trusted = "default" /\ s.host = "any"
  /\ admitted # None /\ admitted.kind # "get" => admitted.origins = <<settings.origins>>
=============================================================================
