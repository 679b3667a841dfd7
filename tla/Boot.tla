-------------------------------- MODULE Boot ---------------------------------
(***************************************************************************)
(* The life of the svc-auth process (main.rs): configuration, the NATS     *)
(* connection, the buckets, the OIDC providers, the two health probes that *)
(* decide readiness, and serving.  Whatever fails ends the process, and    *)
(* the orchestrator starts another.  Meanwhile NATS and the providers come *)
(* and go, and the buckets are declared by someone else.  One step per     *)
(* await of main.                                                          *)
(***************************************************************************)
EXTENDS Config, FiniteSets, SequencesExt

CONSTANTS Environments,  \* the environments to deploy with
          MaxOutages,    \* bound: outages of NATS or of a provider
          MaxCrashes     \* bound: crashes, a port that cannot be bound among them

ASSUME BootAssumption == {MaxOutages, MaxCrashes} \subseteq Nat
ASSUME EnvironmentsAssumption == Environments \subseteq Environment

VARIABLES env,        \* the environment of the deployment
          nats,       \* NATS can be reached
          declared,   \* the buckets that have been declared
          idps,       \* the providers that answer, by name
          pc,         \* where main is
          config,     \* what it read
          providers,  \* the providers discovered so far, by position
          cookie,     \* the lifetimes and the flag the cookies are built with
          health,     \* the probes that succeeded
          readiness,  \* what /readyz says
          spent,      \* outages and crashes so far
          calm        \* history: NATS has been up since this process started

world == <<env, nats, declared, idps>>
memory == <<config, providers, cookie, health, readiness>>
vars == <<env, nats, declared, idps, pc, config, providers, cookie, health, readiness, spent, calm>>

Bucket == {"EPHEMERAL_AUTH", "PUBLISHED_LANGUAGE"}
Place == {"down", "from_env", "connect", "open_bearer", "open_tokens", "open_families",
          "discover", "fetch_keys", "probe_store", "probe_bearer", "serving"}
NoCookie == [secure |-> FALSE, refresh_max_age |-> 0, access_max_age |-> 0]

Names(e) == {d.name : d \in ToSet(e.oidc)}
Reachable(b) == nats /\ b \in declared

-----------------------------------------------------------------------------
(* main.                                                                   *)

\* What a process that is gone leaves behind.
Gone == /\ pc' = "down"
        /\ config' = NoConfig /\ providers' = <<>> /\ cookie' = NoCookie
        /\ health' = {} /\ readiness' = "not_ready"

\* A step that only has to succeed: on, or std::process::exit(1).
Attempt(ok, p) == IF ok THEN pc' = p /\ UNCHANGED memory ELSE Gone

\* The orchestrator starts a process, which is not ready.
Start == /\ pc = "down" /\ pc' = "from_env"
         /\ calm' = nats
         /\ UNCHANGED <<world, memory, spent>>

LoadConfig ==
  /\ pc = "from_env"
  /\ IF FromEnvOk(env)
     THEN pc' = "connect" /\ config' = FromEnv(env)
          /\ UNCHANGED <<providers, cookie, health, readiness>>
     ELSE Gone
  /\ UNCHANGED <<world, spent, calm>>

Connect == /\ pc = "connect"
           /\ Attempt(nats, "open_bearer")
           /\ UNCHANGED <<world, spent, calm>>

OpenBearerReader == /\ pc = "open_bearer"
                    /\ Attempt(Reachable("PUBLISHED_LANGUAGE"), "open_tokens")
                    /\ UNCHANGED <<world, spent, calm>>

\* RefreshTokenStore::open binds the one bucket twice, for rows and for markers.
OpenTokens == /\ pc = "open_tokens"
              /\ Attempt(Reachable("EPHEMERAL_AUTH"), "open_families")
              /\ UNCHANGED <<world, spent, calm>>

OpenFamilies == /\ pc = "open_families"
                /\ Attempt(Reachable("EPHEMERAL_AUTH"), "discover")
                /\ UNCHANGED <<world, spent, calm>>

\* The providers still to be discovered, and the one whose turn it is.
Left == DOMAIN config.oidc_providers \ DOMAIN providers
Turn(i) == i \in Left /\ \A j \in Left : i <= j
Answers(i) == config.oidc_providers[i].name \in idps

\* CookieConfig::new, once every provider is there.
BuildState == cookie' = [secure |-> config.secure_cookies,
                         refresh_max_age |-> config.refresh_token_ttl,
                         access_max_age |-> config.access_token_ttl]

\* Mutant: a provider that does not answer is left out.
DiscoverAvailable ==
  /\ pc = "discover"
  /\ providers' = [i \in {j \in DOMAIN config.oidc_providers : Answers(j)}
                     |-> config.oidc_providers[i]]
  /\ pc' = "probe_store" /\ BuildState
  /\ UNCHANGED <<world, config, health, readiness, spent, calm>>

\* OidcValidator::discover: the document of the next provider; with none left (or none
\* at all, OidcValidator::empty), on to the probes.
Discover ==
  /\ pc = "discover"
  /\ \/ /\ Left = {}
        /\ pc' = "probe_store" /\ BuildState
        /\ UNCHANGED <<config, providers, health, readiness>>
     \/ \E i \in Left : Turn(i) /\ Attempt(Answers(i), "fetch_keys")
  /\ UNCHANGED <<world, spent, calm>>

\* Its key set.
FetchKeys ==
  /\ pc = "fetch_keys"
  /\ \E i \in Left :
       /\ Turn(i)
       /\ \/ /\ Answers(i)
             /\ pc' = "discover"
             /\ providers' = [j \in DOMAIN providers \cup {i} |-> config.oidc_providers[j]]
             /\ UNCHANGED <<config, cookie, health, readiness>>
          \/ ~Answers(i) /\ Gone
  /\ UNCHANGED <<world, spent, calm>>

\* RefreshTokenStore::is_healthy.
ProbeStore ==
  /\ pc = "probe_store" /\ pc' = "probe_bearer"
  /\ health' = IF Reachable("EPHEMERAL_AUTH") THEN {"EPHEMERAL_AUTH"} ELSE {}
  /\ UNCHANGED <<world, config, providers, cookie, readiness, spent, calm>>

\* Mutant: the probe wants to find its key.
BearerHealthyIfFound == FALSE

\* BearerValidator::is_healthy: the probe key is never there, which is an answer.
BearerHealthy == Reachable("PUBLISHED_LANGUAGE")

\* The second probe, and with no await in between readiness and the server.
ProbeBearer ==
  /\ pc = "probe_bearer" /\ pc' = "serving"
  /\ health' = IF BearerHealthy THEN health \cup {"PUBLISHED_LANGUAGE"} ELSE health
  /\ readiness' = IF health' = Bucket THEN "ready" ELSE "not_ready"
  /\ UNCHANGED <<world, config, providers, cookie, spent, calm>>

Crash == /\ pc # "down" /\ spent.crashes < MaxCrashes
         /\ spent' = [spent EXCEPT !.crashes = @ + 1]
         /\ Gone
         /\ UNCHANGED <<world, calm>>

-----------------------------------------------------------------------------
(* What main depends on.                                                   *)

Outage == /\ spent.outages < MaxOutages
          /\ spent' = [spent EXCEPT !.outages = @ + 1]
          /\ \/ nats /\ nats' = FALSE /\ calm' = FALSE /\ UNCHANGED idps
             \/ \E n \in idps : idps' = idps \ {n} /\ UNCHANGED <<nats, calm>>
          /\ UNCHANGED <<env, declared, pc, memory>>

Recovery == /\ \/ ~nats /\ nats' = TRUE /\ UNCHANGED idps
               \/ \E n \in Names(env) \ idps : idps' = idps \cup {n} /\ UNCHANGED nats
            /\ UNCHANGED <<env, declared, pc, memory, spent, calm>>

DeclareBucket == \E b \in Bucket \ declared :
                   /\ declared' = declared \cup {b}
                   /\ UNCHANGED <<env, nats, idps, pc, memory, spent, calm>>

Init == /\ env \in Environments /\ nats \in BOOLEAN /\ declared \in SUBSET Bucket
        /\ idps = Names(env)
        /\ pc = "down" /\ config = NoConfig /\ providers = <<>> /\ cookie = NoCookie
        /\ health = {} /\ readiness = "not_ready"
        /\ spent = [outages |-> 0, crashes |-> 0] /\ calm = FALSE

Main == \/ LoadConfig \/ Connect \/ OpenBearerReader \/ OpenTokens \/ OpenFamilies
        \/ Discover \/ FetchKeys \/ ProbeStore \/ ProbeBearer

Next == Start \/ Main \/ Crash \/ Outage \/ Recovery \/ DeclareBucket

Spec == Init /\ [][Next]_vars

\* The orchestrator starts what is down, and every await of main ends.
FairSpec == Spec /\ WF_vars(Start) /\ WF_vars(Main)

-----------------------------------------------------------------------------
(* Properties.                                                             *)

\* Every variable stays in its type.
TypeOK ==
  /\ env \in Environments /\ nats \in BOOLEAN /\ declared \subseteq Bucket
  /\ idps \subseteq Names(env) /\ pc \in Place
  /\ config \in Config(env) \cup {NoConfig}
  /\ DOMAIN providers \subseteq DOMAIN config.oidc_providers
  /\ cookie \in [secure : BOOLEAN, refresh_max_age : Nat, access_max_age : Nat]
  /\ health \subseteq Bucket /\ readiness \in {"ready", "not_ready"}
  /\ spent \in [outages : 0 .. MaxOutages, crashes : 0 .. MaxCrashes]
  /\ calm \in BOOLEAN

\* The environment says all that README.md and .env.example ask of it.
Complete(e) ==
  /\ e.nats_url # "absent" /\ e.jwt_secret # "absent" /\ e.bearer_seal_key = "key"
  /\ e.environment \in {"absent", "local", "dev", "test", "uat", "stg", "prod"}
  /\ \A i \in DOMAIN e.oidc : e.oidc[i].url = "url" => e.oidc[i].name # "overlapping"
  /\ \A i \in DOMAIN e.oidc : e.oidc[i].url = "url" /\ e.oidc[i].name # ""
                                => e.oidc[i].client \notin {"", "absent"}
  /\ e.environment \notin {"absent", "local"} => \E i \in DOMAIN e.oidc :
                                e.oidc[i].url = "url" /\ e.oidc[i].name # ""

\* A server is never up on half an environment: README.md:81, "an unrecognised
\* ENVIRONMENT ... must abort at boot", and so must a missing secret, seal key or
\* client id, whatever fails, recovers and restarts on the way (from_env, main).
ServesOnlyComplete == pc = "serving" => Complete(env)

\* ps are the providers that e declares, each for the client declared with it.
Covers(ps, e) ==
  /\ \A d \in ToSet(e.oidc) : d.url = "url" /\ d.name # "" =>
       \E i \in DOMAIN ps : ps[i].name = d.name /\ ps[i].client_id = d.client
  /\ \A i \in DOMAIN ps : \E d \in ToSet(e.oidc) :
       d.url = "url" /\ ps[i].name = d.name /\ ps[i].client_id = d.client

\* A server verifies the id_tokens of every provider its environment declares, for the
\* client declared with it: no outage during the boot leaves one out, and no earlier
\* attempt leaves one behind (discover).
ServesEveryProvider == pc = "serving" => Covers(providers, env)

\* A server that has had NATS since its process started says it is ready, whatever
\* became of the processes before it (is_healthy, set_ready).
ReadyIfCalm == pc = "serving" /\ calm => readiness = "ready"

\* When outages end and the buckets get declared, a complete environment ends up
\* served, however the failures met the steps of main.
EventuallyServes ==
  Complete(env) /\ <>[](nats /\ declared = Bucket /\ idps = Names(env))
    => <>[](pc = "serving")
=============================================================================
