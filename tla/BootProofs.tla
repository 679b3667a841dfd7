----------------------------- MODULE BootProofs ------------------------------
(***************************************************************************)
(* Proofs about Boot, for any environments, providers, outages and         *)
(* crashes.                                                                *)
(***************************************************************************)
EXTENDS Boot, TLAPS

-----------------------------------------------------------------------------
(* from_env.                                                               *)

\* from_env returns a configuration of the type of AppConfig.
LEMMA ConfigTyped ==
  ASSUME NEW e \in Environment
  PROVE  FromEnv(e) \in Config(e)
<1>1. \A n \in Number, d \in Nat : ParseU64Env(n, d) \in Nat
  BY DEF ParseU64Env, Number, Unset, Garbled
<1>2. JwksCooldown(e.cooldown) \in Nat
  <2>1. e.cooldown \in Number
    BY DEF Environment
  <2> QED
    BY <1>1, <2>1 DEF JwksCooldown
<1>4. DiscoverOidcProviders(e).providers \in [Taken(e) -> OidcProviderConfig]
  <2>1. \A i \in Taken(e) : e.oidc[i] \in Declaration
    BY DEF Taken, Environment
  <2>2. \A d \in Declaration : OidcProvider(d) \in OidcProviderConfig
    BY DEF Declaration, OidcProvider, OidcProviderConfig
  <2> QED
    BY <2>1, <2>2 DEF DiscoverOidcProviders
<1>5. \A v : ParseBoolEnv(v, TRUE) \in BOOLEAN
  <2> SUFFICES ASSUME NEW v PROVE ParseBoolEnv(v, TRUE) \in BOOLEAN
    OBVIOUS
  <2>1. CASE v = "absent"
    BY <2>1 DEF ParseBoolEnv
  <2>2. CASE v # "absent"
    BY <2>2 DEF ParseBoolEnv
  <2> QED
    BY <2>1, <2>2
<1>6. /\ ParseU64Env(e.access_ttl, 900) \in Nat
      /\ ParseU64Env(e.refresh_ttl, DefaultRefreshTtl) \in Nat
  <2>1. e.access_ttl \in Number /\ e.refresh_ttl \in Number
    BY DEF Environment
  <2>2. DefaultRefreshTtl \in Nat
    BY SMT DEF DefaultRefreshTtl
  <2> QED
    BY <1>1, <2>1, <2>2
<1>7. PICK s \in BOOLEAN : s = ParseBoolEnv(e.secure_cookies, TRUE)
  BY <1>5
<1>8. PICK q \in BOOLEAN : q = ParseBoolEnv(e.silent_refresh, TRUE)
  BY <1>5
<1>9. FromEnv(e) = [access_token_ttl |-> ParseU64Env(e.access_ttl, 900),
                    refresh_token_ttl |-> ParseU64Env(e.refresh_ttl, DefaultRefreshTtl),
                    jwks_refresh_cooldown_secs |-> JwksCooldown(e.cooldown),
                    secure_cookies |-> s, auth_check_silent_refresh |-> q,
                    oidc_providers |-> DiscoverOidcProviders(e).providers]
  BY <1>7, <1>8 DEF FromEnv
<1> QED
  BY <1>2, <1>4, <1>6, <1>9 DEF Config

\* What from_env accepts is complete.
LEMMA AcceptedIsComplete ==
  ASSUME NEW e \in Environment, FromEnvOk(e)
  PROVE  Complete(e)
<1>1. \A i \in DOMAIN e.oidc : e.oidc[i] \in Declaration
  BY DEF Environment
<1>2. \A i \in DOMAIN e.oidc : ~Rejected(e.oidc[i])
  BY DEF FromEnvOk, DiscoverOidcProviders
<1>3. \A i \in DOMAIN e.oidc : e.oidc[i].url = "url" => e.oidc[i].name # "overlapping"
  BY <1>2 DEF Rejected
<1>4. \A i \in DOMAIN e.oidc : e.oidc[i].url = "url" /\ e.oidc[i].name # ""
        => e.oidc[i].client \notin {"", "absent"}
  BY <1>2 DEF Rejected
<1>5. ~IsLocal(e.environment) => Taken(e) # {}
  BY DEF FromEnvOk, DiscoverOidcProviders
<1>6. \A i \in Taken(e) : i \in DOMAIN e.oidc /\ e.oidc[i].url = "url" /\ e.oidc[i].name # ""
  BY <1>1 DEF Taken, Skipped, Declaration
<1>7. e.environment \notin {"absent", "local"} => \E i \in DOMAIN e.oidc :
        e.oidc[i].url = "url" /\ e.oidc[i].name # ""
  BY <1>5, <1>6 DEF IsLocal
<1> QED
  BY <1>3, <1>4, <1>7 DEF Complete, FromEnvOk, Present, EnvironmentKnown, EnvironmentName,
       SealKeyParses

\* The configured providers are those that are declared, with their client.
LEMMA DeclaredIsConfigured ==
  ASSUME NEW e \in Environment
  PROVE  Covers(FromEnv(e).oidc_providers, e)
<1> DEFINE ps == FromEnv(e).oidc_providers
<1>1. ps = [i \in Taken(e) |-> OidcProvider(e.oidc[i])]
  BY SMT DEF FromEnv, DiscoverOidcProviders
<1>2. \A i \in Taken(e) : ps[i].name = e.oidc[i].name /\ ps[i].client_id = e.oidc[i].client
  BY <1>1 DEF OidcProvider
<1>3. \A i \in DOMAIN e.oidc : e.oidc[i] \in Declaration
  BY DEF Environment
<1>4. \A i \in DOMAIN e.oidc : i \in Taken(e) <=> e.oidc[i].url = "url" /\ e.oidc[i].name # ""
  BY <1>3 DEF Taken, Skipped, Declaration
<1>5. DOMAIN ps = Taken(e) /\ Taken(e) \subseteq DOMAIN e.oidc
  BY <1>1 DEF Taken
<1>6. ASSUME NEW d \in ToSet(e.oidc), d.url = "url", d.name # ""
      PROVE  \E i \in DOMAIN ps : ps[i].name = d.name /\ ps[i].client_id = d.client
  <2>1. PICK i \in DOMAIN e.oidc : d = e.oidc[i]
    BY DEF ToSet
  <2> QED
    BY <1>2, <1>4, <1>5, <1>6, <2>1
<1>7. ASSUME NEW i \in DOMAIN ps
      PROVE  \E d \in ToSet(e.oidc) :
               d.url = "url" /\ ps[i].name = d.name /\ ps[i].client_id = d.client
  <2>1. e.oidc[i] \in ToSet(e.oidc)
    BY <1>5 DEF ToSet
  <2> QED
    BY <1>2, <1>4, <1>5, <2>1
<1> QED
  BY <1>6, <1>7 DEF Covers

\* Whether they do depends on no more than which providers there are.
LEMMA SameProvidersCover ==
  ASSUME NEW ps, NEW qs, NEW e, Covers(ps, e), DOMAIN qs = DOMAIN ps,
         \A i \in DOMAIN ps : qs[i] = ps[i]
  PROVE  Covers(qs, e)
<1>1. ASSUME NEW d \in ToSet(e.oidc), d.url = "url", d.name # ""
      PROVE  \E i \in DOMAIN qs : qs[i].name = d.name /\ qs[i].client_id = d.client
  <2>1. PICK i \in DOMAIN ps : ps[i].name = d.name /\ ps[i].client_id = d.client
    BY <1>1 DEF Covers
  <2> QED
    BY <2>1
<1>2. ASSUME NEW i \in DOMAIN qs
      PROVE  \E d \in ToSet(e.oidc) :
               d.url = "url" /\ qs[i].name = d.name /\ qs[i].client_id = d.client
  <2>1. PICK d \in ToSet(e.oidc) :
          d.url = "url" /\ ps[i].name = d.name /\ ps[i].client_id = d.client
    BY DEF Covers
  <2> QED
    BY <2>1
<1> QED
  BY <1>1, <1>2 DEF Covers

-----------------------------------------------------------------------------
(* The inductive invariant.                                                *)

Started == {"down", "from_env"}
Built == {"probe_store", "probe_bearer", "serving"}

\* A process works on the configuration of its own environment, and one that has not
\* read it yet remembers nothing.
ConfigInv ==
  /\ pc \notin Started => FromEnvOk(env) /\ config = FromEnv(env)
  /\ pc \in Started => /\ config = NoConfig /\ providers = <<>> /\ cookie = NoCookie
                       /\ readiness = "not_ready"

\* What is discovered is configured, all of it once the state is built.
ProvidersInv ==
  /\ DOMAIN providers \subseteq DOMAIN config.oidc_providers
  /\ \A i \in DOMAIN providers : providers[i] = config.oidc_providers[i]
  /\ pc \in Built => DOMAIN providers = DOMAIN config.oidc_providers

\* A bucket that was opened is declared, and with NATS up all along the probes find it.
ReadyInv ==
  /\ calm => nats
  /\ pc \notin Started \cup {"connect", "open_bearer"} => "PUBLISHED_LANGUAGE" \in declared
  /\ pc \in Built \cup {"open_families", "discover", "fetch_keys"}
       => "EPHEMERAL_AUTH" \in declared
  /\ pc \notin {"probe_bearer", "serving"} => health = {}
  /\ calm /\ pc = "probe_bearer" => health = {"EPHEMERAL_AUTH"}
  /\ ReadyIfCalm

BInv == TypeOK /\ ConfigInv /\ ProvidersInv /\ ReadyInv

LEMMA InitInvariant == Init => BInv
<1> SUFFICES ASSUME Init PROVE BInv
  OBVIOUS
<1> USE BootAssumption, EnvironmentsAssumption DEF Init
<1>1. TypeOK
  <2>1. MaxOutages \in Nat /\ MaxCrashes \in Nat
    OBVIOUS
  <2>2. spent \in [outages : 0 .. MaxOutages, crashes : 0 .. MaxCrashes]
    BY <2>1
  <2>3. DOMAIN providers \subseteq DOMAIN config.oidc_providers
    BY DEF NoConfig
  <2> QED
    BY <2>2, <2>3 DEF TypeOK, Place, NoCookie
<1>2. ConfigInv
  BY DEF ConfigInv, Started
<1>3. ProvidersInv
  BY DEF ProvidersInv, Built, NoConfig
<1>4. ReadyInv
  BY DEF ReadyInv, Started, Built, ReadyIfCalm
<1> QED
  BY <1>1, <1>2, <1>3, <1>4 DEF BInv

\* A process that goes takes its memory along.
LEMMA GoneKeeps ==
  ASSUME BInv, Gone, UNCHANGED world, UNCHANGED calm,
         spent' \in [outages : 0 .. MaxOutages, crashes : 0 .. MaxCrashes]
  PROVE  BInv'
<1>1. TypeOK'
  BY DEF BInv, TypeOK, Gone, world, Place, NoCookie, NoConfig, Names
<1>2. ConfigInv'
  BY DEF Gone, ConfigInv, Started
<1>3. ProvidersInv'
  BY DEF Gone, ProvidersInv, Built, NoConfig
<1>4. ReadyInv'
  BY DEF BInv, Gone, world, ReadyInv, Started, Built, ReadyIfCalm
<1> QED
  BY <1>1, <1>2, <1>3, <1>4 DEF BInv

\* So does a step that only moves on, to a place where nothing more is asked of the
\* memory, after opening what that place wants opened.
LEMMA MoveKeeps ==
  ASSUME BInv, UNCHANGED <<world, memory, spent, calm>>,
         NEW p, pc' = p, pc \notin Started \cup Built,
         p \in {"connect", "open_bearer", "open_tokens", "open_families", "discover", "fetch_keys"},
         p \notin {"connect", "open_bearer"} => "PUBLISHED_LANGUAGE" \in declared,
         p \in {"open_families", "discover", "fetch_keys"} => "EPHEMERAL_AUTH" \in declared
  PROVE  BInv'
<1>1. TypeOK'
  BY DEF BInv, TypeOK, world, memory, Place
<1>2. ConfigInv'
  BY DEF BInv, world, memory, ConfigInv, Started
<1>3. ProvidersInv'
  BY DEF BInv, memory, ProvidersInv, Built
<1>4. ReadyInv'
  BY DEF BInv, world, memory, ReadyInv, Started, Built, ReadyIfCalm
<1> QED
  BY <1>1, <1>2, <1>3, <1>4 DEF BInv

LEMMA StartKeeps == ASSUME BInv, Start PROVE BInv'
<1>1. TypeOK'
  BY DEF BInv, TypeOK, Start, world, memory, Place
<1>2. ConfigInv'
  BY DEF BInv, Start, world, memory, ConfigInv, Started
<1>3. ProvidersInv'
  BY DEF BInv, Start, memory, ProvidersInv, Built
<1>4. ReadyInv'
  BY DEF BInv, Start, world, memory, ReadyInv, Started, Built, ReadyIfCalm
<1> QED
  BY <1>1, <1>2, <1>3, <1>4 DEF BInv

LEMMA LoadConfigKeeps == ASSUME BInv, LoadConfig PROVE BInv'
<1>1. CASE FromEnvOk(env)
  <2>1. env \in Environment /\ FromEnv(env) \in Config(env)
    BY ConfigTyped, EnvironmentsAssumption DEF BInv, TypeOK
  <2> USE <1>1 DEF LoadConfig
  <2>2. TypeOK'
    BY <2>1 DEF BInv, TypeOK, world, Place, ConfigInv, Started
  <2>3. ConfigInv'
    BY DEF BInv, world, ConfigInv, Started
  <2>4. ProvidersInv'
    BY DEF BInv, ProvidersInv, Built, ConfigInv, Started
  <2>5. ReadyInv'
    BY DEF BInv, world, ReadyInv, Started, Built, ReadyIfCalm
  <2> QED
    BY <2>2, <2>3, <2>4, <2>5 DEF BInv
<1>2. CASE ~FromEnvOk(env)
  BY <1>2, GoneKeeps DEF LoadConfig, BInv, TypeOK
<1> QED
  BY <1>1, <1>2

LEMMA AttemptKeeps ==
  ASSUME BInv, NEW ok \in BOOLEAN, NEW p, Attempt(ok, p), UNCHANGED <<world, spent, calm>>,
         pc \notin Started \cup Built,
         p \in {"connect", "open_bearer", "open_tokens", "open_families", "discover", "fetch_keys"},
         ok /\ p \notin {"connect", "open_bearer"} => "PUBLISHED_LANGUAGE" \in declared,
         ok /\ p \in {"open_families", "discover", "fetch_keys"} => "EPHEMERAL_AUTH" \in declared
  PROVE  BInv'
<1>1. CASE ok
  BY <1>1, MoveKeeps DEF Attempt
<1>2. CASE ~ok
  BY <1>2, GoneKeeps DEF Attempt, BInv, TypeOK
<1> QED
  BY <1>1, <1>2

LEMMA DiscoverKeeps == ASSUME BInv, Discover PROVE BInv'
<1>1. CASE Left = {} /\ pc' = "probe_store" /\ BuildState
           /\ UNCHANGED <<config, providers, health, readiness>>
  <2>1. DOMAIN providers = DOMAIN config.oidc_providers
    BY <1>1 DEF Left, BInv, ProvidersInv
  <2> USE <1>1 DEF Discover
  <2>2. config \in Config(env)
    BY ConfigTyped, EnvironmentsAssumption DEF BInv, TypeOK, ConfigInv, Started
  <2>3. TypeOK'
    BY <2>2 DEF BInv, TypeOK, world, Place, BuildState, Config
  <2>4. ConfigInv'
    BY DEF BInv, world, ConfigInv, Started
  <2>5. ProvidersInv'
    BY <2>1 DEF BInv, ProvidersInv, Built, BuildState
  <2>6. ReadyInv'
    BY DEF BInv, world, ReadyInv, Started, Built, ReadyIfCalm
  <2> QED
    BY <2>3, <2>4, <2>5, <2>6 DEF BInv
<1>2. ASSUME NEW i \in Left, Attempt(Answers(i), "fetch_keys") PROVE BInv'
  <2>1. Answers(i) \in BOOLEAN
    BY DEF Answers
  <2>2. {"PUBLISHED_LANGUAGE", "EPHEMERAL_AUTH"} \subseteq declared
    BY DEF Discover, BInv, ReadyInv, Started, Built
  <2>3. pc \notin Started \cup Built
    BY DEF Discover, Started, Built
  <2> QED
    BY <1>2, <2>1, <2>2, <2>3, AttemptKeeps DEF Discover
<1> QED
  BY <1>1, <1>2 DEF Discover

LEMMA FetchKeysKeeps == ASSUME BInv, FetchKeys PROVE BInv'
<1>1. PICK i \in Left : \/ /\ Answers(i) /\ pc' = "discover"
                          /\ providers' = [j \in DOMAIN providers \cup {i} |-> config.oidc_providers[j]]
                          /\ UNCHANGED <<config, cookie, health, readiness>>
                       \/ Gone
  BY DEF FetchKeys
<1>2. CASE ~Gone
  <2> USE <1>1, <1>2 DEF FetchKeys
  <2>1. i \in DOMAIN config.oidc_providers
    BY DEF Left
  <2>2. DOMAIN providers' = DOMAIN providers \cup {i}
        /\ \A j \in DOMAIN providers \cup {i} : providers'[j] = config.oidc_providers[j]
    OBVIOUS
  <2>3. TypeOK'
    BY <2>1, <2>2 DEF BInv, TypeOK, world, Place
  <2>4. ConfigInv'
    BY DEF BInv, world, ConfigInv, Started
  <2>5. ProvidersInv'
    BY <2>1, <2>2 DEF BInv, ProvidersInv, Built
  <2>6. ReadyInv'
    BY DEF BInv, world, ReadyInv, Started, Built, ReadyIfCalm
  <2> QED
    BY <2>3, <2>4, <2>5, <2>6 DEF BInv
<1>3. CASE Gone
  BY <1>3, GoneKeeps DEF FetchKeys, BInv, TypeOK
<1> QED
  BY <1>2, <1>3

LEMMA ProbeStoreKeeps == ASSUME BInv, ProbeStore PROVE BInv'
<1>1. TypeOK'
  BY DEF BInv, TypeOK, ProbeStore, world, Place, Bucket
<1>2. ConfigInv'
  BY DEF BInv, ProbeStore, world, ConfigInv, Started
<1>3. ProvidersInv'
  BY DEF BInv, ProbeStore, ProvidersInv, Built
<1>4. ReadyInv'
  BY DEF BInv, ProbeStore, world, ReadyInv, Started, Built, ReadyIfCalm, Reachable
<1> QED
  BY <1>1, <1>2, <1>3, <1>4 DEF BInv

LEMMA ProbeBearerKeeps == ASSUME BInv, ProbeBearer PROVE BInv'
<1>1. TypeOK'
  BY DEF BInv, TypeOK, ProbeBearer, world, Place, Bucket
<1>2. ConfigInv'
  BY DEF BInv, ProbeBearer, world, ConfigInv, Started
<1>3. ProvidersInv'
  BY DEF BInv, ProbeBearer, ProvidersInv, Built
<1>4. ReadyInv'
  BY DEF BInv, ProbeBearer, world, ReadyInv, Started, Built, ReadyIfCalm, Reachable,
         BearerHealthy, Bucket
<1> QED
  BY <1>1, <1>2, <1>3, <1>4 DEF BInv

LEMMA WorldKeeps == ASSUME BInv, Outage \/ Recovery \/ DeclareBucket PROVE BInv'
<1> USE BootAssumption
<1>1. UNCHANGED <<env, pc, config, providers, cookie, health, readiness>>
  BY DEF Outage, Recovery, DeclareBucket, memory
<1>2. TypeOK'
  <2>1. idps' \subseteq Names(env)
    BY DEF Outage, Recovery, DeclareBucket, BInv, TypeOK
  <2>2. spent' \in [outages : 0 .. MaxOutages, crashes : 0 .. MaxCrashes]
    BY DEF Outage, Recovery, DeclareBucket, BInv, TypeOK
  <2>3. nats' \in BOOLEAN /\ calm' \in BOOLEAN /\ declared' \subseteq Bucket
    BY DEF Outage, Recovery, DeclareBucket, BInv, TypeOK
  <2> QED
    BY <1>1, <2>1, <2>2, <2>3 DEF BInv, TypeOK, Names
<1>3. ConfigInv'
  BY <1>1 DEF BInv, ConfigInv, Started
<1>4. ProvidersInv'
  BY <1>1 DEF BInv, ProvidersInv, Built
<1>5. ReadyInv'
  <2>1. declared \subseteq declared' /\ (calm' => calm /\ nats')
    BY DEF Outage, Recovery, DeclareBucket, BInv, ReadyInv
  <2> QED
    BY <1>1, <2>1 DEF BInv, ReadyInv, ReadyIfCalm
<1> QED
  BY <1>2, <1>3, <1>4, <1>5 DEF BInv

LEMMA NextKeeps == BInv /\ [Next]_vars => BInv'
<1> SUFFICES ASSUME BInv, [Next]_vars PROVE BInv'
  OBVIOUS
<1> USE DEF Started, Built
<1>1. CASE Start
  BY <1>1, StartKeeps
<1>2. CASE LoadConfig
  BY <1>2, LoadConfigKeeps
<1>3. CASE Connect
  BY <1>3, AttemptKeeps DEF Connect, BInv, TypeOK
<1>4. CASE OpenBearerReader
  <2>1. Reachable("PUBLISHED_LANGUAGE") \in BOOLEAN
    BY DEF Reachable, BInv, TypeOK
  <2> QED
    BY <1>4, <2>1, AttemptKeeps DEF OpenBearerReader, Reachable
<1>5. CASE OpenTokens
  <2>1. Reachable("EPHEMERAL_AUTH") \in BOOLEAN /\ "PUBLISHED_LANGUAGE" \in declared
    BY <1>5 DEF OpenTokens, Reachable, BInv, TypeOK, ReadyInv
  <2> QED
    BY <1>5, <2>1, AttemptKeeps DEF OpenTokens, Reachable
<1>6. CASE OpenFamilies
  <2>1. Reachable("EPHEMERAL_AUTH") \in BOOLEAN /\ "PUBLISHED_LANGUAGE" \in declared
    BY <1>6 DEF OpenFamilies, Reachable, BInv, TypeOK, ReadyInv
  <2> QED
    BY <1>6, <2>1, AttemptKeeps DEF OpenFamilies, Reachable
<1>7. CASE Discover
  BY <1>7, DiscoverKeeps
<1>8. CASE FetchKeys
  BY <1>8, FetchKeysKeeps
<1>9. CASE ProbeStore
  BY <1>9, ProbeStoreKeeps
<1>10. CASE ProbeBearer
  BY <1>10, ProbeBearerKeeps
<1>11. CASE Crash
  <2>1. spent' \in [outages : 0 .. MaxOutages, crashes : 0 .. MaxCrashes]
    BY <1>11, BootAssumption DEF Crash, BInv, TypeOK
  <2> QED
    BY <1>11, <2>1, GoneKeeps DEF Crash
<1>12. CASE Outage \/ Recovery \/ DeclareBucket
  BY <1>12, WorldKeeps
<1>13. CASE UNCHANGED vars
  BY <1>13 DEF vars, BInv, TypeOK, ConfigInv, ProvidersInv, ReadyInv, ReadyIfCalm, Names
<1> QED
  BY <1>1, <1>2, <1>3, <1>4, <1>5, <1>6, <1>7, <1>8, <1>9, <1>10, <1>11, <1>12, <1>13
     DEF Next, Main

LEMMA Invariant == Spec => []BInv
  BY InitInvariant, NextKeeps, PTL DEF Spec

-----------------------------------------------------------------------------
(* What a server that is up can be relied on for.                          *)

\* Every variable stays in its type, whatever the environment says.
THEOREM TypesHold == Spec => []TypeOK
  BY Invariant, PTL DEF BInv

\* No order of failures, recoveries and restarts gets a server up on half an environment
\* (from_env, main).
THEOREM ServersAreComplete == Spec => []ServesOnlyComplete
<1>1. BInv => ServesOnlyComplete
  BY AcceptedIsComplete, EnvironmentsAssumption
     DEF BInv, TypeOK, ConfigInv, Started, ServesOnlyComplete
<1> QED
  BY <1>1, Invariant, PTL

\* A server verifies the id_tokens of exactly the providers its environment declares,
\* each for the client declared with it (discover_oidc_providers, discover).
THEOREM EveryProviderIsServed == Spec => []ServesEveryProvider
<1>1. ASSUME BInv, pc = "serving" PROVE ServesEveryProvider
  <2>1. env \in Environment /\ config = FromEnv(env)
    BY <1>1, EnvironmentsAssumption DEF BInv, TypeOK, ConfigInv, Started
  <2>2. /\ DOMAIN providers = DOMAIN FromEnv(env).oidc_providers
        /\ \A i \in DOMAIN providers : providers[i] = FromEnv(env).oidc_providers[i]
    BY <1>1, <2>1 DEF BInv, ProvidersInv, Built
  <2>3. Covers(FromEnv(env).oidc_providers, env)
    BY <2>1, DeclaredIsConfigured
  <2>4. Covers(providers, env)
    BY <2>2, <2>3, SameProvidersCover
  <2> QED
    BY <2>4 DEF ServesEveryProvider
<1> QED
  BY <1>1, Invariant, PTL DEF ServesEveryProvider

\* A server that has had NATS since it started is ready (the two probes of main).
THEOREM CalmServersAreReady == Spec => []ReadyIfCalm
  BY Invariant, PTL DEF BInv, ReadyInv
=============================================================================
