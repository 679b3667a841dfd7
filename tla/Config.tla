------------------------------- MODULE Config --------------------------------
(***************************************************************************)
(* AppConfig::from_env (config.rs): what svc-auth makes of its             *)
(* environment.  An environment is a record of the variables it reads.     *)
(* Text is kept as far as the code tells it apart; the value of a numeric  *)
(* variable is the number it spells, or Unset, or Garbled.  The providers  *)
(* it declares are told apart by their position in the environment.        *)
(***************************************************************************)
EXTENDS Integers, Sequences

Unset == -1
Garbled == -2

EnvironmentName == {"local", "dev", "test", "uat", "stg", "prod"}

\* One OIDC_<name>_DISCOVERY_URL variable, with the client id and email claim of its
\* name.  The name is "overlapping" where prefix and suffix share the underscore, in
\* OIDC_DISCOVERY_URL.
Declaration == [name : STRING, url : {"", "url"}, client : STRING, claim : {"absent", "custom"}]

\* The variables from_env reads, in every spelling.
Number == Nat \cup {Unset, Garbled}
Environment == [nats_url : STRING, jwt_secret : STRING, bearer_seal_key : STRING,
                environment : STRING, access_ttl : Number, refresh_ttl : Number,
                cooldown : Number, secure_cookies : STRING, silent_refresh : STRING,
                oidc : Seq(Declaration)]

-----------------------------------------------------------------------------
(* One variable.                                                           *)

\* required_env: set, be it to the empty string.
Present(value) == value # "absent"

\* Mutant: what does not parse is taken as it is.
ParseU64EnvRaw(n, default) == IF n # Unset THEN n ELSE default

ParseU64Env(n, default) == IF n >= 0 THEN n ELSE default

\* Only two spellings say yes; any other says no.
ParseBoolEnv(value, default) == IF value = "absent" THEN default ELSE value \in {"true", "1"}

\* Mutant: staging is looked for under the name of its variant.
EnvironmentKnownByVariant(value) ==
  value = "absent" \/ value \in (EnvironmentName \ {"stg"}) \cup {"staging"}

\* Environment::parse, with its default.
EnvironmentKnown(value) == value = "absent" \/ value \in EnvironmentName

IsLocal(value) == value \in {"absent", "local"}

\* parse_bearer_seal_key: base64 of 32 bytes.
SealKeyParses(value) == value = "key"

JwksCooldown(n) == LET asked == ParseU64Env(n, 60) IN IF asked < 1 THEN 1 ELSE asked

-----------------------------------------------------------------------------
(* The OIDC providers.                                                     *)

\* A declaration that is passed over.
Skipped(d) == d.url = "" \/ d.name = ""

\* The loop ends the boot: the slice of the name panics, or the client id is missing.
Rejected(d) == /\ d.url # ""
               /\ \/ d.name = "overlapping"
                  \/ d.name # "" /\ d.client \in {"", "absent"}

\* The positions of the declarations that are taken.
Taken(e) == {i \in DOMAIN e.oidc : ~Skipped(e.oidc[i])}

\* What a declaration configures, the name of the claim defaulting to "email".
OidcProvider(d) == [name |-> d.name, client_id |-> d.client,
                    email_claim |-> IF d.claim = "absent" THEN "email" ELSE d.claim]

\* Mutant: a provider without a client id is passed over.
DiscoverOidcProvidersLenient(e) ==
  LET taken == {i \in Taken(e) : ~Rejected(e.oidc[i])} IN
    [ok |-> taken # {} \/ IsLocal(e.environment),
     providers |-> [i \in taken |-> OidcProvider(e.oidc[i])]]

\* discover_oidc_providers: in the order of the environment; none is enough only locally.
DiscoverOidcProviders(e) ==
  [ok |-> /\ \A i \in DOMAIN e.oidc : ~Rejected(e.oidc[i])
          /\ Taken(e) # {} \/ IsLocal(e.environment),
   providers |-> [i \in Taken(e) |-> OidcProvider(e.oidc[i])]]

\* What from_env returns of an environment, and what there is before it has.
OidcProviderConfig == [name : STRING, client_id : STRING, email_claim : {"email", "custom"}]
Config(e) == [access_token_ttl : Nat, refresh_token_ttl : Nat,
              jwks_refresh_cooldown_secs : Nat, secure_cookies : BOOLEAN,
              auth_check_silent_refresh : BOOLEAN,
              oidc_providers : [Taken(e) -> OidcProviderConfig]]

NoConfig == [access_token_ttl |-> 0, refresh_token_ttl |-> 0, jwks_refresh_cooldown_secs |-> 0,
             secure_cookies |-> FALSE, auth_check_silent_refresh |-> FALSE,
             oidc_providers |-> <<>>]

\* A week.
DefaultRefreshTtl == 604800

\* Whether from_env returns a configuration, and which.
FromEnvOk(e) == /\ Present(e.nats_url) /\ Present(e.jwt_secret)
                /\ EnvironmentKnown(e.environment)
                /\ SealKeyParses(e.bearer_seal_key)
                /\ DiscoverOidcProviders(e).ok

FromEnv(e) == [access_token_ttl |-> ParseU64Env(e.access_ttl, 900),
               refresh_token_ttl |-> ParseU64Env(e.refresh_ttl, DefaultRefreshTtl),
               jwks_refresh_cooldown_secs |-> JwksCooldown(e.cooldown),
               secure_cookies |-> ParseBoolEnv(e.secure_cookies, TRUE),
               auth_check_silent_refresh |-> ParseBoolEnv(e.silent_refresh, TRUE),
               oidc_providers |-> DiscoverOidcProviders(e).providers]
=============================================================================
