# svc-auth: specification and verification

TLA+ models of svc-auth, the authentication service in this repository, with the
TLC runs that check them on small instances and the TLAPS proofs that hold for
every instance. Paths are relative to the repository root; line numbers are those of
the commit the models were written from.

## 1. The system

svc-auth is an HTTP service (axum on a multi-threaded tokio runtime). An ingress calls
`GET /auth/check` for every request it forwards; browsers call `POST /auth/token`,
`/auth/refresh` and `/auth/logout`. The process keeps almost no state of its own. What
it does keep in common with others is in two NATS KV buckets, and any number of
replicas may serve the same buckets.

| Component | State | Operations | Hard behaviour | What makes it correct |
|---|---|---|---|---|
| refresh token store, `src/refresh_store.rs` | one row per refresh token, one marker per revoked family, in bucket EPHEMERAL_AUTH | `store`, `find_by_id`, `mark_used` (compare-and-swap), `revoke_family`, `is_family_revoked` | calls fail with unknown outcome; writes arrive late | a used row is final; the compare-and-swap admits one winner |
| rotation, `src/rotation.rs` | none; three store calls in a row | `rotate` | overlapping rotations, a crash between calls | a family never forks; successor stored before the old token is used; reuse revokes |
| `/auth/refresh`, `src/refresh.rs` | the client's cookies | resolve token, look up, check revocation, rotate, answer | client hangs up; body token against cookie | only live tokens are handed out |
| silent `/auth/check`, `src/auth_check.rs` | the client's cookies | the same, hidden behind an expired access token | several tabs at once | the same |
| `/auth/logout`, `src/logout.rs` | the client's cookies | look up, revoke, clear | failures are logged, not answered; rotations under way | the family is dead afterwards |
| `/auth/token`, `src/token.rs` | the client's cookies | verify id_token, open a family | failure of `store` | no answer without a stored row |
| OIDC validator, `src/oidc_validator.rs` | per provider: cached JWKS (RwLock), `last_refresh` (Mutex) | `discover`, `resolve_key`, `resolve_single_key`, `refresh_jwks` | overlapping fetches, failing fetches, provider rotates keys | fetches are spaced; new keys are learned; the cache is one published set |
| id_token verification, `src/oidc_validator.rs`, `src/token.rs` | none | `verify_id_token` | an unverified issuer and kid steer the search for the key | a token is accepted only if one provider vouches for all of it |
| JWT service and cookies, `src/jwt.rs`, `src/cookie.rs` | secret, lifetimes | sign, verify, build, extract | four clocks that start together and are read apart | no cookie outlives its token; access ends after a revocation |
| bearer path, `src/bearer_validator.rs`, `crates/br-auth-contract`, `crates/br-auth-identity-util` | sealed entries in bucket PUBLISHED_LANGUAGE | publisher: `put_bearer`, `delete_bearer`; service: `resolve` | lookup races publication and retraction | an entry opens only under the token it was sealed for; errors are 502, not 401 |
| configuration and boot, `src/config.rs`, `src/main.rs` | environment, readiness | parse, bind buckets, discover, serve | readiness is computed once | no server without its buckets, key and providers |
| conformance test kit, `crates/br-auth-conformance-test` | the library, an independent anchor in Go, a live bucket | nine checks, in a fixed order | a drift no single check tries | the battery accepts what interoperates, and nothing else |
| Helm chart, CI, release | | | | not part of the running service |

Interactions. The four handlers share the store; the two rotating handlers go through
`rotate` and differ in what they answer. They interact only through the rows and markers
of the bucket and through the browser's cookie jar. `/auth/token` reaches the JWKS cache
first and the store afterwards, and the two share nothing. There are no callbacks and
no background tasks: all concurrency is that of requests, each of which may be dropped
at any `.await`.

The hazards this gives rise to are listed in `PROJECT.json`, each at its line.

## 2. The modules

| Module | What it is |
|---|---|
| `RefreshStore` | the bucket: rows, markers, writes, and the three outcomes of a write |
| `RefreshRotation` | the four handlers over the store; extends `RefreshStore`; the properties of sessions under failures |
| `SessionFamily` | the abstract specification: what a login session promises, with no handlers, no failures and no time; `RefreshRotation` and `SessionClock` both implement it |
| `SessionClock` | the same handlers with time and without failures: JWTs, cookies, rows and markers that expire, and both halves of `/auth/check` |
| `JwksCache` | the key cache of one OIDC provider, read and refreshed by overlapping logins |
| `IdToken` | the decision on an id_token |
| `BearerWire` | seal and open of the bearer contract |
| `BearerDirectory` | publishers, the bucket PUBLISHED_LANGUAGE and `/auth/check` with a bearer; extends `BearerWire` |
| `Config` | `AppConfig::from_env` |
| `Boot` | the life of the process from start to serving; extends `Config` |
| `Conformance` | the nine checks of the conformance kit against every drift |
| `CarefulBrowsers` | `RefreshRotation` with a history of which browsers send one request at a time and have their session to themselves; its property and inductive invariant |
| `RefreshRotationInv` | the inductive invariant `IInv` of `RefreshRotation`, and what the sessions and logout need on top of it |
| `RefreshRotationProofs`, `SessionFamilyProofs` | the theorems about `RefreshRotation`, the second one of its refinement and of careful browsers |
| `JwksCacheProofs`, `IdTokenProofs`, `BearerDirectoryProofs`, `SessionClockProofs`, `BootProofs`, `ConformanceProofs` | the theorems about the other modules |
| `MCRefreshRotation`, `MCCarefulBrowsers`, `MCSessionClock`, `MCBearerDirectory` | symmetry for TLC |
| `MCBoot`, `MCIdToken` | the environments, the providers and the id_tokens for TLC |

The modules compose the way the code does: handlers share nothing but the store, so
`RefreshRotation` and `SessionClock` each hold all four of them over one bucket; a login reaches
`JwksCache` and `IdToken` before it opens a family, and neither knows of the other two. What
`main` builds (providers, cookie lifetimes, cooldown) is what the other modules take as constants.

### RefreshStore and RefreshRotation

*State.* `rows`, `revoked` are the bucket. `late` holds writes that were reported as
failed, or whose handler vanished: the bucket applies each some time later or never. A
handler slot `r` has `pc[r]`, the await it is at; `job[r]`, the endpoint, browser and token;
`seen[r]`, the row and revision `find_by_id` returned; `new[r]`, the id of the token it
will hand out; `ans[r]`, the answer it has computed. `jar[b]` is the refresh cookie of a
browser and `delivered` the set of tokens any browser ever received.

*Actions.* One per await, with all the code up to the next await in the same step:

| Action | Code |
|---|---|
| `Login` | `/auth/token` after the id_token verified, up to `store` |
| `PresentCookie`, `PresentBody`, `PresentNothing` | arrival of refresh, check and logout requests; `PresentNothing` covers the answers given before the store is reached |
| `Find` | `find_by_id` and its error and not-found branches |
| `IsFamilyRevoked` | the marker read, which takes an error for "not revoked", and the start of `rotate` (reuse check or drawing a successor) |
| `StoreNew` | `store` in `rotate` and in `/auth/token` |
| `MarkUsed` | `mark_used`: success, conflict (go on to revoke), error |
| `RevokeFamily` | `revoke_family` after reuse or by logout; a failure is only logged |
| `Respond` | the answer reaches the browser, which sets or clears the cookie |
| `Abort` | the future is dropped or the process dies at an await; the write in flight may or may not have left |
| `Arrive` | the bucket applies a late write |

*Abstractions.* A token is its id. The family id and the first token's id are drawn in the
same step of `/auth/token`, so the family is named by that token. Timestamps are kept as
"is some". Revisions count the writes to one key, as the code compares revisions of one key
for equality only. A token verifies for ever here: lifetimes are in `SessionClock`. A signing
error, which needs an invalid secret, is left out. Crash and client disconnect are one
action, because the service keeps nothing across requests.

*SessionFamily* has three variables: the current token of each family, the tokens that were
current and no longer are, and the phase (unopened, open, closing, closed). The refinement
maps the current token to the live end of the family's chain of `replaced_by` links, a
rotation to the applied compare-and-swap, whether it was applied in `MarkUsed` or late,
and "closing" to a revoked family on which a rotation that began earlier is still at work.

*CarefulBrowsers* adds one history variable and no behaviour. A browser is careful until it has two
requests open at one time, sends a token that is not its cookie, or somebody else sends a token of its
session. Nothing a careful browser does may look like a replay.

### SessionClock

*State.* `now`; per token the instant its two JWTs were `signed`, its `row` and the instant of
the row's last write; per family its `marker` and the instant of its last write; the browser's two
cookies, each with the instant the browser drops it; the requests, each a record of where it is,
what it was sent with and when, and the row it read. `silent` is AUTH_CHECK_SILENT_REFRESH.
`given` and `revokedAt` are history variables. A request names the JWT in its access cookie (`jwt`):
`verify_access_token` accepts a refresh JWT as well, which has the same key, issuer and claims and one more, until its own exp (`AccessVerifies`).
A browser sends each JWT in the cookie it came in, a client that hoards them (`SendKept`) either.

*Actions.* The browser sends what it still holds (`SendCookies`, `Login`), something foreign
(`SendForeign`), or what it should have dropped (`SendKept`). `Token_`, `Refresh`, `Logout` and
`Check` are the handlers up to their first await; `HandleJwtCookie` and `SilentRefresh` are the
choice the access cookie makes. `Find` to `RevokeFamily` are the awaits, each reading the clock when
it runs. `Tick` is time, which lets the browser drop cookies and cannot pass a request by for
longer than `MaxCall`. Rows and markers age from their last write (`InBucket`), as NATS counts
max_age.

*Abstractions.* One login, which starts the clock. A JWT of another issuer or secret, or a
garbled one, is the one value `Foreign`. An access JWT sent as the refresh token lacks the jti and is refused before the store is reached,
as a request without a token is; it is left out. The session cookie decides nothing and is left out.

*Sessions.* It implements `SessionFamily` as `RefreshRotation` does, under a mapping of its own
that does not ask whether a row or a marker is still in the bucket. The current token of a family is its unused row
whose token was handed out, to a client (`given`) or in an answer already computed; the retired ones are the used rows; a family
is closed by its first revocation and stays so when the marker is gone. With one client at two
requests and no failures, the id of a stored successor is in nobody's hands until its rotation has won.

### JwksCache and IdToken

*State.* `jwks` and `age` are the two locked fields of `OidcProvider` (the age of
`last_refresh`, capped at the cooldown); `gen` is the provider's key generation (each
generation adds a key and still publishes the one before, the overlap providers
use); each login has `pc`, `kid`, `body` (what its fetch returned) and `verdict`. `quiet` is the
time since the last fetch of lone logins began, `upset` counts failures and records whether logins ever
overlapped: no action reads them but against its bounds.

*Actions.* `LookUp`, `CheckCooldown`, `ServeKeys`, `InstallKeys`, `Stamp`, `LookUpAgain` are the
sections of `resolve_key` and `refresh_jwks` between which another thread can run: they
separate at awaits and where a lock is released. `ResolveSingleKey` is the path for a token
without kid. `FailFetch` is either `map_err` of the fetch, `HangUp` a dropped future,
`Boot` is `discover` after a restart, `RotateKeys` and `Tick` are the provider and the clock.
Kid 0 is never published: it stands for a stream of bogus kids.

`IdToken` is a pure decision, so it has one step: `VerifyIdToken` follows the code from the unverified
issuer to a provider (`RouteOf`), from the header's kid to a key (`Resolve`), through
`AlgorithmFor` and `jsonwebtoken::decode` (`Decodes`, external) to the email claim (`EmailOf`). Its properties
restate none of that search: they say who has to vouch for the token. A token names any number of audiences or none; the
audience is checked only where there is one (`ForClient`).

### BearerWire and BearerDirectory

*State.* `kv` is the bucket by key; `call` the publishers' calls under way; `late` the writes that
failed and may still be applied; `look` the checks; `validator` the key svc-auth was started with.
`published` is what was ever put, `told` what a publisher knows of a token.

*Actions.* `Send`, `Succeed`, `Fail` and `ArriveLate` are `put_bearer` and `delete_bearer`, an await each;
`Damage` moves or alters a value in the bucket; `Ask`, `Read` and `Respond` are `handle_bearer` and
`resolve`. A ciphertext is the record of what was sealed; `Open` refuses in the order of the code.

### Config and Boot

`Config` maps an environment, a record of variables, to `FromEnv` and says when it fails
(`FromEnvOk`). The providers are a sequence of declarations, and what `from_env` makes of them is a
function on the positions it did not skip: `Discover` and `FetchKeys` go through them in that order (`Turn`), whatever is
left of them (`Left`). `Boot` is `main`, one action per await: `LoadConfig`, `Connect`, `OpenBearerReader`,
`OpenTokens`, `OpenFamilies`, `Discover` and `FetchKeys` per provider, `ProbeStore`, `ProbeBearer`.
Around it, `Start` is the orchestrator, `Crash` a process that dies, `Outage` and `Recovery` are NATS and the
providers, `DeclareBucket` is whoever declares the buckets (svc-auth only binds them). `memory` is
what a process that is gone forgets.

### Conformance

The world is a drift: how the library, the Go anchor and the bucket behave, each in one of
several ways of which one is the contract's. `RunCheck` runs the nine checks in the order of
`run_full_battery`; a check passes, fails, or ends the battery with an error.

## 3. What is checked

Deadlock checking is on, except in `boot` (a server that has used up the bounded faults just stays up), `idtoken` (one
decision) and `conformance` (one battery).

| Run | Instance | Shows |
|---|---|---|
| `overlap` | 4 tokens, 2 handlers, 2 browsers of 2 tabs, one read that fails, one token sent in a body | `OneLiveToken`: a family never forks. `HandedOutIsLive`, `DeliveredOnChain`: with tokens in bodies as well, what is handed out is its family's live token. `DeadStaysDead`: once a family is revoked and the rotations that overlap the revocation are over, no token joins it. `CookieIsLive`: a browser that sends one request at a time, and whose session nobody else uses, is never taken for a replayer |
| `failures` | 4 tokens, 2 handlers, one write that fails, one abort | `TypeOK`, `IInv`, `ReplacementStored`, `HandedOutIsLive`, `DeliveredOnChain`, `ReuseRevokes`, `UsedRowsAreFinal`; `SessionsAsPromised`: refinement of `SessionFamily` |
| `settled` | 3 tokens, 2 handlers, one replay, no failure, fairness | `LogoutRevokes`; `ReplayRevokes`: a replay leads to revocation and an answer |
| `clock` | 3 tokens, 2 requests; access 1, refresh 2, leeway 1, max_age 5, calls up to 1 | `CookieIsHonoured`: a cookie the browser still has is never expired; `AccessEnds`: after the revocation a rotation lets nobody in for longer than a request, and an access cookie for no longer than the lifetime of the JWT in it and a request; `RevokedStaysDead`: no rotation on a marker that has aged out; `PromisedOverTime`: refinement of `SessionFamily` while tokens, rows and markers age |
| `jwks` | 2 logins, cooldown 2, 3 generations, one failed fetch, one hang-up, fairness | `CacheIsOneGeneration`; `FetchesAreSpaced`, `FetchedKeyIsFound` while logins are lone; `NewKeysAreLearned`, `WithdrawnKeysAreDropped` |
| `idtoken` | two providers of up to two keys, of two issuers or of one; every token of two algorithms, with one audience, several or none | `AcceptsOnlyGenuine`, `AcceptsEveryGenuine` |
| `bearer` | 2 tokens, a human and a service account, 2 publishers, 1 check, one fault, one damaged value | `ResolvesOnlyPublished`; `AnswersAsTold`: what a publisher was told is what a check answers |
| `boot` | 460 environments, 2 outages, 1 crash, fairness | `ServesOnlyComplete`, `ServesEveryProvider`, `ReadyIfCalm`; `EventuallyServes` |
| `conformance` | every combination of drifts | `BatteryDecides`: the battery accepts a world if and only if it interoperates |

*Bounds.* In `RefreshRotation`, `Token` bounds the ids ever drawn: a request that may draw one is
accepted only while one is left, so that no handler blocks on the bound. Four ids allow a login
and three successors: a fork needs two successors of one token, a refinement error shows
with an orphan beside a chain of three. `Tabs` bounds one browser's open requests, the
`Max...` constants the faults of each kind; one fault of a kind is enough for each interleaving of that
fault with two handlers. `failures` leaves out body tokens, which `settled` and `overlap` let in: overlapping tabs replay the
cookie all the same, and the proofs cover body tokens together with any number of faults. In `overlap`, two browsers are
what it takes for one to use the other's session, and `CookieIsLive` says nothing of a service that lost a write.

In `clock`, a refresh token verifies for 3 ticks and a request takes one more, so that max_age 5
is the least for which `RevokedStaysDead` is to hold; horizon 7 lets a marker written by a request as
late as tick 2 age out, `2 * MaxCall = Leeway + 1` is the longest request for which `CookieIsHonoured` is to hold, and three ids are a login, a rotation and the rotation that must not be. `Hoards` lets a client present
tokens it should have dropped, which the browser of the violation runs never does.

In `jwks`, three generations are what it takes for a key to be withdrawn after a second one was added,
and cooldown 2 tells a fetch at once from one that is only too early. In `bearer`, two tokens let a value be
moved, two callers overlap on one token, and one fault makes a write late. In `boot`, the environments are every
combination of the required variables with every mistake in them, times seven provider lists, and then each optional
variable alone; two outages suffice to lose NATS and a provider in one boot. In `idtoken`, a second key
is what a kid can be confused with, a second provider what an issuer can.

*Fairness.* `RefreshRotation`: weak fairness of the steps a handler
takes by itself, as NATS calls return or time out and tokio polls every ready future.
Arrival of requests, faults, aborts and late writes are never forced. `JwksCache`: the same for
logins, and time passes; key rotations, logins, failures, hang-ups and restarts
are not forced, and its two liveness properties assume that logins with the key in question keep being
answered. `Boot`: every await of `main` ends (each fails or succeeds), and the orchestrator restarts a process
that is down; recoveries are not forced, `EventuallyServes` assumes that the outages end. That a call to a provider ends is an
assumption, here and in `JwksCache`: the HTTP client that `discover` builds sets no timeout (`oidc_validator.rs:40`), so that a
provider which accepts a connection and never answers holds up the boot, or the login. The other modules
state safety only and have no fairness.

## 4. Divergences

Where the code does other than a sentence of the repository says. Three of them have a run of their own, in which TLC finds the
behaviour that contradicts the sentence:

| Run | The sentence | What the code does |
|---|---|---|
| `silent_failure` | `README.md:83` no cookies set on either path, the client retries | the silent path clears both cookies on a store error (`auth_check.rs:135`) |
| `silent_never` | `.env.example:19` /auth/check performs silent refresh on expired JWT | the access cookie's Max-Age is the lifetime of the JWT in it (`main.rs:96`): the browser has dropped the cookie by the time the JWT expires, and without it the check answers 200 to nobody (`auth_check.rs:24`) |
| `marker_expires` | `charts/br-svc-auth/README.md:28` max_age aligned to the refresh-token lifetime; `tests/e2e.rs:496` every token from a revoked family must be dead | a marker of that age leaves the bucket while a token stored by an overlapping rotation still verifies, which then rotates (`refresh_store.rs:77`) |

`marker_expires` and `clock` are the two sides of one condition, which
section 5 proves sufficient: max_age must exceed the refresh lifetime, the leeway and the longest request together.

Observed while modelling, without a run of their own. The models show each of them when the
instance is changed as said:

- `README.md:83` the old token stays unused: an error of `mark_used` does not mean it was not applied (`rotation.rs:38`); with a
  write fault the update may be in `late`.
- `tests/e2e.rs:496` every token from a revoked family must be dead: a read error of the marker counts as not
  revoked (`refresh_store.rs:90`). `DeadStaysDead` is about markers that could be read.
- `README.md:33` revoke refresh token family: a failed revocation is logged, and logout answers as if it had succeeded
  (`logout.rs:16`); `LogoutRevokes` fails with `MaxWriteFaults = 1`.
- `.env.example:16` min delay between re-fetches: overlapping logins pass the cooldown together (`oidc_validator.rs:183`), and a fetch
  that fails or whose client hangs up never sets `last_refresh`; `FetchesAreSpaced` without `Lone`.
- `oidc_validator.rs:162` not found, even after refresh: a slower, older fetch may have overwritten the keys this login's own
  refresh brought (`oidc_validator.rs:201`); `FetchedKeyIsFound` without `Lone`.
- `README.md:35` and `:72` readiness: it is decided once, after the two probes (`main.rs:118`). A bucket that is slow at that moment leaves a process
  that serves and is never ready; one that goes away later leaves `/readyz` saying ready. `ReadyIfCalm` is what remains.
- A variable named `OIDC_DISCOVERY_URL` makes `from_env` panic on a slice whose ends overlap (`config.rs:135`): the process ends, as it does for any other bad
  configuration, without saying why.
- `SECURE_COOKIES=TRUE` means false (`config.rs:197`), and a number that does not parse silently means the default (`config.rs:178`).
- Of two providers with one issuer only the first is ever asked (`oidc_validator.rs:111`), so that the tokens for the second one's client are refused.
- A put that was reported as failed may arrive after a retraction that succeeded, and the bearer resolves again
  (`publisher.rs:27`); `AnswersAsTold` without the condition that no call is late.
- `README.md:82` the signature, issuer, and audience are then verified: `set_audience` does not require the claim, and jsonwebtoken 9.3.1
  checks it only in a token that has one (`oidc_validator.rs:135`); an id_token without `aud` is accepted. `AcceptsOnlyGenuine` says so.
- `verify_access_token` accepts a refresh JWT (`jwt.rs:64`): sent as the access cookie it lets a client in for the refresh token's
  lifetime, revoked or not. `AccessEnds` is the bound that remains.
- An Authorization header that is no text is taken for none, and answered 200 (`auth_check.rs:24`).
- A handler that vanishes after `mark_used` leaves the successor stored with nobody holding its JWT; the client's
  retry is then a replay, which revokes its family.

## 5. What is proved

Each theorem is for any values of the constants that satisfy the assumptions named in the module that declares
them: sets of any size, any bounds. The bounds on faults are numbers and nothing more, so the proofs hold for any number of faults.

| Module | Theorem | Property |
|---|---|---|
| `RefreshRotationProofs` | `InvariantHolds` | `Spec => []IInv` |
| | `TypesHold` | `TypeOK` |
| | `FamiliesNeverFork` | `OneLiveToken` |
| | `SuccessorsAreStored` | `ReplacementStored` |
| | `AnswersCarryLiveTokens` | `HandedOutIsLive` |
| | `ReplaysAreEvident` | `DeliveredOnChain` |
| | `VerdictsRevoke` | `ReuseRevokes` |
| | `UsedRowsStayFinal` | `UsedRowsAreFinal` |
| `JwksCacheProofs` | `TypesHold` | `TypeOK` |
| | `CacheStaysWhole` | `CacheIsOneGeneration` |
| | `LoneFetchesAreSpaced` | `FetchesAreSpaced` |
| | `LoneFetchesAreFound` | `FetchedKeyIsFound` |
| `BearerDirectoryProofs` | `TypesHold` | `TypeOK` |
| | `BearersResolveToWhatWasPublished` | `ResolvesOnlyPublished` |
| | `ChecksAnswerAsTold` | `AnswersAsTold` |
| `SessionClockProofs` | `TypesHold` | `TypeOK` |
| | `RevokedStaysRevoked` | `MarkersOutlive` implies `RevokedStaysDead` |
| | `AccessEndsInTime` | `MarkersOutlive` implies `AccessEnds` |
| | `CookiesAreHonoured` | `LeewayCovers` implies `CookieIsHonoured` |
| | `SessionsArePromisedOverTime` | `MarkersOutlive` implies `PromisedOverTime` |
| `SessionFamilyProofs` | `DeadFamiliesStayDead` | `DeadStaysDead` |
| | `LogoutsRevoke` | `LogoutRevokes`, as long as no call has failed |
| | `SessionsArePromised` | `SessionsAsPromised`, in every behaviour where no read fails |
| | `CarefulCookiesAreLive` | `CookieIsLive` |
| `IdTokenProofs` | `OnlyGenuineIsAccepted` | `AcceptsOnlyGenuine` |
| | `EveryGenuineIsAccepted` | `AcceptsEveryGenuine` |
| `BootProofs` | `TypesHold` | `TypeOK` |
| | `ServersAreComplete` | `ServesOnlyComplete` |
| | `EveryProviderIsServed` | `ServesEveryProvider` |
| | `CalmServersAreReady` | `ReadyIfCalm` |
| `ConformanceProofs` | `BatteryIsDecisive` | `BatteryDecides` |

*Families.* `OneLiveToken` is not inductive: from a state where an
update with a matching revision is in flight for a used row, it would be lost. `IInv`
rests on the observation that a key is written at most twice: by the put that creates
the row (revision 1, unused) and by the update that marks it (revision 2, used). So a
compare-and-swap at revision 1, whether a handler is about to send it or it is in `late`,
can only hit an unused row. The rest of `IInv` says where an id that is not yet stored can
occur (nowhere but with its one handler or its one late put: that makes a put harmless),
what a handler knows of the row it read (its family never changes, and it was stored), that a
stored row's family was stored, that an orphan is nobody's successor unless its
rotation's own update is accepted, and what cookies and delivered tokens are. The three effects on
the bucket (a fresh put, an accepted update, a marker) each have a lemma that says what they do to the rows, the
chain and the live tokens; each action then is a case of its own that cites the lemma
of the effect it has, and a late arrival is the same three effects without a handler.

*Sessions.* The refinement, `DeadStaysDead` and logout rest on a second classification (`StepKinds`): a step is calm (it
writes nothing, and leaves at most its write behind), applies the write its handler waits for, or applies a late one; and an accepted
write puts a new row, marks an unused one or sets a marker (`WriteShapes`). `SessionInv` adds to `IInv` that only opened
families are ever revoked, and that the successor a late update would install was handed to nobody. Then a mark is a
rotation of `SessionFamily`, the put of a login opens a session, a first marker closes it, and every other step
changes nothing of the sessions; a calm step begins a rotation of a revoked family only after a read of its marker that
failed. That is why the refinement is stated for the behaviours without one, and `DeadStaysDead` for the steps before one: the code
takes such a read for "not revoked". `LogoutInv` is what logout is owed at each await; a failed call ends it, which is the
condition of `LogoutsRevoke`. That no call failed is said of the history (`spent`), not of a bound.

*Careful browsers.* `CarefulInv` is an argument about ownership: no other browser has a cookie or a request of a careful
browser's session (`Apart`), so that only its own one request can touch the row of its cookie or the marker of its session. That request reads the
live row, finds no marker, and wins its compare-and-swap (`OwnReads`, `OwnWrites`): the branches of a replay are never taken. A
login moves the browser to a family that nobody else has touched since it was opened (`OpenedInv`). A write that fails or a handler that vanishes ends
the argument (`NothingLost`), as it should: the client's retry is then a replay in the eyes of `rotate`.

*Key cache.* `BodyInv` says that what a login holds of a fetch is a published key set, which makes `CacheIsOneGeneration`
inductive, for any overlap. `LoneInv` says what lone logins add: unless a fetch is under way the cooldown does
not run ahead of the last fetch, and what the login fetched is what is cached. A step after which
logins are still lone is none of the three that end it (`LoneBefore`).

*Bearers.* `WritesInv`: every value that would open was published under the token it is sealed for, because the token is
its associated data; moving a value changes nothing of that, and altering it makes it refuse. `AloneInv` and
`ToldInv` say when a publisher may rely on what it was told: a call that is alone is the only write on
its way to its key, so when it succeeds nothing is left that could change the key.

*Id tokens.* The search for the provider and for the key takes the first place of a list that passes a test. `LeastExists`
(a set of numbers has a least element, from the well-foundedness of <) stands for the induction over the list; from it
`RouteFinds`, `KeyFinds` and `ResolveFinds` say that what the search returns passes the test, and that it returns something if
anything does. The two directions of the decision follow, whatever the providers, their keys and the token. `InputAssumption` says
what a provider and a token are. `DecodesIsVouches` is where the audience counts: the decoding asks for the client exactly if the
token names an audience, and so does `Vouches`.

*Boot.* `BInv` has three parts: a process past `from_env` works on the configuration of its own environment (`ConfigInv`),
what is discovered so far is configured, and all of it once the state is built (`ProvidersInv`), and a bucket that was opened
stays declared, so that with NATS up since the start both probes find theirs (`ReadyInv`).

*Clocks.* `MarkersOutlive` is the condition `RefreshTTL + Leeway + MaxCall < MaxAge`. A request at the marker
presented a token that verified after it was sent, so now is at most `RefreshTTL + Leeway + MaxCall` past the
signing of that token; and no token of a family is signed after the family's first
revocation (`SignedInTime`), which in turn is what the property says of the step that signs. So the marker, written at the
revocation or later, is still there. The two facts have to be carried together (`CInv`). For `AccessEnds`, `BackedInv`
adds what an answer rests on: the token whose JWT a request presents has a row, because only the answer of a request that
stored one hands a token out; an answer on an access cookie is to a request sent while the JWT in it verified
(`VerifiesInLifetime`, by its kind), and its family's tokens were signed before the revocation; and
a rotation's request was sent before the revocation, because the marker was read in between.

`CookiesAreHonoured` is about the refresh cookie and the other end of a token's life, under a condition of its own: `LeewayCovers`, `2 * MaxCall <= Leeway + 1`.
The browser counts Max-Age from the receipt of an answer, up to a request after the signature, and the request that
carries the cookie may take as long again; `LInv` keeps for each cookie, and each request with one, how long ago it can
have been signed. `TypesHold` needs neither condition.

*Sessions over time.* `SessionsInv` says who can hold a token: a client presents only tokens it was given, a new token
is on its way with one request and out of the client's hands until that request has won (`OneBearer`, `Owes`), a stored row has its
family's first row (`RowsRooted`), and of the unused rows of a family at most one was handed out (`OneLive`). Most
steps are quiet for the session (`Quiet`): they write nothing, or only forget or draw an id. The four others are a case each: the put of a login opens the
session, an accepted compare-and-swap moves the current token on, a marker closes the session, and an answer or a tick
changes only who holds what. A rotation of a closed session would have to pass the read of a marker that has aged out: that is the one place where
`MarkersOutlive` is used, through `RevokedStaysDead`.

*Conformance.* There is no constant: TLC enumerates the worlds, and the proof says why nine checks are enough. Each
check passes on one condition on the codecs or the bucket (`ChecksPass`). Together they make the library and the anchor use one cipher
and bind an entry to the hash of its token (`PassingIsSound`), which is what opening every entry under
its own token and under no other needs (`SoundInteroperates`); and conversely each check is a case of interoperation
(`InteroperablePasses`). `BatteryInv` carries the outcomes so far through the run of the battery.

*Only model-checked.* Liveness (`ReplayRevokes`, `NewKeysAreLearned`, `WithdrawnKeysAreDropped`, `EventuallyServes`) is outside TLAPS's
reach. Of the properties the runs of section 4 refute, `RevokedStaysDead` has a theorem, under the condition that its run does not meet. `IInv` is an invariant of the run `failures`; the
other inductive invariants are checked by their proofs alone.

## 6. Not modelled

- The session cookie, the names of the cookies and their attributes other than Max-Age: no handler decides on them.
- Metrics, logs, and the JSON of error bodies; of the errors, only the split that decides about cookies is kept.
- The Helm chart, CI and release scripts; in the conformance kit, building and spawning the anchor, and drifts of what the kit takes from the library
  itself, which its checks cannot see: the prefix `BEARER_TOKENS_KEY_PREFIX` and the JSON of an entry (`wire.rs:101`, `kv.rs:67`).
- TLS, the HTTP parser, the cryptography, and NATS, which are taken as the code uses
  them: a call to a bucket succeeds, is refused on a stale revision, or fails with unknown outcome.
- Clocks of several replicas that disagree: `SessionClock` has one clock for the service, the browser and the bucket.

## 7. Plan

Every safety property that a passing run checks is proved. What is left is liveness: the safety facts it
rests on (a handler at an await can always take its step, and the number of awaits before its answer decreases) could be proved, the
liveness itself could not.
