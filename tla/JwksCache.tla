----------------------------- MODULE JwksCache ------------------------------
(***************************************************************************)
(* The signing keys of one OIDC provider as svc-auth caches them           *)
(* (oidc_validator.rs): read by every login, re-fetched when a login       *)
(* brings a kid that is not in the cache, at most once per cooldown.  A    *)
(* login is cut where another thread may run: at its awaits, and where it  *)
(* releases a lock.                                                        *)
(*                                                                         *)
(* The provider publishes its keys by generations: generation g has its    *)
(* own key and still publishes the one before.  Key 0 is never published.  *)
(* Time is the number of ticks since last_refresh, which the code compares *)
(* with the cooldown and with nothing else, so it is capped there.         *)
(***************************************************************************)
EXTENDS Integers, FiniteSets

CONSTANTS Login,       \* logins in progress at one time
          Cooldown,    \* refresh_cooldown, in ticks
          MaxGen,      \* bound: generations of keys the provider goes through
          MaxFails,    \* bound: fetches that fail
          MaxHangUps   \* bound: logins whose client hangs up

ASSUME JwksAssumption ==
  /\ Cooldown \in Nat \ {0} /\ MaxGen \in Nat \ {0}
  /\ MaxFails \in Nat /\ MaxHangUps \in Nat

VARIABLES gen,    \* the generation the provider is at
          jwks,   \* the cached keys
          age,    \* ticks since last_refresh
          pc,     \* where each login is
          kid,    \* the key its token names
          body,   \* the keys its fetch returned
          verdict, \* what it learned of that key
          upset,  \* fetches that failed, clients that hung up, whether logins overlapped
          quiet   \* history: ticks since the last fetch of lone logins began

vars == <<gen, jwks, age, pc, kid, body, verdict, upset, quiet>>

Kid == 0 .. MaxGen

\* A token whose header names no key.
NoKid == -1

\* The keys the provider publishes at generation g.
Published(g) == {g - 1, g} \ {0}
Place == {"idle", "lookup", "cooldown", "fetch", "receive", "stamp", "lookup_again", "answer"}
Verdict == {"none", "resolved", "unknown_kid", "no_single_key", "fetch_failed"}

\* Logins under way; and whether they have been lone so far: one at a time, with no
\* fetch that failed and no client that hung up.
Busy == {l \in Login : pc[l] # "idle"}
Lone == upset = [fails |-> 0, hangups |-> 0, overlap |-> FALSE]

CappedTick(n) == IF n < Cooldown THEN n + 1 ELSE n

GoTo(l, p) == pc' = [pc EXCEPT ![l] = p] /\ UNCHANGED verdict
AnswerWith(l, v) == pc' = [pc EXCEPT ![l] = "answer"] /\ verdict' = [verdict EXCEPT ![l] = v]

\* A fetch begins.
NoteFetch == quiet' = IF Lone THEN 0 ELSE quiet

-----------------------------------------------------------------------------
(* A login, from verify_id_token to its verdict on the key.                *)

Begin(l, k) ==
  /\ pc[l] = "idle"
  /\ kid' = [kid EXCEPT ![l] = k]
  /\ upset' = [upset EXCEPT !.overlap = @ \/ Busy # {}]
  /\ GoTo(l, "lookup")
  /\ UNCHANGED <<gen, jwks, age, body, quiet>>

\* resolve_single_key, which never fetches.
ResolveSingleKey(l) ==
  /\ pc[l] = "lookup" /\ kid[l] = NoKid
  /\ AnswerWith(l, IF Cardinality(jwks) = 1 THEN "resolved" ELSE "no_single_key")
  /\ UNCHANGED <<gen, jwks, age, kid, body, upset, quiet>>

\* resolve_key: the first look, under the read lock.
LookUp(l) ==
  /\ pc[l] = "lookup" /\ kid[l] # NoKid
  /\ IF kid[l] \in jwks THEN AnswerWith(l, "resolved") ELSE GoTo(l, "cooldown")
  /\ UNCHANGED <<gen, jwks, age, kid, body, upset, quiet>>

\* Mutant: a skipped refresh starts the cooldown over.
CheckCooldownRestarting(l) ==
  /\ pc[l] = "cooldown"
  /\ IF age < Cooldown THEN GoTo(l, "stamp") /\ UNCHANGED quiet
                       ELSE GoTo(l, "fetch") /\ NoteFetch
  /\ UNCHANGED <<gen, jwks, age, kid, body, upset>>

\* Mutant: the cooldown is over one tick early.
CheckCooldownEarly(l) ==
  /\ pc[l] = "cooldown"
  /\ IF age + 1 < Cooldown THEN GoTo(l, "lookup_again") /\ UNCHANGED quiet
                           ELSE GoTo(l, "fetch") /\ NoteFetch
  /\ UNCHANGED <<gen, jwks, age, kid, body, upset>>

\* refresh_jwks: last_refresh is read under its lock, and the lock released before
\* the fetch.
CheckCooldown(l) ==
  /\ pc[l] = "cooldown"
  /\ IF age < Cooldown THEN GoTo(l, "lookup_again") /\ UNCHANGED quiet
                       ELSE GoTo(l, "fetch") /\ NoteFetch
  /\ UNCHANGED <<gen, jwks, age, kid, body, upset>>

\* The provider answers the fetch with what it publishes at that moment.
ServeKeys(l) ==
  /\ pc[l] = "fetch"
  /\ body' = [body EXCEPT ![l] = Published(gen)]
  /\ GoTo(l, "receive")
  /\ UNCHANGED <<gen, jwks, age, kid, upset, quiet>>

\* The request or its answer is lost, or does not parse: last_refresh stays.
FailFetch(l) ==
  /\ pc[l] \in {"fetch", "receive"}
  /\ upset.fails < MaxFails /\ upset' = [upset EXCEPT !.fails = @ + 1]
  /\ AnswerWith(l, "fetch_failed")
  /\ UNCHANGED <<gen, jwks, age, kid, body, quiet>>

\* Mutant: the fetched keys are added to the cached ones.
InstallKeysBeside(l) ==
  /\ pc[l] = "receive"
  /\ jwks' = jwks \cup body[l]
  /\ GoTo(l, "stamp")
  /\ UNCHANGED <<gen, age, kid, body, upset, quiet>>

\* Mutant: keys are never replaced by fewer or as many.
InstallKeysIfMore(l) ==
  /\ pc[l] = "receive"
  /\ jwks' = IF Cardinality(body[l]) > Cardinality(jwks) THEN body[l] ELSE jwks
  /\ GoTo(l, "stamp")
  /\ UNCHANGED <<gen, age, kid, body, upset, quiet>>

\* The fetched keys replace the cached ones, under the write lock.
InstallKeys(l) ==
  /\ pc[l] = "receive"
  /\ jwks' = body[l]
  /\ GoTo(l, "stamp")
  /\ UNCHANGED <<gen, age, kid, body, upset, quiet>>

\* Mutant: last_refresh is set to the end of the cooldown.
StampDeadline(l) ==
  /\ pc[l] = "stamp"
  /\ age' = age - Cooldown
  /\ GoTo(l, "lookup_again")
  /\ UNCHANGED <<gen, jwks, kid, body, upset, quiet>>

\* last_refresh is set, after the write lock is released.
Stamp(l) ==
  /\ pc[l] = "stamp"
  /\ age' = 0
  /\ GoTo(l, "lookup_again")
  /\ UNCHANGED <<gen, jwks, kid, body, upset, quiet>>

\* resolve_key: the second look.
LookUpAgain(l) ==
  /\ pc[l] = "lookup_again"
  /\ AnswerWith(l, IF kid[l] \in jwks THEN "resolved" ELSE "unknown_kid")
  /\ UNCHANGED <<gen, jwks, age, kid, body, upset, quiet>>

Forget(l) == /\ pc' = [pc EXCEPT ![l] = "idle"]
             /\ kid' = [kid EXCEPT ![l] = 0]
             /\ body' = [body EXCEPT ![l] = {}]
             /\ verdict' = [verdict EXCEPT ![l] = "none"]

Answer(l) == pc[l] = "answer" /\ Forget(l) /\ UNCHANGED <<gen, jwks, age, upset, quiet>>

\* The client hangs up at an await.
HangUp(l) == /\ pc[l] \in {"lookup", "fetch", "receive", "lookup_again"}
             /\ upset.hangups < MaxHangUps /\ upset' = [upset EXCEPT !.hangups = @ + 1]
             /\ Forget(l) /\ UNCHANGED <<gen, jwks, age, quiet>>

-----------------------------------------------------------------------------
(* The provider, the clock, and the process.                               *)

RotateKeys == /\ gen < MaxGen /\ gen' = gen + 1
              /\ UNCHANGED <<jwks, age, pc, kid, body, verdict, upset, quiet>>

Tick == /\ age' = CappedTick(age) /\ quiet' = CappedTick(quiet)
        /\ <<age, quiet>> # <<Cooldown, Cooldown>>
        /\ UNCHANGED <<gen, jwks, pc, kid, body, verdict, upset>>

\* discover: the keys are fetched before the first request is served, and a restart
\* forgets every login.
Boot == /\ jwks' = Published(gen) /\ age' = 0
        /\ pc' = [l \in Login |-> "idle"] /\ kid' = [l \in Login |-> 0]
        /\ body' = [l \in Login |-> {}] /\ verdict' = [l \in Login |-> "none"]
        /\ NoteFetch
        /\ UNCHANGED <<gen, upset>>

Init == /\ gen = 1 /\ jwks = Published(1) /\ age = 0
        /\ pc = [l \in Login |-> "idle"] /\ kid = [l \in Login |-> 0]
        /\ body = [l \in Login |-> {}] /\ verdict = [l \in Login |-> "none"]
        /\ upset = [fails |-> 0, hangups |-> 0, overlap |-> FALSE]
        /\ quiet = 0

Serve(l) == \/ ResolveSingleKey(l) \/ LookUp(l) \/ CheckCooldown(l) \/ ServeKeys(l)
            \/ InstallKeys(l) \/ Stamp(l) \/ LookUpAgain(l) \/ Answer(l)

Next == \/ \E l \in Login : \/ \E k \in Kid \cup {NoKid} : Begin(l, k)
                            \/ Serve(l) \/ FailFetch(l) \/ HangUp(l)
        \/ RotateKeys \/ Tick \/ Boot

Spec == Init /\ [][Next]_vars

\* The runtime polls every login that can go on, and time passes.
Fairness == WF_vars(Tick) /\ \A l \in Login : WF_vars(Serve(l))

FairSpec == Spec /\ Fairness

-----------------------------------------------------------------------------
(* Properties.                                                             *)

\* Every variable stays in its type (the cache and its logins).
TypeOK ==
  /\ gen \in 1 .. MaxGen /\ jwks \subseteq Kid /\ age \in 0 .. Cooldown
  /\ pc \in [Login -> Place] /\ kid \in [Login -> Kid \cup {NoKid}]
  /\ body \in [Login -> SUBSET Kid] /\ verdict \in [Login -> Verdict]
  /\ upset \in [fails : 0 .. MaxFails, hangups : 0 .. MaxHangUps, overlap : BOOLEAN]
  /\ quiet \in 0 .. Cooldown

\* The cache always is a key set the provider published as a whole, however the
\* fetches of overlapping logins end: no retired key outlives, beside a newer one,
\* the refresh that no longer brought it (refresh_jwks).
CacheIsOneGeneration == \E g \in 1 .. gen : jwks = Published(g)

\* .env.example:16, "Min delay between JWKS re-fetches per provider": from one fetch of
\* lone logins to the next it is a cooldown or more, across key rotations and restarts
\* (refresh_jwks).  With overlapping logins or a failed fetch it is not.
FetchesAreSpaced ==
  [][\A l \in Login : Lone /\ pc[l] = "cooldown" /\ pc'[l] = "fetch" => quiet >= Cooldown]_vars

\* oidc_validator.rs:162, "not found in JWKS ... (even after refresh)": a lone login whose
\* fetch brought the key it names is not refused for an unknown key (resolve_key).  With
\* overlapping logins it may be.
FetchedKeyIsFound ==
  Lone => \A l \in Login : verdict[l] = "unknown_kid" => kid[l] \notin body[l]

\* A key that stays published, and that logins keep naming until they are answered,
\* is in the cache for good from some time on: no stream of unknown keys, slow
\* fetch, failed fetch or restart holds it out for ever (resolve_key, refresh_jwks).
NewKeysAreLearned ==
  \A k \in 1 .. MaxGen :
    /\ <>[](k \in Published(gen))
    /\ []<>(\E l \in Login : pc[l] = "answer" /\ kid[l] = k)
    => <>[](k \in jwks)

\* A key that stays withdrawn is trusted no longer, from some time on, once logins keep
\* bringing the newest key; until one does, nothing drops it (resolve_key fetches on an
\* unknown kid only).
WithdrawnKeysAreDropped ==
  \A k \in 1 .. MaxGen :
    /\ <>[](k \notin Published(gen))
    /\ []<>(\E l \in Login : pc[l] = "answer" /\ kid[l] = gen)
    => <>[](k \notin jwks)
=============================================================================
