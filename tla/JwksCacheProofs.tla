--------------------------- MODULE JwksCacheProofs ---------------------------
(***************************************************************************)
(* Proofs about JwksCache, for any set of logins, any cooldown, and any    *)
(* number of key generations, failed fetches and clients that hang up.     *)
(***************************************************************************)
EXTENDS JwksCache, TLAPS

USE DEF Place, Verdict, Kid, NoKid

OneAtATime == \A l, m \in Busy : l = m

\* What a login holds of a fetch is a key set the provider published, and nothing
\* before it fetched.
BodyInv ==
  /\ \A l \in Login : body[l] = {} \/ \E g \in 1 .. gen : body[l] = Published(g)
  /\ \A l \in Login : pc[l] \in {"receive", "stamp"} => body[l] # {}
  /\ \A l \in Login : pc[l] \in {"idle", "lookup", "cooldown", "fetch"} => body[l] = {}

\* While logins are lone, only one is past its arrival; unless it is fetching, the
\* cooldown runs not ahead of the last fetch; and what it fetched is what is cached.
LoneInv ==
  Lone =>
    /\ OneAtATime
    /\ (\A l \in Login : pc[l] \notin {"fetch", "receive", "stamp"}) => age <= quiet
    /\ \A l \in Login : pc[l] \in {"stamp", "lookup_again"} => body[l] = {} \/ body[l] = jwks
    /\ \A l \in Login : verdict[l] = "unknown_kid" => pc[l] = "answer" /\ kid[l] \notin body[l]
    /\ \A l \in Login : verdict[l] # "none" => pc[l] = "answer"

JInv == TypeOK /\ CacheIsOneGeneration /\ BodyInv /\ LoneInv

LEMMA PublishedKeys ==
  ASSUME NEW g \in 1 .. MaxGen
  PROVE  Published(g) \subseteq Kid /\ Published(g) # {}
<1>1. g \in Published(g)
  BY JwksAssumption DEF Published
<1> QED
  BY <1>1, JwksAssumption DEF Published

LEMMA TypesStay == ASSUME TypeOK, BodyInv, Next PROVE TypeOK'
<1> USE JwksAssumption DEF TypeOK, GoTo, AnswerWith, NoteFetch
<1>1. ASSUME NEW l \in Login, NEW k \in Kid \cup {NoKid}, Begin(l, k) PROVE TypeOK'
  BY <1>1 DEF Begin
<1>2. ASSUME NEW l \in Login, ResolveSingleKey(l) PROVE TypeOK'
  BY <1>2 DEF ResolveSingleKey
<1>3. ASSUME NEW l \in Login, LookUp(l) PROVE TypeOK'
  BY <1>3 DEF LookUp
<1>4. ASSUME NEW l \in Login, CheckCooldown(l) PROVE TypeOK'
  BY <1>4 DEF CheckCooldown
<1>5. ASSUME NEW l \in Login, ServeKeys(l) PROVE TypeOK'
  <2>1. Published(gen) \subseteq Kid
    BY PublishedKeys
  <2> QED
    BY <1>5, <2>1 DEF ServeKeys
<1>6. ASSUME NEW l \in Login, FailFetch(l) PROVE TypeOK'
  BY <1>6 DEF FailFetch
<1>7. ASSUME NEW l \in Login, InstallKeys(l) PROVE TypeOK'
  BY <1>7 DEF InstallKeys
<1>8. ASSUME NEW l \in Login, Stamp(l) PROVE TypeOK'
  BY <1>8 DEF Stamp
<1>9. ASSUME NEW l \in Login, LookUpAgain(l) PROVE TypeOK'
  BY <1>9 DEF LookUpAgain
<1>10. ASSUME NEW l \in Login, Answer(l) \/ HangUp(l) PROVE TypeOK'
  BY <1>10 DEF Answer, HangUp, Forget
<1>11. ASSUME RotateKeys PROVE TypeOK'
  BY <1>11 DEF RotateKeys
<1>12. ASSUME Tick PROVE TypeOK'
  <2>1. \A n \in 0 .. Cooldown : CappedTick(n) \in 0 .. Cooldown
    BY DEF CappedTick
  <2> QED
    BY <1>12, <2>1 DEF Tick
<1>13. ASSUME Boot PROVE TypeOK'
  <2>1. Published(gen) \subseteq Kid
    BY PublishedKeys
  <2> QED
    BY <1>13, <2>1 DEF Boot
<1> QED
  BY <1>1, <1>2, <1>3, <1>4, <1>5, <1>6, <1>7, <1>8, <1>9, <1>10, <1>11, <1>12, <1>13 DEF Next, Serve

LEMMA CacheStays ==
  ASSUME TypeOK, CacheIsOneGeneration, BodyInv, Next
  PROVE  CacheIsOneGeneration' /\ BodyInv'
<1> USE JwksAssumption DEF GoTo, AnswerWith
<1>1. ASSUME NEW l \in Login, NEW k \in Kid \cup {NoKid}, Begin(l, k)
      PROVE  CacheIsOneGeneration' /\ BodyInv'
  BY <1>1 DEF Begin, TypeOK, BodyInv, CacheIsOneGeneration, Published
<1>2. ASSUME NEW l \in Login,
             ResolveSingleKey(l) \/ LookUp(l) \/ CheckCooldown(l) \/ LookUpAgain(l) \/ FailFetch(l)
      PROVE  CacheIsOneGeneration' /\ BodyInv'
  <2>1. /\ UNCHANGED <<gen, jwks, body>>
        /\ \A m \in Login : m # l => pc'[m] = pc[m]
        /\ \/ pc'[l] = "cooldown" /\ pc[l] = "lookup"
           \/ pc'[l] \in {"fetch", "lookup_again"} /\ pc[l] = "cooldown"
           \/ pc'[l] = "answer"
    BY <1>2 DEF ResolveSingleKey, LookUp, CheckCooldown, LookUpAgain, FailFetch, TypeOK
  <2> QED
    BY <2>1 DEF TypeOK, BodyInv, CacheIsOneGeneration, Published
<1>3. ASSUME NEW l \in Login, ServeKeys(l) PROVE CacheIsOneGeneration' /\ BodyInv'
  <2>1. Published(gen) # {} /\ gen \in 1 .. gen
    BY PublishedKeys DEF TypeOK
  <2> QED
    BY <1>3, <2>1 DEF ServeKeys, TypeOK, BodyInv, CacheIsOneGeneration, Published
<1>4. ASSUME NEW l \in Login, InstallKeys(l) PROVE CacheIsOneGeneration' /\ BodyInv'
  BY <1>4 DEF InstallKeys, TypeOK, BodyInv, CacheIsOneGeneration, Published
<1>5. ASSUME NEW l \in Login, Stamp(l) PROVE CacheIsOneGeneration' /\ BodyInv'
  BY <1>5 DEF Stamp, TypeOK, BodyInv, CacheIsOneGeneration, Published
<1>6. ASSUME NEW l \in Login, Answer(l) \/ HangUp(l) PROVE CacheIsOneGeneration' /\ BodyInv'
  BY <1>6 DEF Answer, HangUp, Forget, TypeOK, BodyInv, CacheIsOneGeneration, Published
<1>7. ASSUME RotateKeys PROVE CacheIsOneGeneration' /\ BodyInv'
  BY <1>7 DEF RotateKeys, TypeOK, BodyInv, CacheIsOneGeneration, Published
<1>8. ASSUME Tick PROVE CacheIsOneGeneration' /\ BodyInv'
  BY <1>8 DEF Tick, TypeOK, BodyInv, CacheIsOneGeneration, Published
<1>9. ASSUME Boot PROVE CacheIsOneGeneration' /\ BodyInv'
  BY <1>9 DEF Boot, TypeOK, BodyInv, CacheIsOneGeneration, Published
<1> QED
  BY <1>1, <1>2, <1>3, <1>4, <1>5, <1>6, <1>7, <1>8, <1>9 DEF Next, Serve

\* A step of lone logins: the one that is not idle, or the one that arrives, takes it.
LEMMA OnlyOne ==
  ASSUME LoneInv, Lone, NEW l \in Login, pc[l] # "idle"
  PROVE  \A m \in Login : m # l => pc[m] = "idle"
BY DEF LoneInv, OneAtATime, Busy

\* What is lone now was lone before: the step is not a failure, a client that hangs up,
\* or a login that arrives beside another.
LEMMA LoneBefore ==
  ASSUME TypeOK, Next, Lone'
  PROVE  /\ Lone
         /\ \A l \in Login : ~FailFetch(l) /\ ~HangUp(l)
         /\ \A l \in Login, k \in Kid \cup {NoKid} : Begin(l, k) => Busy = {}
<1> DEFINE Upset == [fails : 0 .. MaxFails, hangups : 0 .. MaxHangUps, overlap : BOOLEAN]
<1>1. upset \in Upset
  BY DEF TypeOK
<1>2. ASSUME NEW l \in Login, NEW k \in Kid \cup {NoKid}, Begin(l, k)
      PROVE  Lone /\ Busy = {}
  <2>1. upset' = [upset EXCEPT !.overlap = upset.overlap \/ Busy # {}]
    BY <1>2 DEF Begin
  <2>2. (upset.overlap \/ Busy # {}) = FALSE
    <3>1. upset'.overlap = (upset.overlap \/ Busy # {})
      BY <1>1, <2>1
    <3> QED
      BY <3>1 DEF Lone
  <2>3. upset.overlap = FALSE /\ Busy = {}
    BY <1>1, <2>2
  <2>4. upset.fails = 0 /\ upset.hangups = 0
    BY <1>1, <2>1 DEF Lone
  <2> QED
    BY <1>1, <2>3, <2>4 DEF Lone
<1>3. ASSUME NEW l \in Login, FailFetch(l) PROVE FALSE
  <2>1. upset.fails \in Nat /\ upset'.fails = upset.fails + 1
    BY <1>1, <1>3, JwksAssumption DEF FailFetch
  <2> QED
    BY <2>1 DEF Lone
<1>4. ASSUME NEW l \in Login, HangUp(l) PROVE FALSE
  <2>1. upset.hangups \in Nat /\ upset'.hangups = upset.hangups + 1
    BY <1>1, <1>4, JwksAssumption DEF HangUp
  <2> QED
    BY <2>1 DEF Lone
<1>5. CASE UNCHANGED upset
  BY <1>2, <1>3, <1>4, <1>5 DEF Lone
<1>6. \/ UNCHANGED upset
      \/ \E l \in Login : \/ FailFetch(l) \/ HangUp(l)
                          \/ \E k \in Kid \cup {NoKid} : Begin(l, k)
  BY DEF Next, Serve, ResolveSingleKey, LookUp, CheckCooldown, ServeKeys, InstallKeys, Stamp,
         LookUpAgain, Answer, RotateKeys, Tick, Boot
<1> QED
  BY <1>2, <1>3, <1>4, <1>5, <1>6

LEMMA LoneStays ==
  ASSUME TypeOK, TypeOK', BodyInv, BodyInv', LoneInv, Next
  PROVE  LoneInv'
<1> SUFFICES ASSUME Lone' PROVE LoneInv'
  BY DEF LoneInv
<1>0. Lone
  BY LoneBefore
<1> USE <1>0, JwksAssumption DEF GoTo, AnswerWith, NoteFetch, TypeOK, OneAtATime, Busy
<1>1. ASSUME NEW l \in Login, NEW k \in Kid \cup {NoKid}, Begin(l, k) PROVE LoneInv'
  <2>1. Busy = {}
    BY <1>1, LoneBefore
  <2> QED
    BY <1>1, <2>1 DEF Begin, LoneInv
<1>2. ASSUME NEW l \in Login, ResolveSingleKey(l) PROVE LoneInv'
  BY <1>2, OnlyOne DEF ResolveSingleKey, LoneInv
<1>3. ASSUME NEW l \in Login, LookUp(l) PROVE LoneInv'
  BY <1>3, OnlyOne DEF LookUp, LoneInv
<1>4. ASSUME NEW l \in Login, CheckCooldown(l) PROVE LoneInv'
  BY <1>4, OnlyOne DEF CheckCooldown, LoneInv, BodyInv
<1>5. ASSUME NEW l \in Login, ServeKeys(l) PROVE LoneInv'
  BY <1>5, OnlyOne DEF ServeKeys, LoneInv
<1>6. ASSUME NEW l \in Login, InstallKeys(l) PROVE LoneInv'
  BY <1>6, OnlyOne DEF InstallKeys, LoneInv
<1>7. ASSUME NEW l \in Login, Stamp(l) PROVE LoneInv'
  BY <1>7, OnlyOne DEF Stamp, LoneInv
<1>8. ASSUME NEW l \in Login, LookUpAgain(l) PROVE LoneInv'
  BY <1>8, OnlyOne DEF LookUpAgain, LoneInv
<1>9. ASSUME NEW l \in Login, Answer(l) PROVE LoneInv'
  BY <1>9, OnlyOne DEF Answer, Forget, LoneInv
<1>10. ASSUME RotateKeys PROVE LoneInv'
  BY <1>10 DEF RotateKeys, LoneInv
<1>11. ASSUME Tick PROVE LoneInv'
  BY <1>11 DEF Tick, CappedTick, LoneInv
<1>12. ASSUME Boot PROVE LoneInv'
  BY <1>12 DEF Boot, LoneInv
<1> QED
  BY <1>1, <1>2, <1>3, <1>4, <1>5, <1>6, <1>7, <1>8, <1>9, <1>10, <1>11, <1>12,
     LoneBefore DEF Next, Serve

\* The inductive invariant.
THEOREM Invariant == Spec => []JInv
<1>1. Init => JInv
  <2> SUFFICES ASSUME Init PROVE JInv
    OBVIOUS
  <2>1. Published(1) \subseteq Kid /\ Published(1) # {}
    BY PublishedKeys, JwksAssumption
  <2> QED
    BY <2>1, JwksAssumption DEF Init, JInv, TypeOK, CacheIsOneGeneration, BodyInv,
                                LoneInv, Lone, OneAtATime, Busy
<1>2. JInv /\ [Next]_vars => JInv'
  <2> SUFFICES ASSUME JInv, [Next]_vars PROVE JInv'
    OBVIOUS
  <2>1. CASE Next
    BY <2>1, TypesStay, CacheStays, LoneStays DEF JInv
  <2>2. CASE UNCHANGED vars
    BY <2>2 DEF vars, JInv, TypeOK, CacheIsOneGeneration, BodyInv, LoneInv,
                Lone, OneAtATime, Busy, Published
  <2> QED
    BY <2>1, <2>2
<1> QED
  BY <1>1, <1>2, PTL DEF Spec

\* Every variable stays in its type (JwksCache).
THEOREM TypesHold == Spec => []TypeOK
BY Invariant, PTL DEF JInv

\* The cache always is one key set of the provider (refresh_jwks).
THEOREM CacheStaysWhole == Spec => []CacheIsOneGeneration
BY Invariant, PTL DEF JInv

\* Fetches of lone logins are a cooldown apart (refresh_jwks, .env.example:16).
THEOREM LoneFetchesAreSpaced == Spec => FetchesAreSpaced
<1> DEFINE Spaced(l) == Lone /\ pc[l] = "cooldown" /\ pc'[l] = "fetch" => quiet >= Cooldown
<1>1. JInv /\ [Next]_vars => [\A l \in Login : Spaced(l)]_vars
  <2> SUFFICES ASSUME JInv, Next, NEW l \in Login,
                      Lone, pc[l] = "cooldown", pc'[l] = "fetch"
               PROVE  quiet >= Cooldown
    BY DEF vars
  <2> USE DEF JInv, TypeOK, GoTo, AnswerWith
  <2>1. CheckCooldown(l)
    BY DEF Next, Serve, Begin, ResolveSingleKey, LookUp, CheckCooldown, ServeKeys, FailFetch,
           InstallKeys, Stamp, LookUpAgain, Answer, HangUp, Forget, RotateKeys, Tick, Boot
  <2>2. age >= Cooldown
    BY <2>1, JwksAssumption DEF CheckCooldown
  <2>3. \A m \in Login : pc[m] \notin {"fetch", "receive", "stamp"}
    BY OnlyOne
  <2> QED
    BY <2>2, <2>3, JwksAssumption DEF LoneInv
<1> QED
  BY <1>1, Invariant, PTL DEF Spec, FetchesAreSpaced

\* A lone login finds the key its fetch brought (resolve_key).
THEOREM LoneFetchesAreFound == Spec => []FetchedKeyIsFound
<1>1. JInv => FetchedKeyIsFound
  BY DEF JInv, LoneInv, FetchedKeyIsFound
<1> QED
  BY <1>1, Invariant, PTL
=============================================================================
