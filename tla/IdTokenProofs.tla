---------------------------- MODULE IdTokenProofs -----------------------------
(***************************************************************************)
(* Proofs about IdToken, for any providers with any keys and any id_token, *)
(* and the lemmas on first places that the search needs.                   *)
(***************************************************************************)
EXTENDS IdToken, WellFoundedInduction, TLAPS

-----------------------------------------------------------------------------
(* The first place of a sequence that passes a test.                       *)

\* A set of natural numbers has a least element.
LEMMA LeastExists ==
  ASSUME NEW T, T \subseteq Nat, T # {}
  PROVE  \E x \in T : \A y \in T : x <= y
<1>1. PICK x \in T : \A y \in T : <<y, x>> \notin OpToRel(<, Nat)
  BY NatLessThanWellFounded, WFMin
<1>2. \A y \in T : ~(y < x)
  BY <1>1 DEF OpToRel
<1> QED
  BY <1>2

LEMMA MinIsLeast ==
  ASSUME NEW T, T \subseteq Nat, T # {}
  PROVE  Min(T) \in T /\ \A y \in T : Min(T) <= y
<1>1. \E x \in T : \A y \in T : x <= y
  BY LeastExists
<1> QED
  BY <1>1 DEF Min

\* The route is a provider of the token's issuer, and there is one if any provider is of
\* that issuer (the loop over the providers).
LEMMA RouteFinds ==
  ASSUME NEW ps \in Seq(Provider), NEW t \in IdToken, NEW j, j = RouteOf(ps, t)
  PROVE  /\ j # 0 => j \in DOMAIN ps /\ ps[j].iss = t.iss
         /\ j = 0 => \A i \in DOMAIN ps : ps[i].iss # t.iss
<1> DEFINE T == {i \in 1 .. Len(ps) : ps[i].iss = t.iss}
<1>1. T # {} => Min(T) \in T
  <2>1. T \subseteq Nat
    OBVIOUS
  <2> QED
    BY <2>1, MinIsLeast
<1>2. j = IF T # {} THEN Min(T) ELSE 0
  BY DEF RouteOf, SelectInSeq
<1>3. DOMAIN ps = 1 .. Len(ps)
  OBVIOUS
<1> QED
  BY <1>1, <1>2, <1>3

\* The same of the key that find_key returns.
LEMMA KeyFinds ==
  ASSUME NEW keys \in Seq(Jwk), NEW kid, NEW j, j = FindKey(keys, kid)
  PROVE  /\ j # 0 => j \in DOMAIN keys /\ keys[j].kid = kid
         /\ j = 0 => \A i \in DOMAIN keys : keys[i].kid # kid
<1> DEFINE T == {i \in 1 .. Len(keys) : keys[i].kid = kid}
<1>1. T # {} => Min(T) \in T
  <2>1. T \subseteq Nat
    OBVIOUS
  <2> QED
    BY <2>1, MinIsLeast
<1>2. j = IF T # {} THEN Min(T) ELSE 0
  BY DEF FindKey, SelectInSeq
<1>3. DOMAIN keys = 1 .. Len(keys)
  OBVIOUS
<1> QED
  BY <1>1, <1>2, <1>3

\* resolve_key: a place it returns is one of the key set's; for a token with a kid the
\* key at that place has it, and there is a place if any key has it.
LEMMA ResolveFinds ==
  ASSUME NEW keys \in Seq(Jwk), NEW t \in IdToken, NEW j, j = Resolve(keys, t)
  PROVE  /\ j # 0 => j \in DOMAIN keys
         /\ j # 0 /\ t.kid # Absent => keys[j].kid = t.kid
         /\ j = 0 /\ t.kid # Absent => \A i \in DOMAIN keys : keys[i].kid # t.kid
         /\ t.kid = Absent /\ Len(keys) = 1 => j = 1
<1>1. CASE t.kid # Absent
  BY <1>1, KeyFinds DEF Resolve
<1>2. CASE t.kid = Absent
  <2>1. DOMAIN keys = 1 .. Len(keys)
    OBVIOUS
  <2> QED
    BY <1>2, <2>1 DEF Resolve
<1> QED
  BY <1>1, <1>2

-----------------------------------------------------------------------------
(* The verdict.                                                            *)

\* A signature that decodes under a provider's key is one the provider vouches for, and
\* the other way round.
LEMMA DecodesIsVouches ==
  ASSUME NEW p \in Provider, NEW k \in Jwk, NEW t \in IdToken, t.form = "jwt"
  PROVE  Decodes(p, k, t) <=> Vouches(p, k, t)
<1>1. t.alg \in Algorithm
  BY DEF IdToken
<1>2. CASE k.alg \in Algorithm
  BY <1>2 DEF Decodes, ForClient, Vouches, AlgorithmFor
<1>3. CASE k.alg \notin Algorithm
  BY <1>1, <1>3 DEF Decodes, ForClient, Vouches, AlgorithmFor
<1> QED
  BY <1>2, <1>3

\* The email is accepted exactly if the provider's token names an address, and it is a
\* claim of the token.
LEMMA EmailIsNamed ==
  ASSUME NEW p \in Provider, NEW t \in IdToken
  PROVE  /\ EmailOf(p, t).ok <=> NamesAddress(p, t)
         /\ EmailOf(p, t).ok => t[EmailOf(p, t).email] = "address"
         /\ EmailOf(p, t) # Pending
<1> DEFINE own == IF p.claim = "email" THEN t.email ELSE t.custom
<1>1. p.claim \in {"email", "custom"}
  BY DEF Provider
<1>2. /\ Accepted(p.claim).ok /\ Accepted("email").ok /\ ~Refused.ok
      /\ Accepted(p.claim).email = p.claim /\ Accepted("email").email = "email"
      /\ ~Pending.ok /\ Refused # Pending
  BY DEF Accepted, Refused, Pending
<1>3. CASE own = "address"
  BY <1>1, <1>2, <1>3 DEF EmailOf, NamesAddress
<1>4. CASE own = ""
  BY <1>1, <1>2, <1>4 DEF EmailOf, NamesAddress
<1>5. CASE own \notin {"", "address"}
  BY <1>1, <1>2, <1>5 DEF EmailOf, NamesAddress
<1> QED
  BY <1>3, <1>4, <1>5

\* The unverified issuer and kid steer the search to one provider and one of its keys,
\* and what the verdict accepts, that provider vouches for with that key.
LEMMA AcceptedIsGenuine ==
  ASSUME NEW ps \in Seq(Provider), NEW t \in IdToken, VerifyIdToken(ps, t).ok
  PROVE  \E p \in ToSet(ps) :
           /\ \E k \in ToSet(p.keys) : Vouches(p, k, t)
           /\ NamesAddress(p, t)
           /\ t[VerifyIdToken(ps, t).email] = "address"
<1>1. ~Refused.ok
  BY DEF Refused
<1>2. PICK route : route = RouteOf(ps, t)
  OBVIOUS
<1>3. t.form = "jwt" /\ route # 0
  BY <1>1, <1>2 DEF VerifyIdToken
<1>4. route \in DOMAIN ps /\ ps[route] \in Provider
  BY <1>2, <1>3, RouteFinds
<1>5. PICK p \in Provider : p = ps[route]
  BY <1>4
<1>6. PICK place : place = Resolve(p.keys, t)
  OBVIOUS
<1>7. place # 0 /\ Decodes(p, p.keys[place], t) /\ VerifyIdToken(ps, t) = EmailOf(p, t)
  BY <1>1, <1>2, <1>5, <1>6 DEF VerifyIdToken
<1>8. p.keys \in Seq(Jwk)
  BY DEF Provider
<1>9. place \in DOMAIN p.keys /\ p.keys[place] \in Jwk
  BY <1>6, <1>7, <1>8, ResolveFinds
<1>10. Vouches(p, p.keys[place], t)
  BY <1>3, <1>7, <1>9, DecodesIsVouches
<1>11. p \in ToSet(ps) /\ p.keys[place] \in ToSet(p.keys)
  BY <1>4, <1>5, <1>9 DEF ToSet
<1> QED
  BY <1>7, <1>10, <1>11, EmailIsNamed

\* No token is lost: the search comes to the provider that vouches for it, and to the key.
LEMMA GenuineIsAccepted ==
  ASSUME NEW ps \in Seq(Provider), NEW t \in IdToken, IssuersDiffer(ps),
         NEW p \in ToSet(ps), KidsDiffer(p), NamesAddress(p, t),
         NEW k \in ToSet(p.keys), Vouches(p, k, t),
         \/ t.kid # Absent /\ t.kid = k.kid
         \/ t.kid = Absent /\ Len(p.keys) = 1
  PROVE  VerifyIdToken(ps, t).ok
<1>1. PICK i \in DOMAIN ps : p = ps[i]
  BY DEF ToSet
<1>2. p \in Provider /\ p.keys \in Seq(Jwk)
  <2>1. p \in Provider
    BY <1>1
  <2> QED
    BY <2>1 DEF Provider
<1>3. PICK m \in DOMAIN p.keys : k = p.keys[m]
  BY DEF ToSet
<1>4. k \in Jwk
  BY <1>2, <1>3
<1>5. t.form = "jwt" /\ t.iss = p.iss /\ t.iss # Absent
  BY <1>2, AbsentAssumption DEF Vouches, Provider
<1>6. PICK route : route = RouteOf(ps, t)
  OBVIOUS
<1>7. route # 0 /\ ps[route] = p
  <2>1. route # 0 /\ route \in DOMAIN ps /\ ps[route].iss = ps[i].iss
    BY <1>1, <1>5, <1>6, RouteFinds
  <2> QED
    BY <1>1, <2>1 DEF IssuersDiffer
<1>8. PICK place : place = Resolve(p.keys, t)
  OBVIOUS
<1>9. place # 0 /\ p.keys[place] = k
  <2>1. CASE t.kid # Absent
    <3>1. place # 0 /\ place \in DOMAIN p.keys /\ p.keys[place].kid = p.keys[m].kid
      BY <1>2, <1>3, <1>8, <2>1, ResolveFinds
    <3> QED
      BY <1>3, <2>1, <3>1 DEF KidsDiffer
  <2>2. CASE t.kid = Absent
    <3>1. place = 1 /\ m = 1
      BY <1>2, <1>3, <1>8, <2>2, ResolveFinds
    <3> QED
      BY <1>3, <3>1
  <2> QED
    BY <2>1, <2>2
<1>10. Decodes(p, p.keys[place], t)
  BY <1>2, <1>4, <1>5, <1>9, DecodesIsVouches
<1>11. VerifyIdToken(ps, t) = EmailOf(p, t)
  BY <1>5, <1>6, <1>7, <1>8, <1>9, <1>10 DEF VerifyIdToken
<1> QED
  BY <1>2, <1>11, EmailIsNamed

-----------------------------------------------------------------------------
(* The specification.                                                      *)

\* The verdict is still to come, or it is the one the code takes.
Verdict == /\ providers \in Seq(Provider) /\ token \in IdToken
           /\ verdict \in {Pending, VerifyIdToken(providers, token)}

LEMMA VerdictHolds == Spec => []Verdict
<1>1. Init => Verdict
  BY InputAssumption DEF Init, Verdict
<1>2. Verdict /\ [Decide]_vars => Verdict'
  BY DEF Verdict, Decide, vars
<1> QED
  BY <1>1, <1>2, PTL DEF Spec

\* Whatever issuer and kid a token claims, it is accepted only if one of the providers
\* vouches for it with one of its own keys, for its own client if the token has an
\* audience, and the email is a claim of that token (verify_id_token).
THEOREM OnlyGenuineIsAccepted == Spec => []AcceptsOnlyGenuine
<1>1. Verdict => AcceptsOnlyGenuine
  BY AcceptedIsGenuine DEF Verdict, AcceptsOnlyGenuine, Pending
<1> QED
  BY <1>1, VerdictHolds, PTL

\* With a provider per issuer and a key per kid, a token that a provider vouches for with
\* the key it names, or with its only key, is accepted, whichever other providers and
\* keys there are (verify_id_token).
THEOREM EveryGenuineIsAccepted == Spec => []AcceptsEveryGenuine
<1>1. Verdict => AcceptsEveryGenuine
  BY GenuineIsAccepted DEF Verdict, AcceptsEveryGenuine
<1> QED
  BY <1>1, VerdictHolds, PTL
=============================================================================
