------------------------------- MODULE IdToken -------------------------------
(***************************************************************************)
(* The decision POST /auth/token takes on an id_token                      *)
(* (oidc_validator.rs, token.rs): the unverified issuer selects a          *)
(* provider, the header's kid a key of its key set, and only then is       *)
(* anything verified.  One state per input, one step to the verdict.  The  *)
(* key set is the one resolve_key ends with: module JwksCache has the      *)
(* fetching.                                                               *)
(*                                                                         *)
(* A signature is the name of the private key that made it.  Claims are    *)
(* kept as far as a check tells them apart.                                *)
(***************************************************************************)
EXTENDS Naturals, Sequences, SequencesExt

CONSTANTS Absent,    \* a claim, or a field, that is not there
          Issuer, Client, Kid,
          Signer,    \* private keys
          Providers, \* the sequences of providers to decide with
          IdTokens   \* the id_tokens to decide on

ASSUME AbsentAssumption == Absent \notin Issuer \cup Kid

VARIABLES providers, token, verdict

vars == <<providers, token, verdict>>

\* RS256 and PS256 are of one family of keys, ES256 of another.
Family(alg) == IF alg = "ES256" THEN "EC" ELSE "RSA"
Algorithm == {"RS256", "PS256", "ES256"}

\* A JWK names its algorithm, or none, or one that signs nothing.
Jwk == [kid : Kid \cup {Absent}, alg : Algorithm \cup {Absent, "RSA-OAEP"},
        family : {"RSA", "EC"}, signer : Signer]

Provider == [iss : Issuer, client : Client, claim : {"email", "custom"}, keys : Seq(Jwk)]

\* The values of a claim that is to be an email.
ClaimValue == {Absent, "no string", "", "address"}

\* A token may name any number of audiences, or have no such claim.
IdToken == [form : {"jwt", "not a jwt"}, iss : Issuer \cup {Absent}, kid : Kid \cup {Absent},
            alg : Algorithm, signer : Signer, aud : {Absent} \cup SUBSET Client,
            expired : BOOLEAN, email : ClaimValue, custom : ClaimValue]

ASSUME InputAssumption == Providers \subseteq Seq(Provider) /\ IdTokens \subseteq IdToken

Accepted(source) == [ok |-> TRUE, email |-> source]
Refused == [ok |-> FALSE, email |-> "nowhere"]
Pending == [ok |-> FALSE, email |-> "pending"]

-----------------------------------------------------------------------------
\* The first provider whose issuer is the token's; 0 for none.
RouteOf(ps, t) == SelectInSeq(ps, LAMBDA p : p.iss = t.iss)

\* find_key: the first key with the kid.
FindKey(keys, kid) == SelectInSeq(keys, LAMBDA k : k.kid = kid)

\* resolve_key, or resolve_single_key for a token without a kid: its place, or 0.
Resolve(keys, t) == IF t.kid # Absent THEN FindKey(keys, t.kid)
                    ELSE IF Len(keys) = 1 THEN 1 ELSE 0

\* Mutant: a key that names no signing algorithm is not used.
AlgorithmStrict(k, t) == k.alg

\* The key's algorithm if it names one that signs, else the token's.
AlgorithmFor(k, t) == IF k.alg \in Algorithm THEN k.alg ELSE t.alg

\* Mutant: the audience is not set, so that it is not checked.
DecodesForAnyone(p, k, t) ==
  LET alg == AlgorithmFor(k, t) IN
    /\ Family(alg) = k.family /\ t.alg = alg /\ t.signer = k.signer
    /\ ~t.expired

\* The audience is checked against the provider's client if the token has one: the
\* validation sets it, but does not require the claim.
ForClient(p, t) == t.aud = Absent \/ p.client \in t.aud

\* jsonwebtoken::decode with the provider's issuer and client.
Decodes(p, k, t) ==
  LET alg == AlgorithmFor(k, t) IN
    /\ Family(alg) = k.family /\ t.alg = alg /\ t.signer = k.signer
    /\ ~t.expired /\ t.iss = p.iss /\ ForClient(p, t)

\* extract_email_from_payload: a string in the provider's claim counts even if it is
\* empty, and only a claim that is no string falls back to "email".
EmailOf(p, t) ==
  LET own == IF p.claim = "email" THEN t.email ELSE t.custom IN
    CASE own = "address" -> Accepted(p.claim)
      [] own = "" -> Refused
      [] OTHER -> IF t.email = "address" THEN Accepted("email") ELSE Refused

\* verify_id_token.
VerifyIdToken(ps, t) ==
  LET route == RouteOf(ps, t) IN
    IF t.form # "jwt" \/ t.iss = Absent \/ route = 0 THEN Refused
    ELSE LET p == ps[route]
             place == Resolve(p.keys, t)
         IN IF place = 0 \/ ~Decodes(p, p.keys[place], t) THEN Refused ELSE EmailOf(p, t)

-----------------------------------------------------------------------------
Init == providers \in Providers /\ token \in IdTokens /\ verdict = Pending

Decide == /\ verdict = Pending
          /\ verdict' = VerifyIdToken(providers, token)
          /\ UNCHANGED <<providers, token>>

Spec == Init /\ [][Decide]_vars

-----------------------------------------------------------------------------
(* What the decision has to be, with no regard to how a provider and a key *)
(* are found.                                                              *)

\* Provider p vouches for the token with its key k, and for its own client unless the
\* token names no audience.
Vouches(p, k, t) ==
  /\ t.form = "jwt" /\ p.iss = t.iss /\ ~t.expired
  /\ t.aud # Absent => p.client \in t.aud
  /\ k.signer = t.signer /\ k.family = Family(t.alg)
  /\ k.alg \in Algorithm => k.alg = t.alg

\* The address a provider's token carries, if it carries one.
NamesAddress(p, t) ==
  \/ p.claim = "custom" /\ t.custom = "address"
  \/ (p.claim = "email" \/ t.custom # "") /\ t.email = "address"

KidsDiffer(p) == \A i, j \in DOMAIN p.keys :
                   p.keys[i].kid = p.keys[j].kid => i = j \/ p.keys[i].kid = Absent

IssuersDiffer(ps) == \A i, j \in DOMAIN ps : ps[i].iss = ps[j].iss => i = j

\* Whatever the unverified issuer and kid of a token steer the search to, a token is
\* accepted only if one provider vouches for it, as a whole, with one of its own keys
\* (for its own client, if the token has an audience), and the email is a claim of that
\* token (verify_id_token).
AcceptsOnlyGenuine ==
  verdict.ok =>
    \E p \in ToSet(providers) :
      /\ \E k \in ToSet(p.keys) : Vouches(p, k, token)
      /\ NamesAddress(p, token)
      /\ token[verdict.email] = "address"

\* The search loses no token: with a provider per issuer and a key per kid, a token
\* that a provider vouches for with the key it names, or with its only key, is
\* accepted, whichever other providers and keys there are (verify_id_token).
AcceptsEveryGenuine ==
  /\ verdict # Pending /\ IssuersDiffer(providers)
  /\ \E p \in ToSet(providers) :
       /\ KidsDiffer(p) /\ NamesAddress(p, token)
       /\ \E k \in ToSet(p.keys) :
            /\ Vouches(p, k, token)
            /\ \/ token.kid # Absent /\ token.kid = k.kid
               \/ token.kid = Absent /\ Len(p.keys) = 1
  => verdict.ok
=============================================================================
