------------------------------ MODULE MCIdToken ------------------------------
(* The providers and the id_tokens that TLC decides on.                    *)
EXTENDS IdToken

CONSTANTS i1, i2, c1, c2, k1, k2, s1, s2

\* A provider of issuer i1 with up to two keys, of either family, before or after one
\* of issuer i2, or of i1 again for another client, with one key that has no algorithm.
OwnKeys == [kid : {k1, k2, Absent}, alg : {"RS256", Absent, "RSA-OAEP"}, family : {"RSA"},
            signer : {s1}]
             \cup {[kid |-> k1, alg |-> "ES256", family |-> "EC", signer |-> s1]}
KeySets == {<<>>} \cup [1 .. 1 -> OwnKeys] \cup [1 .. 2 -> OwnKeys]
MCProviders ==
  {IF first THEN <<p, q>> ELSE <<q, p>> :
     p \in [iss : {i1}, client : {c1}, claim : {"custom"}, keys : KeySets],
     q \in [iss : {i1, i2}, client : {c2}, claim : {"email"},
            keys : {<<[kid |-> k1, alg |-> Absent, family |-> "RSA", signer |-> s2]>>}],
     first \in BOOLEAN}

\* Every token of two signing algorithms, and some that no check can accept.
MCIdTokens ==
  [form : {"jwt"}, iss : {i1, i2}, kid : {k1, k2, Absent}, alg : {"RS256", "PS256"},
   signer : {s1, s2}, aud : {Absent, {}, {c1}, {c2}, {c1, c2}},
   expired : {FALSE}, email : {Absent, "address"}, custom : ClaimValue]
    \cup [form : {"jwt", "not a jwt"}, iss : {i1, Absent}, kid : {k1}, alg : {"ES256"},
          signer : {s1}, aud : {{c1}}, expired : BOOLEAN,
          email : {"address"}, custom : {Absent}]
=============================================================================
