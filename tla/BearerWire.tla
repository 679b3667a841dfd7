----------------------------- MODULE BearerWire -----------------------------
(***************************************************************************)
(* The sealed bearer of crate br-auth-contract: what its publisher writes  *)
(* under a token's key of the bucket PUBLISHED_LANGUAGE, and what opens it. *)
(*                                                                         *)
(* Cryptography is ideal.  The hash of a token stands for the token alone, *)
(* so a token is its own hash; a ciphertext is the record of what went into *)
(* it, which opens under the same key and the same associated data, if it  *)
(* was not altered.                                                        *)
(***************************************************************************)
CONSTANTS Human, Service  \* bearer entries whose actor is a human, a service account

Entry == Human \cup Service

\* Bytes that are no JSON entry, or one with fields the entry does not have.
Garbage == "garbage"

ASSUME ActorAssumption == Human \cap Service = {} /\ Garbage \notin Entry

\* The bucket's keys: a prefix per kind of entry, then the hash.
BearerKey(token) == <<"identity/bearer_tokens/", token>>

\* seal: the plaintext under the key, with the token's hash as associated data.
Seal(key, token, plain) ==
  [nonce |-> "12 bytes", base64 |-> TRUE, key |-> key, aad |-> token,
   plain |-> plain, intact |-> TRUE]

Opened(entry) == [ok |-> TRUE, entry |-> entry, error |-> "none"]
Refused(error) == [ok |-> FALSE, entry |-> Garbage, error |-> error]

\* Mutant: the associated data is left out on both sides.
OpenUnbound(key, token, sealed) ==
  IF sealed.key = key /\ sealed.intact /\ sealed.plain \in Entry
  THEN Opened(sealed.plain) ELSE Refused("AeadFailed")

\* Mutant: the plaintext is taken as it comes.
OpenLax(key, token, sealed) ==
  IF /\ sealed.nonce = "12 bytes" /\ sealed.base64
     /\ sealed.key = key /\ sealed.aad = token /\ sealed.intact
  THEN Opened(sealed.plain) ELSE Refused("AeadFailed")

\* open: its checks, in the order of the code.
Open(key, token, sealed) ==
  IF sealed.nonce = "not base64" THEN Refused("NonceNotBase64")
  ELSE IF sealed.nonce = "other length" THEN Refused("InvalidNonceLength")
  ELSE IF ~sealed.base64 THEN Refused("CiphertextNotBase64")
  ELSE IF sealed.key # key \/ sealed.aad # token \/ ~sealed.intact THEN Refused("AeadFailed")
  ELSE IF sealed.plain \notin Entry THEN Refused("Deserialize")
  ELSE Opened(sealed.plain)

\* What an operator's hand, or another program, may leave of a sealed value.
Damaged(sealed) ==
  {[sealed EXCEPT !.intact = FALSE], [sealed EXCEPT !.nonce = "other length"],
   [sealed EXCEPT !.nonce = "not base64"], [sealed EXCEPT !.base64 = FALSE],
   [sealed EXCEPT !.plain = Garbage]}
=============================================================================
