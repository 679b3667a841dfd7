----------------------------- MODULE Conformance ----------------------------
(***************************************************************************)
(* The conformance kit of the bearer contract (crate                       *)
(* br-auth-conformance-test): nine checks that hold the library            *)
(* br-auth-contract against an independent implementation in Go, the       *)
(* anchor, and against the real fabric.  The kit is there to notice a      *)
(* drift; the model asks which drifts it notices.  A world says how the    *)
(* library, the anchor and the fabric behave, each possibly drifted from   *)
(* the contract, and a run of the full battery judges it, one check after  *)
(* the other.                                                              *)
(*                                                                         *)
(* Cryptography is ideal, as in BearerWire.  An implementation that does   *)
(* not verify the tag binds no associated data either: the tag is what     *)
(* binds it.                                                               *)
(***************************************************************************)
EXTENDS Naturals, Sequences

VARIABLES world,   \* how the three parties behave
          at,      \* the check that runs next
          failed,  \* the checks that have failed
          end      \* the battery is running, was aborted by an error, or has reported

vars == <<world, at, failed, end>>

\* The two tokens and the two entries of the fixture.
TOKEN == "alpha"
OTHER_TOKEN == "beta"
Tokens == {TOKEN, OTHER_TOKEN}
human_entry == "human"
service_entry == "service"
Entries == {human_entry, service_entry}

Garbled == "garbled"

\* The library and the anchor: cipher, associated data, whether the tag is verified,
\* the shape of a bearer's key.  Only the library reads entries and envelopes.
Codec == [cipher : {"chacha20poly1305", "another"}, aad : {"hash", "nothing"},
          tag : BOOLEAN, key : {"prefix hash", "elsewhere", "prefix token"}]
Library == [codec : Codec, decodes : {"faithfully", "services as humans"},
            fields : {"nonce ciphertext", "renamed"}, closed : BOOLEAN]

\* The bucket: whether values pass unchanged, a reader's prefix keeps other keys out,
\* and a value that does not decode fails the scan.
Bucket == [keeps : BOOLEAN, scoped : BOOLEAN, strict : BOOLEAN]

World == [lib : Library, go : Codec, bucket : Bucket]

-----------------------------------------------------------------------------
(* What the parties do.                                                    *)

AadOf(codec, token) == IF codec.aad = "hash" THEN token ELSE "nothing"

KeyOf(codec, token) == <<codec.key, token>>

Seal(codec, token, plain) ==
  [cipher |-> codec.cipher, aad |-> AadOf(codec, token), plain |-> plain, intact |-> TRUE]

\* The plaintext, or "refused".  With no tag to fail, an altered ciphertext opens into
\* an altered plaintext.
Open(codec, token, sealed) ==
  IF \/ sealed.cipher # codec.cipher
     \/ codec.tag /\ (~sealed.intact \/ sealed.aad # AadOf(codec, token))
  THEN "refused"
  ELSE IF sealed.intact THEN sealed.plain ELSE Garbled

\* The library opens into an entry: a plaintext that is no entry's JSON is refused.
LibSeal(token, entry) == Seal(world.lib.codec, token, entry)
LibOpen(token, sealed) ==
  LET plain == Open(world.lib.codec, token, sealed) IN
    IF plain \in {"refused", Garbled} THEN "refused"
    ELSE IF world.lib.decodes = "services as humans" THEN human_entry
    ELSE plain

GoSeal(token, entry) == Seal(world.go, token, entry)
GoOpen(token, sealed) == Open(world.go, token, sealed)

\* The library type reads what the anchor prints for every seal: a renamed field is an
\* error of the anchor call, in whichever check makes it first.
AnchorSeals == world.lib.fields = "nonce ciphertext"

Tampered(sealed) == [sealed EXCEPT !.intact = FALSE]

-----------------------------------------------------------------------------
(* The checks: each passes, fails, or is an error that ends the battery.   *)

Verdict(passes) == IF passes THEN "pass" ELSE "fail"
WithAnchorSeal(verdict) == IF AnchorSeals THEN verdict ELSE "error"

go_seal_opens_through_lib ==
  WithAnchorSeal(Verdict(\A e \in Entries : LibOpen(TOKEN, GoSeal(TOKEN, e)) = e))

\* What the library seals is handed to the anchor under the library's field names, and
\* what the anchor cannot read it refuses.
rust_seal_opens_in_go ==
  Verdict(AnchorSeals /\ \A e \in Entries : GoOpen(TOKEN, LibSeal(TOKEN, e)) = e)

\* The shape is looked at too: what both derive may be wrong in both.
kv_key_agrees ==
  Verdict(/\ KeyOf(world.go, TOKEN) = KeyOf(world.lib.codec, TOKEN)
          /\ world.lib.codec.key = "prefix hash")

sealed_wire_deserializes == WithAnchorSeal(Verdict(world.lib.closed))

tampered_ciphertext_fails ==
  LET sealed == Tampered(GoSeal(TOKEN, human_entry)) IN
    WithAnchorSeal(Verdict(/\ LibOpen(TOKEN, sealed) = "refused"
                           /\ GoOpen(TOKEN, sealed) = "refused"))

\* Mutant: only the anchor is asked to refuse.
relocated_seal_fails_in_go ==
  WithAnchorSeal(Verdict(GoOpen(OTHER_TOKEN, GoSeal(TOKEN, human_entry)) = "refused"))

relocated_seal_fails ==
  LET sealed == GoSeal(TOKEN, human_entry) IN
    WithAnchorSeal(Verdict(/\ LibOpen(OTHER_TOKEN, sealed) = "refused"
                           /\ GoOpen(OTHER_TOKEN, sealed) = "refused"))

\* A reader of the bearer prefix sees the keys the library derives.
UnderPrefix == world.lib.codec.key # "elsewhere"

\* The human's bearer under one token, the service account's under the other.
rides_published_language_consumer ==
  WithAnchorSeal(Verdict(
    /\ world.bucket.keeps /\ UnderPrefix
    /\ LibOpen(TOKEN, GoSeal(TOKEN, human_entry)) = human_entry
    /\ LibOpen(OTHER_TOKEN, GoSeal(OTHER_TOKEN, service_entry)) = service_entry))

\* The first reader to see a key of the other prefix fails the check.
directory_prefix_ignores_bearer == WithAnchorSeal(Verdict(world.bucket.scoped /\ UnderPrefix))

undecodable_bearer_value_fails_closed == Verdict(world.bucket.strict)

-----------------------------------------------------------------------------
(* The battery.                                                            *)

\* In the order of run_wire_battery and run_full_battery.
Battery == <<"x1", "x2", "x3", "x4", "n1", "n2", "k1", "k2", "k3">>

Outcome(check) ==
  CASE check = "x1" -> go_seal_opens_through_lib
    [] check = "x2" -> rust_seal_opens_in_go
    [] check = "x3" -> kv_key_agrees
    [] check = "x4" -> sealed_wire_deserializes
    [] check = "n1" -> tampered_ciphertext_fails
    [] check = "n2" -> relocated_seal_fails
    [] check = "k1" -> rides_published_language_consumer
    [] check = "k2" -> directory_prefix_ignores_bearer
    [] check = "k3" -> undecodable_bearer_value_fails_closed

\* A failed check is reported and the battery goes on; an error ends it.
RunCheck ==
  /\ end = "running" /\ at <= Len(Battery)
  /\ LET outcome == Outcome(Battery[at]) IN
       /\ failed' = IF outcome = "fail" THEN failed \cup {Battery[at]} ELSE failed
       /\ end' = IF outcome = "error" THEN "error" ELSE end
  /\ at' = at + 1
  /\ UNCHANGED world

Report ==
  /\ end = "running" /\ at > Len(Battery)
  /\ end' = "reported"
  /\ UNCHANGED <<world, at, failed>>

is_conformant == end = "reported" /\ failed = {}

Init == world \in World /\ at = 1 /\ failed = {} /\ end = "running"

Next == RunCheck \/ Report

Spec == Init /\ [][Next]_vars

-----------------------------------------------------------------------------
(* What the battery is there to ensure.                                    *)

\* Each side opens what either side sealed, and nothing that was altered or moved.
Interoperable ==
  \A t, u \in Tokens, e \in Entries :
    LET sealed == {GoSeal(t, e), LibSeal(t, e)} IN
      /\ {LibOpen(u, s) : s \in sealed} = {IF t = u THEN e ELSE "refused"}
      /\ {GoOpen(u, s) : s \in sealed} = {IF t = u THEN e ELSE "refused"}
      /\ {LibOpen(u, Tampered(s)) : s \in sealed} = {"refused"}
      /\ {GoOpen(u, Tampered(s)) : s \in sealed} = {"refused"}

\* The bearer's envelope and its place in the bucket are the contract's.
InPlace ==
  /\ world.lib.fields = "nonce ciphertext" /\ world.lib.closed
  /\ \A t \in Tokens : KeyOf(world.go, t) = KeyOf(world.lib.codec, t)
  /\ world.lib.codec.key = "prefix hash"
  /\ world.bucket = [keeps |-> TRUE, scoped |-> TRUE, strict |-> TRUE]

\* The battery decides: when it has ended, it has found the three parties conformant if
\* and only if they interoperate, for both kinds of actor, both tokens and in both
\* directions, although no check tries every case and a tampered seal alone does not
\* show a library that leaves the tag unverified (run_full_battery, is_conformant).
BatteryDecides ==
  end # "running" => (is_conformant <=> Interoperable /\ InPlace)
=============================================================================
