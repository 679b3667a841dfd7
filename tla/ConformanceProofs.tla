-------------------------- MODULE ConformanceProofs --------------------------
(***************************************************************************)
(* The battery of Conformance decides: proved from what the world is, with *)
(* no enumeration of the worlds.                                           *)
(***************************************************************************)
EXTENDS Conformance, TLAPS

-----------------------------------------------------------------------------
(* What the parties must be.                                               *)

Sealed == [cipher : {"chacha20poly1305", "another"}, aad : Tokens \cup {"nothing"},
           plain : Entries, intact : BOOLEAN]

\* What codec c sealed for t opens by codec d for u.
Opens(c, t, d, u) == c.cipher = d.cipher /\ (d.tag = TRUE => AadOf(c, t) = AadOf(d, u))

LEMMA SealFields ==
  ASSUME NEW c \in Codec, NEW t \in Tokens, NEW e \in Entries
  PROVE  /\ Seal(c, t, e) \in Sealed
         /\ Seal(c, t, e).cipher = c.cipher /\ Seal(c, t, e).aad = AadOf(c, t)
         /\ Seal(c, t, e).plain = e /\ Seal(c, t, e).intact = TRUE
BY DEF Seal, Sealed, AadOf, Codec

LEMMA TamperedFields ==
  ASSUME NEW s \in Sealed
  PROVE  /\ Tampered(s) \in Sealed
         /\ Tampered(s).cipher = s.cipher /\ Tampered(s).aad = s.aad
         /\ Tampered(s).intact = FALSE
BY DEF Tampered, Sealed

\* The three ways of Open.
LEMMA OpenIs ==
  ASSUME NEW d \in Codec, NEW u \in Tokens, NEW s \in Sealed
  PROVE  /\ \/ s.cipher # d.cipher
            \/ d.tag = TRUE /\ (s.intact = FALSE \/ s.aad # AadOf(d, u))
            => Open(d, u, s) = "refused"
         /\ /\ s.cipher = d.cipher /\ s.intact = TRUE
            /\ d.tag = FALSE \/ s.aad = AadOf(d, u)
            => Open(d, u, s) = s.plain
         /\ s.cipher = d.cipher /\ s.intact = FALSE /\ d.tag = FALSE => Open(d, u, s) = Garbled
<1>1. d.tag \in BOOLEAN /\ s.intact \in BOOLEAN
  BY DEF Codec, Sealed
<1>2. CASE d.tag = TRUE /\ s.intact = TRUE
  BY <1>2, Zenon DEF Open
<1>3. CASE d.tag = FALSE /\ s.intact = TRUE
  BY <1>3, Zenon DEF Open
<1>4. CASE d.tag = TRUE /\ s.intact = FALSE
  BY <1>4, Zenon DEF Open
<1>5. CASE d.tag = FALSE /\ s.intact = FALSE
  BY <1>5, Zenon DEF Open
<1> QED
  BY <1>1, <1>2, <1>3, <1>4, <1>5

\* Open takes back what was sealed for the same token by the same means.
LEMMA OpenSealed ==
  ASSUME NEW c \in Codec, NEW d \in Codec, NEW t \in Tokens, NEW u \in Tokens, NEW e \in Entries
  PROVE  /\ Opens(c, t, d, u) => Open(d, u, Seal(c, t, e)) = e
         /\ ~Opens(c, t, d, u) => Open(d, u, Seal(c, t, e)) = "refused"
<1>1. PICK s \in Sealed : /\ s = Seal(c, t, e)
                          /\ s.cipher = c.cipher /\ s.aad = AadOf(c, t)
                          /\ s.plain = e /\ s.intact = TRUE
  BY SealFields, Zenon
<1>3. /\ Opens(c, t, d, u) => Open(d, u, s) = e
      /\ ~Opens(c, t, d, u) => Open(d, u, s) = "refused"
  <2>1. CASE c.cipher = d.cipher /\ (d.tag = TRUE => AadOf(c, t) = AadOf(d, u))
    <3>1. Open(d, u, s) = s.plain
      <4>1. d.tag \in BOOLEAN
        BY DEF Codec
      <4>2. d.tag = FALSE \/ s.aad = AadOf(d, u)
        BY <1>1, <2>1, <4>1
      <4>3. s.cipher = d.cipher /\ s.intact = TRUE
        BY <1>1, <2>1
      <4> QED
        BY <4>2, <4>3, OpenIs, Zenon
    <3> QED
      BY <1>1, <2>1, <3>1, Zenon DEF Opens
  <2>2. CASE c.cipher # d.cipher \/ (d.tag = TRUE /\ AadOf(c, t) # AadOf(d, u))
    <3>1. Open(d, u, s) = "refused"
      BY <1>1, <2>2, OpenIs
    <3> QED
      BY <2>2, <3>1, Zenon DEF Opens
  <2> QED
    BY <2>1, <2>2
<1> QED
  BY <1>1, <1>3, Zenon

\* What was altered opens into what is no entry, if it opens at all.
LEMMA OpenTampered ==
  ASSUME NEW c \in Codec, NEW d \in Codec, NEW t \in Tokens, NEW u \in Tokens, NEW e \in Entries
  PROVE  Open(d, u, Tampered(Seal(c, t, e))) =
           IF c.cipher = d.cipher /\ d.tag = FALSE THEN Garbled ELSE "refused"
<1>1. PICK s \in Sealed : s = Seal(c, t, e) /\ s.cipher = c.cipher
  BY SealFields, Zenon
<1>2. PICK m \in Sealed : m = Tampered(s) /\ m.cipher = c.cipher /\ m.intact = FALSE
  <2>1. Tampered(s) \in Sealed /\ Tampered(s).cipher = s.cipher /\ Tampered(s).intact = FALSE
    BY TamperedFields, Zenon
  <2>2. Tampered(s).cipher = c.cipher
    BY <1>1, <2>1
  <2> QED
    BY <2>1, <2>2, Zenon
<1>3. d.tag \in BOOLEAN
  BY DEF Codec
<1>4. CASE c.cipher = d.cipher /\ d.tag = FALSE
  BY <1>1, <1>2, <1>4, OpenIs
<1>5. CASE c.cipher # d.cipher \/ d.tag = TRUE
  BY <1>1, <1>2, <1>5, OpenIs
<1> QED
  BY <1>3, <1>4, <1>5

-----------------------------------------------------------------------------
(* What the library opens.                                                 *)

LEMMA Worlds ==
  ASSUME world \in World
  PROVE  /\ world.lib.codec \in Codec /\ world.go \in Codec
         /\ world.lib.decodes \in {"faithfully", "services as humans"}
         /\ world.lib.fields \in {"nonce ciphertext", "renamed"} /\ world.lib.closed \in BOOLEAN
         /\ world.bucket \in Bucket
BY DEF World, Library

\* A library that is not told apart from one that is: both refuse what does not open.
LEMMA LibOpens ==
  ASSUME world \in World, NEW c \in Codec, NEW t \in Tokens, NEW u \in Tokens, NEW e \in Entries
  PROVE  /\ Opens(c, t, world.lib.codec, u) =>
              LibOpen(u, Seal(c, t, e)) =
                IF world.lib.decodes = "faithfully" THEN e ELSE human_entry
         /\ ~Opens(c, t, world.lib.codec, u) => LibOpen(u, Seal(c, t, e)) = "refused"
         /\ LibOpen(u, Tampered(Seal(c, t, e))) = "refused"
<1> DEFINE d == world.lib.codec
<1>1. d \in Codec /\ world.lib.decodes \in {"faithfully", "services as humans"} /\ d.tag \in BOOLEAN
  BY Worlds DEF Codec
<1>2. ASSUME NEW s
      PROVE  /\ Open(d, u, s) \in {"refused", Garbled} => LibOpen(u, s) = "refused"
             /\ Open(d, u, s) = e =>
                  LibOpen(u, s) = IF world.lib.decodes = "faithfully" THEN e ELSE human_entry
  <2>1. ASSUME Open(d, u, s) \in {"refused", Garbled} PROVE LibOpen(u, s) = "refused"
    BY <2>1 DEF LibOpen
  <2>2. ASSUME Open(d, u, s) = e
        PROVE  LibOpen(u, s) = IF world.lib.decodes = "faithfully" THEN e ELSE human_entry
    BY <1>1, <2>2 DEF LibOpen, Entries, human_entry, service_entry, Garbled
  <2> QED
    BY <2>1, <2>2
<1>3. Open(d, u, Tampered(Seal(c, t, e))) \in {"refused", Garbled}
  <2>1. Open(d, u, Tampered(Seal(c, t, e))) =
           IF c.cipher = d.cipher /\ d.tag = FALSE THEN Garbled ELSE "refused"
    BY <1>1, OpenTampered, Zenon
  <2> QED
    BY <2>1
<1>4. /\ Opens(c, t, d, u) => Open(d, u, Seal(c, t, e)) = e
      /\ ~Opens(c, t, d, u) => Open(d, u, Seal(c, t, e)) = "refused"
  BY <1>1, OpenSealed, Zenon
<1> HIDE DEF d
<1> QED
  BY <1>2, <1>3, <1>4, Zenon DEF d

-----------------------------------------------------------------------------
(* Which worlds interoperate.                                              *)

lib == world.lib.codec

\* One cipher, the token's hash as associated data and a verified tag on both sides,
\* and a library that tells the two kinds of actor apart.
Sound == /\ world.go.cipher = lib.cipher
         /\ lib.aad = "hash" /\ world.go.aad = "hash"
         /\ lib.tag = TRUE /\ world.go.tag = TRUE
         /\ world.lib.decodes = "faithfully"

LEMMA TwoTokens == Tokens = {TOKEN, OTHER_TOKEN} /\ TOKEN # OTHER_TOKEN
                   /\ TOKEN # "nothing" /\ OTHER_TOKEN # "nothing"
BY DEF Tokens, TOKEN, OTHER_TOKEN

LEMMA TwoEntries ==
  /\ Entries = {human_entry, service_entry} /\ human_entry # service_entry
  /\ \A e \in Entries : e # "refused" /\ e # Garbled
BY DEF Entries, human_entry, service_entry, Garbled

\* Sound codecs open what was sealed for the token, and nothing else.
LEMMA SoundOpens ==
  ASSUME world \in World, Sound,
         NEW c \in {lib, world.go}, NEW t \in Tokens, NEW u \in Tokens, NEW e \in Entries
  PROVE  /\ LibOpen(u, Seal(c, t, e)) = IF t = u THEN e ELSE "refused"
         /\ GoOpen(u, Seal(c, t, e)) = IF t = u THEN e ELSE "refused"
         /\ LibOpen(u, Tampered(Seal(c, t, e))) = "refused"
         /\ GoOpen(u, Tampered(Seal(c, t, e))) = "refused"
<1>1. c \in Codec /\ lib \in Codec /\ world.go \in Codec
  BY Worlds, Zenon DEF lib
<1>2. c.cipher = lib.cipher /\ c.cipher = world.go.cipher /\ c.aad = "hash"
  BY DEF Sound
<1>3. ASSUME NEW d \in {lib, world.go} PROVE Opens(c, t, d, u) <=> t = u
  BY <1>2, <1>3 DEF Opens, Sound, AadOf
<1>4. LibOpen(u, Seal(c, t, e)) = IF t = u THEN e ELSE "refused"
  <2>1. t = u => LibOpen(u, Seal(c, t, e)) = e
    <3>1. t = u => LibOpen(u, Seal(c, t, e)) =
                     IF world.lib.decodes = "faithfully" THEN e ELSE human_entry
      BY <1>1, <1>3, LibOpens, Zenon DEF lib
    <3> QED
      BY <3>1 DEF Sound
  <2>2. t # u => LibOpen(u, Seal(c, t, e)) = "refused"
    BY <1>1, <1>3, LibOpens, Zenon DEF lib
  <2> QED
    BY <2>1, <2>2
<1>5. GoOpen(u, Seal(c, t, e)) = IF t = u THEN e ELSE "refused"
  <2>1. t = u => GoOpen(u, Seal(c, t, e)) = e
    BY <1>1, <1>3, OpenSealed, Zenon DEF GoOpen
  <2>2. t # u => GoOpen(u, Seal(c, t, e)) = "refused"
    BY <1>1, <1>3, OpenSealed, Zenon DEF GoOpen
  <2> QED
    BY <2>1, <2>2
<1>6. LibOpen(u, Tampered(Seal(c, t, e))) = "refused"
  BY <1>1, LibOpens, Zenon
<1>7. GoOpen(u, Tampered(Seal(c, t, e))) = "refused"
  <2>1. world.go.tag = TRUE
    BY Zenon DEF Sound
  <2>2. Open(world.go, u, Tampered(Seal(c, t, e))) =
          IF c.cipher = world.go.cipher /\ world.go.tag = FALSE THEN Garbled ELSE "refused"
    BY <1>1, OpenTampered, Zenon
  <2> QED
    BY <2>1, <2>2 DEF GoOpen
<1> QED
  BY <1>4, <1>5, <1>6, <1>7

LEMMA SoundInteroperates == ASSUME world \in World, Sound PROVE Interoperable
<1> SUFFICES ASSUME NEW t \in Tokens, NEW u \in Tokens, NEW e \in Entries
             PROVE  LET sealed == {GoSeal(t, e), LibSeal(t, e)} IN
               /\ {LibOpen(u, s) : s \in sealed} = {IF t = u THEN e ELSE "refused"}
               /\ {GoOpen(u, s) : s \in sealed} = {IF t = u THEN e ELSE "refused"}
               /\ {LibOpen(u, Tampered(s)) : s \in sealed} = {"refused"}
               /\ {GoOpen(u, Tampered(s)) : s \in sealed} = {"refused"}
  BY Zenon DEF Interoperable
<1> DEFINE sealed == {GoSeal(t, e), LibSeal(t, e)}
<1>1. ASSUME NEW s \in sealed
      PROVE  /\ LibOpen(u, s) = IF t = u THEN e ELSE "refused"
             /\ GoOpen(u, s) = IF t = u THEN e ELSE "refused"
             /\ LibOpen(u, Tampered(s)) = "refused"
             /\ GoOpen(u, Tampered(s)) = "refused"
  <2>1. PICK c \in {lib, world.go} : s = Seal(c, t, e)
    BY Zenon DEF GoSeal, LibSeal, lib
  <2>2. /\ LibOpen(u, Seal(c, t, e)) = IF t = u THEN e ELSE "refused"
        /\ GoOpen(u, Seal(c, t, e)) = IF t = u THEN e ELSE "refused"
        /\ LibOpen(u, Tampered(Seal(c, t, e))) = "refused"
        /\ GoOpen(u, Tampered(Seal(c, t, e))) = "refused"
    BY SoundOpens
  <2> QED
    BY <2>1, <2>2, Zenon
<1>2. sealed # {}
  OBVIOUS
<1> HIDE DEF sealed
<1>3. /\ {LibOpen(u, s) : s \in sealed} = {IF t = u THEN e ELSE "refused"}
      /\ {GoOpen(u, s) : s \in sealed} = {IF t = u THEN e ELSE "refused"}
      /\ {LibOpen(u, Tampered(s)) : s \in sealed} = {"refused"}
      /\ {GoOpen(u, Tampered(s)) : s \in sealed} = {"refused"}
  BY <1>1, <1>2
<1> QED
  BY <1>3 DEF sealed

-----------------------------------------------------------------------------
(* What the checks tell.                                                   *)

Checks == {"x1", "x2", "x3", "x4", "n1", "n2", "k1", "k2", "k3"}
AllPass == \A check \in Checks : Outcome(check) = "pass"

\* Each check passes on this condition, and no other.
LEMMA ChecksPass ==
  /\ Outcome("x1") = "pass" <=>
       AnchorSeals /\ \A e \in Entries : LibOpen(TOKEN, GoSeal(TOKEN, e)) = e
  /\ Outcome("x2") = "pass" <=>
       AnchorSeals /\ \A e \in Entries : GoOpen(TOKEN, LibSeal(TOKEN, e)) = e
  /\ Outcome("x3") = "pass" <=>
       KeyOf(world.go, TOKEN) = KeyOf(lib, TOKEN) /\ lib.key = "prefix hash"
  /\ Outcome("x4") = "pass" <=> AnchorSeals /\ world.lib.closed
  /\ Outcome("n1") = "pass" <=>
       /\ AnchorSeals
       /\ LibOpen(TOKEN, Tampered(GoSeal(TOKEN, human_entry))) = "refused"
       /\ GoOpen(TOKEN, Tampered(GoSeal(TOKEN, human_entry))) = "refused"
  /\ Outcome("n2") = "pass" <=>
       /\ AnchorSeals
       /\ LibOpen(OTHER_TOKEN, GoSeal(TOKEN, human_entry)) = "refused"
       /\ GoOpen(OTHER_TOKEN, GoSeal(TOKEN, human_entry)) = "refused"
  /\ Outcome("k1") = "pass" <=>
       /\ AnchorSeals /\ world.bucket.keeps /\ UnderPrefix
       /\ LibOpen(TOKEN, GoSeal(TOKEN, human_entry)) = human_entry
       /\ LibOpen(OTHER_TOKEN, GoSeal(OTHER_TOKEN, service_entry)) = service_entry
  /\ Outcome("k2") = "pass" <=> AnchorSeals /\ world.bucket.scoped /\ UnderPrefix
  /\ Outcome("k3") = "pass" <=> world.bucket.strict
<1> USE DEF Outcome, WithAnchorSeal, Verdict
<1>1. Outcome("x1") = "pass" <=>
        AnchorSeals /\ \A e \in Entries : LibOpen(TOKEN, GoSeal(TOKEN, e)) = e
  BY DEF go_seal_opens_through_lib
<1>2. Outcome("x2") = "pass" <=>
        AnchorSeals /\ \A e \in Entries : GoOpen(TOKEN, LibSeal(TOKEN, e)) = e
  BY DEF rust_seal_opens_in_go
<1>3. Outcome("x3") = "pass" <=>
        KeyOf(world.go, TOKEN) = KeyOf(lib, TOKEN) /\ lib.key = "prefix hash"
  BY DEF kv_key_agrees, lib
<1>4. Outcome("x4") = "pass" <=> AnchorSeals /\ world.lib.closed
  BY DEF sealed_wire_deserializes
<1>5. Outcome("n1") = "pass" <=>
        /\ AnchorSeals
        /\ LibOpen(TOKEN, Tampered(GoSeal(TOKEN, human_entry))) = "refused"
        /\ GoOpen(TOKEN, Tampered(GoSeal(TOKEN, human_entry))) = "refused"
  BY DEF tampered_ciphertext_fails
<1>6. Outcome("n2") = "pass" <=>
        /\ AnchorSeals
        /\ LibOpen(OTHER_TOKEN, GoSeal(TOKEN, human_entry)) = "refused"
        /\ GoOpen(OTHER_TOKEN, GoSeal(TOKEN, human_entry)) = "refused"
  BY DEF relocated_seal_fails
<1>7. Outcome("k1") = "pass" <=>
        /\ AnchorSeals /\ world.bucket.keeps /\ UnderPrefix
        /\ LibOpen(TOKEN, GoSeal(TOKEN, human_entry)) = human_entry
        /\ LibOpen(OTHER_TOKEN, GoSeal(OTHER_TOKEN, service_entry)) = service_entry
  BY DEF rides_published_language_consumer
<1>8. Outcome("k2") = "pass" <=> AnchorSeals /\ world.bucket.scoped /\ UnderPrefix
  BY DEF directory_prefix_ignores_bearer
<1>9. Outcome("k3") = "pass" <=> world.bucket.strict
  BY DEF undecodable_bearer_value_fails_closed
<1> QED
  BY <1>1, <1>2, <1>3, <1>4, <1>5, <1>6, <1>7, <1>8, <1>9, Zenon

LEMMA PassingIsSound == ASSUME world \in World, AllPass PROVE Sound
<1> DEFINE go == world.go
<1>1. lib \in Codec /\ go \in Codec
  BY Worlds, Zenon DEF lib
<1>2. TOKEN \in Tokens /\ OTHER_TOKEN \in Tokens /\ human_entry \in Entries /\ service_entry \in Entries
  BY TwoTokens, TwoEntries
<1>3. Opens(go, TOKEN, lib, TOKEN) /\ world.lib.decodes = "faithfully"
  <2>1. LibOpen(TOKEN, Seal(go, TOKEN, service_entry)) = service_entry
    BY <1>2, ChecksPass, Zenon DEF AllPass, Checks, GoSeal
  <2>2. /\ Opens(go, TOKEN, lib, TOKEN) =>
             LibOpen(TOKEN, Seal(go, TOKEN, service_entry)) =
               IF world.lib.decodes = "faithfully" THEN service_entry ELSE human_entry
        /\ ~Opens(go, TOKEN, lib, TOKEN) => LibOpen(TOKEN, Seal(go, TOKEN, service_entry)) = "refused"
    BY <1>1, <1>2, LibOpens, Zenon DEF lib
  <2> QED
    BY <1>2, <2>1, <2>2, TwoEntries
<1>4. Opens(lib, TOKEN, go, TOKEN)
  <2>1. GoOpen(TOKEN, Seal(lib, TOKEN, human_entry)) = human_entry
    BY <1>2, ChecksPass, Zenon DEF AllPass, Checks, LibSeal, lib
  <2>2. ~Opens(lib, TOKEN, go, TOKEN) => GoOpen(TOKEN, Seal(lib, TOKEN, human_entry)) = "refused"
    BY <1>1, <1>2, OpenSealed, Zenon DEF GoOpen
  <2> QED
    BY <1>2, <2>1, <2>2, TwoEntries
<1>5. go.tag = TRUE
  <2>1. GoOpen(TOKEN, Tampered(Seal(go, TOKEN, human_entry))) = "refused"
    BY ChecksPass, Zenon DEF AllPass, Checks, GoSeal
  <2>2. GoOpen(TOKEN, Tampered(Seal(go, TOKEN, human_entry))) =
          IF go.cipher = go.cipher /\ go.tag = FALSE THEN Garbled ELSE "refused"
    BY <1>1, <1>2, OpenTampered, Zenon DEF GoOpen
  <2>3. go.tag # FALSE
    BY <2>1, <2>2 DEF Garbled
  <2> QED
    BY <1>1, <2>3 DEF Codec
<1>6. ~Opens(go, TOKEN, lib, OTHER_TOKEN)
  <2>1. LibOpen(OTHER_TOKEN, Seal(go, TOKEN, human_entry)) = "refused"
    BY ChecksPass, Zenon DEF AllPass, Checks, GoSeal
  <2>2. Opens(go, TOKEN, lib, OTHER_TOKEN) =>
          LibOpen(OTHER_TOKEN, Seal(go, TOKEN, human_entry)) =
            IF world.lib.decodes = "faithfully" THEN human_entry ELSE human_entry
    BY <1>1, <1>2, LibOpens, Zenon DEF lib
  <2> QED
    BY <1>2, <2>1, <2>2, TwoEntries
<1>7. go.cipher = lib.cipher
  BY <1>4, Zenon DEF Opens
<1>8. lib.tag = TRUE /\ AadOf(go, TOKEN) # AadOf(lib, OTHER_TOKEN)
  BY <1>6, <1>7, Zenon DEF Opens
<1>9. AadOf(go, TOKEN) = AadOf(lib, TOKEN)
  BY <1>3, <1>8, Zenon DEF Opens
<1>10. lib.aad = "hash" /\ go.aad = "hash"
  <2>1. lib.aad \in {"hash", "nothing"} /\ go.aad \in {"hash", "nothing"}
    BY <1>1 DEF Codec
  <2>2. lib.aad # "nothing"
    BY <1>8, <1>9 DEF AadOf
  <2> QED
    BY <1>9, <2>1, <2>2, TwoTokens DEF AadOf
<1> QED
  BY <1>3, <1>5, <1>7, <1>8, <1>10, Zenon DEF Sound

LEMMA PassingIsInPlace == ASSUME world \in World, AllPass PROVE InPlace
<1>1. /\ AnchorSeals /\ world.lib.closed
      /\ KeyOf(world.go, TOKEN) = KeyOf(lib, TOKEN) /\ lib.key = "prefix hash"
      /\ world.bucket.keeps /\ world.bucket.scoped /\ world.bucket.strict
  BY ChecksPass, Zenon DEF AllPass, Checks
<1>2. world.bucket = [keeps |-> TRUE, scoped |-> TRUE, strict |-> TRUE]
  BY <1>1, Worlds DEF Bucket
<1>3. \A t \in Tokens : KeyOf(world.go, t) = KeyOf(lib, t)
  BY <1>1 DEF KeyOf
<1> QED
  BY <1>1, <1>2, <1>3, Zenon DEF InPlace, AnchorSeals, lib

LEMMA InteroperableOpens ==
  ASSUME Interoperable, NEW t \in Tokens, NEW u \in Tokens, NEW e \in Entries,
         NEW m \in {GoSeal(t, e), LibSeal(t, e)}
  PROVE  /\ LibOpen(u, m) = IF t = u THEN e ELSE "refused"
         /\ GoOpen(u, m) = IF t = u THEN e ELSE "refused"
         /\ LibOpen(u, Tampered(m)) = "refused"
         /\ GoOpen(u, Tampered(m)) = "refused"
<1> DEFINE sealed == {GoSeal(t, e), LibSeal(t, e)}
<1>1. /\ {LibOpen(u, s) : s \in sealed} = {IF t = u THEN e ELSE "refused"}
      /\ {GoOpen(u, s) : s \in sealed} = {IF t = u THEN e ELSE "refused"}
      /\ {LibOpen(u, Tampered(s)) : s \in sealed} = {"refused"}
      /\ {GoOpen(u, Tampered(s)) : s \in sealed} = {"refused"}
  BY DEF Interoperable
<1> HIDE DEF sealed
<1>2. m \in sealed
  BY DEF sealed
<1> QED
  BY <1>1, <1>2

LEMMA InteroperablePasses ==
  ASSUME world \in World, Interoperable, InPlace
  PROVE  AllPass
<1>1. TOKEN \in Tokens /\ OTHER_TOKEN \in Tokens /\ human_entry \in Entries /\ service_entry \in Entries
  BY TwoTokens, TwoEntries
<1>2. /\ AnchorSeals /\ world.lib.closed /\ UnderPrefix
      /\ KeyOf(world.go, TOKEN) = KeyOf(lib, TOKEN) /\ lib.key = "prefix hash"
  BY <1>1 DEF InPlace, AnchorSeals, UnderPrefix, lib
<1>3. world.bucket.keeps /\ world.bucket.scoped /\ world.bucket.strict
  <2> DEFINE b == [keeps |-> TRUE, scoped |-> TRUE, strict |-> TRUE]
  <2>1. world.bucket = b
    BY Zenon DEF InPlace
  <2>2. b.keeps /\ b.scoped /\ b.strict
    OBVIOUS
  <2> HIDE DEF b
  <2> QED
    BY <2>1, <2>2, Zenon
<1>4. ASSUME NEW e \in Entries
      PROVE  LibOpen(TOKEN, GoSeal(TOKEN, e)) = e /\ GoOpen(TOKEN, LibSeal(TOKEN, e)) = e
  <2>1. LibOpen(TOKEN, GoSeal(TOKEN, e)) = IF TOKEN = TOKEN THEN e ELSE "refused"
    BY <1>1, InteroperableOpens, Zenon
  <2>2. GoOpen(TOKEN, LibSeal(TOKEN, e)) = IF TOKEN = TOKEN THEN e ELSE "refused"
    BY <1>1, InteroperableOpens, Zenon
  <2> QED
    BY <2>1, <2>2
<1>5. LibOpen(OTHER_TOKEN, GoSeal(OTHER_TOKEN, service_entry)) = service_entry
  <2>1. LibOpen(OTHER_TOKEN, GoSeal(OTHER_TOKEN, service_entry)) =
          IF OTHER_TOKEN = OTHER_TOKEN THEN service_entry ELSE "refused"
    BY <1>1, InteroperableOpens, Zenon
  <2> QED
    BY <2>1
<1>6. /\ LibOpen(OTHER_TOKEN, GoSeal(TOKEN, human_entry)) = "refused"
      /\ GoOpen(OTHER_TOKEN, GoSeal(TOKEN, human_entry)) = "refused"
  <2>1. LibOpen(OTHER_TOKEN, GoSeal(TOKEN, human_entry)) =
          IF TOKEN = OTHER_TOKEN THEN human_entry ELSE "refused"
    BY <1>1, InteroperableOpens, Zenon
  <2>2. GoOpen(OTHER_TOKEN, GoSeal(TOKEN, human_entry)) =
          IF TOKEN = OTHER_TOKEN THEN human_entry ELSE "refused"
    BY <1>1, InteroperableOpens, Zenon
  <2> QED
    BY <2>1, <2>2, TwoTokens
<1>7. /\ LibOpen(TOKEN, Tampered(GoSeal(TOKEN, human_entry))) = "refused"
      /\ GoOpen(TOKEN, Tampered(GoSeal(TOKEN, human_entry))) = "refused"
  BY <1>1, InteroperableOpens, Zenon
<1>8. LibOpen(TOKEN, GoSeal(TOKEN, human_entry)) = human_entry
  BY <1>1, <1>4, Zenon
<1> QED
  BY <1>2, <1>3, <1>4, <1>5, <1>6, <1>7, <1>8, ChecksPass, Zenon DEF AllPass, Checks

\* The nine checks pass in the worlds that interoperate, and in no other.
LEMMA PassIffInteroperable ==
  ASSUME world \in World
  PROVE  AllPass <=> Interoperable /\ InPlace
BY PassingIsSound, PassingIsInPlace, SoundInteroperates, InteroperablePasses

-----------------------------------------------------------------------------
(* The battery.                                                            *)

LEMMA OutcomeIs ==
  \A check \in Checks : Outcome(check) \in {"pass", "fail", "error"}
BY Zenon DEF Checks, Outcome, WithAnchorSeal, Verdict, go_seal_opens_through_lib,
     rust_seal_opens_in_go, kv_key_agrees, sealed_wire_deserializes, tampered_ciphertext_fails,
     relocated_seal_fails, rides_published_language_consumer, directory_prefix_ignores_bearer,
     undecodable_bearer_value_fails_closed

\* The checks look at nothing but the world.
LEMMA OutcomesStay ==
  ASSUME UNCHANGED world, NEW check
  PROVE  Outcome(check)' = Outcome(check)
BY Zenon DEF Outcome, WithAnchorSeal, Verdict, go_seal_opens_through_lib,
     rust_seal_opens_in_go, kv_key_agrees, sealed_wire_deserializes, tampered_ciphertext_fails,
     relocated_seal_fails, rides_published_language_consumer, directory_prefix_ignores_bearer,
     undecodable_bearer_value_fails_closed, AnchorSeals, UnderPrefix, LibOpen, GoOpen, LibSeal, GoSeal

Positions == 1 .. 9

LEMMA BatteryIs ==
  /\ Len(Battery) = 9
  /\ \A i \in Positions : Battery[i] \in Checks
  /\ \A check \in Checks : \E i \in Positions : Battery[i] = check
<1>1. /\ Battery[1] = "x1" /\ Battery[2] = "x2" /\ Battery[3] = "x3" /\ Battery[4] = "x4"
      /\ Battery[5] = "n1" /\ Battery[6] = "n2" /\ Battery[7] = "k1" /\ Battery[8] = "k2"
      /\ Battery[9] = "k3" /\ Len(Battery) = 9
  BY DEF Battery
<1>2. \A i \in Positions : i \in {1, 2, 3, 4, 5, 6, 7, 8, 9}
  BY DEF Positions
<1>3. {1, 2, 3, 4, 5, 6, 7, 8, 9} \subseteq Positions
  BY DEF Positions
<1>4. \A i \in Positions : Battery[i] \in Checks
  BY <1>1, <1>2 DEF Checks
<1>5. \A check \in Checks : \E i \in Positions : Battery[i] = check
  BY <1>1, <1>3, Zenon DEF Checks
<1> QED
  BY <1>1, <1>4, <1>5

\* Position i of the battery has been run, and its check is on record.
Recorded(i) == /\ Outcome(Battery[i]) = "fail" => Battery[i] \in failed
               /\ end # "error" => Outcome(Battery[i]) # "error"

\* What has been run is on record, and an error has ended the battery.
BatteryInv ==
  /\ world \in World
  /\ at \in 1 .. 10
  /\ end \in {"running", "error", "reported"}
  /\ \A check \in failed : check \in Checks /\ Outcome(check) = "fail"
  /\ \A i \in Positions : i < at => Recorded(i)
  /\ end = "error" => \E check \in Checks : Outcome(check) = "error"
  /\ end = "reported" => at = 10

LEMMA RunStays == ASSUME BatteryInv, RunCheck PROVE BatteryInv'
<1> DEFINE now == Battery[at]
<1>1. at \in Positions /\ at' = at + 1 /\ end = "running" /\ UNCHANGED world
  BY BatteryIs DEF RunCheck, BatteryInv, Positions
<1>2. now \in Checks /\ Outcome(now) \in {"pass", "fail", "error"}
  BY <1>1, BatteryIs, OutcomeIs
<1>3. \A check : Outcome(check)' = Outcome(check)
  BY <1>1, OutcomesStay
<1>4. /\ failed' = IF Outcome(now) = "fail" THEN failed \cup {now} ELSE failed
      /\ end' = IF Outcome(now) = "error" THEN "error" ELSE end
  BY DEF RunCheck
<1> HIDE DEF now
<1>5. \A check \in failed' : check \in Checks /\ Outcome(check)' = "fail"
  BY <1>2, <1>3, <1>4 DEF BatteryInv
<1>6. ASSUME NEW i \in Positions, i < at' PROVE Recorded(i)'
  <2>1. i < at \/ i = at
    BY <1>1, <1>6 DEF Positions
  <2>2. /\ Outcome(Battery[i]) = "fail" => Battery[i] \in failed'
        /\ end' # "error" => Outcome(Battery[i]) # "error"
    BY <1>1, <1>4, <2>1 DEF BatteryInv, Recorded, now
  <2>3. Outcome(Battery[i])' = Outcome(Battery[i])
    BY <1>1, OutcomesStay
  <2> QED
    BY <2>2, <2>3 DEF Recorded
<1>7. end' = "error" => \E check \in Checks : Outcome(check)' = "error"
  BY <1>1, <1>2, <1>3, <1>4
<1> QED
  BY <1>1, <1>4, <1>5, <1>6, <1>7 DEF BatteryInv, Positions

LEMMA BatteryStays == ASSUME BatteryInv, [Next]_vars PROVE BatteryInv'
<1>1. CASE RunCheck
  BY <1>1, RunStays
<1>2. CASE Report \/ UNCHANGED vars
  <2>1. /\ UNCHANGED <<world, at, failed>>
        /\ end' = end \/ (end = "running" /\ at > Len(Battery) /\ end' = "reported")
    BY <1>2 DEF Report, vars
  <2>2. \A check : Outcome(check)' = Outcome(check)
    BY <2>1, OutcomesStay
  <2>3. ASSUME NEW i \in Positions, i < at PROVE Recorded(i)'
    <3>1. Outcome(Battery[i])' = Outcome(Battery[i])
      BY <2>1, OutcomesStay
    <3> QED
      BY <2>1, <2>3, <3>1 DEF BatteryInv, Recorded
  <2>4. \A check \in failed : check \in Checks /\ Outcome(check)' = "fail"
    BY <2>2 DEF BatteryInv
  <2>5. end' = "error" => \E check \in Checks : Outcome(check)' = "error"
    BY <2>1, <2>2 DEF BatteryInv
  <2>6. end' = "reported" => at = 10
    BY <2>1, BatteryIs DEF BatteryInv
  <2> QED
    BY <2>1, <2>3, <2>4, <2>5, <2>6 DEF BatteryInv
<1> QED
  BY <1>1, <1>2 DEF Next

LEMMA BatteryHolds == Spec => []BatteryInv
<1>1. Init => BatteryInv
  BY DEF Init, BatteryInv, Positions
<1> QED
  BY <1>1, BatteryStays, PTL DEF Spec

\* The battery finds the parties conformant if and only if they interoperate
\* (run_full_battery, is_conformant).
THEOREM BatteryIsDecisive == Spec => []BatteryDecides
<1>1. ASSUME BatteryInv, end # "running" PROVE is_conformant <=> AllPass
  <2>1. CASE end = "reported"
    <3>1. \A i \in Positions : Recorded(i)
      BY <1>1, <2>1 DEF BatteryInv, Positions
    <3>2. ASSUME failed = {}, NEW check \in Checks PROVE Outcome(check) = "pass"
      <4>1. PICK i \in Positions : Battery[i] = check
        BY BatteryIs
      <4> QED
        BY <2>1, <3>1, <3>2, <4>1, OutcomeIs DEF Recorded
    <3>3. ASSUME AllPass PROVE failed = {}
      BY <1>1, <3>3 DEF AllPass, BatteryInv
    <3> QED
      BY <2>1, <3>2, <3>3 DEF is_conformant, AllPass
  <2>2. CASE end = "error"
    BY <1>1, <2>2 DEF BatteryInv, is_conformant, AllPass
  <2> QED
    BY <1>1, <2>1, <2>2 DEF BatteryInv
<1>2. BatteryInv => BatteryDecides
  <2> SUFFICES ASSUME BatteryInv, end # "running"
               PROVE  is_conformant <=> Interoperable /\ InPlace
    BY Zenon DEF BatteryDecides
  <2>1. world \in World
    BY Zenon DEF BatteryInv
  <2> QED
    BY <1>1, <2>1, PassIffInteroperable, Zenon
<1> QED
  BY <1>2, BatteryHolds, PTL
=============================================================================
