------------------------ MODULE BearerDirectoryProofs ------------------------
(***************************************************************************)
(* Proofs about BearerDirectory, for any tokens, entries, publishers and   *)
(* checks, and any number of faults and damages.                           *)
(***************************************************************************)
EXTENDS BearerDirectory, TLAPS

Sealed == [nonce : {"12 bytes", "other length", "not base64"}, base64 : BOOLEAN,
           key : {OurKey, OtherKey},
           aad : Bearer \cup {None}, plain : Entry \cup {Garbage}, intact : BOOLEAN]
Value == [is : {"sealed", "absent", "undecodable"}, sealed : Sealed]

Call == [bearer : Bearer, entry : Entry \cup {None}, alone : BOOLEAN] \cup {NoCall}
LookPc == {"idle", "read", "answer"}
Status == {0, 200, 401, 502}
Header == {"none", "x-auth-user-id", "x-auth-service-account-id"}
MaybeBearer == Bearer \cup {None}
MaybeEntry == Entry \cup {None}
Look == [pc : LookPc, asked : MaybeBearer, token : MaybeBearer, status : Status,
         header : Header, entry : MaybeEntry, sure : BOOLEAN]

Keys == {BearerKey(b) : b \in Bearer}

Types ==
  /\ kv \in [Keys -> Value]
  /\ call \in [Caller -> Call]
  /\ late \subseteq Write
  /\ look \in [Lookup -> Look]
  /\ validator \in {OurKey, OtherKey}
  /\ published \subseteq Bearer \X Entry
  /\ told \in [Bearer -> Entry \cup {None, "unknown"}]

\* A value that would open was published, under the token it is sealed for.
Genuine(v) ==
  v.is = "sealed" /\ v.sealed.intact /\ v.sealed.plain \in Entry
    => <<v.sealed.aad, v.sealed.plain>> \in published

\* Whatever is on its way to the bucket was published.
Meant(w) == w.entry # None => <<w.bearer, w.entry>> \in published

WritesInv ==
  /\ \A k \in Keys : Genuine(kv[k])
  /\ \A c \in Caller : Meant(call[c])
  /\ \A w \in late : Meant(w)

\* A call that is alone is the only write of its token on its way.
AloneInv ==
  \A c \in Caller : call[c].alone =>
    /\ \A d \in Caller : call[d].bearer = call[c].bearer => d = c
    /\ \A w \in late : w.bearer # call[c].bearer

\* While the directory is known to be as it was told, nothing is on its way to change
\* it, and the bucket holds it.
ToldInv ==
  \A b \in Bearer : told[b] # "unknown" =>
    /\ \A c \in Caller : call[c].bearer # b
    /\ \A w \in late : w.bearer # b
    /\ kv[BearerKey(b)] = ValueOf([bearer |-> b, entry |-> told[b]])

\* The answer of a check that was sure of the directory.
Answered(k) ==
  \/ k.status = 502
  \/ IF told[k.asked] # None /\ validator = OurKey
     THEN k.status = 200 /\ k.entry = told[k.asked]
     ELSE k.status = 401

Honest(k) ==
  /\ k.token = k.asked
  /\ k.header # "none" => <<k.asked, k.entry>> \in published
                          /\ (k.header = "x-auth-user-id" <=> k.entry \in Human)
  /\ k.sure /\ k.asked # None =>
       /\ told[k.asked] # "unknown"
       /\ k.pc = "answer" => Answered(k)

LookInv == \A l \in Lookup : Honest(look[l])

BInv == Types /\ WritesInv /\ AloneInv /\ ToldInv /\ LookInv

USE DEF OurKey, OtherKey

-----------------------------------------------------------------------------
(* The wire.                                                               *)

\* What opens was sealed under the key, for the token, and was not altered (open).
LEMMA OpensOnlyItsOwn ==
  ASSUME NEW key, NEW token, NEW sealed, Open(key, token, sealed).ok
  PROVE  /\ sealed.key = key /\ sealed.aad = token /\ sealed.intact /\ sealed.plain \in Entry
         /\ Open(key, token, sealed).entry = sealed.plain
BY DEF Open, Opened, Refused

\* What was sealed for a token opens for it, under the same key and no other (seal, open).
LEMMA OpensItsOwn ==
  ASSUME NEW key, NEW other, NEW token, NEW plain \in Entry
  PROVE  /\ Open(key, token, Seal(key, token, plain)) = Opened(plain)
         /\ other # key => ~Open(other, token, Seal(key, token, plain)).ok
BY DEF Open, Seal, Opened, Refused

LEMMA SealTypes ==
  ASSUME NEW token \in Bearer \cup {None}, NEW plain \in Entry \cup {Garbage}
  PROVE  Seal(OurKey, token, plain) \in Sealed
BY DEF Seal, Sealed

LEMMA WriteTypes ==
  ASSUME NEW w, w.bearer \in Bearer \cup {None}, w.entry \in Entry \cup {None}
  PROVE  ValueOf(w) \in Value
BY SealTypes DEF ValueOf, Value, Cell, Absent

\* What a write leaves is genuine, if it was meant.
LEMMA WriteIsGenuine ==
  ASSUME NEW w, Meant(w)
  PROVE  Genuine(ValueOf(w))
BY DEF ValueOf, Genuine, Meant, Cell, Absent, Seal

LEMMA KeysDiffer ==
  ASSUME NEW a \in Bearer, NEW b \in Bearer, BearerKey(a) = BearerKey(b)
  PROVE  a = b
BY DEF BearerKey

LEMMA KeyOf == \A b \in Bearer : BearerKey(b) \in Keys
BY DEF Keys

LEMMA DamagedTypes ==
  ASSUME NEW sealed \in Sealed, NEW d \in Damaged(sealed)
  PROVE  /\ d \in Sealed
         /\ d.intact /\ d.plain \in Entry
              => sealed.intact /\ d.plain = sealed.plain /\ d.aad = sealed.aad
BY ActorAssumption DEF Damaged, Sealed, Entry, Garbage

\* What other hands leave under a key: a value of some key, other JSON, or a damaged one.
LEMMA DamageLeaves ==
  ASSUME Types, NEW b \in Bearer, Damage(b)
  PROVE  \E v \in Value :
           /\ kv' = [kv EXCEPT ![BearerKey(b)] = v]
           /\ (\A k \in Keys : Genuine(kv[k])) => Genuine(v)
<1>1. PICK v : /\ kv' = [kv EXCEPT ![BearerKey(b)] = v]
               /\ \/ \E k \in Keys : v = kv[k]
                  \/ v = Undecodable
                  \/ /\ kv[BearerKey(b)].is = "sealed"
                     /\ \E d \in Damaged(kv[BearerKey(b)].sealed) : v = Cell(d)
  BY DEF Damage, Types
<1>2. CASE \E k \in Keys : v = kv[k]
  BY <1>1, <1>2 DEF Types
<1>3. CASE v = Undecodable
  <2>1. v \in Value
    BY <1>3, SealTypes DEF Undecodable, Value
  <2>2. Genuine(v)
    BY <1>3 DEF Undecodable, Genuine
  <2> QED
    BY <1>1, <2>1, <2>2
<1>4. CASE /\ kv[BearerKey(b)].is = "sealed"
           /\ \E d \in Damaged(kv[BearerKey(b)].sealed) : v = Cell(d)
  <2>1. PICK d \in Damaged(kv[BearerKey(b)].sealed) : v = Cell(d)
    BY <1>4
  <2>2. kv[BearerKey(b)] \in Value /\ kv[BearerKey(b)].sealed \in Sealed
    BY KeyOf DEF Types, Value
  <2>3. v \in Value
    BY <2>1, <2>2, DamagedTypes DEF Cell, Value
  <2>4. ASSUME \A k \in Keys : Genuine(kv[k]) PROVE Genuine(v)
    <3>1. Genuine(kv[BearerKey(b)])
      BY <2>4, KeyOf
    <3> QED
      BY <2>1, <2>2, <3>1, <1>4, DamagedTypes DEF Cell, Genuine
  <2> QED
    BY <1>1, <2>3, <2>4
<1> QED
  BY <1>1, <1>2, <1>3, <1>4

-----------------------------------------------------------------------------
(* Types.                                                                  *)

LEMMA CallTypes ==
  ASSUME NEW k \in Call
  PROVE  /\ k.bearer \in Bearer \cup {None} /\ k.entry \in Entry \cup {None}
         /\ k.alone \in BOOLEAN
         /\ k.bearer \in Bearer => [k EXCEPT !.alone = FALSE] \in Call
         /\ k # NoCall => k.bearer \in Bearer
         /\ k.alone => k.bearer \in Bearer
<1>1. CASE k = NoCall
  BY <1>1, BearerAssumption DEF Call, NoCall
<1>2. CASE k \in [bearer : Bearer, entry : Entry \cup {None}, alone : BOOLEAN]
  BY <1>2 DEF Call
<1> QED
  BY <1>1, <1>2 DEF Call

\* The values of the fields of a look-up.
LEMMA FieldValues ==
  /\ \A b \in Bearer : b \in MaybeBearer
  /\ \A e \in Entry : e \in MaybeEntry
  /\ None \in MaybeBearer /\ None \in MaybeEntry
  /\ {"idle", "read", "answer"} \subseteq LookPc
  /\ {0, 200, 401, 502} \subseteq Status
  /\ {"none", "x-auth-user-id", "x-auth-service-account-id"} \subseteq Header
BY DEF MaybeBearer, MaybeEntry, LookPc, Status, Header

\* The look-ups a check starts with.
LEMMA FirstLooks ==
  ASSUME NEW asked \in MaybeBearer, NEW token \in MaybeBearer, NEW sure \in BOOLEAN
  PROVE  /\ NoLook \in Look
         /\ [NoLook EXCEPT !.pc = "read", !.asked = asked, !.token = token, !.sure = sure] \in Look
         /\ [NoLook EXCEPT !.pc = "answer", !.status = 200] \in Look
<1>1. NoLook \in Look
  BY FieldValues DEF NoLook, Look
<1>2. "read" \in LookPc /\ "answer" \in LookPc /\ 200 \in Status
  BY FieldValues
<1>3. [NoLook EXCEPT !.pc = "read", !.asked = asked, !.token = token, !.sure = sure] \in Look
  BY <1>1, <1>2 DEF Look
<1>4. [NoLook EXCEPT !.pc = "answer", !.status = 200] \in Look
  BY <1>1, <1>2 DEF Look
<1> QED
  BY <1>1, <1>3, <1>4

\* A check that begins promises nothing yet.
LEMMA AskStarts ==
  ASSUME NEW l \in Lookup, Ask(l)
  PROVE  \E k \in Look : look' = [look EXCEPT ![l] = k] /\ Honest(k)
<1>1. CASE \E b \in Bearer, form \in {"Bearer", "bearer", "bare", "other scheme"} :
             look' = [look EXCEPT ![l] =
                        [NoLook EXCEPT !.pc = "read",
                                       !.asked = IF form = "other scheme" THEN None ELSE b,
                                       !.token = TokenOf(form, b),
                                       !.sure = told[b] # "unknown"]]
  <2>1. PICK b \in Bearer, form \in {"Bearer", "bearer", "bare", "other scheme"} :
          look' = [look EXCEPT ![l] =
                     [NoLook EXCEPT !.pc = "read",
                                    !.asked = IF form = "other scheme" THEN None ELSE b,
                                    !.token = TokenOf(form, b),
                                    !.sure = told[b] # "unknown"]]
    BY <1>1
  <2> DEFINE asked == IF form = "other scheme" THEN None ELSE b
             k == [NoLook EXCEPT !.pc = "read", !.asked = asked,
                                 !.token = TokenOf(form, b),
                                 !.sure = told[b] # "unknown"]
  <2>2. asked \in MaybeBearer /\ (asked # None => asked = b) /\ TokenOf(form, b) = asked
    BY FieldValues DEF TokenOf
  <2>3. /\ k.pc = "read" /\ k.asked = asked /\ k.token = TokenOf(form, b)
        /\ k.header = "none" /\ k.sure = (told[b] # "unknown")
    BY DEF NoLook
  <2>4. k \in Look
    BY <2>2, FirstLooks
  <2>5. look' = [look EXCEPT ![l] = k]
    BY <2>1
  <2> HIDE DEF asked, k
  <2>6. Honest(k)
    BY <2>2, <2>3 DEF Honest
  <2> QED
    BY <2>4, <2>5, <2>6
<1>2. CASE look' = [look EXCEPT ![l] = [NoLook EXCEPT !.pc = "answer", !.status = 200]]
  <2> DEFINE k == [NoLook EXCEPT !.pc = "answer", !.status = 200]
  <2>1. k.header = "none" /\ k.token = None /\ k.asked = None
    BY DEF NoLook
  <2>2. k \in Look
    BY FirstLooks, FieldValues
  <2> HIDE DEF k
  <2>3. Honest(k)
    BY <2>1 DEF Honest
  <2> QED
    BY <1>2, <2>2, <2>3 DEF k
<1> QED
  BY <1>1, <1>2 DEF Ask

LEMMA UnsureTypes ==
  ASSUME Types, NEW b, Unsure(b)
  PROVE  look' \in [Lookup -> Look]
<1>1. ASSUME NEW k \in Look PROVE [k EXCEPT !.sure = FALSE] \in Look
  BY DEF Look
<1> QED
  BY <1>1 DEF Unsure, Types

LEMMA TypesStay == ASSUME Types, Next PROVE Types'
<1> USE DEF Types
<1>1. ASSUME NEW c \in Caller, NEW b \in Bearer, NEW e \in Entry \cup {None}, Send(c, b, e)
      PROVE  Types'
  <2>1. PICK alone \in BOOLEAN :
          call' = [d \in Caller |->
                     IF d = c THEN [bearer |-> b, entry |-> e, alone |-> alone]
                     ELSE IF call[d].bearer = b THEN [call[d] EXCEPT !.alone = FALSE]
                     ELSE call[d]]
    BY <1>1 DEF Send
  <2>2. [bearer |-> b, entry |-> e, alone |-> alone] \in Call
    BY DEF Call
  <2>3. call' \in [Caller -> Call]
    BY <2>1, <2>2, CallTypes
  <2>4. look' \in [Lookup -> Look]
    BY <1>1, UnsureTypes DEF Send
  <2>5. published' \subseteq Bearer \X Entry
    BY <1>1 DEF Send
  <2> QED
    BY <1>1, <2>3, <2>4, <2>5 DEF Send
<1>2. ASSUME NEW c \in Caller, Succeed(c) PROVE Types'
  <2>1. ValueOf(call[c]) \in Value
    BY WriteTypes, CallTypes
  <2>2. call' \in [Caller -> Call]
    BY <1>2 DEF Succeed, Call
  <2>3. told' \in [Bearer -> Entry \cup {None, "unknown"}]
    BY <1>2, CallTypes DEF Succeed, Told
  <2> QED
    BY <1>2, <2>1, <2>2, <2>3 DEF Succeed
<1>3. ASSUME NEW c \in Caller, Fail(c) PROVE Types'
  <2>1. call[c].bearer \in Bearer
    BY <1>3, CallTypes DEF Fail
  <2>2. WriteOf(c) \in Write
    BY <2>1, CallTypes DEF WriteOf, Write
  <2>3. call' \in [Caller -> Call]
    BY <1>3 DEF Fail, Call
  <2> QED
    BY <1>3, <2>2, <2>3 DEF Fail
<1>4. ASSUME NEW w \in late, ArriveLate(w) PROVE Types'
  <2>1. ValueOf(w) \in Value
    BY WriteTypes DEF Write
  <2>2. call' \in [Caller -> Call]
    BY <1>4, CallTypes DEF ArriveLate, Write
  <2>3. look' \in [Lookup -> Look]
    BY <1>4, UnsureTypes DEF ArriveLate
  <2> QED
    BY <1>4, <2>1, <2>2, <2>3 DEF ArriveLate
<1>5. ASSUME NEW b \in Bearer, Damage(b) PROVE Types'
  <2>1. look' \in [Lookup -> Look]
    BY <1>5, UnsureTypes DEF Damage
  <2>2. kv' \in [Keys -> Value]
    BY <1>5, DamageLeaves
  <2> QED
    BY <1>5, <2>1, <2>2 DEF Damage
<1>6. ASSUME NEW l \in Lookup, Ask(l) PROVE Types'
  <2>1. \E k \in Look : look' = [look EXCEPT ![l] = k]
    BY <1>6, AskStarts
  <2> QED
    BY <1>6, <2>1 DEF Ask, callVars
<1>7. ASSUME NEW l \in Lookup, Read(l) PROVE Types'
  <2>1. look[l] \in Look
    OBVIOUS
  <2>2. "answer" \in LookPc /\ 200 \in Status /\ 401 \in Status /\ 502 \in Status
        /\ \A e : ActorHeader(e) \in Header
    BY FieldValues DEF ActorHeader
  <2>3. ASSUME NEW st \in Status, Answer(l, st) PROVE look' \in [Lookup -> Look]
    <3>1. [look[l] EXCEPT !.pc = "answer", !.status = st] \in Look
      BY <2>1, <2>2 DEF Look
    <3> QED
      BY <2>3, <3>1 DEF Answer
  <2>4. ASSUME NEW e \in MaybeEntry, Resolved(l, e) PROVE look' \in [Lookup -> Look]
    <3>1. [look[l] EXCEPT !.pc = "answer", !.status = 200, !.entry = e,
                          !.header = ActorHeader(e)] \in Look
      BY <2>1, <2>2 DEF Look
    <3> QED
      BY <2>4, <3>1 DEF Resolved
  <2>5. \/ \E st \in Status : Answer(l, st)
        \/ \E e \in MaybeEntry : Resolved(l, e)
    BY <1>7, <2>2, OpensOnlyItsOwn, FieldValues DEF Read, Resolve
  <2> QED
    BY <1>7, <2>3, <2>4, <2>5 DEF Read, callVars
<1>8. ASSUME NEW l \in Lookup, Respond(l) PROVE Types'
  BY <1>8, FirstLooks, FieldValues DEF Respond, callVars
<1> QED
  BY <1>1, <1>2, <1>3, <1>4, <1>5, <1>6, <1>7, <1>8 DEF Next

-----------------------------------------------------------------------------
(* The writes.                                                             *)

LEMMA WritesStay == ASSUME Types, WritesInv, Next PROVE WritesInv'
<1> USE DEF WritesInv
<1>1. ASSUME NEW c \in Caller, NEW b \in Bearer, NEW e \in Entry \cup {None}, Send(c, b, e)
      PROVE  WritesInv'
  BY <1>1 DEF Send, Types, Call, Meant, Genuine
<1>2. ASSUME NEW c \in Caller, Succeed(c) PROVE WritesInv'
  <2>1. Genuine(ValueOf(call[c]))
    BY WriteIsGenuine
  <2> QED
    BY <1>2, <2>1 DEF Succeed, Types, NoCall, Meant, Genuine
<1>3. ASSUME NEW c \in Caller, Fail(c) PROVE WritesInv'
  BY <1>3 DEF Fail, WriteOf, Types, NoCall, Meant, Genuine
<1>4. ASSUME NEW w \in late, ArriveLate(w) PROVE WritesInv'
  <2>1. Genuine(ValueOf(w))
    BY WriteIsGenuine
  <2> QED
    BY <1>4, <2>1 DEF ArriveLate, Types, Call, Meant, Genuine
<1>5. ASSUME NEW b \in Bearer, Damage(b) PROVE WritesInv'
  <2>1. PICK v \in Value : kv' = [kv EXCEPT ![BearerKey(b)] = v] /\ Genuine(v)
    BY <1>5, DamageLeaves
  <2> QED
    BY <1>5, <2>1 DEF Damage, Types, Meant, Genuine
<1>6. ASSUME NEW l \in Lookup, Ask(l) \/ Read(l) \/ Respond(l) PROVE WritesInv'
  BY <1>6 DEF Ask, Read, Respond, callVars, Meant, Genuine
<1> QED
  BY <1>1, <1>2, <1>3, <1>4, <1>5, <1>6 DEF Next

LEMMA AloneStays == ASSUME Types, AloneInv, Next PROVE AloneInv'
<1> USE DEF AloneInv
<1>1. ASSUME NEW c \in Caller, NEW b \in Bearer, NEW e \in Entry \cup {None}, Send(c, b, e)
      PROVE  AloneInv'
  <2>1. /\ late' = late /\ call'[c].bearer = b
        /\ \A d \in Caller : d # c =>
             /\ call'[d].bearer = call[d].bearer
             /\ call'[d].alone => call[d].alone /\ call[d].bearer # b
    BY <1>1, CallTypes DEF Send, Types
  <2>2. call'[c].alone => /\ \A d \in Caller : d # c => call[d].bearer # b
                          /\ \A w \in late : w.bearer # b
    BY <1>1, CallTypes, BearerAssumption DEF Send, OnBearer, NoCall, Types
  <2> QED
    BY <2>1, <2>2
<1>2. ASSUME NEW c \in Caller, Succeed(c) PROVE AloneInv'
  <2>1. call' = [call EXCEPT ![c] = NoCall] /\ late' = late
    BY <1>2 DEF Succeed
  <2>2. \A d \in Caller : d # c => call'[d] = call[d]
    BY <2>1 DEF Types
  <2>3. call'[c] = NoCall
    BY <2>1 DEF Types
  <2> QED
    BY <2>1, <2>2, <2>3, CallTypes, BearerAssumption DEF NoCall, Types
<1>3. ASSUME NEW c \in Caller, Fail(c) PROVE AloneInv'
  <2>1. call' = [call EXCEPT ![c] = NoCall] /\ late' = late \cup {WriteOf(c)}
    BY <1>3 DEF Fail
  <2>2. \A d \in Caller : d # c => call'[d] = call[d]
    BY <2>1 DEF Types
  <2>3. call'[c] = NoCall /\ WriteOf(c).bearer = call[c].bearer
    BY <2>1 DEF Types, WriteOf
  <2>4. ASSUME NEW d \in Caller, call'[d].alone
        PROVE  d # c /\ call'[d] = call[d] /\ call[d].alone /\ call[d].bearer \in Bearer
    <3>1. d # c
      BY <2>3, <2>4 DEF NoCall
    <3>2. call'[d] = call[d] /\ call[d] \in Call
      BY <2>2, <3>1 DEF Types
    <3> QED
      BY <2>4, <3>1, <3>2, CallTypes
  <2>5. \A d \in Caller : call'[d].bearer \in Bearer => d # c /\ call'[d] = call[d]
    BY <2>2, <2>3, BearerAssumption DEF NoCall
  <2> QED
    BY <2>1, <2>3, <2>4, <2>5
<1>4. ASSUME NEW w \in late, ArriveLate(w) PROVE AloneInv'
  BY <1>4 DEF ArriveLate, Types, Call
<1>5. ASSUME NEW b \in Bearer, Damage(b) PROVE AloneInv'
  BY <1>5 DEF Damage
<1>6. ASSUME NEW l \in Lookup, Ask(l) \/ Read(l) \/ Respond(l) PROVE AloneInv'
  BY <1>6 DEF Ask, Read, Respond, callVars
<1> QED
  BY <1>1, <1>2, <1>3, <1>4, <1>5, <1>6 DEF Next

LEMMA ToldStays == ASSUME Types, AloneInv, ToldInv, Next PROVE ToldInv'
<1> USE DEF ToldInv
<1>1. ASSUME NEW c \in Caller, NEW b \in Bearer, NEW e \in Entry \cup {None}, Send(c, b, e)
      PROVE  ToldInv'
  BY <1>1 DEF Send, Types, Call
<1>2. ASSUME NEW c \in Caller, Succeed(c) PROVE ToldInv'
  <2> SUFFICES ASSUME NEW a \in Bearer, told'[a] # "unknown"
               PROVE  /\ \A d \in Caller : call'[d].bearer # a
                      /\ \A w \in late : w.bearer # a
                      /\ kv'[BearerKey(a)] = ValueOf([bearer |-> a, entry |-> told'[a]])
    BY <1>2 DEF Succeed
  <2>1. CASE call[c].bearer = a
    <3>1. call[c].alone /\ told'[a] = call[c].entry
      BY <1>2, <2>1 DEF Succeed, Told, Types
    <3>2. kv'[BearerKey(a)] = ValueOf(call[c])
      BY <1>2, <2>1, KeyOf DEF Succeed, Types
    <3>3. ValueOf(call[c]) = ValueOf([bearer |-> a, entry |-> told'[a]])
      BY <2>1, <3>1 DEF ValueOf
    <3>4. \A d \in Caller : call'[d].bearer # a
      BY <1>2, <2>1, <3>1, BearerAssumption DEF Succeed, AloneInv, Types, Call, NoCall
    <3> QED
      BY <2>1, <3>1, <3>2, <3>3, <3>4 DEF AloneInv
  <2>2. CASE call[c].bearer # a
    <3>1. told'[a] = told[a]
      BY <1>2, <2>2 DEF Succeed, Told, Types
    <3>2. kv'[BearerKey(a)] = kv[BearerKey(a)]
      BY <1>2, <2>2, KeyOf DEF Succeed, Types, BearerKey
    <3>3. \A d \in Caller : call'[d].bearer # a
      BY <1>2, <3>1, BearerAssumption DEF Succeed, Types, Call, NoCall
    <3> QED
      BY <3>1, <3>2, <3>3
  <2> QED
    BY <2>1, <2>2
<1>3. ASSUME NEW c \in Caller, Fail(c) PROVE ToldInv'
  BY <1>3, BearerAssumption DEF Fail, WriteOf, Types, Call, NoCall, ValueOf
<1>4. ASSUME NEW w \in late, ArriveLate(w) PROVE ToldInv'
  <2> SUFFICES ASSUME NEW a \in Bearer, told'[a] # "unknown"
               PROVE  /\ \A d \in Caller : call'[d].bearer # a
                      /\ \A v \in late' : v.bearer # a
                      /\ kv'[BearerKey(a)] = ValueOf([bearer |-> a, entry |-> told'[a]])
    OBVIOUS
  <2>1. a # w.bearer /\ told'[a] = told[a] /\ w.bearer \in Bearer
    BY <1>4 DEF ArriveLate, Types, Write
  <2>2. kv'[BearerKey(a)] = kv[BearerKey(a)]
    BY <1>4, <2>1, KeyOf, KeysDiffer DEF ArriveLate, Types
  <2> QED
    BY <1>4, <2>1, <2>2 DEF ArriveLate, Types, Call
<1>5. ASSUME NEW b \in Bearer, Damage(b) PROVE ToldInv'
  <2>1. PICK v : kv' = [kv EXCEPT ![BearerKey(b)] = v]
    BY <1>5, DamageLeaves
  <2> QED
    BY <1>5, <2>1, KeyOf, KeysDiffer DEF Damage, Types
<1>6. ASSUME NEW l \in Lookup, Ask(l) \/ Read(l) \/ Respond(l) PROVE ToldInv'
  BY <1>6 DEF Ask, Read, Respond, callVars
<1> QED
  BY <1>1, <1>2, <1>3, <1>4, <1>5, <1>6 DEF Next

-----------------------------------------------------------------------------
(* The checks.                                                             *)

\* A write of a token that leaves what was told unknown leaves no check on it sure.
LEMMA UnsureHonest ==
  ASSUME Types, LookInv, NEW b \in Bearer, Unsure(b),
         published \subseteq published', validator' = validator,
         \A a \in Bearer : a # b => told'[a] = told[a]
  PROVE  LookInv'
<1> SUFFICES ASSUME NEW l \in Lookup PROVE Honest(look[l])'
  BY DEF LookInv
<1>1. Honest(look[l]) /\ look[l] \in Look
  BY DEF LookInv, Types
<1>2. CASE look[l].asked = b
  <2>1. look'[l] = [look[l] EXCEPT !.sure = FALSE]
    BY <1>2 DEF Unsure
  <2>2. /\ look'[l].sure = FALSE /\ look'[l].token = look[l].token
        /\ look'[l].asked = look[l].asked /\ look'[l].header = look[l].header
        /\ look'[l].entry = look[l].entry
    BY <1>1, <2>1 DEF Look
  <2> QED
    BY <1>1, <2>2 DEF Honest
<1>3. CASE look[l].asked # b
  <2>1. look'[l] = look[l]
    BY <1>3 DEF Unsure
  <2> QED
    BY <1>1, <1>3, <2>1 DEF Honest, Answered, Look, MaybeBearer
<1> QED
  BY <1>2, <1>3

\* The value under the key of the token asked for, as a check finds it.
LEMMA GetsItsKey ==
  ASSUME Types, NEW b \in Bearer
  PROVE  Get(BearerKey(b)) = kv[BearerKey(b)]
BY KeyOf DEF Get, Types

\* A check that resolves names what was published, under the header of its kind.
LEMMA ReadIsGenuine ==
  ASSUME Types, WritesInv, NEW l \in Lookup, look[l].token = look[l].asked,
         NEW v, Genuine(v), v.is = "sealed",
         Open(validator, look[l].token, v.sealed).ok
  PROVE  LET e == Open(validator, look[l].token, v.sealed).entry
         IN e \in Entry /\ <<look[l].asked, e>> \in published
BY OpensOnlyItsOwn DEF Genuine

LEMMA GetIsGenuine ==
  ASSUME Types, WritesInv, NEW key
  PROVE  Genuine(Get(key))
BY DEF Get, Absent, Genuine, WritesInv, Types

\* What a check reads under a key it is sure of is what the publisher was told.
LEMMA ReadsWhatWasTold ==
  ASSUME Types, ToldInv, NEW l \in Lookup, NEW b \in Bearer, told[b] # "unknown",
         look[l].token = b, Resolve(l, Get(BearerKey(b)))
  PROVE  IF told[b] # None /\ validator = OurKey
         THEN Resolved(l, told[b]) ELSE Answer(l, 401)
<1>1. Get(BearerKey(b)) = ValueOf([bearer |-> b, entry |-> told[b]])
  BY GetsItsKey DEF ToldInv
<1>2. CASE told[b] = None
  BY <1>1, <1>2 DEF ValueOf, Absent, Resolve
<1>3. CASE told[b] # None
  <2>1. Get(BearerKey(b)) = Cell(Seal(OurKey, b, told[b])) /\ told[b] \in Entry
    BY <1>1, <1>3 DEF ValueOf, Types
  <2>2. LET opened == Open(validator, b, Seal(OurKey, b, told[b]))
        IN IF opened.ok THEN Resolved(l, opened.entry) ELSE Answer(l, 401)
    BY <2>1 DEF Resolve, Cell
  <2>3. CASE validator = OurKey
    BY <1>3, <2>1, <2>2, <2>3, OpensItsOwn DEF Opened
  <2>4. CASE validator # OurKey
    BY <2>1, <2>2, <2>4, OpensItsOwn
  <2> QED
    BY <2>3, <2>4
<1> QED
  BY <1>2, <1>3

\* What a check is after its answer, and the others with it.
LEMMA AnswerFields ==
  ASSUME Types, NEW l \in Lookup, NEW status, Answer(l, status)
  PROVE  /\ \A m \in Lookup : m # l => look'[m] = look[m]
         /\ look'[l].pc = "answer" /\ look'[l].status = status
         /\ look'[l].token = look[l].token /\ look'[l].asked = look[l].asked
         /\ look'[l].header = look[l].header /\ look'[l].entry = look[l].entry
         /\ look'[l].sure = look[l].sure
<1>1. look[l] \in Look /\ look' = [look EXCEPT ![l] = [look[l] EXCEPT !.pc = "answer",
                                                                     !.status = status]]
  BY DEF Types, Answer
<1> QED
  BY <1>1 DEF Types, Look

LEMMA ResolvedFields ==
  ASSUME Types, NEW l \in Lookup, NEW e, Resolved(l, e)
  PROVE  /\ \A m \in Lookup : m # l => look'[m] = look[m]
         /\ look'[l].pc = "answer" /\ look'[l].status = 200
         /\ look'[l].token = look[l].token /\ look'[l].asked = look[l].asked
         /\ look'[l].header = ActorHeader(e) /\ look'[l].entry = e
         /\ look'[l].sure = look[l].sure
<1>1. /\ look[l] \in Look
      /\ look' = [look EXCEPT ![l] = [look[l] EXCEPT !.pc = "answer", !.status = 200,
                                                     !.entry = e, !.header = ActorHeader(e)]]
  BY DEF Types, Resolved
<1> QED
  BY <1>1 DEF Types, Look

\* Honesty is of each check by itself.
LEMMA OneLook ==
  ASSUME Types, LookInv, NEW l \in Lookup, Honest(look[l])',
         \A m \in Lookup : m # l => look'[m] = look[m],
         UNCHANGED <<told, published, validator>>
  PROVE  LookInv'
BY DEF LookInv, Honest, Answered

LEMMA ReadStays ==
  ASSUME Types, WritesInv, ToldInv, LookInv, NEW l \in Lookup, Read(l)
  PROVE  LookInv'
<1>1. /\ look[l] \in Look /\ Honest(look[l]) /\ look[l].token = look[l].asked
      /\ UNCHANGED <<told, published, validator>>
  BY DEF Types, LookInv, Honest, Read, callVars
<1>2. CASE Answer(l, 502)
  BY <1>1, <1>2, AnswerFields, OneLook DEF Honest, Answered
<1>3. CASE Resolve(l, Get(BearerKey(look[l].token)))
  <2>1. look[l].sure /\ look[l].asked # None =>
          /\ told[look[l].asked] # "unknown"
          /\ IF told[look[l].asked] # None /\ validator = OurKey
             THEN Resolved(l, told[look[l].asked]) ELSE Answer(l, 401)
    BY <1>1, <1>3, ReadsWhatWasTold DEF Honest, Look, MaybeBearer
  <2>2. CASE \E status \in {401, 502} : Answer(l, status)
    <3>1. PICK status \in {401, 502} : Answer(l, status)
      BY <2>2
    <3>2. look[l].sure /\ look[l].asked # None => Answered(look[l])'
      BY <1>1, <2>1, <3>1, AnswerFields, ResolvedFields DEF Answered
    <3> QED
      BY <1>1, <3>1, <3>2, AnswerFields, OneLook DEF Honest
  <2>3. CASE \E e \in Entry : Resolved(l, e) /\ <<look[l].asked, e>> \in published
    <3>1. PICK e \in Entry : Resolved(l, e) /\ <<look[l].asked, e>> \in published
      BY <2>3
    <3>2. look[l].sure /\ look[l].asked # None => Answered(look[l])'
      BY <1>1, <2>1, <3>1, AnswerFields, ResolvedFields DEF Answered
    <3>3. ActorHeader(e) = "x-auth-user-id" <=> e \in Human
      BY DEF ActorHeader
    <3> QED
      BY <1>1, <3>1, <3>2, <3>3, ResolvedFields, OneLook DEF Honest
  <2>4. \/ \E status \in {401, 502} : Answer(l, status)
        \/ \E e \in Entry : Resolved(l, e) /\ <<look[l].asked, e>> \in published
    BY <1>1, <1>3, GetIsGenuine, ReadIsGenuine DEF Resolve
  <2> QED
    BY <2>2, <2>3, <2>4
<1> QED
  BY <1>2, <1>3 DEF Read

LEMMA LookStays ==
  ASSUME Types, WritesInv, ToldInv, LookInv, Next
  PROVE  LookInv'
<1>1. ASSUME NEW c \in Caller, NEW b \in Bearer, NEW e \in Entry \cup {None}, Send(c, b, e)
      PROVE  LookInv'
  BY <1>1, UnsureHonest DEF Send, Types
<1>2. ASSUME NEW c \in Caller, Succeed(c) PROVE LookInv'
  <2>1. call[c].bearer \in Bearer /\ told[call[c].bearer] = "unknown"
    BY <1>2, CallTypes DEF Succeed, Types, ToldInv
  <2>2. \A a \in Bearer : told[a] # "unknown" => told'[a] = told[a]
    BY <1>2, <2>1 DEF Succeed, Told, Types
  <2> QED
    BY <1>2, <2>2 DEF Succeed, LookInv, Honest, Answered, Types, Look, MaybeBearer
<1>3. ASSUME NEW c \in Caller, Fail(c) PROVE LookInv'
  BY <1>3 DEF Fail, LookInv, Honest, Answered
<1>4. ASSUME NEW w \in late, ArriveLate(w) PROVE LookInv'
  <2>1. w.bearer \in Bearer
    BY DEF Types, Write
  <2> QED
    BY <1>4, <2>1, UnsureHonest DEF ArriveLate, Types
<1>5. ASSUME NEW b \in Bearer, Damage(b) PROVE LookInv'
  BY <1>5, UnsureHonest DEF Damage, Types
<1>6. ASSUME NEW l \in Lookup, Ask(l) PROVE LookInv'
  <2>1. \E k \in Look : look' = [look EXCEPT ![l] = k] /\ Honest(k)
    BY <1>6, AskStarts
  <2>2. UNCHANGED <<told, published, validator>>
    BY <1>6 DEF Ask, callVars
  <2>3. PICK k \in Look : look' = [look EXCEPT ![l] = k] /\ Honest(k)
    BY <2>1
  <2>4. look'[l] = k /\ \A m \in Lookup : m # l => look'[m] = look[m]
    BY <2>3 DEF Types
  <2>5. Honest(look[l])'
    BY <2>2, <2>3, <2>4 DEF Honest, Answered
  <2> QED
    BY <2>2, <2>4, <2>5, OneLook
<1>7. ASSUME NEW l \in Lookup, Read(l) PROVE LookInv'
  BY <1>7, ReadStays
<1>8. ASSUME NEW l \in Lookup, Respond(l) PROVE LookInv'
  <2>1. Honest(NoLook)
    BY DEF Honest, NoLook
  <2> QED
    BY <1>8, <2>1 DEF Respond, callVars, LookInv, Honest, Answered, Types
<1> QED
  BY <1>1, <1>2, <1>3, <1>4, <1>5, <1>6, <1>7, <1>8 DEF Next

-----------------------------------------------------------------------------
\* The inductive invariant.
THEOREM Invariant == Spec => []BInv
<1>1. Init => BInv
  <2> SUFFICES ASSUME Init PROVE BInv
    OBVIOUS
  <2>1. Absent \in Value /\ Genuine(Absent)
    BY SealTypes DEF Absent, Value, Genuine
  <2>2. NoCall \in Call /\ Meant(NoCall) /\ NoCall.alone = FALSE /\ NoCall.bearer = None
    BY DEF NoCall, Call, Meant
  <2>3. NoLook \in Look /\ Honest(NoLook)
    BY FirstLooks, FieldValues DEF NoLook, Honest
  <2>4. \A b \in Bearer : ValueOf([bearer |-> b, entry |-> None]) = Absent
    BY DEF ValueOf
  <2>5. Types
    BY <2>1, <2>2, <2>3 DEF Init, Types, Keys
  <2>6. WritesInv /\ AloneInv
    BY <2>1, <2>2 DEF Init, WritesInv, AloneInv, Keys
  <2>7. ToldInv
    BY <2>2, <2>4, BearerAssumption DEF Init, ToldInv
  <2>8. LookInv
    BY <2>3 DEF Init, LookInv
  <2> QED
    BY <2>5, <2>6, <2>7, <2>8 DEF BInv
<1>2. BInv /\ [Next]_vars => BInv'
  <2> SUFFICES ASSUME BInv, [Next]_vars PROVE BInv'
    OBVIOUS
  <2>1. CASE Next
    BY <2>1, TypesStay, WritesStay, AloneStays, ToldStays, LookStays DEF BInv
  <2>2. CASE UNCHANGED vars
    BY <2>2 DEF vars, callVars, BInv, Types, WritesInv, Genuine, Meant, AloneInv, ToldInv,
                LookInv, Honest, Answered
  <2> QED
    BY <2>1, <2>2
<1> QED
  BY <1>1, <1>2, PTL DEF Spec

\* Every variable stays in its type (publisher and handle_bearer).
THEOREM TypesHold == Spec => []TypeOK
<1>1. BInv => TypeOK
  <2> SUFFICES ASSUME Types PROVE TypeOK
    BY DEF BInv
  <2>1. \A l \in Lookup : look[l] \in Look
    BY DEF Types
  <2>2. \A l \in Lookup : /\ look[l].status \in {0, 200, 401, 502}
                          /\ look[l].entry \in Entry \cup {None}
                          /\ {look[l].asked, look[l].token} \subseteq Bearer \cup {None}
    BY <2>1 DEF Look, Status, MaybeBearer, MaybeEntry
  <2>3. Call \subseteq [bearer : Bearer \cup {None}, entry : Entry \cup {None},
                       alone : BOOLEAN]
    <3> SUFFICES ASSUME NEW k \in Call
                 PROVE  k \in [bearer : Bearer \cup {None}, entry : Entry \cup {None},
                              alone : BOOLEAN]
      OBVIOUS
    <3>1. CASE k \in [bearer : Bearer, entry : Entry \cup {None}, alone : BOOLEAN]
      BY <3>1
    <3>2. CASE k = [bearer |-> None, entry |-> None, alone |-> FALSE]
      BY <3>2
    <3> QED
      BY <3>1, <3>2 DEF Call, NoCall
  <2>4. call \in [Caller -> [bearer : Bearer \cup {None}, entry : Entry \cup {None},
                            alone : BOOLEAN]]
    BY <2>3 DEF Types
  <2> QED
    BY <2>2, <2>4 DEF Types, TypeOK, Keys
<1> QED
  BY <1>1, Invariant, PTL

\* A bearer resolves to nothing but what was once published for that very token, under the
\* header of its kind of actor (seal, open, resolve).
THEOREM BearersResolveToWhatWasPublished == Spec => []ResolvesOnlyPublished
<1>1. BInv => ResolvesOnlyPublished
  BY DEF BInv, LookInv, Honest, ResolvesOnlyPublished
<1> QED
  BY <1>1, Invariant, PTL

\* What a publisher was told is what a check answers, until the next call on the token
\* (put_bearer, delete_bearer, resolve).
THEOREM ChecksAnswerAsTold == Spec => []AnswersAsTold
<1>1. BInv => AnswersAsTold
  <2> SUFFICES ASSUME LookInv, NEW l \in Lookup,
                      look[l].pc = "answer", look[l].sure, look[l].asked # None
               PROVE  Answered(look[l])
    BY DEF BInv, AnswersAsTold, Answered
  <2> QED
    BY DEF LookInv, Honest
<1> QED
  BY <1>1, Invariant, PTL
=============================================================================
