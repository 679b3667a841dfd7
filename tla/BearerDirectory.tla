--------------------------- MODULE BearerDirectory --------------------------
(***************************************************************************)
(* The directory of sealed bearers: publishers (crate br-auth-identity-util,*)
(* in other processes) put and retract bearers in the bucket               *)
(* PUBLISHED_LANGUAGE, and GET /auth/check resolves the bearer of an       *)
(* Authorization header against it (bearer_validator.rs, auth_check.rs).   *)
(* Nothing orders the calls of publishers among themselves: neither put    *)
(* nor retract names a revision.                                           *)
(*                                                                         *)
(* The request has no access cookie: with one, /auth/check does not look   *)
(* at the header (module SessionClock).                                    *)
(***************************************************************************)
EXTENDS BearerWire, Naturals

CONSTANTS Bearer,       \* tokens
          Caller,       \* calls of publishers under way at one time
          Lookup,       \* checks under way at one time
          None,
          MaxFaults,    \* bound: calls to the bucket that fail
          MaxDamages    \* bound: values changed by other hands

ASSUME BearerAssumption == None \notin Bearer \cup Entry /\ {MaxFaults, MaxDamages} \subseteq Nat

VARIABLES kv,         \* the bucket, by key
          call,       \* the calls of publishers
          late,       \* writes reported as failed that the bucket may still apply
          look,       \* the checks
          validator,  \* the seal key svc-auth was started with
          published,  \* history: what put_bearer was ever called with
          told,       \* history: what the last call on a token was told, or "unknown"
          spent       \* how much of each bound is used up

callVars == <<kv, call, late, published, told>>
vars == <<callVars, look, validator, spent>>

\* The seal key of the publishers, and any other one.
OurKey == "ours"
OtherKey == "theirs"

\* The value under a key: a sealed bearer, none, or JSON that is no sealed bearer.
Cell(sealed) == [is |-> "sealed", sealed |-> sealed]
Absent == [is |-> "absent", sealed |-> Seal(OurKey, None, Garbage)]
Undecodable == [is |-> "undecodable", sealed |-> Seal(OurKey, None, Garbage)]

Write == [bearer : Bearer, entry : Entry \cup {None}]
NoCall == [bearer |-> None, entry |-> None, alone |-> FALSE]
NoLook == [pc |-> "idle", asked |-> None, token |-> None, status |-> 0,
           header |-> "none", entry |-> None, sure |-> FALSE]

Spend(x, max) == spent[x] < max /\ spent' = [spent EXCEPT ![x] = @ + 1]

-----------------------------------------------------------------------------
(* Publishers.                                                             *)

\* What a write leaves under the token's key: a sealed entry, or nothing.
ValueOf(w) == IF w.entry = None THEN Absent ELSE Cell(Seal(OurKey, w.bearer, w.entry))

OnBearer(b) == {c \in Caller : call[c].bearer = b}

\* Checks under way on a token of which the directory no longer is as it was told.
Unsure(b) == look' = [l \in Lookup |-> IF look[l].asked = b
                                       THEN [look[l] EXCEPT !.sure = FALSE] ELSE look[l]]

\* put_bearer (an entry), or delete_bearer (None), is called: it seals, and sends.  A
\* call is alone while no other one on its token is under way, nor late.
Send(c, b, e) ==
  /\ call[c] = NoCall
  /\ LET alone == OnBearer(b) = {} /\ ~\E w \in late : w.bearer = b IN
       call' = [d \in Caller |->
                  IF d = c THEN [bearer |-> b, entry |-> e, alone |-> alone]
                  ELSE IF call[d].bearer = b THEN [call[d] EXCEPT !.alone = FALSE]
                  ELSE call[d]]
  /\ published' = IF e = None THEN published ELSE published \cup {<<b, e>>}
  /\ told' = [told EXCEPT ![b] = "unknown"]
  /\ Unsure(b)
  /\ UNCHANGED <<kv, late, validator, spent>>

\* The caller is told that its write is done.
Told(c) == told' = [told EXCEPT ![call[c].bearer] =
                      IF call[c].alone THEN call[c].entry ELSE "unknown"]

\* The bucket applies the write and says so.
Succeed(c) ==
  /\ call[c] # NoCall
  /\ kv' = [kv EXCEPT ![BearerKey(call[c].bearer)] = ValueOf(call[c])]
  /\ Told(c)
  /\ call' = [call EXCEPT ![c] = NoCall]
  /\ UNCHANGED <<late, published, look, validator, spent>>

WriteOf(c) == [bearer |-> call[c].bearer, entry |-> call[c].entry]

\* The call fails, and the write may arrive later or never.
Fail(c) ==
  /\ call[c] # NoCall /\ Spend("fault", MaxFaults)
  /\ late' = late \cup {WriteOf(c)}
  /\ call' = [call EXCEPT ![c] = NoCall]
  /\ UNCHANGED <<kv, published, told, look, validator>>

ArriveLate(w) ==
  /\ w \in late /\ late' = late \ {w}
  /\ kv' = [kv EXCEPT ![BearerKey(w.bearer)] = ValueOf(w)]
  /\ call' = [c \in Caller |-> IF call[c].bearer = w.bearer
                               THEN [call[c] EXCEPT !.alone = FALSE] ELSE call[c]]
  /\ told' = [told EXCEPT ![w.bearer] = "unknown"]
  /\ Unsure(w.bearer)
  /\ UNCHANGED <<published, validator, spent>>

\* A value is copied under the key of another token, altered, or replaced by other JSON.
Damage(b) ==
  /\ LET own == kv[BearerKey(b)]
         values == {kv[k] : k \in DOMAIN kv} \cup {Undecodable}
                     \cup {Cell(d) : d \in IF own.is = "sealed" THEN Damaged(own.sealed) ELSE {}}
     IN kv' \in {[kv EXCEPT ![BearerKey(b)] = v] : v \in values}
  /\ kv' # kv /\ Spend("damage", MaxDamages)
  /\ told' = [told EXCEPT ![b] = "unknown"]
  /\ Unsure(b)
  /\ UNCHANGED <<call, late, published, validator>>

-----------------------------------------------------------------------------
(* GET /auth/check.                                                        *)

\* handle_bearer, the token of a header: "bearer" in any case with its space is dropped,
\* any other header is a token as it stands, which nobody has published.
TokenOf(form, b) == IF form = "other scheme" THEN None ELSE b

\* A check arrives.  A header that is not there, or is no text, is no bearer: 200.
Ask(l) ==
  /\ look[l] = NoLook
  /\ \/ \E b \in Bearer, form \in {"Bearer", "bearer", "bare", "other scheme"} :
          look' = [look EXCEPT ![l] =
                     [NoLook EXCEPT !.pc = "read",
                                    !.asked = IF form = "other scheme" THEN None ELSE b,
                                    !.token = TokenOf(form, b),
                                    !.sure = told[b] # "unknown"]]
     \/ look' = [look EXCEPT ![l] = [NoLook EXCEPT !.pc = "answer", !.status = 200]]
  /\ UNCHANGED <<callVars, validator, spent>>

\* resolved_bearer_response: the header that names the actor, by its kind.
ActorHeader(e) == IF e \in Human THEN "x-auth-user-id" ELSE "x-auth-service-account-id"

Answer(l, status) ==
  look' = [look EXCEPT ![l].pc = "answer", ![l].status = status]
Resolved(l, e) ==
  look' = [look EXCEPT ![l].pc = "answer", ![l].status = 200,
                       ![l].entry = e, ![l].header = ActorHeader(e)]

\* resolve, with the value the bucket returned: nothing, and a value that does not
\* open, are no bearer; JSON of another shape is an error of the read.
Resolve(l, value) ==
  \/ value.is = "absent" /\ Answer(l, 401)
  \/ value.is = "undecodable" /\ Answer(l, 502)
  \/ /\ value.is = "sealed"
     /\ LET opened == Open(validator, look[l].token, value.sealed) IN
          IF opened.ok THEN Resolved(l, opened.entry) ELSE Answer(l, 401)

\* The reader's get.
Get(key) == IF key \in DOMAIN kv THEN kv[key] ELSE Absent

\* Mutant: a read that fails is taken for a bearer that is not there.
ReadFailsClosed(l) ==
  /\ look[l].pc = "read"
  /\ \/ Spend("fault", MaxFaults) /\ Answer(l, 401)
     \/ /\ UNCHANGED spent
        /\ Resolve(l, Get(BearerKey(look[l].token)))
  /\ UNCHANGED <<callVars, validator>>

\* resolve: the read, and the answer.
Read(l) ==
  /\ look[l].pc = "read"
  /\ \/ Spend("fault", MaxFaults) /\ Answer(l, 502)
     \/ /\ UNCHANGED spent
        /\ Resolve(l, Get(BearerKey(look[l].token)))
  /\ UNCHANGED <<callVars, validator>>

Respond(l) ==
  /\ look[l].pc = "answer"
  /\ look' = [look EXCEPT ![l] = NoLook]
  /\ UNCHANGED <<callVars, validator, spent>>

-----------------------------------------------------------------------------
Init ==
  /\ kv = [k \in {BearerKey(b) : b \in Bearer} |-> Absent]
  /\ call = [c \in Caller |-> NoCall]
  /\ late = {}
  /\ look = [l \in Lookup |-> NoLook]
  /\ validator \in {OurKey, OtherKey}
  /\ published = {}
  /\ told = [b \in Bearer |-> None]
  /\ spent = [x \in {"fault", "damage"} |-> 0]

Next ==
  \/ \E c \in Caller : \/ \E b \in Bearer, e \in Entry \cup {None} : Send(c, b, e)
                        \/ Succeed(c) \/ Fail(c)
  \/ \E w \in late : ArriveLate(w)
  \/ \E b \in Bearer : Damage(b)
  \/ \E l \in Lookup : Ask(l) \/ Read(l) \/ Respond(l)

Spec == Init /\ [][Next]_vars

-----------------------------------------------------------------------------
\* Every variable stays in its type; in particular what is opened is an entry (open).
TypeOK ==
  /\ DOMAIN kv = {BearerKey(b) : b \in Bearer}
  /\ call \in [Caller -> [bearer : Bearer \cup {None}, entry : Entry \cup {None},
                          alone : BOOLEAN]]
  /\ late \subseteq Write
  /\ published \subseteq Bearer \X Entry
  /\ told \in [Bearer -> Entry \cup {None, "unknown"}]
  /\ \A l \in Lookup :
       /\ look[l].status \in {0, 200, 401, 502}
       /\ look[l].entry \in Entry \cup {None}
       /\ {look[l].asked, look[l].token} \subseteq Bearer \cup {None}

\* A bearer resolves to nothing but what was once published for that very token, under
\* the header of its kind of actor, whatever was copied between keys or altered in the
\* bucket and whatever arrived late (seal and open bind the value to its key).
ResolvesOnlyPublished ==
  \A l \in Lookup :
    look[l].header # "none" =>
      /\ <<look[l].asked, look[l].entry>> \in published
      /\ look[l].header = "x-auth-user-id" <=> look[l].entry \in Human

\* What a publisher was told is what a check answers: from the moment a call on a
\* token succeeds until the next one on it is sent, with none overlapping and no
\* earlier one still in flight, a put bearer resolves and a retracted one is 401; a
\* check that cannot read says 502 and never 401 (put_bearer, delete_bearer, resolve).
AnswersAsTold ==
  \A l \in Lookup :
    look[l].pc = "answer" /\ look[l].sure /\ look[l].asked # None =>
      \/ look[l].status = 502
      \/ LET e == told[look[l].asked] IN
           IF e # None /\ validator = OurKey
           THEN look[l].status = 200 /\ look[l].entry = e
           ELSE look[l].status = 401
=============================================================================
