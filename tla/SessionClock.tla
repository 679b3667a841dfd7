---------------------------- MODULE SessionClock ----------------------------
(***************************************************************************)
(* The lifetimes of a session: four clocks started by the same login and   *)
(* read at different places.                                               *)
(*   - the JWTs expire AccessTTL and RefreshTTL after they were signed, and *)
(*     verification grants Leeway more                            jwt.rs   *)
(*   - the cookies that carry them have Max-Age AccessTTL and RefreshTTL,  *)
(*     counted by the browser from the receipt                    cookie.rs *)
(*   - the rows of the refresh tokens and the revocation markers age out   *)
(*     of the bucket MaxAge after their last write    refresh_store.rs     *)
(* One browser; its requests may overlap.  Module RefreshRotation has the  *)
(* same handlers without time, with several browsers and with failures:    *)
(* here no call fails.  Both halves of /auth/check are here: the access    *)
(* cookie decides whether the refresh cookie is looked at.                 *)
(*                                                                         *)
(* A token is an id with its two JWTs, which are signed at one instant.  A *)
(* family is named by its login's token.                                   *)
(***************************************************************************)
EXTENDS Integers, FiniteSets

CONSTANTS Token,       \* ids of refresh tokens
          Request,     \* handler slots
          None,        \* no token, no cookie
          Foreign,     \* an access cookie that is not one of ours
          AccessTTL, RefreshTTL, Leeway,
          MaxAge,      \* the bucket's max_age
          MaxCall,     \* bound: time from the sending of a request to its answer
          Hoards,      \* whether the client also presents tokens it should have dropped
          Horizon      \* bound: the last instant

ASSUME TimeAssumption ==
  /\ {AccessTTL, RefreshTTL, MaxAge, MaxCall} \subseteq Nat \ {0}
  /\ {Leeway, Horizon} \subseteq Nat
  /\ Hoards \in BOOLEAN
  /\ {None, Foreign} \cap Token = {} /\ None # Foreign

VARIABLES now,
          silent,    \* AUTH_CHECK_SILENT_REFRESH
          signed,    \* when the JWTs of a token were signed, or Never
          row,       \* the row of a token, with the instant of its last write
          marker,    \* when the marker of a family was last written, or Never
          access,    \* the access cookie: its token and when the browser drops it
          refresh,   \* the refresh cookie, likewise
          req,       \* the requests
          given,     \* history: tokens that were delivered
          revokedAt  \* history: when a family's first marker was written, or Never

storeVars == <<row, marker, revokedAt>>
clientVars == <<access, refresh, given>>
vars == <<now, silent, signed, storeVars, clientVars, req>>

Never == -1
Time == 0..Horizon

Kind == {"token", "refresh", "check", "logout"}
Await == {"idle", "sent", "find", "is_revoked", "store", "mark_used", "revoke", "answer"}
Answer == {"none", "anonymous", "fresh", "unauthorized", "dropped", "no_session",
           "expired", "refused", "reuse", "rotated", "opened", "logged_out"}

NoCookie == [tok |-> None, until |-> 0]
NoRow == [family |-> None, used |-> FALSE, at |-> Never]

\* The two kinds of JWT a token comes with.
Jwt == {"access", "refresh"}

\* The access cookie of a request carries the JWT of kind jwt of token acc.
Idle == [pc |-> "idle", kind |-> "token", own |-> TRUE, jwt |-> "access", acc |-> None,
         tok |-> None, sent |-> 0, seen |-> NoRow, new |-> None, ans |-> "none"]

-----------------------------------------------------------------------------
(* The clocks.                                                             *)

\* Mutant: the default leeway of jsonwebtoken, a minute where the code sets 5 seconds.
VerifiesWithDefaultLeeway(t, exp) ==
  t \in Token /\ signed[t] # Never /\ now <= exp + 12 * Leeway

\* Mutant: exp is compared with the clock as it stands.
VerifiesWithoutLeeway(t, exp) == t \in Token /\ signed[t] # Never /\ now <= exp

\* A JWT of ours verifies until its exp, and Leeway after it.
Verifies(t, exp) == t \in Token /\ signed[t] # Never /\ now <= exp + Leeway

\* The exp that sign_access_token and sign_refresh_token write.
AccessExp(t) == signed[t] + AccessTTL
RefreshExp(t) == signed[t] + RefreshTTL

\* verify_access_token: the two kinds are signed with one key for one issuer, and a refresh
\* JWT has every claim of an access JWT: either verifies, until its own exp.
AccessVerifies(jwt, t) ==
  Verifies(t, IF jwt = "refresh" THEN RefreshExp(t) ELSE AccessExp(t))

\* verify_refresh_token: an access JWT lacks the jti.
RefreshVerifies(t) == Verifies(t, RefreshExp(t))

\* The browser drops a cookie when its Max-Age is over.
Kept(c) == IF now + 1 < c.until THEN c ELSE NoCookie

\* Set-Cookie with Max-Age = ttl, as the browser counts it.
SetCookie(t, ttl) == [tok |-> t, until |-> now + ttl]
AccessCookie(t) == SetCookie(t, AccessTTL)
RefreshCookie(t) == SetCookie(t, RefreshTTL)

\* The bucket still has what was last written at instant "at".
InBucket(at) == at # Never /\ now < at + MaxAge

-----------------------------------------------------------------------------
(* Helpers.                                                                *)

Fresh == {t \in Token : signed[t] = Never}

\* Requests that may still sign: one that may is sent only when an id is left for it
\* (bound: Token).
MaySign(q) ==
  q.pc \in {"sent", "find", "is_revoked"} /\ q.kind # "logout" /\ q.tok # None
IdsLeft == Cardinality(Fresh) > Cardinality({r \in Request : MaySign(req[r])})

GoTo(r, p) == req' = [req EXCEPT ![r].pc = p]
AnswerWith(r, a) == req' = [req EXCEPT ![r].pc = "answer", ![r].ans = a]

\* Sign the two JWTs of a fresh token and go on to store its row.
Sign(r, n) == /\ signed' = [signed EXCEPT ![n] = now]
              /\ req' = [req EXCEPT ![r].pc = "store", ![r].new = n]

\* The row a handler stores is of a new family after a login, else of the row's family.
FamilyOf(q) == IF q.kind = "token" THEN q.new ELSE q.seen.family

-----------------------------------------------------------------------------
(* The client.                                                             *)

Send(r, k, jwt, a, t, own) ==
  /\ req[r].pc = "idle" /\ (k # "logout" /\ t # None => IdsLeft)
  /\ req' = [req EXCEPT ![r] = [Idle EXCEPT !.pc = "sent", !.kind = k, !.own = own,
                                            !.jwt = jwt, !.acc = a, !.tok = t, !.sent = now]]
  /\ UNCHANGED <<now, silent, signed, storeVars, clientVars>>

\* The browser sends the cookies it still has, each with the JWT that came in it.
SendCookies(r, k) ==
  /\ k # "token"
  /\ Send(r, k, "access", IF k = "check" THEN access.tok ELSE None, refresh.tok, TRUE)

\* Bound: one login, which starts the clock.
Login(r) == /\ Fresh = Token /\ \A q \in Request : req[q].pc = "idle"
            /\ Send(r, "token", "access", None, None, TRUE)

\* A client that kept the tokens of an answer sends them whatever their Max-Age, and either
\* JWT as its access cookie.
SendKept(r) ==
  /\ Hoards
  /\ \E t \in given : \/ \E jwt \in Jwt : Send(r, "check", jwt, t, t, FALSE)
                       \/ Send(r, "refresh", "access", None, t, FALSE)

\* An access cookie that some other service, or an older secret, signed.
SendForeign(r) == Send(r, "check", "access", Foreign, refresh.tok, TRUE)

-----------------------------------------------------------------------------
(* A request reaches its handler, which runs up to its first await.        *)

Arrives(r, k) == req[r].pc = "sent" /\ req[r].kind = k
                   /\ UNCHANGED <<now, silent, storeVars, clientVars>>

\* POST /auth/token, whose id_token verified: sign, then store.
Token_(r) == Arrives(r, "token") /\ \E n \in Fresh : Sign(r, n)

\* POST /auth/refresh up to find_by_id.
Refresh(r) ==
  /\ Arrives(r, "refresh")
  /\ \/ req[r].tok = None /\ AnswerWith(r, "no_session")
     \/ req[r].tok # None /\ ~RefreshVerifies(req[r].tok) /\ AnswerWith(r, "expired")
     \/ RefreshVerifies(req[r].tok) /\ GoTo(r, "find")
  /\ UNCHANGED signed

\* POST /auth/logout up to find_by_id.
Logout(r) ==
  /\ Arrives(r, "logout")
  /\ IF RefreshVerifies(req[r].tok) THEN GoTo(r, "find") ELSE AnswerWith(r, "logged_out")
  /\ UNCHANGED signed

\* silent_refresh up to find_by_id.
SilentRefresh(r) ==
  \/ req[r].tok = None /\ AnswerWith(r, "dropped")
  \/ req[r].tok # None /\ ~RefreshVerifies(req[r].tok) /\ AnswerWith(r, "expired")
  \/ RefreshVerifies(req[r].tok) /\ GoTo(r, "find")

\* Mutant: an access token that has expired is taken for one that has not.
HandleJwtCookieTrusting(r) ==
  \/ req[r].acc # Foreign /\ AnswerWith(r, "fresh")
  \/ req[r].acc = Foreign /\ AnswerWith(r, "refused")

\* handle_jwt_cookie: the access cookie verifies, is not one of ours, or has expired.
HandleJwtCookie(r) ==
  \/ AccessVerifies(req[r].jwt, req[r].acc) /\ AnswerWith(r, "fresh")
  \/ /\ ~AccessVerifies(req[r].jwt, req[r].acc)
     /\ \/ ~silent /\ AnswerWith(r, "unauthorized")
        \/ silent /\ req[r].acc = Foreign /\ AnswerWith(r, "refused")
        \/ silent /\ req[r].acc # Foreign /\ SilentRefresh(r)

\* GET /auth/check without an Authorization header: 200 with no access cookie, and
\* nothing else is looked at.
Check(r) ==
  /\ Arrives(r, "check")
  /\ IF req[r].acc = None THEN AnswerWith(r, "anonymous") ELSE HandleJwtCookie(r)
  /\ UNCHANGED signed

-----------------------------------------------------------------------------
(* The awaits, in the order of the code.                                   *)

\* find_by_id.
Find(r) ==
  /\ req[r].pc = "find"
  /\ IF InBucket(row[req[r].tok].at)
     THEN req' = [req EXCEPT ![r].pc = IF req[r].kind = "logout"
                                       THEN "revoke" ELSE "is_revoked",
                             ![r].seen = row[req[r].tok]]
     ELSE AnswerWith(r, IF req[r].kind = "logout" THEN "logged_out" ELSE "refused")
  /\ UNCHANGED <<now, silent, signed, storeVars, clientVars>>

\* is_family_revoked; then sign and enter rotate, which first looks at used_at.  (The
\* code signs before it looks: a token signed for a replay is never stored.)
IsFamilyRevoked(r) ==
  /\ req[r].pc = "is_revoked"
  /\ LET dead == InBucket(marker[req[r].seen.family]) IN
       \/ dead /\ AnswerWith(r, "refused") /\ UNCHANGED signed
       \/ ~dead /\ req[r].seen.used /\ GoTo(r, "revoke") /\ UNCHANGED signed
       \/ ~dead /\ ~req[r].seen.used /\ \E n \in Fresh : Sign(r, n)
  /\ UNCHANGED <<now, silent, storeVars, clientVars>>

\* store.
Store(r) ==
  /\ req[r].pc = "store"
  /\ row' = [row EXCEPT ![req[r].new] =
                 [family |-> FamilyOf(req[r]), used |-> FALSE, at |-> now]]
  /\ IF req[r].kind = "token" THEN AnswerWith(r, "opened") ELSE GoTo(r, "mark_used")
  /\ UNCHANGED <<now, silent, signed, marker, revokedAt, clientVars>>

\* Mutant: the row is put as used, whatever it has become since find_by_id.
MarkUsedBlindly(r) ==
  /\ req[r].pc = "mark_used"
  /\ row' = [row EXCEPT ![req[r].tok].used = TRUE, ![req[r].tok].at = now]
  /\ AnswerWith(r, "rotated")
  /\ UNCHANGED <<now, silent, signed, marker, revokedAt, clientVars>>

\* mark_used: the compare-and-swap fails when the row was marked meanwhile, and when
\* it has left the bucket.
MarkUsed(r) ==
  /\ req[r].pc = "mark_used"
  /\ LET t == req[r].tok IN
       \/ /\ row[t] = req[r].seen /\ InBucket(row[t].at)
          /\ row' = [row EXCEPT ![t].used = TRUE, ![t].at = now]
          /\ AnswerWith(r, "rotated")
       \/ /\ ~(row[t] = req[r].seen /\ InBucket(row[t].at))
          /\ GoTo(r, "revoke")
          /\ UNCHANGED row
  /\ UNCHANGED <<now, silent, signed, marker, revokedAt, clientVars>>

\* revoke_family: a put, which starts the marker's age again.
RevokeFamily(r) ==
  /\ req[r].pc = "revoke"
  /\ LET f == req[r].seen.family IN
       /\ marker' = [marker EXCEPT ![f] = now]
       /\ revokedAt' = [revokedAt EXCEPT ![f] = IF @ = Never THEN now ELSE @]
  /\ AnswerWith(r, IF req[r].kind = "logout" THEN "logged_out" ELSE "reuse")
  /\ UNCHANGED <<now, silent, signed, row, clientVars>>

\* Mutant: cookies are set on the answer to a replay as well.
SetsCookiesOnReuse(a) == a \in {"rotated", "opened", "reuse"}

\* The answers that set both cookies, that clear both, and that clear the access cookie.
SetsCookies(a) == a \in {"rotated", "opened"}
ClearsCookies(q) == q.ans \in {"expired", "refused", "reuse", "logged_out"}
ClearsAccess(q) == q.ans = "dropped"

\* The answer reaches the client.
Respond(r) ==
  /\ req[r].pc = "answer"
  /\ LET q == req[r] IN
       /\ access' = CASE SetsCookies(q.ans) -> AccessCookie(q.new)
                      [] ClearsCookies(q) \/ ClearsAccess(q) -> NoCookie
                      [] OTHER -> access
       /\ refresh' = CASE SetsCookies(q.ans) -> RefreshCookie(q.new)
                       [] ClearsCookies(q) -> NoCookie
                       [] OTHER -> refresh
       /\ given' = IF SetsCookies(q.ans) THEN given \cup {q.new} ELSE given
  /\ req' = [req EXCEPT ![r] = Idle]
  /\ UNCHANGED <<now, silent, signed, storeVars>>

\* Time passes, but no request is on its way for longer than MaxCall.  The clock
\* starts with the login.
Tick ==
  /\ now < Horizon /\ Fresh # Token
  /\ \A r \in Request : req[r].pc = "idle" \/ now < req[r].sent + MaxCall
  /\ now' = now + 1
  /\ access' = Kept(access) /\ refresh' = Kept(refresh)
  /\ UNCHANGED <<silent, signed, storeVars, given, req>>

-----------------------------------------------------------------------------
Init ==
  /\ now = 0
  /\ silent \in BOOLEAN
  /\ signed = [t \in Token |-> Never]
  /\ row = [t \in Token |-> NoRow]
  /\ marker = [t \in Token |-> Never]
  /\ access = NoCookie /\ refresh = NoCookie
  /\ req = [r \in Request |-> Idle]
  /\ given = {}
  /\ revokedAt = [t \in Token |-> Never]

Handle(r) == \/ Token_(r) \/ Refresh(r) \/ Logout(r) \/ Check(r)
             \/ Find(r) \/ IsFamilyRevoked(r) \/ Store(r) \/ MarkUsed(r)
             \/ RevokeFamily(r) \/ Respond(r)

Next == \/ Tick
        \/ \E r \in Request :
             \/ \E k \in Kind : SendCookies(r, k)
             \/ Login(r)
             \/ SendKept(r) \/ SendForeign(r)
             \/ Handle(r)

Spec == Init /\ [][Next]_vars

-----------------------------------------------------------------------------
\* Every variable stays in its type (all handlers).
TypeOK ==
  /\ now \in Time /\ silent \in BOOLEAN
  /\ signed \in [Token -> Time \cup {Never}]
  /\ row \in [Token -> [family : Token \cup {None}, used : BOOLEAN, at : Time \cup {Never}]]
  /\ {marker, revokedAt} \subseteq [Token -> Time \cup {Never}]
  /\ {access, refresh} \subseteq [tok : Token \cup {None}, until : Nat]
  /\ given \subseteq Token
  /\ \A r \in Request :
       /\ req[r].pc \in Await /\ req[r].kind \in Kind /\ req[r].ans \in Answer
       /\ req[r].own \in BOOLEAN /\ req[r].sent \in Time /\ req[r].jwt \in Jwt
       /\ req[r].acc \in Token \cup {None, Foreign}
       /\ {req[r].tok, req[r].new} \subseteq Token \cup {None}

\* A browser that obeys Max-Age is never told that its refresh cookie has expired: as
\* long as the browser holds the cookie, the JWT in it verifies, whatever the time the
\* request and the answer that set the cookie took (Max-Age equal to the token's
\* lifetime, with Leeway on top of it).  Leeway must cover the delays of both.
CookieIsHonoured ==
  \A r \in Request : req[r].ans = "expired" => ~req[r].own

\* How long an access cookie that verifies may have been signed before.
Lifetime(jwt) == (IF jwt = "refresh" THEN RefreshTTL ELSE AccessTTL) + Leeway

\* Access ends after a revocation, although verify_access_token does not look at the store
\* and two requests overlap.  An answer on a rotation comes within one request of the first
\* revocation of the family.  An answer on an access cookie comes within one request and
\* the lifetime of the JWT in it: an access token's for a browser, which sends each JWT in
\* the cookie it came in, and a refresh token's for a client that sends that one instead
\* (is_family_revoked before every signature, handle_jwt_cookie).
AccessEnds ==
  \A r \in Request :
    LET q == req[r] IN
      /\ q.ans = "rotated" /\ revokedAt[q.seen.family] # Never =>
           now <= revokedAt[q.seen.family] + MaxCall
      /\ q.ans = "fresh" /\ revokedAt[row[q.acc].family] # Never =>
           now <= revokedAt[row[q.acc].family] + Lifetime(q.jwt) + MaxCall

\* What was revoked stays revoked, although the marker ages out of the bucket: no token
\* of a family is rotated on a marker read that came after the family's revocation (the
\* marker written by revoke_family outlives every token of the family).
RevokedStaysDead ==
  [][\A r \in Request :
       req[r].pc = "is_revoked" /\ req'[r].pc = "store" => revokedAt[req[r].seen.family] = Never]_vars

\* .env.example:19, "/auth/check performs silent refresh on expired JWT": a check whose
\* access token has expired, and whose refresh cookie is that of an open session, is
\* not answered as if nobody were there.
ExpiredSessionIsRefreshed ==
  [][\A r \in Request :
       LET t == req[r].tok IN
         /\ silent /\ req[r].ans = "none" /\ req'[r].ans = "anonymous"
         /\ RefreshVerifies(t) /\ ~AccessVerifies("access", t)
         => row[t].used \/ revokedAt[row[t].family] # Never]_vars

-----------------------------------------------------------------------------
(* What SessionFamily promises, while tokens, rows and markers age.        *)

\* A token was handed out, or will be with an answer that is decided.
HandedOut(t) ==
  t \in given \/ \E r \in Request : req[r].new = t /\ req[r].ans \in {"rotated", "opened"}

Live(f) == {t \in Token : row[t].family = f /\ ~row[t].used /\ HandedOut(t)}

\* A rotation of the family is past its look at the marker.
Rotating(f) == \E r \in Request : /\ req[r].pc \in {"store", "mark_used"}
                                 /\ req[r].kind # "token" /\ req[r].seen.family = f

CurrentOf(f) == IF Live(f) = {} THEN None ELSE CHOOSE t \in Live(f) : TRUE

PhaseOf(f) == IF row[f].family # f THEN "unopened"
              ELSE IF revokedAt[f] = Never THEN "open"
              ELSE IF Rotating(f) THEN "closing" ELSE "closed"

Session == INSTANCE SessionFamily WITH
             current <- [f \in Token |-> CurrentOf(f)],
             retired <- {t \in Token : row[t].used},
             phase <- [f \in Token |-> PhaseOf(f)]

\* Time changes nothing of the promise: while JWTs expire, cookies are dropped and rows
\* and markers leave the bucket, a session has one current token, a token is current
\* once, and a closed session stays closed although its marker is gone (find_by_id,
\* is_family_revoked, mark_used and revoke_family on a bucket with max_age).
PromisedOverTime == Session!SessionSpec
=============================================================================
