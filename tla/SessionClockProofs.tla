-------------------------- MODULE SessionClockProofs -------------------------
(***************************************************************************)
(* What was revoked stays revoked, although its marker ages out, access    *)
(* ends in time, and the sessions are those of SessionFamily: proved for   *)
(* any tokens, requests and clock constants under which the bucket keeps a *)
(* marker for longer than a token of the family, and a request that        *)
(* presents one, can last.  A browser's cookie is honoured: proved for any *)
(* clock constants under which the leeway covers two requests.             *)
(***************************************************************************)
EXTENDS SessionClock, TLAPS

\* The condition on the configuration (refresh_store.rs, max_age of the bucket).
MarkersOutlive == RefreshTTL + Leeway + MaxCall < MaxAge

Instant == Time \cup {Never}
Row == [family : Token \cup {None}, used : BOOLEAN, at : Instant]
Req == [pc : Await, kind : Kind, own : BOOLEAN, jwt : Jwt, acc : Token \cup {None, Foreign},
        tok : Token \cup {None}, sent : Time, seen : Row, new : Token \cup {None}, ans : Answer]
Cookie == [tok : Token \cup {None}, until : Nat]

Types ==
  /\ now \in Time /\ silent \in BOOLEAN
  /\ signed \in [Token -> Instant]
  /\ row \in [Token -> Row]
  /\ marker \in [Token -> Instant] /\ revokedAt \in [Token -> Instant]
  /\ access \in Cookie /\ refresh \in Cookie
  /\ req \in [Request -> Req]
  /\ given \subseteq Token \cup {None}

\* Past its signature check, with a row in hand.
Holding(q) == q.kind # "token" /\ q.pc \in {"is_revoked", "store", "mark_used", "revoke"}

\* A request is on its way for MaxCall at most, and presented a token that verified.
OnTime(q) ==
  /\ q.pc # "idle" => q.sent <= now /\ now <= q.sent + MaxCall
  /\ q.pc \in {"find", "is_revoked", "mark_used", "revoke"} => q.kind # "token"
  /\ q.pc = "find" \/ Holding(q) =>
       /\ q.tok \in Token /\ signed[q.tok] # Never
       /\ q.sent <= signed[q.tok] + RefreshTTL + Leeway

\* Token t, of family f, was signed, and not after f was revoked.
SignedInTime(t, f) ==
  /\ t \in Token /\ f \in Token /\ signed[t] # Never /\ signed[f] # Never
  /\ revokedAt[f] # Never => signed[t] <= revokedAt[f]

SignedInv ==
  /\ \A t \in Token : signed[t] <= now
  /\ \A f \in Token : revokedAt[f] # Never =>
       /\ signed[f] # Never
       /\ marker[f] # Never /\ revokedAt[f] <= marker[f] /\ revokedAt[f] <= now
  /\ \A t \in Token : row[t].at # Never => SignedInTime(t, row[t].family)
  /\ \A r \in Request :
       /\ Holding(req[r]) => SignedInTime(req[r].tok, req[r].seen.family)
       /\ req[r].pc = "store" => SignedInTime(req[r].new, FamilyOf(req[r]))

TimeInv == \A r \in Request : OnTime(req[r])

CInv == Types /\ TimeInv /\ SignedInv

\* A marker that was written is still there while a request of its family is on its way.
LEMMA MarkerOutlives ==
  ASSUME MarkersOutlive, CInv, NEW r \in Request, req[r].pc = "is_revoked",
         revokedAt[req[r].seen.family] # Never
  PROVE  InBucket(marker[req[r].seen.family])
<1> DEFINE q == req[r]
           f == q.seen.family
<1>1. q \in Req /\ Holding(q) /\ OnTime(q) /\ SignedInTime(q.tok, f)
  BY DEF CInv, Types, TimeInv, SignedInv, OnTime, Holding
<1>2. f \in Token /\ q.tok \in Token /\ signed[q.tok] <= revokedAt[f] /\ revokedAt[f] <= marker[f]
  BY <1>1 DEF SignedInTime, CInv, SignedInv
<1>3. now <= q.sent + MaxCall /\ q.sent <= signed[q.tok] + RefreshTTL + Leeway
  BY <1>1 DEF OnTime
<1>4. /\ now \in Int /\ q.sent \in Int /\ signed[q.tok] \in Int /\ revokedAt[f] \in Int
      /\ marker[f] \in Int /\ marker[f] # Never
  BY <1>1, <1>2, TimeAssumption DEF CInv, Types, Req, Time, Instant, Never, SignedInv
<1>5. RefreshTTL \in Int /\ Leeway \in Int /\ MaxCall \in Int /\ MaxAge \in Int
  BY TimeAssumption
<1> HIDE DEF q, f
<1> QED
  BY <1>2, <1>3, <1>4, <1>5 DEF MarkersOutlive, InBucket, q, f

\* The step that goes on after the marker was read finds the family unrevoked.
LEMMA NotRevoked ==
  ASSUME MarkersOutlive, CInv, NEW r \in Request, IsFamilyRevoked(r),
         req'[r].pc \in {"store", "revoke"}
  PROVE  revokedAt[req[r].seen.family] = Never
<1>1. InBucket(marker[req[r].seen.family]) => req'[r].pc = "answer"
  BY DEF IsFamilyRevoked, AnswerWith, CInv, Types, Req
<1> QED
  BY <1>1, MarkerOutlives DEF IsFamilyRevoked

-----------------------------------------------------------------------------
(* What the steps of a handler do to its request.                          *)

\* A step of request r leaves the other requests alone, and what r was sent with.
Keeps(r) ==
  /\ \A m \in Request : m # r => req'[m] = req[m]
  /\ req'[r].kind = req[r].kind /\ req'[r].tok = req[r].tok
  /\ req'[r].jwt = req[r].jwt /\ req'[r].acc = req[r].acc
  /\ req'[r].sent = req[r].sent /\ req'[r].own = req[r].own

LEMMA GoToIs ==
  ASSUME Types, NEW r \in Request, NEW p \in Await, GoTo(r, p)
  PROVE  /\ req' \in [Request -> Req] /\ Keeps(r)
         /\ req'[r].pc = p /\ req'[r].ans = req[r].ans
         /\ req'[r].seen = req[r].seen /\ req'[r].new = req[r].new
<1>1. req[r] \in Req /\ req' = [req EXCEPT ![r] = [req[r] EXCEPT !.pc = p]]
  BY DEF Types, GoTo
<1>2. [req[r] EXCEPT !.pc = p] \in Req
  BY <1>1 DEF Req
<1> QED
  BY <1>1, <1>2 DEF Types, Keeps, Req

LEMMA AnswerIs ==
  ASSUME Types, NEW r \in Request, NEW a \in Answer, AnswerWith(r, a)
  PROVE  /\ req' \in [Request -> Req] /\ Keeps(r)
         /\ req'[r].pc = "answer" /\ req'[r].ans = a
         /\ req'[r].seen = req[r].seen /\ req'[r].new = req[r].new
<1>1. req[r] \in Req /\ req' = [req EXCEPT ![r] = [req[r] EXCEPT !.pc = "answer", !.ans = a]]
  BY DEF Types, AnswerWith
<1>2. [req[r] EXCEPT !.pc = "answer", !.ans = a] \in Req
  BY <1>1 DEF Req, Await
<1> QED
  BY <1>1, <1>2 DEF Types, Keeps, Req

LEMMA SignIs ==
  ASSUME Types, NEW r \in Request, NEW n \in Token, Sign(r, n)
  PROVE  /\ req' \in [Request -> Req] /\ Keeps(r)
         /\ req'[r].pc = "store" /\ req'[r].ans = req[r].ans
         /\ req'[r].seen = req[r].seen /\ req'[r].new = n
         /\ signed' = [signed EXCEPT ![n] = now]
<1>1. req[r] \in Req /\ req' = [req EXCEPT ![r] = [req[r] EXCEPT !.pc = "store", !.new = n]]
  BY DEF Types, Sign
<1>2. [req[r] EXCEPT !.pc = "store", !.new = n] \in Req
  BY <1>1 DEF Req, Await
<1> QED
  BY <1>1, <1>2 DEF Types, Keeps, Req, Sign

\* Request r has been sent, with a as its access cookie and t as its refresh token.
Sent(r, a, t, own) ==
  /\ req' \in [Request -> Req]
  /\ \A m \in Request : m # r => req'[m] = req[m]
  /\ req'[r].pc = "sent" /\ req'[r].sent = now
  /\ req'[r].acc = a /\ req'[r].ans = "none"
  /\ req'[r].tok = t /\ req'[r].own = own

LEMMA SendIs ==
  ASSUME Types, NEW r \in Request
  PROVE  \A k \in Kind, jwt \in Jwt, a \in Token \cup {None, Foreign}, t \in Token \cup {None},
            own \in BOOLEAN : Send(r, k, jwt, a, t, own) => Sent(r, a, t, own)
<1> SUFFICES ASSUME NEW k \in Kind, NEW jwt \in Jwt, NEW a \in Token \cup {None, Foreign},
                    NEW t \in Token \cup {None}, NEW own \in BOOLEAN,
                    Send(r, k, jwt, a, t, own)
             PROVE  Sent(r, a, t, own)
  OBVIOUS
<1> DEFINE q == [Idle EXCEPT !.pc = "sent", !.kind = k, !.own = own,
                             !.jwt = jwt, !.acc = a, !.tok = t, !.sent = now]
<1>1. req' = [req EXCEPT ![r] = q]
  BY DEF Send
<1>2. /\ q \in Req /\ q.pc = "sent" /\ q.sent = now /\ q.acc = a /\ q.ans = "none"
      /\ q.tok = t /\ q.own = own
  BY DEF Idle, NoRow, Row, Req, Await, Answer, Instant, Types, Jwt
<1> HIDE DEF q
<1> QED
  BY <1>1, <1>2 DEF Types, Sent

\* Every way to send a request is Send.
LEMMA SendsAre ==
  ASSUME Types, NEW r \in Request,
         \/ \E k \in Kind : SendCookies(r, k)
         \/ Login(r) \/ SendKept(r) \/ SendForeign(r)
  PROVE  \E k \in Kind, jwt \in Jwt, a \in Token \cup {None, Foreign}, t \in Token \cup {None},
            own \in BOOLEAN : /\ Send(r, k, jwt, a, t, own)
                              /\ a \in {None, Foreign, access.tok} \cup given
                              /\ own => t \in {None, refresh.tok}
BY DEF SendCookies, Login, SendKept, SendForeign, Types, Cookie, Kind, Jwt

-----------------------------------------------------------------------------
(* Types.                                                                  *)

LEMMA CookieTypes ==
  ASSUME Types
  PROVE  /\ NoCookie \in Cookie
         /\ \A t \in Token \cup {None} : AccessCookie(t) \in Cookie /\ RefreshCookie(t) \in Cookie
BY TimeAssumption DEF NoCookie, AccessCookie, RefreshCookie, SetCookie, Cookie, Types, Time

LEMMA TypesStay == ASSUME Types, TimeInv, Next PROVE Types'
<1>1. ASSUME NEW r \in Request, \/ \E k \in Kind : SendCookies(r, k)
                                \/ Login(r) \/ SendKept(r) \/ SendForeign(r)
      PROVE  Types'
  <2>1. PICK k \in Kind, jwt \in Jwt, a \in Token \cup {None, Foreign}, t \in Token \cup {None},
             own \in BOOLEAN : Send(r, k, jwt, a, t, own)
    BY <1>1, SendsAre
  <2>2. Sent(r, a, t, own)
    BY <2>1, SendIs
  <2> QED
    BY <2>1, <2>2 DEF Sent, Send, Types, storeVars, clientVars
<1>2. ASSUME NEW r \in Request, Token_(r) PROVE Types'
  BY <1>2, SignIs DEF Token_, Arrives, Fresh, Types, storeVars, clientVars, Instant
<1>3. ASSUME NEW r \in Request, Refresh(r) \/ Logout(r) \/ Check(r) PROVE Types'
  <2>1. \/ \E p \in Await : GoTo(r, p)
        \/ \E a \in Answer : AnswerWith(r, a)
    BY <1>3 DEF Refresh, Logout, Check, HandleJwtCookie, SilentRefresh, Answer, Await
  <2>2. req' \in [Request -> Req]
    BY <2>1, GoToIs, AnswerIs
  <2> QED
    BY <1>3, <2>2 DEF Refresh, Logout, Check, Arrives, Types, storeVars, clientVars
<1>4. ASSUME NEW r \in Request, Find(r) PROVE Types'
  <2>1. row[req[r].tok] \in Row
    BY <1>4 DEF Find, TimeInv, OnTime, Types
  <2>2. CASE \E p \in {"revoke", "is_revoked"} :
               req' = [req EXCEPT ![r] = [req[r] EXCEPT !.pc = p, !.seen = row[req[r].tok]]]
    <3>1. PICK p \in {"revoke", "is_revoked"} :
            req' = [req EXCEPT ![r] = [req[r] EXCEPT !.pc = p, !.seen = row[req[r].tok]]]
      BY <2>2
    <3>2. [req[r] EXCEPT !.pc = p, !.seen = row[req[r].tok]] \in Req
      BY <2>1 DEF Types, Req, Await
    <3> QED
      BY <1>4, <3>1, <3>2 DEF Find, Types, storeVars, clientVars
  <2>3. CASE \E a \in {"logged_out", "refused"} : AnswerWith(r, a)
    BY <1>4, <2>3, AnswerIs DEF Find, Types, storeVars, clientVars, Answer
  <2> QED
    BY <1>4, <2>2, <2>3 DEF Find
<1>5. ASSUME NEW r \in Request, IsFamilyRevoked(r) PROVE Types'
  <2>1. \/ \E p \in Await : GoTo(r, p) /\ UNCHANGED signed
        \/ \E a \in Answer : AnswerWith(r, a) /\ UNCHANGED signed
        \/ \E n \in Token : Sign(r, n)
    BY <1>5 DEF IsFamilyRevoked, Fresh, Await, Answer
  <2>2. req' \in [Request -> Req]
    BY <2>1, GoToIs, AnswerIs, SignIs
  <2>3. signed' \in [Token -> Instant]
    BY <2>1 DEF Sign, Types, Instant
  <2> QED
    BY <1>5, <2>2, <2>3 DEF IsFamilyRevoked, Types, storeVars, clientVars
<1>6. ASSUME NEW r \in Request, Store(r) PROVE Types'
  <2>1. \/ \E p \in Await : GoTo(r, p)
        \/ \E a \in Answer : AnswerWith(r, a)
    BY <1>6 DEF Store, Await, Answer
  <2>2. req' \in [Request -> Req]
    BY <2>1, GoToIs, AnswerIs
  <2>3. [family |-> FamilyOf(req[r]), used |-> FALSE, at |-> now] \in Row
    BY DEF FamilyOf, Types, Req, Row, Instant
  <2> QED
    BY <1>6, <2>2, <2>3 DEF Store, Types, clientVars
<1>7. ASSUME NEW r \in Request, MarkUsed(r) PROVE Types'
  <2>1. \/ GoTo(r, "revoke") \/ AnswerWith(r, "rotated")
    BY <1>7 DEF MarkUsed
  <2>2. req' \in [Request -> Req]
    BY <2>1, GoToIs, AnswerIs DEF Await, Answer
  <2>3. row' \in [Token -> Row]
    <3>1. ASSUME NEW w \in Row PROVE [w EXCEPT !.used = TRUE, !.at = now] \in Row
      BY DEF Types, Row, Instant
    <3>2. \/ row' = row
          \/ row' = [row EXCEPT ![req[r].tok] =
                       [row[req[r].tok] EXCEPT !.used = TRUE, !.at = now]]
      BY <1>7 DEF MarkUsed
    <3>3. req[r].tok \in Token
      BY <1>7 DEF MarkUsed, TimeInv, OnTime, Holding
    <3>4. [row[req[r].tok] EXCEPT !.used = TRUE, !.at = now] \in Row
      BY <3>1, <3>3 DEF Types
    <3> QED
      BY <3>2, <3>4 DEF Types
  <2> QED
    BY <1>7, <2>2, <2>3 DEF MarkUsed, Types, clientVars
<1>8. ASSUME NEW r \in Request, RevokeFamily(r) PROVE Types'
  <2>1. \E a \in Answer : AnswerWith(r, a)
    BY <1>8 DEF RevokeFamily, Answer
  <2>2. req' \in [Request -> Req]
    BY <2>1, AnswerIs
  <2>3. marker' \in [Token -> Instant] /\ revokedAt' \in [Token -> Instant]
    BY <1>8 DEF RevokeFamily, Types, Instant
  <2> QED
    BY <1>8, <2>2, <2>3 DEF RevokeFamily, Types, clientVars
<1>9. ASSUME NEW r \in Request, Respond(r) PROVE Types'
  <2>1. Idle \in Req
    BY TimeAssumption DEF Idle, NoRow, Row, Req, Await, Kind, Answer, Instant, Time, Jwt
  <2>2. req[r].new \in Token \cup {None}
    BY DEF Types, Req
  <2>3. access' \in Cookie /\ refresh' \in Cookie
    BY <1>9, <2>2, CookieTypes DEF Respond, Types
  <2>4. given' \subseteq Token \cup {None} /\ req' \in [Request -> Req]
    BY <1>9, <2>1, <2>2 DEF Respond, Types
  <2> QED
    BY <1>9, <2>3, <2>4 DEF Respond, Types, storeVars
<1>10. ASSUME Tick PROVE Types'
  <2>1. \A c \in Cookie : Kept(c) \in Cookie
    BY CookieTypes DEF Kept
  <2> QED
    BY <1>10, <2>1, TimeAssumption DEF Tick, Types, Time, storeVars
<1> QED
  BY <1>1, <1>2, <1>3, <1>4, <1>5, <1>6, <1>7, <1>8, <1>9, <1>10 DEF Next, Handle

-----------------------------------------------------------------------------
(* The clocks.                                                             *)

\* A step of request r under which the instants and the store stay as they are.
LEMMA Settles ==
  ASSUME CInv, NEW r \in Request, \A m \in Request : m # r => req'[m] = req[m],
         UNCHANGED <<now, signed, row, marker, revokedAt>>,
         OnTime(req[r])',
         Holding(req[r])' => SignedInTime(req[r].tok, req[r].seen.family)',
         req'[r].pc = "store" => SignedInTime(req[r].new, FamilyOf(req[r]))'
  PROVE  TimeInv' /\ SignedInv'
<1>1. TimeInv'
  BY DEF CInv, TimeInv, OnTime, Holding
<1>2. SignedInv'
  BY DEF CInv, SignedInv, SignedInTime, Holding, FamilyOf
<1> QED
  BY <1>1, <1>2

\* An answer, and a request that is sent or over, promise nothing.
LEMMA AnswerSettles ==
  ASSUME CInv, NEW r \in Request, NEW a \in Answer, AnswerWith(r, a), req[r].pc # "idle",
         UNCHANGED <<now, signed, row, marker, revokedAt>>
  PROVE  TimeInv' /\ SignedInv'
<1>1. Keeps(r) /\ req'[r].pc = "answer"
  BY AnswerIs DEF CInv
<1>2. OnTime(req[r])'
  BY <1>1 DEF OnTime, Holding, Keeps, CInv, TimeInv
<1> QED
  BY <1>1, <1>2, Settles DEF Holding, Keeps

\* A token that verifies was signed, and its request was sent before it ceased to verify.
LEMMA FindSettles ==
  ASSUME CInv, NEW r \in Request, req[r].pc = "sent", req[r].kind # "token",
         RefreshVerifies(req[r].tok), GoTo(r, "find"),
         UNCHANGED <<now, signed, row, marker, revokedAt>>
  PROVE  TimeInv' /\ SignedInv'
<1>1. Keeps(r) /\ req'[r].pc = "find"
  BY GoToIs DEF CInv, Await
<1>2. req[r].sent <= now /\ now <= req[r].sent + MaxCall
  BY DEF CInv, TimeInv, OnTime
<1>3. /\ req[r].tok \in Token /\ signed[req[r].tok] # Never
      /\ now <= signed[req[r].tok] + RefreshTTL + Leeway
  BY DEF RefreshVerifies, RefreshExp, Verifies
<1>4. /\ now \in Int /\ req[r].sent \in Int /\ signed[req[r].tok] \in Int
      /\ RefreshTTL \in Int /\ Leeway \in Int
  BY <1>3, TimeAssumption DEF CInv, Types, Req, Time, Instant, Never
<1>5. req[r].sent <= signed[req[r].tok] + RefreshTTL + Leeway
  BY <1>2, <1>3, <1>4
<1>6. OnTime(req[r])'
  BY <1>1, <1>2, <1>3, <1>5 DEF OnTime, Holding, Keeps
<1> QED
  BY <1>1, <1>6, Settles DEF Holding, Keeps

\* A fresh token is signed now: it is of a family that has not been revoked.
LEMMA SignSettles ==
  ASSUME CInv, NEW r \in Request, req[r].pc \in {"sent", "is_revoked"}, NEW n \in Fresh,
         Sign(r, n), req[r].kind = "token" <=> req[r].pc = "sent",
         req[r].kind # "token" => revokedAt[req[r].seen.family] = Never,
         UNCHANGED <<now, row, marker, revokedAt>>
  PROVE  TimeInv' /\ SignedInv'
<1>1. n \in Token /\ signed[n] = Never
  BY DEF Fresh
<1>2. /\ Keeps(r) /\ req'[r].pc = "store" /\ req'[r].seen = req[r].seen /\ req'[r].new = n
      /\ signed' = [signed EXCEPT ![n] = now]
  BY <1>1, SignIs DEF CInv
<1>3. now \in Nat /\ now # Never
  BY TimeAssumption DEF CInv, Types, Time, Never
<1>4. /\ signed'[n] = now
      /\ \A t \in Token : signed[t] # Never => t # n /\ signed'[t] = signed[t]
  BY <1>1, <1>2 DEF CInv, Types
<1>5. \A t, f \in Token : SignedInTime(t, f) => SignedInTime(t, f)'
  BY <1>3, <1>4 DEF SignedInTime
<1>6. \A t \in Token : signed'[t] <= now
  BY <1>2, <1>3 DEF CInv, Types, SignedInv
<1>7. \A m \in Request : m # r => OnTime(req[m])'
  BY <1>2, <1>4 DEF Keeps, CInv, TimeInv, OnTime, Holding
<1>8. OnTime(req[r])'
  BY <1>2, <1>4 DEF Keeps, CInv, TimeInv, OnTime, Holding
<1>9. SignedInTime(req[r].new, FamilyOf(req[r]))'
  <2>1. CASE req[r].kind = "token"
    <3>1. FamilyOf(req[r])' = n
      BY <1>2, <2>1 DEF Keeps, FamilyOf
    <3>2. revokedAt[n] = Never
      BY <1>1 DEF CInv, SignedInv
    <3> QED
      BY <1>1, <1>2, <1>3, <1>4, <3>1, <3>2 DEF SignedInTime
  <2>2. CASE req[r].kind # "token"
    <3>1. FamilyOf(req[r])' = req[r].seen.family
      BY <1>2, <2>2 DEF Keeps, FamilyOf
    <3>2. SignedInTime(req[r].tok, req[r].seen.family)
      BY <2>2 DEF CInv, SignedInv, Holding
    <3> QED
      BY <1>1, <1>2, <1>3, <1>4, <2>2, <3>1, <3>2 DEF SignedInTime
  <2> QED
    BY <2>1, <2>2
<1>10. Holding(req[r])' => SignedInTime(req[r].tok, req[r].seen.family)'
  BY <1>2, <1>5 DEF Keeps, CInv, SignedInv, Holding, SignedInTime
<1>11. \A m \in Request : m # r =>
         /\ Holding(req[m])' => SignedInTime(req[m].tok, req[m].seen.family)'
         /\ req'[m].pc = "store" => SignedInTime(req[m].new, FamilyOf(req[m]))'
  <2> SUFFICES ASSUME NEW m \in Request, m # r
               PROVE  /\ Holding(req[m])' => SignedInTime(req[m].tok, req[m].seen.family)'
                      /\ req'[m].pc = "store" => SignedInTime(req[m].new, FamilyOf(req[m]))'
    OBVIOUS
  <2>1. req'[m] = req[m]
    BY <1>2 DEF Keeps
  <2>2. Holding(req[m]) => SignedInTime(req[m].tok, req[m].seen.family)
    BY DEF CInv, SignedInv
  <2>3. req[m].pc = "store" => SignedInTime(req[m].new, FamilyOf(req[m]))
    BY DEF CInv, SignedInv
  <2> QED
    BY <2>1, <2>2, <2>3, <1>3, <1>4 DEF SignedInTime, Holding, FamilyOf
<1>12. \A t \in Token : row[t].at # Never => SignedInTime(t, row[t].family)'
  BY <1>5 DEF CInv, SignedInv, SignedInTime
<1>13. SignedInv'
  BY <1>4, <1>6, <1>9, <1>10, <1>11, <1>12 DEF CInv, SignedInv
<1> QED
  BY <1>7, <1>8, <1>13 DEF TimeInv

\* A request that goes on with the row it holds.
LEMMA GoOnSettles ==
  ASSUME CInv, NEW r \in Request, NEW p \in {"mark_used", "revoke"}, GoTo(r, p),
         Holding(req[r]), UNCHANGED <<now, signed, marker, revokedAt>>,
         \A t \in Token : row'[t].at # Never => SignedInTime(t, row'[t].family)
  PROVE  TimeInv' /\ SignedInv'
<1>1. /\ Keeps(r) /\ req'[r].pc = p /\ req'[r].seen = req[r].seen
  BY GoToIs DEF CInv, Await
<1>2. TimeInv'
  BY <1>1 DEF Keeps, CInv, TimeInv, OnTime, Holding
<1>3. SignedInTime(req[r].tok, req[r].seen.family)
  BY DEF CInv, SignedInv
<1>4. SignedInv'
  BY <1>1, <1>3 DEF Keeps, CInv, SignedInv, SignedInTime, Holding, FamilyOf
<1> QED
  BY <1>2, <1>4

LEMMA StoreSettles == ASSUME CInv, NEW r \in Request, Store(r) PROVE TimeInv' /\ SignedInv'
<1>1. SignedInTime(req[r].new, FamilyOf(req[r]))
  BY DEF Store, CInv, SignedInv
<1>2. row' = [row EXCEPT ![req[r].new] =
                [family |-> FamilyOf(req[r]), used |-> FALSE, at |-> now]]
  BY DEF Store
<1>3. \A t \in Token : row'[t].at # Never => SignedInTime(t, row'[t].family)
  BY <1>1, <1>2 DEF CInv, Types, SignedInv
<1>4. CASE req[r].kind = "token"
  <2>1. Keeps(r) /\ req'[r].pc = "answer" /\ UNCHANGED <<now, signed, marker, revokedAt>>
    BY <1>4, AnswerIs DEF Store, CInv, Answer
  <2>2. TimeInv'
    BY <2>1 DEF Store, Keeps, CInv, TimeInv, OnTime, Holding
  <2>3. SignedInv'
    BY <2>1, <1>3 DEF Keeps, CInv, SignedInv, SignedInTime, Holding, FamilyOf
  <2> QED
    BY <2>2, <2>3
<1>5. CASE req[r].kind # "token"
  BY <1>3, <1>5, GoOnSettles DEF Store, Holding
<1> QED
  BY <1>4, <1>5

LEMMA MarkUsedSettles ==
  ASSUME CInv, NEW r \in Request, MarkUsed(r)
  PROVE  TimeInv' /\ SignedInv'
<1>1. Holding(req[r]) /\ req[r].tok \in Token /\ SignedInTime(req[r].tok, req[r].seen.family)
  BY DEF MarkUsed, Holding, CInv, TimeInv, OnTime, SignedInv
<1>2. CASE GoTo(r, "revoke") /\ UNCHANGED row
  BY <1>1, <1>2, GoOnSettles DEF MarkUsed, CInv, SignedInv
<1>3. CASE /\ row[req[r].tok] = req[r].seen /\ AnswerWith(r, "rotated")
           /\ row' = [row EXCEPT ![req[r].tok].used = TRUE, ![req[r].tok].at = now]
  <2>1. /\ Keeps(r) /\ req'[r].pc = "answer" /\ UNCHANGED <<now, signed, marker, revokedAt>>
    BY <1>3, AnswerIs DEF MarkUsed, CInv, Answer
  <2>2. \A t \in Token : row'[t].family = row[t].family
                         /\ (t # req[r].tok => row'[t] = row[t])
    BY <1>1, <1>3 DEF CInv, Types, Row
  <2>3. \A t \in Token : row'[t].at # Never => SignedInTime(t, row'[t].family)
    BY <1>1, <1>3, <2>2 DEF CInv, SignedInv
  <2>4. TimeInv'
    BY <2>1 DEF MarkUsed, Keeps, CInv, TimeInv, OnTime, Holding
  <2>5. SignedInv'
    BY <2>1, <2>3 DEF Keeps, CInv, SignedInv, SignedInTime, Holding, FamilyOf
  <2> QED
    BY <2>4, <2>5
<1> QED
  BY <1>2, <1>3 DEF MarkUsed

LEMMA RevokeSettles ==
  ASSUME CInv, NEW r \in Request, RevokeFamily(r)
  PROVE  TimeInv' /\ SignedInv'
<1> DEFINE f == req[r].seen.family
<1>1. Holding(req[r]) /\ SignedInTime(req[r].tok, f) /\ f \in Token
  BY DEF RevokeFamily, Holding, CInv, TimeInv, OnTime, SignedInv, SignedInTime
<1>2. Keeps(r) /\ req'[r].pc = "answer" /\ UNCHANGED <<now, signed, row>>
  BY AnswerIs DEF RevokeFamily, CInv, Answer
<1>3. now \in Nat /\ now # Never
  BY TimeAssumption DEF CInv, Types, Time, Never
<1>4. /\ marker'[f] = now
      /\ revokedAt'[f] = IF revokedAt[f] = Never THEN now ELSE revokedAt[f]
      /\ \A g \in Token : g # f => marker'[g] = marker[g] /\ revokedAt'[g] = revokedAt[g]
  BY <1>1 DEF RevokeFamily, CInv, Types
<1>5. \A t \in Token : signed[t] <= now
  BY DEF CInv, SignedInv
<1>6. \A t, g \in Token : SignedInTime(t, g) => SignedInTime(t, g)'
  BY <1>2, <1>4, <1>5 DEF SignedInTime
<1>7. \A g \in Token : revokedAt'[g] # Never =>
        /\ signed[g] # Never
        /\ marker'[g] # Never /\ revokedAt'[g] <= marker'[g] /\ revokedAt'[g] <= now
  BY <1>1, <1>3, <1>4 DEF CInv, SignedInv, SignedInTime
<1>8. TimeInv'
  BY <1>2 DEF RevokeFamily, Keeps, CInv, TimeInv, OnTime, Holding
<1>9. \A t \in Token : row[t].at # Never => SignedInTime(t, row[t].family)'
  BY <1>2, <1>6 DEF CInv, SignedInv, SignedInTime
<1>10. \A m \in Request : m # r =>
         /\ Holding(req[m])' => SignedInTime(req[m].tok, req[m].seen.family)'
         /\ req'[m].pc = "store" => SignedInTime(req[m].new, FamilyOf(req[m]))'
  BY <1>2, <1>6 DEF Keeps, CInv, SignedInv, SignedInTime, Holding, FamilyOf
<1>11. SignedInv'
  BY <1>2, <1>5, <1>7, <1>9, <1>10 DEF SignedInv, Holding
<1> QED
  BY <1>8, <1>11

LEMMA FindsSettle == ASSUME CInv, NEW r \in Request, Find(r) PROVE TimeInv' /\ SignedInv'
<1> DEFINE q == req[r]
<1>1. q \in Req /\ q.kind # "token" /\ q.tok \in Token /\ OnTime(q) /\ q.pc = "find"
  BY DEF Find, CInv, Types, TimeInv, OnTime
<1>2. CASE InBucket(row[q.tok].at)
  <2>1. SignedInTime(q.tok, row[q.tok].family)
    BY <1>1, <1>2 DEF InBucket, CInv, SignedInv
  <2>2. PICK p \in {"revoke", "is_revoked"} :
          req' = [req EXCEPT ![r] = [q EXCEPT !.pc = p, !.seen = row[q.tok]]]
    BY <1>2 DEF Find
  <2>3. /\ Keeps(r) /\ req'[r].pc = p /\ req'[r].seen = row[q.tok]
    BY <1>1, <2>2 DEF CInv, Types, Req, Keeps
  <2>4. UNCHANGED <<now, signed, row, marker, revokedAt>>
    BY DEF Find, storeVars
  <2>5. OnTime(req[r])'
    BY <1>1, <2>3, <2>4 DEF OnTime, Holding, Keeps
  <2>6. SignedInTime(req[r].tok, req[r].seen.family)'
    BY <2>1, <2>3, <2>4 DEF SignedInTime, Keeps
  <2> QED
    BY <2>3, <2>4, <2>5, <2>6, Settles DEF Keeps
<1>3. CASE ~InBucket(row[q.tok].at)
  BY <1>3, AnswerSettles DEF Find, storeVars, Answer
<1> QED
  BY <1>2, <1>3

LEMMA ClocksStay ==
  ASSUME MarkersOutlive, CInv, Next
  PROVE  TimeInv' /\ SignedInv'
<1>1. ASSUME NEW r \in Request, \/ \E k \in Kind : SendCookies(r, k)
                                \/ Login(r) \/ SendKept(r) \/ SendForeign(r)
      PROVE  TimeInv' /\ SignedInv'
  <2>1. PICK k \in Kind, jwt \in Jwt, a \in Token \cup {None, Foreign}, t \in Token \cup {None},
             own \in BOOLEAN : Send(r, k, jwt, a, t, own)
    BY <1>1, SendsAre DEF CInv
  <2>2. /\ \A m \in Request : m # r => req'[m] = req[m]
        /\ req'[r].pc = "sent" /\ req'[r].sent = now
    <3>1. Types
      BY DEF CInv
    <3>2. Sent(r, a, t, own)
      BY <2>1, <3>1, SendIs
    <3> QED
      BY <3>2 DEF Sent
  <2>3. UNCHANGED <<now, signed, row, marker, revokedAt>>
    BY <2>1 DEF Send, storeVars
  <2>4. OnTime(req[r])'
    BY <2>2, <2>3, TimeAssumption DEF OnTime, Holding, CInv, Types, Time
  <2> QED
    BY <2>2, <2>3, <2>4, Settles DEF Holding
<1>2. ASSUME NEW r \in Request, Token_(r) PROVE TimeInv' /\ SignedInv'
  BY <1>2, SignSettles DEF Token_, Arrives, storeVars
<1>3. ASSUME NEW r \in Request, Refresh(r) \/ Logout(r) \/ Check(r)
      PROVE  TimeInv' /\ SignedInv'
  <2>1. /\ req[r].pc = "sent" /\ req[r].kind # "token"
        /\ UNCHANGED <<now, signed, row, marker, revokedAt>>
    BY <1>3 DEF Refresh, Logout, Check, Arrives, storeVars
  <2>2. \/ \E a \in Answer : AnswerWith(r, a)
        \/ RefreshVerifies(req[r].tok) /\ GoTo(r, "find")
    BY <1>3 DEF Refresh, Logout, Check, HandleJwtCookie, SilentRefresh, Answer
  <2> QED
    BY <2>1, <2>2, AnswerSettles, FindSettles
<1>4. ASSUME NEW r \in Request, IsFamilyRevoked(r) PROVE TimeInv' /\ SignedInv'
  <2>1. /\ Holding(req[r]) /\ req[r].kind # "token"
        /\ UNCHANGED <<now, row, marker, revokedAt>>
    BY <1>4 DEF IsFamilyRevoked, storeVars, CInv, TimeInv, OnTime, Holding
  <2>2. CASE \E a \in Answer : AnswerWith(r, a) /\ UNCHANGED signed
    BY <1>4, <2>1, <2>2, AnswerSettles DEF IsFamilyRevoked
  <2>3. CASE GoTo(r, "revoke") /\ UNCHANGED signed
    BY <1>4, <2>1, <2>3, GoOnSettles DEF CInv, SignedInv
  <2>4. CASE \E n \in Fresh : Sign(r, n)
    <3>1. PICK n \in Fresh : Sign(r, n)
      BY <2>4
    <3>2. req'[r].pc = "store"
      BY <3>1, SignIs DEF Fresh, CInv
    <3>3. revokedAt[req[r].seen.family] = Never
      BY <1>4, <3>2, NotRevoked
    <3> QED
      BY <1>4, <2>1, <3>1, <3>3, SignSettles DEF IsFamilyRevoked
  <2> QED
    BY <1>4, <2>2, <2>3, <2>4 DEF IsFamilyRevoked, Answer
<1>5. ASSUME NEW r \in Request, Respond(r) PROVE TimeInv' /\ SignedInv'
  <2>1. /\ req' = [req EXCEPT ![r] = Idle]
        /\ UNCHANGED <<now, signed, row, marker, revokedAt>>
    BY <1>5 DEF Respond, storeVars
  <2>2. req'[r].pc = "idle" /\ \A m \in Request : m # r => req'[m] = req[m]
    BY <2>1 DEF CInv, Types, Idle
  <2> QED
    BY <2>1, <2>2, Settles DEF OnTime, Holding
<1>6. ASSUME Tick PROVE TimeInv' /\ SignedInv'
  <2>1. now' = now + 1 /\ UNCHANGED <<signed, row, marker, revokedAt, req>>
    BY <1>6 DEF Tick, storeVars
  <2>2. /\ now \in Int /\ \A t \in Token : signed[t] \in Int /\ revokedAt[t] \in Int
        /\ MaxCall \in Int /\ \A r \in Request : req[r].sent \in Int
    BY TimeAssumption DEF CInv, Types, Time, Instant, Never, Req
  <2>3. TimeInv'
    BY <1>6, <2>1, <2>2 DEF Tick, CInv, TimeInv, OnTime, Holding
  <2>4. SignedInv'
    BY <2>1, <2>2 DEF CInv, SignedInv, SignedInTime, Holding, FamilyOf
  <2> QED
    BY <2>3, <2>4
<1> QED
  BY <1>1, <1>2, <1>3, <1>4, <1>5, <1>6, FindsSettle, StoreSettles, MarkUsedSettles,
     RevokeSettles DEF Next, Handle

\* The step of a request that reads the marker, and of no other, takes it to its store.
LEMMA OnlyItsOwnStep ==
  ASSUME Types, Next, NEW r \in Request, req[r].pc = "is_revoked", req'[r].pc = "store"
  PROVE  IsFamilyRevoked(r)
<1>1. ASSUME NEW m \in Request, m # r,
             \/ \E k \in Kind : SendCookies(m, k)
             \/ Login(m) \/ SendKept(m) \/ SendForeign(m)
      PROVE  req'[r] = req[r]
  <2>1. PICK k \in Kind, jwt \in Jwt, a \in Token \cup {None, Foreign}, t \in Token \cup {None},
             own \in BOOLEAN : /\ Send(m, k, jwt, a, t, own)
                               /\ a \in {None, Foreign, access.tok} \cup given
                               /\ own => t \in {None, refresh.tok}
    <3>1. \/ \E k \in Kind : SendCookies(m, k)
          \/ Login(m) \/ SendKept(m) \/ SendForeign(m)
      BY <1>1
    <3> QED
      BY <3>1, SendsAre
  <2>2. Sent(m, a, t, own)
    BY <2>1, SendIs
  <2> QED
    BY <1>1, <2>2 DEF Sent
<1>2. ASSUME NEW m \in Request, m # r, Handle(m) PROVE req'[r] = req[r]
  BY <1>2 DEF Types, Handle, Token_, Refresh, Logout, Check, HandleJwtCookie, SilentRefresh,
              Find, IsFamilyRevoked, Store, MarkUsed, RevokeFamily, Respond,
              Sign, GoTo, AnswerWith
<1>3. ASSUME \/ \E k \in Kind : SendCookies(r, k)
             \/ Login(r) \/ SendKept(r) \/ SendForeign(r)
      PROVE  req[r].pc = "idle"
  BY <1>3, SendsAre DEF Send
<1>4. ASSUME Handle(r) PROVE IsFamilyRevoked(r)
  BY <1>4 DEF Handle, Token_, Refresh, Logout, Check, Arrives, Find, Store, MarkUsed,
              RevokeFamily, Respond
<1>5. ASSUME Tick PROVE req' = req
  BY <1>5 DEF Tick
<1> QED
  BY <1>1, <1>2, <1>3, <1>4, <1>5 DEF Next

-----------------------------------------------------------------------------
\* The inductive invariant, for a configuration whose markers outlive the tokens.
THEOREM Invariant == MarkersOutlive => (Spec => []CInv)
<1> SUFFICES ASSUME MarkersOutlive PROVE Spec => []CInv
  OBVIOUS
<1>1. Init => CInv
  BY TimeAssumption DEF Init, CInv, Types, TimeInv, SignedInv, OnTime, Holding, SignedInTime,
     FamilyOf, Idle, NoRow, NoCookie, Cookie, Row, Req, Await, Kind, Jwt, Answer, Instant,
     Time, Never
<1>2. CInv /\ [Next]_vars => CInv'
  <2> SUFFICES ASSUME CInv, [Next]_vars PROVE CInv'
    OBVIOUS
  <2>1. CASE Next
    BY <2>1, TypesStay, ClocksStay DEF CInv
  <2>2. CASE UNCHANGED vars
    BY <2>2 DEF vars, storeVars, clientVars, CInv, Types, TimeInv, SignedInv, OnTime,
                Holding, SignedInTime, FamilyOf
  <2> QED
    BY <2>1, <2>2
<1> QED
  BY <1>1, <1>2, PTL DEF Spec

\* No token of a family is rotated on a marker read that came after the family's
\* revocation, although the marker ages out (is_family_revoked, revoke_family).
THEOREM RevokedStaysRevoked == MarkersOutlive => (Spec => RevokedStaysDead)
<1> SUFFICES ASSUME MarkersOutlive PROVE Spec => RevokedStaysDead
  OBVIOUS
<1>1. CInv /\ [Next]_vars =>
        [\A r \in Request :
           req[r].pc = "is_revoked" /\ req'[r].pc = "store"
             => revokedAt[req[r].seen.family] = Never]_vars
  <2> SUFFICES ASSUME CInv, Next, NEW r \in Request,
                      req[r].pc = "is_revoked", req'[r].pc = "store"
               PROVE  revokedAt[req[r].seen.family] = Never
    OBVIOUS
  <2>1. IsFamilyRevoked(r)
    BY OnlyItsOwnStep DEF CInv
  <2> QED
    BY <2>1, NotRevoked
<1> QED
  BY <1>1, Invariant, PTL DEF Spec, RevokedStaysDead
-----------------------------------------------------------------------------
(* Access ends.                                                            *)

Written(t) == row[t].at # Never

\* What a request and its answer rest on: the access token it presents and the one it
\* is about to hand out have a row; an answer on an access token is to a request sent
\* while that token verified; a rotation's request was sent before the revocation.
Backed(q) ==
  /\ q.ans # "none" => q.pc = "answer"
  /\ q.acc \in Token => Written(q.acc)
  /\ q.pc = "mark_used" \/ q.ans \in {"rotated", "opened"} => q.new \in Token /\ Written(q.new)
  /\ q.ans = "fresh" => /\ q.acc \in Token /\ signed[q.acc] # Never
                        /\ q.sent <= signed[q.acc] + Lifetime(q.jwt)
  /\ (q.kind # "token" /\ q.pc \in {"store", "mark_used"}) \/ q.ans = "rotated" =>
       /\ q.seen.family \in Token
       /\ revokedAt[q.seen.family] # Never => q.sent <= revokedAt[q.seen.family]

CookieInv == \A t \in Token : t = access.tok \/ t \in given => Written(t)

BackedInv == CookieInv /\ \A r \in Request : Backed(req[r])

\* Rows are never removed, a JWT is signed once, and a revocation is dated when it happens.
Grows ==
  /\ \A t \in Token : Written(t) => Written(t)'
  /\ \A t \in Token : signed[t] # Never => signed'[t] = signed[t]
  /\ \A f \in Token : revokedAt'[f] \in {revokedAt[f], now}

LEMMA StepsGrow == ASSUME CInv, Next PROVE Grows
<1>1. now # Never
  BY TimeAssumption DEF CInv, Types, Time, Never
<1>2. ASSUME UNCHANGED <<signed, row, revokedAt>> PROVE Grows
  BY <1>2 DEF Grows, Written
<1>3. ASSUME NEW r \in Request, \/ \E k \in Kind : SendCookies(r, k)
                                \/ Login(r) \/ SendKept(r) \/ SendForeign(r)
      PROVE  Grows
  BY <1>2, <1>3, SendsAre DEF Send, storeVars, CInv
<1>4. ASSUME NEW r \in Request, Token_(r) \/ IsFamilyRevoked(r) PROVE Grows
  <2>1. UNCHANGED <<row, revokedAt>>
    BY <1>4 DEF Token_, Arrives, IsFamilyRevoked, storeVars
  <2>2. signed' = signed \/ \E n \in Fresh : signed' = [signed EXCEPT ![n] = now]
    BY <1>4 DEF Token_, IsFamilyRevoked, Sign
  <2>3. \A t \in Token : signed[t] # Never => signed'[t] = signed[t]
    BY <2>2 DEF CInv, Types, Fresh
  <2> QED
    BY <2>1, <2>3 DEF Grows, Written
<1>5. ASSUME NEW r \in Request, Store(r) PROVE Grows
  BY <1>1, <1>5 DEF Store, Grows, Written, CInv, Types
<1>6. ASSUME NEW r \in Request, MarkUsed(r) PROVE Grows
  <2>1. row' = row \/ row' = [row EXCEPT ![req[r].tok].used = TRUE, ![req[r].tok].at = now]
    BY <1>6 DEF MarkUsed
  <2>2. \A t \in Token : Written(t) => Written(t)'
    BY <1>1, <2>1 DEF Written, CInv, Types, Row
  <2> QED
    BY <1>6, <2>2 DEF MarkUsed, Grows
<1>7. ASSUME NEW r \in Request, RevokeFamily(r) PROVE Grows
  BY <1>7 DEF RevokeFamily, Grows, Written, CInv, Types
<1>8. ASSUME NEW r \in Request, Refresh(r) \/ Logout(r) \/ Check(r) \/ Find(r) \/ Respond(r)
      PROVE  Grows
  BY <1>2, <1>8 DEF Refresh, Logout, Check, Arrives, Find, Respond, storeVars
<1>9. ASSUME Tick PROVE Grows
  BY <1>2, <1>9 DEF Tick, storeVars
<1> QED
  BY <1>3, <1>4, <1>5, <1>6, <1>7, <1>8, <1>9 DEF Next, Handle

\* A request that a step does not touch stays backed.
LEMMA StaysBacked ==
  ASSUME CInv, Grows, NEW m \in Request, Backed(req[m]), req'[m] = req[m]
  PROVE  Backed(req[m])'
<1> DEFINE q == req[m]
<1>1. /\ q.acc \in Token => Written(q.acc)'
      /\ q.pc = "mark_used" \/ q.ans \in {"rotated", "opened"} => q.new \in Token /\ Written(q.new)'
  BY DEF Backed, Grows, Written
<1>2. q.ans = "fresh" => /\ q.acc \in Token /\ signed'[q.acc] # Never
                         /\ q.sent <= signed'[q.acc] + Lifetime(q.jwt)
  BY DEF Backed, Grows
<1>3. (q.kind # "token" /\ q.pc \in {"store", "mark_used"}) \/ q.ans = "rotated" =>
        /\ q.seen.family \in Token
        /\ revokedAt'[q.seen.family] # Never => q.sent <= revokedAt'[q.seen.family]
  <2> SUFFICES ASSUME (q.kind # "token" /\ q.pc \in {"store", "mark_used"}) \/ q.ans = "rotated"
               PROVE  /\ q.seen.family \in Token
                      /\ revokedAt'[q.seen.family] # Never => q.sent <= revokedAt'[q.seen.family]
    OBVIOUS
  <2>1. /\ q.seen.family \in Token
        /\ revokedAt[q.seen.family] # Never => q.sent <= revokedAt[q.seen.family]
    BY DEF Backed
  <2>2. q.sent <= now
    BY DEF Backed, CInv, TimeInv, OnTime
  <2> QED
    BY <2>1, <2>2 DEF Grows
<1> QED
  BY <1>1, <1>2, <1>3 DEF Backed, Written

\* A step that hands out no cookie keeps the invariant when its request stays backed.
LEMMA BackedAgain ==
  ASSUME CInv, BackedInv, Grows, NEW r \in Request,
         \A m \in Request : m # r => req'[m] = req[m],
         UNCHANGED clientVars, Backed(req[r])'
  PROVE  BackedInv'
<1>1. \A m \in Request : Backed(req[m])'
  BY StaysBacked DEF BackedInv
<1>2. CookieInv'
  BY DEF CookieInv, BackedInv, Grows, Written, clientVars
<1> QED
  BY <1>1, <1>2 DEF BackedInv

\* An answer that lets nobody in rests on nothing but what the request presented.
LEMMA RefusalIsBacked ==
  ASSUME CInv, BackedInv, Grows, NEW r \in Request, NEW a \in Answer \ {"fresh", "rotated", "opened"},
         AnswerWith(r, a), UNCHANGED clientVars
  PROVE  BackedInv'
<1>1. Keeps(r) /\ req'[r].pc = "answer" /\ req'[r].ans = a
  BY AnswerIs DEF CInv
<1>2. Backed(req[r])'
  BY <1>1 DEF Keeps, BackedInv, Backed, Grows, Written
<1> QED
  BY <1>1, <1>2, BackedAgain DEF Keeps

\* A request that goes on to another await rests on what that await needs.
LEMMA GoOnIsBacked ==
  ASSUME CInv, BackedInv, Grows, NEW r \in Request, NEW p \in {"find", "is_revoked", "revoke"},
         req'[r].pc = p, req[r].pc # "answer", Keeps(r), req'[r].ans = req[r].ans,
         UNCHANGED clientVars
  PROVE  BackedInv'
<1>1. req'[r].ans = "none"
  BY DEF BackedInv, Backed
<1>2. Backed(req[r])'
  BY <1>1 DEF Keeps, BackedInv, Backed, Grows, Written
<1> QED
  BY <1>2, BackedAgain DEF Keeps

LEMMA LifetimeIsNat == \A jwt : Lifetime(jwt) \in Nat
BY TimeAssumption DEF Lifetime

\* Whichever JWT the access cookie carries verifies for its lifetime.
LEMMA VerifiesInLifetime ==
  ASSUME Types, NEW jwt, NEW t, AccessVerifies(jwt, t)
  PROVE  t \in Token /\ signed[t] # Never /\ now <= signed[t] + Lifetime(jwt)
<1>1. t \in Token /\ signed[t] # Never
  BY DEF AccessVerifies, Verifies
<1>2. now \in Int /\ signed[t] \in Int /\ {AccessTTL, RefreshTTL, Leeway} \subseteq Int
  BY <1>1, TimeAssumption DEF Types, Time, Instant, Never
<1> QED
  BY <1>1, <1>2 DEF AccessVerifies, Verifies, AccessExp, RefreshExp, Lifetime

LEMMA AccessStays == ASSUME MarkersOutlive, CInv, BackedInv, Next PROVE BackedInv'
<1> USE StepsGrow
<1>1. ASSUME NEW r \in Request, \/ \E k \in Kind : SendCookies(r, k)
                                \/ Login(r) \/ SendKept(r) \/ SendForeign(r)
      PROVE  BackedInv'
  <2>1. PICK k \in Kind, jwt \in Jwt, a \in Token \cup {None, Foreign}, t \in Token \cup {None},
             own \in BOOLEAN : Send(r, k, jwt, a, t, own) /\ a \in {None, Foreign, access.tok} \cup given
    BY <1>1, SendsAre DEF CInv
  <2>2. /\ \A m \in Request : m # r => req'[m] = req[m]
        /\ req'[r].pc = "sent" /\ req'[r].acc = a /\ req'[r].ans = "none"
    <3>1. Types /\ Send(r, k, jwt, a, t, own)
      BY <2>1 DEF CInv
    <3>2. Sent(r, a, t, own)
      BY <3>1, SendIs
    <3> QED
      BY <3>2 DEF Sent
  <2>3. a \in Token => Written(a)'
    BY <2>1, TimeAssumption DEF BackedInv, CookieInv, Grows, Written
  <2>4. Backed(req[r])'
    BY <2>2, <2>3 DEF Backed, Written
  <2> QED
    BY <2>1, <2>2, <2>4, BackedAgain DEF Send
<1>2. ASSUME NEW r \in Request, Token_(r) PROVE BackedInv'
  <2>1. /\ req[r].pc = "sent" /\ req[r].kind = "token" /\ UNCHANGED clientVars
        /\ Keeps(r) /\ req'[r].pc = "store" /\ req'[r].ans = req[r].ans
    BY <1>2, SignIs DEF Token_, Arrives, Fresh, CInv
  <2>2. Backed(req[r])'
    BY <2>1 DEF Keeps, BackedInv, Backed, Grows, Written
  <2> QED
    BY <2>1, <2>2, BackedAgain DEF Keeps
<1>3. ASSUME NEW r \in Request, Refresh(r) \/ Logout(r) \/ Check(r) PROVE BackedInv'
  <2>1. req[r].pc = "sent" /\ UNCHANGED <<clientVars, now, signed>>
    BY <1>3 DEF Refresh, Logout, Check, Arrives
  <2>2. CASE GoTo(r, "find")
    BY <2>1, <2>2, GoToIs, GoOnIsBacked DEF CInv, Await
  <2>3. CASE \E a \in Answer \ {"fresh", "rotated", "opened"} : AnswerWith(r, a)
    BY <2>1, <2>3, RefusalIsBacked
  <2>4. CASE AccessVerifies(req[r].jwt, req[r].acc) /\ AnswerWith(r, "fresh")
    <3>1. Keeps(r) /\ req'[r].pc = "answer" /\ req'[r].ans = "fresh"
      BY <2>4, AnswerIs DEF CInv, Answer
    <3>2. /\ req[r].acc \in Token /\ signed[req[r].acc] # Never
          /\ now <= signed[req[r].acc] + Lifetime(req[r].jwt)
      BY <2>4, VerifiesInLifetime DEF CInv
    <3>3. req[r].sent <= now
      BY <2>1 DEF CInv, TimeInv, OnTime
    <3>4. /\ now \in Int /\ req[r].sent \in Int /\ signed[req[r].acc] \in Int
          /\ Lifetime(req[r].jwt) \in Int
      BY <3>2, LifetimeIsNat, TimeAssumption DEF CInv, Types, Req, Time, Instant, Never
    <3>5. req[r].sent <= signed[req[r].acc] + Lifetime(req[r].jwt)
      BY <3>2, <3>3, <3>4
    <3>6. Backed(req[r])'
      BY <2>1, <3>1, <3>2, <3>5 DEF Keeps, BackedInv, Backed, Grows, Written
    <3> QED
      BY <2>1, <3>1, <3>6, BackedAgain DEF Keeps
  <2> QED
    BY <1>3, <2>2, <2>3, <2>4 DEF Refresh, Logout, Check, HandleJwtCookie, SilentRefresh, Answer
<1>4. ASSUME NEW r \in Request, Find(r) PROVE BackedInv'
  <2>1. req[r].pc = "find" /\ req[r] \in Req /\ UNCHANGED clientVars
    BY <1>4 DEF Find, CInv, Types
  <2>2. CASE \E p \in {"revoke", "is_revoked"} :
               req' = [req EXCEPT ![r] = [req[r] EXCEPT !.pc = p, !.seen = row[req[r].tok]]]
    <3>1. PICK p \in {"revoke", "is_revoked"} :
            req' = [req EXCEPT ![r] = [req[r] EXCEPT !.pc = p, !.seen = row[req[r].tok]]]
      BY <2>2
    <3>2. Keeps(r) /\ req'[r].pc = p /\ req'[r].ans = req[r].ans
      BY <2>1, <3>1 DEF CInv, Types, Req, Keeps
    <3> QED
      BY <2>1, <3>2, GoOnIsBacked
  <2>3. CASE \E a \in {"logged_out", "refused"} : AnswerWith(r, a)
    BY <2>1, <2>3, RefusalIsBacked DEF Answer
  <2> QED
    BY <1>4, <2>2, <2>3 DEF Find
<1>5. ASSUME NEW r \in Request, IsFamilyRevoked(r) PROVE BackedInv'
  <2>1. /\ req[r].pc = "is_revoked" /\ UNCHANGED clientVars
    BY <1>5 DEF IsFamilyRevoked
  <2>2. CASE AnswerWith(r, "refused")
    BY <2>1, <2>2, RefusalIsBacked DEF Answer
  <2>3. CASE GoTo(r, "revoke")
    BY <2>1, <2>3, GoToIs, GoOnIsBacked DEF CInv, Await
  <2>4. CASE \E n \in Fresh : Sign(r, n)
    <3>1. /\ Keeps(r) /\ req'[r].pc = "store" /\ req'[r].ans = req[r].ans
          /\ req'[r].seen = req[r].seen
      BY <2>4, SignIs DEF Fresh, CInv
    <3>2. revokedAt[req[r].seen.family] = Never /\ revokedAt' = revokedAt
      BY <1>5, <3>1, NotRevoked DEF IsFamilyRevoked, storeVars
    <3>3. req[r].seen.family \in Token
      BY <2>1 DEF CInv, TimeInv, SignedInv, OnTime, Holding, SignedInTime
    <3>4. Backed(req[r])'
      BY <2>1, <3>1, <3>2, <3>3 DEF Keeps, BackedInv, Backed, Grows, Written
    <3> QED
      BY <2>1, <3>1, <3>4, BackedAgain DEF Keeps
  <2> QED
    BY <1>5, <2>2, <2>3, <2>4 DEF IsFamilyRevoked
<1>6. ASSUME NEW r \in Request, Store(r) PROVE BackedInv'
  <2>1. /\ req[r].pc = "store" /\ UNCHANGED <<clientVars, revokedAt>> /\ req[r].new \in Token
        /\ req[r].ans = "none"
    BY <1>6 DEF Store, CInv, SignedInv, SignedInTime, BackedInv, Backed
  <2>2. row'[req[r].new].at # Never
    <3>1. now # Never
      BY TimeAssumption DEF CInv, Types, Time, Never
    <3>2. row'[req[r].new].at = now
      BY <1>6, <2>1 DEF Store, CInv, Types
    <3> QED
      BY <3>1, <3>2
  <2>3. /\ Keeps(r) /\ req'[r].seen = req[r].seen /\ req'[r].new = req[r].new
        /\ \/ req[r].kind = "token" /\ req'[r].pc = "answer" /\ req'[r].ans = "opened"
           \/ req[r].kind # "token" /\ req'[r].pc = "mark_used" /\ req'[r].ans = req[r].ans
    BY <1>6, AnswerIs, GoToIs DEF Store, CInv, Answer, Await
  <2>4. Backed(req[r])'
    BY <2>1, <2>2, <2>3 DEF Keeps, BackedInv, Backed, Grows, Written
  <2> QED
    BY <2>1, <2>3, <2>4, BackedAgain DEF Keeps
<1>7. ASSUME NEW r \in Request, MarkUsed(r) PROVE BackedInv'
  <2>1. /\ req[r].pc = "mark_used" /\ UNCHANGED <<clientVars, revokedAt>>
        /\ req[r].kind # "token"
    BY <1>7 DEF MarkUsed, CInv, TimeInv, OnTime
  <2>2. CASE AnswerWith(r, "rotated")
    <3>1. /\ Keeps(r) /\ req'[r].seen = req[r].seen /\ req'[r].new = req[r].new
          /\ req'[r].pc = "answer" /\ req'[r].ans = "rotated"
      BY <2>2, AnswerIs DEF CInv, Answer
    <3>2. Backed(req[r])'
      BY <2>1, <3>1 DEF Keeps, BackedInv, Backed, Grows, Written
    <3> QED
      BY <2>1, <3>1, <3>2, BackedAgain DEF Keeps
  <2>3. CASE GoTo(r, "revoke")
    BY <2>1, <2>3, GoToIs, GoOnIsBacked DEF CInv, Await
  <2> QED
    BY <1>7, <2>2, <2>3 DEF MarkUsed
<1>8. ASSUME NEW r \in Request, RevokeFamily(r) PROVE BackedInv'
  BY <1>8, RefusalIsBacked DEF RevokeFamily, Answer
<1>9. ASSUME NEW r \in Request, Respond(r) PROVE BackedInv'
  <2>1. req' = [req EXCEPT ![r] = Idle]
    BY <1>9 DEF Respond
  <2>2. req'[r] = Idle /\ \A m \in Request : m # r => req'[m] = req[m]
    BY <2>1 DEF CInv, Types
  <2>3. Backed(req[r])'
    BY <2>2, TimeAssumption DEF Backed, Idle
  <2>4. \A m \in Request : Backed(req[m])'
    BY <2>2, <2>3, StaysBacked, <1>9 DEF BackedInv, Next, Handle
  <2>5. \A t \in Token : t = access'.tok \/ t \in given'
          => t = access.tok \/ t \in given \/ (SetsCookies(req[r].ans) /\ t = req[r].new)
    BY <1>9, TimeAssumption DEF Respond, AccessCookie, SetCookie, NoCookie
  <2>6. SetsCookies(req[r].ans) => Written(req[r].new)
    BY DEF SetsCookies, BackedInv, Backed
  <2>7. row' = row
    BY <1>9 DEF Respond, storeVars
  <2>8. CookieInv'
    BY <2>5, <2>6, <2>7 DEF BackedInv, CookieInv, Written
  <2> QED
    BY <2>4, <2>8 DEF BackedInv
<1>10. ASSUME Tick PROVE BackedInv'
  <2>1. UNCHANGED <<row, signed, revokedAt, req, given>>
    BY <1>10 DEF Tick, storeVars
  <2>2. access'.tok \in {access.tok, None}
    BY <1>10 DEF Tick, Kept, NoCookie
  <2>3. CookieInv'
    BY <2>1, <2>2, TimeAssumption DEF BackedInv, CookieInv, Written
  <2> QED
    BY <2>1, <2>3 DEF BackedInv, Backed, Written
<1> QED
  BY <1>1, <1>2, <1>3, <1>4, <1>5, <1>6, <1>7, <1>8, <1>9, <1>10 DEF Next, Handle

LEMMA BackedImpliesEnds == ASSUME CInv, BackedInv PROVE AccessEnds
<1> SUFFICES ASSUME NEW r \in Request
             PROVE  LET q == req[r] IN
                      /\ q.ans = "rotated" /\ revokedAt[q.seen.family] # Never =>
                           now <= revokedAt[q.seen.family] + MaxCall
                      /\ q.ans = "fresh" /\ revokedAt[row[q.acc].family] # Never =>
                           now <= revokedAt[row[q.acc].family] + Lifetime(q.jwt) + MaxCall
  BY DEF AccessEnds
<1> DEFINE q == req[r]
<1>1. q \in Req /\ Backed(q) /\ (q.ans # "none" => now <= q.sent + MaxCall)
  BY DEF BackedInv, Backed, CInv, Types, TimeInv, OnTime
<1>2. /\ now \in Int /\ q.sent \in Int /\ Lifetime(q.jwt) \in Nat /\ MaxCall \in Nat
      /\ \A t \in Token : signed[t] \in Int /\ revokedAt[t] \in Int
  BY <1>1, TimeAssumption, LifetimeIsNat DEF CInv, Types, Req, Time, Instant, Never
<1>3. ASSUME q.ans = "fresh", revokedAt[row[q.acc].family] # Never
      PROVE  now <= revokedAt[row[q.acc].family] + Lifetime(q.jwt) + MaxCall
  <2>1. /\ q.acc \in Token /\ q.sent <= signed[q.acc] + Lifetime(q.jwt)
        /\ SignedInTime(q.acc, row[q.acc].family)
    BY <1>1, <1>3 DEF Backed, Written, CInv, SignedInv
  <2> QED
    BY <1>1, <1>2, <1>3, <2>1 DEF SignedInTime
<1>4. ASSUME q.ans = "rotated", revokedAt[q.seen.family] # Never
      PROVE  now <= revokedAt[q.seen.family] + MaxCall
  <2>1. q.seen.family \in Token /\ q.sent <= revokedAt[q.seen.family]
    BY <1>1, <1>4 DEF Backed
  <2> QED
    BY <1>1, <1>2, <1>4, <2>1
<1> QED
  BY <1>3, <1>4

\* After the revocation of its family a client is let in on a rotation for one request, and
\* on an access cookie for the lifetime of the JWT in it and one request, for any number of
\* overlapping requests and any lifetimes that the markers outlive (is_family_revoked
\* before every signature; handle_jwt_cookie, which does not look at the store).
THEOREM AccessEndsInTime == MarkersOutlive => (Spec => []AccessEnds)
<1> SUFFICES ASSUME MarkersOutlive PROVE Spec => []AccessEnds
  OBVIOUS
<1>1. Init => BackedInv
  BY TimeAssumption DEF Init, BackedInv, CookieInv, Backed, Idle, NoCookie
<1>2. CInv /\ BackedInv /\ [Next]_vars => BackedInv'
  <2> SUFFICES ASSUME CInv, BackedInv, [Next]_vars PROVE BackedInv'
    OBVIOUS
  <2>1. CASE Next
    BY <2>1, AccessStays
  <2>2. CASE UNCHANGED vars
    BY <2>2 DEF vars, storeVars, clientVars, BackedInv, CookieInv, Backed, Written
  <2> QED
    BY <2>1, <2>2
<1>3. CInv /\ BackedInv => AccessEnds
  BY BackedImpliesEnds
<1> QED
  BY <1>1, <1>2, <1>3, Invariant, PTL DEF Spec

-----------------------------------------------------------------------------
(* The browser's refresh cookie, and what is handed out.  None of this     *)
(* depends on how long the bucket keeps a marker.                          *)

\* The condition on the configuration: Leeway covers the answer that sets the cookie and
\* the request that presents it (jwt.rs, cookie.rs).
LeewayCovers == 2 * MaxCall <= Leeway + 1

\* A token that was signed, no earlier than instant "since".
SignedSince(t, since) == t \in Token /\ signed[t] # Never /\ since <= signed[t]

\* What the browser sends by itself it still had; what a request hands out was signed
\* while it was on its way; and a browser is not told that its cookie has expired.
Fits(q) ==
  /\ OnTime(q)
  /\ q.ans # "none" => q.pc = "answer"
  /\ q.own /\ q.tok # None /\ q.pc = "sent" =>
       SignedSince(q.tok, q.sent + 1 - RefreshTTL - MaxCall)
  /\ q.pc \in {"store", "mark_used"} \/ q.ans \in {"rotated", "opened"} =>
       SignedSince(q.new, q.sent)
  /\ LeewayCovers => (q.ans = "expired" => ~q.own)

\* The browser counts Max-Age from the receipt, at most a request after the signature.
JarInv ==
  refresh.tok # None =>
    now < refresh.until /\ SignedSince(refresh.tok, refresh.until - RefreshTTL - MaxCall)

LInv == Types /\ given \subseteq Token /\ JarInv /\ \A r \in Request : Fits(req[r])

\* A JWT is signed once.
SignedOnce == \A t \in Token : signed[t] # Never => signed'[t] = signed[t]

Same == UNCHANGED <<now, signed, clientVars>>

LEMMA ConstantsAreNumbers ==
  /\ RefreshTTL \in Nat /\ RefreshTTL > 0 /\ Leeway \in Nat /\ MaxCall \in Nat
  /\ None \notin Token
BY TimeAssumption

LEMMA InstantsAreNumbers ==
  ASSUME Types
  PROVE  /\ now \in Nat /\ now # Never /\ \A t \in Token : signed[t] \in Int
         /\ refresh.until \in Nat /\ \A r \in Request : req[r].sent \in Nat
BY TimeAssumption DEF Types, Req, Cookie, Time, Instant, Never

\* A request that a step does not touch still fits, and so does the cookie.
LEMMA OthersFit ==
  ASSUME Types, SignedOnce, now' = now, NEW m \in Request, Fits(req[m]), req'[m] = req[m]
  PROVE  Fits(req[m])'
<1>1. OnTime(req[m])'
  BY DEF Fits, OnTime, Holding, SignedOnce
<1>2. \A t, i : SignedSince(t, i) => SignedSince(t, i)'
  BY DEF SignedSince, SignedOnce
<1>3. LeewayCovers' = LeewayCovers
  BY DEF LeewayCovers
<1> QED
  BY <1>1, <1>2, <1>3 DEF Fits, SignedSince

LEMMA StepFits ==
  ASSUME LInv, SignedOnce, UNCHANGED <<now, clientVars>>, Types', NEW r \in Request,
         \A m \in Request : m # r => req'[m] = req[m],
         Fits(req[r])'
  PROVE  LInv'
<1>1. \A m \in Request : Fits(req[m])'
  BY OthersFit DEF LInv
<1>2. JarInv'
  BY DEF LInv, JarInv, SignedSince, SignedOnce, clientVars
<1> QED
  BY <1>1, <1>2 DEF LInv, clientVars

\* An answer that hands nothing out, or what was signed for it.
LEMMA AnswerFits ==
  ASSUME LInv, Types', Same, NEW r \in Request, NEW a \in Answer, AnswerWith(r, a),
         req[r].pc # "idle",
         a \in {"rotated", "opened"} => req[r].pc \in {"store", "mark_used"},
         LeewayCovers => (a = "expired" => ~req[r].own)
  PROVE  LInv'
<1>1. /\ Keeps(r) /\ req'[r].pc = "answer" /\ req'[r].ans = a /\ req'[r].new = req[r].new
  BY AnswerIs DEF LInv
<1>2. Fits(req[r])'
  BY <1>1 DEF Keeps, LInv, Fits, OnTime, Holding, SignedSince, Same, LeewayCovers
<1> QED
  BY <1>1, <1>2, StepFits DEF Keeps, Same, SignedOnce

\* A request that goes on, and will hand out what it already signed, if anything.
LEMMA GoOnFits ==
  ASSUME LInv, Types', Same, NEW r \in Request,
         NEW p \in {"find", "is_revoked", "mark_used", "revoke"},
         Keeps(r), req'[r].pc = p, req'[r].ans = req[r].ans, req'[r].new = req[r].new,
         req[r].pc \notin {"idle", "answer"}, req[r].kind # "token",
         p = "mark_used" => req[r].pc = "store",
         SignedSince(req[r].tok, req[r].sent - RefreshTTL - Leeway)
  PROVE  LInv'
<1>1. req'[r].ans = "none"
  BY DEF LInv, Fits
<1>2. OnTime(req[r])'
  <2>1. req[r].sent <= now /\ now <= req[r].sent + MaxCall
    BY DEF LInv, Fits, OnTime
  <2>2. req[r].sent <= signed[req[r].tok] + RefreshTTL + Leeway
    BY ConstantsAreNumbers, InstantsAreNumbers DEF SignedSince, LInv
  <2> QED
    BY <2>1, <2>2 DEF Keeps, OnTime, Holding, SignedSince, Same
<1>3. Fits(req[r])'
  BY <1>1, <1>2 DEF Keeps, LInv, Fits, SignedSince, Same
<1> QED
  BY <1>3, StepFits DEF Keeps, Same, SignedOnce

\* A request past its signature check presented a token that verified.
LEMMA HoldsSigned ==
  ASSUME LInv, NEW r \in Request, req[r].pc = "find" \/ Holding(req[r])
  PROVE  SignedSince(req[r].tok, req[r].sent - RefreshTTL - Leeway)
<1>1. OnTime(req[r])
  BY DEF LInv, Fits
<1> QED
  BY <1>1, ConstantsAreNumbers, InstantsAreNumbers DEF OnTime, SignedSince, LInv

\* A fresh token is signed now.
LEMMA SignFits ==
  ASSUME LInv, Types', UNCHANGED <<now, clientVars>>, NEW r \in Request, NEW n \in Fresh,
         Sign(r, n), req[r].pc \notin {"idle", "answer"},
         req[r].kind = "token" \/ Holding(req[r])
  PROVE  LInv'
<1>1. n \in Token /\ signed[n] = Never
  BY DEF Fresh
<1>2. /\ Keeps(r) /\ req'[r].pc = "store" /\ req'[r].new = n /\ req'[r].ans = req[r].ans
      /\ signed' = [signed EXCEPT ![n] = now]
  BY <1>1, SignIs DEF LInv
<1>3. now # Never
  BY InstantsAreNumbers DEF LInv
<1>4. signed'[n] = now /\ SignedOnce
  BY <1>1, <1>2 DEF LInv, Types, SignedOnce
<1>5. req'[r].ans = "none" /\ req[r].sent <= now /\ now <= req[r].sent + MaxCall
  BY <1>2 DEF LInv, Fits, OnTime
<1>6. OnTime(req[r])'
  BY <1>2, <1>4, <1>5 DEF Keeps, LInv, Fits, OnTime, Holding, SignedOnce
<1>7. Fits(req[r])'
  BY <1>1, <1>2, <1>3, <1>4, <1>5, <1>6 DEF Keeps, Fits, SignedSince
<1> QED
  BY <1>2, <1>4, <1>7, StepFits DEF Keeps

\* The cookie that is set with an answer expires no later than its JWT, but for the time
\* since the signature.
LEMMA JarFits ==
  ASSUME LInv, NEW r \in Request, Respond(r)
  PROVE  JarInv' /\ given' \subseteq Token
<1>1. now' = now /\ signed' = signed
  BY DEF Respond
<1>2. CASE SetsCookies(req[r].ans)
  <2>1. /\ refresh' = RefreshCookie(req[r].new) /\ given' = given \cup {req[r].new}
    BY <1>2 DEF Respond, SetsCookies, ClearsCookies, ClearsAccess
  <2>2. SignedSince(req[r].new, req[r].sent) /\ now <= req[r].sent + MaxCall
    BY <1>2 DEF SetsCookies, LInv, Fits, OnTime, Respond
  <2>3. refresh'.tok = req[r].new /\ refresh'.until = now + RefreshTTL
    BY <2>1 DEF RefreshCookie, SetCookie
  <2>4. SignedSince(req[r].new, refresh'.until - RefreshTTL - MaxCall) /\ now < refresh'.until
    BY <2>2, <2>3, ConstantsAreNumbers, InstantsAreNumbers DEF SignedSince, LInv
  <2> QED
    BY <1>1, <2>1, <2>2, <2>3, <2>4 DEF JarInv, SignedSince, LInv
<1>3. CASE ~SetsCookies(req[r].ans)
  <2>1. given' = given /\ refresh' \in {refresh, NoCookie}
    BY <1>3 DEF Respond
  <2> QED
    BY <1>1, <2>1 DEF LInv, JarInv, SignedSince, NoCookie
<1> QED
  BY <1>2, <1>3

LEMMA TickFits == ASSUME LInv, Types', Tick PROVE LInv'
<1>1. now' = now + 1 /\ UNCHANGED <<signed, req, given>> /\ refresh' = Kept(refresh)
  BY DEF Tick, storeVars
<1>2. \A t, i : SignedSince(t, i)' <=> SignedSince(t, i)
  BY <1>1 DEF SignedSince
<1>3. JarInv'
  <2>1. CASE refresh' = refresh /\ now + 1 < refresh.until
    BY <1>1, <2>1 DEF LInv, JarInv, SignedSince
  <2>2. CASE refresh' = NoCookie
    BY <2>2 DEF JarInv, NoCookie
  <2> QED
    BY <1>1, <2>1, <2>2 DEF Kept
<1>4. ASSUME NEW r \in Request PROVE Fits(req[r])'
  <2>1. req'[r] = req[r] /\ req[r].sent \in Nat /\ now \in Nat /\ MaxCall \in Nat
    BY <1>1, ConstantsAreNumbers, InstantsAreNumbers DEF LInv
  <2>2. req[r].pc # "idle" => now < req[r].sent + MaxCall
    BY DEF Tick
  <2>3. OnTime(req[r])'
    BY <1>1, <2>1, <2>2 DEF LInv, Fits, OnTime, Holding
  <2> QED
    BY <1>1, <2>1, <2>3 DEF LInv, Fits, SignedSince, LeewayCovers
<1> QED
  BY <1>1, <1>3, <1>4 DEF LInv

\* A cookie the browser sends still verifies when the request arrives.
LEMMA SentVerifies ==
  ASSUME LInv, LeewayCovers, NEW r \in Request, req[r].pc = "sent", req[r].own,
         req[r].tok # None
  PROVE  RefreshVerifies(req[r].tok)
<1>1. /\ SignedSince(req[r].tok, req[r].sent + 1 - RefreshTTL - MaxCall)
      /\ now <= req[r].sent + MaxCall
  BY DEF LInv, Fits, OnTime
<1>2. now <= signed[req[r].tok] + RefreshTTL + Leeway
  BY <1>1, ConstantsAreNumbers, InstantsAreNumbers DEF SignedSince, LeewayCovers, LInv
<1> QED
  BY <1>1, <1>2 DEF RefreshVerifies, RefreshExp, Verifies, SignedSince

LEMMA LifetimesStay == ASSUME LInv, Next PROVE LInv'
<1>0. Types'
  BY TypesStay DEF LInv, TimeInv, Fits
<1>1. ASSUME NEW r \in Request, \/ \E k \in Kind : SendCookies(r, k)
                                \/ Login(r) \/ SendKept(r) \/ SendForeign(r)
      PROVE  LInv'
  <2>1. PICK k \in Kind, jwt \in Jwt, a \in Token \cup {None, Foreign}, t \in Token \cup {None},
             own \in BOOLEAN : Send(r, k, jwt, a, t, own) /\ (own => t \in {None, refresh.tok})
    BY <1>1, SendsAre DEF LInv
  <2>2. /\ \A m \in Request : m # r => req'[m] = req[m]
        /\ req'[r].pc = "sent" /\ req'[r].sent = now
        /\ req'[r].acc = a /\ req'[r].ans = "none"
        /\ req'[r].tok = t /\ req'[r].own = own
    <3>1. Types /\ Send(r, k, jwt, a, t, own)
      BY <2>1 DEF LInv
    <3>2. Sent(r, a, t, own)
      BY <3>1, SendIs
    <3> QED
      BY <3>2 DEF Sent
  <2>3. UNCHANGED <<now, signed, clientVars>>
    BY <2>1 DEF Send
  <2>4. own /\ t # None => SignedSince(t, now + 1 - RefreshTTL - MaxCall)
    BY <2>1, ConstantsAreNumbers, InstantsAreNumbers DEF LInv, JarInv, SignedSince
  <2>5. OnTime(req[r])'
    BY <2>2, <2>3, ConstantsAreNumbers, InstantsAreNumbers DEF OnTime, Holding, LInv
  <2>6. Fits(req[r])'
    BY <2>2, <2>3, <2>4, <2>5 DEF Fits, SignedSince
  <2> QED
    BY <1>0, <2>2, <2>3, <2>6, StepFits DEF SignedOnce
<1>2. ASSUME NEW r \in Request, Token_(r) PROVE LInv'
  BY <1>0, <1>2, SignFits DEF Token_, Arrives
<1>3. ASSUME NEW r \in Request, Refresh(r) \/ Logout(r) \/ Check(r) PROVE LInv'
  <2>1. req[r].pc = "sent" /\ req[r].kind # "token" /\ Same
    BY <1>3 DEF Refresh, Logout, Check, Arrives, Same
  <2>2. CASE \E a \in Answer \ {"expired", "rotated", "opened"} : AnswerWith(r, a)
    BY <1>0, <2>1, <2>2, AnswerFits
  <2>3. CASE req[r].tok # None /\ ~RefreshVerifies(req[r].tok) /\ AnswerWith(r, "expired")
    BY <1>0, <2>1, <2>3, AnswerFits, SentVerifies DEF Answer
  <2>4. CASE RefreshVerifies(req[r].tok) /\ GoTo(r, "find")
    <3>1. /\ Keeps(r) /\ req'[r].pc = "find" /\ req'[r].ans = req[r].ans
          /\ req'[r].new = req[r].new
      BY <2>4, GoToIs DEF LInv, Await
    <3>2. req[r].sent <= now /\ req[r].tok \in Token /\ signed[req[r].tok] # Never
          /\ now <= signed[req[r].tok] + RefreshTTL + Leeway
      BY <2>1, <2>4 DEF RefreshVerifies, RefreshExp, Verifies, LInv, Fits, OnTime
    <3>3. SignedSince(req[r].tok, req[r].sent - RefreshTTL - Leeway)
      BY <3>2, ConstantsAreNumbers, InstantsAreNumbers DEF SignedSince, LInv
    <3> QED
      BY <1>0, <2>1, <3>1, <3>3, GoOnFits
  <2> QED
    BY <1>3, <2>2, <2>3, <2>4 DEF Refresh, Logout, Check, HandleJwtCookie, SilentRefresh, Answer
<1>4. ASSUME NEW r \in Request, Find(r) PROVE LInv'
  <2>1. req[r].pc = "find" /\ req[r].kind # "token" /\ Same /\ req[r] \in Req
    BY <1>4 DEF Find, Same, LInv, Fits, OnTime, Types
  <2>2. CASE \E p \in {"revoke", "is_revoked"} :
               req' = [req EXCEPT ![r] = [req[r] EXCEPT !.pc = p, !.seen = row[req[r].tok]]]
    <3>1. PICK p \in {"revoke", "is_revoked"} :
            req' = [req EXCEPT ![r] = [req[r] EXCEPT !.pc = p, !.seen = row[req[r].tok]]]
      BY <2>2
    <3>2. /\ Keeps(r) /\ req'[r].pc = p /\ req'[r].ans = req[r].ans /\ req'[r].new = req[r].new
      BY <2>1, <3>1 DEF LInv, Types, Req, Keeps
    <3> QED
      BY <1>0, <2>1, <3>2, GoOnFits, HoldsSigned
  <2>3. CASE \E a \in {"logged_out", "refused"} : AnswerWith(r, a)
    BY <1>0, <2>1, <2>3, AnswerFits DEF Answer
  <2> QED
    BY <1>4, <2>2, <2>3 DEF Find
<1>5. ASSUME NEW r \in Request, IsFamilyRevoked(r) PROVE LInv'
  <2>1. /\ req[r].pc = "is_revoked" /\ req[r].kind # "token" /\ Holding(req[r])
        /\ UNCHANGED <<now, clientVars>>
    BY <1>5 DEF IsFamilyRevoked, LInv, Fits, OnTime, Holding
  <2>2. CASE AnswerWith(r, "refused") /\ UNCHANGED signed
    BY <1>0, <2>1, <2>2, AnswerFits DEF Answer, Same
  <2>3. CASE GoTo(r, "revoke") /\ UNCHANGED signed
    <3>1. /\ Keeps(r) /\ req'[r].pc = "revoke" /\ req'[r].ans = req[r].ans
          /\ req'[r].new = req[r].new
      BY <2>3, GoToIs DEF LInv, Await
    <3> QED
      BY <1>0, <2>1, <2>3, <3>1, GoOnFits, HoldsSigned DEF Same
  <2>4. CASE \E n \in Fresh : Sign(r, n)
    BY <1>0, <2>1, <2>4, SignFits
  <2> QED
    BY <1>5, <2>2, <2>3, <2>4 DEF IsFamilyRevoked
<1>6. ASSUME NEW r \in Request, Store(r) PROVE LInv'
  <2>1. req[r].pc = "store" /\ Same
    BY <1>6 DEF Store, Same
  <2>2. CASE req[r].kind = "token"
    BY <1>0, <1>6, <2>1, <2>2, AnswerFits DEF Store, Answer
  <2>3. CASE req[r].kind # "token"
    <3>1. Holding(req[r]) /\ GoTo(r, "mark_used")
      BY <1>6, <2>1, <2>3 DEF Store, Holding
    <3>2. /\ Keeps(r) /\ req'[r].pc = "mark_used" /\ req'[r].ans = req[r].ans
          /\ req'[r].new = req[r].new
      BY <3>1, GoToIs DEF LInv, Await
    <3> QED
      BY <1>0, <2>1, <2>3, <3>1, <3>2, GoOnFits, HoldsSigned
  <2> QED
    BY <2>2, <2>3
<1>7. ASSUME NEW r \in Request, MarkUsed(r) PROVE LInv'
  <2>1. req[r].pc = "mark_used" /\ req[r].kind # "token" /\ Holding(req[r]) /\ Same
    BY <1>7 DEF MarkUsed, Same, LInv, Fits, OnTime, Holding
  <2>2. CASE AnswerWith(r, "rotated")
    BY <1>0, <2>1, <2>2, AnswerFits DEF Answer
  <2>3. CASE GoTo(r, "revoke")
    <3>1. /\ Keeps(r) /\ req'[r].pc = "revoke" /\ req'[r].ans = req[r].ans
          /\ req'[r].new = req[r].new
      BY <2>3, GoToIs DEF LInv, Await
    <3> QED
      BY <1>0, <2>1, <3>1, GoOnFits, HoldsSigned
  <2> QED
    BY <1>7, <2>2, <2>3 DEF MarkUsed
<1>8. ASSUME NEW r \in Request, RevokeFamily(r) PROVE LInv'
  BY <1>0, <1>8, AnswerFits DEF RevokeFamily, Same, Answer
<1>9. ASSUME NEW r \in Request, Respond(r) PROVE LInv'
  <2>1. now' = now /\ SignedOnce /\ req' = [req EXCEPT ![r] = Idle]
    BY <1>9 DEF Respond, SignedOnce
  <2>2. req'[r] = Idle /\ \A m \in Request : m # r => req'[m] = req[m]
    BY <2>1 DEF LInv, Types
  <2>3. Fits(req[r])'
    BY <2>2 DEF Fits, OnTime, Holding, Idle
  <2>4. \A m \in Request : Fits(req[m])'
    BY <2>1, <2>2, <2>3, OthersFit DEF LInv
  <2> QED
    BY <1>0, <1>9, <2>4, JarFits DEF LInv
<1>10. ASSUME Tick PROVE LInv'
  BY <1>0, <1>10, TickFits
<1> QED
  BY <1>1, <1>2, <1>3, <1>4, <1>5, <1>6, <1>7, <1>8, <1>9, <1>10 DEF Next, Handle

LEMMA Lifetimes == Spec => []LInv
<1>1. Init => LInv
  BY TimeAssumption DEF Init, LInv, Types, JarInv, Fits, OnTime, Holding, Idle, NoRow, NoCookie,
     Cookie, Row, Req, Await, Kind, Jwt, Answer, Instant, Time, Never
<1>2. LInv /\ [Next]_vars => LInv'
  <2> SUFFICES ASSUME LInv, [Next]_vars PROVE LInv'
    OBVIOUS
  <2>1. CASE Next
    BY <2>1, LifetimesStay
  <2>2. CASE UNCHANGED vars
    BY <2>2 DEF vars, storeVars, clientVars, LInv, Types, JarInv, Fits, OnTime, Holding,
                SignedSince, LeewayCovers
  <2> QED
    BY <2>1, <2>2
<1> QED
  BY <1>1, <1>2, PTL DEF Spec

\* Every variable stays in its type, whatever the clock constants are (all handlers).
THEOREM TypesHold == Spec => []TypeOK
<1>1. LInv => TypeOK
  BY DEF LInv, Types, TypeOK, Req, Row, Cookie, Instant
<1> QED
  BY <1>1, Lifetimes, PTL

\* A browser that obeys Max-Age is never told that its refresh cookie has expired, if
\* Leeway covers two requests (CookieConfig's Max-Age, verify_refresh_token).
THEOREM CookiesAreHonoured == LeewayCovers => (Spec => []CookieIsHonoured)
<1> SUFFICES ASSUME LeewayCovers PROVE Spec => []CookieIsHonoured
  OBVIOUS
<1>1. LInv => CookieIsHonoured
  BY DEF LInv, Fits, CookieIsHonoured
<1> QED
  BY <1>1, Lifetimes, PTL
-----------------------------------------------------------------------------
(* The sessions.  None of this depends on how long the bucket keeps a      *)
(* marker, until a session is said to be closed.                           *)

Hands(q) == q.ans \in {"rotated", "opened"}

\* The request is the only one that knows its new token.
Bears(q) == q.pc \in {"store", "mark_used"} \/ Hands(q)

\* A request presents a token that was handed out, holds the row it found up to the
\* marks of others, and brings its successor to the store and to the client.
Owes(q) ==
  /\ q.tok \in given \cup {None}
  /\ Bears(q) => q.new \notin given
  /\ q.pc = "store" => ~Written(q.new)
  /\ q.pc = "mark_used" \/ Hands(q) => Written(q.new)
  /\ Holding(q) => q.tok \in given /\ q.seen.family = row[q.tok].family
  /\ q.pc = "mark_used" \/ (q.pc = "store" /\ q.kind # "token") => ~q.seen.used
  /\ q.pc = "mark_used" => ~row[q.new].used /\ row[q.new].family = q.seen.family

Rooted(f) == f \in Token /\ row[f].family = f

RowsRooted ==
  \A t \in Token : IF Written(t) THEN Rooted(row[t].family) ELSE row[t] = NoRow

OneLive == \A f \in Token : \A t, u \in Live(f) : t = u

OneBearer ==
  \A r, s \in Request : r # s /\ Bears(req[r]) /\ Bears(req[s]) => req[r].new # req[s].new

GivenInv == refresh.tok \in given \cup {None} /\ \A t \in given : Written(t)

SessionsInv ==
  /\ RowsRooted /\ OneLive /\ OneBearer /\ GivenInv
  /\ \A f \in Token : revokedAt[f] # Never => Rooted(f)
  /\ \A r \in Request : Owes(req[r])

ClockInv == CInv /\ LInv

\* What is known of the variables wherever a session is looked at.
LEMMA Known ==
  ASSUME ClockInv
  PROVE  /\ req \in [Request -> Req] /\ row \in [Token -> Row] /\ given \subseteq Token
         /\ revokedAt \in [Token -> Instant] /\ now # Never /\ None \notin Token
         /\ \A r \in Request : Bears(req[r]) => req[r].new \in Token /\ signed[req[r].new] # Never
         /\ \A r \in Request : Hands(req[r]) => req[r].pc = "answer"
         /\ \A r \in Request : req[r].pc = "mark_used" => Holding(req[r])
         /\ \A t \in Token : Written(t) => signed[t] # Never
<1>1. \A r \in Request : Fits(req[r]) /\ OnTime(req[r])
  BY DEF ClockInv, LInv, CInv, TimeInv
<1>2. Types /\ SignedInv
  BY DEF ClockInv, CInv
<1>3. now # Never /\ None \notin Token
  BY <1>2, TimeAssumption DEF Types, Time, Never
<1>4. \A r \in Request : Bears(req[r]) => req[r].new \in Token /\ signed[req[r].new] # Never
  BY <1>1 DEF Fits, SignedSince, Bears, Hands
<1>5. \A r \in Request : Hands(req[r]) => req[r].pc = "answer"
  BY <1>1 DEF Fits, Hands
<1>6. \A r \in Request : req[r].pc = "mark_used" => Holding(req[r])
  BY <1>1 DEF OnTime, Holding
<1>7. \A t \in Token : Written(t) => signed[t] # Never
  BY <1>2 DEF SignedInv, SignedInTime, Written
<1> QED
  BY <1>2, <1>3, <1>4, <1>5, <1>6, <1>7 DEF Types, ClockInv, LInv

\* A successor on its way to the store was not handed out.
LEMMA NewIsUnheard ==
  ASSUME ClockInv, SessionsInv, NEW r \in Request, req[r].pc \in {"store", "mark_used"}
  PROVE  req[r].new \in Token /\ req[r].new \notin given /\ ~HandedOut(req[r].new)
<1>1. Bears(req[r]) /\ ~Hands(req[r]) /\ req[r].new \in Token /\ req[r].new \notin given
  BY Known DEF Bears, SessionsInv, Owes
<1>2. ASSUME NEW s \in Request, Hands(req[s]) PROVE req[s].new # req[r].new
  BY <1>1, <1>2 DEF Bears, SessionsInv, OneBearer
<1> QED
  BY <1>1, <1>2 DEF HandedOut, Hands

\* A token that was handed out is in the bucket.
LEMMA HandedIsWritten ==
  ASSUME ClockInv, SessionsInv, NEW t \in Token, HandedOut(t)
  PROVE  Written(t)
BY DEF HandedOut, SessionsInv, GivenInv, Owes, Hands

LEMMA LiveIsRooted ==
  ASSUME ClockInv, SessionsInv, NEW f \in Token, NEW t \in Live(f)
  PROVE  Written(t) /\ Rooted(f)
BY HandedIsWritten DEF Live, SessionsInv, RowsRooted

\* What a request owes does not depend on the steps of others that leave the store alone.
Apart(r) == \A m \in Request : m # r => req'[m] = req[m]

LEMMA OthersOwe ==
  ASSUME SessionsInv, NEW r \in Request, Apart(r), UNCHANGED <<row, given>>,
         Owes(req[r])'
  PROVE  \A m \in Request : Owes(req[m])'
<1> SUFFICES ASSUME NEW m \in Request, m # r PROVE Owes(req[m])'
  OBVIOUS
<1>1. Owes(req[m]) /\ req'[m] = req[m]
  BY DEF SessionsInv, Apart
<1> QED
  BY <1>1 DEF Owes, Bears, Hands, Written, Holding

\* The request takes a token that nobody has, keeps its own, or lets it go.
Takes(r) ==
  Bears(req[r])' => \/ Bears(req[r]) /\ req'[r].new = req[r].new
                    \/ req'[r].new \in Fresh

LEMMA StaysOneBearer ==
  ASSUME ClockInv, SessionsInv, NEW r \in Request, Apart(r), Takes(r)
  PROVE  OneBearer'
<1>1. ASSUME NEW m \in Request, m # r, Bears(req[r])', Bears(req[m])'
      PROVE  req'[r].new # req'[m].new
  <2>1. req'[m] = req[m] /\ Bears(req[m])
    BY <1>1 DEF Apart, Bears, Hands
  <2>2. CASE Bears(req[r]) /\ req'[r].new = req[r].new
    BY <1>1, <2>1, <2>2 DEF SessionsInv, OneBearer
  <2>3. CASE req'[r].new \in Fresh
    BY <2>1, <2>3, Known DEF Fresh
  <2> QED
    BY <1>1, <2>2, <2>3 DEF Takes
<1>2. ASSUME NEW m \in Request, NEW s \in Request, m # r, s # r, m # s, Bears(req[m])', Bears(req[s])'
      PROVE  req'[m].new # req'[s].new
  BY <1>2 DEF Apart, Bears, Hands, SessionsInv, OneBearer
<1> QED
  BY <1>1, <1>2 DEF OneBearer

LEMMA HandedStays ==
  ASSUME NEW r \in Request, Apart(r), UNCHANGED given, ~Hands(req[r]), ~Hands(req[r])'
  PROVE  \A t : HandedOut(t)' <=> HandedOut(t)
BY DEF HandedOut, Apart, Hands

\* A step that leaves the store and the client alone, and hands nothing out.
Quiet(r) ==
  /\ Apart(r) /\ UNCHANGED <<row, revokedAt, given, refresh>>
  /\ ~Hands(req[r]) /\ ~Hands(req[r])'
  /\ Takes(r) /\ Owes(req[r])'

LEMMA QuietKeeps ==
  ASSUME ClockInv, SessionsInv, NEW r \in Request, Quiet(r)
  PROVE  /\ SessionsInv'
         /\ \A f \in Token : CurrentOf(f)' = CurrentOf(f)
<1>1. \A t : HandedOut(t)' <=> HandedOut(t)
  BY HandedStays DEF Quiet
<1>2. \A f : Live(f)' = Live(f)
  BY <1>1 DEF Live, Quiet
<1>3. OneBearer' /\ \A m \in Request : Owes(req[m])'
  BY StaysOneBearer, OthersOwe DEF Quiet
<1>4. OneLive'
  BY <1>2 DEF OneLive, SessionsInv
<1>5. RowsRooted' /\ GivenInv' /\ \A f \in Token : revokedAt'[f] # Never => Rooted(f)'
  BY DEF Quiet, SessionsInv, RowsRooted, Rooted, Written, GivenInv
<1>6. \A f \in Token : CurrentOf(f)' = CurrentOf(f)
  <2> SUFFICES ASSUME NEW f \in Token PROVE CurrentOf(f)' = CurrentOf(f)
    OBVIOUS
  <2>1. Live(f)' = Live(f)
    BY <1>2
  <2> QED
    BY <2>1 DEF CurrentOf
<1> QED
  BY <1>3, <1>4, <1>5, <1>6 DEF SessionsInv

\* Past its look at the marker, a request rotates.
Rotates(q) == q.pc \in {"store", "mark_used"} /\ q.kind # "token"

\* A step rotates no other session, and none that was revoked before its look at the marker.
Turns(r) ==
  Rotates(req[r])' =>
    /\ req'[r].seen.family = req[r].seen.family
    /\ Rotates(req[r]) \/ revokedAt[req[r].seen.family] = Never

\* A step that leaves the rows alone closes or revokes one session at most.
LEMMA PhaseStep ==
  ASSUME NEW g \in Token,
         \A f \in Token : CurrentOf(f)' = CurrentOf(f),
         \A f \in Token : f # g => PhaseOf(f)' = PhaseOf(f),
         UNCHANGED row,
         \/ PhaseOf(g)' = PhaseOf(g)
         \/ PhaseOf(g) = "closing" /\ PhaseOf(g)' = "closed"
         \/ PhaseOf(g) = "open" /\ PhaseOf(g)' \in {"closing", "closed"}
  PROVE  [Session!SessionNext]_(Session!sessionVars)
<1> DEFINE phase == [f \in Token |-> PhaseOf(f)]
<1>1. UNCHANGED <<[f \in Token |-> CurrentOf(f)], {t \in Token : row[t].used}>>
  OBVIOUS
<1>2. phase' = [phase EXCEPT ![g] = PhaseOf(g)'] /\ phase[g] = PhaseOf(g)
  OBVIOUS
<1>3. CASE PhaseOf(g)' = PhaseOf(g)
  BY <1>1, <1>2, <1>3 DEF Session!sessionVars
<1>4. CASE PhaseOf(g) = "closing" /\ PhaseOf(g)' = "closed"
  BY <1>1, <1>2, <1>4 DEF Session!Close, Session!SessionNext
<1>5. CASE PhaseOf(g) = "open" /\ PhaseOf(g)' \in {"closing", "closed"}
  BY <1>1, <1>2, <1>5 DEF Session!Revoke, Session!SessionNext
<1> QED
  BY <1>3, <1>4, <1>5

\* Nothing changes of the sessions when no current token, no mark and no phase does.
LEMMA SameSessions ==
  ASSUME \A f \in Token : CurrentOf(f)' = CurrentOf(f) /\ PhaseOf(f)' = PhaseOf(f),
         \A t \in Token : row'[t].used = row[t].used
  PROVE  [Session!SessionNext]_(Session!sessionVars)
<1>1. UNCHANGED <<[f \in Token |-> CurrentOf(f)], {t \in Token : row[t].used},
                  [f \in Token |-> PhaseOf(f)]>>
  OBVIOUS
<1> QED
  BY <1>1 DEF Session!sessionVars

\* A quiet step closes a session at most: that of the rotation that is over.
LEMMA QuietIsPromised ==
  ASSUME ClockInv, SessionsInv, NEW r \in Request, Quiet(r), Turns(r)
  PROVE  [Session!SessionNext]_(Session!sessionVars)
<1> SUFFICES ASSUME NEW g, g = req[r].seen.family
             PROVE  [Session!SessionNext]_(Session!sessionVars)
  OBVIOUS
<1>1. \A f \in Token : CurrentOf(f)' = CurrentOf(f)
  BY QuietKeeps
<1>2. UNCHANGED <<row, revokedAt>>
  BY DEF Quiet
<1>3. \A f \in Token : f # g => (Rotating(f)' <=> Rotating(f))
  <2> SUFFICES ASSUME NEW f \in Token, f # g PROVE Rotating(f)' <=> Rotating(f)
    OBVIOUS
  <2>1. ~(Rotates(req[r]) /\ req[r].seen.family = f)
    OBVIOUS
  <2>2. ~(Rotates(req[r])' /\ req'[r].seen.family = f)
    BY DEF Turns
  <2> QED
    BY <2>1, <2>2 DEF Rotating, Rotates, Quiet, Apart
<1>4. revokedAt[g] # Never /\ Rotating(g)' => Rotating(g)
  BY DEF Turns, Rotating, Rotates, Quiet, Apart
<1>5. \A f \in Token : f # g => PhaseOf(f)' = PhaseOf(f)
  BY <1>2, <1>3 DEF PhaseOf
<1>6. PhaseOf(g)' = PhaseOf(g) \/ (PhaseOf(g) = "closing" /\ PhaseOf(g)' = "closed")
  BY <1>2, <1>4 DEF PhaseOf
<1>7. CASE g \in Token
  BY <1>1, <1>2, <1>5, <1>6, <1>7, PhaseStep
<1>8. CASE g \notin Token
  BY <1>1, <1>2, <1>5, <1>8, SameSessions
<1> QED
  BY <1>7, <1>8

\* A request that hands nothing out, and stores nothing next.
LEMMA CalmIsQuiet ==
  ASSUME ClockInv, SessionsInv, NEW r \in Request, Keeps(r),
         req'[r].pc \notin {"store", "mark_used"}, req'[r].seen = req[r].seen,
         ~Hands(req[r]), ~Hands(req[r])', Holding(req[r])' => Holding(req[r]),
         UNCHANGED <<row, revokedAt, given, refresh>>
  PROVE  Quiet(r) /\ Turns(r)
<1>1. Apart(r)
  BY DEF Keeps, Apart
<1>2. ~Bears(req[r])'
  BY DEF Bears, Hands
<1>3. Owes(req[r])
  BY DEF SessionsInv
<1>4. Owes(req[r])'
  BY <1>2, <1>3 DEF Owes, Keeps, Hands, Bears
<1> QED
  BY <1>1, <1>2, <1>4 DEF Quiet, Takes, Turns, Rotates

\* A fresh token is nobody's.
LEMMA SignIsQuiet ==
  ASSUME ClockInv, SessionsInv, NEW r \in Request, NEW n \in Fresh, Sign(r, n),
         req[r].pc \notin {"store", "mark_used", "answer"},
         req[r].kind = "token" \/
           (Holding(req[r]) /\ ~req[r].seen.used /\ revokedAt[req[r].seen.family] = Never),
         UNCHANGED <<row, revokedAt, given, refresh>>
  PROVE  Quiet(r) /\ Turns(r)
<1>1. n \in Token /\ signed[n] = Never
  BY DEF Fresh
<1>2. /\ Keeps(r) /\ req'[r].pc = "store" /\ req'[r].ans = req[r].ans
      /\ req'[r].seen = req[r].seen /\ req'[r].new = n
  BY <1>1, SignIs DEF ClockInv, CInv
<1>3. ~Hands(req[r]) /\ ~Hands(req[r])'
  BY <1>2, Known DEF Hands
<1>4. ~Written(n) /\ n \notin given
  BY <1>1, Known DEF SessionsInv, GivenInv
<1>5. Owes(req[r])
  BY DEF SessionsInv
<1>6. Owes(req[r])'
  BY <1>2, <1>3, <1>4, <1>5 DEF Owes, Keeps, Hands, Bears, Holding, Written
<1>7. Apart(r) /\ Takes(r)
  BY <1>2 DEF Keeps, Apart, Takes
<1>8. Turns(r)
  BY <1>2 DEF Turns, Rotates, Keeps
<1> QED
  BY <1>3, <1>6, <1>7, <1>8 DEF Quiet

-----------------------------------------------------------------------------
(* Each step keeps the sessions' invariant, and is a step of a session or  *)
(* of none.                                                                *)

Promised == SessionsInv' /\ [Session!SessionNext]_(Session!sessionVars)

LEMMA QuietStep ==
  ASSUME ClockInv, SessionsInv, NEW r \in Request, Quiet(r) /\ Turns(r)
  PROVE  Promised
BY QuietKeeps, QuietIsPromised DEF Promised

\* What a client sends was handed out.
LEMMA SendsAreGiven ==
  ASSUME ClockInv, SessionsInv, NEW r \in Request,
         \/ \E k \in Kind : SendCookies(r, k)
         \/ Login(r) \/ SendKept(r) \/ SendForeign(r)
  PROVE  \E k \in Kind, jwt \in Jwt, a \in Token \cup {None, Foreign}, t \in given \cup {None},
            own \in BOOLEAN : Send(r, k, jwt, a, t, own)
<1>1. access.tok \in Token \cup {None} /\ refresh.tok \in given \cup {None}
  BY DEF ClockInv, CInv, Types, Cookie, SessionsInv, GivenInv
<1>2. given \subseteq Token
  BY Known
<1>3. {"token", "check", "refresh"} \subseteq Kind
  BY DEF Kind
<1> QED
  BY <1>1, <1>2, <1>3, Zenon DEF SendCookies, Login, SendKept, SendForeign, Jwt

LEMMA SendPromised ==
  ASSUME ClockInv, SessionsInv, NEW r \in Request,
         \/ \E k \in Kind : SendCookies(r, k)
         \/ Login(r) \/ SendKept(r) \/ SendForeign(r)
  PROVE  Promised
<1>1. PICK k \in Kind, jwt \in Jwt, a \in Token \cup {None, Foreign}, t \in given \cup {None},
           own \in BOOLEAN : Send(r, k, jwt, a, t, own)
  BY SendsAreGiven
<1>2. Types /\ t \in Token \cup {None}
  BY Known DEF ClockInv, CInv
<1>3. /\ \A m \in Request : m # r => req'[m] = req[m]
      /\ req'[r].pc = "sent" /\ req'[r].ans = "none" /\ req'[r].tok = t
  <2>1. Sent(r, a, t, own)
    BY <1>1, <1>2, SendIs
  <2> QED
    BY <2>1 DEF Sent
<1>4. UNCHANGED <<row, revokedAt, given, refresh>> /\ req[r].pc = "idle"
  BY <1>1 DEF Send, storeVars, clientVars
<1>5. ~Hands(req[r]) /\ ~Hands(req[r])' /\ ~Bears(req[r])'
  BY <1>3, <1>4, Known DEF Hands, Bears
<1>6. Owes(req[r])'
  BY <1>3, <1>4, <1>5 DEF Owes, Bears, Holding
<1>7. Quiet(r) /\ Turns(r)
  BY <1>3, <1>4, <1>5, <1>6 DEF Quiet, Apart, Takes, Turns, Rotates
<1> QED
  BY <1>7, QuietStep

LEMMA AnswerPromised ==
  ASSUME ClockInv, SessionsInv, NEW r \in Request, NEW a \in Answer \ {"rotated", "opened"},
         AnswerWith(r, a), req[r].pc # "answer", UNCHANGED <<row, revokedAt, given, refresh>>
  PROVE  Promised
<1>1. /\ Keeps(r) /\ req'[r].pc = "answer" /\ req'[r].ans = a
      /\ req'[r].seen = req[r].seen
  BY AnswerIs DEF ClockInv, CInv
<1>2. ~Hands(req[r]) /\ ~Hands(req[r])' /\ ~Holding(req[r])'
  BY <1>1, Known DEF Hands, Holding
<1> QED
  BY <1>1, <1>2, CalmIsQuiet, QuietStep

LEMMA GoOnPromised ==
  ASSUME ClockInv, SessionsInv, NEW r \in Request, NEW p \in {"find", "revoke"}, GoTo(r, p),
         req[r].pc # "answer", p = "revoke" => Holding(req[r]),
         UNCHANGED <<row, revokedAt, given, refresh>>
  PROVE  Promised
<1>1. /\ Keeps(r) /\ req'[r].pc = p /\ req'[r].ans = req[r].ans /\ req'[r].seen = req[r].seen
  BY GoToIs DEF ClockInv, CInv, Await
<1>2. ~Hands(req[r]) /\ ~Hands(req[r])' /\ (Holding(req[r])' => Holding(req[r]))
  BY <1>1, Known DEF Hands, Holding, Keeps
<1> QED
  BY <1>1, <1>2, CalmIsQuiet, QuietStep

LEMMA ArrivalPromised ==
  ASSUME ClockInv, SessionsInv, NEW r \in Request, Token_(r) \/ Refresh(r) \/ Logout(r) \/ Check(r)
  PROVE  Promised
<1>1. req[r].pc = "sent" /\ UNCHANGED <<row, revokedAt, given, refresh>>
  BY DEF Token_, Refresh, Logout, Check, Arrives, storeVars, clientVars
<1>2. CASE Token_(r)
  <2>1. PICK n \in Fresh : Sign(r, n)
    BY <1>2 DEF Token_
  <2>2. req[r].kind = "token"
    BY <1>2 DEF Token_, Arrives
  <2> QED
    BY <1>1, <2>1, <2>2, SignIsQuiet, QuietStep
<1>3. CASE \E a \in Answer \ {"rotated", "opened"} : AnswerWith(r, a)
  BY <1>1, <1>3, AnswerPromised
<1>4. CASE GoTo(r, "find")
  BY <1>1, <1>4, GoOnPromised
<1> QED
  BY <1>2, <1>3, <1>4 DEF Refresh, Logout, Check, HandleJwtCookie, SilentRefresh, Answer

LEMMA FindPromised ==
  ASSUME ClockInv, SessionsInv, NEW r \in Request, Find(r)
  PROVE  Promised
<1>1. /\ req[r].pc = "find" /\ req[r].kind # "token" /\ req[r].tok \in Token /\ req[r] \in Req
      /\ UNCHANGED <<row, revokedAt, given, refresh>>
  BY DEF Find, ClockInv, CInv, TimeInv, OnTime, Types, storeVars, clientVars
<1>2. CASE \E a \in Answer \ {"rotated", "opened"} : AnswerWith(r, a)
  BY <1>1, <1>2, AnswerPromised
<1>3. CASE \E p \in {"revoke", "is_revoked"} :
             req' = [req EXCEPT ![r] = [req[r] EXCEPT !.pc = p, !.seen = row[req[r].tok]]]
  <2>1. PICK p \in {"revoke", "is_revoked"} :
          req' = [req EXCEPT ![r] = [req[r] EXCEPT !.pc = p, !.seen = row[req[r].tok]]]
    BY <1>3
  <2>2. /\ Keeps(r) /\ req'[r].pc = p /\ req'[r].ans = req[r].ans
        /\ req'[r].seen = row[req[r].tok]
    BY <1>1, <2>1, Known DEF Req, Keeps
  <2>3. ~Hands(req[r]) /\ ~Hands(req[r])' /\ ~Bears(req[r])' /\ ~Rotates(req[r])'
    BY <1>1, <2>2, Known DEF Hands, Bears, Rotates
  <2>4. req[r].tok \in given
    BY <1>1, Known DEF SessionsInv, Owes
  <2>5. Owes(req[r])'
    BY <1>1, <2>2, <2>3, <2>4 DEF Owes, Keeps, Bears
  <2>6. Quiet(r) /\ Turns(r)
    BY <1>1, <2>2, <2>3, <2>5 DEF Quiet, Apart, Keeps, Takes, Turns
  <2> QED
    BY <2>6, QuietStep
<1> QED
  BY <1>2, <1>3 DEF Find, Answer

LEMMA IsFamilyRevokedPromised ==
  ASSUME MarkersOutlive, ClockInv, SessionsInv, NEW r \in Request, IsFamilyRevoked(r)
  PROVE  Promised
<1>1. /\ req[r].pc = "is_revoked" /\ Holding(req[r])
      /\ UNCHANGED <<row, revokedAt, given, refresh>>
  BY DEF IsFamilyRevoked, ClockInv, CInv, TimeInv, OnTime, Holding, storeVars, clientVars
<1>2. CASE AnswerWith(r, "refused")
  BY <1>1, <1>2, AnswerPromised DEF Answer
<1>3. CASE GoTo(r, "revoke")
  BY <1>1, <1>3, GoOnPromised
<1>4. CASE ~req[r].seen.used /\ \E n \in Fresh : Sign(r, n)
  <2>1. PICK n \in Fresh : Sign(r, n)
    BY <1>4
  <2>2. req'[r].pc = "store"
    BY <2>1, SignIs DEF Fresh, ClockInv, CInv
  <2>3. revokedAt[req[r].seen.family] = Never
    BY <2>2, NotRevoked DEF ClockInv
  <2> QED
    BY <1>1, <1>4, <2>1, <2>3, SignIsQuiet, QuietStep
<1> QED
  BY <1>2, <1>3, <1>4 DEF IsFamilyRevoked

LEMMA CurrentToken ==
  /\ \A f, t \in Token : Live(f)' = {t} => CurrentOf(f)' = t
  /\ \A f, t \in Token : Live(f) = {t} => CurrentOf(f) = t
  /\ \A f \in Token : Live(f)' = Live(f) => CurrentOf(f)' = CurrentOf(f)
  /\ \A f \in Token : CurrentOf(f) \in Live(f) \cup {None}
<1>1. \A S, t : S = {t} => (CHOOSE u \in S : TRUE) = t
  OBVIOUS
<1>2. \A f, t \in Token : Live(f) = {t} => CurrentOf(f) = t
  BY <1>1 DEF CurrentOf
<1>3. ASSUME NEW f \in Token, NEW t \in Token, Live(f)' = {t} PROVE CurrentOf(f)' = t
  BY <1>1, <1>3 DEF CurrentOf
<1>4. \A f \in Token : Live(f)' = Live(f) => CurrentOf(f)' = CurrentOf(f)
  BY DEF CurrentOf
<1>5. \A f \in Token : CurrentOf(f) \in Live(f) \cup {None}
  BY DEF CurrentOf
<1> QED
  BY <1>2, <1>3, <1>4, <1>5

\* The row that is stored is the first of its token, of a family of its own or of one
\* that was opened.
LEMMA StoreRows ==
  ASSUME ClockInv, SessionsInv, NEW r \in Request, Store(r),
         NEW n, n = req[r].new, NEW f, f = FamilyOf(req[r])
  PROVE  /\ n \in Token /\ f \in Token /\ row[n] = NoRow /\ n \notin given /\ ~HandedOut(n)
         /\ \A t \in Token : t # n => row'[t] = row[t]
         /\ row'[n] = [family |-> f, used |-> FALSE, at |-> now]
         /\ f = n \/ (f # n /\ Rooted(f))
         /\ (f = n) <=> (req[r].kind = "token")
<1>1. n \in Token /\ n \notin given /\ ~HandedOut(n)
  BY NewIsUnheard DEF Store
<1>2. ~Written(n) /\ row[n] = NoRow
  BY <1>1 DEF Store, SessionsInv, Owes, RowsRooted
<1>3. /\ \A t \in Token : t # n => row'[t] = row[t]
      /\ row'[n] = [family |-> f, used |-> FALSE, at |-> now]
  BY <1>1, Known DEF Store
<1>4. CASE req[r].kind = "token"
  BY <1>1, <1>2, <1>3, <1>4 DEF FamilyOf
<1>5. CASE req[r].kind # "token"
  <2>1. Holding(req[r]) /\ f = req[r].seen.family
    BY <1>5 DEF Holding, Store, FamilyOf
  <2>2. req[r].tok \in given /\ f = row[req[r].tok].family
    BY <2>1 DEF SessionsInv, Owes
  <2>3. Rooted(f) /\ f \in Token
    BY <2>2, Known DEF SessionsInv, GivenInv, RowsRooted, Rooted
  <2>4. f # n
    BY <1>2, <2>3, Known DEF Rooted, NoRow
  <2> QED
    BY <1>1, <1>2, <1>3, <1>5, <2>3, <2>4
<1> QED
  BY <1>4, <1>5

LEMMA StoreKeeps ==
  ASSUME ClockInv, SessionsInv, NEW r \in Request, Store(r),
         NEW n, n = req[r].new, NEW f, f = FamilyOf(req[r])
  PROVE  /\ SessionsInv'
         /\ \A g \in Token : g # n \/ f # n => Live(g)' = Live(g)
         /\ f = n => Live(n)' = {n}
<1>1. /\ n \in Token /\ f \in Token /\ row[n] = NoRow /\ n \notin given /\ ~HandedOut(n)
      /\ \A t \in Token : t # n => row'[t] = row[t]
      /\ row'[n] = [family |-> f, used |-> FALSE, at |-> now]
      /\ f = n \/ (f # n /\ Rooted(f))
      /\ (f = n) <=> (req[r].kind = "token")
  BY StoreRows
<1>2. /\ row'[n].family = f /\ row'[n].used = FALSE /\ row'[n].at = now
      /\ row[n].family = None /\ row[n].at = Never
  BY <1>1 DEF NoRow
<1>3. UNCHANGED <<signed, revokedAt, given, refresh>> /\ req[r].pc = "store"
  BY DEF Store, clientVars
<1>4. /\ Keeps(r) /\ req'[r].seen = req[r].seen /\ req'[r].new = n
      /\ IF f = n THEN req'[r].pc = "answer" /\ req'[r].ans = "opened"
                  ELSE req'[r].pc = "mark_used" /\ ~Hands(req[r])'
  <2>1. Types /\ ~Hands(req[r])
    BY <1>3, Known DEF ClockInv, CInv
  <2>2. CASE f = n
    <3>1. AnswerWith(r, "opened") /\ "opened" \in Answer
      BY <1>1, <2>2 DEF Store, Answer
    <3>2. Keeps(r) /\ req'[r].pc = "answer" /\ req'[r].ans = "opened"
          /\ req'[r].seen = req[r].seen /\ req'[r].new = req[r].new
      BY <2>1, <3>1, AnswerIs
    <3> QED
      BY <2>2, <3>2
  <2>3. CASE f # n
    <3>1. GoTo(r, "mark_used") /\ "mark_used" \in Await
      BY <1>1, <2>3 DEF Store, Await
    <3>2. Keeps(r) /\ req'[r].pc = "mark_used" /\ req'[r].ans = req[r].ans
          /\ req'[r].seen = req[r].seen /\ req'[r].new = req[r].new
      BY <2>1, <3>1, GoToIs
    <3> QED
      BY <2>1, <2>3, <3>2 DEF Hands
  <2> QED
    BY <2>2, <2>3
<1>5. \A t \in Token : t # n => (HandedOut(t)' <=> HandedOut(t))
  BY <1>3, <1>4, Known DEF HandedOut, Keeps, Hands
<1>6. HandedOut(n)' <=> f = n
  <2>1. CASE f = n
    BY <1>4, <2>1 DEF HandedOut
  <2>2. CASE f # n
    BY <1>1, <1>3, <1>4, <2>2 DEF HandedOut, Keeps, Hands
  <2> QED
    BY <2>1, <2>2
<1>7. \A t \in Token : Written(t) => t # n /\ row[t].family # n
  BY <1>2, Known DEF SessionsInv, RowsRooted, Rooted, Written
<1>8. \A t \in Token : row[t].family # n
  <2>1. \A t \in Token : ~Written(t) => row[t].family # n
    BY <1>1, <1>2, Known DEF SessionsInv, RowsRooted
  <2> QED
    BY <1>7, <2>1
<1>9. \A g \in Token : g # n \/ f # n => Live(g)' = Live(g)
  <2> SUFFICES ASSUME NEW g \in Token, g # n \/ f # n, NEW t \in Token
               PROVE  t \in Live(g)' <=> t \in Live(g)
    BY DEF Live
  <2>1. CASE t # n
    BY <1>1, <1>5, <2>1 DEF Live
  <2>2. CASE t = n
    BY <1>1, <1>2, <1>6, <2>2 DEF Live
  <2> QED
    BY <2>1, <2>2
<1>10. f = n => Live(n)' = {n}
  <2> SUFFICES ASSUME f = n, NEW t \in Token PROVE t \in Live(n)' <=> t = n
    BY <1>1 DEF Live
  <2>1. CASE t = n
    BY <1>2, <1>6, <2>1 DEF Live
  <2>2. CASE t # n
    BY <1>1, <1>8, <2>2 DEF Live
  <2> QED
    BY <2>1, <2>2
<1>11. OneLive'
  <2>1. ASSUME NEW g \in Token PROVE \A t, u \in Live(g)' : t = u
    <3>1. CASE f = n /\ g = n
      BY <1>10, <3>1
    <3>2. CASE g # n \/ f # n
      BY <1>9, <3>2 DEF SessionsInv, OneLive
    <3> QED
      BY <3>1, <3>2
  <2> QED
    BY <2>1 DEF OneLive
<1>12. RowsRooted'
  <2> SUFFICES ASSUME NEW t \in Token
               PROVE  IF Written(t)' THEN Rooted(row[t].family)' ELSE row'[t] = NoRow
    BY DEF RowsRooted
  <2>1. \A g : g # n /\ Rooted(g) => Rooted(g)'
    BY <1>1 DEF Rooted
  <2>2. CASE t # n
    <3>1. row'[t] = row[t]
      BY <1>1, <2>2
    <3>2. Written(t) => Rooted(row[t].family) /\ row[t].family # n
      BY <1>7 DEF SessionsInv, RowsRooted
    <3>3. ~Written(t) => row[t] = NoRow
      BY DEF SessionsInv, RowsRooted
    <3> QED
      BY <2>1, <3>1, <3>2, <3>3 DEF Written
  <2>3. CASE t = n
    <3>1. Written(t)' /\ row'[t].family = f
      BY <1>2, <2>3, Known DEF Written
    <3>2. Rooted(f)'
      BY <1>1, <1>2, <2>1 DEF Rooted
    <3> QED
      BY <3>1, <3>2
  <2> QED
    BY <2>2, <2>3
<1>13. \A g \in Token : revokedAt'[g] # Never => Rooted(g)'
  BY <1>1, <1>2, <1>3, Known DEF SessionsInv, Rooted
<1>14. OneBearer'
  <2>1. Apart(r) /\ Takes(r)
    BY <1>3, <1>4 DEF Keeps, Apart, Takes, Bears
  <2> QED
    BY <2>1, StaysOneBearer
<1>15. \A t \in Token : Written(t) => Written(t)'
  BY <1>1, <1>2 DEF Written
<1>16. GivenInv'
  BY <1>3, <1>15, Known DEF SessionsInv, GivenInv
<1>17. ASSUME NEW m \in Request, m # r PROVE Owes(req[m])'
  <2>1. req'[m] = req[m] /\ Owes(req[m])
    BY <1>4, <1>17 DEF Keeps, SessionsInv
  <2>2. Bears(req[m]) => req[m].new \in Token /\ req[m].new # n
    BY <1>3, <1>17, Known DEF SessionsInv, OneBearer, Bears
  <2>3. Bears(req[m]) => row'[req[m].new] = row[req[m].new]
    BY <1>1, <2>2
  <2>4. Holding(req[m]) => row'[req[m].tok] = row[req[m].tok]
    BY <1>1, <2>1, Known DEF Owes
  <2> QED
    BY <1>3, <2>1, <2>3, <2>4 DEF Owes, Bears, Hands, Holding, Written
<1>18. Owes(req[r])'
  <2>1. Owes(req[r]) /\ Written(n)' /\ Bears(req[r])
    BY <1>2, <1>3, Known DEF SessionsInv, Written, Bears, Hands
  <2>2. Holding(req[r])' => Holding(req[r]) /\ f # n
    BY <1>1, <1>3, <1>4 DEF Holding, Keeps
  <2>3. req'[r].pc = "mark_used" => f = req[r].seen.family /\ ~req[r].seen.used
    BY <1>1, <1>3, <1>4, <2>1 DEF FamilyOf, Owes
  <2>4. Holding(req[r]) => row'[req[r].tok] = row[req[r].tok]
    BY <1>1, <2>1, Known DEF Owes
  <2> QED
    BY <1>1, <1>2, <1>3, <1>4, <2>1, <2>2, <2>3, <2>4 DEF Owes, Keeps, Hands
<1> QED
  BY <1>9, <1>10, <1>11, <1>12, <1>13, <1>14, <1>16, <1>17, <1>18 DEF SessionsInv

LEMMA StorePromised ==
  ASSUME ClockInv, SessionsInv, NEW r \in Request, Store(r)
  PROVE  Promised
<1> SUFFICES ASSUME NEW n, n = req[r].new, NEW f, f = FamilyOf(req[r]) PROVE Promised
  OBVIOUS
<1> DEFINE phase == [g \in Token |-> PhaseOf(g)]
           current == [g \in Token |-> CurrentOf(g)]
<1>1. /\ n \in Token /\ f \in Token /\ row[n] = NoRow /\ ~HandedOut(n)
      /\ \A t \in Token : t # n => row'[t] = row[t]
      /\ row'[n] = [family |-> f, used |-> FALSE, at |-> now]
      /\ f = n \/ (f # n /\ Rooted(f))
      /\ (f = n) <=> (req[r].kind = "token")
  BY StoreRows
<1>2. /\ row'[n].family = f /\ row'[n].used = FALSE
      /\ row[n].family = None /\ row[n].used = FALSE
  BY <1>1 DEF NoRow
<1>3. UNCHANGED revokedAt
  BY DEF Store
<1>4. /\ SessionsInv'
      /\ \A g \in Token : g # n \/ f # n => Live(g)' = Live(g)
      /\ f = n => Live(n)' = {n}
  BY StoreKeeps
<1>5. \A t \in Token : row'[t].used = row[t].used
  BY <1>1, <1>2
<1>6. \A g \in Token : Rotating(g)' <=> Rotating(g)
  <2>1. Apart(r) /\ req'[r].seen = req[r].seen /\ (Rotates(req[r])' <=> Rotates(req[r]))
    <3>1. Types /\ {"opened"} \subseteq Answer /\ {"mark_used"} \subseteq Await
      BY DEF ClockInv, CInv, Answer, Await
    <3>2. CASE req[r].kind = "token"
      <4>1. Keeps(r) /\ req'[r].pc = "answer" /\ req'[r].seen = req[r].seen
        BY <3>1, <3>2, AnswerIs DEF Store
      <4> QED
        BY <3>2, <4>1 DEF Keeps, Apart, Rotates
    <3>3. CASE req[r].kind # "token"
      <4>1. Keeps(r) /\ req'[r].pc = "mark_used" /\ req'[r].seen = req[r].seen
        BY <3>1, <3>3, GoToIs DEF Store
      <4> QED
        BY <3>3, <4>1 DEF Keeps, Apart, Rotates, Store
    <3> QED
      BY <3>2, <3>3
  <2> QED
    BY <2>1 DEF Rotating, Rotates, Apart
<1>7. \A g \in Token : g # n \/ f # n =>
        CurrentOf(g)' = CurrentOf(g) /\ PhaseOf(g)' = PhaseOf(g)
  <2> SUFFICES ASSUME NEW g \in Token, g # n \/ f # n
               PROVE  CurrentOf(g)' = CurrentOf(g) /\ PhaseOf(g)' = PhaseOf(g)
    OBVIOUS
  <2>1. CurrentOf(g)' = CurrentOf(g)
    BY <1>4, CurrentToken
  <2>2. row'[g].family = g <=> row[g].family = g
    BY <1>1, <1>2, Known
  <2> QED
    BY <1>3, <1>6, <2>1, <2>2 DEF PhaseOf
<1>8. CASE f # n
  BY <1>4, <1>5, <1>7, <1>8, SameSessions DEF Promised
<1>9. CASE f = n
  <2>1. PhaseOf(n) = "unopened"
    BY <1>1, <1>2, Known DEF PhaseOf
  <2>2. revokedAt[n] = Never
    BY <1>1, <1>2, Known DEF SessionsInv, Rooted
  <2>3. PhaseOf(n)' = "open"
    BY <1>2, <1>3, <1>9, <2>2 DEF PhaseOf
  <2>4. CurrentOf(n)' = n
    BY <1>1, <1>4, <1>9, CurrentToken
  <2>5. \A g \in Token : CurrentOf(g) # n
    BY <1>1, CurrentToken, Known DEF Live
  <2>6. Session!Unseen(n)
    BY <1>2, <2>5 DEF Session!Unseen
  <2>7. /\ phase' = [phase EXCEPT ![n] = "open"] /\ phase[n] = "unopened"
        /\ current' = [current EXCEPT ![n] = n]
        /\ UNCHANGED {t \in Token : row[t].used}
    BY <1>1, <1>5, <1>7, <2>1, <2>3, <2>4
  <2>8. Session!Open(n)
    BY <2>6, <2>7 DEF Session!Open
  <2> QED
    BY <1>1, <1>4, <2>8 DEF Session!SessionNext, Promised
<1> QED
  BY <1>8, <1>9

\* The marker of a family that was opened revokes its session, the first time.
LEMMA RevokePromised ==
  ASSUME ClockInv, SessionsInv, NEW r \in Request, RevokeFamily(r)
  PROVE  Promised
<1> SUFFICES ASSUME NEW g, g = req[r].seen.family PROVE Promised
  OBVIOUS
<1>1. Holding(req[r]) /\ req[r].pc = "revoke"
  BY DEF RevokeFamily, Holding, ClockInv, CInv, TimeInv, OnTime
<1>2. Rooted(g) /\ g \in Token
  BY <1>1, Known DEF SessionsInv, Owes, GivenInv, RowsRooted, Rooted
<1>3. UNCHANGED <<row, given, refresh>>
  BY DEF RevokeFamily, clientVars
<1>4. PICK a \in Answer \ {"rotated", "opened"} : AnswerWith(r, a)
  BY DEF RevokeFamily, Answer
<1>5. /\ Keeps(r) /\ req'[r].pc = "answer" /\ req'[r].ans = a /\ req'[r].seen = req[r].seen
  BY <1>4, AnswerIs DEF ClockInv, CInv
<1>6. ~Hands(req[r]) /\ ~Hands(req[r])' /\ ~Bears(req[r])' /\ Apart(r)
  BY <1>1, <1>5, Known DEF Hands, Bears, Keeps, Apart
<1>7. \A f \in Token : f # g => revokedAt'[f] = revokedAt[f]
  BY DEF RevokeFamily
<1>8. revokedAt[g] # Never => revokedAt'[g] = revokedAt[g]
  BY <1>2, Known DEF RevokeFamily
<1>9. revokedAt'[g] # Never
  BY <1>2, Known DEF RevokeFamily
<1>10. \A f : Live(f)' = Live(f)
  <2>1. \A t : HandedOut(t)' <=> HandedOut(t)
    BY <1>3, <1>6, HandedStays
  <2> QED
    BY <1>3, <2>1 DEF Live
<1>11. SessionsInv'
  <2>1. Owes(req[r])'
    BY <1>3, <1>5, <1>6 DEF SessionsInv, Owes, Keeps, Holding, Bears
  <2>2. \A m \in Request : Owes(req[m])'
    BY <1>3, <1>6, <2>1, OthersOwe
  <2>3. OneBearer'
    BY <1>6, StaysOneBearer DEF Takes
  <2>4. RowsRooted' /\ GivenInv' /\ \A f \in Token : revokedAt'[f] # Never => Rooted(f)'
    BY <1>2, <1>3, <1>7 DEF SessionsInv, RowsRooted, Rooted, Written, GivenInv
  <2>5. OneLive'
    BY <1>10 DEF SessionsInv, OneLive
  <2> QED
    BY <2>2, <2>3, <2>4, <2>5 DEF SessionsInv
<1>12. \A f \in Token : Rotating(f)' <=> Rotating(f)
  BY <1>1, <1>5, <1>6 DEF Rotating, Apart
<1>13. \A f \in Token : f # g => PhaseOf(f)' = PhaseOf(f)
  BY <1>3, <1>7, <1>12 DEF PhaseOf
<1>14. \/ PhaseOf(g)' = PhaseOf(g)
       \/ PhaseOf(g) = "open" /\ PhaseOf(g)' \in {"closing", "closed"}
  BY <1>2, <1>3, <1>8, <1>9, <1>12 DEF PhaseOf, Rooted
<1>15. \A f \in Token : CurrentOf(f)' = CurrentOf(f)
  BY <1>10, CurrentToken
<1>16. [Session!SessionNext]_(Session!sessionVars)
  BY <1>2, <1>3, <1>13, <1>14, <1>15, PhaseStep
<1> QED
  BY <1>11, <1>16 DEF Promised

\* A compare-and-swap that succeeds retires the live token of its session for the
\* successor, which is the only one to be live then.
MarkSucceeds(r) ==
  /\ req[r].pc = "mark_used" /\ row[req[r].tok] = req[r].seen
  /\ row' = [row EXCEPT ![req[r].tok].used = TRUE, ![req[r].tok].at = now]
  /\ AnswerWith(r, "rotated")
  /\ UNCHANGED <<now, silent, signed, marker, revokedAt, clientVars>>

LEMMA MarkRows ==
  ASSUME ClockInv, SessionsInv, NEW r \in Request, MarkSucceeds(r),
         NEW o, o = req[r].tok, NEW n, n = req[r].new, NEW f, f = req[r].seen.family
  PROVE  /\ o \in Token /\ o \in given /\ n \in Token /\ n \notin given /\ n # o
         /\ Written(n) /\ ~HandedOut(n) /\ Rooted(f) /\ f \in Token
         /\ row[o].family = f /\ ~row[o].used /\ row[n].family = f /\ ~row[n].used
         /\ \A t \in Token : t # o => row'[t] = row[t]
         /\ row'[o].family = f /\ row'[o].used /\ Written(o)'
         /\ Live(f) = {o}
<1>1. n \in Token /\ n \notin given /\ ~HandedOut(n)
  BY NewIsUnheard DEF MarkSucceeds
<1>2. Holding(req[r]) /\ Owes(req[r]) /\ req[r].pc = "mark_used"
  BY Known DEF MarkSucceeds, SessionsInv
<1>3. /\ o \in given /\ o \in Token /\ row[o].family = f /\ row[o] = req[r].seen
      /\ ~row[o].used /\ Written(n) /\ row[n].family = f /\ ~row[n].used
  BY <1>2, Known DEF Owes, MarkSucceeds
<1>4. Rooted(f) /\ f \in Token
  BY <1>3, Known DEF SessionsInv, GivenInv, RowsRooted, Rooted
<1>5. /\ \A t \in Token : t # o => row'[t] = row[t]
      /\ row'[o].family = f /\ row'[o].used /\ Written(o)'
  <2>1. row' = [row EXCEPT ![o] = [row[o] EXCEPT !.used = TRUE, !.at = now]]
    BY DEF MarkSucceeds
  <2>2. row[o] \in Row /\ now # Never
    BY <1>3, Known
  <2>3. /\ [row[o] EXCEPT !.used = TRUE, !.at = now].family = f
        /\ [row[o] EXCEPT !.used = TRUE, !.at = now].used
        /\ [row[o] EXCEPT !.used = TRUE, !.at = now].at = now
    BY <1>3, <2>2 DEF Row
  <2> HIDE <1>3
  <2>4. o \in Token
    BY <1>3
  <2> QED
    BY <2>1, <2>2, <2>3, <2>4, Known DEF Written
<1>6. o \in Live(f)
  BY <1>3 DEF Live, HandedOut
<1>7. Live(f) = {o}
  BY <1>4, <1>6 DEF SessionsInv, OneLive
<1> QED
  BY <1>1, <1>3, <1>4, <1>5, <1>7

LEMMA MarkKeeps ==
  ASSUME ClockInv, SessionsInv, NEW r \in Request, MarkSucceeds(r),
         NEW o, o = req[r].tok, NEW n, n = req[r].new, NEW f, f = req[r].seen.family
  PROVE  /\ SessionsInv'
         /\ \A g \in Token : g # f => Live(g)' = Live(g)
         /\ Live(f)' = {n}
<1>1. /\ o \in Token /\ o \in given /\ n \in Token /\ n \notin given /\ n # o
      /\ Written(n) /\ ~HandedOut(n) /\ Rooted(f) /\ f \in Token
      /\ row[o].family = f /\ ~row[o].used /\ row[n].family = f /\ ~row[n].used
      /\ \A t \in Token : t # o => row'[t] = row[t]
      /\ row'[o].family = f /\ row'[o].used /\ Written(o)'
      /\ Live(f) = {o}
  BY MarkRows
<1>2. UNCHANGED <<signed, revokedAt, given, refresh>> /\ req[r].pc = "mark_used"
  BY DEF MarkSucceeds, clientVars
<1>3. /\ Keeps(r) /\ req'[r].seen = req[r].seen /\ req'[r].new = n
      /\ req'[r].pc = "answer" /\ req'[r].ans = "rotated"
  BY AnswerIs DEF MarkSucceeds, ClockInv, CInv, Answer
<1>4. HandedOut(n)' /\ \A t \in Token : t # n => (HandedOut(t)' <=> HandedOut(t))
  BY <1>2, <1>3, Known DEF HandedOut, Keeps, Hands
<1>5. \A t \in Token : row'[t].family = row[t].family
  BY <1>1
<1>6. \A t \in Token : t # o => (row'[t].used <=> row[t].used)
  BY <1>1
<1>7. \A g \in Token : g # f => Live(g)' = Live(g)
  <2> SUFFICES ASSUME NEW g \in Token, g # f, NEW t \in Token
               PROVE  t \in Live(g)' <=> t \in Live(g)
    BY DEF Live
  <2>1. CASE row[t].family # g
    BY <1>5, <2>1 DEF Live
  <2>2. CASE row[t].family = g
    <3>1. t # o /\ t # n
      BY <1>1, <2>2
    <3> QED
      BY <1>4, <1>5, <1>6, <3>1 DEF Live
  <2> QED
    BY <2>1, <2>2
<1>8. Live(f)' = {n}
  <2> SUFFICES ASSUME NEW t \in Token PROVE t \in Live(f)' <=> t = n
    BY <1>1 DEF Live
  <2>1. CASE t = n
    BY <1>1, <1>4, <1>5, <1>6, <2>1 DEF Live
  <2>2. CASE t = o
    BY <1>1, <2>2 DEF Live
  <2>3. CASE t # n /\ t # o
    <3>1. t \notin Live(f)
      BY <1>1, <2>3
    <3> QED
      BY <1>4, <1>5, <1>6, <2>3, <3>1 DEF Live
  <2> QED
    BY <2>1, <2>2, <2>3
<1>9. OneLive'
  <2>1. ASSUME NEW g \in Token PROVE \A t, u \in Live(g)' : t = u
    BY <1>7, <1>8 DEF SessionsInv, OneLive
  <2> QED
    BY <2>1 DEF OneLive
<1>10. \A t \in Token : Written(t)' <=> Written(t)
  <2>1. Written(o)
    BY <1>1 DEF SessionsInv, GivenInv
  <2> QED
    BY <1>1, <2>1 DEF Written
<1>11. \A g : Rooted(g) => Rooted(g)'
  BY <1>5 DEF Rooted
<1>12. RowsRooted'
  <2>1. ASSUME NEW t \in Token
        PROVE  IF Written(t)' THEN Rooted(row[t].family)' ELSE row'[t] = NoRow
    <3>1. CASE Written(t)
      BY <1>5, <1>10, <1>11, <3>1 DEF SessionsInv, RowsRooted
    <3>2. CASE ~Written(t)
      <4>1. t # o
        BY <1>1, <3>2 DEF SessionsInv, GivenInv
      <4> QED
        BY <1>1, <1>10, <3>2, <4>1 DEF SessionsInv, RowsRooted
    <3> QED
      BY <3>1, <3>2
  <2> QED
    BY <2>1 DEF RowsRooted
<1>13. \A g \in Token : revokedAt'[g] # Never => Rooted(g)'
  BY <1>2, <1>11 DEF SessionsInv
<1>14. OneBearer'
  <2>1. Apart(r) /\ Takes(r)
    BY <1>2, <1>3 DEF Keeps, Apart, Takes, Bears
  <2> QED
    BY <2>1, StaysOneBearer
<1>15. GivenInv'
  BY <1>2, <1>10, Known DEF SessionsInv, GivenInv
<1>16. ASSUME NEW m \in Request, m # r PROVE Owes(req[m])'
  <2>1. req'[m] = req[m] /\ Owes(req[m])
    BY <1>3, <1>16 DEF Keeps, SessionsInv
  <2>2. Bears(req[m]) => req[m].new \in Token /\ req[m].new # o
    BY <1>1, <2>1, Known DEF Owes
  <2>3. Bears(req[m]) => row'[req[m].new] = row[req[m].new]
    BY <1>1, <2>2
  <2>4. Holding(req[m]) => row'[req[m].tok].family = row[req[m].tok].family
    BY <1>5, <2>1, Known DEF Owes
  <2> QED
    BY <1>2, <2>1, <2>3, <2>4 DEF Owes, Bears, Hands, Holding, Written
<1>17. Owes(req[r])'
  <2>1. Owes(req[r]) /\ Written(n)' /\ Bears(req[r])
    BY <1>1, <1>2, <1>10 DEF SessionsInv, Bears
  <2> QED
    BY <1>2, <1>3, <2>1 DEF Owes, Keeps, Hands, Holding
<1> QED
  BY <1>7, <1>8, <1>9, <1>12, <1>13, <1>14, <1>15, <1>16, <1>17 DEF SessionsInv

LEMMA MarkPromised ==
  ASSUME ClockInv, SessionsInv, NEW r \in Request, MarkSucceeds(r)
  PROVE  Promised
<1> SUFFICES ASSUME NEW o, o = req[r].tok, NEW n, n = req[r].new,
                    NEW f, f = req[r].seen.family
             PROVE  Promised
  OBVIOUS
<1> DEFINE phase == [g \in Token |-> PhaseOf(g)]
           current == [g \in Token |-> CurrentOf(g)]
           retired == {t \in Token : row[t].used}
<1>1. /\ o \in Token /\ n \in Token /\ n # o /\ ~HandedOut(n) /\ Rooted(f) /\ f \in Token
      /\ row[o].family = f /\ ~row[o].used /\ ~row[n].used
      /\ \A t \in Token : t # o => row'[t] = row[t]
      /\ row'[o].family = f /\ row'[o].used
      /\ Live(f) = {o}
  BY MarkRows
<1>2. /\ SessionsInv'
      /\ \A g \in Token : g # f => Live(g)' = Live(g)
      /\ Live(f)' = {n}
  BY MarkKeeps
<1>3. UNCHANGED revokedAt
  BY DEF MarkSucceeds
<1>4. Session!Unseen(n)
  <2>1. \A g \in Token : CurrentOf(g) # n
    BY <1>1, CurrentToken, Known DEF Live
  <2> QED
    BY <1>1, <2>1 DEF Session!Unseen
<1>5. current' = [current EXCEPT ![f] = n] /\ current[f] = o
  BY <1>1, <1>2, CurrentToken
<1>6. retired' = retired \cup {o}
  BY <1>1
<1>7. Rotating(f) /\ \A g \in Token : g # f => (Rotating(g)' <=> Rotating(g))
  <2>1. Keeps(r) /\ req'[r].seen = req[r].seen /\ req'[r].pc = "answer"
    BY AnswerIs DEF MarkSucceeds, ClockInv, CInv, Answer
  <2>2. req[r].pc = "mark_used" /\ req[r].kind # "token"
    BY Known DEF MarkSucceeds, Holding
  <2> QED
    BY <2>1, <2>2 DEF Rotating, Keeps
<1>8. \A g \in Token : row'[g].family = row[g].family
  BY <1>1
<1>9. \A g \in Token : g # f => PhaseOf(g)' = PhaseOf(g)
  BY <1>3, <1>7, <1>8 DEF PhaseOf
<1>10. /\ PhaseOf(f) \in {"open", "closing"}
       /\ PhaseOf(f) = "open" => PhaseOf(f)' = "open"
       /\ PhaseOf(f) = "closing" => PhaseOf(f)' \in {"closing", "closed"}
  BY <1>1, <1>3, <1>7, <1>8 DEF PhaseOf, Rooted
<1>11. phase' \in {phase, [phase EXCEPT ![f] = IF @ = "closing" THEN "closed" ELSE @]}
  <2>1. CASE PhaseOf(f)' = PhaseOf(f)
    BY <1>9, <2>1
  <2>2. CASE PhaseOf(f) = "closing" /\ PhaseOf(f)' = "closed"
    BY <1>1, <1>9, <2>2
  <2> QED
    BY <1>10, <2>1, <2>2
<1>12. Session!Rotate(f, n)
  BY <1>1, <1>4, <1>5, <1>6, <1>10, <1>11 DEF Session!Rotate
<1> QED
  BY <1>1, <1>2, <1>12 DEF Session!SessionNext, Promised

LEMMA MarkUsedPromised ==
  ASSUME ClockInv, SessionsInv, NEW r \in Request, MarkUsed(r)
  PROVE  Promised
<1>1. CASE MarkSucceeds(r)
  BY <1>1, MarkPromised
<1>2. CASE GoTo(r, "revoke") /\ UNCHANGED row
  <2>1. Holding(req[r]) /\ req[r].pc = "mark_used" /\ UNCHANGED <<row, revokedAt, given, refresh>>
    BY <1>2, Known DEF MarkUsed, clientVars
  <2> QED
    BY <1>2, <2>1, GoOnPromised
<1> QED
  BY <1>1, <1>2 DEF MarkUsed, MarkSucceeds

\* An answer passes its tokens to the client: they were handed out all along.
LEMMA RespondPromised ==
  ASSUME ClockInv, SessionsInv, NEW r \in Request, Respond(r)
  PROVE  Promised
<1>1. UNCHANGED <<signed, row, revokedAt>> /\ req[r].pc = "answer"
  BY DEF Respond, storeVars
<1>2. Apart(r) /\ req'[r] = Idle
  BY Known DEF Respond, Apart
<1>3. /\ given' = IF Hands(req[r]) THEN given \cup {req[r].new} ELSE given
      /\ refresh'.tok \in given' \cup {None}
  <2>1. CASE Hands(req[r])
    <3>1. SetsCookies(req[r].ans)
      BY <2>1 DEF Hands, SetsCookies
    <3>2. refresh' = RefreshCookie(req[r].new) /\ given' = given \cup {req[r].new}
      BY <3>1 DEF Respond, SetsCookies, ClearsCookies, ClearsAccess
    <3> QED
      BY <2>1, <3>2 DEF RefreshCookie, SetCookie
  <2>2. CASE ~Hands(req[r])
    <3>1. ~SetsCookies(req[r].ans)
      BY <2>2 DEF Hands, SetsCookies
    <3>2. given' = given /\ refresh' \in {refresh, NoCookie}
      BY <3>1 DEF Respond
    <3> QED
      BY <2>2, <3>2 DEF SessionsInv, GivenInv, NoCookie
  <2> QED
    BY <2>1, <2>2
<1>4. ~Bears(req[r])' /\ ~Holding(req[r])' /\ req'[r].tok = None /\ ~Hands(req[r])' /\ req'[r].pc = "idle"
  BY <1>2 DEF Idle, Bears, Holding, Hands
<1>5. \A t : HandedOut(t)' <=> HandedOut(t)
  <2>1. \A t : HandedOut(t) <=> t \in given \/ \E m \in Request : req[m].new = t /\ Hands(req[m])
    BY DEF HandedOut, Hands
  <2>2. \A t : HandedOut(t)' <=> t \in given' \/ \E m \in Request : req'[m].new = t /\ Hands(req[m])'
    BY DEF HandedOut, Hands
  <2>3. \A m \in Request : m # r => (Hands(req[m])' <=> Hands(req[m])) /\ req'[m].new = req[m].new
    BY <1>2 DEF Apart, Hands
  <2> QED
    BY <1>3, <1>4, <2>1, <2>2, <2>3
<1>6. \A f : Live(f)' = Live(f)
  BY <1>1, <1>5 DEF Live
<1>7. Owes(req[r])'
  BY <1>4 DEF Owes
<1>8. ASSUME NEW m \in Request, m # r PROVE Owes(req[m])'
  <2>1. req'[m] = req[m] /\ Owes(req[m])
    BY <1>2, <1>8 DEF Apart, SessionsInv
  <2>2. Bears(req[m]) /\ Hands(req[r]) => req[m].new # req[r].new
    BY <1>8 DEF SessionsInv, OneBearer, Bears
  <2>3. Bears(req[m]) => req[m].new \notin given'
    BY <1>3, <2>1, <2>2 DEF Owes
  <2>4. given \subseteq given'
    BY <1>3
  <2> QED
    BY <1>1, <2>1, <2>3, <2>4 DEF Owes, Bears, Hands, Holding, Written
<1>9. OneBearer'
  BY <1>2, <1>4, StaysOneBearer DEF Takes
<1>10. GivenInv'
  <2>1. Hands(req[r]) => Written(req[r].new)
    BY DEF SessionsInv, Owes
  <2> QED
    BY <1>1, <1>3, <2>1 DEF SessionsInv, GivenInv, Written
<1>11. RowsRooted' /\ \A f \in Token : revokedAt'[f] # Never => Rooted(f)'
  BY <1>1 DEF SessionsInv, RowsRooted, Rooted, Written
<1>12. SessionsInv'
  BY <1>6, <1>7, <1>8, <1>9, <1>10, <1>11 DEF SessionsInv, OneLive
<1>13. \A f \in Token : Rotating(f)' <=> Rotating(f)
  BY <1>1, <1>2, <1>4 DEF Rotating, Apart
<1>14. \A f \in Token : CurrentOf(f)' = CurrentOf(f) /\ PhaseOf(f)' = PhaseOf(f)
  BY <1>1, <1>6, <1>13, CurrentToken DEF PhaseOf
<1> QED
  BY <1>1, <1>12, <1>14, SameSessions DEF Promised

\* Where no request and no row changes, time is all that passes.
LEMMA TimePromised ==
  ASSUME ClockInv, SessionsInv, UNCHANGED <<signed, row, revokedAt, given, req>>,
         refresh'.tok \in {refresh.tok, None}
  PROVE  Promised
<1>1. SessionsInv'
  <2>1. RowsRooted' /\ OneBearer' /\ GivenInv'
        /\ \A f \in Token : revokedAt'[f] # Never => Rooted(f)'
    BY DEF SessionsInv, RowsRooted, Rooted, Written, OneBearer, Bears, Hands, GivenInv
  <2>2. \A f : Live(f)' = Live(f)
    BY DEF Live, HandedOut
  <2>3. \A m \in Request : Owes(req[m])'
    BY DEF SessionsInv, Owes, Bears, Hands, Holding, Written
  <2> QED
    BY <2>1, <2>2, <2>3 DEF SessionsInv, OneLive
<1>2. \A f \in Token : CurrentOf(f)' = CurrentOf(f) /\ PhaseOf(f)' = PhaseOf(f)
  BY DEF CurrentOf, Live, HandedOut, PhaseOf, Rotating
<1> QED
  BY <1>1, <1>2, SameSessions DEF Promised

LEMMA StepIsPromised ==
  ASSUME MarkersOutlive, ClockInv, SessionsInv, [Next]_vars
  PROVE  Promised
<1>1. CASE Tick
  <2>1. UNCHANGED <<signed, row, revokedAt, given, req>> /\ refresh' = Kept(refresh)
    BY <1>1 DEF Tick, storeVars
  <2>2. refresh'.tok \in {refresh.tok, None}
    BY <2>1 DEF Kept, NoCookie
  <2> QED
    BY <2>1, <2>2, TimePromised
<1>2. CASE UNCHANGED vars
  BY <1>2, TimePromised DEF vars, storeVars, clientVars
<1> QED
  BY <1>1, <1>2, SendPromised, ArrivalPromised, FindPromised, IsFamilyRevokedPromised,
     StorePromised, MarkUsedPromised, RevokePromised, RespondPromised DEF Next, Handle

LEMMA SessionsStart == Init => SessionsInv /\ Session!SessionInit
<1> SUFFICES ASSUME Init PROVE SessionsInv /\ Session!SessionInit
  OBVIOUS
<1>1. /\ \A t \in Token : row[t] = NoRow /\ revokedAt[t] = Never
      /\ given = {} /\ refresh.tok = None /\ \A r \in Request : req[r] = Idle
  BY DEF Init, NoCookie
<1>2. NoRow.family = None /\ NoRow.used = FALSE /\ NoRow.at = Never /\ None \notin Token
  BY TimeAssumption DEF NoRow
<1>3. Idle.pc = "idle" /\ Idle.ans = "none" /\ Idle.tok = None /\ Idle.kind = "token"
  BY DEF Idle
<1>4. \A f \in Token : Live(f) = {}
  BY <1>1, <1>2 DEF Live
<1>5. SessionsInv
  <2>1. RowsRooted /\ GivenInv /\ OneLive
    BY <1>1, <1>2, <1>4 DEF RowsRooted, GivenInv, OneLive, Written
  <2>2. OneBearer /\ \A r \in Request : Owes(req[r])
    BY <1>1, <1>3 DEF OneBearer, Bears, Hands, Owes, Holding
  <2> QED
    BY <1>1, <2>1, <2>2 DEF SessionsInv
<1>6. \A f \in Token : CurrentOf(f) = None /\ PhaseOf(f) = "unopened"
  BY <1>1, <1>2, <1>4 DEF CurrentOf, PhaseOf
<1>7. {t \in Token : row[t].used} = {}
  BY <1>1, <1>2
<1> QED
  BY <1>5, <1>6, <1>7 DEF Session!SessionInit

\* Every step of the service is a step of the promised sessions or changes nothing of
\* them, although JWTs, cookies, rows and markers age: for any tokens, requests and clock
\* constants under which a marker outlives the tokens it is about.
THEOREM SessionsArePromisedOverTime == MarkersOutlive => (Spec => PromisedOverTime)
<1> SUFFICES ASSUME MarkersOutlive PROVE Spec => PromisedOverTime
  OBVIOUS
<1>1. Init => SessionsInv /\ Session!SessionInit
  BY SessionsStart
<1>2. CInv /\ LInv /\ SessionsInv /\ [Next]_vars =>
        SessionsInv' /\ [Session!SessionNext]_(Session!sessionVars)
  BY StepIsPromised DEF ClockInv, Promised
<1> QED
  BY <1>1, <1>2, Invariant, Lifetimes, PTL
  DEF Spec, PromisedOverTime, Session!SessionSpec
=============================================================================
