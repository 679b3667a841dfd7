-------------------------- MODULE RefreshRotation ---------------------------
(***************************************************************************)
(* The request handlers of svc-auth that touch refresh tokens, over the    *)
(* store of module RefreshStore:                                           *)
(*   "token"   POST /auth/token    token.rs       opens a family           *)
(*   "refresh" POST /auth/refresh  refresh.rs     rotates, explicitly      *)
(*   "check"   GET  /auth/check    auth_check.rs  rotates, silently        *)
(*   "logout"  POST /auth/logout   logout.rs      revokes the family       *)
(* rotate itself is rotation.rs.  A handler is cut at its awaits: one step *)
(* per call to the store, with everything up to the next call in the same  *)
(* step.  A handler may vanish at any await (the server drops the future   *)
(* of a client that hung up; the process may crash), any call to the store *)
(* may fail, and the browser's requests overlap.                           *)
(*                                                                         *)
(* Of the two cookies only the refresh cookie is kept here, and of JWT     *)
(* verification only its two outcomes.  "check" stands for the part of     *)
(* /auth/check that an expired access token starts.                        *)
(***************************************************************************)
EXTENDS RefreshStore, FiniteSets

CONSTANTS Request,         \* handler slots: requests served at one time
          Browser,         \* cookie jars
          Tabs,            \* requests one browser may have open at one time
          MaxReadFaults,   \* bound: reads of the store that fail
          MaxWriteFaults,  \* bound: writes of the store that fail
          MaxAborts,       \* bound: handlers that vanish
          MaxReplays       \* bound: refreshes of a token that is not the cookie

ASSUME BoundAssumption ==
  /\ Tabs \in Nat \ {0}
  /\ {MaxReadFaults, MaxWriteFaults, MaxAborts, MaxReplays} \subseteq Nat

VARIABLES pc,         \* the await at which each handler is
          job,        \* what it was asked: endpoint, browser, token presented
          seen,       \* the row find_by_id returned, with its revision
          new,        \* the id of the token it is about to hand out
          ans,        \* the answer it has computed
          jar,        \* the refresh cookie of each browser
          delivered,  \* tokens whose JWT reached a browser
          spent       \* how much of each bound is used up

handlerVars == <<pc, job, seen, new, ans>>
browserVars == <<jar, delivered>>
vars == <<rows, revoked, late, pc, job, seen, new, ans, jar, delivered, spent>>

Kind == {"token", "refresh", "check", "logout"}
Await == {"idle", "find", "is_revoked", "store", "mark_used", "revoke", "answer"}
Answer == {"none", "no_session", "refused", "reuse", "find_failed",
           "store_failed", "rotated", "opened", "logged_out"}
Bound == {"read", "write", "abort", "replay"}

NoJob == [kind |-> "token", who |-> None, tok |-> None]

-----------------------------------------------------------------------------
(* Helpers.                                                                *)

\* Mutant: the login stores its row under the family of a row it never read.
FamilyOfSeen(r) == seen[r].family

\* The family of the row a handler stores: a login opens a new one, a rotation
\* stays in the family of the row it read.
FamilyOf(r) == IF job[r].kind = "token" THEN new[r] ELSE seen[r].family

\* Uuid::now_v7 never returns an id that is in use anywhere.
Taken == {t \in Token : Stored(t)} \cup {new[r] : r \in Request}
           \cup {w.id : w \in late} \cup {w.new : w \in late}
Fresh == Token \ Taken

\* Handlers that may still draw an id.  A request that may draw one is let in only
\* when there is an id left for it (bound: Token).
Drawing == {r \in Request : pc[r] \in {"find", "is_revoked"}
                              /\ job[r].kind \in {"refresh", "check"}}
IdsLeft == Cardinality(Fresh) > Cardinality(Drawing)

\* A browser opens at most Tabs requests at one time.
TabFree(b) == Cardinality({r \in Request : pc[r] # "idle" /\ job[r].who = b}) < Tabs

Spend(x, max) == spent[x] < max /\ spent' = [spent EXCEPT ![x] = @ + 1]

\* Handler r goes on to its next await, or has its answer.
GoTo(r, p) == pc' = [pc EXCEPT ![r] = p] /\ UNCHANGED ans
AnswerWith(r, a) == pc' = [pc EXCEPT ![r] = "answer"] /\ ans' = [ans EXCEPT ![r] = a]

\* The answers that carry a new refresh cookie.
SetsCookie(a) == a \in {"rotated", "opened"}

\* Mutant: logout answers and leaves the refresh cookie alone.
ClearsCookieOnFailure(kind, a) ==
  kind \in {"refresh", "check"} /\ a \in {"refused", "reuse"}

\* The answers that clear the refresh cookie.  /auth/refresh clears it with a
\* 401 and not with a 500, /auth/check with every failure, logout always.
ClearsCookie(kind, a) ==
  \/ kind = "refresh" /\ a \in {"refused", "reuse"}
  \/ kind = "check" /\ a \in {"refused", "reuse", "find_failed", "store_failed"}
  \/ kind = "logout"

-----------------------------------------------------------------------------
(* A request arrives.                                                      *)

Accept(r, b, k, t) ==
  /\ pc[r] = "idle" /\ TabFree(b)
  /\ job' = [job EXCEPT ![r] = [kind |-> k, who |-> b, tok |-> t]]
  /\ UNCHANGED <<rows, revoked, late, seen, jar, delivered>>

\* POST /auth/token with an id_token that verifies.  One that does not is
\* answered 401 before the store is reached.
Login(r, b) ==
  /\ Accept(r, b, "token", None) /\ IdsLeft
  /\ \E n \in Fresh : new' = [new EXCEPT ![r] = n]
  /\ GoTo(r, "store")
  /\ UNCHANGED spent

\* A request that carries the browser's refresh cookie.
PresentCookie(r, b, k) ==
  /\ k # "token" /\ jar[b] # None
  /\ Accept(r, b, k, jar[b]) /\ (k = "logout" \/ IdsLeft)
  /\ GoTo(r, "find")
  /\ UNCHANGED <<new, spent>>

\* A refresh whose body names a token: it takes precedence over the cookie.  Any
\* token that was ever handed out may come back this way.
PresentBody(r, b) ==
  /\ \E t \in delivered \ {jar[b]} : Accept(r, b, "refresh", t)
  /\ IdsLeft
  /\ GoTo(r, "find")
  /\ Spend("replay", MaxReplays)
  /\ UNCHANGED new

\* A request whose token does not verify, in the body or in a cookie that is not
\* one of ours, or that has no token at all: answered without the store.
PresentNothing(r, b, k) ==
  /\ k # "token" /\ (k = "refresh" \/ jar[b] = None)
  /\ Accept(r, b, k, None)
  /\ \/ k = "logout" /\ AnswerWith(r, "logged_out")
     \/ k # "logout" /\ AnswerWith(r, "refused")
     \/ k # "logout" /\ jar[b] = None /\ AnswerWith(r, "no_session")
  /\ UNCHANGED <<new, spent>>

-----------------------------------------------------------------------------
(* The awaits of a handler, in the order of the code.                      *)

\* find_by_id.  Logout goes on only with a row in hand; it answers logged_out
\* whatever happened.
Find(r) ==
  /\ pc[r] = "find"
  /\ \/ /\ Spend("read", MaxReadFaults)
        /\ AnswerWith(r, IF job[r].kind = "logout" THEN "logged_out" ELSE "find_failed")
        /\ UNCHANGED seen
     \/ /\ IF Stored(job[r].tok)
           THEN /\ seen' = [seen EXCEPT ![r] = rows[job[r].tok]]
                /\ GoTo(r, IF job[r].kind = "logout" THEN "revoke" ELSE "is_revoked")
           ELSE /\ AnswerWith(r, IF job[r].kind = "logout" THEN "logged_out" ELSE "refused")
                /\ UNCHANGED seen
        /\ UNCHANGED spent
  /\ UNCHANGED <<rows, revoked, late, job, new, jar, delivered>>

\* Mutant: rotate leaves replays to the compare-and-swap.
RotateUnchecked(r) == GoTo(r, "store") /\ \E n \in Fresh : new' = [new EXCEPT ![r] = n]

\* The start of rotate: a row that was already used when it was read is a replay;
\* otherwise the successor is drawn and stored first.
Rotate(r) ==
  IF seen[r].used_at
  THEN GoTo(r, "revoke") /\ UNCHANGED new
  ELSE GoTo(r, "store") /\ \E n \in Fresh : new' = [new EXCEPT ![r] = n]

\* Mutant: the revocation marker is not looked at.
IsFamilyRevokedSkipped(r) ==
  /\ pc[r] = "is_revoked"
  /\ Rotate(r)
  /\ UNCHANGED <<rows, revoked, late, job, seen, jar, delivered, spent>>

\* is_family_revoked, which takes a read that fails for "not revoked".
IsFamilyRevoked(r) ==
  /\ pc[r] = "is_revoked"
  /\ \/ /\ seen[r].family \in revoked
        /\ AnswerWith(r, "refused")
        /\ UNCHANGED <<new, spent>>
     \/ seen[r].family \notin revoked /\ Rotate(r) /\ UNCHANGED spent
     \/ Spend("read", MaxReadFaults) /\ Rotate(r)
  /\ UNCHANGED <<rows, revoked, late, job, seen, jar, delivered>>

\* Mutant: the result of store is dropped.
StoreNewBestEffort(r) ==
  /\ pc[r] = "store"
  /\ LET w == StoreWrite(new[r], FamilyOf(r)) IN
       \/ Succeeds(w) /\ UNCHANGED spent
       \/ Fails(w) /\ Spend("write", MaxWriteFaults)
  /\ IF job[r].kind = "token" THEN AnswerWith(r, "opened") ELSE GoTo(r, "mark_used")
  /\ UNCHANGED <<job, seen, new, jar, delivered>>

\* store: the login's first token, or the successor in a rotation.
StoreNew(r) ==
  /\ pc[r] = "store"
  /\ LET w == StoreWrite(new[r], FamilyOf(r)) IN
       \/ /\ Succeeds(w)
          /\ IF job[r].kind = "token" THEN AnswerWith(r, "opened") ELSE GoTo(r, "mark_used")
          /\ UNCHANGED spent
       \/ /\ Fails(w)
          /\ Spend("write", MaxWriteFaults)
          /\ AnswerWith(r, "store_failed")
  /\ UNCHANGED <<job, seen, new, jar, delivered>>

\* Mutant: a lost compare-and-swap is answered without revoking the family.
MarkUsedSwallowed(r) ==
  /\ pc[r] = "mark_used"
  /\ LET w == MarkUsedWrite(job[r].tok, seen[r], new[r]) IN
       \/ Succeeds(w) /\ AnswerWith(r, "rotated") /\ UNCHANGED spent
       \/ Conflicts(w) /\ AnswerWith(r, "reuse") /\ UNCHANGED spent
       \/ Fails(w) /\ Spend("write", MaxWriteFaults) /\ AnswerWith(r, "store_failed")
  /\ UNCHANGED <<job, seen, new, jar, delivered>>

\* Mutant: a mark_used that failed is taken for one that succeeded.
MarkUsedHopeful(r) ==
  /\ pc[r] = "mark_used"
  /\ LET w == MarkUsedWrite(job[r].tok, seen[r], new[r]) IN
       \/ Succeeds(w) /\ AnswerWith(r, "rotated") /\ UNCHANGED spent
       \/ Conflicts(w) /\ GoTo(r, "revoke") /\ UNCHANGED spent
       \/ Fails(w) /\ Spend("write", MaxWriteFaults) /\ AnswerWith(r, "rotated")
  /\ UNCHANGED <<job, seen, new, jar, delivered>>

\* mark_used, the compare-and-swap on the revision find_by_id returned.
MarkUsed(r) ==
  /\ pc[r] = "mark_used"
  /\ LET w == MarkUsedWrite(job[r].tok, seen[r], new[r]) IN
       \/ Succeeds(w) /\ AnswerWith(r, "rotated") /\ UNCHANGED spent
       \/ Conflicts(w) /\ GoTo(r, "revoke") /\ UNCHANGED spent
       \/ Fails(w) /\ Spend("write", MaxWriteFaults) /\ AnswerWith(r, "store_failed")
  /\ UNCHANGED <<job, seen, new, jar, delivered>>

\* Mutant: logout answers without revoking.
RevokeFamilyOnReplayOnly(r) ==
  /\ pc[r] = "revoke"
  /\ LET w == RevokeWrite(seen[r].family) IN
       \/ job[r].kind # "logout" /\ Succeeds(w)
       \/ job[r].kind = "logout" /\ UNCHANGED storeVars
  /\ AnswerWith(r, IF job[r].kind = "logout" THEN "logged_out" ELSE "reuse")
  /\ UNCHANGED <<job, seen, new, jar, delivered, spent>>

\* revoke_family, after a replay or by logout.  A failure is logged, not answered.
RevokeFamily(r) ==
  /\ pc[r] = "revoke"
  /\ LET w == RevokeWrite(seen[r].family) IN
       \/ Succeeds(w) /\ UNCHANGED spent
       \/ Fails(w) /\ Spend("write", MaxWriteFaults)
  /\ AnswerWith(r, IF job[r].kind = "logout" THEN "logged_out" ELSE "reuse")
  /\ UNCHANGED <<job, seen, new, jar, delivered>>

-----------------------------------------------------------------------------
(* The end of a request.                                                   *)

Forget(r) ==
  /\ pc' = [pc EXCEPT ![r] = "idle"]
  /\ job' = [job EXCEPT ![r] = NoJob]
  /\ seen' = [seen EXCEPT ![r] = NoRow]
  /\ new' = [new EXCEPT ![r] = None]
  /\ ans' = [ans EXCEPT ![r] = "none"]

\* The answer reaches the browser, which sets or clears its refresh cookie.
Respond(r) ==
  /\ pc[r] = "answer"
  /\ LET b == job[r].who IN
       jar' = [jar EXCEPT ![b] = IF SetsCookie(ans[r]) THEN new[r]
                                 ELSE IF ClearsCookie(job[r].kind, ans[r]) THEN None
                                 ELSE @]
  /\ delivered' = IF SetsCookie(ans[r]) THEN delivered \cup {new[r]} ELSE delivered
  /\ Forget(r)
  /\ UNCHANGED <<rows, revoked, late, spent>>

\* The write a handler is waiting for.
Pending(r) == CASE pc[r] = "store" -> {StoreWrite(new[r], FamilyOf(r))}
                [] pc[r] = "mark_used" -> {MarkUsedWrite(job[r].tok, seen[r], new[r])}
                [] pc[r] = "revoke" -> {RevokeWrite(seen[r].family)}
                [] OTHER -> {}

\* The handler vanishes at its await, and so does its answer.  The write it was
\* waiting for may have left.
Abort(r) ==
  /\ pc[r] # "idle"
  /\ Spend("abort", MaxAborts)
  /\ late' \in {late, late \cup Pending(r)}
  /\ Forget(r)
  /\ UNCHANGED <<rows, revoked, jar, delivered>>

\* A write whose caller is gone, or was told of an error, is applied after all.
Arrive == LateArrival /\ UNCHANGED <<pc, job, seen, new, ans, jar, delivered, spent>>

-----------------------------------------------------------------------------
Init ==
  /\ StoreInit
  /\ pc = [r \in Request |-> "idle"]
  /\ job = [r \in Request |-> NoJob]
  /\ seen = [r \in Request |-> NoRow]
  /\ new = [r \in Request |-> None]
  /\ ans = [r \in Request |-> "none"]
  /\ jar = [b \in Browser |-> None]
  /\ delivered = {}
  /\ spent = [x \in Bound |-> 0]

\* The steps the service takes by itself once a request is in.
Serve(r) == \/ Find(r)
            \/ IsFamilyRevoked(r)
            \/ StoreNew(r)
            \/ MarkUsed(r)
            \/ RevokeFamily(r)
            \/ Respond(r)

Next ==
  \/ \E r \in Request, b \in Browser :
       \/ Login(r, b)
       \/ PresentBody(r, b)
       \/ \E k \in Kind : PresentCookie(r, b, k) \/ PresentNothing(r, b, k)
  \/ \E r \in Request : Serve(r) \/ Abort(r)
  \/ Arrive

Spec == Init /\ [][Next]_vars

\* A call to the store returns or times out, and the runtime polls every future
\* that is ready: no handler waits for ever at an await.
FairSpec == Spec /\ \A r \in Request : WF_vars(Serve(r))

-----------------------------------------------------------------------------
(* What the rows say of a family: its chain of tokens, from the login's     *)
(* token through the replaced_by of each used row.  A stored row outside    *)
(* the chain is an orphan, the successor of a rotation that did not commit. *)

OnChain(t) == Stored(t) /\ (rows[t].family = t \/ \E p \in Token : rows[p].replaced_by = t)

Chain(f) == {t \in Token : OnChain(t) /\ rows[t].family = f}

\* The tokens of a family that a refresh could still rotate.
Live(f) == {t \in Chain(f) : ~rows[t].used_at}

\* A rotation of family f is past its look at the revocation marker, or has a
\* compare-and-swap on its way to the bucket that would still be accepted.
Rotating(f) ==
  \/ \E r \in Request : /\ pc[r] \in {"store", "mark_used"}
                        /\ job[r].kind # "token" /\ seen[r].family = f
  \/ \E w \in late : w.op = "update" /\ w.family = f /\ Accepted(w)

\* Revoked, with no rotation left that began before the revocation.
Dead(f) == f \in revoked /\ ~Rotating(f)

-----------------------------------------------------------------------------
(* Safety.                                                                 *)

\* Every variable stays in its type (all handlers).
TypeOK ==
  /\ StoreTypeOK
  /\ pc \in [Request -> Await]
  /\ job \in [Request -> [kind : Kind, who : Browser \cup {None}, tok : Token \cup {None}]]
  /\ seen \in [Request -> Row]
  /\ new \in [Request -> Token \cup {None}]
  /\ ans \in [Request -> Answer]
  /\ jar \in [Browser -> Token \cup {None}]
  /\ delivered \subseteq Token
  /\ spent \in [Bound -> Nat]

\* A family never forks: whatever overlaps, fails or arrives late, at most one of
\* the tokens of its chain can still be rotated (rotate's compare-and-swap and
\* reuse check).
OneLiveToken == \A f \in Token : \A t, u \in Live(f) : t = u

\* Store-then-mark: the successor named by a used row was persisted, in the same
\* family, so that no crash between the two writes leaves a used token without
\* its replacement (rotate).
ReplacementStored ==
  \A t \in Token : rows[t].used_at =>
    /\ rows[t].replaced_by \in Token
    /\ Stored(rows[t].replaced_by)
    /\ rows[rows[t].replaced_by].family = rows[t].family

\* A token in an answer that sets cookies is the one live token of its family
\* until the answer is delivered; an orphan is never handed out (the success
\* paths of token, refresh and check).
HandedOutIsLive ==
  \A r \in Request : pc[r] = "answer" /\ SetsCookie(ans[r]) => Live(FamilyOf(r)) = {new[r]}

\* Every token a browser ever received lies on its family's chain, and carries the
\* evidence of a replay: it is used unless it is the family's one live token.
DeliveredOnChain ==
  \A t \in delivered : OnChain(t) /\ (rows[t].used_at \/ Live(rows[t].family) = {t})

\* A reuse verdict is never given without the family's revocation having been
\* sent: it is in the bucket, or that write itself failed (both branches of
\* rotate that answer Reuse).
ReuseRevokes ==
  \A r \in Request : ans[r] = "reuse" =>
    seen[r].family \in revoked \/ RevokeWrite(seen[r].family) \in late

\* When logout has answered for a token of ours and no call has failed, the
\* token's family is revoked (logout).
LogoutRevokes ==
  \A r \in Request :
    pc[r] = "answer" /\ job[r].kind = "logout" /\ job[r].tok # None
      => rows[job[r].tok].family \in revoked

-----------------------------------------------------------------------------
(* What the documentation and the tests say, and the code does not do.     *)

\* README.md:83, "fails the whole rotation closed (no cookies set on either path)
\* ... so the client safely retries": a rotation that failed on the store leaves
\* the cookie where it is.
FailedRotationKeepsCookie ==
  \A r \in Request :
    ans[r] = "store_failed" => ~ClearsCookie(job[r].kind, ans[r])

-----------------------------------------------------------------------------
(* What a step may never do.                                               *)

\* A used row is final: no later write of any handler, and no late one, gives it
\* another successor or makes it unused again (mark_used).
UsedRowsAreFinal == [][\A t \in Token : rows[t].used_at => rows'[t] = rows[t]]_vars

\* A revoked family that no earlier rotation is still working on is dead for good:
\* no token ever joins its chain again, as long as the reads of the marker
\* succeed (is_family_revoked before rotate, on both paths).
DeadStaysDead ==
  [][spent'["read"] = 0 =>
       \A f \in Token : Dead(f) => Dead(f)' /\ Chain(f)' = Chain(f)]_vars

-----------------------------------------------------------------------------
(* The handlers and the store implement the sessions of SessionFamily: the  *)
(* current token of a family is its live token, a rotation is the applied   *)
(* compare-and-swap, and a family is closed when it is dead.                *)

CurrentOf(f) == IF Live(f) = {} THEN None ELSE CHOOSE t \in Live(f) : TRUE

PhaseOf(f) == IF rows[f].family # f THEN "unopened"
              ELSE IF f \notin revoked THEN "open"
              ELSE IF Rotating(f) THEN "closing" ELSE "closed"

Session == INSTANCE SessionFamily WITH
             current <- [f \in Token |-> CurrentOf(f)],
             retired <- {t \in Token : rows[t].used_at},
             phase <- [f \in Token |-> PhaseOf(f)]

\* Whatever overlaps, is lost or arrives late, every step of the service is a step
\* of the promised sessions or changes nothing of them (all handlers).  For runs
\* where no read fails.
SessionsAsPromised == Session!SessionSpec

-----------------------------------------------------------------------------
(* Liveness.                                                               *)

\* Handler r is rotating a token that another rotation has already used.
Replaying(r, t) == /\ pc[r] \in {"find", "is_revoked", "store", "mark_used"}
                   /\ job[r].kind \in {"refresh", "check"} /\ job[r].tok = t
                   /\ rows[t].used_at

\* A token presented twice gets its family revoked, at whichever await the second
\* rotation finds out, and the browser an answer (rotate).  For runs where no
\* call fails and no handler vanishes.
ReplayRevokes ==
  \A r \in Request, t \in Token :
    Replaying(r, t) ~> (rows[t].family \in revoked /\ pc[r] = "idle")
=============================================================================
