------------------------ MODULE SessionFamilyProofs -------------------------
(***************************************************************************)
(* Proofs that the handlers and the store of RefreshRotation keep what     *)
(* SessionFamily promises: a dead family stays dead, logout revokes, and   *)
(* every step is a step of the promised sessions or changes nothing of     *)
(* them; and that careful browsers (CarefulBrowsers) lose nothing by it.   *)
(* For any sets of tokens, handlers and browsers, any number of requests,  *)
(* of reads that fail and of replays.                                      *)
(***************************************************************************)
EXTENDS CarefulBrowsers, RefreshRotationProofs

-----------------------------------------------------------------------------
(* What an accepted write does to the rows and the markers.                *)

\* w is on its way to the bucket: a handler waits for it, or it is late.
UnderWay(w) == w \in late \/ \E r \in Request : w \in Pending(r)

\* w puts the first row of a token.
PutBy(w) ==
  /\ w.op = "put" /\ w.id \in Token /\ ~Stored(w.id)
  /\ w.family \in Token /\ (w.family = w.id \/ Rooted(w.family))
  /\ rows' = [rows EXCEPT ![w.id] = [family |-> w.family, used_at |-> FALSE,
                                     replaced_by |-> None, rev |-> 1]]
  /\ UNCHANGED revoked

\* w marks a token that was handed out as used, with a successor that was not.
MarkBy(w) ==
  /\ w.op = "update" /\ w.id \in delivered /\ w.id \in Token /\ rows[w.id].rev = 1
  /\ w.family = rows[w.id].family
  /\ w.new \in Token /\ w.new \notin delivered
  /\ UnusedRow(rows[w.new]) /\ rows[w.new].family = w.family
  /\ rows' = [rows EXCEPT ![w.id] = [family |-> rows[w.id].family, used_at |-> TRUE,
                                     replaced_by |-> w.new, rev |-> 2]]
  /\ UNCHANGED revoked

\* w sets the marker of a family that was opened.
RevokeBy(w) ==
  /\ w.op = "revoke" /\ w.family \in Token /\ Rooted(w.family)
  /\ UNCHANGED rows /\ revoked' = revoked \cup {w.family}

\* The family of a token that was handed out was opened.
LEMMA DeliveredRooted ==
  ASSUME IInv, NEW t \in delivered
  PROVE  /\ t \in Token /\ Stored(t) /\ OnChain(t)
         /\ rows[t].family \in Token /\ Rooted(rows[t].family)
<1>1. t \in Token /\ Stored(t) /\ OnChain(t)
  BY DEF IInv, TypeOK, OnChain
<1> QED
  BY <1>1 DEF IInv, RowsInv, RowOK, UnusedRow, UsedRow, NoRow, Stored

\* What a handler waits for, by its kind.
LEMMA PendingWrites ==
  ASSUME IInv, NEW r \in Request, NEW w \in Pending(r)
  PROVE  /\ pc[r] \in {"store", "mark_used", "revoke"}
         /\ w.op = "put" <=> pc[r] = "store"
         /\ w.op = "update" <=> pc[r] = "mark_used"
         /\ w.op = "revoke" <=> pc[r] = "revoke"
         /\ w.op = "put" =>
              /\ w.id = new[r] /\ w.id \in Token /\ ~Stored(w.id)
              /\ w.family = FamilyOf(r) /\ w.family \in Token
              /\ w.family = w.id \/ Rooted(w.family)
              /\ w.new = None
         /\ w.op = "update" =>
              /\ w.id = job[r].tok /\ w.id \in delivered /\ w.rev = 1
              /\ w.family = seen[r].family /\ w.family = rows[w.id].family
              /\ w.new = new[r] /\ w.new \in Token /\ w.new \notin delivered
              /\ UnusedRow(rows[w.new]) /\ rows[w.new].family = w.family
         /\ w.op = "revoke" =>
              /\ w.family = seen[r].family /\ w.family \in Token /\ Rooted(w.family)
<1>1. CASE pc[r] = "store"
  <2>1. w = StoreWrite(new[r], FamilyOf(r)) /\ HandlerInv(r)
    BY <1>1 DEF Pending, IInv
  <2>2. /\ w.op = "put" /\ w.id = new[r] /\ w.family = FamilyOf(r) /\ w.new = None
        /\ new[r] \in Token /\ ~Stored(new[r])
    BY <1>1, <2>1 DEF StoreWrite, HandlerInv
  <2>3. CASE job[r].kind = "token"
    BY <1>1, <2>2, <2>3 DEF FamilyOf
  <2>4. CASE job[r].kind # "token"
    <3>1. job[r].tok \in delivered /\ w.family = rows[job[r].tok].family
      BY <1>1, <2>1, <2>2, <2>4 DEF FamilyOf, HandlerInv, HasRow
    <3> QED
      BY <1>1, <2>2, <3>1, DeliveredRooted
  <2> QED
    BY <2>3, <2>4
<1>2. CASE pc[r] = "mark_used"
  <2>1. w = MarkUsedWrite(job[r].tok, seen[r], new[r]) /\ HandlerInv(r)
    BY <1>2 DEF Pending, IInv
  <2>2. /\ w.op = "update" /\ w.id = job[r].tok /\ w.family = seen[r].family
        /\ w.new = new[r] /\ w.rev = seen[r].rev
    BY <2>1 DEF MarkUsedWrite
  <2>3. /\ HasRow(r) /\ UnusedRow(seen[r]) /\ new[r] \in Token
        /\ UnusedRow(rows[new[r]]) /\ rows[new[r]].family = seen[r].family
    BY <1>2, <2>1 DEF HandlerInv
  <2>4. new[r] \notin delivered
    BY <2>3, NoneAssumption DEF IInv, NewInv
  <2> QED
    BY <1>2, <2>2, <2>3, <2>4 DEF HasRow, UnusedRow
<1>3. CASE pc[r] = "revoke"
  <2>1. w = RevokeWrite(seen[r].family) /\ HandlerInv(r)
    BY <1>3 DEF Pending, IInv
  <2>2. w.op = "revoke" /\ w.family = seen[r].family
    BY <2>1 DEF RevokeWrite
  <2>3. job[r].tok \in delivered /\ w.family = rows[job[r].tok].family
    BY <1>3, <2>1, <2>2 DEF HandlerInv, HasRow
  <2> QED
    BY <1>3, <2>2, <2>3, DeliveredRooted
<1> QED
  BY <1>1, <1>2, <1>3 DEF Pending

\* An accepted write puts a new row, marks an unused one, or sets a marker.
LEMMA WriteShapes ==
  ASSUME IInv, SessionInv, NEW w, UnderWay(w), Accepted(w), Apply(w)
  PROVE  PutBy(w) \/ MarkBy(w) \/ RevokeBy(w)
<1> DEFINE Kept(v) ==
             /\ v.op \in {"put", "update", "revoke"}
             /\ v.op = "put" =>
                  /\ v.id \in Token /\ ~Stored(v.id)
                  /\ v.family \in Token /\ (v.family = v.id \/ Rooted(v.family))
                  /\ v.new = None
             /\ v.op = "update" =>
                  /\ v.id \in delivered /\ v.rev = 1
                  /\ v.family = rows[v.id].family
                  /\ v.new \in Token /\ v.new \notin delivered
                  /\ UnusedRow(rows[v.new]) /\ rows[v.new].family = v.family
             /\ v.op = "revoke" => v.family \in Token /\ Rooted(v.family)
<1>1. Kept(w)
  <2>1. CASE w \in late
    BY <2>1 DEF IInv, LateInv, PutInv, UpdateInv, SessionInv, SuccessorInv, RevokedInv,
                TypeOK, StoreTypeOK, Write
  <2>2. ASSUME NEW r \in Request, w \in Pending(r) PROVE Kept(w)
    BY <2>2, PendingWrites
  <2> QED
    BY <2>1, <2>2 DEF UnderWay
<1>2. CASE w.op = "put"
  <2>1. rows[w.id].rev = 0
    BY <1>1, <1>2 DEF IInv, RowsInv, RowOK, UnusedRow, UsedRow, NoRow, Stored
  <2>2. Written(w) = [family |-> w.family, used_at |-> FALSE, replaced_by |-> None, rev |-> 1]
    BY <1>1, <1>2, <2>1, WrittenRow
  <2>3. rows' = [rows EXCEPT ![w.id] = Written(w)] /\ UNCHANGED revoked
    BY <1>2 DEF Apply
  <2> QED
    BY <1>1, <1>2, <2>2, <2>3 DEF PutBy
<1>3. CASE w.op = "update"
  <2>1. rows[w.id].rev = 1 /\ w.id \in Token
    BY <1>1, <1>3 DEF Accepted, IInv, TypeOK
  <2>2. Written(w) = [family |-> rows[w.id].family, used_at |-> TRUE,
                      replaced_by |-> w.new, rev |-> 2]
    BY <1>1, <1>3, <2>1, WrittenRow
  <2>3. rows' = [rows EXCEPT ![w.id] = Written(w)] /\ UNCHANGED revoked
    BY <1>3 DEF Apply
  <2> QED
    BY <1>1, <1>3, <2>1, <2>2, <2>3 DEF MarkBy
<1>4. CASE w.op = "revoke"
  BY <1>1, <1>4 DEF Apply, RevokeBy
<1> QED
  BY <1>1, <1>2, <1>3, <1>4

-----------------------------------------------------------------------------
(* The steps of the service are of three kinds.                            *)

\* A step of handler r that writes nothing.  The write it was waiting for may be on its
\* way; it may have passed its look at the marker.
Calm(r) ==
  /\ UNCHANGED <<rows, revoked>> /\ OnlyHandler(r)
  /\ late \subseteq late' /\ late' \subseteq late \cup Pending(r)
  /\ late' # late => \/ new'[r] = None
                     \/ new'[r] = new[r] /\ pc'[r] = "answer" /\ ans'[r] = "store_failed"
                     \/ pc[r] = "revoke"
  /\ \/ new'[r] \in Fresh \cup {None}
     \/ new'[r] = new[r] /\ pc[r] # "answer"
  /\ \/ UNCHANGED delivered
     \/ pc[r] = "answer" /\ SetsCookie(ans[r]) /\ delivered' = delivered \cup {new[r]}
  /\ pc'[r] \in {"store", "mark_used"} /\ job'[r].kind # "token" =>
       /\ pc[r] = "is_revoked" /\ seen'[r] = seen[r]
       /\ seen[r].family \notin revoked \/ spent'["read"] > 0

\* The write that handler r waits for is applied.
Writes(r, w) ==
  /\ w \in Pending(r) /\ Accepted(w) /\ Apply(w)
  /\ OnlyHandler(r) /\ UNCHANGED <<late, job, seen, new, delivered>>
  /\ pc'[r] = IF w.op = "put" /\ job[r].kind # "token" THEN "mark_used" ELSE "answer"

\* A late write arrives.
Arrives(w) ==
  /\ w \in late /\ late' = late \ {w}
  /\ UNCHANGED <<pc, job, seen, new, ans, delivered>>
  /\ \/ Accepted(w) /\ Apply(w)
     \/ ~Accepted(w) /\ UNCHANGED <<rows, revoked>>

LEMMA ArrivalKinds ==
  ASSUME IInv, NEW r \in Request, NEW b \in Browser,
         \/ Login(r, b) \/ PresentBody(r, b)
         \/ \E k \in Kind : PresentCookie(r, b, k) \/ PresentNothing(r, b, k)
  PROVE  Calm(r)
<1>1. /\ pc[r] = "idle" /\ UNCHANGED <<rows, revoked, late, delivered>>
      /\ OnlyHandler(r)
      /\ new'[r] \in Fresh \/ new'[r] = new[r]
      /\ pc'[r] \in {"store", "mark_used"} => job'[r].kind = "token"
  BY DEF Login, PresentBody, PresentCookie, PresentNothing, Accept, GoTo, AnswerWith,
         OnlyHandler, SameHandler, IInv, TypeOK
<1> QED
  BY <1>1 DEF Calm

LEMMA ReadKinds ==
  ASSUME IInv, NEW r \in Request, Find(r) \/ IsFamilyRevoked(r)
  PROVE  Calm(r)
<1>1. CASE Find(r)
  BY <1>1 DEF Find, GoTo, AnswerWith, Calm, OnlyHandler, SameHandler, IInv, TypeOK
<1>2. CASE IsFamilyRevoked(r)
  <2>1. /\ pc[r] = "is_revoked"
        /\ UNCHANGED <<rows, revoked, late, job, seen, jar, delivered>>
    BY <1>2 DEF IsFamilyRevoked
  <2>2. CASE AnswerWith(r, "refused") /\ UNCHANGED new
    BY <2>1, <2>2 DEF AnswerWith, Calm, OnlyHandler, SameHandler, IInv, TypeOK
  <2>3. CASE Rotate(r) /\ (seen[r].family \notin revoked \/ spent'["read"] > 0)
    <3>1. \/ GoTo(r, "revoke") /\ UNCHANGED new
          \/ GoTo(r, "store") /\ \E n \in Fresh : new' = [new EXCEPT ![r] = n]
      BY <2>3 DEF Rotate
    <3> QED
      BY <2>1, <2>3, <3>1 DEF GoTo, Calm, OnlyHandler, SameHandler, IInv, TypeOK
  <2>4. Spend("read", MaxReadFaults) => spent'["read"] > 0
    BY DEF Spend, IInv, TypeOK, Bound
  <2> QED
    BY <1>2, <2>2, <2>3, <2>4 DEF IsFamilyRevoked
<1> QED
  BY <1>1, <1>2

LEMMA WriteKinds ==
  ASSUME IInv, NEW r \in Request, StoreNew(r) \/ MarkUsed(r) \/ RevokeFamily(r)
  PROVE  Calm(r) \/ \E w \in Pending(r) : Writes(r, w)
<1>1. CASE StoreNew(r)
  <2> DEFINE w == StoreWrite(new[r], FamilyOf(r))
  <2>1. pc[r] = "store" /\ UNCHANGED <<job, seen, new, jar, delivered>> /\ Pending(r) = {w}
    BY <1>1 DEF StoreNew, Pending
  <2>2. CASE /\ Succeeds(w)
             /\ IF job[r].kind = "token" THEN AnswerWith(r, "opened") ELSE GoTo(r, "mark_used")
    <3>1. w.op = "put"
      BY DEF StoreWrite
    <3>2. Writes(r, w)
      BY <2>1, <2>2, <3>1
      DEF Succeeds, AnswerWith, GoTo, Writes, OnlyHandler, SameHandler, IInv, TypeOK
    <3> QED
      BY <2>1, <3>2
  <2>3. CASE Fails(w) /\ AnswerWith(r, "store_failed")
    BY <2>1, <2>3 DEF Fails, AnswerWith, Calm, OnlyHandler, SameHandler, IInv, TypeOK
  <2> QED
    BY <1>1, <2>2, <2>3 DEF StoreNew
<1>2. CASE MarkUsed(r)
  <2> DEFINE w == MarkUsedWrite(job[r].tok, seen[r], new[r])
  <2>1. pc[r] = "mark_used" /\ UNCHANGED <<job, seen, new, jar, delivered>> /\ Pending(r) = {w}
    BY <1>2 DEF MarkUsed, Pending
  <2>2. CASE Succeeds(w) /\ AnswerWith(r, "rotated")
    <3>1. w.op # "put"
      BY DEF MarkUsedWrite
    <3>2. Writes(r, w)
      BY <2>1, <2>2, <3>1
      DEF Succeeds, AnswerWith, Writes, OnlyHandler, SameHandler, IInv, TypeOK
    <3> QED
      BY <2>1, <3>2
  <2>3. CASE Conflicts(w) /\ GoTo(r, "revoke")
    BY <2>1, <2>3 DEF Conflicts, storeVars, GoTo, Calm, OnlyHandler, SameHandler, IInv, TypeOK
  <2>4. CASE Fails(w) /\ AnswerWith(r, "store_failed")
    BY <2>1, <2>4 DEF Fails, AnswerWith, Calm, OnlyHandler, SameHandler, IInv, TypeOK
  <2> QED
    BY <1>2, <2>2, <2>3, <2>4 DEF MarkUsed
<1>3. CASE RevokeFamily(r)
  <2> DEFINE w == RevokeWrite(seen[r].family)
             a == IF job[r].kind = "logout" THEN "logged_out" ELSE "reuse"
  <2>1. /\ pc[r] = "revoke" /\ UNCHANGED <<job, seen, new, jar, delivered>>
        /\ Pending(r) = {w} /\ AnswerWith(r, a)
    BY <1>3 DEF RevokeFamily, Pending
  <2>2. CASE Succeeds(w)
    <3>1. w.op # "put"
      BY DEF RevokeWrite
    <3>2. Writes(r, w)
      BY <2>1, <2>2, <3>1
      DEF Succeeds, AnswerWith, Writes, OnlyHandler, SameHandler, IInv, TypeOK
    <3> QED
      BY <2>1, <3>2
  <2>3. CASE Fails(w)
    BY <2>1, <2>3 DEF Fails, AnswerWith, Calm, OnlyHandler, SameHandler, IInv, TypeOK
  <2> QED
    BY <1>3, <2>2, <2>3 DEF RevokeFamily
<1> QED
  BY <1>1, <1>2, <1>3

LEMMA EndKinds ==
  ASSUME IInv, NEW r \in Request, Respond(r) \/ Abort(r)
  PROVE  Calm(r)
<1>1. Forget(r)
  BY DEF Respond, Abort
<1>2. pc'[r] = "idle" /\ new'[r] = None /\ OnlyHandler(r)
  BY <1>1 DEF Forget, OnlyHandler, SameHandler, IInv, TypeOK
<1> QED
  BY <1>2 DEF Respond, Abort, Calm

LEMMA StepKinds ==
  ASSUME IInv, Next
  PROVE  \/ \E r \in Request : Calm(r) \/ \E w \in Pending(r) : Writes(r, w)
         \/ \E w \in late : Arrives(w)
<1>1. ASSUME Arrive PROVE \E w \in late : Arrives(w)
  BY <1>1 DEF Arrive, LateArrival, Arrives
<1> QED
  BY <1>1, ArrivalKinds, ReadKinds, WriteKinds, EndKinds DEF Next, Serve

-----------------------------------------------------------------------------
(* The invariant of the sessions.                                          *)

\* A row that is stored keeps its family, and is rewritten only once its token was
\* handed out.
LEMMA RowsLast ==
  ASSUME IInv, NEW w, PutBy(w) \/ MarkBy(w) \/ RevokeBy(w)
  PROVE  /\ \A t \in Token : Stored(t) => /\ rows'[t].family = rows[t].family
                                          /\ Stored(t)'
                                          /\ t \notin delivered => rows'[t] = rows[t]
         /\ \A f \in Token : Rooted(f) => Rooted(f)'
<1>1. rows \in [Token -> Row] /\ \A f \in Token : Rooted(f) => Stored(f)
  BY NoneAssumption
  DEF IInv, TypeOK, StoreTypeOK, RowsInv, RowOK, UnusedRow, UsedRow, NoRow, Stored, Rooted
<1>2. CASE PutBy(w)
  <2>1. \A t \in Token : Stored(t) => rows'[t] = rows[t]
    BY <1>1, <1>2 DEF PutBy, Stored
  <2> QED
    BY <1>1, <2>1 DEF Stored, Rooted
<1>3. CASE MarkBy(w)
  <2>1. \A t \in Token : t # w.id => rows'[t] = rows[t]
    BY <1>1, <1>3 DEF MarkBy
  <2>2. rows'[w.id].family = rows[w.id].family /\ rows'[w.id].rev = 2
    BY <1>1, <1>3 DEF MarkBy
  <2> QED
    BY <1>3, <2>1, <2>2 DEF MarkBy, Stored, Rooted
<1>4. CASE RevokeBy(w)
  BY <1>4 DEF RevokeBy, Stored, Rooted
<1> QED
  BY <1>2, <1>3, <1>4

\* An id that is drawn is no late write's successor.
LEMMA SuccessorsKept ==
  ASSUME IInv, SessionInv, NEW w \in late, w.op = "update",
         UnusedRow(rows'[w.new]), w.new \notin delivered',
         \A q \in Request : \/ SameHandler(q)
                            \/ new'[q] \in Fresh \cup {None}
                            \/ new'[q] = new[q] /\ pc[q] # "answer"
  PROVE  \A q \in Request : new'[q] = w.new => pc'[q] = "answer" /\ ans'[q] = "store_failed"
<1> SUFFICES ASSUME NEW q \in Request, new'[q] = w.new
             PROVE  pc'[q] = "answer" /\ ans'[q] = "store_failed"
  OBVIOUS
<1>1. w.new # None
  BY NoneAssumption DEF IInv, LateInv, UpdateInv
<1>2. new'[q] \notin Fresh
  BY FreshIds
<1> QED
  BY <1>1, <1>2 DEF SessionInv, SuccessorInv, SameHandler

LEMMA CalmKeepsSessions ==
  ASSUME IInv, SessionInv, NEW r \in Request, Calm(r)
  PROVE  SessionInv'
<1>1. UNCHANGED <<rows, revoked>> /\ OnlyHandler(r)
  BY DEF Calm
<1>2. RevokedInv'
  <2> SUFFICES ASSUME NEW w \in late', w.op = "revoke" PROVE Rooted(w.family)
    BY <1>1 DEF RevokedInv, SessionInv, Rooted
  <2>1. CASE w \in late
    BY <2>1 DEF SessionInv, RevokedInv
  <2>2. CASE w \in Pending(r)
    BY <2>2, PendingWrites
  <2> QED
    BY <2>1, <2>2 DEF Calm
<1>3. \A q \in Request : \/ SameHandler(q)
                         \/ new'[q] \in Fresh \cup {None}
                         \/ new'[q] = new[q] /\ pc[q] # "answer"
  BY <1>1 DEF Calm, OnlyHandler
<1>4. ASSUME NEW w \in late', w.op = "update"
      PROVE  /\ w.new \notin delivered' /\ UnusedRow(rows'[w.new])
             /\ \A q \in Request : new'[q] = w.new => pc'[q] = "answer" /\ ans'[q] = "store_failed"
  <2>1. CASE w \in late
    <3>1. /\ w.new \notin delivered /\ UnusedRow(rows[w.new])
          /\ new[r] = w.new => pc[r] = "answer" /\ ans[r] = "store_failed"
      BY <1>4, <2>1 DEF SessionInv, SuccessorInv
    <3>2. w.new \notin delivered'
      BY <3>1 DEF Calm, SetsCookie
    <3>3. UnusedRow(rows'[w.new])
      BY <1>1, <3>1
    <3> QED
      BY <1>3, <1>4, <2>1, <3>2, <3>3, SuccessorsKept
  <2>2. CASE w \notin late
    <3>1. w \in Pending(r) /\ late' # late
      BY <2>2 DEF Calm
    <3>2. pc[r] = "mark_used" /\ w.new = new[r] /\ w.new \in Token /\ w.new \notin delivered
          /\ UnusedRow(rows[w.new])
      BY <1>4, <3>1, PendingWrites
    <3>3. \/ new'[r] = None
          \/ new'[r] = new[r] /\ pc'[r] = "answer" /\ ans'[r] = "store_failed"
      BY <3>1, <3>2 DEF Calm
    <3>4. \A q \in Request \ {r} : new'[q] # w.new
      BY <1>1, <3>2, NoneAssumption DEF IInv, NewInv, OnlyHandler, SameHandler
    <3> QED
      BY <1>1, <3>2, <3>3, <3>4, NoneAssumption DEF Calm
  <2> QED
    BY <2>1, <2>2
<1> QED
  BY <1>2, <1>4 DEF SessionInv, SuccessorInv

LEMMA WriteKeepsSessions ==
  ASSUME IInv, SessionInv, NEW w, PutBy(w) \/ MarkBy(w) \/ RevokeBy(w),
         late' \subseteq late, UNCHANGED <<new, delivered>>,
         \A q \in Request : SameHandler(q) \/ pc[q] # "answer"
  PROVE  SessionInv'
<1>1. RevokedInv'
  <2>1. \A f \in revoked' : f \in Token /\ Rooted(f)
    BY DEF PutBy, MarkBy, RevokeBy, SessionInv, RevokedInv, IInv, TypeOK, StoreTypeOK
  <2>2. \A v \in late' : v.op = "revoke" => v.family \in Token /\ Rooted(v.family)
    BY DEF SessionInv, RevokedInv, IInv, LateInv
  <2> QED
    BY <2>1, <2>2, RowsLast DEF RevokedInv
<1>2. ASSUME NEW v \in late', v.op = "update"
      PROVE  /\ v.new \notin delivered' /\ UnusedRow(rows'[v.new])
             /\ \A q \in Request : new'[q] = v.new => pc'[q] = "answer" /\ ans'[q] = "store_failed"
  <2>1. v \in late /\ v.new \notin delivered /\ UnusedRow(rows[v.new]) /\ v.new \in Token
    BY <1>2 DEF SessionInv, SuccessorInv, IInv, LateInv, UpdateInv
  <2>2. rows'[v.new] = rows[v.new]
    BY <2>1, RowsLast DEF UnusedRow, Stored
  <2> QED
    BY <1>2, <2>1, <2>2, SuccessorsKept
<1> QED
  BY <1>1, <1>2 DEF SessionInv, SuccessorInv

LEMMA NextKeepsSessions == IInv /\ SessionInv /\ [Next]_vars => SessionInv'
<1> SUFFICES ASSUME IInv, SessionInv, [Next]_vars PROVE SessionInv'
  OBVIOUS
<1>1. CASE UNCHANGED vars
  BY <1>1 DEF vars, SessionInv, RevokedInv, SuccessorInv, Rooted
<1>2. ASSUME NEW r \in Request, Calm(r) PROVE SessionInv'
  BY <1>2, CalmKeepsSessions
<1>3. ASSUME NEW r \in Request, NEW w \in Pending(r), Writes(r, w) PROVE SessionInv'
  <2>1. PutBy(w) \/ MarkBy(w) \/ RevokeBy(w)
    BY <1>3, WriteShapes DEF Writes, UnderWay
  <2>2. \A q \in Request : SameHandler(q) \/ pc[q] # "answer"
    BY <1>3, PendingWrites DEF Writes, OnlyHandler
  <2> QED
    BY <1>3, <2>1, <2>2, WriteKeepsSessions DEF Writes
<1>4. ASSUME NEW w \in late, Arrives(w) PROVE SessionInv'
  <2>1. late' \subseteq late /\ UNCHANGED <<new, delivered>> /\ \A q \in Request : SameHandler(q)
    BY <1>4 DEF Arrives, SameHandler
  <2>2. CASE Accepted(w) /\ Apply(w)
    <3>1. PutBy(w) \/ MarkBy(w) \/ RevokeBy(w)
      BY <2>2, WriteShapes DEF UnderWay
    <3> QED
      BY <2>1, <3>1, WriteKeepsSessions
  <2>3. CASE UNCHANGED <<rows, revoked>>
    BY <1>4, <2>1, <2>3 DEF Arrives, SessionInv, RevokedInv, SuccessorInv, Rooted, SameHandler
  <2> QED
    BY <1>4, <2>2, <2>3 DEF Arrives
<1> QED
  BY <1>1, <1>2, <1>3, <1>4, StepKinds

\* Only opened families are revoked, and the successor of a late compare-and-swap is in
\* nobody's hands (rotate and revoke_family, whichever of their calls fails).
THEOREM SessionsInvariant == Spec => []SessionInv
<1>1. Init => SessionInv
  BY DEF Init, StoreInit, SessionInv, RevokedInv, SuccessorInv
<1> QED
  BY <1>1, NextKeepsSessions, InvariantHolds, PTL DEF Spec

-----------------------------------------------------------------------------
(* Chains and rotations under way, step by step.                           *)

\* Only a mark in the family itself adds to the chain of an opened family.
LEMMA ChainsKept ==
  ASSUME IInv, IInv', NEW w, PutBy(w) \/ MarkBy(w) \/ RevokeBy(w),
         NEW f \in Token, Rooted(f), w.op = "update" => w.family # f
  PROVE  Chain(f)' = Chain(f)
<1>1. rows \in [Token -> Row] /\ RowsInv
  BY DEF IInv, TypeOK, StoreTypeOK
<1>2. CASE PutBy(w)
  <2>1. rows[w.id] = NoRow
    BY <1>1, <1>2 DEF PutBy, RowsInv, RowOK, UnusedRow, UsedRow, Stored
  <2>2. w.id # f
    BY <2>1, NoneAssumption DEF Rooted, NoRow
  <2>3. \A t \in Token : t # w.id => rows'[t] = rows[t]
    BY <1>1, <1>2 DEF PutBy
  <2>4. /\ rows'[w.id].replaced_by = rows[w.id].replaced_by
        /\ rows'[w.id].family = w.family /\ (w.family = w.id \/ w.family = f => Rooted(f)')
    BY <1>1, <1>2, <2>1, <2>2, <2>3 DEF PutBy, NoRow, Rooted
  <2>5. \A p \in Token : rows'[p].replaced_by = rows[p].replaced_by
    BY <2>3, <2>4
  <2>6. \A p \in Token : rows[p].replaced_by # w.id
    BY <1>1, <1>2, NoneAssumption
    DEF PutBy, RowsInv, ReplacementStored, RowOK, UnusedRow, UsedRow, NoRow, Stored
  <2>7. w.id \notin Chain(f)' /\ w.id \notin Chain(f)
    BY <1>2, <2>1, <2>2, <2>4, <2>5, <2>6, NoneAssumption DEF Chain, OnChain, PutBy
  <2>8. \A t \in Token \ {w.id} : t \in Chain(f)' <=> t \in Chain(f)
    BY <2>3, <2>5 DEF Chain, OnChain, Stored
  <2> QED
    BY <2>7, <2>8 DEF Chain
<1>3. CASE MarkBy(w)
  <2>1. \A t \in Token : t # w.id => rows'[t] = rows[t]
    BY <1>1, <1>3 DEF MarkBy
  <2>2. /\ w.family # f /\ rows[w.id].family = w.family
        /\ rows'[w.id].family = w.family /\ rows'[w.id].replaced_by = w.new
        /\ rows'[w.id].rev = 2 /\ rows[w.id].rev = 1
        /\ rows[w.new].family = w.family /\ w.id \in Token
    BY <1>1, <1>3 DEF MarkBy
  <2>3. rows[w.id].replaced_by = None
    BY <1>1, <2>2 DEF RowsInv, RowOK, UnusedRow, UsedRow, NoRow
  <2>4. \A t \in Token : rows[t].family = f => t # w.id /\ t # w.new
    BY <2>2
  <2>5. \A t \in Token : rows[t].family = f => (OnChain(t)' <=> OnChain(t))
    BY <2>1, <2>2, <2>3, <2>4, NoneAssumption DEF OnChain, Stored
  <2>6. \A t \in Token : rows'[t].family = rows[t].family
    BY <2>1, <2>2
  <2> QED
    BY <2>5, <2>6 DEF Chain
<1>4. CASE RevokeBy(w)
  BY <1>4 DEF RevokeBy, Chain, OnChain, Stored
<1> QED
  BY <1>2, <1>3, <1>4

\* Whether a late compare-and-swap would be accepted changes only when its own family
\* is marked.
LEMMA AcceptanceKept ==
  ASSUME IInv, NEW w, PutBy(w) \/ MarkBy(w) \/ RevokeBy(w),
         NEW v \in late, v.op = "update", w.op = "update" => w.family # v.family
  PROVE  Accepted(v)' <=> Accepted(v)
<1>1. v.id \in delivered /\ v.family = rows[v.id].family
  BY DEF IInv, LateInv, UpdateInv
<1>2. v.id \in Token /\ Stored(v.id)
  BY <1>1, DeliveredRooted
<1>3. CASE PutBy(w)
  BY <1>2, <1>3 DEF PutBy, Accepted, IInv, TypeOK, StoreTypeOK
<1>4. CASE MarkBy(w)
  BY <1>1, <1>2, <1>4 DEF MarkBy, Accepted, IInv, TypeOK, StoreTypeOK
<1>5. CASE RevokeBy(w)
  BY <1>5 DEF RevokeBy, Accepted
<1> QED
  BY <1>3, <1>4, <1>5

\* No calm step begins a rotation in a revoked family, as long as no read fails, and it
\* touches no family but that of the row its handler read.
LEMMA CalmRotations ==
  ASSUME IInv, NEW r \in Request, Calm(r), spent'["read"] = 0, NEW f \in revoked
  PROVE  /\ Rotating(f)' => Rotating(f)
         /\ f # seen[r].family => (Rotating(f)' <=> Rotating(f))
<1>1. UNCHANGED <<rows, revoked>> /\ OnlyHandler(r)
  BY DEF Calm
<1>2. pc'[r] \in {"store", "mark_used"} /\ job'[r].kind # "token" => seen'[r].family # f
  BY DEF Calm
<1>3. ASSUME NEW v \in late' \ late, v.op = "update"
      PROVE  pc[r] = "mark_used" /\ v.family = seen[r].family /\ job[r].kind # "token"
  BY <1>3, PendingWrites DEF Calm, IInv, HandlerInv, HasRow
<1>4. \A v \in late' : Accepted(v)' <=> Accepted(v)
  BY <1>1 DEF Accepted
<1>5. Rotating(f)' => Rotating(f)
  BY <1>1, <1>2, <1>3, <1>4 DEF Rotating, OnlyHandler, SameHandler
<1>6. ASSUME f # seen[r].family, Rotating(f) PROVE Rotating(f)'
  BY <1>1, <1>4, <1>6 DEF Calm, Rotating, OnlyHandler, SameHandler
<1> QED
  BY <1>5, <1>6

\* An applied write of a handler ends a rotation only by marking in its family.
LEMMA WriteRotations ==
  ASSUME IInv, NEW r \in Request, NEW w \in Pending(r), Writes(r, w),
         PutBy(w) \/ MarkBy(w) \/ RevokeBy(w), NEW f \in Token
  PROVE  /\ w.op = "update" => Rotating(w.family)
         /\ (w.op = "update" => w.family # f) => (Rotating(f)' <=> Rotating(f))
<1>1. /\ OnlyHandler(r) /\ UNCHANGED <<late, job, seen>>
      /\ pc'[r] = IF w.op = "put" /\ job[r].kind # "token" THEN "mark_used" ELSE "answer"
  BY DEF Writes
<1>2. /\ w.op = "put" <=> pc[r] = "store"
      /\ w.op = "update" <=> pc[r] = "mark_used"
      /\ w.op = "update" => w.family = seen[r].family
  BY PendingWrites
<1>3. w.op = "update" => job[r].kind # "token"
  BY <1>2 DEF IInv, HandlerInv, HasRow
<1>4. w.op = "update" => Rotating(w.family)
  BY <1>2, <1>3 DEF Rotating
<1>5. ASSUME w.op = "update" => w.family # f PROVE Rotating(f)' <=> Rotating(f)
  <2>1. \A v \in late : v.op = "update" /\ v.family = f => (Accepted(v)' <=> Accepted(v))
    BY <1>5, AcceptanceKept
  <2>2. \A q \in Request :
          (pc'[q] \in {"store", "mark_used"} /\ job'[q].kind # "token" /\ seen'[q].family = f)
          <=> (pc[q] \in {"store", "mark_used"} /\ job[q].kind # "token" /\ seen[q].family = f)
    BY <1>1, <1>2, <1>5 DEF OnlyHandler, SameHandler
  <2> QED
    BY <1>1, <2>1, <2>2 DEF Rotating
<1> QED
  BY <1>4, <1>5

\* So does a late write, and one that is refused ends none.
LEMMA ArrivalRotations ==
  ASSUME IInv, NEW w \in late, Arrives(w), NEW f \in Token
  PROVE  /\ ~Accepted(w) => (Rotating(f)' <=> Rotating(f))
         /\ w.op = "update" /\ Accepted(w) => Rotating(w.family)
         /\ PutBy(w) \/ MarkBy(w) \/ RevokeBy(w) =>
              ((w.op = "update" => w.family # f) => (Rotating(f)' <=> Rotating(f)))
<1>1. late' = late \ {w} /\ UNCHANGED <<pc, job, seen>>
  BY DEF Arrives
<1>2. ASSUME ~Accepted(w) PROVE Rotating(f)' <=> Rotating(f)
  <2>1. UNCHANGED rows
    BY <1>2 DEF Arrives
  <2>2. \A v \in late : Accepted(v)' <=> Accepted(v)
    BY <2>1 DEF Accepted
  <2> QED
    BY <1>1, <1>2, <2>2 DEF Rotating
<1>3. ASSUME PutBy(w) \/ MarkBy(w) \/ RevokeBy(w), w.op = "update" => w.family # f
      PROVE  Rotating(f)' <=> Rotating(f)
  <2>1. \A v \in late : v.op = "update" /\ v.family = f => (Accepted(v)' <=> Accepted(v))
    BY <1>3, AcceptanceKept
  <2> QED
    BY <1>1, <1>3, <2>1 DEF Rotating
<1> QED
  BY <1>2, <1>3 DEF Rotating

-----------------------------------------------------------------------------
(* A dead family stays dead.                                               *)

\* A family that is marked, and the rotations under way in it, as long as no read fails:
\* none begins, and the chain grows only by one of them.
LEMMA RevokedFamilies ==
  ASSUME IInv, IInv', SessionInv, [Next]_vars, spent'["read"] = 0, NEW f \in revoked
  PROVE  /\ f \in revoked'
         /\ Rotating(f)' => Rotating(f)
         /\ Rotating(f) \/ Chain(f)' = Chain(f)
<1>1. f \in Token /\ Rooted(f)
  BY DEF IInv, TypeOK, StoreTypeOK, SessionInv, RevokedInv
<1>2. CASE UNCHANGED vars
  BY <1>2 DEF vars, Rotating, Accepted, Chain, OnChain, Stored
<1>3. ASSUME NEW r \in Request, Calm(r)
      PROVE  f \in revoked' /\ (Rotating(f)' => Rotating(f)) /\ Chain(f)' = Chain(f)
  <2>1. UNCHANGED <<rows, revoked>>
    BY <1>3 DEF Calm
  <2> QED
    BY <1>3, <2>1, CalmRotations DEF Chain, OnChain, Stored
<1>4. ASSUME NEW w, PutBy(w) \/ MarkBy(w) \/ RevokeBy(w)
      PROVE  /\ f \in revoked'
             /\ (w.op = "update" => w.family # f) => Chain(f)' = Chain(f)
  BY <1>1, <1>4, ChainsKept DEF PutBy, MarkBy, RevokeBy
<1>5. ASSUME NEW r \in Request, NEW w \in Pending(r), Writes(r, w)
      PROVE  /\ f \in revoked' /\ (Rotating(f)' => Rotating(f))
             /\ Rotating(f) \/ Chain(f)' = Chain(f)
  <2>1. PutBy(w) \/ MarkBy(w) \/ RevokeBy(w)
    BY <1>5, WriteShapes DEF Writes, UnderWay
  <2> QED
    BY <1>1, <1>4, <1>5, <2>1, WriteRotations
<1>6. ASSUME NEW w \in late, Arrives(w)
      PROVE  /\ f \in revoked' /\ (Rotating(f)' => Rotating(f))
             /\ Rotating(f) \/ Chain(f)' = Chain(f)
  <2>1. CASE Accepted(w) /\ Apply(w)
    <3>1. PutBy(w) \/ MarkBy(w) \/ RevokeBy(w)
      BY <2>1, WriteShapes DEF UnderWay
    <3> QED
      BY <1>1, <1>4, <1>6, <2>1, <3>1, ArrivalRotations
  <2>2. CASE ~Accepted(w) /\ UNCHANGED <<rows, revoked>>
    BY <1>1, <1>6, <2>2, ArrivalRotations DEF Chain, OnChain, Stored
  <2> QED
    BY <1>6, <2>1, <2>2 DEF Arrives
<1> QED
  BY <1>2, <1>3, <1>5, <1>6, StepKinds

\* No token joins a family that is revoked and that no earlier rotation works on, as long
\* as the reads of the marker succeed (is_family_revoked before rotate, on both paths).
THEOREM DeadFamiliesStayDead == Spec => DeadStaysDead
<1>1. IInv /\ IInv' /\ SessionInv /\ [Next]_vars =>
        [spent'["read"] = 0 => \A f \in Token : Dead(f) => Dead(f)' /\ Chain(f)' = Chain(f)]_vars
  BY RevokedFamilies DEF Dead
<1> QED
  BY <1>1, InvariantHolds, SessionsInvariant, PTL DEF Spec, DeadStaysDead

-----------------------------------------------------------------------------
(* Logout revokes.                                                         *)

\* A call that fails is never forgotten.
LEMMA FaultsCount == TypeOK /\ [Next]_vars /\ NoFault' => NoFault
<1> SUFFICES ASSUME TypeOK, [Next]_vars, NoFault' PROVE NoFault
  OBVIOUS
<1>1. spent \in [Bound -> Nat] /\ {"read", "write"} \subseteq Bound
  BY DEF TypeOK, Bound
<1>2. ASSUME NEW x \in Bound, NEW max, Spend(x, max) PROVE NoFault
  BY <1>1, <1>2 DEF Spend, NoFault
<1>3. CASE UNCHANGED spent
  BY <1>3 DEF NoFault
<1>4. {"read", "write", "abort", "replay"} \subseteq Bound
  BY DEF Bound
<1> QED
  BY <1>2, <1>3, <1>4 DEF Next, vars, Serve, Login, PresentCookie, PresentBody, PresentNothing,
     Find, IsFamilyRevoked, StoreNew, MarkUsed, RevokeFamily, Respond, Abort, Arrive

\* What a step keeps: the markers, the tokens that were handed out and their families.
LEMMA MarkersLast ==
  ASSUME IInv, SessionInv, [Next]_vars
  PROVE  /\ revoked \subseteq revoked' /\ delivered \subseteq delivered'
         /\ \A t \in delivered : rows'[t].family = rows[t].family
<1>1. ASSUME NEW w, PutBy(w) \/ MarkBy(w) \/ RevokeBy(w)
      PROVE  /\ revoked \subseteq revoked'
             /\ \A t \in delivered : rows'[t].family = rows[t].family
  <2>1. revoked \subseteq revoked'
    BY <1>1 DEF PutBy, MarkBy, RevokeBy
  <2> QED
    BY <1>1, <2>1, RowsLast, DeliveredRooted
<1>2. CASE UNCHANGED vars
  BY <1>2 DEF vars
<1>3. ASSUME NEW r \in Request, Calm(r)
      PROVE  UNCHANGED <<rows, revoked>> /\ delivered \subseteq delivered'
  BY <1>3 DEF Calm
<1>4. ASSUME NEW r \in Request, NEW w \in Pending(r), Writes(r, w)
      PROVE  UNCHANGED delivered /\ (PutBy(w) \/ MarkBy(w) \/ RevokeBy(w))
  BY <1>4, WriteShapes DEF Writes, UnderWay
<1>5. ASSUME NEW w \in late, Arrives(w)
      PROVE  /\ UNCHANGED delivered
             /\ UNCHANGED <<rows, revoked>> \/ PutBy(w) \/ MarkBy(w) \/ RevokeBy(w)
  BY <1>5, WriteShapes DEF Arrives, UnderWay
<1> QED
  BY <1>1, <1>2, <1>3, <1>4, <1>5, StepKinds

\* What the invariant says of logout, for one handler.
LogoutOK(r) ==
  pc[r] # "idle" /\ job[r].kind = "logout" =>
    /\ pc[r] \in {"find", "revoke", "answer"}
    /\ pc[r] = "answer" /\ job[r].tok # None =>
         /\ job[r].tok \in delivered
         /\ NoFault => rows[job[r].tok].family \in revoked

LEMMA LogoutKept ==
  ASSUME IInv, SessionInv, [Next]_vars, NEW q \in Request, LogoutOK(q), SameHandler(q)
  PROVE  LogoutOK(q)'
<1>1. NoFault' => NoFault
  BY FaultsCount DEF IInv
<1> QED
  BY <1>1, MarkersLast DEF LogoutOK, SameHandler

LEMMA LogoutOwnStep ==
  ASSUME IInv, NEW r \in Request, LogoutOK(r), Serve(r) \/ Abort(r)
  PROVE  LogoutOK(r)'
<1>1. CASE Respond(r) \/ Abort(r)
  BY <1>1 DEF Respond, Abort, Forget, LogoutOK, IInv, TypeOK
<1>2. CASE Find(r)
  <2>1. /\ pc[r] = "find" /\ job'[r] = job[r] /\ UNCHANGED <<rows, revoked, delivered>>
        /\ job[r].tok \in delivered /\ Stored(job[r].tok)
    BY <1>2, DeliveredRooted DEF Find, IInv, HandlerInv
  <2>2. CASE Spend("read", MaxReadFaults) /\ pc'[r] = "answer"
    <3>1. ~NoFault'
      BY <2>2 DEF Spend, NoFault, IInv, TypeOK, Bound
    <3> QED
      BY <2>1, <2>2, <3>1 DEF LogoutOK
  <2>3. CASE GoTo(r, IF job[r].kind = "logout" THEN "revoke" ELSE "is_revoked")
    BY <2>1, <2>3 DEF GoTo, LogoutOK, IInv, TypeOK
  <2> QED
    BY <1>2, <2>1, <2>2, <2>3 DEF Find, AnswerWith, IInv, TypeOK
<1>3. CASE IsFamilyRevoked(r) \/ StoreNew(r) \/ MarkUsed(r)
  <2>1. pc[r] \in {"is_revoked", "store", "mark_used"} /\ job'[r] = job[r]
    BY <1>3 DEF IsFamilyRevoked, StoreNew, MarkUsed
  <2> QED
    BY <2>1 DEF LogoutOK
<1>4. CASE RevokeFamily(r)
  <2> DEFINE w == RevokeWrite(seen[r].family)
  <2>1. /\ pc[r] = "revoke" /\ pc'[r] = "answer" /\ job'[r] = job[r]
        /\ UNCHANGED delivered
        /\ Succeeds(w) \/ (Fails(w) /\ Spend("write", MaxWriteFaults))
    BY <1>4 DEF RevokeFamily, AnswerWith, IInv, TypeOK
  <2>2. HasRow(r)
    BY <2>1 DEF IInv, HandlerInv
  <2>3. CASE Succeeds(w)
    <3>1. w.op = "revoke" /\ w.family = seen[r].family
      BY DEF RevokeWrite
    <3>2. UNCHANGED rows /\ seen[r].family \in revoked'
      BY <2>3, <3>1 DEF Succeeds, Apply
    <3> QED
      BY <2>1, <2>2, <3>2 DEF HasRow, LogoutOK
  <2>4. CASE Spend("write", MaxWriteFaults)
    <3>1. ~NoFault'
      BY <2>4 DEF Spend, NoFault, IInv, TypeOK, Bound
    <3> QED
      BY <2>1, <2>2, <3>1 DEF HasRow, LogoutOK
  <2> QED
    BY <2>1, <2>3, <2>4
<1> QED
  BY <1>1, <1>2, <1>3, <1>4 DEF Serve

LEMMA LogoutArrives ==
  ASSUME IInv, NEW r \in Request, NEW b \in Browser,
         \/ Login(r, b) \/ PresentBody(r, b)
         \/ \E k \in Kind : PresentCookie(r, b, k) \/ PresentNothing(r, b, k)
  PROVE  LogoutOK(r)' /\ OnlyHandler(r)
<1>1. OnlyHandler(r)
  BY ArrivalKinds DEF Calm
<1>2. \/ pc'[r] = "find"
      \/ pc'[r] = "store" /\ job'[r].kind = "token"
      \/ pc'[r] = "answer" /\ job'[r].tok = None
  BY DEF Login, PresentBody, PresentCookie, PresentNothing, Accept, GoTo, AnswerWith, IInv, TypeOK
<1> QED
  BY <1>1, <1>2 DEF LogoutOK

LEMMA NextKeepsLogout == IInv /\ SessionInv /\ LogoutInv /\ [Next]_vars => LogoutInv'
<1> SUFFICES ASSUME IInv, SessionInv, LogoutInv, [Next]_vars, NEW q \in Request
             PROVE  LogoutOK(q)'
  BY DEF LogoutInv, LogoutOK
<1>1. LogoutOK(q)
  BY DEF LogoutInv, LogoutOK
<1>2. ASSUME SameHandler(q) PROVE LogoutOK(q)'
  BY <1>1, <1>2, LogoutKept
<1>3. ASSUME NEW r \in Request, NEW b \in Browser,
             \/ Login(r, b) \/ PresentBody(r, b)
             \/ \E k \in Kind : PresentCookie(r, b, k) \/ PresentNothing(r, b, k)
      PROVE  LogoutOK(q)'
  BY <1>2, <1>3, LogoutArrives DEF OnlyHandler
<1>4. ASSUME NEW r \in Request, Serve(r) \/ Abort(r) PROVE LogoutOK(q)'
  <2>1. OnlyHandler(r)
    BY <1>4, ReadKinds, WriteKinds, EndKinds DEF Serve, Calm, Writes
  <2> QED
    BY <1>1, <1>2, <1>4, <2>1, LogoutOwnStep DEF OnlyHandler
<1>5. ASSUME Arrive \/ UNCHANGED vars PROVE LogoutOK(q)'
  BY <1>2, <1>5 DEF Arrive, vars, SameHandler
<1> QED
  BY <1>3, <1>4, <1>5 DEF Next

\* As long as no call to the store fails, a logout that answers has revoked the family
\* of the token it was given, whatever overlaps and whoever vanishes (logout).
THEOREM LogoutsRevoke == Spec => [](NoFault => LogoutRevokes)
<1>1. Init => LogoutInv
  BY DEF Init, LogoutInv
<1>2. LogoutInv => (NoFault => LogoutRevokes)
  BY DEF LogoutInv, LogoutRevokes
<1> QED
  BY <1>1, <1>2, NextKeepsLogout, InvariantHolds, SessionsInvariant, PTL DEF Spec

-----------------------------------------------------------------------------
(* The sessions as SessionFamily promises them.                            *)

\* The one live token of a family is its current token.
LEMMA CurrentToken ==
  /\ \A f, t \in Token : Live(f) = {t} => CurrentOf(f) = t
  /\ \A f, t \in Token : Live(f)' = {t} => CurrentOf(f)' = t
  /\ \A f \in Token : Live(f)' = Live(f) => CurrentOf(f)' = CurrentOf(f)
<1>1. \A S, t : S = {t} => (CHOOSE u \in S : TRUE) = t
  OBVIOUS
<1>2. \A f, t \in Token : Live(f) = {t} => CurrentOf(f) = t
  BY <1>1 DEF CurrentOf
<1>3. ASSUME NEW f \in Token, NEW t \in Token, Live(f)' = {t} PROVE CurrentOf(f)' = t
  BY <1>1, <1>3 DEF CurrentOf
<1>4. \A f \in Token : Live(f)' = Live(f) => CurrentOf(f)' = CurrentOf(f)
  BY DEF CurrentOf
<1> QED
  BY <1>2, <1>3, <1>4

\* A token that is not on a chain, or that is used, is no family's current token.
LEMMA OnlyLiveIsCurrent ==
  ASSUME NEW n \in Token, \A f \in Token : n \notin Live(f)
  PROVE  \A f \in Token : CurrentOf(f) # n
<1> SUFFICES ASSUME NEW f \in Token, CurrentOf(f) = n PROVE FALSE
  OBVIOUS
<1>1. CASE Live(f) = {}
  BY <1>1, NoneAssumption DEF CurrentOf
<1>2. CASE Live(f) # {}
  BY <1>2 DEF CurrentOf
<1> QED
  BY <1>1, <1>2

\* A step that leaves the rows alone, and the phases of all families but one, is a step
\* of that session or none.
LEMMA PhaseStep ==
  ASSUME UNCHANGED rows, NEW g \in Token,
         \A f \in Token \ {g} : PhaseOf(f)' = PhaseOf(f),
         \/ PhaseOf(g)' = PhaseOf(g)
         \/ PhaseOf(g) = "closing" /\ PhaseOf(g)' = "closed"
         \/ PhaseOf(g) = "open" /\ PhaseOf(g)' \in {"closing", "closed"}
  PROVE  [Session!SessionNext]_(Session!sessionVars)
<1> DEFINE phase == [f \in Token |-> PhaseOf(f)]
<1>1. \A f \in Token : CurrentOf(f)' = CurrentOf(f)
  BY DEF CurrentOf, Live, Chain, OnChain, Stored
<1>2. UNCHANGED <<[f \in Token |-> CurrentOf(f)], {t \in Token : rows[t].used_at}>>
  BY <1>1
<1>3. phase' = [phase EXCEPT ![g] = PhaseOf(g)'] /\ phase[g] = PhaseOf(g)
  OBVIOUS
<1>4. CASE PhaseOf(g)' = PhaseOf(g)
  BY <1>2, <1>3, <1>4 DEF Session!sessionVars
<1>5. CASE PhaseOf(g) = "closing" /\ PhaseOf(g)' = "closed"
  BY <1>2, <1>3, <1>5 DEF Session!Close, Session!SessionNext
<1>6. CASE PhaseOf(g) = "open" /\ PhaseOf(g)' \in {"closing", "closed"}
  BY <1>2, <1>3, <1>6 DEF Session!Revoke, Session!SessionNext
<1> QED
  BY <1>4, <1>5, <1>6

\* Nothing changes of the sessions when no row and no phase does.
LEMMA SameSessions ==
  ASSUME \A f \in Token : CurrentOf(f)' = CurrentOf(f) /\ PhaseOf(f)' = PhaseOf(f),
         \A t \in Token : rows'[t].used_at = rows[t].used_at
  PROVE  [Session!SessionNext]_(Session!sessionVars)
<1>1. UNCHANGED <<[f \in Token |-> CurrentOf(f)], {t \in Token : rows[t].used_at},
                  [f \in Token |-> PhaseOf(f)]>>
  OBVIOUS
<1> QED
  BY <1>1 DEF Session!sessionVars

\* A handler that writes nothing closes a session at most.
LEMMA CalmIsPromised ==
  ASSUME IInv, NEW r \in Request, Calm(r), spent'["read"] = 0
  PROVE  [Session!SessionNext]_(Session!sessionVars)
<1>1. UNCHANGED <<rows, revoked>>
  BY DEF Calm
<1>2. \A f \in Token : f # seen[r].family => PhaseOf(f)' = PhaseOf(f)
  BY <1>1, CalmRotations DEF PhaseOf
<1>3. ASSUME NEW g \in Token, g = seen[r].family
      PROVE  [Session!SessionNext]_(Session!sessionVars)
  <2>1. PhaseOf(g)' = PhaseOf(g) \/ (PhaseOf(g) = "closing" /\ PhaseOf(g)' = "closed")
    BY <1>1, CalmRotations DEF PhaseOf
  <2> QED
    BY <1>1, <1>2, <1>3, <2>1, PhaseStep
<1>4. CASE seen[r].family \notin Token
  <2>1. \A f \in Token : CurrentOf(f)' = CurrentOf(f)
    BY <1>1 DEF CurrentOf, Live, Chain, OnChain, Stored
  <2> QED
    BY <1>1, <1>2, <1>4, <2>1, SameSessions
<1> QED
  BY <1>3, <1>4

\* A row that is put opens a session, or is a successor nobody knows of yet.
LEMMA PutIsPromised ==
  ASSUME IInv, SessionInv, IInv', NEW w, PutBy(w),
         \A f \in Token : Rotating(f)' <=> Rotating(f)
  PROVE  [Session!SessionNext]_(Session!sessionVars)
<1> DEFINE n == w.id
           f == w.family
           phase == [g \in Token |-> PhaseOf(g)]
           current == [g \in Token |-> CurrentOf(g)]
<1>1. n \in Token /\ f \in Token /\ rows[n] = NoRow
  BY DEF PutBy, IInv, RowsInv, RowOK, UnusedRow, UsedRow, Stored
<1>2. \A t \in Token : t # n => rows'[t] = rows[t]
  BY DEF PutBy, IInv, TypeOK, StoreTypeOK
<1>3. /\ \A g \in Token : g # n \/ f # n => Live(g)' = Live(g)
      /\ f = n => Live(n)' = {n}
      /\ UnusedRow(rows'[n]) /\ rows'[n].family = f
  BY PutRows DEF PutBy, IInv, TypeOK
<1>4. rows[n].family # n /\ ~rows[n].used_at /\ ~rows'[n].used_at
  BY <1>1, <1>3, NoneAssumption DEF NoRow, UnusedRow
<1>5. \A t \in Token : rows'[t].used_at = rows[t].used_at
  <2>1. rows'[n].used_at = FALSE /\ rows[n].used_at = FALSE
    BY <1>1, <1>3 DEF NoRow, PutBy, IInv, TypeOK, StoreTypeOK
  <2> QED
    BY <1>2, <2>1
<1>6. \A g \in Token : g # n \/ f # n =>
        CurrentOf(g)' = CurrentOf(g) /\ PhaseOf(g)' = PhaseOf(g)
  BY <1>2, <1>3, <1>4, CurrentToken DEF PhaseOf, PutBy
<1>7. CASE f # n
  BY <1>5, <1>6, <1>7, SameSessions
<1>8. CASE f = n
  <2>1. PhaseOf(n) = "unopened"
    BY <1>4 DEF PhaseOf
  <2>2. n \notin revoked'
    BY <1>4 DEF SessionInv, RevokedInv, Rooted, PutBy
  <2>3. PhaseOf(n)' = "open"
    BY <1>3, <1>8, <2>2 DEF PhaseOf
  <2>4. CurrentOf(n)' = n
    BY <1>1, <1>3, <1>8, CurrentToken
  <2>5. \A g \in Token : CurrentOf(g) # n
    BY <1>1, OnlyLiveIsCurrent DEF PutBy, Live, Chain, OnChain
  <2>6. Session!Unseen(n)
    BY <1>4, <2>5 DEF Session!Unseen
  <2>7. /\ phase' = [phase EXCEPT ![n] = "open"] /\ phase[n] = "unopened"
        /\ current' = [current EXCEPT ![n] = n]
        /\ UNCHANGED {t \in Token : rows[t].used_at}
    BY <1>1, <1>5, <1>6, <2>1, <2>3, <2>4
  <2>8. Session!Open(n)
    BY <2>6, <2>7 DEF Session!Open
  <2> QED
    BY <1>1, <2>8 DEF Session!SessionNext
<1> QED
  BY <1>7, <1>8

\* A row that is marked retires the current token of its session for the successor.
LEMMA MarkIsPromised ==
  ASSUME IInv, SessionInv, IInv', NEW w, MarkBy(w), Rotating(w.family),
         \A g \in Token : g # w.family => (Rotating(g)' <=> Rotating(g))
  PROVE  [Session!SessionNext]_(Session!sessionVars)
<1> DEFINE o == w.id
           n == w.new
           f == w.family
           phase == [g \in Token |-> PhaseOf(g)]
           current == [g \in Token |-> CurrentOf(g)]
           retired == {t \in Token : rows[t].used_at}
<1>1. /\ o \in Token /\ n \in Token /\ n # o /\ f = rows[o].family
      /\ f \in Token /\ OnChain(o) /\ Rooted(f)
      /\ UnusedRow(rows[n]) /\ rows[n].family = f /\ UNCHANGED revoked
  BY DeliveredRooted DEF MarkBy
<1>2. /\ \A t \in Token : t # o => rows'[t] = rows[t]
      /\ UsedRow(rows'[o]) /\ rows'[o].family = f
      /\ \A g \in Token : g # f => Live(g)' = Live(g)
      /\ Live(f) = {o} /\ Live(f)' = {n}
  <2>1. rows[n].rev = 1 /\ Stored(n)
    BY <1>1 DEF UnusedRow, Stored
  <2>2. StoreTypeOK /\ RowsInv /\ StoreTypeOK'
    BY DEF IInv, TypeOK
  <2>3. /\ rows[o].rev = 1 /\ rows[n].family = rows[o].family
        /\ rows' = [rows EXCEPT ![o] = [family |-> rows[o].family, used_at |-> TRUE,
                                        replaced_by |-> n, rev |-> 2]]
    BY <1>1 DEF MarkBy
  <2> HIDE DEF o, n, f
  <2> QED
    BY <1>1, <2>1, <2>2, <2>3, MarkRows
<1>3. \A g \in Token : n \notin Live(g)
  BY <1>1, <1>2 DEF Live, Chain
<1>4. Session!Unseen(n)
  BY <1>1, <1>3, OnlyLiveIsCurrent DEF Session!Unseen, UnusedRow
<1>5. current' = [current EXCEPT ![f] = n] /\ current[f] = o
  BY <1>1, <1>2, CurrentToken
<1>6. retired' = retired \cup {o}
  BY <1>1, <1>2 DEF UsedRow
<1>7. \A g \in Token : g # f => PhaseOf(g)' = PhaseOf(g)
  BY <1>1, <1>2 DEF PhaseOf
<1>8. /\ PhaseOf(f) \in {"open", "closing"}
      /\ PhaseOf(f) = "open" => PhaseOf(f)' = "open"
      /\ PhaseOf(f) = "closing" => PhaseOf(f)' \in {"closing", "closed"}
  BY <1>1, <1>2 DEF PhaseOf, Rooted
<1>9. phase' \in {phase, [phase EXCEPT ![f] = IF @ = "closing" THEN "closed" ELSE @]}
  <2>1. CASE PhaseOf(f)' = PhaseOf(f)
    BY <1>7, <2>1
  <2>2. CASE PhaseOf(f) = "closing" /\ PhaseOf(f)' = "closed"
    BY <1>1, <1>7, <2>2
  <2> QED
    BY <1>8, <2>1, <2>2
<1>10. Session!Rotate(f, n)
  BY <1>1, <1>4, <1>5, <1>6, <1>8, <1>9 DEF Session!Rotate
<1> QED
  BY <1>1, <1>10 DEF Session!SessionNext

\* A marker that is set revokes a session, the first time.
LEMMA RevokeIsPromised ==
  ASSUME NEW w, RevokeBy(w), \A f \in Token : Rotating(f)' <=> Rotating(f)
  PROVE  [Session!SessionNext]_(Session!sessionVars)
<1>1. w.family \in Token /\ Rooted(w.family) /\ UNCHANGED rows
      /\ revoked' = revoked \cup {w.family}
  BY DEF RevokeBy
<1>2. \A f \in Token : f # w.family => PhaseOf(f)' = PhaseOf(f)
  BY <1>1 DEF PhaseOf
<1>3. \/ PhaseOf(w.family)' = PhaseOf(w.family)
      \/ PhaseOf(w.family) = "open" /\ PhaseOf(w.family)' \in {"closing", "closed"}
  BY <1>1 DEF PhaseOf, Rooted
<1> QED
  BY <1>1, <1>2, <1>3, PhaseStep

LEMMA WriteIsPromised ==
  ASSUME IInv, SessionInv, IInv', NEW w, PutBy(w) \/ MarkBy(w) \/ RevokeBy(w),
         w.op = "update" => Rotating(w.family),
         \A f \in Token : (w.op = "update" => w.family # f) => (Rotating(f)' <=> Rotating(f))
  PROVE  [Session!SessionNext]_(Session!sessionVars)
<1>1. CASE PutBy(w)
  <2>1. w.op # "update"
    BY <1>1 DEF PutBy
  <2> QED
    BY <1>1, <2>1, PutIsPromised
<1>2. CASE MarkBy(w)
  BY <1>2, MarkIsPromised DEF MarkBy
<1>3. CASE RevokeBy(w)
  <2>1. w.op # "update"
    BY <1>3 DEF RevokeBy
  <2> QED
    BY <1>3, <2>1, RevokeIsPromised
<1> QED
  BY <1>1, <1>2, <1>3

LEMMA StepIsPromised ==
  ASSUME IInv, SessionInv, IInv', [Next]_vars, spent'["read"] = 0
  PROVE  [Session!SessionNext]_(Session!sessionVars)
<1>1. CASE UNCHANGED vars
  <2>1. \A f \in Token : CurrentOf(f)' = CurrentOf(f) /\ PhaseOf(f)' = PhaseOf(f)
    BY <1>1 DEF vars, CurrentOf, Live, Chain, OnChain, Stored, PhaseOf, Rotating, Accepted
  <2> QED
    BY <1>1, <2>1, SameSessions DEF vars
<1>2. ASSUME NEW r \in Request, Calm(r) PROVE [Session!SessionNext]_(Session!sessionVars)
  BY <1>2, CalmIsPromised
<1>3. ASSUME NEW r \in Request, NEW w \in Pending(r), Writes(r, w)
      PROVE  [Session!SessionNext]_(Session!sessionVars)
  <2>1. PutBy(w) \/ MarkBy(w) \/ RevokeBy(w)
    BY <1>3, WriteShapes DEF Writes, UnderWay
  <2>2. w.op = "update" => w.family \in Token
    BY <2>1, DeliveredRooted DEF PutBy, MarkBy, RevokeBy
  <2> QED
    BY <1>3, <2>1, <2>2, WriteRotations, WriteIsPromised
<1>4. ASSUME NEW w \in late, Arrives(w) PROVE [Session!SessionNext]_(Session!sessionVars)
  <2>1. CASE Accepted(w) /\ Apply(w)
    <3>1. PutBy(w) \/ MarkBy(w) \/ RevokeBy(w)
      BY <2>1, WriteShapes DEF UnderWay
    <3>2. w.op = "update" => Rotating(w.family)
      BY <2>1 DEF Rotating
    <3> QED
      BY <1>4, <3>1, <3>2, ArrivalRotations, WriteIsPromised
  <2>2. CASE ~Accepted(w) /\ UNCHANGED <<rows, revoked>>
    <3>1. \A f \in Token : CurrentOf(f)' = CurrentOf(f) /\ PhaseOf(f)' = PhaseOf(f)
      BY <1>4, <2>2, ArrivalRotations DEF CurrentOf, Live, Chain, OnChain, Stored, PhaseOf
    <3> QED
      BY <2>2, <3>1, SameSessions
  <2> QED
    BY <1>4, <2>1, <2>2 DEF Arrives
<1> QED
  BY <1>1, <1>2, <1>3, <1>4, StepKinds

LEMMA InitIsPromised == Init => Session!SessionInit
<1> SUFFICES ASSUME Init PROVE Session!SessionInit
  OBVIOUS
<1>1. \A t \in Token : ~Stored(t) /\ ~rows[t].used_at /\ rows[t].family # t
  <2>1. \A t \in Token : rows[t] = NoRow
    BY DEF Init, StoreInit
  <2>2. ~(NoRow.rev > 0) /\ ~NoRow.used_at /\ \A t \in Token : NoRow.family # t
    BY NoneAssumption DEF NoRow
  <2> QED
    BY <2>1, <2>2 DEF Stored
<1>2. \A f \in Token : CurrentOf(f) = None /\ PhaseOf(f) = "unopened"
  BY <1>1 DEF CurrentOf, Live, Chain, OnChain, PhaseOf
<1> QED
  BY <1>1, <1>2 DEF Session!SessionInit

\* The handlers and the store implement the sessions of SessionFamily, in every behaviour
\* where no read of the store fails: whatever overlaps, is lost or arrives late, a step
\* opens, rotates, revokes or closes one session, or changes nothing of them.
THEOREM SessionsArePromised == Spec /\ [](spent["read"] = 0) => SessionsAsPromised
<1>1. Init => Session!SessionInit
  BY InitIsPromised
<1>2. IInv /\ IInv' /\ SessionInv /\ [Next]_vars /\ (spent["read"] = 0)'
        => [Session!SessionNext]_(Session!sessionVars)
  BY StepIsPromised
<1> QED
  BY <1>1, <1>2, InvariantHolds, SessionsInvariant, PTL
  DEF Spec, SessionsAsPromised, Session!SessionSpec


-----------------------------------------------------------------------------
(* Nothing is lost.                                                        *)

\* A write that fails and a handler that vanishes are never forgotten.
LEMMA LossCounts == TypeOK /\ [Next]_vars /\ NothingLost' => NothingLost
<1> SUFFICES ASSUME TypeOK, [Next]_vars, NothingLost' PROVE NothingLost
  OBVIOUS
<1>1. spent \in [Bound -> Nat] /\ {"write", "abort"} \subseteq Bound
  BY DEF TypeOK, Bound
<1>2. ASSUME NEW x \in Bound, NEW max, Spend(x, max) PROVE NothingLost
  BY <1>1, <1>2 DEF Spend, NothingLost
<1>3. CASE UNCHANGED spent
  BY <1>3 DEF NothingLost
<1>4. {"read", "write", "abort", "replay"} \subseteq Bound
  BY DEF Bound
<1> QED
  BY <1>2, <1>3, <1>4 DEF Next, vars, Serve, Login, PresentCookie, PresentBody, PresentNothing,
     Find, IsFamilyRevoked, StoreNew, MarkUsed, RevokeFamily, Respond, Abort, Arrive

LEMMA NoLoss ==
  ASSUME TypeOK, NothingLost', NEW max
  PROVE  ~Spend("write", max) /\ ~Spend("abort", max)
BY DEF TypeOK, Bound, Spend, NothingLost

\* The steps of a handler whose write was applied, or refused for its revision.
StoreDone(r) ==
  /\ pc[r] = "store" /\ Succeeds(StoreWrite(new[r], FamilyOf(r)))
  /\ IF job[r].kind = "token" THEN AnswerWith(r, "opened") ELSE GoTo(r, "mark_used")
  /\ UNCHANGED <<job, seen, new, jar, delivered>>

MarkDone(r) ==
  /\ pc[r] = "mark_used" /\ Succeeds(MarkUsedWrite(job[r].tok, seen[r], new[r]))
  /\ AnswerWith(r, "rotated")
  /\ UNCHANGED <<job, seen, new, jar, delivered>>

MarkRefused(r) ==
  /\ pc[r] = "mark_used" /\ Conflicts(MarkUsedWrite(job[r].tok, seen[r], new[r]))
  /\ GoTo(r, "revoke")
  /\ UNCHANGED <<job, seen, new, jar, delivered>>

RevokeDone(r) ==
  /\ pc[r] = "revoke" /\ Succeeds(RevokeWrite(seen[r].family))
  /\ AnswerWith(r, IF job[r].kind = "logout" THEN "logged_out" ELSE "reuse")
  /\ UNCHANGED <<job, seen, new, jar, delivered>>

Comes(r, b) ==
  \/ Login(r, b) \/ PresentBody(r, b)
  \/ \E k \in Kind : PresentCookie(r, b, k) \/ PresentNothing(r, b, k)

ServesWell(r) ==
  \/ Find(r) \/ IsFamilyRevoked(r) \/ StoreDone(r) \/ MarkDone(r) \/ MarkRefused(r)
  \/ RevokeDone(r)

\* When nothing is lost, each write is answered as it went, and none is on its way.
LEMMA Lossless ==
  ASSUME IInv, Next, NothingLost', late = {}
  PROVE  /\ late' = {}
         /\ \/ \E r \in Request, b \in Browser : Comes(r, b)
            \/ \E r \in Request : ServesWell(r) \/ Respond(r)
<1>1. ~Arrive
  BY DEF Arrive, LateArrival
<1>2. ASSUME NEW r \in Request, NEW b \in Browser, Comes(r, b) PROVE UNCHANGED late
  BY <1>2 DEF Comes, Login, PresentBody, PresentCookie, PresentNothing, Accept
<1>3. ASSUME NEW r \in Request, Serve(r) \/ Abort(r) PROVE ServesWell(r) \/ Respond(r)
  <2>1. ~Spend("write", MaxWriteFaults) /\ ~Spend("abort", MaxAborts)
    BY NoLoss DEF IInv
  <2>2. ~Abort(r)
    BY <2>1 DEF Abort
  <2>3. StoreNew(r) => StoreDone(r)
    BY <2>1 DEF StoreNew, StoreDone
  <2>4. MarkUsed(r) => MarkDone(r) \/ MarkRefused(r)
    BY <2>1 DEF MarkUsed, MarkDone, MarkRefused
  <2>5. RevokeFamily(r) => RevokeDone(r)
    BY <2>1 DEF RevokeFamily, RevokeDone
  <2> QED
    BY <1>3, <2>2, <2>3, <2>4, <2>5 DEF Serve, ServesWell
<1>4. ASSUME NEW r \in Request, ServesWell(r) \/ Respond(r) PROVE UNCHANGED late
  BY <1>4 DEF ServesWell, Respond, Find, IsFamilyRevoked, StoreDone, MarkDone, MarkRefused,
              RevokeDone, Succeeds, Conflicts, storeVars
<1>5. \/ \E r \in Request, b \in Browser : Comes(r, b)
      \/ \E r \in Request : ServesWell(r) \/ Respond(r)
  BY <1>1, <1>3 DEF Next, Comes
<1> QED
  BY <1>2, <1>4, <1>5

-----------------------------------------------------------------------------
(* What the steps of a handler write.                                      *)

\* A step of a handler moves that handler alone.
LEMMA Moves ==
  ASSUME IInv, NEW r \in Request, ServesWell(r)
  PROVE  /\ OnlyHandler(r) /\ pc[r] # "idle" /\ pc'[r] # "idle"
         /\ UNCHANGED <<job, jar, delivered>>
<1> USE DEF IInv, TypeOK, OnlyHandler, SameHandler, GoTo, AnswerWith
<1>1. CASE Find(r)
  BY <1>1 DEF Find
<1>2. CASE IsFamilyRevoked(r)
  BY <1>2 DEF IsFamilyRevoked, Rotate
<1>3. CASE StoreDone(r)
  BY <1>3 DEF StoreDone
<1>4. CASE MarkDone(r) \/ MarkRefused(r) \/ RevokeDone(r)
  BY <1>4 DEF MarkDone, MarkRefused, RevokeDone
<1> QED
  BY <1>1, <1>2, <1>3, <1>4 DEF ServesWell

\* store puts a row under the key of its own new token.
LEMMA StoreWrites ==
  ASSUME IInv, NEW r \in Request, StoreDone(r)
  PROVE  /\ UNCHANGED revoked /\ new[r] \in Token /\ rows[new[r]] = NoRow
         /\ rows'[new[r]].family = FamilyOf(r)
         /\ \A t \in Token : t # new[r] => rows'[t] = rows[t]
         /\ job[r].kind # "token" => HasRow(r)
<1> DEFINE w == StoreWrite(new[r], FamilyOf(r))
<1>1. /\ new[r] \in Token /\ ~Stored(new[r])
      /\ job[r].kind # "token" => HasRow(r)
  BY DEF StoreDone, IInv, HandlerInv
<1>2. rows[new[r]] = NoRow
  BY <1>1 DEF IInv, RowsInv, RowOK, UnusedRow, UsedRow, Stored
<1>3. w.op = "put" /\ w.id = new[r] /\ w.family = FamilyOf(r)
  BY DEF StoreWrite
<1>4. rows' = [rows EXCEPT ![new[r]] = Written(w)] /\ UNCHANGED revoked
  BY <1>3 DEF StoreDone, Succeeds, Apply
<1>5. Written(w).family = FamilyOf(r)
  BY <1>3 DEF Written
<1> QED
  BY <1>1, <1>2, <1>4, <1>5 DEF IInv, TypeOK, StoreTypeOK

\* mark_used writes the row of the token it was given.
LEMMA MarkWrites ==
  ASSUME IInv, NEW r \in Request, MarkDone(r)
  PROVE  /\ UNCHANGED revoked /\ HasRow(r)
         /\ rows'[job[r].tok].family = rows[job[r].tok].family
         /\ \A t \in Token : t # job[r].tok => rows'[t] = rows[t]
<1> DEFINE w == MarkUsedWrite(job[r].tok, seen[r], new[r])
<1>1. HasRow(r) /\ job[r].tok \in Token
  BY DEF MarkDone, IInv, HandlerInv, HasRow, TypeOK
<1>2. w.op = "update" /\ w.id = job[r].tok /\ w.family = seen[r].family
  BY DEF MarkUsedWrite
<1>3. rows' = [rows EXCEPT ![job[r].tok] = Written(w)] /\ UNCHANGED revoked
  BY <1>2 DEF MarkDone, Succeeds, Apply
<1>4. Written(w).family = seen[r].family
  BY <1>2 DEF Written
<1> QED
  BY <1>1, <1>3, <1>4 DEF IInv, TypeOK, StoreTypeOK, HasRow

\* revoke_family sets the marker of the family of the token it was given.
LEMMA RevokeWrites ==
  ASSUME IInv, NEW r \in Request, RevokeDone(r)
  PROVE  /\ UNCHANGED rows /\ HasRow(r)
         /\ revoked' = revoked \cup {rows[job[r].tok].family}
<1>1. HasRow(r)
  BY DEF RevokeDone, IInv, HandlerInv
<1>2. /\ RevokeWrite(seen[r].family).op = "revoke"
      /\ RevokeWrite(seen[r].family).family = seen[r].family
  BY DEF RevokeWrite
<1> QED
  BY <1>1, <1>2 DEF RevokeDone, Succeeds, Apply, HasRow

\* The other steps leave the store alone.
LEMMA OthersRead ==
  ASSUME NEW r \in Request, Find(r) \/ IsFamilyRevoked(r) \/ MarkRefused(r) \/ Respond(r)
  PROVE  UNCHANGED <<rows, revoked>>
BY DEF Find, IsFamilyRevoked, MarkRefused, Respond, Conflicts, storeVars

-----------------------------------------------------------------------------
(* Tokens that requests carry, and families that logins opened.            *)

\* What a request carries when it arrives.
LEMMA Carries ==
  ASSUME IInv, NEW r \in Request, NEW c \in Browser, Comes(r, c)
  PROVE  /\ UNCHANGED <<rows, revoked, jar, delivered>> /\ OnlyHandler(r)
         /\ pc[r] = "idle" /\ pc'[r] # "idle" /\ job'[r].who = c /\ ans'[r] # "opened"
         /\ \/ job'[r].tok = None
            \/ /\ job'[r].tok = jar[c] /\ jar[c] # None /\ jar[c] \in delivered
               /\ job'[r].kind # "token" /\ pc'[r] = "find" /\ ans'[r] = "none"
            \/ job'[r].tok \in delivered /\ job'[r].tok \notin {None, jar[c]}
<1>1. OnlyHandler(r)
  BY ArrivalKinds DEF Calm, Comes
<1>2. /\ pc[r] = "idle" /\ ans[r] = "none" /\ (jar[c] # None => jar[c] \in delivered)
      /\ \A t \in delivered : t # None
  BY NoneAssumption DEF Comes, Login, PresentBody, PresentCookie, PresentNothing, Accept,
     IInv, TypeOK, HandlerInv, JarInv
<1>3. UNCHANGED <<rows, revoked, jar, delivered>>
  BY DEF Comes, Login, PresentBody, PresentCookie, PresentNothing, Accept
<1> USE DEF Accept, GoTo, AnswerWith, IInv, TypeOK
<1>4. ASSUME Login(r, c)
      PROVE  job'[r].tok = None /\ pc'[r] = "store" /\ ans'[r] = ans[r] /\ job'[r].who = c
  BY <1>4 DEF Login
<1>5. ASSUME PresentBody(r, c)
      PROVE  /\ job'[r].tok \in delivered \ {jar[c]} /\ job'[r].who = c
             /\ pc'[r] = "find" /\ ans'[r] = ans[r]
  BY <1>5 DEF PresentBody
<1>6. ASSUME NEW k \in Kind, PresentCookie(r, c, k)
      PROVE  /\ job'[r].tok = jar[c] /\ jar[c] # None /\ job'[r].kind # "token"
             /\ pc'[r] = "find" /\ ans'[r] = ans[r] /\ job'[r].who = c
  BY <1>6 DEF PresentCookie
<1>7. ASSUME NEW k \in Kind, PresentNothing(r, c, k)
      PROVE  job'[r].tok = None /\ pc'[r] = "answer" /\ ans'[r] # "opened" /\ job'[r].who = c
  BY <1>7 DEF PresentNothing
<1> QED
  BY <1>1, <1>2, <1>3, <1>4, <1>5, <1>6, <1>7 DEF Comes

LEMMA Forgets ==
  ASSUME IInv, NEW r \in Request, Respond(r)
  PROVE  /\ OnlyHandler(r) /\ pc[r] = "answer" /\ pc'[r] = "idle"
         /\ UNCHANGED <<rows, revoked>> /\ delivered \subseteq delivered'
         /\ \A c \in Browser \ {job[r].who} : jar'[c] = jar[c]
BY DEF Respond, Forget, IInv, TypeOK, OnlyHandler, SameHandler

LEMMA TokensStay ==
  ASSUME IInv, Next, NothingLost', late = {}, TokInv
  PROVE  TokInv'
<1>1. ASSUME NEW r \in Request, NEW b \in Browser, Comes(r, b) PROVE TokInv'
  BY <1>1, Carries DEF TokInv, OnlyHandler, SameHandler
<1>2. ASSUME NEW r \in Request, ServesWell(r) PROVE TokInv'
  BY <1>2, Moves DEF TokInv, OnlyHandler, SameHandler
<1>3. ASSUME NEW r \in Request, Respond(r) PROVE TokInv'
  BY <1>3, Forgets DEF TokInv, OnlyHandler, SameHandler
<1> QED
  BY <1>1, <1>2, <1>3, Lossless

\* No token of a family that a login has just opened was handed out.
LEMMA OpenedApart ==
  ASSUME IInv, OpenedInv, NEW q \in Request, pc[q] = "answer", ans[q] = "opened",
         NEW t \in delivered
  PROVE  rows[t].family # new[q] /\ new[q] \in Token
<1>1. new[q] \in Token /\ t \in Token
  BY DEF IInv, HandlerInv, TypeOK
<1>2. new[q] \notin delivered
  BY <1>1, NoneAssumption DEF IInv, NewInv
<1> QED
  BY <1>1, <1>2 DEF OpenedInv

LEMMA OpenedStays ==
  ASSUME IInv, SessionInv, Next, NothingLost', late = {}, OpenedInv
  PROVE  OpenedInv'
<1> DEFINE Kept(q) == /\ new[q] \notin revoked'
                      /\ \A t \in Token : rows'[t].family = new[q] => t = new[q]
<1>1. ASSUME NEW r \in Request, OnlyHandler(r), UNCHANGED <<rows, revoked>>,
             pc'[r] # "answer" \/ ans'[r] # "opened"
      PROVE  OpenedInv'
  BY <1>1 DEF OpenedInv, OnlyHandler, SameHandler
<1>2. ASSUME NEW r \in Request, NEW b \in Browser, Comes(r, b) PROVE OpenedInv'
  BY <1>1, <1>2, Carries
<1>3. ASSUME NEW r \in Request, Find(r) \/ IsFamilyRevoked(r) \/ MarkRefused(r) \/ Respond(r)
      PROVE  OpenedInv'
  <2>1. pc'[r] # "answer" \/ ans'[r] # "opened"
    BY <1>3 DEF Find, IsFamilyRevoked, Rotate, MarkRefused, Respond, Forget, GoTo, AnswerWith,
       IInv, TypeOK
  <2> QED
    BY <1>1, <1>3, <2>1, Moves, Forgets, OthersRead DEF ServesWell
<1>4. ASSUME NEW r \in Request, StoreDone(r) PROVE OpenedInv'
  <2>1. OnlyHandler(r) /\ UNCHANGED <<revoked, new>>
    BY <1>4, Moves, StoreWrites DEF ServesWell, StoreDone
  <2>2. ASSUME NEW q \in Request, q # r, pc[q] = "answer", ans[q] = "opened" PROVE Kept(q)
    <3>1. new[q] \notin revoked /\ \A t \in Token : rows[t].family = new[q] => t = new[q]
      BY <2>2 DEF OpenedInv
    <3>2. new[r] \in Token /\ new[r] # new[q]
      BY <1>4, <2>2, StoreWrites, NoneAssumption DEF IInv, NewInv
    <3>3. FamilyOf(r) # new[q]
      BY <1>4, <2>2, <3>2, StoreWrites, OpenedApart DEF FamilyOf, HasRow
    <3> QED
      BY <1>4, <2>1, <3>1, <3>3, StoreWrites
  <2>3. ASSUME job[r].kind = "token" PROVE Kept(r)
    <3>1. rows[new[r]].family # new[r] /\ new[r] \in Token
      BY <1>4, StoreWrites, NoneAssumption DEF NoRow
    <3>2. new[r] \notin revoked
      BY <3>1 DEF SessionInv, RevokedInv, Rooted
    <3>3. ASSUME NEW t \in Token, t # new[r] PROVE rows'[t].family # new[r]
      <4>1. rows'[t] = rows[t]
        BY <1>4, <3>3, StoreWrites
      <4>2. Stored(t) => Rooted(rows[t].family)
        BY DEF IInv, RowsInv
      <4>3. ~Stored(t) => rows[t] = NoRow
        BY DEF IInv, RowsInv, RowOK, UnusedRow, UsedRow, Stored
      <4> QED
        BY <3>1, <4>1, <4>2, <4>3, NoneAssumption DEF Rooted, NoRow
    <3> QED
      BY <2>1, <3>2, <3>3
  <2>4. job[r].kind # "token" => pc'[r] # "answer"
    BY <1>4 DEF StoreDone, GoTo, IInv, TypeOK
  <2> QED
    BY <2>1, <2>2, <2>3, <2>4 DEF OpenedInv, OnlyHandler, SameHandler
<1>5. ASSUME NEW r \in Request, MarkDone(r) PROVE OpenedInv'
  <2>1. /\ \A t \in Token : rows'[t].family = rows[t].family
        /\ OnlyHandler(r) /\ UNCHANGED <<revoked, new>>
    BY <1>5, Moves, MarkWrites DEF ServesWell, MarkDone
  <2>2. ans'[r] # "opened"
    BY <1>5 DEF MarkDone, AnswerWith, IInv, TypeOK
  <2> QED
    BY <2>1, <2>2 DEF OpenedInv, OnlyHandler, SameHandler
<1>6. ASSUME NEW r \in Request, RevokeDone(r) PROVE OpenedInv'
  <2>1. OnlyHandler(r) /\ UNCHANGED <<rows, new>>
    BY <1>6, Moves, RevokeWrites DEF ServesWell, RevokeDone
  <2>2. ans'[r] # "opened"
    BY <1>6 DEF RevokeDone, AnswerWith, IInv, TypeOK
  <2>3. ASSUME NEW q \in Request, pc[q] = "answer", ans[q] = "opened"
        PROVE  new[q] \notin revoked'
    BY <1>6, <2>3, RevokeWrites, OpenedApart DEF HasRow, OpenedInv
  <2> QED
    BY <2>1, <2>2, <2>3 DEF OpenedInv, OnlyHandler, SameHandler
<1> QED
  BY <1>2, <1>3, <1>4, <1>5, <1>6, Lossless DEF ServesWell

-----------------------------------------------------------------------------
(* Careful browsers stay apart from the others.                            *)

\* A step of handler r that keeps the browser's cookie keeps others out of its session,
\* if it brings none in.
LEMMA ApartStays ==
  ASSUME IInv, TokInv, NEW b \in Browser, Apart(b), jar'[b] = jar[b],
         \A t \in delivered : rows'[t].family = rows[t].family,
         NEW r \in Request, OnlyHandler(r),
         \A c \in Browser \ {b} : jar'[c] \notin {None, jar[c]} /\ jar[b] # None
                                    => rows'[jar'[c]].family # SessionOf(b),
         pc'[r] # "idle" /\ job'[r].who # b /\ job'[r].tok # None /\ jar[b] # None =>
           \/ pc[r] # "idle" /\ job'[r] = job[r]
           \/ job'[r].tok \in delivered /\ rows[job'[r].tok].family # SessionOf(b)
  PROVE  Apart(b)'
<1> SUFFICES ASSUME jar[b] # None PROVE Apart(b)'
  BY DEF Apart
<1>1. jar[b] \in delivered /\ SessionOf(b)' = SessionOf(b)
  BY DEF IInv, JarInv, SessionOf
<1>2. ASSUME NEW c \in Browser \ {b}, jar'[c] # None PROVE SessionOf(c)' # SessionOf(b)
  <2>1. CASE jar'[c] = jar[c]
    BY <1>2, <2>1 DEF IInv, JarInv, Apart, SessionOf
  <2>2. CASE jar'[c] # jar[c]
    BY <1>2, <2>2 DEF SessionOf
  <2> QED
    BY <2>1, <2>2
<1>3. ASSUME NEW q \in Request, pc[q] # "idle", job[q].who # b, job[q].tok # None
      PROVE  /\ job[q].tok \in delivered /\ rows[job[q].tok].family # SessionOf(b)
             /\ rows'[job[q].tok].family = rows[job[q].tok].family
  BY <1>3 DEF TokInv, Apart
<1>4. ASSUME NEW q \in Request, pc'[q] # "idle", job'[q].who # b, job'[q].tok # None
      PROVE  rows'[job'[q].tok].family # SessionOf(b)
  <2>1. CASE q # r
    BY <1>3, <1>4, <2>1 DEF OnlyHandler, SameHandler
  <2>2. CASE q = r
    BY <1>3, <1>4, <2>2
  <2> QED
    BY <2>1, <2>2
<1> QED
  BY <1>1, <1>2, <1>4 DEF Apart

\* A step of a handler that is not the browser's, and does not touch the row of its
\* cookie nor revoke its session.
LEMMA StrangerStays ==
  ASSUME NEW b \in Browser, CarefulInv(b), NEW r \in Request, OnlyHandler(r),
         r \notin OpenOf(b), r \notin OpenOf(b)', jar'[b] = jar[b],
         jar[b] # None => /\ rows'[jar[b]] = rows[jar[b]]
                          /\ SessionOf(b) \in revoked' => SessionOf(b) \in revoked,
         Apart(b)'
  PROVE  CarefulInv(b)'
<1>1. OpenOf(b)' = OpenOf(b) /\ \A q \in OpenOf(b) : SameHandler(q)
  BY DEF OpenOf, OnlyHandler, SameHandler
<1>2. jar[b] # None => SessionOf(b)' = SessionOf(b)
  BY DEF SessionOf
<1>3. Usable(b) => Usable(b)'
  BY <1>2 DEF Usable
<1>4. ASSUME NEW q \in OpenOf(b) PROVE Served(b, q)'
  <2>1. Served(b, q)
    BY DEF CarefulInv
  <2>2. jar[b] # None /\ Rotates(b, q) => Rotates(b, q)'
    BY <1>1, <1>2 DEF Rotates, SameHandler
  <2> QED
    BY <1>1, <1>3, <2>1, <2>2 DEF Served, SameHandler
<1> QED
  BY <1>1, <1>3, <1>4 DEF CarefulInv

\* A step of the browser's own handler, which goes on.
LEMMA OwnStays ==
  ASSUME NEW b \in Browser, CarefulInv(b), NEW r \in Request, OnlyHandler(r),
         r \in OpenOf(b), pc'[r] # "idle", job'[r] = job[r], Served(b, r)', Apart(b)'
  PROVE  CarefulInv(b)'
<1>1. OpenOf(b)' = OpenOf(b)
  BY DEF OpenOf, OnlyHandler, SameHandler
<1>2. \A q \in OpenOf(b) : q = r
  BY DEF CarefulInv
<1> QED
  BY <1>1, <1>2 DEF CarefulInv

\* A request arrives: of the browser, which then has no other one and sent its cookie, or
\* of another one, which then sent no token of the browser's session.
LEMMA ArrivalsKeepCareful ==
  ASSUME IInv, TokInv, Watch, NEW r \in Request, NEW c \in Browser, Comes(r, c),
         NEW b \in careful', b \in Browser, CarefulInv(b)
  PROVE  CarefulInv(b)'
<1>1. /\ UNCHANGED <<rows, revoked, jar, delivered>> /\ OnlyHandler(r)
      /\ pc[r] = "idle" /\ pc'[r] # "idle" /\ job'[r].who = c
  BY Carries
<1>2. ~Replayed(b) /\ \A p, q \in OpenOf(b)' : p = q
  BY DEF Watch
<1>3. job'[r].tok \notin {None, jar[c]} =>
        c # b /\ (jar[b] # None => rows[job'[r].tok].family # SessionOf(b))
  BY <1>1, <1>2 DEF Replayed
<1>4. Apart(b)'
  <2>1. job'[r].who # b /\ job'[r].tok # None /\ jar[b] # None =>
          job'[r].tok \in delivered /\ rows[job'[r].tok].family # SessionOf(b)
    BY <1>1, <1>3, Carries DEF CarefulInv, Apart, SessionOf
  <2> QED
    BY <1>1, <2>1, ApartStays DEF CarefulInv
<1>5. CASE c # b
  <2>1. r \notin OpenOf(b) /\ r \notin OpenOf(b)'
    BY <1>1, <1>5 DEF OpenOf
  <2> QED
    BY <1>1, <1>4, <2>1, StrangerStays
<1>6. CASE c = b
  <2>1. r \in OpenOf(b)' /\ OpenOf(b)' = OpenOf(b) \cup {r} /\ r \notin OpenOf(b)
    BY <1>1, <1>6 DEF OpenOf, OnlyHandler, SameHandler
  <2>2. OpenOf(b) = {} /\ OpenOf(b)' = {r}
    BY <1>2, <2>1
  <2>3. Usable(b) /\ Usable(b)'
    BY <1>1, <2>2 DEF CarefulInv, Usable, SessionOf
  <2>4. CASE job'[r].tok = None
    BY <1>2, <1>4, <2>2, <2>3, <2>4 DEF CarefulInv, Served
  <2>5. CASE /\ job'[r].tok = jar[b] /\ jar[b] # None
             /\ job'[r].kind # "token" /\ pc'[r] = "find" /\ ans'[r] = "none"
    <3>1. Rotates(b, r)'
      BY <1>1, <2>3, <2>5 DEF Usable, Rotates, SessionOf
    <3>2. job'[r].kind \in {"logout", "refresh", "check"}
      BY <2>5 DEF Comes, Login, PresentBody, PresentCookie, PresentNothing, Accept, Kind,
                  IInv, TypeOK
    <3>3. Served(b, r)'
      BY <1>1, <2>5, <3>1, <3>2 DEF Served
    <3> QED
      BY <1>2, <1>4, <2>2, <3>3 DEF CarefulInv
  <2> QED
    BY <1>3, <1>6, <2>4, <2>5, Carries
<1> QED
  BY <1>5, <1>6

-----------------------------------------------------------------------------
(* Handlers keep careful browsers.                                         *)

\* The steps of others leave the row of the cookie alone, and its session open.
LEMMA OthersSpare ==
  ASSUME IInv, NEW r \in Request, ServesWell(r), NEW b \in Browser, Apart(b), jar[b] # None,
         job[r].who # b
  PROVE  /\ rows'[jar[b]] = rows[jar[b]]
         /\ SessionOf(b) \in revoked' => SessionOf(b) \in revoked
<1>1. jar[b] \in delivered /\ jar[b] \in Token /\ Stored(jar[b])
  BY DeliveredRooted DEF IInv, JarInv
<1>2. pc[r] # "idle" /\ (job[r].tok # None => rows[job[r].tok].family # SessionOf(b))
  BY Moves DEF Apart
<1>3. HasRow(r) => job[r].tok # jar[b] /\ rows[job[r].tok].family # SessionOf(b)
  BY <1>2, NoneAssumption DEF HasRow, IInv, TypeOK, SessionOf
<1>4. CASE Find(r) \/ IsFamilyRevoked(r) \/ MarkRefused(r)
  BY <1>4, OthersRead
<1>5. CASE StoreDone(r)
  <2>1. jar[b] # new[r]
    BY <1>1, <1>5, StoreWrites DEF Stored, NoRow
  <2> QED
    BY <1>1, <1>5, <2>1, StoreWrites
<1>6. CASE MarkDone(r)
  BY <1>1, <1>3, <1>6, MarkWrites
<1>7. CASE RevokeDone(r)
  BY <1>3, <1>7, RevokeWrites
<1> QED
  BY <1>4, <1>5, <1>6, <1>7 DEF ServesWell

\* What a careful browser's rotation reads is its live cookie, so that no await of it takes
\* the branch of a replay.
LEMMA OwnReads ==
  ASSUME IInv, LogoutInv, NEW b \in Browser, NEW r \in Request, r \in OpenOf(b), Served(b, r),
         Find(r) \/ IsFamilyRevoked(r) \/ MarkRefused(r)
  PROVE  Served(b, r)'
<1>1. /\ UNCHANGED <<rows, revoked, jar, job, delivered>> /\ UNCHANGED SessionOf(b)
      /\ Usable(b) => Usable(b)'
  BY OthersRead, Moves DEF ServesWell, SessionOf, Usable
<1>2. pc[r] \in {"find", "is_revoked", "mark_used"} /\ ans[r] = "none"
  BY DEF Find, IsFamilyRevoked, MarkRefused, IInv, HandlerInv
<1>3. job[r].tok \in delivered /\ job[r].tok # None /\ job[r].kind # "token"
  BY <1>2, NoneAssumption DEF IInv, HandlerInv, HasRow, TypeOK
<1>4. job[r].tok = jar[b] /\ jar[b] # None
  BY <1>3 DEF Served
<1>5. CASE job[r].kind = "logout"
  <2>1. Find(r)
    BY <1>5 DEF LogoutInv, IsFamilyRevoked, MarkRefused
  <2>2. ans'[r] \in {"none", "logged_out"}
    BY <1>2, <1>5, <2>1 DEF Find, GoTo, AnswerWith, IInv, TypeOK
  <2> QED
    BY <1>1, <1>4, <1>5, <2>2 DEF Served
<1>6. CASE job[r].kind \in {"refresh", "check"}
  <2>1. Rotates(b, r)
    BY <1>3, <1>6 DEF Served
  <2>2. /\ SessionOf(b) \notin revoked /\ ~rows[jar[b]].used_at
        /\ pc[r] # "find" => seen[r] = rows[jar[b]]
    BY <1>2, <2>1 DEF Rotates
  <2>3. CASE Find(r)
    <3>1. Stored(job[r].tok)
      BY <1>3, DeliveredRooted
    <3>2. \/ pc'[r] = "answer" /\ ans'[r] = "find_failed"
          \/ pc'[r] = "is_revoked" /\ seen'[r] = rows[jar[b]]
      BY <1>4, <1>6, <2>3, <3>1 DEF Find, GoTo, AnswerWith, IInv, TypeOK
    <3> QED
      BY <1>1, <1>4, <1>6, <2>2, <3>2 DEF Served, Rotates
  <2>4. CASE IsFamilyRevoked(r)
    <3>1. seen[r].family \notin revoked /\ ~seen[r].used_at
      BY <2>2, <2>4 DEF IsFamilyRevoked, SessionOf
    <3>2. pc'[r] = "store" /\ seen'[r] = rows[jar[b]]
      BY <2>2, <2>4, <3>1 DEF IsFamilyRevoked, Rotate, GoTo, IInv, TypeOK
    <3> QED
      BY <1>1, <1>4, <1>6, <2>2, <3>2 DEF Served, Rotates
  <2>5. ~MarkRefused(r)
    BY <1>4, <2>2 DEF MarkRefused, Conflicts, Accepted, MarkUsedWrite
  <2> QED
    BY <2>3, <2>4, <2>5
<1> QED
  BY <1>3, <1>5, <1>6 DEF IInv, TypeOK, Kind

LEMMA OwnWrites ==
  ASSUME IInv, LogoutInv, NEW b \in Browser, NEW r \in Request, r \in OpenOf(b), Served(b, r),
         StoreDone(r) \/ MarkDone(r) \/ RevokeDone(r)
  PROVE  Served(b, r)'
<1>1. UNCHANGED <<job, jar, seen>>
  BY DEF StoreDone, MarkDone, RevokeDone
<1>2. HasRow(r) => /\ job[r].tok # None /\ job[r].kind # "token"
                   /\ job[r].tok = jar[b] /\ jar[b] # None /\ jar[b] \in Token
  BY NoneAssumption DEF Served, HasRow, IInv, TypeOK
<1>3. pc[r] # "revoke" => job[r].kind # "logout"
  BY DEF LogoutInv, StoreDone, MarkDone, RevokeDone
<1>4. jar[b] # None => jar[b] \in Token /\ Stored(jar[b])
  BY DeliveredRooted DEF IInv, JarInv
<1>5. CASE StoreDone(r)
  <2>1. /\ UNCHANGED revoked
        /\ jar[b] # None => rows'[jar[b]] = rows[jar[b]]
    BY <1>4, <1>5, StoreWrites DEF Stored, NoRow
  <2>2. (Usable(b) => Usable(b)') /\ (jar[b] # None => SessionOf(b)' = SessionOf(b))
    BY <1>1, <2>1 DEF Usable, SessionOf
  <2>3. CASE job[r].kind = "token"
    BY <1>1, <2>2, <2>3 DEF Served
  <2>4. CASE job[r].kind # "token"
    <3>1. HasRow(r) /\ job[r].kind \in {"refresh", "check"}
      BY <1>3, <1>5, <2>4, StoreWrites DEF StoreDone, IInv, TypeOK, Kind
    <3>2. Rotates(b, r) /\ pc[r] = "store"
      BY <1>2, <1>5, <3>1 DEF Served, StoreDone
    <3>3. pc'[r] = "mark_used"
      BY <1>5, <2>4 DEF StoreDone, GoTo, IInv, TypeOK
    <3>4. Rotates(b, r)'
      BY <1>1, <1>2, <2>1, <2>2, <3>1, <3>2, <3>3 DEF Rotates
    <3> QED
      BY <1>1, <1>2, <3>1, <3>4 DEF Served
  <2> QED
    BY <2>3, <2>4
<1>6. CASE MarkDone(r)
  <2>1. HasRow(r) /\ UNCHANGED revoked /\ rows'[jar[b]].family = rows[jar[b]].family
    BY <1>2, <1>6, MarkWrites
  <2>2. job[r].kind \in {"refresh", "check"} /\ Rotates(b, r) /\ pc[r] = "mark_used"
    BY <1>2, <1>3, <1>6, <2>1 DEF Served, MarkDone
  <2>3. pc'[r] = "answer" /\ ans'[r] = "rotated"
    BY <1>6 DEF MarkDone, AnswerWith, IInv, TypeOK
  <2>4. Rotates(b, r)'
    BY <1>1, <1>2, <2>1, <2>2, <2>3 DEF Rotates, SessionOf, HasRow
  <2> QED
    BY <1>1, <1>2, <2>1, <2>2, <2>4 DEF Served
<1>7. CASE RevokeDone(r)
  <2>1. HasRow(r) /\ pc[r] = "revoke"
    BY <1>7, RevokeWrites DEF RevokeDone
  <2>2. job[r].kind = "logout"
    BY <1>2, <2>1 DEF Served, Rotates
  <2>3. ans'[r] = "logged_out"
    BY <1>7, <2>2 DEF RevokeDone, AnswerWith, IInv, TypeOK
  <2> QED
    BY <1>1, <1>2, <2>1, <2>2, <2>3 DEF Served
<1> QED
  BY <1>5, <1>6, <1>7

LEMMA ServesKeepCareful ==
  ASSUME IInv, SessionInv, LogoutInv, TokInv, [Next]_vars, NEW r \in Request, ServesWell(r),
         NEW b \in Browser, CarefulInv(b)
  PROVE  CarefulInv(b)'
<1>1. /\ OnlyHandler(r) /\ pc[r] # "idle" /\ pc'[r] # "idle"
      /\ UNCHANGED <<job, jar, delivered>>
  BY Moves
<1>2. Apart(b)'
  BY <1>1, ApartStays, MarkersLast DEF CarefulInv
<1>3. CASE job[r].who = b
  <2>1. r \in OpenOf(b) /\ Served(b, r)
    BY <1>1, <1>3 DEF OpenOf, CarefulInv
  <2>2. Served(b, r)'
    BY <2>1, OwnReads, OwnWrites DEF ServesWell
  <2> QED
    BY <1>1, <1>2, <2>1, <2>2, OwnStays
<1>4. CASE job[r].who # b
  <2>1. r \notin OpenOf(b) /\ r \notin OpenOf(b)'
    BY <1>1, <1>4 DEF OpenOf
  <2>2. jar[b] # None => /\ rows'[jar[b]] = rows[jar[b]]
                         /\ SessionOf(b) \in revoked' => SessionOf(b) \in revoked
    BY <1>4, OthersSpare DEF CarefulInv
  <2> QED
    BY <1>1, <1>2, <2>1, <2>2, StrangerStays
<1> QED
  BY <1>3, <1>4

-----------------------------------------------------------------------------
(* Answers keep careful browsers.                                          *)

\* The family of the token in an answer.
LEMMA AnswerFamily ==
  ASSUME IInv, OpenedInv, NEW r \in Request, pc[r] = "answer", SetsCookie(ans[r])
  PROVE  /\ new[r] \in Token /\ ~rows[new[r]].used_at
         /\ \/ /\ ans[r] = "opened" /\ rows[new[r]].family = new[r] /\ new[r] \notin revoked
               /\ job[r].kind = "token"
               /\ \A t \in delivered : rows[t].family # new[r]
            \/ /\ ans[r] = "rotated" /\ HasRow(r)
               /\ rows[new[r]].family = seen[r].family
<1>1. new[r] \in Token /\ ~rows[new[r]].used_at /\ rows[new[r]].family = FamilyOf(r)
  BY DEF IInv, HandedOutIsLive, Live, Chain
<1>2. CASE ans[r] = "opened"
  BY <1>1, <1>2, OpenedApart DEF IInv, HandlerInv, FamilyOf, OpenedInv
<1>3. CASE ans[r] = "rotated"
  BY <1>1, <1>3 DEF IInv, HandlerInv, FamilyOf, HasRow
<1> QED
  BY <1>1, <1>2, <1>3 DEF SetsCookie

LEMMA AnswersKeepCareful ==
  ASSUME IInv, OpenedInv, TokInv, NEW r \in Request, Respond(r),
         NEW b \in Browser, CarefulInv(b)
  PROVE  CarefulInv(b)'
<1>1. /\ OnlyHandler(r) /\ pc[r] = "answer" /\ pc'[r] = "idle"
      /\ UNCHANGED <<rows, revoked>>
      /\ \A c \in Browser \ {job[r].who} : jar'[c] = jar[c]
      /\ job[r].who \in Browser
  BY Forgets DEF IInv, HandlerInv
<1>2. jar'[job[r].who] = IF SetsCookie(ans[r]) THEN new[r]
                         ELSE IF ClearsCookie(job[r].kind, ans[r]) THEN None
                         ELSE jar[job[r].who]
  BY <1>1 DEF Respond, IInv, TypeOK
<1>3. CASE job[r].who # b
  <2>1. ASSUME SetsCookie(ans[r]), jar[b] # None PROVE rows[new[r]].family # SessionOf(b)
    <3>1. jar[b] \in delivered
      BY <2>1 DEF IInv, JarInv
    <3>2. HasRow(r) => seen[r].family # SessionOf(b)
      BY <1>1, <1>3, <2>1, NoneAssumption DEF CarefulInv, Apart, HasRow, IInv, TypeOK
    <3> QED
      BY <1>1, <2>1, <3>1, <3>2, AnswerFamily DEF SessionOf
  <2>2. \A c \in Browser \ {b} : jar'[c] \notin {None, jar[c]} /\ jar[b] # None
                                   => rows'[jar'[c]].family # SessionOf(b)
    BY <1>1, <1>2, <2>1
  <2>3. jar'[b] = jar[b]
    BY <1>1, <1>3
  <2>4. Apart(b)'
    BY <1>1, <2>2, <2>3, ApartStays DEF CarefulInv
  <2>5. r \notin OpenOf(b) /\ r \notin OpenOf(b)'
    BY <1>1, <1>3 DEF OpenOf
  <2> QED
    BY <1>1, <2>3, <2>4, <2>5, StrangerStays
<1>4. CASE job[r].who = b
  <2>1. r \in OpenOf(b) /\ Served(b, r) /\ \A q \in OpenOf(b) : q = r
    BY <1>1, <1>4 DEF OpenOf, CarefulInv
  <2>2. OpenOf(b)' = {}
    BY <1>1, <2>1 DEF OpenOf, OnlyHandler, SameHandler
  <2>3. Usable(b)' /\ Apart(b)'
    <3>1. CASE jar'[b] = None
      BY <3>1 DEF Usable, Apart
    <3>2. CASE jar'[b] = jar[b] /\ ~SetsCookie(ans[r]) /\ ~ClearsCookie(job[r].kind, ans[r])
      <4>1. Usable(b)
        BY <1>1, <2>1, <3>2 DEF Served, Rotates, Usable, SetsCookie, ClearsCookie
      <4>2. Usable(b)'
        BY <1>1, <3>2, <4>1 DEF Usable, SessionOf
      <4>3. Apart(b)'
        BY <1>1, <1>4, <3>2, ApartStays DEF CarefulInv
      <4> QED
        BY <4>2, <4>3
    <3>3. CASE jar'[b] = new[r] /\ ans[r] = "rotated"
      <4>1. HasRow(r) /\ rows[new[r]].family = seen[r].family /\ ~rows[new[r]].used_at
        BY <1>1, <3>3, AnswerFamily DEF SetsCookie
      <4>2. job[r].tok # None
        BY <4>1, NoneAssumption DEF HasRow, IInv, TypeOK
      <4>3. jar[b] # None /\ Rotates(b, r)
        BY <2>1, <3>3, <4>2 DEF Served
      <4>4. seen[r].family = SessionOf(b) /\ SessionOf(b) \notin revoked
        BY <1>1, <3>3, <4>3 DEF Rotates
      <4>5. SessionOf(b)' = SessionOf(b)
        BY <1>1, <3>3, <4>1, <4>4 DEF SessionOf
      <4>6. Usable(b)'
        BY <1>1, <3>3, <4>1, <4>4, <4>5 DEF Usable
      <4>7. \A q \in Request : pc'[q] # "idle" /\ job'[q].who # b =>
              pc[q] # "idle" /\ job'[q] = job[q]
        BY <1>1 DEF OnlyHandler, SameHandler
      <4>8. \A c \in Browser \ {b} : SessionOf(c)' = SessionOf(c) /\ jar'[c] = jar[c]
        BY <1>1, <1>4 DEF SessionOf
      <4>9. Apart(b)'
        BY <1>1, <4>3, <4>5, <4>7, <4>8 DEF CarefulInv, Apart
      <4> QED
        BY <4>6, <4>9
    <3>4. CASE jar'[b] = new[r] /\ ans[r] = "opened"
      <4>1. /\ new[r] \in Token /\ ~rows[new[r]].used_at
            /\ rows[new[r]].family = new[r] /\ new[r] \notin revoked
            /\ \A t \in delivered : rows[t].family # new[r]
        BY <1>1, <3>4, AnswerFamily DEF SetsCookie
      <4>2. SessionOf(b)' = new[r]
        BY <1>1, <3>4, <4>1 DEF SessionOf
      <4>3. \A c \in Browser \ {b} : jar'[c] # None => SessionOf(c)' # new[r]
        BY <1>1, <1>4, <4>1 DEF SessionOf, IInv, JarInv
      <4>4. \A q \in Request : pc'[q] # "idle" /\ job'[q].tok # None =>
              job'[q].tok \in delivered
        BY <1>1 DEF OnlyHandler, SameHandler, TokInv
      <4> QED
        BY <1>1, <3>4, <4>1, <4>2, <4>3, <4>4 DEF Usable, Apart
    <3> QED
      BY <1>2, <1>4, <3>1, <3>2, <3>3, <3>4 DEF SetsCookie
  <2> QED
    BY <2>2, <2>3 DEF CarefulInv
<1> QED
  BY <1>3, <1>4

-----------------------------------------------------------------------------
(* The inductive invariant.                                                *)

LEMMA WatchKeeps ==
  ASSUME IInv, SessionInv, LogoutInv, WInv, Next, Watch
  PROVE  WInv'
<1>1. careful' \subseteq careful /\ careful' \subseteq Browser
  BY DEF Watch, WInv
<1>2. ASSUME NothingLost'
      PROVE  late' = {} /\ TokInv' /\ OpenedInv' /\ \A b \in careful' : CarefulInv(b)'
  <2>1. NothingLost
    BY <1>2, LossCounts DEF IInv
  <2>2. late = {} /\ OpenedInv /\ TokInv /\ \A b \in careful : CarefulInv(b)
    BY <2>1 DEF WInv
  <2>3. late' = {} /\ TokInv' /\ OpenedInv'
    BY <1>2, <2>2, Lossless, TokensStay, OpenedStays
  <2>4. ASSUME NEW b \in careful' PROVE CarefulInv(b)'
    <3>1. b \in Browser /\ CarefulInv(b)
      BY <1>1, <2>2
    <3> QED
      BY <1>2, <2>2, <3>1, Lossless, ArrivalsKeepCareful, ServesKeepCareful, AnswersKeepCareful
  <2> QED
    BY <2>3, <2>4
<1> QED
  BY <1>1, <1>2 DEF WInv

\* A browser that sends one request at a time, its cookie and nothing else, and whose
\* session nobody else uses, is never taken for a replayer: whatever the other browsers do
\* and whichever read fails, between requests its cookie can be rotated, as long as no
\* write failed and no handler vanished (rotate, and the answers of all four handlers).
THEOREM CarefulCookiesAreLive == WatchedSpec => []CookieIsLive
<1>1. Init /\ careful = Browser => WInv
  BY DEF Init, StoreInit, WInv, TokInv, OpenedInv, CarefulInv, Apart, Usable, OpenOf, Served
<1>2. WatchedSpec => Spec
  <2>1. [Next /\ Watch]_watchedVars => [Next]_vars
    BY DEF watchedVars
  <2> QED
    BY <2>1, PTL DEF WatchedSpec, Spec
<1>3. Init => LogoutInv
  BY DEF Init, LogoutInv
<1>4. IInv /\ SessionInv /\ LogoutInv /\ WInv /\ [Next /\ Watch]_watchedVars => WInv'
  <2> SUFFICES ASSUME IInv, SessionInv, LogoutInv, WInv, [Next /\ Watch]_watchedVars
               PROVE  WInv'
    OBVIOUS
  <2>1. CASE UNCHANGED watchedVars
    BY <2>1 DEF watchedVars, vars, WInv, TokInv, NothingLost, OpenedInv, CarefulInv, Apart,
       SessionOf, Usable, OpenOf, Served, Rotates
  <2> QED
    BY <2>1, WatchKeeps
<1>5. WInv => CookieIsLive
  BY DEF WInv, CookieIsLive, CarefulInv, Usable
<1> QED
  BY <1>1, <1>2, <1>3, <1>4, <1>5, NextKeepsLogout, InvariantHolds, SessionsInvariant, PTL
  DEF WatchedSpec, Spec
=============================================================================
