----------------------- MODULE RefreshRotationProofs ------------------------
(***************************************************************************)
(* Proofs about RefreshRotation, for any sets of tokens, handlers and      *)
(* browsers, any number of open requests per browser and any number of     *)
(* failed calls, vanished handlers and replays.                            *)
(***************************************************************************)
EXTENDS RefreshRotationInv, TLAPS

-----------------------------------------------------------------------------
(* The rows, under the two writes.                                         *)

\* An unused row is what a put leaves, and a used one what mark_used leaves.
LEMMA RowShapes ==
  ASSUME NEW row \in Row, RowOK(row)
  PROVE  /\ row.rev > 0 <=> UnusedRow(row) \/ UsedRow(row)
         /\ row.used_at <=> UsedRow(row)
         /\ row.rev = 1 <=> UnusedRow(row)
  BY DEF Row, RowOK, UnusedRow, UsedRow, NoRow

\* Putting the row of a new token leaves every other row alone.  It adds no live
\* token to a family that has its first token, and starts a family with one.
LEMMA PutRows ==
  ASSUME StoreTypeOK, RowsInv, StoreTypeOK',
         NEW n \in Token, NEW f \in Token, ~Stored(n), f = n \/ Rooted(f),
         rows' = [rows EXCEPT ![n] = [family |-> f, used_at |-> FALSE,
                                      replaced_by |-> None, rev |-> 1]]
  PROVE  /\ RowsInv'
         /\ \A t \in Token : Stored(t) => rows'[t] = rows[t]
         /\ \A t \in Token : OnChain(t) => OnChain(t)'
         /\ \A g \in Token : Rooted(g) => Live(g)' = Live(g)
         /\ \A g \in Token : g # n \/ f # n => Live(g)' = Live(g)
         /\ UnusedRow(rows'[n]) /\ rows'[n].family = f
         /\ f = n => Live(n)' = {n}
<1> USE NoneAssumption
<1>1. rows[n] = NoRow
  BY DEF RowsInv, RowOK, UnusedRow, UsedRow, Stored
<1>2. \A t \in Token : t # n => rows'[t] = rows[t]
  BY DEF StoreTypeOK
<1>3. UnusedRow(rows'[n]) /\ rows'[n].family = f /\ Stored(n)'
  BY DEF StoreTypeOK, UnusedRow, Stored
<1>4. \A t \in Token : Stored(t) => rows'[t] = rows[t]
  BY <1>1, <1>2 DEF Stored
<1>5. \A t \in Token : rows[t].replaced_by # n /\ rows'[t].replaced_by # n
  BY <1>1, <1>2, <1>3 DEF RowsInv, ReplacementStored, Stored, RowOK, UnusedRow, UsedRow, NoRow
<1>6. \A t \in Token : rows'[t].replaced_by = rows[t].replaced_by
  BY <1>1, <1>2, <1>3 DEF UnusedRow, NoRow
<1>7. \A t \in Token : OnChain(t) => OnChain(t)'
  BY <1>4, <1>6 DEF OnChain, Stored
<1>8. \A t \in Token : OnChain(t)' /\ ~OnChain(t) => t = n /\ f = n
  BY <1>2, <1>3, <1>5, <1>6 DEF OnChain, Stored
<1>9. \A t \in Token : Stored(t) => rows[t].family # n
  BY <1>1 DEF RowsInv, Rooted, NoRow
<1>10. \A g \in Token : g # n \/ f # n => Live(g)' = Live(g)
  <2> SUFFICES ASSUME NEW g \in Token, g # n \/ f # n,
                      NEW t \in Token
               PROVE  t \in Live(g)' <=> t \in Live(g)
    BY DEF Live, Chain
  <2>1. CASE t = n
    BY <2>1, <1>1, <1>3, <1>5, <1>8 DEF Live, Chain, OnChain, Stored, NoRow
  <2>2. CASE t # n
    BY <2>2, <1>2, <1>6 DEF Live, Chain, OnChain, Stored
  <2> QED
    BY <2>1, <2>2
<1>11. f = n => Live(n)' = {n}
  <2> SUFFICES ASSUME f = n, NEW t \in Token
               PROVE  t \in Live(n)' <=> t = n
    BY DEF Live, Chain
  <2>1. CASE t = n
    BY <2>1, <1>3 DEF Live, Chain, OnChain, UnusedRow
  <2>2. CASE t # n
    BY <2>2, <1>2, <1>9 DEF Live, Chain, OnChain, Stored
  <2> QED
    BY <2>1, <2>2
<1>12. RowsInv'
  <2>1. \A t \in Token : RowOK(rows'[t])
    BY <1>2, <1>3 DEF RowsInv, RowOK
  <2>2. ASSUME NEW t \in Token, Stored(t)'
        PROVE  Rooted(rows[t].family)'
    BY <2>2, <1>1, <1>2, <1>3, <1>4 DEF RowsInv, Rooted, Stored, NoRow
  <2>3. ReplacementStored'
    BY <1>2, <1>3, <1>4 DEF RowsInv, ReplacementStored, Stored, UnusedRow
  <2>4. OneLiveToken'
    BY <1>10, <1>11 DEF RowsInv, OneLiveToken
  <2> QED
    BY <2>1, <2>2, <2>3, <2>4 DEF RowsInv
<1>13. \A g \in Token : Rooted(g) => Live(g)' = Live(g)
  BY <1>1, <1>10 DEF Rooted, NoRow
<1> QED
  BY <1>3, <1>4, <1>7, <1>10, <1>11, <1>12, <1>13

\* Marking the unused token of a chain moves the family's live token to the
\* successor, and touches no other family.
LEMMA MarkRows ==
  ASSUME StoreTypeOK, RowsInv, StoreTypeOK',
         NEW o \in Token, NEW n \in Token,
         OnChain(o), rows[o].rev = 1, Stored(n), rows[n].family = rows[o].family,
         rows' = [rows EXCEPT ![o] = [family |-> rows[o].family, used_at |-> TRUE,
                                      replaced_by |-> n, rev |-> 2]]
  PROVE  /\ RowsInv'
         /\ \A t \in Token : t # o => rows'[t] = rows[t]
         /\ UsedRow(rows'[o]) /\ rows'[o].family = rows[o].family
         /\ \A t \in Token : OnChain(t) => OnChain(t)'
         /\ \A g \in Token : g # rows[o].family => Live(g)' = Live(g)
         /\ Live(rows[o].family) = {o}
         /\ n # o /\ rows[n].rev = 1 => Live(rows[o].family)' = {n}
<1> USE NoneAssumption
<1> DEFINE f == rows[o].family
<1>1. UnusedRow(rows[o]) /\ f \in Token
  BY RowShapes DEF RowsInv, StoreTypeOK, UnusedRow
<1>2. \A t \in Token : t # o => rows'[t] = rows[t]
  BY DEF StoreTypeOK
<1>3. UsedRow(rows'[o]) /\ rows'[o].family = f /\ rows'[o].replaced_by = n
  BY <1>1 DEF StoreTypeOK, UsedRow, UnusedRow
<1>4. \A t \in Token : /\ Stored(t)' <=> Stored(t)
                       /\ rows'[t].family = rows[t].family
                       /\ rows[t].used_at => rows'[t] = rows[t]
  BY <1>1, <1>2, <1>3 DEF Stored, UnusedRow, UsedRow
<1>5. \A t \in Token : OnChain(t) => OnChain(t)'
  BY <1>1, <1>2, <1>4 DEF OnChain, UnusedRow
<1>6. \A t \in Token : OnChain(t)' => OnChain(t) \/ t = n
  BY <1>2, <1>3, <1>4 DEF OnChain
<1>7. o \in Live(f)
  BY <1>1 DEF Live, Chain, UnusedRow
<1>8. Live(f) = {o}
  BY <1>1, <1>7 DEF RowsInv, OneLiveToken, Live, Chain
<1>9. \A g \in Token : g # f => Live(g)' = Live(g)
  <2> SUFFICES ASSUME NEW g \in Token, g # f, NEW t \in Token
               PROVE  t \in Live(g)' <=> t \in Live(g)
    BY DEF Live, Chain
  <2>1. CASE t = o \/ t = n
    BY <2>1, <1>3, <1>4 DEF Live, Chain
  <2>2. CASE t # o /\ t # n
    BY <2>2, <1>2, <1>5, <1>6 DEF Live, Chain
  <2> QED
    BY <2>1, <2>2
<1>10. \A t \in Live(f)' : t = n
  BY <1>2, <1>3, <1>6, <1>8 DEF Live, Chain, UsedRow
<1>11. n # o /\ rows[n].rev = 1 => Live(f)' = {n}
  <2> SUFFICES ASSUME n # o, rows[n].rev = 1
               PROVE  n \in Live(f)'
    BY <1>10
  <2>1. UnusedRow(rows'[n]) /\ rows'[n].family = f
    BY <1>2, RowShapes DEF RowsInv, StoreTypeOK
  <2> QED
    BY <2>1, <1>3, <1>4 DEF Live, Chain, OnChain, UnusedRow
<1>12. RowsInv'
  <2>1. \A t \in Token : RowOK(rows'[t])
    BY <1>2, <1>3 DEF RowsInv, RowOK
  <2>2. ASSUME NEW t \in Token, Stored(t)'
        PROVE  Rooted(rows[t].family)'
    BY <2>2, <1>4 DEF RowsInv, Rooted, Stored, RowOK, UnusedRow, UsedRow, NoRow
  <2>3. ReplacementStored'
    BY <1>2, <1>3, <1>4 DEF RowsInv, ReplacementStored, UsedRow, Stored
  <2>4. OneLiveToken'
    BY <1>9, <1>10, <1>1 DEF RowsInv, OneLiveToken
  <2> QED
    BY <2>1, <2>2, <2>3, <2>4 DEF RowsInv
<1> QED
  BY <1>2, <1>3, <1>5, <1>8, <1>9, <1>11, <1>12

-----------------------------------------------------------------------------
(* The handlers.                                                           *)

\* Nothing of handler q changes in a step.
SameHandler(q) == /\ pc'[q] = pc[q] /\ job'[q] = job[q] /\ seen'[q] = seen[q]
                  /\ new'[q] = new[q] /\ ans'[q] = ans[q]

\* A step of handler r changes nothing of the others.
OnlyHandler(r) == \A q \in Request \ {r} : SameHandler(q)

\* An id that is drawn is nobody's.
LEMMA FreshIds ==
  ASSUME IInv, NEW n \in Fresh
  PROVE  /\ n \in Token /\ n # None /\ ~Stored(n) /\ n \notin delivered
         /\ \A q \in Request : new[q] # n
         /\ \A w \in late : w.id # n /\ w.new # n
  BY NoneAssumption DEF IInv, Fresh, Taken, OnChain

\* What the invariant says of a handler survives the steps of others: they hand out
\* no id of its, store no row under one, and never move a row to another family.
LEMMA KeepHandler ==
  ASSUME NEW q \in Request, HandlerInv(q), SameHandler(q),
         delivered \subseteq delivered',
         \A t \in delivered : rows'[t].family = rows[t].family,
         new[q] \in Token => rows'[new[q]] = rows[new[q]],
         \A w \in late' \ late : w.op = "put" => w.id # new[q]
  PROVE  HandlerInv(q)'
<1>1. HasRow(q) => HasRow(q)'
  BY DEF HasRow, SameHandler
<1>2. pc[q] = "store" => \A w \in late' : w.op = "put" => w.id # new[q]
  BY DEF HandlerInv
<1> QED
  BY <1>1, <1>2 DEF HandlerInv, SameHandler, Stored

\* A step of one handler that leaves the store and the browsers alone.
LEMMA LocalStep ==
  ASSUME IInv, TypeOK', NEW r \in Request, pc[r] # "answer",
         UNCHANGED <<rows, revoked, late, jar, delivered>>, OnlyHandler(r),
         HandlerInv(r)', new'[r] = new[r] \/ new'[r] \in Fresh,
         ~SetsCookie(ans'[r]), ans'[r] # "reuse"
  PROVE  IInv'
<1>1. RowsInv' /\ JarInv' /\ \A t \in delivered' : OnChain(t)'
  BY DEF IInv, RowsInv, RowOK, Stored, Rooted, ReplacementStored, OneLiveToken, Live, Chain,
         OnChain, JarInv
<1>2. ASSUME NEW q \in Request PROVE HandlerInv(q)'
  BY KeepHandler DEF OnlyHandler, IInv
<1>3. NewInv'
  BY FreshIds DEF NewInv, IInv, OnlyHandler, SameHandler
<1>4. LateInv'
  <2> SUFFICES ASSUME NEW w \in late
               PROVE  /\ w.op = "put" => PutInv(w)'
                      /\ w.op = "update" => UpdateInv(w)'
                      /\ w.op = "revoke" => w.family \in Token
    BY DEF LateInv
  <2>1. w.op = "put" => PutInv(w)'
    BY FreshIds DEF IInv, LateInv, PutInv, OnlyHandler, SameHandler, Stored, Rooted
  <2>2. w.op = "update" => UpdateInv(w)'
    BY DEF IInv, LateInv, UpdateInv, Stored
  <2> QED
    BY <2>1, <2>2 DEF IInv, LateInv
<1>5. HandedOutIsLive'
  <2> SUFFICES ASSUME NEW q \in Request, pc'[q] = "answer", SetsCookie(ans'[q])
               PROVE  (Live(FamilyOf(q)) = {new[q]})'
    BY DEF HandedOutIsLive
  <2>1. q # r /\ SameHandler(q)
    BY DEF OnlyHandler
  <2>2. Live(FamilyOf(q)) = {new[q]}
    BY <2>1 DEF SameHandler, IInv, HandedOutIsLive
  <2> QED
    BY <2>1, <2>2 DEF SameHandler, FamilyOf, Live, Chain, OnChain, Stored
<1>6. ReuseRevokes'
  BY DEF IInv, ReuseRevokes, OnlyHandler, SameHandler, RevokeWrite
<1> QED
  BY <1>1, <1>2, <1>3, <1>4, <1>5, <1>6 DEF IInv

-----------------------------------------------------------------------------
(* Requests arrive.                                                        *)

LEMMA LoginStep ==
  ASSUME IInv, NEW r \in Request, NEW b \in Browser, Login(r, b)
  PROVE  IInv'
<1> USE DEF Login, Accept, GoTo
<1>1. PICK n \in Fresh : new' = [new EXCEPT ![r] = n]
  OBVIOUS
<1>2. TypeOK'
  BY <1>1, FreshIds DEF IInv, TypeOK, StoreTypeOK, Kind, Await
<1>3. HandlerInv(r)'
  BY <1>1, FreshIds DEF IInv, TypeOK, HandlerInv, Stored, NoJob
<1> QED
  BY <1>1, <1>2, <1>3, LocalStep DEF OnlyHandler, SameHandler, IInv, TypeOK, HandlerInv, SetsCookie

\* A request with a token that was handed out goes to find_by_id.
LEMMA PresentStep ==
  ASSUME IInv, NEW r \in Request, NEW b \in Browser, NEW k \in Kind \ {"token"},
         NEW t \in delivered, Accept(r, b, k, t), GoTo(r, "find"), UNCHANGED new,
         spent' \in [Bound -> Nat]
  PROVE  IInv'
<1> USE DEF Accept, GoTo
<1>1. TypeOK'
  BY DEF IInv, TypeOK, StoreTypeOK, Kind, Await
<1>2. HandlerInv(r)'
  BY DEF IInv, TypeOK, HandlerInv
<1> QED
  BY <1>1, <1>2, LocalStep DEF OnlyHandler, SameHandler, IInv, TypeOK, HandlerInv, SetsCookie

LEMMA SpendType ==
  ASSUME spent \in [Bound -> Nat], NEW x \in Bound, NEW max, Spend(x, max)
  PROVE  spent' \in [Bound -> Nat]
  BY DEF Spend

LEMMA PresentNothingStep ==
  ASSUME IInv, NEW r \in Request, NEW b \in Browser, NEW k \in Kind, PresentNothing(r, b, k)
  PROVE  IInv'
<1> USE DEF PresentNothing, Accept, AnswerWith
<1>1. TypeOK'
  BY DEF IInv, TypeOK, StoreTypeOK, Kind, Await, Answer
<1>2. HandlerInv(r)'
  BY DEF IInv, TypeOK, HandlerInv
<1> QED
  BY <1>1, <1>2, LocalStep DEF OnlyHandler, SameHandler, IInv, TypeOK, HandlerInv, SetsCookie

-----------------------------------------------------------------------------
(* The reads.                                                              *)

LEMMA FindStep ==
  ASSUME IInv, NEW r \in Request, Find(r)
  PROVE  IInv'
<1> USE DEF Find, AnswerWith, GoTo
<1>1. job[r].tok \in delivered /\ job[r].tok \in Token /\ job[r].kind # "token"
  BY DEF IInv, HandlerInv, TypeOK
<1>2. spent' \in [Bound -> Nat]
  BY SpendType DEF IInv, TypeOK, Bound
<1>3. TypeOK'
  <2>1. rows[job[r].tok] \in Row
    BY <1>1 DEF IInv, TypeOK, StoreTypeOK
  <2>2. seen' \in [Request -> Row]
    BY <2>1 DEF IInv, TypeOK
  <2>3. pc' \in [Request -> Await] /\ ans' \in [Request -> Answer]
    BY DEF IInv, TypeOK, Await, Answer
  <2> QED
    BY <1>2, <2>2, <2>3 DEF IInv, TypeOK, StoreTypeOK
<1>4. Stored(job[r].tok) => UnusedRow(rows[job[r].tok]) \/ UsedRow(rows[job[r].tok])
  BY <1>1, RowShapes DEF IInv, RowsInv, TypeOK, StoreTypeOK, Stored
<1>5. HandlerInv(r)'
  BY <1>1, <1>4 DEF IInv, TypeOK, HandlerInv, HasRow
<1> QED
  BY <1>3, <1>5, LocalStep DEF OnlyHandler, SameHandler, IInv, TypeOK, HandlerInv, SetsCookie

LEMMA IsFamilyRevokedStep ==
  ASSUME IInv, NEW r \in Request, IsFamilyRevoked(r)
  PROVE  IInv'
<1> USE DEF IsFamilyRevoked, AnswerWith, GoTo
<1>1. HasRow(r)
  BY DEF IInv, HandlerInv
<1>2. spent' \in [Bound -> Nat]
  BY SpendType DEF IInv, TypeOK, Bound
<1>3. /\ UNCHANGED <<rows, revoked, late, job, seen, jar, delivered>>
      /\ pc[r] = "is_revoked"
  OBVIOUS
<1>4. CASE AnswerWith(r, "refused") /\ UNCHANGED new
  <2>1. TypeOK'
    BY <1>2, <1>3, <1>4 DEF IInv, TypeOK, StoreTypeOK, Await, Answer
  <2>2. HandlerInv(r)'
    BY <1>3, <1>4 DEF IInv, TypeOK, HandlerInv
  <2> QED
    BY <1>3, <1>4, <2>1, <2>2, LocalStep DEF OnlyHandler, SameHandler, IInv, TypeOK, SetsCookie
<1>5. CASE Rotate(r) /\ seen[r].used_at
  <2>1. GoTo(r, "revoke") /\ UNCHANGED new
    BY <1>5 DEF Rotate
  <2>2. TypeOK'
    BY <1>2, <1>3, <2>1 DEF IInv, TypeOK, StoreTypeOK, Await
  <2>3. HandlerInv(r)'
    BY <1>1, <1>3, <2>1 DEF IInv, TypeOK, HandlerInv, HasRow
  <2> QED
    BY <1>3, <2>1, <2>2, <2>3, LocalStep
    DEF OnlyHandler, SameHandler, IInv, TypeOK, HandlerInv, SetsCookie
<1>6. CASE Rotate(r) /\ ~seen[r].used_at
  <2>1. PICK n \in Fresh : GoTo(r, "store") /\ new' = [new EXCEPT ![r] = n]
    BY <1>6 DEF Rotate
  <2>2. TypeOK'
    BY <1>2, <1>3, <2>1, FreshIds DEF IInv, TypeOK, StoreTypeOK, Await
  <2>3. UnusedRow(seen[r])
    BY <1>1, <1>6 DEF HasRow, UsedRow
  <2>4. HandlerInv(r)'
    BY <1>1, <1>3, <2>1, <2>3, FreshIds DEF IInv, TypeOK, HandlerInv, HasRow, Stored
  <2> QED
    BY <1>3, <2>1, <2>2, <2>4, LocalStep
    DEF OnlyHandler, SameHandler, IInv, TypeOK, HandlerInv, SetsCookie
<1> QED
  BY <1>4, <1>5, <1>6

-----------------------------------------------------------------------------
(* A row is put.                                                           *)

\* What a put leaves under a key that was never written, and an update under a key
\* at revision 1.
LEMMA WrittenRow ==
  ASSUME NEW w
  PROVE  /\ w.op = "put" /\ rows[w.id].rev = 0 => Written(w) =
              [family |-> w.family, used_at |-> FALSE, replaced_by |-> w.new, rev |-> 1]
         /\ w.op = "update" /\ rows[w.id].rev = 1 => Written(w) =
              [family |-> w.family, used_at |-> TRUE, replaced_by |-> w.new, rev |-> 2]
<1>1. /\ w.op = "put" => (w.op = "update") = FALSE
      /\ w.op = "update" => (w.op = "update") = TRUE
  OBVIOUS
<1>2. /\ rows[w.id].rev = 0 => rows[w.id].rev + 1 = 1
      /\ rows[w.id].rev = 1 => rows[w.id].rev + 1 = 2
  OBVIOUS
<1> QED
  BY <1>1, <1>2, Zenon DEF Written

\* The same, of the write of store.
LEMMA WrittenByStore ==
  ASSUME NEW t, NEW f, rows[t].rev = 0
  PROVE  Written(StoreWrite(t, f)) =
           [family |-> f, used_at |-> FALSE, replaced_by |-> None, rev |-> 1]
<1>1. /\ StoreWrite(t, f).op = "put" /\ StoreWrite(t, f).id = t
      /\ StoreWrite(t, f).family = f /\ StoreWrite(t, f).new = None
  BY DEF StoreWrite
<1> QED
  BY <1>1, WrittenRow

\* The put of a new row, by its handler or late, keeps what the invariant says of
\* the rows, of the writes still under way and of the answers of others.
LEMMA PutStep ==
  ASSUME IInv, StoreTypeOK', NEW n \in Token, NEW f \in Token,
         ~Stored(n), f = n \/ Rooted(f),
         rows' = [rows EXCEPT ![n] = [family |-> f, used_at |-> FALSE,
                                      replaced_by |-> None, rev |-> 1]],
         UNCHANGED <<delivered, new>>, late' \subseteq late,
         \A w \in late' : w.op = "put" => w.id # n,
         \A q \in Request : SameHandler(q) \/ new[q] = n
  PROVE  /\ RowsInv'
         /\ \A t \in delivered' : OnChain(t)'
         /\ \A t \in Token : Stored(t) => rows'[t] = rows[t]
         /\ LateInv'
         /\ \A q \in Request : new[q] # n => HandlerInv(q)'
         /\ \A q \in Request : new[q] # n /\ pc[q] = "answer" /\ SetsCookie(ans[q])
                             => (Live(FamilyOf(q)) = {new[q]})'
<1>1. /\ RowsInv'
      /\ \A t \in Token : Stored(t) => rows'[t] = rows[t]
      /\ \A t \in Token : OnChain(t) => OnChain(t)'
      /\ \A g \in Token : Rooted(g) => Live(g)' = Live(g)
  BY PutRows DEF IInv, TypeOK
<1>2. \A t \in Token : t # n => rows'[t] = rows[t]
  BY DEF IInv, TypeOK, StoreTypeOK
<1>3. \A t \in delivered : t \in Token /\ OnChain(t) /\ Stored(t)
  BY DEF IInv, TypeOK, OnChain
<1>4. \A g \in Token : Rooted(g) => Rooted(g)'
  <2>1. ~Rooted(n)
    BY NoneAssumption DEF IInv, RowsInv, RowOK, UnusedRow, UsedRow, NoRow, Stored, Rooted
  <2> QED
    BY <1>2, <2>1 DEF Rooted
<1>5. LateInv'
  <2> SUFFICES ASSUME NEW w \in late'
               PROVE  /\ w.op = "put" => PutInv(w)'
                      /\ w.op = "update" => UpdateInv(w)'
                      /\ w.op = "revoke" => w.family \in Token
    BY DEF LateInv
  <2>1. ASSUME w.op = "put" PROVE PutInv(w)'
    <3>1. PutInv(w) /\ w.id # n
      BY <2>1 DEF IInv, LateInv
    <3>2. \A q \in Request : new'[q] = w.id => pc'[q] = "answer" /\ ans'[q] = "store_failed"
      BY <3>1 DEF PutInv, SameHandler
    <3> QED
      BY <3>1, <3>2, <1>2, <1>4 DEF PutInv, Stored
  <2>2. ASSUME w.op = "update" PROVE UpdateInv(w)'
    BY <2>2, <1>1, <1>3 DEF IInv, LateInv, UpdateInv, Stored
  <2> QED
    BY <2>1, <2>2 DEF IInv, LateInv
<1>6. ASSUME NEW q \in Request, new[q] # n
      PROVE  HandlerInv(q)'
  BY <1>1, <1>2, <1>3, <1>6, KeepHandler DEF IInv
<1>7. ASSUME NEW q \in Request, new[q] # n, pc[q] = "answer", SetsCookie(ans[q])
      PROVE  (Live(FamilyOf(q)) = {new[q]})'
  <2>1. SameHandler(q) /\ Live(FamilyOf(q)) = {new[q]}
    BY <1>7 DEF IInv, HandedOutIsLive
  <2>2. new[q] \in Token /\ Stored(new[q]) /\ rows[new[q]].family = FamilyOf(q)
    BY <2>1 DEF Live, Chain, OnChain
  <2>3. FamilyOf(q) \in Token /\ Rooted(FamilyOf(q))
    BY <2>2 DEF IInv, RowsInv, RowOK, UnusedRow, UsedRow, NoRow, Stored
  <2>4. FamilyOf(q)' = FamilyOf(q) /\ new'[q] = new[q]
    BY <2>1 DEF FamilyOf, SameHandler
  <2> QED
    BY <2>1, <2>3, <2>4, <1>1 DEF Live, Chain, OnChain, Stored
<1> QED
  BY <1>1, <1>3, <1>5, <1>6, <1>7

LEMMA StoreNewSucceeds ==
  ASSUME IInv, NEW r \in Request, pc[r] = "store",
         Succeeds(StoreWrite(new[r], FamilyOf(r))),
         IF job[r].kind = "token" THEN AnswerWith(r, "opened") ELSE GoTo(r, "mark_used"),
         UNCHANGED <<job, seen, new, jar, delivered, spent>>
  PROVE  IInv'
<1> DEFINE n == new[r]
           f == FamilyOf(r)
<1> USE DEF AnswerWith, GoTo
<1>1. n \in Token /\ ~Stored(n) /\ \A w \in late : w.op = "put" => w.id # n
  BY DEF IInv, HandlerInv
<1>2. f \in Token /\ (f = n \/ Rooted(f))
  <2>1. CASE job[r].kind = "token"
    BY <2>1, <1>1 DEF FamilyOf
  <2>2. CASE job[r].kind # "token"
    BY <2>2 DEF FamilyOf, IInv, HandlerInv, HasRow, UnusedRow, RowsInv, OnChain, TypeOK
  <2> QED
    BY <2>1, <2>2
<1>3. rows[n].rev = 0
  BY <1>1 DEF IInv, RowsInv, RowOK, UnusedRow, UsedRow, NoRow, Stored
<1>4. /\ rows' = [rows EXCEPT ![n] = [family |-> f, used_at |-> FALSE,
                                      replaced_by |-> None, rev |-> 1]]
      /\ UNCHANGED <<revoked, late>>
  <2>1. Written(StoreWrite(n, f)) = [family |-> f, used_at |-> FALSE,
                                     replaced_by |-> None, rev |-> 1]
    BY <1>3, WrittenByStore
  <2>2. StoreWrite(n, f).op # "revoke" /\ StoreWrite(n, f).id = n
    BY DEF StoreWrite
  <2> QED
    BY <2>1, <2>2 DEF Succeeds, Apply
<1>5. TypeOK'
  BY <1>1, <1>2, <1>4 DEF IInv, TypeOK, StoreTypeOK, Row, Await, Answer
<1>6. \A q \in Request \ {r} : new[q] # n /\ SameHandler(q)
  BY <1>1, NoneAssumption DEF IInv, NewInv, SameHandler, TypeOK
<1>7. /\ RowsInv' /\ LateInv'
      /\ \A t \in delivered' : OnChain(t)'
      /\ \A t \in Token : Stored(t) => rows'[t] = rows[t]
      /\ \A q \in Request : new[q] # n => HandlerInv(q)'
      /\ \A q \in Request : new[q] # n /\ pc[q] = "answer" /\ SetsCookie(ans[q])
                          => (Live(FamilyOf(q)) = {new[q]})'
  BY <1>1, <1>2, <1>4, <1>5, <1>6, PutStep DEF TypeOK
<1>8. /\ f = n => Live(n)' = {n}
      /\ UnusedRow(rows'[n]) /\ rows'[n].family = f
  BY <1>1, <1>2, <1>4, <1>5, PutRows DEF IInv, TypeOK
<1>9. HasRow(r) => HasRow(r)'
  BY <1>7 DEF HasRow, IInv, OnChain, TypeOK
<1>10. HandlerInv(r)'
  BY <1>1, <1>8, <1>9 DEF IInv, TypeOK, HandlerInv, FamilyOf
<1>11. NewInv' /\ JarInv'
  BY DEF IInv, NewInv, JarInv
<1>12. HandedOutIsLive'
  <2>1. pc'[r] = "answer" => job[r].kind = "token"
    BY DEF IInv, TypeOK
  <2>2. pc'[r] = "answer" => (Live(FamilyOf(r)) = {new[r]})'
    BY <2>1, <1>8 DEF FamilyOf
  <2> QED
    BY <2>2, <1>6, <1>7 DEF HandedOutIsLive, SameHandler
<1>13. ReuseRevokes'
  BY <1>4, <1>6 DEF IInv, TypeOK, HandlerInv, ReuseRevokes, SameHandler
<1> QED
  BY <1>5, <1>6, <1>7, <1>10, <1>11, <1>12, <1>13 DEF IInv

-----------------------------------------------------------------------------
(* A row is marked used.                                                   *)

\* The accepted update of an unused row, by its handler or late, keeps what the
\* invariant says of the rows, of the writes still under way and of other handlers.
LEMMA MarkStep ==
  ASSUME IInv, StoreTypeOK', NEW o \in delivered, NEW n \in Token,
         rows[o].rev = 1, Stored(n), rows[n].family = rows[o].family,
         rows' = [rows EXCEPT ![o] = [family |-> rows[o].family, used_at |-> TRUE,
                                      replaced_by |-> n, rev |-> 2]],
         UNCHANGED <<delivered, new>>, late' \subseteq late,
         \A q \in Request : SameHandler(q) \/ pc[q] = "mark_used"
  PROVE  /\ RowsInv'
         /\ \A t \in delivered' : OnChain(t)'
         /\ \A t \in Token : rows'[t].family = rows[t].family
         /\ LateInv'
         /\ \A q \in Request : SameHandler(q) => HandlerInv(q)'
         /\ \A q \in Request : SameHandler(q) /\ pc[q] = "answer" /\ SetsCookie(ans[q])
                             => (Live(FamilyOf(q)) = {new[q]})'
<1>1. o \in Token /\ OnChain(o) /\ StoreTypeOK /\ RowsInv
  BY DEF IInv, TypeOK
<1>2. /\ RowsInv'
      /\ \A t \in Token : t # o => rows'[t] = rows[t]
      /\ UsedRow(rows'[o]) /\ rows'[o].family = rows[o].family
      /\ \A t \in Token : OnChain(t) => OnChain(t)'
      /\ \A g \in Token : g # rows[o].family => Live(g)' = Live(g)
      /\ Live(rows[o].family) = {o}
  BY <1>1, MarkRows
<1>3. \A t \in Token : /\ rows'[t].family = rows[t].family
                       /\ Stored(t)' <=> Stored(t)
  BY <1>1, <1>2 DEF OnChain, Stored, UsedRow
<1>4. \A t \in delivered' : OnChain(t)'
  BY <1>2 DEF IInv, TypeOK
<1>5. LateInv'
  <2> SUFFICES ASSUME NEW w \in late'
               PROVE  /\ w.op = "put" => PutInv(w)'
                      /\ w.op = "update" => UpdateInv(w)'
                      /\ w.op = "revoke" => w.family \in Token
    BY DEF LateInv
  <2>1. ASSUME w.op = "put" PROVE PutInv(w)'
    <3>1. PutInv(w)
      BY <2>1 DEF IInv, LateInv
    <3>2. \A q \in Request : new'[q] = w.id => pc'[q] = "answer" /\ ans'[q] = "store_failed"
      BY <3>1 DEF PutInv, SameHandler
    <3> QED
      BY <3>1, <3>2, <1>3 DEF PutInv, Rooted
  <2>2. ASSUME w.op = "update" PROVE UpdateInv(w)'
    BY <2>2, <1>3 DEF IInv, TypeOK, LateInv, UpdateInv
  <2> QED
    BY <2>1, <2>2 DEF IInv, LateInv
<1>6. \A q \in Request : new[q] # o
  BY <1>1, NoneAssumption DEF IInv, NewInv
<1>7. ASSUME NEW q \in Request, SameHandler(q)
      PROVE  HandlerInv(q)'
  BY <1>2, <1>3, <1>6, <1>7, KeepHandler DEF IInv, TypeOK
<1>8. ASSUME NEW q \in Request, SameHandler(q), pc[q] = "answer", SetsCookie(ans[q])
      PROVE  (Live(FamilyOf(q)) = {new[q]})'
  <2>1. Live(FamilyOf(q)) = {new[q]}
    BY <1>8 DEF IInv, HandedOutIsLive
  <2>2. FamilyOf(q) # rows[o].family
    BY <2>1, <1>2, <1>6
  <2>3. new[q] \in Token /\ FamilyOf(q) \in Token
    BY <2>1 DEF Live, Chain, OnChain, IInv, RowsInv, RowOK, UnusedRow, UsedRow, NoRow, Stored
  <2>4. FamilyOf(q)' = FamilyOf(q) /\ new'[q] = new[q]
    BY <1>8 DEF FamilyOf, SameHandler
  <2> QED
    BY <2>1, <2>2, <2>3, <2>4, <1>2 DEF Live, Chain, OnChain, Stored
<1> QED
  BY <1>2, <1>3, <1>4, <1>5, <1>7, <1>8

LEMMA MarkUsedSucceeds ==
  ASSUME IInv, NEW r \in Request, pc[r] = "mark_used",
         Succeeds(MarkUsedWrite(job[r].tok, seen[r], new[r])), AnswerWith(r, "rotated"),
         UNCHANGED <<job, seen, new, jar, delivered, spent>>
  PROVE  IInv'
<1> DEFINE n == new[r]
           o == job[r].tok
<1> USE DEF AnswerWith
<1>1. /\ n \in Token /\ UnusedRow(rows[n]) /\ rows[n].family = seen[r].family
      /\ HasRow(r) /\ UnusedRow(seen[r])
  BY DEF IInv, HandlerInv
<1>2. o \in delivered /\ o \in Token /\ rows[o].family = seen[r].family /\ n # o
  BY <1>1, NoneAssumption DEF HasRow, IInv, TypeOK, NewInv
<1>3. rows[o].rev = 1
  BY <1>1 DEF Succeeds, Accepted, MarkUsedWrite, UnusedRow
<1>4. /\ rows' = [rows EXCEPT ![o] = [family |-> rows[o].family, used_at |-> TRUE,
                                      replaced_by |-> n, rev |-> 2]]
      /\ UNCHANGED <<revoked, late>>
  <2>1. Written(MarkUsedWrite(o, seen[r], n)) =
          [family |-> rows[o].family, used_at |-> TRUE, replaced_by |-> n, rev |-> 2]
    <3>1. LET w == MarkUsedWrite(o, seen[r], n)
          IN  w.op = "update" /\ w.id = o /\ w.family = rows[o].family /\ w.new = n
      BY <1>2 DEF MarkUsedWrite
    <3> QED
      BY <1>3, <3>1, WrittenRow
  <2>2. MarkUsedWrite(o, seen[r], n).op # "revoke" /\ MarkUsedWrite(o, seen[r], n).id = o
    BY DEF MarkUsedWrite
  <2>3. /\ rows' = [rows EXCEPT ![o] = Written(MarkUsedWrite(o, seen[r], n))]
        /\ UNCHANGED <<revoked, late>>
    BY <2>2 DEF Succeeds, Apply
  <2> QED
    BY <2>1, <2>3
<1>5. TypeOK'
  BY <1>1, <1>2, <1>4 DEF IInv, TypeOK, StoreTypeOK, Row, Await, Answer
<1>6. \A q \in Request \ {r} : SameHandler(q)
  BY DEF IInv, SameHandler, TypeOK
<1>7. Stored(n) /\ rows[n].rev = 1 /\ rows[n].family = rows[o].family
  BY <1>1, <1>2 DEF UnusedRow, Stored
<1>8. /\ RowsInv' /\ LateInv'
      /\ \A t \in delivered' : OnChain(t)'
      /\ \A t \in Token : rows'[t].family = rows[t].family
      /\ \A q \in Request : SameHandler(q) => HandlerInv(q)'
      /\ \A q \in Request : SameHandler(q) /\ pc[q] = "answer" /\ SetsCookie(ans[q])
                          => (Live(FamilyOf(q)) = {new[q]})'
  BY <1>1, <1>2, <1>3, <1>4, <1>5, <1>6, <1>7, MarkStep DEF TypeOK
<1>9. Live(rows[o].family)' = {n}
  <2>1. OnChain(o) /\ StoreTypeOK /\ RowsInv /\ StoreTypeOK'
    BY <1>2, <1>5 DEF IInv, TypeOK
  <2> QED
    BY <2>1, <1>1, <1>2, <1>3, <1>4, <1>7, MarkRows
<1>10. pc'[r] = "answer" /\ ans'[r] = "rotated"
  BY DEF IInv, TypeOK
<1>11. HandlerInv(r)'
  <2>1. HasRow(r)'
    BY <1>1, <1>2, <1>8 DEF HasRow
  <2>2. job'[r].who \in Browser
    BY DEF IInv, HandlerInv
  <2> QED
    BY <1>1, <1>10, <2>1, <2>2 DEF HandlerInv
<1>12. NewInv' /\ JarInv'
  BY DEF IInv, NewInv, JarInv
<1>13. HandedOutIsLive'
  <2>1. (Live(FamilyOf(r)) = {new[r]})'
    <3>1. FamilyOf(r)' = rows'[o].family /\ new'[r] = n
      BY <1>1, <1>2, <1>8 DEF FamilyOf, HasRow
    <3> QED
      BY <3>1, <1>9 DEF Live, Chain, OnChain, Stored
  <2> QED
    BY <2>1, <1>6, <1>8 DEF HandedOutIsLive, SameHandler
<1>14. ReuseRevokes'
  BY <1>4, <1>6, <1>10 DEF IInv, ReuseRevokes, SameHandler
<1> QED
  BY <1>5, <1>6, <1>8, <1>11, <1>12, <1>13, <1>14 DEF IInv

-----------------------------------------------------------------------------
(* Calls that fail, revocations, and handlers that vanish.                 *)

\* A step of one handler that leaves the rows and the browsers alone, and may leave
\* the write it was waiting for on its way to the bucket.
LEMMA SendStep ==
  ASSUME IInv, TypeOK', NEW r \in Request, OnlyHandler(r), HandlerInv(r)',
         UNCHANGED <<rows, jar, delivered>>, revoked \subseteq revoked',
         late \subseteq late', late' \subseteq late \cup Pending(r),
         \/ new'[r] = None
         \/ pc[r] # "answer" /\ new'[r] = new[r] /\ pc'[r] = "answer"
              /\ (pc[r] = "store" => ans'[r] = "store_failed"),
         ~SetsCookie(ans'[r]),
         ans'[r] = "reuse" => \/ seen'[r].family \in revoked'
                              \/ RevokeWrite(seen'[r].family) \in late'
  PROVE  IInv'
<1>1. RowsInv' /\ JarInv' /\ \A t \in delivered' : OnChain(t)'
  BY DEF IInv, RowsInv, RowOK, Stored, Rooted, ReplacementStored, OneLiveToken, Live, Chain,
         OnChain, JarInv
<1>2. ASSUME NEW w \in late' \ late
      PROVE  /\ w \in Pending(r) /\ pc[r] \in {"store", "mark_used", "revoke"}
             /\ w.op = "put" => pc[r] = "store" /\ w.id = new[r]
  BY <1>2 DEF Pending, StoreWrite, MarkUsedWrite, RevokeWrite
<1>3. ASSUME NEW q \in Request \ {r} PROVE HandlerInv(q)'
  <2>1. \A w \in late' \ late : w.op = "put" => w.id # new[q]
    BY <1>2, NoneAssumption DEF IInv, NewInv, HandlerInv
  <2> QED
    BY <2>1, KeepHandler DEF OnlyHandler, IInv
<1>4. NewInv'
  BY DEF NewInv, IInv, OnlyHandler, SameHandler
<1>5. LateInv'
  <2> SUFFICES ASSUME NEW w \in late'
               PROVE  /\ w.op = "put" => PutInv(w)'
                      /\ w.op = "update" => UpdateInv(w)'
                      /\ w.op = "revoke" => w.family \in Token
    BY DEF LateInv
  <2>1. ASSUME w \in late, w.op = "put" PROVE PutInv(w)'
    <3>1. PutInv(w)
      BY <2>1 DEF IInv, LateInv
    <3>2. \A v \in late' : v.op = "put" /\ v.id = w.id => v = w
      BY <2>1, <3>1, <1>2 DEF IInv, HandlerInv, PutInv
    <3>3. \A q \in Request : new'[q] = w.id => pc'[q] = "answer" /\ ans'[q] = "store_failed"
      BY <3>1, NoneAssumption DEF PutInv, OnlyHandler, SameHandler
    <3> QED
      BY <3>1, <3>2, <3>3 DEF PutInv, Stored, Rooted
  <2>2. ASSUME w \notin late, w.op = "put" PROVE PutInv(w)'
    <3>1. pc[r] = "store" /\ w = StoreWrite(new[r], FamilyOf(r)) /\ HandlerInv(r)
      BY <1>2, <2>2 DEF Pending, IInv
    <3>2. w.id = new[r] /\ w.family = FamilyOf(r) /\ w.new = None
      BY <3>1 DEF StoreWrite
    <3>3. /\ new[r] \in Token /\ ~Stored(new[r])
          /\ \A v \in late : v.op = "put" => v.id # new[r]
      BY <3>1 DEF HandlerInv
    <3>4. w.family \in Token /\ (w.family = w.id \/ Rooted(w.family))
      BY <3>1, <3>2, <3>3 DEF FamilyOf, IInv, HandlerInv, HasRow, UnusedRow, RowsInv, OnChain, TypeOK
    <3>5. \A v \in late' : v.op = "put" /\ v.id = w.id => v = w
      BY <1>2, <3>1, <3>2, <3>3 DEF Pending
    <3>6. \A q \in Request : new'[q] = w.id => pc'[q] = "answer" /\ ans'[q] = "store_failed"
      BY <3>1, <3>2, <3>3, NoneAssumption DEF OnlyHandler, SameHandler, IInv, NewInv
    <3> QED
      BY <3>2, <3>3, <3>4, <3>5, <3>6 DEF PutInv, Stored, Rooted
  <2>3. ASSUME w \in late, w.op = "update" PROVE UpdateInv(w)'
    BY <2>3 DEF IInv, LateInv, UpdateInv, Stored
  <2>4. ASSUME w \notin late, w.op = "update" PROVE UpdateInv(w)'
    <3>1. pc[r] = "mark_used" /\ w = MarkUsedWrite(job[r].tok, seen[r], new[r]) /\ HandlerInv(r)
      BY <1>2, <2>4 DEF Pending, StoreWrite, RevokeWrite, IInv
    <3> QED
      BY <3>1 DEF HandlerInv, HasRow, UnusedRow, MarkUsedWrite, UpdateInv, Stored
  <2>5. ASSUME w.op = "revoke" PROVE w.family \in Token
    <3>1. CASE w \in late
      BY <2>5, <3>1 DEF IInv, LateInv
    <3>2. CASE w \notin late
      BY <2>5, <3>2, <1>2 DEF Pending, StoreWrite, MarkUsedWrite, RevokeWrite, IInv, HandlerInv,
                              HasRow, UnusedRow, UsedRow
    <3> QED
      BY <3>1, <3>2
  <2> QED
    BY <2>1, <2>2, <2>3, <2>4, <2>5
<1>6. HandedOutIsLive'
  <2> SUFFICES ASSUME NEW q \in Request, pc'[q] = "answer", SetsCookie(ans'[q])
               PROVE  (Live(FamilyOf(q)) = {new[q]})'
    BY DEF HandedOutIsLive
  <2>1. q # r /\ SameHandler(q)
    BY DEF OnlyHandler
  <2>2. Live(FamilyOf(q)) = {new[q]}
    BY <2>1 DEF SameHandler, IInv, HandedOutIsLive
  <2> QED
    BY <2>1, <2>2 DEF SameHandler, FamilyOf, Live, Chain, OnChain, Stored
<1>7. ReuseRevokes'
  BY DEF IInv, ReuseRevokes, OnlyHandler, SameHandler, RevokeWrite
<1> QED
  BY <1>1, <1>3, <1>4, <1>5, <1>6, <1>7 DEF IInv

LEMMA StoreNewStep ==
  ASSUME IInv, NEW r \in Request, StoreNew(r)
  PROVE  IInv'
<1> DEFINE w == StoreWrite(new[r], FamilyOf(r))
<1>1. pc[r] = "store" /\ UNCHANGED <<job, seen, new, jar, delivered>>
  BY DEF StoreNew
<1>2. CASE Succeeds(w) /\ UNCHANGED spent
           /\ IF job[r].kind = "token" THEN AnswerWith(r, "opened") ELSE GoTo(r, "mark_used")
  BY <1>1, <1>2, StoreNewSucceeds
<1>3. CASE Fails(w) /\ Spend("write", MaxWriteFaults) /\ AnswerWith(r, "store_failed")
  <2> USE DEF AnswerWith
  <2>1. w \in Write /\ Pending(r) = {w}
    BY <1>1 DEF StoreWrite, Write, FamilyOf, IInv, TypeOK, Pending, Row
  <2>2. UNCHANGED <<rows, revoked>> /\ late' = late \cup {w}
    BY <1>3 DEF Fails
  <2>3. spent' \in [Bound -> Nat]
    BY <1>3, SpendType DEF IInv, TypeOK, Bound
  <2>4. TypeOK'
    BY <1>1, <1>3, <2>1, <2>2, <2>3 DEF IInv, TypeOK, StoreTypeOK, Await, Answer
  <2>5. HandlerInv(r)'
    BY <1>1, <1>3 DEF IInv, TypeOK, HandlerInv
  <2> QED
    BY <1>1, <1>3, <2>1, <2>2, <2>4, <2>5, SendStep
    DEF OnlyHandler, SameHandler, IInv, TypeOK, SetsCookie
<1> QED
  BY <1>2, <1>3 DEF StoreNew

LEMMA MarkUsedConflicts ==
  ASSUME IInv, NEW r \in Request, pc[r] = "mark_used", GoTo(r, "revoke"),
         UNCHANGED <<rows, revoked, late, job, seen, new, jar, delivered, spent>>
  PROVE  IInv'
<1> USE DEF GoTo
<1>1. TypeOK'
  BY DEF IInv, TypeOK, StoreTypeOK, Await
<1>2. HandlerInv(r)'
  BY DEF IInv, TypeOK, HandlerInv, HasRow
<1> QED
  BY <1>1, <1>2, LocalStep DEF OnlyHandler, SameHandler, IInv, TypeOK, HandlerInv, SetsCookie

LEMMA MarkUsedStep ==
  ASSUME IInv, NEW r \in Request, MarkUsed(r)
  PROVE  IInv'
<1> DEFINE w == MarkUsedWrite(job[r].tok, seen[r], new[r])
<1>1. pc[r] = "mark_used" /\ UNCHANGED <<job, seen, new, jar, delivered>>
  BY DEF MarkUsed
<1>2. CASE Succeeds(w) /\ AnswerWith(r, "rotated") /\ UNCHANGED spent
  BY <1>1, <1>2, MarkUsedSucceeds
<1>3. CASE Conflicts(w) /\ GoTo(r, "revoke") /\ UNCHANGED spent
  BY <1>1, <1>3, MarkUsedConflicts DEF Conflicts, storeVars
<1>4. CASE Fails(w) /\ Spend("write", MaxWriteFaults) /\ AnswerWith(r, "store_failed")
  <2> USE DEF AnswerWith
  <2>1. w \in Write /\ Pending(r) = {w}
    BY <1>1 DEF MarkUsedWrite, Write, IInv, TypeOK, Pending, Row
  <2>2. UNCHANGED <<rows, revoked>> /\ late' = late \cup {w}
    BY <1>4 DEF Fails
  <2>3. spent' \in [Bound -> Nat]
    BY <1>4, SpendType DEF IInv, TypeOK, Bound
  <2>4. TypeOK'
    BY <1>1, <1>4, <2>1, <2>2, <2>3 DEF IInv, TypeOK, StoreTypeOK, Await, Answer
  <2>5. HandlerInv(r)'
    BY <1>1, <1>4 DEF IInv, TypeOK, HandlerInv
  <2> QED
    BY <1>1, <1>4, <2>1, <2>2, <2>4, <2>5, SendStep
    DEF OnlyHandler, SameHandler, IInv, TypeOK, SetsCookie
<1> QED
  BY <1>2, <1>3, <1>4 DEF MarkUsed

LEMMA RevokeFamilyStep ==
  ASSUME IInv, NEW r \in Request, RevokeFamily(r)
  PROVE  IInv'
<1> DEFINE w == RevokeWrite(seen[r].family)
           a == IF job[r].kind = "logout" THEN "logged_out" ELSE "reuse"
<1> USE DEF AnswerWith
<1>1. /\ pc[r] = "revoke" /\ AnswerWith(r, a)
      /\ UNCHANGED <<job, seen, new, jar, delivered>>
      /\ \/ Succeeds(w) /\ UNCHANGED spent
         \/ Fails(w) /\ Spend("write", MaxWriteFaults)
  BY DEF RevokeFamily
<1>2. HasRow(r) /\ seen[r].family \in Token /\ job[r].who \in Browser
  BY <1>1 DEF IInv, HandlerInv, HasRow, UnusedRow, UsedRow
<1>3. w \in Write /\ Pending(r) = {w}
  BY <1>1, <1>2 DEF RevokeWrite, Write, Pending
<1>4. /\ UNCHANGED rows
      /\ \/ UNCHANGED late /\ revoked' = revoked \cup {seen[r].family}
         \/ UNCHANGED revoked /\ late' = late \cup {w}
  BY <1>1 DEF Succeeds, Fails, Apply, RevokeWrite
<1>5. spent' \in [Bound -> Nat]
  BY <1>1, SpendType DEF IInv, TypeOK, Bound
<1>6. TypeOK'
  BY <1>1, <1>2, <1>3, <1>4, <1>5 DEF IInv, TypeOK, StoreTypeOK, Await, Answer
<1>7. pc'[r] = "answer" /\ ans'[r] \in {"logged_out", "reuse"} /\ OnlyHandler(r)
  BY <1>1 DEF IInv, TypeOK, OnlyHandler, SameHandler
<1>8. HandlerInv(r)'
  BY <1>1, <1>2, <1>4, <1>7 DEF HandlerInv, HasRow
<1> QED
  BY <1>1, <1>3, <1>4, <1>6, <1>7, <1>8, SendStep DEF SetsCookie

LEMMA AbortStep ==
  ASSUME IInv, NEW r \in Request, Abort(r)
  PROVE  IInv'
<1> USE DEF Forget
<1>1. /\ late' \in {late, late \cup Pending(r)}
      /\ UNCHANGED <<rows, revoked, jar, delivered>>
      /\ Forget(r)
  BY DEF Abort
<1>2. Pending(r) \subseteq Write
  <2>1. seen[r] \in Row /\ job[r].tok \in Token \cup {None} /\ new[r] \in Token \cup {None}
    BY DEF IInv, TypeOK
  <2>2. FamilyOf(r) \in Token \cup {None}
    BY <2>1 DEF FamilyOf, Row
  <2>3. StoreWrite(new[r], FamilyOf(r)) \in Write
    BY <2>1, <2>2 DEF StoreWrite, Write
  <2>4. MarkUsedWrite(job[r].tok, seen[r], new[r]) \in Write
    BY <2>1 DEF MarkUsedWrite, Write, Row
  <2>5. RevokeWrite(seen[r].family) \in Write
    BY <2>1 DEF RevokeWrite, Write, Row
  <2> QED
    BY <2>3, <2>4, <2>5 DEF Pending
<1>3. spent' \in [Bound -> Nat]
  BY SpendType DEF Abort, IInv, TypeOK, Bound
<1>4. TypeOK'
  BY <1>1, <1>2, <1>3
  DEF IInv, TypeOK, StoreTypeOK, Await, Answer, NoJob, Kind, NoRow, Row
<1>5. pc'[r] = "idle" /\ new'[r] = None /\ ans'[r] = "none" /\ OnlyHandler(r)
  BY <1>1 DEF IInv, TypeOK, OnlyHandler, SameHandler
<1>6. HandlerInv(r)'
  BY <1>5 DEF HandlerInv
<1> QED
  BY <1>1, <1>4, <1>5, <1>6, SendStep DEF SetsCookie

-----------------------------------------------------------------------------
(* Answers.                                                                *)

LEMMA RespondStep ==
  ASSUME IInv, NEW r \in Request, Respond(r)
  PROVE  IInv'
<1> USE DEF Forget
<1>1. /\ pc[r] = "answer" /\ Forget(r) /\ UNCHANGED <<rows, revoked, late, spent>>
      /\ delivered' = IF SetsCookie(ans[r]) THEN delivered \cup {new[r]} ELSE delivered
  BY DEF Respond
<1>2. SetsCookie(ans[r]) => new[r] \in Token /\ OnChain(new[r])
  BY <1>1 DEF IInv, HandedOutIsLive, Live, Chain
<1>3. TypeOK'
  <2>1. jar' \in [Browser -> Token \cup {None}]
    BY <1>2 DEF Respond, IInv, TypeOK
  <2> QED
    BY <1>1, <1>2, <2>1 DEF IInv, TypeOK, StoreTypeOK, Await, Answer, NoJob, Kind, NoRow, Row
<1>4. pc'[r] = "idle" /\ new'[r] = None /\ ans'[r] = "none" /\ OnlyHandler(r)
  BY <1>1 DEF IInv, TypeOK, OnlyHandler, SameHandler
<1>5. RowsInv'
  BY <1>1 DEF IInv, RowsInv, RowOK, Stored, Rooted, ReplacementStored, OneLiveToken, Live,
              Chain, OnChain
<1>6. \A t \in delivered' : OnChain(t)'
  BY <1>1, <1>2 DEF IInv, OnChain, Stored
<1>7. ASSUME NEW q \in Request PROVE HandlerInv(q)'
  <2>1. CASE q = r
    BY <2>1, <1>4 DEF HandlerInv
  <2>2. CASE q # r
    BY <2>2, <1>1, <1>4, KeepHandler DEF OnlyHandler, IInv
  <2> QED
    BY <2>1, <2>2
<1>8. NewInv'
  BY <1>1, <1>2, <1>4, NoneAssumption DEF IInv, NewInv, OnlyHandler, SameHandler
<1>12. JarInv'
  BY <1>1 DEF Respond, IInv, TypeOK, JarInv
<1>9. LateInv'
  <2> SUFFICES ASSUME NEW w \in late
               PROVE  /\ w.op = "put" => PutInv(w)'
                      /\ w.op = "update" => UpdateInv(w)'
                      /\ w.op = "revoke" => w.family \in Token
    BY <1>1 DEF LateInv
  <2>1. w.op = "put" => PutInv(w)'
    BY <1>1, <1>4, NoneAssumption
    DEF IInv, LateInv, PutInv, OnlyHandler, SameHandler, Stored, Rooted
  <2>2. w.op = "update" => UpdateInv(w)'
    BY <1>1 DEF IInv, LateInv, UpdateInv, Stored
  <2> QED
    BY <2>1, <2>2 DEF IInv, LateInv
<1>10. HandedOutIsLive'
  BY <1>1, <1>4 DEF IInv, HandedOutIsLive, OnlyHandler, SameHandler, FamilyOf, Live, Chain,
                    OnChain, Stored
<1>11. ReuseRevokes'
  BY <1>1, <1>4 DEF IInv, ReuseRevokes, OnlyHandler, SameHandler, RevokeWrite
<1> QED
  BY <1>3, <1>5, <1>6, <1>7, <1>8, <1>9, <1>10, <1>11, <1>12 DEF IInv

-----------------------------------------------------------------------------
(* Late writes.                                                            *)

LEMMA ArriveStep ==
  ASSUME IInv, Arrive
  PROVE  IInv'
<1>1. PICK w \in late : /\ late' = late \ {w}
                        /\ IF Accepted(w) THEN Apply(w) ELSE UNCHANGED <<rows, revoked>>
  BY DEF Arrive, LateArrival
<1>2. UNCHANGED <<pc, job, seen, new, ans, jar, delivered, spent>>
  BY DEF Arrive
<1>3. \A q \in Request : SameHandler(q)
  BY <1>2 DEF SameHandler
<1>4. w \in Write /\ NewInv' /\ JarInv'
  BY <1>2 DEF IInv, TypeOK, StoreTypeOK, NewInv, JarInv
<1>5. CASE w.op = "put"
  <2>1. PutInv(w) /\ rows[w.id].rev = 0
    BY <1>5 DEF IInv, LateInv, PutInv, RowsInv, RowOK, UnusedRow, UsedRow, NoRow, Stored
  <2>2. /\ rows' = [rows EXCEPT ![w.id] = [family |-> w.family, used_at |-> FALSE,
                                           replaced_by |-> None, rev |-> 1]]
        /\ UNCHANGED revoked
    BY <1>1, <1>5, <2>1, WrittenRow DEF Accepted, Apply, PutInv
  <2>3. TypeOK'
    BY <1>1, <1>2, <2>1, <2>2 DEF IInv, TypeOK, StoreTypeOK, PutInv, Row
  <2>4. \A v \in late' : v.op = "put" => v.id # w.id
    BY <1>1, <2>1 DEF PutInv
  <2>5. /\ RowsInv' /\ LateInv'
        /\ \A t \in delivered' : OnChain(t)'
        /\ \A q \in Request : new[q] # w.id => HandlerInv(q)'
        /\ \A q \in Request : new[q] # w.id /\ pc[q] = "answer" /\ SetsCookie(ans[q])
                            => (Live(FamilyOf(q)) = {new[q]})'
    BY <1>1, <1>2, <1>3, <2>1, <2>2, <2>3, <2>4, PutStep DEF PutInv, TypeOK
  <2>6. \A q \in Request : new[q] = w.id => pc[q] = "answer" /\ ans[q] = "store_failed"
    BY <2>1 DEF PutInv
  <2>7. ASSUME NEW q \in Request, new[q] = w.id PROVE HandlerInv(q)'
    BY <1>2, <2>6, <2>7 DEF IInv, HandlerInv
  <2>8. HandedOutIsLive'
    BY <1>2, <2>5, <2>6 DEF HandedOutIsLive, SetsCookie
  <2>9. ReuseRevokes'
    BY <1>1, <1>2, <1>5, <2>2 DEF IInv, ReuseRevokes, RevokeWrite
  <2> QED
    BY <1>4, <2>3, <2>5, <2>7, <2>8, <2>9 DEF IInv
<1>6. CASE w.op = "update" /\ Accepted(w)
  <2>1. UpdateInv(w) /\ rows[w.id].rev = 1
    BY <1>6 DEF IInv, LateInv, UpdateInv, Accepted
  <2>2. /\ rows' = [rows EXCEPT ![w.id] = [family |-> rows[w.id].family, used_at |-> TRUE,
                                           replaced_by |-> w.new, rev |-> 2]]
        /\ UNCHANGED revoked
    <3>1. Written(w) = [family |-> rows[w.id].family, used_at |-> TRUE,
                        replaced_by |-> w.new, rev |-> 2]
      BY <1>6, <2>1, WrittenRow DEF UpdateInv
    <3> QED
      BY <1>1, <1>6, <3>1 DEF Apply
  <2>3. TypeOK'
    BY <1>1, <1>2, <2>1, <2>2 DEF IInv, TypeOK, StoreTypeOK, UpdateInv, Row
  <2>4. /\ RowsInv' /\ LateInv'
        /\ \A t \in delivered' : OnChain(t)'
        /\ \A q \in Request : SameHandler(q) => HandlerInv(q)'
        /\ \A q \in Request : SameHandler(q) /\ pc[q] = "answer" /\ SetsCookie(ans[q])
                            => (Live(FamilyOf(q)) = {new[q]})'
    BY <1>1, <1>2, <1>3, <2>1, <2>2, <2>3, MarkStep DEF UpdateInv, TypeOK
  <2>5. HandedOutIsLive'
    BY <1>2, <1>3, <2>4 DEF HandedOutIsLive
  <2>6. ReuseRevokes'
    BY <1>1, <1>2, <1>6, <2>2 DEF IInv, ReuseRevokes, RevokeWrite
  <2> QED
    BY <1>3, <1>4, <2>3, <2>4, <2>5, <2>6 DEF IInv
<1>7. ASSUME UNCHANGED rows, revoked \subseteq revoked', revoked' \subseteq Token,
             w = RevokeWrite(w.family) => w.family \in revoked'
      PROVE  IInv'
  <2>1. TypeOK'
    BY <1>1, <1>2, <1>7 DEF IInv, TypeOK, StoreTypeOK
  <2>2. RowsInv' /\ \A t \in delivered' : OnChain(t)'
    BY <1>2, <1>7 DEF IInv, RowsInv, RowOK, Stored, Rooted, ReplacementStored, OneLiveToken,
                      Live, Chain, OnChain
  <2>3. ASSUME NEW q \in Request PROVE HandlerInv(q)'
    BY <1>1, <1>2, <1>3, <1>7, KeepHandler DEF IInv
  <2>4. LateInv'
    BY <1>1, <1>2, <1>7 DEF IInv, LateInv, PutInv, UpdateInv, Stored, Rooted
  <2>5. HandedOutIsLive'
    BY <1>2, <1>7 DEF IInv, HandedOutIsLive, FamilyOf, Live, Chain, OnChain, Stored
  <2>6. ReuseRevokes'
    <3> SUFFICES ASSUME NEW q \in Request, ans'[q] = "reuse"
                 PROVE  \/ seen[q].family \in revoked'
                        \/ RevokeWrite(seen[q].family) \in late'
      BY <1>2 DEF ReuseRevokes, RevokeWrite
    <3>1. seen[q].family \in revoked \/ RevokeWrite(seen[q].family) \in late
      BY <1>2 DEF IInv, ReuseRevokes
    <3>2. RevokeWrite(seen[q].family).family = seen[q].family
      BY DEF RevokeWrite
    <3> QED
      BY <1>1, <1>7, <3>1, <3>2
  <2> QED
    BY <1>4, <2>1, <2>2, <2>3, <2>4, <2>5, <2>6 DEF IInv
<1>8. CASE w.op = "update" /\ ~Accepted(w)
  BY <1>1, <1>7, <1>8 DEF RevokeWrite, IInv, TypeOK, StoreTypeOK
<1>9. CASE w.op = "revoke"
  BY <1>1, <1>7, <1>9 DEF Accepted, Apply, IInv, TypeOK, StoreTypeOK, LateInv
<1> QED
  BY <1>4, <1>5, <1>6, <1>8, <1>9 DEF Write

-----------------------------------------------------------------------------
(* The invariant.                                                          *)

LEMMA InitInv == Init => IInv
<1> SUFFICES ASSUME Init PROVE IInv
  OBVIOUS
<1> USE NoneAssumption DEF Init, StoreInit
<1>1. TypeOK
  BY DEF TypeOK, StoreTypeOK, Row, NoRow, NoJob, Kind, Await, Answer, Bound
<1>2. ASSUME NEW t \in Token PROVE rows[t] = NoRow /\ ~Stored(t) /\ ~rows[t].used_at
  <2>1. rows[t] = NoRow
    OBVIOUS
  <2>2. ~(NoRow.rev > 0) /\ ~NoRow.used_at
    BY DEF NoRow
  <2> QED
    BY <2>1, <2>2 DEF Stored
<1>3. RowsInv
  BY <1>2 DEF RowsInv, RowOK, ReplacementStored, OneLiveToken, Live, Chain, OnChain
<1>4. \A r \in Request : HandlerInv(r)
  BY DEF HandlerInv
<1>5. NewInv /\ JarInv /\ LateInv /\ HandedOutIsLive /\ ReuseRevokes
  BY DEF NewInv, JarInv, LateInv, HandedOutIsLive, ReuseRevokes
<1> QED
  BY <1>1, <1>3, <1>4, <1>5 DEF IInv

LEMMA StutterInv == IInv /\ UNCHANGED vars => IInv'
<1> SUFFICES ASSUME IInv, UNCHANGED vars PROVE IInv'
  OBVIOUS
<1> USE DEF vars
<1>1. TypeOK'
  BY DEF IInv, TypeOK, StoreTypeOK
<1>2. RowsInv' /\ JarInv' /\ \A t \in delivered' : OnChain(t)'
  BY DEF IInv, RowsInv, RowOK, Stored, Rooted, ReplacementStored, OneLiveToken, Live, Chain,
         OnChain, JarInv
<1>3. \A q \in Request : HandlerInv(q)'
  BY KeepHandler DEF IInv, SameHandler
<1>4. NewInv' /\ LateInv'
  BY DEF IInv, NewInv, LateInv, PutInv, UpdateInv, Stored, Rooted
<1>5. HandedOutIsLive' /\ ReuseRevokes'
  BY DEF IInv, HandedOutIsLive, ReuseRevokes, FamilyOf, Live, Chain, OnChain, Stored, RevokeWrite
<1> QED
  BY <1>1, <1>2, <1>3, <1>4, <1>5 DEF IInv

LEMMA NextInv == IInv /\ Next => IInv'
<1> SUFFICES ASSUME IInv, Next PROVE IInv'
  OBVIOUS
<1>1. ASSUME NEW r \in Request, NEW b \in Browser, Login(r, b) PROVE IInv'
  BY <1>1, LoginStep
<1>2. ASSUME NEW r \in Request, NEW b \in Browser, PresentBody(r, b) PROVE IInv'
  <2>1. PICK t \in delivered : Accept(r, b, "refresh", t)
    BY <1>2 DEF PresentBody
  <2>2. spent' \in [Bound -> Nat]
    BY <1>2, SpendType DEF PresentBody, IInv, TypeOK, Bound
  <2> QED
    BY <1>2, <2>1, <2>2, PresentStep DEF PresentBody, Kind
<1>3. ASSUME NEW r \in Request, NEW b \in Browser, NEW k \in Kind, PresentCookie(r, b, k)
      PROVE  IInv'
  <2>1. spent' \in [Bound -> Nat] /\ UNCHANGED new
    BY <1>3 DEF PresentCookie, IInv, TypeOK
  <2>2. jar[b] \in delivered
    BY <1>3 DEF PresentCookie, IInv, JarInv
  <2> QED
    BY <1>3, <2>1, <2>2, PresentStep DEF PresentCookie
<1>4. ASSUME NEW r \in Request, NEW b \in Browser, NEW k \in Kind, PresentNothing(r, b, k)
      PROVE  IInv'
  BY <1>4, PresentNothingStep
<1>5. ASSUME NEW r \in Request, Serve(r) PROVE IInv'
  BY <1>5, FindStep, IsFamilyRevokedStep, StoreNewStep, MarkUsedStep, RevokeFamilyStep,
     RespondStep DEF Serve
<1>6. ASSUME NEW r \in Request, Abort(r) PROVE IInv'
  BY <1>6, AbortStep
<1> QED
  BY <1>1, <1>2, <1>3, <1>4, <1>5, <1>6, ArriveStep DEF Next

\* The invariant IInv holds in every reachable state of every instance.
THEOREM InvariantHolds == Spec => []IInv
<1>1. IInv /\ [Next]_vars => IInv'
  BY NextInv, StutterInv
<1> QED
  BY InitInv, <1>1, PTL DEF Spec

-----------------------------------------------------------------------------
(* What it says.                                                           *)

\* Every variable of the handlers, the store and the browsers stays in its type
\* (all handlers).
THEOREM TypesHold == Spec => []TypeOK
<1>1. IInv => TypeOK
  BY DEF IInv
<1> QED
  BY <1>1, InvariantHolds, PTL

\* A family of refresh tokens never forks, whatever overlaps, fails or arrives late
\* (rotate).
THEOREM FamiliesNeverFork == Spec => []OneLiveToken
<1>1. IInv => OneLiveToken
  BY DEF IInv, RowsInv
<1> QED
  BY <1>1, InvariantHolds, PTL

\* Store-then-mark never leaves a used token without a stored successor (rotate).
THEOREM SuccessorsAreStored == Spec => []ReplacementStored
<1>1. IInv => ReplacementStored
  BY DEF IInv, RowsInv
<1> QED
  BY <1>1, InvariantHolds, PTL

\* The cookie of an answer on its way is the live token of its family (the success
\* paths of token, refresh and check).
THEOREM AnswersCarryLiveTokens == Spec => []HandedOutIsLive
<1>1. IInv => HandedOutIsLive
  BY DEF IInv
<1> QED
  BY <1>1, InvariantHolds, PTL

\* A token a browser received is on its family's chain, and is used unless it is the
\* live one: a replay can always be told from a first use (rotate).
THEOREM ReplaysAreEvident == Spec => []DeliveredOnChain
<1>1. IInv => DeliveredOnChain
  <2> SUFFICES ASSUME IInv, NEW t \in delivered, ~rows[t].used_at
               PROVE  OnChain(t) /\ Live(rows[t].family) = {t}
    BY DEF DeliveredOnChain, IInv
  <2>1. t \in Token /\ OnChain(t) /\ RowsInv
    BY DEF IInv, TypeOK
  <2>2. t \in Live(rows[t].family) /\ rows[t].family \in Token
    BY <2>1 DEF Live, Chain, OnChain, Stored, RowsInv, RowOK, UnusedRow, UsedRow, NoRow
  <2> QED
    BY <2>1, <2>2 DEF RowsInv, OneLiveToken, Live, Chain
<1> QED
  BY <1>1, InvariantHolds, PTL

\* No reuse verdict without the revocation having been sent (rotate).
THEOREM VerdictsRevoke == Spec => []ReuseRevokes
<1>1. IInv => ReuseRevokes
  BY DEF IInv
<1> QED
  BY <1>1, InvariantHolds, PTL

-----------------------------------------------------------------------------
(* What a step may never do.                                               *)

\* A write that the bucket accepts, from a handler that waits for it or late, never
\* touches a used row.
LEMMA WritesSpareUsedRows ==
  ASSUME IInv, NEW w, Apply(w), Accepted(w),
         w \in late \/ \E r \in Request : w \in Pending(r)
  PROVE  \A t \in Token : rows[t].used_at => rows'[t] = rows[t]
<1>1. \A t \in Token : rows[t].used_at => rows[t].rev = 2
  BY DEF IInv, RowsInv, RowOK, UnusedRow, UsedRow, NoRow
<1>2. \/ w.op = "revoke"
      \/ w.op # "revoke" /\ w.id \in Token /\ rows[w.id].rev # 2
  <2>1. CASE w \in late
    <3>1. w.op = "put" => w.id \in Token /\ rows[w.id].rev # 2
      BY <2>1 DEF IInv, LateInv, PutInv, Stored
    <3>2. w.op = "update" => w.id \in Token /\ rows[w.id].rev # 2
      BY <2>1 DEF IInv, LateInv, UpdateInv, Accepted, TypeOK
    <3> QED
      BY <2>1, <3>1, <3>2 DEF IInv, TypeOK, StoreTypeOK, Write
  <2>2. ASSUME NEW r \in Request, w \in Pending(r)
        PROVE  \/ w.op = "revoke"
               \/ w.op # "revoke" /\ w.id \in Token /\ rows[w.id].rev # 2
    <3>1. CASE pc[r] = "store"
      BY <2>2, <3>1 DEF Pending, StoreWrite, IInv, HandlerInv, Stored
    <3>2. CASE pc[r] = "mark_used"
      BY <2>2, <3>2 DEF Pending, MarkUsedWrite, Accepted, IInv, HandlerInv, HasRow, UnusedRow,
                        TypeOK
    <3>3. CASE pc[r] = "revoke"
      BY <2>2, <3>3 DEF Pending, RevokeWrite
    <3> QED
      BY <2>2, <3>1, <3>2, <3>3 DEF Pending
  <2> QED
    BY <2>1, <2>2
<1> QED
  BY <1>1, <1>2 DEF Apply, IInv, TypeOK, StoreTypeOK

LEMMA NextSparesUsedRows ==
  ASSUME IInv, [Next]_vars
  PROVE  \A t \in Token : rows[t].used_at => rows'[t] = rows[t]
<1>1. ASSUME NEW r \in Request, StoreNew(r)
      PROVE  \A t \in Token : rows[t].used_at => rows'[t] = rows[t]
  BY <1>1, WritesSpareUsedRows DEF StoreNew, Succeeds, Fails, Pending
<1>2. ASSUME NEW r \in Request, MarkUsed(r)
      PROVE  \A t \in Token : rows[t].used_at => rows'[t] = rows[t]
  BY <1>2, WritesSpareUsedRows DEF MarkUsed, Succeeds, Conflicts, Fails, Pending, storeVars
<1>3. ASSUME NEW r \in Request, RevokeFamily(r)
      PROVE  \A t \in Token : rows[t].used_at => rows'[t] = rows[t]
  BY <1>3 DEF RevokeFamily, Succeeds, Fails, Apply, RevokeWrite
<1>4. ASSUME Arrive
      PROVE  \A t \in Token : rows[t].used_at => rows'[t] = rows[t]
  BY <1>4, WritesSpareUsedRows DEF Arrive, LateArrival
<1>5. ASSUME UNCHANGED rows
      PROVE  \A t \in Token : rows[t].used_at => rows'[t] = rows[t]
  BY <1>5
<1> QED
  BY <1>1, <1>2, <1>3, <1>4, <1>5
  DEF Next, vars, Serve, Login, PresentCookie, PresentBody, PresentNothing, Accept, Find,
      IsFamilyRevoked, Respond, Abort

\* A used row is final (mark_used): nothing gives a token a second successor.
THEOREM UsedRowsStayFinal == Spec => UsedRowsAreFinal
<1>1. IInv /\ [Next]_vars => [\A t \in Token : rows[t].used_at => rows'[t] = rows[t]]_vars
  BY NextSparesUsedRows
<1> QED
  BY <1>1, InvariantHolds, PTL DEF Spec, UsedRowsAreFinal
=============================================================================
