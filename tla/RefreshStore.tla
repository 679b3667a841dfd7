---------------------------- MODULE RefreshStore ----------------------------
(***************************************************************************)
(* The refresh token store of svc-auth (src/src/refresh_store.rs) over the *)
(* NATS KV bucket EPHEMERAL_AUTH: one row per refresh token, one marker    *)
(* per revoked token family, and the writes the service sends to the       *)
(* bucket.                                                                 *)
(*                                                                         *)
(* Data abstraction.  A token is its id.  A family is named by the token   *)
(* its login stored: the family id is drawn together with that token's id, *)
(* so the two name each other.  The timestamps used_at and revoked_at are  *)
(* kept as "is some".  A revision counts the writes to one key: the code   *)
(* compares revisions of one key for equality and nothing else.  Rows and  *)
(* markers do not age here (the bucket's max_age is about 30 days).        *)
(***************************************************************************)
EXTENDS Naturals

CONSTANTS Token,  \* ids of refresh tokens
          None    \* the absent id

ASSUME NoneAssumption == None \notin Token

VARIABLES rows,     \* the row of every token id; NoRow when there is none
          revoked,  \* families that have a revocation marker
          late      \* writes reported as failed, that the bucket may still apply

storeVars == <<rows, revoked, late>>

Row == [family : Token \cup {None}, used_at : BOOLEAN,
        replaced_by : Token \cup {None}, rev : Nat]

\* A key that was never written has revision 0.
NoRow == [family |-> None, used_at |-> FALSE, replaced_by |-> None, rev |-> 0]

Stored(t) == rows[t].rev > 0

-----------------------------------------------------------------------------
(* The writes of the store, as the messages the service sends.             *)

Write == [op : {"put", "update", "revoke"}, id : Token \cup {None},
          family : Token \cup {None}, new : Token \cup {None}, rev : Nat]

\* store: an unconditional put of a row that is unused.
StoreWrite(t, f) ==
  [op |-> "put", id |-> t, family |-> f, new |-> None, rev |-> 0]

\* mark_used: the row read at revision "rev" with used_at and replaced_by set,
\* to be written only if the key is still at that revision.
MarkUsedWrite(t, row, n) ==
  [op |-> "update", id |-> t, family |-> row.family, new |-> n, rev |-> row.rev]

\* revoke_family: an unconditional put of the family's marker.
RevokeWrite(f) ==
  [op |-> "revoke", id |-> None, family |-> f, new |-> None, rev |-> 0]

\* Mutant: a put where update_if belongs, so that no update is ever refused.
AcceptedBlindly(w) == TRUE

\* update_if: the compare half of the compare-and-swap.
Accepted(w) == w.op = "update" => rows[w.id].rev = w.rev

\* The row that a put or an update leaves under its key.
Written(w) == [family |-> w.family, used_at |-> w.op = "update",
               replaced_by |-> w.new, rev |-> rows[w.id].rev + 1]

\* The bucket applies an accepted write.
Apply(w) ==
  /\ rows' = IF w.op = "revoke" THEN rows ELSE [rows EXCEPT ![w.id] = Written(w)]
  /\ revoked' = IF w.op = "revoke" THEN revoked \cup {w.family} ELSE revoked

-----------------------------------------------------------------------------
(* A call that writes has up to three outcomes: the bucket applies the     *)
(* write and says so, the bucket refuses an update whose revision is       *)
(* stale, or the call fails.  A failed call says nothing of the write: it  *)
(* stays in "late", where the bucket applies it some time later or never.  *)

Succeeds(w) == Accepted(w) /\ Apply(w) /\ UNCHANGED late

Conflicts(w) == ~Accepted(w) /\ UNCHANGED storeVars

Fails(w) == late' = late \cup {w} /\ UNCHANGED <<rows, revoked>>

\* The bucket receives a write whose caller has already been told of an error.
LateArrival ==
  \E w \in late : /\ late' = late \ {w}
                  /\ IF Accepted(w) THEN Apply(w) ELSE UNCHANGED <<rows, revoked>>

StoreInit == /\ rows = [t \in Token |-> NoRow]
             /\ revoked = {}
             /\ late = {}

StoreTypeOK == /\ rows \in [Token -> Row]
               /\ revoked \subseteq Token
               /\ late \subseteq Write
=============================================================================
