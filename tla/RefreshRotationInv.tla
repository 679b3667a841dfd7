------------------------- MODULE RefreshRotationInv -------------------------
(***************************************************************************)
(* The inductive invariant of RefreshRotation.  TLC checks it on a small   *)
(* instance; RefreshRotationProofs proves it for every instance.           *)
(***************************************************************************)
EXTENDS RefreshRotation

\* A key is written at most twice: once by store, once by mark_used.  So a row at
\* revision 1 is unused, and the compare-and-swap at revision 1 cannot touch a
\* used row.
UnusedRow(row) == row.family \in Token /\ row.rev = 1 /\ ~row.used_at /\ row.replaced_by = None
UsedRow(row) == row.family \in Token /\ row.rev = 2 /\ row.used_at /\ row.replaced_by \in Token
RowOK(row) == row = NoRow \/ UnusedRow(row) \/ UsedRow(row)

\* The token that gave a family its name is stored before any other of the family.
Rooted(f) == rows[f].family = f

\* What holds of the rows alone.
RowsInv == /\ \A t \in Token : RowOK(rows[t])
           /\ \A t \in Token : Stored(t) => Rooted(rows[t].family)
           /\ ReplacementStored
           /\ OneLiveToken

\* A handler that has read a row of a token it was given.
HasRow(r) == /\ job[r].kind # "token"
             /\ job[r].tok \in delivered
             /\ seen[r].family = rows[job[r].tok].family
             /\ UnusedRow(seen[r]) \/ UsedRow(seen[r])

HandlerInv(r) ==
  /\ pc[r] = "idle" => new[r] = None
  /\ pc[r] # "idle" => job[r].who \in Browser
  /\ pc[r] # "answer" => ans[r] = "none"
  /\ pc[r] = "find" => job[r].kind # "token" /\ job[r].tok \in delivered
  /\ pc[r] \in {"is_revoked", "revoke"} => HasRow(r)
  /\ pc[r] = "store" =>
       /\ new[r] \in Token
       /\ ~Stored(new[r])
       /\ \A w \in late : w.op = "put" => w.id # new[r]
       /\ job[r].kind # "token" => HasRow(r) /\ UnusedRow(seen[r])
  /\ pc[r] = "mark_used" =>
       /\ new[r] \in Token
       /\ HasRow(r) /\ UnusedRow(seen[r])
       /\ UnusedRow(rows[new[r]]) /\ rows[new[r]].family = seen[r].family
  /\ pc[r] = "answer" =>
       /\ ans[r] = "opened" => new[r] \in Token /\ job[r].kind = "token"
       /\ ans[r] = "rotated" => new[r] \in Token /\ HasRow(r)
       /\ ans[r] = "reuse" => HasRow(r)

\* The id a handler holds is its own, and no browser has it yet.
NewInv == \A r \in Request : new[r] # None =>
            /\ new[r] \notin delivered
            /\ \A q \in Request : q # r => new[q] # new[r]

\* A write whose caller did not learn its fate.
PutInv(w) ==
  /\ w.id \in Token /\ ~Stored(w.id)
  /\ w.family \in Token /\ (w.family = w.id \/ Rooted(w.family))
  /\ w.new = None
  /\ \A v \in late : v.op = "put" /\ v.id = w.id => v = w
  /\ \A r \in Request : new[r] = w.id => pc[r] = "answer" /\ ans[r] = "store_failed"

UpdateInv(w) ==
  /\ w.id \in delivered /\ w.new \in Token /\ w.rev = 1
  /\ w.family = rows[w.id].family
  /\ Stored(w.new) /\ rows[w.new].family = w.family

LateInv == \A w \in late : /\ w.op = "put" => PutInv(w)
                           /\ w.op = "update" => UpdateInv(w)
                           /\ w.op = "revoke" => w.family \in Token

\* A browser's cookie is a token that was handed out.
JarInv == \A b \in Browser : jar[b] # None => jar[b] \in delivered

IInv == /\ TypeOK
        /\ RowsInv
        /\ JarInv
        /\ \A t \in delivered : OnChain(t)
        /\ \A r \in Request : HandlerInv(r)
        /\ NewInv
        /\ LateInv
        /\ HandedOutIsLive
        /\ ReuseRevokes

-----------------------------------------------------------------------------
(* What the sessions and logout need on top of it.                         *)

\* Only families that were opened are revoked, or are about to be.
RevokedInv == /\ \A f \in revoked : Rooted(f)
              /\ \A w \in late : w.op = "revoke" => Rooted(w.family)

\* The successor that a late compare-and-swap would install was handed to nobody, and
\* its row is untouched.
SuccessorInv ==
  \A w \in late : w.op = "update" =>
    /\ w.new \notin delivered
    /\ UnusedRow(rows[w.new])
    /\ \A r \in Request : new[r] = w.new => pc[r] = "answer" /\ ans[r] = "store_failed"

SessionInv == RevokedInv /\ SuccessorInv

\* No call to the store has failed so far.
NoFault == spent["read"] = 0 /\ spent["write"] = 0

\* Logout awaits two calls, and answers for a token of ours after the second.
LogoutInv ==
  \A r \in Request : pc[r] # "idle" /\ job[r].kind = "logout" =>
    /\ pc[r] \in {"find", "revoke", "answer"}
    /\ pc[r] = "answer" /\ job[r].tok # None =>
         /\ job[r].tok \in delivered
         /\ NoFault => rows[job[r].tok].family \in revoked
=============================================================================
