--------------------------- MODULE CarefulBrowsers --------------------------
(***************************************************************************)
(* RefreshRotation, watching which browsers are careful: they never have   *)
(* two requests open at one time, they send no token but their cookie, and *)
(* nobody else sends a token of their session.                             *)
(***************************************************************************)
EXTENDS RefreshRotationInv

VARIABLE careful  \* history: the browsers that have been careful so far

watchedVars == <<vars, careful>>

OpenOf(b) == {r \in Request : pc[r] # "idle" /\ job[r].who = b}

\* The session of a browser's cookie.
SessionOf(b) == rows[jar[b]].family

\* A request arrives with a token that is not the sender's cookie, and it is the
\* sender's doing, or the token is of the browser's session.
Replayed(b) ==
  \E r \in Request :
    /\ pc[r] = "idle" /\ pc'[r] # "idle" /\ job'[r].tok \notin {None, jar[job'[r].who]}
    /\ \/ job'[r].who = b
       \/ jar[b] # None /\ rows[job'[r].tok].family = SessionOf(b)

Watch ==
  careful' = {b \in careful : /\ \A q, r \in OpenOf(b)' : q = r
                              /\ ~Replayed(b)}

WatchedSpec == Init /\ careful = Browser /\ [][Next /\ Watch]_watchedVars

\* No write failed and no handler vanished, so that nothing is left on its way.
NothingLost == spent["write"] = 0 /\ spent["abort"] = 0

\* A careful browser is never taken for a replayer: between requests its cookie, if it
\* has one, can be rotated, whatever the other browsers do and whichever read fails
\* (rotate, and the answers that clear the cookie or leave it).
CookieIsLive ==
  NothingLost =>
    \A b \in careful : OpenOf(b) = {} /\ jar[b] # None
      => ~rows[jar[b]].used_at /\ SessionOf(b) \notin revoked

-----------------------------------------------------------------------------
(* What makes it inductive.                                                *)

\* A request carries a token that was handed out.
TokInv == \A r \in Request : pc[r] # "idle" /\ job[r].tok # None => job[r].tok \in delivered

\* A login that has its answer opened a family that nobody else has touched.
OpenedInv ==
  \A r \in Request : pc[r] = "answer" /\ ans[r] = "opened" =>
    /\ new[r] \notin revoked
    /\ \A t \in Token : rows[t].family = new[r] => t = new[r]

\* Nobody else has a cookie, or a request, of the browser's session.
Apart(b) ==
  jar[b] # None =>
    /\ \A c \in Browser \ {b} : jar[c] # None => SessionOf(c) # SessionOf(b)
    /\ \A r \in Request : pc[r] # "idle" /\ job[r].who # b /\ job[r].tok # None
                            => rows[job[r].tok].family # SessionOf(b)

Usable(b) == jar[b] # None => ~rows[jar[b]].used_at /\ SessionOf(b) \notin revoked

\* The rotation of the browser's cookie is not in doubt at any of its awaits.
Rotates(b, r) ==
  /\ SessionOf(b) \notin revoked
  /\ \/ pc[r] = "find" /\ ~rows[jar[b]].used_at
     \/ /\ pc[r] \in {"is_revoked", "store", "mark_used"}
        /\ seen[r] = rows[jar[b]] /\ ~rows[jar[b]].used_at
     \/ pc[r] = "answer" /\ ans[r] = "find_failed" /\ ~rows[jar[b]].used_at
     \/ pc[r] = "answer" /\ ans[r] = "rotated" /\ seen[r].family = SessionOf(b)

\* The one request of a careful browser.
Served(b, r) ==
  \/ /\ job[r].tok = None
     /\ Usable(b)
  \/ /\ job[r].tok = jar[b] /\ jar[b] # None
     /\ \/ job[r].kind = "logout" /\ ans[r] \in {"none", "logged_out"}
        \/ job[r].kind \in {"refresh", "check"} /\ Rotates(b, r)

CarefulInv(b) ==
  /\ \A q, r \in OpenOf(b) : q = r
  /\ Apart(b)
  /\ OpenOf(b) = {} => Usable(b)
  /\ \A r \in OpenOf(b) : Served(b, r)

WInv == /\ careful \subseteq Browser
        /\ NothingLost => /\ late = {} /\ TokInv /\ OpenedInv
                          /\ \A b \in careful : CarefulInv(b)
=============================================================================
