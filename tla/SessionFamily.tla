--------------------------- MODULE SessionFamily ----------------------------
(***************************************************************************)
(* What svc-auth promises of login sessions, with no handlers, no store    *)
(* and no failures in sight: a session is a family of refresh tokens with  *)
(* one current token at a time.  A token is current at most once in its    *)
(* life.  Revoking a session does not stop the rotations already under     *)
(* way; once those are over the session is closed, and stays closed.       *)
(***************************************************************************)
CONSTANTS Token, None

VARIABLES current,  \* the current token of every family, None if there is none
          retired,  \* tokens that have been current and are no longer
          phase     \* how far the family is in its life

sessionVars == <<current, retired, phase>>

Phase == {"unopened", "open", "closing", "closed"}

SessionTypeOK == /\ current \in [Token -> Token \cup {None}]
                 /\ retired \subseteq Token
                 /\ phase \in [Token -> Phase]

SessionInit == /\ current = [f \in Token |-> None]
               /\ retired = {}
               /\ phase = [f \in Token |-> "unopened"]

\* Nobody's token, now or earlier.
Unseen(t) == t \notin retired /\ \A f \in Token : current[f] # t

\* A login opens a family with its first token.
Open(f) == /\ phase[f] = "unopened" /\ Unseen(f)
           /\ phase' = [phase EXCEPT ![f] = "open"]
           /\ current' = [current EXCEPT ![f] = f]
           /\ UNCHANGED retired

\* A refresh retires the current token and makes an unseen one current, in one step.
\* The family may be closing, not closed.
Rotate(f, n) == /\ phase[f] \in {"open", "closing"}
                /\ Unseen(n)
                /\ current' = [current EXCEPT ![f] = n]
                /\ retired' = retired \cup {current[f]}
                /\ phase' \in {phase, [phase EXCEPT ![f] = IF @ = "closing" THEN "closed" ELSE @]}

\* Logout, or a replay.
Revoke(f) == /\ phase[f] = "open"
             /\ phase' \in {[phase EXCEPT ![f] = p] : p \in {"closing", "closed"}}
             /\ UNCHANGED <<current, retired>>

\* The last rotation under way in a revoked family is over.
Close(f) == /\ phase[f] = "closing"
            /\ phase' = [phase EXCEPT ![f] = "closed"]
            /\ UNCHANGED <<current, retired>>

SessionNext == \E f \in Token : \/ Open(f) \/ Revoke(f) \/ Close(f)
                                \/ \E n \in Token : Rotate(f, n)

SessionSpec == SessionInit /\ [][SessionNext]_sessionVars
=============================================================================
