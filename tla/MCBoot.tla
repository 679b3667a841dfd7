------------------------------- MODULE MCBoot --------------------------------
(* The environments that TLC deploys svc-auth with.                        *)
EXTENDS Boot

Entra == [name |-> "entra", url |-> "url", client |-> "c1", claim |-> "custom"]
Google == [name |-> "google", url |-> "url", client |-> "c2", claim |-> "absent"]

Declarations ==
  {<<>>, <<Entra>>, <<Google, Entra>>, <<Entra, [Google EXCEPT !.client = "absent"]>>,
   <<[Entra EXCEPT !.url = ""], Google>>, <<[Entra EXCEPT !.name = ""]>>,
   <<Entra, [Google EXCEPT !.name = "overlapping"]>>}

\* What is required, with every mistake; then the optional settings, each as the only
\* one that is not left out.
Required == [nats_url : {"absent", "set"}, jwt_secret : {"absent", "set"},
             bearer_seal_key : {"absent", "garbled", "short", "key"},
             environment : {"absent", "local", "stg", "Prod"},
             access_ttl : {Unset}, refresh_ttl : {Unset}, cooldown : {Unset},
             secure_cookies : {"absent"}, silent_refresh : {"absent"}, oidc : Declarations]

Base == [nats_url |-> "set", jwt_secret |-> "set", bearer_seal_key |-> "key",
         environment |-> "stg", access_ttl |-> Unset, refresh_ttl |-> Unset,
         cooldown |-> Unset, secure_cookies |-> "absent", silent_refresh |-> "absent",
         oidc |-> <<Entra>>]

Optional == {[Base EXCEPT !.access_ttl = n] : n \in {Garbled, 60}}
              \cup {[Base EXCEPT !.refresh_ttl = n] : n \in {Garbled, 3600}}
              \cup {[Base EXCEPT !.cooldown = n] : n \in {Garbled, 0, 5}}
              \cup {[Base EXCEPT !.secure_cookies = b] : b \in {"true", "TRUE", "0"}}
              \cup {[Base EXCEPT !.silent_refresh = b] : b \in {"1", "false"}}

MCEnvironments == Required \cup Optional
=============================================================================
