------------------------------ MODULE Service ------------------------------
(***************************************************************************)
(* What a UFEedClient promises the application that holds it: while it is  *)
(* down it serves nothing, it goes down only between two messages, and it  *)
(* is gone only when it is down and has no session left in the gateway.    *)
(***************************************************************************)
VARIABLES phase,   \* "down", "up", "gone" or "aborted"
          serving, \* is a message of the gateway being served?
          session  \* has the gateway a session for the client?

vars == <<phase, serving, session>>

Init == phase = "down" /\ ~serving /\ ~session

Up == phase = "down" /\ phase' = "up" /\ UNCHANGED <<serving, session>>
Down == phase = "up" /\ ~serving /\ phase' = "down" /\ UNCHANGED <<serving, session>>
Serve == phase = "up" /\ serving' = ~serving /\ UNCHANGED <<phase, session>>
Login == phase \in {"down", "up"} /\ session' = TRUE /\ UNCHANGED <<phase, serving>>
Logout == phase \in {"down", "up"} /\ session' = FALSE /\ UNCHANGED <<phase, serving>>
Gone == phase = "down" /\ ~session /\ phase' = "gone" /\ UNCHANGED <<serving, session>>
Abort == phase # "gone" /\ phase' = "aborted" /\ UNCHANGED <<serving, session>>

Spec == Init /\ [][Up \/ Down \/ Serve \/ Login \/ Logout \/ Gone \/ Abort]_vars
=============================================================================
