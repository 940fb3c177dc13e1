---------------------------- MODULE RemoteCommand ----------------------------
(***************************************************************************)
(* What a QtServiceController promises its caller about one request to the  *)
(* running service (qtservice.cpp, the documentation of stop, pause, resume *)
(* and sendCommand): the request is carried out at most once, "true" means  *)
(* that it was carried out, and "false" that it was not, unless the service *)
(* died before it could answer.                                             *)
(***************************************************************************)
EXTENDS Naturals

CONSTANT Controllers   \* one call of a controller function each

VARIABLES
  phase,    \* "idle", "asked", or the returned value "true" or "false"
  served,   \* how often the service carried the request out
  alive     \* is the service process alive?

vars == <<phase, served, alive>>

TypeOK ==
  /\ phase \in [Controllers -> {"idle", "asked", "true", "false"}]
  /\ served \in [Controllers -> {0, 1}]
  /\ alive \in BOOLEAN

Init ==
  /\ phase = [c \in Controllers |-> "idle"]
  /\ served = [c \in Controllers |-> 0]
  /\ alive = TRUE

\* The controller reaches the service.
Ask(c) ==
  /\ phase[c] = "idle"
  /\ phase' = [phase EXCEPT ![c] = "asked"]
  /\ UNCHANGED <<served, alive>>

\* There is no service to reach.
Refuse(c) ==
  /\ phase[c] = "idle"
  /\ phase' = [phase EXCEPT ![c] = "false"]
  /\ UNCHANGED <<served, alive>>

\* The service carries the request out, while its caller waits.
Serve(c) ==
  /\ alive
  /\ phase[c] = "asked"
  /\ served[c] = 0
  /\ served' = [served EXCEPT ![c] = 1]
  /\ UNCHANGED <<phase, alive>>

ReturnTrue(c) ==
  /\ phase[c] = "asked"
  /\ served[c] = 1
  /\ phase' = [phase EXCEPT ![c] = "true"]
  /\ UNCHANGED <<served, alive>>

ReturnFalse(c) ==
  /\ phase[c] = "asked"
  /\ served[c] = 0 \/ ~alive
  /\ phase' = [phase EXCEPT ![c] = "false"]
  /\ UNCHANGED <<served, alive>>

Die ==
  /\ alive
  /\ alive' = FALSE
  /\ UNCHANGED <<phase, served>>

Next ==
  \/ \E c \in Controllers :
       Ask(c) \/ Refuse(c) \/ Serve(c) \/ ReturnTrue(c) \/ ReturnFalse(c)
  \/ Die

Spec == Init /\ [][Next]_vars
=============================================================================
