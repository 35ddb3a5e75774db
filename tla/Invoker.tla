-------------------------------- MODULE Invoker --------------------------------
(***************************************************************************)
(* What lambda.Invoker and runtime.Container promise to their users: "the  *)
(* Invoker is responsbile for serialization of the requests" (lambda.go),  *)
(* Invoke returns what the function did with the caller's own event, an    *)
(* error other than the function's own means that the container is down    *)
(* (or, of a container that may refuse a call, that the function was not   *)
(* run), and Close waits for the request being served.                     *)
(***************************************************************************)
CONSTANTS
  Calls,   \* the calls of Invoke
  MayRefuse \* a container that is up may still fail a call it has not run

VARIABLES
  state,   \* of each call: "ready", "serving", then what it returned
  outcome, \* what the function did with each call: "none", "ok" or "fault"
  fate     \* of the container: "up", then "closed" or "dead"

vars == <<state, outcome, fate>>

Outcome  == {"ok", "fault"}
Returned == Outcome \cup {"error"}

Init ==
  /\ state = [g \in Calls |-> "ready"]
  /\ outcome = [g \in Calls |-> "none"]
  /\ fate = "up"

(* One call at a time is served.                                           *)
Serve(g) ==
  /\ state[g] = "ready"
  /\ \A h \in Calls : state[h] # "serving"
  /\ state' = [state EXCEPT ![g] = "serving"]
  /\ UNCHANGED <<outcome, fate>>

(* The function runs once, for the call that is being served.              *)
Run(g) ==
  /\ fate = "up"
  /\ state[g] = "serving"
  /\ outcome[g] = "none"
  /\ \E o \in Outcome : outcome' = [outcome EXCEPT ![g] = o]
  /\ UNCHANGED <<state, fate>>

Answer(g) ==
  /\ state[g] = "serving"
  /\ outcome[g] # "none"
  /\ state' = [state EXCEPT ![g] = outcome[g]]
  /\ UNCHANGED <<outcome, fate>>

Fail(g) ==
  /\ fate = "up" => MayRefuse /\ outcome[g] = "none"
  /\ state[g] = "serving"
  /\ state' = [state EXCEPT ![g] = "error"]
  /\ UNCHANGED <<outcome, fate>>

(* A Close, of a user or after a failed start: between two calls.          *)
Stop ==
  /\ fate = "up"
  /\ \A g \in Calls : state[g] # "serving"
  /\ fate' = "closed"
  /\ UNCHANGED <<state, outcome>>

(* The container dies by itself, at any time.                              *)
Crash ==
  /\ fate = "up"
  /\ fate' = "dead"
  /\ UNCHANGED <<state, outcome>>

Next ==
  \/ \E g \in Calls : Serve(g) \/ Run(g) \/ Answer(g) \/ Fail(g)
  \/ Stop
  \/ Crash

Spec == Init /\ [][Next]_vars
================================================================================
