------------------------------ MODULE Circuit ------------------------------
(***************************************************************************)
(* What the backend circuit breaker promises, without generations, clocks, *)
(* slots or budgets (docs/CONFIGURATION.md:237-243).                       *)
(*                                                                         *)
(* wave is the set of dials whose outcome the circuit still listens to.    *)
(* Threshold consecutive failures of the wave open the circuit and disband *)
(* the wave; exactly one dial then probes the backend, and its outcome     *)
(* alone closes the circuit or opens it again.                             *)
(***************************************************************************)
EXTENDS Naturals

CONSTANTS Dialers, Threshold

VARIABLES state, wave, failures

cvars == <<state, wave, failures>>

Init == state = "closed" /\ wave = {} /\ failures = 0

Join(d) ==
  /\ state = "closed" /\ d \notin wave
  /\ wave' = wave \cup {d}
  /\ UNCHANGED <<state, failures>>

Probe(d) ==
  /\ state = "open"
  /\ state' = "probing" /\ wave' = {d}
  /\ UNCHANGED failures

Succeed(d) ==
  /\ d \in wave
  /\ state' = "closed" /\ failures' = 0
  /\ wave' = wave \ {d}

\* A failure that leaves the circuit closed.
Fail(d) ==
  /\ d \in wave /\ state = "closed" /\ failures + 1 < Threshold
  /\ failures' = failures + 1
  /\ wave' = wave \ {d}
  /\ UNCHANGED state

Trip(d) ==
  /\ d \in wave
  /\ state = "probing" \/ failures + 1 >= Threshold
  /\ state' = "open" /\ failures' = failures + 1 /\ wave' = {}

Next == \E d \in Dialers : Join(d) \/ Probe(d) \/ Succeed(d) \/ Fail(d) \/ Trip(d)

Spec == Init /\ [][Next]_cvars
=============================================================================
