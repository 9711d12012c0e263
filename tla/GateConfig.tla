----------------------------- MODULE GateConfig -----------------------------
(***************************************************************************)
(* The clauses of Config::validate() (gate/src/config.rs) that the other   *)
(* modules build on, one operator for each section.  Rates are integers    *)
(* here.  Addresses, the number of workers and the size of the relay's     *)
(* buffers, which the models scale, are left out.                          *)
(***************************************************************************)
EXTENDS Integers

\* The bounds of the settings.
MaxRate == 1000000000
MaxRelayMs == 3600000
MaxPhaseMs == 120000
MaxFailures == 10000
MaxSockets == 100000
MaxResponse == 65536
MaxTrusted == 512
MaxFrame == 65536
MaxInitial == 131072
MaxHost == 4096

\* Rate::valid()
ValidRate(rate, burst) ==
  /\ rate \in 0..MaxRate /\ burst \in 0..MaxRate
  /\ rate = 0 <=> burst = 0

\* backend_protection: the circuit is configured as a whole or not at all.
ValidCircuit(threshold, cooldown) ==
  /\ threshold \in 0..MaxFailures /\ cooldown \in 0..MaxPhaseMs
  /\ threshold = 0 <=> cooldown = 0

\* upload, and the deadlines of a relay: zero turns a guard off.
ValidRelay(o) ==
  /\ {o.stall, o.half, o.idle} \subseteq 0..MaxRelayMs
  /\ {o.rate, o.burst} \subseteq 0..MaxRate
  /\ o.rate = 0 <=> o.burst = 0

\* limits: every place of the three pools has a socket of its own.
ValidSockets(total, prelogin, status, admitted, backend) ==
  /\ total \in 4..MaxSockets
  /\ prelogin \in 1..total /\ admitted \in 1..total /\ backend \in 2..total
  /\ status \in 0..prelogin
  /\ prelogin + admitted + backend <= total

\* protocol: a frame of the greatest size fits into the budget of a session.
\* The schemas are names that login_schema() knows.
ValidProtocol(p) ==
  /\ p.max_frame \in 64..MaxFrame
  /\ p.max_initial_bytes \in (p.max_frame + 5)..MaxInitial
  /\ p.max_host_bytes \in 1..MaxHost /\ p.max_host_bytes <= p.max_frame
  /\ 0 <= p.min_protocol /\ p.min_protocol <= p.max_protocol

\* timeouts: no phase is without a deadline.
ValidPhases(t) ==
  {t.first_progress, t.progress, t.handshake, t.login, t.status, t.backend} \subseteq 1..MaxPhaseMs
=============================================================================
