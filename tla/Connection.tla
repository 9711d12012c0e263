----------------------------- MODULE Connection -----------------------------
(***************************************************************************)
(* A connection from accept to its end: Ingress up to the backend, then    *)
(* Relay, under one configuration.                                         *)
(***************************************************************************)
EXTENDS Ingress, Relay

connectionVars == <<ingressVars, relayVars>>

ConnectionInit == IngressInit /\ RelayInit /\ options = config.relay

ConnectionNext ==
  \/ phase # "relay" /\ IngressNext /\ UNCHANGED relayVars
  \/ phase = "relay" /\ RelayNext /\ UNCHANGED ingressVars

ConnectionSpec == ConnectionInit /\ [][ConnectionNext]_connectionVars

\* A task that was woken is polled, and time passes although the peers never rest.
ConnectionFairness ==
  /\ WF_connectionVars(phase # "relay" /\ Task /\ UNCHANGED <<config, cached, relayVars>>)
  /\ WF_connectionVars(phase # "relay" /\ Elapse /\ UNCHANGED <<config, cached, relayVars>>)
  /\ WF_connectionVars(phase = "relay" /\ Transfer /\ UNCHANGED ingressVars)
  /\ WF_connectionVars(phase = "relay" /\ Deadline /\ UNCHANGED ingressVars)
  /\ SF_connectionVars(phase = "relay" /\ Tick /\ UNCHANGED ingressVars)

FairConnection == ConnectionSpec /\ ConnectionFairness
=============================================================================
