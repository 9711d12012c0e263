----------------------------- MODULE MCLimiter -----------------------------
(***************************************************************************)
(* Small instances of Limiter.                                             *)
(***************************************************************************)
EXTENDS Limiter, TLC

CONSTANTS c1, c2, c3, a1, a2, b1, netA, netB

\* Two addresses share a prefix, the third has its own.
MCSubnet == [ip \in Ips |-> IF ip = b1 THEN netB ELSE netA]
MCShard == [k \in Ips \cup Prefixes |-> 0]

Unlimited == [rate |-> 0, burst |-> 0]
MCNoRates == [e \in Event |-> Unlimited]

MCFullFactor == [m \in Mode |-> 1]

Enforce(m) == [mode |-> m, observe |-> FALSE, exempt |-> FALSE]
MCEnforced == {Enforce(0)}

\* A score loses half its value per tick: the tick is the half-life.
Halved(score, ticks) == score \div (2 ^ ticks)

\* Tasks are alike.
Symmetry == Permutations(Conn)
=============================================================================
