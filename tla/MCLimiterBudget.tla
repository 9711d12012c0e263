-------------------------- MODULE MCLimiterBudget --------------------------
(***************************************************************************)
(* Small instances of LimiterBudget.                                       *)
(***************************************************************************)
EXTENDS LimiterBudget, TLC

CONSTANTS c1, c2, a1, a2, netA

MCSubnet == [ip \in Ips |-> netA]
MCShard == [k \in Ips \cup Prefixes |-> 0]

Limited(r, b) == [rate |-> r, burst |-> b]
Only(e, r) == [x \in Event |-> IF x = e THEN r ELSE Limited(0, 0)]

MCLogin == Only("login", Limited(1, 1))
MCConnect == Only("connect", Limited(1, 1))
MCNoRates == [e \in Event |-> Limited(0, 0)]
MCBoth == [MCLogin EXCEPT !["connect"] = Limited(1, 2)]

\* Modes above 0 halve the refill and the burst.
MCHalved == [m \in Mode |-> IF m = 0 THEN 2 ELSE 1]

Policy(m, o, x) == [mode |-> m, observe |-> o, exempt |-> x]
MCPolicies == {Policy(0, FALSE, FALSE), Policy(1, FALSE, TRUE)}

Halved(score, ticks) == score \div (2 ^ ticks)
Symmetry == Permutations(Conn)
=============================================================================
