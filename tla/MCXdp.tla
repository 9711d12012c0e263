------------------------------- MODULE MCXdp -------------------------------
(***************************************************************************)
(* Small instances of XdpHistory: one frame for every way through the      *)
(* program, some at the boundaries of the parser.                          *)
(***************************************************************************)
EXTENDS XdpHistory

Tcp(flags) ==
  [size |-> 54, tags |-> 0, ether |-> "ipv4", version |-> 4, ihl |-> 5, len |-> 40,
   proto |-> "tcp", fragment |-> FALSE, offset |-> 5, flags |-> flags, length |-> 0,
   src |-> "any", dst |-> "mine", port |-> "game"]
Syn == Tcp({"syn"})
Ack == Tcp({"ack"})
Udp == [Syn EXCEPT !.proto = "udp", !.size = 42, !.len = 28, !.length = 8, !.port = "query"]

MCFrames ==
  {Syn, [Syn EXCEPT !.src = "friend"], Ack, Tcp({"syn", "ack"}), Udp,
   [Ack EXCEPT !.src = "foe"], [Ack EXCEPT !.fragment = TRUE], [Ack EXCEPT !.dst = "other"],
   [Syn EXCEPT !.proto = "icmp"], [Syn EXCEPT !.tags = 3, !.size = 66],
   [Ack EXCEPT !.tags = 2, !.ether = "ipv6", !.version = 6, !.size = 82, !.len = 20],
   [Syn EXCEPT !.size = 60, !.len = 20],
   [Ack EXCEPT !.len = 41], [Ack EXCEPT !.len = 41, !.dst = "other"],
   [Ack EXCEPT !.size = 33], [Ack EXCEPT !.size = 13]}

MCOwned == {"mine"}
MCPorts == [p \in {"game", "query"} |-> IF p = "game" THEN {"protect_tcp"} ELSE {"drop_udp"}]
MCAllow == {"friend"}
MCBlock == {"foe"}

MCSettings == {[observe |-> o, ipv6 |-> TRUE, fragments |-> TRUE] : o \in BOOLEAN}
MCEnforced == {s \in MCSettings : ~s.observe}
Policy(m, r, b) == [mode |-> m, budget |-> [rate |-> r, burst |-> b]]
MCPolicies == {Policy(0, 3, 1), Policy(3, 0, 0)}
=============================================================================
