---------------------------- MODULE MCConnection ----------------------------
EXTENDS Connection

Relaying(stall_, half_, idle_, rate_, burst_, enforce_) ==
  [stall |-> stall_, half |-> half_, idle |-> idle_,
   rate |-> rate_, burst |-> burst_, enforce |-> enforce_]

MCProtocol(frame, initial, host, future) ==
  [max_frame |-> frame, max_initial_bytes |-> initial, max_host_bytes |-> host,
   min_protocol |-> 757, max_protocol |-> 800, login_schemas |-> [v \in {799} |-> "legacy"],
   future_login_schema |-> future]

MCTimes(first, progress, handshake) ==
  [first_progress |-> first, progress |-> progress, handshake |-> handshake,
   login |-> 2, status |-> 1, backend |-> 1]

\* Ten networks, so that the index is used, some of them given by a host.
LongList == [i \in 1..10 |-> [addr |-> IF i > 2 THEN 5 ELSE i, bits |-> IF i = 1 THEN 2 ELSE 3]]
HostList == <<[addr |-> 7, bits |-> 3]>>
ShortList == <<[addr |-> 6, bits |-> 2]>>

Policy(observe_, allow_, block_) == [observe |-> observe_, allow |-> allow_, block |-> block_]

MCConfig(p, t, in, policy_, r, suffix_) ==
  [protocol |-> p, timeouts |-> t, incoming |-> in, trusted |-> <<[addr |-> 0, bits |-> 1]>>,
   policy |-> policy_, relay |-> r, max_response |-> 256,
   fallback |-> [text |-> 60, suffix |-> suffix_]]

MCConfigs == {
  MCConfig(MCProtocol(64, 69, 8, "backend"), MCTimes(1, 1, 2), FALSE, Policy(FALSE, <<>>, LongList),
           Relaying(2, 2, 0, 0, 0, FALSE), 30),
  MCConfig(MCProtocol(9000, 9005, 8, "uuid"), MCTimes(2, 1, 2), FALSE, Policy(FALSE, LongList, ShortList),
           Relaying(0, 2, 2, 0, 0, FALSE), 30),
  MCConfig(MCProtocol(9000, 20000, 42, "disabled"), MCTimes(1, 2, 2), TRUE, Policy(FALSE, <<>>, HostList),
           Relaying(0, 0, 0, 1, 3, TRUE), None),
  MCConfig(MCProtocol(64, 69, 60, "backend"), MCTimes(1, 1, 2), FALSE, Policy(TRUE, <<>>, ShortList),
           Relaying(0, 0, 2, 1, 2, FALSE), None)}

MCOptions == {c.relay : c \in MCConfigs}

Hello(version_, pad, host_, state_, extra) ==
  LET enc(n) == Padded(n, IF pad > Len(PutVarInt(n)) THEN pad ELSE Len(PutVarInt(n)))
  IN  [kind |-> "handshake", id |-> enc(0), version |-> enc(version_), hostlen |-> enc(host_),
       state |-> enc(state_), hostok |-> TRUE, portok |-> TRUE,
       len |-> Len(enc(0)) + Len(enc(version_)) + Len(enc(host_)) + host_ + 2 + Len(enc(state_)) + extra]

MCHandshakes == {
  Hello(-1, 1, 4, 1, 0), Hello(2147483647, 1, 1, 1, 0),
  Hello(758, 1, 4, 2, 0), Hello(760, 5, 8, 2, 0), Hello(790, 5, 42, 2, 0),
  Hello(760, 1, 9, 2, 1), Hello(700, 1, 4, 2, 0), Hello(-1, 1, 4, 2, 0), Hello(758, 1, 4, 3, -1)}

Name(pad, name_, keys_, blob, uuid_, extra) ==
  LET enc(n) == Padded(n, IF pad > Len(PutVarInt(n)) THEN pad ELSE Len(PutVarInt(n)))
  IN  [kind |-> "login", id |-> enc(0), namelen |-> enc(name_), nameok |-> TRUE,
       keys |-> keys_, key |-> enc(blob), sig |-> enc(blob), uuid |-> uuid_,
       len |-> Len(enc(0)) + Len(enc(name_)) + name_ + extra]

MCLogins == {
  Name(1, 8, 0, 0, 0, 0), Name(5, 64, 0, 0, 0, 0), Name(1, 4, 0, 0, 0, 2),
  Name(5, 64, 1, 4096, 1, 1 + 8 + 2 * (5 + 4096) + 17)}

Tiny(k, n, pad, payload) == [kind |-> k, id |-> Padded(n, pad), len |-> pad + payload]
MCRequests == {Tiny("request", 0, 1, 0), Tiny("request", 0, 5, 0), Tiny("request", 0, 1, 1)}
MCPings == {Tiny("ping", 1, 1, 8), Tiny("ping", 1, 5, 8), Tiny("ping", 0, 1, 8)}

MCStrays == {<<0, 0, 0>>, <<128, 128, 128>>}

MCHeader(s, f, n, from, u) ==
  [kind |-> "header", signature |-> s, family |-> f, len |-> n, src |-> from, usable |-> u]
MCHeaders == {
  MCHeader(TRUE, "v4", 12, 3, TRUE), MCHeader(TRUE, "v6", 4096, 7, TRUE),
  MCHeader(TRUE, "v6", 12, 3, TRUE), MCHeader(FALSE, "v4", 12, 3, TRUE),
  MCHeader(TRUE, "v4", 12, 3, FALSE), MCHeader(TRUE, "v4", 4097, 3, TRUE)}

MCAnswers == {[text |-> 247, suffix |-> 222], [text |-> 244, suffix |-> 218]}
=============================================================================
