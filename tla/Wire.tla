-------------------------------- MODULE Wire --------------------------------
(***************************************************************************)
(* The bytes of the first packets (gate/src/protocol.rs): VarInts, the     *)
(* sizes of frames, and the parsers of the four packets that the gate      *)
(* reads.                                                                  *)
(*                                                                         *)
(* A VarInt is the sequence of its bytes.  A packet body is what a Cursor  *)
(* finds in it: its length, the VarInts where the parser looks for them,   *)
(* the lengths of its strings and whether their text is acceptable.        *)
(***************************************************************************)
EXTENDS Integers, Sequences, FiniteSets

Radix == 128
Nibble == 268435456     \* Radix^4: the last byte of five holds four bits

Smallest(S) == CHOOSE i \in S : \A j \in S : i <= j

\* Four bits on top of 28 make the i32.
Top(b) == (IF b < 8 THEN b ELSE b - 16) * Nibble

Incomplete == [state |-> "incomplete", n |-> 0, used |-> 0]
Overflow == [state |-> "overflow", n |-> 0, used |-> 0]

\* varint(): the value and the number of bytes, or that more are needed.
VarInt(data) ==
  LET last == {i \in 1..Len(data) : i <= 5 /\ data[i] < Radix}
      size == Smallest(last)
      digit(i) == IF i <= size THEN data[i] % Radix ELSE 0
      low == digit(1) + Radix * (digit(2) + Radix * (digit(3) + Radix * digit(4)))
  IN  IF Len(data) >= 5 /\ (\A i \in 1..4 : data[i] >= Radix) /\ data[5] >= 16 THEN Overflow
      ELSE IF last = {} THEN Incomplete
      ELSE [state |-> "done", used |-> size, n |-> IF size < 5 THEN low ELSE low + Top(data[5])]

\* put_varint(): the value is shifted out until nothing is left of it.
PutVarInt(n) ==
  LET q2 == n \div Radix
      q3 == q2 \div Radix
      q4 == q3 \div Radix
      q5 == q4 \div Radix
      size == IF q2 = 0 THEN 1 ELSE IF q3 = 0 THEN 2 ELSE IF q4 = 0 THEN 3
              ELSE IF q5 = 0 THEN 4 ELSE 5
      low == <<n % Radix, q2 % Radix, q3 % Radix, q4 % Radix, q5 % 16>>
  IN  [i \in 1..size |-> low[i] + (IF i < size THEN Radix ELSE 0)]

\* A longer encoding of the same value, which the parsers accept.
Padded(n, size) ==
  LET short == PutVarInt(n)
  IN  [i \in 1..size |-> CASE i < Len(short) -> short[i]
                           [] i = Len(short) -> short[i] + (IF i < size THEN Radix ELSE 0)
                           [] OTHER -> IF i < size THEN Radix ELSE 0]

-----------------------------------------------------------------------------
(* Parsers *)

\* A parser is the sequence of its checks.  It returns the error of the first
\* one that fails.
Check(holds, error) == [holds |-> holds, error |-> error]
Passes(checks) == \A i \in DOMAIN checks : checks[i].holds
Failure(checks) == checks[Smallest({i \in DOMAIN checks : ~checks[i].holds})].error

\* Cursor::int() at an offset of a body.
HasInt(body, at, bytes) == Check(at + Len(bytes) <= body.len, "Invalid")
IsInt(bytes) == Check(VarInt(bytes).state = "done", "VarInt")

\* Cursor::bytes().
Has(body, end) == Check(end <= body.len, "Invalid")

\* Cursor::finish().
Ends(body, end) == Check(end = body.len, "Invalid")

Value(bytes) == VarInt(bytes).n

\* Mutant: the state counts as one byte, as its two values would.
HandshakeMaxShort(p) == LET n == 5 + 5 + 5 + p.max_host_bytes + 2 + 1
                        IN  IF p.max_frame < n THEN p.max_frame ELSE n

\* handshake_max()
HandshakeMax(p) == LET n == 5 + 5 + 5 + p.max_host_bytes + 2 + 5
                   IN  IF p.max_frame < n THEN p.max_frame ELSE n

\* handshake().  The host is [size, ok]: its length and whether the text passes.
Handshake(body, p) ==
  LET version == Len(body.id)
      host == version + Len(body.version)
      text == host + Len(body.hostlen)
      port == text + Value(body.hostlen)
      state == port + 2
      end == state + Len(body.state)
  IN  <<HasInt(body, 0, body.id), IsInt(body.id), Check(Value(body.id) = 0, "Invalid"),
        HasInt(body, version, body.version), IsInt(body.version),
        HasInt(body, host, body.hostlen), IsInt(body.hostlen),
        Check(Value(body.hostlen) \in 0..p.max_host_bytes, "Oversized"),
        Has(body, port), Check(Value(body.hostlen) > 0 /\ body.hostok, "Invalid"),
        Has(body, state), Check(body.portok, "Invalid"),
        HasInt(body, state, body.state), IsInt(body.state),
        Check(Value(body.state) \in {1, 2}, "Invalid"),
        Check(Value(body.state) = 2 => Value(body.version) >= 0, "Unsupported"),
        Ends(body, end)>>

Schemas == {"legacy", "signed", "signed_uuid", "optional_uuid", "uuid", "backend"}

BuiltIn(version) ==
  CASE version \in 4..758 -> "legacy"
    [] version = 759 -> "signed"
    [] version = 760 -> "signed_uuid"
    [] version \in 761..763 -> "optional_uuid"
    [] version \in 764..776 -> "uuid"
    [] OTHER -> "none"

\* login_schema(): "none" is Unsupported.
LoginSchema(version, p) ==
  LET schema == IF version \in DOMAIN p.login_schemas THEN p.login_schemas[version]
                ELSE IF version > 776 THEN p.future_login_schema
                ELSE BuiltIn(version)
  IN  IF version \in p.min_protocol..p.max_protocol /\ schema \in Schemas THEN schema ELSE "none"

Keyed(schema) == schema \in {"signed", "signed_uuid"}
Flagged(schema) == schema \in {"signed_uuid", "optional_uuid"}

MaxBlob == 4096
Keys == 1 + 8 + 5 + MaxBlob + 5 + MaxBlob

\* login_max(), for a version that has a schema
LoginMax(version, p) ==
  LET schema == LoginSchema(version, p)
      keys == IF Keyed(schema) THEN Keys ELSE 0
      uuid == IF Flagged(schema) THEN 17
              ELSE IF schema = "uuid" THEN 16 ELSE 0
      n == 5 + 5 + 64 + keys + uuid
  IN  IF schema = "backend" \/ p.max_frame < n THEN p.max_frame ELSE n

Sent(body, schema) == Keyed(schema) /\ body.keys = 1
HasUuid(body, schema) == schema = "uuid" \/ (Flagged(schema) /\ body.uuid = 1)

\* Where login() finds the fields behind the name.
Layout(body, schema) ==
  LET Only(taken, size) == IF taken THEN size ELSE 0
      sent == Sent(body, schema)
      keys == Len(body.id) + Len(body.namelen) + Value(body.namelen)
      expiry == keys + Only(Keyed(schema), 1)
      key == expiry + Only(sent, 8)
      sig == key + Only(sent, Len(body.key) + Value(body.key))
      flag == sig + Only(sent, Len(body.sig) + Value(body.sig))
      id == flag + Only(Flagged(schema), 1)
  IN  [keys |-> keys, expiry |-> expiry, key |-> key, sig |-> sig, flag |-> flag, id |-> id,
       end |-> id + Only(HasUuid(body, schema), 16)]

\* A check that is made only if the packet has the field.
If(taken, check) == Check(taken => check.holds, check.error)

\* login().  The name is within 16 UTF-16 units and printable if nameok.
Login(body, schema) ==
  LET at == Layout(body, schema)
      parsed == schema # "backend"
      keyed == Keyed(schema)
      sent == Sent(body, schema)
      flagged == Flagged(schema)
  IN  <<HasInt(body, 0, body.id), IsInt(body.id), Check(Value(body.id) = 0, "Invalid"),
        If(parsed, HasInt(body, Len(body.id), body.namelen)), If(parsed, IsInt(body.namelen)),
        If(parsed, Check(Value(body.namelen) \in 0..64, "Oversized")),
        If(parsed, Has(body, at.keys)),
        If(parsed, Check(Value(body.namelen) > 0 /\ body.nameok, "Invalid")),
        If(keyed, Has(body, at.expiry)), If(keyed, Check(body.keys \in {0, 1}, "Invalid")),
        If(sent, Has(body, at.key)),
        If(sent, HasInt(body, at.key, body.key)), If(sent, IsInt(body.key)),
        If(sent, Check(Value(body.key) \in 0..MaxBlob, "Oversized")), If(sent, Has(body, at.sig)),
        If(sent, HasInt(body, at.sig, body.sig)), If(sent, IsInt(body.sig)),
        If(sent, Check(Value(body.sig) \in 0..MaxBlob, "Oversized")), If(sent, Has(body, at.flag)),
        If(flagged, Has(body, at.id)), If(flagged, Check(body.uuid \in {0, 1}, "Invalid")),
        If(parsed, Ends(body, at.end))>>

\* status_request() and ping(): an id, and eight bytes after that of a ping.
Short(body, id, payload) ==
  <<HasInt(body, 0, body.id), IsInt(body.id), Check(Value(body.id) = id, "Invalid"),
    Has(body, Len(body.id) + payload), Ends(body, Len(body.id) + payload)>>
StatusRequest(body) == Short(body, 0, 0)
Ping(body) == Short(body, 1, 8)
=============================================================================
