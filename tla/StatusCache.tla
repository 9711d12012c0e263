---------------------------- MODULE StatusCache ----------------------------
(***************************************************************************)
(* The status cache (gate/src/cache.rs): what the backend's answer is made *)
(* into, and what a client is served.                                      *)
(*                                                                         *)
(* A JSON document is [text, suffix]: the length of the document as it is  *)
(* serialised, and the length of what Prepared::new() puts after the       *)
(* protocol number, or None if it has no version object to put it into.    *)
(***************************************************************************)
EXTENDS Wire

CONSTANTS
  Answers,     \* the documents that the backend may answer with
  CacheTtl     \* ttl_seconds

VARIABLE
  cached       \* StatusCache.value: a document and its age, or Nothing

None == -1
Document == [text : Nat, suffix : Nat \cup {None}]

ASSUME CacheAssumption == CacheTtl \in Nat \ {0} /\ Answers \subseteq Document

Nothing == [json |-> [text |-> 0, suffix |-> None], age |-> None]

PrefixText == 23     \* {"version":{"protocol":

\* varint_size(), of lengths
VarIntSize(n) ==
  IF n < 128 THEN 1 ELSE IF n < 16384 THEN 2 ELSE IF n < 2097152 THEN 3
  ELSE IF n < Nibble THEN 4 ELSE 5

\* wire_size()
WireSize(text) ==
  LET body == text + VarIntSize(text) + 1
  IN  body + VarIntSize(body)

\* Mutant: room is kept for the number that the backend sent.
PreparedAsSent(json, max) == WireSize(json.text) <= max

\* Prepared::new() returns a value: room is kept for the longest number.
Prepared(json, max) ==
  /\ WireSize(json.text) <= max
  /\ json.suffix # None => WireSize(PrefixText + 10 + json.suffix) <= max

Digits(n) == Cardinality({i \in 1..9 : n >= 10^i}) + 1

\* Prepared::render(): the length of the text in the response.
Render(json, version) ==
  IF version < 0 \/ json.suffix = None THEN json.text
  ELSE PrefixText + Digits(version) + json.suffix

\* The response, as frame() and put_varint() build it: its two VarInts around
\* the packet id, then the text.
Response(text) ==
  LET inner == PutVarInt(text)
  IN  [outer |-> PutVarInt(1 + Len(inner) + text), inner |-> inner, text |-> text]

ResponseSize(r) == Len(r.outer) + 1 + Len(r.inner) + r.text

\* StatusCache::get()
Get(fallback, version) ==
  Response(Render(IF cached # Nothing /\ cached.age < CacheTtl THEN cached.json ELSE fallback,
                  version))

CacheInit == cached = Nothing

\* refresh(): poll() succeeds.  Its frame is limited to max and its text has
\* to fit into it.
Refresh(json, max) ==
  /\ 1 + Len(PutVarInt(json.text)) + json.text <= max
  /\ Prepared(json, max)
  /\ cached' = [json |-> json, age |-> 0]

\* The cached document gets older; a refresh that fails leaves it alone.
Age ==
  /\ cached # Nothing /\ cached.age < CacheTtl
  /\ cached' = [cached EXCEPT !.age = @ + 1]
=============================================================================
