------------------------------ MODULE Ingress ------------------------------
(***************************************************************************)
(* One connection from accept to the relay, byte by byte where it matters: *)
(* handle() and phase() of gate/src/main.rs, read_frame() of protocol.rs,  *)
(* read() of incoming_proxy.rs and the status cache it is served from.     *)
(*                                                                         *)
(* The prefix of a frame arrives one byte at a time, its body in pieces.   *)
(* Time is counted in ticks.  What the limiter and the pools decide is     *)
(* left open (GateSession and Limiter model it), and so is what later      *)
(* looks at the policy find; the first look is at its two lists.           *)
(***************************************************************************)
EXTENDS GateConfig, StatusCache, PrefixIndex

CONSTANTS
  Configs,                               \* configurations to choose from
  Handshakes, Logins, Requests, Pings,   \* the bodies that clients send
  Strays,                                \* three bytes that begin with no length
  Headers                                \* PROXY headers

\* A VarInt that a parser looks at is at most five bytes long.
Ints(fields) == \A bytes \in fields : Len(bytes) \in 1..5

\* A body is the one of its packet and is not empty; a length is not negative.
ASSUME ClientAssumption ==
  /\ \A b \in Handshakes : /\ b.kind = "handshake" /\ b.len \in Nat \ {0}
                           /\ Ints({b.id, b.version, b.hostlen, b.state})
  /\ \A b \in Logins : /\ b.kind = "login" /\ b.len \in Nat \ {0}
                       /\ Ints({b.id, b.namelen, b.key, b.sig})
  /\ \A b \in Requests : b.kind = "request" /\ b.len \in Nat \ {0} /\ Ints({b.id})
  /\ \A b \in Pings : b.kind = "ping" /\ b.len \in Nat \ {0} /\ Ints({b.id})
  /\ \A s \in Strays : /\ s \in Seq(Nat) /\ Len(s) = 3
                       /\ \A k \in 1..3 : LET v == VarInt(SubSeq(s, 1, k))
                                           IN  ~(v.state = "done" /\ v.n > 0)
  /\ \A h \in Headers : h.len \in Nat

ASSUME ConfigAssumption == \A c \in Configs : c.fallback \in Document

\* cache: the fallback can be served to every version.
ValidCache(max, fallback) == max \in 256..MaxResponse /\ Prepared(fallback, max)

\* incoming_proxy_v2: some networks are trusted, but never all.
ValidIncoming(nets) ==
  /\ nets # <<>> /\ Len(nets) <= MaxTrusted
  /\ \A i \in DOMAIN nets : nets[i].bits > 0

\* What Config::validate() accepts.
Valid(c) ==
  /\ ValidProtocol(c.protocol) /\ ValidPhases(c.timeouts) /\ ValidRelay(c.relay)
  /\ ValidCache(c.max_response, c.fallback)
  /\ c.incoming => ValidIncoming(c.trusted)

VARIABLES
  config,      \* Config
  peer,        \* the address that the policy is asked about
  phase,       \* the await that handle() is in, or how far it got
  clock,       \* ticks to the absolute deadline and to the end of a read's wait;
               \* whether the deadline was over when the wait began
  left,        \* what remains of max_initial_bytes
  reader,      \* the frame or header being read
  session,     \* h.version, the frames that are kept, the response
  result,      \* what handle() returned; what the backend was sent
  trace        \* ticks since accept, bytes taken from the client, frames read

sessionVars == <<peer, phase, clock, left, reader, session, result, trace>>
ingressVars == <<config, cached, sessionVars>>

NoFrame == [prefix |-> <<>>, body |-> [kind |-> "none", len |-> 0]]
NoReader == [frame |-> NoFrame, used |-> 0, open |-> FALSE]
NoSession == [version |-> 0, frames |-> <<>>, response |-> Response(0)]

NoResult == [error |-> "none", replay |-> <<>>]
NoTrace == [age |-> 0, bytes |-> 0, frames |-> <<>>]

Least(m, n) == IF m < n THEN m ELSE n

IngressInit ==
  /\ config \in {c \in Configs : Valid(c)}
  /\ peer \in Address
  /\ phase = "start"
  /\ clock = [deadline |-> config.timeouts.handshake,
              wait |-> Least(config.timeouts.handshake, config.timeouts.first_progress),
              missed |-> FALSE]
  /\ left = config.protocol.max_initial_bytes
  /\ reader = NoReader
  /\ session = NoSession
  /\ result = NoResult
  /\ trace = NoTrace
  /\ CacheInit

Waiting == {"header", "addresses", "handshake", "request", "respond", "ping", "pong",
            "login", "dial"}

\* handle() returns; its locals are dropped.  The frame it failed on is kept
\* for the properties.
Return(error) ==
  /\ phase' = "closed"
  /\ result' = [result EXCEPT !.error = error]
  /\ clock' = [deadline |-> 0, wait |-> 0, missed |-> FALSE]
  /\ session' = [NoSession EXCEPT !.version = session.version]
  /\ peer' = 0

\* The next await, with a deadline from now on.
Await(next, deadline, wait) ==
  /\ phase' = next
  /\ clock' = [deadline |-> deadline, wait |-> wait, missed |-> deadline = 0]
  /\ reader' = NoReader

Times == config.timeouts

-----------------------------------------------------------------------------
(* The peer's identity *)

MaxHeader == 4096     \* MAX_ADDRESS_AND_TLVS

\* The checks of read() on the first 16 bytes: signature with the command, the
\* family and the length.
Header(h) ==
  <<Check(h.signature, "Invalid"), Check(h.family \in {"v4", "v6"}, "Invalid"),
    Check(h.len >= IF h.family = "v4" THEN 12 ELSE 36, "Invalid"),
    Check(h.len <= MaxHeader, "Oversized")>>

\* Runtime::policy(): whether the peer is blocked.
Blacklisted(who) ==
  /\ ~config.policy.observe
  /\ ~Contains(config.policy.allow, who) /\ Contains(config.policy.block, who)

\* The policy, the limiter's accept(), then the handshake, whose deadline has
\* been running since accept.
Identify(who) ==
  \/ /\ Blacklisted(who)
     /\ Return("Blocked")
     /\ UNCHANGED <<left, reader>>
  \/ /\ ~Blacklisted(who)
     /\ Return("Refused")
     /\ UNCHANGED <<left, reader>>
  \/ /\ ~Blacklisted(who)
     /\ Await("handshake", clock.deadline, Times.first_progress)
     /\ peer' = 0
     /\ UNCHANGED <<left, session, result>>

\* is_trusted()
Trusted == InList(config.trusted, peer)

\* The task runs for the first time.
Start ==
  /\ phase = "start" /\ ~config.incoming
  /\ Identify(peer)
  /\ UNCHANGED trace

\* The accept loop drops the connection; no task sees it.
DropUntrusted ==
  /\ phase = "start" /\ config.incoming /\ ~Trusted
  /\ Return("Untrusted")
  /\ UNCHANGED <<left, reader, trace>>

StartTrusted ==
  /\ phase = "start" /\ config.incoming /\ Trusted
  /\ phase' = "header"
  /\ UNCHANGED <<peer, clock, left, reader, session, result, trace>>

ReadHeader(h) ==
  /\ phase = "header"
  /\ trace' = [trace EXCEPT !.bytes = @ + 16]
  /\ \/ /\ ~Passes(Header(h))
        /\ Return(Failure(Header(h)))
        /\ UNCHANGED <<left, reader>>
     \/ /\ Passes(Header(h))
        /\ phase' = "addresses"
        /\ reader' = [NoReader EXCEPT !.frame.body = h]
        /\ UNCHANGED <<peer, clock, left, session, result>>

\* The addresses and the TLVs, of which only the addresses are used.
ReadAddresses ==
  /\ phase = "addresses"
  /\ trace' = [trace EXCEPT !.bytes = @ + reader.frame.body.len]
  /\ IF reader.frame.body.usable THEN Identify(reader.frame.body.src)
     ELSE Return("Invalid") /\ UNCHANGED <<left, reader>>

-----------------------------------------------------------------------------
(* Frames *)

Bodies ==
  CASE phase = "handshake" -> Handshakes
    [] phase = "request" -> Requests
    [] phase = "ping" -> Pings
    [] OTHER -> Logins

\* What the client may send next: a body behind the shortest or the longest
\* encoding of its length, or something that is no frame.
Frames ==
  {[prefix |-> PutVarInt(body.len), body |-> body] : body \in Bodies} \cup
  {[prefix |-> Padded(body.len, 3), body |-> body] : body \in Bodies} \cup
  {[prefix |-> stray, body |-> NoFrame.body] : stray \in Strays}

Reading == phase \in {"handshake", "request", "ping", "login"}

\* The greatest length that handle() accepts for the frame.
Limit ==
  LET max == CASE phase = "handshake" -> HandshakeMax(config.protocol)
               [] phase = "request" -> 5
               [] phase = "ping" -> 13
               [] OTHER -> LoginMax(session.version, config.protocol)
  IN  Least(config.protocol.max_frame, max)

\* Mutant: progress moves the deadline of the phase.
ProgressExtends ==
  [deadline |-> IF phase = "login" THEN Times.login ELSE Times.handshake,
   wait |-> Times.progress, missed |-> FALSE]

\* read_bounded() waits anew after every read; the deadline stays, and is
\* looked at before the next read begins.
Progress == [clock EXCEPT !.wait = Times.progress, !.missed = clock.deadline = 0]

\* read_frame() finds the budget spent.
ReadExhausted ==
  /\ Reading /\ ~reader.open /\ left = 0
  /\ Return("Oversized")
  /\ UNCHANGED <<left, reader, trace>>

\* Mutant: only the prefix is taken off the budget.
AfterPrefix(length) == left - 1

\* The last byte of the prefix and the whole body are taken off at once.
AfterFrame(length) == left - 1 - length

\* One more byte of the prefix of frame f.
ReadPrefix(f) ==
  LET used == reader.used + 1
      length == VarInt(SubSeq(f.prefix, 1, used))
      here(opened) == [frame |-> f, used |-> used, open |-> opened]
  IN
  /\ Reading /\ ~reader.open /\ left > 0 /\ ~clock.missed
  /\ trace' = [trace EXCEPT !.bytes = @ + 1]
  /\ \/ /\ length.state = "incomplete" /\ used < 3
        /\ reader' = here(FALSE)
        /\ clock' = Progress
        /\ left' = left - 1
        /\ UNCHANGED <<peer, phase, session, result>>
     \/ /\ length.state = "incomplete" /\ used = 3
        /\ Return("VarInt")
        /\ reader' = here(FALSE) /\ left' = left - 1
     \/ /\ length.state = "done" /\ length.n <= 0
        /\ Return("Invalid")
        /\ reader' = here(FALSE) /\ left' = left - 1
     \/ /\ length.state = "done" /\ length.n > 0
        /\ length.n > Limit \/ length.n > left - 1
        /\ Return("Oversized")
        /\ reader' = here(FALSE) /\ left' = left - 1
     \/ /\ length.state = "done" /\ length.n \in 1..Least(Limit, left - 1)
        /\ reader' = here(TRUE)
        /\ clock' = Progress
        /\ left' = AfterFrame(length.n)
        /\ UNCHANGED <<peer, phase, session, result>>

\* A piece of the body that is not the last one.
ReadPart ==
  /\ reader.open /\ reader.frame.body.len > 1 /\ ~clock.missed
  /\ clock' = Progress
  /\ UNCHANGED <<peer, phase, left, reader, session, result, trace>>

\* The rest of the body.
Rest(kind) ==
  /\ phase = kind /\ reader.open /\ ~clock.missed
  /\ trace' = [trace EXCEPT !.bytes = @ + reader.frame.body.len,
                            !.frames = Append(@, reader.frame)]

\* Between two awaits the policy, the limiter or a pool may end the session.
Refuse == Return("Refused") /\ UNCHANGED <<left, reader>>

\* A parser's error is returned.
Reject(checks) ==
  /\ ~Passes(checks)
  /\ Return(Failure(checks))
  /\ UNCHANGED <<left, reader>>

\* The handshake is complete.
ReadHandshake ==
  LET body == reader.frame.body
      checks == Handshake(body, config.protocol)
      version == Value(body.version)
  IN
  /\ Rest("handshake")
  /\ \/ Reject(checks)
     \/ Passes(checks) /\ Refuse
     \/ /\ Passes(checks) /\ Value(body.state) = 1
        /\ session' = [session EXCEPT !.version = version]
        /\ Await("request", Times.status, Times.progress)
        /\ UNCHANGED <<peer, left, result>>
     \/ /\ Passes(checks) /\ Value(body.state) = 2
        /\ LoginSchema(version, config.protocol) = "none"
        /\ Return("Unsupported")
        /\ UNCHANGED <<left, reader>>
     \/ /\ Passes(checks) /\ Value(body.state) = 2
        /\ LoginSchema(version, config.protocol) # "none"
        /\ session' = [session EXCEPT !.version = version, !.frames = <<reader.frame>>]
        /\ Await("login", Times.login, Times.progress)
        /\ UNCHANGED <<peer, left, result>>

\* The request is complete: look up the response and write it.
ReadRequest ==
  LET checks == StatusRequest(reader.frame.body)
  IN
  /\ Rest("request")
  /\ \/ Reject(checks)
     \/ Passes(checks) /\ Refuse
     \/ /\ Passes(checks)
        /\ session' = [session EXCEPT !.response = Get(config.fallback, session.version)]
        /\ Await("respond", Times.status, Times.status)
        /\ UNCHANGED <<peer, left, result>>

\* The client has taken the response; nothing looks at it again.
Respond ==
  /\ phase = "respond"
  /\ Await("ping", Times.status, Times.progress)
  /\ session' = NoSession /\ trace' = [trace EXCEPT !.frames = <<>>]
  /\ UNCHANGED <<peer, left, result>>

\* The ping is complete: write it back.
ReadPing ==
  LET checks == Ping(reader.frame.body)
  IN
  /\ Rest("ping")
  /\ \/ Reject(checks)
     \/ /\ Passes(checks)
        /\ session' = [session EXCEPT !.frames = <<reader.frame>>]
        /\ Await("pong", Times.status, Times.status)
        /\ UNCHANGED <<peer, left, result>>

Pong ==
  /\ phase = "pong"
  /\ Return("Ok")
  /\ UNCHANGED <<left, reader, trace>>

\* Login Start is complete: dial the backend.
ReadLogin ==
  LET checks == Login(reader.frame.body, LoginSchema(session.version, config.protocol))
  IN
  /\ Rest("login")
  /\ \/ Reject(checks)
     \/ Passes(checks) /\ Refuse
     \/ /\ Passes(checks)
        /\ session' = [session EXCEPT !.frames = Append(@, reader.frame)]
        /\ Await("dial", Times.backend, Times.backend)
        /\ UNCHANGED <<peer, left, result>>

\* The backend has taken handshake.wire and login.wire.
Connect ==
  /\ phase = "dial"
  /\ Await("admitted", 0, 0)
  /\ result' = [result EXCEPT !.replay = session.frames]
  /\ session' = NoSession /\ left' = 0
  /\ UNCHANGED <<peer, trace>>

\* The admission and the frames are dropped; the relay begins.
HandOver ==
  /\ phase = "admitted"
  /\ Await("relay", 0, 0)
  /\ result' = NoResult /\ trace' = NoTrace
  /\ UNCHANGED <<peer, left, session>>

\* The backend refuses the connection or a write.
DialFails ==
  /\ phase = "dial"
  /\ Return("Refused")
  /\ UNCHANGED <<left, reader, trace>>

-----------------------------------------------------------------------------
(* The client's end, time and the cache *)

\* The client closes or resets the connection: Eof or Io.
Disconnect ==
  /\ phase \in Waiting \ {"dial"}
  /\ Return("Gone")
  /\ UNCHANGED <<left, reader, trace>>

Expired == clock.deadline = 0 \/ clock.wait = 0

\* Mutant: the second read of the header has no deadline.
ExpireHeaderOnly ==
  /\ phase \in Waiting \ {"addresses"} /\ Expired
  /\ Return("Deadline")
  /\ UNCHANGED <<left, reader, trace>>

\* timeout_at() tells the deadline from a slow client; the header and the writes
\* have only a deadline, and a dial that takes too long is a refusal.
Overdue ==
  IF phase = "dial" THEN "Refused"
  ELSE IF phase \in {"header", "addresses", "respond", "pong"} \/ clock.deadline = 0
  THEN "Deadline" ELSE "Slow"

\* The wait is over.
Expire ==
  /\ phase \in Waiting /\ Expired
  /\ Return(Overdue)
  /\ UNCHANGED <<left, reader, trace>>

\* A task waits for its turn, or for its client or the backend.
Elapse ==
  /\ phase = "start" \/ (phase \in Waiting /\ ~Expired)
  /\ phase = "start" => clock.deadline > 0 /\ (config.incoming => Trusted)
  /\ clock' = [clock EXCEPT !.deadline = @ - 1, !.wait = IF @ > 0 THEN @ - 1 ELSE 0]
  /\ trace' = [trace EXCEPT !.age = @ + 1]
  /\ UNCHANGED <<peer, phase, left, reader, session, result>>

Client ==
  \/ \E h \in Headers : ReadHeader(h)
  \/ ReadAddresses
  \/ \E f \in (IF reader.used = 0 THEN Frames ELSE {reader.frame}) : ReadPrefix(f)
  \/ ReadPart
  \/ ReadHandshake \/ ReadRequest \/ ReadPing \/ ReadLogin
  \/ Respond \/ Pong \/ Disconnect

Task ==
  \/ Start \/ DropUntrusted \/ StartTrusted
  \/ ReadExhausted \/ HandOver \/ Expire

Dial == Connect \/ DialFails

Handle == Client \/ Task \/ Dial \/ Elapse

\* Whatever the cache does, it can as well have done while the one session that
\* asks it sends its request.
CacheStep ==
  /\ phase = "request" /\ reader = NoReader
  /\ Age \/ \E json \in Answers : Refresh(json, config.max_response)

IngressNext ==
  \/ Handle /\ UNCHANGED <<config, cached>>
  \/ CacheStep /\ UNCHANGED <<config, sessionVars>>

-----------------------------------------------------------------------------
(* Properties *)

\* All the frames of a session share one budget: however many there are, and
\* however their lengths are encoded, handle() takes no more bytes from a
\* client than max_initial_bytes before the relay, and a bounded header.
InitialBytesBounded ==
  trace.bytes <= config.protocol.max_initial_bytes + (IF config.incoming THEN 16 + MaxHeader ELSE 0)

\* The deadlines up to a phase and its own.
Allowance(at) ==
  Times.handshake + (IF at = "login" THEN Times.login
                     ELSE IF at \in {"dial", "admitted"} THEN Times.login + Times.backend
                     ELSE IF at = "request" THEN Times.status
                     ELSE IF at = "respond" THEN 2 * Times.status
                     ELSE IF at = "ping" THEN 3 * Times.status
                     ELSE IF at = "pong" THEN 4 * Times.status ELSE 0)

\* A client cannot stretch a phase by sending drop by drop: every phase ends
\* within the sum of the deadlines up to it, counted from accept.
PhaseDeadlinesAbsolute ==
  phase \notin {"relay", "closed"} => trace.age <= Allowance(phase)

Acceptable(body) ==
  CASE body.kind = "handshake" -> Passes(Handshake(body, config.protocol))
    [] body.kind = "request" -> Passes(StatusRequest(body))
    [] body.kind = "ping" -> Passes(Ping(body))
    [] body.kind = "login" ->
         Passes(Login(body, LoginSchema(session.version, config.protocol)))
    [] OTHER -> FALSE

\* The bound that a phase sets on a frame never refuses a packet that its
\* parser accepts, padded VarInts included: such a packet is oversized only
\* beyond max_frame, or, after the first frame, beyond what the session has
\* left.
AcceptablePacketsFit ==
  LET body == reader.frame.body
  IN  result.error = "Oversized" /\ Acceptable(body) =>
        \/ body.len > config.protocol.max_frame
        \/ body.kind # "handshake" /\ body.len > left

\* The backend sees the client's stream from its first byte: what handle()
\* took off it goes to the backend frame by frame, in the client's encoding.
StreamReplayed == phase = "admitted" => result.replay = trace.frames

\* Whatever document the backend answered and whatever version the client
\* asked with, the response is within max_response_bytes, and its two length
\* fields say what they should.
ResponseWellFormed ==
  phase = "respond" =>
    LET r == session.response
    IN  /\ ResponseSize(r) <= config.max_response
        /\ VarInt(r.inner).n = r.text
        /\ VarInt(r.outer).n = 1 + Len(r.inner) + r.text

Identity == IF phase = "addresses" THEN reader.frame.body.src ELSE peer

Listed == /\ ~config.policy.observe /\ InList(config.policy.block, Identity)
          /\ ~InList(config.policy.allow, Identity)

\* The indexes of the two lists decide as scans of them would: no peer that is
\* blocked and not allowed gets to its handshake, and no other is turned away
\* as blocked.
BlockListExact ==
  [][/\ phase # "handshake" /\ phase' = "handshake" => ~Listed
     /\ phase \in {"start", "addresses"} /\ result.error # "Blocked" /\ result'.error = "Blocked"
          => Listed]_ingressVars

\* Every session ends or becomes a relay, even if neither the client nor the
\* backend ever sends or takes another byte.
SessionsProceed == phase = "start" ~> phase \in {"relay", "closed"}
=============================================================================
