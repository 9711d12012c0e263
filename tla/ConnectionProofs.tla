-------------------------- MODULE ConnectionProofs --------------------------
(*************************************************************************)
(* What holds of a connection for every configuration and every client: of *)
(* the way to the backend, byte by byte, and of the relay that follows it. *)
(*************************************************************************)
EXTENDS Connection, StreamProofs

-----------------------------------------------------------------------------
(* The session *)

\* Reading one byte leaves the sum of what was taken and what is left, and so
\* does taking all or nothing of what is to come.
LEMMA OneByte ==
  /\ \A n \in Nat : n + 0 = n
  /\ \A t, l, a \in Nat :
       l > 0 /\ t + l <= a => t + 1 \in Nat /\ t + 1 <= a /\ t + 1 + (l - 1) + 0 <= a
  /\ \A t, l, c, a \in Nat :
       t + l + c <= a => t + l <= a /\ (t + c) + l <= a
BY SMT

\* And so does reading the byte that opens a frame.
LEMMA OneFrame ==
  \A t, l, n, a \in Nat : t + l <= a => t + 1 + (l - 1 - n) + n <= a
BY SMT

\* The alternatives of a step, one by one.
LEMMA IngressSteps ==
  ASSUME [ConnectionNext]_connectionVars
  PROVE  \/ /\ UNCHANGED config
            /\ \/ Start \/ DropUntrusted \/ StartTrusted \/ ReadExhausted \/ HandOver
               \/ Expire \/ Connect \/ DialFails \/ Elapse \/ ReadAddresses \/ ReadPart
               \/ ReadHandshake \/ ReadRequest \/ ReadPing \/ ReadLogin
               \/ Respond \/ Pong \/ Disconnect
               \/ \E h \in Headers : ReadHeader(h)
               \/ \E f : ReadPrefix(f)
         \/ UNCHANGED <<config, sessionVars>>
         \/ UNCHANGED ingressVars
BY SMTT(20) DEF ConnectionNext, connectionVars, IngressNext, Handle, Client, Task, Dial, CacheStep

\* The configuration is one that was validated, and the records keep their
\* fields.
Shape ==
  /\ config \in Configs /\ Valid(config)
  /\ DOMAIN trace = {"age", "bytes", "frames"}
  /\ DOMAIN session = {"version", "frames", "response"}
  /\ DOMAIN result = {"error", "replay"}
  /\ DOMAIN clock = {"deadline", "wait", "missed"}

\* Every step keeps them.
LEMMA ShapeStep ==
  ASSUME Shape, [ConnectionNext]_connectionVars
  PROVE  Shape'
<1> USE DEF Shape, NoSession, NoResult, NoTrace
<1>1. ASSUME Start, UNCHANGED config PROVE Shape'
  BY <1>1 DEF Start, Identify, Await, Return
<1>2. ASSUME DropUntrusted, UNCHANGED config PROVE Shape'
  BY <1>2 DEF DropUntrusted, Return
<1>3. ASSUME StartTrusted, UNCHANGED config PROVE Shape'
  BY <1>3 DEF StartTrusted
<1>4. ASSUME ReadExhausted, UNCHANGED config PROVE Shape'
  BY <1>4 DEF ReadExhausted, Return, Reading
<1>5. ASSUME HandOver, UNCHANGED config PROVE Shape'
  BY <1>5 DEF HandOver, Await, NoTrace
<1>6. ASSUME Expire, UNCHANGED config PROVE Shape'
  BY <1>6 DEF Expire, Return
<1>7. ASSUME Connect, UNCHANGED config PROVE Shape'
  BY <1>7 DEF Connect, Await
<1>8. ASSUME DialFails, UNCHANGED config PROVE Shape'
  BY <1>8 DEF DialFails, Return
<1>9. ASSUME Elapse, UNCHANGED config PROVE Shape'
  BY <1>9 DEF Elapse, Expired
<1>10. ASSUME ReadAddresses, UNCHANGED config PROVE Shape'
  BY <1>10 DEF ReadAddresses, Identify, Await, Return
<1>11. ASSUME ReadPart, UNCHANGED config PROVE Shape'
  BY <1>11 DEF ReadPart, Progress
<1>12. ASSUME ReadHandshake, UNCHANGED config PROVE Shape'
  BY <1>12, Zenon DEF ReadHandshake, Rest, Reject, Refuse, Return, Await
<1>13. ASSUME ReadRequest, UNCHANGED config PROVE Shape'
  BY <1>13 DEF ReadRequest, Rest, Reject, Refuse, Return, Await
<1>14. ASSUME ReadPing, UNCHANGED config PROVE Shape'
  BY <1>14 DEF ReadPing, Rest, Reject, Return, Await
<1>15. ASSUME ReadLogin, UNCHANGED config PROVE Shape'
  BY <1>15 DEF ReadLogin, Rest, Reject, Refuse, Return, Await
<1>16. ASSUME Respond, UNCHANGED config PROVE Shape'
  BY <1>16 DEF Respond, Await
<1>17. ASSUME Pong, UNCHANGED config PROVE Shape'
  BY <1>17 DEF Pong, Return
<1>18. ASSUME Disconnect, UNCHANGED config PROVE Shape'
  BY <1>18 DEF Disconnect, Return
<1>19. ASSUME NEW h \in Headers, ReadHeader(h), UNCHANGED config PROVE Shape'
  BY <1>19 DEF ReadHeader, Return
<1>20. ASSUME NEW f, ReadPrefix(f), UNCHANGED config PROVE Shape'
  BY <1>20, Zenon DEF ReadPrefix, Return, Progress, Reading
<1>21. ASSUME UNCHANGED <<config, sessionVars>> PROVE Shape'
  BY <1>21 DEF sessionVars
<1>22. ASSUME UNCHANGED ingressVars PROVE Shape'
  BY <1>22 DEF ingressVars, sessionVars
<1> QED
  BY ZenonT(20), IngressSteps, <1>1, <1>2, <1>3, <1>4, <1>5, <1>6, <1>7, <1>8, <1>9, <1>10,
     <1>11, <1>12, <1>13, <1>14, <1>15, <1>16, <1>17, <1>18, <1>19, <1>20, <1>21, <1>22

\* They are there from the start.
LEMMA ShapeInit == ConnectionInit => Shape
BY DEF ConnectionInit, IngressInit, Shape, NoSession, NoResult, NoTrace

\* No phase of a validated configuration is without a deadline.
LEMMA Deadlines ==
  ASSUME Shape
  PROVE  /\ Times.handshake \in Nat /\ Times.login \in Nat /\ Times.status \in Nat
         /\ Times.backend \in Nat
<1>1. {Times.first_progress, Times.progress, Times.handshake, Times.login, Times.status,
       Times.backend} \subseteq 1..MaxPhaseMs
  <2>1. ValidPhases(config.timeouts)
    BY DEF Shape, Valid
  <2> QED
    BY <2>1, Zenon DEF ValidPhases, Times
<1>2. /\ Times.handshake \in 1..MaxPhaseMs /\ Times.login \in 1..MaxPhaseMs
      /\ Times.status \in 1..MaxPhaseMs /\ Times.backend \in 1..MaxPhaseMs
  BY <1>1, Zenon
<1> QED
  BY <1>2

\* What is left of a deadline never exceeds what is left of the allowance.
ClockInv ==
  /\ clock.deadline \in Nat /\ trace.age \in Nat
  /\ phase \in Waiting \cup {"start", "admitted", "relay", "closed"}
  /\ phase \notin {"relay", "closed"} => trace.age + clock.deadline <= Allowance(phase)

\* Every step keeps it.
LEMMA ClockStep ==
  ASSUME Shape, ClockInv, [ConnectionNext]_connectionVars
  PROVE  ClockInv'
<1> USE Deadlines DEF ClockInv, Shape, Waiting, Allowance, Times
<1>1. ASSUME Start, UNCHANGED config PROVE ClockInv'
  BY <1>1 DEF Start, Identify, Await, Return
<1>2. ASSUME DropUntrusted, UNCHANGED config PROVE ClockInv'
  BY <1>2 DEF DropUntrusted, Return
<1>3. ASSUME StartTrusted, UNCHANGED config PROVE ClockInv'
  BY <1>3 DEF StartTrusted
<1>4. ASSUME ReadExhausted, UNCHANGED config PROVE ClockInv'
  BY <1>4, SMTT(20) DEF ReadExhausted, Return, Reading
<1>5. ASSUME HandOver, UNCHANGED config PROVE ClockInv'
  BY <1>5 DEF HandOver, Await, NoTrace
<1>6. ASSUME Expire, UNCHANGED config PROVE ClockInv'
  BY <1>6 DEF Expire, Return
<1>7. ASSUME Connect, UNCHANGED config PROVE ClockInv'
  BY <1>7 DEF Connect, Await
<1>8. ASSUME DialFails, UNCHANGED config PROVE ClockInv'
  BY <1>8 DEF DialFails, Return
<1>9. ASSUME Elapse, UNCHANGED config PROVE ClockInv'
  BY <1>9 DEF Elapse, Expired
<1>10. ASSUME ReadAddresses, UNCHANGED config PROVE ClockInv'
  BY <1>10 DEF ReadAddresses, Identify, Await, Return
<1>11. ASSUME ReadPart, UNCHANGED config PROVE ClockInv'
  BY <1>11 DEF ReadPart, Progress
<1>12. ASSUME ReadHandshake, UNCHANGED config PROVE ClockInv'
  BY <1>12 DEF ReadHandshake, Rest, Reject, Refuse, Return, Await
<1>13. ASSUME ReadRequest, UNCHANGED config PROVE ClockInv'
  BY <1>13 DEF ReadRequest, Rest, Reject, Refuse, Return, Await
<1>14. ASSUME ReadPing, UNCHANGED config PROVE ClockInv'
  BY <1>14 DEF ReadPing, Rest, Reject, Return, Await
<1>15. ASSUME ReadLogin, UNCHANGED config PROVE ClockInv'
  <2>1. phase = "login" /\ trace'.age = trace.age
    BY <1>15 DEF ReadLogin, Rest
  <2>2. \/ phase' = "closed" /\ clock'.deadline = 0
        \/ phase' = "dial" /\ clock'.deadline = Times.backend
    BY <1>15 DEF ReadLogin, Reject, Refuse, Return, Await
  <2>3. trace.age <= Times.handshake + Times.login
    BY <2>1, SMTT(20)
  <2> QED
    BY <1>15, <2>1, <2>2, <2>3
<1>16. ASSUME Respond, UNCHANGED config PROVE ClockInv'
  <2>1. phase = "respond" /\ phase' = "ping" /\ trace'.age = trace.age
    BY <1>16 DEF Respond, Await
  <2>2. clock'.deadline = Times.status
    BY <1>16 DEF Respond, Await
  <2>3. trace.age <= Times.handshake + 2 * Times.status
    BY <2>1
  <2> QED
    BY <1>16, <2>1, <2>2, <2>3
<1>17. ASSUME Pong, UNCHANGED config PROVE ClockInv'
  BY <1>17 DEF Pong, Return
<1>18. ASSUME Disconnect, UNCHANGED config PROVE ClockInv'
  BY <1>18 DEF Disconnect, Return
<1>19. ASSUME NEW h \in Headers, ReadHeader(h), UNCHANGED config PROVE ClockInv'
  BY <1>19, SMTT(20) DEF ReadHeader, Return
<1>20. ASSUME NEW f, ReadPrefix(f), UNCHANGED config PROVE ClockInv'
  <2>1. trace'.age = trace.age
    BY <1>20 DEF ReadPrefix
  <2>2. \/ phase' = "closed" /\ clock' = [deadline |-> 0, wait |-> 0, missed |-> FALSE]
        \/ phase' = phase /\ clock' = Progress
    BY <1>20, Zenon DEF ReadPrefix, Return
  <2>3. Progress.deadline = clock.deadline
    BY SMTT(20) DEF Progress
  <2>4. CASE phase' = "closed" /\ clock' = [deadline |-> 0, wait |-> 0, missed |-> FALSE]
    BY <2>1, <2>4, SMTT(20)
  <2>5. CASE phase' = phase /\ clock' = Progress
    <3>1. clock'.deadline = clock.deadline
      BY <2>3, <2>5
    <3> QED
      BY <1>20, <2>1, <2>5, <3>1
  <2> QED
    BY <2>2, <2>4, <2>5
<1>21. ASSUME UNCHANGED <<config, sessionVars>> PROVE ClockInv'
  BY <1>21, SMTT(20) DEF sessionVars
<1>22. ASSUME UNCHANGED ingressVars PROVE ClockInv'
  BY <1>22 DEF ingressVars, sessionVars
<1> QED
  BY Zenon, IngressSteps, <1>1, <1>2, <1>3, <1>4, <1>5, <1>6, <1>7, <1>8, <1>9, <1>10,
     <1>11, <1>12, <1>13, <1>14, <1>15, <1>16, <1>17, <1>18, <1>19, <1>20, <1>21, <1>22

\* Every behaviour keeps every phase within its deadlines, counted from accept,
\* however the client divides what it sends.
THEOREM PhasesAreAbsolute == ConnectionSpec => []PhaseDeadlinesAbsolute
<1>1. ConnectionInit => Shape /\ ClockInv
  <2> SUFFICES ASSUME ConnectionInit PROVE Shape /\ ClockInv
    OBVIOUS
  <2>1. Shape
    BY ShapeInit
  <2>2. ClockInv
    BY <2>1, Deadlines DEF ConnectionInit, IngressInit, ClockInv, Waiting, Allowance, Times, NoTrace
  <2> QED
    BY <2>1, <2>2
<1>2. Shape /\ ClockInv /\ [ConnectionNext]_connectionVars => Shape' /\ ClockInv'
  BY ShapeStep, ClockStep
<1>3. ClockInv /\ Shape => PhaseDeadlinesAbsolute
  BY Deadlines, SMTT(20) DEF ClockInv, PhaseDeadlinesAbsolute, Allowance
<1> QED
  BY <1>1, <1>2, <1>3, PTL DEF ConnectionSpec

\* The frames that are kept are the frames that were read.
StreamInv ==
  /\ phase \in {"start", "header", "addresses", "handshake"} => trace.frames = <<>>
  /\ phase \in {"login", "dial"} => session.frames = trace.frames
  /\ phase = "admitted" => result.replay = trace.frames

\* Every step keeps them.
LEMMA StreamStep ==
  ASSUME Shape, StreamInv, [ConnectionNext]_connectionVars
  PROVE  StreamInv'
<1> USE DEF StreamInv, Shape, Waiting
<1>1. ASSUME Start, UNCHANGED config PROVE StreamInv'
  BY <1>1 DEF Start, Identify, Await, Return
<1>2. ASSUME DropUntrusted, UNCHANGED config PROVE StreamInv'
  BY <1>2, SMTT(20) DEF DropUntrusted, Return
<1>3. ASSUME StartTrusted, UNCHANGED config PROVE StreamInv'
  BY <1>3 DEF StartTrusted
<1>4. ASSUME ReadExhausted, UNCHANGED config PROVE StreamInv'
  BY <1>4 DEF ReadExhausted, Return, Reading
<1>5. ASSUME HandOver, UNCHANGED config PROVE StreamInv'
  BY <1>5 DEF HandOver, Await, NoTrace
<1>6. ASSUME Expire, UNCHANGED config PROVE StreamInv'
  BY <1>6 DEF Expire, Return
<1>7. ASSUME Connect, UNCHANGED config PROVE StreamInv'
  BY <1>7 DEF Connect, Await
<1>8. ASSUME DialFails, UNCHANGED config PROVE StreamInv'
  BY <1>8 DEF DialFails, Return
<1>9. ASSUME Elapse, UNCHANGED config PROVE StreamInv'
  BY <1>9 DEF Elapse, Expired
<1>10. ASSUME ReadAddresses, UNCHANGED config PROVE StreamInv'
  BY <1>10 DEF ReadAddresses, Identify, Await, Return
<1>11. ASSUME ReadPart, UNCHANGED config PROVE StreamInv'
  BY <1>11 DEF ReadPart, Progress
<1>12. ASSUME ReadHandshake, UNCHANGED config PROVE StreamInv'
  <2>1. phase = "handshake" /\ trace.frames = <<>>
    BY <1>12 DEF ReadHandshake, Rest
  <2>2. trace'.frames = Append(trace.frames, reader.frame)
    BY <1>12 DEF ReadHandshake, Rest
  <2>3. trace'.frames = <<reader.frame>>
    BY <2>1, <2>2
  <2>4. \/ phase' \in {"closed", "request"}
        \/ phase' = "login" /\ session'.frames = <<reader.frame>>
    BY <1>12, Zenon DEF ReadHandshake, Reject, Refuse, Return, Await
  <2> QED
    BY <2>3, <2>4
<1>13. ASSUME ReadRequest, UNCHANGED config PROVE StreamInv'
  BY <1>13 DEF ReadRequest, Rest, Reject, Refuse, Return, Await
<1>14. ASSUME ReadPing, UNCHANGED config PROVE StreamInv'
  BY <1>14 DEF ReadPing, Rest, Reject, Return, Await
<1>15. ASSUME ReadLogin, UNCHANGED config PROVE StreamInv'
  BY <1>15 DEF ReadLogin, Rest, Reject, Refuse, Return, Await
<1>16. ASSUME Respond, UNCHANGED config PROVE StreamInv'
  BY <1>16 DEF Respond, Await
<1>17. ASSUME Pong, UNCHANGED config PROVE StreamInv'
  BY <1>17 DEF Pong, Return
<1>18. ASSUME Disconnect, UNCHANGED config PROVE StreamInv'
  BY <1>18 DEF Disconnect, Return
<1>19. ASSUME NEW h \in Headers, ReadHeader(h), UNCHANGED config PROVE StreamInv'
  BY <1>19 DEF ReadHeader, Return
<1>20. ASSUME NEW f, ReadPrefix(f), UNCHANGED config PROVE StreamInv'
  BY <1>20 DEF ReadPrefix, Return, Progress, Reading
<1>21. ASSUME UNCHANGED <<config, sessionVars>> PROVE StreamInv'
  BY <1>21 DEF sessionVars
<1>22. ASSUME UNCHANGED ingressVars PROVE StreamInv'
  BY <1>22 DEF ingressVars, sessionVars
<1> QED
  BY Zenon, IngressSteps, <1>1, <1>2, <1>3, <1>4, <1>5, <1>6, <1>7, <1>8, <1>9, <1>10,
     <1>11, <1>12, <1>13, <1>14, <1>15, <1>16, <1>17, <1>18, <1>19, <1>20, <1>21, <1>22

\* In every behaviour the backend has been sent every frame that was taken off
\* the client's stream, as it was, when the relay takes over.
THEOREM StreamIsReplayed == ConnectionSpec => []StreamReplayed
<1>1. ConnectionInit => Shape /\ StreamInv
  BY ShapeInit DEF ConnectionInit, IngressInit, StreamInv, NoTrace
<1>2. Shape /\ StreamInv /\ [ConnectionNext]_connectionVars => Shape' /\ StreamInv'
  BY ShapeStep, StreamStep
<1>3. StreamInv => StreamReplayed
  BY DEF StreamInv, StreamReplayed
<1> QED
  BY <1>1, <1>2, <1>3, PTL DEF ConnectionSpec

\* The step that BlockListExact is about.
BlockStep ==
  /\ phase # "handshake" /\ phase' = "handshake" => ~Listed
  /\ phase \in {"start", "addresses"} /\ result.error # "Blocked" /\ result'.error = "Blocked"
       => Listed

\* The policy blocks as scans of its two lists would.
LEMMA BlacklistedAsListed ==
  ASSUME NEW who
  PROVE  Blacklisted(who) <=> /\ ~config.policy.observe /\ InList(config.policy.block, who)
                              /\ ~InList(config.policy.allow, who)
BY IndexIsExact, ZenonT(20) DEF Blacklisted

\* Every step is one.
LEMMA BlockListStep ==
  ASSUME Shape, [ConnectionNext]_connectionVars
  PROVE  BlockStep
<1> USE DEF BlockStep, Shape
<1>1. ASSUME Start, UNCHANGED config PROVE BlockStep
  <2>1. phase = "start" /\ Identity = peer
    BY <1>1 DEF Start, Identity
  <2>2. Listed <=> Blacklisted(peer)
    BY <2>1, BlacklistedAsListed, Zenon DEF Listed
  <2> QED
    BY <1>1, <2>1, <2>2 DEF Start, Identify, Await, Return
<1>2. ASSUME DropUntrusted, UNCHANGED config PROVE BlockStep
  BY <1>2 DEF DropUntrusted, Return
<1>3. ASSUME StartTrusted, UNCHANGED config PROVE BlockStep
  BY <1>3 DEF StartTrusted
<1>4. ASSUME ReadExhausted, UNCHANGED config PROVE BlockStep
  BY <1>4 DEF ReadExhausted, Return, Reading
<1>5. ASSUME HandOver, UNCHANGED config PROVE BlockStep
  BY <1>5 DEF HandOver, Await, NoTrace
<1>6. ASSUME Expire, UNCHANGED config PROVE BlockStep
  BY <1>6 DEF Expire, Return, Overdue
<1>7. ASSUME Connect, UNCHANGED config PROVE BlockStep
  BY <1>7 DEF Connect, Await
<1>8. ASSUME DialFails, UNCHANGED config PROVE BlockStep
  BY <1>8 DEF DialFails, Return
<1>9. ASSUME Elapse, UNCHANGED config PROVE BlockStep
  BY <1>9 DEF Elapse, Expired
<1>10. ASSUME ReadAddresses, UNCHANGED config PROVE BlockStep
  <2>1. phase = "addresses" /\ Identity = reader.frame.body.src
    BY <1>10 DEF ReadAddresses, Identity
  <2>2. Listed <=> Blacklisted(reader.frame.body.src)
    BY <2>1, BlacklistedAsListed, Zenon DEF Listed
  <2> QED
    BY <1>10, <2>1, <2>2 DEF ReadAddresses, Identify, Await, Return
<1>11. ASSUME ReadPart, UNCHANGED config PROVE BlockStep
  BY <1>11 DEF ReadPart, Progress
<1>12. ASSUME ReadHandshake, UNCHANGED config PROVE BlockStep
  <2>1. phase \notin {"start", "addresses"}
    BY <1>12 DEF ReadHandshake, Rest
  <2>2. phase' # "handshake"
    BY <1>12 DEF ReadHandshake, Rest, Reject, Refuse, Return, Await
  <2> QED
    BY <2>1, <2>2
<1>13. ASSUME ReadRequest, UNCHANGED config PROVE BlockStep
  <2>1. phase \notin {"start", "addresses"}
    BY <1>13 DEF ReadRequest, Rest
  <2>2. phase' # "handshake"
    BY <1>13 DEF ReadRequest, Rest, Reject, Refuse, Return, Await
  <2> QED
    BY <2>1, <2>2
<1>14. ASSUME ReadPing, UNCHANGED config PROVE BlockStep
  <2>1. phase \notin {"start", "addresses"}
    BY <1>14 DEF ReadPing, Rest
  <2>2. phase' # "handshake"
    BY <1>14 DEF ReadPing, Rest, Reject, Return, Await
  <2> QED
    BY <2>1, <2>2
<1>15. ASSUME ReadLogin, UNCHANGED config PROVE BlockStep
  <2>1. phase \notin {"start", "addresses"}
    BY <1>15 DEF ReadLogin, Rest
  <2>2. phase' # "handshake"
    BY <1>15 DEF ReadLogin, Rest, Reject, Refuse, Return, Await
  <2> QED
    BY <2>1, <2>2
<1>16. ASSUME Respond, UNCHANGED config PROVE BlockStep
  BY <1>16 DEF Respond, Await
<1>17. ASSUME Pong, UNCHANGED config PROVE BlockStep
  BY <1>17 DEF Pong, Return
<1>18. ASSUME Disconnect, UNCHANGED config PROVE BlockStep
  BY <1>18 DEF Disconnect, Return
<1>19. ASSUME NEW h \in Headers, ReadHeader(h), UNCHANGED config PROVE BlockStep
  <2>1. phase = "header" /\ phase' # "handshake"
    BY <1>19 DEF ReadHeader, Return
  <2> QED
    BY <2>1
<1>20. ASSUME NEW f, ReadPrefix(f), UNCHANGED config PROVE BlockStep
  <2>1. phase' = "closed" \/ phase' = phase
    BY <1>20, Zenon DEF ReadPrefix, Return
  <2>2. phase \notin {"start", "addresses"}
    BY <1>20 DEF ReadPrefix, Reading
  <2> QED
    BY <2>1, <2>2
<1>21. ASSUME UNCHANGED <<config, sessionVars>> PROVE BlockStep
  BY <1>21 DEF sessionVars
<1>22. ASSUME UNCHANGED ingressVars PROVE BlockStep
  BY <1>22 DEF ingressVars, sessionVars
<1> QED
  BY ZenonT(20), IngressSteps, <1>1, <1>2, <1>3, <1>4, <1>5, <1>6, <1>7, <1>8, <1>9, <1>10,
     <1>11, <1>12, <1>13, <1>14, <1>15, <1>16, <1>17, <1>18, <1>19, <1>20, <1>21, <1>22

\* In every behaviour, whatever the lists and however long they are, the peers
\* that are turned away as blocked are those that a scan would find.
THEOREM BlockListIsExact == ConnectionSpec => BlockListExact
<1>1. ConnectionInit => Shape
  BY ShapeInit
<1>2. Shape /\ [ConnectionNext]_connectionVars => Shape' /\ [BlockStep]_ingressVars
  BY ShapeStep, BlockListStep
<1>3. [BlockStep]_ingressVars =>
        [/\ phase # "handshake" /\ phase' = "handshake" => ~Listed
         /\ phase \in {"start", "addresses"} /\ result.error # "Blocked" /\ result'.error = "Blocked"
              => Listed]_ingressVars
  BY DEF BlockStep
<1> QED
  BY <1>1, <1>2, <1>3, PTL DEF ConnectionSpec, BlockListExact

-----------------------------------------------------------------------------
(* What the client sends *)

\* The bodies of a phase are of its kind.
LEMMA BodyKinds ==
  ASSUME NEW b \in Bodies
  PROVE  b.len \in Nat \ {0} /\ (Reading => b.kind = phase)
BY ZenonT(20), ClientAssumption DEF Bodies, Reading

\* What read_frame() makes of the next byte of a prefix: a length that it finds
\* is the one of the body, and it looks at no more bytes than there are.
LEMMA PrefixRead ==
  ASSUME NEW f \in Frames, NEW k \in 1..3, k <= Len(f.prefix)
  PROVE  /\ VarInt(SubSeq(f.prefix, 1, k)).state = "incomplete" /\ k < 3 => k < Len(f.prefix)
         /\ VarInt(SubSeq(f.prefix, 1, k)).state = "done" /\ VarInt(SubSeq(f.prefix, 1, k)).n > 0
              => f.body \in Bodies /\ VarInt(SubSeq(f.prefix, 1, k)).n = f.body.len
<1> DEFINE v == VarInt(SubSeq(f.prefix, 1, k))
<1>0. Incomplete.state = "incomplete"
  BY DEF Incomplete
<1>1. CASE \E body \in Bodies : f = [prefix |-> PutVarInt(body.len), body |-> body]
  <2>1. PICK body \in Bodies : f = [prefix |-> PutVarInt(body.len), body |-> body]
    BY <1>1
  <2>2. f.prefix = PutVarInt(body.len) /\ f.body = body /\ body.len \in Nat
    BY <2>1, BodyKinds
  <2>3. Len(f.prefix) = PutSize(body.len) /\ PutSize(body.len) \in 1..5
    BY ZenonT(20), <2>2, PutBytes, Rests
  <2>4. v = IF k = PutSize(body.len) THEN [state |-> "done", used |-> k, n |-> body.len]
            ELSE Incomplete
    BY ZenonT(20), <2>2, <2>3, PutReads
  <2> HIDE DEF v
  <2>5. CASE k = PutSize(body.len)
    <3>1. v.state = "done" /\ v.n = body.len
      BY <2>4, <2>5
    <3> QED
      BY <2>2, <3>1 DEF v
  <2>6. CASE k # PutSize(body.len)
    <3>1. v.state = "incomplete" /\ k < Len(f.prefix)
      BY <1>0, <2>3, <2>4, <2>6
    <3> QED
      BY <3>1 DEF v
  <2> QED
    BY <2>5, <2>6
<1>2. CASE \E body \in Bodies : f = [prefix |-> Padded(body.len, 3), body |-> body]
  <2>1. PICK body \in Bodies : f = [prefix |-> Padded(body.len, 3), body |-> body]
    BY <1>2
  <2>2. f.prefix = Padded(body.len, 3) /\ f.body = body /\ body.len \in Nat
    BY <2>1, BodyKinds
  <2>3. /\ Len(f.prefix) = 3
        /\ \/ v = Incomplete
           \/ k = 3 /\ v = [state |-> "done", used |-> k, n |-> body.len]
    BY ZenonT(20), <2>2, PaddedReads
  <2> HIDE DEF v
  <2>4. v.state = "incomplete" \/ (v.state = "done" /\ v.n = body.len)
    BY <1>0, <2>3
  <2> QED
    BY ZenonT(20), <2>2, <2>3, <2>4 DEF v
<1>3. CASE \E stray \in Strays : f = [prefix |-> stray, body |-> NoFrame.body]
  <2>1. PICK stray \in Strays : f = [prefix |-> stray, body |-> NoFrame.body]
    BY <1>3
  <2>2. f.prefix = stray
    BY <2>1
  <2>3. Len(f.prefix) = 3 /\ ~(v.state = "done" /\ v.n > 0)
    BY <2>2, ClientAssumption
  <2> HIDE DEF v
  <2> QED
    BY <2>3 DEF v
<1> QED
  BY <1>1, <1>2, <1>3 DEF Frames

\* The alternatives of a step, with what the client sends and with the cache.
LEMMA ClientSteps ==
  ASSUME [ConnectionNext]_connectionVars
  PROVE  \/ /\ UNCHANGED <<config, cached>>
            /\ \/ Start \/ DropUntrusted \/ StartTrusted \/ ReadExhausted \/ HandOver
               \/ Expire \/ Connect \/ DialFails \/ Elapse \/ ReadAddresses \/ ReadPart
               \/ ReadHandshake \/ ReadRequest \/ ReadPing \/ ReadLogin
               \/ Respond \/ Pong \/ Disconnect
               \/ \E h \in Headers : ReadHeader(h)
               \/ \E f \in (IF reader.used = 0 THEN Frames ELSE {reader.frame}) : ReadPrefix(f)
         \/ /\ UNCHANGED <<config, sessionVars>>
            /\ Age \/ \E json \in Answers : Refresh(json, config.max_response)
         \/ UNCHANGED ingressVars
BY SMTT(20) DEF ConnectionNext, connectionVars, IngressNext, Handle, Client, Task, Dial, CacheStep

-----------------------------------------------------------------------------
(* The reader *)

\* What is being read is a frame of the phase, and there is more of its prefix.
ReaderInv ==
  /\ left \in Nat
  /\ phase \in {"start", "header"} => reader = NoReader
  /\ Reading /\ reader.used = 0 => reader = NoReader
  /\ Reading /\ reader.used # 0 =>
       /\ reader.used \in 1..3 /\ reader.frame \in Frames
       /\ ~reader.open => reader.used < 3 /\ reader.used < Len(reader.frame.prefix)
  /\ Reading /\ reader.open => reader.frame.body \in Bodies

\* The sizes of a validated configuration.
LEMMA Sizes ==
  ASSUME Shape
  PROVE  /\ config.protocol.max_frame \in Nat /\ config.protocol.max_host_bytes \in Nat
         /\ config.protocol.max_initial_bytes \in Nat /\ 64 <= config.protocol.max_frame
         /\ config.protocol.max_frame + 5 <= config.protocol.max_initial_bytes
         /\ config.max_response \in Nat /\ config.max_response <= MaxResponse
<1>1. ValidProtocol(config.protocol) /\ ValidCache(config.max_response, config.fallback)
  BY DEF Shape, Valid
<1>2. /\ config.protocol.max_frame \in 64..MaxFrame
      /\ config.protocol.max_initial_bytes \in (config.protocol.max_frame + 5)..MaxInitial
      /\ config.protocol.max_host_bytes \in 1..MaxHost
      /\ config.max_response \in 256..MaxResponse
  BY <1>1, Zenon DEF ValidProtocol, ValidCache
<1>3. MaxFrame \in Nat /\ MaxInitial \in Nat /\ MaxHost \in Nat /\ MaxResponse \in Nat
  BY DEF MaxFrame, MaxInitial, MaxHost, MaxResponse
<1> QED
  BY <1>2, <1>3

\* The greatest length of a header is a number.
LEMMA HeaderSized == MaxHeader \in Nat
BY DEF MaxHeader

\* Every phase sets a bound on its frame.
LEMMA LimitSized ==
  ASSUME Shape
  PROVE  Limit \in Nat
<1> DEFINE p == config.protocol
<1>1. p.max_frame \in Nat /\ p.max_host_bytes \in Nat
  BY Sizes
<1>2. HandshakeMax(p) \in Nat
  BY <1>1 DEF HandshakeMax
<1>3. LoginMax(session.version, p) \in Nat
  BY <1>1 DEF LoginMax, Keys, MaxBlob
<1> HIDE DEF p
<1> QED
  <2>1. \A i, j \in Nat : Least(i, j) \in Nat
    BY DEF Least
  <2>2. /\ Least(p.max_frame, HandshakeMax(p)) \in Nat /\ Least(p.max_frame, 5) \in Nat
        /\ Least(p.max_frame, 13) \in Nat /\ Least(p.max_frame, LoginMax(session.version, p)) \in Nat
    BY ZenonT(20), <1>1, <1>2, <1>3, <2>1
  <2>3. \/ Limit = Least(p.max_frame, HandshakeMax(p)) \/ Limit = Least(p.max_frame, 5)
        \/ Limit = Least(p.max_frame, 13) \/ Limit = Least(p.max_frame, LoginMax(session.version, p))
    BY DEF Limit, p
  <2> QED
    BY <2>2, <2>3, Zenon

\* Every prefix has a byte to read.
LEMMA PrefixSized ==
  ASSUME NEW f \in Frames
  PROVE  Len(f.prefix) \in Nat /\ Len(f.prefix) >= 1
<1>1. \A n \in Nat : Len(PutVarInt(n)) \in 1..5 /\ Len(Padded(n, 3)) = 3
  <2>1. 1 \in 1..3
    OBVIOUS
  <2> QED
    BY <2>1, PutBytes, Rests, PaddedReads, Zenon
<1>2. \A b \in Bodies : b.len \in Nat
  BY BodyKinds
<1>3. \A s \in Strays : Len(s) = 3
  BY ClientAssumption
<1>4. \/ \E n \in Nat : f.prefix = PutVarInt(n) \/ f.prefix = Padded(n, 3)
      \/ f.prefix \in Strays
  BY <1>2 DEF Frames
<1>5. \A i \in 1..5 : i \in Nat /\ i >= 1
  OBVIOUS
<1>6. 3 \in 1..5
  OBVIOUS
<1> QED
  BY <1>1, <1>3, <1>4, <1>5, <1>6, ZenonT(60)

\* One more byte of a prefix: the reader waits for another one, it is done, or
\* the session is over.
LEMMA PrefixMoves ==
  ASSUME Shape, ReaderInv, NEW f \in (IF reader.used = 0 THEN Frames ELSE {reader.frame}), ReadPrefix(f)
  PROVE  /\ f \in Frames /\ left > 0 /\ reader.used + 1 \in 1..3
         /\ \/ /\ phase' = phase /\ left' = left - 1
               /\ reader' = [frame |-> f, used |-> reader.used + 1, open |-> FALSE]
               /\ reader.used + 1 < 3 /\ reader.used + 1 < Len(f.prefix)
               /\ UNCHANGED <<session, result>>
            \/ /\ phase' = "closed" /\ left' = left - 1
               /\ reader' = [frame |-> f, used |-> reader.used + 1, open |-> FALSE]
               /\ session'.version = session.version
               /\ \/ result'.error # "Oversized"
                  \/ f.body \in Bodies /\ (f.body.len > Limit \/ f.body.len > left - 1)
            \/ /\ phase' = phase /\ left' = left - 1 - f.body.len
               /\ reader' = [frame |-> f, used |-> reader.used + 1, open |-> TRUE]
               /\ f.body \in Bodies /\ f.body.len <= left - 1
               /\ UNCHANGED <<session, result>>
         /\ trace' = [trace EXCEPT !.bytes = @ + 1]
<1> DEFINE k == reader.used + 1
           v == VarInt(SubSeq(f.prefix, 1, k))
<1>1. Reading /\ ~reader.open /\ left > 0 /\ left \in Nat
  BY DEF ReadPrefix, ReaderInv
<1>2. f \in Frames /\ k \in 1..3 /\ k <= Len(f.prefix)
  <2>1. CASE reader.used = 0
    BY <2>1, PrefixSized
  <2>2. CASE reader.used # 0
    <3>1. f = reader.frame
      BY <2>2
    <3>2. /\ reader.used \in 1..3 /\ reader.frame \in Frames
          /\ reader.used < 3 /\ reader.used < Len(reader.frame.prefix)
      BY <1>1, <2>2 DEF ReaderInv
    <3> QED
      BY <3>1, <3>2, PrefixSized
  <2> QED
    BY <2>1, <2>2
<1>3. /\ v.state = "incomplete" /\ k < 3 => k < Len(f.prefix)
      /\ v.state = "done" /\ v.n > 0 => f.body \in Bodies /\ v.n = f.body.len
  BY <1>2, PrefixRead
<1>4. Limit \in Nat
  BY LimitSized
<1>5. trace' = [trace EXCEPT !.bytes = @ + 1]
  BY Zenon DEF ReadPrefix
<1>6. \A e : Return(e) => /\ phase' = "closed" /\ result'.error = e
                          /\ session'.version = session.version
  BY DEF Return, Shape, NoSession
<1>7. \/ /\ v.state = "incomplete" /\ k < 3
         /\ reader' = [frame |-> f, used |-> k, open |-> FALSE]
         /\ left' = left - 1
         /\ UNCHANGED <<phase, session, result>>
      \/ /\ Return("VarInt") \/ Return("Invalid")
         /\ reader' = [frame |-> f, used |-> k, open |-> FALSE] /\ left' = left - 1
      \/ /\ v.state = "done" /\ v.n > 0
         /\ v.n > Limit \/ v.n > left - 1
         /\ Return("Oversized")
         /\ reader' = [frame |-> f, used |-> k, open |-> FALSE] /\ left' = left - 1
      \/ /\ v.state = "done" /\ v.n \in 1..Least(Limit, left - 1)
         /\ reader' = [frame |-> f, used |-> k, open |-> TRUE]
         /\ left' = left - 1 - v.n
         /\ UNCHANGED <<phase, session, result>>
  BY Zenon DEF ReadPrefix, AfterFrame
<1>8. v.n \in 1..Least(Limit, left - 1) => v.n > 0 /\ v.n <= left - 1
  BY <1>1, <1>4 DEF Least
<1> HIDE DEF v, k
<1>10. /\ f \in Frames /\ left > 0 /\ k \in 1..3
       /\ \/ /\ phase' = phase /\ left' = left - 1
             /\ reader' = [frame |-> f, used |-> k, open |-> FALSE]
             /\ k < 3 /\ k < Len(f.prefix)
             /\ UNCHANGED <<session, result>>
          \/ /\ phase' = "closed" /\ left' = left - 1
             /\ reader' = [frame |-> f, used |-> k, open |-> FALSE]
             /\ session'.version = session.version
             /\ \/ result'.error # "Oversized"
                \/ f.body \in Bodies /\ (f.body.len > Limit \/ f.body.len > left - 1)
          \/ /\ phase' = phase /\ left' = left - 1 - f.body.len
             /\ reader' = [frame |-> f, used |-> k, open |-> TRUE]
             /\ f.body \in Bodies /\ f.body.len <= left - 1
             /\ UNCHANGED <<session, result>>
  <2>1. CASE /\ v.state = "incomplete" /\ k < 3
             /\ reader' = [frame |-> f, used |-> k, open |-> FALSE]
             /\ left' = left - 1
             /\ UNCHANGED <<phase, session, result>>
    BY <1>1, <1>2, <1>3, <2>1, Zenon
  <2>2. CASE /\ Return("VarInt") \/ Return("Invalid")
             /\ reader' = [frame |-> f, used |-> k, open |-> FALSE] /\ left' = left - 1
    BY <1>1, <1>2, <1>6, <2>2
  <2>3. CASE /\ v.state = "done" /\ v.n > 0
             /\ v.n > Limit \/ v.n > left - 1
             /\ Return("Oversized")
             /\ reader' = [frame |-> f, used |-> k, open |-> FALSE] /\ left' = left - 1
    <3>1. f.body \in Bodies /\ (f.body.len > Limit \/ f.body.len > left - 1)
      BY <1>3, <2>3, Zenon
    <3> QED
      BY <1>1, <1>2, <1>6, <2>3, <3>1, Zenon
  <2>4. CASE /\ v.state = "done" /\ v.n \in 1..Least(Limit, left - 1)
             /\ reader' = [frame |-> f, used |-> k, open |-> TRUE]
             /\ left' = left - 1 - v.n
             /\ UNCHANGED <<phase, session, result>>
    <3>1. f.body \in Bodies /\ v.n = f.body.len /\ v.n <= left - 1
      BY <1>3, <1>8, <2>4, Zenon
    <3> QED
      BY <1>1, <1>2, <2>4, <3>1, Zenon
  <2> QED
    BY <1>7, <2>1, <2>2, <2>3, <2>4, Zenon
<1> QED
  BY <1>5, <1>10, Zenon DEF k

\* What a step takes from the client, other than a byte of a prefix.
Took ==
  \/ trace'.bytes = trace.bytes
  \/ phase = "header" /\ trace'.bytes = trace.bytes + 16
  \/ /\ phase = "addresses" \/ (Reading /\ reader.open)
     /\ trace'.bytes = trace.bytes + reader.frame.body.len

\* Why a session is over that did not end with a prefix: Oversized means that
\* there was no budget for another one, or that a parser refused.
Closes ==
  /\ phase' = "closed" /\ left' = left /\ reader' = reader
  /\ session'.version = session.version /\ Took
  /\ \/ result'.error # "Oversized"
     \/ phase = "header"
     \/ Reading /\ ~reader.open /\ left = 0
     \/ Reading /\ reader.open /\ ~Acceptable(reader.frame.body)

\* The next await.
Awaits ==
  /\ phase # "closed"
  /\ phase' \in {"handshake", "request", "respond", "ping", "pong", "login", "dial",
                 "admitted", "relay"}
  /\ reader' = NoReader /\ result'.error \in {"none", result.error}
  /\ \/ left' = left /\ Took
     \/ left' = 0 /\ Took
     \/ phase = "admitted" /\ left' = left /\ trace'.bytes = 0
  /\ phase' = "handshake" => phase \in {"start", "addresses"} /\ left' = left
                             /\ (phase = "addresses" => trace'.bytes = trace.bytes + reader.frame.body.len)
  /\ phase \in {"start", "header"} => trace'.bytes = trace.bytes
  /\ phase' = "login" => LoginSchema(session'.version, config.protocol) # "none"

\* The reader is where it was.
Stays ==
  /\ UNCHANGED <<phase, left, reader, result>>
  /\ session'.version = session.version /\ trace'.bytes = trace.bytes

\* Every step, as the reader sees it.
LEMMA Moves ==
  ASSUME Shape, ReaderInv, [ConnectionNext]_connectionVars
  PROVE  /\ config' = config
         /\ \/ Closes \/ Awaits \/ Stays
            \/ /\ phase = "start" /\ phase' = "header" /\ config.incoming
               /\ UNCHANGED <<left, reader, session, result, trace>>
            \/ /\ phase = "header" /\ phase' = "addresses" /\ left' = left
               /\ reader'.frame.body.len \in 0..MaxHeader /\ reader'.open = FALSE
               /\ trace'.bytes = trace.bytes + 16 /\ UNCHANGED <<session, result>>
            \/ \E f \in (IF reader.used = 0 THEN Frames ELSE {reader.frame}) : ReadPrefix(f)
<1> DEFINE Goal ==
  \/ Closes \/ Awaits \/ Stays
  \/ /\ phase = "start" /\ phase' = "header" /\ config.incoming
     /\ UNCHANGED <<left, reader, session, result, trace>>
  \/ /\ phase = "header" /\ phase' = "addresses" /\ left' = left
     /\ reader'.frame.body.len \in 0..MaxHeader /\ reader'.open = FALSE
     /\ trace'.bytes = trace.bytes + 16 /\ UNCHANGED <<session, result>>
  \/ \E f \in (IF reader.used = 0 THEN Frames ELSE {reader.frame}) : ReadPrefix(f)
<1>0. ASSUME NEW e, Return(e)
      PROVE  phase' = "closed" /\ result'.error = e /\ session'.version = session.version
  BY <1>0 DEF Return, Shape, NoSession
<1>1. ASSUME Start, UNCHANGED config PROVE Goal
  BY <1>1, <1>0 DEF Start, Identify, Await, Closes, Awaits, Took
<1>2. ASSUME DropUntrusted, UNCHANGED config PROVE Goal
  BY <1>2, <1>0 DEF DropUntrusted, Closes, Took
<1>3. ASSUME StartTrusted, UNCHANGED config PROVE Goal
  BY <1>3 DEF StartTrusted
<1>4. ASSUME ReadExhausted, UNCHANGED config PROVE Goal
  BY ZenonT(20), <1>4, <1>0 DEF ReadExhausted, Closes, Took
<1>5. ASSUME HandOver, UNCHANGED config PROVE Goal
  BY ZenonT(20), <1>5 DEF HandOver, Await, NoTrace, NoResult, Awaits
<1>6. ASSUME Expire, UNCHANGED config PROVE Goal
  BY <1>6, <1>0 DEF Expire, Overdue, Closes, Took
<1>7. ASSUME Connect, UNCHANGED config PROVE Goal
  BY <1>7 DEF Connect, Await, Awaits, Took, Shape
<1>8. ASSUME DialFails, UNCHANGED config PROVE Goal
  BY <1>8, <1>0 DEF DialFails, Closes, Took
<1>9. ASSUME Elapse, UNCHANGED config PROVE Goal
  BY <1>9 DEF Elapse, Stays, Shape
<1>10. ASSUME ReadAddresses, UNCHANGED config PROVE Goal
  BY <1>10, <1>0 DEF ReadAddresses, Identify, Await, Closes, Awaits, Took, Shape
<1>11. ASSUME ReadPart, UNCHANGED config PROVE Goal
  BY <1>11 DEF ReadPart, Stays
<1>12. ASSUME ReadHandshake, UNCHANGED config PROVE Goal
  <2> DEFINE body == reader.frame.body
             checks == Handshake(body, config.protocol)
  <2>1. phase = "handshake" /\ Reading /\ reader.open /\ trace'.bytes = trace.bytes + body.len
    BY <1>12 DEF ReadHandshake, Rest, Reading, Shape
  <2>2. Acceptable(body) <=> Passes(checks)
    BY <2>1, BodyKinds DEF ReaderInv, Acceptable
  <2>3. \/ ~Passes(checks) /\ Return(Failure(checks)) /\ UNCHANGED <<left, reader>>
        \/ Return("Refused") /\ UNCHANGED <<left, reader>>
        \/ Return("Unsupported") /\ UNCHANGED <<left, reader>>
        \/ phase' = "request" /\ reader' = NoReader /\ UNCHANGED <<left, result>>
        \/ /\ LoginSchema(Value(body.version), config.protocol) # "none"
           /\ session' = [session EXCEPT !.version = Value(body.version), !.frames = <<reader.frame>>]
           /\ phase' = "login" /\ reader' = NoReader /\ UNCHANGED <<left, result>>
    BY <1>12, Zenon DEF ReadHandshake, Reject, Refuse, Await
  <2>4. session' = [session EXCEPT !.version = Value(body.version), !.frames = <<reader.frame>>]
          => session'.version = Value(body.version)
    BY DEF Shape
  <2> HIDE DEF checks, body
  <2>5. CASE ~Passes(checks) /\ Return(Failure(checks)) /\ UNCHANGED <<left, reader>>
    BY <1>0, <2>1, <2>2, <2>5, Zenon DEF Closes, Took, body
  <2>6. CASE (Return("Refused") \/ Return("Unsupported")) /\ UNCHANGED <<left, reader>>
    BY <1>0, <2>1, <2>6 DEF Closes, Took, body
  <2>7. CASE phase' = "request" /\ reader' = NoReader /\ UNCHANGED <<left, result>>
    BY <2>1, <2>7 DEF Awaits, Took, body
  <2>8. CASE /\ LoginSchema(Value(body.version), config.protocol) # "none"
             /\ session' = [session EXCEPT !.version = Value(body.version), !.frames = <<reader.frame>>]
             /\ phase' = "login" /\ reader' = NoReader /\ UNCHANGED <<left, result>>
    BY <2>1, <2>4, <2>8 DEF Awaits, Took, body
  <2> QED
    BY <2>3, <2>5, <2>6, <2>7, <2>8, Zenon
<1>13. ASSUME ReadRequest, UNCHANGED config PROVE Goal
  <2> DEFINE body == reader.frame.body
             checks == StatusRequest(body)
  <2>1. phase = "request" /\ Reading /\ reader.open /\ trace'.bytes = trace.bytes + body.len
    BY <1>13 DEF ReadRequest, Rest, Reading, Shape
  <2>2. Acceptable(body) <=> Passes(checks)
    BY <2>1, BodyKinds DEF ReaderInv, Acceptable
  <2>3. \/ ~Passes(checks) /\ Return(Failure(checks)) /\ UNCHANGED <<left, reader>>
        \/ Return("Refused") /\ UNCHANGED <<left, reader>>
        \/ phase' = "respond" /\ reader' = NoReader /\ UNCHANGED <<left, result>>
    BY <1>13, Zenon DEF ReadRequest, Reject, Refuse, Await
  <2> HIDE DEF checks, body
  <2>5. CASE ~Passes(checks) /\ Return(Failure(checks)) /\ UNCHANGED <<left, reader>>
    BY <1>0, <2>1, <2>2, <2>5, Zenon DEF Closes, Took, body
  <2>6. CASE Return("Refused") /\ UNCHANGED <<left, reader>>
    BY <1>0, <2>1, <2>6 DEF Closes, Took, body
  <2>7. CASE phase' = "respond" /\ reader' = NoReader /\ UNCHANGED <<left, result>>
    BY <2>1, <2>7 DEF Awaits, Took, body
  <2> QED
    BY <2>3, <2>5, <2>6, <2>7, Zenon
<1>14. ASSUME ReadPing, UNCHANGED config PROVE Goal
  <2> DEFINE body == reader.frame.body
             checks == Ping(body)
  <2>1. phase = "ping" /\ Reading /\ reader.open /\ trace'.bytes = trace.bytes + body.len
    BY <1>14 DEF ReadPing, Rest, Reading, Shape
  <2>2. Acceptable(body) <=> Passes(checks)
    BY <2>1, BodyKinds DEF ReaderInv, Acceptable
  <2>3. \/ ~Passes(checks) /\ Return(Failure(checks)) /\ UNCHANGED <<left, reader>>
        \/ phase' = "pong" /\ reader' = NoReader /\ UNCHANGED <<left, result>>
    BY <1>14, Zenon DEF ReadPing, Reject, Await
  <2> HIDE DEF checks, body
  <2>5. CASE ~Passes(checks) /\ Return(Failure(checks)) /\ UNCHANGED <<left, reader>>
    BY <1>0, <2>1, <2>2, <2>5, Zenon DEF Closes, Took, body
  <2>7. CASE phase' = "pong" /\ reader' = NoReader /\ UNCHANGED <<left, result>>
    BY <2>1, <2>7 DEF Awaits, Took, body
  <2> QED
    BY <2>3, <2>5, <2>7, Zenon
<1>15. ASSUME ReadLogin, UNCHANGED config PROVE Goal
  <2> DEFINE body == reader.frame.body
             checks == Login(body, LoginSchema(session.version, config.protocol))
  <2>1. phase = "login" /\ Reading /\ reader.open /\ trace'.bytes = trace.bytes + body.len
    BY <1>15 DEF ReadLogin, Rest, Reading, Shape
  <2>2. Acceptable(body) <=> Passes(checks)
    BY <2>1, BodyKinds DEF ReaderInv, Acceptable
  <2>3. \/ ~Passes(checks) /\ Return(Failure(checks)) /\ UNCHANGED <<left, reader>>
        \/ Return("Refused") /\ UNCHANGED <<left, reader>>
        \/ phase' = "dial" /\ reader' = NoReader /\ UNCHANGED <<left, result>>
    BY <1>15, Zenon DEF ReadLogin, Reject, Refuse, Await
  <2> HIDE DEF checks, body
  <2>5. CASE ~Passes(checks) /\ Return(Failure(checks)) /\ UNCHANGED <<left, reader>>
    BY <1>0, <2>1, <2>2, <2>5, Zenon DEF Closes, Took, body
  <2>6. CASE Return("Refused") /\ UNCHANGED <<left, reader>>
    BY <1>0, <2>1, <2>6 DEF Closes, Took, body
  <2>7. CASE phase' = "dial" /\ reader' = NoReader /\ UNCHANGED <<left, result>>
    BY <2>1, <2>7 DEF Awaits, Took, body
  <2> QED
    BY <2>3, <2>5, <2>6, <2>7, Zenon
<1>16. ASSUME Respond, UNCHANGED config PROVE Goal
  BY <1>16 DEF Respond, Await, Awaits, Took, Shape
<1>17. ASSUME Pong, UNCHANGED config PROVE Goal
  BY <1>17, <1>0 DEF Pong, Closes, Took
<1>18. ASSUME Disconnect, UNCHANGED config PROVE Goal
  BY <1>18, <1>0 DEF Disconnect, Closes, Took
<1>19. ASSUME NEW h \in Headers, ReadHeader(h), UNCHANGED config PROVE Goal
  <2>1. phase = "header" /\ trace'.bytes = trace.bytes + 16
    BY <1>19 DEF ReadHeader, Shape
  <2>2. CASE Return(Failure(Header(h))) /\ UNCHANGED <<left, reader>>
    BY <1>0, <2>1, <2>2, Zenon DEF Closes, Took
  <2>3. CASE /\ Passes(Header(h)) /\ phase' = "addresses"
             /\ reader' = [NoReader EXCEPT !.frame.body = h] /\ UNCHANGED <<left, session, result>>
    <3>1. h.len \in Nat /\ h.len <= MaxHeader /\ MaxHeader \in Nat
      <4>1. DOMAIN Header(h) = 1..4
        BY DEF Header
      <4>2. Header(h)[4].holds
        BY <2>3, <4>1 DEF Passes
      <4>3. h.len <= MaxHeader
        BY ZenonT(20), <4>2 DEF Header, Check
      <4> QED
        BY <4>3, HeaderSized, ClientAssumption
    <3>2. reader'.frame.body = h /\ reader'.open = FALSE
      BY <2>3 DEF NoReader, NoFrame
    <3> QED
      BY <2>1, <2>3, <3>1, <3>2
  <2> QED
    BY <1>19, <2>2, <2>3, Zenon DEF ReadHeader
<1>20. ASSUME NEW f \in (IF reader.used = 0 THEN Frames ELSE {reader.frame}), ReadPrefix(f)
       PROVE  Goal
  BY <1>20
<1>21. ASSUME UNCHANGED <<config, sessionVars>> PROVE Goal
  BY <1>21 DEF sessionVars, Stays
<1>22. ASSUME UNCHANGED ingressVars PROVE Goal
  BY <1>22 DEF ingressVars, sessionVars, Stays
<1> HIDE DEF Goal
<1>23. config' = config
  BY ClientSteps DEF ingressVars
<1>24. Goal
  BY ClientSteps, <1>1, <1>2, <1>3, <1>4, <1>5, <1>6, <1>7, <1>8, <1>9, <1>10,
     <1>11, <1>12, <1>13, <1>14, <1>15, <1>16, <1>17, <1>18, <1>19, <1>20, <1>21, <1>22, Zenon
<1> QED
  BY <1>23, <1>24 DEF Goal

\* Every step keeps it.
LEMMA ReaderStep ==
  ASSUME Shape, ReaderInv, [ConnectionNext]_connectionVars
  PROVE  ReaderInv'
<1> USE DEF ReaderInv
<1>0. NoReader.used = 0 /\ NoReader.open = FALSE
  BY DEF NoReader
<1>1. CASE Closes
  BY <1>1 DEF Closes, Reading
<1>2. CASE Awaits
  BY <1>0, <1>2 DEF Awaits, Reading
<1>3. CASE Stays
  BY <1>3 DEF Stays, Reading, Frames, Bodies
<1>4. CASE /\ phase = "start" /\ phase' = "header"
           /\ UNCHANGED <<left, reader, session, result, trace>>
  BY <1>4 DEF Reading
<1>5. CASE phase' = "addresses" /\ left' = left
  BY <1>5 DEF Reading
<1>6. ASSUME NEW f \in (IF reader.used = 0 THEN Frames ELSE {reader.frame}), ReadPrefix(f)
      PROVE  ReaderInv'
  <2> DEFINE k == reader.used + 1
  <2>1. f \in Frames /\ left > 0 /\ k \in 1..3 /\ left \in Nat /\ k # 0
    BY <1>6, PrefixMoves
  <2>2. phase' = phase => Reading' = Reading /\ Frames' = Frames /\ Bodies' = Bodies
    BY DEF Reading, Frames, Bodies
  <2>3. phase' = "closed" => ~Reading' /\ phase' \notin {"start", "header"}
    BY DEF Reading
  <2>4. Reading /\ phase \notin {"start", "header"}
    BY <1>6 DEF ReadPrefix, Reading
  <2>5. CASE /\ phase' = phase /\ left' = left - 1
             /\ reader' = [frame |-> f, used |-> k, open |-> FALSE]
             /\ k < 3 /\ k < Len(f.prefix)
    <3>1. reader'.frame = f /\ reader'.used = k /\ reader'.open = FALSE
      BY <2>5
    <3>2. left' \in Nat
      BY <2>1, <2>5
    <3> QED
      BY ZenonT(20), <2>1, <2>2, <2>4, <2>5, <3>1, <3>2
  <2>6. CASE phase' = "closed" /\ left' = left - 1
    BY <2>1, <2>3, <2>6
  <2>7. CASE /\ phase' = phase /\ left' = left - 1 - f.body.len
             /\ reader' = [frame |-> f, used |-> k, open |-> TRUE]
             /\ f.body \in Bodies /\ f.body.len <= left - 1
    <3>1. reader'.frame = f /\ reader'.used = k /\ reader'.open = TRUE
      BY <2>7
    <3>2. left' \in Nat
      BY <2>1, <2>7, BodyKinds
    <3> QED
      BY ZenonT(20), <2>1, <2>2, <2>4, <2>7, <3>1, <3>2
  <2> HIDE DEF ReaderInv
  <2> QED
    BY ZenonT(20), <1>6, PrefixMoves, <2>5, <2>6, <2>7
<1> HIDE DEF ReaderInv
<1> QED
  BY Moves, <1>1, <1>2, <1>3, <1>4, <1>5, <1>6, Zenon

\* Nothing is being read at first.
LEMMA ReaderInit == ConnectionInit => ReaderInv
<1> SUFFICES ASSUME ConnectionInit PROVE ReaderInv
  OBVIOUS
<1>1. left \in Nat
  BY ShapeInit, Sizes DEF ConnectionInit, IngressInit
<1> QED
  BY <1>1 DEF ConnectionInit, IngressInit, ReaderInv, Reading

-----------------------------------------------------------------------------
(* The budget of a session *)

\* What is still to come of the body that is being read.
Coming == IF Reading /\ reader.open THEN reader.frame.body.len ELSE 0

Allowed == config.protocol.max_initial_bytes + (IF config.incoming THEN 16 + MaxHeader ELSE 0)

\* What was taken, what is to come and what is left add up to no more than the
\* budget, with what the header may take.
BytesInv ==
  /\ trace.bytes \in Nat
  /\ phase \in {"start", "header", "addresses"} => left = config.protocol.max_initial_bytes
  /\ phase \in {"start", "header"} => trace.bytes = 0
  /\ phase \in {"header", "addresses"} => config.incoming
  /\ phase = "addresses" => trace.bytes = 16 /\ reader.frame.body.len \in 0..MaxHeader
  /\ phase \notin {"start", "header", "addresses", "closed"} => trace.bytes + left + Coming <= Allowed
  /\ phase = "closed" => trace.bytes <= Allowed

\* Every step keeps it.
LEMMA BytesStep ==
  ASSUME Shape, ReaderInv, BytesInv, [ConnectionNext]_connectionVars
  PROVE  BytesInv'
<1> DEFINE B == config.protocol.max_initial_bytes
<1>0. /\ B \in Nat /\ left \in Nat /\ MaxHeader \in Nat /\ trace.bytes \in Nat
      /\ Allowed \in Nat /\ B <= Allowed
      /\ config.incoming => Allowed = B + 16 + MaxHeader
  <2>1. B \in Nat /\ left \in Nat /\ MaxHeader \in Nat /\ trace.bytes \in Nat
    BY Sizes, HeaderSized DEF ReaderInv, BytesInv
  <2> QED
    BY <2>1 DEF Allowed
<1>1. Reading /\ reader.open => reader.frame.body.len \in Nat
  BY BodyKinds DEF ReaderInv
<1>2. Coming \in Nat
  BY <1>1 DEF Coming
<1>3. config' = config /\ Allowed' = Allowed
  BY ZenonT(20), Moves DEF Allowed
<1> HIDE DEF B
<1>4. Took => trace'.bytes \in Nat /\ trace'.bytes <= Allowed
  <2>1. trace.bytes <= Allowed
    BY <1>0, <1>2 DEF BytesInv, B
  <2>2. phase = "header" => trace.bytes + 16 <= Allowed
    BY <1>0 DEF BytesInv
  <2>3. phase = "addresses" =>
          /\ trace.bytes + reader.frame.body.len <= Allowed
          /\ reader.frame.body.len \in Nat
    BY <1>0 DEF BytesInv
  <2>4. Reading /\ reader.open => trace.bytes + reader.frame.body.len <= Allowed
    BY <1>0, <1>1 DEF BytesInv, Coming, Reading
  <2> QED
    BY <1>0, <1>1, <2>1, <2>2, <2>3, <2>4 DEF Took
<1>5. CASE Closes
  BY ZenonT(20), <1>3, <1>4, <1>5 DEF Closes, BytesInv
<1>6. CASE Awaits
  <2>1. reader' = NoReader /\ NoReader.open = FALSE
    BY <1>6 DEF Awaits, NoReader
  <2>2. Coming' = 0
    BY <2>1 DEF Coming
  <2>3. phase' \notin {"start", "header", "addresses", "closed"}
    BY <1>6 DEF Awaits
  <2>4. trace'.bytes \in Nat /\ trace'.bytes <= Allowed
    BY <1>0, <1>4, <1>6 DEF Awaits
  <2>5. left' \in Nat /\ trace'.bytes + left' <= Allowed
    <3>1. CASE left' = 0
      BY <1>0, <2>4, <3>1
    <3>2. CASE phase = "admitted" /\ left' = left /\ trace'.bytes = 0
      BY <1>0, <1>2, <3>2 DEF BytesInv
    <3>3. CASE left' = left /\ Took
      <4>1. CASE phase \in {"start", "header"}
        <5>1. trace'.bytes = 0 /\ left = B
          BY <1>6, <4>1 DEF Awaits, BytesInv, B
        <5> QED
          BY <1>0, <3>3, <5>1
      <4>2. CASE phase = "addresses"
        <5>1. /\ left = B /\ Allowed = B + 16 + MaxHeader /\ trace.bytes = 16
              /\ reader.frame.body.len \in 0..MaxHeader
          BY <1>0, <4>2 DEF BytesInv, B
        <5>2. trace'.bytes = 16 \/ trace'.bytes = 16 + reader.frame.body.len
          BY <3>3, <4>2, <5>1 DEF Took
        <5> QED
          BY <1>0, <3>3, <5>1, <5>2
      <4>3. CASE phase \notin {"start", "header", "addresses"}
        <5>1. trace.bytes + left + Coming <= Allowed
          BY <1>6, <4>3 DEF Awaits, BytesInv
        <5>2. \/ trace'.bytes = trace.bytes
              \/ trace'.bytes = trace.bytes + Coming
          BY <3>3, <4>3 DEF Took, Coming
        <5>3. trace.bytes + left <= Allowed /\ (trace.bytes + Coming) + left <= Allowed
          BY <1>0, <1>2, <5>1, OneByte, Zenon
        <5> QED
          BY ZenonT(20), <1>0, <3>3, <5>2, <5>3
      <4> QED
        BY <4>1, <4>2, <4>3
    <3> QED
      BY <1>6, <3>1, <3>2, <3>3 DEF Awaits
  <2> QED
    BY <1>3, <2>2, <2>3, <2>4, <2>5 DEF BytesInv
<1>7. CASE Stays
  <2>1. Coming' = Coming
    BY <1>7 DEF Stays, Coming, Reading
  <2> QED
    BY <1>3, <1>7, <2>1 DEF Stays, BytesInv
<1>8. CASE /\ phase = "start" /\ phase' = "header" /\ config.incoming
           /\ UNCHANGED <<left, reader, session, result, trace>>
  BY <1>3, <1>8 DEF BytesInv
<1>9. CASE /\ phase = "header" /\ phase' = "addresses" /\ left' = left
           /\ reader'.frame.body.len \in 0..MaxHeader /\ reader'.open = FALSE
           /\ trace'.bytes = trace.bytes + 16 /\ UNCHANGED <<session, result>>
  BY <1>0, <1>3, <1>9 DEF BytesInv
<1>10. ASSUME NEW f \in (IF reader.used = 0 THEN Frames ELSE {reader.frame}), ReadPrefix(f)
       PROVE  BytesInv'
  <2> DEFINE k == reader.used + 1
  <2>1. left > 0 /\ Reading /\ ~reader.open
    BY <1>10 DEF ReadPrefix
  <2>2. phase \notin {"start", "header", "addresses", "closed"} /\ Coming = 0
    BY <2>1 DEF Reading, Coming
  <2>3. trace'.bytes = trace.bytes + 1
    BY <1>10, PrefixMoves DEF Shape
  <2>4. trace.bytes + left <= Allowed
    BY <1>0, <2>2 DEF BytesInv
  <2>0. /\ trace.bytes + 1 \in Nat /\ trace.bytes + 1 <= Allowed
        /\ trace.bytes + 1 + (left - 1) + 0 <= Allowed
    BY <1>0, <2>1, <2>4, OneByte, Zenon
  <2>5. phase' = phase => Reading'
    BY <2>1 DEF Reading
  <2>6. CASE /\ phase' = phase /\ left' = left - 1
             /\ reader' = [frame |-> f, used |-> k, open |-> FALSE]
    <3>1. Coming' = 0
      BY <2>6 DEF Coming
    <3> QED
      BY ZenonT(20), <1>3, <2>0, <2>2, <2>3, <2>6, <3>1 DEF BytesInv
  <2>7. CASE phase' = "closed" /\ left' = left - 1
    BY ZenonT(20), <1>3, <2>0, <2>3, <2>7 DEF BytesInv
  <2>8. CASE /\ phase' = phase /\ left' = left - 1 - f.body.len
             /\ reader' = [frame |-> f, used |-> k, open |-> TRUE]
             /\ f.body \in Bodies /\ f.body.len <= left - 1
    <3>1. f.body.len \in Nat
      BY <2>8, BodyKinds
    <3>2. Coming' = f.body.len
      BY <2>5, <2>8 DEF Coming
    <3>3. trace.bytes + 1 + (left - 1 - f.body.len) + f.body.len <= Allowed
      BY <1>0, <2>4, <3>1, OneFrame, Zenon
    <3> QED
      BY ZenonT(20), <1>3, <2>0, <2>2, <2>3, <2>8, <3>2, <3>3 DEF BytesInv
  <2> QED
    BY <1>10, PrefixMoves, <2>6, <2>7, <2>8
<1> QED
  BY Moves, <1>5, <1>6, <1>7, <1>8, <1>9, <1>10, Zenon

\* In every behaviour a session takes no more from its client than its budget,
\* however many frames it reads, however their lengths are encoded and wherever
\* it stops, and no more than a bounded header on top of it.
THEOREM InitialBytesAreBounded == ConnectionSpec => []InitialBytesBounded
<1>1. ConnectionInit => Shape /\ ReaderInv /\ BytesInv
  BY ShapeInit, ReaderInit DEF ConnectionInit, IngressInit, BytesInv, NoTrace
<1>2. Shape /\ ReaderInv /\ BytesInv /\ [ConnectionNext]_connectionVars
        => Shape' /\ ReaderInv' /\ BytesInv'
  BY ShapeStep, ReaderStep, BytesStep
<1>3. Shape /\ ReaderInv /\ BytesInv => InitialBytesBounded
  <2> SUFFICES ASSUME Shape, ReaderInv, BytesInv PROVE trace.bytes <= Allowed
    BY DEF InitialBytesBounded, Allowed
  <2>1. /\ config.protocol.max_initial_bytes \in Nat /\ MaxHeader \in Nat
        /\ left \in Nat /\ trace.bytes \in Nat
    BY Sizes, HeaderSized DEF ReaderInv, BytesInv
  <2>2. Allowed \in Nat /\ (config.incoming => Allowed >= 16)
    BY <2>1 DEF Allowed
  <2>3. Coming \in Nat
    BY BodyKinds DEF ReaderInv, Coming
  <2> QED
    BY <2>1, <2>2, <2>3 DEF BytesInv
<1> QED
  BY <1>1, <1>2, <1>3, PTL DEF ConnectionSpec

-----------------------------------------------------------------------------
(* The bounds of the frames *)

\* A short packet that passes is as long as its id and its payload.
LEMMA ShortLengths ==
  ASSUME NEW body, NEW id, NEW payload, Passes(Short(body, id, payload))
  PROVE  Len(body.id) + payload = body.len
<1>1. DOMAIN Short(body, id, payload) = 1..5
  BY DEF Short
<1>2. Short(body, id, payload)[5].holds
  BY <1>1 DEF Passes
<1> QED
  BY ZenonT(20), <1>2 DEF Short, Ends, Check

\* No packet that its parser accepts is beyond the limit of its phase, unless it
\* is beyond max_frame.
LEMMA OverLimit ==
  ASSUME Shape, Reading,
         phase = "login" => LoginSchema(session.version, config.protocol) \in Schemas,
         NEW b \in Bodies, Acceptable(b), b.len > Limit
  PROVE  b.len > config.protocol.max_frame
<1> DEFINE p == config.protocol
<1>1. /\ p.max_frame \in Nat /\ p.max_host_bytes \in Nat /\ 64 <= p.max_frame /\ b.len \in Nat
      /\ b.kind = phase
  BY Sizes, BodyKinds, Zenon
<1>2. CASE phase = "handshake"
  <2>1. b \in Handshakes /\ Passes(Handshake(b, p)) /\ Limit = Least(p.max_frame, HandshakeMax(p))
    BY <1>1, <1>2 DEF Bodies, Acceptable, Limit
  <2>2. /\ Len(b.id) \in 1..5 /\ Len(b.version) \in 1..5 /\ Len(b.hostlen) \in 1..5
        /\ Len(b.state) \in 1..5
    BY <2>1, ClientAssumption, Zenon DEF Ints
  <2>3. b.len <= p.max_frame => b.len <= HandshakeMax(p)
    <3> HIDE DEF p
    <3> QED
      BY <1>1, <2>1, <2>2, HandshakesFit, Zenon
  <2>4. HandshakeMax(p) \in Nat
    BY <1>1 DEF HandshakeMax
  <2> HIDE DEF p
  <2> QED
    BY <1>1, <2>1, <2>3, <2>4 DEF Least, p
<1>3. CASE phase = "request"
  <2>1. b \in Requests /\ Passes(Short(b, 0, 0)) /\ Limit = Least(p.max_frame, 5)
    BY <1>1, <1>3 DEF Bodies, Acceptable, Limit, StatusRequest
  <2>2. Len(b.id) \in 1..5
    BY <2>1, ClientAssumption, Zenon DEF Ints
  <2>3. b.len = Len(b.id) + 0
    BY <2>1, ShortLengths
  <2>4. Limit = 5
    <3>1. Least(p.max_frame, 5) = 5
      BY <1>1 DEF Least
    <3> QED
      BY <2>1, <3>1, Zenon
  <2>5. Len(b.id) + 0 <= 5
    <3>1. \A i \in 1..5 : i + 0 <= 5
      OBVIOUS
    <3> QED
      BY <2>2, <3>1, Zenon
  <2> QED
    BY <2>3, <2>4, <2>5, <1>1
<1>4. CASE phase = "ping"
  <2>1. b \in Pings /\ Passes(Short(b, 1, 8)) /\ Limit = Least(p.max_frame, 13)
    BY <1>1, <1>4 DEF Bodies, Acceptable, Limit, Ping
  <2>2. Len(b.id) \in 1..5
    BY <2>1, ClientAssumption, Zenon DEF Ints
  <2>3. b.len = Len(b.id) + 8
    BY <2>1, ShortLengths
  <2>4. Limit = 13
    <3>1. Least(p.max_frame, 13) = 13
      BY <1>1 DEF Least
    <3> QED
      BY <2>1, <3>1, Zenon
  <2>5. Len(b.id) + 8 <= 13
    <3>1. \A i \in 1..5 : i + 8 <= 13
      OBVIOUS
    <3> QED
      BY <2>2, <3>1, Zenon
  <2> QED
    BY <2>3, <2>4, <2>5, <1>1
<1>5. CASE phase = "login"
  <2> DEFINE version == session.version
  <2>1. /\ b \in Logins /\ Passes(Login(b, LoginSchema(version, p)))
        /\ Limit = Least(p.max_frame, LoginMax(version, p)) /\ LoginSchema(version, p) \in Schemas
    BY <1>1, <1>5 DEF Bodies, Acceptable, Limit
  <2>2. /\ Len(b.id) \in 1..5 /\ Len(b.namelen) \in 1..5 /\ Len(b.key) \in 1..5
        /\ Len(b.sig) \in 1..5
    BY <2>1, ClientAssumption, Zenon DEF Ints
  <2>3. b.len <= p.max_frame => b.len <= LoginMax(version, p)
    <3> HIDE DEF p, version
    <3> QED
      BY <1>1, <2>1, <2>2, LoginsFit, Zenon
  <2>4. LoginMax(version, p) \in Nat
    BY <1>1 DEF LoginMax, Keys, MaxBlob
  <2> HIDE DEF p, version
  <2> QED
    BY <1>1, <2>1, <2>3, <2>4 DEF Least, p
<1> QED
  BY <1>2, <1>3, <1>4, <1>5, Zenon DEF Reading

\* Only a session that is over has an error; the handshake has the whole budget
\* but for its prefix; a session that reads a login has a schema for it.
FitInv ==
  /\ result.error # "none" => phase = "closed"
  /\ phase = "handshake" /\ ~reader.open =>
       left + reader.used = config.protocol.max_initial_bytes
  /\ phase = "login" => LoginSchema(session.version, config.protocol) \in Schemas
  /\ AcceptablePacketsFit

\* Every step keeps it.
LEMMA FitStep ==
  ASSUME Shape, ReaderInv, BytesInv, FitInv, [ConnectionNext]_connectionVars
  PROVE  FitInv'
<1>0. config' = config
  BY ZenonT(20), Moves
<1>1. session'.version = session.version => \A b : Acceptable(b)' = Acceptable(b)
  BY <1>0 DEF Acceptable
<1>2. \A b : b.kind = "none" => ~Acceptable(b)
  BY DEF Acceptable
<1>3. NoReader.frame.body.kind = "none" /\ NoReader.used = 0
  BY DEF NoReader, NoFrame
<1>4. \A f \in Frames : f.body \in Bodies \/ f.body.kind = "none"
  BY DEF Frames, NoFrame
<1>5. /\ left \in Nat /\ config.protocol.max_initial_bytes \in Nat
      /\ config.protocol.max_frame \in Nat
      /\ config.protocol.max_frame + 5 <= config.protocol.max_initial_bytes
  BY ZenonT(20), Sizes DEF ReaderInv
<1>6. phase # "closed" => result.error = "none"
  BY ZenonT(20) DEF FitInv
<1>7. CASE Closes
  <2>1. phase' = "closed" /\ left' = left /\ reader' = reader /\ session'.version = session.version
    BY <1>7 DEF Closes
  <2>2. \A b : Acceptable(b)' = Acceptable(b)
    BY <1>1, <2>1, Zenon
  <2>3. ASSUME result'.error = "Oversized", Acceptable(reader.frame.body)
        PROVE  reader.frame.body.kind # "handshake" /\ reader.frame.body.len > left
    <3>1. phase # "header"
      BY ZenonT(20), <2>3, <1>2, <1>3 DEF ReaderInv
    <3>2. Reading /\ ~reader.open /\ left = 0
      BY ZenonT(20), <1>7, <2>3, <3>1 DEF Closes
    <3>3. reader.used # 0
      BY ZenonT(20), <2>3, <3>2, <1>2, <1>3 DEF ReaderInv
    <3>4. reader.used \in 1..3 /\ reader.used < 3 /\ reader.frame \in Frames
      BY ZenonT(20), <3>2, <3>3 DEF ReaderInv
    <3>5. phase # "handshake"
      BY <3>2, <3>4, <1>5 DEF FitInv
    <3>6. reader.frame.body \in Bodies
      BY ZenonT(20), <2>3, <3>4, <1>2, <1>4
    <3> QED
      BY <3>2, <3>5, <3>6, BodyKinds
  <2>4. AcceptablePacketsFit'
    BY <2>1, <2>2, <2>3, Zenon DEF AcceptablePacketsFit
  <2> QED
    BY ZenonT(20), <2>1, <2>4 DEF FitInv
<1>8. CASE Awaits
  <2>1. result'.error = "none" /\ reader' = NoReader
    BY ZenonT(20), <1>6, <1>8 DEF Awaits
  <2>2. phase' = "handshake" => left' = config.protocol.max_initial_bytes
    BY <1>8 DEF Awaits, BytesInv
  <2>3. phase' = "handshake" => left' + reader'.used = config.protocol.max_initial_bytes
    BY ZenonT(20), <1>3, <1>5, <2>1, <2>2, OneByte
  <2>4. phase' = "login" => LoginSchema(session'.version, config.protocol) \in Schemas
    BY <1>8 DEF Awaits, LoginSchema
  <2>5. AcceptablePacketsFit'
    BY ZenonT(20), <2>1 DEF AcceptablePacketsFit
  <2> QED
    BY ZenonT(20), <1>0, <2>1, <2>3, <2>4, <2>5 DEF FitInv
<1>9. CASE Stays
  <2>1. \A b : Acceptable(b)' = Acceptable(b)
    BY <1>1, <1>9, Zenon DEF Stays
  <2>2. AcceptablePacketsFit'
    BY <1>0, <1>9, <2>1, Zenon DEF Stays, AcceptablePacketsFit, FitInv
  <2> QED
    BY <1>0, <1>9, <2>2 DEF Stays, FitInv
<1>10. CASE phase \in {"start", "header"} /\ phase' \in {"header", "addresses"} /\ result' = result
  <2>1. result'.error = "none"
    BY <1>6, <1>10
  <2> QED
    BY <1>10, <2>1 DEF FitInv, AcceptablePacketsFit
<1>11. ASSUME NEW f \in (IF reader.used = 0 THEN Frames ELSE {reader.frame}), ReadPrefix(f)
       PROVE  FitInv'
  <2> DEFINE k == reader.used + 1
  <2>1. f \in Frames /\ left > 0 /\ k \in 1..3 /\ reader.used \in Nat
    BY <1>11, PrefixMoves DEF ReaderInv, ReadPrefix
  <2>2. Reading /\ ~reader.open /\ phase # "closed" /\ result.error = "none"
    BY ZenonT(20), <1>6, <1>11 DEF ReadPrefix, Reading
  <2>3. CASE /\ phase' = phase /\ left' = left - 1
             /\ reader' = [frame |-> f, used |-> k, open |-> FALSE]
             /\ UNCHANGED <<session, result>>
    <3>1. reader'.used = k /\ left' + k = left + reader.used
      BY <1>5, <2>1, <2>3
    <3>2. AcceptablePacketsFit'
      BY ZenonT(20), <2>2, <2>3 DEF AcceptablePacketsFit
    <3> QED
      BY ZenonT(20), <1>0, <2>2, <2>3, <3>1, <3>2 DEF FitInv
  <2>4. CASE /\ phase' = "closed" /\ left' = left - 1
             /\ reader' = [frame |-> f, used |-> k, open |-> FALSE]
             /\ session'.version = session.version
             /\ \/ result'.error # "Oversized"
                \/ f.body \in Bodies /\ (f.body.len > Limit \/ f.body.len > left - 1)
    <3>1. reader'.frame = f
      BY <2>4
    <3>2. \A b : Acceptable(b)' = Acceptable(b)
      BY <1>1, <2>4, Zenon
    <3>3. ASSUME result'.error = "Oversized", Acceptable(f.body)
          PROVE  \/ f.body.len > config.protocol.max_frame
                 \/ f.body.kind # "handshake" /\ f.body.len > left'
      <4>1. f.body \in Bodies /\ f.body.len \in Nat /\ f.body.kind = phase
        BY ZenonT(20), <2>2, <2>4, <3>3, BodyKinds
      <4>2. CASE f.body.len > Limit
        BY ZenonT(20), <2>2, <3>3, <4>1, <4>2, OverLimit DEF FitInv
      <4>3. CASE f.body.len > left - 1
        <5>1. CASE phase = "handshake"
          <6>1. left + reader.used = config.protocol.max_initial_bytes
            BY ZenonT(20), <2>2, <5>1 DEF FitInv
          <6> QED
            BY <1>5, <2>1, <4>1, <4>3, <6>1
        <5>2. CASE phase # "handshake"
          BY ZenonT(20), <2>4, <4>1, <4>3, <5>2
        <5> QED
          BY <5>1, <5>2
      <4> QED
        BY ZenonT(20), <2>4, <3>3, <4>2, <4>3
    <3>4. AcceptablePacketsFit'
      BY <1>0, <3>1, <3>2, <3>3, Zenon DEF AcceptablePacketsFit
    <3> QED
      BY ZenonT(20), <2>4, <3>4 DEF FitInv
  <2>5. CASE /\ phase' = phase
             /\ reader' = [frame |-> f, used |-> k, open |-> TRUE]
             /\ UNCHANGED <<session, result>>
    <3>1. reader'.open = TRUE
      BY ZenonT(20), <2>5
    <3>2. AcceptablePacketsFit'
      BY <2>2, <2>5 DEF AcceptablePacketsFit
    <3> QED
      BY ZenonT(20), <1>0, <2>2, <2>5, <3>1, <3>2 DEF FitInv
  <2> QED
    BY ZenonT(20), <1>11, PrefixMoves, <2>3, <2>4, <2>5
<1> QED
  BY ZenonT(20), Moves, <1>7, <1>8, <1>9, <1>10, <1>11

\* In every behaviour a packet that its parser would accept is refused for its
\* size only if it is beyond max_frame or beyond what the session has left.
THEOREM AcceptablePacketsAreRead == ConnectionSpec => []AcceptablePacketsFit
<1> DEFINE I == Shape /\ ReaderInv /\ BytesInv /\ FitInv
<1>1. ConnectionInit => I
  <2> SUFFICES ASSUME ConnectionInit PROVE I
    OBVIOUS
  <2>1. Shape /\ ReaderInv /\ BytesInv
    BY ZenonT(20), ShapeInit, ReaderInit DEF ConnectionInit, IngressInit, BytesInv, NoTrace
  <2>2. result.error = "none" /\ phase = "start"
    BY DEF ConnectionInit, IngressInit, NoResult
  <2> QED
    BY <2>1, <2>2 DEF FitInv, AcceptablePacketsFit
<1>2. I /\ [ConnectionNext]_connectionVars => I'
  BY ZenonT(20), ShapeStep, ReaderStep, BytesStep, FitStep
<1>3. I => AcceptablePacketsFit
  BY DEF FitInv
<1> QED
  BY <1>1, <1>2, <1>3, PTL DEF ConnectionSpec

-----------------------------------------------------------------------------
(* The response *)

\* The cached document was prepared, and so is the response that is written.
ResponseInv ==
  /\ cached.json \in Document
  /\ cached # Nothing => Prepared(cached.json, config.max_response)
  /\ phase = "respond" =>
       \E t \in Nat : session.response = Response(t) /\ WireSize(t) <= config.max_response

\* A step to the write of a response looks it up.
LEMMA RespondSteps ==
  ASSUME Shape, [ConnectionNext]_connectionVars, phase' = "respond"
  PROVE  \/ session'.response = Get(config.fallback, session.version)
         \/ phase = "respond" /\ session' = session
<1>1. \A x : [session EXCEPT !.response = x].response = x
  BY DEF Shape
<1>2. CASE ReadRequest
  BY ZenonT(20), <1>1, <1>2 DEF ReadRequest, Reject, Refuse, Return, Await
<1>3. CASE Start \/ DropUntrusted \/ StartTrusted \/ ReadExhausted \/ HandOver
  BY <1>3 DEF Start, DropUntrusted, StartTrusted, ReadExhausted, HandOver, Identify, Return, Await
<1>4. CASE Expire \/ Connect \/ DialFails \/ Elapse \/ ReadAddresses \/ ReadPart
  BY <1>4 DEF Expire, Connect, DialFails, Elapse, ReadAddresses, ReadPart, Identify, Return, Await
<1>5. CASE ReadHandshake \/ ReadPing \/ ReadLogin \/ Respond \/ Pong \/ Disconnect
  BY <1>5 DEF ReadHandshake, ReadPing, ReadLogin, Respond, Pong, Disconnect,
              Reject, Refuse, Return, Await
<1>6. ASSUME NEW h \in Headers, ReadHeader(h) PROVE FALSE
  BY <1>6 DEF ReadHeader, Return
<1>7. ASSUME NEW f, ReadPrefix(f) PROVE phase = "respond" /\ session' = session
  BY <1>7 DEF ReadPrefix, Return, Reading
<1>8. CASE UNCHANGED sessionVars
  BY <1>8 DEF sessionVars
<1>9. CASE UNCHANGED ingressVars
  BY ZenonT(20), <1>8, <1>9 DEF ingressVars
<1> QED
  BY ClientSteps, <1>2, <1>3, <1>4, <1>5, <1>6, <1>7, <1>8, <1>9, Zenon

\* Every step keeps it: a document that is too long for the longest number is
\* not cached, and the configuration's was refused by validate().
LEMMA ResponseStep ==
  ASSUME Shape, ResponseInv, [ConnectionNext]_connectionVars
  PROVE  ResponseInv'
<1>1. config' = config
  BY ClientSteps DEF ingressVars
<1>2. cached'.json \in Document /\ (cached' # Nothing => Prepared(cached'.json, config.max_response))
  <2>1. CASE cached' = cached
    BY <2>1 DEF ResponseInv
  <2>2. CASE Age
    <3>1. cached # Nothing /\ cached'.json = cached.json
      BY <2>2 DEF Age
    <3> QED
      BY <3>1 DEF ResponseInv
  <2>3. ASSUME NEW json \in Answers, Refresh(json, config.max_response)
        PROVE  cached'.json \in Document /\ Prepared(cached'.json, config.max_response)
    <3>1. cached'.json = json /\ Prepared(json, config.max_response)
      BY <2>3 DEF Refresh
    <3> QED
      BY <3>1, CacheAssumption
  <2> QED
    BY ZenonT(20), ClientSteps, <2>1, <2>2, <2>3 DEF ingressVars
<1>3. ASSUME phase' = "respond"
      PROVE  \E t \in Nat : session'.response = Response(t) /\ WireSize(t) <= config.max_response
  <2>1. CASE session'.response = Get(config.fallback, session.version)
    <3> DEFINE json == IF cached # Nothing /\ cached.age < CacheTtl THEN cached.json
                       ELSE config.fallback
               t == Render(json, session.version)
    <3>1. session'.response = Response(t)
      BY <2>1 DEF Get
    <3>2. config.fallback \in Document /\ Prepared(config.fallback, config.max_response)
      BY ConfigAssumption, Zenon DEF Shape, Valid, ValidCache
    <3>3. json \in Document /\ Prepared(json, config.max_response)
      BY <3>2 DEF ResponseInv
    <3>4. config.max_response \in Nat
      BY Sizes
    <3> HIDE DEF json
    <3>5. t \in Nat /\ WireSize(t) <= config.max_response
      BY <3>3, <3>4, RenderFits
    <3> QED
      BY <3>1, <3>5
  <2>2. CASE phase = "respond" /\ session' = session
    BY <2>2 DEF ResponseInv
  <2> QED
    BY <1>3, <2>1, <2>2, RespondSteps
<1> QED
  BY ZenonT(20), <1>1, <1>2, <1>3 DEF ResponseInv

\* In every behaviour a response is within the configured size and the two
\* lengths in it are right, for every document that the backend may answer
\* with, every number that the client may call its version, and whether or not
\* the cache was refreshed, expired or never filled.
THEOREM ResponsesAreWellFormed == ConnectionSpec => []ResponseWellFormed
<1>1. ConnectionInit => Shape /\ ResponseInv
  <2> SUFFICES ASSUME ConnectionInit PROVE ResponseInv
    BY ShapeInit
  <2>1. Nothing.json \in Document
    BY ZenonT(20) DEF Nothing, Document
  <2> QED
    BY <2>1 DEF ConnectionInit, IngressInit, CacheInit, ResponseInv
<1>2. Shape /\ ResponseInv /\ [ConnectionNext]_connectionVars => Shape' /\ ResponseInv'
  BY ShapeStep, ResponseStep
<1>3. Shape /\ ResponseInv => ResponseWellFormed
  <2> SUFFICES ASSUME Shape, ResponseInv, phase = "respond"
               PROVE  LET r == session.response
                      IN  /\ ResponseSize(r) <= config.max_response
                          /\ VarInt(r.inner).n = r.text
                          /\ VarInt(r.outer).n = 1 + Len(r.inner) + r.text
    BY DEF ResponseWellFormed
  <2>1. PICK t \in Nat : session.response = Response(t) /\ WireSize(t) <= config.max_response
    BY DEF ResponseInv
  <2>2. WireSize(t) <= MaxResponse
    <3>1. WireSize(t) \in Nat /\ MaxResponse \in Nat
      BY SizesGrow DEF MaxResponse
    <3> QED
      BY <2>1, <3>1, Sizes
  <2> QED
    BY <2>1, <2>2, ResponseReads
<1> QED
  BY <1>1, <1>2, <1>3, PTL DEF ConnectionSpec

-----------------------------------------------------------------------------
(* The relay of a connection *)

\* From HandOver on, a connection is a relay: every behaviour of a connection is
\* one of Relay, whose theorems hold of it.
THEOREM ConnectionRelays == ConnectionSpec => RelaySpec
<1>1. ConnectionInit => RelayInit
  BY DEF ConnectionInit
<1>2. [ConnectionNext]_connectionVars => [RelayNext]_relayVars
  BY DEF ConnectionNext, connectionVars
<1> QED
  BY <1>1, <1>2, PTL DEF ConnectionSpec, RelaySpec

\* So a connection uploads within its budget, ends cleanly only when both
\* streams are delivered, and is cut off at its deadlines and never before.
THEOREM ConnectionsRelaySafely ==
  ConnectionSpec => [](UploadWithinBudget /\ CleanEndDeliversAll /\ DeadlinesExact)
BY ConnectionRelays, UploadIsBounded, CleanEndIsComplete, DeadlinesAreExact, PTL
=============================================================================
