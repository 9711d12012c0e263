---------------------------- MODULE StreamProofs ----------------------------
(*************************************************************************)
(* What holds of the streams of a connection for every configuration and *)
(* every client: of its relay, for every size of the copy buffers and of the *)
(* sockets' buffers; of the index of an address list; of the VarInts and the *)
(* packets that the gate reads; and of the response that it writes.      *)
(*************************************************************************)
EXTENDS Relay, StatusCache, PrefixIndex, TLAPS, FiniteSetTheorems

-----------------------------------------------------------------------------
(* The relay *)

\* What the validated configuration says of the constants.
LEMMA RelayLimits ==
  /\ Buffer \in Nat \ {0} /\ Window \in Nat \ {0}
  /\ Options \subseteq [stall : Nat, half : Nat, idle : Nat,
                        rate : Nat, burst : Nat, enforce : BOOLEAN]
  /\ \A o \in Options : o.rate = 0 <=> o.burst = 0
  BY RelayAssumption DEF ValidRelay

\* The alternatives of a step, one by one.
LEMMA RelaySteps ==
  ASSUME RelayNext
  PROVE  \/ \E d \in Direction :
              \/ ReadFree(d) \/ ReadEof(d) \/ Write(d) \/ Finish(d) \/ ArmStall(d)
              \/ StallExpires(d) \/ Send(d) \/ Close(d) \/ Consume(d)
         \/ ReadWithin \/ ReadBeyond \/ ReadRefused \/ Complete
         \/ SeeEof \/ HalfExpires \/ IdleExpires \/ SleepOn \/ Reset \/ Tick
BY DEF RelayNext, Transfer, Deadline, Peers

\* A lane whose flag is raised is a lane.
LEMMA Flags ==
  ASSUME NEW f \in [Direction -> Lane], NEW d \in Direction
  PROVE  /\ [f EXCEPT ![d].closed = TRUE] \in [Direction -> Lane]
         /\ [f EXCEPT ![d].eof = TRUE] \in [Direction -> Lane]
         /\ [f EXCEPT ![d].done = TRUE] \in [Direction -> Lane]
<1>1. /\ [f[d] EXCEPT !.closed = TRUE] \in Lane
      /\ [f[d] EXCEPT !.eof = TRUE] \in Lane
      /\ [f[d] EXCEPT !.done = TRUE] \in Lane
  BY Zenon DEF Lane
<1> QED
  BY <1>1, Zenon

\* The history that time passes into is one.
LEMMA Later ==
  ASSUME NEW h \in History, NEW m \in Nat, NEW s \in [Direction -> Nat], NEW c \in Count,
         NEW q \in Nat
  PROVE  [h EXCEPT !.meter = m, !.stuck = s, !.since = c, !.silent = q] \in History
BY Zenon DEF History


\* Every step keeps the types.
LEMMA TypeStep ==
  ASSUME RelayTypeOK, [RelayNext]_relayVars
  PROVE  RelayTypeOK'
<1> USE RelayLimits DEF RelayTypeOK, Count, Off, Direction, Running, End
<1>1. ASSUME NEW d \in Direction, ReadFree(d) PROVE RelayTypeOK'
  BY <1>1 DEF ReadFree, CanRead, Chunk, Filled, Smaller, Touch, Heard, Monitoring, Lane, History
<1>2. ASSUME NEW d \in Direction, ReadEof(d) PROVE RelayTypeOK'
  <2>1. flow' \in [Direction -> Lane]
    BY <1>2, Flags, Zenon DEF ReadEof
  <2>2. history' \in History
    BY <1>2 DEF ReadEof, History
  <2>3. drain' \in [notified : BOOLEAN, half : Count]
    BY <1>2, Zenon DEF ReadEof
  <2> QED
    BY <1>2, <2>1, <2>2, <2>3 DEF ReadEof
<1>3. ASSUME NEW d \in Direction, Write(d) PROVE RelayTypeOK'
  BY <1>3 DEF Write, Written, Smaller, Lane, History
<1>4. ASSUME NEW d \in Direction, Finish(d) PROVE RelayTypeOK'
  <2>1. flow' \in [Direction -> Lane]
    BY <1>4, Flags, Zenon DEF Finish
  <2> QED
    BY <1>4, <2>1 DEF Finish, Lane, History
<1>5. ASSUME NEW d \in Direction, ArmStall(d) PROVE RelayTypeOK'
  BY <1>5 DEF ArmStall, Arms, Blocked, Lane, History
<1>6. ASSUME ReadWithin PROVE RelayTypeOK'
  BY <1>6 DEF ReadWithin, CanRead, Chunk, Filled, Smaller, Touch, Metered, Monitoring, Within, Credit, Lane, History
<1>7. ASSUME ReadBeyond PROVE RelayTypeOK'
  BY <1>7 DEF ReadBeyond, CanRead, Chunk, Filled, Smaller, Touch, Metered, Monitoring, Within, Credit, Lane, History
<1>8. ASSUME ReadRefused PROVE RelayTypeOK'
  <2>1. history' \in History
    BY <1>8, Zenon DEF ReadRefused, History
  <2> QED
    BY <1>8, <2>1 DEF ReadRefused, CanRead, Chunk, Smaller, Touch, Lane
<1>9. ASSUME Complete PROVE RelayTypeOK'
  BY <1>9 DEF Complete, Lane, History
<1>10. ASSUME NEW d \in Direction, StallExpires(d) PROVE RelayTypeOK'
  BY <1>10 DEF StallExpires, Blocked, Lane, History
<1>11. ASSUME SeeEof PROVE RelayTypeOK'
  <2>1. drain' \in [notified : BOOLEAN, half : Count]
    <3>1. options.half \in Count
      OBVIOUS
    <3> QED
      BY <1>11, <3>1, Zenon DEF SeeEof
  <2> QED
    BY <1>11, <2>1 DEF SeeEof
<1>12. ASSUME HalfExpires PROVE RelayTypeOK'
  BY <1>12 DEF HalfExpires, Lane, History
<1>13. ASSUME IdleExpires PROVE RelayTypeOK'
  BY <1>13 DEF IdleExpires, Wakes, Lane, History
<1>14. ASSUME SleepOn PROVE RelayTypeOK'
  BY <1>14 DEF SleepOn, Wakes, Lane, History
<1>15. ASSUME Reset PROVE RelayTypeOK'
  BY <1>15 DEF Reset, Lane, History
<1>16. ASSUME NEW d \in Direction, Send(d) PROVE RelayTypeOK'
  BY <1>16 DEF Send, Lane, History
<1>17. ASSUME NEW d \in Direction, Close(d) PROVE RelayTypeOK'
  <2>1. flow' \in [Direction -> Lane]
    BY <1>17, Flags, Zenon DEF Close
  <2> QED
    BY <1>17, <2>1 DEF Close, Lane, History
<1>18. ASSUME NEW d \in Direction, Consume(d) PROVE RelayTypeOK'
  BY <1>18 DEF Consume, Lane, History
<1>19. ASSUME Tick PROVE RelayTypeOK'
  <2> DEFINE m == IF history.meter > options.rate THEN history.meter - options.rate ELSE 0
             s == [d \in Direction |->
                    IF Blocked(d) THEN Smaller(options.stall, history.stuck[d] + 1) ELSE 0]
             c == IF history.since = Off THEN Off ELSE Smaller(options.half + 1, history.since + 1)
             q == IF options.idle = 0 THEN 0 ELSE Smaller(options.idle + 1, history.silent + 1)
  <2>1. m \in Nat /\ s \in [Direction -> Nat] /\ c \in Count /\ q \in Nat
    BY DEF Smaller, History
  <2>2. history' = [history EXCEPT !.meter = m, !.stuck = s, !.since = c, !.silent = q]
    BY <1>19 DEF Tick
  <2>3. history' \in History
    <3> HIDE DEF m, s, c, q
    <3> QED
      BY <2>1, <2>2, Later, Zenon
  <2>4. flow' \in [Direction -> Lane]
    <3> SUFFICES ASSUME NEW d \in Direction PROVE [flow[d] EXCEPT !.stall = Sooner(@)] \in Lane
      BY <1>19 DEF Tick
    <3>1. Sooner(flow[d].stall) \in Count
      BY DEF Sooner, Lane
    <3> QED
      BY <3>1, SMT DEF Lane
  <2>5. drain' \in [notified : BOOLEAN, half : Count]
    BY <1>19 DEF Tick, Sooner
  <2> QED
    BY <1>19, <2>3, <2>4, <2>5 DEF Tick, Sooner, Smaller
<1>20. ASSUME UNCHANGED relayVars PROVE RelayTypeOK'
  BY <1>20, SMTT(20) DEF relayVars
<1> QED
  BY RelaySteps, <1>1, <1>2, <1>3, <1>4, <1>5, <1>6, <1>7, <1>8, <1>9, <1>10,
     <1>11, <1>12, <1>13, <1>14, <1>15, <1>16, <1>17, <1>18, <1>19, <1>20

-----------------------------------------------------------------------------
(* The inductive invariants *)

\* What the client may still send at once and what the meter holds add up to
\* no more than the burst.
MeterInv ==
  /\ options.rate = 0 => history.meter = 0
  /\ options.enforce /\ options.rate > 0 => history.meter + Credit <= options.burst

\* A direction that is done has read its end of stream and emptied its buffer.
OrderInv ==
  /\ outcome = "ok" => \A d \in Direction : flow[d].done
  /\ history.lost => outcome = "budget"
  /\ \A d \in Direction :
       /\ flow[d].done => flow[d].eof /\ flow[d].buf = 0
       /\ flow[d].eof => flow[d].closed /\ flow[d].inbox = 0

\* The deadline is set at the instant of the first end of a stream.
WindowInv ==
  options.half > 0 /\ Running =>
    \/ history.since = Off /\ drain.half = Off /\ ~drain.notified
    \/ history.since = 0 /\ drain.half = Off /\ drain.notified
    \/ /\ history.since # Off /\ drain.half # Off
       /\ history.since + drain.half = options.half

\* A timer that runs was set when the direction got stuck.
TimerInv ==
  /\ Running => \A d \in Direction :
       IF flow[d].stall = Off THEN history.stuck[d] = 0
       ELSE flow[d].buf > 0 /\ history.stuck[d] + flow[d].stall = options.stall
  /\ StalledMeansStuck

\* expired() wakes no later than last_ms gets old enough.
AwakeInv ==
  options.idle > 0 =>
    /\ Running => history.silent = idle.quiet /\ idle.quiet + idle.wake <= options.idle
    /\ outcome = "idle" => history.silent = options.idle


\* Every step keeps the meter within the burst.
LEMMA MeterStep ==
  ASSUME RelayTypeOK, MeterInv, [RelayNext]_relayVars
  PROVE  MeterInv'
<1> USE RelayLimits DEF RelayTypeOK, Count, Off, Direction, Running, End, Lane, History, MeterInv, Credit, Smaller
<1>1. ASSUME NEW d \in Direction, ReadFree(d) PROVE MeterInv'
  BY <1>1 DEF ReadFree, CanRead, Chunk, Filled, Smaller, Touch, Heard, Monitoring
<1>2. ASSUME NEW d \in Direction, ReadEof(d) PROVE MeterInv'
  BY <1>2 DEF ReadEof, CanReadEof
<1>3. ASSUME NEW d \in Direction, Write(d) PROVE MeterInv'
  BY <1>3 DEF Write, Written, Smaller
<1>4. ASSUME NEW d \in Direction, Finish(d) PROVE MeterInv'
  BY <1>4 DEF Finish, CanFinish
<1>5. ASSUME NEW d \in Direction, ArmStall(d) PROVE MeterInv'
  BY <1>5 DEF ArmStall, Arms, Blocked
<1>6. ASSUME ReadWithin PROVE MeterInv'
  BY <1>6 DEF ReadWithin, CanRead, Chunk, Filled, Smaller, Touch, Metered, Monitoring, Within, Credit
<1>7. ASSUME ReadBeyond PROVE MeterInv'
  BY <1>7 DEF ReadBeyond, CanRead, Chunk, Filled, Smaller, Touch, Metered, Monitoring, Within, Credit
<1>8. ASSUME ReadRefused PROVE MeterInv'
  BY <1>8 DEF ReadRefused, CanRead, Chunk, Filled, Smaller, Touch, Monitoring, Within, Credit
<1>9. ASSUME Complete PROVE MeterInv'
  BY <1>9 DEF Complete
<1>10. ASSUME NEW d \in Direction, StallExpires(d) PROVE MeterInv'
  BY <1>10 DEF StallExpires, Blocked
<1>11. ASSUME SeeEof PROVE MeterInv'
  BY <1>11 DEF SeeEof, SeesEof
<1>12. ASSUME HalfExpires PROVE MeterInv'
  BY <1>12 DEF HalfExpires
<1>13. ASSUME IdleExpires PROVE MeterInv'
  BY <1>13 DEF IdleExpires, Wakes
<1>14. ASSUME SleepOn PROVE MeterInv'
  BY <1>14 DEF SleepOn, Wakes
<1>15. ASSUME Reset PROVE MeterInv'
  BY <1>15 DEF Reset
<1>16. ASSUME NEW d \in Direction, Send(d) PROVE MeterInv'
  BY <1>16 DEF Send
<1>17. ASSUME NEW d \in Direction, Close(d) PROVE MeterInv'
  BY <1>17 DEF Close
<1>18. ASSUME NEW d \in Direction, Consume(d) PROVE MeterInv'
  BY <1>18 DEF Consume
<1>19. ASSUME Tick PROVE MeterInv'
  BY <1>19 DEF Tick, Sooner, Smaller, Blocked
<1>20. ASSUME UNCHANGED relayVars PROVE MeterInv'
  BY <1>20, SMTT(20) DEF relayVars
<1> QED
  BY SMTT(20), RelaySteps, <1>1, <1>2, <1>3, <1>4, <1>5, <1>6, <1>7, <1>8, <1>9, <1>10,
     <1>11, <1>12, <1>13, <1>14, <1>15, <1>16, <1>17, <1>18, <1>19, <1>20

\* Every step keeps the order of a direction's end.
LEMMA OrderStep ==
  ASSUME RelayTypeOK, OrderInv, [RelayNext]_relayVars
  PROVE  OrderInv'
<1> USE RelayLimits DEF RelayTypeOK, Count, Off, Direction, Running, End, Lane, History, OrderInv
<1>1. ASSUME NEW d \in Direction, ReadFree(d) PROVE OrderInv'
  BY <1>1 DEF ReadFree, CanRead, Chunk, Filled, Smaller, Touch, Heard, Monitoring
<1>2. ASSUME NEW d \in Direction, ReadEof(d) PROVE OrderInv'
  BY <1>2 DEF ReadEof, CanReadEof
<1>3. ASSUME NEW d \in Direction, Write(d) PROVE OrderInv'
  <2>1. flow[d].buf \in Nat /\ Written(d) > 0 /\ flow[d].buf > 0
    BY <1>3 DEF Write, Written, Smaller
  <2>2. history'.lost = history.lost /\ outcome' = outcome
    BY <1>3 DEF Write
  <2>3. \A e \in Direction : /\ flow'[e].done = flow[e].done /\ flow'[e].eof = flow[e].eof
                             /\ flow'[e].closed = flow[e].closed /\ flow'[e].inbox = flow[e].inbox
                             /\ e # d => flow'[e].buf = flow[e].buf
    BY <1>3 DEF Write
  <2>4. ~flow[d].done
    BY <2>1
  <2> QED
    BY <2>2, <2>3, <2>4
<1>4. ASSUME NEW d \in Direction, Finish(d) PROVE OrderInv'
  BY <1>4 DEF Finish, CanFinish
<1>5. ASSUME NEW d \in Direction, ArmStall(d) PROVE OrderInv'
  BY <1>5, SMTT(20) DEF ArmStall, Arms, Blocked
<1>6. ASSUME ReadWithin PROVE OrderInv'
  BY <1>6, SMTT(20) DEF ReadWithin, CanRead, Chunk, Filled, Smaller, Touch, Metered, Monitoring, Within, Credit
<1>7. ASSUME ReadBeyond PROVE OrderInv'
  BY <1>7 DEF ReadBeyond, CanRead, Chunk, Filled, Smaller, Touch, Metered, Monitoring, Within, Credit
<1>8. ASSUME ReadRefused PROVE OrderInv'
  BY <1>8 DEF ReadRefused, CanRead, Chunk, Filled, Smaller, Touch, Monitoring, Within, Credit
<1>9. ASSUME Complete PROVE OrderInv'
  BY <1>9 DEF Complete
<1>10. ASSUME NEW d \in Direction, StallExpires(d) PROVE OrderInv'
  BY <1>10 DEF StallExpires, Blocked
<1>11. ASSUME SeeEof PROVE OrderInv'
  BY <1>11 DEF SeeEof, SeesEof
<1>12. ASSUME HalfExpires PROVE OrderInv'
  BY <1>12 DEF HalfExpires
<1>13. ASSUME IdleExpires PROVE OrderInv'
  BY <1>13 DEF IdleExpires, Wakes
<1>14. ASSUME SleepOn PROVE OrderInv'
  BY <1>14 DEF SleepOn, Wakes
<1>15. ASSUME Reset PROVE OrderInv'
  BY <1>15 DEF Reset
<1>16. ASSUME NEW d \in Direction, Send(d) PROVE OrderInv'
  BY <1>16 DEF Send
<1>17. ASSUME NEW d \in Direction, Close(d) PROVE OrderInv'
  BY <1>17 DEF Close
<1>18. ASSUME NEW d \in Direction, Consume(d) PROVE OrderInv'
  BY <1>18 DEF Consume
<1>19. ASSUME Tick PROVE OrderInv'
  BY <1>19 DEF Tick, Sooner, Smaller, Blocked
<1>20. ASSUME UNCHANGED relayVars PROVE OrderInv'
  BY <1>20, SMTT(20) DEF relayVars
<1> QED
  BY Zenon, RelaySteps, <1>1, <1>2, <1>3, <1>4, <1>5, <1>6, <1>7, <1>8, <1>9, <1>10,
     <1>11, <1>12, <1>13, <1>14, <1>15, <1>16, <1>17, <1>18, <1>19, <1>20

\* Every step keeps the window of the half-close.
LEMMA WindowStep ==
  ASSUME RelayTypeOK, WindowInv, [RelayNext]_relayVars
  PROVE  WindowInv'
<1> USE RelayLimits DEF RelayTypeOK, Count, Off, Direction, Running, End, Lane, History, WindowInv
<1>1. ASSUME NEW d \in Direction, ReadFree(d) PROVE WindowInv'
  BY <1>1 DEF ReadFree, CanRead, Chunk, Filled, Smaller, Touch, Heard, Monitoring
<1>2. ASSUME NEW d \in Direction, ReadEof(d) PROVE WindowInv'
  BY <1>2 DEF ReadEof, CanReadEof
<1>3. ASSUME NEW d \in Direction, Write(d) PROVE WindowInv'
  BY <1>3 DEF Write, Written, Smaller
<1>4. ASSUME NEW d \in Direction, Finish(d) PROVE WindowInv'
  BY <1>4 DEF Finish, CanFinish
<1>5. ASSUME NEW d \in Direction, ArmStall(d) PROVE WindowInv'
  BY <1>5 DEF ArmStall, Arms, Blocked
<1>6. ASSUME ReadWithin PROVE WindowInv'
  BY <1>6 DEF ReadWithin, CanRead, Chunk, Filled, Smaller, Touch, Metered, Monitoring, Within, Credit
<1>7. ASSUME ReadBeyond PROVE WindowInv'
  BY <1>7 DEF ReadBeyond, CanRead, Chunk, Filled, Smaller, Touch, Metered, Monitoring, Within, Credit
<1>8. ASSUME ReadRefused PROVE WindowInv'
  BY <1>8 DEF ReadRefused, CanRead, Chunk, Filled, Smaller, Touch, Monitoring, Within, Credit
<1>9. ASSUME Complete PROVE WindowInv'
  BY <1>9 DEF Complete
<1>10. ASSUME NEW d \in Direction, StallExpires(d) PROVE WindowInv'
  BY <1>10 DEF StallExpires, Blocked
<1>11. ASSUME SeeEof PROVE WindowInv'
  BY <1>11 DEF SeeEof, SeesEof
<1>12. ASSUME HalfExpires PROVE WindowInv'
  BY <1>12 DEF HalfExpires
<1>13. ASSUME IdleExpires PROVE WindowInv'
  BY <1>13 DEF IdleExpires, Wakes
<1>14. ASSUME SleepOn PROVE WindowInv'
  BY <1>14 DEF SleepOn, Wakes
<1>15. ASSUME Reset PROVE WindowInv'
  BY <1>15 DEF Reset
<1>16. ASSUME NEW d \in Direction, Send(d) PROVE WindowInv'
  BY <1>16 DEF Send
<1>17. ASSUME NEW d \in Direction, Close(d) PROVE WindowInv'
  BY <1>17 DEF Close
<1>18. ASSUME NEW d \in Direction, Consume(d) PROVE WindowInv'
  BY <1>18 DEF Consume
<1>19. ASSUME Tick PROVE WindowInv'
  BY <1>19 DEF Tick, Sooner, Smaller, Blocked, Due, SeesEof
<1>20. ASSUME UNCHANGED relayVars PROVE WindowInv'
  BY <1>20, SMTT(20) DEF relayVars
<1> QED
  BY SMTT(20), RelaySteps, <1>1, <1>2, <1>3, <1>4, <1>5, <1>6, <1>7, <1>8, <1>9, <1>10,
     <1>11, <1>12, <1>13, <1>14, <1>15, <1>16, <1>17, <1>18, <1>19, <1>20

\* Every step keeps the stall timers in time.
LEMMA TimerStep ==
  ASSUME RelayTypeOK, TimerInv, [RelayNext]_relayVars
  PROVE  TimerInv'
<1> USE RelayLimits DEF RelayTypeOK, Count, Off, Direction, Running, End, Lane, History, TimerInv, StalledMeansStuck, Blocked
<1>1. ASSUME NEW d \in Direction, ReadFree(d) PROVE TimerInv'
  BY <1>1 DEF ReadFree, CanRead, Chunk, Filled, Smaller, Touch, Heard, Monitoring
<1>2. ASSUME NEW d \in Direction, ReadEof(d) PROVE TimerInv'
  BY <1>2, SMTT(20) DEF ReadEof, CanReadEof
<1>3. ASSUME NEW d \in Direction, Write(d) PROVE TimerInv'
  BY <1>3 DEF Write, Written, Smaller
<1>4. ASSUME NEW d \in Direction, Finish(d) PROVE TimerInv'
  BY <1>4 DEF Finish, CanFinish
<1>5. ASSUME NEW d \in Direction, ArmStall(d) PROVE TimerInv'
  BY <1>5 DEF ArmStall, Arms, Blocked
<1>6. ASSUME ReadWithin PROVE TimerInv'
  BY <1>6 DEF ReadWithin, CanRead, Chunk, Filled, Smaller, Touch, Metered, Monitoring, Within, Credit
<1>7. ASSUME ReadBeyond PROVE TimerInv'
  BY <1>7 DEF ReadBeyond, CanRead, Chunk, Filled, Smaller, Touch, Metered, Monitoring, Within, Credit
<1>8. ASSUME ReadRefused PROVE TimerInv'
  BY <1>8 DEF ReadRefused, CanRead, Chunk, Filled, Smaller, Touch, Monitoring, Within, Credit
<1>9. ASSUME Complete PROVE TimerInv'
  BY <1>9 DEF Complete
<1>10. ASSUME NEW d \in Direction, StallExpires(d) PROVE TimerInv'
  BY <1>10 DEF StallExpires, Blocked
<1>11. ASSUME SeeEof PROVE TimerInv'
  BY <1>11 DEF SeeEof, SeesEof
<1>12. ASSUME HalfExpires PROVE TimerInv'
  BY <1>12 DEF HalfExpires
<1>13. ASSUME IdleExpires PROVE TimerInv'
  BY <1>13 DEF IdleExpires, Wakes
<1>14. ASSUME SleepOn PROVE TimerInv'
  BY <1>14 DEF SleepOn, Wakes
<1>15. ASSUME Reset PROVE TimerInv'
  BY <1>15 DEF Reset
<1>16. ASSUME NEW d \in Direction, Send(d) PROVE TimerInv'
  BY <1>16 DEF Send
<1>17. ASSUME NEW d \in Direction, Close(d) PROVE TimerInv'
  BY <1>17 DEF Close
<1>18. ASSUME NEW d \in Direction, Consume(d) PROVE TimerInv'
  BY <1>18 DEF Consume
<1>19. ASSUME Tick PROVE TimerInv'
  BY <1>19 DEF Tick, Sooner, Smaller, Blocked, Transferring, Due, Arms, Written
<1>20. ASSUME UNCHANGED relayVars PROVE TimerInv'
  BY <1>20, SMTT(20) DEF relayVars
<1> QED
  BY Zenon, RelaySteps, <1>1, <1>2, <1>3, <1>4, <1>5, <1>6, <1>7, <1>8, <1>9, <1>10,
     <1>11, <1>12, <1>13, <1>14, <1>15, <1>16, <1>17, <1>18, <1>19, <1>20

\* Every step keeps expired() in time.
LEMMA AwakeStep ==
  ASSUME RelayTypeOK, AwakeInv, [RelayNext]_relayVars
  PROVE  AwakeInv'
<1> USE RelayLimits DEF RelayTypeOK, Count, Off, Direction, Running, End, Lane, History, AwakeInv
<1>1. ASSUME NEW d \in Direction, ReadFree(d) PROVE AwakeInv'
  BY <1>1 DEF ReadFree, CanRead, Chunk, Filled, Smaller, Touch, Heard, Monitoring
<1>2. ASSUME NEW d \in Direction, ReadEof(d) PROVE AwakeInv'
  BY <1>2 DEF ReadEof, CanReadEof
<1>3. ASSUME NEW d \in Direction, Write(d) PROVE AwakeInv'
  BY <1>3 DEF Write, Written, Smaller
<1>4. ASSUME NEW d \in Direction, Finish(d) PROVE AwakeInv'
  BY <1>4 DEF Finish, CanFinish
<1>5. ASSUME NEW d \in Direction, ArmStall(d) PROVE AwakeInv'
  BY <1>5 DEF ArmStall, Arms, Blocked
<1>6. ASSUME ReadWithin PROVE AwakeInv'
  BY <1>6 DEF ReadWithin, CanRead, Chunk, Filled, Smaller, Touch, Metered, Monitoring, Within, Credit
<1>7. ASSUME ReadBeyond PROVE AwakeInv'
  BY <1>7 DEF ReadBeyond, CanRead, Chunk, Filled, Smaller, Touch, Metered, Monitoring, Within, Credit
<1>8. ASSUME ReadRefused PROVE AwakeInv'
  BY <1>8 DEF ReadRefused, CanRead, Chunk, Filled, Smaller, Touch, Monitoring, Within, Credit
<1>9. ASSUME Complete PROVE AwakeInv'
  BY <1>9 DEF Complete
<1>10. ASSUME NEW d \in Direction, StallExpires(d) PROVE AwakeInv'
  BY <1>10 DEF StallExpires, Blocked
<1>11. ASSUME SeeEof PROVE AwakeInv'
  BY <1>11 DEF SeeEof, SeesEof
<1>12. ASSUME HalfExpires PROVE AwakeInv'
  BY <1>12 DEF HalfExpires
<1>13. ASSUME IdleExpires PROVE AwakeInv'
  BY <1>13 DEF IdleExpires, Wakes
<1>14. ASSUME SleepOn PROVE AwakeInv'
  BY <1>14 DEF SleepOn, Wakes
<1>15. ASSUME Reset PROVE AwakeInv'
  BY <1>15 DEF Reset
<1>16. ASSUME NEW d \in Direction, Send(d) PROVE AwakeInv'
  BY <1>16 DEF Send
<1>17. ASSUME NEW d \in Direction, Close(d) PROVE AwakeInv'
  BY <1>17 DEF Close
<1>18. ASSUME NEW d \in Direction, Consume(d) PROVE AwakeInv'
  BY <1>18 DEF Consume
<1>19. ASSUME Tick PROVE AwakeInv'
  BY <1>19 DEF Tick, Sooner, Smaller, Blocked, Due, Wakes
<1>20. ASSUME UNCHANGED relayVars PROVE AwakeInv'
  BY <1>20 DEF relayVars
<1> QED
  BY SMTT(20), RelaySteps, <1>1, <1>2, <1>3, <1>4, <1>5, <1>6, <1>7, <1>8, <1>9, <1>10,
     <1>11, <1>12, <1>13, <1>14, <1>15, <1>16, <1>17, <1>18, <1>19, <1>20

-----------------------------------------------------------------------------
(* The theorems *)

\* A relay begins well typed.
LEMMA InitTyped == RelayInit => RelayTypeOK
<1> SUFFICES ASSUME RelayInit PROVE RelayTypeOK
  OBVIOUS
<1> USE RelayLimits DEF RelayInit, Direction, Off, Count
<1>1. flow \in [Direction -> Lane]
  <2>1. Window \in 0 .. Window /\ 0 \in 0 .. Buffer /\ Off \in Count /\ 0 \in Nat
    OBVIOUS
  <2> QED
    BY <2>1, Zenon DEF Lane
<1>2. history \in History
  BY Zenon, 0 \in Nat DEF History
<1>3. drain \in [notified : BOOLEAN, half : Count]
  BY Zenon
<1> QED
  BY <1>1, <1>2, <1>3 DEF RelayTypeOK

\* The state of a relay stays within its types for every configuration.
THEOREM RelayTypeCorrect == RelaySpec => []RelayTypeOK
BY InitTyped, TypeStep, PTL DEF RelaySpec

\* Monitored never lets a client exceed its budget, in any window of time and
\* however its bytes are cut into chunks.
THEOREM UploadIsBounded == RelaySpec => []UploadWithinBudget
<1>1. RelayInit => RelayTypeOK /\ MeterInv
  BY RelayLimits, InitTyped DEF RelayInit, MeterInv, Credit, Smaller
<1>2. RelayTypeOK /\ MeterInv /\ [RelayNext]_relayVars => (RelayTypeOK /\ MeterInv)'
  BY TypeStep, MeterStep
<1>3. RelayTypeOK /\ MeterInv => UploadWithinBudget
  BY RelayLimits, SMTT(20) DEF RelayTypeOK, MeterInv, UploadWithinBudget, Credit, Smaller, History
<1> QED
  BY <1>1, <1>2, <1>3, PTL DEF RelaySpec

\* A relay that returns Ok has delivered both streams to the last byte.
THEOREM CleanEndIsComplete == RelaySpec => []CleanEndDeliversAll
<1>1. RelayInit => RelayTypeOK /\ OrderInv
  BY RelayLimits, InitTyped DEF RelayInit, OrderInv, Direction
<1>2. RelayTypeOK /\ OrderInv /\ [RelayNext]_relayVars => (RelayTypeOK /\ OrderInv)'
  BY TypeStep, OrderStep
<1>3. RelayTypeOK /\ OrderInv => CleanEndDeliversAll
  BY RelayLimits, SMTT(20) DEF RelayTypeOK, OrderInv, CleanEndDeliversAll
<1> QED
  BY <1>1, <1>2, <1>3, PTL DEF RelaySpec

\* No traffic extends the window of a half-closed relay.
THEOREM HalfCloseIsAbsolute == RelaySpec => []HalfCloseAbsolute
<1>1. RelayInit => RelayTypeOK /\ WindowInv
  BY RelayLimits, InitTyped DEF RelayInit, WindowInv, Running, Off
<1>2. RelayTypeOK /\ WindowInv /\ [RelayNext]_relayVars => (RelayTypeOK /\ WindowInv)'
  BY TypeStep, WindowStep
<1>3. RelayTypeOK /\ WindowInv => HalfCloseAbsolute
  BY RelayLimits, SMTT(20) DEF RelayTypeOK, WindowInv, HalfCloseAbsolute, History, Count, Off
<1> QED
  BY <1>1, <1>2, <1>3, PTL DEF RelaySpec

\* The stall guard ends no relay that makes progress.
THEOREM StallsAreReal == RelaySpec => []StalledMeansStuck
<1>1. RelayInit => RelayTypeOK /\ TimerInv
  BY RelayLimits, InitTyped DEF RelayInit, TimerInv, StalledMeansStuck, Direction
<1>2. RelayTypeOK /\ TimerInv /\ [RelayNext]_relayVars => (RelayTypeOK /\ TimerInv)'
  BY TypeStep, TimerStep
<1>3. RelayTypeOK /\ TimerInv => StalledMeansStuck
  BY RelayLimits, SMTT(20) DEF TimerInv
<1> QED
  BY <1>1, <1>2, <1>3, PTL DEF RelaySpec

\* The idle guard ends the silent relays, on time, and no other.
THEOREM IdleIsExact == RelaySpec => []IdleMeansSilent
<1>1. RelayInit => RelayTypeOK /\ AwakeInv
  BY RelayLimits, InitTyped DEF RelayInit, AwakeInv, Running
<1>2. RelayTypeOK /\ AwakeInv /\ [RelayNext]_relayVars => (RelayTypeOK /\ AwakeInv)'
  BY TypeStep, AwakeStep
<1>3. RelayTypeOK /\ AwakeInv => IdleMeansSilent
  BY RelayLimits DEF RelayTypeOK, AwakeInv, IdleMeansSilent
<1> QED
  BY <1>1, <1>2, <1>3, PTL DEF RelaySpec

\* The deadlines of a relay are kept and are the only ones: stall, half-close
\* and idle together.
THEOREM DeadlinesAreExact == RelaySpec => []DeadlinesExact
<1>1. HalfCloseAbsolute /\ StalledMeansStuck /\ IdleMeansSilent => DeadlinesExact
  BY DEF DeadlinesExact
<1> QED
  BY <1>1, HalfCloseIsAbsolute, StallsAreReal, IdleIsExact, PTL

-----------------------------------------------------------------------------
(* The operators *)

\* The index of a list finds exactly the addresses that a scan would find, for
\* every width of addresses, every list and every threshold between the two.
THEOREM IndexIsExact ==
  ASSUME NEW nets, NEW addr
  PROVE  Contains(nets, addr) <=> InList(nets, addr)
<1>1. CASE Len(nets) <= Small
  BY <1>1 DEF Contains
<1>2. CASE ~(Len(nets) <= Small)
  <2>1. ASSUME NEW bits \in DOMAIN Index(nets), Masked(addr, bits) \in Index(nets)[bits]
        PROVE  InList(nets, addr)
    <3>1. PICK i \in DOMAIN nets : nets[i].bits = bits /\ Masked(addr, bits) = Masked(nets[i].addr, bits)
      BY <2>1 DEF Index
    <3> QED
      BY <3>1 DEF InList, Covers
  <2>2. ASSUME InList(nets, addr)
        PROVE  \E bits \in DOMAIN Index(nets) : Masked(addr, bits) \in Index(nets)[bits]
    <3>1. PICK i \in DOMAIN nets : Covers(nets[i], addr)
      BY <2>2 DEF InList
    <3>2. nets[i].bits \in DOMAIN Index(nets)
      BY DEF Index
    <3>3. Masked(addr, nets[i].bits) \in Index(nets)[nets[i].bits]
      BY <3>1, <3>2, SMTT(20) DEF Index, Covers
    <3> QED
      BY <3>2, <3>3
  <2> QED
    BY <1>2, <2>1, <2>2 DEF Contains
<1> QED
  BY <1>1, <1>2

-----------------------------------------------------------------------------
(* VarInts *)

\* A byte shifted out of a value, and what is left.
LEMMA Shifted ==
  ASSUME NEW n \in Nat
  PROVE  /\ n \div Radix \in Nat /\ n % Radix \in 0..(Radix - 1)
         /\ n = (n % Radix) + Radix * (n \div Radix)
         /\ Radix \in Nat \ {0}
  BY DEF Radix

\* The continuation bit is added and taken off.
LEMMA Masking ==
  ASSUME NEW d \in 0..(Radix - 1)
  PROVE  d % Radix = d /\ (d + Radix) % Radix = d /\ d + Radix >= Radix /\ d < Radix
  BY DEF Radix

\* The value of up to four bytes.
Digit(d, i) == IF i <= Len(d) THEN d[i] % Radix ELSE 0
Sum4(d) == Digit(d, 1) + Radix * (Digit(d, 2) + Radix * (Digit(d, 3) + Radix * Digit(d, 4)))

\* d is an encoding of n with a continuation bit on every byte but the last.
Encodes(d, n) ==
  /\ d \in Seq(Nat) /\ Len(d) \in 1..4
  /\ \A i \in 1..(Len(d) - 1) : d[i] >= Radix
  /\ d[Len(d)] < Radix
  /\ Sum4(d) = n

\* A byte carries a number of bits.
LEMMA RadixIsNat == Radix \in Nat
  BY DEF Radix

\* varint() waits for the last byte and then finds the value.
LEMMA DecodesPrefix ==
  ASSUME NEW d, NEW n, Encodes(d, n), NEW k \in 1..Len(d)
  PROVE  VarInt(SubSeq(d, 1, k)) = IF k = Len(d) THEN [state |-> "done", used |-> k, n |-> n]
                                   ELSE Incomplete
<1> DEFINE e == SubSeq(d, 1, k)
<1>1. /\ e \in Seq(Nat) /\ Len(e) = k /\ k \in 1..4 /\ \A i \in 1..k : e[i] = d[i]
  BY DEF Encodes
<1>2. /\ \A i \in 1..k : e[i] \in Nat
      /\ \A i \in 1..(k - 1) : e[i] >= Radix
  BY <1>1 DEF Encodes
<1> DEFINE last == {i \in 1..Len(e) : i <= 5 /\ e[i] < Radix}
<1>3. ~(Len(e) >= 5)
  BY <1>1
<1> HIDE DEF e
<1>4. CASE k # Len(d)
  <2>1. \A i \in 1..k : e[i] >= Radix
    BY <1>1, <1>4 DEF Encodes
  <2>2. last = {}
    BY <1>1, <1>2, <2>1, RadixIsNat
  <2> QED
    BY <1>3, <1>4, <2>2 DEF VarInt, e
<1>5. CASE k = Len(d)
  <2>1. e[k] < Radix
    BY <1>1, <1>5 DEF Encodes
  <2>2. last = {k}
    BY <1>1, <1>2, <2>1, RadixIsNat
  <2>3. Smallest({k}) = k
    BY <1>1 DEF Smallest
  <2>4. \A i \in 1..4 : Digit(d, i) = IF i <= k THEN e[i] % Radix ELSE 0
    BY <1>1, <1>5 DEF Digit
  <2>5. VarInt(e) = [state |-> "done", used |-> k, n |-> Sum4(d)]
    <3> DEFINE size == Smallest(last)
               digit(i) == IF i <= size THEN e[i] % Radix ELSE 0
               low == digit(1) + Radix * (digit(2) + Radix * (digit(3) + Radix * digit(4)))
    <3>1. VarInt(e) = IF Len(e) >= 5 /\ (\A i \in 1..4 : e[i] >= Radix) /\ e[5] >= 16 THEN Overflow
                      ELSE IF last = {} THEN Incomplete
                      ELSE [state |-> "done", used |-> size,
                            n |-> IF size < 5 THEN low ELSE low + Top(e[5])]
      BY Zenon DEF VarInt
    <3>2. size = k
      BY <2>2, <2>3
    <3>3. last # {} /\ size < 5
      BY <1>1, <2>2, <3>2
    <3>4. \A i \in 1..4 : digit(i) = Digit(d, i)
      BY <2>4, <3>2
    <3> HIDE DEF last, size, digit
    <3>5. low = Sum4(d)
      BY <3>4 DEF Sum4
    <3> HIDE DEF low
    <3> QED
      BY <1>3, <3>1, <3>2, <3>3, <3>5
  <2> QED
    BY <1>5, <2>5 DEF Encodes, e
<1> QED
  BY <1>4, <1>5

\* What put_varint()'s loop has left after one, two, three and four bytes.
Q2(n) == n \div Radix
Q3(n) == Q2(n) \div Radix
Q4(n) == Q3(n) \div Radix
Q5(n) == Q4(n) \div Radix

PutSize(n) ==
  IF Q2(n) = 0 THEN 1 ELSE IF Q3(n) = 0 THEN 2 ELSE IF Q4(n) = 0 THEN 3
  ELSE IF Q5(n) = 0 THEN 4 ELSE 5

PutLow(n) == <<n % Radix, Q2(n) % Radix, Q3(n) % Radix, Q4(n) % Radix, Q5(n) % 16>>

\* put_varint(), with the loop's state named.
LEMMA PutAs ==
  ASSUME NEW n
  PROVE  PutVarInt(n) = [i \in 1..PutSize(n) |->
                           PutLow(n)[i] + (IF i < PutSize(n) THEN Radix ELSE 0)]
  BY Zenon DEF PutVarInt, Q2, Q3, Q4, Q5, PutSize, PutLow

\* What is left after each byte, and the byte.
LEMMA Rests ==
  ASSUME NEW n \in Nat
  PROVE  /\ Q2(n) \in Nat /\ n % Radix \in 0..(Radix - 1) /\ n = (n % Radix) + Radix * Q2(n)
         /\ Q3(n) \in Nat /\ Q2(n) % Radix \in 0..(Radix - 1)
         /\ Q2(n) = (Q2(n) % Radix) + Radix * Q3(n)
         /\ Q4(n) \in Nat /\ Q3(n) % Radix \in 0..(Radix - 1)
         /\ Q3(n) = (Q3(n) % Radix) + Radix * Q4(n)
         /\ Q5(n) \in Nat /\ Q4(n) % Radix \in 0..(Radix - 1)
         /\ Q4(n) = (Q4(n) % Radix) + Radix * Q5(n)
         /\ Q5(n) % 16 \in Nat
         /\ PutSize(n) \in 1..5
<1>1. /\ Q2(n) \in Nat /\ n % Radix \in 0..(Radix - 1) /\ n = (n % Radix) + Radix * Q2(n)
  BY Shifted DEF Q2
<1>2. /\ Q3(n) \in Nat /\ Q2(n) % Radix \in 0..(Radix - 1)
      /\ Q2(n) = (Q2(n) % Radix) + Radix * Q3(n)
  BY <1>1, Shifted DEF Q3
<1>3. /\ Q4(n) \in Nat /\ Q3(n) % Radix \in 0..(Radix - 1)
      /\ Q3(n) = (Q3(n) % Radix) + Radix * Q4(n)
  BY <1>2, Shifted DEF Q4
<1>4. /\ Q5(n) \in Nat /\ Q4(n) % Radix \in 0..(Radix - 1)
      /\ Q4(n) = (Q4(n) % Radix) + Radix * Q5(n)
  BY <1>3, Shifted DEF Q5
<1>5. Q5(n) % 16 \in Nat /\ PutSize(n) \in 1..5
  BY <1>4 DEF PutSize
<1> QED
  BY <1>1, <1>2, <1>3, <1>4, <1>5

\* The bytes of put_varint() carry a continuation bit up to the last one.
LEMMA PutBytes ==
  ASSUME NEW n \in Nat
  PROVE  /\ PutVarInt(n) \in Seq(Nat) /\ Len(PutVarInt(n)) = PutSize(n)
         /\ \A i \in 1..PutSize(n) :
              /\ PutVarInt(n)[i] = PutLow(n)[i] + (IF i < PutSize(n) THEN Radix ELSE 0)
              /\ PutLow(n)[i] \in Nat
         /\ \A i \in 1..4 : PutLow(n)[i] \in 0..(Radix - 1)
<1> DEFINE s == PutSize(n)
           b == [i \in 1..s |-> PutLow(n)[i] + (IF i < s THEN Radix ELSE 0)]
<1>1. s \in 1..5
  BY Rests
<1>2. \A i \in 1..4 : PutLow(n)[i] \in 0..(Radix - 1)
  <2>1. \A i \in 1..4 : i = 1 \/ i = 2 \/ i = 3 \/ i = 4
    OBVIOUS
  <2>2. /\ PutLow(n)[1] = n % Radix /\ PutLow(n)[2] = Q2(n) % Radix
        /\ PutLow(n)[3] = Q3(n) % Radix /\ PutLow(n)[4] = Q4(n) % Radix
    BY DEF PutLow
  <2> QED
    BY <2>1, <2>2, Rests, Zenon
<1>3. \A i \in 1..5 : PutLow(n)[i] \in Nat
  <2>1. PutLow(n)[5] = Q5(n) % 16
    BY DEF PutLow
  <2>2. \A i \in 1..5 : i \in 1..4 \/ i = 5
    OBVIOUS
  <2>3. 0..(Radix - 1) \subseteq Nat
    BY RadixIsNat
  <2> QED
    BY <1>2, <2>1, <2>2, <2>3, Rests, Zenon
<1> HIDE DEF s
<1>4. \A i \in 1..s : PutLow(n)[i] + (IF i < s THEN Radix ELSE 0) \in Nat
  BY <1>1, <1>3, RadixIsNat
<1>5. b \in Seq(Nat) /\ Len(b) = s
  BY <1>1, <1>4
<1>6. \A i \in 1..s : b[i] = PutLow(n)[i] + (IF i < s THEN Radix ELSE 0)
  OBVIOUS
<1>7. PutVarInt(n) = b
  BY PutAs DEF s
<1> HIDE DEF b
<1> QED
  <2>1. 1..s \subseteq 1..5
    BY <1>1
  <2>2. \A i \in 1..s : PutLow(n)[i] \in Nat
    BY <1>3, <2>1, Zenon
  <2> QED
    BY <1>2, <1>5, <1>6, <1>7, <2>2, Zenon DEF s

\* What put_varint() writes in up to four bytes is an encoding of its argument.
LEMMA PutEncodes ==
  ASSUME NEW n \in Nat, PutSize(n) <= 4
  PROVE  Encodes(PutVarInt(n), n)
<1> DEFINE s == PutSize(n)
           d == PutVarInt(n)
           low == PutLow(n)
<1>1. /\ d \in Seq(Nat) /\ Len(d) = s /\ s \in 1..4
      /\ \A i \in 1..s : d[i] = low[i] + (IF i < s THEN Radix ELSE 0)
      /\ \A i \in 1..4 : low[i] \in 0..(Radix - 1)
  <2>1. s \in 1..4
    BY Rests
  <2> QED
    BY PutBytes, <2>1, Zenon
<1> HIDE DEF d, s, low
<1>2. \A i \in 1..s : d[i] % Radix = low[i]
  <2>1. \A i \in 1..s : low[i] \in 0..(Radix - 1) /\ low[i] + 0 = low[i]
    <3>1. \A x \in 0..(Radix - 1) : x + 0 = x
      BY RadixIsNat
    <3>2. \A i \in 1..s : i \in 1..4
      BY <1>1
    <3> QED
      BY <1>1, <3>1, <3>2, Zenon
  <2>2. \A i \in 1..s : d[i] = low[i] \/ d[i] = low[i] + Radix
    BY <1>1, <2>1
  <2> QED
    BY <2>1, <2>2, Masking, Zenon
<1>3. \A i \in 1..(s - 1) : d[i] >= Radix
  BY <1>1, Masking
<1>4. d[s] < Radix
  BY <1>1, Masking
<1>5. Sum4(d) = n
  <2>1. \A i \in 1..4 : Digit(d, i) = IF i <= s THEN low[i] ELSE 0
    BY <1>1, <1>2 DEF Digit
  <2>2. low[1] = n % Radix /\ low[2] = Q2(n) % Radix /\ low[3] = Q3(n) % Radix
        /\ low[4] = Q4(n) % Radix
    BY DEF low, PutLow
  <2>3. Radix * 0 = 0 /\ Radix \in Nat
    BY RadixIsNat
  <2>4. CASE s = 1
    <3>1. Q2(n) = 0 /\ n = n % Radix /\ n % Radix \in Nat
      <4>1. Q2(n) = 0
        BY <2>4 DEF s, PutSize
      <4> QED
        <5>1. n = (n % Radix) + Radix * 0 /\ n % Radix \in 0..(Radix - 1)
          BY <4>1, Rests, Zenon
        <5> QED
          BY <4>1, <5>1, <2>3
    <3> QED
      BY <2>1, <2>2, <2>3, <2>4, <3>1 DEF Sum4
  <2>5. CASE s = 2
    <3>1. Q3(n) = 0
      BY <2>5 DEF s, PutSize
    <3>2. /\ n = (n % Radix) + Radix * Q2(n) /\ Q2(n) = Q2(n) % Radix
          /\ n % Radix \in Nat /\ Q2(n) \in Nat
      BY <3>1, Rests, <2>3
    <3> QED
      BY <2>1, <2>2, <2>3, <2>5, <3>2 DEF Sum4
  <2>6. CASE s = 3
    <3>1. Q4(n) = 0
      BY <2>6 DEF s, PutSize
    <3>2. /\ n = (n % Radix) + Radix * Q2(n) /\ Q2(n) = (Q2(n) % Radix) + Radix * Q3(n)
          /\ Q3(n) = Q3(n) % Radix /\ Q3(n) \in Nat
      BY <3>1, Rests, <2>3
    <3>3. Q3(n) + Radix * 0 = Q3(n)
      BY <2>3, <3>2
    <3> QED
      BY <2>1, <2>2, <2>3, <2>6, <3>2, <3>3 DEF Sum4
  <2>7. CASE s = 4
    <3>1. Q5(n) = 0
      BY <2>7, <1>1 DEF s, PutSize
    <3>2. /\ n = (n % Radix) + Radix * Q2(n) /\ Q2(n) = (Q2(n) % Radix) + Radix * Q3(n)
          /\ Q3(n) = (Q3(n) % Radix) + Radix * Q4(n) /\ Q4(n) = Q4(n) % Radix
      BY <3>1, Rests, <2>3
    <3> QED
      BY <2>1, <2>2, <2>7, <3>2 DEF Sum4
  <2> QED
    BY <1>1, <2>4, <2>5, <2>6, <2>7
<1> QED
  BY <1>1, <1>3, <1>4, <1>5 DEF Encodes, d

\* A VarInt does not end with bytes that all carry a continuation bit.
LEMMA ContinuesOn ==
  ASSUME NEW d \in Seq(Nat), NEW k \in 1..4, k <= Len(d), \A i \in 1..k : d[i] >= Radix
  PROVE  VarInt(SubSeq(d, 1, k)) = Incomplete
<1> DEFINE e == SubSeq(d, 1, k)
           last == {i \in 1..Len(e) : i <= 5 /\ e[i] < Radix}
<1>1. Len(e) = k /\ \A i \in 1..k : e[i] = d[i]
  OBVIOUS
<1>2. \A i \in 1..k : e[i] \in Nat /\ e[i] >= Radix
  BY <1>1
<1> HIDE DEF e
<1>3. last = {} /\ ~(Len(e) >= 5)
  BY <1>1, <1>2, RadixIsNat
<1> QED
  BY <1>3 DEF VarInt, e

\* What varint() makes of an encoding by put_varint(), byte by byte.
LEMMA PutReads ==
  ASSUME NEW n \in Nat, NEW k \in 1..3, k <= PutSize(n)
  PROVE  VarInt(SubSeq(PutVarInt(n), 1, k)) =
           IF k = PutSize(n) THEN [state |-> "done", used |-> k, n |-> n] ELSE Incomplete
<1>1. CASE PutSize(n) <= 4
  <2>1. Encodes(PutVarInt(n), n) /\ Len(PutVarInt(n)) = PutSize(n)
    BY <1>1, PutEncodes, PutBytes
  <2>2. k \in 1..Len(PutVarInt(n))
    BY <2>1, Rests
  <2> QED
    BY <2>1, <2>2, DecodesPrefix
<1>2. CASE PutSize(n) = 5
  <2>1. PutVarInt(n) \in Seq(Nat) /\ Len(PutVarInt(n)) = 5
    BY <1>2, PutBytes
  <2>2. \A i \in 1..k : PutVarInt(n)[i] >= Radix
    <3> SUFFICES ASSUME NEW i \in 1..k PROVE PutVarInt(n)[i] >= Radix
      OBVIOUS
    <3>1. i \in 1..5 /\ i \in 1..4 /\ i < PutSize(n)
      BY <1>2
    <3>2. PutVarInt(n)[i] = PutLow(n)[i] + Radix /\ PutLow(n)[i] \in 0..(Radix - 1)
      BY <1>2, <3>1, PutBytes
    <3> QED
      BY <3>2, Masking
  <2> QED
    BY <1>2, <2>1, <2>2, ContinuesOn
<1>3. PutSize(n) \in 1..5
  BY Rests
<1> QED
  BY <1>1, <1>2, <1>3

\* The same value in three bytes.
LEMMA PaddedEncodes ==
  ASSUME NEW n \in Nat, PutSize(n) <= 3
  PROVE  Encodes(Padded(n, 3), n) /\ Len(Padded(n, 3)) = 3
<1> DEFINE s == PutSize(n)
           short == PutVarInt(n)
           byte(i) == CASE i < s -> short[i]
                        [] i = s -> short[i] + (IF i < 3 THEN Radix ELSE 0)
                        [] OTHER -> IF i < 3 THEN Radix ELSE 0
           d == [i \in 1..3 |-> byte(i)]
<1>1. /\ Encodes(short, n) /\ Len(short) = s /\ s \in 1..3
  <2>1. PutSize(n) \in 1..5
    BY Rests
  <2> QED
    <3>1. PutSize(n) \in 1..3 /\ PutSize(n) <= 4
      BY <2>1
    <3> QED
      BY <3>1, PutEncodes, PutBytes, Zenon
<1>2. d = Padded(n, 3)
  BY <1>1 DEF Padded
<1>3. /\ \A i \in 1..s : short[i] \in Nat
      /\ \A i \in 1..(s - 1) : short[i] >= Radix
      /\ short[s] < Radix
      /\ Sum4(short) = n
  BY <1>1 DEF Encodes
<1> HIDE DEF s, short
<1>4. /\ byte(1) \in Nat /\ byte(2) \in Nat /\ byte(3) \in Nat
      /\ byte(1) >= Radix /\ byte(2) >= Radix /\ byte(3) < Radix
  BY <1>1, <1>3 DEF Radix
<1>5. \A i \in 1..3 : byte(i) % Radix = IF i <= s THEN short[i] % Radix ELSE 0
  BY <1>1, <1>3 DEF Radix
<1>6. /\ d[1] = byte(1) /\ d[2] = byte(2) /\ d[3] = byte(3) /\ Len(d) = 3
      /\ \A i \in 1..3 : d[i] = byte(i)
  OBVIOUS
<1>7. d \in Seq(Nat)
  <2>1. \A i \in 1..3 : byte(i) \in Nat
    BY <1>4
  <2> HIDE DEF byte
  <2> QED
    BY <2>1
<1> HIDE DEF byte, d
<1>8. \A i \in 1..4 : Digit(d, i) = Digit(short, i)
  BY <1>1, <1>5, <1>6 DEF Digit
<1>9. Sum4(d) = n
  BY <1>3, <1>8 DEF Sum4
<1>10. \A i \in 1..(Len(d) - 1) : d[i] >= Radix
  BY <1>4, <1>6
<1> QED
  BY <1>2, <1>4, <1>6, <1>7, <1>9, <1>10 DEF Encodes

\* What varint() makes of it, byte by byte: a length that needs more than three
\* bytes is not complete with them.
LEMMA PaddedReads ==
  ASSUME NEW n \in Nat, NEW k \in 1..3
  PROVE  /\ Len(Padded(n, 3)) = 3
         /\ \/ VarInt(SubSeq(Padded(n, 3), 1, k)) = Incomplete
            \/ k = 3 /\ VarInt(SubSeq(Padded(n, 3), 1, k)) = [state |-> "done", used |-> k, n |-> n]
<1>1. CASE PutSize(n) <= 3
  BY <1>1, PaddedEncodes, DecodesPrefix
<1>2. CASE PutSize(n) \in {4, 5}
  <2> DEFINE d == Padded(n, 3)
             short == PutVarInt(n)
  <2>1. Len(short) = PutSize(n)
    BY PutBytes
  <2>2. \A i \in 1..3 : i < Len(short)
    BY <1>2, <2>1
  <2>3. d = [i \in 1..3 |-> short[i]]
    <3>1. d = [i \in 1..3 |-> CASE i < Len(short) -> short[i]
                               [] i = Len(short) -> short[i] + (IF i < 3 THEN Radix ELSE 0)
                               [] OTHER -> IF i < 3 THEN Radix ELSE 0]
      BY DEF Padded
    <3>2. \A i \in 1..3 : Len(short) \in Nat /\ i # Len(short)
      BY <1>2, <2>1
    <3> HIDE DEF short, d
    <3> QED
      BY <2>2, <3>1, <3>2
  <2>4. \A i \in 1..3 : short[i] \in Nat /\ short[i] >= Radix
    <3> SUFFICES ASSUME NEW i \in 1..3 PROVE short[i] \in Nat /\ short[i] >= Radix
      OBVIOUS
    <3>1. i \in 1..PutSize(n) /\ i \in 1..4 /\ i < PutSize(n)
      BY <1>2
    <3>2. short[i] = PutLow(n)[i] + Radix /\ PutLow(n)[i] \in 0..(Radix - 1)
      BY <3>1, PutBytes
    <3> QED
      BY <3>2, Masking, RadixIsNat
  <2> HIDE DEF short, d
  <2>5. d \in Seq(Nat) /\ Len(d) = 3 /\ \A i \in 1..3 : d[i] >= Radix
    <3>1. /\ [i \in 1..3 |-> short[i]] \in Seq(Nat) /\ Len([i \in 1..3 |-> short[i]]) = 3
          /\ \A i \in 1..3 : [j \in 1..3 |-> short[j]][i] = short[i]
      BY <2>4
    <3> QED
      BY <2>3, <2>4, <3>1, Zenon
  <2>6. VarInt(SubSeq(d, 1, k)) = Incomplete
    BY <2>5, ContinuesOn
  <2> QED
    BY <2>5, <2>6 DEF d
<1>3. PutSize(n) \in 1..5
  BY Rests
<1> QED
  BY <1>1, <1>2, <1>3

\* A length that put_varint() writes in up to four bytes is read back by
\* varint(), which takes exactly those bytes.
THEOREM LengthsAreReadBack ==
  ASSUME NEW n \in Nat, n < Nibble
  PROVE  VarInt(PutVarInt(n)) = [state |-> "done", used |-> Len(PutVarInt(n)), n |-> n]
<1> DEFINE d == PutVarInt(n)
<1>1. PutSize(n) <= 4
  <2>1. Q5(n) = 0
    BY DEF Q2, Q3, Q4, Q5, Radix, Nibble
  <2> QED
    BY <2>1 DEF PutSize
<1>2. Encodes(d, n)
  BY <1>1, PutEncodes
<1>3. Len(d) \in 1..Len(d) /\ SubSeq(d, 1, Len(d)) = d
  <2>1. d \in Seq(Nat) /\ Len(d) \in 1..4
    BY <1>2, Zenon DEF Encodes
  <2> HIDE DEF d
  <2> QED
    BY <2>1
<1> QED
  BY <1>2, <1>3, DecodesPrefix

-----------------------------------------------------------------------------
(* Packets *)

\* The number of checks of each packet.
LEMMA HandshakeChecks ==
  ASSUME NEW body, NEW p
  PROVE  DOMAIN Handshake(body, p) = 1..17
BY SMTT(20) DEF Handshake

\* The same of Login Start.
LEMMA LoginChecks ==
  ASSUME NEW body, NEW schema
  PROVE  DOMAIN Login(body, schema) = 1..22
BY DEF Login

\* handshake_max() refuses no handshake that handshake() would accept: for every
\* limit on hosts and every encoding of the four VarInts, such a body is within
\* the bound or beyond max_frame.
THEOREM HandshakesFit ==
  ASSUME NEW p, p.max_host_bytes \in Nat, p.max_frame \in Nat,
         NEW body, body.len \in Nat,
         Len(body.id) \in 1..5, Len(body.version) \in 1..5, Len(body.hostlen) \in 1..5,
         Len(body.state) \in 1..5,
         Passes(Handshake(body, p)), body.len <= p.max_frame
  PROVE  body.len <= HandshakeMax(p)
<1> DEFINE cs == Handshake(body, p)
<1>1. Passes(cs)
  BY Zenon
<1>2. DOMAIN cs = 1..17
  BY HandshakeChecks, Zenon
<1>3. cs[8].holds /\ cs[17].holds
  <2> HIDE DEF cs
  <2> QED
    BY <1>1, <1>2 DEF Passes
<1>4. Value(body.hostlen) \in 0..p.max_host_bytes
  BY <1>3, Zenon DEF Handshake, Check
<1>5. body.len = Len(body.id) + Len(body.version) + Len(body.hostlen)
                   + Value(body.hostlen) + 2 + Len(body.state)
  BY <1>3, Zenon DEF Handshake, Check, Ends
<1>6. PICK h \in 0..p.max_host_bytes : h = Value(body.hostlen)
  BY <1>4, SMTT(20)
<1>7. PICK a \in 1..5, b \in 1..5, c \in 1..5, d \in 1..5 : body.len = a + b + c + h + 2 + d
  BY <1>5, <1>6, Zenon
<1> HIDE DEF cs
<1> QED
  BY <1>6, <1>7 DEF HandshakeMax

\* What the checks of login() say of the lengths in a packet that passes them.
LEMMA LoginLengths ==
  ASSUME NEW body, NEW schema, schema # "backend", Passes(Login(body, schema))
  PROVE  /\ Value(body.namelen) \in 0..64
         /\ Sent(body, schema) => /\ Value(body.key) \in 0..MaxBlob
                                  /\ Value(body.sig) \in 0..MaxBlob
         /\ Layout(body, schema).end = body.len
<1> DEFINE cs == Login(body, schema)
<1>1. Passes(cs)
  BY Zenon
<1>2. DOMAIN cs = 1..22
  BY LoginChecks, Zenon
<1>3. cs[6].holds /\ cs[14].holds /\ cs[18].holds /\ cs[22].holds
  <2> HIDE DEF cs
  <2> QED
    BY <1>1, <1>2 DEF Passes
<1>4. Value(body.namelen) \in 0..64
  BY <1>3, Zenon DEF Login, If, Check
<1>5. Sent(body, schema) => Value(body.key) \in 0..MaxBlob
  BY <1>3, Zenon DEF Login, If, Check
<1>6. Sent(body, schema) => Value(body.sig) \in 0..MaxBlob
  BY <1>3, Zenon DEF Login, If, Check
<1>7. Layout(body, schema).end = body.len
  BY <1>3, Zenon DEF Login, If, Check, Ends
<1> QED
  BY <1>4, <1>5, <1>6, <1>7

\* login_max() refuses no Login Start that login() would accept, whatever the
\* schema and whichever of its optional parts are there.
THEOREM LoginsFit ==
  ASSUME NEW p, p.max_frame \in Nat, NEW version,
         LoginSchema(version, p) \in Schemas,
         NEW body, body.len \in Nat,
         Len(body.id) \in 1..5, Len(body.namelen) \in 1..5,
         Len(body.key) \in 1..5, Len(body.sig) \in 1..5,
         Passes(Login(body, LoginSchema(version, p))), body.len <= p.max_frame
  PROVE  body.len <= LoginMax(version, p)
<1> DEFINE schema == LoginSchema(version, p)
<1>1. CASE schema = "backend"
  BY <1>1 DEF LoginMax
<1>2. CASE schema # "backend"
  <2>1. /\ Value(body.namelen) \in 0..64
        /\ Sent(body, schema) => /\ Value(body.key) \in 0..MaxBlob
                                 /\ Value(body.sig) \in 0..MaxBlob
        /\ Layout(body, schema).end = body.len
    BY <1>2, LoginLengths
  <2> HIDE DEF schema
  <2> MaxBlob \in Nat
    BY SMTT(20) DEF MaxBlob
  <2>2. PICK a \in 1..5, b \in 1..5, n \in 0..64 :
          a = Len(body.id) /\ b = Len(body.namelen) /\ n = Value(body.namelen)
    BY <2>1, Zenon
  <2>3. CASE Sent(body, schema)
    <3>1. PICK c \in 1..5, d \in 1..5, k \in 0..MaxBlob, g \in 0..MaxBlob :
            c = Len(body.key) /\ d = Len(body.sig) /\ k = Value(body.key) /\ g = Value(body.sig)
      BY <2>1, <2>3, SMTT(20)
    <3>2. body.len = a + b + n + 1 + 8 + (c + k) + (d + g) + (IF Flagged(schema) THEN 1 ELSE 0)
                       + (IF HasUuid(body, schema) THEN 16 ELSE 0)
      BY <2>1, <2>2, <2>3, <3>1, Zenon DEF Layout, Sent
    <3> QED
      BY <1>2, <2>3, <3>2, SMTT(20) DEF LoginMax, Keys, Sent, HasUuid, Keyed, Flagged, schema
  <2>4. CASE ~Sent(body, schema)
    <3>1. body.len = a + b + n + (IF Keyed(schema) THEN 1 ELSE 0) + (IF Flagged(schema) THEN 1 ELSE 0)
                       + (IF HasUuid(body, schema) THEN 16 ELSE 0)
      <4>1. Layout(body, schema).end =
              Len(body.id) + Len(body.namelen) + Value(body.namelen)
                + (IF Keyed(schema) THEN 1 ELSE 0) + 0 + 0 + 0
                + (IF Flagged(schema) THEN 1 ELSE 0) + (IF HasUuid(body, schema) THEN 16 ELSE 0)
        BY <2>4, Zenon DEF Layout
      <4> QED
        <5> DEFINE k == IF Keyed(schema) THEN 1 ELSE 0
                   f == IF Flagged(schema) THEN 1 ELSE 0
                   u == IF HasUuid(body, schema) THEN 16 ELSE 0
        <5>1. k \in Nat /\ f \in Nat /\ u \in Nat
          OBVIOUS
        <5>2. body.len = Len(body.id) + Len(body.namelen) + Value(body.namelen) + k + 0 + 0 + 0 + f + u
          BY <2>1, <4>1
        <5> HIDE DEF k, f, u
        <5>3. body.len = a + b + n + k + f + u
          <6>1. body.len = a + b + n + k + 0 + 0 + 0 + f + u
            BY <2>2, <5>2, Zenon
          <6>2. a + b + n + k + 0 + 0 + 0 + f + u = a + b + n + k + f + u
            BY <5>1
          <6> QED
            BY <6>1, <6>2, Zenon
        <5> QED
          BY <5>3 DEF k, f, u
    <3>2. body.len <= 74 + (IF Keyed(schema) THEN Keys ELSE 0)
                          + (IF Flagged(schema) THEN 17 ELSE IF schema = "uuid" THEN 16 ELSE 0)
      BY <3>1 DEF Keys, HasUuid
    <3> QED
      BY <1>2, <3>2 DEF LoginMax, schema
  <2> QED
    BY <2>3, <2>4, SMTT(20)
<1> QED
  BY <1>1, <1>2

-----------------------------------------------------------------------------
(* The sizes of a response *)

\* varint_size() is the number of bytes that put_varint() writes.
LEMMA SizeAsPut ==
  ASSUME NEW n \in Nat
  PROVE  Len(PutVarInt(n)) = VarIntSize(n)
<1>1. Q2(n) = 0 <=> n < 128
  BY DEF Q2, Radix
<1>2. Q3(n) = 0 <=> n < 16384
  BY DEF Q2, Q3, Radix
<1>3. Q4(n) = 0 <=> n < 2097152
  BY DEF Q2, Q3, Q4, Radix
<1>4. Q5(n) = 0 <=> n < Nibble
  BY DEF Q2, Q3, Q4, Q5, Radix, Nibble
<1>5. PutSize(n) = VarIntSize(n)
  BY <1>1, <1>2, <1>3, <1>4, SMT DEF PutSize, VarIntSize
<1> QED
  BY <1>5, PutBytes, Zenon

\* A longer text makes no shorter response.
LEMMA SizesGrow ==
  ASSUME NEW m \in Nat, NEW n \in Nat, m <= n
  PROVE  WireSize(m) <= WireSize(n) /\ WireSize(n) \in Nat
<1>0. Nibble \in Nat /\ Nibble > 2097152
  BY DEF Nibble
<1>1. \A i, j \in Nat : i <= j => VarIntSize(i) <= VarIntSize(j) /\ VarIntSize(i) \in 1..5
  BY <1>0 DEF VarIntSize
<1> QED
  BY <1>1 DEF WireSize

\* Four bytes are enough for the length of a response.
LEMMA ResponseIsShort == \A n \in Nat : n <= MaxResponse => n < Nibble
  BY DEF MaxResponse, Nibble

\* A response that fits takes what wire_size() says, and a parser reads the
\* lengths in it.
LEMMA ResponseReads ==
  ASSUME NEW t \in Nat, WireSize(t) <= MaxResponse
  PROVE  LET r == Response(t)
         IN  /\ r.text = t /\ ResponseSize(r) = WireSize(t)
             /\ VarInt(r.inner).n = t /\ VarInt(r.outer).n = 1 + Len(r.inner) + t
<1> DEFINE body == 1 + Len(PutVarInt(t)) + t
           r == Response(t)
<1>1. /\ Len(PutVarInt(t)) = VarIntSize(t) /\ VarIntSize(t) \in 1..5
      /\ body \in Nat /\ Len(PutVarInt(body)) = VarIntSize(body) /\ VarIntSize(body) \in 1..5
  <2>0. Nibble \in Nat
    BY DEF Nibble
  <2>1. \A n \in Nat : VarIntSize(n) \in 1..5
    BY <2>0 DEF VarIntSize
  <2>2. body \in Nat
    BY <2>1, SizeAsPut
  <2> QED
    BY <2>1, <2>2, SizeAsPut
<1>2. WireSize(t) = body + VarIntSize(body)
  BY <1>1 DEF WireSize
<1>3. /\ r.text = t /\ r.inner = PutVarInt(t) /\ r.outer = PutVarInt(body)
  BY DEF Response
<1>4. ResponseSize(r) = WireSize(t)
  BY <1>1, <1>2, <1>3 DEF ResponseSize
<1>5. ASSUME NEW n \in Nat, n <= MaxResponse
      PROVE  VarInt(PutVarInt(n)).n = n
  <2>1. n < Nibble
    BY <1>5, ResponseIsShort
  <2>2. VarInt(PutVarInt(n)) = [state |-> "done", used |-> Len(PutVarInt(n)), n |-> n]
    BY <2>1, LengthsAreReadBack
  <2> QED
    BY <2>2
<1>6. t <= MaxResponse /\ body <= MaxResponse
  <2>1. MaxResponse \in Nat
    BY DEF MaxResponse
  <2> QED
    BY <1>1, <1>2, <2>1
<1> QED
  BY <1>1, <1>3, <1>4, <1>5, <1>6

\* The number of a version has at most ten digits, whatever the version is.
LEMMA DigitsBounded ==
  ASSUME NEW n
  PROVE  Digits(n) \in 1..10
<1> DEFINE S == {i \in 1..9 : n >= 10^i}
<1>1. IsFiniteSet(1..9) /\ Cardinality(1..9) = 9
  <2>1. 1 \in Int /\ 9 \in Int /\ ~(1 > 9) /\ 9 - 1 + 1 = 9
    OBVIOUS
  <2>2. IsFiniteSet(1..9) /\ Cardinality(1..9) = IF 1 > 9 THEN 0 ELSE 9 - 1 + 1
    BY <2>1, FS_Interval, Zenon
  <2> QED
    BY <2>1, <2>2, Zenon
<1>2. IsFiniteSet(S) /\ Cardinality(S) <= 9
  BY <1>1, FS_Subset
<1>3. Cardinality(S) \in Nat
  BY <1>2, FS_CardinalityType
<1> QED
  BY <1>2, <1>3 DEF Digits

\* What Prepared::new() accepted can be rendered for every version.
LEMMA RenderFits ==
  ASSUME NEW json \in Document, NEW max \in Nat, Prepared(json, max), NEW version
  PROVE  Render(json, version) \in Nat /\ WireSize(Render(json, version)) <= max
<1>1. json.text \in Nat /\ (json.suffix # None => json.suffix \in Nat)
  BY DEF Document
<1>2. CASE version < 0 \/ json.suffix = None
  BY <1>1, <1>2 DEF Render, Prepared
<1>3. CASE ~(version < 0 \/ json.suffix = None)
  <2> DEFINE t == PrefixText + Digits(version) + json.suffix
             u == PrefixText + 10 + json.suffix
  <2>1. t \in Nat /\ u \in Nat /\ t <= u
    BY <1>1, <1>3, DigitsBounded DEF PrefixText
  <2>2. WireSize(u) <= max /\ Render(json, version) = t
    BY <1>3 DEF Prepared, Render
  <2> HIDE DEF t, u
  <2>3. WireSize(t) <= WireSize(u) /\ WireSize(u) \in Nat /\ WireSize(t) \in Nat
    BY <2>1, SizesGrow
  <2> QED
    BY <2>1, <2>2, <2>3
<1> QED
  BY <1>2, <1>3
=============================================================================
