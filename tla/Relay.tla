------------------------------- MODULE Relay -------------------------------
(***************************************************************************)
(* The relay of an admitted connection (gate/src/relay.rs): protected_copy *)
(* with its stall, half-close and idle deadlines around the upload budget  *)
(* of Monitored, around tokio's copy_bidirectional over two TCP streams.   *)
(*                                                                         *)
(* Each direction has a copy buffer between the socket it reads and the    *)
(* socket it writes.  Time is counted in ticks; a task that was woken is   *)
(* polled before the next tick.  A poll of the transfer goes on until it   *)
(* has to wait: what a peer does meanwhile counts as done after it.  When  *)
(* several deadlines and transfers are due at one instant, any of them     *)
(* may win.  A TCP flush or shutdown never waits.                          *)
(***************************************************************************)
EXTENDS Integers, GateConfig

CONSTANTS
  Options,     \* configurations: deadlines in ticks, 0 for none, and upload
  Buffer,      \* relay_buffer
  Window       \* what the socket buffers of a peer hold

\* Config::validate()
ASSUME RelayAssumption ==
  /\ Buffer \in Nat \ {0} /\ Window \in Nat \ {0}
  /\ Options \subseteq [stall : Nat, half : Nat, idle : Nat,
                        rate : Nat, burst : Nat, enforce : BOOLEAN]
  /\ \A o \in Options : ValidRelay(o)

\* From the client to the backend, and back.
Direction == {"up", "down"}

Off == -1     \* of a timer
Smaller(m, n) == IF m < n THEN m ELSE n

VARIABLES
  options,     \* the configuration
  outcome,     \* "running", or how protected_copy() returned
  flow,        \* the two directions
  drain,       \* the Notify permit and the half-close deadline
  idle,        \* ticks since Activity.last_ms, ticks until expired() wakes
  budget,      \* Budget: credit, and what it has gained since last
  history      \* what the properties look back to

relayVars == <<options, outcome, flow, drain, idle, budget, history>>

RelayInit ==
  /\ options \in Options
  /\ outcome = "running"
  /\ flow = [d \in Direction |->
       [inbox |-> 0, closed |-> FALSE, buf |-> 0, eof |-> FALSE, done |-> FALSE,
        room |-> Window, stall |-> Off]]
  /\ drain = [notified |-> FALSE, half |-> Off]
  /\ idle = [quiet |-> 0, wake |-> options.idle]
  /\ budget = [credit |-> options.burst, refill |-> 0]
  /\ history = [meter |-> 0, stuck |-> [d \in Direction |-> 0], since |-> Off,
                silent |-> 0, lost |-> FALSE]

Running == outcome = "running"

\* The future returns; what it borrowed is dropped.
End(how) ==
  /\ outcome' = how
  /\ UNCHANGED <<options, flow, drain, idle, budget, history>>

-----------------------------------------------------------------------------
(* Reading *)

\* A read takes what is there, up to the space in the copy buffer.
Chunk(d) == Smaller(flow[d].inbox, Buffer - flow[d].buf)
CanRead(d) == ~flow[d].eof /\ Chunk(d) > 0

Filled(d) == [flow EXCEPT ![d].inbox = @ - Chunk(d), ![d].buf = @ + Chunk(d)]

Monitoring == options.rate > 0

\* Mutant: time gains credit beyond the burst.
CreditUncapped == budget.credit + budget.refill

\* Budget::take(): the credit before the chunk is charged.
Credit == Smaller(options.burst, budget.credit + budget.refill)
Within(n) == n <= Credit

\* Only the client's stream has an Activity.
Touch(d) == IF d = "up" /\ options.idle > 0 THEN [idle EXCEPT !.quiet = 0] ELSE idle

\* The history: the client was heard, and what of it was charged and forwarded.
\* It counts no further than it takes to see a bound exceeded.
Metered(n) == [history EXCEPT !.meter = Smaller(options.burst + 1, @ + n), !.silent = 0]
Heard(d) == IF d = "up" THEN [history EXCEPT !.silent = 0] ELSE history

\* Bytes from the backend, or from the client of a relay without a budget.
ReadFree(d) ==
  /\ Running /\ CanRead(d)
  /\ d = "up" => ~Monitoring
  /\ flow' = Filled(d)
  /\ idle' = Touch(d)
  /\ history' = Heard(d)
  /\ UNCHANGED <<options, outcome, drain, budget>>

\* Monitored::poll_read() with a chunk within the budget.
ReadWithin ==
  /\ Running /\ CanRead("up") /\ Monitoring /\ Within(Chunk("up"))
  /\ flow' = Filled("up")
  /\ idle' = Touch("up")
  /\ budget' = [credit |-> Credit - Chunk("up"), refill |-> 0]
  /\ history' = Metered(Chunk("up"))
  /\ UNCHANGED <<options, outcome, drain>>

\* Mutant: the chunk is discarded whether or not the budget is enforced.
ReadBeyondDiscards ==
  /\ Running /\ CanRead("up") /\ Monitoring /\ ~Within(Chunk("up"))
  /\ ~options.enforce
  /\ flow' = [flow EXCEPT !["up"].inbox = @ - Chunk("up")]
  /\ idle' = Touch("up")
  /\ budget' = [credit |-> 0, refill |-> 0]
  /\ history' = [history EXCEPT !.lost = TRUE, !.silent = 0]
  /\ UNCHANGED <<options, outcome, drain>>

\* A chunk beyond it is counted and forwarded.
ReadBeyond ==
  /\ Running /\ CanRead("up") /\ Monitoring /\ ~Within(Chunk("up"))
  /\ ~options.enforce
  /\ flow' = Filled("up")
  /\ idle' = Touch("up")
  /\ budget' = [credit |-> 0, refill |-> 0]
  /\ history' = Metered(Chunk("up"))
  /\ UNCHANGED <<options, outcome, drain>>

\* An enforced budget discards it and ends the relay.
ReadRefused ==
  /\ Running /\ CanRead("up") /\ Monitoring /\ ~Within(Chunk("up"))
  /\ options.enforce
  /\ outcome' = "budget"
  /\ flow' = [flow EXCEPT !["up"].inbox = @ - Chunk("up")]
  /\ idle' = Touch("up")
  /\ budget' = [credit |-> 0, refill |-> 0]
  /\ history' = [history EXCEPT !.lost = TRUE, !.silent = 0]
  /\ UNCHANGED <<options, drain>>

CanReadEof(d) ==
  /\ ~flow[d].eof /\ flow[d].closed
  /\ flow[d].inbox = 0 /\ flow[d].buf < Buffer

\* Guarded::poll_read() sees the end of the stream and notifies.
ReadEof(d) ==
  /\ Running /\ CanReadEof(d)
  /\ flow' = [flow EXCEPT ![d].eof = TRUE]
  /\ drain' = [drain EXCEPT !.notified = TRUE]
  /\ history' = IF history.since = Off THEN [history EXCEPT !.since = 0] ELSE history
  /\ UNCHANGED <<options, outcome, idle, budget>>

-----------------------------------------------------------------------------
(* Writing *)

Written(d) == Smaller(flow[d].buf, flow[d].room)

\* Guarded::check() with a result that is ready.
Write(d) ==
  /\ Running /\ Written(d) > 0
  /\ flow' = [flow EXCEPT ![d].buf = @ - Written(d), ![d].room = @ - Written(d),
                          ![d].stall = Off]
  /\ history' = [history EXCEPT !.stuck[d] = 0]
  /\ UNCHANGED <<options, outcome, drain, idle, budget>>

Blocked(d) == flow[d].buf > 0 /\ flow[d].room = 0

\* Mutant: the timer is armed for the client's stream only.
ArmsClientOnly(d) == d = "down" /\ options.stall > 0 /\ Blocked(d) /\ flow[d].stall = Off

Arms(d) == options.stall > 0 /\ Blocked(d) /\ flow[d].stall = Off

\* check() with a pending write starts the timer.
ArmStall(d) ==
  /\ Running /\ Arms(d)
  /\ flow' = [flow EXCEPT ![d].stall = options.stall]
  /\ UNCHANGED <<options, outcome, drain, idle, budget, history>>

\* The write is tried again before the timer is looked at.
StallExpires(d) == Running /\ Blocked(d) /\ flow[d].stall = 0 /\ End("stall")

CanFinish(d) == flow[d].eof /\ flow[d].buf = 0 /\ ~flow[d].done

\* The buffer is empty after the end of the stream: flush and shut down.
Finish(d) ==
  /\ Running /\ CanFinish(d)
  /\ flow' = [flow EXCEPT ![d].done = TRUE]
  /\ UNCHANGED <<options, outcome, drain, idle, budget, history>>

Complete == Running /\ (\A d \in Direction : flow[d].done) /\ End("ok")

-----------------------------------------------------------------------------
(* The deadlines *)

SeesEof == options.half > 0 /\ drain.notified /\ drain.half = Off

\* Mutant: every end of a stream starts the window anew.
SeeEofAgain ==
  /\ Running /\ options.half > 0 /\ drain.notified
  /\ drain' = [notified |-> FALSE, half |-> options.half]
  /\ UNCHANGED <<options, outcome, flow, idle, budget, history>>

\* The select of drain takes the permit and goes on under a timeout.  A later
\* permit is never taken.
SeeEof ==
  /\ Running /\ SeesEof
  /\ drain' = [notified |-> FALSE, half |-> options.half]
  /\ UNCHANGED <<options, outcome, flow, idle, budget, history>>

HalfExpires == Running /\ drain.half = 0 /\ End("half")

Wakes == options.idle > 0 /\ idle.wake = 0

\* Activity::expired() wakes up and finds last_ms old enough.
IdleExpires == Running /\ Wakes /\ idle.quiet >= options.idle /\ End("idle")

\* There was activity in the meantime: sleep until it is old enough.
SleepOn ==
  /\ Running /\ Wakes /\ idle.quiet < options.idle
  /\ idle' = [idle EXCEPT !.wake = options.idle - idle.quiet]
  /\ UNCHANGED <<options, outcome, flow, drain, budget, history>>

-----------------------------------------------------------------------------
(* The peers and time *)

\* The transfer has something to do at this instant.
Transferring ==
  \/ \E d \in Direction :
       CanRead(d) \/ CanReadEof(d) \/ Written(d) > 0 \/ CanFinish(d) \/ Arms(d)
  \/ \A d \in Direction : flow[d].done

\* A deadline is due, or has to be set.
Due ==
  \/ \E d \in Direction : Blocked(d) /\ flow[d].stall = 0
  \/ SeesEof \/ drain.half = 0 \/ Wakes

Send(d) ==
  /\ Running /\ ~Transferring
  /\ ~flow[d].closed /\ flow[d].inbox < Window
  /\ flow' = [flow EXCEPT ![d].inbox = @ + 1]
  /\ UNCHANGED <<options, outcome, drain, idle, budget, history>>

Close(d) ==
  /\ Running /\ ~Transferring
  /\ ~flow[d].closed
  /\ flow' = [flow EXCEPT ![d].closed = TRUE]
  /\ UNCHANGED <<options, outcome, drain, idle, budget, history>>

\* The destination reads what was written to it.
Consume(d) ==
  /\ Running /\ ~Transferring
  /\ flow[d].room < Window
  /\ flow' = [flow EXCEPT ![d].room = @ + 1]
  /\ UNCHANGED <<options, outcome, drain, idle, budget, history>>

\* A read or a write fails.
Reset == Running /\ ~Transferring /\ End("error")

Sooner(timer) == IF timer > 0 THEN timer - 1 ELSE timer

Tick ==
  /\ Running /\ ~Transferring /\ ~Due
  /\ flow' = [d \in Direction |-> [flow[d] EXCEPT !.stall = Sooner(@)]]
  /\ drain' = [drain EXCEPT !.half = Sooner(@)]
  /\ idle' = [quiet |-> Smaller(options.idle, idle.quiet + 1), wake |-> Sooner(idle.wake)]
  /\ budget' = [budget EXCEPT !.refill = Smaller(options.burst, @ + options.rate)]
  /\ history' = [history EXCEPT
       !.meter = IF @ > options.rate THEN @ - options.rate ELSE 0,
       !.stuck = [d \in Direction |-> IF Blocked(d) THEN Smaller(options.stall, @[d] + 1) ELSE 0],
       !.since = IF @ = Off THEN Off ELSE Smaller(options.half + 1, @ + 1),
       !.silent = IF options.idle = 0 THEN 0 ELSE Smaller(options.idle + 1, @ + 1)]
  /\ UNCHANGED <<options, outcome>>

Transfer ==
  \/ \E d \in Direction : ReadFree(d) \/ ReadEof(d) \/ Write(d) \/ Finish(d) \/ ArmStall(d)
  \/ ReadWithin \/ ReadBeyond \/ ReadRefused
  \/ Complete

Deadline ==
  \/ \E d \in Direction : StallExpires(d)
  \/ SeeEof \/ HalfExpires \/ IdleExpires \/ SleepOn

Peers == Reset \/ \E d \in Direction : Send(d) \/ Close(d) \/ Consume(d)

RelayNext == Transfer \/ Deadline \/ Peers \/ Tick

RelaySpec == RelayInit /\ [][RelayNext]_relayVars

-----------------------------------------------------------------------------
(* Properties *)

Count == Nat \cup {Off}

Lane ==
  [inbox : Nat, closed : BOOLEAN, buf : 0 .. Buffer, eof : BOOLEAN, done : BOOLEAN,
   room : 0 .. Window, stall : Count]

History ==
  [meter : Nat, stuck : [Direction -> Nat], since : Count, silent : Nat, lost : BOOLEAN]

RelayTypeOK ==
  /\ options \in Options
  /\ outcome \in {"running", "ok", "stall", "half", "idle", "budget", "error"}
  /\ flow \in [Direction -> Lane]
  /\ drain \in [notified : BOOLEAN, half : Count]
  /\ idle \in [quiet : Nat, wake : Nat]
  /\ budget \in [credit : Nat, refill : Nat]
  /\ history \in History

\* An enforced budget bounds what a client gets through in EVERY window of
\* time, not just since the relay began: a bucket that leaks rate bytes a tick
\* and gains every byte that Monitored forwards never holds more than burst.
UploadWithinBudget == options.enforce => history.meter <= options.burst

\* protected_copy() returns Ok only when all that either peer sent before it
\* closed was read, and all that was read was written: no chunk is discarded,
\* left in a copy buffer or left unread by a relay that ends in order.
CleanEndDeliversAll ==
  outcome = "ok" =>
    /\ ~history.lost
    /\ \A d \in Direction : flow[d].closed /\ flow[d].inbox = 0 /\ flow[d].buf = 0

\* The half-close window is absolute: a relay that has read the end of either
\* stream is over half_close_ms later, whatever the other direction does, the
\* other end of stream included.
HalfCloseAbsolute ==
  options.half > 0 /\ Running => history.since <= options.half

\* A relay ends as stalled only when one of its directions has had bytes to
\* write and written none for relay_stall_ms without a break; progress in
\* between, or waiting for something to write, does not add up.
StalledMeansStuck ==
  outcome = "stall" => \E d \in Direction : Blocked(d) /\ history.stuck[d] = options.stall

\* client_idle_ms is exact: a relay ends as idle only when nothing was read
\* from the client for that long, and none goes on longer than that, however
\* much the backend sends; expired() sleeps on deadlines that traffic moves.
IdleMeansSilent ==
  options.idle > 0 =>
    /\ outcome = "idle" => history.silent = options.idle
    /\ Running => history.silent <= options.idle

\* The three deadlines of protected_copy() together: no relay outlasts one that
\* is configured, and none is cut that has kept to it.
DeadlinesExact == HalfCloseAbsolute /\ StalledMeansStuck /\ IdleMeansSilent

\* With both guards on, a relay does not outlive its peers: once either has
\* closed its side, protected_copy() returns, even if a destination that does
\* not read keeps the end of the stream from being seen.
FinishedRelayEnds ==
  (options.stall > 0 /\ options.half > 0 /\ \E d \in Direction : flow[d].closed)
    ~> ~Running
=============================================================================
