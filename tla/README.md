# XDDP verification

TLA+ models of XDDP, the runs that model-check them with TLC, and theorems
about them that TLAPS has proved. The models are translated from the code under
`src/`; `PROJECT.json` maps every definition to the lines it stands for.

## The system

XDDP protects a game server with three cooperating programs.

| Part | Source | State | Operations |
|---|---|---|---|
| XDP data path | `xdp/xdp_ddos.bpf.c`, `parse.h`, `shared.h` | pinned maps (configuration, allow, block, ports, owned), a SYN bucket per CPU | `xddp()` on every packet |
| loader | `xdp/loader.c` | none of its own, writes the maps | `load`, `config`, `prefix`, `policy`, `attach`, `detach`, `status` |
| controller | `controller/ddosctl.py`, `policy.py` | configuration, mode, generation; the configuration file and the runtime document | `prepare()`, `tick()`, `command()`, `cleanup()` |
| adaptive policy | `controller/core.py` | mode, sample counters, freeze and recovery timers | `sample()` |
| runtime policy of the gate | `gate/src/runtime.rs` | the latest document and when it was received | `watch()`, `apply()`, `policy()` |
| identity limiter | `gate/src/limiter.rs` | two sharded tables of entries, global buckets, one ticket per connection | `accept()`, `event()`, `enter_status()`, `mark_admitted()`, `drop()`, `sweep()` |
| backend protection | `gate/src/backend.rs` | slots, circuit, dial bucket | `enter()`, `finish()`, `drop()` |
| connection session | `gate/src/main.rs` | semaphores, one task per connection | accept loop, `handle()`, shutdown |
| protocol framing, PROXY header | `gate/src/protocol.rs`, `incoming_proxy.rs` | the frame being read, the bytes left to a session | `read_frame()`, the parsers, `read()` |
| status cache | `gate/src/cache.rs` | the cached document and its age | `refresh()`, `get()` |
| relay | `gate/src/relay.rs` | two copy buffers, stall, half-close and idle timers, upload budget | `protected_copy()` |

How they interact. The controller samples pressure, the adaptive policy picks a
mode, and the controller tells the gate through an atomically replaced runtime
document and the kernel through the loader. Both copies carry a deadline, so a
controller that dies stops being obeyed. The gate asks the limiter several times
in the life of a connection, then backend protection before it dials. A
connection holds permits of five semaphores, reads a handshake and a login or a
status request frame by frame under deadlines, replays what it read to the
backend and becomes a relay.

What makes it hard:

- The limiter locks its two tables together in some calls and one after the
  other in others, while a sweeper removes entries.
- Clock readings are taken before locks are waited for, so buckets and
  deadlines meet instants out of order.
- Dials complete late, in any order, or are cancelled.
- The controller changes several maps, a file and a lease by separate steps,
  each of which can fail, and it can be killed between any two of them.
- A session takes and returns permits one at a time between other sessions, and
  can be aborted at any await.
- A client may encode lengths in several ways, send drop by drop, stop, or close
  one side; every wait has one or two deadlines, and some of them move.
- Generations and document deadlines come from a wall clock that can be set.
- The configuration map is overwritten in place while packets are judged.

## Modules

Definitions with a comment "Mutant: ..." are deliberately wrong variants of the
definition that follows. They are used to make sure that each property notices
such a mistake; no specification refers to them.

| Module | Models |
|---|---|
| `Limiter` | the identity limiter |
| `LimiterBudget` | `Limiter` with a history of granted calls |
| `LimiterProofs` | theorems about what `Limiter` counts and what its refusals leave alone |
| `LimiterBudgetProofs` | theorems about the budgets and penalties of `Limiter` and `LimiterBudget` |
| `Circuit` | what the circuit breaker promises (abstract) |
| `BackendProtection` | backend protection, and its refinement mapping to `Circuit` |
| `Adaptive` | the adaptive policy |
| `AdaptiveHistory` | `Adaptive` with an independent history of samples |
| `AdaptiveProofs` | theorems about `AdaptiveHistory` |
| `ControlPlane` | controller, loader, kernel maps, document and gate snapshot |
| `ControlPlaneProofs` | theorems about `ControlPlane` |
| `XdpParse` | the two packet parsers, as operators on abstract frames |
| `XdpFilter` | the XDP program and the overwriting of its configuration |
| `XdpHistory` | `XdpFilter` with a history of the configurations a packet met |
| `XdpProofs` | theorems about `XdpParse` and `XdpHistory` |
| `GateConfig` | the clauses of `Config::validate()` that the others assume |
| `GateSession` | accept loop, sessions, semaphores, cache task and shutdown |
| `GateProofs` | theorems about `BackendProtection` and `GateSession` |
| `Wire` | VarInts, frame bounds and packet parsers, as operators |
| `StatusCache` | the status cache and the lengths of its responses |
| `PrefixIndex` | the lookup in allow and block lists |
| `Ingress` | one connection up to its relay, on top of the last four |
| `Relay` | one relay |
| `Connection` | `Ingress` followed by `Relay` under one configuration |
| `StreamProofs` | theorems about `Relay`, and about the operators of `Wire`, `StatusCache` and `PrefixIndex` |
| `ConnectionProofs` | theorems about `Ingress` and `Connection` |
| `MC*` | small instances for TLC |

### Limiter

`known` and `entry` are the two tables, keyed by addresses and prefixes;
`ticket` is the `Ticket` of a task and the call it is in. An action is one
critical section. `accept()` and `event()` hold both shards and are one action
for each way out: `AcceptCapped`, `AcceptSourceLimited`, `AcceptGlobalLimited`,
`AcceptAdmit`; `EventIpLimited`, `EventPrefixLimited`, `EventGlobalLimited`,
`EventGranted`. `mark_admitted()`, `drop()` and `sweep()` are two actions each.
The calls come in the order of `handle()`. `Reading` is the set of clock
readings a call may be using when it gets its lock, up to `MaxLag` old.

Floating point tokens are integers in units of `1/One`, a mode multiplier is an
integer `Factor`. The exponential decay of a churn score is a parameter `Decay`
that never increases a score. IPv6 and IPv4 masks are the function `Subnet`.

### BackendProtection and Circuit

The variables are the fields of `State`, the free slots, and for each login
task where it is and the generation of its `Attempt`. The slot is taken before
the state lock and returned after it, so these are separate steps. A cancelled
task drops its `Attempt`, which is a failure. `Circuit` has no generations: it
keeps the set of dials it still listens to. The mapping takes as that set the
dials in flight whose generation is current.

### Adaptive

One action for each branch of `sample()`: `ExpireEmergency`, `Jump`
(immediate signals), `SampleRecovery`, `Escalate`, `Relax`. Instants are ages
that saturate at `Horizon`, which is at least every duration the code compares
them with. A signal has a small number or is missing.

### ControlPlane

`pc` is the position of the sequential controller between two effects. `Crash`
can happen everywhere, `Failed` and `PrepareFailed` stand for exceptions of
loader calls, which may have had their effect, and of file writes, which have
not. Instants are time left. `SetClock` sets the wall clock, which changes the
remaining life of documents and not the kernel's monotonic lease; a step of it is at most `MaxJump`.

Assumed about the environment: one controller at a time, the only writer of the
configuration file; its loader processes end with it (systemd kills the control
group); owned prefixes and ports are the same in all configurations.

### GateSession

`free` counts the permits left in each semaphore and `hold` is what a task
holds; `pc` is the stage of `handle()` it is in. A permit is taken or dropped in
one step: a tuple of `try_acquire_owned()` calls tries all of them before it is
matched, and the end of a scope drops one after the other, so other tasks see
every intermediate state. What limiter, circuit and client answer is open.
`Publish` replaces the policy at any time; `Cancel` is the abort of a task
after the drain's timeout.

### Wire, StatusCache, PrefixIndex

A VarInt is the sequence of its bytes, so that `VarInt` and `PutVarInt` have the
five-byte and sign rules of the code. A packet body has its length and, for each
field, the bytes of the length VarInt found there; the text rules of a host or
name are a flag. A parser is the sequence of its checks, which returns the
error of the first that fails, so the order of the code is kept. JSON documents
are lengths. An address is a number of `Width` bits.

### Ingress

One connection. `phase` is the await that `handle()` is in, `clock` has the
absolute deadline of the phase and the end of the current read's wait, `left` is
what remains of `max_initial_bytes`. A prefix is read byte by byte
(`ReadPrefix`, one disjunct for each way out of the loop of `read_frame()`), a
body in any number of pieces (`ReadPart`, then `ReadHandshake`, `ReadRequest`,
`ReadPing` or `ReadLogin` with the code up to the next await). `clock.missed`
is the check `now >= absolute` at the start of a read: a read that was waiting
may still complete at the deadline, one that begins then does not. The first
look at the policy is made at the lists of the configuration; later refusals by
policy, limiter, pools or circuit are the open choice `Refuse`, as `GateSession`
and `Limiter` model them. `trace` is kept for the properties only.

### Relay

`flow[d]` is one direction: what its source has sent, the copy buffer, the room
at its destination, its end of stream and stall timer. `Transfer` is what one
poll of tokio's `copy_bidirectional_with_sizes` does through the wrappers
`Monitored` and `Guarded`; that copy loop is external and modelled from how the
wrappers are called. `Deadline` has the timers, `Peers` what client and backend
do, `Tick` time. A woken task is polled before the next tick, and when a deadline
and a transfer are due at the same instant either may win. `history` measures
independently of the code's own variables how much was forwarded, how long a
write was blocked, and how long the client was silent.

### XdpParse, XdpFilter

A frame is its size and the header fields the program reads. `Receive` parses,
and applies the structural rules; `Lists`, `Budgeted`, `Charge` and `Judge` are
the later places where the program loads a configuration word. `Update` is the
loader's `bpf_map_update_elem()`: it begins a copy in place, `CopyWord` moves
one word. A packet therefore sees some old and some new words. The prefix and
port maps are constant here; that they change only while the lease is expired is
`LeasedMatchesCommitted` of `ControlPlane`.

## Runs

| Run | Checks |
|---|---|
| `limiter` | `Accounting`, `CapsHold`, `PenaltyKept` |
| `limiter_budgets` | `GlobalBudget`, `IdentityBudget`, `RefusalsAreFree` |
| `backend` | `SlotsConserved`, `DialBudget`, `ImplementsCircuit`, `ProbeResolves` |
| `adaptive` | `FreezeBounded`, `StagesServed`, `ModeChangesEarned`, `CalmReturnsToNormal`, `PressureIsAnswered` |
| `control_plane` | `LeasedMatchesCommitted`, `HalvesAgree`, `GateNotAhead` |
| `control_plane_liveness` | `DeadControllerFailsOpen`, `GateFollows` |
| `gate_session` | `PermitsConserved`, `SocketReserved`, `LoginsMeetOpenPolicy`, `EmergencyClears`, `PreloginReopens`, `ShutdownEnds` |
| `connection` | up to the relay: `InitialBytesBounded`, `PhaseDeadlinesAbsolute`, `AcceptablePacketsFit`, `ResponseWellFormed`, `BlockListExact`, `SessionsProceed`; in it: `UploadWithinBudget`, `CleanEndDeliversAll`, `DeadlinesExact`, `FinishedRelayEnds` |
| `xdp_filter` | `PaddingIgnored`, `SynBudget`, `DropsJustified`, `FrozenSynDropped` |
| `limiter_fresh_penalty`, `adaptive_reset`, `xdp_torn_config` | one documented statement each, which the code violates |

The type invariants (`TypeOK`, `RelayTypeOK`), `LiveTicketsKnown`,
`TablesBounded`, `SingleProbe`, `LimitsHold`, `StreamReplayed` and
`RecoveryInAttack` are in no run: they are proved for all instances (below).

What the two runs on connections show. `gate_session`: no path through a
session loses a permit, also when the task is aborted between two drops; the
sizes that `validate()` requires leave a socket for every reserved connection
and for the cache task; no login goes on to the backend on a policy read before
its handshake was accepted; all prelogin permits taken is never a final state.
`connection`: a client cannot make the gate read more than the budget, or wait
longer than the sum of the phases' deadlines, by any encoding or timing; the
bounds that size a frame before it is read agree with the parsers that accept it
afterwards; the response fits its limit for every version asked for; and each
way a relay ends has the cause it claims.

Bounds, and why they are enough:

- `limiter`: two tasks, three addresses in two prefixes, one shard with two
  places for addresses and one for prefixes. One task can be between the halves
  of a call while another accepts, and a third address finds its shard full.
  Shards do not interact, so one is enough; the theorems have any number.
  Buckets are off; readings are up to one tick old, enough for an idle entry and
  for a penalty that meets an older reading. `limiter_fresh_penalty` is the same
  instance with every penalty off.
- `limiter_budgets`: one task makes calls one after another, in two modes and
  with an exemption, for three ticks. A bucket sees only a sequence of refills
  and charges under its lock, so one task with stale readings produces the same
  sequences as many.
- `backend`: three tasks on two slots. That leaves one refused for a slot, or a
  probe beside a dial of an older wave. The threshold is two, the clock stops
  at four, twice the cooldown.
- `adaptive`: two signals, one of them required for EMERGENCY, every mode
  with bands, recovery in two stages, gaps of one or two. Ages saturate and
  nothing else is bounded.
- `control_plane`: two prefixes of which one is a bogon, and four documents,
  enough for two lives of the controller or a tick and a command with a crash
  anywhere. `control_plane_liveness` has no prefixes and lets the wall clock be
  set once, by more than a gate's tolerance or back.
- `xdp_filter`: one CPU, since CPUs share only the configuration, and a frame
  for each way through the program. A budget of three per four ticks makes the
  cost of a SYN a rounded division. `Second` scales nanoseconds.
- `gate_session`: three connections on the smallest limits that `validate()`
  admits: one session, one relay, two backend connections, four sockets. Every
  pool can be exhausted while another task is between two tries or two drops.
- `connection`: four configurations chosen so that every exit is taken: the
  smallest `max_frame` with the smallest budget, one with room for signed keys,
  incoming PROXY headers, and relays with each guard and with the upload budget
  enforced or only counted. Bodies are as long as their real bounds (a login of
  8290 bytes), lengths are encoded in one to three bytes, fields in one to five.
  Addresses have three bits; the index is used for lists of ten. Phases are one
  or two ticks, `Buffer` and `Window` two bytes.

Symmetry is used for the limiter's tasks, in runs that check only invariants and
action properties.

Fairness:

- `BackendProtection`: a task that holds a slot goes on. Its next step is a
  short lock, or a dial under the timeout `backend_ms`; a cancelled task runs
  its destructors. Tasks need not start dialing and the clock need not advance.
- `Adaptive`: samples keep coming, as `run()` ticks about once a second.
- `GateSession`: a task that can go on does, as every await before the relay has
  a deadline; a relay need not end. Dropping a refused tuple and the end of the
  drain are not delayed for ever. Accepting and refreshing are not fair.
- `Connection`: a task that was woken is polled, and time passes: weakly before
  the relay, strongly in it, where peers that never rest interrupt `Tick` again
  and again but cannot stop the clock. Peers need do nothing. In particular
  `SessionsProceed` and `FinishedRelayEnds` rest on timers alone.
- `ControlPlane`: time passes and the gate's `watch()` polls. The controller
  itself gets no fairness; it may stop anywhere.

## Where code and documentation differ

1. `limiter_fresh_penalty`. `docs/DESIGN.md` says a penalty is added "only when
   configured". A new entry's `penalty_until` is its creator's clock reading; a
   task that read the clock before and gets the lock after is refused as if
   penalised. The refusal needs two connections of a source within one lock
   wait and lasts no longer than that.
2. `adaptive_reset`. `docs/PRESSURE_POLICY.md` says worsening pressure resets
   recovery to stage one. A sample at the EMERGENCY bands is counted by
   `_escalate()` and the stage's timer goes on.
3. `xdp_torn_config`. A comment in `xdp_ddos.bpf.c` says expiry and observe mode
   fail open. While an expired enforcing configuration is overwritten by an
   observing one with a new lease, a packet can see the new lease with the old
   observe flag, and is dropped.

A fourth difference is recorded without a run. `docs/RESILIENCE.ko.md` describes
`client_idle_ms` as closing relays on which the client sends nothing. The gate
measures what it reads. While the backend does not read and the copy buffer is
full it reads nothing, so that a client that does send is cut as idle, unless
`relay_stall_ms` is shorter. `DeadlinesExact` is stated in terms of what is read.
`docs/CONFIGURATION.md` says the protocol number of a status is replaced when
the document contains one; `Prepared` inserts it into every `version` object.

Three more observations, which contradict no document: `idle_entry_seconds` may
be configured below `burst / rate`, and then `IdleAssumption` of `LimiterBudget`
fails and an evicted source is given a full bucket early; a configuration with
EMERGENCY bands and no ATTACK bands never relaxes from ATTACK; samples that
alternate between two targets are never confirmed.

## Proofs

All theorems hold for every value of the constants that satisfies the named
assumptions of the component's module.

`LimiterProofs` (from `KeyAssumption`, `LimitAssumption`, `RateAssumption`):
`TypeCorrect`, `CountersAreExact` (`Accounting`) and `TicketsKeepTheirEntries`
(`LiveTicketsKnown`). None of the three is inductive alone. That counters do
not go below zero needs `Accounting`; that a decrement finds its entry needs
`LiveTicketsKnown`; that `sweep()` spares a held entry needs `Accounting` again,
because it looks only at `active`; and that `pending` is decremented once needs
`AdmittingOnce`. Their conjunction `Inductive` is preserved by every action. The
argument for a counter is that each action moves one task in or out of one of
the sets `ActiveOn`, `PendingOn`, `StatusOn`, and changes the counter by one.

`CapsAlwaysHold` and `TablesStayBounded` follow. With `Accounting`, the
comparison of a counter with its cap is a comparison of the number of tasks. The
tables grow only in `AcceptAdmit`, behind `ShardFull`, by one key per table.

`RefusalsTakeNothing`: in every step a bucket loses tokens only to a grant of its
own event or to the smaller burst of a stricter mode. A refused accept() or
event() refills the scopes that it asked before the one that refused, and takes
nothing from any of them.

`LimiterBudgetProofs` is about budgets and penalties:

- `GlobalBudgetHolds` and `IdentityBudgetHolds` (from `IdleAssumption`, which the
  second one needs). `Funded` says that the tokens spent and the tokens left come from the
  burst and from the refill up to the bucket's own clock, `last`. A refill with an
  old reading moves neither, so the order of readings does not matter, and since
  `last` is never ahead of `now` the budget follows. For an address or a prefix the
  entry may be evicted, which forgets tokens that were spent. `Banked` adds that no
  bucket was refilled later than `MaxLag` after the entry was touched; hence an
  entry that is swept has been idle long enough to have earned a full bucket
  (`Earned`), and a new one gives nothing away. `ReadingsFresh`, that the readings
  that drop() and sweep() carry are at most `MaxLag` old, is needed for that.
- `PenaltiesAreKept`: no step brings the end of a penalty forward by more than the
  age of a reading, from `ReadingsFresh` and `PenaltiesBounded`.

`GateProofs`, on backend protection (from `ProtectionAssumption`):
`BackendTypeCorrect`, `ProbeIsSingle`, `SlotsAreConserved`, `DialsWithinBudget`,
and `Refinement`, that `BackendSpec` implies `Circuit`'s specification.
`BackendInductive` adds to the properties that generations
in use were handed out (so a new generation has an empty wave), that a disabled
circuit stays closed, that instants are in the past, and `CreditEarned`: tokens
left plus dials made never exceed what was earned up to `last`. This is what
makes `DialBudget` survive readings out of order.

On the sessions (from `SessionAssumption`): `TypeCorrect`,
`PermitsAreConserved`, `LimitsAlwaysHold`, `SocketsAreReserved`,
`LoginsAreFresh`, for any number of connections. `Inductive` adds `HoldsMatch`
(what a task holds follows from its stage), `AcceptorMatches`, and `OpenNoted`.
Conservation is proved once for taking and once for dropping a permit; limits
and the socket reserve then follow by counting, from `ValidSockets`.

`StreamProofs`, on the relay (from `RelayAssumption`): `RelayTypeCorrect`,
`UploadIsBounded`, `CleanEndIsComplete`, and `DeadlinesAreExact` from
`HalfCloseIsAbsolute`, `StallsAreReal` and `IdleIsExact`, for any deadlines,
rates, buffers and windows. Each property has an invariant that ties the code's
variable to the independent history: credit plus what is metered never exceeds
the burst; a direction that is done has read its end and has an empty buffer;
what is left of the half-close window plus the time since the first end of
stream is the window; a stall timer plus the time blocked is `relay_stall_ms`;
`last_ms` is as old as the client's silence, and the sleeper never oversleeps it.

On the operators, for all arguments:

- `LengthsAreReadBack`: `varint()` reads what `put_varint()` writes, for every
  length below 2^28, and takes exactly its bytes. `PaddedReads` says the same of
  the longer encoding. The shifts of the loop have names (`Q2` to `Q5`), which
  makes the claim one of linear arithmetic on four digits rather than an induction.
- `IndexIsExact`: the index answers as a scan of the list, for any list and
  width.
- `HandshakesFit`, `LoginsFit`: a packet that its parser accepts is no longer
  than the bound computed before it is read, or is longer than `max_frame`; for
  every schema, every encoding of up to five bytes and every field length.

`ConnectionProofs`, on the way to the relay (from `WidthAssumption`,
`CacheAssumption`, `ClientAssumption` and `ConfigAssumption` too; the last three
say that documents and packets have lengths, that a VarInt has up to five bytes
and that a stray prefix begins with no length):

- `InitialBytesAreBounded`: `ReaderInv` says that what is being read is a prefix of
  a frame of the phase, so that the length found in it is that of the body.
  `BytesInv` adds up what was taken, what is still to come of the open body and
  what is left of the budget; the sum never exceeds the budget, with the header.
- `AcceptablePacketsAreRead`: an Oversized that is returned before the body is read
  compares the length with a bound that `HandshakesFit`, `LoginsFit` and
  `ShortLengths` show to be large enough, or with what is left of the session's
  budget. `FitInv` carries the body it was returned for, and that the first frame
  still has the whole budget, which validate() makes larger than any frame.
- `ResponsesAreWellFormed`: `ResponseInv` says that the cached document passed
  `Prepared`, as the fallback did in validate(). A version has at most ten digits,
  `WireSize` grows with the text, and so a text rendered for any version fits;
  `SizeAsPut`, that `varint_size()` is the length of what `put_varint()` writes,
  turns the computed size into the size of the bytes.
- `BlockListIsExact` lifts `IndexIsExact` to the steps of a connection.
- `PhasesAreAbsolute`: from `ClockInv`, that age plus what is left of the
  deadline never exceeds the allowance of the phase.
- `StreamIsReplayed`: from `StreamInv`, that the frames kept are the frames
  read: the backend gets the client's own bytes.
- `ConnectionRelays`: the composition implements `Relay`, and so
  `ConnectionsRelaySafely` carries the theorems on relays over to connections.

`AdaptiveProofs` (from `SignalAssumption` and `IntervalAssumption`, which
`validate()` enforces): `AdaptiveTypes`, `RecoveryStaysInAttack`,
`FreezeIsBounded`, `StagesAreServed` and `ModeChangesAreEarned`, for any signals,
bands, stages and intervals, and any spacing of samples up to `MaxGap`. The
invariant relates the policy's timers and counters to the history of samples: in EMERGENCY the age of
the mode is the age of the freeze (`FreezeInv`); the rest since a freeze and
what is left of the block add up to at least the rearm time (`RestInv`); `up`
and `down` never run ahead of the agreeing and the calm samples (`CountInv`);
and the time since the recovery (re)started covers the stages before the present
one and the age of that one (`StageInv`). That the sums of the stages grow is an
induction, made by looking at the least counterexample.

`ControlPlaneProofs` (from `PlaneAssumption`): `PlaneTypes`,
`LeaseCoversCommittedMaps`, `FilterAndGateAgree` and `DocumentsCatchUp`, for any
prefixes, configurations, leases and tolerances, and any bounds on generations
and clock jumps. `LeasedMatchesCommitted` says nothing of the many states
without a lease from which one is given; `PolicyInv` adds where no lease may run,
that the maps are settled wherever one may be given, and that what is still to
do of a reconciliation or a command leads from the present maps to the wanted
ones (`Settling`), whatever part of it was done before a failure. `AgreeInv`
says the same of document and mode, `GenerationInv` that the controller counts
on from the newest generation.

`NothingElseProlongs` and `PoliciesRunOut` are the argument behind
`DeadControllerFailsOpen`, with its bound. `Expires(n)` says that the lease, the
document and the gate's copy have at most n seconds to live. Unless the wall clock
is set, every step keeps it but those of publish() and the lease() after it; a
second turns `Expires(n + 1)` into `Expires(n)`; `Expires(lease_seconds)` always
holds; and under `Expires(0)` neither half enforces. So a controller that is
killed, or that restarts again and again without reaching a tick, leaves traffic
passing after `lease_seconds`. That the seconds do pass is fairness, and left to
TLC; the run also covers a clock that is set, under which the bound is not claimed.

`XdpProofs` (from `FilterAssumption`): for any number of CPUs, frames, sources,
policies and any clock, while the configuration is being copied:

- `ParsersIgnorePadding`, on every frame, and `PaddingNeverMatters` from it.
- `EveryDropIsJustified`: `PacketInv` says what a packet has shown by the stage
  it has reached. That a frozen SYN carries no other flag comes from the
  parser's check of SYN against FIN and RST; that no structural reason meets a
  protected port from the rule that a port is not both.
- `EmergencyStopsSyns`: `FrozenInv`, that every configuration in place freezes;
  then each word does, whichever of the two values it comes from.
- `SynsWithinBudget`: `BudgetInv`, that the cost of what was let through plus
  the credit left never exceed a full bucket and the time since it was full. The
  rounded cost times the rate is at least a second, which turns time into the
  rate. `Ordered`, that a bucket was last charged before the packet arrived that
  is charged next, is what keeps the unsigned difference from wrapping.
- `FilterTypes`.

Only model-checked: liveness, which is outside the prover's reach:
`ProbeResolves`, `CalmReturnsToNormal`, `PressureIsAnswered`,
`DeadControllerFailsOpen`, `GateFollows`, `EmergencyClears`, `PreloginReopens`,
`ShutdownEnds`, `SessionsProceed` and `FinishedRelayEnds`. Every other property of
a passing run is also a theorem.

## Not modelled

- Metrics, logging and history storage: nothing reads them back to decide. The
  same holds for the packet counters of the XDP program.
- Parsing and defaults of the configuration, and the clauses of `validate()` on
  addresses and table sizes: static checks without state. The clauses that other
  parts rely on are in `GateConfig`.
- The text of JSON documents, hosts, names and PROXY addresses: character rules
  that a unit test covers; they appear as flags and lengths.
- The backend's answer to `poll()` is modelled as a document that passes or not;
  its framing is that of `Wire`.
- `attach`, `detach`, `validate` and `status` of the loader, and the commands
  that use them: they talk to the kernel's link interface, whose behaviour is not
  in the repository.
- Installation and operations scripts: one-shot tools.
- All components in one state space: `GateSession` leaves open what `Limiter`,
  `BackendProtection` and `Ingress` decide, which covers every composition of
  them; the product is beyond TLC.
