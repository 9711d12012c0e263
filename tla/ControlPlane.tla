---------------------------- MODULE ControlPlane ----------------------------
(***************************************************************************)
(* The control plane: the controller process (controller/ddosctl.py), the  *)
(* loader it runs (xdp/loader.c), the kernel maps, the runtime document,   *)
(* and the gate's copy of it (gate/src/runtime.rs).                        *)
(*                                                                         *)
(* The controller is sequential, so pc says where it is between two        *)
(* effects.  It can be killed anywhere.  A loader call that fails or times *)
(* out may have had its effect; a failed atomic() has not.  Instants are   *)
(* kept as time left, and generations as their order.                      *)
(*                                                                         *)
(* owned prefixes and ports are the same in every configuration and are    *)
(* left out.  A prefix stands for the sources it matches.                  *)
(***************************************************************************)
EXTENDS Integers, Sequences, FiniteSets

CONSTANTS
  Prefix,            \* source prefixes
  Bogon,             \* bogon_prefixes
  Mode,              \* modes the adaptive policy can be in
  Lease,             \* lease_seconds
  Receipt,           \* the gate's limit on the age of a document
  Ahead,             \* the gate's limit on a document's remaining life
  Jumps,             \* amounts the wall clock may be set by
  MaxJump,           \* the largest of them, either way
  MaxJumps,          \* bound on how often it is set
  MaxGeneration      \* bound on the documents published

AutoMode == -1      \* manual_mode "auto", among the indices of MODES

MANUAL_BLOCK_REASON == 11
BOGON_REASON == 5
PREFIX_MARKER == 1
Reason == {0, PREFIX_MARKER, BOGON_REASON, MANUAL_BLOCK_REASON}

Config ==
  [observe : BOOLEAN, manual : Mode \cup {AutoMode}, allow : SUBSET Prefix,
   block : SUBSET Prefix]

Maps == [{"allow", "block"} -> [Prefix -> Reason]]

Largest(S) == CHOOSE n \in S : \A m \in S : m <= n

\* How long an expired document has to be remembered: until no later clock
\* change can bring it back.
Floor == -(MaxJumps * MaxJump)
Ceiling == Lease - Floor
Left == Floor..Ceiling

ASSUME PlaneAssumption ==
  /\ IsFiniteSet(Prefix) /\ Bogon \subseteq Prefix
  /\ 0 \in Mode /\ Mode \subseteq 0..3
  /\ {Lease, MaxJump, MaxJumps, MaxGeneration} \subseteq Nat
  /\ 0 < Lease /\ Lease <= Receipt /\ Receipt \in Nat
  /\ Lease <= Ahead /\ Ahead \in Nat
  /\ Jumps \subseteq -MaxJump..MaxJump

None == [generation |-> -1]

Document ==
  [generation : 1..MaxGeneration, left : Left, mode : Mode, observe : BOOLEAN,
   allow : SUBSET Prefix, block : SUBSET Prefix]

Snapshot == [wire : Document, age : 0..(Receipt + 1)]

VARIABLES
  pc,        \* where the controller is
  cfg,       \* self.cfg
  next,      \* the configuration a command is applying
  todo,      \* map updates still to do, as a sequence of sets
  mode, adaptive, generation,    \* self.mode, self.adaptive.mode, self.generation
  disk,      \* the configuration file
  pins,      \* what is pinned: "none", "maps", "program"
  kernel,    \* the configuration map
  maps,      \* the allow and block maps
  file,      \* the runtime document
  gate,      \* the gate's snapshot of it
  clock      \* [latest: newest generation ever issued, jumps, back]

controller == <<pc, cfg, next, todo, mode, adaptive, generation>>
vars == <<controller, disk, pins, kernel, maps, file, gate, clock>>

-----------------------------------------------------------------------------
(* Policies in their three forms *)

\* loader_policy(): a manual block overrides a bogon entry.
LoaderPolicy(c) ==
  [m \in {"allow", "block"} |->
    [p \in Prefix |->
      IF m = "allow" THEN (IF p \in c.allow THEN PREFIX_MARKER ELSE 0)
      ELSE IF p \in c.block THEN MANUAL_BLOCK_REASON
      ELSE IF p \in Bogon THEN BOGON_REASON ELSE 0]]

\* Mutant: the gate is not told of the bogons.
RuntimeDocumentManual(c, g, left, m) ==
  [generation |-> g, left |-> left, mode |-> m, observe |-> c.observe,
   allow |-> c.allow, block |-> c.block]

\* runtime_document()
RuntimeDocument(c, g, left, m) ==
  [generation |-> g, left |-> left, mode |-> m, observe |-> c.observe,
   allow |-> c.allow, block |-> c.block \cup Bogon]

NoMaps == [m \in {"allow", "block"} |-> [p \in Prefix |-> 0]]

Op(m, p, v) == [map |-> m, prefix |-> p, value |-> v]

\* The loader's policy command: clear each map, then fill it.
ReconcileOps(c) ==
  LET Clear(m) == {Op(m, p, 0) : p \in {q \in Prefix : maps[m][q] # 0}}
      Fill(m) == {Op(m, p, LoaderPolicy(c)[m][p]) :
                    p \in {q \in Prefix : LoaderPolicy(c)[m][q] # 0}}
  IN  <<Clear("allow"), Fill("allow"), Clear("block"), Fill("block")>>

\* command(): only the differences, of which a command makes at most one,
\* restoring a bogon under a removed block.
CommandOps(old, new) ==
  <<{Op("allow", p, 0) : p \in old.allow \ new.allow},
    {Op("allow", p, PREFIX_MARKER) : p \in new.allow \ old.allow},
    {Op("block", p, 0) : p \in old.block \ new.block},
    {Op("block", p, BOGON_REASON) : p \in (old.block \ new.block) \cap Bogon},
    {Op("block", p, MANUAL_BLOCK_REASON) : p \in new.block \ old.block}>>

\* The configurations one command can ask for.
Commanded(c) ==
  {[c EXCEPT !.manual = m] : m \in Mode \cup {AutoMode}}
    \cup {[c EXCEPT !.observe = b] : b \in BOOLEAN}
    \cup {[c EXCEPT !.allow = @ \cup {p}] : p \in Prefix}
    \cup {[c EXCEPT !.allow = @ \ {p}] : p \in Prefix}
    \cup {[c EXCEPT !.block = @ \cup {p}] : p \in Prefix}
    \cup {[c EXCEPT !.block = @ \ {p}] : p \in Prefix}

ModeOf(c, auto) == IF c.manual = AutoMode THEN auto ELSE c.manual

\* What loader("config", ...) writes for lease().
Configured(left, c, m) == [lease |-> left, observe |-> c.observe, mode |-> m]

-----------------------------------------------------------------------------
Init ==
  /\ pc = "down"
  /\ disk \in Config /\ disk.allow = {} /\ disk.block = {}
  /\ cfg = disk /\ next = disk /\ todo = << >>
  /\ mode = 0 /\ adaptive = 0 /\ generation = 0
  /\ pins = "none"
  /\ kernel = Configured(0, disk, 0) /\ maps = NoMaps
  /\ file = None /\ gate = None
  /\ clock = [latest |-> 0, jumps |-> 0, back |-> FALSE]

\* Nothing of the process survives its end.
Gone ==
  /\ pc' = "down"
  /\ cfg' = disk /\ next' = disk /\ todo' = << >>
  /\ mode' = 0 /\ adaptive' = 0 /\ generation' = 0

\* SIGKILL, or SIGTERM before its handler is installed.
Crash ==
  /\ pc # "down"
  /\ Gone
  /\ UNCHANGED <<disk, pins, kernel, maps, file, gate, clock>>

\* Mutant: generations are counted from the start of the process.
GenerationsFromZero == {0}

\* time_ns() is beyond every generation issued so far, unless the wall clock
\* has been set back.
FirstGenerations == {clock.latest} \cup (IF clock.back THEN 0..clock.latest ELSE {})

\* read_config() and Controller.__init__()
Start ==
  /\ pc = "down"
  /\ clock.latest < MaxGeneration - 1
  /\ pc' = IF pins = "program" THEN "expire" ELSE "load"
  /\ cfg' = disk /\ next' = disk
  /\ generation' \in FirstGenerations
  /\ UNCHANGED <<todo, mode, adaptive, disk, pins, kernel, maps, file, gate, clock>>

\* The loader pins the maps, then the program.  Maps that an interrupted load
\* left behind make the next one fail.
LoadMaps ==
  /\ pc = "load" /\ pins = "none"
  /\ pins' = "maps" /\ pc' = "pin"
  /\ UNCHANGED <<cfg, next, todo, mode, adaptive, generation, disk, kernel,
                 maps, file, gate, clock>>

LoadProgram ==
  /\ pc = "pin"
  /\ pins' = "program" /\ pc' = "expire"
  /\ UNCHANGED <<cfg, next, todo, mode, adaptive, generation, disk, kernel,
                 maps, file, gate, clock>>

\* A failure of prepare() ends the process without cleanup().
PrepareFailed ==
  /\ pc \in {"load", "pin", "expire", "policy", "reconcile"}
  /\ Gone
  /\ kernel' \in {kernel} \cup (IF pc = "expire" THEN {Configured(0, cfg, mode)} ELSE {})
  /\ UNCHANGED <<disk, pins, maps, file, gate, clock>>

-----------------------------------------------------------------------------
(* prepare() *)

\* lease(0) before the maps are touched.
PrepareExpire ==
  /\ pc = "expire"
  /\ kernel' = Configured(0, cfg, mode)
  /\ pc' = "policy"
  /\ UNCHANGED <<cfg, next, todo, mode, adaptive, generation, disk, pins, maps,
                 file, gate, clock>>

\* The loader's policy command insists on it.
PolicyBegin ==
  /\ pc = "policy"
  /\ kernel.lease = 0
  /\ todo' = ReconcileOps(cfg)
  /\ pc' = "reconcile"
  /\ UNCHANGED <<cfg, next, mode, adaptive, generation, disk, pins, kernel, maps,
                 file, gate, clock>>

\* One map update, by the policy command or by a loader call of command().
UpdateMap ==
  /\ pc \in {"reconcile", "update"}
  /\ todo # << >> /\ Head(todo) # {}
  /\ \E op \in Head(todo) :
       /\ maps' = [maps EXCEPT ![op.map][op.prefix] = op.value]
       /\ todo' = [todo EXCEPT ![1] = @ \ {op}]
  /\ UNCHANGED <<pc, cfg, next, mode, adaptive, generation, disk, pins, kernel,
                 file, gate, clock>>

NextUpdates ==
  /\ pc \in {"reconcile", "update"}
  /\ todo # << >> /\ Head(todo) = {}
  /\ todo' = Tail(todo)
  /\ pc' = IF Len(todo) > 1 THEN pc
           ELSE IF pc = "reconcile" THEN "first" ELSE "persist"
  /\ UNCHANGED <<cfg, next, mode, adaptive, generation, disk, pins, kernel,
                 maps, file, gate, clock>>

-----------------------------------------------------------------------------
(* run(): tick(), command(), a signal.  The first tick precedes commands.  *)

Tick(m) ==
  /\ pc \in {"first", "loop"}
  /\ generation < MaxGeneration - 1
  /\ adaptive' = m /\ mode' = ModeOf(cfg, m)
  /\ pc' = "publish"
  /\ UNCHANGED <<cfg, next, todo, generation, disk, pins, kernel, maps, file,
                 gate, clock>>

Command(c) ==
  /\ pc = "loop"
  /\ generation < MaxGeneration - 1
  /\ next' = c
  /\ pc' = "lapse"
  /\ UNCHANGED <<cfg, todo, mode, adaptive, generation, disk, pins, kernel,
                 maps, file, gate, clock>>

\* Mutant: the maps are updated under a running lease.
CommandLeased ==
  /\ pc = "lapse"
  /\ todo' = CommandOps(cfg, next)
  /\ pc' = "update"
  /\ UNCHANGED <<cfg, next, mode, adaptive, generation, disk, pins, kernel, maps,
                 file, gate, clock>>

\* command() expires the lease under the old configuration.
CommandExpire ==
  /\ pc = "lapse"
  /\ kernel' = Configured(0, cfg, mode)
  /\ todo' = CommandOps(cfg, next)
  /\ pc' = "update"
  /\ UNCHANGED <<cfg, next, mode, adaptive, generation, disk, pins, maps, file,
                 gate, clock>>

Persist ==
  /\ pc = "persist"
  /\ disk' = next /\ cfg' = next
  /\ mode' = ModeOf(next, adaptive)
  /\ pc' = "publish"
  /\ UNCHANGED <<next, todo, adaptive, generation, pins, kernel, maps, file,
                 gate, clock>>

\* publish(): the generation is taken before the file is written.
TakeGeneration ==
  /\ generation' = generation + 1
  /\ clock' = [clock EXCEPT !.latest = Largest({@, generation + 1})]

Publish ==
  /\ pc = "publish"
  /\ TakeGeneration
  /\ file' = RuntimeDocument(cfg, generation + 1, Lease, mode)
  /\ pc' = "renew"
  /\ UNCHANGED <<cfg, next, todo, mode, adaptive, disk, pins, kernel, maps, gate>>

\* lease(): the deadline is computed before the loader runs, and the call
\* takes up to d.
Renew(d) ==
  /\ pc = "renew"
  /\ kernel' = Configured(Lease - d, cfg, mode)
  /\ pc' = "loop"
  /\ UNCHANGED <<cfg, next, todo, mode, adaptive, generation, disk, pins, maps,
                 file, gate, clock>>

\* An exception out of tick() or inside command(): the loop is left for good.
\* A loader call that raised may have had its effect.
Failed ==
  /\ pc \in {"lapse", "update", "persist", "publish", "renew"}
  /\ \/ UNCHANGED kernel
     \/ pc = "lapse" /\ kernel' = Configured(0, cfg, mode)
     \/ pc = "renew" /\ kernel' = Configured(Lease, cfg, mode)
  /\ IF pc = "publish" THEN TakeGeneration ELSE UNCHANGED <<generation, clock>>
  /\ pc' = "cleanup"
  /\ UNCHANGED <<cfg, next, todo, mode, adaptive, disk, pins, maps, file,
                 gate>>

\* SIGTERM sets stopping, which the loop tests.
Terminate ==
  /\ pc \in {"first", "loop"}
  /\ pc' = "cleanup"
  /\ UNCHANGED <<cfg, next, todo, mode, adaptive, generation, disk, pins,
                 kernel, maps, file, gate, clock>>

\* cleanup(): publish an expired document, then expire the lease, whether or
\* not the first one worked.
CleanupPublish ==
  /\ pc = "cleanup"
  /\ TakeGeneration
  /\ file' \in {file, RuntimeDocument(cfg, generation + 1, 0, mode)}
  /\ pc' = "retire"
  /\ UNCHANGED <<cfg, next, todo, mode, adaptive, disk, pins, kernel, maps, gate>>

CleanupExpire ==
  /\ pc = "retire"
  /\ kernel' \in {kernel, Configured(0, cfg, mode)}
  /\ Gone
  /\ UNCHANGED <<disk, pins, maps, file, gate, clock>>

-----------------------------------------------------------------------------
(* The gate *)

\* Mutant: an expired document is not taken over.
AppliesUnexpired ==
  /\ file # None
  /\ file.left > 0 /\ file.left <= Ahead
  /\ gate # None => file.generation > gate.wire.generation

\* apply() replaces the snapshot by a document of a newer generation, expired
\* or not, that does not claim to live too long.
Applies ==
  /\ file # None
  /\ file.left <= Ahead
  /\ gate # None => file.generation > gate.wire.generation

\* watch() reads the file once a second.
GateRead ==
  /\ Applies
  /\ gate' = [wire |-> file, age |-> 0]
  /\ UNCHANGED <<controller, disk, pins, kernel, maps, file, clock>>

GateRestart ==
  /\ gate # None
  /\ gate' = None
  /\ UNCHANGED <<controller, disk, pins, kernel, maps, file, clock>>

-----------------------------------------------------------------------------
(* Time *)

Bounded(n) == IF n < Floor THEN Floor ELSE IF n > Ceiling THEN Ceiling ELSE n

Shifted(d) ==
  /\ file' = IF file = None THEN None ELSE [file EXCEPT !.left = Bounded(@ + d)]
  /\ gate' = IF gate = None THEN None ELSE [gate EXCEPT !.wire.left = Bounded(@ + d)]

\* Mutant: the lease is a flag, not a deadline.
CountdownNever(lease) == lease

\* result() compares lease_ns with the monotonic clock.
Countdown(lease) == IF lease > 0 THEN lease - 1 ELSE 0

Second ==
  /\ kernel' = [kernel EXCEPT !.lease = Countdown(@)]
  /\ file' = IF file = None THEN None ELSE [file EXCEPT !.left = Bounded(@ - 1)]
  /\ gate' = IF gate = None THEN None
             ELSE [wire |-> [gate.wire EXCEPT !.left = Bounded(@ - 1)],
                   age |-> IF gate.age <= Receipt THEN gate.age + 1 ELSE gate.age]
  /\ UNCHANGED <<controller, disk, pins, maps, clock>>

\* The wall clock is set by j: documents gain or lose life, the kernel's
\* monotonic lease does not.
SetClock(j) ==
  /\ clock.jumps < MaxJumps
  /\ clock' = [clock EXCEPT !.jumps = @ + 1, !.back = @ \/ j < 0]
  /\ Shifted(-j)
  /\ UNCHANGED <<controller, disk, pins, kernel, maps>>

Prepare == Start \/ LoadMaps \/ LoadProgram \/ PrepareExpire \/ PolicyBegin \/ UpdateMap \/ NextUpdates

Serve ==
  \/ \E m \in Mode : Tick(m)
  \/ \E c \in Commanded(cfg) : Command(c)
  \/ CommandExpire \/ Persist \/ Publish
  \/ \E d \in 0..Lease : Renew(d)

End == Failed \/ PrepareFailed \/ Terminate \/ CleanupPublish \/ CleanupExpire \/ Crash

Next ==
  \/ Prepare \/ Serve \/ End
  \/ GateRead \/ GateRestart
  \/ Second
  \/ \E j \in Jumps : SetClock(j)

Spec == Init /\ [][Next]_vars

\* Time passes, and the gate's watch() task polls for as long as it lives.
FairSpec == Spec /\ WF_vars(Second) /\ WF_vars(GateRead)

-----------------------------------------------------------------------------
(* Properties *)

\* Every variable keeps its type; a map entry carries one reason of shared.h.
TypeOK ==
  /\ pc \in {"down", "load", "pin", "expire", "policy", "reconcile", "first", "loop", "lapse",
             "update", "persist", "publish", "renew", "cleanup", "retire"}
  /\ {cfg, next, disk} \subseteq Config
  /\ todo \in Seq(SUBSET [map : {"allow", "block"}, prefix : Prefix, value : Reason])
  /\ {mode, adaptive} \subseteq Mode
  /\ generation \in 0..MaxGeneration
  /\ pins \in {"none", "maps", "program"}
  /\ kernel \in [lease : 0..Lease, observe : BOOLEAN, mode : Mode]
  /\ maps \in Maps
  /\ file \in Document \cup {None}
  /\ gate \in Snapshot \cup {None}
  /\ clock \in [latest : 0..MaxGeneration, jumps : 0..MaxJumps, back : BOOLEAN]

\* The maps are rewritten entry by entry, by loader processes that can fail,
\* under a controller that can be killed: whenever the kernel's lease runs,
\* they hold exactly the configuration that is on disk.
LeasedMatchesCommitted ==
  kernel.lease > 0 => /\ maps = LoaderPolicy(disk)
                      /\ kernel.observe = disk.observe
                      /\ disk.manual # AutoMode => kernel.mode = disk.manual

KernelBlocks(p) == ~kernel.observe /\ maps["allow"][p] = 0 /\ maps["block"][p] # 0
DocumentBlocks(p) == ~file.observe /\ p \notin file.allow /\ p \in file.block

\* Between two ticks the packet filter and the gate are told the same: one
\* mode, and one verdict on every source.
HalvesAgree ==
  pc = "loop" /\ kernel.lease > 0 =>
    /\ file # None /\ file.mode = kernel.mode
    /\ \A p \in Prefix : KernelBlocks(p) <=> DocumentBlocks(p)

\* As long as the wall clock is not set back, a restarted controller never
\* publishes under a generation the gate has already gone past.
GateNotAhead == ~clock.back /\ gate # None => file # None /\ file.generation >= gate.wire.generation

GateEnforces ==
  gate # None /\ gate.age <= Receipt /\ gate.wire.left > 0 /\ ~gate.wire.observe

\* When the controller stays down, the kernel and the gate both fall back to
\* passing traffic, even if the gate restarts and reads the old document again.
DeadControllerFailsOpen ==
  <>[](pc = "down") => <>[](kernel.lease = 0 /\ ~GateEnforces)

\* Every published document reaches a gate that polls, or a newer one does,
\* as long as the wall clock is not set back.
GateFollows ==
  \A g \in 1..MaxGeneration :
    (file # None /\ file.generation = g) ~>
      (clock.back \/ (gate # None /\ gate.wire.generation >= g))
=============================================================================
