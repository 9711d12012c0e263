------------------------- MODULE BackendProtection -------------------------
(***************************************************************************)
(* Protection of the backend (gate/src/backend.rs): a slot semaphore, a    *)
(* circuit breaker with generations, and a token bucket for dials, used by *)
(* concurrent login tasks (gate/src/main.rs, handle()).                    *)
(*                                                                         *)
(* enter() takes a slot, then the state lock; on return None the lock is   *)
(* released before the slot.  An Attempt updates the state first and       *)
(* returns its slot when it is dropped.  Slot and state are thus changed   *)
(* in different steps.  A dial always completes: it runs under backend_ms, *)
(* and a cancelled task drops its Attempt, which counts as a failure.      *)
(***************************************************************************)
EXTENDS Integers, FiniteSets, GateConfig

CONSTANTS
  Dialers,      \* login tasks
  Slots,        \* max_connecting, or backend_slots when it is 0
  Threshold,    \* failure_threshold, 0 disables the circuit
  Cooldown,     \* cooldown_ms
  Rate, Burst,  \* attempts.per_second and attempts.burst, 0 disables
  MaxLag,       \* age of a clock reading when its lock is obtained
  MaxTime       \* bound on the clock

\* Config::validate()
ASSUME ProtectionAssumption ==
  /\ IsFiniteSet(Dialers)
  /\ Slots \in Nat \ {0}
  /\ ValidCircuit(Threshold, Cooldown) /\ ValidRate(Rate, Burst)
  /\ MaxLag \in Nat /\ MaxTime \in Nat

VARIABLES
  now,          \* the monotonic clock
  failures, generation, retryAt, probing, tokens, last,   \* State
  freeSlots,    \* permits left in slots
  dialer,       \* where each task is, its Attempt's generation, its reading
  dials         \* budgeted dials made so far

circuit == <<failures, generation, retryAt, probing>>
bucket == <<tokens, last, dials>>
backendVars == <<now, circuit, bucket, freeSlots, dialer>>

NoRetry == -1     \* retry_at: None

Idle == [pc |-> "idle", gen |-> 0, at |-> 0]

BackendInit ==
  /\ now = 0
  /\ failures = 0 /\ generation = 0 /\ retryAt = NoRetry /\ probing = FALSE
  /\ tokens = Burst /\ last = 0 /\ dials = 0
  /\ freeSlots = Slots
  /\ dialer = [d \in Dialers |-> Idle]

-----------------------------------------------------------------------------
(* enter() *)

\* The caller reads the clock and try_acquire_owned() succeeds.  When it fails
\* enter() returns without touching anything.
TakeSlot(d) ==
  /\ dialer[d].pc = "idle"
  /\ freeSlots > 0
  /\ freeSlots' = freeSlots - 1
  /\ dialer' = [dialer EXCEPT ![d] = [pc |-> "slotted", gen |-> 0, at |-> now]]
  /\ UNCHANGED <<now, circuit, bucket>>

CircuitRefuses(t) == retryAt # NoRetry /\ (t < retryAt \/ probing)

Refilled(t) ==
  LET elapsed == IF t > last THEN t - last ELSE 0
      sum == tokens + elapsed * Rate
  IN  IF sum < Burst THEN sum ELSE Burst

\* Mutant: an older reading sets the bucket's clock back.
LaterReading(t) == t

Later(t) == IF t > last THEN t ELSE last

Releasing(d) == [dialer EXCEPT ![d] = [pc |-> "releasing", gen |-> 0, at |-> 0]]

\* Mutant: the slot is lost.
EnterOpenLeaks(d) ==
  /\ dialer[d].pc = "slotted"
  /\ CircuitRefuses(dialer[d].at)
  /\ dialer' = [dialer EXCEPT ![d] = Idle]
  /\ UNCHANGED <<now, circuit, bucket, freeSlots>>

EnterOpen(d) ==
  /\ dialer[d].pc = "slotted"
  /\ CircuitRefuses(dialer[d].at)
  /\ dialer' = Releasing(d)
  /\ UNCHANGED <<now, circuit, bucket, freeSlots>>

EnterNoToken(d) ==
  LET t == dialer[d].at IN
  /\ dialer[d].pc = "slotted"
  /\ ~CircuitRefuses(t)
  /\ Rate > 0 /\ Refilled(t) < 1
  /\ tokens' = Refilled(t) /\ last' = Later(t)
  /\ dialer' = Releasing(d)
  /\ UNCHANGED <<now, circuit, dials, freeSlots>>

EnterGranted(d) ==
  LET t == dialer[d].at IN
  /\ dialer[d].pc = "slotted"
  /\ ~CircuitRefuses(t)
  /\ IF Rate > 0
     THEN /\ Refilled(t) >= 1
          /\ tokens' = Refilled(t) - 1 /\ last' = Later(t) /\ dials' = dials + 1
     ELSE UNCHANGED bucket
  /\ probing' = (probing \/ retryAt # NoRetry)
  /\ dialer' = [dialer EXCEPT ![d] = [pc |-> "dialing", gen |-> generation, at |-> t]]
  /\ UNCHANGED <<now, failures, generation, retryAt, freeSlots>>

-----------------------------------------------------------------------------
(* Attempt::finish(), and Drop of an Attempt that was not finished         *)

Reading(since) == {t \in since..now : now - t <= MaxLag}

\* Mutant: attempts of every wave are listened to.
ListensAlways(d) == Threshold > 0

\* finish() ignores an attempt of an older wave, and every attempt when the
\* circuit is disabled.
Listens(d) == Threshold > 0 /\ dialer[d].gen = generation

\* Mutant: an attempt can be dropped without being counted.
FinishDropped(d) ==
  /\ dialer[d].pc = "dialing"
  /\ dialer' = Releasing(d)
  /\ UNCHANGED <<now, circuit, bucket, freeSlots>>

FinishIgnored(d) ==
  /\ dialer[d].pc = "dialing"
  /\ ~Listens(d)
  /\ dialer' = Releasing(d)
  /\ UNCHANGED <<now, circuit, bucket, freeSlots>>

FinishOk(d) ==
  /\ dialer[d].pc = "dialing"
  /\ Listens(d)
  /\ failures' = 0 /\ retryAt' = NoRetry /\ probing' = FALSE
  /\ dialer' = Releasing(d)
  /\ UNCHANGED <<now, generation, bucket, freeSlots>>

FinishFailed(d, t) ==
  /\ dialer[d].pc = "dialing"
  /\ Listens(d)
  /\ failures' = failures + 1
  /\ IF probing \/ failures + 1 >= Threshold
     THEN /\ generation' = generation + 1
          /\ retryAt' = t + Cooldown
          /\ probing' = FALSE
     ELSE UNCHANGED <<generation, retryAt, probing>>
  /\ dialer' = Releasing(d)
  /\ UNCHANGED <<now, bucket, freeSlots>>

Failed(d) == \E t \in Reading(dialer[d].at) : FinishFailed(d, t)

\* The slot goes back when the Attempt, or enter()'s local, is dropped.
ReturnSlot(d) ==
  /\ dialer[d].pc = "releasing"
  /\ freeSlots' = freeSlots + 1
  /\ dialer' = [dialer EXCEPT ![d] = Idle]
  /\ UNCHANGED <<now, circuit, bucket>>

\* MaxLag bounds how long a task that has read the clock waits for the lock.
Tick ==
  /\ now < MaxTime
  /\ \A d \in Dialers : dialer[d].pc = "slotted" => now - dialer[d].at < MaxLag
  /\ now' = now + 1
  /\ UNCHANGED <<circuit, bucket, freeSlots, dialer>>

Enter(d) == EnterOpen(d) \/ EnterNoToken(d) \/ EnterGranted(d)
Finish(d) == FinishIgnored(d) \/ FinishOk(d) \/ Failed(d)
Step(d) == TakeSlot(d) \/ Enter(d) \/ Finish(d) \/ ReturnSlot(d)

BackendNext == Tick \/ \E d \in Dialers : Step(d)

BackendSpec == BackendInit /\ [][BackendNext]_backendVars

\* A task that holds a slot is scheduled until it has returned it: no step on
\* that way waits for anything but a short lock or a dial with a timeout.
BackendFairness ==
  \A d \in Dialers :
    /\ WF_backendVars(Enter(d))
    /\ WF_backendVars(Finish(d))
    /\ WF_backendVars(ReturnSlot(d))

BackendFairSpec == BackendSpec /\ BackendFairness

-----------------------------------------------------------------------------
(* Properties *)

DialPC == {"idle", "slotted", "dialing", "releasing"}

\* Every variable keeps its type; permits and tokens stay within their bounds.
BackendTypeOK ==
  /\ now \in Nat
  /\ failures \in Nat /\ generation \in Nat
  /\ retryAt \in Nat \cup {NoRetry} /\ probing \in BOOLEAN
  /\ tokens \in 0..Burst /\ last \in Nat /\ dials \in Nat
  /\ freeSlots \in 0..Slots
  /\ dialer \in [Dialers -> [pc : DialPC, gen : Nat, at : Nat]]

\* The dials in flight whose outcome can still move the circuit.
Wave == {d \in Dialers : dialer[d].pc = "dialing" /\ dialer[d].gen = generation}

\* An open circuit has no dial in flight that could close it, and a half-open
\* one has exactly its probe: an attempt of an earlier wave, however late it
\* completes, is neither.
SingleProbe ==
  /\ retryAt = NoRetry => ~probing
  /\ retryAt # NoRetry /\ ~probing => Wave = {}
  /\ probing => \E d \in Dialers : Wave = {d}

Holding == {d \in Dialers : dialer[d].pc # "idle"}

\* Permits are neither lost nor created across refusals, completions and
\* cancelled attempts, so at most Slots dials are ever in flight.
SlotsConserved == freeSlots + Cardinality(Holding) = Slots

\* Attempts carry generations that were handed out.
GenerationsKnown ==
  \A d \in Dialers : dialer[d].pc = "dialing" => dialer[d].gen <= generation

\* A disabled circuit never opens.
DisabledStaysClosed == Threshold = 0 => retryAt = NoRetry

\* Instants lie in the past.
InstantsPast == last <= now /\ \A d \in Dialers : dialer[d].at <= now

\* Tokens left and dials made account for the credit earned up to last.
CreditEarned == Rate > 0 => tokens + dials <= Burst + Rate * last

\* Reconnects, circuit refusals, slot refusals and stale clock readings never
\* refund or refill the dial budget: the dials made stay within the burst plus
\* the rate times the elapsed time.
DialBudget == Rate > 0 => dials <= Burst + Rate * now

\* What every step preserves.
BackendInductive ==
  /\ BackendTypeOK /\ SlotsConserved /\ SingleProbe
  /\ GenerationsKnown /\ DisabledStaysClosed /\ InstantsPast /\ CreditEarned

\* A half-open circuit never stays half-open: the probe's dial ends by success,
\* failure, timeout or cancellation, and each of them decides the circuit.
ProbeResolves == probing ~> ~probing

-----------------------------------------------------------------------------
(* The generation counter implements the wave of the abstract circuit.     *)

CircuitState ==
  IF retryAt = NoRetry THEN "closed" ELSE IF probing THEN "probing" ELSE "open"

ListenedWave == IF Threshold = 0 THEN {} ELSE Wave

Abstract == INSTANCE Circuit
  WITH state <- CircuitState, wave <- ListenedWave, failures <- failures

\* The circuit of the code implements Circuit: waves told apart by a number
\* behave like waves kept as sets.
ImplementsCircuit == Abstract!Spec
=============================================================================
