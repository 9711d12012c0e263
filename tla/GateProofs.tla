----------------------------- MODULE GateProofs -----------------------------
(*************************************************************************)
(* What the gate keeps beside the byte streams: the permits its connections *)
(* share, and the protection of the backend.                             *)
(*************************************************************************)
EXTENDS BackendProtection, GateSession, TLAPS, FiniteSetTheorems

(*************************************************************************)
(* BackendProtection, for any number of tasks and slots, any threshold,  *)
(* cooldown, rate, burst and clock lag.                                  *)
(*************************************************************************)

\* What the validated configuration says of the constants.
LEMMA ProtectionLimits ==
  /\ IsFiniteSet(Dialers)
  /\ Slots \in Nat \ {0}
  /\ Threshold \in Nat /\ Cooldown \in Nat
  /\ Threshold = 0 <=> Cooldown = 0
  /\ Rate \in Nat /\ Burst \in Nat
  /\ Rate > 0 => Burst > 0
  /\ MaxLag \in Nat /\ MaxTime \in Nat
  BY ProtectionAssumption DEF ValidCircuit, ValidRate

\* Products of naturals are naturals: the refill arithmetic of enter().
LEMMA ProductIsNat == \A a, b \in Nat : a * b \in Nat
  OBVIOUS

\* A longer time earns no less credit.
LEMMA ProductMonotone == \A r, a, b \in Nat : a <= b => r * a <= r * b
  OBVIOUS

\* The tasks that hold a slot can be counted.
LEMMA HoldingFinite == IsFiniteSet(Holding) /\ Cardinality(Holding) \in Nat
  BY ProtectionLimits, FS_Subset, FS_CardinalityType DEF Holding

\* The refill of enter() never exceeds the burst nor what the time since last
\* has earned.
LEMMA RefillBounds ==
  ASSUME BackendTypeOK, NEW t \in Nat, Rate > 0
  PROVE  /\ Refilled(t) \in 0..Burst
         /\ Later(t) \in Nat /\ Later(t) >= last
         /\ Refilled(t) <= tokens + Rate * Later(t) - Rate * last
<1> DEFINE elapsed == IF t > last THEN t - last ELSE 0
<1>1. elapsed \in Nat /\ elapsed = Later(t) - last
  BY DEF BackendTypeOK, Later
<1>2. elapsed * Rate \in Nat
  BY <1>1, ProtectionLimits
<1>3. elapsed * Rate = Rate * Later(t) - Rate * last
  BY <1>1, ProtectionLimits DEF BackendTypeOK, Later
<1> HIDE DEF elapsed
<1>4. Refilled(t) = IF tokens + elapsed * Rate < Burst
                    THEN tokens + elapsed * Rate ELSE Burst
  BY DEF Refilled, elapsed
<1> QED
  BY <1>1, <1>2, <1>3, <1>4, ProtectionLimits DEF BackendTypeOK, Later

\* new(): a closed circuit, a full bucket, all slots free.
LEMMA BackendInitInductive == BackendInit => BackendInductive
<1> SUFFICES ASSUME BackendInit PROVE BackendInductive
  OBVIOUS
<1>1. Holding = {}
  BY DEF BackendInit, Idle, Holding
<1>2. SlotsConserved
  BY <1>1, FS_EmptySet, ProtectionLimits DEF BackendInit, SlotsConserved
<1>3. BackendTypeOK
  <2>1. dialer \in [Dialers -> [pc : DialPC, gen : Nat, at : Nat]]
    BY DEF BackendInit, Idle, DialPC
  <2>2. probing \in BOOLEAN
    BY Zenon DEF BackendInit
  <2> QED
    BY <2>1, <2>2, ProtectionLimits DEF BackendInit, BackendTypeOK
<1>4. SingleProbe /\ GenerationsKnown /\ DisabledStaysClosed /\ InstantsPast
  BY DEF BackendInit, SingleProbe, GenerationsKnown, DisabledStaysClosed, InstantsPast,
         Idle, Wave
<1>5. CreditEarned
  BY ProtectionLimits DEF BackendInit, CreditEarned
<1> QED
  BY <1>2, <1>3, <1>4, <1>5 DEF BackendInductive

-----------------------------------------------------------------------------
(* Steps of enter() *)

\* enter() taking a permit moves one task into Holding.
LEMMA TakeSlotInductive ==
  ASSUME BackendInductive, NEW d \in Dialers, TakeSlot(d)
  PROVE  BackendInductive'
<1> USE DEF BackendInductive
<1>1. Holding' = Holding \cup {d} /\ d \notin Holding
  BY DEF BackendTypeOK, TakeSlot, Holding
<1>2. SlotsConserved'
  <2>1. Cardinality(Holding') = Cardinality(Holding) + 1
    BY <1>1, HoldingFinite, FS_AddElement
  <2> QED
    BY <2>1, HoldingFinite DEF SlotsConserved, TakeSlot, BackendTypeOK
<1>3. BackendTypeOK'
  <2>1. dialer' \in [Dialers -> [pc : DialPC, gen : Nat, at : Nat]]
    BY DEF BackendTypeOK, TakeSlot, DialPC
  <2>2. probing' \in BOOLEAN
    BY DEF BackendTypeOK, TakeSlot, circuit
  <2> QED
    BY <2>1, <2>2, ProtectionLimits DEF BackendTypeOK, TakeSlot, circuit, bucket
<1>4. Wave' = Wave
  BY DEF BackendTypeOK, TakeSlot, circuit, Wave
<1>5. SingleProbe'
  BY <1>4 DEF SingleProbe, TakeSlot, circuit
<1>6. GenerationsKnown' /\ InstantsPast'
  BY DEF BackendTypeOK, TakeSlot, circuit, bucket, GenerationsKnown, InstantsPast
<1>7. DisabledStaysClosed' /\ CreditEarned'
  BY DEF TakeSlot, circuit, bucket, DisabledStaysClosed, CreditEarned
<1> QED
  BY <1>2, <1>3, <1>5, <1>6, <1>7

\* A task that stops dialing, or never dialed, keeps its slot until it
\* returns it.
LEMMA ReleasingHolds ==
  ASSUME BackendInductive, NEW d \in Dialers, dialer[d].pc # "idle",
         dialer' = Releasing(d), freeSlots' = freeSlots
  PROVE  /\ SlotsConserved'
         /\ dialer' \in [Dialers -> [pc : DialPC, gen : Nat, at : Nat]]
         /\ Wave' \subseteq {x \in Dialers \ {d} : dialer[x].pc = "dialing"
                                                  /\ dialer[x].gen = generation'}
         /\ generation' = generation => Wave' = Wave \ {d}
<1> USE DEF BackendInductive
<1>1. dialer' \in [Dialers -> [pc : DialPC, gen : Nat, at : Nat]]
  BY DEF BackendTypeOK, Releasing, DialPC
<1>2. Holding' = Holding
  BY DEF BackendTypeOK, Releasing, Holding
<1>3. SlotsConserved'
  BY <1>2 DEF SlotsConserved
<1>4. \A x \in Dialers : dialer'[x] = IF x = d THEN [pc |-> "releasing", gen |-> 0, at |-> 0]
                                     ELSE dialer[x]
  BY DEF BackendTypeOK, Releasing
<1> QED
  BY <1>1, <1>3, <1>4 DEF Wave

\* A refusal by the open circuit changes neither circuit nor bucket.
LEMMA EnterOpenInductive ==
  ASSUME BackendInductive, NEW d \in Dialers, EnterOpen(d)
  PROVE  BackendInductive'
<1> USE DEF BackendInductive
<1>1. /\ SlotsConserved'
      /\ dialer' \in [Dialers -> [pc : DialPC, gen : Nat, at : Nat]]
      /\ Wave' = Wave \ {d}
  BY ReleasingHolds DEF EnterOpen, circuit
<1>2. Wave' = Wave
  BY <1>1 DEF EnterOpen, Wave
<1>3. BackendTypeOK'
  <2>1. probing' \in BOOLEAN
    BY DEF BackendTypeOK, EnterOpen, circuit
  <2> QED
    BY <1>1, <2>1 DEF BackendTypeOK, EnterOpen, circuit, bucket
<1>4. SingleProbe'
  BY <1>2 DEF SingleProbe, EnterOpen, circuit
<1>5. GenerationsKnown' /\ InstantsPast'
  BY DEF BackendTypeOK, EnterOpen, Releasing, circuit, bucket, GenerationsKnown, InstantsPast
<1>6. DisabledStaysClosed' /\ CreditEarned'
  BY DEF EnterOpen, circuit, bucket, DisabledStaysClosed, CreditEarned
<1> QED
  BY <1>1, <1>3, <1>4, <1>5, <1>6

\* A refusal by the empty bucket keeps the refill and spends nothing.
LEMMA EnterNoTokenInductive ==
  ASSUME BackendInductive, NEW d \in Dialers, EnterNoToken(d)
  PROVE  BackendInductive'
<1> USE DEF BackendInductive
<1> DEFINE t == dialer[d].at
<1>0. t \in Nat /\ t <= now /\ Rate > 0
  BY DEF BackendTypeOK, InstantsPast, EnterNoToken
<1>1. /\ SlotsConserved'
      /\ dialer' \in [Dialers -> [pc : DialPC, gen : Nat, at : Nat]]
      /\ Wave' = Wave \ {d}
  BY ReleasingHolds DEF EnterNoToken, circuit
<1>2. Wave' = Wave
  BY <1>1 DEF EnterNoToken, Wave
<1>3. /\ tokens' \in 0..Burst /\ last' \in Nat /\ last' >= last /\ last' <= now
      /\ tokens' <= tokens + Rate * last' - Rate * last
  BY <1>0, RefillBounds DEF EnterNoToken, Later, InstantsPast, BackendTypeOK
<1>4. BackendTypeOK'
  <2>1. probing' \in BOOLEAN
    BY DEF BackendTypeOK, EnterNoToken, circuit
  <2> QED
    BY <1>1, <1>3, <2>1 DEF BackendTypeOK, EnterNoToken, circuit
<1>5. SingleProbe'
  BY <1>2 DEF SingleProbe, EnterNoToken, circuit
<1>6. GenerationsKnown' /\ InstantsPast'
  BY <1>3 DEF BackendTypeOK, EnterNoToken, Releasing, circuit, GenerationsKnown, InstantsPast
<1>7. DisabledStaysClosed'
  BY DEF EnterNoToken, circuit, DisabledStaysClosed
<1>8. CreditEarned'
  <2>1. Rate * last \in Nat /\ Rate * last' \in Nat
    BY <1>3, ProtectionLimits, ProductIsNat, Zenon DEF BackendTypeOK
  <2> QED
    BY <1>0, <1>3, <2>1, ProtectionLimits DEF CreditEarned, BackendTypeOK, EnterNoToken
<1> QED
  BY <1>1, <1>4, <1>5, <1>6, <1>7, <1>8

\* A granted dial pays its token, and joins the wave or becomes its only probe.
LEMMA EnterGrantedInductive ==
  ASSUME BackendInductive, NEW d \in Dialers, EnterGranted(d)
  PROVE  BackendInductive'
<1> USE DEF BackendInductive
<1> DEFINE t == dialer[d].at
<1>0. t \in Nat /\ t <= now
  BY DEF BackendTypeOK, InstantsPast
<1>1. dialer' = [dialer EXCEPT ![d] = [pc |-> "dialing", gen |-> generation, at |-> t]]
  BY DEF EnterGranted
<1>2. dialer' \in [Dialers -> [pc : DialPC, gen : Nat, at : Nat]]
  BY <1>0, <1>1 DEF BackendTypeOK, DialPC
<1>3. Holding' = Holding
  BY <1>1 DEF EnterGranted, Holding, BackendTypeOK
<1>4. SlotsConserved'
  BY <1>3 DEF SlotsConserved, EnterGranted
<1>5. /\ tokens' \in 0..Burst /\ last' \in Nat /\ last' <= now /\ dials' \in Nat
      /\ CreditEarned'
  <2>1. CASE Rate > 0
    <3>1. /\ Refilled(t) \in 0..Burst /\ Later(t) \in Nat /\ Later(t) <= now
          /\ Refilled(t) <= tokens + Rate * Later(t) - Rate * last
      BY <1>0, <2>1, RefillBounds DEF Later, InstantsPast, BackendTypeOK
    <3>2. Rate * last \in Nat /\ Rate * Later(t) \in Nat
      BY <3>1, ProtectionLimits, ProductIsNat DEF BackendTypeOK
    <3>3. Refilled(t) >= 1 /\ tokens' = Refilled(t) - 1 /\ last' = Later(t) /\ dials' = dials + 1
      BY <2>1 DEF EnterGranted
    <3> QED
      BY <2>1, <3>1, <3>2, <3>3, ProtectionLimits DEF CreditEarned, BackendTypeOK
  <2>2. CASE ~(Rate > 0)
    BY <2>2 DEF EnterGranted, bucket, CreditEarned, BackendTypeOK, InstantsPast
  <2> QED
    BY <2>1, <2>2
<1>6. BackendTypeOK'
  <2>1. probing' \in BOOLEAN
    BY DEF EnterGranted
  <2> QED
    BY <1>2, <1>5, <2>1 DEF BackendTypeOK, EnterGranted
<1>7. Wave' = Wave \cup {d} /\ d \notin Wave
  BY <1>1 DEF EnterGranted, Wave, BackendTypeOK
<1>8. SingleProbe'
  <2>1. CASE retryAt = NoRetry
    BY <2>1, <1>7, Zenon DEF SingleProbe, EnterGranted
  <2>2. CASE retryAt # NoRetry
    <3>1. ~probing /\ Wave = {}
      BY <2>2 DEF SingleProbe, EnterGranted, CircuitRefuses
    <3> QED
      BY <2>2, <3>1, <1>7, Zenon DEF SingleProbe, EnterGranted
  <2> QED
    BY <2>1, <2>2
<1>9. GenerationsKnown' /\ InstantsPast'
  BY <1>0, <1>1, <1>5 DEF BackendTypeOK, EnterGranted, GenerationsKnown, InstantsPast
<1>10. DisabledStaysClosed'
  BY DEF EnterGranted, DisabledStaysClosed
<1> QED
  BY <1>4, <1>5, <1>6, <1>8, <1>9, <1>10

-----------------------------------------------------------------------------
(* Steps of finish() *)

\* finish() of an older wave leaves the circuit alone.
LEMMA FinishIgnoredInductive ==
  ASSUME BackendInductive, NEW d \in Dialers, FinishIgnored(d)
  PROVE  BackendInductive'
<1> USE DEF BackendInductive
<1>1. /\ SlotsConserved'
      /\ dialer' \in [Dialers -> [pc : DialPC, gen : Nat, at : Nat]]
      /\ Wave' = Wave \ {d}
  BY ReleasingHolds DEF FinishIgnored, circuit
<1>2. BackendTypeOK'
  <2>1. probing' \in BOOLEAN
    BY DEF BackendTypeOK, FinishIgnored, circuit
  <2> QED
    BY <1>1, <2>1 DEF BackendTypeOK, FinishIgnored, circuit, bucket
<1>3. SingleProbe'
  <2>1. CASE Threshold = 0
    BY <1>1, <2>1 DEF SingleProbe, FinishIgnored, circuit, DisabledStaysClosed
  <2>2. CASE Threshold # 0
    <3>1. Wave' = Wave
      BY <1>1, <2>2, ProtectionLimits DEF FinishIgnored, Listens, Wave
    <3> QED
      BY <3>1 DEF SingleProbe, FinishIgnored, circuit
  <2> QED
    BY <2>1, <2>2
<1>4. GenerationsKnown' /\ InstantsPast'
  BY DEF BackendTypeOK, FinishIgnored, Releasing, circuit, bucket, GenerationsKnown, InstantsPast
<1>5. DisabledStaysClosed' /\ CreditEarned'
  BY DEF FinishIgnored, circuit, bucket, DisabledStaysClosed, CreditEarned
<1> QED
  BY <1>1, <1>2, <1>3, <1>4, <1>5

\* A success of the current wave closes the circuit.
LEMMA FinishOkInductive ==
  ASSUME BackendInductive, NEW d \in Dialers, FinishOk(d)
  PROVE  BackendInductive'
<1> USE DEF BackendInductive
<1>1. /\ SlotsConserved'
      /\ dialer' \in [Dialers -> [pc : DialPC, gen : Nat, at : Nat]]
  BY ReleasingHolds DEF FinishOk
<1>2. BackendTypeOK'
  <2>1. probing' \in BOOLEAN
    BY Zenon DEF FinishOk
  <2> QED
    BY <1>1, <2>1 DEF BackendTypeOK, FinishOk, bucket
<1>3. SingleProbe'
  BY DEF SingleProbe, FinishOk
<1>4. GenerationsKnown' /\ InstantsPast'
  BY DEF BackendTypeOK, FinishOk, Releasing, bucket, GenerationsKnown, InstantsPast
<1>5. DisabledStaysClosed' /\ CreditEarned'
  BY DEF FinishOk, bucket, DisabledStaysClosed, CreditEarned
<1> QED
  BY ZenonT(20), <1>1, <1>2, <1>3, <1>4, <1>5

\* A failure that trips the circuit ends its wave: no later completion is listened
\* to until a probe is let through.
LEMMA FinishFailedInductive ==
  ASSUME BackendInductive, NEW d \in Dialers, NEW t \in Nat, FinishFailed(d, t)
  PROVE  BackendInductive'
<1> USE DEF BackendInductive
<1> DEFINE trips == probing \/ failures + 1 >= Threshold
<1>1. /\ SlotsConserved'
      /\ dialer' \in [Dialers -> [pc : DialPC, gen : Nat, at : Nat]]
  BY ReleasingHolds DEF FinishFailed
<1>2. CASE trips
  <2>1. /\ generation' = generation + 1 /\ retryAt' = t + Cooldown /\ probing' = FALSE
    BY <1>2 DEF FinishFailed
  <2>2. Wave' = {}
    BY <2>1, ReleasingHolds DEF FinishFailed, GenerationsKnown, BackendTypeOK
  <2>3. BackendTypeOK'
    <3>1. probing' \in BOOLEAN
      BY <2>1, Zenon
    <3> QED
      BY <1>1, <2>1, <3>1, ProtectionLimits DEF BackendTypeOK, FinishFailed, bucket
  <2>4. SingleProbe'
    BY <2>1, <2>2 DEF SingleProbe
  <2>5. GenerationsKnown' /\ InstantsPast'
    BY <2>1 DEF BackendTypeOK, FinishFailed, Releasing, bucket, GenerationsKnown, InstantsPast
  <2>6. DisabledStaysClosed' /\ CreditEarned'
    BY ProtectionLimits
    DEF FinishFailed, Listens, bucket, DisabledStaysClosed, CreditEarned
  <2> QED
    BY <1>1, <2>3, <2>4, <2>5, <2>6
<1>3. CASE ~trips
  <2>1. generation' = generation /\ retryAt' = retryAt /\ probing' = probing /\ ~probing
    BY <1>3 DEF FinishFailed
  <2>2. Wave' = Wave \ {d} /\ d \in Wave
    BY <2>1, ReleasingHolds DEF FinishFailed, Listens, Wave
  <2>3. BackendTypeOK'
    <3>1. probing' \in BOOLEAN
      BY <2>1 DEF BackendTypeOK
    <3> QED
      BY <1>1, <2>1, <3>1 DEF BackendTypeOK, FinishFailed, bucket
  <2>4. SingleProbe'
    BY <2>1, <2>2 DEF SingleProbe
  <2>5. GenerationsKnown' /\ InstantsPast'
    BY <2>1 DEF BackendTypeOK, FinishFailed, Releasing, bucket, GenerationsKnown, InstantsPast
  <2>6. DisabledStaysClosed' /\ CreditEarned'
    BY <2>1 DEF FinishFailed, bucket, DisabledStaysClosed, CreditEarned
  <2> QED
    BY <1>1, <2>3, <2>4, <2>5, <2>6
<1> QED
  BY <1>2, <1>3

\* Dropping the permit gives exactly the task's slot back.
LEMMA ReturnSlotInductive ==
  ASSUME BackendInductive, NEW d \in Dialers, ReturnSlot(d)
  PROVE  BackendInductive'
<1> USE DEF BackendInductive
<1>1. Holding' = Holding \ {d} /\ d \in Holding
  BY DEF BackendTypeOK, ReturnSlot, Holding, Idle
<1>2. Cardinality(Holding') = Cardinality(Holding) - 1 /\ Cardinality(Holding') \in Nat
  BY <1>1, HoldingFinite, FS_RemoveElement, FS_CardinalityType
<1>3. SlotsConserved' /\ freeSlots' \in 0..Slots
  BY <1>2, HoldingFinite, ProtectionLimits DEF SlotsConserved, ReturnSlot, BackendTypeOK
<1>4. BackendTypeOK'
  <2>1. dialer' \in [Dialers -> [pc : DialPC, gen : Nat, at : Nat]]
    BY DEF BackendTypeOK, ReturnSlot, DialPC, Idle
  <2>2. probing' \in BOOLEAN
    BY DEF BackendTypeOK, ReturnSlot, circuit
  <2> QED
    BY <1>3, <2>1, <2>2 DEF BackendTypeOK, ReturnSlot, circuit, bucket
<1>5. Wave' = Wave
  BY DEF BackendTypeOK, ReturnSlot, Idle, circuit, Wave
<1>6. SingleProbe'
  BY <1>5 DEF SingleProbe, ReturnSlot, circuit
<1>7. GenerationsKnown' /\ InstantsPast'
  BY DEF BackendTypeOK, ReturnSlot, Idle, circuit, bucket, GenerationsKnown, InstantsPast
<1>8. DisabledStaysClosed' /\ CreditEarned'
  BY DEF ReturnSlot, circuit, bucket, DisabledStaysClosed, CreditEarned
<1> QED
  BY <1>3, <1>4, <1>6, <1>7, <1>8

\* Time alone preserves the invariant.
LEMMA QuietInductive ==
  ASSUME BackendInductive, Tick \/ UNCHANGED backendVars
  PROVE  BackendInductive'
<1> USE DEF BackendInductive
<1>1. UNCHANGED <<circuit, bucket, freeSlots, dialer>> /\ now' \in Nat /\ now' >= now
  BY DEF Tick, backendVars, BackendTypeOK
<1>2. Holding' = Holding /\ Wave' = Wave
  BY <1>1 DEF Holding, Wave, circuit
<1>3. BackendTypeOK'
  <2>1. probing' \in BOOLEAN
    BY <1>1 DEF BackendTypeOK, circuit
  <2> QED
    BY <1>1, <2>1 DEF BackendTypeOK, circuit, bucket
<1>4. SlotsConserved' /\ SingleProbe'
  BY <1>1, <1>2 DEF SlotsConserved, SingleProbe, circuit
<1>5. GenerationsKnown' /\ InstantsPast'
  BY <1>1 DEF BackendTypeOK, circuit, bucket, GenerationsKnown, InstantsPast
<1>6. DisabledStaysClosed' /\ CreditEarned'
  BY <1>1 DEF circuit, bucket, DisabledStaysClosed, CreditEarned
<1> QED
  BY <1>3, <1>4, <1>5, <1>6

\* A clock reading finish() may use is an instant.
LEMMA ReadingIsNat ==
  ASSUME BackendTypeOK, NEW d \in Dialers, NEW t \in Reading(dialer[d].at)
  PROVE  t \in Nat
  BY DEF BackendTypeOK, Reading

\* Every step of enter(), finish(), drop() and the clock preserves Inductive.
LEMMA NextInductive == BackendInductive /\ [BackendNext]_backendVars => BackendInductive'
<1> SUFFICES ASSUME BackendInductive, [BackendNext]_backendVars PROVE BackendInductive'
  OBVIOUS
<1>1. CASE Tick \/ UNCHANGED backendVars
  BY <1>1, QuietInductive
<1>2. ASSUME NEW d \in Dialers, Step(d)
      PROVE  BackendInductive'
  <2>1. CASE TakeSlot(d)
    BY <2>1, TakeSlotInductive
  <2>2. CASE EnterOpen(d)
    BY <2>2, EnterOpenInductive
  <2>3. CASE EnterNoToken(d)
    BY <2>3, EnterNoTokenInductive
  <2>4. CASE EnterGranted(d)
    BY <2>4, EnterGrantedInductive
  <2>5. CASE FinishIgnored(d)
    BY <2>5, FinishIgnoredInductive
  <2>6. CASE FinishOk(d)
    BY <2>6, FinishOkInductive
  <2>7. CASE Failed(d)
    BY <2>7, ReadingIsNat, FinishFailedInductive DEF Failed, BackendInductive
  <2>8. CASE ReturnSlot(d)
    BY <2>8, ReturnSlotInductive
  <2> QED
    BY <1>2, <2>1, <2>2, <2>3, <2>4, <2>5, <2>6, <2>7, <2>8 DEF Step, Enter, Finish
<1> QED
  BY <1>1, <1>2 DEF BackendNext

\* Every reachable state satisfies the inductive invariant.
THEOREM BackendInductiveAlways == BackendSpec => []BackendInductive
  BY BackendInitInductive, NextInductive, PTL DEF BackendSpec

\* Type correctness.  That free stays within 0..Slots rests on SlotsConserved.
THEOREM BackendTypeCorrect == BackendSpec => []BackendTypeOK
<1>1. BackendInductive => BackendTypeOK
  BY DEF BackendInductive
<1> QED
  BY <1>1, BackendInductiveAlways, PTL

\* For every number of tasks, slots and any threshold: an open circuit has no
\* dial that could close it, and a half-open one has exactly one.
THEOREM ProbeIsSingle == BackendSpec => []SingleProbe
<1>1. BackendInductive => SingleProbe
  BY DEF BackendInductive
<1> QED
  BY <1>1, BackendInductiveAlways, PTL

\* No permit of the slot semaphore is lost or created.
THEOREM SlotsAreConserved == BackendSpec => []SlotsConserved
<1>1. BackendInductive => SlotsConserved
  BY DEF BackendInductive
<1> QED
  BY <1>1, BackendInductiveAlways, PTL

\* The dials stay within the burst plus the rate times the elapsed time, for
\* every rate, burst and clock lag.
THEOREM DialsWithinBudget == BackendSpec => []DialBudget
<1>1. BackendInductive => DialBudget
  <2> SUFFICES ASSUME BackendInductive, Rate > 0
               PROVE  dials <= Burst + Rate * now
    BY DEF DialBudget
  <2>1. last \in Nat /\ now \in Nat /\ last <= now /\ tokens \in Nat /\ dials \in Nat
    BY ProtectionLimits DEF BackendInductive, BackendTypeOK, InstantsPast
  <2>2. Rate * last <= Rate * now /\ Rate * last \in Nat /\ Rate * now \in Nat
    BY <2>1, ProtectionLimits, ProductMonotone, ProductIsNat
  <2>3. tokens + dials <= Burst + Rate * last
    BY DEF BackendInductive, CreditEarned
  <2> QED
    BY <2>1, <2>2, <2>3, ProtectionLimits
<1> QED
  BY <1>1, BackendInductiveAlways, PTL

-----------------------------------------------------------------------------
(* Refinement *)

\* A new circuit is an initial state of Circuit.
LEMMA InitRefines == BackendInit => Abstract!Init
  BY DEF BackendInit, Abstract!Init, CircuitState, ListenedWave, Wave, Idle

\* Every step is a step of Circuit or leaves the abstract circuit as it is.
LEMMA StepRefines ==
  ASSUME BackendInductive, [BackendNext]_backendVars
  PROVE  [Abstract!Next]_(Abstract!cvars)
<1> USE DEF BackendInductive
<1> SUFFICES Abstract!Next \/ UNCHANGED <<CircuitState, ListenedWave, failures>>
  BY DEF Abstract!cvars
<1>1. CASE UNCHANGED <<circuit, dialer>>
  BY <1>1 DEF circuit, CircuitState, ListenedWave, Wave
<1>2. ASSUME NEW d \in Dialers, TakeSlot(d) \/ EnterOpen(d) \/ EnterNoToken(d) \/ ReturnSlot(d)
      PROVE  UNCHANGED <<CircuitState, ListenedWave, failures>>
  <2>1. UNCHANGED circuit
    BY <1>2 DEF TakeSlot, EnterOpen, EnterNoToken, ReturnSlot
  <2>2. Wave' = Wave
    BY <1>2, <2>1
    DEF BackendTypeOK, TakeSlot, EnterOpen, EnterNoToken, ReturnSlot, Releasing, Idle, circuit, Wave
  <2> QED
    BY <2>1, <2>2 DEF circuit, CircuitState, ListenedWave
<1>3. ASSUME NEW d \in Dialers, EnterGranted(d)
      PROVE  Abstract!Next \/ UNCHANGED <<CircuitState, ListenedWave, failures>>
  <2>1. Wave' = Wave \cup {d} /\ d \notin Wave
    BY <1>3 DEF EnterGranted, Wave, BackendTypeOK
  <2>2. CASE Threshold = 0
    BY <1>3, <2>2 DEF EnterGranted, CircuitState, ListenedWave, DisabledStaysClosed, NoRetry
  <2>3. CASE Threshold # 0 /\ retryAt = NoRetry
    <3>1. Abstract!Join(d)
      BY <1>3, <2>1, <2>3
      DEF Abstract!Join, EnterGranted, CircuitState, ListenedWave
    <3> QED
      BY <3>1 DEF Abstract!Next
  <2>4. CASE Threshold # 0 /\ retryAt # NoRetry
    <3>1. ~probing /\ Wave = {} /\ probing'
      BY <1>3, <2>4, Zenon DEF EnterGranted, CircuitRefuses, SingleProbe
    <3>2. Abstract!Probe(d)
      BY <1>3, <2>1, <2>4, <3>1
      DEF Abstract!Probe, EnterGranted, CircuitState, ListenedWave
    <3> QED
      BY <3>2 DEF Abstract!Next
  <2> QED
    BY <2>2, <2>3, <2>4
<1>4. ASSUME NEW d \in Dialers, FinishIgnored(d)
      PROVE  UNCHANGED <<CircuitState, ListenedWave, failures>>
  <2>1. Wave' = Wave \ {d}
    BY <1>4, ReleasingHolds DEF FinishIgnored, circuit
  <2>2. Threshold = 0 \/ d \notin Wave
    BY <1>4, ProtectionLimits DEF FinishIgnored, Listens, Wave
  <2>3. ListenedWave' = ListenedWave
    BY ZenonT(20), <2>1, <2>2 DEF ListenedWave
  <2> QED
    BY <1>4, <2>3 DEF FinishIgnored, circuit, CircuitState
<1>5. ASSUME NEW d \in Dialers, FinishOk(d)
      PROVE  Abstract!Next
  <2>1. Wave' = Wave \ {d} /\ d \in Wave /\ Threshold # 0
    BY <1>5, ReleasingHolds, ProtectionLimits DEF FinishOk, Listens, Wave
  <2>2. Abstract!Succeed(d)
    BY <1>5, <2>1 DEF Abstract!Succeed, FinishOk, CircuitState, ListenedWave
  <2> QED
    BY <2>2 DEF Abstract!Next
<1>6. ASSUME NEW d \in Dialers, NEW t \in Nat, FinishFailed(d, t)
      PROVE  Abstract!Next
  <2>1. d \in Wave /\ Threshold # 0
    BY <1>6, ProtectionLimits DEF FinishFailed, Listens, Wave
  <2>2. CASE probing \/ failures + 1 >= Threshold
    <3>1. generation' = generation + 1 /\ retryAt' = t + Cooldown /\ probing' = FALSE
      BY <1>6, <2>2 DEF FinishFailed
    <3>2. Wave' = {}
      BY <1>6, <3>1, ReleasingHolds DEF FinishFailed, GenerationsKnown, BackendTypeOK
    <3>3. CircuitState' = "open"
      BY <3>1, ProtectionLimits DEF CircuitState, NoRetry
    <3>4. probing => CircuitState = "probing"
      BY DEF CircuitState, SingleProbe
    <3>5. Abstract!Trip(d)
      BY <1>6, <2>1, <2>2, <3>2, <3>3, <3>4
      DEF Abstract!Trip, FinishFailed, ListenedWave
    <3> QED
      BY <3>5 DEF Abstract!Next
  <2>3. CASE ~(probing \/ failures + 1 >= Threshold)
    <3>1. generation' = generation /\ retryAt' = retryAt /\ probing' = probing /\ ~probing
      BY <1>6, <2>3 DEF FinishFailed
    <3>2. Wave' = Wave \ {d}
      BY <1>6, <3>1, ReleasingHolds DEF FinishFailed
    <3>3. retryAt = NoRetry
      BY <2>1, <3>1 DEF SingleProbe
    <3>4. failures + 1 < Threshold
      BY <2>3, ProtectionLimits DEF BackendTypeOK
    <3>5. Abstract!Fail(d)
      BY <1>6, <2>1, <3>1, <3>2, <3>3, <3>4
      DEF Abstract!Fail, FinishFailed, CircuitState, ListenedWave
    <3> QED
      BY <3>5 DEF Abstract!Next
  <2> QED
    BY <2>2, <2>3
<1> QED
  BY <1>1, <1>2, <1>3, <1>4, <1>5, <1>6, ReadingIsNat
  DEF BackendNext, Step, Enter, Finish, Failed, Tick, backendVars

\* The generation numbers of the code implement the waves of the abstract
\* circuit, for any number of tasks.
THEOREM Refinement == BackendSpec => ImplementsCircuit
  BY InitRefines, StepRefines, BackendInductiveAlways, PTL
  DEF BackendSpec, ImplementsCircuit, Abstract!Spec

-----------------------------------------------------------------------------
(*************************************************************************)
(* GateSession, for any number of connections and any limits that        *)
(* Config::validate() accepts.                                           *)
(*************************************************************************)

\* What the validated configuration says of the constants.
LEMMA SessionLimits ==
  /\ IsFiniteSet(Conn)
  /\ TotalSockets \in Nat /\ Prelogin \in Nat \ {0} /\ Admitted \in Nat \ {0}
  /\ Backend \in Nat /\ Backend >= 2
  /\ StatusConnections \in 0..Prelogin
  /\ Prelogin + Admitted + Backend <= TotalSockets
  BY SessionAssumption DEF ValidSockets

\* The tasks that hold a permit can be counted.
LEMMA HoldersFinite ==
  \A g \in Grant : IsFiniteSet(Holders(g)) /\ Cardinality(Holders(g)) \in Nat
  BY SessionLimits, FS_Subset, FS_CardinalityType DEF Holders

\* The sizes of the semaphores that run() makes.
LEMMA PermitValues ==
  /\ Permits("sockets") = TotalSockets
  /\ Permits("prelogin") = Prelogin
  /\ Permits("admitted") = Admitted
  /\ Permits("backend") = Backend - 1
  /\ Permits("status") = IF StatusConnections = 0 THEN Prelogin ELSE StatusConnections
  BY DEF Permits

\* Permits are natural numbers.
LEMMA PermitsAreNat == \A s \in Semaphore : Permits(s) \in Nat
  BY PermitValues, SessionLimits DEF Semaphore

\* The permits in use, semaphore by semaphore.
LEMMA UsedValues ==
  /\ Used("sockets") = Cardinality(Holders("client")) + Cardinality(Holders("upstream"))
                       + Truth("client" \in acceptor.hold) + Truth(refresh = "polling")
  /\ Used("prelogin") = Cardinality(Holders("prelogin")) + Truth("prelogin" \in acceptor.hold)
  /\ Used("admitted") = Cardinality(Holders("admitted"))
  /\ Used("backend") = Cardinality(Holders("backend"))
  /\ Used("status") = Cardinality(Holders("status"))
  BY DEF Used

\* The same after a step.
LEMMA UsedValuesNext ==
  /\ Used("sockets")' = Cardinality(Holders("client")') + Cardinality(Holders("upstream")')
                        + Truth("client" \in acceptor.hold)' + Truth(refresh = "polling")'
  /\ Used("prelogin")' = Cardinality(Holders("prelogin")') + Truth("prelogin" \in acceptor.hold)'
  /\ Used("admitted")' = Cardinality(Holders("admitted")')
  /\ Used("backend")' = Cardinality(Holders("backend")')
  /\ Used("status")' = Cardinality(Holders("status")')
  BY DEF Used

\* They are natural numbers.
LEMMA UsedNat == \A s \in Semaphore : Used(s) \in Nat
  BY HoldersFinite, UsedValues DEF Semaphore, Grant, Truth

\* What leaves a semaphore is in use, and the sum stays.
LEMMA Shifted == \A f, u \in Nat : \A d \in Int : (f - d) + (u + d) = f + u
  OBVIOUS

\* A counted truth value is a number.
LEMMA TruthInt == \A b \in BOOLEAN : Truth(b) \in Int
  BY DEF Truth

\* The few sums that a moved permit needs.
LEMMA SmallSums == 0 + 0 = 0 /\ 0 + 1 = 1 /\ 1 + 0 = 1 /\ 1 + -1 = 0
  OBVIOUS

\* A permit given to a task counts once, for its own grant only.
LEMMA Granted ==
  ASSUME TypeOK, NEW c \in Conn, NEW g \in Grant, g \notin hold[c],
         hold' = [hold EXCEPT ![c] = @ \cup {g}]
  PROVE  \A h \in Grant :
           Cardinality(Holders(h)') = Cardinality(Holders(h)) + Truth(h = g)
<1> TAKE h \in Grant
<1>1. CASE h = g
  <2>1. Holders(h)' = Holders(h) \cup {c} /\ c \notin Holders(h)
    BY <1>1 DEF Holders, TypeOK
  <2> QED
    BY <1>1, <2>1, HoldersFinite, FS_AddElement, Zenon DEF Truth
<1>2. CASE h # g
  <2>1. Holders(h)' = Holders(h)
    BY <1>2 DEF Holders, TypeOK
  <2> QED
    BY <1>2, <2>1, HoldersFinite DEF Truth
<1> QED
  BY <1>1, <1>2

\* A permit taken from a task is subtracted once, for its own grant only.
LEMMA Dropped ==
  ASSUME TypeOK, NEW c \in Conn, NEW g \in Grant, g \in hold[c],
         hold' = [hold EXCEPT ![c] = @ \ {g}]
  PROVE  \A h \in Grant :
           Cardinality(Holders(h)') = Cardinality(Holders(h)) - Truth(h = g)
<1> TAKE h \in Grant
<1>1. CASE h = g
  <2>1. Holders(h)' = Holders(h) \ {c} /\ c \in Holders(h)
    BY <1>1 DEF Holders, TypeOK
  <2> QED
    BY <1>1, <2>1, HoldersFinite, FS_RemoveElement, Zenon DEF Truth
<1>2. CASE h # g
  <2>1. Holders(h)' = Holders(h)
    BY <1>2 DEF Holders, TypeOK
  <2> QED
    BY <1>2, <2>1, HoldersFinite DEF Truth
<1> QED
  BY <1>1, <1>2

\* Nobody's permits changed.
LEMMA SameHolders == hold' = hold => \A g \in Grant : Holders(g)' = Holders(g)
  BY DEF Holders

\* try_acquire_owned() of a task conserves the permits.
LEMMA TakeConserves ==
  ASSUME TypeOK, PermitsConserved, NEW c \in Conn, NEW g \in Grant, g \notin hold[c],
         hold' = [hold EXCEPT ![c] = @ \cup {g}], Available(g), Take(g),
         UNCHANGED <<acceptor, refresh>>
  PROVE  PermitsConserved' /\ free' \in [Semaphore -> Nat]
<1>1. \A h \in Grant : Cardinality(Holders(h)') = Cardinality(Holders(h)) + Truth(h = g)
  BY Granted, Zenon
<1>2. Of(g) \in Semaphore /\ free' = [free EXCEPT ![Of(g)] = free[Of(g)] - 1]
  BY DEF Of, Semaphore, Grant, Take
<1>3. free' \in [Semaphore -> Nat]
  BY <1>2 DEF TypeOK, Available
<1>4. \A s \in Semaphore : Used(s)' = Used(s) + Truth(s = Of(g))
  BY <1>1, HoldersFinite, UsedValues, UsedValuesNext DEF Of, Semaphore, Grant, Truth
<1>5. \A s \in Semaphore : free'[s] = free[s] - Truth(s = Of(g))
  BY <1>2 DEF TypeOK, Truth
<1>6. \A s \in Semaphore : Used(s) \in Nat
  BY UsedNat, Zenon
<1> QED
  BY <1>3, <1>4, <1>5, <1>6, PermitsAreNat DEF PermitsConserved, TypeOK, Truth

\* The drop of a permit by a task conserves the permits.
LEMMA DropConserves ==
  ASSUME TypeOK, PermitsConserved, NEW c \in Conn, NEW g \in Grant, g \in hold[c],
         hold' = [hold EXCEPT ![c] = @ \ {g}], Return(g),
         UNCHANGED <<acceptor, refresh>>
  PROVE  PermitsConserved' /\ free' \in [Semaphore -> Nat]
<1>1. \A h \in Grant : Cardinality(Holders(h)') = Cardinality(Holders(h)) - Truth(h = g)
  BY Dropped, Zenon
<1>2. Of(g) \in Semaphore /\ free' = [free EXCEPT ![Of(g)] = free[Of(g)] + 1]
  BY DEF Of, Semaphore, Grant, Return
<1>3. free' \in [Semaphore -> Nat]
  BY <1>2 DEF TypeOK
<1>4. \A s \in Semaphore : Used(s)' = Used(s) - Truth(s = Of(g))
  BY <1>1, HoldersFinite, UsedValues, UsedValuesNext DEF Of, Semaphore, Grant, Truth
<1>5. \A s \in Semaphore : free'[s] = free[s] + Truth(s = Of(g))
  BY <1>2 DEF TypeOK, Truth
<1>6. \A s \in Semaphore : Used(s) \in Nat
  BY UsedNat, Zenon
<1> QED
  BY <1>3, <1>4, <1>5, <1>6, PermitsAreNat DEF PermitsConserved, TypeOK, Truth

-----------------------------------------------------------------------------
(* What conservation gives *)

\* The sizing rule of Config::validate() and conservation leave a socket permit
\* for the cache task and for every login that has its backend permit.
LEMMA ConservedReserves == TypeOK /\ PermitsConserved => SocketReserved
<1> SUFFICES ASSUME TypeOK, PermitsConserved,
                    Stray = {}, acceptor.hold \subseteq {"prelogin"}
             PROVE  free["sockets"] + Truth(refresh = "polling") > Cardinality(Awaiting)
  BY DEF SocketReserved
<1> DEFINE client == Holders("client")
           prelogin == Holders("prelogin")
           admitted == Holders("admitted")
           backend == Holders("backend")
           upstream == Holders("upstream")
<1>1. /\ IsFiniteSet(client) /\ IsFiniteSet(prelogin) /\ IsFiniteSet(admitted)
      /\ IsFiniteSet(backend) /\ IsFiniteSet(upstream)
  BY HoldersFinite DEF Grant
<1>2. /\ Cardinality(client) \in Nat /\ Cardinality(prelogin) \in Nat
      /\ Cardinality(admitted) \in Nat /\ Cardinality(backend) \in Nat
      /\ Cardinality(upstream) \in Nat
  BY HoldersFinite DEF Grant
<1>3. Cardinality(client) <= Cardinality(prelogin) + Cardinality(admitted)
  <2>1. client \subseteq prelogin \cup admitted
    BY DEF Stray, Holders
  <2>2. /\ IsFiniteSet(prelogin \cup admitted)
        /\ Cardinality(prelogin \cup admitted)
             = Cardinality(prelogin) + Cardinality(admitted) - Cardinality(prelogin \cap admitted)
    BY <1>1, FS_Union
  <2>3. Cardinality(prelogin \cap admitted) \in Nat
    <3>1. prelogin \cap admitted \in SUBSET prelogin
      OBVIOUS
    <3> HIDE DEF prelogin, admitted
    <3> QED
      BY <1>1, <3>1, FS_Subset, FS_CardinalityType
  <2>4. Cardinality(client) <= Cardinality(prelogin \cup admitted)
    BY <2>1, <2>2, FS_Subset
  <2> HIDE DEF client, prelogin, admitted
  <2> QED
    BY <1>2, <2>2, <2>3, <2>4
<1>4. Cardinality(Awaiting) = Cardinality(backend) - Cardinality(upstream)
  <2>1. Awaiting = backend \ upstream /\ backend \cap upstream = upstream
    BY DEF Stray, Holders, Awaiting
  <2> HIDE DEF backend, upstream
  <2>2. Cardinality(backend \ upstream) = Cardinality(backend) - Cardinality(backend \cap upstream)
    BY <1>1, FS_Difference, Zenon
  <2> QED
    BY <2>1, <2>2
<1>5. /\ free["sockets"] + Cardinality(client) + Cardinality(upstream)
           + Truth(refresh = "polling") = TotalSockets
      /\ free["prelogin"] + Cardinality(prelogin) + Truth("prelogin" \in acceptor.hold) = Prelogin
      /\ free["admitted"] + Cardinality(admitted) = Admitted
      /\ free["backend"] + Cardinality(backend) = Backend - 1
  <2>1. Truth("client" \in acceptor.hold) = 0
    BY DEF Truth
  <2>2. \A s \in Semaphore : free[s] \in Nat
    BY DEF TypeOK
  <2> QED
    BY <1>2, <2>1, <2>2, UsedValues, PermitValues, SessionLimits
    DEF PermitsConserved, Semaphore, Truth
<1>6. /\ free["sockets"] \in Nat /\ free["prelogin"] \in Nat
      /\ free["admitted"] \in Nat /\ free["backend"] \in Nat
  BY DEF TypeOK, Semaphore
<1> HIDE DEF client, prelogin, admitted, backend, upstream
<1> QED
  BY <1>2, <1>3, <1>4, <1>5, <1>6, SessionLimits DEF Truth

\* Tasks at places where they hold a permit are at most its permits.
LEMMA BoundedByPermits ==
  ASSUME TypeOK, PermitsConserved, NEW g \in {"prelogin", "status", "admitted", "backend"},
         NEW places, \A c \in Conn : pc[c] \in places => g \in hold[c]
  PROVE  Cardinality(In(places)) \in Nat /\ Cardinality(In(places)) <= Permits(g)
<1>1. In(places) \subseteq Holders(g)
  BY DEF In, Holders
<1>2. /\ Cardinality(Holders(g)) \in Nat /\ Cardinality(In(places)) \in Nat
      /\ Cardinality(In(places)) <= Cardinality(Holders(g))
  BY <1>1, HoldersFinite, FS_Subset, FS_CardinalityType DEF Grant
<1>3. Used(g) >= Cardinality(Holders(g)) /\ Used(g) \in Nat
  BY <1>2, UsedValues DEF Truth
<1>4. free[g] \in Nat /\ free[g] + Used(g) = Permits(g)
  BY DEF TypeOK, PermitsConserved, Semaphore
<1> QED
  BY <1>2, <1>3, <1>4

\* The limits follow from the permits a task holds at each place.
LEMMA ConservedLimits == Inductive => LimitsHold
<1> SUFFICES ASSUME Inductive PROVE LimitsHold
  OBVIOUS
<1> USE DEF Inductive
<1>1. Cardinality(In(Early \cup {"admit", "slot", "socket", "match"})) <= Prelogin
  <2>1. \A c \in Conn : pc[c] \in Early \cup {"admit", "slot", "socket", "match"}
                          => "prelogin" \in hold[c]
    BY DEF HoldsMatch, Early, Entered, Reservation
  <2> QED
    BY <2>1, BoundedByPermits, PermitValues
<1>2. Cardinality(In({"request", "respond", "ping"})) <= Permits("status")
  <2>1. \A c \in Conn : pc[c] \in {"request", "respond", "ping"} => "status" \in hold[c]
    BY DEF HoldsMatch
  <2> QED
    BY <2>1, BoundedByPermits
<1>3. Cardinality(In({"relay"})) <= Admitted
  <2>1. \A c \in Conn : pc[c] \in {"relay"} => "admitted" \in hold[c]
    BY DEF HoldsMatch, Reservation
  <2> QED
    BY <2>1, BoundedByPermits, PermitValues
<1>4. Cardinality(In({"dial", "relay"})) + Truth(refresh = "polling") <= Backend
  <2>1. \A c \in Conn : pc[c] \in {"dial", "relay"} => "backend" \in hold[c]
    BY DEF HoldsMatch, Reservation
  <2>2. /\ Cardinality(In({"dial", "relay"})) \in Nat
        /\ Cardinality(In({"dial", "relay"})) <= Backend - 1
    BY <2>1, BoundedByPermits, PermitValues
  <2> QED
    BY <2>2, SessionLimits DEF Truth
<1> QED
  BY <1>1, <1>2, <1>3, <1>4 DEF LimitsHold

-----------------------------------------------------------------------------
(* Steps *)

\* run(): all permits are in their semaphores.
LEMMA InitInductive == Init => Inductive
<1> SUFFICES ASSUME Init PROVE Inductive
  OBVIOUS
<1>1. \A g \in Grant : Cardinality(Holders(g)) = 0
  <2>1. \A g \in Grant : Holders(g) = {}
    BY DEF Init, Holders
  <2> QED
    BY <2>1, FS_EmptySet
<1>2. TypeOK
  BY PermitsAreNat DEF Init, TypeOK, PC, Policy, Selecting
<1>3. PermitsConserved
  <2>1. \A s \in Semaphore : Used(s) = 0
    BY <1>1, UsedValues DEF Semaphore, Grant, Truth, Init, Selecting
  <2> QED
    BY <2>1, PermitsAreNat DEF Init, PermitsConserved
<1>4. HoldsMatch /\ AcceptorMatches /\ LoginsMeetOpenPolicy /\ OpenNoted
  BY DEF Init, HoldsMatch, AcceptorMatches, LoginsMeetOpenPolicy, OpenNoted, Selecting
<1> QED
  BY <1>2, <1>3, <1>4 DEF Inductive

\* A step that moves no permit conserves them.
LEMMA QuietConserves ==
  ASSUME PermitsConserved, UNCHANGED <<free, hold, acceptor, refresh>>
  PROVE  PermitsConserved'
<1>1. \A s \in Semaphore : Used(s)' = Used(s)
  BY ZenonT(20), UsedValues, UsedValuesNext, SameHolders DEF Semaphore, Grant, Truth
<1> QED
  BY <1>1 DEF PermitsConserved

\* The accept loop and the cache task take and return permits of their own.
LEMMA LoneConserves ==
  ASSUME TypeOK, PermitsConserved, NEW g \in {"client", "prelogin", "upstream"},
         UNCHANGED hold, NEW d \in {-1, 1},
         free' = [free EXCEPT ![Of(g)] = @ - d], d = 1 => Available(g),
         Truth("client" \in acceptor.hold)'
           = Truth("client" \in acceptor.hold) + (IF g = "client" THEN d ELSE 0),
         Truth("prelogin" \in acceptor.hold)'
           = Truth("prelogin" \in acceptor.hold) + (IF g = "prelogin" THEN d ELSE 0),
         Truth(refresh = "polling")'
           = Truth(refresh = "polling") + (IF g = "upstream" THEN d ELSE 0)
  PROVE  PermitsConserved' /\ free' \in [Semaphore -> Nat]
<1>1. Of(g) \in Semaphore
  BY DEF Of, Semaphore
<1>2. free' \in [Semaphore -> Nat]
  BY <1>1 DEF TypeOK, Available
<1>3. \A s \in Semaphore : free'[s] = free[s] - (IF s = Of(g) THEN d ELSE 0)
  BY <1>1 DEF TypeOK
<1>4. \A s \in Semaphore : Used(s) \in Nat
  BY UsedNat, Zenon
<1>5. /\ Truth("client" \in acceptor.hold) \in Nat
      /\ Truth("prelogin" \in acceptor.hold) \in Nat
      /\ Truth(refresh = "polling") \in Nat
  BY ZenonT(20) DEF Truth
<1>6. \A s \in Semaphore : Used(s)' = Used(s) + (IF s = Of(g) THEN d ELSE 0)
  BY <1>5, HoldersFinite, SameHolders, UsedValues, UsedValuesNext DEF Of, Semaphore, Grant
<1> QED
  BY <1>2, <1>3, <1>4, <1>6, PermitsAreNat DEF PermitsConserved, TypeOK

\* A task goes on along handle() and moves no permit.
LEMMA ProceedInductive ==
  ASSUME Inductive, NEW c \in Conn, NEW from \in PC, NEW to \in PC, Proceed(c, from, to),
         \/ from = "spawned" /\ to \in {"hello", "scrap"}
         \/ from = "hello" /\ to = "handshake"
         \/ from = "handshake" /\ to = "status"
         \/ from = "request" /\ to = "respond"
         \/ from = "respond" /\ to = "ping"
         \/ from = "login" /\ to = "admit" /\ c \in met
         \/ from = "match" /\ (to = "short" \/ (to = "dial" /\ Reservation \subseteq hold[c]))
  PROVE  Inductive'
<1> USE DEF Inductive
<1>1. PermitsConserved'
  BY QuietConserves DEF Proceed
<1>2. TypeOK'
  BY ZenonT(20) DEF TypeOK, Proceed, Move
<1>3. HoldsMatch'
  <2>1. /\ hold' = hold /\ pc[c] = from /\ pc'[c] = to
        /\ \A d \in Conn : d # c => pc'[d] = pc[d]
    BY Zenon DEF TypeOK, Proceed, Move
  <2>2. /\ to \in {"hello", "handshake", "status", "admit"} => hold[c] = Entered
        /\ to \in {"respond", "ping"} => hold[c] = Entered \cup {"status"}
        /\ to = "dial" => hold[c] = Entered \cup Reservation
        /\ to \in {"hello", "handshake", "status", "admit", "respond", "ping", "dial", "short", "scrap"}
    <3>1. Reservation \subseteq hold[c] /\ hold[c] \ Reservation = Entered
            => hold[c] = Entered \cup Reservation
      BY Zenon
    <3> QED
      BY ZenonT(20), <2>1, <3>1 DEF HoldsMatch
  <2> QED
    BY ZenonT(20), <2>1, <2>2 DEF HoldsMatch
<1>4. AcceptorMatches'
  BY ZenonT(20) DEF AcceptorMatches, Proceed
<1>5. LoginsMeetOpenPolicy' /\ OpenNoted'
  BY DEF LoginsMeetOpenPolicy, OpenNoted, TypeOK, Proceed, Move
<1> QED
  BY ZenonT(20), <1>1, <1>2, <1>3, <1>4, <1>5

\* A task that begins to leave keeps its permits for the moment.
LEMMA LeaveInductive ==
  ASSUME Inductive, NEW c \in Conn, Leave(c)
  PROVE  Inductive'
<1> USE DEF Inductive
<1>1. PermitsConserved'
  BY QuietConserves DEF Leave
<1>2. TypeOK'
  BY ZenonT(20) DEF TypeOK, Leave, PC
<1>3. HoldsMatch'
  BY DEF HoldsMatch, TypeOK, Leave
<1>4. AcceptorMatches'
  BY DEF AcceptorMatches, Leave
<1>5. LoginsMeetOpenPolicy' /\ OpenNoted'
  BY DEF LoginsMeetOpenPolicy, OpenNoted, TypeOK, Leave
<1> QED
  BY <1>1, <1>2, <1>3, <1>4, <1>5

\* The login phase begins; the history notes whether the policy is open.
LEMMA AskLoginInductive ==
  ASSUME Inductive, NEW c \in Conn, AskLogin(c)
  PROVE  Inductive'
<1> USE DEF Inductive
<1>1. PermitsConserved'
  BY QuietConserves DEF AskLogin
<1>2. TypeOK'
  BY DEF TypeOK, AskLogin, Move, PC, Early
<1>3. HoldsMatch'
  BY DEF HoldsMatch, TypeOK, AskLogin, Move
<1>4. AcceptorMatches'
  BY DEF AcceptorMatches, AskLogin
<1>5. LoginsMeetOpenPolicy' /\ OpenNoted'
  BY DEF LoginsMeetOpenPolicy, OpenNoted, TypeOK, AskLogin, Move
<1> QED
  BY <1>1, <1>2, <1>3, <1>4, <1>5

\* Shutdown, drain and a new policy touch no task.
LEMMA OutsideInductive ==
  ASSUME Inductive, UNCHANGED <<free, pc, hold, acceptor, refresh>>,
         gate' \in {"serving", "draining", "aborting", "stopped"}, policy' \in Policy,
         met \subseteq met', met' \subseteq Conn,
         policy' = "open" => policy = "open" \/ {c \in Conn : pc[c] = "login"} \subseteq met'
  PROVE  Inductive'
<1> USE DEF Inductive
<1>1. PermitsConserved'
  BY QuietConserves
<1>2. TypeOK'
  BY ZenonT(20) DEF TypeOK
<1>3. HoldsMatch' /\ AcceptorMatches' /\ LoginsMeetOpenPolicy' /\ OpenNoted'
  BY DEF HoldsMatch, AcceptorMatches, LoginsMeetOpenPolicy, OpenNoted
<1> QED
  BY <1>1, <1>2, <1>3

-----------------------------------------------------------------------------
(* Steps that move a permit *)

\* The status permit.
LEMMA TakeStatusInductive ==
  ASSUME Inductive, NEW c \in Conn, TakeStatus(c)
  PROVE  Inductive'
<1> USE DEF Inductive
<1>1. "status" \in Grant /\ "status" \notin hold[c]
  BY DEF HoldsMatch, TakeStatus, Move, Entered, Grant
<1>2. PermitsConserved' /\ free' \in [Semaphore -> Nat]
  BY <1>1, TakeConserves, Zenon DEF TakeStatus
<1>3. TypeOK'
  BY ZenonT(20), <1>1, <1>2 DEF TypeOK, TakeStatus, Move, PC, Early
<1>4. HoldsMatch'
  BY DEF HoldsMatch, TypeOK, TakeStatus, Move
<1>5. AcceptorMatches' /\ LoginsMeetOpenPolicy' /\ OpenNoted'
  BY DEF AcceptorMatches, LoginsMeetOpenPolicy, OpenNoted, TypeOK, TakeStatus, Move
<1> QED
  BY ZenonT(20), <1>2, <1>3, <1>4, <1>5

\* One try of the tuple of a login.
LEMMA TryInductive ==
  ASSUME Inductive, NEW c \in Conn, NEW g, NEW from, NEW to, Try(c, g, from, to),
         <<g, from, to>> \in {<<"admitted", "admit", "slot">>, <<"backend", "slot", "socket">>,
                              <<"upstream", "socket", "match">>}
  PROVE  Inductive'
<1> USE DEF Inductive
<1>1. g \in Grant /\ g \notin hold[c]
  BY DEF HoldsMatch, Try, Move, Entered, Grant
<1>2. PermitsConserved' /\ free' \in [Semaphore -> Nat]
  <2>1. CASE UNCHANGED <<free, hold>>
    BY <2>1, QuietConserves DEF Try, TypeOK
  <2>2. CASE Available(g) /\ Take(g) /\ hold' = [hold EXCEPT ![c] = @ \cup {g}]
    BY <1>1, <2>2, TakeConserves, Zenon DEF Try
  <2> QED
    BY <2>1, <2>2 DEF Try
<1>3. TypeOK'
  <2>1. pc' \in [Conn -> PC]
    BY DEF TypeOK, Try, Move, PC
  <2>2. hold' \in [Conn -> SUBSET Grant]
    BY <1>1 DEF TypeOK, Try
  <2> QED
    BY <1>2, <2>1, <2>2, ZenonT(20) DEF TypeOK, Try
<1>4. HoldsMatch'
  BY <1>1 DEF HoldsMatch, TypeOK, Try, Move, Entered, Reservation
<1>5. AcceptorMatches' /\ LoginsMeetOpenPolicy' /\ OpenNoted'
  BY ZenonT(20) DEF AcceptorMatches, LoginsMeetOpenPolicy, OpenNoted, TypeOK, Try, Move
<1> QED
  BY ZenonT(20), <1>2, <1>3, <1>4, <1>5

\* drop(admission) when the backend has the login.
LEMMA ConnectedInductive ==
  ASSUME Inductive, NEW c \in Conn, Connected(c)
  PROVE  Inductive'
<1> USE DEF Inductive
<1>1. "prelogin" \in Grant /\ "prelogin" \in hold[c]
  BY DEF HoldsMatch, Connected, Move, Entered, Grant
<1>2. PermitsConserved' /\ free' \in [Semaphore -> Nat]
  BY <1>1, DropConserves, Zenon DEF Connected
<1>3. TypeOK'
  BY ZenonT(20), <1>2 DEF TypeOK, Connected, Move, PC
<1>4. HoldsMatch'
  BY DEF HoldsMatch, TypeOK, Connected, Move, Entered, Reservation
<1>5. AcceptorMatches' /\ LoginsMeetOpenPolicy' /\ OpenNoted'
  BY DEF AcceptorMatches, LoginsMeetOpenPolicy, OpenNoted, TypeOK, Connected, Move
<1> QED
  BY <1>2, <1>3, <1>4, <1>5

\* One drop of a refused tuple, of a scope or of a task that never ran.
LEMMA DropInductive ==
  ASSUME Inductive, NEW c \in Conn, NEW g \in Grant,
         DropField(c, g) \/ DropLocal(c, g) \/ DropCaptured(c, g)
  PROVE  Inductive'
<1> USE DEF Inductive
<1>1. /\ g \in hold[c] /\ pc[c] \in {"short", "leave", "scrap"}
      /\ hold' = [hold EXCEPT ![c] = @ \ {g}] /\ Return(g)
      /\ UNCHANGED <<acceptor, refresh, gate, policy, met>>
      /\ \/ pc' = pc
         \/ pc' = [pc EXCEPT ![c] = "idle"] /\ hold[c] = {g}
  BY DEF DropField, DropLocal, DropCaptured, Drop
<1>2. PermitsConserved' /\ free' \in [Semaphore -> Nat]
  BY <1>1, DropConserves, Zenon
<1>3. TypeOK'
  BY ZenonT(20), <1>1, <1>2 DEF TypeOK, PC
<1>4. HoldsMatch'
  <2>1. /\ \A d \in Conn : d # c => pc'[d] = pc[d] /\ hold'[d] = hold[d]
        /\ pc'[c] \in {"short", "leave", "scrap"} \/ (pc'[c] = "idle" /\ hold'[c] = {})
    <3>1. hold'[c] = hold[c] \ {g} /\ (pc'[c] = pc[c] \/ (pc'[c] = "idle" /\ hold[c] = {g}))
      BY <1>1, Zenon DEF TypeOK
    <3>2. \A d \in Conn : d # c => pc'[d] = pc[d] /\ hold'[d] = hold[d]
      BY <1>1, Zenon DEF TypeOK
    <3> QED
      BY ZenonT(20), <1>1, <3>1, <3>2
  <2> QED
    BY ZenonT(20), <2>1 DEF HoldsMatch
<1>5. AcceptorMatches' /\ LoginsMeetOpenPolicy' /\ OpenNoted'
  BY <1>1 DEF AcceptorMatches, LoginsMeetOpenPolicy, OpenNoted, TypeOK
<1> QED
  BY ZenonT(20), <1>2, <1>3, <1>4, <1>5

\* The accept loop hands both permits to a new task.
LEMMA AcceptSpawnInductive ==
  ASSUME Inductive, NEW c \in Conn, AcceptSpawn(c)
  PROVE  Inductive'
<1> USE DEF Inductive
<1>1. hold[c] = {} /\ acceptor.hold = {"client"} /\ acceptor'.hold = {}
  BY DEF HoldsMatch, AcceptSpawn, Selecting
<1>2. \A g \in Grant : Cardinality(Holders(g)')
                         = Cardinality(Holders(g)) + Truth(g \in {"client", "prelogin"})
  <2> TAKE g \in Grant
  <2>1. CASE g \in {"client", "prelogin"}
    <3>1. Holders(g)' = Holders(g) \cup {c} /\ c \notin Holders(g)
      BY <1>1, <2>1 DEF Holders, TypeOK, AcceptSpawn
    <3> QED
      BY <2>1, <3>1, HoldersFinite, FS_AddElement, Zenon DEF Truth
  <2>2. CASE g \notin {"client", "prelogin"}
    <3>1. Holders(g)' = Holders(g)
      BY ZenonT(20), <1>1, <2>2 DEF Holders, TypeOK, AcceptSpawn
    <3> QED
      BY <2>2, <3>1, HoldersFinite DEF Truth
  <2> QED
    BY <2>1, <2>2
<1>3. /\ free' = [free EXCEPT !["prelogin"] = free["prelogin"] - 1]
      /\ free' \in [Semaphore -> Nat]
  BY DEF AcceptSpawn, Take, Available, Of, TypeOK, Semaphore
<1>4. PermitsConserved'
  <2>1. \A s \in Semaphore : Used(s)' = Used(s) + Truth(s = "prelogin")
    <3>1. /\ Truth("client" \in acceptor.hold) = 1 /\ Truth("client" \in acceptor.hold)' = 0
          /\ Truth("prelogin" \in acceptor.hold) = 0 /\ Truth("prelogin" \in acceptor.hold)' = 0
          /\ Truth(refresh = "polling")' = Truth(refresh = "polling")
      BY <1>1, Zenon DEF Truth, AcceptSpawn
    <3>2. /\ Cardinality(Holders("client")') = Cardinality(Holders("client")) + 1
          /\ Cardinality(Holders("prelogin")') = Cardinality(Holders("prelogin")) + 1
          /\ \A g \in Grant \ {"client", "prelogin"} :
               Cardinality(Holders(g)') = Cardinality(Holders(g)) + 0
      BY <1>2, Zenon DEF Grant, Truth
    <3>3. \A g \in Grant : Cardinality(Holders(g)) \in Nat
      BY HoldersFinite, Zenon
    <3> QED
      BY <3>1, <3>2, <3>3, UsedValues, UsedValuesNext DEF Semaphore, Grant, Truth
  <2>2. \A s \in Semaphore : Used(s) \in Nat
    BY UsedNat, Zenon
  <2>3. \A s \in Semaphore : free'[s] = free[s] - Truth(s = "prelogin")
    BY <1>3 DEF TypeOK, Truth
  <2> QED
    <3>1. ASSUME NEW s \in Semaphore PROVE free'[s] + Used(s)' = Permits(s)
      <4>1. free[s] \in Nat /\ Truth(s = "prelogin") \in Int
        BY TruthInt, Zenon DEF TypeOK
      <4>2. (free[s] - Truth(s = "prelogin")) + (Used(s) + Truth(s = "prelogin"))
              = free[s] + Used(s)
        BY <2>2, <4>1, Shifted, Zenon
      <4>3. free[s] + Used(s) = Permits(s)
        BY Zenon DEF PermitsConserved
      <4>4. /\ free'[s] = free[s] - Truth(s = "prelogin")
            /\ Used(s)' = Used(s) + Truth(s = "prelogin")
        BY <2>1, <2>3, Zenon
      <4> QED
        BY <4>2, <4>3, <4>4, Zenon
    <3> QED
      BY <3>1, Zenon DEF PermitsConserved
<1>5. TypeOK'
  BY ZenonT(20), <1>3 DEF TypeOK, AcceptSpawn, Selecting, PC, Grant
<1>6. HoldsMatch'
  BY ZenonT(20) DEF HoldsMatch, TypeOK, AcceptSpawn, Entered
<1>7. AcceptorMatches' /\ LoginsMeetOpenPolicy' /\ OpenNoted'
  BY DEF AcceptorMatches, LoginsMeetOpenPolicy, OpenNoted, TypeOK, AcceptSpawn, Selecting
<1> QED
  BY ZenonT(20), <1>4, <1>5, <1>6, <1>7

\* What remains to be shown for the accept loop and the cache task, which leave
\* the tasks alone.
LEMMA LoneInductive ==
  ASSUME Inductive, UNCHANGED <<pc, hold, gate, policy, met>>,
         PermitsConserved', free' \in [Semaphore -> Nat],
         acceptor' \in [at : {"select", "prelogin", "refuse"}, hold : SUBSET {"client", "prelogin"}],
         AcceptorMatches', refresh' \in {"asleep", "polling", "aborted"}
  PROVE  Inductive'
<1> USE DEF Inductive
<1>1. TypeOK'
  BY ZenonT(20) DEF TypeOK
<1>2. HoldsMatch' /\ LoginsMeetOpenPolicy' /\ OpenNoted'
  BY ZenonT(20) DEF HoldsMatch, LoginsMeetOpenPolicy, OpenNoted
<1> QED
  BY <1>1, <1>2

\* The accept loop tries its two permits and drops what it cannot use.
LEMMA AcceptInductive ==
  ASSUME Inductive, Accept
  PROVE  Inductive'
<1> USE DEF Inductive
<1>1. /\ acceptor' \in [at : {"select", "prelogin", "refuse"}, hold : SUBSET {"client", "prelogin"}]
      /\ AcceptorMatches'
      /\ UNCHANGED <<pc, hold, refresh, gate, policy, met>>
  BY DEF TypeOK, AcceptorMatches, Accept, AcceptSocket, AcceptShort, AcceptRefuse, Selecting
<1>2. PermitsConserved' /\ free' \in [Semaphore -> Nat]
  <2>1. CASE free' = free /\ acceptor'.hold = acceptor.hold
    <3>1. \A x \in Semaphore : Used(x)' = Used(x)
      BY <1>1, <2>1, UsedValues, UsedValuesNext, SameHolders DEF Semaphore, Grant, Truth
    <3> QED
      BY ZenonT(20), <2>1, <3>1 DEF PermitsConserved, TypeOK
  <2>2. ASSUME NEW g \in {"client", "prelogin"}, Available(g), Take(g),
               acceptor.hold = {}, acceptor'.hold = {g}
        PROVE  PermitsConserved' /\ free' \in [Semaphore -> Nat]
    <3> PICK d \in {-1, 1} : d = 1
      OBVIOUS
    <3>1. free' = [free EXCEPT ![Of(g)] = @ - d]
      BY <2>2 DEF Take
    <3>2. /\ Truth("client" \in acceptor.hold)'
               = Truth("client" \in acceptor.hold) + (IF g = "client" THEN d ELSE 0)
          /\ Truth("prelogin" \in acceptor.hold)'
               = Truth("prelogin" \in acceptor.hold) + (IF g = "prelogin" THEN d ELSE 0)
          /\ Truth(refresh = "polling")'
               = Truth(refresh = "polling") + (IF g = "upstream" THEN d ELSE 0)
      BY <1>1, <2>2, SmallSums, ZenonT(20) DEF Truth
    <3> QED
      BY <1>1, <2>2, <3>1, <3>2, LoneConserves, Zenon
  <2>3. ASSUME NEW g \in {"client", "prelogin"}, Return(g),
               acceptor.hold = {g}, acceptor'.hold = {}
        PROVE  PermitsConserved' /\ free' \in [Semaphore -> Nat]
    <3> PICK d \in {-1, 1} : d = -1
      OBVIOUS
    <3>0. free[Of(g)] + 1 = free[Of(g)] - d
      <4>1. free[Of(g)] \in Nat
        BY DEF TypeOK, Of, Semaphore
      <4> QED
        BY <4>1
    <3>1. free' = [free EXCEPT ![Of(g)] = @ - d]
      BY <2>3, <3>0, Zenon DEF Return
    <3>2. /\ Truth("client" \in acceptor.hold)'
               = Truth("client" \in acceptor.hold) + (IF g = "client" THEN d ELSE 0)
          /\ Truth("prelogin" \in acceptor.hold)'
               = Truth("prelogin" \in acceptor.hold) + (IF g = "prelogin" THEN d ELSE 0)
          /\ Truth(refresh = "polling")'
               = Truth(refresh = "polling") + (IF g = "upstream" THEN d ELSE 0)
      BY <1>1, <2>3, SmallSums, ZenonT(20) DEF Truth
    <3>3. g \in {"client", "prelogin", "upstream"} /\ (d = 1 => Available(g)) /\ UNCHANGED hold
      BY <1>1
    <3> QED
      BY <3>1, <3>2, <3>3, LoneConserves, Zenon
  <2>4. CASE AcceptSocket
    BY <2>1, <2>2, <2>4 DEF AcceptSocket, AcceptorMatches
  <2>5. CASE AcceptShort
    <3>1. [acceptor EXCEPT !.at = "refuse"].hold = acceptor.hold
      BY DEF TypeOK
    <3>2. [at |-> "refuse", hold |-> {"prelogin"}].hold = {"prelogin"}
      OBVIOUS
    <3> QED
      BY <2>1, <2>2, <2>5, <3>1, <3>2, ZenonT(20) DEF AcceptShort
  <2>6. CASE AcceptRefuse
    BY ZenonT(20), <2>1, <2>3, <2>6 DEF AcceptRefuse, AcceptorMatches, Selecting
  <2> QED
    BY ZenonT(20), <2>4, <2>5, <2>6 DEF Accept
<1> QED
  BY <1>1, <1>2, LoneInductive DEF TypeOK

\* The cache task takes one socket permit for a poll and returns it, also when
\* it is aborted.
LEMMA RefreshInductive ==
  ASSUME Inductive, Refresh
  PROVE  Inductive'
<1> USE DEF Inductive
<1>1. /\ refresh' \in {"asleep", "polling", "aborted"}
      /\ UNCHANGED <<pc, hold, acceptor, gate, policy, met>>
  BY DEF Refresh, Poll, PollEnds, RefreshAborted
<1>2. PermitsConserved' /\ free' \in [Semaphore -> Nat]
  <2>1. CASE free' = free /\ refresh # "polling" /\ refresh' # "polling"
    <3>1. \A x \in Semaphore : Used(x)' = Used(x)
      BY ZenonT(20), <1>1, <2>1, UsedValues, UsedValuesNext, SameHolders DEF Semaphore, Grant, Truth
    <3> QED
      BY ZenonT(20), <2>1, <3>1 DEF PermitsConserved, TypeOK
  <2>2. CASE Poll
    <3> PICK g \in {"client", "prelogin", "upstream"} : g = "upstream"
      OBVIOUS
    <3> PICK d \in {-1, 1} : d = 1
      OBVIOUS
    <3>1. free' = [free EXCEPT ![Of(g)] = @ - d] /\ Available(g)
      BY <2>2 DEF Poll, Take
    <3>2. /\ Truth("client" \in acceptor.hold)'
               = Truth("client" \in acceptor.hold) + (IF g = "client" THEN d ELSE 0)
          /\ Truth("prelogin" \in acceptor.hold)'
               = Truth("prelogin" \in acceptor.hold) + (IF g = "prelogin" THEN d ELSE 0)
          /\ Truth(refresh = "polling")'
               = Truth(refresh = "polling") + (IF g = "upstream" THEN d ELSE 0)
      BY <1>1, <2>2, SmallSums, ZenonT(20) DEF Poll, Truth
    <3> QED
      BY <1>1, <3>1, <3>2, LoneConserves
  <2>3. CASE Return("upstream") /\ refresh = "polling" /\ refresh' # "polling"
    <3> PICK g \in {"client", "prelogin", "upstream"} : g = "upstream"
      OBVIOUS
    <3> PICK d \in {-1, 1} : d = -1
      OBVIOUS
    <3>0. free[Of(g)] + 1 = free[Of(g)] - d
      <4>1. free[Of(g)] \in Nat
        BY DEF TypeOK, Of, Semaphore
      <4> QED
        BY <4>1
    <3>1. free' = [free EXCEPT ![Of(g)] = @ - d]
      BY <2>3, <3>0, Zenon DEF Return
    <3>2. /\ Truth("client" \in acceptor.hold)'
               = Truth("client" \in acceptor.hold) + (IF g = "client" THEN d ELSE 0)
          /\ Truth("prelogin" \in acceptor.hold)'
               = Truth("prelogin" \in acceptor.hold) + (IF g = "prelogin" THEN d ELSE 0)
          /\ Truth(refresh = "polling")'
               = Truth(refresh = "polling") + (IF g = "upstream" THEN d ELSE 0)
      BY <1>1, <2>3, SmallSums, ZenonT(20) DEF Truth
    <3> QED
      BY <1>1, <3>1, <3>2, LoneConserves
  <2> QED
    BY <2>1, <2>2, <2>3 DEF Refresh, PollEnds, RefreshAborted
<1>3. AcceptorMatches'
  BY <1>1 DEF AcceptorMatches
<1> QED
  BY ZenonT(20), <1>1, <1>2, <1>3, LoneInductive DEF TypeOK

\* A task goes on, gives up, ends its relay or is aborted.
LEMMA TaskInductive ==
  ASSUME Inductive, NEW c \in Conn,
         Advance(c) \/ Release(c) \/ RelayEnds(c) \/ Cancel(c)
  PROVE  Inductive'
<1> DEFINE Paired(from, to) == from \in PC /\ to \in PC /\ Proceed(c, from, to)
<1>1. CASE Start(c) \/ Identify(c) \/ AskStatus(c) \/ Request(c) \/ Respond(c) \/ EnterBackend(c) \/ Short(c)
  <2>1. CASE Start(c)
    <3>1. Paired("spawned", "hello")
      BY ZenonT(20), <2>1 DEF Start, PC, Early
    <3> QED
      BY <3>1, ProceedInductive
  <2>2. CASE Identify(c)
    <3>1. Paired("hello", "handshake")
      BY ZenonT(20), <2>2 DEF Identify, PC, Early
    <3> QED
      BY <3>1, ProceedInductive
  <2>3. CASE AskStatus(c)
    <3>1. Paired("handshake", "status")
      BY ZenonT(20), <2>3 DEF AskStatus, PC, Early
    <3> QED
      BY <3>1, ProceedInductive
  <2>4. CASE Request(c)
    <3>1. Paired("request", "respond")
      BY ZenonT(20), <2>4 DEF Request, PC, Early
    <3> QED
      BY <3>1, ProceedInductive
  <2>5. CASE Respond(c)
    <3>1. Paired("respond", "ping")
      BY ZenonT(20), <2>5 DEF Respond, PC, Early
    <3> QED
      BY <3>1, ProceedInductive
  <2>6. CASE EnterBackend(c)
    <3>1. Paired("match", "dial")
      BY ZenonT(20), <2>6 DEF EnterBackend, PC, Early
    <3> QED
      BY ZenonT(20), <2>6, <3>1, ProceedInductive DEF EnterBackend
  <2>7. CASE Short(c)
    <3>1. Paired("match", "short")
      BY ZenonT(20), <2>7 DEF Short, PC, Early
    <3> QED
      BY ZenonT(20), <3>1, ProceedInductive
  <2> QED
    BY ZenonT(20), <1>1, <2>1, <2>2, <2>3, <2>4, <2>5, <2>6, <2>7
<1>2. CASE Login(c)
  <2>1. Paired("login", "admit") /\ c \in met
    BY <1>2 DEF Login, Proceed, Move, Inductive, OpenNoted, PC, Early
  <2> QED
    BY ZenonT(20), <2>1, ProceedInductive
<1>3. CASE TakeStatus(c)
  BY <1>3, TakeStatusInductive
<1>4. CASE AskLogin(c)
  BY <1>4, AskLoginInductive
<1>5. CASE TryAdmitted(c) \/ TryBackend(c) \/ TrySocket(c)
  BY ZenonT(20), <1>5, TryInductive DEF TryAdmitted, TryBackend, TrySocket
<1>6. CASE Connected(c)
  BY <1>6, ConnectedInductive
<1>7. CASE Close(c) \/ GiveUp(c) \/ RelayEnds(c)
  BY <1>7, LeaveInductive DEF Close, GiveUp, RelayEnds
<1>8. CASE \E g \in Grant : DropField(c, g) \/ DropLocal(c, g) \/ DropCaptured(c, g)
  BY <1>8, DropInductive
<1>9. CASE Cancel(c)
  <2>1. CASE Leave(c)
    BY <2>1, LeaveInductive
  <2>2. CASE Paired("spawned", "scrap")
    BY <2>2, ProceedInductive
  <2> QED
    BY ZenonT(20), <1>9, <2>1, <2>2 DEF Cancel, PC
<1> QED
  BY <1>1, <1>2, <1>3, <1>4, <1>5, <1>6, <1>7, <1>8, <1>9, Zenon DEF Advance, Release

\* Every step preserves the invariant.
LEMMA StepInductive ==
  ASSUME Inductive, [Next]_vars
  PROVE  Inductive'
<1>1. CASE Accept
  BY <1>1, AcceptInductive
<1>2. CASE Refresh
  BY ZenonT(20), <1>2, RefreshInductive
<1>3. CASE Stop
  BY ZenonT(20), <1>3, OutsideInductive DEF Stop, Shutdown, DrainExpires, Drained, Inductive, TypeOK
<1>4. ASSUME NEW p \in Policy, Publish(p)
      PROVE  Inductive'
  BY <1>4, OutsideInductive DEF Publish, Inductive, TypeOK
<1>5. ASSUME NEW c \in Conn, AcceptSpawn(c) \/ Advance(c) \/ Release(c) \/ RelayEnds(c) \/ Cancel(c)
      PROVE  Inductive'
  BY <1>5, AcceptSpawnInductive, TaskInductive, Zenon
<1>6. CASE UNCHANGED vars
  BY <1>6, OutsideInductive DEF vars, Inductive, TypeOK
<1> QED
  BY <1>1, <1>2, <1>3, <1>4, <1>5, <1>6, Zenon DEF Next

\* The invariant holds in every behaviour.
LEMMA InductiveAlways == Spec => []Inductive
  BY InitInductive, StepInductive, PTL DEF Spec

\* No semaphore of run() is ever acquired beyond its permits, and every task
\* is at a stage of handle().
THEOREM TypeCorrect == Spec => []TypeOK
<1>1. Inductive => TypeOK
  BY DEF Inductive
<1> QED
  BY <1>1, InductiveAlways, PTL

\* No path through handle(), the accept loop, the cache task or an abort loses
\* or duplicates a permit, for any number of connections.
THEOREM PermitsAreConserved == Spec => []PermitsConserved
<1>1. Inductive => PermitsConserved
  BY DEF Inductive
<1> QED
  BY <1>1, InductiveAlways, PTL

\* The limits of the configuration bound the sessions, status sessions, relays
\* and backend connections of handle() and refresh().
THEOREM LimitsAlwaysHold == Spec => []LimitsHold
  BY ConservedLimits, InductiveAlways, PTL

\* The sizes that Config::validate() requires leave a socket permit for every
\* reserved backend connection and for the cache task.
THEOREM SocketsAreReserved == Spec => []SocketReserved
<1>1. Inductive => SocketReserved
  BY ConservedReserves DEF Inductive
<1> QED
  BY <1>1, InductiveAlways, PTL

\* A login that goes on to the backend has met an open policy since its
\* handshake, whenever the controller publishes.
THEOREM LoginsAreFresh == Spec => []LoginsMeetOpenPolicy
<1>1. Inductive => LoginsMeetOpenPolicy
  BY DEF Inductive
<1> QED
  BY <1>1, InductiveAlways, PTL
=============================================================================
