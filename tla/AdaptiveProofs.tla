--------------------------- MODULE AdaptiveProofs ---------------------------
(***************************************************************************)
(* What the adaptive policy guarantees for every set of signals, bands,    *)
(* sample counts and intervals, and every spacing of the samples.          *)
(***************************************************************************)
EXTENDS AdaptiveHistory, WellFoundedInduction, TLAPS

\* The intervals, as the proofs use them.
LEMMA Intervals ==
  /\ UpSamples \in Nat \ {0} /\ DownSamples \in Nat \ {0}
  /\ EmergencyMax \in Nat \ {0} /\ EmergencyRearm \in Nat \ {0} /\ MaxGap \in Nat \ {0}
  /\ UpCooldown \in Nat /\ CooldownSeconds \in Nat
  /\ Horizon \in Nat /\ EmergencyMax <= Horizon
  /\ Len(StageSeconds) \in Nat \ {0}
<1>1. EmergencyMax \in Durations
  BY DEF Durations
<1>2. Len(StageSeconds) \in Nat \ {0}
  BY IntervalAssumption
<1> QED
  BY <1>1, <1>2, IntervalAssumption

\* The loop of _targets() ends with one of the modes it looked at, or NORMAL.
LEMMA HighestIsMember ==
  ASSUME NEW S \in SUBSET (0..3), 0 \in S
  PROVE  Highest(S) \in S
<1>1. \E m \in S : \A n \in S : n <= m
  <2>1. CASE 3 \in S
    BY <2>1
  <2>2. CASE 3 \notin S /\ 2 \in S
    BY <2>2
  <2>3. CASE 3 \notin S /\ 2 \notin S /\ 1 \in S
    BY <2>3
  <2>4. CASE 3 \notin S /\ 2 \notin S /\ 1 \notin S
    BY <2>4
  <2> QED
    BY <2>1, <2>2, <2>3, <2>4
<1> QED
  BY <1>1, Zenon DEF Highest

\* Both targets are modes, and EMERGENCY only when no block is left.
LEMMA Targets ==
  ASSUME NEW s, NEW b
  PROVE  /\ Target(s, b) \in Modes /\ ImmediateTarget(s, b) \in Modes
         /\ Target(s, b) = EMERGENCY => b = 0
         /\ ImmediateTarget(s, b) = EMERGENCY => b = 0
<1> DEFINE S == {NORMAL} \cup {m \in Raised : Eligible(m, s, b)}
           I == {NORMAL} \cup {m \in Raised : /\ Eligible(m, s, b)
                                              /\ Immediate[m] \cap High(m, s) # {}}
<1>1. S \in SUBSET (0..3) /\ 0 \in S /\ I \in SUBSET (0..3) /\ 0 \in I
  BY DEF NORMAL, Raised
<1>2. Highest(S) \in S /\ Highest(I) \in I
  BY <1>1, HighestIsMember, SMTT(20)
<1>3. EMERGENCY \in S => b = 0
  BY DEF Eligible, NORMAL, EMERGENCY
<1>4. EMERGENCY \in I => b = 0
  BY DEF Eligible, NORMAL, EMERGENCY
<1>5. Target(s, b) = Highest(S) /\ ImmediateTarget(s, b) = Highest(I)
  BY DEF Target, ImmediateTarget
<1> HIDE DEF S, I
<1> QED
  BY <1>1, <1>2, <1>3, <1>4, <1>5, Zenon DEF Modes

\* The alternatives of an observed sample.
LEMMA SampleCases ==
  ASSUME HistoryNext
  PROVE  \E s \in Sampled, dt \in 1..MaxGap :
           /\ Observe(s, dt)
           /\ \/ ExpireEmergency(s, dt) \/ Jump(s, dt) \/ SampleRecovery(s, dt)
              \/ Escalate(s, dt) \/ Relax(s, dt)
BY DEF HistoryNext

-----------------------------------------------------------------------------
(* Types *)

\* The history's own counters.
HistoryTypeOK ==
  /\ gap \in Nat /\ streak \in 0..UpSamples /\ called \in Modes
  /\ calm \in 0..DownSamples
  /\ frozen \in 0..EmergencyMax /\ rested \in 0..EmergencyRearm

\* Ages and what is left of a block stay in their ranges.
LEMMA Clocks ==
  ASSUME NEW dt \in 1..MaxGap
  PROVE  /\ \A a \in 0..Horizon : Aged(a, dt) \in 0..Horizon
         /\ \A r \in 0..EmergencyRearm : Left(r, dt) \in 0..EmergencyRearm
         /\ 0 \in 0..Horizon /\ dt \in Nat \ {0}
BY Intervals DEF Aged, Left

\* Every sample keeps the types of what the policy keeps.
LEMMA PolicyTypes ==
  ASSUME TypeOK, NEW s \in Sampled, NEW dt \in 1..MaxGap,
         \/ ExpireEmergency(s, dt) \/ Jump(s, dt) \/ SampleRecovery(s, dt)
         \/ Escalate(s, dt) \/ Relax(s, dt)
  PROVE  TypeOK'
<1> USE Intervals DEF TypeOK
<1>0. 0 \in -1..(Len(StageSeconds) - 1) /\ -1 \in -1..(Len(StageSeconds) - 1) /\ NORMAL \in Modes
  BY DEF NORMAL, Modes
<1>1. ASSUME ExpireEmergency(s, dt) PROVE TypeOK'
  <2>1. recovery' \in {0, -1} /\ recoveryAge' = 0
    BY <1>1 DEF ExpireEmergency, StartRecovery
  <2>2. mode' = ATTACK /\ changedAge' = 0 /\ up' = 0 /\ down' = 0 /\ target' = NORMAL
    BY <1>1 DEF ExpireEmergency, Transition
  <2>3. blockedFor' = EmergencyRearm /\ signals' = s
    BY <1>1 DEF ExpireEmergency
  <2> QED
    BY <1>0, <2>1, <2>2, <2>3 DEF ATTACK, Modes
<1>2. ASSUME Jump(s, dt) PROVE TypeOK'
  BY <1>0, <1>2, Clocks, Targets DEF Jump, Judging, Enter, Transition
<1>3. ASSUME SampleRecovery(s, dt) PROVE TypeOK'
  <2>1. recovery \in 0..(Len(StageSeconds) - 1)
    BY <1>3 DEF SampleRecovery, Recovering
  <2>2. NextStage \in -1..(Len(StageSeconds) - 1)
    BY <2>1 DEF NextStage
  <2>3. recovery' \in -1..(Len(StageSeconds) - 1) /\ recoveryAge' \in 0..Horizon
    BY <1>0, <1>3, <2>2, Clocks, Zenon DEF SampleRecovery, StartRecovery, KeepRecovery
  <2> QED
    BY <1>0, <1>3, <2>3, Clocks, Targets, Zenon DEF SampleRecovery, Debounced, Judging, StayInMode
<1>4. ASSUME Escalate(s, dt) PROVE TypeOK'
  <2> DEFINE t == Target(s, Left(blockedFor, dt))
  <2>1. t \in Modes /\ Agreeing(t) \in Nat
    BY Targets DEF Agreeing
  <2>2. Aged(changedAge, dt) \in 0..Horizon /\ Aged(recoveryAge, dt) \in 0..Horizon
    BY Clocks, Zenon
  <2>3. blockedFor' \in 0..EmergencyRearm /\ signals' = s /\ target' = t /\ down' = 0
    BY <1>4, Clocks DEF Escalate, Debounced, Judging
  <2>4. \/ Enter(t, dt) /\ up' = 0
        \/ StayInMode(dt) /\ KeepRecovery(dt) /\ up' = Agreeing(t)
    BY <1>4 DEF Escalate
  <2> HIDE DEF t
  <2>5. CASE Enter(t, dt) /\ up' = 0
    BY <1>0, <2>1, <2>2, <2>3, <2>5 DEF Enter, Transition
  <2>6. CASE StayInMode(dt) /\ KeepRecovery(dt) /\ up' = Agreeing(t)
    BY <2>1, <2>2, <2>3, <2>6 DEF StayInMode, KeepRecovery
  <2> QED
    BY <2>4, <2>5, <2>6
<1>5. ASSUME Relax(s, dt) PROVE TypeOK'
  <2>1. CalmSamples(s) \in Nat
    BY DEF CalmSamples
  <2>2. RelaxDue(s, dt) => mode - 1 \in Modes
    BY DEF RelaxDue, Modes, NORMAL
  <2>3. Aged(changedAge, dt) \in 0..Horizon /\ Aged(recoveryAge, dt) \in 0..Horizon
    BY Clocks, SMTT(20)
  <2>4. blockedFor' \in 0..EmergencyRearm /\ signals' = s /\ target' = target /\ up' = 0
    BY <1>5, Clocks DEF Relax, Debounced, Judging
  <2>5. CASE RelaxDue(s, dt)
    <3>1. mode' = mode - 1 /\ changedAge' = 0 /\ down' = 0 /\ (StartRecovery \/ KeepRecovery(dt))
      BY <1>5, <2>5 DEF Relax, Transition
    <3> QED
      BY <1>0, <2>2, <2>3, <2>4, <2>5, <3>1, SMTT(20) DEF StartRecovery, KeepRecovery
  <2>6. CASE ~RelaxDue(s, dt)
    <3>1. StayInMode(dt) /\ KeepRecovery(dt) /\ down' = CalmSamples(s)
      BY <1>5, <2>6 DEF Relax
    <3> QED
      BY <2>1, <2>3, <2>4, <3>1 DEF StayInMode, KeepRecovery
  <2> QED
    BY <2>5, <2>6
<1> QED
  BY <1>1, <1>2, <1>3, <1>4, <1>5

\* Every sample keeps the types of the history.
LEMMA HistoryTypes ==
  ASSUME TypeOK, HistoryTypeOK, NEW s \in Sampled, NEW dt \in 1..MaxGap, Observe(s, dt)
  PROVE  HistoryTypeOK'
BY Intervals, Targets DEF HistoryTypeOK, TypeOK, Observe, AtMost

-----------------------------------------------------------------------------
(* What a sample does to the mode *)

\* The mode stays and ages, or changes and is young again; a freeze at its
\* deadline ends, and no other freeze is aged past it.
LEMMA Moves ==
  ASSUME TypeOK, NEW s \in Sampled, NEW dt \in 1..MaxGap,
         \/ ExpireEmergency(s, dt) \/ Jump(s, dt) \/ SampleRecovery(s, dt)
         \/ Escalate(s, dt) \/ Relax(s, dt)
  PROVE  /\ Expiring(dt) => mode' = ATTACK /\ blockedFor' = EmergencyRearm
         /\ ~Expiring(dt) => blockedFor' = Left(blockedFor, dt)
         /\ \/ ~Expiring(dt) /\ mode' = mode /\ changedAge' = Aged(changedAge, dt)
            \/ mode' # mode /\ changedAge' = 0
<1>0. mode \in Int /\ Target(s, Left(blockedFor, dt)) \in Int /\ ImmediateTarget(s, Left(blockedFor, dt)) \in Int
  BY Targets DEF TypeOK, Modes
<1>1. ASSUME ExpireEmergency(s, dt)
      PROVE  /\ Expiring(dt) /\ mode' = ATTACK /\ mode = EMERGENCY /\ changedAge' = 0
             /\ blockedFor' = EmergencyRearm
  BY <1>1 DEF ExpireEmergency, Transition, Expiring
<1>2. ASSUME Jump(s, dt)
      PROVE  /\ ~Expiring(dt) /\ blockedFor' = Left(blockedFor, dt)
             /\ mode' # mode /\ changedAge' = 0
  BY <1>0, <1>2 DEF Jump, Judging, Enter, Transition
<1>3. ASSUME SampleRecovery(s, dt)
      PROVE  /\ ~Expiring(dt) /\ blockedFor' = Left(blockedFor, dt)
             /\ mode' = mode /\ changedAge' = Aged(changedAge, dt)
  BY <1>3 DEF SampleRecovery, Debounced, Judging, StayInMode
<1>4. ASSUME Escalate(s, dt)
      PROVE  /\ ~Expiring(dt) /\ blockedFor' = Left(blockedFor, dt)
             /\ \/ mode' = mode /\ changedAge' = Aged(changedAge, dt)
                \/ mode' # mode /\ changedAge' = 0
  BY <1>0, <1>4 DEF Escalate, Debounced, Judging, StayInMode, Enter, Transition
<1>5. ASSUME Relax(s, dt)
      PROVE  /\ ~Expiring(dt) /\ blockedFor' = Left(blockedFor, dt)
             /\ \/ mode' = mode /\ changedAge' = Aged(changedAge, dt)
                \/ mode' # mode /\ changedAge' = 0
  BY <1>0, <1>5 DEF Relax, Debounced, Judging, StayInMode, Transition
<1>6. ATTACK # EMERGENCY
  BY DEF ATTACK, EMERGENCY
<1> QED
  BY <1>1, <1>2, <1>3, <1>4, <1>5, <1>6

\* The history's clock of a freeze is the policy's own.
FreezeInv ==
  /\ mode = EMERGENCY => frozen = changedAge
  /\ mode # EMERGENCY => frozen = 0
  /\ FreezeBounded

\* A freeze is never aged to its deadline.
LEMMA FreezeStep ==
  ASSUME TypeOK, HistoryTypeOK, FreezeInv, NEW s \in Sampled, NEW dt \in 1..MaxGap,
         Observe(s, dt),
         \/ ExpireEmergency(s, dt) \/ Jump(s, dt) \/ SampleRecovery(s, dt)
         \/ Escalate(s, dt) \/ Relax(s, dt)
  PROVE  FreezeInv'
<1>1. /\ \/ ~Expiring(dt) /\ mode' = mode /\ changedAge' = Aged(changedAge, dt)
         \/ mode' # mode /\ changedAge' = 0
  BY Moves
<1>2. frozen' = IF mode = EMERGENCY /\ mode' = EMERGENCY THEN AtMost(EmergencyMax, frozen + dt) ELSE 0
  BY DEF Observe
<1>3. changedAge \in Nat /\ dt \in Nat
  BY Intervals DEF TypeOK
<1> QED
  BY <1>1, <1>2, <1>3, Intervals DEF FreezeInv, FreezeBounded, Expiring, Aged, AtMost

\* What is left of a block makes up for what is missing of the rest.
RestInv == rested + blockedFor >= EmergencyRearm

\* A block runs as long as the rest it stands for.
LEMMA RestStep ==
  ASSUME TypeOK, HistoryTypeOK, RestInv, NEW s \in Sampled, NEW dt \in 1..MaxGap,
         Observe(s, dt),
         \/ ExpireEmergency(s, dt) \/ Jump(s, dt) \/ SampleRecovery(s, dt)
         \/ Escalate(s, dt) \/ Relax(s, dt)
  PROVE  /\ RestInv'
         /\ ~Expiring(dt) /\ Left(blockedFor, dt) = 0 => rested' >= EmergencyRearm
<1>1. /\ Expiring(dt) => blockedFor' = EmergencyRearm
      /\ ~Expiring(dt) => blockedFor' = Left(blockedFor, dt)
  BY Moves
<1>2. rested' = IF Expiring(dt) THEN 0 ELSE AtMost(EmergencyRearm, rested + dt)
  BY DEF Observe
<1>3. blockedFor \in Nat /\ rested \in Nat /\ dt \in Nat /\ EmergencyRearm \in Nat
  BY Intervals DEF TypeOK, HistoryTypeOK
<1> QED
  BY <1>1, <1>2, <1>3 DEF RestInv, AtMost, Left

\* A recovery is confined to ATTACK.
LEMMA RecoveryStep ==
  ASSUME TypeOK, RecoveryInAttack, NEW s \in Sampled, NEW dt \in 1..MaxGap,
         \/ ExpireEmergency(s, dt) \/ Jump(s, dt) \/ SampleRecovery(s, dt)
         \/ Escalate(s, dt) \/ Relax(s, dt)
  PROVE  RecoveryInAttack'
<1> USE DEF RecoveryInAttack
<1>0. /\ mode \in Modes /\ recovery \in Int /\ Target(s, Left(blockedFor, dt)) \in Modes
      /\ ImmediateTarget(s, Left(blockedFor, dt)) \in Modes
  BY Targets, Intervals DEF TypeOK
<1>1. ASSUME ExpireEmergency(s, dt) PROVE RecoveryInAttack'
  BY <1>1 DEF ExpireEmergency, Transition, StartRecovery
<1>2. ASSUME Jump(s, dt) PROVE RecoveryInAttack'
  BY <1>0, <1>2 DEF Jump, Enter, Transition, Modes, ATTACK, EMERGENCY
<1>3. ASSUME SampleRecovery(s, dt) PROVE RecoveryInAttack'
  BY <1>3 DEF SampleRecovery, Recovering, StayInMode
<1>4. ASSUME Escalate(s, dt) PROVE RecoveryInAttack'
  BY <1>0, <1>4 DEF Escalate, Enter, Transition, StayInMode, KeepRecovery, Modes, ATTACK, EMERGENCY
<1>5. ASSUME Relax(s, dt) PROVE RecoveryInAttack'
  BY <1>0, <1>5 DEF Relax, Recovering, Transition, StayInMode, KeepRecovery, StartRecovery,
                    Modes, ATTACK, EMERGENCY
<1> QED
  BY <1>1, <1>2, <1>3, <1>4, <1>5

\* The policy's counters never run ahead of the samples that earned them.
CountInv ==
  /\ up > 0 => called = target /\ streak >= AtMost(UpSamples, up)
  /\ calm >= AtMost(DownSamples, down)

\* Every sample counts for the policy as it counts for the history.
LEMMA CountStep ==
  ASSUME TypeOK, HistoryTypeOK, CountInv, NEW s \in Sampled, NEW dt \in 1..MaxGap,
         Observe(s, dt),
         \/ ExpireEmergency(s, dt) \/ Jump(s, dt) \/ SampleRecovery(s, dt)
         \/ Escalate(s, dt) \/ Relax(s, dt)
  PROVE  CountInv'
<1> DEFINE t == Target(s, Left(blockedFor, dt))
<1>1. /\ up \in Nat /\ down \in Nat /\ streak \in Nat /\ calm \in Nat
      /\ UpSamples \in Nat \ {0} /\ DownSamples \in Nat \ {0}
  BY Intervals DEF TypeOK, HistoryTypeOK
<1>2. HistoryTypeOK' /\ streak' \in Nat /\ calm' \in Nat
  BY HistoryTypes, Intervals DEF HistoryTypeOK
<1>3. ASSUME up' = 0, down' = 0 PROVE CountInv'
  BY <1>1, <1>2, <1>3 DEF CountInv, AtMost
<1>4. ASSUME ExpireEmergency(s, dt) \/ Jump(s, dt) \/ SampleRecovery(s, dt) PROVE CountInv'
  BY <1>3, <1>4 DEF ExpireEmergency, Jump, SampleRecovery
<1>5. ASSUME Escalate(s, dt) PROVE CountInv'
  <2>1. /\ ~Expiring(dt) /\ target' = t /\ down' = 0 /\ up' \in {0, Agreeing(t)}
        /\ called' = t /\ streak' = AtMost(UpSamples, IF called = t THEN streak + 1 ELSE 1)
    BY <1>5 DEF Escalate, Debounced, Judging, Observe
  <2> HIDE DEF t
  <2> QED
    BY <1>1, <1>2, <2>1 DEF CountInv, AtMost, Agreeing
<1>6. ASSUME Relax(s, dt) PROVE CountInv'
  <2>1. CASE RelaxDue(s, dt)
    BY <1>3, <1>6, <2>1 DEF Relax
  <2>2. CASE ~RelaxDue(s, dt)
    <3>1. up' = 0 /\ mode' = mode /\ down' = CalmSamples(s)
      BY <1>6, <2>2 DEF Relax, StayInMode
    <3>2. calm' = IF BelowExit(mode, s) THEN AtMost(DownSamples, calm + 1) ELSE 0
      BY <3>1 DEF Observe
    <3> QED
      BY <1>1, <1>2, <3>1, <3>2 DEF CountInv, AtMost, CalmSamples
  <2> QED
    BY <2>1, <2>2
<1> QED
  BY <1>4, <1>5, <1>6

-----------------------------------------------------------------------------
(* Theorems *)

\* The invariant of the policy and its history.
HistoryInv ==
  TypeOK /\ HistoryTypeOK /\ RecoveryInAttack /\ FreezeInv /\ RestInv /\ CountInv

\* The invariant holds initially and is kept by every sample.
LEMMA HistoryInductive ==
  /\ HistoryInit => HistoryInv
  /\ HistoryInv /\ [HistoryNext]_hvars => HistoryInv'
<1>1. ASSUME HistoryInit PROVE HistoryInv
  <2>1. TypeOK
    BY <1>1, Intervals DEF HistoryInit, Init, TypeOK, Sampled, NORMAL, Modes
  <2>2. HistoryTypeOK
    BY <1>1, Intervals DEF HistoryInit, HistoryTypeOK, NORMAL, Modes
  <2> QED
    BY <1>1, <2>1, <2>2, Intervals
    DEF HistoryInit, Init, HistoryInv, RecoveryInAttack, FreezeInv, FreezeBounded, RestInv, CountInv,
        AtMost, NORMAL, EMERGENCY
<1>2. ASSUME HistoryInv, HistoryNext PROVE HistoryInv'
  BY <1>2, SampleCases, PolicyTypes, HistoryTypes, RecoveryStep, FreezeStep, RestStep, CountStep
  DEF HistoryInv
<1>3. ASSUME HistoryInv, UNCHANGED hvars PROVE HistoryInv'
  BY <1>3 DEF hvars, vars, history, HistoryInv, TypeOK, HistoryTypeOK, RecoveryInAttack, FreezeInv,
              FreezeBounded, RestInv, CountInv
<1> QED
  BY <1>1, <1>2, <1>3

\* The mode, its counters and its ages keep their types, and the recovery index
\* stays within the configured stages.
THEOREM AdaptiveTypes == HistorySpec => []TypeOK
<1>1. HistoryInv => TypeOK
  BY DEF HistoryInv
<1> QED
  BY <1>1, HistoryInductive, PTL DEF HistorySpec

\* A staged recovery runs only in ATTACK and only when it is configured,
\* whichever way ATTACK was entered and whichever way it is left.
THEOREM RecoveryStaysInAttack == HistorySpec => []RecoveryInAttack
<1>1. HistoryInv => RecoveryInAttack
  BY DEF HistoryInv
<1> QED
  BY <1>1, HistoryInductive, PTL DEF HistorySpec

\* No sample finds the policy frozen emergency_max_seconds after the freeze
\* began, whatever the signals are and however the samples are spaced.
THEOREM FreezeIsBounded == HistorySpec => []FreezeBounded
<1>1. HistoryInv => FreezeBounded
  BY DEF HistoryInv, FreezeInv
<1> QED
  BY <1>1, HistoryInductive, PTL DEF HistorySpec

\* One sample changes the mode only on the configured evidence.
LEMMA ChangeEarned ==
  ASSUME HistoryInv, NEW s \in Sampled, NEW dt \in 1..MaxGap, Observe(s, dt),
         \/ ExpireEmergency(s, dt) \/ Jump(s, dt) \/ SampleRecovery(s, dt)
         \/ Escalate(s, dt) \/ Relax(s, dt)
  PROVE  /\ mode' > mode => RaiseEarned
         /\ mode' < mode => mode' = mode - 1 /\ LowerEarned
         /\ mode # EMERGENCY /\ mode' = EMERGENCY => rested' >= EmergencyRearm
<1> DEFINE b == Left(blockedFor, dt)
           t == Target(s, b)
           i == ImmediateTarget(s, b)
<1>1. mode \in Modes /\ t \in Modes /\ i \in Modes /\ (t = EMERGENCY => b = 0) /\ (i = EMERGENCY => b = 0)
  BY Targets DEF HistoryInv, TypeOK
<1>2. ~Expiring(dt) /\ b = 0 => rested' >= EmergencyRearm
  BY RestStep DEF HistoryInv
<1>3. gap' = dt
  BY DEF Observe
<1>4. ASSUME ExpireEmergency(s, dt)
      PROVE  mode = EMERGENCY /\ mode' = ATTACK /\ frozen + gap' >= EmergencyMax
  <2>1. mode = EMERGENCY /\ mode' = ATTACK /\ Aged(changedAge, dt) >= EmergencyMax
    BY <1>4 DEF ExpireEmergency, Expiring, Transition
  <2>2. frozen = changedAge /\ changedAge \in Nat /\ dt \in Nat
    BY <2>1, Intervals DEF HistoryInv, FreezeInv, TypeOK
  <2> QED
    BY <1>3, <2>1, <2>2, Intervals DEF Aged
<1>5. ASSUME Jump(s, dt)
      PROVE  /\ mode' = i /\ i > mode /\ ~Expiring(dt)
             /\ signals' = s /\ blockedFor' = b
  BY <1>5 DEF Jump, Judging, Enter, Transition
<1>6. ASSUME SampleRecovery(s, dt) PROVE mode' = mode
  BY <1>6 DEF SampleRecovery, StayInMode
<1>7. ASSUME Escalate(s, dt)
      PROVE  \/ mode' = mode
             \/ mode' = t /\ t > mode /\ ~Expiring(dt) /\ streak' >= UpSamples /\ called' = t
  <2>1. /\ t > mode /\ ~Expiring(dt) /\ called' = t
        /\ streak' = AtMost(UpSamples, IF called = t THEN streak + 1 ELSE 1)
        /\ mode' = mode \/ (mode' = t /\ Agreeing(t) >= UpSamples)
    BY <1>7 DEF Escalate, Debounced, Judging, Observe, StayInMode, Enter, Transition
  <2>2. up \in Nat /\ streak \in Nat /\ UpSamples \in Nat \ {0} /\ CountInv
    BY Intervals DEF HistoryInv, TypeOK, HistoryTypeOK
  <2> HIDE DEF t
  <2> QED
    BY <2>1, <2>2, SMTT(20) DEF CountInv, Agreeing, AtMost
<1>8. ASSUME Relax(s, dt)
      PROVE  \/ mode' = mode
             \/ /\ mode' = mode - 1 /\ signals' = s
                /\ BelowExit(mode, s) /\ calm + 1 >= DownSamples
  <2>1. signals' = s /\ (mode' = mode \/ (mode' = mode - 1 /\ CalmSamples(s) >= DownSamples))
    BY <1>8 DEF Relax, Debounced, Judging, StayInMode, Transition, RelaxDue
  <2>2. down \in Nat /\ calm \in Nat /\ DownSamples \in Nat \ {0} /\ CountInv
    BY Intervals DEF HistoryInv, TypeOK, HistoryTypeOK
  <2> QED
    BY <2>1, <2>2 DEF CountInv, CalmSamples, AtMost
<1> HIDE DEF b, t, i
<1>9. mode \in 0..3 /\ t \in 0..3 /\ i \in 0..3
  BY <1>1 DEF Modes
<1>10. CASE ExpireEmergency(s, dt)
  BY <1>4, <1>9, <1>10 DEF LowerEarned, EMERGENCY, ATTACK
<1>11. CASE Jump(s, dt)
  BY <1>1, <1>2, <1>5, <1>9, <1>11 DEF RaiseEarned, i, b
<1>12. CASE SampleRecovery(s, dt)
  BY <1>6, <1>9, <1>12
<1>13. CASE Escalate(s, dt)
  BY <1>1, <1>2, <1>7, <1>9, <1>13 DEF RaiseEarned
<1>14. CASE Relax(s, dt)
  BY <1>8, <1>9, <1>14 DEF LowerEarned, EMERGENCY
<1> QED
  BY <1>10, <1>11, <1>12, <1>13, <1>14

\* For every choice of signals, bands and intervals: a mode is raised only by
\* an immediate signal or by up_samples agreeing samples, lowered only one step
\* after down_samples calm ones or by the freeze deadline, and a freeze ended
\* by its deadline is not followed by another before the rearm time is over.
THEOREM ModeChangesAreEarned == HistorySpec => ModeChangesEarned
<1> DEFINE Earned == /\ mode' > mode => RaiseEarned
                     /\ mode' < mode => mode' = mode - 1 /\ LowerEarned
                     /\ mode # EMERGENCY /\ mode' = EMERGENCY => rested' >= EmergencyRearm
<1>1. ASSUME HistoryInv, HistoryNext PROVE Earned
  BY <1>1, SampleCases, ChangeEarned
<1>2. HistoryInv /\ [HistoryNext]_hvars => [Earned]_hvars
  BY <1>1
<1> QED
  BY <1>2, HistoryInductive, PTL DEF HistorySpec, ModeChangesEarned

-----------------------------------------------------------------------------
(* Recovery stages *)

\* Every set of naturals has a least element: the library states induction for
\* a predicate, this is the form the provers can use.
LEMMA LeastNatural ==
  ASSUME NEW T, T \subseteq Nat, T # {}
  PROVE \E x \in T : \A y \in T : x <= y
<1> DEFINE R == OpToRel(<, Nat)
<1>1. IsWellFoundedOn(R, Nat)
  BY NatLessThanWellFounded
<1>2. R = {ss \in Nat \X Nat : ss[1] < ss[2]}
  BY DEF OpToRel
<1> HIDE DEF R
<1>3. PICK x \in T : \A y \in T : ~ (<<y, x>> \in R)
  BY <1>1, WFMin
<1>4. ASSUME NEW y \in T PROVE x <= y
  <2>1. x \in Nat /\ y \in Nat /\ ~ (<<y, x>> \in R)
    BY <1>3
  <2>2. y < x => <<y, x>> \in R
    BY <1>2, <2>1
  <2> QED BY <2>1, <2>2
<1> QED BY <1>4

\* Induction over the naturals, for a set.
LEMMA SetInduction ==
  ASSUME NEW S, 0 \in S, \A n \in Nat : n \in S => n + 1 \in S
  PROVE \A n \in Nat : n \in S
<1> SUFFICES ASSUME NEW n \in Nat, n \notin S PROVE FALSE
  OBVIOUS
<1> DEFINE T == {k \in Nat : k \notin S}
<1>1. T \subseteq Nat /\ T # {} OBVIOUS
<1> HIDE DEF T
<1>2. PICK x \in T : \A y \in T : x <= y BY <1>1, LeastNatural
<1> USE DEF T
<1>3. x # 0 /\ x \in Nat BY <1>2
<1>4. x - 1 \in Nat /\ x - 1 \notin T BY <1>2, <1>3
<1>5. (x - 1) + 1 \in S BY <1>4
<1> QED BY <1>5, <1>3

\* The recursive definition of Served has a solution, so Served satisfies it.
LEMMA ServedUnfolds ==
  Served = [i \in 0..Len(StageSeconds) |-> IF i = 0 THEN 0 ELSE Served[i - 1] + StageSeconds[i]]
<1> DEFINE L == Len(StageSeconds)
           Sums(g, n) == /\ g \in [0..n -> Nat] /\ g[0] = 0
                         /\ \A i \in 1..n : g[i] = g[i - 1] + StageSeconds[i]
           S == {n \in Nat : n <= L => \E g : Sums(g, n)}
<1>1. L \in Nat /\ \A i \in 1..L : StageSeconds[i] \in Nat
  BY Intervals, IntervalAssumption
<1>2. 0 \in S
  <2>1. Sums([i \in 0..0 |-> 0], 0)
    OBVIOUS
  <2> QED
    BY <2>1
<1>3. ASSUME NEW n \in Nat, n \in S PROVE n + 1 \in S
  <2>0. n + 1 \in Nat
    OBVIOUS
  <2> SUFFICES ASSUME n + 1 <= L PROVE \E g : Sums(g, n + 1)
    BY <2>0
  <2>1. PICK g : Sums(g, n)
    BY <1>1, <1>3
  <2> DEFINE h == [i \in 0..(n + 1) |-> IF i = n + 1 THEN g[n] + StageSeconds[n + 1] ELSE g[i]]
  <2>2. g[n] \in Nat /\ StageSeconds[n + 1] \in Nat
    BY <1>1, <2>1
  <2>3. h \in [0..(n + 1) -> Nat] /\ h[0] = 0
    BY <2>1, <2>2
  <2>4. ASSUME NEW i \in 1..(n + 1) PROVE h[i] = h[i - 1] + StageSeconds[i]
    <3>1. i \in 0..(n + 1) /\ i - 1 \in 0..(n + 1) /\ i - 1 # n + 1
      OBVIOUS
    <3>2. CASE i = n + 1
      BY <3>1, <3>2
    <3>3. CASE i # n + 1
      BY <2>1, <3>1, <3>3
    <3> QED
      BY <3>2, <3>3
  <2> QED
    BY <2>3, <2>4
<1> HIDE DEF S
<1>4. L \in S
  BY <1>1, <1>2, <1>3, SetInduction
<1>5. PICK g : Sums(g, L)
  BY <1>1, <1>4 DEF S
<1>6. g = [i \in 0..L |-> IF i = 0 THEN 0 ELSE g[i - 1] + StageSeconds[i]]
  BY <1>1, <1>5
<1> QED
  BY <1>6, Zenon DEF Served

\* The stages take their time one after the other.
LEMMA ServedGrows ==
  /\ Served[0] = 0 /\ AllStages \in Nat
  /\ \A i \in 0..Len(StageSeconds) : Served[i] \in Nat /\ Served[i] <= AllStages
  /\ \A i \in 1..Len(StageSeconds) : Served[i] = Served[i - 1] + StageSeconds[i]
<1> DEFINE L == Len(StageSeconds)
           S == {n \in Nat : n <= L => \A i \in 0..n : Served[i] \in Nat /\ Served[i] <= Served[n]}
<1>1. L \in Nat /\ \A i \in 1..L : StageSeconds[i] \in Nat
  BY Intervals, IntervalAssumption
<1>2. Served[0] = 0 /\ \A i \in 1..L : Served[i] = Served[i - 1] + StageSeconds[i]
  BY <1>1, ServedUnfolds
<1>3. 0 \in S
  BY <1>2
<1>4. ASSUME NEW n \in Nat, n \in S PROVE n + 1 \in S
  <2>0. n + 1 \in Nat
    OBVIOUS
  <2> SUFFICES ASSUME n + 1 <= L, NEW i \in 0..(n + 1)
               PROVE  Served[i] \in Nat /\ Served[i] <= Served[n + 1]
    BY <2>0
  <2>1. \A j \in 0..n : Served[j] \in Nat /\ Served[j] <= Served[n]
    BY <1>1, <1>4
  <2>2. Served[n + 1] = Served[n] + StageSeconds[n + 1] /\ StageSeconds[n + 1] \in Nat
    BY <1>1, <1>2
  <2>3. Served[n] \in Nat
    BY <2>1
  <2>4. CASE i = n + 1
    BY <2>2, <2>3, <2>4
  <2>5. CASE i # n + 1
    BY <2>1, <2>2, <2>3, <2>5
  <2> QED
    BY <2>4, <2>5
<1> HIDE DEF S
<1>5. L \in S
  BY <1>1, <1>3, <1>4, SetInduction
<1>6. \A i \in 0..L : Served[i] \in Nat /\ Served[i] <= Served[L]
  BY <1>1, <1>5 DEF S
<1> QED
  BY <1>1, <1>2, <1>6 DEF AllStages

\* What a sample does to the recovery: it is (re)started, it stays at its stage
\* and ages, it leaves a stage that was served, or there is none.
LEMMA RecoveryMoves ==
  ASSUME TypeOK, RecoveryInAttack, NEW s \in Sampled, NEW dt \in 1..MaxGap,
         \/ ExpireEmergency(s, dt) \/ Jump(s, dt) \/ SampleRecovery(s, dt)
         \/ Escalate(s, dt) \/ Relax(s, dt)
  PROVE  \/ recovery' = 0 /\ recoveryAge' = 0
         \/ recovery >= 0 /\ KeepRecovery(dt)
         \/ /\ recovery >= 0 /\ StageServed(dt)
            /\ recovery' = NextStage /\ recoveryAge' = 0
         \/ recovery' = -1 /\ (recovery = -1 \/ mode' # ATTACK)
<1>0. /\ mode \in Modes /\ Target(s, Left(blockedFor, dt)) \in Modes
      /\ ImmediateTarget(s, Left(blockedFor, dt)) \in Modes
      /\ recovery \in Int /\ (recovery >= 0 \/ recovery = -1)
      /\ recovery >= 0 => mode = ATTACK
  BY Targets, Intervals DEF TypeOK, RecoveryInAttack
<1>1. CASE ExpireEmergency(s, dt)
  BY <1>0, <1>1 DEF ExpireEmergency, Expiring, StartRecovery, ATTACK, EMERGENCY
<1>2. CASE Jump(s, dt)
  BY <1>0, <1>2 DEF Jump, Enter, Transition, Modes, ATTACK, EMERGENCY
<1>3. CASE SampleRecovery(s, dt)
  BY <1>3 DEF SampleRecovery, Recovering, StartRecovery
<1>4. CASE Escalate(s, dt)
  BY <1>0, <1>4 DEF Escalate, Enter, Transition, KeepRecovery, Modes, ATTACK, EMERGENCY
<1>5. CASE Relax(s, dt)
  BY <1>0, <1>5 DEF Relax, StartRecovery, KeepRecovery
<1> QED
  BY <1>1, <1>2, <1>3, <1>4, <1>5

\* The history has seen the stages before the present one, and the time the
\* policy counts for that one, since the recovery last (re)started.
StageInv ==
  /\ probed \in Nat
  /\ recovery >= 0 => probed >= AtMost(AllStages, Served[recovery] + recoveryAge)

\* Every sample keeps it, and publishes a stage only after those before it.
LEMMA StageStep ==
  ASSUME TypeOK, RecoveryInAttack, StageInv, NEW s \in Sampled, NEW dt \in 1..MaxGap,
         Observe(s, dt),
         \/ ExpireEmergency(s, dt) \/ Jump(s, dt) \/ SampleRecovery(s, dt)
         \/ Escalate(s, dt) \/ Relax(s, dt)
  PROVE  /\ StageInv'
         /\ recovery' >= 0 => probed' >= Served[recovery']
         /\ recovery >= 0 /\ recovery' = -1 /\ mode' = ATTACK => probed' >= AllStages
<1> DEFINE L == Len(StageSeconds)
<1>1. /\ L \in Nat \ {0} /\ dt \in Nat \ {0} /\ probed \in Nat /\ Horizon \in Nat
      /\ recovery \in -1..(L - 1) /\ recoveryAge \in Nat /\ recoveryAge <= Horizon
      /\ \A i \in 1..L : StageSeconds[i] \in Nat
  <2>1. \A i \in 1..L : StageSeconds[i] \in Nat
    BY IntervalAssumption
  <2>2. L \in Nat \ {0} /\ dt \in Nat \ {0} /\ Horizon \in Nat
    BY Intervals
  <2> HIDE DEF L
  <2>3. recoveryAge \in Nat /\ recoveryAge <= Horizon /\ recovery \in -1..(L - 1) /\ probed \in Nat
    BY <2>2 DEF TypeOK, StageInv, L
  <2> QED
    BY <2>1, <2>2, <2>3
<1>2. Horizon > 0
  BY Intervals
<1>3. /\ Served[0] = 0 /\ AllStages \in Nat
      /\ \A i \in 0..L : Served[i] \in Nat /\ Served[i] <= AllStages
      /\ \A i \in 1..L : Served[i] = Served[i - 1] + StageSeconds[i]
      /\ Served[L] = AllStages
  BY ServedGrows DEF AllStages
<1>4. probed' = IF recovery' = 0 /\ recoveryAge' = 0 THEN 0 ELSE AtMost(AllStages, probed + dt)
  BY DEF Observe
<1>5. probed' \in Nat
  BY <1>1, <1>3, <1>4 DEF AtMost
<1>6. CASE recovery' = 0 /\ recoveryAge' = 0
  <2>1. probed' = 0 /\ Served[recovery'] = 0 /\ recovery' # -1
    BY <1>3, <1>4, <1>6
  <2>2. AtMost(AllStages, Served[recovery'] + recoveryAge') = 0
    BY <1>3, <1>6 DEF AtMost
  <2> QED
    BY <2>1, <2>2 DEF StageInv, AllStages
<1>7. CASE recovery >= 0 /\ KeepRecovery(dt)
  <2>1. recovery' = recovery /\ recoveryAge' = Aged(recoveryAge, dt) /\ recovery \in 0..L
    BY <1>1, <1>7 DEF KeepRecovery
  <2>2. /\ Aged(recoveryAge, dt) \in Nat \ {0} /\ Aged(recoveryAge, dt) <= recoveryAge + dt
    BY <1>1, <1>2 DEF Aged
  <2>3. probed' = AtMost(AllStages, probed + dt)
    BY <1>4, <2>1, <2>2
  <2>4. Served[recovery] \in Nat /\ Served[recovery] <= AllStages
    BY <1>3, <2>1
  <2>5. probed >= AtMost(AllStages, Served[recovery] + recoveryAge)
    BY <1>7 DEF StageInv
  <2>6. probed' >= AtMost(AllStages, Served[recovery] + recoveryAge')
    <3>1. \A b, p, q, d, r \in Nat :
            p >= AtMost(b, q) /\ r <= q + d => AtMost(b, p + d) >= AtMost(b, r)
      BY DEF AtMost
    <3>2. /\ Served[recovery] + recoveryAge \in Nat /\ Served[recovery] + recoveryAge' \in Nat
          /\ Served[recovery] + recoveryAge' <= (Served[recovery] + recoveryAge) + dt
      BY <1>1, <2>1, <2>2, <2>4
    <3>3. AllStages \in Nat /\ probed \in Nat /\ dt \in Nat
      BY <1>1, <1>3
    <3> QED
      BY <2>3, <2>5, <3>1, <3>2, <3>3, Zenon
  <2>7. AtMost(AllStages, Served[recovery] + recoveryAge') >= Served[recovery]
    BY <1>3, <2>1, <2>2, <2>4 DEF AtMost
  <2>8. /\ AtMost(AllStages, Served[recovery] + recoveryAge') \in Nat
        /\ recovery' >= 0 /\ recovery' # -1
    BY <1>1, <1>3, <2>1, <2>2, <2>4 DEF AtMost
  <2>9. probed' >= Served[recovery']
    BY <1>5, <2>1, <2>4, <2>6, <2>7, <2>8
  <2> QED
    BY <1>5, <2>1, <2>6, <2>8, <2>9 DEF StageInv, AllStages
<1>8. CASE /\ recovery >= 0 /\ StageServed(dt)
           /\ recovery' = NextStage /\ recoveryAge' = 0
  <2>1. recovery + 1 \in 1..L /\ recovery \in 0..L
    BY <1>1, <1>8
  <2>2. recoveryAge + dt >= StageSeconds[recovery + 1] /\ StageSeconds[recovery + 1] \in Nat
    BY <1>1, <1>8, <2>1 DEF StageServed, Aged
  <2>3. Served[recovery + 1] = Served[recovery] + StageSeconds[recovery + 1]
    BY <1>1, <1>3, <2>1
  <2>4. probed' = AtMost(AllStages, probed + dt)
    BY <1>1, <1>4, <1>8, <2>1 DEF NextStage
  <2>5. /\ Served[recovery] \in Nat /\ Served[recovery + 1] \in Nat
        /\ Served[recovery] <= AllStages /\ Served[recovery + 1] <= AllStages
    BY <1>3, <2>1
  <2>6. probed >= AtMost(AllStages, Served[recovery] + recoveryAge)
    BY <1>8 DEF StageInv
  <2>7. probed' >= Served[recovery + 1]
    <3>1. \A b, p, q, d, r \in Nat :
            p >= AtMost(b, q) /\ r <= q + d /\ r <= b => AtMost(b, p + d) >= r
      BY DEF AtMost
    <3>2. /\ Served[recovery] + recoveryAge \in Nat
          /\ Served[recovery + 1] <= (Served[recovery] + recoveryAge) + dt
      BY <1>1, <2>2, <2>3, <2>5
    <3>3. AllStages \in Nat /\ probed \in Nat /\ dt \in Nat
      BY <1>1, <1>3
    <3> QED
      BY <2>4, <2>5, <2>6, <3>1, <3>2, <3>3, Zenon
  <2>8. CASE recovery + 1 = L
    BY <1>1, <1>3, <1>5, <1>8, <2>7, <2>8 DEF NextStage, StageInv
  <2>9. CASE recovery + 1 # L
    <3>1. recovery' = recovery + 1 /\ recovery' >= 0 /\ recovery' # -1
      BY <1>1, <1>8, <2>9 DEF NextStage
    <3>2. AtMost(AllStages, Served[recovery + 1] + recoveryAge') = Served[recovery + 1]
      BY <1>3, <1>8, <2>5 DEF AtMost
    <3> QED
      BY <1>5, <2>7, <3>1, <3>2 DEF StageInv, AllStages
  <2> QED
    BY <2>8, <2>9
<1>9. CASE recovery' = -1 /\ (recovery = -1 \/ mode' # ATTACK)
  BY <1>5, <1>9 DEF StageInv
<1> QED
  BY <1>6, <1>7, <1>8, <1>9, RecoveryMoves

\* For every list of stages and every spacing of the samples: a recovery stage
\* is published only in ATTACK and after the stages before it were served in
\* full since the recovery last (re)started, and the full ATTACK budget only
\* after all of them.
THEOREM StagesAreServed == HistorySpec => StagesServed
<1> DEFINE I == HistoryInv /\ StageInv
           Step == /\ recovery' >= 0 => mode' = ATTACK /\ probed' >= Served[recovery']
                   /\ recovery >= 0 /\ recovery' = -1 /\ mode' = ATTACK => probed' >= AllStages
<1>1. HistoryInit => I
  BY HistoryInductive DEF HistoryInit, Init, StageInv
<1>2. ASSUME I, HistoryNext PROVE I' /\ Step
  <2>1. HistoryInv'
    BY <1>2, HistoryInductive
  <2>2. PICK s \in Sampled, dt \in 1..MaxGap :
           /\ Observe(s, dt)
           /\ \/ ExpireEmergency(s, dt) \/ Jump(s, dt) \/ SampleRecovery(s, dt)
              \/ Escalate(s, dt) \/ Relax(s, dt)
    BY <1>2, SampleCases
  <2>3. TypeOK /\ RecoveryInAttack /\ StageInv
    BY <1>2 DEF HistoryInv
  <2>4. RecoveryInAttack'
    BY <2>1 DEF HistoryInv
  <2> QED
    BY <2>1, <2>2, <2>3, <2>4, StageStep DEF RecoveryInAttack
<1>3. ASSUME I, UNCHANGED hvars PROVE I'
  <2>1. HistoryInv'
    BY <1>3, HistoryInductive
  <2> QED
    BY <1>3, <2>1 DEF hvars, vars, history, StageInv, AllStages
<1> QED
  BY <1>1, <1>2, <1>3, PTL DEF HistorySpec, StagesServed
=============================================================================
