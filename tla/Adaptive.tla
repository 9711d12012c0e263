------------------------------ MODULE Adaptive ------------------------------
(***************************************************************************)
(* The adaptive policy of the controller (controller/core.py, class        *)
(* Adaptive): the state machine that raises and lowers the protection mode *)
(* from sampled pressure signals.                                          *)
(*                                                                         *)
(* The controller calls sample() once per tick, a variable time apart.     *)
(* Instants are kept as ages: changedAge is now - changed, recoveryAge is  *)
(* now - recovery_since, both saturating at Horizon, and blockedFor is     *)
(* what is left until emergency_blocked_until.  emergency_timeouts is only *)
(* reported and is left out.                                               *)
(***************************************************************************)
EXTENDS Integers, FiniteSets, Sequences

CONSTANTS
  Signals,           \* names of the sampled signals
  Values,            \* finite values a signal can have
  Bands,             \* Bands[m]: signal -> [enter, exit], for modes 1..3
  Guards,            \* required_signals of each mode
  Immediate,         \* immediate_signals of each mode
  AllowEmergency,
  UpSamples, DownSamples,
  UpCooldown,        \* up_cooldown_seconds, or cooldown_seconds
  CooldownSeconds,
  EmergencyMax, EmergencyRearm,
  RecoveryEnabled,
  StageSeconds,      \* durations of the recovery stages
  MaxGap,            \* longest time between two samples
  Horizon            \* ages saturate here

NORMAL == 0
ATTACK == 2
EMERGENCY == 3
Raised == 1..3
Modes == 0..3

Missing == -1        \* absent or not finite
Sampled == [Signals -> Values \cup {Missing}]

Durations ==
  {UpCooldown, CooldownSeconds, EmergencyMax}
    \cup {StageSeconds[i] : i \in DOMAIN StageSeconds}

ASSUME SignalAssumption ==
  /\ Values \subseteq Nat
  /\ \A m \in Raised :
       /\ DOMAIN Bands[m] \subseteq Signals
       /\ \A n \in DOMAIN Bands[m] :
            /\ Bands[m][n].enter \in Nat /\ Bands[m][n].exit \in Nat
            /\ Bands[m][n].exit < Bands[m][n].enter
       /\ Guards[m] \subseteq DOMAIN Bands[m]
       /\ Immediate[m] \subseteq DOMAIN Bands[m]

\* validate(): intervals are positive, and automatic EMERGENCY is guarded.
ASSUME IntervalAssumption ==
  /\ {AllowEmergency, RecoveryEnabled} \subseteq BOOLEAN
  /\ {UpSamples, DownSamples, CooldownSeconds, EmergencyMax, EmergencyRearm,
      MaxGap} \subseteq Nat \ {0}
  /\ UpCooldown \in Nat
  /\ StageSeconds \in Seq(Nat \ {0}) /\ StageSeconds # << >>
  /\ Horizon \in Nat /\ \A d \in Durations : d <= Horizon
  /\ AllowEmergency => Guards[EMERGENCY] # {}
  /\ RecoveryEnabled => AllowEmergency /\ DOMAIN Bands[ATTACK] # {}

VARIABLES
  mode, changedAge, up, down, target,
  recovery,          \* recovery_index, -1 when inactive
  recoveryAge, blockedFor,
  signals            \* the controller's latest sample

vars == <<mode, changedAge, up, down, target, recovery, recoveryAge,
          blockedFor, signals>>

Init ==
  /\ mode = NORMAL /\ changedAge = 0
  /\ up = 0 /\ down = 0 /\ target = NORMAL
  /\ recovery = -1 /\ recoveryAge = 0
  /\ blockedFor = 0
  /\ signals = [n \in Signals |-> Missing]

-----------------------------------------------------------------------------
(* Reading a sample *)

\* _below_exit(): missing telemetry is not calm, and neither is a mode
\* without bands.
BelowExit(m, s) ==
  /\ m \in Raised /\ DOMAIN Bands[m] # {}
  /\ \A n \in DOMAIN Bands[m] : s[n] # Missing /\ s[n] <= Bands[m][n].exit

High(m, s) == {n \in DOMAIN Bands[m] : s[n] # Missing /\ s[n] >= Bands[m][n].enter}

Eligible(m, s, blocked) ==
  /\ m = EMERGENCY => AllowEmergency /\ blocked = 0
  /\ High(m, s) # {} /\ Guards[m] \subseteq High(m, s)

Highest(S) == CHOOSE m \in S : \A n \in S : n <= m

\* _targets(): the loop keeps the last, hence highest, eligible mode.
Target(s, blocked) ==
  Highest({NORMAL} \cup {m \in Raised : Eligible(m, s, blocked)})

ImmediateTarget(s, blocked) ==
  Highest({NORMAL} \cup {m \in Raised : /\ Eligible(m, s, blocked)
                                        /\ Immediate[m] \cap High(m, s) # {}})

Aged(age, dt) == IF age + dt < Horizon THEN age + dt ELSE Horizon
Left(rest, dt) == IF rest > dt THEN rest - dt ELSE 0

\* Mutant: the deadline is measured from the previous sample.
ExpiringSinceSample(dt) == mode = EMERGENCY /\ dt >= EmergencyMax

Expiring(dt) == mode = EMERGENCY /\ Aged(changedAge, dt) >= EmergencyMax

-----------------------------------------------------------------------------
(* sample(): one action per branch.  Every branch ages the clocks.         *)

\* self.mode and self.changed without, and with, a transition.
StayInMode(dt) == mode' = mode /\ changedAge' = Aged(changedAge, dt)
Transition(m) == mode' = m /\ changedAge' = 0

KeepRecovery(dt) == recovery' = recovery /\ recoveryAge' = Aged(recoveryAge, dt)
StartRecovery == recovery' = 0 /\ recoveryAge' = 0

ExpireEmergency(s, dt) ==
  /\ Expiring(dt)
  /\ Transition(ATTACK)
  /\ up' = 0 /\ down' = 0 /\ target' = NORMAL
  /\ blockedFor' = EmergencyRearm
  /\ IF RecoveryEnabled THEN StartRecovery ELSE recovery' = -1 /\ recoveryAge' = 0
  /\ signals' = s

\* The sample is judged with the block that is left at its time.
Judging(s, dt) ==
  /\ ~Expiring(dt)
  /\ blockedFor' = Left(blockedFor, dt)
  /\ signals' = s

\* _transition() abandons a recovery when it enters EMERGENCY.
Enter(m, dt) ==
  /\ Transition(m)
  /\ recovery' = IF m = EMERGENCY THEN -1 ELSE recovery
  /\ recoveryAge' = Aged(recoveryAge, dt)

Jump(s, dt) ==
  LET m == ImmediateTarget(s, Left(blockedFor, dt)) IN
  /\ Judging(s, dt)
  /\ m > mode
  /\ Enter(m, dt)
  /\ up' = 0 /\ down' = 0 /\ target' = NORMAL

Debounced(s, dt) ==
  Judging(s, dt) /\ ImmediateTarget(s, Left(blockedFor, dt)) <= mode

Recovering(t) == mode = ATTACK /\ recovery >= 0 /\ t < EMERGENCY

\* Mutant: a stage is timed from the change of mode.
StageServedSinceChange(dt) == Aged(changedAge, dt) >= StageSeconds[recovery + 1]

StageServed(dt) == Aged(recoveryAge, dt) >= StageSeconds[recovery + 1]

\* Mutant: the last stage is never left.
StageAtMostLast == IF recovery + 1 = Len(StageSeconds) THEN recovery ELSE recovery + 1

NextStage == IF recovery + 1 = Len(StageSeconds) THEN -1 ELSE recovery + 1

SampleRecovery(s, dt) ==
  LET t == Target(s, Left(blockedFor, dt)) IN
  /\ Debounced(s, dt)
  /\ Recovering(t)
  /\ StayInMode(dt)
  /\ IF ~BelowExit(ATTACK, s) THEN StartRecovery
     ELSE IF ~StageServed(dt) THEN KeepRecovery(dt)
     ELSE recovery' = NextStage /\ recoveryAge' = 0
  /\ up' = 0 /\ down' = 0 /\ target' = t

\* Mutant: the count survives a change of target.
AgreeingAnyTarget(t) == up + 1

\* Mutant: the comparison with the previous target is inverted.
AgreeingInverted(t) == IF target # t THEN up + 1 ELSE 1

\* Samples in a row that called for t, this one included.
Agreeing(t) == IF target = t THEN up + 1 ELSE 1

Escalate(s, dt) ==
  LET t == Target(s, Left(blockedFor, dt)) IN
  /\ Debounced(s, dt)
  /\ ~Recovering(t) /\ t > mode
  /\ target' = t /\ down' = 0
  /\ IF Agreeing(t) >= UpSamples /\ Aged(changedAge, dt) >= UpCooldown
     THEN Enter(t, dt) /\ up' = 0
     ELSE StayInMode(dt) /\ KeepRecovery(dt) /\ up' = Agreeing(t)

CalmSamples(s) == IF BelowExit(mode, s) THEN down + 1 ELSE 0

RelaxDue(s, dt) ==
  /\ mode > NORMAL /\ CalmSamples(s) >= DownSamples
  /\ Aged(changedAge, dt) >= CooldownSeconds

Relax(s, dt) ==
  LET t == Target(s, Left(blockedFor, dt)) IN
  /\ Debounced(s, dt)
  /\ ~Recovering(t) /\ t <= mode
  /\ up' = 0 /\ target' = target
  /\ IF RelaxDue(s, dt)
     THEN /\ Transition(mode - 1)
          /\ down' = 0
          /\ IF mode = EMERGENCY /\ RecoveryEnabled THEN StartRecovery ELSE KeepRecovery(dt)
     ELSE StayInMode(dt) /\ KeepRecovery(dt) /\ down' = CalmSamples(s)

Sample(s, dt) ==
  \/ ExpireEmergency(s, dt)
  \/ Jump(s, dt)
  \/ SampleRecovery(s, dt)
  \/ Escalate(s, dt)
  \/ Relax(s, dt)

Next == \E s \in Sampled, dt \in 1..MaxGap : Sample(s, dt)

Spec == Init /\ [][Next]_vars

-----------------------------------------------------------------------------
(* Properties *)

\* Every variable keeps its type; the stage index stays within the configured
\* stages syn_budget() looks up.
TypeOK ==
  /\ mode \in Modes /\ target \in Modes
  /\ changedAge \in 0..Horizon /\ recoveryAge \in 0..Horizon
  /\ up \in Nat /\ down \in Nat
  /\ recovery \in -1..(Len(StageSeconds) - 1)
  /\ blockedFor \in 0..EmergencyRearm
  /\ signals \in Sampled

\* A staged recovery runs only in ATTACK: syn_budget() never indexes past the
\* stages, and no other mode is left with a stale stage that would come back
\* with the next ATTACK.
RecoveryInAttack == recovery >= 0 => mode = ATTACK /\ RecoveryEnabled

\* docs/PRESSURE_POLICY.md:140 "Missing telemetry or worsening pressure resets
\* the timer and rate to stage one": in a recovery every sample above the exit
\* bands of ATTACK goes back to the first stage.  A sample that reaches the
\* EMERGENCY bands without being confirmed yet goes to _escalate() instead.
PressureResetsRecovery ==
  [][recovery >= 0 /\ recovery' >= 0 /\ ~BelowExit(ATTACK, signals')
       => recovery' = 0 /\ recoveryAge' = 0]_vars

Calm == \A m \in Raised : BelowExit(m, signals)

\* When the pressure stays below every exit band the policy returns to NORMAL,
\* through whatever freeze, recovery and cooldown it is in.
CalmReturnsToNormal == <>[]Calm => <>[](mode = NORMAL)

Pressed(m) == Target(signals, 0) = m

\* A steady pressure is answered: the mode reaches what the signals call for
\* and stays there.
PressureIsAnswered == \A m \in {1, ATTACK} : <>[]Pressed(m) => <>[](mode >= m)
=============================================================================
