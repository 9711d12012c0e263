--------------------------- MODULE AdaptiveHistory ---------------------------
(***************************************************************************)
(* What the adaptive policy promises over a run: Adaptive with a history   *)
(* of the samples, kept independently of the counters and instants that    *)
(* the policy keeps for itself.                                            *)
(***************************************************************************)
EXTENDS Adaptive

VARIABLES
  gap,         \* time before the latest sample
  streak,      \* latest samples in a row that called for the same mode ...
  called,      \* ... and that mode
  calm,        \* latest samples in a row below the exit bands of the mode
  frozen,      \* time spent in EMERGENCY since it was last entered
  rested,      \* time since a freeze was last ended by its deadline
  probed       \* time since a recovery was last put at its first stage

history == <<gap, streak, called, calm, frozen, rested, probed>>
hvars == <<vars, history>>

\* Served[i]: the time the first i stages take.
Served[i \in 0..Len(StageSeconds)] ==
  IF i = 0 THEN 0 ELSE Served[i - 1] + StageSeconds[i]

AllStages == Served[Len(StageSeconds)]

AtMost(bound, n) == IF n < bound THEN n ELSE bound

HistoryInit ==
  /\ Init
  /\ gap = 0 /\ streak = 0 /\ called = NORMAL /\ calm = 0
  /\ frozen = 0 /\ rested = EmergencyRearm /\ probed = 0

Observe(s, dt) ==
  LET t == Target(s, Left(blockedFor, dt)) IN
  /\ gap' = dt
  /\ called' = t
  /\ streak' = IF Expiring(dt) THEN 0
               ELSE AtMost(UpSamples, IF called = t THEN streak + 1 ELSE 1)
  /\ calm' = IF mode' = mode /\ BelowExit(mode, s) THEN AtMost(DownSamples, calm + 1) ELSE 0
  /\ frozen' = IF mode = EMERGENCY /\ mode' = EMERGENCY THEN AtMost(EmergencyMax, frozen + dt) ELSE 0
  /\ rested' = IF Expiring(dt) THEN 0 ELSE AtMost(EmergencyRearm, rested + dt)
  /\ probed' = IF recovery' = 0 /\ recoveryAge' = 0 THEN 0 ELSE AtMost(AllStages, probed + dt)

HistoryNext ==
  \E s \in Sampled, dt \in 1..MaxGap :
    \/ ExpireEmergency(s, dt) /\ Observe(s, dt)
    \/ Jump(s, dt) /\ Observe(s, dt)
    \/ SampleRecovery(s, dt) /\ Observe(s, dt)
    \/ Escalate(s, dt) /\ Observe(s, dt)
    \/ Relax(s, dt) /\ Observe(s, dt)

\* run() calls tick() about once a second for as long as the controller lives.
HistorySpec == HistoryInit /\ [][HistoryNext]_hvars /\ WF_hvars(HistoryNext)

-----------------------------------------------------------------------------
\* docs/PRESSURE_POLICY.md:152 "Automatic EMERGENCY has a hard deadline": no
\* sample finds the policy still frozen emergency_max_seconds after the freeze
\* began, so a freeze lasts less than that plus one sampling gap.
FreezeBounded == frozen < EmergencyMax

\* An immediate signal, or up_samples samples in a row that all called for it.
RaiseEarned ==
  \/ mode' = ImmediateTarget(signals', blockedFor')
  \/ streak' >= UpSamples /\ called' = mode'

\* down_samples samples in a row below the exit bands of the mode, or the freeze
\* deadline.
LowerEarned ==
  \/ mode = EMERGENCY /\ frozen + gap' >= EmergencyMax
  \/ BelowExit(mode, signals') /\ calm + 1 >= DownSamples

\* No mode changes on less than the configured evidence.  It is raised by an
\* immediate signal or by up_samples samples that agree: missing telemetry, a
\* calmer sample or a call for another mode starts the count again.  It is
\* lowered one step at a time, after down_samples calm samples or by the freeze
\* deadline; and a freeze ended by its deadline is followed by the whole rearm
\* time without another, whatever immediate signals say.
ModeChangesEarned ==
  [][/\ mode' > mode => RaiseEarned
     /\ mode' < mode => mode' = mode - 1 /\ LowerEarned
     /\ mode # EMERGENCY /\ mode' = EMERGENCY => rested' >= EmergencyRearm]_hvars

\* The SYN budget of a recovery stage is published only in ATTACK and after all
\* stages before it were served in full since the recovery last (re)started,
\* and the full ATTACK budget comes back only after every stage was served.
StagesServed ==
  [][/\ recovery' >= 0 => mode' = ATTACK /\ probed' >= Served[recovery']
     /\ recovery >= 0 /\ recovery' = -1 /\ mode' = ATTACK => probed' >= AllStages]_hvars
=============================================================================
