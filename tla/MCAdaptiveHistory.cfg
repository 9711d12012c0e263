SPECIFICATION HistorySpec
CONSTANTS
  Signals = {"pressure", "traffic"}
  Values = {0, 1, 2}
  Bands <- MCBands
  Guards <- MCGuards
  Immediate <- MCImmediate
  AllowEmergency = TRUE
  UpSamples = 3
  DownSamples = 2
  UpCooldown = 2
  CooldownSeconds = 3
  EmergencyMax = 5
  EmergencyRearm = 4
  RecoveryEnabled = TRUE
  StageSeconds <- MCStages
  MaxGap = 2
  Horizon = 5
INVARIANT FreezeBounded
PROPERTIES
  StagesServed
  ModeChangesEarned
  CalmReturnsToNormal
  PressureIsAnswered
