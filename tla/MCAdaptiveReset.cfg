SPECIFICATION Spec
CONSTANTS
  Signals = {"pressure", "traffic"}
  Values = {0, 1, 2, 3}
  Bands <- MCBands
  Guards <- MCGuards
  Immediate <- MCNoImmediate
  AllowEmergency = TRUE
  UpSamples = 3
  DownSamples = 2
  UpCooldown = 2
  CooldownSeconds = 3
  EmergencyMax = 5
  EmergencyRearm = 4
  RecoveryEnabled = TRUE
  StageSeconds <- MCStages
  MaxGap = 2
  Horizon = 5
PROPERTY PressureResetsRecovery
