SPECIFICATION ControlFairSpec
CONSTANTS
  Daemons = {d1, d2}
  SettingOrder <- SwitchOrder
  Limits <- MCLimits
  Free = "free"
  MaxCommands = 3
  MaxDrops = 1
  MaxRestarts = 1
CHECK_DEADLOCK FALSE
INVARIANTS
  ControlInv
PROPERTIES
  RestrictionArrives
