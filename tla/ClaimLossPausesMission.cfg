CONSTANTS
  Codes = {"COMMUNICATION_LOSS", "BATTERY_CRITICAL"}
  StaleAfter = 0
  OfflineAfter = 1
  ClearAfter = 1
  BatteryAfter = 2
  MaxRestarts = 0
SPECIFICATION Spec
PROPERTIES LossPausesMission
