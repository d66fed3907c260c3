CONSTANTS
  Codes = {"COMMUNICATION_LOSS", "BATTERY_CRITICAL"}
  StaleAfter = 0
  OfflineAfter = 1
  ClearAfter = 1
  BatteryAfter = 2
  MaxRestarts = 1
SPECIFICATION FairSpec
INVARIANTS DrivenThrough
PROPERTIES AlertsNeedTime AckSurvives AlertsConclude
