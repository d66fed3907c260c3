CONSTANTS
  Map = {a, b}
  Client = {u1, u2}
  Nobody = Nobody
  MaxVersion = 2
  MaxForeign = 1
  MaxRestarts = 1
SPECIFICATION SettingsSpec
INVARIANTS SettingsAgree
CHECK_DEADLOCK FALSE
