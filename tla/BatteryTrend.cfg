SPECIFICATION Spec
CONSTANTS
  CONNECTED_MV = 3
  BATTERY_FULL_MV = 11
  MaxMv = 12
  MinMv = 4
  EMA_SHARE = 2
  BATTERY_TREND_EVERY = 3
  BATTERY_TREND_MV = 2
INVARIANT ChargingMeansRise
