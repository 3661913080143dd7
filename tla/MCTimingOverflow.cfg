SPECIFICATION TimingSpec
CONSTANTS
  HalfWrap = 16
  Margin = 4
  DriverMs = {0, 2, 4}
  KeepAliveMs = {6}
  DelayMs = {1}
  StartupMs = {3}
INVARIANT HasExpiredExact
