SPECIFICATION Spec
CONSTANTS
  Logins = {ann}
  Creds = {1, 2}
  NoCred = 0
  MaxSigners = 2
  Pages = {1, 2}
  Fees = {1}
  SponsorTime = 1
  Margin = 0
  Lookback = 0
  MaxRetries = 1
  MaxClicks = 2
  MaxScripts = 0
  MaxBlock = 2
PROPERTIES
  ClickEnds
CHECK_DEADLOCK FALSE
