SPECIFICATION Spec
CONSTANTS
  Logins = {ann}
  Creds = {1, 2}
  NoCred = 0
  MaxSigners = 2
  Pages = {1, 2}
  Fees = {1, 2}
  SponsorTime = 1
  Margin = 0
  Lookback = 0
  MaxRetries = 1
  MaxClicks = 2
  MaxScripts = 1
  MaxBlock = 2
INVARIANTS
  PageTypeOK
  FirstSignerOnce
  ConfirmedIsIncluded
  
  OneMintPerClick
PROPERTIES
  OnlyOwnerRescues
CHECK_DEADLOCK FALSE
