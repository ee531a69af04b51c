SPECIFICATION FairSpec
CONSTANTS
  ticker = ticker
  sendNow = sendNow
  mail = mail
  webhook = webhook
  inApp = inApp
  l1 = l1
  l2 = l2
  Ticker = ticker
  InApp = inApp
  Interval = 1
  Reissued = {l1}
  Loans = {l1, l2}
  Channels <- OneChannel
  Runners = {ticker}
  MaxCrashes = 1
INVARIANTS
  TypeOK
  StampedWasTold
PROPERTIES
  ToldOncePerInterval
  OverdueIsChased
