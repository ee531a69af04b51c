SPECIFICATION Spec
CONSTANTS
  ticker = ticker
  sendNow = sendNow
  mail = mail
  webhook = webhook
  inApp = inApp
  l1 = l1
  l2 = l2
  Ticker = ticker
  InApp = inApp
  Interval = 1
  Reissued = {}
  Loans = {l1}
  Channels <- OneChannel
  Runners = {ticker, sendNow}
  MaxCrashes = 0
PROPERTIES
  ToldOncePerInterval
