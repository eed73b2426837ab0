SPECIFICATION FairFlowsSpec
CONSTANTS
  q1 = q1
  q2 = q2
  q3 = q3
  create = create
  sole = sole
  login = login
  otherLogin = otherLogin
  code = code
  otherCode = otherCode
  export = export
  alpha = alpha
  beta = beta
  Main = Main
  Null = Null
  window = window
  first = first
  second = second
  None = None
  one = one
  two = two
  phone = phone
  laptop = laptop
  again = again
  cron = cron
  manual = manual
  vandal = vandal
  phantom = phantom
  main = main
  alt = alt
  Captures = {one, two}
  CaptureFaults = 1
  Callbacks = {phone, laptop, again}
  NoticeFaults = 2
  Requests = {q1, q2}
  Creator = create
  MaxFaults = 1
  Flows = {"cloud", "request", "desktop", "owner", "twoShops"}
CHECK_DEADLOCK FALSE
PROPERTY BrowserEnds
PROPERTY SettlesUnlessFaulted
PROPERTY CapturesEnd
PROPERTY MailsSettle
PROPERTY MailIsSingleDelivery
PROPERTY NoticeIsSingleDelivery
