SPECIFICATION FlowsSpec
CONSTANTS
  account = account
  other = other
  lower = lower
  upper = upper
  phone = phone
  laptop = laptop
  Null = Null
  VP = 2
  NoSkin = NoSkin
  NoPrice = NoPrice
  Connections = {account}
  BundleItems <- SmallBundle
  Market <- SmallMarket
  Skins = {1, 2}
  Tiers = {lower, upper}
  SkinOf <- LevelSkin
  TierOf <- SkinTier
  Since <- AllSeen
  PageLoads = FALSE
  DayLength = 2
  MaxNow = 3
  Rotation <- TwinRotation
  MarketEnd = 1
  BundleEnd = 3
  Shapes = {"absent", "malformed", "market", "null"}
  MaxRelease = 0
  BatchSize = 3
  MaxSyncs = 1
  MaxFaults = 1
  Flows = {"shops", "patches", "pages", "cards", "loads", "accounts"}
SYMMETRY Symmetry
CHECK_DEADLOCK FALSE
INVARIANT StoredShopIsRiots
INVARIANT PagesShowTheCatalog
INVARIANT CardIsTruth
INVARIANT LoadsAreExact
