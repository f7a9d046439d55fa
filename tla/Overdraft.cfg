SPECIFICATION Spec
CONSTANTS
  Threads = {t1, t2}
  Names = {n1}
  Characters = {k1}
  Catalog <- Goods
  Allowance <- NewWallet
  PricePerDraw = 1
  Grants <- AnyGrant
  MaxCopies = 2
  MaxRequests = 4
INVARIANT
  NoOverdraft
CHECK_DEADLOCK FALSE
