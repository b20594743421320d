SPECIFICATION Spec
CONSTANTS
  Suppliers = {1, 2, 3}
  Prices = {1, 2, 4}
  Stars = {2, 3}
  MaxPrices = {3, 4}
  Discounts = {0, 50}
  Bonuses = {0, 3}
INVARIANTS
  WinnerFollowsRule
  OrderDecidesNothing
  CheaperWinnerStillWins
PROPERTIES
  NewcomerDisplacesFairly
CHECK_DEADLOCK FALSE
