SPECIFICATION TxSpec
CONSTANTS
  sale = sale
  purchase = purchase
  free = free
  pistol = pistol
  joint = joint
  Nobody = Nobody
  Admins = {ana}
  Writers = {wen}
  Orders = {sale}
  Items <- MCItems
  Direction <- MCSaleOnly
  Total <- MCSaleTotal
  Units <- MCSaleUnits
  Historical = {}
  ItemId <- MCItemId
  KeyRank <- MCKeyRank
  MaxMoney = 1
  MaxStock = 1
INVARIANTS
  BalancesConserved
PROPERTIES
  Spec
  TransactionsEnd
