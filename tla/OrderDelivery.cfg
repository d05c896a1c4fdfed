SPECIFICATION DeliverySpec
CONSTANTS
  sale = sale
  pistol = pistol
  NoClaim = NoClaim
  Workers = {old, new}
  Orders = {sale}
  Items = {pistol}
  Direction <- MCDirection
  Total <- MCTotal
  Units <- MCUnits
  Historical = {}
  MaxMoney = 1
  MaxStock = 1
  MaxFaults = 2
INVARIANTS
  DeliveredOnce
PROPERTIES
  ReversalIsLast
  QueuedIsDelivered
CHECK_DEADLOCK FALSE
