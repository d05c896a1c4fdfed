SPECIFICATION TxSpec
CONSTANTS
  sale = sale
  purchase = purchase
  free = free
  pistol = pistol
  joint = joint
  Nobody = Nobody
  Admins = {ana, bo}
  Writers = {}
  Orders <- MCOrders
  Items <- MCItems
  Direction <- MCDirection
  Total <- MCTotal
  Units <- MCUnits
  Historical <- MCHistorical
  ItemId <- MCItemId
  KeyRank <- MCKeyRank
  MaxMoney = 1
  MaxStock = 1
INVARIANTS
  TypeOK
  LedgerMatchesStatus
  NoticeMatchesLedger
  ReadsStayTrue
  RingsNeedAWriter
