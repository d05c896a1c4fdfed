SPECIFICATION MCSpec
CONSTANTS
  Drafts = {d1, d2}
  Terms = {few, many}
  Clicks = {c1, c2}
  Updaters = {u1}
  MaxEdits = 1
  MaxFaults = 2
  None = None
  Slots = {h1, h2}
  Actions = {"withdraw"}
  Items = {ammo, vest}
  Quantities = {1}
  MaxItems = 1
  TTL = 1
  ammo = ammo
  vest = vest
  Stock <- MCStock
  MaxInteractions = 6
  MaxStashFaults = 1
  MaxTime = 2
SYMMETRY Symmetry
INVARIANTS
  CreatedOnce
  MessagesShowSavedTerms
  SubmittedOnce
  MovesAsShown
PROPERTIES
  ExpiredNeverReturns
CHECK_DEADLOCK FALSE
