SPECIFICATION MCSpec
CONSTANTS
  ore = ore
  gun = gun
  put = put
  take = take
  other = other
  twice = twice
  batch = batch
  k1 = k1
  k2 = k2
  k3 = k3
  ana = ana
  bo = bo
  Items <- MCItems
  KeyRank <- MCKeyRank
  Stocked <- MCStocked
  Requests = {put, take, other, twice, batch}
  Request <- MCRequest
  Recipes = {gun}
  Recipe <- MCRecipe
  Handlers = {h1, h2}
  MaxLine = 2
  MaxItem = 2
  MaxStock = 2
  Products = {gun1, gun2, gun3}
  Numbers = {1}
  MaxRecipes = 2
  PlanTTL = 1
  Workers = {w1, w2}
  MaxClicks = 5
  MaxCraftFaults = 1
  LastMoment = 2
  each = each
  Each = Each
  eachPadded = eachPadded
  box = box
  crate = crate
  sale1 = sale1
  sale2 = sale2
  own = own
  Entries = {sale1, sale2, own}
  Home <- MCHome
  Original <- MCOriginal
  Entered <- MCEntered
  Trimmed <- MCTrimmed
  Folded <- MCFolded
  Editors = {e1, e2}
  MaxEdits = 2
SYMMETRY Symmetry
INVARIANTS
  KeyActsOnce
  DoneIsWhole
  AuditsAreWhole
  RingsNeedABatch
  PostsAsShown
CHECK_DEADLOCK FALSE
