SPECIFICATION Spec
CONSTANTS
  Packages <- Cart
  Requirements <- NoRequirements
  SeamStatus <- FrozenCartSeam
  Policy <- ShopPolicy
  ExistingRepo = FALSE
  Commands = {"snapshot"}
  Subprocess = TRUE
  MayFail = {"wp-cart-frontend"}
  Missing = {}
  Live = FALSE
  MaxCycles = 2
  MaxCrashes = 0
INVARIANTS
  AttemptLimit
