SPECIFICATION FairSpec
CONSTANTS
  Packages <- Busy
  Requirements <- NoRequirements
  SeamStatus <- NoSeams
  Policy <- NoPolicy
  ExistingRepo = TRUE
  Commands = {"snapshot"}
  Subprocess = TRUE
  MayFail = {"x", "y", "z", "wp-repo-onboarding", "wp-self-hosting-regression",
             "wp-self-hosting-acceptance"}
  Missing = {}
  Live = FALSE
  MaxCycles = 2
  MaxCrashes = 0
INVARIANTS
  AcceptanceLast
PROPERTIES
  ReadyServed
  ExhaustedClosesOut
