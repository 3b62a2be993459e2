CONSTANTS
  s1 = s1
  s2 = s2
  Wide = TRUE
  NoRule = NoRule
  Requests <- MCRequests
  Rules <- MCRules
  Session <- MCSession
  Covers <- MCCovers
  IdOf <- MCIdOf
  Book <- MCBook
  Denied = {}
  Writers = {"admin", "window"}
  Clis = {"cli"}
SPECIFICATION MCSpec
INVARIANTS
  StoreTypeOK
  RulesUnique
  SerialStoreFresh
  PickedRuleFires
  AllowsOnlyAlike
PROPERTIES
  SerialNoLostRule
