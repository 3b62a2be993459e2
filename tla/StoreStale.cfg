CONSTANTS
  s1 = s1
  s2 = s2
  Wide = FALSE
  NoRule = NoRule
  Requests <- MCRequests
  Rules <- MCRules
  Session <- MCSession
  Covers <- MCCovers
  IdOf <- MCIdOf
  Book <- MCBook
  Denied = {}
  Writers = {"admin", "window"}
  Clis = {}
SPECIFICATION MCSpec
INVARIANT
  StoreFresh
