SPECIFICATION Spec
CONSTANTS
  s1 = s1
  s2 = s2
  Flavours <- MCFlavours
  Session <- MCSession
  NameSets <- MCNameSets
  Schemas <- MCSchemas
SYMMETRY MCSymmetry
INVARIANTS
  TypeOK
  OkAccountsForTables
PROPERTIES
  CallsAreAtomic
