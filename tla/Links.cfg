SPECIFICATION Spec
CONSTANTS
  Names <- AllNames
  Kind <- KindOf
  Longer <- LongerOf
  Saved <- SavedOnes
  Worlds <- Some
CHECK_DEADLOCK FALSE
INVARIANTS OneSessionOnly 
PROPERTIES ImplementsLink EveryWriteGoesOut MuteGoesDown CloseCompletes ReopenEnds 
