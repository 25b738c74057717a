SPECIFICATION Spec
INVARIANTS
  SchemaIsThatOfItsRevision
  OnlyNewStatusesStopACommand
  HeadIsWhatTheModelsDeclare
