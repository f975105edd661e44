SPECIFICATION Spec
PROPERTIES ComesToRest DueIsServed WorkIsRun KeepsFiring NamesSettle
CHECK_DEADLOCK FALSE
