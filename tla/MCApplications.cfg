SPECIFICATION FairAppSpec
PROPERTIES
  EndsWhenToldTo
\* The program ends.
CHECK_DEADLOCK FALSE
