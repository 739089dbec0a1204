SPECIFICATION Spec
CONSTANTS
  Server = {main, vhost}
  main = main
  GIVEN = {"cookie_name", "validation_threshold"}
  Text = {"one", "two"}
  Pattern = {"pattern"}
  Level <- Levels
  LEVEL_MIN = 0
  LEVEL_MAX = 1000
  MAX_DIRECTIVES = 4
INVARIANTS TypeOK Complete InForce
CHECK_DEADLOCK FALSE
