SPECIFICATION Spec
CONSTANTS
  Tasks = {"console"}
  Messages <- TwoMessages
  LOGGING_AGGREGATE_MESSAGES = 4
  MaxLogged = 9
INVARIANT EachTextCounted
CHECK_DEADLOCK FALSE
