SPECIFICATION UsersFairSpec
CONSTANTS
  Names = {p1, p2}
  Users = {p1}
  Channels = {p1}
  Players = {p1}
  Cooldowns = {k1}
  MaxConns = 1
INVARIANTS UsersTypeOK AnswerTrue
PROPERTY AnswerEnds
CHECK_DEADLOCK FALSE
