SPECIFICATION FairSpec
CONSTANTS
  Owners = {o1}
  Requests = {r1, r2}
  Absent = Absent
  MaxChallenges = 3
  MaxApps = 3
  MaxTokens = 2
INVARIANTS TypeOK OneOpenApplication ChallengeUsedOnce ReviewedIsVerified
PROPERTIES ReviewIsFinal ImplementsRegister EventuallyAnswered
CHECK_DEADLOCK FALSE
