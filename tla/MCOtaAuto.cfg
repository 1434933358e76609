SPECIFICATION Spec
CONSTANTS
  NDev = 2
  MaxGen = 1
  MaxAdds = 2
  MaxReports = 0
  MaxOpens = 0
  MaxLogins = 1
PROPERTY QuestionNotLost
CHECK_DEADLOCK FALSE
