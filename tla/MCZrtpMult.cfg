SPECIFICATION Spec
CONSTANTS
  Alice = Alice
  Bob = Bob
  Low = Bob
  None = None
  Mode = "Mult"
  HelloMax = 2
  NonHelloMax = 2
  SendErrors = TRUE
  Prompt = FALSE
  MaxLoss = 0
CHECK_DEADLOCK FALSE
INVARIANT KeysAgree
