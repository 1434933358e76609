SPECIFICATION FairSpec
CONSTANTS
  Alice = Alice
  Bob = Bob
  Low = Bob
  None = None
  Mode = "DHM"
  HelloMax = 20
  NonHelloMax = 10
  SendErrors = FALSE
  Prompt = TRUE
  MaxLoss = 11
CHECK_DEADLOCK FALSE
PROPERTIES EventuallySecure
