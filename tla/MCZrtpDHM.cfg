SPECIFICATION Spec
CONSTANTS
  Alice = Alice
  Bob = Bob
  Low = Bob
  None = None
  Mode = "DHM"
  HelloMax = 2
  NonHelloMax = 2
  SendErrors = TRUE
  Prompt = FALSE
  MaxLoss = 0
CHECK_DEADLOCK FALSE
INVARIANTS TypeOK KeysAgree SenderHasReceiver SomebodySends ResponderFirst
PROPERTIES ImplementsKeyHandover
