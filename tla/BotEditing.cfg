SPECIFICATION FairSpec
CONSTANTS
  Chats = {"private"}
  Groups = {}
  Links = {"link"}
  Inputs <- EditingInputs
  NoMessage = NoMessage
  MaxPending = 2
  MaxLate = 0
PROPERTY
  MessagesTakenIn
CHECK_DEADLOCK FALSE
