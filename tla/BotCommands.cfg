SPECIFICATION FairSpec
CONSTANTS
  Chats = {"private"}
  Groups = {}
  Links = {"link"}
  Inputs <- CommandInputs
  NoMessage = NoMessage
  MaxPending = 2
  MaxLate = 1
INVARIANTS
  TypeOK
  SaidIsSo
PROPERTIES
  ConfirmsOnlyFinished
  MessagesTakenIn
