SPECIFICATION Spec
CONSTANTS
  Chats = {"private", "group"}
  Groups = {"group"}
  Links = {"link"}
  Inputs <- DialogueInputs
  NoMessage = NoMessage
  MaxPending = 2
  MaxLate = 0
INVARIANTS
  DialogueHasRequest
  SavesWhatWasDictated
  OneEffectPerUpdate
