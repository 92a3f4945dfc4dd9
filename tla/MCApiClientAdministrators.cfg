SPECIFICATION Spec

CONSTANTS
  MaxSetters = 0
  FileKinds <- OneUploaded
  MinGroupAttachments = 2
  MaxGroupAttachments = 3
  MaxItems = 1
  RightsSent <- BothKinds

INVARIANTS
  AnswerRead
