SPECIFICATION Spec

CONSTANTS
  MaxSetters = 2
  FileKinds <- OneUploaded
  MinGroupAttachments = 2
  MaxGroupAttachments = 3
  MaxItems = 4
  RightsSent <- EveryRight

INVARIANTS
  AnswerRead
  AttachmentsResolve
  ErrorsMatchElements
  ReadAsMeant
