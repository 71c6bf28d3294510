CONSTANTS
  Pages = {"p", "r"}
  Quotes = {"a", "b", "c"}
  Images = {"ia"}
  ValueOf <- NoteValues
  MaxReads = 3
  NoteSize <- NoteSizes
  Writings = {1, 3}
  Room = 4
  Envelope = 1
  Records <- RecordSchemas
  ReadsAs <- SpanValues
  MaxOptions = 3
  GroupSize = 2
  NotANumber = 99
  VerdictSizes <- VerdictInputs
SPECIFICATION Spec
CHECK_DEADLOCK FALSE
INVARIANTS
  NotesKept
  RecordKept
PROPERTIES
  AnswersEnd
  AnswerKept
