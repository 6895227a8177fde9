\* Native messaging mode: the stdout writer drains the channel.
CONSTANTS
  Conn = {e1, e2}
  MaxNotes = 2
  MaxReplies = 1
  Cap = 1
  Drained = TRUE
SPECIFICATION FairSpec
INVARIANTS TypeOK SequenceAccounted PerConnectionOrder
PROPERTIES EverythingRead EveryNoteSettled
CHECK_DEADLOCK FALSE
