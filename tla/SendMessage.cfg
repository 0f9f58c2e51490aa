SPECIFICATION FairSpec
CONSTANTS
  editor = editor
  desktop = desktop
  server = server
  Threads = {editor, desktop, server}
  NoThread = NoThread
  Msgs = {ask}
  Blocks = {b1, b2}
  Calls <- Twice
  Posters = {server}
  Timed = {}
  Blocking = {}
  Mortal = {}
  Peekers = {desktop}
  Scarce = {}
INVARIANTS TypeOK AnswerValid HandledOnce NobodyMissed
PROPERTIES AllReturn
CHECK_DEADLOCK FALSE
