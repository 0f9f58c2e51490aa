SPECIFICATION Spec
CONSTANTS
  editor = editor
  desktop = desktop
  server = server
  Threads = {editor, desktop, server}
  NoThread = NoThread
  Msgs = {ask}
  Blocks = {b1, b2}
  Calls <- Budget
  Posters = {server}
  Timed = {editor}
  Blocking = {}
  Mortal = {}
  Peekers = {}
  Scarce = {}
INVARIANT AnswerValid
CHECK_DEADLOCK FALSE
