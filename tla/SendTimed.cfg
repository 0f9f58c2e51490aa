SPECIFICATION FairSpec
CONSTANTS
  editor = editor
  desktop = desktop
  server = server
  Threads = {editor, desktop, server}
  NoThread = NoThread
  Msgs = {ask}
  Blocks = {b1, b2}
  Calls <- Once
  Posters = {}
  Timed = {editor, server}
  Blocking = {server}
  Mortal = {desktop}
  Peekers = {desktop}
  Scarce = {desktop}
PROPERTIES AllReturn
CHECK_DEADLOCK FALSE
