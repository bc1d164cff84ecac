SPECIFICATION Spec
CONSTANTS
  BufLen = 16
  Commands <- MCCommands
  Lines <- MCLines
  Typed <- MCTyped
  Replies <- MCReplies
  Lim <- MCLim
  LoadLim <- MCLim
  WriteReply <- WriteTo
  ParseReply <- ReadReply
  MaxItems = 2
  MaxCuts = 2
INVARIANTS TypeOK   
CHECK_DEADLOCK FALSE
