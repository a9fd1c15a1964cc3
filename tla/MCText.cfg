SPECIFICATION AllSpec
CONSTANTS
  Classes = {"BufferStream", "OutputStream", "Log"}
  Capacity = 4
  Texts = {1, 2}
  MaxBytes = 5
  TopLevel = 1
  ResetBytes = 2
  MayFail = TRUE
  Text <- MCText
  Ends = {"n"}
  Rooms = {2, 4}
  Sizes = {2}
  Descriptors = {"fd1", "fd2"}
  NoSocket = "none"
  Alphabet <- MCAlphabet
  MaxLength = 5
  Digit <- MCDigit
  Size <- MCSize
  List <- MCList
  Args <- MCArgs
  Words <- MCWords
  Lower <- MCLower
  MaxWords = 4
  MaxCalls = 2
INVARIANTS
  ClientDelivers
  FormatAgrees
  StringsAgree
  NumbersAgree
  ArgumentsParsed
  StreamDelivers
CHECK_DEADLOCK FALSE
