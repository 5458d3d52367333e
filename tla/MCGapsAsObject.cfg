SPECIFICATION StdlibSpec
\* A script may stop with its clients, sockets and files in any state, and a question
\* leads to no other.
CHECK_DEADLOCK FALSE
CONSTANTS
  Caller = {"c1", "c2"}
  MaxBatch = 2
  MaxItems = 2
  MaxId = 5
  Listener = {"l1", "l2"}
  Client = {"c1", "c2"}
  Dial = {"d1"}
  Socket = {"s"}
  Datagram = {"d", "e", "f"}
  Text = {"d"}
  RecvCall = {"p", "q", "r"}
  Buffer = 2
  Path = {"a", "b"}
  Inode = {1, 2, 3}
  LuaThread = {"s"}
  Worker = {"x"}
  Contents <- MCContents
  MaxCalls = 3
  LuaValues <- MCLuaValues
  FieldMaps <- MCFieldMaps
  Fields <- MCFields
  Nesting <- MCNesting
  MemberToLua <- MCMemberToLua
  MemberToFields <- MCMemberToFields
  MemberSignature <- MCMemberSignature
  MemberInside <- MCMemberInside
  JsonValues <- MCJsonValues
  ServerAnswers <- MCServerAnswers
  Requested <- MCRequested
  HttpJson <- HttpJsonOf
  PathPairs <- MCPathPairs
  Dir <- MCDir
  Segment = {"a", "b", "..", ".", "", "x", "y", "z", "w"}
  Strings <- MCStrings
  Urls <- MCUrls
  Handle = {"h", "g"}
  MaxMessages = 3
  NumberLists <- MCNumberLists
  Small <- MCSmall
  Vectors <- MCVectors
  Nanos = 5
  Fractions = 4
  Epochs <- MCEpochs
  Sealings <- MCSealings
INVARIANT EncodedAsDocumented
