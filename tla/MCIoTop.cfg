\* The client, the lists and the terminal at work together, until the program
\* ends.  Two tasks, requests that may be cut in two, room for two directories
\* beside the socket, header lines shorter and longer than the message that a
\* terminal without colours gets.
SPECIFICATION FairTopSpec
CONSTANTS
  Width = 200
  HeaderLengths = {64, 130}
  Tasks <- MCTasks
  NoTask = NoTask
  Pieces = 2
  RcvBuf = 2
  Entries <- MCEntries
  MaxFd = 5
CHECK_DEADLOCK FALSE
INVARIANTS
  TypeOK
  TopTypeOK
  DescriptorsKept
  ListsTheTasks
  FrameHasItsNumbers
  FrameIsClean
  RegistryInStep
PROPERTIES
  ImplementsTaskQuery
  ImplementsIoRunner
  FramesKeepComing
