CONSTANTS
  main = main
  team = team
  mine = mine
  theirs = theirs
  hello = hello
  junk = junk
  Folders <- MCFolders
  MainFolder = main
  TaskIds = {mine, theirs}
  OwnerOf <- MCOwnerOf
  Texts = {hello, junk}
  Garbled = {junk}
  AuthorOf <- MCAuthorOf
  TargetOf <- MCTargetOf
  MaxWrites = 2
  MaxStops = 1
SPECIFICATION FairSpec
INVARIANTS
  DrainedMeansDone
  SentOncePerCrash
PROPERTIES
  RequestsAreRead
CHECK_DEADLOCK FALSE
