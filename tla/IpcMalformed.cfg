CONSTANTS
  main = main
  team = team
  mine = mine
  theirs = theirs
  hello = hello
  junk = junk
  Folders <- MCFolders
  MainFolder = main
  TaskIds = {mine, theirs}
  OwnerOf <- MCOwnerOf
  Texts = {hello, junk}
  Garbled = {junk}
  AuthorOf <- MCAuthorOf
  TargetOf <- MCTargetOf
  MaxWrites = 0
  MaxStops = 0
SPECIFICATION Spec
INVARIANTS
  MalformedIsSurvived
CHECK_DEADLOCK FALSE
