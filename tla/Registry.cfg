CONSTANTS
  Jids = {main, team, ops}
  Main = main
  Folders = {fmain, fteam, fbad}
  MainFolder = fmain
  Valid = {fmain, fteam}
  None = None
  MaxTurns = 3
  MaxChanges = 3
  MaxStops = 2
SPECIFICATION Spec
INVARIANTS
  RestartFindsTheSame
  OneTurnPerFolder
PROPERTIES
  CursorIsKept
CHECK_DEADLOCK FALSE
