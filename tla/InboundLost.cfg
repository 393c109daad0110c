CONSTANTS
  note = note
  bad = bad
  p1 = p1
  junk = junk
  line = line
  open = open
  strict = strict
  Names <- MCNames
  Renamed = {junk, bad}
  Void = {junk}
  Poison = {bad}
  Lines = {line}
  Posts = {p1}
  HasId = {p1}
  Versions = {open, strict}
  NoFile = NoFile
  Denied <- MCDenied
  None = None
  MaxEdits = 1
  MaxStops = 0
SPECIFICATION Spec
INVARIANTS
  WrittenIsNotLost
CHECK_DEADLOCK FALSE
