\* Two programs, two copies at any moment at either end, one thing going wrong.
CONSTANTS
  ed = ed
  gimp = gimp
  hello = hello
  bye = bye
  photo = photo
  Apps = {ed, gimp}
  Texts = {hello, bye}
  Images = {photo}
  Bridge = Bridge
  None = None
  MaxCopies = 2
  MaxFaults = 1
SPECIFICATION FairSpec
INVARIANTS
  ConvertedOnce
  LatestEverywhere
PROPERTIES
  ComesToRest
CHECK_DEADLOCK FALSE
