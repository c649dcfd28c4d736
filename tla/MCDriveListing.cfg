\* Two clients on two processes, a folder and two files, pages of two rows.
CONSTANTS
  FolderIds = {1}
  FileIds = {2, 3}
  MaxRank = 3
  Limit = 2
  Readers = {r1, r2}
  Processes = {p1, p2}
  Home <- TwoHomes
  MaxWrites = 3
  Nothing = Nothing
  r1 = r1
  r2 = r2
  p1 = p1
  p2 = p2
SYMMETRY Symmetric
SPECIFICATION ListingSpec
INVARIANTS
  PagesAreOneListing
  ListingIsFresh
CHECK_DEADLOCK FALSE
