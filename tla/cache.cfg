CONSTANTS
  Nil = Nil
  Keys = {whole, economy}
  WholeMap = whole
  Sessions = {x1, x2}
  TTL = 2
  ReadBound = 1
  MaxChanges = 3
SPECIFICATION FairSpec
INVARIANTS TypeOK BoundedStaleness SummaryNeverOlder
PROPERTIES EventuallyCurrent
