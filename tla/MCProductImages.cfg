CONSTANTS
  Products = {p}
  Threads = {t1, t2, t3}
  Names = {f1, f2, f3, f4}
  NoFile = NoFile
  Processes = {p1, p2}
  Nobody = Nobody
SPECIFICATION FilesSpec
SYMMETRY Symmetry
INVARIANTS NoDanglingImage ReadersAreServed NoOrphanAtRest
  ReportedFileStays StartsEndWell
PROPERTIES FrozenOffSale
