SPECIFICATION Spec
CONSTANTS
  Procs = {p1, p2}
  p1 = p1
  p2 = p2
  First = p1
  NPAGES = 12
  PGSIZE = 2
  NPTENTRIES = 2
  KERNBASE = 8
  WORD = 16
  INT = 2
  Grow <- GrowSizes
  Segments = {1, 5, 9}
INVARIANTS PagesConserved MappedBelowSize ArgumentsMapped
