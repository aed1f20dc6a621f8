SPECIFICATION LiveSpec
CONSTANTS
  p1 = p1
  p2 = p2
  NoProc = NoProc
  Procs = {p1, p2}
  Killable = {p1}
  INPUT_BUF = 2
  WORD = 4
  Plain = {"a", "b"}
  MaxN = 2
INVARIANT RingOrder
PROPERTIES LineSpec InputIsRead
