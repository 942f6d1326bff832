\* Eight documents of up to five units, cut in pieces of three or four.
SPECIFICATION Spec
CONSTANTS
  a = a
  b = b
  h = h
  Words = {a, b, h}
  Headings = {h}
  Modal = {b}
  Invented = "invented"
  Documents <- SomeDocuments
  Target = 4
  Overlap = 2
  MaxChunks = 2
  MaxDepth = 2
  Retries = 2
  MaxModals = 1
INVARIANTS TypeOK Covered CitedWhereItIs
CHECK_DEADLOCK FALSE
