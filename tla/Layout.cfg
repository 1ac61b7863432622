\* One narrow window and two with columns; positions left and right of every limit.
CONSTANTS
  Windows = {1000, 1200, 1600}
  Frame = 78
  Pointers = {p1, p2}
  Positions = {0, 600, 900}
SPECIFICATION Spec
INVARIANTS FitsWindow DragsEnd
