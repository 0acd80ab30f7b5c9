SPECIFICATION Spec
CONSTANTS
  Instruments = {x1, x2}
  Prices = {1, 2}
  Quantities = {1, 2}
  MaxOrders = 4
  Capacity = 2
SYMMETRY MCSymmetry
INVARIANTS BooksSound FiguresTrue
PROPERTIES ReplyTruthful PriceTimePriorityKept
CHECK_DEADLOCK FALSE
