\* Integers of 6 bits, doubles of 4: the integers from 17 on are not all doubles.
CONSTANTS
  Width = 6
  Precision = 4
  Sizes = {0, 1, 2, 3, 4, 5, 6, 7, 11, 15, 16, 17, 18, 30, 31, 32}
  Quarters = {1, 2, 6, 10, 64, 68, 120, 256}
SPECIFICATION Spec
INVARIANT AlikeIsSame
