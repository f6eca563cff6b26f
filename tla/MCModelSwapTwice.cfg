SPECIFICATION SwapSpec
CONSTANTS
  Readers = {t1}
  Writers = {w1, w2}
INVARIANT DeletedOnce
