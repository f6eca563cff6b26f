SPECIFICATION SwapSpec
CONSTANTS
  Readers = {t1, t2}
  Writers = {w1, w2}
INVARIANTS
  LockSound ModelsAlive
PROPERTIES ImplementsReadersWriters ThreadsGoOn
