SPECIFICATION Spec
CONSTANTS
  Getters = {g1, g2}
  Mutators = {m1, m2}
  Updaters = {u1}
  Removers = {r1}
  Forgetters = {f1}
  Collector = c
INVARIANTS NoUseAfterFree NoLeak SingleWriter OneRemoval
CHECK_DEADLOCK FALSE
SYMMETRY GetterSymmetry
