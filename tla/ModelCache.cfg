SPECIFICATION Spec
CONSTANTS
  Goroutines = {g1, g2}
  Types <- MCTypes
  Embeds <- MCEmbeds
  Slow <- MCSlow
  MaxUses = 3
SYMMETRY MCSymmetry
INVARIANTS
  FirstUseIsComplete
  CacheSettles
CHECK_DEADLOCK FALSE
