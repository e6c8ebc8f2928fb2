\* Spec scenario 3: four workers, groups a and b of two each.
CONSTANTS
  p1 = p1  p2 = p2  p3 = p3  p4 = p4  a = a  b = b  c = c  None = None
  Procs = {p1, p2, p3, p4}
  Group <- MCGroup4
SPECIFICATION Spec
INVARIANTS TypeOK MutualExclusion
PROPERTIES UnexcludeCompletes ExcludeRefinement
