\* The code as it is: does every worker keep entering its critical section?
CONSTANTS
  p1 = p1  p2 = p2  p3 = p3  p4 = p4  a = a  b = b  c = c  None = None
  Procs = {p1, p2, p3}
  Group <- MCGroup
SPECIFICATION Spec
PROPERTY ExcludeProgress
