\* Every nworker from 1 to 12 and every order of visiting children: up to
\* 12 ranks the heap has five ranks with two children, so 32 orders.
CONSTANT MaxN = 12
SPECIFICATION Spec
INVARIANTS ShareRingIsPermutation LinkRing LinkTree RingSharesTree
