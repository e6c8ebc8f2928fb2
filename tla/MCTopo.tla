------------------------------- MODULE MCTopo -------------------------------
EXTENDS Topo
=============================================================================
