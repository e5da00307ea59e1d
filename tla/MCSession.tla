------------------------------ MODULE MCSession ------------------------------
EXTENDS Session, TLC
CONSTANTS t1, t2, k1, k2, c1
MCToken == {t1, t2}
MCTick == {k1, k2}
MCCall == {c1}
=============================================================================
