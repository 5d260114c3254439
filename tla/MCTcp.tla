------------------------------- MODULE MCTcp -------------------------------
EXTENDS Tcp
MCServices == {<<"far", 1>>, <<"far", 2>>}
MCSegments == [s \in MCServices |-> IF s[2] = 1 THEN 3 ELSE 1]
=============================================================================
