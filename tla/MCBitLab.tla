------------------------------ MODULE MCBitLab ------------------------------
\* Functions of no, one and two arguments for btest.
EXTENDS BitLab

Ratings == <<1, 2, 4>>
Three == <<<<>>, <<<<-20, 20>>>>, <<<<-21, 20>>, <<0, 2>>>>>>
Samples == {-128, -77, -1, 0, 1, 90, 127}
=============================================================================
