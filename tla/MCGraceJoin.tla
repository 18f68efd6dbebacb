---------------------------- MODULE MCGraceJoin ----------------------------
\* Two keys of which one is a prefix of the other, for TLC.
EXTENDS GraceJoin

MCKeys == {<<1>>, <<1, 2>>}

=============================================================================
