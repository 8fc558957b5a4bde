----------------------------- MODULE MCTilStream -----------------------------
EXTENDS TilStream

CONSTANTS a, b, rotation, offset

Both == {rotation, offset}
One == {rotation}
None == {}
Clones == {a, b}
=============================================================================
