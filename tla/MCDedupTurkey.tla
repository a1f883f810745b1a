--------------------------- MODULE MCDedupTurkey ----------------------------
EXTENDS DedupTurkey

CONSTANTS x, y

\* A duplicate in another coarse chunk and in the same one; an empty file.
Files == {<<<<x>>, <<x>>>>, <<<<x, x>>>>, <<>>}

\* Two coarse chunks and nothing twice.
Unique == {<<<<x>>, <<y>>>>}
=============================================================================
