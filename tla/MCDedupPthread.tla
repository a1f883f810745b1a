--------------------------- MODULE MCDedupPthread ---------------------------
EXTENDS DedupPthread

CONSTANTS x, y

\* Duplicates in the same and in another coarse chunk, before and after the
\* original; one content so often that its duplicates fill the queue; one
\* coarse chunk so much longer than the others that Fragment has to wait for
\* its stages; an empty file.
Files == {
    <<<<x>>, <<y>>, <<x>>>>,
    <<<<x, y>>, <<y, x>>>>,
    <<<<x>>, <<x, x, x, x, x, x>>>>,
    <<<<x>>, <<x, x, x, x, x, x, x, x, x, x, x>>, <<x>>, <<x>>, <<x>>, <<x>>, <<x>>, <<x>>>>,
    <<>>}
=============================================================================
