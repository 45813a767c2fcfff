-------------------------- MODULE MCLocalIndexer ---------------------------
EXTENDS LocalIndexer

\* An archive of more texts than the queue takes, one of one, an empty one.
MCTexts == 1..4
MCArchives == {<<1, 2, 3>>, <<4>>, <<>>}
=============================================================================
