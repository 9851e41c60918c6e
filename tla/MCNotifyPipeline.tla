-------------------------- MODULE MCNotifyPipeline --------------------------
EXTENDS NotifyPipeline, TLC
CONSTANTS g1, g2, g3
\* The second vector is the first with the rows of three configurations' CPEs ended early.
Mixed == {<<2, 0, 3, 1, 2>>, <<1, 0, 0, 1, 1>>, <<0, 2>>, <<>>}
Long == {<<2, 2, 2, 2, 2>>}
=============================================================================
