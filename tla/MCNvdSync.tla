----------------------------- MODULE MCNvdSync -----------------------------
EXTENDS NvdSync
CONSTANTS y1, y2, dict
MCFeeds == <<<<y1, y2>>, <<dict>>>>
CpeFeed == <<<<dict>>>>
MCCpeFiles == {dict}
\* The second file of the feed is published once, the others are replaced.
MCMaxVersion == [g \in Files |-> IF g = y2 THEN 1 ELSE 2]
=============================================================================
