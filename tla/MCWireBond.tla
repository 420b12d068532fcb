----------------------------- MODULE MCWireBond -----------------------------
\* One partition, two bonders: windows of two records, replays of two.
EXTENDS WireBond

MCPartitions == {0}
MCBonders    == {1, 2}
=============================================================================
