----------------------------- MODULE MCNetPath -----------------------------
EXTENDS NetPath

CONSTANTS m1, m2

MCInpkt == {m1, m2}
MCMsg == {m1, m2, Api}
MCTimers == {"arp", "tcp"}
MCInterval == [arp |-> 2, tcp |-> 1]
MCPermanent == {"arp"}
=============================================================================
