------------------------- MODULE MCFailureDetector -------------------------
EXTENDS FailureDetector

CONSTANTS w1, w2

MCProcs == {w1, w2}

\* HEARTBEAT_INTERVAL_MS = 5000 (tracker.py): the deamon sleeps 5000 / 1000
\* seconds and compares elapsed seconds with 2 * 5000.
MCPeriod == 5000 \div 1000
MCLimit == 2 * 5000

=============================================================================
