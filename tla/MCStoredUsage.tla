----------------------------- MODULE MCStoredUsage -----------------------------
EXTENDS StoredUsageProps

\* An event of a pubkey that is on the rise (and above its limit with it), and
\* a chunk of one that is not.
MCBy == << "p", "q" >>
MCLimit == [o \in Owner |-> IF o = IP THEN 1 ELSE 0]
================================================================================
