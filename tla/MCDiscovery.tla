---------------------------- MODULE MCDiscovery ----------------------------
EXTENDS Discovery, TLC

CONSTANTS orders, logs, audit, test1, offsets, testAll

\* "test*" is the only entry that matches more than itself.
MCMatches == [e \in {orders, logs, audit, test1, offsets, testAll} |->
                IF e = testAll THEN {testAll, test1} ELSE {e}]
=============================================================================
