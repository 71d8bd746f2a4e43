------------------------------ MODULE MCFanout -------------------------------
EXTENDS Fanout

CONSTANTS MaxAny,   \* drones in any conditions
          MaxLong   \* drones behind silent ones

AnyHealth == UNION {[1 .. n -> Conditions] : n \in 0 .. MaxAny}

\* Hosts that do not answer, a drone that does right behind them, no others.
SilentFirst ==
    {[i \in 1 .. MaxLong |->
        IF i <= k THEN "silent" ELSE IF i = k + 1 THEN "up" ELSE "refused"] :
            k \in 0 .. MaxLong - 1}

MCHealth == AnyHealth \cup SilentFirst
=============================================================================
