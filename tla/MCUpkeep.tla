------------------------------ MODULE MCUpkeep ------------------------------
EXTENDS Upkeep

\* Two lives of a Pod with a fault or a stop of the kubelet, or one with a
\* fault, a stop and a command.
MCBudgets == {[pods |-> 2, faults |-> 1, stops |-> 0, commands |-> 0],
              [pods |-> 2, faults |-> 0, stops |-> 1, commands |-> 0],
              [pods |-> 1, faults |-> 1, stops |-> 1, commands |-> 1]}
=============================================================================
