\* get_dag_stats next to a call and the mining loop.
SPECIFICATION LocksSpec
CONSTANTS
    Tasks <- MCTasks
    Duties <- MCStatsDuties
INVARIANT
    NoDeadlock
