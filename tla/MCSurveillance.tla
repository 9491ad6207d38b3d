--------------------------- MODULE MCSurveillance ---------------------------
EXTENDS Surveillance, FiniteSets, TLC

\* A cron, an interval with a grace, and a cron nobody can read.
Cron == [every |-> 0, cron |-> {1, 2, 3, 4, 6}, grace |-> 0]
Interval == [every |-> 1, cron |-> {}, grace |-> 1]
Unreadable == [every |-> 0, cron |-> {}, grace |-> 0]
OnePolicy == {Cron}
BadPolicies == {Interval, Unreadable}

SameTenant == [r \in Receivers |-> CHOOSE t \in Tenants : TRUE]

\* Bound: of the sends, the PATCHes and the runs, three are under way at once.
ThreeAtOnce ==
    Cardinality({s \in Sends : send[s] = "received"})
    + Cardinality({e \in Editors : edit[e] # NoEdit})
    + Cardinality({j \in Runs : run[j] = "running"}) <= 3

Symmetry == Permutations(Sends) \cup Permutations(Editors) \cup Permutations(Runs)
=============================================================================
