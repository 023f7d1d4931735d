--------------------------- MODULE MCClusterAsync ---------------------------
EXTENDS ClusterAsync

\* the contexts have no subscriptions
MChash(name) == 0

\* with CLUSTER SLOTS for a new context, with CLUSTER NODES for one that is
\* going to update its route
MCBegins == {[useSlots |-> TRUE, timer |-> FALSE], [useSlots |-> FALSE, timer |-> TRUE]}

MCFirstOwner == [slot \in Slots |-> "A"]
=============================================================================
