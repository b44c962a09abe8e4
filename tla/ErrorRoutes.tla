----------------------------- MODULE ErrorRoutes -----------------------------
(***************************************************************************)
(* The error-branch table (ErrorRouteTable): which node, if any, takes     *)
(* over when a node has failed, and whether the execution parks there for  *)
(* an external recovery.                                                   *)
(***************************************************************************)
EXTENDS Naturals, Sequences

CONSTANTS
    Nodes,          \* node ids of the graph
    NoNode,         \* not a node of the graph
    Routes,         \* per node, its ERROR edges in declaration order
    Default,        \* the workflow-level catch-all, or NoRoute
    SuspendPoints,  \* nodes marked `error_suspend_point`
    NoRoute         \* "no route": the failure interrupts the execution

(***************************************************************************)
(* The failure categories that routing tells apart: a handler's own        *)
(* failure, exhausted resources, a context-compression failure (for which  *)
(* the handler also asked for a pause), a timeout, and an interruption.    *)
(***************************************************************************)
Category == {"BusinessFailure", "Resource", "CompressionFailure",
             "TransportTimeout", "CancelledInterrupted"}

\* An ERROR edge: the categories it lists ({} when it lists none), the
\* tri-state suspend flag, and the edge's target, which nothing here
\* guarantees to be in the graph.
RouteEntry == [categories : SUBSET Category,
               suspend    : {"yes", "no", "unset"},
               target     : Nodes \cup {NoNode}]

ASSUME RouteAssumption ==
    /\ NoNode \notin Nodes
    /\ Routes \in [Nodes -> Seq(RouteEntry)]
    /\ Default = NoRoute \/ Default \in RouteEntry
    /\ SuspendPoints \subseteq Nodes

\* ErrorRouteConfig::matches
Matches(entry, c) ==
    IF entry.categories = {} THEN c # "CancelledInterrupted"
                             ELSE c \in entry.categories

\* ErrorRouteTable::suspends
Suspends(entry) ==
    \/ entry.suspend = "yes"
    \/ entry.suspend = "unset" /\ entry.target \in SuspendPoints

RouteTo(entry) == [target |-> entry.target, suspend |-> Suspends(entry)]

\* ErrorRouteTable::resolve: the first matching edge in declaration order,
\* then the default, which never catches an interruption.
Resolve(n, c) ==
    LET hits == {i \in DOMAIN Routes[n] : Matches(Routes[n][i], c)}
        first == CHOOSE i \in hits : \A j \in hits : i <= j
    IN  IF hits # {} THEN RouteTo(Routes[n][first])
        ELSE IF Default = NoRoute \/ c = "CancelledInterrupted" THEN NoRoute
        ELSE RouteTo(Default)

==============================================================================
