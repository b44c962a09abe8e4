------------------------- MODULE MCWorkflowExecution -------------------------
(***************************************************************************)
(* Small graphs for WorkflowExecution: the work nodes n1 and n2 in a line, *)
(* and a recovery node n3 that only error routes reach.                    *)
(***************************************************************************)
EXTENDS WorkflowExecution

CONSTANTS n1, n2, n3

Line == {n1, n2}
Rescued == {n1, n2, n3}

SuccLine == [n \in Line |-> IF n = n1 THEN {n2} ELSE {NoNode}]
SuccRescued == [n \in Rescued |-> IF n = n1 THEN {n2} ELSE {NoNode}]

\* A conditional edge back: n2 ends the graph or returns to n1.
SuccBack == [n \in Line |-> IF n = n1 THEN {n2} ELSE {n1, NoNode}]

Entry(cats, flag, n) == [categories |-> cats, suspend |-> flag, target |-> n]

\* No ERROR edge anywhere.
NoRoutes == [n \in Line |-> <<>>]

\* A failure of n1 parks the run at n3; a timeout of n2 is routed to a node
\* the graph does not have.
ParkRoutes ==
    [n \in Rescued |->
        CASE n = n1 -> <<Entry({}, "unset", n3)>>
          [] n = n2 -> <<Entry({"TransportTimeout"}, "no", NoNode)>>
          [] OTHER  -> <<>>]

\* A failure of n1 parks the run at n3, a business failure of n2 continues
\* there.
MixedRoutes ==
    [n \in Rescued |->
        CASE n = n1 -> <<Entry({}, "unset", n3)>>
          [] n = n2 -> <<Entry({"BusinessFailure"}, "no", n3)>>
          [] OTHER  -> <<>>]

\* A failure of n1 continues at n2, one of n2 goes back to n1.
BranchRoutes ==
    [n \in Line |->
        IF n = n1 THEN <<Entry({"TransportTimeout"}, "unset", n1), Entry({}, "no", n2)>>
                  ELSE <<>>]
BackDefault == Entry({}, "no", n1)

=============================================================================
