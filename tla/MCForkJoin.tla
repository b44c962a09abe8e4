------------------------------ MODULE MCForkJoin ------------------------------
(***************************************************************************)
(* Small instances of ForkJoin for TLC: the branches as model values and   *)
(* the configurations each run studies.                                    *)
(***************************************************************************)
EXTENDS ForkJoin, TLC

CONSTANTS b1, b2

TwoPaths == <<b1, b2>>

\* The second branch has a SYNC node that waits for the first one.
SecondWaits == b2 :> b1

Cfg(launch, failFast, percent, budget, required) ==
    [launch |-> launch, failFast |-> failFast, percent |-> percent,
     budget |-> budget, required |-> required]

\* fail_fast, continue_on_error and fail_on_threshold(0.5); wait_for_all and
\* wait_for_any.  Only run_parallel reads the total deadline, and a detached
\* launch does not read the failure strategy either.
AllModes ==
    {c \in {Cfg(l, s[1], s[2], g, r) :
                l \in {"serial", "parallel", "detached"},
                s \in {<<TRUE, 0>>, <<FALSE, 50>>, <<FALSE, 100>>},
                g \in BOOLEAN, r \in 1 .. 2} :
        /\ c.budget => c.launch = "parallel"
        /\ c.launch = "detached" => c.failFast}

=============================================================================
