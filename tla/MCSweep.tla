------------------------------ MODULE MCSweep ------------------------------
(* Instances of Sweep for TLC.                                             *)
EXTENDS Sweep

CONSTANTS n1, n2, s1, s2, f1

\* Each posting is a solicitation of its own.
TwoSols == (n1 :> s1) @@ (n2 :> s2)
OneWatches == f1 :> {n1, n2}

\* Cleanup in the first minute of a day, the sweep in the second.
TwoJobs == <<"sweep", "cleanup">>
CronTimes == ("sweep" :> 1) @@ ("cleanup" :> 0)
=============================================================================
