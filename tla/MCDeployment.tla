---------------------------- MODULE MCDeployment ----------------------------
(* Instances of Deployment for TLC.                                        *)
EXTENDS Deployment, TLC

CONSTANTS r1, r2, h1, h2, n1, n2

Sec(name, version) == [name |-> name, version |-> version]

\* Both schedules have the role r1, which loses a section; only one has r2.
TwoRoles == (h1 :> (r1 :> <<Sec(n1, 1), Sec(n2, 1)>>))
            @@ (h2 :> (r1 :> <<Sec(n1, 2)>> @@ r2 :> <<>>))
Order == <<r1, r2>>

\* The ticks are days; a week has two.
Kinds   == <<"daily", "weekly">>
Periods == "daily" :> 1 @@ "weekly" :> 2
Limits  == "daily" :> 1 @@ "weekly" :> 1
=============================================================================
