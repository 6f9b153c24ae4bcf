---------------------------- MODULE MCCommandLine ----------------------------
(* CommandLine with two terminals, two reviewers' prompts and five services.*)
EXTENDS CommandLine, TLC

CONSTANTS t1, t2, s1, s2, s3, s4, s5

Cmd(do) == [do |-> do, typo |-> FALSE, server |-> FALSE, force |-> FALSE]

(* What may be run side by side; discover, which shares nothing, alone.    *)
MCPlans ==
    { (t1 :> <<Cmd("review")>> @@ t2 :> <<Cmd("setup")>>),
      (t1 :> <<Cmd("setup"), Cmd("review")>> @@ t2 :> <<Cmd("edit")>>),
      (t1 :> <<Cmd("prompts")>> @@ t2 :> <<Cmd("setup")>>),
      (t1 :> <<[Cmd("review") EXCEPT !.server = TRUE]>> @@ t2 :> <<[Cmd("review") EXCEPT !.typo = TRUE]>>),
      (t1 :> <<Cmd("discover")>> @@ t2 :> << >>),
      (t1 :> <<[Cmd("discover") EXCEPT !.force = TRUE]>> @@ t2 :> << >>) }

MCRoles == <<"scientific", "evidence">>
MCMine == [roles |-> {"evidence"}, server |-> FALSE, discovery |-> TRUE]

(* s1 and s2 have the same name on two hosts, and s3 is called as s2's     *)
(* host, where s4, that is not Paper Guard, is; s5's record has no port.   *)
MCNameOf == (s1 :> "lab" @@ s2 :> "lab" @@ s3 :> "host2" @@ s4 :> "nas" @@ s5 :> "lab")
MCHostOf == (s1 :> "host1" @@ s2 :> "host2" @@ s3 :> "host1" @@ s4 :> "host2" @@ s5 :> "host1")
MCVersionOf == (s1 :> "same" @@ s2 :> "unknown" @@ s3 :> "other" @@ s4 :> "same" @@ s5 :> "same")
MCPreferences == {"", "lab", "host1", "host2"}
=============================================================================
