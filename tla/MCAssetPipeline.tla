--------------------------- MODULE MCAssetPipeline ---------------------------
(***************************************************************************)
(* Instances of AssetPipeline.  A credit stands for 50 of the account: a   *)
(* task costs 1, the floors of 200, 800, 150 and 220 become 4, 5, 3 and 5. *)
(***************************************************************************)
EXTENDS AssetPipeline, TLC

MCFloor == ("slice" :> 4) @@ ("wave" :> 5) @@ ("daemon" :> 3) @@ ("images" :> 5) @@ ("reprocess" :> 0)

Plan(programs, runners, names, props, credits, executions, harvest) ==
  [programs |-> programs, runners |-> runners, names |-> names, props |-> props,
   credits |-> credits, starts |-> executions, faults |-> 2, harvest |-> harvest]

\* One program at a time, again and again, also for briefs with the category
\* "props"; two names; a buyer of images beside the daemon; the harvest beside
\* a buyer.
MCPlans == {Plan({"slice", "wave"}, {"r1"}, {"a"}, {}, 6, 3, FALSE),
            Plan({"wave", "daemon"}, {"r1"}, {"a"}, {}, 6, 3, FALSE),
            Plan({"wave", "daemon"}, {"r1"}, {"a"}, {"a"}, 6, 3, FALSE),
            Plan({"slice", "daemon", "images"}, {"r1"}, {"a"}, {"a"}, 5, 3, FALSE),
            Plan({"slice", "daemon", "images"}, {"r1"}, {"a"}, {}, 5, 3, FALSE),
            Plan({"slice", "reprocess"}, {"r1"}, {"a"}, {}, 5, 3, FALSE),
            Plan({"slice"}, {"r1"}, {"a", "b"}, {"b"}, 5, 2, FALSE),
            Plan({"daemon", "images"}, {"r1", "r2"}, {"a"}, {}, 5, 2, FALSE),
            Plan({"images"}, {"r1"}, {"a"}, {}, 5, 2, TRUE)}
================================================================================
