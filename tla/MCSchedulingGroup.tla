-------------------------- MODULE MCSchedulingGroup --------------------------
(***************************************************************************)
(* Small instances of SchedulingGroup for TLC.                             *)
(***************************************************************************)
EXTENDS SchedulingGroup, TLC

CONSTANTS f1, f2, f3, s1

\* One thread starts one fiber.
Plain == [starters |-> {s1}, starts |-> {<<f1>>}, foreign |-> {}, yields |-> 0,
          thieves |-> FALSE, stops |-> FALSE, buffered |-> FALSE]

GroupWorlds ==
    {\* Two threads start two fibers one by one, and there are thieves.
     [Plain EXCEPT !.starters = Starters, !.starts = {<<f1>>, <<f2>>}, !.thieves = TRUE],
     \* A batch is started, and there are thieves and a fiber to steal.
     [Plain EXCEPT !.starts = {<<f1, f2>>}, !.foreign = {f3}, !.thieves = TRUE],
     \* Stop is called while a fiber is started and yields, with store buffers.
     [Plain EXCEPT !.yields = 1, !.thieves = TRUE, !.stops = TRUE, !.buffered = TRUE]}

LostFiberWorlds == {[Plain EXCEPT !.buffered = TRUE]}
MaskWorlds == {[Plain EXCEPT !.starts = {<<f1>>, <<f1, f2>>}]}
=============================================================================
