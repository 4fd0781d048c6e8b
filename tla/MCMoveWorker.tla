---------------------------- MODULE MCMoveWorker ----------------------------
(***************************************************************************)
(* Instances of MoveWorker for TLC: two torrents, where the second carries *)
(* the labels of two rules, and a few rows a rule may be given.            *)
(***************************************************************************)
EXTENDS MoveWorker, TLC

CONSTANTS t1, t2, r1, r2

TwoRules == (t1 :> <<r1>>) @@ (t2 :> <<r1, r2>>)
OneRule == [t \in Torrents |-> <<r1>>]

LabelRule(schedule, sequential, mode, policy, remove, trash) ==
    [enabled |-> TRUE, schedule |-> schedule, sequential |-> sequential,
     mode |-> mode, policy |-> policy, remove |-> remove, trash |-> trash]

AutoMove == LabelRule("auto", TRUE, "move", "overwrite", TRUE, FALSE)
AutoSkip == LabelRule("auto", FALSE, "move", "skip", FALSE, FALSE)
ManualTrash == LabelRule("manual", FALSE, "copy", "overwrite", TRUE, TRUE)
Disabled == [AutoMove EXCEPT !.enabled = FALSE]

OverlapRows == {AutoMove, ManualTrash}
RestartRows == {AutoMove, AutoSkip, ManualTrash, Disabled}
ProgressRows == {AutoMove}
DirectoryRows == {[AutoMove EXCEPT !.remove = FALSE]}
=============================================================================
