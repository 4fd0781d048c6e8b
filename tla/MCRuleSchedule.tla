--------------------------- MODULE MCRuleSchedule ---------------------------
(***************************************************************************)
(* Instances of RuleSchedule for TLC: rules of any schedule, whose         *)
(* interval is not set and so raised to the shortest.                      *)
(***************************************************************************)
EXTENDS RuleSchedule

CONSTANTS r1, r2

AnySchedule == {"auto", "interval", "manual"}
=============================================================================
