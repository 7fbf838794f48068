----------------------------- MODULE MCRoadmap -----------------------------
(***************************************************************************)
(* The tools of the roadmap, each over its own data: the plans of MCApply  *)
(* while claims has no tree to read, and the trees of MCClaims beside the  *)
(* first of those plans.                                                   *)
(***************************************************************************)
EXTENDS MCApply, MCClaims

Still == Labelled(L({}, {1}), L({2}, {1, 2}), FALSE)
Unread == task = NoTask /\ doing = "idle"

RoadmapInit ==
  \/ Init /\ doing = "idle" /\ task = NoTask /\ ClaimsInit
  \/ plan = Still /\ Init /\ ClaimsInit

RoadmapNext ==
  \/ Unread /\ Next /\ UNCHANGED claimsVars
  \/ plan = Still /\ ClaimsNext /\ UNCHANGED applyVars

RoadmapSpec == RoadmapInit /\ [][RoadmapNext]_<<applyVars, claimsVars>>
=============================================================================
