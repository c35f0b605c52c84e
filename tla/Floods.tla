-------------------------------- MODULE Floods --------------------------------
(***************************************************************************)
(* Three block codes that flood the blocks with messages, side by side:    *)
(* sphereCatoms3D counts the catoms at each distance, smartBlocks1 marks a *)
(* path, csgCatoms3D places the catoms and shows a shape.                  *)
(***************************************************************************)
CONSTANTS
  SphereCatom, Source, SphereGraphs,
  SmartBlock, SmartMaster, Goal, SmartGraphs,
  CsgCatom, CsgPlacements, CsgCodes, CsgShape(_), NoPosition

VARIABLES
  sphereLinks, sphereDistance, radius, sphereBag,
  smartLinks, my_distance, colored, smartBag,
  cell, csgCode, myPosition, visible, csgBag

Sphere ==
  INSTANCE SphereCatoms3D WITH Catom <- SphereCatom, Graphs <- SphereGraphs,
    linked <- sphereLinks, distance <- sphereDistance, inTransit <- sphereBag

Smart ==
  INSTANCE SmartBlocks1 WITH Block <- SmartBlock, Master <- SmartMaster, Graphs <- SmartGraphs,
    linked <- smartLinks, inTransit <- smartBag

Csg ==
  INSTANCE CsgCatoms3D WITH Catom <- CsgCatom, Placements <- CsgPlacements, Codes <- CsgCodes,
    Shape <- CsgShape, Unplaced <- NoPosition, orientationCode <- csgCode, inTransit <- csgBag

(* The blocks and the links that a simulation may start with.              *)
ASSUME FloodsAssumption ==
  Sphere!GraphAssumption /\ Smart!GraphAssumption /\ Csg!PlacementAssumption

(* Whatever the order of the messages, the floods end with the distances,  *)
(* the path, the positions and the shape that the links alone define.      *)
FloodsAreExact ==
  /\ Sphere!HistogramIsExact
  /\ Smart!PathIsMarked
  /\ Csg!CoordinatesAgree /\ Csg!ShapeIsDrawn
=============================================================================
