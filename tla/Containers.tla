----------------------------- MODULE Containers -----------------------------
(* The containers of source/platform/alter, the parameters kept in one, and  *)
(* two strings or two cJSON trees compared, side by side: a program changes  *)
(* a map, its lists or its parameters by any sequence of calls.              *)
EXTENDS RbTree, ListNodes, MatchCompat

CONSTANTS Paths, Parts, Reserved, PartRank(_), PartFold(_), Strings, Scalars, MaxKeys, Empty, Free,
          DriverCompats, DeviceCompats,
          TreeCells, TreeNames, TreeLiterals, Leaves, Wide

VARIABLES kind,     \* which of the five a behaviour is about
          maps_,
          heap, held, kids

jsonVars == <<heap, held, kids>>
containerVars == <<kind, tree, call, next, prev, content, maps_, compats, jsonVars>>

Params == INSTANCE Parameters

Json == INSTANCE JsonCompare WITH
          MaxCells <- TreeCells, MaxHeld <- 2, Names <- TreeNames, Texts <- Leaves \ Scalars,
          Literals <- TreeLiterals, Fold <- PartFold,
          NestingLimit <- 1000, Width <- LAMBDA name : IF name = Empty THEN 0 ELSE 1

Init == /\ kind \in {"map", "list", "parameters", "compat", "trees"}
        /\ RbInit /\ ListInit /\ Params!ParamsInit
        /\ IF kind = "compat" THEN compats \in DriverCompats \X DeviceCompats ELSE compats = <<<<>>, <<>>>>
        /\ IF kind = "trees" THEN Json!NoTrees ELSE heap = <<>> /\ held = {} /\ kids = <<>>

MapStep == kind = "map" /\ RbNext /\ UNCHANGED <<kind, listVars, maps_, compats, jsonVars>>
ListStep == kind = "list" /\ ListNext /\ UNCHANGED <<kind, rbVars, maps_, compats, jsonVars>>
ParamsStep == kind = "parameters" /\ Params!ParamsNext /\ UNCHANGED <<kind, rbVars, listVars, compats, jsonVars>>
TreesStep == kind = "trees" /\ Json!BuildOne /\ UNCHANGED <<kind, rbVars, listVars, maps_, compats>>

Spec == Init /\ [][MapStep \/ ListStep \/ ParamsStep \/ TreesStep]_containerVars

(* A parameter of one or two levels arrives at the other process with its    *)
(* value, whatever the others are: unless a reserved name of the first level *)
(* stands before it, or its group's name is also, up to case, a parameter or *)
(* another group.                                                            *)
ParametersArrive == Params!ParametersArrive

(* Of trees whose objects have a name for every member and no name twice,    *)
(* cJSON_Compare is equality up to the order of members, and to the case of  *)
(* names when asked, although it searches the members of each object one by  *)
(* one in the other.                                                         *)
CompareIsEquality == Json!CompareIsEquality

(* No write of a printer runs over its buffer, whether it grows, cannot grow *)
(* or is the caller's, in trees with scalars and with several members too.   *)
PrintFits == Json!PrintFits
=============================================================================
