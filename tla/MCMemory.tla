------------------------------ MODULE MCMemory ------------------------------
(***************************************************************************)
(* Memory with every map of two regions that fit below a small address, in *)
(* any order, on and off frame boundaries, empty ones too.                 *)
(***************************************************************************)
EXTENDS Memory

Borders == 0..10

Areas == {region \in [start : Borders, end : Borders, usable : BOOLEAN] :
            region.start <= region.end}

MCMemoryMaps ==
  {map \in Areas \X Areas :
     map[1].end <= map[2].start \/ map[2].end <= map[1].start}
=============================================================================
