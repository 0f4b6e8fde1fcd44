-------------------------- MODULE MCSeedCorridor --------------------------
(***************************************************************************)
(* Instances of SeedCorridor: nine columns of terrain with one crest under *)
(* the track, on an odd or an even column, over land or over water, a hill *)
(* or none in the strip beside it, and a zone, two zones or none watching. *)
(***************************************************************************)
EXTENDS SeedCorridor

McWater == -200000

Skyline(base, crest, h) == [x \in 0..Far |-> IF x = crest THEN h ELSE base]

Watcher(x, z, reach) == [x |-> x, z |-> z, reach |-> reach, rise |-> 2 * reach]
G(x, z) == [x |-> x, z |-> z]

None == <<>>
Watch == <<Watcher(7, 6, 4)>>
Narrow == <<Watcher(5, 9, 1)>>
Pair == <<Watcher(0, 2, 8), Watcher(6, 20, 3)>>

Scene(base, crest, h, hill, zones, goals, h4) ==
  [dem |-> TRUE,
   elev |-> Skyline(base, crest, h),
   side |-> Skyline(base, hill[1], hill[2]),
   zones |-> zones, boxes |-> {}, start |-> G(0, 8),
   goals |-> goals, speeds |-> {0, 1}, h4 |-> h4]

Flat == <<5, 0>>
Hill == <<6, 25>>

\* Crests, hills and zones.
Crossings ==
  {Scene(base, crest, 12, hill, zones, <<G(8, 8)>>, TRUE) :
     base \in {0, McWater}, crest \in {3, 4}, hill \in {Flat, Hill},
     zones \in {None, Watch, Pair}}
    \cup {Scene(McWater, 4, 12, Flat, zones, <<G(8, 1)>>, FALSE) :
            zones \in {Narrow, Watch, Pair}}

\* Two waypoints; no waypoint; no terrain at all, with a building to pass.
Others ==
  {Scene(0, 3, 6, Flat, Watch, <<G(4, 3), G(8, 3)>>, h4) : h4 \in BOOLEAN}
    \cup {[Scene(0, 3, 6, Flat, None, goals, FALSE) EXCEPT
              !.dem = FALSE, !.boxes = {[x |-> 4, lo |-> 0, hi |-> 9]}] :
           goals \in {<<>>, <<G(8, 13)>>}}

McScenes == Crossings \cup Others
=============================================================================
