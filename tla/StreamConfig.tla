----------------------------- MODULE StreamConfig -----------------------------
(***************************************************************************)
(* A configuration that is made of a list of cameras and some grids, with  *)
(* no PC and no wall (app/api/v1/configs.py,                               *)
(* app/services/stream_config_generator.py): each monitor its own views,   *)
(* or the older format, in which each tile of a screen rotates.            *)
(***************************************************************************)
EXTENDS WallConfig

CONSTANTS
  DefaultGrid,    \* <<rows, columns>> of a view that the request leaves open
  MaxTotalSlots,  \* MAX_TOTAL_SLOTS
  ViewsRequest,   \* requests for views: monitors are sequences of grids, or
                  \* the number of their views
  TilesRequest    \* requests for tiles: screens of a grid and a number of views

\* What the schemas let through.
ASSUME StreamRequests ==
  /\ DefaultGrid \in Grid(ViewSide)
  /\ \A request \in ViewsRequest :
       /\ request.cameras \in Seq(Camera) /\ request.exclude \subseteq Camera
       /\ request.monitors \in Seq([grids : Seq(Grid(ViewSide))] \cup [views : Nat \ {0}])
  /\ \A request \in TilesRequest :
       /\ request.cameras \in Seq(Camera) /\ request.exclude \subseteq Camera
       /\ request.screens \in Seq([grid : Grid(ViewSide), views : Nat \ {0}])

-----------------------------------------------------------------------------
(* The cameras *)

\* validate_camera_ids; the request is refused when this is not empty.
InvalidIds(request) == Range(request.cameras) \ Rows(Camera)

\* Where an id that is not excluded is named first, as deduplicate_camera_ids leaves it.
WantedAt(request) ==
  {k \in DOMAIN request.cameras :
     /\ request.cameras[k] \notin request.exclude
     /\ \A j \in 1..(k - 1) : request.cameras[j] # request.cameras[k]}

\* The entries of s at the places ks, in their order.
EntriesAt(s, ks) ==
  [n \in 1..Cardinality(ks) |-> s[CHOOSE k \in ks : Cardinality({j \in ks : j <= k}) = n]]

FirstOf(s, n) == SubSeq(s, 1, Min({n, Len(s)}))

\* get_cameras_for_config; an empty list of ids is as good as none.  The order
\* of device and camera names is some order.
CamerasForConfig(request, count) ==
  IF request.cameras = <<>>
  THEN FirstOf(SetToSeq(Rows(Camera) \ request.exclude), count)
  ELSE FirstOf(EntriesAt(request.cameras, WantedAt(request)), Max({1, count}))

-----------------------------------------------------------------------------
(* Dealing them out *)

\* camera_index before each of some parts of so many slots, and after the last.
Starts(sizes) ==
  LET index[k \in 1..(Len(sizes) + 1)] ==
        IF k = 1 THEN 0 ELSE index[k - 1] + sizes[k - 1]
  IN index

Total(sizes) == Starts(sizes)[Len(sizes) + 1]

\* The n-th source, of view v at a slot; empty when the cameras have run out.
Dealt(cameras, n, v, slot) ==
  [view |-> v, slot |-> slot, camera |-> IF n \in DOMAIN cameras THEN cameras[n] ELSE None]

\* _resolve_monitors: the grids of each monitor.
Resolved(monitors) ==
  [s \in DOMAIN monitors |->
     IF "grids" \in DOMAIN monitors[s] THEN monitors[s].grids
     ELSE [v \in 1..monitors[s].views |-> DefaultGrid]]

\* The slots of each view of a monitor, of each monitor, and of each screen.
ViewSizes(grids) == [v \in DOMAIN grids |-> grids[v][1] * grids[v][2]]
MonitorSizes(monitors) == [s \in DOMAIN monitors |-> Total(ViewSizes(monitors[s]))]
TileSizes(screens) ==
  [s \in DOMAIN screens |-> screens[s].grid[1] * screens[s].grid[2] * screens[s].views]

\* distribute_cameras_to_views: view by view, each row by row.
DealtToViews(cameras, monitors) ==
  LET first == Starts(MonitorSizes(monitors)) IN
  [s \in DOMAIN monitors |->
     LET next == Starts(ViewSizes(monitors[s])) IN
     [v \in DOMAIN monitors[s] |->
        LET slots == RowMajor(monitors[s][v][1], monitors[s][v][2]) IN
        [k \in DOMAIN slots |-> Dealt(cameras, first[s] + next[v] + k, v, slots[k])]]]

\* Mutant: every screen begins with the first camera.
DealtToTilesAnew(cameras, screens) ==
  [s \in DOMAIN screens |->
     LET slots == RowMajor(screens[s].grid[1], screens[s].grid[2])
         views == screens[s].views
     IN [k \in DOMAIN slots |->
           [v \in 1..views |-> Dealt(cameras, (k - 1) * views + v, v, slots[k])]]]

\* distribute_cameras_to_screens: tile by tile, each view by view.
DealtToTiles(cameras, screens) ==
  LET first == Starts(TileSizes(screens)) IN
  [s \in DOMAIN screens |->
     LET slots == RowMajor(screens[s].grid[1], screens[s].grid[2])
         views == screens[s].views
     IN [k \in DOMAIN slots |->
           [v \in 1..views |->
              Dealt(cameras, first[s] + (k - 1) * views + v, v, slots[k])]]]

\* generate_stream_config_views and generate_stream_config.
ViewSlots(monitors) == Total(MonitorSizes(monitors))
TileSlots(screens) == Total(TileSizes(screens))

StreamViews(request) ==
  LET monitors == Resolved(request.monitors) IN
  DealtToViews(CamerasForConfig(request, ViewSlots(monitors)), monitors)

StreamTiles(request) ==
  DealtToTiles(CamerasForConfig(request, TileSlots(request.screens)), request.screens)

-----------------------------------------------------------------------------
(* The API: a configuration, or None for a request that is refused *)

\* _cap_total_slots refuses what is too large before the handler is entered.
GenerateMultiStream(request) ==
  IF ViewSlots(Resolved(request.monitors)) > MaxTotalSlots \/ InvalidIds(request) # {}
  THEN None
  ELSE StreamViews(request)

GenerateMultiStreamLegacy(request) ==
  IF InvalidIds(request) # {} THEN None ELSE StreamTiles(request)

-----------------------------------------------------------------------------
(* Properties *)

\* Every source with its place in reading order.
ViewPlaces(config) ==
  UNION {UNION {{[at |-> <<s, v, source.slot[1], source.slot[2]>>, camera |-> source.camera] :
                   source \in Range(config[s][v])} :
                v \in DOMAIN config[s]} :
         s \in DOMAIN config}

TilePlaces(config) ==
  UNION {{[at |-> <<s, source.slot[1], source.slot[2], source.view>>, camera |-> source.camera] :
            source \in UNION {Range(tile) : tile \in Range(config[s])}} :
         s \in DOMAIN config}

Precedes(p, q) ==
  \E i \in DOMAIN p.at : p.at[i] < q.at[i] /\ \A j \in 1..(i - 1) : p.at[j] = q.at[j]

\* Every camera that is wanted, or as many as there are places, each once, from the
\* first place on and in the order of the request.
AreDealtInOrder(places, request) ==
  LET filled == {p \in places : p.camera # None}
      wanted == IF request.cameras = <<>> THEN Rows(Camera) \ request.exclude
                ELSE Range(request.cameras) \ request.exclude
      First(c) == Min({k \in DOMAIN request.cameras : request.cameras[k] = c})
  IN /\ {p.camera : p \in filled} \subseteq wanted
     /\ Cardinality({p.camera : p \in filled}) = Cardinality(filled)
     /\ Cardinality(filled) = Min({Cardinality(wanted), Cardinality(places)})
     /\ \A p \in filled, q \in places : Precedes(q, p) => q \in filled
     /\ request.cameras # <<>> =>
          \A p, q \in filled : Precedes(p, q) => First(p.camera) < First(q.camera)

\* "Cameras fill each view's grid row-major, sequentially and distinctly, view-by-view
\* across monitors; leftover slots become empty" (configs.py:66-67), and tile by
\* tile in the older format.
StreamsAreDealtInOrder ==
  /\ \A request \in ViewsRequest :
       \A config \in {GenerateMultiStream(request)} \ {None} :
         AreDealtInOrder(ViewPlaces(config), request)
  /\ \A request \in TilesRequest :
       \A config \in {GenerateMultiStreamLegacy(request)} \ {None} :
         AreDealtInOrder(TilePlaces(config), request)
=============================================================================
