------------------------------- MODULE Fleet -------------------------------
(***************************************************************************)
(* PCs and the set-up of their walls (app/api/v1/pcs.py and                *)
(* app/services/pc_screen_configurator.py, config_importer.py).            *)
(***************************************************************************)
EXTENDS WallConfig

CONSTANTS
  LayoutOf,        \* "lay_{pc.id}"
  PcBody,          \* columns that a body of update_pc gives
  ConfigureBody,   \* bodies of configure_pc_screens, names may repeat
  ImportBody       \* screens of an imported configuration, ids distinct

\* The transactions of configure_pc_screens.
ConfigureSteps ==
  {"configure.screen", "configure.grid", "configure.views", "configure.cameras",
   "configure.stamp"}

ASSUME FleetAssumption ==
  LayoutOf \in [Pc -> Layout] /\ IsInjective(LayoutOf) /\ None \notin ConfigureSteps

\* A camera of a tile and the screens of a configuration, as the importer reads them.
TileSource ==
  [number : Nat, view : OrNone(ViewId), camera : OrNone(Camera), device : OrNone(Device \cup Site)]
ConfigScreen == [id : ScreenId, name : Name, tiles : Seq(Seq(TileSource))]

\* What the schemas let through; the views of a screen are within the bound.
ASSUME FleetBodies ==
  /\ \A body \in PcBody : Fits(PcRow, body)
  /\ \A body \in ConfigureBody :
       /\ body.screens \in Seq([name : Name, rows : 1..ViewSide, cols : 1..ViewSide,
                                views : 1..MaxIndex])
       /\ body.cameras \in Seq(Camera)
  /\ ImportBody \subseteq Seq(ConfigScreen)

-----------------------------------------------------------------------------
(* PCs *)

IsManager(p) == Exists(p) /\ db[p].role = "manager"
ControlledBy(p) == {q \in Rows(Pc) : db[q].manager = p}

\* PCCreate: a new manager has none of its own.  PCUpdate does not ask.
ValidLead(role, m) == role = "manager" => m = None

CreatePc(w) ==
  \E p \in FreshIn(Pc), t \in Rows(Team), m \in OrNone(Rows(Pc)),
     role \in {"controller", "manager"} :
    /\ ValidLead(role, m)
    /\ m # None => IsManager(m)
    /\ Accepted(w, "pc.created",
         Inserting(p, [team |-> t, layout |-> None, manager |-> m, role |-> role,
                       applied |-> FALSE]))

\* Mutant: only a newly given layout is compared.
KeepsTheTeamOfNew(p, body) ==
  LET l == Given(body, db[p], "layout") IN
  "layout" \in DOMAIN body /\ l # None => Exists(l) /\ db[l].team = Given(body, db[p], "team")

\* The layout after the update is of the team after the update.
KeepsTheTeam(p, body) ==
  LET l == Given(body, db[p], "layout") IN
  l # None => Exists(l) /\ db[l].team = Given(body, db[p], "team")

\* Mutant: any PC will do as a manager.
UpdatePcUnderAny(w) ==
  \E p \in Rows(Pc), body \in PcBody :
    /\ "manager" \in DOMAIN body => Exists(body.manager)
    /\ KeepsTheTeam(p, body)
    /\ Accepted(w, "pc.updated", Setting(p, Changed(p, body)))

\* A PC that becomes a manager loses its own, unless the body names one.
UpdatePc(w) ==
  \E p \in Rows(Pc), body \in PcBody :
    LET role == Given(body, db[p], "role")
        unled == IF "role" \in DOMAIN body /\ role = "manager" THEN [manager |-> None] ELSE <<>>
    IN /\ "manager" \in DOMAIN body => body.manager = None \/ IsManager(body.manager)
       /\ "team" \in DOMAIN body => Exists(body.team)
       /\ KeepsTheTeam(p, body)
       /\ Accepted(w, IF role = db[p].role THEN "pc.updated" ELSE "pc.role_changed",
            Setting(p, Changed(p, body ++ unled)))

DeletePc(w) ==
  \E p \in Rows(Pc) :
    /\ ControlledBy(p) = {}
    /\ Accepted(w, "pc.deleted", Deleting(p))

\* _deploy_config_to_pcs: the PCs of asked whose configuration could be generated
\* and handed to the connection are marked; the receipt is not awaited.
Deployed(w, asked) ==
  \E sent \in SUBSET asked :
    /\ sent # {}
    /\ Accepted(w, "pc.deployed",
         [NoWrites EXCEPT !.set = [p \in sent |-> [applied |-> TRUE]]])

DeployConfig(w) == \E p \in Rows(Pc) : db[p].layout # None /\ Deployed(w, {p})

\* Every PC of the layout, or those of them that the request names.
DeployLayout(w) ==
  \E l \in Rows(Layout) :
    \E asked \in SUBSET {p \in Rows(Pc) : db[p].layout = l} : Deployed(w, asked)

-----------------------------------------------------------------------------
(* The layout of a PC *)

\* get_or_create_layout_for_pc.
LayoutFor(p) == IF db[p].layout # None THEN db[p].layout ELSE LayoutOf[p]
TeamFor(p) == IF Exists(LayoutFor(p)) THEN db[LayoutFor(p)].team ELSE db[p].team

\* Its writes, flushed before anything else is read.
Adopting(p, tx) ==
  IF db[p].layout # None THEN tx
  ELSE [tx EXCEPT
          !.bulk = @ ++ Only(p, [layout |-> LayoutOf[p]]),
          !.new = @ ++ (IF Exists(LayoutOf[p]) THEN <<>>
                        ELSE Only(LayoutOf[p], [team |-> db[p].team]))]

\* _clear_pc_config.
Clearing(p) == ScreensOf(LayoutFor(p))

-----------------------------------------------------------------------------
(* configure_pc_screens: a commit for each screen, its grid and its views *)

Least(m, n) == IF m < n THEN m ELSE n

\* The trailing number of the ids of the layout's screens, whichever layout they
\* were made for.
NextIndex(l) ==
  Max({0} \cup {s[2] : s \in ScreensOf(l) \cap (Layout \X (1..MaxIndex))}) + 1

\* Mutant: on any layout.
ScreensNamedAnywhere(l, name) == {s \in Rows(ScreenId) : db[s].name = name}

ScreensNamed(l, name) == {s \in ScreensOf(l) : db[s].name = name}

\* Transactions by which get_or_create_screen begins with the first of todo, a
\* screen of the same name being emptied, be it one that the request has just made.  arg: what the request has to remember.
ScreenSteps(arg) ==
  LET conf == Head(arg.todo)
      named == ScreensNamed(arg.layout, conf.name)
      fresh == <<arg.layout, arg.index>>
  IN IF named # {}
     THEN {[tx |-> [NoWrites EXCEPT !.purge = ViewsOf(s)],
            then |-> "configure.grid",
            arg |-> [arg EXCEPT !.screen = s]] : s \in named}
     ELSE {[tx |-> Inserting(fresh, [layout |-> arg.layout, name |-> conf.name,
                                     rows |-> Least(conf.rows, ScreenSide),
                                     cols |-> Least(conf.cols, ScreenSide)]),
            then |-> "configure.views",
            arg |-> [arg EXCEPT !.screen = fresh, !.index = @ + 1]]}

\* Cameras are checked before anything is written.
MayConfigure(p, body) ==
  /\ Range(body.cameras) \subseteq Rows(Camera)
  /\ CamerasFitTeam(Range(body.cameras), TeamFor(p))
  /\ NextIndex(LayoutFor(p)) + Len(body.screens) <= MaxIndex + 1

ConfigurePc(w) ==
  /\ \E p \in Rows(Pc), body \in ConfigureBody :
       LET arg == [layout |-> LayoutFor(p), todo |-> body.screens,
                   index |-> NextIndex(LayoutFor(p)), screen |-> None,
                   views |-> <<>>, cameras |-> body.cameras,
                   named |-> {c.name : c \in Range(body.screens)}]
       IN /\ MayConfigure(p, body)
          /\ \/ /\ body.screens # <<>>
                /\ \E step \in ScreenSteps(arg) :
                     AcceptedThen(w, "configure.screen", Adopting(p, step.tx), step.then, step.arg)
             \/ /\ body.screens = <<>>
                /\ AcceptedThen(w, "configure.cameras", Adopting(p, NoWrites), "configure.stamp", arg)
  /\ UNCHANGED serial

ConfigureNext(w) ==
  /\ At(w, "configure.screen")
  /\ \E step \in ScreenSteps(job[w].arg) : Continues(w, step.tx, step.then, step.arg)
  /\ UNCHANGED serial

ConfigureGrid(w) ==
  /\ At(w, "configure.grid")
  /\ LET arg == job[w].arg
         conf == Head(arg.todo)
     IN Continues(w, Setting(arg.screen, [rows |-> Least(conf.rows, ScreenSide),
                                          cols |-> Least(conf.cols, ScreenSide)]),
                  "configure.views", arg)
  /\ UNCHANGED serial

\* create_views_for_screen; the grid of a view is not cut to the screen's.
ConfigureViews(w) ==
  /\ At(w, "configure.views")
  /\ LET arg == job[w].arg
         conf == Head(arg.todo)
         ids == [n \in 1..conf.views |-> <<arg.screen, n>>]
         rows == [v \in Range(ids) |-> [screen |-> v[1], number |-> v[2],
                                        rows |-> conf.rows, cols |-> conf.cols]]
         rest == [arg EXCEPT !.todo = Tail(@), !.views = @ \o ids]
     IN Continues(w, [NoWrites EXCEPT !.new = rows],
                  IF rest.todo = <<>> THEN "configure.cameras" ELSE "configure.screen", rest)
  /\ UNCHANGED serial

\* The slots of views, each with the number of its view; a view that is gone has none.
\* A view twice in the list stands for two objects of the session with one key, both
\* loaded from the row made last.
Places(views) ==
  {place \in (DOMAIN views) \X Slot :
     LET v == views[place[1]] IN
     Exists(v) /\ place[2][1] <= db[v].rows /\ place[2][2] <= db[v].cols}

\* View by view, and each row by row.
Earlier(p, q) ==
  \/ p[1] < q[1]
  \/ p[1] = q[1] /\ \/ p[2][1] < q[2][1]
                    \/ p[2][1] = q[2][1] /\ p[2][2] < q[2][2]

\* distribute_cameras_and_create_mappings: the k-th camera goes to the k-th place, in
\* the screen that the session has of its view.  A view that is gone is an error if
\* the cameras last so far.  Only when no place is left over are the mappings
\* committed by themselves.
ConfigureCameras(w) ==
  /\ At(w, "configure.cameras")
  /\ LET arg == job[w].arg
         places == Places(arg.views)
         Nth(place) == Cardinality({p \in places : Earlier(p, place)}) + 1
         filled == {p \in places : Nth(p) \in DOMAIN arg.cameras /\ Exists(arg.cameras[Nth(p)])}
         reached == {n \in DOMAIN arg.views :
                       Cardinality({p \in places : p[1] < n}) <= Len(arg.cameras)}
         order == SetToSeq(filled)
         rows == [k \in DOMAIN order |->
                    LET v == arg.views[order[k][1]]
                        c == arg.cameras[Nth(order[k])]
                    IN [screen |-> v[1], view |-> v, slot |-> order[k][2],
                        device |-> db[c].device, camera |-> c]]
         tx == [NoWrites EXCEPT !.new = InsertingMappings(rows)]
     IN IF \E n \in reached : ~Exists(arg.views[n]) THEN Answers(w)
        ELSE IF Cardinality(places) > Len(arg.cameras)
        THEN ContinuesDrawing(w, Touching(arg.layout, tx), None, arg)
        ELSE ContinuesDrawing(w, tx, "configure.stamp", arg)

ConfigureStamp(w) ==
  /\ At(w, "configure.stamp")
  /\ Continues(w, Touching(job[w].arg.layout, NoWrites), None, job[w].arg)
  /\ UNCHANGED serial

-----------------------------------------------------------------------------
(* import_config_for_pc *)

\* The generated configuration of p as the importer reads it: what it takes for
\* the device is the site.  Ids of the screens are new ones.
Exports(p) ==
  LET config == GeneratedConfig(p) IN
  {[k \in DOMAIN config |->
      [id |-> ids[k], name |-> config[k].name,
       tiles |-> [n \in DOMAIN config[k].tiles |->
                    [i \in DOMAIN config[k].tiles[n] |->
                       LET source == config[k].tiles[n][i] IN
                       [number |-> source.number, view |-> source.view,
                        camera |-> source.camera, device |-> source.site]]]]] :
     ids \in {f \in [DOMAIN config -> Screen] : IsInjective(f)}}

\* Rows and columns for so many tiles: the root rounded up, at most ScreenSide.
SideFor(tiles) == Min({n \in 1..ScreenSide : n * n >= tiles} \cup {ScreenSide})

\* Mutant: cameras of any team.
PlaceableAnywhere(t) == Rows(Camera)

\* Cameras and devices of another team, or unknown, are skipped.
Placeable(t) == {c \in Rows(Camera) : IsSiteInTeam(SiteOfCamera(c), t)}

\* The sources of a screen, each by its tile and its place there.
Sources(conf) == UNION {{n} \X (DOMAIN conf.tiles[n]) : n \in DOMAIN conf.tiles}
SourceAt(conf, i) == conf.tiles[i[1]][i[2]]
Numbers(conf) == {SourceAt(conf, i).number : i \in Sources(conf)}

\* _extract_views_from_source_groups: the first source of a number names the view.
ViewNamed(conf, number) ==
  LET those == {i \in Sources(conf) : SourceAt(conf, i).number = number}
      first == CHOOSE i \in those :
                 \A j \in those : i[1] < j[1] \/ (i[1] = j[1] /\ i[2] <= j[2])
      named == SourceAt(conf, first).view
  IN IF named = None THEN <<conf.id, number>> ELSE named

\* The screens of body that have tiles, their views by number, and the sources that
\* become mappings of team t.
Tiled(body) == {k \in DOMAIN body : body[k].tiles # <<>>}
Numbered(body) == UNION {{k} \X Numbers(body[k]) : k \in Tiled(body)}
Placed(body, t) ==
  {i \in UNION {{k} \X Sources(body[k]) : k \in Tiled(body)} :
     LET source == SourceAt(body[i[1]], i[2]) IN
     source.camera \in Placeable(t) /\ source.device \in Rows(Device)}

IdOfView(body, i) == ViewNamed(body[i[1]], i[2])

\* The flush of a key that is already there fails.
KeysDiffer(body) ==
  /\ \A j, k \in Tiled(body) : body[j].id = body[k].id => j = k
  /\ \A i, j \in Numbered(body) : IdOfView(body, i) = IdOfView(body, j) => i = j

\* Bounds: numbers of views, ids made of them, and slots.
WithinBounds(body) ==
  \A i \in Numbered(body) : i[2] <= MaxIndex /\ IdOfView(body, i) \in ViewId

ImportedScreens(l, body) ==
  [s \in {body[k].id : k \in Tiled(body)} |->
     LET k == CHOOSE j \in Tiled(body) : body[j].id = s
         side == SideFor(Len(body[k].tiles))
     IN [layout |-> l, name |-> body[k].name, rows |-> side, cols |-> side]]

ImportedViews(body) ==
  [v \in {IdOfView(body, i) : i \in Numbered(body)} |->
     LET i == CHOOSE j \in Numbered(body) : IdOfView(body, j) = v
         side == SideFor(Len(body[i[1]].tiles))
     IN [screen |-> body[i[1]].id, number |-> i[2], rows |-> side, cols |-> side]]

\* A tile is a sequence of cameras, each in a view of its own.
ImportedMapping(body, i) ==
  LET conf == body[i[1]]
      side == SideFor(Len(conf.tiles))
      source == SourceAt(conf, i[2])
      tile == i[2][1]
  IN [screen |-> conf.id, view |-> ViewNamed(conf, source.number),
      slot |-> <<((tile - 1) \div side) + 1, ((tile - 1) % side) + 1>>,
      device |-> source.device, camera |-> source.camera]

\* One transaction; screens without tiles are left out.  The configuration is of
\* some other origin, or one that a PC is sent.
ImportConfig(w) ==
  /\ Free(w)
  /\ \E p \in Rows(Pc) : \E body \in ImportBody \cup UNION {Exports(q) : q \in Rows(Pc)} :
       LET l == LayoutFor(p)
           order == SetToSeq(Placed(body, TeamFor(p)))
           mappings == [k \in DOMAIN order |-> ImportedMapping(body, order[k])]
       IN /\ body # <<>>
          /\ KeysDiffer(body)
          /\ WithinBounds(body) /\ Range([k \in DOMAIN mappings |-> mappings[k].slot]) \subseteq Slot
          /\ serial + Len(mappings) <= MaxMapping
          /\ serial' = serial + Len(mappings)
          /\ AcceptedThen(w, "config.imported",
               Adopting(p, Touching(l,
                 [NoWrites EXCEPT
                    !.purge = Clearing(p),
                    !.new = ImportedScreens(l, body) ++ ImportedViews(body)
                              ++ InsertingMappings(mappings)])),
               None, [layout |-> l, pc |-> p, body |-> body])

-----------------------------------------------------------------------------
(* copy_layout_from_pc *)

\* New ids for the rows S.
NewIds(S, Ids) == {f \in [S -> FreshIn(Ids)] : IsInjective(f)}

\* What the target shows and what the source shows are compared before the target
\* is given a layout.
MayCopy(p, q) ==
  LET source == db[q].layout IN
  /\ p # q
  /\ source # None /\ db[p].layout # source
  /\ ScreensOf(source) # {}
  /\ CamerasFitTeam(CamerasInLayout(source), TeamFor(p))

\* The target is cleared before the views and mappings of the source are read.
CopyLayout(w) ==
  \E p, q \in Rows(Pc) :
    LET source == db[q].layout
        l == LayoutFor(p)
        left == DOMAIN db \ Gone(Clearing(p))
        screens == ScreensOf(source)
        views == {v \in left \cap ViewId : db[v].screen \in screens}
        mappings == SetToSeq({m \in left \cap Mapping :
                                db[m].screen \in screens /\ db[m].view \in views})
    IN /\ MayCopy(p, q)
       /\ serial + Len(mappings) <= MaxMapping
       /\ serial' = serial + Len(mappings)
       /\ \E screenOf \in NewIds(screens, Screen), viewOf \in NewIds(views, View) :
            LET copies == [s \in Range(screenOf) |->
                             LET o == CHOOSE o \in screens : screenOf[o] = s IN
                             [db[o] EXCEPT !.layout = l]]
                          ++ [v \in Range(viewOf) |->
                                LET o == CHOOSE o \in views : viewOf[o] = v IN
                                [db[o] EXCEPT !.screen = screenOf[@]]]
            IN AcceptedThen(w, "layout.copied",
                 Adopting(p, Touching(l,
                   [NoWrites EXCEPT
                      !.purge = Clearing(p),
                      !.new = copies ++ InsertingMappings([k \in DOMAIN mappings |->
                        [db[mappings[k]] EXCEPT !.screen = screenOf[@], !.view = viewOf[@]]])])),
                 None, [layout |-> l, source |-> source])

FleetRequest(w) ==
  \/ CreatePc(w) \/ UpdatePc(w) \/ DeletePc(w) \/ DeployConfig(w) \/ DeployLayout(w)
  \/ ConfigurePc(w) \/ ConfigureNext(w) \/ ConfigureGrid(w) \/ ConfigureViews(w)
  \/ ConfigureCameras(w) \/ ConfigureStamp(w)
  \/ ImportConfig(w) \/ CopyLayout(w)
=============================================================================
