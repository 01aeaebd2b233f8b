----------------------------- MODULE FleetWalls -----------------------------
(***************************************************************************)
(* The set-up of PCs while their walls, layouts and cameras are edited:    *)
(* the requests of Fleet beside those of Walls and SiteAssets that they    *)
(* can meet, and what the set-up promises.  The configurations that PCs    *)
(* are sent, or that are made of any cameras, are read from these tables.  *)
(***************************************************************************)
EXTENDS Fleet, TeamWalls, StreamConfig

EditRequest(w) ==
  \/ UpdateLayout(w) \/ DeleteLayout(w) \/ AssignPcs(w) \/ UnassignPcs(w)
  \/ UpdateScreen(w) \/ DeleteView(w)
  \/ UnassignSite(w) \/ DeleteCamera(w)

FleetNext ==
  \E w \in Worker :
    FleetRequest(w) \/ EditRequest(w) \/ Commit(w) \/ Refused(w) \/ RequestFails(w)

FleetSpec == Tables0 /\ [][FleetNext]_tableVars

-----------------------------------------------------------------------------
(* Properties *)

SetUps == ConfigureSteps \cup {"config.imported", "layout.copied"}

ScreenContent(s) ==
  LET within == {s} \cup {v \in Rows(ViewId) : db[v].screen = s}
                     \cup {m \in Rows(Mapping) : OnItsView(m) /\ db[m].screen = s} IN
  [i \in within |-> db[i]]

ScreenContents == [s \in Rows(ScreenId) |-> ScreenContent(s)]

\* Setting up a PC changes screens of its own layout only, and configure_pc_screens
\* only those the request names (pc_screen_configurator.py:117-140,
\* config_importer.py:171-197).
SetUpSparesOthers ==
  [][\A w \in Worker :
       CommitsAlone(w, SetUps) =>
         \A s \in DOMAIN ScreenContents :
           (s \notin DOMAIN db' \/ ScreenContents'[s] # ScreenContents[s]) =>
             /\ db[s].layout = job[w].arg.layout
             /\ "named" \in DOMAIN job[w].arg => db[s].name \in job[w].arg.named]_tableVars

\* Managers that are not managers.
Impostors == {p \in Rows(Pc) : db[p].manager # None /\ ~IsManager(db[p].manager)}

\* A PC is led by a manager (pcs.py:97-101, 507-511) until that one changes its
\* role, which asks nobody, or requests overtake each other.
ManagersManage ==
  [][\/ Impostors' \subseteq Impostors
     \/ \E w \in Worker : Overlapped(w) \/ CommitsOneOf(w, {"pc.role_changed"})]_tableVars

\* The cameras of a configuration that may stand on layout l.
CamerasFor(body, l) ==
  LET tiles == UNION {Range(conf.tiles) : conf \in Range(body)} IN
  {info.camera : info \in UNION {Range(tile) : tile \in tiles}} \cap Placeable(TeamOfLayout(l))

\* The importer takes what generate_config emits (config_importer.py:58,
\* pcs.py:1131): the cameras of a PC's own configuration are on its wall afterwards.
ImportRestoresTheWall ==
  [][\A w \in Worker :
       CommitsAlone(w, {"config.imported"}) =>
         \A p \in {job[w].arg.pc}, body \in {job[w].arg.body} :
           body \in Exports(p) =>
             CamerasFor(body, db[p].layout) \subseteq CamerasInLayout(db[p].layout)']_tableVars

\* Copying a layout leaves the one that is copied as it was (config_importer.py:414-416).
CopyKeepsSource ==
  [][\A w \in Worker :
       CommitsAlone(w, {"layout.copied"}) =>
         \A l \in {job[w].arg.source} : Contents'[l] = Contents[l]]_tableVars
=============================================================================
