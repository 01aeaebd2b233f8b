------------------------------ MODULE TeamWalls ------------------------------
(***************************************************************************)
(* The video walls of teams while sites, devices and cameras change hands: *)
(* the requests of Walls and of SiteAssets over the same tables, and what  *)
(* the two promise together.                                               *)
(***************************************************************************)
EXTENDS Walls, SiteAssets

WallsNext ==
  \E w \in Worker :
    WallsRequest(w) \/ AssetsRequest(w) \/ Commit(w) \/ Refused(w) \/ RequestFails(w)

WallsSpec == Tables0 /\ [][WallsNext]_tableVars

-----------------------------------------------------------------------------
(* Teams *)

\* Rule 1 of team_enforcement.py:8-14: a camera that is shown on a layout stands
\* at a site of the layout's team.  Four operations are known not to ask, and
\* requests that overtake each other between check and commit may break it.
PlacementsKeepTheTeam ==
  [][\/ Misplaced' \subseteq Misplaced
     \/ \E w \in Worker :
          \/ Overlapped(w)
          \/ CommitsOneOf(w, {"slot.assigned", "screen.moved",
                              "device.moved", "camera.moved"})]_tableVars

\* A PC is given the layout that an earlier PC of its id has left.
AdoptsLeftover(w) ==
  Commits(w) /\ \E p \in DOMAIN job[w].tx.bulk \cap Pc : Exists(job[w].tx.bulk[p].layout)

\* Rule 2 of team_enforcement.py:15-16: a PC and its layout are of one team.  Only
\* update_screen_layout moves a layout away from under its PCs, and only a layout
\* left by a PC of the same id is adopted unseen (pc_screen_configurator.py:57-67).
PcsKeepTheirTeam ==
  [][\/ Mismatched' \subseteq Mismatched
     \/ \E w \in Worker :
          Overlapped(w) \/ CommitsOneOf(w, {"layout.updated"}) \/ AdoptsLeftover(w)]_tableVars

-----------------------------------------------------------------------------
(* Edits *)

\* What an editor of layout l shows: its screens, views and slots.
Content(l) ==
  LET screens == ScreensOf(l)
      within == screens \cup {v \in Rows(ViewId) : db[v].screen \in screens}
                        \cup {m \in Rows(Mapping) : OnItsView(m) /\ db[m].screen \in screens}
  IN [i \in within |-> db[i]]

Contents == [l \in Rows(Layout) |-> Content(l)]

Edits ==
  {"screen.created", "screen.updated", "screen.moved", "screen.deleted",
   "view.created", "view.updated", "view.deleted", "mapping.created",
   "slots.replaced", "mapping.updated", "mapping.deleted", "slot.assigned"}

Leaves(s, l) == db[s].layout = l /\ s \in DOMAIN db' /\ db'[s].layout # l

\* Every edit below a layout stamps it (actor.py:69-80); the layout that a moved
\* screen leaves is not stamped.
EditsStampTheWall ==
  [][\A w \in Worker :
       CommitsAlone(w, Edits) =>
         \A l \in DOMAIN Contents \cap DOMAIN Contents' :
           Contents'[l] # Contents[l] =>
             \/ l \in job[w].tx.touch
             \/ job[w].op = "screen.moved" /\ \E s \in Rows(ScreenId) : Leaves(s, l)]_tableVars

\* Cameras of view v by slot.
Shown(v) ==
  LET there == {m \in Rows(Mapping) : db[m].view = v} IN
  {<<db[m].slot, db[m].camera>> : m \in there}

\* Cameras of a body of replace_view_slots by slot.
Asked(body) == {<<slot, body[slot].camera>> : slot \in DOMAIN body}

\* After replace_view_slots the view shows exactly the body (screens.py:1063-1069)
\* if no other request came between.
ReplacedSlotsAreTheBody ==
  [][\A w \in Worker :
       CommitsAlone(w, {"slots.replaced"}) =>
         \A v \in {job[w].arg.view}, body \in {job[w].arg.slots} :
           Shown(v)' = Asked(body)]_tableVars

\* Mappings outside the grid of their view.
Stray == {m \in Rows(Mapping) : OnItsView(m) /\ ~InGrid(db[m].slot, db[m].view)}

\* A mapping falls outside its view's grid only by update_view, which resizes and
\* removes nothing, or by requests that overtake each other.
StraysComeFromViews ==
  [][\/ Stray' \subseteq Stray
     \/ \E w \in Worker : Overlapped(w) \/ CommitsOneOf(w, {"view.updated"})]_tableVars
==============================================================================
