------------------------------ MODULE TeamRules ------------------------------
(***************************************************************************)
(* The boundary between teams (app/services/team_enforcement.py): the      *)
(* walks over the tables by which handlers judge a placement or a move.    *)
(***************************************************************************)
EXTENDS Tables

\* site_id_for_camera, team_id_for_layout, team_id_for_screen: None if the row
\* is missing.
SiteOfCamera(c) == IF Exists(c) THEN db[db[c].device].site ELSE None
TeamOfLayout(l) == IF Exists(l) THEN db[l].team ELSE None
TeamOfScreen(s) == IF Exists(s) THEN TeamOfLayout(db[s].layout) ELSE None

IsSiteInTeam(s, t) == Exists(<<s, t>>)

\* _assert_camera_in_team: whether the camera exists is the caller's concern.
CameraFitsTeam(c, t) ==
  SiteOfCamera(c) # None => IsSiteInTeam(SiteOfCamera(c), t)

\* assert_camera_in_screen_team.
CameraFitsScreen(c, s) ==
  TeamOfScreen(s) # None => CameraFitsTeam(c, TeamOfScreen(s))

\* assert_cameras_in_layout_team.
CamerasFitTeam(C, t) == \A c \in C : CameraFitsTeam(c, t)

ViewsOf(s) == {v \in Rows(ViewId) : db[v].screen = s}
ScreensOf(l) == {s \in Rows(ScreenId) : db[s].layout = l}

MappingsOfLayout(l) == {m \in Rows(Mapping) : db[db[m].screen].layout = l}

\* cameras_in_layout.
CamerasInLayout(l) == {db[m].camera : m \in MappingsOfLayout(l)} \ {None}

\* layouts_blocking_site_unassign.
LayoutsBlockingSiteUnassign(s, t) ==
  {l \in Rows(Layout) :
     db[l].team = t /\ \E c \in CamerasInLayout(l) : SiteOfCamera(c) = s}

\* cameras_blocking_layout_move.
CamerasBlockingLayoutMove(l, t) ==
  {c \in CamerasInLayout(l) : ~IsSiteInTeam(SiteOfCamera(c), t)}

-----------------------------------------------------------------------------
(* Properties *)

\* w commits in this step.
Commits(w) == Active(w) /\ db' # db /\ (job'[w] = Idle \/ job'[w].tx = None)

\* No other request came between the checks of w and its commit.
CommitsAlone(w, Ops) == Commits(w) /\ job[w].alone /\ job[w].op \in Ops

CommitsOneOf(w, Ops) == Commits(w) /\ job[w].op \in Ops
Overlapped(w) == Commits(w) /\ ~job[w].alone

\* A mapping is on the screen of its view.  One for a view that others deleted and
\* made again on another screen before its commit is not: the checks here go by its
\* screen, the configuration of a PC by its view.
OnItsView(m) == db[m].screen = db[db[m].view].screen

\* Mappings whose camera is of a site outside the team of their layout.
Misplaced ==
  {m \in Rows(Mapping) :
     /\ OnItsView(m)
     /\ db[m].camera # None /\ ~CameraFitsScreen(db[m].camera, db[m].screen)}

\* PCs that hold a layout of another team.
Mismatched ==
  {p \in Rows(Pc) : db[p].layout # None /\ TeamOfLayout(db[p].layout) # db[p].team}
==============================================================================
