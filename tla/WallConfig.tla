------------------------------ MODULE WallConfig ------------------------------
(***************************************************************************)
(* What a PC is sent: the configuration of its wall                        *)
(* (app/services/config_loader.py, config_generator.py).  Streams, names,  *)
(* colours and the cameras of a site beside the one shown are left out.    *)
(* The loader's queries (:139-233) are answered one after the other; the   *)
(* definitions say what they make of the tables when no request commits    *)
(* between them.                                                           *)
(***************************************************************************)
EXTENDS TeamRules, SequencesExt

\* load_pc_config: the screens of a PC, none when it has no layout ...
WallScreens(p) == IF db[p].layout = None THEN {} ELSE ScreensOf(db[p].layout)

\* ... and the camera in each slot of a view.
LoadedSlots(v) ==
  LET there == {m \in Rows(Mapping) : db[m].view = v /\ db[m].camera # None} IN
  [slot \in {db[m].slot : m \in there} |->
     db[CHOOSE m \in there : db[m].slot = slot].camera]

\* Mutant: counted by rows.
RowMajorByRows(rows, cols) ==
  [k \in 1..rows * cols |-> <<((k - 1) \div rows) + 1, ((k - 1) % rows) + 1>>]

\* The slots of a grid, row by row.
RowMajor(rows, cols) ==
  [k \in 1..rows * cols |-> <<((k - 1) \div cols) + 1, ((k - 1) % cols) + 1>>]

\* The views that show a camera within the grid of their screen.
ShownViews(s) ==
  {v \in ViewsOf(s) :
     DOMAIN LoadedSlots(v) \cap (1..db[s].rows) \X (1..db[s].cols) # {}}

\* A source of the configuration, empty when the view has no camera there.  The
\* device is the camera's own, whatever the mapping names.
Source(v, number, slot) ==
  LET c == IF slot \in DOMAIN LoadedSlots(v) THEN LoadedSlots(v)[slot] ELSE None IN
  [view |-> v, number |-> number, slot |-> slot, camera |-> c,
   device |-> IF c = None THEN None ELSE db[c].device, site |-> SiteOfCamera(c)]

\* A tile for every slot of the screen, with a source for every view shown.
GeneratedScreen(s) ==
  LET views == SetToSeq(ShownViews(s))
      slots == RowMajor(db[s].rows, db[s].cols)
  IN [screen |-> s, name |-> db[s].name,
      tiles |-> [k \in DOMAIN slots |->
                   [n \in DOMAIN views |-> Source(views[n], n - 1, slots[k])]]]

\* generate_config(load_pc_config(p)): screens that show nothing are left out.
GeneratedConfig(p) ==
  LET screens == SetToSeq({s \in WallScreens(p) : ShownViews(s) # {}}) IN
  [k \in DOMAIN screens |-> GeneratedScreen(screens[k])]

-----------------------------------------------------------------------------
(* Properties *)

SourcesOf(p) ==
  LET config == GeneratedConfig(p) IN
  UNION {{[screen |-> config[k].screen, view |-> source.view, slot |-> source.slot,
           camera |-> source.camera] :
             source \in UNION {Range(tile) : tile \in Range(config[k].tiles)}} :
         k \in DOMAIN config}

\* What the tables place within the grids of the screens of p, a mapping going by
\* its view.
PlacedFor(p) ==
  {[screen |-> db[db[m].view].screen, view |-> db[m].view, slot |-> db[m].slot,
    camera |-> db[m].camera] :
     m \in {n \in Rows(Mapping) :
              LET s == db[db[n].view].screen IN
              /\ db[n].camera # None
              /\ db[s].layout = db[p].layout
              /\ db[n].slot[1] <= db[s].rows /\ db[n].slot[2] <= db[s].cols}}

\* A PC is sent every camera that is placed within the grid of a screen of its
\* layout, in its view and slot, and no other (config_generator.py:180-330).
ConfigShowsTheWall ==
  \A p \in Rows(Pc) :
    {shown \in SourcesOf(p) : shown.camera # None}
      = IF db[p].layout = None THEN {} ELSE PlacedFor(p)
==============================================================================
