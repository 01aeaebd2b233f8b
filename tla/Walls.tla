-------------------------------- MODULE Walls --------------------------------
(***************************************************************************)
(* Screen layouts, screens, views and the cameras in their slots           *)
(* (app/api/v1/screen_layouts.py, screens.py).                             *)
(***************************************************************************)
EXTENDS TeamRules

CONSTANTS
  LayoutBody,   \* teams that a body of update_screen_layout names
  ScreenBody,   \* columns that a body of create_ or update_screen gives
  ViewBody,     \* columns that a body of create_ or update_view gives
  SlotsBody,    \* bodies of replace_view_slots: partial functions from slots to a camera
                \* and a device
  MappingBody   \* columns that a body of update_screen_mapping gives

\* What the request schemas let through; an update of a screen may name its layout
\* and its name, one of a view never its screen.
ASSUME WallBodies ==
  /\ LayoutBody \subseteq Team
  /\ \A body \in ScreenBody : Fits(ScreenRow, body)
  /\ \A body \in ViewBody : Fits(ViewRow, body) /\ "screen" \notin DOMAIN body
  /\ \A body \in SlotsBody :
       /\ DOMAIN body \subseteq Slot
       /\ \A slot \in DOMAIN body : body[slot] \in [camera : Camera, device : OrNone(Device)]
  /\ \A body \in MappingBody :
       Fits(MappingRow, body) /\ DOMAIN body \subseteq {"camera", "device"}

-----------------------------------------------------------------------------
(* Layouts *)

CreateLayout(w) ==
  \E l \in Layout, t \in Team :
    /\ ~Exists(l)
    /\ Exists(t)
    /\ Accepted(w, "layout.created", Inserting(l, [team |-> t]))

\* The PCs that hold the layout are not looked at.
UpdateLayout(w) ==
  \E l \in Rows(Layout), t \in LayoutBody :
    /\ t # db[l].team => Exists(t) /\ CamerasBlockingLayoutMove(l, t) = {}
    /\ Accepted(w, "layout.updated", Setting(l, Changed(l, [team |-> t])))

DeleteLayout(w) ==
  \E l \in Rows(Layout) : Accepted(w, "layout.deleted", Deleting(l))

\* assign_pcs: all of them or none.
AssignPcs(w) ==
  \E l \in Rows(Layout), P \in SUBSET Rows(Pc) :
    /\ P # {}
    /\ \A p \in P : db[p].team = db[l].team
    /\ Accepted(w, "layout.assigned",
         [NoWrites EXCEPT !.set = [p \in P |-> [layout |-> l]]])

UnassignPcs(w) ==
  \E l \in Rows(Layout), P \in SUBSET Rows(Pc) :
    /\ \E p \in P : db[p].layout = l
    /\ Accepted(w, "layout.unassigned",
         [NoWrites EXCEPT !.set = [p \in {q \in P : db[q].layout = l} |-> [layout |-> None]]])

-----------------------------------------------------------------------------
(* Screens *)

CreateScreen(w) ==
  \E s \in Screen, l \in Rows(Layout), n \in Name, body \in ScreenBody :
    /\ {"rows", "cols"} \subseteq DOMAIN body
    /\ ~Exists(s)
    /\ Accepted(w, "screen.created",
         Touching(l, Inserting(s, [layout |-> l, name |-> n,
                                   rows |-> body.rows, cols |-> body.cols])))

Outside(m, rows, cols) == db[m].slot[1] > rows \/ db[m].slot[2] > cols

\* Mutant: nothing is removed.
ResizeViewsOnly(s, rows, cols, tx) ==
  IF rows = db[s].rows /\ cols = db[s].cols THEN tx
  ELSE [tx EXCEPT !.bulk = [v \in ViewsOf(s) |-> [rows |-> rows, cols |-> cols]]]

\* The bulk statements of a resize: every view of the screen gets the new grid,
\* and what lies outside is removed.
Resize(s, rows, cols, tx) ==
  IF rows = db[s].rows /\ cols = db[s].cols THEN tx
  ELSE [tx EXCEPT
          !.bulk = [v \in ViewsOf(s) |-> [rows |-> rows, cols |-> cols]],
          !.purge = {m \in Rows(Mapping) : db[m].screen = s /\ Outside(m, rows, cols)}]

\* A screen may be moved to any layout; only that one is stamped.
UpdateScreen(w) ==
  \E s \in Rows(ScreenId), body \in ScreenBody :
    /\ "layout" \in DOMAIN body => Exists(body.layout)
    /\ Accepted(w, IF Given(body, db[s], "layout") = db[s].layout
                   THEN "screen.updated" ELSE "screen.moved",
         Touching(Given(body, db[s], "layout"),
           Resize(s, Given(body, db[s], "rows"), Given(body, db[s], "cols"),
                  Setting(s, Changed(s, body)))))

DeleteScreen(w) ==
  \E s \in Rows(ScreenId) :
    Accepted(w, "screen.deleted", Touching(db[s].layout, Deleting(s)))

-----------------------------------------------------------------------------
(* Views *)

NumberTaken(s, n, v) == \E u \in ViewsOf(s) \ {v} : db[u].number = n

\* The grid need not be that of the screen.
CreateView(w) ==
  \E v \in View, s \in Rows(ScreenId), body \in ViewBody :
    /\ DOMAIN body = {"number", "rows", "cols"}
    /\ ~Exists(v)
    /\ ~NumberTaken(s, body.number, v)
    /\ Accepted(w, "view.created",
         Touching(db[s].layout, Inserting(v, [screen |-> s] ++ body)))

LayoutOfScreen(s) == db[s].layout

\* update_view and rename_view (a body without a column modelled here).  Mappings
\* outside a smaller grid stay.
UpdateView(w) ==
  \E v \in Rows(ViewId), body \in ViewBody \cup {<<>>} :
    /\ "number" \in DOMAIN body => ~NumberTaken(db[v].screen, body.number, v)
    /\ Accepted(w, "view.updated",
         Touching(LayoutOfScreen(db[v].screen), Setting(v, Changed(v, body))))

\* Mutant: the layout is not stamped.
DeleteViewSilently(w) ==
  \E v \in Rows(ViewId) : Accepted(w, "view.deleted", Deleting(v))

DeleteView(w) ==
  \E v \in Rows(ViewId) :
    Accepted(w, "view.deleted",
      Touching(LayoutOfScreen(db[v].screen), Deleting(v)))

-----------------------------------------------------------------------------
(* Mappings *)

InGrid(slot, v) == slot[1] <= db[v].rows /\ slot[2] <= db[v].cols
AtSlot(v, slot) == {m \in Rows(Mapping) : db[m].view = v /\ db[m].slot = slot}

NewMapping(v, slot, c, d) ==
  [screen |-> db[v].screen, view |-> v, slot |-> slot, device |-> d, camera |-> c]

\* Any device will do, that of the camera or another.
CreateMapping(w) ==
  /\ Free(w)
  /\ \E v \in Rows(ViewId), slot \in Slot, c \in OrNone(Rows(Camera)), d \in OrNone(Rows(Device)) :
       /\ InGrid(slot, v)
       /\ AtSlot(v, slot) = {}
       /\ c # None => CameraFitsScreen(c, db[v].screen)
       /\ AcceptedDrawing(w, "mapping.created",
            Touching(LayoutOfScreen(db[v].screen),
              [NoWrites EXCEPT !.new = InsertingMappings(<<NewMapping(v, slot, c, d)>>)]), None)

\* The rows to insert for the slots of target, in some order.
RowsFor(v, target, slots) ==
  LET order == CHOOSE o \in [1..Cardinality(slots) -> slots] :
                 \A i, j \in DOMAIN o : i # j => o[i] # o[j]
  IN [i \in DOMAIN order |->
        NewMapping(v, order[i], target[order[i]].camera, target[order[i]].device)]

\* What replace_view_slots asks of the body's entry for a slot.
SlotAllowed(v, slot, entry) ==
  /\ InGrid(slot, v)
  /\ Exists(entry.camera)
  /\ CameraFitsScreen(entry.camera, db[v].screen)
  /\ entry.device # None => Exists(entry.device)

\* Mutant: what is not in the body stays.
FillViewSlots(w) ==
  \E v \in Rows(ViewId), target \in SlotsBody :
    LET there == {m \in Rows(Mapping) : db[m].view = v}
        kept == {m \in there : db[m].slot \in DOMAIN target}
        empty == DOMAIN target \ {db[m].slot : m \in there}
    IN /\ \A slot \in DOMAIN target : SlotAllowed(v, slot, target[slot])
       /\ AcceptedDrawing(w, "slots.replaced",
            Touching(LayoutOfScreen(db[v].screen),
              [NoWrites EXCEPT
                 !.set = [m \in kept |-> Changed(m, target[db[m].slot])],
                 !.new = InsertingMappings(RowsFor(v, target, empty))]),
            [view |-> v, slots |-> target])

\* Everything is checked first; then the slots that are not in the body are
\* cleared, those that differ changed and the others filled, in one transaction.
ReplaceViewSlots(w) ==
  \E v \in Rows(ViewId), target \in SlotsBody :
    LET there == {m \in Rows(Mapping) : db[m].view = v}
        kept == {m \in there : db[m].slot \in DOMAIN target}
        empty == DOMAIN target \ {db[m].slot : m \in there}
        Wanted(m) == target[db[m].slot]
    IN /\ \A slot \in DOMAIN target : SlotAllowed(v, slot, target[slot])
       /\ AcceptedDrawing(w, "slots.replaced",
            Touching(LayoutOfScreen(db[v].screen),
              [NoWrites EXCEPT
                 !.del = there \ kept,
                 !.set = [m \in {k \in kept : Changed(k, Wanted(k)) # <<>>} |->
                            Changed(m, Wanted(m))],
                 !.new = InsertingMappings(RowsFor(v, target, empty))]),
            [view |-> v, slots |-> target])

Names(body, column) == column \in DOMAIN body /\ body[column] # None

\* Mutant: the team is not asked.
UpdateMappingOfAnyTeam(w) ==
  \E m \in Rows(Mapping), body \in MappingBody :
    /\ \A column \in {"camera", "device"} : Names(body, column) => Exists(body[column])
    /\ Accepted(w, "mapping.updated",
         Touching(LayoutOfScreen(db[m].screen), Setting(m, Changed(m, body))))

UpdateMapping(w) ==
  \E m \in Rows(Mapping), body \in MappingBody :
    /\ \A column \in {"camera", "device"} : Names(body, column) => Exists(body[column])
    /\ Names(body, "camera") => CameraFitsScreen(body.camera, db[m].screen)
    /\ Accepted(w, "mapping.updated",
         Touching(LayoutOfScreen(db[m].screen), Setting(m, Changed(m, body))))

\* delete_screen_mapping, and clear_slot by view and slot.
DeleteMapping(w) ==
  \E m \in Rows(Mapping) :
    Accepted(w, "mapping.deleted", Touching(LayoutOfScreen(db[m].screen), Deleting(m)))

\* assign_camera_to_slot: fills the slot or changes its mapping, whatever the
\* team of the camera or of the device.
AssignCameraToSlot(w) ==
  /\ Free(w)
  /\ \E v \in Rows(ViewId), slot \in Slot, c \in Rows(Camera), d \in OrNone(Rows(Device)) :
       /\ InGrid(slot, v)
       /\ IF AtSlot(v, slot) = {}
          THEN AcceptedDrawing(w, "slot.assigned",
                 Touching(LayoutOfScreen(db[v].screen),
                   [NoWrites EXCEPT !.new = InsertingMappings(<<NewMapping(v, slot, c, d)>>)]), None)
          ELSE \E m \in AtSlot(v, slot) :
                 Accepted(w, "slot.assigned",
                   Touching(LayoutOfScreen(db[v].screen),
                     Setting(m, Changed(m, [camera |-> c, device |-> d]))))

\* INSERT ... ON CONFLICT DO UPDATE, executed with the checks.
SetPlayingState(w) ==
  \E m \in Rows(Mapping), p \in Rows(Pc), b \in BOOLEAN :
    Accepted(w, "mapping.playing",
      [NoWrites EXCEPT !.bulk = Only(<<p, m>>, [pc |-> p, mapping |-> m, playing |-> b])])

WallsRequest(w) ==
  \/ CreateLayout(w) \/ UpdateLayout(w) \/ DeleteLayout(w)
  \/ AssignPcs(w) \/ UnassignPcs(w)
  \/ CreateScreen(w) \/ UpdateScreen(w) \/ DeleteScreen(w)
  \/ CreateView(w) \/ UpdateView(w) \/ DeleteView(w)
  \/ CreateMapping(w) \/ ReplaceViewSlots(w) \/ UpdateMapping(w)
  \/ DeleteMapping(w) \/ AssignCameraToSlot(w) \/ SetPlayingState(w)

=============================================================================
