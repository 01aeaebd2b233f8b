----------------------------- MODULE SiteAssets -----------------------------
(***************************************************************************)
(* Teams, sites and what stands there: devices, cameras, alert addresses,  *)
(* categories and the layout of a site (app/api/v1/teams.py, sites.py,     *)
(* devices.py, cameras.py, alert_addresses.py, categories.py and           *)
(* app/services/site_camera_layout_service.py).                            *)
(***************************************************************************)
EXTENDS TeamRules, SequencesExt

CONSTANT
  SiteLayoutBody   \* bodies of save_site_camera_layout_config: grid and slots

\* The largest layout of a site is one of 4 by 4.
ASSUME SiteBodies ==
  /\ IsFiniteSet(Camera)
  /\ ScreenSide >= 4
  /\ \A body \in SiteLayoutBody :
       /\ body.grid \in Grid(ScreenSide)
       /\ DOMAIN body.cameras \subseteq Grid(ScreenSide)
       /\ \A slot \in DOMAIN body.cameras : body.cameras[slot] \in Camera

\* Rows that belong to site s, and the site a camera stands at.
SlotsOf(s) == {i \in Rows(SiteSlot) : db[i].site = s}
CategoriesOf(s) == {i \in Rows(SiteCategory) : db[i].site = s}
CamerasAt(s) == {c \in Rows(Camera) : SiteOfCamera(c) = s}

-----------------------------------------------------------------------------
(* Teams *)

CreateTeam(w) ==
  \E t \in FreshIn(Team) : Accepted(w, "team.created", Inserting(t, Plain))

DeleteTeam(w) ==
  \E t \in Rows(Team) :
    /\ \A i \in Rows(Membership \cup Pc \cup Layout) : db[i].team # t
    /\ Accepted(w, "team.deleted", Deleting(t))

\* INSERT ... ON CONFLICT DO NOTHING, executed with the checks.
AssignSites(w) ==
  \E t \in Rows(Team), S \in SUBSET Rows(Site) :
    LET pairs == S \X {t} IN
    /\ S # {}
    /\ pairs \cap HeldFrom(w) = {}
    /\ Accepted(w, "team.sites_assigned",
         [NoWrites EXCEPT !.bulk =
            [i \in FreshIn(pairs) |-> [site |-> i[1], team |-> i[2]]]])

UnassignSite(w) ==
  \E i \in Rows(Membership) :
    /\ LayoutsBlockingSiteUnassign(db[i].site, db[i].team) = {}
    /\ Accepted(w, "team.site_unassigned", [NoWrites EXCEPT !.purge = {i}])

-----------------------------------------------------------------------------
(* Sites, devices and cameras *)

CreateSite(w) ==
  \E s \in FreshIn(Site), T \in SUBSET Rows(Team) :
    Accepted(w, "site.created",
      [NoWrites EXCEPT !.new =
         Only(s, Plain) ++ [i \in {s} \X T |-> [site |-> i[1], team |-> i[2]]]])

DeleteSite(w) ==
  \E s \in Rows(Site) : Accepted(w, "site.deleted", Deleting(s))

CreateDevice(w) ==
  \E d \in FreshIn(Device), s \in Rows(Site) :
    Accepted(w, "device.created", Inserting(d, [site |-> s]))

\* update_device: the placements of the device's cameras stay as they are.
MoveDevice(w) ==
  \E d \in Rows(Device), s \in Rows(Site) :
    Accepted(w, "device.moved", Setting(d, Changed(d, [site |-> s])))

DeleteDevice(w) ==
  \E d \in Rows(Device) : Accepted(w, "device.deleted", Deleting(d))

\* The camera is committed first; its alert address follows.
CreateCamera(w) ==
  \E c \in FreshIn(Camera), d \in Rows(Device), b \in BOOLEAN :
    /\ AcceptedThen(w, "camera.created", Inserting(c, [device |-> d, new |-> b]),
                    "address.provisioned", c)
    /\ UNCHANGED serial

\* update_camera.
MoveCamera(w) ==
  \E c \in Rows(Camera), d \in Rows(Device) :
    Accepted(w, "camera.moved", Setting(c, Changed(c, [device |-> d])))

DeleteCamera(w) ==
  \E c \in Rows(Camera) : Accepted(w, "camera.deleted", Deleting(c))

\* mark_camera_as_seen, toggle_camera_new_flag, and update_camera with a flag.
FlagCamera(w) ==
  \E c \in Rows(Camera), b \in BOOLEAN :
    Accepted(w, "camera.flagged", Setting(c, Changed(c, [new |-> b])))

-----------------------------------------------------------------------------
(* Alert addresses *)

ActiveAddresses(c) == {a \in Rows(Address) : db[a].camera = c /\ db[a].active}

\* _provision_address; another random token is tried when one is taken.
Provisioning(a, c) ==
  Inserting(a, [camera |-> c, active |-> TRUE, quarantined |-> FALSE])

\* The second transaction of create_camera and of rotate_address.
ProvisionAddress(w) ==
  /\ At(w, "address.provisioned")
  /\ \E a \in FreshIn(Address) :
       Continues(w, Provisioning(a, job[w].arg), None, job[w].arg) /\ UNCHANGED serial

\* Mutant: a camera that has an address gets another.
CreateAnotherAddress(w) ==
  \E c \in Rows(Camera), a \in FreshIn(Address) :
    Accepted(w, "address.created", Provisioning(a, c))

CreateAddress(w) ==
  \E c \in Rows(Camera), a \in FreshIn(Address) :
    /\ ActiveAddresses(c) = {}
    /\ Accepted(w, "address.created", Provisioning(a, c))

RevokeAddress(w) ==
  \E a \in Rows(Address) :
    /\ db[a].active
    /\ Accepted(w, "address.revoked", Setting(a, [active |-> FALSE]))

\* The old address is revoked and committed before the new one is made; of a
\* revoked one, nothing is changed.
RotateAddress(w) ==
  \E a \in Rows(Address) :
    IF db[a].active
    THEN /\ AcceptedThen(w, "address.revoked", Setting(a, [active |-> FALSE]),
                         "address.provisioned", db[a].camera)
         /\ UNCHANGED serial
    ELSE \E new \in FreshIn(Address) :
           Accepted(w, "address.reissued", Provisioning(new, db[a].camera))

\* quarantine_address and unquarantine_address.
QuarantineAddress(w) ==
  \E a \in Rows(Address), b \in BOOLEAN :
    /\ db[a].quarantined # b
    /\ Accepted(w, "address.quarantined", Setting(a, [quarantined |-> b]))

-----------------------------------------------------------------------------
(* Categories *)

CreateCategory(w) ==
  \E k \in FreshIn(Category) : Accepted(w, "category.created", Inserting(k, Plain))

Assignments(s, K) == [i \in {s} \X K |-> [site |-> i[1], category |-> i[2]]]

\* The endpoints of categories.py and sites.py; that of sites.py leaves it to the
\* foreign key whether the category exists.
AssignCategory(w) ==
  \E s \in Rows(Site), k \in Category :
    /\ ~Exists(<<s, k>>)
    /\ Accepted(w, "category.assigned", [NoWrites EXCEPT !.new = Assignments(s, {k})])

BulkAssignCategories(w) ==
  \E s \in Rows(Site), K \in SUBSET Rows(Category) :
    Accepted(w, "category.set",
      [NoWrites EXCEPT !.purge = CategoriesOf(s), !.new = Assignments(s, K)])

UnassignCategory(w) ==
  \E i \in Rows(SiteCategory) : Accepted(w, "category.unassigned", Deleting(i))

RemoveAllCategories(w) ==
  \E s \in Rows(Site) :
    Accepted(w, "category.cleared", [NoWrites EXCEPT !.purge = CategoriesOf(s)])

Assigned(k) == {i \in Rows(SiteCategory) : db[i].category = k}

\* The session deletes the assignments it sees; others make the database refuse.
DeleteCategory(w) ==
  \E k \in Rows(Category) :
    \/ Assigned(k) = {} /\ Accepted(w, "category.deleted", Deleting(k))
    \/ Accepted(w, "category.forced", [NoWrites EXCEPT !.del = {k} \cup Assigned(k)])

-----------------------------------------------------------------------------
(* The layout of a site *)

\* calculate_grid_dimensions.
GridFor(count) ==
  CASE count <= 1       -> <<1, 1>>
    [] count = 2        -> <<1, 2>>
    [] count \in 3..4   -> <<2, 2>>
    [] count \in 5..6   -> <<2, 3>>
    [] count \in 7..9   -> <<3, 3>>
    [] count \in 10..12 -> <<3, 4>>
    [] count > 12       -> <<4, 4>>

\* What the queries remove before a layout is written.
LayoutRowsOf(s) == SlotsOf(s) \cup Rows({<<s, None>>})

SlotRows(s, cameras) ==
  [i \in {<<s, slot>> : slot \in DOMAIN cameras} |->
     [site |-> s, slot |-> i[2], camera |-> cameras[i[2]]]]

\* Mutant: the old slots stay.
WritingLayoutOver(s, grid, cameras) ==
  [NoWrites EXCEPT
     !.purge = Rows({<<s, None>>}),
     !.new = Only(<<s, None>>, [site |-> s, grid |-> grid]) ++ SlotRows(s, cameras)]

\* The layout is written anew: cameras is a function from slots.
WritingLayout(s, grid, cameras) ==
  [NoWrites EXCEPT
     !.purge = LayoutRowsOf(s),
     !.new = Only(<<s, None>>, [site |-> s, grid |-> grid]) ++ SlotRows(s, cameras)]

\* The first 16 cameras in the order of their names, row by row.
Populating(s) ==
  LET all == SetToSeq(CamerasAt(s))
      placed == SubSeq(all, 1, Min({Len(all), 16}))
      grid == GridFor(Len(placed))
      SlotAt(n) == <<((n - 1) \div grid[2]) + 1, ((n - 1) % grid[2]) + 1>>
  IN WritingLayout(s, grid,
       [slot \in {SlotAt(n) : n \in DOMAIN placed} |->
          placed[(slot[1] - 1) * grid[2] + slot[2]]])

AutoPopulate(w) ==
  \E s \in Rows(Site) :
    /\ CamerasAt(s) # {}
    /\ Accepted(w, "site.populated", Populating(s))

\* auto_populate_all_sites commits site by site; the sites are listed first, and
\* one without cameras is skipped.
AutoPopulateAll(w) ==
  \E s \in Rows(Site) :
    /\ CamerasAt(s) # {}
    /\ AcceptedThen(w, "site.populated", Populating(s),
                    "site.populating", Rows(Site) \ {s})
    /\ UNCHANGED serial

\* The site before is committed, or its transaction was refused or failed: the error is
\* counted and the next site taken.  One that is gone ends the request.
AutoPopulateNext(w) ==
  /\ \/ At(w, "site.populating")
     \/ /\ Active(w) /\ job[w].op \in {"site.populated", "site.populating"}
        /\ job[w].then # None /\ job[w].then = "site.populating"
  /\ LET sites == {s \in Rows(job[w].arg) : CamerasAt(s) # {}} IN
     IF sites = {}
     THEN Answers(w)
     ELSE \E s \in sites :
            /\ Continues(w, Populating(s), "site.populating", job[w].arg \ {s})
            /\ UNCHANGED serial

\* Mutant: cameras of any site.
SaveSiteLayoutOfAny(w) ==
  \E s \in Rows(Site), body \in SiteLayoutBody :
    /\ \A slot \in DOMAIN body.cameras : Exists(body.cameras[slot])
    /\ Accepted(w, "site.layout_saved", WritingLayout(s, body.grid, body.cameras))

\* SaveLayoutRequest: slots of the grid, each camera once.
ValidSlots(body) ==
  /\ DOMAIN body.cameras \subseteq (1..body.grid[1]) \X (1..body.grid[2])
  /\ IsInjective(body.cameras)

\* Every camera must stand at the site.
SaveSiteLayout(w) ==
  \E s \in Rows(Site), body \in SiteLayoutBody :
    /\ ValidSlots(body)
    /\ \A slot \in DOMAIN body.cameras : SiteOfCamera(body.cameras[slot]) = s
    /\ Accepted(w, "site.layout_saved", WritingLayout(s, body.grid, body.cameras))

DeleteSiteLayout(w) ==
  \E i \in Rows(SiteConfig) :
    Accepted(w, "site.layout_deleted",
      [NoWrites EXCEPT !.purge = SlotsOf(db[i].site), !.del = {i}])

-----------------------------------------------------------------------------
(* The API on these tables *)

AssetsRequest(w) ==
  \/ CreateTeam(w) \/ DeleteTeam(w) \/ AssignSites(w) \/ UnassignSite(w)
  \/ CreateSite(w) \/ DeleteSite(w)
  \/ CreateDevice(w) \/ MoveDevice(w) \/ DeleteDevice(w)
  \/ CreateCamera(w) \/ MoveCamera(w) \/ DeleteCamera(w) \/ FlagCamera(w)
  \/ ProvisionAddress(w) \/ CreateAddress(w) \/ RevokeAddress(w)
  \/ RotateAddress(w) \/ QuarantineAddress(w)
  \/ CreateCategory(w) \/ AssignCategory(w) \/ BulkAssignCategories(w)
  \/ UnassignCategory(w) \/ RemoveAllCategories(w) \/ DeleteCategory(w)
  \/ AutoPopulate(w) \/ AutoPopulateAll(w) \/ AutoPopulateNext(w)
  \/ SaveSiteLayout(w) \/ DeleteSiteLayout(w)

-----------------------------------------------------------------------------
(* Properties *)

\* A rotation that nothing came between has yet to make the address that replaces
\* the one it has revoked; so has a request that made the camera.
Owed(c) ==
  \E w \in Worker :
    job[w] # Idle /\ job[w].op = "address.provisioned" /\ job[w].alone /\ job[w].arg = c

\* Cameras with two active addresses, those to come included.
Doubled ==
  {c \in Rows(Camera) :
     \E a \in ActiveAddresses(c) : Owed(c) \/ ActiveAddresses(c) # {a}}

\* One active address per camera (alert_addresses.py:97-99): only the rotation of
\* a revoked address, or a request that another one overtook between its check
\* and its commit, gives a camera a second one.
OneActiveAddressKept ==
  [][\/ Doubled' \subseteq Doubled
     \/ \E w \in Worker : Overlapped(w) \/ CommitsOneOf(w, {"address.reissued"})]_tableVars

\* Slots that show a camera of another site.
Foreign == {i \in Rows(SiteSlot) : SiteOfCamera(db[i].camera) # db[i].site}

\* A site's layout shows its own cameras (site_camera_layout_service.py:352-372):
\* only moving the camera or its device, or an overtaken request, breaks it.
SiteShowsItsCameras ==
  [][\/ Foreign' \subseteq Foreign
     \/ \E w \in Worker : Overlapped(w) \/ CommitsOneOf(w, {"device.moved", "camera.moved"})]_tableVars

\* Slots without a configuration of the site, or outside its grid.
Loose ==
  {i \in Rows(SiteSlot) :
     LET config == <<db[i].site, None>> IN
     ~Exists(config) \/ db[i].slot[1] > db[config].grid[1]
                     \/ db[i].slot[2] > db[config].grid[2]}

\* The two tables of a site's layout, between which there is no foreign key
\* (site_camera_layout_service.py:461-463), agree but for overtaken requests.
SiteLayoutsAgree ==
  [][Loose' \subseteq Loose \/ \E w \in Worker : Overlapped(w)]_tableVars
=============================================================================
