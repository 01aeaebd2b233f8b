------------------------------- MODULE Tables -------------------------------
(***************************************************************************)
(* The tables behind sites, teams and video walls (app/models) and the way *)
(* a request of the API changes them.                                      *)
(*                                                                         *)
(* The API runs as several worker processes over one READ COMMITTED        *)
(* database.  A handler reads and prepares its statements in one burst and *)
(* commits; between the two, other processes commit.  Rows that a query    *)
(* statement (UPDATE or DELETE ... WHERE) has already written stay locked  *)
(* until the commit.  What the session only collects (add, attributes,     *)
(* db.delete) is written with the commit.                                  *)
(*                                                                         *)
(* The database is a partial function from primary keys to rows.  Names,   *)
(* addresses and the audit log are left out.                               *)
(***************************************************************************)
EXTENDS Naturals, Sequences, FiniteSets

CONSTANTS
  Team, Site, Category, Device, Camera, Address, Layout, Pc,
  Screen,       \* screens.id as a client or a uuid gives it
  View,         \* views.id likewise
  Name,         \* screens.name
  Worker,       \* uvicorn processes
  None,
  ScreenSide,   \* most rows or columns of a screen or of a site's layout (4)
  ViewSide,     \* most rows or columns of a view (10)
  MaxIndex,     \* bound: indices in generated ids of screens and views
  MaxMapping,   \* bound: screen_mappings.id
  Stored,       \* tables to start from: what earlier requests may have left
  MaxRequests   \* bound: requests that get past their checks

\* "{layout}_screen_{index}" and "{screen}_view_{number}".
ScreenId == Screen \cup (Layout \X (1..MaxIndex))
ViewId == View \cup (ScreenId \X (0..MaxIndex))
\* screen_mappings.id, boxed: no key is a bare number.
Mapping == {<<n>> : n \in 1..MaxMapping}

Grid(side) == (1..side) \X (1..side)
Slot == Grid(ViewSide)

Membership == Site \X Team
SiteCategory == Site \X Category
SiteSlot == Site \X Grid(ScreenSide)
SiteConfig == Site \X {None}
Playing == Pc \X Mapping

ASSUME TablesAssumption ==
  /\ None \notin Team \cup Site \cup Category \cup Device \cup Camera \cup Address
                 \cup Layout \cup Pc \cup ScreenId \cup ViewId \cup Name
  /\ ScreenSide \in Nat \ {0}
  /\ ViewSide \in Nat /\ ViewSide >= ScreenSide
  /\ MaxIndex \in Nat \ {0}
  /\ MaxMapping \in Nat
  /\ MaxRequests \in Nat

VARIABLES
  db,        \* the committed rows by their keys
  job,       \* the request of a worker, or Idle
  serial,    \* screen_mappings_id_seq
  requests   \* requests so far

tableVars == <<db, job, serial, requests>>

-----------------------------------------------------------------------------
(* Partial functions *)

\* f, and g where f has no value.
f ++ g == [x \in DOMAIN f \cup DOMAIN g |-> IF x \in DOMAIN f THEN f[x] ELSE g[x]]

Only(x, value) == [y \in {x} |-> value]

-----------------------------------------------------------------------------
(* The schema: for each table, what its columns hold *)

\* A row of which only the key matters.
Plain == [stored |-> TRUE]
PlainRow == [stored |-> {TRUE}]

OrNone(S) == S \cup {None}

DeviceRow == [site |-> Site]
CameraRow == [device |-> Device, new |-> BOOLEAN]
AddressRow == [camera |-> Camera, active |-> BOOLEAN, quarantined |-> BOOLEAN]
LayoutRow == [team |-> Team]
ScreenRow ==
  [layout |-> Layout, name |-> Name, rows |-> 1..ScreenSide, cols |-> 1..ScreenSide]
ViewRow ==
  [screen |-> ScreenId, number |-> 0..MaxIndex, rows |-> 1..ViewSide, cols |-> 1..ViewSide]
MappingRow ==
  [screen |-> ScreenId, view |-> ViewId, slot |-> Slot,
   device |-> OrNone(Device), camera |-> OrNone(Camera)]
PcRow ==
  [team |-> Team, layout |-> OrNone(Layout), manager |-> OrNone(Pc),
   role |-> {"controller", "manager"}, applied |-> BOOLEAN]

\* A key of several columns is that of its row.
MembershipRow(i) == [site |-> {i[1]}, team |-> {i[2]}]
SiteCategoryRow(i) == [site |-> {i[1]}, category |-> {i[2]}]
SiteConfigRow(i) == [site |-> {i[1]}, grid |-> Grid(ScreenSide)]
SiteSlotRow(i) == [site |-> {i[1]}, slot |-> {i[2]}, camera |-> Camera]
PlayingRow(i) == [pc |-> {i[1]}, mapping |-> {i[2]}, playing |-> BOOLEAN]

\* The columns of the row with key i.
RowType(i) ==
  CASE i \in Team \cup Site \cup Category -> PlainRow
    [] i \in Device -> DeviceRow
    [] i \in Camera -> CameraRow
    [] i \in Address -> AddressRow
    [] i \in Membership -> MembershipRow(i)
    [] i \in SiteCategory -> SiteCategoryRow(i)
    [] i \in SiteConfig -> SiteConfigRow(i)
    [] i \in SiteSlot -> SiteSlotRow(i)
    [] i \in Layout -> LayoutRow
    [] i \in ScreenId -> ScreenRow
    [] i \in ViewId -> ViewRow
    [] i \in Mapping -> MappingRow
    [] i \in Pc -> PcRow
    [] i \in Playing -> PlayingRow(i)

\* Values for some columns, and a row.
Fits(type, columns) ==
  /\ DOMAIN columns \subseteq DOMAIN type
  /\ \A c \in DOMAIN columns : columns[c] \in type[c]

\* No value outside the columns.
IsFunction(f) == f = [x \in DOMAIN f |-> f[x]]

IsRow(i, row) ==
  IsFunction(row) /\ DOMAIN row = DOMAIN RowType(i) /\ Fits(RowType(i), row)

KeySets ==
  <<Team, Site, Category, Device, Camera, Address, Membership, SiteCategory, SiteConfig,
    SiteSlot, Layout, ScreenId, ViewId, Mapping, Pc, Playing>>

\* One function for all tables: a key says which table its row is in.
ASSUME KeysApart ==
  \A m, n \in DOMAIN KeySets : m # n => KeySets[m] \cap KeySets[n] = {}

\* The foreign keys of the row with key i, and what the removal of the row
\* they name does.  "clear" for a mapping's device is the session's doing; the
\* rest is in the constraint.
References(i) ==
  CASE i \in Device -> [site |-> "remove"]
    [] i \in Camera -> [device |-> "remove"]
    [] i \in Address -> [camera |-> "remove"]
    [] i \in Membership -> [site |-> "remove", team |-> "remove"]
    [] i \in SiteCategory -> [site |-> "remove", category |-> "refuse"]
    [] i \in SiteConfig -> [site |-> "remove"]
    [] i \in SiteSlot -> [site |-> "remove", camera |-> "remove"]
    [] i \in Layout -> [team |-> "refuse"]
    [] i \in ScreenId -> [layout |-> "remove"]
    [] i \in ViewId -> [screen |-> "remove"]
    [] i \in Mapping -> [screen |-> "remove", view |-> "remove",
                         camera |-> "remove", device |-> "clear"]
    [] i \in Pc -> [team |-> "refuse", layout |-> "clear", manager |-> "clear"]
    [] i \in Playing -> [pc |-> "remove", mapping |-> "remove"]
    [] OTHER -> <<>>

ColumnsThat(act, i) ==
  {c \in DOMAIN References(i) : References(i)[c] = act}

Rows(Key) == {i \in DOMAIN db : i \in Key}
Exists(i) == i \in DOMAIN db
FreshIn(S) == {i \in S : ~Exists(i)}

Dangles(d, i) ==
  \E c \in DOMAIN References(i) : d[i][c] # None /\ d[i][c] \notin DOMAIN d

ForeignKeysHold(d) == {i \in DOMAIN d : Dangles(d, i)} = {}

\* uq_screen_view_number and uq_screen_mapping_slot.
UniqueKeysHold(d) ==
  LET views == DOMAIN d \cap ViewId
      mappings == DOMAIN d \cap Mapping
  IN /\ Cardinality({<<d[v].screen, d[v].number>> : v \in views}) = Cardinality(views)
     /\ Cardinality({<<d[m].view, d[m].slot>> : m \in mappings}) = Cardinality(mappings)

\* Earlier requests have left tables that are in order.
ASSUME StoredAssumption ==
  \A d \in Stored :
    LET mappings == DOMAIN d \cap Mapping IN
    /\ \A i \in DOMAIN d : IsRow(i, d[i])
    /\ ForeignKeysHold(d) /\ UniqueKeysHold(d)
    /\ mappings = {<<n>> : n \in 1..Cardinality(mappings)}

\* A worker without a request.
Idle == [op |-> "idle", tx |-> None, then |-> None, arg |-> None, alone |-> TRUE]

TablesTypeOK ==
  /\ \A i \in DOMAIN db : IsRow(i, db[i])
  /\ ForeignKeysHold(db)
  /\ UniqueKeysHold(db)
  /\ \A w \in Worker : job[w] # Idle => job[w].alone \in BOOLEAN
  /\ Rows(Mapping) \subseteq {<<n>> : n \in 1..serial}
  /\ serial \in 0..MaxMapping
  /\ requests \in 0..MaxRequests

-----------------------------------------------------------------------------
(* Transactions *)

\* new: rows to insert; set: columns to write in rows that must exist; bulk:
\* columns written by a query (a missing row is inserted); del: rows to delete;
\* purge: rows deleted by a query; touch: layouts whose updated_at is set
\* (touch_layout).
NoWrites ==
  [new |-> <<>>, set |-> <<>>, bulk |-> <<>>, del |-> {}, purge |-> {}, touch |-> {}]

Inserting(i, row) == [NoWrites EXCEPT !.new = Only(i, row)]
Setting(i, columns) == [NoWrites EXCEPT !.set = Only(i, columns)]
Deleting(i) == [NoWrites EXCEPT !.del = {i}]
Touching(l, tx) == [tx EXCEPT !.touch = {l}]

\* Rows that refer to rows of D and go with them.
Below(D) ==
  {i \in DOMAIN db : \E c \in ColumnsThat("remove", i) : db[i][c] # None /\ db[i][c] \in D}
WithBelow(D) == D \cup Below(D)

\* What goes with the rows D: a removal goes four tables down at most, as from a site
\* by device, camera and mapping to what a PC plays.
Gone(D) == WithBelow(WithBelow(WithBelow(WithBelow(D \cap DOMAIN db))))

After(tx) ==
  LET gone == Gone(tx.del \cup tx.purge)
      written == tx.set ++ tx.bulk
      Written(i) == IF i \in DOMAIN written THEN written[i] ++ db[i] ELSE db[i]
      Cleared(i) ==
        [c \in DOMAIN db[i] |->
           IF c \in ColumnsThat("clear", i) /\ Written(i)[c] \in gone
           THEN None ELSE Written(i)[c]]
  IN tx.new ++ [i \in DOMAIN db \ gone |-> Cleared(i)]
            ++ [i \in DOMAIN tx.bulk \ DOMAIN db |-> tx.bulk[i]]

\* Mutant: a schema without constraints.
HoldsWithoutKeys(tx) == DOMAIN tx.set \subseteq DOMAIN db \ Gone(tx.purge)

\* A key already there, an UPDATE that matches no row and a broken constraint
\* are errors; a DELETE that matches none is not.
Holds(tx) ==
  /\ DOMAIN tx.new \cap DOMAIN db \subseteq Gone(tx.purge)
  /\ DOMAIN tx.set \subseteq DOMAIN db \ Gone(tx.purge)
  /\ ForeignKeysHold(After(tx))
  /\ UniqueKeysHold(After(tx))

Active(w) == job[w] # Idle /\ job[w].tx # None

\* The rows that the queries of w have written and not yet committed.
Held(w) ==
  IF Active(w)
  THEN Gone(job[w].tx.purge) \cup DOMAIN job[w].tx.bulk
  ELSE {}

HeldFrom(w) == UNION {Held(v) : v \in Worker \ {w}}

Writes(tx) ==
  DOMAIN tx.new \cup DOMAIN tx.set \cup DOMAIN tx.bulk \cup Gone(tx.del \cup tx.purge)

-----------------------------------------------------------------------------
(* Requests *)

Tables0 ==
  /\ db \in Stored
  /\ job = [w \in Worker |-> Idle]
  /\ serial = Cardinality(Rows(Mapping))
  /\ requests = 0

\* alone: no other request has changed a row since this one began to read.
Job(op, tx, then, arg) ==
  [op |-> op, tx |-> tx, then |-> then, arg |-> arg, alone |-> TRUE]

Queried(tx) == DOMAIN tx.bulk \cup Gone(tx.purge)

\* SQLAlchemy writes the columns whose value differs from the one it has read.
Changed(i, columns) ==
  [c \in {k \in DOMAIN columns : columns[k] # db[i][k]} |-> columns[c]]

\* A process takes a request: AcceptedThen asks it, and handlers with much to search
\* ask it first.
Free(w) == job[w] = Idle /\ requests < MaxRequests

\* A request has read what it needs; then names the step after its commit.
AcceptedThen(w, op, tx, then, arg) ==
  /\ job[w] = Idle
  /\ requests < MaxRequests
  /\ Queried(tx) \cap HeldFrom(w) = {}
  /\ job' = [job EXCEPT ![w] = Job(op, tx, then, arg)]
  /\ requests' = requests + 1
  /\ UNCHANGED db

Accepted(w, op, tx) == AcceptedThen(w, op, tx, None, None) /\ UNCHANGED serial

Given(body, row, c) == IF c \in DOMAIN body THEN body[c] ELSE row[c]

\* Mappings with the next ids of the sequence; an id once drawn is gone.
InsertingMappings(rows) ==
  [m \in {<<n>> : n \in serial + 1 .. serial + Len(rows)} |-> rows[m[1] - serial]]

AcceptedDrawing(w, op, tx, arg) ==
  /\ serial + Cardinality(DOMAIN tx.new) <= MaxMapping
  /\ serial' = serial + Cardinality(DOMAIN tx.new)
  /\ AcceptedThen(w, op, tx, None, arg)

\* A request of several transactions has read for the next one.
Continues(w, tx, then, arg) ==
  /\ Queried(tx) \cap HeldFrom(w) = {}
  /\ job' = [job EXCEPT ![w].tx = tx, ![w].then = then, ![w].arg = arg]
  /\ UNCHANGED <<db, requests>>

ContinuesDrawing(w, tx, then, arg) ==
  /\ serial + Cardinality(DOMAIN tx.new) <= MaxMapping
  /\ serial' = serial + Cardinality(DOMAIN tx.new)
  /\ Continues(w, tx, then, arg)

At(w, op) ==
  job[w] # Idle /\ job[w].op = op /\ job[w].tx = None /\ job[w].then = None

Answers(w) == job' = [job EXCEPT ![w] = Idle] /\ UNCHANGED <<db, serial, requests>>

Blocked(w) == Writes(job[w].tx) \cap HeldFrom(w) # {}

Commit(w) ==
  /\ Active(w) /\ ~Blocked(w)
  /\ Holds(job[w].tx)
  /\ db' = After(job[w].tx)
  /\ job' = [v \in Worker |->
       IF job[v] = Idle THEN Idle
       ELSE IF v # w THEN [job[v] EXCEPT !.alone = @ /\ db' = db]
       ELSE IF job[w].then = None THEN Idle
       ELSE [job[w] EXCEPT !.op = job[w].then, !.tx = None, !.then = None]]
  /\ UNCHANGED <<serial, requests>>

\* The session is rolled back and the request answered with an error.
Refused(w) ==
  /\ Active(w) /\ ~Blocked(w)
  /\ ~Holds(job[w].tx)
  /\ Answers(w)

\* The process dies, a statement times out, or a deadlock is broken.
RequestFails(w) == job[w] # Idle /\ Answers(w)
=============================================================================
