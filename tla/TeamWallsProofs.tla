-------------------------- MODULE TeamWallsProofs --------------------------
(***************************************************************************)
(* Theorems of TeamWalls, in three parts.  The tables stay in order: ids,  *)
(* columns, foreign keys and unique keys hold after every commit, of any   *)
(* number of requests at a time (TablesInOrder).  The plan of a request,   *)
(* what it has checked and not yet committed, holds until another request  *)
(* changes a row (RequestsKeepToTheirPlans).  From the two, what a commit  *)
(* may do: the action properties of TeamWalls and SiteAssets.              *)
(***************************************************************************)
EXTENDS TeamWalls, FiniteSetTheorems, FunctionTheorems, SequenceTheorems, TLAPS

-----------------------------------------------------------------------------
(* Keys and rows *)

\* The place of a table among the tables.
TableNumber(i) == CHOOSE n \in 1..16 : i \in KeySets[n]

\* A key is in one table.
LEMMA OneTable ==
  \A i : /\ i \in Team => TableNumber(i) = 1
         /\ i \in Site => TableNumber(i) = 2
         /\ i \in Category => TableNumber(i) = 3
         /\ i \in Device => TableNumber(i) = 4
         /\ i \in Camera => TableNumber(i) = 5
         /\ i \in Address => TableNumber(i) = 6
         /\ i \in Membership => TableNumber(i) = 7
         /\ i \in SiteCategory => TableNumber(i) = 8
         /\ i \in SiteConfig => TableNumber(i) = 9
         /\ i \in SiteSlot => TableNumber(i) = 10
         /\ i \in Layout => TableNumber(i) = 11
         /\ i \in ScreenId => TableNumber(i) = 12
         /\ i \in ViewId => TableNumber(i) = 13
         /\ i \in Mapping => TableNumber(i) = 14
         /\ i \in Pc => TableNumber(i) = 15
         /\ i \in Playing => TableNumber(i) = 16
  <1> SUFFICES ASSUME NEW i
               PROVE  \A n \in 1..16 : i \in KeySets[n] => TableNumber(i) = n
    <2>1. /\ KeySets[1] = Team /\ KeySets[2] = Site /\ KeySets[3] = Category
          /\ KeySets[4] = Device /\ KeySets[5] = Camera /\ KeySets[6] = Address
          /\ KeySets[7] = Membership /\ KeySets[8] = SiteCategory /\ KeySets[9] = SiteConfig
          /\ KeySets[10] = SiteSlot /\ KeySets[11] = Layout /\ KeySets[12] = ScreenId
          /\ KeySets[13] = ViewId /\ KeySets[14] = Mapping /\ KeySets[15] = Pc
          /\ KeySets[16] = Playing
      BY DEF KeySets
    <2> QED BY <2>1
  <1>1. DOMAIN KeySets = 1..16
    BY DEF KeySets
  <1>2. \A m, n \in 1..16 : i \in KeySets[m] /\ i \in KeySets[n] => m = n
    BY <1>1, KeysApart
  <1> QED BY <1>2 DEF TableNumber

\* The columns of each table.
LEMMA RowTypes ==
  \A i : /\ i \in Team \cup Site \cup Category => RowType(i) = PlainRow
         /\ i \in Device => RowType(i) = DeviceRow
         /\ i \in Camera => RowType(i) = CameraRow
         /\ i \in Address => RowType(i) = AddressRow
         /\ i \in Membership => RowType(i) = MembershipRow(i)
         /\ i \in SiteCategory => RowType(i) = SiteCategoryRow(i)
         /\ i \in SiteConfig => RowType(i) = SiteConfigRow(i)
         /\ i \in SiteSlot => RowType(i) = SiteSlotRow(i)
         /\ i \in Layout => RowType(i) = LayoutRow
         /\ i \in ScreenId => RowType(i) = ScreenRow
         /\ i \in ViewId => RowType(i) = ViewRow
         /\ i \in Mapping => RowType(i) = MappingRow
         /\ i \in Pc => RowType(i) = PcRow
         /\ i \in Playing => RowType(i) = PlayingRow(i)
  <1> TAKE i
  <1>1. i \in Team \cup Site \cup Category => RowType(i) = PlainRow
    BY OneTable DEF RowType
  <1>2. i \in Device => RowType(i) = DeviceRow
    BY OneTable DEF RowType
  <1>3. i \in Camera => RowType(i) = CameraRow
    BY OneTable DEF RowType
  <1>4. i \in Address => RowType(i) = AddressRow
    BY OneTable DEF RowType
  <1>5. i \in Membership => RowType(i) = MembershipRow(i)
    BY OneTable DEF RowType
  <1>6. i \in SiteCategory => RowType(i) = SiteCategoryRow(i)
    BY OneTable DEF RowType
  <1>7. i \in SiteConfig => RowType(i) = SiteConfigRow(i)
    BY OneTable DEF RowType
  <1>8. i \in SiteSlot => RowType(i) = SiteSlotRow(i)
    BY OneTable DEF RowType
  <1>9. i \in Layout => RowType(i) = LayoutRow
    BY OneTable DEF RowType
  <1>10. i \in ScreenId => RowType(i) = ScreenRow
    BY OneTable DEF RowType
  <1>11. i \in ViewId => RowType(i) = ViewRow
    BY OneTable DEF RowType
  <1>12. i \in Mapping => RowType(i) = MappingRow
    BY OneTable DEF RowType
  <1>13. i \in Pc => RowType(i) = PcRow
    BY OneTable DEF RowType
  <1>14. i \in Playing => RowType(i) = PlayingRow(i)
    BY OneTable DEF RowType
  <1> QED BY <1>1, <1>2, <1>3, <1>4, <1>5, <1>6, <1>7,
            <1>8, <1>9, <1>10, <1>11, <1>12, <1>13, <1>14

\* Only these references are cleared, and their columns may be empty.
LEMMA ClearedColumns ==
  \A i : \A c \in ColumnsThat("clear", i) :
    /\ \/ i \in Mapping /\ c = "device"
       \/ i \in Pc /\ c \in {"layout", "manager"}
    /\ c \in DOMAIN RowType(i) /\ None \in RowType(i)[c]
  <1> TAKE i
  <1>1. i \in Mapping => ColumnsThat("clear", i) = {"device"}
    <2>1. i \in Mapping => References(i) = [screen |-> "remove", view |-> "remove",
                                            camera |-> "remove", device |-> "clear"]
      BY OneTable DEF References
    <2> QED BY <2>1 DEF ColumnsThat
  <1>2. i \in Pc => ColumnsThat("clear", i) = {"layout", "manager"}
    <2>1. i \in Pc => References(i) = [team |-> "refuse", layout |-> "clear", manager |-> "clear"]
      BY OneTable DEF References
    <2> QED BY <2>1 DEF ColumnsThat
  <1>3. i \notin Mapping /\ i \notin Pc => ColumnsThat("clear", i) = {}
    BY DEF ColumnsThat, References
  <1> QED BY <1>1, <1>2, <1>3, RowTypes DEF MappingRow, PcRow, OrNone

\* Columns written over a row make a row of the table again.
LEMMA MergedRow ==
  ASSUME NEW i, NEW row, NEW columns, IsRow(i, row), Fits(RowType(i), columns)
  PROVE  IsRow(i, columns ++ row)
  <1>1. IsFunction(columns ++ row)
    BY DEF IsFunction, ++
  <1>2. DOMAIN (columns ++ row) = DOMAIN RowType(i) /\ Fits(RowType(i), columns ++ row)
    BY DEF IsRow, Fits, ++
  <1> QED BY <1>1, <1>2 DEF IsRow

-----------------------------------------------------------------------------
(* What a transaction leaves behind *)

\* The value it writes in a column, before references are cleared.
Written(tx, i) ==
  LET written == tx.set ++ tx.bulk IN
  IF i \in DOMAIN written THEN written[i] ++ db[i] ELSE db[i]

Removed(tx) == Gone(tx.del \cup tx.purge)

\* Only rows of the database go, those named or those that refer to one that goes.
LEMMA GoneRows ==
  ASSUME NEW D
  PROVE  /\ Gone(D) \subseteq DOMAIN db
         /\ D \cap DOMAIN db \subseteq Gone(D)
         /\ \A i \in Gone(D) :
              \/ i \in D
              \/ \E c \in ColumnsThat("remove", i) : db[i][c] # None /\ db[i][c] \in Gone(D)
  <1> DEFINE A == D \cap DOMAIN db
             B == WithBelow(A)
             C == WithBelow(B)
             E == WithBelow(C)
  <1>1. A \subseteq DOMAIN db /\ A \subseteq D
    OBVIOUS
  <1>2. Gone(D) = WithBelow(E)
    BY DEF Gone
  <1>3. ASSUME NEW S, S \subseteq DOMAIN db,
               \A i \in S : \/ i \in D
                            \/ \E c \in ColumnsThat("remove", i) : db[i][c] # None /\ db[i][c] \in S
        PROVE  /\ WithBelow(S) \subseteq DOMAIN db /\ S \subseteq WithBelow(S)
               /\ \A i \in WithBelow(S) :
                    \/ i \in D
                    \/ \E c \in ColumnsThat("remove", i) :
                         db[i][c] # None /\ db[i][c] \in WithBelow(S)
    BY <1>3 DEF WithBelow, Below
  <1> HIDE DEF A
  <1>4. /\ B \subseteq DOMAIN db /\ A \subseteq B
        /\ \A i \in B : \/ i \in D
                        \/ \E c \in ColumnsThat("remove", i) : db[i][c] # None /\ db[i][c] \in B
    BY <1>1, <1>3
  <1> HIDE DEF B
  <1>5. /\ C \subseteq DOMAIN db /\ B \subseteq C
        /\ \A i \in C : \/ i \in D
                        \/ \E c \in ColumnsThat("remove", i) : db[i][c] # None /\ db[i][c] \in C
    BY <1>3, <1>4
  <1> HIDE DEF C
  <1>6. /\ E \subseteq DOMAIN db /\ C \subseteq E
        /\ \A i \in E : \/ i \in D
                        \/ \E c \in ColumnsThat("remove", i) : db[i][c] # None /\ db[i][c] \in E
    BY <1>3, <1>5
  <1> HIDE DEF E
  <1>7. /\ WithBelow(E) \subseteq DOMAIN db /\ E \subseteq WithBelow(E)
        /\ \A i \in WithBelow(E) :
             \/ i \in D
             \/ \E c \in ColumnsThat("remove", i) : db[i][c] # None /\ db[i][c] \in WithBelow(E)
    BY <1>3, <1>6
  <1>8. D \cap DOMAIN db \subseteq WithBelow(E)
    BY <1>4, <1>5, <1>6, <1>7 DEF A
  <1> QED BY <1>2, <1>7, <1>8

\* The rows after a transaction: new ones, those that stay, and those a query inserts.
LEMMA AfterRows ==
  ASSUME NEW tx
  PROVE  /\ DOMAIN After(tx) = DOMAIN tx.new \cup (DOMAIN db \ Removed(tx))
                                 \cup (DOMAIN tx.bulk \ DOMAIN db)
         /\ \A i \in DOMAIN tx.new : After(tx)[i] = tx.new[i]
         /\ \A i \in DOMAIN db \ (Removed(tx) \cup DOMAIN tx.new) :
              /\ IsFunction(After(tx)[i]) /\ DOMAIN After(tx)[i] = DOMAIN db[i]
              /\ \A c \in DOMAIN db[i] :
                   After(tx)[i][c] =
                     IF c \in ColumnsThat("clear", i) /\ Written(tx, i)[c] \in Removed(tx)
                     THEN None ELSE Written(tx, i)[c]
         /\ \A i \in DOMAIN tx.bulk \ (DOMAIN db \cup DOMAIN tx.new) : After(tx)[i] = tx.bulk[i]
  <1> DEFINE kept ==
        [i \in DOMAIN db \ Removed(tx) |->
           [c \in DOMAIN db[i] |->
              IF c \in ColumnsThat("clear", i) /\ Written(tx, i)[c] \in Removed(tx)
              THEN None ELSE Written(tx, i)[c]]]
             added == [i \in DOMAIN tx.bulk \ DOMAIN db |-> tx.bulk[i]]
  <1>1. After(tx) = tx.new ++ kept ++ added
    BY DEF After, Removed, Written
  <1>2. DOMAIN kept = DOMAIN db \ Removed(tx) /\ DOMAIN added = DOMAIN tx.bulk \ DOMAIN db
    OBVIOUS
  <1>3. /\ \A i \in DOMAIN kept :
             /\ IsFunction(kept[i]) /\ DOMAIN kept[i] = DOMAIN db[i]
             /\ \A c \in DOMAIN db[i] :
                  kept[i][c] =
                    IF c \in ColumnsThat("clear", i) /\ Written(tx, i)[c] \in Removed(tx)
                    THEN None ELSE Written(tx, i)[c]
        /\ \A i \in DOMAIN added : added[i] = tx.bulk[i]
    BY DEF IsFunction
  <1> HIDE DEF kept, added
  <1>4. /\ DOMAIN After(tx) = DOMAIN tx.new \cup DOMAIN kept \cup DOMAIN added
        /\ \A i \in DOMAIN tx.new : After(tx)[i] = tx.new[i]
        /\ \A i \in DOMAIN kept \ DOMAIN tx.new : After(tx)[i] = kept[i]
        /\ \A i \in DOMAIN added \ (DOMAIN kept \cup DOMAIN tx.new) : After(tx)[i] = added[i]
    BY <1>1 DEF ++
  <1> QED BY <1>2, <1>3, <1>4

\* A row that is inserted is there as inserted.
LEMMA InsertedAfter ==
  ASSUME NEW tx, NEW i \in DOMAIN tx.new
  PROVE  i \in DOMAIN After(tx) /\ After(tx)[i] = tx.new[i]
  <1>1. i \in DOMAIN After(tx)
    BY AfterRows
  <1>2. After(tx)[i] = tx.new[i]
    BY AfterRows
  <1> QED BY <1>1, <1>2

\* A row that stays has the columns it had, as written.
LEMMA KeptRow ==
  ASSUME NEW tx, NEW i \in DOMAIN db \ (Removed(tx) \cup DOMAIN tx.new)
  PROVE  /\ i \in DOMAIN After(tx)
         /\ IsFunction(After(tx)[i]) /\ DOMAIN After(tx)[i] = DOMAIN db[i]
         /\ \A c \in DOMAIN db[i] :
              After(tx)[i][c] =
                IF c \in ColumnsThat("clear", i) /\ Written(tx, i)[c] \in Removed(tx)
                THEN None ELSE Written(tx, i)[c]
  <1>1. i \in DOMAIN After(tx)
    BY AfterRows
  <1> QED BY <1>1, AfterRows

-----------------------------------------------------------------------------
(* The inductive invariant of the tables *)

\* What a transaction writes fits the tables; a row that a query may insert is complete.
\* Mappings have ids that the sequence has given.
TypedRows(tx, ids) ==
  /\ \A i \in DOMAIN tx.new : IsRow(i, tx.new[i]) /\ (i \in Mapping => i[1] \in 1..ids)
  /\ \A i \in DOMAIN tx.set : Fits(RowType(i), tx.set[i])
  /\ \A i \in DOMAIN tx.bulk :
       /\ Fits(RowType(i), tx.bulk[i])
       /\ i \in DOMAIN db \/ (IsRow(i, tx.bulk[i]) /\ i \in Membership \cup Playing)

\* Queries of the requests on walls and sites remove rows of these tables only, on which
\* nothing but the state of players hangs; one that removes mappings by a query makes no
\* row.
Purged == Membership \cup SiteCategory \cup SiteConfig \cup SiteSlot \cup Mapping

Cautious(tx) ==
  /\ tx.purge \subseteq Purged
  /\ tx.purge \cap Mapping # {} => DOMAIN tx.new = {}

Typed(tx, ids) == TypedRows(tx, ids) /\ Cautious(tx)

\* What a request of several transactions remembers.
Remembers(op, then, arg) ==
  /\ op = "address.provisioned" \/ (then # None /\ then = "address.provisioned") =>
       arg \in Camera
  /\ op = "site.populating" \/ (then # None /\ then = "site.populating") => arg \subseteq Site

JobTyped(j) ==
  /\ DOMAIN j = {"op", "tx", "then", "arg", "alone"}
  /\ j.alone \in BOOLEAN
  /\ Remembers(j.op, j.then, j.arg)
  /\ j.tx # None => TypedRows(j.tx, serial)

TablesInv ==
  /\ TablesTypeOK
  /\ DOMAIN job = Worker
  /\ \A w \in Worker : job[w] # Idle => JobTyped(job[w])

\* The rows a transaction leaves are rows of their tables.
LEMMA AfterTyped ==
  ASSUME TablesInv, NEW tx, TypedRows(tx, serial)
  PROVE  /\ \A i \in DOMAIN After(tx) : IsRow(i, After(tx)[i])
         /\ DOMAIN After(tx) \cap Mapping \subseteq {<<n>> : n \in 1..serial}
  <1>1. ASSUME NEW i \in DOMAIN After(tx)
        PROVE  IsRow(i, After(tx)[i])
    <2>1. CASE i \in DOMAIN tx.new
      BY <2>1, AfterRows DEF TypedRows
    <2>2. CASE i \in DOMAIN db \ (Removed(tx) \cup DOMAIN tx.new)
      <3>1. IsRow(i, db[i])
        BY <2>2 DEF TablesInv, TablesTypeOK
      <3>2. IsRow(i, Written(tx, i))
        <4>1. CASE i \notin DOMAIN (tx.set ++ tx.bulk)
          BY <3>1, <4>1 DEF Written
        <4>2. CASE i \in DOMAIN (tx.set ++ tx.bulk)
          <5>1. Fits(RowType(i), (tx.set ++ tx.bulk)[i])
            BY <4>2 DEF TypedRows, ++
          <5>2. PICK columns : columns = (tx.set ++ tx.bulk)[i]
            OBVIOUS
          <5>3. IsRow(i, columns ++ db[i])
            BY <3>1, <5>1, <5>2, MergedRow
          <5> QED BY <4>2, <5>2, <5>3 DEF Written
        <4> QED BY <4>1, <4>2
      <3>3. /\ IsFunction(After(tx)[i]) /\ DOMAIN After(tx)[i] = DOMAIN db[i]
            /\ \A c \in DOMAIN db[i] :
                 \/ After(tx)[i][c] = Written(tx, i)[c]
                 \/ c \in ColumnsThat("clear", i) /\ After(tx)[i][c] = None
        <4>1. /\ IsFunction(After(tx)[i]) /\ DOMAIN After(tx)[i] = DOMAIN db[i]
              /\ \A c \in DOMAIN db[i] :
                   After(tx)[i][c] =
                     IF c \in ColumnsThat("clear", i) /\ Written(tx, i)[c] \in Removed(tx)
                     THEN None ELSE Written(tx, i)[c]
          BY <2>2, AfterRows
        <4> QED BY <4>1
      <3>4. \A c \in ColumnsThat("clear", i) : None \in RowType(i)[c]
        BY ClearedColumns
      <3> QED BY <3>1, <3>2, <3>3, <3>4 DEF IsRow, Fits
    <2>3. CASE i \in DOMAIN tx.bulk \ (DOMAIN db \cup DOMAIN tx.new)
      BY <2>3, AfterRows DEF TypedRows
    <2> QED BY <2>1, <2>2, <2>3, AfterRows
  <1>2. ASSUME NEW i \in DOMAIN After(tx), i \in Mapping
        PROVE  i \in {<<n>> : n \in 1..serial}
    <2>1. PICK n \in 1..MaxMapping : i = <<n>>
      BY <1>2 DEF Mapping
    <2>2. i \in DOMAIN tx.new \/ i \in DOMAIN db
      <3>1. i \notin Membership \cup Playing
        BY <1>2, OneTable
      <3> QED BY <1>2, <3>1, AfterRows DEF TypedRows
    <2>3. CASE i \in DOMAIN db
      BY <1>2, <2>3 DEF TablesInv, TablesTypeOK, Rows
    <2>4. CASE i \in DOMAIN tx.new
      BY <1>2, <2>1, <2>4 DEF TypedRows
    <2> QED BY <2>2, <2>3, <2>4
  <1> QED BY <1>1, <1>2

-----------------------------------------------------------------------------
(* The requests *)

\* Tables to which a transaction adds rows, columns it writes in rows that are there,
\* and tables from which it removes.  Queries write in three tables only.
Within(tx, adds, sets, drops) ==
  /\ \A i \in DOMAIN tx.new : TableNumber(i) \in adds
  /\ \A i \in DOMAIN tx.set : \A c \in DOMAIN tx.set[i] : <<TableNumber(i), c>> \in sets
  /\ \A i \in DOMAIN tx.bulk :
       /\ TableNumber(i) \in {7, 13, 16}
       /\ \A c \in DOMAIN tx.bulk[i] : <<TableNumber(i), c>> \in sets
  /\ \A i \in tx.del \cup tx.purge : TableNumber(i) \in drops

\* Requests of several transactions.
Chained == {"camera.created", "address.revoked", "site.populated", "site.populating"}

\* Worker w has read for one of the operations and prepared a transaction.
Begins(w, ops, adds, sets, drops) ==
  \E j :
    /\ job' = [job EXCEPT ![w] = j]
    /\ DOMAIN j = {"op", "tx", "then", "arg", "alone"}
    /\ j.op \in ops
    /\ j.alone \in BOOLEAN
    /\ Remembers(j.op, j.then, j.arg)
    /\ j.then # None => j.op \in Chained
    /\ Typed(j.tx, serial')
    /\ Within(j.tx, adds, sets, drops)
    /\ \/ job[w] = Idle /\ j.alone /\ j.op \notin {"address.provisioned", "site.populating"}
       \/ /\ job[w] # Idle /\ job[w].op = j.op /\ job[w].alone = j.alone
          /\ j.op = "address.provisioned" => j.arg = job[w].arg
    /\ db' = db
    /\ serial' \in serial..MaxMapping
    /\ requests' \in 0..MaxRequests

Fields == {"new", "set", "bulk", "del", "purge", "touch"}

\* The fields of the transactions from which the requests build theirs.
LEMMA Transactions ==
  /\ /\ DOMAIN NoWrites = Fields
     /\ DOMAIN NoWrites.new = {} /\ DOMAIN NoWrites.set = {} /\ DOMAIN NoWrites.bulk = {}
     /\ NoWrites.del = {} /\ NoWrites.purge = {} /\ NoWrites.touch = {}
  /\ \A i, row :
       LET tx == Inserting(i, row) IN
       /\ DOMAIN tx = Fields /\ DOMAIN tx.new = {i} /\ tx.new[i] = row
       /\ DOMAIN tx.set = {} /\ DOMAIN tx.bulk = {} /\ tx.del = {} /\ tx.purge = {}
       /\ tx.touch = {}
  /\ \A i, columns :
       LET tx == Setting(i, columns) IN
       /\ DOMAIN tx = Fields /\ DOMAIN tx.set = {i} /\ tx.set[i] = columns
       /\ DOMAIN tx.new = {} /\ DOMAIN tx.bulk = {} /\ tx.del = {} /\ tx.purge = {}
       /\ tx.touch = {}
  /\ \A i :
       LET tx == Deleting(i) IN
       /\ DOMAIN tx = Fields /\ tx.del = {i}
       /\ DOMAIN tx.new = {} /\ DOMAIN tx.set = {} /\ DOMAIN tx.bulk = {} /\ tx.purge = {}
       /\ tx.touch = {}
  BY DEF Inserting, Setting, Deleting, NoWrites, Only, Fields

\* To stamp a layout changes nothing else.
LEMMA Stamped ==
  \A l, tx :
    DOMAIN tx = Fields =>
      /\ DOMAIN Touching(l, tx) = Fields
      /\ Touching(l, tx).touch = {l}
      /\ Touching(l, tx).new = tx.new /\ Touching(l, tx).set = tx.set
      /\ Touching(l, tx).bulk = tx.bulk /\ Touching(l, tx).del = tx.del
      /\ Touching(l, tx).purge = tx.purge
  BY DEF Touching, Fields

\* A request that gets past its checks.
LEMMA Starting ==
  ASSUME TablesInv, NEW w \in Worker, NEW op, NEW tx, NEW then, NEW arg,
         NEW adds, NEW sets, NEW drops,
         AcceptedThen(w, op, tx, then, arg), serial' \in serial..MaxMapping,
         Typed(tx, serial'), Within(tx, adds, sets, drops), Remembers(op, then, arg),
         then # None => op \in Chained, op \notin {"address.provisioned", "site.populating"}
  PROVE  Begins(w, {op}, adds, sets, drops)
  <1> DEFINE j == Job(op, tx, then, arg)
  <1>1. /\ DOMAIN j = {"op", "tx", "then", "arg", "alone"}
        /\ j.op = op /\ j.tx = tx /\ j.then = then /\ j.arg = arg /\ j.alone = TRUE
    BY DEF Job
  <1>2. job' = [job EXCEPT ![w] = j] /\ job[w] = Idle /\ db' = db
    BY DEF AcceptedThen
  <1>3. requests' \in 0..MaxRequests
    BY TablesAssumption DEF AcceptedThen, TablesInv, TablesTypeOK
  <1> HIDE DEF j
  <1> QED BY <1>1, <1>2, <1>3 DEF Begins

\* A request of one transaction that draws no id.
LEMMA Single ==
  ASSUME TablesInv, NEW w \in Worker, NEW op, NEW tx, NEW adds, NEW sets, NEW drops,
         op \notin {"address.provisioned", "site.populating"},
         Typed(tx, serial), Within(tx, adds, sets, drops), Accepted(w, op, tx)
  PROVE  Begins(w, {op}, adds, sets, drops)
  <1>1. AcceptedThen(w, op, tx, None, None) /\ serial' = serial
    BY DEF Accepted
  <1>2. Typed(tx, serial')
    BY <1>1
  <1>3. Remembers(op, None, None)
    BY DEF Remembers
  <1>4. serial' \in serial..MaxMapping
    BY <1>1, TablesAssumption DEF TablesInv, TablesTypeOK
  <1> QED BY <1>1, <1>2, <1>3, <1>4, Starting

\* A request that makes one row.
LEMMA Adding ==
  ASSUME TablesInv, NEW w \in Worker, NEW op, NEW i, NEW row, NEW l, NEW tx,
         op \notin {"address.provisioned", "site.populating"},
         tx = Inserting(i, row) \/ tx = Touching(l, Inserting(i, row)),
         IsRow(i, row), i \notin Mapping, Accepted(w, op, tx)
  PROVE  Begins(w, {op}, {TableNumber(i)}, {}, {})
  <1>1. /\ DOMAIN tx.new = {i} /\ tx.new[i] = row
        /\ DOMAIN tx.set = {} /\ DOMAIN tx.bulk = {} /\ tx.del = {} /\ tx.purge = {}
    BY Transactions, Stamped
  <1>2. Typed(tx, serial) /\ Within(tx, {TableNumber(i)}, {}, {})
    BY <1>1 DEF Typed, TypedRows, Cautious, Within
  <1> QED BY <1>2, Single

\* A request that writes columns of one row.
LEMMA Writing ==
  ASSUME TablesInv, NEW w \in Worker, NEW op, NEW i, NEW columns, NEW l, NEW tx, NEW names,
         op \notin {"address.provisioned", "site.populating"},
         tx = Setting(i, columns) \/ tx = Touching(l, Setting(i, columns)),
         Fits(RowType(i), columns), DOMAIN columns \subseteq names, Accepted(w, op, tx)
  PROVE  Begins(w, {op}, {}, {TableNumber(i)} \X names, {})
  <1>1. /\ DOMAIN tx.set = {i} /\ tx.set[i] = columns
        /\ DOMAIN tx.new = {} /\ DOMAIN tx.bulk = {} /\ tx.del = {} /\ tx.purge = {}
    BY Transactions, Stamped
  <1>2. Typed(tx, serial) /\ Within(tx, {}, {TableNumber(i)} \X names, {})
    BY <1>1 DEF Typed, TypedRows, Cautious, Within
  <1> QED BY <1>2, Single

\* A request that deletes one row.
LEMMA Removing ==
  ASSUME TablesInv, NEW w \in Worker, NEW op, NEW i, NEW l, NEW tx,
         op \notin {"address.provisioned", "site.populating"},
         tx = Deleting(i) \/ tx = Touching(l, Deleting(i)), Accepted(w, op, tx)
  PROVE  Begins(w, {op}, {}, {}, {TableNumber(i)})
  <1>1. /\ DOMAIN tx.set = {} /\ DOMAIN tx.new = {} /\ DOMAIN tx.bulk = {}
        /\ tx.del = {i} /\ tx.purge = {}
    BY Transactions, Stamped
  <1>2. Typed(tx, serial) /\ Within(tx, {}, {}, {TableNumber(i)})
    BY <1>1 DEF Typed, TypedRows, Cautious, Within
  <1> QED BY <1>2, Single

-----------------------------------------------------------------------------
(* Layouts, screens and views *)

\* A new layout is a row of its team.
LEMMA CreateLayoutBegins ==
  ASSUME TablesInv, NEW w \in Worker, CreateLayout(w)
  PROVE  Begins(w, {"layout.created"}, {11}, {}, {})
  <1>1. PICK l \in Layout, t \in Team :
          Accepted(w, "layout.created", Inserting(l, [team |-> t]))
    BY DEF CreateLayout
  <1>2. IsRow(l, [team |-> t]) /\ TableNumber(l) = 11 /\ l \notin Mapping
    BY OneTable, RowTypes DEF IsRow, IsFunction, Fits, LayoutRow
  <1> QED BY <1>1, <1>2, Adding

\* An edit of a layout writes at most its team.
LEMMA UpdateLayoutBegins ==
  ASSUME TablesInv, NEW w \in Worker, UpdateLayout(w)
  PROVE  Begins(w, {"layout.updated"}, {}, {<<11, "team">>}, {})
  <1>1. PICK l \in Rows(Layout), t \in LayoutBody :
          Accepted(w, "layout.updated", Setting(l, Changed(l, [team |-> t])))
    BY DEF UpdateLayout
  <1>2. PICK columns : columns = Changed(l, [team |-> t])
    OBVIOUS
  <1>3. /\ Fits(RowType(l), columns) /\ DOMAIN columns \subseteq {"team"}
        /\ TableNumber(l) = 11
    BY <1>2, OneTable, RowTypes, WallBodies DEF Changed, Fits, LayoutRow, Rows
  <1>4. Begins(w, {"layout.updated"}, {}, {11} \X {"team"}, {})
    BY <1>1, <1>2, <1>3, Writing
  <1> QED BY <1>4

\* A layout is deleted with what cascades from it.
LEMMA DeleteLayoutBegins ==
  ASSUME TablesInv, NEW w \in Worker, DeleteLayout(w)
  PROVE  Begins(w, {"layout.deleted"}, {}, {}, {11})
  <1>1. PICK l \in Rows(Layout) : Accepted(w, "layout.deleted", Deleting(l))
    BY DEF DeleteLayout
  <1>2. TableNumber(l) = 11
    BY OneTable DEF Rows
  <1> QED BY <1>1, <1>2, Removing

\* PCs that a layout takes get its id, and nothing else changes.
LEMMA AssignPcsBegins ==
  ASSUME TablesInv, NEW w \in Worker, AssignPcs(w) \/ UnassignPcs(w)
  PROVE  Begins(w, {"layout.assigned", "layout.unassigned"}, {}, {<<15, "layout">>}, {})
  <1>1. \A P, l : DOMAIN [p \in P |-> [layout |-> l]] = P
    OBVIOUS
  <1>2. PICK op \in {"layout.assigned", "layout.unassigned"},
             P \in SUBSET Rows(Pc), l \in OrNone(Layout) :
          Accepted(w, op, [NoWrites EXCEPT !.set = [p \in P |-> [layout |-> l]]])
    <2>1. CASE AssignPcs(w)
      BY <2>1 DEF AssignPcs, OrNone, Rows
    <2>2. CASE UnassignPcs(w)
      <3>1. PICK l \in Rows(Layout), P \in SUBSET Rows(Pc) :
              Accepted(w, "layout.unassigned",
                [NoWrites EXCEPT !.set =
                   [p \in {q \in P : db[q].layout = l} |-> [layout |-> None]]])
        BY <2>2 DEF UnassignPcs
      <3>2. PICK Q \in SUBSET Rows(Pc) : Q = {q \in P : db[q].layout = l}
        OBVIOUS
      <3>3. Accepted(w, "layout.unassigned",
              [NoWrites EXCEPT !.set = [p \in Q |-> [layout |-> None]]])
        BY <3>1, <3>2
      <3> QED BY <3>3 DEF OrNone
    <2> QED BY <2>1, <2>2
  <1>3. PICK tx : tx = [NoWrites EXCEPT !.set = [p \in P |-> [layout |-> l]]]
    OBVIOUS
  <1>4. /\ DOMAIN tx.set = P /\ (\A p \in P : tx.set[p] = [layout |-> l])
        /\ DOMAIN tx.new = {} /\ DOMAIN tx.bulk = {} /\ tx.del = {} /\ tx.purge = {}
    BY <1>3 DEF NoWrites
  <1>5. \A p \in P : Fits(RowType(p), [layout |-> l]) /\ TableNumber(p) = 15
    BY OneTable, RowTypes DEF Fits, PcRow, Rows
  <1>6. Typed(tx, serial) /\ Within(tx, {}, {<<15, "layout">>}, {})
    BY <1>4, <1>5 DEF Typed, TypedRows, Cautious, Within
  <1>7. Begins(w, {op}, {}, {<<15, "layout">>}, {})
    BY <1>2, <1>3, <1>6, Single
  <1> QED BY <1>2, <1>7 DEF Begins

\* A new screen comes with its view.
LEMMA CreateScreenBegins ==
  ASSUME TablesInv, NEW w \in Worker, CreateScreen(w)
  PROVE  Begins(w, {"screen.created"}, {12}, {}, {})
  <1>1. PICK s \in Screen, l \in Rows(Layout), n \in Name, body \in ScreenBody :
          /\ {"rows", "cols"} \subseteq DOMAIN body
          /\ Accepted(w, "screen.created",
               Touching(l, Inserting(s, [layout |-> l, name |-> n,
                                         rows |-> body.rows, cols |-> body.cols])))
    BY DEF CreateScreen
  <1>2. body.rows \in 1..ScreenSide /\ body.cols \in 1..ScreenSide
    BY <1>1, WallBodies DEF Fits, ScreenRow
  <1>3. RowType(s) = ScreenRow /\ TableNumber(s) = 12 /\ s \notin Mapping
    BY OneTable, RowTypes DEF ScreenId
  <1>4. IsRow(s, [layout |-> l, name |-> n, rows |-> body.rows, cols |-> body.cols])
    <2>1. PICK row :
            row = [layout |-> l, name |-> n, rows |-> body.rows, cols |-> body.cols]
      OBVIOUS
    <2>2. /\ IsFunction(row) /\ DOMAIN row = {"layout", "name", "rows", "cols"}
          /\ row["layout"] \in Layout /\ row["name"] \in Name
          /\ row["rows"] \in 1..ScreenSide /\ row["cols"] \in 1..ScreenSide
      BY <1>2, <2>1 DEF Rows, IsFunction
    <2>3. /\ DOMAIN ScreenRow = {"layout", "name", "rows", "cols"}
          /\ ScreenRow["layout"] = Layout /\ ScreenRow["name"] = Name
          /\ ScreenRow["rows"] = 1..ScreenSide /\ ScreenRow["cols"] = 1..ScreenSide
      BY DEF ScreenRow
    <2>4. IsRow(s, row)
      BY <1>3, <2>2, <2>3 DEF IsRow, Fits
    <2> QED BY <2>1, <2>4
  <1> QED BY <1>1, <1>3, <1>4, Adding

\* A screen is deleted with what cascades from it.
LEMMA DeleteScreenBegins ==
  ASSUME TablesInv, NEW w \in Worker, DeleteScreen(w)
  PROVE  Begins(w, {"screen.deleted"}, {}, {}, {12})
  <1>1. PICK s \in Rows(ScreenId) :
          Accepted(w, "screen.deleted", Touching(db[s].layout, Deleting(s)))
    BY DEF DeleteScreen
  <1>2. TableNumber(s) = 12
    BY OneTable DEF Rows
  <1>3. PICK l : l = db[s].layout
    OBVIOUS
  <1>4. Accepted(w, "screen.deleted", Touching(l, Deleting(s)))
    BY <1>1, <1>3
  <1> QED BY <1>2, <1>4, Removing

\* A new view is a row of its screen.
LEMMA CreateViewBegins ==
  ASSUME TablesInv, NEW w \in Worker, CreateView(w)
  PROVE  Begins(w, {"view.created"}, {13}, {}, {})
  <1>1. PICK v \in View, s \in Rows(ScreenId), body \in ViewBody :
          /\ DOMAIN body = {"number", "rows", "cols"}
          /\ Accepted(w, "view.created",
               Touching(db[s].layout, Inserting(v, [screen |-> s] ++ body)))
    BY DEF CreateView
  <1>2. PICK row : row = [screen |-> s] ++ body
    OBVIOUS
  <1>3. /\ IsFunction(row) /\ DOMAIN row = {"screen", "number", "rows", "cols"}
        /\ row["screen"] = s
        /\ \A c \in {"number", "rows", "cols"} : row[c] = body[c]
    BY <1>1, <1>2 DEF ++, IsFunction
  <1>4. Fits(ViewRow, body)
    BY WallBodies
  <1>5. DOMAIN ViewRow = {"screen", "number", "rows", "cols"} /\ ViewRow["screen"] = ScreenId
    BY DEF ViewRow
  <1>6. IsRow(v, row) /\ TableNumber(v) = 13 /\ v \notin Mapping
    BY <1>1, <1>3, <1>4, <1>5, OneTable, RowTypes DEF IsRow, Fits, ViewId, Rows
  <1>7. PICK l : l = db[s].layout
    OBVIOUS
  <1>8. Accepted(w, "view.created", Touching(l, Inserting(v, row)))
    BY <1>1, <1>2, <1>7
  <1> QED BY <1>6, <1>8, Adding

\* An edit of a view writes its number or its grid.
LEMMA UpdateViewBegins ==
  ASSUME TablesInv, NEW w \in Worker, UpdateView(w)
  PROVE  Begins(w, {"view.updated"}, {},
                {13} \X {"number", "rows", "cols"}, {})
  <1>1. PICK v \in Rows(ViewId), body \in ViewBody \cup {<<>>} :
          Accepted(w, "view.updated",
            Touching(LayoutOfScreen(db[v].screen), Setting(v, Changed(v, body))))
    BY DEF UpdateView
  <1>2. PICK columns, l : columns = Changed(v, body) /\ l = LayoutOfScreen(db[v].screen)
    OBVIOUS
  <1>3. Fits(ViewRow, body) /\ "screen" \notin DOMAIN body
    BY WallBodies DEF Fits
  <1>4. DOMAIN columns \subseteq DOMAIN body /\ \A c \in DOMAIN columns : columns[c] = body[c]
    BY <1>2 DEF Changed
  <1>5. DOMAIN ViewRow = {"screen", "number", "rows", "cols"}
    BY DEF ViewRow
  <1>6. DOMAIN columns \subseteq {"number", "rows", "cols"} /\ Fits(ViewRow, columns)
    BY <1>3, <1>4, <1>5 DEF Fits
  <1>7. TableNumber(v) = 13 /\ RowType(v) = ViewRow
    BY OneTable, RowTypes DEF Rows
  <1>8. Accepted(w, "view.updated", Touching(l, Setting(v, columns)))
    BY <1>1, <1>2
  <1> QED BY <1>6, <1>7, <1>8, Writing

\* A view is deleted with what cascades from it.
LEMMA DeleteViewBegins ==
  ASSUME TablesInv, NEW w \in Worker, DeleteView(w)
  PROVE  Begins(w, {"view.deleted"}, {}, {}, {13})
  <1>1. PICK v \in Rows(ViewId) :
          Accepted(w, "view.deleted",
            Touching(LayoutOfScreen(db[v].screen), Deleting(v)))
    BY DEF DeleteView
  <1>2. PICK l : l = LayoutOfScreen(db[v].screen)
    OBVIOUS
  <1>3. Accepted(w, "view.deleted", Touching(l, Deleting(v))) /\ TableNumber(v) = 13
    BY <1>1, <1>2, OneTable DEF Rows
  <1> QED BY <1>3, Removing

\* What update_screen is about to write: columns of screen s, and if its grid changes that
\* of its views, without the mappings outside.
ScreenEdit(tx, s, l, columns, rows, cols) ==
  /\ DOMAIN tx.new = {} /\ DOMAIN tx.set = {s} /\ tx.set[s] = columns /\ tx.del = {}
  /\ tx.touch = {l}
  /\ \/ DOMAIN tx.bulk = {} /\ tx.purge = {}
     \/ /\ DOMAIN tx.bulk = ViewsOf(s)
        /\ \A v \in ViewsOf(s) : tx.bulk[v] = [rows |-> rows, cols |-> cols]
        /\ tx.purge = {m \in Rows(Mapping) : db[m].screen = s /\ Outside(m, rows, cols)}

\* A screen whose layout is written changes layouts.
LEMMA ScreenRequest ==
  ASSUME TablesInv, NEW w \in Worker, UpdateScreen(w)
  PROVE  \E s, l, columns, rows, cols, op, tx :
           /\ s \in Rows(ScreenId) /\ Accepted(w, op, tx)
           /\ ScreenEdit(tx, s, l, columns, rows, cols)
           /\ Fits(ScreenRow, columns) /\ rows \in 1..ViewSide /\ cols \in 1..ViewSide
           /\ IF "layout" \in DOMAIN columns
              THEN op = "screen.moved" /\ columns["layout"] = l /\ l # db[s].layout
              ELSE op = "screen.updated" /\ l = db[s].layout
  <1>1. PICK s \in Rows(ScreenId), body \in ScreenBody :
          Accepted(w, IF Given(body, db[s], "layout") = db[s].layout
                      THEN "screen.updated" ELSE "screen.moved",
            Touching(Given(body, db[s], "layout"),
              Resize(s, Given(body, db[s], "rows"), Given(body, db[s], "cols"),
                     Setting(s, Changed(s, body)))))
    BY DEF UpdateScreen
  <1>2. PICK l, rows, cols, columns, op :
          /\ l = Given(body, db[s], "layout")
          /\ rows = Given(body, db[s], "rows") /\ cols = Given(body, db[s], "cols")
          /\ columns = Changed(s, body)
          /\ op = IF Given(body, db[s], "layout") = db[s].layout
                  THEN "screen.updated" ELSE "screen.moved"
    OBVIOUS
  <1>3. PICK tx : tx = Touching(l, Resize(s, rows, cols, Setting(s, columns)))
    OBVIOUS
  <1>4. Accepted(w, op, tx)
    BY <1>1, <1>2, <1>3
  <1>5. ScreenEdit(tx, s, l, columns, rows, cols)
    <2>1. PICK base : base = Setting(s, columns)
      OBVIOUS
    <2>2. /\ DOMAIN base = Fields /\ DOMAIN base.set = {s} /\ base.set[s] = columns
          /\ DOMAIN base.new = {} /\ DOMAIN base.bulk = {} /\ base.del = {} /\ base.purge = {}
      BY <2>1, Transactions
    <2>3. PICK sized : sized = Resize(s, rows, cols, base)
      OBVIOUS
    <2>4. /\ DOMAIN sized = Fields /\ sized.set = base.set /\ sized.new = base.new
          /\ sized.del = base.del
          /\ \/ sized.bulk = base.bulk /\ sized.purge = base.purge
             \/ /\ sized.bulk = [v \in ViewsOf(s) |-> [rows |-> rows, cols |-> cols]]
                /\ sized.purge = {m \in Rows(Mapping) : db[m].screen = s /\ Outside(m, rows, cols)}
      BY <2>2, <2>3 DEF Resize, Fields
    <2>5. /\ tx.set = sized.set /\ tx.new = sized.new /\ tx.del = sized.del
          /\ tx.bulk = sized.bulk /\ tx.purge = sized.purge /\ tx.touch = {l}
      BY <1>3, <2>1, <2>3, <2>4, Stamped
    <2> QED BY <2>2, <2>4, <2>5 DEF ScreenEdit
  <1>6. /\ DOMAIN ScreenRow = {"layout", "name", "rows", "cols"}
        /\ ScreenRow["rows"] = 1..ScreenSide /\ ScreenRow["cols"] = 1..ScreenSide
    BY DEF ScreenRow
  <1>7. IsRow(s, db[s]) /\ RowType(s) = ScreenRow /\ Fits(ScreenRow, body)
    BY RowTypes, WallBodies DEF Rows, TablesInv, TablesTypeOK
  <1>8. rows \in 1..ViewSide /\ cols \in 1..ViewSide
    <2>1. db[s].rows \in 1..ScreenSide /\ db[s].cols \in 1..ScreenSide
      BY <1>6, <1>7 DEF IsRow, Fits
    <2>2. rows \in 1..ScreenSide /\ cols \in 1..ScreenSide
      BY <1>2, <1>6, <1>7, <2>1 DEF Given, Fits
    <2> QED BY <2>2, TablesAssumption
  <1>9. Fits(ScreenRow, columns)
    BY <1>2, <1>7 DEF Changed, Fits
  <1>10. IF "layout" \in DOMAIN columns
         THEN op = "screen.moved" /\ columns["layout"] = l /\ l # db[s].layout
         ELSE op = "screen.updated" /\ l = db[s].layout
    BY <1>2 DEF Changed, Given
  <1> QED BY <1>4, <1>5, <1>8, <1>9, <1>10

\* The columns that an edit of a screen writes.
ScreenColumns(op) ==
  ({12} \X (IF op = "screen.moved"
            THEN {"layout", "name", "rows", "cols"} ELSE {"name", "rows", "cols"}))
    \cup ({13} \X {"rows", "cols"})

\* An edit of a screen writes its name and grid, the grids of its views and the
\* mappings it no longer holds.
LEMMA UpdateScreenBegins ==
  ASSUME TablesInv, NEW w \in Worker, UpdateScreen(w)
  PROVE  \E op \in {"screen.updated", "screen.moved"} :
           Begins(w, {op}, {}, ScreenColumns(op), {14})
  <1>1. PICK s, l, columns, rows, cols, op, tx :
          /\ s \in Rows(ScreenId) /\ Accepted(w, op, tx)
          /\ ScreenEdit(tx, s, l, columns, rows, cols)
          /\ Fits(ScreenRow, columns) /\ rows \in 1..ViewSide /\ cols \in 1..ViewSide
          /\ IF "layout" \in DOMAIN columns
             THEN op = "screen.moved" /\ columns["layout"] = l /\ l # db[s].layout
             ELSE op = "screen.updated" /\ l = db[s].layout
    BY ScreenRequest
  <1>2. op \in {"screen.updated", "screen.moved"}
    BY <1>1
  <1>3. TableNumber(s) = 12 /\ RowType(s) = ScreenRow
    BY <1>1, OneTable, RowTypes DEF Rows
  <1>4. \A v \in ViewsOf(s) :
           /\ v \in DOMAIN db /\ TableNumber(v) = 13
           /\ Fits(RowType(v), [rows |-> rows, cols |-> cols])
    <2>1. Fits(ViewRow, [rows |-> rows, cols |-> cols])
      <3>1. PICK size : size = [rows |-> rows, cols |-> cols]
        OBVIOUS
      <3>2. DOMAIN size = {"rows", "cols"} /\ size["rows"] = rows /\ size["cols"] = cols
        BY <3>1
      <3>3. /\ {"rows", "cols"} \subseteq DOMAIN ViewRow
            /\ ViewRow["rows"] = 1..ViewSide /\ ViewRow["cols"] = 1..ViewSide
        BY DEF ViewRow
      <3>4. Fits(ViewRow, size)
        BY <1>1, <3>2, <3>3 DEF Fits
      <3> QED BY <3>1, <3>4
    <2> QED BY <2>1, OneTable, RowTypes DEF ViewsOf, Rows
  <1>5. \A m \in tx.purge : m \in Mapping /\ TableNumber(m) = 14
    BY <1>1, OneTable DEF Rows, ScreenEdit
  <1>6. Typed(tx, serial)
    BY <1>1, <1>3, <1>4, <1>5 DEF Typed, TypedRows, Cautious, Purged, ScreenEdit
  <1>7. DOMAIN columns \subseteq {"layout", "name", "rows", "cols"}
    BY <1>1 DEF Fits, ScreenRow
  <1>8. Within(tx, {}, ScreenColumns(op), {14})
    BY <1>1, <1>3, <1>4, <1>5, <1>7 DEF Within, ScreenEdit, ScreenColumns
  <1>9. Begins(w, {op}, {}, ScreenColumns(op), {14})
    BY <1>1, <1>2, <1>6, <1>8, Single
  <1> QED BY <1>2, <1>9

-----------------------------------------------------------------------------
(* Mappings *)

\* As many boxed numbers as numbers.
LEMMA Boxed ==
  ASSUME NEW a \in Nat, NEW b \in Nat, a <= b + 1
  PROVE  LET boxes == {<<n>> : n \in a..b} IN
         IsFiniteSet(boxes) /\ Cardinality(boxes) = (b - a) + 1
  <1> DEFINE boxes == {<<n>> : n \in a..b}
             box == [n \in a..b |-> <<n>>]
  <1>1. box \in Bijection(a..b, boxes)
    <2>1. box \in [a..b -> boxes]
      OBVIOUS
    <2>2. \A m, n \in a..b : box[m] = box[n] => m = n
      OBVIOUS
    <2>3. \A x \in boxes : \E n \in a..b : box[n] = x
      OBVIOUS
    <2> HIDE DEF box, boxes
    <2>4. box \in Injection(a..b, boxes)
      BY <2>1, <2>2, Fun_IsInj
    <2>5. box \in Surjection(a..b, boxes)
      BY <2>1, <2>3, Fun_IsSurj
    <2> QED BY <2>4, <2>5 DEF Bijection
  <1>2. IsFiniteSet(a..b) /\ Cardinality(a..b) = (b - a) + 1
    BY FS_Interval
  <1>3. ExistsBijection(a..b, boxes)
    BY <1>1 DEF ExistsBijection
  <1> HIDE DEF boxes
  <1>4. IsFiniteSet(boxes) /\ Cardinality(boxes) = (b - a) + 1
    BY <1>2, <1>3, FS_Bijection
  <1> QED BY <1>4 DEF boxes

\* The ids that the sequence gives.
LEMMA Drawn ==
  ASSUME serial \in Nat, NEW S, NEW rows \in Seq(S)
  PROVE  LET new == InsertingMappings(rows) IN
         /\ DOMAIN new = {<<n>> : n \in serial + 1 .. serial + Len(rows)}
         /\ \A m \in DOMAIN new :
              m[1] - serial \in 1..Len(rows) /\ new[m] = rows[m[1] - serial]
         /\ Cardinality(DOMAIN new) = Len(rows)
  <1>1. Len(rows) \in Nat
    BY LenProperties
  <1>2. DOMAIN InsertingMappings(rows) = {<<n>> : n \in serial + 1 .. serial + Len(rows)}
    BY DEF InsertingMappings
  <1>3. Cardinality(DOMAIN InsertingMappings(rows)) = Len(rows)
    <2>1. PICK a, b : a = serial + 1 /\ b = serial + Len(rows)
      OBVIOUS
    <2>2. a \in Nat /\ b \in Nat /\ a <= b + 1 /\ (b - a) + 1 = Len(rows)
      BY <1>1, <2>1
    <2>3. Cardinality({<<n>> : n \in a..b}) = (b - a) + 1
      BY <2>2, Boxed
    <2> QED BY <1>2, <2>1, <2>2, <2>3
  <1>4. ASSUME NEW m \in DOMAIN InsertingMappings(rows)
        PROVE  m[1] - serial \in 1..Len(rows) /\ InsertingMappings(rows)[m] = rows[m[1] - serial]
    <2>1. PICK n \in serial + 1 .. serial + Len(rows) : m = <<n>>
      BY <1>2
    <2>2. m[1] = n
      BY <2>1
    <2>3. InsertingMappings(rows)[m] = rows[m[1] - serial]
      BY <1>2 DEF InsertingMappings
    <2> QED BY <1>1, <2>2, <2>3
  <1> QED BY <1>2, <1>3, <1>4

\* A mapping of a view that is there.
LEMMA NewMappingRow ==
  ASSUME TablesInv, NEW v \in Rows(ViewId), NEW slot \in Slot,
         NEW c \in OrNone(Camera), NEW d \in OrNone(Device), NEW m \in Mapping
  PROVE  IsRow(m, NewMapping(v, slot, c, d))
  <1>1. IsRow(v, db[v]) /\ RowType(v) = ViewRow
    BY RowTypes DEF TablesInv, TablesTypeOK, Rows
  <1>2. db[v].screen \in ScreenId
    BY <1>1 DEF IsRow, Fits, ViewRow
  <1>3. PICK row : row = NewMapping(v, slot, c, d)
    OBVIOUS
  <1>4. /\ IsFunction(row) /\ DOMAIN row = {"screen", "view", "slot", "device", "camera"}
        /\ row["screen"] \in ScreenId /\ row["view"] \in ViewId /\ row["slot"] \in Slot
        /\ row["device"] \in OrNone(Device) /\ row["camera"] \in OrNone(Camera)
    BY <1>2, <1>3 DEF NewMapping, Rows, IsFunction
  <1>5. /\ DOMAIN MappingRow = {"screen", "view", "slot", "device", "camera"}
        /\ MappingRow["screen"] = ScreenId /\ MappingRow["view"] = ViewId
        /\ MappingRow["slot"] = Slot
        /\ MappingRow["device"] = OrNone(Device) /\ MappingRow["camera"] = OrNone(Camera)
    BY DEF MappingRow
  <1>6. RowType(m) = MappingRow
    BY RowTypes
  <1> QED BY <1>3, <1>4, <1>5, <1>6 DEF IsRow, Fits

\* A request that makes mappings.
LEMMA Drawing ==
  ASSUME TablesInv, NEW w \in Worker, NEW op, NEW tx, NEW arg, NEW S, NEW rows \in Seq(S),
         NEW sets, NEW drops,
         op \notin {"address.provisioned", "site.populating"},
         AcceptedDrawing(w, op, tx, arg),
         tx.new = InsertingMappings(rows), tx.purge = {}, DOMAIN tx.bulk = {},
         \A n \in 1..Len(rows) : \A m \in Mapping : IsRow(m, rows[n]),
         \A i \in DOMAIN tx.set : Fits(RowType(i), tx.set[i]),
         Within([tx EXCEPT !.new = <<>>], {}, sets, drops), DOMAIN tx = Fields
  PROVE  Begins(w, {op}, {14}, sets, drops)
  <1>1. serial \in 0..MaxMapping /\ MaxMapping \in Nat
    BY TablesAssumption DEF TablesInv, TablesTypeOK
  <1>2. /\ DOMAIN tx.new = {<<n>> : n \in serial + 1 .. serial + Len(rows)}
        /\ \A m \in DOMAIN tx.new :
             m[1] - serial \in 1..Len(rows) /\ tx.new[m] = rows[m[1] - serial]
        /\ Cardinality(DOMAIN tx.new) = Len(rows)
    <2>1. serial \in Nat
      BY <1>1
    <2>2. /\ DOMAIN InsertingMappings(rows) = {<<n>> : n \in serial + 1 .. serial + Len(rows)}
          /\ \A m \in DOMAIN InsertingMappings(rows) :
               /\ m[1] - serial \in 1..Len(rows)
               /\ InsertingMappings(rows)[m] = rows[m[1] - serial]
          /\ Cardinality(DOMAIN InsertingMappings(rows)) = Len(rows)
      BY <2>1, Drawn
    <2> QED BY <2>2
  <1>3. Len(rows) \in Nat
    BY LenProperties
  <1>4. /\ serial' = serial + Len(rows) /\ serial' <= MaxMapping
        /\ AcceptedThen(w, op, tx, None, arg)
    BY <1>2 DEF AcceptedDrawing
  <1>5. \A m \in DOMAIN tx.new : m \in Mapping /\ m[1] \in 1..serial' /\ IsRow(m, tx.new[m])
    <2> SUFFICES ASSUME NEW m \in DOMAIN tx.new
                 PROVE  m \in Mapping /\ m[1] \in 1..serial' /\ IsRow(m, tx.new[m])
      OBVIOUS
    <2>1. PICK n \in serial + 1 .. serial + Len(rows) : m = <<n>>
      BY <1>2
    <2>2. n \in 1..MaxMapping /\ n \in 1..serial'
      BY <1>1, <1>3, <1>4
    <2>3. m \in Mapping /\ m[1] = n
      BY <2>1, <2>2 DEF Mapping
    <2> QED BY <1>2, <2>2, <2>3
  <1>6. Typed(tx, serial')
    BY <1>5 DEF Typed, TypedRows, Cautious
  <1>7. \A m \in Mapping : TableNumber(m) = 14
    BY OneTable
  <1>8. Within(tx, {14}, sets, drops)
    BY <1>5, <1>7 DEF Within, Fields
  <1>9. serial' \in serial..MaxMapping
    BY <1>1, <1>3, <1>4
  <1>10. Remembers(op, None, arg)
    BY DEF Remembers
  <1> QED BY <1>4, <1>6, <1>8, <1>9, <1>10, Starting

\* A mapping made in a view, by create_mapping or by assign_camera_to_slot.
LEMMA OneMapping ==
  ASSUME TablesInv, NEW w \in Worker, NEW op, NEW v \in Rows(ViewId), NEW slot \in Slot,
         NEW c \in OrNone(Rows(Camera)), NEW d \in OrNone(Rows(Device)),
         op \notin {"address.provisioned", "site.populating"},
         AcceptedDrawing(w, op,
           Touching(LayoutOfScreen(db[v].screen),
             [NoWrites EXCEPT !.new = InsertingMappings(<<NewMapping(v, slot, c, d)>>)]), None)
  PROVE  Begins(w, {op}, {14}, {}, {})
  <1>1. c \in OrNone(Camera) /\ d \in OrNone(Device)
    BY DEF OrNone, Rows
  <1>2. PICK row : row = NewMapping(v, slot, c, d)
    OBVIOUS
  <1>3. \A m \in Mapping : IsRow(m, row)
    BY <1>1, <1>2, NewMappingRow
  <1>4. <<row>> \in Seq({row}) /\ Len(<<row>>) = 1 /\ <<row>>[1] = row
    OBVIOUS
  <1>5. PICK tx, rows : rows = <<row>> /\ tx = Touching(LayoutOfScreen(db[v].screen),
          [NoWrites EXCEPT !.new = InsertingMappings(rows)])
    OBVIOUS
  <1>6. /\ DOMAIN tx = Fields /\ tx.new = InsertingMappings(rows)
        /\ DOMAIN tx.set = {} /\ DOMAIN tx.bulk = {} /\ tx.del = {} /\ tx.purge = {}
    <2>1. PICK base : base = [NoWrites EXCEPT !.new = InsertingMappings(rows)]
      OBVIOUS
    <2>2. /\ DOMAIN base = Fields /\ base.new = InsertingMappings(rows)
          /\ base.set = NoWrites.set /\ base.bulk = NoWrites.bulk
          /\ base.del = NoWrites.del /\ base.purge = NoWrites.purge
      BY <2>1, Transactions DEF Fields
    <2>3. tx = Touching(LayoutOfScreen(db[v].screen), base)
      BY <1>5, <2>1
    <2>4. /\ DOMAIN tx = Fields /\ tx.new = base.new /\ tx.set = base.set
          /\ tx.bulk = base.bulk /\ tx.del = base.del /\ tx.purge = base.purge
      BY <2>2, <2>3, Stamped
    <2> QED BY <2>2, <2>4, Transactions
  <1>7. Within([tx EXCEPT !.new = <<>>], {}, {}, {})
    BY <1>6 DEF Within, Fields
  <1>8. AcceptedDrawing(w, op, tx, None)
    BY <1>2, <1>5
  <1>9. /\ \A n \in 1..Len(rows) : \A m \in Mapping : IsRow(m, rows[n])
        /\ rows \in Seq({row})
    BY <1>3, <1>4, <1>5
  <1> QED BY <1>6, <1>7, <1>8, <1>9, Drawing

\* A new mapping is a row of its view and screen.
LEMMA CreateMappingBegins ==
  ASSUME TablesInv, NEW w \in Worker, CreateMapping(w)
  PROVE  Begins(w, {"mapping.created"}, {14}, {}, {})
  BY OneMapping DEF CreateMapping

\* What a mapping is set to.
LEMMA MappingColumns ==
  ASSUME NEW m \in Rows(Mapping), NEW body, DOMAIN body \subseteq {"camera", "device"},
         "camera" \in DOMAIN body => body["camera"] \in OrNone(Camera),
         "device" \in DOMAIN body => body["device"] \in OrNone(Device)
  PROVE  /\ Fits(RowType(m), Changed(m, body))
         /\ DOMAIN Changed(m, body) \subseteq {"camera", "device"}
         /\ TableNumber(m) = 14
  <1>1. /\ {"camera", "device"} \subseteq DOMAIN MappingRow
        /\ MappingRow["camera"] = OrNone(Camera) /\ MappingRow["device"] = OrNone(Device)
    BY DEF MappingRow
  <1>2. RowType(m) = MappingRow /\ TableNumber(m) = 14
    BY OneTable, RowTypes DEF Rows
  <1>3. Fits(MappingRow, body)
    BY <1>1 DEF Fits
  <1>4. /\ DOMAIN Changed(m, body) \subseteq DOMAIN body
        /\ \A c \in DOMAIN Changed(m, body) : Changed(m, body)[c] = body[c]
    BY DEF Changed
  <1> QED BY <1>2, <1>3, <1>4 DEF Fits

\* An edit of a mapping writes its camera, its device or both.
LEMMA UpdateMappingBegins ==
  ASSUME TablesInv, NEW w \in Worker, UpdateMapping(w)
  PROVE  Begins(w, {"mapping.updated"}, {}, {14} \X {"camera", "device"}, {})
  <1>1. PICK m \in Rows(Mapping), body \in MappingBody :
          Accepted(w, "mapping.updated",
            Touching(LayoutOfScreen(db[m].screen), Setting(m, Changed(m, body))))
    BY DEF UpdateMapping
  <1>2. PICK l, columns : l = LayoutOfScreen(db[m].screen) /\ columns = Changed(m, body)
    OBVIOUS
  <1>3. /\ DOMAIN body \subseteq {"camera", "device"}
        /\ "camera" \in DOMAIN body => body["camera"] \in OrNone(Camera)
        /\ "device" \in DOMAIN body => body["device"] \in OrNone(Device)
    BY WallBodies DEF Fits, MappingRow
  <1>4. /\ Fits(RowType(m), columns) /\ TableNumber(m) = 14
        /\ DOMAIN columns \subseteq {"camera", "device"}
    BY <1>2, <1>3, MappingColumns
  <1>5. Accepted(w, "mapping.updated", Touching(l, Setting(m, columns)))
    BY <1>1, <1>2
  <1> QED BY <1>4, <1>5, Writing

\* One mapping is deleted.
LEMMA DeleteMappingBegins ==
  ASSUME TablesInv, NEW w \in Worker, DeleteMapping(w)
  PROVE  Begins(w, {"mapping.deleted"}, {}, {}, {14})
  <1>1. PICK m \in Rows(Mapping) :
          Accepted(w, "mapping.deleted", Touching(LayoutOfScreen(db[m].screen), Deleting(m)))
    BY DEF DeleteMapping
  <1>2. PICK l : l = LayoutOfScreen(db[m].screen)
    OBVIOUS
  <1>3. /\ Accepted(w, "mapping.deleted", Touching(l, Deleting(m)))
        /\ TableNumber(m) = 14
    BY <1>1, <1>2, OneTable DEF Rows
  <1> QED BY <1>3, Removing

\* A slot that is given a camera is an edited mapping or a new one.
LEMMA AssignCameraBegins ==
  ASSUME TablesInv, NEW w \in Worker, AssignCameraToSlot(w)
  PROVE  Begins(w, {"slot.assigned"}, {14}, {14} \X {"camera", "device"}, {})
  <1>1. PICK v \in Rows(ViewId), slot \in Slot, c \in Rows(Camera),
           d \in OrNone(Rows(Device)) :
          \/ AcceptedDrawing(w, "slot.assigned",
               Touching(LayoutOfScreen(db[v].screen),
                 [NoWrites EXCEPT !.new = InsertingMappings(<<NewMapping(v, slot, c, d)>>)]), None)
          \/ \E m \in AtSlot(v, slot) :
               Accepted(w, "slot.assigned",
                 Touching(LayoutOfScreen(db[v].screen),
                   Setting(m, Changed(m, [camera |-> c, device |-> d]))))
    BY DEF AssignCameraToSlot
  <1>2. CASE AcceptedDrawing(w, "slot.assigned",
               Touching(LayoutOfScreen(db[v].screen),
                 [NoWrites EXCEPT !.new = InsertingMappings(<<NewMapping(v, slot, c, d)>>)]), None)
    <2>1. c \in OrNone(Rows(Camera))
      BY DEF OrNone
    <2>2. Begins(w, {"slot.assigned"}, {14}, {}, {})
      BY <1>2, <2>1, OneMapping
    <2> QED BY <2>2 DEF Begins, Within
  <1>3. CASE \E m \in AtSlot(v, slot) :
               Accepted(w, "slot.assigned",
                 Touching(LayoutOfScreen(db[v].screen),
                   Setting(m, Changed(m, [camera |-> c, device |-> d]))))
    <2>1. PICK m \in AtSlot(v, slot) :
            Accepted(w, "slot.assigned",
              Touching(LayoutOfScreen(db[v].screen),
                Setting(m, Changed(m, [camera |-> c, device |-> d]))))
      BY <1>3
    <2>2. PICK body, l, columns :
            /\ body = [camera |-> c, device |-> d] /\ l = LayoutOfScreen(db[v].screen)
            /\ columns = Changed(m, body)
      OBVIOUS
    <2>5. d \in OrNone(Device)
      BY DEF OrNone, Rows
    <2>6. /\ DOMAIN body = {"camera", "device"} /\ body["camera"] \in OrNone(Camera)
          /\ body["device"] \in OrNone(Device) /\ m \in Rows(Mapping)
      BY <2>2, <2>5 DEF OrNone, Rows, AtSlot
    <2>7. /\ Fits(RowType(m), columns) /\ DOMAIN columns \subseteq {"camera", "device"}
          /\ TableNumber(m) = 14
      BY <2>2, <2>6, MappingColumns
    <2>8. Accepted(w, "slot.assigned", Touching(l, Setting(m, columns)))
      BY <2>1, <2>2
    <2>9. Begins(w, {"slot.assigned"}, {}, {14} \X {"camera", "device"}, {})
      BY <2>7, <2>8, Writing
    <2> QED BY <2>9 DEF Begins, Within
  <1> QED BY <1>1, <1>2, <1>3

\* A stream that starts or stops is one row of those being played.
LEMMA SetPlayingStateBegins ==
  ASSUME TablesInv, NEW w \in Worker, SetPlayingState(w)
  PROVE  Begins(w, {"mapping.playing"}, {}, {16} \X {"pc", "mapping", "playing"}, {})
  <1>1. PICK m \in Rows(Mapping), p \in Rows(Pc), b \in BOOLEAN :
          Accepted(w, "mapping.playing",
            [NoWrites EXCEPT !.bulk = Only(<<p, m>>, [pc |-> p, mapping |-> m, playing |-> b])])
    BY DEF SetPlayingState
  <1>2. PICK i, row, tx :
          /\ i = <<p, m>> /\ row = [pc |-> p, mapping |-> m, playing |-> b]
          /\ tx = [NoWrites EXCEPT !.bulk = Only(i, row)]
    OBVIOUS
  <1>3. /\ DOMAIN tx.bulk = {i} /\ tx.bulk[i] = row
        /\ DOMAIN tx.new = {} /\ DOMAIN tx.set = {} /\ tx.del = {} /\ tx.purge = {}
    BY <1>2 DEF NoWrites, Only
  <1>4. i \in Playing /\ i[1] = p /\ i[2] = m
    BY <1>2 DEF Rows, Playing
  <1>5. /\ IsFunction(row) /\ DOMAIN row = {"pc", "mapping", "playing"}
        /\ row["pc"] = p /\ row["mapping"] = m /\ row["playing"] \in BOOLEAN
    BY <1>2 DEF IsFunction
  <1>6. RowType(i) = PlayingRow(i) /\ TableNumber(i) = 16 /\ i \notin Mapping
    BY <1>4, OneTable, RowTypes
  <1>7. IsRow(i, row) /\ Fits(RowType(i), row)
    BY <1>4, <1>5, <1>6 DEF IsRow, Fits, PlayingRow
  <1>8. Typed(tx, serial) /\ Within(tx, {}, {16} \X {"pc", "mapping", "playing"}, {})
    BY <1>3, <1>4, <1>5, <1>6, <1>7 DEF Typed, TypedRows, Cautious, Within
  <1> QED BY <1>1, <1>2, <1>8, Single

-----------------------------------------------------------------------------
(* Replacing the slots of a view *)

There(v) == {m \in Rows(Mapping) : db[m].view = v}
Kept(v, target) == {m \in There(v) : db[m].slot \in DOMAIN target}
EmptySlots(v, target) == DOMAIN target \ {db[m].slot : m \in There(v)}
Wanted(target, m) == target[db[m].slot]
RowAt(v, target, slot) == NewMapping(v, slot, target[slot].camera, target[slot].device)

\* One row for each slot to fill.
LEMMA RowsForSlots ==
  ASSUME NEW v, NEW target, NEW slots, IsFiniteSet(slots)
  PROVE  LET rows == RowsFor(v, target, slots) IN
         /\ rows \in Seq({RowAt(v, target, slot) : slot \in slots})
         /\ \A slot \in slots : \E n \in 1..Len(rows) : rows[n] = RowAt(v, target, slot)
  <1> DEFINE S == {RowAt(v, target, slot) : slot \in slots}
  <1>1. PICK k : k = Cardinality(slots)
    OBVIOUS
  <1>2. k \in Nat /\ ExistsBijection(1..k, slots)
    BY <1>1, FS_CardinalityType
  <1>3. PICK order : order = CHOOSE o \in [1..k -> slots] :
                                \A i, j \in DOMAIN o : i # j => o[i] # o[j]
    OBVIOUS
  <1>4. order \in [1..k -> slots] /\ \A i, j \in DOMAIN order : i # j => order[i] # order[j]
    <2>1. PICK f \in Bijection(1..k, slots) : TRUE
      BY <1>2 DEF ExistsBijection
    <2>2. f \in [1..k -> slots] /\ \A i, j \in 1..k : f[i] = f[j] => i = j
      BY <2>1, Fun_IsBij, Fun_IsInj DEF Bijection, Injection, IsInjective
    <2>3. \E o \in [1..k -> slots] : \A i, j \in DOMAIN o : i # j => o[i] # o[j]
      <3>1. f \in [1..k -> slots] /\ \A i, j \in DOMAIN f : i # j => f[i] # f[j]
        BY <2>2
      <3> QED BY <3>1
    <2> QED BY <1>3, <2>3, Zenon
  <1>5. order \in Surjection(1..k, slots)
    <2>1. order \in Injection(1..k, slots)
      BY <1>4, Fun_IsInj
    <2>2. IsFiniteSet(1..k) /\ Cardinality(1..k) = k
      BY <1>2, FS_Interval
    <2> QED BY <1>1, <2>1, <2>2, FS_Injection
  <1>6. \A slot \in slots : \E n \in 1..k : order[n] = slot
    BY <1>5 DEF Surjection
  <1>7. PICK rows : rows = [i \in 1..k |-> RowAt(v, target, order[i])]
    OBVIOUS
  <1>8. rows = RowsFor(v, target, slots)
    BY <1>1, <1>3, <1>4, <1>7 DEF RowsFor, RowAt
  <1>9. rows \in [1..k -> S]
    BY <1>4, <1>7
  <1> HIDE DEF S
  <1>10. rows \in Seq(S)
    BY <1>2, <1>9, SeqDef
  <1>11. Len(rows) = k
    BY <1>2, <1>9, <1>10, LenProperties
  <1>12. \A slot \in slots : \E n \in 1..Len(rows) : rows[n] = RowAt(v, target, slot)
    BY <1>6, <1>7, <1>11
  <1> QED BY <1>8, <1>10, <1>12 DEF S

\* What replace_view_slots has read and is about to write.
SlotsWanted(tx, v, target, rows) ==
  /\ DOMAIN tx = Fields
  /\ tx.new = InsertingMappings(rows)
  /\ rows \in Seq({RowAt(v, target, slot) : slot \in EmptySlots(v, target)})
  /\ \A slot \in EmptySlots(v, target) :
       \E n \in 1..Len(rows) : rows[n] = RowAt(v, target, slot)
  /\ DOMAIN tx.set = {m \in Kept(v, target) : Changed(m, Wanted(target, m)) # <<>>}
  /\ \A m \in DOMAIN tx.set : tx.set[m] = Changed(m, Wanted(target, m))
  /\ tx.del = There(v) \ Kept(v, target)
  /\ DOMAIN tx.bulk = {} /\ tx.purge = {}
  /\ tx.touch = {LayoutOfScreen(db[v].screen)}

\* What replace_view_slots has computed when it flushes.
LEMMA SlotsRequest ==
  ASSUME TablesInv, NEW w \in Worker, ReplaceViewSlots(w)
  PROVE  \E v, target, tx, rows :
           /\ v \in Rows(ViewId) /\ target \in SlotsBody
           /\ \A slot \in DOMAIN target :
                /\ InGrid(slot, v) /\ target[slot].camera \in Rows(Camera)
                /\ CameraFitsScreen(target[slot].camera, db[v].screen)
           /\ AcceptedDrawing(w, "slots.replaced", tx, [view |-> v, slots |-> target])
           /\ SlotsWanted(tx, v, target, rows)
  <1>1. PICK v \in Rows(ViewId), target \in SlotsBody :
          /\ \A slot \in DOMAIN target : SlotAllowed(v, slot, target[slot])
          /\ AcceptedDrawing(w, "slots.replaced",
               Touching(LayoutOfScreen(db[v].screen),
                 [NoWrites EXCEPT
                    !.del = There(v) \ Kept(v, target),
                    !.set = [m \in {k \in Kept(v, target) : Changed(k, Wanted(target, k)) # <<>>} |->
                               Changed(m, Wanted(target, m))],
                    !.new = InsertingMappings(RowsFor(v, target, EmptySlots(v, target)))]),
               [view |-> v, slots |-> target])
    BY DEF ReplaceViewSlots, There, Kept, EmptySlots, Wanted
  <1>2. PICK rows : rows = RowsFor(v, target, EmptySlots(v, target))
    OBVIOUS
  <1>3. /\ rows \in Seq({RowAt(v, target, slot) : slot \in EmptySlots(v, target)})
        /\ \A slot \in EmptySlots(v, target) :
             \E n \in 1..Len(rows) : rows[n] = RowAt(v, target, slot)
    <2>1. IsFiniteSet(Slot)
      <3>1. IsFiniteSet(1..ViewSide)
        BY FS_Interval, TablesAssumption
      <3> QED BY <3>1, FS_Product DEF Slot, Grid
    <2>2. PICK slots : slots = EmptySlots(v, target)
      OBVIOUS
    <2>3. IsFiniteSet(slots)
      BY <2>1, <2>2, FS_Subset, WallBodies DEF EmptySlots
    <2> QED BY <1>2, <2>2, <2>3, RowsForSlots
  <1>4. PICK base :
          base = [NoWrites EXCEPT
                    !.del = There(v) \ Kept(v, target),
                    !.set = [m \in {k \in Kept(v, target) : Changed(k, Wanted(target, k)) # <<>>} |->
                               Changed(m, Wanted(target, m))],
                    !.new = InsertingMappings(rows)]
    OBVIOUS
  <1>5. /\ DOMAIN base = Fields
        /\ base.new = InsertingMappings(rows)
        /\ DOMAIN base.set = {m \in Kept(v, target) : Changed(m, Wanted(target, m)) # <<>>}
        /\ \A m \in DOMAIN base.set : base.set[m] = Changed(m, Wanted(target, m))
        /\ base.del = There(v) \ Kept(v, target)
        /\ base.bulk = NoWrites.bulk /\ base.purge = NoWrites.purge
    BY <1>4, Transactions DEF Fields
  <1>6. PICK tx : tx = Touching(LayoutOfScreen(db[v].screen), base)
    OBVIOUS
  <1>7. /\ DOMAIN tx = Fields /\ tx.touch = {LayoutOfScreen(db[v].screen)}
        /\ tx.new = base.new /\ tx.set = base.set /\ tx.bulk = base.bulk
        /\ tx.del = base.del /\ tx.purge = base.purge
    BY <1>5, <1>6, Stamped
  <1>8. SlotsWanted(tx, v, target, rows)
    BY <1>3, <1>5, <1>7, Transactions DEF SlotsWanted
  <1>9. AcceptedDrawing(w, "slots.replaced", tx, [view |-> v, slots |-> target])
    BY <1>1, <1>2, <1>4, <1>6
  <1>10. \A slot \in DOMAIN target :
           /\ InGrid(slot, v) /\ target[slot].camera \in Rows(Camera)
           /\ CameraFitsScreen(target[slot].camera, db[v].screen)
    BY <1>1, WallBodies DEF SlotAllowed, Rows, Exists
  <1> QED BY <1>1, <1>8, <1>9, <1>10

\* Replacing the slots of a view adds, edits and deletes mappings of it.
LEMMA ReplaceViewSlotsBegins ==
  ASSUME TablesInv, NEW w \in Worker, ReplaceViewSlots(w)
  PROVE  Begins(w, {"slots.replaced"}, {14}, {14} \X {"camera", "device"}, {14})
  <1>1. PICK v, target, tx, rows :
          /\ v \in Rows(ViewId) /\ target \in SlotsBody
          /\ AcceptedDrawing(w, "slots.replaced", tx, [view |-> v, slots |-> target])
          /\ SlotsWanted(tx, v, target, rows)
    BY SlotsRequest
  <1>2. PICK S : S = {RowAt(v, target, slot) : slot \in EmptySlots(v, target)}
    OBVIOUS
  <1>3. rows \in Seq(S)
    BY <1>1, <1>2 DEF SlotsWanted
  <1>4. \A slot \in DOMAIN target : target[slot] \in [camera : Camera, device : OrNone(Device)]
    BY <1>1, WallBodies
  <1>5. ASSUME NEW n \in 1..Len(rows), NEW m \in Mapping
        PROVE  IsRow(m, rows[n])
    <2>1. rows[n] \in S
      BY <1>3, ElementOfSeq
    <2>2. PICK slot \in EmptySlots(v, target) : rows[n] = RowAt(v, target, slot)
      BY <1>2, <2>1
    <2>3. slot \in DOMAIN target /\ slot \in Slot
      BY <1>1, <2>2, WallBodies DEF EmptySlots
    <2>4. target[slot].camera \in OrNone(Camera) /\ target[slot].device \in OrNone(Device)
      BY <1>4, <2>3 DEF OrNone
    <2>5. PICK c, d : c = target[slot].camera /\ d = target[slot].device
      OBVIOUS
    <2>6. IsRow(m, NewMapping(v, slot, c, d))
      BY <1>1, <2>3, <2>4, <2>5, NewMappingRow
    <2> QED BY <2>2, <2>5, <2>6 DEF RowAt
  <1>6. ASSUME NEW m \in DOMAIN tx.set
        PROVE  /\ Fits(RowType(m), tx.set[m])
               /\ DOMAIN tx.set[m] \subseteq {"camera", "device"} /\ TableNumber(m) = 14
    <2>1. m \in Kept(v, target) /\ tx.set[m] = Changed(m, Wanted(target, m))
      BY <1>1 DEF SlotsWanted
    <2>2. m \in Rows(Mapping) /\ db[m].slot \in DOMAIN target
      BY <2>1 DEF Kept, There
    <2>3. PICK body : body = Wanted(target, m)
      OBVIOUS
    <2>4. /\ DOMAIN body = {"camera", "device"}
          /\ body["camera"] \in OrNone(Camera) /\ body["device"] \in OrNone(Device)
      BY <1>4, <2>2, <2>3 DEF Wanted, OrNone
    <2> QED BY <2>1, <2>2, <2>3, <2>4, MappingColumns
  <1>7. \A m \in tx.del : TableNumber(m) = 14
    BY <1>1, OneTable DEF SlotsWanted, There, Rows
  <1>8. Within([tx EXCEPT !.new = <<>>], {}, {14} \X {"camera", "device"}, {14})
    <2>1. PICK rest : rest = [tx EXCEPT !.new = <<>>]
      OBVIOUS
    <2>2. /\ DOMAIN rest.new = {} /\ rest.set = tx.set /\ rest.bulk = tx.bulk
          /\ rest.del = tx.del /\ rest.purge = tx.purge
      BY <1>1, <2>1 DEF SlotsWanted, Fields
    <2>3. DOMAIN tx.bulk = {} /\ tx.purge = {}
      BY <1>1 DEF SlotsWanted
    <2>4. Within(rest, {}, {14} \X {"camera", "device"}, {14})
      BY <1>6, <1>7, <2>2, <2>3 DEF Within
    <2> QED BY <2>1, <2>4
  <1>9. /\ tx.new = InsertingMappings(rows) /\ tx.purge = {} /\ DOMAIN tx.bulk = {}
        /\ DOMAIN tx = Fields
    BY <1>1 DEF SlotsWanted
  <1>10. PICK arg : arg = [view |-> v, slots |-> target]
    OBVIOUS
  <1> QED BY <1>1, <1>3, <1>5, <1>6, <1>8, <1>9, <1>10, Drawing

-----------------------------------------------------------------------------
(* Teams, sites, devices and cameras *)

\* A row that a handler has read, column by column.
LEMMA RowRead ==
  ASSUME TablesInv
  PROVE  /\ \A c \in Rows(Camera) : db[c].device \in Device
         /\ \A d \in Rows(Device) : db[d].site \in Site
         /\ \A a \in Rows(Address) : db[a].camera \in Camera /\ db[a].active \in BOOLEAN
         /\ \A i \in Rows(SiteConfig) : db[i].site = i[1] /\ db[i].grid \in Grid(ScreenSide)
  <1>1. \A i \in DOMAIN db : IsRow(i, db[i])
    BY DEF TablesInv, TablesTypeOK
  <1>2. ASSUME NEW c \in Rows(Camera)
        PROVE  db[c].device \in Device
    BY <1>1, RowTypes DEF IsRow, Fits, CameraRow, Rows
  <1>3. ASSUME NEW d \in Rows(Device)
        PROVE  db[d].site \in Site
    BY <1>1, RowTypes DEF IsRow, Fits, DeviceRow, Rows
  <1>4. ASSUME NEW a \in Rows(Address)
        PROVE  db[a].camera \in Camera /\ db[a].active \in BOOLEAN
    BY <1>1, RowTypes DEF IsRow, Fits, AddressRow, Rows
  <1>5. ASSUME NEW i \in Rows(SiteConfig)
        PROVE  db[i].site = i[1] /\ db[i].grid \in Grid(ScreenSide)
    BY <1>1, RowTypes DEF IsRow, Fits, SiteConfigRow, Rows
  <1> QED BY <1>2, <1>3, <1>4, <1>5

\* The rows that the requests below make, and the columns they write.
LEMMA AssetRows ==
  /\ \A i \in Team \cup Site \cup Category : IsRow(i, Plain)
  /\ \A d \in Device, s \in Site :
       /\ IsRow(d, [site |-> s])
       /\ Fits(RowType(d), Changed(d, [site |-> s]))
       /\ DOMAIN Changed(d, [site |-> s]) \subseteq {"site"}
  /\ \A c \in Camera, d \in Device, b \in BOOLEAN : IsRow(c, [device |-> d, new |-> b])
  /\ \A c \in Camera, d \in Device :
       /\ Fits(RowType(c), Changed(c, [device |-> d]))
       /\ DOMAIN Changed(c, [device |-> d]) \subseteq {"device"}
  /\ \A c \in Camera, b \in BOOLEAN :
       /\ Fits(RowType(c), Changed(c, [new |-> b]))
       /\ DOMAIN Changed(c, [new |-> b]) \subseteq {"new"}
  /\ \A a \in Address, c \in Camera, b \in BOOLEAN :
       /\ IsRow(a, [camera |-> c, active |-> TRUE, quarantined |-> FALSE])
       /\ Fits(RowType(a), [active |-> b]) /\ Fits(RowType(a), [quarantined |-> b])
  /\ \A i \in Membership : IsRow(i, [site |-> i[1], team |-> i[2]])
  /\ \A i \in SiteCategory : IsRow(i, [site |-> i[1], category |-> i[2]])
  <1>1. \A i \in Team \cup Site \cup Category : IsRow(i, Plain)
    <2>1. IsFunction(Plain) /\ DOMAIN Plain = {"stored"} /\ Plain["stored"] = TRUE
      BY DEF Plain, IsFunction
    <2>2. DOMAIN PlainRow = {"stored"} /\ TRUE \in PlainRow["stored"]
      BY DEF PlainRow
    <2> QED BY <2>1, <2>2, RowTypes DEF IsRow, Fits
  <1>2. ASSUME NEW d \in Device, NEW s \in Site
        PROVE  /\ IsRow(d, [site |-> s])
               /\ Fits(RowType(d), Changed(d, [site |-> s]))
               /\ DOMAIN Changed(d, [site |-> s]) \subseteq {"site"}
    BY RowTypes DEF IsRow, IsFunction, Fits, DeviceRow, Changed
  <1>3. /\ \A c \in Camera, d \in Device, b \in BOOLEAN : IsRow(c, [device |-> d, new |-> b])
        /\ \A c \in Camera, d \in Device :
             /\ Fits(RowType(c), Changed(c, [device |-> d]))
             /\ DOMAIN Changed(c, [device |-> d]) \subseteq {"device"}
        /\ \A c \in Camera, b \in BOOLEAN :
             /\ Fits(RowType(c), Changed(c, [new |-> b]))
             /\ DOMAIN Changed(c, [new |-> b]) \subseteq {"new"}
    <2>1. \A c \in Camera : RowType(c) = CameraRow
      BY RowTypes
    <2>2. ASSUME NEW c \in Camera, NEW d \in Device, NEW b \in BOOLEAN
          PROVE  IsRow(c, [device |-> d, new |-> b])
      BY <2>1 DEF IsRow, IsFunction, Fits, CameraRow
    <2>3. ASSUME NEW c \in Camera, NEW d \in Device
          PROVE  /\ Fits(RowType(c), Changed(c, [device |-> d]))
                 /\ DOMAIN Changed(c, [device |-> d]) \subseteq {"device"}
      BY <2>1 DEF Fits, CameraRow, Changed
    <2>4. ASSUME NEW c \in Camera, NEW b \in BOOLEAN
          PROVE  /\ Fits(RowType(c), Changed(c, [new |-> b]))
                 /\ DOMAIN Changed(c, [new |-> b]) \subseteq {"new"}
      BY <2>1 DEF Fits, CameraRow, Changed
    <2> QED BY <2>2, <2>3, <2>4
  <1>4. ASSUME NEW a \in Address, NEW c \in Camera, NEW b \in BOOLEAN
        PROVE  /\ IsRow(a, [camera |-> c, active |-> TRUE, quarantined |-> FALSE])
               /\ Fits(RowType(a), [active |-> b]) /\ Fits(RowType(a), [quarantined |-> b])
    <2>1. RowType(a) = AddressRow
      BY RowTypes
    <2>2. /\ DOMAIN AddressRow = {"camera", "active", "quarantined"}
          /\ AddressRow["camera"] = Camera /\ AddressRow["active"] = BOOLEAN
          /\ AddressRow["quarantined"] = BOOLEAN
      BY DEF AddressRow
    <2>3. PICK row : row = [camera |-> c, active |-> TRUE, quarantined |-> FALSE]
      OBVIOUS
    <2>4. /\ IsFunction(row) /\ DOMAIN row = {"camera", "active", "quarantined"}
          /\ row["camera"] = c /\ row["active"] = TRUE /\ row["quarantined"] = FALSE
      BY <2>3 DEF IsFunction
    <2>5. IsRow(a, row)
      BY <2>1, <2>2, <2>4 DEF IsRow, Fits
    <2>6. Fits(RowType(a), [active |-> b]) /\ Fits(RowType(a), [quarantined |-> b])
      BY <2>1, <2>2 DEF Fits
    <2> QED BY <2>3, <2>5, <2>6
  <1>5. ASSUME NEW i \in Membership
        PROVE  IsRow(i, [site |-> i[1], team |-> i[2]])
    BY RowTypes DEF IsRow, IsFunction, Fits, MembershipRow
  <1>6. ASSUME NEW i \in SiteCategory
        PROVE  IsRow(i, [site |-> i[1], category |-> i[2]])
    BY RowTypes DEF IsRow, IsFunction, Fits, SiteCategoryRow
  <1> QED BY <1>1, <1>2, <1>3, <1>4, <1>5, <1>6

\* A new team is a plain row.
LEMMA CreateTeamBegins ==
  ASSUME TablesInv, NEW w \in Worker, CreateTeam(w)
  PROVE  Begins(w, {"team.created"}, {1}, {}, {})
  <1>1. PICK t \in Team : Accepted(w, "team.created", Inserting(t, Plain))
    BY DEF CreateTeam, FreshIn
  <1>2. IsRow(t, Plain) /\ TableNumber(t) = 1 /\ t \notin Mapping
    BY AssetRows, OneTable
  <1> QED BY <1>1, <1>2, Adding

\* A team is deleted with what cascades from it.
LEMMA DeleteTeamBegins ==
  ASSUME TablesInv, NEW w \in Worker, DeleteTeam(w)
  PROVE  Begins(w, {"team.deleted"}, {}, {}, {1})
  <1>1. PICK t \in Rows(Team) : Accepted(w, "team.deleted", Deleting(t))
    BY DEF DeleteTeam
  <1>2. TableNumber(t) = 1
    BY OneTable DEF Rows
  <1> QED BY <1>1, <1>2, Removing

\* Sites that a team takes become memberships.
LEMMA AssignSitesBegins ==
  ASSUME TablesInv, NEW w \in Worker, AssignSites(w)
  PROVE  Begins(w, {"team.sites_assigned"}, {}, {7} \X {"site", "team"}, {})
  <1>1. PICK t \in Rows(Team), S \in SUBSET Rows(Site) :
          Accepted(w, "team.sites_assigned",
            [NoWrites EXCEPT !.bulk =
               [i \in FreshIn(S \X {t}) |-> [site |-> i[1], team |-> i[2]]]])
    BY DEF AssignSites
  <1>2. PICK P, tx : /\ P = FreshIn(S \X {t})
                     /\ tx = [NoWrites EXCEPT !.bulk = [i \in P |-> [site |-> i[1], team |-> i[2]]]]
    OBVIOUS
  <1>3. /\ DOMAIN tx.bulk = P /\ (\A i \in P : tx.bulk[i] = [site |-> i[1], team |-> i[2]])
        /\ DOMAIN tx.new = {} /\ DOMAIN tx.set = {} /\ tx.del = {} /\ tx.purge = {}
    BY <1>2 DEF NoWrites
  <1>4. P \subseteq Membership
    BY <1>2 DEF FreshIn, Rows, Membership
  <1>5. \A i \in P : /\ TableNumber(i) = 7 /\ i \notin Mapping
                     /\ IsRow(i, [site |-> i[1], team |-> i[2]])
    <2>1. ASSUME NEW i \in P
          PROVE  IsRow(i, [site |-> i[1], team |-> i[2]])
      BY <1>4, AssetRows
    <2>2. \A i \in P : TableNumber(i) = 7 /\ i \notin Mapping
      BY <1>4, OneTable
    <2> QED BY <2>1, <2>2, Zenon
  <1>6. Typed(tx, serial) /\ Within(tx, {}, {7} \X {"site", "team"}, {})
    BY <1>3, <1>4, <1>5 DEF Typed, TypedRows, Cautious, Within, IsRow
  <1> QED BY <1>1, <1>2, <1>6, Single

\* A site that a team loses is a membership deleted.
LEMMA UnassignSiteBegins ==
  ASSUME TablesInv, NEW w \in Worker, UnassignSite(w)
  PROVE  Begins(w, {"team.site_unassigned"}, {}, {}, {7})
  <1>1. PICK i \in Rows(Membership) :
          Accepted(w, "team.site_unassigned", [NoWrites EXCEPT !.purge = {i}])
    BY DEF UnassignSite
  <1>2. PICK tx : tx = [NoWrites EXCEPT !.purge = {i}]
    OBVIOUS
  <1>3. /\ tx.purge = {i} /\ tx.del = {}
        /\ DOMAIN tx.new = {} /\ DOMAIN tx.set = {} /\ DOMAIN tx.bulk = {}
    BY <1>2 DEF NoWrites
  <1>4. i \in Membership /\ TableNumber(i) = 7
    BY OneTable DEF Rows
  <1>5. Typed(tx, serial) /\ Within(tx, {}, {}, {7})
    BY <1>3, <1>4 DEF Typed, TypedRows, Cautious, Within, Purged
  <1> QED BY <1>1, <1>2, <1>5, Single

\* A new site comes with its memberships.
LEMMA CreateSiteBegins ==
  ASSUME TablesInv, NEW w \in Worker, CreateSite(w)
  PROVE  Begins(w, {"site.created"}, {2, 7}, {}, {})
  <1>1. PICK s \in Site, T \in SUBSET Rows(Team) :
          Accepted(w, "site.created",
            [NoWrites EXCEPT !.new =
               Only(s, Plain) ++ [i \in {s} \X T |-> [site |-> i[1], team |-> i[2]]]])
    BY DEF CreateSite, FreshIn
  <1>2. PICK new, tx :
          /\ new = Only(s, Plain) ++ [i \in {s} \X T |-> [site |-> i[1], team |-> i[2]]]
          /\ tx = [NoWrites EXCEPT !.new = new]
    OBVIOUS
  <1>3. /\ DOMAIN new = {s} \cup ({s} \X T)
        /\ new[s] = Plain
        /\ \A i \in ({s} \X T) \ {s} : new[i] = [site |-> i[1], team |-> i[2]]
    BY <1>2 DEF ++, Only
  <1>4. /\ tx.new = new
        /\ DOMAIN tx.set = {} /\ DOMAIN tx.bulk = {} /\ tx.del = {} /\ tx.purge = {}
    BY <1>2 DEF NoWrites
  <1>5. {s} \X T \subseteq Membership
    BY DEF Rows, Membership
  <1>6. \A i \in DOMAIN new :
          IsRow(i, new[i]) /\ TableNumber(i) \in {2, 7} /\ i \notin Mapping
    <2>1. IsRow(s, Plain) /\ TableNumber(s) = 2 /\ s \notin Mapping
      BY AssetRows, OneTable
    <2>2. \A i \in {s} \X T : /\ TableNumber(i) = 7 /\ i \notin Mapping
                              /\ IsRow(i, [site |-> i[1], team |-> i[2]])
      BY <1>5, AssetRows, OneTable
    <2> QED BY <1>3, <2>1, <2>2
  <1>7. Typed(tx, serial) /\ Within(tx, {2, 7}, {}, {})
    BY <1>4, <1>6 DEF Typed, TypedRows, Cautious, Within
  <1> QED BY <1>1, <1>2, <1>7, Single

\* A site is deleted with what cascades from it.
LEMMA DeleteSiteBegins ==
  ASSUME TablesInv, NEW w \in Worker, DeleteSite(w)
  PROVE  Begins(w, {"site.deleted"}, {}, {}, {2})
  <1>1. PICK s \in Rows(Site) : Accepted(w, "site.deleted", Deleting(s))
    BY DEF DeleteSite
  <1>2. TableNumber(s) = 2
    BY OneTable DEF Rows
  <1> QED BY <1>1, <1>2, Removing

\* A new device is a row of its site.
LEMMA CreateDeviceBegins ==
  ASSUME TablesInv, NEW w \in Worker, CreateDevice(w)
  PROVE  Begins(w, {"device.created"}, {4}, {}, {})
  <1>1. PICK d \in Device, s \in Site :
          Accepted(w, "device.created", Inserting(d, [site |-> s]))
    BY DEF CreateDevice, FreshIn, Rows
  <1>2. IsRow(d, [site |-> s]) /\ TableNumber(d) = 4 /\ d \notin Mapping
    BY AssetRows, OneTable
  <1> QED BY <1>1, <1>2, Adding

\* A device that moves gets the id of another site.
LEMMA MoveDeviceBegins ==
  ASSUME TablesInv, NEW w \in Worker, MoveDevice(w)
  PROVE  Begins(w, {"device.moved"}, {}, {<<4, "site">>}, {})
  <1>1. PICK d \in Device, s \in Site :
          Accepted(w, "device.moved", Setting(d, Changed(d, [site |-> s])))
    BY DEF MoveDevice, Rows
  <1>2. PICK columns : columns = Changed(d, [site |-> s])
    OBVIOUS
  <1>3. Fits(RowType(d), columns) /\ DOMAIN columns \subseteq {"site"} /\ TableNumber(d) = 4
    BY <1>2, AssetRows, OneTable
  <1>4. Begins(w, {"device.moved"}, {}, {4} \X {"site"}, {})
    BY <1>1, <1>2, <1>3, Writing
  <1> QED BY <1>4

\* A device is deleted with what cascades from it.
LEMMA DeleteDeviceBegins ==
  ASSUME TablesInv, NEW w \in Worker, DeleteDevice(w)
  PROVE  Begins(w, {"device.deleted"}, {}, {}, {4})
  <1>1. PICK d \in Rows(Device) : Accepted(w, "device.deleted", Deleting(d))
    BY DEF DeleteDevice
  <1>2. TableNumber(d) = 4
    BY OneTable DEF Rows
  <1> QED BY <1>1, <1>2, Removing

\* A new camera is a row of its device, and is owed an address.
LEMMA CreateCameraBegins ==
  ASSUME TablesInv, NEW w \in Worker, CreateCamera(w)
  PROVE  Begins(w, {"camera.created"}, {5}, {}, {})
  <1>1. PICK c \in Camera, d \in Device, b \in BOOLEAN :
          /\ AcceptedThen(w, "camera.created", Inserting(c, [device |-> d, new |-> b]),
                          "address.provisioned", c)
          /\ serial' = serial
    BY DEF CreateCamera, FreshIn, Rows
  <1>2. PICK row, tx : row = [device |-> d, new |-> b] /\ tx = Inserting(c, row)
    OBVIOUS
  <1>3. IsRow(c, row) /\ TableNumber(c) = 5 /\ c \notin Mapping
    BY <1>2, AssetRows, OneTable
  <1>4. /\ DOMAIN tx.new = {c} /\ tx.new[c] = row
        /\ DOMAIN tx.set = {} /\ DOMAIN tx.bulk = {} /\ tx.del = {} /\ tx.purge = {}
    BY <1>2, Transactions
  <1>5. Typed(tx, serial') /\ Within(tx, {5}, {}, {})
    BY <1>3, <1>4 DEF Typed, TypedRows, Cautious, Within
  <1>6. Remembers("camera.created", "address.provisioned", c)
    BY DEF Remembers
  <1>7. serial' \in serial..MaxMapping
    BY <1>1, TablesAssumption DEF TablesInv, TablesTypeOK
  <1> QED BY <1>1, <1>2, <1>5, <1>6, <1>7, Starting DEF Chained

\* A camera that moves gets the id of another device.
LEMMA MoveCameraBegins ==
  ASSUME TablesInv, NEW w \in Worker, MoveCamera(w)
  PROVE  Begins(w, {"camera.moved"}, {}, {<<5, "device">>}, {})
  <1>1. PICK c \in Camera, d \in Device :
          Accepted(w, "camera.moved", Setting(c, Changed(c, [device |-> d])))
    BY DEF MoveCamera, Rows
  <1>2. PICK columns : columns = Changed(c, [device |-> d])
    OBVIOUS
  <1>3. Fits(RowType(c), columns) /\ DOMAIN columns \subseteq {"device"} /\ TableNumber(c) = 5
    BY <1>2, AssetRows, OneTable
  <1>4. Begins(w, {"camera.moved"}, {}, {5} \X {"device"}, {})
    BY <1>1, <1>2, <1>3, Writing
  <1> QED BY <1>4

\* A camera is deleted with what cascades from it.
LEMMA DeleteCameraBegins ==
  ASSUME TablesInv, NEW w \in Worker, DeleteCamera(w)
  PROVE  Begins(w, {"camera.deleted"}, {}, {}, {5})
  <1>1. PICK c \in Rows(Camera) : Accepted(w, "camera.deleted", Deleting(c))
    BY DEF DeleteCamera
  <1>2. TableNumber(c) = 5
    BY OneTable DEF Rows
  <1> QED BY <1>1, <1>2, Removing

\* The flag of a camera is one column.
LEMMA FlagCameraBegins ==
  ASSUME TablesInv, NEW w \in Worker, FlagCamera(w)
  PROVE  Begins(w, {"camera.flagged"}, {}, {<<5, "new">>}, {})
  <1>1. PICK c \in Camera, b \in BOOLEAN :
          Accepted(w, "camera.flagged", Setting(c, Changed(c, [new |-> b])))
    BY DEF FlagCamera, Rows
  <1>2. PICK columns : columns = Changed(c, [new |-> b])
    OBVIOUS
  <1>3. Fits(RowType(c), columns) /\ DOMAIN columns \subseteq {"new"} /\ TableNumber(c) = 5
    BY <1>2, AssetRows, OneTable
  <1>4. Begins(w, {"camera.flagged"}, {}, {5} \X {"new"}, {})
    BY <1>1, <1>2, <1>3, Writing
  <1> QED BY <1>4

-----------------------------------------------------------------------------
(* Alert addresses *)

\* The row that _provision_address makes.
LEMMA ProvisioningRow ==
  ASSUME NEW a \in Address, NEW c \in Camera
  PROVE  LET row == [camera |-> c, active |-> TRUE, quarantined |-> FALSE] IN
         /\ Provisioning(a, c) = Inserting(a, row)
         /\ IsRow(a, row) /\ TableNumber(a) = 6 /\ a \notin Mapping
  <1>1. IsRow(a, [camera |-> c, active |-> TRUE, quarantined |-> FALSE])
    BY AssetRows
  <1> QED BY <1>1, OneTable DEF Provisioning

\* A new address is a row of its camera.
LEMMA CreateAddressBegins ==
  ASSUME TablesInv, NEW w \in Worker, CreateAddress(w)
  PROVE  Begins(w, {"address.created"}, {6}, {}, {})
  <1>1. PICK c \in Camera, a \in Address : Accepted(w, "address.created", Provisioning(a, c))
    BY DEF CreateAddress, FreshIn, Rows
  <1> QED BY <1>1, ProvisioningRow, Adding

\* The second transaction of a request makes the address.
LEMMA ProvisionAddressBegins ==
  ASSUME TablesInv, NEW w \in Worker, ProvisionAddress(w)
  PROVE  Begins(w, {"address.provisioned"}, {6}, {}, {})
  <1>1. /\ job[w] # Idle /\ job[w].op = "address.provisioned" /\ JobTyped(job[w])
    BY DEF ProvisionAddress, At, TablesInv
  <1>2. PICK c : c = job[w].arg
    OBVIOUS
  <1>3. c \in Camera
    BY <1>1, <1>2 DEF JobTyped, Remembers
  <1>4. PICK a \in Address : /\ Continues(w, Provisioning(a, c), None, c)
                             /\ serial' = serial
    BY <1>2 DEF ProvisionAddress, FreshIn
  <1>5. PICK row, tx : /\ row = [camera |-> c, active |-> TRUE, quarantined |-> FALSE]
                       /\ tx = Provisioning(a, c)
    OBVIOUS
  <1>6. tx = Inserting(a, row) /\ IsRow(a, row) /\ TableNumber(a) = 6 /\ a \notin Mapping
    BY <1>3, <1>5, ProvisioningRow
  <1>7. /\ DOMAIN tx.new = {a} /\ tx.new[a] = row
        /\ DOMAIN tx.set = {} /\ DOMAIN tx.bulk = {} /\ tx.del = {} /\ tx.purge = {}
    BY <1>6, Transactions
  <1>8. Typed(tx, serial') /\ Within(tx, {6}, {}, {})
    BY <1>6, <1>7 DEF Typed, TypedRows, Cautious, Within
  <1>9. PICK j : j = [job[w] EXCEPT !.tx = tx, !.then = None, !.arg = c]
    OBVIOUS
  <1>10. /\ DOMAIN j = {"op", "tx", "then", "arg", "alone"}
         /\ j.op = job[w].op /\ j.tx = tx /\ j.then = None /\ j.arg = c
         /\ j.alone = job[w].alone
    BY <1>1, <1>9 DEF JobTyped
  <1>11. job' = [job EXCEPT ![w] = j] /\ db' = db /\ requests' = requests
    BY <1>4, <1>5, <1>9 DEF Continues
  <1>12. Remembers(j.op, j.then, j.arg) /\ j.alone \in BOOLEAN
    BY <1>1, <1>3, <1>10 DEF Remembers, JobTyped
  <1>13. serial' \in serial..MaxMapping /\ requests' \in 0..MaxRequests
    BY <1>4, <1>11, TablesAssumption DEF TablesInv, TablesTypeOK
  <1> QED BY <1>1, <1>2, <1>8, <1>10, <1>11, <1>12, <1>13 DEF Begins

\* Setting a flag of an address.
LEMMA FlagAddress ==
  ASSUME TablesInv, NEW w \in Worker, NEW op, NEW a \in Address, NEW columns, NEW flag,
         op \notin {"address.provisioned", "site.populating"},
         Fits(RowType(a), columns), DOMAIN columns = {flag},
         Accepted(w, op, Setting(a, columns))
  PROVE  Begins(w, {op}, {}, {<<6, flag>>}, {})
  <1>1. TableNumber(a) = 6
    BY OneTable
  <1>2. Begins(w, {op}, {}, {6} \X {flag}, {})
    BY <1>1, Writing
  <1> QED BY <1>2

\* An address that is revoked loses its active flag.
LEMMA RevokeAddressBegins ==
  ASSUME TablesInv, NEW w \in Worker, RevokeAddress(w)
  PROVE  Begins(w, {"address.revoked"}, {}, {<<6, "active">>}, {})
  <1>1. PICK a \in Address : Accepted(w, "address.revoked", Setting(a, [active |-> FALSE]))
    BY DEF RevokeAddress, Rows
  <1>2. PICK columns : columns = [active |-> FALSE]
    OBVIOUS
  <1>3. DOMAIN columns = {"active"} /\ columns["active"] \in BOOLEAN
    BY <1>2
  <1>4. Fits(RowType(a), columns)
    <2>1. RowType(a) = AddressRow
      BY RowTypes
    <2> QED BY <1>3, <2>1 DEF Fits, AddressRow
  <1> QED BY <1>1, <1>2, <1>3, <1>4, FlagAddress

\* The quarantine of an address is one column.
LEMMA QuarantineAddressBegins ==
  ASSUME TablesInv, NEW w \in Worker, QuarantineAddress(w)
  PROVE  Begins(w, {"address.quarantined"}, {}, {<<6, "quarantined">>}, {})
  <1>1. PICK a \in Address, b \in BOOLEAN :
          Accepted(w, "address.quarantined", Setting(a, [quarantined |-> b]))
    BY DEF QuarantineAddress, Rows
  <1>2. PICK columns : columns = [quarantined |-> b]
    OBVIOUS
  <1>3. DOMAIN columns = {"quarantined"} /\ columns["quarantined"] \in BOOLEAN
    BY <1>2
  <1>4. Fits(RowType(a), columns)
    <2>1. RowType(a) = AddressRow
      BY RowTypes
    <2> QED BY <1>3, <2>1 DEF Fits, AddressRow
  <1> QED BY <1>1, <1>2, <1>3, <1>4, FlagAddress

\* A rotation writes the old address and inserts a new one.
LEMMA RotateAddressBegins ==
  ASSUME TablesInv, NEW w \in Worker, RotateAddress(w)
  PROVE  \/ Begins(w, {"address.revoked"}, {}, {<<6, "active">>}, {})
         \/ Begins(w, {"address.reissued"}, {6}, {}, {})
  <1>1. PICK a \in Rows(Address) :
          \/ /\ AcceptedThen(w, "address.revoked", Setting(a, [active |-> FALSE]),
                             "address.provisioned", db[a].camera)
             /\ serial' = serial
          \/ \E new \in Address :
               Accepted(w, "address.reissued", Provisioning(new, db[a].camera))
    BY DEF RotateAddress, FreshIn
  <1>2. PICK c : c = db[a].camera
    OBVIOUS
  <1>3. c \in Camera /\ a \in Address
    BY <1>2, RowRead DEF Rows
  <1>4. CASE \E new \in Address : Accepted(w, "address.reissued", Provisioning(new, c))
    <2>1. PICK new \in Address : Accepted(w, "address.reissued", Provisioning(new, c))
      BY <1>4
    <2>2. Begins(w, {"address.reissued"}, {6}, {}, {})
      BY <1>3, <2>1, ProvisioningRow, Adding
    <2> QED BY <2>2
  <1>5. CASE /\ AcceptedThen(w, "address.revoked", Setting(a, [active |-> FALSE]),
                             "address.provisioned", c)
             /\ serial' = serial
    <2>1. PICK columns, tx : columns = [active |-> FALSE] /\ tx = Setting(a, columns)
      OBVIOUS
    <2>2. Fits(RowType(a), columns) /\ DOMAIN columns = {"active"} /\ TableNumber(a) = 6
      <3>1. RowType(a) = AddressRow
        BY <1>3, RowTypes
      <3>2. DOMAIN columns = {"active"} /\ columns["active"] \in BOOLEAN
        BY <2>1
      <3>3. Fits(AddressRow, columns)
        BY <3>2 DEF Fits, AddressRow
      <3> QED BY <1>3, <3>1, <3>2, <3>3, OneTable
    <2>3. /\ DOMAIN tx.set = {a} /\ tx.set[a] = columns
          /\ DOMAIN tx.new = {} /\ DOMAIN tx.bulk = {} /\ tx.del = {} /\ tx.purge = {}
      BY <2>1, Transactions
    <2>4. Typed(tx, serial') /\ Within(tx, {}, {<<6, "active">>}, {})
      BY <2>2, <2>3 DEF Typed, TypedRows, Cautious, Within
    <2>5. Remembers("address.revoked", "address.provisioned", c)
      BY <1>3 DEF Remembers
    <2>6. serial' \in serial..MaxMapping
      BY <1>5, TablesAssumption DEF TablesInv, TablesTypeOK
    <2>7. Begins(w, {"address.revoked"}, {}, {<<6, "active">>}, {})
      BY <1>5, <2>1, <2>4, <2>5, <2>6, Starting DEF Chained
    <2> QED BY <2>7
  <1> QED BY <1>1, <1>2, <1>4, <1>5

-----------------------------------------------------------------------------
(* Categories *)

\* A new category is a plain row.
LEMMA CreateCategoryBegins ==
  ASSUME TablesInv, NEW w \in Worker, CreateCategory(w)
  PROVE  Begins(w, {"category.created"}, {3}, {}, {})
  <1>1. PICK k \in Category : Accepted(w, "category.created", Inserting(k, Plain))
    BY DEF CreateCategory, FreshIn
  <1>2. IsRow(k, Plain) /\ TableNumber(k) = 3 /\ k \notin Mapping
    BY AssetRows, OneTable
  <1> QED BY <1>1, <1>2, Adding

CategoryRequest(w) ==
  \/ AssignCategory(w) \/ BulkAssignCategories(w) \/ UnassignCategory(w)
  \/ RemoveAllCategories(w) \/ DeleteCategory(w)

CategoryOps ==
  {"category.assigned", "category.set", "category.unassigned", "category.cleared",
   "category.deleted", "category.forced"}

\* What requests on categories write and remove.
CategoriesOnly(tx) ==
  /\ \A i \in DOMAIN tx.new :
       i \in SiteCategory /\ tx.new[i] = [site |-> i[1], category |-> i[2]]
  /\ DOMAIN tx.set = {} /\ DOMAIN tx.bulk = {}
  /\ tx.del \subseteq Category \cup SiteCategory
  /\ tx.purge \subseteq SiteCategory

\* Requests on the categories of sites write rows of that table only.
LEMMA CategoryRequestBegins ==
  ASSUME TablesInv, NEW w \in Worker, CategoryRequest(w)
  PROVE  Begins(w, CategoryOps, {8}, {}, {3, 8})
  <1>1. ASSUME NEW s \in Site, NEW K \in SUBSET Category
        PROVE  \A i \in DOMAIN Assignments(s, K) :
                 i \in SiteCategory /\ Assignments(s, K)[i] = [site |-> i[1], category |-> i[2]]
    BY DEF Assignments, SiteCategory
  <1>2. \E op, tx : op \in CategoryOps /\ CategoriesOnly(tx) /\ Accepted(w, op, tx)
    <2>1. CASE AssignCategory(w)
      <3>1. PICK s \in Site, k \in Category :
              Accepted(w, "category.assigned", [NoWrites EXCEPT !.new = Assignments(s, {k})])
        BY <2>1 DEF AssignCategory, Rows
      <3>2. CategoriesOnly([NoWrites EXCEPT !.new = Assignments(s, {k})])
        BY <1>1 DEF CategoriesOnly, NoWrites
      <3> QED BY <3>1, <3>2 DEF CategoryOps
    <2>2. CASE BulkAssignCategories(w)
      <3>1. PICK s \in Site, K \in SUBSET Category :
              Accepted(w, "category.set",
                [NoWrites EXCEPT !.purge = CategoriesOf(s), !.new = Assignments(s, K)])
        BY <2>2 DEF BulkAssignCategories, Rows
      <3>2. CategoriesOnly([NoWrites EXCEPT !.purge = CategoriesOf(s), !.new = Assignments(s, K)])
        BY <1>1 DEF CategoriesOnly, NoWrites, CategoriesOf, Rows
      <3> QED BY <3>1, <3>2 DEF CategoryOps
    <2>3. CASE UnassignCategory(w)
      <3>1. PICK i \in Rows(SiteCategory) : Accepted(w, "category.unassigned", Deleting(i))
        BY <2>3 DEF UnassignCategory
      <3>2. CategoriesOnly(Deleting(i))
        BY Transactions DEF CategoriesOnly, Rows
      <3> QED BY <3>1, <3>2 DEF CategoryOps
    <2>4. CASE RemoveAllCategories(w)
      <3>1. PICK s \in Site :
              Accepted(w, "category.cleared", [NoWrites EXCEPT !.purge = CategoriesOf(s)])
        BY <2>4 DEF RemoveAllCategories, Rows
      <3>2. CategoriesOnly([NoWrites EXCEPT !.purge = CategoriesOf(s)])
        BY DEF CategoriesOnly, NoWrites, CategoriesOf, Rows
      <3> QED BY <3>1, <3>2 DEF CategoryOps
    <2>5. CASE DeleteCategory(w)
      <3>1. PICK k \in Category :
              \/ Accepted(w, "category.deleted", Deleting(k))
              \/ Accepted(w, "category.forced", [NoWrites EXCEPT !.del = {k} \cup Assigned(k)])
        BY <2>5 DEF DeleteCategory, Rows
      <3>2. CategoriesOnly(Deleting(k))
        BY Transactions DEF CategoriesOnly
      <3>3. CategoriesOnly([NoWrites EXCEPT !.del = {k} \cup Assigned(k)])
        BY DEF CategoriesOnly, NoWrites, Assigned, Rows
      <3> QED BY <3>1, <3>2, <3>3 DEF CategoryOps
    <2> QED BY <2>1, <2>2, <2>3, <2>4, <2>5 DEF CategoryRequest
  <1>3. PICK op, tx : op \in CategoryOps /\ CategoriesOnly(tx) /\ Accepted(w, op, tx)
    BY <1>2
  <1>4. \A i \in DOMAIN tx.new : IsRow(i, tx.new[i])
    <2> SUFFICES ASSUME NEW i \in DOMAIN tx.new
                 PROVE  IsRow(i, tx.new[i])
      OBVIOUS
    <2>1. i \in SiteCategory /\ tx.new[i] = [site |-> i[1], category |-> i[2]]
      BY <1>3 DEF CategoriesOnly
    <2>2. IsRow(i, [site |-> i[1], category |-> i[2]])
      BY <2>1, AssetRows
    <2> QED BY <2>1, <2>2
  <1>5. /\ \A i \in SiteCategory : TableNumber(i) = 8 /\ i \notin Mapping
        /\ \A k \in Category : TableNumber(k) = 3
    BY OneTable
  <1>6. Typed(tx, serial) /\ Within(tx, {8}, {}, {3, 8})
    BY <1>3, <1>4, <1>5 DEF CategoriesOnly, Typed, TypedRows, Cautious, Within, Purged
  <1>7. op \notin {"address.provisioned", "site.populating"}
    BY <1>3 DEF CategoryOps
  <1>8. Begins(w, {op}, {8}, {}, {3, 8})
    BY <1>3, <1>6, <1>7, Single
  <1> QED BY <1>3, <1>8 DEF Begins

-----------------------------------------------------------------------------
(* The layout of a site *)

\* The grid for a number of cameras has a slot for each of them.
LEMMA GridFits ==
  ASSUME NEW count \in 0..16
  PROVE  LET grid == GridFor(count) IN
         /\ grid \in Grid(ScreenSide)
         /\ \A n \in 1..count :
              LET row == ((n - 1) \div grid[2]) + 1
                  col == ((n - 1) % grid[2]) + 1
              IN /\ row \in 1..grid[1] /\ col \in 1..grid[2]
                 /\ (row - 1) * grid[2] + col = n
  <1> DEFINE Fit(g) ==
        \A n \in 1..count :
          LET row == ((n - 1) \div g[2]) + 1
              col == ((n - 1) % g[2]) + 1
          IN /\ row \in 1..g[1] /\ col \in 1..g[2]
             /\ (row - 1) * g[2] + col = n
  <1>1. /\ count <= 1 => GridFor(count) = <<1, 1>>
        /\ count = 2 => GridFor(count) = <<1, 2>>
        /\ count \in 3..4 => GridFor(count) = <<2, 2>>
        /\ count \in 5..6 => GridFor(count) = <<2, 3>>
        /\ count \in 7..9 => GridFor(count) = <<3, 3>>
        /\ count \in 10..12 => GridFor(count) = <<3, 4>>
        /\ count > 12 => GridFor(count) = <<4, 4>>
    BY DEF GridFor
  <1>2. count <= 1 => Fit(<<1, 1>>)
    OBVIOUS
  <1>3. count = 2 => Fit(<<1, 2>>)
    OBVIOUS
  <1>4. count \in 3..4 => Fit(<<2, 2>>)
    OBVIOUS
  <1>5. count \in 5..6 => Fit(<<2, 3>>)
    OBVIOUS
  <1>6. count \in 7..9 => Fit(<<3, 3>>)
    OBVIOUS
  <1>7. count \in 10..12 => Fit(<<3, 4>>)
    OBVIOUS
  <1>8. Fit(<<4, 4>>)
    OBVIOUS
  <1>9. \A a, b \in 1..4 : <<a, b>> \in Grid(ScreenSide)
    BY SiteBodies, TablesAssumption DEF Grid
  <1>10. GridFor(count) \in Grid(ScreenSide)
    BY <1>1, <1>9
  <1> HIDE DEF Fit
  <1>11. Fit(GridFor(count))
    BY <1>1, <1>2, <1>3, <1>4, <1>5, <1>6, <1>7, <1>8
  <1> QED BY <1>10, <1>11 DEF Fit

\* What auto_populate writes is a layout: slots of the grid with cameras of the site.
LEMMA PopulatingWrites ==
  ASSUME TablesInv, NEW s
  PROVE  \E grid, cameras :
           /\ grid \in Grid(ScreenSide)
           /\ Populating(s) = WritingLayout(s, grid, cameras)
           /\ DOMAIN cameras \subseteq (1..grid[1]) \X (1..grid[2])
           /\ \A slot \in DOMAIN cameras : cameras[slot] \in CamerasAt(s)
  <1>1. PICK C, all, count : /\ C = CamerasAt(s) /\ all = SetToSeq(C)
                             /\ count = Min({Len(all), 16})
    OBVIOUS
  <1>2. IsFiniteSet(C) /\ C \subseteq Camera
    BY <1>1, SiteBodies, FS_Subset DEF CamerasAt, Rows
  <1>3. PICK k \in Nat : k = Cardinality(C) /\ ExistsBijection(1..k, C)
    BY <1>2, FS_CardinalityType
  <1>4. all \in [1..k -> C]
    <2>1. PICK f \in Bijection(1..k, C) : TRUE
      BY <1>3 DEF ExistsBijection
    <2>2. f \in [1..k -> C] /\ IsInjective(f)
      BY <2>1 DEF Bijection, Injection
    <2>3. all = CHOOSE g \in [1..k -> C] : IsInjective(g)
      BY <1>1, <1>3 DEF SetToSeq
    <2> QED BY <2>2, <2>3, Zenon
  <1>5. all \in Seq(C) /\ Len(all) = k
    <2>1. all \in Seq(C)
      BY <1>4, SeqDef
    <2> QED BY <1>4, <2>1, LenProperties
  <1>6. count \in 0..16 /\ count <= k
    <2>1. \E x \in {k, 16} : \A y \in {k, 16} : x =< y
      OBVIOUS
    <2>2. count \in {k, 16} /\ \A y \in {k, 16} : count =< y
      BY <1>1, <1>5, <2>1 DEF Min
    <2> QED BY <2>2
  <1>7. PICK placed : placed = SubSeq(all, 1, count)
    OBVIOUS
  <1>8. /\ placed \in Seq(C) /\ Len(placed) = count
        /\ \A n \in 1..count : placed[n] \in C
    <2>1. \A i \in 1..count : all[i] \in C
      BY <1>4, <1>6
    <2>2. placed \in Seq(C) /\ Len(placed) = count
      BY <1>6, <1>7, <2>1, SubSeqProperties
    <2> QED BY <2>2, ElementOfSeq
  <1>9. PICK grid : grid = GridFor(count)
    OBVIOUS
  <1>10. /\ grid \in Grid(ScreenSide)
         /\ \A n \in 1..count :
              LET row == ((n - 1) \div grid[2]) + 1
                  col == ((n - 1) % grid[2]) + 1
              IN /\ row \in 1..grid[1] /\ col \in 1..grid[2]
                 /\ (row - 1) * grid[2] + col = n
    BY <1>6, <1>9, GridFits
  <1>11. PICK slots :
           slots = {<<((n - 1) \div grid[2]) + 1, ((n - 1) % grid[2]) + 1>> : n \in 1..count}
    OBVIOUS
  <1>12. PICK cameras :
           cameras = [slot \in slots |-> placed[(slot[1] - 1) * grid[2] + slot[2]]]
    OBVIOUS
  <1>13. Populating(s) = WritingLayout(s, grid, cameras)
    <2>1. DOMAIN placed = 1..count
      BY <1>8, LenProperties
    <2>2. Populating(s) =
            WritingLayout(s, grid, [slot \in slots |-> placed[(slot[1] - 1) * grid[2] + slot[2]]])
      BY <1>1, <1>7, <1>8, <1>9, <1>11, <2>1 DEF Populating
    <2> QED BY <1>12, <2>2
  <1>14. ASSUME NEW slot \in slots
         PROVE  slot \in (1..grid[1]) \X (1..grid[2]) /\ cameras[slot] \in C
    <2>1. PICK n \in 1..count :
            slot = <<((n - 1) \div grid[2]) + 1, ((n - 1) % grid[2]) + 1>>
      BY <1>11
    <2>2. PICK row, col : row = ((n - 1) \div grid[2]) + 1 /\ col = ((n - 1) % grid[2]) + 1
      OBVIOUS
    <2>3. row \in 1..grid[1] /\ col \in 1..grid[2] /\ (row - 1) * grid[2] + col = n
      BY <1>10, <2>2
    <2>4. slot = <<row, col>> /\ slot[1] = row /\ slot[2] = col
      BY <2>1, <2>2
    <2>5. cameras[slot] = placed[n]
      BY <1>12, <2>3, <2>4
    <2> QED BY <1>8, <2>3, <2>4, <2>5
  <1> QED BY <1>1, <1>10, <1>12, <1>13, <1>14

\* A layout as it is written.
LEMMA LayoutTx ==
  ASSUME NEW s \in Site, NEW grid \in Grid(ScreenSide), NEW cameras,
         DOMAIN cameras \subseteq Grid(ScreenSide),
         \A slot \in DOMAIN cameras : cameras[slot] \in Camera
  PROVE  LET tx == WritingLayout(s, grid, cameras) IN
         /\ DOMAIN tx.new = {<<s, None>>} \cup {<<s, slot>> : slot \in DOMAIN cameras}
         /\ tx.new[<<s, None>>] = [site |-> s, grid |-> grid]
         /\ \A slot \in DOMAIN cameras :
              tx.new[<<s, slot>>] = [site |-> s, slot |-> slot, camera |-> cameras[slot]]
         /\ tx.purge = LayoutRowsOf(s)
         /\ DOMAIN tx.set = {} /\ DOMAIN tx.bulk = {} /\ tx.del = {} /\ tx.touch = {}
  <1>1. PICK top, rest : /\ top = Only(<<s, None>>, [site |-> s, grid |-> grid])
                         /\ rest = SlotRows(s, cameras)
    OBVIOUS
  <1>2. DOMAIN top = {<<s, None>>} /\ top[<<s, None>>] = [site |-> s, grid |-> grid]
    BY <1>1 DEF Only
  <1>3. /\ DOMAIN rest = {<<s, slot>> : slot \in DOMAIN cameras}
        /\ \A slot \in DOMAIN cameras :
             rest[<<s, slot>>] = [site |-> s, slot |-> slot, camera |-> cameras[slot]]
    BY <1>1 DEF SlotRows
  <1>4. \A slot \in DOMAIN cameras : <<s, slot>> # <<s, None>>
    <2>1. <<s, None>> \in SiteConfig
      BY DEF SiteConfig
    <2>2. \A slot \in DOMAIN cameras : <<s, slot>> \in SiteSlot
      BY DEF SiteSlot
    <2>3. \A slot \in DOMAIN cameras : TableNumber(<<s, slot>>) = 10
      BY <2>2, OneTable
    <2>4. TableNumber(<<s, None>>) = 9
      BY <2>1, OneTable
    <2> QED BY <2>3, <2>4
  <1>5. PICK new : new = top ++ rest
    OBVIOUS
  <1>6. /\ DOMAIN new = {<<s, None>>} \cup {<<s, slot>> : slot \in DOMAIN cameras}
        /\ new[<<s, None>>] = [site |-> s, grid |-> grid]
        /\ \A slot \in DOMAIN cameras :
             new[<<s, slot>>] = [site |-> s, slot |-> slot, camera |-> cameras[slot]]
    BY <1>2, <1>3, <1>4, <1>5 DEF ++
  <1>7. PICK tx : tx = WritingLayout(s, grid, cameras)
    OBVIOUS
  <1>8. /\ tx.new = new /\ tx.purge = LayoutRowsOf(s)
        /\ DOMAIN tx.set = {} /\ DOMAIN tx.bulk = {} /\ tx.del = {} /\ tx.touch = {}
    BY <1>1, <1>5, <1>7 DEF WritingLayout, NoWrites
  <1> QED BY <1>6, <1>7, <1>8

\* A layout written for a site has the columns of its two tables.
LEMMA LayoutTyped ==
  ASSUME NEW s \in Site, NEW grid \in Grid(ScreenSide), NEW cameras, NEW tx, NEW ids,
         DOMAIN cameras \subseteq Grid(ScreenSide),
         \A slot \in DOMAIN cameras : cameras[slot] \in Camera,
         tx = WritingLayout(s, grid, cameras)
  PROVE  Typed(tx, ids) /\ Within(tx, {9, 10}, {}, {9, 10})
  <1>1. /\ DOMAIN tx.new = {<<s, None>>} \cup {<<s, slot>> : slot \in DOMAIN cameras}
        /\ tx.new[<<s, None>>] = [site |-> s, grid |-> grid]
        /\ \A slot \in DOMAIN cameras :
             tx.new[<<s, slot>>] = [site |-> s, slot |-> slot, camera |-> cameras[slot]]
        /\ tx.purge = LayoutRowsOf(s)
        /\ DOMAIN tx.set = {} /\ DOMAIN tx.bulk = {} /\ tx.del = {}
    BY LayoutTx
  <1>2. LayoutRowsOf(s) \subseteq SiteConfig \cup SiteSlot
    BY DEF LayoutRowsOf, SlotsOf, Rows, SiteConfig
  <1>3. /\ \A i \in SiteConfig : /\ TableNumber(i) = 9 /\ i \notin Mapping
                                 /\ RowType(i) = SiteConfigRow(i)
        /\ \A i \in SiteSlot : /\ TableNumber(i) = 10 /\ i \notin Mapping
                               /\ RowType(i) = SiteSlotRow(i)
    BY OneTable, RowTypes
  <1>4. <<s, None>> \in SiteConfig /\ IsRow(<<s, None>>, tx.new[<<s, None>>])
    <2>1. PICK i, row : i = <<s, None>> /\ row = [site |-> s, grid |-> grid]
      OBVIOUS
    <2>2. i \in SiteConfig /\ i[1] = s
      BY <2>1 DEF SiteConfig
    <2>3. IsRow(i, row)
      BY <1>3, <2>1, <2>2 DEF IsRow, IsFunction, Fits, SiteConfigRow
    <2> QED BY <1>1, <2>1, <2>2, <2>3
  <1>5. ASSUME NEW slot \in DOMAIN cameras
        PROVE  <<s, slot>> \in SiteSlot /\ IsRow(<<s, slot>>, tx.new[<<s, slot>>])
    <2>1. PICK i, row : /\ i = <<s, slot>>
                        /\ row = [site |-> s, slot |-> slot, camera |-> cameras[slot]]
      OBVIOUS
    <2>2. i \in SiteSlot /\ i[1] = s /\ i[2] = slot
      BY <2>1 DEF SiteSlot
    <2>3. /\ IsFunction(row) /\ DOMAIN row = {"site", "slot", "camera"}
          /\ row["site"] = s /\ row["slot"] = slot /\ row["camera"] \in Camera
      BY <2>1 DEF IsFunction
    <2>4. IsRow(i, row)
      BY <1>3, <2>2, <2>3 DEF IsRow, Fits, SiteSlotRow
    <2> QED BY <1>1, <2>1, <2>2, <2>4
  <1>6. \A i \in DOMAIN tx.new : IsRow(i, tx.new[i]) /\ i \in SiteConfig \cup SiteSlot
    BY <1>1, <1>4, <1>5
  <1> QED BY <1>1, <1>2, <1>3, <1>6 DEF Typed, TypedRows, Cautious, Within, Purged

\* A layout of a site with cameras that stand there.
SiteLayoutTx(tx, s, grid, cameras) ==
  /\ s \in Site /\ grid \in Grid(ScreenSide)
  /\ tx = WritingLayout(s, grid, cameras)
  /\ DOMAIN cameras \subseteq (1..grid[1]) \X (1..grid[2])
  /\ \A slot \in DOMAIN cameras : cameras[slot] \in CamerasAt(s)

SiteLayoutOps == {"site.populated", "site.layout_saved", "site.populating"}

\* So does one for a grid no larger than a screen, of cameras at the site.
LEMMA SiteLayoutTyped ==
  ASSUME NEW tx, NEW ids, NEW s, NEW grid, NEW cameras, SiteLayoutTx(tx, s, grid, cameras)
  PROVE  Typed(tx, ids) /\ Within(tx, {9, 10}, {}, {9, 10})
  <1>1. DOMAIN cameras \subseteq Grid(ScreenSide)
    <2>1. PICK a, b \in 1..ScreenSide : grid = <<a, b>>
      BY DEF SiteLayoutTx, Grid
    <2>2. 1..a \subseteq 1..ScreenSide /\ 1..b \subseteq 1..ScreenSide
      BY TablesAssumption
    <2> QED BY <2>1, <2>2 DEF SiteLayoutTx, Grid
  <1>2. \A slot \in DOMAIN cameras : cameras[slot] \in Camera
    BY DEF SiteLayoutTx, CamerasAt, Rows
  <1> QED BY <1>1, <1>2, LayoutTyped DEF SiteLayoutTx

\* A request that writes a layout, and the next one of several.
SiteLayoutRequest(w) ==
  AutoPopulate(w) \/ AutoPopulateAll(w) \/ SaveSiteLayout(w)

\* The three requests that write the layout of a site.
LEMMA SiteLayoutRequests ==
  ASSUME TablesInv, NEW w \in Worker, SiteLayoutRequest(w)
  PROVE  \E op, then, arg, tx, s, grid, cameras :
           /\ op \in SiteLayoutOps \ {"site.populating"}
           /\ AcceptedThen(w, op, tx, then, arg) /\ serial' = serial
           /\ SiteLayoutTx(tx, s, grid, cameras)
           /\ \/ then = None
              \/ op = "site.populated" /\ then = "site.populating" /\ arg \subseteq Site
  <1>1. CASE AutoPopulate(w)
    <2>1. PICK s \in Site : Accepted(w, "site.populated", Populating(s))
      BY <1>1 DEF AutoPopulate, Rows
    <2>2. PICK grid, cameras : SiteLayoutTx(Populating(s), s, grid, cameras)
      BY PopulatingWrites DEF SiteLayoutTx
    <2>3. AcceptedThen(w, "site.populated", Populating(s), None, None) /\ serial' = serial
      BY <2>1 DEF Accepted
    <2> QED BY <2>2, <2>3 DEF SiteLayoutOps
  <1>2. CASE AutoPopulateAll(w)
    <2>1. PICK s \in Site : /\ AcceptedThen(w, "site.populated", Populating(s),
                                            "site.populating", Rows(Site) \ {s})
                            /\ serial' = serial
      BY <1>2 DEF AutoPopulateAll, Rows
    <2>2. PICK grid, cameras : SiteLayoutTx(Populating(s), s, grid, cameras)
      BY PopulatingWrites DEF SiteLayoutTx
    <2>3. PICK tx, arg : tx = Populating(s) /\ arg = Rows(Site) \ {s}
      OBVIOUS
    <2>4. /\ AcceptedThen(w, "site.populated", tx, "site.populating", arg)
          /\ SiteLayoutTx(tx, s, grid, cameras) /\ arg \subseteq Site
      BY <2>1, <2>2, <2>3 DEF Rows
    <2> QED BY <2>1, <2>4 DEF SiteLayoutOps
  <1>3. CASE SaveSiteLayout(w)
    <2>1. PICK s \in Site, body \in SiteLayoutBody :
            /\ ValidSlots(body)
            /\ \A slot \in DOMAIN body.cameras : SiteOfCamera(body.cameras[slot]) = s
            /\ Accepted(w, "site.layout_saved", WritingLayout(s, body.grid, body.cameras))
      BY <1>3 DEF SaveSiteLayout, Rows
    <2>2. PICK grid, cameras, tx :
            /\ grid = body.grid /\ cameras = body.cameras
            /\ tx = WritingLayout(s, grid, cameras)
      OBVIOUS
    <2>3. ASSUME NEW slot \in DOMAIN cameras
          PROVE  cameras[slot] \in CamerasAt(s)
      <3>1. cameras[slot] \in Camera /\ SiteOfCamera(cameras[slot]) = s
        BY <2>1, <2>2, SiteBodies
      <3>2. s # None
        BY TablesAssumption
      <3>3. Exists(cameras[slot])
        BY <3>1, <3>2 DEF SiteOfCamera
      <3> QED BY <3>1, <3>3 DEF CamerasAt, Rows, Exists
    <2>4. SiteLayoutTx(tx, s, grid, cameras)
      BY <2>1, <2>2, <2>3, SiteBodies DEF SiteLayoutTx, ValidSlots
    <2>5. AcceptedThen(w, "site.layout_saved", tx, None, None) /\ serial' = serial
      BY <2>1, <2>2 DEF Accepted
    <2> QED BY <2>4, <2>5 DEF SiteLayoutOps
  <1> QED BY <1>1, <1>2, <1>3 DEF SiteLayoutRequest

\* They write rows of the two tables of site layouts only.
LEMMA SiteLayoutRequestBegins ==
  ASSUME TablesInv, NEW w \in Worker, SiteLayoutRequest(w)
  PROVE  Begins(w, SiteLayoutOps, {9, 10}, {}, {9, 10})
  <1>1. PICK op, then, arg, tx, s, grid, cameras :
          /\ op \in SiteLayoutOps \ {"site.populating"}
          /\ AcceptedThen(w, op, tx, then, arg) /\ serial' = serial
          /\ SiteLayoutTx(tx, s, grid, cameras)
          /\ \/ then = None
             \/ op = "site.populated" /\ then = "site.populating" /\ arg \subseteq Site
    BY SiteLayoutRequests
  <1>2. Typed(tx, serial') /\ Within(tx, {9, 10}, {}, {9, 10})
    BY <1>1, SiteLayoutTyped
  <1>3. Remembers(op, then, arg)
    BY <1>1 DEF Remembers, SiteLayoutOps
  <1>4. serial' \in serial..MaxMapping
    BY <1>1, TablesAssumption DEF TablesInv, TablesTypeOK
  <1>5. Begins(w, {op}, {9, 10}, {}, {9, 10})
    <2>1. then # None => op \in Chained
      BY <1>1 DEF Chained
    <2>2. op \notin {"address.provisioned", "site.populating"}
      BY <1>1 DEF SiteLayoutOps
    <2> QED BY <1>1, <1>2, <1>3, <1>4, <2>1, <2>2, Starting
  <1> QED BY <1>1, <1>5 DEF Begins

\* The next site is taken after a commit or instead of one, and the request remembers
\* which sites are left.
LEMMA PopulateNextAt ==
  ASSUME TablesInv, NEW w \in Worker, AutoPopulateNext(w)
  PROVE  /\ job[w] # Idle /\ job[w].op \in {"site.populated", "site.populating"}
         /\ \/ job[w].op = "site.populating"
            \/ job[w].then # None /\ job[w].then = "site.populating"
         /\ JobTyped(job[w]) /\ DOMAIN job = Worker
  BY DEF AutoPopulateNext, At, Active, TablesInv

\* Either no site is left, and the request is answered, or the next one is written.
LEMMA PopulateNext ==
  ASSUME TablesInv, NEW w \in Worker, AutoPopulateNext(w)
  PROVE  \/ Answers(w)
         \/ \E s, grid, cameras, tx :
              /\ SiteLayoutTx(tx, s, grid, cameras)
              /\ Continues(w, tx, "site.populating", job[w].arg \ {s})
              /\ serial' = serial
  <1> SUFFICES ASSUME ~Answers(w)
               PROVE  \E s, grid, cameras, tx :
                        /\ SiteLayoutTx(tx, s, grid, cameras)
                        /\ Continues(w, tx, "site.populating", job[w].arg \ {s})
                        /\ serial' = serial
    OBVIOUS
  <1>2. job[w].arg \subseteq Site
    BY PopulateNextAt DEF JobTyped, Remembers
  <1>3. PICK s \in Rows(job[w].arg) :
          Continues(w, Populating(s), "site.populating", job[w].arg \ {s}) /\ serial' = serial
    BY DEF AutoPopulateNext
  <1>4. s \in Site
    BY <1>2, <1>3 DEF Rows
  <1>5. PICK grid, cameras : SiteLayoutTx(Populating(s), s, grid, cameras)
    BY <1>4, PopulatingWrites DEF SiteLayoutTx
  <1> QED BY <1>3, <1>5

\* The next site of auto-populate-all gets its layout in a transaction of its own.
LEMMA AutoPopulateNextBegins ==
  ASSUME TablesInv, NEW w \in Worker, AutoPopulateNext(w)
  PROVE  Answers(w) \/ Begins(w, SiteLayoutOps, {9, 10}, {}, {9, 10})
  <1> SUFFICES ASSUME ~Answers(w)
               PROVE  Begins(w, SiteLayoutOps, {9, 10}, {}, {9, 10})
    OBVIOUS
  <1>1. PICK s, grid, cameras, tx :
          /\ SiteLayoutTx(tx, s, grid, cameras)
          /\ Continues(w, tx, "site.populating", job[w].arg \ {s})
          /\ serial' = serial
    BY PopulateNext
  <1>2. /\ job[w] # Idle /\ job[w].op \in {"site.populated", "site.populating"}
        /\ \/ job[w].op = "site.populating"
           \/ job[w].then # None /\ job[w].then = "site.populating"
        /\ JobTyped(job[w])
    BY PopulateNextAt
  <1>3. Typed(tx, serial') /\ Within(tx, {9, 10}, {}, {9, 10})
    BY <1>1, SiteLayoutTyped
  <1>4. PICK arg : arg = job[w].arg \ {s}
    OBVIOUS
  <1>5. PICK j : j = [job[w] EXCEPT !.tx = tx, !.then = "site.populating", !.arg = arg]
    OBVIOUS
  <1>6. /\ DOMAIN j = {"op", "tx", "then", "arg", "alone"}
        /\ j.op = job[w].op /\ j.tx = tx /\ j.then = "site.populating" /\ j.arg = arg
        /\ j.alone = job[w].alone
    BY <1>2, <1>5 DEF JobTyped
  <1>7. job' = [job EXCEPT ![w] = j] /\ db' = db /\ requests' = requests
    BY <1>1, <1>4, <1>5 DEF Continues
  <1>8. Remembers(j.op, j.then, j.arg) /\ j.alone \in BOOLEAN
    BY <1>2, <1>4, <1>6 DEF Remembers, JobTyped
  <1>9. serial' \in serial..MaxMapping /\ requests' \in 0..MaxRequests
    BY <1>1, <1>7, TablesAssumption DEF TablesInv, TablesTypeOK
  <1>10. j.op \in SiteLayoutOps
    BY <1>2, <1>6 DEF SiteLayoutOps
  <1> QED BY <1>2, <1>3, <1>6, <1>7, <1>8, <1>9, <1>10 DEF Begins, Chained

\* A layout of a site is deleted by queries.
LEMMA DeleteSiteLayoutBegins ==
  ASSUME TablesInv, NEW w \in Worker, DeleteSiteLayout(w)
  PROVE  Begins(w, {"site.layout_deleted"}, {}, {}, {9, 10})
  <1>1. PICK i \in Rows(SiteConfig) :
          Accepted(w, "site.layout_deleted",
            [NoWrites EXCEPT !.purge = SlotsOf(db[i].site), !.del = {i}])
    BY DEF DeleteSiteLayout
  <1>2. PICK tx : tx = [NoWrites EXCEPT !.purge = SlotsOf(db[i].site), !.del = {i}]
    OBVIOUS
  <1>3. /\ tx.purge = SlotsOf(db[i].site) /\ tx.del = {i}
        /\ DOMAIN tx.new = {} /\ DOMAIN tx.set = {} /\ DOMAIN tx.bulk = {}
    BY <1>2 DEF NoWrites
  <1>4. TableNumber(i) = 9
    BY OneTable DEF Rows
  <1>5. \A k \in tx.purge : k \in SiteSlot /\ TableNumber(k) = 10
    BY <1>3, OneTable DEF SlotsOf, Rows
  <1>6. Typed(tx, serial) /\ Within(tx, {}, {}, {9, 10})
    BY <1>3, <1>4, <1>5 DEF Typed, TypedRows, Cautious, Within, Purged
  <1> QED BY <1>1, <1>2, <1>6, Single

-----------------------------------------------------------------------------
(* The tables stay in order *)

\* What has been prepared stays well typed while no row that a query writes goes.
LEMMA TypedLater ==
  ASSUME NEW tx, NEW ids \in Nat, TypedRows(tx, ids), serial' \in Nat, ids <= serial',
         \A i \in DOMAIN tx.bulk : i \in DOMAIN db => i \in DOMAIN db'
  PROVE  TypedRows(tx, serial)'
  BY DEF TypedRows

\* A request that reads on, or begins to, and prepares rows that fit the tables.
Prepares(w, j) ==
  /\ job' = [job EXCEPT ![w] = j]
  /\ DOMAIN j = {"op", "tx", "then", "arg", "alone"}
  /\ j.alone \in BOOLEAN
  /\ Remembers(j.op, j.then, j.arg)
  /\ TypedRows(j.tx, serial')
  /\ db' = db
  /\ serial' \in serial..MaxMapping
  /\ requests' \in 0..MaxRequests

\* It keeps the invariant.
LEMMA PreparesKeepsTables ==
  ASSUME TablesInv, NEW w \in Worker, NEW j, Prepares(w, j)
  PROVE  TablesInv'
  <1>1. /\ job' = [job EXCEPT ![w] = j]
        /\ DOMAIN j = {"op", "tx", "then", "arg", "alone"}
        /\ j.alone \in BOOLEAN
        /\ Remembers(j.op, j.then, j.arg)
        /\ TypedRows(j.tx, serial')
        /\ db' = db
        /\ serial' \in serial..MaxMapping
        /\ requests' \in 0..MaxRequests
    BY DEF Prepares
  <1>2. serial \in 0..MaxMapping /\ MaxMapping \in Nat
    BY TablesAssumption DEF TablesInv, TablesTypeOK
  <1>3. serial' \in 0..MaxMapping /\ serial <= serial'
    BY <1>1, <1>2
  <1>4. DOMAIN job' = Worker /\ job'[w] = j /\ \A v \in Worker \ {w} : job'[v] = job[v]
    BY <1>1 DEF TablesInv
  <1>5. ASSUME NEW v \in Worker, job'[v] # Idle
        PROVE  JobTyped(job[v])'
    <2>1. CASE v = w
      <3>1. TypedRows(j.tx, serial)'
        <4>1. serial' \in Nat
          BY <1>2, <1>3
        <4> QED BY <1>1, <4>1, TypedLater
      <3> QED BY <1>1, <1>4, <2>1, <3>1 DEF JobTyped
    <2>2. CASE v # w
      <3>1. job'[v] = job[v] /\ JobTyped(job[v])
        BY <1>4, <1>5, <2>2 DEF TablesInv
      <3>2. job[v].tx # None => TypedRows(job[v].tx, serial)'
        <4> SUFFICES ASSUME job[v].tx # None
                     PROVE  TypedRows(job[v].tx, serial)'
          BY <3>1
        <4>1. PICK tx : tx = job[v].tx
          OBVIOUS
        <4>2. TypedRows(tx, serial)
          BY <3>1, <4>1 DEF JobTyped
        <4>3. TypedRows(tx, serial)'
          BY <1>1, <1>2, <1>3, <4>2, TypedLater
        <4> QED BY <3>1, <4>1, <4>3
      <3> QED BY <3>1, <3>2 DEF JobTyped
    <2> QED BY <2>1, <2>2
  <1>6. TablesTypeOK'
    <2>1. \A v \in Worker : job'[v] # Idle => job'[v].alone \in BOOLEAN
      BY <1>5 DEF JobTyped
    <2>2. ForeignKeysHold(db') /\ UniqueKeysHold(db') /\ \A i \in DOMAIN db' : IsRow(i, db'[i])
      BY <1>1 DEF TablesInv, TablesTypeOK
    <2>3. Rows(Mapping)' \subseteq {<<n>> : n \in 1..serial'}
      BY <1>1, <1>2, <1>3 DEF TablesInv, TablesTypeOK, Rows
    <2> QED BY <1>1, <1>3, <2>1, <2>2, <2>3 DEF TablesTypeOK
  <1> QED BY <1>4, <1>5, <1>6 DEF TablesInv

\* A request that begins keeps the invariant.
LEMMA BeginsKeepsTables ==
  ASSUME TablesInv, NEW w \in Worker, NEW ops, NEW adds, NEW sets, NEW drops,
         Begins(w, ops, adds, sets, drops)
  PROVE  TablesInv'
  <1>1. \E j : Prepares(w, j)
    BY DEF Begins, Typed, Prepares
  <1> QED BY <1>1, PreparesKeepsTables

\* An answer to a request keeps the invariant.
LEMMA AnswersKeepsTables ==
  ASSUME TablesInv, NEW w \in Worker, Answers(w)
  PROVE  TablesInv'
  <1>1. /\ DOMAIN job' = Worker /\ job'[w] = Idle
        /\ \A v \in Worker \ {w} : job'[v] = job[v]
        /\ db' = db /\ serial' = serial /\ requests' = requests
    BY DEF Answers, TablesInv
  <1>2. ASSUME NEW v \in Worker, job'[v] # Idle
        PROVE  JobTyped(job[v])'
    <2>1. job'[v] = job[v] /\ JobTyped(job[v])
      BY <1>1, <1>2 DEF TablesInv
    <2> QED BY <1>1, <2>1 DEF JobTyped, TypedRows
  <1>3. TablesTypeOK'
    <2>1. \A v \in Worker : job'[v] # Idle => job'[v].alone \in BOOLEAN
      BY <1>2 DEF JobTyped
    <2>2. ForeignKeysHold(db') /\ UniqueKeysHold(db') /\ \A i \in DOMAIN db' : IsRow(i, db'[i])
      BY <1>1 DEF TablesInv, TablesTypeOK
    <2>3. Rows(Mapping)' \subseteq {<<n>> : n \in 1..serial'}
      BY <1>1 DEF TablesInv, TablesTypeOK, Rows
    <2> QED BY <1>1, <2>1, <2>2, <2>3 DEF TablesInv, TablesTypeOK
  <1> QED BY <1>1, <1>2, <1>3 DEF TablesInv

\* The other requests after a commit, and the next part of a request of several.
LEMMA JobsAfterCommit ==
  ASSUME TablesInv, NEW w \in Worker, Commit(w)
  PROVE  /\ DOMAIN job' = Worker
         /\ \A v \in Worker \ {w} :
              IF job[v] = Idle THEN job'[v] = Idle
              ELSE /\ DOMAIN job'[v] = {"op", "tx", "then", "arg", "alone"}
                   /\ job'[v].op = job[v].op /\ job'[v].tx = job[v].tx
                   /\ job'[v].then = job[v].then /\ job'[v].arg = job[v].arg
                   /\ job'[v].alone = (job[v].alone /\ db' = db)
         /\ \/ job'[w] = Idle
            \/ /\ DOMAIN job'[w] = {"op", "tx", "then", "arg", "alone"}
               /\ job[w].then # None
               /\ job'[w].op = job[w].then /\ job'[w].tx = None /\ job'[w].then = None
               /\ job'[w].arg = job[w].arg /\ job'[w].alone = job[w].alone
  <1>1. job' = [v \in Worker |->
          IF job[v] = Idle THEN Idle
          ELSE IF v # w THEN [job[v] EXCEPT !.alone = @ /\ db' = db]
          ELSE IF job[w].then = None THEN Idle
          ELSE [job[w] EXCEPT !.op = job[w].then, !.tx = None, !.then = None]]
    BY DEF Commit
  <1>2. \A v \in Worker : job[v] # Idle => DOMAIN job[v] = {"op", "tx", "then", "arg", "alone"}
    BY DEF TablesInv, JobTyped
  <1>3. DOMAIN job' = Worker
    BY <1>1
  <1>4. ASSUME NEW v \in Worker \ {w}
        PROVE  IF job[v] = Idle THEN job'[v] = Idle
               ELSE /\ DOMAIN job'[v] = {"op", "tx", "then", "arg", "alone"}
                    /\ job'[v].op = job[v].op /\ job'[v].tx = job[v].tx
                    /\ job'[v].then = job[v].then /\ job'[v].arg = job[v].arg
                    /\ job'[v].alone = (job[v].alone /\ db' = db)
    <2>1. job[v] = Idle => job'[v] = Idle
      BY <1>1
    <2>2. job[v] # Idle => job'[v] = [job[v] EXCEPT !.alone = @ /\ db' = db]
      BY <1>1
    <2> QED BY <1>2, <2>1, <2>2
  <1>5. \/ job'[w] = Idle
        \/ /\ job[w] # Idle /\ job[w].then # None
           /\ job'[w] = [job[w] EXCEPT !.op = job[w].then, !.tx = None, !.then = None]
    BY <1>1
  <1> QED BY <1>2, <1>3, <1>4, <1>5

\* A commit keeps the invariant.
LEMMA CommitKeepsTables ==
  ASSUME TablesInv, NEW w \in Worker, Commit(w)
  PROVE  TablesInv'
  <1>1. PICK tx : tx = job[w].tx
    OBVIOUS
  <1>2. /\ job[w] # Idle /\ tx # None /\ TypedRows(tx, serial)
        /\ db' = After(tx) /\ Holds(tx) /\ serial' = serial /\ requests' = requests
    BY <1>1 DEF Commit, Active, TablesInv, JobTyped
  <1>3. /\ \A i \in DOMAIN db' : IsRow(i, db'[i])
        /\ DOMAIN db' \cap Mapping \subseteq {<<n>> : n \in 1..serial}
    BY <1>2, AfterTyped
  <1>4. ForeignKeysHold(db') /\ UniqueKeysHold(db')
    BY <1>2 DEF Holds
  <1>5. ASSUME NEW v \in Worker \ {w}, job[v] # Idle, job[v].tx # None
        PROVE  \A i \in DOMAIN job[v].tx.bulk : i \in DOMAIN db => i \in DOMAIN db'
    <2> SUFFICES ASSUME NEW i \in DOMAIN job[v].tx.bulk, i \in DOMAIN db
                 PROVE  i \in DOMAIN db'
      OBVIOUS
    <2>1. i \in HeldFrom(w)
      BY <1>5 DEF HeldFrom, Held, Active
    <2>2. i \notin Writes(tx)
      BY <1>1, <2>1 DEF Commit, Blocked
    <2>3. i \notin Removed(tx)
      BY <2>2 DEF Writes, Removed
    <2> QED BY <1>2, <2>3, AfterRows
  <1>6. ASSUME NEW v \in Worker, job'[v] # Idle
        PROVE  JobTyped(job[v])'
    <2>1. CASE v = w
      <3>1. /\ DOMAIN job'[w] = {"op", "tx", "then", "arg", "alone"}
            /\ job[w].then # None
            /\ job'[w].op = job[w].then /\ job'[w].tx = None /\ job'[w].then = None
            /\ job'[w].arg = job[w].arg /\ job'[w].alone = job[w].alone
        BY <1>6, <2>1, JobsAfterCommit
      <3>2. JobTyped(job[w])
        BY <1>2 DEF TablesInv
      <3> QED BY <2>1, <3>1, <3>2 DEF JobTyped, Remembers
    <2>2. CASE v # w
      <3>1. /\ job[v] # Idle
            /\ DOMAIN job'[v] = {"op", "tx", "then", "arg", "alone"}
            /\ job'[v].op = job[v].op /\ job'[v].tx = job[v].tx
            /\ job'[v].then = job[v].then /\ job'[v].arg = job[v].arg
            /\ job'[v].alone = (job[v].alone /\ db' = db)
        BY <1>6, <2>2, JobsAfterCommit
      <3>2. JobTyped(job[v])
        BY <3>1 DEF TablesInv
      <3>3. ASSUME job[v].tx # None
            PROVE  TypedRows(job[v].tx, serial)'
        <4>1. PICK t : t = job[v].tx
          OBVIOUS
        <4>2. TypedRows(t, serial) /\ serial \in Nat
          BY <3>2, <3>3, <4>1 DEF JobTyped, TablesInv, TablesTypeOK
        <4>3. \A i \in DOMAIN t.bulk : i \in DOMAIN db => i \in DOMAIN db'
          BY <1>5, <2>2, <3>1, <3>3, <4>1
        <4>4. TypedRows(t, serial)'
          BY <1>2, <4>2, <4>3, TypedLater
        <4> QED BY <3>1, <4>1, <4>4
      <3>4. job'[v].alone \in BOOLEAN
        BY <3>1
      <3> QED BY <3>1, <3>2, <3>3, <3>4 DEF JobTyped
    <2> QED BY <2>1, <2>2
  <1>7. TablesTypeOK'
    <2>1. \A v \in Worker : job'[v] # Idle => job'[v].alone \in BOOLEAN
      BY <1>6 DEF JobTyped
    <2>2. Rows(Mapping)' \subseteq {<<n>> : n \in 1..serial'}
      BY <1>2, <1>3 DEF Rows
    <2> QED BY <1>2, <1>3, <1>4, <2>1, <2>2 DEF TablesInv, TablesTypeOK
  <1> QED BY <1>6, <1>7, JobsAfterCommit DEF TablesInv

\* Every request prepares a transaction that fits the tables.
LEMMA RequestsBegin ==
  ASSUME TablesInv, NEW w \in Worker, WallsRequest(w) \/ AssetsRequest(w)
  PROVE  Answers(w) \/ \E ops, adds, sets, drops : Begins(w, ops, adds, sets, drops)
  <1>1. CASE WallsRequest(w)
    BY <1>1, CreateLayoutBegins, UpdateLayoutBegins, DeleteLayoutBegins, AssignPcsBegins,
       CreateScreenBegins, UpdateScreenBegins, DeleteScreenBegins, CreateViewBegins,
       UpdateViewBegins, DeleteViewBegins, CreateMappingBegins, ReplaceViewSlotsBegins,
       UpdateMappingBegins, DeleteMappingBegins, AssignCameraBegins, SetPlayingStateBegins
       DEF WallsRequest
  <1>2. CASE AssetsRequest(w)
    BY <1>2, CreateTeamBegins, DeleteTeamBegins, AssignSitesBegins, UnassignSiteBegins,
       CreateSiteBegins, DeleteSiteBegins, CreateDeviceBegins, MoveDeviceBegins,
       DeleteDeviceBegins, CreateCameraBegins, MoveCameraBegins, DeleteCameraBegins,
       FlagCameraBegins, ProvisionAddressBegins, CreateAddressBegins, RevokeAddressBegins,
       RotateAddressBegins, QuarantineAddressBegins, CreateCategoryBegins,
       CategoryRequestBegins, SiteLayoutRequestBegins, AutoPopulateNextBegins,
       DeleteSiteLayoutBegins
       DEF AssetsRequest, CategoryRequest, SiteLayoutRequest
  <1> QED BY <1>1, <1>2

\* The tables to start from are in order.
LEMMA TablesInit ==
  ASSUME Tables0
  PROVE  TablesInv
  <1>1. db \in Stored /\ job = [w \in Worker |-> Idle] /\ requests = 0
    BY DEF Tables0
  <1>2. PICK d, mappings : d = db /\ mappings = DOMAIN d \cap Mapping
    OBVIOUS
  <1>3. /\ \A i \in DOMAIN d : IsRow(i, d[i])
        /\ ForeignKeysHold(d) /\ UniqueKeysHold(d)
        /\ mappings = {<<n>> : n \in 1..Cardinality(mappings)}
    BY <1>1, <1>2, StoredAssumption
  <1>4. mappings = Rows(Mapping) /\ serial = Cardinality(mappings)
    BY <1>2 DEF Rows, Tables0
  <1>5. Cardinality(mappings) \in 0..MaxMapping
    <2>1. 0 \in Nat /\ 1 \in Nat /\ MaxMapping \in Nat /\ 1 <= MaxMapping + 1
      BY TablesAssumption
    <2>2. PICK boxes : boxes = {<<n>> : n \in 1..MaxMapping}
      OBVIOUS
    <2>3. IsFiniteSet(boxes) /\ Cardinality(boxes) = (MaxMapping - 1) + 1
      BY <2>1, <2>2, Boxed
    <2>4. mappings \subseteq boxes
      BY <1>2, <2>2 DEF Mapping
    <2>5. IsFiniteSet(mappings) /\ Cardinality(mappings) <= Cardinality(boxes)
      BY <2>3, <2>4, FS_Subset
    <2>6. Cardinality(mappings) \in Nat
      BY <2>5, FS_CardinalityType
    <2> QED BY <2>1, <2>3, <2>5, <2>6
  <1>6. TablesTypeOK
    <2>1. /\ \A i \in DOMAIN db : IsRow(i, db[i])
          /\ ForeignKeysHold(db) /\ UniqueKeysHold(db)
          /\ Rows(Mapping) \subseteq {<<n>> : n \in 1..serial}
      BY <1>2, <1>3, <1>4
    <2>2. \A w \in Worker : job[w] = Idle
      BY <1>1
    <2>3. serial \in 0..MaxMapping /\ requests \in 0..MaxRequests
      BY <1>1, <1>4, <1>5, TablesAssumption
    <2> QED BY <2>1, <2>2, <2>3 DEF TablesTypeOK
  <1> QED BY <1>1, <1>6 DEF TablesInv

\* A step keeps the tables in order.
LEMMA TablesStep ==
  ASSUME TablesInv, [WallsNext]_tableVars
  PROVE  TablesInv'
  <1>1. CASE WallsNext
    <2>1. PICK w \in Worker :
            \/ WallsRequest(w) \/ AssetsRequest(w)
            \/ Commit(w) \/ Refused(w) \/ RequestFails(w)
      BY <1>1 DEF WallsNext
    <2>2. CASE WallsRequest(w) \/ AssetsRequest(w)
      BY <2>2, RequestsBegin, BeginsKeepsTables, AnswersKeepsTables
    <2>3. CASE Commit(w)
      BY <2>3, CommitKeepsTables
    <2>4. CASE Refused(w) \/ RequestFails(w)
      BY <2>4, AnswersKeepsTables DEF Refused, RequestFails
    <2> QED BY <2>1, <2>2, <2>3, <2>4
  <1>2. CASE UNCHANGED tableVars
    <2>1. db' = db /\ job' = job /\ serial' = serial /\ requests' = requests
      BY <1>2 DEF tableVars
    <2>2. ASSUME NEW v \in Worker, job'[v] # Idle
          PROVE  JobTyped(job[v])'
      BY <2>1, <2>2 DEF TablesInv, JobTyped, TypedRows
    <2>3. TablesTypeOK'
      BY <2>1 DEF TablesInv, TablesTypeOK, Rows
    <2> QED BY <2>1, <2>2, <2>3 DEF TablesInv
  <1> QED BY <1>1, <1>2

\* Rows have the columns of their tables, foreign and unique keys hold, and no id of a
\* mapping is given twice (app/models).
THEOREM TablesInOrder == WallsSpec => []TablesInv
  BY TablesInit, TablesStep, PTL DEF WallsSpec

\* Ids, rows and requests keep their types.
THEOREM TablesStayTyped == WallsSpec => []TablesTypeOK
  <1>1. TablesInv => TablesTypeOK
    BY DEF TablesInv
  <1> QED BY <1>1, TablesInOrder, PTL

-----------------------------------------------------------------------------
(* Foreign keys *)

\* The foreign keys of each table.
LEMMA ReferencesOf ==
  \A i :
    /\ i \in Team \cup Site \cup Category => DOMAIN References(i) = {}
    /\ i \in Device => References(i) = [site |-> "remove"]
    /\ i \in Camera => References(i) = [device |-> "remove"]
    /\ i \in Address => References(i) = [camera |-> "remove"]
    /\ i \in Membership => References(i) = [site |-> "remove", team |-> "remove"]
    /\ i \in SiteCategory => References(i) = [site |-> "remove", category |-> "refuse"]
    /\ i \in SiteConfig => References(i) = [site |-> "remove"]
    /\ i \in SiteSlot => References(i) = [site |-> "remove", camera |-> "remove"]
    /\ i \in Layout => References(i) = [team |-> "refuse"]
    /\ i \in ScreenId => References(i) = [layout |-> "remove"]
    /\ i \in ViewId => References(i) = [screen |-> "remove"]
    /\ i \in Mapping => References(i) = [screen |-> "remove", view |-> "remove",
                                    camera |-> "remove", device |-> "clear"]
    /\ i \in Pc => References(i) = [team |-> "refuse", layout |-> "clear", manager |-> "clear"]
    /\ i \in Playing => References(i) = [pc |-> "remove", mapping |-> "remove"]
  <1> TAKE i
  <1>1. i \in Team \cup Site \cup Category => DOMAIN References(i) = {}
    BY OneTable DEF References
  <1>2. i \in Device => References(i) = [site |-> "remove"]
    BY OneTable DEF References
  <1>3. i \in Camera => References(i) = [device |-> "remove"]
    BY OneTable DEF References
  <1>4. i \in Address => References(i) = [camera |-> "remove"]
    BY OneTable DEF References
  <1>5. i \in Membership => References(i) = [site |-> "remove", team |-> "remove"]
    BY OneTable DEF References
  <1>6. i \in SiteCategory => References(i) = [site |-> "remove", category |-> "refuse"]
    BY OneTable DEF References
  <1>7. i \in SiteConfig => References(i) = [site |-> "remove"]
    BY OneTable DEF References
  <1>8. i \in SiteSlot => References(i) = [site |-> "remove", camera |-> "remove"]
    BY OneTable DEF References
  <1>9. i \in Layout => References(i) = [team |-> "refuse"]
    BY OneTable DEF References
  <1>10. i \in ScreenId => References(i) = [layout |-> "remove"]
    BY OneTable DEF References
  <1>11. i \in ViewId => References(i) = [screen |-> "remove"]
    BY OneTable DEF References
  <1>12. i \in Mapping => References(i) = [screen |-> "remove", view |-> "remove",
                                    camera |-> "remove", device |-> "clear"]
    BY OneTable DEF References
  <1>13. i \in Pc => References(i) = [team |-> "refuse", layout |-> "clear", manager |-> "clear"]
    BY OneTable DEF References
  <1>14. i \in Playing => References(i) = [pc |-> "remove", mapping |-> "remove"]
    BY OneTable DEF References
  <1> QED BY <1>1, <1>2, <1>3, <1>4, <1>5, <1>6, <1>7,
            <1>8, <1>9, <1>10, <1>11, <1>12, <1>13, <1>14

\* The references that remove.
LEMMA RemoveColumns ==
  \A i :
    /\ i \in Team \cup Site \cup Category \cup Layout \cup Pc => ColumnsThat("remove", i) = {}
    /\ i \in Device => ColumnsThat("remove", i) = {"site"}
    /\ i \in Camera => ColumnsThat("remove", i) = {"device"}
    /\ i \in Address => ColumnsThat("remove", i) = {"camera"}
    /\ i \in Membership => ColumnsThat("remove", i) = {"site", "team"}
    /\ i \in SiteCategory => ColumnsThat("remove", i) = {"site"}
    /\ i \in SiteConfig => ColumnsThat("remove", i) = {"site"}
    /\ i \in SiteSlot => ColumnsThat("remove", i) = {"site", "camera"}
    /\ i \in ScreenId => ColumnsThat("remove", i) = {"layout"}
    /\ i \in ViewId => ColumnsThat("remove", i) = {"screen"}
    /\ i \in Mapping => ColumnsThat("remove", i) = {"screen", "view", "camera"}
    /\ i \in Playing => ColumnsThat("remove", i) = {"pc", "mapping"}
  <1> TAKE i
  <1>1. i \in Team \cup Site \cup Category \cup Layout \cup Pc => ColumnsThat("remove", i) = {}
    BY ReferencesOf DEF ColumnsThat
  <1>2. i \in Device => ColumnsThat("remove", i) = {"site"}
    BY ReferencesOf DEF ColumnsThat
  <1>3. i \in Camera => ColumnsThat("remove", i) = {"device"}
    BY ReferencesOf DEF ColumnsThat
  <1>4. i \in Address => ColumnsThat("remove", i) = {"camera"}
    BY ReferencesOf DEF ColumnsThat
  <1>5. i \in Membership => ColumnsThat("remove", i) = {"site", "team"}
    BY ReferencesOf DEF ColumnsThat
  <1>6. i \in SiteCategory => ColumnsThat("remove", i) = {"site"}
    BY ReferencesOf DEF ColumnsThat
  <1>7. i \in SiteConfig => ColumnsThat("remove", i) = {"site"}
    BY ReferencesOf DEF ColumnsThat
  <1>8. i \in SiteSlot => ColumnsThat("remove", i) = {"site", "camera"}
    BY ReferencesOf DEF ColumnsThat
  <1>9. i \in ScreenId => ColumnsThat("remove", i) = {"layout"}
    BY ReferencesOf DEF ColumnsThat
  <1>10. i \in ViewId => ColumnsThat("remove", i) = {"screen"}
    BY ReferencesOf DEF ColumnsThat
  <1>11. i \in Mapping => ColumnsThat("remove", i) = {"screen", "view", "camera"}
    BY ReferencesOf DEF ColumnsThat
  <1>12. i \in Playing => ColumnsThat("remove", i) = {"pc", "mapping"}
    BY ReferencesOf DEF ColumnsThat
  <1> QED BY <1>1, <1>2, <1>3, <1>4, <1>5, <1>6, <1>7,
            <1>8, <1>9, <1>10, <1>11, <1>12

\* A reference that is not empty names a row of its table.
LEMMA ForeignRows ==
  ASSUME NEW d, ForeignKeysHold(d), \A i \in DOMAIN d : IsRow(i, d[i]), NEW i \in DOMAIN d
  PROVE  /\ i \in Device => d[i].site \in Site \cap DOMAIN d
         /\ i \in Camera => d[i].device \in Device \cap DOMAIN d
         /\ i \in Address => d[i].camera \in Camera \cap DOMAIN d
         /\ i \in Membership => d[i].site = i[1] /\ d[i].team = i[2] /\ {i[1], i[2]} \subseteq DOMAIN d
         /\ i \in SiteConfig => d[i].site = i[1] /\ i[1] \in DOMAIN d /\ d[i].grid \in Grid(ScreenSide)
         /\ i \in SiteSlot => /\ d[i].site = i[1] /\ d[i].slot = i[2] /\ i[1] \in DOMAIN d
                              /\ d[i].camera \in Camera \cap DOMAIN d
         /\ i \in Layout => d[i].team \in Team \cap DOMAIN d
         /\ i \in ScreenId => d[i].layout \in Layout \cap DOMAIN d
         /\ i \in ViewId => d[i].screen \in ScreenId \cap DOMAIN d
         /\ i \in Mapping => /\ d[i].screen \in ScreenId \cap DOMAIN d
                             /\ d[i].view \in ViewId \cap DOMAIN d
                             /\ d[i].slot \in Slot
                             /\ d[i].camera \in (Camera \cap DOMAIN d) \cup {None}
  <1>1. DOMAIN d[i] = DOMAIN RowType(i) /\ \A c \in DOMAIN RowType(i) : d[i][c] \in RowType(i)[c]
    BY DEF IsRow, Fits
  <1>2. \A c \in DOMAIN References(i) : d[i][c] = None \/ d[i][c] \in DOMAIN d
    BY DEF ForeignKeysHold, Dangles
  <1>3. i \in Device => d[i].site \in Site \cap DOMAIN d
    BY <1>1, <1>2, RowTypes, ReferencesOf, TablesAssumption DEF DeviceRow
  <1>4. i \in Camera => d[i].device \in Device \cap DOMAIN d
    BY <1>1, <1>2, RowTypes, ReferencesOf, TablesAssumption DEF CameraRow
  <1>5. i \in Address => d[i].camera \in Camera \cap DOMAIN d
    BY <1>1, <1>2, RowTypes, ReferencesOf, TablesAssumption DEF AddressRow
  <1>6. i \in Membership =>
          d[i].site = i[1] /\ d[i].team = i[2] /\ {i[1], i[2]} \subseteq DOMAIN d
    <2> SUFFICES ASSUME i \in Membership
                 PROVE  d[i].site = i[1] /\ d[i].team = i[2] /\ {i[1], i[2]} \subseteq DOMAIN d
      OBVIOUS
    <2>1. RowType(i) = MembershipRow(i) /\ References(i) = [site |-> "remove", team |-> "remove"]
      BY RowTypes, ReferencesOf
    <2>2. d[i].site = i[1] /\ d[i].team = i[2]
      BY <1>1, <2>1 DEF MembershipRow
    <2>3. i[1] # None /\ i[2] # None
      BY TablesAssumption DEF Membership
    <2> QED BY <1>2, <2>1, <2>2, <2>3
  <1>7. i \in SiteConfig => d[i].site = i[1] /\ i[1] \in DOMAIN d /\ d[i].grid \in Grid(ScreenSide)
    <2> SUFFICES ASSUME i \in SiteConfig
                 PROVE  d[i].site = i[1] /\ i[1] \in DOMAIN d /\ d[i].grid \in Grid(ScreenSide)
      OBVIOUS
    <2>1. RowType(i) = SiteConfigRow(i) /\ References(i) = [site |-> "remove"]
      BY RowTypes, ReferencesOf
    <2>2. d[i].site = i[1] /\ d[i].grid \in Grid(ScreenSide)
      BY <1>1, <2>1 DEF SiteConfigRow
    <2>3. i[1] # None
      BY TablesAssumption DEF SiteConfig
    <2> QED BY <1>2, <2>1, <2>2, <2>3
  <1>8. i \in SiteSlot => /\ d[i].site = i[1] /\ d[i].slot = i[2] /\ i[1] \in DOMAIN d
                          /\ d[i].camera \in Camera \cap DOMAIN d
    <2> SUFFICES ASSUME i \in SiteSlot
                 PROVE  /\ d[i].site = i[1] /\ d[i].slot = i[2] /\ i[1] \in DOMAIN d
                        /\ d[i].camera \in Camera \cap DOMAIN d
      OBVIOUS
    <2>1. RowType(i) = SiteSlotRow(i) /\ References(i) = [site |-> "remove", camera |-> "remove"]
      BY RowTypes, ReferencesOf
    <2>2. d[i].site = i[1] /\ d[i].slot = i[2] /\ d[i].camera \in Camera
      BY <1>1, <2>1 DEF SiteSlotRow
    <2>3. i[1] # None /\ d[i].camera # None
      BY <2>2, TablesAssumption DEF SiteSlot
    <2> QED BY <1>2, <2>1, <2>2, <2>3
  <1>9. i \in Layout => d[i].team \in Team \cap DOMAIN d
    BY <1>1, <1>2, RowTypes, ReferencesOf, TablesAssumption DEF LayoutRow
  <1>10. i \in ScreenId => d[i].layout \in Layout \cap DOMAIN d
    BY <1>1, <1>2, RowTypes, ReferencesOf, TablesAssumption DEF ScreenRow
  <1>11. i \in ViewId => d[i].screen \in ScreenId \cap DOMAIN d
    BY <1>1, <1>2, RowTypes, ReferencesOf, TablesAssumption DEF ViewRow
  <1>12. i \in Mapping => /\ d[i].screen \in ScreenId \cap DOMAIN d
                          /\ d[i].view \in ViewId \cap DOMAIN d
                          /\ d[i].slot \in Slot
                          /\ d[i].camera \in (Camera \cap DOMAIN d) \cup {None}
    <2> SUFFICES ASSUME i \in Mapping
                 PROVE  /\ d[i].screen \in ScreenId \cap DOMAIN d
                        /\ d[i].view \in ViewId \cap DOMAIN d
                        /\ d[i].slot \in Slot
                        /\ d[i].camera \in (Camera \cap DOMAIN d) \cup {None}
      OBVIOUS
    <2>1. /\ RowType(i) = MappingRow
          /\ References(i) = [screen |-> "remove", view |-> "remove",
                              camera |-> "remove", device |-> "clear"]
      BY RowTypes, ReferencesOf
    <2>2. /\ d[i].screen \in ScreenId /\ d[i].view \in ViewId /\ d[i].slot \in Slot
          /\ d[i].camera \in Camera \cup {None}
      BY <1>1, <2>1 DEF MappingRow, OrNone
    <2>3. None \notin ScreenId /\ None \notin ViewId
      BY TablesAssumption
    <2> QED BY <1>2, <2>1, <2>2, <2>3
  <1> QED BY <1>3, <1>4, <1>5, <1>6, <1>7, <1>8, <1>9, <1>10, <1>11, <1>12

\* What a removal takes with it.
LEMMA GoneBelow ==
  ASSUME NEW D, NEW i \in DOMAIN db, NEW c \in ColumnsThat("remove", i),
         db[i][c] # None, db[i][c] \in D \cap DOMAIN db
  PROVE  i \in Gone(D)
  <1> DEFINE A == D \cap DOMAIN db
  <1>1. \A S : S \subseteq WithBelow(S)
    BY DEF WithBelow
  <1>2. i \in WithBelow(A)
    BY DEF WithBelow, Below
  <1> QED BY <1>1, <1>2 DEF Gone

\* Rows of these tables go only if they are named.
LEMMA GoneAlone ==
  ASSUME NEW D, NEW i \in Gone(D)
  PROVE  i \in Team \cup Site \cup Category \cup Layout \cup Pc => i \in D
  BY GoneRows, RemoveColumns

\* Rows that refer to others.
LEMMA Referring ==
  \A i : ColumnsThat("remove", i) # {} =>
          i \in Device \cup Camera \cup Address \cup Membership \cup SiteCategory \cup SiteConfig
                  \cup SiteSlot \cup ScreenId \cup ViewId \cup Mapping \cup Playing
  <1> SUFFICES ASSUME NEW i,
                      i \notin Device \cup Camera \cup Address \cup Membership \cup SiteCategory
                                 \cup SiteConfig \cup SiteSlot \cup ScreenId \cup ViewId
                                 \cup Mapping \cup Playing
               PROVE  ColumnsThat("remove", i) = {}
    OBVIOUS
  <1>1. CASE i \in Layout \cup Pc
    BY <1>1, RemoveColumns
  <1>2. CASE i \notin Layout \cup Pc
    BY <1>2 DEF ColumnsThat, References
  <1> QED BY <1>1, <1>2

\* Nothing but the state of players hangs on rows that queries remove.
LEMMA PurgedBelow ==
  ASSUME TablesInv, NEW i \in DOMAIN db, NEW c \in ColumnsThat("remove", i),
         db[i][c] # None, db[i][c] \in Purged \cup Playing
  PROVE  i \in Playing
  <1> USE OneTable, RemoveColumns DEF Purged
  <1>1. /\ ForeignKeysHold(db) /\ \A k \in DOMAIN db : IsRow(k, db[k])
    BY DEF TablesInv, TablesTypeOK
  <1>2. i \in Device \cup Camera \cup Address \cup Membership \cup SiteCategory \cup SiteConfig
              \cup SiteSlot \cup ScreenId \cup ViewId \cup Mapping \cup Playing
    BY Referring
  <1>3. CASE i \in Device
    BY <1>1, <1>3, ForeignRows
  <1>4. CASE i \in Camera
    BY <1>1, <1>4, ForeignRows
  <1>5. CASE i \in Address
    BY <1>1, <1>5, ForeignRows
  <1>6. CASE i \in Membership
    <2>1. db[i].site \in Site /\ db[i].team \in Team
      BY <1>1, <1>6, ForeignRows DEF Membership
    <2> QED BY <1>6, <2>1
  <1>7. CASE i \in SiteCategory
    <2>1. db[i].site \in Site
      <3>1. IsRow(i, db[i]) /\ RowType(i) = SiteCategoryRow(i)
        BY <1>1, <1>7, RowTypes
      <3> QED BY <1>7, <3>1 DEF IsRow, Fits, SiteCategoryRow, SiteCategory
    <2> QED BY <1>7, <2>1
  <1>8. CASE i \in SiteConfig
    <2>1. db[i].site \in Site
      BY <1>1, <1>8, ForeignRows DEF SiteConfig
    <2> QED BY <1>8, <2>1
  <1>9. CASE i \in SiteSlot
    <2>1. db[i].site \in Site /\ db[i].camera \in Camera
      BY <1>1, <1>9, ForeignRows DEF SiteSlot
    <2> QED BY <1>9, <2>1
  <1>10. CASE i \in ScreenId
    BY <1>1, <1>10, ForeignRows
  <1>11. CASE i \in ViewId
    BY <1>1, <1>11, ForeignRows
  <1>12. CASE i \in Mapping
    <2>1. /\ db[i].screen \in ScreenId /\ db[i].view \in ViewId
          /\ db[i].camera \in Camera \cup {None}
      BY <1>1, <1>12, ForeignRows
    <2> QED BY <1>12, <2>1
  <1> QED BY <1>2, <1>3, <1>4, <1>5, <1>6, <1>7, <1>8, <1>9, <1>10, <1>11, <1>12

\* Rows that queries delete take with them nothing but states of streams.
LEMMA GoneOfQueries ==
  ASSUME TablesInv, NEW D, D \subseteq Purged
  PROVE  Gone(D) \subseteq D \cup Playing
  <1>1. ASSUME NEW S, S \subseteq D \cup Playing
        PROVE  WithBelow(S) \subseteq D \cup Playing
    BY <1>1, PurgedBelow DEF WithBelow, Below
  <1> QED BY <1>1 DEF Gone

-----------------------------------------------------------------------------
(* What a transaction leaves as it was *)

\* Rows that a transaction may both remove and make.
Rewritten == Membership \cup SiteCategory \cup SiteConfig \cup SiteSlot \cup Playing

\* Of other rows it makes none that are there.
LEMMA NewRows ==
  ASSUME TablesInv, NEW tx, Typed(tx, serial), Holds(tx)
  PROVE  DOMAIN tx.new \cap DOMAIN db \subseteq Rewritten
  <1>1. tx.purge \subseteq Purged /\ (tx.purge \cap Mapping # {} => DOMAIN tx.new = {})
    BY DEF Typed, TypedRows, Cautious
  <1>2. DOMAIN tx.new \cap DOMAIN db \subseteq Gone(tx.purge)
    BY DEF Holds
  <1>3. Gone(tx.purge) \subseteq tx.purge \cup Playing
    BY <1>1, GoneOfQueries
  <1> QED BY <1>1, <1>2, <1>3 DEF Purged, Rewritten

\* The columns that it writes in row i.
ColumnsWritten(tx, i) ==
  (IF i \in DOMAIN tx.set THEN DOMAIN tx.set[i] ELSE {})
    \cup (IF i \in DOMAIN tx.bulk THEN DOMAIN tx.bulk[i] ELSE {})

\* A row that is there before and after.
LEMMA Stays ==
  ASSUME TablesInv, NEW tx, Typed(tx, serial), Holds(tx),
         NEW i \in DOMAIN db \cap DOMAIN After(tx), i \notin Rewritten
  PROVE  /\ i \notin Removed(tx) /\ i \notin DOMAIN tx.new
         /\ DOMAIN After(tx)[i] = DOMAIN db[i]
         /\ \A c \in DOMAIN db[i] :
              c \notin ColumnsThat("clear", i) =>
                /\ After(tx)[i][c] = Written(tx, i)[c]
                /\ c \notin ColumnsWritten(tx, i) => After(tx)[i][c] = db[i][c]
  <1>1. i \notin DOMAIN tx.new
    BY NewRows
  <1>2. i \notin Removed(tx)
    BY <1>1, AfterRows
  <1>3. /\ DOMAIN After(tx)[i] = DOMAIN db[i]
        /\ \A c \in DOMAIN db[i] :
             c \notin ColumnsThat("clear", i) => After(tx)[i][c] = Written(tx, i)[c]
    <2>1. i \in DOMAIN db \ (Removed(tx) \cup DOMAIN tx.new)
      BY <1>1, <1>2
    <2>2. /\ DOMAIN After(tx)[i] = DOMAIN db[i]
          /\ \A c \in DOMAIN db[i] :
               After(tx)[i][c] =
                 IF c \in ColumnsThat("clear", i) /\ Written(tx, i)[c] \in Removed(tx)
                 THEN None ELSE Written(tx, i)[c]
      BY <2>1, AfterRows
    <2> QED BY <2>2
  <1>4. \A c \in DOMAIN db[i] : c \notin ColumnsWritten(tx, i) => Written(tx, i)[c] = db[i][c]
    BY DEF Written, ColumnsWritten, ++
  <1> QED BY <1>1, <1>2, <1>3, <1>4

-----------------------------------------------------------------------------
(* What a request has checked, true until another one changes a row *)

\* The columns that requests write, and those that only a move writes.
Steady ==
  {<<5, "new">>, <<6, "active">>, <<6, "quarantined">>, <<11, "team">>, <<15, "layout">>}
    \cup ({7} \X {"site", "team"}) \cup ({12} \X {"name", "rows", "cols"})
    \cup ({13} \X {"number", "rows", "cols"}) \cup ({14} \X {"camera", "device"})
    \cup ({16} \X {"pc", "mapping", "playing"})

Moves ==
  {<<"screen.moved", 12, "layout">>, <<"device.moved", 4, "site">>,
   <<"camera.moved", 5, "device">>}

MovesIn(op) == {<<x[2], x[3]>> : x \in {y \in Moves : y[1] = op}}

\* Requests that place cameras, and that give a layout to another team.
Placing(tx) ==
  \/ DOMAIN tx.new \cap Mapping # {}
  \/ \E m \in Mapping : "camera" \in ColumnsWritten(tx, m)

Regrouping(tx) == \E l \in Layout : "team" \in ColumnsWritten(tx, l)

\* No request does two of these: place cameras, give a layout to another team, take a site
\* from a team; and one that places cameras leaves the grids alone.
Apart(tx) ==
  /\ Placing(tx) \/ Regrouping(tx) => (tx.del \cup tx.purge) \cap Membership = {}
  /\ Placing(tx) =>
       /\ ~Regrouping(tx)
       /\ \A v \in ViewId : ColumnsWritten(tx, v) \cap {"rows", "cols"} = {}

\* Sites that a team loses are not shown on its layouts.
MembersFree(tx) ==
  \A i \in (tx.del \cup tx.purge) \cap Membership :
    LayoutsBlockingSiteUnassign(i[1], i[2]) = {}

\* A layout that is given to another team shows cameras of that team.
TeamsFree(tx) ==
  \A l \in DOMAIN tx.set \cap Layout :
    "team" \in DOMAIN tx.set[l] => CamerasBlockingLayoutMove(l, tx.set[l].team) = {}

CameraMayShow(c, s) == c = None \/ (Exists(c) /\ CameraFitsScreen(c, s))

\* A new mapping is in the grid and on the screen of its view, and its camera may be
\* shown there; so may one that a mapping changes to.
PlacementsFit(op, tx) ==
  /\ \A m \in DOMAIN tx.new \cap Mapping :
       LET row == tx.new[m] IN
       /\ Exists(row.view) /\ row.screen = db[row.view].screen
       /\ InGrid(row.slot, row.view)
       /\ op # "slot.assigned" => CameraMayShow(row.camera, row.screen)
  /\ \A m \in DOMAIN tx.set \cap Mapping :
       "camera" \in DOMAIN tx.set[m] /\ OnItsView(m) /\ op # "slot.assigned" =>
         CameraMayShow(tx.set[m].camera, db[m].screen)

\* Only update_view writes the grid of one view; a screen that is resized loses what
\* is outside.
GridsClear(op, tx) ==
  /\ \A v \in DOMAIN tx.set \cap ViewId :
       DOMAIN tx.set[v] \cap {"rows", "cols"} # {} => op = "view.updated"
  /\ \A v \in DOMAIN tx.bulk \cap ViewId :
       DOMAIN tx.bulk[v] \cap {"rows", "cols"} # {} =>
         /\ DOMAIN tx.bulk[v] = {"rows", "cols"}
         /\ \A m \in Rows(Mapping) :
              db[m].screen = db[v].screen /\ Outside(m, tx.bulk[v].rows, tx.bulk[v].cols) =>
                m \in tx.purge

\* A new slot of a site comes with its configuration, is in its grid and shows a camera
\* of the site; a configuration that goes or is new takes the old slots with it.
LayoutsWhole(tx) ==
  /\ \A i \in DOMAIN tx.new \cap SiteSlot :
       LET config == <<i[1], None>> IN
       /\ config \in DOMAIN tx.new
       /\ i[2][1] <= tx.new[config].grid[1] /\ i[2][2] <= tx.new[config].grid[2]
       /\ SiteOfCamera(tx.new[i].camera) = i[1]
  /\ \A k \in (DOMAIN tx.new \cup tx.del \cup tx.purge) \cap SiteConfig :
       SlotsOf(k[1]) \subseteq tx.del \cup tx.purge

\* A new address is for a camera that has none, or that is owed one; one is owed for
\* a new camera and for an address that goes out of use.
AddressesDue(j) ==
  /\ DOMAIN j.tx.new \cap Address # {} =>
       \E a \in Address, c \in Camera :
         /\ DOMAIN j.tx.new = {a} /\ j.tx.new[a].camera = c
         /\ j.then = None
         /\ \/ j.op = "address.reissued"
            \/ j.op = "address.created" /\ ActiveAddresses(c) = {}
            \/ j.op = "address.provisioned" /\ j.arg = c
  /\ \A a \in DOMAIN j.tx.set \cap Address :
       "active" \in DOMAIN j.tx.set[a] => j.tx.set[a].active = FALSE
  /\ j.then # None /\ j.then = "address.provisioned" =>
       /\ DOMAIN j.tx.new \cap Address = {} /\ j.tx.purge = {}
       /\ \/ j.arg \in DOMAIN j.tx.new
          \/ \E a \in ActiveAddresses(j.arg) :
               a \in DOMAIN j.tx.set /\ DOMAIN j.tx.set[a] = {"active"}

\* The layout that a screen, a view or a mapping is under.
Under(i) == IF i \in ScreenId THEN db[i].layout ELSE db[db[i].screen].layout

WallRows == ScreenId \cup ViewId \cup Mapping

\* An edit stamps the layout of what it changes; a screen that moves changes layouts.
EditsStamped(op, tx) ==
  op \in Edits =>
    /\ DOMAIN tx.new \cup DOMAIN tx.set \cup DOMAIN tx.bulk \cup tx.del \cup tx.purge
         \subseteq WallRows
    /\ \A s \in DOMAIN tx.new \cap ScreenId : tx.new[s].layout \in tx.touch
    /\ \A i \in DOMAIN tx.new \cap (ViewId \cup Mapping) :
         Exists(tx.new[i].screen) /\ LayoutOfScreen(tx.new[i].screen) \in tx.touch
    /\ \A s \in DOMAIN tx.set \cap ScreenId :
         "layout" \in DOMAIN tx.set[s] =>
           /\ tx.set[s].layout \in tx.touch /\ tx.set[s].layout # db[s].layout
           /\ tx.del = {}
    /\ \A i \in DOMAIN tx.set \cup DOMAIN tx.bulk \cup tx.del \cup tx.purge :
         \/ i \in DOMAIN db /\ Under(i) \in tx.touch
         \/ i \in Mapping /\ ~OnItsView(i)
         \/ op = "screen.moved" /\ \E s \in DOMAIN tx.set \cap ScreenId :
              "layout" \in DOMAIN tx.set[s] /\ Under(i) = db[s].layout

\* What replace_view_slots is about to write in view v: a row for each slot without one,
\* the camera of the body in the others, and no slot that the body leaves out.
SlotsPlan(tx, v, target) ==
  /\ DOMAIN tx.new \subseteq Mapping
  /\ \A m \in DOMAIN tx.new :
       \E slot \in EmptySlots(v, target) : tx.new[m] = RowAt(v, target, slot)
  /\ \A slot \in EmptySlots(v, target) :
       \E m \in DOMAIN tx.new : tx.new[m] = RowAt(v, target, slot)
  /\ \A m \in Kept(v, target) :
       IF "camera" \in ColumnsWritten(tx, m)
       THEN tx.set[m].camera = target[db[m].slot].camera
       ELSE db[m].camera = target[db[m].slot].camera
  /\ tx.del = There(v) \ Kept(v, target)
  /\ tx.purge = {} /\ DOMAIN tx.bulk = {}

SlotsPlanned(j) ==
  j.op = "slots.replaced" =>
    \E v \in Rows(ViewId), target \in SlotsBody :
      j.arg = [view |-> v, slots |-> target] /\ SlotsPlan(j.tx, v, target)

Plan(j) ==
  /\ Within(j.tx, 1..16, Steady \cup MovesIn(j.op), 1..16) /\ Cautious(j.tx)
  /\ Apart(j.tx) /\ MembersFree(j.tx) /\ TeamsFree(j.tx)
  /\ PlacementsFit(j.op, j.tx) /\ GridsClear(j.op, j.tx)
  /\ LayoutsWhole(j.tx) /\ AddressesDue(j)
  /\ EditsStamped(j.op, j.tx) /\ SlotsPlanned(j)

PlansInv ==
  /\ TablesInv
  /\ \A w \in Worker : Active(w) /\ job[w].alone => Plan(job[w])

\* What a request that begins leaves in the job of its worker.
LEMMA Begun ==
  ASSUME TablesInv, NEW w \in Worker, NEW ops, NEW adds, NEW sets, NEW drops,
         Begins(w, ops, adds, sets, drops)
  PROVE  /\ DOMAIN job' = Worker /\ \A v \in Worker \ {w} : job'[v] = job[v]
         /\ DOMAIN job'[w] = {"op", "tx", "then", "arg", "alone"}
         /\ job'[w].op \in ops
         /\ job'[w].then # None => job'[w].op \in Chained
         /\ Within(job'[w].tx, adds, sets, drops) /\ Cautious(job'[w].tx)
         /\ \/ job[w] = Idle /\ job'[w].op # "address.provisioned"
            \/ /\ job[w] # Idle /\ job'[w].op = job[w].op /\ job'[w].alone = job[w].alone
               /\ job'[w].op = "address.provisioned" => job'[w].arg = job[w].arg
         /\ db' = db
  <1>1. PICK j :
          /\ job' = [job EXCEPT ![w] = j]
          /\ DOMAIN j = {"op", "tx", "then", "arg", "alone"}
          /\ j.op \in ops /\ (j.then # None => j.op \in Chained)
          /\ Within(j.tx, adds, sets, drops) /\ Cautious(j.tx)
          /\ \/ job[w] = Idle /\ j.op # "address.provisioned"
             \/ /\ job[w] # Idle /\ j.op = job[w].op /\ j.alone = job[w].alone
                /\ j.op = "address.provisioned" => j.arg = job[w].arg
          /\ db' = db
    BY DEF Begins, Typed
  <1>2. job'[w] = j /\ DOMAIN job' = Worker /\ \A v \in Worker \ {w} : job'[v] = job[v]
    BY <1>1 DEF TablesInv
  <1> QED BY <1>1, <1>2

\* Worker w has got as far as a transaction, of which the plan holds.
Planned(w) == db' = db /\ (\A v \in Worker \ {w} : job'[v] = job[v]) /\ Plan(job'[w])

\* A part of the plan says nothing of a transaction that writes elsewhere.
LEMMA Unconcerned ==
  ASSUME NEW op, NEW tx, NEW adds, NEW sets, NEW drops, Within(tx, adds, sets, drops)
  PROVE  /\ 7 \notin drops => MembersFree(tx)
         /\ <<11, "team">> \notin sets => TeamsFree(tx)
         /\ 14 \notin adds /\ <<14, "camera">> \notin sets => PlacementsFit(op, tx)
         /\ <<13, "rows">> \notin sets /\ <<13, "cols">> \notin sets => GridsClear(op, tx)
         /\ 9 \notin adds /\ 10 \notin adds /\ 9 \notin drops => LayoutsWhole(tx)
         /\ op \notin Edits => EditsStamped(op, tx)
  <1>1. 7 \notin drops => MembersFree(tx)
    BY OneTable DEF Within, MembersFree
  <1>2. <<11, "team">> \notin sets => TeamsFree(tx)
    BY OneTable DEF Within, TeamsFree
  <1>3. 14 \notin adds /\ <<14, "camera">> \notin sets => PlacementsFit(op, tx)
    BY OneTable DEF Within, PlacementsFit
  <1>4. <<13, "rows">> \notin sets /\ <<13, "cols">> \notin sets => GridsClear(op, tx)
    BY OneTable DEF Within, GridsClear
  <1>5. 9 \notin adds /\ 10 \notin adds /\ 9 \notin drops => LayoutsWhole(tx)
    BY OneTable DEF Within, LayoutsWhole
  <1>6. op \notin Edits => EditsStamped(op, tx)
    BY DEF EditsStamped
  <1> QED BY <1>1, <1>2, <1>3, <1>4, <1>5, <1>6

\* A transaction that writes no address owes nothing to the rule of one active address.
LEMMA NoAddressDue ==
  ASSUME NEW j, NEW adds, NEW sets, NEW drops, Within(j.tx, adds, sets, drops),
         6 \notin adds, <<6, "active">> \notin sets,
         j.then = None \/ j.then # "address.provisioned"
  PROVE  AddressesDue(j)
  BY OneTable DEF Within, AddressesDue

\* What a transaction writes, by tables.
LEMMA WithinColumns ==
  ASSUME NEW tx, NEW adds, NEW sets, NEW drops, Within(tx, adds, sets, drops)
  PROVE  /\ \A i : \A c \in ColumnsWritten(tx, i) : <<TableNumber(i), c>> \in sets
         /\ \A l \in Layout : "team" \in ColumnsWritten(tx, l) => <<11, "team">> \in sets
         /\ \A v \in ViewId : \A c \in ColumnsWritten(tx, v) : <<13, c>> \in sets
         /\ Placing(tx) => 14 \in adds \/ <<14, "camera">> \in sets
         /\ Regrouping(tx) => <<11, "team">> \in sets
  <1>1. \A i : \A c \in ColumnsWritten(tx, i) : <<TableNumber(i), c>> \in sets
    BY DEF Within, ColumnsWritten
  <1>2. \A l \in Layout : "team" \in ColumnsWritten(tx, l) => <<11, "team">> \in sets
    BY <1>1, OneTable
  <1>3. \A v \in ViewId : \A c \in ColumnsWritten(tx, v) : <<13, c>> \in sets
    BY <1>1, OneTable
  <1>4. Placing(tx) => 14 \in adds \/ <<14, "camera">> \in sets
    BY <1>1, OneTable DEF Placing, Within
  <1> QED BY <1>1, <1>2, <1>3, <1>4 DEF Regrouping

\* The parts of the plan that a request has to account for.
LEMMA PlannedBy ==
  ASSUME TablesInv, NEW w \in Worker, NEW ops, NEW adds, NEW sets, NEW drops,
         Begins(w, ops, adds, sets, drops), NEW j, j = job'[w],
         adds \subseteq 1..16, drops \subseteq 1..16,
         \A op \in ops : sets \subseteq Steady \cup MovesIn(op),
         7 \notin drops \/ MembersFree(j.tx),
         <<11, "team">> \notin sets \/ (7 \notin drops /\ TeamsFree(j.tx)),
         \/ 14 \notin adds /\ <<14, "camera">> \notin sets
         \/ /\ 7 \notin drops
            /\ sets \cap {<<11, "team">>, <<13, "rows">>, <<13, "cols">>} = {}
            /\ PlacementsFit(j.op, j.tx),
         sets \cap {<<13, "rows">>, <<13, "cols">>} = {} \/ GridsClear(j.op, j.tx),
         (adds \cap {9, 10} = {} /\ 9 \notin drops) \/ LayoutsWhole(j.tx),
         (6 \notin adds /\ <<6, "active">> \notin sets /\ ops \cap Chained = {}) \/ AddressesDue(j),
         ops \cap Edits = {} \/ EditsStamped(j.op, j.tx),
         "slots.replaced" \notin ops \/ SlotsPlanned(j)
  PROVE  Planned(w)
  <1>1. /\ j.op \in ops /\ (j.then # None => j.op \in Chained)
        /\ Within(j.tx, adds, sets, drops) /\ Cautious(j.tx) /\ db' = db
        /\ \A v \in Worker \ {w} : job'[v] = job[v]
    BY Begun
  <1>2. PICK op, tx : op = j.op /\ tx = j.tx
    OBVIOUS
  <1>3. Within(tx, 1..16, Steady \cup MovesIn(op), 1..16)
    BY <1>1, <1>2 DEF Within
  <1>4. /\ MembersFree(tx) /\ TeamsFree(tx) /\ PlacementsFit(op, tx) /\ GridsClear(op, tx)
        /\ LayoutsWhole(tx) /\ EditsStamped(op, tx)
    BY <1>1, <1>2, Unconcerned
  <1>7. Apart(tx)
    <2>1. Within(tx, adds, sets, drops)
      BY <1>1, <1>2
    <2>2. Placing(tx) => 14 \in adds \/ <<14, "camera">> \in sets
      BY <2>1, WithinColumns
    <2>3. Regrouping(tx) => <<11, "team">> \in sets
      BY <2>1, WithinColumns
    <2>4. 7 \notin drops => (tx.del \cup tx.purge) \cap Membership = {}
      BY <2>1, OneTable DEF Within
    <2>5. sets \cap {<<13, "rows">>, <<13, "cols">>} = {} =>
            \A v \in ViewId : ColumnsWritten(tx, v) \cap {"rows", "cols"} = {}
      BY <2>1, WithinColumns
    <2>6. Placing(tx) \/ Regrouping(tx) => 7 \notin drops
      BY <2>2, <2>3
    <2>7. Placing(tx) => sets \cap {<<11, "team">>, <<13, "rows">>, <<13, "cols">>} = {}
      BY <2>2
    <2> QED BY <2>3, <2>4, <2>5, <2>6, <2>7 DEF Apart
  <1>5. AddressesDue(j)
    BY <1>1, NoAddressDue
  <1>6. SlotsPlanned(j)
    BY <1>1 DEF SlotsPlanned
  <1> QED BY <1>1, <1>2, <1>3, <1>4, <1>5, <1>6, <1>7 DEF Planned, Plan

\* A request that touches nothing the plan speaks of.
LEMMA PlainlyPlanned ==
  ASSUME TablesInv, NEW w \in Worker, NEW ops, NEW adds, NEW sets, NEW drops,
         Begins(w, ops, adds, sets, drops),
         adds \subseteq 1..16 \ {6, 9, 10, 14}, drops \subseteq 1..16 \ {7, 9},
         \A op \in ops : sets \subseteq Steady \cup MovesIn(op),
         sets \cap {<<6, "active">>, <<11, "team">>, <<13, "rows">>, <<13, "cols">>,
                    <<14, "camera">>} = {},
         ops \cap Edits = {}, ops \cap Chained = {}, "slots.replaced" \notin ops
  PROVE  Planned(w)
  <1>1. PICK j : j = job'[w]
    OBVIOUS
  <1>2. /\ adds \subseteq 1..16 /\ drops \subseteq 1..16 /\ 7 \notin drops /\ 9 \notin drops
        /\ 14 \notin adds /\ 6 \notin adds /\ adds \cap {9, 10} = {}
    OBVIOUS
  <1>3. /\ <<11, "team">> \notin sets /\ <<14, "camera">> \notin sets
        /\ <<6, "active">> \notin sets
        /\ sets \cap {<<13, "rows">>, <<13, "cols">>} = {}
    OBVIOUS
  <1> QED BY <1>1, <1>2, <1>3, PlannedBy

\* The columns that are written but by a move, and by a move.
LEMMA WrittenColumns ==
  /\ {<<15, "layout">>} \subseteq Steady /\ {<<5, "new">>} \subseteq Steady
  /\ {<<6, "quarantined">>} \subseteq Steady /\ {<<6, "active">>} \subseteq Steady
  /\ {<<11, "team">>} \subseteq Steady /\ {<<14, "camera">>} \subseteq Steady
  /\ {14} \X {"camera", "device"} \subseteq Steady
  /\ {13} \X {"number", "rows", "cols"} \subseteq Steady
  /\ {16} \X {"pc", "mapping", "playing"} \subseteq Steady
  /\ {7} \X {"site", "team"} \subseteq Steady
  /\ {<<4, "site">>} \subseteq MovesIn("device.moved")
  /\ {<<5, "device">>} \subseteq MovesIn("camera.moved")
  /\ {<<12, "layout">>} \subseteq MovesIn("screen.moved")
  <1>1. /\ {<<15, "layout">>} \subseteq Steady /\ {<<5, "new">>} \subseteq Steady
        /\ {<<6, "quarantined">>} \subseteq Steady /\ {<<6, "active">>} \subseteq Steady
        /\ {<<11, "team">>} \subseteq Steady
    BY DEF Steady
  <1>2. /\ {<<14, "camera">>} \subseteq Steady
        /\ {14} \X {"camera", "device"} \subseteq Steady
        /\ {13} \X {"number", "rows", "cols"} \subseteq Steady
        /\ {16} \X {"pc", "mapping", "playing"} \subseteq Steady
        /\ {7} \X {"site", "team"} \subseteq Steady
    BY DEF Steady
  <1>3. {<<4, "site">>} \subseteq MovesIn("device.moved")
    <2>1. <<"device.moved", 4, "site">> \in {y \in Moves : y[1] = "device.moved"}
      BY DEF Moves
    <2> QED BY <2>1 DEF MovesIn
  <1>4. {<<5, "device">>} \subseteq MovesIn("camera.moved")
    <2>1. <<"camera.moved", 5, "device">> \in {y \in Moves : y[1] = "camera.moved"}
      BY DEF Moves
    <2> QED BY <2>1 DEF MovesIn
  <1>5. {<<12, "layout">>} \subseteq MovesIn("screen.moved")
    <2>1. <<"screen.moved", 12, "layout">> \in {y \in Moves : y[1] = "screen.moved"}
      BY DEF Moves
    <2> QED BY <2>1 DEF MovesIn
  <1> QED BY <1>1, <1>2, <1>3, <1>4, <1>5

\* Requests whose transactions the plan says nothing of.
PlainRequest(w) ==
  \/ CreateLayout(w) \/ DeleteLayout(w) \/ SetPlayingState(w) \/ CreateTeam(w)
  \/ DeleteTeam(w) \/ AssignSites(w) \/ CreateSite(w) \/ DeleteSite(w) \/ CreateDevice(w)
  \/ MoveDevice(w) \/ DeleteDevice(w) \/ MoveCamera(w) \/ DeleteCamera(w) \/ FlagCamera(w)
  \/ QuarantineAddress(w) \/ CreateCategory(w) \/ AssignPcs(w) \/ UnassignPcs(w)
  \/ CategoryRequest(w)

\* The requests that check nothing another request could change.
LEMMA PlainRequestPlans ==
  ASSUME TablesInv, NEW w \in Worker, PlainRequest(w)
  PROVE  Planned(w)
  <1> USE WrittenColumns DEF Edits, Chained
  <1>1. CASE CreateLayout(w)
    BY <1>1, CreateLayoutBegins, PlainlyPlanned
  <1>2. CASE DeleteLayout(w)
    BY <1>2, DeleteLayoutBegins, PlainlyPlanned
  <1>3. CASE SetPlayingState(w)
    BY <1>3, SetPlayingStateBegins, PlainlyPlanned
  <1>4. CASE CreateTeam(w)
    BY <1>4, CreateTeamBegins, PlainlyPlanned
  <1>5. CASE DeleteTeam(w)
    BY <1>5, DeleteTeamBegins, PlainlyPlanned
  <1>6. CASE AssignSites(w)
    BY <1>6, AssignSitesBegins, PlainlyPlanned
  <1>7. CASE CreateSite(w)
    BY <1>7, CreateSiteBegins, PlainlyPlanned
  <1>8. CASE DeleteSite(w)
    BY <1>8, DeleteSiteBegins, PlainlyPlanned
  <1>9. CASE CreateDevice(w)
    BY <1>9, CreateDeviceBegins, PlainlyPlanned
  <1>10. CASE MoveDevice(w)
    BY <1>10, MoveDeviceBegins, PlainlyPlanned
  <1>11. CASE DeleteDevice(w)
    BY <1>11, DeleteDeviceBegins, PlainlyPlanned
  <1>12. CASE MoveCamera(w)
    BY <1>12, MoveCameraBegins, PlainlyPlanned
  <1>13. CASE DeleteCamera(w)
    BY <1>13, DeleteCameraBegins, PlainlyPlanned
  <1>14. CASE FlagCamera(w)
    BY <1>14, FlagCameraBegins, PlainlyPlanned
  <1>15. CASE QuarantineAddress(w)
    BY <1>15, QuarantineAddressBegins, PlainlyPlanned
  <1>16. CASE CreateCategory(w)
    BY <1>16, CreateCategoryBegins, PlainlyPlanned
  <1>17. CASE AssignPcs(w)
    BY <1>17, AssignPcsBegins, PlainlyPlanned
  <1>18. CASE UnassignPcs(w)
    BY <1>18, AssignPcsBegins, PlainlyPlanned
  <1>19. CASE CategoryRequest(w)
    BY <1>19, CategoryRequestBegins, PlainlyPlanned DEF CategoryOps
  <1> QED BY <1>1, <1>2, <1>3, <1>4, <1>5, <1>6, <1>7, <1>8, <1>9, <1>10, <1>11, <1>12,
            <1>13, <1>14, <1>15, <1>16, <1>17, <1>18, <1>19 DEF PlainRequest

\* The job of a request that is accepted.
LEMMA Prepared ==
  ASSUME TablesInv, NEW w \in Worker, NEW op, NEW tx, NEW then, NEW arg,
         AcceptedThen(w, op, tx, then, arg)
  PROVE  /\ job'[w].op = op /\ job'[w].tx = tx /\ job'[w].then = then /\ job'[w].arg = arg
         /\ job'[w].alone /\ db' = db
  BY DEF AcceptedThen, Job, TablesInv

\* A layout changes teams only with cameras its new team may show.
LEMMA UpdateLayoutPlans ==
  ASSUME TablesInv, NEW w \in Worker, UpdateLayout(w)
  PROVE  Planned(w)
  <1>1. PICK l \in Rows(Layout), t \in LayoutBody :
          /\ t # db[l].team => Exists(t) /\ CamerasBlockingLayoutMove(l, t) = {}
          /\ Accepted(w, "layout.updated", Setting(l, Changed(l, [team |-> t])))
    BY DEF UpdateLayout
  <1>2. PICK j, columns : j = job'[w] /\ columns = Changed(l, [team |-> t])
    OBVIOUS
  <1>3. j.tx = Setting(l, columns)
    BY <1>1, <1>2, Prepared DEF Accepted
  <1>4. TeamsFree(j.tx)
    <2>1. DOMAIN j.tx.set = {l} /\ j.tx.set[l] = columns
      BY <1>3, Transactions
    <2>2. "team" \in DOMAIN columns => columns["team"] = t /\ t # db[l].team
      BY <1>2 DEF Changed
    <2> QED BY <1>1, <2>1, <2>2 DEF TeamsFree
  <1>5. <<11, "team">> \in Steady
    BY WrittenColumns
  <1> QED BY <1>2, <1>4, <1>5, UpdateLayoutBegins, PlannedBy DEF Edits, Chained

\* A team loses a site only when its layouts do not show it.
LEMMA UnassignSitePlans ==
  ASSUME TablesInv, NEW w \in Worker, UnassignSite(w)
  PROVE  Planned(w)
  <1>1. PICK i \in Rows(Membership) :
          /\ LayoutsBlockingSiteUnassign(db[i].site, db[i].team) = {}
          /\ Accepted(w, "team.site_unassigned", [NoWrites EXCEPT !.purge = {i}])
    BY DEF UnassignSite
  <1>2. PICK j : j = job'[w]
    OBVIOUS
  <1>3. j.tx = [NoWrites EXCEPT !.purge = {i}]
    BY <1>1, <1>2, Prepared DEF Accepted
  <1>4. MembersFree(j.tx)
    <2>1. j.tx.purge = {i} /\ j.tx.del = {}
      BY <1>3 DEF NoWrites
    <2>2. db[i].site = i[1] /\ db[i].team = i[2]
      BY ForeignRows DEF TablesInv, TablesTypeOK, Rows
    <2> QED BY <1>1, <2>1, <2>2 DEF MembersFree
  <1> QED BY <1>2, <1>4, UnassignSiteBegins, PlannedBy DEF Edits, Chained

\* Edits of one row that stamp its layout.
LEMMA OneStamped ==
  ASSUME NEW op, NEW tx, NEW l, NEW i, NEW row
  PROVE  /\ /\ tx = Touching(l, Inserting(i, row))
            /\ \/ i \in ScreenId /\ row.layout = l
               \/ i \in ViewId /\ Exists(row.screen) /\ LayoutOfScreen(row.screen) = l
            => EditsStamped(op, tx)
         /\ /\ tx = Touching(l, Setting(i, row)) \/ tx = Touching(l, Deleting(i))
            /\ i \in DOMAIN db
            /\ \/ i \in ScreenId /\ tx = Touching(l, Deleting(i)) /\ Under(i) = l
               \/ i \in ViewId /\ Under(i) = l
               \/ i \in Mapping /\ (OnItsView(i) => Under(i) = l)
            => EditsStamped(op, tx)
  <1>1. ASSUME tx = Touching(l, Inserting(i, row)),
               \/ i \in ScreenId /\ row.layout = l
               \/ i \in ViewId /\ Exists(row.screen) /\ LayoutOfScreen(row.screen) = l
        PROVE  EditsStamped(op, tx)
    <2>1. /\ DOMAIN tx.new = {i} /\ tx.new[i] = row /\ tx.touch = {l}
          /\ DOMAIN tx.set = {} /\ DOMAIN tx.bulk = {} /\ tx.del = {} /\ tx.purge = {}
      BY <1>1, Transactions, Stamped
    <2> QED BY <1>1, <2>1, OneTable DEF EditsStamped, WallRows
  <1>2. ASSUME tx = Touching(l, Setting(i, row)), i \in DOMAIN db,
               \/ i \in ViewId /\ Under(i) = l
               \/ i \in Mapping /\ (OnItsView(i) => Under(i) = l)
        PROVE  EditsStamped(op, tx)
    <2>1. /\ DOMAIN tx.set = {i} /\ tx.touch = {l}
          /\ DOMAIN tx.new = {} /\ DOMAIN tx.bulk = {} /\ tx.del = {} /\ tx.purge = {}
      BY <1>2, Transactions, Stamped
    <2> QED BY <1>2, <2>1, OneTable DEF EditsStamped, WallRows
  <1>3. ASSUME tx = Touching(l, Deleting(i)), i \in DOMAIN db,
               \/ i \in ScreenId /\ Under(i) = l
               \/ i \in ViewId /\ Under(i) = l
               \/ i \in Mapping /\ (OnItsView(i) => Under(i) = l)
        PROVE  EditsStamped(op, tx)
    <2>1. /\ tx.del = {i} /\ tx.touch = {l}
          /\ DOMAIN tx.new = {} /\ DOMAIN tx.bulk = {} /\ DOMAIN tx.set = {} /\ tx.purge = {}
      BY <1>3, Transactions, Stamped
    <2> QED BY <1>3, <2>1, OneTable DEF EditsStamped, WallRows
  <1>4. \/ tx = Touching(l, Setting(i, row)) /\ i \in ViewId \cup Mapping /\ i \notin ScreenId
        \/ tx = Touching(l, Deleting(i))
        \/ ~ /\ tx = Touching(l, Setting(i, row)) \/ tx = Touching(l, Deleting(i))
             /\ i \in DOMAIN db
             /\ \/ i \in ScreenId /\ tx = Touching(l, Deleting(i)) /\ Under(i) = l
                \/ i \in ViewId /\ Under(i) = l
                \/ i \in Mapping /\ (OnItsView(i) => Under(i) = l)
    BY OneTable
  <1> QED BY <1>1, <1>2, <1>3, <1>4

\* A row is under the layout of its screen.
LEMMA RowsUnder ==
  /\ \A s \in ScreenId : Under(s) = db[s].layout
  /\ \A i \in ViewId \cup Mapping : Under(i) = LayoutOfScreen(db[i].screen)
  BY OneTable DEF Under, LayoutOfScreen

\* A new screen has no mapping to place.
LEMMA CreateScreenPlans ==
  ASSUME TablesInv, NEW w \in Worker, CreateScreen(w)
  PROVE  Planned(w)
  <1>1. PICK s \in Screen, l \in Rows(Layout), n \in Name, body \in ScreenBody :
          Accepted(w, "screen.created",
            Touching(l, Inserting(s, [layout |-> l, name |-> n,
                                      rows |-> body.rows, cols |-> body.cols])))
    BY DEF CreateScreen
  <1>2. PICK j, row : /\ j = job'[w]
                      /\ row = [layout |-> l, name |-> n, rows |-> body.rows, cols |-> body.cols]
    OBVIOUS
  <1>3. j.tx = Touching(l, Inserting(s, row))
    BY <1>1, <1>2, Prepared DEF Accepted
  <1>4. s \in ScreenId /\ row.layout = l
    BY <1>2 DEF ScreenId
  <1>5. EditsStamped(j.op, j.tx)
    BY <1>3, <1>4, OneStamped
  <1> QED BY <1>2, <1>5, CreateScreenBegins, PlannedBy DEF Chained

\* A deleted screen stamps its layout.
LEMMA DeleteScreenPlans ==
  ASSUME TablesInv, NEW w \in Worker, DeleteScreen(w)
  PROVE  Planned(w)
  <1>1. PICK s \in Rows(ScreenId) :
          Accepted(w, "screen.deleted", Touching(db[s].layout, Deleting(s)))
    BY DEF DeleteScreen
  <1>2. PICK j : j = job'[w]
    OBVIOUS
  <1>3. j.tx = Touching(db[s].layout, Deleting(s))
    BY <1>1, <1>2, Prepared DEF Accepted
  <1>4. EditsStamped(j.op, j.tx)
    BY <1>3, OneStamped, RowsUnder DEF Rows
  <1> QED BY <1>2, <1>4, DeleteScreenBegins, PlannedBy DEF Chained

\* A new view stamps the layout of its screen.
LEMMA CreateViewPlans ==
  ASSUME TablesInv, NEW w \in Worker, CreateView(w)
  PROVE  Planned(w)
  <1>1. PICK v \in View, s \in Rows(ScreenId), body \in ViewBody :
          /\ DOMAIN body = {"number", "rows", "cols"}
          /\ Accepted(w, "view.created",
               Touching(db[s].layout, Inserting(v, [screen |-> s] ++ body)))
    BY DEF CreateView
  <1>2. PICK j, row : j = job'[w] /\ row = [screen |-> s] ++ body
    OBVIOUS
  <1>3. j.tx = Touching(db[s].layout, Inserting(v, row))
    BY <1>1, <1>2, Prepared DEF Accepted
  <1>4. v \in ViewId /\ row.screen = s
    BY <1>2 DEF ViewId, ++
  <1>5. Exists(s) /\ LayoutOfScreen(s) = db[s].layout
    BY DEF Rows, Exists, LayoutOfScreen
  <1>6. EditsStamped(j.op, j.tx)
    BY <1>3, <1>4, <1>5, OneStamped
  <1> QED BY <1>2, <1>6, CreateViewBegins, PlannedBy DEF Chained

\* A deleted view stamps the layout.
LEMMA DeleteViewPlans ==
  ASSUME TablesInv, NEW w \in Worker, DeleteView(w)
  PROVE  Planned(w)
  <1>1. PICK v \in Rows(ViewId) :
          Accepted(w, "view.deleted", Touching(LayoutOfScreen(db[v].screen), Deleting(v)))
    BY DEF DeleteView
  <1>2. PICK j : j = job'[w]
    OBVIOUS
  <1>3. j.tx = Touching(LayoutOfScreen(db[v].screen), Deleting(v))
    BY <1>1, <1>2, Prepared DEF Accepted
  <1>4. EditsStamped(j.op, j.tx)
    BY <1>3, OneStamped, RowsUnder DEF Rows
  <1> QED BY <1>2, <1>4, DeleteViewBegins, PlannedBy DEF Chained

\* A deleted mapping stamps the layout.
LEMMA DeleteMappingPlans ==
  ASSUME TablesInv, NEW w \in Worker, DeleteMapping(w)
  PROVE  Planned(w)
  <1>1. PICK m \in Rows(Mapping) :
          Accepted(w, "mapping.deleted", Touching(LayoutOfScreen(db[m].screen), Deleting(m)))
    BY DEF DeleteMapping
  <1>2. PICK j : j = job'[w]
    OBVIOUS
  <1>3. j.tx = Touching(LayoutOfScreen(db[m].screen), Deleting(m))
    BY <1>1, <1>2, Prepared DEF Accepted
  <1>4. EditsStamped(j.op, j.tx)
    BY <1>3, OneStamped, RowsUnder DEF Rows
  <1> QED BY <1>2, <1>4, DeleteMappingBegins, PlannedBy DEF Chained

\* A view gets a smaller grid only when no mapping is outside it.
LEMMA UpdateViewPlans ==
  ASSUME TablesInv, NEW w \in Worker, UpdateView(w)
  PROVE  Planned(w)
  <1>1. PICK v \in Rows(ViewId), body \in ViewBody \cup {<<>>} :
          Accepted(w, "view.updated",
            Touching(LayoutOfScreen(db[v].screen), Setting(v, Changed(v, body))))
    BY DEF UpdateView
  <1>2. PICK j, l, columns : j = job'[w] /\ l = LayoutOfScreen(db[v].screen)
                             /\ columns = Changed(v, body)
    OBVIOUS
  <1>3. j.tx = Touching(l, Setting(v, columns)) /\ j.op = "view.updated"
    BY <1>1, <1>2, Prepared DEF Accepted
  <1>4. EditsStamped(j.op, j.tx)
    BY <1>2, <1>3, OneStamped, RowsUnder DEF Rows
  <1>5. GridsClear(j.op, j.tx)
    <2>1. DOMAIN j.tx.bulk = {}
      BY <1>3, Stamped, Transactions
    <2> QED BY <1>3, <2>1 DEF GridsClear
  <1> QED BY <1>2, <1>4, <1>5, UpdateViewBegins, PlannedBy, WrittenColumns DEF Chained

\* An edited mapping shows a camera that its screen may show.
LEMMA UpdateMappingPlans ==
  ASSUME TablesInv, NEW w \in Worker, UpdateMapping(w)
  PROVE  Planned(w)
  <1>1. PICK m \in Rows(Mapping), body \in MappingBody :
          /\ Names(body, "camera") =>
               Exists(body["camera"]) /\ CameraFitsScreen(body["camera"], db[m].screen)
          /\ Accepted(w, "mapping.updated",
               Touching(LayoutOfScreen(db[m].screen), Setting(m, Changed(m, body))))
    BY DEF UpdateMapping
  <1>2. PICK j, l, columns : j = job'[w] /\ l = LayoutOfScreen(db[m].screen)
                             /\ columns = Changed(m, body)
    OBVIOUS
  <1>3. j.tx = Touching(l, Setting(m, columns))
    BY <1>1, <1>2, Prepared DEF Accepted
  <1>4. EditsStamped(j.op, j.tx)
    BY <1>2, <1>3, OneStamped, RowsUnder DEF Rows
  <1>5. PlacementsFit(j.op, j.tx)
    <2>1. DOMAIN j.tx.new = {} /\ DOMAIN j.tx.set = {m} /\ j.tx.set[m] = columns
      BY <1>3, Stamped, Transactions
    <2>2. "camera" \in DOMAIN columns => CameraMayShow(columns["camera"], db[m].screen)
      BY <1>1, <1>2 DEF Changed, Names, CameraMayShow
    <2> QED BY <2>1, <2>2 DEF PlacementsFit
  <1> QED BY <1>2, <1>4, <1>5, UpdateMappingBegins, PlannedBy, WrittenColumns DEF Chained

\* What a request that makes one mapping is about to write.
LEMMA OneMappingDrawn ==
  ASSUME TablesInv, NEW w \in Worker, NEW op, NEW l, NEW row,
         AcceptedDrawing(w, op,
           Touching(l, [NoWrites EXCEPT !.new = InsertingMappings(<<row>>)]), None)
  PROVE  /\ job'[w].op = op /\ job'[w].then = None
         /\ \A m \in DOMAIN job'[w].tx.new : m \in Mapping /\ job'[w].tx.new[m] = row
         /\ DOMAIN job'[w].tx.set = {} /\ DOMAIN job'[w].tx.bulk = {}
         /\ job'[w].tx.del = {} /\ job'[w].tx.purge = {} /\ job'[w].tx.touch = {l}
  <1>1. PICK base, rows : rows = <<row>>
          /\ base = [NoWrites EXCEPT !.new = InsertingMappings(rows)]
    OBVIOUS
  <1>2. /\ DOMAIN base = Fields /\ base.new = InsertingMappings(rows)
        /\ base.set = NoWrites.set /\ base.bulk = NoWrites.bulk
        /\ base.del = NoWrites.del /\ base.purge = NoWrites.purge
    BY <1>1, Transactions DEF Fields
  <1>3. AcceptedDrawing(w, op, Touching(l, base), None)
    BY <1>1
  <1>4. job'[w].op = op /\ job'[w].then = None /\ job'[w].tx = Touching(l, base)
    BY <1>3, Prepared DEF AcceptedDrawing
  <1>5. rows \in Seq({row}) /\ Len(rows) = 1 /\ rows[1] = row
    BY <1>1
  <1>6. serial \in Nat
    BY TablesAssumption DEF TablesInv, TablesTypeOK
  <1>7. \A m \in DOMAIN base.new : base.new[m] = row
    <2>1. \A m \in DOMAIN base.new : m[1] - serial \in 1..1 /\ base.new[m] = rows[m[1] - serial]
      BY <1>2, <1>5, <1>6, Drawn
    <2> QED BY <1>5, <2>1
  <1>8. DOMAIN base.new \subseteq Mapping
    <2>1. DOMAIN base.new = {<<n>> : n \in serial + 1 .. serial + Len(rows)}
          /\ Cardinality(DOMAIN base.new) = Len(rows)
      BY <1>2, <1>5, <1>6, Drawn
    <2>2. serial + Cardinality(DOMAIN base.new) <= MaxMapping
      BY <1>2, <1>3, Stamped DEF AcceptedDrawing
    <2> QED BY <1>5, <1>6, <2>1, <2>2, TablesAssumption DEF Mapping
  <1> QED BY <1>2, <1>4, <1>7, <1>8, Stamped, Transactions

\* A mapping that is made fits into its view.
LEMMA OneMappingPlanned ==
  ASSUME TablesInv, NEW w \in Worker, NEW op, NEW v \in Rows(ViewId), NEW slot \in Slot,
         NEW c \in OrNone(Rows(Camera)), NEW d \in OrNone(Rows(Device)),
         InGrid(slot, v), op # "slot.assigned" => CameraMayShow(c, db[v].screen),
         op \in {"mapping.created", "slot.assigned"},
         AcceptedDrawing(w, op,
           Touching(LayoutOfScreen(db[v].screen),
             [NoWrites EXCEPT !.new = InsertingMappings(<<NewMapping(v, slot, c, d)>>)]), None)
  PROVE  Planned(w)
  <1>1. PICK j, l, row : j = job'[w] /\ l = LayoutOfScreen(db[v].screen)
                         /\ row = NewMapping(v, slot, c, d)
    OBVIOUS
  <1>2. /\ j.op = op /\ j.then = None
        /\ \A m \in DOMAIN j.tx.new : m \in Mapping /\ j.tx.new[m] = row
        /\ DOMAIN j.tx.set = {} /\ DOMAIN j.tx.bulk = {}
        /\ j.tx.del = {} /\ j.tx.purge = {} /\ j.tx.touch = {l}
    <2>1. AcceptedDrawing(w, op,
            Touching(l, [NoWrites EXCEPT !.new = InsertingMappings(<<row>>)]), None)
      BY <1>1
    <2>2. /\ job'[w].op = op /\ job'[w].then = None
          /\ \A m \in DOMAIN job'[w].tx.new : m \in Mapping /\ job'[w].tx.new[m] = row
          /\ DOMAIN job'[w].tx.set = {} /\ DOMAIN job'[w].tx.bulk = {}
          /\ job'[w].tx.del = {} /\ job'[w].tx.purge = {} /\ job'[w].tx.touch = {l}
      BY <2>1, OneMappingDrawn
    <2> QED BY <1>1, <2>2
  <1>3. row.view = v /\ row.screen = db[v].screen /\ row.slot = slot /\ row.camera = c
    BY <1>1 DEF NewMapping
  <1>4. Exists(v) /\ db[v].screen \in DOMAIN db
    BY ForeignRows DEF TablesInv, TablesTypeOK, Rows, Exists
  <1>5. PlacementsFit(j.op, j.tx)
    BY <1>2, <1>3, <1>4 DEF PlacementsFit
  <1>6. EditsStamped(j.op, j.tx)
    BY <1>1, <1>2, <1>3, <1>4, OneTable DEF EditsStamped, WallRows, Exists
  <1>7. Begins(w, {op}, {14}, {}, {})
    BY OneMapping
  <1> QED BY <1>1, <1>5, <1>6, <1>7, PlannedBy, WrittenColumns DEF Chained

\* A new mapping is in the grid of its view and shows what its screen may show.
LEMMA CreateMappingPlans ==
  ASSUME TablesInv, NEW w \in Worker, CreateMapping(w)
  PROVE  Planned(w)
  <1>0. PICK v \in Rows(ViewId), slot \in Slot, c \in OrNone(Rows(Camera)),
           d \in OrNone(Rows(Device)) :
          /\ InGrid(slot, v)
          /\ c # None => CameraFitsScreen(c, db[v].screen)
          /\ AcceptedDrawing(w, "mapping.created",
               Touching(LayoutOfScreen(db[v].screen),
                 [NoWrites EXCEPT !.new = InsertingMappings(<<NewMapping(v, slot, c, d)>>)]), None)
    BY DEF CreateMapping
  <1>1. CameraMayShow(c, db[v].screen)
    BY <1>0 DEF CameraMayShow, OrNone, Rows, Exists
  <1> QED BY <1>0, <1>1, OneMappingPlanned

\* A slot that is assigned is in the grid of its view.
LEMMA AssignCameraPlans ==
  ASSUME TablesInv, NEW w \in Worker, AssignCameraToSlot(w)
  PROVE  Planned(w)
  <1>1. PICK v \in Rows(ViewId), slot \in Slot, c \in Rows(Camera),
           d \in OrNone(Rows(Device)) :
          \/ /\ InGrid(slot, v)
             /\ AcceptedDrawing(w, "slot.assigned",
                  Touching(LayoutOfScreen(db[v].screen),
                    [NoWrites EXCEPT !.new = InsertingMappings(<<NewMapping(v, slot, c, d)>>)]), None)
          \/ \E m \in AtSlot(v, slot) :
               Accepted(w, "slot.assigned",
                 Touching(LayoutOfScreen(db[v].screen),
                   Setting(m, Changed(m, [camera |-> c, device |-> d]))))
    BY DEF AssignCameraToSlot
  <1>2. c \in OrNone(Rows(Camera))
    BY DEF OrNone
  <1>3. CASE /\ InGrid(slot, v)
             /\ AcceptedDrawing(w, "slot.assigned",
                  Touching(LayoutOfScreen(db[v].screen),
                    [NoWrites EXCEPT !.new = InsertingMappings(<<NewMapping(v, slot, c, d)>>)]), None)
    BY <1>2, <1>3, OneMappingPlanned
  <1>4. CASE \E m \in AtSlot(v, slot) :
               Accepted(w, "slot.assigned",
                 Touching(LayoutOfScreen(db[v].screen),
                   Setting(m, Changed(m, [camera |-> c, device |-> d]))))
    <2>1. PICK m \in AtSlot(v, slot) :
            Accepted(w, "slot.assigned",
              Touching(LayoutOfScreen(db[v].screen),
                Setting(m, Changed(m, [camera |-> c, device |-> d]))))
      BY <1>4
    <2>2. PICK j, l, columns :
            /\ j = job'[w] /\ l = LayoutOfScreen(db[v].screen)
            /\ columns = Changed(m, [camera |-> c, device |-> d])
      OBVIOUS
    <2>3. j.tx = Touching(l, Setting(m, columns)) /\ j.op = "slot.assigned"
      BY <2>1, <2>2, Prepared DEF Accepted
    <2>4. m \in DOMAIN db /\ m \in Mapping /\ db[m].view = v
      BY DEF AtSlot, Rows
    <2>5. OnItsView(m) => Under(m) = l
      BY <2>2, <2>4, RowsUnder DEF OnItsView
    <2>6. EditsStamped(j.op, j.tx)
      BY <2>3, <2>4, <2>5, OneStamped
    <2>7. PlacementsFit(j.op, j.tx)
      <3>1. DOMAIN j.tx.new = {}
        BY <2>3, Stamped, Transactions
      <3> QED BY <2>3, <3>1 DEF PlacementsFit
    <2> QED BY <2>2, <2>6, <2>7, AssignCameraBegins, PlannedBy, WrittenColumns DEF Chained
  <1> QED BY <1>1, <1>3, <1>4

\* A screen that shrinks deletes what is outside, and one that moves fits its new team.
LEMMA UpdateScreenPlans ==
  ASSUME TablesInv, NEW w \in Worker, UpdateScreen(w)
  PROVE  Planned(w)
  <1>1. PICK s, l, columns, rows, cols, op, tx :
          /\ s \in Rows(ScreenId) /\ Accepted(w, op, tx)
          /\ ScreenEdit(tx, s, l, columns, rows, cols)
          /\ Fits(ScreenRow, columns) /\ rows \in 1..ViewSide /\ cols \in 1..ViewSide
          /\ IF "layout" \in DOMAIN columns
             THEN op = "screen.moved" /\ columns["layout"] = l /\ l # db[s].layout
             ELSE op = "screen.updated" /\ l = db[s].layout
    BY ScreenRequest
  <1>2. PICK j : j = job'[w]
    OBVIOUS
  <1>3. j.tx = tx /\ j.op = op
    BY <1>1, <1>2, Prepared DEF Accepted
  <1>4. TableNumber(s) = 12 /\ s \in ScreenId /\ s \in DOMAIN db
    BY <1>1, OneTable DEF Rows
  <1>5. GridsClear(op, tx)
    <2>1. s \notin ViewId
      BY <1>4, OneTable
    <2>2. CASE DOMAIN tx.bulk = {}
      BY <1>1, <2>1, <2>2 DEF GridsClear, ScreenEdit
    <2>3. CASE /\ DOMAIN tx.bulk = ViewsOf(s)
               /\ \A v \in ViewsOf(s) : tx.bulk[v] = [rows |-> rows, cols |-> cols]
               /\ tx.purge = {m \in Rows(Mapping) : db[m].screen = s /\ Outside(m, rows, cols)}
      <3>1. \A v \in ViewsOf(s) : db[v].screen = s
        BY DEF ViewsOf
      <3>2. \A v \in ViewsOf(s) : /\ DOMAIN tx.bulk[v] = {"rows", "cols"}
                                  /\ tx.bulk[v].rows = rows /\ tx.bulk[v].cols = cols
        BY <2>3
      <3> QED BY <1>1, <2>1, <2>3, <3>1, <3>2 DEF GridsClear, ScreenEdit
    <2> QED BY <1>1, <2>2, <2>3 DEF ScreenEdit
  <1>6. EditsStamped(op, tx)
    <2>1. \A i \in DOMAIN tx.set \cup DOMAIN tx.bulk \cup tx.del \cup tx.purge :
            i \in WallRows /\ i \in DOMAIN db /\ Under(i) = db[s].layout
      <3>1. Under(s) = db[s].layout
        BY <1>4, RowsUnder
      <3>2. \A i \in ViewsOf(s) \cup {m \in Rows(Mapping) : db[m].screen = s} :
              i \in ViewId \cup Mapping /\ i \in DOMAIN db /\ db[i].screen = s
        BY DEF ViewsOf, Rows
      <3>3. \A i \in ViewsOf(s) \cup {m \in Rows(Mapping) : db[m].screen = s} :
              Under(i) = db[s].layout
        BY <3>2, RowsUnder DEF LayoutOfScreen
      <3> QED BY <1>1, <1>4, <3>1, <3>2, <3>3 DEF ScreenEdit, WallRows
    <2>2. /\ DOMAIN tx.set = {s} /\ tx.set[s] = columns /\ tx.touch = {l} /\ DOMAIN tx.new = {}
          /\ tx.del = {}
      BY <1>1 DEF ScreenEdit
    <2>3. \A i \in DOMAIN tx.set \cup DOMAIN tx.bulk \cup tx.del \cup tx.purge :
            \/ i \in DOMAIN db /\ Under(i) \in tx.touch
            \/ op = "screen.moved" /\ \E k \in DOMAIN tx.set \cap ScreenId :
                 "layout" \in DOMAIN tx.set[k] /\ Under(i) = db[k].layout
      BY <1>1, <1>4, <2>1, <2>2
    <2> QED BY <1>1, <2>1, <2>2, <2>3 DEF EditsStamped
  <1>7. PICK o \in {"screen.updated", "screen.moved"} :
          Begins(w, {o}, {}, ScreenColumns(o), {14})
    BY UpdateScreenBegins
  <1>8. ScreenColumns(o) \subseteq Steady \cup MovesIn(o)
    BY WrittenColumns DEF ScreenColumns, Steady
  <1>9. <<11, "team">> \notin ScreenColumns(o) /\ <<14, "camera">> \notin ScreenColumns(o)
        /\ <<6, "active">> \notin ScreenColumns(o)
    BY DEF ScreenColumns
  <1> QED BY <1>2, <1>3, <1>5, <1>6, <1>7, <1>8, <1>9, PlannedBy DEF Chained

\* A row for each slot to fill.
LEMMA SlotsFilled ==
  ASSUME TablesInv, NEW tx, NEW v, NEW target, NEW rows, SlotsWanted(tx, v, target, rows)
  PROVE  /\ \A m \in DOMAIN tx.new :
              \E slot \in EmptySlots(v, target) : tx.new[m] = RowAt(v, target, slot)
         /\ \A slot \in EmptySlots(v, target) :
              \E m \in DOMAIN tx.new : tx.new[m] = RowAt(v, target, slot)
  <1> DEFINE S == {RowAt(v, target, slot) : slot \in EmptySlots(v, target)}
  <1>1. rows \in Seq(S) /\ tx.new = InsertingMappings(rows) /\ serial \in Nat
    BY TablesAssumption DEF SlotsWanted, TablesInv, TablesTypeOK
  <1>2. /\ DOMAIN tx.new = {<<n>> : n \in serial + 1 .. serial + Len(rows)}
        /\ \A m \in DOMAIN tx.new :
             m[1] - serial \in 1..Len(rows) /\ tx.new[m] = rows[m[1] - serial]
    BY <1>1, Drawn
  <1>3. Len(rows) \in Nat /\ \A n \in 1..Len(rows) : rows[n] \in S
    BY <1>1
  <1>4. ASSUME NEW m \in DOMAIN tx.new
        PROVE  \E slot \in EmptySlots(v, target) : tx.new[m] = RowAt(v, target, slot)
    <2>1. tx.new[m] \in S
      BY <1>2, <1>3
    <2> QED BY <2>1
  <1>5. ASSUME NEW slot \in EmptySlots(v, target)
        PROVE  \E m \in DOMAIN tx.new : tx.new[m] = RowAt(v, target, slot)
    <2>1. PICK n \in 1..Len(rows) : rows[n] = RowAt(v, target, slot)
      BY DEF SlotsWanted
    <2>2. <<serial + n>> \in DOMAIN tx.new
      BY <1>1, <1>2, <1>3
    <2>3. tx.new[<<serial + n>>] = rows[<<serial + n>>[1] - serial]
      BY <1>2, <2>2
    <2>4. <<serial + n>>[1] - serial = n
      BY <1>1, <1>3
    <2> QED BY <2>1, <2>2, <2>3, <2>4
  <1> QED BY <1>4, <1>5

\* Slots that are replaced become those of the body.
LEMMA ReplaceViewSlotsPlans ==
  ASSUME TablesInv, NEW w \in Worker, ReplaceViewSlots(w)
  PROVE  Planned(w)
  <1>1. PICK v, target, tx, rows :
          /\ v \in Rows(ViewId) /\ target \in SlotsBody
          /\ \A slot \in DOMAIN target :
               /\ InGrid(slot, v) /\ target[slot].camera \in Rows(Camera)
               /\ CameraFitsScreen(target[slot].camera, db[v].screen)
          /\ AcceptedDrawing(w, "slots.replaced", tx, [view |-> v, slots |-> target])
          /\ SlotsWanted(tx, v, target, rows)
    BY SlotsRequest
  <1>2. PICK j : j = job'[w]
    OBVIOUS
  <1>3. j.tx = tx /\ j.op = "slots.replaced" /\ j.arg = [view |-> v, slots |-> target]
    BY <1>1, <1>2, Prepared DEF AcceptedDrawing
  <1>4. \A m \in DOMAIN tx.new :
          \E slot \in EmptySlots(v, target) : tx.new[m] = RowAt(v, target, slot)
    BY <1>1, SlotsFilled
  <1>5. \A slot \in EmptySlots(v, target) :
          LET row == RowAt(v, target, slot) IN
          /\ row.view = v /\ row.screen = db[v].screen /\ row.slot = slot
          /\ row.camera = target[slot].camera /\ slot \in DOMAIN target
    BY DEF RowAt, NewMapping, EmptySlots
  <1>6. Exists(v) /\ Exists(db[v].screen)
    BY <1>1, ForeignRows DEF TablesInv, TablesTypeOK, Rows, Exists
  <1>7. /\ DOMAIN tx.set \subseteq Kept(v, target) /\ tx.del = There(v) \ Kept(v, target)
        /\ DOMAIN tx.bulk = {} /\ tx.purge = {}
        /\ tx.touch = {LayoutOfScreen(db[v].screen)}
    BY <1>1 DEF SlotsWanted
  <1>8. \A m \in There(v) : m \in Mapping /\ m \in DOMAIN db /\ db[m].view = v
    BY DEF There, Rows
  <1>9. \A m \in Kept(v, target) : m \in There(v) /\ db[m].slot \in DOMAIN target
    BY DEF Kept
  <1>10. \A m \in DOMAIN tx.set :
           "camera" \in DOMAIN tx.set[m] => tx.set[m].camera = target[db[m].slot].camera
    <2>1. ASSUME NEW m \in DOMAIN tx.set, "camera" \in DOMAIN tx.set[m]
          PROVE  tx.set[m].camera = target[db[m].slot].camera
      <3>1. tx.set[m] = Changed(m, Wanted(target, m))
        BY <1>1 DEF SlotsWanted
      <3>2. \A c \in DOMAIN Changed(m, Wanted(target, m)) :
              Changed(m, Wanted(target, m))[c] = Wanted(target, m)[c]
        BY DEF Changed
      <3> QED BY <2>1, <3>1, <3>2 DEF Wanted
    <2> QED BY <2>1
  <1>11. PlacementsFit("slots.replaced", tx)
    <2>1. ASSUME NEW m \in DOMAIN tx.new
          PROVE  LET row == tx.new[m] IN
                 /\ Exists(row.view) /\ row.screen = db[row.view].screen
                 /\ InGrid(row.slot, row.view) /\ CameraMayShow(row.camera, row.screen)
      BY <1>1, <1>4, <1>5, <1>6 DEF CameraMayShow, Rows, Exists
    <2>2. ASSUME NEW m \in DOMAIN tx.set, "camera" \in DOMAIN tx.set[m], OnItsView(m)
          PROVE  CameraMayShow(tx.set[m].camera, db[m].screen)
      <3>1. m \in There(v) /\ db[m].slot \in DOMAIN target
        BY <1>7, <1>9
      <3>2. db[m].screen = db[v].screen
        BY <1>8, <2>2, <3>1 DEF OnItsView
      <3> QED BY <1>1, <1>10, <2>2, <3>1, <3>2 DEF CameraMayShow, Rows, Exists
    <2> QED BY <2>1, <2>2 DEF PlacementsFit
  <1>16. DOMAIN tx.new \subseteq Mapping
    <2>1. PICK S : /\ serial \in Nat /\ tx.new = InsertingMappings(rows)
                   /\ rows \in Seq(S)
      BY <1>1, TablesAssumption DEF SlotsWanted, TablesInv, TablesTypeOK
    <2>2. /\ DOMAIN tx.new = {<<n>> : n \in serial + 1 .. serial + Len(rows)}
          /\ Cardinality(DOMAIN tx.new) = Len(rows)
      BY <2>1, Drawn
    <2>3. serial + Cardinality(DOMAIN tx.new) <= MaxMapping
      BY <1>1 DEF AcceptedDrawing
    <2>4. Len(rows) \in Nat
      BY <2>1
    <2> QED BY <2>1, <2>2, <2>3, <2>4, TablesAssumption DEF Mapping
  <1>12. EditsStamped("slots.replaced", tx)
    <2>1. \A m \in There(v) : OnItsView(m) => Under(m) \in tx.touch
      BY <1>7, <1>8, RowsUnder DEF OnItsView
    <2>2. \A m \in DOMAIN tx.new : tx.new[m].screen = db[v].screen
      BY <1>4, <1>5
    <2>4. \A i \in DOMAIN tx.set \cup tx.del : i \in There(v)
      BY <1>7, <1>9
    <2>5. \A i \in Mapping : i \notin ScreenId
      BY OneTable
    <2> QED BY <1>6, <1>7, <1>8, <1>16, <2>1, <2>2, <2>4, <2>5 DEF EditsStamped, WallRows
  <1>13. SlotsPlanned(j)
    <2>1. \A slot \in EmptySlots(v, target) :
            \E m \in DOMAIN tx.new : tx.new[m] = RowAt(v, target, slot)
      BY <1>1, SlotsFilled
    <2>2. ASSUME NEW m \in Kept(v, target)
          PROVE  IF "camera" \in ColumnsWritten(tx, m)
                 THEN tx.set[m].camera = target[db[m].slot].camera
                 ELSE db[m].camera = target[db[m].slot].camera
      <3>1. CASE "camera" \in ColumnsWritten(tx, m)
        BY <1>7, <1>10, <3>1 DEF ColumnsWritten
      <3>2. CASE "camera" \notin ColumnsWritten(tx, m)
        <4>1. "camera" \notin DOMAIN Changed(m, Wanted(target, m))
          BY <1>1, <2>2, <3>2 DEF ColumnsWritten, SlotsWanted
        <4>2. "camera" \in DOMAIN Wanted(target, m)
          BY <1>1, <1>9, <2>2, WallBodies DEF Wanted
        <4> QED BY <3>2, <4>1, <4>2 DEF Changed, Wanted
      <3> QED BY <3>1, <3>2
    <2> QED BY <1>1, <1>3, <1>4, <1>7, <1>16, <2>1, <2>2 DEF SlotsPlanned, SlotsPlan
  <1>14. Begins(w, {"slots.replaced"}, {14}, {14} \X {"camera", "device"}, {14})
    BY ReplaceViewSlotsBegins
  <1>15. <<6, "active">> \notin {14} \X {"camera", "device"}
         /\ <<11, "team">> \notin {14} \X {"camera", "device"}
         /\ <<13, "rows">> \notin {14} \X {"camera", "device"}
         /\ <<13, "cols">> \notin {14} \X {"camera", "device"}
    OBVIOUS
  <1> QED BY <1>2, <1>3, <1>11, <1>12, <1>13, <1>14, <1>15, PlannedBy, WrittenColumns DEF Chained

\* A camera that is owed an address as it is created is new.
LEMMA CreateCameraPlans ==
  ASSUME TablesInv, NEW w \in Worker, CreateCamera(w)
  PROVE  Planned(w)
  <1>1. PICK c \in FreshIn(Camera), d \in Rows(Device), b \in BOOLEAN :
          AcceptedThen(w, "camera.created", Inserting(c, [device |-> d, new |-> b]),
                       "address.provisioned", c)
    BY DEF CreateCamera
  <1>2. PICK j, row : j = job'[w] /\ row = [device |-> d, new |-> b]
    OBVIOUS
  <1>3. j.tx = Inserting(c, row) /\ j.then = "address.provisioned" /\ j.arg = c
    BY <1>1, <1>2, Prepared
  <1>4. c \notin Address
    BY OneTable DEF FreshIn
  <1>5. AddressesDue(j)
    BY <1>3, <1>4, Transactions DEF AddressesDue
  <1> QED BY <1>2, <1>5, CreateCameraBegins, PlannedBy DEF Edits

\* An address is made active only where there is none.
LEMMA CreateAddressPlans ==
  ASSUME TablesInv, NEW w \in Worker, CreateAddress(w)
  PROVE  Planned(w)
  <1>1. PICK c \in Rows(Camera), a \in FreshIn(Address) :
          ActiveAddresses(c) = {} /\ Accepted(w, "address.created", Provisioning(a, c))
    BY DEF CreateAddress
  <1>2. PICK j, row : j = job'[w] /\ row = [camera |-> c, active |-> TRUE, quarantined |-> FALSE]
    OBVIOUS
  <1>3. j.tx = Inserting(a, row) /\ j.then = None /\ j.op = "address.created"
    BY <1>1, <1>2, Prepared DEF Accepted, Provisioning
  <1>4. DOMAIN j.tx.new = {a} /\ j.tx.new[a].camera = c /\ DOMAIN j.tx.set = {}
    BY <1>2, <1>3, Transactions
  <1>5. AddressesDue(j)
    BY <1>1, <1>3, <1>4 DEF AddressesDue, FreshIn, Rows
  <1> QED BY <1>2, <1>5, CreateAddressBegins, PlannedBy DEF Edits

\* An address is provisioned for the camera it is owed to.
LEMMA ProvisionAddressPlans ==
  ASSUME TablesInv, NEW w \in Worker, ProvisionAddress(w)
  PROVE  Planned(w)
  <1>1. PICK a \in FreshIn(Address) :
          /\ At(w, "address.provisioned")
          /\ Continues(w, Provisioning(a, job[w].arg), None, job[w].arg)
    BY DEF ProvisionAddress
  <1>2. PICK j, c, row : /\ j = job'[w] /\ c = job[w].arg
                         /\ row = [camera |-> c, active |-> TRUE, quarantined |-> FALSE]
    OBVIOUS
  <1>3. JobTyped(job[w]) /\ DOMAIN job = Worker
    BY <1>1 DEF At, TablesInv
  <1>4. c \in Camera
    BY <1>1, <1>2, <1>3 DEF At, JobTyped, Remembers
  <1>5. /\ j.tx = Inserting(a, row) /\ j.then = None
        /\ j.op = "address.provisioned" /\ j.arg = c
    BY <1>1, <1>2, <1>3 DEF At, Continues, Provisioning, JobTyped
  <1>6. DOMAIN j.tx.new = {a} /\ j.tx.new[a].camera = c /\ DOMAIN j.tx.set = {}
    BY <1>2, <1>5, Transactions
  <1>7. AddressesDue(j)
    BY <1>4, <1>5, <1>6 DEF AddressesDue, FreshIn
  <1> QED BY <1>2, <1>7, ProvisionAddressBegins, PlannedBy DEF Edits

\* To take an address out of use.
LEMMA RevokingPlanned ==
  ASSUME TablesInv, NEW w \in Worker, NEW a \in Rows(Address), db[a].active, NEW then, NEW arg,
         then # None => arg = db[a].camera,
         AcceptedThen(w, "address.revoked", Setting(a, [active |-> FALSE]), then, arg),
         Begins(w, {"address.revoked"}, {}, {<<6, "active">>}, {})
  PROVE  Planned(w)
  <1>1. PICK j, columns : j = job'[w] /\ columns = [active |-> FALSE]
    OBVIOUS
  <1>2. j.tx = Setting(a, columns) /\ j.then = then /\ j.arg = arg
    BY <1>1, Prepared
  <1>3. /\ DOMAIN j.tx.new = {} /\ DOMAIN j.tx.set = {a} /\ j.tx.set[a] = columns
        /\ DOMAIN columns = {"active"} /\ columns.active = FALSE /\ j.tx.purge = {}
    BY <1>1, <1>2, Transactions
  <1>4. a \in ActiveAddresses(db[a].camera)
    BY DEF ActiveAddresses
  <1>5. j.then # None /\ j.then = "address.provisioned" => j.arg = db[a].camera
    BY <1>2
  <1>6. AddressesDue(j)
    BY <1>3, <1>4, <1>5 DEF AddressesDue
  <1> QED BY <1>1, <1>6, PlannedBy, WrittenColumns DEF Edits

\* A revocation makes no address active.
LEMMA RevokeAddressPlans ==
  ASSUME TablesInv, NEW w \in Worker, RevokeAddress(w)
  PROVE  Planned(w)
  <1>1. PICK a \in Rows(Address) :
          db[a].active /\ Accepted(w, "address.revoked", Setting(a, [active |-> FALSE]))
    BY DEF RevokeAddress
  <1>2. PICK then : then = None
    OBVIOUS
  <1>3. AcceptedThen(w, "address.revoked", Setting(a, [active |-> FALSE]), then, then)
    BY <1>1, <1>2 DEF Accepted
  <1> QED BY <1>1, <1>2, <1>3, RevokeAddressBegins, RevokingPlanned

\* A rotation makes one address active and the other not.
LEMMA RotateAddressPlans ==
  ASSUME TablesInv, NEW w \in Worker, RotateAddress(w)
  PROVE  Planned(w)
  <1>1. PICK a \in Rows(Address) :
          \/ /\ db[a].active
             /\ AcceptedThen(w, "address.revoked", Setting(a, [active |-> FALSE]),
                             "address.provisioned", db[a].camera)
          \/ \E new \in FreshIn(Address) :
               Accepted(w, "address.reissued", Provisioning(new, db[a].camera))
    BY DEF RotateAddress
  <1>2. CASE /\ db[a].active
             /\ AcceptedThen(w, "address.revoked", Setting(a, [active |-> FALSE]),
                             "address.provisioned", db[a].camera)
    <2>1. job'[w].op = "address.revoked"
      BY <1>2, Prepared
    <2>2. ~Begins(w, {"address.reissued"}, {6}, {}, {})
      BY <2>1, Begun
    <2>3. Begins(w, {"address.revoked"}, {}, {<<6, "active">>}, {})
      BY <2>2, RotateAddressBegins
    <2> QED BY <1>2, <2>3, RevokingPlanned
  <1>3. CASE \E new \in FreshIn(Address) :
               Accepted(w, "address.reissued", Provisioning(new, db[a].camera))
    <2>1. PICK new \in FreshIn(Address) :
            Accepted(w, "address.reissued", Provisioning(new, db[a].camera))
      BY <1>3
    <2>2. PICK j, c, row : /\ j = job'[w] /\ c = db[a].camera
                           /\ row = [camera |-> c, active |-> TRUE, quarantined |-> FALSE]
      OBVIOUS
    <2>3. j.tx = Inserting(new, row) /\ j.then = None /\ j.op = "address.reissued"
      BY <2>1, <2>2, Prepared DEF Accepted, Provisioning
    <2>4. DOMAIN j.tx.new = {new} /\ j.tx.new[new].camera = c /\ DOMAIN j.tx.set = {}
      BY <2>2, <2>3, Transactions
    <2>5. c \in Camera /\ new \in Address
      BY <2>2, RowRead DEF FreshIn
    <2>6. AddressesDue(j)
      BY <2>3, <2>4, <2>5 DEF AddressesDue
    <2>7. ~Begins(w, {"address.revoked"}, {}, {<<6, "active">>}, {})
      BY <2>2, <2>3, Begun
    <2>8. Begins(w, {"address.reissued"}, {6}, {}, {})
      BY <2>7, RotateAddressBegins
    <2> QED BY <2>2, <2>6, <2>8, PlannedBy DEF Edits
  <1> QED BY <1>1, <1>2, <1>3

\* A layout of a site is written as a whole.
LEMMA LayoutIsWhole ==
  ASSUME TablesInv, NEW tx, NEW s, NEW grid, NEW cameras, SiteLayoutTx(tx, s, grid, cameras)
  PROVE  LayoutsWhole(tx)
  <1>1. /\ s \in Site /\ grid \in Grid(ScreenSide) /\ tx = WritingLayout(s, grid, cameras)
        /\ DOMAIN cameras \subseteq (1..grid[1]) \X (1..grid[2])
        /\ \A slot \in DOMAIN cameras : cameras[slot] \in CamerasAt(s)
    BY DEF SiteLayoutTx
  <1>2. grid[1] \in 1..ScreenSide /\ grid[2] \in 1..ScreenSide
    BY <1>1 DEF Grid
  <1>3. \A slot \in DOMAIN cameras :
          /\ slot[1] \in 1..grid[1] /\ slot[2] \in 1..grid[2]
          /\ slot \in Grid(ScreenSide) /\ cameras[slot] \in Camera
          /\ SiteOfCamera(cameras[slot]) = s
    BY <1>1, <1>2, TablesAssumption DEF CamerasAt, Rows, Grid
  <1>4. /\ DOMAIN tx.new = {<<s, None>>} \cup {<<s, slot>> : slot \in DOMAIN cameras}
        /\ tx.new[<<s, None>>] = [site |-> s, grid |-> grid]
        /\ \A slot \in DOMAIN cameras :
             tx.new[<<s, slot>>] = [site |-> s, slot |-> slot, camera |-> cameras[slot]]
        /\ tx.purge = LayoutRowsOf(s) /\ tx.del = {}
    <2>1. /\ DOMAIN cameras \subseteq Grid(ScreenSide)
          /\ \A slot \in DOMAIN cameras : cameras[slot] \in Camera
      BY <1>3
    <2> QED BY <1>1, <2>1, LayoutTx
  <1>5. ASSUME NEW i \in DOMAIN tx.new \cap SiteSlot
        PROVE  LET config == <<i[1], None>> IN
               /\ config \in DOMAIN tx.new
               /\ i[2][1] <= tx.new[config].grid[1] /\ i[2][2] <= tx.new[config].grid[2]
               /\ SiteOfCamera(tx.new[i].camera) = i[1]
    <2>1. <<s, None>> \in SiteConfig
      BY <1>1 DEF SiteConfig
    <2>2. i # <<s, None>>
      BY <2>1, OneTable
    <2>3. PICK slot \in DOMAIN cameras : i = <<s, slot>>
      BY <1>4, <2>2
    <2>4. i[1] = s /\ i[2] = slot /\ tx.new[<<s, None>>].grid = grid
          /\ tx.new[i].camera = cameras[slot]
      <3>1. tx.new[i] = [site |-> s, slot |-> slot, camera |-> cameras[slot]]
        BY <1>4, <2>3
      <3>2. tx.new[<<s, None>>].grid = grid
        BY <1>4
      <3> QED BY <2>3, <3>1, <3>2
    <2> QED BY <1>2, <1>3, <1>4, <2>4
  <1>6. ASSUME NEW k \in (DOMAIN tx.new \cup tx.del \cup tx.purge) \cap SiteConfig
        PROVE  SlotsOf(k[1]) \subseteq tx.del \cup tx.purge
    <2>1. \A slot \in DOMAIN cameras : <<s, slot>> \in SiteSlot
      BY <1>1, <1>3 DEF SiteSlot
    <2>2. \A i \in SlotsOf(s) : i \in SiteSlot
      BY DEF SlotsOf, Rows
    <2>3. k \in {<<s, None>>}
      BY <1>4, <2>1, <2>2, OneTable DEF LayoutRowsOf, Rows
    <2> QED BY <1>4, <2>3 DEF LayoutRowsOf
  <1> QED BY <1>5, <1>6 DEF LayoutsWhole

\* The layout of a site takes the place of all that was there.
LEMMA SiteLayoutPlans ==
  ASSUME TablesInv, NEW w \in Worker, SiteLayoutRequest(w)
  PROVE  Planned(w)
  <1>1. PICK op, then, arg, tx, s, grid, cameras :
          /\ op \in SiteLayoutOps \ {"site.populating"}
          /\ AcceptedThen(w, op, tx, then, arg)
          /\ SiteLayoutTx(tx, s, grid, cameras)
          /\ then = None \/ then = "site.populating"
    BY SiteLayoutRequests
  <1>2. PICK j : j = job'[w]
    OBVIOUS
  <1>3. j.tx = tx /\ j.then = then
    BY <1>1, <1>2, Prepared
  <1>4. LayoutsWhole(j.tx)
    BY <1>1, <1>3, LayoutIsWhole
  <1>5. Begins(w, SiteLayoutOps, {9, 10}, {}, {9, 10})
    BY SiteLayoutRequestBegins
  <1>6. Within(j.tx, {9, 10}, {}, {9, 10})
    BY <1>2, <1>5, Begun
  <1>7. AddressesDue(j)
    BY <1>1, <1>3, <1>6, NoAddressDue
  <1> QED BY <1>2, <1>4, <1>5, <1>7, PlannedBy DEF Edits, SiteLayoutOps

\* So does the next layout of several.
LEMMA AutoPopulateNextPlans ==
  ASSUME TablesInv, NEW w \in Worker, AutoPopulateNext(w)
  PROVE  Answers(w) \/ Planned(w)
  <1>1. CASE ~Answers(w)
    <2>1. PICK s, grid, cameras, tx :
            /\ SiteLayoutTx(tx, s, grid, cameras)
            /\ Continues(w, tx, "site.populating", job[w].arg \ {s})
      BY <1>1, PopulateNext
    <2>2. PICK j : j = job'[w]
      OBVIOUS
    <2>3. job[w] # Idle /\ JobTyped(job[w]) /\ DOMAIN job = Worker
      BY PopulateNextAt
    <2>4. j.tx = tx /\ j.then = "site.populating"
      BY <2>1, <2>2, <2>3 DEF Continues, JobTyped
    <2>5. LayoutsWhole(j.tx)
      BY <2>1, <2>4, LayoutIsWhole
    <2>6. Begins(w, SiteLayoutOps, {9, 10}, {}, {9, 10})
      BY <1>1, AutoPopulateNextBegins
    <2>7. Within(j.tx, {9, 10}, {}, {9, 10})
      BY <2>2, <2>6, Begun
    <2>8. AddressesDue(j)
      BY <2>4, <2>7, NoAddressDue
    <2> QED BY <2>2, <2>5, <2>6, <2>8, PlannedBy DEF Edits, SiteLayoutOps
  <1> QED BY <1>1

\* A layout of a site is deleted whole.
LEMMA DeleteSiteLayoutPlans ==
  ASSUME TablesInv, NEW w \in Worker, DeleteSiteLayout(w)
  PROVE  Planned(w)
  <1>1. PICK i \in Rows(SiteConfig) :
          Accepted(w, "site.layout_deleted",
            [NoWrites EXCEPT !.purge = SlotsOf(db[i].site), !.del = {i}])
    BY DEF DeleteSiteLayout
  <1>2. PICK j : j = job'[w]
    OBVIOUS
  <1>3. j.tx = [NoWrites EXCEPT !.purge = SlotsOf(db[i].site), !.del = {i}]
    BY <1>1, <1>2, Prepared DEF Accepted
  <1>4. DOMAIN j.tx.new = {} /\ j.tx.purge = SlotsOf(db[i].site) /\ j.tx.del = {i}
    BY <1>3 DEF NoWrites
  <1>5. db[i].site = i[1] /\ i \in SiteConfig
    BY RowRead DEF Rows
  <1>6. \A k \in SlotsOf(db[i].site) : k \notin SiteConfig
    BY OneTable DEF SlotsOf, Rows
  <1>7. LayoutsWhole(j.tx)
    BY <1>4, <1>5, <1>6 DEF LayoutsWhole
  <1> QED BY <1>2, <1>7, DeleteSiteLayoutBegins, PlannedBy DEF Edits, Chained

\* The plan of every request holds when it begins.
LEMMA RequestsPlan ==
  ASSUME TablesInv, NEW w \in Worker, WallsRequest(w) \/ AssetsRequest(w)
  PROVE  Answers(w) \/ Planned(w)
  <1>1. CASE PlainRequest(w)
    BY <1>1, PlainRequestPlans
  <1>2. CASE ~PlainRequest(w) /\ WallsRequest(w)
    BY <1>2, UpdateLayoutPlans, CreateScreenPlans, UpdateScreenPlans, DeleteScreenPlans,
       CreateViewPlans, UpdateViewPlans, DeleteViewPlans, CreateMappingPlans,
       ReplaceViewSlotsPlans, UpdateMappingPlans, DeleteMappingPlans, AssignCameraPlans
       DEF WallsRequest, PlainRequest
  <1>3. CASE ~PlainRequest(w) /\ AssetsRequest(w)
    BY <1>3, UnassignSitePlans, CreateCameraPlans, ProvisionAddressPlans, CreateAddressPlans,
       RevokeAddressPlans, RotateAddressPlans, SiteLayoutPlans, AutoPopulateNextPlans,
       DeleteSiteLayoutPlans
       DEF AssetsRequest, PlainRequest, CategoryRequest, SiteLayoutRequest
  <1> QED BY <1>1, <1>2, <1>3

\* The plan stays as long as no row changes.
LEMMA PlanLater ==
  ASSUME db' = db, NEW j, NEW k, Plan(j),
         k.op = j.op, k.tx = j.tx, k.then = j.then, k.arg = j.arg
  PROVE  Plan(k)'
  <1>1. PICK op, tx : op = j.op /\ tx = j.tx
    OBVIOUS
  <1>2. Within(tx, 1..16, Steady \cup MovesIn(op), 1..16) /\ Cautious(tx)
    BY <1>1 DEF Plan
  <1>10. Apart(tx)'
    BY <1>1 DEF Plan, Apart, Placing, Regrouping, ColumnsWritten
  <1>3. MembersFree(tx)' /\ TeamsFree(tx)'
    BY <1>1 DEF Plan, MembersFree, TeamsFree, LayoutsBlockingSiteUnassign,
       CamerasBlockingLayoutMove, CamerasInLayout, MappingsOfLayout, SiteOfCamera,
       IsSiteInTeam, Exists, Rows
  <1>4. PlacementsFit(op, tx)'
    <2>1. PlacementsFit(op, tx)
      BY <1>1 DEF Plan
    <2>2. \A c, s : CameraMayShow(c, s)' <=> CameraMayShow(c, s)
      BY DEF CameraMayShow, CameraFitsScreen, CameraFitsTeam, TeamOfScreen, TeamOfLayout,
         SiteOfCamera, IsSiteInTeam, Exists
    <2>3. /\ \A v : Exists(v)' <=> Exists(v)
          /\ \A slot, v : InGrid(slot, v)' <=> InGrid(slot, v)
          /\ \A m : OnItsView(m)' <=> OnItsView(m)
      BY DEF InGrid, OnItsView, Exists
    <2> QED BY <2>1, <2>2, <2>3 DEF PlacementsFit
  <1>5. GridsClear(op, tx)'
    BY <1>1 DEF Plan, GridsClear, Outside, Rows
  <1>6. LayoutsWhole(tx)'
    BY <1>1 DEF Plan, LayoutsWhole, SlotsOf, SiteOfCamera, Exists, Rows
  <1>7. EditsStamped(op, tx)'
    BY <1>1 DEF Plan, EditsStamped, LayoutOfScreen, Under, OnItsView, Exists
  <1>8. AddressesDue(k)'
    <2>1. AddressesDue(k)
      BY DEF Plan, AddressesDue
    <2>2. \A c : ActiveAddresses(c)' = ActiveAddresses(c)
      BY DEF ActiveAddresses, Rows
    <2> QED BY <2>1, <2>2 DEF AddressesDue
  <1>9. SlotsPlanned(k)'
    <2> SUFFICES ASSUME k.op = "slots.replaced"
                 PROVE  \E v \in Rows(ViewId)', target \in SlotsBody :
                          /\ k.arg = [view |-> v, slots |-> target]
                          /\ SlotsPlan(k.tx, v, target)'
      BY DEF SlotsPlanned
    <2>1. PICK v \in Rows(ViewId), target \in SlotsBody :
            j.arg = [view |-> v, slots |-> target] /\ SlotsPlan(tx, v, target)
      BY <1>1 DEF Plan, SlotsPlanned
    <2>2. /\ EmptySlots(v, target)' = EmptySlots(v, target)
          /\ Kept(v, target)' = Kept(v, target) /\ There(v)' = There(v)
          /\ Rows(ViewId)' = Rows(ViewId)
      BY DEF EmptySlots, Kept, There, Rows
    <2>3. \A slot : RowAt(v, target, slot)' = RowAt(v, target, slot)
      BY DEF RowAt, NewMapping
    <2>4. SlotsPlan(tx, v, target)'
      BY <2>1, <2>2, <2>3 DEF SlotsPlan, ColumnsWritten
    <2> QED BY <1>1, <2>1, <2>2, <2>4
  <1> QED BY <1>1, <1>2, <1>3, <1>4, <1>5, <1>6, <1>7, <1>8, <1>9, <1>10 DEF Plan

\* Requests that have not been overtaken keep to their plans.
LEMMA PlansStep ==
  ASSUME PlansInv, [WallsNext]_tableVars
  PROVE  PlansInv'
  <1>1. TablesInv /\ TablesInv' /\ DOMAIN job = Worker
    BY TablesStep DEF PlansInv, TablesInv
  <1>2. \A v \in Worker : Active(v) /\ job[v].alone => Plan(job[v])
    BY DEF PlansInv
  <1>3. ASSUME NEW v \in Worker, db' = db, job'[v] # Idle, job[v] # Idle,
               job'[v].tx = job[v].tx, job'[v].op = job[v].op, job'[v].then = job[v].then,
               job'[v].arg = job[v].arg, job'[v].alone => job[v].alone
        PROVE  (Active(v) /\ job[v].alone => Plan(job[v]))'
    <2> SUFFICES ASSUME Active(v)', job'[v].alone
                 PROVE  Plan(job[v])'
      OBVIOUS
    <2>1. Active(v) /\ job[v].alone
      BY <1>3 DEF Active
    <2>2. PICK j, k : j = job[v] /\ k = job'[v]
      OBVIOUS
    <2>3. Plan(j)
      BY <1>2, <2>1, <2>2
    <2>4. Plan(k)'
      BY <1>3, <2>2, <2>3, PlanLater
    <2> QED BY <2>2, <2>4
  <1>4. ASSUME NEW w \in Worker, Planned(w)
        PROVE  PlansInv'
    <2>1. db' = db /\ (\A v \in Worker \ {w} : job'[v] = job[v]) /\ Plan(job'[w])
      BY <1>4 DEF Planned
    <2>2. Plan(job[w])'
      <3>1. PICK j : j = job'[w]
        OBVIOUS
      <3>2. Plan(j)'
        BY <2>1, <3>1, PlanLater
      <3> QED BY <3>1, <3>2
    <2>3. ASSUME NEW v \in Worker
          PROVE  (Active(v) /\ job[v].alone => Plan(job[v]))'
      <3>1. CASE v = w
        BY <2>2, <3>1
      <3>2. CASE v # w /\ job[v] # Idle
        BY <1>3, <2>1, <3>2
      <3>3. CASE v # w /\ job[v] = Idle
        BY <2>1, <3>3 DEF Active
      <3> QED BY <3>1, <3>2, <3>3
    <2> QED BY <1>1, <2>3 DEF PlansInv
  <1>5. ASSUME NEW w \in Worker, Answers(w)
        PROVE  PlansInv'
    <2>1. db' = db /\ job'[w] = Idle /\ \A v \in Worker \ {w} : job'[v] = job[v]
      BY <1>1, <1>5 DEF Answers
    <2>2. ASSUME NEW v \in Worker
          PROVE  (Active(v) /\ job[v].alone => Plan(job[v]))'
      <3>1. CASE v = w \/ job[v] = Idle
        BY <2>1, <3>1 DEF Active
      <3>2. CASE v # w /\ job[v] # Idle
        BY <1>3, <2>1, <3>2
      <3> QED BY <3>1, <3>2
    <2> QED BY <1>1, <2>2 DEF PlansInv
  <1>6. ASSUME NEW w \in Worker, Commit(w)
        PROVE  PlansInv'
    <2>1. ASSUME NEW v \in Worker
          PROVE  (Active(v) /\ job[v].alone => Plan(job[v]))'
      <3>1. CASE v = w \/ job[v] = Idle
        BY <1>1, <1>6, <3>1, JobsAfterCommit DEF Active
      <3>2. CASE v # w /\ job[v] # Idle
        <4>1. /\ job'[v].op = job[v].op /\ job'[v].tx = job[v].tx
              /\ job'[v].then = job[v].then /\ job'[v].arg = job[v].arg
              /\ job'[v].alone = (job[v].alone /\ db' = db)
          BY <1>1, <1>6, <3>2, JobsAfterCommit
        <4>2. CASE db' = db /\ job'[v] # Idle
          BY <1>3, <3>2, <4>1, <4>2
        <4>3. CASE ~(db' = db /\ job'[v] # Idle)
          BY <4>1, <4>3 DEF Active
        <4> QED BY <4>2, <4>3
      <3> QED BY <3>1, <3>2
    <2> QED BY <1>1, <2>1 DEF PlansInv
  <1>7. CASE WallsNext
    BY <1>1, <1>4, <1>5, <1>6, <1>7, RequestsPlan DEF WallsNext, Refused, RequestFails
  <1>8. CASE UNCHANGED tableVars
    <2>1. ASSUME NEW v \in Worker
          PROVE  (Active(v) /\ job[v].alone => Plan(job[v]))'
      <3>1. db' = db /\ job' = job
        BY <1>8 DEF tableVars
      <3>2. CASE job[v] # Idle
        BY <1>3, <3>1, <3>2
      <3>3. CASE job[v] = Idle
        BY <3>1, <3>3 DEF Active
      <3> QED BY <3>2, <3>3
    <2> QED BY <1>1, <2>1 DEF PlansInv
  <1> QED BY <1>7, <1>8

\* What a request has checked is still so when it commits, unless another one has
\* changed a row in between.
THEOREM RequestsKeepToTheirPlans == WallsSpec => []PlansInv
  <1>1. Tables0 => PlansInv
    <2> SUFFICES ASSUME Tables0
                 PROVE  PlansInv
      OBVIOUS
    <2>1. \A w \in Worker : job[w] = Idle
      BY DEF Tables0
    <2> QED BY <2>1, TablesInit DEF PlansInv, Active
  <1> QED BY <1>1, PlansStep, PTL DEF WallsSpec

-----------------------------------------------------------------------------
(* What a commit makes of the rows *)

\* The transaction of job j, of which the plan holds, is committed.
Committed(j) ==
  Plan(j) /\ Typed(j.tx, serial) /\ Holds(j.tx) /\ db' = After(j.tx)

\* The plan holds of a request that commits and that nothing has come between.
LEMMA PlannedCommit ==
  ASSUME PlansInv, NEW w \in Worker, Commit(w), job[w].alone
  PROVE  \E j : j = job[w] /\ Committed(j)
  <1>1. PICK j : j = job[w]
    OBVIOUS
  <1>2. Plan(j)
    BY <1>1 DEF PlansInv, Commit
  <1>3. Typed(j.tx, serial)
    <2>1. TypedRows(j.tx, serial)
      BY <1>1 DEF PlansInv, TablesInv, JobTyped, Commit, Active
    <2> QED BY <1>2, <2>1 DEF Plan, Typed
  <1>4. Holds(j.tx) /\ db' = After(j.tx)
    BY <1>1 DEF Commit
  <1> QED BY <1>1, <1>2, <1>3, <1>4 DEF Committed

\* Rows change by one commit: of a request that was overtaken, or according to the plan.
LEMMA RowsChange ==
  ASSUME PlansInv, [WallsNext]_tableVars, db' # db
  PROVE  \E w \in Worker :
           /\ Commits(w) /\ \A v \in Worker : Commits(v) => v = w
           /\ Overlapped(w) \/ (job[w].alone /\ \E j : j = job[w] /\ Committed(j))
  <1>1. ASSUME NEW w \in Worker, WallsRequest(w) \/ AssetsRequest(w)
        PROVE  FALSE
    <2>1. Answers(w) \/ Planned(w)
      BY <1>1, RequestsPlan DEF PlansInv
    <2> QED BY <2>1 DEF Answers, Planned
  <1>2. PICK w \in Worker : Commit(w)
    BY <1>1 DEF WallsNext, tableVars, Refused, RequestFails, Answers
  <1>3. Commits(w)
    BY <1>2, JobsAfterCommit DEF Commits, Commit, PlansInv
  <1>4. ASSUME job[w].alone
        PROVE  \E j : j = job[w] /\ Committed(j)
    BY <1>2, <1>4, PlannedCommit
  <1>5. ASSUME NEW v \in Worker, Commits(v), v # w
        PROVE  FALSE
    <2>1. job[v] # Idle /\ job[v].tx # None /\ (job'[v] = Idle \/ job'[v].tx = None)
      BY <1>5 DEF Commits, Active
    <2>2. job'[v].tx = job[v].tx
      BY <1>2, <1>5, <2>1, JobsAfterCommit DEF PlansInv
    <2> QED BY <2>1, <2>2 DEF Idle
  <1> QED BY <1>3, <1>4, <1>5 DEF Overlapped

\* A row that is there afterwards is new, or has stayed; those that queries insert are
\* of two tables.
LEMMA Fates ==
  ASSUME TablesInv, NEW j, Committed(j), NEW i \in DOMAIN db'
  PROVE  /\ \/ i \in DOMAIN j.tx.new /\ db'[i] = j.tx.new[i]
            \/ i \in DOMAIN db \ (Removed(j.tx) \cup DOMAIN j.tx.new)
            \/ i \in (Membership \cup Playing) \ DOMAIN db
         /\ i \in DOMAIN j.tx.new /\ i \notin Rewritten => i \notin DOMAIN db
         /\ i \in DOMAIN db /\ i \notin Rewritten =>
              i \notin Removed(j.tx) /\ i \notin DOMAIN j.tx.new
  <1>1. PICK tx : tx = j.tx
    OBVIOUS
  <1>2. Typed(tx, serial) /\ Holds(tx) /\ db' = After(tx)
    BY <1>1 DEF Committed
  <1>3. \/ i \in DOMAIN tx.new /\ db'[i] = tx.new[i]
        \/ i \in DOMAIN db \ (Removed(tx) \cup DOMAIN tx.new)
        \/ i \in (Membership \cup Playing) \ DOMAIN db
    BY <1>2, AfterRows DEF Typed, TypedRows, Cautious
  <1>4. i \in DOMAIN tx.new /\ i \notin Rewritten => i \notin DOMAIN db
    BY <1>2, NewRows
  <1>5. i \in DOMAIN db /\ i \notin Rewritten => i \notin Removed(tx) /\ i \notin DOMAIN tx.new
    BY <1>2, <1>3, <1>4
  <1> QED BY <1>1, <1>3, <1>4, <1>5

\* Columns that are written by moves only, or never.
LEMMA MovedColumns ==
  \A op :
    /\ <<4, "site">> \in Steady \cup MovesIn(op) => op = "device.moved"
    /\ <<5, "device">> \in Steady \cup MovesIn(op) => op = "camera.moved"
    /\ <<12, "layout">> \in Steady \cup MovesIn(op) => op = "screen.moved"
    /\ {<<6, "camera">>, <<9, "grid">>, <<10, "camera">>, <<13, "screen">>, <<14, "screen">>,
        <<14, "view">>, <<14, "slot">>} \cap (Steady \cup MovesIn(op)) = {}
  <1> SUFFICES ASSUME NEW op
               PROVE  /\ <<4, "site">> \in Steady \cup MovesIn(op) => op = "device.moved"
                      /\ <<5, "device">> \in Steady \cup MovesIn(op) => op = "camera.moved"
                      /\ <<12, "layout">> \in Steady \cup MovesIn(op) => op = "screen.moved"
                      /\ {<<6, "camera">>, <<9, "grid">>, <<10, "camera">>, <<13, "screen">>,
                          <<14, "screen">>, <<14, "view">>, <<14, "slot">>}
                           \cap (Steady \cup MovesIn(op)) = {}
    OBVIOUS
  <1>1. \A x \in MovesIn(op) :
          \/ x = <<12, "layout">> /\ op = "screen.moved"
          \/ x = <<4, "site">> /\ op = "device.moved"
          \/ x = <<5, "device">> /\ op = "camera.moved"
    BY DEF MovesIn, Moves
  <1>2. /\ <<4, "site">> \notin Steady /\ <<5, "device">> \notin Steady
        /\ <<12, "layout">> \notin Steady
    BY DEF Steady
  <1>3. /\ <<6, "camera">> \notin Steady /\ <<9, "grid">> \notin Steady
        /\ <<10, "camera">> \notin Steady /\ <<13, "screen">> \notin Steady
        /\ <<14, "screen">> \notin Steady /\ <<14, "view">> \notin Steady
        /\ <<14, "slot">> \notin Steady
    BY DEF Steady
  <1> QED BY <1>1, <1>2, <1>3

\* The columns of a row that stays: those that a cleared reference does not concern have
\* the value the transaction writes, if any.
LEMMA StayingRow ==
  ASSUME TablesInv, NEW j, Committed(j),
         NEW i \in DOMAIN db \ (Removed(j.tx) \cup DOMAIN j.tx.new)
  PROVE  /\ i \in DOMAIN db' /\ DOMAIN db'[i] = DOMAIN db[i] /\ DOMAIN db[i] = DOMAIN RowType(i)
         /\ \A c \in DOMAIN db[i] :
              c \notin ColumnsThat("clear", i) =>
                /\ db'[i][c] = Written(j.tx, i)[c]
                /\ c \notin ColumnsWritten(j.tx, i) => db'[i][c] = db[i][c]
         /\ \A c : c \in ColumnsWritten(j.tx, i) =>
                     <<TableNumber(i), c>> \in Steady \cup MovesIn(j.op)
         /\ \A c \in ColumnsWritten(j.tx, i) :
              i \in DOMAIN j.tx.bulk \/ (i \in DOMAIN j.tx.set /\ c \in DOMAIN j.tx.set[i])
         /\ i \in DOMAIN j.tx.bulk => TableNumber(i) \in {7, 13, 16}
         /\ \A c \in DOMAIN db[i] :
              i \in DOMAIN j.tx.set /\ c \in DOMAIN j.tx.set[i] =>
                Written(j.tx, i)[c] = j.tx.set[i][c]
  <1>1. PICK tx, op : tx = j.tx /\ op = j.op
    OBVIOUS
  <1>2. db' = After(tx) /\ Within(tx, 1..16, Steady \cup MovesIn(op), 1..16)
    BY <1>1 DEF Committed, Plan
  <1>3. IsRow(i, db[i])
    BY DEF TablesInv, TablesTypeOK
  <1>4. i \in DOMAIN After(tx) /\ DOMAIN After(tx)[i] = DOMAIN db[i]
    BY <1>1, AfterRows
  <1>5. \A c \in DOMAIN db[i] :
          c \notin ColumnsThat("clear", i) => After(tx)[i][c] = Written(tx, i)[c]
    <2>1. i \in DOMAIN db \ (Removed(tx) \cup DOMAIN tx.new)
      BY <1>1
    <2>2. \A k \in DOMAIN db \ (Removed(tx) \cup DOMAIN tx.new) :
            /\ IsFunction(After(tx)[k]) /\ DOMAIN After(tx)[k] = DOMAIN db[k]
            /\ \A c \in DOMAIN db[k] :
                 After(tx)[k][c] =
                   IF c \in ColumnsThat("clear", k) /\ Written(tx, k)[c] \in Removed(tx)
                   THEN None ELSE Written(tx, k)[c]
      BY AfterRows
    <2> QED BY <2>1, <2>2
  <1>6. \A c \in DOMAIN db[i] : c \notin ColumnsWritten(tx, i) => Written(tx, i)[c] = db[i][c]
    BY DEF Written, ColumnsWritten, ++
  <1>7. \A c : c \in ColumnsWritten(tx, i) => <<TableNumber(i), c>> \in Steady \cup MovesIn(op)
    BY <1>2, WithinColumns
  <1>8. /\ \A c \in ColumnsWritten(tx, i) :
             i \in DOMAIN tx.bulk \/ (i \in DOMAIN tx.set /\ c \in DOMAIN tx.set[i])
        /\ i \in DOMAIN tx.bulk => TableNumber(i) \in {7, 13, 16}
    BY <1>2 DEF ColumnsWritten, Within
  <1>9. \A c \in DOMAIN db[i] :
          i \in DOMAIN tx.set /\ c \in DOMAIN tx.set[i] => Written(tx, i)[c] = tx.set[i][c]
    BY DEF Written, ++
  <1> QED BY <1>1, <1>2, <1>3, <1>4, <1>5, <1>6, <1>7, <1>8, <1>9 DEF IsRow

\* The references of rows that stay are what they were but for a move.
LEMMA StayingReferences ==
  ASSUME TablesInv, NEW j, Committed(j),
         NEW i \in DOMAIN db \ (Removed(j.tx) \cup DOMAIN j.tx.new)
  PROVE  /\ i \in Device /\ j.op # "device.moved" => db'[i].site = db[i].site
         /\ i \in Camera /\ j.op # "camera.moved" => db'[i].device = db[i].device
         /\ i \in Address => db'[i].camera = db[i].camera
         /\ i \in SiteConfig => db'[i].grid = db[i].grid
         /\ i \in SiteSlot => db'[i].camera = db[i].camera
         /\ i \in ScreenId /\ j.op # "screen.moved" => db'[i].layout = db[i].layout
         /\ i \in ViewId => db'[i].screen = db[i].screen
         /\ i \in Mapping => /\ db'[i].screen = db[i].screen /\ db'[i].view = db[i].view
                             /\ db'[i].slot = db[i].slot
  <1>1. \A c \in DOMAIN RowType(i) :
          /\ <<TableNumber(i), c>> \notin Steady \cup MovesIn(j.op)
          /\ c \notin ColumnsThat("clear", i)
          => db'[i][c] = db[i][c]
    BY StayingRow
  <1>2. \A c \in ColumnsThat("clear", i) :
          (i \in Mapping /\ c = "device") \/ i \in Pc
    BY ClearedColumns
  <1>3. i \in Device /\ j.op # "device.moved" => db'[i].site = db[i].site
    BY <1>1, <1>2, OneTable, RowTypes, MovedColumns DEF DeviceRow
  <1>4. i \in Camera /\ j.op # "camera.moved" => db'[i].device = db[i].device
    BY <1>1, <1>2, OneTable, RowTypes, MovedColumns DEF CameraRow
  <1>5. i \in Address => db'[i].camera = db[i].camera
    <2> SUFFICES ASSUME i \in Address
                 PROVE  db'[i].camera = db[i].camera
      OBVIOUS
    <2>1. TableNumber(i) = 6 /\ RowType(i) = AddressRow /\ i \notin Pc /\ i \notin Mapping
      BY OneTable, RowTypes
    <2>2. "camera" \in DOMAIN RowType(i)
      BY <2>1 DEF AddressRow
    <2>3. /\ <<6, "camera">> \notin Steady \cup MovesIn(j.op)
          /\ "camera" \notin ColumnsThat("clear", i)
      BY <1>2, <2>1, MovedColumns
    <2> QED BY <1>1, <2>1, <2>2, <2>3
  <1>6. i \in SiteConfig => db'[i].grid = db[i].grid
    <2> SUFFICES ASSUME i \in SiteConfig
                 PROVE  db'[i].grid = db[i].grid
      OBVIOUS
    <2>1. TableNumber(i) = 9 /\ RowType(i) = SiteConfigRow(i) /\ i \notin Pc /\ i \notin Mapping
      BY OneTable, RowTypes
    <2>2. "grid" \in DOMAIN RowType(i)
      BY <2>1 DEF SiteConfigRow
    <2>3. /\ <<9, "grid">> \notin Steady \cup MovesIn(j.op)
          /\ "grid" \notin ColumnsThat("clear", i)
      BY <1>2, <2>1, MovedColumns
    <2> QED BY <1>1, <2>1, <2>2, <2>3
  <1>7. i \in SiteSlot => db'[i].camera = db[i].camera
    <2> SUFFICES ASSUME i \in SiteSlot
                 PROVE  db'[i].camera = db[i].camera
      OBVIOUS
    <2>1. TableNumber(i) = 10 /\ RowType(i) = SiteSlotRow(i) /\ i \notin Pc /\ i \notin Mapping
      BY OneTable, RowTypes
    <2>2. "camera" \in DOMAIN RowType(i)
      BY <2>1 DEF SiteSlotRow
    <2>3. /\ <<10, "camera">> \notin Steady \cup MovesIn(j.op)
          /\ "camera" \notin ColumnsThat("clear", i)
      BY <1>2, <2>1, MovedColumns
    <2> QED BY <1>1, <2>1, <2>2, <2>3
  <1>8. i \in ScreenId /\ j.op # "screen.moved" => db'[i].layout = db[i].layout
    BY <1>1, <1>2, OneTable, RowTypes, MovedColumns DEF ScreenRow
  <1>9. i \in ViewId => db'[i].screen = db[i].screen
    <2> SUFFICES ASSUME i \in ViewId
                 PROVE  db'[i].screen = db[i].screen
      OBVIOUS
    <2>1. TableNumber(i) = 13 /\ RowType(i) = ViewRow /\ i \notin Pc /\ i \notin Mapping
      BY OneTable, RowTypes
    <2>2. "screen" \in DOMAIN RowType(i)
      BY <2>1 DEF ViewRow
    <2>3. /\ <<13, "screen">> \notin Steady \cup MovesIn(j.op)
          /\ "screen" \notin ColumnsThat("clear", i)
      BY <1>2, <2>1, MovedColumns
    <2> QED BY <1>1, <2>1, <2>2, <2>3
  <1>10. i \in Mapping => /\ db'[i].screen = db[i].screen /\ db'[i].view = db[i].view
                          /\ db'[i].slot = db[i].slot
    <2> SUFFICES ASSUME i \in Mapping
                 PROVE  /\ db'[i].screen = db[i].screen /\ db'[i].view = db[i].view
                        /\ db'[i].slot = db[i].slot
      OBVIOUS
    <2>1. TableNumber(i) = 14 /\ RowType(i) = MappingRow /\ i \notin Pc
      BY OneTable, RowTypes
    <2>2. {"screen", "view", "slot"} \subseteq DOMAIN RowType(i)
      BY <2>1 DEF MappingRow
    <2>3. \A c \in {"screen", "view", "slot"} :
            <<14, c>> \notin Steady \cup MovesIn(j.op) /\ c \notin ColumnsThat("clear", i)
      BY <1>2, <2>1, MovedColumns
    <2> QED BY <1>1, <2>1, <2>2, <2>3
  <1> QED BY <1>3, <1>4, <1>5, <1>6, <1>7, <1>8, <1>9, <1>10

\* A camera that is there before and after stands where it stood, but for a move.
LEMMA CamerasStay ==
  ASSUME TablesInv, TablesInv', NEW j, Committed(j),
         j.op # "device.moved", j.op # "camera.moved",
         NEW c \in Camera, c \in DOMAIN db, c \in DOMAIN db'
  PROVE  /\ SiteOfCamera(c)' = SiteOfCamera(c)
         /\ SiteOfCamera(c) \in Site /\ SiteOfCamera(c) \in DOMAIN db
         /\ SiteOfCamera(c) \in DOMAIN db'
  <1>1. ForeignKeysHold(db) /\ \A i \in DOMAIN db : IsRow(i, db[i])
    BY DEF TablesInv, TablesTypeOK
  <1>2. ForeignKeysHold(db') /\ \A i \in DOMAIN db' : IsRow(i, db'[i])
    BY DEF TablesInv, TablesTypeOK
  <1>3. PICK d : d = db[c].device
    OBVIOUS
  <1>4. d \in Device /\ d \in DOMAIN db
    BY <1>1, <1>3, ForeignRows
  <1>5. /\ c \notin Rewritten /\ d \notin Rewritten
    BY <1>4, OneTable DEF Rewritten
  <1>6. db'[c].device = d
    BY <1>3, <1>5, Fates, StayingReferences
  <1>7. d \in DOMAIN db'
    BY <1>2, <1>6, ForeignRows
  <1>8. db'[d].site = db[d].site
    BY <1>4, <1>5, <1>7, Fates, StayingReferences
  <1>9. db[d].site \in Site /\ db[d].site \in DOMAIN db
    BY <1>1, <1>4, ForeignRows
  <1>10. db'[d].site \in DOMAIN db'
    BY <1>2, <1>4, <1>7, ForeignRows
  <1> QED BY <1>3, <1>6, <1>8, <1>9, <1>10 DEF SiteOfCamera, Exists
-----------------------------------------------------------------------------
(* The layout of a site *)

\* The rows of the tables before and after.
LEMMA RowsInOrder ==
  ASSUME TablesInv, TablesInv'
  PROVE  /\ ForeignKeysHold(db) /\ \A i \in DOMAIN db : IsRow(i, db[i])
         /\ ForeignKeysHold(db') /\ \A i \in DOMAIN db' : IsRow(i, db'[i])
  BY DEF TablesInv, TablesTypeOK

\* A commit according to the plan leaves no slot without its configuration, nor
\* outside the grid.
LEMMA LayoutsAgreeAfter ==
  ASSUME TablesInv, TablesInv', NEW j, Committed(j)
  PROVE  Loose' \subseteq Loose
  <1> SUFFICES ASSUME NEW i, i \in Loose'
               PROVE  i \in Loose
    OBVIOUS
  <1>1. i \in SiteSlot /\ i \in DOMAIN db'
    BY DEF Loose, Rows
  <1>2. /\ db'[i].site = i[1] /\ db'[i].slot = i[2]
        /\ i[1] \in Site /\ i[1] # None
    BY <1>1, RowsInOrder, ForeignRows, TablesAssumption DEF SiteSlot
  <1>3. PICK config, tx : config = <<i[1], None>> /\ tx = j.tx
    OBVIOUS
  <1>4. config \in SiteConfig /\ config[1] = i[1]
    BY <1>2, <1>3 DEF SiteConfig
  <1>5. \/ config \notin DOMAIN db'
        \/ i[2][1] > db'[config].grid[1]
        \/ i[2][2] > db'[config].grid[2]
    BY <1>2, <1>3 DEF Loose, Exists
  <1>6. /\ Typed(tx, serial) /\ Holds(tx) /\ db' = After(tx) /\ LayoutsWhole(tx)
    BY <1>3 DEF Committed, Plan
  <1>7. i \notin DOMAIN tx.new
    <2> SUFFICES ASSUME i \in DOMAIN tx.new
                 PROVE  FALSE
      OBVIOUS
    <2>1. /\ config \in DOMAIN tx.new
          /\ i[2][1] <= tx.new[config].grid[1] /\ i[2][2] <= tx.new[config].grid[2]
      BY <1>1, <1>3, <1>6 DEF LayoutsWhole
    <2>2. config \in DOMAIN db' /\ db'[config] = tx.new[config]
      BY <1>6, <2>1, AfterRows
    <2>3. db'[config].grid \in Grid(ScreenSide)
      BY <1>4, <2>2, RowsInOrder, ForeignRows
    <2>4. i[2] \in Grid(ScreenSide)
      BY <1>1 DEF SiteSlot
    <2> QED BY <1>5, <2>1, <2>2, <2>3, <2>4, TablesAssumption DEF Grid
  <1>8. i \in DOMAIN db \ (Removed(tx) \cup DOMAIN tx.new)
    BY <1>1, <1>3, <1>7, Fates, OneTable
  <1>9. /\ db[i].site = i[1] /\ db[i].slot = i[2] /\ i[1] \in DOMAIN db
        /\ "site" \in ColumnsThat("remove", i)
    BY <1>1, <1>8, RowsInOrder, ForeignRows, RemoveColumns
  <1>10. config \notin DOMAIN tx.new \cup tx.del \cup tx.purge
    <2> SUFFICES ASSUME config \in DOMAIN tx.new \cup tx.del \cup tx.purge
                 PROVE  FALSE
      OBVIOUS
    <2>1. SlotsOf(i[1]) \subseteq tx.del \cup tx.purge
      BY <1>4, <1>6 DEF LayoutsWhole
    <2>2. i \in SlotsOf(i[1])
      BY <1>1, <1>8, <1>9 DEF SlotsOf, Rows
    <2> QED BY <1>8, <2>1, <2>2, GoneRows DEF Removed
  <1>11. config \notin Removed(tx)
    <2> SUFFICES ASSUME config \in Removed(tx)
                 PROVE  FALSE
      OBVIOUS
    <2>1. config \in DOMAIN db
      BY GoneRows DEF Removed
    <2>2. ColumnsThat("remove", config) = {"site"} /\ db[config].site = i[1]
      BY <1>4, <2>1, RowsInOrder, ForeignRows, RemoveColumns
    <2>3. i[1] \in Removed(tx)
      BY <1>10, <2>2, GoneRows DEF Removed
    <2>4. i[1] \in tx.del \cup tx.purge
      BY <1>2, <2>3, GoneAlone DEF Removed
    <2>5. i \in Removed(tx)
      BY <1>2, <1>8, <1>9, <2>4, GoneBelow DEF Removed
    <2> QED BY <1>8, <2>5
  <1>12. CASE config \in DOMAIN db
    <2>1. config \in DOMAIN db \ (Removed(tx) \cup DOMAIN tx.new)
      BY <1>10, <1>11, <1>12
    <2>2. config \in DOMAIN db' /\ db'[config].grid = db[config].grid
      BY <1>3, <1>4, <2>1, StayingRow, StayingReferences
    <2> QED BY <1>1, <1>3, <1>5, <1>8, <1>9, <1>12, <2>2 DEF Loose, Rows
  <1>13. CASE config \notin DOMAIN db
    BY <1>1, <1>3, <1>8, <1>9, <1>13 DEF Loose, Rows, Exists
  <1> QED BY <1>12, <1>13

\* A commit according to the plan, of a request that moves no device and no camera,
\* shows no camera of another site.
LEMMA ForeignAfter ==
  ASSUME TablesInv, TablesInv', NEW j, Committed(j),
         j.op # "device.moved", j.op # "camera.moved"
  PROVE  Foreign' \subseteq Foreign
  <1> SUFFICES ASSUME NEW i, i \in Foreign'
               PROVE  i \in Foreign
    OBVIOUS
  <1>1. i \in SiteSlot /\ i \in DOMAIN db' /\ SiteOfCamera(db[i].camera)' # db'[i].site
    BY DEF Foreign, Rows
  <1>2. PICK tx, c : tx = j.tx /\ c = db'[i].camera
    OBVIOUS
  <1>3. /\ db'[i].site = i[1] /\ c \in Camera /\ c \in DOMAIN db'
        /\ i[1] \in Site /\ i[1] # None
    BY <1>1, <1>2, RowsInOrder, ForeignRows, TablesAssumption DEF SiteSlot
  <1>4. SiteOfCamera(c)' # i[1]
    BY <1>1, <1>2, <1>3 DEF SiteOfCamera, Exists
  <1>5. i \notin DOMAIN tx.new
    <2> SUFFICES ASSUME i \in DOMAIN tx.new
                 PROVE  FALSE
      OBVIOUS
    <2>1. SiteOfCamera(tx.new[i].camera) = i[1]
      BY <1>1, <1>2 DEF Committed, Plan, LayoutsWhole
    <2>2. tx.new[i].camera = c
      BY <1>2, AfterRows DEF Committed
    <2>3. c \in DOMAIN db
      BY <1>3, <2>1, <2>2 DEF SiteOfCamera, Exists
    <2> QED BY <1>3, <1>4, <2>1, <2>2, <2>3, CamerasStay
  <1>6. i \in DOMAIN db \ (Removed(tx) \cup DOMAIN tx.new)
    BY <1>1, <1>2, <1>5, Fates, OneTable
  <1>7. db[i].camera = c /\ db[i].site = i[1] /\ c \in DOMAIN db
    <2>1. db[i].camera = c
      BY <1>1, <1>2, <1>6, StayingReferences
    <2> QED BY <1>1, <1>6, <2>1, RowsInOrder, ForeignRows
  <1>8. SiteOfCamera(c) # i[1]
    BY <1>3, <1>4, <1>7, CamerasStay
  <1> QED BY <1>1, <1>6, <1>7, <1>8 DEF Foreign, Rows
\* The two tables of a site's layout, between which there is no foreign key, agree but
\* for overtaken requests.
THEOREM SiteLayoutsStayWhole == WallsSpec => SiteLayoutsAgree
  <1>1. ASSUME PlansInv, PlansInv', [WallsNext]_tableVars
        PROVE  Loose' \subseteq Loose \/ \E w \in Worker : Overlapped(w)
    <2>1. TablesInv /\ TablesInv'
      BY <1>1 DEF PlansInv
    <2>2. CASE db' = db
      BY <2>2 DEF Loose, Rows, Exists
    <2>3. CASE db' # db
      BY <1>1, <2>1, <2>3, RowsChange, LayoutsAgreeAfter
    <2> QED BY <2>2, <2>3
  <1>2. PlansInv /\ PlansInv' /\ [WallsNext]_tableVars =>
          [Loose' \subseteq Loose \/ \E w \in Worker : Overlapped(w)]_tableVars
    BY <1>1
  <1> QED BY <1>2, RequestsKeepToTheirPlans, PTL DEF WallsSpec, SiteLayoutsAgree

\* The layout of a site shows the cameras of the site: only moving a camera or its
\* device, or a request that was overtaken, makes it show another.
THEOREM SitesShowTheirCameras == WallsSpec => SiteShowsItsCameras
  <1>1. ASSUME PlansInv, PlansInv', [WallsNext]_tableVars
        PROVE  \/ Foreign' \subseteq Foreign
               \/ \E w \in Worker :
                    Overlapped(w) \/ CommitsOneOf(w, {"device.moved", "camera.moved"})
    <2>1. TablesInv /\ TablesInv'
      BY <1>1 DEF PlansInv
    <2>2. CASE db' = db
      BY <2>2 DEF Foreign, Rows, SiteOfCamera, Exists
    <2>3. CASE db' # db
      <3>1. PICK w \in Worker :
              /\ Commits(w)
              /\ Overlapped(w) \/ (job[w].alone /\ \E j : j = job[w] /\ Committed(j))
        BY <1>1, <2>3, RowsChange
      <3>2. CASE Overlapped(w)
        BY <3>2
      <3>3. CASE job[w].op \in {"device.moved", "camera.moved"}
        BY <3>1, <3>3 DEF CommitsOneOf
      <3>4. CASE ~Overlapped(w) /\ job[w].op \notin {"device.moved", "camera.moved"}
        <4>1. PICK j : j = job[w] /\ Committed(j)
          BY <3>1, <3>4
        <4>2. j.op # "device.moved" /\ j.op # "camera.moved"
          BY <3>4, <4>1
        <4> QED BY <2>1, <4>1, <4>2, ForeignAfter
      <3> QED BY <3>2, <3>3, <3>4
    <2> QED BY <2>2, <2>3
  <1>2. PlansInv /\ PlansInv' /\ [WallsNext]_tableVars =>
          [\/ Foreign' \subseteq Foreign
           \/ \E w \in Worker :
                Overlapped(w) \/ CommitsOneOf(w, {"device.moved", "camera.moved"})]_tableVars
    BY <1>1
  <1> QED BY <1>2, RequestsKeepToTheirPlans, PTL DEF WallsSpec, SiteShowsItsCameras
-----------------------------------------------------------------------------
(* The grids of views *)

\* A row of these tables that is there before and after has stayed.
LEMMA StaysThere ==
  ASSUME TablesInv, NEW j, Committed(j),
         NEW i \in DOMAIN db, i \in DOMAIN db', i \notin Rewritten
  PROVE  i \in DOMAIN db \ (Removed(j.tx) \cup DOMAIN j.tx.new)
  BY Fates

\* The grid of a view that stays is the one it had, or the new one of its screen, and
\* what lay outside is removed.
LEMMA GridsAfter ==
  ASSUME TablesInv, NEW j, Committed(j), j.op # "view.updated",
         NEW v \in ViewId, v \in DOMAIN db \ (Removed(j.tx) \cup DOMAIN j.tx.new)
  PROVE  \/ db'[v].rows = db[v].rows /\ db'[v].cols = db[v].cols
         \/ \A m \in Rows(Mapping) :
              db[m].screen = db[v].screen /\ Outside(m, db'[v].rows, db'[v].cols) =>
                m \in Removed(j.tx)
  <1>1. PICK tx : tx = j.tx
    OBVIOUS
  <1>2. RowType(v) = ViewRow /\ v \notin Mapping /\ v \notin Pc
    BY RowTypes, OneTable
  <1>3. {"rows", "cols"} \subseteq DOMAIN db[v] /\ {"rows", "cols"} \cap ColumnsThat("clear", v) = {}
    BY <1>1, <1>2, StayingRow, ClearedColumns DEF ViewRow
  <1>4. \A c \in {"rows", "cols"} :
          /\ db'[v][c] = Written(tx, v)[c]
          /\ c \notin ColumnsWritten(tx, v) => db'[v][c] = db[v][c]
          /\ v \in DOMAIN tx.set /\ c \in DOMAIN tx.set[v] => Written(tx, v)[c] = tx.set[v][c]
    BY <1>1, <1>3, StayingRow
  <1>5. GridsClear(j.op, tx)
    BY <1>1 DEF Committed, Plan
  <1>6. v \in DOMAIN tx.set => DOMAIN tx.set[v] \cap {"rows", "cols"} = {}
    BY <1>5 DEF GridsClear
  <1>7. CASE v \in DOMAIN tx.set
    <2>1. \A c \in {"rows", "cols"} : Written(tx, v)[c] = db[v][c]
      BY <1>3, <1>6, <1>7 DEF Written, ++
    <2> QED BY <1>4, <2>1
  <1>8. CASE v \notin DOMAIN tx.set /\ ColumnsWritten(tx, v) \cap {"rows", "cols"} = {}
    BY <1>4, <1>8
  <1>9. CASE v \notin DOMAIN tx.set /\ ColumnsWritten(tx, v) \cap {"rows", "cols"} # {}
    <2>1. v \in DOMAIN tx.bulk /\ DOMAIN tx.bulk[v] \cap {"rows", "cols"} # {}
      BY <1>9 DEF ColumnsWritten
    <2>2. /\ DOMAIN tx.bulk[v] = {"rows", "cols"}
          /\ \A m \in Rows(Mapping) :
               db[m].screen = db[v].screen /\ Outside(m, tx.bulk[v].rows, tx.bulk[v].cols) =>
                 m \in tx.purge
      BY <1>5, <2>1 DEF GridsClear
    <2>3. Written(tx, v).rows = tx.bulk[v].rows /\ Written(tx, v).cols = tx.bulk[v].cols
      BY <1>9, <2>1, <2>2 DEF Written, ++
    <2>4. db'[v].rows = tx.bulk[v].rows /\ db'[v].cols = tx.bulk[v].cols
      BY <1>4, <2>3
    <2>5. \A m \in Rows(Mapping) : m \in tx.purge => m \in Removed(tx)
      BY GoneRows DEF Removed, Rows
    <2> QED BY <1>1, <2>2, <2>4, <2>5
  <1> QED BY <1>7, <1>8, <1>9

\* The numbers of a slot and of a grid.
LEMMA GridNumbers ==
  ASSUME NEW d, \A i \in DOMAIN d : IsRow(i, d[i])
  PROVE  /\ \A v \in DOMAIN d \cap ViewId : d[v].rows \in Nat /\ d[v].cols \in Nat
         /\ \A slot \in Slot : slot[1] \in Nat /\ slot[2] \in Nat
  <1>1. ASSUME NEW v \in DOMAIN d \cap ViewId
        PROVE  d[v].rows \in Nat /\ d[v].cols \in Nat
    <2>1. IsRow(v, d[v]) /\ RowType(v) = ViewRow
      BY RowTypes
    <2>2. \A c \in DOMAIN ViewRow : d[v][c] \in ViewRow[c]
      BY <2>1 DEF IsRow, Fits
    <2>3. d[v].rows \in 1..ViewSide /\ d[v].cols \in 1..ViewSide
      BY <2>2 DEF ViewRow
    <2> QED BY <2>3, TablesAssumption
  <1> QED BY <1>1, TablesAssumption DEF Slot, Grid

\* A commit according to the plan leaves no mapping outside the grid of its view but by
\* update_view.
LEMMA StraysAfter ==
  ASSUME TablesInv, TablesInv', NEW j, Committed(j), j.op # "view.updated"
  PROVE  Stray' \subseteq Stray
  <1> SUFFICES ASSUME NEW m, m \in Stray'
               PROVE  m \in Stray
    OBVIOUS
  <1>1. PICK tx, v, slot : tx = j.tx /\ v = db'[m].view /\ slot = db'[m].slot
    OBVIOUS
  <1>2. /\ m \in Mapping /\ m \in DOMAIN db'
        /\ db'[m].screen = db'[v].screen
        /\ ~(slot[1] <= db'[v].rows /\ slot[2] <= db'[v].cols)
    BY <1>1 DEF Stray, Rows, OnItsView, InGrid
  <1>3. v \in ViewId /\ v \in DOMAIN db' /\ slot \in Slot
    BY <1>1, <1>2, RowsInOrder, ForeignRows
  <1>4. v \notin Rewritten /\ m \notin Rewritten /\ m \notin Membership \cup Playing
    BY <1>2, <1>3, OneTable DEF Rewritten
  <1>5. CASE m \in DOMAIN tx.new
    <2>1. PICK row : row = tx.new[m]
      OBVIOUS
    <2>2. row = db'[m]
      BY <1>1, <1>5, <2>1, AfterRows DEF Committed
    <2>3. Exists(row.view) /\ InGrid(row.slot, row.view)
      BY <1>1, <1>2, <1>5, <2>1 DEF Committed, Plan, PlacementsFit
    <2>4. v \in DOMAIN db /\ slot[1] <= db[v].rows /\ slot[2] <= db[v].cols
      BY <1>1, <2>2, <2>3 DEF Exists, InGrid
    <2>5. v \in DOMAIN db \ (Removed(tx) \cup DOMAIN tx.new)
      BY <1>1, <1>3, <1>4, <2>4, StaysThere
    <2>6. ColumnsWritten(tx, v) \cap {"rows", "cols"} = {}
      BY <1>1, <1>2, <1>3, <1>5 DEF Committed, Plan, Apart, Placing
    <2>7. RowType(v) = ViewRow /\ v \notin Mapping /\ v \notin Pc
      BY <1>3, RowTypes, OneTable
    <2>8. /\ {"rows", "cols"} \subseteq DOMAIN db[v]
          /\ {"rows", "cols"} \cap ColumnsThat("clear", v) = {}
      BY <1>1, <2>5, <2>7, StayingRow, ClearedColumns DEF ViewRow
    <2>9. db'[v].rows = db[v].rows /\ db'[v].cols = db[v].cols
      BY <1>1, <2>5, <2>6, <2>8, StayingRow
    <2> QED BY <1>2, <2>4, <2>9
  <1>6. CASE m \notin DOMAIN tx.new
    <2>1. m \in DOMAIN db \ (Removed(tx) \cup DOMAIN tx.new)
      BY <1>1, <1>2, <1>4, <1>6, Fates
    <2>2. db[m].view = v /\ db[m].slot = slot /\ db[m].screen = db'[m].screen
      BY <1>1, <1>2, <2>1, StayingReferences
    <2>3. v \in DOMAIN db
      BY <1>2, <2>1, <2>2, RowsInOrder, ForeignRows
    <2>4. v \in DOMAIN db \ (Removed(tx) \cup DOMAIN tx.new)
      BY <1>1, <1>3, <1>4, <2>3, StaysThere
    <2>5. db'[v].screen = db[v].screen
      BY <1>1, <1>3, <2>4, StayingReferences
    <2>6. m \in Rows(Mapping) /\ OnItsView(m)
      BY <1>2, <2>1, <2>2, <2>5 DEF Rows, OnItsView
    <2>7. CASE db'[v].rows = db[v].rows /\ db'[v].cols = db[v].cols
      BY <1>2, <2>2, <2>6, <2>7 DEF Stray, InGrid
    <2>8. CASE ~(db'[v].rows = db[v].rows /\ db'[v].cols = db[v].cols)
      <3>1. \A k \in Rows(Mapping) :
              db[k].screen = db[v].screen /\ Outside(k, db'[v].rows, db'[v].cols) =>
                k \in Removed(tx)
        BY <1>1, <1>3, <2>4, <2>8, GridsAfter
      <3>2. db'[v].rows \in Nat /\ db'[v].cols \in Nat /\ slot[1] \in Nat /\ slot[2] \in Nat
        BY <1>3, RowsInOrder, GridNumbers
      <3>3. Outside(m, db'[v].rows, db'[v].cols)
        BY <1>2, <2>2, <3>2 DEF Outside
      <3> QED BY <1>2, <2>1, <2>2, <2>5, <2>6, <3>1, <3>3
    <2> QED BY <2>7, <2>8
  <1> QED BY <1>5, <1>6

\* A mapping falls outside the grid of its view only by update_view, or by requests that
\* overtake each other.
THEOREM StraysAreExplained == WallsSpec => StraysComeFromViews
  <1>1. ASSUME PlansInv, PlansInv', [WallsNext]_tableVars
        PROVE  \/ Stray' \subseteq Stray
               \/ \E w \in Worker : Overlapped(w) \/ CommitsOneOf(w, {"view.updated"})
    <2>1. TablesInv /\ TablesInv'
      BY <1>1 DEF PlansInv
    <2>2. CASE db' = db
      BY <2>2 DEF Stray, Rows, OnItsView, InGrid
    <2>3. CASE db' # db
      <3>1. PICK w \in Worker :
              /\ Commits(w)
              /\ Overlapped(w) \/ (job[w].alone /\ \E j : j = job[w] /\ Committed(j))
        BY <1>1, <2>3, RowsChange
      <3>2. CASE Overlapped(w)
        BY <3>2
      <3>3. CASE job[w].op = "view.updated"
        BY <3>1, <3>3 DEF CommitsOneOf
      <3>4. CASE ~Overlapped(w) /\ job[w].op # "view.updated"
        BY <2>1, <3>1, <3>4, StraysAfter
      <3> QED BY <3>2, <3>3, <3>4
    <2> QED BY <2>2, <2>3
  <1>2. PlansInv /\ PlansInv' /\ [WallsNext]_tableVars =>
          [\/ Stray' \subseteq Stray
           \/ \E w \in Worker : Overlapped(w) \/ CommitsOneOf(w, {"view.updated"})]_tableVars
    BY <1>1
  <1> QED BY <1>2, RequestsKeepToTheirPlans, PTL DEF WallsSpec, StraysComeFromViews
-----------------------------------------------------------------------------
(* The slots that a request replaces *)

\* The mapping of a slot that is filled.
LEMMA RowAtSlot ==
  ASSUME NEW v, NEW target, NEW slot
  PROVE  /\ RowAt(v, target, slot).view = v /\ RowAt(v, target, slot).slot = slot
         /\ RowAt(v, target, slot).camera = target[slot].camera
  BY DEF RowAt, NewMapping

\* The mappings of the view that the body names stay and show its cameras.
LEMMA KeptAfter ==
  ASSUME TablesInv, NEW j, Committed(j), NEW v, NEW target, SlotsPlan(j.tx, v, target),
         NEW m \in DOMAIN db \ (Removed(j.tx) \cup DOMAIN j.tx.new), m \in Kept(v, target)
  PROVE  db'[m].camera = target[db[m].slot].camera
  <1>1. PICK tx : tx = j.tx
    OBVIOUS
  <1>2. m \in Mapping /\ RowType(m) = MappingRow /\ m \notin Pc
    BY RowTypes, OneTable DEF Kept, There, Rows
  <1>3. "camera" \in DOMAIN db[m] /\ "camera" \notin ColumnsThat("clear", m)
    <2>1. DOMAIN db[m] = DOMAIN MappingRow
      BY <1>2, StayingRow
    <2> QED BY <1>2, <2>1, ClearedColumns DEF MappingRow
  <1>4. /\ db'[m].camera = Written(tx, m)["camera"]
        /\ "camera" \notin ColumnsWritten(tx, m) => db'[m].camera = db[m].camera
    BY <1>1, <1>3, StayingRow
  <1>5. /\ "camera" \in ColumnsWritten(tx, m) => tx.set[m].camera = target[db[m].slot].camera
        /\ "camera" \notin ColumnsWritten(tx, m) => db[m].camera = target[db[m].slot].camera
        /\ DOMAIN tx.bulk = {}
    BY <1>1 DEF SlotsPlan
  <1>6. CASE "camera" \in ColumnsWritten(tx, m)
    <2>1. m \in DOMAIN tx.set /\ "camera" \in DOMAIN tx.set[m]
      BY <1>5, <1>6 DEF ColumnsWritten
    <2>2. Written(tx, m)["camera"] = tx.set[m]["camera"]
      BY <1>1, <1>3, <2>1, StayingRow
    <2> QED BY <1>4, <1>5, <1>6, <2>2
  <1> QED BY <1>4, <1>5, <1>6

\* A commit of replace_view_slots according to the plan leaves in the view the body.
LEMMA ShownAfter ==
  ASSUME TablesInv, TablesInv', NEW j, Committed(j), NEW v, NEW target,
         SlotsPlan(j.tx, v, target)
  PROVE  Shown(v)' = Asked(target)
  <1>1. PICK tx : tx = j.tx
    OBVIOUS
  <1>2. /\ Typed(tx, serial) /\ Holds(tx) /\ db' = After(tx) /\ SlotsPlan(tx, v, target)
    BY <1>1 DEF Committed
  <1>3. /\ DOMAIN tx.new \subseteq Mapping
        /\ \A m \in DOMAIN tx.new :
             \E slot \in EmptySlots(v, target) : tx.new[m] = RowAt(v, target, slot)
        /\ \A slot \in EmptySlots(v, target) :
             \E m \in DOMAIN tx.new : tx.new[m] = RowAt(v, target, slot)
        /\ tx.del = There(v) \ Kept(v, target) /\ tx.purge = {}
    BY <1>2 DEF SlotsPlan
  <1>4. Shown(v)' = {<<db'[m].slot, db'[m].camera>> :
                       m \in {k \in DOMAIN db' \cap Mapping : db'[k].view = v}}
    BY DEF Shown, Rows
  <1>5. ASSUME NEW m \in DOMAIN db' \cap Mapping, db'[m].view = v
        PROVE  \E slot \in DOMAIN target :
                 <<db'[m].slot, db'[m].camera>> = <<slot, target[slot].camera>>
    <2>1. CASE m \in DOMAIN tx.new
      <3>1. PICK slot \in EmptySlots(v, target) : tx.new[m] = RowAt(v, target, slot)
        BY <1>3, <2>1
      <3>2. db'[m] = RowAt(v, target, slot)
        BY <1>2, <2>1, <3>1, AfterRows
      <3> QED BY <3>2, RowAtSlot DEF EmptySlots
    <2>2. CASE m \notin DOMAIN tx.new
      <3>1. m \notin Membership \cup Playing
        BY <1>5, OneTable
      <3>2. m \in DOMAIN db \ (Removed(tx) \cup DOMAIN tx.new)
        BY <1>1, <1>5, <2>2, <3>1, Fates
      <3>3. db[m].view = v /\ db'[m].slot = db[m].slot
        BY <1>1, <1>5, <3>2, StayingReferences
      <3>4. m \in There(v) /\ m \notin tx.del
        BY <1>5, <3>2, <3>3, GoneRows DEF There, Rows, Removed
      <3>5. m \in Kept(v, target)
        BY <1>3, <3>4
      <3>6. db'[m].camera = target[db[m].slot].camera
        BY <1>1, <1>2, <3>2, <3>5, KeptAfter
      <3> QED BY <3>3, <3>5, <3>6 DEF Kept
    <2> QED BY <2>1, <2>2
  <1>6. ASSUME NEW slot \in DOMAIN target
        PROVE  \E m \in DOMAIN db' \cap Mapping :
                 /\ db'[m].view = v
                 /\ <<slot, target[slot].camera>> = <<db'[m].slot, db'[m].camera>>
    <2>1. CASE slot \in EmptySlots(v, target)
      <3>1. PICK m \in DOMAIN tx.new : tx.new[m] = RowAt(v, target, slot)
        BY <1>3, <2>1
      <3>2. m \in DOMAIN db' /\ db'[m] = RowAt(v, target, slot)
        BY <1>2, <3>1, AfterRows
      <3> QED BY <1>3, <3>1, <3>2, RowAtSlot
    <2>2. CASE slot \notin EmptySlots(v, target)
      <3>1. PICK m \in There(v) : db[m].slot = slot
        BY <1>6, <2>2 DEF EmptySlots
      <3>2. m \in Kept(v, target) /\ m \in DOMAIN db /\ m \in Mapping /\ db[m].view = v
        BY <1>6, <3>1 DEF Kept, There, Rows
      <3>3. m \notin Rewritten /\ m \notin Playing
        BY <3>2, OneTable DEF Rewritten
      <3>4. m \notin DOMAIN tx.new
        BY <1>2, <3>2, <3>3, NewRows
      <3>5. m \notin Removed(tx)
        <4>1. tx.del \cup tx.purge \subseteq Purged
          BY <1>3 DEF There, Rows, Purged
        <4>2. Removed(tx) \subseteq tx.del \cup tx.purge \cup Playing
          BY <4>1, GoneOfQueries DEF Removed
        <4> QED BY <1>3, <3>2, <3>3, <4>2
      <3>6. m \in DOMAIN db \ (Removed(tx) \cup DOMAIN tx.new)
        BY <3>2, <3>4, <3>5
      <3>7. m \in DOMAIN db' /\ db'[m].view = v /\ db'[m].slot = slot
        BY <1>1, <3>1, <3>2, <3>6, StayingRow, StayingReferences
      <3>8. db'[m].camera = target[slot].camera
        BY <1>1, <1>2, <3>1, <3>2, <3>6, KeptAfter
      <3> QED BY <3>2, <3>7, <3>8
    <2> QED BY <2>1, <2>2
  <1>7. PICK shown : shown = Shown(v)'
    OBVIOUS
  <1>8. shown = {<<db'[m].slot, db'[m].camera>> :
                   m \in {k \in DOMAIN db' \cap Mapping : db'[k].view = v}}
    BY <1>4, <1>7
  <1>9. shown \subseteq {<<slot, target[slot].camera>> : slot \in DOMAIN target}
    BY <1>5, <1>8
  <1>10. {<<slot, target[slot].camera>> : slot \in DOMAIN target} \subseteq shown
    BY <1>6, <1>8
  <1> QED BY <1>7, <1>9, <1>10 DEF Asked

\* After replace_view_slots the view shows exactly the body, if no other request came
\* between its checks and its commit.
THEOREM ReplacedSlotsShowTheBody == WallsSpec => ReplacedSlotsAreTheBody
  <1>1. ASSUME PlansInv, PlansInv', [WallsNext]_tableVars,
               NEW w \in Worker, CommitsAlone(w, {"slots.replaced"}),
               NEW v \in {job[w].arg.view}, NEW body \in {job[w].arg.slots}
        PROVE  Shown(v)' = Asked(body)
    <2>1. Commits(w) /\ job[w].alone /\ job[w].op = "slots.replaced" /\ db' # db
      BY <1>1 DEF CommitsAlone, Commits
    <2>2. PICK j : j = job[w] /\ Committed(j)
      BY <1>1, <2>1, RowsChange DEF Overlapped
    <2>3. PICK u, target :
            j.arg = [view |-> u, slots |-> target] /\ SlotsPlan(j.tx, u, target)
      BY <2>1, <2>2 DEF Committed, Plan, SlotsPlanned
    <2>4. v = u /\ body = target
      BY <2>2, <2>3
    <2>5. TablesInv /\ TablesInv'
      BY <1>1 DEF PlansInv
    <2>6. Committed(j) /\ SlotsPlan(j.tx, v, body)
      BY <2>2, <2>3, <2>4
    <2> QED BY ONLY <2>5, <2>6, ShownAfter
  <1>2. PlansInv /\ PlansInv' /\ [WallsNext]_tableVars =>
          [\A w \in Worker :
             CommitsAlone(w, {"slots.replaced"}) =>
               \A v \in {job[w].arg.view}, body \in {job[w].arg.slots} :
                 Shown(v)' = Asked(body)]_tableVars
    BY <1>1
  <1> QED BY <1>2, RequestsKeepToTheirPlans, PTL DEF WallsSpec, ReplacedSlotsAreTheBody
-----------------------------------------------------------------------------
(* Alert addresses *)

\* An address that is not new is for the camera it was for, and is active only if it was
\* and the transaction does not take it out of use.
LEMMA AddressesAfter ==
  ASSUME TablesInv, NEW j, Committed(j),
         NEW a \in Address, a \in DOMAIN db', a \notin DOMAIN j.tx.new
  PROVE  /\ a \in DOMAIN db /\ db'[a].camera = db[a].camera
         /\ db'[a].active => db[a].active
         /\ a \in DOMAIN j.tx.set /\ "active" \in DOMAIN j.tx.set[a] => db'[a].active = FALSE
  <1>1. PICK tx : tx = j.tx
    OBVIOUS
  <1>2. a \in DOMAIN db \ (Removed(tx) \cup DOMAIN tx.new)
    BY <1>1, Fates, OneTable
  <1>3. RowType(a) = AddressRow /\ TableNumber(a) = 6 /\ a \notin Mapping /\ a \notin Pc
    BY RowTypes, OneTable
  <1>4. "active" \in DOMAIN db[a] /\ "active" \notin ColumnsThat("clear", a)
    <2>1. DOMAIN db[a] = DOMAIN AddressRow
      BY <1>1, <1>2, <1>3, StayingRow
    <2> QED BY <1>3, <2>1, ClearedColumns DEF AddressRow
  <1>5. /\ db'[a].active = Written(tx, a)["active"]
        /\ "active" \notin ColumnsWritten(tx, a) => db'[a].active = db[a].active
        /\ a \in DOMAIN tx.set /\ "active" \in DOMAIN tx.set[a] =>
             Written(tx, a)["active"] = tx.set[a]["active"]
    BY <1>1, <1>2, <1>4, StayingRow
  <1>6. "active" \in ColumnsWritten(tx, a) => a \in DOMAIN tx.set /\ "active" \in DOMAIN tx.set[a]
    BY <1>1, <1>2, <1>3, StayingRow
  <1>7. a \in DOMAIN tx.set /\ "active" \in DOMAIN tx.set[a] => tx.set[a].active = FALSE
    BY <1>1 DEF Committed, Plan, AddressesDue
  <1>8. db'[a].camera = db[a].camera
    BY <1>1, <1>2, StayingReferences
  <1> QED BY <1>1, <1>2, <1>5, <1>6, <1>7, <1>8

\* When a request is about to make an address, its first transaction has made the camera
\* or taken an active address of it out of use.
LEMMA DueAfter ==
  ASSUME TablesInv, TablesInv', NEW j, Committed(j),
         j.then # None, j.then = "address.provisioned", j.arg \in Camera
  PROVE  /\ db' # db
         /\ \A a \in ActiveAddresses(j.arg)' :
              /\ j.arg \in DOMAIN db /\ a \in ActiveAddresses(j.arg)
              /\ \E b \in ActiveAddresses(j.arg) : b # a
  <1>1. PICK tx, c : tx = j.tx /\ c = j.arg
    OBVIOUS
  <1>2. Typed(tx, serial) /\ Holds(tx) /\ db' = After(tx)
    BY <1>1 DEF Committed
  <1>3. /\ DOMAIN tx.new \cap Address = {}
        /\ \/ c \in DOMAIN tx.new
           \/ \E b \in ActiveAddresses(c) :
                b \in DOMAIN tx.set /\ DOMAIN tx.set[b] = {"active"}
    BY <1>1 DEF Committed, Plan, AddressesDue
  <1>4. c \in DOMAIN tx.new => c \notin DOMAIN db
    <2>1. c \notin Rewritten
      BY <1>1, OneTable DEF Rewritten
    <2> QED BY <1>2, <2>1, NewRows
  <1>5. ASSUME NEW b \in ActiveAddresses(c), b \in DOMAIN tx.set,
               DOMAIN tx.set[b] = {"active"}, b \in DOMAIN db'
        PROVE  db'[b].active = FALSE
    <2>1. b \in Address
      BY DEF ActiveAddresses, Rows
    <2>2. b \notin DOMAIN tx.new
      BY <1>3, <2>1
    <2> QED BY <1>1, <1>5, <2>1, <2>2, AddressesAfter
  <1>6. db' # db
    <2>1. CASE c \in DOMAIN tx.new
      BY <1>2, <1>4, <2>1, InsertedAfter
    <2>2. CASE c \notin DOMAIN tx.new
      <3>1. PICK b \in ActiveAddresses(c) : b \in DOMAIN tx.set /\ DOMAIN tx.set[b] = {"active"}
        BY <1>3, <2>2
      <3>2. b \in DOMAIN db /\ db[b].active
        BY <3>1 DEF ActiveAddresses, Rows
      <3> QED BY <1>5, <3>1, <3>2
    <2> QED BY <2>1, <2>2
  <1>7. ASSUME NEW a \in ActiveAddresses(c)'
        PROVE  /\ c \in DOMAIN db /\ a \in ActiveAddresses(c)
               /\ \E b \in ActiveAddresses(c) : b # a
    <2>1. a \in Address /\ a \in DOMAIN db' /\ db'[a].camera = c /\ db'[a].active
      BY DEF ActiveAddresses, Rows
    <2>2. a \notin DOMAIN tx.new
      BY <1>3, <2>1
    <2>3. a \in DOMAIN db /\ db[a].camera = c /\ db[a].active
      BY <1>1, <2>1, <2>2, AddressesAfter
    <2>4. c \in DOMAIN db
      BY <2>1, <2>3, RowsInOrder, ForeignRows
    <2>5. PICK b \in ActiveAddresses(c) : b \in DOMAIN tx.set /\ DOMAIN tx.set[b] = {"active"}
      BY <1>3, <1>4, <2>4
    <2>6. b # a
      BY <1>5, <2>1, <2>5
    <2> QED BY <2>1, <2>3, <2>4, <2>5, <2>6 DEF ActiveAddresses, Rows
  <1> QED BY <1>1, <1>6, <1>7

\* An address that becomes due is so by a commit that nothing came between; a commit that
\* changes rows leaves due only its own.
LEMMA OwedAfter ==
  ASSUME PlansInv, [WallsNext]_tableVars, NEW c, Owed(c)'
  PROVE  \/ db' = db /\ Owed(c)
         \/ \E w \in Worker :
              /\ Commit(w) /\ job[w].alone
              /\ job[w].then # None /\ job[w].then = "address.provisioned" /\ job[w].arg = c
  <1>1. PICK v \in Worker :
          /\ job'[v] # Idle /\ job'[v].op = "address.provisioned"
          /\ job'[v].alone /\ job'[v].arg = c
    BY DEF Owed
  <1>2. TablesInv
    BY DEF PlansInv
  <1>3. ASSUME job'[v] = job[v]
        PROVE  Owed(c)
    BY <1>1, <1>3 DEF Owed
  <1>4. CASE UNCHANGED tableVars
    BY <1>3, <1>4 DEF tableVars
  <1>5. ASSUME NEW w \in Worker, WallsRequest(w) \/ AssetsRequest(w)
        PROVE  db' = db /\ Owed(c)
    <2>1. CASE Answers(w)
      BY <1>1, <1>2, <1>3, <2>1 DEF Answers, TablesInv
    <2>2. CASE ~Answers(w)
      <3>1. PICK ops, adds, sets, drops : Begins(w, ops, adds, sets, drops)
        BY <1>2, <1>5, <2>2, RequestsBegin
      <3>2. /\ db' = db /\ \A u \in Worker \ {w} : job'[u] = job[u]
            /\ \/ job[w] = Idle /\ job'[w].op # "address.provisioned"
               \/ /\ job[w] # Idle /\ job'[w].op = job[w].op /\ job'[w].alone = job[w].alone
                  /\ job'[w].op = "address.provisioned" => job'[w].arg = job[w].arg
        BY <1>2, <3>1, Begun
      <3>3. CASE v = w
        BY <1>1, <3>2, <3>3 DEF Owed
      <3>4. CASE v # w
        BY <1>3, <3>2, <3>4
      <3> QED BY <3>2, <3>3, <3>4
    <2> QED BY <2>1, <2>2
  <1>6. ASSUME NEW w \in Worker, Refused(w) \/ RequestFails(w)
        PROVE  db' = db /\ Owed(c)
    BY <1>1, <1>2, <1>3, <1>6 DEF Refused, RequestFails, Answers, TablesInv
  <1>7. ASSUME NEW w \in Worker, Commit(w)
        PROVE  \/ db' = db /\ Owed(c)
               \/ /\ job[w].alone
                  /\ job[w].then # None /\ job[w].then = "address.provisioned"
                  /\ job[w].arg = c
    <2>1. CASE v # w
      <3>1. /\ job[v] # Idle /\ job'[v].op = job[v].op /\ job'[v].arg = job[v].arg
            /\ job'[v].alone = (job[v].alone /\ db' = db)
        BY <1>1, <1>2, <1>7, <2>1, JobsAfterCommit
      <3> QED BY <1>1, <3>1 DEF Owed
    <2>2. CASE v = w
      BY <1>1, <1>2, <1>7, <2>2, JobsAfterCommit
    <2> QED BY <2>1, <2>2
  <1> QED BY <1>4, <1>5, <1>6, <1>7 DEF WallsNext
\* Of two active addresses of a camera at most one is new, and only for a camera that
\* had none or was owed one.
LEMMA TwoAddressesAfter ==
  ASSUME TablesInv, TablesInv', NEW j, Committed(j), j.op # "address.reissued",
         NEW c, NEW a \in ActiveAddresses(c)', NEW b \in ActiveAddresses(c)', a # b
  PROVE  /\ c \in DOMAIN db
         /\ \/ a \in ActiveAddresses(c) /\ b \in ActiveAddresses(c)
            \/ /\ a \in ActiveAddresses(c) \/ b \in ActiveAddresses(c)
               /\ j.op = "address.provisioned" /\ j.arg = c
  <1>1. PICK tx : tx = j.tx
    OBVIOUS
  <1>2. ASSUME NEW x \in ActiveAddresses(c)', x \notin DOMAIN tx.new
        PROVE  x \in ActiveAddresses(c) /\ c \in DOMAIN db
    <2>1. x \in Address /\ x \in DOMAIN db' /\ db'[x].camera = c /\ db'[x].active
      BY DEF ActiveAddresses, Rows
    <2>2. x \in DOMAIN db /\ db[x].camera = c /\ db[x].active
      BY <1>1, <1>2, <2>1, AddressesAfter
    <2> QED BY <2>1, <2>2, RowsInOrder, ForeignRows DEF ActiveAddresses, Rows
  <1>3. ASSUME NEW x \in {a, b}, x \in DOMAIN tx.new
        PROVE  /\ DOMAIN tx.new = {x}
               /\ ActiveAddresses(c) = {} \/ (j.op = "address.provisioned" /\ j.arg = c)
    <2>1. x \in Address /\ db'[x].camera = c
      BY DEF ActiveAddresses, Rows
    <2>2. PICK d, k :
            /\ DOMAIN tx.new = {k} /\ tx.new[k].camera = d
            /\ \/ j.op = "address.created" /\ ActiveAddresses(d) = {}
               \/ j.op = "address.provisioned" /\ j.arg = d
      BY <1>1, <1>3, <2>1 DEF Committed, Plan, AddressesDue
    <2>3. k = x /\ db' = After(tx)
      BY <1>1, <1>3, <2>2 DEF Committed
    <2>4. db'[x] = tx.new[x]
      BY <1>3, <2>3, InsertedAfter
    <2> QED BY <2>1, <2>2, <2>3, <2>4
  <1>4. CASE a \notin DOMAIN tx.new /\ b \notin DOMAIN tx.new
    BY <1>2, <1>4
  <1>5. CASE a \in DOMAIN tx.new
    <2>1. b \in ActiveAddresses(c) /\ c \in DOMAIN db
      BY <1>2, <1>3, <1>5
    <2> QED BY <1>3, <1>5, <2>1
  <1>6. CASE b \in DOMAIN tx.new
    <2>1. a \in ActiveAddresses(c) /\ c \in DOMAIN db
      BY <1>2, <1>3, <1>6
    <2> QED BY <1>3, <1>6, <2>1
  <1> QED BY <1>4, <1>5, <1>6

\* One active address per camera: only the rotation of a revoked address, or a request
\* that was overtaken, gives a camera a second one, also where the second is yet to come.
THEOREM AddressesStaySingle == WallsSpec => OneActiveAddressKept
  <1>1. ASSUME PlansInv, PlansInv', [WallsNext]_tableVars
        PROVE  \/ Doubled' \subseteq Doubled
               \/ \E w \in Worker : Overlapped(w) \/ CommitsOneOf(w, {"address.reissued"})
    <2> SUFFICES ASSUME ~\E w \in Worker :
                           Overlapped(w) \/ CommitsOneOf(w, {"address.reissued"}),
                        NEW c, c \in Doubled'
                 PROVE  c \in Doubled
      OBVIOUS
    <2>1. TablesInv /\ TablesInv'
      BY <1>1 DEF PlansInv
    <2>2. PICK a \in ActiveAddresses(c)' : Owed(c)' \/ ActiveAddresses(c)' # {a}
      BY DEF Doubled
    <2>3. c \in Camera /\ c \in DOMAIN db'
      BY DEF Doubled, Rows
    <2>4. ASSUME db' = db
          PROVE  ActiveAddresses(c)' = ActiveAddresses(c)
      BY <2>4 DEF ActiveAddresses, Rows
    <2>5. CASE Owed(c)' /\ ~(db' = db /\ Owed(c))
      <3>1. PICK w \in Worker :
              /\ Commit(w) /\ job[w].alone
              /\ job[w].then # None /\ job[w].then = "address.provisioned" /\ job[w].arg = c
        BY <1>1, <2>5, OwedAfter
      <3>2. PICK j : j = job[w] /\ Committed(j)
        BY <1>1, <3>1, PlannedCommit
      <3>3. /\ c \in DOMAIN db /\ a \in ActiveAddresses(c)
            /\ \E b \in ActiveAddresses(c) : b # a
        BY <2>1, <2>2, <2>3, <3>1, <3>2, DueAfter
      <3> QED BY <2>3, <3>3 DEF Doubled, Rows
    <2>6. CASE Owed(c)' /\ db' = db /\ Owed(c)
      BY <2>2, <2>3, <2>4, <2>6 DEF Doubled, Rows
    <2>7. CASE ~Owed(c)' /\ db' = db
      BY <2>2, <2>3, <2>4, <2>7 DEF Doubled, Rows
    <2>8. CASE ~Owed(c)' /\ db' # db
      <3>1. PICK b \in ActiveAddresses(c)' : b # a
        BY <2>2, <2>8
      <3>2. PICK w \in Worker :
              /\ Commits(w)
              /\ Overlapped(w) \/ (job[w].alone /\ \E j : j = job[w] /\ Committed(j))
        BY <1>1, <2>8, RowsChange
      <3>3. PICK j : j = job[w] /\ Committed(j)
        BY <3>2
      <3>4. job[w] # Idle /\ job[w].alone /\ j.op # "address.reissued"
        BY <3>2, <3>3 DEF CommitsOneOf, Commits, Active
      <3>5. /\ c \in DOMAIN db
            /\ \/ a \in ActiveAddresses(c) /\ b \in ActiveAddresses(c)
               \/ /\ a \in ActiveAddresses(c) \/ b \in ActiveAddresses(c)
                  /\ j.op = "address.provisioned" /\ j.arg = c
        BY <2>1, <3>1, <3>3, <3>4, TwoAddressesAfter
      <3>6. CASE a \in ActiveAddresses(c) /\ b \in ActiveAddresses(c)
        BY <2>3, <3>1, <3>5, <3>6 DEF Doubled, Rows
      <3>7. CASE /\ a \in ActiveAddresses(c) \/ b \in ActiveAddresses(c)
                 /\ j.op = "address.provisioned" /\ j.arg = c
        <4>1. Owed(c)
          BY <3>3, <3>4, <3>7 DEF Owed
        <4> QED BY <2>3, <3>5, <3>7, <4>1 DEF Doubled, Rows
      <3> QED BY <3>5, <3>6, <3>7
    <2> QED BY <2>5, <2>6, <2>7, <2>8
  <1>2. PlansInv /\ PlansInv' /\ [WallsNext]_tableVars =>
          [\/ Doubled' \subseteq Doubled
           \/ \E w \in Worker : Overlapped(w) \/ CommitsOneOf(w, {"address.reissued"})]_tableVars
    BY <1>1
  <1> QED BY <1>2, RequestsKeepToTheirPlans, PTL DEF WallsSpec, OneActiveAddressKept
-----------------------------------------------------------------------------
(* Cameras on the layouts of teams *)

\* A site stays in a team whose two rows stay, unless the membership is named.
LEMMA MembersAfter ==
  ASSUME TablesInv, NEW j, Committed(j),
         NEW k \in Site, NEW t \in Team, k \in DOMAIN db', t \in DOMAIN db',
         <<k, t>> \in DOMAIN db, <<k, t>> \notin j.tx.del \cup j.tx.purge
  PROVE  <<k, t>> \in DOMAIN db'
  <1>1. PICK tx, i : tx = j.tx /\ i = <<k, t>>
    OBVIOUS
  <1>2. i \in Membership /\ i \in DOMAIN db /\ i[1] = k /\ i[2] = t /\ i \notin tx.del \cup tx.purge
    BY <1>1 DEF Membership
  <1>3. /\ ForeignKeysHold(db) /\ \A h \in DOMAIN db : IsRow(h, db[h])
        /\ db' = After(tx)
    BY <1>1 DEF TablesInv, TablesTypeOK, Committed
  <1>4. db[i].site = k /\ db[i].team = t /\ ColumnsThat("remove", i) = {"site", "team"}
    BY <1>2, <1>3, ForeignRows, RemoveColumns
  <1>5. k \notin Removed(tx) /\ t \notin Removed(tx)
    <2>1. k \notin Rewritten /\ t \notin Rewritten
      BY OneTable DEF Rewritten
    <2>2. Removed(tx) \subseteq DOMAIN db
      BY GoneRows DEF Removed
    <2> QED BY <1>1, <2>1, <2>2, Fates
  <1>6. i \notin Removed(tx)
    BY <1>2, <1>4, <1>5, GoneRows DEF Removed
  <1> QED BY <1>1, <1>2, <1>3, <1>6, AfterRows

\* A camera that may be shown on a screen, and is shown there or about to be, may be so
\* after the commit.
LEMMA FitsAfter ==
  ASSUME TablesInv, TablesInv', NEW j, Committed(j),
         j.op # "device.moved", j.op # "camera.moved", j.op # "screen.moved",
         NEW c \in Camera, c \in DOMAIN db, c \in DOMAIN db',
         NEW s \in ScreenId, s \in DOMAIN db, s \in DOMAIN db',
         CameraFitsScreen(c, s),
         \/ Placing(j.tx)
         \/ \E m \in Rows(Mapping) : db[m].camera = c /\ db[m].screen = s
  PROVE  CameraFitsScreen(c, s)'
  <1>1. PICK tx, k, l : tx = j.tx /\ k = SiteOfCamera(c) /\ l = db[s].layout
    OBVIOUS
  <1>2. k \in Site /\ k \in DOMAIN db' /\ SiteOfCamera(c)' = k /\ k # None
    BY <1>1, CamerasStay, TablesAssumption
  <1>3. l \in Layout /\ l \in DOMAIN db /\ l \in DOMAIN db' /\ db'[s].layout = l
    <2>1. s \notin Rewritten
      BY OneTable DEF Rewritten
    <2>2. db'[s].layout = l
      BY <1>1, <2>1, StaysThere, StayingReferences
    <2> QED BY <1>1, <2>2, RowsInOrder, ForeignRows
  <1>4. PICK t, u : t = db[l].team /\ u = db'[l].team
    OBVIOUS
  <1>5. t \in Team /\ u \in Team /\ u \in DOMAIN db' /\ t # None
    BY <1>3, <1>4, RowsInOrder, ForeignRows, TablesAssumption
  <1>6. <<k, t>> \in DOMAIN db
    <2>1. TeamOfScreen(s) = t
      BY <1>1, <1>3, <1>4 DEF TeamOfScreen, TeamOfLayout, Exists
    <2> QED BY <1>1, <1>2, <1>5, <2>1
         DEF CameraFitsScreen, CameraFitsTeam, IsSiteInTeam, Exists
  <1>7. Placing(tx) \/ c \in CamerasInLayout(l)
    <2> SUFFICES ASSUME NEW m \in Rows(Mapping), db[m].camera = c, db[m].screen = s
                 PROVE  c \in CamerasInLayout(l)
      BY <1>1
    <2>1. m \in MappingsOfLayout(l)
      BY <1>1 DEF MappingsOfLayout
    <2> QED BY <2>1, TablesAssumption DEF CamerasInLayout
  <1>8. Apart(tx) /\ MembersFree(tx) /\ TeamsFree(tx)
    BY <1>1 DEF Committed, Plan
  <1>9. CASE u = t
    <2>1. <<k, t>> \notin tx.del \cup tx.purge
      <3> SUFFICES ASSUME <<k, t>> \in tx.del \cup tx.purge
                   PROVE  FALSE
        OBVIOUS
      <3>1. <<k, t>> \in (tx.del \cup tx.purge) \cap Membership
        BY <1>2, <1>5 DEF Membership
      <3>2. ~Placing(tx)
        BY <1>8, <3>1 DEF Apart
      <3>3. LayoutsBlockingSiteUnassign(k, t) = {}
        BY <1>8, <3>1 DEF MembersFree
      <3>4. l \in LayoutsBlockingSiteUnassign(k, t)
        BY <1>1, <1>3, <1>4, <1>7, <3>2 DEF LayoutsBlockingSiteUnassign, Rows
      <3> QED BY <3>3, <3>4
    <2>2. <<k, t>> \in DOMAIN db'
      BY <1>1, <1>2, <1>5, <1>6, <1>9, <2>1, MembersAfter
    <2> QED BY <1>2, <1>3, <1>4, <1>9, <2>2
             DEF CameraFitsScreen, CameraFitsTeam, IsSiteInTeam, Exists,
                 TeamOfScreen, TeamOfLayout
  <1>10. CASE u # t
    <2>1. l \in DOMAIN db \ (Removed(tx) \cup DOMAIN tx.new)
      <3>1. l \notin Rewritten
        BY <1>3, OneTable DEF Rewritten
      <3> QED BY <1>1, <1>3, <3>1, StaysThere
    <2>2. /\ RowType(l) = LayoutRow /\ TableNumber(l) = 11 /\ l \notin Mapping /\ l \notin Pc
      BY <1>3, RowTypes, OneTable
    <2>3. "team" \in DOMAIN db[l] /\ "team" \notin ColumnsThat("clear", l)
      <3>1. DOMAIN db[l] = DOMAIN LayoutRow
        BY <1>1, <2>1, <2>2, StayingRow
      <3> QED BY <2>2, <3>1, ClearedColumns DEF LayoutRow
    <2>4. /\ db'[l].team = Written(tx, l)["team"]
          /\ "team" \notin ColumnsWritten(tx, l) => db'[l].team = db[l].team
          /\ l \in DOMAIN tx.set /\ "team" \in DOMAIN tx.set[l] =>
               Written(tx, l)["team"] = tx.set[l]["team"]
      BY <1>1, <2>1, <2>3, StayingRow
    <2>5. "team" \in ColumnsWritten(tx, l)
      BY <1>4, <1>10, <2>4
    <2>6. l \in DOMAIN tx.set /\ "team" \in DOMAIN tx.set[l]
      BY <1>1, <2>1, <2>2, <2>5, StayingRow
    <2>7. tx.set[l].team = u
      BY <1>4, <2>4, <2>6
    <2>8. Regrouping(tx)
      BY <1>3, <2>5 DEF Regrouping
    <2>9. c \in CamerasInLayout(l)
      BY <1>7, <1>8, <2>8 DEF Apart
    <2>10. <<k, u>> \in DOMAIN db
      <3>1. CamerasBlockingLayoutMove(l, u) = {}
        BY <1>3, <1>8, <2>6, <2>7 DEF TeamsFree
      <3> QED BY <1>1, <2>9, <3>1 DEF CamerasBlockingLayoutMove, IsSiteInTeam, Exists
    <2>11. <<k, u>> \notin tx.del \cup tx.purge
      <3>1. <<k, u>> \in Membership
        BY <1>2, <1>5 DEF Membership
      <3> QED BY <1>8, <2>8, <3>1 DEF Apart
    <2>12. <<k, u>> \in DOMAIN db'
      BY <1>1, <1>2, <1>5, <2>10, <2>11, MembersAfter
    <2> QED BY <1>2, <1>3, <1>4, <2>12
             DEF CameraFitsScreen, CameraFitsTeam, IsSiteInTeam, Exists,
                 TeamOfScreen, TeamOfLayout
  <1> QED BY <1>9, <1>10
\* A commit according to the plan shows no camera on a layout of another team, unless it
\* moves a screen, a device or a camera, or assigns a slot.
LEMMA MisplacedAfter ==
  ASSUME TablesInv, TablesInv', NEW j, Committed(j),
         j.op # "slot.assigned", j.op # "screen.moved",
         j.op # "device.moved", j.op # "camera.moved"
  PROVE  Misplaced' \subseteq Misplaced
  <1> SUFFICES ASSUME NEW m, m \in Misplaced'
               PROVE  m \in Misplaced
    OBVIOUS
  <1>1. PICK tx, v, s, c :
          tx = j.tx /\ v = db'[m].view /\ s = db'[m].screen /\ c = db'[m].camera
    OBVIOUS
  <1>2. /\ m \in Mapping /\ m \in DOMAIN db' /\ db'[v].screen = s
        /\ c # None /\ ~CameraFitsScreen(c, s)'
    BY <1>1 DEF Misplaced, Rows, OnItsView, CameraFitsScreen, CameraFitsTeam, IsSiteInTeam,
                TeamOfScreen, TeamOfLayout, SiteOfCamera, Exists
  <1>3. /\ v \in ViewId /\ v \in DOMAIN db' /\ s \in ScreenId /\ s \in DOMAIN db'
        /\ c \in Camera /\ c \in DOMAIN db'
    BY <1>1, <1>2, RowsInOrder, ForeignRows
  <1>4. v \notin Rewritten /\ m \notin Membership \cup Playing
    BY <1>2, <1>3, OneTable DEF Rewritten
  <1>5. PlacementsFit(j.op, tx) /\ db' = After(tx)
    BY <1>1 DEF Committed, Plan
  <1>6. CASE m \in DOMAIN tx.new
    <2>1. PICK row : row = tx.new[m]
      OBVIOUS
    <2>2. row = db'[m]
      BY <1>5, <1>6, <2>1, AfterRows
    <2>3. /\ Exists(row.view) /\ row.screen = db[row.view].screen
          /\ CameraMayShow(row.camera, row.screen)
      BY <1>2, <1>5, <1>6, <2>1 DEF PlacementsFit
    <2>4. v \in DOMAIN db /\ s = db[v].screen /\ c \in DOMAIN db /\ CameraFitsScreen(c, s)
      BY <1>1, <1>2, <2>2, <2>3 DEF CameraMayShow, Exists
    <2>5. s \in DOMAIN db
      BY <1>3, <2>4, RowsInOrder, ForeignRows
    <2>6. Placing(tx)
      BY <1>2, <1>6 DEF Placing
    <2> QED BY <1>1, <1>2, <1>3, <2>4, <2>5, <2>6, FitsAfter
  <1>7. CASE m \notin DOMAIN tx.new
    <2>1. m \in DOMAIN db \ (Removed(tx) \cup DOMAIN tx.new)
      BY <1>1, <1>2, <1>4, <1>7, Fates
    <2>2. db[m].view = v /\ db[m].screen = s /\ m \in Rows(Mapping)
      BY <1>1, <1>2, <2>1, StayingReferences DEF Rows
    <2>3. v \in DOMAIN db /\ s \in DOMAIN db
      BY <1>2, <2>1, <2>2, RowsInOrder, ForeignRows
    <2>4. db[v].screen = s
      BY <1>1, <1>2, <1>3, <1>4, <2>3, StaysThere, StayingReferences
    <2>5. OnItsView(m)
      BY <2>2, <2>4 DEF OnItsView
    <2>6. RowType(m) = MappingRow /\ TableNumber(m) = 14 /\ m \notin Pc
      BY <1>2, RowTypes, OneTable
    <2>7. "camera" \in DOMAIN db[m] /\ "camera" \notin ColumnsThat("clear", m)
      <3>1. DOMAIN db[m] = DOMAIN MappingRow
        BY <1>1, <2>1, <2>6, StayingRow
      <3> QED BY <2>6, <3>1, ClearedColumns DEF MappingRow
    <2>8. /\ c = Written(tx, m)["camera"]
          /\ "camera" \notin ColumnsWritten(tx, m) => c = db[m].camera
          /\ m \in DOMAIN tx.set /\ "camera" \in DOMAIN tx.set[m] =>
               Written(tx, m)["camera"] = tx.set[m]["camera"]
      BY <1>1, <2>1, <2>7, StayingRow
    <2>9. CASE "camera" \in ColumnsWritten(tx, m)
      <3>1. m \in DOMAIN tx.set /\ "camera" \in DOMAIN tx.set[m]
        BY <1>1, <2>1, <2>6, <2>9, StayingRow
      <3>2. tx.set[m].camera = c
        BY <2>8, <3>1
      <3>3. CameraMayShow(c, s)
        BY <1>2, <1>5, <2>2, <2>5, <3>1, <3>2 DEF PlacementsFit
      <3>4. Placing(tx)
        BY <1>2, <2>9 DEF Placing
      <3> QED BY <1>1, <1>2, <1>3, <2>3, <3>3, <3>4, FitsAfter DEF CameraMayShow, Exists
    <2>10. CASE "camera" \notin ColumnsWritten(tx, m)
      <3>1. c = db[m].camera
        BY <2>8, <2>10
      <3>2. c \in DOMAIN db
        BY <1>2, <2>1, <3>1, RowsInOrder, ForeignRows
      <3>3. ~CameraFitsScreen(c, s)
        BY <1>1, <1>2, <1>3, <2>2, <2>3, <3>1, <3>2, FitsAfter
      <3> QED BY <1>2, <2>2, <2>5, <3>1, <3>3 DEF Misplaced
    <2> QED BY <2>9, <2>10
  <1> QED BY <1>6, <1>7

\* Rule 1 of team_enforcement.py: a camera comes to be shown on a layout of a team that
\* does not have its site only by the four operations that do not ask, or by requests
\* that overtake each other.
THEOREM TeamsKeepTheirPlacements == WallsSpec => PlacementsKeepTheTeam
  <1> DEFINE Ops == {"slot.assigned", "screen.moved", "device.moved", "camera.moved"}
  <1>1. ASSUME PlansInv, PlansInv', [WallsNext]_tableVars
        PROVE  \/ Misplaced' \subseteq Misplaced
               \/ \E w \in Worker : Overlapped(w) \/ CommitsOneOf(w, Ops)
    <2>1. TablesInv /\ TablesInv'
      BY <1>1 DEF PlansInv
    <2>2. CASE db' = db
      BY <2>2 DEF Misplaced, Rows, OnItsView, CameraFitsScreen, CameraFitsTeam, IsSiteInTeam,
                  TeamOfScreen, TeamOfLayout, SiteOfCamera, Exists
    <2>3. CASE db' # db
      <3>1. PICK w \in Worker :
              /\ Commits(w)
              /\ Overlapped(w) \/ (job[w].alone /\ \E j : j = job[w] /\ Committed(j))
        BY <1>1, <2>3, RowsChange
      <3>2. CASE Overlapped(w)
        BY <3>2
      <3>3. CASE job[w].op \in Ops
        BY <3>1, <3>3 DEF CommitsOneOf
      <3>4. CASE ~Overlapped(w) /\ job[w].op \notin Ops
        <4>1. PICK j : j = job[w] /\ Committed(j)
          BY <3>1, <3>4
        <4>2. /\ j.op # "slot.assigned" /\ j.op # "screen.moved"
              /\ j.op # "device.moved" /\ j.op # "camera.moved"
          BY <3>4, <4>1
        <4> QED BY <2>1, <4>1, <4>2, MisplacedAfter
      <3> QED BY <3>2, <3>3, <3>4
    <2> QED BY <2>2, <2>3
  <1>2. PlansInv /\ PlansInv' /\ [WallsNext]_tableVars =>
          [\/ Misplaced' \subseteq Misplaced
           \/ \E w \in Worker :
                \/ Overlapped(w)
                \/ CommitsOneOf(w, {"slot.assigned", "screen.moved",
                                    "device.moved", "camera.moved"})]_tableVars
    BY <1>1
  <1> QED BY <1>2, RequestsKeepToTheirPlans, PTL DEF WallsSpec, PlacementsKeepTheTeam
-----------------------------------------------------------------------------
(* The stamps of layouts *)

\* Job j neither stamps layout l nor moves a screen away from it.
Leaving(j, l) ==
  /\ j.op = "screen.moved"
  /\ \E s \in DOMAIN j.tx.set \cap ScreenId :
       "layout" \in DOMAIN j.tx.set[s] /\ db[s].layout = l

Quiet(j, l) == l \notin j.tx.touch /\ ~Leaving(j, l)

\* An edit removes rows of walls only, and what PCs play of them.
LEMMA WallRowsGone ==
  ASSUME TablesInv, NEW j, Committed(j), j.op \in Edits
  PROVE  Removed(j.tx) \subseteq WallRows \cup Playing
  <1>1. PICK D : D = j.tx.del \cup j.tx.purge
    OBVIOUS
  <1>2. D \subseteq WallRows
    BY <1>1 DEF Committed, Plan, EditsStamped
  <1>3. /\ ForeignKeysHold(db) /\ \A i \in DOMAIN db : IsRow(i, db[i])
    BY DEF TablesInv, TablesTypeOK
  <1>4. ASSUME NEW i \in DOMAIN db, NEW c \in ColumnsThat("remove", i),
               db[i][c] # None, db[i][c] \in WallRows \cup Playing
        PROVE  i \in WallRows \cup Playing
    <2> USE OneTable, RemoveColumns DEF WallRows
    <2>1. i \in Device \cup Camera \cup Address \cup Membership \cup SiteCategory \cup SiteConfig
                \cup SiteSlot \cup ScreenId \cup ViewId \cup Mapping \cup Playing
      BY Referring
    <2>2. CASE i \in Device
      BY <1>3, <1>4, <2>2, ForeignRows
    <2>3. CASE i \in Camera
      BY <1>3, <1>4, <2>3, ForeignRows
    <2>4. CASE i \in Address
      BY <1>3, <1>4, <2>4, ForeignRows
    <2>5. CASE i \in Membership
      <3>1. db[i].site \in Site /\ db[i].team \in Team
        BY <1>3, <2>5, ForeignRows DEF Membership
      <3> QED BY <1>4, <2>5, <3>1
    <2>6. CASE i \in SiteCategory
      <3>1. IsRow(i, db[i]) /\ RowType(i) = SiteCategoryRow(i)
        BY <1>3, <2>6, RowTypes
      <3>2. db[i].site \in Site
        BY <2>6, <3>1 DEF IsRow, Fits, SiteCategoryRow, SiteCategory
      <3> QED BY <1>4, <2>6, <3>2
    <2>7. CASE i \in SiteConfig
      <3>1. db[i].site \in Site
        BY <1>3, <2>7, ForeignRows DEF SiteConfig
      <3> QED BY <1>4, <2>7, <3>1
    <2>8. CASE i \in SiteSlot
      <3>1. db[i].site \in Site /\ db[i].camera \in Camera
        BY <1>3, <2>8, ForeignRows DEF SiteSlot
      <3> QED BY <1>4, <2>8, <3>1
    <2>9. CASE i \in ScreenId \cup ViewId \cup Mapping \cup Playing
      BY <2>9
    <2> QED BY <2>1, <2>2, <2>3, <2>4, <2>5, <2>6, <2>7, <2>8, <2>9
  <1>5. ASSUME NEW S, S \subseteq WallRows \cup Playing
        PROVE  WithBelow(S) \subseteq WallRows \cup Playing
    BY <1>4, <1>5 DEF WithBelow, Below
  <1>6. Gone(D) \subseteq WallRows \cup Playing
    BY <1>2, <1>5 DEF Gone
  <1> QED BY <1>1, <1>6 DEF Removed

\* The layout above a row of a wall.
LEMMA LayoutAbove ==
  ASSUME TablesInv
  PROVE  /\ \A s \in Rows(ScreenId) : Under(s) = db[s].layout
         /\ \A i \in Rows(ViewId \cup Mapping) :
              Under(i) = db[db[i].screen].layout /\ db[i].screen \in Rows(ScreenId)
         /\ \A m \in Rows(Mapping) : OnItsView(m) =>
              db[m].view \in Rows(ViewId) /\ Under(db[m].view) = Under(m)
  <1>1. ForeignKeysHold(db) /\ \A i \in DOMAIN db : IsRow(i, db[i])
    BY DEF TablesInv, TablesTypeOK
  <1>2. \A s \in Rows(ScreenId) : Under(s) = db[s].layout
    BY DEF Rows, Under
  <1>3. \A i \in Rows(ViewId \cup Mapping) :
          Under(i) = db[db[i].screen].layout /\ db[i].screen \in Rows(ScreenId)
    BY <1>1, ForeignRows, OneTable DEF Rows, Under
  <1>4. ASSUME NEW m \in Rows(Mapping), OnItsView(m)
        PROVE  db[m].view \in Rows(ViewId) /\ Under(db[m].view) = Under(m)
    <2>1. db[m].view \in Rows(ViewId)
      BY <1>1, ForeignRows DEF Rows
    <2>2. m \in Rows(ViewId \cup Mapping) /\ db[m].view \in Rows(ViewId \cup Mapping)
      BY <2>1 DEF Rows
    <2> QED BY <1>3, <1>4, <2>1, <2>2 DEF OnItsView
  <1> QED BY <1>2, <1>3, <1>4

\* An edit that is quiet about a layout leaves what is below it alone.
LEMMA QuietRows ==
  ASSUME TablesInv, NEW j, Committed(j), j.op \in Edits, NEW l, Quiet(j, l),
         NEW i \in Rows(WallRows), Under(i) = l, i \in Mapping => OnItsView(i)
  PROVE  i \in DOMAIN db' /\ db'[i] = db[i]
  <1>1. PICK tx : tx = j.tx
    OBVIOUS
  <1>2. /\ Typed(tx, serial) /\ Holds(tx) /\ db' = After(tx)
        /\ EditsStamped(j.op, tx)
    BY <1>1 DEF Committed, Plan
  <1>3. ASSUME NEW k \in Rows(WallRows), Under(k) = l, k \in Mapping => OnItsView(k)
        PROVE  k \notin DOMAIN tx.set \cup DOMAIN tx.bulk \cup tx.del \cup tx.purge
    <2> SUFFICES ASSUME k \in DOMAIN tx.set \cup DOMAIN tx.bulk \cup tx.del \cup tx.purge
                 PROVE  FALSE
      OBVIOUS
    <2>1. \/ Under(k) \in tx.touch
          \/ j.op = "screen.moved" /\ \E s \in DOMAIN tx.set \cap ScreenId :
               "layout" \in DOMAIN tx.set[s] /\ Under(k) = db[s].layout
      BY <1>2, <1>3 DEF EditsStamped
    <2> QED BY <1>1, <1>3, <2>1 DEF Quiet, Leaving
  <1>4. ASSUME NEW k \in Rows(WallRows), Under(k) = l, k \in Mapping => OnItsView(k),
               k \in Removed(tx)
        PROVE  \E c \in ColumnsThat("remove", k) : db[k][c] # None /\ db[k][c] \in Removed(tx)
    BY <1>3, <1>4, GoneRows DEF Removed
  <1>5. Removed(tx) \subseteq WallRows \cup Playing
    BY <1>1, WallRowsGone
  <1>6. ForeignKeysHold(db) /\ \A k \in DOMAIN db : IsRow(k, db[k])
    BY DEF TablesInv, TablesTypeOK
  <1>7. ASSUME NEW s \in Rows(ScreenId), Under(s) = l
        PROVE  s \notin Removed(tx)
    <2>1. s \in Rows(WallRows) /\ s \notin Mapping /\ s \in ScreenId /\ s \in DOMAIN db
      BY OneTable DEF Rows, WallRows
    <2>2. ColumnsThat("remove", s) = {"layout"} /\ db[s].layout \in Layout
      BY <1>6, <2>1, ForeignRows, RemoveColumns
    <2>3. db[s].layout \notin Removed(tx)
      BY <1>5, <2>2, OneTable DEF WallRows
    <2> QED BY <1>4, <1>7, <2>1, <2>2, <2>3
  <1>8. ASSUME NEW v \in Rows(ViewId), Under(v) = l
        PROVE  v \notin Removed(tx)
    <2>1. v \in Rows(WallRows) /\ v \notin Mapping /\ v \in Rows(ViewId \cup Mapping)
      BY OneTable DEF Rows, WallRows
    <2>2. ColumnsThat("remove", v) = {"screen"}
      BY RemoveColumns DEF Rows
    <2>3. db[v].screen \in Rows(ScreenId) /\ Under(db[v].screen) = l
      BY <1>8, <2>1, LayoutAbove
    <2> QED BY <1>4, <1>7, <1>8, <2>1, <2>2, <2>3
  <1>9. ASSUME NEW m \in Rows(Mapping), Under(m) = l, OnItsView(m)
        PROVE  m \notin Removed(tx)
    <2>1. m \in Rows(WallRows) /\ m \in Rows(ViewId \cup Mapping)
      BY DEF Rows, WallRows
    <2>2. ColumnsThat("remove", m) = {"screen", "view", "camera"}
      BY RemoveColumns DEF Rows
    <2>3. db[m].screen \notin Removed(tx)
      <3>1. db[m].screen \in Rows(ScreenId) /\ Under(db[m].screen) = l
        BY <1>9, <2>1, LayoutAbove
      <3> QED BY <1>7, <3>1
    <2>4. db[m].view \notin Removed(tx)
      <3>1. db[m].view \in Rows(ViewId) /\ Under(db[m].view) = l
        BY <1>9, LayoutAbove
      <3> QED BY <1>8, <3>1
    <2>5. db[m].camera # None => db[m].camera \notin Removed(tx)
      <3>1. db[m].camera # None => db[m].camera \in Camera
        BY <1>6, ForeignRows DEF Rows
      <3> QED BY <1>5, <3>1, OneTable DEF WallRows
    <2> QED BY <1>4, <1>9, <2>1, <2>2, <2>3, <2>4, <2>5
  <1>10. i \notin Removed(tx)
    BY <1>7, <1>8, <1>9 DEF Rows, WallRows
  <1>11. i \in DOMAIN db /\ i \notin DOMAIN tx.new
    <2>1. i \in DOMAIN db /\ i \notin Rewritten
      BY OneTable DEF Rows, WallRows, Rewritten
    <2> QED BY <1>2, <2>1, NewRows
  <1>12. Written(tx, i) = db[i]
    <2>1. i \notin DOMAIN tx.set /\ i \notin DOMAIN tx.bulk
      BY <1>3
    <2> QED BY <2>1 DEF Written, ++
  <1>13. /\ i \in DOMAIN db' /\ IsFunction(db'[i]) /\ DOMAIN db'[i] = DOMAIN db[i]
         /\ \A c \in DOMAIN db[i] :
              db'[i][c] = IF c \in ColumnsThat("clear", i) /\ db[i][c] \in Removed(tx)
                          THEN None ELSE db[i][c]
    <2>1. i \in DOMAIN db \ (Removed(tx) \cup DOMAIN tx.new)
      BY <1>10, <1>11
    <2>2. /\ IsFunction(After(tx)[i]) /\ DOMAIN After(tx)[i] = DOMAIN db[i]
          /\ \A c \in DOMAIN db[i] :
               After(tx)[i][c] =
                 IF c \in ColumnsThat("clear", i) /\ Written(tx, i)[c] \in Removed(tx)
                 THEN None ELSE Written(tx, i)[c]
      BY <2>1, KeptRow
    <2>3. i \in DOMAIN After(tx)
      BY <2>1, KeptRow
    <2> QED BY <1>2, <1>12, <2>2, <2>3
  <1>14. \A c \in ColumnsThat("clear", i) : db[i][c] \in Removed(tx) => db[i][c] = None
    <2> SUFFICES ASSUME NEW c \in ColumnsThat("clear", i), db[i][c] \in Removed(tx)
                 PROVE  db[i][c] = None
      OBVIOUS
    <2>1. i \in Mapping /\ c = "device"
      <3>1. i \notin Pc
        BY OneTable DEF Rows, WallRows
      <3> QED BY <3>1, ClearedColumns
    <2>2. IsRow(i, db[i]) /\ RowType(i) = MappingRow
      BY <1>6, <1>11, <2>1, RowTypes
    <2>3. db[i].device \in OrNone(Device)
      BY <2>2 DEF IsRow, Fits, MappingRow
    <2> QED BY <1>5, <2>1, <2>3, OneTable DEF OrNone, WallRows
  <1>15. IsFunction(db[i])
    BY <1>6, <1>11 DEF IsRow
  <1>16. \A c \in DOMAIN db[i] : db'[i][c] = db[i][c]
    BY <1>13, <1>14
  <1> QED BY <1>13, <1>15, <1>16 DEF IsFunction
\* Nothing comes below a layout about which an edit is quiet.
LEMMA QuietArrivals ==
  ASSUME TablesInv, TablesInv', NEW j, Committed(j), j.op \in Edits, NEW l, Quiet(j, l)
  PROVE  /\ \A s \in Rows(ScreenId)' : db'[s].layout = l => s \in Rows(ScreenId) /\ db[s].layout = l
         /\ \A i \in Rows(ViewId \cup Mapping)' :
              db'[db'[i].screen].layout = l =>
                /\ i \in Rows(ViewId \cup Mapping) /\ db[i].screen = db'[i].screen
                /\ i \in Mapping => db[i].view = db'[i].view
  <1>1. PICK tx : tx = j.tx
    OBVIOUS
  <1>2. EditsStamped(j.op, tx) /\ db' = After(tx)
    BY <1>1 DEF Committed, Plan
  <1>3. ASSUME NEW s \in ScreenId, s \in DOMAIN db', db'[s].layout = l
        PROVE  s \in DOMAIN db /\ db[s].layout = l
    <2>1. s \notin DOMAIN tx.new
      <3> SUFFICES ASSUME s \in DOMAIN tx.new
                   PROVE  FALSE
        OBVIOUS
      <3>1. tx.new[s].layout \in tx.touch /\ tx.new[s] = db'[s]
        BY <1>2, AfterRows DEF EditsStamped
      <3> QED BY <1>1, <1>3, <3>1 DEF Quiet
    <2>2. s \in DOMAIN db \ (Removed(tx) \cup DOMAIN tx.new)
      BY <1>1, <1>3, <2>1, Fates, OneTable
    <2>3. RowType(s) = ScreenRow /\ TableNumber(s) = 12 /\ s \notin Mapping /\ s \notin Pc
      BY RowTypes, OneTable
    <2>4. "layout" \in DOMAIN db[s] /\ "layout" \notin ColumnsThat("clear", s)
      <3>1. DOMAIN db[s] = DOMAIN ScreenRow
        BY <1>1, <2>2, <2>3, StayingRow
      <3> QED BY <2>3, <3>1, ClearedColumns DEF ScreenRow
    <2>5. /\ db'[s].layout = Written(tx, s)["layout"]
          /\ "layout" \notin ColumnsWritten(tx, s) => db'[s].layout = db[s].layout
          /\ s \in DOMAIN tx.set /\ "layout" \in DOMAIN tx.set[s] =>
               Written(tx, s)["layout"] = tx.set[s]["layout"]
      BY <1>1, <2>2, <2>4, StayingRow
    <2>6. "layout" \notin ColumnsWritten(tx, s)
      <3> SUFFICES ASSUME "layout" \in ColumnsWritten(tx, s)
                   PROVE  FALSE
        OBVIOUS
      <3>1. s \in DOMAIN tx.set /\ "layout" \in DOMAIN tx.set[s]
        BY <1>1, <2>2, <2>3, StayingRow
      <3>2. tx.set[s].layout \in tx.touch
        BY <1>2, <1>3, <3>1 DEF EditsStamped
      <3>3. tx.set[s].layout = l
        BY <1>3, <2>5, <3>1
      <3> QED BY <1>1, <3>2, <3>3 DEF Quiet
    <2> QED BY <1>3, <2>2, <2>5, <2>6
  <1>4. ASSUME NEW i \in ViewId \cup Mapping, i \in DOMAIN db', db'[db'[i].screen].layout = l
        PROVE  /\ i \in DOMAIN db /\ db[i].screen = db'[i].screen
               /\ i \in Mapping => db[i].view = db'[i].view
    <2>1. PICK s : s = db'[i].screen
      OBVIOUS
    <2>2. s \in ScreenId /\ s \in DOMAIN db'
      BY <1>4, <2>1, RowsInOrder, ForeignRows
    <2>3. s \in DOMAIN db /\ db[s].layout = l
      BY <1>3, <1>4, <2>1, <2>2
    <2>4. i \notin DOMAIN tx.new
      <3> SUFFICES ASSUME i \in DOMAIN tx.new
                   PROVE  FALSE
        OBVIOUS
      <3>1. LayoutOfScreen(tx.new[i].screen) \in tx.touch /\ tx.new[i] = db'[i]
        BY <1>2, <1>4, AfterRows DEF EditsStamped
      <3> QED BY <1>1, <2>1, <2>3, <3>1 DEF Quiet, LayoutOfScreen
    <2>5. i \in DOMAIN db \ (Removed(tx) \cup DOMAIN tx.new)
      BY <1>1, <1>4, <2>4, Fates, OneTable
    <2> QED BY <1>1, <1>4, <2>5, StayingReferences
  <1> QED BY <1>3, <1>4 DEF Rows

\* An edit that is quiet about a layout leaves its content as it is.
LEMMA ContentAfter ==
  ASSUME TablesInv, TablesInv', NEW j, Committed(j), j.op \in Edits, NEW l, Quiet(j, l)
  PROVE  Content(l)' = Content(l)
  <1>1. PICK before, after :
          /\ before = ScreensOf(l)
                        \cup {v \in Rows(ViewId) : db[v].screen \in ScreensOf(l)}
                        \cup {m \in Rows(Mapping) : OnItsView(m) /\ db[m].screen \in ScreensOf(l)}
          /\ after = (ScreensOf(l)
                        \cup {v \in Rows(ViewId) : db[v].screen \in ScreensOf(l)}
                        \cup {m \in Rows(Mapping) : OnItsView(m) /\ db[m].screen \in ScreensOf(l)})'
    OBVIOUS
  <1>2. Content(l) = [i \in before |-> db[i]] /\ Content(l)' = [i \in after |-> db'[i]]
    BY <1>1 DEF Content
  <1>3. ASSUME NEW i \in before
        PROVE  /\ i \in Rows(WallRows) /\ Under(i) = l /\ (i \in Mapping => OnItsView(i))
               /\ i \notin ScreenId => db[i].screen \in Rows(ScreenId) /\ Under(db[i].screen) = l
    <2>1. CASE i \in ScreensOf(l)
      BY <2>1, LayoutAbove, OneTable DEF ScreensOf, Rows, WallRows
    <2>2. CASE i \notin ScreensOf(l)
      <3>1. i \in Rows(ViewId \cup Mapping) /\ db[i].screen \in ScreensOf(l)
            /\ (i \in Mapping => OnItsView(i))
        BY <1>1, <2>2, OneTable DEF Rows
      <3> QED BY <3>1, LayoutAbove DEF ScreensOf, Rows, WallRows
    <2> QED BY <2>1, <2>2
  <1>4. ASSUME NEW i \in before
        PROVE  i \in DOMAIN db' /\ db'[i] = db[i]
    BY <1>3, QuietRows
  <1>5. ScreensOf(l)' = ScreensOf(l)
    <2>1. ScreensOf(l)' \subseteq ScreensOf(l)
      BY QuietArrivals DEF ScreensOf
    <2>2. ASSUME NEW s \in ScreensOf(l)
          PROVE  s \in ScreensOf(l)'
      <3>1. s \in DOMAIN db' /\ db'[s] = db[s]
        BY <1>1, <1>4
      <3> QED BY <3>1 DEF ScreensOf, Rows
    <2> QED BY <2>1, <2>2
  <1>6. after \subseteq before
    <2> SUFFICES ASSUME NEW i \in after
                 PROVE  i \in before
      OBVIOUS
    <2>1. CASE i \in ScreensOf(l)'
      BY <1>1, <1>5, <2>1
    <2>2. CASE i \notin ScreensOf(l)'
      <3>1. /\ i \in ViewId \cup Mapping /\ i \in DOMAIN db' /\ db'[i].screen \in ScreensOf(l)'
            /\ i \notin ViewId => db'[i].screen = db'[db'[i].view].screen
        BY <1>1, <2>2 DEF Rows, OnItsView
      <3>2. i \in Rows(ViewId \cup Mapping)' /\ db'[db'[i].screen].layout = l
        BY <3>1 DEF Rows, ScreensOf
      <3>3. /\ i \in Rows(ViewId \cup Mapping) /\ db[i].screen = db'[i].screen
            /\ i \in Mapping => db[i].view = db'[i].view
        BY <3>2, QuietArrivals
      <3>4. db[i].screen \in ScreensOf(l)
        BY <1>5, <3>1, <3>3
      <3>5. CASE i \in ViewId
        BY <1>1, <3>3, <3>4, <3>5 DEF Rows
      <3>6. CASE i \notin ViewId
        <4>1. PICK v : v = db[i].view
          OBVIOUS
        <4>2. i \in Mapping /\ i \in DOMAIN db /\ v = db'[i].view /\ db[i].screen = db'[v].screen
          BY <3>1, <3>3, <3>6, <4>1 DEF Rows
        <4>3. v \in ViewId /\ v \in DOMAIN db /\ v \in DOMAIN db' /\ v \notin Rewritten
          <5>1. v \in ViewId /\ v \in DOMAIN db
            <6>1. ForeignKeysHold(db) /\ \A k \in DOMAIN db : IsRow(k, db[k])
              BY RowsInOrder
            <6>2. i \in Mapping /\ i \in DOMAIN db
              BY <4>2
            <6>3. db[i].view \in ViewId \cap DOMAIN db
              BY <6>1, <6>2, ForeignRows
            <6> QED BY <4>1, <6>3
          <5>2. v \in DOMAIN db'
            BY <3>1, <4>2, RowsInOrder, ForeignRows
          <5> QED BY <5>1, <5>2, OneTable DEF Rewritten
        <4>4. db'[v].screen = db[v].screen
          BY <4>3, StaysThere, StayingReferences
        <4> QED BY <1>1, <3>4, <4>1, <4>2, <4>4 DEF OnItsView, Rows
      <3> QED BY <3>5, <3>6
    <2> QED BY <2>1, <2>2
  <1>7. before \subseteq after
    <2> SUFFICES ASSUME NEW i \in before
                 PROVE  i \in after
      OBVIOUS
    <2>1. i \in DOMAIN db' /\ db'[i] = db[i]
      BY <1>4
    <2>2. CASE i \in ScreensOf(l)
      BY <1>1, <1>5, <2>2
    <2>3. CASE i \notin ScreensOf(l) /\ i \in ViewId
      <3>1. db[i].screen \in ScreensOf(l)
        BY <1>1, <2>3, OneTable DEF Rows
      <3>2. i \in Rows(ViewId)' /\ db'[i].screen \in ScreensOf(l)'
        BY <1>5, <2>1, <2>3, <3>1 DEF Rows
      <3> QED BY <1>1, <3>2
    <2>4. CASE i \notin ScreensOf(l) /\ i \notin ViewId
      <3>1. /\ i \in Mapping /\ i \in Rows(Mapping) /\ OnItsView(i)
            /\ db[i].screen \in ScreensOf(l)
        BY <1>1, <2>4 DEF Rows
      <3>2. PICK v : v = db[i].view
        OBVIOUS
      <3>3. v \in Rows(ViewId) /\ Under(v) = l /\ db[v].screen = db[i].screen
        BY <1>3, <3>1, <3>2, LayoutAbove DEF OnItsView
      <3>4. v \in before
        BY <1>1, <3>1, <3>3
      <3>5. db'[v].screen = db[v].screen
        BY <1>4, <3>4
      <3>6. i \in Rows(Mapping)' /\ OnItsView(i)' /\ db'[i].screen \in ScreensOf(l)'
        BY <1>5, <2>1, <3>1, <3>2, <3>3, <3>5 DEF Rows, OnItsView
      <3> QED BY <1>1, <3>6
    <2> QED BY <2>2, <2>3, <2>4
  <1>8. after = before /\ \A i \in before : db'[i] = db[i]
    BY <1>4, <1>6, <1>7
  <1> QED BY <1>2, <1>8

\* A screen that a commit moves away from a layout leaves it.
LEMMA LeavingLeaves ==
  ASSUME TablesInv, NEW j, Committed(j), j.op \in Edits, NEW l, Leaving(j, l)
  PROVE  \E s \in Rows(ScreenId) : Leaves(s, l)
  <1>1. PICK tx, s :
          /\ tx = j.tx /\ s \in ScreenId /\ s \in DOMAIN tx.set
          /\ "layout" \in DOMAIN tx.set[s] /\ db[s].layout = l
    BY DEF Leaving
  <1>2. EditsStamped(j.op, tx) /\ Holds(tx)
    BY <1>1 DEF Committed, Plan
  <1>3. tx.del = {} /\ tx.set[s].layout # l
    BY <1>1, <1>2 DEF EditsStamped
  <1>4. s \in DOMAIN db /\ s \notin Removed(tx)
    <2>1. tx.del \cup tx.purge = tx.purge
      BY <1>3
    <2> QED BY <1>1, <1>2, <2>1 DEF Holds, Removed
  <1>5. s \in DOMAIN db \ (Removed(tx) \cup DOMAIN tx.new)
    <2>1. s \notin Rewritten
      BY <1>1, OneTable DEF Rewritten
    <2> QED BY <1>1, <1>4, <2>1, NewRows DEF Committed
  <1>6. RowType(s) = ScreenRow /\ s \notin Mapping /\ s \notin Pc
    BY <1>1, RowTypes, OneTable
  <1>7. "layout" \in DOMAIN db[s] /\ "layout" \notin ColumnsThat("clear", s)
    <2>1. DOMAIN db[s] = DOMAIN ScreenRow
      BY <1>1, <1>5, <1>6, StayingRow
    <2> QED BY <1>6, <2>1, ClearedColumns DEF ScreenRow
  <1>8. s \in DOMAIN db' /\ db'[s].layout = tx.set[s].layout
    BY <1>1, <1>5, <1>7, StayingRow
  <1> QED BY <1>1, <1>3, <1>4, <1>8 DEF Leaves, Rows

\* Every edit below a layout stamps it, but that the layout which a moved screen leaves
\* is not stamped.
THEOREM EditsStampTheirWall == WallsSpec => EditsStampTheWall
  <1>1. ASSUME PlansInv, PlansInv', [WallsNext]_tableVars,
               NEW w \in Worker, CommitsAlone(w, Edits),
               NEW l \in DOMAIN Contents \cap DOMAIN Contents', Contents'[l] # Contents[l]
        PROVE  \/ l \in job[w].tx.touch
               \/ job[w].op = "screen.moved" /\ \E s \in Rows(ScreenId) : Leaves(s, l)
    <2>1. Commits(w) /\ job[w].alone /\ job[w].op \in Edits /\ db' # db
      BY <1>1 DEF CommitsAlone, Commits
    <2>2. PICK j : j = job[w] /\ Committed(j)
      BY <1>1, <2>1, RowsChange DEF Overlapped
    <2>3. TablesInv /\ TablesInv'
      BY <1>1 DEF PlansInv
    <2>4. Content(l)' # Content(l)
      BY <1>1 DEF Contents
    <2>5. l \in j.tx.touch \/ Leaving(j, l)
      BY <2>1, <2>2, <2>3, <2>4, ContentAfter DEF Quiet
    <2>6. Leaving(j, l) => \E s \in Rows(ScreenId) : Leaves(s, l)
      BY <2>1, <2>2, <2>3, LeavingLeaves
    <2> QED BY <2>2, <2>5, <2>6 DEF Leaving
  <1>2. PlansInv /\ PlansInv' /\ [WallsNext]_tableVars =>
          [\A w \in Worker :
             CommitsAlone(w, Edits) =>
               \A l \in DOMAIN Contents \cap DOMAIN Contents' :
                 Contents'[l] # Contents[l] =>
                   \/ l \in job[w].tx.touch
                   \/ job[w].op = "screen.moved" /\ \E s \in Rows(ScreenId) : Leaves(s, l)]_tableVars
    BY <1>1
  <1> QED BY <1>2, RequestsKeepToTheirPlans, PTL DEF WallsSpec, EditsStampTheWall
=============================================================================
