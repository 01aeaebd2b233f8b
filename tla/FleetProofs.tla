------------------------------ MODULE FleetProofs ------------------------------
(***************************************************************************)
(* What the set-up of PCs promises, proved about FleetWalls: the           *)
(* configuration of a wall, the tables, and the teams of PCs, screens and  *)
(* cameras while requests overtake each other.                             *)
(***************************************************************************)
EXTENDS FleetWalls, TeamWallsProofs, WellFoundedInduction

-----------------------------------------------------------------------------
(* Sets in some order *)

\* Every member of a finite set has its place in the sequence made of it, and one only.
LEMMA InSomeOrder ==
  ASSUME NEW S, IsFiniteSet(S)
  PROVE  LET s == SetToSeq(S) IN
         /\ Cardinality(S) \in Nat /\ s \in [1..Cardinality(S) -> S]
         /\ s \in Seq(S) /\ Len(s) = Cardinality(S) /\ DOMAIN s = 1..Cardinality(S)
         /\ \A i, j \in DOMAIN s : s[i] = s[j] => i = j
         /\ \A x \in S : \E i \in DOMAIN s : s[i] = x
  <1>1. PICK k : k = Cardinality(S)
    OBVIOUS
  <1>2. k \in Nat /\ ExistsBijection(1..k, S)
    BY <1>1, FS_CardinalityType
  <1>3. PICK s : s = SetToSeq(S)
    OBVIOUS
  <1>4. s \in [1..k -> S] /\ IsInjective(s)
    <2>1. PICK f \in Bijection(1..k, S) : TRUE
      BY <1>2 DEF ExistsBijection
    <2>2. f \in [1..k -> S] /\ IsInjective(f)
      BY <2>1 DEF Bijection, Injection
    <2>3. s = CHOOSE g \in [1..k -> S] : IsInjective(g)
      BY <1>1, <1>3 DEF SetToSeq
    <2> QED BY <2>2, <2>3, Zenon
  <1>5. \A i, j \in 1..k : s[i] = s[j] => i = j
    BY <1>4 DEF IsInjective
  <1>6. s \in Surjection(1..k, S)
    <2>1. s \in Injection(1..k, S)
      BY <1>4, <1>5, Fun_IsInj
    <2>2. IsFiniteSet(1..k) /\ Cardinality(1..k) = k
      BY <1>2, FS_Interval
    <2> QED BY <1>1, <2>1, <2>2, FS_Injection
  <1>7. \A x \in S : \E i \in 1..k : s[i] = x
    BY <1>6 DEF Surjection
  <1>8. s \in Seq(S) /\ Len(s) = k /\ DOMAIN s = 1..k
    BY <1>2, <1>4, SeqDef, LenProperties
  <1> QED BY <1>1, <1>2, <1>3, <1>4, <1>5, <1>7, <1>8

\* The image of a finite set is finite.
LEMMA FiniteImage ==
  ASSUME NEW S, IsFiniteSet(S), NEW f, DOMAIN f = S, NEW T,
         \A y \in T : \E x \in S : f[x] = y
  PROVE  IsFiniteSet(T)
  <1>1. PICK D : D = {x \in S : f[x] \in T}
    OBVIOUS
  <1>2. IsFiniteSet(D)
    BY <1>1, FS_Subset
  <1>3. PICK g : g = [x \in D |-> f[x]]
    OBVIOUS
  <1>4. g \in [D -> T] /\ \A y \in T : \E x \in D : g[x] = y
    BY <1>1, <1>3
  <1>5. g \in Surjection(D, T)
    BY <1>4, Fun_IsSurj
  <1> QED BY <1>2, <1>5, FS_Surjection

-----------------------------------------------------------------------------
(* The configuration of a wall *)

\* The number of a place of a grid, row by row.
LEMMA GridNumber ==
  ASSUME NEW rows \in Nat, NEW cols \in Nat \ {0}, NEW a \in 1..rows, NEW b \in 1..cols
  PROVE  (a - 1) * cols + b \in 1..rows * cols
  <1>1. PICK d \in Nat : rows = a + d
    OBVIOUS
  <1>2. rows * cols = (a - 1) * cols + cols + d * cols /\ d * cols >= 0
    BY <1>1
  <1>3. (a - 1) * cols >= 0 /\ (a - 1) * cols \in Int
    OBVIOUS
  <1> QED BY <1>2, <1>3

\* The place of a number.
LEMMA GridPlace ==
  ASSUME NEW rows \in Nat, NEW cols \in Nat \ {0}, NEW k \in 1..rows * cols
  PROVE  \E a \in 1..rows, b \in 1..cols : k = (a - 1) * cols + b
  <1>1. PICK q, r : q = (k - 1) \div cols /\ r = (k - 1) % cols
    OBVIOUS
  <1>2. q \in Nat /\ r \in 0..cols - 1 /\ k - 1 = q * cols + r
    BY <1>1
  <1>3. q < rows
    <2>1. q * cols < rows * cols
      BY <1>2
    <2>2. ASSUME q >= rows PROVE FALSE
      <3>1. PICK d \in Nat : q = rows + d
        BY <1>2, <2>2
      <3>2. q * cols = rows * cols + d * cols /\ d * cols >= 0
        BY <3>1
      <3> QED BY <2>1, <3>2
    <2> QED BY <1>2, <2>2
  <1>4. q + 1 \in 1..rows /\ r + 1 \in 1..cols /\ k = ((q + 1) - 1) * cols + (r + 1)
    BY <1>2, <1>3
  <1> QED BY <1>4

\* Later places have greater numbers.
LEMMA GridOrder ==
  ASSUME NEW cols \in Nat \ {0}, NEW a \in Nat, NEW x \in Nat, NEW b \in 1..cols,
         NEW y \in 1..cols, a < x \/ (a = x /\ b < y)
  PROVE  (a - 1) * cols + b < (x - 1) * cols + y
  <1>1. CASE a < x
    <2>1. PICK d \in Nat : x - 1 = (a - 1) + 1 + d
      BY <1>1
    <2>2. (x - 1) * cols = (a - 1) * cols + cols + d * cols /\ d * cols >= 0
      BY <2>1
    <2>3. (a - 1) * cols \in Int
      OBVIOUS
    <2> QED BY <2>2, <2>3
  <1>2. CASE a = x /\ b < y
    BY <1>2
  <1> QED BY <1>1, <1>2

\* The slot of a number.
GridAt(cols, a, b) == (a - 1) * cols + b
ByRows(slots, rows, cols) ==
  /\ DOMAIN slots \in SUBSET Nat
  /\ \A a \in 1..rows, b \in 1..cols :
       GridAt(cols, a, b) \in DOMAIN slots /\ slots[GridAt(cols, a, b)] = <<a, b>>
  /\ \A k \in DOMAIN slots : \E a \in 1..rows, b \in 1..cols : k = GridAt(cols, a, b)

LEMMA RowMajorAt ==
  ASSUME NEW rows \in Nat, NEW cols \in Nat \ {0}
  PROVE  ByRows(RowMajor(rows, cols), rows, cols)
  <1>1. DOMAIN RowMajor(rows, cols) = 1..rows * cols
    BY DEF RowMajor
  <1>2. ASSUME NEW a \in 1..rows, NEW b \in 1..cols
        PROVE  /\ (a - 1) * cols + b \in 1..rows * cols
               /\ RowMajor(rows, cols)[(a - 1) * cols + b] = <<a, b>>
    <2>1. PICK k : k = (a - 1) * cols + b
      OBVIOUS
    <2>2. k \in 1..rows * cols
      BY <2>1, GridNumber
    <2>3. (k - 1) \div cols = a - 1 /\ (k - 1) % cols = b - 1
      BY <2>1
    <2>4. RowMajor(rows, cols)[k] = <<((k - 1) \div cols) + 1, ((k - 1) % cols) + 1>>
      BY <2>2 DEF RowMajor
    <2> QED BY <2>1, <2>2, <2>3, <2>4
  <1>3. \A k \in 1..rows * cols : \E a \in 1..rows, b \in 1..cols : k = (a - 1) * cols + b
    BY GridPlace
  <1>4. PICK slots, d : slots = RowMajor(rows, cols) /\ d = 1..rows * cols
    OBVIOUS
  <1>5. d \in SUBSET Nat
    BY <1>4
  <1>6. \A a \in 1..rows, b \in 1..cols :
          GridAt(cols, a, b) \in d /\ slots[GridAt(cols, a, b)] = <<a, b>>
    BY <1>2, <1>4 DEF GridAt
  <1>7. \A k \in d : \E a \in 1..rows, b \in 1..cols : k = GridAt(cols, a, b)
    BY <1>3, <1>4 DEF GridAt
  <1> QED BY <1>1, <1>4, <1>5, <1>6, <1>7 DEF ByRows

\* The slots of a grid.
LEMMA RowMajorSlots ==
  ASSUME NEW rows \in Nat, NEW cols \in Nat \ {0}
  PROVE  LET slots == RowMajor(rows, cols) IN
         /\ DOMAIN slots = 1..rows * cols
         /\ \A k \in DOMAIN slots : slots[k] \in (1..rows) \X (1..cols)
         /\ \A slot \in (1..rows) \X (1..cols) : \E k \in DOMAIN slots : slots[k] = slot
  <1>1. PICK slots : slots = RowMajor(rows, cols)
    OBVIOUS
  <1>2. ByRows(slots, rows, cols)
    BY <1>1, RowMajorAt
  <1>3. ASSUME NEW k \in DOMAIN slots
        PROVE  slots[k] \in (1..rows) \X (1..cols)
    <2>1. PICK a \in 1..rows, b \in 1..cols : k = GridAt(cols, a, b)
      BY <1>2 DEF ByRows
    <2>2. slots[k] = <<a, b>>
      BY <1>2, <2>1 DEF ByRows
    <2> QED BY <2>2
  <1>4. ASSUME NEW slot \in (1..rows) \X (1..cols)
        PROVE  \E k \in DOMAIN slots : slots[k] = slot
    <2>1. PICK a \in 1..rows, b \in 1..cols : slot = <<a, b>>
      OBVIOUS
    <2> QED BY <1>2, <2>1 DEF ByRows
  <1>5. DOMAIN slots = 1..rows * cols
    BY <1>1 DEF RowMajor
  <1> QED BY <1>1, <1>3, <1>4, <1>5

\* The tables that a configuration is read from.
Ordered ==
  /\ \A i \in DOMAIN db : IsRow(i, db[i])
  /\ ForeignKeysHold(db)
  /\ UniqueKeysHold(db)
  /\ IsFiniteSet(Rows(Mapping))

\* There are finitely many mappings.
LEMMA TablesOrdered ==
  ASSUME TablesTypeOK
  PROVE  Ordered
  <1>1. serial \in Nat /\ Rows(Mapping) \subseteq {<<n>> : n \in 1..serial}
    BY TablesAssumption DEF TablesTypeOK
  <1>2. IsFiniteSet({<<n>> : n \in 1..serial})
    <2>1. 1 \in Nat /\ 1 <= serial + 1
      BY <1>1
    <2> QED BY <1>1, <2>1, Boxed
  <1>3. IsFiniteSet(Rows(Mapping))
    BY <1>1, <1>2, FS_Subset
  <1> QED BY <1>3 DEF TablesTypeOK, Ordered

\* A slot of a view has one mapping.
LEMMA SlotsAreUnique ==
  ASSUME Ordered, NEW m \in Rows(Mapping), NEW n \in Rows(Mapping),
         db[m].view = db[n].view, db[m].slot = db[n].slot
  PROVE  m = n
  <1>1. PICK S : S = DOMAIN db \cap Mapping
    OBVIOUS
  <1>2. PICK f : f = [k \in S |-> <<db[k].view, db[k].slot>>]
    OBVIOUS
  <1>3. PICK T : T = {<<db[k].view, db[k].slot>> : k \in S}
    OBVIOUS
  <1>4. IsFiniteSet(S) /\ Cardinality(T) = Cardinality(S) /\ S = Rows(Mapping)
    <2>1. S = Rows(Mapping)
      BY <1>1 DEF Rows
    <2>2. Cardinality(T) = Cardinality(S)
      BY <1>1, <1>3 DEF Ordered, UniqueKeysHold
    <2> QED BY <2>1, <2>2 DEF Ordered
  <1>5. f \in [S -> T] /\ \A t \in T : \E k \in S : f[k] = t
    BY <1>2, <1>3
  <1>6. f \in Surjection(S, T)
    BY <1>5, Fun_IsSurj
  <1>7. f \in Injection(S, T)
    BY <1>4, <1>6, FS_Surjection
  <1>8. \A a, b \in S : f[a] = f[b] => a = b
    BY <1>7 DEF Injection, IsInjective
  <1>9. f[m] = f[n]
    BY <1>2, <1>4
  <1> QED BY <1>4, <1>8, <1>9

\* The camera in a slot of a view is that of its mapping.
LEMMA CameraInSlot ==
  ASSUME Ordered, NEW v, NEW slot
  PROVE  /\ slot \in DOMAIN LoadedSlots(v) <=>
              \E m \in Rows(Mapping) :
                db[m].view = v /\ db[m].camera # None /\ db[m].slot = slot
         /\ \A m \in Rows(Mapping) :
              db[m].view = v /\ db[m].camera # None /\ db[m].slot = slot =>
                LoadedSlots(v)[slot] = db[m].camera
  <1>1. PICK there : there = {m \in Rows(Mapping) : db[m].view = v /\ db[m].camera # None}
    OBVIOUS
  <1>2. LoadedSlots(v) =
          [s \in {db[m].slot : m \in there} |-> db[CHOOSE m \in there : db[m].slot = s].camera]
    BY <1>1 DEF LoadedSlots
  <1>3. DOMAIN LoadedSlots(v) = {db[m].slot : m \in there}
    BY <1>2
  <1>4. ASSUME NEW m \in there, db[m].slot = slot
        PROVE  LoadedSlots(v)[slot] = db[m].camera
    <2>1. PICK n : n = CHOOSE k \in there : db[k].slot = slot
      OBVIOUS
    <2>2. n \in there /\ db[n].slot = slot
      BY <1>4, <2>1
    <2>3. n = m
      BY <1>1, <1>4, <2>2, SlotsAreUnique
    <2>4. slot \in {db[k].slot : k \in there}
      BY <1>4
    <2>5. LoadedSlots(v)[slot] = db[CHOOSE k \in there : db[k].slot = slot].camera
      BY <1>2, <2>4, Zenon
    <2> QED BY <2>1, <2>3, <2>5
  <1> QED BY <1>1, <1>3, <1>4

\* What is shown is shown by mappings.
LEMMA ShownViewsFinite ==
  ASSUME Ordered
  PROVE  /\ \A s : IsFiniteSet(ShownViews(s))
         /\ \A p : IsFiniteSet({s \in WallScreens(p) : ShownViews(s) # {}})
  <1>1. ASSUME NEW s
        PROVE  \A v \in ShownViews(s) : \E m \in Rows(Mapping) : db[m].view = v /\ db[v].screen = s
    BY CameraInSlot DEF ShownViews, ViewsOf
  <1>2. ASSUME NEW s
        PROVE  IsFiniteSet(ShownViews(s))
    <2>1. PICK f : f = [m \in Rows(Mapping) |-> db[m].view]
      OBVIOUS
    <2>2. \A v \in ShownViews(s) : \E m \in Rows(Mapping) : f[m] = v
      BY <1>1, <2>1
    <2>3. DOMAIN f = Rows(Mapping) /\ IsFiniteSet(Rows(Mapping))
      BY <2>1 DEF Ordered
    <2> QED BY <2>2, <2>3, FiniteImage
  <1>3. ASSUME NEW p
        PROVE  IsFiniteSet({s \in WallScreens(p) : ShownViews(s) # {}})
    <2>1. PICK f : f = [m \in Rows(Mapping) |-> db[db[m].view].screen]
      OBVIOUS
    <2>2. PICK S : S = {s \in WallScreens(p) : ShownViews(s) # {}}
      OBVIOUS
    <2>3. \A s \in S : \E m \in Rows(Mapping) : f[m] = s
      BY <1>1, <2>1, <2>2
    <2>4. DOMAIN f = Rows(Mapping) /\ IsFiniteSet(Rows(Mapping))
      BY <2>1 DEF Ordered
    <2> QED BY <2>2, <2>3, <2>4, FiniteImage
  <1> QED BY <1>2, <1>3

\* The screens of a configuration, the tiles of a screen and the sources of a tile.
LEMMA ConfigRead ==
  ASSUME Ordered, NEW p \in Rows(Pc)
  PROVE  LET config == GeneratedConfig(p)
             Shows(k, s, v, slot) ==
               /\ config[k].screen = s
               /\ \E n \in DOMAIN config[k].tiles :
                    \E i \in DOMAIN config[k].tiles[n] :
                      LET source == config[k].tiles[n][i] IN
                      /\ source.view = v /\ source.slot = slot
                      /\ source.camera = IF slot \in DOMAIN LoadedSlots(v)
                                         THEN LoadedSlots(v)[slot] ELSE None
         IN /\ \A k \in DOMAIN config :
                 /\ config[k].screen \in WallScreens(p)
                 /\ \A n \in DOMAIN config[k].tiles :
                      \A i \in DOMAIN config[k].tiles[n] :
                        LET source == config[k].tiles[n][i] IN
                        /\ source.view \in ShownViews(config[k].screen)
                        /\ source.slot \in (1..db[config[k].screen].rows)
                                             \X (1..db[config[k].screen].cols)
                        /\ source.camera = IF source.slot \in DOMAIN LoadedSlots(source.view)
                                           THEN LoadedSlots(source.view)[source.slot] ELSE None
            /\ \A s \in WallScreens(p) :
                 \A v \in ShownViews(s), slot \in (1..db[s].rows) \X (1..db[s].cols) :
                   \E k \in DOMAIN config : Shows(k, s, v, slot)
  <1>1. PICK S, screens, config :
          /\ S = {s \in WallScreens(p) : ShownViews(s) # {}} /\ screens = SetToSeq(S)
          /\ config = [k \in DOMAIN screens |-> GeneratedScreen(screens[k])]
    OBVIOUS
  <1>2. config = GeneratedConfig(p)
    BY <1>1 DEF GeneratedConfig
  <1>3. /\ \A k \in DOMAIN screens : screens[k] \in S
        /\ \A s \in S : \E k \in DOMAIN screens : screens[k] = s
    <2>1. IsFiniteSet(S)
      BY <1>1, ShownViewsFinite
    <2>2. PICK n : n = Cardinality(S)
      OBVIOUS
    <2>3. /\ screens \in [1..n -> S] /\ DOMAIN screens = 1..n
          /\ \A x \in S : \E i \in DOMAIN screens : screens[i] = x
      BY <1>1, <2>1, <2>2, InSomeOrder
    <2> QED BY <2>3
  <1>4. ASSUME NEW s \in WallScreens(p)
        PROVE  LET conf == GeneratedScreen(s)
                   Has(n, i, v, slot) ==
                     LET source == conf.tiles[n][i] IN
                     /\ source.view = v /\ source.slot = slot
                     /\ source.camera = IF slot \in DOMAIN LoadedSlots(v)
                                        THEN LoadedSlots(v)[slot] ELSE None
               IN /\ conf.screen = s
                  /\ \A n \in DOMAIN conf.tiles : \A i \in DOMAIN conf.tiles[n] :
                       \E v \in ShownViews(s), slot \in (1..db[s].rows) \X (1..db[s].cols) :
                         Has(n, i, v, slot)
                  /\ \A v \in ShownViews(s), slot \in (1..db[s].rows) \X (1..db[s].cols) :
                       \E n \in DOMAIN conf.tiles : \E i \in DOMAIN conf.tiles[n] :
                         Has(n, i, v, slot)
    <2>1. PICK views, slots, conf :
            /\ views = SetToSeq(ShownViews(s)) /\ slots = RowMajor(db[s].rows, db[s].cols)
            /\ conf = GeneratedScreen(s)
      OBVIOUS
    <2>2. /\ \A i \in DOMAIN views : views[i] \in ShownViews(s)
          /\ \A v \in ShownViews(s) : \E i \in DOMAIN views : views[i] = v
      <3>1. IsFiniteSet(ShownViews(s))
        BY ShownViewsFinite
      <3> QED BY <2>1, <3>1, InSomeOrder
    <2>3. /\ \A k \in DOMAIN slots : slots[k] \in (1..db[s].rows) \X (1..db[s].cols)
          /\ \A slot \in (1..db[s].rows) \X (1..db[s].cols) : \E k \in DOMAIN slots : slots[k] = slot
      <3>1. s \in Rows(ScreenId)
        BY DEF WallScreens, ScreensOf
      <3>2. IsRow(s, db[s]) /\ RowType(s) = ScreenRow
        BY <3>1, RowTypes DEF Ordered, Rows
      <3>3. db[s].rows \in 1..ScreenSide /\ db[s].cols \in 1..ScreenSide
        <4>1. /\ {"rows", "cols"} \subseteq DOMAIN ScreenRow
              /\ ScreenRow["rows"] = 1..ScreenSide /\ ScreenRow["cols"] = 1..ScreenSide
          BY DEF ScreenRow
        <4>2. \A c \in DOMAIN ScreenRow : db[s][c] \in ScreenRow[c]
          BY <3>2 DEF IsRow, Fits
        <4> QED BY <4>1, <4>2
      <3>4. PICK rows \in Nat, cols \in Nat \ {0} : rows = db[s].rows /\ cols = db[s].cols
        BY <3>3, TablesAssumption
      <3>5. slots = RowMajor(rows, cols)
        BY <2>1, <3>4
      <3>6. PICK grid : grid = (1..rows) \X (1..cols)
        OBVIOUS
      <3>7. /\ \A k \in DOMAIN RowMajor(rows, cols) : RowMajor(rows, cols)[k] \in grid
            /\ \A slot \in grid : \E k \in DOMAIN RowMajor(rows, cols) :
                 RowMajor(rows, cols)[k] = slot
        <4>1. PICK it : it = RowMajor(rows, cols)
          OBVIOUS
        <4>2. /\ \A k \in DOMAIN it : it[k] \in (1..rows) \X (1..cols)
              /\ \A slot \in (1..rows) \X (1..cols) : \E k \in DOMAIN it : it[k] = slot
          BY <4>1, RowMajorSlots
        <4> QED BY <3>6, <4>1, <4>2
      <3>8. grid = (1..db[s].rows) \X (1..db[s].cols)
        BY <3>4, <3>6
      <3> QED BY <3>5, <3>7, <3>8, Zenon
    <2>4. /\ conf.screen = s /\ DOMAIN conf.tiles = DOMAIN slots
          /\ \A n \in DOMAIN slots :
               /\ DOMAIN conf.tiles[n] = DOMAIN views
               /\ \A i \in DOMAIN views : conf.tiles[n][i] = Source(views[i], i - 1, slots[n])
      BY <2>1 DEF GeneratedScreen
    <2>5. \A v, number, slot :
            LET source == Source(v, number, slot) IN
            /\ source.view = v /\ source.slot = slot
            /\ source.camera = IF slot \in DOMAIN LoadedSlots(v) THEN LoadedSlots(v)[slot] ELSE None
      BY DEF Source
    <2>6. ASSUME NEW n \in DOMAIN conf.tiles, NEW i \in DOMAIN conf.tiles[n]
          PROVE  \E v \in ShownViews(s), slot \in (1..db[s].rows) \X (1..db[s].cols) :
                   /\ conf.tiles[n][i].view = v /\ conf.tiles[n][i].slot = slot
                   /\ conf.tiles[n][i].camera = IF slot \in DOMAIN LoadedSlots(v)
                                                THEN LoadedSlots(v)[slot] ELSE None
      BY <2>2, <2>3, <2>4, <2>5
    <2>7. ASSUME NEW v \in ShownViews(s), NEW slot \in (1..db[s].rows) \X (1..db[s].cols)
          PROVE  \E n \in DOMAIN conf.tiles : \E i \in DOMAIN conf.tiles[n] :
                   /\ conf.tiles[n][i].view = v /\ conf.tiles[n][i].slot = slot
                   /\ conf.tiles[n][i].camera = IF slot \in DOMAIN LoadedSlots(v)
                                                THEN LoadedSlots(v)[slot] ELSE None
      <3>1. PICK n \in DOMAIN slots : slots[n] = slot
        BY <2>3
      <3>2. PICK i \in DOMAIN views : views[i] = v
        BY <2>2
      <3>3. n \in DOMAIN conf.tiles /\ i \in DOMAIN conf.tiles[n]
        BY <2>4
      <3>4. conf.tiles[n][i] = Source(v, i - 1, slot)
        BY <2>4, <3>1, <3>2
      <3> QED BY <2>5, <3>3, <3>4
    <2> QED BY <2>1, <2>4, <2>6, <2>7
  <1>5. S \subseteq WallScreens(p) /\ \A s \in WallScreens(p) : ShownViews(s) # {} => s \in S
    BY <1>1
  <1>6. DOMAIN config = DOMAIN screens
        /\ \A k \in DOMAIN config : config[k] = GeneratedScreen(screens[k])
    BY <1>1
  <1>7. ASSUME NEW k \in DOMAIN config
        PROVE  /\ config[k].screen \in WallScreens(p)
               /\ \A n \in DOMAIN config[k].tiles :
                    \A i \in DOMAIN config[k].tiles[n] :
                      LET source == config[k].tiles[n][i] IN
                      /\ source.view \in ShownViews(config[k].screen)
                      /\ source.slot \in (1..db[config[k].screen].rows)
                                           \X (1..db[config[k].screen].cols)
                      /\ source.camera = IF source.slot \in DOMAIN LoadedSlots(source.view)
                                         THEN LoadedSlots(source.view)[source.slot] ELSE None
    <2>1. PICK s : s = screens[k] /\ s \in WallScreens(p)
      BY <1>3, <1>5, <1>6
    <2>2. config[k] = GeneratedScreen(s)
      BY <1>6, <2>1
    <2> QED BY <1>4, <2>1, <2>2
  <1>8. ASSUME NEW s \in WallScreens(p), NEW v \in ShownViews(s),
               NEW slot \in (1..db[s].rows) \X (1..db[s].cols)
        PROVE  \E k \in DOMAIN config :
                 /\ config[k].screen = s
                 /\ \E n \in DOMAIN config[k].tiles :
                      \E i \in DOMAIN config[k].tiles[n] :
                        LET source == config[k].tiles[n][i] IN
                        /\ source.view = v /\ source.slot = slot
                        /\ source.camera = IF slot \in DOMAIN LoadedSlots(v)
                                           THEN LoadedSlots(v)[slot] ELSE None
    <2>1. PICK k \in DOMAIN screens : screens[k] = s
      BY <1>3, <1>5
    <2>2. k \in DOMAIN config /\ config[k] = GeneratedScreen(s)
      BY <1>6, <2>1
    <2> QED BY <1>4, <2>2
  <1> QED BY <1>2, <1>7, <1>8

\* What ConfigShowsTheWall says, from tables that are in order.
LEMMA WallIsShown ==
  ASSUME Ordered, NEW p \in Rows(Pc)
  PROVE  {shown \in SourcesOf(p) : shown.camera # None}
           = IF db[p].layout = None THEN {} ELSE PlacedFor(p)
  <1>1. PICK config : config = GeneratedConfig(p)
    OBVIOUS
  <1>2. SourcesOf(p) =
          UNION {{[screen |-> config[k].screen, view |-> source.view, slot |-> source.slot,
                   camera |-> source.camera] :
                     source \in UNION {Range(tile) : tile \in Range(config[k].tiles)}} :
                 k \in DOMAIN config}
    BY <1>1 DEF SourcesOf
  <1>3. ASSUME NEW shown \in SourcesOf(p), shown.camera # None
        PROVE  db[p].layout # None /\ shown \in PlacedFor(p)
    <2>1. PICK k \in DOMAIN config :
            \E source \in UNION {Range(tile) : tile \in Range(config[k].tiles)} :
              shown = [screen |-> config[k].screen, view |-> source.view, slot |-> source.slot,
                       camera |-> source.camera]
      BY <1>2
    <2>2. PICK source \in UNION {Range(tile) : tile \in Range(config[k].tiles)} :
            shown = [screen |-> config[k].screen, view |-> source.view, slot |-> source.slot,
                     camera |-> source.camera]
      BY <2>1
    <2>3. PICK n \in DOMAIN config[k].tiles :
            \E i \in DOMAIN config[k].tiles[n] : source = config[k].tiles[n][i]
      BY <2>2 DEF Range
    <2>4. PICK i \in DOMAIN config[k].tiles[n] : source = config[k].tiles[n][i]
      BY <2>3
    <2>5. PICK s, v, slot : s = config[k].screen /\ v = source.view /\ slot = source.slot
      OBVIOUS
    <2>6. /\ s \in WallScreens(p) /\ v \in ShownViews(s)
          /\ slot \in (1..db[s].rows) \X (1..db[s].cols)
          /\ source.camera = IF slot \in DOMAIN LoadedSlots(v) THEN LoadedSlots(v)[slot] ELSE None
      BY <1>1, <2>4, <2>5, ConfigRead
    <2>7. slot \in DOMAIN LoadedSlots(v) /\ source.camera = LoadedSlots(v)[slot]
      BY <1>3, <2>2, <2>6
    <2>8. PICK m \in Rows(Mapping) : db[m].view = v /\ db[m].camera # None /\ db[m].slot = slot
      BY <2>7, CameraInSlot
    <2>9. source.camera = db[m].camera
      BY <2>7, <2>8, CameraInSlot
    <2>10. db[v].screen = s
      BY <2>6 DEF ShownViews, ViewsOf
    <2>11. db[p].layout # None /\ db[s].layout = db[p].layout
      BY <2>6 DEF WallScreens, ScreensOf
    <2>12. db[m].slot[1] <= db[s].rows /\ db[m].slot[2] <= db[s].cols
      BY <2>6, <2>8
    <2>13. shown = [screen |-> db[db[m].view].screen, view |-> db[m].view, slot |-> db[m].slot,
                    camera |-> db[m].camera]
      BY <2>2, <2>5, <2>8, <2>9, <2>10
    <2> QED BY <2>8, <2>10, <2>11, <2>12, <2>13 DEF PlacedFor
  <1>4. ASSUME db[p].layout # None, NEW shown \in PlacedFor(p)
        PROVE  shown \in SourcesOf(p) /\ shown.camera # None
    <2>1. PICK m \in Rows(Mapping) :
            /\ shown = [screen |-> db[db[m].view].screen, view |-> db[m].view,
                        slot |-> db[m].slot, camera |-> db[m].camera]
            /\ db[m].camera # None
            /\ db[db[db[m].view].screen].layout = db[p].layout
            /\ db[m].slot[1] <= db[db[db[m].view].screen].rows
            /\ db[m].slot[2] <= db[db[db[m].view].screen].cols
      BY <1>4 DEF PlacedFor
    <2>2. PICK v, s, slot : v = db[m].view /\ s = db[v].screen /\ slot = db[m].slot
      OBVIOUS
    <2>3. v \in ViewId \cap DOMAIN db /\ slot \in Slot
      BY <2>2, ForeignRows DEF Ordered, Rows
    <2>4. s \in ScreenId \cap DOMAIN db
      BY <2>2, <2>3, ForeignRows DEF Ordered
    <2>5. s \in WallScreens(p) /\ v \in ViewsOf(s)
      BY <1>4, <2>1, <2>2, <2>3, <2>4 DEF WallScreens, ScreensOf, ViewsOf, Rows
    <2>6. slot \in (1..db[s].rows) \X (1..db[s].cols)
      <3>1. PICK a \in 1..ViewSide, b \in 1..ViewSide : slot = <<a, b>>
        BY <2>3 DEF Slot, Grid
      <3>2. a <= db[s].rows /\ b <= db[s].cols
        BY <2>1, <2>2, <3>1
      <3>3. a \in 1..db[s].rows /\ b \in 1..db[s].cols
        <4>1. IsRow(s, db[s]) /\ RowType(s) = ScreenRow
          BY <2>4, RowTypes DEF Ordered
        <4>2. \A c \in DOMAIN ScreenRow : db[s][c] \in ScreenRow[c]
          BY <4>1 DEF IsRow, Fits
        <4>3. db[s].rows \in 1..ScreenSide /\ db[s].cols \in 1..ScreenSide
          BY <4>2 DEF ScreenRow
        <4> QED BY <3>2, <4>3, TablesAssumption
      <3> QED BY <3>1, <3>3
    <2>7. slot \in DOMAIN LoadedSlots(v) /\ LoadedSlots(v)[slot] = db[m].camera
      BY <2>1, <2>2, CameraInSlot
    <2>8. v \in ShownViews(s)
      BY <2>5, <2>6, <2>7 DEF ShownViews
    <2>9. PICK k \in DOMAIN config :
            /\ config[k].screen = s
            /\ \E n \in DOMAIN config[k].tiles :
                 \E i \in DOMAIN config[k].tiles[n] :
                   LET source == config[k].tiles[n][i] IN
                   /\ source.view = v /\ source.slot = slot
                   /\ source.camera = IF slot \in DOMAIN LoadedSlots(v)
                                      THEN LoadedSlots(v)[slot] ELSE None
      BY <1>1, <2>5, <2>6, <2>8, ConfigRead
    <2>10. PICK n \in DOMAIN config[k].tiles :
             \E i \in DOMAIN config[k].tiles[n] :
               LET source == config[k].tiles[n][i] IN
               source.view = v /\ source.slot = slot /\ source.camera = db[m].camera
      BY <2>7, <2>9
    <2>11. PICK i \in DOMAIN config[k].tiles[n] :
             LET source == config[k].tiles[n][i] IN
             source.view = v /\ source.slot = slot /\ source.camera = db[m].camera
      BY <2>10
    <2>12. config[k].tiles[n][i] \in UNION {Range(tile) : tile \in Range(config[k].tiles)}
      BY DEF Range
    <2>13. shown = [screen |-> config[k].screen, view |-> config[k].tiles[n][i].view,
                    slot |-> config[k].tiles[n][i].slot, camera |-> config[k].tiles[n][i].camera]
      BY <2>1, <2>2, <2>9, <2>11
    <2>14. shown \in SourcesOf(p)
      BY <1>2, <2>12, <2>13
    <2> QED BY <2>1, <2>14
  <1> QED BY <1>3, <1>4

\* Tables in order are enough for the configurations.
LEMMA TablesShowTheWall ==
  ASSUME TablesTypeOK
  PROVE  ConfigShowsTheWall
  BY TablesOrdered, WallIsShown DEF ConfigShowsTheWall
-----------------------------------------------------------------------------
(* The inductive invariant of FleetSpec *)

\* What configure_pc_screens remembers from one transaction to the next.
WantedScreen == [name : Name, rows : 1..ViewSide, cols : 1..ViewSide, views : 1..MaxIndex]
SetUpArg ==
  [layout : Layout, todo : Seq(WantedScreen), index : Nat \ {0}, screen : OrNone(ScreenId),
   views : Seq(ScreenId \X (1..MaxIndex)), cameras : Seq(Camera), named : SUBSET Name]

\* The transaction that a job is about to prepare, or will after its commit.
Ahead(op, then, steps) == IF then = None THEN op \in steps ELSE then \in steps

\* It has a screen to go on with, and indices left for the others.
Memory(op, then, arg) ==
  Ahead(op, then, ConfigureSteps) =>
    /\ arg \in SetUpArg
    /\ \A n \in DOMAIN arg.todo : arg.todo[n].name \in arg.named
    /\ Ahead(op, then, {"configure.screen"}) =>
         arg.todo # <<>> /\ arg.index + Len(arg.todo) <= MaxIndex + 1
    /\ Ahead(op, then, {"configure.grid", "configure.views"}) =>
         /\ arg.todo # <<>> /\ arg.index + Len(arg.todo) <= MaxIndex + 2
         /\ arg.screen \in ScreenId

\* A row among new ones and those of the database.
Present(new, i) == i \in DOMAIN new \/ Exists(i)
RowIn(new, i) == IF i \in DOMAIN new THEN new[i] ELSE db[i]

\* The rows that are new when the next transaction reads.
Coming(tx, then) == IF then = None THEN <<>> ELSE tx.new

\* A screen that a request may change: one of its layout, of a name that it gives.
MayChange(arg, screen) ==
  screen.layout = arg.layout /\ ("named" \in DOMAIN arg => screen.name \in arg.named)

\* The screens it has gone over are its own, and its cameras fit their layout.
Own(new, arg, s) == Present(new, s) => MayChange(arg, RowIn(new, s))
Course(op, tx, then, arg) ==
  Ahead(op, then, ConfigureSteps) =>
    LET new == Coming(tx, then) IN
    /\ Ahead(op, then, {"configure.grid", "configure.views"}) => Own(new, arg, arg.screen)
    /\ \A n \in DOMAIN arg.views : Own(new, arg, arg.views[n][1])
    /\ Present(new, arg.layout) =>
         \A n \in DOMAIN arg.cameras :
           CameraFitsTeam(arg.cameras[n], RowIn(new, arg.layout).team)

\* The tables and columns that the requests of Fleet write.
FleetWrites(tx) ==
  /\ DOMAIN tx.new \subseteq Pc \cup Layout \cup WallRows
  /\ \A i \in DOMAIN tx.set :
       i \in Pc \/ (i \in ScreenId /\ DOMAIN tx.set[i] \subseteq {"rows", "cols"})
  /\ DOMAIN tx.bulk \subseteq Pc
  /\ tx.del \subseteq Pc /\ tx.purge \subseteq ScreenId \cup ViewId

\* A new mapping shows a camera that fits the team of its layout.
CamerasPlaced(tx) ==
  \A m \in DOMAIN tx.new \cap Mapping :
    LET c == tx.new[m].camera
        s == tx.new[m].screen
        l == RowIn(tx.new, s).layout
    IN c # None /\ Present(tx.new, s) /\ Present(tx.new, l) =>
         CameraFitsTeam(c, RowIn(tx.new, l).team)

\* A set-up writes, removes and fills screens that it may change, or that are new.
OthersSpared(op, tx, arg) ==
  op \in SetUps =>
    /\ tx.del = {} /\ DOMAIN tx.set \subseteq ScreenId
    /\ \A s \in (DOMAIN tx.set \cup tx.purge) \cap Rows(ScreenId) : MayChange(arg, db[s])
    /\ \A v \in tx.purge \cap Rows(ViewId) : MayChange(arg, db[db[v].screen])
    /\ \A i \in DOMAIN tx.new \cap (ViewId \cup Mapping) :
         LET s == tx.new[i].screen IN
         s \in DOMAIN tx.new \/ (Exists(s) => MayChange(arg, db[s]))

FleetPlan(op, tx, arg) == FleetWrites(tx) /\ CamerasPlaced(tx) /\ OthersSpared(op, tx, arg)

\* A new PC shows nothing; a PC is given a manager, and a layout of its team, or else the
\* one that was made for it.  Only an update that says so writes a role, or the team of a
\* layout.
MayLead(m) == m = None \/ IsManager(m)
PcsPlan(op, tx) ==
  /\ tx.purge \cap (Pc \cup Layout) = {}
  /\ \A l \in Layout : "team" \in ColumnsWritten(tx, l) => op = "layout.updated"
  /\ \A p \in DOMAIN tx.new \cap Pc : tx.new[p].layout = None /\ MayLead(tx.new[p].manager)
  /\ \A p \in DOMAIN tx.set \cap Pc :
       LET columns == tx.set[p] IN
       /\ "manager" \in DOMAIN columns => MayLead(columns.manager)
       /\ "role" \in DOMAIN columns => op = "pc.role_changed"
       /\ DOMAIN columns \cap {"layout", "team"} # {} => KeepsTheTeam(p, columns)
  /\ \A p \in DOMAIN tx.bulk \cap Pc :
       /\ DOMAIN tx.bulk[p] = {"layout"} /\ DOMAIN tx.set \cap Pc = {}
       /\ ~Exists(tx.bulk[p].layout) =>
            /\ tx.bulk[p].layout \in DOMAIN tx.new
            /\ tx.new[tx.bulk[p].layout].team = db[p].team

\* The plan of a request of Fleet, or of an edit of TeamWalls, which sets nothing up.
FleetPlanned(j) ==
  /\ PcsPlan(j.op, j.tx)
  /\ FleetPlan(j.op, j.tx, j.arg) \/ (Plan(j) /\ j.op \notin SetUps /\ j.then = None)

FleetInv ==
  /\ TablesInv
  /\ \A w \in Worker :
       job[w] # Idle =>
         LET j == job[w] IN
         /\ Memory(j.op, j.then, j.arg)
         /\ j.alone => /\ Course(j.op, j.tx, j.then, j.arg)
                       /\ j.tx # None => FleetPlanned(j)

-----------------------------------------------------------------------------
(* The requests of Fleet *)

\* Worker w has prepared a transaction, of which the plan holds.
FleetPrepares(w) ==
  \E j :
    /\ Prepares(w, j)
    /\ Memory(j.op, j.then, j.arg)
    /\ j.alone => /\ Course(j.op, j.tx, j.then, j.arg)
                  /\ PcsPlan(j.op, j.tx) /\ FleetPlan(j.op, j.tx, j.arg)

\* A request that is accepted, or that goes on.
LEMMA Readies ==
  ASSUME TablesInv, NEW w \in Worker, NEW op, NEW tx, NEW then, NEW arg,
         \/ AcceptedThen(w, op, tx, then, arg)
         \/ At(w, op) /\ Continues(w, tx, then, arg),
         op # "address.provisioned" /\ op # "site.populating",
         then = None \/ then \in ConfigureSteps,
         serial' \in serial..MaxMapping, TypedRows(tx, serial'),
         Memory(op, then, arg),
         job[w] = Idle \/ job[w].alone =>
           Course(op, tx, then, arg) /\ PcsPlan(op, tx) /\ FleetPlan(op, tx, arg)
  PROVE  FleetPrepares(w)
  <1>1. \E j : /\ job' = [job EXCEPT ![w] = j]
               /\ DOMAIN j = {"op", "tx", "then", "arg", "alone"}
               /\ j.op = op /\ j.tx = tx /\ j.then = then /\ j.arg = arg
               /\ j.alone \in BOOLEAN /\ (j.alone => job[w] = Idle \/ job[w].alone)
    <2>1. CASE AcceptedThen(w, op, tx, then, arg)
      <3>1. PICK j : j = Job(op, tx, then, arg)
        OBVIOUS
      <3>2. job' = [job EXCEPT ![w] = j] /\ job[w] = Idle
        BY <2>1, <3>1 DEF AcceptedThen
      <3>3. /\ DOMAIN j = {"op", "tx", "then", "arg", "alone"}
            /\ j.op = op /\ j.tx = tx /\ j.then = then /\ j.arg = arg /\ j.alone = TRUE
        BY <3>1 DEF Job
      <3> QED BY <3>2, <3>3
    <2>2. CASE At(w, op) /\ Continues(w, tx, then, arg)
      <3>1. PICK k, j : k = job[w] /\ j = [k EXCEPT !.tx = tx, !.then = then, !.arg = arg]
        OBVIOUS
      <3>2. job' = [job EXCEPT ![w] = j]
        BY <2>2, <3>1 DEF Continues, TablesInv
      <3>3. /\ DOMAIN k = {"op", "tx", "then", "arg", "alone"} /\ k.alone \in BOOLEAN
            /\ k.op = op
        BY <2>2, <3>1 DEF At, TablesInv, JobTyped
      <3>4. /\ DOMAIN j = {"op", "tx", "then", "arg", "alone"} /\ j.alone = k.alone
            /\ j.op = op /\ j.tx = tx /\ j.then = then /\ j.arg = arg
        BY <3>1, <3>3
      <3> QED BY <3>1, <3>2, <3>3, <3>4
    <2> QED BY <2>1, <2>2
  <1>2. Remembers(op, then, arg)
    BY DEF Remembers, ConfigureSteps
  <1>3. db' = db /\ requests' \in 0..MaxRequests
    BY TablesAssumption DEF AcceptedThen, Continues, TablesInv, TablesTypeOK
  <1> QED BY <1>1, <1>2, <1>3 DEF FleetPrepares, Prepares


\* A request of one transaction, of PCs only.
LEMMA AtOnce ==
  ASSUME TablesInv, NEW w \in Worker, NEW op, NEW tx, Accepted(w, op, tx),
         op \notin SetUps, op # "address.provisioned", op # "site.populating",
         TypedRows(tx, serial), PcsPlan(op, tx), FleetWrites(tx),
         DOMAIN tx.new \cap Mapping = {}
  PROVE  FleetPrepares(w)
  <1>1. AcceptedThen(w, op, tx, None, None) /\ serial' = serial
    BY DEF Accepted
  <1>2. serial' \in serial..MaxMapping
    BY <1>1, TablesAssumption DEF TablesInv, TablesTypeOK
  <1>3. ~Ahead(op, None, ConfigureSteps)
    BY DEF Ahead, SetUps
  <1>4. Memory(op, None, None) /\ Course(op, tx, None, None)
    BY <1>3 DEF Memory, Course
  <1>5. FleetPlan(op, tx, None)
    BY DEF FleetPlan, CamerasPlaced, OthersSpared
  <1>6. TypedRows(tx, serial')
    BY <1>1
  <1> QED BY <1>1, <1>2, <1>4, <1>5, <1>6, Readies

\* The columns of a PC.
LEMMA PcRows ==
  ASSUME TablesInv, NEW p \in Rows(Pc)
  PROVE  /\ p \in Pc /\ p \in DOMAIN db /\ RowType(p) = PcRow
         /\ IsRow(p, db[p]) /\ DOMAIN db[p] = {"team", "layout", "manager", "role", "applied"}
         /\ db[p].team \in Team \cap DOMAIN db
         /\ db[p].layout \in (Layout \cap DOMAIN db) \cup {None}
         /\ db[p].manager \in (Pc \cap DOMAIN db) \cup {None}
         /\ db[p].role \in {"controller", "manager"}
  <1>1. p \in Pc /\ p \in DOMAIN db
    BY DEF Rows
  <1>2. RowType(p) = PcRow /\ IsRow(p, db[p]) /\ DOMAIN PcRow = {"team", "layout", "manager", "role", "applied"}
    BY <1>1, RowTypes DEF TablesInv, TablesTypeOK, PcRow
  <1>3. DOMAIN db[p] = DOMAIN PcRow /\ \A c \in DOMAIN PcRow : db[p][c] \in PcRow[c]
    BY <1>2 DEF IsRow, Fits
  <1>4. /\ db[p].team \in Team /\ db[p].layout \in Layout \cup {None}
        /\ db[p].manager \in Pc \cup {None} /\ db[p].role \in {"controller", "manager"}
    BY <1>3 DEF PcRow, OrNone
  <1>5. References(p) = [team |-> "refuse", layout |-> "clear", manager |-> "clear"]
    BY <1>1, ReferencesOf
  <1>6. \A c \in {"team", "layout", "manager"} : db[p][c] = None \/ db[p][c] \in DOMAIN db
    <2>1. ~Dangles(db, p)
      BY <1>1 DEF TablesInv, TablesTypeOK, ForeignKeysHold
    <2>2. DOMAIN References(p) = {"team", "layout", "manager"}
      BY <1>5
    <2> QED BY <2>1, <2>2 DEF Dangles
  <1>7. db[p].team # None
    BY <1>4, TablesAssumption
  <1> QED BY <1>1, <1>2, <1>3, <1>4, <1>6, <1>7

\* A key of one of these tables is in no other.
LEMMA FleetKeys ==
  \A i : /\ i \in Pc => i \notin Layout \cup WallRows \cup Membership \cup Playing
         /\ i \in Layout => i \notin Pc \cup WallRows \cup Membership \cup Playing
         /\ i \in ScreenId => i \notin Pc \cup Layout \cup ViewId \cup Mapping \cup Playing
         /\ i \in ViewId => i \notin Pc \cup Layout \cup ScreenId \cup Mapping \cup Playing
         /\ i \in Mapping => i \notin Pc \cup Layout \cup ScreenId \cup ViewId \cup Playing
         /\ i \in Camera \cup Device \cup Membership \cup Site \cup Team =>
              i \notin Pc \cup Layout \cup WallRows \cup Playing
  <1> TAKE i
  <1>1. i \in Pc => i \notin Layout \cup WallRows \cup Membership \cup Playing
    BY OneTable DEF WallRows
  <1>2. i \in Layout => i \notin Pc \cup WallRows \cup Membership \cup Playing
    BY OneTable DEF WallRows
  <1>3. i \in ScreenId => i \notin Pc \cup Layout \cup ViewId \cup Mapping \cup Playing
    BY OneTable
  <1>4. i \in ViewId => i \notin Pc \cup Layout \cup ScreenId \cup Mapping \cup Playing
    BY OneTable
  <1>5. i \in Mapping => i \notin Pc \cup Layout \cup ScreenId \cup ViewId \cup Playing
    BY OneTable
  <1>6. i \in Camera \cup Device \cup Membership \cup Site \cup Team =>
              i \notin Pc \cup Layout \cup WallRows \cup Playing
    BY OneTable DEF WallRows
  <1> QED BY <1>1, <1>2, <1>3, <1>4, <1>5, <1>6

\* create_pc.
LEMMA CreatePcPrepares ==
  ASSUME TablesInv, NEW w \in Worker, CreatePc(w)
  PROVE  FleetPrepares(w)
  <1>1. PICK p \in FreshIn(Pc), t \in Rows(Team), m \in OrNone(Rows(Pc)),
             role \in {"controller", "manager"} :
          /\ m # None => IsManager(m)
          /\ Accepted(w, "pc.created",
               Inserting(p, [team |-> t, layout |-> None, manager |-> m, role |-> role,
                             applied |-> FALSE]))
    BY DEF CreatePc
  <1>2. PICK row, tx :
          /\ row = [team |-> t, layout |-> None, manager |-> m, role |-> role, applied |-> FALSE]
          /\ tx = Inserting(p, row)
    OBVIOUS
  <1>3. p \in Pc /\ RowType(p) = PcRow /\ p \notin Layout \cup WallRows
    BY RowTypes, FleetKeys DEF FreshIn
  <1>4. IsRow(p, row)
    <2>1. /\ DOMAIN row = {"team", "layout", "manager", "role", "applied"}
          /\ row["team"] = t /\ row["layout"] = None /\ row["manager"] = m
          /\ row["role"] = role /\ row["applied"] = FALSE
      BY <1>2
    <2>2. IsFunction(row)
      BY <1>2 DEF IsFunction
    <2>3. /\ DOMAIN PcRow = {"team", "layout", "manager", "role", "applied"}
          /\ PcRow["team"] = Team /\ PcRow["layout"] = Layout \cup {None}
          /\ PcRow["manager"] = Pc \cup {None} /\ PcRow["role"] = {"controller", "manager"}
          /\ PcRow["applied"] = BOOLEAN
      BY DEF PcRow, OrNone
    <2>4. t \in Team /\ m \in Pc \cup {None} /\ role \in {"controller", "manager"}
      BY <1>1 DEF Rows, OrNone
    <2>5. DOMAIN row = DOMAIN PcRow
      BY <2>1, <2>3
    <2>6. \A c \in DOMAIN row : row[c] \in PcRow[c]
      BY <2>1, <2>3, <2>4
    <2> QED BY <1>3, <2>2, <2>5, <2>6 DEF IsRow, Fits
  <1>5. /\ DOMAIN tx.new = {p} /\ tx.new[p] = row
        /\ DOMAIN tx.set = {} /\ DOMAIN tx.bulk = {} /\ tx.del = {} /\ tx.purge = {}
    BY <1>2, Transactions
  <1>6. TypedRows(tx, serial)
    BY <1>3, <1>4, <1>5 DEF TypedRows, WallRows
  <1>7. PcsPlan("pc.created", tx)
    <2>1. row.layout = None /\ MayLead(row.manager)
      BY <1>1, <1>2 DEF MayLead
    <2> QED BY <1>5, <2>1 DEF PcsPlan, ColumnsWritten
  <1>8. FleetWrites(tx) /\ DOMAIN tx.new \cap Mapping = {}
    BY <1>3, <1>5 DEF FleetWrites, WallRows
  <1> QED BY <1>1, <1>2, <1>6, <1>7, <1>8, AtOnce DEF SetUps, ConfigureSteps

\* A request that writes columns of PCs.
LEMMA SettingPcs ==
  ASSUME TablesInv, NEW w \in Worker, NEW op, NEW tx, Accepted(w, op, tx),
         op \notin SetUps, op # "address.provisioned", op # "site.populating",
         DOMAIN tx.new = {}, DOMAIN tx.bulk = {}, tx.del \subseteq Pc, tx.purge = {},
         \A p \in DOMAIN tx.set :
           LET columns == tx.set[p] IN
           /\ p \in Pc /\ Fits(PcRow, columns)
           /\ "manager" \in DOMAIN columns => MayLead(columns.manager)
           /\ "role" \in DOMAIN columns => op = "pc.role_changed"
           /\ DOMAIN columns \cap {"layout", "team"} # {} => KeepsTheTeam(p, columns)
  PROVE  FleetPrepares(w)
  <1>1. TypedRows(tx, serial)
    BY RowTypes DEF TypedRows
  <1>2. PcsPlan(op, tx)
    <2>1. \A l \in Layout : "team" \notin ColumnsWritten(tx, l)
      BY FleetKeys DEF ColumnsWritten
    <2> QED BY <2>1 DEF PcsPlan
  <1>3. FleetWrites(tx) /\ DOMAIN tx.new \cap Mapping = {}
    BY DEF FleetWrites
  <1> QED BY <1>1, <1>2, <1>3, AtOnce

\* update_pc.
LEMMA UpdatePcPrepares ==
  ASSUME TablesInv, NEW w \in Worker, UpdatePc(w)
  PROVE  FleetPrepares(w)
  <1>1. PICK p \in Rows(Pc), body \in PcBody :
          LET role == Given(body, db[p], "role")
              unled == IF "role" \in DOMAIN body /\ role = "manager"
                       THEN [manager |-> None] ELSE <<>>
          IN /\ "manager" \in DOMAIN body => body.manager = None \/ IsManager(body.manager)
             /\ KeepsTheTeam(p, body)
             /\ Accepted(w, IF role = db[p].role THEN "pc.updated" ELSE "pc.role_changed",
                  Setting(p, Changed(p, body ++ unled)))
    BY DEF UpdatePc
  <1>2. PICK role, unled, columns, op, tx :
          /\ role = Given(body, db[p], "role")
          /\ unled = IF "role" \in DOMAIN body /\ role = "manager"
                     THEN [manager |-> None] ELSE <<>>
          /\ columns = Changed(p, body ++ unled)
          /\ op = IF role = db[p].role THEN "pc.updated" ELSE "pc.role_changed"
          /\ tx = Setting(p, columns)
    OBVIOUS
  <1>3. /\ "manager" \in DOMAIN body => MayLead(body.manager)
        /\ KeepsTheTeam(p, body) /\ Accepted(w, op, tx)
    BY <1>1, <1>2 DEF MayLead
  <1>4. DOMAIN unled \subseteq {"manager"} /\ ("manager" \in DOMAIN unled => unled["manager"] = None)
    BY <1>2
  <1>5. /\ DOMAIN columns \subseteq DOMAIN body \cup DOMAIN unled
        /\ \A c \in DOMAIN columns :
             /\ columns[c] = IF c \in DOMAIN body THEN body[c] ELSE unled[c]
             /\ columns[c] # db[p][c]
        /\ \A c \in DOMAIN body : c \notin DOMAIN columns => body[c] = db[p][c]
    BY <1>2 DEF Changed, ++
  <1>6. p \in Pc /\ Fits(PcRow, body)
    BY FleetBodies DEF Rows
  <1>7. Fits(PcRow, columns)
    <2>1. None \in PcRow["manager"] /\ "manager" \in DOMAIN PcRow
      BY DEF PcRow, OrNone
    <2> QED BY <1>4, <1>5, <1>6, <2>1 DEF Fits
  <1>8. "manager" \in DOMAIN columns => MayLead(columns.manager)
    BY <1>3, <1>4, <1>5 DEF MayLead
  <1>9. "role" \in DOMAIN columns => op = "pc.role_changed"
    <2>1. "role" \in DOMAIN columns => "role" \in DOMAIN body /\ body["role"] # db[p]["role"]
      BY <1>4, <1>5
    <2> QED BY <1>2, <2>1 DEF Given
  <1>10. KeepsTheTeam(p, columns)
    <2>1. \A c \in {"layout", "team"} : Given(columns, db[p], c) = Given(body, db[p], c)
      BY <1>4, <1>5 DEF Given
    <2> QED BY <1>3, <2>1 DEF KeepsTheTeam
  <1>11. /\ DOMAIN tx.set = {p} /\ tx.set[p] = columns
         /\ DOMAIN tx.new = {} /\ DOMAIN tx.bulk = {} /\ tx.del = {} /\ tx.purge = {}
    BY <1>2, Transactions
  <1>12. op \notin SetUps /\ op # "address.provisioned" /\ op # "site.populating"
    BY <1>2 DEF SetUps, ConfigureSteps
  <1> QED BY <1>3, <1>6, <1>7, <1>8, <1>9, <1>10, <1>11, <1>12, SettingPcs

\* delete_pc.
LEMMA DeletePcPrepares ==
  ASSUME TablesInv, NEW w \in Worker, DeletePc(w)
  PROVE  FleetPrepares(w)
  <1>1. PICK p \in Rows(Pc) : Accepted(w, "pc.deleted", Deleting(p))
    BY DEF DeletePc
  <1>2. PICK tx : tx = Deleting(p)
    OBVIOUS
  <1>3. /\ DOMAIN tx.new = {} /\ DOMAIN tx.set = {} /\ DOMAIN tx.bulk = {}
        /\ tx.del \subseteq Pc /\ tx.purge = {}
    BY <1>2, Transactions DEF Rows
  <1> QED BY <1>1, <1>2, <1>3, SettingPcs DEF SetUps, ConfigureSteps

\* deploy_config and deploy_layout.
LEMMA DeployPrepares ==
  ASSUME TablesInv, NEW w \in Worker, DeployConfig(w) \/ DeployLayout(w)
  PROVE  FleetPrepares(w)
  <1>1. PICK sent : sent \subseteq Rows(Pc)
                    /\ Accepted(w, "pc.deployed",
                         [NoWrites EXCEPT !.set = [p \in sent |-> [applied |-> TRUE]]])
    BY DEF DeployConfig, DeployLayout, Deployed
  <1>2. PICK tx : tx = [NoWrites EXCEPT !.set = [p \in sent |-> [applied |-> TRUE]]]
    OBVIOUS
  <1>3. /\ DOMAIN tx.new = {} /\ DOMAIN tx.bulk = {} /\ tx.del = {} /\ tx.purge = {}
        /\ tx.set = [p \in sent |-> [applied |-> TRUE]]
    BY <1>2 DEF NoWrites
  <1>4. \A p \in sent : p \in Pc
    BY <1>1 DEF Rows
  <1>5. PICK columns : columns = [applied |-> TRUE]
    OBVIOUS
  <1>6. Fits(PcRow, columns) /\ DOMAIN columns = {"applied"}
    <2>1. DOMAIN columns = {"applied"} /\ columns["applied"] = TRUE
      BY <1>5
    <2>2. "applied" \in DOMAIN PcRow /\ PcRow["applied"] = BOOLEAN
      BY DEF PcRow
    <2> QED BY <2>1, <2>2 DEF Fits
  <1>7. DOMAIN tx.set = sent /\ \A p \in sent : tx.set[p] = columns
    BY <1>3, <1>5
  <1>8. PICK op : op = "pc.deployed"
    OBVIOUS
  <1>9. op \notin SetUps /\ op # "address.provisioned" /\ op # "site.populating"
    BY <1>8 DEF SetUps, ConfigureSteps
  <1>10. \A p \in DOMAIN tx.set :
           LET written == tx.set[p] IN
           /\ p \in Pc /\ Fits(PcRow, written)
           /\ "manager" \notin DOMAIN written /\ "role" \notin DOMAIN written
           /\ DOMAIN written \cap {"layout", "team"} = {}
    BY <1>4, <1>6, <1>7
  <1>11. Accepted(w, op, tx)
    BY <1>1, <1>2, <1>8
  <1> QED BY <1>3, <1>9, <1>10, <1>11, SettingPcs

-----------------------------------------------------------------------------
(* The layout of a PC *)

\* f is g with further values.
Extends(f, g) == DOMAIN g \subseteq DOMAIN f /\ \A i \in DOMAIN g : f[i] = g[i]

\* What get_or_create_layout_for_pc adds to a transaction.
LEMMA Adopts ==
  ASSUME TablesInv, NEW p \in Rows(Pc), NEW tx,
         DOMAIN tx = Fields, DOMAIN tx.bulk = {}, DOMAIN tx.new \cap Layout = {}
  PROVE  LET l == LayoutFor(p)
             a == Adopting(p, tx)
         IN
         /\ a.set = tx.set /\ a.del = tx.del /\ a.purge = tx.purge /\ l \in Layout
         /\ Extends(a.new, tx.new) /\ DOMAIN a.new \subseteq DOMAIN tx.new \cup {l}
         /\ l \in DOMAIN a.new => ~Exists(l) /\ a.new[l] = [team |-> db[p].team]
         /\ Present(a.new, l) /\ RowIn(a.new, l).team = TeamFor(p)
         /\ DOMAIN a.bulk \subseteq {p}
         /\ p \in DOMAIN a.bulk => a.bulk[p] = [layout |-> l]
  <1>1. PICK l, a : l = LayoutFor(p) /\ a = Adopting(p, tx)
    OBVIOUS
  <1>2. CASE db[p].layout # None
    <2>1. a = tx
      BY <1>1, <1>2 DEF Adopting
    <2>2. l = db[p].layout
      BY <1>1, <1>2 DEF LayoutFor
    <2>3. l \in Layout /\ Exists(l)
      BY <1>2, <2>2, PcRows DEF Exists
    <2>4. l \notin DOMAIN a.new
      BY <2>1, <2>3
    <2>5. TeamFor(p) = db[l].team
      BY <1>1, <2>3 DEF TeamFor
    <2> QED BY <1>1, <2>1, <2>3, <2>4, <2>5 DEF Present, RowIn, Extends
  <1>3. CASE db[p].layout = None
    <2>1. l = LayoutOf[p] /\ l \in Layout
      BY <1>1, <1>3, FleetAssumption DEF LayoutFor, Rows
    <2>2. PICK adopted, made :
            /\ adopted = Only(p, [layout |-> l])
            /\ made = IF Exists(l) THEN <<>> ELSE Only(l, [team |-> db[p].team])
      OBVIOUS
    <2>3. a = [tx EXCEPT !.bulk = @ ++ adopted, !.new = @ ++ made]
      BY <1>1, <1>3, <2>1, <2>2 DEF Adopting
    <2>4. /\ a.bulk = tx.bulk ++ adopted /\ a.new = tx.new ++ made
          /\ a.set = tx.set /\ a.del = tx.del /\ a.purge = tx.purge
      BY <2>3 DEF Fields
    <2>5. DOMAIN adopted = {p} /\ adopted[p] = [layout |-> l]
      BY <2>2 DEF Only
    <2>6. /\ DOMAIN made = IF Exists(l) THEN {} ELSE {l}
          /\ ~Exists(l) => made[l] = [team |-> db[p].team]
      BY <2>2 DEF Only
    <2>7. DOMAIN a.bulk = {p} /\ a.bulk[p] = [layout |-> l]
      BY <2>4, <2>5 DEF ++
    <2>8. /\ DOMAIN a.new = DOMAIN tx.new \cup DOMAIN made
          /\ \A i \in DOMAIN tx.new : a.new[i] = tx.new[i]
          /\ \A i \in DOMAIN made : a.new[i] = made[i]
      BY <2>1, <2>4, <2>6 DEF ++
    <2>9. TeamFor(p) = IF Exists(l) THEN db[l].team ELSE db[p].team
      BY <1>1 DEF TeamFor
    <2>10. Present(a.new, l) /\ (l \in DOMAIN a.new <=> ~Exists(l))
      BY <2>1, <2>6, <2>8 DEF Present
    <2>11. RowIn(a.new, l).team = TeamFor(p)
      <3>1. PICK row : row = [team |-> db[p].team]
        OBVIOUS
      <3>2. row.team = db[p].team
        BY <3>1
      <3>3. ~Exists(l) => a.new[l] = row
        BY <2>6, <2>8, <3>1
      <3> QED BY <2>9, <2>10, <3>2, <3>3 DEF RowIn
    <2> QED BY <1>1, <2>1, <2>4, <2>6, <2>7, <2>8, <2>10, <2>11 DEF Extends
  <1> QED BY <1>2, <1>3

\* The transaction is as well typed and planned with it as without.
LEMMA AdoptingKeeps ==
  ASSUME TablesInv, NEW p \in Rows(Pc), NEW tx,
         DOMAIN tx = Fields, DOMAIN tx.bulk = {}, FleetWrites(tx),
         DOMAIN tx.new \cap (Pc \cup Layout) = {}, DOMAIN tx.set \cap Pc = {}
  PROVE  LET a == Adopting(p, tx) IN
         /\ \A ids : TypedRows(tx, ids) => TypedRows(a, ids)
         /\ \A op : PcsPlan(op, a)
         /\ FleetWrites(a)
         /\ \A op, arg : OthersSpared(op, tx, arg) => OthersSpared(op, a, arg)
  <1>1. PICK l, a : l = LayoutFor(p) /\ a = Adopting(p, tx)
    OBVIOUS
  <1>2. /\ a.set = tx.set /\ a.del = tx.del /\ a.purge = tx.purge /\ l \in Layout
        /\ DOMAIN tx.new \subseteq DOMAIN a.new /\ DOMAIN a.new \subseteq DOMAIN tx.new \cup {l}
        /\ \A i \in DOMAIN tx.new : a.new[i] = tx.new[i]
        /\ l \in DOMAIN a.new => ~Exists(l) /\ a.new[l] = [team |-> db[p].team]
        /\ Present(a.new, l)
        /\ DOMAIN a.bulk \subseteq {p}
        /\ p \in DOMAIN a.bulk => a.bulk[p] = [layout |-> l]
    BY <1>1, Adopts DEF Extends
  <1>3. p \in Pc /\ p \in DOMAIN db /\ RowType(p) = PcRow /\ db[p].team \in Team
    BY PcRows
  <1>4. PICK row, columns : row = [team |-> db[p].team] /\ columns = [layout |-> l]
    OBVIOUS
  <1>5. IsRow(l, row) /\ row.team = db[p].team /\ l \notin Mapping
    <2>1. DOMAIN row = {"team"} /\ row["team"] = db[p].team /\ IsFunction(row)
      BY <1>4 DEF IsFunction
    <2>2. DOMAIN LayoutRow = {"team"} /\ LayoutRow["team"] = Team
      BY DEF LayoutRow
    <2>3. RowType(l) = LayoutRow /\ l \notin Mapping
      BY <1>2, RowTypes, FleetKeys DEF WallRows
    <2> QED BY <1>3, <2>1, <2>2, <2>3 DEF IsRow, Fits
  <1>6. Fits(PcRow, columns) /\ DOMAIN columns = {"layout"} /\ columns.layout = l
    <2>1. DOMAIN columns = {"layout"} /\ columns["layout"] = l
      BY <1>4
    <2>2. "layout" \in DOMAIN PcRow /\ l \in PcRow["layout"]
      BY <1>2 DEF PcRow, OrNone
    <2> QED BY <2>1, <2>2 DEF Fits
  <1>7. ASSUME NEW ids, TypedRows(tx, ids)
        PROVE  TypedRows(a, ids)
    <2>1. ASSUME NEW i \in DOMAIN a.new
          PROVE  IsRow(i, a.new[i]) /\ (i \in Mapping => i[1] \in 1..ids)
      <3>1. CASE i \in DOMAIN tx.new
        BY <1>2, <1>7, <3>1 DEF TypedRows
      <3>2. CASE i = l
        BY <1>2, <1>4, <1>5, <2>1, <3>2
      <3> QED BY <1>2, <3>1, <3>2
    <2>2. \A i \in DOMAIN a.bulk : Fits(RowType(i), a.bulk[i]) /\ i \in DOMAIN db
      BY <1>2, <1>3, <1>4, <1>6
    <2>3. \A i \in DOMAIN a.set : Fits(RowType(i), a.set[i])
      BY <1>2, <1>7 DEF TypedRows
    <2> QED BY <2>1, <2>2, <2>3 DEF TypedRows
  <1>8. ASSUME NEW op
        PROVE  PcsPlan(op, a)
    <2>1. a.purge \cap (Pc \cup Layout) = {}
      BY <1>2, FleetKeys DEF FleetWrites
    <2>2. \A k \in Layout : "team" \notin ColumnsWritten(a, k)
      <3>1. \A k \in Layout : k \notin DOMAIN a.set /\ k \notin DOMAIN a.bulk
        BY <1>2, <1>3, FleetKeys DEF FleetWrites, WallRows
      <3> QED BY <3>1 DEF ColumnsWritten
    <2>3. DOMAIN a.new \cap Pc = {} /\ DOMAIN a.set \cap Pc = {}
      BY <1>2, FleetKeys
    <2>4. ASSUME NEW q \in DOMAIN a.bulk \cap Pc
          PROVE  /\ DOMAIN a.bulk[q] = {"layout"} /\ DOMAIN a.set \cap Pc = {}
                 /\ ~Exists(a.bulk[q].layout) =>
                      /\ a.bulk[q].layout \in DOMAIN a.new
                      /\ a.new[a.bulk[q].layout].team = db[q].team
      <3>1. q = p /\ a.bulk[q] = columns
        BY <1>2, <1>4, <2>4
      <3> QED BY <1>2, <1>4, <1>5, <1>6, <2>3, <3>1 DEF Present
    <2> QED BY <2>1, <2>2, <2>3, <2>4 DEF PcsPlan
  <1>9. FleetWrites(a)
    BY <1>2, <1>3 DEF FleetWrites
  <1>10. ASSUME NEW op, NEW arg, OthersSpared(op, tx, arg)
         PROVE  OthersSpared(op, a, arg)
    <2> SUFFICES ASSUME op \in SetUps
                 PROVE  OthersSpared(op, a, arg)
      BY DEF OthersSpared
    <2>1. \A i \in DOMAIN a.new \cap (ViewId \cup Mapping) : i \in DOMAIN tx.new /\ a.new[i] = tx.new[i]
      BY <1>2, FleetKeys DEF WallRows
    <2>2. \A i \in DOMAIN tx.new \cap (ViewId \cup Mapping) :
            LET s == tx.new[i].screen IN
            s \in DOMAIN tx.new \/ (Exists(s) => MayChange(arg, db[s]))
      BY <1>10 DEF OthersSpared
    <2>3. \A i \in DOMAIN a.new \cap (ViewId \cup Mapping) :
            LET s == a.new[i].screen IN
            s \in DOMAIN a.new \/ (Exists(s) => MayChange(arg, db[s]))
      BY <1>2, <2>1, <2>2
    <2> QED BY <1>2, <1>10, <2>3 DEF OthersSpared
  <1> QED BY <1>1, <1>7, <1>8, <1>9, <1>10

-----------------------------------------------------------------------------
(* Sets of numbers *)

\* Of some numbers there is a smallest.
LEMMA Smallest ==
  ASSUME NEW S \in SUBSET Nat, S # {}
  PROVE  \E m \in S : \A n \in S : m <= n
  <1>1. PICK R : R = OpToRel(<, Nat)
    OBVIOUS
  <1>2. IsWellFoundedOn(R, Nat)
    BY <1>1, NatLessThanWellFounded
  <1>3. PICK m \in S : \A n \in S : ~(<<n, m>> \in R)
    BY <1>2, WFMin
  <1>4. \A n \in S : ~(n < m)
    BY <1>1, <1>3 DEF OpToRel
  <1> QED BY <1>4

\* Of some numbers up to another there is a greatest.
LEMMA Greatest ==
  ASSUME NEW k \in Nat, NEW S \in SUBSET (0..k), S # {}
  PROVE  \E m \in S : \A n \in S : m >= n
  <1>1. PICK T : T = {k - n : n \in S}
    OBVIOUS
  <1>2. T \in SUBSET Nat /\ T # {}
    <2>1. \A n \in S : n \in 0..k
      OBVIOUS
    <2>2. \A n \in 0..k : k - n \in Nat
      OBVIOUS
    <2> QED BY <1>1, <2>1, <2>2
  <1>3. PICK t \in T : \A u \in T : t <= u
    BY <1>2, Smallest
  <1>4. PICK m \in S : t = k - m
    BY <1>1, <1>3
  <1>5. \A n \in S : k - n \in T
    BY <1>1
  <1>6. \A n \in S : m >= n
    BY <1>3, <1>4, <1>5
  <1> QED BY <1>6

\* The index after those of a layout's screens.
LEMMA NextIndices ==
  ASSUME NEW l
  PROVE  NextIndex(l) \in 1..MaxIndex + 1
  <1>1. PICK S : S = {0} \cup {s[2] : s \in ScreensOf(l) \cap (Layout \X (1..MaxIndex))}
    OBVIOUS
  <1>2. S \in SUBSET (0..MaxIndex) /\ S # {} /\ MaxIndex \in Nat
    BY <1>1, TablesAssumption
  <1>3. \E m \in S : \A n \in S : m >= n
    BY <1>2, Greatest
  <1>4. Max(S) = CHOOSE m \in S : \A n \in S : m >= n
    BY DEF Max
  <1>5. Max(S) \in S
    BY <1>3, <1>4, Zenon
  <1>6. NextIndex(l) = Max(S) + 1
    BY <1>1 DEF NextIndex
  <1>7. Max(S) \in 0..MaxIndex
    BY <1>2, <1>5
  <1>8. PICK n : n = Max(S)
    OBVIOUS
  <1>9. n \in Nat /\ n <= MaxIndex /\ NextIndex(l) = n + 1
    BY <1>2, <1>6, <1>7, <1>8
  <1> QED BY <1>2, <1>9

\* The side of a grid for so many tiles.
LEMMA Sides ==
  ASSUME NEW tiles \in Nat
  PROVE  SideFor(tiles) \in 1..ScreenSide
  <1>1. PICK S : S = {n \in 1..ScreenSide : n * n >= tiles} \cup {ScreenSide}
    OBVIOUS
  <1>2. S \in SUBSET Nat /\ S # {} /\ S \subseteq 1..ScreenSide
    BY <1>1, TablesAssumption
  <1>3. \E m \in S : \A n \in S : m <= n
    BY <1>2, Smallest
  <1>4. Min(S) = CHOOSE m \in S : \A n \in S : m <= n
    BY DEF Min
  <1>5. Min(S) \in S
    BY <1>3, <1>4, Zenon
  <1>6. SideFor(tiles) = Min(S)
    BY <1>1 DEF SideFor
  <1> QED BY <1>2, <1>5, <1>6

-----------------------------------------------------------------------------
(* configure_pc_screens *)

\* A transaction that writes no PC leaves the PCs as they are planned.
LEMMA QuietPcs ==
  ASSUME NEW tx, FleetWrites(tx), DOMAIN tx.new \cap Pc = {}, DOMAIN tx.set \cap Pc = {},
         DOMAIN tx.bulk = {}
  PROVE  \A op : PcsPlan(op, tx)
  <1>1. tx.purge \cap (Pc \cup Layout) = {}
    BY FleetKeys DEF FleetWrites
  <1>2. \A l \in Layout : l \notin DOMAIN tx.set /\ l \notin DOMAIN tx.bulk
    BY FleetKeys DEF FleetWrites, WallRows
  <1>3. \A l \in Layout : "team" \notin ColumnsWritten(tx, l)
    BY <1>2 DEF ColumnsWritten
  <1> QED BY <1>1, <1>3 DEF PcsPlan

\* A side that is cut to that of the largest screen.
LEMMA LeastSides ==
  \A n \in 1..ViewSide : Least(n, ScreenSide) \in 1..ScreenSide
  BY TablesAssumption DEF Least

\* The columns of a new screen.
LEMMA NewScreenRow ==
  ASSUME NEW s \in ScreenId, NEW l \in Layout, NEW name \in Name,
         NEW rows \in 1..ScreenSide, NEW cols \in 1..ScreenSide, NEW row,
         row = [layout |-> l, name |-> name, rows |-> rows, cols |-> cols]
  PROVE  IsRow(s, row) /\ row.layout = l /\ row.name = name
  <1>1. /\ DOMAIN row = {"layout", "name", "rows", "cols"} /\ IsFunction(row)
        /\ row["layout"] = l /\ row["name"] = name /\ row["rows"] = rows /\ row["cols"] = cols
    BY DEF IsFunction
  <1>2. /\ DOMAIN ScreenRow = {"layout", "name", "rows", "cols"}
        /\ ScreenRow["layout"] = Layout /\ ScreenRow["name"] = Name
        /\ ScreenRow["rows"] = 1..ScreenSide /\ ScreenRow["cols"] = 1..ScreenSide
    BY DEF ScreenRow
  <1>3. RowType(s) = ScreenRow
    BY RowTypes
  <1> QED BY <1>1, <1>2, <1>3 DEF IsRow, Fits

\* The columns of a new view.
LEMMA NewViewRow ==
  ASSUME NEW v \in ViewId, NEW s \in ScreenId, NEW number \in 0..MaxIndex,
         NEW rows \in 1..ViewSide, NEW cols \in 1..ViewSide, NEW row,
         row = [screen |-> s, number |-> number, rows |-> rows, cols |-> cols]
  PROVE  IsRow(v, row) /\ row.screen = s
  <1>1. /\ DOMAIN row = {"screen", "number", "rows", "cols"} /\ IsFunction(row)
        /\ row["screen"] = s /\ row["number"] = number /\ row["rows"] = rows
        /\ row["cols"] = cols
    BY DEF IsFunction
  <1>2. /\ DOMAIN ViewRow = {"screen", "number", "rows", "cols"}
        /\ ViewRow["screen"] = ScreenId /\ ViewRow["number"] = 0..MaxIndex
        /\ ViewRow["rows"] = 1..ViewSide /\ ViewRow["cols"] = 1..ViewSide
    BY DEF ViewRow
  <1>3. RowType(v) = ViewRow
    BY RowTypes
  <1> QED BY <1>1, <1>2, <1>3 DEF IsRow, Fits

\* The first of the screens that are left to do.
LEMMA FirstScreen ==
  ASSUME NEW arg \in SetUpArg, arg.todo # <<>>,
         \A n \in DOMAIN arg.todo : arg.todo[n].name \in arg.named
  PROVE  /\ Head(arg.todo) \in WantedScreen /\ Head(arg.todo).name \in arg.named
         /\ Len(arg.todo) \in Nat /\ Len(arg.todo) >= 1
  <1>1. PICK todo : todo = arg.todo
    OBVIOUS
  <1>2. todo \in Seq(WantedScreen) /\ todo # <<>>
    BY <1>1 DEF SetUpArg
  <1>3. Head(todo) = todo[1] /\ 1 \in DOMAIN todo /\ Len(todo) \in Nat /\ Len(todo) >= 1
    BY <1>2
  <1>4. todo[1] \in WantedScreen
    BY <1>2, <1>3
  <1> QED BY <1>1, <1>3, <1>4

\* get_or_create_screen for the first of them.
LEMMA ScreenStep ==
  ASSUME TablesInv, NEW arg \in SetUpArg, arg.todo # <<>>,
         arg.index + Len(arg.todo) <= MaxIndex + 1,
         \A n \in DOMAIN arg.todo : arg.todo[n].name \in arg.named,
         NEW step \in ScreenSteps(arg)
  PROVE  LET tx == step.tx
             next == step.arg
         IN /\ step.then \in {"configure.grid", "configure.views"}
            /\ DOMAIN tx = Fields /\ DOMAIN tx.bulk = {} /\ DOMAIN tx.set = {}
            /\ DOMAIN tx.new \subseteq ScreenId
            /\ \A s \in DOMAIN tx.new : MayChange(next, tx.new[s])
            /\ \A ids : TypedRows(tx, ids)
            /\ FleetWrites(tx) /\ CamerasPlaced(tx)
            /\ \A op : PcsPlan(op, tx) /\ OthersSpared(op, tx, next)
            /\ next \in SetUpArg /\ next.index + Len(arg.todo) <= MaxIndex + 2
            /\ next.layout = arg.layout /\ next.todo = arg.todo /\ next.views = arg.views
            /\ next.cameras = arg.cameras /\ next.named = arg.named
            /\ next.screen \in ScreenId /\ Own(tx.new, next, next.screen)
  <1>1. PICK conf, fresh : conf = Head(arg.todo) /\ fresh = <<arg.layout, arg.index>>
    OBVIOUS
  <1>2. /\ conf.name \in Name /\ conf.name \in arg.named
        /\ conf.rows \in 1..ViewSide /\ conf.cols \in 1..ViewSide
        /\ Len(arg.todo) \in Nat /\ Len(arg.todo) >= 1
    BY <1>1, FirstScreen DEF WantedScreen
  <1>3. /\ arg.layout \in Layout /\ arg.index \in 1..MaxIndex /\ MaxIndex \in Nat
        /\ "named" \in DOMAIN arg
    BY <1>2, TablesAssumption DEF SetUpArg
  <1>4. CASE \E s \in ScreensNamed(arg.layout, conf.name) :
               step = [tx |-> [NoWrites EXCEPT !.purge = ViewsOf(s)],
                       then |-> "configure.grid", arg |-> [arg EXCEPT !.screen = s]]
    <2>1. PICK s \in ScreensNamed(arg.layout, conf.name) :
            step = [tx |-> [NoWrites EXCEPT !.purge = ViewsOf(s)],
                    then |-> "configure.grid", arg |-> [arg EXCEPT !.screen = s]]
      BY <1>4
    <2>2. PICK tx, next : tx = step.tx /\ next = step.arg
      OBVIOUS
    <2>3. /\ tx = [NoWrites EXCEPT !.purge = ViewsOf(s)] /\ step.then = "configure.grid"
          /\ next = [arg EXCEPT !.screen = s]
      BY <2>1, <2>2
    <2>4. /\ DOMAIN tx = Fields /\ DOMAIN tx.new = {} /\ DOMAIN tx.set = {}
          /\ DOMAIN tx.bulk = {} /\ tx.del = {} /\ tx.purge = ViewsOf(s)
      BY <2>3 DEF NoWrites, Fields
    <2>5. s \in ScreenId /\ Exists(s) /\ db[s].layout = arg.layout /\ db[s].name = conf.name
      BY <2>1 DEF ScreensNamed, ScreensOf, Rows, Exists
    <2>6. /\ next \in SetUpArg /\ next.screen = s /\ next.index = arg.index
          /\ next.layout = arg.layout /\ next.todo = arg.todo /\ next.views = arg.views
          /\ next.cameras = arg.cameras /\ next.named = arg.named
      BY <2>3, <2>5 DEF SetUpArg, OrNone
    <2>7. MayChange(next, db[s])
      BY <1>2, <2>5, <2>6 DEF MayChange
    <2>8. \A v \in tx.purge : v \in ViewId /\ db[v].screen = s
      BY <2>4 DEF ViewsOf, Rows
    <2>9. FleetWrites(tx) /\ CamerasPlaced(tx) /\ \A ids : TypedRows(tx, ids)
      BY <2>4, <2>8 DEF FleetWrites, CamerasPlaced, TypedRows
    <2>10. \A op : PcsPlan(op, tx)
      BY <2>4, <2>9, QuietPcs
    <2>11. \A op : OthersSpared(op, tx, next)
      <3>1. (DOMAIN tx.set \cup tx.purge) \cap Rows(ScreenId) = {}
        BY <2>4, <2>8, FleetKeys DEF Rows
      <3> QED BY <2>4, <2>7, <2>8, <3>1 DEF OthersSpared
    <2>12. Own(tx.new, next, next.screen)
      BY <2>4, <2>6, <2>7 DEF Own, RowIn
    <2>13. next.index + Len(arg.todo) <= MaxIndex + 2
      BY <1>2, <1>3, <2>6
    <2> QED BY <2>2, <2>3, <2>4, <2>5, <2>6, <2>9, <2>10, <2>11, <2>12, <2>13
  <1>5. CASE step = [tx |-> Inserting(fresh, [layout |-> arg.layout, name |-> conf.name,
                                              rows |-> Least(conf.rows, ScreenSide),
                                              cols |-> Least(conf.cols, ScreenSide)]),
                     then |-> "configure.views",
                     arg |-> [arg EXCEPT !.screen = fresh, !.index = @ + 1]]
    <2>1. PICK tx, next, row :
            /\ tx = step.tx /\ next = step.arg
            /\ row = [layout |-> arg.layout, name |-> conf.name,
                      rows |-> Least(conf.rows, ScreenSide),
                      cols |-> Least(conf.cols, ScreenSide)]
      OBVIOUS
    <2>2. /\ tx = Inserting(fresh, row) /\ step.then = "configure.views"
          /\ next = [arg EXCEPT !.screen = fresh, !.index = @ + 1]
      BY <1>5, <2>1
    <2>3. /\ DOMAIN tx = Fields /\ DOMAIN tx.new = {fresh} /\ tx.new[fresh] = row
          /\ DOMAIN tx.set = {} /\ DOMAIN tx.bulk = {} /\ tx.del = {} /\ tx.purge = {}
      BY <2>2, Transactions
    <2>4. fresh \in ScreenId
      BY <1>1, <1>3 DEF ScreenId
    <2>5. IsRow(fresh, row) /\ row.layout = arg.layout /\ row.name = conf.name
      BY <1>2, <1>3, <2>1, <2>4, LeastSides, NewScreenRow
    <2>6. /\ next.screen = fresh /\ next.index = arg.index + 1
          /\ next.layout = arg.layout /\ next.todo = arg.todo /\ next.views = arg.views
          /\ next.cameras = arg.cameras /\ next.named = arg.named
          /\ DOMAIN next = DOMAIN arg
      BY <2>2 DEF SetUpArg
    <2>7. next \in SetUpArg
      <3>1. arg.index + 1 \in Nat \ {0} /\ fresh \in OrNone(ScreenId)
        BY <1>3, <2>4 DEF OrNone
      <3> QED BY <2>2, <3>1 DEF SetUpArg
    <2>8. MayChange(next, row)
      BY <1>2, <2>5, <2>6 DEF MayChange
    <2>9. fresh \notin Pc \cup Layout \cup ViewId \cup Mapping
      BY <2>4, FleetKeys
    <2>10. FleetWrites(tx) /\ CamerasPlaced(tx) /\ \A ids : TypedRows(tx, ids)
      BY <2>3, <2>4, <2>5, <2>9 DEF FleetWrites, CamerasPlaced, TypedRows, WallRows
    <2>11. \A op : PcsPlan(op, tx)
      BY <2>3, <2>9, <2>10, QuietPcs
    <2>12. \A op : OthersSpared(op, tx, next)
      BY <2>3, <2>9 DEF OthersSpared
    <2>13. Own(tx.new, next, next.screen)
      BY <2>3, <2>6, <2>8 DEF Own, RowIn
    <2>14. next.index + Len(arg.todo) <= MaxIndex + 2
      BY <1>2, <1>3, <2>6
    <2> QED BY <2>1, <2>2, <2>3, <2>4, <2>6, <2>7, <2>8, <2>10, <2>11, <2>12, <2>13, <2>14
  <1> QED BY <1>1, <1>4, <1>5 DEF ScreenSteps

\* What a request that goes on has remembered.
LEMMA Remembered ==
  ASSUME FleetInv, NEW w \in Worker, NEW op \in ConfigureSteps, At(w, op)
  PROVE  LET arg == job[w].arg IN
         /\ job[w] # Idle /\ arg \in SetUpArg
         /\ \A n \in DOMAIN arg.todo : arg.todo[n].name \in arg.named
         /\ op = "configure.screen" =>
              arg.todo # <<>> /\ arg.index + Len(arg.todo) <= MaxIndex + 1
         /\ op \in {"configure.grid", "configure.views"} =>
              /\ arg.todo # <<>> /\ arg.index + Len(arg.todo) <= MaxIndex + 2
              /\ arg.screen \in ScreenId
         /\ job[w].alone =>
              /\ op \in {"configure.grid", "configure.views"} => Own(<<>>, arg, arg.screen)
              /\ \A n \in DOMAIN arg.views : Own(<<>>, arg, arg.views[n][1])
              /\ Exists(arg.layout) =>
                   \A n \in DOMAIN arg.cameras :
                     CameraFitsTeam(arg.cameras[n], db[arg.layout].team)
  <1>1. PICK j, arg : j = job[w] /\ arg = j.arg
    OBVIOUS
  <1>2. j # Idle /\ j.op = op /\ j.then = None
    BY <1>1 DEF At
  <1>3. /\ Memory(j.op, j.then, arg)
        /\ j.alone => Course(j.op, j.tx, j.then, arg)
    BY <1>1, <1>2 DEF FleetInv
  <1>4. \A steps : Ahead(j.op, j.then, steps) <=> op \in steps
    BY <1>2 DEF Ahead
  <1>5. Coming(j.tx, j.then) = <<>>
    BY <1>2 DEF Coming
  <1>6. Present(<<>>, arg.layout) <=> Exists(arg.layout)
    BY DEF Present
  <1>7. Exists(arg.layout) => RowIn(<<>>, arg.layout) = db[arg.layout]
    BY DEF RowIn
  <1>8. /\ arg \in SetUpArg
        /\ \A n \in DOMAIN arg.todo : arg.todo[n].name \in arg.named
        /\ op = "configure.screen" =>
             arg.todo # <<>> /\ arg.index + Len(arg.todo) <= MaxIndex + 1
        /\ op \in {"configure.grid", "configure.views"} =>
             /\ arg.todo # <<>> /\ arg.index + Len(arg.todo) <= MaxIndex + 2
             /\ arg.screen \in ScreenId
    BY <1>3, <1>4 DEF Memory
  <1>9. j.alone =>
          /\ op \in {"configure.grid", "configure.views"} => Own(<<>>, arg, arg.screen)
          /\ \A n \in DOMAIN arg.views : Own(<<>>, arg, arg.views[n][1])
          /\ Present(<<>>, arg.layout) =>
               \A n \in DOMAIN arg.cameras :
                 CameraFitsTeam(arg.cameras[n], RowIn(<<>>, arg.layout).team)
    BY <1>3, <1>4, <1>5 DEF Course
  <1> QED BY <1>1, <1>2, <1>6, <1>7, <1>8, <1>9

\* The transactions of a set-up that another of them follows.
LEMMA Following ==
  \A op, then : then \in ConfigureSteps =>
    /\ then # None
    /\ \A steps : Ahead(op, then, steps) <=> then \in steps
    /\ \A tx : Coming(tx, then) = tx.new
  BY FleetAssumption DEF Ahead, Coming

\* What a set-up remembers when it has dealt with the first screen that is left.
LEMMA ScreenMemory ==
  ASSUME NEW arg \in SetUpArg, NEW next \in SetUpArg, NEW op,
         NEW then \in {"configure.grid", "configure.views"},
         arg.todo # <<>>, \A n \in DOMAIN arg.todo : arg.todo[n].name \in arg.named,
         next.index + Len(arg.todo) <= MaxIndex + 2, next.todo = arg.todo,
         next.named = arg.named, next.screen \in ScreenId
  PROVE  Memory(op, then, next)
  <1>1. then \in ConfigureSteps
    BY DEF ConfigureSteps
  <1>2. \A steps : Ahead(op, then, steps) <=> then \in steps
    BY <1>1, Following
  <1>3. ~Ahead(op, then, {"configure.screen"})
    BY <1>2
  <1>4. next.todo # <<>> /\ next.index + Len(next.todo) <= MaxIndex + 2
    BY DEF SetUpArg
  <1> QED BY <1>3, <1>4 DEF Memory

\* configure_pc_screens goes on with the next screen.
LEMMA ConfigureNextPrepares ==
  ASSUME FleetInv, NEW w \in Worker, ConfigureNext(w)
  PROVE  FleetPrepares(w)
  <1>1. PICK op, arg : op = "configure.screen" /\ arg = job[w].arg
    OBVIOUS
  <1>2. TablesInv /\ op \in ConfigureSteps /\ At(w, op) /\ serial' = serial
    BY <1>1 DEF FleetInv, ConfigureSteps, ConfigureNext
  <1>3. PICK step \in ScreenSteps(arg) : Continues(w, step.tx, step.then, step.arg)
    BY <1>1 DEF ConfigureNext
  <1>4. PICK tx, then, next : tx = step.tx /\ then = step.then /\ next = step.arg
    OBVIOUS
  <1>5. /\ job[w] # Idle /\ arg \in SetUpArg
        /\ \A n \in DOMAIN arg.todo : arg.todo[n].name \in arg.named
        /\ arg.todo # <<>> /\ arg.index + Len(arg.todo) <= MaxIndex + 1
        /\ job[w].alone =>
             /\ \A n \in DOMAIN arg.views : Own(<<>>, arg, arg.views[n][1])
             /\ Exists(arg.layout) =>
                  \A n \in DOMAIN arg.cameras :
                    CameraFitsTeam(arg.cameras[n], db[arg.layout].team)
    BY <1>1, <1>2, Remembered
  <1>6. /\ then \in {"configure.grid", "configure.views"}
        /\ DOMAIN tx.new \subseteq ScreenId
        /\ \A s \in DOMAIN tx.new : MayChange(next, tx.new[s])
        /\ \A ids : TypedRows(tx, ids)
        /\ FleetWrites(tx) /\ CamerasPlaced(tx)
        /\ PcsPlan(op, tx) /\ OthersSpared(op, tx, next)
        /\ next \in SetUpArg /\ next.index + Len(arg.todo) <= MaxIndex + 2
        /\ next.layout = arg.layout /\ next.todo = arg.todo /\ next.views = arg.views
        /\ next.cameras = arg.cameras /\ next.named = arg.named
        /\ next.screen \in ScreenId /\ Own(tx.new, next, next.screen)
    BY <1>2, <1>4, <1>5, ScreenStep
  <1>7. then \in ConfigureSteps
    BY <1>6 DEF ConfigureSteps
  <1>8. Memory(op, then, next)
    BY <1>5, <1>6, ScreenMemory
  <1>9. ASSUME job[w] = Idle \/ job[w].alone
        PROVE  Course(op, tx, then, next)
    <2>1. \A s : MayChange(arg, s) => MayChange(next, s)
      <3>1. "named" \in DOMAIN arg /\ "named" \in DOMAIN next
        BY <1>5, <1>6 DEF SetUpArg
      <3> QED BY <1>6, <3>1 DEF MayChange
    <2>2. ASSUME NEW s, Own(<<>>, arg, s)
          PROVE  Own(tx.new, next, s)
      BY <1>6, <2>1, <2>2 DEF Own, Present, RowIn
    <2>3. \A n \in DOMAIN next.views : Own(tx.new, next, next.views[n][1])
      BY <1>5, <1>6, <1>9, <2>2
    <2>4. next.layout \notin DOMAIN tx.new
      <3>1. next.layout \in Layout
        BY <1>6 DEF SetUpArg
      <3> QED BY <1>6, <3>1, FleetKeys
    <2>5. Present(tx.new, next.layout) =>
            \A n \in DOMAIN next.cameras :
              CameraFitsTeam(next.cameras[n], RowIn(tx.new, next.layout).team)
      BY <1>5, <1>6, <1>9, <2>4 DEF Present, RowIn
    <2>6. Coming(tx, then) = tx.new
      BY <1>7, Following
    <2> QED BY <1>6, <2>3, <2>5, <2>6 DEF Course
  <1>10. Continues(w, tx, then, next) /\ TypedRows(tx, serial')
    BY <1>3, <1>4, <1>6
  <1>11. FleetPlan(op, tx, next)
    BY <1>6 DEF FleetPlan
  <1>12. serial' \in serial..MaxMapping
    BY <1>2, TablesAssumption DEF TablesInv, TablesTypeOK
  <1>13. op # "address.provisioned" /\ op # "site.populating"
    BY <1>1
  <1> QED BY <1>2, <1>6, <1>7, <1>8, <1>9, <1>10, <1>11, <1>12, <1>13, Readies

\* The columns of a body of configure_pc_screens.
LEMMA ConfigureBodies ==
  ASSUME NEW body \in ConfigureBody
  PROVE  /\ body.screens \in Seq(WantedScreen) /\ body.cameras \in Seq(Camera)
         /\ {c.name : c \in Range(body.screens)} \subseteq Name
         /\ \A n \in DOMAIN body.screens :
              body.screens[n].name \in {c.name : c \in Range(body.screens)}
         /\ Len(body.screens) \in Nat
  <1>1. body.screens \in Seq(WantedScreen) /\ body.cameras \in Seq(Camera)
    BY FleetBodies DEF WantedScreen
  <1>2. PICK screens : screens = body.screens
    OBVIOUS
  <1>3. \A n \in DOMAIN screens : screens[n] \in WantedScreen
    BY <1>1, <1>2
  <1>4. \A c \in Range(screens) : c \in WantedScreen
    BY <1>3 DEF Range
  <1>5. \A n \in DOMAIN screens : screens[n] \in Range(screens)
    BY DEF Range
  <1>6. Len(screens) \in Nat
    BY <1>1, <1>2
  <1> QED BY <1>1, <1>2, <1>4, <1>5, <1>6 DEF WantedScreen

\* configure_pc_screens until its first commit.
LEMMA ConfigurePcPrepares ==
  ASSUME TablesInv, NEW w \in Worker, ConfigurePc(w)
  PROVE  FleetPrepares(w)
  <1>1. PICK p \in Rows(Pc), body \in ConfigureBody :
          LET arg == [layout |-> LayoutFor(p), todo |-> body.screens,
                      index |-> NextIndex(LayoutFor(p)), screen |-> None,
                      views |-> <<>>, cameras |-> body.cameras,
                      named |-> {c.name : c \in Range(body.screens)}]
          IN /\ MayConfigure(p, body)
             /\ \/ /\ body.screens # <<>>
                   /\ \E step \in ScreenSteps(arg) :
                        AcceptedThen(w, "configure.screen", Adopting(p, step.tx), step.then, step.arg)
                \/ /\ body.screens = <<>>
                   /\ AcceptedThen(w, "configure.cameras", Adopting(p, NoWrites), "configure.stamp", arg)
    BY DEF ConfigurePc
  <1>2. PICK l, arg :
          /\ l = LayoutFor(p)
          /\ arg = [layout |-> l, todo |-> body.screens, index |-> NextIndex(l),
                    screen |-> None, views |-> <<>>, cameras |-> body.cameras,
                    named |-> {c.name : c \in Range(body.screens)}]
    OBVIOUS
  <1>3. /\ serial' = serial /\ serial' \in serial..MaxMapping
    BY TablesAssumption DEF ConfigurePc, TablesInv, TablesTypeOK
  <1>4. /\ \A n \in DOMAIN body.cameras : CameraFitsTeam(body.cameras[n], TeamFor(p))
        /\ NextIndex(l) + Len(body.screens) <= MaxIndex + 1
    BY <1>1, <1>2 DEF MayConfigure, CamerasFitTeam, Range
  <1>5. l \in Layout
    <2>1. PICK tx, a : tx = NoWrites /\ a = Adopting(p, tx)
      OBVIOUS
    <2>2. DOMAIN tx = Fields /\ DOMAIN tx.bulk = {} /\ DOMAIN tx.new \cap Layout = {}
      BY <2>1, Transactions
    <2> QED BY <1>2, <2>1, <2>2, Adopts
  <1>6. /\ arg \in SetUpArg /\ arg.layout = l /\ arg.todo = body.screens
        /\ arg.views = <<>> /\ arg.cameras = body.cameras
        /\ arg.index + Len(arg.todo) <= MaxIndex + 1
        /\ \A n \in DOMAIN arg.todo : arg.todo[n].name \in arg.named
    <2>1. NextIndex(l) \in Nat \ {0}
      BY NextIndices, TablesAssumption
    <2>2. /\ body.screens \in Seq(WantedScreen) /\ body.cameras \in Seq(Camera)
          /\ {c.name : c \in Range(body.screens)} \in SUBSET Name
          /\ \A n \in DOMAIN body.screens :
               body.screens[n].name \in {c.name : c \in Range(body.screens)}
      BY ConfigureBodies
    <2>3. None \in OrNone(ScreenId) /\ <<>> \in Seq(ScreenId \X (1..MaxIndex))
      BY DEF OrNone
    <2> QED BY <1>2, <1>4, <1>5, <2>1, <2>2, <2>3 DEF SetUpArg
  <1>7. CASE /\ body.screens # <<>>
             /\ \E step \in ScreenSteps(arg) :
                  AcceptedThen(w, "configure.screen", Adopting(p, step.tx), step.then, step.arg)
    <2>1. PICK step \in ScreenSteps(arg) :
            AcceptedThen(w, "configure.screen", Adopting(p, step.tx), step.then, step.arg)
      BY <1>7
    <2>2. PICK op, tx, then, next, a :
            /\ op = "configure.screen" /\ tx = step.tx /\ then = step.then /\ next = step.arg
            /\ a = Adopting(p, tx)
      OBVIOUS
    <2>3. /\ then \in {"configure.grid", "configure.views"}
          /\ DOMAIN tx = Fields /\ DOMAIN tx.bulk = {} /\ DOMAIN tx.set = {}
          /\ DOMAIN tx.new \subseteq ScreenId
          /\ TypedRows(tx, serial)
          /\ FleetWrites(tx)
          /\ OthersSpared(op, tx, next)
          /\ next \in SetUpArg /\ next.index + Len(arg.todo) <= MaxIndex + 2
          /\ next.layout = arg.layout /\ next.todo = arg.todo /\ next.views = arg.views
          /\ next.cameras = arg.cameras /\ next.named = arg.named
          /\ next.screen \in ScreenId /\ Own(tx.new, next, next.screen)
      BY <1>6, <1>7, <2>2, ScreenStep
    <2>4. DOMAIN tx.new \cap (Pc \cup Layout) = {} /\ DOMAIN tx.new \cap Mapping = {}
      BY <2>3, FleetKeys
    <2>5. /\ DOMAIN tx.new \subseteq DOMAIN a.new /\ DOMAIN a.new \subseteq DOMAIN tx.new \cup {l}
          /\ \A i \in DOMAIN tx.new : a.new[i] = tx.new[i]
          /\ RowIn(a.new, l).team = TeamFor(p)
      <3>1. /\ a = Adopting(p, tx) /\ DOMAIN tx.new \cap Layout = {}
            /\ DOMAIN tx = Fields /\ DOMAIN tx.bulk = {}
        BY <2>2, <2>3, <2>4
      <3>2. Extends(a.new, tx.new) /\ DOMAIN a.new \subseteq DOMAIN tx.new \cup {LayoutFor(p)}
        BY <3>1, Adopts
      <3>3. RowIn(a.new, LayoutFor(p)).team = TeamFor(p)
        BY <3>1, Adopts
      <3> QED BY <1>2, <3>2, <3>3 DEF Extends
    <2>6. TypedRows(a, serial) /\ PcsPlan(op, a) /\ FleetWrites(a) /\ OthersSpared(op, a, next)
      BY <2>2, <2>3, <2>4, AdoptingKeeps
    <2>7. DOMAIN a.new \cap Mapping = {}
      BY <1>5, <2>4, <2>5, FleetKeys DEF WallRows
    <2>8. FleetPlan(op, a, next)
      BY <2>6, <2>7 DEF FleetPlan, CamerasPlaced
    <2>9. then \in ConfigureSteps
      BY <2>3 DEF ConfigureSteps
    <2>10. Memory(op, then, next)
      BY <1>6, <1>7, <2>3, ScreenMemory
    <2>11. Own(a.new, next, next.screen)
      <3>1. next.screen # l
        BY <1>5, <2>3, FleetKeys
      <3> QED BY <2>3, <2>5, <3>1 DEF Own, Present, RowIn
    <2>12. Course(op, a, then, next)
      <3>1. DOMAIN next.views = {}
        BY <1>6, <2>3
      <3>2. \A n \in DOMAIN next.cameras :
              CameraFitsTeam(next.cameras[n], RowIn(a.new, next.layout).team)
        BY <1>4, <1>6, <2>3, <2>5
      <3>3. Coming(a, then) = a.new
        BY <2>9, Following
      <3> QED BY <2>11, <3>1, <3>2, <3>3 DEF Course
    <2>13. AcceptedThen(w, op, a, then, next) /\ TypedRows(a, serial')
      BY <1>3, <2>1, <2>2, <2>6
    <2>14. op # "address.provisioned" /\ op # "site.populating"
      BY <2>2
    <2> QED BY <1>3, <2>6, <2>8, <2>9, <2>10, <2>12, <2>13, <2>14, Readies
  <1>8. CASE AcceptedThen(w, "configure.cameras", Adopting(p, NoWrites), "configure.stamp", arg)
             /\ body.screens = <<>>
    <2>1. PICK op, tx, then, a :
            /\ op = "configure.cameras" /\ tx = NoWrites /\ then = "configure.stamp"
            /\ a = Adopting(p, tx)
      OBVIOUS
    <2>2. /\ DOMAIN tx = Fields /\ DOMAIN tx.new = {} /\ DOMAIN tx.set = {}
          /\ DOMAIN tx.bulk = {} /\ tx.del = {} /\ tx.purge = {}
      BY <2>1, Transactions
    <2>3. TypedRows(tx, serial) /\ FleetWrites(tx) /\ OthersSpared(op, tx, arg)
      BY <2>2 DEF TypedRows, FleetWrites, OthersSpared
    <2>4. DOMAIN a.new \subseteq {l} /\ RowIn(a.new, l).team = TeamFor(p)
      <3>1. a = Adopting(p, tx) /\ DOMAIN tx.new \cap Layout = {}
        BY <2>1, <2>2
      <3>2. DOMAIN a.new \subseteq DOMAIN tx.new \cup {LayoutFor(p)}
        BY <2>2, <3>1, Adopts
      <3>3. RowIn(a.new, LayoutFor(p)).team = TeamFor(p)
        BY <2>2, <3>1, Adopts
      <3> QED BY <1>2, <2>2, <3>2, <3>3
    <2>5. TypedRows(a, serial) /\ PcsPlan(op, a) /\ FleetWrites(a) /\ OthersSpared(op, a, arg)
      BY <2>1, <2>2, <2>3, AdoptingKeeps
    <2>6. DOMAIN a.new \cap Mapping = {}
      BY <1>5, <2>4, FleetKeys DEF WallRows
    <2>7. FleetPlan(op, a, arg)
      BY <2>5, <2>6 DEF FleetPlan, CamerasPlaced
    <2>8. then \in ConfigureSteps
      BY <2>1 DEF ConfigureSteps
    <2>9. \A steps : Ahead(op, then, steps) <=> then \in steps
      BY <2>8, Following
    <2>10. Memory(op, then, arg)
      BY <1>6, <2>1, <2>9 DEF Memory
    <2>11. Course(op, a, then, arg)
      <3>1. DOMAIN arg.views = {}
        BY <1>6
      <3>2. \A n \in DOMAIN arg.cameras :
              CameraFitsTeam(arg.cameras[n], RowIn(a.new, arg.layout).team)
        BY <1>4, <1>6, <2>4
      <3>3. Coming(a, then) = a.new
        BY <2>8, Following
      <3> QED BY <2>1, <2>9, <3>1, <3>2, <3>3 DEF Course
    <2>12. AcceptedThen(w, op, a, then, arg) /\ TypedRows(a, serial')
      BY <1>3, <1>8, <2>1, <2>5
    <2>13. op # "address.provisioned" /\ op # "site.populating"
      BY <2>1
    <2> QED BY <1>3, <2>5, <2>7, <2>8, <2>10, <2>11, <2>12, <2>13, Readies
  <1> QED BY <1>1, <1>2, <1>7, <1>8

\* A screen is a request's own whatever rows of other tables are new.
LEMMA StillOwn ==
  ASSUME NEW new, DOMAIN new \cap ScreenId = {}, NEW s \in ScreenId, NEW arg, NEW next,
         next.layout = arg.layout, next.named = arg.named,
         "named" \in DOMAIN arg, "named" \in DOMAIN next, Own(<<>>, arg, s)
  PROVE  Own(new, next, s)
  <1>1. s \notin DOMAIN new
    OBVIOUS
  <1>2. Exists(s) => MayChange(arg, db[s])
    BY DEF Own, Present, RowIn
  <1>3. Exists(s) => MayChange(next, db[s])
    BY <1>2 DEF MayChange
  <1> QED BY <1>1, <1>3 DEF Own, Present, RowIn

\* The course of a set-up after a transaction that makes no screen and no layout.
LEMMA StillOnCourse ==
  ASSUME NEW tx, DOMAIN tx.new \cap (Layout \cup ScreenId) = {}, NEW op, NEW then,
         then = None \/ then \in ConfigureSteps,
         NEW arg \in SetUpArg, NEW next \in SetUpArg, next.layout = arg.layout,
         next.named = arg.named, next.cameras = arg.cameras,
         Ahead(op, then, {"configure.grid", "configure.views"}) =>
           next.screen \in ScreenId /\ Own(<<>>, arg, next.screen),
         \A n \in DOMAIN next.views : Own(<<>>, arg, next.views[n][1]),
         Exists(arg.layout) =>
           \A n \in DOMAIN arg.cameras : CameraFitsTeam(arg.cameras[n], db[arg.layout].team)
  PROVE  Course(op, tx, then, next)
  <1>1. PICK new : new = Coming(tx, then)
    OBVIOUS
  <1>2. DOMAIN new \cap Layout = {} /\ DOMAIN new \cap ScreenId = {}
    BY <1>1, FleetAssumption DEF Coming
  <1>3. /\ "named" \in DOMAIN arg /\ "named" \in DOMAIN next
        /\ next.layout \in Layout /\ next.views \in Seq(ScreenId \X (1..MaxIndex))
    BY DEF SetUpArg
  <1>4. \A n \in DOMAIN next.views : next.views[n][1] \in ScreenId
    <2>1. \A n \in DOMAIN next.views : next.views[n] \in ScreenId \X (1..MaxIndex)
      BY <1>3
    <2> QED BY <2>1
  <1>5. \A n \in DOMAIN next.views : Own(new, next, next.views[n][1])
    BY <1>2, <1>3, <1>4, StillOwn
  <1>6. Ahead(op, then, {"configure.grid", "configure.views"}) => Own(new, next, next.screen)
    BY <1>2, <1>3, StillOwn
  <1>7. next.layout \notin DOMAIN new
    BY <1>2, <1>3
  <1>8. Present(new, next.layout) =>
          \A n \in DOMAIN next.cameras :
            CameraFitsTeam(next.cameras[n], RowIn(new, next.layout).team)
    BY <1>7 DEF Present, RowIn
  <1> QED BY <1>1, <1>5, <1>6, <1>8 DEF Course

\* configure_pc_screens cuts the grid of a screen that it found.
LEMMA ConfigureGridPrepares ==
  ASSUME FleetInv, NEW w \in Worker, ConfigureGrid(w)
  PROVE  FleetPrepares(w)
  <1>1. PICK op, then, arg, conf, columns, tx :
          /\ op = "configure.grid" /\ then = "configure.views" /\ arg = job[w].arg
          /\ conf = Head(arg.todo)
          /\ columns = [rows |-> Least(conf.rows, ScreenSide),
                        cols |-> Least(conf.cols, ScreenSide)]
          /\ tx = Setting(arg.screen, columns)
    OBVIOUS
  <1>2. /\ TablesInv /\ op \in ConfigureSteps /\ At(w, op) /\ Continues(w, tx, then, arg)
        /\ serial' = serial /\ then \in ConfigureSteps
    BY <1>1 DEF FleetInv, ConfigureSteps, ConfigureGrid
  <1>3. /\ job[w] # Idle /\ arg \in SetUpArg
        /\ \A n \in DOMAIN arg.todo : arg.todo[n].name \in arg.named
        /\ arg.todo # <<>> /\ arg.index + Len(arg.todo) <= MaxIndex + 2
        /\ arg.screen \in ScreenId
        /\ job[w].alone =>
             /\ Own(<<>>, arg, arg.screen)
             /\ \A n \in DOMAIN arg.views : Own(<<>>, arg, arg.views[n][1])
             /\ Exists(arg.layout) =>
                  \A n \in DOMAIN arg.cameras :
                    CameraFitsTeam(arg.cameras[n], db[arg.layout].team)
    BY <1>1, <1>2, Remembered
  <1>4. /\ DOMAIN tx.new = {} /\ DOMAIN tx.bulk = {} /\ tx.del = {} /\ tx.purge = {}
        /\ DOMAIN tx.set = {arg.screen} /\ tx.set[arg.screen] = columns
    <2>1. PICK s : s = arg.screen
      OBVIOUS
    <2>2. tx = Setting(s, columns)
      BY <1>1, <2>1
    <2> QED BY <2>1, <2>2, Transactions
  <1>5. DOMAIN columns = {"rows", "cols"} /\ Fits(ScreenRow, columns)
    <2>1. conf.rows \in 1..ViewSide /\ conf.cols \in 1..ViewSide
      BY <1>1, <1>3, FirstScreen DEF WantedScreen
    <2>2. /\ DOMAIN columns = {"rows", "cols"}
          /\ columns["rows"] \in 1..ScreenSide /\ columns["cols"] \in 1..ScreenSide
      BY <1>1, <2>1, LeastSides
    <2> QED BY <2>2 DEF Fits, ScreenRow
  <1>6. TypedRows(tx, serial')
    BY <1>3, <1>4, <1>5, RowTypes DEF TypedRows
  <1>7. FleetWrites(tx)
    BY <1>3, <1>4, <1>5 DEF FleetWrites
  <1>8. PcsPlan(op, tx)
    BY <1>3, <1>4, <1>7, QuietPcs, FleetKeys
  <1>9. Memory(op, then, arg)
    BY <1>1, <1>3, ScreenMemory
  <1>10. ASSUME job[w] = Idle \/ job[w].alone
         PROVE  Course(op, tx, then, arg) /\ FleetPlan(op, tx, arg)
    <2>1. /\ Own(<<>>, arg, arg.screen)
          /\ \A n \in DOMAIN arg.views : Own(<<>>, arg, arg.views[n][1])
          /\ Exists(arg.layout) =>
               \A n \in DOMAIN arg.cameras :
                 CameraFitsTeam(arg.cameras[n], db[arg.layout].team)
      BY <1>3, <1>10
    <2>2. Course(op, tx, then, arg)
      BY <1>2, <1>3, <1>4, <2>1, StillOnCourse
    <2>3. Exists(arg.screen) => MayChange(arg, db[arg.screen])
      BY <2>1 DEF Own, Present, RowIn
    <2>4. OthersSpared(op, tx, arg)
      BY <1>3, <1>4, <2>3 DEF OthersSpared, Rows, Exists
    <2> QED BY <1>4, <1>7, <2>2, <2>4 DEF FleetPlan, CamerasPlaced
  <1>11. serial' \in serial..MaxMapping
    BY <1>2, TablesAssumption DEF TablesInv, TablesTypeOK
  <1>12. op # "address.provisioned" /\ op # "site.populating"
    BY <1>1
  <1> QED BY <1>2, <1>6, <1>8, <1>9, <1>10, <1>11, <1>12, Readies

\* configure_pc_screens stamps the layout at its end.
LEMMA ConfigureStampPrepares ==
  ASSUME FleetInv, NEW w \in Worker, ConfigureStamp(w)
  PROVE  FleetPrepares(w)
  <1>1. PICK op, arg, tx :
          /\ op = "configure.stamp" /\ arg = job[w].arg
          /\ tx = Touching(arg.layout, NoWrites)
    OBVIOUS
  <1>2. /\ TablesInv /\ op \in ConfigureSteps /\ At(w, op) /\ Continues(w, tx, None, arg)
        /\ serial' = serial
    BY <1>1 DEF FleetInv, ConfigureSteps, ConfigureStamp
  <1>3. /\ job[w] # Idle /\ arg \in SetUpArg
        /\ \A n \in DOMAIN arg.todo : arg.todo[n].name \in arg.named
        /\ job[w].alone =>
             /\ \A n \in DOMAIN arg.views : Own(<<>>, arg, arg.views[n][1])
             /\ Exists(arg.layout) =>
                  \A n \in DOMAIN arg.cameras :
                    CameraFitsTeam(arg.cameras[n], db[arg.layout].team)
    BY <1>1, <1>2, Remembered
  <1>4. /\ DOMAIN tx.new = {} /\ DOMAIN tx.set = {} /\ DOMAIN tx.bulk = {}
        /\ tx.del = {} /\ tx.purge = {}
    BY <1>1, Transactions, Stamped
  <1>5. TypedRows(tx, serial') /\ FleetWrites(tx)
    BY <1>4 DEF TypedRows, FleetWrites
  <1>6. PcsPlan(op, tx)
    BY <1>4, <1>5, QuietPcs
  <1>7. FleetPlan(op, tx, arg)
    BY <1>4, <1>5 DEF FleetPlan, CamerasPlaced, OthersSpared
  <1>8. \A steps : Ahead(op, None, steps) <=> op \in steps
    BY DEF Ahead
  <1>9. Memory(op, None, arg)
    BY <1>1, <1>3, <1>8 DEF Memory
  <1>10. job[w] = Idle \/ job[w].alone => Course(op, tx, None, arg)
    <2>1. ~Ahead(op, None, {"configure.grid", "configure.views"})
      BY <1>1, <1>8
    <2> QED BY <1>3, <1>4, <2>1, StillOnCourse
  <1>11. serial' \in serial..MaxMapping
    BY <1>2, TablesAssumption DEF TablesInv, TablesTypeOK
  <1>12. op # "address.provisioned" /\ op # "site.populating"
    BY <1>1
  <1> QED BY <1>2, <1>5, <1>6, <1>7, <1>9, <1>10, <1>11, <1>12, Readies

\* The ids and rows of the views that create_views_for_screen makes on screen s.
ViewIdsFor(s, conf) == [n \in 1..conf.views |-> <<s, n>>]
ViewRowsFor(s, conf) ==
  [v \in Range(ViewIdsFor(s, conf)) |-> [screen |-> v[1], number |-> v[2],
                                     rows |-> conf.rows, cols |-> conf.cols]]

LEMMA ViewsFor ==
  ASSUME NEW s \in ScreenId, NEW conf \in WantedScreen
  PROVE  LET ids == ViewIdsFor(s, conf)
             rows == ViewRowsFor(s, conf)
         IN
         /\ ids \in Seq(ScreenId \X (1..MaxIndex))
         /\ \A n \in DOMAIN ids : ids[n][1] = s
         /\ DOMAIN rows \subseteq ViewId
         /\ \A v \in DOMAIN rows : IsRow(v, rows[v]) /\ rows[v].screen = s
  <1>1. PICK ids, rows : ids = ViewIdsFor(s, conf) /\ rows = ViewRowsFor(s, conf)
    OBVIOUS
  <1>2. /\ conf.views \in 1..MaxIndex /\ conf.rows \in 1..ViewSide /\ conf.cols \in 1..ViewSide
        /\ MaxIndex \in Nat
    BY TablesAssumption DEF WantedScreen
  <1>3. \A n \in 1..conf.views : ids[n] = <<s, n>> /\ <<s, n>> \in ScreenId \X (1..MaxIndex)
    BY <1>1, <1>2 DEF ViewIdsFor
  <1>4. ids \in Seq(ScreenId \X (1..MaxIndex)) /\ DOMAIN ids = 1..conf.views
    <2>1. ids \in [1..conf.views -> ScreenId \X (1..MaxIndex)] /\ conf.views \in Nat
      BY <1>1, <1>2, <1>3 DEF ViewIdsFor
    <2> QED BY <2>1, SeqDef
  <1>5. ASSUME NEW n \in DOMAIN ids
        PROVE  ids[n][1] = s
    <2>1. ids[n] = <<s, n>>
      BY <1>3, <1>4
    <2> QED BY <2>1
  <1>6. ASSUME NEW v \in DOMAIN rows
        PROVE  v \in ViewId /\ IsRow(v, rows[v]) /\ rows[v].screen = s
    <2>1. PICK n \in 1..conf.views : v = <<s, n>>
      BY <1>1, <1>3, <1>4 DEF Range, ViewRowsFor
    <2>2. rows[v] = [screen |-> s, number |-> n, rows |-> conf.rows, cols |-> conf.cols]
      BY <1>1, <2>1 DEF ViewRowsFor
    <2>3. v \in ViewId /\ n \in 0..MaxIndex
      BY <1>2, <2>1 DEF ViewId
    <2> QED BY <1>2, <2>2, <2>3, NewViewRow
  <1> QED BY <1>1, <1>4, <1>5, <1>6

\* What is left to do when the views of a screen are made.
ScreenDone(arg, ids) == [arg EXCEPT !.todo = Tail(@), !.views = @ \o ids]

LEMMA ViewsMade ==
  ASSUME NEW arg \in SetUpArg, arg.todo # <<>>,
         \A n \in DOMAIN arg.todo : arg.todo[n].name \in arg.named,
         arg.index + Len(arg.todo) <= MaxIndex + 2,
         NEW ids \in Seq(ScreenId \X (1..MaxIndex))
  PROVE  LET rest == ScreenDone(arg, ids) IN
         /\ rest \in SetUpArg /\ rest.layout = arg.layout /\ rest.named = arg.named
         /\ rest.cameras = arg.cameras
         /\ \A n \in DOMAIN rest.todo : rest.todo[n].name \in rest.named
         /\ rest.index + Len(rest.todo) <= MaxIndex + 1
         /\ \A n \in DOMAIN rest.views :
              \/ \E k \in DOMAIN arg.views : rest.views[n] = arg.views[k]
              \/ \E k \in DOMAIN ids : rest.views[n] = ids[k]
  <1>1. PICK todo, views, rest :
          todo = arg.todo /\ views = arg.views /\ rest = ScreenDone(arg, ids)
    OBVIOUS
  <1>2. /\ todo \in Seq(WantedScreen) /\ views \in Seq(ScreenId \X (1..MaxIndex))
        /\ arg.index \in Nat \ {0} /\ todo # <<>>
    BY <1>1 DEF SetUpArg
  <1>3. /\ rest.todo = Tail(todo) /\ rest.views = views \o ids
        /\ rest.layout = arg.layout /\ rest.named = arg.named /\ rest.cameras = arg.cameras
        /\ rest.index = arg.index
    BY <1>1 DEF SetUpArg, ScreenDone
  <1>4. PICK tail, all : tail = Tail(todo) /\ all = views \o ids
    OBVIOUS
  <1>5. /\ tail \in Seq(WantedScreen) /\ Len(todo) \in Nat /\ Len(tail) = Len(todo) - 1
        /\ \A n \in DOMAIN tail : n + 1 \in DOMAIN todo /\ tail[n] = todo[n + 1]
    BY <1>2, <1>4
  <1>6. /\ all \in Seq(ScreenId \X (1..MaxIndex))
        /\ DOMAIN all = 1..Len(views) + Len(ids)
        /\ \A n \in DOMAIN all :
             all[n] = IF n <= Len(views) THEN views[n] ELSE ids[n - Len(views)]
    BY <1>2, <1>4
  <1>7. rest \in SetUpArg
    BY <1>1, <1>4, <1>5, <1>6 DEF SetUpArg, ScreenDone
  <1>8. \A n \in DOMAIN tail : tail[n].name \in arg.named
    BY <1>1, <1>5
  <1>9. arg.index + Len(tail) <= MaxIndex + 1
    BY <1>1, <1>2, <1>5, TablesAssumption
  <1>10. ASSUME NEW n \in DOMAIN all
         PROVE  \/ \E k \in DOMAIN views : all[n] = views[k]
                \/ \E k \in DOMAIN ids : all[n] = ids[k]
    <2>1. Len(views) \in Nat /\ Len(ids) \in Nat
      BY <1>2
    <2>2. CASE n <= Len(views)
      <3>1. n \in DOMAIN views
        BY <1>2, <1>6, <2>1, <2>2
      <3> QED BY <1>6, <2>2, <3>1
    <2>3. CASE n > Len(views)
      <3>1. n - Len(views) \in DOMAIN ids
        BY <1>2, <1>6, <2>1, <2>3
      <3>2. all[n] = ids[n - Len(views)]
        BY <1>6, <2>1, <2>3
      <3> QED BY <3>1, <3>2
    <2> QED BY <1>6, <2>1, <2>2, <2>3
  <1>11. rest.todo = tail /\ rest.views = all /\ rest.index = arg.index
    BY <1>3, <1>4
  <1> QED BY <1>1, <1>3, <1>7, <1>8, <1>9, <1>10, <1>11

\* configure_pc_screens makes the views of a screen.
LEMMA ConfigureViewsPrepares ==
  ASSUME FleetInv, NEW w \in Worker, ConfigureViews(w)
  PROVE  FleetPrepares(w)
  <1>1. PICK op, arg, conf, s : op = "configure.views" /\ arg = job[w].arg /\ conf = Head(arg.todo)
                                /\ s = arg.screen
    OBVIOUS
  <1>2. PICK ids : ids = [n \in 1..conf.views |-> <<s, n>>]
    OBVIOUS
  <1>3. PICK rows : rows = [v \in Range(ids) |-> [screen |-> v[1], number |-> v[2],
                                                  rows |-> conf.rows, cols |-> conf.cols]]
    OBVIOUS
  <1>4. PICK rest, then, tx :
          /\ rest = [arg EXCEPT !.todo = Tail(@), !.views = @ \o ids]
          /\ then = IF rest.todo = <<>> THEN "configure.cameras" ELSE "configure.screen"
          /\ tx = [NoWrites EXCEPT !.new = rows]
    OBVIOUS
  <1>5. /\ TablesInv /\ op \in ConfigureSteps /\ At(w, op) /\ Continues(w, tx, then, rest)
        /\ serial' = serial /\ then \in ConfigureSteps
    BY <1>1, <1>2, <1>3, <1>4 DEF FleetInv, ConfigureSteps, ConfigureViews
  <1>6. /\ job[w] # Idle /\ arg \in SetUpArg
        /\ \A n \in DOMAIN arg.todo : arg.todo[n].name \in arg.named
        /\ arg.todo # <<>> /\ arg.index + Len(arg.todo) <= MaxIndex + 2
        /\ s \in ScreenId
        /\ job[w].alone =>
             /\ Own(<<>>, arg, s)
             /\ \A n \in DOMAIN arg.views : Own(<<>>, arg, arg.views[n][1])
             /\ Exists(arg.layout) =>
                  \A n \in DOMAIN arg.cameras :
                    CameraFitsTeam(arg.cameras[n], db[arg.layout].team)
    BY <1>1, <1>5, Remembered
  <1>7. conf \in WantedScreen
    BY <1>1, <1>6, FirstScreen
  <1>8. /\ ids \in Seq(ScreenId \X (1..MaxIndex)) /\ \A n \in DOMAIN ids : ids[n][1] = s
        /\ DOMAIN rows \subseteq ViewId
        /\ \A v \in DOMAIN rows : IsRow(v, rows[v]) /\ rows[v].screen = s
    <2>1. ids = ViewIdsFor(s, conf) /\ rows = ViewRowsFor(s, conf)
      BY <1>2, <1>3 DEF ViewIdsFor, ViewRowsFor
    <2> QED BY <1>6, <1>7, <2>1, ViewsFor
  <1>9. /\ rest \in SetUpArg /\ rest.layout = arg.layout /\ rest.named = arg.named
        /\ rest.cameras = arg.cameras
        /\ \A n \in DOMAIN rest.todo : rest.todo[n].name \in rest.named
        /\ rest.index + Len(rest.todo) <= MaxIndex + 1
        /\ \A n \in DOMAIN rest.views :
             \/ \E k \in DOMAIN arg.views : rest.views[n] = arg.views[k]
             \/ \E k \in DOMAIN ids : rest.views[n] = ids[k]
    <2>1. rest = ScreenDone(arg, ids)
      BY <1>4 DEF ScreenDone
    <2> QED BY <1>6, <1>8, <2>1, ViewsMade
  <1>10. /\ tx.new = rows /\ DOMAIN tx.set = {} /\ DOMAIN tx.bulk = {} /\ tx.del = {}
         /\ tx.purge = {}
    BY <1>4 DEF NoWrites
  <1>11. /\ DOMAIN tx.new \cap (Pc \cup Layout \cup ScreenId \cup Mapping) = {}
         /\ DOMAIN tx.new \subseteq ViewId
    BY <1>8, <1>10, FleetKeys
  <1>12. TypedRows(tx, serial')
    BY <1>8, <1>10, <1>11 DEF TypedRows
  <1>13. FleetWrites(tx)
    BY <1>10, <1>11 DEF FleetWrites, WallRows
  <1>14. PcsPlan(op, tx)
    BY <1>10, <1>11, <1>13, QuietPcs
  <1>15. \A steps : Ahead(op, then, steps) <=> then \in steps
    BY <1>5, Following
  <1>16. then \in {"configure.cameras", "configure.screen"}
    BY <1>4
  <1>17. Memory(op, then, rest)
    <2>1. ~Ahead(op, then, {"configure.grid", "configure.views"})
      BY <1>16, <1>15
    <2>2. Ahead(op, then, {"configure.screen"}) => rest.todo # <<>>
      BY <1>4, <1>15
    <2> QED BY <1>9, <2>1, <2>2 DEF Memory
  <1>18. ASSUME job[w] = Idle \/ job[w].alone
         PROVE  Course(op, tx, then, rest) /\ FleetPlan(op, tx, rest)
    <2>1. /\ Own(<<>>, arg, s)
          /\ \A n \in DOMAIN arg.views : Own(<<>>, arg, arg.views[n][1])
          /\ Exists(arg.layout) =>
               \A n \in DOMAIN arg.cameras :
                 CameraFitsTeam(arg.cameras[n], db[arg.layout].team)
      BY <1>6, <1>18
    <2>2. \A n \in DOMAIN rest.views : Own(<<>>, arg, rest.views[n][1])
      BY <1>8, <1>9, <2>1
    <2>3. ~Ahead(op, then, {"configure.grid", "configure.views"})
      BY <1>16, <1>15
    <2>4. Course(op, tx, then, rest)
      BY <1>5, <1>6, <1>9, <1>11, <2>1, <2>2, <2>3, StillOnCourse
    <2>5. Own(<<>>, rest, s)
      <3>1. "named" \in DOMAIN arg /\ "named" \in DOMAIN rest
        BY <1>6, <1>9 DEF SetUpArg
      <3> QED BY <1>6, <1>9, <2>1, <3>1, StillOwn
    <2>6. Exists(s) => MayChange(rest, db[s])
      BY <2>5 DEF Own, Present, RowIn
    <2>7. OthersSpared(op, tx, rest)
      BY <1>8, <1>10, <2>6 DEF OthersSpared
    <2> QED BY <1>11, <1>13, <2>4, <2>7 DEF FleetPlan, CamerasPlaced
  <1>19. serial' \in serial..MaxMapping
    BY <1>5, TablesAssumption DEF TablesInv, TablesTypeOK
  <1>20. op # "address.provisioned" /\ op # "site.populating"
    BY <1>1
  <1> QED BY <1>5, <1>12, <1>14, <1>17, <1>18, <1>19, <1>20, Readies

\* The columns of a new mapping.
LEMMA MappingFields ==
  ASSUME NEW m \in Mapping, NEW s \in ScreenId, NEW v \in ViewId, NEW slot \in Slot,
         NEW d \in OrNone(Device), NEW c \in OrNone(Camera), NEW row,
         row = [screen |-> s, view |-> v, slot |-> slot, device |-> d, camera |-> c]
  PROVE  IsRow(m, row)
  <1>1. IsFunction(row)
    BY DEF IsFunction
  <1>2. /\ DOMAIN row = {"screen", "view", "slot", "device", "camera"}
        /\ row["screen"] = s /\ row["view"] = v /\ row["slot"] = slot
        /\ row["device"] = d /\ row["camera"] = c
    OBVIOUS
  <1>3. /\ DOMAIN MappingRow = {"screen", "view", "slot", "device", "camera"}
        /\ MappingRow["screen"] = ScreenId /\ MappingRow["view"] = ViewId
        /\ MappingRow["slot"] = Slot
        /\ MappingRow["device"] = OrNone(Device) /\ MappingRow["camera"] = OrNone(Camera)
    BY DEF MappingRow
  <1>4. RowType(m) = MappingRow
    BY RowTypes
  <1> QED BY <1>1, <1>2, <1>3, <1>4 DEF IsRow, Fits

\* Mappings with ids that the sequence gives.
LEMMA DrawnRows ==
  ASSUME TablesInv, NEW S, NEW rows \in Seq(S), serial + Len(rows) <= MaxMapping,
         \A n \in 1..Len(rows) : \A m \in Mapping : IsRow(m, rows[n])
  PROVE  LET new == InsertingMappings(rows) IN
         /\ DOMAIN new \subseteq Mapping /\ serial + Len(rows) \in serial..MaxMapping
         /\ \A m \in DOMAIN new :
              /\ IsRow(m, new[m]) /\ m[1] \in 1..(serial + Len(rows))
              /\ \E n \in 1..Len(rows) : new[m] = rows[n]
  <1>1. serial \in Nat /\ MaxMapping \in Nat
    BY TablesAssumption DEF TablesInv, TablesTypeOK
  <1>2. PICK new : new = InsertingMappings(rows)
    OBVIOUS
  <1>3. /\ DOMAIN new = {<<n>> : n \in serial + 1 .. serial + Len(rows)}
        /\ \A m \in DOMAIN new :
             m[1] - serial \in 1..Len(rows) /\ new[m] = rows[m[1] - serial]
    BY <1>1, <1>2, Drawn
  <1>4. Len(rows) \in Nat
    BY LenProperties
  <1>5. ASSUME NEW m \in DOMAIN new
        PROVE  /\ m \in Mapping /\ IsRow(m, new[m]) /\ m[1] \in 1..(serial + Len(rows))
               /\ \E n \in 1..Len(rows) : new[m] = rows[n]
    <2>1. PICK k \in serial + 1 .. serial + Len(rows) : m = <<k>>
      BY <1>3
    <2>2. k \in 1..MaxMapping /\ m[1] = k /\ k \in 1..(serial + Len(rows))
      BY <1>1, <1>4, <2>1
    <2>3. m \in Mapping
      BY <2>1, <2>2 DEF Mapping
    <2>4. k - serial \in 1..Len(rows) /\ new[m] = rows[k - serial]
      BY <1>3, <2>2
    <2> QED BY <2>2, <2>3, <2>4
  <1> QED BY <1>1, <1>2, <1>4, <1>5

\* The values of a function on an interval are a sequence.
LEMMA AsSequence ==
  ASSUME NEW k \in Nat, NEW f, IsFunction(f), DOMAIN f = 1..k
  PROVE  Len(f) = k /\ \E S : f \in Seq(S)
  <1>1. PICK S : S = {f[n] : n \in 1..k}
    OBVIOUS
  <1>2. f \in [1..k -> S]
    BY <1>1 DEF IsFunction
  <1>3. f \in Seq(S)
    BY <1>2, SeqDef
  <1> QED BY <1>1, <1>2, <1>3, LenProperties

\* The slots of some views are finitely many.
LEMMA PlacesFinite ==
  ASSUME NEW S, NEW views \in Seq(S)
  PROVE  IsFiniteSet(Places(views)) /\ Places(views) \subseteq (DOMAIN views) \X Slot
  <1>1. DOMAIN views = 1..Len(views) /\ Len(views) \in Nat
    OBVIOUS
  <1>2. IsFiniteSet(1..Len(views)) /\ IsFiniteSet(1..ViewSide)
    BY <1>1, FS_Interval, TablesAssumption
  <1>3. IsFiniteSet(Slot)
    BY <1>2, FS_Product DEF Slot, Grid
  <1>4. IsFiniteSet((DOMAIN views) \X Slot)
    BY <1>1, <1>2, <1>3, FS_Product
  <1>5. Places(views) \subseteq (DOMAIN views) \X Slot
    BY DEF Places
  <1> QED BY <1>4, <1>5, FS_Subset

\* The device of a camera that is there.
LEMMA CameraRows ==
  ASSUME TablesInv, NEW c \in Camera, Exists(c)
  PROVE  db[c].device \in Device /\ Exists(db[c].device)
  <1>1. IsRow(c, db[c]) /\ RowType(c) = CameraRow
    BY RowTypes DEF TablesInv, TablesTypeOK, Exists
  <1>2. "device" \in DOMAIN CameraRow /\ CameraRow["device"] = Device
    BY DEF CameraRow
  <1>3. db[c].device \in Device
    BY <1>1, <1>2 DEF IsRow, Fits
  <1>4. References(c) = [device |-> "remove"]
    BY ReferencesOf
  <1>5. ~Dangles(db, c) /\ "device" \in DOMAIN References(c)
    BY <1>4 DEF TablesInv, TablesTypeOK, ForeignKeysHold, Exists
  <1>6. db[c].device # None
    BY <1>3, TablesAssumption
  <1> QED BY <1>3, <1>5, <1>6 DEF Dangles, Exists

\* The mappings that configure_pc_screens makes: the camera of a row is one that the
\* request asked for, its screen one that the request has gone over.
Turn(places, place) == Cardinality({p \in places : Earlier(p, place)}) + 1
Filled(arg) ==
  LET places == Places(arg.views) IN
  {p \in places :
     Turn(places, p) \in DOMAIN arg.cameras /\ Exists(arg.cameras[Turn(places, p)])}
DealtRows(arg) ==
  LET order == SetToSeq(Filled(arg)) IN
  [k \in DOMAIN order |->
     LET v == arg.views[order[k][1]]
         c == arg.cameras[Turn(Places(arg.views), order[k])]
     IN [screen |-> v[1], view |-> v, slot |-> order[k][2],
         device |-> db[c].device, camera |-> c]]

LEMMA CamerasDealt ==
  ASSUME TablesInv, NEW arg \in SetUpArg
  PROVE  LET rows == DealtRows(arg) IN
         /\ \E S : rows \in Seq(S)
         /\ \A n \in 1..Len(rows) :
              /\ \A m \in Mapping : IsRow(m, rows[n])
              /\ \E k \in DOMAIN arg.views : rows[n].screen = arg.views[k][1]
              /\ \E k \in DOMAIN arg.cameras : rows[n].camera = arg.cameras[k]
  <1>1. PICK places, filled, order, rows :
          /\ places = Places(arg.views) /\ filled = Filled(arg)
          /\ order = SetToSeq(filled) /\ rows = DealtRows(arg)
    OBVIOUS
  <1>2. /\ arg.views \in Seq(ScreenId \X (1..MaxIndex)) /\ arg.cameras \in Seq(Camera)
    BY DEF SetUpArg
  <1>3. PICK views, cameras : views = arg.views /\ cameras = arg.cameras
    OBVIOUS
  <1>4. IsFiniteSet(filled) /\ filled \subseteq (DOMAIN views) \X Slot
    <2>1. IsFiniteSet(places) /\ places \subseteq (DOMAIN views) \X Slot
      BY <1>1, <1>2, <1>3, PlacesFinite
    <2>2. filled \subseteq places
      BY <1>1 DEF Filled
    <2> QED BY <2>1, <2>2, FS_Subset
  <1>5. PICK size \in Nat : DOMAIN order = 1..size /\ \A k \in 1..size : order[k] \in filled
    <2>1. /\ Cardinality(filled) \in Nat /\ order \in [1..Cardinality(filled) -> filled]
          /\ DOMAIN order = 1..Cardinality(filled)
      BY <1>1, <1>4, InSomeOrder
    <2> QED BY <2>1
  <1>6. IsFunction(rows) /\ DOMAIN rows = 1..size
    BY <1>1, <1>5 DEF IsFunction, DealtRows
  <1>7. Len(rows) = size /\ \E S : rows \in Seq(S)
    BY <1>6, AsSequence
  <1>8. ASSUME NEW n \in 1..size
        PROVE  /\ \A m \in Mapping : IsRow(m, rows[n])
               /\ \E k \in DOMAIN views : rows[n].screen = views[k][1]
               /\ \E k \in DOMAIN cameras : rows[n].camera = cameras[k]
    <2>1. PICK place : place = order[n]
      OBVIOUS
    <2>2. place \in filled /\ place[1] \in DOMAIN views /\ place[2] \in Slot
      BY <1>4, <1>5, <2>1
    <2>3. PICK v, c : v = views[place[1]] /\ c = cameras[Turn(places, place)]
      OBVIOUS
    <2>4. rows[n] = [screen |-> v[1], view |-> v, slot |-> place[2],
                     device |-> db[c].device, camera |-> c]
      BY <1>1, <1>3, <1>5, <2>1, <2>3 DEF DealtRows
    <2>5. v \in ViewId /\ v[1] \in ScreenId
      <3>1. v \in ScreenId \X (1..MaxIndex)
        BY <1>2, <1>3, <2>2, <2>3
      <3> QED BY <3>1, TablesAssumption DEF ViewId
    <2>6. Turn(places, place) \in DOMAIN cameras /\ Exists(c)
      BY <1>1, <1>3, <2>2, <2>3 DEF Filled
    <2>7. c \in Camera /\ db[c].device \in Device
      <3>1. c \in Camera
        BY <1>2, <1>3, <2>3, <2>6
      <3> QED BY <2>6, <3>1, CameraRows
    <2>10. PICK row, s, slot, d : row = rows[n] /\ s = v[1] /\ slot = place[2] /\ d = db[c].device
      OBVIOUS
    <2>11. /\ row = [screen |-> s, view |-> v, slot |-> slot, device |-> d, camera |-> c]
           /\ s \in ScreenId /\ slot \in Slot /\ d \in OrNone(Device) /\ c \in OrNone(Camera)
      BY <2>2, <2>4, <2>5, <2>7, <2>10 DEF OrNone
    <2>8. \A m \in Mapping : IsRow(m, rows[n])
      <3> TAKE m \in Mapping
      <3>1. IsRow(m, row)
        BY <2>5, <2>11, MappingFields
      <3> QED BY <2>10, <3>1
    <2>9. rows[n].screen = v[1] /\ rows[n].camera = c
      BY <2>10, <2>11
    <2> QED BY <2>2, <2>3, <2>6, <2>8, <2>9
  <1> QED BY <1>1, <1>3, <1>7, <1>8

\* distribute_cameras_and_create_mappings.
LEMMA ConfigureCamerasPrepares ==
  ASSUME FleetInv, NEW w \in Worker, ConfigureCameras(w)
  PROVE  FleetPrepares(w) \/ Answers(w)
  <1> DEFINE asked == job[w].arg
             dealt == [NoWrites EXCEPT !.new = InsertingMappings(DealtRows(asked))]
  <1>1. /\ At(w, "configure.cameras")
        /\ \/ Answers(w)
           \/ ContinuesDrawing(w, Touching(asked.layout, dealt), None, asked)
           \/ ContinuesDrawing(w, dealt, "configure.stamp", asked)
    BY DEF ConfigureCameras, DealtRows, Filled, Turn
  <1> HIDE DEF dealt
  <1>2. PICK arg, rows, made, op :
          /\ arg = asked /\ rows = DealtRows(arg) /\ made = dealt /\ op = "configure.cameras"
    OBVIOUS
  <1>3. /\ DOMAIN made = Fields /\ made.new = InsertingMappings(rows)
        /\ DOMAIN made.set = {} /\ DOMAIN made.bulk = {} /\ made.del = {} /\ made.purge = {}
    BY <1>2 DEF dealt, NoWrites, Fields
  <1> HIDE DEF asked
  <1> SUFFICES ASSUME NEW tx, NEW then,
                      \/ tx = Touching(arg.layout, made) /\ then = None
                      \/ tx = made /\ then = "configure.stamp",
                      ContinuesDrawing(w, tx, then, arg)
               PROVE  FleetPrepares(w)
    BY <1>1, <1>2
  <1>4. /\ tx.new = InsertingMappings(rows) /\ DOMAIN tx.set = {} /\ DOMAIN tx.bulk = {}
        /\ tx.del = {} /\ tx.purge = {}
    BY <1>3, Stamped
  <1>5. /\ TablesInv /\ op \in ConfigureSteps /\ At(w, op)
        /\ then = None \/ then \in ConfigureSteps
    BY <1>1, <1>2 DEF FleetInv, ConfigureSteps
  <1>6. /\ job[w] # Idle /\ arg \in SetUpArg
        /\ \A n \in DOMAIN arg.todo : arg.todo[n].name \in arg.named
        /\ job[w].alone =>
             /\ \A n \in DOMAIN arg.views : Own(<<>>, arg, arg.views[n][1])
             /\ Exists(arg.layout) =>
                  \A n \in DOMAIN arg.cameras :
                    CameraFitsTeam(arg.cameras[n], db[arg.layout].team)
    BY <1>2, <1>5, Remembered DEF asked
  <1>7. /\ \E S : rows \in Seq(S)
        /\ \A n \in 1..Len(rows) :
             /\ \A m \in Mapping : IsRow(m, rows[n])
             /\ \E k \in DOMAIN arg.views : rows[n].screen = arg.views[k][1]
             /\ \E k \in DOMAIN arg.cameras : rows[n].camera = arg.cameras[k]
    BY <1>2, <1>5, <1>6, CamerasDealt
  <1>8. PICK S : rows \in Seq(S)
    BY <1>7
  <1>9. /\ Continues(w, tx, then, arg)
        /\ serial' = serial + Len(rows) /\ serial + Len(rows) <= MaxMapping
    <2>1. serial \in Nat
      BY <1>5 DEF TablesInv, TablesTypeOK
    <2>2. Cardinality(DOMAIN tx.new) = Len(rows)
      BY <1>4, <1>8, <2>1, Drawn
    <2> QED BY <2>2 DEF ContinuesDrawing
  <1>10. /\ DOMAIN tx.new \subseteq Mapping /\ serial' \in serial..MaxMapping
         /\ \A m \in DOMAIN tx.new :
              /\ IsRow(m, tx.new[m]) /\ m[1] \in 1..serial'
              /\ \E k \in DOMAIN arg.views : tx.new[m].screen = arg.views[k][1]
              /\ \E k \in DOMAIN arg.cameras : tx.new[m].camera = arg.cameras[k]
    <2>1. PICK new : new = InsertingMappings(rows)
      OBVIOUS
    <2>2. /\ DOMAIN new \subseteq Mapping /\ serial + Len(rows) \in serial..MaxMapping
          /\ \A m \in DOMAIN new :
               /\ IsRow(m, new[m]) /\ m[1] \in 1..(serial + Len(rows))
               /\ \E n \in 1..Len(rows) : new[m] = rows[n]
      BY <1>5, <1>7, <1>8, <1>9, <2>1, DrawnRows
    <2> QED BY <1>4, <1>7, <1>9, <2>1, <2>2
  <1>11. TypedRows(tx, serial')
    BY <1>4, <1>10 DEF TypedRows
  <1>12. FleetWrites(tx)
    BY <1>4, <1>10 DEF FleetWrites, WallRows
  <1>13. DOMAIN tx.new \cap (Pc \cup Layout \cup ScreenId \cup ViewId) = {}
    BY <1>10, FleetKeys
  <1>14. PcsPlan(op, tx)
    BY <1>4, <1>12, <1>13, QuietPcs
  <1>15. \A steps \in SUBSET {"configure.screen", "configure.grid", "configure.views"} :
           ~Ahead(op, then, steps)
    BY <1>2, FleetAssumption DEF Ahead, ConfigureSteps
  <1>16. Memory(op, then, arg)
    BY <1>6, <1>15 DEF Memory
  <1>17. ASSUME job[w] = Idle \/ job[w].alone
         PROVE  Course(op, tx, then, arg) /\ FleetPlan(op, tx, arg)
    <2>1. /\ \A n \in DOMAIN arg.views : Own(<<>>, arg, arg.views[n][1])
          /\ Exists(arg.layout) =>
               \A n \in DOMAIN arg.cameras :
                 CameraFitsTeam(arg.cameras[n], db[arg.layout].team)
      BY <1>6, <1>17
    <2>2. Course(op, tx, then, arg)
      BY <1>5, <1>6, <1>13, <1>15, <2>1, StillOnCourse
    <2>3. ASSUME NEW m \in DOMAIN tx.new, Exists(tx.new[m].screen)
          PROVE  MayChange(arg, db[tx.new[m].screen])
      BY <1>10, <2>1, <2>3 DEF Own, Present, RowIn
    <2>4. OthersSpared(op, tx, arg)
      BY <1>4, <2>3 DEF OthersSpared
    <2>5. ASSUME NEW m \in DOMAIN tx.new \cap Mapping,
                 Present(tx.new, tx.new[m].screen),
                 Present(tx.new, RowIn(tx.new, tx.new[m].screen).layout)
          PROVE  CameraFitsTeam(tx.new[m].camera,
                   RowIn(tx.new, RowIn(tx.new, tx.new[m].screen).layout).team)
      <3>1. PICK s, l : s = tx.new[m].screen /\ l = RowIn(tx.new, s).layout
        OBVIOUS
      <3>2. s \in ScreenId
        <4>1. PICK k \in DOMAIN arg.views : s = arg.views[k][1]
          BY <1>10, <3>1
        <4>2. arg.views \in Seq(ScreenId \X (1..MaxIndex))
          BY <1>6 DEF SetUpArg
        <4>3. arg.views[k] \in ScreenId \X (1..MaxIndex)
          BY <4>2
        <4> QED BY <4>1, <4>3
      <3>3. s \notin DOMAIN tx.new /\ Exists(s) /\ l = db[s].layout
        BY <1>13, <2>5, <3>1, <3>2 DEF Present, RowIn
      <3>4. l = arg.layout /\ l \in Layout
        BY <1>6, <2>3, <3>1, <3>3 DEF MayChange, SetUpArg
      <3>5. Exists(l) /\ RowIn(tx.new, l) = db[l]
        BY <1>13, <2>5, <3>1, <3>4 DEF Present, RowIn
      <3> QED BY <1>10, <2>1, <3>1, <3>4, <3>5
    <2>6. CamerasPlaced(tx)
      BY <2>5 DEF CamerasPlaced
    <2> QED BY <1>12, <2>2, <2>4, <2>6 DEF FleetPlan
  <1>18. op # "address.provisioned" /\ op # "site.populating"
    BY <1>2
  <1> QED BY <1>5, <1>9, <1>10, <1>11, <1>14, <1>16, <1>17, <1>18, Readies

-----------------------------------------------------------------------------
(* import_config_for_pc *)

\* A screen of a configuration that the importer can read.
ReadableScreen(conf) ==
  /\ conf.id \in ScreenId /\ conf.name \in Name
  /\ Len(conf.tiles) \in Nat /\ IsFiniteSet(DOMAIN conf.tiles)
  /\ \A n \in DOMAIN conf.tiles :
       /\ IsFiniteSet(DOMAIN conf.tiles[n])
       /\ \A i \in DOMAIN conf.tiles[n] : conf.tiles[n][i].number \in Nat
Readable(body) ==
  IsFiniteSet(DOMAIN body) /\ \A k \in DOMAIN body : ReadableScreen(body[k])

\* The places in a sequence are finitely many.
LEMMA FinitelyMany ==
  ASSUME NEW S, NEW s \in Seq(S)
  PROVE  IsFiniteSet(DOMAIN s) /\ Len(s) \in Nat
  <1>1. DOMAIN s = 1..Len(s) /\ Len(s) \in Nat
    OBVIOUS
  <1>2. IsFiniteSet(1..Len(s))
    BY <1>1, FS_Interval
  <1> QED BY <1>1, <1>2

\* What a PC is sent has so many tiles, and sources by number.
LEMMA GeneratedTiles ==
  ASSUME Ordered, NEW p, NEW s \in WallScreens(p)
  PROVE  LET conf == GeneratedScreen(s) IN
         /\ conf.name \in Name
         /\ \E N \in Nat : DOMAIN conf.tiles = 1..N
         /\ \A n \in DOMAIN conf.tiles :
              /\ IsFiniteSet(DOMAIN conf.tiles[n])
              /\ \A i \in DOMAIN conf.tiles[n] : conf.tiles[n][i].number \in Nat
  <1>1. PICK views, slots, conf :
          /\ views = SetToSeq(ShownViews(s)) /\ slots = RowMajor(db[s].rows, db[s].cols)
          /\ conf = GeneratedScreen(s)
    OBVIOUS
  <1>2. PICK M \in Nat : DOMAIN views = 1..M
    <2>1. IsFiniteSet(ShownViews(s))
      BY ShownViewsFinite
    <2> QED BY <1>1, <2>1, InSomeOrder
  <1>3. /\ conf.name = db[s].name /\ DOMAIN conf.tiles = DOMAIN slots
        /\ \A n \in DOMAIN slots :
             /\ DOMAIN conf.tiles[n] = DOMAIN views
             /\ \A i \in DOMAIN views : conf.tiles[n][i] = Source(views[i], i - 1, slots[n])
    BY <1>1 DEF GeneratedScreen
  <1>4. IsRow(s, db[s]) /\ RowType(s) = ScreenRow
    BY RowTypes DEF Ordered, Rows, WallScreens, ScreensOf
  <1>5. \A c \in DOMAIN ScreenRow : db[s][c] \in ScreenRow[c]
    BY <1>4 DEF IsRow, Fits
  <1>6. db[s].name \in Name /\ db[s].rows \in 1..ScreenSide /\ db[s].cols \in 1..ScreenSide
    BY <1>5 DEF ScreenRow
  <1>7. \E N \in Nat : DOMAIN slots = 1..N
    <2>1. PICK rows \in Nat, cols \in Nat \ {0} : rows = db[s].rows /\ cols = db[s].cols
      BY <1>6, TablesAssumption
    <2>2. slots = RowMajor(rows, cols) /\ rows * cols \in Nat
      BY <1>1, <2>1
    <2>3. DOMAIN slots = 1..rows * cols
      BY <2>2, RowMajorSlots
    <2> QED BY <2>2, <2>3
  <1>8. IsFiniteSet(DOMAIN views)
    BY <1>2, FS_Interval
  <1>9. \A v, number, slot : Source(v, number, slot).number = number
    BY DEF Source
  <1>10. \A n \in DOMAIN slots : \A i \in DOMAIN views : conf.tiles[n][i].number \in Nat
    <2>1. \A i \in DOMAIN views : i - 1 \in Nat
      BY <1>2
    <2> QED BY <1>3, <1>9, <2>1
  <1> QED BY <1>1, <1>3, <1>6, <1>7, <1>8, <1>10

\* The configuration that a PC is sent can be read.
LEMMA ExportsReadable ==
  ASSUME Ordered, NEW p \in Rows(Pc), NEW body \in Exports(p)
  PROVE  Readable(body)
  <1>1. PICK config, S, screens :
          /\ config = GeneratedConfig(p) /\ S = {s \in WallScreens(p) : ShownViews(s) # {}}
          /\ screens = SetToSeq(S)
    OBVIOUS
  <1>2. /\ IsFiniteSet(DOMAIN screens) /\ \A k \in DOMAIN screens : screens[k] \in WallScreens(p)
    <2>1. IsFiniteSet(S)
      BY <1>1, ShownViewsFinite
    <2>2. PICK n \in Nat : DOMAIN screens = 1..n /\ \A k \in 1..n : screens[k] \in S
      <3>1. /\ Cardinality(S) \in Nat /\ screens \in [1..Cardinality(S) -> S]
            /\ DOMAIN screens = 1..Cardinality(S)
        BY <1>1, <2>1, InSomeOrder
      <3> QED BY <3>1
    <2>3. IsFiniteSet(1..n)
      BY FS_Interval
    <2> QED BY <1>1, <2>2, <2>3
  <1>3. DOMAIN config = DOMAIN screens /\ \A k \in DOMAIN config : config[k] = GeneratedScreen(screens[k])
    BY <1>1 DEF GeneratedConfig
  <1>4. PICK ids \in {f \in [DOMAIN config -> Screen] : IsInjective(f)} :
          body = [k \in DOMAIN config |->
                    [id |-> ids[k], name |-> config[k].name,
                     tiles |-> [n \in DOMAIN config[k].tiles |->
                                  [i \in DOMAIN config[k].tiles[n] |->
                                     LET source == config[k].tiles[n][i] IN
                                     [number |-> source.number, view |-> source.view,
                                      camera |-> source.camera, device |-> source.site]]]]]
    BY <1>1 DEF Exports
  <1>5. DOMAIN body = DOMAIN config
    BY <1>4
  <1>6. ASSUME NEW k \in DOMAIN body
        PROVE  ReadableScreen(body[k])
    <2>1. PICK conf, tiles : conf = config[k] /\ tiles = body[k].tiles
      OBVIOUS
    <2>2. /\ body[k].id \in Screen /\ body[k].name = conf.name
          /\ tiles = [n \in DOMAIN conf.tiles |->
                        [i \in DOMAIN conf.tiles[n] |->
                           LET source == conf.tiles[n][i] IN
                           [number |-> source.number, view |-> source.view,
                            camera |-> source.camera, device |-> source.site]]]
      BY <1>4, <1>5, <2>1
    <2>3. PICK s : s = screens[k]
      OBVIOUS
    <2>4. s \in WallScreens(p) /\ conf = GeneratedScreen(s)
      BY <1>2, <1>3, <1>5, <2>1, <2>3
    <2>5. /\ conf.name \in Name
          /\ \E N \in Nat : DOMAIN conf.tiles = 1..N
          /\ \A n \in DOMAIN conf.tiles :
               /\ IsFiniteSet(DOMAIN conf.tiles[n])
               /\ \A i \in DOMAIN conf.tiles[n] : conf.tiles[n][i].number \in Nat
      BY <2>4, GeneratedTiles
    <2>6. DOMAIN tiles = DOMAIN conf.tiles /\ IsFunction(tiles)
      BY <2>2 DEF IsFunction
    <2>7. IsFiniteSet(DOMAIN tiles) /\ Len(tiles) \in Nat
      <3>1. PICK N \in Nat : DOMAIN tiles = 1..N
        BY <2>5, <2>6
      <3>2. Len(tiles) = N /\ IsFiniteSet(1..N)
        BY <2>6, <3>1, AsSequence, FS_Interval
      <3> QED BY <3>1, <3>2
    <2>8. \A n \in DOMAIN tiles :
            /\ IsFiniteSet(DOMAIN tiles[n])
            /\ \A i \in DOMAIN tiles[n] : tiles[n][i].number \in Nat
      BY <2>2, <2>5
    <2>9. body[k].id \in ScreenId
      BY <2>2 DEF ScreenId
    <2> QED BY <2>1, <2>2, <2>5, <2>7, <2>8, <2>9 DEF ReadableScreen
  <1> QED BY <1>2, <1>3, <1>5, <1>6 DEF Readable

\* So can a configuration of some other origin.
LEMMA BodiesReadable ==
  ASSUME Ordered, NEW body \in ImportBody \cup UNION {Exports(q) : q \in Rows(Pc)}
  PROVE  Readable(body)
  <1>1. CASE body \in ImportBody
    <2>1. body \in Seq(ConfigScreen)
      BY <1>1, FleetBodies
    <2>2. ASSUME NEW k \in DOMAIN body
          PROVE  ReadableScreen(body[k])
      <3>1. PICK conf, tiles : conf = body[k] /\ tiles = conf.tiles
        OBVIOUS
      <3>2. conf \in ConfigScreen
        BY <2>1, <3>1
      <3>3. conf.id \in ScreenId /\ conf.name \in Name /\ tiles \in Seq(Seq(TileSource))
        BY <3>1, <3>2 DEF ConfigScreen
      <3>4. IsFiniteSet(DOMAIN tiles) /\ Len(tiles) \in Nat
        BY <3>3, FinitelyMany
      <3>5. ASSUME NEW n \in DOMAIN tiles
            PROVE  /\ IsFiniteSet(DOMAIN tiles[n])
                   /\ \A i \in DOMAIN tiles[n] : tiles[n][i].number \in Nat
        <4>1. PICK tile : tile = tiles[n]
          OBVIOUS
        <4>2. tile \in Seq(TileSource)
          BY <3>3, <4>1
        <4>3. IsFiniteSet(DOMAIN tile)
          BY <4>2, FinitelyMany
        <4>4. \A i \in DOMAIN tile : tile[i] \in TileSource
          BY <4>2
        <4> QED BY <4>1, <4>3, <4>4 DEF TileSource
      <3> QED BY <3>1, <3>3, <3>4, <3>5 DEF ReadableScreen
    <2>3. IsFiniteSet(DOMAIN body)
      BY <2>1, FinitelyMany
    <2> QED BY <2>2, <2>3 DEF Readable
  <1>2. CASE body \in UNION {Exports(q) : q \in Rows(Pc)}
    BY <1>2, ExportsReadable
  <1> QED BY <1>1, <1>2

\* A wall that is made anew in one transaction: screens of the layout of p alone, their
\* views, and mappings of cameras that fit its team.
WallMade(p, new) ==
  /\ DOMAIN new \subseteq WallRows
  /\ \A i \in DOMAIN new : IsRow(i, new[i])
  /\ \A s \in DOMAIN new \cap ScreenId : new[s].layout = LayoutFor(p)
  /\ \A i \in DOMAIN new \cap (ViewId \cup Mapping) : new[i].screen \in DOMAIN new \cap ScreenId
  /\ \A m \in DOMAIN new \cap Mapping :
       new[m].camera # None => CameraFitsTeam(new[m].camera, TeamFor(p))

Remade(p, new) ==
  Adopting(p, Touching(LayoutFor(p), [NoWrites EXCEPT !.purge = Clearing(p), !.new = new]))

LEMMA MadeAnew ==
  ASSUME TablesInv, NEW w \in Worker, NEW p \in Rows(Pc), NEW new, NEW op, NEW arg,
         AcceptedThen(w, op, Remade(p, new), None, arg),
         op \in {"config.imported", "layout.copied"},
         arg.layout = LayoutFor(p), "named" \notin DOMAIN arg,
         serial' \in serial..MaxMapping,
         WallMade(p, new), \A m \in DOMAIN new \cap Mapping : m[1] \in 1..serial'
  PROVE  FleetPrepares(w)
  <1>1. PICK l, cleared, tx, a :
          /\ l = LayoutFor(p) /\ cleared = [NoWrites EXCEPT !.purge = Clearing(p), !.new = new]
          /\ tx = Touching(l, cleared) /\ a = Adopting(p, tx)
    OBVIOUS
  <1>2. tx = Touching(l, cleared) /\ l = LayoutFor(p) /\ a = Adopting(p, tx)
    BY <1>1
  <1>3. /\ DOMAIN cleared = Fields /\ cleared.new = new /\ cleared.purge = ScreensOf(l)
        /\ DOMAIN cleared.set = {} /\ DOMAIN cleared.bulk = {} /\ cleared.del = {}
    BY <1>1 DEF NoWrites, Fields, Clearing
  <1>4. /\ DOMAIN tx = Fields /\ tx.new = new /\ tx.purge = ScreensOf(l)
        /\ DOMAIN tx.set = {} /\ DOMAIN tx.bulk = {} /\ tx.del = {}
    BY <1>2, <1>3, Stamped
  <1>5. /\ DOMAIN new \subseteq ScreenId \cup ViewId \cup Mapping
        /\ DOMAIN tx.new \cap (Pc \cup Layout) = {}
    BY <1>4, FleetKeys DEF WallMade, WallRows
  <1>6. \A s \in ScreensOf(l) : s \in ScreenId /\ Exists(s) /\ db[s].layout = l
    BY DEF ScreensOf, Rows, Exists
  <1>7. TypedRows(tx, serial')
    BY <1>4 DEF TypedRows, WallMade
  <1>8. FleetWrites(tx)
    BY <1>4, <1>6 DEF FleetWrites, WallMade
  <1>9. OthersSpared(op, tx, arg)
    <2>1. \A s \in (DOMAIN tx.set \cup tx.purge) \cap Rows(ScreenId) : MayChange(arg, db[s])
      BY <1>1, <1>4, <1>6 DEF MayChange
    <2>2. tx.purge \cap Rows(ViewId) = {}
      BY <1>4, <1>6, FleetKeys DEF Rows
    <2>3. \A i \in DOMAIN tx.new \cap (ViewId \cup Mapping) : tx.new[i].screen \in DOMAIN tx.new
      BY <1>4 DEF WallMade
    <2> QED BY <1>4, <2>1, <2>2, <2>3 DEF OthersSpared
  <1>10. /\ TypedRows(a, serial') /\ PcsPlan(op, a) /\ FleetWrites(a) /\ OthersSpared(op, a, arg)
    BY <1>1, <1>4, <1>5, <1>7, <1>8, <1>9, AdoptingKeeps
  <1>11. /\ Extends(a.new, new) /\ DOMAIN a.new \subseteq DOMAIN new \cup {l} /\ l \in Layout
         /\ RowIn(a.new, l).team = TeamFor(p)
    <2>1. DOMAIN tx.new \cap Layout = {}
      BY <1>5
    <2>2. DOMAIN tx = Fields /\ DOMAIN tx.bulk = {} /\ tx.new = new
      BY <1>4
    <2>3. /\ Extends(a.new, tx.new) /\ DOMAIN a.new \subseteq DOMAIN tx.new \cup {l}
          /\ l \in Layout /\ RowIn(a.new, l).team = TeamFor(p)
      BY <1>2, <2>1, <2>2, Adopts
    <2> QED BY <2>2, <2>3
  <1>12. CamerasPlaced(a)
    <2>1. ASSUME NEW m \in DOMAIN a.new \cap Mapping, a.new[m].camera # None
          PROVE  CameraFitsTeam(a.new[m].camera,
                   RowIn(a.new, RowIn(a.new, a.new[m].screen).layout).team)
      <3>1. PICK s : s = a.new[m].screen
        OBVIOUS
      <3>2. m \in DOMAIN new /\ a.new[m] = new[m]
        BY <1>11, FleetKeys DEF Extends
      <3>3. s \in DOMAIN new \cap ScreenId
        BY <3>1, <3>2 DEF WallMade
      <3>4. s \in DOMAIN a.new /\ a.new[s].layout = l
        BY <1>1, <1>11, <3>3 DEF Extends, WallMade
      <3>5. RowIn(a.new, s).layout = l
        BY <3>4 DEF RowIn
      <3> QED BY <1>11, <2>1, <3>1, <3>2, <3>5 DEF WallMade
    <2> QED BY <2>1 DEF CamerasPlaced
  <1>13. AcceptedThen(w, op, a, None, arg)
    BY <1>1 DEF Remade
  <1>14. ~Ahead(op, None, ConfigureSteps) /\ op # "address.provisioned" /\ op # "site.populating"
    BY DEF Ahead, ConfigureSteps
  <1>15. Memory(op, None, arg) /\ Course(op, a, None, arg)
    BY <1>14 DEF Memory, Course
  <1> QED BY <1>10, <1>12, <1>13, <1>14, <1>15, Readies DEF FleetPlan

\* Finitely many lists of finite length have finitely many places.
LEMMA FinitePairs ==
  ASSUME NEW S, IsFiniteSet(S), NEW f, DOMAIN f = S, \A x \in S : IsFiniteSet(f[x])
  PROVE  IsFiniteSet(UNION {{x} \X f[x] : x \in S})
  <1>1. PICK g, T : g = [x \in S |-> {x} \X f[x]] /\ T = {{x} \X f[x] : x \in S}
    OBVIOUS
  <1>2. IsFiniteSet(T)
    <2>1. DOMAIN g = S /\ \A U \in T : \E x \in S : g[x] = U
      BY <1>1
    <2> QED BY <2>1, FiniteImage
  <1>3. ASSUME NEW U \in T
        PROVE  IsFiniteSet(U)
    <2>1. PICK x \in S : U = {x} \X f[x]
      BY <1>1
    <2>2. IsFiniteSet({x})
      BY FS_Singleton
    <2> QED BY <2>1, <2>2, FS_Product
  <1> QED BY <1>1, <1>2, <1>3, FS_UNION

\* The sources that become mappings are finitely many.
LEMMA PlacedFinite ==
  ASSUME NEW body, Readable(body), NEW t
  PROVE  IsFiniteSet(Placed(body, t))
  <1>1. ASSUME NEW k \in DOMAIN body
        PROVE  IsFiniteSet(Sources(body[k]))
    <2>1. PICK conf : conf = body[k]
      OBVIOUS
    <2>2. IsFiniteSet(DOMAIN conf.tiles) /\ \A n \in DOMAIN conf.tiles : IsFiniteSet(DOMAIN conf.tiles[n])
      BY <2>1 DEF Readable, ReadableScreen
    <2>3. PICK S, f : S = DOMAIN conf.tiles /\ f = [n \in S |-> DOMAIN conf.tiles[n]]
      OBVIOUS
    <2>4. IsFiniteSet(UNION {{n} \X f[n] : n \in S})
      BY <2>2, <2>3, FinitePairs
    <2>5. Sources(conf) = UNION {{n} \X f[n] : n \in S}
      BY <2>3 DEF Sources
    <2> QED BY <2>1, <2>4, <2>5
  <1>2. PICK S, f : S = Tiled(body) /\ f = [k \in S |-> Sources(body[k])]
    OBVIOUS
  <1>3. IsFiniteSet(S) /\ S \subseteq DOMAIN body
    BY <1>2, FS_Subset DEF Readable, Tiled
  <1>4. IsFiniteSet(UNION {{k} \X f[k] : k \in S})
    BY <1>1, <1>2, <1>3, FinitePairs
  <1>5. Placed(body, t) \subseteq UNION {{k} \X f[k] : k \in S}
    BY <1>2 DEF Placed
  <1> QED BY <1>4, <1>5, FS_Subset

\* The screens that the importer makes.
LEMMA ScreensImported ==
  ASSUME NEW l \in Layout, NEW body, Readable(body)
  PROVE  LET screens == ImportedScreens(l, body) IN
         /\ DOMAIN screens \subseteq ScreenId
         /\ \A k \in Tiled(body) : body[k].id \in DOMAIN screens
         /\ \A s \in DOMAIN screens : IsRow(s, screens[s]) /\ screens[s].layout = l
  <1>1. PICK screens : screens = ImportedScreens(l, body)
    OBVIOUS
  <1>2. DOMAIN screens = {body[k].id : k \in Tiled(body)}
    BY <1>1 DEF ImportedScreens
  <1>3. \A k \in Tiled(body) : ReadableScreen(body[k])
    BY DEF Readable, Tiled
  <1>4. ASSUME NEW s \in DOMAIN screens
        PROVE  s \in ScreenId /\ IsRow(s, screens[s]) /\ screens[s].layout = l
    <2>1. PICK k : k = CHOOSE j \in Tiled(body) : body[j].id = s
      OBVIOUS
    <2>2. k \in Tiled(body) /\ body[k].id = s
      BY <1>2, <2>1
    <2>3. PICK row, name, side :
            /\ row = screens[s] /\ name = body[k].name /\ side = SideFor(Len(body[k].tiles))
      OBVIOUS
    <2>4. row = [layout |-> l, name |-> name, rows |-> side, cols |-> side]
      BY <1>1, <1>2, <2>1, <2>3, Zenon DEF ImportedScreens
    <2>5. s \in ScreenId /\ name \in Name /\ Len(body[k].tiles) \in Nat
      BY <1>3, <2>2, <2>3 DEF ReadableScreen
    <2>6. side \in 1..ScreenSide
      BY <2>3, <2>5, Sides
    <2>7. IsRow(s, row) /\ row.layout = l
      BY <2>4, <2>5, <2>6, NewScreenRow
    <2> QED BY <2>3, <2>5, <2>7
  <1> QED BY <1>1, <1>2, <1>4

\* The layout of a PC has the key of a layout.
LEMMA LayoutsFor ==
  ASSUME TablesInv, NEW p \in Rows(Pc)
  PROVE  LayoutFor(p) \in Layout
  BY PcRows, FleetAssumption DEF LayoutFor

\* Screens of the layout, views of them, and mappings in these.
LEMMA WallOfParts ==
  ASSUME NEW p, NEW screens, NEW views, NEW mappings,
         DOMAIN screens \subseteq ScreenId, DOMAIN views \subseteq ViewId,
         DOMAIN mappings \subseteq Mapping,
         \A s \in DOMAIN screens : IsRow(s, screens[s]) /\ screens[s].layout = LayoutFor(p),
         \A v \in DOMAIN views : IsRow(v, views[v]) /\ views[v].screen \in DOMAIN screens,
         \A m \in DOMAIN mappings :
           /\ IsRow(m, mappings[m]) /\ mappings[m].screen \in DOMAIN screens
           /\ mappings[m].camera # None => CameraFitsTeam(mappings[m].camera, TeamFor(p))
  PROVE  LET new == screens ++ views ++ mappings IN
         /\ WallMade(p, new)
         /\ DOMAIN new \cap Mapping \subseteq DOMAIN mappings
  <1>1. PICK new : new = screens ++ views ++ mappings
    OBVIOUS
  <1>2. /\ DOMAIN new = DOMAIN screens \cup DOMAIN views \cup DOMAIN mappings
        /\ \A i \in DOMAIN screens : new[i] = screens[i]
        /\ \A i \in DOMAIN views : i \notin DOMAIN screens => new[i] = views[i]
        /\ \A i \in DOMAIN mappings : i \notin DOMAIN screens \cup DOMAIN views => new[i] = mappings[i]
    BY <1>1 DEF ++
  <1>3. /\ \A i \in DOMAIN views : i \in DOMAIN new /\ new[i] = views[i] /\ i \notin ScreenId \cup Mapping
        /\ \A i \in DOMAIN mappings : i \in DOMAIN new /\ new[i] = mappings[i] /\ i \notin ScreenId \cup ViewId
        /\ \A i \in DOMAIN screens : i \in DOMAIN new /\ new[i] = screens[i] /\ i \notin ViewId \cup Mapping
    BY <1>2, FleetKeys
  <1>4. DOMAIN new \subseteq WallRows
    BY <1>2 DEF WallRows
  <1>5. \A i \in DOMAIN new : IsRow(i, new[i])
    BY <1>2, <1>3
  <1>6. \A s \in DOMAIN new \cap ScreenId : new[s].layout = LayoutFor(p)
    BY <1>2, <1>3
  <1>7. \A i \in DOMAIN new \cap (ViewId \cup Mapping) : new[i].screen \in DOMAIN new \cap ScreenId
    BY <1>2, <1>3
  <1>8. \A m \in DOMAIN new \cap Mapping :
          m \in DOMAIN mappings /\ (new[m].camera # None => CameraFitsTeam(new[m].camera, TeamFor(p)))
    BY <1>2, <1>3
  <1> QED BY <1>1, <1>4, <1>5, <1>6, <1>7, <1>8 DEF WallMade

\* The views that it makes of them.
LEMMA ViewsImported ==
  ASSUME NEW body, Readable(body), WithinBounds(body)
  PROVE  LET views == ImportedViews(body) IN
         /\ DOMAIN views \subseteq ViewId
         /\ \A v \in DOMAIN views :
              IsRow(v, views[v]) /\ \E k \in Tiled(body) : views[v].screen = body[k].id
  <1>1. PICK views : views = ImportedViews(body)
    OBVIOUS
  <1>2. DOMAIN views = {IdOfView(body, i) : i \in Numbered(body)}
    BY <1>1 DEF ImportedViews
  <1>3. \A k \in Tiled(body) : ReadableScreen(body[k])
    BY DEF Readable, Tiled
  <1>4. ASSUME NEW v \in DOMAIN views
        PROVE  /\ v \in ViewId /\ IsRow(v, views[v])
               /\ \E k \in Tiled(body) : views[v].screen = body[k].id
    <2>1. PICK i : i = CHOOSE j \in Numbered(body) : IdOfView(body, j) = v
      OBVIOUS
    <2>2. i \in Numbered(body) /\ IdOfView(body, i) = v
      BY <1>2, <2>1
    <2>3. PICK k \in Tiled(body) : i \in {k} \X Numbers(body[k])
      BY <2>2 DEF Numbered
    <2>4. PICK conf : conf = body[k]
      OBVIOUS
    <2>5. i[1] = k /\ i[2] \in Numbers(conf) /\ ReadableScreen(conf)
      BY <1>3, <2>3, <2>4
    <2>6. i[2] \in Nat
      <3>1. PICK j \in Sources(conf) : i[2] = SourceAt(conf, j).number
        BY <2>5 DEF Numbers
      <3>2. PICK n \in DOMAIN conf.tiles : j \in {n} \X (DOMAIN conf.tiles[n])
        BY <3>1 DEF Sources
      <3>3. j[1] = n /\ j[2] \in DOMAIN conf.tiles[n]
        BY <3>2
      <3> QED BY <2>5, <3>1, <3>3 DEF SourceAt, ReadableScreen
    <2>7. i[2] \in 0..MaxIndex /\ v \in ViewId
      <3>1. i[2] <= MaxIndex /\ IdOfView(body, i) \in ViewId
        BY <2>2 DEF WithinBounds
      <3> QED BY <2>2, <2>6, <3>1, TablesAssumption
    <2>8. PICK row, s, number, side :
            /\ row = views[v] /\ s = body[i[1]].id /\ number = i[2]
            /\ side = SideFor(Len(body[i[1]].tiles))
      OBVIOUS
    <2>9. row = [screen |-> s, number |-> number, rows |-> side, cols |-> side]
      BY <1>1, <1>2, <2>1, <2>8, Zenon DEF ImportedViews
    <2>10. s \in ScreenId /\ s = body[k].id /\ Len(conf.tiles) \in Nat
      BY <2>4, <2>5, <2>8 DEF ReadableScreen
    <2>11. side \in 1..ViewSide
      <3>1. side \in 1..ScreenSide
        BY <2>4, <2>5, <2>8, <2>10, Sides
      <3> QED BY <3>1, TablesAssumption
    <2>12. IsRow(v, row) /\ row.screen = s
      BY <2>7, <2>8, <2>9, <2>10, <2>11, NewViewRow
    <2> QED BY <2>7, <2>8, <2>10, <2>12
  <1> QED BY <1>1, <1>2, <1>4

\* The mapping that it makes of a source.
LEMMA MappingImported ==
  ASSUME TablesInv, NEW body, Readable(body), WithinBounds(body), NEW t,
         NEW i \in Placed(body, t), ImportedMapping(body, i).slot \in Slot
  PROVE  LET row == ImportedMapping(body, i) IN
         /\ \A m \in Mapping : IsRow(m, row)
         /\ \E k \in Tiled(body) : row.screen = body[k].id
         /\ row.camera \in Placeable(t)
  <1>1. PICK k \in Tiled(body) : i \in {k} \X Sources(body[k])
    BY DEF Placed
  <1>2. PICK conf, source, row : conf = body[k] /\ source = SourceAt(conf, i[2])
                                 /\ row = ImportedMapping(body, i)
    OBVIOUS
  <1>3. i[1] = k /\ i[2] \in Sources(conf) /\ ReadableScreen(conf)
    BY <1>1, <1>2 DEF Readable, Tiled
  <1>4. source.camera \in Placeable(t) /\ source.device \in Rows(Device)
    BY <1>2, <1>3 DEF Placed
  <1>5. PICK s, v, slot, d, c :
          /\ s = conf.id /\ v = ViewNamed(conf, source.number) /\ slot = row.slot
          /\ d = source.device /\ c = source.camera
    OBVIOUS
  <1>6. row = [screen |-> s, view |-> v, slot |-> slot, device |-> d, camera |-> c]
    BY <1>2, <1>3, <1>5 DEF ImportedMapping
  <1>7. v \in ViewId
    <2>1. source.number \in Numbers(conf)
      BY <1>2, <1>3 DEF Numbers
    <2>2. PICK j : j = <<k, source.number>>
      OBVIOUS
    <2>3. j \in Numbered(body)
      BY <1>2, <2>1, <2>2 DEF Numbered
    <2>4. IdOfView(body, j) = v
      BY <1>2, <1>5, <2>2 DEF IdOfView
    <2> QED BY <2>3, <2>4 DEF WithinBounds
  <1>8. s \in ScreenId /\ slot \in Slot /\ d \in OrNone(Device) /\ c \in OrNone(Camera)
    BY <1>2, <1>3, <1>4, <1>5 DEF ReadableScreen, Placeable, Rows, OrNone
  <1>9. \A m \in Mapping : IsRow(m, row)
    <2> TAKE m \in Mapping
    <2> QED BY <1>6, <1>7, <1>8, MappingFields
  <1>10. row.screen = s /\ row.camera = c
    BY <1>6
  <1> QED BY <1>2, <1>4, <1>5, <1>9, <1>10

\* import_config_for_pc.
LEMMA ImportConfigPrepares ==
  ASSUME TablesInv, NEW w \in Worker, ImportConfig(w)
  PROVE  FleetPrepares(w)
  <1> DEFINE Order(p, body) == SetToSeq(Placed(body, TeamFor(p)))
             Imported(p, body) ==
               [k \in DOMAIN Order(p, body) |-> ImportedMapping(body, Order(p, body)[k])]
             Import(p, body) ==
               ImportedScreens(LayoutFor(p), body) ++ ImportedViews(body)
                 ++ InsertingMappings(Imported(p, body))
  <1>1. PICK p \in Rows(Pc) : \E body \in ImportBody \cup UNION {Exports(q) : q \in Rows(Pc)} :
          /\ WithinBounds(body)
          /\ Range([k \in DOMAIN Imported(p, body) |-> Imported(p, body)[k].slot]) \subseteq Slot
          /\ serial + Len(Imported(p, body)) <= MaxMapping
          /\ serial' = serial + Len(Imported(p, body))
          /\ AcceptedThen(w, "config.imported", Remade(p, Import(p, body)), None,
                          [layout |-> LayoutFor(p), pc |-> p, body |-> body])
    BY DEF ImportConfig, Remade
  <1>2. PICK body \in ImportBody \cup UNION {Exports(q) : q \in Rows(Pc)} :
          /\ WithinBounds(body)
          /\ Range([k \in DOMAIN Imported(p, body) |-> Imported(p, body)[k].slot]) \subseteq Slot
          /\ serial + Len(Imported(p, body)) <= MaxMapping
          /\ serial' = serial + Len(Imported(p, body))
          /\ AcceptedThen(w, "config.imported", Remade(p, Import(p, body)), None,
                          [layout |-> LayoutFor(p), pc |-> p, body |-> body])
    BY <1>1
  <1>3. PICK l, t, order, rows, screens, views, mappings, new, op, arg :
          /\ l = LayoutFor(p) /\ t = TeamFor(p) /\ order = Order(p, body)
          /\ rows = Imported(p, body)
          /\ screens = ImportedScreens(l, body) /\ views = ImportedViews(body)
          /\ mappings = InsertingMappings(rows) /\ new = Import(p, body)
          /\ op = "config.imported" /\ arg = [layout |-> l, pc |-> p, body |-> body]
    OBVIOUS
  <1>4. new = screens ++ views ++ mappings
    BY <1>3
  <1>5. order = SetToSeq(Placed(body, t)) /\ rows = [k \in DOMAIN order |-> ImportedMapping(body, order[k])]
    BY <1>3
  <1>6. AcceptedThen(w, op, Remade(p, new), None, arg)
    BY <1>2, <1>3
  <1>7. /\ Range([k \in DOMAIN rows |-> rows[k].slot]) \subseteq Slot
        /\ serial + Len(rows) <= MaxMapping /\ serial' = serial + Len(rows)
    BY <1>2, <1>3
  <1> HIDE DEF Order, Imported, Import
  <1>8. Readable(body)
    BY TablesOrdered, BodiesReadable DEF TablesInv
  <1>9. l \in Layout
    BY <1>3, LayoutsFor
  <1>10. /\ DOMAIN screens \subseteq ScreenId
         /\ \A k \in Tiled(body) : body[k].id \in DOMAIN screens
         /\ \A s \in DOMAIN screens : IsRow(s, screens[s]) /\ screens[s].layout = l
    BY <1>3, <1>8, <1>9, ScreensImported
  <1>11. /\ DOMAIN views \subseteq ViewId
         /\ \A v \in DOMAIN views :
              IsRow(v, views[v]) /\ \E k \in Tiled(body) : views[v].screen = body[k].id
    BY <1>2, <1>3, <1>8, ViewsImported
  <1>12. PICK size \in Nat : DOMAIN order = 1..size /\ \A k \in 1..size : order[k] \in Placed(body, t)
    <2>1. PICK S : S = Placed(body, t)
      OBVIOUS
    <2>2. IsFiniteSet(S)
      BY <1>8, <2>1, PlacedFinite
    <2>3. /\ Cardinality(S) \in Nat /\ order \in [1..Cardinality(S) -> S]
          /\ DOMAIN order = 1..Cardinality(S)
      BY <1>5, <2>1, <2>2, InSomeOrder
    <2> QED BY <2>1, <2>3
  <1>13. IsFunction(rows) /\ DOMAIN rows = 1..size
    BY <1>5, <1>12 DEF IsFunction
  <1>14. Len(rows) = size /\ \E S : rows \in Seq(S)
    BY <1>13, AsSequence
  <1>15. ASSUME NEW n \in 1..size
         PROVE  /\ \A m \in Mapping : IsRow(m, rows[n])
                /\ \E k \in Tiled(body) : rows[n].screen = body[k].id
                /\ rows[n].camera \in Placeable(t)
    <2>1. PICK i : i = order[n]
      OBVIOUS
    <2>2. i \in Placed(body, t) /\ rows[n] = ImportedMapping(body, i)
      BY <1>5, <1>12, <2>1
    <2>3. rows[n].slot \in Slot
      BY <1>7, <1>13 DEF Range
    <2> QED BY <1>2, <1>8, <2>2, <2>3, MappingImported
  <1>16. PICK S : rows \in Seq(S)
    BY <1>14
  <1>17. /\ DOMAIN mappings \subseteq Mapping /\ serial' \in serial..MaxMapping
         /\ \A m \in DOMAIN mappings :
              /\ IsRow(m, mappings[m]) /\ m[1] \in 1..serial'
              /\ \E n \in 1..size : mappings[m] = rows[n]
    <2>1. \A n \in 1..Len(rows) : \A m \in Mapping : IsRow(m, rows[n])
      BY <1>14, <1>15
    <2> QED BY <1>3, <1>7, <1>14, <1>16, <2>1, DrawnRows
  <1>18. WallMade(p, new) /\ \A m \in DOMAIN new \cap Mapping : m[1] \in 1..serial'
    <2>1. \A v \in DOMAIN views : views[v].screen \in DOMAIN screens
      BY <1>10, <1>11
    <2>2. \A m \in DOMAIN mappings : mappings[m].screen \in DOMAIN screens /\ mappings[m].camera \in Placeable(t)
      BY <1>10, <1>15, <1>17
    <2>3. \A c \in Placeable(t) : CameraFitsTeam(c, t)
      BY DEF Placeable, CameraFitsTeam
    <2> QED BY <1>3, <1>4, <1>10, <1>11, <1>17, <2>1, <2>2, <2>3, WallOfParts
  <1>19. arg.layout = l /\ "named" \notin DOMAIN arg
    BY <1>3
  <1>20. op \in {"config.imported", "layout.copied"} /\ arg.layout = LayoutFor(p)
    BY <1>3, <1>19
  <1> QED BY <1>6, <1>17, <1>18, <1>19, <1>20, MadeAnew

-----------------------------------------------------------------------------
(* copy_layout_from_pc *)

\* A row with another value in a column is a row of its table.
LEMMA RowCopied ==
  ASSUME NEW i, NEW k, RowType(i) = RowType(k), NEW row, IsRow(i, row),
         NEW c \in DOMAIN RowType(i), NEW x \in RowType(i)[c]
  PROVE  /\ IsRow(k, [row EXCEPT ![c] = x])
         /\ [row EXCEPT ![c] = x][c] = x
         /\ \A d \in DOMAIN row : d # c => [row EXCEPT ![c] = x][d] = row[d]
  <1>1. PICK type, copy : type = RowType(i) /\ copy = [row EXCEPT ![c] = x]
    OBVIOUS
  <1>2. DOMAIN row = DOMAIN type /\ \A d \in DOMAIN row : row[d] \in type[d]
    BY <1>1 DEF IsRow, Fits
  <1>3. /\ DOMAIN copy = DOMAIN row /\ copy[c] = x /\ IsFunction(copy)
        /\ \A d \in DOMAIN row : d # c => copy[d] = row[d]
    BY <1>1, <1>2 DEF IsFunction
  <1>4. \A d \in DOMAIN copy : copy[d] \in type[d]
    BY <1>1, <1>2, <1>3
  <1>5. IsRow(k, copy)
    BY <1>1, <1>2, <1>3, <1>4 DEF IsRow, Fits
  <1> QED BY <1>1, <1>3, <1>5

\* The copies of screens and of views.
CopiedScreens(l, screens, screenOf) ==
  [s \in Range(screenOf) |->
     LET o == CHOOSE o \in screens : screenOf[o] = s IN [db[o] EXCEPT !.layout = l]]
CopiedViews(views, screenOf, viewOf) ==
  [v \in Range(viewOf) |->
     LET o == CHOOSE o \in views : viewOf[o] = v IN [db[o] EXCEPT !.screen = screenOf[@]]]

LEMMA ScreensCopied ==
  ASSUME TablesInv, NEW l \in Layout, NEW screens, screens \subseteq Rows(ScreenId),
         NEW screenOf \in [screens -> Screen]
  PROVE  LET copies == CopiedScreens(l, screens, screenOf) IN
         /\ DOMAIN copies \subseteq ScreenId
         /\ \A o \in screens : screenOf[o] \in DOMAIN copies
         /\ \A s \in DOMAIN copies : IsRow(s, copies[s]) /\ copies[s].layout = l
  <1>1. PICK copies : copies = CopiedScreens(l, screens, screenOf)
    OBVIOUS
  <1>2. DOMAIN copies = Range(screenOf) /\ DOMAIN screenOf = screens
    BY <1>1 DEF CopiedScreens
  <1>3. DOMAIN copies \subseteq ScreenId /\ \A o \in screens : screenOf[o] \in DOMAIN copies
    BY <1>2 DEF Range, ScreenId
  <1>4. ASSUME NEW s \in DOMAIN copies
        PROVE  IsRow(s, copies[s]) /\ copies[s].layout = l
    <2>1. PICK o : o = CHOOSE k \in screens : screenOf[k] = s
      OBVIOUS
    <2>2. o \in screens
      BY <1>2, <2>1 DEF Range
    <2>3. PICK row, copy : row = db[o] /\ copy = copies[s]
      OBVIOUS
    <2>4. copy = [row EXCEPT !["layout"] = l]
      BY <1>1, <1>2, <2>1, <2>3, Zenon DEF CopiedScreens
    <2>5. o \in ScreenId /\ s \in ScreenId /\ IsRow(o, row)
      BY <1>3, <2>2, <2>3 DEF TablesInv, TablesTypeOK, Rows
    <2>6. RowType(o) = ScreenRow /\ RowType(s) = ScreenRow
      BY <2>5, RowTypes
    <2>7. "layout" \in DOMAIN ScreenRow /\ ScreenRow["layout"] = Layout
      BY DEF ScreenRow
    <2>8. IsRow(s, copy) /\ copy["layout"] = l
      <3>1. /\ RowType(o) = RowType(s) /\ "layout" \in DOMAIN RowType(o)
            /\ l \in RowType(o)["layout"]
        BY <2>6, <2>7
      <3>2. IsRow(s, [row EXCEPT !["layout"] = l]) /\ [row EXCEPT !["layout"] = l]["layout"] = l
        BY <2>5, <3>1, RowCopied
      <3> QED BY <2>4, <3>2
    <2> QED BY <2>3, <2>8
  <1> QED BY <1>1, <1>3, <1>4

LEMMA ViewsCopied ==
  ASSUME TablesInv, NEW screens, NEW screenOf \in [screens -> Screen],
         NEW views, views \subseteq Rows(ViewId), \A v \in views : db[v].screen \in screens,
         NEW viewOf \in [views -> View]
  PROVE  LET copies == CopiedViews(views, screenOf, viewOf) IN
         /\ DOMAIN copies \subseteq ViewId
         /\ \A v \in DOMAIN copies :
              IsRow(v, copies[v]) /\ \E o \in screens : copies[v].screen = screenOf[o]
  <1>1. PICK copies : copies = CopiedViews(views, screenOf, viewOf)
    OBVIOUS
  <1>2. DOMAIN copies = Range(viewOf) /\ DOMAIN viewOf = views
    BY <1>1 DEF CopiedViews
  <1>3. DOMAIN copies \subseteq ViewId
    BY <1>2 DEF Range, ViewId
  <1>4. ASSUME NEW v \in DOMAIN copies
        PROVE  IsRow(v, copies[v]) /\ \E o \in screens : copies[v].screen = screenOf[o]
    <2>1. PICK o : o = CHOOSE k \in views : viewOf[k] = v
      OBVIOUS
    <2>2. o \in views
      BY <1>2, <2>1 DEF Range
    <2>3. PICK row, copy, s : row = db[o] /\ copy = copies[v] /\ s = screenOf[row.screen]
      OBVIOUS
    <2>4. copy = [db[o] EXCEPT !.screen = screenOf[@]]
      BY <1>1, <1>2, <2>1, <2>3, Zenon DEF CopiedViews
    <2>5. copy = [row EXCEPT !["screen"] = s]
      BY <2>3, <2>4
    <2>6. o \in ViewId /\ v \in ViewId /\ IsRow(o, row) /\ row.screen \in screens
      BY <1>3, <2>2, <2>3 DEF TablesInv, TablesTypeOK, Rows
    <2>7. RowType(o) = ViewRow /\ RowType(v) = ViewRow
      BY <2>6, RowTypes
    <2>8. "screen" \in DOMAIN ViewRow /\ ViewRow["screen"] = ScreenId /\ s \in ScreenId
      BY <2>3, <2>6 DEF ViewRow, ScreenId
    <2>9. IsRow(v, copy) /\ copy["screen"] = s
      <3>1. /\ RowType(o) = RowType(v) /\ "screen" \in DOMAIN RowType(o)
            /\ s \in RowType(o)["screen"]
        BY <2>7, <2>8
      <3>2. IsRow(v, [row EXCEPT !["screen"] = s]) /\ [row EXCEPT !["screen"] = s]["screen"] = s
        BY <2>6, <3>1, RowCopied
      <3> QED BY <2>5, <3>2
    <2> QED BY <2>3, <2>6, <2>9
  <1> QED BY <1>1, <1>3, <1>4

\* The copy of a mapping.
CopiedMapping(o, screenOf, viewOf) ==
  [db[o] EXCEPT !.screen = screenOf[@], !.view = viewOf[@]]

LEMMA MappingCopied ==
  ASSUME TablesInv, NEW screens, NEW screenOf \in [screens -> Screen],
         NEW views, NEW viewOf \in [views -> View],
         NEW o \in Rows(Mapping), db[o].screen \in screens, db[o].view \in views
  PROVE  LET copy == CopiedMapping(o, screenOf, viewOf) IN
         /\ \A m \in Mapping : IsRow(m, copy)
         /\ copy.screen = screenOf[db[o].screen] /\ copy.camera = db[o].camera
  <1>1. PICK row, s, v : row = db[o] /\ s = screenOf[row.screen] /\ v = viewOf[row.view]
    OBVIOUS
  <1>2. o \in Mapping /\ IsRow(o, row) /\ RowType(o) = MappingRow
    BY <1>1, RowTypes DEF TablesInv, TablesTypeOK, Rows
  <1>3. /\ DOMAIN MappingRow = {"screen", "view", "slot", "device", "camera"}
        /\ MappingRow["screen"] = ScreenId /\ MappingRow["view"] = ViewId
    BY DEF MappingRow
  <1>4. s \in ScreenId /\ v \in ViewId
    BY <1>1 DEF ScreenId, ViewId
  <1>5. DOMAIN row = {"screen", "view", "slot", "device", "camera"}
    BY <1>2, <1>3 DEF IsRow
  <1>6. PICK half, copy : half = [row EXCEPT !["screen"] = s] /\ copy = [half EXCEPT !["view"] = v]
    OBVIOUS
  <1>7. IsRow(o, half) /\ half["screen"] = s /\ half["camera"] = row["camera"]
    BY <1>2, <1>3, <1>4, <1>5, <1>6, RowCopied
  <1>8. DOMAIN half = DOMAIN row
    BY <1>6
  <1>9. \A m \in Mapping : IsRow(m, copy)
    <2> TAKE m \in Mapping
    <2>1. RowType(o) = RowType(m)
      BY <1>2, RowTypes
    <2> QED BY <1>2, <1>3, <1>4, <1>6, <1>7, <2>1, RowCopied
  <1>10. copy["screen"] = s /\ copy["camera"] = row["camera"]
    BY <1>5, <1>6, <1>7, <1>8
  <1>11. copy = CopiedMapping(o, screenOf, viewOf)
    BY <1>1, <1>5, <1>6 DEF CopiedMapping
  <1> QED BY <1>1, <1>9, <1>10, <1>11

\* copy_layout_from_pc.
LEMMA CopyLayoutPrepares ==
  ASSUME TablesInv, NEW w \in Worker, CopyLayout(w)
  PROVE  FleetPrepares(w)
  <1> DEFINE Screens(q) == ScreensOf(db[q].layout)
             Left(p) == DOMAIN db \ Gone(Clearing(p))
             Views(p, q) == {v \in Left(p) \cap ViewId : db[v].screen \in Screens(q)}
             Copied(p, q) == {m \in Left(p) \cap Mapping :
                                db[m].screen \in Screens(q) /\ db[m].view \in Views(p, q)}
             Made(order, screenOf, viewOf) ==
               [k \in DOMAIN order |-> CopiedMapping(order[k], screenOf, viewOf)]
  <1>1. PICK p \in Rows(Pc), q \in Rows(Pc) :
          LET order == SetToSeq(Copied(p, q)) IN
          /\ MayCopy(p, q)
          /\ serial + Len(order) <= MaxMapping /\ serial' = serial + Len(order)
          /\ \E screenOf \in NewIds(Screens(q), Screen), viewOf \in NewIds(Views(p, q), View) :
               AcceptedThen(w, "layout.copied",
                 Remade(p, CopiedScreens(LayoutFor(p), Screens(q), screenOf)
                             ++ CopiedViews(Views(p, q), screenOf, viewOf)
                             ++ InsertingMappings(Made(order, screenOf, viewOf))),
                 None, [layout |-> LayoutFor(p), source |-> db[q].layout])
    BY DEF CopyLayout, CopiedScreens, CopiedViews, CopiedMapping, Remade
  <1>2. PICK source, l, t, screens, views, S, order :
          /\ source = db[q].layout /\ l = LayoutFor(p) /\ t = TeamFor(p) /\ screens = Screens(q)
          /\ views = Views(p, q) /\ S = Copied(p, q) /\ order = SetToSeq(S)
    OBVIOUS
  <1>3. PICK screenOf \in NewIds(screens, Screen), viewOf \in NewIds(views, View) :
          AcceptedThen(w, "layout.copied",
            Remade(p, CopiedScreens(l, screens, screenOf) ++ CopiedViews(views, screenOf, viewOf)
                        ++ InsertingMappings(Made(order, screenOf, viewOf))),
            None, [layout |-> l, source |-> source])
    BY <1>1, <1>2
  <1>4. /\ MayCopy(p, q) /\ serial + Len(order) <= MaxMapping /\ serial' = serial + Len(order)
    BY <1>1, <1>2
  <1>5. /\ screens = ScreensOf(source) /\ views \subseteq Rows(ViewId)
        /\ \A v \in views : db[v].screen \in screens
        /\ S \subseteq Rows(Mapping)
        /\ \A m \in S : db[m].screen \in screens /\ db[m].view \in views
    BY <1>2 DEF Rows
  <1>6. PICK rows, copies, shown, mappings, new, op, arg :
          /\ rows = Made(order, screenOf, viewOf)
          /\ copies = CopiedScreens(l, screens, screenOf)
          /\ shown = CopiedViews(views, screenOf, viewOf)
          /\ mappings = InsertingMappings(rows)
          /\ new = copies ++ shown ++ mappings
          /\ op = "layout.copied" /\ arg = [layout |-> l, source |-> source]
    OBVIOUS
  <1>7. rows = [k \in DOMAIN order |-> CopiedMapping(order[k], screenOf, viewOf)]
    BY <1>6
  <1>8. AcceptedThen(w, op, Remade(p, new), None, arg)
    BY <1>3, <1>6
  <1> HIDE DEF Screens, Left, Views, Copied, Made
  <1>9. /\ screenOf \in [screens -> Screen] /\ viewOf \in [views -> View]
        /\ screens \subseteq Rows(ScreenId) /\ l \in Layout
    BY <1>2, <1>5, LayoutsFor DEF NewIds, FreshIn, ScreensOf
  <1>10. /\ DOMAIN copies \subseteq ScreenId
         /\ \A o \in screens : screenOf[o] \in DOMAIN copies
         /\ \A s \in DOMAIN copies : IsRow(s, copies[s]) /\ copies[s].layout = l
    BY <1>6, <1>9, ScreensCopied
  <1>11. /\ DOMAIN shown \subseteq ViewId
         /\ \A v \in DOMAIN shown :
              IsRow(v, shown[v]) /\ \E o \in screens : shown[v].screen = screenOf[o]
    BY <1>5, <1>6, <1>9, ViewsCopied
  <1>12. PICK size \in Nat : DOMAIN order = 1..size /\ \A k \in 1..size : order[k] \in S
    <2>1. IsFiniteSet(S)
      BY <1>5, TablesOrdered, FS_Subset DEF Ordered, TablesInv
    <2>2. /\ Cardinality(S) \in Nat /\ order \in [1..Cardinality(S) -> S]
          /\ DOMAIN order = 1..Cardinality(S) /\ Len(order) = Cardinality(S)
      BY <1>2, <2>1, InSomeOrder
    <2> QED BY <2>2
  <1>13. IsFunction(rows) /\ DOMAIN rows = 1..size
    BY <1>7, <1>12 DEF IsFunction
  <1>14. Len(rows) = size /\ (\E V : rows \in Seq(V)) /\ Len(order) = size
    <2>1. Len(order) = size
      <3>1. IsFiniteSet(S)
        BY <1>5, TablesOrdered, FS_Subset DEF Ordered, TablesInv
      <3>2. order \in Seq(S)
        BY <1>2, <3>1, InSomeOrder
      <3> QED BY <1>12, <3>2, LenProperties
    <2> QED BY <1>13, <2>1, AsSequence
  <1>15. ASSUME NEW n \in 1..size
         PROVE  /\ \A m \in Mapping : IsRow(m, rows[n])
                /\ \E o \in screens : rows[n].screen = screenOf[o]
                /\ \E m \in S : rows[n].camera = db[m].camera
    <2>1. PICK o, copy : o = order[n] /\ copy = rows[n]
      OBVIOUS
    <2>2. o \in S /\ copy = CopiedMapping(o, screenOf, viewOf)
      BY <1>7, <1>12, <2>1
    <2>3. o \in Rows(Mapping) /\ db[o].screen \in screens /\ db[o].view \in views
      BY <1>5, <2>2
    <2>4. /\ \A m \in Mapping : IsRow(m, copy)
          /\ copy.screen = screenOf[db[o].screen] /\ copy.camera = db[o].camera
      BY <1>9, <2>2, <2>3, MappingCopied
    <2> QED BY <2>1, <2>2, <2>3, <2>4
  <1>16. PICK V : rows \in Seq(V)
    BY <1>14
  <1>17. /\ DOMAIN mappings \subseteq Mapping /\ serial' \in serial..MaxMapping
         /\ \A m \in DOMAIN mappings :
              /\ IsRow(m, mappings[m]) /\ m[1] \in 1..serial'
              /\ \E n \in 1..size : mappings[m] = rows[n]
    <2>1. \A n \in 1..Len(rows) : \A m \in Mapping : IsRow(m, rows[n])
      BY <1>14, <1>15
    <2> QED BY <1>4, <1>6, <1>14, <1>16, <2>1, DrawnRows
  <1>18. \A m \in S : db[m].camera # None => CameraFitsTeam(db[m].camera, t)
    <2>1. \A m \in S : db[m].camera # None => db[m].camera \in CamerasInLayout(source)
      BY <1>5 DEF ScreensOf, CamerasInLayout, MappingsOfLayout
    <2>2. \A c \in CamerasInLayout(source) : CameraFitsTeam(c, t)
      BY <1>2, <1>4 DEF MayCopy, CamerasFitTeam
    <2> QED BY <2>1, <2>2
  <1>19. WallMade(p, new) /\ \A m \in DOMAIN new \cap Mapping : m[1] \in 1..serial'
    <2>1. \A v \in DOMAIN shown : shown[v].screen \in DOMAIN copies
      BY <1>10, <1>11
    <2>2. \A m \in DOMAIN mappings :
            /\ mappings[m].screen \in DOMAIN copies
            /\ mappings[m].camera # None => CameraFitsTeam(mappings[m].camera, t)
      BY <1>10, <1>15, <1>17, <1>18
    <2> QED BY <1>2, <1>6, <1>10, <1>11, <1>17, <2>1, <2>2, WallOfParts
  <1>20. op \in {"config.imported", "layout.copied"} /\ arg.layout = LayoutFor(p) /\ "named" \notin DOMAIN arg
    BY <1>2, <1>6
  <1> QED BY <1>8, <1>17, <1>19, <1>20, MadeAnew

-----------------------------------------------------------------------------
(* Every request keeps to a plan *)

\* Worker w has prepared a transaction of the one kind of plan or the other.
FleetReadies(w) ==
  \E j :
    /\ Prepares(w, j)
    /\ Memory(j.op, j.then, j.arg)
    /\ j.alone => Course(j.op, j.tx, j.then, j.arg) /\ FleetPlanned(j)

\* The requests of Fleet.
LEMMA FleetRequestsPlan ==
  ASSUME FleetInv, NEW w \in Worker, FleetRequest(w)
  PROVE  Answers(w) \/ FleetReadies(w)
  <1>1. TablesInv
    BY DEF FleetInv
  <1>2. FleetPrepares(w) \/ Answers(w)
    BY <1>1, CreatePcPrepares, UpdatePcPrepares, DeletePcPrepares, DeployPrepares,
       ConfigurePcPrepares, ConfigureNextPrepares, ConfigureGridPrepares,
       ConfigureViewsPrepares, ConfigureCamerasPrepares, ConfigureStampPrepares,
       ImportConfigPrepares, CopyLayoutPrepares
       DEF FleetRequest
  <1> QED BY <1>2 DEF FleetPrepares, FleetReadies, FleetPlanned

\* What an edit writes leaves PCs as they are planned.
LEMMA EditsOfPcs ==
  ASSUME TablesInv, NEW w \in Worker, NEW ops, NEW adds, NEW sets, NEW drops,
         Begins(w, ops, adds, sets, drops),
         15 \notin adds, \A c : <<15, c>> \notin sets,
         <<11, "team">> \notin sets \/ ops \subseteq {"layout.updated"}
  PROVE  PcsPlan(job'[w].op, job'[w].tx)
  <1>1. PICK j : j = job'[w]
    OBVIOUS
  <1>2. Within(j.tx, adds, sets, drops) /\ Cautious(j.tx) /\ j.op \in ops
    BY <1>1, Begun
  <1>3. PICK tx, op : tx = j.tx /\ op = j.op
    OBVIOUS
  <1>4. tx.purge \cap (Pc \cup Layout) = {}
    BY <1>2, <1>3, OneTable DEF Cautious, Purged
  <1>5. \A l \in Layout : "team" \in ColumnsWritten(tx, l) => op = "layout.updated"
    BY <1>2, <1>3, WithinColumns
  <1>6. DOMAIN tx.new \cap Pc = {} /\ DOMAIN tx.bulk \cap Pc = {}
    BY <1>2, <1>3, OneTable DEF Within
  <1>7. \A p \in DOMAIN tx.set \cap Pc : DOMAIN tx.set[p] = {}
    BY <1>2, <1>3, OneTable DEF Within
  <1> QED BY <1>1, <1>3, <1>4, <1>5, <1>6, <1>7 DEF PcsPlan

\* assign_pcs: the PCs of the layout's team.
LEMMA AssignedPcs ==
  ASSUME TablesInv, NEW w \in Worker, AssignPcs(w) \/ UnassignPcs(w)
  PROVE  PcsPlan(job'[w].op, job'[w].tx)
  <1>1. \E l \in OrNone(Rows(Layout)), P \in SUBSET Rows(Pc) :
          /\ l # None => \A p \in P : db[p].team = db[l].team
          /\ \E op : Accepted(w, op, [NoWrites EXCEPT !.set = [p \in P |-> [layout |-> l]]])
    <2>1. CASE AssignPcs(w)
      BY <2>1 DEF AssignPcs, OrNone
    <2>2. CASE UnassignPcs(w)
      <3>1. PICK l \in Rows(Layout), P \in SUBSET Rows(Pc) :
              Accepted(w, "layout.unassigned",
                [NoWrites EXCEPT !.set =
                   [p \in {q \in P : db[q].layout = l} |-> [layout |-> None]]])
        BY <2>2 DEF UnassignPcs
      <3>2. PICK Q \in SUBSET Rows(Pc) : Q = {q \in P : db[q].layout = l}
        OBVIOUS
      <3>3. Accepted(w, "layout.unassigned",
              [NoWrites EXCEPT !.set = [p \in Q |-> [layout |-> None]]])
        BY <3>1, <3>2
      <3> QED BY <3>3 DEF OrNone
    <2> QED BY <2>1, <2>2
  <1>2. PICK l \in OrNone(Rows(Layout)), P \in SUBSET Rows(Pc) :
          /\ l # None => \A p \in P : db[p].team = db[l].team
          /\ \E op : Accepted(w, op, [NoWrites EXCEPT !.set = [p \in P |-> [layout |-> l]]])
    BY <1>1
  <1>3. PICK op, tx : /\ tx = [NoWrites EXCEPT !.set = [p \in P |-> [layout |-> l]]]
                      /\ Accepted(w, op, tx)
    BY <1>2
  <1>4. job'[w].op = op /\ job'[w].tx = tx
    BY <1>3 DEF Accepted, AcceptedThen, Job, TablesInv
  <1>5. /\ DOMAIN tx.new = {} /\ DOMAIN tx.bulk = {} /\ tx.purge = {}
        /\ tx.set = [p \in P |-> [layout |-> l]]
    BY <1>3 DEF NoWrites
  <1>6. PICK columns : columns = [layout |-> l]
    OBVIOUS
  <1>7. DOMAIN columns = {"layout"} /\ columns["layout"] = l
    BY <1>6
  <1>8. DOMAIN tx.set = P /\ \A p \in P : tx.set[p] = columns
    BY <1>5, <1>6
  <1>9. \A p \in P : p \in Pc
    BY DEF Rows
  <1>10. \A k \in Layout : "team" \notin ColumnsWritten(tx, k)
    BY <1>5, <1>8, <1>9, FleetKeys DEF ColumnsWritten
  <1>11. ASSUME NEW p \in P
         PROVE  KeepsTheTeam(p, columns)
    <2>1. Given(columns, db[p], "layout") = l /\ Given(columns, db[p], "team") = db[p].team
      BY <1>7 DEF Given
    <2>2. l # None => Exists(l) /\ db[l].team = db[p].team
      BY <1>2 DEF OrNone, Rows, Exists
    <2> QED BY <2>1, <2>2 DEF KeepsTheTeam
  <1>12. PcsPlan(op, tx)
    BY <1>5, <1>7, <1>8, <1>10, <1>11 DEF PcsPlan
  <1> QED BY <1>4, <1>12

\* An edit that begins.
LEMMA EditsReady ==
  ASSUME TablesInv, NEW w \in Worker, NEW ops, NEW adds, NEW sets, NEW drops,
         Begins(w, ops, adds, sets, drops), ops \cap (SetUps \cup Chained) = {},
         Planned(w), PcsPlan(job'[w].op, job'[w].tx)
  PROVE  FleetReadies(w)
  <1>1. PICK j : /\ job' = [job EXCEPT ![w] = j] /\ Prepares(w, j)
                 /\ j.op \in ops /\ (j.then # None => j.op \in Chained)
    BY DEF Begins, Prepares, Typed
  <1>2. job'[w] = j
    BY <1>1 DEF TablesInv
  <1>3. Plan(j) /\ PcsPlan(j.op, j.tx)
    BY <1>2 DEF Planned
  <1>4. j.op \notin SetUps /\ j.then = None
    BY <1>1
  <1>5. ~Ahead(j.op, j.then, ConfigureSteps)
    BY <1>4 DEF Ahead, SetUps
  <1>6. Memory(j.op, j.then, j.arg) /\ Course(j.op, j.tx, j.then, j.arg) /\ FleetPlanned(j)
    BY <1>3, <1>4, <1>5 DEF Memory, Course, FleetPlanned
  <1> QED BY <1>1, <1>6 DEF FleetReadies

\* The edits that meet the requests of Fleet.
LEMMA EditRequestsPlan ==
  ASSUME TablesInv, NEW w \in Worker, EditRequest(w)
  PROVE  Answers(w) \/ FleetReadies(w)
  <1>1. Answers(w) \/ Planned(w)
    BY RequestsPlan DEF EditRequest, WallsRequest, AssetsRequest
  <1> SUFFICES ASSUME Planned(w)
               PROVE  FleetReadies(w)
    BY <1>1
  <1> USE DEF SetUps, ConfigureSteps, Chained
  <1>2. CASE UpdateLayout(w)
    <2>1. Begins(w, {"layout.updated"}, {}, {<<11, "team">>}, {})
      BY <1>2, UpdateLayoutBegins
    <2> QED BY <2>1, EditsOfPcs, EditsReady
  <1>3. CASE DeleteLayout(w)
    <2>1. Begins(w, {"layout.deleted"}, {}, {}, {11})
      BY <1>3, DeleteLayoutBegins
    <2> QED BY <2>1, EditsOfPcs, EditsReady
  <1>4. CASE AssignPcs(w) \/ UnassignPcs(w)
    <2>1. Begins(w, {"layout.assigned", "layout.unassigned"}, {}, {<<15, "layout">>}, {})
      BY <1>4, AssignPcsBegins
    <2>2. PcsPlan(job'[w].op, job'[w].tx)
      BY <1>4, AssignedPcs
    <2> QED BY <2>1, <2>2, EditsReady
  <1>5. CASE UpdateScreen(w)
    <2>1. PICK op \in {"screen.updated", "screen.moved"} :
            Begins(w, {op}, {}, ScreenColumns(op), {14})
      BY <1>5, UpdateScreenBegins
    <2>2. \A c : <<15, c>> \notin ScreenColumns(op)
      BY DEF ScreenColumns
    <2>3. <<11, "team">> \notin ScreenColumns(op)
      BY DEF ScreenColumns
    <2>4. PcsPlan(job'[w].op, job'[w].tx)
      BY <2>1, <2>2, <2>3, EditsOfPcs
    <2> QED BY <2>1, <2>4, EditsReady
  <1>6. CASE DeleteView(w)
    <2>1. Begins(w, {"view.deleted"}, {}, {}, {13})
      BY <1>6, DeleteViewBegins
    <2> QED BY <2>1, EditsOfPcs, EditsReady
  <1>7. CASE UnassignSite(w)
    <2>1. Begins(w, {"team.site_unassigned"}, {}, {}, {7})
      BY <1>7, UnassignSiteBegins
    <2> QED BY <2>1, EditsOfPcs, EditsReady
  <1>8. CASE DeleteCamera(w)
    <2>1. Begins(w, {"camera.deleted"}, {}, {}, {5})
      BY <1>8, DeleteCameraBegins
    <2> QED BY <2>1, EditsOfPcs, EditsReady
  <1> QED BY <1>2, <1>3, <1>4, <1>5, <1>6, <1>7, <1>8 DEF EditRequest
-----------------------------------------------------------------------------
(* What a commit of Fleet leaves *)

\* The transaction tx, which writes no more than the requests of Fleet do, is committed.
Lands(tx) ==
  FleetWrites(tx) /\ TypedRows(tx, serial) /\ Holds(tx) /\ db' = After(tx)

\* Only rows of walls, and what PCs play of them, hang on PCs and rows of walls.
LEMMA BelowWalls ==
  ASSUME TablesInv, NEW i \in DOMAIN db, NEW c \in ColumnsThat("remove", i),
         db[i][c] # None, db[i][c] \in Pc \cup WallRows \cup Playing
  PROVE  i \in WallRows \cup Playing
  <1> USE OneTable, RemoveColumns DEF WallRows
  <1>1. ForeignKeysHold(db) /\ \A k \in DOMAIN db : IsRow(k, db[k])
    BY DEF TablesInv, TablesTypeOK
  <1>2. i \in Device \cup Camera \cup Address \cup Membership \cup SiteCategory \cup SiteConfig
              \cup SiteSlot \cup ScreenId \cup ViewId \cup Mapping \cup Playing
    BY Referring
  <1>3. CASE i \in Device
    BY <1>1, <1>3, ForeignRows
  <1>4. CASE i \in Camera
    BY <1>1, <1>4, ForeignRows
  <1>5. CASE i \in Address
    BY <1>1, <1>5, ForeignRows
  <1>6. CASE i \in Membership
    <2>1. db[i].site \in Site /\ db[i].team \in Team
      BY <1>1, <1>6, ForeignRows DEF Membership
    <2> QED BY <1>6, <2>1
  <1>7. CASE i \in SiteCategory
    <2>1. IsRow(i, db[i]) /\ RowType(i) = SiteCategoryRow(i)
      BY <1>1, <1>7, RowTypes
    <2>2. db[i].site \in Site
      BY <1>7, <2>1 DEF IsRow, Fits, SiteCategoryRow, SiteCategory
    <2> QED BY <1>7, <2>2
  <1>8. CASE i \in SiteConfig
    <2>1. db[i].site \in Site
      BY <1>1, <1>8, ForeignRows DEF SiteConfig
    <2> QED BY <1>8, <2>1
  <1>9. CASE i \in SiteSlot
    <2>1. db[i].site \in Site /\ db[i].camera \in Camera
      BY <1>1, <1>9, ForeignRows DEF SiteSlot
    <2> QED BY <1>9, <2>1
  <1>10. CASE i \in ScreenId \cup ViewId \cup Mapping \cup Playing
    BY <1>10
  <1> QED BY <1>2, <1>3, <1>4, <1>5, <1>6, <1>7, <1>8, <1>9, <1>10

\* What goes.
LEMMA FleetGone ==
  ASSUME TablesInv, NEW D, D \subseteq Pc \cup ScreenId \cup ViewId
  PROVE  Gone(D) \subseteq Pc \cup WallRows \cup Playing
  <1>1. ASSUME NEW S, S \subseteq Pc \cup WallRows \cup Playing
        PROVE  WithBelow(S) \subseteq Pc \cup WallRows \cup Playing
    BY <1>1, BelowWalls DEF WithBelow, Below
  <1>2. D \cap DOMAIN db \subseteq Pc \cup WallRows \cup Playing
    BY DEF WallRows
  <1> QED BY <1>1, <1>2 DEF Gone

\* A screen goes if it is named, and a view if it is or its screen is.
LEMMA WallGone ==
  ASSUME TablesInv, NEW D, D \subseteq Pc \cup ScreenId \cup ViewId
  PROVE  /\ \A s \in Gone(D) \cap ScreenId : s \in D
         /\ \A v \in Gone(D) \cap ViewId : v \in D \/ db[v].screen \in D
  <1>1. ForeignKeysHold(db) /\ \A k \in DOMAIN db : IsRow(k, db[k])
    BY DEF TablesInv, TablesTypeOK
  <1>2. ASSUME NEW s \in Gone(D), s \in ScreenId
        PROVE  s \in D
    <2>1. s \in DOMAIN db /\ ColumnsThat("remove", s) = {"layout"}
      BY <1>2, GoneRows, RemoveColumns
    <2>2. db[s].layout \in Layout
      BY <1>1, <1>2, <2>1, ForeignRows
    <2>3. db[s].layout \notin Gone(D)
      BY <2>2, FleetGone, FleetKeys
    <2> QED BY <2>1, <2>3, GoneRows
  <1>3. ASSUME NEW v \in Gone(D), v \in ViewId
        PROVE  v \in D \/ db[v].screen \in D
    <2>1. v \in DOMAIN db /\ ColumnsThat("remove", v) = {"screen"}
      BY <1>3, GoneRows, RemoveColumns
    <2>2. db[v].screen \in ScreenId
      BY <1>1, <1>3, <2>1, ForeignRows
    <2>3. v \in D \/ db[v].screen \in Gone(D)
      BY <2>1, GoneRows
    <2> QED BY <1>2, <2>2, <2>3
  <1> QED BY <1>2, <1>3

\* A mapping goes with its screen, with its view and with the screen of its view.
LEMMA MappingGone ==
  ASSUME TablesInv, NEW D, NEW m \in Rows(Mapping),
         \/ db[m].screen \in D \/ db[m].view \in D \/ db[db[m].view].screen \in D
  PROVE  m \in Gone(D)
  <1>1. PICK s, v, o : s = db[m].screen /\ v = db[m].view /\ o = db[v].screen
    OBVIOUS
  <1>2. m \in DOMAIN db /\ m \in Mapping
    BY DEF Rows
  <1>3. /\ s \in ScreenId /\ s \in DOMAIN db /\ v \in ViewId /\ v \in DOMAIN db
        /\ o \in ScreenId /\ o \in DOMAIN db
    <2>1. ForeignKeysHold(db) /\ \A k \in DOMAIN db : IsRow(k, db[k])
      BY DEF TablesInv, TablesTypeOK
    <2>2. s \in ScreenId \cap DOMAIN db /\ v \in ViewId \cap DOMAIN db
      BY <1>1, <1>2, <2>1, ForeignRows
    <2> QED BY <1>1, <2>1, <2>2, ForeignRows
  <1>4. s # None /\ v # None /\ o # None
    BY <1>3, TablesAssumption
  <1>5. ColumnsThat("remove", m) = {"screen", "view", "camera"}
        /\ ColumnsThat("remove", v) = {"screen"}
    BY <1>2, <1>3, RemoveColumns
  <1>6. CASE s \in D
    BY <1>1, <1>2, <1>3, <1>4, <1>5, <1>6, GoneBelow
  <1>7. CASE v \in D
    BY <1>1, <1>2, <1>3, <1>4, <1>5, <1>7, GoneBelow
  <1>8. CASE o \in D
    <2>1. \A S : S \subseteq WithBelow(S)
      BY DEF WithBelow
    <2>2. v \in WithBelow(D \cap DOMAIN db)
      BY <1>1, <1>3, <1>4, <1>5, <1>8 DEF WithBelow, Below
    <2>3. m \in WithBelow(WithBelow(D \cap DOMAIN db))
      BY <1>1, <1>2, <1>4, <1>5, <2>2 DEF WithBelow, Below
    <2> QED BY <2>1, <2>3 DEF Gone
  <1> QED BY <1>1, <1>6, <1>7, <1>8

\* What the transaction names and removes.
LEMMA LandsRemoved ==
  ASSUME TablesInv, NEW tx, Lands(tx)
  PROVE  /\ tx.del \cup tx.purge \subseteq Pc \cup ScreenId \cup ViewId
         /\ tx.purge \subseteq Pc \cup ScreenId \cup ViewId
         /\ Removed(tx) \subseteq Pc \cup WallRows \cup Playing
         /\ Gone(tx.purge) \subseteq Removed(tx)
  <1>1. /\ tx.del \cup tx.purge \subseteq Pc \cup ScreenId \cup ViewId
        /\ tx.purge \subseteq Pc \cup ScreenId \cup ViewId
    BY DEF Lands, FleetWrites
  <1>2. Removed(tx) \subseteq Pc \cup WallRows \cup Playing
    BY <1>1, FleetGone DEF Removed
  <1>3. \A S, T : S \subseteq T => WithBelow(S) \subseteq WithBelow(T)
    BY DEF WithBelow, Below
  <1>4. PICK S, T : S = tx.purge \cap DOMAIN db /\ T = (tx.del \cup tx.purge) \cap DOMAIN db
    OBVIOUS
  <1>5. S \subseteq T
    BY <1>4
  <1>6. WithBelow(WithBelow(S)) \subseteq WithBelow(WithBelow(T))
    BY <1>3, <1>5
  <1>7. WithBelow(WithBelow(WithBelow(WithBelow(S))))
          \subseteq WithBelow(WithBelow(WithBelow(WithBelow(T))))
    BY <1>3, <1>6
  <1>8. Gone(tx.purge) \subseteq Removed(tx)
    BY <1>4, <1>7 DEF Gone, Removed
  <1> QED BY <1>1, <1>2, <1>8

\* A row that is there afterwards, and is not one that a query has inserted.
LEMMA LandsRows ==
  ASSUME TablesInv, NEW tx, Lands(tx), NEW i \in DOMAIN db', i \notin Membership \cup Playing
  PROVE  /\ i \in DOMAIN tx.new => db'[i] = tx.new[i]
         /\ i \notin DOMAIN tx.new => i \in DOMAIN db \ (Removed(tx) \cup DOMAIN tx.new)
  <1>1. db' = After(tx) /\ TypedRows(tx, serial)
    BY DEF Lands
  <1>2. i \in DOMAIN tx.new => db'[i] = tx.new[i]
    BY <1>1, AfterRows
  <1>3. i \notin DOMAIN tx.bulk \ DOMAIN db
    BY <1>1 DEF TypedRows
  <1> QED BY <1>1, <1>2, <1>3, AfterRows

\* A row that is kept and not written is as it was, but for the references that are cleared.
LEMMA LeftAlone ==
  ASSUME TablesInv, NEW tx, db' = After(tx),
         NEW i \in DOMAIN db \ (Removed(tx) \cup DOMAIN tx.new),
         i \notin DOMAIN tx.set, i \notin DOMAIN tx.bulk,
         \A c \in ColumnsThat("clear", i) : db[i][c] = None \/ db[i][c] \notin Removed(tx)
  PROVE  i \in DOMAIN db' /\ db'[i] = db[i]
  <1>1. Written(tx, i) = db[i]
    BY DEF Written, ++
  <1>2. /\ i \in DOMAIN After(tx) /\ IsFunction(After(tx)[i])
        /\ DOMAIN After(tx)[i] = DOMAIN db[i]
        /\ \A c \in DOMAIN db[i] :
             After(tx)[i][c] =
               IF c \in ColumnsThat("clear", i) /\ Written(tx, i)[c] \in Removed(tx)
               THEN None ELSE Written(tx, i)[c]
    BY KeptRow
  <1>3. \A c \in DOMAIN db[i] : After(tx)[i][c] = db[i][c]
    BY <1>1, <1>2
  <1>4. IsFunction(db[i])
    BY DEF TablesInv, TablesTypeOK, IsRow
  <1>5. PICK f, g : f = After(tx)[i] /\ g = db[i]
    OBVIOUS
  <1>6. f = [c \in DOMAIN f |-> f[c]] /\ g = [c \in DOMAIN g |-> g[c]]
    BY <1>2, <1>4, <1>5 DEF IsFunction
  <1>7. DOMAIN f = DOMAIN g /\ \A c \in DOMAIN g : f[c] = g[c]
    BY <1>2, <1>3, <1>5
  <1>8. f = g
    BY <1>6, <1>7
  <1> QED BY <1>2, <1>5, <1>8

\* Cameras, devices, sites, teams and memberships stay as they were.
LEMMA LandsQuietly ==
  ASSUME TablesInv, NEW tx, Lands(tx),
         NEW i \in Camera \cup Device \cup Membership \cup Site \cup Team
  PROVE  /\ i \in DOMAIN db' <=> i \in DOMAIN db
         /\ i \in DOMAIN db => db'[i] = db[i]
  <1>1. db' = After(tx) /\ FleetWrites(tx)
    BY DEF Lands
  <1>2. i \notin Pc \cup Layout \cup WallRows \cup Playing
    BY FleetKeys
  <1>3. i \notin DOMAIN tx.new /\ i \notin DOMAIN tx.set /\ i \notin DOMAIN tx.bulk
    BY <1>1, <1>2 DEF FleetWrites, WallRows
  <1>4. i \notin Removed(tx)
    BY <1>2, LandsRemoved
  <1>5. ColumnsThat("clear", i) = {}
    BY <1>2, ClearedColumns DEF WallRows
  <1>6. i \in DOMAIN db => i \in DOMAIN db' /\ db'[i] = db[i]
    BY <1>1, <1>3, <1>4, <1>5, LeftAlone
  <1>7. i \in DOMAIN db' => i \in DOMAIN db
    BY <1>1, <1>3, AfterRows
  <1> QED BY <1>6, <1>7

\* So a camera fits a team as it did.
LEMMA LandsFitting ==
  ASSUME TablesInv, NEW tx, Lands(tx), NEW c \in Camera, NEW t \in Team
  PROVE  CameraFitsTeam(c, t)' <=> CameraFitsTeam(c, t)
  <1>1. ForeignKeysHold(db) /\ \A k \in DOMAIN db : IsRow(k, db[k])
    BY DEF TablesInv, TablesTypeOK
  <1>2. c \in DOMAIN db' <=> c \in DOMAIN db
    BY LandsQuietly
  <1>3. CASE c \in DOMAIN db
    <2>1. PICK d : d = db[c].device
      OBVIOUS
    <2>2. d \in Device /\ d \in DOMAIN db /\ db'[c].device = d
      BY <1>1, <1>3, <2>1, ForeignRows, LandsQuietly
    <2>3. PICK k : k = db[d].site
      OBVIOUS
    <2>4. k \in Site /\ db'[d].site = k
      BY <1>1, <2>2, <2>3, ForeignRows, LandsQuietly
    <2>5. <<k, t>> \in DOMAIN db' <=> <<k, t>> \in DOMAIN db
      <3>1. <<k, t>> \in Membership
        BY <2>4 DEF Membership
      <3> QED BY <3>1, LandsQuietly
    <2>6. SiteOfCamera(c) = k /\ SiteOfCamera(c)' = k
      BY <1>2, <1>3, <2>1, <2>2, <2>3, <2>4 DEF SiteOfCamera, Exists
    <2> QED BY <2>5, <2>6 DEF CameraFitsTeam, IsSiteInTeam, Exists
  <1>4. CASE c \notin DOMAIN db
    BY <1>2, <1>4 DEF CameraFitsTeam, SiteOfCamera, Exists
  <1> QED BY <1>3, <1>4

\* Layouts stay, and new ones are added.
LEMMA LandsLayouts ==
  ASSUME TablesInv, NEW tx, Lands(tx), NEW l \in Layout
  PROVE  /\ l \in DOMAIN db => l \in DOMAIN db' /\ l \notin DOMAIN tx.new /\ db'[l] = db[l]
         /\ l \in DOMAIN db' => Present(tx.new, l) /\ db'[l] = RowIn(tx.new, l)
  <1>1. db' = After(tx) /\ FleetWrites(tx) /\ Holds(tx)
    BY DEF Lands
  <1>2. l \notin Pc \cup WallRows \cup Membership \cup Playing
    BY FleetKeys
  <1>3. l \notin Removed(tx) /\ l \notin Gone(tx.purge)
    BY <1>2, LandsRemoved
  <1>4. l \notin DOMAIN tx.set /\ l \notin DOMAIN tx.bulk /\ ColumnsThat("clear", l) = {}
    BY <1>1, <1>2, ClearedColumns DEF FleetWrites, WallRows
  <1>5. l \in DOMAIN db => l \notin DOMAIN tx.new
    BY <1>1, <1>3 DEF Holds
  <1>6. l \in DOMAIN db => l \in DOMAIN db' /\ db'[l] = db[l]
    BY <1>1, <1>3, <1>4, <1>5, LeftAlone
  <1>7. l \in DOMAIN db' => Present(tx.new, l) /\ db'[l] = RowIn(tx.new, l)
    <2> SUFFICES ASSUME l \in DOMAIN db'
                 PROVE  Present(tx.new, l) /\ db'[l] = RowIn(tx.new, l)
      OBVIOUS
    <2>1. CASE l \in DOMAIN tx.new
      BY <1>2, <2>1, LandsRows DEF Present, RowIn
    <2>2. CASE l \notin DOMAIN tx.new
      BY <1>2, <1>6, <2>2, LandsRows DEF Present, RowIn, Exists
    <2> QED BY <2>1, <2>2
  <1> QED BY <1>5, <1>6, <1>7

\* Screens keep their layout and their name.
LEMMA LandsScreens ==
  ASSUME TablesInv, NEW tx, Lands(tx), NEW s \in ScreenId, s \in DOMAIN db'
  PROVE  /\ Present(tx.new, s)
         /\ db'[s].layout = RowIn(tx.new, s).layout /\ db'[s].name = RowIn(tx.new, s).name
  <1>1. db' = After(tx) /\ FleetWrites(tx)
    BY DEF Lands
  <1>2. s \notin Pc \cup Mapping \cup Membership \cup Playing
    BY OneTable
  <1>3. CASE s \in DOMAIN tx.new
    BY <1>2, <1>3, LandsRows DEF Present, RowIn
  <1>4. CASE s \notin DOMAIN tx.new
    <2>1. s \in DOMAIN db \ (Removed(tx) \cup DOMAIN tx.new)
      BY <1>2, <1>4, LandsRows
    <2>2. DOMAIN db[s] = DOMAIN ScreenRow /\ {"layout", "name"} \subseteq DOMAIN db[s]
      <3>1. IsRow(s, db[s]) /\ RowType(s) = ScreenRow
        BY <2>1, RowTypes DEF TablesInv, TablesTypeOK
      <3>2. {"layout", "name"} \subseteq DOMAIN ScreenRow
        BY DEF ScreenRow
      <3> QED BY <3>1, <3>2 DEF IsRow
    <2>3. \A c \in {"layout", "name"} : Written(tx, s)[c] = db[s][c]
      <3>1. s \notin DOMAIN tx.bulk
        BY <1>1, <1>2 DEF FleetWrites
      <3>2. s \in DOMAIN tx.set => DOMAIN tx.set[s] \subseteq {"rows", "cols"}
        BY <1>1, <1>2 DEF FleetWrites
      <3> QED BY <2>2, <3>1, <3>2 DEF Written, ++
    <2>4. ColumnsThat("clear", s) = {}
      BY <1>2, ClearedColumns
    <2>5. \A c \in {"layout", "name"} : db'[s][c] = db[s][c]
      BY <1>1, <2>1, <2>2, <2>3, <2>4, KeptRow
    <2>6. RowIn(tx.new, s) = db[s] /\ Present(tx.new, s)
      BY <1>4, <2>1 DEF RowIn, Present, Exists
    <2> QED BY <2>5, <2>6
  <1> QED BY <1>3, <1>4

\* A request that goes on finds what it has made.
LEMMA CourseAfter ==
  ASSUME TablesInv, TablesInv', NEW tx, Lands(tx), NEW op, NEW then, NEW arg,
         then # None, Memory(op, then, arg), Course(op, tx, then, arg), None \notin ConfigureSteps
  PROVE  Course(then, None, None, arg)'
  <1> SUFFICES ASSUME then \in ConfigureSteps
               PROVE  Course(then, None, None, arg)'
    BY DEF Course, Ahead
  <1> DEFINE none == <<>>
  <1>1. /\ arg \in SetUpArg
        /\ then \in {"configure.grid", "configure.views"} => arg.screen \in ScreenId
    BY DEF Memory, Ahead
  <1>2. /\ then \in {"configure.grid", "configure.views"} => Own(tx.new, arg, arg.screen)
        /\ \A n \in DOMAIN arg.views : Own(tx.new, arg, arg.views[n][1])
        /\ Present(tx.new, arg.layout) =>
             \A n \in DOMAIN arg.cameras :
               CameraFitsTeam(arg.cameras[n], RowIn(tx.new, arg.layout).team)
    BY DEF Course, Ahead, Coming
  <1>3. ASSUME NEW s \in ScreenId, Own(tx.new, arg, s)
        PROVE  Own(<<>>, arg, s)'
    <2> SUFFICES ASSUME s \in DOMAIN db'
                 PROVE  MayChange(arg, db'[s])
      BY DEF Own, Present, RowIn, Exists
    <2>1. /\ Present(tx.new, s) /\ db'[s].layout = RowIn(tx.new, s).layout
          /\ db'[s].name = RowIn(tx.new, s).name
      BY LandsScreens
    <2> QED BY <1>3, <2>1 DEF Own, MayChange
  <1>4. \A n \in DOMAIN arg.views : arg.views[n][1] \in ScreenId
    <2>1. arg.views \in Seq(ScreenId \X (1..MaxIndex))
      BY <1>1 DEF SetUpArg
    <2> QED BY <2>1
  <1>5. ASSUME Present(<<>>, arg.layout)', NEW n \in DOMAIN arg.cameras
        PROVE  CameraFitsTeam(arg.cameras[n], RowIn(<<>>, arg.layout).team)'
    <2>1. PICK l, c, t : l = arg.layout /\ c = arg.cameras[n] /\ t = db'[l].team
      OBVIOUS
    <2>2. l \in Layout /\ c \in Camera
      <3>1. arg.layout \in Layout /\ arg.cameras \in Seq(Camera)
        BY <1>1 DEF SetUpArg
      <3> QED BY <2>1, <3>1
    <2>3. l \in DOMAIN db'
      BY <1>5, <2>1 DEF Present, Exists
    <2>4. Present(tx.new, l) /\ db'[l] = RowIn(tx.new, l)
      BY <2>2, <2>3, LandsLayouts
    <2>5. t \in Team
      BY <2>1, <2>2, <2>3, RowsInOrder, ForeignRows
    <2>6. CameraFitsTeam(c, t)
      BY <1>2, <2>1, <2>4
    <2>7. CameraFitsTeam(c, t)'
      BY <2>2, <2>5, <2>6, LandsFitting
    <2> QED BY <2>1, <2>7 DEF RowIn
  <1>6. Coming(None, None) = <<>>
    BY DEF Coming
  <1>7. /\ Ahead(then, None, {"configure.grid", "configure.views"}) =>
             Own(<<>>, arg, arg.screen)'
        /\ \A n \in DOMAIN arg.views : Own(<<>>, arg, arg.views[n][1])'
        /\ Present(<<>>, arg.layout)' =>
             \A n \in DOMAIN arg.cameras :
               CameraFitsTeam(arg.cameras[n], RowIn(<<>>, arg.layout).team)'
    BY <1>1, <1>2, <1>3, <1>4, <1>5 DEF Ahead
  <1> QED BY <1>6, <1>7 DEF Course
-----------------------------------------------------------------------------
(* Every step keeps the invariant *)

\* The plan and the course stay as long as no row changes.
LEMMA SameRules ==
  ASSUME db' = db
  PROVE  /\ \A i : Exists(i)' <=> Exists(i)
         /\ \A c, t : CameraFitsTeam(c, t)' <=> CameraFitsTeam(c, t)
         /\ \A new, i : (Present(new, i)' <=> Present(new, i)) /\ RowIn(new, i)' = RowIn(new, i)
  BY DEF CameraFitsTeam, IsSiteInTeam, SiteOfCamera, Present, RowIn, Exists

LEMMA CourseLater ==
  ASSUME db' = db, NEW op, NEW tx, NEW then, NEW arg, Course(op, tx, then, arg)
  PROVE  Course(op, tx, then, arg)'
  BY SameRules DEF Course, Own

LEMMA PcsPlanLater ==
  ASSUME db' = db, NEW op, NEW tx, PcsPlan(op, tx)
  PROVE  PcsPlan(op, tx)'
  <1>1. \A m : MayLead(m)' <=> MayLead(m)
    BY SameRules DEF MayLead, IsManager
  <1>2. \A p, columns : KeepsTheTeam(p, columns)' <=> KeepsTheTeam(p, columns)
    BY SameRules DEF KeepsTheTeam, Given
  <1> QED BY <1>1, <1>2, SameRules DEF PcsPlan, ColumnsWritten

LEMMA FleetPlanLater ==
  ASSUME db' = db, NEW op, NEW tx, NEW arg, FleetPlan(op, tx, arg)
  PROVE  FleetPlan(op, tx, arg)'
  <1>1. FleetWrites(tx)'
    BY DEF FleetPlan, FleetWrites
  <1>2. CamerasPlaced(tx)'
    BY SameRules DEF FleetPlan, CamerasPlaced
  <1>3. OthersSpared(op, tx, arg)'
    BY SameRules DEF FleetPlan, OthersSpared, Rows
  <1> QED BY <1>1, <1>2, <1>3 DEF FleetPlan

LEMMA FleetPlannedLater ==
  ASSUME db' = db, NEW j, NEW k, FleetPlanned(j),
         k.op = j.op, k.tx = j.tx, k.then = j.then, k.arg = j.arg
  PROVE  FleetPlanned(k)'
  <1>1. PICK op, tx, arg : op = j.op /\ tx = j.tx /\ arg = j.arg
    OBVIOUS
  <1>2. PcsPlan(op, tx)'
    <2>1. PcsPlan(op, tx)
      BY <1>1 DEF FleetPlanned
    <2> QED BY <2>1, PcsPlanLater
  <1>3. CASE FleetPlan(j.op, j.tx, j.arg)
    <2>1. FleetPlan(op, tx, arg)
      BY <1>1, <1>3
    <2>2. FleetPlan(op, tx, arg)'
      BY <2>1, FleetPlanLater
    <2> QED BY <1>1, <1>2, <2>2 DEF FleetPlanned
  <1>4. CASE Plan(j) /\ j.op \notin SetUps /\ j.then = None
    <2>1. Plan(k)'
      BY <1>4, PlanLater
    <2> QED BY <1>1, <1>2, <1>4, <2>1 DEF FleetPlanned
  <1> QED BY <1>3, <1>4 DEF FleetPlanned

\* What the invariant says of a job.
OnPlan(j) ==
  /\ Memory(j.op, j.then, j.arg)
  /\ j.alone => /\ Course(j.op, j.tx, j.then, j.arg)
                /\ j.tx # None => FleetPlanned(j)

LEMMA OnPlanLater ==
  ASSUME db' = db, NEW j, NEW k, OnPlan(j), k.alone => j.alone,
         k.op = j.op, k.tx = j.tx, k.then = j.then, k.arg = j.arg
  PROVE  OnPlan(k)'
  <1>1. PICK op, tx, then, arg : op = j.op /\ tx = j.tx /\ then = j.then /\ arg = j.arg
    OBVIOUS
  <1>2. Memory(op, then, arg)'
    BY <1>1 DEF OnPlan, Memory
  <1>3. k.alone => Course(op, tx, then, arg)'
    BY <1>1, CourseLater DEF OnPlan
  <1>4. k.alone /\ k.tx # None => FleetPlanned(k)'
    BY FleetPlannedLater DEF OnPlan
  <1> QED BY <1>1, <1>2, <1>3, <1>4 DEF OnPlan

\* Memory says nothing of the rows.
LEMMA MemoryLater ==
  ASSUME NEW op, NEW then, NEW arg, Memory(op, then, arg)
  PROVE  Memory(op, then, arg)'
  BY DEF Memory

\* A request that reads on, or begins to.
LEMMA ReadiesKeeps ==
  ASSUME FleetInv, NEW w \in Worker, FleetReadies(w)
  PROVE  FleetInv'
  <1>1. TablesInv /\ \A v \in Worker : job[v] # Idle => OnPlan(job[v])
    BY DEF FleetInv, OnPlan
  <1>2. PICK j : /\ Prepares(w, j) /\ Memory(j.op, j.then, j.arg)
                 /\ j.alone => Course(j.op, j.tx, j.then, j.arg) /\ FleetPlanned(j)
    BY DEF FleetReadies
  <1>3. TablesInv'
    BY <1>1, <1>2, PreparesKeepsTables
  <1>4. db' = db /\ job'[w] = j /\ \A v \in Worker \ {w} : job'[v] = job[v]
    BY <1>1, <1>2 DEF Prepares, TablesInv
  <1>5. ASSUME NEW v \in Worker, job'[v] # Idle
        PROVE  OnPlan(job[v])'
    <2>1. PICK k : k = job'[v]
      OBVIOUS
    <2>2. OnPlan(k)
      BY <1>1, <1>2, <1>4, <1>5, <2>1 DEF OnPlan
    <2>3. OnPlan(k)'
      BY <1>4, <2>2, OnPlanLater
    <2> QED BY <2>1, <2>3
  <1> QED BY <1>3, <1>5 DEF FleetInv, OnPlan

LEMMA AnswersKeeps ==
  ASSUME FleetInv, NEW w \in Worker, Answers(w)
  PROVE  FleetInv'
  <1>1. TablesInv /\ \A v \in Worker : job[v] # Idle => OnPlan(job[v])
    BY DEF FleetInv, OnPlan
  <1>2. TablesInv'
    BY <1>1, AnswersKeepsTables
  <1>3. db' = db /\ job'[w] = Idle /\ \A v \in Worker \ {w} : job'[v] = job[v]
    BY <1>1 DEF Answers, TablesInv
  <1>4. ASSUME NEW v \in Worker, job'[v] # Idle
        PROVE  OnPlan(job[v])'
    <2>1. PICK k : k = job'[v]
      OBVIOUS
    <2>2. OnPlan(k)
      BY <1>1, <1>3, <1>4, <2>1
    <2>3. OnPlan(k)'
      BY <1>3, <2>2, OnPlanLater
    <2> QED BY <2>1, <2>3
  <1> QED BY <1>2, <1>4 DEF FleetInv, OnPlan

\* The next transaction of the request that commits.
LEMMA NextOnPlan ==
  ASSUME FleetInv, TablesInv', NEW w \in Worker, Commit(w), job'[w] # Idle
  PROVE  OnPlan(job[w])'
  <1>1. TablesInv /\ OnPlan(job[w]) /\ job[w] # Idle /\ job[w].tx # None
    BY DEF FleetInv, OnPlan, Commit, Active
  <1>2. PICK j, k : j = job[w] /\ k = job'[w]
    OBVIOUS
  <1>3. PICK op, tx, then, arg : op = j.op /\ tx = j.tx /\ then = j.then /\ arg = j.arg
    OBVIOUS
  <1>4. /\ then # None /\ k.op = then /\ k.tx = None /\ k.then = None
        /\ k.arg = arg /\ k.alone = j.alone
    BY <1>1, <1>2, <1>3, JobsAfterCommit
  <1>5. Memory(op, then, arg)
    BY <1>1, <1>2, <1>3 DEF OnPlan
  <1>6. None \notin ConfigureSteps
    BY FleetAssumption
  <1>7. Memory(then, None, arg)'
    BY <1>4, <1>5 DEF Memory, Ahead
  <1>8. ASSUME k.alone
        PROVE  Course(then, None, None, arg)'
    <2>1. Course(op, tx, then, arg) /\ FleetPlanned(j)
      BY <1>1, <1>2, <1>3, <1>4, <1>8 DEF OnPlan
    <2>2. FleetWrites(tx)
      BY <1>3, <1>4, <2>1 DEF FleetPlanned, FleetPlan
    <2>3. TypedRows(tx, serial) /\ Holds(tx) /\ db' = After(tx)
      BY <1>1, <1>2, <1>3 DEF TablesInv, JobTyped, Commit
    <2>4. Lands(tx)
      BY <2>2, <2>3 DEF Lands
    <2> QED BY <1>1, <1>4, <1>5, <1>6, <2>1, <2>4, CourseAfter
  <1>9. OnPlan(k)'
    BY <1>4, <1>7, <1>8 DEF OnPlan
  <1> QED BY <1>2, <1>9

LEMMA CommitKeeps ==
  ASSUME FleetInv, NEW w \in Worker, Commit(w)
  PROVE  FleetInv'
  <1>1. TablesInv /\ \A v \in Worker : job[v] # Idle => OnPlan(job[v])
    BY DEF FleetInv, OnPlan
  <1>2. TablesInv'
    BY <1>1, CommitKeepsTables
  <1>3. ASSUME NEW v \in Worker \ {w}, job'[v] # Idle
        PROVE  OnPlan(job[v])'
    <2>1. PICK j, k : j = job[v] /\ k = job'[v]
      OBVIOUS
    <2>2. /\ job[v] # Idle /\ k.op = j.op /\ k.tx = j.tx /\ k.then = j.then /\ k.arg = j.arg
          /\ k.alone = (j.alone /\ db' = db)
      BY <1>1, <1>3, <2>1, JobsAfterCommit
    <2>3. OnPlan(j)
      BY <1>1, <2>1, <2>2
    <2>4. CASE db' = db
      <3>1. OnPlan(k)'
        BY <2>2, <2>3, <2>4, OnPlanLater
      <3> QED BY <2>1, <3>1
    <2>5. CASE db' # db
      <3>1. PICK op, then, arg : op = j.op /\ then = j.then /\ arg = j.arg
        OBVIOUS
      <3>2. Memory(op, then, arg)'
        BY <2>3, <3>1, MemoryLater DEF OnPlan
      <3>3. ~k.alone
        BY <2>2, <2>5
      <3>4. OnPlan(k)'
        BY <2>2, <3>1, <3>2, <3>3 DEF OnPlan
      <3> QED BY <2>1, <3>4
    <2> QED BY <2>4, <2>5
  <1>4. job'[w] # Idle => OnPlan(job[w])'
    BY <1>2, NextOnPlan
  <1>5. \A v \in Worker : (job[v] # Idle => OnPlan(job[v]))'
    BY <1>3, <1>4
  <1> QED BY <1>2, <1>5 DEF FleetInv, OnPlan

\* To begin with nobody works.
LEMMA FleetBegins ==
  ASSUME Tables0
  PROVE  FleetInv
  <1>1. \A w \in Worker : job[w] = Idle
    BY DEF Tables0
  <1> QED BY <1>1, TablesInit DEF FleetInv

LEMMA FleetStep ==
  ASSUME FleetInv, [FleetNext]_tableVars
  PROVE  FleetInv'
  <1>1. CASE FleetNext
    <2>1. PICK w \in Worker :
            FleetRequest(w) \/ EditRequest(w) \/ Commit(w) \/ Refused(w) \/ RequestFails(w)
      BY <1>1 DEF FleetNext
    <2>2. CASE FleetRequest(w) \/ EditRequest(w)
      <3>1. Answers(w) \/ FleetReadies(w)
        BY <2>2, FleetRequestsPlan, EditRequestsPlan DEF FleetInv
      <3> QED BY <3>1, ReadiesKeeps, AnswersKeeps
    <2>3. CASE Commit(w)
      BY <2>3, CommitKeeps
    <2>4. CASE Refused(w) \/ RequestFails(w)
      BY <2>4, AnswersKeeps DEF Refused, RequestFails
    <2> QED BY <2>1, <2>2, <2>3, <2>4
  <1>2. CASE UNCHANGED tableVars
    <2>1. db' = db /\ job' = job /\ serial' = serial /\ requests' = requests
      BY <1>2 DEF tableVars
    <2>2. TablesInv'
      BY <1>2, TablesStep DEF FleetInv
    <2>3. ASSUME NEW v \in Worker, job'[v] # Idle
          PROVE  OnPlan(job[v])'
      <3>1. PICK k : k = job'[v]
        OBVIOUS
      <3>2. OnPlan(k)
        BY <2>1, <2>3, <3>1 DEF FleetInv, OnPlan
      <3>3. OnPlan(k)'
        BY <2>1, <3>2, OnPlanLater
      <3> QED BY <3>1, <3>3
    <2> QED BY <2>2, <2>3 DEF FleetInv, OnPlan
  <1> QED BY <1>1, <1>2

\* What a request of Fleet has read and remembers is still so when it goes on, and what it
\* has checked when it commits, unless another one has changed a row in between: the
\* inductive invariant (pc_screen_configurator.py, config_importer.py, pcs.py).
THEOREM FleetKeepsToItsPlans == FleetSpec => []FleetInv
  BY FleetBegins, FleetStep, PTL DEF FleetSpec

\* The tables are in order while PCs are set up (app/models).
THEOREM FleetStaysTyped == FleetSpec => []TablesTypeOK
  <1>1. FleetInv => TablesTypeOK
    BY DEF FleetInv, TablesInv
  <1> QED BY <1>1, FleetKeepsToItsPlans, PTL

\* While PCs are set up and their walls are edited, a PC is sent every camera that is placed
\* within the grid of a screen of its layout, in its view and slot, and no other
\* (config_generator.py:180-330).
THEOREM FleetShowsTheWall == FleetSpec => []ConfigShowsTheWall
  <1>1. TablesTypeOK => ConfigShowsTheWall
    BY TablesShowTheWall
  <1> QED BY <1>1, FleetStaysTyped, PTL
-----------------------------------------------------------------------------
(* The teams of PCs and of what they show *)

\* The transaction of job j, which keeps to its plan, is committed.
FleetCommitted(j) ==
  FleetPlanned(j) /\ TypedRows(j.tx, serial) /\ Holds(j.tx) /\ db' = After(j.tx)

\* Rows change by one commit: of a request that was overtaken, or according to the plan.
LEMMA FleetRowsChange ==
  ASSUME FleetInv, [FleetNext]_tableVars, db' # db
  PROVE  \E w \in Worker :
           /\ Commits(w) /\ \A v \in Worker : Commits(v) => v = w
           /\ Overlapped(w) \/ (job[w].alone /\ \E j : j = job[w] /\ FleetCommitted(j))
  <1>1. ASSUME NEW w \in Worker, FleetRequest(w) \/ EditRequest(w)
        PROVE  FALSE
    <2>1. Answers(w) \/ FleetReadies(w)
      BY <1>1, FleetRequestsPlan, EditRequestsPlan DEF FleetInv
    <2> QED BY <2>1 DEF Answers, FleetReadies, Prepares
  <1>2. PICK w \in Worker : Commit(w)
    BY <1>1 DEF FleetNext, tableVars, Refused, RequestFails, Answers
  <1>3. Commits(w)
    BY <1>2, JobsAfterCommit DEF Commits, Commit, FleetInv
  <1>4. ASSUME job[w].alone
        PROVE  \E j : j = job[w] /\ FleetCommitted(j)
    <2>1. PICK j : j = job[w]
      OBVIOUS
    <2>2. FleetPlanned(j)
      BY <1>2, <1>4, <2>1 DEF FleetInv, Commit, Active
    <2>3. TypedRows(j.tx, serial) /\ Holds(j.tx) /\ db' = After(j.tx)
      BY <1>2, <2>1 DEF FleetInv, TablesInv, JobTyped, Commit, Active
    <2> QED BY <2>1, <2>2, <2>3 DEF FleetCommitted
  <1>5. ASSUME NEW v \in Worker, Commits(v), v # w
        PROVE  FALSE
    <2>1. job[v] # Idle /\ job[v].tx # None /\ (job'[v] = Idle \/ job'[v].tx = None)
      BY <1>5 DEF Commits, Active
    <2>2. job'[v].tx = job[v].tx
      BY <1>2, <1>5, <2>1, JobsAfterCommit DEF FleetInv
    <2> QED BY <2>1, <2>2 DEF Idle
  <1> QED BY <1>3, <1>4, <1>5 DEF Overlapped

\* A commit of Fleet shows no camera on a layout of another team.
LEMMA FleetMisplaces ==
  ASSUME TablesInv, TablesInv', NEW tx, Lands(tx), CamerasPlaced(tx)
  PROVE  Misplaced' \subseteq Misplaced
  <1> SUFFICES ASSUME NEW m, m \in Misplaced'
               PROVE  m \in Misplaced
    OBVIOUS
  <1>1. PICK v, s, c, l, t :
          /\ v = db'[m].view /\ s = db'[m].screen /\ c = db'[m].camera
          /\ l = db'[s].layout /\ t = db'[l].team
    OBVIOUS
  <1>2. /\ m \in Mapping /\ m \in DOMAIN db' /\ db'[v].screen = s
        /\ c # None /\ ~CameraFitsScreen(c, s)'
    BY <1>1 DEF Misplaced, Rows, OnItsView, CameraFitsScreen, CameraFitsTeam, IsSiteInTeam,
                TeamOfScreen, TeamOfLayout, SiteOfCamera, Exists
  <1>3. /\ v \in ViewId /\ v \in DOMAIN db' /\ s \in ScreenId /\ s \in DOMAIN db'
        /\ c \in Camera /\ c \in DOMAIN db'
    BY <1>1, <1>2, RowsInOrder, ForeignRows
  <1>4. /\ l \in Layout /\ l \in DOMAIN db' /\ t \in Team
    <2>1. l \in Layout /\ l \in DOMAIN db'
      BY <1>1, <1>3, RowsInOrder, ForeignRows
    <2> QED BY <1>1, <2>1, RowsInOrder, ForeignRows
  <1>5. ~CameraFitsTeam(c, t)
    <2>1. TeamOfScreen(s)' = t
      BY <1>1, <1>3, <1>4 DEF TeamOfScreen, TeamOfLayout, Exists
    <2>2. ~CameraFitsTeam(c, t)'
      BY <1>1, <1>2, <2>1 DEF CameraFitsScreen
    <2> QED BY <1>3, <1>4, <2>2, LandsFitting
  <1>6. /\ Present(tx.new, s) /\ l = RowIn(tx.new, s).layout
        /\ Present(tx.new, l) /\ db'[l] = RowIn(tx.new, l)
    BY <1>1, <1>3, <1>4, LandsScreens, LandsLayouts
  <1>7. m \notin Membership \cup Playing /\ v \notin Membership \cup Playing
        /\ m \notin Pc \cup ScreenId
        /\ s \notin Membership \cup Playing
    BY <1>2, <1>3, OneTable
  <1>8. m \notin DOMAIN tx.new
    <2> SUFFICES ASSUME m \in DOMAIN tx.new
                 PROVE  FALSE
      OBVIOUS
    <2>1. db'[m] = tx.new[m]
      BY <1>2, <1>7, LandsRows
    <2> QED BY <1>1, <1>2, <1>5, <1>6, <2>1 DEF CamerasPlaced
  <1>9. m \in DOMAIN db \ (Removed(tx) \cup DOMAIN tx.new)
    BY <1>2, <1>7, <1>8, LandsRows
  <1>10. db[m].view = v /\ db[m].screen = s /\ db[m].camera = c
    <2>1. IsRow(m, db[m]) /\ RowType(m) = MappingRow
      BY <1>2, <1>9, RowTypes DEF TablesInv, TablesTypeOK
    <2>2. {"screen", "view", "camera"} \subseteq DOMAIN db[m]
      <3>1. {"screen", "view", "camera"} \subseteq DOMAIN MappingRow
        BY DEF MappingRow
      <3> QED BY <2>1, <3>1 DEF IsRow
    <2>3. m \notin DOMAIN tx.set /\ m \notin DOMAIN tx.bulk
      BY <1>7 DEF Lands, FleetWrites
    <2>4. Written(tx, m) = db[m]
      BY <2>3 DEF Written, ++
    <2>5. \A d \in {"screen", "view", "camera"} : d \notin ColumnsThat("clear", m)
      BY <1>7, ClearedColumns
    <2>6. \A d \in {"screen", "view", "camera"} : After(tx)[m][d] = db[m][d]
      BY <1>9, <2>2, <2>4, <2>5, KeptRow
    <2> QED BY <1>1, <2>6 DEF Lands
  <1>11. m \in Rows(Mapping) /\ v \in DOMAIN db /\ s \in DOMAIN db /\ c \in DOMAIN db
    BY <1>2, <1>3, <1>9, <1>10, RowsInOrder, ForeignRows DEF Rows
  <1>12. m \notin Gone(tx.purge)
    BY <1>9, LandsRemoved
  <1>13. s \notin DOMAIN tx.new
    <2> SUFFICES ASSUME s \in Gone(tx.purge)
                 PROVE  FALSE
      BY <1>11 DEF Lands, Holds
    <2>1. s \in tx.purge
      BY <1>3, LandsRemoved, WallGone
    <2> QED BY <1>10, <1>11, <1>12, <2>1, LandsRemoved, MappingGone
  <1>14. v \notin DOMAIN tx.new
    <2> SUFFICES ASSUME v \in Gone(tx.purge)
                 PROVE  FALSE
      BY <1>11 DEF Lands, Holds
    <2>1. v \in tx.purge \/ db[v].screen \in tx.purge
      BY <1>3, LandsRemoved, WallGone
    <2> QED BY <1>10, <1>11, <1>12, <2>1, LandsRemoved, MappingGone
  <1>15. db[v].screen = s
    <2>1. v \in DOMAIN db \ (Removed(tx) \cup DOMAIN tx.new)
      BY <1>3, <1>7, <1>14, LandsRows
    <2>2. v \notin DOMAIN tx.set /\ v \notin DOMAIN tx.bulk /\ ColumnsThat("clear", v) = {}
      BY <1>3, OneTable, ClearedColumns DEF Lands, FleetWrites
    <2>3. db'[v] = db[v]
      BY <2>1, <2>2, LeftAlone DEF Lands
    <2> QED BY <1>2, <2>3
  <1>16. db[s].layout = l
    BY <1>6, <1>13 DEF RowIn
  <1>17. l \in DOMAIN db /\ db[l].team = t
    <2>1. l \in DOMAIN db
      BY <1>3, <1>11, <1>16, RowsInOrder, ForeignRows
    <2> QED BY <1>1, <1>4, <2>1, LandsLayouts
  <1>18. ~CameraFitsScreen(c, s)
    <2>1. TeamOfScreen(s) = t
      BY <1>11, <1>16, <1>17 DEF TeamOfScreen, TeamOfLayout, Exists
    <2>2. t # None
      BY <1>4, TablesAssumption
    <2> QED BY <1>5, <2>1, <2>2 DEF CameraFitsScreen
  <1> QED BY <1>2, <1>10, <1>11, <1>15, <1>18 DEF Misplaced, OnItsView

\* Rule 1 of team_enforcement.py while PCs are set up: a camera comes to be shown on a
\* layout of a team that does not have its site only by the operations that do not ask, or
\* by requests that overtake each other.
THEOREM FleetKeepsPlacements == FleetSpec => PlacementsKeepTheTeam
  <1> DEFINE Ops == {"slot.assigned", "screen.moved", "device.moved", "camera.moved"}
  <1>1. ASSUME FleetInv, FleetInv', [FleetNext]_tableVars
        PROVE  \/ Misplaced' \subseteq Misplaced
               \/ \E w \in Worker : Overlapped(w) \/ CommitsOneOf(w, Ops)
    <2>1. TablesInv /\ TablesInv'
      BY <1>1 DEF FleetInv
    <2>2. CASE db' = db
      BY <2>2 DEF Misplaced, Rows, OnItsView, CameraFitsScreen, CameraFitsTeam, IsSiteInTeam,
                  TeamOfScreen, TeamOfLayout, SiteOfCamera, Exists
    <2>3. CASE db' # db
      <3>1. PICK w \in Worker :
              /\ Commits(w)
              /\ Overlapped(w) \/ (job[w].alone /\ \E j : j = job[w] /\ FleetCommitted(j))
        BY <1>1, <2>3, FleetRowsChange
      <3>2. CASE Overlapped(w)
        BY <3>2
      <3>3. CASE job[w].op \in Ops
        BY <3>1, <3>3 DEF CommitsOneOf
      <3>4. CASE ~Overlapped(w) /\ job[w].op \notin Ops
        <4>1. PICK j : j = job[w] /\ FleetCommitted(j)
          BY <3>1, <3>4
        <4>2. /\ j.op # "slot.assigned" /\ j.op # "screen.moved"
              /\ j.op # "device.moved" /\ j.op # "camera.moved"
          BY <3>4, <4>1
        <4>3. PICK tx : tx = j.tx
          OBVIOUS
        <4>4. CASE FleetPlan(j.op, j.tx, j.arg)
          <5>1. Lands(tx) /\ CamerasPlaced(tx)
            BY <4>1, <4>3, <4>4 DEF FleetCommitted, FleetPlan, Lands
          <5> QED BY <2>1, <5>1, FleetMisplaces
        <4>5. CASE Plan(j)
          <5>1. Committed(j)
            BY <4>1, <4>5 DEF FleetCommitted, Committed, Plan, Typed
          <5> QED BY <2>1, <4>2, <5>1, MisplacedAfter
        <4> QED BY <4>1, <4>4, <4>5 DEF FleetCommitted, FleetPlanned
      <3> QED BY <3>2, <3>3, <3>4
    <2> QED BY <2>2, <2>3
  <1>2. FleetInv /\ FleetInv' /\ [FleetNext]_tableVars =>
          [\/ Misplaced' \subseteq Misplaced
           \/ \E w \in Worker :
                \/ Overlapped(w)
                \/ CommitsOneOf(w, {"slot.assigned", "screen.moved",
                                    "device.moved", "camera.moved"})]_tableVars
    BY <1>1
  <1> QED BY <1>2, FleetKeepsToItsPlans, PTL DEF FleetSpec, PlacementsKeepTheTeam

\* A transaction that keeps to the plan for PCs is committed.
PcsLand(op, tx) ==
  PcsPlan(op, tx) /\ TypedRows(tx, serial) /\ Holds(tx) /\ db' = After(tx)

\* A PC or layout that is there afterwards is new, or has stayed.
LEMMA PcsStay ==
  ASSUME TablesInv, NEW op, NEW tx, PcsLand(op, tx), NEW i \in Pc \cup Layout, i \in DOMAIN db'
  PROVE  /\ i \in DOMAIN db => i \in DOMAIN db \ (Removed(tx) \cup DOMAIN tx.new)
         /\ i \in DOMAIN tx.new => db'[i] = tx.new[i]
         /\ i \notin DOMAIN tx.new => i \in DOMAIN db
  <1>1. TypedRows(tx, serial) /\ Holds(tx) /\ db' = After(tx) /\ i \notin tx.purge
    BY DEF PcsLand, PcsPlan
  <1>2. i \notin Gone(tx.purge)
    BY <1>1, GoneAlone
  <1>3. i \notin DOMAIN tx.new \/ i \notin DOMAIN db
    BY <1>1, <1>2 DEF Holds
  <1>4. i \notin DOMAIN tx.bulk \ DOMAIN db
    <2>1. i \notin Membership \cup Playing
      BY FleetKeys
    <2> QED BY <1>1, <2>1 DEF TypedRows
  <1>5. i \in DOMAIN tx.new => db'[i] = tx.new[i]
    BY <1>1, AfterRows
  <1>6. i \in DOMAIN tx.new \cup (DOMAIN db \ Removed(tx))
    BY <1>1, <1>4, AfterRows
  <1> QED BY <1>3, <1>5, <1>6

\* A layout that has stayed is of the team it was, unless it is given to another.
LEMMA LayoutsStay ==
  ASSUME TablesInv, NEW op, NEW tx, PcsLand(op, tx), op # "layout.updated",
         NEW l \in Layout, l \in DOMAIN db', l \in DOMAIN db
  PROVE  db'[l].team = db[l].team
  <1>1. l \in DOMAIN db \ (Removed(tx) \cup DOMAIN tx.new)
    BY PcsStay
  <1>2. "team" \notin ColumnsWritten(tx, l)
    BY DEF PcsLand, PcsPlan
  <1>3. "team" \in DOMAIN db[l]
    <2>1. IsRow(l, db[l]) /\ RowType(l) = LayoutRow
      BY RowTypes DEF TablesInv, TablesTypeOK
    <2> QED BY <2>1 DEF IsRow, LayoutRow
  <1>4. Written(tx, l)["team"] = db[l]["team"]
    BY <1>2, <1>3 DEF Written, ColumnsWritten, ++
  <1>5. ColumnsThat("clear", l) = {}
    <2>1. l \notin Pc /\ l \notin Mapping
      BY OneTable
    <2> QED BY <2>1, ClearedColumns
  <1>6. After(tx)[l]["team"] = db[l]["team"]
    BY <1>1, <1>3, <1>4, <1>5, KeptRow
  <1> QED BY <1>6 DEF PcsLand

\* The columns of a PC that has stayed: as they were, as the transaction writes them, or
\* cleared.
LEMMA PcColumns ==
  ASSUME TablesInv, NEW op, NEW tx, PcsLand(op, tx),
         NEW p \in Pc, p \in DOMAIN db', p \in DOMAIN db
  PROVE  /\ \A c \in {"team", "role"} :
              db'[p][c] = IF p \in DOMAIN tx.set THEN Given(tx.set[p], db[p], c) ELSE db[p][c]
         /\ \A c \in {"layout", "manager"} :
              \/ db'[p][c] = None
              \/ /\ p \in DOMAIN tx.bulk => c = "manager" /\ db'[p][c] = db[p][c]
                 /\ p \in DOMAIN tx.set => db'[p][c] = Given(tx.set[p], db[p], c)
                 /\ p \notin DOMAIN tx.set \cup DOMAIN tx.bulk => db'[p][c] = db[p][c]
              \/ p \in DOMAIN tx.bulk /\ c = "layout" /\ db'[p][c] = tx.bulk[p].layout
  <1>1. p \in DOMAIN db \ (Removed(tx) \cup DOMAIN tx.new)
    BY PcsStay
  <1>2. {"team", "role", "layout", "manager"} \subseteq DOMAIN db[p]
    BY PcRows DEF Rows
  <1>3. /\ p \in DOMAIN tx.bulk => DOMAIN tx.bulk[p] = {"layout"} /\ p \notin DOMAIN tx.set
        /\ db' = After(tx)
    BY DEF PcsLand, PcsPlan
  <1>4. ColumnsThat("clear", p) = {"layout", "manager"}
    <2>1. References(p) = [team |-> "refuse", layout |-> "clear", manager |-> "clear"]
      BY ReferencesOf
    <2> QED BY <2>1 DEF ColumnsThat
  <1>5. ASSUME NEW c \in {"team", "role", "layout", "manager"}
        PROVE  /\ p \in DOMAIN tx.set => Written(tx, p)[c] = Given(tx.set[p], db[p], c)
               /\ p \in DOMAIN tx.bulk =>
                    Written(tx, p)[c] = IF c = "layout" THEN tx.bulk[p].layout ELSE db[p][c]
               /\ p \notin DOMAIN tx.set \cup DOMAIN tx.bulk => Written(tx, p)[c] = db[p][c]
    <2>1. CASE p \in DOMAIN tx.set
      <3>1. p \notin DOMAIN tx.bulk
        BY <1>3, <2>1
      <3>2. Written(tx, p) = tx.set[p] ++ db[p]
        BY <2>1 DEF Written, ++
      <3>3. Written(tx, p)[c] = Given(tx.set[p], db[p], c)
        BY <1>2, <3>2 DEF Given, ++
      <3> QED BY <2>1, <3>1, <3>3
    <2>2. CASE p \in DOMAIN tx.bulk
      <3>1. p \notin DOMAIN tx.set /\ DOMAIN tx.bulk[p] = {"layout"}
        BY <1>3, <2>2
      <3>2. Written(tx, p) = tx.bulk[p] ++ db[p]
        BY <2>2, <3>1 DEF Written, ++
      <3>3. Written(tx, p)[c] = IF c = "layout" THEN tx.bulk[p].layout ELSE db[p][c]
        BY <1>2, <3>1, <3>2 DEF ++
      <3> QED BY <2>2, <3>1, <3>3
    <2>3. CASE p \notin DOMAIN tx.set \cup DOMAIN tx.bulk
      BY <2>3 DEF Written, ++
    <2> QED BY <2>1, <2>2, <2>3
  <1>6. \A c \in DOMAIN db[p] :
          After(tx)[p][c] =
            IF c \in ColumnsThat("clear", p) /\ Written(tx, p)[c] \in Removed(tx)
            THEN None ELSE Written(tx, p)[c]
    BY <1>1, KeptRow
  <1>7. \A c \in {"team", "role"} : db'[p][c] = Written(tx, p)[c]
    BY <1>2, <1>3, <1>4, <1>6
  <1>8. \A c \in {"layout", "manager"} : db'[p][c] = None \/ db'[p][c] = Written(tx, p)[c]
    BY <1>2, <1>3, <1>4, <1>6
  <1>9. \A c \in {"team", "role"} :
          db'[p][c] = IF p \in DOMAIN tx.set THEN Given(tx.set[p], db[p], c) ELSE db[p][c]
    BY <1>5, <1>7
  <1>10. \A c \in {"layout", "manager"} :
           \/ db'[p][c] = None
           \/ /\ p \in DOMAIN tx.bulk => c = "manager" /\ db'[p][c] = db[p][c]
              /\ p \in DOMAIN tx.set => db'[p][c] = Given(tx.set[p], db[p], c)
              /\ p \notin DOMAIN tx.set \cup DOMAIN tx.bulk => db'[p][c] = db[p][c]
           \/ p \in DOMAIN tx.bulk /\ c = "layout" /\ db'[p][c] = tx.bulk[p].layout
    BY <1>3, <1>5, <1>8
  <1> QED BY <1>9, <1>10

\* The layout and the manager of a PC.
LEMMA PcForeignRows ==
  ASSUME NEW d, ForeignKeysHold(d), \A i \in DOMAIN d : IsRow(i, d[i]),
         NEW p \in DOMAIN d, p \in Pc
  PROVE  /\ d[p].layout \in (Layout \cap DOMAIN d) \cup {None}
         /\ d[p].manager \in (Pc \cap DOMAIN d) \cup {None}
  <1>1. IsRow(p, d[p]) /\ RowType(p) = PcRow /\ {"layout", "manager"} \subseteq DOMAIN PcRow
    BY RowTypes DEF PcRow
  <1>2. d[p].layout \in Layout \cup {None} /\ d[p].manager \in Pc \cup {None}
    <2>1. \A c \in DOMAIN PcRow : d[p][c] \in PcRow[c]
      BY <1>1 DEF IsRow, Fits
    <2> QED BY <2>1 DEF PcRow, OrNone
  <1>3. DOMAIN References(p) = {"team", "layout", "manager"}
    <2>1. References(p) = [team |-> "refuse", layout |-> "clear", manager |-> "clear"]
      BY ReferencesOf
    <2> QED BY <2>1
  <1>4. \A c \in {"layout", "manager"} : d[p][c] = None \/ d[p][c] \in DOMAIN d
    BY <1>3 DEF ForeignKeysHold, Dangles
  <1> QED BY <1>2, <1>4

\* Such a commit parts no PC from the team of its layout.
LEMMA MatchedAfter ==
  ASSUME TablesInv, TablesInv', NEW op, NEW tx, PcsLand(op, tx), op # "layout.updated",
         \A p \in DOMAIN tx.bulk \cap Pc : ~Exists(tx.bulk[p].layout)
  PROVE  Mismatched' \subseteq Mismatched
  <1> SUFFICES ASSUME NEW p, p \in Mismatched'
               PROVE  p \in Mismatched
    OBVIOUS
  <1>1. PICK l, t : l = db'[p].layout /\ t = db'[p].team
    OBVIOUS
  <1>2. p \in Pc /\ p \in DOMAIN db' /\ l # None
    BY <1>1 DEF Mismatched, Rows
  <1>3. l \in Layout /\ l \in DOMAIN db'
    BY <1>1, <1>2, RowsInOrder, PcForeignRows
  <1>4. db'[l].team # t
    BY <1>1, <1>3 DEF Mismatched, TeamOfLayout, Exists
  <1>5. PcsPlan(op, tx)
    BY DEF PcsLand
  <1>6. p \notin DOMAIN tx.new
    <2> SUFFICES ASSUME p \in DOMAIN tx.new
                 PROVE  FALSE
      OBVIOUS
    <2>1. db'[p] = tx.new[p]
      BY <1>2, PcsStay
    <2> QED BY <1>1, <1>2, <1>5, <2>1 DEF PcsPlan
  <1>7. p \in DOMAIN db /\ p \in Rows(Pc)
    BY <1>2, <1>6, PcsStay DEF Rows
  <1>8. t = IF p \in DOMAIN tx.set THEN Given(tx.set[p], db[p], "team") ELSE db[p].team
    BY <1>1, <1>2, <1>7, PcColumns
  <1>9. \/ /\ p \in DOMAIN tx.set => l = Given(tx.set[p], db[p], "layout")
           /\ p \notin DOMAIN tx.set \cup DOMAIN tx.bulk => l = db[p].layout
           /\ p \notin DOMAIN tx.bulk
        \/ p \in DOMAIN tx.bulk /\ l = tx.bulk[p].layout
    BY <1>1, <1>2, <1>7, PcColumns
  <1>10. CASE p \in DOMAIN tx.bulk
    <2>1. p \in DOMAIN tx.bulk \cap Pc /\ l = tx.bulk[p].layout /\ ~Exists(l)
      BY <1>2, <1>9, <1>10
    <2>2. /\ DOMAIN tx.bulk[p] = {"layout"} /\ p \notin DOMAIN tx.set
          /\ l \in DOMAIN tx.new /\ tx.new[l].team = db[p].team
      BY <1>2, <1>5, <2>1 DEF PcsPlan
    <2>3. db'[l] = tx.new[l]
      BY <1>3, <2>2, PcsStay
    <2> QED BY <1>4, <1>8, <2>2, <2>3
  <1>11. CASE p \in DOMAIN tx.set /\ DOMAIN tx.set[p] \cap {"layout", "team"} # {}
    <2>1. p \notin DOMAIN tx.bulk
      BY <1>2, <1>5, <1>11 DEF PcsPlan
    <2>2. l = Given(tx.set[p], db[p], "layout") /\ t = Given(tx.set[p], db[p], "team")
      BY <1>8, <1>9, <1>11, <2>1
    <2>3. KeepsTheTeam(p, tx.set[p])
      BY <1>2, <1>5, <1>11 DEF PcsPlan
    <2>4. Exists(l) /\ db[l].team = t
      BY <1>2, <2>2, <2>3 DEF KeepsTheTeam
    <2>5. db'[l].team = db[l].team
      BY <1>3, <2>4, LayoutsStay DEF Exists
    <2> QED BY <1>4, <2>4, <2>5
  <1>12. CASE /\ p \notin DOMAIN tx.bulk
              /\ p \notin DOMAIN tx.set \/ DOMAIN tx.set[p] \cap {"layout", "team"} = {}
    <2>1. l = db[p].layout /\ t = db[p].team
      BY <1>8, <1>9, <1>12 DEF Given
    <2>2. l \in DOMAIN db
      BY <1>2, <1>7, <2>1, PcRows
    <2>3. db'[l].team = db[l].team
      BY <1>3, <2>2, LayoutsStay
    <2> QED BY <1>2, <1>4, <1>7, <2>1, <2>2, <2>3 DEF Mismatched, TeamOfLayout, Exists
  <1> QED BY <1>10, <1>11, <1>12

\* Nor does it put a PC under one that is no manager.
LEMMA LedAfter ==
  ASSUME TablesInv, TablesInv', NEW op, NEW tx, PcsLand(op, tx), op # "pc.role_changed"
  PROVE  Impostors' \subseteq Impostors
  <1> SUFFICES ASSUME NEW p, p \in Impostors'
               PROVE  p \in Impostors
    OBVIOUS
  <1>1. PICK m : m = db'[p].manager
    OBVIOUS
  <1>2. p \in Pc /\ p \in DOMAIN db' /\ m # None /\ ~IsManager(m)'
    BY <1>1 DEF Impostors, Rows, IsManager, Exists
  <1>3. m \in Pc /\ m \in DOMAIN db'
    BY <1>1, <1>2, RowsInOrder, PcForeignRows
  <1>4. PcsPlan(op, tx)
    BY DEF PcsLand
  <1>5. ~IsManager(m)
    <2> SUFFICES ASSUME IsManager(m)
                 PROVE  FALSE
      OBVIOUS
    <2>1. m \in DOMAIN db /\ db[m].role = "manager"
      BY DEF IsManager, Exists
    <2>2. db'[m].role = IF m \in DOMAIN tx.set THEN Given(tx.set[m], db[m], "role") ELSE db[m].role
      BY <1>3, <2>1, PcColumns
    <2>3. m \in DOMAIN tx.set => "role" \notin DOMAIN tx.set[m]
      BY <1>3, <1>4 DEF PcsPlan
    <2>4. db'[m].role = "manager"
      BY <2>1, <2>2, <2>3 DEF Given
    <2> QED BY <1>2, <1>3, <2>4 DEF IsManager, Exists
  <1>6. p \notin DOMAIN tx.new
    <2> SUFFICES ASSUME p \in DOMAIN tx.new
                 PROVE  FALSE
      OBVIOUS
    <2>1. db'[p] = tx.new[p]
      BY <1>2, PcsStay
    <2> QED BY <1>1, <1>2, <1>4, <1>5, <2>1 DEF PcsPlan, MayLead
  <1>7. p \in DOMAIN db /\ p \in Rows(Pc)
    BY <1>2, <1>6, PcsStay DEF Rows
  <1>8. \/ p \in DOMAIN tx.set /\ m = Given(tx.set[p], db[p], "manager")
        \/ p \notin DOMAIN tx.set /\ m = db[p].manager
    BY <1>1, <1>2, <1>7, PcColumns
  <1>9. ASSUME p \in DOMAIN tx.set, "manager" \in DOMAIN tx.set[p]
        PROVE  FALSE
    <2>1. MayLead(tx.set[p].manager)
      BY <1>2, <1>4, <1>9 DEF PcsPlan
    <2> QED BY <1>2, <1>5, <1>8, <1>9, <2>1 DEF MayLead, Given
  <1>10. m = db[p].manager
    BY <1>8, <1>9 DEF Given
  <1> QED BY <1>2, <1>5, <1>7, <1>10 DEF Impostors

\* Rule 2 of team_enforcement.py: a PC comes to show a layout of another team only when the
\* layout is given away from under it, or is one that an earlier PC of its id has left, or
\* by requests that overtake each other.
THEOREM FleetKeepsTeams == FleetSpec => PcsKeepTheirTeam
  <1>1. ASSUME FleetInv, FleetInv', [FleetNext]_tableVars
        PROVE  \/ Mismatched' \subseteq Mismatched
               \/ \E w \in Worker :
                    Overlapped(w) \/ CommitsOneOf(w, {"layout.updated"}) \/ AdoptsLeftover(w)
    <2>1. TablesInv /\ TablesInv'
      BY <1>1 DEF FleetInv
    <2>2. CASE db' = db
      BY <2>2 DEF Mismatched, Rows, TeamOfLayout, Exists
    <2>3. CASE db' # db
      <3>1. PICK w \in Worker :
              /\ Commits(w)
              /\ Overlapped(w) \/ (job[w].alone /\ \E j : j = job[w] /\ FleetCommitted(j))
        BY <1>1, <2>3, FleetRowsChange
      <3>2. CASE Overlapped(w) \/ AdoptsLeftover(w)
        BY <3>2
      <3>3. CASE job[w].op = "layout.updated"
        BY <3>1, <3>3 DEF CommitsOneOf
      <3>4. CASE ~Overlapped(w) /\ ~AdoptsLeftover(w) /\ job[w].op # "layout.updated"
        <4>1. PICK j, op, tx : j = job[w] /\ op = j.op /\ tx = j.tx /\ FleetCommitted(j)
          BY <3>1, <3>4
        <4>2. PcsLand(op, tx) /\ op # "layout.updated"
          BY <3>4, <4>1 DEF FleetCommitted, FleetPlanned, PcsLand
        <4>3. \A p \in DOMAIN tx.bulk \cap Pc : ~Exists(tx.bulk[p].layout)
          BY <3>1, <3>4, <4>1 DEF AdoptsLeftover
        <4> QED BY <2>1, <4>2, <4>3, MatchedAfter
      <3> QED BY <3>2, <3>3, <3>4
    <2> QED BY <2>2, <2>3
  <1>2. FleetInv /\ FleetInv' /\ [FleetNext]_tableVars =>
          [\/ Mismatched' \subseteq Mismatched
           \/ \E w \in Worker :
                Overlapped(w) \/ CommitsOneOf(w, {"layout.updated"}) \/ AdoptsLeftover(w)]_tableVars
    BY <1>1
  <1> QED BY <1>2, FleetKeepsToItsPlans, PTL DEF FleetSpec, PcsKeepTheirTeam

\* A PC comes to be led by one that is no manager only when that one's role is changed, or
\* by requests that overtake each other (pcs.py:97-101, 507-511).
THEOREM FleetIsLed == FleetSpec => ManagersManage
  <1>1. ASSUME FleetInv, FleetInv', [FleetNext]_tableVars
        PROVE  \/ Impostors' \subseteq Impostors
               \/ \E w \in Worker : Overlapped(w) \/ CommitsOneOf(w, {"pc.role_changed"})
    <2>1. TablesInv /\ TablesInv'
      BY <1>1 DEF FleetInv
    <2>2. CASE db' = db
      BY <2>2 DEF Impostors, Rows, IsManager, Exists
    <2>3. CASE db' # db
      <3>1. PICK w \in Worker :
              /\ Commits(w)
              /\ Overlapped(w) \/ (job[w].alone /\ \E j : j = job[w] /\ FleetCommitted(j))
        BY <1>1, <2>3, FleetRowsChange
      <3>2. CASE Overlapped(w)
        BY <3>2
      <3>3. CASE job[w].op = "pc.role_changed"
        BY <3>1, <3>3 DEF CommitsOneOf
      <3>4. CASE ~Overlapped(w) /\ job[w].op # "pc.role_changed"
        <4>1. PICK j, op, tx : j = job[w] /\ op = j.op /\ tx = j.tx /\ FleetCommitted(j)
          BY <3>1, <3>4
        <4>2. PcsLand(op, tx) /\ op # "pc.role_changed"
          BY <3>4, <4>1 DEF FleetCommitted, FleetPlanned, PcsLand
        <4> QED BY <2>1, <4>2, LedAfter
      <3> QED BY <3>2, <3>3, <3>4
    <2> QED BY <2>2, <2>3
  <1>2. FleetInv /\ FleetInv' /\ [FleetNext]_tableVars =>
          [\/ Impostors' \subseteq Impostors
           \/ \E w \in Worker : Overlapped(w) \/ CommitsOneOf(w, {"pc.role_changed"})]_tableVars
    BY <1>1
  <1> QED BY <1>2, FleetKeepsToItsPlans, PTL DEF FleetSpec, ManagersManage
-----------------------------------------------------------------------------
(* Screens that a set-up has nothing to do with *)

\* A screen, its views, and the mappings on them.
Filling(s) ==
  {s} \cup {v \in Rows(ViewId) : db[v].screen = s}
      \cup {m \in Rows(Mapping) : OnItsView(m) /\ db[m].screen = s}

\* A set-up that is committed leaves as it is a screen that it may not change.
LEMMA ScreenSpared ==
  ASSUME TablesInv, TablesInv', NEW op \in SetUps, NEW tx, NEW arg,
         Lands(tx), OthersSpared(op, tx, arg),
         NEW s \in Rows(ScreenId), ~MayChange(arg, db[s])
  PROVE  s \in DOMAIN db' /\ ScreenContent(s)' = ScreenContent(s)
  <1>1. /\ db' = After(tx) /\ tx.del = {} /\ DOMAIN tx.set \subseteq ScreenId
        /\ \A o \in (DOMAIN tx.set \cup tx.purge) \cap Rows(ScreenId) : MayChange(arg, db[o])
        /\ \A v \in tx.purge \cap Rows(ViewId) : MayChange(arg, db[db[v].screen])
        /\ DOMAIN tx.bulk \subseteq Pc /\ tx.purge \subseteq ScreenId \cup ViewId
        /\ DOMAIN tx.new \cap DOMAIN db \subseteq Gone(tx.purge)
    BY DEF Lands, OthersSpared, FleetWrites, Holds
  <1>2. Removed(tx) = Gone(tx.purge) /\ Removed(tx) \subseteq Pc \cup WallRows \cup Playing
    BY <1>1, LandsRemoved DEF Removed
  <1>3. s \in ScreenId /\ s \in DOMAIN db /\ s \notin tx.purge /\ s \notin DOMAIN tx.set
    BY <1>1 DEF Rows
  <1>4. s \notin Removed(tx) /\ s \notin DOMAIN tx.new
    <2>1. s \notin Gone(tx.purge)
      BY <1>3, LandsRemoved, WallGone
    <2> QED BY <1>1, <1>2, <1>3, <2>1
  <1>5. ASSUME NEW i \in DOMAIN tx.new, i \in ViewId \cup Mapping
        PROVE  tx.new[i].screen # s
    BY <1>3, <1>4, <1>5 DEF OthersSpared, Exists
  <1>6. s \in DOMAIN db' /\ db'[s] = db[s]
    <2>1. s \notin DOMAIN tx.bulk /\ ColumnsThat("clear", s) = {}
      BY <1>1, <1>3, OneTable, ClearedColumns
    <2> QED BY <1>1, <1>3, <1>4, <2>1, LeftAlone
  <1>7. ASSUME NEW v \in Rows(ViewId), db[v].screen = s
        PROVE  v \notin Removed(tx) /\ v \in DOMAIN db' /\ db'[v] = db[v]
    <2>1. v \in ViewId /\ v \in DOMAIN db /\ v \notin Pc \cup ScreenId \cup Mapping
      BY OneTable DEF Rows
    <2>2. v \notin tx.purge
      BY <1>1, <1>7
    <2>3. v \notin Removed(tx)
      BY <1>2, <1>3, <1>7, <2>1, <2>2, LandsRemoved, WallGone
    <2>4. v \notin DOMAIN tx.new /\ v \notin DOMAIN tx.set /\ v \notin DOMAIN tx.bulk
      BY <1>1, <1>2, <2>1, <2>3
    <2>5. ColumnsThat("clear", v) = {}
      BY <2>1, ClearedColumns
    <2> QED BY <1>1, <2>1, <2>3, <2>4, <2>5, LeftAlone
  <1>8. ASSUME NEW v \in ViewId, v \in DOMAIN db', db'[v].screen = s
        PROVE  v \in Rows(ViewId) /\ db[v].screen = s
    <2>1. v \notin Membership \cup Playing /\ v \notin Pc \cup ScreenId \cup Mapping
      BY OneTable
    <2>2. v \notin DOMAIN tx.new
      BY <1>5, <1>8, <2>1, LandsRows
    <2>3. v \in DOMAIN db \ (Removed(tx) \cup DOMAIN tx.new)
      BY <1>8, <2>1, <2>2, LandsRows
    <2>4. v \notin DOMAIN tx.set /\ v \notin DOMAIN tx.bulk /\ ColumnsThat("clear", v) = {}
      BY <1>1, <2>1, ClearedColumns
    <2>5. db'[v] = db[v]
      BY <1>1, <2>3, <2>4, LeftAlone
    <2> QED BY <1>8, <2>3, <2>5 DEF Rows
  <1>9. ASSUME NEW m \in Rows(Mapping), OnItsView(m), db[m].screen = s
        PROVE  m \in DOMAIN db' /\ db'[m] = db[m] /\ OnItsView(m)'
    <2>1. PICK v, c : v = db[m].view /\ c = db[m].camera
      OBVIOUS
    <2>2. m \in Mapping /\ m \in DOMAIN db /\ m \notin Pc \cup ScreenId \cup ViewId
      BY OneTable DEF Rows
    <2>3. v \in Rows(ViewId) /\ db[v].screen = s /\ c \in Camera \cup {None}
      BY <1>9, <2>1, <2>2, RowsInOrder, ForeignRows DEF OnItsView, Rows
    <2>4. v \notin Removed(tx) /\ v \in DOMAIN db' /\ db'[v] = db[v]
      BY <1>7, <2>3
    <2>5. c \notin Removed(tx) \/ c = None
      BY <1>2, <2>3, FleetKeys
    <2>6. ColumnsThat("remove", m) = {"screen", "view", "camera"}
      BY <2>2, RemoveColumns
    <2>7. m \notin tx.purge
      BY <1>1, <2>2
    <2>8. m \notin Removed(tx)
      BY <1>2, <1>4, <1>9, <2>1, <2>4, <2>5, <2>6, <2>7, GoneRows
    <2>9. m \notin DOMAIN tx.new /\ m \notin DOMAIN tx.set /\ m \notin DOMAIN tx.bulk
      BY <1>1, <1>2, <2>2, <2>8
    <2>10. \A d \in ColumnsThat("clear", m) : db[m][d] = None \/ db[m][d] \notin Removed(tx)
      <3>1. \A d \in ColumnsThat("clear", m) : d = "device"
        BY <2>2, ClearedColumns
      <3>2. db[m].device \in Device \cup {None}
        <4>1. IsRow(m, db[m]) /\ RowType(m) = MappingRow
          BY <2>2, RowTypes DEF TablesInv, TablesTypeOK
        <4>2. \A d \in DOMAIN MappingRow : db[m][d] \in MappingRow[d]
          BY <4>1 DEF IsRow, Fits
        <4> QED BY <4>2 DEF MappingRow, OrNone
      <3> QED BY <1>2, <3>1, <3>2, FleetKeys
    <2>11. m \in DOMAIN db' /\ db'[m] = db[m]
      BY <1>1, <2>2, <2>8, <2>9, <2>10, LeftAlone
    <2> QED BY <1>9, <2>1, <2>3, <2>4, <2>11 DEF OnItsView
  <1>10. ASSUME NEW m \in Mapping, m \in DOMAIN db', OnItsView(m)', db'[m].screen = s
         PROVE  m \in Rows(Mapping) /\ OnItsView(m) /\ db[m].screen = s
    <2>1. PICK v : v = db'[m].view
      OBVIOUS
    <2>2. v \in ViewId /\ v \in DOMAIN db' /\ db'[v].screen = s
      BY <1>10, <2>1, RowsInOrder, ForeignRows DEF OnItsView
    <2>3. v \in Rows(ViewId) /\ db[v].screen = s
      BY <1>8, <2>2
    <2>4. m \notin Membership \cup Playing /\ m \notin Pc \cup ScreenId
      BY OneTable
    <2>5. m \notin DOMAIN tx.new
      BY <1>5, <1>10, <2>4, LandsRows
    <2>6. m \in DOMAIN db \ (Removed(tx) \cup DOMAIN tx.new)
      BY <1>10, <2>4, <2>5, LandsRows
    <2>7. \A d \in {"screen", "view"} : db'[m][d] = db[m][d]
      <3>1. m \notin DOMAIN tx.set /\ m \notin DOMAIN tx.bulk
        BY <1>1, <2>4
      <3>2. Written(tx, m) = db[m]
        BY <3>1 DEF Written, ++
      <3>3. {"screen", "view"} \subseteq DOMAIN db[m]
        <4>1. IsRow(m, db[m]) /\ RowType(m) = MappingRow
          BY <2>6, RowTypes DEF TablesInv, TablesTypeOK
        <4> QED BY <4>1 DEF IsRow, MappingRow
      <3>4. \A d \in {"screen", "view"} : d \notin ColumnsThat("clear", m)
        BY <2>4, ClearedColumns
      <3> QED BY <1>1, <2>6, <3>2, <3>3, <3>4, KeptRow
    <2> QED BY <1>10, <2>1, <2>3, <2>6, <2>7 DEF OnItsView, Rows
  <1>11. Filling(s)' = Filling(s)
    <2>1. ASSUME NEW i \in Filling(s)
          PROVE  i \in Filling(s)'
      BY <1>7, <1>9, <2>1 DEF Filling, Rows
    <2>2. ASSUME NEW i \in Filling(s)'
          PROVE  i \in Filling(s)
      <3>1. CASE i = s
        BY <3>1 DEF Filling
      <3>2. CASE i \in ViewId /\ i \in DOMAIN db' /\ db'[i].screen = s
        BY <1>8, <3>2 DEF Filling
      <3>3. CASE i \in Mapping /\ i \in DOMAIN db' /\ OnItsView(i)' /\ db'[i].screen = s
        BY <1>10, <3>3 DEF Filling
      <3> QED BY <2>2, <3>1, <3>2, <3>3 DEF Filling, Rows
    <2> QED BY <2>1, <2>2
  <1>12. \A i \in Filling(s) : db'[i] = db[i]
    BY <1>6, <1>7, <1>9 DEF Filling
  <1>13. ScreenContent(s) = [i \in Filling(s) |-> db[i]]
    BY DEF ScreenContent, Filling
  <1>14. ScreenContent(s)' = [i \in Filling(s)' |-> db'[i]]
    BY DEF ScreenContent, Filling
  <1>15. PICK F, d, e : F = Filling(s) /\ d = db /\ e = db'
    OBVIOUS
  <1>16. [i \in F |-> e[i]] = [i \in F |-> d[i]]
    BY <1>12, <1>15
  <1> QED BY <1>6, <1>11, <1>13, <1>14, <1>15, <1>16

\* Setting up a PC changes screens of its own layout only, and configure_pc_screens only
\* those that the request names (pc_screen_configurator.py:117-140,
\* config_importer.py:171-197).
THEOREM SetUpsSpareOthers == FleetSpec => SetUpSparesOthers
  <1>1. ASSUME FleetInv, FleetInv', [FleetNext]_tableVars, NEW w \in Worker,
               CommitsAlone(w, SetUps), NEW s \in DOMAIN ScreenContents,
               s \notin DOMAIN db' \/ ScreenContents'[s] # ScreenContents[s]
        PROVE  /\ db[s].layout = job[w].arg.layout
               /\ "named" \in DOMAIN job[w].arg => db[s].name \in job[w].arg.named
    <2>1. TablesInv /\ TablesInv' /\ db' # db
      BY <1>1 DEF FleetInv, CommitsAlone, Commits
    <2>2. s \in Rows(ScreenId) /\ s \in ScreenId
      BY <1>1 DEF ScreenContents, Rows
    <2>3. PICK j : j = job[w] /\ FleetCommitted(j)
      <3>1. Commits(w) /\ ~Overlapped(w)
        BY <1>1 DEF CommitsAlone, Overlapped
      <3> QED BY <1>1, <2>1, <3>1, FleetRowsChange
    <2>4. PICK op, tx, arg : op = j.op /\ tx = j.tx /\ arg = j.arg
      OBVIOUS
    <2>5. op \in SetUps
      BY <1>1, <2>3, <2>4 DEF CommitsAlone
    <2>6. Lands(tx) /\ OthersSpared(op, tx, arg)
      BY <2>3, <2>4, <2>5 DEF FleetCommitted, FleetPlanned, FleetPlan, Lands
    <2>7. MayChange(arg, db[s])
      <3> SUFFICES ASSUME ~MayChange(arg, db[s])
                   PROVE  FALSE
        OBVIOUS
      <3>1. s \in DOMAIN db' /\ ScreenContent(s)' = ScreenContent(s)
        BY <2>1, <2>2, <2>5, <2>6, ScreenSpared
      <3>2. ScreenContents[s] = ScreenContent(s)
        BY <2>2 DEF ScreenContents
      <3>3. ScreenContents'[s] = ScreenContent(s)'
        BY <2>2, <3>1 DEF ScreenContents, Rows
      <3> QED BY <1>1, <3>1, <3>2, <3>3
    <2> QED BY <2>3, <2>4, <2>7 DEF MayChange
  <1>2. FleetInv /\ FleetInv' /\ [FleetNext]_tableVars =>
          [\A w \in Worker :
             CommitsAlone(w, SetUps) =>
               \A s \in DOMAIN ScreenContents :
                 (s \notin DOMAIN db' \/ ScreenContents'[s] # ScreenContents[s]) =>
                   /\ db[s].layout = job[w].arg.layout
                   /\ "named" \in DOMAIN job[w].arg => db[s].name \in job[w].arg.named]_tableVars
    BY <1>1
  <1> QED BY <1>2, FleetKeepsToItsPlans, PTL DEF FleetSpec, SetUpSparesOthers

-----------------------------------------------------------------------------
(* Running totals *)

\* camera_index begins at nothing and goes up by the slots of each part.
LEMMA StartsOf ==
  ASSUME NEW sizes, NEW n \in Nat, Len(sizes) = n, \A k \in 1..n : sizes[k] \in Nat
  PROVE  LET f == Starts(sizes) IN
         /\ f \in [1..(n + 1) -> Nat] /\ f[1] = 0
         /\ \A k \in 1..n : f[k + 1] = f[k] + sizes[k]
  <1> DEFINE Index(g, k) == IF k = 1 THEN 0 ELSE g[k - 1] + sizes[k - 1]
             UpTo(m) == \E g \in [1..m -> Nat] : \A k \in 1..m : g[k] = Index(g, k)
  <1>1. UpTo(1)
    <2>1. PICK g : g = [k \in 1..1 |-> 0]
      OBVIOUS
    <2>2. g \in [1..1 -> Nat] /\ \A k \in 1..1 : g[k] = Index(g, k)
      BY <2>1
    <2> QED BY <2>2
  <1>2. ASSUME NEW m \in 1..n, UpTo(m)
        PROVE  UpTo(m + 1)
    <2>1. PICK g \in [1..m -> Nat] : \A k \in 1..m : g[k] = Index(g, k)
      BY <1>2
    <2>2. PICK h : h = [k \in 1..(m + 1) |-> IF k = m + 1 THEN g[m] + sizes[m] ELSE g[k]]
      OBVIOUS
    <2>3. h \in [1..(m + 1) -> Nat]
      BY <2>2
    <2>4. ASSUME NEW k \in 1..(m + 1)
          PROVE  h[k] = Index(h, k)
      <3>1. CASE k = m + 1
        BY <2>2, <3>1
      <3>2. CASE k # m + 1 /\ k # 1
        <4>1. k \in 1..m /\ k - 1 \in 1..m /\ k - 1 # m + 1
          BY <3>2
        <4>2. h[k] = g[k] /\ h[k - 1] = g[k - 1]
          BY <2>2, <3>2, <4>1
        <4> QED BY <2>1, <3>2, <4>1, <4>2
      <3>3. CASE k # m + 1 /\ k = 1
        <4>1. h[1] = g[1] /\ g[1] = 0
          BY <2>1, <2>2, <3>3
        <4> QED BY <3>3, <4>1
      <3> QED BY <3>1, <3>2, <3>3
    <2> HIDE DEF Index
    <2> QED BY <2>3, <2>4
  <1> HIDE DEF UpTo
  <1>3. UpTo(n + 1)
    <2>1. PICK Bad : Bad = {m \in 1..(n + 1) : ~UpTo(m)}
      OBVIOUS
    <2>2. CASE Bad # {}
      <3>1. Bad \in SUBSET Nat
        BY <2>1
      <3>2. PICK m \in Bad : \A j \in Bad : m <= j
        BY <2>2, <3>1, Smallest
      <3>3. m \in 1..(n + 1) /\ ~UpTo(m) /\ m # 1
        BY <1>1, <2>1, <3>2
      <3>4. m - 1 \in 1..n /\ m - 1 \notin Bad /\ m = (m - 1) + 1
        BY <3>2, <3>3
      <3>5. UpTo(m - 1)
        BY <2>1, <3>4
      <3>6. UpTo((m - 1) + 1)
        BY <1>2, <3>4, <3>5
      <3> QED BY <3>3, <3>4, <3>6
    <2> QED BY <2>1, <2>2
  <1>4. PICK g \in [1..(n + 1) -> Nat] : \A k \in 1..(n + 1) : g[k] = Index(g, k)
    BY <1>3 DEF UpTo
  <1>5. g = [k \in 1..(n + 1) |-> Index(g, k)]
    BY <1>4
  <1>6. PICK f : f = Starts(sizes)
    OBVIOUS
  <1>7. PICK d : d = 1..(n + 1)
    OBVIOUS
  <1>8. f = CHOOSE h : h = [k \in d |-> IF k = 1 THEN 0 ELSE h[k - 1] + sizes[k - 1]]
    BY <1>6, <1>7 DEF Starts
  <1>9. f = [k \in d |-> IF k = 1 THEN 0 ELSE f[k - 1] + sizes[k - 1]]
    BY <1>5, <1>7, <1>8, Zenon
  <1>10. /\ f[1] = 0
         /\ \A k \in 1..n : k + 1 \in 1..(n + 1) /\ f[k + 1] = f[k] + sizes[k]
    <2>1. \A k \in 1..(n + 1) : f[k] = IF k = 1 THEN 0 ELSE f[k - 1] + sizes[k - 1]
      BY <1>7, <1>9
    <2>2. 1 \in 1..(n + 1)
      OBVIOUS
    <2>3. \A k \in 1..n : k + 1 \in 1..(n + 1) /\ k + 1 # 1 /\ (k + 1) - 1 = k
      OBVIOUS
    <2> QED BY <2>1, <2>2, <2>3
  <1>11. \A k \in 1..(n + 1) : f[k] \in Nat
    <2>1. PICK Bad : Bad = {k \in 1..(n + 1) : f[k] \notin Nat}
      OBVIOUS
    <2>2. CASE Bad # {}
      <3>1. Bad \in SUBSET Nat
        BY <2>1
      <3>2. PICK k \in Bad : \A j \in Bad : k <= j
        BY <2>2, <3>1, Smallest
      <3>3. k \in 1..(n + 1) /\ f[k] \notin Nat /\ k # 1
        BY <1>10, <2>1, <3>2
      <3>4. k - 1 \in 1..n /\ k - 1 \notin Bad /\ k = (k - 1) + 1
        BY <3>2, <3>3
      <3>5. f[k - 1] \in Nat /\ sizes[k - 1] \in Nat
        BY <2>1, <3>4
      <3>6. f[(k - 1) + 1] = f[k - 1] + sizes[k - 1]
        BY <1>10, <3>4
      <3> QED BY <3>3, <3>4, <3>5, <3>6
    <2> QED BY <2>1, <2>2
  <1> QED BY <1>6, <1>7, <1>9, <1>10, <1>11

\* Later parts begin later.
LEMMA StartsRise ==
  ASSUME NEW n \in Nat, NEW f \in [1..(n + 1) -> Nat], \A k \in 1..n : f[k] <= f[k + 1],
         NEW j \in 1..(n + 1), NEW k \in 1..(n + 1), j <= k
  PROVE  f[j] <= f[k]
  <1>1. PICK Bad : Bad = {m \in j..(n + 1) : ~(f[j] <= f[m])}
    OBVIOUS
  <1>2. CASE Bad # {}
    <2>1. Bad \in SUBSET Nat
      BY <1>1
    <2>2. PICK m \in Bad : \A i \in Bad : m <= i
      BY <1>2, <2>1, Smallest
    <2>3. m \in j..(n + 1) /\ ~(f[j] <= f[m]) /\ m # j
      BY <1>1, <2>2
    <2>4. m - 1 \in j..(n + 1) /\ m - 1 \in 1..n /\ m - 1 \notin Bad /\ m = (m - 1) + 1
      BY <2>2, <2>3
    <2>5. f[j] <= f[m - 1]
      BY <1>1, <2>4
    <2>6. f[m - 1] <= f[(m - 1) + 1]
      BY <2>4
    <2>7. f[j] \in Nat /\ f[m] \in Nat /\ f[m - 1] \in Nat
      BY <2>3, <2>4
    <2> QED BY <2>3, <2>4, <2>5, <2>6, <2>7
  <1>3. k \in j..(n + 1)
    OBVIOUS
  <1>4. CASE Bad = {}
    BY <1>1, <1>3, <1>4
  <1> QED BY <1>2, <1>4

\* Every slot is one of some part.
LEMMA StartsReach ==
  ASSUME NEW n \in Nat, NEW f \in [1..(n + 1) -> Nat], f[1] = 0, NEW m \in 1..f[n + 1]
  PROVE  \E k \in 1..n : f[k] < m /\ m <= f[k + 1]
  <1>1. PICK S : S = {k \in 1..(n + 1) : m <= f[k]}
    OBVIOUS
  <1>2. S \in SUBSET Nat /\ n + 1 \in S
    BY <1>1
  <1>3. PICK k \in S : \A j \in S : k <= j
    BY <1>2, Smallest
  <1>4. k \in 1..(n + 1) /\ m <= f[k] /\ k # 1
    BY <1>1, <1>3
  <1>5. k - 1 \in 1..n /\ k - 1 \notin S /\ k = (k - 1) + 1
    BY <1>3, <1>4
  <1>6. ~(m <= f[k - 1]) /\ f[k - 1] \in Nat
    BY <1>1, <1>5
  <1> QED BY <1>4, <1>5, <1>6

-----------------------------------------------------------------------------
(* The cameras of a stream configuration *)

\* Some places in their order.
Enumerates(ks, count, f) ==
  /\ f \in [1..count -> ks]
  /\ \A i, j \in 1..count : i < j => f[i] < f[j]
  /\ \A k \in ks : \E i \in 1..count : f[i] = k

\* The entries at some places: each place once, in the order of the places.
LEMMA EntriesInOrder ==
  ASSUME NEW s, NEW ks \in SUBSET Nat, IsFiniteSet(ks)
  PROVE  /\ Cardinality(ks) \in Nat
         /\ \E f : /\ Enumerates(ks, Cardinality(ks), f)
                 /\ EntriesAt(s, ks) = [i \in 1..Cardinality(ks) |-> s[f[i]]]
  <1>1. PICK count : count = Cardinality(ks)
    OBVIOUS
  <1>2. IsFiniteSet(ks) /\ count \in Nat /\ \A k \in ks : k \in Nat
    BY <1>1, FS_CardinalityType
  <1>3. PICK below : below = [k \in ks |-> {j \in ks : j <= k}]
    OBVIOUS
  <1>4. PICK rank : rank = [k \in ks |-> Cardinality(below[k])]
    OBVIOUS
  <1>5. \A k \in ks : below[k] \in SUBSET ks /\ IsFiniteSet(below[k]) /\ k \in below[k]
    BY <1>2, <1>3, FS_Subset
  <1>6. ASSUME NEW k \in ks
        PROVE  rank[k] \in 1..count
    <2>1. Cardinality(below[k]) \in Nat /\ Cardinality(below[k]) <= count
      BY <1>1, <1>2, <1>5, FS_Subset, FS_CardinalityType
    <2>2. Cardinality(below[k]) # 0
      BY <1>5, FS_EmptySet
    <2> QED BY <1>2, <1>4, <2>1, <2>2
  <1>7. ASSUME NEW k \in ks, NEW m \in ks, k < m
        PROVE  rank[k] < rank[m]
    <2>1. below[k] \in SUBSET below[m] /\ m \in below[m] /\ m \notin below[k]
      <3>1. \A j \in ks : j <= k => j <= m
        BY <1>2, <1>7
      <3>2. m <= m /\ ~(m <= k)
        BY <1>2, <1>7
      <3> QED BY <1>3, <3>1, <3>2
    <2>2. /\ Cardinality(below[k]) <= Cardinality(below[m])
          /\ Cardinality(below[k]) # Cardinality(below[m])
      BY <1>5, <2>1, FS_Subset
    <2> QED BY <1>4, <1>6, <2>2
  <1>8. rank \in Injection(ks, 1..count)
    <2>1. \A k, m \in ks : rank[k] = rank[m] => k = m
      <3>1. \A k, m \in ks : k \in Nat /\ m \in Nat /\ rank[k] \in Nat /\ rank[m] \in Nat
        BY <1>6
      <3> QED BY <1>7, <3>1
    <2> QED BY <1>4, <1>6, <2>1, Fun_IsInj DEF Injection, IsInjective
  <1>9. rank \in Surjection(ks, 1..count)
    <2>1. IsFiniteSet(1..count) /\ Cardinality(1..count) = count
      BY <1>2, FS_Interval
    <2> QED BY <1>1, <1>8, <2>1, FS_Injection
  <1>10. PICK f : f = [i \in 1..count |-> CHOOSE k \in ks : Cardinality({j \in ks : j <= k}) = i]
    OBVIOUS
  <1>11. ASSUME NEW i \in 1..count
         PROVE  f[i] \in ks /\ rank[f[i]] = i
    <2>1. PICK k \in ks : rank[k] = i
      BY <1>9 DEF Surjection
    <2>2. Cardinality({j \in ks : j <= k}) = i
      BY <1>3, <1>4, <2>1
    <2>3. f[i] \in ks /\ Cardinality({j \in ks : j <= f[i]}) = i
      BY <1>10, <2>2, Zenon
    <2> QED BY <1>3, <1>4, <2>3
  <1>12. ASSUME NEW i \in 1..count, NEW j \in 1..count, i < j
         PROVE  f[i] < f[j]
    <2>1. f[i] \in Nat /\ f[j] \in Nat
      BY <1>2, <1>11
    <2>2. CASE f[i] = f[j]
      BY <1>11, <1>12, <2>2
    <2>3. CASE f[j] < f[i]
      <3>1. rank[f[j]] < rank[f[i]]
        BY <1>7, <1>11, <2>3
      <3> QED BY <1>11, <1>12, <3>1
    <2> QED BY <2>1, <2>2, <2>3
  <1>13. \A k \in ks : rank[k] \in 1..count /\ f[rank[k]] = k
    <2>1. \A k \in ks : f[rank[k]] \in ks /\ rank[f[rank[k]]] = rank[k]
      BY <1>6, <1>11
    <2> QED BY <1>6, <1>8, <2>1 DEF Injection, IsInjective
  <1>14. EntriesAt(s, ks) = [i \in 1..count |-> s[f[i]]]
    <2>1. PICK e : e = EntriesAt(s, ks)
      OBVIOUS
    <2>2. e = [i \in 1..count |-> s[CHOOSE k \in ks : Cardinality({j \in ks : j <= k}) = i]]
      BY <1>1, <2>1, Zenon DEF EntriesAt
    <2>3. \A i \in 1..count : f[i] = CHOOSE k \in ks : Cardinality({j \in ks : j <= k}) = i
      BY <1>10, Zenon
    <2> QED BY <2>1, <2>2, <2>3, Zenon
  <1>15. f \in [1..count -> ks]
    BY <1>10, <1>11
  <1>16. Enumerates(ks, count, f)
    BY <1>12, <1>13, <1>15 DEF Enumerates
  <1> QED BY <1>1, <1>2, <1>14, <1>16


\* Of two numbers the smaller.
LEMMA SmallerOf ==
  ASSUME NEW a \in Nat, NEW b \in Nat
  PROVE  Min({a, b}) = IF a <= b THEN a ELSE b
  BY DEF Min

\* What a request wants, and where its list names it first.
WantedBy(request) ==
  IF request.cameras = <<>> THEN Rows(Camera) \ request.exclude
  ELSE Range(request.cameras) \ request.exclude
FirstAt(request, c) == Min({k \in DOMAIN request.cameras : request.cameras[k] = c})

\* The cameras for so many slots: all that are wanted or as many as there are slots, each
\* once, in the order of the list if there is one (get_cameras_for_config).
Choice(request, count, cameras) ==
  /\ cameras \in Seq(WantedBy(request))
  /\ IsFiniteSet(WantedBy(request))
  /\ \A i, j \in DOMAIN cameras : cameras[i] = cameras[j] => i = j
  /\ count > 0 => Len(cameras) = Min({Cardinality(WantedBy(request)), count})
  /\ request.cameras # <<>> =>
       \A i, j \in DOMAIN cameras :
         i < j => FirstAt(request, cameras[i]) < FirstAt(request, cameras[j])

\* The first entries of a sequence.
LEMMA FirstEntries ==
  ASSUME NEW S, NEW s \in Seq(S), NEW n \in Nat
  PROVE  LET f == FirstOf(s, n) IN
         /\ f \in Seq(S) /\ Len(f) = Min({n, Len(s)}) /\ Len(f) <= Len(s)
         /\ \A i \in DOMAIN f : i \in DOMAIN s /\ f[i] = s[i]
  <1>1. PICK m : m = Min({n, Len(s)})
    OBVIOUS
  <1>2. m \in Nat /\ m <= Len(s)
    BY <1>1, SmallerOf
  <1>3. PICK f : f = FirstOf(s, n)
    OBVIOUS
  <1>4. f = [i \in 1..m |-> s[i]]
    BY <1>1, <1>2, <1>3 DEF FirstOf
  <1>5. \A i \in 1..m : i \in DOMAIN s /\ s[i] \in S
    BY <1>2
  <1>6. f \in [1..m -> S]
    BY <1>4, <1>5
  <1>7. f \in Seq(S) /\ Len(f) = m /\ DOMAIN f = 1..m
    BY <1>2, <1>6, SeqDef, LenProperties
  <1> QED BY <1>1, <1>2, <1>3, <1>4, <1>5, <1>7

\* Cameras of the database in some order.
LEMMA AnyCameras ==
  ASSUME NEW request, request.cameras = <<>>, NEW count \in Nat
  PROVE  Choice(request, count, CamerasForConfig(request, count))
  <1>1. PICK W : W = WantedBy(request)
    OBVIOUS
  <1>2. IsFiniteSet(W)
    BY <1>1, SiteBodies, FS_Subset DEF WantedBy, Rows
  <1>3. PICK s : s = SetToSeq(W)
    OBVIOUS
  <1>4. s \in Seq(W) /\ Len(s) = Cardinality(W) /\ \A i, j \in DOMAIN s : s[i] = s[j] => i = j
    BY <1>2, <1>3, InSomeOrder
  <1>5. CamerasForConfig(request, count) = FirstOf(s, count)
    BY <1>1, <1>3 DEF CamerasForConfig, WantedBy
  <1>6. PICK f : f = FirstOf(s, count)
    OBVIOUS
  <1>7. /\ f \in Seq(W) /\ Len(f) = Min({count, Len(s)})
        /\ \A i \in DOMAIN f : i \in DOMAIN s /\ f[i] = s[i]
    BY <1>4, <1>6, FirstEntries
  <1>8. \A i, j \in DOMAIN f : f[i] = f[j] => i = j
    BY <1>4, <1>7
  <1>9. {count, Len(s)} = {Cardinality(W), count}
    BY <1>4
  <1> QED BY <1>1, <1>2, <1>5, <1>6, <1>7, <1>8, <1>9 DEF Choice


\* Every id that is wanted has its first place in the list.
LEMMA FirstPlaces ==
  ASSUME NEW request, request.cameras \in Seq(Camera), request.cameras # <<>>
  PROVE  LET W == WantedBy(request)
             ks == WantedAt(request)
         IN /\ ks \in SUBSET (1..Len(request.cameras))
            /\ \A k \in ks : request.cameras[k] \in W /\ FirstAt(request, request.cameras[k]) = k
            /\ \A c \in W : \E k \in ks : request.cameras[k] = c
  <1>1. PICK ids : ids = request.cameras
    OBVIOUS
  <1>2. PICK n : n = Len(ids)
    OBVIOUS
  <1>3. ids \in Seq(Camera) /\ n \in Nat /\ DOMAIN ids = 1..n /\ ids # <<>>
    BY <1>1, <1>2
  <1>4. PICK W, ks : W = WantedBy(request) /\ ks = WantedAt(request)
    OBVIOUS
  <1>5. W = Range(ids) \ request.exclude
    BY <1>1, <1>3, <1>4 DEF WantedBy
  <1>6. ks = {k \in 1..n : ids[k] \notin request.exclude /\ \A j \in 1..(k - 1) : ids[j] # ids[k]}
    BY <1>1, <1>3, <1>4 DEF WantedAt
  <1>7. ASSUME NEW k \in ks
        PROVE  ids[k] \in W /\ FirstAt(request, ids[k]) = k
    <2>1. ids[k] \in W
      BY <1>3, <1>5, <1>6 DEF Range
    <2>2. PICK S : S = {j \in 1..n : ids[j] = ids[k]}
      OBVIOUS
    <2>3. k \in S /\ k \in 1..n
      BY <1>6, <2>2
    <2>4. \A j \in S : j \in 1..n /\ k <= j
      <3>1. \A j \in 1..n : ~(k <= j) => j \in 1..(k - 1)
        BY <1>3, <2>3
      <3> QED BY <1>6, <2>2, <3>1
    <2>5. Min(S) = k
      <3>1. \A m \in S : (\A j \in S : m <= j) => m = k
        BY <1>3, <2>3, <2>4
      <3> QED BY <2>3, <2>4, <3>1 DEF Min
    <2> QED BY <1>1, <1>3, <2>1, <2>2, <2>5 DEF FirstAt
  <1>8. ASSUME NEW c \in W
        PROVE  \E k \in ks : ids[k] = c
    <2>1. PICK S : S = {j \in 1..n : ids[j] = c}
      OBVIOUS
    <2>2. S \in SUBSET Nat /\ S # {}
      BY <1>3, <1>5, <2>1 DEF Range
    <2>3. PICK k \in S : \A j \in S : k <= j
      BY <2>2, Smallest
    <2>4. ASSUME NEW j \in 1..(k - 1)
          PROVE  ids[j] # ids[k]
      <3>1. k \in 1..n /\ j \in 1..n /\ ~(k <= j)
        BY <1>3, <2>1, <2>3
      <3>2. j \notin S
        BY <2>3, <3>1
      <3> QED BY <2>1, <2>3, <3>1, <3>2
    <2>5. k \in 1..n /\ ids[k] = c /\ c \notin request.exclude
      BY <1>5, <2>1, <2>3
    <2> QED BY <1>6, <2>4, <2>5
  <1>9. ks \in SUBSET (1..n)
    BY <1>6
  <1> QED BY <1>1, <1>2, <1>4, <1>7, <1>8, <1>9

\* Cameras in the order of a list.
LEMMA ListedCameras ==
  ASSUME NEW request, request.cameras \in Seq(Camera), request.cameras # <<>>,
         NEW count \in Nat
  PROVE  Choice(request, count, CamerasForConfig(request, count))
  <1>1. PICK ids, W, ks, n : /\ ids = request.cameras /\ W = WantedBy(request)
                             /\ ks = WantedAt(request) /\ n = Len(ids)
    OBVIOUS
  <1>2. n \in Nat /\ ks \in SUBSET (1..n)
    BY <1>1, FirstPlaces
  <1>3. /\ \A k \in ks : ids[k] \in W /\ FirstAt(request, ids[k]) = k
        /\ \A c \in W : \E k \in ks : ids[k] = c
    BY <1>1, FirstPlaces
  <1>4. PICK e, m : e = EntriesAt(ids, ks) /\ m = Cardinality(ks)
    OBVIOUS
  <1>5. m \in Nat /\ ks \in SUBSET Nat /\ IsFiniteSet(ks)
    <2>1. IsFiniteSet(1..n)
      BY <1>2, FS_Interval
    <2>2. IsFiniteSet(ks)
      BY <1>2, <2>1, FS_Subset
    <2> QED BY <1>2, <1>4, <2>2, FS_CardinalityType
  <1>6. PICK f : Enumerates(ks, m, f) /\ EntriesAt(ids, ks) = [i \in 1..m |-> ids[f[i]]]
    <2>1. \E f : /\ Enumerates(ks, Cardinality(ks), f)
                /\ EntriesAt(ids, ks) = [i \in 1..Cardinality(ks) |-> ids[f[i]]]
      BY <1>5, EntriesInOrder
    <2> QED BY <1>4, <2>1
  <1>7. ASSUME NEW i \in 1..m
        PROVE  e[i] \in W /\ FirstAt(request, e[i]) = f[i]
    BY <1>3, <1>4, <1>6 DEF Enumerates
  <1>8. e \in Seq(W) /\ Len(e) = m
    <2>1. e \in [1..m -> W]
      BY <1>4, <1>6, <1>7
    <2> QED BY <1>5, <2>1, SeqDef, LenProperties
  <1>9. \A i, j \in 1..m : e[i] = e[j] => i = j
    <2>1. \A i, j \in 1..m : f[i] = f[j] => ~(i < j) /\ ~(j < i)
      <3>1. \A i \in 1..m : f[i] \in ks
        BY <1>6 DEF Enumerates
      <3>2. \A k \in ks : k \in Nat
        BY <1>2
      <3> QED BY <1>6, <3>1, <3>2 DEF Enumerates
    <2> QED BY <1>5, <1>7, <2>1
  <1>10. IsFiniteSet(W) /\ Cardinality(W) = m
    <2>1. e \in Surjection(1..m, W) /\ e \in Injection(1..m, W)
      <3>1. e \in [1..m -> W]
        BY <1>5, <1>8
      <3>2. \A c \in W : \E i \in 1..m : e[i] = c
        BY <1>3, <1>4, <1>6 DEF Enumerates
      <3> QED BY <1>9, <3>1, <3>2, Fun_IsInj, Fun_IsSurj DEF Injection, Surjection, IsInjective
    <2>2. IsFiniteSet(1..m) /\ Cardinality(1..m) = m
      BY <1>5, FS_Interval
    <2> QED BY <2>1, <2>2, FS_Surjection
  <1>11. PICK c, g : c = Max({1, count}) /\ g = FirstOf(e, c)
    OBVIOUS
  <1>12. c \in Nat /\ (count > 0 => c = count)
    <2>1. c = CHOOSE x \in {1, count} : \A y \in {1, count} : x >= y
      BY <1>11, Zenon DEF Max
    <2>2. \E x \in {1, count} : \A y \in {1, count} : x >= y
      OBVIOUS
    <2>3. c \in {1, count} /\ \A y \in {1, count} : c >= y
      BY <2>1, <2>2, Zenon
    <2> QED BY <2>3
  <1>13. CamerasForConfig(request, count) = g
    BY <1>1, <1>4, <1>11 DEF CamerasForConfig
  <1>14. /\ g \in Seq(W) /\ Len(g) = Min({c, m})
         /\ \A i \in DOMAIN g : i \in 1..m /\ g[i] = e[i]
    <2>1. /\ g \in Seq(W) /\ Len(g) = Min({c, Len(e)})
          /\ \A i \in DOMAIN g : i \in DOMAIN e /\ g[i] = e[i]
      BY <1>8, <1>11, <1>12, FirstEntries
    <2>2. Len(e) = m /\ DOMAIN e = 1..m
      BY <1>5, <1>8
    <2> QED BY <2>1, <2>2
  <1>15. \A i, j \in DOMAIN g : g[i] = g[j] => i = j
    BY <1>9, <1>14
  <1>16. \A i, j \in DOMAIN g : i < j => FirstAt(request, g[i]) < FirstAt(request, g[j])
    <2>1. \A i, j \in 1..m : i < j => FirstAt(request, e[i]) < FirstAt(request, e[j])
      BY <1>6, <1>7 DEF Enumerates
    <2> QED BY <1>14, <2>1
  <1>17. count > 0 => {c, m} = {Cardinality(W), count}
    BY <1>10, <1>12
  <1> QED BY <1>1, <1>10, <1>13, <1>14, <1>15, <1>16, <1>17 DEF Choice


\* Every member once.
Lists(f, T, K) ==
  /\ f \in [1..K -> T]
  /\ \A i, j \in 1..K : f[i] = f[j] => i = j
  /\ \A t \in T : \E i \in 1..K : f[i] = t

\* A set that is listed has as many members as the list.
LEMMA Counted ==
  ASSUME NEW K \in Nat, NEW T, NEW f, Lists(f, T, K)
  PROVE  IsFiniteSet(T) /\ Cardinality(T) = K
  <1>1. f \in Injection(1..K, T) /\ f \in Surjection(1..K, T)
    BY Fun_IsInj, Fun_IsSurj DEF Injection, Surjection, IsInjective, Lists
  <1>2. IsFiniteSet(1..K) /\ Cardinality(1..K) = K
    BY FS_Interval
  <1> QED BY <1>1, <1>2, FS_Surjection

\* Every member has a number of its own.
CountsOff(number, T, K) ==
  /\ \A t \in T : number[t] \in 1..K
  /\ \A t, u \in T : number[t] = number[u] => t = u
  /\ \A i \in 1..K : \E t \in T : number[t] = i

LEMMA CountedOff ==
  ASSUME NEW K \in Nat, NEW T, NEW number, CountsOff(number, T, K)
  PROVE  IsFiniteSet(T) /\ Cardinality(T) = K
  <1>1. PICK f : f = [i \in 1..K |-> CHOOSE t \in T : number[t] = i]
    OBVIOUS
  <1>2. \A i \in 1..K : f[i] \in T /\ number[f[i]] = i
    BY <1>1 DEF CountsOff
  <1>3. f \in [1..K -> T]
    BY <1>1, <1>2
  <1>4. \A t \in T : f[number[t]] = t
    BY <1>2 DEF CountsOff
  <1>5. Lists(f, T, K)
    <2>1. \A i, j \in 1..K : f[i] = f[j] => i = j
      BY <1>2
    <2>2. \A t \in T : number[t] \in 1..K
      BY DEF CountsOff
    <2> QED BY <1>3, <1>4, <2>1, <2>2 DEF Lists
  <1> QED BY <1>5, Counted

\* Places that are numbered in reading order, and show the cameras in the order of the
\* numbers.
LEMMA DealtInOrder ==
  ASSUME NEW request, None \notin WantedBy(request),
         NEW N \in Nat, NEW cameras, Choice(request, N, cameras),
         NEW places, NEW number,
         CountsOff(number, places, N),
         \A p, q \in places : Precedes(p, q) => number[p] < number[q],
         \A p \in places :
           p.camera = IF number[p] \in DOMAIN cameras THEN cameras[number[p]] ELSE None
  PROVE  AreDealtInOrder(places, request)
  <1>1. PICK W, L, filled, shown :
          /\ W = WantedBy(request) /\ L = Len(cameras)
          /\ filled = {p \in places : p.camera # None}
          /\ shown = {p.camera : p \in filled}
    OBVIOUS
  <1>2. /\ L \in Nat /\ DOMAIN cameras = 1..L /\ \A i \in 1..L : cameras[i] \in W
        /\ IsFiniteSet(W) /\ Cardinality(W) \in Nat
        /\ \A i, j \in 1..L : cameras[i] = cameras[j] => i = j
        /\ N > 0 => L = Min({Cardinality(W), N})
    BY <1>1, FS_CardinalityType DEF Choice
  <1>3. PICK K : K = IF N = 0 THEN 0 ELSE L
    OBVIOUS
  <1>4. K \in Nat /\ K <= N /\ K <= L /\ K = Min({Cardinality(W), N})
    <2>1. Min({Cardinality(W), N}) = IF Cardinality(W) <= N THEN Cardinality(W) ELSE N
      BY <1>2, SmallerOf
    <2>2. CASE N = 0
      BY <1>2, <1>3, <2>1, <2>2
    <2>3. CASE N # 0
      BY <1>2, <1>3, <2>1, <2>3
    <2> QED BY <2>2, <2>3
  <1>5. \A n \in 1..N : n \in 1..L <=> n \in 1..K
    BY <1>2, <1>3, <1>4
  <1>6. /\ \A p \in places : p \in filled <=> number[p] \in 1..K
        /\ \A p \in filled : p \in places /\ p.camera = cameras[number[p]] /\ p.camera \in W
    BY <1>1, <1>2, <1>5 DEF CountsOff
  <1>7. Cardinality(places) = N
    BY CountedOff
  <1>8. Cardinality(filled) = K
    <2>1. ASSUME NEW n \in 1..K
          PROVE  \E p \in filled : number[p] = n
      <3>1. n \in 1..N
        BY <1>4
      <3>2. PICK p \in places : number[p] = n
        BY <3>1 DEF CountsOff
      <3> QED BY <1>6, <3>2
    <2>2. CountsOff(number, filled, K)
      BY <1>6, <2>1 DEF CountsOff
    <2> QED BY <1>4, <2>2, CountedOff
  <1>9. Cardinality(shown) = K
    <2>1. PICK f : f = [i \in 1..K |-> cameras[i]]
      OBVIOUS
    <2>2. \A i \in 1..K : f[i] \in shown
      <3>1. ASSUME NEW i \in 1..K PROVE cameras[i] \in shown
        <4>1. PICK p \in places : number[p] = i
          BY <1>4 DEF CountsOff
        <4>2. p \in filled /\ p.camera = cameras[i]
          BY <1>6, <4>1
        <4> QED BY <1>1, <4>2
      <3> QED BY <2>1, <3>1
    <2>3. \A c \in shown : \E i \in 1..K : f[i] = c
      BY <1>1, <1>6, <2>1 DEF CountsOff
    <2>4. \A i, j \in 1..K : f[i] = f[j] => i = j
      BY <1>2, <1>4, <2>1
    <2>5. f \in [1..K -> shown]
      BY <2>1, <2>2
    <2>6. Lists(f, shown, K)
      BY <2>3, <2>4, <2>5 DEF Lists
    <2> QED BY <1>4, <2>6, Counted
  <1>10. shown \subseteq W
    BY <1>1, <1>6
  <1>11. ASSUME NEW p \in filled, NEW q \in places, Precedes(q, p)
         PROVE  q \in filled
    <2>1. number[q] \in 1..N /\ number[p] \in 1..K /\ number[q] < number[p]
      BY <1>6, <1>11 DEF CountsOff
    <2>2. number[q] \in 1..K
      BY <1>4, <2>1
    <2> QED BY <1>6, <2>2
  <1>12. request.cameras # <<>> =>
           \A p, q \in filled :
             Precedes(p, q) => FirstAt(request, p.camera) < FirstAt(request, q.camera)
    <2>1. ASSUME request.cameras # <<>>, NEW p \in filled, NEW q \in filled, Precedes(p, q)
          PROVE  FirstAt(request, p.camera) < FirstAt(request, q.camera)
      <3>1. p \in places /\ q \in places /\ number[p] \in 1..K /\ number[q] \in 1..K
        BY <1>6
      <3>2. number[p] \in 1..L /\ number[q] \in 1..L /\ number[p] < number[q]
        <4>1. number[p] < number[q]
          BY <2>1, <3>1
        <4>2. \A n \in 1..K : n \in 1..L
          BY <1>2, <1>4
        <4> QED BY <3>1, <4>1, <4>2
      <3>3. FirstAt(request, cameras[number[p]]) < FirstAt(request, cameras[number[q]])
        BY <1>2, <2>1, <3>2 DEF Choice
      <3> QED BY <1>6, <3>3
    <2> QED BY <2>1
  <1>13. Cardinality(filled) = Min({Cardinality(W), Cardinality(places)})
    BY <1>4, <1>7, <1>8
  <1>14. Cardinality(shown) = Cardinality(filled)
    BY <1>8, <1>9
  <1> QED BY <1>1, <1>10, <1>11, <1>12, <1>13, <1>14 DEF AreDealtInOrder, WantedBy, FirstAt

\* Slots, part by part: the number of each, and each number.
InParts(sizes, n, first, total) ==
  /\ total \in Nat
  /\ \A s \in 1..n : \A m \in 1..sizes[s] : first[s] \in Nat /\ first[s] + m \in 1..total
  /\ \A s, x \in 1..n : \A m \in 1..sizes[s], y \in 1..sizes[x] :
       s < x => first[s] + m < first[x] + y
  /\ \A k \in 1..total : \E s \in 1..n : \E m \in 1..sizes[s] : k = first[s] + m

LEMMA PartNumber ==
  ASSUME NEW sizes \in Seq(Nat)
  PROVE  InParts(sizes, Len(sizes), Starts(sizes), Total(sizes))
  <1>1. PICK n, f : n = Len(sizes) /\ f = Starts(sizes)
    OBVIOUS
  <1>2. n \in Nat /\ \A k \in 1..n : sizes[k] \in Nat
    BY <1>1
  <1>3. f \in [1..(n + 1) -> Nat] /\ f[1] = 0 /\ \A k \in 1..n : f[k + 1] = f[k] + sizes[k]
    BY <1>1, <1>2, StartsOf
  <1>4. \A k \in 1..n : k \in 1..(n + 1) /\ k + 1 \in 1..(n + 1)
    BY <1>2
  <1>5. \A j, k \in 1..(n + 1) : j <= k => f[j] <= f[k]
    <2>1. \A k \in 1..n : f[k] \in Nat /\ f[k + 1] \in Nat /\ sizes[k] \in Nat
      BY <1>2, <1>3, <1>4
    <2>2. \A k \in 1..n : f[k] <= f[k + 1]
      BY <1>3, <2>1
    <2> QED BY <1>2, <1>3, <2>2, StartsRise
  <1>6. Total(sizes) = f[n + 1] /\ f[n + 1] \in Nat /\ n + 1 \in 1..(n + 1)
    BY <1>1, <1>2, <1>3 DEF Total
  <1>7. ASSUME NEW s \in 1..n, NEW m \in 1..sizes[s]
        PROVE  f[s] \in Nat /\ f[s] + m \in 1..f[n + 1] /\ f[s] + m <= f[s + 1]
    <2>1. f[s + 1] = f[s] + sizes[s] /\ sizes[s] \in Nat
      BY <1>2, <1>3
    <2>2. s + 1 \in 1..(n + 1) /\ s \in 1..(n + 1) /\ s + 1 <= n + 1
      BY <1>2
    <2>3. f[s + 1] <= f[n + 1]
      BY <1>5, <1>6, <2>2
    <2>4. f[s] \in Nat /\ f[s + 1] \in Nat
      BY <1>3, <2>2
    <2>5. PICK u, v, w, d \in Nat : u = f[s] /\ v = f[s + 1] /\ w = f[n + 1] /\ d = sizes[s]
      BY <1>6, <2>1, <2>4
    <2>6. v = u + d /\ v <= w /\ m \in 1..d
      BY <2>1, <2>3, <2>5
    <2>7. u + m \in 1..w /\ u + m <= v
      BY <2>6
    <2> QED BY <2>5, <2>7
  <1>8. ASSUME NEW s \in 1..n, NEW x \in 1..n, NEW m \in 1..sizes[s], NEW y \in 1..sizes[x], s < x
        PROVE  f[s] + m < f[x] + y
    <2>1. s + 1 \in 1..(n + 1) /\ x \in 1..(n + 1) /\ s + 1 <= x
      BY <1>2, <1>8
    <2>2. f[s + 1] <= f[x]
      BY <1>5, <2>1
    <2>3. f[s] \in Nat /\ f[x] \in Nat /\ f[s] + m <= f[s + 1] /\ f[s + 1] \in Nat
      BY <1>3, <1>7, <2>1
    <2> QED BY <2>2, <2>3
  <1>9. ASSUME NEW k \in 1..f[n + 1]
        PROVE  \E s \in 1..n : \E m \in 1..sizes[s] : k = f[s] + m
    <2>1. PICK s \in 1..n : f[s] < k /\ k <= f[s + 1]
      BY <1>2, <1>3, StartsReach
    <2>2. f[s + 1] = f[s] + sizes[s] /\ sizes[s] \in Nat /\ f[s] \in Nat
      BY <1>2, <1>3, <1>4
    <2>3. PICK u, v, d, i \in Nat : u = f[s] /\ v = f[s + 1] /\ d = sizes[s] /\ i = k
      BY <1>6, <2>2
    <2>4. v = u + d /\ u < i /\ i <= v
      BY <2>1, <2>2, <2>3
    <2>5. i - u \in 1..d /\ i = u + (i - u)
      BY <2>4
    <2> QED BY <2>3, <2>5
  <1> QED BY <1>1, <1>6, <1>7, <1>8, <1>9 DEF InParts

\* Reading order of places with four coordinates.
Before(a, b) ==
  \/ a[1] < b[1]
  \/ a[1] = b[1] /\ a[2] < b[2]
  \/ a[1] = b[1] /\ a[2] = b[2] /\ a[3] < b[3]
  \/ a[1] = b[1] /\ a[2] = b[2] /\ a[3] = b[3] /\ a[4] < b[4]

\* The places of a set in reading order have the numbers up to n.
InReadingOrder(A, number, n) ==
  /\ A \in SUBSET (Nat \X Nat \X Nat \X Nat)
  /\ \A a \in A : number[a] \in 1..n
  /\ \A k \in 1..n : \E a \in A : number[a] = k
  /\ \A a, b \in A : Before(a, b) => number[a] < number[b]

CameraAt(cameras, n) == IF n \in DOMAIN cameras THEN cameras[n] ELSE None

\* The cameras are dealt to places in their order.
LEMMA DealtByNumber ==
  ASSUME NEW request, None \notin WantedBy(request),
         NEW N \in Nat, NEW cameras, Choice(request, N, cameras),
         NEW A, NEW number, InReadingOrder(A, number, N),
         NEW places, places = {[at |-> a, camera |-> CameraAt(cameras, number[a])] : a \in A}
  PROVE  AreDealtInOrder(places, request)
  <1>1. PICK nb : nb = [p \in places |-> number[p.at]]
    OBVIOUS
  <1>2. /\ \A a \in A : a \in Nat \X Nat \X Nat \X Nat /\ number[a] \in 1..N
        /\ \A k \in 1..N : \E a \in A : number[a] = k
        /\ \A a, b \in A : Before(a, b) => number[a] < number[b]
    BY DEF InReadingOrder
  <1>3. \A p \in places :
          /\ p.at \in A /\ nb[p] = number[p.at] /\ p.camera = CameraAt(cameras, number[p.at])
          /\ p = [at |-> p.at, camera |-> CameraAt(cameras, number[p.at])]
    BY <1>1
  <1>4. ASSUME NEW p \in places, NEW q \in places, Precedes(p, q)
        PROVE  nb[p] < nb[q]
    <2>1. PICK a, b : a = p.at /\ b = q.at
      OBVIOUS
    <2>2. a \in A /\ b \in A /\ nb[p] = number[a] /\ nb[q] = number[b]
      BY <1>3, <2>1
    <2>3. a \in Nat \X Nat \X Nat \X Nat /\ DOMAIN a = 1..4
      BY <1>2, <2>2
    <2>4. PICK i \in 1..4 : a[i] < b[i] /\ \A j \in 1..(i - 1) : a[j] = b[j]
      BY <1>4, <2>1, <2>3 DEF Precedes
    <2>5. Before(a, b)
      <3>1. i = 1 \/ i = 2 \/ i = 3 \/ i = 4
        BY <2>4
      <3>2. CASE i = 1
        BY <2>4, <3>2 DEF Before
      <3>3. CASE i = 2
        <4>1. a[1] = b[1] /\ a[2] < b[2]
          BY <2>4, <3>3
        <4> QED BY <4>1 DEF Before
      <3>4. CASE i = 3
        <4>1. a[1] = b[1] /\ a[2] = b[2] /\ a[3] < b[3]
          BY <2>4, <3>4
        <4> QED BY <4>1 DEF Before
      <3>5. CASE i = 4
        <4>1. a[1] = b[1] /\ a[2] = b[2] /\ a[3] = b[3] /\ a[4] < b[4]
          BY <2>4, <3>5
        <4> QED BY <4>1 DEF Before
      <3> QED BY <3>1, <3>2, <3>3, <3>4, <3>5
    <2> QED BY <1>2, <2>2, <2>5
  <1>5. ASSUME NEW a \in A, NEW b \in A, number[a] = number[b]
        PROVE  a = b
    <2>1. /\ a[1] \in Nat /\ a[2] \in Nat /\ a[3] \in Nat /\ a[4] \in Nat
          /\ b[1] \in Nat /\ b[2] \in Nat /\ b[3] \in Nat /\ b[4] \in Nat
          /\ a = <<a[1], a[2], a[3], a[4]>> /\ b = <<b[1], b[2], b[3], b[4]>>
      BY <1>2
    <2>2. ~Before(a, b) /\ ~Before(b, a)
      <3>1. number[a] \in 1..N /\ number[b] \in 1..N
        BY <1>2
      <3>2. ~(number[a] < number[b]) /\ ~(number[b] < number[a])
        BY <1>5, <3>1
      <3> QED BY <1>2, <3>2
    <2>3. a[1] = b[1]
      BY <2>1, <2>2 DEF Before
    <2>4. a[2] = b[2]
      BY <2>1, <2>2, <2>3 DEF Before
    <2>5. a[3] = b[3]
      BY <2>1, <2>2, <2>3, <2>4 DEF Before
    <2>6. a[4] = b[4]
      BY <2>1, <2>2, <2>3, <2>4, <2>5 DEF Before
    <2> QED BY <2>1, <2>3, <2>4, <2>5, <2>6
  <1>6. CountsOff(nb, places, N)
    <2>1. \A p \in places : nb[p] \in 1..N
      BY <1>2, <1>3
    <2>2. \A p, q \in places : nb[p] = nb[q] => p = q
      BY <1>3, <1>5
    <2>3. ASSUME NEW k \in 1..N
          PROVE  \E p \in places : nb[p] = k
      <3>1. PICK a \in A : number[a] = k
        BY <1>2
      <3>2. PICK p : p = [at |-> a, camera |-> CameraAt(cameras, number[a])]
        OBVIOUS
      <3>3. p \in places /\ p.at = a
        BY <3>2
      <3> QED BY <1>3, <3>1, <3>3
    <2> QED BY <2>1, <2>2, <2>3 DEF CountsOff
  <1>7. \A p \in places : p.camera = IF nb[p] \in DOMAIN cameras THEN cameras[nb[p]] ELSE None
    BY <1>3 DEF CameraAt
  <1> QED BY <1>4, <1>6, <1>7, DealtInOrder

-----------------------------------------------------------------------------
(* Views that fill monitors *)

\* The slots of the views of a monitor.
WithinMonitor(grids, v, r, c) == Starts(ViewSizes(grids))[v] + ((r - 1) * grids[v][2] + c)

LEMMA ViewsOfMonitor ==
  ASSUME NEW grids \in Seq(Grid(ViewSide))
  PROVE  /\ ViewSizes(grids) \in Seq(Nat) /\ Len(ViewSizes(grids)) = Len(grids)
         /\ \A v \in 1..Len(grids) :
              /\ grids[v][1] \in Nat /\ grids[v][2] \in Nat \ {0}
              /\ ViewSizes(grids)[v] = grids[v][1] * grids[v][2]
  <1>1. PICK n : n = Len(grids)
    OBVIOUS
  <1>2. n \in Nat /\ DOMAIN grids = 1..n
    BY <1>1
  <1>3. \A v \in 1..n : grids[v][1] \in Nat /\ grids[v][2] \in Nat \ {0}
    <2>1. \A v \in 1..n : grids[v] \in (1..ViewSide) \X (1..ViewSide)
      BY <1>1 DEF Grid
    <2>2. \A x \in 1..ViewSide : x \in Nat \ {0}
      BY TablesAssumption
    <2> QED BY <2>1, <2>2
  <1>4. ViewSizes(grids) = [v \in 1..n |-> grids[v][1] * grids[v][2]]
    BY <1>2 DEF ViewSizes
  <1>5. \A v \in 1..n : grids[v][1] * grids[v][2] \in Nat
    BY <1>3
  <1>6. ViewSizes(grids) \in [1..n -> Nat]
    BY <1>4, <1>5
  <1>7. ViewSizes(grids) \in Seq(Nat) /\ Len(ViewSizes(grids)) = n
    BY <1>2, <1>6, SeqDef, LenProperties
  <1> QED BY <1>1, <1>3, <1>4, <1>7

LEMMA MonitorInOrder ==
  ASSUME NEW grids \in Seq(Grid(ViewSide))
  PROVE  /\ \A v \in 1..Len(grids) : \A r \in 1..grids[v][1], c \in 1..grids[v][2] :
              WithinMonitor(grids, v, r, c) \in 1..Total(ViewSizes(grids))
         /\ \A k \in 1..Total(ViewSizes(grids)) :
              \E v \in 1..Len(grids) : \E r \in 1..grids[v][1], c \in 1..grids[v][2] :
                k = WithinMonitor(grids, v, r, c)
         /\ \A v, w \in 1..Len(grids) :
              \A r \in 1..grids[v][1], c \in 1..grids[v][2],
                 x \in 1..grids[w][1], y \in 1..grids[w][2] :
                v < w \/ (v = w /\ (r < x \/ (r = x /\ c < y))) =>
                  WithinMonitor(grids, v, r, c) < WithinMonitor(grids, w, x, y)
  <1>1. PICK n, sizes, first : n = Len(grids) /\ sizes = ViewSizes(grids) /\ first = Starts(sizes)
    OBVIOUS
  <1>2. /\ sizes \in Seq(Nat) /\ Len(sizes) = n
        /\ \A v \in 1..n : /\ grids[v][1] \in Nat /\ grids[v][2] \in Nat \ {0}
                           /\ sizes[v] = grids[v][1] * grids[v][2]
    BY <1>1, ViewsOfMonitor
  <1>3. InParts(sizes, n, first, Total(sizes))
    BY <1>1, <1>2, PartNumber
  <1>4. ASSUME NEW v \in 1..n, NEW r \in 1..grids[v][1], NEW c \in 1..grids[v][2]
        PROVE  /\ (r - 1) * grids[v][2] + c \in 1..sizes[v]
               /\ WithinMonitor(grids, v, r, c) = first[v] + ((r - 1) * grids[v][2] + c)
               /\ WithinMonitor(grids, v, r, c) \in 1..Total(sizes)
    <2>1. PICK rows \in Nat, cols \in Nat \ {0} :
            rows = grids[v][1] /\ cols = grids[v][2] /\ sizes[v] = rows * cols
      BY <1>2
    <2>2. (r - 1) * cols + c \in 1..rows * cols
      BY <2>1, GridNumber
    <2>3. WithinMonitor(grids, v, r, c) = first[v] + ((r - 1) * grids[v][2] + c)
      BY <1>1 DEF WithinMonitor
    <2> QED BY <1>3, <2>1, <2>2, <2>3 DEF InParts
  <1>5. ASSUME NEW k \in 1..Total(sizes)
        PROVE  \E v \in 1..n : \E r \in 1..grids[v][1], c \in 1..grids[v][2] :
                 k = WithinMonitor(grids, v, r, c)
    <2>1. PICK v \in 1..n : \E m \in 1..sizes[v] : k = first[v] + m
      BY <1>3 DEF InParts
    <2>2. PICK m \in 1..sizes[v] : k = first[v] + m
      BY <2>1
    <2>3. PICK rows \in Nat, cols \in Nat \ {0} :
            rows = grids[v][1] /\ cols = grids[v][2] /\ sizes[v] = rows * cols
      BY <1>2
    <2>4. PICK r \in 1..rows, c \in 1..cols : m = (r - 1) * cols + c
      <3>1. m \in 1..rows * cols
        BY <2>2, <2>3
      <3> QED BY <3>1, GridPlace
    <2>5. r \in 1..grids[v][1] /\ c \in 1..grids[v][2] /\ k = WithinMonitor(grids, v, r, c)
      BY <1>4, <2>2, <2>3, <2>4
    <2> QED BY <2>5
  <1>6. ASSUME NEW v \in 1..n, NEW w \in 1..n,
               NEW r \in 1..grids[v][1], NEW c \in 1..grids[v][2],
               NEW x \in 1..grids[w][1], NEW y \in 1..grids[w][2],
               v < w \/ (v = w /\ (r < x \/ (r = x /\ c < y)))
        PROVE  WithinMonitor(grids, v, r, c) < WithinMonitor(grids, w, x, y)
    <2>1. PICK m, k : m = (r - 1) * grids[v][2] + c /\ k = (x - 1) * grids[w][2] + y
      OBVIOUS
    <2>2. /\ m \in 1..sizes[v] /\ WithinMonitor(grids, v, r, c) = first[v] + m
          /\ k \in 1..sizes[w] /\ WithinMonitor(grids, w, x, y) = first[w] + k
      BY <1>4, <2>1
    <2>3. CASE v < w
      BY <1>3, <2>2, <2>3 DEF InParts
    <2>4. CASE v = w /\ (r < x \/ (r = x /\ c < y))
      <3>1. PICK cols \in Nat \ {0} : cols = grids[v][2]
        BY <1>2
      <3>2. r \in Nat /\ x \in Nat /\ c \in 1..cols /\ y \in 1..cols
        BY <1>2, <2>4, <3>1
      <3>3. (r - 1) * cols + c < (x - 1) * cols + y
        BY <2>4, <3>2, GridOrder
      <3>4. m < k
        BY <2>1, <2>4, <3>1, <3>3
      <3>5. first[v] \in Nat /\ m \in Nat /\ k \in Nat
        BY <1>2, <1>3, <2>2, <2>4 DEF InParts
      <3> QED BY <2>2, <2>4, <3>4, <3>5
    <2> QED BY <1>6, <2>3, <2>4
  <1> QED BY <1>1, <1>4, <1>5, <1>6

\* The slots of all monitors, <<monitor, view, row, column>>, and the number of each.
ViewTuples(monitors) ==
  {a \in Nat \X Nat \X Nat \X Nat :
     /\ a[1] \in 1..Len(monitors) /\ a[2] \in 1..Len(monitors[a[1]])
     /\ a[3] \in 1..monitors[a[1]][a[2]][1] /\ a[4] \in 1..monitors[a[1]][a[2]][2]}
ViewNumber(monitors, a) ==
  Starts(MonitorSizes(monitors))[a[1]] + WithinMonitor(monitors[a[1]], a[2], a[3], a[4])

LEMMA SizesOfMonitors ==
  ASSUME NEW monitors \in Seq(Seq(Grid(ViewSide)))
  PROVE  /\ MonitorSizes(monitors) \in Seq(Nat)
         /\ Len(MonitorSizes(monitors)) = Len(monitors)
         /\ \A s \in 1..Len(monitors) :
              /\ monitors[s] \in Seq(Grid(ViewSide))
              /\ MonitorSizes(monitors)[s] = Total(ViewSizes(monitors[s]))
  <1>1. PICK n : n = Len(monitors)
    OBVIOUS
  <1>2. n \in Nat /\ DOMAIN monitors = 1..n /\ \A s \in 1..n : monitors[s] \in Seq(Grid(ViewSide))
    BY <1>1
  <1>3. ASSUME NEW s \in 1..n
        PROVE  Total(ViewSizes(monitors[s])) \in Nat
    <2>1. PICK sizes : sizes = ViewSizes(monitors[s])
      OBVIOUS
    <2>2. sizes \in Seq(Nat)
      BY <1>2, <2>1, ViewsOfMonitor
    <2>3. InParts(sizes, Len(sizes), Starts(sizes), Total(sizes))
      BY <2>2, PartNumber
    <2> QED BY <2>1, <2>3 DEF InParts
  <1>4. MonitorSizes(monitors) = [s \in 1..n |-> Total(ViewSizes(monitors[s]))]
    BY <1>2 DEF MonitorSizes
  <1>5. MonitorSizes(monitors) \in [1..n -> Nat]
    BY <1>3, <1>4
  <1>6. MonitorSizes(monitors) \in Seq(Nat) /\ Len(MonitorSizes(monitors)) = n
    BY <1>2, <1>5, SeqDef, LenProperties
  <1> QED BY <1>1, <1>2, <1>4, <1>6

LEMMA ViewsInOrder ==
  ASSUME NEW monitors \in Seq(Seq(Grid(ViewSide)))
  PROVE  /\ ViewSlots(monitors) \in Nat
         /\ InReadingOrder(ViewTuples(monitors),
                           [a \in ViewTuples(monitors) |-> ViewNumber(monitors, a)],
                           ViewSlots(monitors))
  <1>1. PICK n, sizes, first, N, A, number :
          /\ n = Len(monitors) /\ sizes = MonitorSizes(monitors) /\ first = Starts(sizes)
          /\ N = Total(sizes) /\ A = ViewTuples(monitors)
          /\ number = [a \in A |-> ViewNumber(monitors, a)]
    OBVIOUS
  <1>2. /\ sizes \in Seq(Nat) /\ Len(sizes) = n
        /\ \A s \in 1..n : /\ monitors[s] \in Seq(Grid(ViewSide))
                           /\ sizes[s] = Total(ViewSizes(monitors[s]))
    BY <1>1, SizesOfMonitors
  <1>3. InParts(sizes, n, first, N)
    BY <1>1, <1>2, PartNumber
  <1>4. n \in Nat
    BY <1>1
  <1>5. ASSUME NEW a \in A
        PROVE  /\ a \in Nat \X Nat \X Nat \X Nat
               /\ a[1] \in 1..n /\ monitors[a[1]] \in Seq(Grid(ViewSide))
               /\ a[2] \in 1..Len(monitors[a[1]])
               /\ a[3] \in 1..monitors[a[1]][a[2]][1] /\ a[4] \in 1..monitors[a[1]][a[2]][2]
    BY <1>1, <1>2 DEF ViewTuples
  <1>6. ASSUME NEW a \in A
        PROVE  LET m == WithinMonitor(monitors[a[1]], a[2], a[3], a[4]) IN
               /\ number[a] = first[a[1]] + m /\ m \in 1..sizes[a[1]]
               /\ number[a] \in 1..N /\ first[a[1]] \in Nat
    <2>1. PICK m : m = WithinMonitor(monitors[a[1]], a[2], a[3], a[4])
      OBVIOUS
    <2>2. m \in 1..sizes[a[1]]
      <3>1. m \in 1..Total(ViewSizes(monitors[a[1]]))
        BY <1>5, <2>1, MonitorInOrder
      <3> QED BY <1>2, <1>5, <3>1
    <2>3. number[a] = first[a[1]] + m
      BY <1>1, <2>1 DEF ViewNumber
    <2>4. first[a[1]] \in Nat /\ first[a[1]] + m \in 1..N
      BY <1>3, <1>5, <2>2 DEF InParts
    <2> QED BY <2>1, <2>2, <2>3, <2>4
  <1>7. ASSUME NEW k \in 1..N
        PROVE  \E a \in A : number[a] = k
    <2>1. PICK s \in 1..n : \E m \in 1..sizes[s] : k = first[s] + m
      BY <1>3 DEF InParts
    <2>2. PICK m \in 1..sizes[s] : k = first[s] + m
      BY <2>1
    <2>3. PICK grids : grids = monitors[s]
      OBVIOUS
    <2>4. grids \in Seq(Grid(ViewSide)) /\ m \in 1..Total(ViewSizes(grids))
      BY <1>2, <2>2, <2>3
    <2>5. PICK v \in 1..Len(grids) : \E r \in 1..grids[v][1], c \in 1..grids[v][2] :
            m = WithinMonitor(grids, v, r, c)
      BY <2>4, MonitorInOrder
    <2>6. PICK r \in 1..grids[v][1], c \in 1..grids[v][2] : m = WithinMonitor(grids, v, r, c)
      BY <2>5
    <2>7. grids[v][1] \in Nat /\ grids[v][2] \in Nat /\ Len(grids) \in Nat
      BY <2>4, ViewsOfMonitor
    <2>8. s \in Nat /\ v \in Nat /\ r \in Nat /\ c \in Nat
      BY <1>4, <2>7
    <2>9. PICK a : a = <<s, v, r, c>>
      OBVIOUS
    <2>10. a \in Nat \X Nat \X Nat \X Nat /\ a[1] = s /\ a[2] = v /\ a[3] = r /\ a[4] = c
      BY <2>8, <2>9
    <2>11. a \in A
      BY <1>1, <2>3, <2>10 DEF ViewTuples
    <2>12. number[a] = first[s] + WithinMonitor(grids, v, r, c)
      BY <1>6, <2>3, <2>10, <2>11
    <2> QED BY <2>2, <2>6, <2>11, <2>12
  <1>8. ASSUME NEW a \in A, NEW b \in A, Before(a, b)
        PROVE  number[a] < number[b]
    <2>1. PICK m, k : /\ m = WithinMonitor(monitors[a[1]], a[2], a[3], a[4])
                      /\ k = WithinMonitor(monitors[b[1]], b[2], b[3], b[4])
      OBVIOUS
    <2>2. /\ number[a] = first[a[1]] + m /\ m \in 1..sizes[a[1]] /\ first[a[1]] \in Nat
          /\ number[b] = first[b[1]] + k /\ k \in 1..sizes[b[1]]
      BY <1>6, <2>1
    <2>3. a[1] \in 1..n /\ b[1] \in 1..n
      BY <1>5
    <2>4. CASE a[1] < b[1]
      <3>1. \A s, x \in 1..n : \A i \in 1..sizes[s], j \in 1..sizes[x] :
              s < x => first[s] + i < first[x] + j
        BY <1>3 DEF InParts
      <3>2. first[a[1]] + m < first[b[1]] + k
        BY <2>2, <2>3, <2>4, <3>1
      <3> QED BY <2>2, <3>2
    <2>5. CASE a[1] = b[1] /\ ~(a[1] < b[1])
      <3>1. PICK grids : grids = monitors[a[1]]
        OBVIOUS
      <3>2. a[2] < b[2] \/ (a[2] = b[2] /\ (a[3] < b[3] \/ (a[3] = b[3] /\ a[4] < b[4])))
        BY <1>8, <2>5 DEF Before
      <3>3. /\ grids \in Seq(Grid(ViewSide))
            /\ a[2] \in 1..Len(grids) /\ a[3] \in 1..grids[a[2]][1] /\ a[4] \in 1..grids[a[2]][2]
            /\ b[2] \in 1..Len(grids) /\ b[3] \in 1..grids[b[2]][1] /\ b[4] \in 1..grids[b[2]][2]
        BY <1>5, <2>5, <3>1
      <3>4. WithinMonitor(grids, a[2], a[3], a[4]) < WithinMonitor(grids, b[2], b[3], b[4])
        BY <3>2, <3>3, MonitorInOrder
      <3>5. m < k
        BY <2>1, <2>5, <3>1, <3>4
      <3>6. sizes[a[1]] \in Nat
        <4>1. sizes \in Seq(Nat) /\ Len(sizes) = n
          BY <1>2
        <4> QED BY <1>4, <2>3, <4>1
      <3> QED BY <2>2, <2>5, <3>5, <3>6
    <2>6. a[1] < b[1] \/ (a[1] = b[1] /\ ~(a[1] < b[1]))
      BY <1>4, <1>8, <2>3 DEF Before
    <2> QED BY <2>4, <2>5, <2>6
  <1>9. InReadingOrder(A, number, N)
    <2>1. A \in SUBSET (Nat \X Nat \X Nat \X Nat)
      BY <1>5
    <2>2. \A a \in A : number[a] \in 1..N
      BY <1>6
    <2> QED BY <1>7, <1>8, <2>1, <2>2 DEF InReadingOrder
  <1>10. ViewSlots(monitors) = N /\ N \in Nat
    BY <1>1, <1>3 DEF ViewSlots, InParts
  <1> QED BY <1>1, <1>9, <1>10

\* Parts begin at numbers.
LEMMA StartsAreNumbers ==
  ASSUME NEW sizes \in Seq(Nat), NEW s \in 1..Len(sizes)
  PROVE  Starts(sizes)[s] \in Nat
  <1>1. PICK n : n = Len(sizes)
    OBVIOUS
  <1>2. n \in Nat /\ \A k \in 1..n : sizes[k] \in Nat
    BY <1>1
  <1>3. Starts(sizes) \in [1..(n + 1) -> Nat]
    BY <1>1, <1>2, StartsOf
  <1>4. s \in 1..(n + 1)
    BY <1>1, <1>2
  <1> QED BY <1>3, <1>4

\* A place and what it shows.
PlaceOfView(s, v, source) ==
  [at |-> <<s, v, source.slot[1], source.slot[2]>>, camera |-> source.camera]

LEMMA ViewPlacesOf ==
  ASSUME NEW config, NEW p
  PROVE  p \in ViewPlaces(config) <=>
           \E s \in DOMAIN config : \E v \in DOMAIN config[s] : \E k \in DOMAIN config[s][v] :
             p = PlaceOfView(s, v, config[s][v][k])
  <1>1. ASSUME p \in ViewPlaces(config)
        PROVE  \E s \in DOMAIN config : \E v \in DOMAIN config[s] : \E k \in DOMAIN config[s][v] :
                 p = PlaceOfView(s, v, config[s][v][k])
    <2>1. PICK s \in DOMAIN config :
            p \in UNION {{PlaceOfView(s, v, source) : source \in Range(config[s][v])} :
                           v \in DOMAIN config[s]}
      BY <1>1 DEF ViewPlaces, PlaceOfView
    <2>2. PICK v \in DOMAIN config[s] :
            p \in {PlaceOfView(s, v, source) : source \in Range(config[s][v])}
      BY <2>1
    <2>3. PICK source \in Range(config[s][v]) : p = PlaceOfView(s, v, source)
      BY <2>2
    <2>4. PICK k \in DOMAIN config[s][v] : source = config[s][v][k]
      BY DEF Range
    <2> QED BY <2>3, <2>4
  <1>2. ASSUME NEW s \in DOMAIN config, NEW v \in DOMAIN config[s], NEW k \in DOMAIN config[s][v],
               p = PlaceOfView(s, v, config[s][v][k])
        PROVE  p \in ViewPlaces(config)
    <2>1. config[s][v][k] \in Range(config[s][v])
      BY DEF Range
    <2>2. p \in {PlaceOfView(s, v, source) : source \in Range(config[s][v])}
      BY <1>2, <2>1
    <2>3. p \in UNION {{PlaceOfView(s, w, source) : source \in Range(config[s][w])} :
                         w \in DOMAIN config[s]}
      BY <2>2
    <2> QED BY <2>3 DEF ViewPlaces, PlaceOfView
  <1> QED BY <1>1, <1>2

\* A view of a monitor: its grid, and the camera of each slot.
IsView(view, cameras, monitors, s, v) ==
  /\ monitors[s][v][1] \in Nat /\ monitors[s][v][2] \in Nat
  /\ \A r \in 1..monitors[s][v][1], c \in 1..monitors[s][v][2] :
       /\ GridAt(monitors[s][v][2], r, c) \in DOMAIN view
       /\ view[GridAt(monitors[s][v][2], r, c)] =
            Dealt(cameras, ViewNumber(monitors, <<s, v, r, c>>), v, <<r, c>>)
  /\ \A k \in DOMAIN view : \E r \in 1..monitors[s][v][1], c \in 1..monitors[s][v][2] :
       k = GridAt(monitors[s][v][2], r, c)

LEMMA SourcesOfView ==
  ASSUME NEW monitors \in Seq(Seq(Grid(ViewSide))), NEW cameras,
         NEW s \in 1..Len(monitors), NEW v \in 1..Len(monitors[s])
  PROVE  IsView(DealtToViews(cameras, monitors)[s][v], cameras, monitors, s, v)
  <1>1. PICK grids, sizes, first, next :
          /\ grids = monitors[s] /\ sizes = MonitorSizes(monitors) /\ first = Starts(sizes)
          /\ next = Starts(ViewSizes(grids))
    OBVIOUS
  <1>2. grids \in Seq(Grid(ViewSide)) /\ sizes \in Seq(Nat) /\ Len(sizes) = Len(monitors)
    BY <1>1, SizesOfMonitors
  <1>3. /\ ViewSizes(grids) \in Seq(Nat) /\ Len(ViewSizes(grids)) = Len(grids)
        /\ v \in 1..Len(grids) /\ grids[v][1] \in Nat /\ grids[v][2] \in Nat \ {0}
    BY <1>1, <1>2, ViewsOfMonitor
  <1>4. first[s] \in Nat /\ next[v] \in Nat
    BY <1>1, <1>2, <1>3, StartsAreNumbers
  <1>5. PICK rows, cols, slots :
          rows = grids[v][1] /\ cols = grids[v][2] /\ slots = RowMajor(rows, cols)
    OBVIOUS
  <1>6. rows \in Nat /\ cols \in Nat \ {0}
    BY <1>3, <1>5
  <1>7. ByRows(slots, rows, cols)
    BY <1>5, <1>6, RowMajorAt
  <1>8. PICK view : view = DealtToViews(cameras, monitors)[s][v]
    OBVIOUS
  <1>9. view = [k \in DOMAIN slots |-> Dealt(cameras, first[s] + next[v] + k, v, slots[k])]
    <2>1. DOMAIN monitors = 1..Len(monitors) /\ DOMAIN grids = 1..Len(grids)
      BY <1>2
    <2> QED BY <1>1, <1>3, <1>5, <1>8, <2>1 DEF DealtToViews
  <1>10. ASSUME NEW r \in 1..rows, NEW c \in 1..cols
         PROVE  view[GridAt(cols, r, c)] =
                  Dealt(cameras, ViewNumber(monitors, <<s, v, r, c>>), v, <<r, c>>)
    <2>1. PICK k : k = GridAt(cols, r, c)
      OBVIOUS
    <2>2. k \in DOMAIN slots /\ slots[k] = <<r, c>> /\ k \in Nat
      BY <1>7, <2>1 DEF ByRows
    <2>3. ViewNumber(monitors, <<s, v, r, c>>) = first[s] + (next[v] + k)
      BY <1>1, <1>5, <2>1 DEF ViewNumber, WithinMonitor, GridAt
    <2>4. first[s] + (next[v] + k) = first[s] + next[v] + k
      BY <1>4, <2>2
    <2> QED BY <1>9, <2>1, <2>2, <2>3, <2>4
  <1>11. DOMAIN view = DOMAIN slots
    BY <1>9
  <1>12. rows = monitors[s][v][1] /\ cols = monitors[s][v][2]
    BY <1>1, <1>5
  <1>13. \A r \in 1..rows, c \in 1..cols : GridAt(cols, r, c) \in DOMAIN view
    BY <1>7, <1>11 DEF ByRows
  <1>14. \A k \in DOMAIN view : \E r \in 1..rows, c \in 1..cols : k = GridAt(cols, r, c)
    BY <1>7, <1>11 DEF ByRows
  <1>15. IsView(view, cameras, monitors, s, v)
    BY <1>6, <1>10, <1>12, <1>13, <1>14 DEF IsView
  <1> QED BY <1>8, <1>15

\* Every place of the views.
LEMMA PlacesOfViews ==
  ASSUME NEW monitors \in Seq(Seq(Grid(ViewSide))), NEW cameras
  PROVE  ViewPlaces(DealtToViews(cameras, monitors)) =
           {[at |-> a, camera |-> CameraAt(cameras, ViewNumber(monitors, a))] :
              a \in ViewTuples(monitors)}
  <1>1. PICK config, n : config = DealtToViews(cameras, monitors) /\ n = Len(monitors)
    OBVIOUS
  <1>2. PICK T : T = {[at |-> a, camera |-> CameraAt(cameras, ViewNumber(monitors, a))] :
                    a \in ViewTuples(monitors)}
    OBVIOUS
  <1>3. /\ n \in Nat /\ DOMAIN config = 1..n
        /\ \A s \in 1..n : DOMAIN config[s] = 1..Len(monitors[s]) /\ Len(monitors[s]) \in Nat
    <2>1. DOMAIN monitors = 1..n /\ n \in Nat
      BY <1>1
    <2>2. \A s \in 1..n : monitors[s] \in Seq(Grid(ViewSide))
      BY <1>1
    <2>3. \A s \in 1..n : DOMAIN monitors[s] = 1..Len(monitors[s]) /\ Len(monitors[s]) \in Nat
      BY <2>2
    <2> QED BY <1>1, <2>1, <2>3 DEF DealtToViews
  <1>4. ASSUME NEW s \in 1..n, NEW v \in 1..Len(monitors[s])
        PROVE  IsView(config[s][v], cameras, monitors, s, v)
    BY <1>1, SourcesOfView
  <1>5. ASSUME NEW s \in 1..n, NEW v \in 1..Len(monitors[s]),
               NEW r \in 1..monitors[s][v][1], NEW c \in 1..monitors[s][v][2]
        PROVE  LET k == GridAt(monitors[s][v][2], r, c)
                   a == <<s, v, r, c>>
               IN /\ k \in DOMAIN config[s][v] /\ a \in ViewTuples(monitors)
                  /\ PlaceOfView(s, v, config[s][v][k]) =
                       [at |-> a, camera |-> CameraAt(cameras, ViewNumber(monitors, a))]
    <2>1. PICK k, a : k = GridAt(monitors[s][v][2], r, c) /\ a = <<s, v, r, c>>
      OBVIOUS
    <2>2. /\ k \in DOMAIN config[s][v]
          /\ config[s][v][k] = Dealt(cameras, ViewNumber(monitors, a), v, <<r, c>>)
          /\ monitors[s][v][1] \in Nat /\ monitors[s][v][2] \in Nat
      <3>1. IsView(config[s][v], cameras, monitors, s, v)
        BY <1>4
      <3> QED BY <2>1, <3>1 DEF IsView
    <2>3. PlaceOfView(s, v, config[s][v][k]) =
            [at |-> a, camera |-> CameraAt(cameras, ViewNumber(monitors, a))]
      BY <2>1, <2>2 DEF PlaceOfView, Dealt, CameraAt
    <2>4. s \in Nat /\ v \in Nat /\ r \in Nat /\ c \in Nat
      BY <1>3, <2>2
    <2>5. a \in Nat \X Nat \X Nat \X Nat /\ a[1] = s /\ a[2] = v /\ a[3] = r /\ a[4] = c
      BY <2>1, <2>4
    <2>6. a \in ViewTuples(monitors)
      BY <1>1, <2>5 DEF ViewTuples
    <2> QED BY <2>1, <2>2, <2>3, <2>6
  <1>6. ASSUME NEW p \in ViewPlaces(config)
        PROVE  p \in T
    <2>1. PICK s \in 1..n : \E v \in DOMAIN config[s] : \E k \in DOMAIN config[s][v] :
            p = PlaceOfView(s, v, config[s][v][k])
      BY <1>3, ViewPlacesOf
    <2>2. PICK v \in 1..Len(monitors[s]) : \E k \in DOMAIN config[s][v] :
            p = PlaceOfView(s, v, config[s][v][k])
      BY <1>3, <2>1
    <2>3. PICK k \in DOMAIN config[s][v] : p = PlaceOfView(s, v, config[s][v][k])
      BY <2>2
    <2>4. PICK r \in 1..monitors[s][v][1], c \in 1..monitors[s][v][2] :
            k = GridAt(monitors[s][v][2], r, c)
      BY <1>4 DEF IsView
    <2>5. PICK a : a = <<s, v, r, c>>
      OBVIOUS
    <2>6. /\ a \in ViewTuples(monitors)
          /\ p = [at |-> a, camera |-> CameraAt(cameras, ViewNumber(monitors, a))]
      BY <1>5, <2>3, <2>4, <2>5
    <2> QED BY <1>2, <2>6
  <1>7. ASSUME NEW a \in ViewTuples(monitors)
        PROVE  [at |-> a, camera |-> CameraAt(cameras, ViewNumber(monitors, a))]
                 \in ViewPlaces(config)
    <2>1. PICK s, v, r, c : s = a[1] /\ v = a[2] /\ r = a[3] /\ c = a[4]
      OBVIOUS
    <2>2. /\ a = <<s, v, r, c>> /\ s \in 1..n /\ v \in 1..Len(monitors[s])
          /\ r \in 1..monitors[s][v][1] /\ c \in 1..monitors[s][v][2]
      BY <1>1, <2>1 DEF ViewTuples
    <2>3. PICK k : k = GridAt(monitors[s][v][2], r, c)
      OBVIOUS
    <2>4. /\ k \in DOMAIN config[s][v]
          /\ PlaceOfView(s, v, config[s][v][k]) =
               [at |-> a, camera |-> CameraAt(cameras, ViewNumber(monitors, a))]
      BY <1>5, <2>2, <2>3
    <2> QED BY <1>3, <2>2, <2>4, ViewPlacesOf
  <1> QED BY <1>2, <1>1, <1>6, <1>7

-----------------------------------------------------------------------------
(* Tiles that fill screens *)

ScreenOfTiles == [grid : Grid(ViewSide), views : Nat \ {0}]

\* The sources of a screen, tile by tile.
WithinScreen(screen, r, c, v) == GridAt(screen.views, GridAt(screen.grid[2], r, c), v)
SizeOf(screen) == screen.grid[1] * screen.grid[2] * screen.views

\* The numbers of a grid.
Fills(rows, cols, size) ==
  /\ \A r \in 1..rows, c \in 1..cols : GridAt(cols, r, c) \in 1..size
  /\ \A k \in 1..size : \E r \in 1..rows, c \in 1..cols : k = GridAt(cols, r, c)

LEMMA GridFills ==
  ASSUME NEW rows \in Nat, NEW cols \in Nat \ {0}
  PROVE  Fills(rows, cols, rows * cols)
  <1>1. \A r \in 1..rows, c \in 1..cols : GridAt(cols, r, c) \in 1..rows * cols
    BY GridNumber DEF GridAt
  <1>2. \A k \in 1..rows * cols : \E r \in 1..rows, c \in 1..cols : k = GridAt(cols, r, c)
    BY GridPlace DEF GridAt
  <1> QED BY <1>1, <1>2 DEF Fills

LEMMA ScreenInOrder ==
  ASSUME NEW screen \in ScreenOfTiles
  PROVE  /\ screen.grid[1] \in Nat /\ screen.grid[2] \in Nat \ {0} /\ screen.views \in Nat \ {0}
         /\ SizeOf(screen) \in Nat
         /\ \A r \in 1..screen.grid[1], c \in 1..screen.grid[2], v \in 1..screen.views :
              WithinScreen(screen, r, c, v) \in 1..SizeOf(screen)
         /\ \A k \in 1..SizeOf(screen) :
              \E r \in 1..screen.grid[1], c \in 1..screen.grid[2], v \in 1..screen.views :
                k = WithinScreen(screen, r, c, v)
         /\ \A r, x \in 1..screen.grid[1], c, y \in 1..screen.grid[2], v, w \in 1..screen.views :
              r < x \/ (r = x /\ (c < y \/ (c = y /\ v < w))) =>
                WithinScreen(screen, r, c, v) < WithinScreen(screen, x, y, w)
  <1>1. screen.grid[1] \in Nat /\ screen.grid[2] \in Nat \ {0} /\ screen.views \in Nat \ {0}
    <2>1. screen.grid \in (1..ViewSide) \X (1..ViewSide) /\ screen.views \in Nat \ {0}
      BY DEF Grid, ScreenOfTiles
    <2>2. \A x \in 1..ViewSide : x \in Nat \ {0}
      BY TablesAssumption
    <2> QED BY <2>1, <2>2
  <1>2. PICK rows \in Nat, cols \in Nat \ {0}, views \in Nat \ {0} :
          rows = screen.grid[1] /\ cols = screen.grid[2] /\ views = screen.views
    BY <1>1
  <1>3. PICK cells : cells = rows * cols
    OBVIOUS
  <1>4. cells \in Nat /\ cells * views \in Nat /\ SizeOf(screen) = cells * views
    BY <1>2, <1>3 DEF SizeOf
  <1>5. Fills(rows, cols, cells) /\ Fills(cells, views, cells * views)
    BY <1>3, <1>4, GridFills
  <1>6. ASSUME NEW r \in 1..rows, NEW c \in 1..cols, NEW v \in 1..views
        PROVE  /\ GridAt(cols, r, c) \in 1..cells
               /\ WithinScreen(screen, r, c, v) = GridAt(views, GridAt(cols, r, c), v)
               /\ WithinScreen(screen, r, c, v) \in 1..cells * views
    BY <1>2, <1>5 DEF WithinScreen, Fills
  <1>7. ASSUME NEW k \in 1..cells * views
        PROVE  \E r \in 1..rows, c \in 1..cols, v \in 1..views : k = WithinScreen(screen, r, c, v)
    <2>1. PICK m \in 1..cells, v \in 1..views : k = GridAt(views, m, v)
      BY <1>5 DEF Fills
    <2>2. PICK r \in 1..rows, c \in 1..cols : m = GridAt(cols, r, c)
      BY <1>5 DEF Fills
    <2> QED BY <1>6, <2>1, <2>2
  <1>8. ASSUME NEW r \in 1..rows, NEW x \in 1..rows, NEW c \in 1..cols, NEW y \in 1..cols,
               NEW v \in 1..views, NEW w \in 1..views,
               r < x \/ (r = x /\ (c < y \/ (c = y /\ v < w)))
        PROVE  WithinScreen(screen, r, c, v) < WithinScreen(screen, x, y, w)
    <2>1. PICK m \in 1..cells, k \in 1..cells : m = GridAt(cols, r, c) /\ k = GridAt(cols, x, y)
      BY <1>6
    <2>2. m < k \/ (m = k /\ v < w)
      <3>1. CASE r < x \/ (r = x /\ c < y)
        <4>1. r \in Nat /\ x \in Nat
          OBVIOUS
        <4>2. (r - 1) * cols + c < (x - 1) * cols + y
          BY <3>1, <4>1, GridOrder
        <4> QED BY <2>1, <4>2 DEF GridAt
      <3>2. CASE r = x /\ c = y /\ v < w
        BY <2>1, <3>2
      <3> QED BY <1>8, <3>1, <3>2
    <2>3. m \in Nat /\ k \in Nat
      BY <1>4
    <2>4. (m - 1) * views + v < (k - 1) * views + w
      BY <2>2, <2>3, GridOrder
    <2>5. /\ WithinScreen(screen, r, c, v) = (m - 1) * views + v
          /\ WithinScreen(screen, x, y, w) = (k - 1) * views + w
      BY <1>6, <2>1 DEF GridAt
    <2> QED BY <2>4, <2>5
  <1> QED BY <1>1, <1>2, <1>4, <1>6, <1>7, <1>8

\* The sources of all screens, <<screen, row, column, view>>, and the number of each.
TileTuples(screens) ==
  {a \in Nat \X Nat \X Nat \X Nat :
     /\ a[1] \in 1..Len(screens)
     /\ a[2] \in 1..screens[a[1]].grid[1] /\ a[3] \in 1..screens[a[1]].grid[2]
     /\ a[4] \in 1..screens[a[1]].views}
TileNumber(screens, a) ==
  Starts(TileSizes(screens))[a[1]] + WithinScreen(screens[a[1]], a[2], a[3], a[4])

LEMMA SizesOfScreens ==
  ASSUME NEW screens \in Seq(ScreenOfTiles)
  PROVE  /\ TileSizes(screens) \in Seq(Nat) /\ Len(TileSizes(screens)) = Len(screens)
         /\ Len(screens) \in Nat
         /\ \A s \in 1..Len(screens) :
              /\ screens[s] \in ScreenOfTiles
              /\ TileSizes(screens)[s] = SizeOf(screens[s]) /\ TileSizes(screens)[s] \in Nat
  <1>1. PICK n : n = Len(screens)
    OBVIOUS
  <1>2. /\ n \in Nat /\ DOMAIN screens = 1..n
        /\ \A s \in 1..n : screens[s] \in ScreenOfTiles
    BY <1>1
  <1>3. \A s \in 1..n : SizeOf(screens[s]) \in Nat
    BY <1>2, ScreenInOrder
  <1>4. TileSizes(screens) = [s \in 1..n |-> SizeOf(screens[s])]
    BY <1>2 DEF TileSizes, SizeOf
  <1>5. TileSizes(screens) \in [1..n -> Nat]
    BY <1>3, <1>4
  <1>6. TileSizes(screens) \in Seq(Nat) /\ Len(TileSizes(screens)) = n
    BY <1>2, <1>5, SeqDef, LenProperties
  <1> QED BY <1>1, <1>2, <1>3, <1>4, <1>6

LEMMA TilesInOrder ==
  ASSUME NEW screens \in Seq(ScreenOfTiles)
  PROVE  /\ TileSlots(screens) \in Nat
         /\ InReadingOrder(TileTuples(screens),
                           [a \in TileTuples(screens) |-> TileNumber(screens, a)],
                           TileSlots(screens))
  <1>1. PICK n, sizes, first, N, A, number :
          /\ n = Len(screens) /\ sizes = TileSizes(screens) /\ first = Starts(sizes)
          /\ N = Total(sizes) /\ A = TileTuples(screens)
          /\ number = [a \in A |-> TileNumber(screens, a)]
    OBVIOUS
  <1>2. /\ sizes \in Seq(Nat) /\ Len(sizes) = n /\ n \in Nat
        /\ \A s \in 1..n : /\ screens[s] \in ScreenOfTiles
                           /\ sizes[s] = SizeOf(screens[s]) /\ sizes[s] \in Nat
    BY <1>1, SizesOfScreens
  <1>3. InParts(sizes, n, first, N)
    BY <1>1, <1>2, PartNumber
  <1>4. ASSUME NEW a \in A
        PROVE  /\ a \in Nat \X Nat \X Nat \X Nat /\ a[1] \in 1..n
               /\ screens[a[1]] \in ScreenOfTiles
               /\ a[2] \in 1..screens[a[1]].grid[1] /\ a[3] \in 1..screens[a[1]].grid[2]
               /\ a[4] \in 1..screens[a[1]].views
    BY <1>1, <1>2 DEF TileTuples
  <1>5. ASSUME NEW a \in A
        PROVE  LET m == WithinScreen(screens[a[1]], a[2], a[3], a[4]) IN
               /\ number[a] = first[a[1]] + m /\ m \in 1..sizes[a[1]]
               /\ number[a] \in 1..N /\ first[a[1]] \in Nat
    <2>1. PICK m : m = WithinScreen(screens[a[1]], a[2], a[3], a[4])
      OBVIOUS
    <2>2. m \in 1..sizes[a[1]]
      <3>1. m \in 1..SizeOf(screens[a[1]])
        BY <1>4, <2>1, ScreenInOrder
      <3> QED BY <1>2, <1>4, <3>1
    <2>3. number[a] = first[a[1]] + m
      BY <1>1, <2>1 DEF TileNumber
    <2>4. first[a[1]] \in Nat /\ first[a[1]] + m \in 1..N
      BY <1>3, <1>4, <2>2 DEF InParts
    <2> QED BY <2>1, <2>2, <2>3, <2>4
  <1>6. ASSUME NEW k \in 1..N
        PROVE  \E a \in A : number[a] = k
    <2>1. PICK s \in 1..n : \E m \in 1..sizes[s] : k = first[s] + m
      BY <1>3 DEF InParts
    <2>2. PICK m \in 1..sizes[s] : k = first[s] + m
      BY <2>1
    <2>3. PICK screen : screen = screens[s]
      OBVIOUS
    <2>4. screen \in ScreenOfTiles /\ m \in 1..SizeOf(screen)
      BY <1>2, <2>2, <2>3
    <2>5. PICK r \in 1..screen.grid[1], c \in 1..screen.grid[2], v \in 1..screen.views :
            m = WithinScreen(screen, r, c, v)
      BY <2>4, ScreenInOrder
    <2>6. screen.grid[1] \in Nat /\ screen.grid[2] \in Nat /\ screen.views \in Nat
      BY <2>4, ScreenInOrder
    <2>7. s \in Nat /\ r \in Nat /\ c \in Nat /\ v \in Nat
      BY <1>2, <2>6
    <2>8. PICK a : a = <<s, r, c, v>>
      OBVIOUS
    <2>9. a \in Nat \X Nat \X Nat \X Nat /\ a[1] = s /\ a[2] = r /\ a[3] = c /\ a[4] = v
      BY <2>7, <2>8
    <2>10. a \in A
      BY <1>1, <2>3, <2>9 DEF TileTuples
    <2>11. number[a] = first[s] + WithinScreen(screen, r, c, v)
      BY <1>5, <2>3, <2>9, <2>10
    <2> QED BY <2>2, <2>5, <2>10, <2>11
  <1>7. ASSUME NEW a \in A, NEW b \in A, Before(a, b)
        PROVE  number[a] < number[b]
    <2>1. PICK m, k : /\ m = WithinScreen(screens[a[1]], a[2], a[3], a[4])
                      /\ k = WithinScreen(screens[b[1]], b[2], b[3], b[4])
      OBVIOUS
    <2>2. /\ number[a] = first[a[1]] + m /\ m \in 1..sizes[a[1]] /\ first[a[1]] \in Nat
          /\ number[b] = first[b[1]] + k /\ k \in 1..sizes[b[1]]
      BY <1>5, <2>1
    <2>3. a[1] \in 1..n /\ b[1] \in 1..n
      BY <1>4
    <2>4. CASE a[1] < b[1]
      <3>1. \A s, x \in 1..n : \A i \in 1..sizes[s], j \in 1..sizes[x] :
              s < x => first[s] + i < first[x] + j
        BY <1>3 DEF InParts
      <3>2. first[a[1]] + m < first[b[1]] + k
        BY <2>2, <2>3, <2>4, <3>1
      <3> QED BY <2>2, <3>2
    <2>5. CASE a[1] = b[1] /\ ~(a[1] < b[1])
      <3>1. PICK screen : screen = screens[a[1]]
        OBVIOUS
      <3>2. a[2] < b[2] \/ (a[2] = b[2] /\ (a[3] < b[3] \/ (a[3] = b[3] /\ a[4] < b[4])))
        BY <1>7, <2>5 DEF Before
      <3>3. /\ screen \in ScreenOfTiles
            /\ a[2] \in 1..screen.grid[1] /\ a[3] \in 1..screen.grid[2] /\ a[4] \in 1..screen.views
            /\ b[2] \in 1..screen.grid[1] /\ b[3] \in 1..screen.grid[2] /\ b[4] \in 1..screen.views
        BY <1>4, <2>5, <3>1
      <3>4. WithinScreen(screen, a[2], a[3], a[4]) < WithinScreen(screen, b[2], b[3], b[4])
        BY <3>2, <3>3, ScreenInOrder
      <3>5. m < k
        BY <2>1, <2>5, <3>1, <3>4
      <3>6. sizes[a[1]] \in Nat
        <4>1. sizes \in Seq(Nat) /\ Len(sizes) = n
          BY <1>2
        <4> QED BY <1>4, <2>3, <4>1
      <3> QED BY <2>2, <2>5, <3>5, <3>6
    <2>6. a[1] < b[1] \/ (a[1] = b[1] /\ ~(a[1] < b[1]))
      BY <1>2, <1>7, <2>3 DEF Before
    <2> QED BY <2>4, <2>5, <2>6
  <1>8. InReadingOrder(A, number, N)
    <2>1. A \in SUBSET (Nat \X Nat \X Nat \X Nat)
      BY <1>4
    <2>2. \A a \in A : number[a] \in 1..N
      BY <1>5
    <2> QED BY <1>6, <1>7, <2>1, <2>2 DEF InReadingOrder
  <1>9. TileSlots(screens) = N /\ N \in Nat
    BY <1>1, <1>3 DEF TileSlots, InParts
  <1> QED BY <1>1, <1>8, <1>9

PlaceOfTile(s, source) ==
  [at |-> <<s, source.slot[1], source.slot[2], source.view>>, camera |-> source.camera]

LEMMA TilePlacesOf ==
  ASSUME NEW config, NEW p
  PROVE  p \in TilePlaces(config) <=>
           \E s \in DOMAIN config : \E k \in DOMAIN config[s] : \E v \in DOMAIN config[s][k] :
             p = PlaceOfTile(s, config[s][k][v])
  <1>1. ASSUME p \in TilePlaces(config)
        PROVE  \E s \in DOMAIN config : \E k \in DOMAIN config[s] : \E v \in DOMAIN config[s][k] :
                 p = PlaceOfTile(s, config[s][k][v])
    <2>1. PICK s \in DOMAIN config :
            p \in {PlaceOfTile(s, source) :
                     source \in UNION {Range(tile) : tile \in Range(config[s])}}
      BY <1>1 DEF TilePlaces, PlaceOfTile
    <2>2. PICK source \in UNION {Range(tile) : tile \in Range(config[s])} :
            p = PlaceOfTile(s, source)
      BY <2>1
    <2>3. PICK tile \in Range(config[s]) : source \in Range(tile)
      BY <2>2
    <2>4. PICK k \in DOMAIN config[s] : tile = config[s][k]
      BY <2>3 DEF Range
    <2>5. PICK v \in DOMAIN tile : source = tile[v]
      BY <2>3 DEF Range
    <2> QED BY <2>2, <2>4, <2>5
  <1>2. ASSUME NEW s \in DOMAIN config, NEW k \in DOMAIN config[s], NEW v \in DOMAIN config[s][k],
               p = PlaceOfTile(s, config[s][k][v])
        PROVE  p \in TilePlaces(config)
    <2>1. config[s][k] \in Range(config[s]) /\ config[s][k][v] \in Range(config[s][k])
      BY DEF Range
    <2>2. config[s][k][v] \in UNION {Range(tile) : tile \in Range(config[s])}
      BY <2>1
    <2>3. p \in {PlaceOfTile(s, source) :
                   source \in UNION {Range(tile) : tile \in Range(config[s])}}
      BY <1>2, <2>2
    <2> QED BY <2>3 DEF TilePlaces, PlaceOfTile
  <1> QED BY <1>1, <1>2

\* The tiles of a screen, and the camera of each view of a tile.
IsScreen(tiles, cameras, screens, s) ==
  LET rows == screens[s].grid[1]
      cols == screens[s].grid[2]
  IN /\ \A r \in 1..rows, c \in 1..cols :
          /\ GridAt(cols, r, c) \in DOMAIN tiles
          /\ \A v \in 1..screens[s].views :
               tiles[GridAt(cols, r, c)][v] =
                 Dealt(cameras, TileNumber(screens, <<s, r, c, v>>), v, <<r, c>>)
     /\ \A k \in DOMAIN tiles :
          /\ DOMAIN tiles[k] = 1..screens[s].views
          /\ \E r \in 1..rows, c \in 1..cols : k = GridAt(cols, r, c)

LEMMA TilesOfScreen ==
  ASSUME NEW screens \in Seq(ScreenOfTiles), NEW cameras,
         NEW s \in 1..Len(screens)
  PROVE  IsScreen(DealtToTiles(cameras, screens)[s], cameras, screens, s)
  <1>1. PICK screen, sizes, first :
          screen = screens[s] /\ sizes = TileSizes(screens) /\ first = Starts(sizes)
    OBVIOUS
  <1>2. /\ screen \in ScreenOfTiles
        /\ sizes \in Seq(Nat) /\ Len(sizes) = Len(screens)
    BY <1>1, SizesOfScreens
  <1>3. first[s] \in Nat
    BY <1>1, <1>2, StartsAreNumbers
  <1>4. PICK rows, cols, views, slots :
          /\ rows = screen.grid[1] /\ cols = screen.grid[2] /\ views = screen.views
          /\ slots = RowMajor(rows, cols)
    OBVIOUS
  <1>5. rows \in Nat /\ cols \in Nat \ {0} /\ views \in Nat \ {0}
    BY <1>2, <1>4, ScreenInOrder
  <1>6. ByRows(slots, rows, cols)
    BY <1>4, <1>5, RowMajorAt
  <1>7. PICK tiles : tiles = DealtToTiles(cameras, screens)[s]
    OBVIOUS
  <1>8. tiles = [k \in DOMAIN slots |->
                   [v \in 1..views |-> Dealt(cameras, first[s] + (k - 1) * views + v, v, slots[k])]]
    <2>1. DOMAIN screens = 1..Len(screens)
      OBVIOUS
    <2> QED BY <1>1, <1>4, <1>7, <2>1 DEF DealtToTiles
  <1>9. ASSUME NEW r \in 1..rows, NEW c \in 1..cols
        PROVE  /\ GridAt(cols, r, c) \in DOMAIN tiles
               /\ \A v \in 1..views :
                    tiles[GridAt(cols, r, c)][v] =
                      Dealt(cameras, TileNumber(screens, <<s, r, c, v>>), v, <<r, c>>)
    <2>1. PICK k : k = GridAt(cols, r, c)
      OBVIOUS
    <2>2. k \in DOMAIN slots /\ slots[k] = <<r, c>> /\ k \in Nat
      BY <1>6, <2>1 DEF ByRows
    <2>3. ASSUME NEW v \in 1..views
          PROVE  tiles[k][v] = Dealt(cameras, TileNumber(screens, <<s, r, c, v>>), v, <<r, c>>)
      <3>1. TileNumber(screens, <<s, r, c, v>>) = first[s] + GridAt(views, k, v)
        BY <1>1, <1>4, <2>1 DEF TileNumber, WithinScreen
      <3>2. first[s] + GridAt(views, k, v) = first[s] + (k - 1) * views + v
        <4>1. PICK m : m = (k - 1) * views
          OBVIOUS
        <4>2. m \in Int /\ v \in Int
          BY <1>5, <2>2, <4>1
        <4>3. first[s] + (m + v) = first[s] + m + v
          BY <1>3, <4>2
        <4> QED BY <4>1, <4>3 DEF GridAt
      <3> QED BY <1>8, <2>2, <3>1, <3>2
    <2> QED BY <1>8, <2>1, <2>2, <2>3
  <1>10. ASSUME NEW k \in DOMAIN tiles
         PROVE  DOMAIN tiles[k] = 1..views /\ \E r \in 1..rows, c \in 1..cols : k = GridAt(cols, r, c)
    BY <1>6, <1>8 DEF ByRows
  <1>11. IsScreen(tiles, cameras, screens, s)
    BY <1>1, <1>4, <1>9, <1>10 DEF IsScreen
  <1> QED BY <1>7, <1>11

\* Every place of the tiles.
LEMMA PlacesOfTiles ==
  ASSUME NEW screens \in Seq(ScreenOfTiles), NEW cameras
  PROVE  TilePlaces(DealtToTiles(cameras, screens)) =
           {[at |-> a, camera |-> CameraAt(cameras, TileNumber(screens, a))] :
              a \in TileTuples(screens)}
  <1>1. PICK config, n : config = DealtToTiles(cameras, screens) /\ n = Len(screens)
    OBVIOUS
  <1>2. PICK T : T = {[at |-> a, camera |-> CameraAt(cameras, TileNumber(screens, a))] :
                        a \in TileTuples(screens)}
    OBVIOUS
  <1>3. n \in Nat /\ DOMAIN config = 1..n /\ \A s \in 1..n : screens[s] \in ScreenOfTiles
    BY <1>1 DEF DealtToTiles
  <1>4. ASSUME NEW s \in 1..n
        PROVE  IsScreen(config[s], cameras, screens, s)
    BY <1>1, TilesOfScreen
  <1>5. ASSUME NEW s \in 1..n, NEW r \in 1..screens[s].grid[1], NEW c \in 1..screens[s].grid[2],
               NEW v \in 1..screens[s].views
        PROVE  LET k == GridAt(screens[s].grid[2], r, c)
                   a == <<s, r, c, v>>
               IN /\ k \in DOMAIN config[s] /\ v \in DOMAIN config[s][k] /\ a \in TileTuples(screens)
                  /\ PlaceOfTile(s, config[s][k][v]) =
                       [at |-> a, camera |-> CameraAt(cameras, TileNumber(screens, a))]
    <2>1. PICK k, a : k = GridAt(screens[s].grid[2], r, c) /\ a = <<s, r, c, v>>
      OBVIOUS
    <2>2. /\ k \in DOMAIN config[s] /\ DOMAIN config[s][k] = 1..screens[s].views
          /\ config[s][k][v] = Dealt(cameras, TileNumber(screens, a), v, <<r, c>>)
      BY <1>4, <2>1 DEF IsScreen
    <2>3. PlaceOfTile(s, config[s][k][v]) =
            [at |-> a, camera |-> CameraAt(cameras, TileNumber(screens, a))]
      BY <2>1, <2>2 DEF PlaceOfTile, Dealt, CameraAt
    <2>4. s \in Nat /\ v \in Nat /\ r \in Nat /\ c \in Nat
      <3>1. screens[s].grid[1] \in Nat /\ screens[s].grid[2] \in Nat /\ screens[s].views \in Nat
        BY <1>3, ScreenInOrder
      <3> QED BY <1>3, <3>1
    <2>5. a \in Nat \X Nat \X Nat \X Nat /\ a[1] = s /\ a[2] = r /\ a[3] = c /\ a[4] = v
      BY <2>1, <2>4
    <2>6. a \in TileTuples(screens)
      BY <1>1, <2>5 DEF TileTuples
    <2> QED BY <2>1, <2>2, <2>3, <2>6
  <1>6. ASSUME NEW p \in TilePlaces(config)
        PROVE  p \in T
    <2>1. PICK s \in 1..n : \E k \in DOMAIN config[s] : \E v \in DOMAIN config[s][k] :
            p = PlaceOfTile(s, config[s][k][v])
      BY <1>3, TilePlacesOf
    <2>2. PICK k \in DOMAIN config[s] : \E v \in DOMAIN config[s][k] :
            p = PlaceOfTile(s, config[s][k][v])
      BY <2>1
    <2>3. DOMAIN config[s][k] = 1..screens[s].views
      BY <1>4 DEF IsScreen
    <2>4. PICK v \in 1..screens[s].views : p = PlaceOfTile(s, config[s][k][v])
      BY <2>2, <2>3
    <2>5. PICK r \in 1..screens[s].grid[1], c \in 1..screens[s].grid[2] :
            k = GridAt(screens[s].grid[2], r, c)
      BY <1>4 DEF IsScreen
    <2>6. PICK a : a = <<s, r, c, v>>
      OBVIOUS
    <2>7. /\ a \in TileTuples(screens)
          /\ p = [at |-> a, camera |-> CameraAt(cameras, TileNumber(screens, a))]
      BY <1>5, <2>4, <2>5, <2>6
    <2> QED BY <1>2, <2>7
  <1>7. ASSUME NEW a \in TileTuples(screens)
        PROVE  [at |-> a, camera |-> CameraAt(cameras, TileNumber(screens, a))]
                 \in TilePlaces(config)
    <2>1. PICK s, r, c, v : s = a[1] /\ r = a[2] /\ c = a[3] /\ v = a[4]
      OBVIOUS
    <2>2. /\ a = <<s, r, c, v>> /\ s \in 1..n /\ r \in 1..screens[s].grid[1]
          /\ c \in 1..screens[s].grid[2] /\ v \in 1..screens[s].views
      BY <1>1, <2>1 DEF TileTuples
    <2>3. PICK k : k = GridAt(screens[s].grid[2], r, c)
      OBVIOUS
    <2>4. /\ k \in DOMAIN config[s] /\ v \in DOMAIN config[s][k]
          /\ PlaceOfTile(s, config[s][k][v]) =
               [at |-> a, camera |-> CameraAt(cameras, TileNumber(screens, a))]
      BY <1>5, <2>2, <2>3
    <2> QED BY <1>3, <2>2, <2>4, TilePlacesOf
  <1> QED BY <1>1, <1>2, <1>6, <1>7

-----------------------------------------------------------------------------
(* The configurations of the API *)

\* The cameras for so many slots, by a list or all.
LEMMA CamerasChosen ==
  ASSUME NEW request, request.cameras \in Seq(Camera), NEW count \in Nat
  PROVE  /\ Choice(request, count, CamerasForConfig(request, count))
         /\ None \notin WantedBy(request)
  <1>1. Choice(request, count, CamerasForConfig(request, count))
    <2>1. CASE request.cameras = <<>>
      BY <2>1, AnyCameras
    <2>2. CASE request.cameras # <<>>
      BY <2>2, ListedCameras
    <2> QED BY <2>1, <2>2
  <1>2. WantedBy(request) \subseteq Camera
    <2>1. PICK ids : ids = request.cameras
      OBVIOUS
    <2>2. Range(ids) \subseteq Camera
      BY <2>1 DEF Range
    <2> QED BY <2>1, <2>2 DEF WantedBy, Rows
  <1> QED BY <1>1, <1>2, TablesAssumption

LEMMA MonitorsResolved ==
  ASSUME NEW monitors \in Seq([grids : Seq(Grid(ViewSide))] \cup [views : Nat \ {0}])
  PROVE  Resolved(monitors) \in Seq(Seq(Grid(ViewSide)))
  <1>1. PICK G, S : G = Grid(ViewSide) /\ S = [grids : Seq(G)] \cup [views : Nat \ {0}]
    OBVIOUS
  <1>2. PICK n : n = Len(monitors)
    OBVIOUS
  <1>3. n \in Nat /\ DOMAIN monitors = 1..n /\ \A s \in 1..n : monitors[s] \in S
    <2>1. monitors \in Seq(S)
      BY <1>1
    <2> QED BY <1>2, <2>1
  <1>4. PICK m : m = Resolved(monitors)
    OBVIOUS
  <1>5. m = [s \in 1..n |-> IF "grids" \in DOMAIN monitors[s] THEN monitors[s].grids
                            ELSE [v \in 1..monitors[s].views |-> DefaultGrid]]
    BY <1>3, <1>4 DEF Resolved
  <1>6. ASSUME NEW s \in 1..n
        PROVE  m[s] \in Seq(G)
    <2>1. CASE monitors[s] \in [grids : Seq(G)]
      BY <1>5, <2>1
    <2>2. CASE monitors[s] \in [views : Nat \ {0}]
      <3>1. monitors[s].views \in Nat /\ "grids" \notin DOMAIN monitors[s]
        BY <2>2
      <3>2. PICK k \in Nat : k = monitors[s].views
        BY <3>1
      <3>3. m[s] = [v \in 1..k |-> DefaultGrid]
        BY <1>5, <3>1, <3>2
      <3>4. DefaultGrid \in G
        BY <1>1, StreamRequests
      <3>5. m[s] \in [1..k -> G]
        BY <3>3, <3>4
      <3> QED BY <3>5, SeqDef
    <2> QED BY <1>1, <1>3, <2>1, <2>2
  <1>7. m \in [1..n -> Seq(G)]
    BY <1>5, <1>6
  <1> QED BY <1>1, <1>3, <1>4, <1>7, SeqDef

LEMMA StreamsInOrder == StreamsAreDealtInOrder
  <1>1. ASSUME NEW request \in ViewsRequest
        PROVE  AreDealtInOrder(ViewPlaces(StreamViews(request)), request)
    <2>1. PICK monitors, count, cameras :
            /\ monitors = Resolved(request.monitors) /\ count = ViewSlots(monitors)
            /\ cameras = CamerasForConfig(request, count)
      OBVIOUS
    <2>2. /\ request.cameras \in Seq(Camera)
          /\ request.monitors \in Seq([grids : Seq(Grid(ViewSide))] \cup [views : Nat \ {0}])
      BY StreamRequests
    <2>3. monitors \in Seq(Seq(Grid(ViewSide)))
      BY <2>1, <2>2, MonitorsResolved
    <2>4. PICK A, number, places :
            /\ A = ViewTuples(monitors) /\ number = [a \in A |-> ViewNumber(monitors, a)]
            /\ places = ViewPlaces(DealtToViews(cameras, monitors))
      OBVIOUS
    <2>5. count \in Nat /\ InReadingOrder(A, number, count)
      BY <2>1, <2>3, <2>4, ViewsInOrder
    <2>6. places = {[at |-> a, camera |-> CameraAt(cameras, number[a])] : a \in A}
      <3>1. places = {[at |-> a, camera |-> CameraAt(cameras, ViewNumber(monitors, a))] : a \in A}
        BY <2>3, <2>4, PlacesOfViews
      <3>2. \A a \in A : number[a] = ViewNumber(monitors, a)
        BY <2>4
      <3> QED BY <3>1, <3>2
    <2>7. Choice(request, count, cameras) /\ None \notin WantedBy(request)
      BY <2>1, <2>2, <2>5, CamerasChosen
    <2>8. AreDealtInOrder(places, request)
      BY <2>5, <2>6, <2>7, DealtByNumber
    <2> QED BY <2>1, <2>4, <2>8 DEF StreamViews
  <1>2. ASSUME NEW request \in TilesRequest
        PROVE  AreDealtInOrder(TilePlaces(StreamTiles(request)), request)
    <2>1. PICK screens, count, cameras :
            /\ screens = request.screens /\ count = TileSlots(screens)
            /\ cameras = CamerasForConfig(request, count)
      OBVIOUS
    <2>2. request.cameras \in Seq(Camera) /\ screens \in Seq(ScreenOfTiles)
      BY <2>1, StreamRequests DEF ScreenOfTiles
    <2>3. PICK A, number, places :
            /\ A = TileTuples(screens) /\ number = [a \in A |-> TileNumber(screens, a)]
            /\ places = TilePlaces(DealtToTiles(cameras, screens))
      OBVIOUS
    <2>4. count \in Nat /\ InReadingOrder(A, number, count)
      BY <2>1, <2>2, <2>3, TilesInOrder
    <2>5. places = {[at |-> a, camera |-> CameraAt(cameras, number[a])] : a \in A}
      <3>1. places = {[at |-> a, camera |-> CameraAt(cameras, TileNumber(screens, a))] : a \in A}
        BY <2>2, <2>3, PlacesOfTiles
      <3>2. \A a \in A : number[a] = TileNumber(screens, a)
        BY <2>3
      <3> QED BY <3>1, <3>2
    <2>6. Choice(request, count, cameras) /\ None \notin WantedBy(request)
      BY <2>1, <2>2, <2>4, CamerasChosen
    <2>7. AreDealtInOrder(places, request)
      BY <2>4, <2>5, <2>6, DealtByNumber
    <2> QED BY <2>1, <2>3, <2>7 DEF StreamTiles
  <1>3. ASSUME NEW request, NEW config \in {GenerateMultiStream(request)} \ {None}
        PROVE  config = StreamViews(request)
    BY DEF GenerateMultiStream
  <1>4. ASSUME NEW request, NEW config \in {GenerateMultiStreamLegacy(request)} \ {None}
        PROVE  config = StreamTiles(request)
    BY DEF GenerateMultiStreamLegacy
  <1> QED BY <1>1, <1>2, <1>3, <1>4 DEF StreamsAreDealtInOrder

\* Whatever cameras there are by then, a request for a stream configuration gets them in
\* the order of its list, each once and one slot after the other, until either runs out
\* (get_cameras_for_config, distribute_cameras_to_views, distribute_cameras_to_screens).
THEOREM FleetDealsInOrder == FleetSpec => []StreamsAreDealtInOrder
  BY StreamsInOrder, PTL
================================================================================
