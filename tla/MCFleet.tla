------------------------------- MODULE MCFleet -------------------------------
(***************************************************************************)
(* Two PCs and the layouts made for them, in one team or in two; the first *)
(* one's wall has been set up.                                             *)
(***************************************************************************)
EXTENDS FleetWalls

CONSTANTS t1, t2, s1, s2, d1, d2, c1, c2, l1, l2, p1, p2, x1, v1, n1, n2, w1, w2

Workers == Permutations({w1, w2})

PcOf(t, l) ==
  [team |-> t, layout |-> l, manager |-> None, role |-> "controller", applied |-> FALSE]

Tenants ==
  [i \in {t1, t2, s1, s2} |-> Plain] @@
  (<<s1, t1>> :> [site |-> s1, team |-> t1]) @@ (<<s2, t2>> :> [site |-> s2, team |-> t2]) @@
  (d1 :> [site |-> s1]) @@ (d2 :> [site |-> s2]) @@
  (c1 :> [device |-> d1, new |-> FALSE]) @@ (c2 :> [device |-> d2, new |-> FALSE]) @@
  (l1 :> [team |-> t1])

\* A screen of one view as configure_pc_screens makes it, a camera in the second
\* slot.
Wall ==
  (<<l1, 1>> :> [layout |-> l1, name |-> n1, rows |-> 1, cols |-> 2]) @@
  (<<<<l1, 1>>, 1>> :> [screen |-> <<l1, 1>>, number |-> 1, rows |-> 1, cols |-> 2]) @@
  (<<1>> :> [screen |-> <<l1, 1>>, view |-> <<<<l1, 1>>, 1>>, slot |-> <<1, 2>>,
             device |-> d1, camera |-> c1])

\* Apart, or the second PC shows the layout that was made for the first.
Apart == Tenants @@ Wall @@ (p1 :> PcOf(t1, l1)) @@ (p2 :> PcOf(t2, None))
Shared == Tenants @@ Wall @@ (p1 :> PcOf(t1, None)) @@ (p2 :> PcOf(t1, l1))
Led == Tenants @@ (p1 :> [PcOf(t1, None) EXCEPT !.role = "manager"])
               @@ (p2 :> [PcOf(t1, None) EXCEPT !.manager = p1])

MCStored == {Apart, Shared, Led}
MCShared == {Shared}

MCLayoutOf == (p1 :> l1) @@ (p2 :> l2)

MCPcBody ==
  {[manager |-> p1], [role |-> "manager"], [role |-> "controller"], [team |-> t2],
   [layout |-> l1], [layout |-> None]}

Conf(n, rows, cols, views) == [name |-> n, rows |-> rows, cols |-> cols, views |-> views]

MCConfigureBody ==
  {[screens |-> <<Conf(n1, 1, 2, 1)>>, cameras |-> <<c1>>],
   [screens |-> <<Conf(n2, 1, 1, 1), Conf(n1, 5, 1, 1)>>, cameras |-> <<c1>>],
   [screens |-> <<Conf(n2, 1, 1, 1)>>, cameras |-> <<c2>>],
   [screens |-> <<Conf(n2, 1, 1, 2), Conf(n2, 1, 1, 1)>>, cameras |-> <<c1>>],
   [screens |-> <<>>, cameras |-> <<>>]}

Shows(number, c, d) ==
  [number |-> number, view |-> None, camera |-> c, device |-> d]

MCImportBody ==
  {<<[id |-> x1, name |-> n1,
      tiles |-> <<<<Shows(0, c1, d1), Shows(1, c2, d2)>>, <<Shows(0, c2, d2)>>>>]>>,
   <<[id |-> <<l1, 1>>, name |-> n2, tiles |-> <<<<Shows(0, c1, d1)>>>>],
     [id |-> x1, name |-> n1, tiles |-> <<>>]>>}

MCDefaultGrid == <<2, 2>>

MCViewsRequest ==
  {[cameras |-> ids, exclude |-> without,
    monitors |-> <<[grids |-> <<<<1, 1>>>>], [views |-> 1]>>] :
     ids \in {<<>>, <<c2, c1, c2>>}, without \in {{}, {c1}}} \cup
  {[cameras |-> <<c1, c2>>, exclude |-> {}, monitors |-> <<[grids |-> <<>>]>>],
   [cameras |-> <<>>, exclude |-> {}, monitors |-> <<[grids |-> <<<<10, 2>>>>]>>]}

MCTilesRequest ==
  {[cameras |-> ids, exclude |-> {},
    screens |-> <<[grid |-> <<1, 1>>, views |-> 1], [grid |-> <<2, 1>>, views |-> 2]>>] :
     ids \in {<<>>, <<c2, c1, c2>>}}

MCScreenBody == {[layout |-> l2]}
==============================================================================
