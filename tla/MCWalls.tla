------------------------------- MODULE MCWalls -------------------------------
(***************************************************************************)
(* Two teams with a site, a device, a camera, a layout and a PC each; the  *)
(* first team's layout has a screen of two slots, one of them filled.      *)
(***************************************************************************)
EXTENDS TeamWalls

CONSTANTS a1, a2, a3, k1, k2, t1, t2, s1, s2, d1, d2, c1, c2, l1, l2, p1, p2, x1, x2, v1, v2, n1, w1, w2

Workers == Permutations({w1, w2})

Tenants ==
  [i \in {t1, t2, s1, s2} |-> Plain] @@
  (<<s1, t1>> :> [site |-> s1, team |-> t1]) @@
  (<<s2, t2>> :> [site |-> s2, team |-> t2]) @@
  (d1 :> [site |-> s1]) @@ (d2 :> [site |-> s2]) @@
  (c1 :> [device |-> d1, new |-> FALSE]) @@ (c2 :> [device |-> d2, new |-> FALSE]) @@
  (l1 :> [team |-> t1]) @@ (l2 :> [team |-> t2])

OnePc(l) ==
  p1 :> [team |-> t1, layout |-> l, manager |-> None, role |-> "controller",
         applied |-> FALSE]

Wall ==
  (x1 :> [layout |-> l1, name |-> n1, rows |-> 1, cols |-> 2]) @@
  (v1 :> [screen |-> x1, number |-> 1, rows |-> 1, cols |-> 2]) @@
  (<<1>> :> [screen |-> x1, view |-> v1, slot |-> <<1, 1>>, device |-> d1, camera |-> c1])

Sites ==
  [i \in {t1, s1, s2, k1} |-> Plain] @@
  (<<s1, t1>> :> [site |-> s1, team |-> t1]) @@
  (d1 :> [site |-> s1]) @@
  (c1 :> [device |-> d1, new |-> TRUE]) @@ (c2 :> [device |-> d1, new |-> FALSE])

Address0(active) == [camera |-> c1, active |-> active, quarantined |-> FALSE]

\* One camera has an address; a site's layout shows both cameras, or an old
\* address is left and a category is in use.
AssetStored ==
  {Sites @@ (a1 :> Address0(TRUE)) @@
     (<<s1, None>> :> [site |-> s1, grid |-> <<1, 2>>]) @@
     (<<s1, <<1, 1>>>> :> [site |-> s1, slot |-> <<1, 1>>, camera |-> c1]) @@
     (<<s1, <<1, 2>>>> :> [site |-> s1, slot |-> <<1, 2>>, camera |-> c2]),
   [i \in (DOMAIN Sites) \ {c2} |-> Sites[i]] @@ (a1 :> Address0(FALSE)) @@
     (k2 :> Plain) @@ (<<s1, k1>> :> [site |-> s1, category |-> k1]) @@ (d2 :> [site |-> s2])}

MCStored == AssetStored \cup {Tenants @@ OnePc(None) @@ Wall, Tenants @@ OnePc(l1)}
MCSiteLayoutBody ==
  {[grid |-> <<1, 1>>, cameras |-> <<1, 1>> :> c1], [grid |-> <<1, 1>>, cameras |-> <<>>],
   [grid |-> <<1, 1>>, cameras |-> <<1, 2>> :> c1]}

MCScreenBody == {[layout |-> l2], [rows |-> 1, cols |-> 1], [rows |-> 1, cols |-> 2]}
MCViewBody == {[number |-> 2, rows |-> 1, cols |-> 1], [number |-> 1]}

Shows(c, d) == [camera |-> c, device |-> d]
MCSlotsBody ==
  {<<>>, <<1, 2>> :> Shows(c1, d1), <<1, 1>> :> Shows(c1, d2),
   (<<1, 1>> :> Shows(c2, None)) @@ (<<1, 2>> :> Shows(c1, d1))}
MCMappingBody == {[camera |-> c2], [camera |-> None, device |-> d2]}
==============================================================================
