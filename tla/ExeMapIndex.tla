------------------------------ MODULE ExeMapIndex ------------------------------
(***************************************************************************)
(* ExeMapIndex: which executable is attached to which map, in two hash     *)
(* maps that are kept as mirror images.  A snapshot is made from the one,  *)
(* exe_to_maps; the predictor reads the other.  remove_exe has no caller.  *)
(***************************************************************************)

VARIABLES exe_to_maps, map_to_exes

\* get, with no entry read as the empty set
Get(f, x) == IF x \in DOMAIN f THEN f[x] ELSE {}

NoSets == [x \in {} |-> {}]

\* entry(x).or_default().insert(y), for every <<x, y>> of R
Inserted(f, R) ==
    [x \in DOMAIN f \cup {r[1] : r \in R} |-> Get(f, x) \cup {r[2] : r \in {q \in R : q[1] = x}}]

Mirror(R) == {<<r[2], r[1]>> : r \in R}

\* attach, for every pair of links
AttachAll(links) ==
    /\ exe_to_maps' = Inserted(exe_to_maps, links)
    /\ map_to_exes' = Inserted(map_to_exes, Mirror(links))

\* f without y in the sets of xs, and without those that this leaves empty
Removed(f, xs, y) ==
    [x \in {z \in DOMAIN f : z \in xs => f[z] \ {y} # {}} |->
       IF x \in xs THEN f[x] \ {y} ELSE f[x]]

WrongDetachMap(m) ==    \* mutant: the other direction keeps the map
    /\ map_to_exes' = [x \in DOMAIN map_to_exes \ {m} |-> map_to_exes[x]]
    /\ UNCHANGED exe_to_maps

DetachMap(m) ==
    /\ map_to_exes' = [x \in DOMAIN map_to_exes \ {m} |-> map_to_exes[x]]
    /\ exe_to_maps' = Removed(exe_to_maps, Get(map_to_exes, m), m)

\* the attachments, as maps_for_exe gives them
Links == UNION {{e} \X exe_to_maps[e] : e \in DOMAIN exe_to_maps}

\* f has no empty set, and all that it says g says in reverse
Mirrors(f, g) ==
    \A x \in DOMAIN f : f[x] # {} /\ \A y \in f[x] : y \in DOMAIN g /\ x \in g[y]

(***************************************************************************)
(* The two directions never disagree, and no empty set is left behind: an  *)
(* attachment that a snapshot saves is one that the predictor scores       *)
(* (attach, detach_map).                                                   *)
(***************************************************************************)
Mirrored == Mirrors(exe_to_maps, map_to_exes) /\ Mirrors(map_to_exes, exe_to_maps)
=============================================================================
