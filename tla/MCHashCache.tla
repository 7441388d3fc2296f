----------------------------- MODULE MCHashCache -----------------------------
(* An instance of HashCache for TLC. *)
EXTENDS HashCache

\* A policy that lists the second version; the files list the first or nothing.
TheBase == {<<1, 1>>}
TheLists == {{}, {<<0, 0>>}}
TheFirstLists == <<{<<0, 0>>}, {}>>
===============================================================================
