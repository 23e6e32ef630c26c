---------------------------- MODULE MCPackInstall ----------------------------
(***************************************************************************)
(* FFPackInstall for TLC: two processes, two versions of one pack, a zip   *)
(* that does not validate and one whose listing is refused.                *)
(***************************************************************************)
EXTENDS FFPackInstall, TLC

CONSTANTS ember, v1, v2, broken, linked

MCIds == {ember}
MCZips == {v1, v2, broken, linked}
MCIdOf == [z \in MCZips |-> ember]
Entry(link) == [top |-> "ember", climbs |-> FALSE, link |-> link]
MCListing ==
  [z \in MCZips |-> <<Entry(FALSE), Entry(z = linked)>>]
MCValid == [z \in MCZips |-> z \in {v1, v2}]
\* The processes are alike, and so are the ids they get and the two versions.
Symmetry == Permutations(Processes) \union Permutations(Pids) \union Permutations({v1, v2})
MCFiles == {"manifest", "art"}
=============================================================================
