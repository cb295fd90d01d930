--------------------------- MODULE MCResponseCache ---------------------------
(***************************************************************************)
(* One key more than there are places, so that every insert may have to    *)
(* evict.  With two threads inserting, one reading and one invalidating    *)
(* two keys of one URL are enough; the smaller runs have a third key.      *)
(***************************************************************************)
EXTENDS ResponseCache, TLC

CONSTANTS k1, k2, k3

MCKeys == {k1, k2, k3}
MCSameUrl == {k1, k2}
MCFewKeys == {k1, k2}
\* No header, two that forbid storing, two that do not.
Directive(name, value) == [name |-> name, value |-> value]

MCControls ==
    { <<>>, <<Directive("no-store", 0)>>,
      <<Directive("public", 0), Directive("max-age", 0)>>,
      <<Directive("max-age=?", 0), Directive("max-age", 60)>> }

MCSymmetry == Permutations(Writers) \cup Permutations(MCSameUrl)
=============================================================================
