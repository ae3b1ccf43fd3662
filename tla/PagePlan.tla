------------------------------ MODULE PagePlan ------------------------------
(***************************************************************************)
(* Which page of a wiki becomes which when the names that a source tree    *)
(* gives to its members change: the planning half of a page transition.    *)
(*                                                                         *)
(* A manifest says which page each owner (a module or an entity of the     *)
(* source) has; an inventory says which it shall have.  A plan never       *)
(* touches a page whose owner it cannot name.                              *)
(***************************************************************************)
CONSTANTS
    Owners,         \* modules and entities of the source
    Paths,          \* page locators
    NoPath

ASSUME NoPathAssumption == NoPath \notin Paths

\* Pages by owner; an owner that is not in the source has none.
Maps == [Owners -> Paths \cup {NoPath}]

\* Names are disambiguated before: two owners never share a page.
Injective(m) ==
    \A o, u \in Owners : m[o] # NoPath /\ m[o] = m[u] => o = u

\* Owners of the inventory, and the pages a manifest vouches for.
Current(m) == {o \in Owners : m[o] # NoPath}
OwnedPages(m) == {m[o] : o \in Owners} \ {NoPath}

\* The existing page an owner brings along; a page that is gone stays gone.
SourceOf(old, new, existing, o) ==
    IF old[o] \in existing THEN old[o] ELSE NoPath

\* A page moves if it exists under another name than it shall have.
Moves(old, new, existing) ==
    {m \in [owner : Owners, from : Paths, to : Paths] :
        /\ m.owner \in Current(new)
        /\ m.from = SourceOf(old, new, existing, m.owner)
        /\ m.to = new[m.owner]
        /\ m.from # m.to}

\* An occupied target must belong to an owner that this plan moves away, or to
\* the incoming one.
Free(old, new, existing, o) ==
    \/ new[o] \notin existing
    \/ \E u \in Current(new) :
          /\ old[u] = new[o]
          /\ \A v \in Owners : old[v] = old[u] => v = u
          /\ u # o => new[u] # new[o]

Plannable(old, new, existing) ==
    /\ \A o \in Current(new) : Free(old, new, existing, o)
    /\ \A o, u \in Current(new) : old[o] # NoPath /\ old[o] = old[u] => o = u

\* Pages that are written anew: moved, missing, or of a new owner.
Refreshed(old, new, existing) ==
    {o \in Current(new) : \/ old[o] # new[o]
                          \/ SourceOf(old, new, existing, o) = NoPath}
=============================================================================
