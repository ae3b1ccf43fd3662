---------------------------- MODULE MCSyncPages ----------------------------
(* A small instance of SyncPages: members a and b have pages, c is new.     *)
EXTENDS SyncPages, TLC

CONSTANTS a, b, c, x, y, z

Names(pa, pb, pc_) == (a :> pa) @@ (b :> pb) @@ (c :> pc_)

MCFirstMap == Names(x, y, NoPath)

\* A swap, a chain with a new page at the vacated name, and a return.
MCTargets == {MCFirstMap, Names(y, x, NoPath), Names(z, y, x), Names(x, y, z)}
=============================================================================
