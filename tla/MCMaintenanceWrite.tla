------------------------ MODULE MCMaintenanceWrite ------------------------
(* One page, one generated index, three manifests of two maintenance states. *)
EXTENDS MaintenanceWrite

CONSTANTS page, index, p0, p1, px, g0, g1, m0, m1, m2, a

MCFiles == {page, index, Marker, Manifest, Private}
MCGenerated == {index}
MCContents == {p0, p1, px, g0, g1, m0, m1, m2, a}
MCFirst == [f \in MCFiles |-> CASE f = page -> p0 [] f = index -> g0
                [] f = Manifest -> m0 [] f = Marker -> a [] OTHER -> Absent]
Write(f, c) == [file |-> f, content |-> c, plain |-> f = page /\ c # Absent]
MCPlans == {<<Write(page, p1), Write(index, g1), Write(Manifest, m1)>>,
            <<Write(page, p0), Write(index, g0), Write(Manifest, m2)>>,
            <<Write(page, Absent), Write(page, p1)>>}
MCEdits == {[file |-> page, content |-> px], [file |-> index, content |-> Absent],
            [file |-> Manifest, content |-> Absent], [file |-> Marker, content |-> Absent]}
MCStateOf == [m \in {m0, m1, m2} |-> IF m = m2 THEN "s1" ELSE "s0"]

\* The manifest commits the index; a committed snapshot also the page.
MCCoherent(kind, w) ==
    /\ w[Manifest] \in {m0, m1, m2}
    /\ w[index] = IF w[Manifest] = m1 THEN g1 ELSE g0
    /\ kind = "committed" => w[page] = IF w[Manifest] = m1 THEN p1 ELSE p0
===========================================================================
