------------------------- MODULE MCKnowledgeCommit -------------------------
(* Small instances of KnowledgeCommit.                                     *)
EXTENDS KnowledgeCommit, TLC

CONSTANTS p1, p2, q1, a, b, c, o1, o2, o3

Headers3(s, r, m) == [f \in Headers |-> CASE f = "surface" -> s
                                          [] f = "root" -> r
                                          [] f = "manifest" -> m]

MCContents == {"s1", "s2", "r1", "r2", "r3", "m1", "m2", "m3"}

\* Flat generations a and c with one root between them, and b, which stores
\* the model of a indexed.
MCEncoded == (a :> Headers3("s1", "r1", "m1")) @@ (b :> Headers3("s1", "r2", "m2"))
             @@ (c :> Headers3("s2", "r1", "m3"))

MCObjects == (a :> {}) @@ (b :> {o1, o2}) @@ (c :> {})

MCMigrations == {[orig |-> a, target |-> b]}

\* Two indexed generations with one surface and one object between them.
IndexedEncoded == (a :> Headers3("s1", "r1", "m1")) @@ (c :> Headers3("s1", "r2", "m2"))

IndexedObjects == (a :> {o1, o2, o3}) @@ (c :> {o3})

NoMigrations == {}
=============================================================================
