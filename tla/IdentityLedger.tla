--------------------------- MODULE IdentityLedger ---------------------------
(* The governance ledger as a value: who owns which coordinate, and what    *)
(* each operation of knowledge_governance.py makes of it. An operation      *)
(* that raises returns no ledger, so the operators return sets with at most *)
(* one ledger in them.                                                      *)
EXTENDS Integers, Sequences, FiniteSets

CONSTANTS
    Places,         \* canonical page paths; each has a locator and a natural key
    Bundles,        \* bundle identities
    MaxAliases,     \* historical coordinates one concept may have
    Scopes          \* possible contents of a page

\* f, and g where f has no value.
Over(f, g) == [x \in DOMAIN f \cup DOMAIN g |-> IF x \in DOMAIN f THEN f[x] ELSE g[x]]

NoUid == [bundle |-> "none", first |-> "none"]

\* The locator and the natural key of a page are both derived from its path.
Page(p) == [locator |-> p, key |-> p]
Coords(c) == {<<"locator", c.locator>>, <<"key", c.key>>}

\* A first UID is a digest of the bundle and the natural key.
Uid(b, p) == [bundle |-> b, first |-> p]

Empty(b) == [bundle |-> b, at |-> <<>>, alias |-> {}, life |-> <<>>, reviews |-> {}]

\* What a ledger may hold, whatever it says: validation is Valid.
Coordinates == [locator : Places, key : Places]
Owners == [bundle : Bundles, first : Places]
Lifecycles == {"unknown", "draft", "active", "deprecated", "superseded"}
Entries == [to : Lifecycles, successor : Owners \cup {NoUid}]
LedgersOf(U) ==
    [bundle : Bundles,
     at : [U -> Coordinates],
     alias : SUBSET [coord : {"locator", "key"} \X Places, uid : U],
     life : [U -> Seq(Entries)],
     reviews : SUBSET [uid : U, at : Places, scope : Scopes]]
IsLedger(L) == \E U \in SUBSET Owners : L \in LedgersOf(U)

Uids(L) == DOMAIN L.at
AliasesOf(L, u) == {x \in L.alias : x.uid = u}
Owned(L, u) == Coords(L.at[u]) \cup {x.coord : x \in AliasesOf(L, u)}
Located(L, p) == {u \in Uids(L) : L.at[u] = Page(p)}

----------------------------------------------------------------------------
\* Lifecycle: a chain of events per concept.
Allowed == [s \in Lifecycles |->
    CASE s = "unknown"    -> {"draft", "active", "deprecated"}
      [] s = "draft"      -> {"active", "deprecated"}
      [] s = "active"     -> {"deprecated", "superseded"}
      [] s = "deprecated" -> {"active", "superseded"}
      [] s = "superseded" -> {}]

State(L, u) == IF L.life[u] = <<>> THEN "unknown" ELSE L.life[u][Len(L.life[u])].to
Successor(L, u) == L.life[u][Len(L.life[u])].successor
Superseded(L) == {u \in Uids(L) : State(L, u) = "superseded"}

\* No set of superseded concepts refers only to itself.
NoCycle(L) == \A C \in SUBSET Superseded(L) \ {{}} : \E u \in C : Successor(L, u) \notin C

----------------------------------------------------------------------------
\* Mutant of Valid: an alias may also be the present coordinate of a concept.
ValidAliasesAside(L) ==
    /\ \A u, v \in Uids(L) : u # v => Coords(L.at[u]) \cap Coords(L.at[v]) = {}
    /\ \A x, y \in L.alias : x.coord = y.coord => x = y
    /\ \A u \in Uids(L) : Cardinality(AliasesOf(L, u)) <= MaxAliases
    /\ NoCycle(L)
    /\ \A r \in L.reviews : <<"locator", r.at>> \in Owned(L, r.uid)

\* validate_governance_ledger: every coordinate, present or past, has one owner.
Valid(L) ==
    /\ \A u, v \in Uids(L) : u # v => Coords(L.at[u]) \cap Coords(L.at[v]) = {}
    /\ \A x, y \in L.alias : x.coord = y.coord => x = y
    /\ \A x \in L.alias : \A u \in Uids(L) : x.coord \notin Coords(L.at[u])
    /\ \A u \in Uids(L) : Cardinality(AliasesOf(L, u)) <= MaxAliases
    /\ NoCycle(L)
    /\ \A r \in L.reviews : <<"locator", r.at>> \in Owned(L, r.uid)

\* Mutant of Relocate: only the former locator is remembered.
RelocateForgetsKey(L, to) ==
    [L EXCEPT
        !.at = Over(to, @),
        !.alias = {x \in @ : x.uid \notin DOMAIN to \/ x.coord \notin Coords(to[x.uid])}
                  \cup {[coord |-> <<"locator", L.at[u].locator>>, uid |-> u] :
                          u \in {v \in DOMAIN to : to[v].locator # L.at[v].locator}}]

\* Concepts take new coordinates: the old ones become aliases, and an alias
\* that is promoted back to a present coordinate stops being one.
Relocate(L, to) ==
    [L EXCEPT
        !.at = Over(to, @),
        !.alias = {x \in @ : x.uid \notin DOMAIN to \/ x.coord \notin Coords(to[x.uid])}
                  \cup UNION {{[coord |-> c, uid |-> u] : c \in Coords(L.at[u]) \ Coords(to[u])} :
                                u \in DOMAIN to}]

\* Allocation under the UID derived from the first natural key.
Allocate(L, new) ==
    [L EXCEPT !.at = Over([u \in {Uid(L.bundle, p) : p \in new} |-> Page(u.first)], @),
              !.life = Over([u \in {Uid(L.bundle, p) : p \in new} |-> <<>>], @)]

\* The concepts a map of supported renames carries to other pages; a rename
\* of a page that nobody owns (any more) is skipped.
Carried(L, moves) ==
    [u \in {v \in Uids(L) : L.at[v].locator \in DOMAIN moves} |-> Page(moves[L.at[u].locator])]

\* Pages neither of whose coordinates has a present owner.
Unowned(L, on) ==
    {p \in on : \A u \in Uids(L) : Coords(L.at[u]) \cap Coords(Page(p)) = {}}

\* Mutant of Reconcile: a rename is refused when its old page has no owner.
ReconcileStrictly(L, on, moves) ==
    LET to == Carried(L, moves)
        M == Relocate(L, to)
        new == Unowned(M, on)
    IN {N \in {Allocate(M, new)} :
          /\ \A p \in DOMAIN moves : \E u \in DOMAIN to : L.at[u].locator = p
          /\ \A u \in DOMAIN to :
               to[u].locator \in on
               /\ \A v \in Uids(L) \ {u} : Coords(to[u]) \cap Coords(L.at[v]) = {}
          /\ \A p \in on \ new : Located(M, p) # {}
          /\ \A p \in new : Uid(L.bundle, p) \notin Uids(M)
          /\ Valid(N)}

\* reconcile_concepts: carry the supported renames, keep what is known,
\* allocate what is new, drop nothing.
Reconcile(L, on, moves) ==
    LET to == Carried(L, moves)
        M == Relocate(L, to)
        new == Unowned(M, on)
    IN {N \in {Allocate(M, new)} :
          /\ \A u \in DOMAIN to :
               to[u].locator \in on
               /\ \A v \in Uids(L) \ {u} : Coords(to[u]) \cap Coords(L.at[v]) = {}
          /\ \A p \in on \ new : Located(M, p) # {}
          /\ \A p \in new : Uid(L.bundle, p) \notin Uids(M)
          /\ Valid(N)}

----------------------------------------------------------------------------
\* move_concept: explicit coordinates for one concept.
MoveConcept(L, u, c) ==
    {M \in {Relocate(L, [v \in {u} |-> c])} :
       /\ \A v \in Uids(L) \ {u} : Coords(c) \cap Coords(L.at[v]) = {}
       /\ Valid(M)}

\* add_alias: a coordinate the concept has already changes nothing.
AddAlias(L, u, coord) ==
    {M \in {IF coord \in Owned(L, u) THEN L
            ELSE [L EXCEPT !.alias = @ \cup {[coord |-> coord, uid |-> u]}]} : Valid(M)}

\* set_lifecycle: a successor is named exactly when a concept is superseded.
SetLifecycle(L, u, s, successor) ==
    {M \in {[L EXCEPT !.life[u] = Append(@, [to |-> s, successor |-> successor])]} :
       /\ s \in Allowed[State(L, u)]
       /\ IF s = "superseded" THEN successor \in Uids(L) \ {u} ELSE successor = NoUid
       /\ Valid(M)}

\* add_review_event: the section belongs to the present page of the concept;
\* scope stands for the content it was reviewed with.
AddReview(L, u, scope) ==
    {M \in {[L EXCEPT !.reviews = @ \cup {[uid |-> u, at |-> L.at[u].locator, scope |-> scope]}]} :
       Valid(M)}

----------------------------------------------------------------------------
\* apply_governance_projection: every page has an allocation that matches it.
Projectable(L, on) == \A p \in on : Located(L, p) # {}

\* evaluate_review_event on a projection of these pages.
ReviewValid(L, on, r) ==
    /\ L.at[r.uid].locator \in DOMAIN on
    /\ r.at \in DOMAIN on /\ on[r.at] = r.scope

\* M records everything that L recorded.
Keeps(L, M) ==
    /\ M.bundle = L.bundle
    /\ Uids(L) \subseteq Uids(M)
    /\ \A u \in Uids(L) :
         /\ Owned(L, u) \subseteq Owned(M, u)
         /\ Len(L.life[u]) <= Len(M.life[u])
         /\ SubSeq(M.life[u], 1, Len(L.life[u])) = L.life[u]
    /\ L.reviews \subseteq M.reviews
=============================================================================
