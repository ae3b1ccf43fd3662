-------------------------- MODULE GovernanceProofs --------------------------
(****************************************************************************)
(* Proofs about the governance ledger and its projection, for any bundles,  *)
(* pages, renames, explicit commands, processes, kills and replacements of  *)
(* the ledger by hand: what was recorded stays recorded, readers see no     *)
(* more than the ledger has, and identities stay with their pages.          *)
(****************************************************************************)
EXTENDS Governance, TLAPS

----------------------------------------------------------------------------
(* What the variables hold.                                                 *)

IsSurface(on) == on \in [DOMAIN on -> Scopes] /\ DOMAIN on \subseteq Places
IsMoves(moves) == moves \in [DOMAIN moves -> Places] /\ DOMAIN moves \subseteq Places
NoneOrLedger(L) == L # NoLedger => IsLedger(L)
IsProjection(x) == x = [gov |-> x.gov, on |-> x.on] /\ NoneOrLedger(x.gov) /\ IsSurface(x.on)

Labels == {"idle", "pages", "finalize", "save", "commit", "manifest"}

Fields == {"index", "manifest", "moves", "loaded", "next", "on", "publish"}
IsJob(j) ==
    /\ DOMAIN j = Fields
    /\ IsMoves(j.moves) /\ IsSurface(j.on)
    /\ NoneOrLedger(j.loaded) /\ NoneOrLedger(j.next)
    /\ j.publish \in BOOLEAN

\* The files, and what their users mean to do with them.
FilesTyped ==
    /\ NoneOrLedger(ledger) /\ NoneOrLedger(checkedIn)
    /\ index # Damaged => IsProjection(index)
    /\ IsProjection(manifest)
    /\ IsSurface(pages) /\ IsMoves(renames)
    /\ pending \in BOOLEAN /\ replaced \in BOOLEAN /\ events \in Nat

CommandsTyped ==
    /\ lock \in Procs \cup {NoProc}
    /\ pc \in [Procs -> Labels]
    /\ job = [p \in Procs |-> job[p]]
    /\ \A p \in Procs :
         /\ IsJob(job[p])
         /\ pc[p] # "idle" => IsProjection(job[p].manifest)

TypeOK == FilesTyped /\ CommandsTyped

----------------------------------------------------------------------------
(* The inductive invariant.                                                 *)

NoneOrValid(L) == L # NoLedger => Valid(L)
Sound(x) == x.gov # NoLedger => Valid(x.gov) /\ Projectable(x.gov, DOMAIN x.on)

\* Every ledger on disk passed validation, and every projection covers its pages.
FilesSound ==
    /\ NoneOrValid(ledger) /\ NoneOrValid(checkedIn)
    /\ index # Damaged => Sound(index)
    /\ Sound(manifest)

\* No page is renamed to a place that another rename vacates.
NoChain == \A p, q \in DOMAIN renames : renames[p] # q

\* Who has planned a ledger holds both locks until the manifest commits it.
Held == \A p \in Procs : pc[p] \in {"save", "commit", "manifest"} => lock = p

\* What a command that is at a label has read and planned.
Fits(at, j) ==
    /\ at = "idle" => j = NoJob
    /\ at \in {"pages", "finalize"} => j.next = NoLedger
    /\ at \in {"save", "commit", "manifest"} => NoneOrValid(j.next)
    /\ at = "save" =>
         /\ j.next # NoLedger
         /\ j.loaded # NoLedger => Keeps(j.loaded, j.next)
         /\ j.publish => Projectable(j.next, DOMAIN j.on)
    /\ at \in {"commit", "manifest"} /\ j.next # NoLedger => Projectable(j.next, DOMAIN j.on)
    /\ at \in {"save", "commit", "manifest"} /\ j.manifest.gov # NoLedger =>
         /\ j.next # NoLedger
         /\ j.index = j.manifest => j.next.bundle = j.manifest.gov.bundle

JobsFit == \A p \in Procs : Fits(pc[p], job[p])

\* Between its save and its manifest the ledger is what the command planned,
\* unless somebody replaced it.
PlansStand ==
    ~replaced => \A p \in Procs : pc[p] \in {"commit", "manifest"} => ledger = job[p].next

\* One half is about the files, the other about the commands at work on them.
Files == FilesTyped /\ FilesSound /\ NoChain /\ AuthorityNotBehind
Commands == CommandsTyped /\ Held /\ JobsFit /\ PlansStand

Inv == Files /\ Commands

----------------------------------------------------------------------------
(* Ledgers: what their operations keep.                                     *)

LEMMA OverValues ==
  ASSUME NEW f, NEW g
  PROVE  /\ DOMAIN Over(f, g) = DOMAIN f \cup DOMAIN g
         /\ \A x \in DOMAIN f : Over(f, g)[x] = f[x]
         /\ \A x \in DOMAIN g \ DOMAIN f : Over(f, g)[x] = g[x]
BY DEF Over

LEMMA OverTyped ==
  ASSUME NEW D, NEW E, NEW S, NEW f \in [D -> S], NEW g \in [E -> S]
  PROVE  Over(f, g) \in [D \cup E -> S]
BY DEF Over

LEMMA CoordsTyped ==
  ASSUME NEW c \in Coordinates
  PROVE  Coords(c) \subseteq {"locator", "key"} \X Places
BY DEF Coordinates, Coords

LEMMA LedgerFields ==
  ASSUME NEW L, IsLedger(L)
  PROVE  /\ L = [bundle |-> L.bundle, at |-> L.at, alias |-> L.alias, life |-> L.life,
                 reviews |-> L.reviews]
         /\ L.bundle \in Bundles
         /\ Uids(L) \subseteq Owners
         /\ L.at \in [Uids(L) -> Coordinates]
         /\ L.alias \subseteq [coord : {"locator", "key"} \X Places, uid : Uids(L)]
         /\ L.life \in [Uids(L) -> Seq(Entries)]
         /\ L.reviews \subseteq [uid : Uids(L), at : Places, scope : Scopes]
<1>1. PICK U \in SUBSET Owners : L \in LedgersOf(U)
  BY DEF IsLedger
<1>2. Uids(L) = U
  BY <1>1 DEF LedgersOf, Uids
<1> QED
  BY <1>1, <1>2 DEF LedgersOf

LEMMA LedgerMade ==
  ASSUME NEW U, U \subseteq Owners, NEW b \in Bundles,
         NEW at \in [U -> Coordinates],
         NEW alias, alias \subseteq [coord : {"locator", "key"} \X Places, uid : U],
         NEW life \in [U -> Seq(Entries)],
         NEW reviews, reviews \subseteq [uid : U, at : Places, scope : Scopes]
  PROVE  IsLedger([bundle |-> b, at |-> at, alias |-> alias, life |-> life, reviews |-> reviews])
BY DEF IsLedger, LedgersOf

\* What a ledger keeps of itself, and keeping is transitive.
LEMMA KeepsSelf ==
  ASSUME NEW L, IsLedger(L)
  PROVE  Keeps(L, L)
<1>1. \A u \in Uids(L) : L.life[u] \in Seq(Entries)
  BY LedgerFields
<1>2. \A u \in Uids(L) : SubSeq(L.life[u], 1, Len(L.life[u])) = L.life[u]
  BY <1>1
<1>3. \A u \in Uids(L) : Len(L.life[u]) <= Len(L.life[u])
  BY <1>1
<1> QED
  BY <1>2, <1>3 DEF Keeps

LEMMA PrefixTransitive ==
  ASSUME NEW S, NEW a \in Seq(S), NEW b \in Seq(S), NEW c \in Seq(S),
         Len(a) <= Len(b), SubSeq(b, 1, Len(a)) = a,
         Len(b) <= Len(c), SubSeq(c, 1, Len(b)) = b
  PROVE  Len(a) <= Len(c) /\ SubSeq(c, 1, Len(a)) = a
OBVIOUS

LEMMA KeepsTransitive ==
  ASSUME NEW L, NEW M, NEW N, IsLedger(L), IsLedger(M), IsLedger(N),
         Keeps(L, M), Keeps(M, N)
  PROVE  Keeps(L, N)
<1>1. N.bundle = L.bundle /\ Uids(L) \subseteq Uids(N) /\ L.reviews \subseteq N.reviews
  BY DEF Keeps
<1>2. ASSUME NEW u \in Uids(L)
      PROVE  /\ Owned(L, u) \subseteq Owned(N, u)
             /\ Len(L.life[u]) <= Len(N.life[u])
             /\ SubSeq(N.life[u], 1, Len(L.life[u])) = L.life[u]
  <2>1. u \in Uids(M) /\ u \in Uids(N)
    BY <1>2 DEF Keeps
  <2>2. Owned(L, u) \subseteq Owned(M, u) /\ Owned(M, u) \subseteq Owned(N, u)
    BY <1>2, <2>1 DEF Keeps
  <2>3. L.life[u] \in Seq(Entries) /\ M.life[u] \in Seq(Entries) /\ N.life[u] \in Seq(Entries)
    BY <1>2, <2>1, LedgerFields
  <2>4. /\ Len(L.life[u]) <= Len(M.life[u]) /\ SubSeq(M.life[u], 1, Len(L.life[u])) = L.life[u]
        /\ Len(M.life[u]) <= Len(N.life[u]) /\ SubSeq(N.life[u], 1, Len(M.life[u])) = M.life[u]
    BY <1>2, <2>1 DEF Keeps
  <2>5. Len(L.life[u]) <= Len(N.life[u]) /\ SubSeq(N.life[u], 1, Len(L.life[u])) = L.life[u]
    BY <2>3, <2>4, PrefixTransitive
  <2> QED
    BY <2>2, <2>5
<1> QED
  BY <1>1, <1>2 DEF Keeps

\* An operation that leaves lives and reviews alone keeps what it owns.
LEMMA KeepsByOwning ==
  ASSUME NEW L, NEW M, IsLedger(L), M.bundle = L.bundle,
         Uids(L) \subseteq Uids(M),
         \A u \in Uids(L) : Owned(L, u) \subseteq Owned(M, u) /\ M.life[u] = L.life[u],
         L.reviews \subseteq M.reviews
  PROVE  Keeps(L, M)
<1>1. \A u \in Uids(L) : L.life[u] \in Seq(Entries)
  BY LedgerFields
<1>2. \A u \in Uids(L) : SubSeq(M.life[u], 1, Len(L.life[u])) = L.life[u]
  BY <1>1
<1>3. \A u \in Uids(L) : Len(L.life[u]) <= Len(M.life[u])
  BY <1>1
<1> QED
  BY <1>2, <1>3 DEF Keeps

----------------------------------------------------------------------------
\* Relocation: everybody keeps what they owned.
LEMMA RelocateKeeps ==
  ASSUME NEW L, IsLedger(L), NEW to, DOMAIN to \subseteq Uids(L),
         \A u \in DOMAIN to : to[u] \in Coordinates
  PROVE  /\ IsLedger(Relocate(L, to))
         /\ Uids(Relocate(L, to)) = Uids(L)
         /\ Keeps(L, Relocate(L, to))
         /\ Relocate(L, to).bundle = L.bundle
         /\ \A u \in DOMAIN to : Relocate(L, to).at[u] = to[u]
         /\ \A u \in Uids(L) \ DOMAIN to : Relocate(L, to).at[u] = L.at[u]
<1> DEFINE kept == {x \in L.alias : x.uid \notin DOMAIN to \/ x.coord \notin Coords(to[x.uid])}
           left == UNION {{[coord |-> c, uid |-> u] : c \in Coords(L.at[u]) \ Coords(to[u])} :
                            u \in DOMAIN to}
           M == Relocate(L, to)
<1>0. /\ L = [bundle |-> L.bundle, at |-> L.at, alias |-> L.alias, life |-> L.life,
                 reviews |-> L.reviews]
      /\ L.bundle \in Bundles
      /\ Uids(L) \subseteq Owners
      /\ L.at \in [Uids(L) -> Coordinates]
      /\ L.alias \subseteq [coord : {"locator", "key"} \X Places, uid : Uids(L)]
      /\ L.life \in [Uids(L) -> Seq(Entries)]
      /\ L.reviews \subseteq [uid : Uids(L), at : Places, scope : Scopes]
  BY LedgerFields
<1> USE <1>0
<1>1. M = [bundle |-> L.bundle, at |-> Over(to, L.at), alias |-> kept \cup left,
           life |-> L.life, reviews |-> L.reviews]
  <2> HIDE DEF kept, left
  <2>1. M = [L EXCEPT !.at = Over(to, L.at), !.alias = kept \cup left]
    BY DEF Relocate, kept, left
  <2> QED
    BY <2>1
<1>2. /\ Over(to, L.at) \in [Uids(L) -> Coordinates]
      /\ \A u \in DOMAIN to : Over(to, L.at)[u] = to[u]
      /\ \A u \in Uids(L) \ DOMAIN to : Over(to, L.at)[u] = L.at[u]
  BY DEF Over, Uids
<1>3. left \subseteq [coord : {"locator", "key"} \X Places, uid : Uids(L)]
  <2>1. \A u \in DOMAIN to : Coords(L.at[u]) \subseteq {"locator", "key"} \X Places
    BY CoordsTyped
  <2> QED
    BY <2>1
<1>4. kept \subseteq [coord : {"locator", "key"} \X Places, uid : Uids(L)]
  OBVIOUS
<1>5. IsLedger(M)
  <2>1. kept \cup left \subseteq [coord : {"locator", "key"} \X Places, uid : Uids(L)]
    BY <1>3, <1>4
  <2> HIDE DEF kept, left, M
  <2> QED
    BY <1>1, <1>2, <2>1, LedgerMade
<1>6. Uids(M) = Uids(L)
  BY <1>1, <1>2 DEF Uids
<1>7. ASSUME NEW u \in Uids(L)
      PROVE  Owned(L, u) \subseteq Owned(M, u)
  <2>1. CASE u \in DOMAIN to
    <3>1. Coords(L.at[u]) \subseteq Owned(M, u)
      <4>1. \A c \in Coords(L.at[u]) \ Coords(to[u]) : [coord |-> c, uid |-> u] \in left
        BY <2>1
      <4>2. \A c \in Coords(L.at[u]) \ Coords(to[u]) : c \in {x.coord : x \in AliasesOf(M, u)}
        <5> TAKE c \in Coords(L.at[u]) \ Coords(to[u])
        <5>1. [coord |-> c, uid |-> u] \in M.alias
          BY <4>1, <1>1
        <5>2. [coord |-> c, uid |-> u] \in AliasesOf(M, u)
          BY <5>1 DEF AliasesOf
        <5> HIDE DEF M
        <5> QED
          BY <5>2
      <4>3. Coords(to[u]) \subseteq Owned(M, u)
        BY <1>1, <1>2, <2>1 DEF Owned
      <4> HIDE DEF M
      <4> QED
        BY <4>2, <4>3 DEF Owned
    <3>2. \A x \in AliasesOf(L, u) : x.coord \in Owned(M, u)
      <4> TAKE x \in AliasesOf(L, u)
      <4>1. CASE x.coord \in Coords(to[u])
        BY <4>1, <1>1, <1>2, <2>1 DEF Owned
      <4>2. CASE x.coord \notin Coords(to[u])
        BY <4>2, <1>1 DEF Owned, AliasesOf
      <4> QED
        BY <4>1, <4>2
    <3> HIDE DEF M
    <3> QED
      BY <3>1, <3>2 DEF Owned
  <2>2. CASE u \notin DOMAIN to
    <3>1. AliasesOf(L, u) \subseteq AliasesOf(M, u)
      BY <2>2, <1>1 DEF AliasesOf
    <3>2. M.at[u] = L.at[u]
      BY <2>2, <1>1, <1>2, <1>7
    <3> HIDE DEF M
    <3> QED
      BY <3>1, <3>2 DEF Owned
  <2> QED
    BY <2>1, <2>2
<1>8. Keeps(L, M)
  <2>1. M.bundle = L.bundle /\ M.life = L.life /\ M.reviews = L.reviews
    BY <1>1
  <2> HIDE DEF M
  <2> QED
    BY <1>6, <1>7, <2>1, KeepsByOwning
<1> QED
  BY <1>1, <1>2, <1>5, <1>6, <1>8

\* Allocation under UIDs that nobody has.
LEMMA AllocateKeeps ==
  ASSUME NEW L, IsLedger(L), NEW new, new \subseteq Places,
         \A p \in new : Uid(L.bundle, p) \notin Uids(L)
  PROVE  /\ IsLedger(Allocate(L, new))
         /\ Keeps(L, Allocate(L, new))
         /\ \A u \in Uids(L) : Allocate(L, new).at[u] = L.at[u]
         /\ \A p \in new : Uid(L.bundle, p) \in Located(Allocate(L, new), p)
         /\ \A u \in Uids(Allocate(L, new)) \ Uids(L) :
              \E p \in new : Allocate(L, new).at[u] = Page(p)
<1> DEFINE U == {Uid(L.bundle, p) : p \in new}
           fresh == [u \in U |-> Page(u.first)]
           born == [u \in U |-> <<>>]
           M == Allocate(L, new)
<1>0. /\ L = [bundle |-> L.bundle, at |-> L.at, alias |-> L.alias, life |-> L.life,
                 reviews |-> L.reviews]
      /\ L.bundle \in Bundles
      /\ Uids(L) \subseteq Owners
      /\ L.at \in [Uids(L) -> Coordinates]
      /\ L.alias \subseteq [coord : {"locator", "key"} \X Places, uid : Uids(L)]
      /\ L.life \in [Uids(L) -> Seq(Entries)]
      /\ L.reviews \subseteq [uid : Uids(L), at : Places, scope : Scopes]
  BY LedgerFields
<1> USE <1>0
<1>1. M = [bundle |-> L.bundle, at |-> Over(fresh, L.at), alias |-> L.alias,
           life |-> Over(born, L.life), reviews |-> L.reviews]
  <2>1. M = [L EXCEPT !.at = Over(fresh, L.at), !.life = Over(born, L.life)]
    BY DEF Allocate
  <2> HIDE DEF fresh, born, M
  <2> QED
    BY <2>1
<1>2. U \subseteq Owners /\ U \cap Uids(L) = {} /\ \A u \in U : u.first \in new
  BY DEF Uid, Owners
<1>3. fresh \in [U -> Coordinates] /\ born \in [U -> Seq(Entries)]
  BY <1>2 DEF Page, Coordinates
<1>4. /\ Over(fresh, L.at) \in [U \cup Uids(L) -> Coordinates]
      /\ Over(born, L.life) \in [U \cup Uids(L) -> Seq(Entries)]
  <2> HIDE DEF fresh, born, U
  <2> QED
    BY <1>3, OverTyped
<1>5. /\ \A u \in Uids(L) : Over(fresh, L.at)[u] = L.at[u] /\ Over(born, L.life)[u] = L.life[u]
      /\ \A u \in U : Over(fresh, L.at)[u] = Page(u.first)
  <2>1. DOMAIN fresh = U /\ DOMAIN born = U /\ \A u \in U : fresh[u] = Page(u.first)
    OBVIOUS
  <2>2. DOMAIN L.at = Uids(L) /\ DOMAIN L.life = Uids(L)
    OBVIOUS
  <2> HIDE DEF fresh, born, U
  <2> QED
    BY <1>2, <2>1, <2>2 DEF Over
<1>6. IsLedger(M)
  <2>1. /\ L.alias \subseteq [coord : {"locator", "key"} \X Places, uid : U \cup Uids(L)]
        /\ L.reviews \subseteq [uid : U \cup Uids(L), at : Places, scope : Scopes]
    <3> HIDE DEF U
    <3> QED OBVIOUS
  <2>2. U \cup Uids(L) \subseteq Owners
    BY <1>2
  <2> HIDE DEF fresh, born, U, M
  <2> QED
    BY <1>1, <1>4, <2>1, <2>2, LedgerMade
<1>7. Uids(M) = U \cup Uids(L)
  BY <1>1, <1>4 DEF Uids
<1>8. \A u \in Uids(L) : M.at[u] = L.at[u] /\ M.life[u] = L.life[u] /\ Owned(M, u) = Owned(L, u)
  <2> HIDE DEF fresh, born, U, M
  <2>1. \A u \in Uids(L) : M.at[u] = L.at[u] /\ M.life[u] = L.life[u]
    BY <1>1, <1>5
  <2>2. M.alias = L.alias
    BY <1>1
  <2> QED
    BY <2>1, <2>2 DEF Owned, AliasesOf
<1>9. Keeps(L, M)
  <2>1. M.bundle = L.bundle /\ M.reviews = L.reviews
    BY <1>1
  <2> HIDE DEF M, U
  <2> QED
    BY <1>7, <1>8, <2>1, KeepsByOwning
<1>10. \A u \in U : M.at[u] = Page(u.first)
  <2> HIDE DEF fresh, born, U
  <2> QED
    BY <1>1, <1>5
<1>11. \A p \in new : Uid(L.bundle, p) \in Located(M, p)
  BY <1>7, <1>10 DEF Located, Uid
<1>12. \A u \in Uids(M) \ Uids(L) : \E p \in new : M.at[u] = Page(p)
  <2> HIDE DEF U, M
  <2> QED
    BY <1>2, <1>7, <1>10
<1> HIDE DEF U
<1> QED
  BY <1>6, <1>8, <1>9, <1>11, <1>12

----------------------------------------------------------------------------
\* Reconciliation: a valid ledger that keeps all and covers every page.
LEMMA ReconcileKeeps ==
  ASSUME NEW L, IsLedger(L), NEW on, on \subseteq Places, NEW moves, IsMoves(moves),
         NEW N \in Reconcile(L, on, moves)
  PROVE  /\ IsLedger(N) /\ Valid(N)
         /\ Keeps(L, N)
         /\ Projectable(N, on)
         /\ \A u \in Uids(N) :
              \/ N.at[u].locator \in on
              \/ N.at[u].locator \notin DOMAIN moves
<1> DEFINE to == Carried(L, moves)
           M == Relocate(L, to)
           new == Unowned(M, on)
<1>1. /\ N = Allocate(M, new)
      /\ \A u \in DOMAIN to : to[u].locator \in on
      /\ \A p \in on \ new : Located(M, p) # {}
      /\ \A p \in new : Uid(L.bundle, p) \notin Uids(M)
      /\ Valid(N)
  BY DEF Reconcile
<1>2. /\ DOMAIN to = {v \in Uids(L) : L.at[v].locator \in DOMAIN moves}
      /\ \A u \in DOMAIN to : to[u] = Page(moves[L.at[u].locator])
  BY DEF Carried
<1>3. \A u \in DOMAIN to : to[u] \in Coordinates
  BY <1>2 DEF IsMoves, Page, Coordinates
<1>4. DOMAIN to \subseteq Uids(L)
  BY <1>2
<1>5. /\ IsLedger(M) /\ Keeps(L, M) /\ Uids(M) = Uids(L) /\ M.bundle = L.bundle
      /\ \A u \in DOMAIN to : M.at[u] = to[u]
      /\ \A u \in Uids(L) \ DOMAIN to : M.at[u] = L.at[u]
  <2> HIDE DEF to
  <2> QED
    BY <1>3, <1>4, RelocateKeeps
<1>6. new \subseteq on
  BY DEF Unowned
<1>7. \A p \in new : Uid(M.bundle, p) \notin Uids(M)
  BY <1>1, <1>5
<1>8. /\ IsLedger(N) /\ Keeps(M, N)
      /\ \A u \in Uids(M) : N.at[u] = M.at[u]
      /\ \A p \in new : Uid(M.bundle, p) \in Located(N, p)
      /\ \A u \in Uids(N) \ Uids(M) : \E p \in new : N.at[u] = Page(p)
  <2>1. new \subseteq Places
    BY <1>6
  <2> HIDE DEF M, new
  <2> QED
    BY <1>1, <1>5, <1>7, <2>1, AllocateKeeps
<1> HIDE DEF to, M, new
<1>9. Keeps(L, N)
  BY <1>5, <1>8, KeepsTransitive
<1>10. Projectable(N, on)
  <2> SUFFICES ASSUME NEW p \in on
               PROVE  Located(N, p) # {}
    BY DEF Projectable
  <2>1. CASE p \in new
    BY <2>1, <1>8
  <2>2. CASE p \notin new
    <3>1. PICK u \in Uids(M) : M.at[u] = Page(p)
      BY <1>1, <2>2 DEF Located
    <3>2. u \in Uids(N) /\ N.at[u] = Page(p)
      BY <3>1, <1>8 DEF Keeps
    <3> QED
      BY <3>2 DEF Located
  <2> QED
    BY <2>1, <2>2
<1>11. ASSUME NEW u \in Uids(N)
       PROVE  N.at[u].locator \in on \/ N.at[u].locator \notin DOMAIN moves
  <2>1. CASE u \notin Uids(M)
    <3>1. PICK p \in new : N.at[u] = Page(p)
      BY <2>1, <1>8
    <3>2. N.at[u].locator = p
      BY <3>1 DEF Page
    <3> QED
      BY <3>1, <3>2, <1>6
  <2>2. CASE u \in DOMAIN to
    BY <2>2, <1>1, <1>4, <1>5, <1>8
  <2>3. CASE u \in Uids(M) \ DOMAIN to
    BY <2>3, <1>2, <1>5, <1>8
  <2> QED
    BY <2>1, <2>2, <2>3
<1> QED
  BY <1>1, <1>8, <1>9, <1>10, <1>11

\* Reconciliation settles: where no page is at a place that a rename vacates,
\* there is nothing left to carry or to allocate.
LEMMA ReconcileAgain ==
  ASSUME NEW L, IsLedger(L), NEW on, on \subseteq Places, NEW moves, IsMoves(moves),
         on \cap DOMAIN moves = {},
         NEW N \in Reconcile(L, on, moves)
  PROVE  Reconcile(N, on, moves) = {N}
<1> DEFINE to == Carried(N, moves)
           M == Relocate(N, to)
           new == Unowned(M, on)
<1>1. IsLedger(N) /\ Valid(N) /\ Projectable(N, on)
  BY ReconcileKeeps
<1>2. DOMAIN to = {}
  <2>1. \A u \in Uids(N) : N.at[u].locator \notin DOMAIN moves
    BY ReconcileKeeps
  <2> QED
    BY <2>1 DEF Carried
<1>3. N = [bundle |-> N.bundle, at |-> N.at, alias |-> N.alias, life |-> N.life,
           reviews |-> N.reviews]
  BY <1>1, LedgerFields
<1>4. N.at \in [Uids(N) -> Coordinates] /\ N.life \in [Uids(N) -> Seq(Entries)]
  BY <1>1, LedgerFields
<1>5. \A f, g, S : DOMAIN f = {} /\ g \in [Uids(N) -> S] => Over(f, g) = g
  BY DEF Over
<1>6. M = N
  <2>1. Over(to, N.at) = N.at
    <3> HIDE DEF to
    <3> QED
      BY <1>2, <1>4, <1>5
  <2> DEFINE kept == {x \in N.alias : x.uid \notin DOMAIN to \/ x.coord \notin Coords(to[x.uid])}
             left == UNION {{[coord |-> c, uid |-> u] : c \in Coords(N.at[u]) \ Coords(to[u])} :
                              u \in DOMAIN to}
  <2>2. kept \cup left = N.alias
    <3> HIDE DEF to
    <3> QED
      BY <1>2
  <2>3. M = [N EXCEPT !.at = Over(to, N.at), !.alias = kept \cup left]
    BY DEF Relocate
  <2> HIDE DEF kept, left, to, M
  <2> QED
    BY <2>1, <2>2, <2>3, <1>3
<1>7. new = {}
  <2>1. ASSUME NEW p \in on
        PROVE  \E u \in Uids(N) : Coords(N.at[u]) \cap Coords(Page(p)) # {}
    <3>1. PICK u \in Uids(N) : N.at[u] = Page(p)
      BY <1>1 DEF Projectable, Located
    <3> QED
      BY <3>1 DEF Coords
  <2> HIDE DEF M
  <2> QED
    BY <2>1, <1>6 DEF Unowned
<1>8. Allocate(N, {}) = N
  <2> DEFINE fresh == [u \in {Uid(N.bundle, p) : p \in {}} |-> Page(u.first)]
             born == [u \in {Uid(N.bundle, p) : p \in {}} |-> <<>>]
  <2>1. DOMAIN fresh = {} /\ DOMAIN born = {}
    OBVIOUS
  <2>2. Over(fresh, N.at) = N.at /\ Over(born, N.life) = N.life
    <3> HIDE DEF fresh, born
    <3> QED
      BY <2>1, <1>4, <1>5
  <2>3. Allocate(N, {}) = [N EXCEPT !.at = Over(fresh, N.at), !.life = Over(born, N.life)]
    BY DEF Allocate
  <2> HIDE DEF fresh, born
  <2> QED
    BY <2>2, <2>3, <1>3
<1>9. Allocate(M, new) = N
  <2> HIDE DEF M, new
  <2> QED
    BY <1>6, <1>7, <1>8
<1>10. /\ \A u \in DOMAIN to :
            to[u].locator \in on
            /\ \A v \in Uids(N) \ {u} : Coords(to[u]) \cap Coords(N.at[v]) = {}
       /\ \A p \in on \ new : Located(M, p) # {}
       /\ \A p \in new : Uid(N.bundle, p) \notin Uids(M)
  <2> HIDE DEF to, M, new
  <2> QED
    BY <1>1, <1>2, <1>6, <1>7 DEF Projectable
<1>11. Reconcile(N, on, moves) =
         {K \in {Allocate(M, new)} :
            /\ \A u \in DOMAIN to :
                 to[u].locator \in on
                 /\ \A v \in Uids(N) \ {u} : Coords(to[u]) \cap Coords(N.at[v]) = {}
            /\ \A p \in on \ new : Located(M, p) # {}
            /\ \A p \in new : Uid(N.bundle, p) \notin Uids(M)
            /\ Valid(K)}
  BY DEF Reconcile
<1> HIDE DEF to, M, new
<1> QED
  BY <1>1, <1>9, <1>10, <1>11

----------------------------------------------------------------------------
\* The explicit operations.
LEMMA MoveKeeps ==
  ASSUME NEW L, IsLedger(L), NEW u \in Uids(L), NEW c \in Coordinates,
         NEW N \in MoveConcept(L, u, c)
  PROVE  IsLedger(N) /\ Valid(N) /\ Keeps(L, N)
<1> DEFINE to == [v \in {u} |-> c]
<1>1. N = Relocate(L, to) /\ Valid(N)
  BY DEF MoveConcept
<1>2. DOMAIN to \subseteq Uids(L) /\ \A v \in DOMAIN to : to[v] \in Coordinates
  OBVIOUS
<1> HIDE DEF to
<1> QED
  BY <1>1, <1>2, RelocateKeeps

LEMMA AliasKeeps ==
  ASSUME NEW L, IsLedger(L), NEW u \in Uids(L), NEW coord \in {"locator", "key"} \X Places,
         NEW N \in AddAlias(L, u, coord)
  PROVE  IsLedger(N) /\ Valid(N) /\ Keeps(L, N)
<1>1. Valid(N)
  BY DEF AddAlias
<1>2. CASE N = L
  BY <1>1, <1>2, KeepsSelf
<1>3. CASE N # L
  <2> DEFINE alias == L.alias \cup {[coord |-> coord, uid |-> u]}
  <2>1. N = [L EXCEPT !.alias = alias]
    BY <1>3 DEF AddAlias
  <2>2. /\ L = [bundle |-> L.bundle, at |-> L.at, alias |-> L.alias, life |-> L.life,
                reviews |-> L.reviews]
        /\ L.bundle \in Bundles
        /\ Uids(L) \subseteq Owners
        /\ L.at \in [Uids(L) -> Coordinates]
        /\ L.alias \subseteq [coord : {"locator", "key"} \X Places, uid : Uids(L)]
        /\ L.life \in [Uids(L) -> Seq(Entries)]
        /\ L.reviews \subseteq [uid : Uids(L), at : Places, scope : Scopes]
    BY LedgerFields
  <2>3. alias \subseteq [coord : {"locator", "key"} \X Places, uid : Uids(L)]
    BY <2>2
  <2>4. N = [bundle |-> L.bundle, at |-> L.at, alias |-> alias, life |-> L.life,
             reviews |-> L.reviews]
    <3> HIDE DEF alias
    <3> QED
      BY <2>1, <2>2
  <2>5. L.alias \subseteq alias
    OBVIOUS
  <2> HIDE DEF alias
  <2>6. IsLedger(N)
    BY <2>2, <2>3, <2>4, LedgerMade
  <2>7. /\ N.bundle = L.bundle /\ N.life = L.life /\ N.reviews = L.reviews
        /\ N.at = L.at /\ L.alias \subseteq N.alias
    BY <2>4, <2>5
  <2>8. \A v \in Uids(L) : Owned(L, v) \subseteq Owned(N, v)
    BY <2>7 DEF Owned, AliasesOf
  <2>9. Uids(N) = Uids(L)
    BY <2>7 DEF Uids
  <2>10. Keeps(L, N)
    BY <2>7, <2>8, <2>9, KeepsByOwning
  <2> QED
    BY <1>1, <2>6, <2>10
<1> QED
  BY <1>2, <1>3

LEMMA LifecycleKeeps ==
  ASSUME NEW L, IsLedger(L), NEW u \in Uids(L), NEW s \in Lifecycles,
         NEW v \in Uids(L) \cup {NoUid},
         NEW N \in SetLifecycle(L, u, s, v)
  PROVE  IsLedger(N) /\ Valid(N) /\ Keeps(L, N)
<1> DEFINE e == [to |-> s, successor |-> v]
           life == [L.life EXCEPT ![u] = Append(L.life[u], e)]
<1>1. Valid(N) /\ N = [L EXCEPT !.life = life]
  BY DEF SetLifecycle
<1>2. /\ L = [bundle |-> L.bundle, at |-> L.at, alias |-> L.alias, life |-> L.life,
              reviews |-> L.reviews]
      /\ L.bundle \in Bundles
      /\ Uids(L) \subseteq Owners
      /\ L.at \in [Uids(L) -> Coordinates]
      /\ L.alias \subseteq [coord : {"locator", "key"} \X Places, uid : Uids(L)]
      /\ L.life \in [Uids(L) -> Seq(Entries)]
      /\ L.reviews \subseteq [uid : Uids(L), at : Places, scope : Scopes]
  BY LedgerFields
<1>3. e \in Entries
  BY <1>2 DEF Entries
<1>4. L.life[u] \in Seq(Entries)
  BY <1>2
<1> HIDE DEF e
<1>5. life \in [Uids(L) -> Seq(Entries)]
  <2>1. Append(L.life[u], e) \in Seq(Entries)
    BY <1>3, <1>4
  <2> QED
    BY <1>2, <2>1
<1>6. \A x \in Uids(L) : Len(L.life[x]) <= Len(life[x]) /\ SubSeq(life[x], 1, Len(L.life[x])) = L.life[x]
  <2> TAKE x \in Uids(L)
  <2>1. L.life[x] \in Seq(Entries)
    BY <1>2
  <2>2. CASE x = u
    <3>1. life[x] = Append(L.life[x], e)
      BY <1>2, <2>2
    <3>2. /\ Len(Append(L.life[x], e)) = Len(L.life[x]) + 1
          /\ SubSeq(Append(L.life[x], e), 1, Len(L.life[x])) = L.life[x]
      BY <1>3, <2>1
    <3> QED
      BY <2>1, <3>1, <3>2
  <2>3. CASE x # u
    <3>1. life[x] = L.life[x]
      BY <1>2, <2>3
    <3> QED
      BY <2>1, <3>1
  <2> QED
    BY <2>2, <2>3
<1> HIDE DEF life
<1>7. N = [bundle |-> L.bundle, at |-> L.at, alias |-> L.alias, life |-> life,
           reviews |-> L.reviews]
  BY <1>1, <1>2
<1>8. IsLedger(N)
  BY <1>2, <1>5, <1>7, LedgerMade
<1>9. N.bundle = L.bundle /\ N.at = L.at /\ N.alias = L.alias /\ N.life = life /\ N.reviews = L.reviews
  BY <1>7
<1>10. Keeps(L, N)
  BY <1>6, <1>9 DEF Keeps, Owned, AliasesOf, Uids
<1> QED
  BY <1>1, <1>8, <1>10

LEMMA ReviewKeeps ==
  ASSUME NEW L, IsLedger(L), NEW u \in Uids(L), NEW scope \in Scopes,
         NEW N \in AddReview(L, u, scope)
  PROVE  IsLedger(N) /\ Valid(N) /\ Keeps(L, N)
<1> DEFINE reviews == L.reviews \cup {[uid |-> u, at |-> L.at[u].locator, scope |-> scope]}
<1>1. Valid(N) /\ N = [L EXCEPT !.reviews = reviews]
  BY DEF AddReview
<1>2. /\ L = [bundle |-> L.bundle, at |-> L.at, alias |-> L.alias, life |-> L.life,
              reviews |-> L.reviews]
      /\ L.bundle \in Bundles
      /\ Uids(L) \subseteq Owners
      /\ L.at \in [Uids(L) -> Coordinates]
      /\ L.alias \subseteq [coord : {"locator", "key"} \X Places, uid : Uids(L)]
      /\ L.life \in [Uids(L) -> Seq(Entries)]
      /\ L.reviews \subseteq [uid : Uids(L), at : Places, scope : Scopes]
  BY LedgerFields
<1>3. L.at[u].locator \in Places
  BY <1>2 DEF Coordinates
<1>4. reviews \subseteq [uid : Uids(L), at : Places, scope : Scopes] /\ L.reviews \subseteq reviews
  BY <1>2, <1>3
<1> HIDE DEF reviews
<1>5. N = [bundle |-> L.bundle, at |-> L.at, alias |-> L.alias, life |-> L.life,
           reviews |-> reviews]
  BY <1>1, <1>2
<1>6. IsLedger(N)
  BY <1>2, <1>4, <1>5, LedgerMade
<1>7. /\ N.bundle = L.bundle /\ N.at = L.at /\ N.alias = L.alias /\ N.life = L.life
      /\ L.reviews \subseteq N.reviews
  BY <1>4, <1>5
<1>8. Uids(N) = Uids(L) /\ \A v \in Uids(L) : Owned(L, v) \subseteq Owned(N, v) /\ N.life[v] = L.life[v]
  BY <1>7 DEF Uids, Owned, AliasesOf
<1>9. Keeps(L, N)
  BY <1>7, <1>8, KeepsByOwning
<1> QED
  BY <1>1, <1>6, <1>9

\* A place has one owner, present or past: who keeps a ledger keeps its pages.
LEMMA PlaceHasOneOwner ==
  ASSUME NEW L, Valid(L), NEW u \in Uids(L), NEW v, NEW p,
         L.at[u] = Page(p), <<"locator", p>> \in Owned(L, v)
  PROVE  /\ L.at[v].locator = p
         /\ v \in Uids(L) => v = u
<1>1. <<"locator", p>> \in Coords(L.at[u])
  BY DEF Coords, Page
<1>2. \A x \in L.alias : x.coord # <<"locator", p>>
  BY <1>1 DEF Valid
<1>3. <<"locator", p>> \in Coords(L.at[v])
  BY <1>2 DEF Owned, AliasesOf
<1>4. L.at[v].locator = p
  BY <1>3 DEF Coords
<1>5. v \in Uids(L) => v = u
  BY <1>1, <1>3 DEF Valid
<1> QED
  BY <1>4, <1>5

LEMMA LocatedKept ==
  ASSUME NEW L, NEW M, Valid(L), Valid(M), Keeps(L, M), NEW p,
         Located(L, p) # {}, Located(M, p) # {}
  PROVE  Located(L, p) = Located(M, p)
<1>1. PICK u \in Uids(L) : L.at[u] = Page(p)
  BY DEF Located
<1>2. PICK v \in Uids(M) : M.at[v] = Page(p)
  BY DEF Located
<1>3. \A x \in Located(L, p) : x = v
  <2> TAKE x \in Located(L, p)
  <2>1. x \in Uids(L) /\ <<"locator", p>> \in Owned(L, x)
    BY DEF Located, Owned, Coords, Page
  <2>2. x \in Uids(M) /\ <<"locator", p>> \in Owned(M, x)
    BY <2>1 DEF Keeps
  <2> QED
    BY <1>2, <2>2, PlaceHasOneOwner
<1>4. \A x \in Located(M, p) : x = v
  <2> TAKE x \in Located(M, p)
  <2>1. x \in Uids(M) /\ <<"locator", p>> \in Owned(M, x)
    BY DEF Located, Owned, Coords, Page
  <2> QED
    BY <1>2, <2>1, PlaceHasOneOwner
<1> QED
  BY <1>3, <1>4

----------------------------------------------------------------------------
(* Surfaces, renames and commands.                                          *)

LEMMA RenamedSurface ==
  ASSUME NEW on, IsSurface(on), NEW moves, IsMoves(moves)
  PROVE  /\ IsSurface(Renamed(on, moves))
         /\ DOMAIN Renamed(on, moves) =
              {moves[p] : p \in DOMAIN moves \cap DOMAIN on} \cup (DOMAIN on \ DOMAIN moves)
<1> DEFINE todo == DOMAIN moves \cap DOMAIN on
           f == [q \in {moves[p] : p \in todo} |-> on[CHOOSE p \in todo : moves[p] = q]]
           g == [p \in DOMAIN on \ todo |-> on[p]]
<1>1. Renamed(on, moves) = Over(f, g)
  BY DEF Renamed
<1>2. f \in [{moves[p] : p \in todo} -> Scopes]
  <2>1. \A q \in {moves[p] : p \in todo} : (CHOOSE p \in todo : moves[p] = q) \in todo
    OBVIOUS
  <2> QED
    BY <2>1 DEF IsSurface
<1>3. g \in [DOMAIN on \ todo -> Scopes]
  BY DEF IsSurface
<1>4. {moves[p] : p \in todo} \cup (DOMAIN on \ todo) \subseteq Places
  BY DEF IsSurface, IsMoves
<1>5. DOMAIN on \ todo = DOMAIN on \ DOMAIN moves
  OBVIOUS
<1>6. Over(f, g) \in [{moves[p] : p \in todo} \cup (DOMAIN on \ todo) -> Scopes]
  <2> HIDE DEF f, g, todo
  <2> QED
    BY <1>2, <1>3, OverTyped
<1> HIDE DEF f, g
<1> QED
  BY <1>1, <1>4, <1>5, <1>6 DEF IsSurface

LEMMA Mutations ==
  ASSUME NEW L, IsLedger(L), IsSurface(index.on), NEW N \in Changes(L)
  PROVE  IsLedger(N) /\ Valid(N) /\ Keeps(L, N)
<1>1. \/ \E u \in Uids(L), s \in States, v \in Uids(L) \cup {NoUid} : N \in SetLifecycle(L, u, s, v)
      \/ \E u \in Uids(L), n \in Names : N \in AddAlias(L, u, n)
      \/ \E u \in Uids(L) : /\ L.at[u].locator \in DOMAIN index.on
                            /\ N \in AddReview(L, u, index.on[L.at[u].locator])
  BY DEF Changes
<1>2. ASSUME NEW u \in Uids(L), NEW s \in States, NEW v \in Uids(L) \cup {NoUid},
             N \in SetLifecycle(L, u, s, v)
      PROVE  IsLedger(N) /\ Valid(N) /\ Keeps(L, N)
  <2>1. s \in Lifecycles
    BY GovernanceAssumption
  <2> QED
    BY <1>2, <2>1, LifecycleKeeps
<1>3. ASSUME NEW u \in Uids(L), NEW n \in Names, N \in AddAlias(L, u, n)
      PROVE  IsLedger(N) /\ Valid(N) /\ Keeps(L, N)
  <2>1. n \in {"locator", "key"} \X Places
    BY GovernanceAssumption
  <2> QED
    BY <1>3, <2>1, AliasKeeps
<1>4. ASSUME NEW u \in Uids(L), L.at[u].locator \in DOMAIN index.on,
             N \in AddReview(L, u, index.on[L.at[u].locator])
      PROVE  IsLedger(N) /\ Valid(N) /\ Keeps(L, N)
  <2>1. index.on[L.at[u].locator] \in Scopes
    BY <1>4 DEF IsSurface
  <2> QED
    BY <1>4, <2>1, ReviewKeeps
<1> QED
  BY <1>1, <1>2, <1>3, <1>4

LEMMA EmptyLedger ==
  ASSUME NEW b \in Bundles
  PROVE  IsLedger(Empty(b))
<1> DEFINE none == <<>>
<1>1. none \in [{} -> Coordinates] /\ none \in [{} -> Seq(Entries)]
  <2>1. \A S : none \in Seq(S) /\ Len(none) = 0
    OBVIOUS
  <2>2. \A S : none \in [1 .. 0 -> S]
    BY <2>1
  <2>3. 1 .. 0 = {}
    OBVIOUS
  <2> HIDE DEF none
  <2> QED
    BY <2>2, <2>3
<1>2. Empty(b) = [bundle |-> b, at |-> none, alias |-> {}, life |-> none, reviews |-> {}]
  BY DEF Empty
<1> HIDE DEF none
<1>3. /\ {} \subseteq Owners
      /\ {} \subseteq [coord : {"locator", "key"} \X Places, uid : {}]
      /\ {} \subseteq [uid : {}, at : Places, scope : Scopes]
  OBVIOUS
<1>4. IsLedger([bundle |-> b, at |-> none, alias |-> {}, life |-> none, reviews |-> {}])
  BY <1>1, <1>3 DEF IsLedger, LedgersOf
<1> QED
  BY <1>2, <1>4

----------------------------------------------------------------------------
(* The initial states, and the steps that leave one half alone.             *)

LEMMA Nothing ==
  /\ DOMAIN <<>> = {}
  /\ IsMoves(<<>>) /\ IsSurface(<<>>)
<1> DEFINE none == <<>>
<1>1. \A S : none \in [{} -> S]
  <2>1. \A S : none \in Seq(S) /\ Len(none) = 0
    OBVIOUS
  <2>2. \A S : none \in [1 .. 0 -> S]
    BY <2>1
  <2>3. 1 .. 0 = {}
    OBVIOUS
  <2> HIDE DEF none
  <2> QED
    BY <2>2, <2>3
<1> HIDE DEF none
<1>2. DOMAIN none = {} /\ IsMoves(none) /\ IsSurface(none)
  BY <1>1 DEF IsMoves, IsSurface
<1> USE DEF none
<1> QED
  BY <1>2

LEMMA NoJobFits == IsJob(NoJob) /\ Fits("idle", NoJob)
BY Nothing DEF NoJob, IsJob, Fields, Fits, NoneOrLedger

LEMMA InvInit == Init => Inv
<1> SUFFICES ASSUME Init PROVE Inv
  OBVIOUS
<1>1. PICK h \in Histories :
        /\ \E c \in Scopes : pages = Renamed([p \in h.first |-> c], h.moves)
        /\ \/ ledger = NoLedger
           \/ \E L \in Reconcile(Empty(h.bundle), h.first, <<>>) :
                 ledger \in Reconcile(L, DOMAIN pages, h.moves)
  BY DEF Init
<1>2. h.bundle \in Bundles /\ h.first \subseteq Places
  BY GovernanceAssumption
<1>3. IsMoves(h.moves)
  BY GovernanceAssumption DEF IsMoves
<1>4. IsSurface(pages)
  <2>1. PICK c \in Scopes : pages = Renamed([p \in h.first |-> c], h.moves)
    BY <1>1
  <2>2. IsSurface([p \in h.first |-> c])
    BY <1>2 DEF IsSurface
  <2> QED
    BY <1>3, <2>1, <2>2, RenamedSurface
<1>5. ledger # NoLedger => IsLedger(ledger) /\ Valid(ledger) /\ Projectable(ledger, DOMAIN pages)
  <2> SUFFICES ASSUME ledger # NoLedger
               PROVE  IsLedger(ledger) /\ Valid(ledger) /\ Projectable(ledger, DOMAIN pages)
    OBVIOUS
  <2>1. PICK L \in Reconcile(Empty(h.bundle), h.first, <<>>) :
          ledger \in Reconcile(L, DOMAIN pages, h.moves)
    BY <1>1
  <2>2. IsLedger(L)
    BY <1>2, EmptyLedger, Nothing, ReconcileKeeps
  <2>3. DOMAIN pages \subseteq Places
    BY <1>4 DEF IsSurface
  <2> QED
    BY <1>3, <2>1, <2>2, <2>3, ReconcileKeeps
<1>6. /\ manifest = [gov |-> ledger, on |-> pages] /\ index = manifest
      /\ checkedIn = NoLedger /\ renames = <<>> /\ pending = FALSE
      /\ events = 0 /\ replaced = FALSE /\ lock = NoProc
      /\ pc = [p \in Procs |-> "idle"] /\ job = [p \in Procs |-> NoJob]
  BY DEF Init
<1>7. FilesTyped
  BY <1>4, <1>5, <1>6, Nothing DEF FilesTyped, NoneOrLedger, IsProjection
<1>8. FilesSound
  BY <1>5, <1>6 DEF FilesSound, NoneOrValid, Sound
<1>9. NoChain
  BY <1>6, Nothing DEF NoChain
<1>10. AuthorityNotBehind
  <2>1. \A x \in Governed : x.gov = ledger /\ ledger # NoLedger
    BY <1>6 DEF Governed, Projections
  <2>2. ledger # NoLedger => Keeps(ledger, ledger)
    BY <1>5, KeepsSelf
  <2> QED
    BY <2>1, <2>2 DEF AuthorityNotBehind
<1>11. CommandsTyped
  BY <1>6, NoJobFits DEF CommandsTyped, Labels
<1>12. Held /\ JobsFit /\ PlansStand
  BY <1>6, NoJobFits DEF Held, JobsFit, PlansStand
<1> QED
  BY <1>7, <1>8, <1>9, <1>10, <1>11, <1>12 DEF Inv, Files, Commands

\* A step of a command that reads the files.
LEMMA FilesSame ==
  ASSUME Files, UNCHANGED <<wiki, users, replaced>>, events' \in Nat
  PROVE  Files'
<1> USE DEF wiki, users
<1>1. FilesTyped'
  BY DEF Files, FilesTyped
<1>2. FilesSound' /\ NoChain'
  BY DEF Files, FilesSound, NoChain
<1>3. AuthorityNotBehind'
  BY DEF Files, AuthorityNotBehind, Governed, Projections
<1> QED
  BY <1>1, <1>2, <1>3 DEF Files

\* A step of the users. A ledger replaced by hand is on record as replaced.
LEMMA CommandsSame ==
  ASSUME Commands, UNCHANGED <<lock, pc, job>>,
         \/ UNCHANGED <<ledger, replaced>>
         \/ replaced' = TRUE
  PROVE  Commands'
<1>1. CommandsTyped' /\ Held' /\ JobsFit'
  BY DEF Commands, CommandsTyped, Held, JobsFit
<1>2. PlansStand'
  BY DEF Commands, PlansStand
<1> QED
  BY <1>1, <1>2 DEF Commands

\* A step of one command: the others keep their labels and jobs, and none of
\* them holds a plan unless it holds the lock.
LEMMA CommandStep ==
  ASSUME Commands, NEW p \in Procs, NEW at \in Labels, NEW j,
         IsJob(j), Fits(at, j), at # "idle" => IsProjection(j.manifest),
         pc' = [pc EXCEPT ![p] = at], job' = [job EXCEPT ![p] = j],
         \/ lock' = lock /\ (at \in {"save", "commit", "manifest"} => lock = p)
         \/ lock = NoProc /\ lock' = p
         \/ lock = p /\ lock' = NoProc /\ at = "idle",
         UNCHANGED <<ledger, replaced>> \/ lock = p,
         at \in {"commit", "manifest"} /\ ~replaced' => ledger' = j.next
  PROVE  Commands'
<1>1. /\ pc[p] \in Labels /\ pc'[p] = at /\ job'[p] = j
      /\ \A q \in Procs \ {p} : pc'[q] = pc[q] /\ job'[q] = job[q]
  BY DEF Commands, CommandsTyped
<1>2. CommandsTyped'
  BY <1>1 DEF Commands, CommandsTyped
<1>3. Held'
  <2> SUFFICES ASSUME NEW q \in Procs, pc'[q] \in {"save", "commit", "manifest"}
               PROVE  lock' = q
    BY DEF Held
  <2>1. CASE q = p
    BY <2>1, <1>1
  <2>2. CASE q # p
    <3>1. lock = q
      BY <2>2, <1>1 DEF Commands, Held
    <3> QED
      BY <3>1, <2>2, GovernanceAssumption
  <2> QED
    BY <2>1, <2>2
<1>4. JobsFit'
  BY <1>1 DEF Commands, JobsFit
<1>5. PlansStand'
  <2> SUFFICES ASSUME ~replaced', NEW q \in Procs, pc'[q] \in {"commit", "manifest"}
               PROVE  ledger' = job'[q].next
    BY DEF PlansStand
  <2>1. CASE q = p
    BY <2>1, <1>1
  <2>2. CASE q # p
    <3>1. lock = q
      BY <2>2, <1>1 DEF Commands, Held
    <3>2. UNCHANGED <<ledger, replaced>>
      BY <3>1, <2>2
    <3> QED
      BY <2>2, <3>2, <1>1 DEF Commands, PlansStand
  <2> QED
    BY <2>1, <2>2
<1> QED
  BY <1>2, <1>3, <1>4, <1>5 DEF Commands

LEMMA LeaveStep ==
  ASSUME Commands, NEW p \in Procs, Leave(p), UNCHANGED <<ledger, replaced>> \/ lock = p
  PROVE  Commands'
<1>1. /\ pc' = [pc EXCEPT ![p] = "idle"] /\ job' = [job EXCEPT ![p] = NoJob]
      /\ lock' = IF lock = p THEN NoProc ELSE lock
  BY DEF Leave, Goto
<1>2. "idle" \in Labels
  BY DEF Labels
<1> QED
  BY <1>1, <1>2, NoJobFits, CommandStep

----------------------------------------------------------------------------
(* Publishing.                                                              *)

LEMMA StartStep == ASSUME Inv, NEW p \in Procs, Start(p) PROVE Inv'
<1> DEFINE j == [job[p] EXCEPT !.index = index, !.manifest = manifest, !.moves = renames]
<1>1. pc[p] = "idle" /\ job[p] = NoJob
  BY DEF Start, Inv, Commands, JobsFit, Fits
<1>2. /\ DOMAIN j = Fields
      /\ j.index = index /\ j.manifest = manifest /\ j.moves = renames
      /\ j.loaded = NoLedger /\ j.next = NoLedger /\ j.on = <<>> /\ j.publish = FALSE
  <2>1. IsJob(job[p])
    BY DEF Inv, Commands, CommandsTyped
  <2>2. /\ job[p].loaded = NoLedger /\ job[p].next = NoLedger /\ job[p].on = <<>>
        /\ job[p].publish = FALSE
    BY <1>1 DEF NoJob
  <2>3. j = [job[p] EXCEPT !.index = index, !.manifest = manifest, !.moves = renames]
    OBVIOUS
  <2> HIDE DEF j
  <2> QED
    BY <2>1, <2>2, <2>3 DEF IsJob, Fields
<1>3. job' = [job EXCEPT ![p] = j]
  BY DEF Start, Inv, Commands, CommandsTyped
<1> HIDE DEF j
<1>4. IsJob(j) /\ Fits("pages", j) /\ IsProjection(j.manifest)
  BY <1>2, Nothing DEF IsJob, Fits, NoneOrLedger, Inv, Files, FilesTyped
<1>5. /\ pc' = [pc EXCEPT ![p] = "pages"] /\ UNCHANGED <<wiki, users, replaced>>
      /\ \/ UNCHANGED lock
         \/ lock = NoProc /\ lock' = p
      /\ "pages" \in Labels
  <2>1. pc' = [pc EXCEPT ![p] = "pages"] /\ UNCHANGED <<wiki, users, replaced>>
    BY DEF Start, Goto
  <2>2. UNCHANGED lock \/ (lock = NoProc /\ lock' = p)
    BY DEF Start, Acquire
  <2> QED
    BY <2>1, <2>2 DEF Labels
<1>6. events' \in Nat
  BY DEF Start, Spend, Inv, Files, FilesTyped
<1>7. Files'
  BY <1>5, <1>6, FilesSame DEF Inv
<1>8. UNCHANGED <<ledger, replaced>>
  BY <1>5 DEF wiki
<1>9. Commands'
  BY <1>3, <1>4, <1>5, <1>8, CommandStep DEF Inv
<1> QED
  BY <1>7, <1>9 DEF Inv

\* The frame of the steps that read the files and keep the count of events.
LEMMA ReadingStep ==
  ASSUME Inv, UNCHANGED <<wiki, users, replaced>>, events' \in Nat, Commands'
  PROVE  Inv'
BY FilesSame DEF Inv

LEMMA WritePagesStep == ASSUME Inv, NEW p \in Procs, WritePages(p) PROVE Inv'
<1>1. /\ pages' = Renamed(pages, job[p].moves)
      /\ pending' = (pending \/ pages' # pages)
      /\ UNCHANGED <<wiki, renames, checkedIn, lock, job, events, replaced>>
      /\ pc[p] = "pages" /\ pc' = [pc EXCEPT ![p] = "finalize"]
  BY DEF WritePages, Goto
<1>2. IsSurface(pages')
  BY <1>1, RenamedSurface DEF Inv, Files, FilesTyped, Commands, CommandsTyped, IsJob
<1>3. pending' \in BOOLEAN
  BY <1>1
<1>4. FilesTyped' /\ FilesSound' /\ NoChain' /\ AuthorityNotBehind'
  <2>1. FilesTyped'
    BY <1>1, <1>2, <1>3 DEF Inv, Files, FilesTyped, wiki
  <2>2. FilesSound' /\ NoChain'
    BY <1>1 DEF Inv, Files, FilesSound, NoChain, wiki
  <2>3. AuthorityNotBehind'
    BY <1>1 DEF Inv, Files, AuthorityNotBehind, Governed, Projections, wiki
  <2> QED
    BY <2>1, <2>2, <2>3
<1>5. /\ IsJob(job[p]) /\ IsProjection(job[p].manifest) /\ Fits("finalize", job[p])
      /\ job' = [job EXCEPT ![p] = job[p]]
  BY <1>1 DEF Inv, Commands, CommandsTyped, JobsFit, Fits
<1>6. "finalize" \in Labels /\ UNCHANGED <<ledger, replaced, lock>>
  BY <1>1 DEF Labels, wiki
<1>7. Commands'
  BY <1>1, <1>5, <1>6, CommandStep DEF Inv
<1> QED
  BY <1>4, <1>7 DEF Inv, Files

LEMMA FinalizeUngovernedStep == ASSUME Inv, NEW p \in Procs, FinalizeUngoverned(p) PROVE Inv'
<1> DEFINE j == [job[p] EXCEPT !.on = pages, !.publish = TRUE]
<1>1. /\ pc[p] = "finalize" /\ ledger = NoLedger /\ LedgerFound(job[p].manifest)
      /\ UNCHANGED <<wiki, users, events, replaced>>
      /\ pc' = [pc EXCEPT ![p] = "commit"]
      /\ \/ lock = p /\ UNCHANGED lock
         \/ lock = NoProc /\ lock' = p
  BY DEF FinalizeUngoverned, Goto, Acquire
<1>2. /\ IsJob(job[p]) /\ Fits("finalize", job[p]) /\ IsProjection(job[p].manifest)
      /\ IsSurface(pages) /\ events \in Nat
  BY <1>1 DEF Inv, Commands, CommandsTyped, JobsFit, Files, FilesTyped
<1>3. /\ DOMAIN j = Fields
      /\ j.index = job[p].index /\ j.manifest = job[p].manifest /\ j.moves = job[p].moves
      /\ j.loaded = job[p].loaded /\ j.next = job[p].next /\ j.on = pages /\ j.publish = TRUE
  <2>1. j = [job[p] EXCEPT !.on = pages, !.publish = TRUE]
    OBVIOUS
  <2> HIDE DEF j
  <2> QED
    BY <1>2, <2>1 DEF IsJob, Fields
<1>4. job' = [job EXCEPT ![p] = j]
  BY DEF FinalizeUngoverned, Inv, Commands, CommandsTyped
<1> HIDE DEF j
<1>5. job[p].next = NoLedger /\ job[p].manifest.gov = NoLedger
  BY <1>1, <1>2 DEF LedgerFound, Fits
<1>6. IsJob(j) /\ IsProjection(j.manifest)
  BY <1>2, <1>3 DEF IsJob
<1>7. Fits("commit", j)
  BY <1>3, <1>5 DEF Fits, NoneOrValid
<1>8. "commit" \in Labels /\ UNCHANGED <<ledger, replaced>> /\ j.next = ledger
  BY <1>1, <1>3, <1>5 DEF Labels, wiki
<1>9. Commands'
  BY <1>1, <1>4, <1>6, <1>7, <1>8, CommandStep DEF Inv
<1> QED
  BY <1>1, <1>2, <1>9, ReadingStep

LEMMA FinalizeGovernedStep == ASSUME Inv, NEW p \in Procs, FinalizeGoverned(p) PROVE Inv'
<1>1. /\ pc[p] = "finalize" /\ ledger # NoLedger
      /\ Continues(job[p].index, job[p].manifest, ledger)
      /\ UNCHANGED <<wiki, users, events, replaced>>
      /\ pc' = [pc EXCEPT ![p] = "save"]
      /\ \/ lock = p /\ UNCHANGED lock
         \/ lock = NoProc /\ lock' = p
  BY DEF FinalizeGoverned, Goto, Acquire
<1>2. PICK N \in Reconcile(ledger, DOMAIN pages, job[p].moves) :
        job' = [job EXCEPT ![p].loaded = ledger, ![p].next = N,
                           ![p].on = pages, ![p].publish = TRUE]
  BY DEF FinalizeGoverned
<1> DEFINE j == [job[p] EXCEPT !.loaded = ledger, !.next = N, !.on = pages, !.publish = TRUE]
<1>3. /\ IsJob(job[p]) /\ IsProjection(job[p].manifest)
      /\ IsSurface(pages) /\ events \in Nat /\ IsLedger(ledger)
  BY <1>1 DEF Inv, Commands, CommandsTyped, Files, FilesTyped, NoneOrLedger
<1>4. /\ DOMAIN j = Fields
      /\ j.index = job[p].index /\ j.manifest = job[p].manifest /\ j.moves = job[p].moves
      /\ j.loaded = ledger /\ j.next = N /\ j.on = pages /\ j.publish = TRUE
  <2>1. j = [job[p] EXCEPT !.loaded = ledger, !.next = N, !.on = pages, !.publish = TRUE]
    OBVIOUS
  <2> HIDE DEF j
  <2> QED
    BY <1>3, <2>1 DEF IsJob, Fields
<1>5. job' = [job EXCEPT ![p] = j]
  BY <1>2 DEF Inv, Commands, CommandsTyped
<1> HIDE DEF j
<1>6. IsLedger(N) /\ Valid(N) /\ Keeps(ledger, N) /\ Projectable(N, DOMAIN pages)
  BY <1>2, <1>3, ReconcileKeeps DEF IsSurface, IsJob
<1>7. N # NoLedger /\ N.bundle = ledger.bundle
  BY <1>6, GovernanceAssumption DEF Keeps
<1>8. IsJob(j) /\ IsProjection(j.manifest)
  BY <1>3, <1>4, <1>6 DEF IsJob, NoneOrLedger
<1>9. Fits("save", j)
  BY <1>1, <1>4, <1>6, <1>7 DEF Fits, NoneOrValid, Continues
<1>10. "save" \in Labels /\ UNCHANGED <<ledger, replaced>>
  BY <1>1 DEF Labels, wiki
<1>11. Commands'
  BY <1>1, <1>5, <1>8, <1>9, <1>10, CommandStep DEF Inv
<1> QED
  BY <1>1, <1>3, <1>11, ReadingStep

----------------------------------------------------------------------------
(* Explicit commands.                                                       *)

LEMMA PrepareStep ==
  ASSUME Inv, NEW p \in Procs, NEW N, NEW b \in BOOLEAN, Prepare(p, N, b),
         index = manifest,
         ledger # NoLedger => Continues(index, manifest, ledger) /\ Keeps(ledger, N),
         ledger = NoLedger => index.gov = NoLedger,
         IsLedger(N), Valid(N), b => Projectable(N, DOMAIN index.on)
  PROVE  Inv'
<1> DEFINE j == [index |-> index, manifest |-> manifest, moves |-> <<>>,
                 loaded |-> ledger, next |-> N, on |-> index.on, publish |-> b]
<1>1. /\ job' = [job EXCEPT ![p] = j]
      /\ pc' = [pc EXCEPT ![p] = "save"]
      /\ lock = NoProc /\ lock' = p
      /\ UNCHANGED <<wiki, users, replaced>>
      /\ events' = events + 1
  BY DEF Prepare, Acquire, Goto, Spend
<1>2. /\ DOMAIN j = Fields
      /\ j.index = index /\ j.manifest = manifest /\ j.moves = <<>>
      /\ j.loaded = ledger /\ j.next = N /\ j.on = index.on /\ j.publish = b
  BY DEF Fields
<1>3. /\ IsProjection(manifest) /\ NoneOrLedger(ledger) /\ events \in Nat
  BY DEF Inv, Files, FilesTyped
<1> HIDE DEF j
<1>4. IsJob(j) /\ IsProjection(j.manifest)
  BY <1>2, <1>3, Nothing DEF IsJob, IsProjection, NoneOrLedger
<1>5. N # NoLedger
  BY GovernanceAssumption
<1>6. Fits("save", j)
  BY <1>2, <1>5 DEF Fits, NoneOrValid, Continues, Keeps
<1>7. "save" \in Labels /\ UNCHANGED <<ledger, replaced>>
  BY <1>1 DEF Labels, wiki
<1>8. Commands'
  BY <1>1, <1>4, <1>6, <1>7, CommandStep DEF Inv
<1>9. events' \in Nat
  BY <1>1, <1>3
<1> QED
  BY <1>1, <1>8, <1>9, ReadingStep

LEMMA InitLedgerStep == ASSUME Inv, NEW p \in Procs, InitLedger(p) PROVE Inv'
<1>1. /\ index = manifest
      /\ IF ledger = NoLedger THEN index.gov = NoLedger ELSE Continues(index, manifest, ledger)
  BY DEF InitLedger, Coherent
<1>2. PICK L \in IF ledger = NoLedger THEN {Empty(b) : b \in Bundles} ELSE {ledger} :
        \E N \in Reconcile(L, DOMAIN index.on, <<>>) :
            Projectable(N, DOMAIN index.on) /\ Prepare(p, N, TRUE)
  BY DEF InitLedger
<1>3. PICK N \in Reconcile(L, DOMAIN index.on, <<>>) :
        Projectable(N, DOMAIN index.on) /\ Prepare(p, N, TRUE)
  BY <1>2
<1>4. IsLedger(L)
  BY <1>2, EmptyLedger DEF Inv, Files, FilesTyped, NoneOrLedger
<1>5. DOMAIN index.on \subseteq Places
  BY <1>1 DEF Inv, Files, FilesTyped, IsProjection, IsSurface
<1>6. IsLedger(N) /\ Valid(N) /\ Keeps(L, N)
  BY <1>3, <1>4, <1>5, Nothing, ReconcileKeeps
<1> QED
  BY <1>1, <1>2, <1>3, <1>6, PrepareStep

LEMMA MutateStep == ASSUME Inv, NEW p \in Procs, Mutate(p) PROVE Inv'
<1>1. ledger # NoLedger /\ index = manifest /\ Continues(index, manifest, ledger)
  BY DEF Mutate, Coherent
<1>2. PICK N \in Changes(ledger) : Projectable(N, DOMAIN index.on) /\ Prepare(p, N, TRUE)
  BY DEF Mutate
<1>3. IsLedger(ledger) /\ IsSurface(index.on)
  BY <1>1 DEF Inv, Files, FilesTyped, IsProjection, NoneOrLedger
<1>4. IsLedger(N) /\ Valid(N) /\ Keeps(ledger, N)
  BY <1>2, <1>3, Mutations
<1> QED
  BY <1>1, <1>2, <1>4, PrepareStep

LEMMA MoveStep == ASSUME Inv, NEW p \in Procs, Move(p) PROVE Inv'
<1>1. ledger # NoLedger /\ index = manifest /\ Continues(index, manifest, ledger)
  BY DEF Move
<1>2. PICK u \in Uids(ledger), c \in Targets :
        \E N \in MoveConcept(ledger, u, c) : Prepare(p, N, Projectable(N, DOMAIN index.on))
  BY DEF Move
<1>3. PICK N \in MoveConcept(ledger, u, c) : Prepare(p, N, Projectable(N, DOMAIN index.on))
  BY <1>2
<1>4. IsLedger(ledger) /\ c \in Coordinates
  BY <1>1, GovernanceAssumption DEF Inv, Files, FilesTyped, NoneOrLedger
<1>5. IsLedger(N) /\ Valid(N) /\ Keeps(ledger, N)
  BY <1>3, <1>4, MoveKeeps
<1>6. Projectable(N, DOMAIN index.on) \in BOOLEAN
  BY DEF Projectable
<1> QED
  BY <1>1, <1>3, <1>5, <1>6, PrepareStep

LEMMA CommandsStep == ASSUME Inv, NEW p \in Procs, Command(p) PROVE Inv'
BY InitLedgerStep, MutateStep, MoveStep DEF Command

----------------------------------------------------------------------------
(* The common end.                                                          *)

\* What a saved ledger replaces it keeps.
LEMMA SaveKeeps ==
  ASSUME Inv, NEW p \in Procs, Save(p)
  PROVE  /\ ledger = job[p].loaded /\ ledger' = job[p].next
         /\ IsLedger(ledger') /\ Valid(ledger') /\ ledger' # NoLedger
         /\ ledger # NoLedger => Keeps(ledger, ledger')
<1>1. pc[p] = "save" /\ ledger = job[p].loaded /\ ledger' = job[p].next
  BY DEF Save
<1>2. Fits("save", job[p]) /\ IsJob(job[p])
  BY <1>1 DEF Inv, Commands, CommandsTyped, JobsFit
<1> QED
  BY <1>1, <1>2 DEF Fits, IsJob, NoneOrLedger, NoneOrValid

LEMMA SaveStep == ASSUME Inv, NEW p \in Procs, Save(p) PROVE Inv'
<1>1. /\ pc[p] = "save" /\ UNCHANGED <<index, manifest, users, events, replaced>>
      /\ \/ /\ job[p].publish /\ pc' = [pc EXCEPT ![p] = "commit"] /\ UNCHANGED <<lock, job>>
         \/ Leave(p)
  BY DEF Save, Goto
<1>2. /\ ledger' = job[p].next /\ IsLedger(ledger') /\ Valid(ledger') /\ ledger' # NoLedger
      /\ ledger # NoLedger => Keeps(ledger, ledger')
  BY SaveKeeps
<1>3. FilesTyped'
  BY <1>1, <1>2 DEF Inv, Files, FilesTyped, users, NoneOrLedger
<1>4. FilesSound' /\ NoChain'
  BY <1>1, <1>2 DEF Inv, Files, FilesSound, NoChain, users, NoneOrValid
<1>5. AuthorityNotBehind'
  <2> SUFFICES ASSUME ~replaced', NEW x \in Governed'
               PROVE  ledger' # NoLedger /\ Keeps(x.gov, ledger')
    BY DEF AuthorityNotBehind
  <2>1. ~replaced /\ x \in Governed
    BY <1>1 DEF Governed, Projections
  <2>2. ledger # NoLedger /\ Keeps(x.gov, ledger)
    BY <2>1 DEF Inv, Files, AuthorityNotBehind
  <2>3. IsLedger(x.gov) /\ IsLedger(ledger)
    BY <2>1, <2>2 DEF Governed, Projections, Inv, Files, FilesTyped, IsProjection, NoneOrLedger
  <2> QED
    BY <1>2, <2>2, <2>3, KeepsTransitive
<1>6. lock = p
  BY <1>1 DEF Inv, Commands, Held
<1>7. CASE job[p].publish /\ pc' = [pc EXCEPT ![p] = "commit"] /\ UNCHANGED <<lock, job>>
  <2>1. IsJob(job[p]) /\ Fits("save", job[p]) /\ IsProjection(job[p].manifest)
    BY <1>1 DEF Inv, Commands, CommandsTyped, JobsFit
  <2>2. Fits("commit", job[p])
    BY <1>7, <2>1 DEF Fits
  <2>3. job' = [job EXCEPT ![p] = job[p]] /\ "commit" \in Labels
    BY <1>7 DEF Inv, Commands, CommandsTyped, Labels
  <2>4. Commands'
    BY <1>2, <1>6, <1>7, <2>1, <2>2, <2>3, CommandStep DEF Inv
  <2> QED
    BY <1>3, <1>4, <1>5, <2>4 DEF Inv, Files
<1>8. CASE Leave(p)
  <2>1. Commands'
    BY <1>6, <1>8, LeaveStep DEF Inv
  <2> QED
    BY <1>3, <1>4, <1>5, <2>1 DEF Inv, Files
<1> QED
  BY <1>1, <1>7, <1>8

\* What a command plans is a sound projection, and unless the ledger was
\* replaced meanwhile it is the projection of the ledger.
LEMMA PlannedSound ==
  ASSUME Inv, NEW p \in Procs, pc[p] \in {"commit", "manifest"}
  PROVE  /\ IsProjection(Planned(p)) /\ Sound(Planned(p))
         /\ Planned(p).gov = job[p].next /\ Planned(p).on = job[p].on
         /\ ~replaced => ledger = Planned(p).gov
         /\ job[p].next # NoLedger => IsLedger(job[p].next) /\ Valid(job[p].next)
<1>1. IsJob(job[p]) /\ Fits(pc[p], job[p])
  BY DEF Inv, Commands, CommandsTyped, JobsFit
<1>2. Planned(p) = [gov |-> job[p].next, on |-> job[p].on]
  BY DEF Planned
<1>3. ~replaced => ledger = job[p].next
  BY DEF Inv, Commands, PlansStand
<1> QED
  BY <1>1, <1>2, <1>3 DEF IsJob, Fits, IsProjection, Sound, NoneOrLedger, NoneOrValid

LEMMA CommitIndexStep == ASSUME Inv, NEW p \in Procs, CommitIndex(p) PROVE Inv'
<1>1. /\ pc[p] = "commit" /\ index' = Planned(p) /\ pc' = [pc EXCEPT ![p] = "manifest"]
      /\ UNCHANGED <<ledger, manifest, users, lock, job, events, replaced>>
  BY DEF CommitIndex, Goto
<1>2. /\ IsProjection(Planned(p)) /\ Sound(Planned(p))
      /\ ~replaced => ledger = Planned(p).gov
  BY <1>1, PlannedSound
<1>3. FilesTyped'
  BY <1>1, <1>2 DEF Inv, Files, FilesTyped, users
<1>4. FilesSound' /\ NoChain'
  BY <1>1, <1>2 DEF Inv, Files, FilesSound, NoChain, users
<1>5. AuthorityNotBehind'
  <2> SUFFICES ASSUME ~replaced', NEW x \in Governed'
               PROVE  ledger' # NoLedger /\ Keeps(x.gov, ledger')
    BY DEF AuthorityNotBehind
  <2>1. ~replaced /\ ledger' = ledger
    BY <1>1
  <2>2. x = Planned(p) \/ x = manifest
    BY <1>1 DEF Governed, Projections
  <2>3. x.gov # NoLedger
    BY DEF Governed
  <2>4. CASE x = Planned(p)
    <3>1. ledger = x.gov /\ IsLedger(ledger)
      BY <1>2, <2>1, <2>3, <2>4 DEF IsProjection, NoneOrLedger
    <3> QED
      BY <2>1, <2>3, <3>1, KeepsSelf
  <2>5. CASE x = manifest
    <3>1. x \in Governed
      BY <2>3, <2>5 DEF Governed, Projections
    <3> QED
      BY <2>1, <3>1 DEF Inv, Files, AuthorityNotBehind
  <2> QED
    BY <2>2, <2>4, <2>5
<1>6. IsJob(job[p]) /\ IsProjection(job[p].manifest) /\ Fits("commit", job[p])
  BY <1>1 DEF Inv, Commands, CommandsTyped, JobsFit
<1>7. Fits("manifest", job[p]) /\ job' = [job EXCEPT ![p] = job[p]] /\ "manifest" \in Labels
  BY <1>1, <1>6 DEF Fits, Inv, Commands, CommandsTyped, Labels
<1>8. lock = p
  BY <1>1 DEF Inv, Commands, Held
<1>9. replaced \/ ledger = job[p].next
  BY <1>1, PlannedSound
<1>10. Commands'
  BY <1>1, <1>6, <1>7, <1>8, <1>9, CommandStep DEF Inv
<1> QED
  BY <1>3, <1>4, <1>5, <1>10 DEF Inv, Files

LEMMA CommitManifestStep == ASSUME Inv, NEW p \in Procs, CommitManifest(p) PROVE Inv'
<1>1. /\ pc[p] = "manifest" /\ index = Planned(p) /\ manifest' = Planned(p)
      /\ renames' = [q \in {r \in DOMAIN renames : r \notin DOMAIN job[p].moves} |-> renames[q]]
      /\ pending' = (pending /\ job[p].moves = <<>>)
      /\ replaced' = (replaced /\ ledger # job[p].next)
      /\ Leave(p)
      /\ UNCHANGED <<ledger, index, pages, checkedIn, events>>
  BY DEF CommitManifest
<1>2. /\ IsProjection(Planned(p)) /\ Sound(Planned(p)) /\ Planned(p).gov = job[p].next
      /\ ~replaced => ledger = Planned(p).gov
  BY <1>1, PlannedSound
<1>3. IsMoves(renames') /\ NoChain'
  <2>1. IsMoves(renames) /\ NoChain
    BY DEF Inv, Files, FilesTyped
  <2>2. /\ DOMAIN renames' \subseteq DOMAIN renames
        /\ \A q \in DOMAIN renames' : renames'[q] = renames[q]
    BY <1>1
  <2>3. renames' \in [DOMAIN renames' -> Places]
    BY <1>1, <2>1 DEF IsMoves
  <2> QED
    BY <2>1, <2>2, <2>3 DEF IsMoves, NoChain
<1>4. FilesTyped'
  BY <1>1, <1>2, <1>3 DEF Inv, Files, FilesTyped
<1>5. FilesSound'
  BY <1>1, <1>2 DEF Inv, Files, FilesSound
<1>6. AuthorityNotBehind'
  <2> SUFFICES ASSUME ~replaced', NEW x \in Governed'
               PROVE  ledger' # NoLedger /\ Keeps(x.gov, ledger')
    BY DEF AuthorityNotBehind
  <2>1. x = Planned(p) /\ x.gov # NoLedger
    BY <1>1 DEF Governed, Projections
  <2>2. ledger' = ledger /\ ledger = x.gov
    BY <1>1, <1>2, <2>1
  <2>3. IsLedger(x.gov)
    BY <1>2, <2>1 DEF IsProjection, NoneOrLedger
  <2> QED
    BY <2>1, <2>2, <2>3, KeepsSelf
<1>7. lock = p
  BY <1>1 DEF Inv, Commands, Held
<1>8. Commands'
  BY <1>1, <1>7, LeaveStep DEF Inv
<1> QED
  BY <1>3, <1>4, <1>5, <1>6, <1>8 DEF Inv, Files

LEMMA RefusedStep == ASSUME Inv, NEW p \in Procs, Refused(p) PROVE Inv'
<1>1. Leave(p) /\ UNCHANGED <<wiki, users, events, replaced>>
  BY DEF Refused
<1>2. Commands'
  BY <1>1, LeaveStep DEF Inv, wiki
<1>3. events' \in Nat
  BY <1>1 DEF Inv, Files, FilesTyped
<1> QED
  BY <1>1, <1>2, <1>3, ReadingStep

LEMMA KillStep == ASSUME Inv, NEW p \in Procs, Kill(p) PROVE Inv'
<1>1. Leave(p) /\ UNCHANGED <<wiki, users, replaced>> /\ events' = events + 1
  BY DEF Kill, Spend
<1>2. Commands'
  BY <1>1, LeaveStep DEF Inv, wiki
<1>3. events' \in Nat
  BY <1>1 DEF Inv, Files, FilesTyped
<1> QED
  BY <1>1, <1>2, <1>3, ReadingStep

LEMMA PublishStep == ASSUME Inv, NEW p \in Procs, Publish(p) PROVE Inv'
BY StartStep, WritePagesStep, FinalizeUngovernedStep, FinalizeGovernedStep, SaveStep,
   CommitIndexStep, CommitManifestStep, RefusedStep DEF Publish

----------------------------------------------------------------------------
(* The users of the repository.                                             *)

\* Edits of the pages and of what is to be renamed.
LEMMA EditStep ==
  ASSUME Inv, UNCHANGED <<wiki, checkedIn, lock, pc, job, replaced>>,
         IsSurface(pages'), IsMoves(renames'), NoChain',
         pending' \in BOOLEAN, events' \in Nat
  PROVE  Inv'
<1> USE DEF wiki
<1>1. FilesTyped'
  BY DEF Inv, Files, FilesTyped
<1>2. FilesSound'
  BY DEF Inv, Files, FilesSound
<1>3. AuthorityNotBehind'
  BY DEF Inv, Files, AuthorityNotBehind, Governed, Projections
<1>4. Commands'
  BY CommandsSame DEF Inv
<1> QED
  BY <1>1, <1>2, <1>3, <1>4 DEF Inv, Files

LEMMA FilesFacts ==
  ASSUME Inv
  PROVE  /\ IsSurface(pages) /\ IsMoves(renames) /\ NoChain
         /\ pending \in BOOLEAN /\ events \in Nat
BY DEF Inv, Files, FilesTyped

LEMMA WritePageStep ==
  ASSUME Inv, NEW p \in Places, NEW c \in Scopes, WritePage(p, c)
  PROVE  Inv'
<1> DEFINE new == [q \in {p} |-> c]
<1>1. /\ pages' = Over(new, pages) /\ events' = events + 1
      /\ UNCHANGED <<wiki, pending, renames, checkedIn, lock, pc, job, replaced>>
  BY DEF WritePage, Spend
<1>2. new \in [{p} -> Scopes]
  OBVIOUS
<1>3. IsSurface(pages')
  <2>1. pages \in [DOMAIN pages -> Scopes] /\ DOMAIN pages \subseteq Places
    BY FilesFacts DEF IsSurface
  <2> HIDE DEF new
  <2>2. pages' \in [{p} \cup DOMAIN pages -> Scopes]
    BY <1>1, <1>2, <2>1, OverTyped
  <2> QED
    BY <2>1, <2>2 DEF IsSurface
<1>4. events' \in Nat /\ NoChain'
  BY <1>1, FilesFacts DEF NoChain
<1> HIDE DEF new
<1> QED
  BY <1>1, <1>3, <1>4, FilesFacts, EditStep

LEMMA DeletePageStep == ASSUME Inv, NEW p \in Places, DeletePage(p) PROVE Inv'
<1>1. /\ pages' = [q \in DOMAIN pages \ {p} |-> pages[q]] /\ events' = events + 1
      /\ UNCHANGED <<wiki, pending, renames, checkedIn, lock, pc, job, replaced>>
  BY DEF DeletePage, Spend
<1>2. IsSurface(pages')
  BY <1>1, FilesFacts DEF IsSurface
<1>3. events' \in Nat /\ NoChain'
  BY <1>1, FilesFacts DEF NoChain
<1> QED
  BY <1>1, <1>2, <1>3, FilesFacts, EditStep

LEMMA RenameSourceStep ==
  ASSUME Inv, NEW p \in OwnedPages, NEW q \in OwnedPages, RenameSource(p, q)
  PROVE  Inv'
<1> DEFINE new == [r \in {p} |-> q]
<1>1. /\ p \in DOMAIN pages /\ Free(q)
      /\ \A r \in DOMAIN renames : p # r /\ p # renames[r]
      /\ renames' = Over(new, renames) /\ events' = events + 1
      /\ UNCHANGED <<wiki, pages, pending, checkedIn, lock, pc, job, replaced>>
  BY DEF RenameSource, Spend
<1>2. p \in Places /\ q \in Places
  BY GovernanceAssumption
<1>3. new \in [{p} -> Places]
  BY <1>2
<1>4. IsMoves(renames')
  <2>1. renames \in [DOMAIN renames -> Places] /\ DOMAIN renames \subseteq Places
    BY FilesFacts DEF IsMoves
  <2> HIDE DEF new
  <2>2. renames' \in [{p} \cup DOMAIN renames -> Places]
    BY <1>1, <1>3, <2>1, OverTyped
  <2> QED
    BY <1>2, <2>1, <2>2 DEF IsMoves
<1>5. NoChain'
  <2>1. /\ DOMAIN renames' = {p} \cup DOMAIN renames
        /\ renames'[p] = q
        /\ \A r \in DOMAIN renames : renames'[r] = renames[r]
    BY <1>1 DEF Over
  <2>2. /\ \A r \in DOMAIN renames : q # r /\ q # renames[r]
        /\ p # q
    BY <1>1 DEF Free
  <2> QED
    BY <1>1, <2>1, <2>2, FilesFacts DEF NoChain
<1>6. events' \in Nat
  BY <1>1, FilesFacts
<1>7. IsSurface(pages') /\ pending' \in BOOLEAN
  BY <1>1, FilesFacts
<1> HIDE DEF new
<1> QED
  BY <1>1, <1>4, <1>5, <1>6, <1>7, EditStep

LEMMA ResolveStep == ASSUME Inv, Resolve PROVE Inv'
<1> DEFINE back == [q \in {renames[r] : r \in Occupied} |-> CHOOSE r \in Occupied : renames[r] = q]
<1>1. /\ pending' = FALSE /\ pages' \in {pages, Renamed(pages, back)}
      /\ UNCHANGED <<wiki, renames, checkedIn, lock, pc, job, events, replaced>>
  BY DEF Resolve
<1>2. IsMoves(back)
  <2>1. \A q \in {renames[r] : r \in Occupied} :
          (CHOOSE r \in Occupied : renames[r] = q) \in Occupied
    OBVIOUS
  <2>2. Occupied \subseteq DOMAIN renames
    BY DEF Occupied
  <2>3. \A r \in Occupied : r \in Places /\ renames[r] \in Places
    BY <2>2, FilesFacts DEF IsMoves
  <2> QED
    BY <2>1, <2>3 DEF IsMoves
<1> HIDE DEF back
<1>3. IsSurface(pages')
  BY <1>1, <1>2, FilesFacts, RenamedSurface
<1>4. NoChain' /\ events' \in Nat /\ IsMoves(renames') /\ pending' \in BOOLEAN
  BY <1>1, FilesFacts DEF NoChain
<1> QED
  BY <1>1, <1>3, <1>4, EditStep

LEMMA CheckInStep == ASSUME Inv, CheckIn PROVE Inv'
<1>1. /\ checkedIn' = ledger
      /\ UNCHANGED <<wiki, pages, pending, renames, lock, pc, job, events, replaced>>
  BY DEF CheckIn
<1> USE DEF wiki
<1>2. FilesTyped'
  BY <1>1 DEF Inv, Files, FilesTyped
<1>3. FilesSound' /\ NoChain'
  BY <1>1 DEF Inv, Files, FilesSound, NoChain
<1>4. AuthorityNotBehind'
  BY <1>1 DEF Inv, Files, AuthorityNotBehind, Governed, Projections
<1>5. Commands'
  BY <1>1, CommandsSame DEF Inv
<1> QED
  BY <1>2, <1>3, <1>4, <1>5 DEF Inv, Files

\* A ledger that anybody puts there, if it is one, passes validation.
LEMMA ReplaceStep ==
  ASSUME Inv, NEW L, NoneOrLedger(L), NoneOrValid(L), ReplaceLedger(L)
  PROVE  Inv'
<1>1. /\ ledger' = L /\ replaced' = TRUE /\ events' = events + 1
      /\ UNCHANGED <<index, manifest, users, lock, pc, job>>
  BY DEF ReplaceLedger, Spend
<1> USE DEF users
<1>2. FilesTyped'
  BY <1>1 DEF Inv, Files, FilesTyped
<1>3. FilesSound' /\ NoChain'
  BY <1>1 DEF Inv, Files, FilesSound, NoChain
<1>4. AuthorityNotBehind'
  BY <1>1 DEF AuthorityNotBehind
<1>5. Commands'
  BY <1>1, CommandsSame DEF Inv
<1> QED
  BY <1>2, <1>3, <1>4, <1>5 DEF Inv, Files

LEMMA LedgerByHandStep == ASSUME Inv, LedgerByHand PROVE Inv'
<1>1. CASE ReplaceLedger(NoLedger)
  BY <1>1, ReplaceStep DEF NoneOrLedger, NoneOrValid
<1>2. CASE ReplaceLedger(checkedIn)
  BY <1>2, ReplaceStep DEF Inv, Files, FilesTyped, FilesSound
<1>3. ASSUME NEW b \in Bundles, NEW L \in Reconcile(Empty(b), DOMAIN pages, <<>>), ReplaceLedger(L)
      PROVE  Inv'
  <2>1. DOMAIN pages \subseteq Places
    BY FilesFacts DEF IsSurface
  <2>2. IsLedger(L) /\ Valid(L)
    BY <2>1, EmptyLedger, Nothing, ReconcileKeeps
  <2> QED
    BY <1>3, <2>2, ReplaceStep DEF NoneOrLedger, NoneOrValid
<1> QED
  BY <1>1, <1>2, <1>3 DEF LedgerByHand

LEMMA DamageIndexStep == ASSUME Inv, DamageIndex PROVE Inv'
<1>1. /\ index' = Damaged /\ events' = events + 1
      /\ UNCHANGED <<ledger, manifest, users, lock, pc, job, replaced>>
  BY DEF DamageIndex, Spend
<1> USE DEF users
<1>2. FilesTyped'
  BY <1>1 DEF Inv, Files, FilesTyped
<1>3. FilesSound' /\ NoChain'
  BY <1>1 DEF Inv, Files, FilesSound, NoChain
<1>4. AuthorityNotBehind'
  BY <1>1 DEF Inv, Files, AuthorityNotBehind, Governed, Projections
<1>5. Commands'
  BY <1>1, CommandsSame DEF Inv
<1> QED
  BY <1>2, <1>3, <1>4, <1>5 DEF Inv, Files

LEMMA UserStep == ASSUME Inv, User PROVE Inv'
<1>1. ASSUME NEW p \in OwnedPages, NEW q \in OwnedPages, RenameSource(p, q) PROVE Inv'
  BY <1>1, RenameSourceStep
<1> QED
  BY <1>1, WritePageStep, DeletePageStep, ResolveStep, CheckInStep, LedgerByHandStep,
     DamageIndexStep DEF User

LEMMA StutterStep == ASSUME Inv, UNCHANGED vars PROVE Inv'
<1>1. UNCHANGED <<wiki, users, replaced, lock, pc, job, events>>
  BY DEF vars
<1>2. Commands'
  BY <1>1, CommandsSame DEF Inv, wiki
<1>3. events' \in Nat
  BY <1>1, FilesFacts
<1> QED
  BY <1>1, <1>2, <1>3, ReadingStep

LEMMA Invariance == Spec => []Inv
<1>1. Init => Inv
  BY InvInit
<1>2. Inv /\ [Next]_vars => Inv'
  BY UserStep, PublishStep, CommandsStep, KillStep, StutterStep DEF Next
<1> QED
  BY <1>1, <1>2, PTL DEF Spec

----------------------------------------------------------------------------
(* Theorems.                                                                *)

\* Ledger, index, manifest, pages, renames and the jobs of the commands keep
\* their types, whatever commands and users do.
THEOREM TypeCorrect == Spec => []TypeOK
<1>1. Inv => TypeOK
  BY DEF Inv, Files, Commands, TypeOK
<1> QED
  BY <1>1, Invariance, PTL

\* However a command is killed, the authority is never behind its projection:
\* unless somebody replaced the ledger file, it records all that index or
\* manifest were made from.
THEOREM AuthorityIsNotBehind == Spec => []AuthorityNotBehind
<1>1. Inv => AuthorityNotBehind
  BY DEF Inv, Files
<1> QED
  BY <1>1, Invariance, PTL

\* A review that readers are told is valid is about the page that its concept
\* has now: validation leaves a place one owner, present or past.
THEOREM ReviewsStayWithConcepts == Spec => []ReviewsOfTheirConcept
<1>1. Inv => ReviewsOfTheirConcept
  <2> SUFFICES ASSUME Inv, NEW x \in Governed, NEW r \in x.gov.reviews, ReviewValid(x.gov, x.on, r)
               PROVE  x.gov.at[r.uid].locator = r.at
    BY DEF ReviewsOfTheirConcept
  <2>1. Valid(x.gov) /\ Projectable(x.gov, DOMAIN x.on)
    BY DEF Governed, Projections, Inv, Files, FilesSound, Sound
  <2>2. r.at \in DOMAIN x.on
    BY DEF ReviewValid
  <2>3. PICK u \in Uids(x.gov) : x.gov.at[u] = Page(r.at)
    BY <2>1, <2>2 DEF Projectable, Located
  <2>4. <<"locator", r.at>> \in Owned(x.gov, r.uid)
    BY <2>1 DEF Valid
  <2> QED
    BY <2>1, <2>3, <2>4, PlaceHasOneOwner
<1> QED
  BY <1>1, Invariance, PTL

\* A publication that was interrupted after it saved the ledger can be run
\* again: the same renames reconcile to the same ledger.
THEOREM ReconciliationSettles == Spec => []ReconcileSettles
<1>1. Inv => ReconcileSettles
  <2> DEFINE on == DOMAIN Renamed(pages, renames)
  <2> SUFFICES ASSUME Inv, ledger # NoLedger, NEW N \in Reconcile(ledger, on, renames)
               PROVE  Reconcile(N, on, renames) = {N}
    BY DEF ReconcileSettles
  <2>1. IsLedger(ledger) /\ IsSurface(pages) /\ IsMoves(renames) /\ NoChain
    BY DEF Inv, Files, FilesTyped, NoneOrLedger
  <2>2. /\ IsSurface(Renamed(pages, renames))
        /\ on = {renames[p] : p \in DOMAIN renames \cap DOMAIN pages} \cup (DOMAIN pages \ DOMAIN renames)
    BY <2>1, RenamedSurface
  <2>3. on \subseteq Places
    BY <2>2 DEF IsSurface
  <2> HIDE DEF on
  <2>4. on \cap DOMAIN renames = {}
    BY <2>1, <2>2 DEF NoChain
  <2> QED
    BY <2>1, <2>3, <2>4, ReconcileAgain
<1> QED
  BY <1>1, Invariance, PTL

\* Whatever a command saves records everything that the ledger it replaces
\* recorded: allocations, past and present coordinates, events, reviews.
THEOREM IdentitiesAreKept == Spec => IdentitiesKept
<1>1. Inv /\ [Next]_vars =>
        [\A p \in Procs : Save(p) /\ ledger # NoLedger => Keeps(ledger, ledger')]_vars
  BY SaveKeeps
<1> QED
  BY <1>1, Invariance, PTL DEF Spec, IdentitiesKept

\* What one publication may do to the identities that the manifest committed.
LEMMA ManifestStands ==
  ASSUME Inv, NEW p \in Procs, CommitManifest(p), manifest.gov # NoLedger
  PROVE  /\ manifest'.gov # NoLedger
         /\ \A q \in Procs : pc[q] = "manifest" /\ pc'[q] = "idle" /\ job[q].index = job[q].manifest =>
              manifest'.gov.bundle = manifest.gov.bundle
         /\ ~replaced => \A q \in DOMAIN manifest.on \cap DOMAIN manifest'.on :
              Located(manifest.gov, q) = Located(manifest'.gov, q)
<1>1. /\ pc[p] = "manifest" /\ manifest = job[p].manifest /\ manifest' = Planned(p)
      /\ pc' = [pc EXCEPT ![p] = "idle"]
  BY DEF CommitManifest, Leave, Goto
<1>2. Fits("manifest", job[p])
  BY <1>1 DEF Inv, Commands, JobsFit
<1>3. /\ IsProjection(Planned(p)) /\ Sound(Planned(p)) /\ Planned(p).gov = job[p].next
      /\ ~replaced => ledger = Planned(p).gov
  BY <1>1, PlannedSound
<1>4. manifest'.gov # NoLedger
  BY <1>1, <1>2, <1>3 DEF Fits
<1>5. ASSUME NEW q \in Procs, pc[q] = "manifest", pc'[q] = "idle", job[q].index = job[q].manifest
      PROVE  manifest'.gov.bundle = manifest.gov.bundle
  <2>1. q = p
    BY <1>1, <1>5 DEF Inv, Commands, CommandsTyped
  <2> QED
    BY <1>1, <1>2, <1>3, <1>5, <2>1 DEF Fits
<1>6. ASSUME ~replaced, NEW q \in DOMAIN manifest.on \cap DOMAIN manifest'.on
      PROVE  Located(manifest.gov, q) = Located(manifest'.gov, q)
  <2>1. manifest \in Governed
    BY DEF Governed, Projections
  <2>2. Keeps(manifest.gov, manifest'.gov)
    BY <1>1, <1>3, <1>6, <2>1 DEF Inv, Files, AuthorityNotBehind
  <2>3. Valid(manifest.gov) /\ Located(manifest.gov, q) # {}
    BY DEF Inv, Files, FilesSound, Sound, Projectable
  <2>4. Valid(manifest'.gov) /\ Located(manifest'.gov, q) # {}
    BY <1>1, <1>3, <1>4 DEF Sound, Projectable
  <2> QED
    BY <2>2, <2>3, <2>4, LocatedKept
<1> QED
  BY <1>4, <1>5, <1>6

\* Once governed, always governed: no publication reassigns an identity.
THEOREM IdentitiesStand == Spec => IdentityStands
<1>1. Inv /\ [Next]_vars => manifest' = manifest \/ \E p \in Procs : CommitManifest(p)
  <2>1. ASSUME NEW p \in Procs, Publish(p)
        PROVE  manifest' = manifest \/ CommitManifest(p)
    BY <2>1 DEF Publish, Start, WritePages, FinalizeUngoverned, FinalizeGoverned, Save,
                CommitIndex, Refused, wiki
  <2>2. ASSUME NEW p \in Procs, Command(p) \/ Kill(p)
        PROVE  manifest' = manifest
    BY <2>2 DEF Command, InitLedger, Mutate, Move, Prepare, Kill, wiki
  <2>3. ASSUME User PROVE manifest' = manifest
    BY <2>3 DEF User, WritePage, DeletePage, RenameSource, Resolve, CheckIn, LedgerByHand,
                ReplaceLedger, DamageIndex, wiki
  <2>4. ASSUME UNCHANGED vars PROVE manifest' = manifest
    BY <2>4 DEF vars, wiki
  <2> QED
    BY <2>1, <2>2, <2>3, <2>4 DEF Next
<1>2. Inv /\ [Next]_vars =>
        (manifest' # manifest /\ manifest.gov # NoLedger =>
           /\ manifest'.gov # NoLedger
           /\ \A p \in Procs :
                pc[p] = "manifest" /\ pc'[p] = "idle" /\ job[p].index = job[p].manifest =>
                  manifest'.gov.bundle = manifest.gov.bundle
           /\ ~replaced =>
                \A q \in DOMAIN manifest.on \cap DOMAIN manifest'.on :
                   Located(manifest.gov, q) = Located(manifest'.gov, q))
  BY <1>1, ManifestStands
<1> QED
  BY <1>2, Invariance, PTL DEF Spec, IdentityStands

=============================================================================
