------------------------ MODULE SysrootMerge_proofs ------------------------
(***************************************************************************)
(* Proofs about merging payloads into the sysroot, for any number of names *)
(* and entries, any payloads, links and orders of os.listdir, and any      *)
(* number of installs that are cut short.                                  *)
(***************************************************************************)
EXTENDS SysrootMerge, FiniteSetTheorems, WellFoundedInduction, TLAPS

-----------------------------------------------------------------------------
(***************************************************************************)
(* Paths and nodes.                                                        *)
(***************************************************************************)

\* A path has one name or two, and is nothing else.
LEMMA PathFacts ==
    /\ \A t \in Top : <<t>> \in Path /\ Len(<<t>>) = 1 /\ <<t>>[1] = t
    /\ \A t \in Top, c \in Child :
          /\ <<t, c>> \in Path /\ <<t, c>> \in Top \X Child /\ Len(<<t, c>>) = 2
          /\ <<t, c>>[1] = t /\ <<t, c>>[2] = c
    /\ \A p \in Path : (\E t \in Top : p = <<t>>) \/ (\E t \in Top, c \in Child : p = <<t, c>>)
    /\ \A p \in Top \X Child : p[1] \in Top /\ p[2] \in Child /\ p = <<p[1], p[2]>>
    /\ None \notin Path /\ None \notin Top
BY NodeAssumption DEF Path

\* Different paths are different.
LEMMA PathsDiffer ==
    /\ \A t, u \in Top : <<t>> = <<u>> => t = u
    /\ \A t, u \in Top, c \in Child : <<t, c>> # <<u>>
    /\ \A t, u \in Top, c, d \in Child : <<t, c>> = <<u, d>> => t = u /\ c = d
OBVIOUS

\* So are different kinds of nodes.
LEMMA NodeFacts ==
    /\ Dir # None /\ ~IsLink(None) /\ ~IsLink(Dir)
    /\ \A n \in FileNode : n # None /\ n # Dir /\ ~IsLink(n)
    /\ \A p \in Path : Link(p) # None /\ Link(p) # Dir /\ IsLink(Link(p)) /\ Link(p)[2] = p
<1>1. \A o : File(o) # Dir /\ ~IsLink(File(o))
  BY DEF File, Dir, IsLink
<1>2. \A p : Link(p) # Dir /\ Link(p)[1] = "link" /\ Link(p)[2] = p
  BY DEF Link, Dir
<1>3. Dir # None /\ (\A n \in FileNode : n # None) /\ (\A p \in Path : Link(p) # None)
  BY NodeAssumption
<1>4. ~IsLink(None) /\ ~IsLink(Dir)
  BY DEF IsLink, Dir
<1>5. \A n \in FileNode : n # Dir /\ ~IsLink(n)
  BY <1>1 DEF FileNode
<1>6. \A p \in Path : Link(p) # Dir /\ IsLink(Link(p)) /\ Link(p)[2] = p
  BY <1>2, <1>3 DEF IsLink
<1> QED BY <1>3, <1>4, <1>5, <1>6

LEMMA TreeFacts ==
    ASSUME NEW tr, IsTree(tr)
    PROVE  /\ tr \in [Path -> TopNode \cup LeafNode]
           /\ \A t \in Top : /\ tr[<<t>>] \in TopNode
                             /\ IsLink(tr[<<t>>]) => \E u \in Top : tr[<<t>>] = Link(<<u>>)
           /\ \A t \in Top, c \in Child :
                 /\ tr[<<t, c>>] \in LeafNode /\ tr[<<t, c>>] # Dir
                 /\ tr[<<t, c>>] # None => tr[<<t>>] = Dir
                 /\ IsLink(tr[<<t, c>>]) => \E p \in Top \X Child : tr[<<t, c>>] = Link(p)
<1>1. \A t \in Top, c \in Child : <<t, c>> \in Top \X Child /\ <<t, c>>[1] = t
  BY PathFacts
<1>2. \A t \in Top : tr[<<t>>] \in TopNode
  BY DEF IsTree
<1>3. \A t \in Top, c \in Child : tr[<<t, c>>] \in LeafNode /\ (tr[<<t, c>>] # None => tr[<<t>>] = Dir)
  BY <1>1 DEF IsTree
<1>4. \A n \in TopNode : IsLink(n) => \E u \in Top : n = Link(<<u>>)
  BY NodeFacts DEF TopNode
<1>5. \A n \in LeafNode : n # Dir /\ (IsLink(n) => \E p \in Top \X Child : n = Link(p))
  <2>1. \A p \in Top \X Child : Link(p) # Dir
    BY NodeFacts DEF Path
  <2> QED BY <2>1, NodeFacts DEF LeafNode
<1>6. tr \in [Path -> TopNode \cup LeafNode]
  BY DEF IsTree
<1> QED BY <1>2, <1>3, <1>4, <1>5, <1>6

LEMMA LeafLinks ==
    ASSUME NEW tr, IsTree(tr), NEW p \in Top \X Child, IsLink(tr[p])
    PROVE  \E q \in Top \X Child : tr[p] = Link(q)
<1>1. tr[p] \in LeafNode
  BY DEF IsTree
<1> QED BY <1>1, NodeFacts DEF LeafNode

-----------------------------------------------------------------------------
(***************************************************************************)
(* Following links.  The induction over the number of links is by the      *)
(* least number for which the claim fails.                                 *)
(***************************************************************************)

LEMMA NumberInduction ==
    ASSUME NEW n \in Nat, NEW S, 0 \in S,
           \A i \in 1 .. n : i - 1 \in S => i \in S
    PROVE  \A i \in 0 .. n : i \in S
<1> DEFINE Bad == {i \in Nat : i <= n /\ i \notin S}
<1> SUFFICES ASSUME Bad # {} PROVE FALSE
  OBVIOUS
<1>1. PICK x \in Bad : \A y \in Bad : ~(<<y, x>> \in OpToRel(<, Nat))
  <2> HIDE DEF Bad
  <2>1. Bad \subseteq Nat
    BY DEF Bad
  <2> QED BY <2>1, NatLessThanWellFounded, WFMin
<1>2. x # 0 /\ x \in Nat /\ x <= n
  OBVIOUS
<1>3. x - 1 \in Nat /\ x - 1 < x /\ x \in 1 .. n
  BY <1>2
<1>4. x - 1 \in Bad
  BY <1>2, <1>3
<1> QED BY <1>1, <1>2, <1>3, <1>4 DEF OpToRel

\* Iterates is what its recursive definition says.
LEMMA IteratesUnfolds ==
    ASSUME NEW S, NEW f \in [S -> S], NEW x \in S, NEW n \in Nat
    PROVE  Iterates(f, x, n) = [i \in 0 .. n |-> IF i = 0 THEN x ELSE f[Iterates(f, x, n)[i - 1]]]
<1> DEFINE Fits(g, m) == g \in [0 .. m -> S] /\ g[0] = x /\ \A i \in 1 .. m : g[i] = f[g[i - 1]]
           Good == {m \in Nat : \E g : Fits(g, m)}
<1>1. 0 \in Good
  <2>1. Fits([i \in 0 .. 0 |-> x], 0)
    OBVIOUS
  <2> QED BY <2>1
<1>2. ASSUME NEW m \in 1 .. n, m - 1 \in Good
      PROVE  m \in Good
  <2>1. PICK g : Fits(g, m - 1)
    BY <1>2
  <2> DEFINE h == [i \in 0 .. m |-> IF i = m THEN f[g[m - 1]] ELSE g[i]]
  <2>2. g[m - 1] \in S
    BY <2>1
  <2>3. h \in [0 .. m -> S] /\ h[0] = x
    BY <2>1, <2>2
  <2>4. ASSUME NEW i \in 1 .. m PROVE h[i] = f[h[i - 1]]
    BY <2>1, <2>4
  <2>5. Fits(h, m)
    BY <2>3, <2>4
  <2> HIDE DEF h, Fits
  <2> QED BY <2>5
<1>3. n \in Good
  <2> HIDE DEF Good
  <2>1. \A i \in 0 .. n : i \in Good
    BY <1>1, <1>2, NumberInduction
  <2> QED BY <2>1
<1>4. PICK g : Fits(g, n)
  BY <1>3
<1> DEFINE F(it) == [i \in 0 .. n |-> IF i = 0 THEN x ELSE f[it[i - 1]]]
<1>5. g = F(g)
  <2>1. \A i \in 0 .. n : g[i] = IF i = 0 THEN x ELSE f[g[i - 1]]
    BY <1>4
  <2> QED BY <1>4, <2>1
<1>6. Iterates(f, x, n) = CHOOSE it : it = F(it)
  BY DEF Iterates
<1> HIDE DEF F
<1>7. Iterates(f, x, n) = F(Iterates(f, x, n))
  BY <1>5, <1>6, Zenon
<1> QED BY <1>7 DEF F

LEMMA IteratesStep ==
    ASSUME NEW S, NEW f \in [S -> S], NEW x \in S, NEW n \in Nat
    PROVE  /\ Iterates(f, x, n)[0] = x
           /\ \A i \in 1 .. n : Iterates(f, x, n)[i] = f[Iterates(f, x, n)[i - 1]]
<1> DEFINE it == Iterates(f, x, n)
<1>1. it = [i \in 0 .. n |-> IF i = 0 THEN x ELSE f[it[i - 1]]]
  BY IteratesUnfolds
<1> HIDE DEF it
<1>2. it[0] = x /\ \A i \in 1 .. n : it[i] = f[it[i - 1]]
  BY <1>1
<1> QED BY <1>2 DEF it

\* The iterates stay in the domain.
LEMMA IteratesType ==
    ASSUME NEW S, NEW f \in [S -> S], NEW x \in S, NEW n \in Nat
    PROVE  Iterates(f, x, n) \in [0 .. n -> S]
<1> DEFINE it == Iterates(f, x, n)
           In == {i \in 0 .. n : it[i] \in S}
<1>1. it = [i \in 0 .. n |-> IF i = 0 THEN x ELSE f[it[i - 1]]]
  BY IteratesUnfolds
<1> HIDE DEF it
<1>2. \A i \in 0 .. n : i \in In
  <2>1. 0 \in In
    BY <1>1
  <2>2. \A i \in 1 .. n : i - 1 \in In => i \in In
    BY <1>1
  <2> HIDE DEF In
  <2> QED BY <2>1, <2>2, NumberInduction
<1>3. it \in [0 .. n -> S]
  BY <1>1, <1>2
<1> QED BY <1>3 DEF it

\* The names on the way from a name.
LEMMA WayFacts ==
    ASSUME NEW tr, IsTree(tr), NEW t \in Top
    PROVE  /\ Cardinality(Top) \in Nat /\ DOMAIN Way(tr, t) = 0 .. Cardinality(Top)
           /\ \A i \in 0 .. Cardinality(Top) : Way(tr, t)[i] \in Top
           /\ Way(tr, t)[0] = t
           /\ \A i \in 1 .. Cardinality(Top) : Way(tr, t)[i] = NextName(tr)[Way(tr, t)[i - 1]]
           /\ EndOfWay(tr, t) \in Top
<1>1. Cardinality(Top) \in Nat
  BY NodeAssumption, FS_CardinalityType
<1>2. NextName(tr) \in [Top -> Top]
  <2>1. ASSUME NEW u \in Top, IsLink(tr[<<u>>]) PROVE tr[<<u>>][2][1] \in Top
    <3>1. PICK v \in Top : tr[<<u>>] = Link(<<v>>)
      BY <2>1, TreeFacts
    <3>2. Link(<<v>>)[2] = <<v>> /\ <<v>>[1] = v
      BY NodeFacts, PathFacts
    <3> QED BY <3>1, <3>2
  <2> QED BY <2>1 DEF NextName
<1>3. /\ Way(tr, t) \in [0 .. Cardinality(Top) -> Top] /\ Way(tr, t)[0] = t
      /\ \A i \in 1 .. Cardinality(Top) : Way(tr, t)[i] = NextName(tr)[Way(tr, t)[i - 1]]
  <2> DEFINE f == NextName(tr)
             n == Cardinality(Top)
  <2>1. Way(tr, t) = Iterates(f, t, n)
    BY DEF Way
  <2>2. n \in Nat /\ f \in [Top -> Top] /\ t \in Top
    BY <1>1, <1>2
  <2> HIDE DEF f, n
  <2>3. Iterates(f, t, n) \in [0 .. n -> Top]
    BY <2>2, IteratesType
  <2>4. Iterates(f, t, n)[0] = t
    BY <2>2, IteratesStep
  <2>5. ASSUME NEW i \in 1 .. n PROVE Iterates(f, t, n)[i] = f[Iterates(f, t, n)[i - 1]]
    BY <2>2, IteratesStep
  <2> QED BY <2>1, <2>3, <2>4, <2>5 DEF f, n
<1>4. EndOfWay(tr, t) \in Top
  BY <1>1, <1>3 DEF EndOfWay
<1> QED BY <1>1, <1>3, <1>4

\* What a name leads to is a directory or nothing.
LEMMA DirOfFacts ==
    ASSUME NEW tr, IsTree(tr), NEW t \in Top
    PROVE  /\ DirOf(tr, t) \in Top \cup {None}
           /\ DirOf(tr, t) # None => DirOf(tr, t) \in Top /\ tr[<<DirOf(tr, t)>>] = Dir
BY WayFacts DEF DirOf

\* What is not a link leads to itself.
LEMMA WayStays ==
    ASSUME NEW tr, IsTree(tr), NEW t \in Top, ~IsLink(tr[<<t>>])
    PROVE  DirOf(tr, t) = IF tr[<<t>>] = Dir THEN t ELSE None
<1> DEFINE n == Cardinality(Top)
           S == {i \in 0 .. n : Way(tr, t)[i] = t}
<1>1. n \in Nat /\ 0 \in S
  BY WayFacts
<1>2. ASSUME NEW i \in 1 .. n, i - 1 \in S PROVE i \in S
  <2>1. Way(tr, t)[i] = NextName(tr)[t] /\ i \in 0 .. n
    BY <1>1, <1>2, WayFacts
  <2> QED BY <2>1 DEF NextName
<1>3. \A i \in 0 .. n : i \in S
  <2> HIDE DEF n, S
  <2> QED BY <1>1, <1>2, NumberInduction
<1>4. EndOfWay(tr, t) = t
  BY <1>1, <1>3 DEF EndOfWay
<1> QED BY <1>4 DEF DirOf

\* Two trees that agree on the names on a way agree on where it leads.
LEMMA WayAgrees ==
    ASSUME NEW tr, IsTree(tr), NEW new, IsTree(new), NEW t \in Top,
           \A i \in DOMAIN Way(tr, t) : new[<<Way(tr, t)[i]>>] = tr[<<Way(tr, t)[i]>>]
    PROVE  DirOf(new, t) = DirOf(tr, t)
<1> DEFINE n == Cardinality(Top)
           S == {i \in 0 .. n : Way(new, t)[i] = Way(tr, t)[i]}
<1>1. n \in Nat /\ 0 \in S
  BY WayFacts
<1>2. ASSUME NEW i \in 1 .. n, i - 1 \in S PROVE i \in S
  <2> DEFINE u == Way(tr, t)[i - 1]
  <2>1. i - 1 \in 0 .. n /\ i \in 0 .. n /\ u \in Top
    BY <1>1, WayFacts
  <2>2. Way(new, t)[i] = NextName(new)[u] /\ Way(tr, t)[i] = NextName(tr)[u]
    BY <1>2, WayFacts
  <2>3. new[<<u>>] = tr[<<u>>]
    BY <2>1, WayFacts
  <2>4. NextName(new)[u] = NextName(tr)[u]
    BY <2>1, <2>3 DEF NextName
  <2> QED BY <2>1, <2>2, <2>4
<1>3. \A i \in 0 .. n : i \in S
  <2> HIDE DEF n, S
  <2> QED BY <1>1, <1>2, NumberInduction
<1>4. EndOfWay(new, t) = EndOfWay(tr, t) /\ new[<<EndOfWay(tr, t)>>] = tr[<<EndOfWay(tr, t)>>]
  BY <1>1, <1>3, WayFacts DEF EndOfWay
<1> QED BY <1>4 DEF DirOf

LEMMA SameNames ==
    ASSUME NEW tr, IsTree(tr), NEW new, IsTree(new),
           \A t \in Top : new[<<t>>] = tr[<<t>>]
    PROVE  \A t \in Top : DirOf(new, t) = DirOf(tr, t)
<1> SUFFICES ASSUME NEW t \in Top PROVE DirOf(new, t) = DirOf(tr, t)
  OBVIOUS
<1>1. \A i \in DOMAIN Way(tr, t) : Way(tr, t)[i] \in Top
  BY WayFacts
<1> QED BY <1>1, WayAgrees

\* The entry that a path names is a path in a directory that is there.
LEMMA RealFacts ==
    ASSUME NEW tr, IsTree(tr)
    PROVE  /\ \A t \in Top : Real(tr, <<t>>) = <<t>>
           /\ \A t \in Top, c \in Child :
                 /\ Real(tr, <<t, c>>) = <<DirOf(tr, t), c>>
                 /\ DirOf(tr, t) # None =>
                       Real(tr, <<t, c>>) \in Top \X Child /\ tr[<<DirOf(tr, t)>>] = Dir
<1>1. \A t \in Top, c \in Child : Real(tr, <<t, c>>) = <<DirOf(tr, t), c>>
  BY PathFacts DEF Real
<1>2. \A t \in Top, c \in Child :
         DirOf(tr, t) # None => <<DirOf(tr, t), c>> \in Top \X Child /\ tr[<<DirOf(tr, t)>>] = Dir
  BY DirOfFacts
<1> QED BY <1>1, <1>2, PathFacts DEF Real

\* A copy ends up in a directory that is there, if anywhere.
LEMMA WrittenFacts ==
    ASSUME NEW tr, IsTree(tr), NEW p \in Top \X Child, Written(tr, p) # None
    PROVE  Written(tr, p) \in Top \X Child /\ tr[<<Written(tr, p)[1]>>] = Dir
<1> DEFINE S == (Top \X Child) \cup {None}
           n == Cardinality(Top \X Child)
           last == Iterates(NextPath(tr), p, n)[n]
<1>1. n \in Nat
  BY NodeAssumption, FS_Product, FS_CardinalityType
<1>2. ASSUME NEW q \in Top \X Child, DirOf(tr, q[1]) # None
      PROVE  Real(tr, q) \in Top \X Child /\ Real(tr, q)[1] = DirOf(tr, q[1])
             /\ tr[<<DirOf(tr, q[1])>>] = Dir
  <2>1. q[1] \in Top /\ q[2] \in Child /\ q = <<q[1], q[2]>>
    BY PathFacts
  <2>2. Real(tr, q) = <<DirOf(tr, q[1]), q[2]>> /\ Real(tr, q) \in Top \X Child
        /\ tr[<<DirOf(tr, q[1])>>] = Dir
    BY <1>2, <2>1, RealFacts
  <2> QED BY <2>2
<1>3. NextPath(tr) \in [S -> S]
  <2>1. ASSUME NEW q \in Top \X Child, DirOf(tr, q[1]) # None, IsLink(tr[Real(tr, q)])
        PROVE  tr[Real(tr, q)][2] \in Top \X Child
    <3>1. Real(tr, q) \in Top \X Child
      BY <1>2, <2>1
    <3>2. PICK r \in Top \X Child : tr[Real(tr, q)] = Link(r)
      BY <2>1, <3>1, LeafLinks
    <3>3. r \in Path
      BY DEF Path
    <3> QED BY <3>2, <3>3, NodeFacts
  <2> QED BY <1>2, <2>1 DEF NextPath
<1>4. last \in S
  <2> HIDE DEF S, n
  <2>1. p \in S
    BY DEF S
  <2>2. Iterates(NextPath(tr), p, n) \in [0 .. n -> S]
    BY <1>1, <1>3, <2>1, IteratesType
  <2> QED BY <1>1, <2>2
<1>5. last # None /\ DirOf(tr, last[1]) # None /\ Written(tr, p) = Real(tr, last)
  BY DEF Written
<1> HIDE DEF last
<1> QED BY <1>2, <1>4, <1>5

-----------------------------------------------------------------------------
(***************************************************************************)
(* Changing a tree.                                                        *)
(***************************************************************************)

Set(tr, p, n) == [tr EXCEPT ![p] = n]

\* An entry of the sysroot where there was none.
LEMMA SetTop ==
    ASSUME NEW tr, IsTree(tr), NEW t \in Top, tr[<<t>>] = None, NEW n \in TopNode
    PROVE  /\ IsTree(Set(tr, <<t>>, n))
           /\ Set(tr, <<t>>, n)[<<t>>] = n
           /\ \A q \in Path : q # <<t>> => Set(tr, <<t>>, n)[q] = tr[q]
<1> DEFINE new == Set(tr, <<t>>, n)
<1>1. tr \in [Path -> TopNode \cup LeafNode] /\ <<t>> \in Path
  BY PathFacts DEF IsTree
<1>2. new \in [Path -> TopNode \cup LeafNode] /\ new[<<t>>] = n
      /\ \A q \in Path : q # <<t>> => new[q] = tr[q]
  BY <1>1 DEF Set
<1> HIDE DEF new
<1>3. ASSUME NEW u \in Top PROVE new[<<u>>] \in TopNode
  <2>1. tr[<<u>>] \in TopNode /\ <<u>> \in Path
    BY PathFacts, TreeFacts
  <2> QED BY <1>2, <2>1
<1>4. ASSUME NEW p \in Top \X Child
      PROVE  new[p] \in LeafNode /\ (new[p] # None => new[<<p[1]>>] = Dir)
  <2>1. PICK u \in Top, c \in Child : p = <<u, c>> /\ p[1] = u
    BY PathFacts
  <2>2. new[<<u, c>>] = tr[<<u, c>>]
    BY <1>2, PathFacts, PathsDiffer
  <2>3. tr[<<u, c>>] \in LeafNode /\ (tr[<<u, c>>] # None => tr[<<u>>] = Dir)
    BY TreeFacts
  <2>4. tr[<<u>>] = Dir => new[<<u>>] = Dir
    BY <1>2, PathFacts, PathsDiffer, NodeFacts
  <2> QED BY <2>1, <2>2, <2>3, <2>4
<1>5. IsTree(new)
  BY <1>2, <1>3, <1>4 DEF IsTree
<1> QED BY <1>2, <1>5 DEF new

\* An entry of a directory.
LEMMA SetLeaf ==
    ASSUME NEW tr, IsTree(tr), NEW t \in Top, NEW c \in Child, tr[<<t>>] = Dir, NEW n \in LeafNode
    PROVE  /\ IsTree(Set(tr, <<t, c>>, n))
           /\ Set(tr, <<t, c>>, n)[<<t, c>>] = n
           /\ \A q \in Path : q # <<t, c>> => Set(tr, <<t, c>>, n)[q] = tr[q]
           /\ \A u \in Top : DirOf(Set(tr, <<t, c>>, n), u) = DirOf(tr, u)
<1> DEFINE new == Set(tr, <<t, c>>, n)
<1>1. tr \in [Path -> TopNode \cup LeafNode] /\ <<t, c>> \in Path
  BY PathFacts DEF IsTree
<1>2. new \in [Path -> TopNode \cup LeafNode] /\ new[<<t, c>>] = n
      /\ \A q \in Path : q # <<t, c>> => new[q] = tr[q]
  BY <1>1 DEF Set
<1> HIDE DEF new
<1>3. \A u \in Top : new[<<u>>] = tr[<<u>>] /\ new[<<u>>] \in TopNode
  BY <1>2, PathFacts, PathsDiffer, TreeFacts
<1>4. ASSUME NEW p \in Top \X Child
      PROVE  new[p] \in LeafNode /\ (new[p] # None => new[<<p[1]>>] = Dir)
  <2>1. PICK u \in Top, d \in Child : p = <<u, d>> /\ p[1] = u
    BY PathFacts
  <2>2. tr[<<u, d>>] \in LeafNode /\ (tr[<<u, d>>] # None => tr[<<u>>] = Dir)
    BY TreeFacts
  <2>3. CASE p = <<t, c>>
    <3>1. u = t
      BY <2>1, <2>3, PathsDiffer
    <3> QED BY <1>2, <1>3, <2>1, <2>3, <3>1
  <2>4. CASE p # <<t, c>>
    BY <1>2, <1>3, <2>1, <2>2, <2>4, PathFacts
  <2> QED BY <2>3, <2>4
<1>5. IsTree(new)
  BY <1>2, <1>3, <1>4 DEF IsTree
<1>6. \A u \in Top : DirOf(new, u) = DirOf(tr, u)
  BY <1>3, <1>5, SameNames
<1> QED BY <1>2, <1>5, <1>6 DEF new

\* Some or all entries of a directory go, and the directory itself if all do.
LEMMA Cleared ==
    ASSUME NEW tr, IsTree(tr), NEW t \in Top, NEW gone \in SUBSET Path,
           \A q \in gone : q = <<t>> \/ (q \in Top \X Child /\ q[1] = t),
           <<t>> \in gone => \A c \in Child : <<t, c>> \in gone
    PROVE  IsTree([q \in Path |-> IF q \in gone THEN None ELSE tr[q]])
<1> DEFINE new == [q \in Path |-> IF q \in gone THEN None ELSE tr[q]]
<1>1. None \in TopNode /\ None \in LeafNode
  BY DEF TopNode, LeafNode
<1>2. new \in [Path -> TopNode \cup LeafNode] /\ \A q \in Path : new[q] = IF q \in gone THEN None ELSE tr[q]
  BY <1>1 DEF IsTree
<1> HIDE DEF new
<1>3. \A u \in Top : new[<<u>>] \in TopNode
  BY <1>1, <1>2, PathFacts, TreeFacts
<1>4. ASSUME NEW p \in Top \X Child
      PROVE  new[p] \in LeafNode /\ (new[p] # None => new[<<p[1]>>] = Dir)
  <2>1. PICK u \in Top, c \in Child : p = <<u, c>> /\ p[1] = u
    BY PathFacts
  <2>2. tr[<<u, c>>] \in LeafNode /\ (tr[<<u, c>>] # None => tr[<<u>>] = Dir)
    BY TreeFacts
  <2>3. ASSUME <<u>> \in gone PROVE <<u, c>> \in gone
    <3>1. <<u>> \notin Top \X Child
      BY PathsDiffer, PathFacts
    <3>2. u = t
      BY <2>3, <3>1, PathsDiffer
    <3> QED BY <2>3, <3>2
  <2> QED BY <1>1, <1>2, <2>1, <2>2, <2>3, PathFacts
<1>5. IsTree(new)
  BY <1>2, <1>3, <1>4 DEF IsTree
<1> QED BY <1>5 DEF new

LEMMA WithoutTop ==
    ASSUME NEW tr, IsTree(tr), NEW t \in Top
    PROVE  /\ IsTree(Without(tr, <<t>>))
           /\ Without(tr, <<t>>)[<<t>>] = None
           /\ \A c \in Child : Without(tr, <<t>>)[<<t, c>>] = None
           /\ \A q \in Path : q[1] # t => Without(tr, <<t>>)[q] = tr[q]
<1> DEFINE gone == {q \in Path : q = <<t>> \/ q[1] = t}
           new == Without(tr, <<t>>)
<1>1. new = [q \in Path |-> IF q \in gone THEN None ELSE tr[q]]
  BY PathFacts DEF Without
<1>2. \A q \in gone : q = <<t>> \/ (q \in Top \X Child /\ q[1] = t)
  BY PathFacts
<1>3. <<t>> \in gone /\ \A c \in Child : <<t, c>> \in gone
  BY PathFacts
<1>4. \A q \in Path : q[1] # t => q \notin gone
  BY PathFacts
<1>5. gone \in SUBSET Path
  OBVIOUS
<1> HIDE DEF gone, new
<1>6. IsTree(new)
  BY <1>1, <1>2, <1>3, <1>5, Cleared
<1>7. new[<<t>>] = None /\ (\A c \in Child : new[<<t, c>>] = None)
      /\ \A q \in Path : q[1] # t => new[q] = tr[q]
  BY <1>1, <1>3, <1>4, <1>5
<1> QED BY <1>6, <1>7 DEF new

LEMMA WithoutLeaf ==
    ASSUME NEW tr, IsTree(tr), NEW t \in Top, NEW c \in Child
    PROVE  /\ IsTree(Without(tr, <<t, c>>))
           /\ Without(tr, <<t, c>>)[<<t, c>>] = None
           /\ \A q \in Path : q # <<t, c>> => Without(tr, <<t, c>>)[q] = tr[q]
           /\ \A u \in Top : DirOf(Without(tr, <<t, c>>), u) = DirOf(tr, u)
<1> DEFINE new == Without(tr, <<t, c>>)
<1>1. new = [q \in Path |-> IF q \in {<<t, c>>} THEN None ELSE tr[q]]
  BY PathFacts DEF Without
<1>2. <<t, c>> \in Path /\ <<t, c>> \in Top \X Child /\ <<t, c>>[1] = t /\ <<t>> # <<t, c>>
  BY PathFacts, PathsDiffer
<1> HIDE DEF new
<1>3. IsTree(new)
  <2>1. {<<t, c>>} \in SUBSET Path /\ <<t>> \notin {<<t, c>>}
    BY <1>2
  <2>2. \A q \in {<<t, c>>} : q = <<t>> \/ (q \in Top \X Child /\ q[1] = t)
    BY <1>2
  <2> QED BY <1>1, <2>1, <2>2, Cleared
<1>4. new[<<t, c>>] = None /\ \A q \in Path : q # <<t, c>> => new[q] = tr[q]
  BY <1>1, <1>2
<1>5. \A u \in Top : new[<<u>>] = tr[<<u>>]
  BY <1>4, PathFacts, PathsDiffer
<1>6. \A u \in Top : DirOf(new, u) = DirOf(tr, u)
  BY <1>3, <1>5, SameNames
<1> QED BY <1>3, <1>4, <1>6 DEF new

-----------------------------------------------------------------------------
(***************************************************************************)
(* The invariant.                                                          *)
(***************************************************************************)

Pending == todo \cup ({at} \ {None})

\* What is left to do is in the payload; the entries of a directory are
\* listed when that is merged, and have a place to go to.
TodoInv ==
    /\ pc = "idle" => at = None
    /\ pc = "merging" =>
          /\ IsTree(payload) /\ IsTree(before)
          /\ at \notin todo
          /\ \A p \in Pending : payload[p] # None
          /\ \A s \in Top, c \in Child :
                <<s, c>> \in Pending =>
                   payload[<<s>>] = Dir /\ <<s>> \notin Pending /\ DirOf(tree, s) # None
          /\ \A s \in Top : at = <<s>> => \A u \in Top, c \in Child : <<u, c>> \notin todo

\* Where a directory of the payload ends up, and what was there.
Target(s) == IF DirOf(before, s) = None THEN s ELSE DirOf(before, s)
Base(t, c) == IF before[<<t>>] = Dir THEN before[<<t, c>>] ELSE None

\* Names that are merged are as they should be, the others as they were.
NamesInv ==
    \A t \in Top :
        /\ <<t>> \notin Pending => tree[<<t>>] = Overlay(<<t>>)
        /\ <<t>> \in todo => tree[<<t>>] = before[<<t>>]
        /\ at = <<t>> =>
              \/ tree[<<t>>] = before[<<t>>]
              \/ tree[<<t>>] = None /\ (payload[<<t>>] = Dir => DirOf(before, t) = None)

\* So are the entries of each directory.
EntriesInv ==
    \A t \in Top, c \in Child :
        tree[<<t>>] = Dir =>
            /\ \A s \in Sources(t) :
                  payload[<<s, c>>] # None /\ <<s>> \notin Pending /\ <<s, c>> \notin Pending =>
                      tree[<<t, c>>] = payload[<<s, c>>]
            /\ (\A s \in Sources(t) :
                   payload[<<s, c>>] = None \/ <<s>> \in Pending \/ <<s, c>> \in todo) =>
                      tree[<<t, c>>] = Base(t, c)

MergeInv == pc = "merging" /\ ~OrderMatters => NamesInv /\ EntriesInv

IInv == TypeOK /\ TodoInv /\ MergeInv

TypeInv == TypeOK /\ TodoInv

-----------------------------------------------------------------------------
(***************************************************************************)
(* The entry being merged.                                                 *)
(***************************************************************************)

LEMMA AtTop ==
    ASSUME TypeInv, pc = "merging", NEW s \in Top, at = <<s>>
    PROVE  /\ Real(tree, at) = <<s>> /\ at[1] = s
           /\ payload[<<s>>] \in TopNode /\ payload[<<s>>] # None
           /\ <<s>> \in Pending /\ <<s>> \notin todo
           /\ \A u \in Top, c \in Child : <<u, c>> \notin Pending
           /\ InTheWay <=> tree[<<s>>] # None /\ (payload[<<s>>] = Dir => DirOf(tree, s) = None)
<1>1. IsTree(tree) /\ IsTree(payload) /\ at \notin todo /\ at[1] = s
  BY DEF TypeInv, TypeOK, TodoInv
<1>2. Real(tree, at) = <<s>>
  BY <1>1, RealFacts
<1>3. <<s>> \in Pending /\ payload[<<s>>] # None
  BY PathFacts DEF TypeInv, TodoInv, Pending
<1>4. payload[<<s>>] \in TopNode
  BY <1>1, TreeFacts
<1>5. \A u \in Top, c \in Child : <<u, c>> \notin Pending
  BY PathsDiffer DEF TypeInv, TodoInv, Pending
<1>6. InTheWay <=> tree[<<s>>] # None /\ (payload[<<s>>] = Dir => DirOf(tree, s) = None)
  BY <1>1, <1>2 DEF InTheWay
<1> QED BY <1>1, <1>2, <1>3, <1>4, <1>5, <1>6

LEMMA AtChild ==
    ASSUME TypeInv, pc = "merging", NEW s \in Top, NEW c \in Child, at = <<s, c>>
    PROVE  /\ DirOf(tree, s) \in Top /\ tree[<<DirOf(tree, s)>>] = Dir
           /\ Real(tree, at) = <<DirOf(tree, s), c>>
           /\ payload[<<s, c>>] \in LeafNode /\ payload[<<s, c>>] \notin {None, Dir}
           /\ payload[<<s>>] = Dir /\ <<s>> \notin Pending
           /\ <<s, c>> \in Pending /\ <<s, c>> \notin todo
           /\ InTheWay <=> tree[<<DirOf(tree, s), c>>] # None
<1>1. IsTree(tree) /\ IsTree(payload) /\ at \notin todo
  BY DEF TypeInv, TypeOK, TodoInv
<1>2. <<s, c>> \in Pending
  BY PathFacts DEF Pending
<1>3. payload[<<s, c>>] # None /\ payload[<<s>>] = Dir /\ <<s>> \notin Pending /\ DirOf(tree, s) # None
  BY <1>2 DEF TypeInv, TodoInv
<1>4. DirOf(tree, s) \in Top /\ tree[<<DirOf(tree, s)>>] = Dir
  BY <1>1, <1>3, DirOfFacts
<1>5. Real(tree, at) = <<DirOf(tree, s), c>>
  BY <1>1, RealFacts
<1>6. payload[<<s, c>>] \in LeafNode /\ payload[<<s, c>>] # Dir
  BY <1>1, TreeFacts
<1>7. InTheWay <=> tree[<<DirOf(tree, s), c>>] # None
  BY <1>5, <1>6 DEF InTheWay
<1> QED BY <1>1, <1>2, <1>3, <1>4, <1>5, <1>6, <1>7

\* What a removal that does not get to its end leaves.
LEMMA PartlyFacts ==
    ASSUME NEW tr, IsTree(tr), NEW p \in Path, NEW new \in PartlyWithout(tr, p)
    PROVE  /\ IsTree(new)
           /\ \A q \in Path : new[q] # tr[q] => Len(p) = 1 /\ Len(q) = 2 /\ q[1] = p[1] /\ tr[q] # None
<1>1. PICK gone \in SUBSET {q \in Path : Len(p) = 1 /\ Len(q) = 2 /\ q[1] = p[1]} :
         new = [q \in Path |-> IF q \in gone THEN None ELSE tr[q]]
  BY DEF PartlyWithout
<1>2. PICK t \in Top : p[1] = t
  BY PathFacts
<1>3. \A q \in gone : q = <<t>> \/ (q \in Top \X Child /\ q[1] = t)
  BY <1>1, <1>2, PathFacts
<1>4. <<t>> \notin gone /\ gone \in SUBSET Path
  BY <1>1, PathFacts
<1>5. IsTree(new)
  BY <1>1, <1>3, <1>4, Cleared
<1> QED BY <1>1, <1>5

-----------------------------------------------------------------------------
(***************************************************************************)
(* The sysroot stays a tree, and what is left to do has a place to go to.  *)
(***************************************************************************)

LEMMA StartTypes ==
    ASSUME TypeInv, NEW source \in Payloads, StartMerge(source)
    PROVE  TypeInv'
<1>1. IsTree(source)
  BY NodeAssumption
<1>2. IsTree(tree) /\ at = None /\ stops \in 0 .. MaxStops
  BY DEF TypeInv, TypeOK, TodoInv, StartMerge
<1>3. /\ pc' = "merging" /\ payload' = source /\ before' = tree /\ tree' = tree
      /\ todo' = {p \in Path : Len(p) = 1 /\ source[p] # None} /\ at' = None /\ stops' = stops
  BY <1>2 DEF StartMerge
<1>4. TypeOK'
  BY <1>2, <1>3 DEF TypeOK
<1>5. Pending' = todo' /\ \A u \in Top, c \in Child : <<u, c>> \notin todo'
  BY <1>3, PathFacts DEF Pending
<1>6. TodoInv'
  BY <1>1, <1>2, <1>3, <1>5, PathFacts DEF TodoInv
<1> QED BY <1>4, <1>6 DEF TypeInv

LEMMA EnterTypes ==
    ASSUME TypeInv, NEW p \in Path, Enter(p)
    PROVE  TypeInv'
<1>1. /\ IsTree(tree) /\ IsTree(payload) /\ IsTree(before) /\ todo \subseteq Path
      /\ stops \in 0 .. MaxStops /\ pc = "merging" /\ p # None
  BY PathFacts DEF TypeInv, TypeOK, TodoInv, Enter
<1>2. /\ at = None /\ at' = p /\ todo' = todo \ {p} /\ p \in todo
      /\ UNCHANGED <<tree, pc, payload, before, stops>>
  BY DEF Enter
<1>3. TypeOK'
  BY <1>1, <1>2 DEF TypeOK
<1>4. Pending' = Pending
  BY <1>1, <1>2 DEF Pending
<1>5. ASSUME NEW s \in Top, p = <<s>>, NEW u \in Top, NEW c \in Child
      PROVE  <<u, c>> \notin todo
  <2>1. Len(p) = 1 /\ Len(<<u, c>>) = 2
    BY <1>5
  <2>2. \A q \in todo : Len(q) = 1
    BY <2>1 DEF Enter
  <2> QED BY <2>1, <2>2
<1>6. TodoInv'
  BY <1>1, <1>2, <1>4, <1>5 DEF TypeInv, TodoInv
<1> QED BY <1>3, <1>6 DEF TypeInv

LEMMA RemoveTypes ==
    ASSUME TypeInv, Remove
    PROVE  TypeInv'
<1>1. /\ IsTree(tree) /\ IsTree(payload) /\ IsTree(before) /\ todo \subseteq Path
      /\ stops \in 0 .. MaxStops /\ pc = "merging" /\ at \in Path
  BY DEF TypeInv, TypeOK, TodoInv, Remove
<1>2. /\ tree' = Without(tree, Real(tree, at))
      /\ UNCHANGED <<pc, payload, todo, at, before, stops>> /\ Pending' = Pending
  BY DEF Remove, Pending
<1>3. /\ IsTree(tree')
      /\ \A s \in Top, c \in Child : <<s, c>> \in Pending => DirOf(tree, s)' # None
  <2>1. CASE \E s \in Top : at = <<s>>
    <3>1. PICK s \in Top : at = <<s>>
      BY <2>1
    <3>2. tree' = Without(tree, <<s>>) /\ \A u \in Top, c \in Child : <<u, c>> \notin Pending
      BY <1>1, <1>2, <3>1, AtTop
    <3> QED BY <1>1, <3>2, WithoutTop
  <2>2. CASE \E s \in Top, c \in Child : at = <<s, c>>
    <3>1. PICK s \in Top, c \in Child : at = <<s, c>>
      BY <2>2
    <3>2. DirOf(tree, s) \in Top /\ tree' = Without(tree, <<DirOf(tree, s), c>>)
      BY <1>1, <1>2, <3>1, AtChild
    <3>3. IsTree(tree') /\ \A u \in Top : DirOf(tree', u) = DirOf(tree, u)
      BY <1>1, <3>2, WithoutLeaf
    <3> QED BY <1>1, <3>3 DEF TypeInv, TodoInv
  <2> QED BY <1>1, <2>1, <2>2, PathFacts
<1>4. TypeOK'
  BY <1>1, <1>2, <1>3 DEF TypeOK
<1>5. TodoInv'
  BY <1>1, <1>2, <1>3 DEF TypeInv, TodoInv
<1> QED BY <1>4, <1>5 DEF TypeInv

\* An entry of the sysroot is made where nothing is, or a directory used that
\* is there; the entries of a directory are listed.
LEMMA CreateTop ==
    ASSUME TypeInv, Create, NEW s \in Top, at = <<s>>
    PROVE  /\ UNCHANGED <<pc, payload, before, stops>> /\ pc = "merging" /\ at' = None
           /\ \/ /\ tree[<<s>>] = None
                 /\ tree' = Set(tree, <<s>>, payload[<<s>>])
              \/ /\ tree[<<s>>] # None /\ payload[<<s>>] = Dir /\ DirOf(tree, s) # None
                 /\ tree' = tree
           /\ IsTree(tree')
           /\ \A p \in Path : p # <<s>> => tree'[p] = tree[p]
           /\ \A u \in Top : <<u>> \in todo' <=> <<u>> \in todo
           /\ \A u \in Top, c \in Child :
                 <<u, c>> \in todo' <=> u = s /\ payload[<<s, c>>] # None
           /\ todo' \subseteq Path
<1>1. pc = "merging" /\ IsTree(tree) /\ todo \subseteq Path
  BY DEF Create, TypeInv, TypeOK
<1>2. /\ UNCHANGED <<pc, payload, before, stops>> /\ at' = None
      /\ todo' = todo \cup {p \in Path : at = <<p[1]>> /\ Len(p) = 2 /\ payload[p] # None}
  BY DEF Create
<1>3. \/ /\ tree[<<s>>] = None
         /\ tree' = Set(tree, <<s>>, payload[<<s>>])
      \/ /\ tree[<<s>>] # None /\ payload[<<s>>] = Dir /\ DirOf(tree, s) # None
         /\ tree' = tree
  BY <1>1, AtTop DEF Create, Set
<1>4. IsTree(tree') /\ \A p \in Path : p # <<s>> => tree'[p] = tree[p]
  <2>1. payload[<<s>>] \in TopNode
    BY <1>1, AtTop
  <2> QED BY <1>1, <1>3, <2>1, SetTop
<1>5. ASSUME NEW u \in Top PROVE <<u>> \in todo' <=> <<u>> \in todo
  <2>1. Len(<<u>>) # 2
    OBVIOUS
  <2> QED BY <1>2, <2>1
<1>6. ASSUME NEW u \in Top, NEW c \in Child
      PROVE  <<u, c>> \in todo' <=> u = s /\ payload[<<s, c>>] # None
  <2>1. <<u, c>> \notin todo
    BY <1>1, AtTop DEF Pending
  <2>2. at = <<u>> <=> u = s
    BY PathsDiffer
  <2> QED BY <1>2, <2>1, <2>2, PathFacts
<1>7. todo' \subseteq Path
  BY <1>1, <1>2
<1> QED BY <1>1, <1>2, <1>3, <1>4, <1>5, <1>6, <1>7

\* An entry of a directory is made where nothing is.
LEMMA CreateChild ==
    ASSUME TypeInv, Create, NEW s \in Top, NEW c \in Child, at = <<s, c>>
    PROVE  /\ UNCHANGED <<pc, payload, todo, before, stops>> /\ pc = "merging" /\ at' = None
           /\ tree[<<DirOf(tree, s), c>>] = None
           /\ IsTree(tree')
           /\ tree'[<<DirOf(tree, s), c>>] = payload[<<s, c>>]
           /\ \A p \in Path : p # <<DirOf(tree, s), c>> => tree'[p] = tree[p]
           /\ \A u \in Top : DirOf(tree', u) = DirOf(tree, u)
<1>1. pc = "merging" /\ IsTree(tree)
  BY DEF Create, TypeInv, TypeOK
<1>2. DirOf(tree, s) \in Top /\ tree[<<DirOf(tree, s)>>] = Dir /\ payload[<<s, c>>] \in LeafNode
  BY <1>1, AtChild
<1>3. /\ tree[<<DirOf(tree, s), c>>] = None
      /\ tree' = Set(tree, <<DirOf(tree, s), c>>, payload[<<s, c>>])
  BY <1>1, AtChild DEF Create, Set
<1>4. /\ UNCHANGED <<pc, payload, before, stops>> /\ at' = None
      /\ todo' = todo \cup {p \in Path : at = <<p[1]>> /\ Len(p) = 2 /\ payload[p] # None}
  BY DEF Create
<1>5. \A p \in Path : at # <<p[1]>>
  BY PathFacts, PathsDiffer
<1>6. todo' = todo
  BY <1>4, <1>5
<1> QED BY <1>1, <1>2, <1>3, <1>4, <1>6, SetLeaf

LEMMA CreateTypes ==
    ASSUME TypeInv, Create
    PROVE  TypeInv'
<1>1. /\ IsTree(payload) /\ IsTree(before) /\ todo \subseteq Path
      /\ stops \in 0 .. MaxStops /\ pc = "merging" /\ at \in Path
  BY DEF TypeInv, TypeOK, TodoInv, Create
<1>2. CASE \E s \in Top : at = <<s>>
  <2>1. PICK s \in Top : at = <<s>>
    BY <1>2
  <2>2. /\ UNCHANGED <<pc, payload, before, stops>> /\ at' = None
        /\ IsTree(tree') /\ todo' \subseteq Path
        /\ \A u \in Top : <<u>> \in todo' <=> <<u>> \in todo
        /\ \A u \in Top, c \in Child : <<u, c>> \in todo' <=> u = s /\ payload[<<s, c>>] # None
    BY <2>1, CreateTop
  <2>3. TypeOK'
    BY <1>1, <2>2 DEF TypeOK
  <2>4. Pending' = todo'
    BY <2>2 DEF Pending
  <2>5. <<s>> \notin todo /\ \A p \in todo : payload[p] # None
    BY <1>1, <2>1, AtTop DEF TypeInv, TodoInv, Pending
  <2>6. ASSUME NEW p \in todo' PROVE payload[p] # None
    <3>1. p \in Path
      BY <2>2
    <3>2. CASE \E u \in Top : p = <<u>>
      BY <2>2, <2>5, <3>2
    <3>3. CASE \E u \in Top, c \in Child : p = <<u, c>>
      BY <2>2, <3>3
    <3> QED BY <3>1, <3>2, <3>3, PathFacts
  <2>7. ASSUME NEW c \in Child, <<s, c>> \in todo'
        PROVE  payload[<<s>>] = Dir /\ <<s>> \notin todo' /\ DirOf(tree', s) # None
    <3>1. payload[<<s, c>>] # None
      BY <2>2, <2>7
    <3>2. payload[<<s>>] = Dir
      BY <1>1, <3>1, TreeFacts
    <3>3. CASE tree[<<s>>] = None
      <4>1. IsTree(tree) /\ tree' = Set(tree, <<s>>, Dir) /\ Dir \in TopNode
        BY <2>1, <3>2, <3>3, CreateTop DEF TypeInv, TypeOK, TopNode
      <4>2. tree'[<<s>>] = Dir
        BY <3>3, <4>1, SetTop
      <4>3. DirOf(tree', s) = s
        BY <2>2, <4>2, WayStays, NodeFacts
      <4> QED BY <2>2, <2>5, <3>2, <4>3, PathFacts
    <3>4. CASE tree[<<s>>] # None
      BY <2>1, <2>2, <2>5, <3>2, <3>4, CreateTop
    <3> QED BY <3>3, <3>4
  <2>8. \A u \in Top, c \in Child :
           <<u, c>> \in todo' => payload[<<u>>] = Dir /\ <<u>> \notin todo' /\ DirOf(tree', u) # None
    BY <2>2, <2>7
  <2>9. None \notin todo' /\ \A u \in Top : at' # <<u>>
    BY <2>2, PathFacts
  <2>10. TodoInv'
    BY <1>1, <2>2, <2>4, <2>6, <2>8, <2>9 DEF TodoInv
  <2> QED BY <2>3, <2>10 DEF TypeInv
<1>3. CASE \E s \in Top, c \in Child : at = <<s, c>>
  <2>1. PICK s \in Top, c \in Child : at = <<s, c>>
    BY <1>3
  <2>2. /\ UNCHANGED <<pc, payload, todo, before, stops>> /\ at' = None
        /\ IsTree(tree') /\ \A u \in Top : DirOf(tree', u) = DirOf(tree, u)
    BY <2>1, CreateChild
  <2>3. TypeOK'
    BY <1>1, <2>2 DEF TypeOK
  <2>4. Pending' = todo /\ todo \subseteq Pending
    BY <1>1, <2>2, PathFacts DEF Pending
  <2>5. \A u \in Top, d \in Child : <<u, d>> \in todo =>
           payload[<<u>>] = Dir /\ <<u>> \notin todo /\ DirOf(tree', u) # None
    BY <1>1, <2>2, <2>4 DEF TypeInv, TodoInv
  <2>6. None \notin todo /\ (\A u \in Top : at' # <<u>>) /\ \A p \in todo : payload[p] # None
    BY <1>1, <2>2, <2>4, PathFacts DEF TypeInv, TodoInv
  <2>7. TodoInv'
    BY <1>1, <2>2, <2>4, <2>5, <2>6 DEF TodoInv
  <2> QED BY <2>3, <2>7 DEF TypeInv
<1> QED BY <1>1, <1>2, <1>3, PathFacts

\* What an install that is cut short leaves: something of what is in the way,
\* or a torn file where there was nothing.
LEMMA StopEffect ==
    ASSUME TypeInv, Stop
    PROVE  /\ IsTree(tree') /\ pc = "merging" /\ pc' = "idle" /\ todo' = {} /\ at' = None
           /\ stops' \in 0 .. MaxStops
           /\ \A p \in Path : tree'[p] # tree[p] =>
                 /\ at # None
                 /\ \/ p = Real(tree, at)
                    \/ /\ Len(p) = 2 /\ tree[p] # None
                       /\ at = <<p[1]>> /\ InTheWay
<1>1. /\ IsTree(tree) /\ pc = "merging" /\ at \in Path \cup {None}
      /\ stops \in Nat /\ stops < MaxStops /\ MaxStops \in Nat /\ stops' = stops + 1
      /\ pc' = "idle" /\ todo' = {} /\ at' = None
  BY NodeAssumption DEF TypeInv, TypeOK, Stop, Leave
<1>2. CASE at = None \/ tree' = tree
  BY <1>1, <1>2 DEF Stop
<1>3. CASE at # None /\ InTheWay
  <2>1. tree' \in PartlyWithout(tree, Real(tree, at))
    BY <1>3 DEF Stop
  <2>2. CASE \E s \in Top : at = <<s>>
    <3>1. PICK s \in Top : at = <<s>>
      BY <2>2
    <3>2. Real(tree, at) = <<s>> /\ <<s>> \in Path
      BY <1>1, <3>1, AtTop, PathFacts
    <3>3. /\ IsTree(tree')
          /\ \A p \in Path : tree'[p] # tree[p] => Len(p) = 2 /\ p[1] = s /\ tree[p] # None
      BY <1>1, <2>1, <3>2, PartlyFacts
    <3> QED BY <1>1, <1>3, <3>1, <3>3
  <2>3. CASE \E s \in Top, c \in Child : at = <<s, c>>
    <3>1. PICK d \in Top, c \in Child : Real(tree, at) = <<d, c>>
      BY <1>1, <2>3, AtChild
    <3>2. IsTree(tree') /\ \A p \in Path : tree'[p] # tree[p] => Len(<<d, c>>) = 1
      BY <1>1, <2>1, <3>1, PathFacts, PartlyFacts
    <3> QED BY <1>1, <3>2, PathFacts
  <2> QED BY <1>1, <1>3, <2>2, <2>3, PathFacts
<1>4. CASE at # None /\ ~InTheWay /\ tree' # tree
  <2>1. tree' = Set(tree, Real(tree, at), File(Torn))
    BY <1>4 DEF Stop, Set
  <2>2. payload[at] \in FileNode
    BY <1>4 DEF Stop, FileNode
  <2>3. payload[at] # Dir
    BY <2>2, NodeFacts
  <2>4. tree[Real(tree, at)] = None
    BY <1>4, <2>3 DEF InTheWay
  <2>5. File(Torn) \in TopNode /\ File(Torn) \in LeafNode
    BY DEF TopNode, LeafNode, FileNode
  <2>6. CASE \E s \in Top : at = <<s>>
    <3>1. PICK s \in Top : at = <<s>>
      BY <2>6
    <3>2. Real(tree, at) = <<s>>
      BY <1>1, <3>1, AtTop
    <3>3. IsTree(tree') /\ \A p \in Path : p # <<s>> => tree'[p] = tree[p]
      BY <1>1, <2>1, <2>4, <2>5, <3>2, SetTop
    <3> QED BY <1>1, <1>4, <3>2, <3>3
  <2>7. CASE \E s \in Top, c \in Child : at = <<s, c>>
    <3>1. PICK d \in Top, c \in Child : Real(tree, at) = <<d, c>> /\ tree[<<d>>] = Dir
      BY <1>1, <2>7, AtChild
    <3>2. IsTree(tree') /\ \A p \in Path : p # <<d, c>> => tree'[p] = tree[p]
      BY <1>1, <2>1, <2>5, <3>1, SetLeaf
    <3> QED BY <1>1, <1>4, <3>1, <3>2
  <2> QED BY <1>1, <1>4, <2>6, <2>7, PathFacts
<1> QED BY <1>2, <1>3, <1>4

LEMMA StopTypes ==
    ASSUME TypeInv, Stop
    PROVE  TypeInv'
<1>1. IsTree(tree') /\ pc' = "idle" /\ todo' = {} /\ at' = None /\ stops' \in 0 .. MaxStops
  BY StopEffect
<1> QED BY <1>1 DEF TypeInv, TypeOK, TodoInv

\* When nothing is merged, a tree is all there is to keep.
LEMMA IdleTypes ==
    ASSUME TypeInv, IsTree(tree'), pc' = "idle", todo' \subseteq Path, at' = None, stops' = stops
    PROVE  TypeInv'
BY DEF TypeInv, TypeOK, TodoInv

\* The parent of a file that is written, or of a link.
LEMMA ParentFacts ==
    ASSUME NEW tr, IsTree(tr), NEW t \in Top
    PROVE  IsTree(WithParent(tr, t))
<1>1. CASE tr[<<t>>] = None
  <2>1. WithParent(tr, t) = Set(tr, <<t>>, Dir) /\ Dir \in TopNode
    BY <1>1 DEF WithParent, Set, TopNode
  <2> QED BY <1>1, <2>1, SetTop
<1>2. CASE tr[<<t>>] # None
  BY <1>2 DEF WithParent
<1> QED BY <1>1, <1>2

LEMMA InstallFileTypes ==
    ASSUME TypeInv, NEW p \in Top \X Child, NEW o \in Owner, InstallFile(p, o)
    PROVE  TypeInv'
<1> DEFINE tr == WithParent(tree, p[1])
           q == Written(tr, p)
<1>1. p[1] \in Top
  BY PathFacts
<1>2. IsTree(tr)
  BY <1>1, ParentFacts DEF TypeInv, TypeOK
<1>3. q # None /\ tree' = Set(tr, q, File(o))
  BY DEF InstallFile, Set
<1> HIDE DEF tr
<1>4. q \in Top \X Child /\ tr[<<q[1]>>] = Dir
  BY <1>2, <1>3, WrittenFacts
<1>5. PICK t \in Top, c \in Child : q = <<t, c>> /\ tr[<<t>>] = Dir
  BY <1>4
<1>6. File(o) \in LeafNode
  BY DEF LeafNode, FileNode
<1> HIDE DEF q
<1>7. IsTree(tree')
  BY <1>2, <1>3, <1>5, <1>6, SetLeaf
<1> QED BY <1>7, IdleTypes DEF InstallFile, Others, TypeInv, TypeOK, TodoInv

LEMMA MakeLinkTypes ==
    ASSUME TypeInv, NEW p \in Top \X Child, NEW to \in Top \X Child, MakeLink(p, to)
    PROVE  TypeInv'
<1> DEFINE tr == WithParent(tree, p[1])
<1>1. p[1] \in Top /\ p[2] \in Child /\ p = <<p[1], p[2]>>
  BY PathFacts
<1>2. IsTree(tr)
  BY <1>1, ParentFacts DEF TypeInv, TypeOK
<1>3. DirOf(tr, p[1]) # None /\ tree' = Set(tr, Real(tr, p), Link(to))
  BY DEF MakeLink, Set
<1> HIDE DEF tr
<1>4. DirOf(tr, p[1]) \in Top /\ tr[<<DirOf(tr, p[1])>>] = Dir /\ Real(tr, p) = <<DirOf(tr, p[1]), p[2]>>
  BY <1>1, <1>2, <1>3, DirOfFacts, RealFacts
<1>5. Link(to) \in LeafNode
  BY DEF LeafNode
<1>6. IsTree(tree')
  BY <1>1, <1>2, <1>3, <1>4, <1>5, SetLeaf
<1> QED BY <1>6, IdleTypes DEF MakeLink, Others, TypeInv, TypeOK, TodoInv

LEMMA ReplaceTreeTypes ==
    ASSUME TypeInv, NEW t \in Top, NEW source \in Payloads, ReplaceTree(t, source)
    PROVE  TypeInv'
<1>1. IsTree(tree) /\ IsTree(source)
  BY NodeAssumption DEF TypeInv, TypeOK
<1>2. tree' = [q \in Path |-> IF q[1] = t THEN source[q] ELSE tree[q]]
  BY DEF ReplaceTree
<1>3. tree' \in [Path -> TopNode \cup LeafNode]
  BY <1>1, <1>2 DEF IsTree
<1>4. ASSUME NEW u \in Top
      PROVE  tree'[<<u>>] = IF u = t THEN source[<<u>>] ELSE tree[<<u>>]
  BY <1>2, PathFacts
<1>5. ASSUME NEW u \in Top PROVE tree'[<<u>>] \in TopNode
  BY <1>1, <1>4, TreeFacts
<1>6. ASSUME NEW p \in Top \X Child
      PROVE  tree'[p] \in LeafNode /\ (tree'[p] # None => tree'[<<p[1]>>] = Dir)
  <2>1. p[1] \in Top /\ p \in Path
    BY PathFacts DEF Path
  <2>2. tree'[p] = IF p[1] = t THEN source[p] ELSE tree[p]
    BY <1>2, <2>1
  <2>3. tree'[<<p[1]>>] = IF p[1] = t THEN source[<<p[1]>>] ELSE tree[<<p[1]>>]
    BY <1>4, <2>1
  <2> QED BY <1>1, <2>2, <2>3 DEF IsTree
<1>7. IsTree(tree')
  BY <1>3, <1>5, <1>6 DEF IsTree
<1> QED BY <1>7, IdleTypes DEF ReplaceTree, CanReplace, Others, TypeInv, TypeOK, TodoInv

\* What a copy cut short leaves is a tree.
LEMMA CopiedFacts ==
    ASSUME IsTree(tree), NEW t \in Top, NEW source \in Payloads, NEW new \in PartlyCopied(t, source)
    PROVE  IsTree(new)
<1>1. IsTree(source)
  BY NodeAssumption
<1>2. PICK done \in SUBSET Path, last \in Path \cup {None} :
        new = [q \in Path |-> IF q[1] # t THEN tree[q]
                              ELSE IF Len(q) = 1 THEN Dir
                              ELSE IF q = last /\ ~IsLink(source[q]) THEN File(Torn)
                              ELSE IF q \in done THEN source[q] ELSE None]
  BY DEF PartlyCopied
<1>3. ASSUME NEW u \in Top PROVE new[<<u>>] = IF u = t THEN Dir ELSE tree[<<u>>]
  BY <1>2, PathFacts
<1>4. ASSUME NEW u \in Top PROVE new[<<u>>] \in TopNode
  BY <1>1, <1>3, TreeFacts DEF IsTree, TopNode
<1>5. None \in LeafNode /\ File(Torn) \in LeafNode
  BY DEF LeafNode, FileNode
<1>6. ASSUME NEW u \in Top, NEW c \in Child
      PROVE  new[<<u, c>>] \in LeafNode /\ (new[<<u, c>>] # None => new[<<u>>] = Dir)
  <2>1. <<u, c>> \in Path /\ <<u, c>>[1] = u /\ Len(<<u, c>>) = 2
    BY PathFacts
  <2>2. tree[<<u, c>>] \in LeafNode /\ (tree[<<u, c>>] # None => tree[<<u>>] = Dir) /\ source[<<u, c>>] \in LeafNode
    BY <1>1, TreeFacts, PathFacts DEF IsTree
  <2>3. CASE u # t
    BY <1>2, <1>3, <2>1, <2>2, <2>3
  <2>4. CASE u = t
    BY <1>2, <1>3, <1>5, <2>1, <2>2, <2>4
  <2> QED BY <2>3, <2>4
<1>7. ASSUME NEW p \in Top \X Child
      PROVE  new[p] \in LeafNode /\ (new[p] # None => new[<<p[1]>>] = Dir)
  BY <1>6, PathFacts
<1>8. new \in [Path -> TopNode \cup LeafNode]
  <2>1. ASSUME NEW q \in Path PROVE new[q] \in TopNode \cup LeafNode
    <3>1. CASE \E u \in Top : q = <<u>>
      BY <1>4, <3>1
    <3>2. CASE \E u \in Top, c \in Child : q = <<u, c>>
      <4>1. PICK u \in Top, c \in Child : q = <<u, c>>
        BY <3>2
      <4> QED BY <1>6, <4>1
    <3> QED BY <3>1, <3>2, PathFacts
  <2> QED BY <1>2, <2>1
<1> QED BY <1>4, <1>7, <1>8 DEF IsTree

LEMMA StopReplaceTypes ==
    ASSUME TypeInv, NEW t \in Top, NEW source \in Payloads, StopReplace(t, source)
    PROVE  TypeInv'
<1>1. IsTree(tree) /\ <<t>> \in Path
  BY PathFacts DEF TypeInv, TypeOK
<1>2. IsTree(tree')
  BY <1>1, PartlyFacts, WithoutTop, CopiedFacts DEF StopReplace
<1>3. stops' \in 0 .. MaxStops
  BY NodeAssumption DEF StopReplace, TypeInv, TypeOK
<1> QED BY <1>2, <1>3 DEF StopReplace, CanReplace, TypeInv, TypeOK, TodoInv

LEMMA TypesInductive ==
    ASSUME TypeInv, [Next]_vars
    PROVE  TypeInv'
<1>1. ASSUME EndMerge PROVE TypeInv'
  BY <1>1, IdleTypes DEF EndMerge, Leave, TypeInv, TypeOK
<1>2. CASE UNCHANGED vars
  BY <1>2 DEF vars, TypeInv, TypeOK, TodoInv, Pending
<1> QED BY <1>1, <1>2, StartTypes, EnterTypes, RemoveTypes, CreateTypes, StopTypes,
           InstallFileTypes, MakeLinkTypes, ReplaceTreeTypes, StopReplaceTypes DEF Next

LEMMA TypesInit == Init => TypeInv
<1> SUFFICES ASSUME Init PROVE TypeInv
  OBVIOUS
<1>1. None \in TopNode /\ None \in LeafNode
  BY DEF TopNode, LeafNode
<1>2. \A p \in Path : Nothing[p] = None
  BY DEF Nothing
<1>3. IsTree(tree)
  BY <1>1, <1>2 DEF Init, IsTree, Nothing, Path
<1> QED BY <1>3, NodeAssumption DEF Init, TypeInv, TypeOK, TodoInv

-----------------------------------------------------------------------------
(***************************************************************************)
(* Where the directories of the payload end up, if the order of the        *)
(* listing does not matter.                                                *)
(***************************************************************************)

\* The names that a directory of the payload leads to are not in the payload;
\* no two directories lead to the same one.
LEMMA OrderFacts ==
    ASSUME ~OrderMatters, NEW s \in Top, payload[<<s>>] = Dir
    PROVE  /\ \A i \in DOMAIN Way(before, s) :
                 Way(before, s)[i] # s => payload[<<Way(before, s)[i]>>] = None
           /\ \A u \in Top : u # s /\ payload[<<u>>] = Dir /\ DirOf(before, s) # None =>
                 DirOf(before, u) # DirOf(before, s)
BY DEF OrderMatters

\* A directory of the payload leads where it did, while it is what it was.
LEMMA LeadsAsBefore ==
    ASSUME TypeInv, NamesInv, pc = "merging", ~OrderMatters,
           NEW s \in Top, payload[<<s>>] = Dir, tree[<<s>>] = before[<<s>>]
    PROVE  DirOf(tree, s) = DirOf(before, s)
<1>1. IsTree(tree) /\ IsTree(before)
  BY DEF TypeInv, TypeOK, TodoInv
<1>2. ASSUME NEW i \in DOMAIN Way(before, s)
      PROVE  tree[<<Way(before, s)[i]>>] = before[<<Way(before, s)[i]>>]
  <2> DEFINE u == Way(before, s)[i]
  <2>1. u \in Top
    BY <1>1, WayFacts
  <2>2. CASE u = s
    BY <2>2
  <2>3. CASE u # s
    <3>1. payload[<<u>>] = None
      BY <2>3, OrderFacts
    <3> HIDE DEF u
    <3>2. <<u>> \notin Pending
      BY <3>1 DEF TypeInv, TodoInv
    <3>3. tree[<<u>>] = Overlay(<<u>>)
      BY <2>1, <3>2 DEF NamesInv
    <3>4. Overlay(<<u>>) = before[<<u>>]
      BY <2>1, <3>1, PathFacts DEF Overlay
    <3> QED BY <3>3, <3>4 DEF u
  <2> QED BY <2>2, <2>3
<1> QED BY <1>1, <1>2, WayAgrees

\* What a name of the payload should become.
LEMMA OverlayTop ==
    ASSUME NEW t \in Top
    PROVE  Overlay(<<t>>) =
             IF payload[<<t>>] = None \/ (payload[<<t>>] = Dir /\ DirOf(before, t) # None)
             THEN before[<<t>>] ELSE payload[<<t>>]
BY PathFacts DEF Overlay

\* Once a directory of the payload is merged, its entries go to its target.
LEMMA MergedLeads ==
    ASSUME TypeInv, NamesInv, pc = "merging", ~OrderMatters,
           NEW s \in Top, payload[<<s>>] = Dir, <<s>> \notin Pending
    PROVE  DirOf(tree, s) = Target(s)
<1>1. tree[<<s>>] = Overlay(<<s>>) /\ IsTree(tree)
  BY DEF NamesInv, TypeInv, TypeOK
<1>2. CASE DirOf(before, s) # None
  <2>1. tree[<<s>>] = before[<<s>>]
    BY <1>1, <1>2, OverlayTop, NodeFacts
  <2> QED BY <1>2, <2>1, LeadsAsBefore DEF Target
<1>3. CASE DirOf(before, s) = None
  <2>1. tree[<<s>>] = Dir
    BY <1>1, <1>3, OverlayTop, NodeFacts
  <2> QED BY <1>1, <1>3, <2>1, WayStays, NodeFacts DEF Target
<1> QED BY <1>2, <1>3

LEMMA SourceFacts ==
    ASSUME TypeInv, pc = "merging", ~OrderMatters, NEW t \in Top
    PROVE  /\ \A s \in Top : s \in Sources(t) <=> payload[<<s>>] = Dir /\ Target(s) = t
           /\ \A s, u \in Sources(t) : s = u
<1>1. IsTree(before) /\ t # None
  BY PathFacts DEF TypeInv, TodoInv
<1>2. ASSUME NEW s \in Top
      PROVE  s \in Sources(t) <=> payload[<<s>>] = Dir /\ Target(s) = t
  BY <1>1 DEF Sources, Target
<1>3. ASSUME NEW s \in Sources(t), NEW u \in Sources(t), s # u PROVE FALSE
  <2>1. /\ s \in Top /\ u \in Top /\ payload[<<s>>] = Dir /\ payload[<<u>>] = Dir
        /\ Target(s) = t /\ Target(u) = t
    BY <1>2, <1>3 DEF Sources
  <2>2. \A v \in Top : DirOf(before, v) = t => DirOf(before, t) = t
    <3> SUFFICES ASSUME NEW v \in Top, DirOf(before, v) = t PROVE DirOf(before, t) = t
      OBVIOUS
    <3>1. before[<<t>>] = Dir
      BY <1>1, DirOfFacts
    <3> QED BY <1>1, <3>1, WayStays, NodeFacts
  <2>3. DirOf(before, s) = t /\ DirOf(before, u) = t
    BY <1>1, <1>3, <2>1, <2>2 DEF Target
  <2> QED BY <1>1, <1>3, <2>1, <2>3, OrderFacts
<1> QED BY <1>2, <1>3

\* As long as a merge goes on, what it should give does not change.
LEMMA SameGoal ==
    ASSUME payload' = payload, before' = before
    PROVE  /\ OrderMatters' <=> OrderMatters
           /\ \A t \in Top : Overlay(<<t>>)' = Overlay(<<t>>)
           /\ \A t \in Top : Sources(t)' = Sources(t)
           /\ \A t \in Top, c \in Child : Base(t, c)' = Base(t, c)
<1>1. OrderMatters' <=> OrderMatters
  BY DEF OrderMatters
<1>2. \A t \in Top : Sources(t)' = Sources(t)
  BY DEF Sources
<1>3. ASSUME NEW t \in Top PROVE Overlay(<<t>>)' = Overlay(<<t>>)
  BY <1>2, PathFacts DEF Overlay
<1>4. \A t \in Top, c \in Child : Base(t, c)' = Base(t, c)
  BY DEF Base
<1> QED BY <1>1, <1>2, <1>3, <1>4

-----------------------------------------------------------------------------
(***************************************************************************)
(* A merge stays on its way to the overlay.                                *)
(***************************************************************************)

\* The invariant after a step of a merge that goes on.
LEMMA StillMerging ==
    ASSUME payload' = payload, before' = before, pc = "merging", MergeInv,
           ~OrderMatters /\ NamesInv /\ EntriesInv =>
              /\ \A t \in Top :
                    /\ <<t>> \notin Pending' => tree'[<<t>>] = Overlay(<<t>>)
                    /\ <<t>> \in todo' => tree'[<<t>>] = before[<<t>>]
                    /\ at' = <<t>> =>
                          \/ tree'[<<t>>] = before[<<t>>]
                          \/ tree'[<<t>>] = None /\ (payload[<<t>>] = Dir => DirOf(before, t) = None)
              /\ \A t \in Top, c \in Child :
                    tree'[<<t>>] = Dir =>
                       /\ \A s \in Sources(t) :
                             payload[<<s, c>>] # None /\ <<s>> \notin Pending' /\ <<s, c>> \notin Pending' =>
                                tree'[<<t, c>>] = payload[<<s, c>>]
                       /\ (\A s \in Sources(t) :
                              payload[<<s, c>>] = None \/ <<s>> \in Pending' \/ <<s, c>> \in todo') =>
                                tree'[<<t, c>>] = Base(t, c)
    PROVE  MergeInv'
<1> SUFFICES ASSUME ~OrderMatters' PROVE NamesInv' /\ EntriesInv'
  BY DEF MergeInv
<1>1. ~OrderMatters /\ NamesInv /\ EntriesInv
  BY SameGoal DEF MergeInv
<1>2. NamesInv'
  BY <1>1, SameGoal DEF NamesInv
<1>3. EntriesInv'
  BY <1>1, SameGoal DEF EntriesInv
<1> QED BY <1>2, <1>3

LEMMA StartMerges ==
    ASSUME TypeInv, NEW source \in Payloads, StartMerge(source)
    PROVE  MergeInv'
<1>1. IsTree(source) /\ IsTree(tree) /\ at = None
  BY NodeAssumption DEF TypeInv, TypeOK, TodoInv, StartMerge
<1>2. /\ payload' = source /\ before' = tree /\ tree' = tree /\ at' = None
      /\ todo' = {p \in Path : Len(p) = 1 /\ source[p] # None} /\ Pending' = todo'
  BY <1>1 DEF StartMerge, Pending
<1>3. ASSUME NEW t \in Top PROVE (<<t>> \in todo' <=> source[<<t>>] # None) /\ at' # <<t>>
  <2>1. <<t>> \in Path /\ Len(<<t>>) = 1 /\ <<t>> # None
    BY PathFacts
  <2> QED BY <1>2, <2>1
<1>4. ASSUME NEW t \in Top, source[<<t>>] = None PROVE Overlay(<<t>>)' = tree[<<t>>]
  BY <1>2, <1>4, PathFacts DEF Overlay
<1>5. NamesInv'
  BY <1>2, <1>3, <1>4 DEF NamesInv
<1>6. \A s \in Top, c \in Child : source[<<s, c>>] # None => <<s>> \in Pending'
  BY <1>1, <1>2, <1>3, TreeFacts, NodeFacts
<1>7. \A t \in Top, c \in Child : tree[<<t>>] = Dir => Base(t, c)' = tree[<<t, c>>]
  BY <1>2 DEF Base
<1>8. EntriesInv'
  BY <1>2, <1>6, <1>7 DEF EntriesInv, Sources
<1> QED BY <1>5, <1>8 DEF MergeInv

LEMMA EnterMerges ==
    ASSUME TypeInv, MergeInv, NEW p \in Path, Enter(p)
    PROVE  MergeInv'
<1>1. /\ at' = p /\ p \in todo /\ todo' = todo \ {p} /\ at = None /\ p # None
      /\ tree' = tree /\ payload' = payload /\ before' = before /\ pc = "merging"
  BY PathFacts DEF Enter
<1>2. Pending' = Pending
  BY <1>1 DEF Pending
<1>3. ASSUME NamesInv, NEW t \in Top
      PROVE  /\ <<t>> \notin Pending' => tree'[<<t>>] = Overlay(<<t>>)
             /\ <<t>> \in todo' => tree'[<<t>>] = before[<<t>>]
             /\ at' = <<t>> => tree'[<<t>>] = before[<<t>>]
  BY <1>1, <1>2, <1>3 DEF NamesInv
<1>4. ASSUME EntriesInv, NEW t \in Top, NEW c \in Child, tree'[<<t>>] = Dir
      PROVE  /\ \A s \in Sources(t) :
                   payload[<<s, c>>] # None /\ <<s>> \notin Pending' /\ <<s, c>> \notin Pending' =>
                      tree'[<<t, c>>] = payload[<<s, c>>]
             /\ (\A s \in Sources(t) :
                    payload[<<s, c>>] = None \/ <<s>> \in Pending' \/ <<s, c>> \in todo') =>
                      tree'[<<t, c>>] = Base(t, c)
  BY <1>1, <1>2, <1>4 DEF EntriesInv
<1> QED BY <1>1, <1>3, <1>4, StillMerging

LEMMA RemoveMerges ==
    ASSUME TypeInv, MergeInv, Remove
    PROVE  MergeInv'
<1>1. /\ IsTree(tree) /\ pc = "merging" /\ at \in Path
      /\ tree' = Without(tree, Real(tree, at)) /\ InTheWay
      /\ payload' = payload /\ before' = before /\ todo' = todo /\ at' = at /\ Pending' = Pending
  BY DEF TypeInv, TypeOK, Remove, Pending
<1>2. ASSUME ~OrderMatters, NamesInv, EntriesInv, NEW s \in Top, at = <<s>>
      PROVE  /\ \A t \in Top :
                   /\ <<t>> \notin Pending => tree'[<<t>>] = Overlay(<<t>>)
                   /\ <<t>> \in todo => tree'[<<t>>] = before[<<t>>]
                   /\ at = <<t>> =>
                         \/ tree'[<<t>>] = before[<<t>>]
                         \/ tree'[<<t>>] = None /\ (payload[<<t>>] = Dir => DirOf(before, t) = None)
             /\ \A t \in Top, c \in Child :
                   tree'[<<t>>] = Dir => tree[<<t>>] = Dir /\ tree'[<<t, c>>] = tree[<<t, c>>]
  <2>1. /\ tree' = Without(tree, <<s>>) /\ <<s>> \in Pending /\ <<s>> \notin todo
        /\ tree[<<s>>] # None /\ (payload[<<s>>] = Dir => DirOf(tree, s) = None)
    BY <1>1, <1>2, AtTop
  <2>2. tree'[<<s>>] = None /\ \A q \in Path : q[1] # s => tree'[q] = tree[q]
    BY <1>1, <2>1, WithoutTop
  <2>3. payload[<<s>>] = Dir => DirOf(before, s) = None
    <3>1. tree[<<s>>] = before[<<s>>]
      BY <1>2, <2>1 DEF NamesInv
    <3> QED BY <1>1, <1>2, <2>1, <3>1, LeadsAsBefore
  <2>4. ASSUME NEW t \in Top, t # s PROVE tree'[<<t>>] = tree[<<t>>] /\ at # <<t>>
    BY <1>2, <2>2, <2>4, PathFacts, PathsDiffer
  <2>5. ASSUME NEW t \in Top, t # s, NEW c \in Child PROVE tree'[<<t, c>>] = tree[<<t, c>>]
    BY <2>2, <2>5, PathFacts
  <2>6. Dir # None
    BY NodeFacts
  <2>7. ASSUME NEW t \in Top
        PROVE  /\ <<t>> \notin Pending => tree'[<<t>>] = Overlay(<<t>>)
               /\ <<t>> \in todo => tree'[<<t>>] = before[<<t>>]
               /\ at = <<t>> =>
                     \/ tree'[<<t>>] = before[<<t>>]
                     \/ tree'[<<t>>] = None /\ (payload[<<t>>] = Dir => DirOf(before, t) = None)
    <3>1. CASE t = s
      BY <2>1, <2>2, <2>3, <3>1
    <3>2. CASE t # s
      BY <1>2, <2>4, <3>2 DEF NamesInv
    <3> QED BY <3>1, <3>2
  <2> QED BY <2>2, <2>4, <2>5, <2>6, <2>7
<1>3. ASSUME ~OrderMatters, NamesInv, EntriesInv, NEW s \in Top, NEW d \in Child, at = <<s, d>>
      PROVE  /\ \A t \in Top : tree'[<<t>>] = tree[<<t>>] /\ at # <<t>>
             /\ \A t \in Top, c \in Child :
                   \/ tree'[<<t, c>>] = tree[<<t, c>>]
                   \/ /\ c = d /\ s \in Sources(t) /\ \A u \in Sources(t) : u = s
                      /\ payload[<<s, c>>] # None /\ <<s>> \notin Pending
                      /\ <<s, c>> \in Pending /\ <<s, c>> \notin todo
  <2> DEFINE to == DirOf(tree, s)
  <2>1. /\ to \in Top /\ tree' = Without(tree, <<to, d>>)
        /\ payload[<<s, d>>] # None /\ payload[<<s>>] = Dir /\ <<s>> \notin Pending
        /\ <<s, d>> \in Pending /\ <<s, d>> \notin todo
    BY <1>1, <1>3, AtChild
  <2>2. to = Target(s)
    BY <1>1, <1>3, <2>1, MergedLeads
  <2>3. s \in Sources(to) /\ \A u \in Sources(to) : u = s
    BY <1>1, <1>3, <2>1, <2>2, SourceFacts
  <2> HIDE DEF to
  <2>4. \A q \in Path : q # <<to, d>> => tree'[q] = tree[q]
    BY <1>1, <2>1, WithoutLeaf
  <2>5. \A t \in Top : tree'[<<t>>] = tree[<<t>>] /\ at # <<t>>
    BY <1>3, <2>1, <2>4, PathFacts, PathsDiffer
  <2>6. ASSUME NEW t \in Top, NEW c \in Child, t # to \/ c # d
        PROVE  tree'[<<t, c>>] = tree[<<t, c>>]
    BY <2>1, <2>4, <2>6, PathFacts, PathsDiffer
  <2> QED BY <2>1, <2>3, <2>5, <2>6
<1>4. CASE \E s \in Top : at = <<s>>
  <2>1. PICK s \in Top : at = <<s>>
    BY <1>4
  <2> QED BY <1>1, <1>2, <2>1, StillMerging DEF EntriesInv
<1>5. CASE \E s \in Top, d \in Child : at = <<s, d>>
  <2>1. PICK s \in Top, d \in Child : at = <<s, d>>
    BY <1>5
  <2>2. ASSUME ~OrderMatters, NamesInv, EntriesInv, NEW t \in Top
        PROVE  /\ <<t>> \notin Pending => tree'[<<t>>] = Overlay(<<t>>)
               /\ <<t>> \in todo => tree'[<<t>>] = before[<<t>>]
               /\ at # <<t>>
    BY <1>3, <2>1, <2>2 DEF NamesInv
  <2>3. ASSUME ~OrderMatters, NamesInv, EntriesInv, NEW t \in Top, NEW c \in Child, tree'[<<t>>] = Dir
        PROVE  /\ \A u \in Sources(t) :
                     payload[<<u, c>>] # None /\ <<u>> \notin Pending /\ <<u, c>> \notin Pending =>
                        tree'[<<t, c>>] = payload[<<u, c>>]
               /\ (\A u \in Sources(t) :
                      payload[<<u, c>>] = None \/ <<u>> \in Pending \/ <<u, c>> \in todo) =>
                        tree'[<<t, c>>] = Base(t, c)
    <3>1. tree[<<t>>] = Dir
      BY <1>3, <2>1, <2>3
    <3>2. CASE tree'[<<t, c>>] = tree[<<t, c>>]
      BY <2>3, <3>1, <3>2 DEF EntriesInv
    <3>3. CASE tree'[<<t, c>>] # tree[<<t, c>>]
      <4>1. /\ s \in Sources(t) /\ \A u \in Sources(t) : u = s
            /\ payload[<<s, c>>] # None /\ <<s>> \notin Pending
            /\ <<s, c>> \in Pending /\ <<s, c>> \notin todo
        BY <1>3, <2>1, <2>3, <3>3
      <4> QED BY <4>1
    <3> QED BY <3>2, <3>3
  <2> QED BY <1>1, <2>2, <2>3, StillMerging
<1> QED BY <1>1, <1>4, <1>5, PathFacts

LEMMA CreateMerges ==
    ASSUME TypeInv, MergeInv, Create
    PROVE  MergeInv'
<1>1. /\ IsTree(tree) /\ IsTree(before) /\ pc = "merging" /\ at \in Path
      /\ payload' = payload /\ before' = before
  BY DEF TypeInv, TypeOK, TodoInv, Create
<1>2. ASSUME ~OrderMatters, NamesInv, EntriesInv, NEW s \in Top, at = <<s>>
      PROVE  /\ \A t \in Top :
                   /\ <<t>> \notin Pending' => tree'[<<t>>] = Overlay(<<t>>)
                   /\ <<t>> \in todo' => tree'[<<t>>] = before[<<t>>]
                   /\ at' # <<t>>
             /\ \A t \in Top, c \in Child :
                   tree'[<<t>>] = Dir =>
                      /\ \A u \in Sources(t) :
                            payload[<<u, c>>] # None /\ <<u>> \notin Pending' /\ <<u, c>> \notin Pending' =>
                               tree'[<<t, c>>] = payload[<<u, c>>]
                      /\ (\A u \in Sources(t) :
                             payload[<<u, c>>] = None \/ <<u>> \in Pending' \/ <<u, c>> \in todo') =>
                               tree'[<<t, c>>] = Base(t, c)
  <2>1. /\ at' = None /\ IsTree(tree') /\ \A p \in Path : p # <<s>> => tree'[p] = tree[p]
        /\ \A u \in Top : <<u>> \in todo' <=> <<u>> \in todo
        /\ \A u \in Top, c \in Child : <<u, c>> \in todo' <=> u = s /\ payload[<<s, c>>] # None
    BY <1>2, CreateTop
  <2>2. /\ Pending' = todo' /\ Pending = todo \cup {<<s>>} /\ <<s>> \notin todo
        /\ payload[<<s>>] \in TopNode /\ payload[<<s>>] # None
        /\ \A u \in Top, c \in Child : <<u, c>> \notin Pending
    BY <1>1, <1>2, <2>1, AtTop, PathFacts DEF Pending
  <2>3. \/ /\ tree[<<s>>] = None /\ tree'[<<s>>] = payload[<<s>>]
           /\ payload[<<s>>] = Dir => DirOf(before, s) = None
        \/ /\ tree[<<s>>] # None /\ tree' = tree /\ tree[<<s>>] = before[<<s>>]
           /\ payload[<<s>>] = Dir /\ DirOf(before, s) # None
    <3>1. CASE tree[<<s>>] = None
      <4>1. tree' = Set(tree, <<s>>, payload[<<s>>])
        BY <1>2, <3>1, CreateTop
      <4>2. tree'[<<s>>] = payload[<<s>>]
        BY <1>1, <2>2, <3>1, <4>1, SetTop
      <4>3. ASSUME payload[<<s>>] = Dir PROVE DirOf(before, s) = None
        <5>1. CASE before[<<s>>] = None
          BY <1>1, <5>1, WayStays, NodeFacts
        <5>2. CASE before[<<s>>] # None
          BY <1>2, <3>1, <4>3, <5>2 DEF NamesInv
        <5> QED BY <5>1, <5>2
      <4> QED BY <3>1, <4>2, <4>3
    <3>2. CASE tree[<<s>>] # None
      <4>1. tree' = tree /\ payload[<<s>>] = Dir /\ DirOf(tree, s) # None
        BY <1>2, <3>2, CreateTop
      <4>2. tree[<<s>>] = before[<<s>>]
        BY <1>2, <3>2 DEF NamesInv
      <4> QED BY <1>1, <1>2, <3>2, <4>1, <4>2, LeadsAsBefore
    <3> QED BY <3>1, <3>2
  <2>4. tree'[<<s>>] = Overlay(<<s>>)
    BY <2>2, <2>3, OverlayTop
  <2>5. \A t \in Top : t # s => tree'[<<t>>] = tree[<<t>>] /\ (<<t>> \in Pending' <=> <<t>> \in Pending)
    BY <2>1, <2>2, PathFacts, PathsDiffer
  <2>6. ASSUME NEW t \in Top
        PROVE  /\ <<t>> \notin Pending' => tree'[<<t>>] = Overlay(<<t>>)
               /\ <<t>> \in todo' => tree'[<<t>>] = before[<<t>>]
               /\ at' # <<t>>
    <3>1. CASE t = s
      BY <2>1, <2>2, <2>4, <3>1, PathFacts
    <3>2. CASE t # s
      BY <1>2, <2>1, <2>5, <3>2, PathFacts DEF NamesInv
    <3> QED BY <3>1, <3>2
  <2>7. \A t \in Top, c \in Child : tree'[<<t, c>>] = tree[<<t, c>>]
    BY <2>1, PathFacts, PathsDiffer
  <2>8. ASSUME NEW t \in Top, NEW c \in Child, tree'[<<t>>] = Dir, NEW u \in Sources(t),
               payload[<<u, c>>] # None, <<u>> \notin Pending', <<u, c>> \notin Pending'
        PROVE  tree'[<<t, c>>] = payload[<<u, c>>]
    <3>1. u \in Top /\ u # s
      BY <2>1, <2>2, <2>8 DEF Sources
    <3>2. <<u>> \notin Pending /\ <<u, c>> \notin Pending
      BY <2>2, <2>5, <2>8, <3>1
    <3>3. CASE tree[<<t>>] = Dir
      BY <1>2, <2>7, <2>8, <3>2, <3>3 DEF EntriesInv
    <3>4. CASE tree[<<t>>] # Dir
      <4>1. t = s /\ payload[<<s>>] = Dir /\ DirOf(before, s) = None
        BY <2>3, <2>5, <2>8, <3>4
      <4>2. s \in Sources(t)
        BY <4>1 DEF Sources
      <4> QED BY <1>1, <1>2, <2>8, <3>1, <4>2, SourceFacts
    <3> QED BY <3>3, <3>4
  <2>9. ASSUME NEW t \in Top, NEW c \in Child, tree'[<<t>>] = Dir,
               \A u \in Sources(t) :
                  payload[<<u, c>>] = None \/ <<u>> \in Pending' \/ <<u, c>> \in todo'
        PROVE  tree'[<<t, c>>] = Base(t, c)
    <3>1. CASE tree[<<t>>] = Dir
      <4>1. ASSUME NEW u \in Sources(t)
            PROVE  payload[<<u, c>>] = None \/ <<u>> \in Pending \/ <<u, c>> \in todo
        <5>1. u \in Top
          BY DEF Sources
        <5>2. CASE u = s
          BY <2>2, <5>2
        <5>3. CASE u # s
          BY <2>1, <2>5, <2>9, <5>1, <5>3
        <5> QED BY <5>2, <5>3
      <4> QED BY <1>2, <2>7, <3>1, <4>1 DEF EntriesInv
    <3>2. CASE tree[<<t>>] # Dir
      <4>1. t = s /\ payload[<<s>>] = Dir /\ DirOf(before, s) = None
        BY <2>3, <2>5, <2>9, <3>2
      <4>2. before[<<t>>] # Dir
        BY <1>1, <4>1, WayStays, NodeFacts, PathFacts
      <4>3. tree[<<t, c>>] = None
        BY <1>1, <3>2, TreeFacts
      <4> QED BY <2>7, <4>2, <4>3 DEF Base
    <3> QED BY <3>1, <3>2
  <2> QED BY <2>6, <2>8, <2>9
<1>3. ASSUME ~OrderMatters, NamesInv, EntriesInv, NEW s \in Top, NEW d \in Child, at = <<s, d>>
      PROVE  /\ \A t \in Top :
                   /\ <<t>> \notin Pending' => tree'[<<t>>] = Overlay(<<t>>)
                   /\ <<t>> \in todo' => tree'[<<t>>] = before[<<t>>]
                   /\ at' # <<t>>
             /\ \A t \in Top, c \in Child :
                   tree'[<<t>>] = Dir =>
                      /\ \A u \in Sources(t) :
                            payload[<<u, c>>] # None /\ <<u>> \notin Pending' /\ <<u, c>> \notin Pending' =>
                               tree'[<<t, c>>] = payload[<<u, c>>]
                      /\ (\A u \in Sources(t) :
                             payload[<<u, c>>] = None \/ <<u>> \in Pending' \/ <<u, c>> \in todo') =>
                               tree'[<<t, c>>] = Base(t, c)
  <2> DEFINE to == DirOf(tree, s)
  <2>1. /\ to \in Top /\ payload[<<s, d>>] # None /\ payload[<<s>>] = Dir /\ <<s>> \notin Pending
        /\ <<s, d>> \in Pending /\ <<s, d>> \notin todo
    BY <1>1, <1>3, AtChild
  <2>2. to = Target(s)
    BY <1>1, <1>3, <2>1, MergedLeads
  <2>3. /\ s \in Sources(to) /\ \A u \in Sources(to) : u = s
        /\ \A t \in Top : s \in Sources(t) => t = to
    BY <1>1, <1>3, <2>1, <2>2, SourceFacts
  <2>4. /\ todo' = todo /\ at' = None
        /\ tree'[<<to, d>>] = payload[<<s, d>>]
        /\ \A q \in Path : q # <<to, d>> => tree'[q] = tree[q]
    BY <1>3, CreateChild
  <2> HIDE DEF to
  <2>5. Pending' = todo /\ Pending = todo \cup {<<s, d>>}
    BY <1>3, <2>4, PathFacts DEF Pending
  <2>6. ASSUME NEW t \in Top
        PROVE  /\ <<t>> \notin Pending' => tree'[<<t>>] = Overlay(<<t>>)
               /\ <<t>> \in todo' => tree'[<<t>>] = before[<<t>>]
               /\ at' # <<t>> /\ tree'[<<t>>] = tree[<<t>>]
    <3>1. <<t>> \in Path /\ <<t>> # None /\ <<t>> # <<s, d>> /\ <<t>> # <<to, d>>
      BY <2>1, PathFacts, PathsDiffer
    <3> QED BY <1>3, <2>4, <2>5, <3>1 DEF NamesInv
  <2>7. ASSUME NEW t \in Top, NEW c \in Child, tree'[<<t>>] = Dir
        PROVE  /\ \A u \in Sources(t) :
                     payload[<<u, c>>] # None /\ <<u>> \notin Pending' /\ <<u, c>> \notin Pending' =>
                        tree'[<<t, c>>] = payload[<<u, c>>]
               /\ (\A u \in Sources(t) :
                      payload[<<u, c>>] = None \/ <<u>> \in Pending' \/ <<u, c>> \in todo') =>
                        tree'[<<t, c>>] = Base(t, c)
    <3>1. tree[<<t>>] = Dir
      BY <2>6, <2>7
    <3>2. CASE t = to /\ c = d
      BY <2>1, <2>3, <2>4, <2>5, <3>2
    <3>3. CASE t # to \/ c # d
      <4>1. tree'[<<t, c>>] = tree[<<t, c>>]
        BY <2>1, <2>4, <3>3, PathFacts, PathsDiffer
      <4>2. ASSUME NEW u \in Sources(t) PROVE <<u, c>> # <<s, d>> /\ <<u>> # <<s, d>>
        <5>1. u \in Top
          BY DEF Sources
        <5>2. ~(u = s /\ c = d)
          BY <2>3, <3>3
        <5> QED BY <5>1, <5>2, PathsDiffer
      <4>3. /\ \A u \in Sources(t) :
                  payload[<<u, c>>] # None /\ <<u>> \notin Pending /\ <<u, c>> \notin Pending =>
                     tree[<<t, c>>] = payload[<<u, c>>]
            /\ (\A u \in Sources(t) :
                   payload[<<u, c>>] = None \/ <<u>> \in Pending \/ <<u, c>> \in todo) =>
                     tree[<<t, c>>] = Base(t, c)
        BY <1>3, <3>1 DEF EntriesInv
      <4> QED BY <2>4, <2>5, <4>1, <4>2, <4>3
    <3> QED BY <3>2, <3>3
  <2> QED BY <2>6, <2>7
<1>4. CASE \E s \in Top : at = <<s>>
  BY <1>1, <1>2, <1>4, StillMerging
<1>5. CASE \E s \in Top, d \in Child : at = <<s, d>>
  BY <1>1, <1>3, <1>5, StillMerging
<1> QED BY <1>1, <1>4, <1>5, PathFacts

-----------------------------------------------------------------------------
(***************************************************************************)
(* The theorems.                                                           *)
(***************************************************************************)

LEMMA Inductive ==
    ASSUME IInv, [Next]_vars
    PROVE  IInv'
<1>1. TypeInv /\ MergeInv
  BY DEF IInv, TypeInv
<1>2. TypeInv'
  BY <1>1, TypesInductive
<1>3. ASSUME pc' = "idle" PROVE MergeInv'
  BY <1>3 DEF MergeInv
<1>4. ASSUME UNCHANGED vars PROVE MergeInv'
  <2>1. /\ tree' = tree /\ pc' = pc /\ todo' = todo /\ at' = at /\ Pending' = Pending
        /\ payload' = payload /\ before' = before
    BY <1>4 DEF vars, Pending
  <2>2. CASE pc = "merging"
    BY <1>1, <2>1, <2>2, StillMerging DEF NamesInv, EntriesInv
  <2>3. CASE pc = "idle"
    BY <1>3, <2>1, <2>3
  <2> QED BY <1>1, <2>2, <2>3 DEF TypeInv, TypeOK
<1>5. ASSUME NEW source \in Payloads, StartMerge(source) PROVE MergeInv'
  BY <1>1, <1>5, StartMerges
<1>6. ASSUME NEW p \in Path, Enter(p) PROVE MergeInv'
  BY <1>1, <1>6, EnterMerges
<1>7. ASSUME EndMerge \/ Stop PROVE MergeInv'
  BY <1>3, <1>7 DEF EndMerge, Stop, Leave
<1>8. ASSUME NEW p \in Top \X Child, NEW o \in Owner, InstallFile(p, o) PROVE MergeInv'
  BY <1>3, <1>8 DEF InstallFile, Others
<1>9. ASSUME NEW p \in Top \X Child, NEW to \in Top \X Child, MakeLink(p, to) PROVE MergeInv'
  BY <1>3, <1>9 DEF MakeLink, Others
<1>10. ASSUME NEW t \in Top, NEW source \in Payloads, ReplaceTree(t, source) \/ StopReplace(t, source)
       PROVE  MergeInv'
  BY <1>3, <1>10 DEF ReplaceTree, StopReplace, CanReplace, Others
<1>11. MergeInv'
  BY <1>1, <1>4, <1>5, <1>6, <1>7, <1>8, <1>9, <1>10, RemoveMerges, CreateMerges DEF Next
<1> QED BY <1>2, <1>11 DEF IInv, TypeInv

\* The invariant holds in every reachable state: the sysroot is a tree, what
\* is left of a merge has a place to go to, and what is merged is as it
\* should be.  (SysrootInstaller)
THEOREM InductiveInvariant == Spec => []IInv
<1>1. Init => IInv
  BY TypesInit DEF Init, IInv, TypeInv, MergeInv
<1>2. IInv /\ [Next]_vars => IInv'
  BY Inductive
<1> QED BY <1>1, <1>2, PTL DEF Spec

\* The sysroot is a tree of entries of the right kinds, whatever was removed,
\* replaced or cut short, however many names and payloads there are.
\* (SysrootInstaller)
THEOREM TypeCorrect == Spec => []TypeOK
<1>1. IInv => TypeOK
  BY DEF IInv
<1> QED BY <1>1, InductiveInvariant, PTL

LEMMA EndIsOverlay ==
    ASSUME IInv
    PROVE  MergeIsOverlay
<1> SUFFICES ASSUME Merged, ~OrderMatters, NEW p \in Path PROVE tree[p] = Overlay(p)
  BY DEF MergeIsOverlay
<1>1. NamesInv /\ EntriesInv /\ IsTree(tree) /\ pc = "merging" /\ todo = {} /\ Pending = {}
  BY DEF IInv, MergeInv, TypeOK, Merged, Pending
<1>2. \A t \in Top : tree[<<t>>] = Overlay(<<t>>)
  BY <1>1 DEF NamesInv
<1>3. ASSUME NEW t \in Top, NEW c \in Child PROVE tree[<<t, c>>] = Overlay(<<t, c>>)
  <2> DEFINE new == {s \in Sources(t) : payload[<<s, c>>] # None}
             s == CHOOSE s \in new : TRUE
  <2>1. Overlay(<<t, c>>) =
          IF tree[<<t>>] # Dir THEN None
          ELSE IF new # {} THEN payload[<<s, c>>]
          ELSE Base(t, c)
    BY <1>2, OverlayTop, PathFacts DEF Overlay, Base
  <2>2. CASE tree[<<t>>] # Dir
    BY <1>1, <2>1, <2>2, TreeFacts
  <2>3. CASE tree[<<t>>] = Dir /\ new # {}
    <3>1. s \in new
      BY <2>3
    <3>2. s \in Sources(t) /\ payload[<<s, c>>] # None
      BY <3>1
    <3> HIDE DEF s, new
    <3>3. tree[<<t, c>>] = payload[<<s, c>>]
      BY <1>1, <2>3, <3>2 DEF EntriesInv
    <3> QED BY <2>1, <2>3, <3>3
  <2>4. CASE tree[<<t>>] = Dir /\ new = {}
    <3>1. \A u \in Sources(t) : payload[<<u, c>>] = None
      BY <2>4
    <3>2. tree[<<t, c>>] = Base(t, c)
      BY <1>1, <2>4, <3>1 DEF EntriesInv
    <3> QED BY <2>1, <2>4, <3>2
  <2> QED BY <2>2, <2>3, <2>4
<1> QED BY <1>2, <1>3, PathFacts

\* A merge that ends has put the payload over the sysroot as it was, through
\* links to directories too, in any order of the listing and after any number
\* of merges that were cut short, unless the order matters.
\* (install_tree, _merge_path)
THEOREM MergeOverlays == Spec => []MergeIsOverlay
<1>1. IInv => MergeIsOverlay
  BY EndIsOverlay
<1> QED BY <1>1, InductiveInvariant, PTL

\* What a step of a merge may change.
Licensed(p) ==
    IF Len(p) = 1 THEN payload[p] # None
    ELSE \/ payload[<<p[1]>>] \notin {None, Dir}
         \/ \E s \in Top : payload[<<s, p[2]>>] # None /\ DirOf(tree, s) = p[1]

\* A directory that is in the way is not one of the payload.
LEMMA OnlyReplaced ==
    ASSUME TypeInv, pc = "merging", NEW s \in Top, at = <<s>>, InTheWay,
           NEW c \in Child, tree[<<s, c>>] # None
    PROVE  Licensed(<<s, c>>)
<1>1. IsTree(tree)
  BY DEF TypeInv, TypeOK
<1>2. DirOf(tree, s) = s /\ s # None
  BY <1>1, TreeFacts, WayStays, NodeFacts, PathFacts
<1>3. payload[<<s>>] # None /\ payload[<<s>>] # Dir
  BY <1>2, AtTop
<1> QED BY <1>3, PathFacts DEF Licensed

LEMMA AtIsLicensed ==
    ASSUME TypeInv, pc = "merging", at \in Path
    PROVE  Licensed(Real(tree, at))
<1>1. CASE \E s \in Top : at = <<s>>
  <2>1. PICK s \in Top : at = <<s>>
    BY <1>1
  <2>2. Real(tree, at) = <<s>> /\ payload[<<s>>] # None
    BY <2>1, AtTop
  <2> QED BY <2>2, PathFacts DEF Licensed
<1>2. CASE \E s \in Top, c \in Child : at = <<s, c>>
  <2>1. PICK s \in Top, c \in Child : at = <<s, c>>
    BY <1>2
  <2> DEFINE t == DirOf(tree, s)
  <2>2. t \in Top /\ Real(tree, at) = <<t, c>> /\ payload[<<s, c>>] # None
    BY <2>1, AtChild
  <2>3. Len(<<t, c>>) = 2 /\ <<t, c>>[1] = t /\ <<t, c>>[2] = c
    BY <2>2
  <2> QED BY <2>2, <2>3 DEF Licensed
<1> QED BY <1>1, <1>2, PathFacts

LEMMA StepSurvive ==
    ASSUME IInv, [Next]_vars, pc = "merging", NEW p \in Path, tree'[p] # tree[p]
    PROVE  Licensed(p)
<1>1. TypeInv /\ IsTree(tree)
  BY DEF IInv, TypeInv, TypeOK
<1>2. Remove \/ Create \/ Stop
  BY DEF Next, vars, StartMerge, Enter, EndMerge, InstallFile, MakeLink, ReplaceTree, StopReplace, CanReplace
<1>3. CASE Stop
  <2>1. /\ at # None /\ at \in Path
        /\ p = Real(tree, at) \/ (Len(p) = 2 /\ tree[p] # None /\ at = <<p[1]>> /\ InTheWay)
    BY <1>1, <1>3, StopEffect DEF TypeInv, TypeOK
  <2>2. CASE Len(p) = 2 /\ tree[p] # None /\ at = <<p[1]>> /\ InTheWay
    <3>1. PICK s \in Top, c \in Child : p = <<s, c>> /\ p[1] = s
      BY <2>2, PathFacts
    <3> QED BY <1>1, <2>2, <3>1, OnlyReplaced
  <2> QED BY <1>1, <2>1, <2>2, AtIsLicensed
<1>4. CASE Remove \/ Create
  <2>1. at \in Path
    BY <1>1, <1>4 DEF Remove, Create, TypeInv, TypeOK
  <2>2. CASE p = Real(tree, at)
    BY <1>1, <2>1, <2>2, AtIsLicensed
  <2>3. CASE p # Real(tree, at)
    <3>1. CASE Create
      <4>1. CASE \E s \in Top : at = <<s>>
        BY <1>1, <2>3, <3>1, <4>1, AtTop, CreateTop
      <4>2. CASE \E s \in Top, c \in Child : at = <<s, c>>
        BY <1>1, <2>3, <3>1, <4>2, AtChild, CreateChild
      <4> QED BY <2>1, <4>1, <4>2, PathFacts
    <3>2. CASE Remove
      <4>1. tree' = Without(tree, Real(tree, at)) /\ InTheWay
        BY <3>2 DEF Remove
      <4>2. CASE \E s \in Top : at = <<s>>
        <5>1. PICK s \in Top : at = <<s>>
          BY <4>2
        <5>2. tree' = Without(tree, <<s>>) /\ p # <<s>>
          BY <1>1, <2>3, <4>1, <5>1, AtTop
        <5>3. p[1] = s
          BY <1>1, <5>2, WithoutTop
        <5>4. PICK c \in Child : p = <<s, c>>
          BY <5>2, <5>3, PathFacts
        <5>5. tree[<<s, c>>] # None
          BY <1>1, <5>2, <5>4, WithoutTop
        <5> QED BY <1>1, <4>1, <5>1, <5>4, <5>5, OnlyReplaced
      <4>3. CASE \E s \in Top, c \in Child : at = <<s, c>>
        <5>1. PICK t \in Top, c \in Child : Real(tree, at) = <<t, c>>
          BY <1>1, <4>3, AtChild
        <5> QED BY <1>1, <2>3, <4>1, <5>1, WithoutLeaf
      <4> QED BY <2>1, <4>2, <4>3, PathFacts
    <3> QED BY <1>4, <3>1, <3>2
  <2> QED BY <2>2, <2>3
<1> QED BY <1>2, <1>3, <1>4

\* No step of a merge, one that is cut short included, changes an entry that
\* the payload neither has nor replaces with everything below it, whichever
\* links the sysroot has.  (_merge_path)
THEOREM UnrelatedStay == Spec => UnrelatedSurvive
<1>1. IInv /\ [Next]_vars =>
        [pc = "merging" =>
            \A p \in Path :
                tree'[p] # tree[p] =>
                    IF Len(p) = 1 THEN payload[p] # None
                    ELSE \/ payload[<<p[1]>>] \notin {None, Dir}
                         \/ \E s \in Top : payload[<<s, p[2]>>] # None /\ DirOf(tree, s) = p[1]]_vars
  BY StepSurvive DEF Licensed
<1> QED BY <1>1, InductiveInvariant, PTL DEF Spec, UnrelatedSurvive
=============================================================================
