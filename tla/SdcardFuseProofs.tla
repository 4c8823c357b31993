-------------------------- MODULE SdcardFuseProofs --------------------------
(***************************************************************************)
(* That the node tree of the sdcard daemon stays a tree, with exact        *)
(* reference counts and in agreement with the kernel's dentries, for any   *)
(* number of nodes, names and handler threads.                             *)
(***************************************************************************)
EXTENDS SdcardFuse, ListTheorems, TLAPS

Trees == [refcount : [Dir -> Nat], parent : [Dir -> Dir \cup {NULL}],
          name : [Node -> Names \cup {NULL}], child : [Dir -> Seq(Node)]]

\* A tree whose nodes have e references from outside, with the nodes of D cut
\* off from their parents for a moment.
TreeOK(t, e, D) ==
    /\ t \in Trees /\ e \in [Dir -> Nat]
    /\ \A p \in Dir : /\ Distinct(t.child[p])
                      /\ Elements(t.child[p]) = {n \in Node : t.parent[n] = p}
    /\ \A a \in Dir : t.refcount[a] = e[a] + Len(t.child[a])
    /\ \A n \in Node : t.parent[n] = NULL <=> t.refcount[n] = 0 \/ n \in D

NoCycleIn(t) ==
    \A X \in SUBSET {n \in Node : t.refcount[n] > 0} :
        X # {} => \E n \in X : t.parent[n] \notin X

\* The parts of create_node_locked, rename_node_locked and
\* remove_node_from_parent_locked, and what they do to the counts.
Renamed(t, n, x) == [t EXCEPT !.name[n] = x]
Cut(t, n, p) == [t EXCEPT !.child[p] = Kept(@, Node \ {n}), !.parent[n] = NULL]
More(e, a) == [e EXCEPT ![a] = @ + 1]
Less(e, a, k) == [e EXCEPT ![a] = @ - k]

WithName(t, x) == {c \in Node : t.name[c] = x}

\* n is what lookup_child_by_name_locked finds.
Finds(t, p, x, n) == First(t.child[p], WithName(t, x), n)

\* t2 is t without the nodes of gone, which go with all that is below them.
Pruned(t, t2, gone) ==
    /\ gone \subseteq Node
    /\ \A c \in Node : t.parent[c] \in gone => c \in gone
    /\ \A a \in Dir \ gone : /\ t2.parent[a] = t.parent[a]
                             /\ t2.child[a] = Kept(t.child[a], Node \ gone)
    /\ \A a \in Node \ gone : t2.name[a] = t.name[a]
    /\ \A a \in Node : t2.refcount[a] > 0 <=> t.refcount[a] > 0 /\ a \notin gone

\* The references from outside the tree; the root has two that stay.
External ==
    [a \in Dir |-> IF a = Root THEN 2
                   ELSE nlookup[a] + forgets[a] + Cardinality(Holders(a)) + lost[a]]

Requests ==
    [op : EntryOps \cup {"none", "remove", "rename", "node"},
     pc : {"idle", "new", "unlocked", "check", "entry", "move", "reply", "done"},
     p : Dir \cup {NULL}, x : Names \cup {NULL}, q : Dir \cup {NULL}, y : Names \cup {NULL},
     n : Node \cup {NULL}, m : Node \cup {NULL}, node : Dir \cup {NULL}]

\* The request r holds a reference to a.
Holds(r, a) == r.node = a /\ r.pc \in {"unlocked", "move", "reply"}

\* s is the request r, further on.
SameAsk(r, s) ==
    s.op = r.op /\ s.p = r.p /\ s.x = r.x /\ s.q = r.q /\ s.y = r.y /\ s.n = r.n /\ s.m = r.m

\* What its position says of a request.
Position(r) ==
    /\ r.op = "none" => r = NoRequest
    /\ r.op # "none" => r.pc # "idle"
    /\ r.pc \in {"unlocked", "move"} => r.op = "rename" /\ r.node = r.n
    /\ r.pc \in {"entry", "reply"} => r.op \in EntryOps
    /\ r.pc = "check" => r.op = "node"
    /\ r.pc = "done" => r.op \in {"remove", "rename"}
    /\ r.pc = "done" => r.node \in {r.n, NULL}
    /\ r.pc \in {"new", "entry"} => r.node = NULL
    /\ r.pc = "reply" => r.node \in Node
    /\ r.op \in EntryOps \cup {"remove", "rename"} => r.p # NULL /\ r.x \in Names
    /\ r.op \in {"revalidate", "remove", "rename", "node"} => r.n # NULL
    /\ r.op = "rename" => r.q # NULL /\ r.y \in Names
Positions == \A h \in Handlers : Position(req[h])

Known(n) == n \in {NULL, Root} \/ nlookup[n] > 0

\* The kernel has a lookup of every node in its dentries and its requests, and
\* a directory with dentries has one itself.
Pins ==
    /\ \A p \in Dir, x \in Names : Known(dentry[p][x])
    /\ \A h \in Handlers : /\ Known(req[h].p) /\ Known(req[h].q)
                           /\ Known(req[h].n) /\ Known(req[h].m)
    /\ \A p \in Dir : HasDentries(p) => InDcache(p)

\* Two requests lock different directories.
Serialized ==
    \A g, h \in Handlers : g # h => LockedBy(req[g]) \cap LockedBy(req[h]) \subseteq {NULL}

\* What the locks keep as it was when the request was made.
Undisturbed(r) ==
    /\ r.op \in {"lookup", "create"} => InDcache(r.p) /\ dentry[r.p][r.x] = NULL
    /\ r.op = "remove" => dentry[r.p][r.x] = r.n /\ ~HasDentries(r.n)
    /\ r.op = "rename" =>
          /\ dentry[r.p][r.x] = r.n /\ dentry[r.q][r.y] = r.m /\ r.n # r.m
          /\ InDcache(r.q)
          /\ r.m # NULL => ~HasDentries(r.m)
Locks == Serialized /\ \A h \in Handlers : Undisturbed(req[h])

\* What the daemon finds under the name of a request that it has answered.
Answered(t, r) ==
    /\ r.pc = "reply" /\ r.op \in {"lookup", "create"} => Finds(t, r.p, r.x, r.node)
    /\ r.pc = "done" /\ r.op = "rename" =>
          Finds(t, r.q, r.y, r.n) /\ (r.m # NULL => t.parent[r.m] = r.q)
Agreement ==
    /\ \A p \in Dir, x \in Names :
          dentry[p][x] # NULL /\ ~Moving(p, x) => Finds(tree, p, x, dentry[p][x])
    /\ \A h \in Handlers : Answered(tree, req[h])

\* A set of directories from which the parents never lead to n.
Clear(t, q, n) ==
    \E U \in SUBSET Dir :
        /\ q \in U /\ n \notin U
        /\ \A u \in U \ {Root} : t.parent[u] \in U

Across(r) == r.op = "rename" /\ r.p # r.q

\* A rename to another directory is alone, and its target is not below n.
Alone == \A g, h \in Handlers : Across(req[g]) /\ Across(req[h]) => g = h
Apart(t, r) == Across(r) /\ r.pc # "done" => Clear(t, r.q, r.n)
Renames == Alone /\ \A h \in Handlers : Apart(tree, req[h])

TreeHolds == /\ TreeOK(tree, External, {}) /\ tree.parent[Root] = NULL /\ NoCycleIn(tree)

Inv == TypeOK /\ TreeHolds /\ Positions /\ Pins /\ Locks /\ Agreement /\ Renames


-----------------------------------------------------------------------------
(* The tree operations                                                     *)

LEMMA TreeFacts ==
    ASSUME NEW t, NEW e, NEW D, TreeOK(t, e, D)
    PROVE  /\ t.refcount \in [Dir -> Nat] /\ t.parent \in [Dir -> Dir \cup {NULL}]
           /\ t.name \in [Node -> Names \cup {NULL}] /\ t.child \in [Dir -> Seq(Node)]
           /\ e \in [Dir -> Nat]
           /\ \A p \in Dir : Len(t.child[p]) \in Nat
           /\ \A p \in Dir : /\ IsFiniteSet(Elements(t.child[p]))
                             /\ Cardinality(Elements(t.child[p])) = Len(t.child[p])
           /\ \A c \in Node, p \in Dir : t.parent[c] = p => Len(t.child[p]) > 0 /\ t.refcount[p] > 0
<1>1. /\ t.refcount \in [Dir -> Nat] /\ t.parent \in [Dir -> Dir \cup {NULL}]
      /\ t.name \in [Node -> Names \cup {NULL}] /\ t.child \in [Dir -> Seq(Node)]
      /\ e \in [Dir -> Nat]
  BY DEF TreeOK, Trees
<1>2. ASSUME NEW p \in Dir
      PROVE  /\ Len(t.child[p]) \in Nat /\ IsFiniteSet(Elements(t.child[p]))
             /\ Cardinality(Elements(t.child[p])) = Len(t.child[p])
  <2>1. t.child[p] \in Seq(Node) /\ Distinct(t.child[p])
    BY <1>1 DEF TreeOK
  <2> QED
    BY <2>1, DistinctLen
<1>3. ASSUME NEW c \in Node, NEW p \in Dir, t.parent[c] = p
      PROVE  Len(t.child[p]) > 0 /\ t.refcount[p] > 0
  <2>1. c \in Elements(t.child[p])
    BY <1>3 DEF TreeOK
  <2>2. Len(t.child[p]) # 0
    BY <1>2, <2>1, FS_EmptySet
  <2>3. t.refcount[p] = e[p] + Len(t.child[p]) /\ e[p] \in Nat
    BY <1>1 DEF TreeOK
  <2> QED
    BY <1>2, <2>2, <2>3
<1> QED
  BY <1>1, <1>2, <1>3

\* What a release destroys is the least set with the node, if it goes, and
\* with every parent that goes with its child.
LEMMA DestroyedFacts ==
    ASSUME NEW t, NEW n, NEW k
    PROVE  LET gone == Destroyed(t, n, k)
           IN  /\ gone \subseteq Node /\ Upward(t, gone)
               /\ n \in Node /\ t.refcount[n] <= k => n \in gone
               /\ \A a \in gone : \/ a = n /\ t.refcount[n] <= k
                                  \/ t.refcount[a] = 1 /\ \E c \in gone : t.parent[c] = a
               /\ gone # {} => n \in gone /\ t.refcount[n] <= k
<1> DEFINE gone == Destroyed(t, n, k)
           Closed(X) == Upward(t, X) /\ (n \in Node /\ t.refcount[n] <= k => n \in X)
<1>0. gone = {a \in Node : \A X \in SUBSET Node : Closed(X) => a \in X}
  BY DEF Destroyed
<1> HIDE DEF gone
<1>1. gone \subseteq Node
  BY <1>0
<1>2. Closed(gone)
  <2>1. n \in Node /\ t.refcount[n] <= k => n \in gone
    BY <1>0
  <2>2. ASSUME NEW p \in Node, t.refcount[p] = 1, NEW c \in gone, t.parent[c] = p
        PROVE  p \in gone
    <3>1. ASSUME NEW X \in SUBSET Node, Closed(X) PROVE p \in X
      <4>1. c \in X
        BY <1>0, <3>1
      <4> QED
        BY <2>2, <3>1, <4>1 DEF Upward
    <3> HIDE DEF Closed
    <3> QED
      BY <1>0, <3>1
  <2> QED
    BY <2>1, <2>2 DEF Upward
<1>3. ASSUME NEW X \in SUBSET Node, Closed(X) PROVE gone \subseteq X
  BY <1>0, <1>3
<1>4. ASSUME NEW a \in gone, ~(a = n /\ t.refcount[n] <= k),
             ~(t.refcount[a] = 1 /\ \E c \in gone : t.parent[c] = a)
      PROVE  FALSE
  <2>1. Closed(gone \ {a})
    BY <1>2, <1>4 DEF Upward
  <2>2. gone \ {a} \in SUBSET Node
    BY <1>1
  <2> HIDE DEF Closed
  <2> QED
    BY <1>3, <2>1, <2>2
<1>5. ASSUME gone # {}, ~(n \in gone /\ t.refcount[n] <= k) PROVE FALSE
  <2>1. Closed({})
    BY <1>2, <1>5 DEF Upward
  <2> HIDE DEF Closed
  <2> QED
    BY <1>3, <1>5, <2>1
<1> QED
  BY <1>1, <1>2, <1>4, <1>5 DEF gone

\* The nodes that go have no reference left, their children go with them, and
\* they are one chain: only one of them has a parent that stays.
LEMMA GoneFacts ==
    ASSUME NEW t, NEW e, NEW D, TreeOK(t, e, D), NEW n \in Dir, NEW k \in Nat \ {0}, k <= e[n],
           NEW gone, gone = Destroyed(t, n, k)
    PROVE  /\ gone \subseteq Node /\ IsFiniteSet(gone)
           /\ \A a \in gone : e[a] = (IF a = n THEN k ELSE 0)
           /\ \A c \in Node : t.parent[c] \in gone => c \in gone
           /\ \A a \in gone : t.refcount[a] > 0
           /\ \A c, d \in gone : t.parent[c] \notin gone /\ t.parent[d] \notin gone => c = d
<1>t. /\ t.refcount \in [Dir -> Nat] /\ t.parent \in [Dir -> Dir \cup {NULL}]
      /\ e \in [Dir -> Nat]
      /\ \A p \in Dir : Len(t.child[p]) \in Nat
      /\ \A p \in Dir : /\ IsFiniteSet(Elements(t.child[p]))
                        /\ Cardinality(Elements(t.child[p])) = Len(t.child[p])
      /\ \A c \in Node, p \in Dir : t.parent[c] = p => Len(t.child[p]) > 0 /\ t.refcount[p] > 0
  BY TreeFacts
<1>c. \A a \in Dir : t.refcount[a] = e[a] + Len(t.child[a])
  BY DEF TreeOK
<1>p. \A p \in Dir : Elements(t.child[p]) = {c \in Node : t.parent[c] = p}
  BY DEF TreeOK
<1>g. /\ gone \subseteq Node /\ Upward(t, gone)
      /\ \A a \in gone : \/ a = n /\ t.refcount[n] <= k
                         \/ t.refcount[a] = 1 /\ \E c \in gone : t.parent[c] = a
      /\ gone # {} => n \in gone /\ t.refcount[n] <= k
  BY DestroyedFacts
<1>d. gone \subseteq Dir
  BY <1>g DEF Dir
<1>1. n \in gone => t.refcount[n] = k /\ e[n] = k /\ Len(t.child[n]) = 0
  <2>1. t.refcount[n] = e[n] + Len(t.child[n]) /\ e[n] \in Nat /\ Len(t.child[n]) \in Nat
    BY <1>c, <1>t
  <2> QED
    BY <1>g, <2>1
<1>2. ASSUME NEW c \in Node PROVE n \in gone => t.parent[c] # n
  BY <1>1, <1>t
<1>3. ASSUME NEW a \in gone, a # n
      PROVE  /\ t.refcount[a] = 1 /\ e[a] = 0 /\ Len(t.child[a]) = 1
             /\ \E c \in gone : t.parent[c] = a
             /\ \A c, d \in Node : t.parent[c] = a /\ t.parent[d] = a => c = d
  <2>1. t.refcount[a] = 1
    BY <1>3, <1>g
  <2>2. PICK c \in gone : t.parent[c] = a
    BY <1>3, <1>g
  <2>3. Len(t.child[a]) > 0
    BY <1>t, <1>d, <1>g, <2>2
  <2>4. /\ t.refcount[a] = e[a] + Len(t.child[a]) /\ e[a] \in Nat /\ Len(t.child[a]) \in Nat
    BY <1>c, <1>t, <1>d
  <2>5. e[a] = 0 /\ Len(t.child[a]) = 1
    <3>1. \A i, j \in Nat : 1 = i + j /\ j > 0 => i = 0 /\ j = 1
      OBVIOUS
    <3> QED
      BY <2>1, <2>3, <2>4, <3>1
  <2>6. PICK x : Elements(t.child[a]) = {x}
    BY <1>t, <1>d, <2>5, FS_Singleton
  <2>7. {d \in Node : t.parent[d] = a} = {x}
    BY <1>p, <1>d, <2>6
  <2> QED
    BY <2>1, <2>2, <2>5, <2>7
<1>4. IsFiniteSet(gone)
  BY <1>g, FinitenessAssumption, FS_Subset
<1>5. \A c \in Node : t.parent[c] \in gone => c \in gone
  <2> SUFFICES ASSUME NEW c \in Node, t.parent[c] \in gone PROVE c \in gone
    OBVIOUS
  <2>1. t.parent[c] # n
    BY <1>2
  <2> QED
    BY <1>3, <1>g, <2>1
<1>6. \A c, d \in gone : t.parent[c] \notin gone /\ t.parent[d] \notin gone => c = d
  <2> SUFFICES ASSUME gone # {} PROVE \A c, d \in gone : t.parent[c] \notin gone /\ t.parent[d] \notin gone => c = d
    OBVIOUS
  <2> DEFINE Top == {c \in gone : t.parent[c] \notin gone}
             Inner == gone \ Top
             f == [c \in Inner |-> t.parent[c]]
  <2>1. n \in gone
    BY <1>g
  <2>2. f \in Surjection(Inner, gone \ {n})
    <3>1. f \in [Inner -> gone \ {n}]
      BY <1>2, <1>g, <2>1
    <3>2. ASSUME NEW a \in gone \ {n} PROVE \E c \in Inner : f[c] = a
      BY <1>3
    <3> HIDE DEF f, Inner
    <3> QED
      BY <3>1, <3>2 DEF Surjection
  <2>3. IsFiniteSet(Inner) /\ IsFiniteSet(Top)
    BY <1>4, FS_Subset
  <2>4. Cardinality(gone \ {n}) <= Cardinality(Inner)
    <3> HIDE DEF Inner, f
    <3> QED
      BY <2>2, <2>3, FS_Surjection
  <2>5. Cardinality(gone \ {n}) = Cardinality(gone) - 1
    BY <1>4, <2>1, FS_RemoveElement
  <2>6. Cardinality(Inner) = Cardinality(gone) - Cardinality(Top)
    <3>1. gone \cap Top = Top
      OBVIOUS
    <3> HIDE DEF Top
    <3>2. Cardinality(gone \ Top) = Cardinality(gone) - Cardinality(gone \cap Top)
      BY <1>4, FS_Difference, Zenon
    <3> QED
      BY <3>1, <3>2, Zenon
  <2>7. Cardinality(Top) \in Nat /\ Cardinality(gone) \in Nat
    BY <1>4, <2>3, FS_CardinalityType
  <2>8. Cardinality(Top) = 0 \/ Cardinality(Top) = 1
    <3>1. \A i, j \in Nat : i - 1 <= i - j => j = 0 \/ j = 1
      OBVIOUS
    <3> HIDE DEF Top, Inner
    <3> QED
      BY <2>4, <2>5, <2>6, <2>7, <3>1
  <2>9. Top = {} \/ \E x : Top = {x}
    <3> HIDE DEF Top
    <3> QED
      BY <2>3, <2>8, FS_EmptySet, FS_Singleton
  <2> QED
    BY <2>9
<1>7. \A a \in gone : e[a] = (IF a = n THEN k ELSE 0)
  BY <1>1, <1>3
<1>8. \A a \in gone : t.refcount[a] > 0
  BY <1>1, <1>3
<1> QED
  BY <1>g, <1>4, <1>5, <1>6, <1>7, <1>8

\* A release takes the references from the count, and the nodes that nothing
\* refers to any more from the tree.
LEMMA ReleaseFacts ==
    ASSUME NEW t, NEW e, NEW D, TreeOK(t, e, D), NEW n \in Dir, NEW k \in Nat \ {0}, k <= e[n],
           NEW t2, t2 = Release(t, n, k), NEW e2, e2 = Less(e, n, k)
    PROVE  /\ TreeOK(t2, e2, D)
           /\ \E gone : Pruned(t, t2, gone) /\ \A a \in gone : e2[a] = 0
<1> DEFINE gone == Destroyed(t, n, k)
           Lost(a) == {c \in gone : t.parent[c] = a}
<1>t. /\ t.refcount \in [Dir -> Nat] /\ t.parent \in [Dir -> Dir \cup {NULL}]
      /\ t.name \in [Node -> Names \cup {NULL}] /\ t.child \in [Dir -> Seq(Node)]
      /\ e \in [Dir -> Nat]
      /\ \A p \in Dir : Len(t.child[p]) \in Nat
      /\ \A p \in Dir : /\ IsFiniteSet(Elements(t.child[p]))
                        /\ Cardinality(Elements(t.child[p])) = Len(t.child[p])
      /\ \A c \in Node, p \in Dir : t.parent[c] = p => Len(t.child[p]) > 0 /\ t.refcount[p] > 0
  BY TreeFacts
<1>c. \A a \in Dir : t.refcount[a] = e[a] + Len(t.child[a])
  BY DEF TreeOK
<1>p. \A p \in Dir : Distinct(t.child[p]) /\ Elements(t.child[p]) = {c \in Node : t.parent[c] = p}
  BY DEF TreeOK
<1>g. /\ gone \subseteq Node /\ IsFiniteSet(gone)
      /\ \A a \in gone : e[a] = (IF a = n THEN k ELSE 0)
      /\ \A c \in Node : t.parent[c] \in gone => c \in gone
      /\ \A a \in gone : t.refcount[a] > 0
      /\ \A c, d \in gone : t.parent[c] \notin gone /\ t.parent[d] \notin gone => c = d
  BY GoneFacts
<1>h. /\ Upward(t, gone)
      /\ n \in Node /\ t.refcount[n] <= k => n \in gone
      /\ gone # {} => n \in gone
  BY DestroyedFacts
<1>r. /\ t2.refcount = [a \in Dir |-> IF a \in gone THEN 0
                           ELSE t.refcount[a] - ((IF a = n THEN k ELSE 0) + Cardinality(Lost(a)))]
      /\ t2.parent = [a \in Dir |-> IF a \in gone THEN NULL ELSE t.parent[a]]
      /\ t2.name = [a \in Node |-> IF a \in gone THEN NULL ELSE t.name[a]]
      /\ t2.child = [a \in Dir |-> IF a \in gone THEN <<>> ELSE Kept(t.child[a], Node \ gone)]
      /\ t2 = [refcount |-> t2.refcount, parent |-> t2.parent, name |-> t2.name, child |-> t2.child]
  BY DEF Release
<1>e. /\ e2 \in [Dir -> Nat]
      /\ \A a \in Dir : e2[a] = e[a] - (IF a = n THEN k ELSE 0)
  BY <1>t DEF Less
<1> HIDE DEF gone
<1>d. gone \subseteq Dir /\ Node \subseteq Dir
  BY <1>g DEF Dir
<1>1. ASSUME NEW a \in Dir \ gone
      PROVE  /\ t2.child[a] = Kept(t.child[a], Node \ gone)
             /\ t2.child[a] \in Seq(Node) /\ Distinct(t2.child[a])
             /\ Elements(t2.child[a]) = {c \in Node \ gone : t.parent[c] = a}
             /\ Len(t2.child[a]) = Len(t.child[a]) - Cardinality(Lost(a))
             /\ Len(t2.child[a]) \in Nat /\ Cardinality(Lost(a)) \in Nat
  <2>1. t2.child[a] = Kept(t.child[a], Node \ gone)
    BY <1>r
  <2>2. t.child[a] \in Seq(Node) /\ Distinct(t.child[a])
    BY <1>t, <1>p
  <2>3. /\ t2.child[a] \in Seq(Node) /\ Distinct(t2.child[a])
        /\ Elements(t2.child[a]) = Elements(t.child[a]) \cap (Node \ gone)
    BY <2>1, <2>2, KeptFacts
  <2>4. /\ Elements(t2.child[a]) = Elements(t.child[a]) \ Lost(a)
        /\ Elements(t.child[a]) \cap Lost(a) = Lost(a)
        /\ Elements(t2.child[a]) = {c \in Node \ gone : t.parent[c] = a}
    BY <2>3, <1>p, <1>g
  <2>5. Cardinality(Elements(t.child[a]) \ Lost(a))
          = Cardinality(Elements(t.child[a])) - Cardinality(Elements(t.child[a]) \cap Lost(a))
    BY <1>t, FS_Difference
  <2>6. Cardinality(Elements(t2.child[a])) = Len(t2.child[a]) /\ Len(t2.child[a]) \in Nat
    <3>1. Cardinality(Elements(t2.child[a])) = Len(t2.child[a])
      BY <2>3, DistinctLen
    <3>2. Len(t2.child[a]) \in Nat
      BY <2>3, LenProperties
    <3> QED
      BY <3>1, <3>2
  <2>7. Cardinality(Lost(a)) \in Nat
    BY <1>g, FS_Subset, FS_CardinalityType
  <2>8. Cardinality(Elements(t.child[a])) = Len(t.child[a])
    BY <1>t
  <2> QED
    BY <2>1, <2>3, <2>4, <2>5, <2>6, <2>7, <2>8
<1>2. ASSUME NEW a \in Dir \ gone PROVE t2.refcount[a] = e2[a] + Len(t2.child[a])
  <2> HIDE DEF Lost
  <2>1. t2.refcount[a] = t.refcount[a] - ((IF a = n THEN k ELSE 0) + Cardinality(Lost(a)))
    BY <1>r
  <2>2. t.refcount[a] = e[a] + Len(t.child[a]) /\ e2[a] = e[a] - (IF a = n THEN k ELSE 0)
    BY <1>c, <1>e
  <2>3. e[a] \in Nat /\ e2[a] \in Nat /\ Len(t.child[a]) \in Nat /\ k \in Nat
    BY <1>t, <1>e
  <2>4. PICK d \in Int : d = IF a = n THEN k ELSE 0
    BY <2>3
  <2>5. PICK j \in Int : j = Cardinality(Lost(a))
    BY <1>1
  <2>6. PICK x \in Int, l \in Int : x = e[a] /\ l = Len(t.child[a])
    BY <2>3
  <2>7. t2.refcount[a] = (x + l) - (d + j)
    BY <2>1, <2>2, <2>4, <2>5, <2>6
  <2>8. e2[a] = x - d /\ Len(t2.child[a]) = l - j
    BY <1>1, <2>2, <2>4, <2>5, <2>6
  <2>9. (x + l) - (d + j) = (x - d) + (l - j)
    OBVIOUS
  <2> QED
    BY <2>7, <2>8, <2>9
<1>3. ASSUME NEW a \in gone
      PROVE  t2.refcount[a] = 0 /\ e2[a] = 0 /\ t2.child[a] = <<>> /\ t2.parent[a] = NULL
  <2>1. t2.refcount[a] = 0 /\ t2.child[a] = <<>> /\ t2.parent[a] = NULL
    BY <1>d, <1>r
  <2>2. e2[a] = 0
    BY <1>d, <1>e, <1>g
  <2> QED
    BY <2>1, <2>2
<1>4. ASSUME NEW a \in Node \ gone
      PROVE  t2.refcount[a] > 0 <=> t.refcount[a] > 0
  <2>0. a \in Dir \ gone /\ t.refcount[a] \in Nat /\ Cardinality(Lost(a)) \in Nat
    BY <1>1, <1>d, <1>t
  <2>1. t2.refcount[a] = t.refcount[a] - ((IF a = n THEN k ELSE 0) + Cardinality(Lost(a)))
    BY <1>r, <2>0
  <2>2. CASE Lost(a) = {}
    <3>1. Cardinality(Lost(a)) = 0
      BY <2>2, FS_EmptySet
    <3>2. a = n => t.refcount[a] > k
      BY <1>h, <2>0
    <3>3. CASE a = n
      BY <2>0, <2>1, <3>1, <3>2, <3>3
    <3>4. CASE a # n
      BY <2>0, <2>1, <3>1, <3>4
    <3> QED
      BY <3>3, <3>4
  <2>3. CASE Lost(a) # {}
    <3>1. PICK c \in gone : t.parent[c] = a
      BY <2>3
    <3>2. n \in gone /\ a # n
      BY <1>h
    <3>3. t.refcount[a] # 1
      BY <1>h, <3>1 DEF Upward
    <3>4. Lost(a) = {c}
      BY <1>g, <3>1
    <3>5. Cardinality(Lost(a)) = 1
      BY <3>4, FS_Singleton
    <3>6. t2.refcount[a] = t.refcount[a] - 1
      BY <2>0, <2>1, <3>2, <3>5
    <3>7. t.refcount[a] > 0
      BY <1>t, <1>g, <2>0, <3>1
    <3> QED
      BY <2>0, <3>3, <3>6, <3>7
  <2> QED
    BY <2>2, <2>3
<1>5. t2 \in Trees
  <2>1. t2.refcount \in [Dir -> Nat]
    <3>1. ASSUME NEW a \in Dir PROVE t2.refcount[a] \in Nat
      <4>1. CASE a \in gone
        BY <1>3, <4>1
      <4>2. CASE a \notin gone
        BY <1>1, <1>2, <1>e, <4>2
      <4> QED
        BY <4>1, <4>2
    <3>2. t2.refcount = [a \in Dir |-> t2.refcount[a]]
      BY <1>r
    <3> QED
      BY <3>1, <3>2
  <2>2. t2.parent \in [Dir -> Dir \cup {NULL}]
    BY <1>t, <1>r
  <2>3. t2.name \in [Node -> Names \cup {NULL}]
    BY <1>t, <1>r
  <2>4. t2.child \in [Dir -> Seq(Node)]
    <3>1. ASSUME NEW a \in Dir PROVE t2.child[a] \in Seq(Node)
      <4>1. <<>> \in Seq(Node)
        OBVIOUS
      <4>2. CASE a \in gone
        BY <1>3, <4>1, <4>2
      <4>3. CASE a \notin gone
        BY <1>1, <4>3
      <4> QED
        BY <4>2, <4>3
    <3>2. t2.child = [a \in Dir |-> t2.child[a]]
      BY <1>r
    <3> QED
      BY <3>1, <3>2
  <2> QED
    BY <1>r, <2>1, <2>2, <2>3, <2>4 DEF Trees
<1>6. ASSUME NEW p \in Dir
      PROVE  Distinct(t2.child[p]) /\ Elements(t2.child[p]) = {c \in Node : t2.parent[c] = p}
  <2>1. \A c \in Node : t2.parent[c] = p <=> c \notin gone /\ t.parent[c] = p
    <3>1. p # NULL
      BY NodesAssumption DEF Dir
    <3> QED
      BY <1>r, <1>d, <3>1
  <2>2. CASE p \notin gone
    <3>1. Distinct(t2.child[p]) /\ Elements(t2.child[p]) = {c \in Node \ gone : t.parent[c] = p}
      BY <1>1, <2>2
    <3>2. {c \in Node \ gone : t.parent[c] = p} = {c \in Node : t2.parent[c] = p}
      BY <2>1
    <3> QED
      BY <3>1, <3>2
  <2>3. CASE p \in gone
    <3>1. t2.child[p] = <<>> /\ Distinct(<<>>) /\ Elements(<<>>) = {}
      BY <1>3, <2>3 DEF Distinct, Elements
    <3>2. \A c \in Node : t2.parent[c] # p
      BY <1>g, <2>1, <2>3
    <3> QED
      BY <3>1, <3>2
  <2> QED
    BY <2>2, <2>3
<1>7. ASSUME NEW a \in Dir PROVE t2.refcount[a] = e2[a] + Len(t2.child[a])
  <2>1. CASE a \in gone
    <3>1. Len(<<>>) = 0
      OBVIOUS
    <3> QED
      BY <1>3, <2>1, <3>1
  <2> QED
    BY <1>2, <2>1
<1>8. ASSUME NEW c \in Node PROVE t2.parent[c] = NULL <=> t2.refcount[c] = 0 \/ c \in D
  <2>1. CASE c \in gone
    BY <1>3, <2>1
  <2>2. CASE c \notin gone
    <3>1. t2.parent[c] = t.parent[c]
      BY <1>d, <1>r, <2>2
    <3>2. t.parent[c] = NULL <=> t.refcount[c] = 0 \/ c \in D
      BY DEF TreeOK
    <3>3. t2.refcount[c] \in Nat /\ t.refcount[c] \in Nat
      BY <1>5, <1>t, <1>d DEF Trees
    <3>4. t2.refcount[c] = 0 <=> t.refcount[c] = 0
      BY <1>4, <2>2, <3>3
    <3> QED
      BY <3>1, <3>2, <3>4
  <2> QED
    BY <2>1, <2>2
<1>9. TreeOK(t2, e2, D)
  BY <1>5, <1>6, <1>7, <1>8, <1>e DEF TreeOK
<1>10. Pruned(t, t2, gone)
  <2>1. \A a \in Dir \ gone : t2.parent[a] = t.parent[a] /\ t2.child[a] = Kept(t.child[a], Node \ gone)
    BY <1>r
  <2>2. \A a \in Node \ gone : t2.name[a] = t.name[a]
    BY <1>r
  <2>3. \A a \in Node : t2.refcount[a] > 0 <=> t.refcount[a] > 0 /\ a \notin gone
    BY <1>3, <1>4
  <2> QED
    BY <1>g, <2>1, <2>2, <2>3 DEF Pruned
<1> QED
  BY <1>3, <1>9, <1>10

\* What is found does not depend on what is not in the list.
LEMMA FirstOther ==
    ASSUME NEW P, NEW s \in Seq(P), NEW A, NEW C, NEW e,
           First(s, A, e), e \in C, Elements(s) \cap C \subseteq A
    PROVE  First(s, C, e)
<1>1. DOMAIN s = 1..Len(s) /\ Len(s) \in Nat
  OBVIOUS
<1> QED
  BY <1>1 DEF First, Elements

\* One more at one place.
LEMMA Bump ==
    ASSUME NEW S, NEW f \in [S -> Nat], NEW n \in S, NEW g, g = [f EXCEPT ![n] = f[n] + 1]
    PROVE  g \in [S -> Nat] /\ \A a \in S : g[a] = f[a] + (IF a = n THEN 1 ELSE 0)
OBVIOUS

LEMMA Update ==
    ASSUME NEW S, NEW T, NEW f \in [S -> T], NEW n, NEW v \in T
    PROVE  [f EXCEPT ![n] = v] \in [S -> T]
OBVIOUS

\* Adding and taking the same.
LEMMA Sums ==
    ASSUME NEW x \in Nat, NEW y \in Nat, NEW i \in Int
    PROVE  /\ (x + y) + i = x + (y + i) /\ (x + y) + i = (x + i) + y
           /\ x + y = (x + i) + (y - i)
OBVIOUS

\* What a release leaves of the other properties of the tree.
LEMMA PrunedKeeps ==
    ASSUME NEW t, NEW e, NEW D, TreeOK(t, e, D), NEW t2, NEW gone, Pruned(t, t2, gone)
    PROVE  /\ NoCycleIn(t) => NoCycleIn(t2)
           /\ \A p \in Dir : \A x, n : Finds(t, p, x, n) /\ n \notin gone => Finds(t2, p, x, n)
           /\ \A q, n : Clear(t, q, n) /\ q \notin gone => Clear(t2, q, n)
<1>0. /\ gone \subseteq Node /\ Node \subseteq Dir
      /\ \A c \in Node : t.parent[c] \in gone => c \in gone
      /\ \A a \in Dir \ gone : /\ t2.parent[a] = t.parent[a]
                               /\ t2.child[a] = Kept(t.child[a], Node \ gone)
      /\ \A a \in Node \ gone : t2.name[a] = t.name[a]
      /\ \A a \in Node : t2.refcount[a] > 0 <=> t.refcount[a] > 0 /\ a \notin gone
  BY DEF Pruned, Dir
<1>1. ASSUME NoCycleIn(t) PROVE NoCycleIn(t2)
  <2> SUFFICES ASSUME NEW X \in SUBSET {n \in Node : t2.refcount[n] > 0}, X # {}
               PROVE  \E n \in X : t2.parent[n] \notin X
    BY DEF NoCycleIn
  <2>1. X \in SUBSET {n \in Node : t.refcount[n] > 0} /\ X \cap gone = {}
    BY <1>0
  <2>2. PICK n \in X : t.parent[n] \notin X
    BY <1>1, <2>1 DEF NoCycleIn
  <2> QED
    BY <1>0, <2>1, <2>2
<1>2. ASSUME NEW p \in Dir, NEW x, NEW n, Finds(t, p, x, n), n \notin gone
      PROVE  Finds(t2, p, x, n)
  <2>1. t.child[p] \in Seq(Node)
    BY DEF TreeOK, Trees
  <2>2. First(t.child[p], WithName(t, x), n)
    BY <1>2 DEF Finds
  <2>3. n \in Elements(t.child[p]) /\ n \in WithName(t, x) /\ n \in Node
    BY <2>1, <2>2, FirstFacts
  <2>4. t.parent[n] = p
    BY <2>3 DEF TreeOK
  <2>5. p \notin gone
    BY <1>0, <1>2, <2>3, <2>4
  <2>6. n \in WithName(t2, x) /\ (Node \ gone) \cap WithName(t2, x) \subseteq WithName(t, x)
    BY <1>0, <1>2, <2>3 DEF WithName
  <2>7. First(Kept(t.child[p], Node \ gone), WithName(t2, x), n)
    <3>1. n \in Node \ gone
      BY <1>2, <2>3
    <3> QED
      BY <2>1, <2>2, <2>6, <3>1, FirstOfKept
  <2> QED
    BY <1>0, <2>5, <2>7 DEF Finds
<1>3. ASSUME NEW q, NEW n, Clear(t, q, n), q \notin gone PROVE Clear(t2, q, n)
  <2>1. PICK U \in SUBSET Dir : /\ q \in U /\ n \notin U
                                /\ \A u \in U \ {Root} : t.parent[u] \in U
    BY <1>3 DEF Clear
  <2> DEFINE V == U \ gone
  <2>2. q \in V /\ n \notin V /\ V \in SUBSET Dir
    BY <1>3, <2>1
  <2>3. ASSUME NEW u \in V \ {Root} PROVE t2.parent[u] \in V
    <3>1. u \in Node /\ u \notin gone /\ t.parent[u] \in U
      BY <2>1 DEF Dir
    <3> QED
      BY <1>0, <3>1
  <2> QED
    BY <2>2, <2>3 DEF Clear
<1> QED
  BY <1>1, <1>2, <1>3

\* Taking a reference; a dead node is detached until it gets a parent.
LEMMA AcquireFacts ==
    ASSUME NEW t, NEW e, NEW D, TreeOK(t, e, D), NEW n \in Node,
           NEW t2, t2 = Acquire(t, n), NEW e2, e2 = More(e, n)
    PROVE  /\ t.refcount[n] > 0 => TreeOK(t2, e2, D)
           /\ t.refcount[n] = 0 => TreeOK(t2, e2, D \cup {n})
           /\ t2.parent = t.parent /\ t2.child = t.child /\ t2.name = t.name
           /\ \A a \in Node : t2.refcount[a] > 0 <=> t.refcount[a] > 0 \/ a = n
<1>0. n \in Dir /\ Node \subseteq Dir
  BY DEF Dir
<1>t. /\ t \in Trees /\ t.refcount \in [Dir -> Nat] /\ e \in [Dir -> Nat]
      /\ t.child \in [Dir -> Seq(Node)] /\ \A p \in Dir : Len(t.child[p]) \in Nat
  BY TreeFacts DEF TreeOK
<1>1. /\ t2.refcount = [t.refcount EXCEPT ![n] = t.refcount[n] + 1]
      /\ t2.parent = t.parent /\ t2.child = t.child /\ t2.name = t.name
      /\ t2 = [refcount |-> t2.refcount, parent |-> t2.parent, name |-> t2.name, child |-> t2.child]
  BY <1>t DEF Acquire, Trees
<1>2. /\ t2.refcount \in [Dir -> Nat]
      /\ \A a \in Dir : t2.refcount[a] = t.refcount[a] + (IF a = n THEN 1 ELSE 0)
      /\ e2 \in [Dir -> Nat]
      /\ \A a \in Dir : e2[a] = e[a] + (IF a = n THEN 1 ELSE 0)
  <2>1. e2 = [e EXCEPT ![n] = e[n] + 1]
    BY Zenon DEF More
  <2> QED
    BY <1>0, <1>1, <1>t, <2>1, Bump
<1>r. t2 \in Trees
  BY <1>1, <1>2, <1>t DEF Trees
<1>3. ASSUME NEW a \in Dir PROVE t2.refcount[a] = e2[a] + Len(t2.child[a])
  <2>1. t.refcount[a] = e[a] + Len(t.child[a])
    BY DEF TreeOK
  <2>2. t2.refcount[a] = t.refcount[a] + (IF a = n THEN 1 ELSE 0)
    BY <1>2
  <2>3. e2[a] = e[a] + (IF a = n THEN 1 ELSE 0)
    BY <1>2
  <2>4. e[a] \in Nat /\ Len(t.child[a]) \in Nat /\ Len(t2.child[a]) = Len(t.child[a])
    BY <1>t, <1>1
  <2> QED
    BY <2>1, <2>2, <2>3, <2>4
<1>4. \A a \in Node : t2.refcount[a] > 0 <=> t.refcount[a] > 0 \/ a = n
  BY <1>0, <1>2, <1>t
<1>5. ASSUME NEW a \in Node
      PROVE  t2.parent[a] = NULL <=> t2.refcount[a] = 0
                                     \/ a \in IF t.refcount[n] > 0 THEN D ELSE D \cup {n}
  <2>1. t.parent[a] = NULL <=> t.refcount[a] = 0 \/ a \in D
    BY DEF TreeOK
  <2>2. t2.refcount[a] \in Nat /\ t.refcount[a] \in Nat
    BY <1>0, <1>t, <1>2
  <2>3. t2.refcount[a] > 0 <=> t.refcount[a] > 0 \/ a = n
    BY <1>4
  <2>4. CASE a = n
    BY <1>1, <2>1, <2>2, <2>3, <2>4
  <2>5. CASE a # n
    BY <1>1, <2>1, <2>2, <2>3, <2>5
  <2> QED
    BY <2>4, <2>5
<1>6. \A p \in Dir : /\ Distinct(t2.child[p])
                     /\ Elements(t2.child[p]) = {c \in Node : t2.parent[c] = p}
  BY <1>1 DEF TreeOK
<1>7. TreeOK(t2, e2, IF t.refcount[n] > 0 THEN D ELSE D \cup {n})
  BY <1>r, <1>2, <1>3, <1>5, <1>6 DEF TreeOK
<1>8. t.refcount[n] > 0 => TreeOK(t2, e2, D)
  BY <1>7
<1>9. t.refcount[n] = 0 => TreeOK(t2, e2, D \cup {n})
  BY <1>7
<1> QED
  BY <1>1, <1>4, <1>8, <1>9

\* A new name changes nothing else.
LEMMA NameFacts ==
    ASSUME NEW t, NEW e, NEW D, TreeOK(t, e, D), NEW n \in Node, NEW x \in Names,
           NEW t2, t2 = Renamed(t, n, x)
    PROVE  /\ TreeOK(t2, e, D)
           /\ t2.refcount = t.refcount /\ t2.parent = t.parent /\ t2.child = t.child
           /\ t2.name = [t.name EXCEPT ![n] = x]
<1>1. /\ t2.refcount = t.refcount /\ t2.parent = t.parent /\ t2.child = t.child
      /\ t2.name = [t.name EXCEPT ![n] = x] /\ t2 \in Trees
  BY DEF TreeOK, Trees, Renamed
<1> QED
  BY <1>1 DEF TreeOK

\* A detached node goes to the front of the list of a live directory.
LEMMA AddFacts ==
    ASSUME NEW t, NEW e, NEW D, TreeOK(t, e, D), NEW n \in Node, D = {n}, t.refcount[n] > 0,
           NEW q \in Dir, t.refcount[q] > 0, q # n,
           NEW t2, t2 = AddToParent(t, n, q)
    PROVE  /\ TreeOK(t2, e, {})
           /\ t2.parent = [t.parent EXCEPT ![n] = q] /\ t2.name = t.name
           /\ t2.child = [t.child EXCEPT ![q] = <<n>> \o t.child[q]]
           /\ \A a \in Node : t2.refcount[a] > 0 <=> t.refcount[a] > 0
<1>0. n \in Dir /\ Node \subseteq Dir /\ NULL \notin Dir
  BY NodesAssumption DEF Dir
<1>t. /\ t \in Trees /\ t.refcount \in [Dir -> Nat] /\ e \in [Dir -> Nat]
      /\ t.parent \in [Dir -> Dir \cup {NULL}]
      /\ t.child \in [Dir -> Seq(Node)] /\ \A p \in Dir : Len(t.child[p]) \in Nat
      /\ t.name \in [Node -> Names \cup {NULL}]
      /\ \A p \in Dir : Distinct(t.child[p]) /\ Elements(t.child[p]) = {c \in Node : t.parent[c] = p}
      /\ \A c \in Node : t.parent[c] = NULL <=> t.refcount[c] = 0 \/ c \in {n}
      /\ \A a \in Dir : t.refcount[a] = e[a] + Len(t.child[a])
  BY TreeFacts DEF TreeOK
<1>1. /\ t2.parent = [t.parent EXCEPT ![n] = q] /\ t2.name = t.name
      /\ t2.child = [t.child EXCEPT ![q] = <<n>> \o t.child[q]]
      /\ t2.refcount = [t.refcount EXCEPT ![q] = t.refcount[q] + 1]
      /\ t2 = [refcount |-> t2.refcount, parent |-> t2.parent, name |-> t2.name, child |-> t2.child]
  BY <1>t DEF AddToParent, Trees
<1>2. t.parent[n] = NULL /\ n \notin Elements(t.child[q])
  BY <1>0, <1>t
<1>3. /\ <<n>> \o t.child[q] \in Seq(Node) /\ Len(<<n>> \o t.child[q]) = Len(t.child[q]) + 1
      /\ Elements(<<n>> \o t.child[q]) = Elements(t.child[q]) \cup {n}
      /\ Distinct(<<n>> \o t.child[q])
  <2>1. t.child[q] \in Seq(Node) /\ Distinct(t.child[q])
    BY <1>t
  <2> QED
    BY <1>2, <2>1, PrependFacts
<1>4. t2 \in Trees
  <2>1. t2.child \in [Dir -> Seq(Node)]
    BY <1>1, <1>3, <1>t
  <2>2. t2.refcount \in [Dir -> Nat]
    BY <1>1, <1>t, Bump
  <2>3. t2.parent \in [Dir -> Dir \cup {NULL}]
    BY <1>1, <1>t
  <2> QED
    BY <1>1, <1>t, <2>1, <2>2, <2>3 DEF Trees
<1>5. ASSUME NEW a \in Dir
      PROVE  /\ t2.refcount[a] = t.refcount[a] + (IF a = q THEN 1 ELSE 0)
             /\ Len(t2.child[a]) = Len(t.child[a]) + (IF a = q THEN 1 ELSE 0)
             /\ t2.parent[a] = IF a = n THEN q ELSE t.parent[a]
  <2>1. t2.refcount[a] = t.refcount[a] + (IF a = q THEN 1 ELSE 0)
    BY <1>1, <1>t, Bump
  <2>2. t2.parent[a] = IF a = n THEN q ELSE t.parent[a]
    BY <1>1, <1>t
  <2>3. t2.child[a] = IF a = q THEN <<n>> \o t.child[q] ELSE t.child[a]
    BY <1>1, <1>t
  <2>4. Len(t.child[a]) \in Nat
    BY <1>t
  <2>5. CASE a = q
    BY <1>3, <2>1, <2>2, <2>3, <2>5
  <2>6. CASE a # q
    BY <2>1, <2>2, <2>3, <2>4, <2>6
  <2> QED
    BY <2>5, <2>6
<1>6. ASSUME NEW a \in Dir PROVE t2.refcount[a] = e[a] + Len(t2.child[a])
  <2>1. /\ t.refcount[a] = e[a] + Len(t.child[a]) /\ e[a] \in Nat /\ Len(t.child[a]) \in Nat
    BY <1>t
  <2>2. /\ t2.refcount[a] = t.refcount[a] + (IF a = q THEN 1 ELSE 0)
        /\ Len(t2.child[a]) = Len(t.child[a]) + (IF a = q THEN 1 ELSE 0)
    BY <1>5
  <2>3. PICK i \in Int : i = IF a = q THEN 1 ELSE 0
    OBVIOUS
  <2>4. t2.refcount[a] = (e[a] + Len(t.child[a])) + i /\ Len(t2.child[a]) = Len(t.child[a]) + i
    BY <2>1, <2>2, <2>3, Zenon
  <2>5. (e[a] + Len(t.child[a])) + i = e[a] + (Len(t.child[a]) + i)
    BY <2>1, Sums
  <2> QED
    BY <2>4, <2>5, Zenon
<1>7. ASSUME NEW p \in Dir
      PROVE  Distinct(t2.child[p]) /\ Elements(t2.child[p]) = {c \in Node : t2.parent[c] = p}
  <2>1. CASE p = q
    <3>1. t2.child[p] = <<n>> \o t.child[q]
      BY <1>1, <1>t, <2>1
    <3>2. {c \in Node : t2.parent[c] = p} = {c \in Node : t.parent[c] = p} \cup {n}
      BY <1>0, <1>5, <2>1
    <3> QED
      BY <1>3, <1>t, <2>1, <3>1, <3>2
  <2>2. CASE p # q
    <3>1. t2.child[p] = t.child[p]
      BY <1>1, <1>t, <2>2
    <3>2. {c \in Node : t2.parent[c] = p} = {c \in Node : t.parent[c] = p}
      BY <1>0, <1>2, <1>5, <2>2
    <3> QED
      BY <1>t, <3>1, <3>2
  <2> QED
    BY <2>1, <2>2
<1>8. ASSUME NEW c \in Node
      PROVE  /\ t2.parent[c] = NULL <=> t2.refcount[c] = 0
             /\ t2.refcount[c] > 0 <=> t.refcount[c] > 0
  <2>1. t.refcount[c] \in Nat
    BY <1>0, <1>t
  <2>2. q # NULL /\ c \in Dir
    BY <1>0
  <2>p. /\ t2.refcount[c] = t.refcount[c] + (IF c = q THEN 1 ELSE 0)
        /\ t2.parent[c] = IF c = n THEN q ELSE t.parent[c]
    BY <1>5, <2>2
  <2>q. c = q => t.refcount[c] > 0
    BY NodesAssumption
  <2>3. t2.refcount[c] = 0 <=> t.refcount[c] = 0
    BY <2>p, <2>q, <2>1
  <2>4. t2.refcount[c] \in Nat
    BY <1>4, <2>2 DEF Trees
  <2>7. t2.refcount[c] > 0 <=> t.refcount[c] > 0
    BY <2>1, <2>3, <2>4
  <2>8. t.parent[c] = NULL <=> t.refcount[c] = 0 \/ c = n
    BY <1>t
  <2>9. c = n => t.refcount[c] # 0
    BY <2>1
  <2> QED
    BY <2>2, <2>p, <2>3, <2>7, <2>8, <2>9
<1>9. TreeOK(t2, e, {})
  BY <1>4, <1>6, <1>7, <1>8, <1>t DEF TreeOK
<1> QED
  BY <1>1, <1>8, <1>9

\* Cutting a node off leaves its reference to the parent, for the release that
\* follows.
LEMMA CutFacts ==
    ASSUME NEW t, NEW e, TreeOK(t, e, {}), NEW n \in Node, NEW p \in Dir, t.parent[n] = p,
           NEW t2, t2 = Cut(t, n, p),
           NEW e2, e2 = More(e, p)
    PROVE  /\ TreeOK(t2, e2, {n})
           /\ t2.refcount = t.refcount /\ t2.name = t.name
           /\ t2.parent = [t.parent EXCEPT ![n] = NULL]
           /\ t2.child = [t.child EXCEPT ![p] = Kept(t.child[p], Node \ {n})]
<1>0. n \in Dir /\ Node \subseteq Dir /\ NULL \notin Dir
  BY NodesAssumption DEF Dir
<1>t. /\ t \in Trees /\ t.refcount \in [Dir -> Nat] /\ e \in [Dir -> Nat]
      /\ t.parent \in [Dir -> Dir \cup {NULL}]
      /\ t.child \in [Dir -> Seq(Node)] /\ \A d \in Dir : Len(t.child[d]) \in Nat
      /\ t.name \in [Node -> Names \cup {NULL}]
      /\ \A d \in Dir : Distinct(t.child[d]) /\ Elements(t.child[d]) = {c \in Node : t.parent[c] = d}
      /\ \A c \in Node : t.parent[c] = NULL <=> t.refcount[c] = 0
      /\ \A a \in Dir : t.refcount[a] = e[a] + Len(t.child[a])
  <2>1. \A c \in Node : t.parent[c] = NULL <=> t.refcount[c] = 0
    BY DEF TreeOK
  <2>2. /\ t.refcount \in [Dir -> Nat] /\ e \in [Dir -> Nat]
        /\ t.parent \in [Dir -> Dir \cup {NULL}]
        /\ t.child \in [Dir -> Seq(Node)] /\ \A d \in Dir : Len(t.child[d]) \in Nat
        /\ t.name \in [Node -> Names \cup {NULL}]
    BY TreeFacts
  <2>3. /\ t \in Trees
        /\ \A d \in Dir : Distinct(t.child[d]) /\ Elements(t.child[d]) = {c \in Node : t.parent[c] = d}
        /\ \A a \in Dir : t.refcount[a] = e[a] + Len(t.child[a])
    BY Zenon DEF TreeOK
  <2> QED
    BY <2>1, <2>2, <2>3, Zenon
<1>f. IsFiniteSet(Elements(t.child[p])) /\ Cardinality(Elements(t.child[p])) = Len(t.child[p])
  BY TreeFacts
<1> DEFINE k == Kept(t.child[p], Node \ {n})
<1>1. /\ t2.parent = [t.parent EXCEPT ![n] = NULL] /\ t2.name = t.name
      /\ t2.child = [t.child EXCEPT ![p] = k] /\ t2.refcount = t.refcount
      /\ t2 = [refcount |-> t2.refcount, parent |-> t2.parent, name |-> t2.name, child |-> t2.child]
  BY <1>t DEF Trees, Cut
<1>2. t.child[p] \in Seq(Node) /\ Distinct(t.child[p]) /\ n \in Elements(t.child[p])
  BY <1>t
<1>3. /\ k \in Seq(Node) /\ Distinct(k)
      /\ Elements(k) = Elements(t.child[p]) \cap (Node \ {n})
  BY <1>2, KeptFacts
<1> HIDE DEF k
<1>4. Elements(k) = Elements(t.child[p]) \ {n}
  <2>1. Elements(t.child[p]) \subseteq Node
    BY <1>2, ElementsType
  <2> QED
    BY <1>3, <2>1
<1>5. Len(k) = Len(t.child[p]) - 1 /\ Len(k) \in Nat
  <2>1. Cardinality(Elements(k)) = Len(k)
    BY <1>3, DistinctLen
  <2>2. Cardinality(Elements(t.child[p]) \ {n}) = Cardinality(Elements(t.child[p])) - 1
    BY <1>2, <1>f, FS_RemoveElement
  <2>3. Len(k) \in Nat
    BY <1>3, LenProperties
  <2> QED
    BY <1>4, <1>f, <2>1, <2>2, <2>3
<1>6. t2 \in Trees
  <2>1. t2.child \in [Dir -> Seq(Node)]
    BY <1>1, <1>3, <1>t
  <2>2. t2.parent \in [Dir -> Dir \cup {NULL}]
    <3>1. NULL \in Dir \cup {NULL}
      OBVIOUS
    <3>2. [t.parent EXCEPT ![n] = NULL] \in [Dir -> Dir \cup {NULL}]
      BY <1>t, <3>1, Update, Zenon
    <3> QED
      BY <1>1, <3>2, Zenon
  <2> QED
    BY <1>1, <1>t, <2>1, <2>2 DEF Trees
<1>e. /\ e2 \in [Dir -> Nat]
      /\ \A a \in Dir : e2[a] = e[a] + (IF a = p THEN 1 ELSE 0)
  <2>1. e2 = [e EXCEPT ![p] = e[p] + 1]
    BY Zenon DEF More
  <2> QED
    BY <1>t, <2>1, Bump
<1>7. ASSUME NEW a \in Dir
      PROVE  /\ Len(t2.child[a]) = Len(t.child[a]) - (IF a = p THEN 1 ELSE 0)
             /\ t2.parent[a] = IF a = n THEN NULL ELSE t.parent[a]
  <2>1. t2.parent[a] = IF a = n THEN NULL ELSE t.parent[a]
    BY <1>1, <1>t
  <2>2. t2.child[a] = IF a = p THEN k ELSE t.child[a]
    BY <1>1, <1>t
  <2>3. Len(t.child[a]) \in Nat
    BY <1>t
  <2>4. \A i \in Nat : i - 0 = i
    OBVIOUS
  <2>5. CASE a = p
    BY <1>5, <2>1, <2>2, <2>5, Zenon
  <2>6. CASE a # p
    BY <2>1, <2>2, <2>3, <2>4, <2>6, Zenon
  <2> QED
    BY <2>5, <2>6
<1>8. ASSUME NEW a \in Dir PROVE t2.refcount[a] = e2[a] + Len(t2.child[a])
  <2>1. /\ t.refcount[a] = e[a] + Len(t.child[a]) /\ e[a] \in Nat /\ Len(t.child[a]) \in Nat
    BY <1>t
  <2>2. e2[a] = e[a] + (IF a = p THEN 1 ELSE 0)
    BY <1>e
  <2>3. Len(t2.child[a]) = Len(t.child[a]) - (IF a = p THEN 1 ELSE 0)
    BY <1>7
  <2>4. t2.refcount[a] = t.refcount[a]
    BY <1>1
  <2>5. PICK i \in Int : i = IF a = p THEN 1 ELSE 0
    OBVIOUS
  <2>6. e2[a] = e[a] + i /\ Len(t2.child[a]) = Len(t.child[a]) - i
    BY <2>2, <2>3, <2>5, Zenon
  <2>7. e[a] + Len(t.child[a]) = (e[a] + i) + (Len(t.child[a]) - i)
    BY <2>1, Sums
  <2> QED
    BY <2>1, <2>4, <2>6, <2>7, Zenon
<1>9. ASSUME NEW d \in Dir
      PROVE  Distinct(t2.child[d]) /\ Elements(t2.child[d]) = {c \in Node : t2.parent[c] = d}
  <2>0. \A c \in Node : t2.parent[c] = d <=> t.parent[c] = d /\ c # n
    BY <1>0, <1>7
  <2>1. CASE d = p
    <3>1. t2.child[d] = k
      BY <1>1, <1>t, <2>1
    <3>2. {c \in Node : t2.parent[c] = d} = {c \in Node : t.parent[c] = d} \ {n}
      BY <2>0
    <3> QED
      BY <1>3, <1>4, <1>t, <2>1, <3>1, <3>2
  <2>2. CASE d # p
    <3>1. t2.child[d] = t.child[d]
      BY <1>1, <1>t, <2>2
    <3>2. {c \in Node : t2.parent[c] = d} = {c \in Node : t.parent[c] = d}
      BY <2>0, <2>2
    <3> QED
      BY <1>t, <3>1, <3>2
  <2> QED
    BY <2>1, <2>2
<1>10. \A c \in Node : t2.parent[c] = NULL <=> t2.refcount[c] = 0 \/ c \in {n}
  BY <1>0, <1>1, <1>7, <1>t
<1>11. TreeOK(t2, e2, {n})
  BY <1>6, <1>e, <1>8, <1>9, <1>10 DEF TreeOK
<1> QED
  BY <1>1, <1>11 DEF k

\* What a lookup finds once a node has come to the front of a list.
LEMMA AddKeeps ==
    ASSUME NEW t, NEW e, NEW D, TreeOK(t, e, D), NEW n \in Node, NEW q \in Dir,
           NEW t2, t2.name = t.name, t2.child = [t.child EXCEPT ![q] = <<n>> \o t.child[q]]
    PROVE  /\ Finds(t2, q, t.name[n], n)
           /\ \A p \in Dir : \A x, c : Finds(t, p, x, c) /\ (p # q \/ x # t.name[n]) => Finds(t2, p, x, c)
<1>1. t.child \in [Dir -> Seq(Node)]
  BY TreeFacts
<1>2. \A x : WithName(t2, x) = WithName(t, x)
  BY DEF WithName
<1>3. Finds(t2, q, t.name[n], n)
  <2>1. t2.child[q] = <<n>> \o t.child[q] /\ t.child[q] \in Seq(Node)
    BY <1>1
  <2>2. n \in WithName(t2, t.name[n])
    BY <1>2 DEF WithName
  <2> QED
    BY <2>1, <2>2, FirstOfPrepend DEF Finds
<1>4. ASSUME NEW p \in Dir, NEW x, NEW c, Finds(t, p, x, c), p # q \/ x # t.name[n]
      PROVE  Finds(t2, p, x, c)
  <2>1. CASE p = q
    <3>1. t2.child[p] = <<n>> \o t.child[p] /\ t.child[p] \in Seq(Node)
      BY <1>1, <2>1
    <3>2. n \notin WithName(t, x)
      BY <1>4, <2>1 DEF WithName
    <3> QED
      BY <1>2, <1>4, <3>1, <3>2, FirstOfPrepend DEF Finds
  <2>2. CASE p # q
    <3>1. t2.child[p] = t.child[p]
      BY <1>1, <2>2
    <3> QED
      BY <1>2, <1>4, <3>1, Zenon DEF Finds
  <2> QED
    BY <2>1, <2>2
<1> QED
  BY <1>3, <1>4

\* A node that is made goes below a live directory.
LEMMA CreateFacts ==
    ASSUME NEW t, NEW e, TreeOK(t, e, {}), NEW n \in Node, t.refcount[n] = 0,
           NEW q \in Dir, e[q] > 0, NEW y \in Names,
           t.parent[Root] = NULL, NoCycleIn(t),
           NEW t2, t2 = Create(t, n, q, y), NEW e2, e2 = More(e, n)
    PROVE  /\ TreeOK(t2, e2, {}) /\ t2.parent[Root] = NULL /\ NoCycleIn(t2)
           /\ Finds(t2, q, y, n)
           /\ \A c \in Node \ {n} : t2.parent[c] = t.parent[c] /\ t2.name[c] = t.name[c]
           /\ \A p \in Dir : \A x, c : Finds(t, p, x, c) /\ (p # q \/ x # y) => Finds(t2, p, x, c)
           /\ \A a, b : Clear(t, a, b) => Clear(t2, a, b)
<1>0. /\ n \in Dir /\ Root \in Dir /\ Node \subseteq Dir /\ NULL \notin Dir /\ n # Root
      /\ Dir = Node \cup {Root}
  BY NodesAssumption DEF Dir
<1>t. /\ t.refcount \in [Dir -> Nat] /\ t.parent \in [Dir -> Dir \cup {NULL}]
      /\ t.name \in [Node -> Names \cup {NULL}] /\ e \in [Dir -> Nat]
      /\ \A p \in Dir : Len(t.child[p]) \in Nat
      /\ \A c \in Node, p \in Dir : t.parent[c] = p => t.refcount[p] > 0
  BY TreeFacts
<1>n. t.parent[n] = NULL
  BY DEF TreeOK
<1>q. t.refcount[q] > 0
  <2>1. t.refcount[q] = e[q] + Len(t.child[q])
    BY DEF TreeOK
  <2> QED
    BY <1>t, <2>1
<1>r. q # n
  BY <1>0, <1>q
<1>a. PICK t1 : t1 = Renamed(t, n, y)
  OBVIOUS
<1>b. PICK t3 : t3 = Acquire(t1, n)
  OBVIOUS
<1>1. /\ TreeOK(t1, e, {})
      /\ t1.refcount = t.refcount /\ t1.parent = t.parent /\ t1.child = t.child
      /\ t1.name = [t.name EXCEPT ![n] = y]
  BY <1>a, NameFacts
<1>2. /\ TreeOK(t3, e2, {n})
      /\ t3.parent = t.parent /\ t3.child = t.child /\ t3.name = t1.name
      /\ \A a \in Node : t3.refcount[a] > 0 <=> t.refcount[a] > 0 \/ a = n
  <2>1. /\ t1.refcount[n] = 0 => TreeOK(t3, e2, {} \cup {n})
        /\ t3.parent = t1.parent /\ t3.child = t1.child /\ t3.name = t1.name
        /\ \A a \in Node : t3.refcount[a] > 0 <=> t1.refcount[a] > 0 \/ a = n
    BY <1>1, <1>b, AcquireFacts
  <2>2. {} \cup {n} = {n} /\ t1.refcount[n] = 0
    BY <1>1
  <2> QED
    BY <1>1, <2>1, <2>2
<1>3. t2 = AddToParent(t3, n, q)
  BY <1>a, <1>b, Zenon DEF Create, Renamed
<1>4. /\ TreeOK(t2, e2, {})
      /\ t2.parent = [t3.parent EXCEPT ![n] = q] /\ t2.name = t3.name
      /\ t2.child = [t3.child EXCEPT ![q] = <<n>> \o t3.child[q]]
      /\ \A a \in Node : t2.refcount[a] > 0 <=> t3.refcount[a] > 0
  <2>1. t3.refcount[n] > 0 /\ t3.refcount[q] > 0
    <3>1. t3.refcount[q] = e2[q] + Len(t3.child[q]) /\ e2[q] = e[q]
      BY <1>2, <1>r, <1>t DEF TreeOK, More
    <3>2. t3.refcount[q] > 0
      BY <1>2, <1>t, <3>1
    <3> QED
      BY <1>2, <3>2
  <2>2. PICK D : D = {n} /\ TreeOK(t3, e2, D)
    BY <1>2
  <2> QED
    BY <1>3, <1>r, <2>1, <2>2, AddFacts
<1>5. \A a \in Dir : t2.parent[a] = IF a = n THEN q ELSE t.parent[a]
  BY <1>2, <1>4, <1>t
<1>6. \A c \in Node : t2.name[c] = IF c = n THEN y ELSE t.name[c]
  BY <1>1, <1>2, <1>4, <1>t
<1>7. NoCycleIn(t2)
  <2> SUFFICES ASSUME NEW X \in SUBSET {a \in Node : t2.refcount[a] > 0}, X # {}
               PROVE  \E a \in X : t2.parent[a] \notin X
    BY DEF NoCycleIn
  <2>1. CASE X = {n}
    BY <1>0, <1>5, <1>r, <2>1
  <2>2. CASE X # {n}
    <3>1. X \ {n} \in SUBSET {a \in Node : t.refcount[a] > 0} /\ X \ {n} # {}
      BY <1>2, <1>4, <2>2
    <3>2. PICK a \in X \ {n} : t.parent[a] \notin X \ {n}
      BY <3>1 DEF NoCycleIn
    <3>3. t.parent[a] # n
      BY <1>0, <1>t, <3>1
    <3> QED
      BY <1>0, <1>5, <3>1, <3>2, <3>3
  <2> QED
    BY <2>1, <2>2
<1>8. /\ Finds(t2, q, y, n)
      /\ \A p \in Dir : \A x, c : Finds(t, p, x, c) /\ (p # q \/ x # y) => Finds(t2, p, x, c)
  <2>1. t3.name[n] = y
    BY <1>4, <1>6
  <2>2. /\ Finds(t2, q, t3.name[n], n)
        /\ \A p \in Dir : \A x, c : Finds(t3, p, x, c) /\ (p # q \/ x # t3.name[n]) => Finds(t2, p, x, c)
    BY <1>2, <1>4, AddKeeps
  <2>3. ASSUME NEW p \in Dir, NEW x, NEW c, Finds(t, p, x, c) PROVE Finds(t3, p, x, c)
    <3>1. t3.child[p] = t.child[p] /\ t.child[p] \in Seq(Node)
      BY <1>2, TreeFacts
    <3>2. First(t.child[p], WithName(t, x), c)
      BY <2>3 DEF Finds
    <3>3. c \in WithName(t, x) /\ c \in Elements(t.child[p])
      BY <3>1, <3>2, FirstFacts
    <3>4. n \notin Elements(t.child[p])
      BY <1>0, <1>n DEF TreeOK
    <3>5. c \in WithName(t3, x) /\ Elements(t.child[p]) \cap WithName(t3, x) \subseteq WithName(t, x)
      BY <1>4, <1>6, <3>3, <3>4 DEF WithName
    <3> QED
      BY <3>1, <3>2, <3>5, FirstOther DEF Finds
  <2> QED
    BY <2>1, <2>2, <2>3
<1>9. ASSUME NEW a, NEW b, Clear(t, a, b) PROVE Clear(t2, a, b)
  <2>1. PICK U \in SUBSET Dir : /\ a \in U /\ b \notin U
                                /\ \A u \in U \ {Root} : t.parent[u] \in U
    BY <1>9 DEF Clear
  <2>2. n \notin U
    BY <1>0, <1>n, <2>1
  <2>3. \A u \in U \ {Root} : t2.parent[u] \in U
    BY <1>5, <2>1, <2>2
  <2> QED
    BY <2>1, <2>3 DEF Clear
<1> QED
  BY <1>0, <1>4, <1>5, <1>6, <1>7, <1>8, <1>9

\* A node that moves goes to a directory that is not below it; its old parent
\* may be destroyed on the way, with those above it that nothing else holds.
LEMMA MovedFacts ==
    ASSUME NEW t, NEW e, TreeOK(t, e, {}), NEW n \in Node, e[n] > 0,
           NEW q \in Dir, e[q] > 0, NEW y \in Names,
           t.parent[Root] = NULL, NoCycleIn(t), t.parent[n] = q \/ Clear(t, q, n),
           NEW t2, t2 = Moved(t, n, q, y)
    PROVE  /\ TreeOK(t2, e, {}) /\ t2.parent[Root] = NULL /\ NoCycleIn(t2)
           /\ Finds(t2, q, y, n)
           /\ \A c \in Node \ {n} : e[c] > 0 => t2.parent[c] = t.parent[c] /\ t2.name[c] = t.name[c]
           /\ \A p \in Dir : \A x, c : /\ Finds(t, p, x, c) /\ c # n /\ e[c] > 0 /\ (p # q \/ x # y)
                                   => Finds(t2, p, x, c)
           /\ t.parent[n] = q =>
                 \A a, b : Clear(t, a, b) /\ e[a] > 0 => Clear(t2, a, b)
<1>0. /\ n \in Dir /\ Root \in Dir /\ Node \subseteq Dir /\ NULL \notin Dir /\ n # Root
      /\ Root \notin Node /\ Dir = Node \cup {Root}
  BY NodesAssumption DEF Dir
<1>t. /\ t.refcount \in [Dir -> Nat] /\ t.parent \in [Dir -> Dir \cup {NULL}]
      /\ t.name \in [Node -> Names \cup {NULL}] /\ e \in [Dir -> Nat]
      /\ t.child \in [Dir -> Seq(Node)]
      /\ \A p \in Dir : Len(t.child[p]) \in Nat
  BY TreeFacts
<1>l. t.refcount[n] > 0
  <2>1. t.refcount[n] = e[n] + Len(t.child[n]) /\ e[n] \in Nat /\ Len(t.child[n]) \in Nat
    BY <1>0, <1>t DEF TreeOK
  <2> QED
    BY <2>1
<1>n. t.parent[n] \in Dir
  BY <1>0, <1>t, <1>l DEF TreeOK
<1>r. q # n
  <2>1. CASE Clear(t, q, n)
    BY <2>1 DEF Clear
  <2>2. CASE t.parent[n] = q
    <3>1. {n} \in SUBSET {a \in Node : t.refcount[a] > 0}
      BY <1>l
    <3> QED
      BY <2>2, <3>1 DEF NoCycleIn
  <2> QED
    BY <2>1, <2>2
<1>p. PICK p \in Dir : t.parent[n] = p
  BY <1>n
<1>a. PICK t1 : t1 = Renamed(t, n, y)
  OBVIOUS
<1>b. PICK t3 : t3 = Cut(t1, n, p)
  OBVIOUS
<1>c. PICK e3 : e3 = More(e, p)
  OBVIOUS
<1>d. PICK t4 : t4 = Release(t3, p, 1)
  OBVIOUS
<1>1. /\ TreeOK(t1, e, {})
      /\ t1.refcount = t.refcount /\ t1.parent = t.parent /\ t1.child = t.child
      /\ t1.name = [t.name EXCEPT ![n] = y]
  BY <1>a, NameFacts
<1>2. t2 = AddToParent(t4, n, q)
  BY <1>1, <1>a, <1>b, <1>d, <1>p, Zenon DEF Moved, RemoveFromParent, Renamed, Cut
<1>3. /\ TreeOK(t3, e3, {n})
      /\ t3.refcount = t.refcount /\ t3.name = t1.name
      /\ t3.parent = [t.parent EXCEPT ![n] = NULL]
      /\ t3.child = [t.child EXCEPT ![p] = Kept(t.child[p], Node \ {n})]
  <2>1. t1.parent[n] = p
    BY <1>1, <1>p
  <2> QED
    BY <1>1, <1>b, <1>c, <2>1, CutFacts
<1>4. 1 <= e3[p] /\ e = Less(e3, p, 1)
  <2>1. e[p] \in Nat /\ e3[p] = e[p] + 1
    BY <1>c, <1>t DEF More
  <2>2. [e3 EXCEPT ![p] = @ - 1] = [e EXCEPT ![p] = (e[p] + 1) - 1]
    BY <1>c, <1>t, <2>1 DEF More
  <2>3. (e[p] + 1) - 1 = e[p]
    BY <2>1
  <2>4. e = [e EXCEPT ![p] = e[p]]
    BY <1>t
  <2>5. 1 <= e3[p]
    BY <2>1
  <2>6. Less(e3, p, 1) = [e3 EXCEPT ![p] = @ - 1]
    BY Zenon DEF Less
  <2> QED
    BY <2>2, <2>3, <2>4, <2>5, <2>6, Zenon
<1>5. PICK gone : /\ TreeOK(t4, e, {n}) /\ Pruned(t3, t4, gone)
                  /\ \A a \in gone : e[a] = 0
  BY <1>3, <1>4, <1>d, ReleaseFacts
<1>g. /\ gone \subseteq Node
      /\ \A c \in Node : t3.parent[c] \in gone => c \in gone
      /\ \A a \in Dir \ gone : t4.parent[a] = t3.parent[a]
      /\ \A a \in Node \ gone : t4.name[a] = t3.name[a]
      /\ \A a \in Node : t4.refcount[a] > 0 <=> t.refcount[a] > 0 /\ a \notin gone
  BY <1>3, <1>5 DEF Pruned
<1>k. \A a : e[a] > 0 => a \notin gone
  BY <1>5
<1>6. t4.refcount[n] > 0 /\ t4.refcount[q] > 0
  <2>1. ASSUME NEW a \in Dir, e[a] > 0 PROVE t4.refcount[a] > 0
    <3>1. t4.refcount[a] = e[a] + Len(t4.child[a]) /\ Len(t4.child[a]) \in Nat /\ e[a] \in Nat
      BY <1>5, <1>t, TreeFacts DEF TreeOK
    <3> QED
      BY <2>1, <3>1
  <2> QED
    BY <1>0, <2>1
<1>7. /\ TreeOK(t2, e, {})
      /\ t2.parent = [t4.parent EXCEPT ![n] = q] /\ t2.name = t4.name
      /\ t2.child = [t4.child EXCEPT ![q] = <<n>> \o t4.child[q]]
      /\ \A a \in Node : t2.refcount[a] > 0 <=> t4.refcount[a] > 0
  <2>1. PICK D : D = {n} /\ TreeOK(t4, e, D)
    BY <1>5
  <2>2. ASSUME NEW d, d = AddToParent(t4, n, q)
        PROVE  /\ TreeOK(d, e, {})
               /\ d.parent = [t4.parent EXCEPT ![n] = q] /\ d.name = t4.name
               /\ d.child = [t4.child EXCEPT ![q] = <<n>> \o t4.child[q]]
               /\ \A a \in Node : d.refcount[a] > 0 <=> t4.refcount[a] > 0
    BY <1>6, <1>r, <2>1, <2>2, AddFacts
  <2> QED
    BY <1>2, <2>2
<1>8. /\ \A a \in Dir \ gone : t2.parent[a] = IF a = n THEN q ELSE t.parent[a]
      /\ \A a \in Node \ gone : t2.name[a] = IF a = n THEN y ELSE t.name[a]
  <2>1. t4.parent \in [Dir -> Dir \cup {NULL}]
    BY <1>5, TreeFacts
  <2> QED
    BY <1>1, <1>3, <1>7, <1>g, <1>t, <2>1
<1>9. \A a \in Node : t2.refcount[a] > 0 <=> t.refcount[a] > 0 /\ a \notin gone
  BY <1>7, <1>g
<1>10. NoCycleIn(t2)
  <2> SUFFICES ASSUME NEW X \in SUBSET {a \in Node : t2.refcount[a] > 0}, X # {},
                      \A a \in X : t2.parent[a] \in X
               PROVE  FALSE
    BY DEF NoCycleIn
  <2>1. X \in SUBSET {a \in Node : t.refcount[a] > 0} /\ X \cap gone = {} /\ X \subseteq Dir
    BY <1>0, <1>9
  <2>2. \A a \in X \ {n} : t.parent[a] \in X
    BY <1>8, <2>1
  <2>3. n \in X /\ t.parent[n] # q
    <3>1. n \in X => t2.parent[n] = q
      BY <1>8, <2>1
    <3> QED
      BY <2>1, <2>2, <3>1 DEF NoCycleIn
  <2>4. q \in X
    BY <1>8, <2>1, <2>3
  <2>5. PICK U \in SUBSET Dir : /\ q \in U /\ n \notin U
                                /\ \A u \in U \ {Root} : t.parent[u] \in U
    BY <2>3 DEF Clear
  <2>6. X \cap U \in SUBSET {a \in Node : t.refcount[a] > 0} /\ X \cap U # {}
    BY <2>1, <2>4, <2>5
  <2>7. \A a \in X \cap U : t.parent[a] \in X \cap U
    BY <1>0, <2>1, <2>2, <2>5
  <2> QED
    BY <2>6, <2>7 DEF NoCycleIn
<1>11. Finds(t2, q, y, n)
  <2>1. t4.name[n] = y
    BY <1>7, <1>8, <1>k
  <2> QED
    BY <1>5, <1>7, <2>1, AddKeeps
<1>12. ASSUME NEW d \in Dir, NEW x, NEW c, Finds(t, d, x, c), c # n, e[c] > 0, d # q \/ x # y
       PROVE  Finds(t2, d, x, c)
  <2>1. t.child[d] \in Seq(Node) /\ First(t.child[d], WithName(t, x), c)
    BY <1>12, <1>t DEF Finds
  <2>2. c \in WithName(t, x) /\ c \in Elements(t.child[d]) /\ c \in Node \ {n}
    BY <1>12, <2>1, FirstFacts
  <2>3. /\ c \in WithName(t3, x)
        /\ (Node \ {n}) \cap WithName(t3, x) \subseteq WithName(t, x)
    BY <1>1, <1>3, <1>t, <2>2 DEF WithName
  <2>4. Finds(t3, d, x, c)
    <3>1. CASE d = p
      <4>1. t3.child[d] = Kept(t.child[d], Node \ {n})
        BY <1>3, <1>t, <3>1
      <4> QED
        BY <2>1, <2>2, <2>3, <4>1, FirstOfKept DEF Finds
    <3>2. CASE d # p
      <4>1. t3.child[d] = t.child[d]
        BY <1>3, <1>t, <3>2
      <4>2. n \notin Elements(t.child[d]) /\ Elements(t.child[d]) \subseteq Node
        BY <1>p, <2>1, <3>2, ElementsType DEF TreeOK
      <4>3. Elements(t.child[d]) \cap WithName(t3, x) \subseteq WithName(t, x)
        BY <2>3, <4>2
      <4> QED
        BY <2>1, <2>3, <4>1, <4>3, FirstOther DEF Finds
    <3> QED
      BY <3>1, <3>2
  <2>5. Finds(t4, d, x, c)
    BY <1>12, <1>3, <1>5, <1>k, <2>4, PrunedKeeps
  <2>6. t4.name[n] = y
    BY <1>7, <1>8, <1>k
  <2>7. \A b \in Dir : \A z, m : Finds(t4, b, z, m) /\ (b # q \/ z # t4.name[n]) => Finds(t2, b, z, m)
    BY <1>5, <1>7, AddKeeps
  <2> QED
    BY <1>12, <2>5, <2>6, <2>7
<1>13. ASSUME t.parent[n] = q, NEW a, NEW b, Clear(t, a, b), e[a] > 0
       PROVE  Clear(t2, a, b)
  <2>1. PICK U \in SUBSET Dir : /\ a \in U /\ b \notin U
                                /\ \A u \in U \ {Root} : t.parent[u] \in U
    BY <1>13 DEF Clear
  <2> DEFINE V == U \ gone
  <2>2. a \in V /\ b \notin V /\ V \in SUBSET Dir
    BY <1>0, <1>13, <1>g, <1>k, <2>1
  <2>3. ASSUME NEW u \in V \ {Root} PROVE t2.parent[u] \in V
    <3>1. u \in Node /\ u \notin gone /\ t.parent[u] \in U
      BY <1>0, <2>1
    <3>2. t2.parent[u] = t.parent[u]
      BY <1>0, <1>8, <1>13, <3>1
    <3>3. CASE u = n
      BY <1>0, <1>13, <1>g, <1>k, <3>1, <3>2, <3>3
    <3>4. CASE u # n
      <4>1. t3.parent[u] = t.parent[u]
        BY <1>0, <1>3, <1>t, <3>1, <3>4
      <4> QED
        BY <1>g, <3>1, <3>2, <4>1
    <3> QED
      BY <3>3, <3>4
  <2> QED
    BY <2>2, <2>3 DEF Clear
<1>14. t2.parent[Root] = NULL
  BY <1>0, <1>8, <1>g
<1>15. \A c \in Node \ {n} : e[c] > 0 => t2.parent[c] = t.parent[c] /\ t2.name[c] = t.name[c]
  BY <1>0, <1>8, <1>k
<1> QED
  BY <1>7, <1>10, <1>11, <1>12, <1>13, <1>14, <1>15

-----------------------------------------------------------------------------
(* The requests and the counts                                             *)

LEMMA Places ==
    /\ Root \in Dir /\ Node \subseteq Dir /\ NULL \notin Dir /\ Root \notin Node
    /\ Dir = Node \cup {Root} /\ NULL \notin Node /\ NULL # Root
  BY NodesAssumption DEF Dir

LEMMA Types ==
    ASSUME TypeOK
    PROVE  /\ tree \in Trees /\ req \in [Handlers -> Requests]
           /\ dentry \in [Dir -> [Names -> Node \cup {NULL}]]
           /\ nlookup \in [Node -> Nat] /\ forgets \in [Node -> Nat] /\ lost \in [Node -> Nat]
  BY DEF TypeOK, Trees, Requests

LEMMA TypesNext ==
    ASSUME tree' \in Trees, req' \in [Handlers -> Requests],
           dentry' \in [Dir -> [Names -> Node \cup {NULL}]],
           nlookup' \in [Node -> Nat], forgets' \in [Node -> Nat], lost' \in [Node -> Nat]
    PROVE  TypeOK'
  BY DEF TypeOK, Trees, Requests

LEMMA Fields ==
    ASSUME TypeOK, NEW h \in Handlers
    PROVE  /\ req[h] \in Requests
           /\ req[h].p \in Dir \cup {NULL} /\ req[h].x \in Names \cup {NULL}
           /\ req[h].q \in Dir \cup {NULL} /\ req[h].y \in Names \cup {NULL}
           /\ req[h].n \in Node \cup {NULL} /\ req[h].m \in Node \cup {NULL}
           /\ req[h].node \in Dir \cup {NULL}
<1>1. req[h] \in Requests
  BY Types
<1> QED
  BY <1>1 DEF Requests

LEMMA NoRequestFacts ==
    /\ NoRequest \in Requests /\ NoRequest.op = "none" /\ NoRequest.pc = "idle"
    /\ NoRequest.p = NULL /\ NoRequest.q = NULL /\ NoRequest.n = NULL /\ NoRequest.m = NULL
    /\ NoRequest.node = NULL /\ Position(NoRequest)
  BY DEF NoRequest, Requests, Position, EntryOps

\* The request of h goes on or ends, and no other changes.
Continues(h) ==
    /\ \A g \in Handlers \ {h} : req'[g] = req[g]
    /\ req'[h] = NoRequest \/ SameAsk(req[h], req'[h])

Sets(h, s) == req' = [req EXCEPT ![h] = s]
Further(r, pc, d) == [r EXCEPT !.pc = pc, !.node = d]

LEMMA GoesFacts ==
    ASSUME TypeOK, NEW h \in Handlers, NEW d \in Dir \cup {NULL},
           NEW pc \in {"idle", "new", "unlocked", "check", "entry", "move", "reply", "done"},
           NEW s, s = Further(req[h], pc, d), Sets(h, s)
    PROVE  /\ req' \in [Handlers -> Requests] /\ req'[h] = s /\ SameAsk(req[h], s)
           /\ s.pc = pc /\ s.node = d /\ Continues(h)
<1>1. req \in [Handlers -> Requests] /\ req[h] \in Requests
  BY Types, Fields
<1>2. s \in Requests /\ s.pc = pc /\ s.node = d
  BY <1>1 DEF Requests, Further
<1>3. SameAsk(req[h], s)
  BY <1>1 DEF Requests, SameAsk, Further
<1>4. req' \in [Handlers -> Requests] /\ req'[h] = s /\ \A g \in Handlers \ {h} : req'[g] = req[g]
  BY <1>1, <1>2 DEF Sets
<1> QED
  BY <1>2, <1>3, <1>4 DEF Continues

LEMMA GoToFacts ==
    ASSUME TypeOK, NEW h \in Handlers, NEW pc, GoTo(h, pc),
           pc \in {"idle", "new", "unlocked", "check", "entry", "move", "reply", "done"}
    PROVE  /\ req' \in [Handlers -> Requests] /\ req'[h].pc = pc /\ req'[h].node = req[h].node
           /\ SameAsk(req[h], req'[h]) /\ Continues(h)
<1>1. req \in [Handlers -> Requests] /\ req[h] \in Requests
  BY Types, Fields
<1>2. PICK s : s = [req[h] EXCEPT !.pc = pc] /\ req' = [req EXCEPT ![h] = s]
  BY DEF GoTo
<1>3. s \in Requests /\ s.pc = pc /\ s.node = req[h].node
  BY <1>1, <1>2 DEF Requests
<1>4. SameAsk(req[h], s)
  BY <1>1, <1>2 DEF Requests, SameAsk
<1>5. req' \in [Handlers -> Requests] /\ req'[h] = s /\ \A g \in Handlers \ {h} : req'[g] = req[g]
  BY <1>1, <1>2, <1>3
<1> QED
  BY <1>3, <1>4, <1>5 DEF Continues

LEMMA AnswerFacts ==
    ASSUME TypeOK, NEW h \in Handlers, Answer(h)
    PROVE  /\ req' \in [Handlers -> Requests] /\ req'[h] = NoRequest /\ Continues(h)
  BY Types, NoRequestFacts DEF Answer, Continues

\* A handler that comes to hold a node, or no longer does.
LEMMA HolderCount ==
    ASSUME NEW h \in Handlers, \A g \in Handlers \ {h} : req'[g] = req[g], NEW a
    PROVE  /\ Cardinality(Holders(a)) \in Nat /\ Cardinality(Holders(a)') \in Nat
           /\ Holds(req[h], a) => Cardinality(Holders(a)) > 0
           /\ Holds(req[h], a) /\ Holds(req'[h], a) => Cardinality(Holders(a)') = Cardinality(Holders(a))
           /\ ~Holds(req[h], a) /\ ~Holds(req'[h], a) => Cardinality(Holders(a)') = Cardinality(Holders(a))
           /\ Holds(req[h], a) /\ ~Holds(req'[h], a) => Cardinality(Holders(a)') = Cardinality(Holders(a)) - 1
           /\ ~Holds(req[h], a) /\ Holds(req'[h], a) => Cardinality(Holders(a)') = Cardinality(Holders(a)) + 1
<1> DEFINE B == {g \in Handlers \ {h} : Holds(req[g], a)}
<1>1. Holders(a) = IF Holds(req[h], a) THEN B \cup {h} ELSE B
  BY DEF Holders, Holds
<1>2. Holders(a)' = IF Holds(req'[h], a) THEN B \cup {h} ELSE B
  BY DEF Holders, Holds
<1>3. IsFiniteSet(B) /\ h \notin B
  <2>1. B \subseteq Handlers
    OBVIOUS
  <2> QED
    BY <2>1, FinitenessAssumption, FS_Subset
<1>4. Cardinality(B) \in Nat /\ Cardinality(B \cup {h}) = Cardinality(B) + 1
  <2> HIDE DEF B
  <2> QED
    BY <1>3, FS_CardinalityType, FS_AddElement
<1> HIDE DEF B
<1> QED
  BY <1>1, <1>2, <1>4

LEMMA HoldersFinite ==
    ASSUME NEW a
    PROVE  /\ Cardinality(Holders(a)) \in Nat /\ Cardinality(Holders(a)') \in Nat
           /\ \A h \in Handlers : Holds(req[h], a) => Cardinality(Holders(a)) > 0
           /\ \A h \in Handlers : Holds(req'[h], a) => Cardinality(Holders(a)') > 0
<1>1. IsFiniteSet(Holders(a)) /\ IsFiniteSet(Holders(a)')
  BY FinitenessAssumption, FS_Subset DEF Holders
<1>2. Cardinality(Holders(a)) \in Nat /\ Cardinality(Holders(a)') \in Nat
  BY <1>1, FS_CardinalityType
<1>3. \A h \in Handlers : Holds(req[h], a) => Cardinality(Holders(a)) # 0
  <2>1. \A h \in Handlers : Holds(req[h], a) => h \in Holders(a)
    BY DEF Holders, Holds
  <2> QED
    BY <1>1, <2>1, FS_EmptySet
<1>4. \A h \in Handlers : Holds(req'[h], a) => Cardinality(Holders(a)') # 0
  <2>1. \A h \in Handlers : Holds(req'[h], a) => h \in Holders(a)'
    BY DEF Holders, Holds
  <2> QED
    BY <1>1, <2>1, FS_EmptySet
<1> QED
  BY <1>2, <1>3, <1>4

LEMMA ExternalFacts ==
    ASSUME TypeOK
    PROVE  /\ External \in [Dir -> Nat] /\ External[Root] = 2
           /\ \A a \in Node : External[a] = nlookup[a] + forgets[a] + Cardinality(Holders(a)) + lost[a]
           /\ \A a \in Dir : Known(a) => External[a] > 0
           /\ \A a \in Node, h \in Handlers : Holds(req[h], a) => External[a] > 0
           /\ \A a \in Node : nlookup[a] + forgets[a] > 0 => External[a] > 0
           /\ \A a \in Node : External[a] >= forgets[a]
<1>0. nlookup \in [Node -> Nat] /\ forgets \in [Node -> Nat] /\ lost \in [Node -> Nat]
  BY Types
<1>1. ASSUME NEW a \in Node
      PROVE  /\ External[a] = nlookup[a] + forgets[a] + Cardinality(Holders(a)) + lost[a]
             /\ nlookup[a] \in Nat /\ forgets[a] \in Nat /\ lost[a] \in Nat
             /\ Cardinality(Holders(a)) \in Nat
  BY <1>0, HoldersFinite, Places DEF External
<1>2. External[Root] = 2
  BY Places DEF External
<1>3. ASSUME NEW a \in Node
      PROVE  /\ External[a] \in Nat /\ External[a] >= forgets[a]
             /\ nlookup[a] > 0 => External[a] > 0
             /\ Cardinality(Holders(a)) > 0 => External[a] > 0
             /\ nlookup[a] + forgets[a] > 0 => External[a] > 0
  <2>1. \A i, j, k, l \in Nat : /\ i + j + k + l \in Nat /\ i + j + k + l >= j
                                /\ i > 0 => i + j + k + l > 0
                                /\ k > 0 => i + j + k + l > 0
                                /\ i + j > 0 => i + j + k + l > 0
    OBVIOUS
  <2> QED
    BY <1>1, <2>1
<1>4. External \in [Dir -> Nat]
  <2>1. \A a \in Dir : External[a] \in Nat
    BY <1>2, <1>3, Places
  <2>2. External = [a \in Dir |-> External[a]]
    BY DEF External
  <2> QED
    BY <2>1, <2>2
<1>5. \A a \in Dir : Known(a) => External[a] > 0
  <2>1. 2 > 0
    OBVIOUS
  <2> QED
    BY <1>2, <1>3, <2>1, Places DEF Known
<1>6. \A a \in Node, h \in Handlers : Holds(req[h], a) => External[a] > 0
  BY <1>3, HoldersFinite
<1> QED
  BY <1>1, <1>2, <1>3, <1>4, <1>5, <1>6

LEMMA ExternalNext ==
    ASSUME TypeOK'
    PROVE  /\ External' \in [Dir -> Nat] /\ External'[Root] = 2
           /\ \A a \in Node : External'[a] = nlookup'[a] + forgets'[a] + Cardinality(Holders(a)') + lost'[a]
           /\ \A a \in Dir : Known(a)' => External'[a] > 0
           /\ \A a \in Node, h \in Handlers : Holds(req'[h], a) => External'[a] > 0
<1>0. nlookup' \in [Node -> Nat] /\ forgets' \in [Node -> Nat] /\ lost' \in [Node -> Nat]
  BY DEF TypeOK
<1>1. ASSUME NEW a \in Node
      PROVE  /\ External'[a] = nlookup'[a] + forgets'[a] + Cardinality(Holders(a)') + lost'[a]
             /\ nlookup'[a] \in Nat /\ forgets'[a] \in Nat /\ lost'[a] \in Nat
             /\ Cardinality(Holders(a)') \in Nat
  BY <1>0, HoldersFinite, Places DEF External
<1>2. External'[Root] = 2
  BY Places DEF External
<1>3. ASSUME NEW a \in Node
      PROVE  /\ External'[a] \in Nat
             /\ nlookup'[a] > 0 => External'[a] > 0
             /\ Cardinality(Holders(a)') > 0 => External'[a] > 0
  <2>1. \A i, j, k, l \in Nat : /\ i + j + k + l \in Nat
                                /\ i > 0 => i + j + k + l > 0
                                /\ k > 0 => i + j + k + l > 0
    OBVIOUS
  <2> QED
    BY <1>1, <2>1
<1>4. External' \in [Dir -> Nat]
  <2>1. \A a \in Dir : External'[a] \in Nat
    BY <1>2, <1>3, Places
  <2>2. External' = [a \in Dir |-> External'[a]]
    BY DEF External
  <2> QED
    BY <2>1, <2>2
<1>5. \A a \in Dir : Known(a)' => External'[a] > 0
  <2>1. 2 > 0
    OBVIOUS
  <2> QED
    BY <1>2, <1>3, <2>1, Places DEF Known
<1>6. \A a \in Node, h \in Handlers : Holds(req'[h], a) => External'[a] > 0
  BY <1>3, HoldersFinite
<1> QED
  BY <1>1, <1>2, <1>3, <1>4, <1>5, <1>6

\* The references from outside when a handler neither takes nor gives one ...
LEMMA StillHeld ==
    ASSUME TypeOK, TypeOK', NEW h \in Handlers, \A g \in Handlers \ {h} : req'[g] = req[g],
           \A a \in Node : Holds(req'[h], a) <=> Holds(req[h], a),
           \A a \in Node : nlookup'[a] + forgets'[a] = nlookup[a] + forgets[a], lost' = lost
    PROVE  External' = External
<1>1. ASSUME NEW a \in Node PROVE External'[a] = External[a]
  <2>1. Cardinality(Holders(a)') = Cardinality(Holders(a))
    BY HolderCount
  <2> QED
    BY <2>1, ExternalFacts, ExternalNext
<1> QED
  BY <1>1, ExternalFacts, ExternalNext, Places

\* ... when it takes one ...
LEMMA Taken ==
    ASSUME TypeOK, TypeOK', NEW h \in Handlers, \A g \in Handlers \ {h} : req'[g] = req[g],
           NEW n \in Node, \A a \in Node : ~Holds(req[h], a),
           \A a \in Node : Holds(req'[h], a) <=> a = n,
           nlookup' = nlookup, forgets' = forgets, lost' = lost
    PROVE  External' = More(External, n)
<1>0. External \in [Dir -> Nat] /\ External' \in [Dir -> Nat] /\ n \in Dir
  BY ExternalFacts, ExternalNext, Places
<1>1. ASSUME NEW a \in Node PROVE External'[a] = External[a] + (IF a = n THEN 1 ELSE 0)
  <2>1. /\ Cardinality(Holders(a)) \in Nat
        /\ Cardinality(Holders(a)') = Cardinality(Holders(a)) + (IF a = n THEN 1 ELSE 0)
    <3>1. /\ a = n => Cardinality(Holders(a)') = Cardinality(Holders(a)) + 1
          /\ a # n => Cardinality(Holders(a)') = Cardinality(Holders(a))
          /\ Cardinality(Holders(a)) \in Nat
      BY HolderCount
    <3> QED
      BY <3>1
  <2>2. /\ External[a] = nlookup[a] + forgets[a] + Cardinality(Holders(a)) + lost[a]
        /\ External'[a] = nlookup[a] + forgets[a] + Cardinality(Holders(a)') + lost[a]
        /\ nlookup[a] \in Nat /\ forgets[a] \in Nat /\ lost[a] \in Nat
    BY ExternalFacts, ExternalNext, Types
  <2>3. PICK i \in Int : i = IF a = n THEN 1 ELSE 0
    OBVIOUS
  <2>4. \A w, x, y, z \in Nat : w + x + (y + i) + z = (w + x + y + z) + i
    OBVIOUS
  <2> QED
    BY <2>1, <2>2, <2>3, <2>4
<1>2. PICK e2 : e2 = More(External, n)
  OBVIOUS
<1>3. e2 \in [Dir -> Nat] /\ \A a \in Dir : e2[a] = External[a] + (IF a = n THEN 1 ELSE 0)
  <2>1. e2 = [External EXCEPT ![n] = External[n] + 1]
    BY <1>2, Zenon DEF More
  <2> QED
    BY <1>0, <2>1, Bump
<1>4. External'[Root] = External[Root] /\ Root # n
  BY ExternalFacts, ExternalNext, Places
<1>5. \A a \in Dir : External'[a] = e2[a]
  BY <1>0, <1>1, <1>3, <1>4, Places
<1> QED
  BY <1>0, <1>2, <1>3, <1>5

\* ... and when it gives it back.
LEMMA Given ==
    ASSUME TypeOK, TypeOK', NEW h \in Handlers, \A g \in Handlers \ {h} : req'[g] = req[g],
           NEW n \in Node, \A a \in Node : ~Holds(req'[h], a),
           \A a \in Node : Holds(req[h], a) <=> a = n,
           nlookup' = nlookup, forgets' = forgets, lost' = lost
    PROVE  External' = Less(External, n, 1) /\ 1 <= External[n]
<1>0. External \in [Dir -> Nat] /\ External' \in [Dir -> Nat] /\ n \in Dir
  BY ExternalFacts, ExternalNext, Places
<1>1. ASSUME NEW a \in Node PROVE External'[a] = External[a] - (IF a = n THEN 1 ELSE 0)
  <2>1. /\ Cardinality(Holders(a)) \in Nat
        /\ Cardinality(Holders(a)') = Cardinality(Holders(a)) - (IF a = n THEN 1 ELSE 0)
    <3>1. /\ a = n => Cardinality(Holders(a)') = Cardinality(Holders(a)) - 1
          /\ a # n => Cardinality(Holders(a)') = Cardinality(Holders(a))
          /\ Cardinality(Holders(a)) \in Nat
      BY HolderCount
    <3> QED
      BY <3>1
  <2>2. /\ External[a] = nlookup[a] + forgets[a] + Cardinality(Holders(a)) + lost[a]
        /\ External'[a] = nlookup[a] + forgets[a] + Cardinality(Holders(a)') + lost[a]
        /\ nlookup[a] \in Nat /\ forgets[a] \in Nat /\ lost[a] \in Nat
    BY ExternalFacts, ExternalNext, Types
  <2>3. PICK i \in Int : i = IF a = n THEN 1 ELSE 0
    OBVIOUS
  <2>4. \A w, x, y, z \in Nat : w + x + (y - i) + z = (w + x + y + z) - i
    OBVIOUS
  <2> QED
    BY <2>1, <2>2, <2>3, <2>4
<1>2. 1 <= External[n]
  BY <1>0, ExternalFacts
<1>3. External'[Root] = External[Root] /\ Root # n
  BY ExternalFacts, ExternalNext, Places
<1>4. \A a \in Dir : External'[a] = IF a = n THEN External[n] - 1 ELSE External[a]
  <2>1. \A i \in Nat : i - 0 = i
    OBVIOUS
  <2> QED
    BY <1>0, <1>1, <1>3, <2>1, Places
<1>5. Less(External, n, 1) = [a \in Dir |-> IF a = n THEN External[n] - 1 ELSE External[a]]
  BY <1>0 DEF Less
<1> QED
  BY <1>0, <1>2, <1>4, <1>5

-----------------------------------------------------------------------------
(* What the steps keep                                                     *)

\* The tree keeps, of what has a reference from outside, the place.
Stays ==
    /\ \A p \in Dir : \A x : \A c \in Node :
          Finds(tree, p, x, c) /\ External'[c] > 0 => Finds(tree', p, x, c)
    /\ \A c \in Node :
          tree.refcount[c] > 0 /\ External'[c] > 0 => tree'.parent[c] = tree.parent[c]
    /\ \A a \in Dir : \A b : Clear(tree, a, b) /\ External'[a] > 0 => Clear(tree', a, b)

\* The kernel drops dentries of D, which no request names, and forgets only
\* what it does not use.
Drops(D) ==
    /\ D \subseteq Node /\ \A d \in D : ~HasDentries(d)
    /\ \A p \in Dir, x \in Names : \/ dentry'[p][x] = dentry[p][x]
                                   \/ dentry[p][x] \in D /\ dentry'[p][x] = NULL
    /\ \A g \in Handlers : \/ req'[g] = NoRequest
                           \/ D \cap {req[g].p, req[g].q, req[g].n, req[g].m} = {}
    /\ \A a \in Node : nlookup[a] > 0 => nlookup'[a] > 0 \/ (~InDcache(a) /\ ~Pinned(a))

Continuing == \A g \in Handlers : req'[g] = NoRequest \/ SameAsk(req[g], req'[g])

LEMMA SameAskFacts ==
    /\ \A r : SameAsk(r, r)
    /\ \A r, s : SameAsk(r, s) => LockedBy(s) = LockedBy(r)
    /\ LockedBy(NoRequest) = {} /\ ~Across(NoRequest)
    /\ \A r, s : SameAsk(r, s) => (Across(s) <=> Across(r))
  BY NoRequestFacts DEF SameAsk, LockedBy, Across

LEMMA ContinuesAll ==
    ASSUME NEW h \in Handlers, Continues(h) PROVE Continuing
  BY SameAskFacts DEF Continues, Continuing

LEMMA SerializedKept ==
    ASSUME Serialized, Alone, Continuing PROVE Serialized' /\ Alone'
<1>1. \A g \in Handlers : LockedBy(req'[g]) \subseteq LockedBy(req[g])
  BY SameAskFacts DEF Continuing
<1>2. \A g \in Handlers : Across(req'[g]) => Across(req[g])
  BY SameAskFacts DEF Continuing
<1>3. \A g \in Handlers : LockedBy(req[g])' = LockedBy(req'[g])
  BY DEF LockedBy
<1>4. \A g \in Handlers : Across(req[g])' = Across(req'[g])
  BY DEF Across
<1>5. Serialized'
  BY <1>1, <1>3 DEF Serialized
<1> QED
  BY <1>2, <1>4, <1>5 DEF Alone

\* What the request names.
LEMMA NamesOf ==
    ASSUME TypeOK, Positions, NEW h \in Handlers
    PROVE  /\ req[h].op \in EntryOps \cup {"remove", "rename"} => req[h].p \in Dir /\ req[h].x \in Names
           /\ req[h].op \in {"revalidate", "remove", "rename", "node"} => req[h].n \in Node
           /\ req[h].op = "rename" => req[h].q \in Dir /\ req[h].y \in Names
  BY Fields DEF Positions, Position

LEMMA PinsKept ==
    ASSUME TypeOK, Pins, TypeOK', Continuing, NEW D, Drops(D)
    PROVE  Pins'
<1>d. /\ D \subseteq Node /\ \A d \in D : ~HasDentries(d)
      /\ \A p \in Dir, x \in Names : \/ dentry'[p][x] = dentry[p][x]
                                     \/ dentry[p][x] \in D /\ dentry'[p][x] = NULL
      /\ \A g \in Handlers : \/ req'[g] = NoRequest
                             \/ D \cap {req[g].p, req[g].q, req[g].n, req[g].m} = {}
      /\ \A a \in Node : nlookup[a] > 0 => nlookup'[a] > 0 \/ (~InDcache(a) /\ ~Pinned(a))
  BY DEF Drops
<1>1. ASSUME NEW a, Known(a), InDcache(a) \/ Pinned(a), a \in Dir \cup {NULL} PROVE Known(a)'
  <2>1. CASE a \in {NULL, Root}
    BY <2>1 DEF Known
  <2>2. CASE a \in Node /\ nlookup[a] > 0
    BY <1>1, <1>d, <2>2 DEF Known
  <2> QED
    BY <1>1, <2>1, <2>2, Places DEF Known
<1>2. ASSUME NEW p \in Dir, NEW x \in Names PROVE Known(dentry[p][x])'
  <2>1. CASE dentry'[p][x] = NULL
    BY <2>1 DEF Known
  <2>2. CASE dentry'[p][x] # NULL
    <3>1. dentry'[p][x] = dentry[p][x]
      BY <1>d, <2>2
    <3>2. dentry[p][x] \in Node /\ Known(dentry[p][x]) /\ InDcache(dentry[p][x])
      BY <2>2, <3>1, Types DEF Pins, InDcache
    <3>3. PICK a \in Node : a = dentry[p][x]
      BY <3>2
    <3>4. Known(a)'
      BY <1>1, <3>2, <3>3, Places
    <3> QED
      BY <3>1, <3>3, <3>4 DEF Known
  <2> QED
    BY <2>1, <2>2
<1>3. ASSUME NEW g \in Handlers
      PROVE  Known(req[g].p)' /\ Known(req[g].q)' /\ Known(req[g].n)' /\ Known(req[g].m)'
  <2>1. CASE req'[g] = NoRequest
    BY <2>1, NoRequestFacts DEF Known
  <2>2. CASE SameAsk(req[g], req'[g])
    <3>1. PICK p, q, n, m : p = req[g].p /\ q = req[g].q /\ n = req[g].n /\ m = req[g].m
      OBVIOUS
    <3>2. /\ Known(p) /\ Known(q) /\ Known(n) /\ Known(m)
          /\ Pinned(p) /\ Pinned(q) /\ Pinned(n) /\ Pinned(m)
      BY <3>1 DEF Pins, Pinned
    <3>3. {p, q, n, m} \subseteq Dir \cup {NULL}
      BY <3>1, Fields, Places
    <3>4. Known(p)' /\ Known(q)' /\ Known(n)' /\ Known(m)'
      BY <1>1, <3>2, <3>3
    <3>5. req'[g].p = p /\ req'[g].q = q /\ req'[g].n = n /\ req'[g].m = m
      BY <2>2, <3>1 DEF SameAsk
    <3> QED
      BY <3>4, <3>5 DEF Known
  <2> QED
    BY <2>1, <2>2 DEF Continuing
<1>4. ASSUME NEW p \in Dir, HasDentries(p)' PROVE InDcache(p)'
  <2>1. HasDentries(p)
    BY <1>4, <1>d DEF HasDentries
  <2>2. InDcache(p) /\ p \notin D
    BY <1>d, <2>1 DEF Pins
  <2> QED
    BY <1>d, <2>2 DEF InDcache
<1> QED
  BY <1>2, <1>3, <1>4 DEF Pins

LEMMA LocksKept ==
    ASSUME TypeOK, Positions, Locks, Alone, Continuing, NEW D, Drops(D)
    PROVE  Locks' /\ Alone'
<1>d. /\ D \subseteq Node
      /\ \A p \in Dir, x \in Names : \/ dentry'[p][x] = dentry[p][x]
                                     \/ dentry[p][x] \in D /\ dentry'[p][x] = NULL
      /\ \A g \in Handlers : \/ req'[g] = NoRequest
                             \/ D \cap {req[g].p, req[g].q, req[g].n, req[g].m} = {}
  BY DEF Drops
<1>1. Serialized' /\ Alone'
  BY SerializedKept DEF Locks
<1>2. ASSUME NEW g \in Handlers PROVE Undisturbed(req[g])'
  <2>1. CASE req'[g] = NoRequest
    BY <2>1, NoRequestFacts DEF Undisturbed
  <2>2. CASE req'[g] # NoRequest
    <3> DEFINE r == req[g]
    <3>1. Undisturbed(r) /\ D \cap {r.p, r.q, r.n, r.m} = {}
      BY <1>d, <2>2 DEF Locks
    <3>2. SameAsk(r, req'[g])
      BY <2>2 DEF Continuing
    <3>3. ASSUME NEW a \in Dir, InDcache(a), a \notin D PROVE InDcache(a)'
      BY <1>d, <3>3 DEF InDcache
    <3>4. ASSUME NEW a \in Dir, ~HasDentries(a) PROVE ~HasDentries(a)'
      BY <1>d, <3>4 DEF HasDentries
    <3>5. ASSUME NEW p \in Dir, NEW x \in Names, dentry[p][x] \notin D PROVE dentry'[p][x] = dentry[p][x]
      BY <1>d, <3>5
    <3>6. NULL \notin D
      BY <1>d, Places
    <3>7. CASE r.op \in {"lookup", "create"}
      <4>1. r.p \in Dir /\ r.x \in Names
        BY <3>7, NamesOf DEF EntryOps
      <4>2. InDcache(r.p) /\ dentry[r.p][r.x] = NULL /\ r.p \notin D
        BY <3>1, <3>7 DEF Undisturbed
      <4>3. PICK p \in Dir, x \in Names : p = r.p /\ x = r.x
        BY <4>1
      <4>4. InDcache(p)' /\ dentry'[p][x] = NULL
        BY <3>3, <3>5, <3>6, <4>2, <4>3
      <4>5. req'[g].op = r.op /\ req'[g].p = p /\ req'[g].x = x
        BY <3>2, <4>3 DEF SameAsk
      <4> QED
        BY <3>7, <4>4, <4>5 DEF Undisturbed, InDcache
    <3>8. CASE r.op = "remove"
      <4>1. r.p \in Dir /\ r.x \in Names /\ r.n \in Dir
        BY <3>8, NamesOf, Places
      <4>2. dentry[r.p][r.x] = r.n /\ ~HasDentries(r.n) /\ r.n \notin D
        BY <3>1, <3>8 DEF Undisturbed
      <4>3. PICK p \in Dir, x \in Names, n \in Dir : p = r.p /\ x = r.x /\ n = r.n
        BY <4>1
      <4>4. dentry'[p][x] = n /\ ~HasDentries(n)'
        BY <3>4, <3>5, <4>2, <4>3
      <4>5. req'[g].op = r.op /\ req'[g].p = p /\ req'[g].x = x /\ req'[g].n = n
        BY <3>2, <4>3 DEF SameAsk
      <4> QED
        BY <3>8, <4>4, <4>5 DEF Undisturbed, HasDentries
    <3>9. CASE r.op = "rename"
      <4>1. r.p \in Dir /\ r.x \in Names /\ r.n \in Node /\ r.q \in Dir /\ r.y \in Names
        BY <3>9, NamesOf
      <4>2. /\ dentry[r.p][r.x] = r.n /\ dentry[r.q][r.y] = r.m /\ r.n # r.m
            /\ InDcache(r.q) /\ (r.m # NULL => ~HasDentries(r.m))
            /\ r.n \notin D /\ r.m \notin D /\ r.q \notin D
        BY <3>1, <3>9 DEF Undisturbed
      <4>3. PICK p \in Dir, x \in Names, n \in Node, q \in Dir, y \in Names, m \in Node \cup {NULL} :
               p = r.p /\ x = r.x /\ n = r.n /\ q = r.q /\ y = r.y /\ m = r.m
        BY <4>1, Fields
      <4>4. dentry'[p][x] = n /\ dentry'[q][y] = m /\ InDcache(q)'
        BY <3>3, <3>5, <4>2, <4>3
      <4>5. m # NULL => ~HasDentries(m)'
        BY <3>4, <4>2, <4>3, Places
      <4>6. /\ req'[g].op = r.op /\ req'[g].p = p /\ req'[g].x = x /\ req'[g].n = n
            /\ req'[g].q = q /\ req'[g].y = y /\ req'[g].m = m
        BY <3>2, <4>3 DEF SameAsk
      <4>7. n # m
        BY <4>2, <4>3
      <4> QED
        BY <3>9, <4>4, <4>5, <4>6, <4>7 DEF Undisturbed, HasDentries, InDcache
    <3>10. CASE r.op \notin {"lookup", "create", "remove", "rename"}
      <4>1. req'[g].op = r.op
        BY <3>2 DEF SameAsk
      <4> QED
        BY <3>10, <4>1 DEF Undisturbed
    <3> QED
      BY <3>7, <3>8, <3>9, <3>10
  <2> QED
    BY <2>1, <2>2
<1> QED
  BY <1>1, <1>2 DEF Locks

\* A node that a lookup finds is a child with the name.
LEMMA FoundFacts ==
    ASSUME NEW t, NEW e, NEW D, TreeOK(t, e, D), NEW p \in Dir, NEW x, NEW c, Finds(t, p, x, c)
    PROVE  c \in Node /\ t.parent[c] = p /\ t.name[c] = x /\ t.refcount[c] > 0
<1>1. t.child[p] \in Seq(Node)
  BY TreeFacts
<1>2. c \in Elements(t.child[p]) /\ c \in WithName(t, x) /\ c \in Node
  BY <1>1, FirstFacts DEF Finds
<1>3. t.parent[c] = p /\ t.name[c] = x
  BY <1>2 DEF TreeOK, WithName
<1>4. t.refcount[c] # 0 /\ t.refcount[c] \in Nat
  BY <1>2, <1>3, TreeFacts, Places DEF TreeOK
<1> QED
  BY <1>2, <1>3, <1>4

LEMMA AgreementKept ==
    ASSUME Inv, TypeOK', Pins', Stays,
           \A p \in Dir, x \in Names :
              \/ dentry'[p][x] = NULL
              \/ Finds(tree', p, x, dentry'[p][x])
              \/ dentry'[p][x] = dentry[p][x] /\ (Moving(p, x) => Moving(p, x)'),
           \A g \in Handlers : req'[g] = req[g] \/ Answered(tree', req'[g])
    PROVE  Agreement'
<1>i. TypeOK /\ TreeOK(tree, External, {}) /\ Positions /\ Pins /\ Agreement
  BY DEF Inv, TreeHolds
<1>1. ASSUME NEW p \in Dir, NEW x \in Names, dentry'[p][x] # NULL, ~Moving(p, x)'
      PROVE  Finds(tree', p, x, dentry'[p][x])
  <2> SUFFICES ASSUME dentry'[p][x] = dentry[p][x], ~Moving(p, x)
               PROVE  Finds(tree', p, x, dentry'[p][x])
    BY <1>1
  <2>1. Finds(tree, p, x, dentry[p][x])
    BY <1>1, <1>i DEF Agreement
  <2>2. PICK c \in Node : c = dentry[p][x]
    BY <1>1, <1>i, Types
  <2>3. Known(c)'
    BY <2>2 DEF Pins, Known
  <2>4. External'[c] > 0
    BY <2>3, ExternalNext, Places
  <2> QED
    BY <2>1, <2>2, <2>4 DEF Stays
<1>2. ASSUME NEW g \in Handlers PROVE Answered(tree', req'[g])
  <2> SUFFICES ASSUME req'[g] = req[g] PROVE Answered(tree', req'[g])
    OBVIOUS
  <2> DEFINE r == req[g]
  <2>0. Answered(tree, r)
    BY <1>i DEF Agreement
  <2>1. ASSUME r.pc = "reply", r.op \in {"lookup", "create"} PROVE Finds(tree', r.p, r.x, r.node)
    <3>1. Finds(tree, r.p, r.x, r.node)
      BY <2>0, <2>1 DEF Answered
    <3>2. r.p \in Dir /\ r.node \in Node
      BY <1>i, <2>1, NamesOf DEF EntryOps, Positions, Position
    <3>3. Holds(req'[g], r.node)
      BY <2>1 DEF Holds
    <3>4. External'[r.node] > 0
      BY <3>2, <3>3, ExternalNext
    <3> QED
      BY <3>1, <3>2, <3>4 DEF Stays
  <2>2. ASSUME r.pc = "done", r.op = "rename"
        PROVE  Finds(tree', r.q, r.y, r.n) /\ (r.m # NULL => tree'.parent[r.m] = r.q)
    <3>1. Finds(tree, r.q, r.y, r.n) /\ (r.m # NULL => tree.parent[r.m] = r.q)
      BY <2>0, <2>2 DEF Answered
    <3>2. r.q \in Dir /\ r.n \in Node /\ r.m \in Node \cup {NULL}
      BY <1>i, <2>2, NamesOf, Fields
    <3>3. PICK q \in Dir, n \in Node, m \in Node \cup {NULL} : q = r.q /\ n = r.n /\ m = r.m
      BY <3>2
    <3>4. Known(n)' /\ Known(m)'
      BY <3>3 DEF Pins, Known
    <3>5. External'[n] > 0
      BY <3>4, ExternalNext, Places
    <3>6. Finds(tree', r.q, r.y, r.n)
      BY <3>1, <3>3, <3>5 DEF Stays
    <3>7. ASSUME m # NULL PROVE tree'.parent[m] = q
      <4>1. m \in Node /\ External'[m] > 0
        BY <3>4, <3>7, ExternalNext, Places
      <4>2. tree.parent[m] = q
        BY <3>1, <3>3, <3>7
      <4>3. tree.refcount[m] > 0
        BY <1>i, <4>1, <4>2, TreeFacts, Places DEF TreeOK
      <4> QED
        BY <4>1, <4>2, <4>3 DEF Stays
    <3> QED
      BY <3>3, <3>6, <3>7
  <2> QED
    BY <2>1, <2>2 DEF Answered
<1>3. \A g \in Handlers : Answered(tree', req'[g]) => Answered(tree, req[g])'
  BY DEF Answered, Finds, WithName
<1>4. \A p \in Dir, x \in Names : Finds(tree', p, x, dentry'[p][x]) => Finds(tree, p, x, dentry[p][x])'
  BY DEF Finds, WithName
<1> QED
  BY <1>1, <1>2, <1>3, <1>4 DEF Agreement

LEMMA ApartKept ==
    ASSUME Inv, TypeOK', Pins', Stays,
           \A g \in Handlers : \/ Apart(tree', req'[g])
                               \/ SameAsk(req[g], req'[g]) /\ (req'[g].pc # "done" => req[g].pc # "done")
    PROVE  \A g \in Handlers : Apart(tree, req[g])'
<1> SUFFICES ASSUME NEW g \in Handlers PROVE Apart(tree', req'[g])
  BY DEF Apart, Across, Clear
<1> SUFFICES ASSUME SameAsk(req[g], req'[g]), Across(req'[g]), req'[g].pc # "done", req[g].pc # "done"
             PROVE  Clear(tree', req'[g].q, req'[g].n)
  BY DEF Apart
<1>i. TypeOK /\ Positions /\ Renames
  BY DEF Inv
<1>1. Across(req[g]) /\ req[g].q = req'[g].q /\ req[g].n = req'[g].n
  BY SameAskFacts DEF SameAsk
<1>2. Clear(tree, req[g].q, req[g].n)
  BY <1>1, <1>i DEF Renames, Apart
<1>3. PICK q \in Dir : q = req[g].q
  BY <1>1, <1>i, NamesOf DEF Across
<1>4. Known(q)'
  BY <1>1, <1>3 DEF Pins, Known
<1>5. External'[q] > 0
  BY <1>4, ExternalNext
<1> QED
  BY <1>1, <1>2, <1>3, <1>5 DEF Stays

LEMMA TreeSame ==
    ASSUME Inv, tree' = tree, External' = External
    PROVE  TreeHolds' /\ Stays
<1>1. TreeHolds
  BY DEF Inv
<1>2. TreeOK(tree', External', {}) /\ tree'.parent[Root] = NULL /\ NoCycleIn(tree')
  BY <1>1 DEF TreeHolds
<1>3. TreeHolds'
  BY <1>2 DEF TreeHolds, TreeOK, NoCycleIn
<1> QED
  BY <1>3 DEF Stays

\* A step of a handler whose request goes on or ends, and that does not leave
\* the kernel's view of the tree behind.
LEMMA StepKeeps ==
    ASSUME Inv, TypeOK', TreeHolds', Stays, NEW h \in Handlers, Continues(h),
           req[h].pc # "done" \/ req[h].op # "rename",
           Position(req'[h]), Answered(tree', req'[h]), NEW D, Drops(D)
    PROVE  Inv'
<1>i. TypeOK /\ Positions /\ Pins /\ Locks /\ Renames
  BY DEF Inv
<1>1. Continuing
  BY ContinuesAll
<1>2. Positions'
  <2>1. \A g \in Handlers : Position(req'[g])
    BY <1>i DEF Positions, Continues
  <2> QED
    BY <2>1 DEF Positions, Position, NoRequest, EntryOps
<1>3. Pins'
  BY <1>1, <1>i, PinsKept
<1>4. Locks' /\ Alone'
  BY <1>1, <1>i, LocksKept DEF Renames
<1>5. Agreement'
  <2>1. ASSUME NEW p \in Dir, NEW x \in Names PROVE Moving(p, x) => Moving(p, x)'
    BY DEF Moving, Continues
  <2>2. \A p \in Dir, x \in Names : dentry'[p][x] = NULL \/ dentry'[p][x] = dentry[p][x]
    BY DEF Drops
  <2>3. \A g \in Handlers : req'[g] = req[g] \/ Answered(tree', req'[g])
    BY DEF Continues
  <2> QED
    BY <1>3, <2>1, <2>2, <2>3, AgreementKept
<1>6. \A g \in Handlers : Apart(tree, req[g])'
  <2>1. Apart(tree', NoRequest)
    BY SameAskFacts DEF Apart
  <2>2. \A g \in Handlers : \/ Apart(tree', req'[g])
                            \/ SameAsk(req[g], req'[g]) /\ (req'[g].pc # "done" => req[g].pc # "done")
    <3>1. CASE req[h].pc # "done"
      BY <2>1, <3>1, SameAskFacts DEF Continues
    <3>2. CASE req[h].op # "rename"
      <4>1. ~Across(req[h])
        BY <3>2 DEF Across
      <4>2. Apart(tree', req'[h])
        BY <2>1, <4>1, SameAskFacts DEF Continues, Apart
      <4> QED
        BY <4>2, SameAskFacts DEF Continues
    <3> QED
      BY <3>1, <3>2
  <2> QED
    BY <1>3, <2>2, ApartKept
<1> QED
  BY <1>2, <1>3, <1>4, <1>5, <1>6 DEF Inv, Renames

LEMMA DropsNothing ==
    ASSUME dentry' = dentry, \A a \in Node : nlookup[a] > 0 => nlookup'[a] > 0
    PROVE  Drops({})
  BY DEF Drops

\* What a request that ends says.
LEMMA EndFacts ==
    ASSUME NEW h, req'[h] = NoRequest
    PROVE  Position(req'[h]) /\ (\A t : Answered(t, req'[h])) /\ \A a : ~Holds(req'[h], a)
  BY NoRequestFacts DEF Answered, Holds

LEMMA RenameSystemCallsStep ==
    ASSUME Inv, NEW h \in Handlers, RenameSystemCalls(h)
    PROVE  Inv'
<1>i. TypeOK /\ Positions
  BY DEF Inv
<1>1. req[h].pc = "unlocked" /\ GoTo(h, "move") /\ UNCHANGED <<tree, dentry, nlookup, forgets, lost>>
  BY DEF RenameSystemCalls, At, kernelVars
<1>2. /\ req' \in [Handlers -> Requests] /\ req'[h].pc = "move" /\ req'[h].node = req[h].node
      /\ SameAsk(req[h], req'[h]) /\ Continues(h)
  BY <1>1, <1>i, GoToFacts
<1>3. TypeOK'
  BY <1>1, <1>2, <1>i, Types, TypesNext
<1>4. External' = External
  BY <1>1, <1>2, <1>3, <1>i, StillHeld DEF Continues, Holds
<1>5. Position(req'[h]) /\ Answered(tree', req'[h])
  BY <1>1, <1>2, <1>i DEF Positions, Position, SameAsk, Answered
<1>6. Drops({})
  BY <1>1, DropsNothing
<1> QED
  BY <1>1, <1>2, <1>3, <1>4, <1>5, <1>6, TreeSame, StepKeeps

LEMMA SystemCallsStep ==
    ASSUME Inv, NEW h \in Handlers, SystemCalls(h)
    PROVE  Inv'
<1>i. TypeOK /\ Positions
  BY DEF Inv
<1>1. PICK pc \in {"entry", "done"} :
         /\ req[h].pc = "new" /\ GoTo(h, pc) /\ UNCHANGED <<tree, dentry, nlookup, forgets, lost>>
         /\ pc = "entry" => req[h].op \in EntryOps
         /\ pc = "done" => req[h].op = "remove"
  BY DEF SystemCalls, At, kernelVars
<1>2. /\ req' \in [Handlers -> Requests] /\ req'[h].pc = pc /\ req'[h].node = req[h].node
      /\ SameAsk(req[h], req'[h]) /\ Continues(h)
  BY <1>1, <1>i, GoToFacts
<1>3. TypeOK'
  BY <1>1, <1>2, <1>i, Types, TypesNext
<1>4. External' = External
  <2>1. \A a \in Node : ~Holds(req[h], a) /\ ~Holds(req'[h], a)
    BY <1>1, <1>2 DEF Holds
  <2> QED
    BY <1>1, <1>2, <1>3, <1>i, <2>1, StillHeld DEF Continues
<1>5. Position(req'[h]) /\ Answered(tree', req'[h])
  BY <1>1, <1>2, <1>i DEF Positions, Position, SameAsk, Answered, EntryOps
<1>6. Drops({})
  BY <1>1, DropsNothing
<1> QED
  BY <1>1, <1>2, <1>3, <1>4, <1>5, <1>6, TreeSame, StepKeeps

LEMMA ReadParentStep ==
    ASSUME Inv, NEW h \in Handlers, ReadParent(h)
    PROVE  Inv'
<1>i. TypeOK /\ Positions
  BY DEF Inv
<1>1. /\ req[h].pc = "new" /\ req[h].op = "node" /\ UNCHANGED <<tree, dentry, nlookup, forgets, lost>>
      /\ req' = [req EXCEPT ![h].pc = "check", ![h].node = tree.parent[req[h].n]]
  BY DEF ReadParent, At, kernelVars
<1>2. PICK d \in Dir \cup {NULL} : d = tree.parent[req[h].n]
  <2>1. req[h].n \in Dir
    BY <1>1, <1>i, NamesOf, Places
  <2>2. tree.parent \in [Dir -> Dir \cup {NULL}]
    BY <1>i, Types DEF Trees
  <2> QED
    BY <2>1, <2>2
<1>3. PICK s : s = Further(req[h], "check", d)
  OBVIOUS
<1>4. Sets(h, s)
  BY <1>1, <1>2, <1>3, <1>i, Types DEF Further, Sets
<1>5. /\ req' \in [Handlers -> Requests] /\ req'[h].pc = "check"
      /\ SameAsk(req[h], req'[h]) /\ Continues(h)
  BY <1>3, <1>4, <1>i, GoesFacts
<1>6. TypeOK'
  BY <1>1, <1>5, <1>i, Types, TypesNext
<1>7. External' = External
  <2>1. \A a \in Node : ~Holds(req[h], a) /\ ~Holds(req'[h], a)
    BY <1>1, <1>5 DEF Holds
  <2> QED
    BY <1>1, <1>5, <1>6, <1>i, <2>1, StillHeld DEF Continues
<1>8. Position(req'[h]) /\ Answered(tree', req'[h])
  BY <1>1, <1>5, <1>i DEF Positions, Position, SameAsk, Answered, EntryOps
<1>9. Drops({})
  BY <1>1, DropsNothing
<1> QED
  BY <1>1, <1>5, <1>6, <1>7, <1>8, <1>9, TreeSame, StepKeeps

LEMMA CheckNodeStep ==
    ASSUME Inv, NEW h \in Handlers, CheckNode(h)
    PROVE  Inv'
<1>i. TypeOK /\ Positions
  BY DEF Inv
<1>1. req[h].pc = "check" /\ Answer(h) /\ UNCHANGED <<tree, dentry, nlookup, forgets, lost>>
  BY DEF CheckNode, At, kernelVars
<1>2. req' \in [Handlers -> Requests] /\ req'[h] = NoRequest /\ Continues(h)
  BY <1>1, <1>i, AnswerFacts
<1>3. TypeOK'
  BY <1>1, <1>2, <1>i, Types, TypesNext
<1>4. External' = External
  <2>1. \A a \in Node : ~Holds(req[h], a)
    BY <1>1 DEF Holds
  <2> QED
    BY <1>1, <1>2, <1>3, <1>i, <2>1, StillHeld, EndFacts DEF Continues
<1>6. Drops({})
  BY <1>1, DropsNothing
<1> QED
  BY <1>1, <1>2, <1>3, <1>4, <1>6, EndFacts, TreeSame, StepKeeps

\* The steps that change the tree.
LEMMA ReleaseKeeps ==
    ASSUME Inv, NEW n \in Node, NEW k \in Nat \ {0}, k <= External[n], tree' = Release(tree, n, k)
    PROVE  tree' \in Trees /\ (External' = Less(External, n, k) => TreeHolds' /\ Stays)
<1>i. /\ TypeOK /\ TreeOK(tree, External, {}) /\ tree.parent[Root] = NULL /\ NoCycleIn(tree)
  BY DEF Inv, TreeHolds
<1>1. PICK e2 : e2 = Less(External, n, k)
  OBVIOUS
<1>2. PICK t2 : t2 = Release(tree, n, k)
  OBVIOUS
<1>3. n \in Dir
  BY Places
<1>4. TreeOK(t2, e2, {}) /\ \E gone : Pruned(tree, t2, gone) /\ \A a \in gone : e2[a] = 0
  BY <1>1, <1>2, <1>3, <1>i, ReleaseFacts
<1>5. PICK gone : Pruned(tree, t2, gone) /\ \A a \in gone : e2[a] = 0
  BY <1>4
<1>6. /\ NoCycleIn(t2)
      /\ \A p \in Dir : \A x, c : Finds(tree, p, x, c) /\ c \notin gone => Finds(t2, p, x, c)
      /\ \A a, b : Clear(tree, a, b) /\ a \notin gone => Clear(t2, a, b)
  BY <1>5, <1>i, PrunedKeeps
<1>7. \A a : e2[a] > 0 => a \notin gone
  BY <1>5
<1>8. /\ t2.parent[Root] = NULL
      /\ \A c \in Node : e2[c] > 0 => t2.parent[c] = tree.parent[c]
  <2>1. gone \subseteq Node /\ \A a \in Dir \ gone : t2.parent[a] = tree.parent[a]
    BY <1>5 DEF Pruned
  <2> QED
    BY <1>7, <1>i, <2>1, Places
<1>9. tree' = t2
  BY <1>2
<1>10. ASSUME External' = Less(External, n, k) PROVE TreeHolds' /\ Stays
  <2>1. External' = e2
    BY <1>1, <1>10
  <2>2. TreeOK(tree', External', {}) /\ tree'.parent[Root] = NULL /\ NoCycleIn(tree')
    BY <1>4, <1>6, <1>8, <1>9, <2>1, Zenon
  <2>3. TreeHolds'
    BY <2>2 DEF TreeHolds, TreeOK, NoCycleIn
  <2>4. Stays
    BY <1>6, <1>7, <1>8, <1>9, <2>1 DEF Stays
  <2> QED
    BY <2>3, <2>4
<1> QED
  BY <1>4, <1>9, <1>10 DEF TreeOK

LEMMA AcquireLive ==
    ASSUME NEW t, NEW e, TreeOK(t, e, {}), NEW n \in Node, t.refcount[n] > 0
    PROVE  /\ TreeOK(Acquire(t, n), More(e, n), {})
           /\ Acquire(t, n).parent = t.parent /\ Acquire(t, n).child = t.child
           /\ Acquire(t, n).name = t.name
           /\ \A a \in Node : Acquire(t, n).refcount[a] > 0 <=> t.refcount[a] > 0 \/ a = n
<1>1. PICK t2 : t2 = Acquire(t, n)
  OBVIOUS
<1>2. PICK e2 : e2 = More(e, n)
  OBVIOUS
<1>3. PICK D : D = {} /\ TreeOK(t, e, D)
  OBVIOUS
<1>4. t.refcount[n] > 0 => TreeOK(t2, e2, D)
  BY <1>1, <1>2, <1>3, AcquireFacts
<1>t. t \in Trees /\ t.refcount \in [Dir -> Nat] /\ Node \subseteq Dir
  <2>1. t.refcount \in [Dir -> Nat]
    BY TreeFacts
  <2> QED
    BY <2>1, Places DEF TreeOK
<1>5. /\ t2.parent = t.parent /\ t2.child = t.child /\ t2.name = t.name
      /\ t2.refcount = [t.refcount EXCEPT ![n] = t.refcount[n] + 1]
  BY <1>1, <1>t DEF Acquire, Trees
<1>6. \A a \in Node : t2.refcount[a] > 0 <=> t.refcount[a] > 0 \/ a = n
  BY <1>5, <1>t
<1> QED
  BY <1>1, <1>2, <1>3, <1>4, <1>5, <1>6

LEMMA AcquireKeeps ==
    ASSUME Inv, NEW n \in Node, tree.refcount[n] > 0, tree' = Acquire(tree, n)
    PROVE  /\ tree' \in Trees
           /\ External' = More(External, n) => TreeHolds' /\ Stays
           /\ \A p, x, c : Finds(tree, p, x, c) => Finds(tree', p, x, c)
<1>i. /\ TypeOK /\ TreeOK(tree, External, {}) /\ tree.parent[Root] = NULL /\ NoCycleIn(tree)
  BY DEF Inv, TreeHolds
<1>1. PICK e2 : e2 = More(External, n)
  OBVIOUS
<1>2. PICK t2 : t2 = Acquire(tree, n)
  OBVIOUS
<1>3. /\ TreeOK(t2, e2, {})
      /\ t2.parent = tree.parent /\ t2.child = tree.child /\ t2.name = tree.name
      /\ \A a \in Node : t2.refcount[a] > 0 <=> tree.refcount[a] > 0 \/ a = n
  BY <1>1, <1>2, <1>i, AcquireLive
<1>4. TreeOK(t2, e2, {})
  BY <1>3
<1>5. NoCycleIn(t2)
  BY <1>3, <1>i DEF NoCycleIn
<1>6. \A p, x, c : Finds(tree, p, x, c) => Finds(t2, p, x, c)
  <2>1. \A x : WithName(t2, x) = WithName(tree, x)
    BY <1>3 DEF WithName
  <2> QED
    BY <1>3, <2>1, Zenon DEF Finds
<1>7. \A a, b : Clear(tree, a, b) => Clear(t2, a, b)
  BY <1>3 DEF Clear
<1>8. tree' = t2
  BY <1>2
<1>9. ASSUME External' = More(External, n) PROVE TreeHolds' /\ Stays
  <2>1. External' = e2
    BY <1>1, <1>9
  <2>2. TreeOK(tree', External', {}) /\ tree'.parent[Root] = NULL /\ NoCycleIn(tree')
    BY <1>3, <1>4, <1>5, <1>8, <1>i, <2>1, Zenon
  <2>3. TreeHolds'
    BY <2>2 DEF TreeHolds, TreeOK, NoCycleIn
  <2>4. Stays
    BY <1>3, <1>6, <1>7, <1>8 DEF Stays
  <2> QED
    BY <2>3, <2>4
<1> QED
  BY <1>4, <1>6, <1>8, <1>9 DEF TreeOK

\* What lookup_child_by_name_locked returns.
LEMMA ChildFacts ==
    ASSUME NEW t, NEW e, NEW D, TreeOK(t, e, D), NEW p \in Dir, NEW x
    PROVE  /\ HasChild(t, p, x) => Finds(t, p, x, Child(t, p, x))
           /\ \A c : Finds(t, p, x, c) => HasChild(t, p, x) /\ Child(t, p, x) = c
<1>1. t.child[p] \in Seq(Node)
  BY TreeFacts
<1>2. Named(t, p, x) = Kept(t.child[p], WithName(t, x))
  BY DEF Named, WithName
<1>3. \A c : (Named(t, p, x) # <<>> /\ Head(Named(t, p, x)) = c) <=> Finds(t, p, x, c)
  BY <1>1, <1>2, KeptHead DEF Finds
<1> QED
  BY <1>3 DEF HasChild, Child

LEMMA CreateKeeps ==
    ASSUME Inv, NEW n \in Node, n \notin Live, NEW q \in Dir, Known(q), NEW y \in Names,
           ~HasChild(tree, q, y), tree' = Create(tree, n, q, y)
    PROVE  /\ tree' \in Trees
           /\ External' = More(External, n) => TreeHolds' /\ Stays
           /\ Finds(tree', q, y, n)
<1>i. /\ TypeOK /\ TreeOK(tree, External, {}) /\ tree.parent[Root] = NULL /\ NoCycleIn(tree)
  BY DEF Inv, TreeHolds
<1>1. PICK e2 : e2 = More(External, n)
  OBVIOUS
<1>2. PICK t2 : t2 = Create(tree, n, q, y)
  OBVIOUS
<1>3. tree.refcount[n] = 0
  BY <1>i, TreeFacts, Places DEF Live
<1>4. External[q] > 0
  BY <1>i, ExternalFacts
<1>5. /\ TreeOK(t2, e2, {}) /\ t2.parent[Root] = NULL /\ NoCycleIn(t2)
      /\ Finds(t2, q, y, n)
      /\ \A c \in Node \ {n} : t2.parent[c] = tree.parent[c] /\ t2.name[c] = tree.name[c]
      /\ \A p \in Dir : \A x, c : Finds(tree, p, x, c) /\ (p # q \/ x # y) => Finds(t2, p, x, c)
      /\ \A a, b : Clear(tree, a, b) => Clear(t2, a, b)
  BY <1>1, <1>2, <1>3, <1>4, <1>i, CreateFacts
<1>6. \A c : ~Finds(tree, q, y, c)
  BY <1>i, ChildFacts
<1>7. tree' = t2
  BY <1>2
<1>8. ASSUME External' = More(External, n) PROVE TreeHolds' /\ Stays
  <2>1. External' = e2
    BY <1>1, <1>8
  <2>2. TreeOK(tree', External', {}) /\ tree'.parent[Root] = NULL /\ NoCycleIn(tree')
    BY <1>5, <1>7, <2>1, Zenon
  <2>3. TreeHolds'
    BY <2>2 DEF TreeHolds, TreeOK, NoCycleIn
  <2>4. \A c \in Node : tree.refcount[c] > 0 => t2.parent[c] = tree.parent[c]
    BY <1>3, <1>5
  <2>5. \A p \in Dir : \A x : \A c \in Node : Finds(tree, p, x, c) => Finds(t2, p, x, c)
    BY <1>5, <1>6
  <2>6. Stays
    BY <1>5, <1>7, <2>4, <2>5 DEF Stays
  <2> QED
    BY <2>3, <2>6
<1> QED
  BY <1>5, <1>7, <1>8 DEF TreeOK

\* A dentry that is not confirmed goes, if nothing uses it.
LEMMA InvalidatedFacts ==
    ASSUME Inv, NEW h \in Handlers, req[h].op = "revalidate", dentry' = Invalidated(h),
           req'[h] = NoRequest, Continues(h), nlookup' = nlookup
    PROVE  /\ dentry' \in [Dir -> [Names -> Node \cup {NULL}]]
           /\ \E D : Drops(D)
<1>i. TypeOK /\ Positions
  BY DEF Inv
<1>1. PICK n \in Node : n = req[h].n
  BY <1>i, NamesOf
<1>2. dentry \in [Dir -> [Names -> Node \cup {NULL}]]
  BY <1>i, Types
<1> DEFINE Unused == ~HasDentries(n) /\ \A g \in Handlers \ {h} : n \notin {req[g].p, req[g].q, req[g].n, req[g].m}
<1>3. dentry' = [p \in Dir |-> [x \in Names |-> IF dentry[p][x] = n /\ Unused THEN NULL ELSE dentry[p][x]]]
  BY <1>1 DEF Invalidated
<1>4. dentry' \in [Dir -> [Names -> Node \cup {NULL}]]
  <2> HIDE DEF Unused
  <2> QED
    BY <1>2, <1>3
<1>5. \A p \in Dir, x \in Names : dentry'[p][x] = IF dentry[p][x] = n /\ Unused THEN NULL ELSE dentry[p][x]
  <2> HIDE DEF Unused
  <2> QED
    BY <1>3
<1>6. CASE Unused
  <2>1. \A p \in Dir, x \in Names : \/ dentry'[p][x] = dentry[p][x]
                                    \/ dentry[p][x] \in {n} /\ dentry'[p][x] = NULL
    BY <1>5, <1>6
  <2>2. \A g \in Handlers : \/ req'[g] = NoRequest
                            \/ {n} \cap {req[g].p, req[g].q, req[g].n, req[g].m} = {}
    BY <1>6
  <2>3. Drops({n})
    BY <1>6, <2>1, <2>2 DEF Drops
  <2> QED
    BY <1>4, <2>3
<1>7. CASE ~Unused
  <2>1. \A p \in Dir, x \in Names : dentry'[p][x] = dentry[p][x]
    BY <1>5, <1>7
  <2>2. Drops({})
    BY <2>1 DEF Drops
  <2> QED
    BY <1>4, <2>2
<1> QED
  BY <1>6, <1>7

\* What the kernel makes of an error.
LEMMA FailsFacts ==
    ASSUME Inv, NEW h \in Handlers, req[h].op # "none", Fails(h)
    PROVE  /\ req' \in [Handlers -> Requests] /\ req'[h] = NoRequest /\ Continues(h)
           /\ dentry' \in [Dir -> [Names -> Node \cup {NULL}]]
           /\ nlookup' = nlookup /\ forgets' = forgets /\ lost' = lost
           /\ \E D : Drops(D)
<1>i. TypeOK /\ Positions
  BY DEF Inv
<1>1. /\ Answer(h) /\ nlookup' = nlookup /\ forgets' = forgets /\ lost' = lost
      /\ dentry' = IF req[h].op = "revalidate" THEN Invalidated(h) ELSE dentry
  BY DEF Fails
<1>2. req' \in [Handlers -> Requests] /\ req'[h] = NoRequest /\ Continues(h)
  BY <1>1, <1>i, AnswerFacts
<1>3. dentry \in [Dir -> [Names -> Node \cup {NULL}]]
  BY <1>i, Types
<1>4. CASE req[h].op # "revalidate"
  BY <1>1, <1>2, <1>3, <1>4, DropsNothing
<1>5. CASE req[h].op = "revalidate"
  BY <1>1, <1>2, <1>3, <1>5, InvalidatedFacts
<1> QED
  BY <1>4, <1>5

-----------------------------------------------------------------------------
(* The steps of the handlers                                               *)

LEMMA SystemCallsFailStep ==
    ASSUME Inv, NEW h \in Handlers, SystemCallsFail(h)
    PROVE  Inv'
<1>i. TypeOK /\ Positions
  BY DEF Inv
<1>1. req[h].pc = "new" /\ Fails(h) /\ tree' = tree
  BY DEF SystemCallsFail, At
<1>2. req[h].op # "none"
  BY <1>1, <1>i, NoRequestFacts DEF Positions, Position
<1>3. /\ req' \in [Handlers -> Requests] /\ req'[h] = NoRequest /\ Continues(h)
      /\ dentry' \in [Dir -> [Names -> Node \cup {NULL}]]
      /\ nlookup' = nlookup /\ forgets' = forgets /\ lost' = lost
      /\ \E D : Drops(D)
  BY <1>1, <1>2, FailsFacts
<1>4. TypeOK'
  BY <1>1, <1>3, <1>i, Types, TypesNext
<1>5. External' = External
  <2>1. \A a \in Node : ~Holds(req[h], a)
    BY <1>1 DEF Holds
  <2> QED
    BY <1>3, <1>4, <1>i, <2>1, StillHeld, EndFacts DEF Continues
<1>6. PICK D : Drops(D)
  BY <1>3
<1> QED
  BY <1>1, <1>3, <1>4, <1>5, <1>6, EndFacts, TreeSame, StepKeeps

LEMMA FuseStatusFailsStep ==
    ASSUME Inv, NEW h \in Handlers, FuseStatusFails(h)
    PROVE  Inv'
<1>i. TypeOK /\ Positions
  BY DEF Inv
<1>1. req[h].pc = "done" /\ req[h].op = "remove" /\ Fails(h) /\ tree' = tree
  BY DEF FuseStatusFails, At
<1>2. req[h].op # "none"
  BY <1>1, <1>i, NoRequestFacts DEF Positions, Position
<1>3. /\ req' \in [Handlers -> Requests] /\ req'[h] = NoRequest /\ Continues(h)
      /\ dentry' \in [Dir -> [Names -> Node \cup {NULL}]]
      /\ nlookup' = nlookup /\ forgets' = forgets /\ lost' = lost
      /\ \E D : Drops(D)
  BY <1>1, <1>2, FailsFacts
<1>4. TypeOK'
  BY <1>1, <1>3, <1>i, Types, TypesNext
<1>5. External' = External
  <2>1. \A a \in Node : ~Holds(req[h], a)
    BY <1>1 DEF Holds
  <2> QED
    BY <1>3, <1>4, <1>i, <2>1, StillHeld, EndFacts DEF Continues
<1>6. PICK D : Drops(D)
  BY <1>3
<1> QED
  BY <1>1, <1>3, <1>4, <1>5, <1>6, EndFacts, TreeSame, StepKeeps

LEMMA ReplyEntryFailsStep ==
    ASSUME Inv, NEW h \in Handlers, ReplyEntryFails(h)
    PROVE  Inv'
<1>i. TypeOK /\ Positions
  BY DEF Inv
<1>1. req[h].pc = "entry" /\ Fails(h) /\ tree' = tree
  BY DEF ReplyEntryFails, At
<1>2. req[h].op # "none"
  BY <1>1, <1>i, NoRequestFacts DEF Positions, Position
<1>3. /\ req' \in [Handlers -> Requests] /\ req'[h] = NoRequest /\ Continues(h)
      /\ dentry' \in [Dir -> [Names -> Node \cup {NULL}]]
      /\ nlookup' = nlookup /\ forgets' = forgets /\ lost' = lost
      /\ \E D : Drops(D)
  BY <1>1, <1>2, FailsFacts
<1>4. TypeOK'
  BY <1>1, <1>3, <1>i, Types, TypesNext
<1>5. External' = External
  <2>1. \A a \in Node : ~Holds(req[h], a)
    BY <1>1 DEF Holds
  <2> QED
    BY <1>3, <1>4, <1>i, <2>1, StillHeld, EndFacts DEF Continues
<1>6. PICK D : Drops(D)
  BY <1>3
<1> QED
  BY <1>1, <1>3, <1>4, <1>5, <1>6, EndFacts, TreeSame, StepKeeps

LEMMA RenameFailsStep ==
    ASSUME Inv, NEW h \in Handlers, RenameFails(h)
    PROVE  Inv'
<1>i. TypeOK /\ Positions
  BY DEF Inv
<1>1. /\ req[h].pc \in {"unlocked", "move"} /\ Fails(h) /\ tree' = Release(tree, req[h].node, 1)
  BY DEF RenameFails
<1>2. req[h].op = "rename" /\ req[h].node = req[h].n
  BY <1>1, <1>i DEF Positions, Position
<1>3. PICK n \in Node : n = req[h].node
  BY <1>2, <1>i, NamesOf
<1>4. /\ req' \in [Handlers -> Requests] /\ req'[h] = NoRequest /\ Continues(h)
      /\ dentry' \in [Dir -> [Names -> Node \cup {NULL}]]
      /\ nlookup' = nlookup /\ forgets' = forgets /\ lost' = lost
      /\ \E D : Drops(D)
  BY <1>1, <1>2, FailsFacts
<1>5. \A a \in Node : Holds(req[h], a) <=> a = n
  BY <1>1, <1>3 DEF Holds
<1>6. External[n] \in Nat /\ External[n] > 0
  BY <1>5, <1>i, ExternalFacts, Places
<1>7. 1 \in Nat \ {0} /\ 1 <= External[n] /\ tree' = Release(tree, n, 1)
  BY <1>1, <1>3, <1>6
<1>8. tree' \in Trees /\ (External' = Less(External, n, 1) => TreeHolds' /\ Stays)
  BY <1>7, ReleaseKeeps
<1>9. TypeOK'
  BY <1>4, <1>8, <1>i, Types, TypesNext
<1>10. External' = Less(External, n, 1)
  BY <1>4, <1>5, <1>9, <1>i, Given, EndFacts DEF Continues
<1>11. PICK D : Drops(D)
  BY <1>4
<1> QED
  BY <1>1, <1>4, <1>8, <1>9, <1>10, <1>11, EndFacts, StepKeeps

LEMMA HandleForgetStep ==
    ASSUME Inv, NEW h \in Handlers, NEW n \in Node, NEW k \in 1..MaxLookups, HandleForget(h, n, k)
    PROVE  Inv'
<1>i. TypeOK /\ Positions /\ Agreement
  BY DEF Inv
<1>1. /\ req[h].op = "none" /\ k <= forgets[n] /\ tree' = Release(tree, n, k)
      /\ forgets' = [forgets EXCEPT ![n] = @ - k]
      /\ req' = req /\ dentry' = dentry /\ nlookup' = nlookup /\ lost' = lost
  BY DEF HandleForget
<1>2. k \in Nat \ {0}
  BY BoundsAssumption
<1>t. /\ forgets \in [Node -> Nat] /\ nlookup \in [Node -> Nat] /\ lost \in [Node -> Nat]
      /\ req \in [Handlers -> Requests] /\ dentry \in [Dir -> [Names -> Node \cup {NULL}]]
  BY <1>i, Types
<1>f. forgets' \in [Node -> Nat]
  <2>1. forgets[n] - k \in Nat
    BY <1>1, <1>2, <1>t
  <2> QED
    BY <1>1, <1>t, <2>1
<1>3. k <= External[n]
  <2>1. External[n] >= forgets[n] /\ forgets[n] \in Nat /\ External[n] \in Nat
    BY <1>i, <1>t, ExternalFacts, Places
  <2> QED
    BY <1>1, <1>2, <2>1
<1>4. tree' \in Trees /\ (External' = Less(External, n, k) => TreeHolds' /\ Stays)
  BY <1>1, <1>2, <1>3, ReleaseKeeps
<1>5. TypeOK'
  BY <1>1, <1>4, <1>f, <1>t, TypesNext
<1>6. External' = Less(External, n, k)
  <2>0. External \in [Dir -> Nat] /\ External' \in [Dir -> Nat] /\ n \in Dir
    BY <1>5, <1>i, ExternalFacts, ExternalNext, Places
  <2>1. ASSUME NEW a \in Node PROVE External'[a] = External[a] - (IF a = n THEN k ELSE 0)
    <3>1. Holders(a)' = Holders(a) /\ Cardinality(Holders(a)) \in Nat
      BY <1>1, HoldersFinite DEF Holders
    <3>2. /\ External[a] = nlookup[a] + forgets[a] + Cardinality(Holders(a)) + lost[a]
          /\ External'[a] = nlookup[a] + forgets'[a] + Cardinality(Holders(a)) + lost[a]
      BY <1>1, <1>5, <1>i, <3>1, ExternalFacts, ExternalNext
    <3>3. nlookup[a] \in Nat /\ forgets[a] \in Nat /\ lost[a] \in Nat
      BY <1>t
    <3>4. PICK i \in Int : i = IF a = n THEN k ELSE 0
      BY <1>2
    <3>5. forgets'[a] = forgets[a] - i
      BY <1>1, <1>t, <3>3, <3>4
    <3>6. \A w, x, y, z \in Nat : w + (x - i) + y + z = (w + x + y + z) - i
      OBVIOUS
    <3> QED
      BY <3>1, <3>2, <3>3, <3>4, <3>5, <3>6
  <2>2. External'[Root] = External[Root] /\ Root # n
    BY <1>5, <1>i, ExternalFacts, ExternalNext, Places
  <2>3. \A a \in Dir : External'[a] = IF a = n THEN External[n] - k ELSE External[a]
    <3>1. \A i \in Nat : i - 0 = i
      OBVIOUS
    <3> QED
      BY <2>0, <2>1, <2>2, <3>1, Places
  <2>4. Less(External, n, k) = [a \in Dir |-> IF a = n THEN External[n] - k ELSE External[a]]
    BY <2>0 DEF Less
  <2> QED
    BY <2>0, <2>3, <2>4
<1>7. Drops({})
  BY <1>1, DropsNothing
<1>8. Continues(h)
  BY <1>1, SameAskFacts DEF Continues
<1>9. req'[h] = NoRequest
  BY <1>1, <1>i DEF Positions, Position
<1>10. req[h].pc # "done"
  BY <1>1, <1>9, NoRequestFacts
<1> QED
  BY <1>4, <1>5, <1>6, <1>7, <1>8, <1>9, <1>10, EndFacts, StepKeeps

LEMMA FuseReplyFailsStep ==
    ASSUME Inv, NEW h \in Handlers, FuseReplyFails(h)
    PROVE  Inv'
<1>i. TypeOK /\ Positions
  BY DEF Inv
<1>1. /\ req[h].pc = "reply" /\ Answer(h) /\ lost' = [lost EXCEPT ![req[h].node] = @ + 1]
      /\ tree' = tree /\ dentry' = dentry /\ nlookup' = nlookup /\ forgets' = forgets
  BY DEF FuseReplyFails, At
<1>2. req' \in [Handlers -> Requests] /\ req'[h] = NoRequest /\ Continues(h)
  BY <1>1, <1>i, AnswerFacts
<1>3. PICK n \in Node : n = req[h].node
  BY <1>1, <1>i DEF Positions, Position
<1>t. /\ forgets \in [Node -> Nat] /\ nlookup \in [Node -> Nat] /\ lost \in [Node -> Nat]
      /\ tree \in Trees /\ dentry \in [Dir -> [Names -> Node \cup {NULL}]]
  BY <1>i, Types
<1>4. lost' \in [Node -> Nat] /\ \A a \in Node : lost'[a] = lost[a] + (IF a = n THEN 1 ELSE 0)
  BY <1>1, <1>3, <1>t, Bump
<1>5. TypeOK'
  BY <1>1, <1>2, <1>4, <1>t, TypesNext
<1>6. External' = External
  <2>1. ASSUME NEW a \in Node PROVE External'[a] = External[a]
    <3>0. /\ Holds(req[h], a) <=> a = n
          /\ ~Holds(req'[h], a)
      BY <1>1, <1>2, <1>3, EndFacts DEF Holds
    <3>1. /\ Cardinality(Holders(a)) \in Nat /\ Cardinality(Holders(a)') \in Nat
          /\ Cardinality(Holders(a)') = Cardinality(Holders(a)) - (IF a = n THEN 1 ELSE 0)
      BY <1>2, <3>0, HolderCount DEF Continues
    <3>2. /\ External[a] = nlookup[a] + forgets[a] + Cardinality(Holders(a)) + lost[a]
          /\ External'[a] = nlookup[a] + forgets[a] + Cardinality(Holders(a)') + lost'[a]
      BY <1>1, <1>5, <1>i, ExternalFacts, ExternalNext
    <3>3. nlookup[a] \in Nat /\ forgets[a] \in Nat /\ lost[a] \in Nat
      BY <1>t
    <3>4. PICK i \in Int : i = IF a = n THEN 1 ELSE 0
      OBVIOUS
    <3>5. \A w, x, y, z \in Nat : w + x + (y - i) + (z + i) = w + x + y + z
      OBVIOUS
    <3> QED
      BY <1>4, <3>1, <3>2, <3>3, <3>4, <3>5
  <2> QED
    BY <1>5, <1>i, <2>1, ExternalFacts, ExternalNext, Places
<1>7. Drops({})
  BY <1>1, DropsNothing
<1> QED
  BY <1>1, <1>2, <1>5, <1>6, <1>7, EndFacts, TreeSame, StepKeeps

\* A directory that is locked for a request is not that of another one.
LEMMA LockAlone ==
    ASSUME Inv, NEW g \in Handlers, NEW h \in Handlers, NEW a \in Dir,
           a \in LockedBy(req[g]), a \in LockedBy(req[h])
    PROVE  g = h
  BY Places DEF Inv, Locks, Serialized

\* What the daemon finds before it moves the node.
LEMMA Unmoved ==
    ASSUME Inv, NEW h \in Handlers, req[h].op = "rename", req[h].pc # "done"
    PROVE  /\ Finds(tree, req[h].p, req[h].x, req[h].n)
           /\ ~Moving(req[h].p, req[h].x) /\ ~Moving(req[h].q, req[h].y)
           /\ req[h].m # NULL => Finds(tree, req[h].q, req[h].y, req[h].m)
<1> DEFINE r == req[h]
<1>i. TypeOK /\ Positions /\ Agreement
  BY DEF Inv
<1>1. r.p \in Dir /\ r.x \in Names /\ r.q \in Dir /\ r.y \in Names /\ r.n \in Node /\ r.n # NULL
  BY <1>i, NamesOf, Places
<1>2. dentry[r.p][r.x] = r.n /\ dentry[r.q][r.y] = r.m
  BY DEF Inv, Locks, Undisturbed
<1>3. r.p \in LockedBy(r) /\ r.q \in LockedBy(r)
  BY DEF LockedBy
<1>4. ASSUME NEW a \in Dir, a \in LockedBy(r), NEW z PROVE ~Moving(a, z)
  <2> SUFFICES ASSUME NEW g \in Handlers, req[g].op = "rename", req[g].pc = "done",
                      <<a, z>> \in {<<req[g].p, req[g].x>>, <<req[g].q, req[g].y>>}
               PROVE  FALSE
    BY DEF Moving
  <2>1. a = req[g].p \/ a = req[g].q
    OBVIOUS
  <2>2. a \in LockedBy(req[g])
    BY <2>1 DEF LockedBy
  <2> QED
    BY <1>4, <2>2, LockAlone
<1>5. ~Moving(r.p, r.x) /\ ~Moving(r.q, r.y)
  BY <1>1, <1>3, <1>4
<1> QED
  BY <1>1, <1>2, <1>5, <1>i DEF Agreement

LEMMA RenameLookupStep ==
    ASSUME Inv, NEW h \in Handlers, RenameLookup(h)
    PROVE  Inv'
<1>i. TypeOK /\ Positions /\ TreeOK(tree, External, {})
  BY DEF Inv, TreeHolds
<1>1. /\ req[h].pc = "new" /\ req[h].op = "rename"
      /\ req' = [req EXCEPT ![h].pc = "unlocked", ![h].node = Child(tree, req[h].p, req[h].x)]
      /\ tree' = Acquire(tree, Child(tree, req[h].p, req[h].x))
      /\ dentry' = dentry /\ nlookup' = nlookup /\ forgets' = forgets /\ lost' = lost
  BY DEF RenameLookup, At, kernelVars
<1>2. Finds(tree, req[h].p, req[h].x, req[h].n)
  BY <1>1, Unmoved
<1>3. req[h].p \in Dir /\ req[h].n \in Node
  BY <1>1, <1>i, NamesOf
<1>4. PICK n \in Node : n = req[h].n
  BY <1>3
<1>5. Child(tree, req[h].p, req[h].x) = n /\ tree.refcount[n] > 0
  BY <1>2, <1>3, <1>4, <1>i, ChildFacts, FoundFacts
<1>6. PICK s : s = Further(req[h], "unlocked", n)
  OBVIOUS
<1>7. Sets(h, s)
  BY <1>1, <1>5, <1>6, <1>i, Types DEF Further, Sets
<1>8. /\ req' \in [Handlers -> Requests] /\ req'[h].pc = "unlocked" /\ req'[h].node = n
      /\ SameAsk(req[h], req'[h]) /\ Continues(h)
  BY <1>6, <1>7, <1>i, GoesFacts, Places
<1>9. tree' = Acquire(tree, n)
  BY <1>1, <1>5
<1>10. /\ tree' \in Trees
       /\ External' = More(External, n) => TreeHolds' /\ Stays
  BY <1>5, <1>9, AcquireKeeps
<1>11. TypeOK'
  BY <1>1, <1>8, <1>10, <1>i, Types, TypesNext
<1>12. External' = More(External, n)
  <2>1. \A a \in Node : ~Holds(req[h], a) /\ (Holds(req'[h], a) <=> a = n)
    BY <1>1, <1>8 DEF Holds
  <2> QED
    BY <1>1, <1>8, <1>11, <1>i, <2>1, Taken DEF Continues
<1>13. Position(req'[h]) /\ Answered(tree', req'[h])
  BY <1>1, <1>4, <1>8, <1>i DEF Positions, Position, SameAsk, Answered, EntryOps
<1>14. Drops({})
  BY <1>1, DropsNothing
<1> QED
  BY <1>1, <1>8, <1>10, <1>11, <1>12, <1>13, <1>14, StepKeeps

\* fuse_reply_entry, once it has the node.
LEMMA EntryStep ==
    ASSUME Inv, NEW h \in Handlers, req[h].pc = "entry", NEW n \in Node,
           Sets(h, Further(req[h], "reply", n)),
           dentry' = dentry, nlookup' = nlookup, forgets' = forgets, lost' = lost,
           tree' \in Trees, External' = More(External, n) => TreeHolds' /\ Stays,
           Finds(tree', req[h].p, req[h].x, n)
    PROVE  Inv'
<1>i. TypeOK /\ Positions
  BY DEF Inv
<1>1. PICK s : s = Further(req[h], "reply", n)
  OBVIOUS
<1>2. Sets(h, s)
  BY <1>1
<1>3. /\ req' \in [Handlers -> Requests] /\ req'[h].pc = "reply" /\ req'[h].node = n
      /\ SameAsk(req[h], req'[h]) /\ Continues(h)
  BY <1>1, <1>2, <1>i, GoesFacts, Places
<1>4. TypeOK'
  BY <1>3, <1>i, Types, TypesNext
<1>5. External' = More(External, n)
  <2>1. \A a \in Node : ~Holds(req[h], a) /\ (Holds(req'[h], a) <=> a = n)
    BY <1>3 DEF Holds
  <2> QED
    BY <1>3, <1>4, <1>i, <2>1, Taken DEF Continues
<1>6. Position(req'[h]) /\ Answered(tree', req'[h])
  BY <1>3, <1>i DEF Positions, Position, SameAsk, Answered, EntryOps
<1>7. Drops({})
  BY DropsNothing
<1> QED
  BY <1>3, <1>4, <1>5, <1>6, <1>7, StepKeeps

LEMMA ReplyEntryStep ==
    ASSUME Inv, NEW h \in Handlers, ReplyEntry(h)
    PROVE  Inv'
<1>i. TypeOK /\ Positions /\ Pins /\ TreeOK(tree, External, {})
  BY DEF Inv, TreeHolds
<1>0. /\ req[h].pc = "entry" /\ dentry' = dentry /\ nlookup' = nlookup
      /\ forgets' = forgets /\ lost' = lost
  BY DEF ReplyEntry, At, kernelVars
<1>1. PICK p \in Dir, x \in Names : p = req[h].p /\ x = req[h].x /\ Known(p)
  <2>1. req[h].op \in EntryOps
    BY <1>0, <1>i DEF Positions, Position
  <2>2. req[h].p \in Dir /\ req[h].x \in Names
    BY <1>i, <2>1, NamesOf
  <2>3. Known(req[h].p)
    BY <1>i DEF Pins
  <2> QED
    BY <2>2, <2>3
<1>2. CASE /\ HasChild(tree, p, x)
           /\ req' = [req EXCEPT ![h].pc = "reply", ![h].node = Child(tree, p, x)]
           /\ tree' = Acquire(tree, Child(tree, p, x))
  <2>1. Finds(tree, p, x, Child(tree, p, x))
    BY <1>2, <1>i, ChildFacts
  <2>2. Child(tree, p, x) \in Node /\ tree.refcount[Child(tree, p, x)] > 0
    BY <1>i, <2>1, FoundFacts
  <2>3. PICK n \in Node : n = Child(tree, p, x)
    BY <2>2
  <2>4. tree' = Acquire(tree, n) /\ tree.refcount[n] > 0
    BY <1>2, <2>2, <2>3
  <2>5. /\ tree' \in Trees
        /\ External' = More(External, n) => TreeHolds' /\ Stays
        /\ \A a, y, c : Finds(tree, a, y, c) => Finds(tree', a, y, c)
    BY <2>4, AcquireKeeps
  <2>6. Sets(h, Further(req[h], "reply", n))
    BY <1>2, <1>i, <2>3, Types DEF Further, Sets
  <2>7. Finds(tree', req[h].p, req[h].x, n)
    BY <1>1, <2>1, <2>3, <2>5
  <2> QED
    BY <1>0, <2>5, <2>6, <2>7, EntryStep
<1>3. CASE /\ ~HasChild(tree, p, x)
           /\ \E n \in Node \ Live : /\ req' = [req EXCEPT ![h].pc = "reply", ![h].node = n]
                                     /\ tree' = Create(tree, n, p, x)
  <2>1. PICK n \in Node \ Live : /\ req' = [req EXCEPT ![h].pc = "reply", ![h].node = n]
                                 /\ tree' = Create(tree, n, p, x)
    BY <1>3
  <2>2. /\ tree' \in Trees
        /\ External' = More(External, n) => TreeHolds' /\ Stays
        /\ Finds(tree', p, x, n)
    BY <1>1, <1>3, <2>1, CreateKeeps
  <2>3. Finds(tree', req[h].p, req[h].x, n)
    BY <1>1, <2>2
  <2>4. Sets(h, Further(req[h], "reply", n))
    BY <1>i, <2>1, Types DEF Further, Sets
  <2> QED
    BY <1>0, <2>2, <2>3, <2>4, EntryStep
<1> QED
  BY <1>1, <1>2, <1>3 DEF ReplyEntry

\* A step of the kernel alone.
LEMMA QuietKeeps ==
    ASSUME Inv, TypeOK', req' = req, tree' = tree, External' = External, NEW D, Drops(D)
    PROVE  Inv'
<1>i. TypeOK /\ Positions /\ Pins /\ Locks /\ Renames
  BY DEF Inv
<1>0. TreeHolds' /\ Stays
  BY TreeSame
<1>1. Continuing
  BY SameAskFacts DEF Continuing
<1>2. Positions'
  BY <1>i DEF Positions
<1>3. Pins'
  BY <1>1, <1>i, PinsKept
<1>4. Locks' /\ Alone'
  BY <1>1, <1>i, LocksKept DEF Renames
<1>5. Agreement'
  <2>1. \A p \in Dir, x \in Names : Moving(p, x)' <=> Moving(p, x)
    BY DEF Moving
  <2>2. \A p \in Dir, x \in Names : dentry'[p][x] = NULL \/ dentry'[p][x] = dentry[p][x]
    BY DEF Drops
  <2> QED
    BY <1>0, <1>3, <2>1, <2>2, AgreementKept
<1>6. \A g \in Handlers : Apart(tree, req[g])'
  <2>1. \A g \in Handlers : Apart(tree', req'[g])
    BY <1>i DEF Renames
  <2> QED
    BY <1>0, <1>3, <2>1, ApartKept
<1> QED
  BY <1>0, <1>2, <1>3, <1>4, <1>5, <1>6 DEF Inv, Renames

LEMMA DropDentryStep ==
    ASSUME Inv, NEW p \in Dir, NEW x \in Names, DropDentry(p, x)
    PROVE  Inv'
<1>i. TypeOK
  BY DEF Inv
<1>1. /\ dentry[p][x] # NULL /\ ~HasDentries(dentry[p][x]) /\ ~Pinned(dentry[p][x])
      /\ dentry' = [dentry EXCEPT ![p][x] = NULL]
      /\ tree' = tree /\ req' = req /\ nlookup' = nlookup /\ forgets' = forgets /\ lost' = lost
  BY DEF DropDentry
<1>2. dentry \in [Dir -> [Names -> Node \cup {NULL}]]
  BY <1>i, Types
<1>3. /\ dentry' \in [Dir -> [Names -> Node \cup {NULL}]]
      /\ \A a \in Dir, b \in Names : dentry'[a][b] = IF a = p /\ b = x THEN NULL ELSE dentry[a][b]
  BY <1>1, <1>2
<1>4. TypeOK'
  BY <1>1, <1>3, <1>i, Types, TypesNext
<1>5. External' = External
  <2>1. \A a : Holders(a)' = Holders(a)
    BY <1>1 DEF Holders
  <2> QED
    BY <1>1, <2>1 DEF External
<1>6. PICK n \in Node : n = dentry[p][x]
  BY <1>1, <1>2
<1>7. Drops({n})
  <2>1. \A g \in Handlers : {n} \cap {req[g].p, req[g].q, req[g].n, req[g].m} = {}
    BY <1>1, <1>6 DEF Pinned
  <2> QED
    BY <1>1, <1>3, <1>6, <2>1 DEF Drops
<1> QED
  BY <1>1, <1>4, <1>5, <1>7, QuietKeeps

LEMMA EvictStep ==
    ASSUME Inv, NEW n \in Node, Evict(n)
    PROVE  Inv'
<1>i. TypeOK
  BY DEF Inv
<1>1. /\ ~InDcache(n) /\ ~Pinned(n)
      /\ forgets' = [forgets EXCEPT ![n] = @ + nlookup[n]]
      /\ nlookup' = [nlookup EXCEPT ![n] = 0]
      /\ tree' = tree /\ req' = req /\ dentry' = dentry /\ lost' = lost
  BY DEF Evict
<1>t. forgets \in [Node -> Nat] /\ nlookup \in [Node -> Nat]
  BY <1>i, Types
<1>2. forgets' \in [Node -> Nat] /\ nlookup' \in [Node -> Nat]
  BY <1>1, <1>t
<1>3. TypeOK'
  BY <1>1, <1>2, <1>i, Types, TypesNext
<1>4. ASSUME NEW a \in Node
      PROVE  /\ nlookup'[a] + forgets'[a] = nlookup[a] + forgets[a]
             /\ a # n => nlookup'[a] = nlookup[a]
  <2>1. /\ nlookup'[a] = IF a = n THEN 0 ELSE nlookup[a]
        /\ forgets'[a] = IF a = n THEN forgets[n] + nlookup[n] ELSE forgets[a]
        /\ nlookup[a] \in Nat /\ forgets[a] \in Nat
    BY <1>1, <1>t
  <2>2. \A i, j \in Nat : 0 + (i + j) = j + i
    OBVIOUS
  <2> QED
    BY <2>1, <2>2
<1>5. External' = External
  <2>1. ASSUME NEW a \in Node PROVE External'[a] = External[a]
    <3>1. Holders(a)' = Holders(a)
      BY <1>1 DEF Holders
    <3>2. /\ External[a] = nlookup[a] + forgets[a] + Cardinality(Holders(a)) + lost[a]
          /\ External'[a] = nlookup'[a] + forgets'[a] + Cardinality(Holders(a)) + lost[a]
      BY <1>1, <1>3, <1>i, <3>1, ExternalFacts, ExternalNext
    <3>3. nlookup'[a] + forgets'[a] = nlookup[a] + forgets[a]
      BY <1>4
    <3> QED
      BY <3>2, <3>3, Zenon
  <2> QED
    BY <1>3, <1>i, <2>1, ExternalFacts, ExternalNext, Places
<1>6. Drops({})
  BY <1>1, <1>4 DEF Drops
<1> QED
  BY <1>1, <1>3, <1>5, <1>6, QuietKeeps

\* The other requests, when the kernel changes the dentries of directories
\* that are locked for this one.
LEMMA OtherLocks ==
    ASSUME Inv, NEW h \in Handlers, Continues(h), req'[h] = NoRequest,
           \A a \in Dir, b \in Names : a \notin LockedBy(req[h]) => dentry'[a][b] = dentry[a][b],
           \A a \in Dir : InDcache(a) /\ a \notin LockedBy(req[h]) => InDcache(a)'
    PROVE  Locks' /\ Alone'
<1>i. TypeOK /\ Positions /\ Locks /\ Alone
  BY DEF Inv, Renames
<1>1. Serialized' /\ Alone'
  BY <1>i, ContinuesAll, SerializedKept DEF Locks
<1>2. ASSUME NEW g \in Handlers PROVE Undisturbed(req[g])'
  <2>1. CASE g = h
    BY <2>1, NoRequestFacts DEF Undisturbed
  <2>2. CASE g # h
    <3> DEFINE r == req[g]
    <3>1. Undisturbed(r) /\ req'[g] = r
      BY <1>i, <2>2 DEF Locks, Continues
    <3>2. ASSUME NEW a \in Dir, a \in LockedBy(r) PROVE a \notin LockedBy(req[h])
      BY <2>2, <3>2, LockAlone
    <3>3. ASSUME NEW a \in Dir, a \in LockedBy(r), InDcache(a) PROVE InDcache(a)'
      BY <3>2, <3>3
    <3>4. ASSUME NEW a \in Dir, a \in LockedBy(r), ~HasDentries(a) PROVE ~HasDentries(a)'
      BY <3>2, <3>4 DEF HasDentries
    <3>5. ASSUME NEW a \in Dir, NEW b \in Names, a \in LockedBy(r) PROVE dentry'[a][b] = dentry[a][b]
      BY <3>2, <3>5
    <3>7. CASE r.op \in {"lookup", "create"}
      <4>1. PICK p \in Dir, x \in Names : p = r.p /\ x = r.x
        BY <1>i, <3>7, NamesOf DEF EntryOps
      <4>2. InDcache(p) /\ dentry[p][x] = NULL /\ p \in LockedBy(r)
        BY <3>1, <3>7, <4>1 DEF Undisturbed, LockedBy
      <4>3. InDcache(p)' /\ dentry'[p][x] = NULL
        BY <3>3, <3>5, <4>2
      <4> QED
        BY <3>1, <3>7, <4>1, <4>3 DEF Undisturbed, InDcache
    <3>8. CASE r.op = "remove"
      <4>1. PICK p \in Dir, x \in Names, n \in Dir : p = r.p /\ x = r.x /\ n = r.n
        BY <1>i, <3>8, NamesOf, Places
      <4>2. dentry[p][x] = n /\ ~HasDentries(n) /\ p \in LockedBy(r) /\ n \in LockedBy(r)
        BY <3>1, <3>8, <4>1 DEF Undisturbed, LockedBy
      <4>3. dentry'[p][x] = n /\ ~HasDentries(n)'
        BY <3>4, <3>5, <4>2
      <4> QED
        BY <3>1, <3>8, <4>1, <4>3 DEF Undisturbed, HasDentries
    <3>9. CASE r.op = "rename"
      <4>1. PICK p \in Dir, x \in Names, n \in Node, q \in Dir, y \in Names, m \in Node \cup {NULL} :
               p = r.p /\ x = r.x /\ n = r.n /\ q = r.q /\ y = r.y /\ m = r.m
        BY <1>i, <3>9, NamesOf, Fields
      <4>2. /\ dentry[p][x] = n /\ dentry[q][y] = m /\ n # m
            /\ InDcache(q) /\ (m # NULL => ~HasDentries(m))
            /\ p \in LockedBy(r) /\ q \in LockedBy(r) /\ m \in LockedBy(r)
        BY <3>1, <3>9, <4>1 DEF Undisturbed, LockedBy
      <4>3. dentry'[p][x] = n /\ dentry'[q][y] = m /\ InDcache(q)'
        BY <3>3, <3>5, <4>2
      <4>4. m # NULL => ~HasDentries(m)'
        BY <3>4, <4>2, Places
      <4> QED
        BY <3>1, <3>9, <4>1, <4>2, <4>3, <4>4 DEF Undisturbed, HasDentries, InDcache
    <3>10. CASE r.op \notin {"lookup", "create", "remove", "rename"}
      BY <3>1, <3>10 DEF Undisturbed
    <3> QED
      BY <3>7, <3>8, <3>9, <3>10
  <2> QED
    BY <2>1, <2>2
<1> QED
  BY <1>1, <1>2 DEF Locks

\* The kernel's pins, when it takes an answer: dentries go, of nodes of L
\* alone, or are of a node with a lookup, in a directory with a dentry.
LEMMA PinsAnswered ==
    ASSUME Inv, TypeOK', NEW h \in Handlers, Continues(h), req'[h] = NoRequest, NEW L,
           \A a \in Node : nlookup[a] > 0 => nlookup'[a] > 0,
           \A p \in Dir, x \in Names :
              \/ dentry'[p][x] \in {dentry[p][x], NULL}
              \/ dentry'[p][x] \in Node /\ nlookup'[dentry'[p][x]] > 0 /\ InDcache(p),
           \A a \in Dir : InDcache(a) /\ a \notin L => InDcache(a)',
           \A a \in Dir : a \in L => ~HasDentries(a)'
    PROVE  Pins'
<1>i. TypeOK /\ Pins
  BY DEF Inv
<1>1. \A a \in Dir \cup {NULL} : Known(a) => Known(a)'
  BY Places DEF Known
<1>2. ASSUME NEW p \in Dir, NEW x \in Names PROVE Known(dentry[p][x])'
  <2>1. CASE dentry'[p][x] = NULL
    BY <2>1 DEF Known
  <2>2. CASE dentry'[p][x] \in Node /\ nlookup'[dentry'[p][x]] > 0
    BY <2>2 DEF Known
  <2>3. CASE dentry'[p][x] = dentry[p][x]
    <3>1. PICK a \in Dir \cup {NULL} : a = dentry[p][x] /\ Known(a)
      BY <1>i, Types, Places DEF Pins
    <3>2. Known(a)'
      BY <1>1, <3>1
    <3> QED
      BY <2>3, <3>1, <3>2 DEF Known
  <2> QED
    BY <2>1, <2>2, <2>3
<1>3. ASSUME NEW g \in Handlers
      PROVE  Known(req[g].p)' /\ Known(req[g].q)' /\ Known(req[g].n)' /\ Known(req[g].m)'
  <2>1. CASE g = h
    BY <2>1, NoRequestFacts DEF Known
  <2>2. CASE g # h
    <3>1. PICK p, q, n, m : p = req[g].p /\ q = req[g].q /\ n = req[g].n /\ m = req[g].m
      OBVIOUS
    <3>2. Known(p) /\ Known(q) /\ Known(n) /\ Known(m)
      BY <1>i, <3>1 DEF Pins
    <3>3. {p, q, n, m} \subseteq Dir \cup {NULL}
      BY <1>i, <3>1, Fields, Places
    <3>4. Known(p)' /\ Known(q)' /\ Known(n)' /\ Known(m)'
      BY <1>1, <3>2, <3>3
    <3>5. req'[g] = req[g]
      BY <2>2 DEF Continues
    <3> QED
      BY <3>1, <3>4, <3>5 DEF Known
  <2> QED
    BY <2>1, <2>2
<1>4. ASSUME NEW p \in Dir, HasDentries(p)' PROVE InDcache(p)'
  <2>1. p \notin L
    BY <1>4
  <2>2. InDcache(p)
    <3>1. PICK x \in Names : dentry'[p][x] # NULL
      BY <1>4 DEF HasDentries
    <3>2. CASE dentry'[p][x] = dentry[p][x]
      BY <1>i, <3>1, <3>2 DEF Pins, HasDentries
    <3> QED
      BY <3>1, <3>2
  <2> QED
    BY <2>1, <2>2
<1> QED
  BY <1>2, <1>3, <1>4 DEF Pins

\* The whole invariant, when the kernel takes an answer and the tree stays.
LEMMA ReplyKeeps ==
    ASSUME Inv, TypeOK', tree' = tree, External' = External, Pins',
           NEW h \in Handlers, Continues(h), req'[h] = NoRequest,
           \A a \in Dir, b \in Names : a \notin LockedBy(req[h]) => dentry'[a][b] = dentry[a][b],
           \A a \in Dir : InDcache(a) /\ a \notin LockedBy(req[h]) => InDcache(a)',
           \A p \in Dir, x \in Names :
              \/ dentry'[p][x] = NULL
              \/ Finds(tree', p, x, dentry'[p][x])
              \/ dentry'[p][x] = dentry[p][x] /\ (Moving(p, x) => Moving(p, x)')
    PROVE  Inv'
<1>i. TypeOK /\ Positions /\ Renames
  BY DEF Inv
<1>1. TreeHolds' /\ Stays
  BY TreeSame
<1>2. Positions'
  <2>1. \A g \in Handlers : Position(req'[g])
    BY <1>i, NoRequestFacts DEF Positions, Continues
  <2> QED
    BY <2>1 DEF Positions, Position, NoRequest, EntryOps
<1>3. Locks' /\ Alone'
  BY OtherLocks
<1>4. Agreement'
  <2>1. \A g \in Handlers : req'[g] = req[g] \/ Answered(tree', req'[g])
    BY EndFacts DEF Continues
  <2> QED
    BY <1>1, <2>1, AgreementKept
<1>5. \A g \in Handlers : Apart(tree, req[g])'
  <2>1. Apart(tree', NoRequest)
    BY SameAskFacts DEF Apart
  <2>2. \A g \in Handlers : Apart(tree', req'[g])
    BY <1>i, <2>1 DEF Continues, Renames
  <2> QED
    BY <1>1, <2>2, ApartKept
<1> QED
  BY <1>1, <1>2, <1>3, <1>4, <1>5 DEF Inv, Renames

LEMMA FuseStatusStep ==
    ASSUME Inv, NEW h \in Handlers, FuseStatus(h)
    PROVE  Inv'
<1> DEFINE r == req[h]
<1>i. TypeOK /\ Positions /\ Pins /\ Agreement /\ Undisturbed(r)
  BY DEF Inv, Locks
<1>1. /\ r.pc = "done" /\ Answer(h)
      /\ tree' = tree /\ nlookup' = nlookup /\ forgets' = forgets /\ lost' = lost
      /\ dentry' = IF r.op = "remove" THEN [dentry EXCEPT ![r.p][r.x] = NULL]
                   ELSE [dentry EXCEPT ![r.p][r.x] = NULL, ![r.q][r.y] = r.n]
  BY DEF FuseStatus
<1>2. req' \in [Handlers -> Requests] /\ req'[h] = NoRequest /\ Continues(h)
  BY <1>1, <1>i, AnswerFacts
<1>3. r.op \in {"remove", "rename"}
  BY <1>1, <1>i DEF Positions, Position
<1>4. PICK p \in Dir, x \in Names, n \in Node :
         p = r.p /\ x = r.x /\ n = r.n /\ dentry[p][x] = n /\ p \in LockedBy(r) /\ nlookup[n] > 0
  <2>1. r.p \in Dir /\ r.x \in Names /\ r.n \in Node
    BY <1>3, <1>i, NamesOf
  <2>2. dentry[r.p][r.x] = r.n /\ r.p \in LockedBy(r)
    BY <1>3, <1>i DEF Undisturbed, LockedBy
  <2>3. nlookup[r.n] > 0
    BY <1>i, <2>1, Places DEF Pins, Known
  <2> QED
    BY <2>1, <2>2, <2>3
<1>5. dentry \in [Dir -> [Names -> Node \cup {NULL}]]
  BY <1>i, Types
<1>6. ASSUME dentry' \in [Dir -> [Names -> Node \cup {NULL}]]
      PROVE  TypeOK' /\ External' = External
  <2>1. TypeOK'
    BY <1>1, <1>2, <1>6, <1>i, Types, TypesNext
  <2>2. \A a \in Node : ~Holds(req[h], a) /\ ~Holds(req'[h], a)
    BY <1>1, <1>2, EndFacts DEF Holds
  <2>3. External' = External
    BY <1>1, <1>2, <1>i, <2>1, <2>2, StillHeld DEF Continues
  <2> QED
    BY <2>1, <2>3
<1>7. CASE r.op = "remove"
  <2>1. dentry' = [dentry EXCEPT ![p][x] = NULL]
    BY <1>1, <1>4, <1>7
  <2>2. /\ dentry' \in [Dir -> [Names -> Node \cup {NULL}]]
        /\ \A a \in Dir, b \in Names : dentry'[a][b] = IF a = p /\ b = x THEN NULL ELSE dentry[a][b]
    BY <1>5, <2>1
  <2>3. ~HasDentries(n) /\ n \in LockedBy(r)
    BY <1>4, <1>7, <1>i DEF Undisturbed, LockedBy
  <2>4. \A a \in Dir : InDcache(a) /\ a # n => InDcache(a)'
    BY <1>4, <2>2 DEF InDcache
  <2>5. ~HasDentries(n)'
    BY <2>2, <2>3, Places DEF HasDentries
  <2>6. Pins'
    <3>1. \A a \in Dir : InDcache(a) /\ a \notin {n} => InDcache(a)'
      BY <2>4
    <3>2. \A a \in Dir : a \in {n} => ~HasDentries(a)'
      BY <2>5 DEF HasDentries
    <3>3. \A a \in Dir, b \in Names : dentry'[a][b] \in {dentry[a][b], NULL}
      BY <2>2
    <3> QED
      BY <1>1, <1>2, <1>6, <2>2, <3>1, <3>2, <3>3, PinsAnswered
  <2>7. \A a \in Dir, b \in Names : \/ dentry'[a][b] = NULL
                                    \/ dentry'[a][b] = dentry[a][b] /\ (Moving(a, b) => Moving(a, b)')
    <3>1. \A a, b : Moving(a, b) => Moving(a, b)'
      BY <1>2, <1>7 DEF Moving, Continues
    <3> QED
      BY <2>2, <3>1
  <2>8. \A a \in Dir, b \in Names : a \notin LockedBy(req[h]) => dentry'[a][b] = dentry[a][b]
    BY <1>4, <2>2
  <2>9. \A a \in Dir : InDcache(a) /\ a \notin LockedBy(req[h]) => InDcache(a)'
    BY <2>3, <2>4
  <2> QED
    BY <1>1, <1>2, <1>6, <2>2, <2>6, <2>7, <2>8, <2>9, ReplyKeeps
<1>8. CASE r.op = "rename"
  <2>0. PICK q \in Dir, y \in Names, m \in Node \cup {NULL} : q = r.q /\ y = r.y /\ m = r.m
    BY <1>8, <1>i, NamesOf, Fields
  <2>1. /\ dentry[q][y] = m /\ n # m /\ InDcache(q) /\ (m # NULL => ~HasDentries(m))
        /\ q \in LockedBy(r) /\ m \in LockedBy(r) /\ Finds(tree, q, y, n)
    BY <1>1, <1>4, <1>8, <1>i, <2>0 DEF Undisturbed, LockedBy, Agreement, Answered
  <2>2. dentry' = [dentry EXCEPT ![p][x] = NULL, ![q][y] = n]
    BY <1>1, <1>4, <1>8, <2>0
  <2>3. /\ dentry' \in [Dir -> [Names -> Node \cup {NULL}]]
        /\ \A a \in Dir, b \in Names : dentry'[a][b] = IF a = q /\ b = y THEN n
                                                       ELSE IF a = p /\ b = x THEN NULL ELSE dentry[a][b]
    BY <1>5, <2>2
  <2>4. \A a \in Dir : InDcache(a) /\ a # m => InDcache(a)'
    <3> SUFFICES ASSUME NEW a \in Dir, InDcache(a), a # m, a # Root PROVE InDcache(a)'
      BY DEF InDcache
    <3>1. PICK b \in Dir, z \in Names : dentry[b][z] = a
      BY DEF InDcache
    <3>2. CASE b = p /\ z = x
      <4>1. a = n
        BY <1>4, <3>1, <3>2
      <4> QED
        BY <2>3, <4>1 DEF InDcache
    <3>3. CASE ~(b = p /\ z = x)
      <4>1. dentry'[b][z] = a
        BY <2>1, <2>3, <3>1, <3>3
      <4> QED
        BY <4>1 DEF InDcache
    <3> QED
      BY <3>2, <3>3
  <2>5. ASSUME m \in Dir PROVE ~HasDentries(m)'
    <3>1. m # NULL /\ \A z \in Names : dentry[m][z] = NULL
      BY <2>1, <2>5, Places DEF HasDentries
    <3>2. m # q
      BY <2>1, <3>1
    <3> QED
      BY <2>3, <2>5, <3>1, <3>2 DEF HasDentries
  <2>6. Pins'
    <3>1. \A a \in Dir : InDcache(a) /\ a \notin {m} => InDcache(a)'
      BY <2>4
    <3>2. \A a \in Dir : a \in {m} => ~HasDentries(a)'
      BY <2>5 DEF HasDentries
    <3>3. \A a \in Dir, b \in Names :
             \/ dentry'[a][b] \in {dentry[a][b], NULL}
             \/ dentry'[a][b] \in Node /\ nlookup'[dentry'[a][b]] > 0 /\ InDcache(a)
      BY <1>1, <1>4, <2>1, <2>3
    <3> QED
      BY <1>1, <1>2, <1>6, <2>3, <3>1, <3>2, <3>3, PinsAnswered
  <2>7. \A a \in Dir, b \in Names : \/ dentry'[a][b] = NULL
                                    \/ Finds(tree', a, b, dentry'[a][b])
                                    \/ dentry'[a][b] = dentry[a][b] /\ (Moving(a, b) => Moving(a, b)')
    <3> SUFFICES ASSUME NEW a \in Dir, NEW b \in Names, ~(a = q /\ b = y), ~(a = p /\ b = x)
                 PROVE  Moving(a, b) => Moving(a, b)'
      BY <1>1, <2>1, <2>3
    <3> SUFFICES ASSUME NEW g \in Handlers, req[g].op = "rename", req[g].pc = "done",
                        <<a, b>> \in {<<req[g].p, req[g].x>>, <<req[g].q, req[g].y>>}
                 PROVE  Moving(a, b)'
      BY DEF Moving
    <3>1. g # h
      BY <1>4, <2>0
    <3> QED
      BY <1>2, <3>1 DEF Continues, Moving
  <2>8. \A a \in Dir, b \in Names : a \notin LockedBy(req[h]) => dentry'[a][b] = dentry[a][b]
    BY <1>4, <2>1, <2>3
  <2>9. \A a \in Dir : InDcache(a) /\ a \notin LockedBy(req[h]) => InDcache(a)'
    BY <2>1, <2>4
  <2> QED
    BY <1>1, <1>2, <1>6, <2>3, <2>6, <2>7, <2>8, <2>9, ReplyKeeps
<1> QED
  BY <1>3, <1>7, <1>8

\* The kernel takes an entry: the reference of the handler becomes a lookup.
LEMMA LookupTaken ==
    ASSUME TypeOK, TypeOK', NEW h \in Handlers, Continues(h), req'[h] = NoRequest, NEW n \in Node,
           req[h].pc = "reply", req[h].node = n, lost' = lost,
           \A a \in Node : nlookup'[a] + forgets'[a] = nlookup[a] + forgets[a] + (IF a = n THEN 1 ELSE 0)
    PROVE  External' = External
<1>1. ASSUME NEW a \in Node PROVE External'[a] = External[a]
  <2>0. /\ Holds(req[h], a) <=> a = n
        /\ ~Holds(req'[h], a)
    BY EndFacts DEF Holds
  <2>1. /\ Cardinality(Holders(a)) \in Nat /\ Cardinality(Holders(a)') \in Nat
        /\ Cardinality(Holders(a)') = Cardinality(Holders(a)) - (IF a = n THEN 1 ELSE 0)
    BY <2>0, HolderCount DEF Continues
  <2>2. /\ External[a] = nlookup[a] + forgets[a] + Cardinality(Holders(a)) + lost[a]
        /\ External'[a] = nlookup'[a] + forgets'[a] + Cardinality(Holders(a)') + lost[a]
    BY ExternalFacts, ExternalNext
  <2>3. nlookup[a] \in Nat /\ forgets[a] \in Nat /\ lost[a] \in Nat
    BY Types
  <2>4. PICK i \in Int : i = IF a = n THEN 1 ELSE 0
    OBVIOUS
  <2>5. \A w, x, y, z \in Nat : w + x + i + (y - i) + z = w + x + y + z
    OBVIOUS
  <2>6. nlookup'[a] + forgets'[a] = nlookup[a] + forgets[a] + i
    BY <2>4
  <2> QED
    BY <2>1, <2>2, <2>3, <2>4, <2>5, <2>6
<1> QED
  BY <1>1, ExternalFacts, ExternalNext, Places

LEMMA FuseReplyStep ==
    ASSUME Inv, NEW h \in Handlers, FuseReply(h)
    PROVE  Inv'
<1> DEFINE r == req[h]
<1> DEFINE other == r.op = "revalidate" /\ r.node # r.n
<1>i. TypeOK /\ Positions /\ Pins /\ Agreement /\ Undisturbed(r)
  BY DEF Inv, Locks
<1>1. /\ r.pc = "reply" /\ Answer(h) /\ tree' = tree /\ lost' = lost
      /\ nlookup' = IF other THEN nlookup ELSE [nlookup EXCEPT ![r.node] = @ + 1]
      /\ forgets' = IF other THEN [forgets EXCEPT ![r.node] = @ + 1] ELSE forgets
      /\ dentry' = IF other THEN Invalidated(h)
                   ELSE IF r.op = "revalidate" THEN dentry
                   ELSE [dentry EXCEPT ![r.p][r.x] = r.node]
  BY DEF FuseReply
<1>2. req' \in [Handlers -> Requests] /\ req'[h] = NoRequest /\ Continues(h)
  BY <1>1, <1>i, AnswerFacts
<1>3. PICK n \in Node : n = r.node
  BY <1>1, <1>i DEF Positions, Position
<1>t. /\ nlookup \in [Node -> Nat] /\ forgets \in [Node -> Nat] /\ lost \in [Node -> Nat]
      /\ tree \in Trees /\ dentry \in [Dir -> [Names -> Node \cup {NULL}]]
  BY <1>i, Types
<1>4. r.op \in EntryOps
  BY <1>1, <1>i DEF Positions, Position
<1>5. CASE other
  <2>1. nlookup' = nlookup /\ forgets' = [forgets EXCEPT ![n] = forgets[n] + 1] /\ dentry' = Invalidated(h)
    BY <1>1, <1>3, <1>5
  <2>2. forgets' \in [Node -> Nat] /\ \A a \in Node : forgets'[a] = forgets[a] + (IF a = n THEN 1 ELSE 0)
    BY <1>t, <2>1, Bump
  <2>3. dentry' \in [Dir -> [Names -> Node \cup {NULL}]] /\ \E D : Drops(D)
    BY <1>2, <1>5, <2>1, InvalidatedFacts
  <2>4. TypeOK'
    BY <1>1, <1>2, <1>t, <2>1, <2>2, <2>3, TypesNext
  <2>5. External' = External
    <3>1. \A a \in Node : nlookup'[a] + forgets'[a] = nlookup[a] + forgets[a] + (IF a = n THEN 1 ELSE 0)
      <4> SUFFICES ASSUME NEW a \in Node
                   PROVE  nlookup'[a] + forgets'[a] = nlookup[a] + forgets[a] + (IF a = n THEN 1 ELSE 0)
        OBVIOUS
      <4>1. PICK i \in Int : i = IF a = n THEN 1 ELSE 0
        OBVIOUS
      <4>2. \A v, w \in Nat : v + (w + i) = v + w + i
        OBVIOUS
      <4> QED
        BY <1>t, <2>1, <2>2, <4>1, <4>2
    <3> QED
      BY <1>1, <1>2, <1>3, <1>i, <2>4, <3>1, LookupTaken
  <2> QED
    BY <1>1, <1>2, <2>3, <2>4, <2>5, EndFacts, TreeSame, StepKeeps
<1>6. CASE ~other
  <2>1. nlookup' = [nlookup EXCEPT ![n] = nlookup[n] + 1] /\ forgets' = forgets
    BY <1>1, <1>3, <1>6
  <2>2. nlookup' \in [Node -> Nat] /\ \A a \in Node : nlookup'[a] = nlookup[a] + (IF a = n THEN 1 ELSE 0)
    BY <1>t, <2>1, Bump
  <2>3. nlookup'[n] > 0 /\ \A a \in Node : nlookup[a] > 0 => nlookup'[a] > 0
    <3>1. \A w \in Nat : w + 1 > 0
      OBVIOUS
    <3>2. \A a \in Node : nlookup'[a] = IF a = n THEN nlookup[n] + 1 ELSE nlookup[a]
      BY <1>t, <2>1
    <3> QED
      BY <1>t, <3>1, <3>2
  <2>4. ASSUME dentry' \in [Dir -> [Names -> Node \cup {NULL}]] PROVE TypeOK' /\ External' = External
    <3>1. TypeOK'
      BY <1>1, <1>2, <1>t, <2>1, <2>2, <2>4, TypesNext
    <3>2. \A a \in Node : nlookup'[a] + forgets'[a] = nlookup[a] + forgets[a] + (IF a = n THEN 1 ELSE 0)
      <4> SUFFICES ASSUME NEW a \in Node
                   PROVE  nlookup'[a] + forgets'[a] = nlookup[a] + forgets[a] + (IF a = n THEN 1 ELSE 0)
        OBVIOUS
      <4>1. PICK i \in Int : i = IF a = n THEN 1 ELSE 0
        OBVIOUS
      <4>2. \A v, w \in Nat : (v + i) + w = v + w + i
        OBVIOUS
      <4> QED
        BY <1>t, <2>1, <2>2, <4>1, <4>2
    <3>3. External' = External
      BY <1>1, <1>2, <1>3, <1>i, <3>1, <3>2, LookupTaken
    <3> QED
      BY <3>1, <3>3
  <2>5. CASE r.op = "revalidate"
    <3>1. dentry' = dentry
      BY <1>1, <1>6, <2>5
    <3>2. Drops({})
      BY <2>3, <3>1, DropsNothing
    <3> QED
      BY <1>1, <1>2, <1>t, <2>4, <3>1, <3>2, EndFacts, TreeSame, StepKeeps
  <2>6. CASE r.op \in {"lookup", "create"}
    <3>1. PICK p \in Dir, x \in Names : p = r.p /\ x = r.x
      BY <1>4, <1>i, NamesOf
    <3>2. dentry' = [dentry EXCEPT ![p][x] = n]
      BY <1>1, <1>3, <1>6, <2>6, <3>1
    <3>3. /\ dentry' \in [Dir -> [Names -> Node \cup {NULL}]]
          /\ \A a \in Dir, b \in Names : dentry'[a][b] = IF a = p /\ b = x THEN n ELSE dentry[a][b]
      BY <1>t, <3>2
    <3>4. InDcache(p) /\ dentry[p][x] = NULL /\ p \in LockedBy(r) /\ Finds(tree, p, x, n)
      BY <1>1, <1>3, <1>i, <2>6, <3>1 DEF Undisturbed, LockedBy, Agreement, Answered
    <3>5. \A a \in Dir : InDcache(a) => InDcache(a)'
      BY <3>3, <3>4, Places DEF InDcache
    <3>6. Pins'
      <4>0. PICK L : L = {}
        OBVIOUS
      <4>1. \A a \in Dir : a \in L => ~HasDentries(a)'
        BY <4>0
      <4>2. \A a \in Dir, b \in Names :
               \/ dentry'[a][b] \in {dentry[a][b], NULL}
               \/ dentry'[a][b] \in Node /\ nlookup'[dentry'[a][b]] > 0 /\ InDcache(a)
        BY <2>3, <3>3, <3>4
      <4>3. \A a \in Dir : InDcache(a) /\ a \notin L => InDcache(a)'
        BY <3>5
      <4> QED
        BY <1>1, <1>2, <2>3, <2>4, <3>3, <4>1, <4>2, <4>3, PinsAnswered
    <3>7. \A a, b : Moving(a, b) => Moving(a, b)'
      BY <1>1, <1>2 DEF Moving, Continues
    <3>8. \A a \in Dir, b \in Names : \/ Finds(tree', a, b, dentry'[a][b])
                                      \/ dentry'[a][b] = dentry[a][b] /\ (Moving(a, b) => Moving(a, b)')
      BY <1>1, <3>3, <3>4, <3>7
    <3>9. \A a \in Dir, b \in Names : a \notin LockedBy(req[h]) => dentry'[a][b] = dentry[a][b]
      BY <3>3, <3>4
    <3> QED
      BY <1>1, <1>2, <2>4, <3>3, <3>5, <3>6, <3>8, <3>9, ReplyKeeps
  <2> QED
    BY <1>4, <2>5, <2>6 DEF EntryOps
<1> QED
  BY <1>5, <1>6

\* The second section of handle_rename, on the tree.
LEMMA MoveKeeps ==
    ASSUME Inv, NEW n \in Node, 1 <= External[n], NEW q \in Dir, Known(q), NEW y \in Names,
           tree.parent[n] = q \/ Clear(tree, q, n),
           tree' = Release(Moved(tree, n, q, y), n, 1)
    PROVE  /\ tree' \in Trees
           /\ External' = Less(External, n, 1) =>
                 /\ TreeHolds'
                 /\ External'[n] > 0 => Finds(tree', q, y, n)
                 /\ \A c \in Node \ {n} : External'[c] > 0 => tree'.parent[c] = tree.parent[c]
                 /\ \A a \in Dir : \A z : \A c \in Node \ {n} :
                       Finds(tree, a, z, c) /\ External'[c] > 0 /\ (a # q \/ z # y) => Finds(tree', a, z, c)
                 /\ tree.parent[n] = q =>
                       \A a \in Dir : \A b : Clear(tree, a, b) /\ External'[a] > 0 => Clear(tree', a, b)
<1>i. /\ TypeOK /\ TreeOK(tree, External, {}) /\ tree.parent[Root] = NULL /\ NoCycleIn(tree)
  BY DEF Inv, TreeHolds
<1>e. External \in [Dir -> Nat] /\ n \in Dir /\ External[n] > 0 /\ External[q] > 0
  BY <1>i, ExternalFacts, Places
<1>1. PICK e2 : e2 = Less(External, n, 1)
  OBVIOUS
<1>2. PICK t2 : t2 = Moved(tree, n, q, y)
  OBVIOUS
<1>3. PICK t3 : t3 = Release(t2, n, 1)
  OBVIOUS
<1>4. /\ TreeOK(t2, External, {}) /\ t2.parent[Root] = NULL /\ NoCycleIn(t2)
      /\ Finds(t2, q, y, n)
      /\ \A c \in Node \ {n} : External[c] > 0 => t2.parent[c] = tree.parent[c] /\ t2.name[c] = tree.name[c]
      /\ \A p \in Dir : \A x, c : /\ Finds(tree, p, x, c) /\ c # n /\ External[c] > 0 /\ (p # q \/ x # y)
                                  => Finds(t2, p, x, c)
      /\ tree.parent[n] = q =>
            \A a, b : Clear(tree, a, b) /\ External[a] > 0 => Clear(t2, a, b)
  BY <1>2, <1>e, <1>i, MovedFacts
<1>5. TreeOK(t3, e2, {}) /\ \E gone : Pruned(t2, t3, gone) /\ \A a \in gone : e2[a] = 0
  <2>1. 1 \in Nat \ {0}
    OBVIOUS
  <2> QED
    BY <1>1, <1>3, <1>4, <1>e, <2>1, ReleaseFacts
<1>6. PICK gone : Pruned(t2, t3, gone) /\ \A a \in gone : e2[a] = 0
  BY <1>5
<1>7. /\ NoCycleIn(t3)
      /\ \A p \in Dir : \A x, c : Finds(t2, p, x, c) /\ c \notin gone => Finds(t3, p, x, c)
      /\ \A a, b : Clear(t2, a, b) /\ a \notin gone => Clear(t3, a, b)
  BY <1>4, <1>6, PrunedKeeps
<1>8. \A a \in Dir : e2[a] > 0 => a \notin gone /\ External[a] > 0
  <2>1. \A a \in Dir : e2[a] = IF a = n THEN External[n] - 1 ELSE External[a]
    BY <1>1, <1>e DEF Less
  <2>2. \A i \in Nat : i - 1 > 0 => i > 0
    OBVIOUS
  <2> QED
    BY <1>6, <1>e, <2>1, <2>2
<1>9. gone \subseteq Node /\ \A a \in Dir \ gone : t3.parent[a] = t2.parent[a]
  BY <1>6 DEF Pruned
<1>10. tree' = t3
  BY <1>2, <1>3
<1>11. ASSUME External' = Less(External, n, 1)
       PROVE  /\ TreeHolds'
              /\ External'[n] > 0 => Finds(tree', q, y, n)
              /\ \A c \in Node \ {n} : External'[c] > 0 => tree'.parent[c] = tree.parent[c]
              /\ \A a \in Dir : \A z : \A c \in Node \ {n} :
                    Finds(tree, a, z, c) /\ External'[c] > 0 /\ (a # q \/ z # y) => Finds(tree', a, z, c)
              /\ tree.parent[n] = q =>
                    \A a \in Dir : \A b : Clear(tree, a, b) /\ External'[a] > 0 => Clear(tree', a, b)
  <2>1. External' = e2
    BY <1>1, <1>11
  <2>2. TreeHolds'
    <3>1. t3.parent[Root] = NULL
      BY <1>4, <1>9, Places
    <3>2. TreeOK(tree', External', {}) /\ tree'.parent[Root] = NULL /\ NoCycleIn(tree')
      BY <1>5, <1>7, <1>10, <2>1, <3>1, Zenon
    <3> QED
      BY <3>2 DEF TreeHolds, TreeOK, NoCycleIn
  <2>3. External'[n] > 0 => Finds(tree', q, y, n)
    BY <1>4, <1>7, <1>8, <1>10, <1>e, <2>1
  <2>4. \A c \in Node \ {n} : External'[c] > 0 => tree'.parent[c] = tree.parent[c]
    BY <1>4, <1>8, <1>9, <1>10, <2>1, Places
  <2>5. ASSUME NEW a \in Dir, NEW z, NEW c \in Node \ {n},
               Finds(tree, a, z, c), External'[c] > 0, a # q \/ z # y
        PROVE  Finds(tree', a, z, c)
    <3>1. c \in Dir /\ External[c] > 0 /\ c \notin gone
      BY <1>8, <2>1, <2>5, Places
    <3>2. Finds(t2, a, z, c)
      BY <1>4, <2>5, <3>1
    <3> QED
      BY <1>7, <1>10, <3>1, <3>2
  <2>6. tree.parent[n] = q =>
           \A a \in Dir : \A b : Clear(tree, a, b) /\ External'[a] > 0 => Clear(tree', a, b)
    BY <1>4, <1>7, <1>8, <1>10, <2>1
  <2> QED
    BY <2>2, <2>3, <2>4, <2>5, <2>6
<1> QED
  BY <1>5, <1>10, <1>11 DEF TreeOK

LEMMA RenameMoveStep ==
    ASSUME Inv, NEW h \in Handlers, RenameMove(h)
    PROVE  Inv'
<1> DEFINE r == req[h]
<1>i. TypeOK /\ Positions /\ Pins /\ Locks /\ Agreement /\ Renames /\ TreeOK(tree, External, {})
  BY DEF Inv, TreeHolds
<1>1. /\ r.pc = "move" /\ GoTo(h, "done")
      /\ tree' = Release(Moved(tree, r.node, r.q, r.y), r.node, 1)
      /\ dentry' = dentry /\ nlookup' = nlookup /\ forgets' = forgets /\ lost' = lost
  BY DEF RenameMove, At, kernelVars
<1>2. r.op = "rename" /\ r.node = r.n
  BY <1>1, <1>i DEF Positions, Position
<1>3. PICK p \in Dir, x \in Names, n \in Node, q \in Dir, y \in Names, m \in Node \cup {NULL} :
         p = r.p /\ x = r.x /\ n = r.n /\ q = r.q /\ y = r.y /\ m = r.m
  BY <1>2, <1>i, NamesOf, Fields
<1>4. /\ Finds(tree, p, x, n) /\ (m # NULL => Finds(tree, q, y, m))
      /\ Known(p) /\ Known(q) /\ Known(n) /\ n # m
      /\ p \in LockedBy(r) /\ q \in LockedBy(r)
  <2>1. Finds(tree, p, x, n) /\ (m # NULL => Finds(tree, q, y, m))
    BY <1>1, <1>2, <1>3, Unmoved
  <2>2. Known(p) /\ Known(q) /\ Known(n)
    BY <1>3, <1>i DEF Pins
  <2>3. n # m /\ p \in LockedBy(r) /\ q \in LockedBy(r)
    BY <1>2, <1>3, <1>i DEF Locks, Undisturbed, LockedBy
  <2> QED
    BY <2>1, <2>2, <2>3
<1>5. tree.parent[n] = p /\ tree.name[n] = x
  BY <1>4, <1>i, FoundFacts
<1>6. /\ req' \in [Handlers -> Requests] /\ req'[h].pc = "done" /\ req'[h].node = r.node
      /\ SameAsk(r, req'[h]) /\ Continues(h)
  BY <1>1, <1>i, GoToFacts
<1>h. \A a \in Node : ~Holds(req'[h], a) /\ (Holds(req[h], a) <=> a = n)
  BY <1>1, <1>2, <1>3, <1>6 DEF Holds
<1>7. 1 <= External[n]
  <2>1. External[n] > 0 /\ External[n] \in Nat
    BY <1>4, <1>i, ExternalFacts, Places
  <2> QED
    BY <2>1
<1>8. tree.parent[n] = q \/ Clear(tree, q, n)
  <2>1. p # q => Clear(tree, q, n)
    BY <1>1, <1>2, <1>3, <1>i DEF Renames, Apart, Across
  <2> QED
    BY <1>5, <2>1
<1>9. tree' = Release(Moved(tree, n, q, y), n, 1)
  BY <1>1, <1>2, <1>3
<1>10. /\ tree' \in Trees
       /\ External' = Less(External, n, 1) =>
             /\ TreeHolds'
             /\ External'[n] > 0 => Finds(tree', q, y, n)
             /\ \A c \in Node \ {n} : External'[c] > 0 => tree'.parent[c] = tree.parent[c]
             /\ \A a \in Dir : \A z : \A c \in Node \ {n} :
                   Finds(tree, a, z, c) /\ External'[c] > 0 /\ (a # q \/ z # y) => Finds(tree', a, z, c)
             /\ tree.parent[n] = q =>
                   \A a \in Dir : \A b : Clear(tree, a, b) /\ External'[a] > 0 => Clear(tree', a, b)
  BY <1>4, <1>7, <1>8, <1>9, MoveKeeps
<1>11. TypeOK'
  BY <1>1, <1>6, <1>10, <1>i, Types, TypesNext
<1>12. External' = Less(External, n, 1)
  BY <1>1, <1>6, <1>11, <1>h, <1>i, Given DEF Continues
<1>13. /\ TreeHolds'
       /\ External'[n] > 0 => Finds(tree', q, y, n)
       /\ \A c \in Node \ {n} : External'[c] > 0 => tree'.parent[c] = tree.parent[c]
       /\ \A a \in Dir : \A z : \A c \in Node \ {n} :
             Finds(tree, a, z, c) /\ External'[c] > 0 /\ (a # q \/ z # y) => Finds(tree', a, z, c)
       /\ tree.parent[n] = q =>
             \A a \in Dir : \A b : Clear(tree, a, b) /\ External'[a] > 0 => Clear(tree', a, b)
  BY <1>10, <1>12
<1>14. Pins' /\ Locks' /\ Alone' /\ Positions'
  <2>1. Drops({})
    BY <1>1, DropsNothing
  <2>2. Continuing
    BY <1>6, ContinuesAll
  <2>3. Pins' /\ Locks' /\ Alone'
    BY <1>11, <1>i, <2>1, <2>2, PinsKept, LocksKept DEF Renames
  <2>4. Position(req'[h])
    BY <1>1, <1>2, <1>6, <1>i DEF Positions, Position, SameAsk, EntryOps
  <2>5. \A g \in Handlers : Position(req'[g])
    BY <1>6, <1>i, <2>4 DEF Positions, Continues
  <2>6. Positions'
    BY <2>5 DEF Positions, Position, NoRequest, EntryOps
  <2> QED
    BY <2>3, <2>6
<1>15. \A a \in Dir : Known(a) => External'[a] > 0
  <2>1. \A a : Known(a)' <=> Known(a)
    BY <1>1 DEF Known
  <2> QED
    BY <1>11, <2>1, ExternalNext
<1>16. Agreement'
  <2>1. ASSUME NEW a \in Dir, NEW z \in Names, dentry'[a][z] # NULL, ~Moving(a, z)'
        PROVE  Finds(tree', a, z, dentry'[a][z])
    <3>1. ~Moving(a, z)
      BY <1>1, <1>6, <2>1 DEF Moving, Continues
    <3>2. ~(a = p /\ z = x) /\ ~(a = q /\ z = y)
      <4>1. /\ req'[h].op = "rename" /\ req'[h].p = p /\ req'[h].x = x
            /\ req'[h].q = q /\ req'[h].y = y /\ req'[h].pc = "done"
        BY <1>2, <1>3, <1>6 DEF SameAsk
      <4> QED
        BY <2>1, <4>1 DEF Moving
    <3>3. PICK c \in Node : c = dentry[a][z] /\ Known(c)
      BY <1>1, <1>i, <2>1, Types DEF Pins
    <3>4. Finds(tree, a, z, c)
      BY <1>1, <1>i, <2>1, <3>1, <3>3 DEF Agreement
    <3>5. c # n
      BY <1>5, <1>i, <3>2, <3>4, FoundFacts
    <3>6. External'[c] > 0
      BY <1>15, <3>3, Places
    <3> QED
      BY <1>1, <1>13, <3>2, <3>3, <3>4, <3>5, <3>6
  <2>2. ASSUME NEW g \in Handlers, g # h PROVE Answered(tree', req'[g])
    <3> DEFINE s == req[g]
    <3>0. req'[g] = s /\ Answered(tree, s)
      BY <1>6, <1>i, <2>2 DEF Continues, Agreement
    <3>1. ASSUME NEW a \in Dir, a \in LockedBy(s) PROVE a # p /\ a # q
      BY <1>4, <2>2, <3>1, LockAlone
    <3>2. ASSUME s.pc = "reply", s.op \in {"lookup", "create"} PROVE Finds(tree', s.p, s.x, s.node)
      <4>1. PICK a \in Dir, c \in Node : a = s.p /\ c = s.node
        BY <1>i, <3>2, NamesOf DEF EntryOps, Positions, Position
      <4>2. Finds(tree, a, s.x, c) /\ a \in LockedBy(s)
        BY <3>0, <3>2, <4>1 DEF Answered, LockedBy
      <4>3. a # p /\ a # q
        BY <3>1, <4>2
      <4>4. c # n
        BY <1>5, <1>i, <4>2, <4>3, FoundFacts
      <4>5. External'[c] > 0
        BY <1>11, <3>0, <3>2, <4>1, ExternalNext DEF Holds
      <4>6. Finds(tree', a, s.x, c)
        BY <1>13, <4>2, <4>3, <4>4, <4>5
      <4> QED
        BY <4>1, <4>6
    <3>3. ASSUME s.pc = "done", s.op = "rename"
          PROVE  Finds(tree', s.q, s.y, s.n) /\ (s.m # NULL => tree'.parent[s.m] = s.q)
      <4>1. PICK a \in Dir, c \in Node, d \in Node \cup {NULL} : a = s.q /\ c = s.n /\ d = s.m
        BY <1>i, <3>3, NamesOf, Fields
      <4>2. /\ Finds(tree, a, s.y, c) /\ a \in LockedBy(s) /\ (d # NULL => tree.parent[d] = a)
            /\ Known(c) /\ Known(d)
        BY <1>i, <3>0, <3>3, <4>1 DEF Answered, LockedBy, Pins
      <4>3. a # p /\ a # q
        BY <3>1, <4>2
      <4>4. c # n
        BY <1>5, <1>i, <4>2, <4>3, FoundFacts
      <4>5. External'[c] > 0
        BY <1>15, <4>2, Places
      <4>6. Finds(tree', a, s.y, c)
        BY <1>13, <4>2, <4>3, <4>4, <4>5
      <4>7. ASSUME d # NULL PROVE tree'.parent[d] = a
        <5>1. d \in Node \ {n} /\ External'[d] > 0
          BY <1>5, <1>15, <4>2, <4>3, <4>7, Places
        <5> QED
          BY <1>13, <4>2, <4>7, <5>1
      <4> QED
        BY <4>1, <4>6, <4>7
    <3> QED
      BY <3>0, <3>2, <3>3 DEF Answered
  <2>3. Answered(tree', req'[h])
    <3>1. Finds(tree', q, y, n)
      BY <1>4, <1>13, <1>15, Places
    <3>2. ASSUME m # NULL PROVE tree'.parent[m] = q
      <4>1. Known(m)
        BY <1>3, <1>i DEF Pins
      <4>2. m \in Node \ {n} /\ External'[m] > 0
        BY <1>4, <1>15, <3>2, <4>1, Places
      <4>3. tree.parent[m] = q
        BY <1>4, <1>i, <3>2, FoundFacts
      <4> QED
        BY <1>13, <4>2, <4>3
    <3>3. req'[h].q = q /\ req'[h].y = y /\ req'[h].n = n /\ req'[h].m = m
      BY <1>3, <1>6 DEF SameAsk
    <3> QED
      BY <1>6, <3>1, <3>2, <3>3 DEF Answered
  <2>4. \A g \in Handlers : Answered(tree', req'[g])
    BY <2>2, <2>3
  <2>5. \A g \in Handlers : Answered(tree', req'[g]) => Answered(tree, req[g])'
    BY DEF Answered, Finds, WithName
  <2>6. \A a \in Dir, z \in Names : Finds(tree', a, z, dentry'[a][z]) => Finds(tree, a, z, dentry[a][z])'
    BY DEF Finds, WithName
  <2> QED
    BY <2>1, <2>4, <2>5, <2>6 DEF Agreement
<1>17. \A g \in Handlers : Apart(tree, req[g])'
  <2> SUFFICES ASSUME NEW g \in Handlers PROVE Apart(tree', req'[g])
    BY DEF Apart, Across, Clear
  <2>1. CASE g = h
    BY <1>6, <2>1 DEF Apart
  <2>2. CASE g # h
    <3> SUFFICES ASSUME Across(req[g]), req[g].pc # "done" PROVE Clear(tree', req[g].q, req[g].n)
      BY <1>6, <2>2 DEF Apart, Continues
    <3>1. ~Across(r)
      BY <1>i, <2>2 DEF Renames, Alone
    <3>2. tree.parent[n] = q
      BY <1>2, <1>3, <1>5, <3>1 DEF Across
    <3>3. Clear(tree, req[g].q, req[g].n)
      BY <1>i DEF Renames, Apart
    <3>4. PICK a \in Dir : a = req[g].q
      BY <1>i, NamesOf DEF Across
    <3>5. Known(a)
      BY <1>i, <3>4 DEF Pins
    <3> QED
      BY <1>13, <1>15, <3>2, <3>3, <3>4, <3>5
  <2> QED
    BY <2>1, <2>2
<1> QED
  BY <1>11, <1>13, <1>14, <1>16, <1>17 DEF Inv, Renames

\* The whole invariant, when a handler reads a request.
LEMMA AskKeeps ==
    ASSUME Inv, NEW h \in Handlers, req[h].op = "none", NEW r \in Requests, Sets(h, r),
           tree' = tree, dentry' = dentry, nlookup' = nlookup, forgets' = forgets, lost' = lost,
           r.pc = "new", Position(r), Undisturbed(r), Apart(tree, r),
           Known(r.p) /\ Known(r.q) /\ Known(r.n) /\ Known(r.m),
           \A g \in Handlers : LockedBy(req[g]) \cap LockedBy(r) \subseteq {NULL},
           Across(r) => \A g \in Handlers : ~Across(req[g])
    PROVE  Inv'
<1>i. TypeOK /\ Positions /\ Pins /\ Locks /\ Renames
  BY DEF Inv
<1>0. req[h] = NoRequest
  BY <1>i DEF Positions, Position
<1>1. req' \in [Handlers -> Requests] /\ req'[h] = r /\ \A g \in Handlers \ {h} : req'[g] = req[g]
  BY <1>i, Types DEF Sets
<1>2. TypeOK'
  BY <1>1, <1>i, Types, TypesNext
<1>3. External' = External
  <2>1. \A a \in Node : ~Holds(req[h], a) /\ ~Holds(req'[h], a)
    BY <1>0, <1>1, NoRequestFacts DEF Holds
  <2> QED
    BY <1>1, <1>2, <1>i, <2>1, StillHeld
<1>4. TreeHolds' /\ Stays
  BY <1>3, TreeSame
<1>5. Positions'
  <2>1. \A g \in Handlers : Position(req'[g])
    BY <1>1, <1>i DEF Positions
  <2> QED
    BY <2>1 DEF Positions, Position, NoRequest, EntryOps
<1>6. Pins'
  <2>1. \A a : Known(a)' <=> Known(a)
    BY DEF Known
  <2>2. \A a : (HasDentries(a)' <=> HasDentries(a)) /\ (InDcache(a)' <=> InDcache(a))
    BY DEF HasDentries, InDcache
  <2>3. \A p \in Dir, x \in Names : Known(dentry[p][x])'
    BY <1>i DEF Pins, Known
  <2>4. ASSUME NEW g \in Handlers
        PROVE  Known(req[g].p)' /\ Known(req[g].q)' /\ Known(req[g].n)' /\ Known(req[g].m)'
    <3>1. Known(req'[g].p) /\ Known(req'[g].q) /\ Known(req'[g].n) /\ Known(req'[g].m)
      BY <1>1, <1>i DEF Pins
    <3> QED
      BY <3>1 DEF Known
  <2>5. \A p \in Dir : HasDentries(p)' => InDcache(p)'
    BY <1>i, <2>2 DEF Pins
  <2> QED
    BY <2>3, <2>4, <2>5 DEF Pins
<1>7. Locks'
  <2>1. \A g \in Handlers : LockedBy(req[g])' = LockedBy(req'[g])
    BY DEF LockedBy
  <2>2. \A g, k \in Handlers : g # k => LockedBy(req'[g]) \cap LockedBy(req'[k]) \subseteq {NULL}
    BY <1>1, <1>i DEF Locks, Serialized
  <2>3. \A g \in Handlers : Undisturbed(req'[g])
    BY <1>1, <1>i DEF Locks
  <2>4. \A g \in Handlers : Undisturbed(req[g])'
    BY <2>3 DEF Undisturbed, InDcache, HasDentries
  <2> QED
    BY <2>1, <2>2, <2>4 DEF Locks, Serialized
<1>8. Alone'
  <2>1. \A g \in Handlers : Across(req[g])' = Across(req'[g])
    BY DEF Across
  <2>2. \A g, k \in Handlers : Across(req'[g]) /\ Across(req'[k]) => g = k
    BY <1>1, <1>i DEF Renames, Alone
  <2> QED
    BY <2>1, <2>2 DEF Alone
<1>9. Agreement'
  <2>1. \A p \in Dir, x \in Names : Moving(p, x) => Moving(p, x)'
    BY <1>1 DEF Moving
  <2>2. Answered(tree', r)
    BY DEF Answered
  <2>3. \A g \in Handlers : req'[g] = req[g] \/ Answered(tree', req'[g])
    BY <1>1, <2>2
  <2> QED
    BY <1>2, <1>4, <1>6, <2>1, <2>3, AgreementKept
<1>10. \A g \in Handlers : Apart(tree, req[g])'
  <2>1. \A g \in Handlers : Apart(tree', req'[g])
    BY <1>1, <1>i DEF Renames
  <2> QED
    BY <1>2, <1>4, <1>6, <2>1, ApartKept
<1> QED
  BY <1>2, <1>4, <1>5, <1>6, <1>7, <1>8, <1>9, <1>10 DEF Inv, Renames

LEMMA RequestFacts ==
    ASSUME NEW op \in EntryOps \cup {"remove", "rename", "node"}, NEW r, r = Request(op)
    PROVE  /\ r \in Requests /\ r.pc = "new" /\ r.node = NULL /\ r.op = op
           /\ r.p = NULL /\ r.x = NULL /\ r.q = NULL /\ r.y = NULL /\ r.n = NULL /\ r.m = NULL
  BY NoRequestFacts DEF Request, EntryOps, Requests, NoRequest

LEMMA AskLookupStep ==
    ASSUME Inv, NEW h \in Handlers, NEW p \in Dir, NEW x \in Names, AskLookup(h, p, x)
    PROVE  Inv'
<1>i. TypeOK /\ Pins
  BY DEF Inv
<1>1. PICK op \in {"lookup", "create"} :
         /\ InDcache(p) /\ ~Locked(p) /\ dentry[p][x] = NULL
         /\ Issue(h, [Request(op) EXCEPT !.p = p, !.x = x])
  BY DEF AskLookup
<1>2. PICK b : b = Request(op)
  OBVIOUS
<1>3. PICK r : r = [b EXCEPT !.p = p, !.x = x]
  OBVIOUS
<1>4. /\ req[h].op = "none" /\ Sets(h, r)
      /\ tree' = tree /\ dentry' = dentry /\ nlookup' = nlookup /\ forgets' = forgets /\ lost' = lost
  BY <1>1, <1>2, <1>3 DEF Issue, Sets, kernelVars
<1>5. /\ r \in Requests /\ r.pc = "new" /\ r.node = NULL /\ r.op = op
      /\ r.p = p /\ r.x = x /\ r.q = NULL /\ r.y = NULL /\ r.n = NULL /\ r.m = NULL
  <2>1. /\ b \in Requests /\ b.pc = "new" /\ b.node = NULL /\ b.op = op
        /\ b.p = NULL /\ b.x = NULL /\ b.q = NULL /\ b.y = NULL /\ b.n = NULL /\ b.m = NULL
    BY <1>2, RequestFacts DEF EntryOps
  <2> QED
    BY <1>3, <2>1 DEF Requests
<1>6. Position(r) /\ Undisturbed(r) /\ ~Across(r) /\ LockedBy(r) = {p}
  BY <1>1, <1>5, Places DEF Position, Undisturbed, Across, LockedBy, EntryOps
<1>7. Known(r.p) /\ Known(r.q) /\ Known(r.n) /\ Known(r.m)
  <2>1. Known(p)
    BY <1>1, <1>i DEF InDcache, Pins, Known
  <2> QED
    BY <1>5, <2>1 DEF Known
<1>8. \A g \in Handlers : LockedBy(req[g]) \cap LockedBy(r) \subseteq {NULL}
  BY <1>1, <1>6 DEF Locked
<1>9. Apart(tree, r)
  BY <1>6 DEF Apart
<1> QED
  BY <1>4, <1>5, <1>6, <1>7, <1>8, <1>9, AskKeeps

LEMMA AskRevalidateStep ==
    ASSUME Inv, NEW h \in Handlers, NEW p \in Dir, NEW x \in Names, AskRevalidate(h, p, x)
    PROVE  Inv'
<1>i. TypeOK /\ Pins
  BY DEF Inv
<1>1. PICK n \in Node : /\ dentry[p][x] = n
                        /\ Issue(h, [Request("revalidate") EXCEPT !.p = p, !.x = x, !.n = n])
  BY <1>i, Types DEF AskRevalidate
<1>2. PICK b : b = Request("revalidate")
  OBVIOUS
<1>3. PICK r : r = [b EXCEPT !.p = p, !.x = x, !.n = n]
  OBVIOUS
<1>4. /\ req[h].op = "none" /\ Sets(h, r)
      /\ tree' = tree /\ dentry' = dentry /\ nlookup' = nlookup /\ forgets' = forgets /\ lost' = lost
  BY <1>1, <1>2, <1>3 DEF Issue, Sets, kernelVars
<1>5. /\ r \in Requests /\ r.pc = "new" /\ r.node = NULL /\ r.op = "revalidate"
      /\ r.p = p /\ r.x = x /\ r.q = NULL /\ r.y = NULL /\ r.n = n /\ r.m = NULL
  <2>1. /\ b \in Requests /\ b.pc = "new" /\ b.node = NULL /\ b.op = "revalidate"
        /\ b.p = NULL /\ b.x = NULL /\ b.q = NULL /\ b.y = NULL /\ b.n = NULL /\ b.m = NULL
    BY <1>2, RequestFacts DEF EntryOps
  <2> QED
    BY <1>3, <2>1 DEF Requests
<1>6. Position(r) /\ Undisturbed(r) /\ ~Across(r) /\ LockedBy(r) = {}
  BY <1>1, <1>5, Places DEF Position, Undisturbed, Across, LockedBy, EntryOps
<1>7. Known(r.p) /\ Known(r.q) /\ Known(r.n) /\ Known(r.m)
  <2>1. HasDentries(p)
    BY <1>1, Places DEF HasDentries
  <2>2. Known(p) /\ Known(n)
    BY <1>1, <1>i, <2>1 DEF InDcache, Pins, Known
  <2> QED
    BY <1>5, <2>2 DEF Known
<1>8. \A g \in Handlers : LockedBy(req[g]) \cap LockedBy(r) \subseteq {NULL}
  BY <1>6
<1>9. Apart(tree, r)
  BY <1>6 DEF Apart
<1> QED
  BY <1>4, <1>5, <1>6, <1>7, <1>8, <1>9, AskKeeps

LEMMA AskRemoveStep ==
    ASSUME Inv, NEW h \in Handlers, NEW p \in Dir, NEW x \in Names, AskRemove(h, p, x)
    PROVE  Inv'
<1>i. TypeOK /\ Pins
  BY DEF Inv
<1>1. PICK n \in Node : /\ dentry[p][x] = n /\ ~HasDentries(n) /\ ~Locked(p) /\ ~Locked(n)
                        /\ Issue(h, [Request("remove") EXCEPT !.p = p, !.x = x, !.n = n])
  BY <1>i, Types DEF AskRemove
<1>2. PICK b : b = Request("remove")
  OBVIOUS
<1>3. PICK r : r = [b EXCEPT !.p = p, !.x = x, !.n = n]
  OBVIOUS
<1>4. /\ req[h].op = "none" /\ Sets(h, r)
      /\ tree' = tree /\ dentry' = dentry /\ nlookup' = nlookup /\ forgets' = forgets /\ lost' = lost
  BY <1>1, <1>2, <1>3 DEF Issue, Sets, kernelVars
<1>5. /\ r \in Requests /\ r.pc = "new" /\ r.node = NULL /\ r.op = "remove"
      /\ r.p = p /\ r.x = x /\ r.q = NULL /\ r.y = NULL /\ r.n = n /\ r.m = NULL
  <2>1. /\ b \in Requests /\ b.pc = "new" /\ b.node = NULL /\ b.op = "remove"
        /\ b.p = NULL /\ b.x = NULL /\ b.q = NULL /\ b.y = NULL /\ b.n = NULL /\ b.m = NULL
    BY <1>2, RequestFacts DEF EntryOps
  <2> QED
    BY <1>3, <2>1 DEF Requests
<1>6. Position(r) /\ Undisturbed(r) /\ ~Across(r) /\ LockedBy(r) = {p, n}
  BY <1>1, <1>5, Places DEF Position, Undisturbed, Across, LockedBy, EntryOps
<1>7. Known(r.p) /\ Known(r.q) /\ Known(r.n) /\ Known(r.m)
  <2>1. HasDentries(p)
    BY <1>1, Places DEF HasDentries
  <2>2. Known(p) /\ Known(n)
    BY <1>1, <1>i, <2>1 DEF InDcache, Pins, Known
  <2> QED
    BY <1>5, <2>2 DEF Known
<1>8. \A g \in Handlers : LockedBy(req[g]) \cap LockedBy(r) \subseteq {NULL}
  BY <1>1, <1>6 DEF Locked
<1>9. Apart(tree, r)
  BY <1>6 DEF Apart
<1> QED
  BY <1>4, <1>5, <1>6, <1>7, <1>8, <1>9, AskKeeps

LEMMA AskNodeStep ==
    ASSUME Inv, NEW h \in Handlers, NEW n \in Node, AskNode(h, n)
    PROVE  Inv'
<1>i. TypeOK /\ Pins
  BY DEF Inv
<1>1. nlookup[n] > 0 /\ Issue(h, [Request("node") EXCEPT !.n = n])
  BY DEF AskNode
<1>2. PICK b : b = Request("node")
  OBVIOUS
<1>3. PICK r : r = [b EXCEPT !.n = n]
  OBVIOUS
<1>4. /\ req[h].op = "none" /\ Sets(h, r)
      /\ tree' = tree /\ dentry' = dentry /\ nlookup' = nlookup /\ forgets' = forgets /\ lost' = lost
  BY <1>1, <1>2, <1>3 DEF Issue, Sets, kernelVars
<1>5. /\ r \in Requests /\ r.pc = "new" /\ r.node = NULL /\ r.op = "node"
      /\ r.p = NULL /\ r.x = NULL /\ r.q = NULL /\ r.y = NULL /\ r.n = n /\ r.m = NULL
  <2>1. /\ b \in Requests /\ b.pc = "new" /\ b.node = NULL /\ b.op = "node"
        /\ b.p = NULL /\ b.x = NULL /\ b.q = NULL /\ b.y = NULL /\ b.n = NULL /\ b.m = NULL
    BY <1>2, RequestFacts DEF EntryOps
  <2> QED
    BY <1>3, <2>1 DEF Requests
<1>6. Position(r) /\ Undisturbed(r) /\ ~Across(r) /\ LockedBy(r) = {}
  BY <1>1, <1>5, Places DEF Position, Undisturbed, Across, LockedBy, EntryOps
<1>7. Known(r.p) /\ Known(r.q) /\ Known(r.n) /\ Known(r.m)
  BY <1>1, <1>5 DEF Known
<1>8. \A g \in Handlers : LockedBy(req[g]) \cap LockedBy(r) \subseteq {NULL}
  BY <1>6
<1>9. Apart(tree, r)
  BY <1>6 DEF Apart
<1> QED
  BY <1>4, <1>5, <1>6, <1>7, <1>8, <1>9, AskKeeps

\* What the kernel checks along its dentries holds along the parents, as no
\* rename between directories is on its way.
LEMMA AboveIsClear ==
    ASSUME Inv, NEW q \in Dir, InDcache(q), NEW n \in Node, n \notin Above(q),
           \A g \in Handlers : req[g].op = "rename" => req[g].p = req[g].q
    PROVE  Clear(tree, q, n)
<1>i. TypeOK /\ Positions /\ Pins /\ Locks /\ Agreement /\ TreeOK(tree, External, {})
  BY DEF Inv, TreeHolds
<1>1. PICK X \in SUBSET Dir :
         /\ q \in X /\ n \notin X
         /\ \A p \in Dir : (\E x \in Names : dentry[p][x] \in X) => p \in X
  BY Places DEF Above
<1>2. PICK U \in SUBSET Dir : U = {u \in X : InDcache(u)}
  OBVIOUS
<1>3. ASSUME NEW u \in U \ {Root} PROVE tree.parent[u] \in U
  <2>1. PICK a \in Dir, b \in Names : dentry[a][b] = u
    BY <1>2, <1>3 DEF InDcache
  <2>2. u \in Node /\ u \in X
    BY <1>2, <1>3, Places
  <2>3. HasDentries(a)
    BY <2>1, <2>2, Places DEF HasDentries
  <2>4. a \in U
    BY <1>1, <1>2, <1>i, <2>1, <2>2, <2>3 DEF Pins
  <2>5. tree.parent[u] = a
    <3>1. CASE ~Moving(a, b)
      <4>1. Finds(tree, a, b, u)
        BY <1>i, <2>1, <2>2, <3>1, Places DEF Agreement
      <4> QED
        BY <1>i, <4>1, FoundFacts
    <3>2. CASE Moving(a, b)
      <4>1. PICK g \in Handlers : /\ req[g].op = "rename" /\ req[g].pc = "done"
                                  /\ <<a, b>> \in {<<req[g].p, req[g].x>>, <<req[g].q, req[g].y>>}
        BY <3>2 DEF Moving
      <4>2. /\ dentry[req[g].p][req[g].x] = req[g].n /\ dentry[req[g].q][req[g].y] = req[g].m
            /\ req[g].p = req[g].q
        BY <1>i, <4>1 DEF Locks, Undisturbed
      <4>3. /\ Finds(tree, req[g].q, req[g].y, req[g].n)
            /\ req[g].m # NULL => tree.parent[req[g].m] = req[g].q
        BY <1>i, <4>1 DEF Agreement, Answered
      <4>4. a = req[g].q /\ u \in {req[g].n, req[g].m}
        BY <2>1, <4>1, <4>2
      <4>5. tree.parent[req[g].n] = a
        BY <1>i, <4>3, <4>4, FoundFacts
      <4> QED
        BY <2>2, <4>3, <4>4, <4>5, Places
    <3> QED
      BY <3>1, <3>2
  <2> QED
    BY <2>4, <2>5
<1>4. q \in U /\ n \notin U
  BY <1>1, <1>2
<1> QED
  BY <1>3, <1>4 DEF Clear

LEMMA AskRenameStep ==
    ASSUME Inv, NEW h \in Handlers, NEW p \in Dir, NEW x \in Names, NEW q \in Dir, NEW y \in Names,
           AskRename(h, p, x, q, y)
    PROVE  Inv'
<1>i. TypeOK /\ Pins
  BY DEF Inv
<1>0. PICK n, m : n = dentry[p][x] /\ m = dentry[q][y]
  OBVIOUS
<1>1. /\ n # NULL /\ n # m /\ InDcache(q) /\ ~Locked(p) /\ ~Locked(q)
      /\ n \notin Above(q)
      /\ m # NULL => ~HasDentries(m) /\ ~Locked(m)
      /\ p = q \/ \A g \in Handlers : req[g].op = "rename" => req[g].p = req[g].q
      /\ Issue(h, [Request("rename") EXCEPT !.p = p, !.x = x, !.q = q, !.y = y, !.n = n, !.m = m])
  BY <1>0 DEF AskRename
<1>t. n \in Node /\ m \in Node \cup {NULL}
  BY <1>0, <1>1, <1>i, Types
<1>2. PICK b : b = Request("rename")
  OBVIOUS
<1>3. PICK r : r = [b EXCEPT !.p = p, !.x = x, !.q = q, !.y = y, !.n = n, !.m = m]
  OBVIOUS
<1>4. /\ req[h].op = "none" /\ Sets(h, r)
      /\ tree' = tree /\ dentry' = dentry /\ nlookup' = nlookup /\ forgets' = forgets /\ lost' = lost
  BY <1>1, <1>2, <1>3 DEF Issue, Sets, kernelVars
<1>5. /\ r \in Requests /\ r.pc = "new" /\ r.node = NULL /\ r.op = "rename"
      /\ r.p = p /\ r.x = x /\ r.q = q /\ r.y = y /\ r.n = n /\ r.m = m
  <2>1. /\ b \in Requests /\ b.pc = "new" /\ b.node = NULL /\ b.op = "rename"
        /\ b.p = NULL /\ b.x = NULL /\ b.q = NULL /\ b.y = NULL /\ b.n = NULL /\ b.m = NULL
    BY <1>2, RequestFacts DEF EntryOps
  <2> QED
    BY <1>3, <2>1, <1>t DEF Requests
<1>6. Position(r) /\ Undisturbed(r) /\ LockedBy(r) = {p, q, m}
  <2>2. Position(r)
    BY <1>1, <1>5, Places DEF Position, EntryOps
  <2>3. Undisturbed(r)
    BY <1>0, <1>1, <1>5 DEF Undisturbed
  <2> QED
    BY <1>5, <2>2, <2>3 DEF LockedBy
<1>7. Known(r.p) /\ Known(r.q) /\ Known(r.n) /\ Known(r.m)
  <2>1. HasDentries(p)
    BY <1>0, <1>1 DEF HasDentries
  <2>2. Known(p) /\ Known(q) /\ Known(n) /\ Known(m)
    BY <1>0, <1>1, <1>i, <2>1 DEF InDcache, Pins, Known
  <2> QED
    BY <1>5, <2>2
<1>8. \A g \in Handlers : LockedBy(req[g]) \cap LockedBy(r) \subseteq {NULL}
  BY <1>1, <1>6 DEF Locked
<1>9. Apart(tree, r)
  <2>1. p # q => Clear(tree, q, n)
    BY <1>1, <1>t, AboveIsClear
  <2> QED
    BY <1>5, <2>1 DEF Apart, Across
<1>10. Across(r) => \A g \in Handlers : ~Across(req[g])
  BY <1>1, <1>5 DEF Across
<1> QED
  BY <1>4, <1>5, <1>6, <1>7, <1>8, <1>9, <1>10, AskKeeps

-----------------------------------------------------------------------------
(* The invariant of the whole, and what it says                            *)

LEMMA InitKeeps == Init => Inv
<1> SUFFICES ASSUME Init PROVE Inv
  OBVIOUS
<1>1. /\ tree = [refcount |-> [n \in Dir |-> IF n = Root THEN 2 ELSE 0],
                 parent   |-> [n \in Dir |-> NULL],
                 name     |-> [n \in Node |-> NULL],
                 child    |-> [n \in Dir |-> <<>>]]
      /\ req = [h \in Handlers |-> NoRequest]
      /\ dentry = [p \in Dir |-> [x \in Names |-> NULL]]
      /\ nlookup = [n \in Node |-> 0] /\ forgets = [n \in Node |-> 0] /\ lost = [n \in Node |-> 0]
  BY DEF Init
<1>2. /\ tree.refcount = [n \in Dir |-> IF n = Root THEN 2 ELSE 0]
      /\ tree.parent = [n \in Dir |-> NULL] /\ tree.name = [n \in Node |-> NULL]
      /\ tree.child = [n \in Dir |-> <<>>]
  BY <1>1
<1>3. tree \in Trees
  <2>1. <<>> \in Seq(Node)
    OBVIOUS
  <2>2. /\ [n \in Dir |-> IF n = Root THEN 2 ELSE 0] \in [Dir -> Nat]
        /\ [n \in Dir |-> NULL] \in [Dir -> Dir \cup {NULL}]
        /\ [n \in Node |-> NULL] \in [Node -> Names \cup {NULL}]
        /\ [n \in Dir |-> <<>>] \in [Dir -> Seq(Node)]
    BY <2>1
  <2> QED
    BY <1>1, <2>2 DEF Trees
<1>4. TypeOK
  <2>1. req \in [Handlers -> Requests]
    BY <1>1, NoRequestFacts
  <2>2. /\ dentry \in [Dir -> [Names -> Node \cup {NULL}]]
        /\ nlookup \in [Node -> Nat] /\ forgets \in [Node -> Nat] /\ lost \in [Node -> Nat]
    BY <1>1
  <2> QED
    BY <1>3, <2>1, <2>2 DEF TypeOK, Trees, Requests
<1>5. \A h \in Handlers : req[h] = NoRequest
  BY <1>1
<1>6. \A p \in Dir, x \in Names : dentry[p][x] = NULL
  BY <1>1
<1>7. TreeHolds
  <2>1. ASSUME NEW a \in Node PROVE External[a] = 0
    <3>1. Holders(a) = {}
      BY <1>5, NoRequestFacts DEF Holders
    <3>2. Cardinality(Holders(a)) = 0
      BY <3>1, FS_EmptySet
    <3> QED
      BY <1>1, <1>4, <3>2, ExternalFacts
  <2>2. \A p \in Dir : /\ Distinct(tree.child[p])
                       /\ Elements(tree.child[p]) = {n \in Node : tree.parent[n] = p}
    <3> SUFFICES ASSUME NEW p \in Dir
                 PROVE  /\ Distinct(tree.child[p])
                        /\ Elements(tree.child[p]) = {n \in Node : tree.parent[n] = p}
      OBVIOUS
    <3>1. tree.child[p] = <<>> /\ \A n \in Node : tree.parent[n] # p
      BY <1>2, Places
    <3> QED
      BY <3>1 DEF Distinct, Elements
  <2>3. \A a \in Dir : tree.refcount[a] = External[a] + Len(tree.child[a])
    <3> SUFFICES ASSUME NEW a \in Dir PROVE tree.refcount[a] = External[a] + Len(tree.child[a])
      OBVIOUS
    <3>1. Len(tree.child[a]) = 0 /\ tree.refcount[a] = IF a = Root THEN 2 ELSE 0
      BY <1>2
    <3>2. External[a] = IF a = Root THEN 2 ELSE 0
      BY <1>4, <2>1, ExternalFacts, Places
    <3> QED
      BY <3>1, <3>2
  <2>4. \A n \in Node : tree.parent[n] = NULL /\ tree.refcount[n] = 0
    BY <1>2, Places
  <2>5. External \in [Dir -> Nat]
    BY <1>4, ExternalFacts
  <2>6. TreeOK(tree, External, {})
    BY <1>3, <2>2, <2>3, <2>4, <2>5 DEF TreeOK
  <2>7. tree.parent[Root] = NULL
    BY <1>2, Places
  <2>8. NoCycleIn(tree)
    BY <2>4 DEF NoCycleIn
  <2> QED
    BY <2>6, <2>7, <2>8 DEF TreeHolds
<1>8. Positions
  BY <1>5, NoRequestFacts DEF Positions
<1>9. Pins
  BY <1>5, <1>6, NoRequestFacts DEF Pins, Known, HasDentries
<1>10. Locks
  <2>1. \A h \in Handlers : Undisturbed(req[h])
    BY <1>5, NoRequestFacts DEF Undisturbed
  <2>2. Serialized
    BY <1>5, SameAskFacts DEF Serialized
  <2> QED
    BY <2>1, <2>2 DEF Locks
<1>11. Agreement
  BY <1>5, <1>6, NoRequestFacts DEF Agreement, Answered
<1>12. Renames
  BY <1>5, SameAskFacts DEF Renames, Alone, Apart
<1> QED
  BY <1>4, <1>7, <1>8, <1>9, <1>10, <1>11, <1>12 DEF Inv

LEMMA NextKeeps == Inv /\ [Next]_vars => Inv'
<1> SUFFICES ASSUME Inv, [Next]_vars PROVE Inv'
  OBVIOUS
<1>1. CASE UNCHANGED vars
  <2>1. UNCHANGED <<tree, req, dentry, nlookup, forgets, lost>>
    BY <1>1 DEF vars, kernelVars
  <2>2. TypeOK'
    BY <2>1 DEF Inv, TypeOK
  <2>3. External' = External
    <3>1. \A a : Holders(a)' = Holders(a)
      BY <2>1 DEF Holders
    <3> QED
      BY <2>1, <3>1 DEF External
  <2>4. Drops({})
    BY <2>1, DropsNothing
  <2> QED
    BY <2>1, <2>2, <2>3, <2>4, QuietKeeps
<1>2. ASSUME NEW h \in Handlers,
             \/ RenameLookup(h) \/ SystemCalls(h) \/ SystemCallsFail(h) \/ RenameSystemCalls(h)
             \/ ReadParent(h) \/ CheckNode(h) \/ ReplyEntry(h) \/ ReplyEntryFails(h)
             \/ RenameMove(h) \/ RenameFails(h) \/ FuseStatus(h) \/ FuseStatusFails(h)
             \/ FuseReply(h) \/ FuseReplyFails(h)
      PROVE  Inv'
  BY <1>2, RenameLookupStep, SystemCallsStep, SystemCallsFailStep, RenameSystemCallsStep,
     ReadParentStep, CheckNodeStep, ReplyEntryStep, ReplyEntryFailsStep, RenameMoveStep,
     RenameFailsStep, FuseStatusStep, FuseStatusFailsStep, FuseReplyStep, FuseReplyFailsStep
<1>3. ASSUME NEW h \in Handlers, NEW n \in Node, NEW k \in 1..MaxLookups, HandleForget(h, n, k) PROVE Inv'
  BY <1>3, HandleForgetStep
<1>4. ASSUME NEW h \in Handlers, NEW n \in Node, AskNode(h, n) PROVE Inv'
  BY <1>4, AskNodeStep
<1>5. ASSUME NEW h \in Handlers, NEW p \in Dir, NEW x \in Names,
             AskLookup(h, p, x) \/ AskRevalidate(h, p, x) \/ AskRemove(h, p, x)
      PROVE  Inv'
  BY <1>5, AskLookupStep, AskRevalidateStep, AskRemoveStep
<1>6. ASSUME NEW h \in Handlers, NEW p \in Dir, NEW x \in Names, NEW q \in Dir, NEW y \in Names,
             AskRename(h, p, x, q, y)
      PROVE  Inv'
  BY <1>6, AskRenameStep
<1>7. ASSUME NEW p \in Dir, NEW x \in Names, DropDentry(p, x) PROVE Inv'
  BY <1>7, DropDentryStep
<1>8. ASSUME NEW n \in Node, Evict(n) PROVE Inv'
  BY <1>8, EvictStep
<1> QED
  BY <1>1, <1>2, <1>3, <1>4, <1>5, <1>6, <1>7, <1>8 DEF Next

LEMMA Invariance == Spec => []Inv
  BY InitKeeps, NextKeeps, PTL DEF Spec

\* Whatever lookups, creations, removals, renames, revalidations, forgets and
\* refused replies interleave, the count of every node is what accounts for it
\* (acquire_node_locked and release_node_locked).
THEOREM CountsExact == Spec => []Accounted
<1>1. Inv => Accounted
  <2> SUFFICES ASSUME Inv PROVE Accounted
    OBVIOUS
  <2>i. TypeOK /\ TreeOK(tree, External, {})
    BY DEF Inv, TreeHolds
  <2>1. ASSUME NEW n \in Node
        PROVE  tree.refcount[n] = nlookup[n] + forgets[n] + Len(tree.child[n])
                                  + Cardinality(Holders(n)) + lost[n]
    <3>1. tree.refcount[n] = External[n] + Len(tree.child[n])
      BY <2>i, Places DEF TreeOK
    <3>2. External[n] = nlookup[n] + forgets[n] + Cardinality(Holders(n)) + lost[n]
      BY <2>i, ExternalFacts
    <3>3. /\ nlookup[n] \in Nat /\ forgets[n] \in Nat /\ lost[n] \in Nat
          /\ Cardinality(Holders(n)) \in Nat /\ Len(tree.child[n]) \in Nat
      BY <2>i, Types, HoldersFinite, TreeFacts, Places
    <3>4. \A i, j, k, l, m \in Nat : (i + j + k + l) + m = i + j + m + k + l
      OBVIOUS
    <3> QED
      BY <3>1, <3>2, <3>3, <3>4
  <2>2. tree.refcount[Root] = 2 + Len(tree.child[Root])
    BY <2>i, ExternalFacts, Places DEF TreeOK
  <2> QED
    BY <2>1, <2>2 DEF Accounted
<1> QED
  BY <1>1, Invariance, PTL

\* The nodes stay one tree of live nodes below the root, with the lists and
\* the parent pointers in agreement (add_node_to_parent_locked,
\* remove_node_from_parent_locked, release_node_locked).
THEOREM TreeStaysSound == Spec => []TreeInv
<1>1. Inv => TreeInv
  <2> SUFFICES ASSUME Inv PROVE TreeInv
    OBVIOUS
  <2>i. TypeOK /\ TreeOK(tree, External, {}) /\ NoCycleIn(tree)
    BY DEF Inv, TreeHolds
  <2>f. /\ tree.refcount \in [Dir -> Nat] /\ tree.parent \in [Dir -> Dir \cup {NULL}]
        /\ \A c \in Node, p \in Dir : tree.parent[c] = p => tree.refcount[p] > 0
        /\ \A n \in Node : tree.parent[n] = NULL <=> tree.refcount[n] = 0
        /\ \A p \in Dir : /\ Distinct(tree.child[p])
                          /\ Elements(tree.child[p]) = {n \in Node : tree.parent[n] = p}
    <3>1. /\ tree.refcount \in [Dir -> Nat] /\ tree.parent \in [Dir -> Dir \cup {NULL}]
          /\ \A c \in Node, p \in Dir : tree.parent[c] = p => tree.refcount[p] > 0
      BY <2>i, TreeFacts
    <3> QED
      BY <2>i, <3>1 DEF TreeOK
  <2>1. \A n \in Node : n \in Live <=> tree.parent[n] # NULL
    BY <2>f, Places DEF Live
  <2>2. NoCycle
    BY <2>i DEF NoCycle, NoCycleIn, Live
  <2>3. \A p \in Dir : Elements(tree.child[p]) = {n \in Live : tree.parent[n] = p}
    <3> SUFFICES ASSUME NEW p \in Dir
                 PROVE  {n \in Node : tree.parent[n] = p} = {n \in Live : tree.parent[n] = p}
      BY <2>f
    <3>1. p # NULL /\ Live \subseteq Node
      BY Places DEF Live
    <3> QED
      BY <2>1, <3>1
  <2>4. \A n \in Live : tree.parent[n] \in Live \cup {Root}
    BY <2>1, <2>f, Places DEF Live
  <2> QED
    BY <2>2, <2>3, <2>4, <2>f, <2>i DEF TreeInv, TreeSound, LinksAgree
<1> QED
  BY <1>1, Invariance, PTL

\* A pointer that a handler keeps over the sections without fuse->lock is that
\* of a live node, and so is an identifier in a message of the kernel
\* (handle_lookup, handle_mknod, handle_unlink, handle_rename, handle_forget).
THEOREM PointersLive == Spec => []NoFreedNode
<1>1. Inv => NoFreedNode
  <2> SUFFICES ASSUME Inv PROVE NoFreedNode
    OBVIOUS
  <2>i. TypeOK /\ TreeOK(tree, External, {}) /\ Positions /\ Pins
    BY DEF Inv, TreeHolds
  <2>1. ASSUME NEW n \in Node, External[n] > 0 PROVE n \in Live
    <3>1. /\ tree.refcount[n] = External[n] + Len(tree.child[n])
          /\ External[n] \in Nat /\ Len(tree.child[n]) \in Nat
      BY <2>i, TreeFacts, Places DEF TreeOK
    <3> QED
      BY <2>1, <3>1 DEF Live
  <2>2. ASSUME NEW a \in Dir \cup {NULL}, Known(a) PROVE a \in Live \cup {Root, NULL}
    BY <2>1, <2>2, <2>i, ExternalFacts, Places
  <2>3. ASSUME NEW h \in Handlers
        PROVE  {req[h].p, req[h].q, req[h].n} \cup (IF req[h].op = "node" THEN {} ELSE {req[h].node})
                  \subseteq Live \cup {Root, NULL}
    <3>1. {req[h].p, req[h].q, req[h].n} \subseteq Live \cup {Root, NULL}
      <4>1. PICK p, q, n : p = req[h].p /\ q = req[h].q /\ n = req[h].n
        OBVIOUS
      <4>2. p \in Dir \cup {NULL} /\ q \in Dir \cup {NULL} /\ n \in Dir \cup {NULL}
        BY <2>i, <4>1, Fields, Places
      <4>3. Known(p) /\ Known(q) /\ Known(n)
        BY <2>i, <4>1 DEF Pins
      <4>4. p \in Live \cup {Root, NULL} /\ q \in Live \cup {Root, NULL} /\ n \in Live \cup {Root, NULL}
        BY <2>2, <4>2, <4>3
      <4> QED
        BY <4>1, <4>4
    <3>2. ASSUME req[h].op # "node" PROVE req[h].node \in Live \cup {Root, NULL}
      <4>1. Position(req[h]) /\ req[h] \in Requests
        BY <2>i, Fields DEF Positions
      <4>2. CASE req[h].pc = "reply"
        <5>1. req[h].node \in Node /\ Holds(req[h], req[h].node)
          BY <4>1, <4>2 DEF Position, Holds
        <5> QED
          BY <2>1, <2>i, <5>1, ExternalFacts
      <4>3. CASE req[h].pc # "reply"
        <5>1. req[h].node \in {NULL, req[h].n}
          BY <3>2, <4>1, <4>3, NoRequestFacts DEF Position, Requests
        <5> QED
          BY <3>1, <5>1
      <4> QED
        BY <4>2, <4>3
    <3> QED
      BY <3>1, <3>2
  <2>4. \A n \in Node : nlookup[n] + forgets[n] > 0 => n \in Live
    BY <2>1, <2>i, ExternalFacts
  <2> QED
    BY <2>3, <2>4 DEF NoFreedNode
<1> QED
  BY <1>1, Invariance, PTL

\* What the kernel holds under a name is what lookup_child_by_name_locked
\* finds under it, also next to a replaced or removed file of that name.
THEOREM DentriesFound == Spec => []DcacheAgrees
<1>1. Inv => DcacheAgrees
  <2> SUFFICES ASSUME Inv, NEW p \in Dir, NEW x \in Names, dentry[p][x] # NULL, ~Moving(p, x)
               PROVE  HasChild(tree, p, x) /\ Child(tree, p, x) = dentry[p][x]
    BY DEF DcacheAgrees
  <2>1. TreeOK(tree, External, {}) /\ Finds(tree, p, x, dentry[p][x])
    BY DEF Inv, TreeHolds, Agreement
  <2> QED
    BY <2>1, ChildFacts
<1> QED
  BY <1>1, Invariance, PTL

=============================================================================
