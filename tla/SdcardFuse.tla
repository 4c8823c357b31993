----------------------------- MODULE SdcardFuse -----------------------------
(***************************************************************************)
(* The node tree of the sdcard FUSE daemon (core/sdcard/sdcard.c): a node  *)
(* per file name the kernel was told of, counted by references, shared by  *)
(* several handler threads under fuse->lock.  A handler computes a path    *)
(* under the lock, leaves it for the system calls, and takes it again to   *)
(* change the tree, with bare pointers in between.                         *)
(*                                                                         *)
(* The kernel is external: it keeps dentries and a lookup count per node   *)
(* identifier, serialises the operations on a directory, keeps what a      *)
(* request names from being evicted, and revalidates a dentry without any  *)
(* directory lock.  System calls on the backing store succeed or fail; an  *)
(* identifier is the address of its node, and addresses are reused.        *)
(***************************************************************************)
EXTENDS Integers, Sequences, FiniteSets, Lists

CONSTANTS
    Node,      \* addresses that calloc returns
    Root,      \* fuse->root
    NULL,
    Names,
    Handlers,  \* handler threads
    MaxLookups,\* entries the kernel holds, gives back, asks for or refused at once
    MaxLost    \* replies the kernel refuses

ASSUME NodesAssumption == Root \notin Node /\ NULL \notin Node \cup {Root}
ASSUME FinitenessAssumption == IsFiniteSet(Node) /\ IsFiniteSet(Handlers)
ASSUME BoundsAssumption == MaxLookups \in Nat /\ MaxLost \in Nat

VARIABLES
    tree,      \* the nodes: refcount, parent, name, child (list, first to last)
    req,       \* handler -> the request it works on, and where it is
    dentry,    \* kernel: directory -> name -> node, or NULL
    nlookup,   \* kernel: node -> entries received and not forgotten
    forgets,   \* node -> lookups of FORGET messages not handled yet
    lost       \* node -> entry replies the kernel refused

kernelVars == <<dentry, nlookup, forgets, lost>>
vars == <<tree, req, kernelVars>>

Dir == Node \cup {Root}
Live == {n \in Node : tree.refcount[n] > 0}
NoRequest == [op |-> "none", pc |-> "idle", p |-> NULL, x |-> NULL, q |-> NULL, y |-> NULL,
              n |-> NULL, m |-> NULL, node |-> NULL]
Request(op) == [NoRequest EXCEPT !.op = op, !.pc = "new"]

Init ==
    /\ tree = [refcount |-> [n \in Dir |-> IF n = Root THEN 2 ELSE 0],
               parent   |-> [n \in Dir |-> NULL],
               name     |-> [n \in Node |-> NULL],
               child    |-> [n \in Dir |-> <<>>]]
    /\ req = [h \in Handlers |-> NoRequest]
    /\ dentry = [p \in Dir |-> [x \in Names |-> NULL]]
    /\ nlookup = [n \in Node |-> 0]
    /\ forgets = [n \in Node |-> 0]
    /\ lost = [n \in Node |-> 0]

-----------------------------------------------------------------------------
(* The tree operations, all under fuse->lock                               *)

Acquire(t, n) == [t EXCEPT !.refcount[n] = @ + 1]

\* A set of nodes to destroy has with a node its parent, if the parent has no
\* reference but that node's.
Upward(t, X) ==
    \A p \in Node : t.refcount[p] = 1 /\ (\E c \in X : t.parent[c] = p) => p \in X

\* What n losing k references destroys: n, and every ancestor whose only
\* reference was the child destroyed below it; the least set of that kind.
Destroyed(t, n, k) ==
    {a \in Node : \A X \in SUBSET Node :
        Upward(t, X) /\ (n \in Node /\ t.refcount[n] <= k => n \in X) => a \in X}

Release(t, n, k) ==
    LET gone == Destroyed(t, n, k)
        drop(a) == (IF a = n THEN k ELSE 0) + Cardinality({c \in gone : t.parent[c] = a})
    IN  [refcount |-> [a \in Dir |-> IF a \in gone THEN 0 ELSE t.refcount[a] - drop(a)],
         parent   |-> [a \in Dir |-> IF a \in gone THEN NULL ELSE t.parent[a]],
         name     |-> [a \in Node |-> IF a \in gone THEN NULL ELSE t.name[a]],
         child    |-> [a \in Dir |-> IF a \in gone THEN <<>>
                                     ELSE Kept(t.child[a], Node \ gone)]]

\* The mutant links the node without a reference to its parent.
AddToParent_NoRef(t, n, p) ==
    [t EXCEPT !.parent[n] = p, !.child[p] = <<n>> \o @]

\* The mutant puts it at the end of the list.
AddToParent_Last(t, n, p) ==
    [t EXCEPT !.parent[n] = p, !.child[p] = @ \o <<n>>, !.refcount[p] = @ + 1]

\* A node goes to the front of its parent's list, and holds its parent.
AddToParent(t, n, p) ==
    [t EXCEPT !.parent[n] = p, !.child[p] = <<n>> \o @, !.refcount[p] = @ + 1]

RemoveFromParent(t, n) ==
    LET p == t.parent[n]
        cut == [t EXCEPT !.child[p] = Kept(@, Node \ {n}), !.parent[n] = NULL]
    IN  Release(cut, p, 1)

\* lookup_child_by_name_locked: the first of the list with that name.
Named(t, p, x) == Kept(t.child[p], {c \in Node : t.name[c] = x})
HasChild(t, p, x) == Named(t, p, x) # <<>>
Child(t, p, x) == Head(Named(t, p, x))

\* create_node_locked, at a free address.
Create(t, n, p, x) == AddToParent(Acquire([t EXCEPT !.name[n] = x], n), n, p)

-----------------------------------------------------------------------------
(* The kernel                                                              *)

EntryOps == {"lookup", "revalidate", "create"}

InDcache(n) == n = Root \/ \E p \in Dir, x \in Names : dentry[p][x] = n
HasDentries(n) == \E x \in Names : dentry[n][x] # NULL

\* The directories locked for a request, and the inodes a request keeps.
LockedBy(r) == IF r.op \in {"lookup", "create"} THEN {r.p}
               ELSE IF r.op = "remove" THEN {r.p, r.n}
               ELSE IF r.op = "rename" THEN {r.p, r.q, r.m} ELSE {}
Locked(n) == \E h \in Handlers : n \in LockedBy(req[h])
Pinned(n) == \E h \in Handlers : n \in {req[h].p, req[h].q, req[h].n, req[h].m}

\* The directories above n, n included, along the kernel's dentries.
Above(n) ==
    {a \in Dir : \A X \in SUBSET Dir :
        n \in X /\ (\A p \in Dir : (\E x \in Names : dentry[p][x] \in X) => p \in X) => a \in X}

\* A handler thread reads a request from /dev/fuse.
Issue(h, r) ==
    /\ req[h].op = "none"
    /\ req' = [req EXCEPT ![h] = r]
    /\ UNCHANGED <<tree, kernelVars>>

Bounded ==
    Cardinality({e \in Node \X (1..MaxLookups) : e[2] <= nlookup[e[1]] + forgets[e[1]] + lost[e[1]]})
    + Cardinality({h \in Handlers : req[h].op \in EntryOps}) < MaxLookups

AskLookup(h, p, x) ==
    /\ Bounded /\ InDcache(p) /\ ~Locked(p) /\ dentry[p][x] = NULL
    /\ \E op \in {"lookup", "create"} : Issue(h, [Request(op) EXCEPT !.p = p, !.x = x])

AskRevalidate(h, p, x) ==
    /\ Bounded /\ dentry[p][x] # NULL
    /\ Issue(h, [Request("revalidate") EXCEPT !.p = p, !.x = x, !.n = dentry[p][x]])

AskRemove(h, p, x) ==
    /\ dentry[p][x] # NULL /\ ~HasDentries(dentry[p][x])
    /\ ~Locked(p) /\ ~Locked(dentry[p][x])
    /\ Issue(h, [Request("remove") EXCEPT !.p = p, !.x = x, !.n = dentry[p][x]])

\* Renames from one directory to another are made one at a time, never into
\* the subtree that moves, and only over an empty target.
AskRename(h, p, x, q, y) ==
    LET n == dentry[p][x]
        m == dentry[q][y]
    IN  /\ n # NULL /\ n # m /\ InDcache(q) /\ ~Locked(p) /\ ~Locked(q)
        /\ n \notin Above(q)
        /\ m # NULL => m \notin Above(p) /\ ~HasDentries(m) /\ ~Locked(m)
        /\ p = q \/ \A g \in Handlers : req[g].op = "rename" => req[g].p = req[g].q
        /\ Issue(h, [Request("rename") EXCEPT !.p = p, !.x = x, !.q = q, !.y = y, !.n = n, !.m = m])

\* GETATTR, SETATTR, OPEN and OPENDIR name a node the kernel knows.
AskNode(h, n) == nlookup[n] > 0 /\ Issue(h, [Request("node") EXCEPT !.n = n])

DropDentry(p, x) ==
    /\ dentry[p][x] # NULL /\ ~HasDentries(dentry[p][x]) /\ ~Pinned(dentry[p][x])
    /\ dentry' = [dentry EXCEPT ![p][x] = NULL]
    /\ UNCHANGED <<tree, req, nlookup, forgets, lost>>

Evict(n) ==
    /\ nlookup[n] > 0 /\ ~InDcache(n) /\ ~HasDentries(n) /\ ~Pinned(n)
    /\ forgets' = [forgets EXCEPT ![n] = @ + nlookup[n]]
    /\ nlookup' = [nlookup EXCEPT ![n] = 0]
    /\ UNCHANGED <<tree, req, dentry, lost>>

-----------------------------------------------------------------------------
(* The handlers                                                            *)

At(h, pc) == req[h].pc = pc
GoTo(h, pc) == req' = [req EXCEPT ![h].pc = pc]
Answer(h) == req' = [req EXCEPT ![h] = NoRequest]

\* A revalidation that does not confirm the dentry drops it, if nothing uses it.
Invalidated(h) ==
    [p \in Dir |-> [x \in Names |->
        IF /\ dentry[p][x] = req[h].n /\ ~HasDentries(req[h].n)
           /\ \A g \in Handlers \ {h} : req[h].n \notin {req[g].p, req[g].q, req[g].n, req[g].m}
        THEN NULL ELSE dentry[p][x]]]

\* The handler returns an error, which handle_fuse_requests sends.
Fails(h) ==
    /\ Answer(h)
    /\ dentry' = IF req[h].op = "revalidate" THEN Invalidated(h) ELSE dentry
    /\ UNCHANGED <<nlookup, forgets, lost>>

\* The mutant holds no reference to the child between the two sections.
RenameLookup_NoRef(h) ==
    /\ At(h, "new") /\ req[h].op = "rename" /\ HasChild(tree, req[h].p, req[h].x)
    /\ req' = [req EXCEPT ![h].pc = "unlocked", ![h].node = Child(tree, req[h].p, req[h].x)]
    /\ UNCHANGED <<tree, kernelVars>>

\* handle_rename finds both parents, checks access and holds the child.
RenameLookup(h) ==
    /\ At(h, "new") /\ req[h].op = "rename" /\ HasChild(tree, req[h].p, req[h].x)
    /\ req' = [req EXCEPT ![h].pc = "unlocked", ![h].node = Child(tree, req[h].p, req[h].x)]
    /\ tree' = Acquire(tree, Child(tree, req[h].p, req[h].x))
    /\ UNCHANGED kernelVars

\* The other handlers look their node and its path up under the lock, which
\* changes no node, check access, which reads the parent node, and make their
\* system calls with the lock free: find_file_within, mknod or mkdir, lstat;
\* unlink or rmdir.
SystemCalls(h) ==
    /\ At(h, "new")
    /\ \/ req[h].op \in EntryOps /\ GoTo(h, "entry")
       \/ req[h].op = "remove" /\ GoTo(h, "done")
    /\ UNCHANGED <<tree, kernelVars>>

\* A path too long, no such file, no access, or a system call that fails.
SystemCallsFail(h) == At(h, "new") /\ Fails(h) /\ UNCHANGED tree

\* find_file_within and rename in handle_rename.
RenameSystemCalls(h) ==
    /\ At(h, "unlocked")
    /\ GoTo(h, "move")
    /\ UNCHANGED <<tree, kernelVars>>

\* check_caller_access_to_node reads node->parent without the lock ...
ReadParent(h) ==
    /\ At(h, "new") /\ req[h].op = "node"
    /\ req' = [req EXCEPT ![h].pc = "check", ![h].node = tree.parent[req[h].n]]
    /\ UNCHANGED <<tree, kernelVars>>

\* ... and then what it points to; the rest changes no node.
CheckNode(h) ==
    /\ At(h, "check")
    /\ Answer(h)
    /\ UNCHANGED <<tree, kernelVars>>

\* The mutant takes a reference only for a node it makes.
ReplyEntry_NoRef(h) ==
    /\ At(h, "entry")
    /\ \/ /\ HasChild(tree, req[h].p, req[h].x)
          /\ req' = [req EXCEPT ![h].pc = "reply", ![h].node = Child(tree, req[h].p, req[h].x)]
          /\ UNCHANGED tree
       \/ /\ ~HasChild(tree, req[h].p, req[h].x)
          /\ \E n \in Node \ Live :
                /\ req' = [req EXCEPT ![h].pc = "reply", ![h].node = n]
                /\ tree' = Create(tree, n, req[h].p, req[h].x)
    /\ UNCHANGED kernelVars

\* fuse_reply_entry: acquire_or_create_child_locked.
ReplyEntry(h) ==
    /\ At(h, "entry")
    /\ \/ /\ HasChild(tree, req[h].p, req[h].x)
          /\ req' = [req EXCEPT ![h].pc = "reply", ![h].node = Child(tree, req[h].p, req[h].x)]
          /\ tree' = Acquire(tree, Child(tree, req[h].p, req[h].x))
       \/ /\ ~HasChild(tree, req[h].p, req[h].x)
          /\ \E n \in Node \ Live :
                /\ req' = [req EXCEPT ![h].pc = "reply", ![h].node = n]
                /\ tree' = Create(tree, n, req[h].p, req[h].x)
    /\ UNCHANGED kernelVars

\* ENOMEM when the node cannot be made.
ReplyEntryFails(h) ==
    /\ At(h, "entry") /\ ~HasChild(tree, req[h].p, req[h].x)
    /\ Fails(h)
    /\ UNCHANGED tree

\* rename_node_locked, remove_node_from_parent_locked, add_node_to_parent_locked.
Moved(t, n, q, y) == AddToParent(RemoveFromParent([t EXCEPT !.name[n] = y], n), n, q)

\* The second section of handle_rename: the node moves, and the reference
\* taken by the first is given back ...
RenameMove(h) ==
    /\ At(h, "move")
    /\ tree' = Release(Moved(tree, req[h].node, req[h].q, req[h].y), req[h].node, 1)
    /\ GoTo(h, "done")
    /\ UNCHANGED kernelVars

\* ... which is all when rename failed, or rename_node_locked had no memory.
RenameFails(h) ==
    /\ req[h].pc \in {"unlocked", "move"}
    /\ tree' = Release(tree, req[h].node, 1)
    /\ Fails(h)

\* handle_forget: a FORGET message of k lookups.
HandleForget(h, n, k) ==
    /\ req[h].op = "none" /\ k <= forgets[n]
    /\ tree' = Release(tree, n, k)
    /\ forgets' = [forgets EXCEPT ![n] = @ - k]
    /\ UNCHANGED <<req, dentry, nlookup, lost>>

-----------------------------------------------------------------------------
(* The answers, and what the kernel makes of them                          *)

\* UNLINK, RMDIR or RENAME succeeded.
FuseStatus(h) ==
    LET r == req[h]
    IN  /\ r.pc = "done"
        /\ Answer(h)
        /\ dentry' = IF r.op = "remove" THEN [dentry EXCEPT ![r.p][r.x] = NULL]
                     ELSE [dentry EXCEPT ![r.p][r.x] = NULL, ![r.q][r.y] = r.n]
        /\ UNCHANGED <<tree, nlookup, forgets, lost>>

\* fuse_status ignores the result of its write.  For UNLINK and RMDIR the
\* kernel then has an error, and the dentry of a file that is gone.  (A RENAME
\* whose status it refuses is not modelled.)
FuseStatusFails(h) ==
    /\ At(h, "done") /\ req[h].op = "remove"
    /\ Fails(h)
    /\ UNCHANGED tree

\* fuse_reply of an entry: the kernel has one more lookup of the node.  A
\* revalidation that names another node makes the kernel forget that one.
FuseReply(h) ==
    LET r == req[h]
        other == r.op = "revalidate" /\ r.node # r.n
    IN  /\ r.pc = "reply"
        /\ Answer(h)
        /\ nlookup' = IF other THEN nlookup ELSE [nlookup EXCEPT ![r.node] = @ + 1]
        /\ forgets' = IF other THEN [forgets EXCEPT ![r.node] = @ + 1] ELSE forgets
        /\ dentry' = IF other THEN Invalidated(h)
                     ELSE IF r.op = "revalidate" THEN dentry
                     ELSE [dentry EXCEPT ![r.p][r.x] = r.node]
        /\ UNCHANGED <<tree, lost>>

\* writev fails: the error is logged and the reference is kept.
FuseReplyFails(h) ==
    /\ At(h, "reply") /\ \A n \in Node : lost[n] < MaxLost
    /\ Answer(h)
    /\ lost' = [lost EXCEPT ![req[h].node] = @ + 1]
    /\ UNCHANGED <<tree, dentry, nlookup, forgets>>

-----------------------------------------------------------------------------
Next ==
    \/ \E h \in Handlers :
          \/ RenameLookup(h) \/ SystemCalls(h) \/ SystemCallsFail(h) \/ RenameSystemCalls(h)
          \/ ReadParent(h) \/ CheckNode(h) \/ ReplyEntry(h) \/ ReplyEntryFails(h)
          \/ RenameMove(h) \/ RenameFails(h) \/ FuseStatus(h) \/ FuseStatusFails(h)
          \/ FuseReply(h) \/ FuseReplyFails(h)
          \/ \E n \in Node, k \in 1..MaxLookups : HandleForget(h, n, k)
          \/ \E n \in Node : AskNode(h, n)
          \/ \E p \in Dir, x \in Names :
                \/ AskLookup(h, p, x) \/ AskRevalidate(h, p, x) \/ AskRemove(h, p, x)
                \/ \E q \in Dir, y \in Names : AskRename(h, p, x, q, y)
    \/ \E p \in Dir, x \in Names : DropDentry(p, x)
    \/ \E n \in Node : Evict(n)

Spec == Init /\ [][Next]_vars

-----------------------------------------------------------------------------
(* Properties                                                              *)

\* Every variable has its type: the tree, the requests and the kernel's view.
TypeOK ==
    /\ tree \in [refcount : [Dir -> Nat], parent : [Dir -> Dir \cup {NULL}],
                 name : [Node -> Names \cup {NULL}], child : [Dir -> Seq(Node)]]
    /\ req \in [Handlers ->
          [op : EntryOps \cup {"none", "remove", "rename", "node"},
           pc : {"idle", "new", "unlocked", "check", "entry", "move", "reply", "done"},
           p : Dir \cup {NULL}, x : Names \cup {NULL}, q : Dir \cup {NULL}, y : Names \cup {NULL},
           n : Node \cup {NULL}, m : Node \cup {NULL}, node : Dir \cup {NULL}]]
    /\ dentry \in [Dir -> [Names -> Node \cup {NULL}]]
    /\ nlookup \in [Node -> Nat] /\ forgets \in [Node -> Nat] /\ lost \in [Node -> Nat]

Holders(n) ==
    {h \in Handlers : req[h].node = n /\ req[h].pc \in {"unlocked", "move", "reply"}}

\* The count of a node is what accounts for it: lookups the kernel has, those
\* it is giving back, children, handlers that hold it, and the replies the
\* kernel refused, which nothing ever gives back.  So a node is destroyed
\* exactly when the last of them goes (acquire_node_locked and
\* release_node_locked against the kernel's nlookup).
Accounted ==
    /\ \A n \in Node :
          tree.refcount[n] = nlookup[n] + forgets[n] + Len(tree.child[n])
                             + Cardinality(Holders(n)) + lost[n]
    /\ tree.refcount[Root] = 2 + Len(tree.child[Root])

\* "if an op that returns a fuse_entry fails writing the reply to the kernel,
\* you must rollback the refcount to reflect the reference the kernel did not
\* actually acquire" (the head of sdcard.c): what is left of Accounted when no
\* refused reply may keep its reference.
RolledBack ==
    \A n \in Node :
        tree.refcount[n] = nlookup[n] + forgets[n] + Len(tree.child[n])
                           + Cardinality(Holders(n))

\* From every live node the parents lead to the root: no set of nodes has all
\* its parents inside, so there is no cycle and no detached part.
NoCycle == \A X \in SUBSET Live : X # {} => \E n \in X : tree.parent[n] \notin X

\* The lists and the parent pointers say the same: a live node is once in the
\* list of its parent, which is live, and nothing else is in a list.
LinksAgree ==
    /\ \A p \in Dir : /\ Distinct(tree.child[p])
                      /\ Elements(tree.child[p]) = {n \in Live : tree.parent[n] = p}
    /\ \A n \in Live : tree.parent[n] \in Live \cup {Root}

\* The nodes are one tree of live nodes below the root, whatever renames,
\* lookups and forgets interleave (add_node_to_parent_locked,
\* remove_node_from_parent_locked).
TreeSound == NoCycle /\ LinksAgree

\* The tree as a whole.
TreeInv == TypeOK /\ TreeSound

\* The pointers that handlers keep over the sections without the lock, and the
\* identifiers in the kernel's messages, are those of live nodes: parent_node
\* has no reference of the handler, the kernel's pin must protect it.  The
\* parent that check_caller_access_to_node reads is not among them: it can be
\* renamed away from and destroyed before it is read.
NoFreedNode ==
    /\ \A h \in Handlers :
          {req[h].p, req[h].q, req[h].n} \cup (IF req[h].op = "node" THEN {} ELSE {req[h].node})
              \subseteq Live \cup {Root, NULL}
    /\ \A n \in Node : nlookup[n] + forgets[n] > 0 => n \in Live

\* A rename whose tree change the kernel has not been told of.
Moving(p, x) ==
    \E h \in Handlers : /\ req[h].op = "rename" /\ req[h].pc = "done"
                        /\ <<p, x>> \in {<<req[h].p, req[h].x>>, <<req[h].q, req[h].y>>}

\* What the kernel holds under a name is what the daemon finds under that
\* name: RENAME names its child, and lookup_child_by_name_locked picks it, also
\* when a replaced or removed file of the same name is still in the list.
DcacheAgrees ==
    \A p \in Dir, x \in Names :
        dentry[p][x] # NULL /\ ~Moving(p, x) =>
            HasChild(tree, p, x) /\ Child(tree, p, x) = dentry[p][x]
=============================================================================
