------------------------------ MODULE MerkTree ------------------------------
(***************************************************************************)
(* The Merkle AVL node engine of src/tree/mod.rs: Tree nodes owning their  *)
(* children through three-state Links (Pruned, Stored, Modified), driven   *)
(* by a caller through the by-value API (new, with_value, attach, detach,  *)
(* walk, commit, load), persisting nodes through a Commit sink and         *)
(* fetching pruned children back through a Fetch source.                   *)
(*                                                                         *)
(* A node is identified by its key.  `roots` are the trees the caller      *)
(* holds by value; every other in-memory node is owned by exactly one      *)
(* Stored or Modified link.  `db` is the backing store written by the      *)
(* sink and read by the source.  Hashes are free terms: KVHash and         *)
(* NodeHash are injective, which is what the real hash is assumed to be.   *)
(***************************************************************************)
EXTENDS Integers, FiniteSets

CONSTANTS
  Keys,      \* node keys
  Values,    \* node values
  None,      \* Option::None for a link or a stored record (model value)
  NoValue,   \* the key of a node is not in memory (model value)
  MaxCommits,     \* bound on the number of commit calls
  SinkMayFail,    \* TRUE: sink.write may return Err at any node
  SourceHonest,   \* TRUE: source.fetch returns the node of the link's key
  DebugAssertions \* TRUE: a debug build, where debug_assert! is checked

ASSUME None \notin Keys /\ NoValue \notin Values /\ MaxCommits \in Nat
ASSUME {SinkMayFail, SourceHonest, DebugAssertions} \subseteq BOOLEAN

Sides == BOOLEAN       \* `left: bool`: TRUE is the left child

-----------------------------------------------------------------------------
(* hash.rs (not under src/): kv_hash, node_hash, NULL_HASH.  A Modified     *)
(* link has no valid hash (Link::hash panics on it): NoHash.               *)
KVHash(k, v) == <<"kv", k, v>>
NodeHash(kvh, lh, rh) == <<"node", kvh, lh, rh>>
NULL_HASH == <<"null">>
NoHash == <<"modified">>

(* link.rs (not under src/): the Link variants.                            *)
Link(state, k, h, ch, pw) ==
  [state |-> state, key |-> k, hash |-> h, child_heights |-> ch,
   pending_writes |-> pw]

MaxOf(a, b) == IF a >= b THEN a ELSE b

(* Link::height: the height of the linked child from its child heights.    *)
LinkHeight(l) == 1 + MaxOf(l.child_heights[1], l.child_heights[2])

(* Link::into_pruned: keep key, hash and heights, release the tree.        *)
IntoPruned(l) == [l EXCEPT !.state = "pruned", !.pending_writes = 0]

VARIABLES
  kv,     \* key -> value of every in-memory node, NoValue if not in memory
  slot,   \* key -> side -> Link or None: TreeInner.left / TreeInner.right
  roots,  \* keys of the trees the caller owns by value
  db,     \* key -> persisted record or None: the store behind Commit/Fetch
  commits \* number of commit calls so far, bounded by MaxCommits

vars == <<kv, slot, roots, db, commits>>

-----------------------------------------------------------------------------
(* Queries on a node (Tree::link, child_hash, hash, child_height, ...).    *)

(* Tree::child_hash                                                        *)
ChildHash(sl, k, left) ==
  LET l == sl[k][left] IN
  IF l = None THEN NULL_HASH ELSE IF l.state = "modified" THEN NoHash ELSE l.hash

(* Seeded fault: node_hash given the child hashes right before left.     *)
TreeHashSwapped(sl, k) ==
  NodeHash(KVHash(k, kv[k]), ChildHash(sl, k, FALSE), ChildHash(sl, k, TRUE))

(* Tree::hash                                                              *)
TreeHash(sl, k) ==
  NodeHash(KVHash(k, kv[k]), ChildHash(sl, k, TRUE), ChildHash(sl, k, FALSE))

(* Tree::child_height                                                      *)
ChildHeight(sl, k, left) == IF sl[k][left] = None THEN 0 ELSE LinkHeight(sl[k][left])

(* Seeded fault: child_heights returning (right, left).                    *)
ChildHeightsSwapped(sl, k) == <<ChildHeight(sl, k, FALSE), ChildHeight(sl, k, TRUE)>>

(* Tree::child_heights                                                     *)
ChildHeights(sl, k) == <<ChildHeight(sl, k, TRUE), ChildHeight(sl, k, FALSE)>>

(* Tree::height                                                            *)
Height(sl, k) == 1 + MaxOf(ChildHeight(sl, k, TRUE), ChildHeight(sl, k, FALSE))

(* `as i8` and i8 arithmetic: two's complement on 8 bits (release builds  *)
(* wrap; the heights of trees over Keys stay far below the wrap).          *)
I8(x) == ((x + 128) % 256) - 128

(* Tree::balance_factor: right height minus left height.                   *)
BalanceFactor(sl, k) == I8(I8(ChildHeight(sl, k, FALSE)) - I8(ChildHeight(sl, k, TRUE)))

(* Tree::child_pending_writes                                              *)
ChildPendingWrites(sl, k, left) ==
  LET l == sl[k][left] IN
  IF l # None /\ l.state = "modified" THEN l.pending_writes ELSE 0

(* Seeded fault: attach installing a Stored link with the child's hash.   *)
FromTreeAsStored(sl, c) ==
  IF c = None THEN None
  ELSE Link("stored", c, TreeHash(sl, c), ChildHeights(sl, c), 0)

(* Link::from_modified_tree / maybe_from_modified_tree                     *)
FromModifiedTree(sl, c) ==
  IF c = None THEN None
  ELSE Link("modified", c, NoHash, ChildHeights(sl, c),
            1 + ChildPendingWrites(sl, c, TRUE) + ChildPendingWrites(sl, c, FALSE))

(* A link whose tree is in memory (Stored or Modified).                    *)
Materialized(l) == l # None /\ l.state \in {"stored", "modified"}

(* The in-memory nodes of the tree rooted at k.                            *)
RECURSIVE InMemory(_, _)
InMemory(sl, k) ==
  {k} \cup UNION {InMemory(sl, sl[k][s].key) : s \in {s \in Sides : Materialized(sl[k][s])}}

Live(sl, rs) == UNION {InMemory(sl, r) : r \in rs}

EmptySlots == [s \in Sides |-> None]

(* Rust drops every node no root owns any more: the model forgets them.    *)
Settle(nkv, nsl, nroots) ==
  LET live == Live(nsl, nroots) IN
  /\ kv' = [k \in Keys |-> IF k \in live THEN nkv[k] ELSE NoValue]
  /\ slot' = [k \in Keys |-> IF k \in live THEN nsl[k] ELSE EmptySlots]
  /\ roots' = nroots

-----------------------------------------------------------------------------
(* encoding.rs (not under src/): what sink.write persists for a node and   *)
(* what source.fetch rebuilds from it: the key/value, its hash and, per    *)
(* side, the child's key, hash and heights.                                *)
Descriptor(l) ==
  IF l = None THEN None
  ELSE [key |-> l.key, hash |-> l.hash, child_heights |-> l.child_heights]

Encode(sl, k) ==
  [value |-> kv[k], kv_hash |-> KVHash(k, kv[k]),
   left |-> Descriptor(sl[k][TRUE]), right |-> Descriptor(sl[k][FALSE])]

DescriptorLink(d) == IF d = None THEN None
                     ELSE Link("pruned", d.key, d.hash, d.child_heights, 0)

(* Seeded fault: a fetched node rebuilt without its child links.         *)
DecodeNoChildren(rec) == EmptySlots

(* The links of a node fetched from the store are all Pruned.              *)
Decode(rec) == [s \in Sides |-> DescriptorLink(IF s THEN rec.left ELSE rec.right)]

-----------------------------------------------------------------------------
Init ==
  /\ kv = [k \in Keys |-> NoValue]
  /\ slot = [k \in Keys |-> EmptySlots]
  /\ roots = {}
  /\ db = [k \in Keys |-> None]
  /\ commits = 0


(* The keys of the persisted subtree at k, following at most n links.     *)
RECURSIVE StoredKeys(_, _, _)
StoredKeys(store, k, n) ==
  IF n = 0 \/ store[k] = None THEN {k}
  ELSE {k} \cup UNION {StoredKeys(store, d.key, n - 1) :
                       d \in {store[k].left, store[k].right} \ {None}}

(* Every key of the caller's trees, in memory or behind a Pruned link.    *)
LogicalKeys(store, sl, rs) ==
  LET live == Live(sl, rs) IN
  LET pruned == {sl[k][s] : k \in live, s \in Sides} \ {None}
  IN live \cup UNION {StoredKeys(store, l.key, Cardinality(Keys)) :
                      l \in {l \in pruned : l.state = "pruned"}}

(* Tree::new.  The caller keeps keys unique across its trees (the AVL      *)
(* layer above this API guarantees it).                                    *)
New(k, v) ==
  /\ k \notin LogicalKeys(db, slot, roots)
  /\ Settle([kv EXCEPT ![k] = v], [slot EXCEPT ![k] = EmptySlots], roots \cup {k})
  /\ UNCHANGED <<db, commits>>

(* Tree::with_value on a tree the caller owns.                             *)
WithValue(k, v) ==
  /\ k \in roots
  /\ kv' = [kv EXCEPT ![k] = v]
  /\ UNCHANGED <<slot, roots, db, commits>>

(* Tree::attach: the child becomes a Modified link; attaching to an        *)
(* occupied slot panics, so the caller never does it.                      *)
AttachTo(sl, p, left, c) == [sl EXCEPT ![p][left] = FromModifiedTree(sl, c)]

Attach(p, left, c) ==
  /\ p \in roots
  /\ c \in (roots \ {p}) \cup {None}
  /\ slot[p][left] = None
  /\ Settle(kv, AttachTo(slot, p, left, c), roots \ {c})
  /\ UNCHANGED <<db, commits>>

(* Tree::detach: a Pruned child detaches as None and is released.          *)
DetachedChild(l) == IF Materialized(l) THEN l.key ELSE None

Detach(p, left) ==
  /\ p \in roots
  /\ LET c == DetachedChild(slot[p][left]) IN
       Settle(kv, [slot EXCEPT ![p][left] = None], roots \cup ({c} \ {None}))
  /\ UNCHANGED <<db, commits>>

(* Tree::walk / walk_expect: detach, apply f to the child, attach what f   *)
(* returns.  f keeps the child, deletes it, or replaces its value.         *)
WalkFns == {"keep", "delete"} \cup Values

Walk(p, left, f) ==
  /\ p \in roots
  /\ LET c == DetachedChild(slot[p][left])
         detached == [slot EXCEPT ![p][left] = None]
         nc == IF f = "delete" THEN None ELSE c
         nkv == IF f \in Values /\ c # None THEN [kv EXCEPT ![c] = f] ELSE kv
     IN Settle(nkv, AttachTo(detached, p, left, nc), roots)
  /\ UNCHANGED <<db, commits>>

(* Tree::commit.  st = [slot, db, ok] is threaded through the post-order   *)
(* traversal; CommitNode(k, st) is the set of outcomes of committing the  *)
(* tree at k, over every answer of the sink: sink.write(k) may return Err, *)
(* and sink.prune(k) may flag any of k's non-empty sides.                  *)
(* Seeded fault: a dirty child marked Stored without committing it.      *)
CommitSideShallow(k, left, st) ==
  LET l == st.slot[k][left] IN
  IF l = None \/ l.state # "modified" THEN {st}
  ELSE {[st EXCEPT !.slot[k][left] =
           Link("stored", l.key, TreeHash(st.slot, l.key), l.child_heights, 0)]}

RECURSIVE CommitNode(_, _), CommitSide(_, _, _)

CommitSide(k, left, st) ==
  LET l == st.slot[k][left] IN
  IF l = None \/ l.state # "modified" THEN {st}
  ELSE LET taken == [st EXCEPT !.slot[k][left] = None]
       IN { IF ~sub.ok THEN sub
            ELSE [sub EXCEPT !.slot[k][left] =
                    Link("stored", l.key, TreeHash(sub.slot, l.key), l.child_heights, 0)] :
            sub \in CommitNode(l.key, taken) }

PruneSides(sl, k, sides) ==
  [sl EXCEPT ![k] = [s \in Sides |-> IF s \in sides THEN IntoPruned(sl[k][s])
                                                    ELSE sl[k][s]]]

CommitNode(k, st) ==
  LET afterLeft == CommitSide(k, TRUE, st)
      afterBoth == UNION {IF s1.ok THEN CommitSide(k, FALSE, s1) ELSE {s1} : s1 \in afterLeft}
      written(s2) == [s2 EXCEPT !.db[k] = Encode(s2.slot, k)]
      flaggable(s2) == {s \in Sides : s2.slot[k][s] # None}
  IN UNION {IF ~s2.ok THEN {s2}
            ELSE (IF SinkMayFail THEN {[s2 EXCEPT !.ok = FALSE]} ELSE {}) \cup
                 {[written(s2) EXCEPT !.slot = PruneSides(s2.slot, k, sides)] :
                    sides \in SUBSET flaggable(s2)} :
            s2 \in afterBoth}

(* tree.commit(sink) on a tree the caller holds, or on any node below it  *)
(* reached through child_mut, which follows Stored and Modified links and  *)
(* stops at a Pruned one: the node must be in memory.  Nothing above r is  *)
(* touched, not even the Modified link that leads to it.                   *)
Commit(r) ==
  /\ r \in Live(slot, roots)
  /\ commits < MaxCommits
  /\ commits' = commits + 1
  /\ \E st \in CommitNode(r, [slot |-> slot, db |-> db, ok |-> TRUE]) :
       /\ Settle(kv, st.slot, roots)
       /\ db' = st.db

(* Seeded fault: load fetching the node but leaving the link Pruned.     *)
LoadKeepPruned(k, left) ==
  /\ k \in Live(slot, roots)
  /\ slot[k][left] # None
  /\ slot[k][left].state = "pruned"
  /\ LET c == slot[k][left].key
     IN /\ db[c] # None
        /\ c \notin Live(slot, roots)
        /\ kv' = [kv EXCEPT ![c] = db[c].value]
        /\ slot' = [slot EXCEPT ![c] = Decode(db[c])]
  /\ UNCHANGED <<roots, db, commits>>

(* source.fetch(link): an honest source returns the stored node of the    *)
(* link's key, a misbehaving one any stored node; a missing one is Err.    *)
Fetched(c) == IF SourceHonest THEN {f \in {c} : db[f] # None}
              ELSE {f \in Keys : db[f] # None}

(* Tree::load: only on a Pruned link (otherwise it panics).  The fetched   *)
(* node's key is compared with the link's by debug_assert_eq! only (a      *)
(* mismatch aborts a debug build); the node is installed as Stored with    *)
(* the link's own hash and heights.  A failed fetch changes nothing.       *)
Load(k, left) ==
  /\ k \in Live(slot, roots)
  /\ slot[k][left] # None
  /\ slot[k][left].state = "pruned"
  /\ LET l == slot[k][left] IN
       \E f \in Fetched(l.key) :
          /\ DebugAssertions => f = l.key
          /\ f \notin Live(slot, roots)
          /\ kv' = [kv EXCEPT ![f] = db[f].value]
          /\ slot' = [slot EXCEPT ![f] = Decode(db[f]),
                                  ![k][left] = Link("stored", f, l.hash, l.child_heights, 0)]
  /\ UNCHANGED <<roots, db, commits>>

Next ==
  \/ \E k \in Keys, v \in Values : New(k, v) \/ WithValue(k, v)
  \/ \E p \in Keys, left \in Sides :
       \/ \E c \in Keys \cup {None} : Attach(p, left, c)
       \/ Detach(p, left)
       \/ \E f \in WalkFns : Walk(p, left, f)
       \/ Load(p, left)
  \/ \E r \in Keys : Commit(r)

Spec == Init /\ [][Next]_vars

-----------------------------------------------------------------------------
(* Reference definitions: the Merkle hash and the height of a subtree,     *)
(* recomputed from the contents below it (in memory, or in the store      *)
(* behind a Pruned link), never from a cached link.  n bounds the depth.  *)

Depth == Cardinality(Keys) + 1

RECURSIVE StoredHash(_, _), StoredHeight(_, _)
StoredHash(k, n) ==
  IF n = 0 \/ db[k] = None THEN <<"missing">>
  ELSE NodeHash(KVHash(k, db[k].value),
                IF db[k].left = None THEN NULL_HASH ELSE StoredHash(db[k].left.key, n - 1),
                IF db[k].right = None THEN NULL_HASH ELSE StoredHash(db[k].right.key, n - 1))
StoredHeight(k, n) ==
  IF n = 0 \/ db[k] = None THEN -1
  ELSE 1 + MaxOf(IF db[k].left = None THEN 0 ELSE StoredHeight(db[k].left.key, n - 1),
                 IF db[k].right = None THEN 0 ELSE StoredHeight(db[k].right.key, n - 1))

RECURSIVE ContentHash(_, _), ContentHeight(_, _)
LinkContentHash(l, n) ==
  IF l = None THEN NULL_HASH
  ELSE IF l.state = "pruned" THEN StoredHash(l.key, n) ELSE ContentHash(l.key, n)
ContentHash(k, n) ==
  IF n = 0 THEN <<"missing">>
  ELSE NodeHash(KVHash(k, kv[k]), LinkContentHash(slot[k][TRUE], n - 1),
                                  LinkContentHash(slot[k][FALSE], n - 1))
LinkContentHeight(l, n) ==
  IF l = None THEN 0
  ELSE IF l.state = "pruned" THEN StoredHeight(l.key, n) ELSE ContentHeight(l.key, n)
ContentHeight(k, n) ==
  IF n = 0 THEN -1
  ELSE 1 + MaxOf(LinkContentHeight(slot[k][TRUE], n - 1),
                 LinkContentHeight(slot[k][FALSE], n - 1))

(* The cached links of the caller's trees: the Links of in-memory nodes    *)
(* and the child descriptors of stored nodes behind Pruned links.          *)
CachedLinks ==
  LET live == Live(slot, roots)
      persisted == LogicalKeys(db, slot, roots) \ live
  IN ({slot[k][s] : k \in live, s \in Sides} \cup
      {DescriptorLink(IF s THEN db[k].left ELSE db[k].right) :
         k \in {k \in persisted : db[k] # None}, s \in Sides}) \ {None}

-----------------------------------------------------------------------------
(* Properties                                                              *)

TypeOK ==
  /\ kv \in [Keys -> Values \cup {NoValue}]
  /\ \A k \in Keys, s \in Sides :
       slot[k][s] = None \/
       /\ slot[k][s].state \in {"pruned", "stored", "modified"}
       /\ slot[k][s].key \in Keys
       /\ slot[k][s].child_heights \in Nat \X Nat
       /\ slot[k][s].pending_writes \in Nat
  /\ roots \subseteq Keys
  /\ \A k \in Keys : db[k] = None \/ db[k].value \in Values
  /\ Live(slot, roots) = {k \in Keys : kv[k] # NoValue}

(* Merkle consistency: every hash a Stored or Pruned link caches, in       *)
(* memory or in a stored node's child descriptor, equals the hash of the   *)
(* subtree below it recomputed from its contents.  This is what attach's   *)
(* Modified marking, commit's post-order rehashing, into_pruned and load's *)
(* trusted hash must together preserve across any sequence of calls.       *)
MerkleConsistent ==
  \A l \in CachedLinks :
    l.state # "modified" =>
      l.hash = IF l.state = "pruned" THEN StoredHash(l.key, Depth)
                                     ELSE ContentHash(l.key, Depth)

(* The heights of the left and right subtrees of the child a link points  *)
(* to, recomputed from the contents.                                       *)
SubtreeHeights(l) ==
  LET c == l.key
      stored(d) == IF d = None THEN 0 ELSE StoredHeight(d.key, Depth)
  IN IF l.state = "pruned"
     THEN IF db[c] = None THEN <<-1, -1>> ELSE <<stored(db[c].left), stored(db[c].right)>>
     ELSE <<LinkContentHeight(slot[c][TRUE], Depth), LinkContentHeight(slot[c][FALSE], Depth)>>

(* Height bookkeeping (spec section 8): every cached child_heights pair,   *)
(* in all three link states and in stored descriptors, is the pair of      *)
(* heights of the linked child's subtrees, after any sequence of attach,   *)
(* walk, commit, prune and load; so Tree::height of every tree the caller  *)
(* holds is its real height, and the balance factor of every node in      *)
(* memory, which the AVL layer rotates on, is its real right-left skew.    *)
HeightsConsistent ==
  /\ \A l \in CachedLinks : l.child_heights = SubtreeHeights(l)
  /\ \A r \in roots : Height(slot, r) = ContentHeight(r, Depth)
  /\ \A k \in Live(slot, roots) :
       BalanceFactor(slot, k) = LinkContentHeight(slot[k][FALSE], Depth)
                                - LinkContentHeight(slot[k][TRUE], Depth)

(* A Stored (clean) link's node is identical to what the store holds for   *)
(* it: commit wrote it, load read it, and nothing changed it since.        *)
CleanMatchesStore ==
  \A k \in Live(slot, roots), s \in Sides :
    (slot[k][s] # None /\ slot[k][s].state = "stored") =>
      db[slot[k][s].key] = Encode(slot, slot[k][s].key)

(* A commit, whether every sink.write succeeds or one fails, removes no    *)
(* node from the caller's trees: the keys they hold, in memory or through  *)
(* the store, are the same after the call (spec sections 5 and 7: a failed *)
(* branch stays in its pre-call state, still dirty).                       *)
CommitFailureKeepsNodes ==
  [][commits' = commits + 1 =>
       LogicalKeys(db', slot', roots') = LogicalKeys(db, slot, roots)]_vars

(* A commit through a sink whose writes all succeed leaves no Modified    *)
(* link anywhere in the committed tree's memory: Tree::commit takes each   *)
(* Modified child, commits it, and only then makes its link Stored, so the *)
(* post-order reaches every dirty node at every depth.  Every node outside *)
(* the committed subtree, its ancestors included, keeps its value and links. *)
CommitCleansTree ==
  [][commits' = commits + 1 =>
       \E r \in Live(slot, roots) :
         /\ \A k \in InMemory(slot', r), s \in Sides :
              slot'[k][s] = None \/ slot'[k][s].state # "modified"
         /\ \A k \in Live(slot, roots) \ InMemory(slot, r) :
              slot'[k] = slot[k] /\ kv'[k] = kv[k]]_vars

(* The nodes commit would write below a Modified link: its own and those  *)
(* reached from it through Modified links.                                 *)
RECURSIVE DirtyReach(_, _)
DirtyReach(k, n) ==
  IF n = 0 THEN {k}
  ELSE {k} \cup UNION {DirtyReach(slot[k][s].key, n - 1) :
                       s \in {s \in Sides : slot[k][s] # None /\ slot[k][s].state = "modified"}}

(* Tree::child_pending_writes is exact: the count a Modified link carries, *)
(* fixed when attach created it, equals the number of nodes below it still *)
(* waiting for sink.write (spec section 3: "a count of pending writes in   *)
(* its subtree"), whatever loads and commits through child_mut happened    *)
(* below it since.                                                          *)
PendingWritesExact ==
  \A k \in Live(slot, roots), s \in Sides :
    (slot[k][s] # None /\ slot[k][s].state = "modified") =>
      slot[k][s].pending_writes = Cardinality(DirtyReach(slot[k][s].key, Depth))

-----------------------------------------------------------------------------
(* Refinement: the caller's trees as LinkLifecycle sees them.  A node in   *)
(* memory contributes its kv and its Links; a node behind a Pruned link    *)
(* contributes its stored record, every link of which is hash_only.        *)
StatusOf == [pruned |-> "hash_only", stored |-> "clean", modified |-> "dirty"]

AbsLinkOf(l) == IF l = None THEN None ELSE [key |-> l.key, status |-> StatusOf[l.state]]

PersistedLink(d) == IF d = None THEN None ELSE [key |-> d.key, status |-> "hash_only"]

(* The key-to-links and key-to-value functions of the caller's trees.      *)
AbsState ==
  LET live == {k \in Keys : kv[k] # NoValue}     \* = Live(slot, roots), by TypeOK
      hidden == {l.key : l \in {l \in {slot[k][s] : k \in live, s \in Sides} :
                                 l # None /\ l.state = "pruned"}}
      persisted == {k \in UNION {StoredKeys(db, h, Cardinality(Keys)) : h \in hidden} : db[k] # None}
  IN [val |-> [k \in Keys |-> IF k \in live THEN kv[k]
                              ELSE IF k \in persisted THEN db[k].value ELSE NoValue],
      link |-> [k \in Keys |->
                  IF k \in live THEN [s \in Sides |-> AbsLinkOf(slot[k][s])]
                  ELSE IF k \in persisted
                  THEN [s \in Sides |-> PersistedLink(IF s THEN db[k].left ELSE db[k].right)]
                  ELSE [s \in Sides |-> None]]]

=============================================================================
