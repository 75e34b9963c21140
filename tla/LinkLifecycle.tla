---------------------------- MODULE LinkLifecycle ----------------------------
(***************************************************************************)
(* What the tree engine promises its caller (spec sections 3 and 4.1),     *)
(* with hashes, heights and the backing store abstracted away: a forest   *)
(* of key/value nodes, the caller's trees, in which every parent-to-child *)
(* edge is a Link in one of three states:                                  *)
(*                                                                         *)
(*   hash_only --load--> clean      dirty --commit--> clean                *)
(*   clean --prune--> hash_only     attach creates dirty, detach removes   *)
(*                                                                         *)
(* Commit and load change only link states, never the logical contents   *)
(* of a tree; a hash_only child detaches as None and its subtree is gone.  *)
(***************************************************************************)
EXTENDS Naturals, FiniteSets

CONSTANTS Keys, Values, None, NoValue

VARIABLES
  val,   \* key -> value of every node of the caller's trees, else NoValue
  link,  \* key -> side -> None or [key, status]
  roots  \* the trees the caller holds by value

Sides == BOOLEAN

(* The nodes of the subtree at k (trees are acyclic; n bounds the walk).   *)
RECURSIVE SubtreeOf(_, _, _)
SubtreeOf(lk, k, n) ==
  IF n = 0 THEN {k}
  ELSE {k} \cup UNION {SubtreeOf(lk, lk[k][s].key, n - 1) : s \in {s \in Sides : lk[k][s] # None}}

Subtree(lk, k) == SubtreeOf(lk, k, Cardinality(Keys))

(* The nodes reachable from k through links of the given states.          *)
RECURSIVE ReachOf(_, _, _, _)
ReachOf(lk, k, states, n) ==
  IF n = 0 THEN {k}
  ELSE {k} \cup UNION {ReachOf(lk, lk[k][s].key, states, n - 1) :
                       s \in {s \in Sides : lk[k][s] # None /\ lk[k][s].status \in states}}

Reach(lk, k, states) == ReachOf(lk, k, states, Cardinality(Keys))

Logical(lk, rs) == UNION {Subtree(lk, r) : r \in rs}

(* The nodes in memory: reached from a root without crossing hash_only.    *)
InMemory(st) == UNION {Reach(st.link, r, {"clean", "dirty"}) : r \in st.roots}

(* Each operation is a relation between the state s before it and the      *)
(* state t after it, where a node no tree holds any more is forgotten.     *)
Forgotten(t, nval, nlink, nroots) ==
  LET keep == Logical(nlink, nroots) IN
  t = [val |-> [k \in Keys |-> IF k \in keep THEN nval[k] ELSE NoValue],
       link |-> [k \in Keys |-> IF k \in keep THEN nlink[k] ELSE [s \in Sides |-> None]],
       roots |-> nroots]

Init ==
  /\ val = [k \in Keys |-> NoValue]
  /\ link = [k \in Keys |-> [s \in Sides |-> None]]
  /\ roots = {}

New(s, t, k, v) ==
  /\ t.roots = s.roots \cup {k} /\ t.val[k] = v
  /\ k \notin Logical(s.link, s.roots)
  /\ Forgotten(t, [s.val EXCEPT ![k] = v], [s.link EXCEPT ![k] = [d \in Sides |-> None]],
               s.roots \cup {k})

WithValue(s, t, r, v) ==
  /\ r \in s.roots /\ t.val[r] = v
  /\ t = [s EXCEPT !.val[r] = v]

DirtyLink(c) == IF c = None THEN None ELSE [key |-> c, status |-> "dirty"]

Attach(s, t, p, d, c) ==
  /\ p \in s.roots /\ s.link[p][d] = None
  /\ c \in (s.roots \ {p}) \cup {None}
  /\ t.roots = s.roots \ {c} /\ t.link[p][d] = DirtyLink(c)
  /\ Forgotten(t, s.val, [s.link EXCEPT ![p][d] = DirtyLink(c)], s.roots \ {c})

(* The child a detach hands back: None for a hash_only link.               *)
Detached(l) == IF l = None \/ l.status = "hash_only" THEN None ELSE l.key

Detach(s, t, p, d) ==
  /\ p \in s.roots /\ t.link[p][d] = None
  /\ Forgotten(t, s.val, [s.link EXCEPT ![p][d] = None],
               s.roots \cup ({Detached(s.link[p][d])} \ {None}))

(* Detach, f, attach: f keeps the child, deletes it or gives it a value.   *)
Walk(s, t, p, d, f) ==
  /\ p \in s.roots
  /\ LET c == Detached(s.link[p][d])
         nc == IF f = "delete" THEN None ELSE c
         nval == IF f \in Values /\ c # None THEN [s.val EXCEPT ![c] = f] ELSE s.val
     IN /\ t.roots = s.roots /\ t.link[p][d] = DirtyLink(nc)
        /\ Forgotten(t, nval, [s.link EXCEPT ![p][d] = DirtyLink(nc)], s.roots)

IsDirty(l) == l # None /\ l.status = "dirty"

(* Commit of r, a root or any node in memory below one, writes the nodes *)
(* reached from r through dirty links, in                                  *)
(* post-order: a written node's dirty links become clean, and the sink    *)
(* may then prune any link of a written node, hiding the whole subtree    *)
(* below it.  On a failure only a set of written nodes closed under dirty *)
(* children is done.  The written set and the pruned links are read off   *)
(* the links after the commit, nl: a node is written iff none of its      *)
(* links is left dirty, a link is pruned iff it is now hash_only.         *)
CommitLinks(lk, r, nl) ==
  LET done == {n \in Reach(lk, r, {"dirty"}) : \A d \in Sides : ~IsDirty(nl[n][d])}
      cleaned == [k \in Keys |-> [d \in Sides |->
                    IF k \in done /\ lk[k][d] # None
                    THEN [lk[k][d] EXCEPT !.status = "clean"] ELSE lk[k][d]]]
      pruned == {ps \in done \X Sides : cleaned[ps[1]][ps[2]] # None /\ nl[ps[1]][ps[2]] # None
                                       /\ nl[ps[1]][ps[2]].status = "hash_only"}
      below == UNION {Subtree(cleaned, cleaned[ps[1]][ps[2]].key) : ps \in pruned}
  IN /\ \A n \in done, d \in Sides : IsDirty(lk[n][d]) => lk[n][d].key \in done
     /\ nl = [k \in Keys |-> [d \in Sides |->
                IF cleaned[k][d] # None /\ (<<k, d>> \in pruned \/ k \in below)
                THEN [cleaned[k][d] EXCEPT !.status = "hash_only"]
                ELSE cleaned[k][d]]]

Commit(s, t, r) ==
  /\ r \in InMemory(s)
  /\ t.roots = s.roots /\ t.val = s.val
  /\ CommitLinks(s.link, r, t.link)

Load(s, t, p, d) ==
  /\ s.link[p][d] # None /\ s.link[p][d].status = "hash_only"
  /\ t.link[p][d] # None /\ t.link[p][d].status = "clean"
  /\ p \in InMemory(s)
  /\ t = [s EXCEPT !.link[p][d].status = "clean"]

(* Whether a step at link p.d changed anything: the link itself or the   *)
(* value of the dirty child below it.  A step of Attach, Detach, Walk or   *)
(* Load that changes neither leaves the state as it was, a stutter.        *)
Touched(s, t, p, d) ==
  \/ s.link[p][d] # t.link[p][d]
  \/ IsDirty(s.link[p][d]) /\ s.val[s.link[p][d].key] # t.val[s.link[p][d].key]

Step(s, t) ==
  \/ \E k \in t.roots, v \in Values : New(s, t, k, v) \/ WithValue(s, t, k, v)
  \/ \E p \in Keys, d \in Sides : Touched(s, t, p, d) /\
       \/ \E c \in Keys \cup {None} : Attach(s, t, p, d, c)
       \/ Detach(s, t, p, d)
       \/ \E f \in {"keep", "delete"} \cup Values : Walk(s, t, p, d, f)
       \/ Load(s, t, p, d)
  \/ \E r \in InMemory(s) : Commit(s, t, r)

Next == \E s \in {[val |-> val, link |-> link, roots |-> roots]},
            t \in {[val |-> val', link |-> link', roots |-> roots']} : Step(s, t)

Spec == Init /\ [][Next]_<<val, link, roots>>

(* A dirty link is never below a clean or hash_only one: commit recurses  *)
(* only into dirty links, so a dirty node under a clean link would never   *)
(* be written.                                                             *)
DirtyOnlyUnderDirty ==
  \A k \in Keys, s \in Sides :
    (link[k][s] # None /\ link[k][s].status # "dirty") =>
      \A n \in Subtree(link, link[k][s].key), t \in Sides :
        link[n][t] # None => link[n][t].status # "dirty"

=============================================================================
