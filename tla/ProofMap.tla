------------------------------ MODULE ProofMap ------------------------------
(***************************************************************************)
(* The proof map of src/proofs/query/map_js.rs: JsMapBuilder ingests the   *)
(* nodes of a verified proof in key order and builds a JsMap; the JsMap     *)
(* answers get(key) and range(start, end), and must report "Proof is       *)
(* missing data for query" whenever the proof does not establish the       *)
(* answer.                                                                 *)
(*                                                                         *)
(* The tree the proof was taken from is the ghost variable `tree` (a       *)
(* function from the keys it holds to their values).  An honest proof of   *)
(* it lists every key of the tree in ascending order, each either revealed *)
(* as a KV node or hidden behind a KVHash or Hash node; with Honest =      *)
(* FALSE the builder is fed arbitrary node sequences instead, which is     *)
(* what its order check defends against.                                   *)
(***************************************************************************)
EXTENDS Integers, Sequences, SequencesExt, FiniteSets

CONSTANTS
  Keys,         \* byte-string keys, abstracted to integers in key order
  Values,       \* values, model values
  Honest,       \* TRUE: the proof is a proof of `tree`; FALSE: any nodes
  MaxProofLen,  \* bound on the length of a dishonest proof
  NoKey,        \* Option::None for a key (model value)
  NoValue       \* no value: hidden nodes and errors (model value)

ASSUME Keys \subseteq Int /\ Keys # {}
ASSUME Honest \in BOOLEAN /\ MaxProofLen \in Nat
ASSUME NoKey \notin Keys /\ NoValue \notin Values

(* Proof nodes: Node::KV(key, value), Node::KVHash(_), Node::Hash(_). The  *)
(* hashes are abstracted away: map_js.rs never looks at them.               *)
KVNode(k, v) == [kind |-> "KV", key |-> k, value |-> v]
HiddenNodes == {[kind |-> "KVHash", key |-> NoKey, value |-> NoValue],
                [kind |-> "Hash", key |-> NoKey, value |-> NoValue]}
ProofNodes == {KVNode(k, v) : k \in Keys, v \in Values} \cup HiddenNodes

Trees == UNION {[S -> Values] : S \in SUBSET Keys}

(* The honest proofs of a tree t: its keys in order, each revealed or     *)
(* hidden.                                                                 *)
HonestProofs(t) ==
  LET ks == SetToSortSeq(DOMAIN t, <)
  IN { [i \in 1..Len(ks) |-> IF c[i] = "KV" THEN KVNode(ks[i], t[ks[i]])
                               ELSE CHOOSE h \in HiddenNodes : h.kind = c[i]] :
       c \in [1..Len(ks) -> {"KV", "KVHash", "Hash"}] }

(* Results yielded by the range iterator.                                  *)
(* End stands for the None that ends the sequence.                        *)
Err == [kind |-> "err", key |-> NoKey, value |-> NoValue]
End == [kind |-> "end", key |-> NoKey, value |-> NoValue]
Ok(k, v) == [kind |-> "ok", key |-> k, value |-> v]

VARIABLES
  tree,        \* ghost: the tree the proof was taken from
  proof,       \* the proof node stream fed to the builder
  pos,         \* index of the next proof node to insert
  entries,     \* JsMap.entries: key -> [contiguous, value]
  right_edge,  \* JsMap.right_edge
  phase,       \* "build" | "failed" | "built" | "range" | "done" | "panicked"
  it,          \* JsFlatMap: [start, stop, rest, prev_key, start_key]
  okBeforeErr, \* ghost: key -> value of each Ok yielded before the first Err
  erred,       \* ghost: the iterator has yielded an Err
  afterErr,    \* ghost: the iterator yielded an Ok entry after its first Err
  got          \* ghost: the last get(key) call and its result

vars == <<tree, proof, pos, entries, right_edge, phase, it, okBeforeErr,
          erred, afterErr, got>>

-----------------------------------------------------------------------------
(* JsMapBuilder                                                            *)

(* JsMapBuilder::new                                                       *)
Init ==
  /\ tree \in IF Honest THEN Trees ELSE {<<>>}
  /\ proof \in IF Honest THEN HonestProofs(tree)
                         ELSE BoundedSeq(ProofNodes, MaxProofLen)
  /\ pos = 1
  /\ entries = <<>>
  /\ right_edge = TRUE
  /\ phase = "build"
  /\ it = [start |-> NoKey, stop |-> NoKey, rest |-> <<>>, prev_key |-> NoKey,
           start_key |-> NoKey]
  /\ okBeforeErr = <<>>
  /\ erred = FALSE
  /\ afterErr = FALSE
  /\ got = [key |-> NoKey, res |-> "none", value |-> NoValue]

MaxKey(S) == CHOOSE k \in S : \A j \in S : j <= k
MinKey(S) == CHOOSE k \in S : \A j \in S : k <= j

(* entries.insert(key, value) on the BTreeMap.                             *)
InsertEntry(m, k, e) == [j \in DOMAIN m \cup {k} |-> IF j = k THEN e ELSE m[j]]

(* Seeded fault: `key >= prev_key` in the ordering check.               *)
InOrderAllowEqual(m, k) == DOMAIN m # {} => k >= MaxKey(DOMAIN m)

(* The ordering check of JsMapBuilder::insert: the key must be above the  *)
(* last key of the map, if any.                                            *)
InOrder(m, k) == DOMAIN m # {} => k > MaxKey(DOMAIN m)

(* JsMapBuilder::insert. An out-of-order KV node makes insert return Err; *)
(* the proof layer then abandons the builder.                              *)
Insert ==
  /\ phase = "build"
  /\ pos <= Len(proof)
  /\ LET n == proof[pos] IN
       IF n.kind = "KV"
       THEN IF InOrder(entries, n.key)
            THEN /\ entries' = InsertEntry(entries, n.key,
                                 [contiguous |-> right_edge, value |-> n.value])
                 /\ right_edge' = TRUE
                 /\ pos' = pos + 1
                 /\ UNCHANGED phase
            ELSE /\ phase' = "failed"
                 /\ UNCHANGED <<entries, right_edge, pos>>
       ELSE /\ right_edge' = FALSE
            /\ pos' = pos + 1
            /\ UNCHANGED <<entries, phase>>
  /\ UNCHANGED <<tree, proof, it, okBeforeErr, erred, afterErr, got>>

(* JsMapBuilder::build, once every node of the proof is inserted.          *)
Build ==
  /\ phase = "build"
  /\ pos > Len(proof)
  /\ phase' = "built"
  /\ UNCHANGED <<tree, proof, pos, entries, right_edge, it, okBeforeErr,
                 erred, afterErr, got>>

-----------------------------------------------------------------------------
(* JsMap queries                                                           *)

(* Seeded fault: check_end_bound trusting right_edge alone.              *)
ExcludedDataRightEdgeOnly(prev_key) == ~right_edge

(* check_end_bound: TRUE when data may have been excluded after prev_key. *)
ExcludedData(prev_key) ==
  IF prev_key = NoKey THEN ~right_edge
  ELSE LET after == {k \in DOMAIN entries : k > prev_key}
       IN IF after = {} THEN ~right_edge
          ELSE ~entries[MinKey(after)].contiguous

(* JsMap::range(start, end): the entries in [start, end], both included.  *)
(* JsFlatMap starts with no previous key and with start as the exact      *)
(* lower-bound key.                                                         *)
NewRange(s, e) ==
  [start |-> s,
   stop |-> e,
   rest |-> SetToSortSeq({k \in DOMAIN entries : s <= k /\ k <= e}, <),
   prev_key |-> NoKey,
   start_key |-> s]

(* Seeded fault: the exclusion check skipped for start_key <= key.        *)
NextItemSkipLE(i) ==
  IF i.rest = <<>>
  THEN IF ExcludedData(i.prev_key) THEN Err ELSE End
  ELSE LET k == Head(i.rest)
       IN IF ~(i.start_key <= k) /\ ~entries[k].contiguous THEN Err
          ELSE Ok(k, entries[k].value)

(* The item JsFlatMap::next yields on iterator i.                         *)
NextItem(i) ==
  IF i.rest = <<>>
  THEN IF ExcludedData(i.prev_key) THEN Err ELSE End
  ELSE LET k == Head(i.rest)
           skip_exclusion_check == i.start_key = k
       IN IF ~skip_exclusion_check /\ ~entries[k].contiguous THEN Err
          ELSE Ok(k, entries[k].value)

(* Seeded fault: next() on a fresh iterator over inner at every call     *)
(* (self.inner.iter().next()), which never advances.                       *)
NextIterStuck(i) == [i EXCEPT !.prev_key = IF i.rest = <<>> THEN i.prev_key ELSE Head(i.rest)]

(* The iterator after JsFlatMap::next.                                     *)
NextIter(i) ==
  IF i.rest = <<>> THEN i
  ELSE [i EXCEPT !.rest = Tail(i.rest), !.prev_key = Head(i.rest)]

(* Seeded fault: get passing the iterator's end marker through.           *)
GetResultRawEnd(k) ==
  IF k \in DOMAIN entries
  THEN [key |-> k, res |-> "some", value |-> entries[k].value]
  ELSE [key |-> k, res |-> NextItem(NewRange(k, k)).kind, value |-> NoValue]

(* JsMap::get: an exact hit, otherwise the first item of range(key, key).  *)
GetResult(k) ==
  IF k \in DOMAIN entries
  THEN [key |-> k, res |-> "some", value |-> entries[k].value]
  ELSE LET item == NextItem(NewRange(k, k))
       IN CASE item = Err   -> [key |-> k, res |-> "err", value |-> NoValue]
            [] item = End   -> [key |-> k, res |-> "none", value |-> NoValue]
            [] OTHER        -> [key |-> k, res |-> "some", value |-> item.value]

Get(k) ==
  /\ phase = "built"
  /\ got' = GetResult(k)
  /\ UNCHANGED <<tree, proof, pos, entries, right_edge, phase, it,
                 okBeforeErr, erred, afterErr>>

(* JsMap::range consumes the map and returns the lazy iterator; the bounds *)
(* are passed to BTreeMap::range unchecked, which panics when start > end. *)
RangeCall(s, e) ==
  /\ phase = "built"
  /\ \/ s <= e /\ phase' = "range" /\ it' = NewRange(s, e)
     \/ s > e /\ phase' = "panicked" /\ UNCHANGED it
  /\ UNCHANGED <<tree, proof, pos, entries, right_edge, okBeforeErr, erred,
                 afterErr, got>>

(* The caller's loop calls JsFlatMap::next until it returns None.          *)
RangeNext ==
  /\ phase = "range"
  /\ LET item == NextItem(it) IN
       /\ it' = NextIter(it)
       /\ phase' = IF item = End THEN "done" ELSE phase
       /\ okBeforeErr' = IF item.kind = "ok" /\ ~erred
                         THEN InsertEntry(okBeforeErr, item.key, item.value)
                         ELSE okBeforeErr
       /\ erred' = (erred \/ item = Err)
       /\ afterErr' = (afterErr \/ (erred /\ item.kind = "ok"))
  /\ UNCHANGED <<tree, proof, pos, entries, right_edge, got>>

Next ==
  \/ Insert
  \/ Build
  \/ \E k \in Keys : Get(k)
  \/ \E s, e \in Keys : RangeCall(s, e)
  \/ RangeNext

Spec == Init /\ [][Next]_vars /\ WF_vars(RangeNext)

-----------------------------------------------------------------------------
(* Properties                                                              *)

TypeOK ==
  /\ tree \in Trees
  /\ proof \in Seq(ProofNodes)
  /\ pos \in 1..Len(proof) + 1
  /\ entries \in UNION {[S -> [contiguous : BOOLEAN, value : Values]] :
                          S \in SUBSET Keys}
  /\ right_edge \in BOOLEAN
  /\ phase \in {"build", "failed", "built", "range", "done", "panicked"}
  /\ it.rest \in Seq(Keys) /\ it.prev_key \in Keys \cup {NoKey}
  /\ okBeforeErr \in Trees
  /\ erred \in BOOLEAN /\ afterErr \in BOOLEAN
  /\ got.res \in {"some", "none", "err"}

(* The tree's entries with keys in [lo, hi].                               *)
TreeIn(lo, hi) == [k \in {j \in DOMAIN tree : lo <= j /\ j <= hi} |-> tree[k]]

(* JsMapBuilder::insert accepts a KV node only if its key is above every   *)
(* KV key accepted before it, and fails only on such a node: whatever the  *)
(* stream, the accepted KV nodes of the proof are strictly increasing and  *)
(* a failure is caused by the node at pos.                                 *)
BuilderAcceptsOnlyIncreasing ==
  LET kvAt(i) == proof[i].kind = "KV"
  IN /\ \A i, j \in 1..pos - 1 :
          (i < j /\ kvAt(i) /\ kvAt(j)) => proof[i].key < proof[j].key
     /\ phase = "failed" =>
          \E i \in 1..pos - 1 : kvAt(i) /\ proof[i].key >= proof[pos].key

(* Range soundness up to the first error: for an honest proof, the Ok      *)
(* items JsFlatMap::next yields before any Err are exactly the tree's      *)
(* entries from the range start up to the last key yielded: the contiguity *)
(* check (and its exemption for the exact start key) never lets a key      *)
(* hidden by the proof be skipped silently.                                *)
RangePrefixSound ==
  (phase \in {"range", "done"} /\ okBeforeErr # <<>>) =>
     okBeforeErr = TreeIn(it.start, MaxKey(DOMAIN okBeforeErr))

(* Range soundness at the end bound: when the iterator ends (None) without *)
(* having yielded an Err and having yielded some entry, the entries it      *)
(* yielded are exactly the tree's entries in [start, end] (check_end_bound  *)
(* with a previous key).                                                    *)
NonEmptyRangeSound ==
  (phase = "done" /\ ~erred /\ okBeforeErr # <<>>) =>
     okBeforeErr = TreeIn(it.start, it.stop)

(* Absence proofs: get(key) returns None only if the key is not in the     *)
(* tree (spec section 8: get([1,2,3,4]) with a hash node between its       *)
(* neighbours must fail; test map_get_missing_absence_proof).               *)
GetAbsenceSound ==
  got.res = "none" => got.key \notin DOMAIN tree

(* Once the range sequence has yielded an Err, it yields no more Ok       *)
(* entries (spec section 4.3: one error at most, nothing after it): a      *)
(* caller that skips the Err must not receive entries past a gap as if     *)
(* they were proven.  JsFlatMap::next after a contiguity Err.              *)
ErrorIsLast == ~afterErr

(* The range sequence is finite: a caller looping on JsFlatMap::next       *)
(* eventually gets None.                                                    *)
RangeTerminates == (phase = "range") ~> (phase = "done")

(* The end key of a range is excluded, as the test range_ok and spec      *)
(* section 8 expect: range([1,2,3], [1,2,5]) over three contiguous leaves  *)
(* yields two items.  JsMap::range builds Bound::Included for the end.     *)
RangeEndExcluded ==
  (phase \in {"range", "done"} /\ it.start < it.stop) =>
     it.stop \notin DOMAIN okBeforeErr


(* A caller that stops at the first error, as spec section 4.3 tells it   *)
(* to, always stops: looping on JsFlatMap::next, every range eventually   *)
(* returns None or yields an Err.  Each next() consumes one entry, so only *)
(* the end check can repeat.                                               *)
RangeEndsOrErrs == (phase = "range") ~> (phase = "done" \/ erred)

=============================================================================
