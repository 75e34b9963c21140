# TLA+ models of liftedmerk

This directory holds TLA+ models of the two source files of this repository,
together with the TLC configurations that check them:

- `src/src/tree/mod.rs` is the Merk AVL node engine. Its nodes own their
  children through three-state links, commit to a backing store and load
  back from it.
- `src/src/proofs/query/map_js.rs` is the proof map. It builds a key/value
  map from the nodes of a verified proof and answers `get` and `range`
  queries, which must fail when the proof does not establish the answer.

`PROJECT.json` records the components, runs, mutants, the source lines each
definition models, the findings and the hazards.

## 1. Inventory

### Tree node engine (`tree/mod.rs`)

**State.** A `Tree` is a boxed `TreeInner` holding a `KV` (key, value and
kv_hash) and two `Option<Link>` slots. A `Link` (link.rs, not under src/) is
one of:

- `Pruned {hash, child_heights, key}`: the child is not in memory.
- `Stored {hash, child_heights, tree}`: the child is in memory and clean.
- `Modified {pending_writes, child_heights, tree}`: the child is dirty and
  has no valid hash.

**Operations.**

- Tree operations: `new`, `with_value`, `attach`, `detach`,
  `detach_expect`, `walk`, `walk_expect`, `commit`, `load`.
- Pure queries: `child_hash`, `hash`, `child_height(s)`, `height`,
  `child_pending_writes`, `balance_factor`.
- `from_fields` builds a node from decoded fields.

**Collaborators.**

- A `Commit` sink: `write` can fail, and `prune` chooses which sides to drop
  from memory.
- A `Fetch` source, which returns a stored node for a pruned link.

**Hard behaviours.**

- `commit` is a post-order recursion that takes each Modified link out of
  its slot before committing the child (mod.rs:307). A failure anywhere
  returns early through `?`.
- `prune` happens after `write`.
- `load` trusts the hash and heights cached in the Pruned link
  (mod.rs:356).
- `attach` captures the child's heights when it builds the link, and those
  heights are carried through every later state of the link.
- `detach` silently turns a Pruned child into `None` (mod.rs:226).
- The key checks are `debug_assert`s only (mod.rs:199 and 355).

### Proof map (`proofs/query/map_js.rs`)

**State.**

- The builder's `entries` map, from key to (contiguous, value).
- Its `right_edge` flag.
- The iterator `JsFlatMap`: remaining entries, `prev_key`, `start_key`.

**Operations.**

- `JsMapBuilder::new`, `insert` and `build`.
- `JsMap::get` and `JsMap::range`.
- `JsFlatMap::next` and `check_end_bound`.

**Hard behaviours.**

- The contiguity exemption for the exact start key (map_js.rs:88).
- The end-bound check, which for an empty range relies on `right_edge` only
  (map_js.rs:192).
- The iterator has no terminal state (map_js.rs:72).

The file does not compile as written:

- `self.inner.iter` should be an iterator field.
- `collect()` builds a `JsFlatMap`, which has no `FromIterator`.
- `check_end_bound(self.prev_key, self)` passes the iterator where the map
  is expected.
- `get(&self)` calls `range(self)`, which consumes the map.

The model follows the evident intent. The iterator carries the map's entries
and right edge, starts with `prev_key = None` and `start_key = Some(start)`
(spec section 4.3), and `get` queries the same map.

### Interactions

The two files do not call each other. Proofs are produced by
`proofs/query` from a committed tree, but that code is not in this
repository. ProofMap therefore takes the tree a proof is taken from as a
ghost variable and generates every honest proof of it.

## 2. Modules

| Module | Models | State | Actions |
|---|---|---|---|
| `MerkTree` | tree/mod.rs | `kv` (value of each key in memory), `slot[k][side]` (a Link record or `None`), `roots` (trees held by the caller by value), `db` (the store), `commits` | `New`, `WithValue`, `Attach`, `Detach`, `Walk`, `Commit`, `Load` |
| `MC_MerkTree` | MerkTree for TLC: symmetry over keys and values, `MC_Spec` without no-op steps | | |
| `LinkLifecycle` | what the engine promises (spec sections 3 and 4.1), with hashes, heights and the store abstracted away | `val`, `link[k][side]` (`None` or `[key, status]`, status `hash_only`, `clean` or `dirty`), `roots` | `New`, `WithValue`, `Attach`, `Detach`, `Walk`, `Commit`, `Load` |
| `MC_MerkTreeLifecycle` | MerkTree against LinkLifecycle | MerkTree's, plus auxiliary `absVal`, `absLink` | `RefNext` |
| `ProofMap` | map_js.rs | ghost `tree`, `proof`, `pos`, `entries`, `right_edge`, `phase`, iterator `it`, ghosts `okBeforeErr`, `erred`, `afterErr`, `got` | `Insert`, `Build`, `Get`, `RangeCall`, `RangeNext` |
| `MC_ProofMap` | keys `1..4` | | |

Correspondence for **MerkTree**:

- A node is identified by its key.
- A tree moved by value is a member of `roots` or is owned by a
  Stored/Modified link.
- `Settle` drops every node that nothing owns any more. This is the Rust
  drop of a `Box` that goes out of scope (for example the subtree of a
  failed commit).
- `Commit(r)` is `commit` on any node in memory: a root the caller holds,
  or a node below it reached through `child_mut`, which follows Stored and
  Modified links and stops at a Pruned one (`Live`). Nothing above `r`
  changes. `Commit(r)` is the whole recursive `commit`, evaluated by the mutually
  recursive, set-valued operators `CommitNode`/`CommitSide`. Each result is
  one possible run of the sink:
  - either some `write` fails (only when `SinkMayFail`), and the state
    reached at that point is kept;
  - or every write succeeds, with `prune` flagging any subset of non-empty
    sides.
- `Load` fetches a node from `db` (`Fetched`) and decodes it
  (`from_fields`). With `SourceHonest = FALSE` the source may return any
  stored node. `DebugAssertions` says whether `debug_assert_eq!` on the key
  (mod.rs:355) is compiled in. When it is, a wrong node aborts the call and
  the load does not happen.
- `Walk(p, side, f)` is `detach` followed by `attach`, with the closure
  returning the child unchanged, `None`, or the child with a new value.
- `detach_expect` and `walk_expect` are these actions with the child
  present. Their panics are left out.
- `MC_Spec` (in `MC_MerkTree`) is `Spec` without steps that leave every
  variable unchanged, such as a detach of an empty slot. These are
  stuttering steps, which no invariant can observe. `MC_Next` skips the
  calls that are always no-ops (detach or walk of an empty slot, attach of
  `None`, `with_value` with the current value) before TLC builds their
  successor, and `vars' # vars` removes any other. This allows exactly the
  steps of `Next /\ vars' # vars`, and costs less than half the time.
  `RefNext` in `MC_MerkTreeLifecycle` uses the same `MC_Next`.

Correspondence for **ProofMap**:

- `Insert` is one `JsMapBuilder::insert` of the next proof node. An order
  error moves the builder to `failed`.
- `RangeCall(s, e)` is `JsMap::range`. With `s > e` it reaches
  `BTreeMap::range` with reversed bounds, which panics (`phase = "panicked"`).
- `RangeNext` is one `JsFlatMap::next`, including its `check_end_bound` when
  the entries are exhausted.
- `Get` evaluates the whole of `get`.

Keys are integers, whose order stands for the byte-string order. Hashes are
injective free terms; collisions are not modelled.

### Refinement: MerkTree implements LinkLifecycle

`LinkLifecycle` is the spec's Link state machine over logical trees:

- `hash_only --load--> clean`;
- `dirty --commit--> clean`;
- `clean --prune--> hash_only`;
- attach creates a `dirty` link, and detach removes it.

Each operation is a relation `Op(s, t, ...)` between records of the state
before and after it. In its result, a node that no tree holds any more is
forgotten. `Commit(r)` reads off the new links which nodes were written and
which links were pruned. It requires the written set to be closed under
dirty children (the post-order) and everything below a pruned link to become
`hash_only`.

The mapping `AbsState` (in `MerkTree`) is as follows:

- `val` is `kv` for nodes in memory, and the stored value for nodes
  persisted behind a Pruned link.
- `link` maps the link states: Pruned goes to `hash_only`, Stored to
  `clean`, Modified to `dirty`.
- The descriptors of persisted nodes appear as `hash_only` links.
- `roots` is the same variable.

`MC_MerkTreeLifecycle` keeps the mapped state in the auxiliary variables
`absVal` and `absLink`. Each step sets them to `AbsState'`, so TLC computes
the mapping once per state. They are history-free and add no behaviour.
`LifecycleRefined == LL!Spec` is checked as a PROPERTY, with
`LL == INSTANCE LinkLifecycle WITH val <- absVal, link <- absLink`.

In `LinkLifecycle`, `Step` quantifies attach/detach/walk/load only over the
links a step touched (`Touched`). Any other instance of those actions leaves
the state unchanged, and `[Next]_vars` admits that as a stutter anyway.

## 3. Runs

| Run | cfg | Expect | Shows |
|---|---|---|---|
| `merktree` | `MerkTree.cfg` | pass | Every cached hash equals what the nodes below it give (`MerkleConsistent`). Every Stored child equals its record in the store (`CleanMatchesStore`). This holds under any interleaving of the caller's calls, commits of any node in memory, any write failures, any prune choices, and a misbehaving source in a debug build. |
| `merktree_refinement` | `MerkTreeRefinement.cfg` | pass | Every step of the engine is a step of `LinkLifecycle` under the mapping (`LifecycleRefined`). No dirty link lies below a clean or hash_only one (`NoDirtyBelowClean`), so commit reaches every change. Every cached child height equals the true height, and `balance_factor`, computed in `i8` as the code does, is the difference of the true heights (`HeightsConsistent`). After a commit, no Modified link is left in the committed subtree's memory, and nothing outside that subtree changes (`CommitCleansTree`, an action property). The sink does not fail in this run; `merktree_stale_heights` shows why heights need that. |
| `merktree_commit_failure` | `MerkTreeCommitFailure.cfg` | violation | A failed child `write` drops the child's subtree. `CommitFailureKeepsNodes` is an action property: a commit step leaves the keys of the caller's trees unchanged. It holds for every commit whose writes all succeed (checked with `SinkMayFail = FALSE`). The trace: `New k1`, `New k2`, attach k2 under k1, commit k1 with k2's write failing; k2 is gone. Spec sections 5 and 7 say the link stays dirty. |
| `merktree_release_fetch` | `MerkTreeReleaseFetch.cfg` | violation | In a release build, a source that returns another stored node has it installed under the Pruned link's hash (`MerkleConsistent`). The trace: k3 → k1 → k2 committed and pruned, then load of k3's right side fetches k2 in place of k1. Spec section 7 calls a key mismatch an error. |
| `merktree_pending_writes` | `MerkTreePendingWrites.cfg` | violation | A commit through `child_mut` of a node below a Modified link writes that subtree, but the parent link keeps the `pending_writes` count attach gave it (`PendingWritesExact`). The trace: k3 → Modified k1 → Modified k2; commit k1; k3's link still says 2 where only k1 is left to write. Spec section 3 says the link carries the count of pending writes in its subtree. |
| `merktree_stale_heights` | `MerkTreeStaleHeights.cfg` | violation | The same path with a failing `write`: committing k1 below k3's Modified link drops k2 (the commit-failure bug), and k3's link keeps child heights that still count it (`HeightsConsistent`). `height` and `balance_factor` of k3 are then wrong. |
| `proofmap_builder` | `ProofMapBuilder.cfg` | pass | For every stream of up to 4 nodes, the builder accepts exactly the strictly increasing KV keys and fails at the first bad one. |
| `proofmap_query` | `ProofMapQuery.cfg` | pass | For every honest proof of every tree over 4 keys and 2 values, with every range, the Ok items before an error are the tree's entries up to the last key (`RangePrefixSound`). A non-empty range that ends cleanly returned exactly the tree's entries in the range (`NonEmptyRangeSound`). A caller that keeps calling `next` reaches `None` or an `Err` (`RangeEndsOrErrs`). |
| `proofmap_absence` | `ProofMap_GetAbsenceSound.cfg` | violation | `get` of a key hidden by a hash node returns `Ok(None)`. In TLC's trace key 1 is hidden at the left edge before a revealed 2; the test `map_get_missing_absence_proof` hides it between two revealed keys, with the same cause. The cause is `check_end_bound` with `prev_key = None`, which checks `right_edge` only. |
| `proofmap_error_last` | `ProofMap_ErrorIsLast.cfg` | violation | After an Err for a non-contiguous entry, the next call yields the following entry as Ok (`ErrorIsLast`). The trace: proof (KVHash, KV 2, KV 3), `range(1, 3)` gives Err at 2, then Ok at 3. |
| `proofmap_termination` | `ProofMap_RangeTerminates.cfg` | violation | When the end check fails, `next` returns the same Err forever and never None. |
| `proofmap_range_end` | `ProofMap_RangeEndExcluded.cfg` | violation | `range(1, 2)` over a tree holding 2 yields the entry at 2. The test `range_ok` and spec section 8 expect the end to be excluded; the code uses `Bound::Included`, as spec section 4.3 says. |

Every property of a passing run has a mutant in `PROJECT.json`. A mutant is a
plausible bug in the mapped definition:

- swapped hash children or swapped heights;
- a Stored link built at attach;
- a load that leaves the link Pruned;
- a fetched node decoded without its child links;
- a commit that marks a dirty child Stored without recursing (the mutant for
  both `NoDirtyBelowClean` and `CommitCleansTree`);
- `>=` in the order check;
- the exemption widened to `start <= key`;
- the end check reduced to `right_edge`;
- a `next` that reads a fresh iterator each call and never advances.

TLC finds each one.

### Bounds

- **MerkTree.** Three keys allow a root with two children, or a chain of
  three nodes, so commit recursion, pruning at two levels and loads below a
  loaded node all occur. Two values let `with_value` change a hash.
  `TypeOK` states cached heights and `pending_writes` over `Nat`, not over
  the tree's depth. After a failed commit through `child_mut`, a stale
  height is carried into the next Modified link, so the cached values can
  exceed any true height; `MaxCommits` keeps them finite.
  `MaxCommits = 2` allows a commit, changes, and a second commit over pruned
  and stored links. Symmetry over keys and values is sound because no
  definition compares keys: node identity is all that matters to the engine.
- **Refinement.** The same bounds, with a sink that does not fail.
  With failures, the refinement is broken by the commit-failure bug that
  `merktree_commit_failure` already shows: a dropped subtree is no abstract
  step. The run would only repeat that finding. The source misbehaves, but
  in a debug build, where the key check stops a wrong node.
- **ProofMap.** Four ordered keys give a key hidden between two revealed keys
  and hidden keys at either edge, and every range over them is queried.
  Symmetry is not used for ProofMap because its keys are ordered. Five keys
  take TLC more than ten minutes, and add no new shape of hidden range.

### Fairness and deadlock

- `ProofMap` assumes weak fairness of `RangeNext` only. It stands for the
  caller's `for item in map.range(..)` loop, which keeps calling `next` until
  `None`. No fairness is assumed for building or for new queries.
  `RangeEndsOrErrs` is checked under this fairness: a `for` loop stops at
  `None`, and a caller that uses `?` stops at the first `Err`.
- ProofMap runs set `CHECK_DEADLOCK FALSE` because a proof map is a finite
  pipeline: once the builder has failed, a range is done or a call has
  panicked, nothing more happens to it.
- MerkTree runs check deadlock: the caller can always call `new` for an
  unused key or change a tree by detach, attach or walk.

## 4. Not modelled

- **Walker, batch apply, AVL rotation, kv.rs, link.rs, hash.rs, encoding.rs,
  and proof generation and verification.** These are not in this repository.
  The Link, hash and encoding behaviour MerkTree needs is modelled from the
  spec and marked `spec_modelled` in the map.
- **The release-build `attach` check (mod.rs:199).** Nodes are identified
  by key, so a child with its parent's key cannot be expressed. The caller
  keeps keys unique.
- **Panics** of `attach` on a full slot and `load` on a non-pruned link. The
  actions are guarded on the slot instead.
- **wasm bindings and `OptionVec`.** These are presentation code only.
- **The unit tests** (mod.rs 370–517, map_js.rs 218–346). They are not
  translated into runs of their own. Each test is one fixed call sequence,
  and the passing runs already reach it among all sequences. Two tests make
  claims the model disagrees with: `range_ok` expects the end key excluded
  (`proofmap_range_end`). `map_get_missing_absence_proof` expects an error
  for a key hidden between two revealed keys. `proofmap_absence` shows the
  code answers `Ok(None)` for a hidden key, by the same `right_edge`-only
  check. The hash tests compare literal
  digests, which an abstract hash cannot reproduce.

With these, every state-changing operation in the two source files is an
action of a module. What remains unmapped is tests, imports, the wasm
wrappers and accessors that change no state.

## 5. Plan for further work

1. A walker-level client that loads before it walks, with a property that a
   walk never drops an unloaded subtree (mod.rs:226).
2. Liveness for MerkTree: a caller that keeps committing eventually leaves no
   dirty link, under fairness of `Commit`.
3. A refinement run with a failing sink once the commit-failure bug is fixed,
   or an abstract `Commit` that admits the code's failure outcome as a
   documented divergence.
