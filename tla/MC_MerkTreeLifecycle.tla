------------------------ MODULE MC_MerkTreeLifecycle ------------------------
(* Checks that MerkTree implements LinkLifecycle under the mapping         *)
(* AbsState.  The mapped state is kept in two auxiliary variables that    *)
(* every step sets to AbsState of its new state; they add no behaviour.  *)
(* Calls that change nothing (detach or walk of an empty slot, attach of  *)
(* None) are stuttering steps, which neither property can tell apart;    *)
(* RefNext is MC_Next, which leaves them out.                             *)
EXTENDS MC_MerkTree

VARIABLES absVal, absLink

RefInit == Init /\ absVal = AbsState.val /\ absLink = AbsState.link

RefNext == MC_Next /\ \E a \in {AbsState'} : absVal' = a.val /\ absLink' = a.link

RefSpec == RefInit /\ [][RefNext]_<<vars, absVal, absLink>>

LL == INSTANCE LinkLifecycle WITH val <- absVal, link <- absLink

(* The tree engine implements the Link state machine of spec section 4.1:  *)
(* every call changes the caller's trees as the abstract operation does,   *)
(* and commit, prune and load (with a fetch source and a sink that do not  *)
(* fail) leave the logical contents of every tree unchanged.               *)
LifecycleRefined == LL!Spec

(* No Modified link lies below a Stored or Pruned one: commit recurses     *)
(* only through Modified links, so a dirty node below a clean link would   *)
(* never reach sink.write.                                                 *)
NoDirtyBelowClean == LL!DirtyOnlyUnderDirty

=============================================================================
