---------------------------- MODULE MC_MerkTree ----------------------------
(* Instantiates MerkTree for TLC: three keys give a root with two levels   *)
(* below it, two values make a with_value change the hash.                 *)
EXTENDS MerkTree, TLC

(* Calls that change nothing (detach or walk of an empty slot, attach of  *)
(* None, with_value of the value a root already has) are stuttering       *)
(* steps, which no property can tell apart; MC_Next is Next without them. *)
(* The guards on the slot, the child and the value only skip those calls  *)
(* before TLC builds their successor; vars' # vars removes the rest.      *)
MC_Next ==
  /\ \/ \E k \in Keys, v \in Values : New(k, v) \/ (kv[k] # v /\ WithValue(k, v))
     \/ \E p \in Keys, left \in Sides :
          \/ \E c \in Keys : Attach(p, left, c)
          \/ slot[p][left] # None /\ (Detach(p, left) \/ \E f \in WalkFns : Walk(p, left, f))
          \/ Load(p, left)
     \/ \E r \in Keys : Commit(r)
  /\ vars' # vars

MC_Spec == Init /\ [][MC_Next]_vars

MC_Symmetry == Permutations(Keys) \cup Permutations(Values)
=============================================================================
