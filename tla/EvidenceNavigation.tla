------------------------- MODULE EvidenceNavigation -------------------------
(***************************************************************************)
(* The two views of one model side by side: the tree that the inspection   *)
(* builds (ForensicTree) and the list of recoverable objects below a       *)
(* directory that the front ends offer (RecoverableEntries).               *)
(***************************************************************************)
EXTENDS ForensicTree, RecoverableEntries

NavInit == TreeInit /\ ListInit

(* The tree is built by the inspection, before a front end lists anything. *)
NavNext == \/ TreeNext /\ UNCHANGED listVars
           \/ tree = "built" /\ ListNext /\ UNCHANGED treeVars

navVars == <<entries, treeVars, listVars>>

(* A traversal that was started is one synchronous call: it goes on. *)
NavSpec == NavInit /\ [][NavNext]_navVars /\ WF_navVars(Traverse /\ UNCHANGED treeVars)

(* The two views agree: whoever starts from a directory the tree shows is  *)
(* offered only objects the tree shows as well.                            *)
OfferedIsInTree ==
  (tree = "built" /\ \E k \in DOMAIN entries :
                       entries[k].id = root /\ entries[k].directory /\ placed[k] > 0)
    => \A i \in DOMAIN collected : placed[collected[i]] > 0
=============================================================================
