----------------------------- MODULE Hierarchy -----------------------------
(***************************************************************************)
(* The hierarchy of a forensic model: a flat list of entries that point at *)
(* their parent by object id (ForensicEntry::hierarchy).  Corrupt metadata *)
(* may produce any such list: missing parents, cycles, files as parents    *)
(* and repeated ids.                                                       *)
(***************************************************************************)
EXTENDS Integers, Sequences

CONSTANTS Ids,          \* object ids
          Hierarchies   \* the lists of entries that may be given

NoParent == -1

(* wanted: the recovery filter's answer for a file of this status. *)
Node == [id : Ids, parent : Ids \cup {NoParent}, directory : BOOLEAN, wanted : BOOLEAN]

ASSUME HierarchyAssumption ==
  /\ Ids \subseteq Nat
  /\ Hierarchies \subseteq Seq(Node)

VARIABLE entries

IsChild(parent, k) == entries[k].parent = entries[parent].id

UniqueIds == \A j, k \in DOMAIN entries : entries[j].id = entries[k].id => j = k
=============================================================================
