---------------------------- MODULE ForensicTree ----------------------------
(***************************************************************************)
(* ForensicTree::from_entries and its recursion build_node                 *)
(* (forensic/tree.rs): every entry without a discovered parent is a root,  *)
(* and directories are expanded with the entries that name them as parent. *)
(* Nothing remembers what was placed already.                              *)
(***************************************************************************)
EXTENDS Hierarchy

VARIABLES scan,    \* the next entry from_entries looks at
          stack,   \* the running calls of build_node, innermost last
          placed,  \* how many nodes of the tree show each entry
          tree     \* "building", "built" or "overflow"

treeVars == <<scan, stack, placed, tree>>

Frame == [node : Nat, next : Nat]

TreeInit ==
  /\ entries \in Hierarchies
  /\ scan = 1
  /\ stack = << >>
  /\ placed = [k \in DOMAIN entries |-> 0]
  /\ tree = "building"

(* Mutant: an entry that is its own parent is not a root. *)
IsRoot_OnlyOrphans(k) == \A j \in DOMAIN entries : entries[j].id # entries[k].parent

IsRoot(k) ==
  \/ entries[k].parent = NoParent
  \/ entries[k].parent = entries[k].id
  \/ \A j \in DOMAIN entries : entries[j].id # entries[k].parent

(* Mutant: an object may become its own child. *)
Expands_Self(parent, k) == entries[parent].directory /\ IsChild(parent, k)

(* Mutant: children are only looked for behind their parent. *)
Expands_OnlyLater(parent, k) ==
  /\ entries[parent].directory
  /\ entries[k].id # entries[parent].id
  /\ IsChild(parent, k)
  /\ k > parent

(* build_node calls itself for a child, unless the child has the very id   *)
(* of its parent.                                                          *)
Expands(parent, k) ==
  /\ entries[parent].directory
  /\ entries[k].id # entries[parent].id
  /\ IsChild(parent, k)

Top == stack[Len(stack)]
Callers == SubSeq(stack, 1, Len(stack) - 1)
Enter(frames, k) ==
  /\ stack' = Append(frames, [node |-> k, next |-> 1])
  /\ placed' = [placed EXCEPT ![k] = @ + 1]

TakeRoot ==
  /\ tree = "building" /\ stack = << >>
  /\ scan \in DOMAIN entries
  /\ IF IsRoot(scan) THEN Enter(<< >>, scan) ELSE UNCHANGED <<stack, placed>>
  /\ scan' = scan + 1
  /\ UNCHANGED <<entries, tree>>

(* A call chain longer than the list repeats an entry and so never ends:   *)
(* the process runs out of stack.                                          *)
TooDeep == Len(stack) > Len(entries)

Advance == Append(Callers, [Top EXCEPT !.next = @ + 1])

VisitChild ==
  /\ tree = "building" /\ stack # << >> /\ ~TooDeep
  /\ Top.next \in DOMAIN entries
  /\ IF Expands(Top.node, Top.next)
       THEN Enter(Advance, Top.next)
       ELSE stack' = Advance /\ UNCHANGED placed
  /\ UNCHANGED <<entries, scan, tree>>

ReturnNode ==
  /\ tree = "building" /\ stack # << >> /\ ~TooDeep
  /\ Top.next \notin DOMAIN entries
  /\ stack' = Callers
  /\ UNCHANGED <<entries, scan, placed, tree>>

Overflow ==
  /\ tree = "building" /\ TooDeep
  /\ tree' = "overflow"
  /\ UNCHANGED <<entries, scan, stack, placed>>

FinishTree ==
  /\ tree = "building" /\ stack = << >>
  /\ scan \notin DOMAIN entries
  /\ tree' = "built"
  /\ UNCHANGED <<entries, scan, stack, placed>>

TreeNext == TakeRoot \/ VisitChild \/ ReturnNode \/ Overflow \/ FinishTree

-----------------------------------------------------------------------------
TreeTypeOK ==
  /\ entries \in Seq(Node)
  /\ scan \in 1..(Len(entries) + 1)
  /\ stack \in Seq(Frame)
  /\ placed \in [DOMAIN entries -> Nat]
  /\ tree \in {"building", "built", "overflow"}

(* The entries that hang by directories only below one that has no parent  *)
(* other than itself.                                                      *)
Grounded ==
  LET Parents(k) == {j \in DOMAIN entries : IsChild(j, k) /\ entries[j].id # entries[k].id}
      Closed(S) == \A k \in DOMAIN entries :
                     Parents(k) = {} \/ (\E j \in Parents(k) \cap S : entries[j].directory)
                       => k \in S
  IN  {k \in DOMAIN entries : \A S \in SUBSET DOMAIN entries : Closed(S) => k \in S}

(* As long as object ids are unique the recursion ends, whatever cycles    *)
(* the parent links form, and no entry is shown twice.                     *)
UniqueIdsNeedNoGuard ==
  UniqueIds => /\ tree # "overflow"
               /\ \A k \in DOMAIN entries : placed[k] <= 1

(* The finished tree shows an entry exactly if it hangs below a root:      *)
(* members of a parent cycle, and what hangs below them or below a file,   *)
(* are the only evidence it leaves out (docs/forensic-model.md).           *)
TreeShowsGrounded ==
  tree = "built" => \A k \in DOMAIN entries : placed[k] > 0 <=> k \in Grounded
=============================================================================
