------------------------- MODULE RecoverableEntries -------------------------
(***************************************************************************)
(* collect_recoverable_entries (forensis-app/src/recovery.rs): the         *)
(* worklist traversal that turns a directory of the model into a list of   *)
(* recoverable objects, with a visited set against cyclic metadata.        *)
(***************************************************************************)
EXTENDS Hierarchy

VARIABLES root,       \* root_id, the object id the traversal starts from
          todo,       \* the stack of directory ids still to expand
          visited,    \* ids expanded already
          children,   \* indexes of the entries the inner loop has still to see
          collected,  \* indexes of the entries found, in order
          listing     \* "idle", "walking" or "listed"

listVars == <<root, todo, visited, children, collected, listing>>

ListInit ==
  /\ entries \in Hierarchies
  /\ root = NoParent
  /\ todo = << >>
  /\ visited = {}
  /\ children = {}
  /\ collected = << >>
  /\ listing = "idle"

(* A front end asks for the objects below the directory it shows. *)
StartListing(id) ==
  /\ listing = "idle"
  /\ root' = id
  /\ todo' = <<id>>
  /\ listing' = "walking"
  /\ UNCHANGED <<entries, visited, children, collected>>

Children(id) == {k \in DOMAIN entries : entries[k].parent = id}
Wanted(k) == ~entries[k].directory /\ entries[k].wanted

Id == todo[Len(todo)]
Rest == SubSeq(todo, 1, Len(todo) - 1)

(* The outer loop is about to take an id from the stack. *)
Popping == listing = "walking" /\ children = {} /\ todo # << >>

(* Mutant: a visited id stays on the stack. *)
Revisit_Keeps ==
  /\ Popping /\ Id \in visited
  /\ UNCHANGED <<entries, listVars>>

Revisit ==
  /\ Popping /\ Id \in visited
  /\ todo' = Rest
  /\ UNCHANGED <<entries, root, visited, children, collected, listing>>

(* Mutant: the expanded directory is not remembered. *)
Expand_Forgets ==
  /\ Popping /\ Id \notin visited
  /\ todo' = Rest
  /\ children' = Children(Id)
  /\ UNCHANGED <<entries, root, visited, collected, listing>>

Expand ==
  /\ Popping /\ Id \notin visited
  /\ todo' = Rest
  /\ visited' = visited \cup {Id}
  /\ children' = Children(Id)
  /\ UNCHANGED <<entries, root, collected, listing>>

(* The inner loop sees the children in the order of the list. *)
TakeChild ==
  \E k \in children :
    /\ listing = "walking"
    /\ \A j \in children : k <= j
    /\ children' = children \ {k}
    /\ todo' = IF entries[k].directory THEN Append(todo, entries[k].id) ELSE todo
    /\ collected' = IF Wanted(k) THEN Append(collected, k) ELSE collected
    /\ UNCHANGED <<entries, root, visited, listing>>

(* The list is then sorted by path, which changes neither its members nor  *)
(* their number.                                                           *)
FinishListing ==
  /\ listing = "walking" /\ children = {} /\ todo = << >>
  /\ listing' = "listed"
  /\ UNCHANGED <<entries, root, todo, visited, children, collected>>

Traverse == Revisit \/ Expand \/ TakeChild \/ FinishListing

ListNext == Traverse \/ \E id \in Ids : StartListing(id)

ListSpec == ListInit /\ [][ListNext]_<<entries, listVars>>

-----------------------------------------------------------------------------
ListTypeOK ==
  /\ entries \in Seq(Node)
  /\ root \in Ids \cup {NoParent}
  /\ todo \in Seq(Ids)
  /\ visited \subseteq Ids
  /\ children \subseteq DOMAIN entries
  /\ collected \in Seq(DOMAIN entries)
  /\ listing \in {"idle", "walking", "listed"}
  /\ listing # "walking" => todo = << >> /\ children = {}

(* The ids reachable from the root through directories: the least set that *)
(* holds the root and, with an id, those of its child directories.         *)
ClosedIds(S) ==
  /\ root \in S
  /\ \A k \in DOMAIN entries :
       entries[k].directory /\ entries[k].parent \in S => entries[k].id \in S

Below(k) == \A S \in SUBSET Ids : ClosedIds(S) => entries[k].parent \in S

(* Soundness: nothing is ever listed that is not below the root, a         *)
(* directory, or outside the filter.                                       *)
ListedAreBelowRoot ==
  \A i \in DOMAIN collected : Wanted(collected[i]) /\ Below(collected[i])

(* Completeness: the finished list has every wanted file below the root,   *)
(* cycles and repeated ids notwithstanding.                                *)
ListingComplete ==
  listing = "listed" =>
    \A k \in DOMAIN entries :
      Wanted(k) /\ Below(k) => \E i \in DOMAIN collected : collected[i] = k

(* No object is offered for recovery twice. *)
NothingListedTwice ==
  \A i, j \in DOMAIN collected : collected[i] = collected[j] => i = j

(* The list offered for recovery is exact: the recoverable files below the *)
(* directory, each of them, and each once, whatever cycles and repeated    *)
(* ids the hierarchy has (collect_recoverable_entries).                    *)
ListingIsExact == ListedAreBelowRoot /\ ListingComplete /\ NothingListedTwice

(* The comment in the code: without a visited set a directory cycle would  *)
(* cause an infinite traversal.                                            *)
TraversalEnds == listing = "walking" ~> listing = "listed"
=============================================================================
