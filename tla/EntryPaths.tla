----------------------------- MODULE EntryPaths -----------------------------
(***************************************************************************)
(* resolve_path, which the four file systems have in common: the path of   *)
(* an entry is gathered by climbing from parent to parent through the list *)
(* of entries, up to an entry that is its own parent, to a parent that is  *)
(* not in the list, or to an id met before.                                *)
(***************************************************************************)
EXTENDS Integers, Sequences

IdsOf(entries) == {entries[i].id : i \in DOMAIN entries}

(* The first entry with an id, as iter().find() meets it. *)
Find(entries, id) ==
  entries[CHOOSE i \in DOMAIN entries :
            entries[i].id = id /\ \A j \in 1..(i - 1) : entries[j].id # id]

(* Mutant: an entry that is its own parent adds its name. *)
Stops_Late(entries, visited, id) == id \in visited \/ id \notin IdsOf(entries)

(* Where the climb ends. *)
Stops(entries, visited, id) ==
  id \in visited \/ id \notin IdsOf(entries) \/ Find(entries, id).parent = id

(* The names on the way, the outermost first; << >> is "/". *)
ResolvePath(entries, start) ==
  LET climb[at \in [visited : SUBSET IdsOf(entries), id : Nat]] ==
        IF Stops(entries, at.visited, at.id)
          THEN << >>
          ELSE LET e == Find(entries, at.id)
               IN  Append(climb[[visited |-> at.visited \cup {at.id}, id |-> e.parent]], e.name)
  IN  climb[[visited |-> {}, id |-> start]]
=============================================================================
