------------------------ MODULE InvestigationPromise ------------------------
(***************************************************************************)
(* What the tree, the listing and the recovery by id rely on of the        *)
(* investigation of a file system: it identifies objects one by one, each  *)
(* below an object it has identified before, gives every one an id of its  *)
(* own, and never takes back or renames what it has listed.  It may know   *)
(* of an object and not list it.                                           *)
(***************************************************************************)
EXTENDS Naturals, Sequences

VARIABLES issued,   \* the ids of the objects identified so far
          listed,   \* id and parent of the entries listed so far
          outcome   \* "walking", "done" or "failed"

promiseVars == <<issued, listed, outcome>>

Init == issued = {} /\ listed = << >> /\ outcome = "walking"

(* The first object is the root, its own parent. *)
Above(id) == IF issued = {} THEN {id} ELSE issued

(* One object more, whether it is listed or not. *)
Identify ==
  /\ outcome = "walking" /\ UNCHANGED outcome
  /\ \E id \in issued' \ issued :
       /\ issued' = issued \cup {id}
       /\ \/ UNCHANGED listed
          \/ \E parent \in Above(id) : listed' = Append(listed, [id |-> id, parent |-> parent])

End ==
  /\ outcome = "walking"
  /\ outcome' \in {"done", "failed"}
  /\ UNCHANGED <<issued, listed>>

Next == Identify \/ End

Spec == Init /\ [][Next]_promiseVars
=============================================================================
