-------------------------- MODULE RecoveryPromise --------------------------
(***************************************************************************)
(* What a caller of RecoveryEngine::recover may rely on (recovery/         *)
(* engine.rs, recovery/result.rs): one answer per object, which is either  *)
(* the whole object made of its own evidence, or no bytes at all.          *)
(***************************************************************************)
EXTENDS ForensicModel

CONSTANTS Entries,            \* the forensic entries that may be submitted
          ImageSize,          \* bytes of the investigated image
          OwnByte(_, _)       \* OwnByte(e, b): b belongs to the evidence of e

VARIABLES entry, result

NoResult == [status |-> "pending", data |-> << >>]

Init == /\ entry \in Entries
        /\ result = NoResult

(* Every byte handed out is evidence of the entry, and there are exactly   *)
(* as many of them as the object's recorded size asks for.                 *)
Whole(e, d) ==
  /\ e.realSize \notin {None, U64Max} => Len(d) = e.realSize
  /\ \A i \in DOMAIN d : OwnByte(e, d[i])

Deliver == /\ result = NoResult
           /\ result'.status = "recovered"
           /\ Whole(entry, result'.data)
           /\ UNCHANGED entry

Refuse == /\ result = NoResult
          /\ result' \in [status : {"failed", "error"}, data : {<< >>}]
          /\ UNCHANGED entry

Next == Deliver \/ Refuse

Spec == Init /\ [][Next]_<<entry, result>>
=============================================================================
