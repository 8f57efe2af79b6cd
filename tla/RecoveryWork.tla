---------------------------- MODULE RecoveryWork ----------------------------
(***************************************************************************)
(* Recovery sessions of the CLI and of the TUI that share one              *)
(* forensis-recovery directory: the persisted ticket counter               *)
(* (next_recovery_ticket_in, forensis-app/src/recovery.rs), the scratch    *)
(* directory .working-<ticket> and its final rename (save_recovery_work of *)
(* forensis-cli/src/main.rs and forensis-tui/src/main.rs).                 *)
(*                                                                         *)
(* Sessions are independent processes.  Nothing locks the counter: it is   *)
(* read, then truncated, then written, and a session may die in between.   *)
(***************************************************************************)
EXTENDS Integers

CONSTANTS Sessions,          \* recovery sessions, each run at most once
          Interface,         \* "cli" or "tui", for each session
          MaxTicket,         \* u64::MAX of the counter
          InitialCounters    \* contents of .ticket left by earlier work

Absent == -1                 \* .ticket does not exist
Torn == -2                   \* .ticket exists and does not parse: it is empty

ASSUME WorkAssumption ==
  /\ MaxTicket \in Nat \ {0}
  /\ Interface \in [Sessions -> {"cli", "tui"}]
  /\ InitialCounters \subseteq 0..MaxTicket \cup {Absent}

VARIABLES counter,   \* contents of forensis-recovery/.ticket
          pc,        \* where each session is
          last,      \* the counter value a session has read
          ticket,    \* the ticket of a session, 0 before it has one
          outputDir, \* where the session's files are: RecoveryState::output_dir
          present,   \* the directories that exist
          held,      \* the sessions whose files lie in a directory
          raced      \* history: a session was started while another one
                     \* was drawing its ticket

workVars == <<counter, pc, last, ticket, outputDir, present, held, raced>>
files == <<present, held>>

Tickets == 1..MaxTicket
(* Mutant: one scratch directory for everybody. *)
Working_Shared(t) == <<"working", 1>>

Working(t) == <<"working", t>>
Final(s) == <<Interface[s], ticket[s]>>
Dirs == {"working", "cli", "tui"} \X Tickets

States == {"idle", "read", "truncated", "ticketed", "saving",
           "ended", "crashed", "torn"}

WorkInit == /\ counter \in InitialCounters
            /\ pc = [s \in Sessions |-> "idle"]
            /\ last = [s \in Sessions |-> 0]
            /\ ticket = [s \in Sessions |-> 0]
            /\ outputDir = [s \in Sessions |-> "none"]
            /\ present = {}
            /\ held = [d \in Dirs |-> {}]
            /\ raced = FALSE

Go(s, state) == pc' = [pc EXCEPT ![s] = state]

-----------------------------------------------------------------------------
(* Drawing a ticket.                                                       *)

Drawing(s) == pc[s] \in {"read", "truncated"}

(* Mutant: an unreadable counter counts as a new one. *)
ReadCounter_RestartsTorn(s) ==
  /\ pc[s] = "idle"
  /\ raced' = (raced \/ \E t \in Sessions : Drawing(t))
  /\ last' = [last EXCEPT ![s] = IF counter \in {Absent, Torn} THEN 0 ELSE counter]
  /\ Go(s, "read")
  /\ UNCHANGED <<counter, ticket, outputDir, files>>

ReadCounter(s) ==
  /\ pc[s] = "idle"
  /\ counter # Torn
  /\ raced' = (raced \/ \E t \in Sessions : Drawing(t))
  /\ last' = [last EXCEPT ![s] = IF counter = Absent THEN 0 ELSE counter]
  /\ Go(s, "read")
  /\ UNCHANGED <<counter, ticket, outputDir, files>>

(* "Invalid recovery ticket counter". *)
InvalidCounter(s) ==
  /\ pc[s] = "idle"
  /\ counter = Torn
  /\ Go(s, "ended")
  /\ UNCHANGED <<counter, last, ticket, outputDir, files, raced>>

CounterOverflow(s) ==
  /\ pc[s] = "read"
  /\ last[s] = MaxTicket
  /\ Go(s, "ended")
  /\ UNCHANGED <<counter, last, ticket, outputDir, files, raced>>

(* fs::write opens the file truncated, then writes the digits. *)
TruncateCounter(s) ==
  /\ pc[s] = "read"
  /\ last[s] # MaxTicket
  /\ counter' = Torn
  /\ Go(s, "truncated")
  /\ UNCHANGED <<last, ticket, outputDir, files, raced>>

(* Mutant: a failed write goes unnoticed. *)
WriteCounter_IgnoresFailure(s) ==
  /\ pc[s] = "truncated"
  /\ counter' \in {Torn, last[s] + 1}
  /\ ticket' = [ticket EXCEPT ![s] = last[s] + 1]
  /\ Go(s, "ticketed")
  /\ UNCHANGED <<last, outputDir, files, raced>>

(* The digits are written from the start of the file.  Two writers whose   *)
(* numbers differ in length could leave digits of both; numbers are taken  *)
(* to have the same length here, so the later writer wins.                 *)
WriteCounter(s) ==
  /\ pc[s] = "truncated"
  /\ counter' = last[s] + 1
  /\ ticket' = [ticket EXCEPT ![s] = last[s] + 1]
  /\ Go(s, "ticketed")
  /\ UNCHANGED <<last, outputDir, files, raced>>

-----------------------------------------------------------------------------
(* Working with the ticket.                                                *)

(* One object is recovered: recover_object_from_result creates the scratch *)
(* directory and a file in it.  An object the engine gives up on leaves    *)
(* the directory without a file.                                           *)
RecoverObject(s) ==
  /\ pc[s] = "ticketed"
  /\ present' = present \cup {Working(ticket[s])}
  /\ \E written \in SUBSET {s} :
       held' = [held EXCEPT ![Working(ticket[s])] = @ \cup written]
  /\ outputDir' = [outputDir EXCEPT ![s] = "working"]
  /\ UNCHANGED <<counter, pc, last, ticket, raced>>

(* The CLI session is cancelled or finds nothing to recover; the TUI       *)
(* returns to the investigation at any time.                               *)
Abandon(s) ==
  /\ pc[s] = "ticketed"
  /\ Interface[s] = "cli" => outputDir[s] = "none"
  /\ Go(s, "ended")
  /\ UNCHANGED <<counter, last, ticket, outputDir, files, raced>>

(* The TUI first makes sure that the directory it is about to rename is    *)
(* there; after an earlier save that is the final directory itself.        *)
SaveSource(s) ==
  IF outputDir[s] = "final" THEN Final(s) ELSE Working(ticket[s])

Prepared(s) == IF Interface[s] = "tui" THEN present \cup {SaveSource(s)} ELSE present

(* The CLI saves after its loop over at least one object. *)
MaySave(s) == /\ pc[s] = "ticketed"
              /\ Interface[s] = "cli" => outputDir[s] = "working"

BeginSave(s) ==
  /\ MaySave(s)
  /\ present' = Prepared(s)
  /\ Final(s) \notin Prepared(s)
  /\ Go(s, "saving")
  /\ UNCHANGED <<counter, last, ticket, outputDir, held, raced>>

(* "Recovery work already exists": an error that ends the CLI, a status    *)
(* line of the TUI.                                                        *)
SaveRefused(s) ==
  /\ MaySave(s)
  /\ present' = Prepared(s)
  /\ Final(s) \in Prepared(s)
  /\ Go(s, IF Interface[s] = "cli" THEN "ended" ELSE "ticketed")
  /\ UNCHANGED <<counter, last, ticket, outputDir, held, raced>>

(* Mutant: whatever is at the target is replaced. *)
Renamable_Replaces(from, to) == from \in present

(* rename(2) of a directory: the source must exist, and the target must    *)
(* not exist or be empty.                                                  *)
Renamable(from, to) == from \in present /\ (to \in present => held[to] = {})

RenameWork(s) ==
  /\ pc[s] = "saving"
  /\ Renamable(SaveSource(s), Final(s))
  /\ present' = (present \ {SaveSource(s)}) \cup {Final(s)}
  /\ held' = [held EXCEPT ![Final(s)] = held[SaveSource(s)],
                          ![SaveSource(s)] = {}]
  /\ IF Interface[s] = "cli"
       THEN Go(s, "ended") /\ UNCHANGED outputDir
       ELSE Go(s, "ticketed") /\ outputDir' = [outputDir EXCEPT ![s] = "final"]
  /\ UNCHANGED <<counter, last, ticket, raced>>

(* Both front ends return the error, and both end with it. *)
RenameFails(s) ==
  /\ pc[s] = "saving"
  /\ ~Renamable(SaveSource(s), Final(s))
  /\ Go(s, "ended")
  /\ UNCHANGED <<counter, last, ticket, outputDir, files, raced>>

-----------------------------------------------------------------------------
(* The process is killed, or the disk refuses the digits: after the        *)
(* truncation the counter stays empty.                                     *)
Crash(s) ==
  /\ pc[s] \in {"read", "truncated", "ticketed", "saving"}
  /\ Go(s, IF pc[s] = "truncated" THEN "torn" ELSE "crashed")
  /\ UNCHANGED <<counter, last, ticket, outputDir, files, raced>>

Step(s) == \/ ReadCounter(s) \/ InvalidCounter(s) \/ CounterOverflow(s)
           \/ TruncateCounter(s) \/ WriteCounter(s)
           \/ RecoverObject(s) \/ Abandon(s)
           \/ BeginSave(s) \/ SaveRefused(s)
           \/ RenameWork(s) \/ RenameFails(s)

WorkNext == \E s \in Sessions : Step(s) \/ Crash(s)

WorkSpec == WorkInit /\ [][WorkNext]_workVars

-----------------------------------------------------------------------------
WorkTypeOK ==
  /\ counter \in 0..MaxTicket \cup {Absent, Torn}
  /\ pc \in [Sessions -> States]
  /\ last \in [Sessions -> 0..MaxTicket]
  /\ ticket \in [Sessions -> 0..MaxTicket]
  /\ outputDir \in [Sessions -> {"none", "working", "final"}]
  /\ present \subseteq Dirs
  /\ held \in [Dirs -> SUBSET Sessions]
  /\ raced \in BOOLEAN

(* Two sessions never work under the same ticket, if no session was        *)
(* started while another one was drawing its own, even if some of them     *)
(* were killed while they did (next_recovery_ticket_in).                   *)
UniqueTickets ==
  ~raced => \A s, t \in Sessions : s # t /\ ticket[s] # 0 => ticket[s] # ticket[t]

(* docs/recovery.md calls the ticket monotonic: whoever draws one later    *)
(* gets a larger one than everybody before.  True of sessions that are     *)
(* not started while another one draws (next_recovery_ticket_in).          *)
TicketsMonotonic ==
  [][\A s \in Sessions : ~raced' /\ ticket[s] = 0 /\ ticket'[s] # 0
       => \A t \in Sessions : ticket'[s] > ticket[t]]_workVars

(* A directory holds the evidence of one session only, so that a report    *)
(* can say which recovery a file stems from.                               *)
OneSessionPerDirectory ==
  ~raced => \A d \in Dirs : \A s, t \in held[d] : s = t

(* The gap between final_dir.exists() and the rename is harmless as long   *)
(* as tickets are unique: the rename that follows the check succeeds.      *)
CheckedSaveSucceeds ==
  ~raced => \A s \in Sessions : pc[s] = "saving" => Renamable(SaveSource(s), Final(s))

(* Sessions that share forensis-recovery do not get into each other's way: *)
(* neither their evidence nor their saves meet (save_recovery_work).       *)
SessionsStayApart == OneSessionPerDirectory /\ CheckedSaveSucceeds

(* An unusable counter is always the trace of a session that is writing it *)
(* or was stopped while it did; no interleaving of complete sessions       *)
(* leaves one behind.                                                      *)
TornOnlyByWriter ==
  counter = Torn => \E s \in Sessions : pc[s] \in {"truncated", "torn"}

(* Whatever the sessions do to each other's directories, a file once       *)
(* recovered is never lost: it stays in some directory.                    *)
EvidenceKept ==
  [][\A s \in Sessions : (\E d \in Dirs : s \in held[d])
                           => \E d \in Dirs : s \in held'[d]]_workVars

(* A saved directory is frozen: no later session, and no later step of the *)
(* session that saved it, changes what it holds, unless it was saved empty.*)
SavedWorkFrozen ==
  [][\A d \in present : d[1] # "working" /\ held[d] # {}
                          => d \in present' /\ held'[d] = held[d]]_workVars
=============================================================================
