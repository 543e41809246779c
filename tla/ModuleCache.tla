------------------------------ MODULE ModuleCache ------------------------------
(***************************************************************************)
(* The archive of a module, which the workers of a run build once and then *)
(* share: the first one writes it under a lock, the others read it.        *)
(*                                                                         *)
(*   lib/distronode/executor/module_common.py       _find_module_utils     *)
(*   lib/distronode/executor/action_write_locks.py                         *)
(*                                                                         *)
(* The locks go by the name the module is called by, the archive by the    *)
(* one it has: workers that call one module by two names, stat and         *)
(* distronode.legacy.stat, do not keep each other out.                     *)
(***************************************************************************)
CONSTANTS
  Workers,
  Locks,      (* the locks of the names the module may be called by         *)
  LockOf,     (* the lock of the name each worker calls it by               *)
  NoWorker

ASSUME LockAssumption     == LockOf \in [Workers -> Locks]
ASSUME NoWorkerAssumption == NoWorker \notin Workers

VARIABLES
  phase,      (* where each worker is                                       *)
  holder,     (* who has each lock                                          *)
  archive,    (* what is at cached_module_filename: none, partial or whole  *)
  part,       (* and in the file it is first written to, ...-part           *)
  handle,     (* under which name the file is that each worker has open     *)
  zipdata     (* what each worker has of the module                         *)

cacheVars == <<phase, holder, archive, part, handle, zipdata>>

Phases   == {"idle", "look", "wait", "check", "open", "write", "rename", "leave", "read",
             "built", "crashed"}
Contents == {"none", "partial", "whole"}
Handles  == {"none", "part", "archive", "lost"}

CacheTypeOK ==
  /\ phase \in [Workers -> Phases]
  /\ holder \in [Locks -> Workers \cup {NoWorker}]
  /\ archive \in Contents /\ part \in Contents
  /\ handle \in [Workers -> Handles]
  /\ zipdata \in [Workers -> Contents]

CacheInit ==
  /\ phase = [w \in Workers |-> "idle"]
  /\ holder = [l \in Locks |-> NoWorker]
  /\ archive = "none" /\ part = "none"
  /\ handle = [w \in Workers |-> "none"]
  /\ zipdata = [w \in Workers |-> "none"]

Goes(w, to) == phase' = [phase EXCEPT ![w] = to]
Holds(w)    == holder[LockOf[w]] = w
StillHeld(w) == holder
Released(w)  == IF Holds(w) THEN [holder EXCEPT ![LockOf[w]] = NoWorker] ELSE holder

(* A worker that has no archive yet.                                       *)
Begin(w) ==
  /\ Goes(w, "look")
  /\ zipdata' = [zipdata EXCEPT ![w] = "none"]
  /\ UNCHANGED <<holder, archive, part, handle>>

(* Without a lock, the archive may be there already.                       *)
Look(w) ==
  /\ phase[w] = "look"
  /\ Goes(w, IF archive # "none" THEN "read" ELSE "wait")
  /\ UNCHANGED <<holder, archive, part, handle, zipdata>>

Acquire(w) ==
  /\ phase[w] = "wait" /\ holder[LockOf[w]] = NoWorker
  /\ holder' = [holder EXCEPT ![LockOf[w]] = w]
  /\ Goes(w, "check")
  /\ UNCHANGED <<archive, part, handle, zipdata>>

(* Another worker may have built it during the wait.                       *)
Check(w) ==
  /\ phase[w] = "check"
  /\ Goes(w, IF archive # "none" THEN "leave" ELSE "open")
  /\ UNCHANGED <<holder, archive, part, handle, zipdata>>

OpenInPlace(w) ==
  /\ phase[w] = "open"
  /\ archive' = "partial"
  /\ handle' = [handle EXCEPT ![w] = "archive"]
  /\ zipdata' = [zipdata EXCEPT ![w] = "whole"]
  /\ Goes(w, "write")
  /\ UNCHANGED <<holder, part>>
(* The -part file is opened, which empties it,                             *)
Open(w) ==
  /\ phase[w] = "open"
  /\ part' = "partial"
  /\ handle' = [handle EXCEPT ![w] = "part"]
  /\ zipdata' = [zipdata EXCEPT ![w] = "whole"]
  /\ Goes(w, "write")
  /\ UNCHANGED <<holder, archive>>

(* written, wherever a rename has taken it since,                          *)
Write(w) ==
  /\ phase[w] = "write"
  /\ part' = IF handle[w] = "part" THEN "whole" ELSE part
  /\ archive' = IF handle[w] = "archive" THEN "whole" ELSE archive
  /\ handle' = [handle EXCEPT ![w] = "none"]
  /\ Goes(w, "rename")
  /\ UNCHANGED <<holder, zipdata>>

(* and renamed, if nobody has done that.                                   *)
Rename(w) ==
  /\ phase[w] = "rename" /\ part # "none"
  /\ archive' = part /\ part' = "none"
  /\ handle' = [v \in Workers |-> CASE handle[v] = "part"    -> "archive"
                                    [] handle[v] = "archive" -> "lost"
                                    [] OTHER                 -> handle[v]]
  /\ Goes(w, "leave")
  /\ UNCHANGED <<holder, zipdata>>
RenameFails(w) ==
  /\ phase[w] = "rename" /\ part = "none"
  /\ holder' = Released(w)
  /\ Goes(w, "crashed")
  /\ UNCHANGED <<archive, part, handle, zipdata>>

Leave(w) ==
  /\ phase[w] = "leave"
  /\ holder' = Released(w)
  /\ Goes(w, IF zipdata[w] = "none" THEN "read" ELSE "built")
  /\ UNCHANGED <<archive, part, handle, zipdata>>

Read(w) ==
  /\ phase[w] = "read"
  /\ zipdata' = [zipdata EXCEPT ![w] = archive]
  /\ Goes(w, "built")
  /\ UNCHANGED <<holder, archive, part, handle>>

Build(w) == \/ Look(w) \/ Acquire(w) \/ Check(w) \/ Open(w) \/ Write(w)
            \/ Rename(w) \/ RenameFails(w) \/ Leave(w) \/ Read(w)

(* An exception in the worker, as of a timeout, gives back the lock and    *)
(* closes the file.                                                        *)
Interrupt(w) ==
  /\ holder' = Released(w)
  /\ handle' = [handle EXCEPT ![w] = "none"]
  /\ zipdata' = [zipdata EXCEPT ![w] = "none"]
  /\ Goes(w, "idle")
  /\ UNCHANGED <<archive, part>>

(* A worker that is killed gives back nothing.                             *)
Killed(w) ==
  /\ handle' = [handle EXCEPT ![w] = "none"]
  /\ zipdata' = [zipdata EXCEPT ![w] = "none"]
  /\ Goes(w, "idle")
  /\ UNCHANGED <<holder, archive, part>>

(* A worker begins where it has not begun, or has the module.              *)
CacheStep(w) == \/ Begin(w) /\ phase[w] \in {"idle", "built"}
                \/ Build(w) \/ Interrupt(w) \/ Killed(w)

-----------------------------------------------------------------------------
(* Everyone calls the module by the same name, or by names of one lock.    *)
SameLock == \A v, w \in Workers : LockOf[v] = LockOf[w]

(* What a worker has of the module to send to its host is all of it (write *)
(* to temp so that no one looking for the file reads a partially written   *)
(* file, module_common.py says), and nobody finds its -part file gone.     *)
WholeModule ==
  \A w \in Workers : /\ phase[w] = "built" => zipdata[w] = "whole"
                      /\ phase[w] # "crashed"

(* What makes it so when there is one lock: the worker that has it is the  *)
(* only one with a -part file, which is whole when it is renamed.          *)
Inside == {"check", "open", "write", "rename", "leave"}
ArchiveOK ==
  /\ archive # "partial"
  /\ \A w \in Workers :
       /\ phase[w] \in Inside => holder[LockOf[w]] = w
       /\ phase[w] = "read" => archive # "none"
       /\ handle[w] = IF phase[w] = "write" THEN "part" ELSE "none"
       /\ phase[w] = "rename" => part = "whole"
       /\ phase[w] \in {"look", "wait", "check", "open", "read"} => zipdata[w] = "none"
       /\ phase[w] \in {"write", "rename", "built"} => zipdata[w] = "whole"
       /\ phase[w] = "leave" => zipdata[w] = "whole" \/ (zipdata[w] = "none" /\ archive # "none")
       /\ phase[w] # "crashed"

=============================================================================
