------------------------- MODULE PersistentConnection -------------------------
(***************************************************************************)
(* Workers whose tasks go to one network device share a connection: a      *)
(* process behind a socket, which the first of them starts, under a lock   *)
(* file, and which ends when it is idle, is reset or cannot connect.       *)
(*                                                                         *)
(*   lib/distronode/cli/scripts/distronode_connection_cli_stub.py          *)
(*   lib/distronode/module_utils/connection.py      Connection             *)
(*   lib/distronode/executor/task_executor.py       start_connection       *)
(*                                                                         *)
(* Each worker runs the stub once and then one command.  The lock file and *)
(* the socket are entries in a directory: the file behind the first may be *)
(* unlinked while it is open, and the second belongs to the process that   *)
(* bound it.  The calls set_options, update_play_context and               *)
(* set_check_prompt are one call here; pop_messages, which is made only if *)
(* there is a socket, and the command another.                             *)
(***************************************************************************)
EXTENDS Naturals, FiniteSets

CONSTANTS
  Clients,      (* workers; the connection process a worker forks is its own *)
  NoClient      (* no socket, or nobody served                              *)

ASSUME ClientsAssumption == IsFiniteSet(Clients) /\ NoClient \notin Clients

VARIABLES
  calm,         (* nothing times out and nothing fails to start             *)
  lockFile,     (* the file at lock_path, 0 for none                        *)
  lockFd,       (* the file a worker has open                               *)
  locked,       (* the workers that hold the lock of their file             *)
  socket,       (* who bound the socket at socket_path                      *)
  server,       (* where a connection process is                            *)
  failed,       (* connection processes that have reported an error         *)
  served,       (* the worker whose request a process is handling           *)
  pc,           (* where a worker is                                        *)
  peer          (* the process a worker's request has reached               *)

lockVars   == <<lockFile, lockFd, locked>>
serverVars == <<socket, server, failed, served>>
clientVars == <<pc, peer>>
vars == <<calm, lockVars, serverVars, clientVars>>

Files == 1..(Cardinality(Clients) + 1)
Calls == {"options", "command"}          (* requests to the process          *)

Init ==
  /\ calm \in BOOLEAN
  /\ lockFile = 0 /\ lockFd = [c \in Clients |-> 0] /\ locked = {}
  /\ socket = NoClient
  /\ server = [c \in Clients |-> "none"] /\ failed = {}
  /\ served = [c \in Clients |-> NoClient]
  /\ pc = [c \in Clients |-> "open"] /\ peer = [c \in Clients |-> NoClient]

Goto(c, l) == pc' = [pc EXCEPT ![c] = l]
Over(c)    == pc[c] \in {"done", "failed"}
Listening(s) == server[s] \in {"idle", "busy", "closing"} /\ s \notin failed

-----------------------------------------------------------------------------
(* The stub.                                                               *)

(* os.open with O_CREAT: the file that is there, or a new one.             *)
NewFile == CHOOSE f \in Files : \A d \in Clients : lockFd[d] # f

OpenLock(c) ==
  /\ pc[c] = "open"
  /\ lockFile' = IF lockFile # 0 THEN lockFile ELSE NewFile
  /\ lockFd' = [lockFd EXCEPT ![c] = lockFile']
  /\ Goto(c, "lock")
  /\ UNCHANGED <<calm, locked, serverVars, peer>>

TakesAnyway(c) == TRUE
LockIsFree(c)  == \A d \in locked : lockFd[d] # lockFd[c]

(* With the lock a worker looks for the socket: it uses the one there is,  *)
(* or forks a process.                                                     *)
UseSocket(c) ==
  /\ pc[c] = "lock" /\ LockIsFree(c) /\ socket # NoClient
  /\ locked' = locked \cup {c}
  /\ Goto(c, "options")
  /\ UNCHANGED <<calm, lockFile, lockFd, serverVars, peer>>

Fork(c) ==
  /\ pc[c] = "lock" /\ LockIsFree(c) /\ socket = NoClient
  /\ locked' = locked \cup {c}
  /\ server' = [server EXCEPT ![c] = "starting"]
  /\ Goto(c, "read")
  /\ UNCHANGED <<calm, lockFile, lockFd, socket, failed, served, peer>>

(* The end of the with, or of the worker: the lock is free again.          *)
Unlocks(c) == locked' = locked \ {c} /\ lockFd' = [lockFd EXCEPT ![c] = 0]

(* What the process reports of its start; an error fails the task.         *)
ReadStart(c) ==
  /\ pc[c] = "read" /\ server[c] \notin {"starting", "bound"}
  /\ Unlocks(c)
  /\ Goto(c, IF c \in failed THEN "failed" ELSE "command")
  /\ UNCHANGED <<calm, lockFile, serverVars, peer>>

-----------------------------------------------------------------------------
(* A request: Connection.send.                                             *)

Connect(c) ==
  /\ pc[c] \in Calls /\ peer[c] = NoClient
  /\ socket # NoClient /\ Listening(socket)
  /\ peer' = [peer EXCEPT ![c] = socket]
  /\ UNCHANGED <<calm, lockVars, serverVars, pc>>

(* Without an answer a request raises, and the worker's task fails.        *)
Fails(c) ==
  /\ Goto(c, "failed")
  /\ peer' = [peer EXCEPT ![c] = NoClient]
  /\ Unlocks(c)
  /\ UNCHANGED <<calm, lockFile>>

ConnectFails(c) ==
  /\ pc[c] \in Calls /\ peer[c] = NoClient
  /\ socket # NoClient => ~Listening(socket)
  /\ Fails(c) /\ UNCHANGED serverVars

(* A request that waits is lost with the listening socket, one that was    *)
(* accepted with the process.                                              *)
ConnectionLost(c) ==
  /\ peer[c] # NoClient
  /\ server[peer[c]] \in IF served[peer[c]] = c THEN {"gone"} ELSE {"closed", "unlocking", "gone"}
  /\ Fails(c) /\ UNCHANGED serverVars

-----------------------------------------------------------------------------
(* The connection process.                                                 *)

(* bind fails when there is a socket at the path.                          *)
Bind(s) ==
  /\ server[s] = "starting"
  /\ IF socket = NoClient
     THEN socket' = s /\ server' = [server EXCEPT ![s] = "bound"] /\ UNCHANGED failed
     ELSE /\ failed' = failed \cup {s} /\ server' = [server EXCEPT ![s] = "closing"]
          /\ UNCHANGED socket
  /\ UNCHANGED <<calm, lockVars, served, clientVars>>

(* The connection plugin or its options are not to be had.                 *)
StartFails(s) ==
  /\ server[s] = "starting" /\ ~calm
  /\ failed' = failed \cup {s}
  /\ server' = [server EXCEPT ![s] = "closing"]
  /\ UNCHANGED <<calm, lockVars, socket, served, clientVars>>

Listen(s) ==
  /\ server[s] = "bound"
  /\ server' = [server EXCEPT ![s] = "idle"]
  /\ UNCHANGED <<calm, lockVars, socket, failed, served, clientVars>>

Accept(s, c) ==
  /\ server[s] = "idle" /\ peer[c] = s
  /\ server' = [server EXCEPT ![s] = "busy"]
  /\ served' = [served EXCEPT ![s] = c]
  /\ UNCHANGED <<calm, lockVars, socket, failed, clientVars>>

(* The answer: the worker releases the lock and sends its command, or has  *)
(* its result.                                                             *)
Respond(s) ==
  /\ server[s] = "busy"
  /\ LET c == served[s]
     IN /\ Unlocks(c)
        /\ Goto(c, IF pc[c] = "options" THEN "command" ELSE "done")
        /\ peer' = [peer EXCEPT ![c] = NoClient]
  /\ server' = [server EXCEPT ![s] = "idle"]
  /\ served' = [served EXCEPT ![s] = NoClient]
  /\ UNCHANGED <<calm, lockFile, socket, failed>>

(* The call raises, after command_timeout too: JsonRpcServer makes an error *)
(* of it, which fails the worker's task, and the process goes on.          *)
CommandFails(s) ==
  /\ ~calm /\ server[s] = "busy"
  /\ Fails(served[s])
  /\ server' = [server EXCEPT ![s] = "idle"]
  /\ served' = [served EXCEPT ![s] = NoClient]
  /\ UNCHANGED <<socket, failed>>

(* Outside the call, when the device is connected to for a first command,  *)
(* an exception ends the process.                                          *)
ConnectRaises(s) ==
  /\ ~calm /\ server[s] = "busy" /\ pc[served[s]] = "command"
  /\ server' = [server EXCEPT ![s] = "closing"]
  /\ UNCHANGED <<calm, lockVars, socket, failed, served, clientVars>>

(* connect_timeout, while it waits; a meta: reset_connection is the same.  *)
TimesOut(s) ==
  /\ ~calm /\ server[s] = "idle"
  /\ server' = [server EXCEPT ![s] = "closing"]
  /\ UNCHANGED <<calm, lockVars, socket, failed, served, clientVars>>

(* strategy.cleanup resets the connections when all the tasks are over; a  *)
(* process whose socket it cannot reach ends by its own time.              *)
Reset(s) ==
  /\ server[s] = "idle" /\ socket = s /\ \A c \in Clients : Over(c)
  /\ server' = [server EXCEPT ![s] = "closing"]
  /\ UNCHANGED <<calm, lockVars, socket, failed, served, clientVars>>

(* shutdown, in four steps: close if there is a socket at the path, remove *)
(* what is there then, and remove the lock file that is there at last.     *)
WaitsAgain(s) ==
  /\ server[s] = "closing"
  /\ server' = [server EXCEPT ![s] = IF socket # NoClient THEN "closed" ELSE "idle"]
  /\ UNCHANGED <<calm, lockVars, socket, failed, served, clientVars>>
CloseSocket(s) ==
  /\ server[s] = "closing"
  /\ server' = [server EXCEPT ![s] = IF socket # NoClient THEN "closed" ELSE "unlocking"]
  /\ UNCHANGED <<calm, lockVars, socket, failed, served, clientVars>>

LeavesSocket(s) ==
  /\ server[s] = "closed"
  /\ server' = [server EXCEPT ![s] = "unlocking"]
  /\ UNCHANGED <<calm, lockVars, socket, failed, served, clientVars>>
RemoveSocket(s) ==
  /\ server[s] = "closed"
  /\ socket' = NoClient
  /\ server' = [server EXCEPT ![s] = "unlocking"]
  /\ UNCHANGED <<calm, lockVars, failed, served, clientVars>>

RemoveLock(s) ==
  /\ server[s] = "unlocking"
  /\ lockFile' = 0
  /\ server' = [server EXCEPT ![s] = "gone"]
  /\ UNCHANGED <<calm, lockFd, locked, socket, failed, served, clientVars>>

-----------------------------------------------------------------------------
Stub(c) == \/ OpenLock(c) \/ UseSocket(c) \/ Fork(c) \/ ReadStart(c)
           \/ Connect(c) \/ ConnectFails(c) \/ ConnectionLost(c)

Process(s) == \/ Bind(s) \/ StartFails(s) \/ Listen(s) \/ Respond(s)
              \/ CommandFails(s) \/ ConnectRaises(s)
              \/ \E c \in Clients : Accept(s, c)
              \/ Reset(s) \/ CloseSocket(s) \/ RemoveSocket(s) \/ RemoveLock(s)

Next == \/ \E c \in Clients : Stub(c) \/ Process(c) \/ TimesOut(c)
        \/ (\A c \in Clients : Over(c) /\ server[c] \in {"none", "gone"}) /\ UNCHANGED vars

Spec == Init /\ [][Next]_vars

(* The stub runs on, and a process answers or shuts down: a device that    *)
(* does not answer runs into command_timeout, a device that cannot be      *)
(* reached raises.  An idle process is ended by its alarm.                 *)
Fairness == \A c \in Clients : /\ WF_vars(Stub(c)) /\ WF_vars(Process(c))
                               /\ WF_vars(TimesOut(c))

FairSpec == Spec /\ Fairness

-----------------------------------------------------------------------------
(* Properties.                                                             *)

ConnectionTypeOK ==
  /\ calm \in BOOLEAN
  /\ lockFile \in {0} \cup Files /\ lockFd \in [Clients -> {0} \cup Files]
  /\ locked \subseteq Clients
  /\ socket \in Clients \cup {NoClient} /\ failed \subseteq Clients
  /\ server \in [Clients -> {"none", "starting", "bound", "idle", "busy", "closing",
                            "closed", "unlocking", "gone"}]
  /\ served \in [Clients -> Clients \cup {NoClient}]
  /\ pc \in [Clients -> {"open", "lock", "read", "done", "failed"} \cup Calls]
  /\ peer \in [Clients -> Clients \cup {NoClient}]

Started(s) == server[s] # "none"
Serving(s) == server[s] \in {"idle", "busy"}

(* However the workers come to the lock, one process is started for all of *)
(* them, and no task fails, when nothing times out meanwhile.              *)
OneProcess ==
  calm => /\ \A s, t \in Clients : Started(s) /\ Started(t) => s = t
          /\ failed = {} /\ \A c \in Clients : pc[c] # "failed"

(* When the last process is gone it leaves no socket that nobody listens   *)
(* to, also not after a race of two starts: a later task starts anew.      *)
NoStaleSocket ==
  (\A s \in Clients : server[s] \in {"none", "gone"}) => socket = NoClient

(* Every task comes to its end and every process too, also one whose       *)
(* socket another has removed; nobody waits for ever for a lock.           *)
AllComeToEnd ==
  <>(\A c \in Clients : Over(c) /\ server[c] \in {"none", "gone"})

(* A connection persists: a process that serves can be reached at the path *)
(* until its own shutdown.                                                 *)
KeepsItsSocket == \A s \in Clients : Serving(s) => socket = s

-----------------------------------------------------------------------------
(* What makes OneProcess and NoStaleSocket inductive.                      *)

(* Who is inside the with, and whose file: two are inside only when their  *)
(* files differ.                                                           *)
LocksOK ==
  /\ locked = {c \in Clients : pc[c] \in {"read", "options"}}
  /\ \A c \in Clients : lockFd[c] # 0 <=> pc[c] \in {"lock", "read", "options"}
  /\ \A c, d \in locked : lockFd[c] = lockFd[d] => c = d

(* A request has a worker that waits for it, and so has a busy process.    *)
RequestsOK ==
  /\ \A c \in Clients : peer[c] # NoClient => pc[c] \in Calls
  /\ \A s \in Clients : server[s] = "busy" => served[s] \in Clients /\ peer[served[s]] = s
  /\ \A c \in Clients : pc[c] = "read" => Started(c)

(* A socket has a process that will come to remove it.                     *)
SocketOwned ==
  socket # NoClient => server[socket] \in {"bound", "idle", "busy", "closing", "closed"}

(* While nothing times out there is one lock file until all tasks are over *)
(* and one process, which owns the socket and answers.                     *)
CalmOK ==
  calm =>
    /\ failed = {} /\ \A c \in Clients : pc[c] # "failed"
    /\ \A c \in Clients : lockFd[c] # 0 => lockFd[c] = lockFile
    /\ \A s, t \in Clients : Started(s) /\ Started(t) => s = t
    /\ \A s \in Clients : server[s] = "starting" => pc[s] = "read" /\ socket = NoClient
    /\ \A s \in Clients : server[s] = "bound" => pc[s] = "read"
    /\ \A s \in Clients : server[s] \in {"bound", "idle", "busy"} => socket = s
    /\ \A s \in Clients : server[s] \in {"closing", "closed", "unlocking", "gone"} =>
         \A c \in Clients : Over(c)
    /\ \A c \in Clients : pc[c] \in Calls => \E s \in Clients : Serving(s)

ConnectionInv == ConnectionTypeOK /\ LocksOK /\ RequestsOK /\ SocketOwned /\ CalmOK

=============================================================================
