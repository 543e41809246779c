---------------------- MODULE PersistentConnection_proofs ----------------------
(***************************************************************************)
(* Proofs about PersistentConnection, for any number of workers: one       *)
(* process when nothing times out, and no stale socket whatever happens.   *)
(***************************************************************************)
EXTENDS PersistentConnection, FiniteSetTheorems, TLAPS

ClientStep(c) == Stub(c) \/ Process(c) \/ TimesOut(c)

-----------------------------------------------------------------------------
(* Type correctness.                                                       *)

(* There is always a file that no worker has open: there is one more than  *)
(* there are workers.                                                      *)
LEMMA NewFileExists ==
  ASSUME ConnectionTypeOK
  PROVE  NewFile \in Files
<1>1. IsFiniteSet(Clients) /\ Cardinality(Clients) \in Nat
  BY ClientsAssumption, FS_CardinalityType
<1>2. IsFiniteSet(Files) /\ Cardinality(Files) = Cardinality(Clients) + 1
  BY <1>1, FS_Interval DEF Files
<1>3. ASSUME \A f \in Files : \E d \in Clients : lockFd[d] = f
      PROVE  FALSE
  <2> DEFINE opener == [f \in Files |-> CHOOSE d \in Clients : lockFd[d] = f]
  <2>1. opener \in [Files -> Clients] /\ \A f \in Files : lockFd[opener[f]] = f
    BY <1>3
  <2>2. Cardinality(Clients) < Cardinality(Files)
    BY <1>1, <1>2
  <2> HIDE DEF opener
  <2>3. PICK f, g \in Files : f # g /\ opener[f] = opener[g]
    BY <1>1, <1>2, <2>1, <2>2, FS_PigeonHole
  <2> QED
    BY <2>1, <2>3
<1> QED
  BY <1>3 DEF NewFile

(* 0 is no file.                                                           *)
LEMMA FilesAreNumbers == Files \subseteq Nat \ {0}
BY ClientsAssumption, FS_CardinalityType DEF Files

(* Every step keeps the types.                                            *)
LEMMA TypeStep ==
  ASSUME ConnectionTypeOK, NEW c \in Clients, ClientStep(c)
  PROVE  ConnectionTypeOK'
<1> USE DEF ConnectionTypeOK, Goto, Calls, lockVars, serverVars, clientVars
<1>1. CASE OpenLock(c)
  BY <1>1, NewFileExists DEF OpenLock
<1>2. CASE UseSocket(c)
  BY <1>2 DEF UseSocket, LockIsFree
<1>3. CASE Fork(c)
  BY <1>3 DEF Fork, LockIsFree
<1>4. CASE ReadStart(c)
  BY <1>4 DEF ReadStart, Unlocks
<1>5. CASE Connect(c)
  BY <1>5 DEF Connect
<1>6. CASE ConnectFails(c)
  BY <1>6 DEF ConnectFails, Fails, Unlocks, Listening
<1>7. CASE ConnectionLost(c)
  BY <1>7 DEF ConnectionLost, Fails, Unlocks
<1>8. CASE Bind(c)
  BY <1>8 DEF Bind
<1>9. CASE StartFails(c)
  BY <1>9 DEF StartFails
<1>10. CASE Listen(c)
  BY <1>10 DEF Listen
<1>11. CASE Respond(c)
  BY <1>11 DEF Respond, Unlocks
<1>12. CASE CommandFails(c)
  BY <1>12 DEF CommandFails, Fails, Unlocks
<1>13. CASE ConnectRaises(c)
  BY <1>13 DEF ConnectRaises
<1>14. CASE Reset(c)
  BY <1>14 DEF Reset
<1>15. CASE CloseSocket(c)
  BY <1>15 DEF CloseSocket
<1>16. CASE RemoveSocket(c)
  BY <1>16 DEF RemoveSocket
<1>17. CASE RemoveLock(c)
  BY <1>17 DEF RemoveLock
<1>18. CASE TimesOut(c)
  BY <1>18 DEF TimesOut
<1>19. CASE \E d \in Clients : Accept(c, d)
  BY <1>19 DEF Accept
<1> QED
  BY <1>1, <1>2, <1>3, <1>4, <1>5, <1>6, <1>7, <1>8, <1>9, <1>10,
     <1>11, <1>12, <1>13, <1>14, <1>15, <1>16, <1>17, <1>18, <1>19
  DEF ClientStep, Stub, Process

-----------------------------------------------------------------------------
(* The strengthening, conjunct by conjunct.                                *)

(* The lock of a file is held by one worker inside the with.             *)
LEMMA LocksStep ==
  ASSUME ConnectionTypeOK, LocksOK, RequestsOK, NEW c \in Clients, ClientStep(c)
  PROVE  LocksOK'
<1> USE DEF ConnectionTypeOK, Goto, Calls, lockVars, serverVars, clientVars, LocksOK
<1>1. CASE OpenLock(c)
  BY <1>1, NewFileExists, FilesAreNumbers DEF OpenLock
<1>2. CASE UseSocket(c)
  BY <1>2 DEF UseSocket, LockIsFree
<1>3. CASE Fork(c)
  BY <1>3 DEF Fork, LockIsFree
<1>4. CASE ReadStart(c)
  BY <1>4 DEF ReadStart, Unlocks
<1>5. CASE Connect(c)
  BY <1>5 DEF Connect
<1>6. CASE ConnectFails(c)
  BY <1>6 DEF ConnectFails, Fails, Unlocks, Listening
<1>7. CASE ConnectionLost(c)
  BY <1>7 DEF ConnectionLost, Fails, Unlocks
<1>8. CASE Bind(c)
  BY <1>8 DEF Bind
<1>9. CASE StartFails(c)
  BY <1>9 DEF StartFails
<1>10. CASE Listen(c)
  BY <1>10 DEF Listen
<1>11. CASE Respond(c)
  BY <1>11 DEF Respond, Unlocks
<1>12. CASE CommandFails(c)
  BY <1>12 DEF CommandFails, Fails, Unlocks
<1>13. CASE ConnectRaises(c)
  BY <1>13 DEF ConnectRaises
<1>14. CASE Reset(c)
  BY <1>14 DEF Reset
<1>15. CASE CloseSocket(c)
  BY <1>15 DEF CloseSocket
<1>16. CASE RemoveSocket(c)
  BY <1>16 DEF RemoveSocket
<1>17. CASE RemoveLock(c)
  BY <1>17 DEF RemoveLock
<1>18. CASE TimesOut(c)
  BY <1>18 DEF TimesOut
<1>19. CASE \E d \in Clients : Accept(c, d)
  BY <1>19 DEF Accept
<1> QED
  BY <1>1, <1>2, <1>3, <1>4, <1>5, <1>6, <1>7, <1>8, <1>9, <1>10,
     <1>11, <1>12, <1>13, <1>14, <1>15, <1>16, <1>17, <1>18, <1>19
  DEF ClientStep, Stub, Process

(* An answer goes to a worker that waits for it.                          *)
LEMMA RequestsStep ==
  ASSUME ConnectionTypeOK, RequestsOK, NEW c \in Clients, ClientStep(c)
  PROVE  RequestsOK'
<1> USE DEF ConnectionTypeOK, Goto, Calls, lockVars, serverVars, clientVars, RequestsOK, Started
<1>1. CASE OpenLock(c)
  BY <1>1 DEF OpenLock
<1>2. CASE UseSocket(c)
  BY <1>2 DEF UseSocket, LockIsFree
<1>3. CASE Fork(c)
  BY <1>3 DEF Fork, LockIsFree
<1>4. CASE ReadStart(c)
  BY <1>4 DEF ReadStart, Unlocks
<1>5. CASE Connect(c)
  BY <1>5, ClientsAssumption DEF Connect
<1>6. CASE ConnectFails(c)
  BY <1>6 DEF ConnectFails, Fails, Unlocks, Listening
<1>7. CASE ConnectionLost(c)
  BY <1>7 DEF ConnectionLost, Fails, Unlocks
<1>8. CASE Bind(c)
  BY <1>8 DEF Bind
<1>9. CASE StartFails(c)
  BY <1>9 DEF StartFails
<1>10. CASE Listen(c)
  BY <1>10 DEF Listen
<1>11. CASE Respond(c)
  BY <1>11 DEF Respond, Unlocks
<1>12. CASE CommandFails(c)
  BY <1>12 DEF CommandFails, Fails, Unlocks
<1>13. CASE ConnectRaises(c)
  BY <1>13 DEF ConnectRaises
<1>14. CASE Reset(c)
  BY <1>14 DEF Reset
<1>15. CASE CloseSocket(c)
  BY <1>15 DEF CloseSocket
<1>16. CASE RemoveSocket(c)
  BY <1>16 DEF RemoveSocket
<1>17. CASE RemoveLock(c)
  BY <1>17 DEF RemoveLock
<1>18. CASE TimesOut(c)
  BY <1>18 DEF TimesOut
<1>19. CASE \E d \in Clients : Accept(c, d)
  BY <1>19 DEF Accept
<1> QED
  BY <1>1, <1>2, <1>3, <1>4, <1>5, <1>6, <1>7, <1>8, <1>9, <1>10,
     <1>11, <1>12, <1>13, <1>14, <1>15, <1>16, <1>17, <1>18, <1>19
  DEF ClientStep, Stub, Process

(* Who binds the socket passes the step that removes it.                  *)
LEMMA SocketStep ==
  ASSUME ConnectionTypeOK, SocketOwned, NEW c \in Clients, ClientStep(c)
  PROVE  SocketOwned'
<1> USE DEF ConnectionTypeOK, Goto, Calls, lockVars, serverVars, clientVars, SocketOwned
<1>1. CASE OpenLock(c)
  BY <1>1 DEF OpenLock
<1>2. CASE UseSocket(c)
  BY <1>2 DEF UseSocket, LockIsFree
<1>3. CASE Fork(c)
  BY <1>3 DEF Fork, LockIsFree
<1>4. CASE ReadStart(c)
  BY <1>4 DEF ReadStart, Unlocks
<1>5. CASE Connect(c)
  BY <1>5 DEF Connect
<1>6. CASE ConnectFails(c)
  BY <1>6 DEF ConnectFails, Fails, Unlocks, Listening
<1>7. CASE ConnectionLost(c)
  BY <1>7 DEF ConnectionLost, Fails, Unlocks
<1>8. CASE Bind(c)
  BY <1>8 DEF Bind
<1>9. CASE StartFails(c)
  BY <1>9 DEF StartFails
<1>10. CASE Listen(c)
  BY <1>10 DEF Listen
<1>11. CASE Respond(c)
  BY <1>11 DEF Respond, Unlocks
<1>12. CASE CommandFails(c)
  BY <1>12 DEF CommandFails, Fails, Unlocks
<1>13. CASE ConnectRaises(c)
  BY <1>13 DEF ConnectRaises
<1>14. CASE Reset(c)
  BY <1>14 DEF Reset
<1>15. CASE CloseSocket(c)
  BY <1>15 DEF CloseSocket
<1>16. CASE RemoveSocket(c)
  BY <1>16 DEF RemoveSocket
<1>17. CASE RemoveLock(c)
  BY <1>17 DEF RemoveLock
<1>18. CASE TimesOut(c)
  BY <1>18 DEF TimesOut
<1>19. CASE \E d \in Clients : Accept(c, d)
  BY <1>19 DEF Accept
<1> QED
  BY <1>1, <1>2, <1>3, <1>4, <1>5, <1>6, <1>7, <1>8, <1>9, <1>10,
     <1>11, <1>12, <1>13, <1>14, <1>15, <1>16, <1>17, <1>18, <1>19
  DEF ClientStep, Stub, Process

(* One lock file excludes a second start, and the process answers all.    *)
LEMMA CalmStep ==
  ASSUME ConnectionInv, NEW c \in Clients, ClientStep(c)
  PROVE  CalmOK'
<1> USE DEF ConnectionTypeOK, Goto, Calls, lockVars, serverVars, clientVars, ConnectionInv,
            LocksOK, RequestsOK, SocketOwned, CalmOK, Started, Serving, Over
<1>1. CASE OpenLock(c)
  BY <1>1, NewFileExists, FilesAreNumbers DEF OpenLock
<1>2. CASE UseSocket(c)
  BY <1>2 DEF UseSocket, LockIsFree
<1>3. CASE Fork(c)
  <2>1. calm => \A s \in Clients : server[s] = "none"
    <3> SUFFICES ASSUME calm, NEW s \in Clients, server[s] # "none" PROVE FALSE
      OBVIOUS
    <3>1. server[s] \notin {"bound", "idle", "busy"}
      BY <1>3, ClientsAssumption DEF Fork
    <3>2. server[s] \notin {"closing", "closed", "unlocking", "gone"}
      BY <1>3 DEF Fork
    <3>3. server[s] # "starting"
      BY <1>3 DEF Fork, LockIsFree
    <3> QED
      BY <3>1, <3>2, <3>3
  <2> QED
    BY <1>3, <2>1 DEF Fork
<1>4. CASE ReadStart(c)
  BY <1>4 DEF ReadStart, Unlocks
<1>5. CASE Connect(c)
  BY <1>5, ClientsAssumption DEF Connect
<1>6. CASE ConnectFails(c)
  BY <1>6, ClientsAssumption DEF ConnectFails, Fails, Unlocks, Listening
<1>7. CASE ConnectionLost(c)
  BY <1>7 DEF ConnectionLost, Fails, Unlocks
<1>8. CASE Bind(c)
  BY <1>8 DEF Bind
<1>9. CASE StartFails(c)
  BY <1>9 DEF StartFails
<1>10. CASE Listen(c)
  BY <1>10 DEF Listen
<1>11. CASE Respond(c)
  BY <1>11 DEF Respond, Unlocks
<1>12. CASE CommandFails(c)
  BY <1>12 DEF CommandFails, Fails, Unlocks
<1>13. CASE ConnectRaises(c)
  BY <1>13 DEF ConnectRaises
<1>14. CASE Reset(c)
  BY <1>14 DEF Reset
<1>15. CASE CloseSocket(c)
  BY <1>15 DEF CloseSocket
<1>16. CASE RemoveSocket(c)
  BY <1>16 DEF RemoveSocket
<1>17. CASE RemoveLock(c)
  BY <1>17 DEF RemoveLock
<1>18. CASE TimesOut(c)
  BY <1>18 DEF TimesOut
<1>19. CASE \E d \in Clients : Accept(c, d)
  BY <1>19 DEF Accept
<1> QED
  BY <1>1, <1>2, <1>3, <1>4, <1>5, <1>6, <1>7, <1>8, <1>9, <1>10,
     <1>11, <1>12, <1>13, <1>14, <1>15, <1>16, <1>17, <1>18, <1>19
  DEF ClientStep, Stub, Process

-----------------------------------------------------------------------------
(* The theorems.                                                           *)

(* The inductive invariant holds in every reachable state.                 *)
THEOREM ConnectionInvariant == Spec => []ConnectionInv
<1>1. Init => ConnectionInv
  BY ClientsAssumption DEF Init, ConnectionInv, ConnectionTypeOK, LocksOK, RequestsOK,
     SocketOwned, CalmOK, Calls, Started, Serving
<1>2. ConnectionInv /\ [Next]_vars => ConnectionInv'
  <2> SUFFICES ASSUME ConnectionInv, [Next]_vars PROVE ConnectionInv'
    OBVIOUS
  <2>1. ASSUME NEW c \in Clients, ClientStep(c) PROVE ConnectionInv'
    BY <2>1, TypeStep, LocksStep, RequestsStep, SocketStep, CalmStep DEF ConnectionInv
  <2>2. CASE UNCHANGED vars
    BY <2>2 DEF vars, lockVars, serverVars, clientVars, ConnectionInv, ConnectionTypeOK,
       LocksOK, RequestsOK, SocketOwned, CalmOK, Started, Serving, Over
  <2> QED
    BY <2>1, <2>2 DEF Next, ClientStep
<1> QED
  BY <1>1, <1>2, PTL DEF Spec

(* Every variable keeps its type: there is always a file for a worker to   *)
(* create, and no process is ever in two places.                           *)
THEOREM ConnectionTypeCorrect == Spec => []ConnectionTypeOK
BY ConnectionInvariant, PTL DEF ConnectionInv

(* When nothing times out, the lock file lets one worker start a process   *)
(* and leads the others to it, and no task fails (main's with file_lock).  *)
THEOREM OneProcessStarted == Spec => []OneProcess
<1>1. ConnectionInv => OneProcess
  BY DEF ConnectionInv, CalmOK, OneProcess
<1> QED
  BY <1>1, ConnectionInvariant, PTL

(* The shutdown of the last process leaves no socket behind, whichever     *)
(* process removed whose socket before (ConnectionProcess.shutdown).       *)
THEOREM SocketsRemoved == Spec => []NoStaleSocket
<1>1. ConnectionInv => NoStaleSocket
  BY DEF ConnectionInv, ConnectionTypeOK, SocketOwned, NoStaleSocket
<1> QED
  BY <1>1, ConnectionInvariant, PTL

=============================================================================
