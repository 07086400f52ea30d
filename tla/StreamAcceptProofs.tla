------------------------- MODULE StreamAcceptProofs -------------------------
(***************************************************************************)
(* Proofs about StreamAccept, for any number of connections, devices and   *)
(* packets.  The loop and the tasks write busy, active, aborted and the    *)
(* slot without a common lock; AcceptInv says what each of them may find   *)
(* at each of the loop's steps.                                            *)
(***************************************************************************)
EXTENDS StreamAccept, TLAPS

Serves == {"setup", "select", "evict", "admit", "store"}

(* The newest connection is spawned in Admit, and has no task before. *)
Spawned ==
  /\ \A c \in Conns : task[c] # "none" => c \leq conns
  /\ pc = "setup" => conns = 0
  /\ pc \in {"evict", "admit"} =>
       conns # 0 /\ task[conns] = "none"
  /\ pc = "store" => conns # 0

(* The handle the loop holds: of the newest connection, of the one before it
   while that is evicted, of none until the new one is stored. *)
HeldHandle ==
  /\ pc = "select" => active \in {0, conns}
  /\ pc = "evict" => active < conns
  /\ pc \in {"setup", "admit", "store"} => active = 0
  /\ pc = "store" => busy

(* Who is told to go: while the loop serves, connections that have a
   successor; of those that are read, all but the one whose handle is held
   or about to be. *)
ToldToGo ==
  /\ pc \in Serves => \A c \in Conns : aborted[c] => c < conns
  /\ \A c \in Conns :
       Serving(c) /\ ~aborted[c] => c = active \/ (pc = "store" /\ c = conns)

(* What the slot shows is the newest connection's device, and its task has
   not yet passed the code that clears the slot. *)
Shown ==
  pc \in {"setup", "select", "store"} /\ slot # NoDevice =>
    /\ conns # 0 /\ slot = label[conns]
    /\ task[conns] \notin {"none", "finished"}

(* The stats line is taken when every task is gone. *)
Final == pc = "done" => Joined

AcceptInv ==
  TypeOK /\ Spawned /\ HeldHandle /\ ToldToGo /\ Shown /\ Final

-----------------------------------------------------------------------------
USE BoundsAssumption, NoDeviceAssumption
    DEF Conns, Serves, Serving, loopVars

(* At first nothing is accepted. *)
LEMMA AcceptInit == Init => AcceptInv
<1> SUFFICES ASSUME Init PROVE AcceptInv
  OBVIOUS
<1> USE DEF Init
<1>1. quit \in BOOLEAN /\ busy \in BOOLEAN /\ aborted \in [Conns -> BOOLEAN]
  OBVIOUS
<1>2. TypeOK
  BY <1>1 DEF TypeOK, TaskStates
<1>3. Spawned /\ HeldHandle /\ ToldToGo /\ Shown /\ Final
  BY DEF Spawned, HeldHandle, ToldToGo, Shown, Final
<1> QED
  BY <1>2, <1>3 DEF AcceptInv

(* The loop begins, or fails to: nothing has been accepted. *)
LEMMA RegisterKeeps ==
  ASSUME AcceptInv, Register \/ SetupFails
  PROVE  AcceptInv'
<1> USE DEF AcceptInv, TypeOK, Register, SetupFails
<1>1. TypeOK'
  BY DEF TaskStates, Spawned, HeldHandle
<1>2. Spawned' /\ HeldHandle'
  BY DEF Spawned, HeldHandle
<1>3. ToldToGo'
  BY DEF Spawned, HeldHandle, ToldToGo
<1>4. Shown' /\ Final'
  BY DEF Spawned, HeldHandle, ToldToGo, Shown, Final,
         Joined
<1> QED
  BY <1>1, <1>2, <1>3, <1>4

(* A connection arrives.  If none is served, none is held. *)
LEMMA AcceptKeeps ==
  ASSUME AcceptInv, NEW d \in Devices, Accept(d)
  PROVE  AcceptInv'
<1> USE DEF AcceptInv, TypeOK, Accept, Arrives
<1>1. TypeOK'
  BY DEF TaskStates, Spawned, HeldHandle
<1>2. Spawned' /\ HeldHandle'
  BY DEF Spawned, HeldHandle
<1>3. ToldToGo'
  BY DEF Spawned, HeldHandle, ToldToGo
<1>4. Shown' /\ Final'
  BY DEF Spawned, HeldHandle, ToldToGo, Shown, Final,
         Joined
<1> QED
  BY <1>1, <1>2, <1>3, <1>4

(* The one before it is told to go. *)
LEMMA EvictKeeps ==
  ASSUME AcceptInv, Evict
  PROVE  AcceptInv'
<1> USE DEF AcceptInv, TypeOK, Evict, AbortActive
<1>1. busy' \in BOOLEAN /\ aborted' \in [Conns -> BOOLEAN]
  OBVIOUS
<1>2. TypeOK'
  BY <1>1 DEF TaskStates, Spawned, HeldHandle
<1>3. Spawned' /\ HeldHandle'
  BY DEF Spawned, HeldHandle
<1>4. ToldToGo'
  BY DEF Spawned, HeldHandle, ToldToGo
<1>5. Shown' /\ Final'
  BY DEF Spawned, HeldHandle, ToldToGo, Shown, Final,
         Joined
<1> QED
  BY <1>2, <1>3, <1>4, <1>5

(* The new one takes the slot and is spawned. *)
LEMMA AdmitKeeps ==
  ASSUME AcceptInv, Admit
  PROVE  AcceptInv'
<1> USE DEF AcceptInv, TypeOK, Admit
<1>1. TypeOK'
  BY DEF TaskStates, Spawned, HeldHandle
<1>2. Spawned' /\ HeldHandle'
  BY DEF Spawned, HeldHandle
<1>3. ToldToGo'
  BY DEF Spawned, HeldHandle, ToldToGo
<1>4. Shown' /\ Final'
  BY DEF Spawned, HeldHandle, ToldToGo, Shown, Final,
         Joined
<1> QED
  BY <1>1, <1>2, <1>3, <1>4

(* Its handle is held. *)
LEMMA StoreKeeps ==
  ASSUME AcceptInv, Store
  PROVE  AcceptInv'
<1> USE DEF AcceptInv, TypeOK, Store, AbortAll
<1>1. TypeOK'
  BY DEF TaskStates, Spawned, HeldHandle
<1>2. Spawned' /\ HeldHandle'
  BY DEF Spawned, HeldHandle
<1>3. ToldToGo'
  BY DEF Spawned, HeldHandle, ToldToGo
<1>4. Shown' /\ Final'
  BY DEF Spawned, HeldHandle, ToldToGo, Shown, Final,
         Joined
<1> QED
  BY <1>1, <1>2, <1>3, <1>4

(* Stop sets a flag that only the loop acts on. *)
LEMMA StopKeeps ==
  ASSUME AcceptInv, Stop
  PROVE  AcceptInv'
<1> USE DEF AcceptInv, TypeOK, Stop
<1>1. TypeOK'
  BY DEF TaskStates, Spawned, HeldHandle
<1>2. Spawned' /\ HeldHandle'
  BY DEF Spawned, HeldHandle
<1>3. ToldToGo'
  BY DEF Spawned, HeldHandle, ToldToGo
<1>4. Shown' /\ Final'
  BY DEF Spawned, HeldHandle, ToldToGo, Shown, Final,
         Joined
<1> QED
  BY <1>1, <1>2, <1>3, <1>4

(* The loop ends, and tells every task to go. *)
LEMMA EndsKeeps ==
  ASSUME AcceptInv, SeeQuit \/ SourceEnds \/ AcceptFails
  PROVE  AcceptInv'
<1> USE DEF AcceptInv, TypeOK, SeeQuit, SourceEnds, AcceptFails, AbortAll
<1>1. TypeOK'
  BY DEF TaskStates, Spawned, HeldHandle
<1>2. Spawned' /\ HeldHandle'
  BY DEF Spawned, HeldHandle
<1>3. ToldToGo'
  BY DEF Spawned, HeldHandle, ToldToGo
<1>4. Shown' /\ Final'
  BY DEF Spawned, HeldHandle, ToldToGo, Shown, Final,
         Joined
<1> QED
  BY <1>1, <1>2, <1>3, <1>4

(* Every task is gone. *)
LEMMA FinishKeeps ==
  ASSUME AcceptInv, Finish
  PROVE  AcceptInv'
<1> USE DEF AcceptInv, TypeOK, Finish
<1>1. TypeOK'
  BY DEF TaskStates, Spawned, HeldHandle
<1>2. Spawned' /\ HeldHandle'
  BY DEF Spawned, HeldHandle
<1>3. ToldToGo'
  BY DEF Spawned, HeldHandle, ToldToGo
<1>4. Shown' /\ Final'
  BY DEF Spawned, HeldHandle, ToldToGo, Shown, Final,
         Joined
<1> QED
  BY <1>1, <1>2, <1>3, <1>4

(* A task that is not cancelled goes on. *)
LEMMA WakeKeeps ==
  ASSUME AcceptInv, NEW c \in Conns, Wake(c)
  PROVE  AcceptInv'
<1> USE DEF AcceptInv, TypeOK, Wake, Becomes, Awaiting
<1>1. TypeOK'
  BY DEF TaskStates, Spawned, HeldHandle
<1>2. Spawned' /\ HeldHandle'
  BY DEF Spawned, HeldHandle
<1>3. ToldToGo'
  BY DEF Spawned, HeldHandle, ToldToGo
<1>4. Shown' /\ Final'
  BY DEF Spawned, HeldHandle, ToldToGo, Shown, Final,
         Joined
<1> QED
  BY <1>1, <1>2, <1>3, <1>4

(* A cancelled task is gone: it is not the newest while the loop serves. *)
LEMMA CancelKeeps ==
  ASSUME AcceptInv, NEW c \in Conns, Cancel(c)
  PROVE  AcceptInv'
<1> USE DEF AcceptInv, TypeOK, Cancel, Becomes, Awaiting
<1>1. TypeOK'
  BY DEF TaskStates, Spawned, HeldHandle
<1>2. Spawned' /\ HeldHandle'
  BY DEF Spawned, HeldHandle
<1>3. ToldToGo'
  BY DEF Spawned, HeldHandle, ToldToGo
<1>4. Shown' /\ Final'
  BY DEF Spawned, HeldHandle, ToldToGo, Shown, Final,
         Joined
<1> QED
  BY <1>1, <1>2, <1>3, <1>4

(* A packet changes the counters only. *)
LEMMA IngestKeeps ==
  ASSUME AcceptInv, NEW c \in Conns, Ingest(c)
  PROVE  AcceptInv'
<1> USE DEF AcceptInv, TypeOK, Ingest
<1>1. TypeOK'
  BY DEF TaskStates, Spawned, HeldHandle
<1>2. Spawned' /\ HeldHandle'
  BY DEF Spawned, HeldHandle
<1>3. ToldToGo'
  BY DEF Spawned, HeldHandle, ToldToGo
<1>4. Shown' /\ Final'
  BY DEF Spawned, HeldHandle, ToldToGo, Shown, Final,
         Joined
<1> QED
  BY <1>1, <1>2, <1>3, <1>4

(* A task parks, or its stream is over. *)
LEMMA PollKeeps ==
  ASSUME AcceptInv,
         NEW c \in Conns, Park(c) \/ EndStream(c) \/ EndStreamAtOnce(c)
  PROVE  AcceptInv'
<1> USE DEF AcceptInv, TypeOK, Park, EndStream, EndStreamAtOnce, Becomes
<1>1. TypeOK'
  BY DEF TaskStates, Spawned, HeldHandle
<1>2. Spawned' /\ HeldHandle'
  BY DEF Spawned, HeldHandle
<1>3. ToldToGo'
  BY DEF Spawned, HeldHandle, ToldToGo
<1>4. Shown' /\ Final'
  BY DEF Spawned, HeldHandle, ToldToGo, Shown, Final,
         Joined
<1> QED
  BY <1>1, <1>2, <1>3, <1>4

(* A task that ends may free the loop, of a handle that is finished. *)
LEMMA FreeLoopKeeps ==
  ASSUME AcceptInv, NEW c \in Conns, FreeLoop(c)
  PROVE  AcceptInv'
<1> USE DEF AcceptInv, TypeOK, FreeLoop, Becomes
<1>1. busy' \in BOOLEAN /\ active' \in 0 .. conns /\ (~busy' => active' = 0)
  <2>1. CASE Frees
    BY <2>1
  <2>2. CASE ~Frees
    BY <2>2
  <2> QED
    BY <2>1, <2>2
<1>2. TypeOK'
  BY <1>1 DEF TaskStates, Spawned, HeldHandle
<1>3. Spawned' /\ HeldHandle'
  BY DEF Spawned, HeldHandle, Frees
<1>4. ToldToGo'
  <2>1. Frees => ~Serving(active)
    BY DEF Frees
  <2>2. CASE Frees
    BY <2>1, <2>2 DEF Spawned, HeldHandle, ToldToGo
  <2>3. CASE ~Frees
    BY <2>3 DEF Spawned, HeldHandle, ToldToGo
  <2> QED
    BY <2>2, <2>3
<1>5. Shown' /\ Final'
  BY DEF Spawned, HeldHandle, ToldToGo, Shown, Final,
         Joined
<1> QED
  BY <1>2, <1>3, <1>4, <1>5

(* It clears the slot if it shows its label. *)
LEMMA HideDeviceKeeps ==
  ASSUME AcceptInv, NEW c \in Conns, HideDevice(c)
  PROVE  AcceptInv'
<1> USE DEF AcceptInv, TypeOK, HideDevice, Hides, Becomes
<1>1. TypeOK'
  BY DEF TaskStates, Spawned, HeldHandle
<1>2. Spawned' /\ HeldHandle'
  BY DEF Spawned, HeldHandle
<1>3. ToldToGo'
  BY DEF Spawned, HeldHandle, ToldToGo
<1>4. Shown' /\ Final'
  BY DEF Spawned, HeldHandle, ToldToGo, Shown, Final,
         Joined
<1> QED
  BY <1>1, <1>2, <1>3, <1>4


(* AcceptInv is an invariant of the accept loop. *)
LEMMA AcceptInvariant == Spec => []AcceptInv
<1>1. AcceptInv /\ [Next]_vars => AcceptInv'
  <2> SUFFICES ASSUME AcceptInv, [Next]_vars PROVE AcceptInv'
    OBVIOUS
  <2>1. ASSUME NEW d \in Devices, Accept(d) PROVE AcceptInv'
    BY <2>1, AcceptKeeps
  <2>2. CASE SetupFails \/ SourceEnds \/ AcceptFails \/ Stop \/ Loop
    BY <2>2, RegisterKeeps, EvictKeeps, AdmitKeeps, StoreKeeps, StopKeeps,
       EndsKeeps, FinishKeeps DEF Loop
  <2>3. ASSUME NEW c \in Conns, Wake(c) \/ Ingest(c) \/ TaskStep(c)
        PROVE  AcceptInv'
    BY <2>3, WakeKeeps, CancelKeeps, IngestKeeps, PollKeeps, FreeLoopKeeps,
       HideDeviceKeeps DEF TaskStep
  <2>4. CASE UNCHANGED vars
    BY <2>4 DEF vars, AcceptInv, TypeOK, Spawned, HeldHandle, ToldToGo, Shown,
                Final, Joined
  <2> QED
    BY <2>1, <2>2, <2>3, <2>4 DEF Next
<1> QED
  BY <1>1, AcceptInit, PTL DEF Spec

(* What the loop and the tasks share stays in its bounds, and no handle is
   held while the loop counts as free. *)
THEOREM TypeCorrect == Spec => []TypeOK
<1>1. AcceptInv => TypeOK
  BY DEF AcceptInv
<1> QED
  BY <1>1, AcceptInvariant, PTL

(* However the tasks that end and the next accepts interleave, the newest
   connection wins: those before it that are still read were told to go, and
   it is told by nothing but Stop. *)
THEOREM NewestWins == Spec => []OldConnectionsAreEvicted
<1>1. AcceptInv => OldConnectionsAreEvicted
  BY DEF AcceptInv, TypeOK, Spawned, HeldHandle, ToldToGo,
         OldConnectionsAreEvicted
<1> QED
  BY <1>1, AcceptInvariant, PTL

(* The device shown between two events of the loop has a connection whose
   task is there. *)
THEOREM SlotIsTrue == Spec => []ShownDeviceIsConnected
<1>1. AcceptInv => ShownDeviceIsConnected
  BY DEF AcceptInv, TypeOK, Shown, ShownDeviceIsConnected
<1> QED
  BY <1>1, AcceptInvariant, PTL

(* Nothing is ingested after the stats line that ends the run. *)
THEOREM StatsAreFinal == Spec => CountersAreFinal
<1>1. AcceptInv /\ [Next]_vars => [pc = "done" => received' = received]_vars
  BY DEF AcceptInv, TypeOK, Final, Joined, Next, vars, Accept, SetupFails,
         SourceEnds, AcceptFails, Stop, Loop, Register, Evict, Admit, Store,
         SeeQuit, Finish, Wake, Ingest, TaskStep, Cancel, Park, EndStream,
         EndStreamAtOnce, FreeLoop, HideDevice
<1> QED
  BY <1>1, AcceptInvariant, PTL DEF Spec, CountersAreFinal
=============================================================================
