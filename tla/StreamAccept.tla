---------------------------- MODULE StreamAccept ----------------------------
(***************************************************************************)
(* The accept loop of the stream transports, TCP and Bluetooth             *)
(* (stream_accept_loop and serve_packet_stream in openay-server's lib.rs): *)
(* each connection is served by its own task, the newest evicts the one    *)
(* before it, and a Bluetooth run shows the connected device in a slot.    *)
(*                                                                         *)
(* The tasks run on a runtime with several worker threads.  A task that is *)
(* parked at an await can be cancelled there; one that is being polled on  *)
(* another thread goes on until it parks or ends, whatever abort() says.   *)
(***************************************************************************)
EXTENDS Naturals

CONSTANTS
  Devices,     \* peer labels
  NoDevice,    \* None, for a label
  MaxConns,    \* bound: connections in one run
  MaxPackets   \* bound: packets ingested in one run

ASSUME NoDeviceAssumption == NoDevice \notin Devices
ASSUME BoundsAssumption == MaxConns \in Nat /\ MaxPackets \in Nat

VARIABLES
  pc,        \* the loop: "setup", "select", "evict", "admit", "store",
             \* "join", "done" (with a stats line) or "failed" (an error)
  quit,      \* the run's quit flag
  conns,     \* connections accepted so far
  label,     \* the peer label of each
  task,      \* its task: see TaskStates
  aborted,   \* abort() was called on it
  busy,      \* a connection is served, says the loop
  active,    \* the connection whose AbortHandle is held, 0 for None
  slot,      \* device_slot
  received,  \* packets ingested
  from       \* history: the connection that sent the last one

loopVars == <<pc, conns, label, active>>
vars == <<loopVars, quit, task, aborted, busy, slot, received, from>>

Conns == 1 .. MaxConns

(* "polled": running on a worker; "parked": at next_packet().await;
   "draining": at writer.await, the stream being over; "freeing" and
   "hiding": in the code after serve_packet_stream, which has no await. *)
TaskStates == {"none", "polled", "parked", "draining", "freeing", "hiding",
               "finished"}
Awaiting == {"parked", "draining"}

Init ==
  /\ pc = "setup" /\ quit = FALSE
  /\ conns = 0
  /\ label = [c \in Conns |-> NoDevice]
  /\ task = [c \in Conns |-> "none"]
  /\ aborted = [c \in Conns |-> FALSE]
  /\ busy = FALSE /\ active = 0 /\ slot = NoDevice
  /\ received = 0 /\ from = 0

-----------------------------------------------------------------------------
(* tcp_loop has its listener; bt_loop registers the profile with BlueZ, and
   looks at no quit while it waits for the answer, ... *)
Register ==
  /\ pc = "setup"
  /\ pc' = "select"
  /\ UNCHANGED <<quit, conns, label, active, task, aborted, busy, slot,
                 received, from>>

(* ... which is an error without an adapter, or without BlueZ. *)
SetupFails ==
  /\ pc = "setup"
  /\ pc' = "failed"
  /\ UNCHANGED <<quit, conns, label, active, task, aborted, busy, slot,
                 received, from>>

(* ConnSource::accept: one more connection, and the label of its peer. *)
Arrives(d) ==
  /\ conns < MaxConns
  /\ conns' = conns + 1
  /\ label' = [label EXCEPT ![conns + 1] = d]

(* A connection from d: the loop loads busy. *)
Accept(d) ==
  /\ pc = "select"
  /\ Arrives(d)
  /\ pc' = IF busy THEN "evict" ELSE "admit"
  /\ UNCHANGED <<quit, task, aborted, busy, active, slot, received, from>>

(* Mutation: the handle is dropped, not aborted. *)
DropHandle == aborted

(* The aborts requested once the active connection is told to go. *)
AbortActive ==
  [c \in Conns |-> aborted[c] \/ c = active]

(* abort() marks the task; it does not wait for it. *)
Evict ==
  /\ pc = "evict"
  /\ aborted' = AbortActive
  /\ active' = 0
  /\ busy' = FALSE
  /\ pc' = "admit"
  /\ UNCHANGED <<quit, conns, label, task, slot, received, from>>

(* Mutation: the tasks are left to see quit between two packets. *)
LeaveTasks == aborted

(* conns.abort_all() *)
AbortAll == [c \in Conns |-> TRUE]

(* The new connection takes the slot and is spawned, ... *)
Admit ==
  /\ pc = "admit"
  /\ busy' = TRUE
  /\ slot' = label[conns]
  /\ task' = [task EXCEPT ![conns] = "polled"]
  /\ pc' = "store"
  /\ UNCHANGED <<quit, conns, label, aborted, active, received, from>>

(* ... and only then does the loop hold its handle.  It looks at quit after
   every event. *)
Store ==
  /\ pc = "store"
  /\ active' = conns
  /\ pc' = IF quit THEN "join" ELSE "select"
  /\ aborted' = IF quit THEN AbortAll ELSE aborted
  /\ UNCHANGED <<quit, conns, label, task, busy, slot, received, from>>

(* Stop sets quit; a wake of the loop sees it and aborts every task. *)
Stop ==
  /\ ~quit
  /\ quit' = TRUE
  /\ UNCHANGED <<loopVars, task, aborted, busy, slot, received, from>>

SeeQuit ==
  /\ pc = "select"
  /\ quit
  /\ aborted' = AbortAll
  /\ pc' = "join"
  /\ UNCHANGED <<quit, conns, label, active, task, busy, slot, received, from>>

(* The source has no more connections (Bluetooth): the same end. *)
SourceEnds ==
  /\ pc = "select"
  /\ aborted' = AbortAll
  /\ pc' = "join"
  /\ UNCHANGED <<quit, conns, label, active, task, busy, slot, received, from>>

(* accept() fails: the loop returns the error, without a stats line, and the
   tasks are aborted as their JoinSet is dropped. *)
AcceptFails ==
  /\ pc = "select"
  /\ aborted' = AbortAll
  /\ pc' = "failed"
  /\ UNCHANGED <<quit, conns, label, active, task, busy, slot, received, from>>

(* Mutation: the final stats line does not wait for the tasks. *)
NotJoined == TRUE

Joined == \A c \in Conns : task[c] \in {"none", "finished"}

(* The final stats line is taken once every task is gone. *)
Finish ==
  /\ pc = "join"
  /\ Joined
  /\ pc' = "done"
  /\ UNCHANGED <<quit, conns, label, active, task, aborted, busy, slot,
                 received, from>>

Loop == Register \/ Evict \/ Admit \/ Store \/ SeeQuit \/ Finish

-----------------------------------------------------------------------------
Becomes(c, t) == task' = [task EXCEPT ![c] = t]

(* Data or the end of the stream wakes the task, unless it was cancelled. *)
Wake(c) ==
  /\ task[c] \in Awaiting
  /\ ~aborted[c]
  /\ Becomes(c, IF task[c] = "parked" THEN "polled" ELSE "freeing")
  /\ UNCHANGED <<loopVars, quit, aborted, busy, slot, received, from>>

(* The runtime drops a cancelled task at its await. *)
Cancel(c) ==
  /\ task[c] \in Awaiting
  /\ aborted[c]
  /\ Becomes(c, "finished")
  /\ UNCHANGED <<loopVars, quit, aborted, busy, slot, received, from>>

(* A packet that is already buffered is ingested without parking. *)
Ingest(c) ==
  /\ task[c] = "polled"
  /\ received < MaxPackets
  /\ received' = received + 1
  /\ from' = c
  /\ UNCHANGED <<loopVars, quit, task, aborted, busy, slot>>

(* No packet is there: the task waits for one. *)
Park(c) ==
  /\ task[c] = "polled"
  /\ Becomes(c, "parked")
  /\ UNCHANGED <<loopVars, quit, aborted, busy, slot, received, from>>

(* The peer closed, a read failed, or quit is set: the stream is over. *)
EndStream(c) ==
  /\ task[c] = "polled"
  /\ Becomes(c, "draining")
  /\ UNCHANGED <<loopVars, quit, aborted, busy, slot, received, from>>

(* The writer was done already: nothing to wait for. *)
EndStreamAtOnce(c) ==
  /\ task[c] = "polled"
  /\ Becomes(c, "freeing")
  /\ UNCHANGED <<loopVars, quit, aborted, busy, slot, received, from>>

(* Mutation: the task that ends frees the loop, whoever is active. *)
FreesAlways == TRUE

(* The guard on the held handle: it is finished.  A task never finds its own
   handle finished, since it is still running. *)
Frees == active # 0 /\ task[active] = "finished"

FreeLoop(c) ==
  /\ task[c] = "freeing"
  /\ active' = IF Frees THEN 0 ELSE active
  /\ busy' = IF Frees THEN FALSE ELSE busy
  /\ Becomes(c, "hiding")
  /\ UNCHANGED <<pc, conns, label, quit, aborted, slot, received, from>>

(* Mutation: only the task that freed the loop clears the slot. *)
HidesIfFree(c) == ~busy /\ slot = label[c]

(* The slot is cleared if it still shows this connection's label. *)
Hides(c) == slot = label[c]

HideDevice(c) ==
  /\ task[c] = "hiding"
  /\ slot' = IF Hides(c) THEN NoDevice ELSE slot
  /\ Becomes(c, "finished")
  /\ UNCHANGED <<loopVars, quit, aborted, busy, received, from>>

TaskStep(c) ==
  \/ Cancel(c) \/ Park(c) \/ EndStream(c) \/ EndStreamAtOnce(c)
  \/ FreeLoop(c) \/ HideDevice(c)

Next ==
  \/ \E d \in Devices : Accept(d)
  \/ SetupFails \/ SourceEnds \/ AcceptFails
  \/ Stop \/ Loop
  \/ \E c \in Conns : Wake(c) \/ Ingest(c) \/ TaskStep(c)

(* BlueZ answers.  The loop wakes every 200 ms, and the runtime polls every
   task it can:
   a task being polled parks or ends (the runtime's budget parks it when
   the peer never pauses), a cancelled one is dropped.  A peer owes
   nothing, so Wake is not fair. *)
Spec ==
  /\ Init /\ [][Next]_vars
  /\ WF_vars(Loop)
  /\ \A c \in Conns : WF_vars(TaskStep(c))

-----------------------------------------------------------------------------
(* Types; and busy and active, which are written in two steps by two
   parties, agree: no handle is held while the loop counts as free. *)
TypeOK ==
  /\ pc \in {"setup", "select", "evict", "admit", "store", "join", "done",
             "failed"}
  /\ quit \in BOOLEAN /\ busy \in BOOLEAN
  /\ conns \in 0 .. MaxConns
  /\ label \in [Conns -> Devices \cup {NoDevice}]
  /\ task \in [Conns -> TaskStates]
  /\ aborted \in [Conns -> BOOLEAN]
  /\ active \in 0 .. conns /\ (~busy => active = 0)
  /\ slot \in Devices \cup {NoDevice}
  /\ received \in 0 .. MaxPackets
  /\ from \in 0 .. conns

Serving(c) == task[c] \in {"polled", "parked"}

(* The newest connection always wins: of the connections whose stream is
   being read, all but the newest were told to go, however the clearing of
   busy and active by ended tasks interleaves with the next accepts, and the
   newest is told by nothing but Stop. *)
OldConnectionsAreEvicted ==
  pc \in {"select", "store"} =>
    \A c \in Conns :
      /\ Serving(c) /\ c < conns => aborted[c]
      /\ aborted[c] /\ ~quit => c < conns

(* The device shown is one whose connection is there: after the last one
   ended the slot is empty, and it never shows a device that was evicted. *)
ShownDeviceIsConnected ==
  slot # NoDevice /\ ~quit /\ pc = "select" =>
    \E c \in Conns : label[c] = slot /\ task[c] \notin {"none", "finished"}

(* "so the shutdown counters are final": nothing is ingested after the stats
   line that ends the run. *)
CountersAreFinal == [][pc = "done" => received' = received]_vars

(* Whoever is told to go does: a connection that has a successor ends, and the
   loop ends once Stop was asked for. *)
GoneWhenTold ==
  /\ \A c \in Conns : task[c] # "none" /\ c < conns ~> task[c] = "finished"
  /\ quit ~> pc \in {"done", "failed"}

(* "eviction lands at an await point, so the two senders can never
   interleave": once a connection's packet was ingested, no earlier
   connection's is.  Not kept, and in no run: abort() only marks the task (see
   the README's list of what the documentation promises and the code does not). *)
SendersDoNotInterleave == [][from' \geq from]_vars
=============================================================================
