------------------------------- MODULE Proxy -------------------------------
(***************************************************************************)
(* The lossy-network proxy (openay-proxy): a reader task drains the socket *)
(* into a bounded channel; the forwarder takes datagrams from it, asks the *)
(* profile what to do with each, and releases the delayed ones when their  *)
(* time has come, woken by a sleep armed on the head of the delay queue.   *)
(*                                                                         *)
(* The generator's draws are nondeterministic choices.  Time is counted in *)
(* ticks, and a sleep that is due is served before the next one.           *)
(***************************************************************************)
EXTENDS Naturals, FiniteSets, Sequences

CONSTANTS
  ChannelCap,  \* capacity of the reader's channel, 1024
  MaxDelay,    \* JITTER_MAX_DELAY_MS, in ticks
  MaxTime,     \* bound: ticks
  NoSleep      \* None, for sched

ASSUME ProxyAssumption ==
  /\ ChannelCap \in Nat \ {0} /\ MaxDelay \in Nat /\ MaxTime \in Nat
  /\ NoSleep \notin Nat

VARIABLES
  profile,   \* Profile
  bad,       \* DecisionEngine.bad
  socket,    \* datagrams in the listen socket
  channel,   \* the reader's channel
  queue,     \* DelayQueue.heap, as a set of entries
  nextSeq,   \* DelayQueue.next_seq
  sched,     \* the deadline of the armed sleep
  proxy,     \* run_proxy: "select" or "done"
  quit,      \* the quit flag
  now,       \* the clock
  stats,     \* ProxyStats
  out        \* what was sent to the forward address, in order, and when

delayVars == <<queue, nextSeq, sched>>
forwarderVars == <<bad, delayVars, proxy, stats, out>>
proxyVars == <<profile, socket, channel, forwarderVars, quit, now>>

Profiles == {"clean", "loss2", "burst", "jitter30"}

ProxyInit ==
  /\ profile \in Profiles
  /\ bad = FALSE
  /\ socket = << >> /\ channel = << >>
  /\ queue = {} /\ nextSeq = 0 /\ sched = NoSleep
  /\ proxy = "select" /\ quit = FALSE /\ now = 0
  /\ stats = [forwarded |-> 0, dropped |-> 0, duplicated |-> 0, delayed |-> 0]
  /\ out = << >>

-----------------------------------------------------------------------------
(* Mutation: entries with the same deadline come out as the heap has them. *)
LatestFirst(a, b) ==
  \/ a.deadline < b.deadline
  \/ a.deadline = b.deadline /\ a.seq > b.seq

(* Entry order: the deadline, then the insertion. *)
Before(a, b) ==
  \/ a.deadline < b.deadline
  \/ a.deadline = b.deadline /\ a.seq < b.seq

(* The entries as they leave the heap: i - 1 of them come before the i-th. *)
InOrder(entries) ==
  [i \in 1 .. Cardinality(entries) |->
     CHOOSE e \in entries : Cardinality({f \in entries : Before(f, e)}) = i - 1]

Entry(deadline, item) ==
  [deadline |-> deadline, seq |-> nextSeq + 1, item |-> item]

(* DelayQueue::deadline: that of the head, if there is one. *)
HeadDeadline(entries) ==
  IF entries = {} THEN NoSleep ELSE InOrder(entries)[1].deadline

Expired == {e \in queue : e.deadline <= now}

(* Mutation: an armed sleep is kept. *)
Keep(entries) == IF sched = NoSleep THEN HeadDeadline(entries) ELSE sched

(* The sleep is disarmed by whatever the loop handles and armed again on its
   next turn. *)
Rearm(entries) == HeadDeadline(entries)

Sends(e) == [item |-> e.item, delayed |-> TRUE, deadline |-> e.deadline, at |-> now]
SendsNow(item) == [item |-> item, delayed |-> FALSE, deadline |-> now, at |-> now]

-----------------------------------------------------------------------------
(* The reader task: a full channel makes it wait. *)
ReaderStep ==
  /\ proxy = "select"
  /\ socket # << >>
  /\ Len(channel) < ChannelCap
  /\ channel' = Append(channel, Head(socket))
  /\ socket' = Tail(socket)
  /\ UNCHANGED <<profile, forwarderVars, quit, now>>

(* DecisionEngine::decide, by profile: what becomes of the datagram.  Neither
   state of the burst profile excludes a decision. *)
Decisions ==
  CASE profile = "clean"    -> {"immediate"}
    [] profile = "loss2"    -> {"immediate", "drop"}
    [] profile = "burst"    -> {"immediate", "drop"}
    [] profile = "jitter30" -> {"delayed", "duplicated"}

(* Action: whether a copy goes out at once, and whether one waits. *)
AtOnce == {"immediate", "duplicated"}
Later == {"delayed", "duplicated"}

(* The delays that may be drawn. *)
Delays == IF profile = "jitter30" THEN 0 .. MaxDelay ELSE {0}

Forward(item, decision, delay) ==
  LET sends == decision \in AtOnce
      waits == decision \in Later
      one(yes) == IF yes THEN 1 ELSE 0
  IN  /\ out' = IF sends THEN Append(out, SendsNow(item)) ELSE out
      /\ queue' = IF waits THEN queue \cup {Entry(now + delay, item)} ELSE queue
      /\ nextSeq' = nextSeq + one(waits)
      /\ stats' = [forwarded |-> stats.forwarded + one(sends),
                   dropped |-> stats.dropped + one(decision = "drop"),
                   duplicated |-> stats.duplicated + one(decision = "duplicated"),
                   delayed |-> stats.delayed + one(waits)]

(* The arm of the channel. *)
Receive ==
  /\ proxy = "select"
  /\ channel # << >>
  /\ channel' = Tail(channel)
  /\ bad' \in IF profile = "burst" THEN BOOLEAN ELSE {bad}
  /\ \E decision \in Decisions, delay \in Delays :
       Forward(Head(channel), decision, delay)
  /\ sched' = Rearm(queue')
  /\ UNCHANGED <<profile, socket, proxy, quit, now>>

Release(expired) ==
  /\ out' = out \o [i \in 1 .. Cardinality(expired) |-> Sends(InOrder(expired)[i])]
  /\ queue' = queue \ expired
  /\ stats' = [stats EXCEPT !.forwarded = @ + Cardinality(expired)]

Due == sched # NoSleep /\ sched <= now

(* The arm of the sleep. *)
Wakes ==
  /\ proxy = "select"
  /\ Due
  /\ Release(Expired)
  /\ sched' = Rearm(queue')
  /\ UNCHANGED <<profile, bad, socket, channel, nextSeq, proxy, quit, now>>

(* A signal sets quit; the loop breaks, the reader is aborted with what it
   had queued, and what has expired is flushed. *)
Signal ==
  /\ ~quit
  /\ quit' = TRUE
  /\ UNCHANGED <<profile, socket, channel, forwarderVars, now>>

Exits ==
  /\ proxy = "select"
  /\ quit
  /\ Release(Expired)
  /\ proxy' = "done"
  /\ UNCHANGED <<profile, bad, socket, channel, nextSeq, sched, quit, now>>

(* A send_to that fails ends run_proxy there and then: with the datagram of
   the channel's arm not sent, or only those sent that come before the failing
   one of the sleep's arm and of the flush.  The rest goes with the queue. *)
SendFails ==
  /\ proxy = "select"
  /\ \/ /\ channel # << >> /\ Decisions \cap AtOnce # {}
        /\ channel' = Tail(channel)
        /\ bad' \in IF profile = "burst" THEN BOOLEAN ELSE {bad}
        /\ UNCHANGED <<queue, stats, out>>
     \/ /\ Due \/ quit
        /\ \E first \in SUBSET Expired :
             /\ first # Expired
             /\ \A e \in first, f \in queue : Before(f, e) => f \in first
             /\ Release(first)
        /\ UNCHANGED <<bad, channel>>
  /\ proxy' = "done"
  /\ UNCHANGED <<profile, socket, nextSeq, sched, quit, now>>

TimePasses ==
  /\ proxy = "select"
  /\ now < MaxTime
  /\ ~Due
  /\ now' = now + 1
  /\ UNCHANGED <<profile, socket, channel, forwarderVars, quit>>

ProxyStep == ReaderStep \/ Receive \/ Wakes \/ Exits \/ SendFails

-----------------------------------------------------------------------------
(* "Items are released strictly in deadline order; ties release in insertion
   order", over the whole life of the proxy and not only among those that
   expire together; none before its deadline, and none is forgotten by the
   counters that the exit prints. *)
DelayedLeaveInOrder ==
  /\ \A i, j \in 1 .. Len(out) :
       /\ out[i].delayed => out[i].deadline <= out[i].at
       /\ i < j /\ out[i].delayed /\ out[j].delayed =>
            \/ out[i].deadline < out[j].deadline
            \/ out[i].deadline = out[j].deadline /\ out[i].item.n < out[j].item.n
  /\ stats.forwarded = Len(out)
  /\ profile = "jitter30" =>
       stats.delayed + stats.duplicated = Len(out) + Cardinality(queue)

(* The sleep is always the one of the earliest deadline, also when a datagram
   with a short delay arrives while a long one is slept for: no datagram is
   still queued when the clock leaves its deadline behind. *)
NothingIsOverdue ==
  [][now' # now => \A e \in queue : e.deadline > now]_proxyVars
=============================================================================
