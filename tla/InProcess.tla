------------------------------ MODULE InProcess ------------------------------
(***************************************************************************)
(* The in-process cluster (src/cluster/mod.rs): the nodes of               *)
(* src/raft/node.rs in threads, connected by a Transport that injects      *)
(* faults.  It is where recovery is asked about: once the faults end, do   *)
(* the nodes that are left find a leader and agree?                        *)
(*                                                                         *)
(* Time enters through what a timer can see.  TICK_INTERVAL is 100 ms, a   *)
(* channel hop takes microseconds, a leader's heartbeat is due every few   *)
(* ticks and an election timeout, drawn afresh at every reset, is several  *)
(* heartbeats.  So a timer expires when every message in the mailboxes has *)
(* been handled, an election timer only at a node that no leader is sure   *)
(* to reach, and no timer keeps winning: it does not expire twice while    *)
(* another is still running out.  While faults last, MaxTimers of them     *)
(* expire, so that a cluster without a majority does not count terms for   *)
(* ever.                                                                   *)
(*                                                                         *)
(* A node's outbound channel is emptied into the transport as part of the  *)
(* step that filled it; mailboxes are queues.                              *)
(***************************************************************************)
EXTENDS RaftNode

CONSTANTS
  Faults,         \* the operations the harness uses
  Victims,        \* the nodes it stops or cuts off
  MaxFaults,      \* how many operations it uses
  MaxTimers       \* how many timers expire while faults last

VARIABLES
  node,           \* per thread: its node
  transport,      \* TransportInner
  expired,        \* the timers that expired while others still run out
  slice,          \* the scheduler's clock: it ticks whenever a thread runs
  spent           \* how much of each bound is used

vars == <<node, transport, expired, slice, spent>>

ASSUME InProcessAssumption ==
  /\ Faults \subseteq {"partition", "heal", "drop", "reorder", "stop"}
  /\ Victims \subseteq Server
  /\ {MaxFaults, MaxTimers} \subseteq Nat

-----------------------------------------------------------------------------
(* Transport.  A mailbox exists as long as the thread that reads it.       *)

Fresh(i) == NewNode(i, EmptyLog(EmptyState)).n

Without(t, i) ==
  [t EXCEPT !.mailboxes = [k \in DOMAIN @ \ {i} |-> @[k]]]

\* try_send: the send fails, unnoticed, when the receiver is gone.
TrySend(t, m) ==
  IF m.to \in DOMAIN t.mailboxes
    THEN [t EXCEPT !.mailboxes[m.to] = Append(@, m)]
    ELSE t

\* set_online(id, false) also forgets what is held for the node.
SetOffline(t, i) == [t EXCEPT !.online[i] = FALSE, !.held[i] = Nil]

\* deliver: nothing passes to or from a node that is offline or across a
\* partition.  While reordering, every second message to a node goes out
\* before the one held for it.
Deliver(t, m) ==
  IF \/ ~t.online[m.from]
     \/ ~t.online[m.to]
     \/ <<m.from, m.to>> \in t.partitions
    THEN t
  ELSE IF ~t.reorder THEN TrySend(t, m)
  ELSE IF t.held[m.to] = Nil THEN [t EXCEPT !.held[m.to] = m]
  ELSE TrySend(TrySend([t EXCEPT !.held[m.to] = Nil], m), t.held[m.to])

\* What is held is sent after all.
Flush(t) ==
  FoldSet(LAMBDA i, u : IF u.held[i] = Nil THEN u
                        ELSE TrySend([u EXCEPT !.held[i] = Nil], u.held[i]),
          t, Server)

\* The order of the messages of a step.  Only into_leader sends one node two of
\* them, the noop before the heartbeat; between nodes it makes no difference.
Before(m, k) ==
  LET place == CHOOSE f \in [Server -> 1 .. Cardinality(Server)] : IsInjective(f)
  IN \/ place[m.to] < place[k.to]
     \/ /\ m.to = k.to
        /\ m.message.type = "Append"
        /\ k.message.type # "Append"

\* What the random drops let through.
Surviving(t, out) ==
  LET sent == {m \in out : m.to # m.from}
  IN {SetToSortSeq(s, Before) : s \in IF t.drop THEN SUBSET sent ELSE {sent}}

-----------------------------------------------------------------------------
(* run_node.                                                               *)

Running(i) == i \in DOMAIN transport.mailboxes
Leads(i) == Running(i) /\ node[i].role.kind = "Leader"

\* Node i becomes r.n and r.out goes to the transport, t being the transport
\* without what was taken from it.  A panic unwinds the thread before it can
\* go offline; its mailbox is gone.
Update(i, r, t) ==
  /\ node' = [node EXCEPT ![i] = r.n]
  /\ \E out \in Surviving(t, r.out) :
       transport' =
         FoldLeft(Deliver,
                  IF r.n.role.kind = "Panicked" THEN Without(t, i) ELSE t, out)

Open(i, j) == <<i, j>> \notin transport.partitions

\* A majority runs and no fault hits a message between nodes that run.
Healthy ==
  /\ HasQuorum(Simple(Server), DOMAIN transport.mailboxes)
  /\ ~transport.drop /\ ~transport.reorder
  /\ \A i, j \in DOMAIN transport.mailboxes : Open(i, j)

\* Nothing is waiting to be handled.
Quiet == \A i \in DOMAIN transport.mailboxes :
           transport.mailboxes[i] = <<>>

\* Node i is sure to be reached by the heartbeats of a leader.
Led(i) ==
  \E l \in Server : /\ Leads(l)
                    /\ Term(node[l]) >= Term(node[i])
                    /\ i \in Peers(node[l])
                    /\ Open(l, i)
                    /\ ~transport.drop

\* The nodes whose timer runs out: leaders', and those that may have no leader.
Waiting == {i \in Server : Running(i) /\ (Leads(i) \/ ~Led(i))}

\* The peers whose answers to heartbeats reach leader i in the check-quorum
\* window: one that is ahead of its term does not answer.
Heard(i) ==
  LET answer == {p \in Peers(node[i]) : /\ Running(p)
                                        /\ Open(i, p)
                                        /\ Open(p, i)
                                        /\ Term(node[p]) <= Term(node[i])}
  IN IF transport.drop THEN {answer, {}} ELSE {answer}

Init ==
  /\ node = [i \in Server |-> Fresh(i)]
  /\ transport = [partitions |-> {}, drop |-> FALSE, reorder |-> FALSE,
                  held |-> [i \in Server |-> Nil],
                  online |-> [i \in Server |-> TRUE],
                  mailboxes |-> [i \in Server |-> <<>>]]
  /\ expired = {}
  /\ slice = 0
  /\ spent = [what \in {"faults", "timers"} |-> 0]

Spend(what, max) ==
  /\ spent[what] < max
  /\ spent' = [spent EXCEPT ![what] = @ + 1]

\* The timer of node i expires; while faults last that is counted.
Expire(i) ==
  /\ Quiet
  /\ i \in Waiting
  /\ i \in expired => Waiting \subseteq expired
  /\ expired' = IF i \in expired THEN {i} ELSE expired \cup {i}
  /\ IF Healthy THEN UNCHANGED spent ELSE Spend("timers", MaxTimers)

\* ACTION: the election timer of a node expires.
Timeout(i) ==
  /\ ~Leads(i)
  /\ Expire(i)
  /\ Update(i, ElectionTick(node[i]), transport)

\* ACTION: a leader's heartbeat is due and the check-quorum window ends.
Beat(i) ==
  /\ Leads(i)
  /\ Expire(i)
  /\ \E heard \in Heard(i) :
       Update(i, LeaderTick(node[i], TRUE, heard), transport)

\* ACTION: a message is taken from a mailbox and stepped.
Receive(i) ==
  /\ Running(i)
  /\ transport.mailboxes[i] # <<>>
  /\ Update(i, Step(node[i], Head(transport.mailboxes[i])),
            [transport EXCEPT !.mailboxes[i] = Tail(@)])
  /\ UNCHANGED <<expired, spent>>

-----------------------------------------------------------------------------
(* Fault injection: Cluster and Transport.                                 *)

Fault(kind) == kind \in Faults /\ Spend("faults", MaxFaults)

Inject(t) == /\ t # transport
             /\ transport' = t
             /\ UNCHANGED <<node, expired, slice>>

\* ACTION: partition_one_way.
PartitionOneWay(a, b) ==
  /\ Fault("partition")
  /\ Inject([transport EXCEPT !.partitions = @ \cup {<<a, b>>}])

\* ACTION: partition_groups; partition is the same for two nodes.
PartitionGroups(left, right) ==
  /\ Fault("partition")
  /\ Inject([transport EXCEPT !.partitions =
               @ \cup (left \X right) \cup (right \X left)])

\* ACTION: heal_pair.
HealPair(a, b) ==
  /\ Fault("heal")
  /\ Inject([transport EXCEPT !.partitions = @ \ {<<a, b>>, <<b, a>>}])

\* ACTION: heal_all also sends what is held.
HealAll ==
  /\ Fault("heal")
  /\ Inject(Flush([transport EXCEPT !.partitions = {}]))

\* ACTION: set_drop_rate to something or to nothing.
SetDropRate ==
  /\ Fault("drop")
  /\ Inject([transport EXCEPT !.drop = ~@])

\* ACTION: set_reorder; switched off, what is held is sent.
SetReorder ==
  /\ Fault("reorder")
  /\ Inject(IF transport.reorder
              THEN Flush([transport EXCEPT !.reorder = FALSE])
              ELSE [transport EXCEPT !.reorder = TRUE])

\* ACTION: stop: the thread ends and its node and log with it.
Stop(i) ==
  /\ transport.online[i]
  /\ Fault("stop")
  /\ transport' = Without(SetOffline(transport, i), i)
  /\ node' = [node EXCEPT ![i] = Fresh(i)]
  /\ UNCHANGED <<expired, slice>>

\* One operation of the harness.  The last one leaves a cluster that can recover.
Harness ==
  /\ \/ \E i \in Victims : \/ Stop(i)
                           \/ PartitionGroups({i}, Server \ {i})
                           \/ \E j \in Server \ {i} : \/ PartitionOneWay(i, j)
                                                     \/ HealPair(i, j)
     \/ HealAll
     \/ SetDropRate
     \/ SetReorder
  /\ spent'.faults = MaxFaults => Healthy'

Thread(i) ==
  /\ Timeout(i) \/ Beat(i) \/ Receive(i)
  /\ slice' = 1 - slice

Next == (\E i \in Server : Thread(i)) \/ Harness

\* Some thread has something to do: a message, or a timer that will expire.
Busy == ~Quiet \/ (Healthy /\ Waiting # {})

\* Fairness: threads run.  crossbeam's select! waits for one of its channels, the
\* ticker's among them, so a thread with something to do does it.  Whether one
\* can is Busy, whether one did the tick of slice: TLC cannot evaluate ENABLED
\* of a node's step in reasonable time.
Fairness == WF_slice(Busy /\ slice' = 1 - slice)

Spec == Init /\ [][Next]_vars /\ Fairness

-----------------------------------------------------------------------------
\* There is a leader, and a quorum in its term follows it.
Governed ==
  \E l \in Server :
    /\ Leads(l)
    /\ HasQuorum(node[l].mem.active,
                 {i \in Server : Running(i) /\ Term(node[i]) = Term(node[l])})

\* Every running node follows one leader and has applied all of its log.
Agreed ==
  \E l \in Server :
    /\ Leads(l)
    /\ \A i \in DOMAIN transport.mailboxes :
         /\ Term(node[i]) = Term(node[l])
         /\ node[i].log.ents = node[l].log.ents
         /\ node[i].sm.applied = LastIndex(node[l].log)

\* LIVENESS: When a majority is left and faults have ended, a leader is found.
LeaderEmerges == <>[]Healthy => []<>Governed

\* LIVENESS: and in the end every running node has its log, all of it applied.
Recovers == <>[]Healthy => <>[]Agreed
=============================================================================
