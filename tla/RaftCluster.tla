----------------------------- MODULE RaftCluster -----------------------------
(***************************************************************************)
(* A cluster of Raft nodes: the main loops of raft_node                    *)
(* (src/bin/raft_node.rs) around src/raft/node.rs, the network between     *)
(* them and their clients.                                                 *)
(*                                                                         *)
(* Each main loop handles one tick, inbound message or client request at a *)
(* time, so one action is one call of Node::step, Node::tick or Node::new  *)
(* together with what that call sends.  The network is a bag: a message    *)
(* may be overtaken, and one that is never delivered is lost               *)
(* (src/raft/message.rs: messages "may be lost or reordered").  A process  *)
(* may stop at any time and be started again on what it had persisted.     *)
(*                                                                         *)
(* The bounds Max... are guards on environment events only; nothing a node *)
(* does in reply to an event is bounded.                                   *)
(***************************************************************************)
EXTENDS RaftNode, Bags

CONSTANTS
  Requests,       \* client requests: [id, op, voters]
  Cut,            \* the pairs of nodes that cannot reach each other
  Timers,         \* the nodes whose election timeout may expire
  Unstable,       \* the nodes whose process may stop
  AskRoles,       \* the roles in which a node is asked by clients
  MaxTimeouts,    \* how many election timeouts expire in a behaviour
  MaxTicks,       \* how many leader ticks have an effect
  MaxStops        \* how many times a process stops

VARIABLES
  node,           \* the nodes
  net,            \* the bag of envelopes in flight
  asked,          \* per request: Nil, or the writes acknowledged before it
  replies,        \* per request: the answers its client was given, in order
  ballots,        \* history: the votes ever persisted
  elected,        \* history: who ever led in which term
  spent           \* how much of each bound is used

vars == <<node, net, asked, replies, ballots, elected, spent>>

Ids == {r.id : r \in Requests}

ASSUME ClusterAssumption ==
  /\ \A r \in Requests :
       /\ r.op \in {"Write", "Read", "Status", "ChangeMembership"}
       /\ r.voters \subseteq Server
       /\ \A q \in Requests : q.id = r.id => q = r
  /\ Nil \notin Ids
  /\ Cut \subseteq SUBSET Server
  /\ Timers \subseteq Server
  /\ Unstable \subseteq Server
  /\ AskRoles \subseteq {"Follower", "Candidate", "Leader"}
  /\ {MaxTimeouts, MaxTicks, MaxStops} \subseteq Nat

\* A request not asked yet is told from one asked before any was acknowledged.
ASSUME AskedAssumption == \A ids \in SUBSET Ids : ids # Nil

-----------------------------------------------------------------------------
\* Messages that no step will ever act on again: one of a past term (dropped by
\* Node::step, and terms only grow), a pre-vote for a term already reached or a
\* refused one, and a vote that its receiver is not, and in this term will not
\* again be, a candidate for.  The network forgets them.
Stale(nodes, m) ==
  LET to == nodes[m.to]
  IN \/ m.message.type \notin PreVoteTypes /\ m.term < Term(to)
     \/ m.message.type = "PreCampaign" /\ m.term <= Term(to)
     \/ m.message.type = "PreCampaignResponse" /\ ~m.message.vote
     \/ /\ m.message.type = "CampaignResponse"
        /\ m.term = Term(to)
        /\ \/ ~m.message.vote
           \/ to.role.kind # "Candidate"
           \/ to.role.kind = "Candidate" /\ to.role.phase # "Election"

\* recv(node_rx): an envelope to the node itself answers a client, any other
\* goes to the network, unless that is cut between the two.
Emit(nodes, bag, out) ==
  LET b == bag (+) SetToBag({m \in out : m.to # m.from
                                        /\ {m.from, m.to} \notin Cut})
  IN [m \in {k \in DOMAIN b : ~Stale(nodes, k)} |-> b[m]]

\* Every answer given is noted; client_replies would hide a second one.
Answers(out, id) ==
  {[status |-> m.message.status, data |-> m.message.data] :
     m \in {k \in out : /\ k.to = k.from
                        /\ k.message.type = "ClientResponse"
                        /\ k.message.id = id}}

\* What history notes of a node: the vote it has persisted, the term it leads.
Ballot(n) ==
  {[voter |-> n.id, term |-> Term(n), vote |-> v] : v \in {n.log.vote} \ {Nil}}

Office(n) ==
  IF n.role.kind = "Leader" THEN {[leader |-> n.id, term |-> Term(n)]} ELSE {}

\* Node i becomes r.n and r.out is sent, bag being the network without the
\* message handled.
Update(i, r, bag) ==
  /\ ballots' = ballots \cup Ballot(r.n)
  /\ elected' = elected \cup Office(r.n)
  /\ node' = [node EXCEPT ![i] = r.n]
  /\ net' = Emit(node', bag, r.out)
  /\ replies' = [id \in Ids |-> replies[id] \o SetToSeq(Answers(r.out, id))]

Running(i) == node[i].role.kind # "Panicked"

Spend(what, max) ==
  /\ spent[what] < max
  /\ spent' = [spent EXCEPT ![what] = @ + 1]

NodesTyped ==
  /\ DOMAIN node = Server
  /\ \A i \in Server :
       /\ \E P \in SUBSET Server : node[i] \in NodeType(Ids, P)
       /\ node[i].id = i

NetTyped == DOMAIN net \subseteq EnvelopeType(Requests, Ids)

ClientsTyped ==
  /\ asked \in [Ids -> (SUBSET Ids) \cup {Nil}]
  /\ replies \in [Ids -> Seq([status : {"Ok", "Abort", "Invalid"},
                              data : Seq(Ids \cup {Nil})])]

HistoryTyped ==
  /\ ballots \subseteq [voter : Server, term : Nat, vote : Server]
  /\ elected \subseteq [leader : Server, term : Nat]
  /\ spent \in [{"timeouts", "ticks", "stops"} -> Nat]

\* INV: The type invariant: every node is a node whose id is its own, every
\* envelope in flight is one between two servers, every answer is a result.
TypeOK == NodesTyped /\ NetTyped /\ ClientsTyped /\ HistoryTyped

Init ==
  /\ node = [i \in Server |-> NewNode(i, EmptyLog(EmptyState)).n]
  /\ net = Emit(node, EmptyBag,
                UNION {NewNode(i, EmptyLog(EmptyState)).out : i \in Server})
  /\ asked = [id \in Ids |-> Nil]
  /\ replies = [id \in Ids |-> <<>>]
  /\ ballots = UNION {Ballot(node[i]) : i \in Server}
  /\ elected = UNION {Office(node[i]) : i \in Server}
  /\ spent = [what \in {"timeouts", "ticks", "stops"} |-> 0]

-----------------------------------------------------------------------------
\* ACTION: the election timeout of a follower or candidate expires.
Timeout(i) ==
  /\ i \in Timers
  /\ node[i].role.kind \in {"Follower", "Candidate"}
  /\ Spend("timeouts", MaxTimeouts)
  /\ Update(i, ElectionTick(node[i]), net)
  /\ UNCHANGED asked

\* ACTION: a leader's tick on which a heartbeat is due or the check-quorum
\* window lapses for all peers but those heard.
Tick(i, due, heard) ==
  /\ node[i].role.kind = "Leader"
  /\ LET r == LeaderTick(node[i], due, heard)
     IN /\ r # Done(node[i], {})
        /\ Spend("ticks", MaxTicks)
        /\ Update(i, r, net)
  /\ UNCHANGED asked

\* The step changes the node or sends something that can have an effect.
Effective(i, r) ==
  \/ r.n # node[i]
  \/ \E m \in r.out : m.to = m.from \/ ~Stale(node, m)

Apply(i, r, bag) == Effective(i, r) /\ Update(i, r, bag)

\* ACTION: a message arrives and is stepped.  One that would have no effect is
\* left where it is, which is the same as losing it.
Receive(m) ==
  /\ Running(m.to)
  /\ Apply(m.to, Step(node[m.to], m), net (-) SetToBag({m}))
  /\ UNCHANGED <<asked, spent>>

\* Inbound::Client: the request is stepped as a message of the node to itself.
ClientEnv(i, r) ==
  Env(node[i], i, [type |-> "ClientRequest", request |-> r])

\* ACTION: a client asks node i.  What writes were acknowledged by then is
\* noted for the property of reads.
Ask(i, r) ==
  /\ node[i].role.kind \in AskRoles
  /\ asked[r.id] = Nil
  /\ asked' = [asked EXCEPT ![r.id] =
                 {w \in Ids : \E k \in 1 .. Len(replies[w]) :
                    replies[w][k].status = "Ok"}]
  /\ Update(i, Step(node[i], ClientEnv(i, r)), net)
  /\ UNCHANGED spent

\* ACTION: the process of node i stops (or has panicked) and is started again.
\* A power loss may take the commit index back to any that was written since
\* the last flush (LogStorage: CrashBetweenMethods).
Restart(i, commit) ==
  /\ i \in Unstable
  /\ commit \in node[i].log.synced .. node[i].log.commit
  /\ Spend("stops", MaxStops)
  /\ Update(i, NewNode(i, Reopened(node[i].log, commit)), net)
  /\ UNCHANGED asked

Next ==
  \/ \E i \in Server : Timeout(i)
  \/ \E i \in Server, due \in BOOLEAN : \E heard \in SUBSET Peers(node[i]) :
       Tick(i, due, heard)
  \/ \E m \in DOMAIN net : Receive(m)
  \/ \E i \in Server, r \in Requests : Ask(i, r)
  \/ \E i \in Server : \E c \in 0 .. node[i].log.commit : Restart(i, c)

Spec == Init /\ [][Next]_vars
=============================================================================
