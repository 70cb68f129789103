------------------------- MODULE RaftElectionProofs -------------------------
(***************************************************************************)
(* Elections are safe in every cluster whose membership does not change,   *)
(* whatever its size, its clients, its timeouts and its restarts.          *)
(*                                                                         *)
(* The inductive invariant Inv ties what history has noted to the nodes    *)
(* and the network: a node's persisted vote is on the record and none is   *)
(* of a later term than its own; a vote counted or under way is on the     *)
(* record; and every leader has a majority on record.  RaftNodeProofs      *)
(* shows that each call of a node obeys Moves; StepKeepsInv, that a step   *)
(* of the cluster whose call obeys Moves keeps Inv.                        *)
(***************************************************************************)
EXTENDS RaftNodeProofs

Nodes == UNION {StaticNode(i) : i \in Server}
Envelope == [from : Server, to : Server, term : Nat, message : StaticMessage]
BallotType == [voter : Server, term : Nat, vote : Server]

NodesStatic ==
  node \in [Server -> Nodes] /\ \A i \in Server : node[i] \in StaticNode(i)

\* No recorded vote is of a later term than its voter's, and one of the
\* voter's term is the vote it has persisted.
BallotsPast ==
  \A b \in ballots :
    /\ b.term <= node[b.voter].log.term
    /\ b.term = node[b.voter].log.term => b.vote = node[b.voter].log.vote

\* Every persisted vote is on record.
VotesNoted ==
  \A i \in Server : node[i].log.vote # Nil =>
    [voter |-> i, term |-> node[i].log.term, vote |-> node[i].log.vote] \in ballots

Polled(e, B) ==
  \E Q \in SUBSET Server :
    /\ Majority(Server, Q)
    /\ \A v \in Q : [voter |-> v, term |-> e.term, vote |-> e.leader] \in B

\* Whoever leads is on record, with a majority of recorded votes.
OfficesBacked ==
  /\ \A e \in elected : Polled(e, ballots)
  /\ \A i \in Server : node[i].role.kind = "Leader" =>
       [leader |-> i, term |-> node[i].log.term] \in elected

OneVote ==
  \A a, b \in ballots :
    a.voter = b.voter /\ a.term = b.term => a.vote = b.vote

Inv ==
  /\ StaticMembership
  /\ NodesStatic
  /\ DOMAIN net \subseteq Envelope
  /\ ballots \subseteq BallotType
  /\ elected \subseteq [leader : Server, term : Nat]
  /\ BallotsPast
  /\ OneVote
  /\ VotesNoted
  /\ \A i \in Server : Knows(i, node[i], ballots)
  /\ \A m \in DOMAIN net : Carried(m, ballots)
  /\ OfficesBacked

-----------------------------------------------------------------------------
(* The network.                                                            *)

\* What is in the network after a call was there before or was sent by it.
LEMMA EmitType ==
  ASSUME NEW nodes, NEW bag, NEW out
  PROVE  DOMAIN Emit(nodes, bag, out) \subseteq DOMAIN bag \cup out
<1> DEFINE S == {m \in out : m.to # m.from /\ {m.from, m.to} \notin Cut}
           b == bag (+) SetToBag(S)
<1>1. DOMAIN b = DOMAIN bag \cup S
  BY DEF (+), SetToBag
<1> HIDE DEF b
<1>2. DOMAIN Emit(nodes, bag, out) \subseteq DOMAIN b
  BY DEF Emit, b
<1> QED BY <1>1, <1>2

\* Taking a message out leaves the others.
LEMMA RemoveType ==
  ASSUME NEW bag, NEW S
  PROVE  DOMAIN (bag (-) SetToBag(S)) \subseteq DOMAIN bag
BY DEF (-)

-----------------------------------------------------------------------------
(* One step of the cluster.                                                *)

\* What history notes of a node after a call.
LEMMA NotedType ==
  ASSUME NEW i \in Server, NEW n \in StaticNode(i)
  PROVE  /\ Ballot(n) \subseteq BallotType
         /\ \A b \in Ballot(n) : /\ b.voter = i /\ b.term = n.log.term
                                 /\ b.vote = n.log.vote
         /\ n.log.vote # Nil =>
              [voter |-> i, term |-> n.log.term, vote |-> n.log.vote] \in Ballot(n)
         /\ Office(n) \subseteq [leader : Server, term : Nat]
         /\ \A e \in Office(n) : /\ n.role.kind = "Leader"
                                 /\ e.leader = i /\ e.term = n.log.term
         /\ n.role.kind = "Leader" =>
              [leader |-> i, term |-> n.log.term] \in Office(n)
<1>1. n.id = i /\ n.log.term \in Nat /\ n.log.vote \in Server \cup {Nil}
  BY FieldTypes
<1>2. \A b \in Ballot(n) : /\ b \in BallotType /\ b.voter = i
                          /\ b.term = n.log.term /\ b.vote = n.log.vote
  BY <1>1 DEF Ballot, Term, BallotType
<1>3. n.log.vote # Nil =>
        [voter |-> i, term |-> n.log.term, vote |-> n.log.vote] \in Ballot(n)
  BY <1>1 DEF Ballot, Term
<1>4. \A e \in Office(n) : /\ e \in [leader : Server, term : Nat]
                          /\ n.role.kind = "Leader"
                          /\ e.leader = i /\ e.term = n.log.term
  BY <1>1 DEF Office, Term
<1>5. n.role.kind = "Leader" =>
        [leader |-> i, term |-> n.log.term] \in Office(n)
  BY <1>1 DEF Office, Term
<1> QED BY <1>2, <1>3, <1>4, <1>5

\* A step whose call obeys Moves, and that delivers, sends and notes what Update
\* says, keeps the invariant.
LEMMA StepKeepsInv ==
  ASSUME Inv, NEW i \in Server, NEW r, Moves(i, node[i], ballots, r),
         NEW bag, DOMAIN bag \subseteq DOMAIN net, Update(i, r, bag)
  PROVE  Inv'
<1> DEFINE n == node[i]
           k == r.n
<1>1. /\ ballots' = ballots \cup Ballot(k)
      /\ elected' = elected \cup Office(k)
      /\ node' = [node EXCEPT ![i] = k]
      /\ net' = Emit(node', bag, r.out)
  BY DEF Update
<1>2. /\ r \in Outcome(i) /\ k \in StaticNode(i) /\ n \in StaticNode(i)
      /\ r.out \subseteq StaticEnv(i)
  BY DEF Moves, Outcome, Inv, NodesStatic
<1> HIDE DEF k
<1>3. /\ \A b \in Ballot(k) : /\ b.voter = i /\ b.term = k.log.term
                              /\ b.vote = k.log.vote
      /\ k.log.vote # Nil =>
           [voter |-> i, term |-> k.log.term, vote |-> k.log.vote] \in Ballot(k)
  BY <1>2, NotedType, Zenon
<1>4. /\ node' \in [Server -> Nodes]
      /\ node'[i] = k
      /\ \A j \in Server : j # i => node'[j] = node[j]
      /\ \A j \in Server : node'[j] \in StaticNode(j)
  <2>1. k \in Nodes
    BY <1>2 DEF Nodes
  <2> QED BY <1>1, <1>2, <2>1 DEF Inv, NodesStatic
<1>5. /\ n.log.term \in Nat /\ n.log.vote \in Server \cup {Nil}
      /\ k.log.term \in Nat /\ k.log.vote \in Server \cup {Nil}
      /\ k.log.term >= n.log.term
      /\ k.log.term = n.log.term /\ n.log.vote # Nil => k.log.vote = n.log.vote
  BY <1>2, FieldTypes DEF Moves, k
<1>6. DOMAIN net' \subseteq DOMAIN net \cup r.out
  BY <1>1, EmitType
<1>7. DOMAIN net' \subseteq Envelope
  BY <1>2, <1>6 DEF Inv, Envelope, StaticEnv
<1>8. ballots' \subseteq BallotType /\ elected' \subseteq [leader : Server, term : Nat]
  BY <1>1, <1>2, NotedType DEF Inv
<1>9. ASSUME NEW b \in ballots
      PROVE  /\ b.voter \in Server /\ b.term \in Nat /\ b.vote \in Server
             /\ b.vote # Nil
             /\ b.term <= node[b.voter].log.term
             /\ b.term = node[b.voter].log.term => b.vote = node[b.voter].log.vote
  BY NodeAssumption DEF Inv, BallotType, BallotsPast
<1>10. BallotsPast'
  <2> SUFFICES ASSUME NEW b \in ballots'
               PROVE  /\ b.term <= node'[b.voter].log.term
                      /\ b.term = node'[b.voter].log.term =>
                           b.vote = node'[b.voter].log.vote
    BY DEF BallotsPast
  <2>1. CASE b \in Ballot(k)
    BY <1>4, <1>5, <1>3, <2>1
  <2>2. CASE b \in ballots /\ b.voter # i
    BY <1>4, <1>9, <2>2
  <2>3. CASE b \in ballots /\ b.voter = i
    BY <1>4, <1>5, <1>9, <2>3
  <2> QED BY <1>1, <2>1, <2>2, <2>3
<1>11. OneVote'
  <2>1. ASSUME NEW a \in Ballot(k), NEW b \in ballots,
               a.voter = b.voter, a.term = b.term
        PROVE  a.vote = b.vote
    <3>1. a.voter = i /\ a.term = k.log.term /\ a.vote = k.log.vote
      BY <1>3
    <3>2. b.term <= n.log.term /\ b.term \in Nat /\ b.vote # Nil
          /\ (b.term = n.log.term => b.vote = n.log.vote)
      BY <1>9, <2>1, <3>1
    <3>3. n.log.term = k.log.term
      BY <1>5, <2>1, <3>1, <3>2
    <3> QED BY <1>5, <2>1, <3>1, <3>2, <3>3
  <2>2. \A a, b \in Ballot(k) : a.vote = b.vote
    BY <1>3
  <2>3. OneVote
    BY DEF Inv
  <2> QED BY <1>1, <2>1, <2>2, <2>3 DEF OneVote
<1>12. VotesNoted'
  <2> SUFFICES ASSUME NEW j \in Server, node'[j].log.vote # Nil
               PROVE  [voter |-> j, term |-> node'[j].log.term,
                       vote |-> node'[j].log.vote] \in ballots'
    BY DEF VotesNoted
  <2>1. CASE j = i
    BY <1>1, <1>4, <1>3, <2>1
  <2>2. CASE j # i
    BY <1>1, <1>4, <2>2 DEF Inv, VotesNoted
  <2> QED BY <2>1, <2>2
<1>13. ASSUME NEW v \in Server, Backed(i, k, ballots, v)
       PROVE  [voter |-> v, term |-> k.log.term, vote |-> i] \in ballots'
  BY <1>1, <1>13, <1>3, NodeAssumption DEF Backed
<1>14. \A j \in Server : Knows(j, node'[j], ballots')
  <2> SUFFICES ASSUME NEW j \in Server, Elective(node'[j]), NEW v \in node'[j].role.votes
               PROVE  [voter |-> v, term |-> node'[j].log.term, vote |-> j] \in ballots'
    BY DEF Knows
  <2>1. CASE j = i
    <3>1. v \in Server
      BY <1>4, VotesOf DEF Elective
    <3>2. Backed(i, k, ballots, v)
      BY <1>4, <2>1 DEF Moves, k
    <3> QED BY <1>4, <1>13, <2>1, <3>1, <3>2
  <2>2. CASE j # i
    BY <1>1, <1>4, <2>2 DEF Inv, Knows
  <2> QED BY <2>1, <2>2
<1>15. \A m \in DOMAIN net' : Carried(m, ballots')
  <2> SUFFICES ASSUME NEW m \in DOMAIN net', Granted(m)
               PROVE  [voter |-> m.from, term |-> m.term, vote |-> m.to] \in ballots'
    BY DEF Carried
  <2>1. CASE m \in DOMAIN net
    BY <1>1, <2>1 DEF Inv, Carried
  <2>2. CASE m \in r.out
    <3>1. m.from = i /\ m.to \in Server
      BY <1>2, <2>2 DEF StaticEnv
    <3>2. m.term = k.log.term /\ m.to = k.log.vote
      BY <2>2 DEF Moves, k
    <3>3. k.log.vote # Nil
      BY <3>1, <3>2, NodeAssumption
    <3> QED BY <1>1, <1>3, <3>1, <3>2, <3>3
  <2> QED BY <1>6, <2>1, <2>2
<1>16. OfficesBacked'
  <2>1. ASSUME NEW e \in elected
        PROVE  Polled(e, ballots')
    <3>1. Polled(e, ballots)
      BY DEF Inv, OfficesBacked
    <3> QED BY <1>1, <3>1 DEF Polled
  <2>2. ASSUME k.role.kind = "Leader"
        PROVE  \/ [leader |-> i, term |-> k.log.term] \in elected
               \/ \E Q \in SUBSET Server :
                    /\ Majority(Server, Q)
                    /\ \A v \in Q : [voter |-> v, term |-> k.log.term, vote |-> i]
                                       \in ballots'
    <3>1. CASE n.role.kind = "Leader" /\ k.log.term = n.log.term
      BY <3>1 DEF Inv, OfficesBacked
    <3>2. CASE \E Q \in SUBSET Server : /\ Majority(Server, Q)
                                       /\ \A v \in Q : Backed(i, k, ballots, v)
      BY <1>13, <3>2
    <3> QED BY <2>2, <3>1, <3>2 DEF Moves, k
  <2>3. ASSUME NEW e \in Office(k)
        PROVE  Polled(e, ballots')
    <3>1. k.role.kind = "Leader" /\ e = [leader |-> i, term |-> k.log.term]
      BY <1>2, FieldTypes DEF Office, Term
    <3>2. CASE e \in elected
      BY <2>1, <3>2
    <3>3. CASE e \notin elected
      BY <2>2, <3>1, <3>3 DEF Polled
    <3> QED BY <3>2, <3>3
  <2>4. \A e \in elected' : Polled(e, ballots')
    BY <1>1, <2>1, <2>3
  <2>5. ASSUME NEW j \in Server, node'[j].role.kind = "Leader"
        PROVE  [leader |-> j, term |-> node'[j].log.term] \in elected'
    <3>1. CASE j = i
      BY <1>1, <1>2, <1>4, <2>5, <3>1, NotedType
    <3>2. CASE j # i
      BY <1>1, <1>4, <2>5, <3>2 DEF Inv, OfficesBacked
    <3> QED BY <3>1, <3>2
  <2> QED BY <2>4, <2>5 DEF OfficesBacked
<1>17. StaticMembership'
  BY DEF Inv, StaticMembership
<1> QED BY <1>4, <1>7, <1>8, <1>10, <1>11, <1>12, <1>14, <1>15, <1>16, <1>17
        DEF Inv, NodesStatic

\* Every step of the cluster is the call of one node that obeys Moves.
LEMMA NextMoves ==
  ASSUME Inv, Next
  PROVE  \E i \in Server : \E r : \E bag :
           /\ Moves(i, node[i], ballots, r)
           /\ DOMAIN bag \subseteq DOMAIN net
           /\ Update(i, r, bag)
<1>1. /\ StaticMembership
      /\ \A i \in Server : node[i] \in StaticNode(i)
      /\ \A i \in Server : Knows(i, node[i], ballots)
      /\ DOMAIN net \subseteq DOMAIN net
  BY DEF Inv, NodesStatic
<1>2. ASSUME NEW i \in Server, Timeout(i)
      PROVE  Moves(i, node[i], ballots, ElectionTick(node[i]))
             /\ Update(i, ElectionTick(node[i]), net)
  BY <1>1, <1>2, ElectionTickMoves DEF Timeout
<1>3. ASSUME NEW i \in Server, NEW due \in BOOLEAN, NEW heard, Tick(i, due, heard)
      PROVE  /\ Moves(i, node[i], ballots, LeaderTick(node[i], due, heard))
             /\ Update(i, LeaderTick(node[i], due, heard), net)
  <2>1. node[i].role.kind = "Leader" /\ Update(i, LeaderTick(node[i], due, heard), net)
    BY <1>3 DEF Tick
  <2> QED BY <1>1, <2>1, LeaderTickMoves
<1>4. ASSUME NEW m \in DOMAIN net, Receive(m)
      PROVE  /\ m.to \in Server
             /\ Moves(m.to, node[m.to], ballots, Step(node[m.to], m))
             /\ DOMAIN (net (-) SetToBag({m})) \subseteq DOMAIN net
             /\ Update(m.to, Step(node[m.to], m), net (-) SetToBag({m}))
  <2>1. m.to \in Server /\ m \in Mail(m.to) /\ Carried(m, ballots)
    BY DEF Inv, Envelope, Mail
  <2>2. /\ node[m.to].role.kind # "Panicked"
        /\ Update(m.to, Step(node[m.to], m), net (-) SetToBag({m}))
    BY <1>4 DEF Receive, Running, Apply
  <2> QED BY <1>1, <2>1, <2>2, StepMoves, RemoveType
<1>5. ASSUME NEW i \in Server, NEW q \in Requests, Ask(i, q)
      PROVE  /\ Moves(i, node[i], ballots, Step(node[i], ClientEnv(i, q)))
             /\ Update(i, Step(node[i], ClientEnv(i, q)), net)
  <2> DEFINE msg == [type |-> "ClientRequest", request |-> q]
             m == ClientEnv(i, q)
  <2>1. msg \in StaticMessage /\ msg.type # "CampaignResponse"
    BY DEF StaticMessage
  <2>2. m = Env(node[i], i, msg)
    BY DEF ClientEnv
  <2> HIDE DEF m, msg
  <2>3. m \in StaticEnv(i) /\ m.to = i /\ m.message = msg
    BY <1>1, <2>1, <2>2, EnvType
  <2>4. m \in Mail(i) /\ Carried(m, ballots)
    BY <2>1, <2>3 DEF Mail, StaticEnv, Carried, Granted
  <2>5. node[i].role.kind # "Panicked"
    BY <1>5, ClusterAssumption DEF Ask
  <2>6. Moves(i, node[i], ballots, Step(node[i], m))
    BY <1>1, <2>4, <2>5, StepMoves
  <2>7. Update(i, Step(node[i], m), net)
    BY <1>5 DEF Ask, m
  <2> QED BY <2>6, <2>7 DEF m
<1>6. ASSUME NEW i \in Server, NEW c \in 0 .. node[i].log.commit, Restart(i, c)
      PROVE  /\ Moves(i, node[i], ballots, NewNode(i, Reopened(node[i].log, c)))
             /\ Update(i, NewNode(i, Reopened(node[i].log, c)), net)
  <2> DEFINE l == Reopened(node[i].log, c)
  <2>1. node[i].log \in StaticLog /\ node[i].log.commit \in Nat
    BY <1>1, FieldTypes
  <2>2. l \in StaticLog /\ SameBallot(node[i].log, l)
    <3>1. c \in Nat
      BY <2>1
    <3> QED BY <2>1, <3>1 DEF Reopened, StaticLog, SameBallot
  <2> HIDE DEF l
  <2>3. Moves(i, node[i], ballots, NewNode(i, l))
    BY <1>1, <2>2, NewNodeMoves
  <2>4. Update(i, NewNode(i, l), net)
    BY <1>6 DEF Restart, l
  <2> QED BY <2>3, <2>4 DEF l
<1>7. CASE \E i \in Server : Timeout(i)
  BY <1>1, <1>2, <1>7
<1>8. CASE \E i \in Server, due \in BOOLEAN : \E heard \in SUBSET Peers(node[i]) :
             Tick(i, due, heard)
  BY <1>1, <1>3, <1>8
<1>9. CASE \E m \in DOMAIN net : Receive(m)
  BY <1>4, <1>9
<1>10. CASE \E i \in Server, q \in Requests : Ask(i, q)
  BY <1>1, <1>5, <1>10
<1>11. CASE \E i \in Server : \E c \in 0 .. node[i].log.commit : Restart(i, c)
  BY <1>1, <1>6, <1>11
<1> QED BY <1>7, <1>8, <1>9, <1>10, <1>11 DEF Next

\* Every step, and every stuttering step, keeps the invariant.
LEMMA NextKeepsInv == Inv /\ [Next]_vars => Inv'
<1> SUFFICES ASSUME Inv, [Next]_vars
             PROVE  Inv'
  OBVIOUS
<1>1. CASE Next
  <2>1. PICK i \in Server : \E r : \E bag :
          /\ Moves(i, node[i], ballots, r)
          /\ DOMAIN bag \subseteq DOMAIN net
          /\ Update(i, r, bag)
    BY <1>1, NextMoves
  <2>2. PICK r : \E bag :
          /\ Moves(i, node[i], ballots, r)
          /\ DOMAIN bag \subseteq DOMAIN net
          /\ Update(i, r, bag)
    BY <2>1
  <2>3. PICK bag :
          /\ Moves(i, node[i], ballots, r)
          /\ DOMAIN bag \subseteq DOMAIN net
          /\ Update(i, r, bag)
    BY <2>2
  <2> QED BY <2>3, StepKeepsInv
<1>2. CASE UNCHANGED vars
  <2>1. node' = node /\ net' = net /\ ballots' = ballots /\ elected' = elected
    BY <1>2 DEF vars
  <2> QED BY <2>1 DEF Inv, StaticMembership, NodesStatic, BallotsPast, OneVote,
                      VotesNoted, OfficesBacked
<1> QED BY <1>1, <1>2

-----------------------------------------------------------------------------
(* The initial states.                                                     *)

\* A cluster of nodes that Node::new has made of empty logs satisfies the
\* invariant; so does the cluster of one, which starts with a leader.
LEMMA InitInv == StaticMembership /\ Init => Inv
<1> SUFFICES ASSUME StaticMembership, Init
             PROVE  Inv
  OBVIOUS
<1> DEFINE l == EmptyLog(EmptyState)
           s(i) == NewNode(i, l)
<1>1. /\ node = [i \in Server |-> s(i).n]
      /\ net = Emit(node, EmptyBag, UNION {s(i).out : i \in Server})
      /\ ballots = UNION {Ballot(node[i]) : i \in Server}
      /\ elected = UNION {Office(node[i]) : i \in Server}
  BY DEF Init
<1>2. l \in StaticLog
  <2>1. EmptyState \in State
    BY EmptySeq DEF EmptyState, State, StateType, Cmd
  <2> QED BY <2>1, EmptyLogType
<1> HIDE DEF l
<1>3. ASSUME NEW i \in Server
      PROVE  /\ s(i) \in Outcome(i) /\ node[i] = s(i).n
             /\ node[i] \in StaticNode(i)
             /\ \A m \in s(i).out : Granted(m) =>
                  m.term = node[i].log.term /\ m.to = node[i].log.vote
             /\ Elective(node[i]) =>
                  \A v \in node[i].role.votes : Backed(i, node[i], {}, v)
             /\ node[i].role.kind = "Leader" =>
                  \E Q \in SUBSET Server :
                    /\ Majority(Server, Q)
                    /\ \A v \in Q : Backed(i, node[i], {}, v)
  <2> DEFINE f == Fresh(i, l)
             r == s(i)
  <2>1. f \in StaticNode(i) /\ f.log = l /\ f.role.kind = "Follower"
    BY <1>2, FreshType
  <2> HIDE DEF f
  <2>2. Moves(i, f, {}, r)
    <3>1. SameBallot(f.log, l)
      BY <2>1 DEF SameBallot
    <3> QED BY <1>2, <2>1, <3>1, NewNodeMoves
  <2>3. node[i] = r.n
    BY <1>1
  <2> HIDE DEF r
  <2>4. r \in Outcome(i) /\ r.n \in StaticNode(i)
    BY <2>2 DEF Moves, Outcome
  <2>5. /\ r \in Outcome(i) /\ node[i] = r.n
        /\ node[i] \in StaticNode(i)
        /\ \A m \in r.out : Granted(m) =>
             m.term = node[i].log.term /\ m.to = node[i].log.vote
        /\ Elective(node[i]) =>
             \A v \in node[i].role.votes : Backed(i, node[i], {}, v)
        /\ node[i].role.kind = "Leader" =>
             \E Q \in SUBSET Server :
               /\ Majority(Server, Q)
               /\ \A v \in Q : Backed(i, node[i], {}, v)
    BY <2>1, <2>2, <2>3, <2>4 DEF Moves
  <2> QED BY <2>5 DEF r
<1> HIDE DEF s
<1>4. ASSUME NEW i \in Server
      PROVE  /\ Ballot(node[i]) \subseteq ballots
             /\ node[i].log.vote # Nil =>
                  [voter |-> i, term |-> node[i].log.term,
                   vote |-> node[i].log.vote] \in ballots
             /\ \A v : Backed(i, node[i], {}, v) =>
                  [voter |-> v, term |-> node[i].log.term, vote |-> i] \in ballots
  <2>1. Ballot(node[i]) \subseteq ballots
    BY <1>1
  <2>2. node[i].log.vote # Nil =>
          [voter |-> i, term |-> node[i].log.term, vote |-> node[i].log.vote]
            \in Ballot(node[i])
    BY <1>3, NotedType, Zenon
  <2> QED BY <2>1, <2>2, NodeAssumption DEF Backed
<1>5. ASSUME NEW b \in ballots
      PROVE  /\ b \in BallotType
             /\ b.term = node[b.voter].log.term
             /\ b.vote = node[b.voter].log.vote
  <2>1. PICK i \in Server : b \in Ballot(node[i])
    BY <1>1
  <2>2. /\ Ballot(node[i]) \subseteq BallotType
        /\ \A x \in Ballot(node[i]) : /\ x.voter = i /\ x.term = node[i].log.term
                                      /\ x.vote = node[i].log.vote
    <3>1. node[i] \in StaticNode(i)
      BY <1>3
    <3> QED BY <3>1, NotedType, Zenon
  <2> QED BY <2>1, <2>2
<1>6. NodesStatic
  <2>1. \A i \in Server : node[i] \in Nodes
    BY <1>3 DEF Nodes
  <2> QED BY <1>1, <1>3, <2>1 DEF NodesStatic
<1>7. ASSUME NEW m \in DOMAIN net
      PROVE  \E i \in Server : m \in s(i).out
  <2>1. DOMAIN net \subseteq DOMAIN EmptyBag \cup UNION {s(i).out : i \in Server}
    BY <1>1, EmitType
  <2>2. DOMAIN EmptyBag = {}
    BY DEF EmptyBag, SetToBag
  <2> QED BY <2>1, <2>2
<1>8. ASSUME NEW m \in DOMAIN net
      PROVE  m \in Envelope /\ Carried(m, ballots)
  <2>1. PICK i \in Server : m \in s(i).out
    BY <1>7
  <2>2. m \in StaticEnv(i)
    BY <1>3, <2>1 DEF Outcome
  <2>3. m \in Envelope /\ m.from = i /\ m.to \in Server
    BY <2>2 DEF StaticEnv, Envelope
  <2>4. Granted(m) => m.term = node[i].log.term /\ m.to = node[i].log.vote
    BY <1>3, <2>1
  <2>5. m.to # Nil
    BY <2>3, NodeAssumption
  <2> QED BY <1>4, <2>3, <2>4, <2>5 DEF Carried
<1>9. BallotsPast
  <2>1. ASSUME NEW b \in ballots
        PROVE  b.term \in Nat
    BY <1>5 DEF BallotType
  <2> QED BY <1>5, <2>1 DEF BallotsPast
<1>10. OneVote
  BY <1>5 DEF OneVote
<1>11. \A i \in Server : Knows(i, node[i], ballots)
  BY <1>3, <1>4 DEF Knows
<1>12. elected \subseteq [leader : Server, term : Nat] /\ OfficesBacked
  <2>1. ASSUME NEW i \in Server, NEW e \in Office(node[i])
        PROVE  /\ e \in [leader : Server, term : Nat]
               /\ Polled(e, ballots)
    <3>1. /\ node[i].role.kind = "Leader"
          /\ e = [leader |-> i, term |-> node[i].log.term]
          /\ node[i].log.term \in Nat
      <4>1. node[i] \in StaticNode(i)
        BY <1>3
      <4>2. node[i].id = i /\ node[i].log.term \in Nat
        BY <4>1, FieldTypes
      <4> QED BY <2>1, <4>2 DEF Office, Term
    <3>2. PICK Q \in SUBSET Server : /\ Majority(Server, Q)
                                    /\ \A v \in Q : Backed(i, node[i], {}, v)
      BY <1>3, <3>1
    <3> QED BY <1>4, <3>1, <3>2 DEF Polled
  <2>2. ASSUME NEW i \in Server, node[i].role.kind = "Leader"
        PROVE  [leader |-> i, term |-> node[i].log.term] \in elected
    <3>1. [leader |-> i, term |-> node[i].log.term] \in Office(node[i])
      BY <1>3, <2>2, NotedType, Zenon
    <3> QED BY <1>1, <3>1
  <2> QED BY <1>1, <2>1, <2>2 DEF OfficesBacked
<1>13. ballots \subseteq BallotType /\ VotesNoted /\ DOMAIN net \subseteq Envelope
  BY <1>4, <1>5, <1>8 DEF VotesNoted
<1> QED BY <1>6, <1>8, <1>9, <1>10, <1>11, <1>12, <1>13 DEF Inv

-----------------------------------------------------------------------------
(* What follows.                                                           *)

\* THEOREM: The invariant holds of every reachable state of a cluster whose
\* membership does not change.
THEOREM InvHolds == StaticMembership /\ Spec => []Inv
<1> QED BY InitInv, NextKeepsInv, PTL DEF Spec

\* Two leaders of one term would need two majorities, which share a voter,
\* who would have voted twice.
LEMMA InvElection == Inv => ElectionSafety
<1> SUFFICES ASSUME Inv, NEW a \in elected, NEW b \in elected, a.term = b.term
             PROVE  a.leader = b.leader
  BY DEF ElectionSafety
<1>1. Polled(a, ballots) /\ Polled(b, ballots)
  BY DEF Inv, OfficesBacked
<1>2. PICK A \in SUBSET Server :
        /\ Majority(Server, A)
        /\ \A v \in A : [voter |-> v, term |-> a.term, vote |-> a.leader] \in ballots
  BY <1>1 DEF Polled
<1>3. PICK B \in SUBSET Server :
        /\ Majority(Server, B)
        /\ \A v \in B : [voter |-> v, term |-> b.term, vote |-> b.leader] \in ballots
  BY <1>1 DEF Polled
<1>4. PICK v \in Server : v \in A /\ v \in B
  <2>1. IsFiniteSet(Server)
    BY NodeAssumption
  <2> QED BY <1>2, <1>3, <2>1, MajoritiesShare
<1>5. OneVote
  BY DEF Inv
<1> QED BY <1>2, <1>3, <1>4, <1>5 DEF OneVote

\* THEOREM: At most one node ever leads a term, in a cluster of any size whose
\* membership does not change, however messages are lost, delayed or
\* reordered and however often nodes time out, stop and restart.
THEOREM StaticElectionSafety == StaticMembership /\ Spec => []ElectionSafety
<1> QED BY InvHolds, InvElection, PTL

\* THEOREM: No node votes twice in a term, and every vote counted by a
\* candidate or under way to it is one that its voter has persisted.
THEOREM StaticVotesBacked == StaticMembership /\ Spec => []VotesBacked
<1>1. Inv => VotesBacked
  BY DEF Inv, OneVote, Knows, Elective, Carried, Granted, VotesBacked, Term
<1> QED BY <1>1, InvHolds, PTL

\* THEOREM: Terms never go back and a vote is never changed within its term,
\* by any step, restarts included: the assertions of Log::set_term_vote.
THEOREM StaticTermVoteMonotonic == StaticMembership /\ Spec => TermVoteMonotonic
<1> DEFINE Kept == \A i \in Server :
                     LET l == node[i].log
                         k == node'[i].log
                     IN /\ k.term >= l.term
                        /\ k.term = l.term /\ l.vote # Nil => k.vote = l.vote
<1>1. Inv /\ [Next]_vars => [Kept]_vars
  <2> SUFFICES ASSUME Inv, Next
               PROVE  Kept
    OBVIOUS
  <2>1. PICK i \in Server : \E r : \E bag :
          /\ Moves(i, node[i], ballots, r)
          /\ DOMAIN bag \subseteq DOMAIN net
          /\ Update(i, r, bag)
    BY NextMoves
  <2>2. PICK r : Moves(i, node[i], ballots, r) /\ node' = [node EXCEPT ![i] = r.n]
    BY <2>1 DEF Update
  <2>3. node \in [Server -> Nodes] /\ \A j \in Server : node[j].log.term \in Nat
    BY FieldTypes DEF Inv, NodesStatic
  <2>4. ASSUME NEW j \in Server
        PROVE  /\ node'[j].log.term >= node[j].log.term
               /\ /\ node'[j].log.term = node[j].log.term
                  /\ node[j].log.vote # Nil
                  => node'[j].log.vote = node[j].log.vote
    <3>1. CASE j = i
      <4>1. node'[j] = r.n
        BY <2>2, <2>3, <3>1
      <4> QED BY <2>2, <3>1, <4>1 DEF Moves
    <3>2. CASE j # i
      <4>1. node'[j] = node[j]
        BY <2>2, <2>3, <3>2
      <4> QED BY <2>3, <4>1
    <3> QED BY <3>1, <3>2
  <2> QED BY <2>4
<1>2. Spec => [][Next]_vars
  BY PTL DEF Spec
<1> QED BY <1>1, <1>2, InvHolds, PTL DEF TermVoteMonotonic

\* Entries that carry no configuration are entries.
LEMMA EntrySeqs == Seq(StaticEntry) \subseteq Seq(EntryType(Ids))
<1>1. StaticEntry \subseteq EntryType(Ids)
  BY DEF StaticEntry, EntryType, Cmd
<1> SUFFICES ASSUME NEW q \in Seq(StaticEntry)
             PROVE  q \in Seq(EntryType(Ids))
  OBVIOUS
<1>2. Len(q) \in Nat /\ q \in [1 .. Len(q) -> StaticEntry]
  BY LenProperties
<1>3. q \in [1 .. Len(q) -> EntryType(Ids)]
  BY <1>1, <1>2
<1> QED BY <1>2, <1>3, SeqDef

\* THEOREM: Every node, every envelope in flight and the history are of their
\* types: the parts of TypeOK that do not concern the clients.
THEOREM StaticTypes ==
  StaticMembership /\ Spec => [](NodesTyped /\ NetTyped /\ HistoryTyped)
<1> DEFINE Spent == spent \in [{"timeouts", "ticks", "stops"} -> Nat]
<1>1. Init => Spent
  BY DEF Init
<1>2. Spent /\ [Next]_vars => Spent'
  <2> SUFFICES ASSUME Spent, Next
               PROVE  Spent'
    BY DEF vars
  <2>1. ASSUME NEW what \in {"timeouts", "ticks", "stops"}, NEW max, Spend(what, max)
        PROVE  Spent'
    BY <2>1 DEF Spend
  <2>2. Spent' \/ spent' = spent
    BY <2>1 DEF Next, Timeout, Tick, Receive, Ask, Restart
  <2> QED BY <2>2
<1>3. Inv => NodesTyped /\ NetTyped
  <2> SUFFICES ASSUME Inv
               PROVE  NodesTyped /\ NetTyped
    OBVIOUS
  <2>1. ASSUME NEW i \in Server
        PROVE  node[i].id = i /\ node[i] \in NodeType(Ids, Server \ {i})
    <3>1. node[i] \in StaticNode(i)
      BY DEF Inv, NodesStatic
    <3>2. StaticLog \subseteq LogType(Ids)
      <4>1. Seq(StaticEntry) \subseteq Seq(EntryType(Ids))
        BY EntrySeqs
      <4> QED BY <4>1 DEF StaticLog, LogType, State
    <3>3. Bootstrap(Server) \in MembershipState(Server)
      BY DEF Bootstrap, Simple, MembershipState, MembershipEntry
    <3>4. /\ node[i].id = i /\ node[i].log \in LogType(Ids)
          /\ node[i].mem \in MembershipState(Server)
          /\ node[i].sm \in StateType(Ids)
          /\ node[i].role \in FollowerType(Ids) \cup CandidateType
                             \cup LeaderType(Ids, Server \ {i}) \cup PanickedType
      BY <3>1, <3>2, <3>3 DEF StaticNode, Role, Lead, State
    <3>5. node[i] = [id |-> node[i].id, log |-> node[i].log, mem |-> node[i].mem,
                     sm |-> node[i].sm, role |-> node[i].role]
      BY <3>1 DEF StaticNode
    <3> QED BY <3>4, <3>5 DEF NodeType
  <2>2. DOMAIN node = Server
    BY DEF Inv, NodesStatic
  <2>3. NodesTyped
    BY <2>1, <2>2 DEF NodesTyped
  <2>4. StaticMessage \subseteq MessageType(Requests, Ids)
    <3>1. Seq(StaticEntry) \subseteq Seq(EntryType(Ids))
      BY EntrySeqs
    <3>2. Simple(Server) \in MembershipEntry(Server)
      BY DEF Simple, MembershipEntry
    <3>3. [type : {"Append"}, base_index : Nat, base_term : Nat,
           entries : Seq(StaticEntry)]
          \subseteq [type : {"Append"}, base_index : Nat, base_term : Nat,
                     entries : Seq(EntryType(Ids))]
      BY <3>1
    <3>4. [type : {"InstallSnapshot"}, last_included_index : Nat,
           last_included_term : Nat, data : StateType(Ids),
           membership : {Simple(Server)}]
          \subseteq [type : {"InstallSnapshot"}, last_included_index : Nat,
                     last_included_term : Nat, data : StateType(Ids),
                     membership : MembershipEntry(Server)]
      BY <3>2
    <3> DEFINE Appends(E) == [type : {"Append"}, base_index : Nat,
                              base_term : Nat, entries : Seq(E)]
               Installs(M) == [type : {"InstallSnapshot"},
                               last_included_index : Nat,
                               last_included_term : Nat,
                               data : StateType(Ids), membership : M]
    <3>5. ASSUME NEW m \in StaticMessage
          PROVE  m \in MessageType(Requests, Ids)
      <4>1. CASE m \in Appends(StaticEntry)
        BY <3>3, <4>1, Zenon DEF MessageType
      <4>2. CASE m \in Installs({Simple(Server)})
        BY <3>4, <4>2, Zenon DEF MessageType
      <4>3. CASE m \notin Appends(StaticEntry) /\ m \notin Installs({Simple(Server)})
        BY <4>3, Zenon DEF StaticMessage, MessageType, State, Cmd
      <4> QED BY <4>1, <4>2, <4>3
    <3> QED BY <3>5
  <2>5. NetTyped
    BY <2>4 DEF Inv, NetTyped, Envelope, EnvelopeType
  <2> QED BY <2>3, <2>5
<1>4. Inv /\ Spent => HistoryTyped
  BY DEF Inv, HistoryTyped, BallotType
<1> QED BY <1>1, <1>2, <1>3, <1>4, InvHolds, PTL DEF Spec

=============================================================================
