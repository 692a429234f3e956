----------------------------- MODULE ServerProofs -----------------------------
(***************************************************************************)
(* Theorems about the server: whatever peers connect, ask, stop reading    *)
(* and die, a call speaks for the process that asked for it, a worker is   *)
(* registered on a connection that is served, and a server that has        *)
(* stopped leaves nobody who may speak.                                    *)
(***************************************************************************)
EXTENDS WorkerProtocol, ReviewProofs, SequenceTheorems

\* What start leaves of a journal: any targets, critics, workers and reviews,
\* and no worker that may speak.
Started == TypeOK /\ RegistryInv /\ \A w \in DOMAIN workers : ~Authoritative(w)

ProtocolSpec == Started /\ ProtocolInit /\ [][ProtocolNext]_allVars

-----------------------------------------------------------------------------
(* The invariant.                                                          *)

AtWork == {"reading", "registering", "looking", "notifying", "answering", "forgetting"}
Stages == AtWork \cup {"none", "fencing", "done"}

\* A process asks on behalf of its own identity; a controller sends orders.
Asked(k, q) ==
    \/ q = NoRequest
    \/ k \in Processes /\ \E kind \in Calls : \E review, evidence :
            q = WorkerRequest(k, kind, review, evidence)
    \/ k \notin Processes /\ q.kind \in Orders

\* The threads and what the accept loop holds.
ThreadsInv ==
    /\ stage \in [Peers -> Stages]
    /\ threads \in Seq(Peers)
    /\ connections \in Seq(Peers)
    /\ acceptor = "reaping" => connections # <<>> /\ cursor \in Nat \ {0}
    /\ server \in {"closing", "down"} => acceptor = "ended"
    /\ \A k \in Peers : stage[k] \notin {"none", "done"} => k \in Range(threads)
    /\ server = "down" => \A k \in Peers : stage[k] \in {"none", "done"}

\* A connection that has not been accepted has no thread, nor has the one that
\* is being accepted.
ConnectionsInv ==
    /\ link = [k \in Peers |-> link[k]]
    /\ phase = [k \in Peers |-> phase[k]]
    /\ \A k \in Peers : phase[k] = "off" => link[k] = "none"
    /\ \A k \in Peers : link[k] \in {"none", "queued"} => stage[k] = "none"
    /\ \A k \in Peers : k \in Range(connections) => link[k] \notin {"none", "queued"}
    /\ acceptor = "reaping" =>
          /\ Last(connections) \in Peers
          /\ stage[Last(connections)] = "none"
          /\ link[Last(connections)] \notin {"none", "queued"}

\* The requests, and where a registration is under way.
RequestsInv ==
    /\ request = [k \in Peers |-> request[k]]
    /\ \A k \in Peers : Asked(k, request[k])
    /\ \A k \in Peers : stage[k] = "registering" => k \in Processes /\ request[k] # NoRequest

\* A worker's connection is at work and knows that it owns the worker.
RoutesInv ==
    /\ owned \in [Peers -> Seq(Workers)]
    /\ \A w \in DOMAIN route :
          /\ route[w] \in Peers
          /\ stage[route[w]] \in AtWork
          /\ w \in Range(owned[route[w]])

\* The thread of a process that may speak owns its worker, or is about to.
VoicesInv ==
    \A w \in DOMAIN workers : Authoritative(w) =>
        /\ workers[w].boot \in Processes
        /\ w = Identity[workers[w].boot].worker
        /\ stage[workers[w].boot] \notin {"none", "done"}
        /\ stage[workers[w].boot] # "registering" => w \in Range(owned[workers[w].boot])

ServerInv == ThreadsInv /\ ConnectionsInv /\ RequestsInv /\ RoutesInv /\ VoicesInv

-----------------------------------------------------------------------------
(* Sequences.                                                              *)

\* A sequence holds what it held, and what was appended.
LEMMA Appended ==
    ASSUME NEW S, NEW s \in Seq(S), NEW e \in S
    PROVE  /\ Append(s, e) \in Seq(S)
           /\ Append(s, e) # <<>>
           /\ Range(Append(s, e)) = Range(s) \cup {e}
           /\ Last(Append(s, e)) = e
<1>1. Append(s, e) \in Seq(S) /\ Len(Append(s, e)) = Len(s) + 1 /\ Len(s) \in Nat
      /\ \A i \in 1 .. Len(s) : Append(s, e)[i] = s[i]
      /\ Append(s, e)[Len(s) + 1] = e
  BY AppendProperties, LenProperties
<1>2. \A i \in 1 .. Len(s) + 1 : i \in 1 .. Len(s) \/ i = Len(s) + 1
  BY <1>1
<1>3. DOMAIN Append(s, e) = 1 .. Len(s) + 1 /\ DOMAIN s = 1 .. Len(s)
  BY <1>1, LenProperties
<1> DEFINE t == Append(s, e)
<1>4. /\ Len(t) = Len(s) + 1 /\ t[Len(s) + 1] = e
      /\ \A i \in 1 .. Len(s) : t[i] = s[i]
      /\ DOMAIN t = 1 .. Len(s) + 1
  BY <1>1, <1>3
<1>5. t \in Seq(S) /\ t # <<>>
  BY AppendProperties
<1> HIDE DEF t
<1>6. \A x \in Range(t) : x \in Range(s) \cup {e}
  BY <1>2, <1>3, <1>4 DEF Range
<1>7. \A i \in DOMAIN s : s[i] \in Range(t)
  BY <1>1, <1>3, <1>4 DEF Range
<1>8. e \in Range(t)
  BY <1>1, <1>4 DEF Range
<1>9. Range(t) = Range(s) \cup {e} /\ Last(t) = e
  BY <1>4, <1>6, <1>7, <1>8 DEF Range, Last
<1> QED
  BY <1>5, <1>9 DEF t

\* Taking the first element leaves the others.
LEMMA Shortened ==
    ASSUME NEW S, NEW s \in Seq(S), s # <<>>
    PROVE  /\ Head(s) \in S
           /\ Tail(s) \in Seq(S)
           /\ \A x \in Range(s) : x = Head(s) \/ x \in Range(Tail(s))
<1>1. /\ Len(s) \in Nat \ {0}
      /\ DOMAIN s = 1 .. Len(s)
      /\ Tail(s) \in Seq(S)
      /\ Len(Tail(s)) = Len(s) - 1
      /\ \A i \in 1 .. Len(Tail(s)) : Tail(s)[i] = s[i + 1]
      /\ Head(s) = s[1]
      /\ s[1] \in S
  BY HeadTailProperties, LenProperties, EmptySeq, ElementOfSeq
<1>2. DOMAIN Tail(s) = 1 .. Len(s) - 1
  BY <1>1, LenProperties
<1>3. ASSUME NEW i \in DOMAIN s
      PROVE  s[i] = Head(s) \/ s[i] \in Range(Tail(s))
  <2>1. CASE i = 1
    BY <1>1, <2>1
  <2>2. CASE i # 1
    <3>1. i - 1 \in 1 .. Len(s) - 1 /\ (i - 1) + 1 = i
      BY <1>1, <2>2
    <3>2. Tail(s)[i - 1] = s[i]
      BY <1>1, <3>1
    <3> QED BY <1>2, <3>1, <3>2 DEF Range
  <2> QED BY <2>1, <2>2
<1> QED
  BY <1>1, <1>3 DEF Range

\* The end of a sequence after its entry i.
LEMMA EndOf ==
    ASSUME NEW S, NEW s \in Seq(S), NEW i \in 1 .. Len(s)
    PROVE  /\ SubSeq(s, i + 1, Len(s)) \in Seq(S)
           /\ Len(SubSeq(s, i + 1, Len(s))) = Len(s) - i
           /\ \A j \in 1 .. Len(s) - i : SubSeq(s, i + 1, Len(s))[j] = s[j + i]
<1>1. PICK n \in Nat : n = Len(s)
  BY LenProperties
<1>2. PICK m \in Nat : m = i + 1 /\ m <= n + 1
  BY <1>1
<1>3. \A j \in m .. n : s[j] \in S
  BY <1>1, <1>2, ElementOfSeq
<1> DEFINE b == SubSeq(s, m, n)
<1>4. /\ b \in Seq(S)
      /\ Len(b) = IF m <= n THEN n - m + 1 ELSE 0
      /\ \A j \in 1 .. n - m + 1 : b[j] = s[m + j - 1]
  BY <1>3, SubSeqProperties
<1> HIDE DEF b
<1>5. Len(b) = n - m + 1
  BY <1>2, <1>4
<1>6. n - m + 1 = n - i
  BY <1>1, <1>2
<1>7. ASSUME NEW j \in 1 .. n - i PROVE b[j] = s[j + i]
  <2>1. j \in 1 .. n - m + 1 /\ m + j - 1 = j + i
    BY <1>1, <1>2, <1>6
  <2> QED BY <1>4, <2>1
<1>8. b = SubSeq(s, i + 1, Len(s))
  BY <1>1, <1>2 DEF b
<1> QED
  BY <1>1, <1>4, <1>5, <1>6, <1>7, <1>8

\* Removing one entry leaves the others.
LEMMA Without ==
    ASSUME NEW S, NEW s \in Seq(S), NEW i \in 1 .. Len(s)
    PROVE  /\ RemoveAt(s, i) \in Seq(S)
           /\ \A x \in Range(s) : x = s[i] \/ x \in Range(RemoveAt(s, i))
<1> DEFINE a == SubSeq(s, 1, i - 1)
           b == SubSeq(s, i + 1, Len(s))
<1>1. Len(s) \in Nat /\ DOMAIN s = 1 .. Len(s)
  BY LenProperties
<1>2. /\ a \in Seq(S) /\ Len(a) = i - 1
      /\ \A j \in 1 .. i - 1 : a[j] = s[j]
  BY <1>1, SubSeqProperties
<1>3. /\ b \in Seq(S) /\ Len(b) = Len(s) - i
      /\ \A j \in 1 .. Len(s) - i : b[j] = s[j + i]
  BY EndOf
<1>4. RemoveAt(s, i) = a \o b
  BY DEF RemoveAt
<1> HIDE DEF a, b
<1>5. /\ a \o b \in Seq(S)
      /\ Len(a \o b) = Len(s) - 1
      /\ \A j \in 1 .. Len(s) - 1 : (a \o b)[j] = IF j < i THEN s[j] ELSE s[j + 1]
  <2>1. a \o b \in Seq(S) /\ Len(a \o b) = Len(a) + Len(b)
        /\ \A j \in 1 .. Len(a) + Len(b) :
              (a \o b)[j] = IF j <= Len(a) THEN a[j] ELSE b[j - Len(a)]
    BY <1>2, <1>3, ConcatProperties
  <2>2. Len(a) + Len(b) = Len(s) - 1
    BY <1>1, <1>2, <1>3
  <2>3. ASSUME NEW j \in 1 .. Len(s) - 1
        PROVE  (a \o b)[j] = IF j < i THEN s[j] ELSE s[j + 1]
    <3>1. CASE j < i
      BY <1>1, <1>2, <2>1, <2>2, <3>1
    <3>2. CASE ~(j < i)
      <4>1. j - Len(a) \in 1 .. Len(s) - i /\ ~(j <= Len(a)) /\ (j - Len(a)) + i = j + 1
        BY <1>1, <1>2, <3>2
      <4> QED BY <1>3, <2>1, <2>2, <3>2, <4>1
    <3> QED BY <3>1, <3>2
  <2> QED BY <2>1, <2>2, <2>3
<1>6. DOMAIN (a \o b) = 1 .. Len(s) - 1
  BY <1>5, LenProperties
<1>7. ASSUME NEW j \in DOMAIN s, j # i
      PROVE  s[j] \in Range(a \o b)
  <2>1. CASE j < i
    <3>1. j \in 1 .. Len(s) - 1
      BY <1>1, <2>1
    <3> QED BY <1>5, <1>6, <2>1, <3>1 DEF Range
  <2>2. CASE ~(j < i)
    <3>1. j - 1 \in 1 .. Len(s) - 1 /\ ~(j - 1 < i) /\ (j - 1) + 1 = j
      BY <1>1, <1>7, <2>2
    <3>2. (a \o b)[j - 1] = s[j]
      BY <1>5, <3>1
    <3> QED BY <1>6, <3>1, <3>2 DEF Range
  <2> QED BY <2>1, <2>2
<1> QED
  BY <1>4, <1>5, <1>7 DEF Range

-----------------------------------------------------------------------------
(* Steps of the clients.                                                   *)

\* A client touches its socket, its own state and its request, nothing else, and
\* connects once.
Moves(k) ==
    \E x : /\ x # "off"
           /\ phase' = [phase EXCEPT ![k] = x]
           /\ \/ UNCHANGED link
              \/ phase[k] = "off" /\ link' = [link EXCEPT ![k] = "queued"]

Asks(k) ==
    \E q : /\ Asked(k, q) /\ q # NoRequest
           /\ request' = [request EXCEPT ![k] = q]

ClientStep(k) ==
    /\ UNCHANGED <<vars, server, accepting, routing, stage>>
    /\ UNCHANGED request \/ Asks(k)
    /\ UNCHANGED <<phase, link>> \/ Moves(k)

\* What processes and controllers do has this form.
LEMMA ClientSteps ==
    ASSUME \/ \E p \in Processes : Launch(p) \/ ConnectFails(p) \/ Reacts(p) \/ Dies(p)
           \/ \E c \in Controllers :
                \/ \E kind \in Orders, r \in Requests : Order(c, kind, r)
                \/ Ordered(c) \/ ConnectionLost(c) \/ Dies(c)
    PROVE  \E k \in Peers : ClientStep(k)
<1>1. ASSUME NEW p \in Processes, NEW kind \in Calls, NEW review, NEW evidence
      PROVE  /\ Asked(p, WorkerRequest(p, kind, review, evidence))
             /\ WorkerRequest(p, kind, review, evidence) # NoRequest
  <2>1. WorkerRequest(p, kind, review, evidence).kind # NoRequest.kind
    BY <1>1 DEF WorkerRequest, NoRequest, Calls
  <2> QED BY <1>1, <2>1 DEF Asked
<1>2. ASSUME NEW p \in Processes, NEW kind \in Calls, NEW review, NEW evidence,
             Ask(p, WorkerRequest(p, kind, review, evidence))
      PROVE  Asks(p) /\ (UNCHANGED link => Moves(p))
  <2>1. kind # "off"
    BY <1>2 DEF Calls
  <2>2. WorkerRequest(p, kind, review, evidence).kind = kind
    BY DEF WorkerRequest
  <2> QED BY <1>1, <1>2, <2>1, <2>2 DEF Ask, Asks, Moves
<1>3. ASSUME NEW p \in Processes, NEW seats, Service(p, seats), UNCHANGED link
      PROVE  (UNCHANGED request \/ Asks(p)) /\ Moves(p)
  <2>1. CASE seats = <<>>
    BY <1>3, <2>1 DEF Service, Moves
  <2>2. CASE seats # <<>>
    <3>1. "SubmitEvidence" \in Calls
      BY DEF Calls
    <3> QED BY <1>2, <1>3, <2>2, <3>1 DEF Service
  <2> QED BY <2>1, <2>2
<1>4. ASSUME NEW p \in Processes, Launch(p)
      PROVE  ClientStep(p)
  <2>1. Asks(p)
    BY <1>2, <1>4 DEF Launch, Calls
  <2>2. Moves(p)
    BY <1>4 DEF Launch, Ask, Moves, WorkerRequest
  <2> QED BY <1>4, <2>1, <2>2 DEF Launch, ClientStep
<1>5. ASSUME NEW k, ConnectFails(k) \/ DropNotice(k) \/ ConnectionLost(k) \/ Refused(k) \/ Dies(k)
      PROVE  ClientStep(k)
  <2>1. UNCHANGED <<vars, server, accepting, routing, stage, request, link>>
    BY <1>5 DEF ConnectFails, DropNotice, ConnectionLost, Refused, Dies, serverVars, sockets,
                calling
  <2>2. UNCHANGED phase \/ Moves(k)
    BY <1>5, <2>1 DEF ConnectFails, DropNotice, ConnectionLost, Refused, Dies, Leave, Moves
  <2> QED BY <2>1, <2>2 DEF ClientStep
<1>6. ASSUME NEW p \in Processes, Registered(p) \/ Declared(p) \/ EvidenceRecorded(p)
      PROVE  ClientStep(p)
  <2>1. UNCHANGED <<vars, server, accepting, routing, stage, link>>
    BY <1>6 DEF Registered, Declared, EvidenceRecorded
  <2>2. Asks(p) /\ Moves(p)
    BY <1>2, <1>6, <2>1 DEF Registered, Declared, EvidenceRecorded, Calls
  <2> QED BY <2>1, <2>2 DEF ClientStep
<1>7. ASSUME NEW p \in Processes, Queried(p) \/ Noticed(p)
      PROVE  ClientStep(p)
  <2>1. UNCHANGED <<vars, server, accepting, routing, stage, link>>
    BY <1>7 DEF Queried, Noticed
  <2> QED BY <1>3, <1>7, <2>1 DEF Queried, Noticed, ClientStep
<1>8. ASSUME NEW p \in Processes, FindingRecorded(p)
      PROVE  ClientStep(p)
  <2>1. UNCHANGED <<vars, server, accepting, routing, stage, link>>
    BY <1>8 DEF FindingRecorded
  <2>2. CASE Leave(p, "finished") /\ UNCHANGED request
    BY <2>1, <2>2 DEF Leave, Moves, ClientStep
  <2>3. CASE Service(p, Tail(todo[p]))
    BY <1>3, <2>1, <2>3 DEF ClientStep
  <2> QED BY <1>8, <2>2, <2>3 DEF FindingRecorded
<1>9. ASSUME NEW c \in Controllers, NEW kind \in Orders, NEW r, Order(c, kind, r)
      PROVE  ClientStep(c)
  <2> DEFINE q == [kind |-> kind, review |-> r]
  <2>1. /\ UNCHANGED <<vars, server, accepting, routing, stage>>
        /\ request' = [request EXCEPT ![c] = q]
        /\ phase' = [phase EXCEPT ![c] = q.kind]
        /\ \/ UNCHANGED link
           \/ phase[c] = "off" /\ link' = [link EXCEPT ![c] = "queued"]
    BY <1>9 DEF Order, Ask
  <2>2. q.kind = kind /\ NoRequest.kind = "None"
    BY DEF NoRequest
  <2>3. kind # "None" /\ kind # "off" /\ c \notin Processes
    BY <1>9, OrdersAssumption, PeersAssumption
  <2>4. Asked(c, q) /\ q # NoRequest
    BY <1>9, <2>2, <2>3 DEF Asked
  <2>5. Asks(c)
    BY <2>1, <2>4 DEF Asks
  <2>6. Moves(c)
    BY <2>1, <2>2, <2>3 DEF Moves
  <2> QED BY <2>1, <2>5, <2>6 DEF ClientStep
<1>10. ASSUME NEW c, Ordered(c)
       PROVE  ClientStep(c)
  BY <1>10 DEF Ordered, calling, ClientStep, Moves
<1>11. Processes \subseteq Peers /\ Controllers \subseteq Peers
  BY PeersAssumption
<1> QED
  BY <1>4, <1>5, <1>6, <1>7, <1>8, <1>9, <1>10, <1>11 DEF Reacts

\* What clients do keeps the invariant.
LEMMA ClientsKeep ==
    ASSUME ServerInv, NEW k \in Peers, ClientStep(k)
    PROVE  ServerInv'
<1>1. ThreadsInv'
  BY DEF ServerInv, ThreadsInv, accepting, ClientStep
<1>2. RoutesInv'
  BY DEF ServerInv, RoutesInv, routing, ClientStep
<1>3. VoicesInv'
  BY DEF ServerInv, VoicesInv, routing, vars, registry, Authoritative, ClientStep
<1>4. RequestsInv'
  <2>1. CASE UNCHANGED request
    BY <2>1 DEF ServerInv, RequestsInv, Asked, ClientStep
  <2>2. ASSUME NEW q, Asked(k, q), q # NoRequest, request' = [request EXCEPT ![k] = q]
        PROVE  RequestsInv'
    <3>1. request' = [j \in Peers |-> IF j = k THEN q ELSE request[j]]
      BY <2>2 DEF ServerInv, RequestsInv
    <3>2. \A j \in Peers : Asked(j, request[j])
      BY DEF ServerInv, RequestsInv
    <3>3. \A j \in Peers : Asked(j, request'[j])
      BY <2>2, <3>1, <3>2
    <3>4. \A j \in Peers : Asked(j, request'[j]) = (Asked(j, request[j]))'
      BY DEF Asked
    <3> HIDE DEF Asked
    <3> QED BY <2>2, <3>1, <3>3, <3>4 DEF ServerInv, RequestsInv, ClientStep
  <2> QED BY <2>1, <2>2 DEF ClientStep, Asks
<1>5. ConnectionsInv'
  <2>1. CASE UNCHANGED <<phase, link>>
    BY <2>1 DEF ServerInv, ConnectionsInv, accepting, ClientStep
  <2>2. ASSUME NEW x, x # "off", phase' = [phase EXCEPT ![k] = x],
               \/ UNCHANGED link
               \/ phase[k] = "off" /\ link' = [link EXCEPT ![k] = "queued"]
        PROVE  ConnectionsInv'
    <3>1. phase' = [j \in Peers |-> IF j = k THEN x ELSE phase[j]]
      BY <2>2 DEF ServerInv, ConnectionsInv
    <3>2. \/ UNCHANGED link
          \/ phase[k] = "off" /\ link' = [j \in Peers |-> IF j = k THEN "queued" ELSE link[j]]
      BY <2>2 DEF ServerInv, ConnectionsInv
    <3>3. UNCHANGED <<acceptor, connections, stage>>
      BY DEF ClientStep, accepting
    <3>4. \A j \in Peers :
            link'[j] = link[j] \/ (j = k /\ link[j] = "none" /\ link'[j] = "queued")
      <4>1. CASE UNCHANGED link
        BY <4>1
      <4>2. CASE phase[k] = "off" /\ link' = [j \in Peers |-> IF j = k THEN "queued" ELSE link[j]]
        BY <4>2 DEF ServerInv, ConnectionsInv
      <4> QED BY <3>2, <4>1, <4>2
    <3>5. \A j \in Peers : phase'[j] = "off" => phase[j] = "off" /\ link'[j] = link[j]
      BY <2>2, <3>1, <3>2 DEF ServerInv, ConnectionsInv
    <3>6. link' = [j \in Peers |-> link'[j]] /\ phase' = [j \in Peers |-> phase'[j]]
      BY <3>1, <3>2 DEF ServerInv, ConnectionsInv
    <3> QED BY <3>3, <3>4, <3>5, <3>6 DEF ServerInv, ConnectionsInv
  <2> QED BY <2>1, <2>2 DEF ClientStep, Moves
<1> QED
  BY <1>1, <1>2, <1>3, <1>4, <1>5 DEF ServerInv

-----------------------------------------------------------------------------
(* Steps of the accept loop and of stop.                                   *)

\* Accepting, reaping and starting threads keeps the invariant: a thread is
\* removed only when it has returned.
LEMMA AcceptorKeeps ==
    ASSUME ServerInv, AcceptorStep, UNCHANGED phase
    PROVE  ServerInv'
<1>1. ASSUME NEW k \in Peers, Accept(k)
      PROVE  ServerInv'
  <2>1. UNCHANGED <<vars, request, server, threads, stage, routing>> /\ server = "up"
    BY <1>1 DEF Accept, calling
  <2>2. /\ connections' \in Seq(Peers)
        /\ acceptor' = "reaping" => connections' # <<>> /\ cursor' \in Nat \ {0}
    <3>1. CASE Refuse(k)
      BY <1>1, <3>1 DEF Refuse, ServerInv, ThreadsInv
    <3>2. CASE Admit(k)
      BY <1>1, <3>2, Appended DEF Admit, ServerInv, ThreadsInv
    <3> QED BY <1>1, <3>1, <3>2 DEF Accept
  <2>3. ThreadsInv'
    BY <2>1, <2>2 DEF ServerInv, ThreadsInv
  <2>4. ConnectionsInv'
    <3>1. link[k] = "queued" /\ acceptor = "polling" /\ connections \in Seq(Peers)
      BY <1>1 DEF Accept, ServerInv, ThreadsInv
    <3>2. CASE Refuse(k)
      <4>1. /\ link' = [j \in Peers |-> IF j = k THEN "closed" ELSE link[j]]
            /\ acceptor' = "polling" /\ UNCHANGED connections
        BY <3>1, <3>2 DEF Refuse, ServerInv, ConnectionsInv
      <4> QED BY <2>1, <3>1, <4>1 DEF ServerInv, ConnectionsInv
    <3>3. CASE Admit(k)
      <4>1. link' = [j \in Peers |-> IF j = k THEN "open" ELSE link[j]]
        BY <3>3 DEF Admit, ServerInv, ConnectionsInv
      <4>2. Last(connections') = k /\ Range(connections') = Range(connections) \cup {k}
        BY <3>1, <3>3, Appended DEF Admit
      <4> QED BY <2>1, <3>1, <4>1, <4>2 DEF ServerInv, ConnectionsInv
    <3> QED BY <1>1, <3>2, <3>3 DEF Accept
  <2> QED BY <2>1, <2>3, <2>4 DEF ServerInv, RequestsInv, RoutesInv, VoicesInv, Asked, routing,
                            vars, registry, Authoritative
<1>2. ASSUME Reap
      PROVE  ServerInv'
  <2>1. /\ UNCHANGED <<vars, request, server, acceptor, connections, stage, routing>>
        /\ acceptor = "reaping"
    BY <1>2 DEF Reap, calling
  <2>2. cursor \in Nat \ {0} /\ threads \in Seq(Peers)
    BY <2>1 DEF ServerInv, ThreadsInv
  <2>3. cursor' \in Nat \ {0}
    BY <1>2, <2>2 DEF Reap
  <2>4. /\ threads' \in Seq(Peers)
        /\ \A k \in Range(threads) : stage[k] = "done" \/ k \in Range(threads')
    <3>1. CASE UNCHANGED threads
      BY <2>2, <3>1
    <3>2. CASE stage[threads[cursor]] = "done" /\ threads' = RemoveAt(threads, cursor)
      <4>1. cursor \in 1 .. Len(threads)
        BY <1>2, <2>2, LenProperties DEF Reap
      <4> QED BY <2>2, <3>2, <4>1, Without
    <3> QED BY <1>2, <3>1, <3>2 DEF Reap
  <2>5. ThreadsInv'
    BY <2>1, <2>3, <2>4 DEF ServerInv, ThreadsInv
  <2>6. ConnectionsInv'
    BY <1>2, <2>1 DEF Reap, sockets, ServerInv, ConnectionsInv
  <2> QED BY <2>1, <2>5, <2>6 DEF ServerInv, RequestsInv, RoutesInv, VoicesInv, Asked, routing,
                            vars, registry, Authoritative
<1>3. ASSUME Spawn
      PROVE  ServerInv'
  <2> DEFINE n == Last(connections)
  <2>1. /\ UNCHANGED <<vars, request, server, connections, routing>>
        /\ acceptor = "reaping" /\ acceptor' = "polling"
        /\ threads' = Append(threads, n)
        /\ stage' = [stage EXCEPT ![n] = "reading"]
    BY <1>3 DEF Spawn, calling
  <2>2. n \in Peers
    <3>1. connections \in Seq(Peers) /\ connections # <<>>
      BY <2>1 DEF ServerInv, ThreadsInv
    <3>2. Len(connections) \in 1 .. Len(connections)
      BY <3>1, EmptySeq
    <3> QED BY <3>1, <3>2, ElementOfSeq DEF Last
  <2> HIDE DEF n
  <2>3. threads' \in Seq(Peers) /\ Range(threads') = Range(threads) \cup {n}
    BY <2>1, <2>2, Appended DEF ServerInv, ThreadsInv
  <2>4. stage' = [k \in Peers |-> IF k = n THEN "reading" ELSE stage[k]]
    BY <2>1 DEF ServerInv, ThreadsInv
  <2>5. server \notin {"closing", "down"}
    BY <2>1 DEF ServerInv, ThreadsInv
  <2>6. stage' \in [Peers -> Stages]
    BY <2>4 DEF ServerInv, ThreadsInv, Stages, AtWork
  <2>7. ThreadsInv'
    BY <2>1, <2>3, <2>4, <2>5, <2>6 DEF ServerInv, ThreadsInv
  <2>8. RequestsInv'
    BY <2>1, <2>4 DEF ServerInv, RequestsInv, Asked
  <2>9. RoutesInv'
    BY <2>1, <2>4 DEF ServerInv, RoutesInv, routing, AtWork
  <2>10. VoicesInv'
    <3>1. ASSUME NEW w \in DOMAIN workers, Authoritative(w), workers[w].boot = n,
                 w \notin Range(owned[n])
          PROVE  FALSE
      <4>1. stage[n] # "none"
        BY <3>1 DEF ServerInv, VoicesInv
      <4> QED BY <2>1, <4>1 DEF n, ServerInv, ConnectionsInv
    <3> QED BY <2>1, <2>4, <3>1 DEF ServerInv, VoicesInv, routing, vars, registry, Authoritative
  <2>11. ConnectionsInv'
    <3>1. UNCHANGED link /\ acceptor' # "reaping"
      BY <1>3, <2>1 DEF Spawn, sockets
    <3>2. link[n] \notin {"none", "queued"}
      BY <2>1 DEF n, ServerInv, ConnectionsInv
    <3> QED BY <2>1, <2>4, <3>1, <3>2 DEF ServerInv, ConnectionsInv
  <2> QED BY <2>7, <2>8, <2>9, <2>10, <2>11 DEF ServerInv
<1>4. ASSUME AcceptorEnds
      PROVE  ServerInv'
  <2>1. UNCHANGED <<vars, request, server, connections, threads, stage, routing>>
        /\ acceptor' = "ended"
    BY <1>4 DEF AcceptorEnds, calling
  <2>2. ThreadsInv'
    BY <2>1 DEF ServerInv, ThreadsInv
  <2>3. ConnectionsInv'
    BY <1>4, <2>1 DEF AcceptorEnds, sockets, ServerInv, ConnectionsInv
  <2> QED BY <2>1, <2>2, <2>3 DEF ServerInv, RequestsInv, RoutesInv, VoicesInv, Asked, routing,
                            vars, registry, Authoritative
<1> QED
  BY <1>1, <1>2, <1>3, <1>4 DEF AcceptorStep

\* Stopping keeps the invariant: it ends when every thread has returned.
LEMMA StopKeeps ==
    ASSUME ServerInv, StopBegins \/ StopStep, UNCHANGED phase
    PROVE  ServerInv'
<1> USE DEF calling
<1>1. ASSUME StopBegins
      PROVE  ServerInv'
  <2>1. /\ UNCHANGED <<vars, request, acceptor, connections, threads, cursor, stage, routing>>
        /\ server' = "stopping"
        /\ link' = [k \in Peers |-> IF link[k] = "queued" THEN "closed" ELSE link[k]]
    BY <1>1 DEF StopBegins, accepting
  <2>2. ThreadsInv'
    BY <2>1 DEF ServerInv, ThreadsInv
  <2>3. ConnectionsInv'
    BY <2>1 DEF ServerInv, ConnectionsInv
  <2> QED BY <2>1, <2>2, <2>3 DEF ServerInv, RequestsInv, RoutesInv, VoicesInv, Asked, routing,
                            vars, registry, Authoritative
<1>2. ASSUME StopInterrupts
      PROVE  ServerInv'
  <2>1. /\ UNCHANGED <<vars, request, acceptor, connections, threads, cursor, stage, routing>>
        /\ acceptor = "ended" /\ server' = "closing"
        /\ link' = [k \in Peers |-> IF k \in Range(connections) THEN "closed" ELSE link[k]]
    BY <1>2 DEF StopInterrupts, accepting
  <2>2. ThreadsInv'
    BY <2>1 DEF ServerInv, ThreadsInv
  <2>3. ConnectionsInv'
    BY <2>1 DEF ServerInv, ConnectionsInv
  <2> QED BY <2>1, <2>2, <2>3 DEF ServerInv, RequestsInv, RoutesInv, VoicesInv, Asked, routing,
                            vars, registry, Authoritative
<1>3. ASSUME StopEnds
      PROVE  ServerInv'
  <2>1. /\ UNCHANGED <<vars, request, acceptor, cursor, stage, owned, link>>
        /\ server = "closing" /\ server' = "down"
        /\ connections' = <<>> /\ threads' = <<>> /\ route' = EmptyMap
        /\ \A k \in Range(threads) : stage[k] = "done"
    BY <1>3 DEF StopEnds, sockets
  <2>2. acceptor = "ended"
    BY <2>1 DEF ServerInv, ThreadsInv
  <2>3. \A k \in Peers : stage[k] \in {"none", "done"}
    BY <2>1 DEF ServerInv, ThreadsInv
  <2>4. ThreadsInv'
    BY <2>1, <2>2, <2>3, EmptySeq DEF ServerInv, ThreadsInv
  <2>5. ConnectionsInv'
    BY <2>1, <2>2 DEF ServerInv, ConnectionsInv, Range
  <2>6. RoutesInv'
    BY <2>1 DEF ServerInv, RoutesInv, EmptyMap
  <2> QED BY <2>1, <2>4, <2>5, <2>6 DEF ServerInv, RequestsInv, VoicesInv, Asked,
                            vars, registry, Authoritative
<1> QED
  BY <1>1, <1>2, <1>3 DEF StopStep

-----------------------------------------------------------------------------
(* Steps of the connection threads.                                        *)

\* A thread that goes from one place to another keeps the invariants about
\* threads and connections, unless it starts or ends.
LEMMA ThreadGoesOn ==
    ASSUME ServerInv, NEW k \in Peers, NEW place \in Stages \ {"none"},
           stage[k] # "none",
           place = "done" \/ stage[k] # "done",
           stage' = [stage EXCEPT ![k] = place],
           UNCHANGED <<server, accepting, link, phase>>
    PROVE  ThreadsInv' /\ ConnectionsInv'
<1>1. stage' = [j \in Peers |-> IF j = k THEN place ELSE stage[j]]
  BY DEF ServerInv, ThreadsInv
<1>2. stage' \in [Peers -> Stages]
  BY <1>1 DEF ServerInv, ThreadsInv
<1>3. ThreadsInv'
  BY <1>1, <1>2 DEF ServerInv, ThreadsInv, accepting
<1>4. ConnectionsInv'
  BY <1>1 DEF ServerInv, ConnectionsInv, accepting
<1> QED
  BY <1>3, <1>4

\* A thread that stays at work, registers nobody and leaves the workers alone
\* keeps the whole invariant.
LEMMA ThreadStaysAtWork ==
    ASSUME ServerInv, NEW k \in Peers, NEW place \in AtWork \ {"registering"},
           stage[k] \in AtWork \ {"registering"},
           stage' = [stage EXCEPT ![k] = place],
           request' \in {request, [request EXCEPT ![k] = NoRequest]},
           UNCHANGED <<workers, server, accepting, link, phase, routing>>
    PROVE  ServerInv'
<1>1. stage' = [j \in Peers |-> IF j = k THEN place ELSE stage[j]]
  BY DEF ServerInv, ThreadsInv
<1>2. ThreadsInv' /\ ConnectionsInv'
  <2>1. place \in Stages \ {"none"} /\ stage[k] # "none" /\ stage[k] # "done"
    BY DEF Stages, AtWork
  <2>2. UNCHANGED <<server, accepting, link, phase>>
    OBVIOUS
  <2> QED BY <2>1, <2>2, ThreadGoesOn
<1>3. RequestsInv'
  <2>1. \A j \in Peers : request'[j] = request[j] \/ (j = k /\ request'[j] = NoRequest)
    BY DEF ServerInv, RequestsInv
  <2>2. request' = [j \in Peers |-> request'[j]]
    BY DEF ServerInv, RequestsInv
  <2>3. \A j \in Peers : Asked(j, request'[j])
    BY <2>1 DEF ServerInv, RequestsInv, Asked
  <2>4. \A j \in Peers : Asked(j, request'[j]) = (Asked(j, request[j]))'
    BY DEF Asked
  <2>5. \A j \in Peers : stage'[j] = "registering" => j # k /\ stage[j] = "registering"
    BY <1>1
  <2>6. \A j \in Peers : stage'[j] = "registering" => j \in Processes /\ request'[j] # NoRequest
    BY <2>1, <2>5 DEF ServerInv, RequestsInv
  <2> HIDE DEF Asked
  <2> QED BY <2>2, <2>3, <2>4, <2>6 DEF RequestsInv
<1>4. RoutesInv'
  BY <1>1 DEF ServerInv, RoutesInv, routing, AtWork
<1>5. VoicesInv'
  BY <1>1 DEF ServerInv, VoicesInv, routing, AtWork, Authoritative
<1> QED
  BY <1>2, <1>3, <1>4, <1>5 DEF ServerInv

\* Announcing, answering and losing a connection are of this kind.
LEMMA AtWorkKeeps ==
    ASSUME ServerInv, NEW k \in Peers, UNCHANGED phase,
           LookUp(k) \/ Notify(k) \/ AllAnnounced(k) \/ SendAnswer(k) \/ EndOfStream(k)
    PROVE  ServerInv'
<1>1. CASE LookUp(k)
  BY <1>1, ThreadStaysAtWork DEF LookUp, AtWork, sockets, vars
<1>2. CASE Notify(k)
  <2>1. stage' = [stage EXCEPT ![k] = "notifying"]
    BY <1>2 DEF Notify, ServerInv, ThreadsInv
  <2> QED BY <1>2, <2>1, ThreadStaysAtWork DEF Notify, AtWork, vars
<1>3. CASE AllAnnounced(k)
  BY <1>3, ThreadStaysAtWork DEF AllAnnounced, AtWork, sockets, calling, vars
<1>4. CASE SendAnswer(k)
  <2>1. stage' = [stage EXCEPT ![k] = "forgetting"] \/ stage' = [stage EXCEPT ![k] = "reading"]
    BY <1>4 DEF SendAnswer
  <2> QED BY <1>4, <2>1, ThreadStaysAtWork DEF SendAnswer, AtWork, vars
<1>5. CASE EndOfStream(k)
  BY <1>5, ThreadStaysAtWork DEF EndOfStream, AtWork, sockets, calling, vars
<1> QED
  BY <1>1, <1>2, <1>3, <1>4, <1>5

\* The worker registered is the process's own.
LEMMA RegistrantIsOwn ==
    ASSUME ServerInv, NEW k \in Peers, k \in Processes, request[k] # NoRequest
    PROVE  /\ request[k].worker = Identity[k].worker
           /\ request[k].boot = k
           /\ request[k].critic = Identity[k].critic
           /\ request[k].generation = 1
           /\ Identity[k].worker \in Workers /\ Identity[k].critic \in Critics
           /\ request[k].kind \in Calls
<1>1. PICK kind \in Calls : \E review, evidence :
        request[k] = WorkerRequest(k, kind, review, evidence)
  BY DEF ServerInv, RequestsInv, Asked
<1> QED
  BY <1>1, IdentityAssumption DEF WorkerRequest

\* A registration makes the connection the owner of the worker.
LEMMA RegisterRouteKeeps ==
    ASSUME ServerInv, NEW k \in Peers, UNCHANGED phase, RegisterRoute(k)
    PROVE  ServerInv'
<1> DEFINE w == request[k].worker
<1>1. /\ stage[k] = "registering"
      /\ stage' = [stage EXCEPT ![k] = "answering"]
      /\ owned' = [owned EXCEPT ![k] = Append(owned[k], w)]
      /\ route' = Put(route, w, k)
      /\ UNCHANGED <<vars, server, accepting, link, phase, request>>
  BY DEF RegisterRoute, sockets, calling
<1>2. k \in Processes /\ request[k] # NoRequest
  BY <1>1 DEF ServerInv, RequestsInv
<1>3. w = Identity[k].worker /\ w \in Workers
  BY <1>2, RegistrantIsOwn
<1> HIDE DEF w
<1>4. stage' = [j \in Peers |-> IF j = k THEN "answering" ELSE stage[j]]
  BY <1>1 DEF ServerInv, ThreadsInv
<1>5. owned' = [j \in Peers |-> IF j = k THEN Append(owned[k], w) ELSE owned[j]]
  BY <1>1 DEF ServerInv, RoutesInv
<1>6. /\ Append(owned[k], w) \in Seq(Workers)
      /\ Range(Append(owned[k], w)) = Range(owned[k]) \cup {w}
  BY <1>3, Appended DEF ServerInv, RoutesInv
<1>7. ThreadsInv' /\ ConnectionsInv'
  BY <1>1, ThreadGoesOn DEF Stages, AtWork
<1>8. RequestsInv'
  BY <1>1, <1>4 DEF ServerInv, RequestsInv, Asked
<1>9. RoutesInv'
  <2>1. owned' \in [Peers -> Seq(Workers)]
    BY <1>5, <1>6 DEF ServerInv, RoutesInv
  <2>2. ASSUME NEW v \in DOMAIN route'
        PROVE  /\ route'[v] \in Peers
               /\ stage'[route'[v]] \in AtWork
               /\ v \in Range(owned'[route'[v]])
    <3>1. CASE v = w
      BY <1>1, <1>4, <1>5, <1>6, <3>1 DEF Put, AtWork
    <3>2. CASE v # w
      <4>1. v \in DOMAIN route /\ route'[v] = route[v]
        BY <1>1, <2>2, <3>2 DEF Put
      <4> QED BY <1>4, <1>5, <1>6, <4>1 DEF ServerInv, RoutesInv, AtWork
    <3> QED BY <3>1, <3>2
  <2> QED BY <2>1, <2>2 DEF RoutesInv
<1>10. VoicesInv'
  BY <1>1, <1>3, <1>4, <1>5, <1>6 DEF ServerInv, VoicesInv, vars, registry, Authoritative
<1> QED
  BY <1>7, <1>8, <1>9, <1>10 DEF ServerInv

\* A thread that forgets its connection leaves no worker registered on it.
LEMMA ForgetRoutesKeeps ==
    ASSUME ServerInv, NEW k \in Peers, UNCHANGED phase, ForgetRoutes(k)
    PROVE  ServerInv'
<1>1. /\ stage[k] = "forgetting"
      /\ stage' = [stage EXCEPT ![k] = "fencing"]
      /\ route' = Restrict(route, {w \in DOMAIN route : w \in Range(owned[k]) => route[w] # k})
      /\ UNCHANGED <<vars, server, accepting, link, phase, request, owned>>
  BY DEF ForgetRoutes, sockets, calling
<1>2. stage' = [j \in Peers |-> IF j = k THEN "fencing" ELSE stage[j]]
  BY <1>1 DEF ServerInv, ThreadsInv
<1>3. ThreadsInv' /\ ConnectionsInv'
  BY <1>1, ThreadGoesOn DEF Stages, AtWork
<1>4. RequestsInv'
  BY <1>1, <1>2 DEF ServerInv, RequestsInv, Asked
<1>5. \A w \in DOMAIN route' : w \in DOMAIN route /\ route'[w] = route[w] /\ route[w] # k
  BY <1>1 DEF Restrict, ServerInv, RoutesInv
<1>6. RoutesInv'
  BY <1>1, <1>2, <1>5 DEF ServerInv, RoutesInv
<1>7. VoicesInv'
  BY <1>1, <1>2 DEF ServerInv, VoicesInv, vars, registry, Authoritative
<1> QED
  BY <1>3, <1>4, <1>6, <1>7 DEF ServerInv

\* Fencing the workers of a lost connection leaves on it those still to be
\* fenced.
LEMMA FenceOwnedKeeps ==
    ASSUME ServerInv, RegistryTypeOK, NEW k \in Peers, UNCHANGED phase, FenceOwned(k)
    PROVE  ServerInv'
<1> DEFINE v == Head(owned[k])
<1>1. /\ stage[k] = "fencing" /\ owned[k] # <<>>
      /\ workers' = Silenced(Fenceable({v}))
      /\ v \in DOMAIN workers
      /\ owned' = [owned EXCEPT ![k] = Tail(owned[k])]
      /\ UNCHANGED <<server, accepting, link, phase, request, stage, route>>
  BY DEF FenceOwned, FenceWorker, Fence, sockets, calling
<1>2. /\ owned[k] \in Seq(Workers) /\ Tail(owned[k]) \in Seq(Workers)
      /\ \A x \in Range(owned[k]) : x = v \/ x \in Range(Tail(owned[k]))
  BY <1>1, Shortened DEF ServerInv, RoutesInv
<1> HIDE DEF v
<1>3. owned' = [j \in Peers |-> IF j = k THEN Tail(owned[k]) ELSE owned[j]]
  BY <1>1 DEF ServerInv, RoutesInv
<1>4. ThreadsInv' /\ ConnectionsInv'
  BY <1>1 DEF ServerInv, ThreadsInv, ConnectionsInv, accepting
<1>5. RequestsInv'
  BY <1>1 DEF ServerInv, RequestsInv, Asked
<1>6. RoutesInv'
  <2>1. \A w \in DOMAIN route : route[w] # k
    BY <1>1 DEF ServerInv, RoutesInv, AtWork
  <2>2. owned' \in [Peers -> Seq(Workers)]
    BY <1>2, <1>3 DEF ServerInv, RoutesInv
  <2> QED BY <1>1, <1>3, <2>1, <2>2 DEF ServerInv, RoutesInv
<1>7. /\ DOMAIN workers' = DOMAIN workers
      /\ \A w \in DOMAIN workers :
            /\ workers'[w].boot = workers[w].boot
            /\ Authoritative(w)' => Authoritative(w) /\ w # v
  <2> DEFINE silenced == Fenceable({v})
  <2>1. /\ DOMAIN Silenced(silenced) = DOMAIN workers
        /\ \A w \in DOMAIN workers :
              /\ Silenced(silenced)[w].boot = workers[w].boot
              /\ Silenced(silenced)[w].ready <=> workers[w].ready /\ w \notin silenced
              /\ Silenced(silenced)[w].healthy <=> workers[w].healthy /\ w \notin silenced
    <3> HIDE DEF silenced
    <3> QED BY SilencedWorkers DEF RegistryTypeOK
  <2>2. \A w \in DOMAIN workers : w = v /\ Authoritative(w) => w \in silenced
    BY DEF Fenceable, Authoritative
  <2> HIDE DEF silenced
  <2>3. workers' = Silenced(silenced)
    BY <1>1 DEF silenced
  <2> QED BY <2>1, <2>2, <2>3 DEF Authoritative
<1>8. VoicesInv'
  <2> SUFFICES ASSUME NEW w \in DOMAIN workers, Authoritative(w), w # v
               PROVE  LET p == workers[w].boot IN
                      /\ p \in Processes
                      /\ w = Identity[p].worker
                      /\ stage[p] \notin {"none", "done"}
                      /\ stage[p] # "registering" => w \in Range(owned'[p])
    BY <1>1, <1>7 DEF VoicesInv
  <2>1. workers[w].boot \in Peers
    BY PeersAssumption DEF ServerInv, VoicesInv
  <2> QED BY <1>1, <1>2, <1>3, <2>1 DEF ServerInv, VoicesInv
<1> QED
  BY <1>4, <1>5, <1>6, <1>8 DEF ServerInv

\* A thread returns when it has nobody left to fence.
LEMMA ThreadEndsKeeps ==
    ASSUME ServerInv, NEW k \in Peers, UNCHANGED phase, ThreadEnds(k)
    PROVE  ServerInv'
<1>1. /\ stage[k] = "fencing" /\ owned[k] = <<>>
      /\ stage' = [stage EXCEPT ![k] = "done"]
      /\ UNCHANGED <<vars, server, accepting, link, phase, request, routing>>
  BY DEF ThreadEnds, sockets, calling
<1>2. stage' = [j \in Peers |-> IF j = k THEN "done" ELSE stage[j]]
  BY <1>1 DEF ServerInv, ThreadsInv
<1>3. ThreadsInv' /\ ConnectionsInv'
  <2>1. "done" \in Stages \ {"none"} /\ stage[k] # "none"
    BY <1>1 DEF Stages
  <2> QED BY <1>1, <2>1, ThreadGoesOn
<1>4. RequestsInv'
  BY <1>1, <1>2 DEF ServerInv, RequestsInv, Asked
<1>5. RoutesInv'
  BY <1>1, <1>2 DEF ServerInv, RoutesInv, routing, AtWork
<1>6. \A w \in DOMAIN workers : Authoritative(w) => workers[w].boot # k
  <2>1. Range(owned[k]) = {}
    BY <1>1 DEF Range
  <2> QED BY <1>1, <2>1 DEF ServerInv, VoicesInv
<1>7. VoicesInv'
  BY <1>1, <1>2, <1>6 DEF ServerInv, VoicesInv, routing, vars, registry, Authoritative
<1> QED
  BY <1>3, <1>4, <1>5, <1>7 DEF ServerInv

-----------------------------------------------------------------------------
(* Requests.                                                               *)

\* Who asks for a call is a process, unless it is an order.
LEMMA CallerIsProcess ==
    ASSUME ServerInv, NEW k \in Peers, request[k] # NoRequest, request[k].kind \notin Orders
    PROVE  k \in Processes
  BY DEF ServerInv, RequestsInv, Asked

\* The incarnation that registers has no voice yet, and takes nobody's
\* connection away.
LEMMA RegisterWorkerVoices ==
    ASSUME RegistryTypeOK, NEW e, NEW w, NEW boot, NEW c, NEW g, RegisterWorker(e, w, boot, c, g)
    PROVE  /\ DOMAIN workers' = DOMAIN workers \cup {w}
           /\ workers'[w].boot = boot
           /\ \A v \in DOMAIN workers : v # w => workers'[v].boot = workers[v].boot
           /\ \A v \in DOMAIN workers' : Authoritative(v)' =>
                 v \in DOMAIN workers /\ Authoritative(v) /\ workers'[v].boot = workers[v].boot
<1> DEFINE fenced == Fenceable({w} \cup {v \in WorkersOf(c) \ {w} : Authoritative(v)})
           fresh  == [boot |-> boot, critic |-> c, criticGeneration |-> g,
                      ready |-> FALSE, healthy |-> FALSE, bootOrder |-> nextBootOrder]
<1>1. workers' = Put(Silenced(fenced), w, fresh) /\ fresh.ready = FALSE /\ fresh.boot = boot
  BY DEF RegisterWorker
<1> HIDE DEF fenced, fresh
<1>2. /\ DOMAIN Silenced(fenced) = DOMAIN workers
      /\ \A v \in DOMAIN workers :
            /\ Silenced(fenced)[v].boot = workers[v].boot
            /\ Silenced(fenced)[v].ready => workers[v].ready
            /\ Silenced(fenced)[v].healthy => workers[v].healthy
  BY SilencedWorkers DEF RegistryTypeOK
<1>3. /\ DOMAIN workers' = DOMAIN workers \cup {w}
      /\ \A v \in DOMAIN workers' :
            workers'[v] = IF v = w THEN fresh ELSE Silenced(fenced)[v]
  BY <1>1, <1>2 DEF Put
<1> QED
  BY <1>1, <1>2, <1>3 DEF Authoritative

\* The incarnation that declares itself is the one the message names.
LEMMA DeclareReadinessVoices ==
    ASSUME RegistryTypeOK, NEW e, NEW x, NEW evidence, DeclareReadiness(e, x, TRUE, TRUE, evidence)
    PROVE  /\ DOMAIN workers' = DOMAIN workers
           /\ workers[x.worker].boot = x.boot
           /\ \A v \in DOMAIN workers' :
                 /\ workers'[v].boot = workers[v].boot
                 /\ v # x.worker => workers'[v] = workers[v]
<1>1. /\ BindingCurrent(x)
      /\ workers' = [workers EXCEPT ![x.worker].ready = TRUE, ![x.worker].healthy = TRUE]
  BY DEF DeclareReadiness
<1>2. \A v \in DOMAIN workers : workers[v] \in Worker
  BY DEF RegistryTypeOK, IsMap
<1> QED
  BY <1>1, <1>2 DEF BindingCurrent, Worker

\* Answering a request keeps the invariant: a registration is on its way to the
\* connection it came from.
LEMMA DispatchKeeps ==
    ASSUME ServerInv, RegistryTypeOK, NEW k \in Peers, UNCHANGED phase, Dispatch(k)
    PROVE  ServerInv'
<1> DEFINE q == request[k]
<1>1. /\ stage[k] = "reading" /\ q # NoRequest
      /\ UNCHANGED <<server, accepting, link, phase, request, routing>>
  BY DEF Dispatch, sockets
<1>2. CASE UNCHANGED vars /\ stage' = [stage EXCEPT ![k] = "answering"]
  BY <1>1, <1>2, ThreadStaysAtWork DEF vars, AtWork
<1>3. CASE Call(q) /\ stage' = [stage EXCEPT ![k] = After(q)]
  <2>1. CASE ~Registers(q)
    <3>1. UNCHANGED workers
      <4>1. ASSUME NEW m, NEW input, NEW f, SubmitEvidence(m, input, f) \/ SubmitFinding(m, input, f)
            PROVE  UNCHANGED workers
        BY <4>1 DEF SubmitEvidence, SubmitFinding, registry
      <4>2. ASSUME NEW r, NEW batch, AssignCritics(epoch, r, batch)
            PROVE  UNCHANGED workers
        BY <4>2 DEF AssignCritics, registry
      <4>3. ASSUME NEW r, NEW t, NEW content,
                   CommitReview(epoch, r) \/ CancelReview(epoch, r) \/ AdvanceTarget(epoch, t, content)
            PROVE  UNCHANGED workers
        BY <4>3 DEF CommitReview, CancelReview, AdvanceTarget, registry
      <4>4. CASE UNCHANGED vars
        BY <4>4 DEF vars
      <4> QED BY <1>3, <2>1, <4>1, <4>2, <4>3, <4>4 DEF Call, Closing, Registers
    <3>2. After(q) \in AtWork \ {"registering"}
      BY <2>1 DEF After, AtWork
    <3> QED BY <1>1, <1>3, <3>1, <3>2, ThreadStaysAtWork DEF AtWork
  <2>2. CASE Registers(q)
    <3>1. stage' = [j \in Peers |-> IF j = k THEN "registering" ELSE stage[j]]
      BY <1>3, <2>2 DEF After, ServerInv, ThreadsInv
    <3>2. k \in Processes
      BY <1>1, <2>2, CallerIsProcess, OrdersAssumption DEF Registers
    <3>3. q.worker = Identity[k].worker /\ q.boot = k
      BY <1>1, <3>2, RegistrantIsOwn
    <3>4. ThreadsInv' /\ ConnectionsInv'
      BY <1>1, <1>3, <2>2, ThreadGoesOn DEF After, Stages, AtWork
    <3>5. RequestsInv'
      BY <1>1, <3>1, <3>2 DEF ServerInv, RequestsInv, Asked
    <3>6. RoutesInv'
      BY <1>1, <3>1 DEF ServerInv, RoutesInv, routing, AtWork
    <3>7. ASSUME NEW v \in DOMAIN workers', Authoritative(v)'
          PROVE  \/ workers'[v].boot = k /\ v = Identity[k].worker
                 \/ v \in DOMAIN workers /\ Authoritative(v) /\ workers'[v].boot = workers[v].boot
      <4>1. CASE RegisterWorker(epoch, q.worker, q.boot, q.critic, q.generation)
        BY <3>7, <4>1, RegisterWorkerVoices
      <4>2. ASSUME NEW evidence, DeclareReadiness(epoch, Context(q), TRUE, TRUE, evidence)
            PROVE  \/ workers'[v].boot = k /\ v = Identity[k].worker
                   \/ v \in DOMAIN workers /\ Authoritative(v) /\ workers'[v].boot = workers[v].boot
        <5>1. Context(q).worker = q.worker /\ Context(q).boot = q.boot
          BY DEF Context
        <5> DEFINE x == Context(q)
        <5>a. ASSUME NEW y, DeclareReadiness(epoch, y, TRUE, TRUE, evidence)
              PROVE  /\ DOMAIN workers' = DOMAIN workers
                     /\ workers[y.worker].boot = y.boot
                     /\ \A u \in DOMAIN workers' :
                           /\ workers'[u].boot = workers[u].boot
                           /\ u # y.worker => workers'[u] = workers[u]
          BY ONLY <5>a, RegistryTypeOK, DeclareReadinessVoices, ZenonT(60)
        <5>2. /\ DOMAIN workers' = DOMAIN workers
              /\ workers[x.worker].boot = x.boot
              /\ \A u \in DOMAIN workers' :
                    /\ workers'[u].boot = workers[u].boot
                    /\ u # x.worker => workers'[u] = workers[u]
          BY <4>2, <5>a
        <5>3. x.worker = Identity[k].worker /\ x.boot = k
          BY <3>3, <5>1
        <5> HIDE DEF x
        <5> QED BY <3>7, <5>2, <5>3 DEF Authoritative
      <4> HIDE DEF q
      <4>3. q.kind = "RegisterWorker" \/ q.kind = "DeclareReadiness"
        BY <2>2 DEF Registers
      <4>4. \/ RegisterWorker(epoch, q.worker, q.boot, q.critic, q.generation)
            \/ DeclareReadiness(epoch, Context(q), TRUE, TRUE, critics[q.critic].capability.evidence)
        BY <1>3, <4>3 DEF Call, Closing
      <4> QED BY <4>1, <4>2, <4>4
    <3>8. VoicesInv'
      <4> SUFFICES ASSUME NEW v \in DOMAIN workers', Authoritative(v)'
                   PROVE  LET p == workers'[v].boot IN
                          /\ p \in Processes
                          /\ v = Identity[p].worker
                          /\ stage'[p] \notin {"none", "done"}
                          /\ stage'[p] # "registering" => v \in Range(owned'[p])
        BY DEF VoicesInv
      <4>1. CASE workers'[v].boot = k /\ v = Identity[k].worker
        BY <3>1, <3>2, <4>1
      <4>2. CASE v \in DOMAIN workers /\ Authoritative(v) /\ workers'[v].boot = workers[v].boot
        <5>1. workers[v].boot \in Peers
          BY <4>2, PeersAssumption DEF ServerInv, VoicesInv
        <5> QED BY <1>1, <3>1, <4>2, <5>1 DEF ServerInv, VoicesInv, routing
      <4> QED BY <3>7, <4>1, <4>2
    <3> QED BY <3>4, <3>5, <3>6, <3>8 DEF ServerInv
  <2> QED BY <2>1, <2>2
<1> QED
  BY <1>2, <1>3 DEF Dispatch

\* Whatever happens, the invariant stays.
LEMMA ServerInvStep ==
    ServerInv /\ RegistryTypeOK /\ [ProtocolNext]_allVars => ServerInv'
<1> SUFFICES ASSUME ServerInv, RegistryTypeOK, [ProtocolNext]_allVars PROVE ServerInv'
  OBVIOUS
<1>1. CASE ServerStep /\ UNCHANGED protocolVars
  <2>1. UNCHANGED phase
    BY <1>1 DEF protocolVars
  <2>2. CASE AcceptorStep \/ StopBegins \/ StopStep
    BY <2>1, <2>2, AcceptorKeeps, StopKeeps
  <2>3. ASSUME NEW k \in Peers, Serve(k) PROVE ServerInv'
    BY <2>1, <2>3, DispatchKeeps, RegisterRouteKeeps, AtWorkKeeps, ForgetRoutesKeeps,
       FenceOwnedKeeps, ThreadEndsKeeps DEF Serve
  <2> QED BY <1>1, <2>2, <2>3 DEF ServerStep
<1>2. CASE \/ \E p \in Processes : Launch(p) \/ ConnectFails(p) \/ Reacts(p) \/ Dies(p)
           \/ \E c \in Controllers :
                \/ \E kind \in Orders, r \in Requests : Order(c, kind, r)
                \/ Ordered(c) \/ ConnectionLost(c) \/ Dies(c)
  BY <1>2, ClientSteps, ClientsKeep
<1>3. CASE UNCHANGED allVars
  BY <1>3 DEF allVars, serverVars, protocolVars, sockets, accepting, calling, routing, vars,
              registry, ServerInv, ThreadsInv, ConnectionsInv, RequestsInv, Asked, RoutesInv,
              VoicesInv, Authoritative
<1> QED
  BY <1>1, <1>2, <1>3 DEF ProtocolNext

-----------------------------------------------------------------------------
(* The server makes only calls of the coordinator.                         *)

\* What the context of a process's request names is known to the coordinator.
LEMMA ContextIsMessage ==
    ASSUME ServerInv, TypeOK, NEW k \in Processes, request[k] # NoRequest,
           request[k].review \in DOMAIN reviews
    PROVE  Context(request[k]) \in Messages
<1>1. /\ request[k].worker \in Workers /\ request[k].critic \in Critics
      /\ request[k].boot = k /\ request[k].generation = 1
  BY PeersAssumption, RegistrantIsOwn
<1>2. epoch \in Epochs /\ k \in Boots /\ 1 \in CriticGenerations /\ request[k].review \in Requests
  BY BoundsAssumption, PeersAssumption
     DEF TypeOK, RegistryTypeOK, ReviewsTypeOK, IsMap, CriticGenerations
<1> QED
  BY <1>1, <1>2 DEF Context, Messages

\* An accepted request is a call of the coordinator.
LEMMA CallIsNext ==
    ASSUME ServerInv, TypeOK, NEW k \in Peers, request[k] # NoRequest, Call(request[k])
    PROVE  [Next]_vars
<1> DEFINE q == request[k]
<1>1. epoch \in Epochs /\ 1 \in CriticGenerations
  BY BoundsAssumption DEF TypeOK, RegistryTypeOK, CriticGenerations
<1>2. q.kind \notin Orders =>
        /\ k \in Processes /\ k \in Boots
        /\ q.worker \in Workers /\ q.critic \in Critics /\ q.boot = k /\ q.generation = 1
  BY CallerIsProcess, RegistrantIsOwn, PeersAssumption
<1>3. CASE q.kind = "RegisterWorker"
  <2>1. RegisterWorker(epoch, q.worker, q.boot, q.critic, q.generation)
    BY <1>3 DEF Call, Closing
  <2>2. q.kind \notin Orders
    BY <1>3, OrdersAssumption
  <2> QED BY <1>1, <1>2, <2>1, <2>2 DEF Next, Incarnation
<1>4. CASE q.kind = "DeclareReadiness"
  <2> DEFINE evidence == critics[q.critic].capability.evidence
             x == [worker |-> q.worker, boot |-> q.boot, critic |-> q.critic,
                   criticGeneration |-> q.generation]
  <2>1. DeclareReadiness(epoch, Context(q), TRUE, TRUE, evidence)
    BY <1>4 DEF Call, Closing
  <2>2. q.kind \notin Orders
    BY <1>4, OrdersAssumption
  <2>3. /\ Context(q).worker = x.worker /\ Context(q).boot = x.boot
        /\ Context(q).critic = x.critic /\ Context(q).criticGeneration = x.criticGeneration
    BY DEF Context
  <2>4. DeclareReadiness(epoch, x, TRUE, TRUE, evidence)
    BY <2>1, <2>3 DEF DeclareReadiness, BindingCurrent
  <2>5. q.critic \in DOMAIN critics
    BY <2>1, <2>3 DEF DeclareReadiness, BindingCurrent
  <2>6. critics[q.critic].capability \in Capabilities
    BY <2>5 DEF TypeOK, RegistryTypeOK, IsMap, Critic
  <2> QED BY <1>1, <1>2, <2>2, <2>4, <2>6 DEF Next, Incarnation
<1>5. CASE q.kind \in {"SubmitEvidence", "SubmitFinding"}
  <2>1. PICK input : \/ input \in EvidenceInputs /\ SubmitEvidence(Context(q), input, NoId)
                     \/ input \in FindingInputs /\ SubmitFinding(Context(q), input, NoId)
    BY <1>5 DEF Call, Closing
  <2>2. CheckAuthority(Context(q))
    BY <2>1 DEF SubmitEvidence, SubmitFinding
  <2>3. Context(q).review = q.review /\ q.review \in DOMAIN reviews
    BY <2>2 DEF CheckAuthority, Context
  <2>4. q.kind \notin Orders
    BY <1>5, OrdersAssumption
  <2>5. Context(q) \in Messages
    BY <1>2, <2>3, <2>4, ContextIsMessage
  <2> QED BY <2>1, <2>2, <2>5 DEF Next, Output
<1>6. CASE q.kind = "AssignCritics"
  <2>1. PICK batch \in SUBSET {x \in AssignmentRequests : Assignable(reviews[q.review], x)} :
           q.review \in DOMAIN reviews /\ AssignCritics(epoch, q.review, batch)
    BY <1>6 DEF Call, Closing
  <2> QED BY <1>1, <2>1 DEF Next, Control
<1>7. CASE Closing(q)
  <2>1. q.review \in DOMAIN reviews
    BY <1>7 DEF Closing
  <2>2. CASE CommitReview(epoch, q.review) \/ CancelReview(epoch, q.review)
    BY <1>1, <2>1, <2>2 DEF Next, Control
  <2>3. ASSUME NEW content \in Contents, AdvanceTarget(epoch, reviews[q.review].target, content)
        PROVE  [Next]_vars
    <3>1. reviews[q.review].target \in Targets
      BY <2>1, ReviewLookups DEF TypeOK, RegistryTypeOK, IsMap
    <3> QED BY <1>1, <2>3, <3>1 DEF Next, Control
  <2> QED BY <1>7, <2>2, <2>3 DEF Closing
<1>8. CASE UNCHANGED vars
  BY <1>8
<1> QED
  BY <1>3, <1>4, <1>5, <1>6, <1>7, <1>8 DEF Call

\* Only two steps of a thread call the coordinator.
LEMMA StepsThatCall ==
    [ProtocolNext]_allVars =>
        (\E k \in Peers : Dispatch(k) \/ FenceOwned(k)) \/ UNCHANGED vars
<1> SUFFICES ASSUME [ProtocolNext]_allVars, \A k \in Peers : ~Dispatch(k) /\ ~FenceOwned(k)
             PROVE  UNCHANGED vars
  OBVIOUS
<1>1. ASSUME NEW k \in Peers, Serve(k) PROVE UNCHANGED vars
  BY <1>1 DEF Serve, RegisterRoute, LookUp, Notify, AllAnnounced, SendAnswer, EndOfStream,
              ForgetRoutes, ThreadEnds
<1>2. CASE AcceptorStep \/ StopBegins \/ StopStep
  BY <1>2 DEF AcceptorStep, Accept, Reap, Spawn, AcceptorEnds, StopBegins, StopStep,
              StopInterrupts, StopEnds
<1>3. CASE \/ \E p \in Processes : Launch(p) \/ ConnectFails(p) \/ Reacts(p) \/ Dies(p)
           \/ \E c \in Controllers :
                \/ \E kind \in Orders, r \in Requests : Order(c, kind, r)
                \/ Ordered(c) \/ ConnectionLost(c) \/ Dies(c)
  BY <1>3, ClientSteps DEF ClientStep
<1>4. CASE UNCHANGED allVars
  BY <1>4 DEF allVars
<1> QED
  BY <1>1, <1>2, <1>3, <1>4 DEF ProtocolNext, ServerStep

\* Every step of the server and its clients is a call or leaves the
\* coordinator alone.
LEMMA ProtocolCalls ==
    ServerInv /\ TypeOK /\ [ProtocolNext]_allVars => [Next]_vars
<1> SUFFICES ASSUME ServerInv, TypeOK, [ProtocolNext]_allVars PROVE [Next]_vars
  OBVIOUS
<1>1. ASSUME NEW k \in Peers, Dispatch(k) PROVE [Next]_vars
  BY <1>1, CallIsNext DEF Dispatch
<1>2. ASSUME NEW k \in Peers, FenceOwned(k) PROVE [Next]_vars
  <2>1. owned[k] \in Seq(Workers) /\ owned[k] # <<>> /\ FenceWorker(Head(owned[k]))
    BY <1>2 DEF FenceOwned, ServerInv, RoutesInv
  <2>2. Head(owned[k]) \in Workers
    BY <2>1, Shortened
  <2> QED BY <2>1, <2>2 DEF Next, Incarnation
<1> QED
  BY <1>1, <1>2, StepsThatCall

-----------------------------------------------------------------------------
(* A request speaks for the process that sent it.                          *)

Echoes(old, new) == \A f \in new.findings : \E g \in old.findings : g.id = f.id

\* A finding that is new, or a worker that is taken over, is accounted for.
FindingsAccounted ==
    \A r \in DOMAIN reviews : \A f \in reviews'[r].findings :
        (\A g \in reviews[r].findings : g.id # f.id) => FindingIsOwn(f)

TakeoversAccounted == \A w \in DOMAIN workers' : Takeover(w) => TakeoverIsOwn(w)

\* Retiring assignments, superseding a review or attaching evidence adds no finding.
LEMMA WithdrawalEchoes ==
    ASSUME NEW rev \in Review
    PROVE  /\ \A retired : Echoes(rev, Retire(rev, retired))
           /\ Echoes(rev, Supersede(rev))
<1>1. \A f \in rev.findings : f \in Finding
  BY DEF Review
<1>2. \A f \in Finding : [f EXCEPT !.state = "Invalidated"].id = f.id
  BY DEF Finding
<1>3. ASSUME NEW retired PROVE Retire(rev, retired).findings = rev.findings
  BY DEF Retire, Revalidate, Review
<1>4. Supersede(rev).findings = {IF f.state \in CurrentFindingStates
                                THEN [f EXCEPT !.state = "Invalidated"] ELSE f : f \in rev.findings}
  BY DEF Supersede, Review
<1> QED
  BY <1>1, <1>2, <1>3, <1>4 DEF Echoes

\* A call that rewrites one review without adding a finding.
LEMMA OneEchoes ==
    ASSUME NEW r \in DOMAIN reviews, NEW new, reviews' = [reviews EXCEPT ![r] = new],
           Echoes(reviews[r], new)
    PROVE  FindingsAccounted
  BY DEF Echoes, FindingsAccounted

\* A call that rewrites all of them.
LEMMA AllEcho ==
    ASSUME \A r \in DOMAIN reviews : Echoes(reviews[r], reviews'[r])
    PROVE  FindingsAccounted
  BY DEF Echoes, FindingsAccounted

\* Fencing takes voices away and adds no finding.
LEMMA FencingAccounted ==
    ASSUME TypeOK, NEW w, FenceWorker(w)
    PROVE  FindingsAccounted /\ TakeoversAccounted
<1> DEFINE silenced == Fenceable({w})
<1>1. /\ workers' = Silenced(silenced)
      /\ reviews' = [r \in DOMAIN reviews |-> Retire(reviews[r], Abandoned(reviews[r], silenced))]
  BY DEF FenceWorker, Fence
<1> HIDE DEF silenced
<1>2. FindingsAccounted
  <2>1. \A r \in DOMAIN reviews : reviews[r] \in Review
    BY ReviewLookups
  <2> QED BY <1>1, <2>1, WithdrawalEchoes, AllEcho
<1>3. /\ DOMAIN workers' = DOMAIN workers
      /\ \A v \in DOMAIN workers :
            /\ workers'[v].boot = workers[v].boot
            /\ Authoritative(v)' => Authoritative(v)
  BY <1>1, SilencedWorkers DEF TypeOK, RegistryTypeOK, Authoritative
<1> QED
  BY <1>2, <1>3 DEF TakeoversAccounted, Takeover

\* A finding is recorded under the name of the process whose request is answered
\* (dispatch builds the context from the request, submit_finding the record).
LEMMA FindingAccounted ==
    ASSUME TypeOK, NEW p \in Processes, NEW m, NEW input,
           SubmitFinding(m, input, NoId), IsOwn(p, m), Handles(p, {"SubmitFinding"})
    PROVE  FindingsAccounted
<1> DEFINE rev        == reviews[m.review]
           assignment == ActiveAssignment(rev, m.critic)
           finding    ==
             [id |-> Fresh(rev.findings), critic |-> m.critic,
              criticGeneration |-> m.criticGeneration, assignment |-> assignment.ordinal,
              worker |-> m.worker, boot |-> m.boot,
              targetGeneration |-> rev.targetGeneration,
              category |-> input.category, severity |-> input.severity,
              outcome |-> input.outcome, evidence |-> input.evidence,
              cited |-> input.evidence, explanation |-> input.explanation,
              state |-> "Current"]
           recorded   ==
             [rev EXCEPT
                !.findings = SetState(@, NoId, "Superseded") \cup {finding},
                !.evidences = {IF e.id \in Range(input.evidence) /\ e.finding = NoId
                               THEN [e EXCEPT !.finding = finding.id] ELSE e : e \in @}]
           new        ==
             IF rev.state \in {"Assigned", "Reviewing"}
             THEN [recorded EXCEPT !.state = "FindingsReceived", !.disposition = "None",
                                   !.authorityCurrent = TRUE]
             ELSE recorded
<1>1. m.review \in DOMAIN reviews /\ reviews' = [reviews EXCEPT ![m.review] = new]
  BY DEF SubmitFinding, CheckAuthority
<1>2. rev \in Review
  BY <1>1, ReviewLookups
<1>3. new.findings = SetState(rev.findings, NoId, "Superseded") \cup {finding}
  <2> HIDE DEF finding
  <2> QED BY <1>2 DEF Review
<1>4. IsOwn(p, finding)
  BY DEF IsOwn
<1> HIDE DEF new, finding
<1>5. \A f \in SetState(rev.findings, NoId, "Superseded") : \E g \in rev.findings : g.id = f.id
  <2>1. \A f \in rev.findings : f \in Finding
    BY <1>2 DEF Review
  <2>2. \A f \in Finding : [f EXCEPT !.state = "Superseded"].id = f.id
    BY DEF Finding
  <2> HIDE DEF rev
  <2> QED BY <2>1, <2>2 DEF SetState
<1>6. FindingIsOwn(finding)
  BY <1>4 DEF FindingIsOwn
<1>7. ASSUME NEW r \in DOMAIN reviews, NEW f \in reviews'[r].findings,
             \A g \in reviews[r].findings : g.id # f.id
      PROVE  FindingIsOwn(f)
  <2>1. r = m.review
    BY <1>1, <1>7
  <2>2. f \in SetState(rev.findings, NoId, "Superseded") \cup {finding}
    BY <1>1, <1>3, <1>7, <2>1
  <2>3. f = finding
    BY <1>5, <1>7, <2>1, <2>2
  <2> QED BY <1>6, <2>3
<1> QED
  BY <1>7 DEF FindingsAccounted

\* The other calls that change a review add no finding.
LEMMA OthersAccounted ==
    ASSUME TypeOK, NEW q, q.kind \notin {"RegisterWorker", "DeclareReadiness", "SubmitFinding"},
           Call(q)
    PROVE  FindingsAccounted
<1>1. ASSUME NEW r \in DOMAIN reviews PROVE reviews[r] \in Review
  BY <1>1, ReviewLookups
<1>2. ASSUME NEW input, SubmitEvidence(Context(q), input, NoId) PROVE FindingsAccounted
  <2> DEFINE m   == Context(q)
             rev == reviews[m.review]
             id  == Fresh(rev.evidences)
             new == [rev EXCEPT
                    !.evidences = @ \cup
                        {[id |-> id, critic |-> m.critic, criticGeneration |-> m.criticGeneration,
                          finding |-> NoId, verified |-> input.verified,
                          provenanceKnown |-> input.provenanceKnown]},
                    !.findings = {IF f.id = NoId THEN [f EXCEPT !.evidence = Append(@, id)]
                                                 ELSE f : f \in @}]
  <2>1. m.review \in DOMAIN reviews /\ reviews' = [reviews EXCEPT ![m.review] = new]
    BY <1>2 DEF SubmitEvidence, CheckAuthority
  <2> HIDE DEF m
  <2>2. rev \in Review
    BY <1>1, <2>1
  <2>3. new.findings = {IF f.id = NoId THEN [f EXCEPT !.evidence = Append(@, id)]
                                       ELSE f : f \in rev.findings}
    BY <2>2 DEF Review
  <2>4. \A f \in rev.findings : [f EXCEPT !.evidence = Append(@, id)].id = f.id
    BY <2>2 DEF Review, Finding
  <2>5. Echoes(rev, new)
    BY <2>3, <2>4 DEF Echoes
  <2> HIDE DEF new
  <2> QED BY <2>1, <2>5, OneEchoes
<1>3. ASSUME NEW r \in DOMAIN reviews, NEW batch, AssignCritics(epoch, r, batch)
      PROVE  FindingsAccounted
  <2> DEFINE rev     == reviews[r]
             granted == [rev EXCEPT !.assignments = @ \cup {Granted(rev, x) : x \in batch}]
             new     == reviews'[r]
  <2>1. /\ reviews' = [reviews EXCEPT ![r] = new]
        /\ \/ new = granted
           \/ new = [granted EXCEPT !.state = "Assigned", !.disposition = "None",
                                    !.authorityCurrent = TRUE]
    BY <1>3 DEF AssignCritics
  <2>2. rev \in Review
    BY <1>1
  <2>3. new.findings = rev.findings
    BY <2>1, <2>2 DEF Review
  <2>4. Echoes(rev, new)
    BY <2>3 DEF Echoes
  <2> HIDE DEF new
  <2> QED BY <2>1, <2>4, OneEchoes
<1>4. ASSUME NEW r \in DOMAIN reviews, CommitReview(epoch, r) \/ CancelReview(epoch, r)
      PROVE  FindingsAccounted
  <2> DEFINE new == reviews'[r]
  <2>1. reviews' = [reviews EXCEPT ![r] = new] /\ new.findings = reviews[r].findings
    BY <1>1, <1>4 DEF CommitReview, CancelReview, Review
  <2>2. Echoes(reviews[r], new)
    BY <2>1 DEF Echoes
  <2> HIDE DEF new
  <2> QED BY <2>1, <2>2, OneEchoes
<1>5. ASSUME NEW t, NEW content, AdvanceTarget(epoch, t, content) PROVE FindingsAccounted
  <2>1. \A r \in DOMAIN reviews : reviews'[r] \in {reviews[r], Supersede(reviews[r])}
    BY <1>5 DEF AdvanceTarget
  <2>2. ASSUME NEW r \in DOMAIN reviews PROVE Echoes(reviews[r], reviews'[r])
    <3>1. Echoes(reviews[r], reviews[r]) /\ Echoes(reviews[r], Supersede(reviews[r]))
      BY <1>1, WithdrawalEchoes DEF Echoes
    <3> QED BY <2>1, <3>1
  <2> QED BY <2>2, AllEcho
<1>6. CASE UNCHANGED vars
  BY <1>6 DEF vars, FindingsAccounted
<1> QED
  BY <1>2, <1>3, <1>4, <1>5, <1>6 DEF Call, Closing

\* A call speaks for the process that is asking.
LEMMA CallAccounted ==
    ASSUME ServerInv, TypeOK, NEW k \in Peers, Dispatch(k), Call(request[k]),
           stage' = [stage EXCEPT ![k] = After(request[k])]
    PROVE  FindingsAccounted /\ TakeoversAccounted
<1> DEFINE q == request[k]
<1>1. stage[k] = "reading" /\ q # NoRequest
  BY DEF Dispatch
<1>2. stage'[k] # "reading"
  BY DEF ServerInv, ThreadsInv, After
<1>3. ASSUME NEW kinds, q.kind \in kinds PROVE Handles(k, kinds)
  BY <1>1, <1>2, <1>3 DEF Handles
<1>4. ASSUME q.kind \in {"RegisterWorker", "DeclareReadiness", "SubmitFinding"}
      PROVE  /\ k \in Processes
             /\ q.worker = Identity[k].worker /\ q.boot = k /\ q.critic = Identity[k].critic
  BY <1>1, <1>4, CallerIsProcess, RegistrantIsOwn, OrdersAssumption
<1>5. ASSUME ~Registers(q) PROVE TakeoversAccounted
  <2>1. UNCHANGED workers
    <3>1. ASSUME NEW m, NEW input, NEW f, SubmitEvidence(m, input, f) \/ SubmitFinding(m, input, f)
          PROVE  UNCHANGED workers
      BY <3>1 DEF SubmitEvidence, SubmitFinding, registry
    <3>2. ASSUME NEW r, NEW batch, AssignCritics(epoch, r, batch)
          PROVE  UNCHANGED workers
      BY <3>2 DEF AssignCritics, registry
    <3>3. ASSUME NEW r, NEW t, NEW content,
                 CommitReview(epoch, r) \/ CancelReview(epoch, r) \/ AdvanceTarget(epoch, t, content)
          PROVE  UNCHANGED workers
      BY <3>3 DEF CommitReview, CancelReview, AdvanceTarget, registry
    <3>4. CASE UNCHANGED vars
      BY <3>4 DEF vars
    <3> QED BY <1>5, <3>1, <3>2, <3>3, <3>4 DEF Call, Closing, Registers
  <2> QED BY <2>1 DEF TakeoversAccounted, Takeover, Authoritative
<1>6. CASE q.kind = "RegisterWorker"
  <2>1. RegisterWorker(epoch, q.worker, q.boot, q.critic, q.generation)
    BY <1>6 DEF Call, Closing
  <2>2. /\ DOMAIN workers' = DOMAIN workers \cup {q.worker}
        /\ workers'[q.worker].boot = q.boot
        /\ \A v \in DOMAIN workers : v # q.worker => workers'[v].boot = workers[v].boot
        /\ \A v \in DOMAIN workers' : Authoritative(v)' =>
              v \in DOMAIN workers /\ Authoritative(v) /\ workers'[v].boot = workers[v].boot
    <3>1. RegistryTypeOK
      BY DEF TypeOK
    <3> HIDE DEF q
    <3> QED BY ONLY <2>1, <3>1, RegisterWorkerVoices, ZenonT(60)
  <2>3. TakeoverIsOwn(q.worker)
    BY <1>3, <1>4, <1>6, <2>2 DEF TakeoverIsOwn
  <2>4. TakeoversAccounted
    BY <2>2, <2>3 DEF TakeoversAccounted, Takeover
  <2>5. \A r \in DOMAIN reviews : \E retired : reviews'[r] = Retire(reviews[r], retired)
    BY <2>1 DEF RegisterWorker
  <2>6. FindingsAccounted
    BY <2>5, ReviewLookups, WithdrawalEchoes, AllEcho
  <2> QED BY <2>4, <2>6
<1>7. CASE q.kind = "DeclareReadiness"
  <2>1. PICK evidence : DeclareReadiness(epoch, Context(q), TRUE, TRUE, evidence)
    BY <1>7 DEF Call, Closing
  <2>2. Context(q).worker = q.worker /\ Context(q).boot = q.boot
    BY DEF Context
  <2> DEFINE x == Context(q)
  <2>3. ASSUME NEW y, DeclareReadiness(epoch, y, TRUE, TRUE, evidence)
        PROVE  /\ DOMAIN workers' = DOMAIN workers
               /\ workers[y.worker].boot = y.boot
               /\ \A v \in DOMAIN workers' :
                     /\ workers'[v].boot = workers[v].boot
                     /\ v # y.worker => workers'[v] = workers[v]
    BY ONLY <2>3, TypeOK, DeclareReadinessVoices, ZenonT(60) DEF TypeOK
  <2>4. /\ DOMAIN workers' = DOMAIN workers
        /\ workers[x.worker].boot = x.boot
        /\ \A v \in DOMAIN workers' :
              /\ workers'[v].boot = workers[v].boot
              /\ v # x.worker => workers'[v] = workers[v]
    BY <2>1, <2>3
  <2>5. UNCHANGED reviews
    BY <2>1 DEF DeclareReadiness
  <2> HIDE DEF x
  <2>6. x.worker = q.worker /\ x.boot = k /\ k \in Processes /\ q.worker = Identity[k].worker
    BY <1>4, <1>7, <2>2 DEF x
  <2>7. x.worker \in DOMAIN workers => TakeoverIsOwn(x.worker)
    BY <1>3, <1>7, <2>4, <2>6 DEF TakeoverIsOwn
  <2>8. TakeoversAccounted
    BY <2>4, <2>7 DEF TakeoversAccounted, Takeover, Authoritative
  <2> QED BY <2>5, <2>8 DEF FindingsAccounted
<1>8. CASE q.kind = "SubmitFinding"
  <2>1. PICK input : SubmitFinding(Context(q), input, NoId)
    BY <1>8 DEF Call, Closing
  <2>2. IsOwn(k, Context(q))
    BY <1>4, <1>8 DEF IsOwn, Context
  <2>3. FindingsAccounted
    BY <1>3, <1>4, <1>8, <2>1, <2>2, FindingAccounted
  <2> QED BY <1>5, <1>8, <2>3 DEF Registers
<1>9. CASE q.kind \notin {"RegisterWorker", "DeclareReadiness", "SubmitFinding"}
  BY <1>5, <1>9, OthersAccounted DEF Registers
<1> QED
  BY <1>6, <1>7, <1>8, <1>9

-----------------------------------------------------------------------------
(* Theorems.                                                               *)

\* Nobody is connected when the server starts.
LEMMA ServerInvInit == Started /\ ProtocolInit => ServerInv
<1> SUFFICES ASSUME Started, ProtocolInit PROVE ServerInv
  OBVIOUS
<1>1. ThreadsInv
  BY EmptySeq DEF ProtocolInit, ServerInit, ThreadsInv, Stages
<1>2. ConnectionsInv
  BY DEF ProtocolInit, ServerInit, ConnectionsInv, Range
<1>3. RequestsInv
  BY DEF ProtocolInit, ServerInit, RequestsInv, Asked
<1>4. RoutesInv
  BY EmptySeq DEF ProtocolInit, ServerInit, RoutesInv, EmptyMap
<1>5. VoicesInv
  BY DEF Started, VoicesInv
<1> QED
  BY <1>1, <1>2, <1>3, <1>4, <1>5 DEF ServerInv

ComposedInv == TypeOK /\ RegistryInv /\ ServerInv

\* The server keeps its own invariant and, making nothing but calls, those of
\* the coordinator.
LEMMA ComposedSafe == ProtocolSpec => []ComposedInv
<1>1. Started /\ ProtocolInit => ComposedInv
  BY ServerInvInit DEF Started, ComposedInv
<1>2. ComposedInv /\ [ProtocolNext]_allVars => ComposedInv'
  BY ProtocolCalls, TypeStep, RegistryInvStep, ServerInvStep DEF ComposedInv, TypeOK
<1> QED
  BY <1>1, <1>2, PTL DEF ProtocolSpec

\* Whatever peers send, when they die and when the server stops, its threads
\* make only calls of the coordinator (transport.cpp dispatch, forget_connection).
LEMMA ServerOnlyCalls == ProtocolSpec => [][Next]_vars
  BY ComposedSafe, ProtocolCalls, PTL DEF ProtocolSpec, ComposedInv

\* README "Worker death and reincarnation": each call speaks for the process on the
\* other end and for no other.  A finding is recorded with the identity and boot of
\* the process whose request is answered, and a process is entered or given its
\* voice only by its own requests, however many processes claim one worker.
THEOREM OutputOwn == ProtocolSpec => OutputIsOwn
<1>1. ComposedInv /\ [ProtocolNext]_allVars =>
        [TakeoversAccounted /\ FindingsAccounted]_<<workers, reviews>>
  <2> SUFFICES ASSUME ServerInv, TypeOK, [ProtocolNext]_allVars, ~UNCHANGED <<workers, reviews>>
               PROVE  TakeoversAccounted /\ FindingsAccounted
    BY DEF ComposedInv
  <2>1. PICK k \in Peers : Dispatch(k) \/ FenceOwned(k)
    BY StepsThatCall DEF vars, registry
  <2>2. CASE FenceOwned(k)
    BY <2>2, FencingAccounted DEF FenceOwned
  <2>3. CASE Dispatch(k)
    BY <2>3, CallAccounted DEF Dispatch, vars, registry
  <2> QED BY <2>1, <2>2, <2>3
<1> QED
  BY <1>1, ComposedSafe, PTL DEF ProtocolSpec, OutputIsOwn, TakeoversAccounted, FindingsAccounted

\* So a critic has one voice behind the server too, for any number of
\* processes that claim its identity.
THEOREM OneVoiceServed == ProtocolSpec => []OneVoicePerCritic
  BY ComposedSafe, PTL DEF ComposedInv, RegistryInv

\* No worker is registered on a connection that is gone (register_worker,
\* forget_connection): its thread is at work and has still to forget it.
THEOREM RoutesServed == ProtocolSpec => []RoutesAreServed
<1>1. ComposedInv => RoutesAreServed
  BY DEF ComposedInv, ServerInv, RoutesInv, ThreadsInv, RoutesAreServed, AtWork
<1> QED
  BY <1>1, ComposedSafe, PTL

\* A registration is taken back only by the connection it is on, in the moment
\* that connection is forgotten, or by stop.
THEOREM RouteSurvives == ProtocolSpec => FreshRouteSurvives
<1> DEFINE Stays == \A w \in DOMAIN route :
              server' # "down" /\ w \notin DOMAIN route' => stage'[route[w]] = "fencing"
<1>1. ComposedInv /\ [ProtocolNext]_allVars => [Stays]_route
  <2> SUFFICES ASSUME ServerInv, [ProtocolNext]_allVars PROVE Stays \/ UNCHANGED route
    BY DEF ComposedInv
  <2>1. ASSUME NEW k \in Peers, RegisterRoute(k) PROVE Stays
    BY <2>1 DEF RegisterRoute, Put
  <2>2. ASSUME NEW k \in Peers, ForgetRoutes(k) PROVE Stays
    BY <2>2 DEF ForgetRoutes, Restrict, ServerInv, ThreadsInv
  <2>3. CASE StopEnds
    BY <2>3 DEF StopEnds
  <2>4. ASSUME NEW k \in Peers, Serve(k), ~RegisterRoute(k), ~ForgetRoutes(k)
        PROVE  UNCHANGED route
    BY <2>4 DEF Serve, Dispatch, LookUp, Notify, AllAnnounced, SendAnswer, EndOfStream,
                FenceOwned, ThreadEnds, routing
  <2>5. CASE AcceptorStep \/ StopBegins \/ StopInterrupts
    BY <2>5 DEF AcceptorStep, Accept, Reap, Spawn, AcceptorEnds, StopBegins, StopInterrupts,
                routing
  <2>6. CASE \/ \E p \in Processes : Launch(p) \/ ConnectFails(p) \/ Reacts(p) \/ Dies(p)
             \/ \E c \in Controllers :
                  \/ \E kind \in Orders, r \in Requests : Order(c, kind, r)
                  \/ Ordered(c) \/ ConnectionLost(c) \/ Dies(c)
    BY <2>6, ClientSteps DEF ClientStep, routing
  <2>7. CASE UNCHANGED allVars
    BY <2>7 DEF allVars, serverVars, routing
  <2> HIDE DEF Stays
  <2> QED BY <2>1, <2>2, <2>3, <2>4, <2>5, <2>6, <2>7 DEF ProtocolNext, ServerStep, StopStep
<1> QED
  BY <1>1, ComposedSafe, PTL DEF ProtocolSpec, FreshRouteSurvives

\* When stop has returned no thread runs, and no process that spoke through the
\* server may speak: every lost connection has fenced its workers.
THEOREM StoppedSilent == ProtocolSpec => []StoppedMeansSilent
<1>1. ComposedInv => StoppedMeansSilent
  BY PeersAssumption
     DEF ComposedInv, ServerInv, ThreadsInv, VoicesInv, StoppedMeansSilent, Speaks
<1> QED
  BY <1>1, ComposedSafe, PTL

=============================================================================
