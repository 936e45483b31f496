----------------------------- MODULE FixClient ------------------------------
(***************************************************************************)
(* FixClient of fix/binance_fix.py: a socket, a buffer of what it has      *)
(* received and a sequence number, used without a lock by the thread that  *)
(* places orders and by a receive and a heartbeat thread for each connect().*)
(* Threads are switched between any two uses of a shared attribute.        *)
(*                                                                         *)
(* A message is three pieces: the beginning of the tag "8=FIX", the rest   *)
(* of it with the body, and the trailer; recv returns any number of them.  *)
(* Signatures, time stamps and the fields of an order are left out.        *)
(***************************************************************************)
EXTENDS Naturals, FiniteSets, Sequences, SequencesExt

CONSTANTS
  App,          \* the thread that connects first and places orders
  Receivers,    \* identities for receive_orders threads
  Monitors,     \* identities for heartbeat_monitor threads
  Reports,      \* the messages of the exchange that are execution reports
  TestRequests, \* those that are test requests; the others are ignored
  Messages,     \* bound: messages the exchange sends, numbered from 1
  MaxConnects,  \* bound: sockets
  MaxSends,     \* bound: orders and heartbeats
  MaxFaults,    \* bound: failures of the network
  MaxTears      \* bound: recv calls that end inside a tag

Threads == {App} \cup Receivers \cup Monitors
Sockets == 1..MaxConnects

ConstantsAssumption ==
  /\ App \notin Receivers /\ App \notin Monitors /\ Receivers \cap Monitors = {}
  /\ IsFiniteSet(Threads)
  /\ Messages \in Nat /\ Reports \subseteq 1..Messages /\ TestRequests \subseteq 1..Messages
  /\ MaxConnects \in Nat /\ MaxSends \in Nat /\ MaxFaults \in Nat /\ MaxTears \in Nat
ASSUME ConstantsAssumption

VARIABLES
  sock,      \* ssl_sock: a number, 0 before the first connect()
  link,      \* link[s]: "off", "new" (not connected yet), "up", "eof" (closed by
             \* the exchange), "dead"
  made,      \* sockets made
  inbound,   \* inbound[s]: pieces on their way to the client
  emitted,   \* messages the exchange has sent
  buffer,    \* buffer
  queue,     \* order_queue: for each entry the messages it was cut from
  seq,       \* msg_seq_num
  wire,      \* the numbers of the messages sent, in order
  pc,        \* pc[t]: where thread t is
  at,        \* at[r]: the socket whose recv it waits in
  text,      \* text[r]: what it has received, then the message it has cut
  local,     \* local[r]: the buffer it has read
  span,      \* span[r]: start and end of a message in the buffer
  num,       \* num[t]: the number in the message it has built, or has read to add 1
  back,      \* back[t]: where it goes on after a send
  races,     \* history: messages built while another one was not counted yet
  sends, faults, tears

net == <<link, made, inbound, emitted>>
parsing == <<at, text, local, span>>
sending == <<num, back, races>>
bounds == <<sends, faults, tears>>
vars == <<sock, net, buffer, queue, seq, wire, pc, parsing, sending, bounds>>

Piece(m, part) == [msg |-> m, part |-> part]
Whole(m) == <<Piece(m, "tag"), Piece(m, "body"), Piece(m, "end")>>
NoSpan == <<0, 0>>

Init ==
  /\ sock = 0 /\ made = 0 /\ emitted = 0
  /\ link = [s \in Sockets |-> "off"]
  /\ inbound = [s \in Sockets |-> <<>>]
  /\ buffer = <<>> /\ queue = <<>> /\ seq = 1 /\ wire = <<>>
  /\ pc = [t \in Threads |-> IF t = App THEN "dial" ELSE "off"]
  /\ at = [r \in Receivers |-> 0]
  /\ text = [r \in Receivers |-> <<>>]
  /\ local = [r \in Receivers |-> <<>>]
  /\ span = [r \in Receivers |-> NoSpan]
  /\ num = [t \in Threads |-> 0]
  /\ back = [t \in Threads |-> "off"] /\ races = 0
  /\ sends = 0 /\ faults = 0 /\ tears = 0

Goto(t, l) == pc' = [pc EXCEPT ![t] = l]
Fault == faults < MaxFaults /\ faults' = faults + 1 /\ UNCHANGED <<sends, tears>>

-----------------------------------------------------------------------------
\* connect(), by the application or out of reconnect().

\* reconnect: the socket of the moment is closed, whoever has made it.
CloseSocket(r) ==
  /\ pc[r] = "close"
  /\ link' = [link EXCEPT ![sock] = "dead"]
  /\ inbound' = [inbound EXCEPT ![sock] = <<>>]
  /\ Goto(r, "dial")
  /\ UNCHANGED <<sock, made, emitted, buffer, queue, seq, wire, parsing, sending, bounds>>

\* Mutant of MakeSocket: numbers start again with each connection, at 0.
MakeSocketResets(t) ==
  /\ pc[t] = "dial" /\ made < MaxConnects
  /\ made' = made + 1 /\ sock' = made'
  /\ link' = [link EXCEPT ![made'] = "new"]
  /\ seq' = 0
  /\ Goto(t, "connect")
  /\ UNCHANGED <<inbound, emitted, buffer, queue, wire, parsing, sending, bounds>>

\* The new socket becomes ssl_sock before it is connected.
MakeSocket(t) ==
  /\ pc[t] = "dial" /\ made < MaxConnects
  /\ made' = made + 1 /\ sock' = made'
  /\ link' = [link EXCEPT ![made'] = "new"]
  /\ Goto(t, "connect")
  /\ UNCHANGED <<inbound, emitted, buffer, queue, seq, wire, parsing, sending, bounds>>

\* connect() raises on a socket that is closed or connected already.  Where an
\* exception leads: the application calls connect() again,
\* reconnect() catches everything, and the thread reads from ssl_sock again.
Raised(t) == IF t \in Receivers THEN "recv" ELSE "dial"

ConnectSocket(t) ==
  /\ pc[t] = "connect"
  /\ IF link[sock] = "new"
     THEN \/ /\ link' = [link EXCEPT ![sock] = "up"]
             /\ Goto(t, "build")
             /\ back' = [back EXCEPT ![t] = "spawn"]
             /\ UNCHANGED bounds
          \/ Fault /\ Goto(t, Raised(t)) /\ UNCHANGED <<link, back>>
     ELSE Goto(t, Raised(t)) /\ UNCHANGED <<link, back, bounds>>
  /\ UNCHANGED <<sock, made, inbound, emitted, buffer, queue, seq, wire, parsing, num, races>>

\* Two threads are started after the login; the ones that run go on running.
Spawn(t) ==
  /\ pc[t] = "spawn"
  /\ \E r \in Receivers, m \in Monitors :
       /\ pc[r] = "off" /\ pc[m] = "off"
       /\ pc' = [pc EXCEPT ![t] = IF t = App THEN "idle" ELSE "recv",
                           ![r] = "recv", ![m] = "beat"]
  /\ UNCHANGED <<sock, net, buffer, queue, seq, wire, parsing, sending, bounds>>

-----------------------------------------------------------------------------
\* send_message and what calls it: login, orders, heartbeats and the answers
\* to test requests.  The message is built with msg_seq_num, which is
\* incremented, by a read and a write, when it has been sent.

StartSend(t) ==
  /\ pc[t] \in {"idle", "beat"} /\ sends < MaxSends
  /\ sends' = sends + 1
  /\ back' = [back EXCEPT ![t] = pc[t]]
  /\ Goto(t, "build")
  /\ UNCHANGED <<sock, net, buffer, queue, seq, wire, parsing, num, races, faults, tears>>

\* A message that has its number and is not counted yet.
Uncounted == {t \in Threads : pc[t] \in {"send", "count", "add"}}
Races == races' = races + (IF Uncounted = {} THEN 0 ELSE 1)

\* Mutant of Build: the number is taken at once.
BuildAndCount(t) ==
  /\ pc[t] = "build"
  /\ num' = [num EXCEPT ![t] = seq] /\ Races
  /\ seq' = seq + 1
  /\ Goto(t, "send")
  /\ UNCHANGED <<sock, net, buffer, queue, wire, parsing, back, bounds>>

Build(t) ==
  /\ pc[t] = "build"
  /\ num' = [num EXCEPT ![t] = seq] /\ Races
  /\ Goto(t, "send")
  /\ UNCHANGED <<sock, net, buffer, queue, seq, wire, parsing, back, bounds>>

\* A failed send: an exception in reconnect() or the application, a reconnect
\* in receive_orders; in heartbeat_monitor nothing catches it.
SendRaised(t) ==
  CASE back[t] = "spawn" -> Raised(t)
    [] back[t] = "find"  -> "close"
    [] back[t] = "beat"  -> "off"
    [] OTHER             -> "idle"

Send(t) ==
  /\ pc[t] = "send"
  /\ \/ /\ link[sock] \in {"up", "eof"}
        /\ wire' = Append(wire, num[t])
        /\ Goto(t, "count")
        /\ UNCHANGED sending
     \/ /\ link[sock] \in {"new", "dead", "eof"}
        /\ Goto(t, SendRaised(t))
        /\ num' = [num EXCEPT ![t] = 0] /\ back' = [back EXCEPT ![t] = "off"]
        /\ UNCHANGED <<wire, races>>
  /\ UNCHANGED <<sock, net, buffer, queue, seq, parsing, bounds>>

ReadCount(t) ==
  /\ pc[t] = "count"
  /\ num' = [num EXCEPT ![t] = seq]
  /\ Goto(t, "add")
  /\ UNCHANGED <<sock, net, buffer, queue, seq, wire, parsing, back, races, bounds>>

WriteCount(t) ==
  /\ pc[t] = "add"
  /\ seq' = num[t] + 1
  /\ Goto(t, back[t])
  /\ num' = [num EXCEPT ![t] = 0] /\ back' = [back EXCEPT ![t] = "off"]
  /\ UNCHANGED <<sock, net, buffer, queue, wire, parsing, races, bounds>>

-----------------------------------------------------------------------------
\* receive_orders.

\* A thread in recv stays with the socket it has called it on.
Recv(r) ==
  /\ pc[r] = "recv"
  /\ at' = [at EXCEPT ![r] = sock]
  /\ Goto(r, "wait")
  /\ UNCHANGED <<sock, net, buffer, queue, seq, wire, text, local, span, sending, bounds>>

Received(r) ==
  /\ pc[r] = "wait" /\ link[at[r]] = "up"
  /\ \E n \in 1..Len(inbound[at[r]]) :
       /\ IF inbound[at[r]][n].part = "tag" THEN tears < MaxTears /\ tears' = tears + 1
                                            ELSE UNCHANGED tears
       /\ text' = [text EXCEPT ![r] = SubSeq(inbound[at[r]], 1, n)]
       /\ inbound' = [inbound EXCEPT ![at[r]] = SubSeq(@, n + 1, Len(@))]
  /\ Goto(r, "load")
  /\ UNCHANGED <<sock, link, made, emitted, buffer, queue, seq, wire, at, local, span, sending,
                 sends, faults>>

\* After the end of the stream recv returns nothing, again and again; on a
\* socket that has failed, is closed or not connected it raises.
ReceivedNothing(r) ==
  /\ pc[r] = "wait"
  /\ \/ link[at[r]] = "eof" /\ Goto(r, "recv")
     \/ link[at[r]] \in {"new", "dead"} /\ Goto(r, "close")
  /\ at' = [at EXCEPT ![r] = 0]
  /\ UNCHANGED <<sock, net, buffer, queue, seq, wire, text, local, span, sending, bounds>>

\* buffer += ...: a read and a write.
ReadBuffer(r) ==
  /\ pc[r] = "load"
  /\ local' = [local EXCEPT ![r] = buffer]
  /\ Goto(r, "store")
  /\ UNCHANGED <<sock, net, buffer, queue, seq, wire, at, text, span, sending, bounds>>

WriteBuffer(r) ==
  /\ pc[r] = "store"
  /\ buffer' = local[r] \o text[r]
  /\ local' = [local EXCEPT ![r] = <<>>]
  /\ text' = [text EXCEPT ![r] = <<>>]
  /\ Goto(r, "find")
  /\ UNCHANGED <<sock, net, queue, seq, wire, at, span, sending, bounds>>

\* process_buffer: the first tag, and the first trailer after it.  A tag is
\* found if its two pieces follow each other, whatever messages they are of.
Tags(b) == {i \in 1..Len(b) : i < Len(b) /\ b[i].part = "tag" /\ b[i + 1].part = "body"}
Ends(b, i) == {j \in i..Len(b) : b[j].part = "end"}

Find(r) ==
  /\ pc[r] = "find"
  /\ IF Tags(buffer) = {}
     THEN buffer' = <<>> /\ Goto(r, "recv") /\ UNCHANGED span
     ELSE LET first == Min(Tags(buffer)) IN
          /\ IF Ends(buffer, first) = {} THEN Goto(r, "recv") /\ UNCHANGED span
             ELSE /\ span' = [span EXCEPT ![r] = <<first, Min(Ends(buffer, first))>>]
                  /\ Goto(r, "cut")
          /\ UNCHANGED buffer
  /\ UNCHANGED <<sock, net, queue, seq, wire, at, text, local, sending, bounds>>

Clip(i, b) == IF i > Len(b) THEN Len(b) ELSE i

Cut(r) ==
  /\ pc[r] = "cut"
  /\ text' = [text EXCEPT ![r] = SubSeq(buffer, span[r][1], Clip(span[r][2], buffer))]
  /\ Goto(r, "drop")
  /\ UNCHANGED <<sock, net, buffer, queue, seq, wire, at, local, span, sending, bounds>>

\* Mutant of DropCut: nothing is kept of what follows the message.
DropAll(r) ==
  /\ pc[r] = "drop"
  /\ buffer' = <<>>
  /\ span' = [span EXCEPT ![r] = NoSpan]
  /\ Goto(r, "handle")
  /\ UNCHANGED <<sock, net, queue, seq, wire, at, text, local, sending, bounds>>

DropCut(r) ==
  /\ pc[r] = "drop"
  /\ buffer' = SubSeq(buffer, span[r][2] + 1, Len(buffer))
  /\ span' = [span EXCEPT ![r] = NoSpan]
  /\ Goto(r, "handle")
  /\ UNCHANGED <<sock, net, queue, seq, wire, at, text, local, sending, bounds>>

\* handle_message: a report is queued, a test request is answered, any other
\* message is ignored.
Bodies(b) == {b[i].msg : i \in {j \in DOMAIN b : b[j].part = "body"}}

Handle(r) ==
  /\ pc[r] = "handle"
  /\ IF Bodies(text[r]) \cap Reports # {}
     THEN queue' = Append(queue, Bodies(text[r])) /\ Goto(r, "find") /\ UNCHANGED back
     ELSE /\ IF Bodies(text[r]) \cap TestRequests = {} THEN Goto(r, "find") /\ UNCHANGED back
             ELSE Goto(r, "build") /\ back' = [back EXCEPT ![r] = "find"]
          /\ UNCHANGED queue
  /\ text' = [text EXCEPT ![r] = <<>>]
  /\ UNCHANGED <<sock, net, buffer, seq, wire, at, local, span, num, races, bounds>>

-----------------------------------------------------------------------------
\* The exchange and the network.

Emit(s) ==
  /\ link[s] = "up" /\ emitted < Messages
  /\ emitted' = emitted + 1
  /\ inbound' = [inbound EXCEPT ![s] = @ \o Whole(emitted')]
  /\ UNCHANGED <<sock, link, made, buffer, queue, seq, wire, pc, parsing, sending, bounds>>

Fails(s) ==
  /\ link[s] = "up" /\ Fault
  /\ \E l \in {"eof", "dead"} : link' = [link EXCEPT ![s] = l]
  /\ inbound' = [inbound EXCEPT ![s] = <<>>]
  /\ UNCHANGED <<sock, made, emitted, buffer, queue, seq, wire, pc, parsing, sending>>

Sending(t) == Build(t) \/ Send(t) \/ ReadCount(t) \/ WriteCount(t)
Connecting(t) == MakeSocket(t) \/ ConnectSocket(t) \/ Spawn(t)
Receiving(r) ==
  \/ CloseSocket(r) \/ Recv(r) \/ Received(r) \/ ReceivedNothing(r) \/ ReadBuffer(r)
  \/ WriteBuffer(r) \/ Find(r) \/ Cut(r) \/ DropCut(r) \/ Handle(r)

Next ==
  \/ \E t \in Threads : StartSend(t) \/ Sending(t) \/ Connecting(t)
  \/ \E r \in Receivers : Receiving(r)
  \/ \E s \in Sockets : Emit(s) \/ Fails(s)

Spec == Init /\ [][Next]_vars

\* Threads that run keep running; nobody has to place an order.
Fairness == \A t \in Threads :
  WF_vars(Sending(t) \/ Connecting(t) \/ (t \in Receivers /\ Receiving(t)))
FairSpec == Spec /\ Fairness

-----------------------------------------------------------------------------
Labels == {"off", "dial", "connect", "spawn", "idle", "beat", "build", "send", "count", "add",
           "close", "recv", "wait", "load", "store", "find", "cut", "drop", "handle"}
Pieces == [msg : 1..Messages, part : {"tag", "body", "end"}]

TypeOK ==
  /\ sock \in 0..made /\ made \in 0..MaxConnects /\ emitted \in 0..Messages
  /\ link \in [Sockets -> {"off", "new", "up", "eof", "dead"}]
  /\ inbound \in [Sockets -> Seq(Pieces)]
  /\ buffer \in Seq(Pieces) /\ queue \in Seq(SUBSET (1..Messages))
  /\ seq \in Nat \ {0} /\ wire \in Seq(Nat \ {0})
  /\ pc \in [Threads -> Labels]
  /\ at \in [Receivers -> 0..made]
  /\ text \in [Receivers -> Seq(Pieces)] /\ local \in [Receivers -> Seq(Pieces)]
  /\ span \in [Receivers -> Nat \X Nat]
  /\ num \in [Threads -> Nat] /\ back \in [Threads -> {"off", "spawn", "idle", "beat", "find"}]
  /\ races \in Nat
  /\ sends \in 0..MaxSends /\ faults \in 0..MaxFaults /\ tears \in 0..MaxTears

\* The numbers of the messages the client has sent count from 1 on, one by one,
\* as long as no message is built while another thread has one that is not
\* counted yet, and whatever fails; each such overlap costs one place at most,
\* by a number that is used twice or an increment that is lost, and no number
\* runs ahead of the messages (send_message).  They are numbers of the client:
\* it goes on counting over all its sockets.
NumbersInStep == \A i \in DOMAIN wire : wire[i] <= i /\ i <= wire[i] + races

\* While there is one receive thread, the queue has the reports in the order in
\* which the exchange has sent them, one by one, and all of those it has read
\* but one for each recv that has ended inside a tag: the buffer is emptied
\* then, and the message is lost, but never another one (receive_orders,
\* process_buffer).  A second connection breaks this: it starts another receive
\* thread, and the buffer keeps what the first one has left.
InOrder(q, S) ==
  /\ {q[i] : i \in DOMAIN q} = {{m} : m \in S}
  /\ \A i, j \in DOMAIN q : i < j => \E m \in q[i], n \in q[j] : m < n
Consumed(r) == pc[r] = "wait" /\ inbound[at[r]] = <<>> /\ link[at[r]] = "up"
Faithful ==
  made = 1 =>
    \E n \in 0..emitted : \E lost \in SUBSET (1..n) :
      /\ Cardinality(lost) <= tears
      /\ InOrder(queue, (Reports \cap 1..n) \ lost)
      /\ \A r \in Receivers : Consumed(r) => n = emitted

\* "持续接收订单消息" (keeps receiving order messages): a client that has logged
\* in and loses its connection gets another one.
Online == sock > 0 /\ link[sock] = "up"
KeepsReceiving == (sock > 0 /\ ~Online) ~> Online
=============================================================================
