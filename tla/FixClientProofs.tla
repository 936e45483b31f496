--------------------------- MODULE FixClientProofs ---------------------------
(***************************************************************************)
(* For any number of sockets, threads, messages and failures: the sequence *)
(* numbers keep step with the messages sent, up to one place for each time *)
(* two threads overlap; and on one connection every report is queued once  *)
(* and in order, up to one message for each recv that ends inside a tag.   *)
(***************************************************************************)
EXTENDS FixClient, Integers, FiniteSetTheorems, WellFoundedInduction, TLAPS

\* The part of the state that sequence numbers depend on.
Backs == {"off", "spawn", "idle", "beat", "find"}
SendType ==
  /\ seq \in Nat \ {0} /\ wire \in Seq(Nat \ {0})
  /\ pc \in [Threads -> Labels]
  /\ num \in [Threads -> Nat] /\ back \in [Threads -> Backs] /\ races \in Nat
  /\ \A t \in Threads : pc[t] \in {"send", "add"} => num[t] # 0

(***************************************************************************)
(* A message that is sent and not counted yet leaves room for one number:  *)
(* threads between sendall and the end of msg_seq_num += 1 can only be     *)
(* behind, since each of them has sent a message first.                    *)
(***************************************************************************)
Counting == {t \in Threads : pc[t] \in {"count", "add"}}
Behind ==
  /\ IsFiniteSet(Counting)
  /\ seq + Cardinality(Counting) <= Len(wire) + 1
  /\ \A t \in Threads :
       /\ pc[t] = "add" => num[t] + Cardinality(Counting) <= Len(wire) + 1
       /\ pc[t] = "send" => num[t] <= Len(wire) + 1

(***************************************************************************)
(* A message that is built is a message that may be sent: the first of     *)
(* those that are not counted yet has a number of its own, and each other  *)
(* one is a race.                                                          *)
(***************************************************************************)
Sent == {t \in Threads : pc[t] = "send"}
Near ==
  /\ Uncounted = {} => Len(wire) + 1 <= seq + races
  /\ Len(wire) + Cardinality(Sent) <= seq + races
  /\ \A t \in Threads :
       pc[t] \in {"send", "add"} => Len(wire) + Cardinality(Sent) <= num[t] + races
IInv == SendType /\ Behind /\ Near /\ NumbersInStep

LEMMA SentIsFinite == IsFiniteSet(Sent) /\ Cardinality(Sent) \in Nat
<1>1. Sent \subseteq Threads /\ IsFiniteSet(Threads)
  BY ConstantsAssumption DEF ConstantsAssumption, Sent
<1> QED
  BY <1>1, FS_Subset, FS_CardinalityType

LEMMA SentIsFiniteNext == IsFiniteSet(Sent') /\ Cardinality(Sent') \in Nat
<1>1. Sent' \subseteq Threads /\ IsFiniteSet(Threads)
  BY ConstantsAssumption DEF ConstantsAssumption, Sent
<1> QED
  BY <1>1, FS_Subset, FS_CardinalityType

LEMMA InitInv == Init => IInv
<1> SUFFICES ASSUME Init PROVE IInv
  OBVIOUS
<1>1. SendType
  BY DEF Init, SendType, Labels, Backs
<1>2. Counting = {}
  BY DEF Init, Counting
<1>3. Behind
  BY <1>2, FS_EmptySet DEF Init, Behind
<1>4. Sent = {}
  BY DEF Init, Sent
<1>5. Near
  BY <1>4, FS_EmptySet DEF Init, Near
<1> QED
  BY <1>1, <1>3, <1>5 DEF Init, IInv, NumbersInStep

\* Threads outside of send_message.
Busy == {"send", "count", "add"}
Apart(t) ==
  /\ seq' = seq /\ wire' = wire /\ num' = num /\ races' = races
  /\ \A j \in Threads : pc'[j] # pc[j] => pc[j] \notin Busy /\ pc'[j] \notin Busy

LEMMA ApartInv ==
  ASSUME IInv, NEW t \in Threads, Apart(t), SendType'
  PROVE  IInv'
<1>1. Counting' = Counting
  BY DEF Apart, Counting, Busy
<1>2. Behind'
  BY <1>1 DEF IInv, Behind, Apart, Busy
<1>3. Sent' = Sent /\ Uncounted' = Uncounted
  BY DEF Apart, Sent, Uncounted, Busy
<1>4. Near'
  BY <1>3 DEF IInv, Near, Apart, Busy
<1> QED
  BY <1>2, <1>4 DEF IInv, NumbersInStep, Apart

\* The steps that are not of Sending keep apart from the numbers.
LEMMA OthersApart ==
  ASSUME SendType, NEW t \in Threads, StartSend(t) \/ Connecting(t)
  PROVE  Apart(t) /\ SendType'
<1> USE DEF Goto, Busy, Labels, Backs, sending, Raised
<1>1. CASE StartSend(t)
  BY <1>1 DEF StartSend, SendType, Apart
<1>2. CASE MakeSocket(t)
  BY <1>2 DEF MakeSocket, SendType, Apart
<1>3. CASE ConnectSocket(t)
  BY <1>3 DEF ConnectSocket, SendType, Apart
<1>4. CASE Spawn(t)
  <2>1. PICK r \in Receivers, m \in Monitors :
          /\ pc[r] = "off" /\ pc[m] = "off"
          /\ pc' = [pc EXCEPT ![t] = IF t = App THEN "idle" ELSE "recv", ![r] = "recv", ![m] = "beat"]
    BY <1>4 DEF Spawn
  <2>2. r \in Threads /\ m \in Threads /\ pc[t] = "spawn"
    BY <1>4 DEF Spawn, Threads
  <2> QED
    BY <1>4, <2>1, <2>2 DEF Spawn, SendType, Apart
<1> QED
  BY <1>1, <1>2, <1>3, <1>4 DEF Connecting

LEMMA ReceivingApart ==
  ASSUME SendType, NEW r \in Receivers, Receiving(r)
  PROVE  r \in Threads /\ Apart(r) /\ SendType'
<1>1. r \in Threads
  BY DEF Threads
<1> USE <1>1 DEF Goto, Busy, Labels, Backs, sending
<1>2. CASE CloseSocket(r) \/ Recv(r)
  BY <1>2 DEF CloseSocket, Recv, SendType, Apart
<1>3. CASE Received(r)
  BY <1>3 DEF Received, SendType, Apart
<1>4. CASE ReceivedNothing(r)
  BY <1>4 DEF ReceivedNothing, SendType, Apart
<1>5. CASE ReadBuffer(r) \/ WriteBuffer(r)
  BY <1>5 DEF ReadBuffer, WriteBuffer, SendType, Apart
<1>6. CASE Find(r)
  <2>1. pc[r] = "find" /\ (pc' = [pc EXCEPT ![r] = "recv"] \/ pc' = [pc EXCEPT ![r] = "cut"])
    BY <1>6 DEF Find
  <2> QED
    BY <1>6, <2>1 DEF Find, SendType, Apart
<1>7. CASE Cut(r) \/ DropCut(r)
  BY <1>7 DEF Cut, DropCut, SendType, Apart
<1>8. CASE Handle(r)
  <2>1. /\ pc[r] = "handle" /\ seq' = seq /\ wire' = wire /\ num' = num /\ races' = races
        /\ pc' = [pc EXCEPT ![r] = "find"] \/ pc' = [pc EXCEPT ![r] = "build"]
        /\ back' = back \/ back' = [back EXCEPT ![r] = "find"]
    BY <1>8 DEF Handle
  <2> QED
    BY <2>1 DEF SendType, Apart
<1> QED
  BY <1>1, <1>2, <1>3, <1>4, <1>5, <1>6, <1>7, <1>8 DEF Receiving

-----------------------------------------------------------------------------
LEMMA BuildInv ==
  ASSUME IInv, NEW t \in Threads, Build(t)
  PROVE  IInv'
<1>1. /\ pc[t] = "build" /\ num' = [num EXCEPT ![t] = seq] /\ pc' = [pc EXCEPT ![t] = "send"]
      /\ seq' = seq /\ wire' = wire /\ back' = back
  BY DEF Build, Goto
<1>2. SendType'
  BY <1>1 DEF IInv, SendType, Labels, Build, Races
<1>3. Counting' = Counting
  BY <1>1 DEF Counting, IInv, SendType
<1>4. Cardinality(Counting) \in Nat /\ seq \in Nat /\ Len(wire) \in Nat
  BY FS_CardinalityType DEF IInv, Behind, SendType
<1>5. Behind'
  BY <1>1, <1>3, <1>4 DEF IInv, Behind, SendType
<1>6. /\ races' = races + (IF Uncounted = {} THEN 0 ELSE 1) /\ races \in Nat /\ races' >= races
      /\ Cardinality(Sent) \in Nat /\ IsFiniteSet(Sent)
  BY SentIsFinite DEF Build, Races, IInv, SendType
<1>7. Sent' = Sent \cup {t} /\ t \notin Sent
  BY <1>1 DEF Sent, IInv, SendType
<1>8. Cardinality(Sent') = Cardinality(Sent) + 1
  BY <1>6, <1>7, FS_AddElement
<1>9. Uncounted' # {}
  BY <1>1 DEF Uncounted, IInv, SendType
<1>10. Len(wire) + Cardinality(Sent) + 1 <= seq + races'
  <2>1. CASE Uncounted = {}
    <3>1. Sent = {}
      BY <2>1 DEF Sent, Uncounted
    <3>2. Cardinality(Sent) = 0
      BY <3>1, FS_EmptySet
    <3> QED
      BY <1>4, <1>6, <2>1, <3>2 DEF IInv, Near
  <2>2. CASE Uncounted # {}
    BY <1>4, <1>6, <2>2 DEF IInv, Near
  <2> QED
    BY <2>1, <2>2
<1>11. ASSUME NEW j \in Threads, pc'[j] \in {"send", "add"}
       PROVE  Len(wire') + Cardinality(Sent') <= num'[j] + races'
  <2>1. CASE j = t
    BY <1>1, <1>4, <1>6, <1>8, <1>10, <2>1 DEF IInv, SendType
  <2>2. CASE j # t
    <3>1. pc[j] = pc'[j] /\ num'[j] = num[j] /\ num[j] \in Nat
      BY <1>1, <2>2 DEF IInv, SendType
    <3>2. races' = races + 1
      BY <1>6, <1>11, <3>1 DEF Uncounted
    <3>3. Len(wire) + Cardinality(Sent) <= num[j] + races
      BY <1>11, <3>1 DEF IInv, Near
    <3> QED
      BY <1>1, <1>4, <1>6, <1>8, <3>1, <3>2, <3>3
  <2> QED
    BY <2>1, <2>2
<1>12. Near'
  BY <1>1, <1>4, <1>6, <1>8, <1>9, <1>10, <1>11 DEF Near
<1>13. NumbersInStep'
  <2>1. ASSUME NEW i \in DOMAIN wire PROVE wire[i] <= i /\ i <= wire[i] + races'
    <3>1. wire[i] <= i /\ i <= wire[i] + races /\ i \in Nat /\ wire[i] \in Nat
      BY DEF IInv, NumbersInStep, SendType
    <3> QED
      BY <1>6, <3>1
  <2> QED
    BY <1>1, <2>1 DEF NumbersInStep
<1> QED
  BY <1>2, <1>5, <1>12, <1>13 DEF IInv

LEMMA SendInv ==
  ASSUME IInv, NEW t \in Threads, Send(t)
  PROVE  IInv'
<1>0. /\ pc[t] = "send" /\ seq' = seq /\ num[t] \in Nat /\ wire \in Seq(Nat \ {0}) /\ Len(wire) \in Nat
      /\ Cardinality(Counting) \in Nat /\ IsFiniteSet(Counting) /\ races' = races /\ races \in Nat
      /\ seq \in Nat
  BY FS_CardinalityType DEF Send, IInv, SendType, Behind, sending
<1>00. /\ Cardinality(Sent) \in Nat /\ Cardinality(Sent') \in Nat /\ t \in Sent /\ t \in Uncounted
       /\ Cardinality(Sent \ {t}) = Cardinality(Sent) - 1
       /\ Len(wire) + Cardinality(Sent) <= seq + races
       /\ Len(wire) + Cardinality(Sent) <= num[t] + races
  <2>1. t \in Sent /\ t \in Uncounted
    BY <1>0 DEF Sent, Uncounted
  <2>2. Cardinality(Sent \ {t}) = Cardinality(Sent) - 1
    BY <2>1, SentIsFinite, FS_RemoveElement
  <2> QED
    BY <1>0, <2>1, <2>2, SentIsFinite, SentIsFiniteNext DEF IInv, Near
<1>1. CASE wire' = Append(wire, num[t]) /\ Goto(t, "count") /\ UNCHANGED sending
  <2>1. SendType'
    BY <1>0, <1>1 DEF IInv, SendType, Goto, Labels, sending
  <2>2. Counting' = Counting \cup {t} /\ t \notin Counting
    BY <1>0, <1>1 DEF Counting, Goto, IInv, SendType
  <2>3. IsFiniteSet(Counting') /\ Cardinality(Counting') = Cardinality(Counting) + 1
    BY <1>0, <2>2, FS_AddElement
  <2>4. Len(wire') = Len(wire) + 1
    BY <1>0, <1>1
  <2>5. ASSUME NEW j \in Threads
        PROVE  /\ pc'[j] = "add" => num'[j] + Cardinality(Counting') <= Len(wire') + 1
               /\ pc'[j] = "send" => num'[j] <= Len(wire') + 1
    <3>1. num[j] \in Nat /\ num' = num /\ (pc'[j] \in {"add", "send"} => pc'[j] = pc[j])
      BY <1>1 DEF IInv, SendType, Goto, sending
    <3>2. /\ pc[j] = "add" => num[j] + Cardinality(Counting) <= Len(wire) + 1
          /\ pc[j] = "send" => num[j] <= Len(wire) + 1
      BY DEF IInv, Behind
    <3>3. \A x, c, w \in Nat : x + c <= w + 1 => x + (c + 1) <= (w + 1) + 1
      OBVIOUS
    <3>4. \A x, w \in Nat : x <= w + 1 => x <= (w + 1) + 1
      OBVIOUS
    <3> QED
      BY <1>0, <2>3, <2>4, <3>1, <3>2, <3>3, <3>4
  <2>6. Behind'
    BY <1>0, <2>3, <2>4, <2>5 DEF IInv, Behind, SendType
  <2>8. Sent' = Sent \ {t} /\ Cardinality(Sent') = Cardinality(Sent) - 1
    <3>1. Sent' = Sent \ {t}
      BY <1>0, <1>1 DEF Sent, Goto, IInv, SendType
    <3> QED
      BY <1>00, <3>1
  <2>7. NumbersInStep'
    <3>1. ASSUME NEW i \in DOMAIN wire' PROVE wire'[i] <= i /\ i <= wire'[i] + races
      <4>1. i \in 1..(Len(wire) + 1)
        BY <1>0, <1>1
      <4>2. CASE i = Len(wire) + 1
        <5>1. wire'[i] = num[t] /\ num[t] <= Len(wire) + 1
          BY <1>0, <1>1, <4>2 DEF IInv, Behind
        <5>2. Cardinality(Sent) \in Nat /\ Cardinality(Sent) - 1 \in Nat
          BY <1>00, <2>8
        <5>3. Len(wire) + Cardinality(Sent) <= num[t] + races
          BY <1>00
        <5>4. \A w, c, x, y \in Nat : c - 1 \in Nat /\ w + c <= x + y => w + 1 <= x + y
          OBVIOUS
        <5>5. Len(wire) + 1 <= num[t] + races
          BY <1>0, <5>2, <5>3, <5>4
        <5> QED
          BY <1>0, <4>2, <5>1, <5>5
      <4>3. CASE i \in 1..Len(wire)
        <5>1. wire'[i] = wire[i] /\ i \in DOMAIN wire
          BY <1>0, <1>1, <4>3
        <5> QED
          BY <5>1 DEF IInv, NumbersInStep
      <4> QED
        BY <1>0, <4>1, <4>2, <4>3
    <3> QED
      BY <1>0, <3>1 DEF NumbersInStep
  <2>9. Near'
    <3>1. Len(wire') + Cardinality(Sent') = Len(wire) + Cardinality(Sent)
      BY <1>0, <1>00, <2>4, <2>8
    <3>2. Uncounted' # {}
      BY <1>0, <1>1 DEF Uncounted, Goto, IInv, SendType
    <3>3. ASSUME NEW j \in Threads, pc'[j] \in {"send", "add"}
          PROVE  Len(wire') + Cardinality(Sent') <= num'[j] + races'
      <4>1. num' = num /\ pc'[j] = pc[j]
        BY <1>1, <3>3 DEF IInv, SendType, Goto, sending
      <4> QED
        BY <1>0, <3>1, <3>3, <4>1 DEF IInv, Near
    <3> QED
      BY <1>0, <1>00, <3>1, <3>2, <3>3 DEF Near
  <2> QED
    BY <2>1, <2>6, <2>7, <2>9 DEF IInv
<1>2. CASE /\ Goto(t, SendRaised(t)) /\ UNCHANGED wire
           /\ num' = [num EXCEPT ![t] = 0] /\ back' = [back EXCEPT ![t] = "off"]
  <2>1. SendRaised(t) \in Labels \ Busy
    BY DEF SendRaised, Raised, Labels, Busy
  <2>2. SendType'
    BY <1>0, <1>2, <2>1 DEF IInv, SendType, Goto, Labels, Backs, Busy
  <2>3. Counting' = Counting
    BY <1>0, <1>2, <2>1 DEF Counting, Goto, IInv, SendType, Busy
  <2>4. Behind'
    BY <1>0, <1>2, <2>1, <2>3 DEF IInv, Behind, SendType, Goto, Busy
  <2>5. Sent' = Sent \ {t} /\ Cardinality(Sent') = Cardinality(Sent) - 1
    <3>1. Sent' = Sent \ {t}
      BY <1>0, <1>2, <2>1 DEF Sent, Goto, IInv, SendType, Busy
    <3> QED
      BY <1>00, <3>1
  <2>6. Len(wire') = Len(wire) /\ Len(wire) + 1 <= seq + races
    BY <1>0, <1>00, <1>2, <2>5
  <2>7. ASSUME NEW j \in Threads, pc'[j] \in {"send", "add"}
        PROVE  Len(wire') + Cardinality(Sent') <= num'[j] + races'
    <3>1. j # t /\ num'[j] = num[j] /\ pc'[j] = pc[j] /\ num[j] \in Nat
      BY <1>0, <1>2, <2>1, <2>7 DEF IInv, SendType, Goto, Busy
    <3>2. Len(wire) + Cardinality(Sent) <= num[j] + races
      BY <2>7, <3>1 DEF IInv, Near
    <3>3. \A w, c, x, y \in Nat : w + c <= x + y => w + (c - 1) <= x + y
      OBVIOUS
    <3>4. Len(wire) + (Cardinality(Sent) - 1) <= num[j] + races
      <4>1. races \in Nat /\ Len(wire) \in Nat
        BY <1>0
      <4>2. Cardinality(Sent) \in Nat
        BY <1>00
      <4> QED
        BY <3>1, <3>2, <3>3, <4>1, <4>2
    <3>5. wire' = wire /\ races' = races
      BY <1>0, <1>2
    <3> QED
      BY <2>5, <3>1, <3>4, <3>5
  <2>8. Near'
    <3>1. \A w, c, x, y \in Nat : w + c <= x + y => w + (c - 1) <= x + y
      OBVIOUS
    <3>2. races \in Nat /\ Len(wire) \in Nat /\ seq \in Nat /\ seq' = seq /\ races' = races
      BY <1>0
    <3>3. Cardinality(Sent) \in Nat /\ Len(wire) + Cardinality(Sent) <= seq + races
      BY <1>00
    <3>4. Len(wire) + (Cardinality(Sent) - 1) <= seq + races
      BY <3>1, <3>2, <3>3
    <3>5. /\ Len(wire') + Cardinality(Sent') <= seq' + races'
          /\ Len(wire') + 1 <= seq' + races'
      BY <2>5, <2>6, <3>2, <3>4
    <3> QED
      BY <2>7, <3>5 DEF Near
  <2>9. NumbersInStep'
    BY <1>0, <1>2 DEF IInv, NumbersInStep
  <2> QED
    BY <2>2, <2>4, <2>8, <2>9 DEF IInv
<1> QED
  BY <1>1, <1>2 DEF Send

LEMMA ReadCountInv ==
  ASSUME IInv, NEW t \in Threads, ReadCount(t)
  PROVE  IInv'
<1>1. /\ pc[t] = "count" /\ num' = [num EXCEPT ![t] = seq] /\ pc' = [pc EXCEPT ![t] = "add"]
      /\ seq' = seq /\ wire' = wire /\ back' = back
  BY DEF ReadCount, Goto
<1>2. SendType' /\ races' = races
  BY <1>1 DEF IInv, SendType, Labels, ReadCount
<1>3. Counting' = Counting
  BY <1>1 DEF Counting, IInv, SendType
<1>4. Behind'
  BY <1>1, <1>3 DEF IInv, Behind, SendType
<1>5. Sent' = Sent /\ Uncounted' # {}
  BY <1>1 DEF Sent, Uncounted, IInv, SendType
<1>6. Near'
  BY <1>1, <1>2, <1>5 DEF IInv, Near, SendType
<1> QED
  BY <1>1, <1>2, <1>4, <1>6 DEF IInv, NumbersInStep

LEMMA WriteCountInv ==
  ASSUME IInv, NEW t \in Threads, WriteCount(t)
  PROVE  IInv'
<1>1. /\ pc[t] = "add" /\ seq' = num[t] + 1 /\ wire' = wire
      /\ pc' = [pc EXCEPT ![t] = back[t]]
      /\ num' = [num EXCEPT ![t] = 0] /\ back' = [back EXCEPT ![t] = "off"]
  BY DEF WriteCount, Goto
<1>2. back[t] \in Backs /\ back[t] \notin Busy /\ num[t] \in Nat /\ Len(wire) \in Nat
  BY DEF IInv, SendType, Backs, Busy
<1>3. SendType' /\ races' = races
  BY <1>1, <1>2 DEF IInv, SendType, Labels, Backs, WriteCount
<1>4. Counting' = Counting \ {t} /\ t \in Counting /\ IsFiniteSet(Counting)
  BY <1>1, <1>2 DEF Counting, IInv, SendType, Behind, Busy
<1>5. IsFiniteSet(Counting') /\ Cardinality(Counting') = Cardinality(Counting) - 1
  BY <1>4, FS_RemoveElement
<1>6. Cardinality(Counting) \in Nat
  BY <1>4, FS_CardinalityType
<1>7. seq' + Cardinality(Counting') <= Len(wire') + 1
  <2>1. num[t] + Cardinality(Counting) <= Len(wire) + 1
    BY <1>1 DEF IInv, Behind
  <2>2. \A x, c, w \in Nat : x + c <= w + 1 => (x + 1) + (c - 1) <= w + 1
    OBVIOUS
  <2>3. (num[t] + 1) + (Cardinality(Counting) - 1) <= Len(wire) + 1
    BY <1>2, <1>6, <2>1, <2>2
  <2> QED
    BY <1>1, <1>5, <2>3
<1>8. ASSUME NEW j \in Threads
      PROVE  /\ pc'[j] = "add" => num'[j] + Cardinality(Counting') <= Len(wire') + 1
             /\ pc'[j] = "send" => num'[j] <= Len(wire') + 1
  <2>1. num[j] \in Nat /\ (pc'[j] \in Busy => j # t /\ pc'[j] = pc[j] /\ num'[j] = num[j])
    BY <1>1, <1>2 DEF IInv, SendType
  <2> QED
    BY <1>1, <1>2, <1>5, <1>6, <2>1 DEF IInv, Behind, Busy
<1>9. Behind'
  BY <1>5, <1>7, <1>8 DEF Behind
<1>10. Sent' = Sent
  BY <1>1, <1>2 DEF Sent, IInv, SendType, Busy
<1>11. Cardinality(Sent) \in Nat /\ races \in Nat /\ Len(wire) + Cardinality(Sent) <= num[t] + races
  BY <1>1, SentIsFinite DEF IInv, Near, SendType
<1>12. ASSUME NEW j \in Threads, pc'[j] \in {"send", "add"}
       PROVE  Len(wire') + Cardinality(Sent') <= num'[j] + races'
  <2>1. num'[j] = num[j] /\ pc'[j] = pc[j]
    BY <1>1, <1>2, <1>12 DEF IInv, SendType, Busy
  <2> QED
    BY <1>1, <1>3, <1>10, <1>12, <2>1 DEF IInv, Near
<1>13. \A w, c, x, y \in Nat : w + c <= x + y => w + c <= (x + 1) + y /\ w + 1 <= (x + 1) + y
  OBVIOUS
<1>14. /\ Len(wire) + Cardinality(Sent) <= (num[t] + 1) + races
       /\ Len(wire) + 1 <= (num[t] + 1) + races
  BY <1>2, <1>11, <1>13
<1>15. Near'
  BY <1>1, <1>3, <1>10, <1>12, <1>14 DEF Near
<1> QED
  BY <1>1, <1>3, <1>9, <1>15 DEF IInv, NumbersInStep

LEMMA InvStep == IInv /\ [Next]_vars => IInv'
<1> SUFFICES ASSUME IInv, [Next]_vars PROVE IInv'
  OBVIOUS
<1>1. ASSUME NEW t \in Threads, Sending(t) PROVE IInv'
  BY <1>1, BuildInv, SendInv, ReadCountInv, WriteCountInv DEF Sending
<1>2. ASSUME NEW t \in Threads, StartSend(t) \/ Connecting(t) PROVE IInv'
  BY <1>2, OthersApart, ApartInv DEF IInv
<1>3. ASSUME NEW r \in Receivers, Receiving(r) PROVE IInv'
  BY <1>3, ReceivingApart, ApartInv DEF IInv
<1>4. ASSUME NEW s \in Sockets, Emit(s) \/ Fails(s) PROVE IInv'
  <2>1. seq' = seq /\ wire' = wire /\ pc' = pc /\ num' = num /\ back' = back /\ races' = races
    BY <1>4 DEF Emit, Fails, sending
  <2> QED
    BY <2>1 DEF IInv, SendType, Behind, Counting, Near, Sent, Uncounted, NumbersInStep
<1>5. CASE UNCHANGED vars
  <2>1. seq' = seq /\ wire' = wire /\ pc' = pc /\ num' = num /\ back' = back /\ races' = races
    BY <1>5 DEF vars, sending
  <2> QED
    BY <2>1 DEF IInv, SendType, Behind, Counting, Near, Sent, Uncounted, NumbersInStep
<1> QED
  BY <1>1, <1>2, <1>3, <1>4, <1>5 DEF Next

\* The i-th message carries the number i, but for at most one place for each
\* message that was built while another thread had one it had not counted yet,
\* and never a number beyond i: for all threads, sockets and failures, and
\* whichever increments are lost (send_message).
THEOREM NumbersKeepStep == Spec => []NumbersInStep
<1>1. IInv => NumbersInStep
  BY DEF IInv
<1> QED
  BY <1>1, InitInv, InvStep, PTL DEF Spec

-----------------------------------------------------------------------------
(***************************************************************************)
(* Types.  A thread cannot receive before a socket has been made, and      *)
(* threads that send are typed by SendType.                                *)
(***************************************************************************)
LinkType ==
  /\ sock = made /\ made \in 0..MaxConnects /\ emitted \in 0..Messages
  /\ link \in [Sockets -> {"off", "new", "up", "eof", "dead"}]
  /\ inbound \in [Sockets -> Seq(Pieces)]
  /\ \A s \in Sockets : s > made => link[s] = "off" /\ inbound[s] = <<>>
  /\ made = 0 => \A t \in Threads : pc[t] = IF t = App THEN "dial" ELSE "off"

ParseType ==
  /\ buffer \in Seq(Pieces) /\ queue \in Seq(SUBSET (1..Messages))
  /\ at \in [Receivers -> 0..made]
  /\ text \in [Receivers -> Seq(Pieces)] /\ local \in [Receivers -> Seq(Pieces)]
  /\ span \in [Receivers -> Nat \X Nat]
  /\ \A r \in Receivers :
       /\ pc[r] = "wait" => at[r] # 0
       /\ pc[r] = "cut" => span[r][1] # 0

BoundType ==
  sends \in 0..MaxSends /\ faults \in 0..MaxFaults /\ tears \in 0..MaxTears

TypeInv == SendType /\ LinkType /\ ParseType /\ BoundType

LEMMA Constants ==
  /\ App \in Threads /\ App \notin Receivers /\ Receivers \subseteq Threads
  /\ Messages \in Nat /\ Reports \subseteq 1..Messages /\ MaxConnects \in Nat
  /\ MaxSends \in Nat /\ MaxFaults \in Nat /\ MaxTears \in Nat
  BY ConstantsAssumption DEF ConstantsAssumption, Threads

LEMMA TypeInvIsType == TypeInv => TypeOK
<1> SUFFICES ASSUME TypeInv PROVE TypeOK
  OBVIOUS
<1>1. sock \in 0..made
  BY DEF TypeInv, LinkType
<1> QED
  BY <1>1 DEF TypeInv, SendType, LinkType, ParseType, BoundType, TypeOK, Backs

LEMMA InitType == Init => TypeInv
<1> SUFFICES ASSUME Init PROVE TypeInv
  OBVIOUS
<1>1. SendType
  BY InitInv DEF IInv
<1>2. LinkType
  BY Constants DEF Init, LinkType, Sockets
<1>3. ParseType
  BY Constants DEF Init, ParseType, NoSpan
<1>4. BoundType
  BY Constants DEF Init, BoundType
<1> QED
  BY <1>1, <1>2, <1>3, <1>4 DEF TypeInv

\* A thread that takes a step has been started.
LEMMA ASocketIsMade ==
  ASSUME LinkType, NEW t \in Threads, pc[t] \notin {"off", "dial"}
  PROVE  made \in Sockets /\ sock \in Sockets /\ made # 0
  BY DEF LinkType, Sockets

LEMMA LinkTypeConnecting ==
  ASSUME TypeInv, SendType', NEW t \in Threads, Connecting(t)
  PROVE  LinkType' /\ ParseType' /\ BoundType'
<1> USE DEF TypeInv, Goto
<1>1. CASE MakeSocket(t)
  <2>1. made' = made + 1 /\ made' \in Sockets /\ sock' = made'
    BY <1>1, Constants DEF MakeSocket, LinkType, Sockets
  <2>2. LinkType'
    BY <1>1, <2>1, Constants DEF MakeSocket, LinkType, Sockets
  <2>3. ParseType'
    <3>1. at' = at /\ text' = text /\ local' = local /\ span' = span
          /\ buffer' = buffer /\ queue' = queue
      BY <1>1 DEF MakeSocket, parsing
    <3>2. at' \in [Receivers -> 0..made']
      BY <2>1, <3>1 DEF LinkType, ParseType
    <3>3. \A r \in Receivers : pc'[r] \in {"wait", "cut"} => pc'[r] = pc[r]
      BY <1>1, Constants DEF MakeSocket, SendType
    <3> QED
      BY <3>1, <3>2, <3>3 DEF ParseType
  <2> QED
    BY <1>1, <2>2, <2>3 DEF MakeSocket, BoundType, bounds
<1>2. CASE ConnectSocket(t)
  <2>1. made # 0 /\ made' = made /\ sock \in Sockets
    BY <1>2, ASocketIsMade DEF ConnectSocket
  <2>2. LinkType'
    BY <1>2, <2>1, Constants DEF ConnectSocket, LinkType
  <2>3. ParseType'
    BY <1>2, <2>1, Constants DEF ConnectSocket, LinkType, ParseType, parsing, SendType, Raised
  <2>4. BoundType'
    BY <1>2, Constants DEF ConnectSocket, BoundType, bounds, Fault
  <2> QED
    BY <2>2, <2>3, <2>4
<1>3. CASE Spawn(t)
  <2>1. made # 0 /\ made' = made
    BY <1>3, ASocketIsMade DEF Spawn, net
  <2>2. PICK r \in Receivers, m \in Monitors :
          /\ pc[r] = "off" /\ pc[m] = "off"
          /\ pc' = [pc EXCEPT ![t] = IF t = App THEN "idle" ELSE "recv", ![r] = "recv", ![m] = "beat"]
    BY <1>3 DEF Spawn
  <2>3. LinkType'
    BY <1>3, <2>1 DEF Spawn, LinkType, net
  <2>4. ParseType'
    BY <1>3, <2>1, <2>2, Constants DEF Spawn, ParseType, net, parsing, SendType
  <2>5. BoundType'
    BY <1>3 DEF Spawn, BoundType, bounds
  <2> QED
    BY <2>3, <2>4, <2>5
<1> QED
  BY <1>1, <1>2, <1>3 DEF Connecting

LEMMA LinkTypeSending ==
  ASSUME TypeInv, SendType', NEW t \in Threads, StartSend(t) \/ Sending(t)
  PROVE  LinkType' /\ ParseType' /\ BoundType'
<1>1. /\ UNCHANGED <<sock, net, buffer, queue, parsing, faults, tears>>
      /\ sends' \in {sends, sends + 1} /\ (sends' # sends => sends < MaxSends)
      /\ pc[t] \notin {"off", "dial"}
  BY DEF StartSend, Sending, Build, Send, ReadCount, WriteCount, bounds, TypeInv, BoundType
<1>2. made # 0
  BY <1>1, ASocketIsMade DEF TypeInv
<1>3. \A r \in Receivers : pc'[r] # pc[r] => pc'[r] \notin {"wait", "cut"}
  BY Constants DEF StartSend, Sending, Build, Send, ReadCount, WriteCount, Goto, TypeInv,
     SendType, Backs, SendRaised, Raised
<1>4. LinkType'
  BY <1>1, <1>2 DEF TypeInv, LinkType, net
<1>5. ParseType'
  BY <1>1, <1>3 DEF TypeInv, ParseType, net, parsing
<1>6. BoundType'
  BY <1>1, Constants DEF TypeInv, BoundType
<1> QED
  BY <1>4, <1>5, <1>6

\* Pieces of a sequence of pieces.
LEMMA Cuts ==
  ASSUME NEW s \in Seq(Pieces), NEW i \in Nat \ {0}, NEW j \in Nat, j <= Len(s)
  PROVE  /\ SubSeq(s, i, j) \in Seq(Pieces)
         /\ Len(SubSeq(s, i, j)) = IF i <= j THEN j - i + 1 ELSE 0
         /\ \A k \in 1..Len(SubSeq(s, i, j)) : SubSeq(s, i, j)[k] = s[i + k - 1]
<1>1. CASE i <= j
  BY <1>1
<1>2. CASE ~(i <= j)
  BY <1>2
<1> QED
  BY <1>1, <1>2

LEMMA LeastExists ==
  ASSUME NEW S, S \subseteq Nat, S # {}
  PROVE  \E x \in S : \A y \in S : x <= y
<1> DEFINE R == OpToRel(<, Nat)
<1>1. IsWellFoundedOn(R, Nat)
  BY NatLessThanWellFounded
<1>2. \A x, y \in Nat : <<x, y>> \in R <=> x < y
  BY DEF OpToRel
<1> HIDE DEF R
<1>3. PICK x \in S : \A y \in S : ~ (<<y, x>> \in R)
  BY <1>1, WFMin, Zenon
<1>4. x \in Nat /\ \A y \in S : y \in Nat /\ ~ (y < x)
  BY <1>2, <1>3
<1> QED
  BY <1>4

LEMMA MinIsLeast ==
  ASSUME NEW S, S \subseteq Nat, S # {}
  PROVE  Min(S) \in S /\ Min(S) \in Nat /\ \A y \in S : Min(S) <= y
  BY LeastExists DEF Min

\* What a search of the buffer finds.
LEMMA Found ==
  ASSUME buffer \in Seq(Pieces), Tags(buffer) # {}
  PROVE  LET first == Min(Tags(buffer)) IN
         /\ first \in Tags(buffer) /\ first \in 1..Len(buffer)
         /\ \A i \in Tags(buffer) : first <= i
         /\ Ends(buffer, first) # {} =>
              /\ Min(Ends(buffer, first)) \in Ends(buffer, first)
              /\ Min(Ends(buffer, first)) \in 1..Len(buffer)
              /\ \A j \in Ends(buffer, first) : Min(Ends(buffer, first)) <= j
<1> DEFINE first == Min(Tags(buffer))
<1>1. Tags(buffer) \subseteq 1..Len(buffer) /\ Len(buffer) \in Nat
  BY DEF Tags
<1>2. first \in Tags(buffer) /\ \A i \in Tags(buffer) : first <= i
  BY <1>1, MinIsLeast
<1> HIDE DEF first
<1>3. Ends(buffer, first) \subseteq 1..Len(buffer)
  BY <1>1, <1>2 DEF Ends
<1>4. Ends(buffer, first) # {} =>
        /\ Min(Ends(buffer, first)) \in Ends(buffer, first)
        /\ \A j \in Ends(buffer, first) : Min(Ends(buffer, first)) <= j
  BY <1>1, <1>3, MinIsLeast
<1> QED
  BY <1>1, <1>2, <1>3, <1>4 DEF first

LEMMA LinkTypeReceiving ==
  ASSUME TypeInv, SendType', NEW r \in Receivers, Receiving(r)
  PROVE  LinkType' /\ ParseType' /\ BoundType'
<1>1. r \in Threads /\ made # 0 /\ made \in Sockets /\ sock \in Sockets /\ sock = made
      /\ made' = made /\ sock' = sock /\ emitted' = emitted
  <2>1. pc[r] \notin {"off", "dial"} /\ made' = made /\ sock' = sock /\ emitted' = emitted
    BY DEF Receiving, CloseSocket, Recv, Received, ReceivedNothing, ReadBuffer, WriteBuffer,
       Find, Cut, DropCut, Handle, net
  <2> QED
    BY <2>1, Constants, ASocketIsMade DEF TypeInv, LinkType
<1> USE <1>1 DEF TypeInv, Goto
<1>2. CASE CloseSocket(r)
  <2>1. LinkType'
    BY <1>2 DEF CloseSocket, LinkType
  <2>2. ParseType'
    BY <1>2, Constants DEF CloseSocket, ParseType, parsing, SendType
  <2> QED
    BY <1>2, <2>1, <2>2 DEF CloseSocket, BoundType, bounds
<1>3. CASE Recv(r)
  <2>1. LinkType'
    BY <1>3 DEF Recv, LinkType, net
  <2>2. at' \in [Receivers -> 0..made']
    BY <1>3 DEF Recv, ParseType, LinkType
  <2>3. ParseType'
    BY <1>3, <2>2, Constants DEF Recv, ParseType, SendType
  <2> QED
    BY <1>3, <2>1, <2>3 DEF Recv, BoundType, bounds
<1>4. CASE Received(r)
  <2>1. at[r] \in Sockets /\ inbound[at[r]] \in Seq(Pieces) /\ Len(inbound[at[r]]) \in Nat
    <3>1. at[r] \in 0..made /\ at[r] # 0 /\ made \in 0..MaxConnects
      BY <1>4 DEF Received, ParseType, LinkType
    <3>2. at[r] \in Sockets
      BY <3>1, Constants DEF Sockets
    <3>3. inbound[at[r]] \in Seq(Pieces)
      BY <3>2 DEF LinkType
    <3> QED
      BY <3>2, <3>3
  <2>2. PICK n \in 1..Len(inbound[at[r]]) :
          /\ IF inbound[at[r]][n].part = "tag" THEN tears < MaxTears /\ tears' = tears + 1
                                               ELSE UNCHANGED tears
          /\ text' = [text EXCEPT ![r] = SubSeq(inbound[at[r]], 1, n)]
          /\ inbound' = [inbound EXCEPT ![at[r]] = SubSeq(@, n + 1, Len(@))]
    BY <1>4 DEF Received
  <2>3. /\ SubSeq(inbound[at[r]], 1, n) \in Seq(Pieces)
        /\ SubSeq(inbound[at[r]], n + 1, Len(inbound[at[r]])) \in Seq(Pieces)
    BY <2>1, Cuts
  <2>4. LinkType'
    BY <1>4, <2>1, <2>2, <2>3 DEF Received, LinkType
  <2>5. ParseType'
    BY <1>4, <2>2, <2>3, Constants DEF Received, ParseType, SendType
  <2>6. BoundType'
    BY <1>4, <2>2, Constants DEF Received, BoundType
  <2> QED
    BY <2>4, <2>5, <2>6
<1>5. CASE ReceivedNothing(r)
  <2>1. LinkType'
    BY <1>5 DEF ReceivedNothing, LinkType, net
  <2>2. at' \in [Receivers -> 0..made']
    BY <1>5 DEF ReceivedNothing, ParseType, LinkType
  <2>3. ParseType'
    BY <1>5, <2>2, Constants DEF ReceivedNothing, ParseType, SendType
  <2> QED
    BY <1>5, <2>1, <2>3 DEF ReceivedNothing, BoundType, bounds
<1>6. CASE ReadBuffer(r) \/ WriteBuffer(r)
  <2>1. LinkType'
    BY <1>6 DEF ReadBuffer, WriteBuffer, LinkType, net
  <2>2. local[r] \in Seq(Pieces) /\ text[r] \in Seq(Pieces)
    BY DEF ParseType
  <2>3. local[r] \o text[r] \in Seq(Pieces)
    BY <2>2
  <2>4. CASE ReadBuffer(r)
    <3>1. ParseType'
      BY <2>4, Constants DEF ReadBuffer, ParseType, SendType
    <3> QED
      BY <2>1, <2>4, <3>1 DEF ReadBuffer, BoundType, bounds
  <2>5. CASE WriteBuffer(r)
    <3>1. /\ buffer' \in Seq(Pieces) /\ UNCHANGED <<queue, at, span>>
          /\ text' \in [Receivers -> Seq(Pieces)] /\ local' \in [Receivers -> Seq(Pieces)]
      BY <2>3, <2>5 DEF WriteBuffer, ParseType
    <3>2. \A q \in Receivers : pc'[q] \in {"wait", "cut"} => pc'[q] = pc[q]
      BY <2>5, Constants DEF WriteBuffer, SendType
    <3>3. ParseType'
      BY <3>1, <3>2 DEF ParseType
    <3> QED
      BY <2>1, <2>5, <3>3 DEF WriteBuffer, BoundType, bounds
  <2> QED
    BY <1>6, <2>4, <2>5
<1>7. CASE Find(r)
  <2>1. LinkType'
    BY <1>7 DEF Find, LinkType, net
  <2>2. /\ span' \in [Receivers -> Nat \X Nat] /\ buffer' \in Seq(Pieces)
        /\ \A q \in Receivers : pc'[q] = "cut" => span'[q][1] # 0
    <3>1. CASE Tags(buffer) = {}
      BY <1>7, <3>1, Constants DEF Find, ParseType, SendType
    <3>2. CASE Tags(buffer) # {}
      <4> DEFINE first == Min(Tags(buffer))
      <4>1. first \in 1..Len(buffer)
        BY <3>2, Found DEF ParseType
      <4>2. CASE Ends(buffer, first) = {}
        BY <1>7, <3>2, <4>2, Constants DEF Find, ParseType, SendType
      <4>3. CASE Ends(buffer, first) # {}
        <5>1. Min(Ends(buffer, first)) \in 1..Len(buffer)
          BY <3>2, <4>3, Found DEF ParseType
        <5>2. /\ span' = [span EXCEPT ![r] = <<first, Min(Ends(buffer, first))>>]
              /\ buffer' = buffer /\ pc' = [pc EXCEPT ![r] = "cut"]
          BY <1>7, <3>2, <4>3 DEF Find
        <5> HIDE DEF first
        <5>3. <<first, Min(Ends(buffer, first))>> \in Nat \X Nat /\ first # 0
          BY <4>1, <5>1 DEF ParseType
        <5> QED
          BY <5>2, <5>3, Constants DEF ParseType, SendType
      <4> QED
        BY <4>2, <4>3
    <3> QED
      BY <3>1, <3>2
  <2>3. ParseType'
    BY <1>7, <2>2, Constants DEF Find, ParseType, SendType
  <2> QED
    BY <1>7, <2>1, <2>3 DEF Find, BoundType, bounds
<1>8. CASE Cut(r)
  <2>1. LinkType'
    BY <1>8 DEF Cut, LinkType, net
  <2>2. /\ span[r][1] \in Nat \ {0} /\ span[r][2] \in Nat
        /\ buffer \in Seq(Pieces) /\ Len(buffer) \in Nat
    BY <1>8 DEF Cut, ParseType
  <2>3. Clip(span[r][2], buffer) \in Nat /\ Clip(span[r][2], buffer) <= Len(buffer)
    BY <2>2 DEF Clip
  <2>4. SubSeq(buffer, span[r][1], Clip(span[r][2], buffer)) \in Seq(Pieces)
    BY <2>2, <2>3, Cuts
  <2>5. ParseType'
    BY <1>8, <2>4, Constants DEF Cut, ParseType, SendType
  <2> QED
    BY <1>8, <2>1, <2>5 DEF Cut, BoundType, bounds
<1>9. CASE DropCut(r)
  <2>1. LinkType'
    BY <1>9 DEF DropCut, LinkType, net
  <2>2. SubSeq(buffer, span[r][2] + 1, Len(buffer)) \in Seq(Pieces)
    BY Cuts DEF ParseType
  <2>3. ParseType'
    BY <1>9, <2>2, Constants DEF DropCut, ParseType, SendType, NoSpan
  <2> QED
    BY <1>9, <2>1, <2>3 DEF DropCut, BoundType, bounds
<1>10. CASE Handle(r)
  <2>1. LinkType'
    BY <1>10 DEF Handle, LinkType, net
  <2>2. queue' \in Seq(SUBSET (1..Messages))
    <3>1. Bodies(text[r]) \subseteq 1..Messages
      <4>1. \A i \in DOMAIN text[r] : text[r][i].msg \in 1..Messages
        <5>1. text[r] \in Seq(Pieces)
          BY DEF ParseType
        <5>2. \A i \in DOMAIN text[r] : text[r][i] \in Pieces
          BY <5>1
        <5> QED
          BY <5>2 DEF Pieces
      <4> QED
        BY <4>1 DEF Bodies
    <3>2. queue' = queue \/ queue' = Append(queue, Bodies(text[r]))
      BY <1>10 DEF Handle
    <3>3. queue \in Seq(SUBSET (1..Messages))
      BY DEF ParseType
    <3> QED
      BY <3>1, <3>2, <3>3
  <2>3. \A q \in Receivers : pc'[q] \in {"wait", "cut"} => pc'[q] = pc[q]
    BY <1>10, Constants DEF Handle, SendType
  <2>4. /\ text' \in [Receivers -> Seq(Pieces)]
        /\ UNCHANGED <<buffer, at, local, span>>
    BY <1>10 DEF Handle, ParseType
  <2>5. ParseType'
    BY <2>2, <2>3, <2>4 DEF ParseType
  <2> QED
    BY <1>10, <2>1, <2>5 DEF Handle, BoundType, bounds
<1> QED
  BY <1>2, <1>3, <1>4, <1>5, <1>6, <1>7, <1>8, <1>9, <1>10 DEF Receiving

LEMMA LinkTypeNet ==
  ASSUME TypeInv, NEW s \in Sockets, Emit(s) \/ Fails(s)
  PROVE  LinkType' /\ ParseType' /\ BoundType'
<1> USE DEF TypeInv
<1>1. CASE Emit(s)
  <2>1. emitted' \in 1..Messages /\ s <= made
    BY <1>1, Constants DEF Emit, LinkType, Sockets
  <2>2. Whole(emitted') \in Seq(Pieces)
    BY <2>1 DEF Whole, Piece, Pieces
  <2>3. LinkType'
    BY <1>1, <2>1, <2>2 DEF Emit, LinkType
  <2> QED
    BY <1>1, <2>3 DEF Emit, ParseType, BoundType, parsing, bounds
<1>2. CASE Fails(s)
  <2>1. s <= made
    BY <1>2, Constants DEF Fails, LinkType, Sockets
  <2>2. LinkType'
    BY <1>2, <2>1 DEF Fails, LinkType
  <2> QED
    BY <1>2, <2>2, Constants DEF Fails, ParseType, BoundType, parsing, Fault
<1> QED
  BY <1>1, <1>2

LEMMA TypeStep == TypeInv /\ SendType' /\ [Next]_vars => TypeInv'
<1> SUFFICES ASSUME TypeInv, SendType', [Next]_vars PROVE TypeInv'
  OBVIOUS
<1>1. CASE UNCHANGED vars
  BY <1>1 DEF TypeInv, LinkType, ParseType, BoundType, vars, net, parsing, bounds
<1> QED
  BY <1>1, LinkTypeConnecting, LinkTypeSending, LinkTypeReceiving, LinkTypeNet
     DEF Next, TypeInv

\* Every variable keeps its type, and no thread uses a socket, a number or the
\* place of a message before it has one.
THEOREM TypeCorrect == Spec => []TypeOK
<1>1. IInv /\ TypeInv /\ [Next]_vars => (IInv /\ TypeInv)'
  BY InvStep, TypeStep DEF IInv
<1> QED
  BY <1>1, InitInv, InitType, TypeInvIsType, PTL DEF Spec

-----------------------------------------------------------------------------
(***************************************************************************)
(* While there is one socket, what the exchange has sent is cut into       *)
(* consecutive parts: messages handled or lost, the message in hand, the   *)
(* buffer, what the thread has received, what is on its way.  The buffer   *)
(* may begin with the rest of the last message that was lost.              *)
(***************************************************************************)
Calm == made <= 1

\* The k-th piece of the stream, and a part of the stream from a + 1 on.
Nth(k) == Piece((k + 2) \div 3, CASE k % 3 = 1 -> "tag" [] k % 3 = 2 -> "body" [] OTHER -> "end")
Part(s, a) == \A i \in 1..Len(s) : s[i] = Nth(a + i)

\* One thread receives: the application connects once, and a thread that
\* connects again makes a second socket.
Sends == {"build", "send", "count", "add"}
Starting == pc[App] \in {"dial", "connect", "spawn"} \/ back[App] = "spawn"
Alone ==
  /\ \A t \in Threads \ {App} : pc[t] \notin {"connect", "spawn"} /\ back[t] # "spawn"
  /\ back[App] = "spawn" => pc[App] \in Sends
  /\ \A r \in Receivers :
       /\ pc[r] \notin {"idle", "beat"}
       /\ pc[r] \in Sends => back[r] = "find"
       /\ pc[r] # "off" => ~Starting
       /\ pc[r] = "wait" => at[r] = sock
  /\ \A q, r \in Receivers : pc[q] # "off" /\ pc[r] # "off" => q = r

\* Nobody has received anything yet.
Unread ==
  /\ buffer = <<>> /\ queue = <<>>
  /\ made = 0 \/ pc[App] = "connect" =>
       /\ emitted = 0
       /\ \A s \in Sockets : inbound[s] = <<>> /\ link[s] # "up"
  /\ \A s \in Sockets : link[s] = "up" =>
       Part(inbound[s], 0) /\ Len(inbound[s]) = 3 * emitted

\* Where in the stream the pieces that are still to come begin, if the buffer
\* begins after the first a pieces; and whether they follow a tag that is torn
\* off a message not lost yet.
Ahead(r, a) == a + Len(buffer) + (IF pc[r] \in {"load", "store"} THEN Len(text[r]) ELSE 0)
Torn(p, n) == IF p % 3 = 1 /\ p > 3 * n THEN 1 ELSE 0

\* Thread r is done with n messages, and all that are not lost are handled.
Progress(r, n, a, lost) ==
  /\ Cardinality(lost) + Torn(Ahead(r, a), n) <= tears
  /\ InOrder(queue, (Reports \cap 1..n) \ lost)
  /\ IF pc[r] = "handle" THEN a = 3 * n + 3 ELSE a <= 3 * n /\ 3 * n <= a + 2
  /\ Part(buffer, a)
  /\ pc[r] \in {"recv", "wait", "load", "store"} => Len(buffer) = 0 \/ a + Len(buffer) = 3 * n + 2
  /\ pc[r] \in {"load", "store"} => Part(text[r], a + Len(buffer))
  /\ pc[r] = "store" => local[r] = buffer
  /\ pc[r] \in {"cut", "drop"} =>
       span[r] = <<3 * n + 1 - a, 3 * n + 3 - a>> /\ 3 * n + 3 <= a + Len(buffer)
  /\ pc[r] \in {"drop", "handle"} => text[r] = Whole(n + 1)
  /\ Ahead(r, a) <= 3 * emitted
  /\ \A s \in Sockets : link[s] = "up" =>
       Part(inbound[s], Ahead(r, a)) /\ Ahead(r, a) + Len(inbound[s]) = 3 * emitted
Reading(r, n) == \E a \in Nat : \E lost \in SUBSET (1..n) : Progress(r, n, a, lost)

Stream ==
  /\ Alone
  /\ (\A r \in Receivers : pc[r] = "off") => Unread
  /\ \A r \in Receivers : pc[r] # "off" => \E n \in 0..emitted : Reading(r, n)

StreamInv == Calm => Stream

-----------------------------------------------------------------------------
\* Parts of the stream.

LEMMA NthPieces ==
  ASSUME NEW n \in Nat
  PROVE  /\ Nth(3 * n + 1) = Piece(n + 1, "tag")
         /\ Nth(3 * n + 2) = Piece(n + 1, "body")
         /\ Nth(3 * n + 3) = Piece(n + 1, "end")
<1>1. /\ (3 * n + 1 + 2) \div 3 = n + 1 /\ (3 * n + 1) % 3 = 1
      /\ (3 * n + 2 + 2) \div 3 = n + 1 /\ (3 * n + 2) % 3 = 2
      /\ (3 * n + 3 + 2) \div 3 = n + 1 /\ (3 * n + 3) % 3 = 0
  OBVIOUS
<1> QED
  BY <1>1 DEF Nth

LEMMA NthIsTag ==
  ASSUME NEW k \in Nat
  PROVE  Nth(k).part = "tag" <=> k % 3 = 1
  BY DEF Nth, Piece

LEMMA PartCut ==
  ASSUME NEW s \in Seq(Pieces), NEW a \in Nat, Part(s, a),
         NEW i \in Nat \ {0}, NEW j \in Nat, j <= Len(s)
  PROVE  Part(SubSeq(s, i, j), a + i - 1)
<1> DEFINE t == SubSeq(s, i, j)
<1>1. /\ Len(t) = IF i <= j THEN j - i + 1 ELSE 0
      /\ \A k \in 1..Len(t) : t[k] = s[i + k - 1]
  BY Cuts
<1> HIDE DEF t
<1> SUFFICES ASSUME NEW k \in 1..Len(t)
             PROVE  t[k] = Nth(a + i - 1 + k)
  BY DEF Part, t
<1>2. i + k - 1 \in 1..Len(s)
  BY <1>1
<1>3. s[i + k - 1] = Nth(a + (i + k - 1))
  BY <1>2 DEF Part
<1>4. a + (i + k - 1) = a + i - 1 + k
  BY <1>1
<1> QED
  BY <1>1, <1>3, <1>4

LEMMA PartJoin ==
  ASSUME NEW s \in Seq(Pieces), NEW t \in Seq(Pieces), NEW a \in Nat,
         Part(s, a), Part(t, a + Len(s))
  PROVE  Part(s \o t, a)
<1>1. Len(s) \in Nat /\ Len(t) \in Nat /\ Len(s \o t) = Len(s) + Len(t)
  OBVIOUS
<1> SUFFICES ASSUME NEW k \in 1..(Len(s) + Len(t))
             PROVE  (s \o t)[k] = Nth(a + k)
  BY <1>1 DEF Part
<1>2. CASE k <= Len(s)
  <2>1. k \in 1..Len(s) /\ (s \o t)[k] = s[k]
    BY <1>1, <1>2
  <2> QED
    BY <2>1 DEF Part
<1>3. CASE k > Len(s)
  <2>1. k - Len(s) \in 1..Len(t) /\ (s \o t)[k] = t[k - Len(s)]
    BY <1>1, <1>3
  <2>2. t[k - Len(s)] = Nth(a + Len(s) + (k - Len(s)))
    BY <2>1 DEF Part
  <2>3. a + Len(s) + (k - Len(s)) = a + k
    BY <1>1
  <2> QED
    BY <2>1, <2>2, <2>3
<1> QED
  BY <1>1, <1>2, <1>3

LEMMA PartIsWhole ==
  ASSUME NEW n \in Nat
  PROVE  /\ Part(Whole(n + 1), 3 * n) /\ Len(Whole(n + 1)) = 3
         /\ \A s \in Seq(Pieces) : Len(s) = 3 /\ Part(s, 3 * n) => s = Whole(n + 1)
         /\ Bodies(Whole(n + 1)) = {n + 1}
<1>1. /\ Len(Whole(n + 1)) = 3 /\ Whole(n + 1)[1] = Nth(3 * n + 1)
      /\ Whole(n + 1)[2] = Nth(3 * n + 2) /\ Whole(n + 1)[3] = Nth(3 * n + 3)
  BY NthPieces DEF Whole
<1>2. Part(Whole(n + 1), 3 * n)
  BY <1>1 DEF Part
<1>3. ASSUME NEW s \in Seq(Pieces), Len(s) = 3, Part(s, 3 * n)
      PROVE  s = Whole(n + 1)
  <2>1. s[1] = Nth(3 * n + 1) /\ s[2] = Nth(3 * n + 2) /\ s[3] = Nth(3 * n + 3)
    BY <1>3 DEF Part
  <2>2. s = <<s[1], s[2], s[3]>>
    BY <1>3
  <2> QED
    BY <2>1, <2>2, NthPieces DEF Whole
<1>4. Bodies(Whole(n + 1)) = {n + 1}
  <2> DEFINE w == Whole(n + 1)
  <2>1. /\ DOMAIN w = 1..3 /\ w[2].msg = n + 1
        /\ w[1].part = "tag" /\ w[2].part = "body" /\ w[3].part = "end"
    BY DEF Whole, Piece
  <2> HIDE DEF w
  <2>2. \A j \in DOMAIN w : w[j].part = "body" <=> j = 2
    BY <2>1
  <2>3. {j \in DOMAIN w : w[j].part = "body"} = {2}
    BY <2>1, <2>2
  <2> QED
    BY <2>1, <2>3 DEF Bodies, w
<1> QED
  BY <1>1, <1>2, <1>3, <1>4

\* One more report at the end of the queue.
LEMMA InOrderGrows ==
  ASSUME NEW n \in Nat, NEW q \in Seq(SUBSET (1..Messages)), NEW lost \in SUBSET (1..n),
         InOrder(q, (Reports \cap 1..n) \ lost)
  PROVE  IF n + 1 \in Reports
         THEN InOrder(Append(q, {n + 1}), (Reports \cap 1..(n + 1)) \ lost)
         ELSE InOrder(q, (Reports \cap 1..(n + 1)) \ lost)
<1>1. CASE n + 1 \notin Reports
  <2>1. (Reports \cap 1..(n + 1)) \ lost = (Reports \cap 1..n) \ lost
    BY <1>1, Constants
  <2> QED
    BY <1>1, <2>1
<1>2. CASE n + 1 \in Reports
  <2> DEFINE S == (Reports \cap 1..n) \ lost
             p == Append(q, {n + 1})
  <2>1. (Reports \cap 1..(n + 1)) \ lost = S \cup {n + 1}
    <3>1. n + 1 \notin lost
      OBVIOUS
    <3> QED
      BY <1>2, <3>1, Constants
  <2>2. /\ Len(q) \in Nat /\ DOMAIN q = 1..Len(q) /\ DOMAIN p = 1..(Len(q) + 1)
        /\ \A i \in 1..Len(q) : p[i] = q[i]
        /\ p[Len(q) + 1] = {n + 1}
    OBVIOUS
  <2>3. \A i \in DOMAIN q : \E m \in S : q[i] = {m}
    BY DEF InOrder
  <2>4. \A m \in S : \E i \in DOMAIN q : q[i] = {m}
    BY DEF InOrder
  <2>5. \A m \in S : m \in Nat /\ m <= n
    BY Constants
  <2> HIDE DEF S, p
  <2>6. {p[i] : i \in DOMAIN p} = {{m} : m \in S \cup {n + 1}}
    <3>1. ASSUME NEW i \in DOMAIN p PROVE \E m \in S \cup {n + 1} : p[i] = {m}
      <4>1. CASE i \in DOMAIN q
        BY <2>2, <2>3, <4>1
      <4>2. CASE i = Len(q) + 1
        BY <2>2, <4>2
      <4>3. i \in DOMAIN q \/ i = Len(q) + 1
        BY <2>2
      <4> QED
        BY <4>1, <4>2, <4>3
    <3>2. ASSUME NEW m \in S \cup {n + 1} PROVE \E i \in DOMAIN p : p[i] = {m}
      <4>1. CASE m \in S
        <5>1. PICK i \in DOMAIN q : q[i] = {m}
          BY <2>4, <4>1
        <5>2. i \in DOMAIN p /\ p[i] = q[i]
          BY <2>2
        <5> QED
          BY <5>1, <5>2
      <4>2. CASE m = n + 1
        <5>1. Len(q) + 1 \in DOMAIN p
          BY <2>2
        <5> QED
          BY <2>2, <4>2, <5>1
      <4> QED
        BY <4>1, <4>2
    <3>3. {p[i] : i \in DOMAIN p} \subseteq {{m} : m \in S \cup {n + 1}}
      BY <3>1
    <3>4. {{m} : m \in S \cup {n + 1}} \subseteq {p[i] : i \in DOMAIN p}
      BY <3>2
    <3> QED
      BY <3>3, <3>4
  <2>7. ASSUME NEW i \in DOMAIN p, NEW j \in DOMAIN p, i < j
        PROVE  \E m \in p[i], k \in p[j] : m < k
    <3>1. i \in DOMAIN q /\ p[i] = q[i]
      BY <2>2, <2>7
    <3>2. CASE j \in DOMAIN q
      BY <2>2, <2>7, <3>1, <3>2 DEF InOrder
    <3>3. CASE j \notin DOMAIN q
      <4>1. p[j] = {n + 1}
        BY <2>2, <3>3
      <4>2. PICK m \in S : q[i] = {m}
        BY <2>3, <3>1
      <4> QED
        BY <2>5, <3>1, <4>1, <4>2
    <3> QED
      BY <3>2, <3>3
  <2>8. InOrder(p, S \cup {n + 1})
    BY <2>6, <2>7 DEF InOrder
  <2> QED
    BY <1>2, <2>1, <2>8 DEF p, S
<1> QED
  BY <1>1, <1>2

-----------------------------------------------------------------------------
LEMMA LostIsFinite ==
  ASSUME NEW n \in Nat, NEW lost \in SUBSET (1..n)
  PROVE  Cardinality(lost) \in Nat /\ Cardinality(lost \cup {n + 1}) = Cardinality(lost) + 1
<1>1. IsFiniteSet(1..n)
  BY FS_Interval
<1>2. IsFiniteSet(lost)
  BY <1>1, FS_Subset
<1>3. n + 1 \notin lost
  OBVIOUS
<1> QED
  BY <1>2, <1>3, FS_CardinalityType, FS_AddElement

\* Steps that leave a receive thread where it is in the stream.
LEMMA ReadingStays ==
  ASSUME NEW r \in Receivers, NEW n \in Nat, Reading(r, n), pc'[r] = pc[r],
         text'[r] = text[r], local'[r] = local[r], span'[r] = span[r],
         UNCHANGED <<buffer, queue, emitted, tears>>,
         \A s \in Sockets : link'[s] = "up" => link[s] = "up" /\ inbound'[s] = inbound[s]
  PROVE  Reading(r, n)'
<1>1. PICK a \in Nat, lost \in SUBSET (1..n) : Progress(r, n, a, lost)
  BY DEF Reading
<1>2. Ahead(r, a)' = Ahead(r, a)
  BY DEF Ahead
<1>3. /\ Cardinality(lost) + Torn(Ahead(r, a)', n) <= tears' /\ Ahead(r, a)' <= 3 * emitted'
      /\ InOrder(queue, (Reports \cap 1..n) \ lost)' /\ Part(buffer, a)'
  BY <1>1, <1>2 DEF Progress, InOrder, Part
<1>4. /\ IF pc'[r] = "handle" THEN a = 3 * n + 3 ELSE a <= 3 * n /\ 3 * n <= a + 2
      /\ pc'[r] \in {"recv", "wait", "load", "store"} =>
           Len(buffer') = 0 \/ a + Len(buffer') = 3 * n + 2
      /\ pc'[r] \in {"load", "store"} => Part(text[r], a + Len(buffer))'
      /\ pc'[r] = "store" => local'[r] = buffer'
      /\ pc'[r] \in {"cut", "drop"} =>
           span'[r] = <<3 * n + 1 - a, 3 * n + 3 - a>> /\ 3 * n + 3 <= a + Len(buffer')
      /\ pc'[r] \in {"drop", "handle"} => text'[r] = Whole(n + 1)
  BY <1>1 DEF Progress, Part
<1>5. \A s \in Sockets : link'[s] = "up" =>
        Part(inbound[s], Ahead(r, a))' /\ Ahead(r, a)' + Len(inbound'[s]) = 3 * emitted'
  BY <1>1, <1>2 DEF Progress, Part
<1>6. Progress(r, n, a, lost)'
  BY <1>3, <1>4, <1>5 DEF Progress, Torn
<1> QED
  BY <1>6 DEF Reading

\* A thread between two messages: what it does then leaves the stream alone.
Between == Sends \cup {"find", "close", "dial", "recv", "wait", "cut", "drop"}
LEMMA ReadingBetween ==
  ASSUME NEW r \in Receivers, NEW n \in Nat, Reading(r, n), pc[r] \in Between,
         \/ pc'[r] \in Sends \cup {"find", "close", "dial"}
         \/ pc[r] \in {"recv", "wait"} /\ pc'[r] \in {"recv", "wait"},
         UNCHANGED <<buffer, queue, emitted, tears>>,
         \A s \in Sockets : link'[s] = "up" => link[s] = "up" /\ inbound'[s] = inbound[s]
  PROVE  Reading(r, n)'
<1>1. PICK a \in Nat, lost \in SUBSET (1..n) : Progress(r, n, a, lost)
  BY DEF Reading
<1>2. Ahead(r, a) = a + Len(buffer) + 0 /\ Ahead(r, a)' = a + Len(buffer) + 0
  BY DEF Ahead, Between, Sends
<1>3. /\ pc[r] # "handle" /\ pc'[r] \notin {"load", "store", "cut", "drop", "handle"}
      /\ pc'[r] \in {"recv", "wait"} => pc[r] \in {"recv", "wait"}
  BY DEF Sends, Between
<1>4. Ahead(r, a)' = Ahead(r, a)
  BY <1>2
<1>5. Progress(r, n, a, lost)'
  BY <1>1, <1>3, <1>4 DEF Progress, InOrder, Part, Torn
<1> QED
  BY <1>5 DEF Reading

\* There is one socket to receive on.
LEMMA OneLink ==
  ASSUME TypeInv, Calm, NEW s \in Sockets, link[s] = "up"
  PROVE  s = sock /\ made = 1
  BY DEF TypeInv, LinkType, Calm, Sockets

LEMMA CalmBefore ==
  ASSUME TypeInv, [Next]_vars, Calm'
  PROVE  Calm
<1>1. made \in Nat
  BY DEF TypeInv, LinkType
<1>2. ASSUME NEW t \in Threads, StartSend(t) \/ Sending(t) \/ Connecting(t)
      PROVE  made' \in {made, made + 1}
  BY <1>2 DEF StartSend, Sending, Build, Send, ReadCount, WriteCount, Connecting, MakeSocket,
     ConnectSocket, Spawn, net
<1>3. ASSUME NEW r \in Receivers, Receiving(r)
      PROVE  made' = made
  BY <1>3 DEF Receiving, CloseSocket, Recv, Received, ReceivedNothing, ReadBuffer, WriteBuffer,
     Find, Cut, DropCut, Handle, net
<1>4. ASSUME NEW s \in Sockets, Emit(s) \/ Fails(s)
      PROVE  made' = made
  BY <1>4 DEF Emit, Fails
<1>5. made' \in {made, made + 1}
  BY <1>2, <1>3, <1>4 DEF Next, vars, net
<1> QED
  BY <1>1, <1>5 DEF Calm

\* A thread that sends stays in send_message, or leaves it for where it came from.
LEMMA StreamSending ==
  ASSUME TypeInv, Calm, Stream, NEW t \in Threads, StartSend(t) \/ Sending(t)
  PROVE  Stream'
<1> USE DEF TypeInv, SendType
<1>1. /\ UNCHANGED <<sock, net, buffer, queue, parsing, tears>>
  BY DEF StartSend, Sending, Build, Send, ReadCount, WriteCount, bounds
<1>2. PICK l \in Labels, b \in Backs :
        /\ pc' = [pc EXCEPT ![t] = l] /\ back' = [back EXCEPT ![t] = b]
        /\ \/ pc[t] \in {"idle", "beat"} /\ l = "build" /\ b \in {"idle", "beat"}
           \/ pc[t] \in Sends /\ l \in Sends /\ b = back[t]
           \/ pc[t] \in Sends /\ l \in {back[t], SendRaised(t)} /\ b = "off"
  <2>1. CASE StartSend(t)
    BY <2>1 DEF StartSend, Goto, Labels, Backs
  <2>2. CASE Build(t) \/ ReadCount(t)
    <3>1. back' = [back EXCEPT ![t] = back[t]]
      BY <2>2 DEF Build, ReadCount
    <3> QED
      BY <2>2, <3>1 DEF Build, ReadCount, Goto, Labels, Sends
  <2>3. CASE Send(t)
    <3>1. CASE Goto(t, "count") /\ UNCHANGED sending
      <4>1. back' = [back EXCEPT ![t] = back[t]]
        BY <3>1 DEF sending
      <4> QED
        BY <2>3, <3>1, <4>1 DEF Send, Goto, Labels, Sends
    <3>2. CASE Goto(t, SendRaised(t)) /\ back' = [back EXCEPT ![t] = "off"]
      <4>1. SendRaised(t) \in Labels
        BY DEF SendRaised, Raised, Labels
      <4> QED
        BY <2>3, <3>2, <4>1 DEF Send, Goto, Backs, Sends
    <3> QED
      BY <2>3, <3>1, <3>2 DEF Send
  <2>4. CASE WriteCount(t)
    <3>1. back[t] \in Labels
      BY DEF Backs, Labels
    <3> QED
      BY <2>4, <3>1 DEF WriteCount, Goto, Backs, Sends
  <2> QED
    BY <2>1, <2>2, <2>3, <2>4 DEF Sending
<1>3. ASSUME NEW r \in Receivers, r = t
      PROVE  /\ pc[r] \in Sends /\ back[r] = "find" /\ l \in Sends \cup {"find", "close"}
             /\ l \in Sends => b = "find"
  <2>1. pc[r] \notin {"idle", "beat"} /\ (pc[r] \in Sends => back[r] = "find")
    BY DEF Stream, Alone
  <2>2. pc[r] \in Sends /\ back[r] = "find"
    BY <1>2, <1>3, <2>1
  <2>3. SendRaised(r) = "close"
    BY <2>2 DEF SendRaised
  <2> QED
    BY <1>2, <1>3, <2>2, <2>3 DEF Sends
<1>4. Starting' => Starting
  <2>1. CASE t = App
    <3>1. b = "spawn" => back[App] = "spawn"
      BY <1>2, <2>1
    <3>2. l \in {"dial", "connect", "spawn"} => back[App] = "spawn"
      BY <1>2, <2>1 DEF Sends, SendRaised, Raised, Backs
    <3>3. pc'[App] = l /\ back'[App] = b
      BY <1>2, <2>1
    <3> QED
      BY <3>1, <3>2, <3>3 DEF Starting
  <2>2. CASE t # App
    BY <1>2, <2>2, Constants DEF Starting
  <2> QED
    BY <2>1, <2>2
<1>5. \A r \in Receivers : pc'[r] # "off" <=> pc[r] # "off"
  BY <1>2, <1>3, Constants DEF Sends
<1>6. Alone'
  <2>1. ASSUME NEW j \in Threads \ {App}
        PROVE  pc'[j] \notin {"connect", "spawn"} /\ back'[j] # "spawn"
    <3>1. pc[j] \notin {"connect", "spawn"} /\ back[j] # "spawn"
      BY DEF Stream, Alone
    <3>2. CASE j = t
      BY <1>2, <3>1, <3>2 DEF Sends, SendRaised, Backs
    <3> QED
      BY <1>2, <3>1, <3>2
  <2>2. back'[App] = "spawn" => pc'[App] \in Sends
    BY <1>2, Constants DEF Stream, Alone, Sends
  <2>3. ASSUME NEW r \in Receivers
        PROVE  /\ pc'[r] \notin {"idle", "beat"}
               /\ pc'[r] \in Sends => back'[r] = "find"
               /\ pc'[r] # "off" => ~Starting'
               /\ pc'[r] = "wait" => at'[r] = sock'
    <3>1. /\ pc[r] \notin {"idle", "beat"} /\ (pc[r] \in Sends => back[r] = "find")
          /\ pc[r] # "off" => ~Starting
          /\ pc[r] = "wait" => at[r] = sock
      BY DEF Stream, Alone
    <3>2. pc'[r] # "off" => ~Starting'
      BY <1>4, <1>5, <3>1
    <3>3. CASE r = t
      <4>1. pc'[r] = l /\ back'[r] = b
        BY <1>2, <3>3, Constants
      <4> QED
        BY <1>3, <3>2, <3>3, <4>1 DEF Sends
    <3>4. CASE r # t
      <4>1. pc'[r] = pc[r] /\ back'[r] = back[r] /\ at'[r] = at[r] /\ sock' = sock
        BY <1>1, <1>2, <3>4, Constants DEF parsing
      <4> QED
        BY <3>1, <3>2, <4>1
    <3> QED
      BY <3>3, <3>4
  <2>4. \A q, r \in Receivers : pc'[q] # "off" /\ pc'[r] # "off" => q = r
    BY <1>5 DEF Stream, Alone
  <2> QED
    BY <2>1, <2>2, <2>3, <2>4 DEF Alone
<1>7. (\A r \in Receivers : pc'[r] = "off") => Unread'
  <2>1. pc'[App] = "connect" => pc[App] = "connect"
    BY <1>2, Constants DEF SendRaised, Raised, Backs, Sends
  <2> QED
    BY <1>1, <1>5, <2>1 DEF Stream, Unread, net, Part
<1>8. ASSUME NEW r \in Receivers, pc'[r] # "off"
      PROVE  \E n \in 0..emitted' : Reading(r, n)'
  <2>1. PICK n \in 0..emitted : Reading(r, n)
    BY <1>5, <1>8 DEF Stream
  <2>2. n \in Nat /\ n \in 0..emitted'
    BY <1>1 DEF net, LinkType
  <2>3. CASE r = t
    <3>1. pc[r] \in Between /\ pc'[r] \in Sends \cup {"find", "close", "dial"}
      BY <1>2, <1>3, <2>3, Constants DEF Between
    <3> QED
      BY <1>1, <2>1, <2>2, <3>1, ReadingBetween DEF net
  <2>4. CASE r # t
    <3>1. pc'[r] = pc[r]
      BY <1>2, <2>4, Constants
    <3> QED
      BY <1>1, <2>1, <2>2, <3>1, ReadingStays DEF net, parsing
  <2> QED
    BY <2>3, <2>4
<1> QED
  BY <1>6, <1>7, <1>8 DEF Stream

\* The application connects; nothing is received before the threads are started.
LEMMA StreamConnecting ==
  ASSUME TypeInv, TypeInv', Calm, Calm', Stream, NEW t \in Threads, Connecting(t)
  PROVE  Stream'
<1> USE DEF TypeInv
<1>1. CASE MakeSocket(t)
  <2>1. /\ made = 0 /\ made' = 1 /\ sock' = 1 /\ pc[t] = "dial"
        /\ \A j \in Threads : pc[j] = IF j = App THEN "dial" ELSE "off"
    BY <1>1 DEF MakeSocket, Calm, LinkType
  <2>2. t = App /\ pc' = [pc EXCEPT ![App] = "connect"]
    BY <1>1, <2>1 DEF MakeSocket, Goto
  <2>3. /\ pc'[App] = "connect" /\ (\A j \in Threads \ {App} : pc'[j] = "off")
        /\ back' = back
    BY <1>1, <2>1, <2>2, Constants DEF MakeSocket, SendType, sending
  <2>4. Alone'
    BY <2>1, <2>3, Constants DEF Stream, Alone, Sends
  <2>5. Unread
    BY <2>1, Constants DEF Stream
  <2>6. /\ emitted' = 0 /\ inbound' = inbound /\ buffer' = <<>> /\ queue' = <<>>
        /\ link' = [link EXCEPT ![1] = "new"]
        /\ \A s \in Sockets : inbound[s] = <<>> /\ link[s] # "up"
    BY <1>1, <2>1, <2>5 DEF MakeSocket, Unread
  <2>7. \A s \in Sockets : link'[s] # "up"
    BY <2>6 DEF LinkType
  <2>8. Unread'
    BY <2>6, <2>7 DEF Unread
  <2> QED
    BY <2>3, <2>4, <2>8, Constants DEF Stream
<1>2. CASE ConnectSocket(t)
  <2>1. t = App /\ pc[App] = "connect"
    BY <1>2 DEF ConnectSocket, Stream, Alone
  <2>2. \A r \in Receivers : pc[r] = "off"
    BY <2>1 DEF Stream, Alone, Starting
  <2>3. /\ Unread /\ emitted = 0 /\ \A s \in Sockets : inbound[s] = <<>> /\ link[s] # "up"
    BY <2>1, <2>2 DEF Stream, Unread
  <2>4. PICK l \in {"dial", "build"} :
          /\ pc' = [pc EXCEPT ![App] = l]
          /\ IF l = "build" THEN back' = [back EXCEPT ![App] = "spawn"] ELSE back' = back
    BY <1>2, <2>1, Constants DEF ConnectSocket, Raised, Goto
  <2>5. /\ pc'[App] = l /\ \A j \in Threads \ {App} : pc'[j] = pc[j] /\ back'[j] = back[j]
    BY <2>4, Constants DEF SendType
  <2>6. UNCHANGED <<sock, made, inbound, emitted, buffer, queue>>
    BY <1>2 DEF ConnectSocket
  <2>7. Alone'
    <3>1. back'[App] = "spawn" => pc'[App] \in Sends
      <4>1. back[App] # "spawn"
        BY <2>1 DEF Stream, Alone, Sends
      <4> QED
        BY <2>4, <2>5, <4>1 DEF Sends
    <3> QED
      BY <2>2, <2>5, <3>1, Constants DEF Stream, Alone, Sends
  <2>8. Unread'
    <3>1. made' # 0
      BY <2>1, <2>6, Constants DEF LinkType
    <3>2. ASSUME NEW s \in Sockets
          PROVE  Part(inbound'[s], 0) /\ Len(inbound'[s]) = 3 * emitted'
      BY <2>3, <2>6 DEF Part
    <3> QED
      BY <2>3, <2>4, <2>5, <2>6, <3>1, <3>2 DEF Unread
  <2> QED
    BY <2>2, <2>5, <2>7, <2>8, Constants DEF Stream
<1>3. CASE Spawn(t)
  <2>1. t = App /\ pc[App] = "spawn"
    BY <1>3 DEF Spawn, Stream, Alone
  <2>2. \A r \in Receivers : pc[r] = "off"
    BY <2>1 DEF Stream, Alone, Starting
  <2>3. Unread
    BY <2>2 DEF Stream
  <2>4. PICK r \in Receivers, m \in Monitors :
          pc' = [pc EXCEPT ![App] = "idle", ![r] = "recv", ![m] = "beat"]
    BY <1>3, <2>1 DEF Spawn
  <2>5. /\ pc'[r] = "recv" /\ pc'[App] = "idle" /\ pc'[m] = "beat"
        /\ \A j \in Threads \ {App, r, m} : pc'[j] = pc[j]
    BY <2>4, ConstantsAssumption DEF ConstantsAssumption, Threads, SendType
  <2>6. /\ \A q \in Receivers \ {r} : pc'[q] = "off"
        /\ \A j \in Threads \ {App} : pc'[j] \notin {"connect", "spawn"}
    BY <2>1, <2>2, <2>5, ConstantsAssumption DEF ConstantsAssumption, Threads, Stream, Alone
  <2>7. UNCHANGED <<sock, link, made, inbound, emitted, buffer, queue, back, at>>
    BY <1>3 DEF Spawn, net, parsing, sending
  <2>8. Alone'
    <3>1. back[App] # "spawn" /\ \A j \in Threads \ {App} : back[j] # "spawn"
      BY <2>1 DEF Stream, Alone, Sends
    <3>2. ~Starting'
      BY <2>5, <2>7, <3>1 DEF Starting
    <3> QED
      BY <2>5, <2>6, <2>7, <3>1, <3>2, Constants DEF Alone, Sends
  <2>9. Reading(r, 0)'
    <3>1. buffer' = <<>> /\ queue' = <<>> /\ emitted' \in Nat /\ tears' \in Nat
      BY <2>3, <2>7 DEF Unread, LinkType, BoundType
    <3>2. Ahead(r, 0)' = 0
      BY <2>5, <3>1 DEF Ahead
    <3>3. Part(buffer, 0)' /\ Len(buffer') = 0
      BY <3>1 DEF Part
    <3>4. InOrder(queue, (Reports \cap 1..0) \ {})'
      <4>1. (Reports \cap 1..0) \ {} = {}
        OBVIOUS
      <4> QED
        BY <3>1, <4>1 DEF InOrder
    <3>5. \A s \in Sockets : link'[s] = "up" =>
            Part(inbound'[s], 0) /\ Len(inbound'[s]) = 3 * emitted'
      BY <2>3, <2>7 DEF Unread
    <3>6. \A s \in Sockets : link'[s] = "up" =>
            Part(inbound[s], Ahead(r, 0))' /\ Ahead(r, 0)' + Len(inbound'[s]) = 3 * emitted'
      BY <3>1, <3>2, <3>5 DEF Part
    <3>7. Cardinality({}) + Torn(Ahead(r, 0)', 0) <= tears'
      <4>1. Torn(0, 0) = 0
        BY DEF Torn
      <4> QED
        BY <3>1, <3>2, <4>1, FS_EmptySet
    <3>8. Progress(r, 0, 0, {})'
      BY <2>5, <3>1, <3>2, <3>3, <3>4, <3>6, <3>7 DEF Progress, Torn
    <3> QED
      BY <3>8 DEF Reading
  <2> QED
    BY <2>5, <2>6, <2>7, <2>8, <2>9 DEF Stream, LinkType
<1> QED
  BY <1>1, <1>2, <1>3 DEF Connecting

\* A step of the thread that receives: what is left to show is how far it is.
LEMMA StreamMoves ==
  ASSUME TypeInv, Stream, NEW r \in Receivers, pc[r] # "off", UNCHANGED sock,
         NEW l \in Labels \ {"off", "idle", "beat", "connect", "spawn"},
         pc' = [pc EXCEPT ![r] = l],
         \/ back' = back /\ l \notin Sends
         \/ back' = [back EXCEPT ![r] = "find"],
         l = "wait" => at'[r] = sock,
         NEW n \in 0..emitted', Reading(r, n)'
  PROVE  Stream'
<1> USE DEF TypeInv
<1>1. /\ \A q \in Receivers : q # r => pc[q] = "off"
      /\ ~Starting
  BY DEF Stream, Alone
<1>2. /\ pc'[r] = l /\ \A j \in Threads \ {r} : pc'[j] = pc[j] /\ back'[j] = back[j]
      /\ back'[r] # "spawn" /\ (l \in Sends => back'[r] = "find")
  BY Constants DEF SendType, Stream, Alone
<1>3. ~Starting'
  BY <1>1, <1>2, Constants DEF Starting
<1>4. Alone'
  <2>1. \A j \in Threads \ {App} : pc'[j] \notin {"connect", "spawn"} /\ back'[j] # "spawn"
    BY <1>2 DEF Stream, Alone
  <2>2. back'[App] = "spawn" => pc'[App] \in Sends
    BY <1>2, Constants DEF Stream, Alone
  <2>3. \A q \in Receivers : pc'[q] # "off" => q = r
    BY <1>1, <1>2, Constants
  <2>4. pc'[r] = "wait" => at'[r] = sock'
    BY <1>2
  <2> QED
    BY <1>2, <1>3, <2>1, <2>2, <2>3, <2>4 DEF Alone, Sends
<1> QED
  BY <1>1, <1>2, <1>4, Constants DEF Stream

-----------------------------------------------------------------------------
\* How far the thread is after each of its steps.
LEMMA ReadingWaits ==
  ASSUME TypeInv, NEW r \in Receivers, NEW n \in Nat, Reading(r, n),
         CloseSocket(r) \/ Recv(r) \/ ReceivedNothing(r)
  PROVE  Reading(r, n)'
<1> USE DEF TypeInv
<1>1. /\ pc[r] \in Between
      /\ \/ pc'[r] \in Sends \cup {"find", "close", "dial"}
         \/ pc[r] \in {"recv", "wait"} /\ pc'[r] \in {"recv", "wait"}
  BY Constants DEF CloseSocket, Recv, ReceivedNothing, Goto, SendType, Between
<1>2. /\ UNCHANGED <<buffer, queue, emitted, tears>>
      /\ \A s \in Sockets : link'[s] = "up" => link[s] = "up" /\ inbound'[s] = inbound[s]
  BY DEF CloseSocket, Recv, ReceivedNothing, net, LinkType, bounds
<1> QED
  BY <1>1, <1>2, ReadingBetween

LEMMA ReadingReceived ==
  ASSUME TypeInv, Calm, NEW r \in Receivers, NEW n \in Nat, Reading(r, n), at[r] = sock,
         Received(r)
  PROVE  Reading(r, n)'
<1> USE DEF TypeInv
<1>1. PICK a \in Nat, lost \in SUBSET (1..n) : Progress(r, n, a, lost)
  BY DEF Reading
<1> DEFINE b == inbound[sock]
           p == a + Len(buffer)
<1>2. PICK k \in 1..Len(b) :
        /\ IF b[k].part = "tag" THEN tears < MaxTears /\ tears' = tears + 1 ELSE UNCHANGED tears
        /\ text' = [text EXCEPT ![r] = SubSeq(b, 1, k)]
        /\ inbound' = [inbound EXCEPT ![sock] = SubSeq(b, k + 1, Len(b))]
  BY DEF Received
<1>3. /\ pc[r] = "wait" /\ pc'[r] = "load" /\ link[sock] = "up" /\ sock \in Sockets
      /\ UNCHANGED <<link, emitted, buffer, queue>>
  BY Constants, ASocketIsMade DEF Received, Goto, SendType
<1>4. /\ b \in Seq(Pieces) /\ Len(b) \in Nat /\ Len(buffer) \in Nat /\ p \in Nat
      /\ k \in Nat \ {0} /\ k <= Len(b) /\ emitted \in Nat /\ tears \in Nat
  BY <1>3 DEF LinkType, ParseType, BoundType
<1>5. Ahead(r, a) = p
  BY <1>3, <1>4 DEF Ahead
<1>6. Part(b, p) /\ p + Len(b) = 3 * emitted
  BY <1>1, <1>3, <1>5 DEF Progress
<1>7. /\ a <= 3 * n /\ 3 * n <= a + 2 /\ (Len(buffer) = 0 \/ p = 3 * n + 2)
      /\ Cardinality(lost) + Torn(p, n) <= tears
  BY <1>1, <1>3, <1>5 DEF Progress
<1> HIDE DEF b
<1>8. /\ Part(SubSeq(b, 1, k), p) /\ Part(SubSeq(b, k + 1, Len(b)), p + k)
      /\ Len(SubSeq(b, 1, k)) = k /\ Len(SubSeq(b, k + 1, Len(b))) = Len(b) - k
  <2> HIDE DEF p
  <2>1. Part(SubSeq(b, 1, k), p + 1 - 1) /\ Part(SubSeq(b, k + 1, Len(b)), p + (k + 1) - 1)
    BY <1>4, <1>6, PartCut
  <2>2. p + 1 - 1 = p /\ p + (k + 1) - 1 = p + k
    BY <1>4
  <2>3. Len(SubSeq(b, 1, k)) = k /\ Len(SubSeq(b, k + 1, Len(b))) = Len(b) - k
    BY <1>4
  <2> QED
    BY <2>1, <2>2, <2>3
<1> HIDE DEF p
<1>9. Cardinality(lost) \in Nat /\ Torn(p, n) \in Nat /\ Torn(p + k, n) \in {0, 1}
  BY LostIsFinite DEF Torn
<1>10. Cardinality(lost) + Torn(p + k, n) <= tears'
  <2>1. b[k] = Nth(p + k) /\ p + k \in Nat
    BY <1>4, <1>6 DEF Part
  <2>2. Cardinality(lost) <= tears
    BY <1>4, <1>7, <1>9
  <2>3. CASE b[k].part = "tag"
    BY <1>2, <1>4, <1>9, <2>2, <2>3
  <2>4. CASE b[k].part # "tag"
    <3>1. (p + k) % 3 # 1
      BY <2>1, <2>4, NthIsTag
    <3>2. Torn(p + k, n) = 0
      BY <3>1 DEF Torn
    <3> QED
      BY <1>2, <1>9, <2>2, <2>4, <3>2
  <2> QED
    BY <2>3, <2>4
<1>11. /\ text'[r] = SubSeq(b, 1, k) /\ inbound'[sock] = SubSeq(b, k + 1, Len(b))
  BY <1>2, <1>3 DEF LinkType, ParseType
<1>12. Ahead(r, a)' = p + k /\ a + Len(buffer') = p
  <2>1. Ahead(r, a)' = a + Len(buffer) + k
    BY <1>3, <1>8, <1>11 DEF Ahead
  <2> QED
    BY <1>3, <2>1 DEF p
<1>13. ASSUME NEW s \in Sockets, link'[s] = "up"
       PROVE  Part(inbound[s], Ahead(r, a))' /\ Ahead(r, a)' + Len(inbound'[s]) = 3 * emitted'
  <2>1. s = sock
    BY <1>3, <1>13, OneLink
  <2>2. (p + k) + (Len(b) - k) = 3 * emitted
    BY <1>4, <1>6
  <2> QED
    BY <1>3, <1>8, <1>11, <1>12, <2>1, <2>2 DEF Part
<1>14. Ahead(r, a)' <= 3 * emitted'
  BY <1>3, <1>4, <1>6, <1>12
<1>15. Cardinality(lost) + Torn(Ahead(r, a)', n) <= tears'
  BY <1>10, <1>12
<1>16. Part(text[r], a + Len(buffer))'
  BY <1>3, <1>8, <1>11, <1>12 DEF Part
<1>17. InOrder(queue, (Reports \cap 1..n) \ lost)' /\ Part(buffer, a)'
  BY <1>1, <1>3 DEF Progress, InOrder, Part
<1>18. Len(buffer') = 0 \/ a + Len(buffer') = 3 * n + 2
  BY <1>3, <1>7, <1>12
<1>19. Progress(r, n, a, lost)'
  BY <1>3, <1>7, <1>13, <1>14, <1>15, <1>16, <1>17, <1>18 DEF Progress, Torn
<1> QED
  BY <1>19 DEF Reading

LEMMA ReadingBuffered ==
  ASSUME TypeInv, NEW r \in Receivers, NEW n \in Nat, Reading(r, n),
         ReadBuffer(r) \/ WriteBuffer(r)
  PROVE  Reading(r, n)'
<1> USE DEF TypeInv
<1>0. PICK a \in Nat, lost \in SUBSET (1..n) : Progress(r, n, a, lost)
  BY DEF Reading
<1>1. CASE ReadBuffer(r)
  <2>1. /\ pc[r] = "load" /\ pc'[r] = "store" /\ local'[r] = buffer /\ text' = text
        /\ UNCHANGED <<link, inbound, emitted, buffer, queue, tears>>
    BY <1>1, Constants DEF ReadBuffer, Goto, SendType, ParseType, net, bounds
  <2>2. Ahead(r, a)' = Ahead(r, a)
    BY <2>1 DEF Ahead
  <2>3. Progress(r, n, a, lost)'
    BY <1>0, <2>1, <2>2 DEF Progress, InOrder, Part, Torn
  <2> QED
    BY <2>3 DEF Reading
<1>2. CASE WriteBuffer(r)
  <2>1. /\ pc[r] = "store" /\ pc'[r] = "find" /\ buffer' = local[r] \o text[r]
        /\ UNCHANGED <<link, inbound, emitted, queue, tears>>
    BY <1>2, Constants DEF WriteBuffer, Goto, SendType, net, bounds
  <2>2. /\ buffer' = buffer \o text[r] /\ buffer \in Seq(Pieces) /\ text[r] \in Seq(Pieces)
        /\ Part(buffer, a) /\ Part(text[r], a + Len(buffer))
    BY <1>0, <2>1 DEF Progress, ParseType
  <2>3. Part(buffer', a) /\ Len(buffer') = Len(buffer) + Len(text[r])
    BY <2>2, PartJoin
  <2>4. Len(buffer) \in Nat /\ Len(text[r]) \in Nat
    BY <2>2
  <2>5. Ahead(r, a)' = Ahead(r, a)
    <3>1. /\ Ahead(r, a) = a + Len(buffer) + Len(text[r])
          /\ Ahead(r, a)' = a + Len(buffer') + 0
      BY <2>1 DEF Ahead
    <3>2. \A x, y, z \in Nat : x + (y + z) + 0 = x + y + z
      OBVIOUS
    <3>3. a + (Len(buffer) + Len(text[r])) + 0 = a + Len(buffer) + Len(text[r])
      BY <2>4, <3>2
    <3> QED
      BY <2>3, <3>1, <3>3
  <2>6. Part(buffer, a)'
    BY <2>3 DEF Part
  <2>7. Progress(r, n, a, lost)'
    BY <1>0, <2>1, <2>5, <2>6 DEF Progress, InOrder, Part, Torn
  <2> QED
    BY <2>7 DEF Reading
<1> QED
  BY <1>1, <1>2

\* What is left of a lost message has no tag: the first one that is found is
\* that of the next message, and the first trailer after it is its own.
LEMMA FirstMessage ==
  ASSUME buffer \in Seq(Pieces), NEW n \in Nat, NEW a \in Nat, a <= 3 * n, 3 * n <= a + 2,
         Part(buffer, a)
  PROVE  /\ Tags(buffer) = {} => a + Len(buffer) <= 3 * n + 1
         /\ Tags(buffer) # {} =>
              /\ Min(Tags(buffer)) = 3 * n + 1 - a
              /\ Ends(buffer, 3 * n + 1 - a) = {} => a + Len(buffer) = 3 * n + 2
              /\ Ends(buffer, 3 * n + 1 - a) # {} =>
                   /\ 3 * n + 3 <= a + Len(buffer)
                   /\ Min(Ends(buffer, 3 * n + 1 - a)) = 3 * n + 3 - a
<1> DEFINE d == 3 * n - a
           l == Len(buffer)
<1>1. l \in Nat /\ d \in 0..2 /\ a = 3 * n - d
  OBVIOUS
<1>2. /\ \A i \in 1..l : i <= d => buffer[i].part # "tag"
      /\ d + 1 <= l => buffer[d + 1].part = "tag"
      /\ d + 2 <= l => buffer[d + 2].part = "body"
      /\ d + 3 <= l => buffer[d + 3].part = "end"
  <2>1. \A i \in 1..l : buffer[i] = Nth(a + i)
    BY DEF Part
  <2>2. /\ Nth(3 * n + 1).part = "tag" /\ Nth(3 * n + 2).part = "body"
        /\ Nth(3 * n + 3).part = "end"
    <3>1. \A m : /\ Piece(m, "tag").part = "tag" /\ Piece(m, "body").part = "body"
                 /\ Piece(m, "end").part = "end"
      BY DEF Piece
    <3> QED
      BY NthPieces, <3>1
  <2>3. a + (d + 1) = 3 * n + 1 /\ a + (d + 2) = 3 * n + 2 /\ a + (d + 3) = 3 * n + 3
    BY <1>1
  <2>4. ASSUME NEW i \in 1..l, i <= d PROVE buffer[i].part # "tag"
    <3>1. a + i \in {3 * n - 1, 3 * n} /\ a + i \in Nat
      BY <1>1, <2>4
    <3>2. (a + i) % 3 # 1
      BY <3>1
    <3> QED
      BY <2>1, <3>1, <3>2, NthIsTag
  <2>5. \A j \in {d + 1, d + 2, d + 3} : j <= l => j \in 1..l
    BY <1>1
  <2> QED
    BY <2>1, <2>2, <2>3, <2>4, <2>5
<1> HIDE DEF l, d
<1>3. d + 2 <= l => d + 1 \in Tags(buffer)
  BY <1>1, <1>2 DEF Tags, l
<1>4. CASE Tags(buffer) = {}
  <2>1. l < d + 2
    BY <1>1, <1>3, <1>4
  <2>2. a + l <= 3 * n + 1
    BY <1>1, <2>1
  <2> QED
    BY <1>4, <2>2 DEF l
<1>5. CASE Tags(buffer) # {}
  <2> DEFINE first == Min(Tags(buffer))
  <2>1. /\ first \in 1..l /\ (\A i \in Tags(buffer) : first <= i)
        /\ first < l /\ buffer[first].part = "tag"
    <3>1. first \in Tags(buffer) /\ \A i \in Tags(buffer) : first <= i
      BY <1>5, Found
    <3> HIDE DEF first
    <3> QED
      BY <3>1 DEF Tags, l
  <2> HIDE DEF first
  <2>2. d < first /\ d + 2 <= l
    BY <1>1, <1>2, <2>1
  <2>3. first = d + 1
    BY <1>1, <1>3, <2>1, <2>2
  <2>4. Ends(buffer, d + 1) = {} => l = d + 2
    <3>1. d + 3 <= l => d + 3 \in Ends(buffer, d + 1)
      BY <1>1, <1>2 DEF Ends, l
    <3> QED
      BY <1>1, <2>2, <3>1
  <2>5. ASSUME Ends(buffer, d + 1) # {}
        PROVE  d + 3 <= l /\ Min(Ends(buffer, d + 1)) = d + 3
    <3> DEFINE last == Min(Ends(buffer, d + 1))
    <3>1. last \in Ends(buffer, d + 1) /\ last \in 1..l /\ \A j \in Ends(buffer, d + 1) : last <= j
      BY <1>5, <2>3, <2>5, Found DEF first, l
    <3> HIDE DEF last
    <3>2. d + 1 <= last /\ last # d + 1 /\ last # d + 2
      BY <1>1, <1>2, <2>2, <3>1 DEF Ends
    <3>3. d + 3 <= last /\ d + 3 <= l
      BY <1>1, <3>1, <3>2
    <3>4. d + 3 \in Ends(buffer, d + 1)
      BY <1>1, <1>2, <3>3 DEF Ends, l
    <3>5. last = d + 3
      BY <1>1, <3>1, <3>3, <3>4
    <3> QED
      BY <3>3, <3>5 DEF last
  <2>6. 3 * n + 1 - a = d + 1 /\ 3 * n + 3 - a = d + 3
    BY DEF d
  <2>7. /\ l = d + 2 => a + l = 3 * n + 2
        /\ d + 3 <= l => 3 * n + 3 <= a + l
    BY <1>1
  <2> QED
    BY <1>5, <2>3, <2>4, <2>5, <2>6, <2>7 DEF first, l
<1> QED
  BY <1>4, <1>5

\* No tag: the buffer is emptied.  If it ends in the first half of a tag, the
\* message of that tag is lost.
LEMMA ReadingClears ==
  ASSUME TypeInv, NEW r \in Receivers, NEW n \in Nat, NEW a \in Nat, NEW lost \in SUBSET (1..n),
         Progress(r, n, a, lost), pc[r] = "find", pc'[r] = "recv", buffer' = <<>>,
         a + Len(buffer) <= 3 * n + 1,
         UNCHANGED <<link, inbound, emitted, queue, tears>>
  PROVE  Reading(r, n)' \/ (n + 1 <= emitted /\ Reading(r, n + 1)')
<1> USE DEF TypeInv
<1>1. Len(buffer) \in Nat /\ emitted \in Nat /\ tears \in Nat
  BY DEF ParseType, LinkType, BoundType
<1>0. PICK p \in Nat : p = a + Len(buffer)
  BY <1>1
<1>2. p \in Nat /\ a <= 3 * n /\ 3 * n <= a + 2 /\ Ahead(r, a) = p
  BY <1>0, <1>1 DEF Progress, Ahead
<1>3. /\ p <= 3 * emitted /\ p <= 3 * n + 1 /\ 3 * n <= p + 2
      /\ Cardinality(lost) + Torn(p, n) <= tears
  BY <1>0, <1>1, <1>2 DEF Progress
<1>4. Ahead(r, p)' = p
  BY <1>1 DEF Ahead
<1>5. Part(buffer, p)' /\ Len(buffer') = 0
  BY DEF Part
<1>6. \A s \in Sockets : link'[s] = "up" =>
        Part(inbound[s], Ahead(r, p))' /\ Ahead(r, p)' + Len(inbound'[s]) = 3 * emitted'
  BY <1>2, <1>4 DEF Progress, Part
<1>7. CASE p <= 3 * n
  <2>1. Cardinality(lost) + Torn(Ahead(r, p)', n) <= tears'
    BY <1>3, <1>4
  <2>2. InOrder(queue, (Reports \cap 1..n) \ lost)'
    BY DEF Progress, InOrder
  <2>3. Progress(r, n, p, lost)'
    BY <1>3, <1>4, <1>5, <1>6, <1>7, <2>1, <2>2 DEF Progress, Torn
  <2> QED
    BY <1>2, <2>3 DEF Reading
<1>8. CASE p = 3 * n + 1
  <2> DEFINE more == lost \cup {n + 1}
  <2>1. Torn(p, n) = 1 /\ Torn(p, n + 1) = 0
    <3>1. (3 * n + 1) % 3 = 1 /\ 3 * n + 1 > 3 * n /\ ~(3 * n + 1 > 3 * (n + 1))
      OBVIOUS
    <3> QED
      BY <1>8, <3>1 DEF Torn
  <2>2. Cardinality(more) + 0 <= tears
    BY <1>1, <1>3, <2>1, LostIsFinite
  <2>3. (Reports \cap 1..(n + 1)) \ more = (Reports \cap 1..n) \ lost /\ more \in SUBSET (1..(n + 1))
    <3>1. 1..(n + 1) = (1..n) \cup {n + 1} /\ n + 1 \notin 1..n
      OBVIOUS
    <3> QED
      BY <3>1, Zenon
  <2> HIDE DEF more
  <2>4. InOrder(queue, (Reports \cap 1..(n + 1)) \ more)'
    BY <2>3 DEF Progress, InOrder
  <2>5. Cardinality(more) + Torn(Ahead(r, p)', n + 1) <= tears'
    BY <1>4, <2>1, <2>2
  <2>6. p <= 3 * (n + 1) /\ 3 * (n + 1) <= p + 2 /\ n + 1 <= emitted
    BY <1>1, <1>3, <1>8
  <2>7. Progress(r, n + 1, p, more)'
    BY <1>3, <1>4, <1>5, <1>6, <2>4, <2>5, <2>6 DEF Progress, Torn
  <2> QED
    BY <1>2, <2>3, <2>6, <2>7 DEF Reading
<1> QED
  BY <1>2, <1>3, <1>7, <1>8

LEMMA ReadingFind ==
  ASSUME TypeInv, NEW r \in Receivers, NEW n \in Nat, Reading(r, n), Find(r)
  PROVE  Reading(r, n)' \/ (n + 1 <= emitted /\ Reading(r, n + 1)')
<1> USE DEF TypeInv
<1>0. PICK a \in Nat, lost \in SUBSET (1..n) : Progress(r, n, a, lost)
  BY DEF Reading
<1>1. /\ pc[r] = "find" /\ pc \in [Threads -> Labels] /\ r \in Threads
      /\ UNCHANGED <<link, inbound, emitted, queue, text, local, tears>>
  BY Constants DEF Find, SendType, net, bounds
<1>2. /\ buffer \in Seq(Pieces) /\ Len(buffer) \in Nat /\ Part(buffer, a)
      /\ a <= 3 * n /\ 3 * n <= a + 2
  BY <1>0, <1>1 DEF Progress, ParseType
<1>3. CASE Tags(buffer) = {}
  <2>1. buffer' = <<>> /\ pc'[r] = "recv"
    BY <1>1, <1>3 DEF Find, Goto
  <2>2. a + Len(buffer) <= 3 * n + 1
    BY <1>2, <1>3, FirstMessage
  <2> QED
    BY <1>0, <1>1, <2>1, <2>2, ReadingClears
<1>4. CASE Tags(buffer) # {}
  <2> DEFINE first == 3 * n + 1 - a
             last == 3 * n + 3 - a
  <2>1. /\ buffer' = buffer
        /\ \/ pc'[r] = "recv" /\ a + Len(buffer) = 3 * n + 2
           \/ pc'[r] = "cut" /\ span'[r] = <<first, last>> /\ 3 * n + 3 <= a + Len(buffer)
    <3>1. Min(Tags(buffer)) = first
      BY <1>2, <1>4, FirstMessage
    <3>2. CASE Ends(buffer, first) = {}
      <4>1. a + Len(buffer) = 3 * n + 2
        BY <1>2, <1>4, <3>2, FirstMessage
      <4> HIDE DEF first, last
      <4> QED
        BY <1>1, <1>4, <3>1, <3>2, <4>1 DEF Find, Goto
    <3>3. CASE Ends(buffer, first) # {}
      <4>1. Min(Ends(buffer, first)) = last /\ 3 * n + 3 <= a + Len(buffer)
        BY <1>2, <1>4, <3>3, FirstMessage
      <4> HIDE DEF first, last
      <4>2. /\ span' = [span EXCEPT ![r] = <<first, last>>] /\ pc' = [pc EXCEPT ![r] = "cut"]
            /\ buffer' = buffer
        BY <1>4, <3>1, <3>3, <4>1 DEF Find, Goto
      <4> QED
        BY <1>1, <4>1, <4>2 DEF ParseType
    <3> QED
      BY <3>2, <3>3
  <2>2. Ahead(r, a)' = Ahead(r, a)
    BY <1>1, <2>1 DEF Ahead
  <2>3. Progress(r, n, a, lost)'
    BY <1>0, <1>1, <2>1, <2>2 DEF Progress, InOrder, Part, Torn
  <2> QED
    BY <2>3 DEF Reading
<1> QED
  BY <1>3, <1>4

LEMMA ReadingCut ==
  ASSUME TypeInv, NEW r \in Receivers, NEW n \in Nat, Reading(r, n), Cut(r)
  PROVE  Reading(r, n)'
<1> USE DEF TypeInv
<1>0. PICK a \in Nat, lost \in SUBSET (1..n) : Progress(r, n, a, lost)
  BY DEF Reading
<1> DEFINE i == 3 * n + 1 - a
           j == 3 * n + 3 - a
<1>1. /\ pc[r] = "cut" /\ pc'[r] = "drop"
      /\ UNCHANGED <<link, inbound, emitted, buffer, queue, span, tears>>
      /\ text'[r] = SubSeq(buffer, span[r][1], Clip(span[r][2], buffer))
  BY Constants DEF Cut, Goto, SendType, ParseType, net, bounds
<1>2. /\ buffer \in Seq(Pieces) /\ Len(buffer) \in Nat /\ Part(buffer, a)
      /\ span[r] = <<i, j>> /\ a <= 3 * n /\ 3 * n <= a + 2 /\ 3 * n + 3 <= a + Len(buffer)
  BY <1>0, <1>1 DEF Progress, ParseType
<1>3. /\ i \in Nat \ {0} /\ j \in Nat /\ j <= Len(buffer) /\ i <= j /\ j - i + 1 = 3
      /\ a + i - 1 = 3 * n
  BY <1>2
<1> HIDE DEF i, j
<1>4. text'[r] = SubSeq(buffer, i, j)
  <2>1. Clip(j, buffer) = j
    BY <1>2, <1>3 DEF Clip
  <2>2. span[r][1] = i /\ span[r][2] = j
    BY <1>2
  <2> QED
    BY <1>1, <2>1, <2>2
<1>5. SubSeq(buffer, i, j) = Whole(n + 1)
  <2>1. SubSeq(buffer, i, j) \in Seq(Pieces) /\ Len(SubSeq(buffer, i, j)) = 3
    BY <1>2, <1>3, Cuts
  <2>2. Part(SubSeq(buffer, i, j), a + i - 1)
    BY <1>2, <1>3, PartCut
  <2>3. Part(SubSeq(buffer, i, j), 3 * n)
    BY <1>3, <2>2
  <2> QED
    BY <2>1, <2>3, PartIsWhole
<1>6. Ahead(r, a)' = Ahead(r, a)
  BY <1>1 DEF Ahead
<1>7. Progress(r, n, a, lost)'
  BY <1>0, <1>1, <1>4, <1>5, <1>6 DEF Progress, InOrder, Part, Torn
<1> QED
  BY <1>7 DEF Reading

LEMMA ReadingDrop ==
  ASSUME TypeInv, NEW r \in Receivers, NEW n \in Nat, Reading(r, n), DropCut(r)
  PROVE  Reading(r, n)'
<1> USE DEF TypeInv
<1>0. PICK a \in Nat, lost \in SUBSET (1..n) : Progress(r, n, a, lost)
  BY DEF Reading
<1> DEFINE i == 3 * n + 4 - a
           c == 3 * n + 3
<1>1. /\ pc[r] = "drop" /\ pc'[r] = "handle" /\ text' = text
      /\ UNCHANGED <<link, inbound, emitted, queue, tears>>
      /\ buffer' = SubSeq(buffer, span[r][2] + 1, Len(buffer))
  BY Constants DEF DropCut, Goto, SendType, net, bounds
<1>2. /\ buffer \in Seq(Pieces) /\ Len(buffer) \in Nat /\ Part(buffer, a)
      /\ span[r] = <<3 * n + 1 - a, 3 * n + 3 - a>> /\ a <= 3 * n /\ 3 * n <= a + 2
      /\ c <= a + Len(buffer)
  <2>1. buffer \in Seq(Pieces) /\ Len(buffer) \in Nat
    BY DEF ParseType
  <2>2. pc[r] # "handle" /\ pc[r] \in {"cut", "drop"}
    BY <1>1
  <2> QED
    BY <1>0, <2>1, <2>2 DEF Progress
<1>3. /\ i \in Nat \ {0} /\ i <= Len(buffer) + 1 /\ a + i - 1 = c /\ (3 * n + 3 - a) + 1 = i
      /\ Len(buffer) - i + 1 = a + Len(buffer) - c /\ c \in Nat
  BY <1>2
<1> HIDE DEF i, c
<1>4. buffer' = SubSeq(buffer, i, Len(buffer))
  <2>1. span[r][2] = 3 * n + 3 - a
    BY <1>2
  <2> QED
    BY <1>1, <1>3, <2>1
<1>5. Part(buffer', c) /\ Len(buffer') = a + Len(buffer) - c
  <2>1. Part(SubSeq(buffer, i, Len(buffer)), a + i - 1)
    <3>1. Len(buffer) <= Len(buffer)
      BY <1>2
    <3> QED
      BY <1>2, <1>3, <3>1, PartCut
  <2>2. Len(SubSeq(buffer, i, Len(buffer))) = IF i <= Len(buffer) THEN Len(buffer) - i + 1 ELSE 0
    <3>1. Len(buffer) <= Len(buffer)
      BY <1>2
    <3> QED
      BY <1>2, <1>3, <3>1, Cuts
  <2>3. (IF i <= Len(buffer) THEN Len(buffer) - i + 1 ELSE 0) = Len(buffer) - i + 1
    BY <1>2, <1>3
  <2> QED
    BY <1>3, <1>4, <2>1, <2>2, <2>3
<1>6. Ahead(r, c)' = Ahead(r, a)
  <2>1. Ahead(r, c)' = c + Len(buffer') + 0 /\ Ahead(r, a) = a + Len(buffer) + 0
    BY <1>1 DEF Ahead
  <2> QED
    BY <1>2, <1>3, <1>5, <2>1
<1>7. Part(buffer, c)'
  BY <1>5 DEF Part
<1>8. Progress(r, n, c, lost)'
  BY <1>0, <1>1, <1>6, <1>7 DEF Progress, InOrder, Part, Torn, c
<1> QED
  BY <1>3, <1>8 DEF Reading

LEMMA ReadingHandle ==
  ASSUME TypeInv, NEW r \in Receivers, NEW n \in Nat, Reading(r, n), Handle(r)
  PROVE  n + 1 <= emitted /\ Reading(r, n + 1)'
<1> USE DEF TypeInv
<1>0. PICK a \in Nat, lost \in SUBSET (1..n) : Progress(r, n, a, lost)
  BY DEF Reading
<1>1. /\ pc[r] = "handle" /\ pc'[r] \in {"find", "build"}
      /\ UNCHANGED <<link, inbound, emitted, buffer, tears>>
  BY Constants DEF Handle, Goto, SendType, net, bounds
<1>2. /\ text[r] = Whole(n + 1) /\ Part(buffer, a) /\ a = 3 * n + 3
      /\ buffer \in Seq(Pieces) /\ Len(buffer) \in Nat /\ emitted \in Nat /\ tears \in Nat
  BY <1>0, <1>1 DEF Progress, ParseType, LinkType, BoundType
<1>3. Bodies(text[r]) = {n + 1}
  BY <1>2, PartIsWhole
<1>4. queue' = IF n + 1 \in Reports THEN Append(queue, {n + 1}) ELSE queue
  BY <1>3 DEF Handle
<1>5. InOrder(queue', (Reports \cap 1..(n + 1)) \ lost)
  <2>1. queue \in Seq(SUBSET (1..Messages)) /\ InOrder(queue, (Reports \cap 1..n) \ lost)
    BY <1>0 DEF ParseType, Progress
  <2> QED
    BY <1>4, <2>1, InOrderGrows
<1>6. /\ Ahead(r, a)' = Ahead(r, a) /\ Ahead(r, a) = a + Len(buffer)
      /\ Ahead(r, a) <= 3 * emitted /\ Cardinality(lost) + Torn(Ahead(r, a), n) <= tears
  <2>1. Ahead(r, a)' = a + Len(buffer) + 0 /\ Ahead(r, a) = a + Len(buffer) + 0
    BY <1>1 DEF Ahead
  <2> QED
    BY <1>0, <1>2, <2>1 DEF Progress
<1>7. n + 1 <= emitted
  BY <1>2, <1>6
<1>8. Cardinality(lost) + Torn(Ahead(r, a)', n + 1) <= tears'
  <2> DEFINE p == a + Len(buffer)
  <2>1. p >= 3 * n + 3 /\ p \in Nat
    BY <1>2
  <2> HIDE DEF p
  <2>2. Torn(p, n + 1) = Torn(p, n)
    <3>1. p % 3 = 1 => p > 3 * (n + 1)
      <4>1. p # 3 * n + 3 \/ p % 3 # 1
        OBVIOUS
      <4> QED
        BY <2>1, <4>1
    <3>2. p > 3 * n
      BY <2>1
    <3> QED
      BY <3>1, <3>2 DEF Torn
  <2> QED
    BY <1>1, <1>6, <2>2 DEF p
<1>9. /\ InOrder(queue, (Reports \cap 1..(n + 1)) \ lost)' /\ Part(buffer, a)'
      /\ lost \in SUBSET (1..(n + 1))
  <2>1. InOrder(queue, (Reports \cap 1..(n + 1)) \ lost)' /\ Part(buffer, a)'
    BY <1>1, <1>2, <1>5 DEF InOrder, Part
  <2>2. 1..n \subseteq 1..(n + 1)
    OBVIOUS
  <2> QED
    BY <2>1, <2>2
<1>10. a <= 3 * (n + 1) /\ 3 * (n + 1) <= a + 2
  BY <1>2
<1>11. Progress(r, n + 1, a, lost)'
  BY <1>0, <1>1, <1>6, <1>8, <1>9, <1>10 DEF Progress, Part, Torn
<1> QED
  BY <1>7, <1>9, <1>11 DEF Reading

LEMMA StreamReceiving ==
  ASSUME TypeInv, TypeInv', Calm, Calm', Stream, NEW r \in Receivers, Receiving(r)
  PROVE  Stream'
<1> USE DEF TypeInv, Goto
<1>1. pc[r] \in Labels \ {"off"}
  BY Constants DEF Receiving, CloseSocket, Recv, Received, ReceivedNothing, ReadBuffer, WriteBuffer,
     Find, Cut, DropCut, Handle, SendType
<1>2. PICK n \in 0..emitted : Reading(r, n)
  BY <1>1 DEF Stream
<1>3. n \in Nat /\ emitted \in Nat /\ (pc[r] = "wait" => at[r] = sock)
  BY DEF LinkType, Stream, Alone
<1>4. /\ UNCHANGED <<sock, emitted>>
      /\ \E l \in Labels \ {"off", "idle", "beat", "connect", "spawn"} :
           /\ pc' = [pc EXCEPT ![r] = l]
           /\ \/ back' = back /\ l \notin Sends
              \/ back' = [back EXCEPT ![r] = "find"]
           /\ l = "wait" => at'[r] = sock
  <2>1. CASE CloseSocket(r)
    <3>1. /\ UNCHANGED <<sock, emitted, back>> /\ pc' = [pc EXCEPT ![r] = "dial"]
      BY <2>1 DEF CloseSocket, sending
    <3>2. /\ "dial" \in Labels \ {"off", "idle", "beat", "connect", "spawn"}
          /\ "dial" \notin Sends /\ "dial" # "wait"
      BY DEF Labels, Sends
    <3> QED
      BY <3>1, <3>2
  <2>2. CASE Recv(r)
    BY <2>2 DEF Recv, Labels, Sends, sending, net, ParseType
  <2>3. CASE Received(r)
    <3>1. /\ UNCHANGED <<sock, emitted, back>> /\ pc' = [pc EXCEPT ![r] = "load"]
      BY <2>3 DEF Received, sending
    <3>2. /\ "load" \in Labels \ {"off", "idle", "beat", "connect", "spawn"}
          /\ "load" \notin Sends /\ "load" # "wait"
      BY DEF Labels, Sends
    <3> QED
      BY <3>1, <3>2
  <2>4. CASE ReceivedNothing(r)
    BY <2>4 DEF ReceivedNothing, Labels, Sends, sending, net
  <2>5. CASE ReadBuffer(r) \/ WriteBuffer(r)
    BY <2>5 DEF ReadBuffer, WriteBuffer, Labels, Sends, sending, net
  <2>6. CASE Find(r)
    <3>1. pc' = [pc EXCEPT ![r] = "recv"] \/ pc' = [pc EXCEPT ![r] = "cut"]
      BY <2>6 DEF Find
    <3> QED
      BY <2>6, <3>1 DEF Find, Labels, Sends, sending, net
  <2>7. CASE Cut(r) \/ DropCut(r)
    BY <2>7 DEF Cut, DropCut, Labels, Sends, sending, net
  <2>8. CASE Handle(r)
    BY <2>8 DEF Handle, Labels, Sends, net
  <2> QED
    BY <2>1, <2>2, <2>3, <2>4, <2>5, <2>6, <2>7, <2>8 DEF Receiving
<1>5. \E m \in 0..emitted' : Reading(r, m)'
  <2>1. CASE Handle(r)
    <3>1. n + 1 <= emitted /\ Reading(r, n + 1)'
      BY <1>2, <1>3, <2>1, ReadingHandle
    <3>2. n + 1 \in 0..emitted'
      BY <1>3, <1>4, <3>1
    <3> QED
      BY <3>1, <3>2
  <2>2. CASE Find(r)
    <3>1. Reading(r, n)' \/ (n + 1 <= emitted /\ Reading(r, n + 1)')
      BY <1>2, <1>3, <2>2, ReadingFind
    <3>2. n \in 0..emitted' /\ (n + 1 <= emitted => n + 1 \in 0..emitted')
      BY <1>3, <1>4
    <3> QED
      BY <3>1, <3>2
  <2>3. CASE Received(r)
    <3>1. at[r] = sock
      BY <1>3, <2>3 DEF Received
    <3> QED
      BY <1>2, <1>3, <1>4, <2>3, <3>1, ReadingReceived
  <2>4. CASE CloseSocket(r) \/ Recv(r) \/ ReceivedNothing(r) \/ ReadBuffer(r) \/ WriteBuffer(r)
             \/ Cut(r) \/ DropCut(r)
    <3>1. Reading(r, n)'
      BY <1>2, <1>3, <2>4, ReadingWaits, ReadingBuffered, ReadingCut, ReadingDrop
    <3> QED
      BY <1>4, <3>1
  <2> QED
    BY <2>1, <2>2, <2>3, <2>4 DEF Receiving
<1>6. PICK l \in Labels \ {"off", "idle", "beat", "connect", "spawn"} :
        /\ pc' = [pc EXCEPT ![r] = l]
        /\ \/ back' = back /\ l \notin Sends
           \/ back' = [back EXCEPT ![r] = "find"]
        /\ l = "wait" => at'[r] = sock
  BY <1>4
<1>7. PICK m \in 0..emitted' : Reading(r, m)'
  BY <1>5
<1> QED
  BY <1>1, <1>4, <1>6, <1>7, StreamMoves

\* The exchange adds to the end of the stream; a connection that fails ends it.
LEMMA StreamNet ==
  ASSUME TypeInv, TypeInv', Calm, Stream, NEW s \in Sockets, Emit(s) \/ Fails(s)
  PROVE  Stream'
<1> USE DEF TypeInv
<1>1. UNCHANGED <<sock, made, buffer, queue, pc, parsing, sending>>
  BY DEF Emit, Fails
<1>2. Alone'
  BY <1>1 DEF Stream, Alone, Starting, parsing, sending
<1>3. link[s] = "up" /\ s = sock /\ made = 1
  BY OneLink DEF Emit, Fails
<1>4. CASE Emit(s)
  <2>1. /\ emitted' = emitted + 1 /\ link' = link /\ emitted \in Nat
        /\ inbound' = [inbound EXCEPT ![s] = @ \o Whole(emitted + 1)]
    BY <1>4 DEF Emit, LinkType
  <2>2. /\ inbound[s] \in Seq(Pieces) /\ Len(inbound[s]) \in Nat /\ emitted + 1 \in 1..Messages
    BY <2>1 DEF LinkType
  <2>3. Whole(emitted + 1) \in Seq(Pieces)
    BY <2>2 DEF Whole, Piece, Pieces
  <2>4. ASSUME NEW a \in Nat, Part(inbound[s], a), a + Len(inbound[s]) = 3 * emitted
        PROVE  Part(inbound'[s], a) /\ a + Len(inbound'[s]) = 3 * emitted'
    <3>1. Part(Whole(emitted + 1), a + Len(inbound[s])) /\ Len(Whole(emitted + 1)) = 3
      BY <2>1, <2>4, PartIsWhole
    <3>2. inbound'[s] = inbound[s] \o Whole(emitted + 1)
      BY <2>1 DEF LinkType
    <3>3. Part(inbound'[s], a)
      BY <2>2, <2>3, <2>4, <3>1, <3>2, PartJoin
    <3>4. Len(inbound'[s]) = Len(inbound[s]) + 3
      <4>1. \A p, q \in Seq(Pieces) : Len(p \o q) = Len(p) + Len(q)
        OBVIOUS
      <4> QED
        BY <2>2, <2>3, <3>1, <3>2, <4>1
    <3> QED
      BY <2>1, <2>2, <2>4, <3>3, <3>4
  <2>5. (\A r \in Receivers : pc'[r] = "off") => Unread'
    <3> SUFFICES ASSUME \A r \in Receivers : pc[r] = "off" PROVE Unread'
      BY <1>1
    <3>1. Unread
      BY DEF Stream
    <3>2. made # 0 /\ pc[App] # "connect"
      BY <1>3, <3>1 DEF Unread
    <3>3. Part(inbound'[s], 0) /\ Len(inbound'[s]) = 3 * emitted'
      <4>1. Part(inbound[s], 0) /\ 0 + Len(inbound[s]) = 3 * emitted
        BY <1>3, <2>2, <3>1 DEF Unread
      <4>2. Part(inbound'[s], 0) /\ 0 + Len(inbound'[s]) = 3 * emitted'
        BY <2>4, <4>1
      <4>3. Len(inbound'[s]) \in Nat
        BY DEF LinkType
      <4> QED
        BY <4>2, <4>3
    <3>4. \A z \in Sockets : link'[z] = "up" => z = s
      BY <1>3, <2>1, OneLink
    <3> QED
      BY <1>1, <3>1, <3>2, <3>3, <3>4 DEF Unread, Part
  <2>6. ASSUME NEW r \in Receivers, pc'[r] # "off"
        PROVE  \E n \in 0..emitted' : Reading(r, n)'
    <3>1. PICK n \in 0..emitted : Reading(r, n)
      BY <1>1, <2>6 DEF Stream
    <3>2. PICK a \in Nat, lost \in SUBSET (1..n) : Progress(r, n, a, lost)
      BY <3>1 DEF Reading
    <3>3. Ahead(r, a)' = Ahead(r, a)
      BY <1>1 DEF Ahead, parsing
    <3>4. Ahead(r, a) \in Nat
      <4>1. Len(buffer) \in Nat /\ Len(text[r]) \in Nat
        BY DEF ParseType
      <4>2. (IF pc[r] \in {"load", "store"} THEN Len(text[r]) ELSE 0) \in Nat
        BY <4>1
      <4>3. \A x, y, z \in Nat : x + y + z \in Nat
        OBVIOUS
      <4>4. a + Len(buffer) + (IF pc[r] \in {"load", "store"} THEN Len(text[r]) ELSE 0) \in Nat
        BY <4>1, <4>2, <4>3
      <4> QED
        BY <4>4 DEF Ahead
    <3>5. Part(inbound[s], Ahead(r, a))' /\ Ahead(r, a)' + Len(inbound'[s]) = 3 * emitted'
      <4>1. Part(inbound[s], Ahead(r, a)) /\ Ahead(r, a) + Len(inbound[s]) = 3 * emitted
        BY <1>3, <3>2 DEF Progress
      <4>2. Part(inbound'[s], Ahead(r, a)) /\ Ahead(r, a) + Len(inbound'[s]) = 3 * emitted'
        BY <2>4, <3>4, <4>1
      <4> QED
        BY <3>3, <4>2 DEF Part
    <3>6. \A z \in Sockets : link'[z] = "up" => z = s
      BY <1>3, <2>1, OneLink
    <3>7. Ahead(r, a)' <= 3 * emitted' /\ n \in 0..emitted'
      <4>1. Ahead(r, a) <= 3 * emitted
        BY <3>2 DEF Progress
      <4> QED
        BY <2>1, <3>3, <3>4, <4>1
    <3>8. tears' = tears
      BY <1>4 DEF Emit, bounds
    <3>9. Progress(r, n, a, lost)'
      BY <1>1, <3>2, <3>3, <3>5, <3>6, <3>7, <3>8 DEF Progress, InOrder, Part, Torn, parsing
    <3> QED
      BY <3>7, <3>9 DEF Reading
  <2> QED
    BY <1>2, <2>5, <2>6 DEF Stream
<1>5. CASE Fails(s)
  <2>1. /\ emitted' = emitted
        /\ \A z \in Sockets : link'[z] # "up"
    <3>1. ASSUME NEW z \in Sockets, link'[z] = "up" PROVE FALSE
      <4>1. z # s
        BY <1>5, <3>1 DEF Fails, LinkType
      <4>2. link[z] = "up"
        BY <1>5, <3>1, <4>1 DEF Fails, LinkType
      <4> QED
        BY <1>3, <4>1, <4>2, OneLink
    <3> QED
      BY <1>5, <3>1 DEF Fails
  <2>2. (\A r \in Receivers : pc'[r] = "off") => Unread'
    BY <1>1, <1>3, <2>1 DEF Stream, Unread
  <2>3. ASSUME NEW r \in Receivers, pc'[r] # "off"
        PROVE  \E n \in 0..emitted' : Reading(r, n)'
    <3>1. PICK n \in 0..emitted : Reading(r, n)
      BY <1>1, <2>3 DEF Stream
    <3>2. n \in Nat /\ tears' = tears
      BY <1>5 DEF LinkType, Fails, Fault
    <3> QED
      BY <1>1, <2>1, <3>1, <3>2, ReadingStays DEF parsing
  <2> QED
    BY <1>2, <2>2, <2>3 DEF Stream
<1> QED
  BY <1>4, <1>5

LEMMA StreamStep ==
  ASSUME TypeInv, TypeInv', StreamInv, [Next]_vars
  PROVE  StreamInv'
<1> SUFFICES ASSUME Calm' PROVE Stream'
  BY DEF StreamInv
<1>1. Calm /\ Stream
  BY CalmBefore DEF StreamInv
<1>2. CASE UNCHANGED vars
  <2>1. UNCHANGED <<sock, link, made, inbound, emitted, buffer, queue, pc, at, text, local, span, back, tears>>
    BY <1>2 DEF vars, net, parsing, sending, bounds
  <2>2. Alone'
    BY <1>1, <2>1 DEF Stream, Alone, Starting
  <2>3. (\A r \in Receivers : pc'[r] = "off") => Unread'
    BY <1>1, <2>1 DEF Stream, Unread, Part
  <2>4. ASSUME NEW r \in Receivers, pc'[r] # "off"
        PROVE  \E n \in 0..emitted' : Reading(r, n)'
    <3>1. PICK n \in 0..emitted : Reading(r, n)
      BY <1>1, <2>1, <2>4 DEF Stream
    <3>2. n \in Nat
      BY DEF TypeInv, LinkType
    <3> QED
      BY <2>1, <3>1, <3>2, ReadingStays
  <2> QED
    BY <2>2, <2>3, <2>4 DEF Stream
<1> QED
  BY <1>1, <1>2, StreamSending, StreamConnecting, StreamReceiving, StreamNet DEF Next

LEMMA InitStream == Init => StreamInv
<1> SUFFICES ASSUME Init PROVE Stream
  BY DEF StreamInv
<1>1. \A t \in Threads : pc[t] = (IF t = App THEN "dial" ELSE "off") /\ back[t] = "off"
  BY DEF Init
<1>2. Alone
  BY <1>1, Constants DEF Alone, Sends
<1>3. Unread
  BY DEF Init, Unread
<1> QED
  BY <1>1, <1>2, <1>3, Constants DEF Stream

\* A thread that waits for more of the stream is done with all there is of it.
LEMMA StreamIsFaithful == TypeInv /\ StreamInv => Faithful
<1> SUFFICES ASSUME TypeInv, StreamInv, made = 1
             PROVE  \E n \in 0..emitted : \E lost \in SUBSET (1..n) :
                      /\ Cardinality(lost) <= tears
                      /\ InOrder(queue, (Reports \cap 1..n) \ lost)
                      /\ \A r \in Receivers : Consumed(r) => n = emitted
  BY DEF Faithful
<1>1. Stream /\ tears \in Nat /\ emitted \in Nat
  BY DEF StreamInv, Calm, TypeInv, BoundType, LinkType
<1>2. CASE \A r \in Receivers : pc[r] = "off"
  <2>1. queue = <<>> /\ 0 \in 0..emitted
    BY <1>1, <1>2 DEF Stream, Unread
  <2>2. (Reports \cap 1..0) \ {} = {}
    OBVIOUS
  <2>3. InOrder(queue, (Reports \cap 1..0) \ {}) /\ Cardinality({}) <= tears
    BY <1>1, <2>1, <2>2, FS_EmptySet DEF InOrder
  <2>4. \A r \in Receivers : ~Consumed(r)
    BY <1>2 DEF Consumed
  <2> QED
    BY <2>1, <2>3, <2>4
<1>3. CASE \E r \in Receivers : pc[r] # "off"
  <2>1. PICK r \in Receivers : pc[r] # "off"
    BY <1>3
  <2>2. PICK n \in 0..emitted : Reading(r, n)
    BY <1>1, <2>1 DEF Stream
  <2>3. PICK a \in Nat, lost \in SUBSET (1..n) : Progress(r, n, a, lost)
    BY <2>2 DEF Reading
  <2>4. Cardinality(lost) <= tears
    <3>1. n \in Nat
      BY <1>1
    <3>2. Cardinality(lost) \in Nat /\ Torn(Ahead(r, a), n) \in {0, 1}
      BY <3>1, LostIsFinite DEF Torn
    <3> QED
      BY <1>1, <2>3, <3>2 DEF Progress
  <2>5. ASSUME NEW q \in Receivers, Consumed(q) PROVE n = emitted
    <3>1. q = r /\ pc[r] = "wait" /\ at[r] = sock /\ inbound[sock] = <<>> /\ link[sock] = "up"
      BY <1>1, <2>1, <2>5 DEF Consumed, Stream, Alone
    <3>2. sock \in Sockets /\ n \in Nat /\ Len(buffer) \in Nat
      <4>1. LinkType /\ r \in Threads /\ pc[r] \notin {"off", "dial"}
        BY <3>1, Constants DEF TypeInv
      <4>2. sock \in Sockets
        BY <4>1, ASocketIsMade
      <4> QED
        BY <1>1, <4>2 DEF TypeInv, ParseType
    <3>3. /\ Len(buffer) = 0 \/ a + Len(buffer) = 3 * n + 2
          /\ a <= 3 * n /\ 3 * n <= a + 2
      BY <2>3, <3>1 DEF Progress
    <3>4. Ahead(r, a) = a + Len(buffer) + 0
      BY <3>1 DEF Ahead
    <3>5. Ahead(r, a) + 0 = 3 * emitted
      BY <2>3, <3>1, <3>2 DEF Progress
    <3> QED
      BY <1>1, <2>2, <3>2, <3>3, <3>4, <3>5
  <2> QED
    BY <2>3, <2>4, <2>5 DEF Progress
<1> QED
  BY <1>2, <1>3

\* On one connection each execution report is queued once and in the order of
\* the exchange, wherever recv cuts the stream and whatever else is sent, fails
\* or happens between two steps of the receive thread, but for at most one
\* message for each recv that ends inside a tag; and the thread waits only when
\* it is done with all there is (receive_orders, process_buffer,
\* handle_message).
THEOREM ReportsComeInOrder == Spec => []Faithful
<1>1. IInv /\ TypeInv /\ StreamInv /\ [Next]_vars => (IInv /\ TypeInv /\ StreamInv)'
  BY InvStep, TypeStep, StreamStep DEF IInv
<1> QED
  BY <1>1, InitInv, InitType, InitStream, StreamIsFaithful, PTL DEF Spec
=============================================================================
