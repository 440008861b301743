----------------------- MODULE DurableSubscriberProofs -------------------------
(***************************************************************************)
(* That counting is enough to know the position: what a durable subscriber *)
(* keeps true over any number of crashes, for every backend, any number of *)
(* messages an int can count and every bound.                              *)
(***************************************************************************)
EXTENDS DurableSubscriber, SubscriberProofs, FiniteSetTheorems

-----------------------------------------------------------------------------
(* The inductive invariant, as long as the history is exact *)

Stored == Cardinality(Rows)

\* What the subscriber has accepted and not handed out is what comes next, without a gap.
Positions ==
    /\ sub_sequence_number = loaded + Len(delivered) + Len(message_envelopes)
    /\ sub_sequence_number <= Len(MessageIds)
    /\ \A i \in DOMAIN message_envelopes :
           message_envelopes[i] = Message(loaded + Len(delivered) + i)

\* A request asks for what follows the position, and an answer goes on from there.
AsksForNext ==
    /\ sub_pc \in {"connect", "send", "await"} =>
           \/ request.start_sequence_number = sub_sequence_number + 1
           \/ request.start_sequence_number = 0 /\ sub_sequence_number = 0
    /\ sub_pc = "apply" =>
           \A i \in DOMAIN missed :
               /\ sub_sequence_number + i \in Messages
               /\ missed[i] = Message(sub_sequence_number + i)

\* An envelope on its way to the table as row n, or there, is message n.
Holds(envelope, n) ==
    /\ n \in Messages
    /\ envelope.id = MessageIds[n]
    /\ backend = "LMDB" => envelope.sequence_number = n

\* The rows are numbered without a gap; the one being written and those queued go on
\* from there; and all of them together are what the object has counted.
Tabled ==
    /\ Stored \in Nat
    /\ Rows = 1 .. Stored
    /\ backend = "POSTGRESQL" => serial = Stored
    /\ backend \notin {"POSTGRESQL", "LMDB", "NULL_DB"} => Stored = 0
    /\ writing \in Seq(Sendable) /\ Len(writing) <= 1
    /\ store_message_envelope_queue \in Seq(Sendable)
    /\ store_sequence_number = Stored + Len(writing) + Len(store_message_envelope_queue)
    /\ \A n \in Rows : Holds(db[n], n)
    /\ writing # <<>> => Holds(writing[1], Stored + 1)
    /\ \A i \in DOMAIN store_message_envelope_queue :
           Holds(store_message_envelope_queue[i], Stored + Len(writing) + i)

\* The object's count is the number of the last message handed out, or being handed out.
Handed ==
    /\ store_sequence_number = loaded + Len(delivered)
    /\ \/ handing = <<>>
       \/ /\ Len(handing) = 1
          /\ Len(delivered) > 0
          /\ handing[1].sequence_number = store_sequence_number

\* The messages up to the last one returned that no life has returned.
Lost == (1 .. (store_sequence_number - Len(handing))) \ returned

Losses == crashes \in Nat /\ Cardinality(Lost) <= crashes

DurableInv == exact => SubTypeOK /\ Positions /\ AsksForNext /\ Tabled /\ Handed /\ Losses

-----------------------------------------------------------------------------
(* Messages *)

\* A message is one a publisher may send, and its number fits an int.
LEMMA MessageType ==
    ASSUME NEW n \in Messages
    PROVE  /\ Message(n) \in Sendable
           /\ Message(n).sequence_number = n /\ Message(n).id = MessageIds[n]
           /\ Len(MessageIds) <= IntMax => Transmitted(Message(n)) = Message(n)
<1>1. /\ n \in Nat /\ 1 <= n /\ n <= Len(MessageIds)
      /\ Len(MessageIds) \in Nat /\ MessageIds[n] \in Ids
  BY DurableAssumption DEF Messages
<1>2. (CHOOSE topic \in Topics : TRUE) \in Topics
  BY DurableAssumption
<1>3. Message(n) \in Sendable
  BY <1>1, <1>2 DEF Message, Sendable
<1>4. Message(n).sequence_number = n /\ Message(n).id = MessageIds[n]
  BY DEF Message
<1>5. ASSUME Len(MessageIds) <= IntMax PROVE Transmitted(Message(n)) = Message(n)
  <2>1. ValueInt(n) = n
    BY <1>1, <1>5, NumbersAssumption DEF ValueInt
  <2> QED
    BY <2>1 DEF Transmitted, Message
<1> QED
  BY <1>3, <1>4, <1>5

\* An answer goes on from the number asked for, message by message.
LEMMA AnswerHolds ==
    ASSUME NEW asked \in RecoveryRequest, NEW reply \in Answers(asked), NEW first \in Nat,
           first = IF asked.start_sequence_number = 0 THEN 1 ELSE asked.start_sequence_number
    PROVE  /\ reply \in Seq(Sendable)
           /\ \A i \in DOMAIN reply :
                  first + i - 1 \in Messages /\ reply[i] = Message(first + i - 1)
<1>1. first >= 1
  BY DEF RecoveryRequest
<1>2. PICK n \in 0 .. Len(MessageIds) :
          /\ first + n - 1 <= Len(MessageIds)
          /\ reply = [i \in 1 .. n |-> Message(first + i - 1)]
  BY DEF Answers
<1>3. Len(MessageIds) \in Nat /\ Messages = 1 .. Len(MessageIds)
  BY DurableAssumption DEF Messages
<1>4. \A i \in 1 .. n : first + i - 1 \in Messages
  BY <1>1, <1>2, <1>3
<1>5. \A i \in 1 .. n : Message(first + i - 1) \in Sendable
  BY <1>4, MessageType
<1>6. n \in Nat
  BY <1>2, <1>3
<1> QED
  BY <1>2, <1>4, <1>5, <1>6

-----------------------------------------------------------------------------
(* Types *)

\* The subscriber's own steps are steps against an open network.
LEMMA ReceivingIsOpen ==
    ASSUME SubTypeOK, ReceivingThread
    PROVE  OpenNext
<1>1. ASSUME NEW n \in Messages, Receive(Message(n))
      PROVE  \E envelope \in Sendable : Receive(envelope)
  BY <1>1, MessageType
<1>2. ASSUME NEW reply \in Answers(request), ReceiveResponse(reply)
      PROVE  \E answer \in Seq(Sendable) : ReceiveResponse(answer)
  <2>1. request \in RecoveryRequest
    BY DEF SubTypeOK
  <2>2. (IF request.start_sequence_number = 0 THEN 1 ELSE request.start_sequence_number) \in Nat
    BY <2>1 DEF RecoveryRequest
  <2>3. reply \in Seq(Sendable)
    BY <2>1, <2>2, AnswerHolds
  <2> QED
    BY <1>2, <2>3
<1> QED
  BY <1>1, <1>2 DEF ReceivingThread, OpenNext

\* A new life begins with the types right.
LEMMA RestartTypes ==
    ASSUME SubRestart, loaded' \in Nat
    PROVE  SubTypeOK'
<1>1. message_envelopes' = <<>> /\ delivered' = <<>> /\ missed' = <<>>
  BY DEF SubRestart
<1>2. /\ message_envelopes' \in Seq(Received)
      /\ delivered' \in Seq(Received)
      /\ missed' \in Seq(Received)
  BY <1>1
<1>3. request' \in RecoveryRequest
  BY DEF SubRestart, NoRequest, RecoveryRequest
<1>4. sleeping' \in Nat /\ tripped' \in Nat /\ clearing' \in Nat
  BY DEF SubRestart
<1> QED
  BY <1>2, <1>3, <1>4 DEF SubRestart, SubTypeOK, SubPoints

LEMMA DurableTypes ==
    ASSUME SubTypeOK, [DurableNext]_durableVars, SubRestart => loaded' \in Nat
    PROVE  SubTypeOK'
<1>1. CASE ReceivingThread
  BY <1>1, ReceivingIsOpen, TypeStep
<1>2. CASE PollStores
  BY <1>2, TypeStep DEF PollStores, OpenNext
<1>3. CASE SubRestart
  BY <1>3, RestartTypes
<1>4. CASE PollReturns \/ StoringThread \/ UNCHANGED durableVars
  <2>1. UNCHANGED subVars
    BY <1>4 DEF PollReturns, StoringThread, durableVars
  <2> QED
    BY <2>1, TypeStep
<1> QED
  BY <1>1, <1>2, <1>3, <1>4 DEF DurableNext

-----------------------------------------------------------------------------
(* The position *)

\* Accepting the message after the position keeps the queue without a gap.
LEMMA NextAccepted ==
    ASSUME SubTypeOK, Positions, NEW n \in Messages, n = sub_sequence_number + 1,
           Message(n) \in Received, Accept(Message(n))
    PROVE  Positions' /\ sub_sequence_number' = n
<1> DEFINE q == message_envelopes
<1>1. q \in Seq(Received) /\ q' = Append(q, Message(n))
  BY DEF SubTypeOK, Accept
<1>2. /\ DOMAIN q' = 1 .. (Len(q) + 1) /\ DOMAIN q = 1 .. Len(q) /\ Len(q) \in Nat
      /\ q'[Len(q) + 1] = Message(n)
      /\ \A i \in DOMAIN q : q'[i] = q[i]
  BY <1>1, AppendEntries
<1>3. Len(q') = Len(q) + 1
  BY <1>1
<1>4. /\ sub_sequence_number' = n /\ delivered' = delivered /\ loaded' = loaded
  BY MessageType DEF Accept
<1>5. /\ sub_sequence_number \in Nat /\ loaded \in Nat /\ Len(delivered) \in Nat
      /\ n <= Len(MessageIds) /\ n = loaded + Len(delivered) + (Len(q) + 1)
  BY <1>2, DurableAssumption DEF SubTypeOK, Positions, Messages
<1>6. \A i \in DOMAIN q' : i \in DOMAIN q \/ i = Len(q) + 1
  BY <1>2
<1>7. \A i \in DOMAIN q' : q'[i] = Message(loaded + Len(delivered) + i)
  <2> SUFFICES ASSUME NEW i \in DOMAIN q' PROVE q'[i] = Message(loaded + Len(delivered) + i)
    OBVIOUS
  <2>1. CASE i \in DOMAIN q
    BY <1>2, <2>1 DEF Positions
  <2>2. CASE i = Len(q) + 1
    BY <1>2, <1>5, <2>2
  <2> QED
    BY <1>6, <2>1, <2>2
<1>8. sub_sequence_number' = loaded' + Len(delivered') + Len(q')
  BY <1>3, <1>4, <1>5
<1> QED
  BY <1>4, <1>5, <1>7, <1>8 DEF Positions

\* Handing out the first message of the queue does too, and it is the one after those
\* handed out before.
LEMMA NextHandedOut ==
    ASSUME SubTypeOK, Positions, Poll
    PROVE  /\ Positions'
           /\ loaded + Len(delivered) + 1 \in Messages
           /\ Head(message_envelopes) = Message(loaded + Len(delivered) + 1)
           /\ Len(delivered') = Len(delivered) + 1
<1> DEFINE q == message_envelopes
           d == delivered
<1>1. q \in Seq(Received) /\ d \in Seq(Received) /\ q # <<>> /\ Head(q) \in Received
  BY DEF SubTypeOK, Poll
<1>2. /\ d' = Append(d, Head(q)) /\ q' = Tail(q)
      /\ loaded' = loaded /\ sub_sequence_number' = sub_sequence_number
  BY DEF Poll
<1>3. /\ 1 \in DOMAIN q /\ Head(q) = q[1]
      /\ \A j \in DOMAIN q' : j \in Nat /\ j >= 1 /\ j + 1 \in DOMAIN q /\ q'[j] = q[j + 1]
  BY <1>1, <1>2, TailEntries
<1>4. /\ Len(d') = Len(d) + 1 /\ Len(q') = Len(q) - 1
      /\ Len(d) \in Nat /\ Len(q) \in Nat /\ Len(q) >= 1
  BY <1>1, <1>2
<1>5. loaded \in Nat /\ sub_sequence_number \in Nat
  BY DEF SubTypeOK
<1>6. ASSUME NEW j \in DOMAIN q' PROVE q'[j] = Message(loaded' + Len(d') + j)
  <2>1. loaded + Len(d) + (j + 1) = loaded' + Len(d') + j
    BY <1>2, <1>3, <1>4, <1>5
  <2> QED
    BY <1>3, <2>1 DEF Positions
<1>7. sub_sequence_number' = loaded' + Len(d') + Len(q')
  <2>1. sub_sequence_number = loaded + Len(d) + Len(q)
    BY DEF Positions
  <2>2. loaded + (Len(d) + 1) + (Len(q) - 1) = loaded + Len(d) + Len(q)
    BY <1>4, <1>5
  <2> HIDE DEF d, q
  <2> QED
    BY <1>2, <1>4, <2>1, <2>2
<1>8. loaded + Len(d) + 1 <= Len(MessageIds)
  BY <1>4, <1>5, DurableAssumption DEF Positions
<1>9. loaded + Len(d) + 1 \in Messages
  BY <1>4, <1>5, <1>8, DurableAssumption DEF Messages
<1>10. Head(q) = Message(loaded + Len(d) + 1)
  BY <1>3 DEF Positions
<1> QED
  BY <1>2, <1>4, <1>6, <1>7, <1>9, <1>10 DEF Positions

\* What a step that leaves the log alone keeps of the two.
LEMMA PositionsUnchanged ==
    ASSUME Positions, UNCHANGED logVars
    PROVE  Positions'
  BY DEF Positions, logVars

LEMMA AsksUnchanged ==
    ASSUME AsksForNext, UNCHANGED <<sub_sequence_number, request, missed>>,
           \/ sub_pc' = sub_pc
           \/ sub_pc \in {"connect", "send"} /\ sub_pc' \in {"connect", "send", "await"}
           \/ sub_pc' \notin {"connect", "send", "await", "apply"}
    PROVE  AsksForNext'
  BY DEF AsksForNext

\* A recovery begun at the next number asks for it; startup's asks for everything or
\* for nothing.
LEMMA RecoveryAsks ==
    ASSUME SubTypeOK, NEW start \in Nat, NEW end \in Nat, DoRecovery(start, end),
           \/ start = sub_sequence_number + 1
           \/ start = sub_sequence_number /\ end = 0,
           sub_sequence_number' = sub_sequence_number
    PROVE  AsksForNext'
<1>1. CASE sub_pc' = "receive"
  BY <1>1 DEF AsksForNext
<1>2. CASE sub_pc' = "connect"
  <2>1. start <= end /\ request'.start_sequence_number = start
    BY <1>2 DEF DoRecovery, RecoverySuppressed, RecoveryBegins
  <2>2. sub_sequence_number \in Nat
    BY DEF SubTypeOK
  <2> QED
    BY <1>2, <2>1, <2>2 DEF AsksForNext
<1> QED
  BY <1>1, <1>2 DEF DoRecovery, RecoverySuppressed, RecoveryBegins

\* Every step of the receiving side goes on from the position.
LEMMA ReceivingKeepsPosition ==
    ASSUME SubTypeOK, Positions, AsksForNext, ReceivingThread, Len(MessageIds) <= IntMax
    PROVE  Positions' /\ AsksForNext'
<1>0. sub_sequence_number \in Nat /\ Len(MessageIds) \in Nat /\ Messages = 1 .. Len(MessageIds)
  BY DurableAssumption DEF SubTypeOK, Messages
<1>1. CASE Startup
  BY <1>0, <1>1, RecoveryAsks, PositionsUnchanged DEF Startup, logVars
<1>2. ASSUME NEW n \in Messages, Receive(Message(n))
      PROVE  Positions' /\ AsksForNext'
  <2>1. Transmitted(Message(n)) = Message(n) /\ Message(n).sequence_number = n /\ n \in Nat
    BY <1>0, MessageType
  <2>2. CASE ReceiveAhead(Message(n))
    <3>1. DoRecovery(sub_sequence_number + 1, n)
      BY <2>1, <2>2 DEF ReceiveAhead, FirstMissing
    <3>2. UNCHANGED logVars /\ sub_sequence_number + 1 \in Nat
      BY <1>0, <2>2 DEF ReceiveAhead
    <3>3. AsksForNext'
      BY <1>0, <2>1, <3>1, <3>2, RecoveryAsks DEF logVars
    <3> QED
      BY <3>2, <3>3, PositionsUnchanged
  <2>3. CASE ReceiveOld(Message(n))
    BY <2>3, PositionsUnchanged, AsksUnchanged DEF ReceiveOld, subVars, logVars, recoveryVars
  <2>4. CASE ReceiveNext(Message(n))
    <3>1. n = sub_sequence_number + 1 /\ Accept(Message(n)) /\ sub_pc' = "receive"
      BY <2>1, <2>4 DEF ReceiveNext
    <3>2. Message(n) \in Received
      BY <2>1, MessageType, TransmittedType
    <3> QED
      BY <3>1, <3>2, NextAccepted DEF AsksForNext
  <2> QED
    BY <1>2, <2>2, <2>3, <2>4 DEF Receive
<1>3. ASSUME NEW reply \in Answers(request), ReceiveResponse(reply)
      PROVE  Positions' /\ AsksForNext'
  <2> DEFINE first == sub_sequence_number + 1
  <2>1. /\ request \in RecoveryRequest /\ first \in Nat
        /\ first = IF request.start_sequence_number = 0 THEN 1 ELSE request.start_sequence_number
    BY <1>0, <1>3 DEF SubTypeOK, ReceiveResponse, AsksForNext
  <2>2. /\ reply \in Seq(Sendable)
        /\ \A i \in DOMAIN reply : first + i - 1 \in Messages /\ reply[i] = Message(first + i - 1)
    BY <2>1, AnswerHolds
  <2>3. /\ missed' = TransmittedList(reply) /\ UNCHANGED logVars /\ sub_pc' = "apply"
    BY <1>3 DEF ReceiveResponse
  <2>4. DOMAIN missed' = DOMAIN reply /\ \A i \in DOMAIN reply : i \in Nat
    BY <2>2, <2>3 DEF TransmittedList
  <2>5. ASSUME NEW i \in DOMAIN missed'
        PROVE  /\ sub_sequence_number + i \in Messages
               /\ missed'[i] = Message(sub_sequence_number + i)
    <3>1. first + i - 1 = sub_sequence_number + i
      BY <1>0, <2>4
    <3>2. missed'[i] = Transmitted(reply[i])
      BY <2>3, <2>4 DEF TransmittedList
    <3> QED
      BY <2>2, <2>4, <3>1, <3>2, MessageType
  <2>6. AsksForNext'
    BY <2>3, <2>5 DEF AsksForNext, logVars
  <2> QED
    BY <2>3, <2>6, PositionsUnchanged
<1>4. CASE ApplyMissed
  <2> DEFINE m == missed
             n == sub_sequence_number + 1
  <2>1. /\ m \in Seq(Received) /\ m # <<>> /\ m' = Tail(m)
        /\ sub_pc = "apply" /\ sub_pc' = "apply" /\ Head(m) \in Received
    BY <1>4 DEF ApplyMissed, SubTypeOK
  <2>2. /\ 1 \in DOMAIN m /\ Head(m) = m[1]
        /\ \A j \in DOMAIN m' : j \in Nat /\ j >= 1 /\ j + 1 \in DOMAIN m /\ m'[j] = m[j + 1]
    BY <2>1, TailEntries
  <2>3. n \in Messages /\ Head(m) = Message(n)
    BY <2>1, <2>2 DEF AsksForNext
  <2>4. Head(m).sequence_number = n
    BY <2>3, MessageType
  <2>5. Accept(Message(n))
    BY <1>0, <1>4, <2>3, <2>4 DEF ApplyMissed, IsMissed
  <2>6. Positions' /\ sub_sequence_number' = n
    BY <2>1, <2>3, <2>5, NextAccepted
  <2>7. ASSUME NEW j \in DOMAIN m'
        PROVE  /\ sub_sequence_number' + j \in Messages
               /\ m'[j] = Message(sub_sequence_number' + j)
    <3>1. sub_sequence_number' + j = sub_sequence_number + (j + 1)
      BY <1>0, <2>2, <2>6
    <3> QED
      BY <2>1, <2>2, <3>1 DEF AsksForNext
  <2> QED
    BY <2>1, <2>6, <2>7 DEF AsksForNext
<1>5. CASE \/ ConnectReq \/ SendRequest \/ MissedApplied \/ FinishRecovery \/ RecoveryError
           \/ ReceiveError \/ SubConnect \/ TimerStep
  <2>1. UNCHANGED logVars /\ UNCHANGED <<request, missed>>
    BY <1>5 DEF ConnectReq, SendRequest, MissedApplied, FinishRecovery, RecoveryError,
                ReceiveError, SubConnect, TimerStep, TimerWakes, TimerClears, TimerDisconnects,
                recoveryVars
  <2>2. \/ sub_pc' = sub_pc
        \/ sub_pc \in {"connect", "send"} /\ sub_pc' \in {"connect", "send", "await"}
        \/ sub_pc' \notin {"connect", "send", "await", "apply"}
    BY <1>5 DEF ConnectReq, SendRequest, MissedApplied, FinishRecovery, RecoveryError, ErrorExit,
                ReceiveError, SubConnect, TimerStep, TimerWakes, TimerClears, TimerDisconnects
  <2> QED
    BY <2>1, <2>2, PositionsUnchanged, AsksUnchanged DEF logVars
<1> QED
  BY <1>1, <1>2, <1>3, <1>4, <1>5 DEF ReceivingThread, RecoveryStep

-----------------------------------------------------------------------------
(* The table *)

\* One more row at the end.
LEMMA RowAdded ==
    ASSUME Stored \in Nat, Rows = 1 .. Stored, NEW row, db' = Put(db, Stored + 1, row)
    PROVE  /\ Stored' = Stored + 1
           /\ Rows' = 1 .. Stored + 1
           /\ db'[Stored + 1] = row
           /\ \A n \in Rows : db'[n] = db[n]
<1>1. Rows' = Rows \cup {Stored + 1}
  BY DEF Put, Rows
<1>2. Rows' = 1 .. Stored + 1
  BY <1>1
<1>3. Cardinality(1 .. Stored + 1) = Stored + 1
  BY FS_Interval
<1>4. Stored' = Stored + 1
  BY <1>2, <1>3 DEF Stored
<1>5. /\ db'[Stored + 1] = row
      /\ \A n \in Rows : n # Stored + 1 => db'[n] = db[n]
  BY DEF Put, Rows
<1>6. \A n \in Rows : n # Stored + 1
  OBVIOUS
<1> QED
  BY <1>2, <1>4, <1>5, <1>6

\* What the constructor loads from such a table is how many rows it has; an object that
\* keeps no table starts from nothing.
LEMMA LoadsCount ==
    ASSUME Tabled
    PROVE  LoadSequenceNumber = IF backend \in {"POSTGRESQL", "LMDB"} THEN Stored ELSE 0
<1>1. CASE backend = "POSTGRESQL"
  <2>1. Stored \in Nat /\ Rows = 1 .. Stored
    BY DEF Tabled
  <2> DEFINE Bounds(n) == n \in Rows \cup {0} /\ \A k \in Rows : k <= n
  <2>2. Bounds(Stored)
    BY <2>1
  <2>3. \A n : Bounds(n) => n = Stored
    <3> SUFFICES ASSUME NEW n, Bounds(n) PROVE n = Stored
      OBVIOUS
    <3>1. n \in 0 .. Stored
      BY <2>1
    <3>2. Stored > 0 => Stored <= n
      BY <2>1
    <3> QED
      BY <2>1, <3>1, <3>2
  <2>4. Largest(Rows) = CHOOSE n : Bounds(n)
    BY DEF Largest
  <2> HIDE DEF Bounds
  <2>5. Bounds(CHOOSE n : Bounds(n))
    BY <2>2
  <2>6. Largest(Rows) = Stored
    BY <2>3, <2>4, <2>5
  <2> QED
    BY <1>1, <2>6 DEF LoadSequenceNumber
<1>2. CASE backend # "POSTGRESQL"
  BY <1>2 DEF LoadSequenceNumber, Stored
<1> QED
  BY <1>1, <1>2

\* The message after all those counted joins the queue.
LEMMA QueueKeepsTable ==
    ASSUME Tabled, NEW n \in Messages, n = store_sequence_number + 1,
           StoreMessageEnvelope(Message(n))
    PROVE  Tabled'
<1> DEFINE q == store_message_envelope_queue
           e == Queued(Message(n))
<1>1. /\ e \in Sendable /\ e.id = MessageIds[n] /\ (backend = "LMDB" => e.sequence_number = n)
  <2>1. Message(n) \in Sendable /\ Message(n).id = MessageIds[n]
    BY MessageType
  <2>2. n \in Nat
    BY DurableAssumption DEF Messages
  <2>3. CASE backend = "LMDB"
    <3>1. e = [Message(n) EXCEPT !.sequence_number = n]
      BY <2>3 DEF Queued
    <3> QED
      BY <2>1, <2>2, <3>1 DEF Sendable
  <2>4. CASE backend # "LMDB"
    BY <2>1, <2>4 DEF Queued
  <2> QED
    BY <2>3, <2>4
<1>2. /\ q' = Append(q, e) /\ store_sequence_number' = store_sequence_number + 1
      /\ writing' = writing /\ db' = db /\ serial' = serial /\ backend' = backend
  BY DEF StoreMessageEnvelope, CountStored, objectVars, tableVars
<1>3. /\ q' \in Seq(Sendable) /\ Len(q') = Len(q) + 1 /\ DOMAIN q' = 1 .. Len(q) + 1
      /\ \A i \in 1 .. Len(q) : q'[i] = q[i]
      /\ q'[Len(q) + 1] = e
  <2>1. q \in Seq(Sendable)
    BY DEF Tabled
  <2> HIDE DEF e
  <2>2. q' \in Seq(Sendable)
    BY <1>1, <1>2, <2>1
  <2> QED
    BY <1>1, <1>2, <2>1, <2>2, AppendProperties
<1>4. /\ Stored \in Nat /\ Len(writing) \in Nat /\ Len(q) \in Nat /\ DOMAIN q = 1 .. Len(q)
      /\ store_sequence_number = Stored + Len(writing) + Len(q)
  BY DEF Tabled
<1>5. Stored' = Stored /\ Rows' = Rows
  BY <1>2 DEF Stored, Rows
<1>6. \A i \in DOMAIN q' : Holds(q[i], Stored + Len(writing) + i)'
  <2> SUFFICES ASSUME NEW i \in DOMAIN q'
               PROVE  Holds(q'[i], Stored + Len(writing) + i)
    BY <1>2, <1>5 DEF Holds
  <2>1. CASE i \in 1 .. Len(q)
    BY <1>3, <1>4, <2>1 DEF Tabled
  <2>2. CASE i = Len(q) + 1
    <3>1. Stored + Len(writing) + i = n
      BY <1>4, <2>2
    <3> QED
      BY <1>1, <1>3, <2>2, <3>1 DEF Holds
  <2> QED
    BY <1>3, <1>4, <2>1, <2>2
<1>7. store_sequence_number' = Stored' + Len(writing') + Len(q')
  BY <1>2, <1>3, <1>4, <1>5
<1> HIDE DEF q
<1> QED
  BY <1>2, <1>3, <1>5, <1>6, <1>7 DEF Tabled, Holds, q

\* The thread takes the first queued and has it in hand as the next row.
LEMMA PopKeepsTable ==
    ASSUME Tabled, PopStored
    PROVE  Tabled'
<1> DEFINE q == store_message_envelope_queue
<1>1. /\ writing = <<>> /\ writing' = <<Head(q)>> /\ q' = Tail(q) /\ q # <<>>
      /\ q \in Seq(Sendable)
      /\ store_sequence_number' = store_sequence_number /\ db' = db /\ serial' = serial
      /\ backend' = backend
  BY DEF PopStored, ThreadFree, objectVars, tableVars, Tabled
<1>2. /\ Head(q) \in Sendable /\ Tail(q) \in Seq(Sendable) /\ Len(Tail(q)) = Len(q) - 1
      /\ \A i \in 1 .. Len(Tail(q)) : Tail(q)[i] = q[i + 1]
  BY <1>1, HeadTailProperties
<1>3. /\ Stored \in Nat /\ Len(q) \in Nat /\ Len(q) >= 1 /\ DOMAIN q = 1 .. Len(q)
      /\ Head(q) = q[1] /\ DOMAIN Tail(q) = 1 .. Len(q) - 1
  BY <1>1, <1>2 DEF Tabled
<1>4. Stored' = Stored /\ Rows' = Rows
  BY <1>1 DEF Stored, Rows
<1>5. writing' \in Seq(Sendable) /\ Len(writing') = 1 /\ writing'[1] = Head(q) /\ Len(writing) = 0
  BY <1>1, <1>2
<1>6. \A i \in DOMAIN q : Holds(q[i], Stored + i)
  BY <1>3, <1>5 DEF Tabled
<1>7. Holds(writing'[1], Stored + 1)
  BY <1>3, <1>5, <1>6
<1>8. ASSUME NEW i \in DOMAIN Tail(q) PROVE Holds(Tail(q)[i], Stored + 1 + i)
  <2>1. i + 1 \in DOMAIN q /\ Tail(q)[i] = q[i + 1] /\ Stored + (i + 1) = Stored + 1 + i
    BY <1>2, <1>3
  <2> QED
    BY <1>6, <2>1
<1>9. store_sequence_number' = Stored' + Len(writing') + Len(q')
  <2>1. store_sequence_number = Stored + Len(writing) + Len(q)
    BY DEF Tabled
  <2> HIDE DEF q
  <2> QED
    BY <1>1, <1>2, <1>3, <1>4, <1>5, <2>1
<1> HIDE DEF q
<1> QED
  BY <1>1, <1>2, <1>4, <1>5, <1>7, <1>8, <1>9 DEF Tabled, Holds, q

\* The row in hand is written after the last.
LEMMA WriteKeepsTable ==
    ASSUME Tabled, WriteRow
    PROVE  Tabled'
<1> DEFINE q == store_message_envelope_queue
           e == writing[1]
<1>1. /\ writing # <<>> /\ writing' = <<>> /\ q' = q
      /\ store_sequence_number' = store_sequence_number /\ backend' = backend
  BY DEF WriteRow, objectVars
<1>2. /\ Stored \in Nat /\ Rows = 1 .. Stored /\ Len(writing) = 1 /\ Len(writing') = 0
      /\ e \in Sendable /\ Len(q) \in Nat
      /\ writing' \in Seq(Sendable)
  <2>1. writing \in Seq(Sendable) /\ Len(writing) <= 1 /\ q \in Seq(Sendable)
    BY DEF Tabled
  <2>2. Len(writing) \in Nat /\ Len(writing) # 0
    BY <1>1, <2>1
  <2>3. Len(writing) = 1 /\ e \in Sendable
    <3>1. \A k \in Nat : k <= 1 /\ k # 0 => k = 1
      OBVIOUS
    <3>2. Len(writing) = 1
      BY <2>1, <2>2, <3>1
    <3> QED
      BY <2>1, <3>2
  <2>4. Len(writing') = 0 /\ writing' \in Seq(Sendable) /\ Len(q) \in Nat
    BY <1>1, <2>1
  <2> QED
    BY <2>3, <2>4 DEF Tabled
<1>3. Holds(e, Stored + 1)
  BY <1>1 DEF Tabled
<1>4. PICK row : /\ db' = Put(db, Stored + 1, row)
                 /\ row.id = e.id
                 /\ backend = "LMDB" => row.sequence_number = e.sequence_number
                 /\ backend = "POSTGRESQL" => serial' = Stored + 1
                 /\ backend \in {"POSTGRESQL", "LMDB", "NULL_DB"}
  <2>1. CASE backend = "POSTGRESQL"
    <3> DEFINE row == [e EXCEPT !.sequence_number = serial']
    <3>1. serial' = Stored + 1 /\ db' = Put(db, Stored + 1, row)
      BY <2>1 DEF WriteRow, Tabled
    <3>2. row.id = e.id
      BY <1>2 DEF Sendable
    <3> QED
      BY <2>1, <3>1, <3>2
  <2>2. CASE backend = "LMDB"
    BY <1>3, <2>2 DEF WriteRow, Holds
  <2>3. CASE backend = "NULL_DB"
    BY <2>3 DEF WriteRow, Stored
  <2> QED
    BY <2>1, <2>2, <2>3 DEF WriteRow
<1>5. /\ Stored' = Stored + 1
      /\ Rows' = 1 .. Stored + 1
      /\ db'[Stored + 1] = row
      /\ \A n \in Rows : db'[n] = db[n]
  BY <1>2, <1>4, RowAdded
<1>6. ASSUME NEW n \in Rows' PROVE Holds(db'[n], n)
  <2>1. CASE n \in Rows
    BY <1>5, <2>1 DEF Tabled
  <2>2. CASE n = Stored + 1
    BY <1>3, <1>4, <1>5, <2>2 DEF Holds
  <2> QED
    BY <1>2, <1>5, <2>1, <2>2
<1>7. \A i \in DOMAIN q : Holds(q[i], Stored + 1 + i)
  BY <1>2 DEF Tabled
<1>8. Stored + 1 + Len(writing') + Len(q) = Stored + Len(writing) + Len(q)
  BY <1>2
<1>9. \A i \in DOMAIN q : Stored + 1 + Len(writing') + i = Stored + 1 + i
  <2>1. \A i \in DOMAIN q : i \in Nat
    BY DEF Tabled
  <2> QED
    BY <1>2, <2>1
<1>10. store_sequence_number = Stored + Len(writing) + Len(q) /\ q \in Seq(Sendable)
  BY DEF Tabled
<1>11. \A n \in Rows' : Holds(db[n], n)'
  BY <1>1, <1>6 DEF Holds
<1>12. \A i \in DOMAIN q' : Holds(q[i], Stored + Len(writing) + i)'
  BY <1>1, <1>5, <1>7, <1>9 DEF Holds
<1> HIDE DEF q
<1> QED
  BY <1>1, <1>2, <1>4, <1>5, <1>8, <1>10, <1>11, <1>12 DEF Tabled, q

-----------------------------------------------------------------------------
(* What is handed out, and what a crash costs *)

LEMMA LossesFinite ==
    ASSUME SubTypeOK, Handed
    PROVE  /\ store_sequence_number \in Nat
           /\ Len(handing) \in 0 .. 1
           /\ Len(handing) <= store_sequence_number
           /\ loaded <= store_sequence_number - Len(handing)
           /\ IsFiniteSet(Lost) /\ Cardinality(Lost) \in Nat
<1>1. loaded \in Nat /\ Len(delivered) \in Nat
  BY DEF SubTypeOK
<1>2. store_sequence_number = loaded + Len(delivered)
  BY DEF Handed
<1>3. \/ Len(handing) = 0
      \/ Len(handing) = 1 /\ Len(delivered) > 0
  BY DEF Handed
<1>4. /\ store_sequence_number \in Nat /\ Len(handing) \in 0 .. 1
      /\ Len(handing) <= store_sequence_number
      /\ loaded <= store_sequence_number - Len(handing)
  <2>1. \A l, d \in Nat :
            /\ l + d \in Nat
            /\ l <= l + d - 0
            /\ d > 0 => l <= l + d - 1 /\ 1 <= l + d
    OBVIOUS
  <2>2. CASE Len(handing) = 0
    BY <1>1, <1>2, <2>1, <2>2
  <2>3. CASE Len(handing) = 1 /\ Len(delivered) > 0
    BY <1>1, <1>2, <2>1, <2>3
  <2> QED
    BY <1>3, <2>2, <2>3
<1>5. IsFiniteSet(1 .. (store_sequence_number - Len(handing)))
  BY <1>4, FS_Interval
<1>6. IsFiniteSet(Lost)
  BY <1>5, FS_Subset DEF Lost
<1> QED
  BY <1>4, <1>6, FS_CardinalityType

\* Popping and storing moves the count on, and the message is handed out and not yet
\* returned.
LEMMA StoringHands ==
    ASSUME SubTypeOK, Positions, Handed, Losses, PollStores
    PROVE  Handed' /\ Losses'
<1> DEFINE n == loaded + Len(delivered) + 1
<1>1. /\ n \in Messages /\ Head(message_envelopes) = Message(n)
      /\ Len(delivered') = Len(delivered) + 1 /\ loaded' = loaded
  BY NextHandedOut DEF PollStores, Poll
<1>2. loaded \in Nat /\ Len(delivered) \in Nat
  BY DEF SubTypeOK
<1>3. /\ handing = <<>> /\ handing' = <<Message(n)>>
      /\ returned' = returned /\ crashes' = crashes
      /\ store_sequence_number' = store_sequence_number + 1
      /\ store_sequence_number = loaded + Len(delivered)
  BY <1>1 DEF PollStores, historyVars, StoreMessageEnvelope, CountStored, Handed
<1>4. Len(handing) = 0 /\ Len(handing') = 1 /\ handing'[1].sequence_number = n
  BY <1>1, <1>3, MessageType
<1>5. Handed'
  BY <1>1, <1>2, <1>3, <1>4 DEF Handed
<1>6. store_sequence_number' - Len(handing') = store_sequence_number - Len(handing)
  BY <1>2, <1>3, <1>4
<1>7. Lost' = Lost
  BY <1>3, <1>6 DEF Lost
<1> QED
  BY <1>3, <1>5, <1>7 DEF Losses

\* What poll returns is the message the count stands at.
LEMMA ReturningHands ==
    ASSUME SubTypeOK, Handed, Losses, PollReturns
    PROVE  Handed' /\ Losses'
<1>1. /\ handing # <<>> /\ handing' = <<>>
      /\ returned' = returned \cup {handing[1].sequence_number}
      /\ store_sequence_number' = store_sequence_number
      /\ loaded' = loaded /\ delivered' = delivered /\ crashes' = crashes
  BY DEF PollReturns, subVars, logVars, storeVars
<1>2. Handed'
  BY <1>1 DEF Handed
<1>3. Len(handing) = 1 /\ Len(handing') = 0 /\ handing[1].sequence_number = store_sequence_number
  BY <1>1 DEF Handed
<1>4. store_sequence_number \in Nat /\ IsFiniteSet(Lost)
  BY LossesFinite
<1>5. Lost' \subseteq Lost
  BY <1>1, <1>3, <1>4 DEF Lost
<1>6. Cardinality(Lost') <= Cardinality(Lost) /\ Cardinality(Lost') \in Nat
  BY <1>4, <1>5, FS_Subset, FS_CardinalityType
<1>7. Cardinality(Lost) \in Nat /\ Cardinality(Lost) <= crashes /\ crashes \in Nat
  BY <1>4, FS_CardinalityType DEF Losses
<1> QED
  BY <1>1, <1>2, <1>6, <1>7 DEF Losses

\* A restart keeps the rows and loses what was counted and not written, so it resumes at
\* a number already handed out; one message may have been stored and not returned.
LEMMA RestartKeeps ==
    ASSUME SubTypeOK, Positions, Tabled, Handed, Losses, SubRestart,
           loaded' = LoadSequenceNumber, serial' = serial
    PROVE  /\ loaded' \in Nat
           /\ Positions' /\ AsksForNext' /\ Tabled' /\ Handed' /\ Losses'
<1>1. /\ store_sequence_number' = loaded' /\ loaded' = LoadSequenceNumber
      /\ serial' = serial /\ backend' = backend
      /\ store_message_envelope_queue' = <<>> /\ writing' = <<>>
      /\ db' = IF backend = "NULL_DB" THEN [k \in {} |-> <<>>] ELSE db
  BY DEF SubRestart, StoreRestartAs
<1>2. /\ sub_sequence_number' = loaded' /\ sub_pc' = "startup"
      /\ message_envelopes' = <<>> /\ delivered' = <<>> /\ handing' = <<>>
      /\ crashes' = crashes + 1 /\ returned' = returned
  BY DEF SubRestart
<1>3. /\ Stored \in Nat /\ Rows = 1 .. Stored /\ Len(writing) \in Nat
      /\ Len(store_message_envelope_queue) \in Nat
      /\ store_sequence_number = Stored + Len(writing) + Len(store_message_envelope_queue)
      /\ \A n \in Rows : Holds(db[n], n)
      /\ backend = "POSTGRESQL" => serial = Stored
      /\ backend = "none" => Stored = 0
  BY DEF Tabled
<1>4. loaded' = IF backend \in {"POSTGRESQL", "LMDB"} THEN Stored ELSE 0
  BY <1>1, LoadsCount
<1>5. loaded' \in Nat /\ loaded' <= store_sequence_number
  <2>1. Stored <= store_sequence_number /\ 0 <= store_sequence_number
    BY <1>3
  <2> QED
    BY <1>3, <1>4, <2>1
<1>6. Stored' = loaded' /\ Rows' = 1 .. loaded' /\ \A n \in Rows' : Holds(db[n], n)'
  <2>1. CASE backend = "NULL_DB"
    <3>1. Rows' = {} /\ loaded' = 0
      BY <1>1, <1>4, <2>1 DEF Rows
    <3> QED
      BY <3>1, FS_EmptySet DEF Stored
  <2>2. CASE backend # "NULL_DB"
    <3>1. db' = db /\ Rows' = Rows /\ Stored' = Stored
      BY <1>1, <2>2 DEF Rows, Stored
    <3>2. Stored = loaded'
      <4>1. CASE backend \in {"POSTGRESQL", "LMDB"}
        BY <1>4, <4>1
      <4>2. CASE backend \notin {"POSTGRESQL", "LMDB", "NULL_DB"}
        <5>1. Stored = 0
          BY <4>2 DEF Tabled
        <5>2. loaded' = 0
          BY <1>4, <4>2
        <5> QED
          BY <5>1, <5>2
      <4> QED
        BY <2>2, <4>1, <4>2
    <3> QED
      BY <1>1, <1>3, <3>1, <3>2 DEF Holds
  <2> QED
    BY <2>1, <2>2
<1>7. /\ Len(writing') = 0 /\ Len(store_message_envelope_queue') = 0
      /\ Len(delivered') = 0 /\ Len(message_envelopes') = 0 /\ Len(handing') = 0
      /\ writing' \in Seq(Sendable) /\ store_message_envelope_queue' \in Seq(Sendable)
  BY <1>1, <1>2
<1>8. store_sequence_number <= Len(MessageIds)
  <2>1. /\ loaded \in Nat /\ Len(delivered) \in Nat /\ Len(message_envelopes) \in Nat
        /\ Len(MessageIds) \in Nat
    BY DurableAssumption DEF SubTypeOK
  <2> QED
    BY <2>1 DEF Positions, Handed
<1>9. store_sequence_number \in Nat /\ Len(MessageIds) \in Nat
  BY LossesFinite, DurableAssumption
<1>10. Positions'
  <2>1. loaded' = loaded' + 0 + 0 /\ loaded' <= Len(MessageIds)
    BY <1>5, <1>8, <1>9
  <2>2. DOMAIN message_envelopes' = {}
    BY <1>2
  <2> QED
    BY <1>2, <1>7, <2>1, <2>2 DEF Positions
<1>11. AsksForNext'
  BY <1>2 DEF AsksForNext
<1>12. Tabled'
  <2>1. /\ backend = "POSTGRESQL" => serial' = Stored'
        /\ backend \notin {"POSTGRESQL", "LMDB", "NULL_DB"} => Stored' = 0
    BY <1>1, <1>3, <1>4, <1>6
  <2> QED
    BY <1>1, <1>5, <1>6, <1>7, <2>1 DEF Tabled
<1>13. Handed'
  BY <1>1, <1>2, <1>5, <1>7 DEF Handed
<1>14. Losses'
  <2>1. IsFiniteSet(Lost) /\ Cardinality(Lost) \in Nat /\ Len(handing) \in 0 .. 1
    BY LossesFinite
  <2>2. Lost' \subseteq Lost \cup {store_sequence_number}
    <3> SUFFICES ASSUME NEW n \in Lost' PROVE n \in Lost \cup {store_sequence_number}
      OBVIOUS
    <3>1. n \in 1 .. loaded' /\ n \notin returned
      BY <1>1, <1>2, <1>5, <1>7 DEF Lost
    <3>2. n = store_sequence_number \/ n <= store_sequence_number - Len(handing)
      <4>1. \A m, l, c \in Nat, h \in 0 .. 1 :
                m \in 1 .. l /\ l <= c => m = c \/ m <= c - h
        OBVIOUS
      <4>2. n \in Nat
        BY <1>5, <3>1
      <4> QED
        BY <1>5, <1>9, <2>1, <3>1, <4>1, <4>2
    <3> QED
      BY <1>5, <1>9, <2>1, <3>1, <3>2 DEF Lost
  <2>3. /\ IsFiniteSet(Lost \cup {store_sequence_number})
        /\ Cardinality(Lost \cup {store_sequence_number}) <= Cardinality(Lost) + 1
        /\ Cardinality(Lost \cup {store_sequence_number}) \in Nat
    BY <2>1, FS_AddElement, FS_CardinalityType
  <2>4. /\ Cardinality(Lost') <= Cardinality(Lost \cup {store_sequence_number})
        /\ Cardinality(Lost') \in Nat
    BY <2>2, <2>3, FS_Subset, FS_CardinalityType
  <2>5. crashes \in Nat /\ Cardinality(Lost) <= crashes
    BY DEF Losses
  <2> QED
    BY <1>2, <2>1, <2>3, <2>4, <2>5 DEF Losses
<1> QED
  BY <1>5, <1>10, <1>11, <1>12, <1>13, <1>14

-----------------------------------------------------------------------------
(* The invariant *)

\* An inexact history stays inexact, and a restart that keeps it exact loads the number
\* from the table as it is.
LEMMA ExactBefore ==
    ASSUME [DurableNext]_durableVars, exact'
    PROVE  exact /\ (SubRestart => loaded' = LoadSequenceNumber /\ serial' = serial)
<1>1. SubRestart => exact /\ loaded' = LoadSequenceNumber /\ serial' = serial
  BY DEF SubRestart
<1>2. CASE StoringThread
  BY <1>1, <1>2 DEF StoringThread
<1>3. CASE ReceivingThread \/ PollStores \/ PollReturns \/ UNCHANGED durableVars
  BY <1>1, <1>3 DEF ReceivingThread, PollStores, PollReturns, durableVars, historyVars
<1> QED
  BY <1>1, <1>2, <1>3 DEF DurableNext

LEMMA DurableInitially == DurableInit /\ StoredNumbers = {0} => DurableInv
<1> SUFFICES ASSUME DurableInit, StoredNumbers = {0}
             PROVE  SubTypeOK /\ Positions /\ AsksForNext /\ Tabled /\ Handed /\ Losses
  BY DEF DurableInv
<1>1. SubTypeOK
  BY TypeInit DEF DurableInit
<1>2. /\ loaded = 0 /\ sub_sequence_number = 0 /\ sub_pc = "startup"
      /\ message_envelopes = <<>> /\ delivered = <<>> /\ handing = <<>>
      /\ returned = {} /\ crashes = 0
  BY DEF DurableInit, SubInit
<1>3. /\ Rows = {} /\ serial = 0
      /\ store_message_envelope_queue = <<>> /\ writing = <<>>
  BY DEF DurableInit, StoreInit, Rows
<1>4. Stored = 0 /\ Rows = 1 .. 0
  BY <1>3, FS_EmptySet DEF Stored
<1>5. LoadSequenceNumber = 0
  <2>1. Largest(Rows) = 0
    BY <1>3 DEF Largest
  <2> QED
    BY <1>4, <2>1 DEF LoadSequenceNumber, Stored
<1>6. store_sequence_number = 0
  <2>1. \A new \in Constructed : new.number = 0
    BY <1>5 DEF Constructed
  <2> QED
    BY <2>1 DEF DurableInit, StoreInit
<1>7. /\ Len(writing) = 0 /\ Len(store_message_envelope_queue) = 0
      /\ Len(delivered) = 0 /\ Len(message_envelopes) = 0 /\ Len(handing) = 0
      /\ writing \in Seq(Sendable) /\ store_message_envelope_queue \in Seq(Sendable)
  BY <1>2, <1>3
<1>8. Positions
  BY <1>2, <1>7, DurableAssumption DEF Positions
<1>9. AsksForNext
  BY <1>2 DEF AsksForNext
<1>10. Tabled
  BY <1>3, <1>4, <1>6, <1>7 DEF Tabled
<1>11. Handed
  BY <1>2, <1>6, <1>7 DEF Handed
<1>12. Losses
  <2>1. Lost = {}
    BY <1>6, <1>7 DEF Lost
  <2> QED
    BY <1>2, <2>1, FS_EmptySet DEF Losses
<1> QED
  BY <1>1, <1>8, <1>9, <1>10, <1>11, <1>12

\* Steps that leave what an invariant speaks of alone.
LEMMA TabledUnchanged ==
    ASSUME Tabled, UNCHANGED storeVars
    PROVE  Tabled'
  BY DEF Tabled, Holds, Stored, Rows, storeVars, objectVars, storeThreadVars, tableVars

LEMMA HandedUnchanged ==
    ASSUME Handed, Losses,
           UNCHANGED <<store_sequence_number, loaded, delivered, handing, returned, crashes>>
    PROVE  Handed' /\ Losses'
  BY DEF Handed, Losses, Lost

LEMMA DurableStep ==
    DurableInv /\ [DurableNext]_durableVars /\ Len(MessageIds) <= IntMax => DurableInv'
<1> SUFFICES ASSUME DurableInv, [DurableNext]_durableVars, Len(MessageIds) <= IntMax, exact'
             PROVE  (SubTypeOK /\ Positions /\ AsksForNext /\ Tabled /\ Handed /\ Losses)'
  BY DEF DurableInv
<1>1. /\ SubTypeOK /\ Positions /\ AsksForNext /\ Tabled /\ Handed /\ Losses
      /\ SubRestart => loaded' = LoadSequenceNumber /\ serial' = serial
  BY ExactBefore DEF DurableInv
<1>2. SubTypeOK'
  <2>1. SubRestart => loaded' \in Nat
    BY <1>1, RestartKeeps
  <2> QED
    BY <1>1, <2>1, DurableTypes
<1>3. CASE ReceivingThread
  <2>1. UNCHANGED storeVars /\ UNCHANGED <<handing, returned, crashes>>
    BY <1>3 DEF ReceivingThread, historyVars
  <2>2. store_sequence_number' = store_sequence_number
    BY <2>1 DEF storeVars
  <2>3. UNCHANGED <<loaded, delivered>>
    BY <1>3 DEF ReceivingThread, Startup, Receive, ReceiveAhead, ReceiveOld, ReceiveNext, Accept,
                ReceiveError, ReceiveResponse, RecoveryStep, ConnectReq, SendRequest, ApplyMissed,
                MissedApplied, FinishRecovery, RecoveryError, SubConnect, TimerStep, TimerWakes,
                TimerClears, TimerDisconnects, subVars, logVars
  <2>4. Positions' /\ AsksForNext'
    BY <1>1, <1>3, ReceivingKeepsPosition
  <2>5. Handed' /\ Losses'
    BY <1>1, <2>1, <2>2, <2>3, HandedUnchanged
  <2> QED
    BY <1>1, <1>2, <2>1, <2>4, <2>5, TabledUnchanged
<1>4. CASE PollStores
  <2>1. Positions' /\ Handed' /\ Losses'
    BY <1>1, <1>4, NextHandedOut, StoringHands DEF PollStores
  <2>2. AsksForNext'
    BY <1>1, <1>4, AsksUnchanged DEF PollStores, Poll, recoveryVars
  <2>3. Tabled'
    <3> DEFINE n == loaded + Len(delivered) + 1
    <3>1. n \in Messages /\ Head(message_envelopes) = Message(n)
      BY <1>1, <1>4, NextHandedOut DEF PollStores
    <3>2. n = store_sequence_number + 1
      BY <1>1 DEF Handed
    <3> QED
      BY <1>1, <1>4, <3>1, <3>2, QueueKeepsTable DEF PollStores
  <2> QED
    BY <1>2, <2>1, <2>2, <2>3
<1>5. CASE PollReturns
  <2>1. UNCHANGED subVars /\ UNCHANGED storeVars
    BY <1>5 DEF PollReturns
  <2>2. UNCHANGED logVars /\ UNCHANGED <<sub_sequence_number, request, missed>> /\ sub_pc' = sub_pc
    BY <2>1 DEF subVars, logVars, recoveryVars
  <2> QED
    BY <1>1, <1>2, <1>5, <2>1, <2>2, PositionsUnchanged, AsksUnchanged, TabledUnchanged,
       ReturningHands
<1>6. CASE StoringThread
  <2>1. UNCHANGED subVars /\ UNCHANGED <<handing, returned, crashes>> /\ (PopStored \/ WriteRow)
    BY <1>6 DEF StoringThread
  <2>2. UNCHANGED logVars /\ UNCHANGED <<sub_sequence_number, request, missed>> /\ sub_pc' = sub_pc
    BY <2>1 DEF subVars, logVars, recoveryVars
  <2>3. UNCHANGED <<store_sequence_number, loaded, delivered, handing, returned, crashes>>
    BY <2>1, <2>2 DEF PopStored, WriteRow, logVars
  <2>4. Handed' /\ Losses'
    BY <1>1, <2>3, HandedUnchanged
  <2>5. Tabled'
    BY <1>1, <2>1, PopKeepsTable, WriteKeepsTable
  <2> QED
    BY <1>1, <1>2, <2>2, <2>4, <2>5, PositionsUnchanged, AsksUnchanged
<1>7. CASE SubRestart
  BY <1>1, <1>2, <1>7, RestartKeeps
<1>8. CASE UNCHANGED durableVars
  <2>1. UNCHANGED subVars /\ UNCHANGED storeVars /\ UNCHANGED <<handing, returned, crashes>>
    BY <1>8 DEF durableVars, historyVars
  <2>2. UNCHANGED logVars /\ UNCHANGED <<sub_sequence_number, request, missed>> /\ sub_pc' = sub_pc
    BY <2>1 DEF subVars, logVars, recoveryVars
  <2>3. UNCHANGED <<store_sequence_number, loaded, delivered, handing, returned, crashes>>
    BY <2>1, <2>2 DEF storeVars, logVars
  <2>4. Handed' /\ Losses'
    BY <1>1, <2>3, HandedUnchanged
  <2> QED
    BY <1>1, <1>2, <2>1, <2>2, <2>4, PositionsUnchanged, AsksUnchanged, TabledUnchanged
<1> QED
  BY <1>3, <1>4, <1>5, <1>6, <1>7, <1>8 DEF DurableNext

LEMMA DurableHolds ==
    ASSUME StoredNumbers = {0}, Len(MessageIds) <= IntMax
    PROVE  DurableSpec => []DurableInv
  BY DurableInitially, DurableStep, PTL DEF DurableSpec

-----------------------------------------------------------------------------
(* The theorems *)

\* Over any number of crashes, the number a subscriber resumes after is the number of the
\* last message it stored, and row n of its table is message n: load_sequence_number's
\* count (or largest number) is a position in what was published.
THEOREM CountingIsEnough ==
    ASSUME StoredNumbers = {0}, Len(MessageIds) <= IntMax
    PROVE  DurableSpec => []CountIsPosition
<1>1. DurableInv => CountIsPosition
  BY DEF DurableInv, Handed, Tabled, Holds, CountIsPosition, CountIsNumber, RowIsMessage
<1> QED
  BY <1>1, DurableHolds, PTL

\* Over any number of crashes, of the messages before the point where a subscriber resumes
\* at most one per crash was never returned by poll: the one stored and not yet returned.
THEOREM CrashLosesAtMostOne ==
    ASSUME StoredNumbers = {0}, Len(MessageIds) <= IntMax
    PROVE  DurableSpec => []LostAtMostOnePerCrash
<1>1. DurableInv => LostAtMostOnePerCrash
  <2> SUFFICES ASSUME DurableInv, exact
               PROVE  Cardinality((1 .. loaded) \ returned) <= crashes
    BY DEF LostAtMostOnePerCrash
  <2> DEFINE before == (1 .. loaded) \ returned
  <2>1. SubTypeOK /\ Handed /\ Losses
    BY DEF DurableInv
  <2>2. /\ store_sequence_number \in Nat /\ Len(handing) \in 0 .. 1
        /\ loaded <= store_sequence_number - Len(handing)
        /\ IsFiniteSet(Lost) /\ Cardinality(Lost) \in Nat
    BY <2>1, LossesFinite
  <2>3. loaded \in Nat
    BY <2>1 DEF SubTypeOK
  <2>4. before \subseteq Lost
    BY <2>2, <2>3 DEF Lost
  <2>5. Cardinality(before) <= Cardinality(Lost) /\ Cardinality(before) \in Nat
    BY <2>2, <2>4, FS_Subset, FS_CardinalityType
  <2> QED
    BY <2>1, <2>2, <2>5 DEF Losses
<1> QED
  BY <1>1, DurableHolds, PTL
=============================================================================
