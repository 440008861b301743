-------------------------- MODULE SubscriberProofs ----------------------------
(***************************************************************************)
(* What a Subscriber keeps true against any network, for every set of      *)
(* envelopes, answers and loaded numbers and every bound on controllers.   *)
(***************************************************************************)
EXTENDS Subscriber, SequenceTheorems, TLAPS

-----------------------------------------------------------------------------
(* Data *)

\* What a publisher may give a socket: the numbers are not bounded.
Sendable == [id : Ids, topic : Topics, sequence_number : Nat]

\* SubNext on a network that may hand over any envelope and any answer: what the lemmas
\* need of the network, so that they serve the composed system too.
OpenNext ==
    \/ Startup
    \/ \E envelope \in Sendable : Receive(envelope)
    \/ ReceiveError
    \/ \E reply \in Seq(Sendable) : ReceiveResponse(reply)
    \/ RecoveryStep
    \/ RecoveryError
    \/ SubConnect
    \/ TimerStep
    \/ Poll

LEMMA SubNextIsOpen == [SubNext]_subVars => [OpenNext]_subVars
<1>1. Envelope \subseteq Sendable
  BY NumbersAssumption DEF Envelope, Sendable
<1>2. Replies \subseteq Seq(Sendable)
  BY <1>1, SubscriberAssumption
<1> QED
  BY <1>1, <1>2 DEF SubNext, OpenNext

\* A transmitted envelope has the number an int can hold, and is a received one.
LEMMA TransmittedType ==
    ASSUME NEW envelope \in Sendable
    PROVE  Transmitted(envelope) \in Received
  BY NumbersAssumption DEF Transmitted, ValueInt, Sendable, Received

\* So has every envelope of an answer.
LEMMA TransmittedListType ==
    ASSUME NEW reply \in Seq(Sendable)
    PROVE  TransmittedList(reply) \in Seq(Received)
<1>2. \A i \in 1 .. Len(reply) : reply[i] \in Sendable
  OBVIOUS
<1>3. \A i \in 1 .. Len(reply) : Transmitted(reply[i]) \in Received
  BY <1>2, TransmittedType
<1>4. TransmittedList(reply) = [i \in 1 .. Len(reply) |-> Transmitted(reply[i])]
  BY DEF TransmittedList
<1> QED
  BY <1>3, <1>4

-----------------------------------------------------------------------------
(* Types *)

LEMMA TypeInit == SubInit => SubTypeOK
<1> SUFFICES ASSUME SubInit PROVE SubTypeOK
  OBVIOUS
<1>1. loaded \in Nat /\ sub_sequence_number \in Nat
  BY SubscriberAssumption DEF SubInit
<1>2. message_envelopes = <<>> /\ delivered = <<>> /\ missed = <<>>
  BY DEF SubInit
<1>3. request \in RecoveryRequest
  BY DEF SubInit, NoRequest, RecoveryRequest
<1>4. sleeping \in Nat /\ tripped \in Nat /\ clearing \in Nat
  BY DEF SubInit
<1>5. /\ message_envelopes \in Seq(Received)
      /\ delivered \in Seq(Received)
      /\ missed \in Seq(Received)
  BY <1>2
<1> QED
  BY <1>1, <1>3, <1>4, <1>5 DEF SubInit, SubTypeOK, SubPoints

\* What do_recovery changes keeps its type.
LEMMA DoRecoveryType ==
    ASSUME SubTypeOK, NEW start \in Nat, NEW end \in Nat, DoRecovery(start, end)
    PROVE  /\ sub_pc' \in SubPoints
           /\ isRecoveringNow' \in BOOLEAN
           /\ request' \in RecoveryRequest
           /\ missed' \in Seq(Received)
           /\ req_connected' \in BOOLEAN
           /\ sleeping' \in Nat /\ tripped' \in Nat /\ clearing' \in Nat
<1>1. CASE RecoverySuppressed
  BY <1>1 DEF RecoverySuppressed, recoveryVars, timerVars, SubTypeOK, SubPoints
<1>2. CASE RecoveryBegins(start, end)
  BY <1>2, SubscriberAssumption DEF RecoveryBegins, SubTypeOK, SubPoints, RecoveryRequest
<1> QED
  BY <1>1, <1>2 DEF DoRecovery

LEMMA TypeStep == SubTypeOK /\ [OpenNext]_subVars => SubTypeOK'
<1> SUFFICES ASSUME SubTypeOK, [OpenNext]_subVars
             PROVE  SubTypeOK'
  OBVIOUS
<1> USE DEF logVars, recoveryVars, timerVars, statusVars
<1>1. CASE Startup
  <2>1. sub_sequence_number \in Nat /\ DoRecovery(sub_sequence_number, 0)
    BY <1>1 DEF Startup, SubTypeOK
  <2> QED
    BY <1>1, <2>1, DoRecoveryType DEF Startup, SubTypeOK
<1>2. ASSUME NEW envelope \in Sendable, Receive(envelope)
      PROVE  SubTypeOK'
  <2>1. Transmitted(envelope) \in Received
    BY TransmittedType
  <2>2. CASE ReceiveAhead(envelope)
    <3>1. FirstMissing \in Nat /\ Transmitted(envelope).sequence_number \in Nat
      BY <2>1 DEF FirstMissing, SubTypeOK, Received
    <3>2. DoRecovery(FirstMissing, Transmitted(envelope).sequence_number)
      BY <2>2 DEF ReceiveAhead
    <3> QED
      BY <2>2, <3>1, <3>2, DoRecoveryType DEF ReceiveAhead, SubTypeOK
  <2>3. CASE ReceiveOld(envelope)
    BY <2>3 DEF ReceiveOld, subVars, SubTypeOK
  <2>4. CASE ReceiveNext(envelope)
    BY <2>1, <2>4 DEF ReceiveNext, Accept, SubTypeOK, Received
  <2> QED
    BY <1>2, <2>2, <2>3, <2>4 DEF Receive
<1>3. CASE ReceiveError
  BY <1>3 DEF ReceiveError, SubTypeOK
<1>4. ASSUME NEW reply \in Seq(Sendable), ReceiveResponse(reply)
      PROVE  SubTypeOK'
  BY <1>4, TransmittedListType DEF ReceiveResponse, SubTypeOK, SubPoints
<1>5. CASE ConnectReq
  BY <1>5 DEF ConnectReq, SubTypeOK, SubPoints
<1>6. CASE SendRequest
  BY <1>6 DEF SendRequest, SubTypeOK, SubPoints
<1>7. CASE ApplyMissed
  <2>1. Head(missed) \in Received /\ Tail(missed) \in Seq(Received)
    BY <1>7 DEF ApplyMissed, SubTypeOK
  <2>2. CASE IsMissed(Head(missed)) /\ Accept(Head(missed))
    <3>1. message_envelopes' = Append(message_envelopes, Head(missed))
      BY <2>2 DEF Accept
    <3>2. message_envelopes' \in Seq(Received)
      BY <2>1, <3>1 DEF SubTypeOK
    <3>3. sub_sequence_number' \in Nat
      BY <2>1, <2>2 DEF Accept, Received
    <3> QED
      BY <1>7, <2>1, <2>2, <3>2, <3>3 DEF ApplyMissed, Accept, SubTypeOK
  <2>3. CASE ~IsMissed(Head(missed)) /\ UNCHANGED logVars
    BY <1>7, <2>1, <2>3 DEF ApplyMissed, SubTypeOK
  <2> QED
    BY <1>7, <2>2, <2>3 DEF ApplyMissed
<1>8. CASE MissedApplied
  BY <1>8 DEF MissedApplied, SubTypeOK, SubPoints
<1>9. CASE FinishRecovery
  BY <1>9 DEF FinishRecovery, EndRecovery, SubTypeOK, SubPoints
<1>10. CASE RecoveryError
  BY <1>10 DEF RecoveryError, ErrorExit, SubTypeOK, SubPoints
<1>11. CASE SubConnect
  BY <1>11 DEF SubConnect, SubTypeOK
<1>12. CASE TimerWakes
  BY <1>12 DEF TimerWakes, SubTypeOK
<1>13. CASE TimerClears
  <2>1. tripped' \in Nat /\ clearing' \in Nat
    BY <1>13 DEF TimerClears, SubTypeOK
  <2> QED
    BY <1>13, <2>1 DEF TimerClears, ControllerResets, SubTypeOK
<1>14. CASE TimerDisconnects
  <2>1. clearing' \in Nat
    BY <1>14 DEF TimerDisconnects, SubTypeOK
  <2> QED
    BY <1>14, <2>1 DEF TimerDisconnects, SubTypeOK
<1>15. CASE Poll
  BY <1>15 DEF Poll, SubTypeOK
<1>16. CASE UNCHANGED subVars
  BY <1>16 DEF subVars, SubTypeOK
<1> QED
  BY <1>1, <1>2, <1>3, <1>4, <1>5, <1>6, <1>7, <1>8, <1>9, <1>10, <1>11, <1>12, <1>13,
     <1>14, <1>15, <1>16
  DEF OpenNext, RecoveryStep, TimerStep

\* The variables keep their types, and the numbers in the queue and in what was
\* delivered fit an int.
THEOREM TypeCorrect == SubSpec => []SubTypeOK
  BY TypeInit, TypeStep, SubNextIsOpen, PTL DEF SubSpec

-----------------------------------------------------------------------------
(* Order *)

\* The position bounds everything accepted: what makes OrderedDelivery inductive,
\* since both ways of accepting compare with the position and nothing else.
PositionBounds ==
    /\ loaded <= sub_sequence_number
    /\ \A i \in DOMAIN delivered :
           delivered[i].sequence_number <= sub_sequence_number
    /\ \A j \in DOMAIN message_envelopes :
           message_envelopes[j].sequence_number <= sub_sequence_number

OrderInv == OrderedDelivery /\ PositionBounds

LEMMA OrderInit == SubInit => OrderInv
<1> SUFFICES ASSUME SubInit PROVE OrderInv
  OBVIOUS
<1>1. loaded \in Nat /\ sub_sequence_number = loaded
  BY SubscriberAssumption DEF SubInit
<1>2. DOMAIN message_envelopes = {} /\ DOMAIN delivered = {}
  BY DEF SubInit
<1> QED
  BY <1>1, <1>2 DEF OrderInv, OrderedDelivery, PositionBounds, Increasing

\* What appending an envelope to a queue makes of its domain and entries.
LEMMA AppendEntries ==
    ASSUME NEW s \in Seq(Received), NEW e \in Received
    PROVE  /\ DOMAIN Append(s, e) = 1 .. (Len(s) + 1)
           /\ DOMAIN s = 1 .. Len(s)
           /\ Len(s) \in Nat
           /\ Append(s, e)[Len(s) + 1] = e
           /\ \A i \in DOMAIN s : Append(s, e)[i] = s[i]
  OBVIOUS

\* What taking the first envelope off a queue leaves.
LEMMA TailEntries ==
    ASSUME NEW s \in Seq(Received), s # <<>>
    PROVE  /\ 1 \in DOMAIN s /\ Head(s) = s[1]
           /\ \A j \in DOMAIN Tail(s) :
                  j \in Nat /\ j >= 1 /\ j + 1 \in DOMAIN s /\ Tail(s)[j] = s[j + 1]
<1>1. Len(s) \in Nat /\ Len(s) # 0 /\ DOMAIN s = 1 .. Len(s)
  OBVIOUS
<1>2. Tail(s) \in Seq(Received) /\ Len(Tail(s)) = Len(s) - 1
  OBVIOUS
<1>3. DOMAIN Tail(s) = 1 .. (Len(s) - 1)
  BY <1>1, <1>2
<1>4. \A j \in 1 .. (Len(s) - 1) : Tail(s)[j] = s[j + 1]
  BY <1>1
<1>5. Head(s) = s[1]
  OBVIOUS
<1> QED
  BY <1>1, <1>3, <1>4, <1>5

\* Accepting an envelope beyond the position keeps the order.
LEMMA AcceptOrdered ==
    ASSUME SubTypeOK, OrderInv, NEW envelope \in Received,
           envelope.sequence_number > sub_sequence_number, Accept(envelope)
    PROVE  OrderInv'
<1> DEFINE q == message_envelopes
<1>1. q \in Seq(Received) /\ q' = Append(q, envelope)
  BY DEF SubTypeOK, Accept
<1>2. /\ DOMAIN q' = 1 .. (Len(q) + 1) /\ DOMAIN q = 1 .. Len(q) /\ Len(q) \in Nat
      /\ q'[Len(q) + 1] = envelope
      /\ \A i \in DOMAIN q : q'[i] = q[i]
  BY <1>1, AppendEntries
<1>3. delivered' = delivered /\ loaded' = loaded /\ sub_sequence_number' = envelope.sequence_number
  BY DEF Accept
<1>4. /\ sub_sequence_number \in Nat /\ loaded \in Nat /\ envelope.sequence_number \in Nat
      /\ \A i \in DOMAIN q : q[i].sequence_number \in Nat
      /\ \A i \in DOMAIN delivered : delivered[i].sequence_number \in Nat
  <2>1. \A e \in Received : e.sequence_number \in Nat
    BY NumbersAssumption DEF Received
  <2>2. /\ \A i \in DOMAIN q : q[i] \in Received
        /\ \A i \in DOMAIN delivered : delivered[i] \in Received
    BY DEF SubTypeOK
  <2> QED
    BY <2>1, <2>2 DEF SubTypeOK
<1>5. \A j \in DOMAIN q' : j \in DOMAIN q \/ j = Len(q) + 1
  BY <1>2
<1>6. PositionBounds'
  BY <1>2, <1>3, <1>4, <1>5 DEF OrderInv, PositionBounds
<1>7. Increasing(delivered)'
  BY <1>3 DEF OrderInv, OrderedDelivery, Increasing
<1>8. Increasing(q)'
  <2> SUFFICES ASSUME NEW i \in DOMAIN q', NEW j \in DOMAIN q', i < j
               PROVE  q'[i].sequence_number < q'[j].sequence_number
    BY DEF Increasing
  <2>1. i \in DOMAIN q
    BY <1>2
  <2>2. CASE j \in DOMAIN q
    BY <1>2, <2>1, <2>2 DEF OrderInv, OrderedDelivery, Increasing
  <2>3. CASE j = Len(q) + 1
    BY <1>2, <1>4, <2>1, <2>3 DEF OrderInv, PositionBounds
  <2> QED
    BY <1>5, <2>2, <2>3
<1>9. \A i \in DOMAIN delivered', j \in DOMAIN q' :
         delivered'[i].sequence_number < q'[j].sequence_number
  BY <1>2, <1>3, <1>4, <1>5 DEF OrderInv, OrderedDelivery, PositionBounds
<1>10. \A j \in DOMAIN q' : loaded' < q'[j].sequence_number
  BY <1>2, <1>3, <1>4, <1>5 DEF OrderInv, OrderedDelivery, PositionBounds
<1> QED
  BY <1>3, <1>6, <1>7, <1>8, <1>9, <1>10 DEF OrderInv, OrderedDelivery

\* Moving the first queued envelope to what was delivered keeps the order.
LEMMA PollOrdered ==
    ASSUME SubTypeOK, OrderInv, Poll
    PROVE  OrderInv'
<1> DEFINE q == message_envelopes
<1> DEFINE d == delivered
<1>1. q \in Seq(Received) /\ d \in Seq(Received) /\ q # <<>> /\ Head(q) \in Received
  BY DEF SubTypeOK, Poll
<1>2. d' = Append(d, Head(q)) /\ q' = Tail(q)
  BY DEF Poll
<1>3. /\ DOMAIN d' = 1 .. (Len(d) + 1) /\ DOMAIN d = 1 .. Len(d) /\ Len(d) \in Nat
      /\ d'[Len(d) + 1] = Head(q)
      /\ \A i \in DOMAIN d : d'[i] = d[i]
  BY <1>1, <1>2, AppendEntries
<1>4. /\ 1 \in DOMAIN q /\ Head(q) = q[1]
      /\ \A j \in DOMAIN q' : j \in Nat /\ j >= 1 /\ j + 1 \in DOMAIN q /\ q'[j] = q[j + 1]
  <2>1. /\ 1 \in DOMAIN q /\ Head(q) = q[1]
        /\ \A j \in DOMAIN Tail(q) :
               j \in Nat /\ j >= 1 /\ j + 1 \in DOMAIN q /\ Tail(q)[j] = q[j + 1]
    BY <1>1, TailEntries
  <2> QED
    BY <1>2, <2>1
<1>5. loaded' = loaded /\ sub_sequence_number' = sub_sequence_number
  BY DEF Poll
<1>6. \A i \in DOMAIN d' : i \in DOMAIN d \/ i = Len(d) + 1
  BY <1>3
<1>7. PositionBounds'
  BY <1>3, <1>4, <1>5, <1>6 DEF OrderInv, PositionBounds
<1>8. Increasing(d)'
  <2> SUFFICES ASSUME NEW i \in DOMAIN d', NEW j \in DOMAIN d', i < j
               PROVE  d'[i].sequence_number < d'[j].sequence_number
    BY DEF Increasing
  <2>1. i \in DOMAIN d
    BY <1>3
  <2>2. CASE j \in DOMAIN d
    BY <1>3, <2>1, <2>2 DEF OrderInv, OrderedDelivery, Increasing
  <2>3. CASE j = Len(d) + 1
    BY <1>3, <1>4, <2>1, <2>3 DEF OrderInv, OrderedDelivery
  <2> QED
    BY <1>6, <2>2, <2>3
<1>9. Increasing(q)'
  <2> SUFFICES ASSUME NEW i \in DOMAIN q', NEW j \in DOMAIN q', i < j
               PROVE  q'[i].sequence_number < q'[j].sequence_number
    BY DEF Increasing
  <2> QED
    BY <1>4 DEF OrderInv, OrderedDelivery, Increasing
<1>10. \A i \in DOMAIN d', j \in DOMAIN q' : d'[i].sequence_number < q'[j].sequence_number
  <2> SUFFICES ASSUME NEW i \in DOMAIN d', NEW j \in DOMAIN q'
               PROVE  d'[i].sequence_number < q'[j].sequence_number
    OBVIOUS
  <2>1. CASE i \in DOMAIN d
    BY <1>3, <1>4, <2>1 DEF OrderInv, OrderedDelivery
  <2>2. CASE i = Len(d) + 1
    <3>1. 1 < j + 1 /\ q[1].sequence_number < q[j + 1].sequence_number
      BY <1>4 DEF OrderInv, OrderedDelivery, Increasing
    <3> QED
      BY <1>3, <1>4, <2>2, <3>1
  <2> QED
    BY <1>6, <2>1, <2>2
<1>11. /\ \A i \in DOMAIN d' : loaded' < d'[i].sequence_number
       /\ \A j \in DOMAIN q' : loaded' < q'[j].sequence_number
  BY <1>3, <1>4, <1>5, <1>6 DEF OrderInv, OrderedDelivery
<1> QED
  BY <1>7, <1>8, <1>9, <1>10, <1>11 DEF OrderInv, OrderedDelivery

\* The steps that accept and deliver nothing.
LEMMA OrderUnchanged == OrderInv /\ UNCHANGED logVars => OrderInv'
  BY DEF logVars, OrderInv, OrderedDelivery, PositionBounds, Increasing

LEMMA OrderStep == SubTypeOK /\ OrderInv /\ [OpenNext]_subVars => OrderInv'
<1> SUFFICES ASSUME SubTypeOK, OrderInv, [OpenNext]_subVars
             PROVE  OrderInv'
  OBVIOUS
<1>1. ASSUME NEW envelope \in Sendable, Receive(envelope)
      PROVE  OrderInv'
  <2>1. CASE ReceiveAhead(envelope)
    BY <2>1, OrderUnchanged DEF ReceiveAhead
  <2>2. CASE ReceiveOld(envelope)
    BY <2>2, OrderUnchanged DEF ReceiveOld, subVars
  <2>3. CASE ReceiveNext(envelope)
    <3>1. Transmitted(envelope) \in Received
      BY TransmittedType
    <3>2. Accept(Transmitted(envelope))
      BY <2>3 DEF ReceiveNext
    <3>3. Transmitted(envelope).sequence_number > sub_sequence_number
      BY <2>3 DEF ReceiveNext, SubTypeOK
    <3> QED
      BY <3>1, <3>2, <3>3, AcceptOrdered
  <2> QED
    BY <1>1, <2>1, <2>2, <2>3 DEF Receive
<1>2. CASE ApplyMissed
  <2>1. Head(missed) \in Received
    BY <1>2 DEF ApplyMissed, SubTypeOK
  <2>2. CASE IsMissed(Head(missed)) /\ Accept(Head(missed))
    BY <2>1, <2>2, AcceptOrdered DEF IsMissed
  <2>3. CASE UNCHANGED logVars
    BY <2>3, OrderUnchanged
  <2> QED
    BY <1>2, <2>2, <2>3 DEF ApplyMissed
<1>3. CASE Poll
  BY <1>3, PollOrdered
<1>4. CASE \/ Startup \/ ReceiveError \/ (\E reply \in Seq(Sendable) : ReceiveResponse(reply))
           \/ ConnectReq \/ SendRequest \/ MissedApplied \/ FinishRecovery \/ RecoveryError
           \/ SubConnect \/ TimerStep \/ UNCHANGED subVars
  <2>1. UNCHANGED logVars
    BY <1>4 DEF Startup, ReceiveError, ReceiveResponse, ConnectReq, SendRequest, MissedApplied,
                FinishRecovery, RecoveryError, SubConnect, TimerStep, TimerWakes, TimerClears,
                TimerDisconnects, subVars
  <2> QED
    BY <2>1, OrderUnchanged
<1> QED
  BY <1>1, <1>2, <1>3, <1>4 DEF OpenNext, RecoveryStep

\* poll() hands out envelopes of strictly increasing numbers above the number
\* loaded, and the queue goes on from there, whatever the network does.
THEOREM DeliveryIsOrdered == SubSpec => []OrderedDelivery
<1>1. OrderInv => OrderedDelivery
  BY DEF OrderInv
<1> QED
  BY <1>1, TypeCorrect, OrderInit, OrderStep, SubNextIsOpen, PTL DEF SubSpec

-----------------------------------------------------------------------------
(* Controllers and connections *)

\* The steps that touch neither the flag nor a controller.
LEMMA FlagUnchanged ==
    ASSUME FlagHasController, UNCHANGED <<isRecoveringNow, timerVars>>
    PROVE  FlagHasController'
  BY DEF FlagHasController, timerVars

LEMMA DoRecoveryFlag ==
    ASSUME SubTypeOK, FlagHasController, NEW start, NEW end, DoRecovery(start, end)
    PROVE  FlagHasController'
<1>1. CASE RecoverySuppressed
  BY <1>1, FlagUnchanged DEF RecoverySuppressed, recoveryVars
<1>2. CASE RecoveryBegins(start, end)
  BY <1>2 DEF RecoveryBegins, FlagHasController, SubTypeOK
<1> QED
  BY <1>1, <1>2 DEF DoRecovery

LEMMA FlagStep == SubTypeOK /\ FlagHasController /\ [OpenNext]_subVars => FlagHasController'
<1> SUFFICES ASSUME SubTypeOK, FlagHasController, [OpenNext]_subVars
             PROVE  FlagHasController'
  OBVIOUS
<1>1. CASE Startup
  BY <1>1, DoRecoveryFlag DEF Startup
<1>2. ASSUME NEW envelope \in Sendable, Receive(envelope)
      PROVE  FlagHasController'
  <2>1. CASE ReceiveAhead(envelope)
    BY <2>1, DoRecoveryFlag DEF ReceiveAhead
  <2>2. CASE ReceiveOld(envelope) \/ ReceiveNext(envelope)
    BY <2>2, FlagUnchanged DEF ReceiveOld, ReceiveNext, subVars, recoveryVars, timerVars
  <2> QED
    BY <1>2, <2>1, <2>2 DEF Receive
<1>3. CASE FinishRecovery
  BY <1>3 DEF FinishRecovery, EndRecovery, FlagHasController
<1>4. CASE TimerWakes
  BY <1>4 DEF TimerWakes, ControllerActs, recoveryVars, FlagHasController, SubTypeOK
<1>5. CASE TimerClears
  BY <1>5 DEF TimerClears, ControllerResets, FlagHasController
<1>6. CASE \/ ReceiveError \/ (\E reply \in Seq(Sendable) : ReceiveResponse(reply))
           \/ ConnectReq \/ SendRequest \/ ApplyMissed \/ MissedApplied \/ RecoveryError
           \/ SubConnect \/ TimerDisconnects \/ Poll \/ UNCHANGED subVars
  <2>1. CASE TimerDisconnects
    BY <2>1 DEF TimerDisconnects, FlagHasController
  <2>2. CASE ~TimerDisconnects
    BY <1>6, <2>2, FlagUnchanged
    DEF ReceiveError, ReceiveResponse, ConnectReq, SendRequest, ApplyMissed, MissedApplied,
        RecoveryError, SubConnect, Poll, subVars, recoveryVars, timerVars
  <2> QED
    BY <2>1, <2>2
<1> QED
  BY <1>1, <1>2, <1>3, <1>4, <1>5, <1>6 DEF OpenNext, RecoveryStep, TimerStep

\* While recoveries are suppressed, a controller is there to end the suppression.
THEOREM SuppressionIsWatched == SubSpec => []FlagHasController
<1>1. SubInit => FlagHasController
  BY DEF SubInit, FlagHasController
<1> QED
  BY <1>1, TypeCorrect, FlagStep, SubNextIsOpen, PTL DEF SubSpec

LEMMA ConnectionStep == NoStaleConnection /\ [OpenNext]_subVars => NoStaleConnection'
<1> SUFFICES ASSUME NoStaleConnection, [OpenNext]_subVars
             PROVE  NoStaleConnection'
  OBVIOUS
<1> USE DEF NoStaleConnection, recoveryVars
<1>1. ASSUME NEW start, NEW end, DoRecovery(start, end), sub_pc \in {"startup", "receive"}
      PROVE  NoStaleConnection'
  BY <1>1 DEF DoRecovery, RecoverySuppressed, RecoveryBegins
<1>2. CASE Startup
  BY <1>1, <1>2 DEF Startup
<1>3. ASSUME NEW envelope \in Sendable, Receive(envelope)
      PROVE  NoStaleConnection'
  <2>1. CASE ReceiveAhead(envelope)
    BY <1>1, <2>1 DEF ReceiveAhead
  <2>2. CASE ReceiveOld(envelope) \/ ReceiveNext(envelope)
    BY <2>2 DEF ReceiveOld, ReceiveNext, subVars
  <2> QED
    BY <1>3, <2>1, <2>2 DEF Receive
<1>4. CASE FinishRecovery
  BY <1>4 DEF FinishRecovery, EndRecovery
<1>5. CASE ConnectReq \/ SendRequest \/ RecoveryError
           \/ (\E reply \in Seq(Sendable) : ReceiveResponse(reply))
  BY <1>5 DEF ConnectReq, SendRequest, RecoveryError, ErrorExit, ReceiveResponse
<1>6. CASE \/ ReceiveError \/ ApplyMissed \/ MissedApplied \/ SubConnect \/ TimerStep
           \/ Poll \/ UNCHANGED subVars
  BY <1>6 DEF ReceiveError, ApplyMissed, MissedApplied, SubConnect, TimerStep, TimerWakes,
              TimerClears, TimerDisconnects, Poll, subVars
<1> QED
  BY <1>2, <1>3, <1>4, <1>5, <1>6 DEF OpenNext, RecoveryStep

\* A recovery begins with the REQ socket disconnected, so no answer to an earlier
\* request can be taken for the answer to a later one.
THEOREM NoConnectionLeft == SubSpec => []NoStaleConnection
<1>1. SubInit => NoStaleConnection
  BY DEF SubInit, NoStaleConnection
<1> QED
  BY <1>1, ConnectionStep, SubNextIsOpen, PTL DEF SubSpec

-----------------------------------------------------------------------------
(* The log *)

\* The numbers in the log go no further than the position.
LEMMA LogBelowPosition ==
    ASSUME SubTypeOK, OrderInv
    PROVE  /\ delivered \o message_envelopes \in Seq(Received)
           /\ Len(delivered \o message_envelopes) = Len(delivered) + Len(message_envelopes)
           /\ Log!last <= sub_sequence_number
<1> DEFINE d == delivered
           q == message_envelopes
           log == d \o q
<1>1. d \in Seq(Received) /\ q \in Seq(Received)
  BY DEF SubTypeOK
<1>2. /\ log \in Seq(Received)
      /\ Len(log) = Len(d) + Len(q)
      /\ \A i \in 1 .. Len(d) + Len(q) : log[i] = IF i <= Len(d) THEN d[i] ELSE q[i - Len(d)]
  BY <1>1, ConcatProperties
<1>3. /\ Len(d) \in Nat /\ Len(q) \in Nat
      /\ DOMAIN d = 1 .. Len(d) /\ DOMAIN q = 1 .. Len(q)
  BY <1>1
<1>4. Log!last <= sub_sequence_number
  <2>1. CASE log = <<>>
    BY <2>1 DEF OrderInv, PositionBounds, Log!last
  <2>2. CASE log # <<>> /\ Len(q) = 0
    BY <1>2, <1>3, <2>2 DEF OrderInv, PositionBounds, Log!last
  <2>3. CASE log # <<>> /\ Len(q) > 0
    <3>1. log[Len(log)] = q[Len(q)]
      BY <1>2, <1>3, <2>3
    <3> QED
      BY <1>3, <2>3, <3>1 DEF OrderInv, PositionBounds, Log!last
  <2> QED
    BY <1>3, <2>1, <2>2, <2>3
<1> QED
  BY <1>2, <1>4

\* Accepting an envelope appends it to the log.
LEMMA AcceptAppends ==
    ASSUME SubTypeOK, NEW envelope \in Received, Accept(envelope)
    PROVE  LET log == delivered \o message_envelopes IN
           /\ log \in Seq(Received) /\ Len(log) \in Nat
           /\ log' = log \o <<envelope>>
           /\ Len(log') = Len(log) + 1 /\ log'[Len(log) + 1] = envelope
           /\ \A i \in 1 .. Len(log) : log'[i] = log[i]
<1> DEFINE d == delivered
           q == message_envelopes
           log == d \o q
           single == <<envelope>>
<1>1. d \in Seq(Received) /\ q \in Seq(Received) /\ single \in Seq(Received)
  BY DEF SubTypeOK
<1>2. log' = log \o single
  <2>1. d' = d /\ q' = Append(q, envelope)
    BY DEF Accept
  <2>2. Append(q, envelope) = q \o single
    BY <1>1, AppendIsConcat
  <2>3. (d \o q) \o single = d \o (q \o single)
    BY <1>1, ConcatAssociative
  <2> QED
    BY <2>1, <2>2, <2>3
<1>3. log \in Seq(Received)
  BY <1>1, ConcatProperties
<1>4. Len(log) \in Nat /\ Len(single) = 1 /\ single[1] = envelope
  BY <1>3
<1>5. /\ Len(log \o single) = Len(log) + Len(single)
      /\ \A i \in 1 .. Len(log) + Len(single) :
             (log \o single)[i] = IF i <= Len(log) THEN log[i] ELSE single[i - Len(log)]
  BY <1>1, <1>3, ConcatProperties
<1>6. (log \o single)[Len(log) + 1] = envelope
  <2>1. Len(log) + 1 \in 1 .. Len(log) + Len(single)
    BY <1>4
  <2>2. (log \o single)[Len(log) + 1] = single[Len(log) + 1 - Len(log)]
    BY <1>4, <1>5, <2>1
  <2> QED
    BY <1>4, <2>2
<1>7. \A i \in 1 .. Len(log) : (log \o single)[i] = log[i]
  BY <1>4, <1>5
<1> HIDE DEF single
<1> QED
  BY <1>2, <1>3, <1>4, <1>5, <1>6, <1>7 DEF single

\* Accepting an envelope is the log's Accept.
LEMMA AcceptRefines ==
    ASSUME SubTypeOK, OrderInv, NEW envelope \in Received,
           envelope.sequence_number > sub_sequence_number, Accept(envelope)
    PROVE  Log!Accept
<1> DEFINE log == delivered \o message_envelopes
           single == <<envelope>>
<1>1. /\ log \in Seq(Received) /\ Len(log) \in Nat /\ log' = log \o single
      /\ Len(log') = Len(log) + 1 /\ log'[Len(log) + 1] = envelope
  BY AcceptAppends
<1>2. Log!last <= sub_sequence_number
  BY LogBelowPosition
<1>3. SubSeq(log', 1, Len(log)) = log
  <2>1. single \in Seq(Received)
    OBVIOUS
  <2> HIDE DEF log, single
  <2>2. CASE log = <<>>
    BY <1>1, <2>1, <2>2, SubSeqEmpty, ConcatProperties
  <2>3. CASE log # <<>>
    <3>1. 1 \in 1 .. Len(log) /\ Len(log) \in 1 .. Len(log)
      BY <1>1, <2>3
    <3>2. SubSeq(log \o single, 1, Len(log)) = SubSeq(log, 1, Len(log))
      BY <1>1, <2>1, <3>1, SubSeqOfConcat1
    <3> QED
      BY <1>1, <3>2, SubSeqFull
  <2> QED
    BY <2>2, <2>3
<1>4. log'[Len(log) + 1].sequence_number > Log!last
  <2>1. Log!last \in Nat
    <3>1. \A e \in Received : e.sequence_number \in Nat
      BY NumbersAssumption DEF Received
    <3>2. CASE log = <<>>
      BY <3>2 DEF Log!last, SubTypeOK
    <3>3. CASE log # <<>>
      <4>1. log[Len(log)] \in Received
        BY <1>1, <3>3
      <4> QED
        BY <3>1, <3>3, <4>1 DEF Log!last
    <3> QED
      BY <3>2, <3>3
  <2>2. sub_sequence_number \in Nat /\ envelope.sequence_number \in Nat
    BY NumbersAssumption DEF SubTypeOK, Received
  <2> QED
    BY <1>1, <1>2, <2>1, <2>2
<1>5. loaded' = loaded /\ Len(delivered)' = Len(delivered)
  BY DEF Accept
<1> QED
  BY <1>1, <1>3, <1>4, <1>5 DEF Log!Accept

\* poll() takes the next entry of the log, and the log stays as it is.
LEMMA PollKeepsLog ==
    ASSUME SubTypeOK, Poll
    PROVE  LET log == delivered \o message_envelopes IN
           /\ log' = log
           /\ Len(delivered)' = Len(delivered) + 1 /\ Len(delivered) < Len(log)
<1> DEFINE d == delivered
           q == message_envelopes
           log == d \o q
<1>1. d \in Seq(Received) /\ q \in Seq(Received) /\ q # <<>>
  BY DEF SubTypeOK, Poll
<1>2. d' = Append(d, Head(q)) /\ q' = Tail(q)
  BY DEF Poll
<1>3. /\ Head(q) \in Received /\ Tail(q) \in Seq(Received) /\ Len(Tail(q)) = Len(q) - 1
      /\ \A i \in 1 .. Len(Tail(q)) : Tail(q)[i] = q[i + 1]
      /\ Head(q) = q[1]
  BY <1>1, HeadTailProperties
<1>4. /\ Append(d, Head(q)) \in Seq(Received)
      /\ Len(Append(d, Head(q))) = Len(d) + 1
      /\ \A i \in 1 .. Len(d) : Append(d, Head(q))[i] = d[i]
      /\ Append(d, Head(q))[Len(d) + 1] = Head(q)
  BY <1>1, <1>3, AppendProperties
<1>5. Len(d) \in Nat /\ Len(q) \in Nat /\ Len(q) > 0
  BY <1>1
<1>6. /\ log \in Seq(Received)
      /\ Len(log) = Len(d) + Len(q)
      /\ \A i \in 1 .. Len(d) + Len(q) : log[i] = IF i <= Len(d) THEN d[i] ELSE q[i - Len(d)]
  BY <1>1, ConcatProperties
<1>7. /\ log' \in Seq(Received)
      /\ Len(log') = Len(d') + Len(q')
      /\ \A i \in 1 .. Len(d') + Len(q') : log'[i] = IF i <= Len(d') THEN d'[i] ELSE q'[i - Len(d')]
  <2>1. d' \in Seq(Received) /\ q' \in Seq(Received)
    BY <1>2, <1>3, <1>4
  <2> QED
    BY <2>1, ConcatProperties
<1>8. Len(log') = Len(log)
  BY <1>2, <1>3, <1>4, <1>5, <1>6, <1>7
<1>9. ASSUME NEW i \in 1 .. Len(log) PROVE log'[i] = log[i]
  <2>1. i \in 1 .. Len(d) + Len(q) /\ i \in 1 .. Len(d') + Len(q') /\ Len(d') = Len(d) + 1
    BY <1>2, <1>4, <1>6, <1>7, <1>8
  <2>2. CASE i <= Len(d)
    BY <1>2, <1>4, <1>5, <1>6, <1>7, <2>1, <2>2
  <2>3. CASE i = Len(d) + 1
    BY <1>2, <1>3, <1>4, <1>5, <1>6, <1>7, <2>1, <2>3
  <2>4. CASE i > Len(d) + 1
    <3>1. log'[i] = Tail(q)[i - (Len(d) + 1)] /\ log[i] = q[i - Len(d)]
      BY <1>2, <1>5, <1>6, <1>7, <2>1, <2>4
    <3>2. i - (Len(d) + 1) \in 1 .. Len(Tail(q))
      BY <1>3, <1>5, <2>1, <2>4
    <3>3. Tail(q)[i - (Len(d) + 1)] = q[i - (Len(d) + 1) + 1]
      BY <1>3, <3>2
    <3>4. i - (Len(d) + 1) + 1 = i - Len(d)
      BY <1>5
    <3> QED
      BY <3>1, <3>3, <3>4
  <2> QED
    BY <1>5, <2>1, <2>2, <2>3, <2>4
<1>10. log' = log
  BY <1>6, <1>7, <1>8, <1>9, SeqEqual
<1>11. Len(d)' = Len(d) + 1 /\ Len(d) < Len(log)
  BY <1>2, <1>4, <1>5, <1>6
<1> QED
  BY <1>10, <1>11

\* poll() is the log's Read.
LEMMA PollRefines ==
    ASSUME SubTypeOK, Poll
    PROVE  Log!Read
<1>1. loaded' = loaded
  BY DEF Poll
<1> QED
  BY <1>1, PollKeepsLog DEF Log!Read

\* Every step of the subscriber is a step of the log, its reader, or neither.
LEMMA LogStep ==
    ASSUME SubTypeOK, OrderInv, [OpenNext]_subVars
    PROVE  [Log!Accept \/ Log!Read]_<<loaded, delivered \o message_envelopes, Len(delivered)>>
<1> DEFINE Stutter == UNCHANGED <<loaded, delivered \o message_envelopes, Len(delivered)>>
<1>0. UNCHANGED logVars => Stutter
  BY DEF logVars
<1>1. ASSUME NEW envelope \in Sendable, Receive(envelope)
      PROVE  Log!Accept \/ Stutter
  <2>1. CASE ReceiveAhead(envelope)
    BY <1>0, <2>1 DEF ReceiveAhead
  <2>2. CASE ReceiveOld(envelope)
    BY <1>0, <2>2 DEF ReceiveOld, subVars
  <2>3. CASE ReceiveNext(envelope)
    <3>1. Transmitted(envelope) \in Received
      BY TransmittedType
    <3>2. Accept(Transmitted(envelope))
      BY <2>3 DEF ReceiveNext
    <3>3. Transmitted(envelope).sequence_number > sub_sequence_number
      BY <2>3 DEF ReceiveNext, SubTypeOK
    <3> QED
      BY <3>1, <3>2, <3>3, AcceptRefines
  <2> QED
    BY <1>1, <2>1, <2>2, <2>3 DEF Receive
<1>2. CASE ApplyMissed
  <2>1. Head(missed) \in Received
    BY <1>2 DEF ApplyMissed, SubTypeOK
  <2>2. CASE IsMissed(Head(missed)) /\ Accept(Head(missed))
    BY <2>1, <2>2, AcceptRefines DEF IsMissed
  <2>3. CASE UNCHANGED logVars
    BY <1>0, <2>3
  <2> QED
    BY <1>2, <2>2, <2>3 DEF ApplyMissed
<1>3. CASE Poll
  BY <1>3, PollRefines
<1>4. CASE \/ Startup \/ ReceiveError \/ (\E reply \in Seq(Sendable) : ReceiveResponse(reply))
           \/ ConnectReq \/ SendRequest \/ MissedApplied \/ FinishRecovery \/ RecoveryError
           \/ SubConnect \/ TimerStep \/ UNCHANGED subVars
  <2>1. UNCHANGED logVars
    BY <1>4 DEF Startup, ReceiveError, ReceiveResponse, ConnectReq, SendRequest, MissedApplied,
                FinishRecovery, RecoveryError, SubConnect, TimerStep, TimerWakes, TimerClears,
                TimerDisconnects, subVars
  <2> QED
    BY <1>0, <2>1
<1> QED
  BY <1>1, <1>2, <1>3, <1>4 DEF OpenNext, RecoveryStep

\* The subscriber implements the ordered log and its reader.
THEOREM SubscriberImplementsLog == SubSpec => ImplementsOrderedLog
<1>1. SubInit => Log!LogInit
  BY DEF SubInit, Log!LogInit
<1>2. SubTypeOK /\ OrderInv /\ [OpenNext]_subVars =>
          [Log!Accept \/ Log!Read]_<<loaded, delivered \o message_envelopes, Len(delivered)>>
  BY LogStep
<1>3. SubSpec => []OrderInv
  BY TypeCorrect, OrderInit, OrderStep, SubNextIsOpen, PTL DEF SubSpec
<1> QED
  BY <1>1, <1>2, <1>3, TypeCorrect, SubNextIsOpen, PTL DEF SubSpec, ImplementsOrderedLog, Log!LogSpec
=============================================================================
