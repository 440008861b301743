------------------------- MODULE MessagingCoreProofs --------------------------
(***************************************************************************)
(* What the composed system keeps true, for every number of messages and   *)
(* controllers.  The publishing side's steps are those of PublishPath and  *)
(* of the answering thread, the subscribing side's those of a Subscriber   *)
(* on an open network, so the invariants of the two carry over; what is    *)
(* added speaks of the paths between them.                                 *)
(***************************************************************************)
EXTENDS MessagingCore, PublishPathProofs, SubscriberProofs

-----------------------------------------------------------------------------
(* The two sides *)

\* The answering thread's steps, which PublishPath leaves out.
Answering ==
    /\ \/ requests # <<>> /\ ReceiveRequest(requests[1])
       \/ GetMessageEnvelopes
       \/ SendResponse
       \/ RepError
    /\ UNCHANGED intact

LEMMA PublishingSteps == [CoreNext]_coreVars => [PathNext]_pathVars \/ Answering
<1> SUFFICES ASSUME [CoreNext]_coreVars PROVE [PathNext]_pathVars \/ Answering
  OBVIOUS
<1>1. CASE PublishingSide
  BY <1>1 DEF PublishingSide, PathNext, PublisherStep, Answering
<1>2. CASE \E p \in Publishers : SendLive(p)
  BY <1>2 DEF SendLive, PathNext, PublisherStep
<1>3. CASE DeliverRequest \/ Answer
  BY <1>3 DEF DeliverRequest, Answer, Answering
<1>4. CASE CrashCore
  BY <1>4 DEF CrashCore, PathNext
<1>5. CASE SubscribingSide \/ ReceiveLive \/ Request \/ ReceiveAnswer \/ Disconnect
  BY <1>5 DEF SubscribingSide, ReceiveLive, Request, ReceiveAnswer, Disconnect
<1>6. CASE UNCHANGED coreVars
  BY <1>6 DEF coreVars
<1> QED
  BY <1>1, <1>2, <1>3, <1>4, <1>5, <1>6 DEF CoreNext

\* What is on the paths is what the two sides may send.
PathsTyped ==
    /\ wire \in Seq(Stored)
    /\ requests \in Seq(RecoveryRequest)
    /\ answer \in Seq(Seq(Stored))
    /\ rep_live \in BOOLEAN
    /\ scan \in [key : Nat, last : Nat, found : Seq(Stored)]

CoreTypes == Numbering /\ SubTypeOK /\ PathsTyped

LEMMA SubscribingSteps == CoreTypes /\ [CoreNext]_coreVars => [OpenNext]_subVars
<1> SUFFICES ASSUME CoreTypes, [CoreNext]_coreVars PROVE [OpenNext]_subVars
  OBVIOUS
<1>1. CASE SubscribingSide
  BY <1>1 DEF SubscribingSide, OpenNext, RecoveryStep, TimerStep
<1>2. CASE ReceiveLive
  <2>1. Head(wire) \in Sendable
    <3>1. wire # <<>> /\ wire \in Seq(Sendable)
      BY <1>2 DEF ReceiveLive, CoreTypes, PathsTyped, Stored, Sendable
    <3> QED
      BY <3>1
  <2> QED
    BY <1>2, <2>1 DEF ReceiveLive, OpenNext
<1>3. CASE ReceiveAnswer
  <2>1. answer[1] \in Seq(Sendable)
    <3>1. answer # <<>> /\ answer \in Seq(Seq(Sendable))
      BY <1>3 DEF ReceiveAnswer, CoreTypes, PathsTyped, Stored, Sendable
    <3> QED
      BY <3>1
  <2> QED
    BY <1>3, <2>1 DEF ReceiveAnswer, OpenNext
<1>4. CASE Request \/ Disconnect
  BY <1>4 DEF Request, Disconnect, OpenNext, RecoveryStep, TimerStep
<1>5. CASE PublishingSide \/ (\E p \in Publishers : SendLive(p)) \/ DeliverRequest \/ Answer
           \/ CrashCore \/ UNCHANGED coreVars
  BY <1>5 DEF PublishingSide, SendLive, DeliverRequest, Answer, CrashCore, coreVars
<1> QED
  BY <1>1, <1>2, <1>3, <1>4, <1>5 DEF CoreNext

-----------------------------------------------------------------------------
(* Types *)

\* The answering thread changes nothing the numbering speaks of.
LEMMA AnsweringNumbering ==
    ASSUME Numbering, Answering
    PROVE  Numbering'
<1>1. /\ UNCHANGED <<backend, store_sequence_number, store_message_envelope_queue, storing>>
      /\ UNCHANGED <<writing, db, serial, intact>>
      /\ UNCHANGED <<incoming_message_envelope_queue, pub_sequence_number, pub_pc, msg_envelope>>
      /\ UNCHANGED <<isPubBinded, pub_owner, rep_owner, published, sent>>
  BY DEF Answering, ReceiveRequest, BeginGet, GetMessageEnvelopes, GetStep, SelectRows,
         SelectFails, GetKey, SendResponse, RepError, storeVars, objectVars, storeThreadVars,
         tableVars, pubVars, pubThreadVars, bindVars
<1>2. /\ rep_pc' \in RepPoints
      /\ isRepBinded' \in [Publishers -> BOOLEAN]
  <2>1. rep_pc \in RepPoints /\ isRepBinded \in [Publishers -> BOOLEAN]
    BY DEF Numbering, Types, PathTypeOK
  <2> QED
    BY <2>1 DEF Answering, ReceiveRequest, GetMessageEnvelopes, SendResponse, RepError, RepPoints,
                pubVars, bindVars
<1>3. Rows' = Rows
  BY <1>1 DEF Rows
<1> QED
  BY <1>1, <1>2, <1>3 DEF Numbering, Types, PathTypeOK, Rowed, Queueing, Counting

LEMMA CoreNumbering == Numbering /\ [CoreNext]_coreVars => Numbering'
  BY PublishingSteps, NumberingNext, AnsweringNumbering

\* A list of rows is a list of envelopes.
LEMMA ScanTypes ==
    ASSUME CoreTypes, GetStep
    PROVE  scan' \in [key : Nat, last : Nat, found : Seq(Stored)]
<1>1. /\ scan \in [key : Nat, last : Nat, found : Seq(Stored)]
      /\ \A k \in Rows : db[k] \in Stored
  BY DEF CoreTypes, PathsTyped, Numbering, Types, PathTypeOK, Stored
<1>2. CASE SelectRows
  <2>1. PICK order \in RowOrders({k \in Rows : scan.key <= k /\ k <= scan.last}) :
            scan' = [ScanEmpty EXCEPT !.found = [i \in DOMAIN order |-> db[order[i]]]]
    BY <1>2 DEF SelectRows
  <2> DEFINE size == Cardinality({k \in Rows : scan.key <= k /\ k <= scan.last})
             found == [i \in DOMAIN order |-> db[order[i]]]
  <2>2. order \in [1 .. size -> Rows] /\ size \in Nat
    <3>1. IsFiniteSet({k \in Rows : scan.key <= k /\ k <= scan.last})
      BY FS_Subset DEF CoreTypes, Numbering, Rowed
    <3> QED
      BY <3>1, FS_CardinalityType DEF RowOrders
  <2>3. found \in Seq(Stored)
    <3> HIDE DEF size
    <3>1. found \in [1 .. size -> Stored]
      BY <1>1, <2>2
    <3> QED
      BY <2>2, <3>1
  <2>4. scan' = [key |-> 1, last |-> 0, found |-> found]
    BY <2>1 DEF ScanEmpty
  <2> HIDE DEF found
  <2> QED
    BY <2>3, <2>4
<1>3. CASE SelectFails
  BY <1>3 DEF SelectFails, ScanEmpty
<1>4. CASE GetKey
  <2>1. scan.key \in Nat /\ scan.last \in Nat /\ scan.found \in Seq(Stored)
    BY <1>1
  <2>2. scan' = [key |-> scan.key + 1, last |-> scan.last,
                 found |-> IF scan.key \in Rows THEN Append(scan.found, db[scan.key])
                                                ELSE scan.found]
    BY <1>1, <1>4 DEF GetKey
  <2>3. scan.key \in Rows => Append(scan.found, db[scan.key]) \in Seq(Stored)
    BY <1>1, <2>1
  <2> QED
    BY <2>1, <2>2, <2>3
<1> QED
  BY <1>2, <1>3, <1>4 DEF GetStep

\* The range a request begins with.
LEMMA BeginTypes ==
    ASSUME CoreTypes, NEW req \in RecoveryRequest,
           BeginGet(TransmittedRequest(req).start_sequence_number,
                    TransmittedRequest(req).end_sequence_number)
    PROVE  /\ scan' \in [key : Nat, last : Nat, found : Seq(Stored)]
           /\ scan'.found = <<>>
           /\ backend = "POSTGRESQL" =>
                scan' = ScanEmpty \/ scan'.key <= req.start_sequence_number
<1> DEFINE start == TransmittedRequest(req).start_sequence_number
           end == TransmittedRequest(req).end_sequence_number
<1>1. start \in Nat /\ end \in Nat /\ start <= req.start_sequence_number
  BY NumbersAssumption DEF TransmittedRequest, ValueInt, RecoveryRequest
<1>2. store_sequence_number \in Nat
  BY DEF CoreTypes, Numbering, Types, PathTypeOK
<1>3. BeginGet(start, end)
  OBVIOUS
<1> HIDE DEF start, end
<1>4. CASE backend = "NULL_DB"
  BY <1>1, <1>3, <1>4 DEF BeginGet
<1>5. CASE backend # "NULL_DB" /\ store_sequence_number = 0
  BY <1>3, <1>5 DEF BeginGet, ScanEmpty
<1>6. CASE backend # "NULL_DB" /\ store_sequence_number # 0
  <2>1. scan' = [key   |-> IF backend = "LMDB" /\ start = 0 THEN 1 ELSE start,
                 last  |-> IF end = 0 THEN store_sequence_number ELSE end,
                 found |-> <<>>]
    BY <1>3, <1>6 DEF BeginGet
  <2> QED
    BY <1>1, <1>2, <2>1
<1> QED
  BY <1>4, <1>5, <1>6

LEMMA NothingOnPaths ==
    /\ ScanEmpty \in [key : Nat, last : Nat, found : Seq(Stored)]
    /\ <<>> \in Seq(Stored) /\ <<>> \in Seq(RecoveryRequest) /\ <<>> \in Seq(Seq(Stored))
<1>1. <<>> \in Seq(Stored)
  OBVIOUS
<1> QED
  BY <1>1 DEF ScanEmpty

\* What the paths carry, step by step.
LEMMA PathsTypedNext == CoreTypes /\ [CoreNext]_coreVars => PathsTyped'
<1> SUFFICES ASSUME CoreTypes, [CoreNext]_coreVars PROVE PathsTyped'
  OBVIOUS
<1>1. CASE PublishingSide
  <2>1. UNCHANGED <<wire, requests, rep_live, answer>>
    BY <1>1 DEF PublishingSide, reqVars
  <2>2. scan' \in [key : Nat, last : Nat, found : Seq(Stored)]
    <3>1. CASE GetMessageEnvelopes
      BY <3>1, ScanTypes DEF GetMessageEnvelopes
    <3>2. CASE ~ GetMessageEnvelopes
      <4>1. UNCHANGED scan
        BY <1>1, <3>2 DEF PublishingSide, Publish, TakeMessage, StoreMessage,
              StoreMessageEnvelope, SendError, BindPub, BindRep, PopStored, WriteRow,
              InsertFails, RepError, storeVars
      <4> QED
        BY <4>1 DEF CoreTypes, PathsTyped
    <3> QED
      BY <3>1, <3>2
  <2> QED
    BY <2>1, <2>2 DEF CoreTypes, PathsTyped
<1>2. CASE SubscribingSide
  BY <1>2 DEF SubscribingSide, pathVars, storeVars, reqVars, CoreTypes, PathsTyped
<1>3. ASSUME NEW p \in Publishers, SendLive(p) PROVE PathsTyped'
  <2>1. msg_envelope[p] \in Stored
    BY <1>3 DEF SendLive, SendMessage, CoreTypes, Numbering, Types
  <2>2. wire' \in {wire, Append(wire, msg_envelope[p])}
    BY <1>3 DEF SendLive
  <2>3. wire' \in Seq(Stored)
    <3>1. wire \in Seq(Stored)
      BY DEF CoreTypes, PathsTyped
    <3> QED
      BY <2>1, <2>2, <3>1, AppendProperties
  <2>4. UNCHANGED <<scan, requests, rep_live, answer>>
    BY <1>3 DEF SendLive, SendMessage, storeVars, reqVars
  <2> QED
    BY <2>3, <2>4 DEF CoreTypes, PathsTyped
<1>4. CASE ReceiveLive
  <2>1. wire # <<>> /\ wire' = Tail(wire) /\ UNCHANGED <<scan, requests, rep_live, answer>>
    BY <1>4 DEF ReceiveLive, pathVars, storeVars, reqVars
  <2> QED
    BY <2>1 DEF CoreTypes, PathsTyped
<1>5. CASE Request
  <2>1. requests' \in Seq(RecoveryRequest)
    BY <1>5 DEF Request, CoreTypes, SubTypeOK
  <2> QED
    BY <1>5, <2>1 DEF Request, pathVars, storeVars, CoreTypes, PathsTyped
<1>6. CASE DeliverRequest
  <2>1. requests[1] \in RecoveryRequest
    <3>1. requests # <<>> /\ requests \in Seq(RecoveryRequest)
      BY <1>6 DEF DeliverRequest, CoreTypes, PathsTyped
    <3> QED
      BY <3>1
  <2>2. scan' \in [key : Nat, last : Nat, found : Seq(Stored)]
    <3>1. CASE UseStorage
      BY <1>6, <2>1, <3>1, BeginTypes DEF DeliverRequest, ReceiveRequest
    <3>2. CASE ~ UseStorage
      BY <1>6, <3>2 DEF DeliverRequest, ReceiveRequest, storeVars, CoreTypes, PathsTyped
    <3> QED
      BY <3>1, <3>2
  <2>3. requests' = <<>> /\ rep_live' = TRUE /\ UNCHANGED <<wire, answer>>
    BY <1>6 DEF DeliverRequest
  <2> QED
    BY <2>2, <2>3 DEF CoreTypes, PathsTyped
<1>7. CASE Answer
  <2>1. /\ answer' \in {<<scan.found>>, answer} /\ scan' = ScanEmpty
        /\ rep_live' = FALSE /\ UNCHANGED <<wire, requests>>
    BY <1>7 DEF Answer, SendResponse
  <2>2. scan.found \in Seq(Stored)
    BY DEF CoreTypes, PathsTyped
  <2>3. <<scan.found>> \in Seq(Seq(Stored))
    BY <2>2
  <2> QED
    BY <2>1, <2>3, NothingOnPaths DEF CoreTypes, PathsTyped
<1>8. CASE ReceiveAnswer
  <2>1. answer' = <<>> /\ UNCHANGED <<scan, wire, requests, rep_live>>
    BY <1>8 DEF ReceiveAnswer, pathVars, storeVars
  <2> QED
    BY <2>1 DEF CoreTypes, PathsTyped
<1>9. CASE Disconnect
  <2>1. requests' = <<>> /\ answer' = <<>> /\ rep_live' = FALSE /\ UNCHANGED <<scan, wire>>
    BY <1>9 DEF Disconnect, Disconnected, pathVars, storeVars
  <2> QED
    BY <2>1, NothingOnPaths DEF CoreTypes, PathsTyped
<1>10. CASE CrashCore
  <2>1. PICK n \in 0 .. Len(wire) : wire' = SubSeq(wire, 1, n)
    BY <1>10 DEF CrashCore
  <2>2. wire \in Seq(Stored) /\ n \in Nat /\ n <= Len(wire)
    BY DEF CoreTypes, PathsTyped
  <2>3. wire' \in Seq(Stored)
    BY <2>1, <2>2
  <2>4. /\ requests' \in {requests, <<>>} /\ answer' \in {answer, <<>>}
        /\ rep_live' = FALSE /\ scan' = ScanEmpty
    BY <1>10 DEF CrashCore, Crash, StoreRestart, StoreRestartAs
  <2> QED
    BY <2>3, <2>4, NothingOnPaths DEF CoreTypes, PathsTyped
<1>11. CASE UNCHANGED coreVars
  BY <1>11 DEF coreVars, pathVars, storeVars, reqVars, CoreTypes, PathsTyped
<1> QED
  BY <1>1, <1>2, <1>3, <1>4, <1>5, <1>6, <1>7, <1>8, <1>9, <1>10, <1>11 DEF CoreNext

LEMMA CoreTypesHold == CoreSpec => []CoreTypes
<1>1. CoreInit => CoreTypes
  <2> SUFFICES ASSUME CoreInit PROVE CoreTypes
    OBVIOUS
  <2>1. /\ wire = <<>> /\ requests = <<>> /\ answer = <<>>
        /\ rep_live = FALSE /\ scan = ScanEmpty
    BY DEF CoreInit, PathInit, StoreInit
  <2>2. PathsTyped
    BY <2>1, NothingOnPaths DEF PathsTyped
  <2> QED
    BY <2>2, NumberingInit, TypeInit DEF CoreInit, CoreTypes
<1>2. CoreTypes /\ [CoreNext]_coreVars => CoreTypes'
  BY CoreNumbering, SubscribingSteps, TypeStep, PathsTypedNext DEF CoreTypes
<1> QED
  BY <1>1, <1>2, PTL DEF CoreSpec

-----------------------------------------------------------------------------
(* Requests and answers *)

\* AnswerIsAwaited, of a request on its way and of one being answered as well: there
\* is at most one of the three, and the thread that asked waits for it, or is about to
\* disconnect, on the connection it asked by.
Exchange ==
    /\ requests # <<>> \/ rep_live \/ answer # <<>> =>
           sub_pc \in {"await", "disconnect"} /\ req_connected
    /\ requests # <<>> => ~ rep_live /\ answer = <<>>
    /\ rep_live => answer = <<>>

LEMMA ExchangeNext == CoreTypes /\ Exchange /\ [CoreNext]_coreVars => Exchange'
<1> SUFFICES ASSUME CoreTypes, Exchange, [CoreNext]_coreVars PROVE Exchange'
  OBVIOUS
<1> USE DEF Exchange
<1>1. CASE PublishingSide \/ (\E p \in Publishers : SendLive(p))
  BY <1>1 DEF PublishingSide, SendLive, subVars, recoveryVars, reqVars
<1>2. CASE SubscribingSide
  <2>1. UNCHANGED reqVars
    BY <1>2 DEF SubscribingSide
  <2>2. sub_pc \in {"await", "disconnect"} /\ req_connected =>
            sub_pc' \in {"await", "disconnect"} /\ req_connected'
    BY <1>2 DEF SubscribingSide, Startup, ConnectReq, ApplyMissed, MissedApplied, SubConnect,
          TimerWakes, TimerClears, Poll, RecoveryError, ErrorExit, ReceiveError, recoveryVars
  <2> QED
    BY <2>1, <2>2 DEF reqVars
<1>3. CASE ReceiveLive
  <2>1. sub_pc = "receive" /\ UNCHANGED reqVars
    BY <1>3 DEF ReceiveLive, Receive, ReceiveAhead, ReceiveOld, ReceiveNext
  <2> QED
    BY <2>1 DEF reqVars
<1>4. CASE Request
  BY <1>4 DEF Request, SendRequest, recoveryVars
<1>5. CASE DeliverRequest \/ Answer
  BY <1>5 DEF DeliverRequest, Answer, subVars, recoveryVars, CoreTypes, PathsTyped
<1>6. CASE ReceiveAnswer
  BY <1>6 DEF ReceiveAnswer
<1>7. CASE Disconnect
  BY <1>7 DEF Disconnect, Disconnected
<1>8. CASE CrashCore
  BY <1>8 DEF CrashCore, subVars, recoveryVars
<1>9. CASE UNCHANGED coreVars
  BY <1>9 DEF coreVars, subVars, recoveryVars, reqVars
<1> QED
  BY <1>1, <1>2, <1>3, <1>4, <1>5, <1>6, <1>7, <1>8, <1>9 DEF CoreNext

LEMMA ExchangeHolds == CoreSpec => []Exchange
<1>1. CoreInit => Exchange
  BY DEF CoreInit, Exchange
<1> QED
  BY <1>1, ExchangeNext, CoreTypesHold, PTL DEF CoreSpec

\* No answer is in flight but for the thread that asked for it, on the connection it
\* asked by, whatever fails and however late a controller disconnects (do_recovery,
\* its catch block and recovery_time_controller_thread_fn).
THEOREM AnswersAreAwaited == CoreSpec => []AnswerIsAwaited
<1>1. Exchange => AnswerIsAwaited
  BY DEF Exchange, AnswerIsAwaited
<1> QED
  BY <1>1, ExchangeHolds, PTL

-----------------------------------------------------------------------------
(* Recovery leaves nothing out *)

\* The steps that touch the table.
LEMMA TableSteps ==
    ASSUME [CoreNext]_coreVars
    PROVE  /\ UNCHANGED backend
           /\ WriteRow \/ InsertFails \/ Crash \/ UNCHANGED <<db, serial>>
<1>1. CASE [PathNext]_pathVars
  BY <1>1 DEF PathNext, pathVars, PublisherStep, Publish, TakeMessage, StoreMessage,
        StoreMessageEnvelope, SendMessage, SendError, BindPub, BindRep, PopStored, WriteRow,
        InsertFails, Crash, StoreRestart, StoreRestartAs, storeVars, objectVars, tableVars
<1>2. CASE Answering
  BY <1>2 DEF Answering, ReceiveRequest, BeginGet, GetMessageEnvelopes, GetStep, SelectRows,
        SelectFails, GetKey, SendResponse, RepError, storeVars, objectVars, tableVars
<1> QED
  BY <1>1, <1>2, PublishingSteps

\* Once the serial has run ahead of the rows it stays ahead.
LEMMA SerialStaysAhead ==
    ASSUME Numbering, [CoreNext]_coreVars, SerialIntact'
    PROVE  SerialIntact
<1>1. serial \in Nat /\ IsFiniteSet(Rows) /\ Cardinality(Rows) \in Nat
  BY FS_CardinalityType DEF Numbering, Types, PathTypeOK, Rowed
<1>2. CASE backend # "POSTGRESQL"
  BY <1>2 DEF Numbering, Rowed, SerialIntact
<1>3. CASE backend = "POSTGRESQL"
  <2>1. Cardinality(Rows) <= serial
    <3>1. Rows \subseteq 1 .. serial
      BY <1>3 DEF Numbering, Rowed
    <3>2. IsFiniteSet(1 .. serial) /\ Cardinality(1 .. serial) = serial
      BY <1>1, SegmentSize
    <3> QED
      BY <3>1, <3>2, FS_Subset
  <2>2. CASE WriteRow
    <3>1. serial' = serial + 1 /\ Cardinality(Rows') = Cardinality(Rows) + 1
      BY <1>3, <2>2, NewRow DEF NewKey
    <3> QED
      BY <1>1, <3>1 DEF SerialIntact
  <2>3. CASE InsertFails \/ Crash
    <3>1. db' = db /\ serial' \in {serial, serial + 1}
      BY <1>3, <2>3 DEF InsertFails, Crash, StoreRestart, StoreRestartAs
    <3>2. Cardinality(Rows)' = Cardinality(Rows)
      BY <3>1 DEF Rows
    <3> QED
      BY <1>1, <2>1, <3>1, <3>2 DEF SerialIntact
  <2>4. CASE UNCHANGED <<db, serial>>
    BY <2>4 DEF SerialIntact, Rows
  <2> QED
    BY <2>2, <2>3, <2>4, TableSteps
<1> QED
  BY <1>2, <1>3

\* The database's own numbers are in its rows.
RowsNumbered == backend = "POSTGRESQL" => \A k \in Rows : db[k].sequence_number = k

LEMMA RowsNumberedNext == Numbering /\ RowsNumbered /\ [CoreNext]_coreVars => RowsNumbered'
<1> SUFFICES ASSUME Numbering, RowsNumbered, [CoreNext]_coreVars, backend' = "POSTGRESQL"
             PROVE  \A k \in Rows' : db'[k].sequence_number = k
  BY DEF RowsNumbered
<1>1. backend = "POSTGRESQL"
  BY TableSteps
<1>2. CASE WriteRow
  <2>1. /\ Rows' = Rows \cup {NewKey} /\ db'[NewKey] = Written
        /\ \A k \in Rows : db'[k] = db[k]
        /\ writing # <<>> /\ Len(writing) = 1
    BY <1>2, NewRow
  <2>2. writing[1] \in Stored
    BY <2>1, OnlyElement DEF Numbering, Types, PathTypeOK
  <2>3. Written.sequence_number = NewKey
    BY <1>1, <2>2 DEF Written, Stored
  <2> QED
    BY <1>1, <2>1, <2>3 DEF RowsNumbered
<1>3. CASE InsertFails \/ Crash
  BY <1>1, <1>3 DEF InsertFails, Crash, StoreRestart, StoreRestartAs, RowsNumbered, Rows
<1>4. CASE UNCHANGED <<db, serial>>
  BY <1>1, <1>4 DEF RowsNumbered, Rows
<1> QED
  BY <1>2, <1>3, <1>4, TableSteps

\* A list that starts at n or below and never steps up by more than one: taken in order
\* from n - 1 on, it leaves nothing out.
Stepwise(envelopes, n) ==
    /\ envelopes # <<>> => envelopes[1].sequence_number <= n
    /\ \A i \in DOMAIN envelopes :
           i + 1 \in DOMAIN envelopes =>
               envelopes[i + 1].sequence_number <= envelopes[i].sequence_number + 1

LEMMA NothingStepwise ==
    ASSUME NEW n
    PROVE  Stepwise(<<>>, n)
  BY DEF Stepwise

\* Clamping the numbers to an int keeps the steps.
LEMMA TransmittedStepwise ==
    ASSUME NEW envelopes \in Seq(Sendable), NEW n \in Nat, Stepwise(envelopes, n)
    PROVE  Stepwise(TransmittedList(envelopes), n)
<1> DEFINE heard == TransmittedList(envelopes)
<1>1. DOMAIN heard = DOMAIN envelopes /\ DOMAIN envelopes = 1 .. Len(envelopes)
  BY DEF TransmittedList
<1>2. ASSUME NEW i \in DOMAIN envelopes
      PROVE  /\ envelopes[i].sequence_number \in Nat
             /\ heard[i].sequence_number = ValueInt(envelopes[i].sequence_number)
  <2>1. envelopes[i] \in Sendable
    OBVIOUS
  <2>2. heard[i] = Transmitted(envelopes[i])
    BY DEF TransmittedList
  <2> HIDE DEF heard
  <2> QED
    BY <2>1, <2>2 DEF Transmitted, Sendable
<1>3. IntMax \in Nat
  BY NumbersAssumption
<1>4. ASSUME heard # <<>> PROVE heard[1].sequence_number <= n
  <2>1. 1 \in DOMAIN envelopes /\ envelopes # <<>>
    <3>1. Len(envelopes) # 0
      BY <1>1, <1>4 DEF TransmittedList
    <3> QED
      BY <1>1, <3>1
  <2> QED
    BY <1>2, <1>3, <2>1 DEF Stepwise, ValueInt
<1>5. ASSUME NEW i \in DOMAIN heard, i + 1 \in DOMAIN heard
      PROVE  heard[i + 1].sequence_number <= heard[i].sequence_number + 1
  BY <1>1, <1>2, <1>3, <1>5 DEF Stepwise, ValueInt
<1> HIDE DEF heard
<1> QED
  BY <1>4, <1>5 DEF Stepwise, heard

\* One statement, in key order, over rows without a hole.
LEMMA SelectedStepwise ==
    ASSUME CoreTypes, RowsNumbered, backend = "POSTGRESQL", RowsInKeyOrder, SerialIntact,
           SelectRows, NEW n \in Nat \ {0}, scan.key <= n
    PROVE  Stepwise(scan'.found, n)
<1> DEFINE keys == {k \in Rows : scan.key <= k /\ k <= scan.last}
<1>1. PICK order \in RowOrders(keys) :
          scan' = [ScanEmpty EXCEPT !.found = [i \in DOMAIN order |-> db[order[i]]]]
  BY DEF SelectRows
<1> DEFINE found == [i \in DOMAIN order |-> db[order[i]]]
<1>2. scan'.found = found
  BY <1>1 DEF ScanEmpty
<1>3. Rows = 1 .. Cardinality(Rows) /\ Cardinality(Rows) \in Nat
  <2>1. /\ serial \in Nat /\ Rows \subseteq 1 .. serial
        /\ IsFiniteSet(Rows) /\ Cardinality(Rows) \in Nat
    BY FS_CardinalityType DEF CoreTypes, Numbering, Types, PathTypeOK, Rowed
  <2>2. CASE serial = 0
    <3>1. 1 .. 0 = {}
      OBVIOUS
    <3>2. Rows = {}
      BY <2>1, <2>2, <3>1
    <3> QED
      BY <3>1, <3>2, FS_EmptySet
  <2>3. CASE serial = Cardinality(Rows)
    <3>1. IsFiniteSet(1 .. serial) /\ Cardinality(1 .. serial) = serial
      BY <2>1, SegmentSize
    <3> QED
      BY <2>1, <2>3, <3>1, FS_Subset
  <2> QED
    BY <2>2, <2>3 DEF SerialIntact
<1>4. /\ order \in [1 .. Cardinality(keys) -> keys] /\ Cardinality(keys) \in Nat
      /\ \A k \in keys : \E i \in DOMAIN order : order[i] = k
      /\ \A i, j \in DOMAIN order : i < j => order[i] < order[j]
  <2>1. IsFiniteSet(keys)
    BY FS_Subset DEF CoreTypes, Numbering, Rowed
  <2> QED
    BY <2>1, FS_CardinalityType DEF RowOrders
<1>5. scan.key \in Nat /\ scan.last \in Nat
  BY DEF CoreTypes, PathsTyped
<1>6. \A k \in Nat : k \in keys <=> 1 <= k /\ k <= Cardinality(Rows) /\ scan.key <= k /\ k <= scan.last
  BY <1>3
<1>7. keys \subseteq Nat /\ \A k \in keys : db[k].sequence_number = k
  BY <1>3 DEF RowsNumbered
<1> HIDE DEF keys
<1>8. DOMAIN order = 1 .. Cardinality(keys)
  BY <1>4
<1>9. ASSUME NEW i \in DOMAIN order
      PROVE  /\ order[i] \in keys /\ order[i] \in Nat /\ i \in Nat /\ i >= 1
             /\ found[i].sequence_number = order[i]
  BY <1>4, <1>7, <1>8, <1>9
<1>10. DOMAIN found = DOMAIN order
  OBVIOUS
<1> HIDE DEF found
<1>11. ASSUME 1 \in DOMAIN order PROVE order[1] <= n
  <2> SUFFICES ASSUME order[1] > n PROVE FALSE
    BY <1>9, <1>11
  <2>1. n \in keys
    BY <1>3, <1>5, <1>6, <1>9, <1>11
  <2>2. PICK j \in DOMAIN order : order[j] = n
    BY <1>4, <2>1
  <2>3. j = 1 \/ order[1] < order[j]
    BY <1>4, <1>9, <1>11, <2>2
  <2> QED
    BY <1>9, <1>11, <2>2, <2>3
<1>12. ASSUME NEW i \in DOMAIN order, i + 1 \in DOMAIN order
       PROVE  order[i + 1] <= order[i] + 1
  <2> SUFFICES ASSUME order[i + 1] > order[i] + 1 PROVE FALSE
    BY <1>9, <1>12
  <2>1. order[i] + 1 \in keys
    BY <1>3, <1>5, <1>6, <1>9, <1>12
  <2>2. PICK j \in DOMAIN order : order[j] = order[i] + 1
    BY <1>4, <2>1
  <2>3. ~ (j < i) /\ j # i
    BY <1>4, <1>9, <2>2
  <2>4. ~ (i + 1 < j) /\ j # i + 1
    BY <1>4, <1>9, <1>12, <2>2
  <2> QED
    BY <1>9, <2>2, <2>3, <2>4
<1>13. found # <<>> => 1 \in DOMAIN order
  BY <1>4, <1>8 DEF found
<1>14. found # <<>> => found[1].sequence_number <= n
  BY <1>9, <1>11, <1>13
<1> QED
  BY <1>2, <1>9, <1>10, <1>12, <1>14 DEF Stepwise

\* NoGap, with the position at the end of what was accepted.
Gapless ==
    /\ sub_sequence_number = loaded + Len(Accepted_log)
    /\ \A i \in DOMAIN Accepted_log : Accepted_log[i].sequence_number = loaded + i

LEMMA GaplessAccept ==
    ASSUME SubTypeOK, Gapless, NEW envelope \in Received, Accept(envelope),
           envelope.sequence_number = sub_sequence_number + 1
    PROVE  Gapless'
<1>1. /\ Accepted_log \in Seq(Received) /\ Len(Accepted_log) \in Nat
      /\ Accepted_log' = Accepted_log \o <<envelope>>
      /\ Len(Accepted_log') = Len(Accepted_log) + 1
      /\ Accepted_log'[Len(Accepted_log) + 1] = envelope
      /\ \A i \in 1 .. Len(Accepted_log) : Accepted_log'[i] = Accepted_log[i]
  BY AcceptAppends DEF Accepted_log
<1>2. DOMAIN Accepted_log' = 1 .. Len(Accepted_log) + 1
  <2>1. Accepted_log' \in Seq(Received)
    BY <1>1, ConcatProperties
  <2> QED
    BY <1>1, <2>1
<1>3. DOMAIN Accepted_log = 1 .. Len(Accepted_log)
  BY <1>1
<1>4. loaded' = loaded /\ loaded \in Nat /\ sub_sequence_number' = envelope.sequence_number
  BY DEF Accept, SubTypeOK
<1>5. sub_sequence_number' = loaded' + Len(Accepted_log')
  BY <1>1, <1>4 DEF Gapless
<1>6. ASSUME NEW i \in DOMAIN Accepted_log'
      PROVE  Accepted_log'[i].sequence_number = loaded' + i
  <2>1. CASE i \in 1 .. Len(Accepted_log)
    BY <1>1, <1>3, <1>4, <2>1 DEF Gapless
  <2>2. CASE i = Len(Accepted_log) + 1
    BY <1>1, <1>4, <2>2 DEF Gapless
  <2> QED
    BY <1>1, <1>2, <2>1, <2>2
<1> QED
  BY <1>5, <1>6 DEF Gapless

LEMMA GaplessPoll ==
    ASSUME SubTypeOK, Gapless, Poll
    PROVE  Gapless'
<1>1. Accepted_log' = Accepted_log
  BY PollKeepsLog DEF Accepted_log
<1> QED
  BY <1>1 DEF Poll, Gapless

\* A request asks from where the position is, or before: nothing moves the position
\* while it is made, on its way or answered.
Asking ==
    /\ sub_pc \in {"connect", "send", "await"} =>
           request.start_sequence_number <= sub_sequence_number + 1
    /\ requests # <<>> => requests[1].start_sequence_number <= sub_sequence_number + 1

\* So does the answer begin there, as long as the rows have no hole.
Answered ==
    /\ rep_live =>
         /\ Scanning => scan.key <= sub_sequence_number + 1
         /\ Stepwise(scan.found, sub_sequence_number + 1)
    /\ answer # <<>> => Stepwise(answer[1], sub_sequence_number + 1)
    /\ sub_pc = "apply" => Stepwise(missed, sub_sequence_number + 1)

\* The inductive invariant behind NoGap.
Following == RowsNumbered /\ Asking /\ (SerialIntact => Answered /\ Gapless)

\* The steps of the subscriber that begin a recovery, or do not.
LEMMA AskingDoRecovery ==
    ASSUME NEW start, NEW end, DoRecovery(start, end), start <= sub_sequence_number + 1
    PROVE  sub_pc' \in {"connect", "send", "await"} =>
               request'.start_sequence_number <= sub_sequence_number + 1
<1>1. CASE RecoverySuppressed
  BY <1>1 DEF RecoverySuppressed
<1>2. CASE RecoveryBegins(start, end)
  BY <1>2 DEF RecoveryBegins
<1> QED
  BY <1>1, <1>2 DEF DoRecovery

LEMMA AskingNext ==
    ASSUME CoreTypes, Exchange, Asking, [CoreNext]_coreVars
    PROVE  Asking'
<1> USE DEF Asking
<1>0. sub_sequence_number \in Nat
  BY DEF CoreTypes, SubTypeOK
<1>1. CASE PublishingSide \/ \E p \in Publishers : SendLive(p)
  BY <1>1 DEF PublishingSide, SendLive, subVars, logVars, recoveryVars, reqVars
<1>2. CASE SubscribingSide
  <2>1. UNCHANGED requests
    BY <1>2 DEF SubscribingSide, reqVars
  <2>2. CASE Startup
    <3>1. DoRecovery(sub_sequence_number, 0) /\ UNCHANGED sub_sequence_number
      BY <2>2 DEF Startup, logVars
    <3>2. sub_sequence_number <= sub_sequence_number + 1
      BY <1>0
    <3> QED
      BY <2>1, <3>1, <3>2, AskingDoRecovery
  <2>3. CASE ApplyMissed
    BY <2>1, <2>3 DEF ApplyMissed, Exchange
  <2>4. CASE ConnectReq \/ MissedApplied \/ SubConnect \/ TimerWakes \/ TimerClears \/ Poll
             \/ RecoveryError \/ ReceiveError
    BY <2>1, <2>4 DEF ConnectReq, MissedApplied, SubConnect, TimerWakes, TimerClears, Poll,
          RecoveryError, ErrorExit, ReceiveError, logVars, recoveryVars
  <2> QED
    BY <1>2, <2>2, <2>3, <2>4 DEF SubscribingSide
<1>3. CASE ReceiveLive
  <2>1. requests = <<>> /\ requests' = requests
    BY <1>3 DEF ReceiveLive, Receive, ReceiveAhead, ReceiveOld, ReceiveNext, Exchange, reqVars
  <2>2. CASE ReceiveAhead(Head(wire))
    <3>1. /\ DoRecovery(FirstMissing, Transmitted(Head(wire)).sequence_number)
          /\ UNCHANGED sub_sequence_number
      BY <2>2 DEF ReceiveAhead, logVars
    <3>2. FirstMissing <= sub_sequence_number + 1
      BY <1>0 DEF FirstMissing
    <3> QED
      BY <2>1, <3>1, <3>2, AskingDoRecovery
  <2>3. CASE ReceiveOld(Head(wire)) \/ ReceiveNext(Head(wire))
    BY <2>1, <2>3 DEF ReceiveOld, ReceiveNext, subVars
  <2> QED
    BY <1>3, <2>2, <2>3 DEF ReceiveLive, Receive
<1>4. CASE Request
  BY <1>4 DEF Request, SendRequest, logVars, recoveryVars
<1>5. CASE DeliverRequest \/ Answer
  BY <1>5 DEF DeliverRequest, Answer, subVars, logVars, recoveryVars
<1>6. CASE ReceiveAnswer
  <2>1. requests = <<>> /\ requests' = requests /\ sub_pc' = "apply"
    BY <1>6 DEF ReceiveAnswer, ReceiveResponse, Exchange
  <2> QED
    BY <2>1
<1>7. CASE Disconnect
  BY <1>7 DEF Disconnect, Disconnected, FinishRecovery, TimerDisconnects, logVars
<1>8. CASE CrashCore
  BY <1>8 DEF CrashCore, subVars, logVars, recoveryVars
<1>9. CASE UNCHANGED coreVars
  BY <1>9 DEF coreVars, subVars, logVars, recoveryVars, reqVars
<1> QED
  BY <1>1, <1>2, <1>3, <1>4, <1>5, <1>6, <1>7, <1>8, <1>9 DEF CoreNext

\* What follows the first envelope of a stepwise list.
LEMMA TailStepwise ==
    ASSUME NEW envelopes \in Seq(Received), envelopes # <<>>, NEW n, Stepwise(envelopes, n),
           NEW m \in Nat, Head(envelopes).sequence_number + 1 <= m
    PROVE  Stepwise(Tail(envelopes), m)
<1> DEFINE rest == Tail(envelopes)
<1>1. /\ 1 \in DOMAIN envelopes /\ Head(envelopes) = envelopes[1]
      /\ \A j \in DOMAIN rest :
             j \in Nat /\ j >= 1 /\ j + 1 \in DOMAIN envelopes /\ rest[j] = envelopes[j + 1]
  BY TailEntries
<1>2. \A i \in DOMAIN envelopes : envelopes[i].sequence_number \in Nat
  <2>1. \A i \in DOMAIN envelopes : envelopes[i] \in Received
    OBVIOUS
  <2>2. \A e \in Received : e.sequence_number \in Nat
    BY NumbersAssumption DEF Received
  <2> QED
    BY <2>1, <2>2
<1>3. rest # <<>> => 1 \in DOMAIN rest
  <2>1. rest \in Seq(Received)
    OBVIOUS
  <2> HIDE DEF rest
  <2> QED
    BY <2>1
<1> HIDE DEF rest
<1>4. rest # <<>> => rest[1].sequence_number <= m
  BY <1>1, <1>2, <1>3 DEF Stepwise
<1>5. ASSUME NEW i \in DOMAIN rest, i + 1 \in DOMAIN rest
      PROVE  rest[i + 1].sequence_number <= rest[i].sequence_number + 1
  BY <1>1, <1>2, <1>5 DEF Stepwise
<1> QED
  BY <1>4, <1>5 DEF Stepwise, rest

\* Applying the next envelope of a stepwise answer.
LEMMA ApplyStepwise ==
    ASSUME SubTypeOK, ApplyMissed, Stepwise(missed, sub_sequence_number + 1)
    PROVE  /\ Stepwise(missed', sub_sequence_number' + 1)
           /\ \/ UNCHANGED logVars
              \/ /\ Head(missed) \in Received /\ Accept(Head(missed))
                 /\ Head(missed).sequence_number = sub_sequence_number + 1
<1>1. missed # <<>> /\ missed \in Seq(Received) /\ missed' = Tail(missed)
  BY DEF ApplyMissed, SubTypeOK
<1>2. Head(missed) \in Received /\ Head(missed).sequence_number <= sub_sequence_number + 1
  BY <1>1 DEF Stepwise
<1>3. sub_sequence_number \in Nat /\ Head(missed).sequence_number \in Nat
  BY <1>2, NumbersAssumption DEF SubTypeOK, Received
<1>4. CASE IsMissed(Head(missed)) /\ Accept(Head(missed))
  <2>1. Head(missed).sequence_number = sub_sequence_number + 1
    BY <1>2, <1>3, <1>4 DEF IsMissed
  <2>2. sub_sequence_number' = sub_sequence_number + 1
    BY <1>4, <2>1 DEF Accept
  <2>3. Stepwise(Tail(missed), sub_sequence_number' + 1)
    BY <1>1, <1>3, <2>1, <2>2, TailStepwise
  <2> QED
    BY <1>1, <1>2, <1>4, <2>1, <2>3
<1>5. CASE ~ IsMissed(Head(missed)) /\ UNCHANGED logVars
  <2>1. sub_sequence_number' = sub_sequence_number
    BY <1>5 DEF logVars
  <2>2. Head(missed).sequence_number + 1 <= sub_sequence_number + 1
    BY <1>3, <1>5 DEF IsMissed
  <2>3. Stepwise(Tail(missed), sub_sequence_number' + 1)
    BY <1>1, <1>3, <2>1, <2>2, TailStepwise
  <2> QED
    BY <1>1, <1>5, <2>3
<1> QED
  BY <1>4, <1>5 DEF ApplyMissed

LEMMA AnsweredNext ==
    ASSUME CoreTypes, Exchange, RowsNumbered, Asking, SerialIntact, Answered,
           [CoreNext]_coreVars, backend = "POSTGRESQL", RowsInKeyOrder
    PROVE  Answered'
<1>0. sub_sequence_number \in Nat /\ ~ (ScanEmpty.key <= ScanEmpty.last) /\ ScanEmpty.found = <<>>
  BY DEF CoreTypes, SubTypeOK, ScanEmpty
<1>1. \* What leaves the scan, the paths and the position alone.
      ASSUME UNCHANGED <<scan, reqVars, sub_sequence_number, missed>>, sub_pc' = "apply" => sub_pc = "apply"
      PROVE  Answered'
  BY <1>1 DEF Answered, Stepwise, Scanning, reqVars
<1>2. CASE PublishingSide
  <2>1. UNCHANGED <<reqVars, sub_sequence_number, missed, sub_pc>>
    BY <1>2 DEF PublishingSide, subVars, logVars, recoveryVars
  <2>2. CASE GetMessageEnvelopes
    <3>1. Scanning /\ (SelectRows \/ SelectFails)
      BY <2>2 DEF GetMessageEnvelopes, GetStep, SelectRows, SelectFails, GetKey
    <3>2. ~ Scanning'
      <4>1. scan'.key = 1 /\ scan'.last = 0
        <5>1. CASE SelectFails
          BY <5>1 DEF SelectFails, ScanEmpty
        <5>2. CASE SelectRows
          <6>1. PICK found : scan' = [ScanEmpty EXCEPT !.found = found]
            BY <5>2 DEF SelectRows
          <6>2. scan' = [key |-> 1, last |-> 0, found |-> found]
            BY <6>1 DEF ScanEmpty
          <6> QED
            BY <6>2
        <5> QED
          BY <3>1, <5>1, <5>2
      <4> QED
        BY <4>1 DEF Scanning
    <3>3. rep_live => Stepwise(scan'.found, sub_sequence_number + 1)
      <4>1. CASE SelectFails
        BY <1>0, <4>1, NothingStepwise DEF SelectFails
      <4>2. CASE SelectRows /\ rep_live
        <5>1. scan.key <= sub_sequence_number + 1
          BY <3>1, <4>2 DEF Answered
        <5> QED
          BY <1>0, <4>2, <5>1, SelectedStepwise
      <4> QED
        BY <3>1, <4>1, <4>2
    <3> QED
      BY <2>1, <3>2, <3>3 DEF Answered, Stepwise, reqVars
  <2>3. CASE ~ GetMessageEnvelopes
    <3>1. UNCHANGED scan
      BY <1>2, <2>3 DEF PublishingSide, Publish, TakeMessage, StoreMessage,
            StoreMessageEnvelope, SendError, BindPub, BindRep, PopStored, WriteRow,
            InsertFails, RepError, storeVars
    <3> QED
      BY <1>1, <2>1, <3>1
  <2> QED
    BY <2>2, <2>3
<1>3. CASE SubscribingSide
  <2>1. UNCHANGED <<scan, reqVars>>
    BY <1>3 DEF SubscribingSide, pathVars, storeVars
  <2>2. CASE ApplyMissed
    <3>1. /\ requests = <<>> /\ ~ rep_live /\ answer = <<>>
          /\ Stepwise(missed, sub_sequence_number + 1)
      BY <2>2 DEF ApplyMissed, Exchange, Answered
    <3>2. Stepwise(missed', sub_sequence_number' + 1)
      BY <2>2, <3>1, ApplyStepwise DEF CoreTypes
    <3> QED
      BY <2>1, <3>1, <3>2 DEF Answered, Stepwise, reqVars
  <2>3. CASE Startup
    <3>1. UNCHANGED <<sub_sequence_number, missed>> /\ sub_pc' # "apply"
      BY <2>3 DEF Startup, DoRecovery, RecoverySuppressed, RecoveryBegins, logVars, recoveryVars
    <3> QED
      BY <1>1, <2>1, <3>1
  <2>4. CASE ConnectReq \/ MissedApplied \/ SubConnect \/ TimerWakes \/ TimerClears \/ Poll
             \/ RecoveryError \/ ReceiveError
    <3>1. /\ UNCHANGED <<sub_sequence_number, missed>>
          /\ sub_pc' = "apply" => sub_pc = "apply"
      BY <2>4 DEF ConnectReq, MissedApplied, SubConnect, TimerWakes, TimerClears, Poll,
            RecoveryError, ErrorExit, ReceiveError, logVars, recoveryVars
    <3> QED
      BY <1>1, <2>1, <3>1
  <2> QED
    BY <1>3, <2>2, <2>3, <2>4 DEF SubscribingSide
<1>4. CASE \E p \in Publishers : SendLive(p)
  BY <1>1, <1>4 DEF SendLive, SendMessage, storeVars, subVars, logVars, recoveryVars
<1>5. CASE ReceiveLive
  <2>1. /\ sub_pc = "receive" /\ sub_pc' # "apply" /\ UNCHANGED reqVars
    BY <1>5 DEF ReceiveLive, Receive, ReceiveAhead, ReceiveOld, ReceiveNext, DoRecovery,
          RecoverySuppressed, RecoveryBegins, subVars
  <2> QED
    BY <2>1 DEF Answered, Exchange, reqVars
<1>6. CASE Request
  <2>1. sub_pc = "send" /\ sub_pc' = "await" /\ UNCHANGED <<rep_live, answer>>
    BY <1>6 DEF Request, SendRequest
  <2> QED
    BY <2>1 DEF Answered, Exchange
<1>7. CASE DeliverRequest
  <2>1. requests # <<>> /\ answer = <<>> /\ UNCHANGED <<answer, sub_pc, sub_sequence_number, missed>>
    BY <1>7 DEF DeliverRequest, Exchange, subVars, logVars, recoveryVars
  <2>2. /\ requests[1] \in RecoveryRequest
        /\ requests[1].start_sequence_number <= sub_sequence_number + 1
    BY <2>1 DEF CoreTypes, PathsTyped, Asking
  <2>3. BeginGet(TransmittedRequest(requests[1]).start_sequence_number,
                 TransmittedRequest(requests[1]).end_sequence_number)
    BY <1>7 DEF DeliverRequest, ReceiveRequest, UseStorage
  <2>4. /\ scan' \in [key : Nat, last : Nat, found : Seq(Stored)] /\ scan'.found = <<>>
        /\ scan' = ScanEmpty \/ scan'.key <= requests[1].start_sequence_number
    BY <2>2, <2>3, BeginTypes
  <2>5. Scanning' => scan'.key <= sub_sequence_number + 1
    <3>1. scan'.key \in Nat /\ requests[1].start_sequence_number \in Nat
      BY <2>2, <2>4 DEF RecoveryRequest
    <3>2. scan' = ScanEmpty => ~ Scanning'
      BY <1>0 DEF Scanning
    <3> QED
      BY <1>0, <2>2, <2>4, <3>1, <3>2
  <2> QED
    BY <2>1, <2>4, <2>5 DEF Answered, Stepwise
<1>8. CASE Answer
  <2>1. /\ rep_live' = FALSE /\ UNCHANGED <<sub_pc, sub_sequence_number, missed>>
        /\ answer' = IF rep_live THEN <<scan.found>> ELSE answer
    BY <1>8 DEF Answer, subVars, logVars, recoveryVars
  <2> QED
    BY <2>1 DEF Answered, Stepwise
<1>9. CASE ReceiveAnswer
  <2>1. /\ answer # <<>> /\ ~ rep_live /\ answer' = <<>> /\ rep_live' = rep_live
        /\ missed' = TransmittedList(answer[1]) /\ sub_sequence_number' = sub_sequence_number
    BY <1>9 DEF ReceiveAnswer, ReceiveResponse, Exchange, logVars
  <2>2. answer[1] \in Seq(Sendable)
    <3>1. answer \in Seq(Seq(Sendable))
      BY DEF CoreTypes, PathsTyped, Stored, Sendable
    <3> QED
      BY <2>1, <3>1
  <2>3. Stepwise(TransmittedList(answer[1]), sub_sequence_number + 1)
    BY <1>0, <2>1, <2>2, TransmittedStepwise DEF Answered
  <2> QED
    BY <2>1, <2>3 DEF Answered, Stepwise
<1>10. CASE Disconnect
  <2>1. /\ answer' = <<>> /\ rep_live' = FALSE /\ UNCHANGED <<sub_sequence_number, missed>>
        /\ sub_pc' = "apply" => sub_pc = "apply"
    BY <1>10 DEF Disconnect, Disconnected, FinishRecovery, TimerDisconnects, logVars
  <2> QED
    BY <2>1 DEF Answered, Stepwise
<1>11. CASE CrashCore
  <2>1. /\ answer' \in {answer, <<>>} /\ rep_live' = FALSE
        /\ UNCHANGED <<sub_pc, sub_sequence_number, missed>>
    BY <1>11 DEF CrashCore, subVars, logVars, recoveryVars
  <2> QED
    BY <2>1 DEF Answered, Stepwise
<1>12. CASE UNCHANGED coreVars
  BY <1>1, <1>12 DEF coreVars, pathVars, storeVars, subVars, logVars, recoveryVars
<1> QED
  BY <1>2, <1>3, <1>4, <1>5, <1>6, <1>7, <1>8, <1>9, <1>10, <1>11, <1>12 DEF CoreNext

\* The steps by which something is accepted or polled.
LEMMA LogSteps ==
    ASSUME [CoreNext]_coreVars
    PROVE  \/ ReceiveLive /\ ReceiveNext(Head(wire))
           \/ ApplyMissed \/ Poll \/ UNCHANGED logVars
<1>1. CASE PublishingSide \/ (\E p \in Publishers : SendLive(p)) \/ DeliverRequest \/ Answer
           \/ CrashCore \/ UNCHANGED coreVars
  BY <1>1 DEF PublishingSide, SendLive, DeliverRequest, Answer, CrashCore, coreVars, subVars
<1>2. CASE SubscribingSide
  BY <1>2 DEF SubscribingSide, Startup, ConnectReq, MissedApplied, SubConnect, TimerWakes,
        TimerClears, RecoveryError, ReceiveError
<1>3. CASE ReceiveLive
  BY <1>3 DEF ReceiveLive, Receive, ReceiveAhead, ReceiveOld, subVars
<1>4. CASE Request \/ ReceiveAnswer \/ Disconnect
  BY <1>4 DEF Request, SendRequest, ReceiveAnswer, ReceiveResponse, Disconnect, FinishRecovery,
        TimerDisconnects
<1> QED
  BY <1>1, <1>2, <1>3, <1>4 DEF CoreNext

LEMMA GaplessNext ==
    ASSUME CoreTypes, Answered, Gapless, [CoreNext]_coreVars
    PROVE  Gapless'
<1>1. SubTypeOK
  BY DEF CoreTypes
<1>2. CASE ReceiveLive /\ ReceiveNext(Head(wire))
  <2>1. Transmitted(Head(wire)) \in Received
    <3>1. wire # <<>> /\ wire \in Seq(Sendable)
      BY <1>2 DEF ReceiveLive, CoreTypes, PathsTyped, Stored, Sendable
    <3> QED
      BY <3>1, TransmittedType
  <2> QED
    BY <1>1, <1>2, <2>1, GaplessAccept DEF ReceiveNext
<1>3. CASE ApplyMissed
  <2>1. Stepwise(missed, sub_sequence_number + 1)
    BY <1>3 DEF ApplyMissed, Answered
  <2>2. CASE UNCHANGED logVars
    BY <2>2 DEF logVars, Gapless, Accepted_log
  <2> QED
    BY <1>1, <1>3, <2>1, <2>2, ApplyStepwise, GaplessAccept
<1>4. CASE Poll
  BY <1>1, <1>4, GaplessPoll
<1>5. CASE UNCHANGED logVars
  BY <1>5 DEF logVars, Gapless, Accepted_log
<1> QED
  BY <1>2, <1>3, <1>4, <1>5, LogSteps

\* With POSTGRESQL, whose answers come from one statement, and rows returned by number,
\* no message is left out of what the subscriber accepts, however many publishers there
\* are, whatever fails, however often the publishing process dies and however late its
\* controllers disconnect - unless the database has drawn a number for a row that never
\* came to be (thread_fn's comparison with the next number, and the range do_recovery
\* asks for).
THEOREM NothingLeftOut ==
    ASSUME Backends = {"POSTGRESQL"}, RowsInKeyOrder
    PROVE  CoreSpec => []NoGap
<1>1. CoreInit => Following
  <2> SUFFICES ASSUME CoreInit PROVE Following
    OBVIOUS
  <2>1. /\ Rows = {} /\ requests = <<>> /\ answer = <<>> /\ rep_live = FALSE
        /\ sub_pc = "startup" /\ delivered = <<>> /\ message_envelopes = <<>>
        /\ sub_sequence_number = loaded /\ loaded \in Nat
    BY SubscriberAssumption DEF CoreInit, PathInit, StoreInit, SubInit, Rows
  <2>2. Accepted_log = <<>> /\ Len(Accepted_log) = 0 /\ DOMAIN Accepted_log = {}
    <3>1. <<>> \o <<>> = <<>>
      OBVIOUS
    <3> QED
      BY <2>1, <3>1 DEF Accepted_log
  <2> QED
    BY <2>1, <2>2 DEF Following, RowsNumbered, Asking, Answered, Gapless
<1>2. CoreTypes /\ Exchange /\ Following /\ [CoreNext]_coreVars => Following'
  <2> SUFFICES ASSUME CoreTypes, Exchange, Following, [CoreNext]_coreVars
               PROVE  Following'
    OBVIOUS
  <2>1. backend = "POSTGRESQL"
    BY DEF CoreTypes, Numbering, Types
  <2>2. RowsNumbered' /\ Asking'
    BY RowsNumberedNext, AskingNext DEF Following, CoreTypes
  <2>3. ASSUME SerialIntact' PROVE Answered' /\ Gapless'
    <3>1. SerialIntact /\ Answered /\ Gapless
      BY <2>3, SerialStaysAhead DEF CoreTypes, Following
    <3> QED
      BY <2>1, <3>1, AnsweredNext, GaplessNext DEF Following
  <2> QED
    BY <2>2, <2>3 DEF Following
<1>3. Following => NoGap
  BY DEF Following, Gapless, NoGap
<1> QED
  BY <1>1, <1>2, <1>3, CoreTypesHold, ExchangeHolds, PTL DEF CoreSpec

-----------------------------------------------------------------------------
(* What a subscriber is told *)

Entries(seq) == {seq[i] : i \in DOMAIN seq}

\* The envelopes on their way to the subscriber, live or in an answer.
OnTheWay ==
    Entries(wire) \cup Entries(scan.found)
        \cup UNION {Entries(answer[i]) : i \in DOMAIN answer}

\* Those it has received, applied or not.
Arrived == Entries(missed) \cup Entries(Accepted_log)

LEMMA EntriesOfTail ==
    ASSUME NEW S, NEW seq \in Seq(S), seq # <<>>
    PROVE  Head(seq) \in Entries(seq) /\ Entries(Tail(seq)) \subseteq Entries(seq)
<1>1. /\ 1 \in DOMAIN seq /\ Head(seq) = seq[1]
      /\ \A i \in DOMAIN Tail(seq) : i + 1 \in DOMAIN seq /\ Tail(seq)[i] = seq[i + 1]
  OBVIOUS
<1> QED
  BY <1>1 DEF Entries

LEMMA EntriesOfAppend ==
    ASSUME NEW S, NEW seq \in Seq(S), NEW e \in S
    PROVE  Entries(Append(seq, e)) \subseteq Entries(seq) \cup {e}
<1>1. \A i \in DOMAIN Append(seq, e) :
          \/ i \in DOMAIN seq /\ Append(seq, e)[i] = seq[i]
          \/ Append(seq, e)[i] = e
  OBVIOUS
<1> QED
  BY <1>1 DEF Entries

LEMMA EntriesOfTransmitted ==
    ASSUME NEW seq
    PROVE  Entries(TransmittedList(seq)) = {Transmitted(e) : e \in Entries(seq)}
  BY DEF Entries, TransmittedList

LEMMA FirstAnswer ==
    ASSUME CoreTypes, answer # <<>>
    PROVE  Entries(answer[1]) \subseteq OnTheWay
<1>1. 1 \in DOMAIN answer
  <2>1. answer \in Seq(Seq(Stored))
    BY DEF CoreTypes, PathsTyped
  <2> QED
    BY <2>1
<1> QED
  BY <1>1 DEF OnTheWay

LEMMA WayTypes == CoreTypes => OnTheWay \subseteq Stored
<1> SUFFICES ASSUME CoreTypes PROVE OnTheWay \subseteq Stored
  OBVIOUS
<1>1. wire \in Seq(Stored) /\ scan.found \in Seq(Stored) /\ answer \in Seq(Seq(Stored))
  BY DEF CoreTypes, PathsTyped
<1>2. \A seq \in Seq(Stored) : Entries(seq) \subseteq Stored
  BY DEF Entries
<1>3. \A i \in DOMAIN answer : answer[i] \in Seq(Stored)
  BY <1>1
<1> QED
  BY <1>1, <1>2, <1>3 DEF OnTheWay

\* What the scan of a range finds are rows.
LEMMA ScanFinds ==
    ASSUME CoreTypes, GetStep
    PROVE  Entries(scan'.found) \subseteq Entries(scan.found) \cup {db[k] : k \in Rows}
<1>1. scan \in [key : Nat, last : Nat, found : Seq(Stored)]
  BY DEF CoreTypes, PathsTyped
<1>2. CASE SelectRows
  <2> DEFINE keys == {k \in Rows : scan.key <= k /\ k <= scan.last}
  <2>1. PICK order \in RowOrders(keys) :
            scan' = [ScanEmpty EXCEPT !.found = [i \in DOMAIN order |-> db[order[i]]]]
    BY <1>2 DEF SelectRows
  <2>2. \A i \in DOMAIN order : order[i] \in Rows
    BY DEF RowOrders
  <2>3. scan'.found = [i \in DOMAIN order |-> db[order[i]]]
    BY <2>1 DEF ScanEmpty
  <2> QED
    BY <2>2, <2>3 DEF Entries
<1>3. CASE SelectFails
  BY <1>3 DEF SelectFails, ScanEmpty, Entries
<1>4. CASE GetKey
  <2>1. scan'.found = IF scan.key \in Rows THEN Append(scan.found, db[scan.key]) ELSE scan.found
    BY <1>1, <1>4 DEF GetKey
  <2>2. scan.key \in Rows => db[scan.key] \in Stored
    BY DEF CoreTypes, Numbering, Types, PathTypeOK, Stored
  <2>3. scan.found \in Seq(Stored)
    BY <1>1
  <2> QED
    BY <2>1, <2>2, <2>3, EntriesOfAppend
<1> QED
  BY <1>2, <1>3, <1>4 DEF GetStep

\* What is put on the way has been sent, or is a row of the table.
LEMMA WayNext ==
    ASSUME CoreTypes, [CoreNext]_coreVars, intact'
    PROVE  OnTheWay' \subseteq OnTheWay \cup sent' \cup {db[k] : k \in Rows}
<1>1. \* What leaves the paths and the scan alone.
      UNCHANGED <<wire, scan, answer>> => OnTheWay' = OnTheWay
  BY DEF OnTheWay, Entries
<1>2. CASE PublishingSide
  <2>1. UNCHANGED <<wire, answer>>
    BY <1>2 DEF PublishingSide, reqVars
  <2>2. CASE GetMessageEnvelopes
    BY <2>1, <2>2, ScanFinds DEF GetMessageEnvelopes, OnTheWay, Entries
  <2>3. CASE ~ GetMessageEnvelopes
    <3>1. UNCHANGED scan
      BY <1>2, <2>3 DEF PublishingSide, Publish, TakeMessage, StoreMessage,
            StoreMessageEnvelope, SendError, BindPub, BindRep, PopStored, WriteRow,
            InsertFails, RepError, storeVars
    <3> QED
      BY <1>1, <2>1, <3>1
  <2> QED
    BY <2>2, <2>3
<1>3. CASE SubscribingSide
  BY <1>1, <1>3 DEF SubscribingSide, pathVars, storeVars, reqVars
<1>4. ASSUME NEW p \in Publishers, SendLive(p)
      PROVE  OnTheWay' \subseteq OnTheWay \cup sent'
  <2>1. /\ msg_envelope[p] \in Stored /\ msg_envelope[p] \in sent'
        /\ wire' \in {wire, Append(wire, msg_envelope[p])} /\ UNCHANGED <<scan, answer>>
    BY <1>4 DEF SendLive, SendMessage, storeVars, reqVars, CoreTypes, Numbering, Types
  <2>2. wire \in Seq(Stored)
    BY DEF CoreTypes, PathsTyped
  <2>3. Entries(wire') \subseteq Entries(wire) \cup {msg_envelope[p]}
    BY <2>1, <2>2, EntriesOfAppend
  <2> QED
    BY <2>1, <2>3 DEF OnTheWay, Entries
<1>5. CASE ReceiveLive
  <2>1. wire # <<>> /\ wire' = Tail(wire) /\ UNCHANGED <<scan, answer>>
    BY <1>5 DEF ReceiveLive, pathVars, storeVars, reqVars
  <2>2. wire \in Seq(Stored)
    BY DEF CoreTypes, PathsTyped
  <2>3. Entries(wire') \subseteq Entries(wire)
    BY <2>1, <2>2, EntriesOfTail
  <2> QED
    BY <2>1, <2>3 DEF OnTheWay, Entries
<1>6. CASE Request
  BY <1>1, <1>6 DEF Request, pathVars, storeVars
<1>7. CASE DeliverRequest
  <2>1. UNCHANGED <<wire, answer>> /\ (scan'.found = <<>> \/ UNCHANGED scan)
    BY <1>7 DEF DeliverRequest, ReceiveRequest, BeginGet, ScanEmpty, storeVars
  <2>2. scan'.found = <<>> => Entries(scan'.found) = {}
    BY DEF Entries
  <2> QED
    BY <1>1, <2>1, <2>2 DEF OnTheWay, Entries
<1>8. CASE Answer
  <2>1. /\ answer' \in {<<scan.found>>, answer} /\ scan' = ScanEmpty /\ UNCHANGED wire
    BY <1>8 DEF Answer, SendResponse
  <2>2. Entries(scan'.found) = {}
    BY <2>1 DEF ScanEmpty, Entries
  <2>3. \A i \in DOMAIN <<scan.found>> : <<scan.found>>[i] = scan.found
    OBVIOUS
  <2> QED
    BY <2>1, <2>2, <2>3 DEF OnTheWay, Entries
<1>9. CASE ReceiveAnswer \/ Disconnect
  <2>1. answer' = <<>> /\ UNCHANGED <<scan, wire>>
    BY <1>9 DEF ReceiveAnswer, Disconnect, Disconnected, pathVars, storeVars
  <2>2. DOMAIN answer' = {}
    BY <2>1
  <2> QED
    BY <2>1, <2>2 DEF OnTheWay, Entries
<1>10. CASE UNCHANGED coreVars
  BY <1>1, <1>10 DEF coreVars, pathVars, storeVars, reqVars
<1>11. ~ CrashCore
  BY DEF CrashCore, Crash
<1> QED
  BY <1>2, <1>3, <1>4, <1>5, <1>6, <1>7, <1>8, <1>9, <1>10, <1>11 DEF CoreNext

\* What arrives was on the way.
LEMMA ArrivedNext ==
    ASSUME CoreTypes, [CoreNext]_coreVars
    PROVE  Arrived' \subseteq Arrived \cup {Transmitted(e) : e \in OnTheWay}
<1>1. \* Accepting an envelope.
      ASSUME NEW e \in Received, Accept(e)
      PROVE  Entries(Accepted_log') \subseteq Entries(Accepted_log) \cup {e}
  <2>1. /\ Accepted_log \in Seq(Received) /\ Len(Accepted_log) \in Nat
        /\ Accepted_log' = Accepted_log \o <<e>>
    BY <1>1, AcceptAppends DEF Accepted_log, CoreTypes
  <2>2. Accepted_log' = Append(Accepted_log, e)
    BY <2>1, AppendIsConcat
  <2> QED
    BY <2>1, <2>2, EntriesOfAppend
<1>2. CASE ReceiveLive /\ ReceiveNext(Head(wire))
  <2>1. wire # <<>> /\ wire \in Seq(Sendable)
    BY <1>2 DEF ReceiveLive, CoreTypes, PathsTyped, Stored, Sendable
  <2>2. Head(wire) \in Entries(wire) /\ Transmitted(Head(wire)) \in Received
    BY <2>1, EntriesOfTail, TransmittedType
  <2>3. Accept(Transmitted(Head(wire))) /\ UNCHANGED missed
    BY <1>2 DEF ReceiveNext, recoveryVars
  <2>4. Entries(Accepted_log') \subseteq Entries(Accepted_log) \cup {Transmitted(Head(wire))}
    BY <1>1, <2>2, <2>3
  <2> QED
    BY <2>2, <2>3, <2>4 DEF Arrived, OnTheWay, Entries
<1>3. CASE ApplyMissed
  <2>1. missed # <<>> /\ missed \in Seq(Received) /\ missed' = Tail(missed)
    BY <1>3 DEF ApplyMissed, CoreTypes, SubTypeOK
  <2>2. Head(missed) \in Entries(missed) /\ Entries(missed') \subseteq Entries(missed)
    BY <2>1, EntriesOfTail
  <2>3. Entries(Accepted_log') \subseteq Entries(Accepted_log) \cup {Head(missed)}
    <3>1. Head(missed) \in Received
      BY <2>1
    <3>2. Accept(Head(missed)) \/ UNCHANGED logVars
      BY <1>3 DEF ApplyMissed
    <3> QED
      BY <1>1, <3>1, <3>2 DEF logVars, Accepted_log
  <2> QED
    BY <2>2, <2>3 DEF Arrived
<1>4. CASE ReceiveAnswer
  <2>1. answer # <<>> /\ missed' = TransmittedList(answer[1]) /\ UNCHANGED logVars
    BY <1>4 DEF ReceiveAnswer, ReceiveResponse
  <2>2. Entries(missed') \subseteq {Transmitted(e) : e \in OnTheWay}
    BY <2>1, FirstAnswer, EntriesOfTransmitted
  <2> QED
    BY <2>1, <2>2 DEF Arrived, Accepted_log, logVars
<1>5. CASE Poll
  <2>1. Accepted_log' = Accepted_log
    BY <1>5, PollKeepsLog DEF CoreTypes, Accepted_log
  <2> QED
    BY <1>5, <2>1 DEF Poll, recoveryVars, Arrived
<1>6. UNCHANGED missed \/ ReceiveAnswer \/ ApplyMissed
  BY DEF CoreNext, PublishingSide, SubscribingSide, SendLive, ReceiveLive, Request,
         DeliverRequest, Answer, Disconnect, CrashCore, coreVars, subVars, recoveryVars,
         Startup, ConnectReq, MissedApplied, SubConnect, TimerWakes, TimerClears, Poll,
         RecoveryError, ReceiveError, Receive, ReceiveAhead, ReceiveOld, ReceiveNext,
         DoRecovery, RecoverySuppressed, RecoveryBegins, SendRequest, FinishRecovery,
         TimerDisconnects
<1>7. CASE UNCHANGED <<logVars, missed>>
  BY <1>7 DEF logVars, Accepted_log, Arrived
<1> QED
  BY <1>2, <1>3, <1>4, <1>5, <1>6, <1>7, LogSteps

\* Is the payload known under the number: in its place in the storage, or, where there
\* is none, as it was sent?
Given(id, n) ==
    \/ UseStorage /\ Placed(id, n)
    \/ ~ UseStorage /\ \E e \in sent : e.id = id /\ e.sequence_number = n

Told(e) == e.id \in Ids /\ e.sequence_number \in Nat /\ Given(e.id, e.sequence_number)

\* The same of an envelope received, whose number has been cut to an int.
Heard(e) ==
    e.id \in Ids /\ \E n \in Nat : Given(e.id, n) /\ e.sequence_number = ValueInt(n)

\* Until something fails, every envelope a subscriber is sent, or is answered, or holds
\* carries the one number its payload was given.
Tell ==
    intact => (\A e \in OnTheWay : Told(e)) /\ (\A e \in Arrived : Heard(e))

\* What the publishing side keeps, with one publisher.
Publishing == Fresh /\ Accepting /\ Once

\* The answering thread changes nothing of it.
LEMMA AnsweringPublishing ==
    ASSUME Numbering, Publishing, Answering
    PROVE  Publishing'
<1>1. /\ UNCHANGED <<backend, store_sequence_number, store_message_envelope_queue, writing>>
      /\ UNCHANGED <<db, intact>>
      /\ UNCHANGED <<incoming_message_envelope_queue, pub_pc, msg_envelope, published, sent>>
  BY DEF Answering, ReceiveRequest, BeginGet, GetMessageEnvelopes, GetStep, SelectRows,
         SelectFails, GetKey, SendResponse, RepError, storeVars, objectVars, storeThreadVars,
         tableVars, pubVars, pubThreadVars
<1>2. ASSUME NEW id, NEW n PROVE Placed(id, n)' <=> Placed(id, n)
  BY <1>1, PlacedElse
<1>3. Fresh'
  BY <1>1, <1>2, FreshElse DEF Publishing, Fresh
<1>4. Accepting'
  <2>1. SentPlaced' <=> SentPlaced
    BY <1>1, <1>2 DEF SentPlaced
  <2>2. HeldPlaced' <=> HeldPlaced
    BY <1>1 DEF HeldPlaced, Placed, Rows
  <2>3. UseStorage' <=> UseStorage
    BY <1>1 DEF UseStorage
  <2> QED
    BY <1>1, <2>1, <2>2, <2>3 DEF Publishing, Accepting
<1>5. Once'
  <2>1. Accepted' = Accepted
    BY <1>1 DEF Accepted, Rows
  <2>2. PlacedOnce' <=> PlacedOnce
    BY <1>2 DEF PlacedOnce
  <2>3. AcceptedRight' <=> AcceptedRight
    BY <1>2, <2>1 DEF AcceptedRight
  <2>4. (SentOnce' <=> SentOnce) /\ (HeldUnsent' <=> HeldUnsent)
    BY <1>1 DEF SentOnce, HeldUnsent
  <2> QED
    BY <1>1, <2>2, <2>3, <2>4 DEF Publishing, Once
<1> QED
  BY <1>3, <1>4, <1>5 DEF Publishing

LEMMA PublishingNext ==
    ASSUME OnePublisher, Numbering, Publishing, [CoreNext]_coreVars
    PROVE  Publishing'
<1>1. CASE [PathNext]_pathVars
  BY <1>1, FreshNext, AcceptingNext, OnceNext DEF Publishing
<1> QED
  BY <1>1, PublishingSteps, AnsweringPublishing

LEMMA PublishingHolds ==
    ASSUME OnePublisher
    PROVE  CoreSpec => []Publishing
<1>1. PathInit => Accepting
  BY DEF PathInit, PublisherInit, Accepting, SentPlaced, HeldPlaced
<1>2. CoreInit => Publishing
  BY <1>1, FreshInit, OnceInit DEF CoreInit, Publishing
<1>3. CoreTypes => Numbering
  BY DEF CoreTypes
<1> QED
  BY <1>2, <1>3, PublishingNext, CoreTypesHold, PTL DEF CoreSpec

\* Unless something fails, a payload keeps its number.
LEMMA GivenStays ==
    ASSUME Numbering, [CoreNext]_coreVars, intact', NEW id, NEW n, Given(id, n)
    PROVE  Given(id, n)' /\ intact
<1>1. CASE [PathNext]_pathVars
  <2>1. UNCHANGED backend /\ sent \subseteq sent' /\ intact
    BY <1>1, StepKinds
       DEF pathVars, pubVars, Publish, TakeMessage, StoreMessage, StoreMessageEnvelope,
           SendMessage, SendError, BindPub, BindRep, PopStored, WriteRow, storeVars, objectVars
  <2>2. Placed(id, n) => Placed(id, n)'
    BY <1>1, PlacedStays
  <2> QED
    BY <2>1, <2>2 DEF Given, UseStorage
<1>2. CASE Answering
  <2>1. UNCHANGED <<backend, store_message_envelope_queue, writing, db, intact, sent>>
    BY <1>2 DEF Answering, ReceiveRequest, BeginGet, GetMessageEnvelopes, GetStep, SelectRows,
           SelectFails, GetKey, SendResponse, RepError, storeVars, objectVars, storeThreadVars,
           tableVars, pubVars
  <2>2. Placed(id, n)' <=> Placed(id, n)
    BY <2>1, PlacedElse
  <2> QED
    BY <2>1, <2>2 DEF Given, UseStorage
<1> QED
  BY <1>1, <1>2, PublishingSteps

\* With nothing failed, an envelope sent carries the number of its place, a row that of
\* its key.
SourcesRight == (\A e \in sent : Told(e)) /\ (\A k \in Rows : Told(db[k]))

LEMMA SourcesTold == Numbering /\ Publishing /\ intact => SourcesRight
<1> SUFFICES ASSUME Numbering, Publishing, intact PROVE SourcesRight
  OBVIOUS
<1>1. ASSUME NEW e \in sent PROVE Told(e)
  <2>1. e \in Stored
    BY DEF Numbering, Types, PathTypeOK, Stored
  <2>2. CASE UseStorage
    <3>1. PICK n \in Nat : Placed(e.id, n)
      BY <2>2 DEF Publishing, Accepting, SentPlaced
    <3>2. n = e.sequence_number
      BY <3>1 DEF Publishing, Fresh, SentRight, Rightly
    <3> QED
      BY <2>1, <2>2, <3>1, <3>2 DEF Told, Given, Stored
  <2>3. CASE ~ UseStorage
    BY <2>1, <2>3 DEF Told, Given, Stored
  <2> QED
    BY <2>2, <2>3
<1>2. ASSUME NEW k \in Rows PROVE Told(db[k])
  <2>1. db[k] \in Stored
    BY DEF Numbering, Types, PathTypeOK, Stored
  <2>2. UseStorage
    BY DEF Numbering, Rowed, UseStorage
  <2>3. Placed(db[k].id, db[k].sequence_number)
    BY DEF Publishing, Once, AcceptedRight, Accepted
  <2> QED
    BY <2>1, <2>2, <2>3 DEF Told, Given, Stored
<1> QED
  BY <1>1, <1>2 DEF SourcesRight

LEMMA TellNext ==
    ASSUME CoreTypes, Publishing, Publishing', CoreTypes', Tell, [CoreNext]_coreVars
    PROVE  Tell'
<1> SUFFICES ASSUME intact'
             PROVE  (\A e \in OnTheWay' : Told(e)') /\ (\A e \in Arrived' : Heard(e)')
  BY DEF Tell
<1>1. Numbering /\ Numbering'
  BY DEF CoreTypes
<1>2. intact
  <2>1. CASE [PathNext]_pathVars
    BY <1>1, <2>1, StepKinds
  <2>2. CASE Answering
    BY <2>2 DEF Answering
  <2> QED
    BY <2>1, <2>2, PublishingSteps
<1>3. /\ \A e \in OnTheWay : Told(e)
      /\ \A e \in Arrived : Heard(e)
  BY <1>2 DEF Tell
<1>4. ASSUME NEW e, Told(e) PROVE Told(e)'
  <2>1. Given(e.id, e.sequence_number)'
    BY <1>1, <1>4, GivenStays DEF Told
  <2> QED
    BY <1>4, <2>1 DEF Told
<1>5. ASSUME NEW e, Heard(e) PROVE Heard(e)'
  <2>1. PICK n \in Nat : Given(e.id, n) /\ e.sequence_number = ValueInt(n)
    BY <1>5 DEF Heard
  <2>2. Given(e.id, n)'
    BY <1>1, <2>1, GivenStays
  <2> QED
    BY <1>5, <2>1, <2>2 DEF Heard
<1>6. ASSUME NEW e \in OnTheWay' PROVE Told(e)'
  <2>1. \A f \in sent' : Told(f)'
    <3>1. Numbering' /\ Publishing' /\ intact' => SourcesRight'
      BY SourcesTold, PTL
    <3> QED
      BY <1>1, <3>1 DEF SourcesRight
  <2>2. \A k \in Rows : Told(db[k])
    BY <1>1, <1>2, SourcesTold DEF SourcesRight
  <2>3. e \in OnTheWay \cup sent' \cup {db[k] : k \in Rows}
    BY WayNext
  <2> QED
    BY <1>3, <1>4, <2>1, <2>2, <2>3
<1>7. ASSUME NEW e \in Arrived' PROVE Heard(e)'
  <2>1. CASE e \in Arrived
    BY <1>3, <1>5, <2>1
  <2>2. CASE e \in {Transmitted(f) : f \in OnTheWay}
    <3>1. PICK f \in OnTheWay : e = Transmitted(f)
      BY <2>2
    <3>2. f \in Stored
      BY <3>1, WayTypes
    <3>3. e.id = f.id /\ e.sequence_number = ValueInt(f.sequence_number)
      BY <3>1, <3>2 DEF Transmitted, Stored
    <3>4. Heard(e)
      BY <1>3, <3>1, <3>3 DEF Told, Heard
    <3> QED
      BY <1>5, <3>4
  <2> QED
    BY <2>1, <2>2, ArrivedNext
<1> QED
  BY <1>6, <1>7

LEMMA TellHolds ==
    ASSUME OnePublisher
    PROVE  CoreSpec => []Tell
<1>1. CoreInit => Tell
  <2> SUFFICES ASSUME CoreInit PROVE OnTheWay = {} /\ Arrived = {}
    BY DEF Tell
  <2>1. wire = <<>> /\ answer = <<>> /\ scan.found = <<>> /\ missed = <<>>
    BY DEF CoreInit, PathInit, StoreInit, ScanEmpty, SubInit
  <2>2. Accepted_log = <<>>
    <3>1. <<>> \o <<>> = <<>>
      OBVIOUS
    <3> QED
      BY <3>1 DEF CoreInit, SubInit, Accepted_log
  <2>3. Entries(<<>>) = {}
    BY DEF Entries
  <2> QED
    BY <2>1, <2>2, <2>3 DEF OnTheWay, Arrived
<1> QED
  BY <1>1, TellNext, CoreTypesHold, PublishingHolds, PTL DEF CoreSpec

-----------------------------------------------------------------------------
(* One publisher: live messages and recovered ones agree *)

LEMMA OrderHolds == CoreSpec => []OrderInv
<1>1. CoreInit => OrderInv
  BY OrderInit DEF CoreInit
<1>2. CoreTypes /\ OrderInv /\ [CoreNext]_coreVars => OrderInv'
  BY SubscribingSteps, OrderStep DEF CoreTypes
<1> QED
  BY <1>1, <1>2, CoreTypesHold, PTL DEF CoreSpec

\* A payload has one number.
LEMMA GivenOnce ==
    ASSUME Publishing, intact, NEW id \in Ids, NEW n \in Nat, NEW m \in Nat,
           Given(id, n), Given(id, m)
    PROVE  n = m
  BY DEF Publishing, Once, PlacedOnce, SentOnce, Given

\* The numbers increase along everything accepted.
LEMMA LogIncreases ==
    ASSUME SubTypeOK, OrderInv
    PROVE  /\ Accepted_log \in Seq(Received)
           /\ Increasing(Accepted_log)
<1> DEFINE d == delivered
           q == message_envelopes
<1>1. d \in Seq(Received) /\ q \in Seq(Received)
  BY DEF SubTypeOK
<1>2. /\ d \o q \in Seq(Received)
      /\ Len(d \o q) = Len(d) + Len(q)
      /\ \A i \in 1 .. Len(d) + Len(q) : (d \o q)[i] = IF i <= Len(d) THEN d[i] ELSE q[i - Len(d)]
  BY <1>1, ConcatProperties
<1>3. /\ Len(d) \in Nat /\ Len(q) \in Nat
      /\ DOMAIN d = 1 .. Len(d) /\ DOMAIN q = 1 .. Len(q)
      /\ DOMAIN (d \o q) = 1 .. Len(d) + Len(q)
  BY <1>1, <1>2
<1>4. Increasing(d \o q)
  <2> SUFFICES ASSUME NEW i \in 1 .. Len(d) + Len(q), NEW j \in 1 .. Len(d) + Len(q), i < j
               PROVE  (d \o q)[i].sequence_number < (d \o q)[j].sequence_number
    BY <1>3 DEF Increasing
  <2>1. CASE j <= Len(d)
    BY <1>2, <1>3, <2>1 DEF OrderInv, OrderedDelivery, Increasing
  <2>2. CASE i <= Len(d) /\ j > Len(d)
    <3>1. i \in DOMAIN d /\ j - Len(d) \in DOMAIN q
      BY <1>3, <2>2
    <3> QED
      BY <1>2, <1>3, <2>2, <3>1 DEF OrderInv, OrderedDelivery
  <2>3. CASE i > Len(d)
    <3>1. i - Len(d) \in DOMAIN q /\ j - Len(d) \in DOMAIN q /\ i - Len(d) < j - Len(d)
      BY <1>3, <2>3
    <3> QED
      BY <1>2, <1>3, <2>3, <3>1 DEF OrderInv, OrderedDelivery, Increasing
  <2> QED
    BY <1>3, <2>1, <2>2, <2>3
<1> QED
  BY <1>2, <1>4 DEF Accepted_log

\* Until something fails, nothing is delivered twice: not by a live message that a
\* recovery has overtaken, nor by an answer that holds what has come live (the number a
\* message is sent under is the number of its row, and the subscriber accepts a number
\* once).
THEOREM NothingTwice ==
    ASSUME OnePublisher
    PROVE  CoreSpec => []DeliveredOnce
<1>1. CoreTypes /\ OrderInv /\ Publishing /\ Tell => DeliveredOnce
  <2> SUFFICES ASSUME CoreTypes, OrderInv, Publishing, Tell, intact,
                      NEW i \in DOMAIN Accepted_log, NEW j \in DOMAIN Accepted_log,
                      Accepted_log[i].id = Accepted_log[j].id
               PROVE  i = j
    BY DEF DeliveredOnce
  <2>1. Heard(Accepted_log[i]) /\ Heard(Accepted_log[j])
    BY DEF Tell, Arrived, Entries
  <2>2. PICK id \in Ids, n \in Nat :
            /\ Accepted_log[i].id = id /\ Given(id, n)
            /\ Accepted_log[i].sequence_number = ValueInt(n)
    BY <2>1 DEF Heard
  <2>3. PICK m \in Nat : Given(id, m) /\ Accepted_log[j].sequence_number = ValueInt(m)
    BY <2>1, <2>2 DEF Heard
  <2>4. Accepted_log[i].sequence_number = Accepted_log[j].sequence_number
    BY <2>2, <2>3, GivenOnce
  <2>5. Accepted_log \in Seq(Received) /\ Increasing(Accepted_log)
    BY LogIncreases DEF CoreTypes
  <2>6. /\ i \in Nat /\ j \in Nat
        /\ Accepted_log[i].sequence_number \in Nat
    <3>1. Accepted_log[i] \in Received
      BY <2>5
    <3> QED
      BY <2>5, <3>1, NumbersAssumption DEF Received
  <2>7. ~ (i < j) /\ ~ (j < i)
    BY <2>4, <2>5, <2>6 DEF Increasing
  <2> QED
    BY <2>6, <2>7
<1> QED
  BY <1>1, CoreTypesHold, OrderHolds, PublishingHolds, TellHolds, PTL

\* Unless something has failed, the rows and what is on the way to them fill the places
\* 1 .. store_sequence_number.
LEMMA PlacesFilled ==
    ASSUME Numbering, intact, NEW n
    PROVE  /\ \A id : Placed(id, n) => n \in 1 .. store_sequence_number
           /\ n \in 1 .. store_sequence_number => \E id \in Ids : Placed(id, n)
           /\ \A id : n \in Rows /\ Placed(id, n) => db[n].id = id
<1> DEFINE queue == store_message_envelope_queue
           count == Cardinality(Rows)
<1>1. /\ writing \in Seq(Stored) /\ Len(writing) <= 1
      /\ queue \in Seq(Stored) /\ \A k \in Rows : db[k] \in Stored
      /\ count \in Nat
  BY FS_CardinalityType DEF Numbering, Types, PathTypeOK, Stored, Rowed
<1>2. store_sequence_number = count + Len(writing) + Len(queue)
  BY DEF Numbering, Counting
<1>3. Rows = 1 .. count
  <2>1. CASE backend = "POSTGRESQL"
    <3>1. Rows = 1 .. serial /\ serial \in Nat
      BY <2>1 DEF Numbering, Counting, Types, PathTypeOK
    <3> QED
      BY <3>1, SegmentSize
  <2>2. CASE backend # "POSTGRESQL"
    BY <2>2 DEF Numbering, Rowed
  <2> QED
    BY <2>1, <2>2
<1>4. /\ writing # <<>> => Len(writing) = 1 /\ writing[1] \in Stored
      /\ writing = <<>> => Len(writing) = 0
      /\ Len(writing) \in Nat
  BY <1>1, OnlyElement
<1>5. /\ Len(queue) \in Nat /\ DOMAIN queue = 1 .. Len(queue)
      /\ \A i \in DOMAIN queue : queue[i] \in Stored
  BY <1>1
<1> HIDE DEF queue
<1>6. ASSUME NEW id
      PROVE  Placed(id, n) <=>
                 \/ n \in Rows /\ db[n].id = id
                 \/ writing # <<>> /\ n = count + 1 /\ writing[1].id = id
                 \/ \E i \in DOMAIN queue : n = count + Len(writing) + i /\ queue[i].id = id
  BY DEF Placed, queue
<1> HIDE DEF count
<1>7. ASSUME NEW id, Placed(id, n) PROVE n \in 1 .. store_sequence_number
  BY <1>1, <1>2, <1>3, <1>4, <1>5, <1>6, <1>7
<1>8. ASSUME n \in 1 .. store_sequence_number PROVE \E id \in Ids : Placed(id, n)
  <2>1. CASE n \in Rows
    <3>1. db[n].id \in Ids
      BY <1>1, <2>1 DEF Stored
    <3> QED
      BY <1>6, <2>1, <3>1
  <2>2. CASE writing # <<>> /\ n = count + 1
    <3>1. writing[1].id \in Ids
      BY <1>4, <2>2 DEF Stored
    <3> QED
      BY <1>6, <2>2, <3>1
  <2>3. CASE n - (count + Len(writing)) \in DOMAIN queue
    <3>1. PICK i \in DOMAIN queue : i = n - (count + Len(writing))
      BY <2>3
    <3>2. n \in Nat /\ count \in Nat /\ Len(writing) \in Nat /\ i \in Nat
      BY <1>1, <1>4, <1>5, <1>8
    <3>3. n = count + Len(writing) + i
      BY <3>1, <3>2
    <3>4. queue[i].id \in Ids
      BY <1>5 DEF Stored
    <3> QED
      BY <1>6, <3>3, <3>4
  <2> QED
    BY <1>1, <1>2, <1>3, <1>4, <1>5, <1>8, <2>1, <2>2, <2>3
<1>9. ASSUME NEW id, n \in Rows, Placed(id, n) PROVE db[n].id = id
  BY <1>1, <1>3, <1>4, <1>5, <1>6, <1>9
<1> QED
  BY <1>7, <1>8, <1>9

\* There are no more places than payloads.
LEMMA PlacesFit ==
    ASSUME Numbering, Publishing, intact, IsFiniteSet(Ids),
           NEW id \in Ids, NEW n \in Nat, Placed(id, n)
    PROVE  n <= Cardinality(Ids)
<1> DEFINE holder == [m \in 1 .. n |-> CHOOSE other \in Ids : Placed(other, m)]
<1>1. n \in 1 .. store_sequence_number /\ store_sequence_number \in Nat
  BY PlacesFilled DEF Numbering, Types, PathTypeOK
<1>2. \A m \in 1 .. n : \E other \in Ids : Placed(other, m)
  BY <1>1, PlacesFilled
<1>3. \A m \in 1 .. n : holder[m] \in Ids /\ Placed(holder[m], m)
  BY <1>2
<1>4. holder \in [1 .. n -> Ids]
  BY <1>3
<1> HIDE DEF holder
<1>5. \A m, k \in 1 .. n : holder[m] = holder[k] => m = k
  BY <1>3 DEF Publishing, Once, PlacedOnce
<1>6. holder \in Injection(1 .. n, Ids)
  BY <1>4, <1>5 DEF Injection, IsInjective
<1>7. Cardinality(1 .. n) <= Cardinality(Ids)
  BY <1>6, FS_Injection
<1> QED
  BY <1>7, SegmentSize

\* Until something fails, what the subscriber accepted as message n, live or recovered,
\* is what the storage holds as message n - as long as no more messages are published than
\* an int counts: cJSON makes the same number of all beyond (Deserialize).
THEOREM StorageAgrees ==
    ASSUME OnePublisher, IsFiniteSet(Ids), Cardinality(Ids) <= IntMax
    PROVE  CoreSpec => []AgreesWithStorage
<1>1. CoreTypes /\ Publishing /\ Tell => AgreesWithStorage
  <2> SUFFICES ASSUME CoreTypes, Publishing, Tell, intact,
                      NEW i \in DOMAIN Accepted_log, NEW k \in Rows,
                      Accepted_log[i].sequence_number = k
               PROVE  Accepted_log[i].id = db[k].id
    BY DEF AgreesWithStorage
  <2>1. Heard(Accepted_log[i])
    BY DEF Tell, Arrived, Entries
  <2>2. PICK id \in Ids, n \in Nat :
            /\ Accepted_log[i].id = id /\ Given(id, n)
            /\ k = ValueInt(n)
    BY <2>1 DEF Heard
  <2>3. Numbering /\ UseStorage
    BY DEF CoreTypes, Numbering, Rowed, UseStorage
  <2>4. Placed(id, n)
    BY <2>2, <2>3 DEF Given
  <2>5. n <= Cardinality(Ids)
    BY <2>3, <2>4, PlacesFit
  <2>6. Cardinality(Ids) \in Nat
    BY FS_CardinalityType
  <2>7. n = k
    BY <2>2, <2>5, <2>6, NumbersAssumption DEF ValueInt
  <2> QED
    BY <2>2, <2>3, <2>4, <2>7, PlacesFilled
<1> QED
  BY <1>1, CoreTypesHold, PublishingHolds, TellHolds, PTL

\* The parts keep in the system what they promise alone, and the subscriber is still the
\* ordered log.
THEOREM PartsKeepPromises ==
    ASSUME OnePublisher
    PROVE  CoreSpec => [](LiveNumberIsStored /\ SentIsAccepted /\ OrderedDelivery) /\ ImplementsOrderedLog
<1>1. CoreTypes /\ Publishing => LiveNumberIsStored /\ SentIsAccepted
  BY FreshSuffices, PlacedIsAccepted DEF CoreTypes, Publishing, Accepting, SentPlaced, SentIsAccepted
<1>2. OrderInv => OrderedDelivery
  BY DEF OrderInv
<1>3. CoreInit => Log!LogInit
  BY DEF CoreInit, SubInit, Log!LogInit
<1>4. CoreTypes /\ OrderInv /\ [CoreNext]_coreVars =>
          [Log!Accept \/ Log!Read]_<<loaded, delivered \o message_envelopes, Len(delivered)>>
  BY SubscribingSteps, LogStep DEF CoreTypes
<1> QED
  BY <1>1, <1>2, <1>3, <1>4, CoreTypesHold, OrderHolds, PublishingHolds, PTL
     DEF CoreSpec, ImplementsOrderedLog, Log!LogSpec
=============================================================================
