---------------------------- MODULE MessagingCore -----------------------------
(***************************************************************************)
(* The whole system: the publishers of one process and their storage, one  *)
(* subscriber, and the two paths between them that libzmq provides.        *)
(*   wire      PUB to SUB: keeps the order, may drop a message when it is  *)
(*             sent (no peer yet, high-water mark), and drops what the     *)
(*             subscriber's topic does not match                           *)
(*   requests, answer   REQ to REP: a request waits for its endpoint to    *)
(*             come up; disconnecting discards both directions, and the    *)
(*             answer to a request whose connection is gone is dropped     *)
(***************************************************************************)
EXTENDS PublishPath, Subscriber

CONSTANT sub_topic  \* the topic the subscriber asks for

ASSUME TopicAssumption == sub_topic \in Topics

VARIABLES
    wire,       \* envelopes on their way to the SUB socket
    requests,   \* the request on its way to the REP socket, if any
    rep_live,   \* is the request being answered one somebody still waits for
    answer      \* the answer on its way to the REQ socket, if any

reqVars  == <<requests, rep_live, answer>>
coreVars == <<pathVars, subVars, wire, reqVars>>

CoreInit ==
    /\ PathInit
    /\ SubInit
    /\ wire = <<>>
    /\ requests = <<>>
    /\ rep_live = FALSE
    /\ answer = <<>>

-----------------------------------------------------------------------------
(* The PUB and SUB sockets *)

SendLive(p) ==
    /\ SendMessage(p)
    /\ \/ UNCHANGED wire
       \/ /\ pub_owner = p
          /\ subscribed
          /\ msg_envelope[p].topic = sub_topic
          /\ wire' = Append(wire, msg_envelope[p])
    /\ UNCHANGED <<intact, subVars, reqVars>>

ReceiveLive ==
    /\ wire # <<>>
    /\ Receive(Head(wire))
    /\ wire' = Tail(wire)
    /\ UNCHANGED <<pathVars, reqVars>>

-----------------------------------------------------------------------------
(* The REQ and REP sockets *)

Request ==
    /\ SendRequest
    /\ requests' = <<request>>
    /\ UNCHANGED <<pathVars, wire, rep_live, answer>>

DeliverRequest ==
    /\ requests # <<>>
    /\ ReceiveRequest(requests[1])
    /\ requests' = <<>>
    /\ rep_live' = TRUE
    /\ UNCHANGED <<intact, subVars, wire, answer>>

Answer ==
    /\ SendResponse
    /\ answer' = IF rep_live THEN <<scan.found>> ELSE answer
    /\ rep_live' = FALSE
    /\ UNCHANGED <<intact, subVars, wire, requests>>

ReceiveAnswer ==
    /\ answer # <<>>
    /\ ReceiveResponse(answer[1])
    /\ answer' = <<>>
    /\ UNCHANGED <<pathVars, wire, requests, rep_live>>

Disconnected == requests' = <<>> /\ answer' = <<>> /\ rep_live' = FALSE

Disconnect ==
    /\ FinishRecovery \/ TimerDisconnects
    /\ Disconnected
    /\ UNCHANGED <<pathVars, wire>>

-----------------------------------------------------------------------------
(* The publishing process dies and starts again.  Of what was under way some *)
(* first part of the live messages may already have reached the subscriber's *)
(* host; a request not yet taken may wait for the new process or be lost.    *)

CrashCore ==
    /\ Crash
    /\ \E n \in 0 .. Len(wire) : wire' = SubSeq(wire, 1, n)
    /\ requests' \in {requests, <<>>}
    /\ answer' \in {answer, <<>>}
    /\ rep_live' = FALSE
    /\ UNCHANGED subVars

-----------------------------------------------------------------------------
PublishingSide ==
    /\ \/ \E p \in Publishers :
            \/ \E id \in Ids, topic \in Topics : Publish(p, id, topic) /\ UNCHANGED intact
            \/ TakeMessage(p) /\ UNCHANGED intact
            \/ StoreMessage(p) /\ UNCHANGED intact
            \/ SendError(p) /\ UNCHANGED intact
            \/ BindPub(p) /\ UNCHANGED intact
            \/ BindRep(p) /\ UNCHANGED intact
       \/ (PopStored \/ WriteRow) /\ UNCHANGED <<pubVars, intact>>
       \/ InsertFails /\ intact' = FALSE /\ UNCHANGED pubVars
       \/ GetMessageEnvelopes /\ UNCHANGED intact
       \/ RepError /\ UNCHANGED <<storeVars, intact>>
    /\ UNCHANGED <<subVars, wire, reqVars>>

SubscribingSide ==
    /\ \/ Startup
       \/ ConnectReq
       \/ ApplyMissed
       \/ MissedApplied
       \/ SubConnect
       \/ TimerWakes
       \/ TimerClears
       \/ Poll
       \/ "zmq" \in Failures /\ (RecoveryError \/ ReceiveError)
    /\ UNCHANGED <<pathVars, wire, reqVars>>

CoreNext ==
    \/ PublishingSide
    \/ SubscribingSide
    \/ \E p \in Publishers : SendLive(p)
    \/ ReceiveLive
    \/ Request \/ DeliverRequest \/ Answer \/ ReceiveAnswer
    \/ Disconnect
    \/ CrashCore

CoreSpec == CoreInit /\ [][CoreNext]_coreVars

-----------------------------------------------------------------------------
(* What the system promises *)

\* Everything accepted, polled or not.
Accepted_log == delivered \o message_envelopes

\* Has the database drawn a number for a row that never came to be?
SerialIntact == serial \in {0, Cardinality(Rows)}

\* No message is skipped: what the subscriber accepts is numbered without a hole
\* from the number it started after.  Live messages may be lost, answers may
\* overtake the storage's thread, late controllers may end a recovery early, the
\* publisher may die: the subscriber then stops short, but never leaves one out.
\* (POSTGRESQL, where an answer comes from one statement; rows in key order and
\* without holes.)
NoGap ==
    SerialIntact =>
        \A i \in DOMAIN Accepted_log : Accepted_log[i].sequence_number = loaded + i

\* Until something fails, what the subscriber accepted as message n is what the
\* storage holds, or will hold, as message n, whether it came live or from the
\* storage.
AgreesWithStorage ==
    intact =>
        \A i \in DOMAIN Accepted_log, k \in Rows :
            Accepted_log[i].sequence_number = k => Accepted_log[i].id = db[k].id

\* Until something fails, nothing published is delivered twice.
DeliveredOnce ==
    intact =>
        \A i, j \in DOMAIN Accepted_log :
            Accepted_log[i].id = Accepted_log[j].id => i = j

\* An answer is only ever in flight for the thread that asked for it, on the
\* connection it asked by: none is left over for a later request, neither by an
\* error nor by a controller that disconnects late.
AnswerIsAwaited ==
    answer # <<>> =>
        sub_pc \in {"await", "disconnect"} /\ req_connected /\ requests = <<>>

-----------------------------------------------------------------------------
(* What the documentation says and the code does not do *)

\* A recovery that was answered reaches the message that showed the gap (the
\* diagram of README.md:3 repeats the request "while not size(messages) & head,
\* tail correct").  Violated: the answer holds what the storage's thread has
\* written so far, and the subscriber takes it for the whole.
RecoveryReachesTail ==
    sub_pc = "apply" /\ missed = <<>> =>
        sub_sequence_number >= request.end_sequence_number

\* A recovery ends: the 5 second controller is there to end it (subscriber.cpp:192).
\* Violated: it disconnects the socket the thread is blocked on, and recv, with
\* no connection left to receive from, never returns.
RecoveryTerminates == sub_pc = "await" ~> sub_pc # "await"

\* Every thread of the two processes is scheduled, and libzmq delivers what it
\* has accepted.
PublishingThreads ==
    /\ \/ \E p \in Publishers :
            (TakeMessage(p) \/ StoreMessage(p) \/ BindPub(p) \/ BindRep(p)) /\ UNCHANGED intact
       \/ (PopStored \/ WriteRow) /\ UNCHANGED <<pubVars, intact>>
       \/ GetMessageEnvelopes /\ UNCHANGED intact
    /\ UNCHANGED <<subVars, wire, reqVars>>

SubscribingThreads ==
    /\ Startup \/ ConnectReq \/ ApplyMissed \/ MissedApplied \/ SubConnect
       \/ TimerWakes \/ TimerClears \/ Poll
    /\ UNCHANGED <<pathVars, wire, reqVars>>

CoreFairSpec ==
    /\ CoreSpec
    /\ WF_coreVars(PublishingThreads)
    /\ WF_coreVars(SubscribingThreads)
    /\ WF_coreVars(\E p \in Publishers : SendLive(p))
    /\ WF_coreVars(ReceiveLive)
    /\ WF_coreVars(Request)
    /\ WF_coreVars(DeliverRequest)
    /\ WF_coreVars(Answer)
    /\ WF_coreVars(ReceiveAnswer)
    /\ WF_coreVars(Disconnect)
=============================================================================
