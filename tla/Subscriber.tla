----------------------------- MODULE Subscriber ------------------------------
(***************************************************************************)
(* A Subscriber (subscriber.cpp) against an arbitrary network: any         *)
(* envelope may arrive on the SUB socket and any list may answer a         *)
(* recovery request.  Its threads are                                      *)
(*   - the constructor's startup() followed by thread_fn, here one thread  *)
(*     whose position is sub_pc: do_recovery is only ever called by it;    *)
(*   - sub_connecting_thread_fn;                                           *)
(*   - one recovery_time_controller thread per recovery begun.  They are   *)
(*     interchangeable, so only how many stand at each point is kept;      *)
(*   - the application thread that calls poll().                           *)
(* isRecoveringNow is read and written by the first and the third without  *)
(* a lock.  The message queue is shared without a lock too; one operation  *)
(* on it is one step here, so the torn states a data race on std::queue    *)
(* could build are not modelled.                                           *)
(***************************************************************************)
EXTENDS Datatypes

CONSTANTS
    StoredNumbers,  \* what the storage's load_sequence_number may return
    Replies,        \* lists of envelopes a recovery may be answered with
    MaxTimers       \* bound on controller threads alive at once

ASSUME SubscriberAssumption ==
    /\ StoredNumbers \subseteq Nat
    /\ Replies \subseteq Seq(Envelope)
    /\ MaxTimers \in Nat \ {0}

VARIABLES
    sub_pc,               \* where the receiving thread is
    constructed,          \* has the constructor returned
    sub_sequence_number,  \* number of the last envelope accepted
    loaded,               \* history: the number the constructor loaded
    message_envelopes,    \* accepted and not yet polled
    delivered,            \* history: what poll() has returned
    isRecoveringNow,
    request,              \* the recovery request being made
    missed,               \* rest of the answer still to be applied
    req_connected,        \* does the REQ socket hold a connection
    isSubConnected,
    subscribed,           \* has the SUB socket's subscription been set
    sleeping,             \* controllers asleep for their 5 seconds
    tripped,              \* controllers that have seen isRecoveringNow set
    clearing              \* controllers that have reset it, yet to disconnect

recoveryVars == <<isRecoveringNow, request, missed, req_connected>>
timerVars    == <<sleeping, tripped, clearing>>
logVars      == <<sub_sequence_number, message_envelopes, delivered, loaded>>
statusVars   == <<constructed, isSubConnected, subscribed>>
subVars      == <<sub_pc, logVars, recoveryVars, timerVars, statusVars>>

SubPoints == {"startup", "receive", "connect", "send", "await", "apply", "disconnect"}

NoRequest == [start_sequence_number |-> 0, end_sequence_number |-> 0]

SubInit ==
    /\ loaded \in StoredNumbers
    /\ sub_sequence_number = loaded
    /\ sub_pc = "startup"
    /\ constructed = FALSE
    /\ message_envelopes = <<>>
    /\ delivered = <<>>
    /\ isRecoveringNow = FALSE
    /\ request = NoRequest
    /\ missed = <<>>
    /\ req_connected = FALSE
    /\ isSubConnected = FALSE
    /\ subscribed = FALSE
    /\ sleeping = 0
    /\ tripped = 0
    /\ clearing = 0

-----------------------------------------------------------------------------
(* The parts of the handlers, each after the mutants made of it. *)

\* Mutant of FirstMissing: the request begins one too late.
FirstMissingLate == sub_sequence_number + 2

FirstMissing == sub_sequence_number + 1

\* Mutant of IsMissed: everything in an answer is taken to be new.
IsMissedAlways(envelope) == TRUE

IsMissed(envelope) == envelope.sequence_number > sub_sequence_number

\* Mutant of Accept: the position is not moved on.
AcceptInPlace(envelope) ==
    /\ message_envelopes' = Append(message_envelopes, envelope)
    /\ UNCHANGED <<sub_sequence_number, delivered, loaded>>

Accept(envelope) ==
    /\ message_envelopes' = Append(message_envelopes, envelope)
    /\ sub_sequence_number' = envelope.sequence_number
    /\ UNCHANGED <<delivered, loaded>>

\* Mutant of EndRecovery: the flag is reset and the socket left connected.
EndRecoveryConnected == isRecoveringNow' = FALSE /\ UNCHANGED req_connected

EndRecovery == isRecoveringNow' = FALSE /\ req_connected' = FALSE

\* Mutant of ErrorExit: the error handler returns.
ErrorExitReturns == "receive"

\* Where the catch block of do_recovery goes on.
ErrorExit == "disconnect"

\* Mutant of ControllerActs: it looks for a connection to close.
ControllerActsOnConnection == req_connected

ControllerActs == isRecoveringNow

\* Mutant of ControllerResets: the controller only disconnects.
ControllerResetsNothing == UNCHANGED isRecoveringNow

ControllerResets == isRecoveringNow' = FALSE

-----------------------------------------------------------------------------
(* do_recovery *)

\* Another recovery is believed to be running: give up at once.
RecoverySuppressed ==
    /\ isRecoveringNow
    /\ sub_pc' = "receive"
    /\ UNCHANGED <<recoveryVars, timerVars>>

\* Set the flag and start a controller.  With start > end nothing more is
\* done, and the flag is left for the controller to reset.
RecoveryBegins(start, end) ==
    /\ ~isRecoveringNow
    /\ sleeping + tripped + clearing < MaxTimers
    /\ isRecoveringNow' = TRUE
    /\ sleeping' = sleeping + 1
    /\ \/ /\ start > end
          /\ sub_pc' = "receive"
          /\ UNCHANGED request
       \/ /\ start <= end
          /\ sub_pc' = "connect"
          /\ request' = [start_sequence_number |-> start, end_sequence_number |-> end]
    /\ UNCHANGED <<missed, req_connected, tripped, clearing>>

DoRecovery(start, end) ==
    RecoverySuppressed \/ RecoveryBegins(start, end)

ConnectReq ==
    /\ sub_pc = "connect"
    /\ sub_pc' = "send"
    /\ req_connected' = TRUE
    /\ UNCHANGED <<logVars, isRecoveringNow, request, missed, timerVars, statusVars>>

\* A REQ socket without a connection blocks in send.
SendRequest ==
    /\ sub_pc = "send"
    /\ req_connected
    /\ sub_pc' = "await"
    /\ UNCHANGED <<logVars, recoveryVars, timerVars, statusVars>>

\* The answer arrives on the connection the request left by, or not at all.
ReceiveResponse(reply) ==
    /\ sub_pc = "await"
    /\ req_connected
    /\ sub_pc' = "apply"
    /\ missed' = TransmittedList(reply)
    /\ UNCHANGED <<logVars, isRecoveringNow, request, req_connected, timerVars, statusVars>>

\* One turn of the loop over the answer: only what is newer is accepted.
ApplyMissed ==
    /\ sub_pc = "apply"
    /\ missed # <<>>
    /\ \/ IsMissed(Head(missed)) /\ Accept(Head(missed))
       \/ ~IsMissed(Head(missed)) /\ UNCHANGED logVars
    /\ missed' = Tail(missed)
    /\ UNCHANGED <<sub_pc, isRecoveringNow, request, req_connected, timerVars, statusVars>>

MissedApplied ==
    /\ sub_pc = "apply"
    /\ missed = <<>>
    /\ sub_pc' = "disconnect"
    /\ UNCHANGED <<logVars, recoveryVars, timerVars, statusVars>>

\* A zmq::error_t from connect, send or recv ends the attempt.
RecoveryError ==
    /\ sub_pc \in {"connect", "send", "await"}
    /\ sub_pc' = ErrorExit
    /\ UNCHANGED <<logVars, recoveryVars, timerVars, statusVars>>

FinishRecovery ==
    /\ sub_pc = "disconnect"
    /\ sub_pc' = "receive"
    /\ EndRecovery
    /\ constructed' = TRUE
    /\ UNCHANGED <<logVars, request, missed, timerVars, isSubConnected, subscribed>>

-----------------------------------------------------------------------------
(* startup and thread_fn *)

Startup ==
    /\ sub_pc = "startup"
    /\ DoRecovery(sub_sequence_number, 0)
    /\ constructed' = (sub_pc' = "receive")
    /\ UNCHANGED <<logVars, isSubConnected, subscribed>>

\* Ahead of the next number: recover, and forget the envelope received.
ReceiveAhead(envelope) ==
    /\ sub_pc = "receive"
    /\ subscribed
    /\ Transmitted(envelope).sequence_number > sub_sequence_number + 1
    /\ DoRecovery(FirstMissing, Transmitted(envelope).sequence_number)
    /\ UNCHANGED <<logVars, statusVars>>

ReceiveOld(envelope) ==
    /\ sub_pc = "receive"
    /\ subscribed
    /\ Transmitted(envelope).sequence_number < sub_sequence_number + 1
    /\ UNCHANGED subVars

ReceiveNext(envelope) ==
    /\ sub_pc = "receive"
    /\ subscribed
    /\ Transmitted(envelope).sequence_number = sub_sequence_number + 1
    /\ Accept(Transmitted(envelope))
    /\ UNCHANGED <<sub_pc, recoveryVars, timerVars, statusVars>>

Receive(envelope) ==
    ReceiveAhead(envelope) \/ ReceiveOld(envelope) \/ ReceiveNext(envelope)

ReceiveError ==
    /\ sub_pc = "receive"
    /\ isSubConnected' = FALSE
    /\ UNCHANGED <<sub_pc, logVars, recoveryVars, timerVars, constructed, subscribed>>

-----------------------------------------------------------------------------
(* sub_connecting_thread_fn *)

SubConnect ==
    /\ ~isSubConnected
    /\ isSubConnected' = TRUE
    /\ subscribed' = TRUE
    /\ UNCHANGED <<sub_pc, logVars, recoveryVars, timerVars, constructed>>

-----------------------------------------------------------------------------
(* recovery_time_controller_thread_fn *)

TimerWakes ==
    /\ sleeping > 0
    /\ sleeping' = sleeping - 1
    /\ tripped' = IF ControllerActs THEN tripped + 1 ELSE tripped
    /\ UNCHANGED <<sub_pc, logVars, recoveryVars, clearing, statusVars>>

TimerClears ==
    /\ tripped > 0
    /\ tripped' = tripped - 1
    /\ clearing' = clearing + 1
    /\ ControllerResets
    /\ UNCHANGED <<sub_pc, logVars, request, missed, req_connected, sleeping, statusVars>>

TimerDisconnects ==
    /\ clearing > 0
    /\ clearing' = clearing - 1
    /\ req_connected' = FALSE
    /\ UNCHANGED <<sub_pc, logVars, isRecoveringNow, request, missed, sleeping, tripped,
                   statusVars>>

-----------------------------------------------------------------------------
(* poll, called by the application once the constructor has returned *)

Poll ==
    /\ constructed
    /\ message_envelopes # <<>>
    /\ delivered' = Append(delivered, Head(message_envelopes))
    /\ message_envelopes' = Tail(message_envelopes)
    /\ UNCHANGED <<sub_pc, sub_sequence_number, loaded, recoveryVars, timerVars, statusVars>>

-----------------------------------------------------------------------------
RecoveryStep == ConnectReq \/ SendRequest \/ ApplyMissed \/ MissedApplied \/ FinishRecovery

TimerStep == TimerWakes \/ TimerClears \/ TimerDisconnects

SubNext ==
    \/ Startup
    \/ \E envelope \in Envelope : Receive(envelope)
    \/ ReceiveError
    \/ \E reply \in Replies : ReceiveResponse(reply)
    \/ RecoveryStep
    \/ RecoveryError
    \/ SubConnect
    \/ TimerStep
    \/ Poll

SubSpec == SubInit /\ [][SubNext]_subVars

\* A controller thread is scheduled, and its sleep ends.
SubFairSpec ==
    /\ SubSpec
    /\ WF_subVars(TimerWakes)
    /\ WF_subVars(TimerClears)
    /\ WF_subVars(TimerDisconnects)

-----------------------------------------------------------------------------
(* What the component promises *)

\* An envelope as it comes out of Deserialize: its number is a C int.
Received == [id : Ids, topic : Topics, sequence_number : 0 .. IntMax]

\* The types of the variables; a number received is one an int can hold.
SubTypeOK ==
    /\ sub_pc \in SubPoints
    /\ sub_sequence_number \in Nat /\ loaded \in Nat
    /\ message_envelopes \in Seq(Received)
    /\ delivered \in Seq(Received)
    /\ isRecoveringNow \in BOOLEAN
    /\ request \in RecoveryRequest
    /\ missed \in Seq(Received)
    /\ req_connected \in BOOLEAN
    /\ constructed \in BOOLEAN /\ isSubConnected \in BOOLEAN /\ subscribed \in BOOLEAN
    /\ sleeping \in Nat /\ tripped \in Nat /\ clearing \in Nat

Increasing(envelopes) ==
    \A i, j \in DOMAIN envelopes :
        i < j => envelopes[i].sequence_number < envelopes[j].sequence_number

\* Whatever arrives, in whatever order, live or recovered: poll() hands out
\* envelopes of strictly increasing numbers, all above the number loaded, and
\* what is still queued comes after everything handed out.  So no envelope is
\* delivered twice or out of order (thread_fn's three cases, the test in the
\* loop of do_recovery).
OrderedDelivery ==
    /\ Increasing(delivered)
    /\ Increasing(message_envelopes)
    /\ \A i \in DOMAIN delivered, j \in DOMAIN message_envelopes :
           delivered[i].sequence_number < message_envelopes[j].sequence_number
    /\ \A i \in DOMAIN delivered :
           loaded < delivered[i].sequence_number
    /\ \A j \in DOMAIN message_envelopes :
           loaded < message_envelopes[j].sequence_number

\* While recoveries are suppressed there is a controller that will end the
\* suppression, also after the early return of do_recovery that leaves the
\* flag set and after a late controller has reset the flag of a later recovery.
FlagHasController == isRecoveringNow => sleeping + tripped > 0

\* No connection outlives its recovery: the thread never waits for live
\* messages, or begins a recovery, with the REQ socket still connected, so an
\* answer to an earlier request cannot be taken for the answer to a later one.
NoStaleConnection == sub_pc \in {"startup", "receive", "connect"} => ~req_connected

\* Recoveries are never suppressed for good.
SuppressionEnds == isRecoveringNow ~> ~isRecoveringNow

\* The synchronisation at start: the constructor returns from an exchange with the
\* publisher, never without having asked (subscriber.cpp:83, and the start-up
\* diagram of README.md:5: "M > N: request messages (N, M]").  Violated: with a
\* number N > 0 loaded, startup() asks for N .. 0 and do_recovery returns early.
StartupAsks == [][~constructed /\ constructed' => sub_pc # "startup"]_subVars

\* The subscriber implements the log and its reader.
Log == INSTANCE OrderedLog WITH
           first <- loaded, log <- delivered \o message_envelopes, read <- Len(delivered)

ImplementsOrderedLog == Log!LogSpec
=============================================================================
