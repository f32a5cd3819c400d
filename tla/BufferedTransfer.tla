--------------------------- MODULE BufferedTransfer ---------------------------
(***************************************************************************)
(* BufferedSenderActor and BufferedReceiverActor: a stream of elements is  *)
(* pulled from a SinkQueue on one node, sent over Akka remoting, and       *)
(* offered to a SourceQueue on another.  Every element is acknowledged     *)
(* with Done once the SourceQueue has taken it, and at most BufferSize     *)
(* elements are unacknowledged at any time.                                *)
(*                                                                         *)
(* The element of the source at position i is represented by i.  Remoting  *)
(* keeps the order of the messages between two actors and delivers each    *)
(* of them at most once: a channel is a queue whose head may be lost.      *)
(*                                                                         *)
(* A definition named Wrong... is the definition after it with a mistake   *)
(* in it, and no behaviour uses it: each shows a property can fail.        *)
(***************************************************************************)
EXTENDS Naturals, Sequences

CONSTANTS
  NItems,       \* how many elements the source has
  BufferSize,   \* Config.bufferSize, the window of unacknowledged elements
  Faults        \* the faults the environment may inject, see FaultKinds

FaultKinds == {"loss", "sourceError", "sinkClosed", "kill"}

ASSUME NItemsAssumption == NItems \in Nat
ASSUME BufferSizeAssumption == BufferSize \in Nat \ {0}
ASSUME FaultsAssumption == Faults \subseteq FaultKinds

VARIABLES
  pulled,       \* elements the SinkQueue has handed out
  pulls,        \* how many pulls of the SinkQueue are unanswered
  answers,      \* answers piped to the sender and not handled yet
  pending,      \* BufferedSenderActor.pending
  complete,     \* BufferedSenderActor.complete
  sender,       \* "running" or "stopped"
  toReceiver,   \* messages on their way to the receiver
  acks,         \* Done messages on their way to the sender
  buffer,       \* BufferedReceiverActor.buffer
  offering,     \* BufferedReceiverActor.offering
  rcvComplete,  \* BufferedReceiverActor.complete
  receiver,     \* "running" or "stopped"
  offered,      \* the element the SourceQueue has been offered, or NoItem
  offerDone,    \* Done messages piped to the receiver and not handled yet
  sink,         \* the stream behind the SourceQueue
  delivered     \* the elements that stream has accepted

sourceVars   == <<pulled>>
senderVars   == <<pulls, answers, pending, complete, sender>>
receiverVars == <<buffer, offering, rcvComplete, receiver, offered, offerDone>>
sinkVars     == <<sink, delivered>>
vars == <<sourceVars, senderVars, toReceiver, acks, receiverVars, sinkVars>>

Items  == 1 .. NItems
NoItem == 0

Data(item) == [type |-> "Data", item |-> item]
Complete   == [type |-> "Complete"]
Error      == [type |-> "Error"]
Message    == [type : {"Data"}, item : Items] \cup {Complete, Error}

TypeOK ==
  /\ pulled \in 0 .. NItems
  /\ pulls \in 0 .. 1
  /\ answers \in Seq(Message)
  /\ pending \in 0 .. BufferSize
  /\ complete \in BOOLEAN
  /\ sender \in {"running", "stopped"}
  /\ toReceiver \in Seq(Message)
  /\ acks \in Nat
  /\ buffer \in Seq(Items)
  /\ offering \in BOOLEAN
  /\ rcvComplete \in BOOLEAN
  /\ receiver \in {"running", "stopped"}
  /\ offered \in Items \cup {NoItem}
  /\ offerDone \in 0 .. 1
  /\ sink \in {"open", "completed", "failed", "closed"}
  /\ delivered \in Seq(Items)

\* preStart polls, so a transfer begins with one unanswered pull.
Init ==
  /\ pulled = 0
  /\ pulls = 1
  /\ answers = <<>>
  /\ pending = 0
  /\ complete = FALSE
  /\ sender = "running"
  /\ toReceiver = <<>>
  /\ acks = 0
  /\ buffer = <<>>
  /\ offering = FALSE
  /\ rcvComplete = FALSE
  /\ receiver = "running"
  /\ offered = NoItem
  /\ offerDone = 0
  /\ sink = "open"
  /\ delivered = <<>>

-----------------------------------------------------------------------------
(* The SinkQueue answers a pull: the next element, the end, or a failure.   *)

PullAnswered ==
  /\ pulls > 0
  /\ pulls' = pulls - 1
  /\ \/ /\ pulled < NItems
        /\ pulled' = pulled + 1
        /\ answers' = Append(answers, Data(pulled + 1))
     \/ /\ pulled = NItems
        /\ answers' = Append(answers, Complete)
        /\ UNCHANGED pulled
     \/ /\ "sourceError" \in Faults
        /\ answers' = Append(answers, Error)
        /\ UNCHANGED pulled
  /\ UNCHANGED <<pending, complete, sender, toReceiver, acks, receiverVars, sinkVars>>

-----------------------------------------------------------------------------
(* BufferedSenderActor                                                      *)

\* A pull while another one is unanswered fails at once, and that failure
\* is piped to the sender as Error.  rest: the mailbox after this message.
DoPoll(rest) ==
  /\ pulls' = 1
  /\ answers' = IF pulls > 0 THEN Append(rest, Error) ELSE rest

NoPoll(rest) ==
  /\ answers' = rest
  /\ UNCHANGED pulls

\* Completes without waiting for the acknowledgements.
WrongCheckComplete(completeNow, pendingNow) ==
  IF completeNow
  THEN toReceiver' = Append(toReceiver, Complete) /\ sender' = "stopped"
  ELSE UNCHANGED <<toReceiver, sender>>

CheckComplete(completeNow, pendingNow) ==
  IF completeNow /\ pendingNow = 0
  THEN /\ toReceiver' = Append(toReceiver, Complete)
       /\ sender' = "stopped"
  ELSE UNCHANGED <<toReceiver, sender>>

Answered(type) ==
  /\ sender = "running"
  /\ answers # <<>>
  /\ Head(answers).type = type

\* Lets the window grow one too large.
WrongSendData ==
  /\ Answered("Data")
  /\ toReceiver' = Append(toReceiver, Head(answers))
  /\ pending' = pending + 1
  /\ IF pending + 1 =< BufferSize THEN DoPoll(Tail(answers)) ELSE NoPoll(Tail(answers))
  /\ UNCHANGED <<sourceVars, complete, sender, acks, receiverVars, sinkVars>>

SendData ==
  /\ Answered("Data")
  /\ toReceiver' = Append(toReceiver, Head(answers))
  /\ pending' = pending + 1
  /\ IF pending + 1 < BufferSize THEN DoPoll(Tail(answers)) ELSE NoPoll(Tail(answers))
  /\ UNCHANGED <<sourceVars, complete, sender, acks, receiverVars, sinkVars>>

\* Polls on every acknowledgement, not only when the window was full.
WrongSenderDone ==
  /\ sender = "running"
  /\ acks > 0
  /\ acks' = acks - 1
  /\ DoPoll(answers)
  /\ pending' = pending - 1
  /\ CheckComplete(complete, pending - 1)
  /\ UNCHANGED <<sourceVars, complete, receiverVars, sinkVars>>

SenderDone ==
  /\ sender = "running"
  /\ acks > 0
  /\ acks' = acks - 1
  /\ IF pending = BufferSize THEN DoPoll(answers) ELSE NoPoll(answers)
  /\ pending' = pending - 1
  /\ CheckComplete(complete, pending - 1)
  /\ UNCHANGED <<sourceVars, complete, receiverVars, sinkVars>>

SourceExhausted ==
  /\ Answered("Complete")
  /\ complete' = TRUE
  /\ CheckComplete(TRUE, pending)
  /\ NoPoll(Tail(answers))
  /\ UNCHANGED <<sourceVars, pending, acks, receiverVars, sinkVars>>

SourceFailed ==
  /\ Answered("Error")
  /\ toReceiver' = Append(toReceiver, Error)
  /\ sender' = "stopped"
  /\ NoPoll(Tail(answers))
  /\ UNCHANGED <<sourceVars, pending, complete, acks, receiverVars, sinkVars>>

-----------------------------------------------------------------------------
(* BufferedReceiverActor                                                    *)

\* The SourceQueue takes one offer at a time; a second one fails, which
\* loses its element.  elements: the buffer the offer is taken from.
DoOffer(elements) ==
  /\ offering' = TRUE
  /\ buffer' = Tail(elements)
  /\ offered' = IF offered = NoItem THEN Head(elements) ELSE offered

\* queue.complete() and queue.fail() mean nothing to a stream that ended.
CloseSink(how) == sink' = IF sink = "open" THEN how ELSE sink

Arrived(type) ==
  /\ receiver = "running"
  /\ toReceiver # <<>>
  /\ Head(toReceiver).type = type
  /\ toReceiver' = Tail(toReceiver)

\* Acknowledges an element when it arrives and again when it is taken.
WrongReceiveData ==
  /\ Arrived("Data")
  /\ acks' = acks + 1
  /\ LET received == Append(buffer, Head(toReceiver).item) IN
       IF offering
       THEN buffer' = received /\ UNCHANGED <<offering, offered>>
       ELSE DoOffer(received)
  /\ UNCHANGED <<sourceVars, senderVars, rcvComplete, receiver, offerDone, sinkVars>>

ReceiveData ==
  /\ Arrived("Data")
  /\ LET received == Append(buffer, Head(toReceiver).item) IN
       IF offering
       THEN buffer' = received /\ UNCHANGED <<offering, offered>>
       ELSE DoOffer(received)
  /\ UNCHANGED <<sourceVars, senderVars, acks, rcvComplete, receiver, offerDone, sinkVars>>

\* Forgets that the source may have completed during the last offer.
WrongReceiveOffered ==
  /\ receiver = "running"
  /\ offerDone > 0
  /\ offerDone' = offerDone - 1
  /\ IF buffer # <<>>
     THEN DoOffer(buffer)
     ELSE offering' = FALSE /\ UNCHANGED <<buffer, offered>>
  /\ UNCHANGED <<sourceVars, senderVars, toReceiver, acks, rcvComplete, receiver, sinkVars>>

ReceiveOffered ==
  /\ receiver = "running"
  /\ offerDone > 0
  /\ offerDone' = offerDone - 1
  /\ IF buffer # <<>>
     THEN DoOffer(buffer) /\ UNCHANGED <<receiver, sink>>
     ELSE /\ offering' = FALSE
          /\ IF rcvComplete
             THEN CloseSink("completed") /\ receiver' = "stopped"
             ELSE UNCHANGED <<receiver, sink>>
          /\ UNCHANGED <<buffer, offered>>
  /\ UNCHANGED <<sourceVars, senderVars, toReceiver, acks, rcvComplete, delivered>>

ReceiveComplete ==
  /\ Arrived("Complete")
  /\ rcvComplete' = TRUE
  /\ IF offering
     THEN UNCHANGED <<receiver, sink>>
     ELSE CloseSink("completed") /\ receiver' = "stopped"
  /\ UNCHANGED <<sourceVars, senderVars, acks, buffer, offering, offered, offerDone, delivered>>

\* Completes the stream when the source has failed.
WrongReceiveError ==
  /\ Arrived("Error")
  /\ CloseSink("completed")
  /\ receiver' = "stopped"
  /\ UNCHANGED <<sourceVars, senderVars, acks, buffer, offering, rcvComplete,
                 offered, offerDone, delivered>>

ReceiveError ==
  /\ Arrived("Error")
  /\ CloseSink("failed")
  /\ receiver' = "stopped"
  /\ UNCHANGED <<sourceVars, senderVars, acks, buffer, offering, rcvComplete,
                 offered, offerDone, delivered>>

-----------------------------------------------------------------------------
(* The SourceQueue resolves an offer.                                       *)

\* The future's callback acknowledges the element and pipes Done to self.
Acknowledge ==
  /\ offered' = NoItem
  /\ acks' = acks + 1
  /\ offerDone' = offerDone + 1
  /\ UNCHANGED <<sourceVars, senderVars, toReceiver, buffer, offering, rcvComplete,
                 receiver, sink>>

OfferAccepted ==
  /\ offered # NoItem
  /\ sink = "open"
  /\ delivered' = Append(delivered, offered)
  /\ Acknowledge

\* QueueClosed is a result like any other to the callback: the element is
\* acknowledged although no stream will ever see it.
OfferDiscarded ==
  /\ offered # NoItem
  /\ sink = "closed"
  /\ UNCHANGED delivered
  /\ Acknowledge

\* A failed offer arrives as Status.Failure, which the receiver ignores:
\* offering stays set and nothing is acknowledged.
OfferFailed ==
  /\ offered # NoItem
  /\ sink # "open"
  /\ offered' = NoItem
  /\ UNCHANGED <<sourceVars, senderVars, toReceiver, acks, buffer, offering, rcvComplete,
                 receiver, offerDone, sinkVars>>

-----------------------------------------------------------------------------
(* Faults                                                                   *)

LoseMessage ==
  /\ "loss" \in Faults
  /\ \/ toReceiver # <<>> /\ toReceiver' = Tail(toReceiver) /\ UNCHANGED acks
     \/ acks > 0 /\ acks' = acks - 1 /\ UNCHANGED toReceiver
  /\ UNCHANGED <<sourceVars, senderVars, receiverVars, sinkVars>>

\* The stream behind the SourceQueue ends on its own (the file sink fails).
SinkClosed ==
  /\ "sinkClosed" \in Faults
  /\ sink = "open"
  /\ sink' = "closed"
  /\ UNCHANGED <<sourceVars, senderVars, toReceiver, acks, receiverVars, delivered>>

\* Each actor is a child and dies with its parent or its process.
Kill ==
  /\ "kill" \in Faults
  /\ \/ sender = "running" /\ sender' = "stopped" /\ UNCHANGED receiver
     \/ receiver = "running" /\ receiver' = "stopped" /\ UNCHANGED sender
  /\ UNCHANGED <<sourceVars, pulls, answers, pending, complete, toReceiver, acks,
                 buffer, offering, rcvComplete, offered, offerDone, sinkVars>>

-----------------------------------------------------------------------------
SenderStep   == SendData \/ SenderDone \/ SourceExhausted \/ SourceFailed
ReceiverStep == ReceiveData \/ ReceiveOffered \/ ReceiveComplete \/ ReceiveError
OfferStep    == OfferAccepted \/ OfferDiscarded \/ OfferFailed

Next ==
  \/ PullAnswered
  \/ SendData \/ SenderDone \/ SourceExhausted \/ SourceFailed
  \/ ReceiveData \/ ReceiveOffered \/ ReceiveComplete \/ ReceiveError
  \/ OfferAccepted \/ OfferDiscarded \/ OfferFailed
  \/ LoseMessage \/ SinkClosed \/ Kill

Spec == Init /\ [][Next]_vars

\* The dispatcher runs every actor that has mail, the source produces and
\* the stream consumes.  Faults are never obliged to happen.
Fairness ==
  /\ WF_vars(PullAnswered)
  /\ WF_vars(SenderStep)
  /\ WF_vars(ReceiverStep)
  /\ WF_vars(OfferStep)

FairSpec == Spec /\ Fairness

-----------------------------------------------------------------------------
(* Properties                                                               *)

\* The message that ends a transfer, when it is still in the channel, is the
\* last one in it: everything before it is data.
EndInChannel ==
  toReceiver # <<>> /\ toReceiver[Len(toReceiver)].type # "Data"

DataInChannel == IF EndInChannel THEN Len(toReceiver) - 1 ELSE Len(toReceiver)

\* The sender never pulls while a pull is unanswered or its answer unhandled
\* (the SinkQueue would fail, and two answers could overtake each other), yet
\* it always has a pull going while the window has room: doPoll is called from
\* both the Data and the Done handler, and each relies on the other's condition.
PollDiscipline ==
  /\ Len(answers) + pulls =< 1
  /\ sender = "running" =>
       (pulls > 0 \/ answers # <<>> <=> pending < BufferSize /\ ~complete)

\* An offer the SourceQueue has not resolved yet.
InOffer == IF offered = NoItem THEN 0 ELSE 1

\* Every element that is on its way to the stream or whose acknowledgement is
\* on its way back is still counted in pending: the receiver's buffer, which
\* has no limit of its own, never holds more than the sender's window.
WindowBound ==
  DataInChannel + Len(buffer) + InOffer + acks =< pending

\* The stream sees the elements in source order and none of them twice,
\* whatever is lost: no gap is ever filled late.
InOrder ==
  \A i, j \in 1 .. Len(delivered) : i < j => delivered[i] < delivered[j]

\* The stream is completed only when it has received the whole source, even
\* though messages may be lost: Complete is sent only once every element has
\* been acknowledged, so a lost element or acknowledgement stalls the
\* transfer instead of truncating the file.
CompleteIsWhole ==
  sink = "completed" => delivered = [i \in Items |-> i]

Transfer == INSTANCE OrderedTransfer WITH outcome <- sink

\* The protocol implements the ordered transfer.
ImplementsTransfer == Transfer!Spec

\* What a transfer can wait for for ever, since nothing times it out: a stream
\* that has ended without it, an acknowledgement owed for something that was
\* lost, or an actor that was killed.
Disturbed ==
  \/ sink = "closed"
  \/ sender = "running" /\ DataInChannel + Len(buffer) + InOffer + acks < pending
  \/ sender = "stopped" /\ receiver = "running" /\ ~EndInChannel /\ ~rcvComplete
  \/ receiver = "stopped" /\ sink = "open"

\* A transfer settles: both actors stop, after completing the stream, or after
\* failing it if the source has failed.  Whatever is lost, closed or killed,
\* only what is named above can keep it from that.
Settles ==
  <>[](\/ /\ sender = "stopped" /\ receiver = "stopped"
          /\ \/ sink = "completed"
             \/ sink = "failed" /\ "sourceError" \in Faults
       \/ Disturbed)

-----------------------------------------------------------------------------
(* The inductive invariant                                                  *)

\* The last element the sender has sent.
Sent ==
  pulled - (IF answers # <<>> /\ Head(answers).type = "Data" THEN 1 ELSE 0)

AnswersInv ==
  /\ Len(answers) + pulls =< 1
  /\ answers # <<>> => \/ Head(answers) = Data(pulled) /\ pulled \in Items
                       \/ Head(answers) = Complete /\ pulled = NItems
                       \/ Head(answers) = Error
  /\ complete => pulled = NItems /\ answers = <<>> /\ pulls = 0 /\ pending < BufferSize

ChannelInv ==
  /\ \A i \in 1 .. Len(toReceiver) :
       toReceiver[i].type # "Data" => i = Len(toReceiver) /\ sender = "stopped"
  /\ \A i \in 1 .. Len(toReceiver) :
       toReceiver[i].type = "Complete" => complete /\ pending = 0
  /\ rcvComplete => complete /\ pending = 0 /\ sender = "stopped"

\* Every acknowledgement the sender has counted, or is about to count, stands
\* for an element the stream has accepted.
CreditInv ==
  sink = "open" => Sent - pending + acks =< Len(delivered)

ReceiverInv ==
  /\ receiver = "running" /\ ~offering => buffer = <<>> /\ offered = NoItem /\ offerDone = 0
  /\ offered # NoItem => offerDone = 0

\* The stream has received increasing elements, each at or after its place.
DeliveredInv ==
  /\ \A i \in 1 .. Len(delivered) : delivered[i] >= i
  /\ \A i, j \in 1 .. Len(delivered) : i =< j => delivered[j] - delivered[i] >= j - i

\* What is on its way lies after everything the stream has received, ...
AfterDelivered ==
  \A i \in 1 .. Len(delivered) :
    /\ delivered[i] =< Sent
    /\ offered # NoItem => delivered[i] < offered
    /\ \A j \in 1 .. Len(buffer) : delivered[i] < buffer[j]
    /\ \A j \in 1 .. Len(toReceiver) :
         toReceiver[j].type = "Data" => delivered[i] < toReceiver[j].item

\* ... the receiver's buffer lies after the element on offer, in order, ...
BufferInv ==
  /\ offered =< Sent
  /\ \A j \in 1 .. Len(buffer) : offered < buffer[j] /\ buffer[j] =< Sent
  /\ \A i, j \in 1 .. Len(buffer) : i < j => buffer[i] < buffer[j]

\* ... and the data in the channel after both, in order.
ChannelOrderInv ==
  \A j \in 1 .. Len(toReceiver) : toReceiver[j].type = "Data" =>
    /\ offered < toReceiver[j].item /\ toReceiver[j].item =< Sent
    /\ \A i \in 1 .. Len(buffer) : buffer[i] < toReceiver[j].item
    /\ \A i \in 1 .. Len(toReceiver) : i < j => toReceiver[i].item < toReceiver[j].item

OrderInv == DeliveredInv /\ AfterDelivered /\ BufferInv /\ ChannelOrderInv

Inv ==
  /\ TypeOK
  /\ PollDiscipline
  /\ AnswersInv
  /\ ChannelInv
  /\ WindowBound
  /\ CreditInv
  /\ ReceiverInv
  /\ OrderInv
  /\ CompleteIsWhole
=============================================================================
