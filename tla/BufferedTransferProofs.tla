------------------------- MODULE BufferedTransferProofs -------------------------
(***************************************************************************)
(* Proofs about BufferedTransfer, for every source length, every window    *)
(* and every set of faults.                                                *)
(***************************************************************************)
EXTENDS BufferedTransfer, SequenceTheorems, TLAPS

USE NItemsAssumption, BufferSizeAssumption

\* A sequence that is not empty has a first element, and a tail one shorter.
LEMMA NonEmptySeq ==
  ASSUME NEW S, NEW s \in Seq(S), s # <<>>
  PROVE  /\ Len(s) \in Nat /\ Len(s) > 0
         /\ Head(s) = s[1] /\ Head(s) \in S
         /\ Tail(s) \in Seq(S) /\ Len(Tail(s)) = Len(s) - 1
         /\ \A i \in 1 .. Len(s) - 1 : Tail(s)[i] = s[i + 1]
         /\ Len(s) = 1 => Tail(s) = <<>>
  <1>1. Len(s) \in Nat /\ Len(s) > 0
    BY EmptySeq
  <1>2. /\ Head(s) = s[1] /\ Head(s) \in S
        /\ Tail(s) \in Seq(S) /\ Len(Tail(s)) = Len(s) - 1
        /\ \A i \in 1 .. Len(s) - 1 : Tail(s)[i] = s[i + 1]
    BY <1>1, HeadTailProperties
  <1>3. ASSUME Len(s) = 1 PROVE Tail(s) = <<>>
    <2>1. Tail(s) \in Seq(S) /\ Len(Tail(s)) = 0
      BY <1>2, <1>3
    <2>2. QED
      BY <2>1, EmptySeq
  <1>4. QED
    BY <1>1, <1>2, <1>3

\* What the three kinds of message are made of.
LEMMA Messages ==
  /\ \A item \in Items : Data(item) \in Message /\ Data(item).type = "Data"
                         /\ Data(item).item = item
  /\ Complete \in Message /\ Complete.type = "Complete"
  /\ Error \in Message /\ Error.type = "Error"
  /\ \A m \in Message : m.type \in {"Data", "Complete", "Error"}
  /\ \A m \in Message : m.type = "Data" => m.item \in Items
  BY DEF Data, Complete, Error, Message

-----------------------------------------------------------------------------
(* Facts about a state that satisfies the invariant                         *)

\* The elements the queues hold are numbers, and data carries one.
LEMMA ElementTypes ==
  ASSUME TypeOK
  PROVE  /\ pulled \in Nat /\ pending \in Nat /\ acks \in Nat /\ offered \in Nat
         /\ pulls \in Nat
         /\ Len(delivered) \in Nat /\ \A i \in 1 .. Len(delivered) : delivered[i] \in Nat
         /\ Len(buffer) \in Nat /\ \A i \in 1 .. Len(buffer) : buffer[i] \in Items
         /\ Len(toReceiver) \in Nat
         /\ \A i \in 1 .. Len(toReceiver) :
              /\ toReceiver[i] \in Message
              /\ toReceiver[i].type = "Data" => toReceiver[i].item \in Items
  <1>1. pulled \in Nat /\ pending \in Nat /\ acks \in Nat /\ offered \in Nat /\ pulls \in Nat
    BY DEF TypeOK, Items, NoItem
  <1>2. Len(delivered) \in Nat /\ \A i \in 1 .. Len(delivered) : delivered[i] \in Nat
    BY DEF TypeOK, Items
  <1>3. Len(buffer) \in Nat /\ \A i \in 1 .. Len(buffer) : buffer[i] \in Items
    BY DEF TypeOK
  <1>4. Len(toReceiver) \in Nat /\ \A i \in 1 .. Len(toReceiver) : toReceiver[i] \in Message
    BY DEF TypeOK
  <1>5. QED
    BY <1>1, <1>2, <1>3, <1>4, Messages

\* A message in the sender's mailbox is the only one, and no pull is under way.
LEMMA OneAnswer ==
  ASSUME Inv, answers # <<>>
  PROVE  /\ Len(answers) = 1 /\ Tail(answers) = <<>> /\ pulls = 0 /\ ~complete
         /\ Head(answers) \in Message
  <1>1. answers \in Seq(Message) /\ pulls \in Nat /\ Len(answers) + pulls =< 1 /\ ~complete
    BY DEF Inv, TypeOK, AnswersInv
  <1>2. Len(answers) \in Nat /\ Len(answers) > 0 /\ Head(answers) \in Message
    BY <1>1, NonEmptySeq
  <1>3. Len(answers) = 1
    <2> DEFINE n == Len(answers)
    <2>1. n \in Nat /\ n > 0 /\ n =< 1
      BY <1>1, <1>2
    <2> HIDE DEF n
    <2>2. n = 1
      BY <2>1
    <2>3. QED
      BY <2>2 DEF n
  <1>4. pulls = 0
    BY <1>1, <1>2
  <1>5. QED
    BY <1>1, <1>2, <1>3, <1>4, NonEmptySeq

\* While the sender runs, the channel holds nothing but data.
LEMMA RunningChannel ==
  ASSUME Inv, sender = "running"
  PROVE  /\ \A i \in 1 .. Len(toReceiver) : toReceiver[i].type = "Data"
         /\ DataInChannel = Len(toReceiver)
         /\ ~rcvComplete
  <1>1. \A i \in 1 .. Len(toReceiver) : toReceiver[i].type = "Data"
    BY DEF Inv, ChannelInv
  <1>2. ~EndInChannel
    BY <1>1, NonEmptySeq DEF Inv, TypeOK, EndInChannel
  <1>3. QED
    BY <1>1, <1>2 DEF Inv, ChannelInv, DataInChannel

LEMMA SentIsNat ==
  ASSUME Inv
  PROVE  Sent \in Nat
  <1>1. CASE answers # <<>> /\ Head(answers).type = "Data"
    <2>1. pulled \in Items
      BY <1>1, Messages DEF Inv, AnswersInv
    <2>2. Sent = pulled - 1
      BY <1>1 DEF Sent
    <2>3. QED
      BY <2>1, <2>2 DEF Items
  <1>2. CASE ~(answers # <<>> /\ Head(answers).type = "Data")
    <2>1. Sent = pulled - 0
      BY <1>2 DEF Sent
    <2>2. QED
      BY <2>1, ElementTypes DEF Inv
  <1>3. QED
    BY <1>1, <1>2

\* How many elements the channel holds, and how the count changes.
LEMMA ChannelCount ==
  ASSUME TypeOK
  PROVE  DataInChannel \in Nat
  <1>1. Len(toReceiver) \in Nat
    BY DEF TypeOK
  <1>2. EndInChannel => Len(toReceiver) > 0
    BY NonEmptySeq DEF TypeOK, EndInChannel
  <1>3. CASE EndInChannel
    BY <1>1, <1>2, <1>3 DEF DataInChannel
  <1>4. CASE ~EndInChannel
    BY <1>1, <1>4 DEF DataInChannel
  <1>5. QED
    BY <1>3, <1>4

LEMMA ChannelTail ==
  ASSUME TypeOK, ChannelInv, toReceiver # <<>>, toReceiver' = Tail(toReceiver)
  PROVE  /\ toReceiver' \in Seq(Message)
         /\ Head(toReceiver).type = "Data" => DataInChannel' = DataInChannel - 1
         /\ Head(toReceiver).type # "Data" => DataInChannel' = DataInChannel
  <1> DEFINE n == Len(toReceiver)
  <1>1. /\ n \in Nat /\ n > 0 /\ Len(toReceiver') = n - 1 /\ Head(toReceiver) = toReceiver[1]
        /\ \A i \in 1 .. n - 1 : toReceiver'[i] = toReceiver[i + 1]
        /\ toReceiver' \in Seq(Message)
    BY NonEmptySeq DEF TypeOK
  <1>2. CASE n = 1
    <2>1. toReceiver' = <<>>
      BY <1>2, NonEmptySeq DEF TypeOK
    <2>2. Len(toReceiver') = 0
      BY <1>1, <1>2
    <2>3. DataInChannel' = 0
      BY <2>1, <2>2 DEF DataInChannel, EndInChannel
    <2>4. EndInChannel <=> Head(toReceiver).type # "Data"
      BY <1>1, <1>2 DEF EndInChannel
    <2>5. Head(toReceiver).type = "Data" => DataInChannel = 1
      BY <1>2, <2>4 DEF DataInChannel
    <2>6. Head(toReceiver).type # "Data" => DataInChannel = 0
      BY <1>2, <2>4 DEF DataInChannel
    <2>7. QED
      BY <1>1, <2>3, <2>5, <2>6
  <1>3. CASE n # 1
    <2>1. n - 1 \in 1 .. n - 1 /\ n - 1 > 0 /\ (n - 1) + 1 = n
      BY <1>1, <1>3
    <2>2. toReceiver'[n - 1] = toReceiver[n]
      BY <1>1, <2>1
    <2>3. ASSUME toReceiver' = <<>> PROVE FALSE
      <3>1. Len(<<>>) = 0
        OBVIOUS
      <3>2. n - 1 = 0
        BY <3>1, <1>1, <2>3
      <3>3. QED
        BY <3>2, <2>1
    <2>4. EndInChannel' <=> EndInChannel
      BY <1>1, <2>2, <2>3 DEF EndInChannel
    <2>5. toReceiver[1].type = "Data"
      <3>1. 1 \in 1 .. n
        BY <1>1
      <3>2. QED
        BY <3>1, <1>3 DEF ChannelInv
    <2>6. DataInChannel' = DataInChannel - 1
      BY <1>1, <2>4 DEF DataInChannel
    <2>7. QED
      BY <1>1, <2>5, <2>6
  <1>4. QED
    BY <1>2, <1>3

\* Appending the message that ends the transfer adds no element.
LEMMA ChannelEnd ==
  ASSUME Inv, sender = "running", NEW m \in {Complete, Error},
         toReceiver' = Append(toReceiver, m)
  PROVE  /\ toReceiver' \in Seq(Message) /\ Len(toReceiver') = Len(toReceiver) + 1
         /\ \A i \in 1 .. Len(toReceiver) :
              toReceiver'[i] = toReceiver[i] /\ toReceiver'[i].type = "Data"
         /\ toReceiver'[Len(toReceiver) + 1] = m
         /\ DataInChannel' = DataInChannel
  <1> DEFINE n == Len(toReceiver)
  <1>1. /\ toReceiver' \in Seq(Message) /\ n \in Nat /\ Len(toReceiver') = n + 1
        /\ \A i \in 1 .. n : toReceiver'[i] = toReceiver[i]
        /\ toReceiver'[n + 1] = m /\ m.type # "Data"
    BY Messages DEF Inv, TypeOK
  <1>2. \A i \in 1 .. n : toReceiver'[i].type = "Data"
    BY <1>1, RunningChannel
  <1>3. toReceiver' # <<>>
    BY <1>1, EmptySeq
  <1>4. EndInChannel'
    BY <1>1, <1>3 DEF EndInChannel
  <1>5. DataInChannel' = n
    BY <1>1, <1>4 DEF DataInChannel
  <1>6. QED
    BY <1>1, <1>2, <1>5, RunningChannel

-----------------------------------------------------------------------------
(* The order of the elements: one lemma for each way an element moves       *)

LEMMA LastIndex ==
  ASSUME NEW n \in Nat, NEW j \in 1 .. n + 1
  PROVE  j \in 1 .. n \/ j = n + 1
  OBVIOUS

LEMMA OrderUnchanged ==
  ASSUME OrderInv, Sent' = Sent, UNCHANGED <<delivered, offered, buffer, toReceiver>>
  PROVE  OrderInv'
  BY DEF OrderInv, DeliveredInv, AfterDelivered, BufferInv, ChannelOrderInv

\* The sender sends the next element.
LEMMA ElementSent ==
  ASSUME TypeOK, OrderInv, Sent \in Nat, Sent' = Sent + 1,
         \A i \in 1 .. Len(toReceiver) : toReceiver[i].type = "Data",
         toReceiver' = Append(toReceiver, Data(Sent')), Sent' \in Items,
         UNCHANGED <<delivered, offered, buffer>>
  PROVE  OrderInv'
  <1> DEFINE n == Len(toReceiver)
  <1>1. /\ n \in Nat /\ Len(toReceiver') = n + 1
        /\ \A i \in 1 .. n : toReceiver'[i] = toReceiver[i]
        /\ toReceiver'[n + 1] = Data(Sent')
    BY Messages DEF TypeOK
  <1>2. toReceiver'[n + 1].type = "Data" /\ toReceiver'[n + 1].item = Sent + 1
    BY <1>1, Messages
  <1>3. \A j \in 1 .. n + 1 : j \in 1 .. n \/ j = n + 1
    BY <1>1
  <1> HIDE DEF n
  <1>4. DeliveredInv'
    BY DEF OrderInv, DeliveredInv
  <1>5. AfterDelivered'
    <2> SUFFICES ASSUME NEW i \in 1 .. Len(delivered)
                 PROVE  /\ delivered[i] =< Sent'
                        /\ offered # NoItem => delivered[i] < offered
                        /\ \A j \in 1 .. Len(buffer) : delivered[i] < buffer[j]
                        /\ \A j \in 1 .. n + 1 :
                             toReceiver'[j].type = "Data" => delivered[i] < toReceiver'[j].item
      BY <1>1 DEF AfterDelivered
    <2>1. delivered[i] =< Sent'
      BY ElementTypes DEF OrderInv, AfterDelivered
    <2>2. /\ offered # NoItem => delivered[i] < offered
          /\ \A j \in 1 .. Len(buffer) : delivered[i] < buffer[j]
      BY DEF OrderInv, AfterDelivered
    <2>3. ASSUME NEW j \in 1 .. n, toReceiver'[j].type = "Data"
          PROVE  delivered[i] < toReceiver'[j].item
      BY <2>3, <1>1 DEF OrderInv, AfterDelivered, n
    <2>4. delivered[i] < toReceiver'[n + 1].item
      <3>1. delivered[i] \in Nat /\ delivered[i] =< Sent
        BY ElementTypes DEF OrderInv, AfterDelivered
      <3>2. delivered[i] < Sent + 1
        BY <3>1
      <3>3. QED
        BY <3>2, <1>2
    <2>5. QED
      BY <2>1, <2>2, <2>3, <2>4, <1>3
  <1>6. BufferInv'
    <2>1. offered =< Sent'
      BY ElementTypes DEF OrderInv, BufferInv
    <2>2. \A j \in 1 .. Len(buffer) : offered < buffer[j] /\ buffer[j] =< Sent'
      BY ElementTypes DEF OrderInv, BufferInv, Items
    <2>3. QED
      BY <2>1, <2>2 DEF OrderInv, BufferInv
  <1>7. ChannelOrderInv'
    <2> SUFFICES ASSUME NEW j \in 1 .. n + 1, toReceiver'[j].type = "Data"
                 PROVE  /\ offered < toReceiver'[j].item /\ toReceiver'[j].item =< Sent'
                        /\ \A i \in 1 .. Len(buffer) : buffer[i] < toReceiver'[j].item
                        /\ \A i \in 1 .. n + 1 :
                             i < j => toReceiver'[i].item < toReceiver'[j].item
      BY <1>1 DEF ChannelOrderInv
    <2>1. CASE j \in 1 .. n
      <3>1. /\ offered < toReceiver'[j].item /\ toReceiver'[j].item =< Sent
            /\ \A i \in 1 .. Len(buffer) : buffer[i] < toReceiver'[j].item
            /\ \A i \in 1 .. n : i < j => toReceiver'[i].item < toReceiver'[j].item
        BY <2>1, <1>1 DEF OrderInv, ChannelOrderInv, n
      <3>2. toReceiver'[j].item \in Nat
        <4>1. toReceiver[j].item \in Items
          BY <2>1, <1>1, ElementTypes DEF n
        <4>2. QED
          BY <4>1, <2>1, <1>1 DEF Items
      <3>3. toReceiver'[j].item =< Sent'
        <4> DEFINE x == toReceiver'[j].item
        <4>1. x \in Nat /\ x =< Sent
          BY <3>1, <3>2
        <4> HIDE DEF x
        <4>2. x =< Sent'
          BY <4>1
        <4>3. QED
          BY <4>2 DEF x
      <3>4. \A i \in 1 .. n + 1 : i < j => i \in 1 .. n
        BY <1>1, <2>1
      <3>5. QED
        BY <3>1, <3>3, <3>4
    <2>2. CASE j = n + 1
      <3>1. toReceiver'[j].item = Sent + 1 /\ toReceiver'[j].item = Sent'
        BY <1>2, <2>2
      <3>2. offered < Sent + 1
        BY ElementTypes DEF OrderInv, BufferInv
      <3>3. \A i \in 1 .. Len(buffer) : buffer[i] < Sent + 1
        BY ElementTypes DEF OrderInv, BufferInv, Items
      <3>4. ASSUME NEW i \in 1 .. n + 1, i < j PROVE toReceiver'[i].item < Sent + 1
        <4>1. i \in 1 .. n
          BY <3>4, <2>2, <1>1
        <4>2. toReceiver[i].type = "Data" /\ toReceiver[i].item \in Items
          BY <4>1, ElementTypes DEF n
        <4>3. toReceiver'[i].item =< Sent
          BY <4>1, <4>2, <1>1 DEF OrderInv, ChannelOrderInv, n
        <4> DEFINE x == toReceiver'[i].item
        <4>4. x \in Nat /\ x =< Sent
          BY <4>1, <4>2, <4>3, <1>1 DEF Items
        <4> HIDE DEF x
        <4>5. x < Sent + 1
          BY <4>4
        <4>6. QED
          BY <4>5 DEF x
      <3>5. Sent + 1 =< Sent'
        OBVIOUS
      <3>6. QED
        BY <3>1, <3>2, <3>3, <3>4, <3>5
    <2>3. QED
      BY <2>1, <2>2, <1>3
  <1>8. QED
    BY <1>4, <1>5, <1>6, <1>7 DEF OrderInv

\* The sender sends the message that ends the transfer.
LEMMA EndSent ==
  ASSUME TypeOK, OrderInv, Sent' = Sent, NEW m, m.type # "Data",
         toReceiver' = Append(toReceiver, m),
         \A i \in 1 .. Len(toReceiver) : toReceiver[i].type = "Data",
         UNCHANGED <<delivered, offered, buffer>>
  PROVE  OrderInv'
  <1> DEFINE n == Len(toReceiver)
  <1>1. /\ n \in Nat /\ Len(toReceiver') = n + 1
        /\ \A i \in 1 .. n : toReceiver'[i] = toReceiver[i]
        /\ toReceiver'[n + 1] = m
    BY DEF TypeOK
  <1>2. \A j \in 1 .. n + 1 : toReceiver'[j].type = "Data" => j \in 1 .. n
    BY <1>1
  <1>3. \A j \in 1 .. n + 1 : \A i \in 1 .. n + 1 : j \in 1 .. n /\ i < j => i \in 1 .. n
    BY <1>1
  <1>4. DeliveredInv' /\ BufferInv'
    BY DEF OrderInv, DeliveredInv, BufferInv
  <1>5. AfterDelivered'
    BY <1>1, <1>2 DEF OrderInv, AfterDelivered
  <1>6. ChannelOrderInv'
    BY <1>1, <1>2, <1>3 DEF OrderInv, ChannelOrderInv
  <1>7. QED
    BY <1>4, <1>5, <1>6 DEF OrderInv

\* The first message in the channel is lost, or is not data.
LEMMA MessageGone ==
  ASSUME TypeOK, OrderInv, Sent' = Sent, toReceiver # <<>>,
         toReceiver' = Tail(toReceiver), UNCHANGED <<delivered, offered, buffer>>
  PROVE  OrderInv'
  <1> DEFINE n == Len(toReceiver)
  <1>1. /\ n \in Nat /\ n > 0 /\ Len(toReceiver') = n - 1
        /\ \A i \in 1 .. n - 1 : toReceiver'[i] = toReceiver[i + 1]
    BY NonEmptySeq DEF TypeOK
  <1>2. \A i \in 1 .. n - 1 : i + 1 \in 1 .. n
    BY <1>1
  <1>3. \A i, j \in 1 .. n - 1 : i < j => i + 1 < j + 1
    BY <1>1
  <1>4. DeliveredInv' /\ BufferInv'
    BY DEF OrderInv, DeliveredInv, BufferInv
  <1>5. AfterDelivered'
    BY <1>1, <1>2 DEF OrderInv, AfterDelivered
  <1>6. ChannelOrderInv'
    BY <1>1, <1>2, <1>3 DEF OrderInv, ChannelOrderInv
  <1>7. QED
    BY <1>4, <1>5, <1>6 DEF OrderInv

\* The first element in the channel joins the receiver's buffer.
LEMMA ElementBuffered ==
  ASSUME TypeOK, OrderInv, Sent' = Sent, toReceiver # <<>>, Head(toReceiver).type = "Data",
         toReceiver' = Tail(toReceiver), buffer' = Append(buffer, Head(toReceiver).item),
         UNCHANGED <<delivered, offered>>
  PROVE  OrderInv'
  <1> DEFINE n == Len(toReceiver)
             b == Len(buffer)
             x == toReceiver[1].item
  <1>1. /\ n \in Nat /\ n > 0 /\ Len(toReceiver') = n - 1 /\ Head(toReceiver) = toReceiver[1]
        /\ \A i \in 1 .. n - 1 : toReceiver'[i] = toReceiver[i + 1]
    BY NonEmptySeq DEF TypeOK
  <1>2. \A i \in 1 .. n - 1 : i + 1 \in 1 .. n /\ 1 < i + 1
    BY <1>1
  <1>3. \A i, j \in 1 .. n - 1 : i < j => i + 1 < j + 1
    BY <1>1
  <1>4. x \in Items /\ toReceiver[1].type = "Data"
    BY <1>1, ElementTypes
  <1>5. /\ b \in Nat /\ Len(buffer') = b + 1
        /\ \A i \in 1 .. b : buffer'[i] = buffer[i]
        /\ buffer'[b + 1] = x
    BY <1>1, <1>4 DEF TypeOK
  <1>6. \A j \in 1 .. b + 1 : j \in 1 .. b \/ j = b + 1
    BY <1>5
  <1>7. /\ offered < x /\ x =< Sent
        /\ \A i \in 1 .. b : buffer[i] < x
        /\ \A i \in 1 .. Len(delivered) : delivered[i] < x
    BY <1>1, <1>4 DEF OrderInv, ChannelOrderInv, AfterDelivered
  <1>8. \A j \in 1 .. n - 1 : toReceiver'[j].type = "Data" => x < toReceiver'[j].item
    BY <1>1, <1>2, <1>4 DEF OrderInv, ChannelOrderInv
  <1>9. DeliveredInv'
    BY DEF OrderInv, DeliveredInv
  <1> HIDE DEF x
  <1>10. AfterDelivered'
    BY <1>1, <1>2, <1>5, <1>6, <1>7 DEF OrderInv, AfterDelivered
  <1>11. BufferInv'
    <2>1. \A i, j \in 1 .. b + 1 : i < j => i \in 1 .. b
      BY <1>5
    <2>2. QED
      BY <1>5, <1>6, <1>7, <2>1 DEF OrderInv, BufferInv
  <1>12. ChannelOrderInv'
    BY <1>1, <1>2, <1>3, <1>5, <1>6, <1>8 DEF OrderInv, ChannelOrderInv
  <1>13. QED
    BY <1>9, <1>10, <1>11, <1>12 DEF OrderInv

\* The first element in the channel is offered to the stream at once.
LEMMA ElementOfferedAtOnce ==
  ASSUME TypeOK, OrderInv, Sent' = Sent, toReceiver # <<>>, Head(toReceiver).type = "Data",
         toReceiver' = Tail(toReceiver), buffer' = <<>>, offered' = Head(toReceiver).item,
         UNCHANGED delivered
  PROVE  OrderInv'
  <1> DEFINE n == Len(toReceiver)
             x == toReceiver[1].item
  <1>1. /\ n \in Nat /\ n > 0 /\ Len(toReceiver') = n - 1 /\ Head(toReceiver) = toReceiver[1]
        /\ \A i \in 1 .. n - 1 : toReceiver'[i] = toReceiver[i + 1]
    BY NonEmptySeq DEF TypeOK
  <1>2. \A i \in 1 .. n - 1 : i + 1 \in 1 .. n /\ 1 < i + 1
    BY <1>1
  <1>3. \A i, j \in 1 .. n - 1 : i < j => i + 1 < j + 1
    BY <1>1
  <1>4. toReceiver[1].type = "Data" /\ offered' = x /\ Len(buffer') = 0
    BY <1>1, EmptySeq
  <1>5. /\ x =< Sent
        /\ \A i \in 1 .. Len(delivered) : delivered[i] < x
    BY <1>1, <1>4 DEF OrderInv, ChannelOrderInv, AfterDelivered
  <1>6. \A j \in 1 .. n - 1 : toReceiver'[j].type = "Data" => x < toReceiver'[j].item
    BY <1>1, <1>2, <1>4 DEF OrderInv, ChannelOrderInv
  <1>7. DeliveredInv'
    BY DEF OrderInv, DeliveredInv
  <1> HIDE DEF x
  <1>8. AfterDelivered'
    BY <1>1, <1>2, <1>4, <1>5 DEF OrderInv, AfterDelivered
  <1>9. BufferInv'
    BY <1>4, <1>5 DEF BufferInv
  <1>10. ChannelOrderInv'
    BY <1>1, <1>2, <1>3, <1>4, <1>6 DEF OrderInv, ChannelOrderInv
  <1>11. QED
    BY <1>7, <1>8, <1>9, <1>10 DEF OrderInv

\* The first element of the buffer is offered to the stream.
LEMMA ElementOffered ==
  ASSUME TypeOK, OrderInv, Sent' = Sent, buffer # <<>>, offered = NoItem,
         buffer' = Tail(buffer), offered' = Head(buffer),
         UNCHANGED <<delivered, toReceiver>>
  PROVE  OrderInv'
  <1> DEFINE b == Len(buffer)
  <1>1. /\ b \in Nat /\ b > 0 /\ Len(buffer') = b - 1 /\ offered' = buffer[1]
        /\ \A i \in 1 .. b - 1 : buffer'[i] = buffer[i + 1]
    BY NonEmptySeq DEF TypeOK
  <1>2. \A i \in 1 .. b - 1 : i + 1 \in 1 .. b /\ 1 < i + 1
    BY <1>1
  <1>3. \A i, j \in 1 .. b - 1 : i < j => i + 1 < j + 1
    BY <1>1
  <1>4. DeliveredInv'
    BY DEF OrderInv, DeliveredInv
  <1>5. AfterDelivered'
    BY <1>1, <1>2 DEF OrderInv, AfterDelivered
  <1>6. BufferInv'
    BY <1>1, <1>2, <1>3 DEF OrderInv, BufferInv
  <1>7. ChannelOrderInv'
    BY <1>1, <1>2 DEF OrderInv, ChannelOrderInv
  <1>8. QED
    BY <1>4, <1>5, <1>6, <1>7 DEF OrderInv

\* The element on offer is refused or discarded by the stream.
LEMMA OfferGone ==
  ASSUME TypeOK, OrderInv, Sent' = Sent, Sent \in Nat, offered' = NoItem,
         UNCHANGED <<delivered, buffer, toReceiver>>
  PROVE  OrderInv'
  <1>1. \A j \in 1 .. Len(buffer) : NoItem < buffer[j]
    BY ElementTypes DEF Items, NoItem
  <1>2. \A j \in 1 .. Len(toReceiver) :
          toReceiver[j].type = "Data" => NoItem < toReceiver[j].item
    BY ElementTypes DEF Items, NoItem
  <1>3. NoItem =< Sent
    BY DEF NoItem
  <1>4. DeliveredInv' /\ AfterDelivered'
    BY DEF OrderInv, DeliveredInv, AfterDelivered
  <1>5. BufferInv'
    BY <1>1, <1>3 DEF OrderInv, BufferInv
  <1>6. ChannelOrderInv'
    BY <1>2 DEF OrderInv, ChannelOrderInv
  <1>7. QED
    BY <1>4, <1>5, <1>6 DEF OrderInv

\* The stream accepts the element on offer.
LEMMA ElementDelivered ==
  ASSUME TypeOK, OrderInv, Sent' = Sent, Sent \in Nat, offered # NoItem, offered' = NoItem,
         delivered' = Append(delivered, offered), UNCHANGED <<buffer, toReceiver>>
  PROVE  OrderInv'
  <1> DEFINE d == Len(delivered)
  <1>1. /\ d \in Nat /\ Len(delivered') = d + 1 /\ offered \in Items
        /\ \A i \in 1 .. d : delivered'[i] = delivered[i] /\ delivered[i] \in Nat
        /\ delivered'[d + 1] = offered
    BY ElementTypes DEF TypeOK
  <1>2. \A j \in 1 .. d + 1 : j \in 1 .. d \/ j = d + 1
    BY <1>1
  <1>3. offered \in Nat /\ offered =< Sent
    BY <1>1 DEF Items, OrderInv, BufferInv
  <1>4. /\ \A j \in 1 .. Len(buffer) : offered < buffer[j] /\ NoItem < buffer[j]
        /\ \A j \in 1 .. Len(toReceiver) : toReceiver[j].type = "Data" =>
             offered < toReceiver[j].item /\ NoItem < toReceiver[j].item
    <2>1. \A j \in 1 .. Len(buffer) : NoItem < buffer[j]
      BY ElementTypes DEF Items, NoItem
    <2>2. \A j \in 1 .. Len(toReceiver) :
            toReceiver[j].type = "Data" => NoItem < toReceiver[j].item
      BY ElementTypes DEF Items, NoItem
    <2>3. QED
      BY <2>1, <2>2 DEF OrderInv, BufferInv, ChannelOrderInv
  <1>5. \A i \in 1 .. d : delivered[i] < offered /\ delivered[i] >= i
    BY DEF OrderInv, AfterDelivered, DeliveredInv
  <1>6. \A i, j \in 1 .. d : i =< j => delivered[j] - delivered[i] >= j - i
    BY DEF OrderInv, DeliveredInv
  <1> HIDE DEF d
  <1>7. offered >= d + 1
    <2>1. CASE d = 0
      BY <2>1, <1>1 DEF Items
    <2>2. CASE d # 0
      <3>1. d \in 1 .. d
        BY <2>2, <1>1
      <3>2. QED
        BY <3>1, <1>1, <1>3, <1>5
    <2>3. QED
      BY <2>1, <2>2
  <1>8. ASSUME NEW i \in 1 .. d PROVE offered - delivered[i] >= d + 1 - i
    <2>1. d \in 1 .. d /\ i =< d
      BY <1>1
    <2>2. delivered[d] - delivered[i] >= d - i /\ delivered[d] < offered
      BY <2>1, <1>5, <1>6
    <2>3. delivered[d] \in Nat /\ delivered[i] \in Nat
      BY <2>1, <1>1
    <2>4. QED
      BY <2>2, <2>3, <1>1, <1>3
  <1>9. DeliveredInv'
    <2>1. \A i \in 1 .. d + 1 : delivered'[i] >= i
      BY <1>1, <1>2, <1>5, <1>7
    <2>2. ASSUME NEW i \in 1 .. d + 1, NEW j \in 1 .. d + 1, i =< j
          PROVE  delivered'[j] - delivered'[i] >= j - i
      <3>1. CASE j \in 1 .. d
        <4>1. i \in 1 .. d
          BY <3>1, <2>2, <1>1
        <4>2. QED
          BY <4>1, <3>1, <2>2, <1>1, <1>6
      <3>2. CASE j = d + 1 /\ i \in 1 .. d
        BY <3>2, <1>1, <1>8
      <3>3. CASE j = d + 1 /\ i = d + 1
        BY <3>3, <1>1, <1>3
      <3>4. QED
        BY <3>1, <3>2, <3>3, <1>2
    <2>3. QED
      BY <2>1, <2>2, <1>1 DEF DeliveredInv
  <1>10. AfterDelivered'
    <2>1. \A i \in 1 .. d :
            /\ delivered[i] =< Sent
            /\ \A j \in 1 .. Len(buffer) : delivered[i] < buffer[j]
            /\ \A j \in 1 .. Len(toReceiver) :
                 toReceiver[j].type = "Data" => delivered[i] < toReceiver[j].item
      BY DEF OrderInv, AfterDelivered, d
    <2>2. QED
      BY <2>1, <1>1, <1>2, <1>3, <1>4 DEF AfterDelivered
  <1>11. BufferInv'
    <2>1. NoItem =< Sent
      BY DEF NoItem
    <2>2. QED
      BY <2>1, <1>4 DEF OrderInv, BufferInv
  <1>12. ChannelOrderInv'
    BY <1>4 DEF OrderInv, ChannelOrderInv
  <1>13. QED
    BY <1>9, <1>10, <1>11, <1>12 DEF OrderInv

-----------------------------------------------------------------------------
(* The steps                                                                *)

LEMMA InitInv == Init => Inv
  <1> SUFFICES ASSUME Init PROVE Inv
    OBVIOUS
  <1> USE DEF Init
  <1>1. TypeOK
    <2>1. <<>> \in Seq(Message) /\ <<>> \in Seq(Items)
      OBVIOUS
    <2>2. pulled \in 0 .. NItems /\ pending \in 0 .. BufferSize /\ acks \in Nat
          /\ offerDone \in 0 .. 1 /\ pulls \in 0 .. 1
      OBVIOUS
    <2>3. complete \in BOOLEAN /\ offering \in BOOLEAN
          /\ rcvComplete \in BOOLEAN
      OBVIOUS
    <2>4. QED
      BY <2>1, <2>2, <2>3 DEF TypeOK, NoItem
  <1>2. PollDiscipline /\ AnswersInv
    BY DEF PollDiscipline, AnswersInv
  <1>3. ChannelInv /\ ReceiverInv /\ CompleteIsWhole
    BY DEF ChannelInv, ReceiverInv, CompleteIsWhole
  <1>4. WindowBound
    BY DEF WindowBound, DataInChannel, EndInChannel, InOffer, NoItem
  <1>5. Sent = 0
    BY DEF Sent
  <1>6. CreditInv /\ OrderInv
    BY <1>5 DEF CreditInv, OrderInv, DeliveredInv, AfterDelivered, BufferInv,
                ChannelOrderInv, NoItem
  <1>7. QED
    BY <1>1, <1>2, <1>3, <1>4, <1>6 DEF Inv

LEMMA PullAnsweredInv == Inv /\ PullAnswered => Inv'
  <1> SUFFICES ASSUME Inv, PullAnswered PROVE Inv'
    OBVIOUS
  <1> USE DEF Inv, PullAnswered, receiverVars, sinkVars
  <1>1. answers = <<>> /\ pulls = 1 /\ pulls' = 0
    BY DEF AnswersInv, TypeOK
  <1>2. /\ pulled' \in 0 .. NItems
        /\ \E m \in Message : 
             /\ answers' = Append(answers, m)
             /\ \/ m = Data(pulled') /\ pulled' = pulled + 1 /\ pulled' \in Items
                \/ m = Complete /\ pulled' = pulled /\ pulled = NItems
                \/ m = Error /\ pulled' = pulled
    BY Messages DEF TypeOK, Items
  <1>3. PICK m \in Message : 
             /\ answers' = <<m>>
             /\ \/ m = Data(pulled') /\ pulled' = pulled + 1 /\ pulled' \in Items
                \/ m = Complete /\ pulled' = pulled /\ pulled = NItems
                \/ m = Error /\ pulled' = pulled
    BY <1>1, <1>2
  <1>4. /\ answers' # <<>> /\ Len(answers') = 1 /\ Head(answers') = m
        /\ answers' \in Seq(Message)
    BY <1>3
  <1>5. Sent' = Sent
    BY <1>1, <1>3, <1>4, Messages DEF Sent, TypeOK
  <1>6. TypeOK'
    BY <1>1, <1>2, <1>4 DEF TypeOK
  <1>7. PollDiscipline' /\ AnswersInv'
    BY <1>1, <1>3, <1>4 DEF PollDiscipline, AnswersInv, TypeOK
  <1>8. ChannelInv' /\ WindowBound' /\ ReceiverInv' /\ CompleteIsWhole'
    BY DEF ChannelInv, WindowBound, DataInChannel, EndInChannel, InOffer, ReceiverInv,
           CompleteIsWhole
  <1>9. CreditInv' /\ OrderInv'
    BY <1>5, OrderUnchanged DEF CreditInv
  <1>10. QED
    BY <1>6, <1>7, <1>8, <1>9


LEMMA SendDataInv == Inv /\ SendData => Inv'
  <1> SUFFICES ASSUME Inv, SendData PROVE Inv'
    OBVIOUS
  <1> USE DEF SendData, Answered, DoPoll, NoPoll, sourceVars, receiverVars, sinkVars
  <1>1. /\ Tail(answers) = <<>> /\ pulls = 0 /\ ~complete
        /\ answers' = <<>> /\ pulls' = (IF pending + 1 < BufferSize THEN 1 ELSE 0)
    BY OneAnswer
  <1>2. Head(answers) = Data(pulled) /\ pulled \in Items
    BY Messages DEF Inv, AnswersInv
  <1>3. toReceiver' = Append(toReceiver, Data(pulled))
    BY <1>2
  <1>4. Sent = pulled - 1
    BY DEF Sent
  <1>5. Sent' = pulled
    BY <1>1, <1>2 DEF Sent, Items
  <1>6. Sent' = Sent + 1
    BY <1>2, <1>4, <1>5 DEF Items
  <1>7. pending' = pending + 1 /\ pending < BufferSize /\ pending \in Nat
    BY <1>1 DEF Inv, PollDiscipline, TypeOK
  <1>8. /\ toReceiver' \in Seq(Message) /\ Len(toReceiver') = Len(toReceiver) + 1
        /\ \A i \in 1 .. Len(toReceiver') : toReceiver'[i].type = "Data"
    BY <1>2, <1>3, RunningChannel, Messages DEF Inv, TypeOK
  <1>9. TypeOK'
    <2>1. pending' \in 0 .. BufferSize
      BY <1>7
    <2>2. pulls' \in 0 .. 1
      BY <1>1
    <2>3. QED
      BY <1>1, <1>8, <2>1, <2>2 DEF Inv, TypeOK
  <1>10. PollDiscipline'
    <2>1. Len(answers') = 0 /\ (pulls' > 0 <=> pending + 1 < BufferSize)
      BY <1>1
    <2>2. pulls' = 0 \/ pulls' = 1
      BY <1>1
    <2>3. Len(answers') + pulls' =< 1
      BY <2>1, <2>2
    <2>4. QED
      BY <1>1, <1>7, <2>1, <2>3 DEF PollDiscipline
  <1>11. AnswersInv'
    BY <1>1, <1>10 DEF AnswersInv, PollDiscipline
  <1>12. ChannelInv' /\ ReceiverInv' /\ CompleteIsWhole'
    BY <1>1, <1>8, RunningChannel DEF Inv, ChannelInv, ReceiverInv, CompleteIsWhole
  <1>13. WindowBound'
    <2>1. DataInChannel' = DataInChannel + 1
      <3>1. ~EndInChannel'
        BY <1>8, NonEmptySeq DEF EndInChannel
      <3>2. DataInChannel' = Len(toReceiver')
        BY <3>1 DEF DataInChannel
      <3>3. QED
        BY <3>2, <1>8, RunningChannel
    <2>2. InOffer' = InOffer /\ InOffer \in Nat
      BY DEF InOffer
    <2>3. DataInChannel \in Nat /\ Len(buffer) \in Nat /\ acks \in Nat
      BY ChannelCount, ElementTypes DEF Inv
    <2>4. DataInChannel + Len(buffer) + InOffer + acks =< pending
      BY DEF Inv, WindowBound
    <2>5. (DataInChannel + 1) + Len(buffer) + InOffer + acks =< pending + 1
      BY <2>2, <2>3, <2>4, <1>7
    <2>6. QED
      BY <2>1, <2>2, <2>5, <1>7 DEF WindowBound
  <1>14. CreditInv'
    <2>1. /\ Sent \in Nat /\ acks \in Nat /\ Len(delivered) \in Nat
      BY SentIsNat, ElementTypes DEF Inv
    <2>2. (Sent + 1) - (pending + 1) + acks = Sent - pending + acks
      BY <2>1, <1>7
    <2>3. QED
      BY <2>2, <1>6, <1>7 DEF Inv, CreditInv
  <1>15. OrderInv'
    <2>1. Sent \in Nat /\ TypeOK /\ OrderInv
      BY SentIsNat DEF Inv
    <2>2. \A i \in 1 .. Len(toReceiver) : toReceiver[i].type = "Data"
      BY RunningChannel
    <2>3. QED
      BY <1>2, <1>3, <1>5, <1>6, <2>1, <2>2, ElementSent
  <1>16. QED
    BY <1>9, <1>10, <1>11, <1>12, <1>13, <1>14, <1>15 DEF Inv

\* The steps of the sender that end the transfer, or may end it, leave the
\* elements where they are.
LEMMA EndKeepsOrder ==
  ASSUME Inv, sender = "running", NEW m \in {Complete, Error},
         toReceiver' = Append(toReceiver, m) \/ UNCHANGED toReceiver,
         Sent' = Sent, UNCHANGED <<delivered, offered, buffer>>
  PROVE  OrderInv'
  <1>1. CASE UNCHANGED toReceiver
    BY <1>1, OrderUnchanged DEF Inv
  <1>2. CASE toReceiver' = Append(toReceiver, m)
    <2>1. m.type # "Data"
      BY Messages
    <2>2. \A i \in 1 .. Len(toReceiver) : toReceiver[i].type = "Data"
      BY RunningChannel
    <2>3. QED
      BY <1>2, <2>1, <2>2, EndSent DEF Inv
  <1>3. QED
    BY <1>1, <1>2

LEMMA SenderDoneInv == Inv /\ SenderDone => Inv'
  <1> SUFFICES ASSUME Inv, SenderDone PROVE Inv'
    OBVIOUS
  <1> USE DEF SenderDone, DoPoll, NoPoll, CheckComplete, sourceVars, receiverVars, sinkVars
  <1>1. /\ DataInChannel \in Nat /\ Len(buffer) \in Nat /\ acks \in Nat /\ pending \in Nat
        /\ Len(delivered) \in Nat /\ Sent \in Nat /\ InOffer \in Nat
    BY ChannelCount, ElementTypes, SentIsNat DEF Inv, InOffer
  <1>2. DataInChannel + Len(buffer) + InOffer + acks =< pending
    BY DEF Inv, WindowBound
  <1>3. acks > 0 /\ acks' = acks - 1 /\ pending' = pending - 1
    OBVIOUS
  <1>4. pending > 0
    BY <1>1, <1>2, <1>3
  <1>5. acks' \in Nat /\ pending' \in 0 .. BufferSize /\ pending' < BufferSize
    BY <1>1, <1>3, <1>4 DEF Inv, TypeOK
  <1>6. pending = BufferSize => pulls = 0 /\ answers = <<>>
    BY ElementTypes DEF Inv, TypeOK, PollDiscipline
  <1>7. answers' = answers /\ pulls' = (IF pending = BufferSize THEN 1 ELSE pulls)
    BY <1>6
  <1>8. Sent' = Sent
    BY <1>7 DEF Sent
  <1>9. /\ toReceiver' \in Seq(Message) /\ DataInChannel' = DataInChannel /\ ChannelInv'
        /\ \/ UNCHANGED <<toReceiver, sender>>
           \/ toReceiver' = Append(toReceiver, Complete) /\ sender' = "stopped"
    <2>1. CASE complete /\ pending - 1 = 0
      <3>1. toReceiver' = Append(toReceiver, Complete) /\ sender' = "stopped" /\ complete'
            /\ pending' = 0
        BY <2>1
      <3>2. ChannelInv'
        BY <3>1, ChannelEnd, RunningChannel, Messages DEF ChannelInv
      <3>3. QED
        BY <3>1, <3>2, ChannelEnd
    <2>2. CASE ~(complete /\ pending - 1 = 0)
      <3>1. UNCHANGED <<toReceiver, sender, complete, rcvComplete>>
        BY <2>2
      <3>2. ChannelInv'
        BY <3>1, RunningChannel DEF ChannelInv
      <3>3. QED
        BY <3>1, <3>2 DEF Inv, TypeOK, DataInChannel, EndInChannel
    <2>3. QED
      BY <2>1, <2>2
  <1>10. TypeOK'
    <2>1. pulls' \in 0 .. 1
      BY <1>7 DEF Inv, TypeOK
    <2>2. sender' \in {"running", "stopped"}
      BY <1>9 DEF Inv, TypeOK
    <2>3. QED
      BY <1>5, <1>7, <1>9, <2>1, <2>2 DEF Inv, TypeOK
  <1>11. PollDiscipline'
    <2>1. CASE pending = BufferSize
      <3>1. Len(answers') = 0 /\ pulls' = 1 /\ answers' = <<>>
        BY <2>1, <1>6, <1>7
      <3>2. Len(answers') + pulls' =< 1
        BY <3>1
      <3>3. ~complete
        BY <2>1, <1>5 DEF Inv, AnswersInv
      <3>4. QED
        BY <3>1, <3>2, <3>3, <1>5 DEF PollDiscipline
    <2>2. CASE pending # BufferSize
      <3>1. pulls' = pulls /\ answers' = answers /\ pending < BufferSize
        BY <2>2, <1>7 DEF Inv, TypeOK
      <3>2. QED
        BY <3>1, <1>5 DEF Inv, PollDiscipline
    <2>3. QED
      BY <2>1, <2>2
  <1>12. AnswersInv'
    <2>1. Len(answers') + pulls' =< 1
      BY <1>11 DEF PollDiscipline
    <2>2. complete => pending # BufferSize /\ pulls' = pulls /\ pending' < BufferSize
      BY <1>5, <1>7 DEF Inv, AnswersInv
    <2>3. QED
      BY <1>7, <2>1, <2>2 DEF Inv, AnswersInv
  <1>13. WindowBound'
    <2>1. InOffer' = InOffer
      BY DEF InOffer
    <2>2. DataInChannel + Len(buffer) + InOffer + (acks - 1) =< pending - 1
      BY <1>1, <1>2
    <2>3. QED
      BY <1>3, <1>9, <2>1, <2>2 DEF WindowBound
  <1>14. CreditInv'
    <2>1. Sent - (pending - 1) + (acks - 1) = Sent - pending + acks
      BY <1>1
    <2>2. QED
      BY <2>1, <1>3, <1>8 DEF Inv, CreditInv
  <1>15. ReceiverInv' /\ CompleteIsWhole'
    BY DEF Inv, ReceiverInv, CompleteIsWhole
  <1>16. OrderInv'
    BY <1>8, <1>9, EndKeepsOrder
  <1>17. QED
    BY <1>9, <1>10, <1>11, <1>12, <1>13, <1>14, <1>15, <1>16 DEF Inv

LEMMA SourceExhaustedInv == Inv /\ SourceExhausted => Inv'
  <1> SUFFICES ASSUME Inv, SourceExhausted PROVE Inv'
    OBVIOUS
  <1> USE DEF SourceExhausted, Answered, NoPoll, CheckComplete, sourceVars, receiverVars,
              sinkVars
  <1>1. /\ Tail(answers) = <<>> /\ pulls = 0 /\ ~complete
        /\ answers' = <<>> /\ pulls' = 0 /\ complete' /\ Len(<<>>) = 0
    BY OneAnswer
  <1>2. pulled = NItems /\ Head(answers).type # "Data"
    BY Messages DEF Inv, AnswersInv
  <1>3. Sent = pulled - 0 /\ Sent' = pulled - 0
    BY <1>1, <1>2 DEF Sent
  <1>4. pending < BufferSize
    BY <1>1 DEF Inv, PollDiscipline
  <1>5. /\ toReceiver' \in Seq(Message) /\ DataInChannel' = DataInChannel /\ ChannelInv'
        /\ \/ UNCHANGED <<toReceiver, sender>>
           \/ toReceiver' = Append(toReceiver, Complete) /\ sender' = "stopped"
    <2>1. CASE pending = 0
      <3>1. toReceiver' = Append(toReceiver, Complete) /\ sender' = "stopped"
            /\ pending' = 0
        BY <2>1
      <3>2. ChannelInv'
        BY <1>1, <3>1, ChannelEnd, RunningChannel, Messages DEF ChannelInv
      <3>3. QED
        BY <3>1, <3>2, ChannelEnd
    <2>2. CASE pending # 0
      <3>1. UNCHANGED <<toReceiver, sender, rcvComplete>>
        BY <2>2
      <3>2. ChannelInv'
        BY <3>1, RunningChannel DEF ChannelInv
      <3>3. QED
        BY <3>1, <3>2 DEF Inv, TypeOK, DataInChannel, EndInChannel
    <2>3. QED
      BY <2>1, <2>2
  <1>6. TypeOK'
    <2>1. sender' \in {"running", "stopped"}
      BY <1>5 DEF Inv, TypeOK
    <2>2. QED
      BY <1>1, <1>5, <2>1 DEF Inv, TypeOK
  <1>7. PollDiscipline'
    BY <1>1 DEF PollDiscipline
  <1>8. AnswersInv'
    <2>1. Len(answers') = 0 /\ pulls' = 0
      BY <1>1
    <2>2. 0 + 0 =< 1
      OBVIOUS
    <2>3. QED
      BY <1>1, <1>2, <1>4, <2>1, <2>2 DEF AnswersInv
  <1>9. WindowBound'
    BY <1>5 DEF Inv, WindowBound, InOffer
  <1>10. CreditInv' /\ ReceiverInv' /\ CompleteIsWhole'
    BY <1>3 DEF Inv, CreditInv, ReceiverInv, CompleteIsWhole
  <1>11. OrderInv'
    BY <1>3, <1>5, EndKeepsOrder
  <1>12. QED
    BY <1>5, <1>6, <1>7, <1>8, <1>9, <1>10, <1>11 DEF Inv

LEMMA SourceFailedInv == Inv /\ SourceFailed => Inv'
  <1> SUFFICES ASSUME Inv, SourceFailed PROVE Inv'
    OBVIOUS
  <1> USE DEF SourceFailed, Answered, NoPoll, sourceVars, receiverVars, sinkVars
  <1>1. /\ Tail(answers) = <<>> /\ pulls = 0 /\ ~complete
        /\ answers' = <<>> /\ pulls' = 0 /\ Len(<<>>) = 0
    BY OneAnswer
  <1>2. Head(answers).type # "Data"
    OBVIOUS
  <1>3. Sent = pulled - 0 /\ Sent' = pulled - 0
    BY <1>1, <1>2 DEF Sent
  <1>4. ChannelInv'
    BY <1>1, ChannelEnd, RunningChannel, Messages DEF ChannelInv
  <1>5. TypeOK'
    BY <1>1, ChannelEnd DEF Inv, TypeOK
  <1>6. PollDiscipline'
    BY <1>1 DEF PollDiscipline
  <1>7. AnswersInv'
    <2>1. Len(answers') + pulls' =< 1
      BY <1>1
    <2>2. QED
      BY <1>1, <2>1 DEF AnswersInv
  <1>8. WindowBound'
    BY ChannelEnd DEF Inv, WindowBound, InOffer
  <1>9. CreditInv' /\ ReceiverInv' /\ CompleteIsWhole'
    BY <1>3 DEF Inv, CreditInv, ReceiverInv, CompleteIsWhole
  <1>10. OrderInv'
    BY <1>3, EndKeepsOrder
  <1>11. QED
    BY <1>4, <1>5, <1>6, <1>7, <1>8, <1>9, <1>10 DEF Inv

\* A message leaves the channel: the facts about the sender and the channel
\* do not depend on what becomes of it.
LEMMA ChannelShrinks ==
  ASSUME Inv, toReceiver # <<>>, toReceiver' = Tail(toReceiver),
         UNCHANGED <<sourceVars, senderVars>>,
         rcvComplete' => rcvComplete \/ Head(toReceiver).type = "Complete"
  PROVE  ChannelInv' /\ PollDiscipline' /\ AnswersInv' /\ Sent' = Sent
  <1> USE DEF sourceVars, senderVars
  <1> DEFINE n == Len(toReceiver)
  <1>1. /\ n \in Nat /\ n > 0 /\ Len(toReceiver') = n - 1 /\ Head(toReceiver) = toReceiver[1]
        /\ \A i \in 1 .. n - 1 : toReceiver'[i] = toReceiver[i + 1]
    BY NonEmptySeq DEF Inv, TypeOK
  <1>2. 1 \in 1 .. n /\ \A i \in 1 .. n - 1 : i + 1 \in 1 .. n
    BY <1>1
  <1>3. Sent' = Sent /\ PollDiscipline' /\ AnswersInv'
    BY DEF Inv, Sent, PollDiscipline, AnswersInv
  <1>4. ASSUME NEW i \in 1 .. n - 1, toReceiver'[i].type # "Data"
        PROVE  i = n - 1 /\ sender = "stopped"
    <2>1. i + 1 \in 1 .. n /\ toReceiver[i + 1].type # "Data"
      BY <1>1, <1>2, <1>4
    <2>2. i + 1 = n /\ sender = "stopped"
      BY <2>1 DEF Inv, ChannelInv
    <2> HIDE DEF n
    <2>3. i = n - 1
      BY <1>1, <2>2
    <2>4. QED
      BY <2>2, <2>3
  <1>5. ASSUME NEW i \in 1 .. n - 1, toReceiver'[i].type = "Complete"
        PROVE  complete /\ pending = 0
    BY <1>1, <1>2, <1>5 DEF Inv, ChannelInv
  <1>6. rcvComplete' => complete /\ pending = 0 /\ sender = "stopped"
    BY <1>1, <1>2 DEF Inv, ChannelInv
  <1>7. ChannelInv'
    BY <1>1, <1>4, <1>5, <1>6 DEF ChannelInv
  <1>8. QED
    BY <1>3, <1>7

-----------------------------------------------------------------------------
(* The receiver and the stream                                              *)

LEMMA ReceiveDataInv == Inv /\ ReceiveData => Inv'
  <1> SUFFICES ASSUME Inv, ReceiveData PROVE Inv'
    OBVIOUS
  <1> USE DEF ReceiveData, Arrived, sourceVars, senderVars, sinkVars
  <1> DEFINE x == Head(toReceiver).item
  <1>1. x \in Items
    BY NonEmptySeq, Messages DEF Inv, TypeOK
  <1>2. /\ DataInChannel \in Nat /\ Len(buffer) \in Nat /\ acks \in Nat /\ pending \in Nat
        /\ InOffer \in Nat
    BY ChannelCount, ElementTypes DEF Inv, InOffer
  <1>3. DataInChannel + Len(buffer) + InOffer + acks =< pending
    BY DEF Inv, WindowBound
  <1>4. DataInChannel' = DataInChannel - 1 /\ toReceiver' \in Seq(Message)
    BY ChannelTail DEF Inv
  <1>5. ChannelInv' /\ PollDiscipline' /\ AnswersInv' /\ Sent' = Sent
    BY ChannelShrinks
  <1>6. CreditInv' /\ CompleteIsWhole'
    BY <1>5 DEF Inv, CreditInv, CompleteIsWhole
  <1>7. CASE offering
    <2>1. /\ buffer' = Append(buffer, x) /\ UNCHANGED <<offering, offered>>
      BY <1>7
    <2>2. buffer' \in Seq(Items) /\ Len(buffer') = Len(buffer) + 1
      BY <2>1, <1>1 DEF Inv, TypeOK
    <2>3. TypeOK'
      BY <2>1, <2>2, <1>4 DEF Inv, TypeOK
    <2>4. WindowBound'
      <3>1. InOffer' = InOffer
        BY <2>1 DEF InOffer
      <3>2. (DataInChannel - 1) + (Len(buffer) + 1) + InOffer + acks =< pending
        BY <1>2, <1>3
      <3>3. QED
        BY <3>1, <3>2, <2>2, <1>4 DEF WindowBound
    <2>5. ReceiverInv'
      BY <1>7, <2>1 DEF Inv, ReceiverInv
    <2>6. OrderInv'
      BY <2>1, <1>5, ElementBuffered DEF Inv
    <2>7. QED
      BY <2>3, <2>4, <2>5, <2>6, <1>5, <1>6 DEF Inv
  <1>8. CASE ~offering
    <2>1. buffer = <<>> /\ offered = NoItem /\ offerDone = 0
      BY <1>8 DEF Inv, ReceiverInv
    <2>2. /\ offering' = TRUE /\ buffer' = Tail(Append(buffer, x))
          /\ offered' = Head(Append(buffer, x))
      BY <1>8, <2>1 DEF DoOffer
    <2>3. Append(buffer, x) = <<x>>
      BY <2>1
    <2>4. buffer' = <<>> /\ offered' = x
      BY <2>2, <2>3
    <2>5. Len(buffer) = 0 /\ Len(buffer') = 0 /\ buffer' \in Seq(Items)
      BY <2>1, <2>4
    <2>6. TypeOK'
      BY <2>2, <2>4, <2>5, <1>1, <1>4 DEF Inv, TypeOK
    <2>7. WindowBound'
      <3>1. InOffer = 0 /\ InOffer' = 1
        BY <2>1, <2>4, <1>1 DEF InOffer, Items, NoItem
      <3>2. (DataInChannel - 1) + 0 + 1 + acks =< pending
        BY <3>1, <2>5, <1>2, <1>3
      <3>3. QED
        BY <3>1, <3>2, <2>5, <1>4 DEF WindowBound
    <2>8. ReceiverInv'
      BY <2>1, <2>2 DEF ReceiverInv
    <2>9. OrderInv'
      BY <2>4, <1>5, ElementOfferedAtOnce DEF Inv
    <2>10. QED
      BY <2>6, <2>7, <2>8, <2>9, <1>5, <1>6 DEF Inv
  <1>9. QED
    BY <1>7, <1>8

\* A stream that is completed once every element is acknowledged is whole:
\* it holds NItems increasing elements, so it holds all of them.
LEMMA AllDelivered ==
  ASSUME Inv, sink = "open", complete, pending = 0
  PROVE  delivered = [i \in Items |-> i]
  <1> DEFINE d == Len(delivered)
  <1>1. /\ d \in Nat /\ \A i \in 1 .. d : delivered[i] \in Nat
        /\ acks \in Nat /\ pulled \in Nat
    BY ElementTypes DEF Inv
  <1>2. pulled = NItems /\ answers = <<>>
    BY DEF Inv, AnswersInv
  <1>3. Sent = pulled - 0
    BY <1>2 DEF Sent
  <1>4. Sent = NItems
    BY <1>1, <1>2, <1>3
  <1>5. /\ \A i \in 1 .. d : delivered[i] >= i /\ delivered[i] =< NItems
        /\ \A i, j \in 1 .. d : i =< j => delivered[j] - delivered[i] >= j - i
    BY <1>4 DEF Inv, OrderInv, DeliveredInv, AfterDelivered
  <1>6. Sent - pending + acks =< d
    BY DEF Inv, CreditInv
  <1>7. delivered \in [1 .. d -> Items]
    BY DEF Inv, TypeOK
  <1> HIDE DEF d
  <1>8. NItems =< d
    BY <1>1, <1>4, <1>6
  <1>9. d =< NItems
    <2>1. CASE d = 0
      BY <2>1
    <2>2. CASE d # 0
      <3>1. d \in 1 .. d
        BY <2>2, <1>1
      <3>2. QED
        BY <3>1, <1>1, <1>5
    <2>3. QED
      BY <2>1, <2>2
  <1>10. d = NItems
    BY <1>1, <1>8, <1>9
  <1>11. ASSUME NEW i \in 1 .. d PROVE delivered[i] = i
    <2>1. d \in 1 .. d /\ i =< d
      BY <1>1
    <2>2. /\ delivered[d] \in Nat /\ delivered[d] =< NItems /\ delivered[i] \in Nat
          /\ delivered[d] - delivered[i] >= d - i /\ delivered[i] >= i
      BY <2>1, <1>1, <1>5
    <2>3. QED
      BY <2>2, <1>10
  <1>12. QED
    BY <1>7, <1>10, <1>11 DEF Items

LEMMA CloseSinkWhole ==
  ASSUME Inv, CloseSink("completed"), complete, pending = 0, UNCHANGED delivered
  PROVE  CompleteIsWhole'
  <1>1. CASE sink = "open"
    BY <1>1, AllDelivered DEF CompleteIsWhole
  <1>2. CASE sink # "open"
    BY <1>2 DEF Inv, CloseSink, CompleteIsWhole
  <1>3. QED
    BY <1>1, <1>2

LEMMA ReceiveOfferedInv == Inv /\ ReceiveOffered => Inv'
  <1> SUFFICES ASSUME Inv, ReceiveOffered PROVE Inv'
    OBVIOUS
  <1> USE DEF ReceiveOffered, sourceVars, senderVars
  <1>1. offered = NoItem
    BY ElementTypes DEF Inv, TypeOK, ReceiverInv
  <1>2. offerDone' = 0
    BY DEF Inv, TypeOK
  <1>3. /\ DataInChannel \in Nat /\ Len(buffer) \in Nat /\ acks \in Nat /\ pending \in Nat
        /\ InOffer = 0
    BY <1>1, ChannelCount, ElementTypes DEF Inv, InOffer
  <1>4. DataInChannel + Len(buffer) + 0 + acks =< pending
    BY <1>3 DEF Inv, WindowBound
  <1>5. Sent' = Sent /\ DataInChannel' = DataInChannel
    BY DEF Sent, DataInChannel, EndInChannel
  <1>6. PollDiscipline' /\ AnswersInv' /\ ChannelInv'
    BY DEF Inv, PollDiscipline, AnswersInv, ChannelInv
  <1>7. CASE buffer # <<>>
    <2>1. /\ offering' = TRUE /\ buffer' = Tail(buffer) /\ offered' = Head(buffer)
          /\ UNCHANGED <<receiver, sink>>
      BY <1>1, <1>7 DEF DoOffer
    <2>2. /\ buffer' \in Seq(Items) /\ Len(buffer') = Len(buffer) - 1 /\ offered' \in Items
          /\ Len(buffer) > 0
      BY <1>7, <2>1, NonEmptySeq DEF Inv, TypeOK
    <2>3. TypeOK'
      BY <2>1, <2>2, <1>2 DEF Inv, TypeOK
    <2>4. WindowBound'
      <3>1. InOffer' = 1
        BY <2>2 DEF InOffer, Items, NoItem
      <3>2. DataInChannel + (Len(buffer) - 1) + 1 + acks =< pending
        BY <1>3, <1>4
      <3>3. QED
        BY <3>1, <3>2, <2>2, <1>5 DEF WindowBound
    <2>5. CreditInv' /\ CompleteIsWhole'
      BY <2>1, <1>5 DEF Inv, CreditInv, CompleteIsWhole
    <2>6. ReceiverInv'
      BY <2>1, <1>2 DEF ReceiverInv
    <2>7. OrderInv'
      BY <2>1, <1>1, <1>5, <1>7, ElementOffered DEF Inv
    <2>8. QED
      BY <2>3, <2>4, <2>5, <2>6, <2>7, <1>6 DEF Inv
  <1>8. CASE buffer = <<>>
    <2>1. /\ offering' = FALSE /\ UNCHANGED <<buffer, offered>>
          /\ \/ rcvComplete /\ CloseSink("completed") /\ receiver' = "stopped"
             \/ UNCHANGED <<receiver, sink>>
      BY <1>8
    <2>2. TypeOK'
      <3>1. /\ sink' \in {"open", "completed", "failed", "closed"}
            /\ receiver' \in {"running", "stopped"}
        BY <2>1 DEF Inv, TypeOK, CloseSink
      <3>2. UNCHANGED <<toReceiver, acks, rcvComplete, delivered>>
        OBVIOUS
      <3>3. offerDone' \in 0 .. 1
        <4>1. 0 \in 0 .. 1
          OBVIOUS
        <4>2. QED
          BY <4>1, <1>2, Zenon
      <3>4. offering' \in BOOLEAN
        BY <2>1
      <3>5. QED
        BY <2>1, <3>1, <3>2, <3>3, <3>4 DEF Inv, TypeOK
    <2>3. WindowBound'
      BY <2>1, <1>5 DEF Inv, WindowBound, InOffer
    <2>4. CreditInv'
      BY <2>1, <1>5 DEF Inv, CreditInv, CloseSink
    <2>5. ReceiverInv'
      BY <1>1, <1>2, <1>8, <2>1 DEF ReceiverInv
    <2>6. OrderInv'
      BY <2>1, <1>5, OrderUnchanged DEF Inv
    <2>7. CompleteIsWhole'
      <3>1. rcvComplete => complete /\ pending = 0
        BY DEF Inv, ChannelInv
      <3>2. CASE rcvComplete /\ CloseSink("completed")
        BY <3>1, <3>2, CloseSinkWhole
      <3>3. CASE UNCHANGED sink
        BY <3>3 DEF Inv, CompleteIsWhole
      <3>4. QED
        BY <2>1, <3>2, <3>3
    <2>8. QED
      BY <2>2, <2>3, <2>4, <2>5, <2>6, <2>7, <1>6 DEF Inv
  <1>9. QED
    BY <1>7, <1>8

LEMMA ReceiveCompleteInv == Inv /\ ReceiveComplete => Inv'
  <1> SUFFICES ASSUME Inv, ReceiveComplete PROVE Inv'
    OBVIOUS
  <1> USE DEF ReceiveComplete, Arrived, sourceVars, senderVars
  <1>1. ChannelInv' /\ PollDiscipline' /\ AnswersInv' /\ Sent' = Sent
    BY ChannelShrinks
  <1>2. DataInChannel' = DataInChannel /\ toReceiver' \in Seq(Message)
    BY ChannelTail DEF Inv
  <1>3. \/ CloseSink("completed") /\ receiver' = "stopped"
        \/ UNCHANGED <<receiver, sink>>
    OBVIOUS
  <1>4. /\ sink' \in {"open", "completed", "failed", "closed"}
        /\ receiver' \in {"running", "stopped"} /\ rcvComplete' \in BOOLEAN
    BY <1>3 DEF Inv, TypeOK, CloseSink
  <1>5. TypeOK'
    BY <1>2, <1>4 DEF Inv, TypeOK
  <1>6. WindowBound'
    BY <1>2 DEF Inv, WindowBound, InOffer
  <1>7. CreditInv'
    BY <1>1, <1>3 DEF Inv, CreditInv, CloseSink
  <1>8. ReceiverInv'
    BY <1>3 DEF Inv, ReceiverInv
  <1>9. OrderInv'
    BY <1>1, MessageGone DEF Inv
  <1>10. CompleteIsWhole'
    <2>1. toReceiver[1].type = "Complete" /\ Len(toReceiver) \in Nat /\ Len(toReceiver) > 0
      BY NonEmptySeq DEF Inv, TypeOK
    <2>2. 1 \in 1 .. Len(toReceiver)
      BY <2>1
    <2>3. complete /\ pending = 0
      BY <2>1, <2>2 DEF Inv, ChannelInv
    <2>4. CASE CloseSink("completed")
      BY <2>3, <2>4, CloseSinkWhole
    <2>5. CASE UNCHANGED sink
      BY <2>5 DEF Inv, CompleteIsWhole
    <2>6. QED
      BY <2>4, <2>5, <1>3
  <1>11. QED
    BY <1>1, <1>5, <1>6, <1>7, <1>8, <1>9, <1>10 DEF Inv

LEMMA ReceiveErrorInv == Inv /\ ReceiveError => Inv'
  <1> SUFFICES ASSUME Inv, ReceiveError PROVE Inv'
    OBVIOUS
  <1> USE DEF ReceiveError, Arrived, sourceVars, senderVars
  <1>1. ChannelInv' /\ PollDiscipline' /\ AnswersInv' /\ Sent' = Sent
    BY ChannelShrinks
  <1>2. DataInChannel' = DataInChannel /\ toReceiver' \in Seq(Message)
    BY ChannelTail DEF Inv
  <1>3. /\ sink' \in {"open", "completed", "failed", "closed"} /\ sink' # "open"
        /\ sink' = "completed" => sink = "completed"
    BY DEF Inv, TypeOK, CloseSink
  <1>4. TypeOK'
    BY <1>2, <1>3 DEF Inv, TypeOK
  <1>5. WindowBound'
    BY <1>2 DEF Inv, WindowBound, InOffer
  <1>6. CreditInv' /\ CompleteIsWhole'
    BY <1>3 DEF Inv, CreditInv, CompleteIsWhole
  <1>7. ReceiverInv'
    BY DEF Inv, ReceiverInv
  <1>8. OrderInv'
    BY <1>1, MessageGone DEF Inv
  <1>9. QED
    BY <1>1, <1>4, <1>5, <1>6, <1>7, <1>8 DEF Inv

\* The stream has taken the element, or dropped it: what does not depend on which.
LEMMA AcknowledgeInv ==
  ASSUME Inv, Acknowledge, offered # NoItem
  PROVE  /\ Sent' = Sent /\ acks' = acks + 1 /\ acks' \in Nat /\ offerDone' = 1
         /\ PollDiscipline' /\ AnswersInv' /\ ChannelInv' /\ WindowBound' /\ ReceiverInv'
  <1> USE DEF Acknowledge, sourceVars, senderVars
  <1>1. /\ DataInChannel \in Nat /\ Len(buffer) \in Nat /\ acks \in Nat /\ pending \in Nat
        /\ InOffer = 1 /\ InOffer' = 0
    BY ChannelCount, ElementTypes DEF Inv, InOffer
  <1>2. DataInChannel + Len(buffer) + 1 + acks =< pending
    BY <1>1 DEF Inv, WindowBound
  <1>3. Sent' = Sent /\ DataInChannel' = DataInChannel
    BY DEF Sent, DataInChannel, EndInChannel
  <1>4. acks' = acks + 1 /\ acks' \in Nat
    BY <1>1
  <1>5. offerDone' = 1
    BY DEF Inv, ReceiverInv
  <1>6. WindowBound'
    <2>1. DataInChannel + Len(buffer) + 0 + (acks + 1) =< pending
      BY <1>1, <1>2
    <2>2. QED
      BY <2>1, <1>1, <1>3 DEF WindowBound
  <1>7. PollDiscipline' /\ AnswersInv' /\ ChannelInv'
    BY DEF Inv, PollDiscipline, AnswersInv, ChannelInv
  <1>8. ReceiverInv'
    BY DEF Inv, ReceiverInv
  <1>9. QED
    BY <1>3, <1>4, <1>5, <1>6, <1>7, <1>8

LEMMA OfferAcceptedInv == Inv /\ OfferAccepted => Inv'
  <1> SUFFICES ASSUME Inv, OfferAccepted PROVE Inv'
    OBVIOUS
  <1> USE DEF OfferAccepted
  <1>1. UNCHANGED <<sourceVars, senderVars, toReceiver, buffer, offering, rcvComplete,
                    receiver, sink>> /\ offered' = NoItem
    BY DEF Acknowledge
  <1>2. offered \in Items /\ Len(delivered) \in Nat /\ pending \in Nat /\ acks \in Nat
        /\ Sent \in Nat
    BY ElementTypes, SentIsNat DEF Inv, TypeOK
  <1>3. delivered' \in Seq(Items) /\ Len(delivered') = Len(delivered) + 1
    BY <1>2 DEF Inv, TypeOK
  <1>4. TypeOK'
    BY <1>1, <1>3, AcknowledgeInv DEF Inv, TypeOK, sourceVars, senderVars
  <1>5. CreditInv'
    <2>1. Sent - pending + acks =< Len(delivered)
      BY DEF Inv, CreditInv
    <2>2. Sent - pending + (acks + 1) =< Len(delivered) + 1
      BY <1>2, <2>1
    <2>3. QED
      BY <1>1, <1>3, <2>2, AcknowledgeInv DEF CreditInv, senderVars
  <1>6. OrderInv'
    BY <1>1, <1>2, AcknowledgeInv, ElementDelivered DEF Inv
  <1>7. CompleteIsWhole'
    BY <1>1 DEF CompleteIsWhole
  <1>8. QED
    BY <1>4, <1>5, <1>6, <1>7, AcknowledgeInv DEF Inv

LEMMA OfferDiscardedInv == Inv /\ OfferDiscarded => Inv'
  <1> SUFFICES ASSUME Inv, OfferDiscarded PROVE Inv'
    OBVIOUS
  <1> USE DEF OfferDiscarded
  <1>1. UNCHANGED <<sourceVars, senderVars, toReceiver, buffer, offering, rcvComplete,
                    receiver, sink>> /\ offered' = NoItem
    BY DEF Acknowledge
  <1>2. TypeOK'
    BY <1>1, AcknowledgeInv DEF Inv, TypeOK, sourceVars, senderVars
  <1>3. CreditInv' /\ CompleteIsWhole'
    BY <1>1 DEF CreditInv, CompleteIsWhole
  <1>4. OrderInv'
    BY <1>1, AcknowledgeInv, SentIsNat, OfferGone DEF Inv
  <1>5. QED
    BY <1>2, <1>3, <1>4, AcknowledgeInv DEF Inv

LEMMA OfferFailedInv == Inv /\ OfferFailed => Inv'
  <1> SUFFICES ASSUME Inv, OfferFailed PROVE Inv'
    OBVIOUS
  <1> USE DEF OfferFailed, sourceVars, senderVars, sinkVars
  <1>1. /\ DataInChannel \in Nat /\ Len(buffer) \in Nat /\ acks \in Nat /\ pending \in Nat
        /\ InOffer = 1 /\ InOffer' = 0
    BY ChannelCount, ElementTypes DEF Inv, InOffer
  <1>2. DataInChannel + Len(buffer) + 1 + acks =< pending
    BY <1>1 DEF Inv, WindowBound
  <1>3. Sent' = Sent /\ DataInChannel' = DataInChannel
    BY DEF Sent, DataInChannel, EndInChannel
  <1>4. TypeOK'
    BY DEF Inv, TypeOK
  <1>5. WindowBound'
    <2>1. DataInChannel + Len(buffer) + 0 + acks =< pending
      BY <1>1, <1>2
    <2>2. QED
      BY <2>1, <1>1, <1>3 DEF WindowBound
  <1>6. PollDiscipline' /\ AnswersInv' /\ ChannelInv'
    BY DEF Inv, PollDiscipline, AnswersInv, ChannelInv
  <1>7. ReceiverInv'
    BY DEF Inv, ReceiverInv
  <1>8. CreditInv' /\ CompleteIsWhole'
    BY <1>3 DEF Inv, CreditInv, CompleteIsWhole
  <1>9. OrderInv'
    BY <1>3, SentIsNat, OfferGone DEF Inv
  <1>10. QED
    BY <1>4, <1>5, <1>6, <1>7, <1>8, <1>9 DEF Inv

-----------------------------------------------------------------------------
(* Faults                                                                   *)

LEMMA LoseMessageInv == Inv /\ LoseMessage => Inv'
  <1> SUFFICES ASSUME Inv, LoseMessage PROVE Inv'
    OBVIOUS
  <1> USE DEF LoseMessage, sourceVars, senderVars, receiverVars, sinkVars
  <1>1. /\ DataInChannel \in Nat /\ Len(buffer) \in Nat /\ acks \in Nat /\ pending \in Nat
        /\ InOffer \in Nat /\ InOffer' = InOffer /\ Sent \in Nat /\ Len(delivered) \in Nat
    BY ChannelCount, ElementTypes, SentIsNat DEF Inv, InOffer
  <1>2. DataInChannel + Len(buffer) + InOffer + acks =< pending
    BY DEF Inv, WindowBound
  <1>3. CASE toReceiver # <<>> /\ toReceiver' = Tail(toReceiver) /\ UNCHANGED acks
    <2>1. ChannelInv' /\ PollDiscipline' /\ AnswersInv' /\ Sent' = Sent
      BY <1>3, ChannelShrinks
    <2>2. /\ toReceiver' \in Seq(Message)
          /\ DataInChannel' = DataInChannel \/ DataInChannel' = DataInChannel - 1
      BY <1>3, ChannelTail DEF Inv
    <2>3. TypeOK'
      BY <2>2, <1>3 DEF Inv, TypeOK
    <2>4. WindowBound'
      <3>1. (DataInChannel - 1) + Len(buffer) + InOffer + acks =< pending
        BY <1>1, <1>2
      <3>2. QED
        BY <3>1, <2>2, <1>1, <1>2, <1>3 DEF WindowBound
    <2>5. ReceiverInv' /\ CreditInv' /\ CompleteIsWhole'
      BY <2>1, <1>3 DEF Inv, ReceiverInv, CreditInv, CompleteIsWhole
    <2>6. OrderInv'
      BY <2>1, <1>3, MessageGone DEF Inv
    <2>7. QED
      BY <2>1, <2>3, <2>4, <2>5, <2>6 DEF Inv
  <1>4. CASE acks > 0 /\ acks' = acks - 1 /\ UNCHANGED toReceiver
    <2>1. Sent' = Sent /\ DataInChannel' = DataInChannel
      BY <1>4 DEF Sent, DataInChannel, EndInChannel
    <2>2. acks' \in Nat
      BY <1>1, <1>4
    <2>3. TypeOK'
      BY <2>2, <1>4 DEF Inv, TypeOK
    <2>4. WindowBound'
      <3>1. DataInChannel + Len(buffer) + InOffer + (acks - 1) =< pending
        BY <1>1, <1>2
      <3>2. QED
        BY <3>1, <2>1, <1>1, <1>4 DEF WindowBound
    <2>5. CreditInv'
      <3>1. CASE sink = "open"
        <4>1. Sent - pending + acks =< Len(delivered)
          BY <3>1 DEF Inv, CreditInv
        <4>2. Sent - pending + (acks - 1) =< Len(delivered)
          BY <4>1, <1>1
        <4>3. QED
          BY <4>2, <2>1, <1>4 DEF CreditInv
      <3>2. CASE sink # "open"
        BY <3>2 DEF CreditInv
      <3>3. QED
        BY <3>1, <3>2
    <2>6. PollDiscipline' /\ AnswersInv' /\ ChannelInv' /\ ReceiverInv' /\ CompleteIsWhole'
      BY <1>4 DEF Inv, PollDiscipline, AnswersInv, ChannelInv, ReceiverInv, CompleteIsWhole
    <2>7. OrderInv'
      BY <2>1, <1>4, OrderUnchanged DEF Inv
    <2>8. QED
      BY <2>3, <2>4, <2>5, <2>6, <2>7 DEF Inv
  <1>5. QED
    BY <1>3, <1>4

\* Killing an actor, the end of the stream and a stuttering step move nothing.
LEMMA NothingMoves ==
  ASSUME Inv, UNCHANGED <<pulled, pulls, answers, pending, complete, toReceiver, acks,
                          buffer, offering, rcvComplete, offered, offerDone, delivered>>,
         sender' = sender \/ sender' = "stopped",
         receiver' = receiver \/ receiver' = "stopped",
         sink' = sink \/ sink' = "closed"
  PROVE  Inv'
  <1>1. Sent' = Sent
    BY DEF Sent
  <1>2. TypeOK'
    BY DEF Inv, TypeOK
  <1>3. PollDiscipline' /\ AnswersInv' /\ ChannelInv' /\ ReceiverInv'
    BY DEF Inv, PollDiscipline, AnswersInv, ChannelInv, ReceiverInv
  <1>4. WindowBound'
    BY DEF Inv, WindowBound, DataInChannel, EndInChannel, InOffer
  <1>5. CreditInv' /\ CompleteIsWhole'
    BY <1>1 DEF Inv, CreditInv, CompleteIsWhole
  <1>6. OrderInv'
    BY <1>1, OrderUnchanged DEF Inv
  <1>7. QED
    BY <1>2, <1>3, <1>4, <1>5, <1>6 DEF Inv

LEMMA NextInv == Inv /\ [Next]_vars => Inv'
  <1> SUFFICES ASSUME Inv, [Next]_vars PROVE Inv'
    OBVIOUS
  <1>1. CASE SinkClosed
    BY <1>1, NothingMoves DEF SinkClosed, sourceVars, senderVars, receiverVars
  <1>2. CASE Kill
    BY <1>2, NothingMoves DEF Kill, sourceVars, sinkVars
  <1>3. CASE UNCHANGED vars
    BY <1>3, NothingMoves DEF vars, sourceVars, senderVars, receiverVars, sinkVars
  <1>4. QED
    BY <1>1, <1>2, <1>3, PullAnsweredInv, SendDataInv, SenderDoneInv, SourceExhaustedInv,
       SourceFailedInv, ReceiveDataInv, ReceiveOfferedInv, ReceiveCompleteInv,
       ReceiveErrorInv, OfferAcceptedInv, OfferDiscardedInv, OfferFailedInv,
       LoseMessageInv DEF Next

\* The inductive invariant holds of every behaviour, whatever the length of
\* the source, the window and the faults: neither actor ever makes a call the
\* stream queues forbid, and no element leaves its place.
THEOREM Invariance == Spec => []Inv
  <1>1. Init => Inv
    BY InitInv
  <1>2. Inv /\ [Next]_vars => Inv'
    BY NextInv
  <1>3. QED
    BY <1>1, <1>2, PTL DEF Spec

\* Every variable keeps its type; in particular pending stays between 0 and
\* BufferSize and the receiver never has two results of an offer to handle.
THEOREM TypeCorrect == Spec => []TypeOK
  <1>1. Inv => TypeOK
    BY DEF Inv
  <1>2. QED
    BY <1>1, Invariance, PTL

\* The sender never has two pulls going, and never forgets to have one going
\* while its window has room.
THEOREM PollsOnce == Spec => []PollDiscipline
  <1>1. Inv => PollDiscipline
    BY DEF Inv
  <1>2. QED
    BY <1>1, Invariance, PTL

\* The receiver's buffer never outgrows the sender's window.
THEOREM BoundedReceiver == Spec => []WindowBound
  <1>1. Inv => WindowBound
    BY DEF Inv
  <1>2. QED
    BY <1>1, Invariance, PTL

\* The stream sees increasing elements.
LEMMA InvOrder == Inv => InOrder
  <1> SUFFICES ASSUME Inv, NEW i \in 1 .. Len(delivered), NEW j \in 1 .. Len(delivered), i < j
               PROVE  delivered[i] < delivered[j]
    BY DEF InOrder
  <1>1. delivered[j] - delivered[i] >= j - i
    BY DEF Inv, OrderInv, DeliveredInv
  <1>2. delivered[i] \in Nat /\ delivered[j] \in Nat
    BY ElementTypes DEF Inv
  <1>3. QED
    BY <1>1, <1>2

THEOREM OrderedDelivery == Spec => []InOrder
  <1>1. QED
    BY InvOrder, Invariance, PTL

\* A completed stream has received the whole source, although any message may
\* have been lost.
THEOREM NoTruncation == Spec => []CompleteIsWhole
  <1>1. Inv => CompleteIsWhole
    BY DEF Inv
  <1>2. QED
    BY <1>1, Invariance, PTL

-----------------------------------------------------------------------------
(* The protocol implements the ordered transfer                             *)

\* Closing the stream is Finish, Abandon or nothing at all.
LEMMA CloseSinkMaps ==
  ASSUME Inv, UNCHANGED delivered,
         \/ CloseSink("failed")
         \/ CloseSink("completed") /\ complete /\ pending = 0
  PROVE  [Transfer!Next]_Transfer!vars
  <1>1. CASE sink # "open"
    BY <1>1 DEF CloseSink, Transfer!vars
  <1>2. CASE sink = "open" /\ CloseSink("failed")
    BY <1>2 DEF CloseSink, Transfer!Next, Transfer!Abandon
  <1>3. CASE sink = "open" /\ CloseSink("completed") /\ complete /\ pending = 0
    <2>1. delivered = [i \in 1 .. NItems |-> i]
      BY <1>3, AllDelivered DEF Items
    <2>2. sink' = "completed"
      BY <1>3 DEF CloseSink
    <2>3. QED
      BY <1>3, <2>1, <2>2 DEF Transfer!Next, Transfer!Finish
  <1>4. QED
    BY <1>1, <1>2, <1>3

LEMMA StepMaps == Inv /\ [Next]_vars => [Transfer!Next]_Transfer!vars
  <1> SUFFICES ASSUME Inv, [Next]_vars PROVE [Transfer!Next]_Transfer!vars
    OBVIOUS
  <1> USE DEF sourceVars, senderVars, receiverVars, sinkVars
  <1>1. CASE UNCHANGED <<sink, delivered>>
    BY <1>1 DEF Transfer!vars
  <1>2. CASE OfferAccepted
    <2>1. offered \in 1 .. NItems
      BY <1>2 DEF OfferAccepted, Inv, TypeOK, Items
    <2>2. \A i \in 1 .. Len(delivered) : delivered[i] < offered
      BY <1>2 DEF OfferAccepted, Inv, OrderInv, AfterDelivered
    <2>3. Transfer!Deliver(offered)
      BY <1>2, <2>2 DEF OfferAccepted, Acknowledge, Transfer!Deliver
    <2>4. QED
      BY <2>1, <2>3 DEF Transfer!Next
  <1>3. CASE SinkClosed
    BY <1>3 DEF SinkClosed, Transfer!Next, Transfer!Abandon
  <1>4. CASE ReceiveOffered
    <2>1. rcvComplete => complete /\ pending = 0
      BY DEF Inv, ChannelInv
    <2>2. CASE UNCHANGED sink
      BY <1>4, <2>2, <1>1 DEF ReceiveOffered
    <2>3. CASE rcvComplete /\ CloseSink("completed")
      BY <1>4, <2>1, <2>3, CloseSinkMaps DEF ReceiveOffered
    <2>4. QED
      BY <1>4, <2>2, <2>3 DEF ReceiveOffered
  <1>5. CASE ReceiveComplete
    <2>1. toReceiver[1].type = "Complete" /\ Len(toReceiver) \in Nat /\ Len(toReceiver) > 0
      BY <1>5, NonEmptySeq DEF Inv, TypeOK, ReceiveComplete, Arrived
    <2>2. 1 \in 1 .. Len(toReceiver)
      BY <2>1
    <2>3. complete /\ pending = 0
      BY <2>1, <2>2 DEF Inv, ChannelInv
    <2>4. CASE UNCHANGED sink
      BY <1>5, <2>4, <1>1 DEF ReceiveComplete
    <2>5. CASE CloseSink("completed")
      BY <1>5, <2>3, <2>5, CloseSinkMaps DEF ReceiveComplete
    <2>6. QED
      BY <1>5, <2>4, <2>5 DEF ReceiveComplete
  <1>6. CASE ReceiveError
    BY <1>6, CloseSinkMaps DEF ReceiveError
  <1>7. CASE \/ PullAnswered \/ SendData \/ SenderDone \/ SourceExhausted \/ SourceFailed
             \/ ReceiveData \/ OfferDiscarded \/ OfferFailed \/ LoseMessage \/ Kill
             \/ UNCHANGED vars
    BY <1>7, <1>1 DEF PullAnswered, SendData, SenderDone, SourceExhausted, SourceFailed,
       ReceiveData, OfferDiscarded, OfferFailed, LoseMessage, Kill, Acknowledge, vars
  <1>8. QED
    BY <1>2, <1>3, <1>4, <1>5, <1>6, <1>7 DEF Next

\* The two actors and the channel between them implement the ordered transfer:
\* delivery in order, at most once, and completion only of the whole.
THEOREM Refinement == Spec => ImplementsTransfer
  <1>1. Init => Transfer!Init
    BY DEF Init, Transfer!Init
  <1>2. Inv /\ [Next]_vars => [Transfer!Next]_Transfer!vars
    BY StepMaps
  <1>3. QED
    BY <1>1, <1>2, Invariance, PTL DEF Spec, ImplementsTransfer, Transfer!Spec
=============================================================================
