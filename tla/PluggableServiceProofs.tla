------------------------ MODULE PluggableServiceProofs ------------------------
(***************************************************************************)
(* Proofs about PluggableService, for any clients, requests, faults and    *)
(* number of restarts.                                                     *)
(*                                                                         *)
(* The argument: a request that is stored, a job that runs and a           *)
(* PluggingComplete in the mailbox are one token, which is there only      *)
(* while plugging is set or an event is being persisted.  So nothing but   *)
(* the token's next step changes the request, the plugged code or what is  *)
(* live.                                                                   *)
(*                                                                         *)
(* The order of messages is kept because those that were taken are a       *)
(* prefix of those that arrived, and the stash followed by the mailbox,    *)
(* but for a result, is the rest.                                          *)
(***************************************************************************)
EXTENDS PluggableService, TLAPS, FiniteSetTheorems, WellFoundedInduction

USE AsksAssumption, NamesAssumption, MaxRestartsAssumption

IsComplete(m) == m.type = "PluggingComplete"

\* Nobody, or a client that has asked for r.
AskedFor(c, r) == c # None => Asks[c].type = "Evt" /\ Asks[c].request = r

\* While an event is persisted nothing is plugging; while nothing is plugging
\* nothing is put aside; and a result comes after its job.
Token ==
  /\ stored => persisting # None /\ journal = Asks[persisting].request
  /\ ~stored => journal = request
  /\ persisting # None => ~plugging /\ Asks[persisting].type = "Evt"
  /\ ~plugging => job.stage = "none" /\ stash = << >>
  /\ \A p \in DOMAIN mailbox : IsComplete(mailbox[p]) => plugging /\ job.stage = "none"
  /\ \A p, q \in DOMAIN mailbox : IsComplete(mailbox[p]) /\ IsComplete(mailbox[q]) => p = q

\* What is being plugged, and what is plugged, is what was last asked for.
Asked ==
  /\ ~plugging => plugged.request = request
  /\ job.stage # "none" => job.request = request /\ AskedFor(job.replyTo, request)
  /\ \A p \in DOMAIN mailbox : IsComplete(mailbox[p]) =>
       mailbox[p].plugged.request = request /\ AskedFor(mailbox[p].replyTo, request)

\* Instances have numbers that are given once; the code that is live, but for
\* what was forgotten, is the plugged one or, at the end of a job, the new one.
Instances ==
  /\ forgotten \subseteq live
  /\ \A i \in live : i.nr =< created
  /\ plugged \notin forgotten
  /\ \E i \in Instance \cup {VoidPlugged} : live \ forgotten \subseteq {i}
  /\ ~plugging => plugged \in live \cup {VoidPlugged}
  /\ ~plugging \/ job.stage = "loading" => live \ forgotten \subseteq {plugged}
  /\ job.stage \in {"unplugging", "plugging"} => live = forgotten
  /\ \A p \in DOMAIN mailbox : IsComplete(mailbox[p]) =>
       /\ mailbox[p].plugged \notin forgotten
       /\ mailbox[p].plugged \in live \cup {VoidPlugged}
       /\ live \ forgotten \subseteq {mailbox[p].plugged}

Inv == TypeOK /\ Token /\ Asked /\ Instances

-----------------------------------------------------------------------------
(* Messages                                                                 *)

LEMMA ClientMessage ==
  ASSUME NEW c \in Clients
  PROVE  /\ From(c) \in [type : {"client"}, client : Clients]
         /\ From(c) \in Message
         /\ ~IsComplete(From(c))
         /\ From(c).client = c
  BY DEF From, Message, IsComplete

LEMMA CompleteMessage ==
  ASSUME NEW i \in Instance \cup {VoidPlugged}, NEW c \in Clients \cup {None}
  PROVE  /\ PluggingComplete(i, c) \in Message
         /\ IsComplete(PluggingComplete(i, c))
         /\ PluggingComplete(i, c).plugged = i
         /\ PluggingComplete(i, c).replyTo = c
  BY DEF PluggingComplete, Message, IsComplete

LEMMA MessageTypes ==
  ASSUME NEW m \in Message
  PROVE  /\ IsComplete(m) => /\ m.plugged \in Instance \cup {VoidPlugged}
                             /\ m.replyTo \in Clients \cup {None}
         /\ ~IsComplete(m) => m \in [type : {"client"}, client : Clients]
         /\ m \in [type : {"client"}, client : Clients] => ~IsComplete(m)
  BY DEF Message, IsComplete

\* What was asked for can be plugged.
LEMMA AskTypes ==
  ASSUME NEW c \in Clients
  PROVE  /\ Asks[c].type \in {"Evt", "GetPlugged"}
         /\ Asks[c].type = "Evt" => Asks[c].request \in Request
  BY DEF Plug, GetPlugged

LEMMA VoidIsNoInstance == VoidPlugged \notin Instance /\ VoidPlugged.request = NoRequest
  BY DEF VoidPlugged, Instance

LEMMA ElementTypes ==
  ASSUME NEW S, NEW s \in Seq(S) PROVE \A p \in DOMAIN s : s[p] \in S
  OBVIOUS

\* The mailbox without its head.
LEMMA Popped ==
  ASSUME NEW S, NEW s \in Seq(S), s # << >>
  PROVE  /\ Tail(s) \in Seq(S)
         /\ Head(s) = s[1] /\ 1 \in DOMAIN s /\ Head(s) \in S
         /\ Len(Tail(s)) = Len(s) - 1
         /\ \A p \in DOMAIN Tail(s) : p + 1 \in DOMAIN s /\ Tail(s)[p] = s[p + 1] /\ p \in Nat
  OBVIOUS

LEMMA Pushed ==
  ASSUME NEW S, NEW s \in Seq(S), NEW m \in S
  PROVE  /\ Append(s, m) \in Seq(S)
         /\ Len(Append(s, m)) = Len(s) + 1
         /\ Append(s, m)[Len(s) + 1] = m
         /\ \A p \in DOMAIN Append(s, m) : p = Len(s) + 1 \/ (p \in DOMAIN s /\ Append(s, m)[p] = s[p])
  OBVIOUS

\* The stash before the mailbox.
LEMMA Unstashed ==
  ASSUME NEW S, NEW s \in Seq(S), NEW t \in Seq(S)
  PROVE  /\ s \o t \in Seq(S)
         /\ Len(s \o t) = Len(s) + Len(t)
         /\ \A p \in DOMAIN (s \o t) :
              \/ p \in DOMAIN s /\ (s \o t)[p] = s[p]
              \/ p - Len(s) \in DOMAIN t /\ (s \o t)[p] = t[p - Len(s)] /\ p > Len(s)
  OBVIOUS

-----------------------------------------------------------------------------
(* The invariant                                                            *)

LEMMA InvInit == Init => Inv
  <1> SUFFICES ASSUME Init PROVE Inv
    OBVIOUS
  <1> USE DEF Init
  <1>1. job \in [stage : Stages, request : Request, replyTo : Clients \cup {None}]
    BY DEF Recovering, Stages
  <1>2. mailbox \in Seq(Message) /\ stash \in Seq([type : {"client"}, client : Clients])
    OBVIOUS
  <1>3. arrived \in Seq(Clients) /\ restarts \in 0 .. MaxRestarts
    OBVIOUS
  <1>4. TypeOK
    BY <1>1, <1>2, <1>3 DEF TypeOK
  <1>5. Token
    BY DEF Token, Recovering
  <1>6. Asked
    BY DEF Asked, AskedFor, Recovering
  <1>7. Instances
    BY VoidIsNoInstance DEF Instances, Recovering
  <1>8. QED
    BY <1>4, <1>5, <1>6, <1>7 DEF Inv

LEMMA InvSend == ASSUME Inv, NEW c \in Clients, Send(c) PROVE Inv'
  <1> USE DEF Inv, Send
  <1>1. mailbox \in Seq(Message) /\ From(c) \in Message /\ ~IsComplete(From(c))
    BY ClientMessage DEF TypeOK
  <1>2. /\ mailbox' \in Seq(Message)
        /\ \A p \in DOMAIN mailbox' : IsComplete(mailbox'[p]) =>
             p \in DOMAIN mailbox /\ mailbox'[p] = mailbox[p]
    BY <1>1, Pushed
  <1>3. TypeOK'
    BY <1>2 DEF TypeOK, stateVars, pluggedVars, instanceVars
  <1>4. Token'
    BY <1>2 DEF Token, stateVars, pluggedVars, instanceVars
  <1>5. Asked'
    BY <1>2 DEF Asked, AskedFor, stateVars, pluggedVars, instanceVars
  <1>6. Instances'
    BY <1>2 DEF Instances, stateVars, pluggedVars, instanceVars
  <1>7. QED
    BY <1>3, <1>4, <1>5, <1>6

\* The head of the mailbox is taken by a client's message.
LEMMA Taken ==
  ASSUME Inv, mailbox # << >>, mailbox' = Tail(mailbox)
  PROVE  /\ mailbox' \in Seq(Message)
         /\ \A p \in DOMAIN mailbox' : p + 1 \in DOMAIN mailbox /\ mailbox'[p] = mailbox[p + 1]
         /\ \A p, q \in DOMAIN mailbox' : IsComplete(mailbox'[p]) /\ IsComplete(mailbox'[q]) => p = q
  <1>1. mailbox \in Seq(Message)
    BY DEF Inv, TypeOK
  <1>2. /\ mailbox' \in Seq(Message)
        /\ \A p \in DOMAIN mailbox' : p + 1 \in DOMAIN mailbox /\ mailbox'[p] = mailbox[p + 1] /\ p \in Nat
    BY <1>1, Popped
  <1>3. \A p, q \in DOMAIN mailbox : IsComplete(mailbox[p]) /\ IsComplete(mailbox[q]) => p = q
    BY DEF Inv, Token
  <1>4. ASSUME NEW p \in DOMAIN mailbox', NEW q \in DOMAIN mailbox',
               IsComplete(mailbox'[p]), IsComplete(mailbox'[q])
        PROVE  p = q
    <2>1. p + 1 = q + 1
      BY <1>2, <1>3, <1>4
    <2>2. QED
      BY <2>1, <1>2
  <1>5. QED
    BY <1>2, <1>4

LEMMA InvStash == ASSUME Inv, NEW c \in Clients, Stash(c) PROVE Inv'
  <1> USE DEF Inv, Stash, Next1, stateVars, pluggedVars, instanceVars, clientVars
  <1>1. /\ mailbox' \in Seq(Message)
        /\ \A p \in DOMAIN mailbox' : p + 1 \in DOMAIN mailbox /\ mailbox'[p] = mailbox[p + 1]
        /\ \A p, q \in DOMAIN mailbox' : IsComplete(mailbox'[p]) /\ IsComplete(mailbox'[q]) => p = q
    BY Taken
  <1>2. stash' \in Seq([type : {"client"}, client : Clients])
    BY ClientMessage, Pushed DEF TypeOK
  <1>3. TypeOK'
    BY <1>1, <1>2 DEF TypeOK
  <1>4. Token'
    BY <1>1 DEF Token
  <1>5. Asked'
    BY <1>1 DEF Asked, AskedFor
  <1>6. Instances'
    BY <1>1 DEF Instances
  <1>7. QED
    BY <1>3, <1>4, <1>5, <1>6

LEMMA InvPersist == ASSUME Inv, NEW c \in Clients, Persist(c) PROVE Inv'
  <1> USE DEF Inv, Persist, Next1, pluggedVars, instanceVars, clientVars
  <1>1. /\ mailbox' \in Seq(Message)
        /\ \A p \in DOMAIN mailbox' : p + 1 \in DOMAIN mailbox /\ mailbox'[p] = mailbox[p + 1]
        /\ \A p, q \in DOMAIN mailbox' : IsComplete(mailbox'[p]) /\ IsComplete(mailbox'[q]) => p = q
    BY Taken
  <1>2. c # None /\ ~stored
    BY DEF Token
  <1>3. TypeOK'
    BY <1>1 DEF TypeOK
  <1>4. Token'
    BY <1>1, <1>2 DEF Token
  <1>5. Asked'
    BY <1>1 DEF Asked, AskedFor
  <1>6. Instances'
    BY <1>1 DEF Instances
  <1>7. QED
    BY <1>3, <1>4, <1>5, <1>6

LEMMA InvAnswer == ASSUME Inv, NEW c \in Clients, Answer(c) PROVE Inv'
  <1> USE DEF Inv, Answer, Next1, stateVars, pluggedVars, instanceVars
  <1>1. /\ mailbox' \in Seq(Message)
        /\ \A p \in DOMAIN mailbox' : p + 1 \in DOMAIN mailbox /\ mailbox'[p] = mailbox[p + 1]
        /\ \A p, q \in DOMAIN mailbox' : IsComplete(mailbox'[p]) /\ IsComplete(mailbox'[q]) => p = q
    BY Taken
  <1>2. plugged.request \in Request
    BY VoidIsNoInstance DEF TypeOK, Instance, Request
  <1>3. TypeOK'
    BY <1>1, <1>2 DEF TypeOK
  <1>4. Token'
    BY <1>1 DEF Token
  <1>5. Asked'
    BY <1>1 DEF Asked, AskedFor
  <1>6. Instances'
    BY <1>1 DEF Instances
  <1>7. QED
    BY <1>3, <1>4, <1>5, <1>6

LEMMA InvStore == ASSUME Inv, Store PROVE Inv'
  <1> USE DEF Inv, Store, pluggedVars, instanceVars, mailVars, clientVars
  <1>1. journal' \in Request
    BY AskTypes DEF TypeOK, Token
  <1>2. TypeOK'
    BY <1>1 DEF TypeOK
  <1>3. Token'
    BY DEF Token
  <1>4. Asked' /\ Instances'
    BY DEF Asked, AskedFor, Instances
  <1>5. QED
    BY <1>2, <1>3, <1>4

LEMMA InvDoPlugging == ASSUME Inv, DoPlugging PROVE Inv'
  <1> USE DEF Inv, DoPlugging, instanceVars, mailVars, clientVars
  <1>1. /\ persisting \in Clients /\ Asks[persisting].type = "Evt" /\ ~plugging
        /\ journal = Asks[persisting].request /\ job.stage = "none"
        /\ \A p \in DOMAIN mailbox : ~IsComplete(mailbox[p])
    BY DEF Token, TypeOK
  <1>2. /\ job'.stage = "loading" /\ job'.request = request' /\ job'.replyTo = persisting
        /\ request' \in Request
    BY <1>1, AskTypes
  <1>3. job' \in [stage : Stages, request : Request, replyTo : Clients \cup {None}]
    BY <1>1, <1>2 DEF Stages
  <1>4. TypeOK'
    BY <1>2, <1>3 DEF TypeOK
  <1>5. Token'
    BY <1>1, <1>2 DEF Token
  <1>6. Asked'
    BY <1>1, <1>2 DEF Asked, AskedFor
  <1>7. Instances'
    BY <1>1, <1>2 DEF Instances
  <1>8. QED
    BY <1>4, <1>5, <1>6, <1>7

LEMMA InvPreUnplug == ASSUME Inv, PreUnplug PROVE Inv'
  <1> USE DEF Inv, PreUnplug, stateVars, pluggedVars, mailVars, clientVars
  <1>1. /\ job'.stage = "unplugging" /\ job'.request = job.request /\ job'.replyTo = job.replyTo
        /\ job' \in [stage : Stages, request : Request, replyTo : Clients \cup {None}]
    BY DEF TypeOK, Stages
  <1>2. plugging /\ \A p \in DOMAIN mailbox : ~IsComplete(mailbox[p])
    BY DEF Token
  <1>3. TypeOK'
    BY <1>1 DEF TypeOK
  <1>4. Token'
    BY <1>1, <1>2 DEF Token
  <1>5. Asked'
    BY <1>1, <1>2 DEF Asked, AskedFor
  <1>6. /\ forgotten \subseteq live' /\ live' = forgotten
        /\ \E i \in Instance \cup {VoidPlugged} : live' \ forgotten \subseteq {i}
    BY DEF Instances
  <1>7. Instances'
    BY <1>1, <1>2, <1>6 DEF Instances
  <1>8. QED
    BY <1>3, <1>4, <1>5, <1>7

LEMMA InvCallPlug == ASSUME Inv, CallPlug PROVE Inv'
  <1> USE DEF Inv, CallPlug, stateVars, pluggedVars, instanceVars, mailVars, clientVars
  <1>1. /\ job'.stage = "plugging" /\ job'.request = job.request /\ job'.replyTo = job.replyTo
        /\ job' \in [stage : Stages, request : Request, replyTo : Clients \cup {None}]
    BY DEF TypeOK, Stages
  <1>2. plugging /\ \A p \in DOMAIN mailbox : ~IsComplete(mailbox[p])
    BY DEF Token
  <1>3. TypeOK'
    BY <1>1 DEF TypeOK
  <1>4. Token' /\ Asked'
    BY <1>1, <1>2 DEF Token, Asked, AskedFor
  <1>5. Instances'
    BY <1>1, <1>2 DEF Instances
  <1>6. QED
    BY <1>3, <1>4, <1>5

LEMMA InvJobFails == ASSUME Inv, JobFails PROVE Inv'
  <1> USE DEF Inv, JobFails, stateVars, pluggedVars, instanceVars, mailVars, clientVars
  <1>1. /\ job'.stage = "failed" /\ job'.request = job.request /\ job'.replyTo = job.replyTo
        /\ job' \in [stage : Stages, request : Request, replyTo : Clients \cup {None}]
    BY DEF TypeOK, Stages
  <1>2. job.stage # "none" /\ plugging /\ \A p \in DOMAIN mailbox : ~IsComplete(mailbox[p])
    BY DEF Token
  <1>3. TypeOK'
    BY <1>1 DEF TypeOK
  <1>4. Token' /\ Asked'
    BY <1>1, <1>2 DEF Token, Asked, AskedFor
  <1>5. Instances'
    BY <1>1, <1>2 DEF Instances
  <1>6. QED
    BY <1>3, <1>4, <1>5

\* The job is done: what it has made, if anything, becomes live and is under
\* way to the actor.
LEMMA JobDone ==
  ASSUME Inv, Plugged, NEW i \in Instance \cup {VoidPlugged},
         mailbox' = Append(mailbox, PluggingComplete(i, job.replyTo)),
         i.request = request, i \notin forgotten,
         live' = live \cup ({i} \ {VoidPlugged}),
         created' \in Nat, created' >= created, i.nr =< created'
  PROVE  Inv'
  <1> USE DEF Inv, Plugged, stateVars, pluggedVars, clientVars
  <1> DEFINE m == PluggingComplete(i, job.replyTo)
  <1>1. /\ mailbox \in Seq(Message) /\ m \in Message /\ IsComplete(m)
        /\ m.plugged = i /\ m.replyTo = job.replyTo
    BY CompleteMessage DEF TypeOK
  <1>2. plugging /\ \A p \in DOMAIN mailbox : ~IsComplete(mailbox[p])
    BY DEF Token
  <1> HIDE DEF m
  <1>3. mailbox' = Append(mailbox, m)
    BY DEF m
  <1>4. /\ mailbox' \in Seq(Message)
        /\ \A p \in DOMAIN mailbox' : IsComplete(mailbox'[p]) => p = Len(mailbox) + 1 /\ mailbox'[p] = m
    BY <1>1, <1>2, <1>3, Pushed
  <1>5. job'.stage = "none" /\ job' \in [stage : Stages, request : Request, replyTo : Clients \cup {None}]
    BY DEF NoJob, Stages, Request
  <1>6. live' \subseteq Instance
    BY DEF TypeOK
  <1>7. TypeOK'
    BY <1>4, <1>5, <1>6 DEF TypeOK
  <1>8. Token'
    BY <1>2, <1>4, <1>5 DEF Token
  <1>9. AskedFor(job.replyTo, request)
    BY DEF Asked
  <1>10. Asked'
    BY <1>1, <1>2, <1>4, <1>5, <1>9 DEF Asked, AskedFor
  <1>11. /\ forgotten \subseteq live' /\ live' \ forgotten \subseteq {i}
         /\ i \in live' \cup {VoidPlugged}
    BY DEF Instances
  <1>12. \A j \in live' : j.nr =< created'
    <2>1. \A j \in live : j.nr \in Nat /\ j.nr =< created
      BY DEF Instances, TypeOK, Instance
    <2>2. created \in Nat
      BY DEF TypeOK
    <2>3. QED
      BY <2>1, <2>2
  <1>13. plugged \notin forgotten
    BY DEF Instances
  <1>14. Instances'
    BY <1>1, <1>2, <1>4, <1>5, <1>11, <1>12, <1>13 DEF Instances
  <1>15. QED
    BY <1>7, <1>8, <1>10, <1>14

LEMMA InvPlugged == ASSUME Inv, Plugged PROVE Inv'
  <1>1. /\ job.request = request /\ live = forgotten /\ created \in Nat
        /\ live \subseteq Instance /\ request \in Request
        /\ \A j \in live : j.nr =< created
    BY DEF Inv, Asked, Instances, TypeOK, Plugged
  <1>2. CASE request = NoRequest
    <2>1. /\ mailbox' = Append(mailbox, PluggingComplete(VoidPlugged, job.replyTo))
          /\ live' = live /\ created' = created
      BY <1>1, <1>2 DEF Plugged
    <2>2. VoidPlugged.request = NoRequest /\ VoidPlugged.nr = 0 /\ VoidPlugged \notin forgotten
      BY <1>1, VoidIsNoInstance DEF VoidPlugged
    <2>3. live' = live \cup ({VoidPlugged} \ {VoidPlugged})
      BY <2>1
    <2>4. QED
      BY <1>1, <1>2, <2>1, <2>2, <2>3, JobDone
  <1>3. CASE request # NoRequest
    <2> DEFINE new == [request |-> request, nr |-> created + 1]
    <2>1. new \in Instance /\ new.request = request /\ new.nr = created + 1
      BY <1>1, <1>3 DEF Instance, Request
    <2>2. /\ mailbox' = Append(mailbox, PluggingComplete(new, job.replyTo))
          /\ live' = live \cup {new} /\ created' = created + 1
      BY <1>1, <1>3 DEF Plugged
    <2> HIDE DEF new
    <2>3. new \notin forgotten
      <3>1. \A j \in live : j.nr \in Nat
        BY <1>1 DEF Instance
      <3>2. QED
        BY <1>1, <2>1, <3>1
    <2>4. live' = live \cup ({new} \ {VoidPlugged})
      BY <2>1, <2>2, VoidIsNoInstance
    <2>5. created' \in Nat /\ created' >= created /\ new.nr =< created'
      BY <1>1, <2>1, <2>2
    <2>6. QED
      BY <2>1, <2>2, <2>3, <2>4, <2>5, JobDone
  <1>4. QED
    BY <1>2, <1>3

\* What the actor finds when a job is done.
LEMMA AtCompletion ==
  ASSUME Inv, Completed
  PROVE  /\ mailbox \in Seq(Message) /\ Head(mailbox) = mailbox[1] /\ 1 \in DOMAIN mailbox
         /\ IsComplete(Head(mailbox))
         /\ Head(mailbox).plugged \in Instance \cup {VoidPlugged}
         /\ Head(mailbox).replyTo \in Clients \cup {None}
         /\ plugging /\ job.stage = "none" /\ persisting = None /\ ~stored /\ journal = request
  <1>1. /\ mailbox \in Seq(Message) /\ Head(mailbox) = mailbox[1] /\ 1 \in DOMAIN mailbox
        /\ Head(mailbox) \in Message
    BY Popped DEF Inv, TypeOK, Completed
  <1>2. IsComplete(Head(mailbox))
    BY DEF Completed, IsComplete
  <1>3. QED
    BY <1>1, <1>2, MessageTypes DEF Inv, Token, Completed

\* When it has been handled no result is left.
LEMMA NoneLeft ==
  ASSUME Inv, Completed, mailbox' = stash \o Tail(mailbox)
  PROVE  /\ mailbox' \in Seq(Message)
         /\ \A p \in DOMAIN mailbox' : ~IsComplete(mailbox'[p])
  <1>1. /\ mailbox \in Seq(Message) /\ Head(mailbox) = mailbox[1] /\ 1 \in DOMAIN mailbox
        /\ IsComplete(Head(mailbox))
    BY AtCompletion
  <1>2. /\ Tail(mailbox) \in Seq(Message)
        /\ \A p \in DOMAIN Tail(mailbox) :
             p \in Nat /\ p + 1 \in DOMAIN mailbox /\ Tail(mailbox)[p] = mailbox[p + 1] /\ p # 0
    BY <1>1, Popped DEF Completed
  <1>3. \A p \in DOMAIN Tail(mailbox) : ~IsComplete(Tail(mailbox)[p])
    <2> SUFFICES ASSUME NEW p \in DOMAIN Tail(mailbox), IsComplete(Tail(mailbox)[p]) PROVE FALSE
      OBVIOUS
    <2>1. p + 1 = 1
      BY <1>1, <1>2 DEF Inv, Token
    <2>2. QED
      BY <1>2, <2>1
  <1>4. /\ stash \in Seq(Message)
        /\ \A p \in DOMAIN stash : ~IsComplete(stash[p])
    <2>1. stash \in Seq([type : {"client"}, client : Clients])
      BY DEF Inv, TypeOK
    <2>2. \A p \in DOMAIN stash : stash[p] \in [type : {"client"}, client : Clients]
      BY <2>1, ElementTypes
    <2>3. QED
      BY <2>1, <2>2, MessageTypes DEF Message
  <1>5. QED
    BY <1>2, <1>3, <1>4, Unstashed

LEMMA InvComplete == ASSUME Inv, Complete PROVE Inv'
  <1> USE DEF Inv, Complete, stateVars
  <1>1. /\ mailbox \in Seq(Message) /\ Head(mailbox) = mailbox[1] /\ 1 \in DOMAIN mailbox
        /\ IsComplete(Head(mailbox))
        /\ Head(mailbox).plugged \in Instance \cup {VoidPlugged}
        /\ Head(mailbox).replyTo \in Clients \cup {None}
        /\ plugging /\ job.stage = "none" /\ persisting = None /\ ~stored /\ journal = request
    BY AtCompletion
  <1>2. /\ mailbox' \in Seq(Message)
        /\ \A p \in DOMAIN mailbox' : ~IsComplete(mailbox'[p])
    BY NoneLeft
  <1>3. acked' \subseteq Clients
    BY <1>1 DEF Acknowledge, TypeOK
  <1>4. stash' \in Seq([type : {"client"}, client : Clients])
    OBVIOUS
  <1>5. TypeOK'
    BY <1>1, <1>2, <1>3, <1>4 DEF TypeOK
  <1>6. Token'
    BY <1>1, <1>2 DEF Token
  <1>7. Asked'
    BY <1>1, <1>2 DEF Asked, AskedFor
  <1>8. Instances'
    BY <1>1, <1>2 DEF Instances
  <1>9. QED
    BY <1>5, <1>6, <1>7, <1>8

\* A recovery, whatever is left of the mailbox, the live and the forgotten.
LEMMA InvRecover ==
  ASSUME Inv, Recover, mailbox' \in Seq(Message),
         \A p \in DOMAIN mailbox' : ~IsComplete(mailbox'[p]),
         live' \subseteq live, leaving' \subseteq leaving, forgotten' = live'
  PROVE  Inv'
  <1> USE DEF Inv, Recover, clientVars
  <1>1. /\ job'.stage = "loading" /\ job'.request = journal /\ job'.replyTo = None
        /\ job' \in [stage : Stages, request : Request, replyTo : Clients \cup {None}]
    BY DEF TypeOK, Recovering, Stages
  <1>2. stash' \in Seq([type : {"client"}, client : Clients]) /\ restarts' \in 0 .. MaxRestarts
    BY DEF TypeOK
  <1>3. TypeOK'
    BY <1>1, <1>2 DEF TypeOK
  <1>4. Token' /\ Asked'
    BY <1>1 DEF Token, Asked, AskedFor
  <1>5. VoidPlugged \notin live'
    BY VoidIsNoInstance DEF TypeOK
  <1>6. Instances'
    BY <1>1, <1>5 DEF Instances
  <1>7. QED
    BY <1>3, <1>4, <1>6

LEMMA InvPostUnplugThrows == ASSUME Inv, PostUnplugThrows PROVE Inv'
  BY NoneLeft, InvRecover DEF PostUnplugThrows

LEMMA InvCrash == ASSUME Inv, Crash PROVE Inv'
  BY InvRecover DEF Crash

LEMMA InvStutter == ASSUME Inv, UNCHANGED vars PROVE Inv'
  <1> USE DEF vars, stateVars, pluggedVars, instanceVars, mailVars, clientVars
  <1>1. TypeOK'
    BY DEF Inv, TypeOK
  <1>2. Token' /\ Asked'
    BY DEF Inv, Token, Asked, AskedFor
  <1>3. Instances'
    BY DEF Inv, Instances
  <1>4. QED
    BY <1>1, <1>2, <1>3 DEF Inv

LEMMA InvStep == Inv /\ [Next]_vars => Inv'
  <1> SUFFICES ASSUME Inv, [Next]_vars PROVE Inv'
    OBVIOUS
  <1>1. ASSUME NEW c \in Clients, Send(c) \/ Stash(c) \/ Persist(c) \/ Answer(c) PROVE Inv'
    BY <1>1, InvSend, InvStash, InvPersist, InvAnswer
  <1>2. CASE Store \/ DoPlugging
    BY <1>2, InvStore, InvDoPlugging
  <1>3. CASE PreUnplug \/ CallPlug \/ Plugged \/ JobFails
    BY <1>3, InvPreUnplug, InvCallPlug, InvPlugged, InvJobFails
  <1>4. CASE Complete \/ PostUnplugThrows \/ Crash
    BY <1>4, InvComplete, InvPostUnplugThrows, InvCrash
  <1>5. CASE UNCHANGED vars
    BY <1>5, InvStutter
  <1>6. QED
    BY <1>1, <1>2, <1>3, <1>4, <1>5 DEF Next

LEMMA Invariance == Spec => []Inv
  <1>1. Init => Inv
    BY InvInit
  <1>2. Inv /\ [Next]_vars => Inv'
    BY InvStep
  <1>3. QED
    BY <1>1, <1>2, PTL DEF Spec

-----------------------------------------------------------------------------
(* The theorems                                                             *)

\* Every variable keeps its type.
THEOREM TypeCorrect == Spec => []TypeOK
  <1>1. Inv => TypeOK
    BY DEF Inv
  <1>2. QED
    BY <1>1, Invariance, PTL

\* What GetPlugged hands out while nothing is plugging is what was last asked
\* for, and it has not been told to unplug.
THEOREM Serves == Spec => []ServedIsCurrent
  <1>1. Inv => ServedIsCurrent
    BY DEF Inv, Asked, Instances, ServedIsCurrent
  <1>2. QED
    BY <1>1, Invariance, PTL

\* At most one instance is live that a restart has not forgotten, and none
\* while the old code unplugs and the new code is plugged.
THEOREM OneAtATime == Spec => []OneLive
  <1>1. Inv => OneLive
    <2> SUFFICES ASSUME Inv PROVE OneLive
      OBVIOUS
    <2>1. PICK i : live \ forgotten \subseteq {i}
      BY DEF Inv, Instances
    <2>2. IsFiniteSet({i}) /\ Cardinality({i}) = 1
      BY FS_Singleton
    <2>3. IsFiniteSet(live \ forgotten) /\ Cardinality(live \ forgotten) =< 1
      BY <2>1, <2>2, FS_Subset
    <2>4. QED
      BY <2>3 DEF Inv, Instances, OneLive
  <1>2. QED
    BY <1>1, Invariance, PTL

\* The part of AckedIsServed about one step.
AckedByStep ==
  \A c \in acked' \ acked :
    /\ plugged'.request = Asks[c].request
    /\ journal' = Asks[c].request

LEMMA StepServesAcked == Inv /\ [Next]_vars => AckedByStep
  <1> SUFFICES ASSUME Inv, [Next]_vars, NEW c \in acked' \ acked
               PROVE  plugged'.request = Asks[c].request /\ journal' = Asks[c].request
    BY DEF AckedByStep
  <1>1. CASE Complete
    <2>1. /\ Head(mailbox) = mailbox[1] /\ 1 \in DOMAIN mailbox /\ IsComplete(Head(mailbox))
          /\ journal = request
      BY <1>1, AtCompletion DEF Complete
    <2>2. c = Head(mailbox).replyTo /\ c # None
      BY <1>1 DEF Complete, Acknowledge
    <2>3. Head(mailbox).plugged.request = request /\ Asks[c].request = request
      BY <2>1, <2>2 DEF Inv, Asked, AskedFor
    <2>4. QED
      BY <1>1, <2>1, <2>3 DEF Complete, stateVars
  <1>2. CASE UNCHANGED acked
    BY <1>2
  <1>3. QED
    BY <1>1, <1>2 DEF Next, vars, clientVars, Send, Stash, Persist, Answer, Store, DoPlugging, PreUnplug,
         CallPlug, Plugged, JobFails, PostUnplugThrows, Crash, Recover

\* Whoever is told Done has its request persisted and its code plugged.
THEOREM Acknowledgements == Spec => AckedIsServed
  <1>1. Inv /\ [Next]_vars => [AckedByStep]_vars
    BY StepServesAcked
  <1>2. QED
    BY <1>1, Invariance, PTL DEF Spec, AckedIsServed, AckedByStep

(* The order of arrival                                                     *)

\* A client sends once.
Distinct == \A i, j \in DOMAIN arrived : arrived[i] = arrived[j] => i = j

\* The requests that arrived before the i-th message.
Before(i) == {j \in 1 .. i - 1 : Asks[arrived[j]].type = "Evt"}

\* Where the p-th message of the mailbox, whose q-th is the result of a job (0:
\* none), comes among those of clients.
Place(p, q) == IF q = 0 \/ p < q THEN p ELSE p - 1

\* The first k messages that arrived have been taken; the others are put aside
\* or in the mailbox, in the order in which they arrived.
Waiting(k, q) ==
  /\ \A p \in DOMAIN mailbox : IsComplete(mailbox[p]) <=> p = q
  /\ Len(arrived) = k + Len(stash) + Place(Len(mailbox), q)
  /\ \A p \in DOMAIN stash : stash[p] = From(arrived[k + p])
  /\ \A p \in DOMAIN mailbox :
       p # q => mailbox[p] = From(arrived[k + Len(stash) + Place(p, q)])

\* Of these k, the last request is the current one, or is being persisted.
Current(k) ==
  IF persisting # None THEN k > 0 /\ arrived[k] = persisting
  ELSE Before(k + 1) # {} => request = LastRequest(k + 1)

\* Every question among them was answered with the last request before it.
Answered(k) ==
  \A c \in Clients : answers[c] # None =>
    \E i \in 1 .. k : arrived[i] = c /\ (Before(i) # {} => answers[c] = LastRequest(i))

Ordered(k, q) == Waiting(k, q) /\ Current(k) /\ Answered(k)

Order ==
  restarts = 0 =>
    /\ Distinct
    /\ \E k \in 0 .. Len(arrived), q \in 0 .. Len(mailbox) : Ordered(k, q)

LEMMA Types ==
  ASSUME Inv
  PROVE  /\ arrived \in Seq(Clients) /\ Len(arrived) \in Nat
         /\ mailbox \in Seq(Message) /\ Len(mailbox) \in Nat
         /\ stash \in Seq([type : {"client"}, client : Clients]) /\ Len(stash) \in Nat
         /\ answers \in [Clients -> Request \cup {None}]
         /\ restarts \in Nat
  BY DEF Inv, TypeOK

\* The least-number principle, and its mirror below a bound.
LEMMA Least ==
  ASSUME NEW T, T \subseteq Nat, T # {}
  PROVE  \E m \in T : \A y \in T : ~(y < m)
  <1>1. PICK m \in T : \A y \in T : ~(<<y, m>> \in OpToRel(<, Nat))
    BY WFMin, NatLessThanWellFounded, Zenon
  <1>2. QED
    BY <1>1, Zenon DEF OpToRel

LEMMA Greatest ==
  ASSUME NEW n \in Nat, NEW T, T \subseteq 1 .. n, T # {}
  PROVE  \E j \in T : \A k \in T : k =< j
  <1> DEFINE U == {m \in Nat : n - m \in T}
  <1>1. U \subseteq Nat /\ U # {}
    <2>1. PICK t : t \in T
      OBVIOUS
    <2>2. n - t \in Nat /\ n - (n - t) = t
      BY <2>1
    <2>3. n - t \in U
      BY <2>1, <2>2
    <2>4. QED
      BY <2>3
  <1>2. PICK m \in U : \A y \in U : ~(y < m)
    BY <1>1, Least, Zenon
  <1>3. n - m \in T /\ m \in Nat
    BY <1>2
  <1>4. ASSUME NEW k \in T PROVE k =< n - m
    <2>1. n - k \in Nat /\ n - (n - k) = k
      OBVIOUS
    <2>2. n - k \in U
      BY <2>1
    <2>3. ~(n - k < m)
      BY <1>2, <2>2
    <2>4. QED
      BY <1>3, <2>1, <2>3
  <1>5. QED
    BY <1>3, <1>4

\* The last request before a message is one of those before it.
LEMMA LastIsBefore ==
  ASSUME NEW i \in Nat, Before(i) # {}
  PROVE  \E j \in Before(i) : (\A k \in Before(i) : k =< j) /\ LastRequest(i) = Asks[arrived[j]].request
  <1>1. Before(i) \subseteq 1 .. i - 1 /\ i - 1 \in Nat
    BY DEF Before
  <1>2. \E j \in Before(i) : \A k \in Before(i) : k =< j
    BY <1>1, Greatest
  <1> DEFINE last == CHOOSE j \in Before(i) : \A k \in Before(i) : k =< j
  <1>3. last \in Before(i) /\ \A k \in Before(i) : k =< last
    BY <1>2
  <1>4. LastRequest(i) = Asks[arrived[last]].request
    BY DEF LastRequest, Before
  <1>5. QED
    BY <1>3, <1>4

\* A message arrives, or none.
Grows == arrived' = arrived \/ \E c \in Clients : arrived' = Append(arrived, c)

\* Requests before a message stay the same when others arrive.
LEMMA SameBefore ==
  ASSUME Inv, Grows, NEW i \in 1 .. Len(arrived) + 1
  PROVE  /\ Before(i)' = Before(i)
         /\ Before(i) # {} => LastRequest(i)' = LastRequest(i)
  <1>1. arrived \in Seq(Clients) /\ Len(arrived) \in Nat
    BY Types
  <1>2. \A j \in 1 .. i - 1 : arrived'[j] = arrived[j]
    BY <1>1 DEF Grows
  <1>3. Before(i)' = Before(i)
    BY <1>2 DEF Before
  <1>4. ASSUME Before(i) # {} PROVE LastRequest(i)' = LastRequest(i)
    <2> DEFINE last == CHOOSE j \in Before(i) : \A k \in Before(i) : k =< j
    <2>1. PICK g \in Before(i) : \A k \in Before(i) : k =< g
      BY <1>4, LastIsBefore
    <2>2. last \in Before(i)
      BY <2>1
    <2>3. LastRequest(i) = Asks[arrived[last]].request
      BY DEF LastRequest, Before
    <2>4. LastRequest(i)' = Asks[arrived'[last]].request
      BY <1>3 DEF LastRequest, Before
    <2>5. last \in 1 .. i - 1
      BY <2>2 DEF Before
    <2>6. QED
      BY <1>2, <2>3, <2>4, <2>5
  <1>5. QED
    BY <1>3, <1>4

\* A request that arrives is the last one before the next message; a question
\* changes nothing.
LEMMA OneMore ==
  ASSUME Inv, NEW k \in Nat, k < Len(arrived)
  PROVE  /\ Asks[arrived[k + 1]].type = "Evt" =>
              /\ k + 1 \in Before(k + 2)
              /\ LastRequest(k + 2) = Asks[arrived[k + 1]].request
         /\ Asks[arrived[k + 1]].type # "Evt" =>
              Before(k + 2) = Before(k + 1) /\ LastRequest(k + 2) = LastRequest(k + 1)
  <1>1. Before(k + 2) = Before(k + 1) \cup {j \in {k + 1} : Asks[arrived[j]].type = "Evt"}
    BY DEF Before
  <1>2. ASSUME Asks[arrived[k + 1]].type = "Evt"
        PROVE  /\ k + 1 \in Before(k + 2)
               /\ LastRequest(k + 2) = Asks[arrived[k + 1]].request
    <2>1. k + 1 \in Before(k + 2)
      BY <1>1, <1>2
    <2>2. PICK j \in Before(k + 2) : /\ \A l \in Before(k + 2) : l =< j
                                     /\ LastRequest(k + 2) = Asks[arrived[j]].request
      BY <2>1, LastIsBefore
    <2>3. k + 1 =< j /\ j \in 1 .. k + 1
      BY <2>1, <2>2 DEF Before
    <2>4. j = k + 1
      BY <2>3
    <2>5. QED
      BY <2>1, <2>2, <2>4
  <1>3. ASSUME Asks[arrived[k + 1]].type # "Evt"
        PROVE  Before(k + 2) = Before(k + 1) /\ LastRequest(k + 2) = LastRequest(k + 1)
    <2>1. Before(k + 2) = Before(k + 1)
      BY <1>1, <1>3
    <2>2. /\ LastRequest(k + 2) = Asks[arrived[CHOOSE j \in Before(k + 2) : \A l \in Before(k + 2) : l =< j]].request
          /\ LastRequest(k + 1) = Asks[arrived[CHOOSE j \in Before(k + 1) : \A l \in Before(k + 1) : l =< j]].request
      BY DEF LastRequest, Before
    <2>3. QED
      BY <2>1, <2>2
  <1>4. QED
    BY <1>2, <1>3

\* What a step leaves alone stays in order.
LEMMA SameAnswered ==
  ASSUME Inv, Grows, NEW k \in 0 .. Len(arrived), answers' = answers, Answered(k)
  PROVE  Answered(k)'
  <1>1. arrived \in Seq(Clients) /\ Len(arrived) \in Nat
    BY Types
  <1> SUFFICES ASSUME NEW d \in Clients, answers'[d] # None
               PROVE  \E i \in 1 .. k : /\ arrived'[i] = d
                                        /\ Before(i)' # {} => answers'[d] = LastRequest(i)'
    BY DEF Answered
  <1>2. PICK i \in 1 .. k : arrived[i] = d /\ (Before(i) # {} => answers[d] = LastRequest(i))
    BY DEF Answered
  <1>3. i \in 1 .. Len(arrived) + 1 /\ arrived'[i] = arrived[i]
    BY <1>1 DEF Grows
  <1>4. Before(i)' = Before(i) /\ (Before(i) # {} => LastRequest(i)' = LastRequest(i))
    BY <1>3, SameBefore
  <1>5. QED
    BY <1>2, <1>3, <1>4

LEMMA SameCurrent ==
  ASSUME Inv, Grows, NEW k \in 0 .. Len(arrived),
         persisting' = persisting, request' = request, Current(k)
  PROVE  Current(k)'
  <1>1. arrived \in Seq(Clients) /\ Len(arrived) \in Nat
    BY Types
  <1>2. Before(k + 1)' = Before(k + 1) /\ (Before(k + 1) # {} => LastRequest(k + 1)' = LastRequest(k + 1))
    BY <1>1, SameBefore
  <1>3. k > 0 => arrived'[k] = arrived[k]
    BY <1>1 DEF Grows
  <1>4. QED
    BY <1>2, <1>3 DEF Current

LEMMA OrderInit == Init => Order
  <1> SUFFICES ASSUME Init PROVE Order
    OBVIOUS
  <1> USE DEF Init
  <1>1. arrived = << >> /\ mailbox = << >> /\ stash = << >>
    OBVIOUS
  <1>2. Waiting(0, 0)
    BY <1>1 DEF Waiting, Place
  <1>3. Current(0) /\ Answered(0)
    BY DEF Current, Answered, Before
  <1>4. Distinct
    BY <1>1 DEF Distinct
  <1>5. 0 \in 0 .. Len(arrived) /\ 0 \in 0 .. Len(mailbox)
    BY <1>1
  <1>6. QED
    BY <1>2, <1>3, <1>4, <1>5 DEF Order, Ordered

\* A step that keeps the messages, what is persisted and what was asked for.
LEMMA OrderSame ==
  ASSUME Inv, Order, restarts' = restarts,
         UNCHANGED <<arrived, mailbox, stash, persisting, request, answers>>
  PROVE  Order'
  <1> SUFFICES ASSUME restarts = 0
               PROVE  Distinct' /\ \E k \in 0 .. Len(arrived'), q \in 0 .. Len(mailbox') : Ordered(k, q)'
    BY DEF Order
  <1>1. Grows
    BY DEF Grows
  <1>2. PICK k \in 0 .. Len(arrived), q \in 0 .. Len(mailbox) : Ordered(k, q)
    BY DEF Order
  <1>3. Current(k)' /\ Answered(k)'
    BY <1>1, <1>2, SameCurrent, SameAnswered DEF Ordered
  <1>4. Waiting(k, q)'
    BY <1>2 DEF Ordered, Waiting
  <1>5. Distinct'
    BY DEF Order, Distinct
  <1>6. QED
    BY <1>2, <1>3, <1>4, <1>5 DEF Ordered

LEMMA OrderDoPlugging == ASSUME Inv, Order, DoPlugging PROVE Order'
  <1> USE DEF DoPlugging, instanceVars, mailVars, clientVars
  <1> SUFFICES ASSUME restarts = 0
               PROVE  Distinct' /\ \E k \in 0 .. Len(arrived'), q \in 0 .. Len(mailbox') : Ordered(k, q)'
    BY DEF Order
  <1>1. Grows
    BY DEF Grows
  <1>2. PICK k \in 0 .. Len(arrived), q \in 0 .. Len(mailbox) : Ordered(k, q)
    BY DEF Order
  <1>3. Answered(k)'
    BY <1>1, <1>2, SameAnswered DEF Ordered
  <1>4. Current(k)'
    <2>1. arrived \in Seq(Clients) /\ Len(arrived) \in Nat
      BY Types
    <2>2. persisting # None /\ Asks[persisting].type = "Evt"
      BY DEF Inv, Token
    <2>3. k > 0 /\ arrived[k] = persisting
      BY <1>2, <2>2 DEF Ordered, Current
    <2>4. k - 1 \in Nat /\ k - 1 < Len(arrived) /\ (k - 1) + 1 = k /\ (k - 1) + 2 = k + 1
      BY <2>1, <2>3
    <2>5. k \in Before(k + 1) /\ LastRequest(k + 1) = Asks[arrived[k]].request
      BY <2>2, <2>3, <2>4, OneMore
    <2>6. LastRequest(k + 1)' = LastRequest(k + 1)
      BY <1>1, <2>1, <2>5, SameBefore
    <2>7. persisting' = None /\ request' = Asks[persisting].request
      OBVIOUS
    <2>8. QED
      BY <2>3, <2>5, <2>6, <2>7 DEF Current
  <1>5. Waiting(k, q)'
    BY <1>2 DEF Ordered, Waiting
  <1>6. Distinct'
    BY DEF Order, Distinct
  <1>7. QED
    BY <1>2, <1>3, <1>4, <1>5, <1>6 DEF Ordered

\* Places are consecutive, but for that of a result.
LEMMA Places ==
  ASSUME NEW n \in Nat, NEW q \in 0 .. n
  PROVE  /\ Place(n, q) \in Nat
         /\ Place(n + 1, q) = Place(n, q) + 1
         /\ \A p \in 1 .. n : p # q => Place(p, q) \in 1 .. Place(n, q)
  BY DEF Place

\* What waits is what has arrived and was not taken.
LEMMA InPlace ==
  ASSUME Inv, NEW k \in 0 .. Len(arrived), NEW q \in 0 .. Len(mailbox), Waiting(k, q)
  PROVE  /\ DOMAIN mailbox = 1 .. Len(mailbox) /\ DOMAIN stash = 1 .. Len(stash)
         /\ DOMAIN arrived = 1 .. Len(arrived)
         /\ \A p \in 1 .. Len(stash) : k + p \in 1 .. Len(arrived)
         /\ \A p \in 1 .. Len(mailbox) :
              p # q => k + Len(stash) + Place(p, q) \in 1 .. Len(arrived)
  <1>1. /\ Len(arrived) \in Nat /\ Len(mailbox) \in Nat /\ Len(stash) \in Nat
        /\ DOMAIN mailbox = 1 .. Len(mailbox) /\ DOMAIN stash = 1 .. Len(stash)
        /\ DOMAIN arrived = 1 .. Len(arrived)
    BY Types
  <1>2. /\ Place(Len(mailbox), q) \in Nat
        /\ \A p \in 1 .. Len(mailbox) : p # q => Place(p, q) \in 1 .. Place(Len(mailbox), q)
    BY <1>1, Places
  <1>3. Len(arrived) = k + Len(stash) + Place(Len(mailbox), q)
    BY DEF Waiting
  <1>4. ASSUME NEW p \in 1 .. Len(mailbox), p # q
        PROVE  k + Len(stash) + Place(p, q) \in 1 .. Len(arrived)
    <2>1. Place(p, q) \in 1 .. Place(Len(mailbox), q)
      BY <1>2, <1>4
    <2>2. QED
      BY <1>1, <1>2, <1>3, <2>1
  <1>5. \A p \in 1 .. Len(stash) : k + p \in 1 .. Len(arrived)
    BY <1>1, <1>2, <1>3
  <1>6. QED
    BY <1>1, <1>4, <1>5

LEMMA OrderSend == ASSUME Inv, Order, NEW c \in Clients, Send(c) PROVE Order'
  <1>s. /\ arrived' = Append(arrived, c) /\ mailbox' = Append(mailbox, From(c))
        /\ \A i \in DOMAIN arrived : arrived[i] # c
        /\ stash' = stash /\ persisting' = persisting /\ request' = request
        /\ answers' = answers /\ restarts' = restarts
    BY DEF Send, stateVars
  <1> SUFFICES ASSUME restarts = 0
               PROVE  Distinct' /\ \E k \in 0 .. Len(arrived'), q \in 0 .. Len(mailbox') : Ordered(k, q)'
    BY <1>s DEF Order
  <1>1. Grows
    BY <1>s DEF Grows
  <1>2. PICK k \in 0 .. Len(arrived), q \in 0 .. Len(mailbox) : Ordered(k, q)
    BY DEF Order
  <1>3. Current(k)' /\ Answered(k)'
    BY <1>s, <1>1, <1>2, SameCurrent, SameAnswered DEF Ordered
  <1>4. /\ arrived \in Seq(Clients) /\ mailbox \in Seq(Message)
        /\ Len(arrived) \in Nat /\ Len(mailbox) \in Nat /\ Len(stash) \in Nat
        /\ From(c) \in Message /\ ~IsComplete(From(c))
    BY Types, ClientMessage
  <1>5. /\ Len(mailbox') = Len(mailbox) + 1
        /\ mailbox'[Len(mailbox) + 1] = From(c)
        /\ \A p \in DOMAIN mailbox' : p = Len(mailbox) + 1 \/ (p \in DOMAIN mailbox /\ mailbox'[p] = mailbox[p])
    BY <1>s, <1>4, Pushed
  <1>6. /\ Len(arrived') = Len(arrived) + 1
        /\ arrived'[Len(arrived) + 1] = c
        /\ \A i \in DOMAIN arrived' : i = Len(arrived) + 1 \/ (i \in DOMAIN arrived /\ arrived'[i] = arrived[i])
        /\ \A i \in 1 .. Len(arrived) : arrived'[i] = arrived[i]
    BY <1>s, <1>4, Pushed
  <1>7. Waiting(k, q)'
    <2>1. Waiting(k, q)
      BY <1>2 DEF Ordered
    <2>2. /\ DOMAIN mailbox = 1 .. Len(mailbox) /\ DOMAIN stash = 1 .. Len(stash)
          /\ \A p \in 1 .. Len(stash) : k + p \in 1 .. Len(arrived)
          /\ \A p \in 1 .. Len(mailbox) :
               p # q => k + Len(stash) + Place(p, q) \in 1 .. Len(arrived)
      BY <1>2, <2>1, InPlace
    <2>3. Place(Len(mailbox), q) \in Nat /\ Place(Len(mailbox) + 1, q) = Place(Len(mailbox), q) + 1
      BY <1>2, <1>4, Places
    <2>4. Len(arrived) = k + Len(stash) + Place(Len(mailbox), q)
      BY <2>1 DEF Waiting
    <2>5. Len(arrived') = k + Len(stash) + Place(Len(mailbox'), q)
      BY <1>2, <1>4, <1>5, <1>6, <2>3, <2>4
    <2>6. \A p \in DOMAIN mailbox' : IsComplete(mailbox'[p]) <=> p = q
      BY <1>2, <1>4, <1>5, <2>1 DEF Waiting
    <2>7. \A p \in DOMAIN stash : stash[p] = From(arrived'[k + p])
      BY <1>6, <2>1, <2>2 DEF Waiting
    <2>8. ASSUME NEW p \in DOMAIN mailbox', p # q
          PROVE  mailbox'[p] = From(arrived'[k + Len(stash) + Place(p, q)])
      <3>1. CASE p = Len(mailbox) + 1
        <4>1. k + Len(stash) + Place(p, q) = Len(arrived) + 1
          BY <1>2, <1>4, <2>3, <2>4, <3>1
        <4>2. QED
          BY <1>5, <1>6, <3>1, <4>1
      <3>2. CASE p \in DOMAIN mailbox /\ mailbox'[p] = mailbox[p]
        <4>1. k + Len(stash) + Place(p, q) \in 1 .. Len(arrived)
          BY <2>2, <2>8, <3>2
        <4>2. mailbox[p] = From(arrived[k + Len(stash) + Place(p, q)])
          BY <2>1, <2>8, <3>2 DEF Waiting
        <4>3. QED
          BY <1>6, <3>2, <4>1, <4>2
      <3>3. QED
        BY <1>5, <3>1, <3>2
    <2>9. QED
      BY <1>s, <2>5, <2>6, <2>7, <2>8 DEF Waiting
  <1>8. Distinct'
    <2>1. \A i, j \in DOMAIN arrived : arrived[i] = arrived[j] => i = j
      BY DEF Order, Distinct
    <2>2. QED
      BY <1>s, <1>6, <2>1 DEF Distinct
  <1>9. k \in 0 .. Len(arrived') /\ q \in 0 .. Len(mailbox')
    BY <1>2, <1>4, <1>5, <1>6
  <1>10. QED
    BY <1>3, <1>7, <1>8, <1>9 DEF Ordered

\* Where a result is when the head of the mailbox is gone.
Moved(q) == IF q = 0 THEN 0 ELSE q - 1

LEMMA PlacesMove ==
  ASSUME NEW n \in Nat \ {0}, NEW q \in 0 .. n, q # 1
  PROVE  /\ Moved(q) \in 0 .. n - 1
         /\ Place(n, q) = Place(n - 1, Moved(q)) + 1
         /\ Place(1, q) = 1
         /\ \A p \in 1 .. n - 1 :
              /\ p = Moved(q) <=> p + 1 = q
              /\ p # Moved(q) => Place(p + 1, q) = Place(p, Moved(q)) + 1
  BY DEF Moved, Place

\* The head, a client's message, is put aside, or is taken while nothing else
\* is put aside.
LEMMA HeadGone ==
  ASSUME Inv, NEW k \in 0 .. Len(arrived), NEW q \in 0 .. Len(mailbox), Waiting(k, q),
         NEW c \in Clients, mailbox # << >>, Head(mailbox) = From(c),
         mailbox' = Tail(mailbox), arrived' = arrived, NEW l,
         \/ stash' = Append(stash, From(c)) /\ l = k
         \/ stash = << >> /\ stash' = stash /\ l = k + 1
  PROVE  /\ Waiting(l, Moved(q))'
         /\ l \in 0 .. Len(arrived') /\ Moved(q) \in 0 .. Len(mailbox')
         /\ k + Len(stash) + 1 \in 1 .. Len(arrived) /\ arrived[k + Len(stash) + 1] = c
  <1>1. /\ arrived \in Seq(Clients) /\ mailbox \in Seq(Message)
        /\ stash \in Seq([type : {"client"}, client : Clients])
        /\ Len(arrived) \in Nat /\ Len(mailbox) \in Nat /\ Len(stash) \in Nat
        /\ From(c) \in [type : {"client"}, client : Clients] /\ ~IsComplete(From(c))
    BY Types, ClientMessage
  <1>2. /\ Head(mailbox) = mailbox[1] /\ 1 \in DOMAIN mailbox
        /\ Len(mailbox') = Len(mailbox) - 1
        /\ \A p \in DOMAIN mailbox' : p + 1 \in DOMAIN mailbox /\ mailbox'[p] = mailbox[p + 1] /\ p \in Nat
    BY <1>1, Popped
  <1>3. /\ DOMAIN mailbox = 1 .. Len(mailbox) /\ DOMAIN stash = 1 .. Len(stash)
        /\ \A p \in 1 .. Len(stash) : k + p \in 1 .. Len(arrived)
        /\ \A p \in 1 .. Len(mailbox) :
             p # q => k + Len(stash) + Place(p, q) \in 1 .. Len(arrived)
    BY InPlace
  <1>4. q # 1 /\ Len(mailbox) \in Nat \ {0}
    <2>1. ~IsComplete(mailbox[1])
      BY <1>1, <1>2
    <2>2. q # 1
      BY <1>2, <2>1 DEF Waiting
    <2>3. QED
      BY <1>1, <1>2, <1>3, <2>2
  <1>5. /\ Moved(q) \in 0 .. Len(mailbox) - 1
        /\ Place(Len(mailbox), q) = Place(Len(mailbox) - 1, Moved(q)) + 1
        /\ Place(1, q) = 1
        /\ \A p \in 1 .. Len(mailbox) - 1 :
             /\ p = Moved(q) <=> p + 1 = q
             /\ p # Moved(q) => Place(p + 1, q) = Place(p, Moved(q)) + 1
    BY <1>4, PlacesMove
  <1>6. k + Len(stash) + 1 \in 1 .. Len(arrived) /\ arrived[k + Len(stash) + 1] = c
    <2>1. k + Len(stash) + 1 \in 1 .. Len(arrived)
      BY <1>2, <1>3, <1>4, <1>5
    <2>2. From(c) = From(arrived[k + Len(stash) + 1])
      BY <1>2, <1>4, <1>5 DEF Waiting
    <2>3. arrived[k + Len(stash) + 1] \in Clients
      BY <1>1, <2>1
    <2>4. QED
      BY <2>1, <2>2, <2>3, ClientMessage
  <1>7. DOMAIN mailbox' = 1 .. Len(mailbox) - 1
    BY <1>1, <1>2
  <1>8. /\ l + Len(stash') = k + Len(stash) + 1
        /\ l \in 0 .. Len(arrived')
        /\ \A p \in DOMAIN stash' : stash'[p] = From(arrived'[l + p])
    <2>1. CASE stash' = Append(stash, From(c)) /\ l = k
      <3>1. /\ Len(stash') = Len(stash) + 1 /\ stash'[Len(stash) + 1] = From(c)
            /\ \A p \in DOMAIN stash' : p = Len(stash) + 1 \/ (p \in DOMAIN stash /\ stash'[p] = stash[p])
        BY <1>1, <2>1, Pushed
      <3>2. ASSUME NEW p \in DOMAIN stash' PROVE stash'[p] = From(arrived'[l + p])
        <4>1. CASE p = Len(stash) + 1
          BY <1>1, <1>6, <2>1, <3>1, <4>1
        <4>2. CASE p \in DOMAIN stash /\ stash'[p] = stash[p]
          BY <2>1, <4>2 DEF Waiting
        <4>3. QED
          BY <3>1, <4>1, <4>2
      <3>3. QED
        BY <1>1, <2>1, <3>1, <3>2
    <2>2. CASE stash = << >> /\ stash' = stash /\ l = k + 1
      BY <1>1, <1>6, <2>2
    <2>3. QED
      BY <2>1, <2>2
  <1>9. \A p \in DOMAIN mailbox' : IsComplete(mailbox'[p]) <=> p = Moved(q)
    BY <1>2, <1>5, <1>7 DEF Waiting
  <1>10. Len(arrived') = l + Len(stash') + Place(Len(mailbox'), Moved(q))
    <2>1. Len(arrived) = k + Len(stash) + Place(Len(mailbox), q)
      BY DEF Waiting
    <2>2. Place(Len(mailbox) - 1, Moved(q)) \in Nat
      <3>1. Len(mailbox) - 1 \in Nat
        BY <1>4
      <3>2. QED
        BY <1>5, <3>1, Places
    <2>3. QED
      BY <1>1, <1>2, <1>5, <1>8, <2>1, <2>2
  <1>11. ASSUME NEW p \in DOMAIN mailbox', p # Moved(q)
         PROVE  mailbox'[p] = From(arrived'[l + Len(stash') + Place(p, Moved(q))])
    <2>1. mailbox'[p] = mailbox[p + 1] /\ p + 1 \in DOMAIN mailbox
      BY <1>2
    <2>2. p + 1 # q /\ Place(p + 1, q) = Place(p, Moved(q)) + 1
      BY <1>5, <1>7, <1>11
    <2>3. mailbox[p + 1] = From(arrived[k + Len(stash) + Place(p + 1, q)])
      BY <2>1, <2>2 DEF Waiting
    <2>4. Place(p, Moved(q)) \in Int
      BY <1>5, <1>7 DEF Place
    <2>5. k + Len(stash) + Place(p + 1, q) = l + Len(stash') + Place(p, Moved(q))
      BY <1>1, <1>8, <2>2, <2>4
    <2>6. QED
      BY <2>1, <2>3, <2>5
  <1>12. QED
    BY <1>2, <1>5, <1>6, <1>8, <1>9, <1>10, <1>11 DEF Waiting

LEMMA OrderStash == ASSUME Inv, Order, NEW c \in Clients, Stash(c) PROVE Order'
  <1>s. /\ mailbox # << >> /\ Head(mailbox) = From(c) /\ mailbox' = Tail(mailbox)
        /\ stash' = Append(stash, From(c))
        /\ arrived' = arrived /\ persisting' = persisting /\ request' = request
        /\ answers' = answers /\ restarts' = restarts
    BY DEF Stash, Next1, stateVars, clientVars
  <1> SUFFICES ASSUME restarts = 0
               PROVE  Distinct' /\ \E k \in 0 .. Len(arrived'), q \in 0 .. Len(mailbox') : Ordered(k, q)'
    BY <1>s DEF Order
  <1>1. Grows
    BY <1>s DEF Grows
  <1>2. PICK k \in 0 .. Len(arrived), q \in 0 .. Len(mailbox) : Ordered(k, q)
    BY DEF Order
  <1>3. Current(k)' /\ Answered(k)'
    BY <1>s, <1>1, <1>2, SameCurrent, SameAnswered DEF Ordered
  <1>4. Waiting(k, Moved(q))' /\ k \in 0 .. Len(arrived') /\ Moved(q) \in 0 .. Len(mailbox')
    BY <1>s, <1>2, HeadGone DEF Ordered
  <1>5. Distinct'
    BY <1>s DEF Order, Distinct
  <1>6. QED
    BY <1>3, <1>4, <1>5 DEF Ordered

LEMMA OrderPersist == ASSUME Inv, Order, NEW c \in Clients, Persist(c) PROVE Order'
  <1>s. /\ mailbox # << >> /\ Head(mailbox) = From(c) /\ mailbox' = Tail(mailbox)
        /\ stash = << >> /\ stash' = stash /\ persisting' = c
        /\ arrived' = arrived /\ answers' = answers /\ restarts' = restarts
    BY DEF Persist, Next1, clientVars, Inv, Token
  <1> SUFFICES ASSUME restarts = 0
               PROVE  Distinct' /\ \E k \in 0 .. Len(arrived'), q \in 0 .. Len(mailbox') : Ordered(k, q)'
    BY <1>s DEF Order
  <1>1. Grows
    BY <1>s DEF Grows
  <1>2. PICK k \in 0 .. Len(arrived), q \in 0 .. Len(mailbox) : Ordered(k, q)
    BY DEF Order
  <1>3. PICK l : l = k + 1
    OBVIOUS
  <1>4. /\ Waiting(l, Moved(q))' /\ l \in 0 .. Len(arrived') /\ Moved(q) \in 0 .. Len(mailbox')
        /\ arrived[l] = c /\ l \in 1 .. Len(arrived)
    <2>1. /\ Waiting(l, Moved(q))' /\ l \in 0 .. Len(arrived') /\ Moved(q) \in 0 .. Len(mailbox')
          /\ k + Len(stash) + 1 \in 1 .. Len(arrived) /\ arrived[k + Len(stash) + 1] = c
      BY <1>s, <1>2, <1>3, HeadGone DEF Ordered
    <2>2. k + Len(stash) + 1 = l
      BY <1>s, <1>3
    <2>3. QED
      BY <2>1, <2>2
  <1>5. Current(l)'
    BY <1>s, <1>4 DEF Current
  <1>6. Answered(k)'
    BY <1>s, <1>1, <1>2, SameAnswered DEF Ordered
  <1>7. Answered(l)'
    BY <1>3, <1>6 DEF Answered
  <1>8. Distinct'
    BY <1>s DEF Order, Distinct
  <1>9. QED
    BY <1>4, <1>5, <1>7, <1>8 DEF Ordered

LEMMA OrderAnswer == ASSUME Inv, Order, NEW c \in Clients, Answer(c) PROVE Order'
  <1>s. /\ mailbox # << >> /\ Head(mailbox) = From(c) /\ mailbox' = Tail(mailbox)
        /\ stash = << >> /\ stash' = stash /\ persisting = None /\ persisting' = persisting
        /\ request' = request /\ arrived' = arrived /\ restarts' = restarts
        /\ answers' = [answers EXCEPT ![c] = plugged.request]
        /\ plugged.request = request /\ Asks[c].type = "GetPlugged"
    BY DEF Answer, Next1, stateVars, Inv, Token, Asked
  <1> SUFFICES ASSUME restarts = 0
               PROVE  Distinct' /\ \E k \in 0 .. Len(arrived'), q \in 0 .. Len(mailbox') : Ordered(k, q)'
    BY <1>s DEF Order
  <1>1. Grows
    BY <1>s DEF Grows
  <1>2. PICK k \in 0 .. Len(arrived), q \in 0 .. Len(mailbox) : Ordered(k, q)
    BY DEF Order
  <1>3. PICK l : l = k + 1
    OBVIOUS
  <1>4. /\ Waiting(l, Moved(q))' /\ l \in 0 .. Len(arrived') /\ Moved(q) \in 0 .. Len(mailbox')
        /\ arrived[l] = c /\ l \in 1 .. Len(arrived)
    <2>1. /\ Waiting(l, Moved(q))' /\ l \in 0 .. Len(arrived') /\ Moved(q) \in 0 .. Len(mailbox')
          /\ k + Len(stash) + 1 \in 1 .. Len(arrived) /\ arrived[k + Len(stash) + 1] = c
      BY <1>s, <1>2, <1>3, HeadGone DEF Ordered
    <2>2. k + Len(stash) + 1 = l
      BY <1>s, <1>3
    <2>3. QED
      BY <2>1, <2>2
  <1>5. /\ Len(arrived) \in Nat /\ answers \in [Clients -> Request \cup {None}]
        /\ k \in Nat /\ k < Len(arrived) /\ l + 1 = k + 2
    BY <1>2, <1>3, <1>4, Types
  <1>6. Before(l) # {} => request = LastRequest(l)
    BY <1>s, <1>2, <1>3 DEF Ordered, Current
  <1>7. Before(l)' = Before(l) /\ (Before(l) # {} => LastRequest(l)' = LastRequest(l))
    BY <1>1, <1>4, <1>5, SameBefore
  <1>8. Current(l)'
    <2>1. Before(l + 1) = Before(l) /\ LastRequest(l + 1) = LastRequest(l)
      BY <1>s, <1>3, <1>4, <1>5, OneMore
    <2>2. Before(l + 1)' = Before(l + 1) /\ (Before(l + 1) # {} => LastRequest(l + 1)' = LastRequest(l + 1))
      BY <1>1, <1>3, <1>4, <1>5, SameBefore
    <2>3. QED
      BY <1>s, <1>6, <2>1, <2>2 DEF Current
  <1>9. Answered(l)'
    <2> SUFFICES ASSUME NEW d \in Clients, answers'[d] # None
                 PROVE  \E i \in 1 .. l : /\ arrived'[i] = d
                                          /\ Before(i)' # {} => answers'[d] = LastRequest(i)'
      BY DEF Answered
    <2>1. CASE d = c
      <3>1. answers'[d] = request
        BY <1>s, <1>5, <2>1
      <3>2. l \in 1 .. l /\ arrived'[l] = d
        BY <1>s, <1>4, <2>1
      <3>3. QED
        BY <1>6, <1>7, <3>1, <3>2
    <2>2. CASE d # c
      <3>1. answers'[d] = answers[d]
        BY <1>s, <1>5, <2>2
      <3>2. PICK i \in 1 .. k : arrived[i] = d /\ (Before(i) # {} => answers[d] = LastRequest(i))
        BY <1>2, <3>1 DEF Ordered, Answered
      <3>3. i \in 1 .. l /\ i \in 1 .. Len(arrived) + 1
        BY <1>3, <1>5
      <3>4. Before(i)' = Before(i) /\ (Before(i) # {} => LastRequest(i)' = LastRequest(i))
        BY <1>1, <3>3, SameBefore
      <3>5. QED
        BY <1>s, <3>1, <3>2, <3>3, <3>4
    <2>3. QED
      BY <2>1, <2>2
  <1>10. Distinct'
    BY <1>s DEF Order, Distinct
  <1>11. QED
    BY <1>4, <1>8, <1>9, <1>10 DEF Ordered

LEMMA OrderPlugged == ASSUME Inv, Order, Plugged PROVE Order'
  <1>s. /\ stash' = stash /\ persisting' = persisting /\ request' = request
        /\ arrived' = arrived /\ answers' = answers /\ restarts' = restarts
    BY DEF Plugged, stateVars, clientVars
  <1>t. \A p \in DOMAIN mailbox : ~IsComplete(mailbox[p])
    BY DEF Plugged, Inv, Token
  <1> SUFFICES ASSUME restarts = 0
               PROVE  Distinct' /\ \E k \in 0 .. Len(arrived'), q \in 0 .. Len(mailbox') : Ordered(k, q)'
    BY <1>s DEF Order
  <1>1. Grows
    BY <1>s DEF Grows
  <1>2. PICK k \in 0 .. Len(arrived), q \in 0 .. Len(mailbox) : Ordered(k, q)
    BY DEF Order
  <1>3. Current(k)' /\ Answered(k)'
    BY <1>s, <1>1, <1>2, SameCurrent, SameAnswered DEF Ordered
  <1>4. /\ arrived \in Seq(Clients) /\ mailbox \in Seq(Message)
        /\ Len(arrived) \in Nat /\ Len(mailbox) \in Nat /\ Len(stash) \in Nat
        /\ DOMAIN mailbox = 1 .. Len(mailbox)
    BY Types
  <1>5. PICK m \in Message : mailbox' = Append(mailbox, m) /\ IsComplete(m)
    <2>1. job.replyTo \in Clients \cup {None} /\ job.request \in Request /\ created \in Nat
      BY DEF Inv, TypeOK
    <2>2. CASE job.request = NoRequest
      <3>1. mailbox' = Append(mailbox, PluggingComplete(VoidPlugged, job.replyTo))
        BY <2>2 DEF Plugged
      <3>2. QED
        BY <2>1, <3>1, CompleteMessage
    <2>3. CASE job.request # NoRequest
      <3>1. [request |-> job.request, nr |-> created + 1] \in Instance
        BY <2>1, <2>3 DEF Instance, Request
      <3>2. mailbox' = Append(mailbox, PluggingComplete([request |-> job.request, nr |-> created + 1], job.replyTo))
        BY <2>3 DEF Plugged
      <3>3. QED
        BY <2>1, <3>1, <3>2, CompleteMessage
    <2>4. QED
      BY <2>2, <2>3
  <1>6. /\ Len(mailbox') = Len(mailbox) + 1
        /\ mailbox'[Len(mailbox) + 1] = m
        /\ \A p \in DOMAIN mailbox' : p = Len(mailbox) + 1 \/ (p \in DOMAIN mailbox /\ mailbox'[p] = mailbox[p])
    BY <1>4, <1>5, Pushed
  <1>7. q = 0
    BY <1>t, <1>2, <1>4 DEF Ordered, Waiting
  <1>8. PICK n : n = Len(mailbox) + 1
    OBVIOUS
  <1>9. /\ Place(Len(mailbox), q) = Len(mailbox) /\ Place(n, n) = Len(mailbox)
        /\ \A p \in 1 .. Len(mailbox) : Place(p, q) = p /\ Place(p, n) = p /\ p # n
    <2>1. Place(Len(mailbox), q) = Len(mailbox) /\ \A p \in 1 .. Len(mailbox) : Place(p, q) = p
      BY <1>7 DEF Place
    <2>2. n # 0 /\ ~(n < n) /\ n - 1 = Len(mailbox)
      BY <1>4, <1>8
    <2>3. Place(n, n) = Len(mailbox)
      BY <2>2 DEF Place
    <2>4. \A p \in 1 .. Len(mailbox) : p < n /\ p # n
      BY <1>4, <1>8
    <2>5. \A p \in 1 .. Len(mailbox) : Place(p, n) = p
      BY <2>4 DEF Place
    <2>6. QED
      BY <2>1, <2>3, <2>4, <2>5
  <1>10. Waiting(k, n)'
    <2>1. \A p \in DOMAIN mailbox' : IsComplete(mailbox'[p]) <=> p = n
      BY <1>t, <1>4, <1>5, <1>6, <1>8, <1>9
    <2>2. Len(arrived') = k + Len(stash') + Place(Len(mailbox'), n)
      BY <1>s, <1>2, <1>6, <1>8, <1>9 DEF Ordered, Waiting
    <2>3. \A p \in DOMAIN stash' : stash'[p] = From(arrived'[k + p])
      BY <1>s, <1>2 DEF Ordered, Waiting
    <2>4. ASSUME NEW p \in DOMAIN mailbox', p # n
          PROVE  mailbox'[p] = From(arrived'[k + Len(stash') + Place(p, n)])
      <3>1. p \in 1 .. Len(mailbox) /\ mailbox'[p] = mailbox[p]
        BY <1>4, <1>6, <1>8, <2>4
      <3>2. mailbox[p] = From(arrived[k + Len(stash) + Place(p, q)])
        BY <1>2, <1>4, <1>7, <3>1 DEF Ordered, Waiting
      <3>3. QED
        BY <1>s, <1>9, <3>1, <3>2
    <2>5. QED
      BY <2>1, <2>2, <2>3, <2>4 DEF Waiting
  <1>11. Distinct'
    BY <1>s DEF Order, Distinct
  <1>12. k \in 0 .. Len(arrived') /\ n \in 0 .. Len(mailbox')
    BY <1>s, <1>2, <1>4, <1>6, <1>8
  <1>13. QED
    BY <1>3, <1>10, <1>11, <1>12 DEF Ordered

LEMMA OrderComplete == ASSUME Inv, Order, Complete PROVE Order'
  <1>s. /\ Completed /\ mailbox' = stash \o Tail(mailbox) /\ stash' = << >>
        /\ persisting' = persisting /\ request' = request
        /\ arrived' = arrived /\ answers' = answers /\ restarts' = restarts
    BY DEF Complete, stateVars
  <1> SUFFICES ASSUME restarts = 0
               PROVE  Distinct' /\ \E k \in 0 .. Len(arrived'), q \in 0 .. Len(mailbox') : Ordered(k, q)'
    BY <1>s DEF Order
  <1>1. Grows
    BY <1>s DEF Grows
  <1>2. PICK k \in 0 .. Len(arrived), q \in 0 .. Len(mailbox) : Ordered(k, q)
    BY DEF Order
  <1>3. Current(k)' /\ Answered(k)'
    BY <1>s, <1>1, <1>2, SameCurrent, SameAnswered DEF Ordered
  <1>4. /\ Len(arrived) \in Nat /\ Len(mailbox) \in Nat /\ Len(stash) \in Nat
        /\ mailbox \in Seq(Message) /\ stash \in Seq(Message) /\ mailbox # << >>
        /\ DOMAIN stash = 1 .. Len(stash)
        /\ Head(mailbox) = mailbox[1] /\ 1 \in DOMAIN mailbox /\ IsComplete(Head(mailbox))
    <2>1. /\ Len(arrived) \in Nat /\ Len(mailbox) \in Nat /\ Len(stash) \in Nat
          /\ mailbox \in Seq(Message) /\ stash \in Seq([type : {"client"}, client : Clients])
      BY Types
    <2>2. /\ mailbox # << >> /\ Head(mailbox) = mailbox[1] /\ 1 \in DOMAIN mailbox
          /\ IsComplete(Head(mailbox))
      BY <1>s, AtCompletion DEF Completed
    <2>3. \A p \in DOMAIN stash : stash[p] \in [type : {"client"}, client : Clients]
      BY <2>1, ElementTypes
    <2>4. stash \in Seq(Message) /\ DOMAIN stash = 1 .. Len(stash)
      BY <2>1, <2>3 DEF Message
    <2>5. QED
      BY <2>1, <2>2, <2>4
  <1>5. q = 1
    BY <1>2, <1>4 DEF Ordered, Waiting
  <1>6. /\ Tail(mailbox) \in Seq(Message) /\ Len(Tail(mailbox)) = Len(mailbox) - 1
        /\ \A p \in DOMAIN Tail(mailbox) :
             p + 1 \in DOMAIN mailbox /\ Tail(mailbox)[p] = mailbox[p + 1] /\ p \in Nat
        /\ DOMAIN Tail(mailbox) = 1 .. Len(mailbox) - 1
    BY <1>4, Popped
  <1>7. /\ mailbox' \in Seq(Message)
        /\ Len(mailbox') = Len(stash) + Len(mailbox) - 1
        /\ \A p \in DOMAIN mailbox' :
             \/ p \in DOMAIN stash /\ mailbox'[p] = stash[p]
             \/ p - Len(stash) \in DOMAIN Tail(mailbox) /\ mailbox'[p] = Tail(mailbox)[p - Len(stash)]
    BY <1>s, <1>4, <1>6, Unstashed
  <1>8. DOMAIN mailbox' = 1 .. Len(mailbox')
    BY <1>7
  <1>9. Waiting(k, 0)'
    <2>1. \A p \in DOMAIN mailbox' : ~IsComplete(mailbox'[p])
      BY <1>s, NoneLeft
    <2>2. \A p \in DOMAIN mailbox' : p # 0
      BY <1>8
    <2>3. Len(arrived) = k + Len(stash) + (Len(mailbox) - 1)
      <3>1. Len(arrived) = k + Len(stash) + Place(Len(mailbox), 1)
        BY <1>2, <1>5 DEF Ordered, Waiting
      <3>2. Len(mailbox) >= 1
        BY <1>4
      <3>3. Place(Len(mailbox), 1) = Len(mailbox) - 1
        BY <1>4, <3>2 DEF Place
      <3>4. QED
        BY <3>1, <3>3
    <2>4. Len(arrived') = k + Len(stash') + Place(Len(mailbox'), 0)
      BY <1>s, <1>4, <1>7, <2>3 DEF Place
    <2>5. ASSUME NEW p \in DOMAIN mailbox' PROVE mailbox'[p] = From(arrived[k + p])
      <3>1. CASE p \in DOMAIN stash /\ mailbox'[p] = stash[p]
        BY <1>2, <3>1 DEF Ordered, Waiting
      <3>2. CASE p - Len(stash) \in DOMAIN Tail(mailbox) /\ mailbox'[p] = Tail(mailbox)[p - Len(stash)]
        <4>1. PICK t \in DOMAIN Tail(mailbox) : t = p - Len(stash)
          BY <3>2
        <4>2. /\ t \in Nat /\ t + 1 \in DOMAIN mailbox /\ mailbox'[p] = mailbox[t + 1] /\ t > 0
          BY <1>6, <3>2, <4>1
        <4>3. mailbox[t + 1] = From(arrived[k + Len(stash) + Place(t + 1, 1)])
          BY <1>2, <1>5, <4>2 DEF Ordered, Waiting
        <4>4. Place(t + 1, 1) = t
          BY <4>2 DEF Place
        <4>5. k + Len(stash) + t = k + p
          BY <1>4, <1>8, <4>1, <4>2
        <4>6. QED
          BY <4>2, <4>3, <4>4, <4>5
      <3>3. QED
        BY <1>7, <3>1, <3>2
    <2>6. \A p \in DOMAIN mailbox' : k + Len(stash') + Place(p, 0) = k + p
      BY <1>s, <1>8 DEF Place
    <2>7. QED
      <3>1. \A p \in DOMAIN mailbox' : IsComplete(mailbox'[p]) <=> p = 0
        BY <2>1, <2>2
      <3>2. \A p \in DOMAIN mailbox' :
              p # 0 => mailbox'[p] = From(arrived'[k + Len(stash') + Place(p, 0)])
        BY <1>s, <2>5, <2>6
      <3>3. \A p \in DOMAIN stash' : stash'[p] = From(arrived'[k + p])
        BY <1>s
      <3>4. QED
        BY <2>4, <3>1, <3>2, <3>3 DEF Waiting
  <1>10. Distinct'
    BY <1>s DEF Order, Distinct
  <1>11. k \in 0 .. Len(arrived') /\ 0 \in 0 .. Len(mailbox')
    BY <1>s, <1>2, <1>4, <1>6, <1>7
  <1>12. QED
    BY <1>3, <1>9, <1>10, <1>11 DEF Ordered

LEMMA OrderStep == Inv /\ Order /\ [Next]_vars => Order'
  <1> SUFFICES ASSUME Inv, Order, [Next]_vars PROVE Order'
    OBVIOUS
  <1>1. ASSUME NEW c \in Clients, Send(c) \/ Stash(c) \/ Persist(c) \/ Answer(c) PROVE Order'
    BY <1>1, OrderSend, OrderStash, OrderPersist, OrderAnswer
  <1>2. CASE DoPlugging \/ Plugged \/ Complete
    BY <1>2, OrderDoPlugging, OrderPlugged, OrderComplete
  <1>3. CASE Store \/ PreUnplug \/ CallPlug \/ JobFails \/ UNCHANGED vars
    <2>1. restarts' = restarts /\ UNCHANGED <<arrived, mailbox, stash, persisting, request, answers>>
      BY <1>3 DEF Store, PreUnplug, CallPlug, JobFails, vars, stateVars, mailVars, clientVars
    <2>2. QED
      BY <2>1, OrderSame
  <1>4. CASE PostUnplugThrows \/ Crash
    <2>1. restarts' = restarts + 1 /\ restarts \in Nat
      BY <1>4, Types DEF PostUnplugThrows, Crash, Recover
    <2>2. restarts' # 0
      BY <2>1
    <2>3. QED
      BY <2>2 DEF Order
  <1>5. QED
    BY <1>1, <1>2, <1>3, <1>4 DEF Next

\* Whoever asks for the plugged code is given that of the last request that
\* arrived before the question, as long as there was no restart.
THEOREM InOrder == Spec => []InArrivalOrder
  <1>1. Inv /\ Order => InArrivalOrder
    <2> SUFFICES ASSUME Inv, Order, restarts = 0, NEW n \in DOMAIN arrived, answers[arrived[n]] # None,
                        \E j \in 1 .. n - 1 : Asks[arrived[j]].type = "Evt"
                 PROVE  answers[arrived[n]] = LastRequest(n)
      BY DEF InArrivalOrder
    <2>1. /\ arrived \in Seq(Clients) /\ arrived[n] \in Clients
      BY Types, ElementTypes
    <2>2. PICK k \in 0 .. Len(arrived), q \in 0 .. Len(mailbox) : Ordered(k, q)
      BY DEF Order
    <2>3. PICK i \in 1 .. k : /\ arrived[i] = arrived[n]
                              /\ Before(i) # {} => answers[arrived[n]] = LastRequest(i)
      BY <2>1, <2>2 DEF Ordered, Answered
    <2>4. i = n
      BY <2>1, <2>3 DEF Order, Distinct
    <2>5. Before(n) # {}
      BY DEF Before
    <2>6. QED
      BY <2>3, <2>4, <2>5
  <1>2. Init => Order
    BY OrderInit
  <1>3. Inv /\ Order /\ [Next]_vars => Order'
    BY OrderStep
  <1>4. QED
    BY <1>1, <1>2, <1>3, Invariance, PTL DEF Spec
=============================================================================
