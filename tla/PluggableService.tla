--------------------------- MODULE PluggableService ---------------------------
(***************************************************************************)
(* PluggableServiceActor: one piece of code is plugged at a time.  A       *)
(* request to plug other code is persisted, its jars are fetched from the  *)
(* jar cache and its class is loaded, the old code is asked to unplug      *)
(* (preUnplug), the new code is plugged, and the old code is told so       *)
(* (postUnplug).  Meanwhile other requests and questions for the plugged   *)
(* code are stashed.  A recovery plugs the last persisted request again.   *)
(*                                                                         *)
(* A definition named Wrong... is the definition after it with a mistake   *)
(* in it, and no behaviour uses it: each shows a property can fail.        *)
(***************************************************************************)
EXTENDS Naturals, Sequences, FiniteSets, Functions

CONSTANTS
  Clients,      \* each sends one message
  Asks,         \* which message: a request to plug, or GetPlugged
  Requests,     \* what can be plugged
  NoRequest,    \* nothing is to be plugged (Clear): the void code
  None,         \* no client, or no answer yet
  Faults,       \* the faults the environment may inject, see FaultKinds
  MaxRestarts   \* how many crashes and restarts a behaviour may have

FaultKinds == {"loadFails", "unplugFails", "plugFails", "postUnplugThrows", "crash"}

Request == Requests \cup {NoRequest}

Plug(r)   == [type |-> "Evt", request |-> r]
GetPlugged == [type |-> "GetPlugged"]

ASSUME AsksAssumption ==
  Asks \in [Clients -> {Plug(r) : r \in Request} \cup {GetPlugged}]
ASSUME NamesAssumption == NoRequest \notin Requests /\ None \notin Clients
ASSUME FaultsAssumption == Faults \subseteq FaultKinds
ASSUME MaxRestartsAssumption == MaxRestarts \in Nat

VARIABLES
  request,     \* PluggableServiceActor.state.request
  journal,     \* the request a recovery would give
  persisting,  \* the client whose request is being persisted, or None
  stored,      \* whether that request is in the journal
  plugged,     \* PluggableServiceActor.plugged
  plugging,    \* PluggableServiceActor.plugging
  job,         \* the future of doPlugging
  mailbox,     \* messages to the actor
  stash,       \* messages it has put aside
  live,        \* instances plugged and not asked to unplug
  leaving,     \* instances asked to unplug and not told it is over
  forgotten,   \* instances that are live and that a restart has lost
  created,     \* how many instances were plugged
  acked,       \* clients that have been sent Done
  answers,     \* what each client that asked for the plugged code was given
  arrived,     \* the clients in the order their messages reached the mailbox
  restarts     \* crashes and restarts so far

stateVars    == <<request, journal, persisting, stored>>
pluggedVars  == <<plugged, plugging>>
instanceVars == <<live, leaving, forgotten, created>>
mailVars     == <<mailbox, stash>>
clientVars   == <<acked, answers, arrived>>
vars == <<stateVars, pluggedVars, job, instanceVars, mailVars, clientVars, restarts>>

\* VoidPlugged is one object, which has nothing to unplug.
VoidPlugged == [request |-> NoRequest, nr |-> 0]
Instance == [request : Requests, nr : Nat \ {0}]

From(c) == [type |-> "client", client |-> c]
PluggingComplete(i, c) == [type |-> "PluggingComplete", plugged |-> i, replyTo |-> c]
Message ==
  [type : {"client"}, client : Clients]
  \cup [type : {"PluggingComplete"}, plugged : Instance \cup {VoidPlugged},
        replyTo : Clients \cup {None}]

Stages == {"none", "loading", "unplugging", "plugging", "failed"}
NoJob == [stage |-> "none", request |-> NoRequest, replyTo |-> None]

TypeOK ==
  /\ request \in Request /\ journal \in Request
  /\ persisting \in Clients \cup {None}
  /\ stored \in BOOLEAN
  /\ plugged \in Instance \cup {VoidPlugged}
  /\ plugging \in BOOLEAN
  /\ job \in [stage : Stages, request : Request, replyTo : Clients \cup {None}]
  /\ mailbox \in Seq(Message)
  /\ stash \in Seq([type : {"client"}, client : Clients])
  /\ live \subseteq Instance /\ leaving \subseteq Instance /\ forgotten \subseteq Instance
  /\ created \in Nat
  /\ acked \subseteq Clients
  /\ answers \in [Clients -> Request \cup {None}]
  /\ arrived \in Seq(Clients)
  /\ restarts \in 0 .. MaxRestarts

\* RecoveryCompleted: the persisted request is plugged for nobody.
Recovering(r) == [stage |-> "loading", request |-> r, replyTo |-> None]

\* The service starts from any journal an earlier process left.
Init ==
  /\ journal \in Request
  /\ request = journal
  /\ persisting = None
  /\ stored = FALSE
  /\ plugged = VoidPlugged
  /\ plugging = TRUE
  /\ job = Recovering(journal)
  /\ mailbox = << >> /\ stash = << >>
  /\ live = {} /\ leaving = {} /\ forgotten = {} /\ created = 0
  /\ acked = {}
  /\ answers = [c \in Clients |-> None]
  /\ arrived = << >>
  /\ restarts = 0

-----------------------------------------------------------------------------
(* The mailbox                                                              *)

Send(c) ==
  /\ \A i \in DOMAIN arrived : arrived[i] # c
  /\ arrived' = Append(arrived, c)
  /\ mailbox' = Append(mailbox, From(c))
  /\ UNCHANGED <<stateVars, pluggedVars, job, instanceVars, stash, acked, answers, restarts>>

\* Commands wait while an event is being persisted.
Next1(c, type) ==
  /\ persisting = None
  /\ mailbox # << >>
  /\ Head(mailbox) = From(c)
  /\ Asks[c].type = type

Stash(c) ==
  /\ \E type \in {"Evt", "GetPlugged"} : Next1(c, type)
  /\ plugging
  /\ mailbox' = Tail(mailbox)
  /\ stash' = Append(stash, Head(mailbox))
  /\ UNCHANGED <<stateVars, pluggedVars, job, instanceVars, clientVars, restarts>>

-----------------------------------------------------------------------------
(* Plugging                                                                 *)

\* case p: Evt, a PlugRequest or Clear
Persist(c) ==
  /\ Next1(c, "Evt")
  /\ ~plugging
  /\ persisting' = c
  /\ mailbox' = Tail(mailbox)
  /\ UNCHANGED <<request, journal, stored, pluggedVars, job, instanceVars, stash, clientVars,
                 restarts>>

Store ==
  /\ persisting # None /\ ~stored
  /\ journal' = Asks[persisting].request
  /\ stored' = TRUE
  /\ UNCHANGED <<request, persisting, pluggedVars, job, instanceVars, mailVars, clientVars,
                 restarts>>

\* Does not set plugging.
WrongDoPlugging ==
  /\ stored
  /\ request' = Asks[persisting].request
  /\ persisting' = None
  /\ stored' = FALSE
  /\ job' = [stage |-> "loading", request |-> request', replyTo |-> persisting]
  /\ UNCHANGED <<journal, plugged, plugging, instanceVars, mailVars, clientVars, restarts>>

\* The handler of the stored event: updateState and doPlugging.
DoPlugging ==
  /\ stored
  /\ request' = Asks[persisting].request
  /\ persisting' = None
  /\ stored' = FALSE
  /\ plugging' = TRUE
  /\ job' = [stage |-> "loading", request |-> request', replyTo |-> persisting]
  /\ UNCHANGED <<journal, plugged, instanceVars, mailVars, clientVars, restarts>>

\* Unplugs the void code like any other.
VoidPreUnplug ==
  /\ job.stage = "loading"
  /\ job' = [job EXCEPT !.stage = "unplugging"]
  /\ live' = live \ {plugged}
  /\ leaving' = leaving \cup {plugged}
  /\ UNCHANGED <<stateVars, pluggedVars, forgotten, created, mailVars, clientVars, restarts>>

\* Leaves the old code alone until the new code is plugged.
WrongPreUnplug ==
  /\ job.stage = "loading"
  /\ job' = [job EXCEPT !.stage = "unplugging"]
  /\ UNCHANGED <<stateVars, pluggedVars, instanceVars, mailVars, clientVars, restarts>>

\* The jars are there and the class is loaded; plugged.preUnplug() is called.
PreUnplug ==
  /\ job.stage = "loading"
  /\ job' = [job EXCEPT !.stage = "unplugging"]
  /\ live' = live \ {plugged}
  /\ leaving' = leaving \cup ({plugged} \ {VoidPlugged})
  /\ UNCHANGED <<stateVars, pluggedVars, forgotten, created, mailVars, clientVars, restarts>>

\* The old code has unplugged; pluggable.plug is called.
CallPlug ==
  /\ job.stage = "unplugging"
  /\ job' = [job EXCEPT !.stage = "plugging"]
  /\ UNCHANGED <<stateVars, pluggedVars, instanceVars, mailVars, clientVars, restarts>>

\* plug has succeeded, and the result is piped to the actor.
Plugged ==
  /\ job.stage = "plugging"
  /\ IF job.request = NoRequest
     THEN /\ mailbox' = Append(mailbox, PluggingComplete(VoidPlugged, job.replyTo))
          /\ UNCHANGED <<live, created>>
     ELSE LET new == [request |-> job.request, nr |-> created + 1]
          IN  /\ created' = created + 1
              /\ live' = live \cup {new}
              /\ mailbox' = Append(mailbox, PluggingComplete(new, job.replyTo))
  /\ job' = NoJob
  /\ UNCHANGED <<stateVars, pluggedVars, leaving, forgotten, stash, clientVars, restarts>>

\* A failure is logged and piped to the actor, which does not handle it:
\* plugging stays set.
JobFails ==
  /\ \/ job.stage = "loading" /\ "loadFails" \in Faults
     \/ job.stage = "unplugging" /\ "unplugFails" \in Faults
     \/ job.stage = "plugging" /\ "plugFails" \in Faults
  /\ job' = [job EXCEPT !.stage = "failed"]
  /\ UNCHANGED <<stateVars, pluggedVars, instanceVars, mailVars, clientVars, restarts>>

Completed ==
  /\ persisting = None
  /\ mailbox # << >>
  /\ Head(mailbox).type = "PluggingComplete"

Acknowledge(c) == acked' = acked \cup ({c} \ {None})

\* Does not keep the new code.
WrongComplete ==
  /\ Completed
  /\ plugging' = FALSE
  /\ leaving' = leaving \ {plugged}
  /\ mailbox' = stash \o Tail(mailbox)
  /\ stash' = << >>
  /\ Acknowledge(Head(mailbox).replyTo)
  /\ UNCHANGED <<stateVars, plugged, job, live, forgotten, created, answers, arrived, restarts>>

\* Puts the stashed messages behind those that came later.
UnorderedComplete ==
  /\ Completed
  /\ plugging' = FALSE
  /\ leaving' = leaving \ {plugged}
  /\ plugged' = Head(mailbox).plugged
  /\ mailbox' = Tail(mailbox) \o stash
  /\ stash' = << >>
  /\ Acknowledge(Head(mailbox).replyTo)
  /\ UNCHANGED <<stateVars, job, live, forgotten, created, answers, arrived, restarts>>

\* Does not unstash.
StashedComplete ==
  /\ Completed
  /\ plugging' = FALSE
  /\ leaving' = leaving \ {plugged}
  /\ plugged' = Head(mailbox).plugged
  /\ mailbox' = Tail(mailbox)
  /\ Acknowledge(Head(mailbox).replyTo)
  /\ UNCHANGED <<stateVars, stash, job, live, forgotten, created, answers, arrived, restarts>>

Complete ==
  /\ Completed
  /\ plugging' = FALSE
  /\ leaving' = leaving \ {plugged}
  /\ plugged' = Head(mailbox).plugged
  /\ mailbox' = stash \o Tail(mailbox)
  /\ stash' = << >>
  /\ Acknowledge(Head(mailbox).replyTo)
  /\ UNCHANGED <<stateVars, job, live, forgotten, created, answers, arrived, restarts>>

\* case GetPlugged
Answer(c) ==
  /\ Next1(c, "GetPlugged")
  /\ ~plugging
  /\ answers' = [answers EXCEPT ![c] = plugged.request]
  /\ mailbox' = Tail(mailbox)
  /\ UNCHANGED <<stateVars, pluggedVars, job, instanceVars, stash, acked, arrived, restarts>>

-----------------------------------------------------------------------------
(* Restarts                                                                 *)

\* Ignores RecoveryCompleted.
WrongRecover ==
  /\ restarts < MaxRestarts
  /\ restarts' = restarts + 1
  /\ request' = journal
  /\ persisting' = None
  /\ stored' = FALSE
  /\ plugged' = VoidPlugged
  /\ plugging' = FALSE
  /\ job' = NoJob
  /\ stash' = << >>
  /\ UNCHANGED <<journal, created, clientVars>>

Recover ==
  /\ restarts < MaxRestarts
  /\ restarts' = restarts + 1
  /\ request' = journal
  /\ persisting' = None
  /\ stored' = FALSE
  /\ plugged' = VoidPlugged
  /\ plugging' = TRUE
  /\ job' = Recovering(journal)
  /\ stash' = << >>
  /\ UNCHANGED <<journal, created, clientVars>>

\* plugged.postUnplug() throws in the handler: the supervisor restarts the
\* actor, which forgets both instances and keeps its messages.
PostUnplugThrows ==
  /\ "postUnplugThrows" \in Faults
  /\ Completed
  /\ plugged # VoidPlugged
  /\ Recover
  /\ mailbox' = stash \o Tail(mailbox)
  /\ forgotten' = live
  /\ UNCHANGED <<live, leaving>>

\* The process dies, with all that was plugged, and is started again.
Crash ==
  /\ "crash" \in Faults
  /\ Recover
  /\ mailbox' = << >>
  /\ live' = {} /\ leaving' = {} /\ forgotten' = {}

-----------------------------------------------------------------------------
JobStep  == PreUnplug \/ CallPlug \/ Plugged
MailStep == Complete \/ Store \/ DoPlugging \/ \E c \in Clients : Stash(c) \/ Persist(c) \/ Answer(c)

Next ==
  \/ \E c \in Clients : Send(c) \/ Stash(c) \/ Persist(c) \/ Answer(c)
  \/ Store \/ DoPlugging
  \/ PreUnplug \/ CallPlug \/ Plugged \/ JobFails
  \/ Complete \/ PostUnplugThrows \/ Crash

Spec == Init /\ [][Next]_vars

\* The actor handles its mail, the journal stores, and the plugged code keeps
\* its promises to unplug and to plug.
FairSpec == Spec /\ WF_vars(JobStep) /\ WF_vars(MailStep)

-----------------------------------------------------------------------------
(* Properties                                                               *)

\* The code that GetPlugged hands out, and that the next request unplugs, is
\* what was last asked for, and it has not been told to unplug: plugging is
\* set from the handler that changes the request until the code has changed.
ServedIsCurrent ==
  ~plugging => /\ plugged.request = request
               /\ plugged \in live \cup {VoidPlugged}

\* New code is never plugged beside old code that was not asked to unplug,
\* unless an exception in postUnplug has made the actor forget the latter: what
\* was forgotten stays plugged, and nothing else does.
OneLive ==
  /\ forgotten \subseteq live
  /\ Cardinality(live \ forgotten) =< 1
  /\ job.stage \in {"unplugging", "plugging"} => live = forgotten

\* A client is told Done only when its request is the one persisted and its
\* code the one plugged, so that a restart brings the same code back.
AckedIsServed ==
  [][\A c \in acked' \ acked :
       /\ plugged'.request = Asks[c].request
       /\ journal' = Asks[c].request]_vars

\* The request that was last in the mailbox before the i-th message.
LastRequest(i) ==
  LET before == {j \in 1 .. i - 1 : Asks[arrived[j]].type = "Evt"}
  IN  Asks[arrived[CHOOSE j \in before : \A k \in before : k =< j]].request

\* Stashing changes no order: whoever asks for the plugged code is given that
\* of the last request that arrived before the question, as long as no restart
\* has dropped messages.
InArrivalOrder ==
  restarts = 0 => \A i \in DOMAIN arrived :
    LET c == arrived[i]
    IN  /\ answers[c] # None /\ (\E j \in 1 .. i - 1 : Asks[arrived[j]].type = "Evt")
             => answers[c] = LastRequest(i)

\* Every client whose message is in the mailbox or put aside is served, unless
\* the actor is restarted before: a job that fails, whose failure the actor does
\* not handle, is all that can keep it waiting.
EveryoneServed ==
  \A c \in Clients, n \in 0 .. MaxRestarts :
    From(c) \in Range(mailbox) \cup Range(stash) /\ restarts = n
      ~> \/ IF Asks[c].type = "Evt" THEN c \in acked ELSE answers[c] # None
         \/ restarts # n
         \/ job.stage = "failed"

\* After the last crash the service settles on the persisted request, unless a
\* job fails.
Recovers ==
  \/ <>[](job.stage = "failed")
  \/ <>[](~plugging => plugged.request = journal) /\ []<>(~plugging)
=============================================================================
