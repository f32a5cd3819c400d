---------------------------- MODULE OrderedTransfer ----------------------------
(***************************************************************************)
(* What a buffered transfer promises to the stream it feeds: elements      *)
(* arrive in source order, none twice, and the stream is completed only    *)
(* after every element of the source has arrived.  An element may be       *)
(* missing from an unfinished transfer (messages are delivered at most     *)
(* once), and a transfer may be abandoned at any time.                     *)
(***************************************************************************)
EXTENDS Naturals, Sequences

CONSTANT NItems      \* the source holds the elements 1 .. NItems, in that order

VARIABLES
  outcome,           \* "open", "completed", "failed" or "closed"
  delivered          \* the elements the stream has accepted so far

vars == <<outcome, delivered>>

Init ==
  /\ outcome = "open"
  /\ delivered = <<>>

Deliver(item) ==
  /\ outcome = "open"
  /\ \A i \in 1 .. Len(delivered) : delivered[i] < item
  /\ delivered' = Append(delivered, item)
  /\ UNCHANGED outcome

Finish ==
  /\ outcome = "open"
  /\ delivered = [i \in 1 .. NItems |-> i]
  /\ outcome' = "completed"
  /\ UNCHANGED delivered

Abandon ==
  /\ outcome = "open"
  /\ outcome' \in {"failed", "closed"}
  /\ UNCHANGED delivered

Next ==
  \/ \E item \in 1 .. NItems : Deliver(item)
  \/ Finish
  \/ Abandon

Spec == Init /\ [][Next]_vars
=============================================================================
