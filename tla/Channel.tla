------------------------------ MODULE Channel -------------------------------
(***************************************************************************)
(* What a connection promises to the node (connection/mod.rs): messages    *)
(* queued for the peer are taken with the high priority first, each        *)
(* priority in the order it was queued, and the peer handles them in the   *)
(* order they were taken, each once, up to the point where the connection  *)
(* is closed.  FramedConnection is shown to implement this.                *)
(***************************************************************************)
EXTENDS Naturals, Sequences, SequencesExt

CONSTANTS
    Ends,       \* the two ends of the connection
    Message     \* what can be queued

VARIABLES
    low, high,  \* the messages each end has queued, by priority
    transit,    \* the messages each end has taken, and the other not handled
    open        \* whether neither end has given the connection up

vars == <<low, high, transit, open>>

Other(e) == CHOOSE f \in Ends : f # e

Init ==
    /\ low = [e \in Ends |-> <<>>]
    /\ high = [e \in Ends |-> <<>>]
    /\ transit = [e \in Ends |-> <<>>]
    /\ open = TRUE

Queue(e) ==
    /\ \E m \in Message :
          \/ low' = [low EXCEPT ![e] = Append(@, m)] /\ UNCHANGED high
          \/ high' = [high EXCEPT ![e] = Append(@, m)] /\ UNCHANGED low
    /\ UNCHANGED <<transit, open>>

Take(e) ==
    /\ \/ /\ high[e] # <<>>
          /\ transit' = [transit EXCEPT ![e] = Append(@, Head(high[e]))]
          /\ high' = [high EXCEPT ![e] = Tail(@)]
          /\ UNCHANGED low
       \/ /\ high[e] = <<>> /\ low[e] # <<>>
          /\ transit' = [transit EXCEPT ![e] = Append(@, Head(low[e]))]
          /\ low' = [low EXCEPT ![e] = Tail(@)]
          /\ UNCHANGED high
    /\ UNCHANGED open

(* The other end handles the oldest message, and may queue an answer. *)
Handle(e) ==
    /\ transit[e] # <<>>
    /\ transit' = [transit EXCEPT ![e] = Tail(@)]
    /\ \/ UNCHANGED <<low, high>>
       \/ \E m \in Message :
             \/ low' = [low EXCEPT ![Other(e)] = Append(@, m)] /\ UNCHANGED high
             \/ high' = [high EXCEPT ![Other(e)] = Append(@, m)] /\ UNCHANGED low
    /\ UNCHANGED open

(* An end gives up: what was taken last may never arrive, and what an end
   that is gone had queued is dropped. *)
Close ==
    /\ open' = FALSE
    /\ \A e \in Ends :
          /\ IsPrefix(transit'[e], transit[e])
          /\ (low'[e] = low[e] /\ high'[e] = high[e]) \/ (low'[e] = <<>> /\ high'[e] = <<>>)
    /\ transit' \in [Ends -> Seq(Message)]
    /\ low' \in [Ends -> Seq(Message)]
    /\ high' \in [Ends -> Seq(Message)]

Next == Close \/ \E e \in Ends : Queue(e) \/ Take(e) \/ Handle(e)

Spec == Init /\ [][Next]_vars
=============================================================================
