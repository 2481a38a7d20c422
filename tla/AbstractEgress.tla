--------------------------- MODULE AbstractEgress ---------------------------
(***************************************************************************)
(* What a batched egress promises, without batches, buffers or threads:    *)
(* each loop is a FIFO channel to the collector.  An event pushed is       *)
(* numbered, then either refused at once or accepted by one loop's         *)
(* channel; the collector receives a loop's events in the order they were  *)
(* accepted, each at most once; a contiguous run of a channel may be lost  *)
(* (a batch dropped, or the batches of a closed connection).  While a      *)
(* channel holds events, it eventually delivers or loses some.             *)
(***************************************************************************)
EXTENDS Naturals, Sequences

CONSTANTS
  NumLoops,    \* the number of channels
  MaxEvents    \* bound: events pushed

Loops == 0 .. NumLoops - 1
Ids   == 1 .. MaxEvents

VARIABLES
  sent,   \* events pushed so far, numbered 1..sent
  chan,   \* chan[i]: accepted by loop i, not yet received or lost
  recv,   \* recv[i]: received by the collector from loop i, in order
  gone    \* events refused or lost

avars == <<sent, chan, recv, gone>>

AInit ==
  /\ sent = 0
  /\ chan = [i \in Loops |-> <<>>]
  /\ recv = [i \in Loops |-> <<>>]
  /\ gone = {}

Accept(i) ==
  /\ sent < MaxEvents
  /\ sent' = sent + 1
  /\ chan' = [chan EXCEPT ![i] = Append(@, sent + 1)]
  /\ UNCHANGED <<recv, gone>>

Refuse ==
  /\ sent < MaxEvents
  /\ sent' = sent + 1
  /\ gone' = gone \cup {sent + 1}
  /\ UNCHANGED <<chan, recv>>

(* The first k events of channel i reach the collector. *)
Deliver(i, k) ==
  /\ 1 <= k /\ k <= Len(chan[i])
  /\ recv' = [recv EXCEPT ![i] = @ \o SubSeq(chan[i], 1, k)]
  /\ chan' = [chan EXCEPT ![i] = SubSeq(@, k + 1, Len(@))]
  /\ UNCHANGED <<sent, gone>>

(* Events a..b of channel i are lost. *)
Lose(i, a, b) ==
  /\ 1 <= a /\ a <= b /\ b <= Len(chan[i])
  /\ gone' = gone \cup {chan[i][j] : j \in a .. b}
  /\ chan' = [chan EXCEPT ![i] = SubSeq(@, 1, a - 1) \o SubSeq(@, b + 1, Len(@))]
  /\ UNCHANGED <<sent, recv>>

Progress(i) ==
  \/ \E k \in 1 .. Len(chan[i]) : Deliver(i, k)
  \/ \E a, b \in 1 .. Len(chan[i]) : Lose(i, a, b)

ANext ==
  \/ Refuse
  \/ \E i \in Loops : Accept(i) \/ Progress(i)

ASpec == AInit /\ [][ANext]_avars /\ \A i \in Loops : WF_avars(Progress(i))
=============================================================================
