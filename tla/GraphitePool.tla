---------------------------- MODULE GraphitePool ----------------------------
(***************************************************************************)
(* The Graphite egress of src/external/graphite_pool.cpp.  push_event      *)
(* hands an event to its tcp_client_pool (modelled in TcpClientPool);     *)
(* output_events renders a batch, in order, into the bytes written to the *)
(* carbon socket.  Here the pool is abstracted to the order it keeps: a   *)
(* batch is a prefix of the events pushed and not yet rendered.           *)
(*                                                                         *)
(* The bytes are a sequence of one-character strings.  A host or service  *)
(* is one token; metric_to_double of an integral metric and the int64     *)
(* time print as their decimal digits.                                    *)
(***************************************************************************)
EXTENDS Naturals, Sequences, SequencesExt

CONSTANTS
  Hosts,       \* host names (tokens without "." " " or newline)
  Services,    \* service names (likewise)
  Metrics,     \* integral metric values
  Times,       \* event times
  BatchSize,   \* k_batch_size
  MaxEvents    \* bound: events pushed

ASSUME /\ Metrics \subseteq Nat /\ Times \subseteq Nat
       /\ BatchSize \in Nat \ {0} /\ MaxEvents \in Nat

Events == [host : Hosts, service : Services, metric : Metrics, time : Times]

VARIABLES
  pending,   \* events pushed, not yet rendered (the pool's queue)
  sent,      \* events rendered, in order
  stream     \* the bytes written to the carbon socket

vars == <<pending, sent, stream>>

TypeOK ==
  /\ pending \in Seq(Events)
  /\ sent \in Seq(Events)
  /\ stream \in Seq(STRING)

Init ==
  /\ pending = <<>>
  /\ sent = <<>>
  /\ stream = <<>>

-----------------------------------------------------------------------------
(* operator<< of a non-negative number: its decimal digits.                *)
RECURSIVE Digits(_)
Digits(n) ==
  LET d == <<"0", "1", "2", "3", "4", "5", "6", "7", "8", "9">>[(n % 10) + 1]
  IN IF n < 10 THEN <<d>> ELSE Digits(n \div 10) \o <<d>>

(* One event as output_events writes it:                                   *)
(*   host "." service " " metric_to_double(event) time "\n"               *)
Line(ev) ==
  <<ev.host, ".", ev.service, " ">> \o Digits(ev.metric)
    \o Digits(ev.time) \o <<"\n">>

push_event(ev) ==
  /\ Len(sent) + Len(pending) < MaxEvents
  /\ pending' = Append(pending, ev)
  /\ UNCHANGED <<sent, stream>>

(* output_events on a batch of the first k pending events. *)
output_events(k) ==
  LET batch == SubSeq(pending, 1, k)
  IN /\ pending' = SubSeq(pending, k + 1, Len(pending))
     /\ sent' = sent \o batch
     /\ stream' = stream \o FlattenSeq([i \in 1 .. k |-> Line(batch[i])])

Next ==
  \/ \E ev \in Events : push_event(ev)
  \/ \E k \in 1 .. BatchSize : k <= Len(pending) /\ output_events(k)

Spec == Init /\ [][Next]_vars

-----------------------------------------------------------------------------
(* The carbon plaintext reader: the stream cut at sep into pieces; the     *)
(* piece after the last sep is dropped (an incomplete line).              *)
RECURSIVE Pieces(_, _, _)
Pieces(s, sep, cur) ==
  IF s = <<>> THEN <<>>
  ELSE IF Head(s) = sep THEN <<cur>> \o Pieces(Tail(s), sep, <<>>)
  ELSE Pieces(Tail(s), sep, Append(cur, Head(s)))

Fields(line) == SelectSeq(Pieces(Append(line, " "), " ", <<>>),
                          LAMBDA f : f # <<>>)

(* Spec 6.4: every line the carbon server reads is "host.service value     *)
(* time": three space-separated fields, the second the metric and the     *)
(* third the time of the event that line stands for.                      *)
GraphiteLineFormat ==
  LET lines == Pieces(stream, "\n", <<>>)
  IN \A i \in 1 .. Len(lines) :
       LET f == Fields(lines[i])
       IN /\ Len(f) = 3
          /\ f[2] = Digits(sent[i].metric)
          /\ f[3] = Digits(sent[i].time)
=============================================================================
