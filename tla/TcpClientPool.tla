--------------------------- MODULE TcpClientPool ---------------------------
(***************************************************************************)
(* The batched tcp_client_pool of src/transport/tcp_client_pool.cpp, the   *)
(* egress that graphite_pool forwards events through.                      *)
(*                                                                         *)
(* Producer threads (stream graph threads calling the sink) run            *)
(* push_event: they pick a loop with the shared round-robin index          *)
(* next_thread_, put the event on that loop's concurrent queue and, once    *)
(* the queue holds a batch, signal the loop.  Each loop thread runs, one    *)
(* callback at a time: async (drain the queue into one batch, one try_pop *)
(* at a time while producers keep pushing, and put it on the connection's *)
(* out queue), data_ready (move batches into the          *)
(* connection's write buffer and write, or notice the peer closed), and    *)
(* two periodic tasks: signal_batch_flush and connect_clients.             *)
(*                                                                         *)
(* Events are numbered in the order they are pushed; a batch is the        *)
(* sequence of numbers output_events_fn_ turned into bytes; the bytes the  *)
(* collector received on a loop's connections are the sequence wire[i].   *)
(***************************************************************************)
EXTENDS Naturals, FiniteSets, Sequences, SequencesExt, Functions

CONSTANTS
  NumLoops,         \* thread_num: the number of event loops
  Producers,        \* threads that call push_event concurrently
  BatchSize,        \* batch_size_
  QueueCapacity,    \* k_queue_capacity of each loop's event queue
  OutCapacity,      \* k_queue_capacity as compared in async (per connection)
  WriteBufCapacity, \* room in a tcp_connection's write buffer, in events
  MaxEvents,        \* bound: events pushed in one behaviour
  MaxCloses         \* bound: connections closed by the peer in one behaviour

ASSUME /\ NumLoops \in Nat \ {0}
       /\ Producers # {}
       /\ BatchSize \in Nat \ {0}
       /\ QueueCapacity \in Nat \ {0}
       /\ OutCapacity \in Nat
       /\ WriteBufCapacity \in Nat \ {0}
       /\ MaxEvents \in Nat /\ MaxCloses \in Nat
       \* every batch fits an empty write buffer (see README: a batch can
       \* exceed QueueCapacity, since producers refill the queue during a drain)
       /\ WriteBufCapacity >= MaxEvents

Loops == 0 .. NumLoops - 1
Idle  == NumLoops            \* a producer that is not inside push_event
Ids   == 1 .. MaxEvents

VARIABLES
  next_thread,   \* next_thread_, shared by the producers without a lock
  picked,        \* picked[p]: the loop p read from next_thread_, or Idle
  pc,            \* pc[p]: the step of push_event producer p runs next
  queue,         \* thread_event_queues_[i]
  signalled,     \* an ev_async signal to loop i not yet handled
  flush_batch,   \* flush_batch_[i]
  draining,      \* loop i is inside async's drain loop
  events,        \* events[i]: the vector async's drain has collected
  conn,          \* fd_event_queues_[i] holds a connection
  out_queue,     \* that connection's queue of batches
  write_buf,     \* that tcp_connection's unsent bytes
  fd_mode,       \* the mode async_loop watches the fd in
  wire,          \* what the collector received from loop i, in order
  dropped,       \* events discarded with a LOG(ERROR)
  lost,          \* events discarded with the connection that held them
  pushed,        \* events pushed so far (numbers 1..pushed are in use)
  closes         \* connections closed so far

vars == <<next_thread, picked, pc, queue, signalled, flush_batch, draining, events, conn,
          out_queue, write_buf, fd_mode, wire, dropped, lost, pushed, closes>>

TypeOK ==
  /\ next_thread \in Loops
  /\ picked \in [Producers -> Loops \cup {Idle}]
  /\ pc \in [Producers -> {"pick", "push", "size", "signal"}]
  /\ queue \in [Loops -> BoundedSeq(Ids, QueueCapacity)]
  /\ signalled \in [Loops -> BOOLEAN]
  /\ flush_batch \in [Loops -> {0, 1}]
  /\ draining \in [Loops -> BOOLEAN]
  /\ events \in [Loops -> Seq(Ids)]
  /\ conn \in [Loops -> BOOLEAN]
  /\ out_queue \in [Loops -> Seq(Seq(Ids))]
  /\ write_buf \in [Loops -> BoundedSeq(Ids, WriteBufCapacity)]
  /\ fd_mode \in [Loops -> {"read", "readwrite"}]
  /\ wire \in [Loops -> Seq(Ids)]
  /\ dropped \subseteq Ids /\ lost \subseteq Ids
  /\ pushed \in 0 .. MaxEvents /\ closes \in 0 .. MaxCloses

Init ==
  /\ next_thread = 0
  /\ picked = [p \in Producers |-> Idle]
  /\ pc = [p \in Producers |-> "pick"]
  /\ queue = [i \in Loops |-> <<>>]
  /\ signalled = [i \in Loops |-> FALSE]
  /\ flush_batch = [i \in Loops |-> 0]
  /\ draining = [i \in Loops |-> FALSE]
  /\ events = [i \in Loops |-> <<>>]
  /\ conn = [i \in Loops |-> FALSE]
  /\ out_queue = [i \in Loops |-> <<>>]
  /\ write_buf = [i \in Loops |-> <<>>]
  /\ fd_mode = [i \in Loops |-> "read"]
  /\ wire = [i \in Loops |-> <<>>]
  /\ dropped = {} /\ lost = {}
  /\ pushed = 0 /\ closes = 0

-----------------------------------------------------------------------------
(* push_event, first read of next_thread_: the queue it indexes.           *)
push_event_pick(p) ==
  /\ pc[p] = "pick"
  /\ pushed + Cardinality({q \in Producers : pc[q] = "push"}) < MaxEvents
  /\ picked' = [picked EXCEPT ![p] = next_thread]
  /\ pc' = [pc EXCEPT ![p] = "push"]
  /\ UNCHANGED <<next_thread, queue, signalled, flush_batch, draining, events, conn, out_queue,
                 write_buf, fd_mode, wire, dropped, lost, pushed, closes>>

(* try_push fails: loop t's queue is at k_queue_capacity.                  *)
QueueFull(t) == Len(queue[t]) >= QueueCapacity

(* Producer p is done with this event.                                    *)
Return(p) == picked' = [picked EXCEPT ![p] = Idle] /\ pc' = [pc EXCEPT ![p] = "pick"]

(* push_event, try_push on the picked queue: a full queue logs and drops   *)
(* the event and returns.                                                  *)
push_event(p) ==
  LET t  == picked[p]
      id == pushed + 1
  IN /\ pc[p] = "push"
     /\ pushed' = id
     /\ IF QueueFull(t)
        THEN /\ dropped' = dropped \cup {id}
             /\ Return(p)
             /\ UNCHANGED queue
        ELSE /\ queue' = [queue EXCEPT ![t] = Append(@, id)]
             /\ pc' = [pc EXCEPT ![p] = "size"]
             /\ UNCHANGED <<dropped, picked>>
  /\ UNCHANGED <<next_thread, signalled, flush_batch, draining, events, conn,
                 out_queue, write_buf, fd_mode, wire, lost, closes>>

(* push_event, queue->size() < batch_size_: the size is read after the    *)
(* push, so the loop may have drained, or other producers filled, the     *)
(* queue in between.  Below a batch it returns without a signal.          *)
push_event_size(p) ==
  /\ pc[p] = "size"
  /\ IF Len(queue[picked[p]]) < BatchSize
     THEN Return(p)
     ELSE /\ pc' = [pc EXCEPT ![p] = "signal"] /\ UNCHANGED picked
  /\ UNCHANGED <<next_thread, queue, signalled, flush_batch, draining, events, conn,
                 out_queue, write_buf, fd_mode, wire, dropped, lost, pushed, closes>>

(* Bug variant of push_event_signal: the increment without the modulo.    *)
push_event_signal_nowrap(p) ==
  /\ pc[p] = "signal"
  /\ signalled' = [signalled EXCEPT ![next_thread] = TRUE]
  /\ next_thread' = next_thread + 1
  /\ Return(p)
  /\ UNCHANGED <<queue, flush_batch, draining, events, conn, out_queue,
                 write_buf, fd_mode, wire, dropped, lost, pushed, closes>>

(* push_event, signal_thread(next_thread_) and the increment: both read    *)
(* next_thread_ again, which another producer may have moved since the    *)
(* first read, so the loop signalled need not be the one pushed to.       *)
push_event_signal(p) ==
  /\ pc[p] = "signal"
  /\ signalled' = [signalled EXCEPT ![next_thread] = TRUE]
  /\ next_thread' = (next_thread + 1) % NumLoops
  /\ Return(p)
  /\ UNCHANGED <<queue, flush_batch, draining, events, conn, out_queue,
                 write_buf, fd_mode, wire, dropped, lost, pushed, closes>>

(* Does async drain the queue: a pending flush, or more than a batch.      *)
BatchReady(i) == flush_batch[i] = 1 \/ Len(queue[i]) > BatchSize

(* Bug variant of AsyncDrains: without async's connection test.           *)
AsyncDrainsUnconnected(i) == BatchReady(i) /\ queue[i] # <<>>

(* async goes past its early returns: loop i has a connection, a ready     *)
(* queue, and the drain found events.                                      *)
AsyncDrains(i) == conn[i] /\ BatchReady(i) /\ queue[i] # <<>>

(* Loop i's thread is free: it is not inside async's drain loop.          *)
LoopFree(i) == ~draining[i]

(* async, run by loop i when its signal is handled.  Without a connection, *)
(* or without a flush or more than a batch queued, it returns at once;     *)
(* otherwise it enters the drain loop.                                     *)
async(i) ==
  /\ signalled[i] /\ LoopFree(i)
  /\ signalled' = [signalled EXCEPT ![i] = FALSE]
  /\ draining' = [draining EXCEPT ![i] = AsyncDrains(i)]
  /\ UNCHANGED <<next_thread, picked, pc, queue, flush_batch, events, conn,
                 out_queue, write_buf, fd_mode, wire, dropped, lost, pushed,
                 closes>>

(* One iteration of "while (!event_queue->empty())": try_pop moves the      *)
(* oldest queued event into the batch; producers may push in between.     *)
async_pop(i) ==
  /\ draining[i] /\ queue[i] # <<>>
  /\ events' = [events EXCEPT ![i] = Append(@, Head(queue[i]))]
  /\ queue' = [queue EXCEPT ![i] = Tail(@)]
  /\ UNCHANGED <<next_thread, picked, pc, signalled, flush_batch, draining, conn,
                 out_queue, write_buf, fd_mode, wire, dropped, lost, pushed,
                 closes>>

(* The drain loop found the queue empty: output_events_fn_ makes the batch, *)
(* the flush flag is reset, and the batch is queued on the connection      *)
(* unless its out queue is over k_queue_capacity, where it is dropped.     *)
async_end(i) ==
  /\ draining[i] /\ queue[i] = <<>>
  /\ draining' = [draining EXCEPT ![i] = FALSE]
  /\ events' = [events EXCEPT ![i] = <<>>]
  /\ flush_batch' = [flush_batch EXCEPT ![i] = 0]
  /\ IF Len(out_queue[i]) > OutCapacity
     THEN /\ dropped' = dropped \cup ToSet(events[i])
          /\ UNCHANGED <<out_queue, fd_mode>>
     ELSE /\ out_queue' = [out_queue EXCEPT ![i] = Append(@, events[i])]
          /\ fd_mode' = [fd_mode EXCEPT ![i] = "readwrite"]
          /\ UNCHANGED dropped
  /\ UNCHANGED <<next_thread, picked, pc, queue, signalled, conn, write_buf, wire,
                 lost, pushed, closes>>

(* Bug variant of signal_batch_flush: sets the flag, never wakes the loop. *)
signal_batch_flush_nosignal(i) ==
  /\ LoopFree(i)
  /\ flush_batch' = [flush_batch EXCEPT ![i] = 1]
  /\ UNCHANGED <<next_thread, picked, pc, queue, signalled, draining, events, conn,
                 out_queue, write_buf, fd_mode, wire, dropped, lost, pushed,
                 closes>>

(* The periodic task signal_batch_flush of loop i.                         *)
signal_batch_flush(i) ==
  /\ LoopFree(i)
  /\ flush_batch' = [flush_batch EXCEPT ![i] = 1]
  /\ signalled' = [signalled EXCEPT ![i] = TRUE]
  /\ UNCHANGED <<next_thread, picked, pc, queue, draining, events, conn, out_queue,
                 write_buf, fd_mode, wire, dropped, lost, pushed, closes>>

(* The periodic task connect_clients of loop i: with no connection, try to *)
(* connect; on success add_client registers it and create_conn gives it   *)
(* an empty out queue.                                                     *)
connect_clients(i) ==
  /\ LoopFree(i) /\ ~conn[i]
  /\ \/ /\ conn' = [conn EXCEPT ![i] = TRUE]
        /\ out_queue' = [out_queue EXCEPT ![i] = <<>>]
        /\ write_buf' = [write_buf EXCEPT ![i] = <<>>]
        /\ fd_mode' = [fd_mode EXCEPT ![i] = "read"]
     \/ UNCHANGED <<conn, out_queue, write_buf, fd_mode>>
  /\ UNCHANGED <<next_thread, picked, pc, queue, signalled, flush_batch, draining,
                 events, wire, dropped, lost, pushed, closes>>

(* Bug variant of Fill: each batch is put in front of the bytes already   *)
(* buffered.                                                               *)
RECURSIVE FillPrepend(_, _)
FillPrepend(q, buf) ==
  IF q # <<>> /\ Len(buf) + Len(Head(q)) <= WriteBufCapacity
  THEN FillPrepend(Tail(q), Head(q) \o buf)
  ELSE <<q, buf>>

(* The while loop of data_ready: queue_write whole batches from the front  *)
(* of the out queue while the connection's buffer has room for them.       *)
RECURSIVE Fill(_, _)
Fill(q, buf) ==
  IF q # <<>> /\ Len(buf) + Len(Head(q)) <= WriteBufCapacity
  THEN Fill(Tail(q), buf \o Head(q))
  ELSE <<q, buf>>

(* data_ready for loop i's connection, ready for reading (rd) and/or       *)
(* writing (wr, reported only in readwrite mode).  A read that finds the   *)
(* peer gone (cl) erases the connection with its out queue and buffer.     *)
(* Otherwise: nothing to send switches the fd to read mode; not writable   *)
(* returns; else fill the buffer and write() a nonempty part of it.        *)
data_ready(i, rd, wr, cl) ==
  /\ LoopFree(i) /\ conn[i]
  /\ rd \/ wr
  /\ wr => fd_mode[i] = "readwrite"
  /\ cl => rd /\ closes < MaxCloses
  /\ IF cl
     THEN /\ conn' = [conn EXCEPT ![i] = FALSE]
          /\ lost' = lost \cup ToSet(FlattenSeq(out_queue[i]) \o write_buf[i])
          /\ out_queue' = [out_queue EXCEPT ![i] = <<>>]
          /\ write_buf' = [write_buf EXCEPT ![i] = <<>>]
          /\ closes' = closes + 1
          /\ UNCHANGED <<fd_mode, wire>>
     ELSE IF write_buf[i] = <<>> /\ out_queue[i] = <<>>
     THEN /\ fd_mode' = [fd_mode EXCEPT ![i] = "read"]
          /\ UNCHANGED <<conn, lost, out_queue, write_buf, closes, wire>>
     ELSE IF ~wr
     THEN UNCHANGED <<conn, lost, out_queue, write_buf, closes, wire, fd_mode>>
     ELSE LET filled == Fill(out_queue[i], write_buf[i])
              buf    == filled[2]
          IN /\ out_queue' = [out_queue EXCEPT ![i] = filled[1]]
             /\ \E k \in 1 .. Len(buf) :
                  /\ wire' = [wire EXCEPT ![i] = @ \o SubSeq(buf, 1, k)]
                  /\ write_buf' = [write_buf EXCEPT ![i] = SubSeq(buf, k + 1, Len(buf))]
             /\ UNCHANGED <<conn, lost, closes, fd_mode>>
  /\ UNCHANGED <<next_thread, picked, pc, queue, signalled, flush_batch, draining,
                 events, dropped, pushed>>

Next ==
  \/ \E p \in Producers :
       push_event_pick(p) \/ push_event(p) \/ push_event_size(p) \/ push_event_signal(p)
  \/ \E i \in Loops :
       \/ async(i) \/ async_pop(i) \/ async_end(i)
       \/ signal_batch_flush(i)
       \/ connect_clients(i)
       \/ \E rd, wr, cl \in BOOLEAN : data_ready(i, rd, wr, cl)

(* Loops handle their signals and run their periodic tasks; the collector  *)
(* eventually accepts a connection and drains the socket.                  *)
Fairness ==
  \A i \in Loops :
    /\ WF_vars(async(i)) /\ WF_vars(async_pop(i)) /\ WF_vars(async_end(i))
    /\ WF_vars(signal_batch_flush(i))
    /\ WF_vars(connect_clients(i) /\ conn'[i])
    /\ WF_vars(data_ready(i, FALSE, TRUE, FALSE))

Spec == Init /\ [][Next]_vars /\ Fairness

-----------------------------------------------------------------------------
Count(s, id) == Len(SelectSeq(s, LAMBDA x : x = id))

Resolved == UNION {ToSet(wire[i]) : i \in Loops} \cup dropped \cup lost

(* Every pushed event is in exactly one place: a loop queue, the batch an  *)
(* async drain is collecting, an out-queue batch, a write buffer, the      *)
(* wire, or the logged/lost sets, while producers push into a queue that   *)
(* async is draining.  Breaks if async or data_ready consumes events       *)
(* without putting them anywhere, or sends one twice.                      *)
EventAccounting ==
  \A id \in 1 .. pushed :
    LET inLoops == SumFunction([i \in Loops |->
                     Count(queue[i], id) + Count(events[i], id)
                     + Count(FlattenSeq(out_queue[i]), id)
                     + Count(write_buf[i], id) + Count(wire[i], id)])
    IN inLoops + (IF id \in dropped THEN 1 ELSE 0)
               + (IF id \in lost THEN 1 ELSE 0) = 1

(* Every event push_event accepts eventually reaches the collector or is   *)
(* dropped or lost with a connection: none waits forever in a queue        *)
(* (batches below batch_size rely on signal_batch_flush).                  *)
EventuallyResolved ==
  \A id \in Ids : (id <= pushed) ~> (id \in Resolved)

(* push_event signals a loop once its queue holds batch_size events; the   *)
(* loop's async is then expected to send that batch.  A handled signal     *)
(* on a connected loop whose queue holds a full batch starts a drain.      *)
FullBatchSent ==
  [][\A i \in Loops :
       (signalled[i] /\ ~signalled'[i] /\ conn[i]
          /\ Len(queue[i]) >= BatchSize) => draining'[i]]_vars

(* push_event spreads events round-robin over the loops; it drops an event *)
(* (queue full) only when no loop's queue has room for it.                 *)
DropOnlyWhenAllFull ==
  [][pushed' = pushed + 1 /\ pushed' \in dropped'
       => \A i \in Loops : Len(queue[i]) >= QueueCapacity]_vars

-----------------------------------------------------------------------------
(* Loop i's channel in AbstractEgress: its events not yet on the wire, the *)
(* oldest first: the write buffer, the out-queue batches, the batch being  *)
(* drained, the queue.                                                     *)
Chan == [i \in Loops |->
           write_buf[i] \o FlattenSeq(out_queue[i]) \o events[i] \o queue[i]]

Egress == INSTANCE AbstractEgress
            WITH sent <- pushed, chan <- Chan, recv <- wire,
                 gone <- dropped \cup lost

(* The pool implements a per-loop FIFO channel that may lose contiguous    *)
(* runs: the collector gets each loop's events in push order, none twice,  *)
(* none invented, and a loop holding events eventually sends or loses      *)
(* some, across batching, drains racing pushes, partial writes and closes. *)
EgressRefinement == Egress!ASpec
=============================================================================
