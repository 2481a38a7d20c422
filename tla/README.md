# TLA+ models of cavalieri

This directory holds TLA+ models of the cavalieri event-stream engine (sources under
`src/`), the TLC configurations that check them, and `PROJECT.json`, which records
components, runs, mutants, the definition-to-source map, findings and hazards.

## The system and its parts

cavalieri receives monitoring events, runs them through a graph of stream operators,
and forwards some of them to external sinks. Only part of the engine is in `src/`:

| part | source | what it does |
|---|---|---|
| event helpers | `src/src/util.cpp` | read and write the fields of an `Event`: `set_event_value` (the `with`/`with_ifempty`/`default` writers), `metric_to_double`, `event_str_value`, attribute lookup, plus base64, URI parsing, sha1 and exec helpers |
| stream wiring | `src/src/xtreams.cpp` | `create_xtream_node`, `operator+` (fan-out), the four `operator>>` joins, `push_event` |
| batched TCP egress | `src/src/transport/tcp_client_pool.cpp` | producer threads push events into per-loop queues; each event loop batches its queue, holds one connection to the collector, and writes the batches |
| Graphite sink | `src/src/external/graphite_pool.cpp` | renders a batch as carbon plaintext lines and sends it through a `tcp_client_pool` |
| index facade, real scheduler | `src/src/index/index.cpp`, `src/include/scheduler/real_scheduler.h` | a forwarder and a header; the implementations are not in the repository |

How they interact: stream nodes built by the joins call one another through
`input_fn`/`output_fn`. Operators read and write events with the util helpers. A sink
such as `graphite_pool` is the last node's function. It calls
`tcp_client_pool::push_event` from the stream thread, which hands the event to the loop
threads.

## Modules

- **TcpClientPool.tla** models `tcp_client_pool` in its batched mode.
  - **State:**
    - `next_thread`: the shared `next_thread_`.
    - `picked`: the index each producer read.
    - `queue`: `thread_event_queues_`.
    - `signalled`: a pending `ev_async` signal.
    - `flush_batch`: `flush_batch_`.
    - `conn`, `out_queue`, `write_buf` and `fd_mode`: the connection, its batch queue, the connection's buffer, and the fd mode.
    - `wire`: what the collector received.
    - `dropped` and `lost`: events dropped with a log line, and events lost with a closed connection.
  - **Actions:**
    - `push_event` is split where the code reads shared state again: `push_event_pick` (first read of `next_thread_`), `push_event` (`try_push`), `push_event_size` (`queue->size()`, read after the push) and `push_event_signal` (`signal_thread(next_thread_)` and the increment, taken as one step: the code reads `next_thread_` twice there and its increment can be lost, which only changes which loop the next event goes to). `pc[p]` is the step producer p runs next. Other producers and the loop draining the queue run between the steps, so the size may be stale and the loop signalled may not be the one pushed to.
    - `async` is split at its drain loop: `async` checks the early returns and `flush || enough`, `async_pop` is one `try_pop` into the batch `events`, and `async_end` hands the batch to `output_events_fn_` (or drops it when the out queue is full) and resets `flush_batch`. Producers may push between the steps, so a batch may grow past `k_queue_capacity`. `draining` marks a loop inside the drain; the loop's other callbacks (`LoopFree`) wait for it, since one thread runs them.
    - `data_ready`, `signal_batch_flush` and `connect_clients`, which covers `connect_client`, `add_client` and `create_conn`.
  - **Refinement:** `Chan` joins, per loop, the buffer, the out queue, the batch being drained and the queue, oldest first. With it `TcpClientPool` implements **AbstractEgress.tla**: a per-loop FIFO channel where `Accept` appends a pushed event, `Refuse` drops one, `Deliver` hands a prefix to the collector, and `Lose` removes a contiguous run. Its fairness says each non-empty channel eventually delivers or loses.
  - Events are numbers 1..MaxEvents in push order. A batch is a sequence of them.
- **Xtreams.tla** models the wiring. `out[n]` is the node whose `input_fn` was copied
  into n's `output_fn`; `fan[j]` is a fan-out node's pair. `Visit` follows
  the `input_fn` calls of a push with a depth bound, so a cycle shows up as `Overflow`.
  `held` is the set of lists (`xtreams_t` values) the program keeps. `Rules` names the
  habits callers keep when joining (`MayExtend`); the passing run keeps all three,
  and the reuse run drops the one the streams tests break.
- **Event.tla** models one event: string fields (a subset of the four, which behave
  alike), `ttl`, `time`, the three metric variants, and an attribute sequence. Its
  actions are the `set_event_value` overloads for each key and replace flag, and
  `clear_metrics`. Readers are operators: `metric_to_double`, `event_str_value`
  and `attribute_value`. `Init` holds events with at most one metric variant.
- **EventToJson.tla** models the buffers of `event_to_json`. Every string is its length,
  and a buffer is its `strlen` plus a flag for a byte written past its end. `strncat` is
  the C call with the code's bound `buff_size - strlen(dst)`. `tags_loop` and `attrs_loop`
  are one iteration of each loop, and `render` is `snprintf` with the
  `r >= json_buff_size` check.
- **GraphitePool.tla** models `graphite_pool::output_events`: a batch, a prefix of the
  pushed events, is rendered into a byte sequence (`Digits` is `operator<<` of a
  number), and a carbon reader (`Pieces`, `Fields`) parses it back.
- **Base64.tla** models `base64Encode` as a step machine:
  - one `encode_group` per iteration of the loop over three-byte groups;
  - `encode_tail` for the remainder switch;
  - `Sextet` for the lookup index `(temp & mask) >> shift`.

  An output character is its index in `encodeLookup`, or `Pad`. `RefEncode` is a reference encoding built from the input's bit string.
- **ParseUri.tla** models `parse_uri` and `uri_unescape`. A uri is a sequence of tokens: the separators `/ ? = &`, the escapes `%26` and `%3D`, and letters. `uri_unescape` decodes the escapes, or returns the uri when `curl_easy_init` fails. `ScanTo` is the code's `while (it != end && *it != c)`, `ReadPairs` its key/value loop, and `Insert` the first-wins `std::map::insert`. `parse_uri` takes a `junk` token for the read of `*uri.begin()` on an empty string. `Init` starts from any short raw uri, or from one a client builds (`Encode`) from a request of plain words.
- MC modules (`MC*.tla`) give model values and small sets; each `.cfg` is one run.

## Runs

| run | module / cfg | expect | what it shows |
|---|---|---|---|
| pool_pass | MCTcpClientPool.cfg | pass | 2 producers with interleaved push_event steps, 2 loops, batch 2, queue capacity 3, 3 events, 1 peer close, pushes during a drain: every event is in exactly one place (`EventAccounting`), eventually reaches the wire or is dropped or lost (`EventuallyResolved`), and the pool implements `AbstractEgress` (`EgressRefinement`): per loop, the collector gets events in push order, never twice, and losses are contiguous runs |
| pool_batch | MCTcpClientPool_batch.cfg | violation | `FullBatchSent`: the signal sent at `batch_size` is ignored because async drains only above `batch_size` |
| pool_stall | MCTcpClientPool_stall.cfg | violation | `DropOnlyWhenAllFull`: a full queue on an unconnected loop drops events while another queue is empty |
| xtreams_pass | MCXtreams.cfg | pass | 4 function nodes, 1 fan-out node, lists up to 4: pushing into any held list visits its nodes in order and terminates (`ChainDelivery`) |
| xtreams_reuse | MCXtreams_reuse.cfg | violation | reusing a node in a second join rewires the first list |
| event_pass | MCEvent.cfg | pass | every sequence of writes keeps at most one metric variant (`MetricExclusive`), and a no-replace write never changes a key that is already set (`DefaultKeepsSet`) |
| event_with | MCEvent_with.cfg | violation | `with` on an existing attribute appends a second one, and readers see the old value |
| base64_pass | MCBase64.cfg | pass | every input of up to 4 bytes from {0, 3, 128, 255}, so every remainder length with high and low bits set, encodes as the bit-level reference (`EncodesReference`). The function returns, so deadlock is not checked |
| parse_pass | MCParseUri.cfg | pass | every uri of up to 4 tokens: the byte read from an empty uri never decides the result (`JunkIrrelevant`); every request of up to 2 plain pairs parses back to its path and first-wins parameters, with or without curl (`ParamsFromPairs`). It runs once, so deadlock is not checked |
| parse_escaped | MCParseUri_escaped.cfg | violation | `/?%3D=a` (key `=`, value `a`) parses as key empty, value `=a`: the uri is unescaped before it is split |
| json_overflow | MCEventToJson_overflow.cfg | violation | with the real sizes (1024, 4096), one attribute with a 1000-byte key and value makes `strncat` write its NUL past the 1024-byte `attrs` buffer (`NoOverflow`) |
| graphite_format | MCGraphitePool_format.cfg | violation | metric 3 at time 7 renders as `h.s 37`, which has two fields, not three |

Every property of a passing run has a mutant in `PROJECT.json`: a plausible bug in a
mapped definition (next_thread_ incremented without the modulo, async draining without a connection, flush
without a signal, a fan-out losing its right input, push_back instead of push_front, a
missing `clear_metric_f`, `no_metric_set` not consulted, string fields treated as
attributes, a wrong base64 shift, swapped padding counts, batches put in front of the buffer, a `?`-less uri accepted, an empty pair not skipped). TLC finds the property violated under each of them.

## Bounds

- **Pool:**
  - Two producers are the least that race on `next_thread_`, and two loops the least where the round-robin index matters.
  - Batch 2 with queue capacity 3 lets a queue reach a batch, pass it and fill up.
  - One peer close, and a write buffer of 3, allow partial writes.
  - `OutCapacity` 0 makes the out-queue drop reachable.
  - Three events are enough for a queue to pass a batch (async drains above 2) and for a push to land in a queue being drained; with the four steps of push_event, a fourth event takes the run past ten minutes. A write buffer of 3 holds any batch, as the module assumes.
  - The violation runs use one producer, so the trace shows the code's own ordering and not the race.
- **Xtreams:** four function nodes and lists of up to four are needed for `list >> list`.
- **ParseUri:** tokens from two letters, both escapes and all separators, up to 4 long, cover the early returns; requests of up to 2 pairs over words of up to one letter cover repeated keys and empty values.
- **EventToJson:** the buffer sizes are the code's own; lengths 3 and 1000 for tags, 1 and 1000 for attribute keys and values, give texts below, at and above 1024 bytes.
- **Event:** two string values and two numbers tell an overwrite from a keep, and two attributes show a duplicate key.

## Fairness

Each loop thread runs its callbacks, and libev delivers `ev_async` signals and timers, so
`async`, `signal_batch_flush` and the `connect_clients` success, with the collector
accepting connections, are weakly fair. So are the drain steps `async_pop` and `async_end`, which run on the loop thread without waiting. So is a writable `data_ready`, which assumes the
collector drains its socket. Producers get no fairness: they may stop pushing.

## Not modelled, and the plan

- The unbatched `tcp_client_pool` constructor only does `LOG(FATAL)`.
- sha1, regex, libcurl and exec are library calls. `match_like` is a string rewrite before `std::regex`; `copy_args`, `free_args` and `ld_environment` run once at start-up around `execv`. The `putenv` of a local string in `ld_environment` is listed as a hazard.
- `connect_client` is a success or failure choice, so the socket it leaks when `getaddrinfo` fails is listed as a hazard, not checked.
- A fan-out node before another node (`(a + b) >> c`, where `c` is never reached) is excluded by the xtreams_pass rules and is listed as a hazard.
- `metric_to_string`, `string_to_value`, `tag_exists` and `ttl_to_string` are readers no property needs. With at most one metric variant set, the readers' different orders of variants (`metric_to_double` tries f, sint64, d; `metric_to_string` and `event_to_json` try f, d, sint64) cannot disagree; an event received with two variants, where they would, is listed as a hazard.
- A loop has at most one connection in the model, since `connect_clients` adds one only to a loop without.
- Every run slot is in use. The socket leak, the `putenv` of a local string, the fan-out before a node and a batch larger than the `tcp_connection` buffer would each need a run of its own, so they are listed as hazards and not checked.
- The text `event_to_json` renders is formatting; only its lengths are modelled.
- The stream operators and mock scheduler are not in `src/`. The plan is spec-modelled modules for the scheduler, with rate and percentiles, and for stable/throttle and the windows.
- `uri_unescape` is reduced to the two escapes that matter to the split; other escapes behave like letters.
