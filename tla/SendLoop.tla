------------------------------ MODULE SendLoop ------------------------------
(***************************************************************************)
(* The sending loops of StressTestService::run_worker with the classes they *)
(* use: the shared round-robin cursor and its reservations, the time-stamp  *)
(* cursor, framing, the packing of UDP datagrams, and the pacer.  StressTest *)
(* has the life of the threads; here every worker runs until it is stopped, *)
(* and what it sends is taken.                                              *)
(*                                                                         *)
(* An event is the item it was rendered from and its time stamp, counted in *)
(* seconds from the start of the range.  A payload is a sequence of "a",    *)
(* "r" and "n" for a character, a carriage return and a line feed.          *)
(***************************************************************************)
EXTENDS Integers, Sequences, SequencesExt

CONSTANTS
    Kinds,              \* of "packed", "datagrams", "stream", "file"
    Targets,            \* values of target_eps, 0 for unlimited
    Catalogs,           \* sequences of payloads, one per selected template
    Detected,           \* hardware_concurrency()
    UdpWorkers,         \* most workers of a UDP test: 2 on macOS, 8 elsewhere
    Width,              \* bound: values of the shared counter, 2^64 in the code
    Reservation,        \* 256
    HighRate,           \* 10'000
    Span,               \* inclusive_seconds() of the range
    EventLimit,         \* packed_event_limit
    DatagramTarget,     \* packed_datagram_target
    BatchTarget,        \* integrated_batch_target, and batch_limit of a stream
    MaximumPayload,     \* maximum_udp_payload
    Divisor, MaxEvents, \* per kind: events of a batch per unit of quota, and at most
    Second,             \* ticks of a second
    MaxPicks, MaxTime   \* bounds: events of a worker, ticks

ASSUME SendLoopAssumption ==
    /\ Kinds \subseteq {"packed", "datagrams", "stream", "file"}
    /\ Targets \subseteq Nat /\ Detected \in Nat \ {0}
    /\ UdpWorkers \in {2, 8}
    /\ Width \in Nat \ {0} /\ Reservation \in Nat \ {0} /\ Span \in Nat \ {0}
    /\ EventLimit \in Nat \ {0} /\ BatchTarget \in Nat
    /\ DatagramTarget \in Nat /\ MaximumPayload \in Nat
    /\ DatagramTarget <= MaximumPayload /\ Second \in Nat \ {0}
    /\ Catalogs \subseteq Seq(Seq({"a", "r", "n"})) \ {<<>>}
    /\ Divisor \in [Kinds -> Nat \ {0}] /\ MaxEvents \in [Kinds -> Nat \ {0}]

VARIABLES
    kind, target_eps, items,    \* the configuration
    N,                          \* worker_count
    next, wraps,                \* next_ of the shared cursor; history: its overflows
    current, remaining,         \* each worker's reservation
    position,                   \* each worker's next time stamp
    place,                      \* "build", "packet", "events", "close", "paced",
                                \* "wait", "done", "threw"
    packet, packets,            \* the datagram and the batch being built
    pending_packet, pending_payload,
    due, now,                   \* next_ of the pacer, the steady clock
    stop,                       \* the workers were asked to stop
    picks,                      \* history: events rendered by each worker
    sent, batches               \* history: packets sent, and in how many batches

config == <<kind, target_eps, items, N>>
cursor == <<next, wraps, current, remaining, position, picks>>
building == <<packet, packets, pending_packet, pending_payload>>
pacing == <<due, now, stop>>
output == <<sent, batches>>
vars == <<config, cursor, place, building, pacing, output>>

Clamp(x, low, high) == IF x < low THEN low ELSE IF x > high THEN high ELSE x
Least(a, b) == IF a < b THEN a ELSE b

-----------------------------------------------------------------------------
(* start(): how many workers, and the share of each in the target.          *)

optimal_worker_count(k) ==
    CASE k = "file" -> 1
      [] k = "stream" -> Clamp(IF Detected > 2 THEN Detected - 1 ELSE Detected, 1, 16)
      [] OTHER -> Least(Detected, Clamp((Detected + 3) \div 4, 2, UdpWorkers))

(* Mutant: a small target does not reduce the workers.                      *)
worker_count_all(k, target, parallel) ==
    IF parallel THEN Clamp(optimal_worker_count(k), 1, 64) ELSE 1

worker_count(k, target, parallel) ==
    LET count == IF parallel THEN Clamp(optimal_worker_count(k), 1, 64) ELSE 1
    IN  IF target > 0 THEN Least(count, target) ELSE count

quota_for_worker(w) ==
    IF target_eps = 0 THEN 0
    ELSE target_eps \div N + (IF w - 1 < target_eps % N THEN 1 ELSE 0)

high_rate(w) == quota_for_worker(w) = 0 \/ quota_for_worker(w) >= HighRate

(* stream_batch_events, datagram_batch_events, file_batch_events (at most 1
   when the endpoint has limits) and rate_limited_event_target.             *)
event_limit(w) ==
    IF quota_for_worker(w) = 0 THEN MaxEvents[kind]
    ELSE Clamp(quota_for_worker(w) \div Divisor[kind], 1, MaxEvents[kind])

-----------------------------------------------------------------------------
(* append_frame with StreamFraming::Newline: line ends are escaped.         *)
append_frame(text) ==
    FlattenSeq([i \in 1..Len(text) |->
                  IF text[i] = "a" THEN <<"a">> ELSE <<"backslash", "letter">>])
        \o <<"n">>

(* Mutant: escaped line ends are counted as one character.                  *)
newline_frame_size_raw(text) == Len(text) + 1

newline_frame_size(text) ==
    Len(text) + 1 + Cardinality({i \in 1..Len(text) : text[i] \in {"r", "n"}})

(* What a sequence of events takes in a datagram or a batch.                *)
Bytes(events) ==
    Len(FlattenSeq([i \in 1..Len(events) |->
                      IF kind = "datagrams" THEN items[events[i].item]
                                            ELSE append_frame(items[events[i].item])]))

Workers == 1..N
Events == [item : 1..Len(items), at : 0..(Span - 1)]
EventsOf(w) == Len(FlattenSeq(packets[w]))

Init ==
    /\ kind \in Kinds /\ target_eps \in Targets /\ items \in Catalogs
    /\ \E parallel \in BOOLEAN : N = worker_count(kind, target_eps, parallel)
    /\ next = 0 /\ wraps = 0
    /\ current = [w \in Workers |-> 0] /\ remaining = [w \in Workers |-> 0]
    /\ position = [w \in Workers |-> (w - 1) % Span]
    /\ place = [w \in Workers |-> "build"]
    /\ packet = [w \in Workers |-> <<>>] /\ packets = [w \in Workers |-> <<>>]
    /\ pending_packet = packet /\ pending_payload = packet
    /\ due = [w \in Workers |-> 0] /\ now = 0 /\ stop = FALSE
    /\ picks = packet /\ sent = packet /\ batches = due

-----------------------------------------------------------------------------
(* Mutant: a block is reserved and the counter goes on by one.              *)
ReserveOverlaps(w) ==
    LET size == IF high_rate(w) THEN Reservation ELSE 1
    IN  /\ next' = (next + 1) % Width
        /\ current' = [current EXCEPT ![w] = (next + 1) % Len(items)]
        /\ remaining' = [remaining EXCEPT ![w] = size - 1]
        /\ UNCHANGED wraps

(* RoundRobinCursor::reserve, with the wrap-around of the counter.          *)
Reserve(w) ==
    LET size == IF high_rate(w) THEN Reservation ELSE 1
    IN  IF Len(items) = 1
           THEN /\ current' = [current EXCEPT ![w] = 0]
                /\ remaining' = [remaining EXCEPT ![w] = size - 1]
                /\ UNCHANGED <<next, wraps>>
           ELSE /\ next' = (next + size) % Width
                /\ wraps' = IF next + size >= Width THEN wraps + 1 ELSE wraps
                /\ current' = [current EXCEPT ![w] = (next + 1) % Len(items)]
                /\ remaining' = [remaining EXCEPT ![w] = size - 1]

(* Mutant: the workers start apart, but step one second each.               *)
next_position_unstrided(w) ==
    LET p == position[w] + 1 IN IF p >= Span THEN p - Span ELSE p

(* TimestampCursor::next                                                    *)
next_position(w) ==
    LET p == position[w] + (N % Span) IN IF p >= Span THEN p - Span ELSE p

(* The item that selection.next() gives.                                    *)
Selected(w) ==
    1 + (IF remaining[w] > 0 THEN current[w]
         ELSE IF Len(items) = 1 THEN 0 ELSE next % Len(items))

(* logs[selection.next()].render(clock.next())                              *)
Pick(w, event) ==
    /\ Len(picks[w]) < MaxPicks
    /\ event = [item |-> Selected(w), at |-> position[w]]
    /\ picks' = [picks EXCEPT ![w] = Append(@, event)]
    /\ position' = [position EXCEPT ![w] = next_position(w)]
    /\ IF remaining[w] = 0 THEN Reserve(w)
       ELSE /\ current' = [current EXCEPT ![w] =
                             IF @ + 1 = Len(items) THEN 0 ELSE @ + 1]
            /\ remaining' = [remaining EXCEPT ![w] = @ - 1]
            /\ UNCHANGED <<next, wraps>>

Goes(w, to) == place' = [place EXCEPT ![w] = to]

(* One event per datagram and per batch: paced first, then rendered.        *)
single(w) == kind = "datagrams" /\ event_limit(w) = 1

(* The head of the loops: a new batch, unless a stop is seen.               *)
StartBatch(w) ==
    /\ place[w] = "build" /\ ~stop
    /\ packets' = [packets EXCEPT ![w] = <<>>]
    /\ packet' = [packet EXCEPT ![w] = <<>>]
    /\ Goes(w, IF kind = "packed" THEN "packet"
               ELSE IF single(w) THEN "paced" ELSE "events")
    /\ UNCHANGED <<config, cursor, pending_packet, pending_payload, pacing, output>>

(* Mutant: the payload that did not fit is forgotten.                       *)
StartPacketForgets(w) ==
    /\ place[w] = "packet"
    /\ IF Bytes(FlattenSeq(packets[w])) < BatchTarget /\ EventsOf(w) < event_limit(w)
          THEN IF pending_packet[w] # <<>>
                  THEN /\ packet' = [packet EXCEPT ![w] = pending_packet[w]]
                       /\ pending_packet' = [pending_packet EXCEPT ![w] = <<>>]
                       /\ Goes(w, "close") /\ UNCHANGED pending_payload
                  ELSE /\ packet' = [packet EXCEPT ![w] = <<>>]
                       /\ pending_payload' = [pending_payload EXCEPT ![w] = <<>>]
                       /\ Goes(w, "events") /\ UNCHANGED pending_packet
          ELSE Goes(w, "paced") /\ UNCHANGED <<packet, pending_packet, pending_payload>>
    /\ UNCHANGED <<config, cursor, packets, pacing, output>>

(* Packed: what was left over starts the next datagram, a whole one first.  *)
StartPacket(w) ==
    /\ place[w] = "packet"
    /\ IF Bytes(FlattenSeq(packets[w])) < BatchTarget /\ EventsOf(w) < event_limit(w)
          THEN IF pending_packet[w] # <<>>
                  THEN /\ packet' = [packet EXCEPT ![w] = pending_packet[w]]
                       /\ pending_packet' = [pending_packet EXCEPT ![w] = <<>>]
                       /\ Goes(w, "close") /\ UNCHANGED pending_payload
                  ELSE /\ packet' = [packet EXCEPT ![w] = pending_payload[w]]
                       /\ pending_payload' = [pending_payload EXCEPT ![w] = <<>>]
                       /\ Goes(w, "events") /\ UNCHANGED pending_packet
          ELSE Goes(w, "paced") /\ UNCHANGED <<packet, pending_packet, pending_payload>>
    /\ UNCHANGED <<config, cursor, packets, pacing, output>>

(* Packed: one event into the datagram, or into pending_payload when it would
   pass the target.                                                         *)
PackEvent(w) ==
    /\ place[w] = "events" /\ kind = "packed"
    /\ Len(packet[w]) < EventLimit /\ EventsOf(w) + Len(packet[w]) < event_limit(w)
    /\ \E event \in Events :
          LET framed_size == newline_frame_size(items[event.item])
          IN /\ Pick(w, event)
             /\ IF framed_size > MaximumPayload
                   THEN Goes(w, "threw") /\ UNCHANGED <<packet, pending_payload>>
                ELSE IF packet[w] # <<>> /\ Bytes(packet[w]) + framed_size > DatagramTarget
                   THEN /\ pending_payload' = [pending_payload EXCEPT ![w] = <<event>>]
                        /\ Goes(w, "close") /\ UNCHANGED packet
                ELSE /\ packet' = [packet EXCEPT ![w] = Append(@, event)]
                     /\ UNCHANGED <<place, pending_payload>>
    /\ UNCHANGED <<config, packets, pending_packet, pacing, output>>

PacketFull(w) ==
    /\ place[w] = "events" /\ kind = "packed"
    /\ Len(packet[w]) = EventLimit \/ EventsOf(w) + Len(packet[w]) >= event_limit(w)
    /\ Goes(w, "close")
    /\ UNCHANGED <<config, cursor, building, pacing, output>>

(* Packed: the datagram joins the batch, or waits for the next one.         *)
ClosePacket(w) ==
    /\ place[w] = "close"
    /\ IF packets[w] # <<>> /\ Bytes(FlattenSeq(packets[w]) \o packet[w]) > BatchTarget
          THEN /\ pending_packet' = [pending_packet EXCEPT ![w] = packet[w]]
               /\ Goes(w, "paced") /\ UNCHANGED packets
          ELSE /\ packets' = [packets EXCEPT ![w] = Append(@, packet[w])]
               /\ Goes(w, "packet") /\ UNCHANGED pending_packet
    /\ packet' = [packet EXCEPT ![w] = <<>>]
    /\ UNCHANGED <<config, cursor, pending_payload, pacing, output>>

(* Datagrams, stream and file: one event into the batch; a stream is one
   packet, which stops growing at its limit of bytes.                       *)
BatchFull(w) ==
    \/ EventsOf(w) >= event_limit(w)
    \/ kind # "datagrams" /\ Bytes(FlattenSeq(packets[w])) >= BatchTarget

AddEvent(w) ==
    /\ place[w] = "events" /\ kind # "packed" /\ ~BatchFull(w)
    /\ \E event \in Events :
          /\ Pick(w, event)
          /\ packets' = [packets EXCEPT ![w] =
                           IF kind = "datagrams" THEN Append(@, <<event>>)
                           ELSE <<FlattenSeq(@) \o <<event>> >>]
    /\ UNCHANGED <<config, place, packet, pending_packet, pending_payload, pacing, output>>

EventsReady(w) ==
    /\ place[w] = "events" /\ kind # "packed" /\ BatchFull(w)
    /\ Goes(w, "paced")
    /\ UNCHANGED <<config, cursor, building, pacing, output>>

-----------------------------------------------------------------------------
(* RatePacer::wait: the batch is due when the quota allows it; a debt of more
   than a second is forgiven.                                               *)
Pace(w) ==
    /\ place[w] = "paced"
    /\ LET quota == quota_for_worker(w)
           events == IF single(w) THEN 1 ELSE EventsOf(w)
           when == IF quota = 0 THEN due[w]
                   ELSE due[w] + (Second * events) \div quota
       IN due' = [due EXCEPT ![w] =
                    IF quota # 0 /\ when + Second < now THEN now ELSE when]
    /\ Goes(w, "wait")
    /\ UNCHANGED <<config, cursor, building, now, stop, output>>

Tick ==
    /\ now < MaxTime /\ target_eps > 0
    /\ now' = now + 1
    /\ UNCHANGED <<config, cursor, place, building, due, stop, output>>

(* The pacer lets the batch go.                                             *)
Due(w) == place[w] = "wait" /\ ~stop /\ (quota_for_worker(w) = 0 \/ now >= due[w])

(* The transport takes the batch.                                           *)
Send(w) ==
    /\ Due(w) /\ ~single(w)
    /\ sent' = [sent EXCEPT ![w] = @ \o packets[w]]
    /\ batches' = [batches EXCEPT ![w] = @ + 1]
    /\ packets' = [packets EXCEPT ![w] = <<>>]
    /\ Goes(w, "build")
    /\ UNCHANGED <<config, cursor, packet, pending_packet, pending_payload, pacing>>

SendSingle(w) ==
    /\ Due(w) /\ single(w)
    /\ \E event \in Events :
          Pick(w, event) /\ sent' = [sent EXCEPT ![w] = Append(@, <<event>>)]
    /\ batches' = [batches EXCEPT ![w] = @ + 1]
    /\ Goes(w, "build")
    /\ UNCHANGED <<config, building, pacing>>

RequestStop ==
    /\ ~stop
    /\ stop' = TRUE
    /\ UNCHANGED <<config, cursor, place, building, due, now, output>>

(* A stop is seen at the head of the loop or after the pacer.               *)
Stops(w) ==
    /\ place[w] \in {"build", "wait"} /\ stop
    /\ Goes(w, "done")
    /\ UNCHANGED <<config, cursor, building, pacing, output>>

Step(w) ==
    \/ StartBatch(w) \/ StartPacket(w) \/ PackEvent(w) \/ PacketFull(w)
    \/ ClosePacket(w) \/ AddEvent(w) \/ EventsReady(w) \/ Pace(w) \/ Send(w)
    \/ SendSingle(w) \/ Stops(w)

Next == Tick \/ RequestStop \/ \E w \in Workers : Step(w)

Spec == Init /\ [][Next]_vars

-----------------------------------------------------------------------------
(* What a worker rendered is what it sent, holds or keeps for its next turn, in
   this order: packing neither loses nor repeats nor reorders an event.     *)
NothingLost ==
    \A w \in Workers :
        place[w] # "threw" =>
            picks[w] = FlattenSeq(sent[w] \o packets[w]) \o packet[w]
                       \o pending_packet[w] \o pending_payload[w]

(* A packed datagram stays below its target (README:307) unless it is a single
   event, and is one that UDP can carry; a batch stays below its own target,
   unless it is a single datagram, and within the rate.                     *)
DatagramsFit ==
    kind = "packed" =>
        \A w \in Workers :
            /\ \A i \in DOMAIN sent[w] :
                  /\ Bytes(sent[w][i]) <= DatagramTarget \/ Len(sent[w][i]) = 1
                  /\ Bytes(sent[w][i]) <= MaximumPayload
                  /\ Len(sent[w][i]) \in 1..EventLimit
            /\ Len(packets[w]) > 1 => Bytes(FlattenSeq(packets[w])) <= BatchTarget
            /\ EventsOf(w) <= event_limit(w)

(* The workers together take the items in turn: two items were rendered equally
   often, but for one, one for each reservation in use and one for each
   overflow of the counter, however long the reservations are.              *)
Rendered(w, i) == Cardinality({k \in DOMAIN picks[w] : picks[w][k].item = i})
Count(i) == SumFunction([w \in Workers |-> Rendered(w, i)])
Balanced ==
    \A i, j \in 1..Len(items) :
        Count(i) - Count(j)
            <= 1 + wraps + Cardinality({w \in Workers : remaining[w] > 0})

(* The time stamps of a range are dealt out to the workers like cards: the k-th
   of worker w is the second w - 1 + (k - 1) * N of the range, cyclically.  *)
TimestampsDealt ==
    \A w \in Workers : \A k \in DOMAIN picks[w] :
        picks[w][k].at = ((w - 1) + (k - 1) * N) % Span

(* No more events leave than the target allows for the time that has passed,
   but for what the pacer rounds off, less than a tick for each batch.      *)
RateHeld ==
    target_eps > 0 =>
        Second * SumFunction([w \in Workers |-> Len(FlattenSeq(sent[w]))])
            <= target_eps * now
               + SumFunction([w \in Workers |-> quota_for_worker(w) * batches[w]])
=============================================================================
