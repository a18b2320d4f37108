-------------------------- MODULE FramedConnection --------------------------
(***************************************************************************)
(* A connection between two nodes, from the queues of messages down to the *)
(* bytes on the socket (connection/low_level.rs, connection/mod.rs,        *)
(* message_handlers.rs): the XX handshake, the length-prefixed and         *)
(* encrypted frames, the one buffer for reads and writes, the edge-        *)
(* triggered events of the poll, and the answers to pings and requests.    *)
(*                                                                         *)
(* Both ends run this code.  A byte is a unit that says what it encodes;   *)
(* a socket holds up to Capacity units and hands them over in pieces of    *)
(* any size.  The noise library is external: a chunk is accepted exactly   *)
(* if it is whole and has the nonce that is next.                          *)
(***************************************************************************)
EXTENDS Integers, Sequences

CONSTANTS
    PAYLOAD_SIZE,           \* the units of the length before a message
    NOISE_MAX_PAYLOAD_LEN,  \* the longest piece of a message that is encrypted at once
    MAC_LENGTH,             \* what the encryption adds to a piece
    HandshakeLength,        \* the length of a handshake message
    ReadSize, WriteSize,    \* the size of the buffer and of a write
    Capacity,               \* what fits in a socket
    Length,                 \* the length of a message, by kind
    Plan                    \* the messages an end may want to send

ASSUME SizesAssumption ==
    /\ {PAYLOAD_SIZE, NOISE_MAX_PAYLOAD_LEN, MAC_LENGTH, HandshakeLength, WriteSize, Capacity} \subseteq Nat \ {0}
    /\ ReadSize >= WriteSize
    /\ ReadSize >= NOISE_MAX_PAYLOAD_LEN + MAC_LENGTH
    /\ PAYLOAD_SIZE + HandshakeLength <= 2 * WriteSize

VARIABLES
    ep,         \* the connection object of each end
    wire,       \* what each end has written and the other not read
    ready,      \* the events the poll will report to an end
    split       \* whether a handshake message was read in pieces

vars == <<ep, wire, ready, split>>

Ends == {"initiator", "responder"}
Other(e) == IF e = "initiator" THEN "responder" ELSE "initiator"

NOISE_MAX_MESSAGE_LEN == NOISE_MAX_PAYLOAD_LEN + MAC_LENGTH

None == [kind |-> "none", id |-> 0]
Msg(kind, id) == [kind |-> kind, id |-> id]
-----------------------------------------------------------------------------
(* The units of a length, and of one noise message.  The last unit of the
   last chunk of a message is marked with it. *)
SizeBytes(n) == [i \in 1..PAYLOAD_SIZE |-> <<"size", n, i>>]
NoiseBytes(nonce, n, m) == [i \in 1..n |-> <<nonce, n, i, IF i = n THEN m ELSE None>>]

(* The noise library accepts these units as the message with this nonce. *)
Authentic(bytes, nonce) ==
    /\ bytes # <<>>
    /\ bytes = NoiseBytes(nonce, Len(bytes), bytes[Len(bytes)][4])

is_post_handshake(c, e) == c.count > IF e = "initiator" THEN 1 ELSE 2

(* A mistake: a shift that loses count. *)
shift(c, n) ==
    [c EXCEPT !.buf = SubSeq(@, n + 1, Len(@)), !.offset = IF n = Len(c.buf) THEN 0 ELSE @ + n]

(* A write goes through the start of the buffer that holds what was read. *)
Staged(c, bytes) ==
    [c EXCEPT !.buf = [i \in DOMAIN @ |-> IF c.offset + i <= Len(bytes) THEN bytes[c.offset + i] ELSE @[i]]]
-----------------------------------------------------------------------------
(* Writing.  The result is the connection, the socket, and whether the write
   would block. *)
flush_socket_once(c, e, w) ==
    LET size == IF is_post_handshake(c, e) /\ WriteSize < Len(c.output_queue)
                THEN WriteSize ELSE Len(c.output_queue)
        staged == Staged(c, SubSeq(c.output_queue, 1, size))
        room == Capacity - Len(w)
        written == IF size < room THEN size ELSE room
    IN  IF room = 0
        THEN [conn |-> [staged EXCEPT !.is_writable = FALSE], wire |-> w, blocks |-> TRUE]
        ELSE [conn |-> [staged EXCEPT !.output_queue = SubSeq(@, written + 1, Len(@))],
              wire |-> w \o SubSeq(c.output_queue, 1, written), blocks |-> FALSE]

(* flush_socket, called while handshaking: what is queued is one message, and
   it is written at once if it fits. *)
flush_handshake(c, e, w) ==
    IF ~c.is_writable THEN [conn |-> c, wire |-> w, blocks |-> FALSE]
    ELSE LET first == flush_socket_once(c, e, w)
         IN  IF first.conn.output_queue # <<>>
             THEN flush_socket_once(first.conn, e, first.wire)
             ELSE first

send_xx_msg(c, e, w, name) ==
    LET queued == [c EXCEPT !.output_queue = @ \o SizeBytes(HandshakeLength) \o
                                              NoiseBytes(<<name, c.session>>, HandshakeLength, None),
                            !.count = @ + 1]
    IN  flush_handshake(queued, e, w)

(* A mistake: the last chunk is counted without what the encryption adds. *)
LengthWithoutTag(n) ==
    (n \div NOISE_MAX_PAYLOAD_LEN) * NOISE_MAX_MESSAGE_LEN + (n % NOISE_MAX_PAYLOAD_LEN)

(* The length of an encrypted message, and the pieces that are left of it. *)
full_msg_len(n) ==
    LET rest == n % NOISE_MAX_PAYLOAD_LEN
    IN  (n \div NOISE_MAX_PAYLOAD_LEN) * NOISE_MAX_MESSAGE_LEN + IF rest # 0 THEN rest + MAC_LENGTH ELSE 0

encrypt_chunk(c) ==
    LET chunk_size == IF c.left < NOISE_MAX_PAYLOAD_LEN THEN c.left ELSE NOISE_MAX_PAYLOAD_LEN
        done == chunk_size = c.left
    IN  [c EXCEPT !.output_queue = @ \o NoiseBytes(c.sent, chunk_size + MAC_LENGTH,
                                                   IF done THEN c.current ELSE None),
                  !.sent = @ + 1,
                  !.left = @ - chunk_size,
                  !.current = IF done THEN None ELSE @]

(* A mistake: the low priority is taken first. *)
DequeueLowFirst(c) ==
    LET m == IF c.low # <<>> THEN Head(c.low) ELSE Head(c.high)
    IN  [c EXCEPT !.low = IF @ # <<>> THEN Tail(@) ELSE @,
                  !.high = IF c.low # <<>> THEN @ ELSE Tail(@),
                  !.current = m,
                  !.left = Length[m.kind],
                  !.output_queue = @ \o SizeBytes(full_msg_len(Length[m.kind]))]

dequeue(c) ==
    LET m == IF c.high # <<>> THEN Head(c.high) ELSE Head(c.low)
    IN  [c EXCEPT !.high = IF @ # <<>> THEN Tail(@) ELSE @,
                  !.low = IF c.high # <<>> THEN @ ELSE Tail(@),
                  !.current = m,
                  !.left = Length[m.kind],
                  !.output_queue = @ \o SizeBytes(full_msg_len(Length[m.kind]))]

enqueue(c, priority, m) ==
    IF priority = "high" THEN [c EXCEPT !.high = Append(@, m)] ELSE [c EXCEPT !.low = Append(@, m)]
-----------------------------------------------------------------------------
(* Handling a message.  The result is the connection, or the handler fails. *)
Failed(c) == [c EXCEPT !.status = "closing", !.pc = "poll", !.expelled = TRUE]

(* A mistake: a pong that is not counted. *)
notify_pong(c) ==
    IF c.pending_pongs <= 0 THEN Failed(c)
    ELSE [c EXCEPT !.pending_pongs = @ - 1]

send_ping(c) == enqueue([c EXCEPT !.pending_pongs = @ + 1], "high", Msg("ping", 0))
send_pong(c) == enqueue(c, "high", Msg("pong", 0))
send_peer_list_resp(c) == enqueue(c, "low", Msg("peer_list", 0))

handle_incoming_message(c, m) ==
    CASE m.kind = "ping" -> send_pong(c)
      [] m.kind = "pong" -> notify_pong(c)
      [] m.kind = "get_peers" -> send_peer_list_resp(c)
      [] OTHER -> c

process_message(c, m) ==
    IF m.kind = "handshake" THEN [c EXCEPT !.handshaken = TRUE]
    ELSE IF ~c.handshaken THEN Failed(c)
    ELSE handle_incoming_message(c, m)
-----------------------------------------------------------------------------
(* Reading.  Each call of read_from_socket takes new units only if none are
   left of the last read. *)
attempt_to_read_length(c, e) ==
    LET n == IF Len(c.buf) < PAYLOAD_SIZE - Len(c.size_bytes) THEN Len(c.buf)
             ELSE PAYLOAD_SIZE - Len(c.size_bytes)
        size_bytes == c.size_bytes \o SubSeq(c.buf, 1, n)
        shifted == shift(c, n)
        expected_size == size_bytes[1][2]
    IN  IF Len(size_bytes) < PAYLOAD_SIZE THEN [shifted EXCEPT !.size_bytes = size_bytes]
        ELSE IF \/ size_bytes # SizeBytes(expected_size)
                \/ ~is_post_handshake(c, e) /\ expected_size > HandshakeLength
             THEN Failed(c)
             ELSE [shifted EXCEPT !.size_bytes = <<>>, !.pending_bytes = expected_size, !.message = <<>>]

(* Decrypts the message in chunks; each has to have the nonce that is next. *)
decrypt(c) ==
    LET len == Len(c.message)
        chunks == (len + NOISE_MAX_MESSAGE_LEN - 1) \div NOISE_MAX_MESSAGE_LEN
        chunk(i) == SubSeq(c.message, (i - 1) * NOISE_MAX_MESSAGE_LEN + 1,
                           IF i = chunks THEN len ELSE i * NOISE_MAX_MESSAGE_LEN)
    IN  IF \A i \in 1..chunks : Authentic(chunk(i), c.received + i - 1)
        THEN process_message([c EXCEPT !.received = @ + chunks, !.message = <<>>], c.message[len][4])
        ELSE Failed(c)

(* A handshake message is taken from the buffer, from where the last read of
   it started.  The first one is not authenticated: units that are not it
   may be refused, or give a session the initiator will not recognise. *)
process_msg_a(c, e, w, bytes) ==
    LET accepted(session) ==
            LET r == send_xx_msg([c EXCEPT !.count = @ + 1, !.session = session], e, w, "B")
            IN  [r EXCEPT !.conn.buf = <<>>, !.conn.offset = 0]
    IN  IF bytes = NoiseBytes(<<"A", "good">>, HandshakeLength, None) THEN {accepted("good")}
        ELSE {accepted("bad"), [conn |-> Failed(c), wire |-> w, blocks |-> FALSE]}

process_msg_b(c, e, w, bytes) ==
    IF Authentic(bytes, <<"B", c.session>>)
    THEN LET r == send_xx_msg([c EXCEPT !.count = @ + 1], e, w, "C")
         IN  {[r EXCEPT !.conn = process_message(shift(r.conn, Len(bytes)), Msg("handshake", 0))]}
    ELSE {[conn |-> Failed(c), wire |-> w, blocks |-> FALSE]}

process_msg_c(c, e, w, bytes) ==
    IF Authentic(bytes, <<"C", c.session>>)
    THEN {[conn |-> process_message(shift([c EXCEPT !.count = @ + 1], Len(bytes)), Msg("handshake", 0)),
           wire |-> w, blocks |-> FALSE]}
    ELSE {[conn |-> Failed(c), wire |-> w, blocks |-> FALSE]}

(* The outcomes of taking what the buffer has of the message.  Before the
   handshake is complete only a whole message is removed from the buffer. *)
process_incoming_msg(c, e, w) ==
    LET to_read == IF c.pending_bytes < Len(c.buf) THEN c.pending_bytes ELSE Len(c.buf)
        bytes == SubSeq(c.buf, 1, to_read)
        taken == [c EXCEPT !.message = @ \o bytes, !.pending_bytes = @ - to_read]
        only(d) == {[conn |-> d, wire |-> w, blocks |-> FALSE]}
    IN  CASE is_post_handshake(c, e) /\ to_read < c.pending_bytes -> only(shift(taken, to_read))
          [] is_post_handshake(c, e) /\ to_read = c.pending_bytes -> only(decrypt(shift(taken, to_read)))
          [] ~is_post_handshake(c, e) /\ to_read < c.pending_bytes -> only(taken)
          [] ~is_post_handshake(c, e) /\ to_read = c.pending_bytes /\ c.count = 0 ->
                process_msg_a(taken, e, w, bytes)
          [] ~is_post_handshake(c, e) /\ to_read = c.pending_bytes /\ c.count = 1 ->
                process_msg_b(taken, e, w, bytes)
          [] OTHER -> process_msg_c(taken, e, w, bytes)

(* The outcomes of read_from_socket once the buffer has units. *)
read_buffer(c, e, w) ==
    LET sized == IF c.pending_bytes = 0 THEN attempt_to_read_length(c, e) ELSE c
    IN  IF sized.status # "closing" /\ sized.pending_bytes # 0 THEN process_incoming_msg(sized, e, w)
        ELSE {[conn |-> sized, wire |-> w, blocks |-> FALSE]}
-----------------------------------------------------------------------------
(* A new connection object; the initiator has queued the first message. *)
new(e) ==
    LET c == [pc |-> "poll", status |-> "candidate", handshaken |-> FALSE, expelled |-> FALSE, count |-> 0,
              session |-> "good", buf |-> <<>>, offset |-> 0, size_bytes |-> <<>>, pending_bytes |-> 0,
              message |-> <<>>, output_queue |-> <<>>, is_writable |-> FALSE, readable |-> FALSE,
              current |-> None, left |-> 0, sent |-> 0, received |-> 0, low |-> <<>>, high |-> <<>>,
              pending_pongs |-> 0, plan |-> Plan[e]]
    IN  IF e = "initiator" THEN send_xx_msg(c, e, <<>>, "A").conn ELSE c

Init ==
    /\ ep = [e \in Ends |-> new(e)]
    /\ wire = [e \in Ends |-> <<>>]
    /\ ready = [e \in Ends |-> [readable |-> FALSE, writable |-> TRUE, blocked |-> FALSE]]
    /\ split = FALSE

(* What a step of e does to its connection and to the socket; a write makes
   the other end readable, a write that would block asks for an event. *)
Wrote(e, r) ==
    /\ ep' = [ep EXCEPT ![e] = r.conn]
    /\ wire' = [wire EXCEPT ![e] = r.wire]
    /\ ready' = [ready EXCEPT ![e].blocked = @ \/ r.blocks,
                              ![Other(e)].readable = @ \/ r.wire # wire[e]]

(* A mistake: only the first event that a socket is writable counts, and none. *)
TickOnceWritable(e) ==
    /\ ep[e].pc = "poll"
    /\ ep[e].status = IF ep[e].handshaken THEN "peer" ELSE "candidate"
    /\ ep' = [ep EXCEPT ![e].pc = "send", ![e].readable = ready[e].readable,
                        ![e].is_writable = @ \/ (ready[e].writable /\ ~ep[e].handshaken)]
    /\ ready' = [ready EXCEPT ![e].readable = FALSE, ![e].writable = FALSE]
    /\ UNCHANGED <<wire, split>>

(* The poll returns: process_network_events starts with the events so far. *)
StartTick(e) ==
    /\ ep[e].pc = "poll"
    /\ ep[e].status = IF ep[e].handshaken THEN "peer" ELSE "candidate"
    /\ ep' = [ep EXCEPT ![e].pc = "send", ![e].readable = ready[e].readable,
                        ![e].is_writable = @ \/ ready[e].writable]
    /\ ready' = [ready EXCEPT ![e].readable = FALSE, ![e].writable = FALSE]
    /\ UNCHANGED <<wire, split>>

(* send_pending_messages: one more chunk, of a message that is taken from the
   queues if none is being written. *)
SendPending(e) ==
    LET c == IF ep[e].current = None THEN dequeue(ep[e]) ELSE ep[e]
        encrypted == encrypt_chunk(c)
    IN  /\ ep[e].pc = "send"
        /\ ep[e].current # None \/ ep[e].high # <<>> \/ ep[e].low # <<>>
        /\ Wrote(e, IF Len(encrypted.output_queue) >= WriteSize
                    THEN flush_socket_once(encrypted, e, wire[e])
                    ELSE [conn |-> encrypted, wire |-> wire[e], blocks |-> FALSE])
        /\ UNCHANGED split

SentPending(e) ==
    /\ ep[e].pc = "send"
    /\ ep[e].current = None /\ ep[e].high = <<>> /\ ep[e].low = <<>>
    /\ ep' = [ep EXCEPT ![e].pc = "flush"]
    /\ UNCHANGED <<wire, ready, split>>

FlushSocket(e) ==
    /\ ep[e].pc = "flush"
    /\ ep[e].is_writable /\ ep[e].output_queue # <<>>
    /\ Wrote(e, flush_socket_once(ep[e], e, wire[e]))
    /\ UNCHANGED split

Flushed(e) ==
    /\ ep[e].pc = "flush"
    /\ ~ep[e].is_writable \/ ep[e].output_queue = <<>>
    /\ ep' = [ep EXCEPT ![e].pc = IF ep[e].readable THEN "read" ELSE "poll"]
    /\ UNCHANGED <<wire, ready, split>>

(* Only a part of a handshake message has been read. *)
InPieces(c, e) == ~is_post_handshake(c, e) /\ c.message # <<>> /\ c.pending_bytes # 0

(* read_from_socket: any number of the units in the socket, if none are left. *)
ReadSocket(e) ==
    /\ ep[e].pc = "read"
    /\ ep[e].buf = <<>> /\ wire[Other(e)] # <<>>
    /\ \E n \in 1..Len(wire[Other(e)]) :
          /\ n <= ReadSize - ep[e].offset
          /\ \E r \in read_buffer([ep[e] EXCEPT !.buf = SubSeq(wire[Other(e)], 1, n)], e, wire[e]) :
                /\ ep' = [ep EXCEPT ![e] = r.conn]
                /\ wire' = [wire EXCEPT ![e] = r.wire, ![Other(e)] = SubSeq(@, n + 1, Len(@))]
                /\ ready' = [ready EXCEPT ![e].blocked = @ \/ r.blocks,
                                          ![Other(e)].readable = @ \/ r.wire # wire[e],
                                          ![Other(e)].writable = @ \/ ready[Other(e)].blocked,
                                          ![Other(e)].blocked = FALSE]
                /\ split' = (split \/ InPieces(r.conn, e))

ReadCarryover(e) ==
    /\ ep[e].pc = "read"
    /\ ep[e].buf # <<>>
    /\ \E r \in read_buffer(ep[e], e, wire[e]) : Wrote(e, r)
    /\ split' = (split \/ InPieces(ep'[e], e))

WouldBlock(e) ==
    /\ ep[e].pc = "read"
    /\ ep[e].buf = <<>> /\ wire[Other(e)] = <<>> /\ ep[Other(e)].status # "closed"
    /\ ep' = [ep EXCEPT ![e].pc = "poll"]
    /\ UNCHANGED <<wire, ready, split>>

(* The peer is gone: an operation on the socket fails, or finds its end. *)
Closed(e) ==
    /\ ep[e].pc # "poll"
    /\ ep[Other(e)].status = "closed"
    /\ ep' = [ep EXCEPT ![e].status = "closing", ![e].pc = "poll"]
    /\ UNCHANGED <<wire, ready, split>>

(* The changes registered for the connection, applied by the poll loop before
   it polls again. *)
Promote(e) ==
    /\ ep[e].status = "candidate" /\ ep[e].handshaken /\ ep[e].pc = "poll"
    /\ ep' = [ep EXCEPT ![e].status = "peer"]
    /\ UNCHANGED <<wire, ready, split>>

(* The object is dropped; what is still on its way may be lost. *)
Drop(e) ==
    /\ ep' = [ep EXCEPT ![e] = [new("responder") EXCEPT !.status = "closed", !.plan = <<>>,
                                                     !.expelled = ep[e].expelled]]
    /\ \E n \in 0..Len(wire[e]) : wire' = [wire EXCEPT ![e] = SubSeq(@, 1, n), ![Other(e)] = <<>>]
    /\ ready' = [ready EXCEPT ![Other(e)].readable = TRUE, ![Other(e)].writable = TRUE]
    /\ UNCHANGED split

RemoveConnection(e) == ep[e].status = "closing" /\ Drop(e)

(* Housekeeping, a request to disconnect or a ban close the connection. *)
GiveUp(e) == ep[e].pc = "poll" /\ ep[e].status \in {"candidate", "peer"} /\ Drop(e)

(* Another thread of the node sends: a packet, a request or a ping. *)
AsyncSend(e) ==
    LET m == Head(ep[e].plan)
    IN  /\ ep[e].pc = "poll" /\ ep[e].status = "peer" /\ ep[e].plan # <<>>
        /\ ep' = [ep EXCEPT ![e] =
                     [(IF m.kind = "ping" THEN send_ping(@) ELSE enqueue(@, "low", m)) EXCEPT !.plan = Tail(@)]]
        /\ UNCHANGED <<wire, ready, split>>
-----------------------------------------------------------------------------
(* The thread that polls the network. *)
PollStep(e) ==
    \/ StartTick(e) \/ SendPending(e) \/ SentPending(e) \/ FlushSocket(e) \/ Flushed(e)
    \/ ReadSocket(e) \/ ReadCarryover(e) \/ WouldBlock(e) \/ Closed(e)
    \/ Promote(e) \/ RemoveConnection(e)

Next == \E e \in Ends : PollStep(e) \/ GiveUp(e) \/ AsyncSend(e)

Spec == Init /\ [][Next]_vars

(* The poll loop of either node does not stop: each round of it ends, and as
   long as the connection is there another one starts. *)
FairSpec ==
    Spec /\ \A e \in Ends : /\ []<>(ep[e].pc = "poll")
                            /\ []<>(ep[e].pc # "poll" \/ ep[e].status = "closed")
-----------------------------------------------------------------------------
Kinds == {"packet", "ping", "pong", "get_peers", "peer_list"}
Messages == {Msg(k, i) : k \in Kinds, i \in 0..3}

(* The messages e has taken from its queues and the other end not handled, as
   read off the units on their way. *)
InTransit(e) ==
    LET r == ep[Other(e)]
        units == r.message \o r.buf \o wire[e] \o ep[e].output_queue
        ends == SelectSeq(units, LAMBDA u : Len(u) = 4 /\ u[4] # None)
    IN  IF r.status = "closed" THEN <<>>
        ELSE [i \in DOMAIN ends |-> ends[i][4]] \o IF ep[e].current # None THEN <<ep[e].current>> ELSE <<>>

Queued(e, queue) == IF \E f \in Ends : ep[f].status = "closed" THEN <<>> ELSE queue

(* The connection implements a channel (connection/mod.rs: send_pending_messages,
   read_stream): whatever the sizes of reads and writes, each message taken
   from the queues is handled by the other end once and in order, until an
   end closes the connection. *)
Promise == INSTANCE Channel WITH
    Ends <- Ends, Message <- Messages,
    low <- [e \in Ends |-> Queued(e, ep[e].low)],
    high <- [e \in Ends |-> Queued(e, ep[e].high)],
    transit <- [e \in Ends |-> InTransit(e)],
    open <- \A e \in Ends : ep[e].status \in {"candidate", "peer"}
ImplementsChannel == Promise!Spec

TypeOK ==
    /\ \A e \in Ends :
          /\ ep[e].pc \in {"poll", "send", "flush", "read"}
          /\ ep[e].status \in {"candidate", "peer", "closing", "closed"}
          /\ ep[e].count \in 0..3
          /\ ep[e].offset + Len(ep[e].buf) <= ReadSize
          /\ Len(ep[e].size_bytes) < PAYLOAD_SIZE
          /\ Len(wire[e]) <= Capacity
    /\ split \in BOOLEAN

(* Two nodes that run this code do not expel each other (process_network_events:
   an error that is not an I/O error expels and soft-bans the peer), unless a
   handshake message reached an end in pieces (process_incoming_msg leaves
   the first piece in the buffer and takes it again).  So no length, nonce,
   staging of a write over unread bytes, order of handshake and first message, or
   count of pongs ever goes wrong.  While both ends keep the connection, the pongs
   an end waits for (ConnectionStats::pending_pongs) are the pings and pongs on
   their way. *)
NoExpulsion ==
    LET all(e) == ep[e].high \o InTransit(e)
        number(s, kind) == Len(SelectSeq(s, LAMBDA m : m.kind = kind))
    IN  /\ (\E e \in Ends : ep[e].expelled) => split
        /\ (\A e \in Ends : ep[e].status = "peer") =>
            \A e \in Ends :
                ep[e].pending_pongs = number(all(e), "ping") + number(all(Other(e)), "pong")

(* Every message an end has queued or taken is handled by the other end, or an
   end closes the connection: no wakeup for a socket that would block is
   lost (flush_socket, notify_writable), and no message is left in a buffer.
   Before that, the handshake comes to its end at both sides. *)
Unsent(e) == ep[e].low # <<>> \/ ep[e].high # <<>> \/ InTransit(e) # <<>>
Gone == \E e \in Ends : ep[e].status = "closed"
EventuallyHandled ==
    /\ <>(Gone \/ \A e \in Ends : ep[e].status = "peer")
    /\ \A e \in Ends : []<>(~Unsent(e) \/ Gone)
=============================================================================
