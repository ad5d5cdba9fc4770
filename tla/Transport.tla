----------------------------- MODULE Transport -----------------------------
(***************************************************************************)
(* One SV2 connection from bytes to frames and back: SocketConnection (the *)
(* outbox, corking and write interest), NoiseConnection (handshake and     *)
(* encrypted stream) and the FrameDecoder of the session.  The reactor     *)
(* worker reads, dispatches frames and flushes; a publishing thread sends  *)
(* from the side.  Init chooses the listener: authenticated or plaintext.  *)
(*                                                                         *)
(* The stream towards the pool is a sequence of parts, because reads stop  *)
(* anywhere: a header has two, a payload as many as its size, an encrypted *)
(* chunk one more for its tag.  Towards the miner it is a sequence of      *)
(* ciphertexts, or of frames.  A frame is its number and its size.         *)
(***************************************************************************)
EXTENDS Noise, FiniteSets

CONSTANTS
  Sizes,          \* payload sizes the miner sends
  ReplySizes,     \* payload sizes the session sends
  MaximumPayload, \* maximum_payload_size_
  OutboxLimit,    \* kMaxOutboxBytes, in ciphertexts
  KernelLimit,    \* the socket's send buffer
  MaxFrames,      \* bound: frames the miner sends
  MaxPublished    \* bound: frames a publishing thread sends

HeaderSize == 2
Act1Size == 2

ASSUME TransportAssumption ==
  /\ Sizes \subseteq 0..WireLimit /\ ReplySizes \subseteq 0..WireLimit
  /\ {MaximumPayload, OutboxLimit, KernelLimit, MaxFrames, MaxPublished} \subseteq Nat

VARIABLES
  miner,      \* external: its state, its ciphers, the frames it has sent
  inbox,      \* parts on their way to the pool
  noise,      \* NoiseConnection
  decoder,    \* decoder_ of the session
  session,    \* frames dispatched, whether the session closes
  socket,     \* SocketConnection
  kernel,     \* ciphertexts in the socket's send buffer
  reactor,    \* where the worker is, what it read, the frames to dispatch
  publisher   \* the ciphertexts a publishing thread is about to enqueue

vars == <<miner, inbox, noise, decoder, session, socket, kernel, reactor, publisher>>

Idle == [at |-> "wait", chunk |-> <<>>, frames |-> <<>>]
Quiet == [busy |-> FALSE, units |-> <<>>, sent |-> 0]
EmptyFrame == [header |-> <<>>, payload |-> <<>>]

Init ==
  \E secured \in BOOLEAN :
    /\ miner = [at |-> IF secured THEN "new" ELSE "open", sent |-> <<>>, corrupted |-> FALSE,
                rejected |-> FALSE,
                send |-> Cipher(NoKey), receive |-> Cipher(NoKey)]
    /\ inbox = <<>>
    /\ noise = [state |-> IF secured THEN "awaiting act1" ELSE "plaintext", act1 |-> <<>>,
                partial |-> EmptyFrame, complete |-> FALSE, failure |-> "ok",
                receive |-> Cipher(NoKey), send |-> Cipher(NoKey)]
    /\ decoder = EmptyFrame
    /\ session = [frames |-> <<>>, closing |-> FALSE]
    /\ socket = [outbox |-> <<>>, corked |-> FALSE, armed |-> FALSE, attached |-> TRUE,
                 dead |-> FALSE]
    /\ kernel = <<>>
    /\ reactor = Idle
    /\ publisher = Quiet

------------------------------------------------------------------------------
\* The socket

\* fail_locked: mark dead, drop the outbox, shut the socket down.
Failed(s) == [s EXCEPT !.dead = TRUE, !.outbox = <<>>]

Room == KernelLimit - Len(kernel)

\* drain_locked until the socket is full, then the write interest that fits what
\* is left.  A socket whose peer is gone fails.
Drain(s) ==
  LET n == IF Len(s.outbox) < Room THEN Len(s.outbox) ELSE Room
      left == SubSeq(s.outbox, n + 1, Len(s.outbox))
  IN IF miner.at = "closed" /\ s.outbox /= <<>>
     THEN /\ socket' = Failed(s)
          /\ UNCHANGED kernel
     ELSE /\ socket' = [s EXCEPT !.outbox = left,
                                 !.armed = IF s.attached THEN left /= <<>> ELSE @]
          /\ kernel' = kernel \o SubSeq(s.outbox, 1, n)

\* Fault: what fits the socket is written at once, ahead of the outbox.
EnqueueAhead(units) ==
  IF socket.dead THEN UNCHANGED <<socket, kernel>>
  ELSE IF ~socket.corked /\ Len(units) <= Room
       THEN kernel' = kernel \o units /\ UNCHANGED socket
       ELSE LET s == [socket EXCEPT !.outbox = @ \o units] IN
              IF Len(s.outbox) > OutboxLimit
              THEN socket' = Failed(s) /\ UNCHANGED kernel
              ELSE IF s.corked THEN socket' = s /\ UNCHANGED kernel
                   ELSE Drain(s)

\* send_bytes: a peer that cannot keep up is dropped.
Enqueue(units) ==
  IF socket.dead THEN UNCHANGED <<socket, kernel>>
  ELSE LET s == [socket EXCEPT !.outbox = @ \o units] IN
         IF Len(s.outbox) > OutboxLimit
         THEN socket' = Failed(s) /\ UNCHANGED kernel
         ELSE IF s.corked THEN socket' = s /\ UNCHANGED kernel
              ELSE Drain(s)

------------------------------------------------------------------------------
\* Frames

\* A part of a header or payload: its frame, and which part of it.
Part(frame, i) == [frame |-> frame, part |-> i]
Parts(frame) == [i \in 1..(HeaderSize + frame.size) |-> Part(frame, i)]

\* FrameDecoder::push, part by part.  d.frames are complete; d.failed is set by
\* a payload over the limit, after which the rest is not looked at.
Push(d, p) ==
  LET header == IF Len(d.header) < HeaderSize THEN Append(d.header, p) ELSE d.header
      payload == IF Len(d.header) < HeaderSize THEN d.payload ELSE Append(d.payload, p)
      size == header[1].frame.size
  IN IF d.failed THEN d
     ELSE IF Len(header) < HeaderSize THEN [d EXCEPT !.header = header]
     ELSE IF size > MaximumPayload
          THEN [d EXCEPT !.header = <<>>, !.payload = <<>>, !.failed = TRUE]
     ELSE IF Len(payload) = size
          THEN [d EXCEPT !.header = <<>>, !.payload = <<>>,
                         !.frames = Append(@, [parts |-> header \o payload, size |-> size])]
     ELSE [d EXCEPT !.header = header, !.payload = payload]

\* (The singleton sets have TLC evaluate each step once.)
RECURSIVE PushAll(_, _)
PushAll(d, parts) ==
  IF parts = <<>> THEN d
  ELSE CHOOSE r \in {PushAll(e, Tail(parts)) : e \in {Push(d, Head(parts))}} : TRUE

Decoded(parts) ==
  PushAll([header |-> decoder.header, payload |-> decoder.payload,
           frames |-> <<>>, failed |-> FALSE], parts)

------------------------------------------------------------------------------
\* The encrypted stream

\* A frame as ciphertexts: the header, then the payload in chunks.
SealFrame(cipher, frame) ==
  [k \in 1..(1 + ChunkCount(frame.size)) |->
     Seal([cipher EXCEPT !.nonce = @ + k - 1], <<>>, [frame |-> frame, chunk |-> k - 1])]

CipherParts(c) ==
  LET k == c.plain.chunk
      size == IF k = 0 THEN HeaderSize ELSE ChunkLength(c.plain.frame.size, k) + TagSize
  IN [i \in 1..size |-> [c |-> c, part |-> i]]

\* Fault: the tag is checked against the first part only.
AuthenticStart(cipher, parts) == parts[1].part = 1 /\ Opens(cipher, <<>>, parts[1].c)

\* Parts that are all of one ciphertext, which opens under the cipher.
Authentic(cipher, parts) ==
  /\ \A i \in DOMAIN parts : parts[i].part = i /\ parts[i].c = parts[1].c
  /\ Opens(cipher, <<>>, parts[1].c)

Terminated(n, status) ==
  [n EXCEPT !.state = "terminal", !.act1 = <<>>, !.partial = EmptyFrame,
            !.failure = IF @ = "ok" THEN status ELSE @]

\* The parts of the k-th chunk of an encrypted payload.
ChunkParts(payload, size, k) ==
  LET start == (k - 1) * (ChunkSize + TagSize)
  IN SubSeq(payload, start + 1, start + ChunkLength(size, k) + TagSize)

OpenHeader(n, header) ==
  LET frame == header[1].c.plain.frame
      opened == [n EXCEPT !.receive = Advance(@), !.partial.header = header]
  IN IF ~HasNonces(n.receive, 1) \/ ~Authentic(n.receive, header)
     THEN Terminated(n, "crypto")
     ELSE IF frame.size > MaximumPayload THEN Terminated(opened, "ok")
     ELSE IF frame.size = 0
          THEN [opened EXCEPT !.partial = EmptyFrame, !.plain = @ \o Parts(frame)]
          ELSE opened

\* The plaintext of a chunk's parts, without the tag; damage shows in it.
ChunkPlain(payload, size, k) ==
  LET parts == ChunkParts(payload, size, k)
  IN [i \in 1..ChunkLength(size, k) |->
        Part(parts[i].c.plain.frame,
             IF parts[i].part = 0 THEN 0
             ELSE HeaderSize + (parts[i].c.plain.chunk - 1) * ChunkSize + parts[i].part)]

OpenPayload(n, payload) ==
  LET frame == n.partial.header[1].c.plain.frame
      chunks == ChunkCount(frame.size)
  IN IF \/ ~HasNonces(n.receive, chunks)
        \/ \E k \in 1..chunks :
             ~Authentic([n.receive EXCEPT !.nonce = @ + k - 1],
                        ChunkParts(payload, frame.size, k))
     THEN Terminated(n, "crypto")
     ELSE [n EXCEPT !.receive.nonce = @ + chunks, !.partial = EmptyFrame,
                    !.plain = @ \o SubSeq(Parts(frame), 1, HeaderSize)
                                \o FlattenSeq([k \in 1..chunks |->
                                                 ChunkPlain(payload, frame.size, k)])]

\* decrypt_transport_locked, part by part; n.plain collects what was decrypted.
Decrypt(n, p) ==
  LET header == Append(n.partial.header, p)
      payload == Append(n.partial.payload, p)
  IN IF n.state /= "transport" THEN n
     ELSE IF Len(n.partial.header) < HeaderSize
          THEN IF Len(header) < HeaderSize THEN [n EXCEPT !.partial.header = header]
               ELSE OpenHeader(n, header)
     ELSE IF Len(payload) < CiphertextSize(n.partial.header[1].c.plain.frame.size)
          THEN [n EXCEPT !.partial.payload = payload]
          ELSE OpenPayload(n, payload)

RECURSIVE DecryptAll(_, _)
DecryptAll(n, parts) ==
  IF parts = <<>> THEN n
  ELSE CHOOSE r \in {DecryptAll(m, Tail(parts)) : m \in {Decrypt(n, Head(parts))}} : TRUE

\* establish_transport with what the handshake returned: the transport is open
\* once Act 2 is enqueued.
Establish(n, status) ==
  LET intact == \A i \in DOMAIN n.act1 : n.act1[i].part = i
      answer == Respond(IF intact THEN "miner" ELSE "garbled", "pool")
  IN IF status /= "ok" THEN [noise |-> Terminated(n, status), send |-> <<>>]
     ELSE [noise |-> [n EXCEPT !.state = "transport", !.act1 = <<>>, !.complete = TRUE,
                               !.receive = answer.receive, !.send = answer.send],
           send |-> <<Seal(Cipher(NoKey), <<"act2">>, answer.act2)>>]

\* The start of NoiseConnection::receive: what Act 1 still lacks is taken from the
\* chunk, the rest is to be decrypted.
Opening(n, chunk, status) ==
  LET want == IF n.state = "awaiting act1" THEN Act1Size - Len(n.act1) ELSE 0
      taken == IF want < Len(chunk) THEN want ELSE Len(chunk)
      waiting == [n EXCEPT !.act1 = @ \o SubSeq(chunk, 1, taken)]
  IN (IF n.state = "awaiting act1" /\ taken = want THEN Establish(waiting, status)
      ELSE [noise |-> waiting, send |-> <<>>])
     @@ [rest |-> SubSeq(chunk, taken + 1, Len(chunk))]

------------------------------------------------------------------------------
\* The miner (external)

Act1 == Seal(Cipher(NoKey), <<"act1">>, "miner")

MinerHello ==
  /\ miner.at = "new"
  /\ miner' = [miner EXCEPT !.at = "waiting"]
  /\ inbox' = inbox \o [i \in 1..Act1Size |-> [c |-> Act1, part |-> i]]
  /\ UNCHANGED <<noise, decoder, session, socket, kernel, reactor, publisher>>

MinerSend(size) ==
  /\ miner.at = "open" /\ Len(miner.sent) < MaxFrames
  /\ LET frame == [id |-> Len(miner.sent) + 1, size |-> size]
         sealed == SealFrame(miner.send, frame)
     IN IF noise.state = "plaintext"
        THEN /\ inbox' = inbox \o Parts(frame)
             /\ miner' = [miner EXCEPT !.sent = Append(@, frame)]
        ELSE /\ HasNonces(miner.send, Len(sealed))
             /\ inbox' = inbox \o FlattenSeq([k \in DOMAIN sealed |-> CipherParts(sealed[k])])
             /\ miner' = [miner EXCEPT !.sent = Append(@, frame),
                                       !.send.nonce = @ + Len(sealed)]
  /\ UNCHANGED <<noise, decoder, session, socket, kernel, reactor, publisher>>

\* A part of an encrypted stream is damaged on the way.
Damage ==
  /\ noise.state /= "plaintext" /\ ~miner.corrupted
  /\ \E i \in DOMAIN inbox : inbox' = [inbox EXCEPT ![i].part = 0]
  /\ miner' = [miner EXCEPT !.corrupted = TRUE]
  /\ UNCHANGED <<noise, decoder, session, socket, kernel, reactor, publisher>>

MinerRead ==
  /\ kernel /= <<>> /\ miner.at \in {"waiting", "open"}
  /\ LET unit == Head(kernel)
         answer == Initiate("miner", unit.plain)
     IN miner' =
          IF miner.at = "waiting"
          THEN IF unit.ad = <<"act2">> /\ answer.accepts
               THEN [miner EXCEPT !.at = "open", !.send = answer.send,
                                  !.receive = answer.receive]
               ELSE [miner EXCEPT !.at = "closed", !.rejected = TRUE]
          ELSE IF Opens(miner.receive, <<>>, unit)
               THEN [miner EXCEPT !.receive = Advance(@)]
               ELSE [miner EXCEPT !.at = "closed", !.rejected = TRUE]
  /\ kernel' = Tail(kernel)
  /\ UNCHANGED <<inbox, noise, decoder, session, socket, reactor, publisher>>

MinerClose ==
  /\ miner.at /= "closed"
  /\ miner' = [miner EXCEPT !.at = "closed"]
  /\ UNCHANGED <<inbox, noise, decoder, session, socket, kernel, reactor, publisher>>

------------------------------------------------------------------------------
\* The reactor worker: handle_readable and the EPOLLOUT branch of the loop

\* recv returns what has arrived; replies are held back until the end.
Recv ==
  /\ reactor.at = "wait" /\ inbox /= <<>>
  /\ \E n \in 1..Len(inbox) :
       /\ reactor' = [Idle EXCEPT !.at = "receive", !.chunk = SubSeq(inbox, 1, n)]
       /\ inbox' = SubSeq(inbox, n + 1, Len(inbox))
  /\ socket' = [socket EXCEPT !.corked = TRUE]
  /\ UNCHANGED <<miner, noise, decoder, session, kernel, publisher>>

\* What the handshake may report: done, a certificate out of date, no randomness.
HandshakeStatus == {"ok", "expired", "crypto"}

\* NoiseConnection::receive decrypts the chunk; the session's decoder is pushed
\* the plaintext, or the chunk itself on the plaintext listener.
Receive ==
  /\ reactor.at = "receive"
  /\ \E o \in {Opening(noise, reactor.chunk, status) : status \in HandshakeStatus} :
     \E n \in {DecryptAll(o.noise @@ [plain |-> <<>>], o.rest)} :
     \E d \in {Decoded(IF noise.state = "plaintext" THEN reactor.chunk ELSE n.plain)} :
       /\ noise' = [f \in DOMAIN noise |-> n[f]]
       /\ Enqueue(o.send)
       /\ decoder' = [header |-> d.header, payload |-> d.payload]
       /\ session' = [session EXCEPT !.closing = @ \/ d.failed]
       /\ reactor' = [Idle EXCEPT !.at = "dispatch", !.frames = d.frames]
  /\ UNCHANGED <<miner, inbox, publisher>>

\* The next frame the session or a publisher sends.
Outgoing(size) == [id |-> 0, size |-> size]

\* NoiseConnection::send_bytes up to the ciphertexts: all nonces are there or
\* the connection ends, and nothing is sent before the handshake is over.
Encrypted(size) ==
  LET sealed == SealFrame(noise.send, Outgoing(size)) IN
  CASE noise.state = "plaintext" ->
         [noise |-> [noise EXCEPT !.send = Advance(@)], units |-> <<sealed[1]>>]
    [] noise.state = "terminal" -> [noise |-> noise, units |-> <<>>]
    [] noise.state = "transport" /\ HasNonces(noise.send, Len(sealed)) ->
         [noise |-> [noise EXCEPT !.send.nonce = @ + Len(sealed)], units |-> sealed]
    [] OTHER -> [noise |-> Terminated(noise, "crypto"), units |-> <<>>]

\* The session handles a frame under its mutex, and may answer.
Dispatch ==
  /\ reactor.at = "dispatch" /\ reactor.frames /= <<>> /\ ~publisher.busy
  /\ session' = [session EXCEPT !.frames = Append(@, Head(reactor.frames))]
  /\ reactor' = [reactor EXCEPT !.frames = Tail(@)]
  /\ \/ UNCHANGED <<noise, socket, kernel>>
     \/ \E size \in ReplySizes :
          LET e == Encrypted(size) IN noise' = e.noise /\ Enqueue(e.units)
  /\ UNCHANGED <<miner, inbox, decoder, publisher>>

\* Fault: uncork leaves the outbox to the next send.
UncorkOnly ==
  /\ reactor.at = "dispatch" /\ reactor.frames = <<>>
  /\ reactor' = [reactor EXCEPT !.at = "check"]
  /\ socket' = [socket EXCEPT !.corked = FALSE]
  /\ UNCHANGED <<miner, inbox, noise, decoder, session, kernel, publisher>>

\* uncork writes what was held back.
Uncork ==
  /\ reactor.at = "dispatch" /\ reactor.frames = <<>>
  /\ reactor' = [reactor EXCEPT !.at = "check"]
  /\ LET s == [socket EXCEPT !.corked = FALSE] IN
       IF s.dead THEN socket' = s /\ UNCHANGED kernel ELSE Drain(s)
  /\ UNCHANGED <<miner, inbox, noise, decoder, session, publisher>>

\* remove_connection: finish() ends the Noise stream once no send is under way,
\* then the socket is detached from epoll and dead.
RemoveConnection ==
  /\ ~publisher.busy
  /\ noise' = IF noise.state = "plaintext" THEN noise ELSE Terminated(noise, "ok")
  /\ socket' = [socket EXCEPT !.dead = TRUE, !.attached = FALSE]
  /\ reactor' = [Idle EXCEPT !.at = "gone"]
  /\ UNCHANGED <<miner, inbox, decoder, session, kernel, publisher>>

ShouldClose == socket.dead \/ noise.state = "terminal" \/ session.closing

AfterRead ==
  /\ reactor.at = "check"
  /\ IF ShouldClose THEN RemoveConnection
     ELSE /\ reactor' = Idle
          /\ UNCHANGED <<miner, inbox, noise, decoder, session, socket, kernel, publisher>>

\* End of stream, or the sweep finds a connection that is to be closed.
Reap ==
  /\ reactor.at = "wait"
  /\ (inbox = <<>> /\ miner.at = "closed") \/ ShouldClose
  /\ RemoveConnection

\* EPOLLOUT: the socket has room again.
Flush ==
  /\ reactor.at = "wait" /\ socket.armed /\ (Room > 0 \/ miner.at = "closed")
  /\ ~socket.dead
  /\ Drain(socket)
  /\ UNCHANGED <<miner, inbox, noise, decoder, session, reactor, publisher>>

------------------------------------------------------------------------------
\* A publishing thread: encrypts under the session's mutex, which a dispatching
\* reactor holds, then hands the ciphertexts to the socket.  Sessions are sent
\* work only once the miner has set a channel up.

Publish ==
  /\ session.frames /= <<>> /\ reactor.frames = <<>>
  /\ ~publisher.busy /\ publisher.sent < MaxPublished
  /\ \E size \in ReplySizes :
       LET e == Encrypted(size) IN
         /\ noise' = e.noise
         /\ publisher' = [busy |-> e.units /= <<>>, units |-> e.units,
                          sent |-> publisher.sent + 1]
  /\ UNCHANGED <<miner, inbox, decoder, session, socket, kernel, reactor>>

PublishSend ==
  /\ publisher.busy
  /\ IF noise.state = "terminal" THEN UNCHANGED <<socket, kernel>>
     ELSE Enqueue(publisher.units)
  /\ publisher' = [publisher EXCEPT !.busy = FALSE, !.units = <<>>]
  /\ UNCHANGED <<miner, inbox, noise, decoder, session, reactor>>

------------------------------------------------------------------------------
Next ==
  \/ MinerHello \/ (\E size \in Sizes : MinerSend(size)) \/ Damage \/ MinerRead \/ MinerClose
  \/ Recv \/ Receive \/ Dispatch \/ Uncork \/ AfterRead \/ Reap \/ Flush
  \/ Publish \/ PublishSend

\* The reactor and a publisher that has begun keep going.  A miner that has not
\* closed reads; TCP_USER_TIMEOUT ends a connection whose peer does not.
Fairness ==
  /\ WF_vars(Recv \/ Receive \/ Dispatch \/ Uncork \/ AfterRead) /\ WF_vars(Reap)
  /\ WF_vars(Flush) /\ WF_vars(PublishSend) /\ WF_vars(MinerRead)

Spec == Init /\ [][Next]_vars /\ Fairness

------------------------------------------------------------------------------
\* send_bytes and establish_transport: the miner can decrypt everything it is
\* sent, Act 2 first, under the keys it derived itself and without a nonce
\* missing or used twice, whatever the reactor, a publisher, corking and partial
\* writes make of the order.  Only a damaged Act 1 makes it refuse, and no nonce
\* is taken beyond the last (check_nonce_capacity).
MinerDecryptsAll ==
  /\ miner.rejected => miner.corrupted
  /\ noise.state /= "plaintext" => noise.send.nonce <= MaxNonce

\* receive and FrameDecoder::push: the session is given the frames the miner
\* sent, in order, each whole, however the stream was cut into reads, and none
\* that is over the limit; damage ends the stream and never changes a frame.
FramesArriveIntact ==
  /\ Len(session.frames) <= Len(miner.sent)
  /\ \A i \in DOMAIN session.frames :
       /\ session.frames[i].parts = Parts(miner.sent[i])
       /\ miner.sent[i].size <= MaximumPayload

\* flush_after_enqueue_locked, uncork and flush_outbox: what is in the outbox is
\* written or dropped with the connection, never left without write interest.
OutboxDrains == socket.outbox /= <<>> ~> (socket.outbox = <<>> \/ socket.dead)
==============================================================================
