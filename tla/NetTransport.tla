---------------------------- MODULE NetTransport ----------------------------
(***************************************************************************)
(* The UDP, TCP and TLS transports (infrastructure/udp_transport,           *)
(* tcp_transport, schannel_transport, openssl_transport) and the socket     *)
(* functions below them (socket_support): the life of the one transport     *)
(* that a worker creates, connects, sends with and destroys.                *)
(*                                                                         *)
(* A payload is a number of units: bytes of a stream, datagrams of a UDP    *)
(* batch.  What goes onto the wire is recorded as pairs of a payload and a  *)
(* unit of it.  The peer's part of a TLS handshake is a stream of           *)
(* fragments, two to a message.                                             *)
(***************************************************************************)
EXTENDS Integers, Sequences, Functions

CONSTANTS
    Addresses,          \* bound: addresses that getaddrinfo returns
    Messages,           \* bound: messages of the peer in a handshake
    MaxPayloads,        \* bound: payloads sent
    MaxUnits,           \* bound: units of a payload
    MaximumBatch,       \* maximum_datagram_batch
    MaximumMessage      \* cbMaximumMessage of the TLS session

ASSUME NetTransportAssumption ==
    /\ Addresses \in Nat \ {0} /\ Messages \in Nat \ {0}
    /\ MaxPayloads \in Nat /\ MaxUnits \in Nat
    /\ MaximumBatch \in Nat \ {0} /\ MaximumMessage \in Nat \ {0}

VARIABLES
    kind,               \* the transport: its protocol and, for TLS, its library
    posix,              \* the build: sendmmsg and ECONNREFUSED
    peer,               \* the peer: answers a handshake, or stays silent
    pc,                 \* the place in connect() or send()
    address,            \* the address that connect_socket tries
    open,               \* the socket handles that are open
    candidate,          \* the handle of connect_socket, 0 for none
    socket,             \* the handle of the transport, 0 for none
    blocking, timed,    \* the handles in blocking mode, and with a send time-out
    last_error,         \* the stage and address of the last failure
    coming,             \* fragments the peer has sent
    received,           \* fragments that were read
    input,              \* fragments in the input buffer of the handshake
    consumed,           \* fragments the TLS library has taken
    incomplete,         \* status = SEC_E_INCOMPLETE_MESSAGE
    payload, size,      \* the payload being sent: its number and its units
    offset,             \* units done with
    record,             \* units of the current TLS record on the wire
    wire,               \* history: units that reached the kernel, in order
    skipped             \* history: datagrams given up after ECONNREFUSED

setup == <<kind, posix, peer>>
connection == <<address, open, candidate, socket, blocking, timed, last_error>>
handshake == <<coming, received, input, consumed, incomplete>>
sending == <<payload, size, offset, record, wire, skipped>>
vars == <<setup, pc, connection, handshake, sending>>

Kinds == {"Udp", "Tcp", "Schannel", "OpenSsl"}
Candidate == {"socket", "nonblocking", "connect", "wait", "blocking", "timeout"}
Connecting == Candidate \cup {"lookup", "buffer", "stream", "session", "handshake"}
Fragments == 2 * Messages

(* TransportFactory::create: Schannel belongs to the Windows build.         *)
Init ==
    /\ kind \in Kinds /\ posix \in BOOLEAN
    /\ kind = "Schannel" => ~posix
    /\ kind = "OpenSsl" => posix
    /\ peer \in {"answers", "silent"}
    /\ pc = "created"
    /\ address = 0 /\ open = {} /\ candidate = 0 /\ socket = 0
    /\ blocking = {} /\ timed = {} /\ last_error = <<"unreachable", 0>>
    /\ coming = 0 /\ received = 0 /\ input = 0 /\ consumed = 0 /\ incomplete = FALSE
    /\ payload = 0 /\ size = 0 /\ offset = 0 /\ record = 0
    /\ wire = <<>> /\ skipped = {}

-----------------------------------------------------------------------------
(* connect_socket: each address in turn gets a fresh non-blocking socket.   *)

Lookup ==
    /\ pc = "created"
    /\ pc' = "lookup"
    /\ UNCHANGED <<setup, connection, handshake, sending>>

Resolved ==
    /\ pc = "lookup"
    /\ pc' = "socket" /\ address' = 1
    /\ UNCHANGED <<setup, open, candidate, socket, blocking, timed, last_error,
                   handshake, sending>>

OpenCandidate ==
    /\ pc = "socket"
    /\ candidate' = address
    /\ open' = open \cup {address} /\ blocking' = blocking \cup {address}
    /\ pc' = "nonblocking"
    /\ UNCHANGED <<setup, address, socket, timed, last_error, handshake, sending>>

SetNonblocking ==
    /\ pc = "nonblocking"
    /\ blocking' = blocking \ {candidate}
    /\ pc' = "connect"
    /\ UNCHANGED <<setup, address, open, candidate, socket, timed, last_error,
                   handshake, sending>>

(* connect is done at once, or goes on while wait_for_connect selects.      *)
ConnectCandidate ==
    /\ pc = "connect"
    /\ \/ pc' = "blocking" /\ UNCHANGED last_error
       \/ /\ kind # "Udp"
          /\ pc' = "wait" /\ last_error' = <<"in progress", address>>
    /\ UNCHANGED <<setup, address, open, candidate, socket, blocking, timed,
                   handshake, sending>>

WaitForConnect ==
    /\ pc = "wait"
    /\ pc' = "blocking"
    /\ UNCHANGED <<setup, connection, handshake, sending>>

SetBlocking ==
    /\ pc = "blocking"
    /\ blocking' = blocking \cup {candidate}
    /\ pc' = "timeout"
    /\ UNCHANGED <<setup, address, open, candidate, socket, timed, last_error,
                   handshake, sending>>

(* configure_send_timeout, and the candidate becomes the transport's socket. *)
ReturnCandidate ==
    /\ pc = "timeout"
    /\ timed' = timed \cup {candidate}
    /\ socket' = candidate /\ candidate' = 0
    /\ pc' = "buffer"
    /\ UNCHANGED <<setup, address, open, blocking, last_error, handshake, sending>>

(* Mutant: the handle of a failed candidate is not closed.                  *)
CandidateFailsOpen ==
    /\ pc \in Candidate
    /\ last_error' = <<pc, address>>
    /\ candidate' = 0
    /\ address' = address + 1
    /\ pc' = IF address < Addresses THEN "socket" ELSE "throws"
    /\ UNCHANGED <<setup, open, socket, blocking, timed, handshake, sending>>

(* A stage fails or times out: ~SocketHandle closes the candidate, and the
   next address is tried.  After the last one connect_socket throws.        *)
CandidateFails ==
    /\ pc \in Candidate
    /\ last_error' = <<pc, address>>
    /\ open' = open \ {candidate} /\ candidate' = 0
    /\ address' = address + 1
    /\ pc' = IF address < Addresses THEN "socket" ELSE "throws"
    /\ UNCHANGED <<setup, socket, blocking, timed, handshake, sending>>

-----------------------------------------------------------------------------
(* connect() of the transports.                                             *)

ConfigureBuffer ==
    /\ pc = "buffer"
    /\ pc' = "stream"
    /\ UNCHANGED <<setup, connection, handshake, sending>>

(* configure_tcp_stream or configure_udp_stream.                            *)
ConfigureStream ==
    /\ pc = "stream"
    /\ pc' = IF kind \in {"Schannel", "OpenSsl"} THEN "session" ELSE "ready"
    /\ UNCHANGED <<setup, connection, handshake, sending>>

(* Schannel: acquire_credentials, and the first token of handshake.         *)
AcquireCredentials ==
    /\ pc = "session" /\ kind = "Schannel"
    /\ pc' = "handshake"
    /\ UNCHANGED <<setup, connection, handshake, sending>>

(* OpenSSL: initialize, up to SSL_set_fd.                                   *)
InitializeSession ==
    /\ pc = "session" /\ kind = "OpenSsl"
    /\ pc' = "handshake"
    /\ UNCHANGED <<setup, connection, handshake, sending>>

PeerSends ==
    /\ pc = "handshake" /\ peer = "answers" /\ coming < Fragments
    /\ coming' = coming + 1
    /\ UNCHANGED <<setup, pc, connection, received, input, consumed, incomplete,
                   sending>>

(* Mutant: more is read only when nothing is left, not after an incomplete
   message.                                                                 *)
ReceiveWhenEmpty ==
    /\ pc = "handshake" /\ kind = "Schannel"
    /\ input = 0
    /\ \E n \in 1..(coming - received) :
          received' = received + n /\ input' = input + n
    /\ incomplete' = FALSE
    /\ UNCHANGED <<setup, pc, connection, coming, consumed, sending>>

(* receive_into: recv waits without a time-out.                             *)
Receive ==
    /\ pc = "handshake" /\ kind = "Schannel"
    /\ input = 0 \/ incomplete
    /\ \E n \in 1..(coming - received) :
          received' = received + n /\ input' = input + n
    /\ incomplete' = FALSE
    /\ UNCHANGED <<setup, pc, connection, coming, consumed, sending>>

(* Mutant: the bytes after the message are thrown away.                     *)
InitializeContextDropsExtra ==
    /\ pc = "handshake" /\ kind = "Schannel" /\ input > 0 /\ ~incomplete
    /\ IF input < 2
          THEN incomplete' = TRUE /\ UNCHANGED <<pc, input, consumed>>
          ELSE /\ consumed' = consumed + 2 /\ input' = 0
               /\ pc' = IF consumed' = Fragments THEN "ready" ELSE pc
               /\ UNCHANGED incomplete
    /\ UNCHANGED <<setup, connection, coming, received, sending>>

(* InitializeSecurityContext takes one message and leaves the rest as
   SECBUFFER_EXTRA, or finds the message incomplete; its token is sent.     *)
InitializeContext ==
    /\ pc = "handshake" /\ kind = "Schannel" /\ input > 0 /\ ~incomplete
    /\ IF input < 2
          THEN incomplete' = TRUE /\ UNCHANGED <<pc, input, consumed>>
          ELSE /\ consumed' = consumed + 2 /\ input' = input - 2
               /\ pc' = IF consumed' = Fragments THEN "ready" ELSE pc
               /\ UNCHANGED incomplete
    /\ UNCHANGED <<setup, connection, coming, received, sending>>

(* SSL_connect reads as much as it needs.                                   *)
SslConnect ==
    /\ pc = "handshake" /\ kind = "OpenSsl" /\ coming = Fragments
    /\ consumed' = Fragments /\ received' = Fragments
    /\ pc' = "ready"
    /\ UNCHANGED <<setup, connection, coming, input, incomplete, sending>>

(* getaddrinfo, setsockopt, a TLS call, recv or the check of the certificate
   fails; connect() throws.                                                 *)
ConnectThrows ==
    /\ pc \in {"lookup", "buffer", "stream", "session", "handshake"}
    /\ pc = "stream" => kind # "Udp"
    /\ pc' = "throws"
    /\ UNCHANGED <<setup, connection, handshake, sending>>

-----------------------------------------------------------------------------
(* send() and send_batch().                                                 *)

Units(from, n) == [i \in 1..n |-> <<payload, from + i>>]

StartSend ==
    /\ pc = "ready" /\ payload < MaxPayloads
    /\ payload' = payload + 1
    /\ size' \in 0..MaxUnits
    /\ offset' = 0 /\ record' = 0
    /\ pc' = "sending"
    /\ UNCHANGED <<setup, connection, handshake, wire, skipped>>

(* Mutant: a partial send is repeated from the start of the rest.           *)
SendPartRepeats(k) ==
    /\ pc = "sending" /\ kind = k /\ offset < size
    /\ \E n \in 1..(size - offset) :
          /\ wire' = wire \o Units(offset, n)
          /\ offset' = IF n = size - offset THEN size ELSE offset
    /\ UNCHANGED <<setup, pc, connection, handshake, payload, size, record, skipped>>

(* One send of the loop in send_all: the kernel may take a part.            *)
SendPart(k) ==
    /\ pc = "sending" /\ kind = k /\ offset < size
    /\ \E n \in 1..(size - offset) :
          wire' = wire \o Units(offset, n) /\ offset' = offset + n
    /\ UNCHANGED <<setup, pc, connection, handshake, payload, size, record, skipped>>

SendStream == SendPart("Tcp")

(* SSL_write_ex reports in the same way what it has written.                *)
SslWrite == SendPart("OpenSsl")

(* Schannel: a chunk is encrypted as one record, which send_all sends in parts;
   the peer can read it when it is whole.                                   *)
SendRecord ==
    /\ pc = "sending" /\ kind = "Schannel" /\ offset < size
    /\ LET remaining == size - offset
           chunk == IF remaining < MaximumMessage THEN remaining ELSE MaximumMessage
       IN \E n \in 1..(chunk - record) :
             IF record + n = chunk
                THEN /\ wire' = wire \o Units(offset, chunk)
                     /\ offset' = offset + chunk /\ record' = 0
                ELSE record' = record + n /\ UNCHANGED <<wire, offset>>
    /\ UNCHANGED <<setup, pc, connection, handshake, payload, size, skipped>>

(* sendmmsg or sendmsg_x: some of the block is taken, or a late ECONNREFUSED
   gives up the whole block.                                                *)
SendDatagrams ==
    /\ pc = "sending" /\ kind = "Udp" /\ posix /\ offset < size
    /\ LET remaining == size - offset
           block == IF remaining < MaximumBatch THEN remaining ELSE MaximumBatch
       IN \/ \E n \in 1..block :
                /\ wire' = wire \o Units(offset, n)
                /\ offset' = offset + n /\ UNCHANGED skipped
          \/ /\ skipped' = skipped \cup Range(Units(offset, block))
             /\ offset' = offset + block /\ UNCHANGED wire
    /\ UNCHANGED <<setup, pc, connection, handshake, payload, size, record>>

(* send_datagram: a single payload, or each one of a batch in a build without
   sendmmsg.  Windows was told not to report the refused port.              *)
SendDatagram ==
    /\ pc = "sending" /\ kind = "Udp" /\ offset < size
    /\ posix => size = 1
    /\ offset' = offset + 1
    /\ \/ wire' = wire \o Units(offset, 1) /\ UNCHANGED skipped
       \/ posix /\ skipped' = skipped \cup Range(Units(offset, 1)) /\ UNCHANGED wire
    /\ UNCHANGED <<setup, pc, connection, handshake, payload, size, record>>

(* SendResult::Sent                                                         *)
SendReturns ==
    /\ pc = "sending" /\ offset = size
    /\ pc' = "ready"
    /\ UNCHANGED <<setup, connection, handshake, sending>>

(* A time-out, a closed connection, an oversized datagram or another error. *)
SendThrows ==
    /\ pc = "sending" /\ size > 0 /\ offset < size
    /\ pc' = "throws"
    /\ UNCHANGED <<setup, connection, handshake, sending>>

(* The worker ends, and its transport with it: ~SocketHandle.               *)
Destroy ==
    /\ pc \in {"ready", "throws"}
    /\ open' = open \ {socket} /\ socket' = 0
    /\ pc' = "destroyed"
    /\ UNCHANGED <<setup, address, candidate, blocking, timed, last_error,
                   handshake, sending>>

-----------------------------------------------------------------------------
Proceed ==
    \/ Lookup \/ Resolved \/ OpenCandidate \/ SetNonblocking \/ ConnectCandidate
    \/ WaitForConnect \/ SetBlocking \/ ReturnCandidate \/ CandidateFails
    \/ ConfigureBuffer \/ ConfigureStream \/ AcquireCredentials \/ InitializeSession
    \/ Receive \/ InitializeContext \/ SslConnect
    \/ SendStream \/ SslWrite \/ SendRecord \/ SendDatagrams \/ SendDatagram \/ SendReturns

Next == Proceed \/ PeerSends \/ ConnectThrows \/ StartSend \/ SendThrows \/ Destroy

Spec == Init /\ [][Next]_vars

(* The thread is scheduled and select() has a time-out; a peer that answers
   goes on answering.                                                       *)
FairSpec == Spec /\ WF_vars(Proceed) /\ WF_vars(PeerSends)

-----------------------------------------------------------------------------
(* Every open handle has exactly one owner, the candidate or the transport,
   and none is open after the transport (README:441, sockets live by RAII). *)
HandlesOwned ==
    /\ open = {candidate, socket} \ {0}
    /\ candidate # 0 => candidate # socket
    /\ pc = "destroyed" => open = {}

(* The handshake neither loses nor repeats a fragment, however recv cuts the
   peer's messages, and is complete when connect() returns.                 *)
HandshakeWhole ==
    /\ kind = "Schannel" => received = consumed + input
    /\ pc = "ready" /\ kind \in {"Schannel", "OpenSsl"} => consumed = Fragments

(* Units reach the kernel in order and at most once, and all units of what
   was reported as sent did, or were datagrams given up after ECONNREFUSED. *)
Before(u, v) == u[1] < v[1] \/ (u[1] = v[1] /\ u[2] < v[2])
SentInOrder ==
    /\ \A i \in 1..(Len(wire) - 1) : Before(wire[i], wire[i + 1])
    /\ Range(wire) \cap skipped = {}
    /\ pc = "sending" \/ pc = "ready" =>
          {u \in Range(wire) \cup skipped : u[1] = payload} = Range(Units(0, offset))

(* connect() returns or throws, unless a TLS peer stays silent: the sockets
   have no receive time-out.                                                *)
ConnectReturns ==
    (pc \in Connecting /\ (peer = "answers" \/ kind \in {"Udp", "Tcp"}))
        ~> (pc \notin Connecting)
=============================================================================
