-------------------------- MODULE NetTransportProofs --------------------------
(***************************************************************************)
(* NetTransport for any number of addresses, any handshake, any payloads    *)
(* and any limits of a batch and a record.  The three properties fail for   *)
(* different reasons and are kept apart: an invariant each, which adds what *)
(* a place of connect() and send() says of the variables it works on.       *)
(***************************************************************************)
EXTENDS NetTransport, SequenceTheorems, TLAPS

-----------------------------------------------------------------------------
(* Handles.                                                                 *)

Trying == Candidate \ {"socket"}
Owning == {"buffer", "stream", "session", "handshake", "ready", "sending"}

HandleInv ==
    /\ HandlesOwned
    /\ address \in Nat
    /\ pc \in {"created", "lookup", "socket"} => candidate = 0 /\ socket = 0
    /\ pc = "socket" => address # 0
    /\ pc \in Trying => candidate # 0 /\ candidate = address /\ socket = 0
    /\ pc \in Owning \cup {"throws"} => candidate = 0

(* Every step of the transport keeps each open handle with its one owner.   *)
LEMMA HandleStep ==
    ASSUME HandleInv, [Next]_vars
    PROVE  HandleInv'
<1> USE DEF HandleInv, HandlesOwned, Trying, Owning, Candidate
<1>1. CASE UNCHANGED vars
    BY <1>1 DEF vars, setup, connection, handshake, sending
<1>2. CASE Lookup \/ Resolved \/ OpenCandidate \/ SetNonblocking
    BY <1>2 DEF Lookup, Resolved, OpenCandidate, SetNonblocking,
                setup, connection, handshake, sending
<1>3. CASE ConnectCandidate \/ WaitForConnect \/ SetBlocking \/ ReturnCandidate
    BY <1>3 DEF ConnectCandidate, WaitForConnect, SetBlocking, ReturnCandidate,
                setup, connection, handshake, sending
<1>4. CASE CandidateFails
    BY <1>4 DEF CandidateFails, setup, connection, handshake, sending
<1>5. CASE \/ ConfigureBuffer \/ ConfigureStream \/ AcquireCredentials
           \/ InitializeSession \/ PeerSends \/ Receive \/ SslConnect \/ ConnectThrows
    BY <1>5 DEF ConfigureBuffer, ConfigureStream, AcquireCredentials, InitializeSession,
                PeerSends, Receive, SslConnect, ConnectThrows,
                setup, connection, handshake, sending
<1>6. CASE InitializeContext
    BY <1>6 DEF InitializeContext, setup, connection, handshake, sending
<1>7. CASE StartSend \/ SendReturns \/ SendThrows
    BY <1>7 DEF StartSend, SendReturns, SendThrows, setup, connection, handshake, sending
<1>8. CASE SendStream \/ SslWrite \/ SendRecord \/ SendDatagrams \/ SendDatagram
    BY <1>8 DEF SendStream, SslWrite, SendPart, SendRecord, SendDatagrams, SendDatagram,
                setup, connection, handshake, sending
<1>9. CASE Destroy
    BY <1>9 DEF Destroy, setup, connection, handshake, sending
<1> QED BY <1>1, <1>2, <1>3, <1>4, <1>5, <1>6, <1>7, <1>8, <1>9 DEF Next, Proceed

(* No socket leaks and none is closed twice or used after it was closed:
   connect_socket's candidates (socket_support.cpp) and the transports own
   the open handles between them, however many addresses fail at whatever
   stage.                                                                   *)
THEOREM HandlesCorrect == Spec => []HandlesOwned
<1>1. Init => HandleInv
    BY DEF Init, HandleInv, HandlesOwned, Trying, Owning, Candidate
<1>2. HandleInv /\ [Next]_vars => HandleInv'
    BY HandleStep
<1>3. HandleInv => HandlesOwned
    BY DEF HandleInv
<1> QED BY <1>1, <1>2, <1>3, PTL DEF Spec

-----------------------------------------------------------------------------
(* The handshake.                                                           *)

Tls == {"Schannel", "OpenSsl"}

HandshakeInv ==
    /\ received \in Int /\ input \in Int /\ consumed \in Int
    /\ kind = "Schannel" => received = consumed + input
    /\ kind \in Tls /\ pc \in {"ready", "sending"} => consumed = Fragments

(* Every step of the transport keeps the fragments of the handshake.        *)
LEMMA HandshakeStep ==
    ASSUME HandshakeInv, [Next]_vars
    PROVE  HandshakeInv'
<1>0. Fragments \in Int
    BY NetTransportAssumption DEF Fragments
<1> USE DEF HandshakeInv, Tls
<1>1. CASE UNCHANGED vars
    BY <1>1 DEF vars, setup, connection, handshake, sending
<1>2. CASE \/ Lookup \/ Resolved \/ OpenCandidate \/ SetNonblocking
           \/ ConnectCandidate \/ WaitForConnect \/ SetBlocking \/ ReturnCandidate
           \/ CandidateFails
    BY <1>2 DEF Lookup, Resolved, OpenCandidate, SetNonblocking, ConnectCandidate,
                WaitForConnect, SetBlocking, ReturnCandidate, CandidateFails,
                setup, connection, handshake, sending
<1>3. CASE \/ ConfigureBuffer \/ ConfigureStream \/ AcquireCredentials
           \/ InitializeSession \/ PeerSends \/ ConnectThrows
    BY <1>3 DEF ConfigureBuffer, ConfigureStream, AcquireCredentials, InitializeSession,
                PeerSends, ConnectThrows, setup, connection, handshake, sending
<1>4. CASE Receive
    <2>1. PICK n \in Int : received' = received + n /\ input' = input + n
        BY <1>4 DEF Receive
    <2> QED BY <1>4, <2>1 DEF Receive, setup, connection, handshake, sending
<1>5. CASE InitializeContext
    BY <1>0, <1>5 DEF InitializeContext, setup, connection, handshake, sending
<1>6. CASE SslConnect
    BY <1>0, <1>6 DEF SslConnect, setup, connection, handshake, sending
<1>7. CASE StartSend \/ SendReturns \/ SendThrows \/ Destroy
    BY <1>7 DEF StartSend, SendReturns, SendThrows, Destroy,
                setup, connection, handshake, sending
<1>8. CASE SendStream \/ SslWrite \/ SendRecord \/ SendDatagrams \/ SendDatagram
    BY <1>8 DEF SendStream, SslWrite, SendPart, SendRecord, SendDatagrams, SendDatagram,
                setup, connection, handshake, sending
<1> QED BY <1>1, <1>2, <1>3, <1>4, <1>5, <1>6, <1>7, <1>8 DEF Next, Proceed

(* However recv cuts the peer's messages, SchannelTransport::handshake loses
   and repeats nothing of them, and connect() returns with a complete one.   *)
THEOREM HandshakeCorrect == Spec => []HandshakeWhole
<1>1. Init => HandshakeInv
    BY DEF Init, HandshakeInv, Tls
<1>2. HandshakeInv /\ [Next]_vars => HandshakeInv'
    BY HandshakeStep
<1>3. HandshakeInv => HandshakeWhole
    BY DEF HandshakeInv, HandshakeWhole, Tls
<1> QED BY <1>1, <1>2, <1>3, PTL DEF Spec

-----------------------------------------------------------------------------
(* Sending.                                                                 *)

Unit == Nat \X Nat

Ordered == \A i \in 1..(Len(wire) - 1) : Before(wire[i], wire[i + 1])

(* No unit is ahead of the place that send() has reached.                   *)
Reached(u) == u[1] < payload \/ (u[1] = payload /\ u[2] <= offset)

SendInv ==
    /\ payload \in Nat /\ size \in Nat /\ record \in Int
    /\ offset \in Nat /\ offset <= size
    /\ wire \in Seq(Unit) /\ skipped \subseteq Unit
    /\ Ordered
    /\ Range(wire) \cap skipped = {}
    /\ \A u \in Range(wire) \cup skipped : Reached(u)
    /\ pc \notin {"throws", "destroyed"} =>
          {u \in Range(wire) \cup skipped : u[1] = payload} = Range(Units(0, offset))

(* A block of units is a sequence of the current payload's numbers.          *)
LEMMA UnitsAre ==
    ASSUME payload \in Nat, NEW from \in Nat, NEW n \in Nat
    PROVE  /\ Units(from, n) \in Seq(Unit) /\ Len(Units(from, n)) = n
           /\ \A i \in 1..n : Units(from, n)[i] = <<payload, from + i>>
           /\ Range(Units(from, n)) = {<<payload, k>> : k \in (from + 1)..(from + n)}
<1>1. Units(from, n) \in [1..n -> Unit]
    BY DEF Units, Unit
<1>2. Units(from, n) \in Seq(Unit) /\ Len(Units(from, n)) = n
    BY <1>1
<1>3. \A i \in 1..n : Units(from, n)[i] = <<payload, from + i>>
    BY DEF Units
<1>4. ASSUME NEW k \in (from + 1)..(from + n)
      PROVE  <<payload, k>> \in Range(Units(from, n))
    <2>1. k - from \in 1..n /\ from + (k - from) = k
        OBVIOUS
    <2> QED BY <1>1, <1>3, <2>1 DEF Range
<1>5. ASSUME NEW u \in Range(Units(from, n))
      PROVE  u \in {<<payload, k>> : k \in (from + 1)..(from + n)}
    <2>1. PICK i \in 1..n : u = <<payload, from + i>>
        BY <1>1, <1>3 DEF Range
    <2>2. from + i \in (from + 1)..(from + n)
        OBVIOUS
    <2> QED BY <2>1, <2>2
<1> QED BY <1>2, <1>3, <1>4, <1>5

(* Units of the rest of the payload follow everything on the wire.          *)
LEMMA Follows ==
    ASSUME SendInv, NEW n \in Nat, n # 0
    PROVE  LET longer == wire \o Units(offset, n)
           IN  /\ longer \in Seq(Unit)
               /\ Range(longer) = Range(wire) \cup Range(Units(offset, n))
               /\ \A i \in 1..(Len(longer) - 1) : Before(longer[i], longer[i + 1])
<1> DEFINE block == Units(offset, n)
           longer == wire \o block
<1>1. /\ block \in Seq(Unit) /\ Len(block) = n
      /\ \A i \in 1..n : block[i] = <<payload, offset + i>>
    BY UnitsAre DEF SendInv
<1>2. wire \in Seq(Unit) /\ payload \in Nat /\ offset \in Nat
    BY DEF SendInv
<1>3. /\ longer \in Seq(Unit) /\ Len(longer) = Len(wire) + n
      /\ \A i \in 1..(Len(wire) + n) :
            longer[i] = IF i <= Len(wire) THEN wire[i] ELSE block[i - Len(wire)]
    BY <1>1, <1>2, ConcatProperties
<1>4. Range(longer) = Range(wire) \cup Range(block)
    BY <1>1, <1>2, RangeConcatenation
<1> HIDE DEF block, longer
<1>5. ASSUME NEW i \in 1..(Len(longer) - 1)
      PROVE  Before(longer[i], longer[i + 1])
    <2>0. Len(wire) \in Nat /\ i \in 1..(Len(wire) + n) /\ i + 1 \in 1..(Len(wire) + n)
        BY <1>2, <1>3
    <2>1. CASE i < Len(wire)
        <3>1. longer[i] = wire[i] /\ longer[i + 1] = wire[i + 1] /\ i \in 1..(Len(wire) - 1)
            BY <1>3, <2>0, <2>1
        <3> QED BY <3>1 DEF SendInv, Ordered
    <2>2. CASE i = Len(wire)
        <3>1. longer[i] = wire[i] /\ longer[i + 1] = block[1]
            BY <1>3, <2>0, <2>2
        <3>2. block[1] = <<payload, offset + 1>>
            BY <1>1
        <3>3. wire[i] \in Range(wire) /\ wire[i] \in Unit
            BY <1>2, <2>0, <2>2 DEF Range
        <3>4. Reached(wire[i])
            BY <3>3 DEF SendInv
        <3> QED BY <1>2, <3>1, <3>2, <3>3, <3>4 DEF Before, Reached, Unit
    <2>3. CASE i > Len(wire)
        <3> DEFINE j == i - Len(wire)
        <3>1. j \in 1..n /\ j + 1 \in 1..n /\ (i + 1) - Len(wire) = j + 1
            BY <1>3, <2>0, <2>3
        <3>2. longer[i] = block[j] /\ longer[i + 1] = block[j + 1]
            BY <1>3, <2>0, <2>3, <3>1
        <3>3. longer[i] = <<payload, offset + j>> /\ longer[i + 1] = <<payload, offset + (j + 1)>>
            BY <1>1, <3>1, <3>2
        <3> QED BY <1>2, <3>1, <3>3 DEF Before
    <2> QED BY <1>2, <2>0, <2>1, <2>2, <2>3
<1> QED BY <1>3, <1>4, <1>5 DEF longer, block

(* Whatever hands the next units to the kernel, or gives them up, keeps the
   order and the account.                                                   *)
LEMMA Advance ==
    ASSUME SendInv, pc = "sending", NEW n \in Nat, n # 0, offset + n <= size,
           offset' = offset + n, payload' = payload, size' = size, record' \in Int,
           \/ wire' = wire \o Units(offset, n) /\ skipped' = skipped
           \/ skipped' = skipped \cup Range(Units(offset, n)) /\ wire' = wire
    PROVE  SendInv'
<1> DEFINE block == Range(Units(offset, n))
           done  == Range(wire) \cup skipped
<1>0. payload \in Nat /\ size \in Nat /\ offset \in Nat /\ done \subseteq Unit
    BY RangeOfSeq DEF SendInv
<1>1. block = {<<payload, k>> : k \in (offset + 1)..(offset + n)}
    BY <1>0, UnitsAre
<1>2. Range(Units(0, offset)) = {<<payload, k>> : k \in 1..offset}
    BY <1>0, UnitsAre
<1>3. Range(Units(0, offset))' = {<<payload, k>> : k \in 1..(offset + n)}
    <2>1. Units(0, offset)' = Units(0, offset + n)
        BY DEF Units
    <2>2. offset + n \in Nat /\ (0 + 1)..(0 + (offset + n)) = 1..(offset + n)
        BY <1>0
    <2>3. Range(Units(0, offset + n)) = {<<payload, k>> : k \in (0 + 1)..(0 + (offset + n))}
        BY <1>0, <2>2, UnitsAre
    <2> QED BY <2>1, <2>2, <2>3 DEF Range
<1>4. block \cap done = {}
    BY <1>0, <1>1 DEF SendInv, Reached
<1>5. block \subseteq Unit
    BY <1>0, <1>1 DEF Unit
<1>6. /\ wire' \in Seq(Unit) /\ skipped' \subseteq Unit /\ Ordered'
      /\ (Range(wire) \cup skipped)' = done \cup block
      /\ Range(wire') \cap skipped' = {}
    BY <1>4, <1>5, Follows DEF SendInv, Ordered
<1>7. \A u \in done \cup block : Reached(u)'
    BY <1>0, <1>1 DEF SendInv, Reached, Unit
<1>8. {u \in done \cup block : u[1] = payload} = {<<payload, k>> : k \in 1..(offset + n)}
    <2>1. {u \in done : u[1] = payload} = {<<payload, k>> : k \in 1..offset}
        BY <1>2 DEF SendInv
    <2>2. {u \in block : u[1] = payload} = {<<payload, k>> : k \in (offset + 1)..(offset + n)}
        BY <1>1
    <2> HIDE DEF block, done
    <2>3. 1..(offset + n) = (1..offset) \cup ((offset + 1)..(offset + n))
        BY <1>0
    <2> QED BY <2>1, <2>2, <2>3
<1> QED BY <1>0, <1>3, <1>6, <1>7, <1>8 DEF SendInv

(* Every step of the transport keeps the order and the account.             *)
LEMMA SendStep ==
    ASSUME SendInv, [Next]_vars
    PROVE  SendInv'
<1>0. payload \in Nat /\ size \in Nat /\ offset \in Nat /\ offset <= size /\ record \in Int
    BY DEF SendInv
<1>1. CASE UNCHANGED vars
    BY <1>1 DEF vars, sending, SendInv, Ordered, Reached, Units
<1>2. CASE \/ Lookup \/ Resolved \/ OpenCandidate \/ SetNonblocking
           \/ ConnectCandidate \/ WaitForConnect \/ SetBlocking \/ ReturnCandidate
           \/ CandidateFails
    <2>1. UNCHANGED sending /\ pc \notin {"throws", "destroyed"}
        BY <1>2 DEF Lookup, Resolved, OpenCandidate, SetNonblocking, ConnectCandidate,
                    WaitForConnect, SetBlocking, ReturnCandidate, CandidateFails, Candidate
    <2> QED BY <2>1 DEF sending, SendInv, Ordered, Reached, Units
<1>3. CASE \/ ConfigureBuffer \/ ConfigureStream \/ AcquireCredentials
           \/ InitializeSession \/ PeerSends \/ ConnectThrows
           \/ Receive \/ InitializeContext \/ SslConnect
           \/ SendReturns \/ SendThrows
    <2>1. UNCHANGED sending /\ pc \notin {"throws", "destroyed"}
        BY <1>3 DEF ConfigureBuffer, ConfigureStream, AcquireCredentials,
                    InitializeSession, PeerSends, ConnectThrows, Receive,
                    InitializeContext, SslConnect, SendReturns, SendThrows
    <2> QED BY <2>1 DEF sending, SendInv, Ordered, Reached, Units
<1>4. CASE Destroy
    <2>1. UNCHANGED sending /\ pc' = "destroyed"
        BY <1>4 DEF Destroy
    <2> QED BY <2>1 DEF sending, SendInv, Ordered, Reached
<1>5. CASE StartSend
    <2>1. /\ wire' = wire /\ skipped' = skipped /\ payload' = payload + 1
          /\ offset' = 0 /\ record' = 0 /\ size' \in Nat
        BY <1>5, NetTransportAssumption DEF StartSend
    <2>2. Range(wire) \cup skipped \subseteq Unit
        BY RangeOfSeq DEF SendInv
    <2>3. \A u \in Range(wire) \cup skipped : u[1] <= payload
        BY <1>0, <2>2 DEF SendInv, Reached, Unit
    <2>4. {u \in Range(wire) \cup skipped : u[1] = payload + 1} = {}
        BY <1>0, <2>2, <2>3 DEF Unit
    <2>5. \A u \in Range(wire) \cup skipped : Reached(u)'
        BY <1>0, <2>1, <2>2, <2>3 DEF Reached, Unit
    <2>6. Range(Units(0, offset)') = {}
        BY <2>1 DEF Units, Range
    <2> QED BY <1>0, <2>1, <2>4, <2>5, <2>6 DEF SendInv, Ordered
<1>6. CASE SendStream \/ SslWrite
    <2>1. PICK k \in {"Tcp", "OpenSsl"} : SendPart(k)
        BY <1>6 DEF SendStream, SslWrite
    <2>2. PICK n \in 1..(size - offset) :
             wire' = wire \o Units(offset, n) /\ offset' = offset + n
        BY <2>1 DEF SendPart
    <2>3. n \in Nat /\ n # 0 /\ offset + n <= size
        BY <1>0, <2>2
    <2> QED BY <1>0, <2>1, <2>2, <2>3, Advance DEF SendPart
<1>7. CASE SendRecord
    <2> DEFINE remaining == size - offset
               chunk == IF remaining < MaximumMessage THEN remaining ELSE MaximumMessage
    <2>0. chunk \in Nat /\ chunk # 0 /\ offset + chunk <= size
        BY <1>0, <1>7, NetTransportAssumption DEF SendRecord
    <2>1. PICK n \in 1..(chunk - record) :
             IF record + n = chunk
                THEN /\ wire' = wire \o Units(offset, chunk)
                     /\ offset' = offset + chunk /\ record' = 0
                ELSE record' = record + n /\ UNCHANGED <<wire, offset>>
        BY <1>7 DEF SendRecord
    <2> HIDE DEF chunk
    <2>2. CASE record + n = chunk
        BY <1>7, <2>0, <2>1, <2>2, Advance DEF SendRecord
    <2>3. CASE record + n # chunk
        <3>1. UNCHANGED <<pc, wire, skipped, payload, size, offset>> /\ record' \in Int
            BY <1>0, <1>7, <2>0, <2>1, <2>3 DEF SendRecord
        <3> QED BY <3>1 DEF SendInv, Ordered, Reached, Units
    <2> QED BY <2>2, <2>3
<1>8. CASE SendDatagrams
    <2> DEFINE remaining == size - offset
               block == IF remaining < MaximumBatch THEN remaining ELSE MaximumBatch
    <2>0. block \in Nat /\ block # 0 /\ offset + block <= size
        BY <1>0, <1>8, NetTransportAssumption DEF SendDatagrams
    <2>1. PICK n \in 1..block :
             /\ offset' = offset + n
             /\ \/ wire' = wire \o Units(offset, n) /\ UNCHANGED skipped
                \/ skipped' = skipped \cup Range(Units(offset, n)) /\ UNCHANGED wire
        BY <1>8, <2>0 DEF SendDatagrams
    <2>2. n \in Nat /\ n # 0 /\ offset + n <= size
        BY <1>0, <2>0, <2>1
    <2> QED BY <1>0, <1>8, <2>1, <2>2, Advance DEF SendDatagrams
<1>9. CASE SendDatagram
    <2>1. offset + 1 <= size
        BY <1>0, <1>9 DEF SendDatagram
    <2> QED BY <1>0, <1>9, <2>1, Advance DEF SendDatagram
<1> QED BY <1>1, <1>2, <1>3, <1>4, <1>5, <1>6, <1>7, <1>8, <1>9 DEF Next, Proceed

(* Partial sends, full records and batches cut short lose, repeat and reorder
   nothing (send_all, send_batch), whatever their sizes and limits.         *)
THEOREM SendingCorrect == Spec => []SentInOrder
<1>1. Init => SendInv
    <2> SUFFICES ASSUME Init PROVE SendInv
        OBVIOUS
    <2>1. /\ payload = 0 /\ size = 0 /\ offset = 0 /\ record = 0
          /\ wire = <<>> /\ skipped = {}
        BY DEF Init
    <2>2. Range(wire) = {} /\ Range(Units(0, offset)) = {}
        BY <2>1 DEF Range, Units
    <2> QED BY <2>1, <2>2 DEF SendInv, Ordered
<1>2. SendInv /\ [Next]_vars => SendInv'
    BY SendStep
<1>3. SendInv => SentInOrder
    BY DEF SendInv, SentInOrder, Ordered
<1> QED BY <1>1, <1>2, <1>3, PTL DEF Spec

===============================================================================
