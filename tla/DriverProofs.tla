---------------------------- MODULE DriverProofs ----------------------------
(***************************************************************************)
(* Theorems about the drivers that deliver, and those that call: the       *)
(* datagrams of UdpSocket, the messages of MqttMessages, the bytes of      *)
(* BtConsole, the lines of LogSink, the terminal of Cli, the calls of      *)
(* ServoBus, the sensor of Vl53l0x and the records of ConfigStore, each    *)
(* for every value of its constants.  Each section holds the inductive     *)
(* invariant of one module and the lemmas it rests on.                     *)
(***************************************************************************)
EXTENDS UdpSocket, MqttMessages, BtConsole, LogSink, Cli, ServoBus, Vl53l0x,
        ConfigStore, SequenceTheorems, FiniteSetTheorems, WellFoundedInduction, TLAPS

-----------------------------------------------------------------------------
(* Numbers *)

\* A set of naturals that holds one holds a least.
LEMMA LeastExists ==
    ASSUME NEW S \in SUBSET Nat, S # {}
    PROVE  \E i \in S : \A j \in S : i <= j
<1>1. \E i \in S : \A j \in S : <<j, i>> \notin OpToRel(<, Nat)
  BY NatLessThanWellFounded, WFMin
<1>2. \A i, j \in Nat : <<j, i>> \notin OpToRel(<, Nat) => i <= j
  BY DEF OpToRel
<1> QED BY <1>1, <1>2

LEMMA Greatest ==
    ASSUME NEW n \in Nat, NEW s \in SUBSET (1..n), n \in s
    PROVE  Max(s) = n
<1>1. \A x \in s : n >= x /\ (x >= n => x = n) OBVIOUS
<1>2. \A x \in s : (\A y \in s : x >= y) => x = n BY <1>1
<1>3. \A y \in s : n >= y BY <1>1
<1>4. Max(s) \in s /\ \A y \in s : Max(s) >= y BY <1>3, Zenon DEF Max
<1>. QED BY <1>2, <1>4

LEMMA Products == \A a, b \in Nat : a * b \in Nat
OBVIOUS

LEMMA Division ==
    ASSUME NEW a \in Nat, NEW b \in Nat \ {0}
    PROVE  /\ a \div b \in Nat
           /\ (a \div b) * b <= a /\ a < (a \div b) * b + b
OBVIOUS
-----------------------------------------------------------------------------
(***************************************************************************)
(* UdpSocket, MqttMessages                                                 *)
(***************************************************************************)

(* UdpSocket *)

SocketType ==
    /\ socket \in [open : BOOLEAN, pcb : Pcbs \cup {NoPcb}, broadcast : BOOLEAN,
                   received : Nat, dropped : Nat, sent : Nat]
    /\ lwip \in [given : SUBSET Pcbs, told : SUBSET Pcbs]
    /\ wire \in [arrived : Nat, left : Nat, everyone : BOOLEAN]

SocketInv == SocketType /\ DatagramsAreAccounted

\* A closed socket has no block, and lwIP none for it: udp_remove takes the one
\* block that DatagramsAreAccounted says there is.
LEMMA ClosedHoldsNothing ==
    ASSUME SocketInv
    PROVE  StackClosed = [given |-> {}, told |-> {}]
<1>1. lwip.given \ {socket.pcb} = {}
  <2>1. CASE socket.open BY <2>1 DEF SocketInv, DatagramsAreAccounted
  <2>2. CASE ~socket.open BY <2>2 DEF SocketInv, DatagramsAreAccounted
  <2>. QED BY <2>1, <2>2
<1>2. lwip.told \ {socket.pcb} = {} BY <1>1 DEF SocketInv, DatagramsAreAccounted
<1>. QED BY <1>1, <1>2 DEF StackClosed

LEMMA SocketAtStart == UdpInit => SocketInv
BY DEF UdpInit, SocketInv, SocketType, DatagramsAreAccounted, NoPcb

\* udp_socket_close and every refusal of udp_socket_open.
LEMMA ClosingKeeps ==
    ASSUME SocketInv, socket' = Closed, lwip' = StackClosed, UNCHANGED wire
    PROVE  SocketInv'
<1>1. lwip' = [given |-> {}, told |-> {}] BY ClosedHoldsNothing
<1>2. SocketType'
  <2>1. socket' \in [open : BOOLEAN, pcb : Pcbs \cup {NoPcb}, broadcast : BOOLEAN,
                     received : Nat, dropped : Nat, sent : Nat]
    BY DEF SocketInv, SocketType, Closed
  <2>2. lwip' \in [given : SUBSET Pcbs, told : SUBSET Pcbs] BY <1>1
  <2>3. wire' \in [arrived : Nat, left : Nat, everyone : BOOLEAN] BY DEF SocketInv, SocketType
  <2>. QED BY <2>1, <2>2, <2>3 DEF SocketType
<1>3. /\ ~socket'.open /\ socket'.sent = socket.sent
      /\ socket'.received = socket.received /\ socket'.dropped = socket.dropped
  BY DEF SocketInv, SocketType, Closed
<1>4. DatagramsAreAccounted' BY <1>1, <1>3 DEF SocketInv, DatagramsAreAccounted
<1>. QED BY <1>2, <1>4 DEF SocketInv

LEMMA OpenKeeps ==
    ASSUME SocketInv, NEW broadcast \in BOOLEAN, UdpOpen(broadcast)
    PROVE  SocketInv'
<1>1. CASE socket' = Closed /\ lwip' = StackClosed
  BY <1>1, ClosingKeeps DEF UdpOpen
<1>2. CASE Pcbs \ StackClosed.given # {}
           /\ LET pcb == CHOOSE p \in Pcbs \ StackClosed.given : TRUE
              IN  /\ lwip' = [given |-> StackClosed.given \cup {pcb},
                              told |-> StackClosed.told \cup {pcb}]
                  /\ socket' = [Closed EXCEPT !.open = TRUE, !.pcb = pcb,
                                              !.broadcast = broadcast]
  <2>. DEFINE pcb == CHOOSE p \in Pcbs \ StackClosed.given : TRUE
  <2>1. pcb \in Pcbs BY <1>2
  <2>. HIDE DEF pcb
  <2>2. lwip' = [given |-> {pcb}, told |-> {pcb}]
    BY <1>2, ClosedHoldsNothing DEF pcb
  <2>3. socket' = [Closed EXCEPT !.open = TRUE, !.pcb = pcb, !.broadcast = broadcast]
    BY <1>2 DEF pcb
  <2>4. UNCHANGED wire BY DEF UdpOpen
  <2>. QED BY <2>1, <2>2, <2>3, <2>4 DEF SocketInv, SocketType, DatagramsAreAccounted, Closed
<1>. QED BY <1>1, <1>2 DEF UdpOpen

LEMMA DatagramKeeps ==
    ASSUME SocketInv, Datagram
    PROVE  SocketInv'
<1>1. PICK whole \in BOOLEAN, size \in Sizes :
         /\ wire' = [wire EXCEPT !.arrived = @ + 1]
         /\ socket' = IF size = "too_long" \/ ~whole THEN [socket EXCEPT !.dropped = @ + 1]
                      ELSE [socket EXCEPT !.received = @ + 1]
  BY DEF Datagram
<1>2. UNCHANGED lwip BY DEF Datagram
<1>3. SocketType' BY <1>1, <1>2 DEF SocketInv, SocketType
<1>4. /\ socket'.open = socket.open /\ socket'.pcb = socket.pcb
      /\ socket'.sent = socket.sent /\ wire'.left = wire.left
      /\ wire'.arrived = wire.arrived + 1
      /\ socket'.received + socket'.dropped = socket.received + socket.dropped + 1
  BY <1>1 DEF SocketInv, SocketType
<1>5. DatagramsAreAccounted' BY <1>2, <1>4 DEF SocketInv, DatagramsAreAccounted
<1>. QED BY <1>3, <1>5 DEF SocketInv

LEMMA SendKeeps ==
    ASSUME SocketInv, NEW host, NEW size, SendDatagram(host, size), UNCHANGED lwip
    PROVE  SocketInv'
<1>1. CASE UNCHANGED socket /\ UNCHANGED wire
  BY <1>1 DEF SocketInv, SocketType, DatagramsAreAccounted
<1>2. CASE /\ socket' = [socket EXCEPT !.sent = @ + 1]
           /\ wire' = [wire EXCEPT !.left = @ + 1, !.everyone = @ \/ host = "broadcast"]
  <2>1. socket' \in [open : BOOLEAN, pcb : Pcbs \cup {NoPcb}, broadcast : BOOLEAN,
                     received : Nat, dropped : Nat, sent : Nat]
    BY <1>2 DEF SocketInv, SocketType
  <2>2. PICK everyone \in BOOLEAN : wire' = [wire EXCEPT !.left = @ + 1, !.everyone = everyone]
    BY <1>2
  <2>3. wire' = [arrived |-> wire.arrived, left |-> wire.left + 1, everyone |-> everyone]
    BY <2>2, Zenon DEF SocketInv, SocketType
  <2>4. wire' \in [arrived : Nat, left : Nat, everyone : BOOLEAN]
    BY <2>3 DEF SocketInv, SocketType
  <2>5. /\ socket'.open = socket.open /\ socket'.pcb = socket.pcb
        /\ socket'.received = socket.received /\ socket'.dropped = socket.dropped
        /\ socket'.sent = socket.sent + 1
    BY <1>2 DEF SocketInv, SocketType
  <2>6. wire'.arrived = wire.arrived /\ wire'.left = wire.left + 1
    BY <1>2 DEF SocketInv, SocketType
  <2>. QED BY <2>1, <2>4, <2>5, <2>6 DEF SocketInv, SocketType, DatagramsAreAccounted
<1>. QED BY <1>1, <1>2 DEF SendDatagram

LEMMA SocketSteps == SocketInv /\ [UdpNext]_udpVars => SocketInv'
<1>. SUFFICES ASSUME SocketInv, [UdpNext]_udpVars PROVE SocketInv' OBVIOUS
<1>1. CASE \E broadcast \in BOOLEAN : UdpOpen(broadcast) BY <1>1, OpenKeeps
<1>2. CASE UdpClose BY <1>2, ClosingKeeps DEF UdpClose
<1>3. CASE Datagram BY <1>3, DatagramKeeps
<1>4. CASE NameAnswered
  BY <1>4 DEF NameAnswered, SocketInv, SocketType, DatagramsAreAccounted
<1>5. CASE \E host \in Hosts, size \in Sizes : SendTo(host, size)
  <2>1. PICK host \in Hosts, size \in Sizes : SendTo(host, size) BY <1>5
  <2>2. CASE host = "name" /\ names # "known"
    BY <2>1, <2>2 DEF SendTo, SocketInv, SocketType, DatagramsAreAccounted
  <2>3. CASE ~(host = "name" /\ names # "known")
    BY <2>1, <2>3, SendKeeps DEF SendTo
  <2>. QED BY <2>2, <2>3
<1>6. CASE \E host \in Hosts \ {"name"}, size \in Sizes : SendToEndpoint(host, size)
  BY <1>6, SendKeeps DEF SendToEndpoint
<1>7. CASE UNCHANGED udpVars
  BY <1>7 DEF udpVars, SocketInv, SocketType, DatagramsAreAccounted
<1>. QED BY <1>1, <1>2, <1>3, <1>4, <1>5, <1>6, <1>7 DEF UdpNext

\* However often the socket is opened again, refused and closed, no control
\* block is leaked or called back for, and every datagram is counted (udp.c).
THEOREM DatagramsCorrect == UdpSpec => []DatagramsAreAccounted
<1>1. SocketInv => DatagramsAreAccounted BY DEF SocketInv
<1>. QED BY <1>1, SocketAtStart, SocketSteps, PTL DEF UdpSpec

-----------------------------------------------------------------------------
(* MqttMessages *)

Shorter(a, b) == IF a < b THEN a ELSE b

PublishType == [number : Nat, topic : Topics \cup {NoTopic}, size : Nat, given : Nat]

Blocks == Seq(Nat \X Nat)

MessageType ==
    /\ publish \in PublishType
    /\ message \in [topic : Topics \cup {NoTopic}, buffer : Blocks, overflowed : BOOLEAN,
                    dropped : Nat]
    /\ handed \in [number : Nat, tooLong : Nat, ended : PublishType,
                   last : [topic : Topics \cup {NoTopic}, data : Blocks]]

\* While a publish is on its way the buffer holds its beginning, as much as fits,
\* and the flag says whether some of what came did not.
Reassembly ==
    publish.topic # NoTopic =>
        /\ publish.given <= publish.size
        /\ message.topic = publish.topic
        /\ message.buffer = Bytes(publish, 1, Shorter(publish.given, MaxMessage))
        /\ message.overflowed = (publish.given > MaxMessage)

MessageInv == MessageType /\ Reassembly /\ MessagesAreWhole

-----------------------------------------------------------------------------
(* The bytes of a publish *)

LEMMA BytesType ==
    ASSUME NEW p \in PublishType, NEW start \in Nat, NEW n \in Nat
    PROVE  /\ Bytes(p, start + 1, start + n) \in Blocks
           /\ Len(Bytes(p, start + 1, start + n)) = n
           /\ \A i \in 1..n : Bytes(p, start + 1, start + n)[i] = <<p.number, start + i>>
<1>. DEFINE s == [i \in 1..n |-> <<p.number, start + i>>]
<1>1. (start + n) - (start + 1) + 1 = n OBVIOUS
<1>2. \A i \in 1..n : (start + 1) + i - 1 = start + i OBVIOUS
<1>3. Bytes(p, start + 1, start + n) = s BY <1>1, <1>2 DEF Bytes
<1>4. \A i \in 1..n : <<p.number, start + i>> \in Nat \X Nat BY DEF PublishType
<1>5. s \in Blocks /\ Len(s) = n BY <1>4 DEF Blocks
<1>. QED BY <1>3, <1>5

\* The first n bytes.
LEMMA BeginningType ==
    ASSUME NEW p \in PublishType, NEW n \in Nat
    PROVE  /\ Bytes(p, 1, n) \in Blocks /\ Len(Bytes(p, 1, n)) = n
           /\ \A i \in 1..n : Bytes(p, 1, n)[i] = <<p.number, i>>
<1>. DEFINE none == 0
<1>1. none \in Nat /\ none + 1 = 1 /\ none + n = n /\ \A i \in 1..n : none + i = i
  OBVIOUS
<1>. HIDE DEF none
<1>2. /\ Bytes(p, none + 1, none + n) \in Blocks /\ Len(Bytes(p, none + 1, none + n)) = n
      /\ \A i \in 1..n : Bytes(p, none + 1, none + n)[i] = <<p.number, none + i>>
  BY <1>1, BytesType
<1>. QED BY <1>1, <1>2, Zenon

\* One sequence behind another.
LEMMA Joined ==
    ASSUME NEW s \in Blocks, NEW t \in Blocks, NEW i \in 1..Len(s) + Len(t)
    PROVE  (s \o t)[i] = IF i <= Len(s) THEN s[i] ELSE t[i - Len(s)]
BY DEF Blocks

LEMMA SameBlocks ==
    ASSUME NEW s \in Blocks, NEW t \in Blocks, Len(s) = Len(t),
           \A i \in 1..Len(s) : s[i] = t[i]
    PROVE  s = t
BY SeqEqual DEF Blocks

LEMMA Beginning ==
    ASSUME NEW s \in Blocks, NEW n \in 0..Len(s)
    PROVE  /\ SubSeq(s, 1, n) \in Blocks /\ Len(SubSeq(s, 1, n)) = n
           /\ \A i \in 1..n : SubSeq(s, 1, n)[i] = s[i]
BY DEF Blocks

\* A piece put behind the beginning of a payload, as far as the buffer goes, makes
\* a longer beginning of it (the memcpy of on_incoming_data).
LEMMA PiecesJoin ==
    ASSUME NEW p \in PublishType, NEW given \in Nat, NEW more \in Nat,
           NEW space, space = MaxMessage - Shorter(given, MaxMessage)
    PROVE  Bytes(p, 1, Shorter(given, MaxMessage))
             \o SubSeq(Bytes(p, given + 1, given + more), 1, Shorter(more, space))
           = Bytes(p, 1, Shorter(given + more, MaxMessage))
<1>. DEFINE kept  == Shorter(given, MaxMessage)
            taken == Shorter(more, space)
            data  == Bytes(p, given + 1, given + more)
            left  == Bytes(p, 1, kept)
            right == SubSeq(data, 1, taken)
            whole == Bytes(p, 1, kept + taken)
<1>1. MaxMessage \in Nat \ {0} BY MessageAssumption
<1>2. /\ kept \in Nat /\ taken \in 0..more
      /\ kept + taken = Shorter(given + more, MaxMessage)
      /\ taken > 0 => kept = given
  BY <1>1 DEF Shorter
<1>3. left \in Blocks /\ Len(left) = kept /\ \A i \in 1..kept : left[i] = <<p.number, i>>
  BY <1>2, BeginningType
<1>4. /\ data \in Blocks /\ Len(data) = more
      /\ \A i \in 1..more : data[i] = <<p.number, given + i>>
  BY BytesType
<1>5. /\ whole \in Blocks /\ Len(whole) = kept + taken
      /\ \A i \in 1..kept + taken : whole[i] = <<p.number, i>>
  <2>1. kept + taken \in Nat BY <1>2
  <2>. HIDE DEF kept, taken
  <2>. QED BY <2>1, BeginningType
<1>. HIDE DEF kept, taken, data, left, whole
<1>6. right \in Blocks /\ Len(right) = taken /\ \A i \in 1..taken : right[i] = data[i]
  BY <1>2, <1>4, Beginning
<1>. HIDE DEF right
<1>7. left \o right \in Blocks /\ Len(left \o right) = kept + taken
  BY <1>2, <1>3, <1>6, ConcatProperties DEF Blocks
<1>8. ASSUME NEW i \in 1..kept + taken PROVE (left \o right)[i] = whole[i]
  <2>1. (left \o right)[i] = IF i <= kept THEN left[i] ELSE right[i - kept]
    BY <1>3, <1>6, Joined
  <2>2. CASE i <= kept
    <3>1. i \in 1..kept BY <1>2, <2>2
    <3>. QED BY <1>3, <1>5, <2>1, <2>2, <3>1
  <2>3. CASE ~(i <= kept)
    <3>1. i - kept \in 1..taken /\ i - kept \in 1..more /\ kept = given BY <1>2, <2>3
    <3>2. given + (i - kept) = i BY <3>1
    <3>. QED BY <1>4, <1>5, <1>6, <2>1, <2>3, <3>1, <3>2
  <2>. QED BY <2>2, <2>3
<1>9. left \o right = whole
  BY <1>5, <1>7, <1>8, SameBlocks
<1>. QED BY <1>2, <1>9 DEF left, right, whole, kept, taken, data

-----------------------------------------------------------------------------
(* The steps *)

LEMMA NoneIsNoTopic == NoTopic \notin Topics
BY MessageAssumption DEF NoTopic

LEMMA MessageAtStart == MessageInit => MessageInv
<1>. SUFFICES ASSUME MessageInit PROVE MessageInv OBVIOUS
<1>1. NoPublish \in PublishType /\ NoPublish.topic = NoTopic BY DEF NoPublish, PublishType
<1>2. <<>> \in Blocks BY DEF Blocks
<1>3. MessageType BY <1>1, <1>2 DEF MessageInit, MessageType, NoMessage
<1>4. Reassembly BY <1>1 DEF MessageInit, Reassembly
<1>5. MessagesAreWhole BY <1>1 DEF MessageInit, MessagesAreWhole
<1>. QED BY <1>3, <1>4, <1>5 DEF MessageInv

\* on_incoming_publish empties the buffer, whatever a session that was lost
\* left in it.
LEMMA PublishKeeps ==
    ASSUME MessageInv, IncomingPublish
    PROVE  MessageInv'
<1>1. PICK topic \in Topics, size \in 0..MaxPayload :
         /\ publish' = [number |-> handed.number + 1, topic |-> topic, size |-> size, given |-> 0]
         /\ message' = [message EXCEPT !.topic = topic, !.buffer = <<>>, !.overflowed = FALSE]
  BY DEF IncomingPublish, Begin
<1>2. handed' = [handed EXCEPT !.number = @ + 1] BY DEF IncomingPublish
<1>3. /\ handed.number \in Nat /\ size \in Nat /\ MaxMessage \in Nat \ {0}
      /\ <<>> \in Blocks
  BY MessageAssumption DEF MessageInv, MessageType, Blocks
<1>4. publish' \in PublishType BY <1>1, <1>3 DEF PublishType
<1>5. /\ message' \in [topic : Topics \cup {NoTopic}, buffer : Blocks,
                       overflowed : BOOLEAN, dropped : Nat]
      /\ message'.topic = topic /\ message'.buffer = <<>> /\ message'.overflowed = FALSE
      /\ message'.dropped = message.dropped
  BY <1>1, <1>3 DEF MessageInv, MessageType
<1>6. /\ handed' \in [number : Nat, tooLong : Nat, ended : PublishType,
                      last : [topic : Topics \cup {NoTopic}, data : Blocks]]
      /\ handed'.ended = handed.ended /\ handed'.last = handed.last
      /\ handed'.tooLong = handed.tooLong
  BY <1>2, <1>3 DEF MessageInv, MessageType
<1>7. MessageType' BY <1>4, <1>5, <1>6 DEF MessageType
<1>8. Reassembly'
  <2>1. Shorter(0, MaxMessage) = 0 BY <1>3 DEF Shorter
  <2>2. Bytes(publish', 1, 0) = <<>> BY DEF Bytes
  <2>3. /\ publish'.topic = topic /\ publish'.given = 0 /\ publish'.size = size
    BY <1>1
  <2>4. Bytes(publish', 1, Shorter(publish'.given, MaxMessage)) = <<>>
    BY <2>1, <2>2, <2>3
  <2>5. (publish'.given > MaxMessage) = FALSE BY <1>3, <2>3
  <2>6. publish'.given <= publish'.size BY <1>3, <2>3
  <2>. QED BY <1>5, <2>3, <2>4, <2>5, <2>6 DEF Reassembly
<1>9. MessagesAreWhole' BY <1>5, <1>6 DEF MessageInv, MessagesAreWhole
<1>. QED BY <1>7, <1>8, <1>9 DEF MessageInv

\* The bytes of a publish do not depend on how many have come.
LEMMA SameBytes ==
    ASSUME NEW p, NEW q, p.number = q.number, NEW first, NEW to
    PROVE  Bytes(p, first, to) = Bytes(q, first, to)
BY DEF Bytes

\* What a piece that ends with byte `given` makes of the buffer.
LEMMA CopyKeeps ==
    ASSUME MessageInv, publish.topic # NoTopic, NEW given \in publish.given..publish.size
    PROVE  LET full == Copied(Bytes(publish, publish.given + 1, given))
           IN  full = [message EXCEPT
                         !.buffer = Bytes(publish, 1, Shorter(given, MaxMessage)),
                         !.overflowed = (given > MaxMessage)]
<1>. DEFINE before == publish.given
            more   == given - before
            data   == Bytes(publish, before + 1, given)
            space  == MaxMessage - Len(message.buffer)
<1>1. /\ publish \in PublishType /\ before \in Nat /\ given \in Nat /\ more \in Nat
      /\ given = before + more /\ MaxMessage \in Nat \ {0}
  BY MessageAssumption DEF MessageInv, MessageType, PublishType
<1>2. /\ message.buffer = Bytes(publish, 1, Shorter(before, MaxMessage))
      /\ message.overflowed = (before > MaxMessage)
  BY DEF MessageInv, Reassembly
<1>3. Shorter(before, MaxMessage) \in Nat BY <1>1 DEF Shorter
<1>4. Len(message.buffer) = Shorter(before, MaxMessage)
  BY <1>1, <1>2, <1>3, BeginningType
<1>5. Len(data) = more
  <2>1. data = Bytes(publish, before + 1, before + more) BY <1>1
  <2>. HIDE DEF data, before, more
  <2>. QED BY <1>1, <2>1, BytesType
<1>6. message.buffer \o SubSeq(data, 1, Shorter(more, space))
        = Bytes(publish, 1, Shorter(given, MaxMessage))
  <2>1. data = Bytes(publish, before + 1, before + more) BY <1>1
  <2>. HIDE DEF data, before, more, space
  <2>2. space = MaxMessage - Shorter(before, MaxMessage) BY <1>4 DEF space
  <2>3. Bytes(publish, 1, Shorter(before, MaxMessage))
          \o SubSeq(Bytes(publish, before + 1, before + more), 1, Shorter(more, space))
        = Bytes(publish, 1, Shorter(before + more, MaxMessage))
    BY <1>1, <2>2, PiecesJoin
  <2>. QED BY <1>1, <1>2, <2>1, <2>3
<1>7. (message.overflowed \/ more > space) = (given > MaxMessage)
  <2>1. CASE before > MaxMessage
    <3>1. message.overflowed = TRUE BY <1>2, <2>1
    <3>2. (given > MaxMessage) = TRUE BY <1>1, <2>1
    <3>. QED BY <3>1, <3>2
  <2>2. CASE ~(before > MaxMessage)
    <3>1. message.overflowed = FALSE
      <4>1. (before > MaxMessage) = FALSE BY <1>1, <2>2
      <4>. QED BY <1>2, <4>1
    <3>2. space = MaxMessage - before BY <1>1, <1>4, <2>2 DEF Shorter
    <3>3. more > space <=> given > MaxMessage
      <4>. HIDE DEF before, more, space
      <4>. QED BY <1>1, <3>2
    <3>. QED BY <3>1, <3>3
  <2>. QED BY <2>1, <2>2
<1>. QED BY <1>5, <1>6, <1>7 DEF Copied, Shorter

\* on_incoming_data: a piece in the middle, and the last one.
LEMMA DataKeeps ==
    ASSUME MessageInv, IncomingData
    PROVE  MessageInv'
<1>1. publish.topic # NoTopic /\ MaxMessage \in Nat \ {0}
  BY MessageAssumption DEF IncomingData
<1>2. PICK given \in publish.given..publish.size :
         LET full == Copied(Bytes(publish, publish.given + 1, given))
         IN  IF given < publish.size
               THEN /\ publish' = [publish EXCEPT !.given = given]
                    /\ message' = full /\ UNCHANGED handed
             ELSE /\ publish' = NoPublish
                  /\ message' = Emptied(full) /\ handed' = Ended(full)
  BY DEF IncomingData
<1>. DEFINE data == Bytes(publish, 1, Shorter(given, MaxMessage))
            full == Copied(Bytes(publish, publish.given + 1, given))
<1>3. /\ publish \in PublishType /\ publish.given \in Nat /\ given \in Nat
      /\ publish.size \in Nat /\ given <= publish.size
      /\ message.topic = publish.topic /\ message.dropped \in Nat
  BY <1>1 DEF MessageInv, MessageType, PublishType, Reassembly
<1>4. data \in Blocks BY <1>1, <1>3, BeginningType DEF Shorter
<1>5. full = [message EXCEPT !.buffer = data, !.overflowed = (given > MaxMessage)]
  BY <1>1, CopyKeeps
<1>6. (given > MaxMessage) \in BOOLEAN BY <1>1, <1>3
<1>7. full = [topic |-> publish.topic, buffer |-> data, overflowed |-> (given > MaxMessage),
              dropped |-> message.dropped]
  <2>1. message \in [topic : Topics \cup {NoTopic}, buffer : Blocks, overflowed : BOOLEAN,
                     dropped : Nat]
    BY DEF MessageInv, MessageType
  <2>. HIDE DEF data, full
  <2>. QED BY <1>3, <1>5, <2>1, Zenon
<1>. HIDE DEF data, full
<1>8. CASE given < publish.size
  <2>1. publish' = [publish EXCEPT !.given = given] /\ message' = full /\ UNCHANGED handed
    BY <1>2, <1>8 DEF full
  <2>2. /\ publish' \in PublishType /\ publish'.topic = publish.topic
        /\ publish'.number = publish.number /\ publish'.given = given
        /\ publish'.size = publish.size
    BY <1>3, <2>1 DEF PublishType
  <2>3. MessageType'
    BY <1>3, <1>4, <1>6, <1>7, <2>1, <2>2 DEF MessageInv, MessageType, PublishType
  <2>4. data = Bytes(publish', 1, Shorter(given, MaxMessage))
    BY <2>2, SameBytes DEF data
  <2>5. Reassembly' BY <1>3, <1>7, <2>1, <2>2, <2>4 DEF Reassembly
  <2>6. MessagesAreWhole' BY <1>7, <2>1 DEF MessageInv, MessagesAreWhole
  <2>. QED BY <2>3, <2>5, <2>6 DEF MessageInv
<1>9. CASE ~(given < publish.size)
  <2>1. publish' = NoPublish /\ message' = Emptied(full) /\ handed' = Ended(full)
    BY <1>2, <1>9 DEF full
  <2>2. given = publish.size BY <1>3, <1>9
  <2>3. publish' \in PublishType /\ publish'.topic = NoTopic
    BY <2>1 DEF NoPublish, PublishType
  <2>4. message' = [topic |-> publish.topic, buffer |-> <<>>, overflowed |-> FALSE,
                    dropped |-> IF given > MaxMessage THEN message.dropped + 1
                                ELSE message.dropped]
    BY <1>7, <2>1 DEF Emptied
  <2>5. handed \in [number : Nat, tooLong : Nat, ended : PublishType,
                    last : [topic : Topics \cup {NoTopic}, data : Blocks]]
    BY DEF MessageInv, MessageType
  <2>6. handed' = [number  |-> handed.number,
                   tooLong |-> IF given > MaxMessage THEN handed.tooLong + 1
                               ELSE handed.tooLong,
                   ended   |-> publish,
                   last    |-> IF given > MaxMessage THEN NoMessage
                               ELSE [topic |-> publish.topic, data |-> data]]
    <3>1. full.overflowed = (given > MaxMessage) /\ full.topic = publish.topic
          /\ full.buffer = data
      BY <1>7
    <3>2. handed' = [handed EXCEPT
                       !.ended = publish,
                       !.last = IF given > MaxMessage THEN NoMessage
                                ELSE [topic |-> publish.topic, data |-> data],
                       !.tooLong = IF given > MaxMessage THEN @ + 1 ELSE @]
      BY <2>1, <2>2, <3>1 DEF Ended
    <3>. QED BY <2>5, <3>2, Zenon
  <2>7. MessageType'
    <3>1. message' \in [topic : Topics \cup {NoTopic}, buffer : Blocks,
                        overflowed : BOOLEAN, dropped : Nat]
      <4>1. <<>> \in Blocks BY DEF Blocks
      <4>2. publish.topic \in Topics \cup {NoTopic} BY <1>3 DEF PublishType
      <4>. QED BY <1>3, <2>4, <4>1, <4>2
    <3>2. handed'.last \in [topic : Topics \cup {NoTopic}, data : Blocks]
      <4>1. <<>> \in Blocks BY DEF Blocks
      <4>2. publish.topic \in Topics \cup {NoTopic} BY <1>3 DEF PublishType
      <4>. QED BY <1>4, <2>6, <4>1, <4>2 DEF NoMessage
    <3>3. handed' \in [number : Nat, tooLong : Nat, ended : PublishType,
                       last : [topic : Topics \cup {NoTopic}, data : Blocks]]
      BY <1>3, <2>5, <2>6, <3>2
    <3>. QED BY <2>3, <3>1, <3>3 DEF MessageType
  <2>8. Reassembly' BY <2>3 DEF Reassembly
  <2>9. MessagesAreWhole'
    <3>1. message.dropped = handed.tooLong BY DEF MessageInv, MessagesAreWhole
    <3>2. message'.dropped = handed'.tooLong BY <2>4, <2>6, <3>1
    <3>3. given <= MaxMessage => data = Bytes(publish, 1, publish.size)
      BY <1>1, <1>3, <2>2 DEF data, Shorter
    <3>4. handed'.ended = publish BY <2>6
    <3>5. handed'.last = IF publish.size <= MaxMessage
                           THEN [topic |-> publish.topic,
                                 data |-> Bytes(publish, 1, publish.size)]
                         ELSE NoMessage
      BY <1>1, <1>3, <2>2, <2>6, <3>3
    <3>. QED BY <3>2, <3>4, <3>5 DEF MessagesAreWhole
  <2>. QED BY <2>7, <2>8, <2>9 DEF MessageInv
<1>. QED BY <1>8, <1>9

LEMMA MessageSteps == MessageInv /\ [MessageNext]_messageVars => MessageInv'
<1>. SUFFICES ASSUME MessageInv, [MessageNext]_messageVars PROVE MessageInv' OBVIOUS
<1>1. CASE IncomingPublish BY <1>1, PublishKeeps
<1>2. CASE IncomingData BY <1>2, DataKeeps
<1>3. CASE MessageCut
  <2>1. publish' = NoPublish /\ UNCHANGED <<message, handed>> BY <1>3 DEF MessageCut
  <2>2. publish' \in PublishType /\ publish'.topic = NoTopic
    BY <2>1 DEF NoPublish, PublishType
  <2>. QED BY <2>1, <2>2 DEF MessageInv, MessageType, Reassembly, MessagesAreWhole
<1>4. CASE UNCHANGED messageVars
  BY <1>4 DEF messageVars, MessageInv, MessageType, Reassembly, MessagesAreWhole
<1>. QED BY <1>1, <1>2, <1>3, <1>4 DEF MessageNext

\* A publish that ended was handed over whole if it fits the buffer and dropped
\* whole if not, in whatever pieces it came and whatever a lost session left
\* behind (mqtt.c).
THEOREM MessagesCorrect == MessageSpec => []MessagesAreWhole
<1>1. MessageInv => MessagesAreWhole BY DEF MessageInv
<1>. QED BY <1>1, MessageAtStart, MessageSteps, PTL DEF MessageSpec
-----------------------------------------------------------------------------
(***************************************************************************)
(* BtConsole                                                               *)
(***************************************************************************)

ConsoleBytes == Nat \X Nat

\* Bytes of one connection, in the order of their numbers.
Ordered(bytes, number, newest) ==
    /\ bytes \in Seq(ConsoleBytes)
    /\ \A i \in 1..Len(bytes) : bytes[i][1] = number /\ bytes[i][2] <= newest
    /\ \A i \in 1..Len(bytes) - 1 : bytes[i][2] < bytes[i + 1][2]

BtType ==
    /\ stream \in [incoming : Seq(ConsoleBytes), outgoing : Seq(ConsoleBytes),
                   connected : BOOLEAN, dropped_outgoing : Nat, dropped_incoming : Nat]
    /\ channel \in [open : BOOLEAN, number : Nat, asked : BOOLEAN]
    /\ peer \in [sent : Nat, told : Nat, heard : Seq(ConsoleBytes), base : Nat]
    /\ Len(stream.outgoing) <= OutCapacity /\ Len(stream.incoming) <= InCapacity

BtInv ==
    /\ BtType
    /\ channel.open = stream.connected
    /\ channel.open =>
          /\ Ordered(peer.heard \o stream.outgoing, channel.number, peer.told)
          /\ Ordered(stream.incoming, channel.number, peer.sent)
          /\ Len(peer.heard) + Len(stream.outgoing) + stream.dropped_outgoing
               = peer.told + peer.base
          /\ stream.outgoing # <<>> => channel.asked
    /\ ~channel.open => stream.outgoing = <<>> /\ stream.incoming = <<>>

LEMMA PairOf ==
    ASSUME NEW b \in ConsoleBytes
    PROVE  b[1] \in Nat /\ b[2] \in Nat
BY DEF ConsoleBytes

LEMMA NumberedIs ==
    ASSUME BtType, NEW first \in Nat, NEW n \in Nat
    PROVE  LET t == Numbered(first, n)
           IN  /\ t \in Seq(ConsoleBytes) /\ Len(t) = n
               /\ \A i \in 1..n : t[i][1] = channel.number /\ t[i][2] = first + i - 1
<1> DEFINE t == Numbered(first, n)
           c == channel.number
<1>1. c \in Nat BY DEF BtType
<1>2. t = [i \in 1..n |-> <<c, first + i - 1>>] BY DEF Numbered
<1> HIDE DEF t, c
<1>3. \A i \in 1..n : first + i - 1 \in Nat OBVIOUS
<1>4. \A i \in 1..n : <<c, first + i - 1>> \in ConsoleBytes BY <1>1, <1>3 DEF ConsoleBytes
<1>5. t \in [1..n -> ConsoleBytes] BY <1>2, <1>4
<1>6. t \in Seq(ConsoleBytes) /\ Len(t) = n BY <1>5
<1>7. \A i \in 1..n : t[i][1] = c /\ t[i][2] = first + i - 1 BY <1>2
<1>. QED BY <1>6, <1>7 DEF t, c

\* What of numbered bytes fits goes behind what is there.
LEMMA OrderedMore ==
    ASSUME NEW s, NEW number \in Nat, NEW newest \in Nat, Ordered(s, number, newest),
           NEW n \in Nat, NEW t \in Seq(ConsoleBytes), Len(t) = n,
           \A i \in 1..n : t[i][1] = number /\ t[i][2] = newest + 1 + i - 1,
           NEW fits \in 0..n
    PROVE  Ordered(s \o SubSeq(t, 1, fits), number, newest + n)
<1> DEFINE u == SubSeq(t, 1, fits)
           w == s \o u
           k == Len(s)
<1>1. s \in Seq(ConsoleBytes) /\ k \in Nat BY DEF Ordered
<1>2. /\ u \in Seq(ConsoleBytes) /\ Len(u) = fits
      /\ \A i \in 1..fits : u[i] = t[i]
  BY SubSeqProperties
<1> HIDE DEF u
<1>3. /\ w \in Seq(ConsoleBytes) /\ Len(w) = Len(s) + Len(u)
      /\ \A i \in 1..Len(s) + Len(u) : w[i] = IF i <= Len(s) THEN s[i] ELSE u[i - Len(s)]
  BY <1>1, <1>2, ConcatProperties, Zenon
<1> HIDE DEF w, k
<1>4. Len(w) = k + fits
      /\ \A i \in 1..k + fits : w[i] = IF i <= k THEN s[i] ELSE u[i - k]
  BY <1>2, <1>3, Zenon DEF k
<1>5. /\ \A i \in 1..k : s[i][1] = number /\ s[i][2] <= newest /\ s[i][2] \in Nat
      /\ \A i \in 1..k - 1 : s[i][2] < s[i + 1][2]
  <2>1. \A i \in 1..k : s[i] \in ConsoleBytes BY <1>1 DEF k
  <2>. QED BY <2>1, PairOf DEF Ordered, k
<1>6. \A i \in 1..fits : u[i][1] = number /\ u[i][2] = newest + i
  BY <1>2
<1>7. \A i \in 1..k + fits : w[i][1] = number /\ w[i][2] <= newest + n
  <2> TAKE i \in 1..k + fits
  <2>1. CASE i <= k
    <3>1. w[i] = s[i] /\ i \in 1..k BY <1>1, <1>4, <2>1
    <3>. QED BY <1>5, <3>1
  <2>2. CASE ~(i <= k)
    <3>1. w[i] = u[i - k] /\ i - k \in 1..fits BY <1>1, <1>4, <2>2
    <3>. QED BY <1>6, <3>1
  <2>. QED BY <2>1, <2>2
<1>8. \A i \in 1..(k + fits) - 1 : w[i][2] < w[i + 1][2]
  <2> TAKE i \in 1..(k + fits) - 1
  <2>0. i \in 1..k + fits /\ i + 1 \in 1..k + fits BY <1>1
  <2>1. CASE i + 1 <= k
    <3>1. w[i] = s[i] /\ w[i + 1] = s[i + 1] /\ i \in 1..k - 1 BY <1>1, <1>4, <2>0, <2>1
    <3>. QED BY <1>5, <3>1
  <2>2. CASE i = k
    <3>1. w[i] = s[i] /\ i \in 1..k BY <1>1, <1>4, <2>0, <2>2
    <3>2. w[i + 1] = u[1] /\ 1 \in 1..fits
      <4>1. ~(i + 1 <= k) /\ (i + 1) - k = 1 BY <1>1, <2>2
      <4>2. 1 \in 1..fits BY <1>1, <2>0, <2>2
      <4>. QED BY <1>4, <2>0, <4>1, <4>2
    <3>. QED BY <1>5, <1>6, <3>1, <3>2
  <2>3. CASE i > k
    <3>1. w[i] = u[i - k] /\ i - k \in 1..fits BY <1>1, <1>4, <2>0, <2>3
    <3>2. w[i + 1] = u[(i - k) + 1] /\ (i - k) + 1 \in 1..fits
      <4>1. ~(i + 1 <= k) /\ (i + 1) - k = (i - k) + 1 BY <1>1, <2>3
      <4>. QED BY <1>1, <1>4, <2>0, <2>3, <4>1
    <3> DEFINE j == i - k
    <3>3. j \in 1..fits /\ j + 1 \in 1..fits /\ w[i] = u[j] /\ w[i + 1] = u[j + 1]
      BY <3>1, <3>2
    <3> HIDE DEF j
    <3>. QED BY <1>6, <3>3
  <2>. QED BY <1>1, <2>1, <2>2, <2>3
<1>. QED BY <1>3, <1>4, <1>7, <1>8 DEF Ordered, w, u

LEMMA OrderedLess ==
    ASSUME NEW s, NEW number, NEW newest, Ordered(s, number, newest), s # <<>>
    PROVE  Ordered(Tail(s), number, newest)
<1> DEFINE t == Tail(s)
<1>1. s \in Seq(ConsoleBytes) BY DEF Ordered
<1>2. /\ t \in Seq(ConsoleBytes) /\ Len(t) = Len(s) - 1
      /\ \A i \in 1..Len(t) : t[i] = s[i + 1]
  BY <1>1, HeadTailProperties
<1> HIDE DEF t
<1>3. Len(s) \in Nat BY <1>1
<1>4. \A i \in 1..Len(t) : t[i][1] = number /\ t[i][2] <= newest
  BY <1>2, <1>3 DEF Ordered
<1>5. \A i \in 1..Len(t) - 1 : t[i][2] < t[i + 1][2]
  BY <1>2, <1>3 DEF Ordered
<1>. QED BY <1>2, <1>4, <1>5 DEF t, Ordered

LEMMA NoneOrdered == \A number, newest : Ordered(<<>>, number, newest)
<1>1. <<>> \in Seq(ConsoleBytes) /\ Len(<<>>) = 0 OBVIOUS
<1>. QED BY <1>1 DEF Ordered

LEMMA BtAtStart == BtInit => BtInv
<1> SUFFICES ASSUME BtInit PROVE BtInv OBVIOUS
<1>1. BtType BY BtAssumption DEF BtInit, BtType, BtAssumption
<1>. QED BY <1>1 DEF BtInit, BtInv

LEMMA FreshOrdered ==
    ASSUME NEW number, NEW newest
    PROVE  Ordered(<<>> \o <<>>, number, newest)
<1>1. <<>> \o <<>> = <<>> OBVIOUS
<1>. QED BY <1>1, NoneOrdered
LEMMA DisconnectedIs ==
    ASSUME BtType
    PROVE  LET s == Disconnected
           IN  /\ s.incoming = <<>> /\ s.outgoing = <<>> /\ s.connected = FALSE
               /\ s \in [incoming : Seq(ConsoleBytes), outgoing : Seq(ConsoleBytes),
                         connected : BOOLEAN, dropped_outgoing : Nat, dropped_incoming : Nat]
<1> DEFINE e == <<>>
<1>1. e \in Seq(ConsoleBytes) OBVIOUS
<1>2. Disconnected = [stream EXCEPT !.incoming = e, !.outgoing = e, !.connected = FALSE]
  BY DEF Disconnected
<1> HIDE DEF e
<1>3. LET s == Disconnected
      IN  /\ s.incoming = e /\ s.outgoing = e /\ s.connected = FALSE
          /\ s \in [incoming : Seq(ConsoleBytes), outgoing : Seq(ConsoleBytes),
                    connected : BOOLEAN, dropped_outgoing : Nat, dropped_incoming : Nat]
  BY <1>1, <1>2 DEF BtType
<1>. QED BY <1>3 DEF e

LEMMA OpenedKeeps == BtInv /\ ChannelOpened => BtInv'
<1> SUFFICES ASSUME BtInv, ChannelOpened PROVE BtInv' OBVIOUS
<1> DEFINE b == stream.dropped_outgoing
           n == channel.number + 1
<1>1. BtType /\ ~channel.open /\ stream.outgoing = <<>> /\ stream.incoming = <<>>
  BY DEF BtInv, ChannelOpened
<1>2. b \in Nat /\ n \in Nat BY <1>1 DEF BtType
<1>3. /\ channel' = [channel EXCEPT !.open = TRUE, !.number = n]
      /\ stream' = [stream EXCEPT !.connected = TRUE]
      /\ peer' = [sent |-> 0, told |-> 0, heard |-> <<>>, base |-> b]
  BY Zenon DEF ChannelOpened
<1> HIDE DEF b, n
<1>4. /\ channel' \in [open : BOOLEAN, number : Nat, asked : BOOLEAN]
      /\ channel'.open = TRUE /\ channel'.number = n
  BY <1>1, <1>2, <1>3 DEF BtType
<1>5. /\ stream' \in [incoming : Seq(ConsoleBytes), outgoing : Seq(ConsoleBytes),
                      connected : BOOLEAN, dropped_outgoing : Nat, dropped_incoming : Nat]
      /\ stream'.connected = TRUE /\ stream'.outgoing = stream.outgoing
      /\ stream'.incoming = stream.incoming
      /\ stream'.dropped_outgoing = stream.dropped_outgoing
  BY <1>1, <1>3 DEF BtType
<1>6. /\ peer' \in [sent : Nat, told : Nat, heard : Seq(ConsoleBytes), base : Nat]
      /\ peer'.heard = <<>> /\ peer'.told = 0 /\ peer'.sent = 0 /\ peer'.base = b
  BY <1>2, <1>3
<1>7. BtType' BY <1>1, <1>4, <1>5, <1>6 DEF BtType
<1>8. Ordered(peer'.heard \o stream'.outgoing, channel'.number, peer'.told)
  BY <1>1, <1>5, <1>6, FreshOrdered
<1>9. Ordered(stream'.incoming, channel'.number, peer'.sent)
  BY <1>1, <1>5, NoneOrdered, Zenon
<1>10. Len(peer'.heard) + Len(stream'.outgoing) + stream'.dropped_outgoing
          = peer'.told + peer'.base
  <2>1. Len(peer'.heard) = 0 /\ Len(stream'.outgoing) = 0 BY <1>1, <1>5, <1>6
  <2>2. stream'.dropped_outgoing = b BY <1>5, Zenon DEF b
  <2> DEFINE h == Len(peer'.heard)
             o == Len(stream'.outgoing)
             d == stream'.dropped_outgoing
             t == peer'.told
             e == peer'.base
  <2>3. h = 0 /\ o = 0 /\ d = b /\ t = 0 /\ e = b BY <1>6, <2>1, <2>2
  <2> HIDE DEF h, o, d, t, e
  <2>4. h + o + d = t + e BY <1>2, <2>3
  <2>. QED BY <2>4 DEF h, o, d, t, e
<1>. QED BY <1>1, <1>4, <1>5, <1>7, <1>8, <1>9, <1>10, Zenon DEF BtInv

LEMMA FailedKeeps == BtInv /\ ChannelFailed => BtInv'
<1> SUFFICES ASSUME BtInv, ChannelFailed PROVE BtInv' OBVIOUS
<1>1. BtType /\ ~channel.open /\ channel' = channel /\ peer' = peer
  BY DEF BtInv, ChannelFailed
<1>2. stream' = Disconnected BY DEF ChannelFailed
<1>3. /\ stream'.incoming = <<>> /\ stream'.outgoing = <<>> /\ stream'.connected = FALSE
      /\ stream' \in [incoming : Seq(ConsoleBytes), outgoing : Seq(ConsoleBytes),
                      connected : BOOLEAN, dropped_outgoing : Nat, dropped_incoming : Nat]
  BY <1>1, <1>2, DisconnectedIs
<1>4. BtType' BY <1>1, <1>3, BtAssumption DEF BtType, BtAssumption
<1>5. channel'.open = FALSE BY <1>1 DEF BtType
<1>. QED BY <1>3, <1>4, <1>5 DEF BtInv

LEMMA ClosedKeeps == BtInv /\ ChannelClosed => BtInv'
<1> SUFFICES ASSUME BtInv, ChannelClosed PROVE BtInv' OBVIOUS
<1>1. BtType /\ peer' = peer BY DEF BtInv, ChannelClosed
<1>2. stream' = Disconnected /\ channel' = [channel EXCEPT !.open = FALSE, !.asked = FALSE]
  BY DEF ChannelClosed
<1>3. /\ stream'.incoming = <<>> /\ stream'.outgoing = <<>> /\ stream'.connected = FALSE
      /\ stream' \in [incoming : Seq(ConsoleBytes), outgoing : Seq(ConsoleBytes),
                      connected : BOOLEAN, dropped_outgoing : Nat, dropped_incoming : Nat]
  BY <1>1, <1>2, DisconnectedIs
<1>4. /\ channel' \in [open : BOOLEAN, number : Nat, asked : BOOLEAN]
      /\ channel'.open = FALSE
  BY <1>1, <1>2 DEF BtType
<1>5. BtType' BY <1>1, <1>3, <1>4, BtAssumption DEF BtType, BtAssumption
<1>. QED BY <1>3, <1>4, <1>5 DEF BtInv

LEMMA ConsoleWriteKeeps == BtInv /\ StreamWrite => BtInv'
<1> SUFFICES ASSUME BtInv, StreamWrite PROVE BtInv' OBVIOUS
<1>1. PICK n \in 1..Least(MaxWrite, MaxBytes - peer.told) :
         /\ stream' = Buffered(Numbered(peer.told + 1, n))
         /\ peer' = IF channel.open THEN [peer EXCEPT !.told = @ + n] ELSE peer
  BY Zenon DEF StreamWrite
<1>2. BtType BY DEF BtInv
<1>3. /\ peer.told \in Nat /\ channel.number \in Nat /\ stream.outgoing \in Seq(ConsoleBytes)
      /\ stream.dropped_outgoing \in Nat /\ OutCapacity \in Nat
      /\ Len(stream.outgoing) <= OutCapacity /\ peer.heard \in Seq(ConsoleBytes)
  BY <1>2, BtAssumption DEF BtType, BtAssumption
<1>4. n \in Nat BY <1>3, BtAssumption DEF Least, BtAssumption
<1> DEFINE t == Numbered(peer.told + 1, n)
           room == OutCapacity - Len(stream.outgoing)
           fits == IF stream.connected THEN Least(n, room) ELSE 0
           more == SubSeq(t, 1, fits)
           whole == stream.outgoing \o more
           d == stream.dropped_outgoing + n - fits
<1>5. /\ t \in Seq(ConsoleBytes) /\ Len(t) = n
      /\ \A i \in 1..n : t[i][1] = channel.number /\ t[i][2] = peer.told + 1 + i - 1
  <2> DEFINE first == peer.told + 1
  <2>1. first \in Nat /\ \A i : first + i - 1 = peer.told + 1 + i - 1 BY <1>3
  <2>2. t = Numbered(first, n) OBVIOUS
  <2> HIDE DEF first, t
  <2>3. /\ t \in Seq(ConsoleBytes) /\ Len(t) = n
        /\ \A i \in 1..n : t[i][1] = channel.number /\ t[i][2] = first + i - 1
    BY <1>2, <1>4, <2>1, <2>2, NumberedIs
  <2>. QED BY <2>1, <2>3
<1>6. stream' = [stream EXCEPT !.outgoing = whole, !.dropped_outgoing = d]
  <2>1. LET f == IF stream.connected
                   THEN Least(Len(t), OutCapacity - Len(stream.outgoing)) ELSE 0
        IN  stream' = [stream EXCEPT !.outgoing = @ \o SubSeq(t, 1, f),
                                     !.dropped_outgoing = @ + Len(t) - f]
    BY <1>1, Zenon DEF Buffered
  <2> HIDE DEF t
  <2>. QED BY <1>5, <2>1, Zenon
<1> HIDE DEF t
<1>7. fits \in 0..n /\ (stream.connected => fits <= room) /\ (~stream.connected => fits = 0)
  <2>1. room \in Nat BY <1>3
  <2> HIDE DEF room
  <2>2. Least(n, room) \in 0..n /\ Least(n, room) <= room BY <1>4, <2>1 DEF Least
  <2>3. 0 \in 0..n BY <1>4
  <2>. QED BY <2>2, <2>3, Zenon
<1> HIDE DEF fits
<1>8. more \in Seq(ConsoleBytes) /\ Len(more) = fits
  BY <1>4, <1>5, <1>7, SubSeqProperties
<1> HIDE DEF more
<1>9. whole \in Seq(ConsoleBytes) /\ Len(whole) = Len(stream.outgoing) + fits
  BY <1>3, <1>8, ConcatProperties
<1>10. d \in Nat BY <1>3, <1>4, <1>7
<1> HIDE DEF whole, d
<1>11. /\ stream' \in [incoming : Seq(ConsoleBytes), outgoing : Seq(ConsoleBytes),
                       connected : BOOLEAN, dropped_outgoing : Nat, dropped_incoming : Nat]
       /\ stream'.outgoing = whole /\ stream'.dropped_outgoing = d
       /\ stream'.incoming = stream.incoming /\ stream'.connected = stream.connected
  BY <1>2, <1>6, <1>9, <1>10 DEF BtType
<1>12. Len(whole) <= OutCapacity
  BY <1>3, <1>7, <1>9
<1> DEFINE asked == channel.open /\ (channel.asked \/ stream'.outgoing # <<>>)
<1>13. channel' = [channel EXCEPT !.asked = asked] BY Zenon DEF StreamWrite
<1>14. asked \in BOOLEAN OBVIOUS
<1>15. channel.open /\ stream'.outgoing # <<>> => asked OBVIOUS
<1> HIDE DEF asked
<1>16. /\ channel' \in [open : BOOLEAN, number : Nat, asked : BOOLEAN]
       /\ channel'.open = channel.open /\ channel'.number = channel.number
       /\ channel'.asked = asked
  BY <1>2, <1>13, <1>14 DEF BtType
<1>17. CASE channel.open
  <2> DEFINE told == peer.told + n
  <2>1. peer' = [peer EXCEPT !.told = told] BY <1>1, <1>17, Zenon
  <2>2. told \in Nat BY <1>3, <1>4
  <2>3. told = peer.told + n OBVIOUS
  <2> HIDE DEF told
  <2>4. /\ peer' \in [sent : Nat, told : Nat, heard : Seq(ConsoleBytes), base : Nat]
        /\ peer'.told = told /\ peer'.heard = peer.heard /\ peer'.sent = peer.sent
        /\ peer'.base = peer.base
    BY <1>2, <2>1, <2>2 DEF BtType
  <2>5. Ordered(peer.heard \o stream.outgoing, channel.number, peer.told)
    BY <1>17 DEF BtInv
  <2>6. Ordered((peer.heard \o stream.outgoing) \o more, channel.number, told)
    BY <1>3, <1>4, <1>5, <1>7, <2>3, <2>5, OrderedMore DEF more
  <2>7. peer.heard \o whole = (peer.heard \o stream.outgoing) \o more
    <3>1. \A p, q, r \in Seq(ConsoleBytes) : (p \o q) \o r = p \o (q \o r)
      BY ConcatAssociative
    <3>. QED BY <1>3, <1>8, <3>1, Zenon DEF whole
  <2>8. Ordered(peer'.heard \o stream'.outgoing, channel'.number, peer'.told)
    BY <1>11, <1>16, <2>4, <2>6, <2>7, Zenon
  <2>9. Ordered(stream'.incoming, channel'.number, peer'.sent)
    BY <1>11, <1>16, <1>17, <2>4, Zenon DEF BtInv
  <2>10. Len(peer'.heard) + Len(stream'.outgoing) + stream'.dropped_outgoing
            = peer'.told + peer'.base
    <3> DEFINE h == Len(peer.heard)
               o == Len(stream.outgoing)
               b == peer.base
               e == stream.dropped_outgoing
    <3>1. h + o + e = peer.told + b BY <1>17, Zenon DEF BtInv
    <3>2. h \in Nat /\ o \in Nat /\ e \in Nat /\ b \in Nat
      BY <1>2, <1>3 DEF BtType
    <3>3. Len(whole) = o + fits /\ d = e + n - fits BY <1>9 DEF d
    <3> DEFINE w == Len(whole)
               t0 == peer.told
    <3>7. fits \in Int BY <1>4, <1>7
    <3>5. h + o + e = t0 + b /\ t0 \in Nat /\ told = t0 + n /\ w = o + fits
          /\ d = e + n - fits
      BY <1>3, <2>3, <3>1, <3>3, Zenon
    <3> HIDE DEF h, o, b, e, w, t0
    <3>6. h + w + d = told + b BY <1>4, <3>2, <3>5, <3>7
    <3>4. h + Len(whole) + d = told + b BY <3>6 DEF w
    <3>. QED BY <1>11, <2>4, <3>4, Zenon DEF h, b
  <2>11. BtType' BY <1>2, <1>11, <1>12, <1>16, <2>4 DEF BtType
  <2>12. stream'.outgoing # <<>> => channel'.asked BY <1>15, <1>16, <1>17, Zenon
  <2>13. channel'.open = stream'.connected BY <1>11, <1>16, Zenon DEF BtInv
  <2>. QED BY <1>16, <1>17, <2>8, <2>9, <2>10, <2>11, <2>12, <2>13, Zenon DEF BtInv
<1>18. CASE ~channel.open
  <2>1. peer' = peer BY <1>1, <1>18, Zenon
  <2>2. ~stream.connected BY <1>18, Zenon DEF BtInv
  <2>3. fits = 0 BY <1>7, <2>2, Zenon
  <2>4. stream.outgoing = <<>> /\ stream.incoming = <<>> BY <1>18, Zenon DEF BtInv
  <2>5. whole = <<>>
    <3>1. Len(whole) = 0 BY <1>9, <2>3, <2>4
    <3>. QED BY <1>9, <3>1
  <2>6. BtType' BY <1>2, <1>11, <1>12, <1>16, <2>1 DEF BtType
  <2>7. channel'.open = stream'.connected BY <1>11, <1>16, Zenon DEF BtInv
  <2>8. ~channel'.open BY <1>16, <1>18, Zenon
  <2>9. stream'.outgoing = <<>> /\ stream'.incoming = <<>> BY <1>11, <2>4, <2>5, Zenon
  <2>. QED BY <2>6, <2>7, <2>8, <2>9, Zenon DEF BtInv
<1>. QED BY <1>17, <1>18
LEMMA ConsoleSendKeeps == BtInv /\ CanSendNow => BtInv'
<1> SUFFICES ASSUME BtInv, CanSendNow PROVE BtInv' OBVIOUS
<1>1. PICK mtu \in Mtus, taken \in BOOLEAN :
         LET room == Least(mtu, Len(stream.outgoing))
             n    == IF taken THEN room ELSE 0
         IN  /\ peer' = [peer EXCEPT !.heard = @ \o SubSeq(stream.outgoing, 1, n)]
             /\ stream' = [stream EXCEPT !.outgoing = SubSeq(@, n + 1, Len(@))]
             /\ channel' = [channel EXCEPT !.asked = stream'.outgoing # <<>>]
  BY Zenon DEF CanSendNow
<1>2. BtType /\ channel.open BY DEF BtInv, CanSendNow
<1>3. mtu \in Nat BY BtAssumption DEF BtAssumption
<1> DEFINE o == stream.outgoing
           k == Len(o)
           n == IF taken THEN Least(mtu, k) ELSE 0
           gone == SubSeq(o, 1, n)
           rest == SubSeq(o, n + 1, k)
           heard == peer.heard \o gone
           asked == rest # <<>>
<1>4. o \in Seq(ConsoleBytes) /\ peer.heard \in Seq(ConsoleBytes) /\ k \in Nat
      /\ k <= OutCapacity
  BY <1>2 DEF BtType
<1>5. /\ peer' = [peer EXCEPT !.heard = heard]
      /\ stream' = [stream EXCEPT !.outgoing = rest]
      /\ channel' = [channel EXCEPT !.asked = stream'.outgoing # <<>>]
  BY <1>1, Zenon
<1> HIDE DEF o, k
<1>6. n \in 0..k
  <2>1. Least(mtu, k) \in 0..k /\ 0 \in 0..k BY <1>3, <1>4 DEF Least
  <2>. QED BY <2>1, Zenon
<1> HIDE DEF n
<1>7. n \in Int /\ n <= k BY <1>4, <1>6
<1>8. gone \in Seq(ConsoleBytes) /\ Len(gone) = n
  <2>1. \A i \in 1..n : i \in 1..Len(o) BY <1>4, <1>7 DEF k
  <2>. QED BY <1>4, <1>6, <2>1, SubSeqProperties
<1>9. rest \in Seq(ConsoleBytes) /\ Len(rest) = k - n
  <2> DEFINE m == n + 1
  <2>1. m \in 1..k + 1 /\ \A i \in m..k : i \in 1..Len(o) BY <1>4, <1>6 DEF k
  <2>2. rest = SubSeq(o, m, k) OBVIOUS
  <2>3. (m <= k => k - m + 1 = k - n) /\ (~(m <= k) => k - n = 0) BY <1>4, <1>6
  <2> HIDE DEF m, rest
  <2>4. rest \in Seq(ConsoleBytes) /\ Len(rest) = IF m <= k THEN k - m + 1 ELSE 0
    BY <1>4, <2>1, <2>2, SubSeqProperties
  <2>. QED BY <2>3, <2>4
<1>10. gone \o rest = o
  <2>1. SubSeq(o, 1, k) = o BY <1>4, SubSeqFull DEF k
  <2>2. 1 \in 1..Len(o) + 1 /\ k \in 0..Len(o) /\ n \in 1 - 1..k
    BY <1>4, <1>6 DEF k
  <2>3. SubSeq(o, 1, n) \o SubSeq(o, n + 1, k) = SubSeq(o, 1, k)
    BY <1>4, <2>2, ConcatAdjacentSubSeq
  <2>. QED BY <2>1, <2>3
<1> HIDE DEF gone, rest
<1>11. heard \in Seq(ConsoleBytes) /\ Len(heard) = Len(peer.heard) + n
  BY <1>4, <1>8, ConcatProperties
<1>12. heard \o rest = peer.heard \o o
  <2>1. \A p, q, r \in Seq(ConsoleBytes) : (p \o q) \o r = p \o (q \o r)
    BY ConcatAssociative
  <2>2. heard \o rest = peer.heard \o (gone \o rest) BY <1>4, <1>8, <1>9, <2>1, Zenon
  <2>. QED BY <1>10, <2>2, Zenon
<1> HIDE DEF heard
<1>13. /\ stream' \in [incoming : Seq(ConsoleBytes), outgoing : Seq(ConsoleBytes),
                       connected : BOOLEAN, dropped_outgoing : Nat, dropped_incoming : Nat]
       /\ stream'.outgoing = rest /\ stream'.dropped_outgoing = stream.dropped_outgoing
       /\ stream'.incoming = stream.incoming /\ stream'.connected = stream.connected
  BY <1>2, <1>5, <1>9 DEF BtType
<1>14. /\ peer' \in [sent : Nat, told : Nat, heard : Seq(ConsoleBytes), base : Nat]
       /\ peer'.told = peer.told /\ peer'.heard = heard /\ peer'.sent = peer.sent
       /\ peer'.base = peer.base
  BY <1>2, <1>5, <1>11 DEF BtType
<1>15. channel' = [channel EXCEPT !.asked = asked] BY <1>5, <1>13, Zenon
<1>16. asked \in BOOLEAN OBVIOUS
<1>17. rest # <<>> => asked OBVIOUS
<1> HIDE DEF asked
<1>18. /\ channel' \in [open : BOOLEAN, number : Nat, asked : BOOLEAN]
       /\ channel'.open = channel.open /\ channel'.number = channel.number
       /\ channel'.asked = asked
  BY <1>2, <1>15, <1>16 DEF BtType
<1>19. Len(rest) <= OutCapacity
  <2>1. OutCapacity \in Nat BY BtAssumption DEF BtAssumption
  <2>. QED BY <1>4, <1>6, <1>9, <2>1
<1>20. BtType' BY <1>2, <1>13, <1>14, <1>18, <1>19 DEF BtType
<1>21. Ordered(peer'.heard \o stream'.outgoing, channel'.number, peer'.told)
  <2>1. Ordered(peer.heard \o o, channel.number, peer.told) BY <1>2, Zenon DEF BtInv, o
  <2>. QED BY <1>12, <1>13, <1>14, <1>18, <2>1, Zenon
<1>22. Ordered(stream'.incoming, channel'.number, peer'.sent)
  BY <1>2, <1>13, <1>14, <1>18, Zenon DEF BtInv
<1>23. Len(peer'.heard) + Len(stream'.outgoing) + stream'.dropped_outgoing
          = peer'.told + peer'.base
  <2> DEFINE h == Len(peer.heard)
             b == peer.base
             t == peer.told
             e == stream.dropped_outgoing
             x == Len(heard)
             y == Len(rest)
  <2>1. h + k + e = t + b BY <1>2, Zenon DEF BtInv, o, k
  <2>2. h \in Nat /\ e \in Nat /\ b \in Nat /\ t \in Nat
    BY <1>2, <1>4 DEF BtType
  <2>3. x = h + n /\ y = k - n BY <1>9, <1>11
  <2> HIDE DEF h, b, t, e, x, y
  <2>4. x + y + e = t + b BY <1>4, <1>7, <2>1, <2>2, <2>3
  <2>. QED BY <1>13, <1>14, <2>4, Zenon DEF x, y, e, t, b
<1>24. stream'.outgoing # <<>> => channel'.asked BY <1>13, <1>17, <1>18, Zenon
<1>25. channel'.open = stream'.connected BY <1>13, <1>18, Zenon DEF BtInv
<1>. QED BY <1>2, <1>18, <1>20, <1>21, <1>22, <1>23, <1>24, <1>25, Zenon DEF BtInv

LEMMA ConsolePollKeeps == BtInv /\ ConsolePoll => BtInv'
<1> SUFFICES ASSUME BtInv, ConsolePoll PROVE BtInv' OBVIOUS
<1>1. BtType /\ channel.open /\ stream' = stream /\ peer' = peer
      /\ channel' = [channel EXCEPT !.asked = TRUE]
  BY DEF BtInv, ConsolePoll
<1>2. /\ channel' \in [open : BOOLEAN, number : Nat, asked : BOOLEAN]
      /\ channel'.open = channel.open /\ channel'.number = channel.number
      /\ channel'.asked = TRUE
  BY <1>1 DEF BtType
<1>3. BtType' BY <1>1, <1>2 DEF BtType
<1>. QED BY <1>1, <1>2, <1>3, Zenon DEF BtInv

LEMMA ConsoleDataKeeps == BtInv /\ DataPacket => BtInv'
<1> SUFFICES ASSUME BtInv, DataPacket PROVE BtInv' OBVIOUS
<1>1. PICK n \in 1..Least(MaxWrite, MaxBytes - peer.sent) :
         /\ stream' = Stored(Numbered(peer.sent + 1, n))
         /\ peer' = [peer EXCEPT !.sent = @ + n]
  BY Zenon DEF DataPacket
<1>2. BtType /\ channel.open /\ channel' = channel BY DEF BtInv, DataPacket
<1>3. /\ peer.sent \in Nat /\ channel.number \in Nat /\ stream.incoming \in Seq(ConsoleBytes)
      /\ stream.dropped_incoming \in Nat /\ InCapacity \in Nat
      /\ Len(stream.incoming) <= InCapacity
  BY <1>2, BtAssumption DEF BtType, BtAssumption
<1>4. n \in Nat BY <1>3, BtAssumption DEF Least, BtAssumption
<1> DEFINE t == Numbered(peer.sent + 1, n)
           room == InCapacity - Len(stream.incoming)
           fits == Least(n, room)
           more == SubSeq(t, 1, fits)
           whole == stream.incoming \o more
           d == stream.dropped_incoming + n - fits
           sent == peer.sent + n
<1>5. /\ t \in Seq(ConsoleBytes) /\ Len(t) = n
      /\ \A i \in 1..n : t[i][1] = channel.number /\ t[i][2] = peer.sent + 1 + i - 1
  <2> DEFINE first == peer.sent + 1
  <2>1. first \in Nat /\ \A i : first + i - 1 = peer.sent + 1 + i - 1 BY <1>3
  <2>2. t = Numbered(first, n) OBVIOUS
  <2> HIDE DEF first, t
  <2>3. /\ t \in Seq(ConsoleBytes) /\ Len(t) = n
        /\ \A i \in 1..n : t[i][1] = channel.number /\ t[i][2] = first + i - 1
    BY <1>2, <1>4, <2>1, <2>2, NumberedIs
  <2>. QED BY <2>1, <2>3
<1>6. stream' = [stream EXCEPT !.incoming = whole, !.dropped_incoming = d]
  <2>1. LET f == Least(Len(t), InCapacity - Len(stream.incoming))
        IN  stream' = [stream EXCEPT !.incoming = @ \o SubSeq(t, 1, f),
                                     !.dropped_incoming = @ + Len(t) - f]
    BY <1>1, Zenon DEF Stored
  <2> HIDE DEF t
  <2>. QED BY <1>5, <2>1, Zenon
<1> HIDE DEF t
<1>7. fits \in 0..n /\ fits <= room
  <2>1. room \in Nat BY <1>3
  <2> HIDE DEF room
  <2>. QED BY <1>4, <2>1 DEF Least
<1> HIDE DEF fits
<1>8. more \in Seq(ConsoleBytes) /\ Len(more) = fits
  BY <1>4, <1>5, <1>7, SubSeqProperties
<1>9. Ordered(whole, channel.number, sent)
  <2>1. Ordered(stream.incoming, channel.number, peer.sent) BY <1>2, Zenon DEF BtInv
  <2>. QED BY <1>3, <1>4, <1>5, <1>7, <2>1, OrderedMore
<1>10. sent \in Nat /\ d \in Nat BY <1>3, <1>4, <1>7
<1> HIDE DEF more
<1>11. whole \in Seq(ConsoleBytes) /\ Len(whole) = Len(stream.incoming) + fits
  BY <1>3, <1>8, ConcatProperties
<1>12. peer' = [peer EXCEPT !.sent = sent] BY <1>1, Zenon
<1> HIDE DEF whole, d, sent
<1>13. /\ stream' \in [incoming : Seq(ConsoleBytes), outgoing : Seq(ConsoleBytes),
                       connected : BOOLEAN, dropped_outgoing : Nat, dropped_incoming : Nat]
       /\ stream'.incoming = whole /\ stream'.dropped_outgoing = stream.dropped_outgoing
       /\ stream'.outgoing = stream.outgoing /\ stream'.connected = stream.connected
  BY <1>2, <1>6, <1>10, <1>11 DEF BtType
<1>14. /\ peer' \in [sent : Nat, told : Nat, heard : Seq(ConsoleBytes), base : Nat]
       /\ peer'.told = peer.told /\ peer'.heard = peer.heard /\ peer'.sent = sent
       /\ peer'.base = peer.base
  BY <1>2, <1>10, <1>12 DEF BtType
<1>15. Len(whole) <= InCapacity BY <1>3, <1>7, <1>11
<1>16. BtType' BY <1>2, <1>13, <1>14, <1>15 DEF BtType
<1>17. Ordered(stream'.incoming, channel'.number, peer'.sent)
  BY <1>2, <1>9, <1>13, <1>14, Zenon
<1>18. /\ Ordered(peer'.heard \o stream'.outgoing, channel'.number, peer'.told)
       /\ Len(peer'.heard) + Len(stream'.outgoing) + stream'.dropped_outgoing
             = peer'.told + peer'.base
       /\ stream'.outgoing # <<>> => channel'.asked
  BY <1>2, <1>13, <1>14, Zenon DEF BtInv
<1>19. channel'.open = stream'.connected BY <1>2, <1>13, Zenon DEF BtInv
<1>. QED BY <1>2, <1>16, <1>17, <1>18, <1>19, Zenon DEF BtInv

LEMMA ConsoleReadKeeps == BtInv /\ StreamRead => BtInv'
<1> SUFFICES ASSUME BtInv, StreamRead PROVE BtInv' OBVIOUS
<1> DEFINE rest == Tail(stream.incoming)
<1>1. BtType /\ channel' = channel /\ peer' = peer /\ stream.incoming # <<>>
      /\ stream' = [stream EXCEPT !.incoming = rest]
  BY DEF BtInv, StreamRead
<1>2. stream.incoming \in Seq(ConsoleBytes) /\ Len(stream.incoming) <= InCapacity
  BY <1>1 DEF BtType
<1>3. rest \in Seq(ConsoleBytes) /\ Len(rest) = Len(stream.incoming) - 1
  BY <1>1, <1>2, HeadTailProperties
<1>4. Ordered(stream.incoming, channel.number, peer.sent) =>
        Ordered(rest, channel.number, peer.sent)
  BY <1>1, OrderedLess
<1> HIDE DEF rest
<1>5. /\ stream' \in [incoming : Seq(ConsoleBytes), outgoing : Seq(ConsoleBytes),
                      connected : BOOLEAN, dropped_outgoing : Nat, dropped_incoming : Nat]
      /\ stream'.incoming = rest /\ stream'.dropped_outgoing = stream.dropped_outgoing
      /\ stream'.outgoing = stream.outgoing /\ stream'.connected = stream.connected
  BY <1>1, <1>3 DEF BtType
<1>6. channel.open BY <1>1, Zenon DEF BtInv
<1>7. Len(rest) <= InCapacity
  <2>1. InCapacity \in Nat /\ Len(stream.incoming) \in Nat
    BY <1>2, BtAssumption DEF BtAssumption
  <2>. QED BY <1>2, <1>3, <2>1
<1>8. BtType' BY <1>1, <1>5, <1>7 DEF BtType
<1>9. Ordered(stream'.incoming, channel'.number, peer'.sent)
  BY <1>1, <1>4, <1>5, <1>6, Zenon DEF BtInv
<1>10. /\ Ordered(peer'.heard \o stream'.outgoing, channel'.number, peer'.told)
       /\ Len(peer'.heard) + Len(stream'.outgoing) + stream'.dropped_outgoing
             = peer'.told + peer'.base
       /\ stream'.outgoing # <<>> => channel'.asked
  BY <1>1, <1>5, <1>6, Zenon DEF BtInv
<1>11. channel'.open = stream'.connected BY <1>1, <1>5, Zenon DEF BtInv
<1>. QED BY <1>1, <1>6, <1>8, <1>9, <1>10, <1>11, Zenon DEF BtInv

LEMMA BtStays == BtInv /\ UNCHANGED btVars => BtInv'
<1> SUFFICES ASSUME BtInv, UNCHANGED btVars PROVE BtInv' OBVIOUS
<1>1. stream' = stream /\ channel' = channel /\ peer' = peer BY DEF btVars
<1>2. BtType' BY <1>1, Zenon DEF BtInv, BtType
<1>. QED BY <1>1, <1>2, Zenon DEF BtInv

LEMMA PeerHears == BtInv => PeerHearsItsOwn
<1> SUFFICES ASSUME BtInv, channel.open PROVE
       /\ Ascending(peer.heard \o stream.outgoing) /\ Ascending(stream.incoming)
       /\ Len(peer.heard) + Len(stream.outgoing) + stream.dropped_outgoing - peer.base
             = peer.told
       /\ stream.outgoing # <<>> => channel.asked
  BY Zenon DEF PeerHearsItsOwn
<1>1. /\ Ordered(peer.heard \o stream.outgoing, channel.number, peer.told)
      /\ Ordered(stream.incoming, channel.number, peer.sent)
      /\ Len(peer.heard) + Len(stream.outgoing) + stream.dropped_outgoing
           = peer.told + peer.base
      /\ stream.outgoing # <<>> => channel.asked
  BY Zenon DEF BtInv
<1>2. Ascending(peer.heard \o stream.outgoing) /\ Ascending(stream.incoming)
  BY <1>1, Zenon DEF Ordered, Ascending
<1> DEFINE h == Len(peer.heard)
           o == Len(stream.outgoing)
           b == peer.base
           t == peer.told
           e == stream.dropped_outgoing
<1>3. h \in Nat /\ o \in Nat /\ b \in Nat /\ t \in Nat /\ e \in Nat
  BY DEF BtInv, BtType
<1>4. h + o + e = t + b BY <1>1, Zenon
<1> HIDE DEF h, o, b, t, e
<1>5. h + o + e - b = t BY <1>3, <1>4
<1>. QED BY <1>1, <1>2, <1>5, Zenon DEF h, o, b, t, e

\* For rings and packets of any size and any order of writes, packets,
\* connections and losses, a peer hears only what was written to it, in order,
\* and all of it that was not counted as dropped; the console reads only what
\* this peer sent; and output does not wait unasked (bt_stream.c, bt_console.c).
THEOREM ConsoleCorrect == BtSpec => []PeerHearsItsOwn
<1>1. BtInv /\ [BtNext]_btVars => BtInv'
  BY OpenedKeeps, FailedKeeps, ClosedKeeps, ConsoleWriteKeeps, ConsoleSendKeeps, ConsolePollKeeps, ConsoleDataKeeps,
     ConsoleReadKeeps, BtStays, Zenon DEF BtNext
<1>. QED BY BtAtStart, PeerHears, <1>1, PTL DEF BtSpec
-----------------------------------------------------------------------------
(***************************************************************************)
(* LogSink                                                                 *)
(***************************************************************************)

LogBytes == Nat \X Nat

\* What memory and ghost are when they agree.
Agreed(both) ==
    /\ both \in [memory : Seq(LogBytes), due : Seq(LogBytes)]
    /\ both.memory = both.due /\ Len(both.memory) <= MemoryRoom

LineFits(line) == line \in Seq(LogBytes) /\ Len(line) <= MemoryRoom

LogInv ==
    /\ lines \in Nat
    /\ Agreed([memory |-> log.memory, due |-> due])
    /\ log.sinks \in Seq([kind : {"memory", "stdio"}, min : Nat])
    /\ log = [started |-> log.started, sinks |-> log.sinks, level |-> log.level,
              memory |-> log.memory, ready |-> log.ready]

-----------------------------------------------------------------------------
(* One line in one memory sink *)

LEMMA KeptIsNewest ==
    ASSUME NEW m \in Seq(LogBytes), Len(m) <= MemoryRoom, NEW line, LineFits(line)
    PROVE  /\ Kept(m, line) = Newest(m \o line)
           /\ Kept(m, line) \in Seq(LogBytes) /\ Len(Kept(m, line)) <= MemoryRoom
<1> DEFINE k == Len(m)
           l == Len(line)
           need == l - (MemoryRoom - k)
           drop == IF need < 0 THEN 0 ELSE IF need > k THEN k ELSE need
           left == SubSeq(m, drop + 1, k)
           room == MemoryRoom - Len(left)
           whole == m \o line
           first == IF Len(whole) > MemoryRoom THEN Len(whole) - MemoryRoom + 1 ELSE 1
<1>1. MemoryRoom \in Nat BY LogAssumption DEF LogAssumption
<1>2. k \in Nat /\ l \in Nat /\ l <= MemoryRoom /\ line \in Seq(LogBytes)
  BY DEF LineFits
<1>3. drop \in 0..k /\ (need > 0 => drop = need) /\ (~(need > 0) => drop = 0)
  <2>1. need \in Int /\ need <= k BY <1>1, <1>2
  <2> HIDE DEF need, k
  <2>. QED BY <1>2, <2>1
<1>4. Kept(m, line) = left \o SubSeq(line, 1, IF room < l THEN room ELSE l)
  BY Zenon DEF Kept
<1>5. Newest(m \o line) = SubSeq(whole, first, Len(whole)) BY Zenon DEF Newest
<1>6. drop \in Int /\ drop <= k BY <1>2, <1>3
<1>7. left \in Seq(LogBytes) /\ Len(left) = k - drop
  <2> DEFINE a == drop + 1
  <2>1. a \in 1..k + 1 /\ \A i \in a..k : i \in 1..Len(m)
    <3> HIDE DEF drop
    <3>. QED BY <1>2, <1>3
  <2>2. (a <= k => k - a + 1 = k - drop) /\ (~(a <= k) => k - drop = 0)
    <3> HIDE DEF drop
    <3>. QED BY <1>2, <1>3
  <2>3. left = SubSeq(m, a, k) OBVIOUS
  <2> HIDE DEF a, left, drop, k
  <2>4. left \in Seq(LogBytes) /\ Len(left) = IF a <= k THEN k - a + 1 ELSE 0
    BY <1>2, <2>1, <2>3, SubSeqProperties
  <2>. QED BY <2>2, <2>4
<1>8. Len(whole) = k + l /\ whole \in Seq(LogBytes)
  BY <1>2, ConcatProperties
<1>9. first = drop + 1 /\ room >= l /\ room \in Int
  <2>1. need = l - (MemoryRoom - k) OBVIOUS
  <2>2. Len(whole) > MemoryRoom <=> need > 0
    <3> HIDE DEF k, l, whole
    <3>. QED BY <1>1, <1>2, <1>8
  <2> HIDE DEF need, k, l, whole, drop, left
  <2>. QED BY <1>1, <1>2, <1>3, <1>6, <1>7, <1>8, <2>1, <2>2
<1>10. Kept(m, line) = left \o line
  <2>1. (IF room < l THEN room ELSE l) = l
    <3> HIDE DEF room, l
    <3>. QED BY <1>2, <1>9
  <2>2. SubSeq(line, 1, l) = line BY <1>2, SubSeqFull
  <2>. QED BY <1>4, <2>1, <2>2, Zenon
<1>11. SubSeq(whole, drop + 1, Len(whole)) = left \o line
  <2> DEFINE a == drop + 1
             n == Len(whole)
  <2>0. a \in Nat /\ a >= 1 /\ a <= k + 1 /\ n = k + l
    <3> HIDE DEF drop, k, l, whole
    <3>. QED BY <1>2, <1>3, <1>8
  <2> DEFINE y == SubSeq(whole, a, n)
             z == left \o line
  <2>1. /\ y \in Seq(LogBytes) /\ Len(y) = n - drop
        /\ \A i \in 1..n - drop : y[i] = whole[i + drop]
    <3>1. a \in 1..n + 1 /\ \A i \in a..n : i \in 1..Len(whole)
      <4> HIDE DEF a, k, l
      <4>. QED BY <1>2, <1>8, <2>0
    <3>2. /\ (a <= n => n - a + 1 = n - drop) /\ (~(a <= n) => n - drop = 0)
          /\ \A i \in 1..n - drop : i \in 1..n - a + 1 /\ a + i - 1 = i + drop
      <4>1. a = drop + 1 OBVIOUS
      <4> HIDE DEF a, k, l, n, drop
      <4>. QED BY <1>2, <1>3, <2>0, <4>1
    <3> HIDE DEF y, a, n, whole, drop, k, l
    <3>3. /\ y \in Seq(LogBytes) /\ Len(y) = IF a <= n THEN n - a + 1 ELSE 0
          /\ \A i \in 1..n - a + 1 : y[i] = whole[a + i - 1]
      BY <1>8, <2>0, <3>1, SubSeqProperties DEF y, n
    <3>. QED BY <3>2, <3>3
  <2>2. /\ z \in Seq(LogBytes) /\ Len(z) = Len(left) + Len(line)
        /\ \A i \in 1..Len(left) + Len(line) :
              z[i] = IF i <= Len(left) THEN left[i] ELSE line[i - Len(left)]
    <3> HIDE DEF left
    <3>. QED BY <1>2, <1>7, ConcatProperties, Zenon
  <2>3. \A i \in 1..Len(m) + Len(line) :
              whole[i] = IF i <= Len(m) THEN m[i] ELSE line[i - Len(m)]
    BY <1>2, ConcatProperties, Zenon
  <2>4. \A i \in 1..k - drop : left[i] = m[i + drop]
    <3>1. a \in 1..k + 1 /\ \A i \in a..k : i \in 1..Len(m)
      <4> HIDE DEF drop
      <4>. QED BY <1>2, <1>3
    <3>2. \A i \in 1..k - drop : i \in 1..k - a + 1 /\ a + i - 1 = i + drop
      <4> HIDE DEF drop
      <4>. QED BY <1>2, <1>3
    <3>3. left = SubSeq(m, a, k) OBVIOUS
    <3> HIDE DEF a, left, drop, k
    <3>4. \A i \in 1..k - a + 1 : left[i] = m[a + i - 1]
      BY <1>2, <3>1, <3>3, SubSeqProperties
    <3>. QED BY <3>2, <3>4
  <2> DEFINE c == k - drop
  <2>5. Len(z) = c + l /\ Len(left) = c /\ n - drop = c + l /\ c \in Nat
    <3>1. Len(left) = c BY <1>7
    <3> HIDE DEF left, z, k, l, n, drop
    <3>2. c \in Nat /\ n - drop = c + l BY <1>2, <1>3, <2>0
    <3>. QED BY <2>2, <3>1, <3>2 DEF l
  <2>6. \A i \in 1..c + l : y[i] = z[i]
    <3> TAKE i \in 1..c + l
    <3>1. y[i] = whole[i + drop] /\ i + drop \in 1..k + l
      <4> HIDE DEF y, whole, k, l, n, drop
      <4>. QED BY <1>2, <1>3, <2>0, <2>1, <2>5 DEF c
    <3>2. z[i] = IF i <= c THEN left[i] ELSE line[i - c]
      <4> HIDE DEF left, z, c
      <4>. QED BY <2>2, <2>5
    <3>3. whole[i + drop] = IF i + drop <= k THEN m[i + drop] ELSE line[(i + drop) - k]
      <4> HIDE DEF whole, drop
      <4>. QED BY <2>3, <3>1
    <3>4. CASE i <= c
      <4>1. i + drop <= k /\ i \in 1..c
        <5> HIDE DEF k, drop
        <5>. QED BY <1>2, <1>3, <2>5, <3>4 DEF c
      <4> HIDE DEF y, z, whole, k, drop, left, c
      <4>. QED BY <2>4, <3>1, <3>2, <3>3, <3>4, <4>1 DEF c
    <3>5. CASE ~(i <= c)
      <4>1. ~(i + drop <= k) /\ (i + drop) - k = i - c
        <5> HIDE DEF k, drop
        <5>. QED BY <1>2, <1>3, <2>5, <3>5 DEF c
      <4> HIDE DEF y, z, whole, k, drop, left, c
      <4>. QED BY <3>1, <3>2, <3>3, <3>5, <4>1
    <3>. QED BY <3>4, <3>5
  <2>7. y = z
    <3> HIDE DEF y, z, c, l, n, drop
    <3>1. Len(y) = c + l /\ Len(z) = c + l BY <2>1, <2>5
    <3>2. y \in Seq(LogBytes) /\ z \in Seq(LogBytes) BY <2>1, <2>2
    <3>. QED BY <2>6, <3>1, <3>2
  <2>. QED BY <2>7
<1> HIDE DEF left, room, first, whole, drop, need
<1>12. Kept(m, line) = Newest(m \o line) BY <1>5, <1>9, <1>10, <1>11, Zenon
<1>13. left \o line \in Seq(LogBytes) /\ Len(left \o line) = Len(left) + Len(line)
  BY <1>2, <1>7, ConcatProperties
<1>14. Len(left) + Len(line) <= MemoryRoom
  <2>1. room = MemoryRoom - Len(left) BY DEF room
  <2>2. Len(left) \in Nat BY <1>7
  <2>. QED BY <1>1, <1>2, <1>9, <2>1, <2>2
<1>. QED BY <1>10, <1>12, <1>13, <1>14
-----------------------------------------------------------------------------
(* The fold over the sinks *)

FoldAt(f, both, seq, level, line, S) ==
    f = [s \in SUBSET S |-> IF s = {} THEN both ELSE Given(f[s \ {Max(s)}], seq[Max(s)], level, line)]

LEMMA FoldExists ==
    ASSUME NEW both, NEW seq, NEW level, NEW line, NEW n \in Nat
    PROVE  \E f : FoldAt(f, both, seq, level, line, 1..n)
<1> DEFINE Missing == {k \in Nat : ~\E f : FoldAt(f, both, seq, level, line, 1..k)}
<1> SUFFICES ASSUME Missing # {} PROVE FALSE OBVIOUS
<1>1. PICK k \in Missing : \A j \in Missing : k <= j BY LeastExists
<1>2. k \in Nat /\ ~\E f : FoldAt(f, both, seq, level, line, 1..k) OBVIOUS
<1>3. CASE k = 0
  <2> DEFINE f == [s \in SUBSET (1..0) |-> both]
  <2>1. 1..k = {} /\ 1..0 = {} BY <1>3
  <2>2. \A s \in SUBSET (1..0) : s = {} BY <2>1
  <2>3. f = [s \in SUBSET (1..0) |-> IF s = {} THEN both ELSE Given(f[s \ {Max(s)}], seq[Max(s)], level, line)]
    BY <2>2, Zenon
  <2>4. FoldAt(f, both, seq, level, line, 1..0) BY <2>3, Zenon DEF FoldAt
  <2>. QED BY <1>2, <1>3, <2>4
<1>4. CASE k # 0
  <2> DEFINE m == k - 1
  <2>1. m \in Nat /\ k = m + 1 /\ ~(k <= m) BY <1>2, <1>4
  <2>2. m \notin Missing BY <1>1, <2>1
  <2>3. PICK g : FoldAt(g, both, seq, level, line, 1..m) BY <2>1, <2>2
  <2> HIDE DEF m
  <2> DEFINE step(h, s) == IF s = {} THEN both ELSE Given(h[s \ {Max(s)}], seq[Max(s)], level, line)
             f == [s \in SUBSET (1..k) |->
                     IF k \in s THEN Given(g[s \ {k}], seq[k], level, line) ELSE g[s]]
  <2>4. g = [s \in SUBSET (1..m) |-> step(g, s)] BY <2>3, Zenon DEF FoldAt
  <2>5. \A s \in SUBSET (1..m) : g[s] = step(g, s)
    <3> HIDE DEF step
    <3>. QED BY <2>4, Zenon
  <2>6. \A s \in SUBSET (1..k) :
          /\ s \ {k} \in SUBSET (1..m) /\ k \notin s \ {k}
          /\ k \notin s => s \in SUBSET (1..m)
    BY <2>1
  <2>6a. \A s \in SUBSET (1..m) : s \in SUBSET (1..k) /\ k \notin s BY <2>1
  <2>7. \A s \in SUBSET (1..m) : f[s] = g[s] BY <2>6a, Zenon
  <2>8. \A s \in SUBSET (1..k) : f[s] = step(f, s)
    <3> TAKE s \in SUBSET (1..k)
    <3>1. CASE k \in s
      <4>1. Max(s) = k BY <1>2, <3>1, Greatest
      <4>2. f[s] = Given(g[s \ {k}], seq[k], level, line) BY <3>1, Zenon
      <4>3. f[s \ {k}] = g[s \ {k}]
        <5> HIDE DEF f
        <5>. QED BY <2>6, <2>7, Zenon
      <4> HIDE DEF f
      <4>4. s # {} BY <3>1
      <4>. QED BY <4>1, <4>2, <4>3, <4>4, Zenon
    <3>2. CASE k \notin s
      <4>1. s \in SUBSET (1..m) BY <2>6, <3>2
      <4>2. f[s] = g[s] /\ g[s] = step(g, s)
        <5> HIDE DEF f, step
        <5>. QED BY <2>5, <2>7, <4>1
      <4>3. CASE s = {} BY <4>2, <4>3, Zenon
      <4>4. CASE s # {}
        <5>1. s \ {Max(s)} \in SUBSET (1..m) BY <4>1
        <5>2. f[s \ {Max(s)}] = g[s \ {Max(s)}]
          <6> HIDE DEF f
          <6>. QED BY <2>7, <5>1, Zenon
        <5> HIDE DEF f
        <5>. QED BY <4>2, <4>4, <5>2, Zenon
      <4>. QED BY <4>3, <4>4
    <3>. QED BY <3>1, <3>2
  <2>9. f = [s \in SUBSET (1..k) |-> step(f, s)]
    <3> DEFINE e == [s \in SUBSET (1..k) |-> step(f, s)]
    <3>1. f = [s \in SUBSET (1..k) |-> f[s]] BY Zenon
    <3> HIDE DEF f, step
    <3>. QED BY <2>8, <3>1, Zenon
  <2>10. FoldAt(f, both, seq, level, line, 1..k)
    <3> HIDE DEF f
    <3>. QED BY <2>9, Zenon DEF FoldAt
  <2>. QED BY <1>2, <2>10
<1>. QED BY <1>3, <1>4

LEMMA TakenAgrees ==
    ASSUME NEW both, Agreed(both), NEW line, LineFits(line)
    PROVE  Agreed(Taken(both, line))
<1> DEFINE k == Kept(both.memory, line)
           n == Newest(both.due \o line)
<1>1. /\ both.memory \in Seq(LogBytes) /\ both.memory = both.due
      /\ Len(both.memory) <= MemoryRoom
  BY DEF Agreed
<1>2. k = Newest(both.memory \o line) /\ k \in Seq(LogBytes) /\ Len(k) <= MemoryRoom
  BY <1>1, KeptIsNewest
<1>3. k = n BY <1>1, <1>2, Zenon
<1>4. Taken(both, line) = [memory |-> k, due |-> n] BY Zenon DEF Taken
<1> HIDE DEF k, n
<1>. QED BY <1>2, <1>3, <1>4 DEF Agreed

LEMMA GivenAgrees ==
    ASSUME NEW both, Agreed(both), NEW line, LineFits(line), NEW sink, NEW level
    PROVE  Agreed(Given(both, sink, level, line))
<1>1. Agreed(Taken(both, line)) BY TakenAgrees
<1>. QED BY <1>1, Zenon DEF Given

\* Whatever sinks take the line, memory and ghost agree when all have it.
LEMMA FoldAgrees ==
    ASSUME NEW both, Agreed(both), NEW line, LineFits(line), NEW level,
           NEW T, NEW seq \in Seq(T)
    PROVE  Agreed((CHOOSE f : FoldAt(f, both, seq, level, line, DOMAIN seq))[DOMAIN seq])
<1> DEFINE n == Len(seq)
           f == CHOOSE f : FoldAt(f, both, seq, level, line, 1..n)
<1>1. n \in Nat /\ DOMAIN seq = 1..n OBVIOUS
<1>3. FoldAt(f, both, seq, level, line, 1..n) BY <1>1, FoldExists, Zenon
<1> HIDE DEF n, f
<1>4. \A s \in SUBSET (1..n) :
        f[s] = IF s = {} THEN both ELSE Given(f[s \ {Max(s)}], seq[Max(s)], level, line)
  BY <1>3, Zenon DEF FoldAt
<1> DEFINE Bad == {k \in Nat : k <= n /\ ~Agreed(f[1..k])}
<1>5. Bad = {}
  <2> SUFFICES ASSUME Bad # {} PROVE FALSE OBVIOUS
  <2>1. PICK k \in Bad : \A j \in Bad : k <= j BY LeastExists
  <2>2. k \in Nat /\ k <= n /\ ~Agreed(f[1..k]) OBVIOUS
  <2>3. 1..k \in SUBSET (1..n) BY <1>1, <2>2
  <2>4. CASE k = 0
    <3>1. 1..k = {} BY <2>4
    <3>2. f[1..k] = both BY <1>4, <2>3, <3>1, Zenon
    <3>. QED BY <2>2, <3>2
  <2>5. CASE k # 0
    <3>1. k \in 1..k /\ k - 1 \in Nat /\ k - 1 <= n /\ ~(k <= k - 1) BY <1>1, <2>2, <2>5
    <3>2. Max(1..k) = k BY <2>2, <3>1, Greatest
    <3>3. (1..k) \ {k} = 1..k - 1 /\ 1..k # {}
      <4>1. \A i : i \in (1..k) \ {k} <=> i \in 1..k - 1 BY <2>2, <3>1
      <4>. QED BY <3>1, <4>1
    <3>4. f[1..k] = Given(f[1..k - 1], seq[k], level, line) BY <1>4, <2>3, <3>2, <3>3, Zenon
    <3>5. Agreed(f[1..k - 1]) BY <2>1, <3>1
    <3>6. Agreed(f[1..k]) BY <3>4, <3>5, GivenAgrees
    <3>. QED BY <2>2, <3>6
  <2>. QED BY <2>4, <2>5
<1>6. n \notin Bad BY <1>5
<1>7. Agreed(f[1..n]) BY <1>1, <1>6
<1>. QED BY <1>1, <1>7 DEF f
-----------------------------------------------------------------------------
(* The log *)

LEMMA LineOfFits ==
    ASSUME lines \in Nat, NEW size \in Nat
    PROVE  LineFits(LineOf(size))
<1> DEFINE most == LineLength - 1
           kept == IF size < most THEN size ELSE most
           text == [k \in 1..kept |-> <<lines, k>>]
           ending == IF kept + 2 < LineLength THEN <<<<lines, 0>>, <<lines, 0>>>> ELSE <<>>
<1>1. LineLength \in Nat \ {0} /\ MemoryRoom \in Nat /\ MemoryRoom >= LineLength
  BY LogAssumption DEF LogAssumption
<1>2. kept \in Nat /\ kept <= LineLength - 1 BY <1>1
<1>3. LineOf(size) = text \o ending BY Zenon DEF LineOf
<1> HIDE DEF kept
<1>4. \A k \in 1..kept : <<lines, k>> \in LogBytes BY DEF LogBytes
<1>5. text \in Seq(LogBytes) /\ Len(text) = kept BY <1>2, <1>4
<1> DEFINE crlf == <<<<lines, 0>>, <<lines, 0>>>>
<1>6. crlf \in Seq(LogBytes) /\ Len(crlf) = 2
  <2>1. <<lines, 0>> \in LogBytes BY DEF LogBytes
  <2>. QED BY <2>1
<1>7. ending \in Seq(LogBytes) /\ kept + Len(ending) <= LineLength - 1
  <2>1. CASE kept + 2 < LineLength
    <3>1. ending = crlf BY <2>1, Zenon
    <3> HIDE DEF ending, crlf
    <3>2. ending \in Seq(LogBytes) /\ Len(ending) = 2 BY <1>6, <3>1, Zenon
    <3>3. kept + 2 <= LineLength - 1 BY <1>1, <1>2, <2>1
    <3>. QED BY <3>2, <3>3, Zenon
  <2>2. CASE ~(kept + 2 < LineLength)
    <3>1. ending = <<>> BY <2>2, Zenon
    <3> HIDE DEF ending
    <3>. QED BY <1>1, <1>2, <3>1
  <2>. QED BY <2>1, <2>2
<1> HIDE DEF text, ending
<1>8. text \o ending \in Seq(LogBytes) /\ Len(text \o ending) = kept + Len(ending)
  BY <1>5, <1>7, ConcatProperties
<1>9. Len(text \o ending) <= MemoryRoom
  <2>1. Len(ending) \in Nat BY <1>7
  <2> HIDE DEF ending, text
  <2>. QED BY <1>1, <1>2, <1>7, <1>8, <2>1
<1>. QED BY <1>3, <1>8, <1>9 DEF LineFits
LogFields ==
    log = [started |-> log.started, sinks |-> log.sinks, level |-> log.level,
           memory |-> log.memory, ready |-> log.ready]

LEMMA FieldsStay ==
    ASSUME LogFields, NEW m
    PROVE  LET l == [log EXCEPT !.memory = m]
           IN  /\ l.memory = m /\ l.sinks = log.sinks
               /\ l = [started |-> l.started, sinks |-> l.sinks, level |-> l.level,
                       memory |-> l.memory, ready |-> l.ready]
BY DEF LogFields

LEMMA Agrees ==
    ASSUME NEW m, NEW d
    PROVE  Agreed([memory |-> m, due |-> d])
             <=> m = d /\ m \in Seq(LogBytes) /\ Len(m) <= MemoryRoom
BY DEF Agreed

LEMMA NothingAgrees == Agreed([memory |-> <<>>, due |-> <<>>])
<1> DEFINE e == <<>>
<1>1. e \in Seq(LogBytes) /\ Len(e) <= MemoryRoom BY LogAssumption DEF LogAssumption
<1> HIDE DEF e
<1>2. Agreed([memory |-> e, due |-> e]) BY <1>1, Agrees
<1>. QED BY <1>2 DEF e

LEMMA LogWriteKeeps ==
    ASSUME LogInv, NEW level, NEW size \in Nat, LogWrite(level, size)
    PROVE  LogInv'
<1> DEFINE line == LineOf(size)
           both == [memory |-> log.memory, due |-> due]
           given == FoldLeft(LAMBDA x, sink : Given(x, sink, level, line), both, log.sinks)
<1>1. lines \in Nat /\ Agreed(both) /\ LogFields
      /\ log.sinks \in Seq([kind : {"memory", "stdio"}, min : Nat])
  BY DEF LogInv, LogFields
<1>2. LineFits(line) BY <1>1, LineOfFits
<1>3. log' = [log EXCEPT !.memory = given.memory] /\ due' = given.due /\ lines' = lines + 1
  BY Zenon DEF LogWrite
<1> HIDE DEF both, line
<1>a. given = (CHOOSE f : FoldAt(f, both, log.sinks, level, line, DOMAIN log.sinks))
                 [DOMAIN log.sinks]
  BY Zenon DEF FoldLeft, MapThenFoldSet, FoldAt
<1>4. Agreed(given)
  <2> HIDE DEF given
  <2>. QED BY <1>1, <1>2, <1>a, FoldAgrees
<1> HIDE DEF given
<1>5. given = [memory |-> given.memory, due |-> given.due] BY <1>4 DEF Agreed
<1>6. log'.memory = given.memory /\ log'.sinks = log.sinks /\ LogFields'
  BY <1>1, <1>3, FieldsStay DEF LogFields
<1>7. [memory |-> log'.memory, due |-> due'] = given BY <1>3, <1>5, <1>6, Zenon
<1>8. lines' \in Nat BY <1>1, <1>3
<1>9. Agreed([memory |-> log'.memory, due |-> due']) BY <1>4, <1>7, Zenon
<1>10. log'.sinks \in Seq([kind : {"memory", "stdio"}, min : Nat]) BY <1>1, <1>6, Zenon
<1>. QED BY <1>6, <1>8, <1>9, <1>10, Zenon DEF LogInv, LogFields

LEMMA SinkIs ==
    ASSUME NEW l, l = [started |-> l.started, sinks |-> l.sinks, level |-> l.level,
                       memory |-> l.memory, ready |-> l.ready],
           l.sinks \in Seq([kind : {"memory", "stdio"}, min : Nat]),
           NEW kind \in {"memory", "stdio"}, NEW min \in Nat
    PROVE  LET w == WithSink(l, kind, min)
           IN  /\ w = [started |-> w.started, sinks |-> w.sinks, level |-> w.level,
                       memory |-> w.memory, ready |-> w.ready]
               /\ w.sinks \in Seq([kind : {"memory", "stdio"}, min : Nat])
               /\ w.memory = l.memory
<1> DEFINE w == WithSink(l, kind, min)
<1>1. CASE ~l.started \/ Len(l.sinks) >= MaxSinks
  <2>1. w = l BY <1>1, Zenon DEF WithSink
  <2> HIDE DEF w
  <2>. QED BY <2>1, Zenon DEF w
<1>2. CASE ~(~l.started \/ Len(l.sinks) >= MaxSinks)
  <2> DEFINE one == [kind |-> kind, min |-> min]
             more == Append(l.sinks, one)
             ready == l.ready \/ kind = "memory"
  <2>1. w = [l EXCEPT !.sinks = more, !.ready = ready] BY <1>2, Zenon DEF WithSink
  <2>2. one \in [kind : {"memory", "stdio"}, min : Nat] OBVIOUS
  <2> HIDE DEF one
  <2>3. more \in Seq([kind : {"memory", "stdio"}, min : Nat]) BY <2>2, AppendProperties
  <2> HIDE DEF more, ready, w
  <2>4. w.sinks = more /\ w.memory = l.memory
        /\ w = [started |-> w.started, sinks |-> w.sinks, level |-> w.level,
                memory |-> w.memory, ready |-> w.ready]
    BY <2>1
  <2>. QED BY <2>3, <2>4, Zenon DEF w
<1>. QED BY <1>1, <1>2

LEMMA LogReadKeeps ==
    ASSUME LogInv, NEW capacity \in Nat, ReadMemory(capacity)
    PROVE  LogInv'
<1> DEFINE m == log.memory
           k == Len(m)
           n == IF capacity < k THEN capacity ELSE k
           rest == SubSeq(m, n + 1, k)
<1>1. lines \in Nat /\ LogFields
      /\ log.sinks \in Seq([kind : {"memory", "stdio"}, min : Nat])
      /\ m = due /\ m \in Seq(LogBytes) /\ k <= MemoryRoom
  BY Agrees DEF LogInv, LogFields
<1>2. log' = [log EXCEPT !.memory = rest] /\ due' = SubSeq(due, n + 1, Len(due))
      /\ lines' = lines /\ n > 0
  BY Zenon DEF ReadMemory
<1>3. due' = rest BY <1>1, <1>2, Zenon
<1>4. n \in 0..k /\ k \in Nat BY <1>1, <1>2
<1> HIDE DEF m, n
<1>5. rest \in Seq(LogBytes) /\ Len(rest) <= k
  <2> DEFINE a == n + 1
  <2>1. a \in 1..k + 1 /\ \A i \in a..k : i \in 1..Len(m) BY <1>4
  <2>2. (a <= k => k - a + 1 <= k) /\ 0 <= k BY <1>4
  <2>3. rest = SubSeq(m, a, k) OBVIOUS
  <2> HIDE DEF a, rest, k
  <2>4. rest \in Seq(LogBytes) /\ Len(rest) = IF a <= k THEN k - a + 1 ELSE 0
    BY <1>1, <1>4, <2>1, <2>3, SubSeqProperties
  <2>. QED BY <2>2, <2>4
<1> HIDE DEF rest, k
<1>6. Len(rest) <= MemoryRoom
  <2>1. MemoryRoom \in Nat /\ Len(rest) \in Nat BY <1>5, LogAssumption DEF LogAssumption
  <2>. QED BY <1>1, <1>4, <1>5, <2>1
<1>7. log'.memory = rest /\ log'.sinks = log.sinks /\ LogFields'
  BY <1>1, <1>2, FieldsStay DEF LogFields
<1>8. Agreed([memory |-> log'.memory, due |-> due'])
  BY <1>3, <1>5, <1>6, <1>7, Agrees
<1>. QED BY <1>1, <1>2, <1>7, <1>8, Zenon DEF LogInv, LogFields

LEMMA AddKeeps ==
    ASSUME LogInv, NEW min \in Nat, AddSink(min)
    PROVE  LogInv'
<1>1. log' = WithSink(log, "stdio", min) /\ lines' = lines /\ due' = due BY DEF AddSink
<1>2. log'.memory = log.memory /\ LogFields'
      /\ log'.sinks \in Seq([kind : {"memory", "stdio"}, min : Nat])
  BY <1>1, SinkIs DEF LogInv, LogFields
<1>. QED BY <1>1, <1>2, Zenon DEF LogInv, LogFields

LEMMA AddMemoryKeeps ==
    ASSUME LogInv, NEW min \in Nat, AddMemorySink(min)
    PROVE  LogInv'
<1> DEFINE e == <<>>
           l == [log EXCEPT !.memory = e]
<1>1. log' = WithSink(l, "memory", min) /\ lines' = lines /\ due' = e
  BY Zenon DEF AddMemorySink
<1> HIDE DEF e
<1>2. l.memory = e /\ l.sinks = log.sinks
      /\ l = [started |-> l.started, sinks |-> l.sinks, level |-> l.level,
              memory |-> l.memory, ready |-> l.ready]
  BY FieldsStay DEF LogInv, LogFields
<1> HIDE DEF l
<1>3. l.sinks \in Seq([kind : {"memory", "stdio"}, min : Nat]) BY <1>2, Zenon DEF LogInv
<1>4. log'.memory = e /\ LogFields'
      /\ log'.sinks \in Seq([kind : {"memory", "stdio"}, min : Nat])
  BY <1>1, <1>2, <1>3, SinkIs DEF LogFields
<1>5. Agreed([memory |-> log'.memory, due |-> due'])
  BY <1>1, <1>4, NothingAgrees, Zenon DEF e
<1>. QED BY <1>1, <1>4, <1>5, Zenon DEF LogInv, LogFields

LEMMA ClearKeeps == LogInv /\ ClearMemory => LogInv'
<1> SUFFICES ASSUME LogInv, ClearMemory PROVE LogInv' OBVIOUS
<1> DEFINE e == <<>>
<1>1. log' = [log EXCEPT !.memory = e] /\ lines' = lines /\ due' = e
  BY Zenon DEF ClearMemory
<1> HIDE DEF e
<1>2. log'.memory = e /\ log'.sinks = log.sinks /\ LogFields'
  BY <1>1, FieldsStay DEF LogInv, LogFields
<1>3. Agreed([memory |-> log'.memory, due |-> due'])
  BY <1>1, <1>2, NothingAgrees, Zenon DEF e
<1>. QED BY <1>1, <1>2, <1>3, Zenon DEF LogInv, LogFields

LEMMA ClosedIs ==
    LET l == LogClosed
    IN  /\ l.memory = <<>> /\ l.sinks = <<>>
        /\ l = [started |-> l.started, sinks |-> l.sinks, level |-> l.level,
                memory |-> l.memory, ready |-> l.ready]
BY DEF LogClosed

LEMMA NoSinks == <<>> \in Seq([kind : {"memory", "stdio"}, min : Nat])
OBVIOUS

LEMMA LogAtStart == LogInit => LogInv
<1> SUFFICES ASSUME LogInit PROVE LogInv OBVIOUS
<1>1. log = LogClosed /\ due = <<>> /\ lines = 0 BY DEF LogInit
<1>2. log.memory = <<>> /\ log.sinks = <<>> /\ LogFields
  BY <1>1, ClosedIs, Zenon DEF LogFields
<1>3. lines \in Nat BY <1>1
<1>. QED BY <1>1, <1>2, <1>3, NoSinks, NothingAgrees, Zenon DEF LogInv, LogFields

LEMMA LogStartKeeps ==
    ASSUME LogInv, NEW level, LogStart(level)
    PROVE  LogInv'
<1> DEFINE l == LogClosed
<1>1. log' = [l EXCEPT !.started = TRUE, !.level = level] /\ due' = <<>> /\ lines' = lines
  BY DEF LogStart
<1>2. l.memory = <<>> /\ l.sinks = <<>>
      /\ l = [started |-> l.started, sinks |-> l.sinks, level |-> l.level,
              memory |-> l.memory, ready |-> l.ready]
  BY ClosedIs, Zenon
<1> HIDE DEF l
<1>3. log'.memory = l.memory /\ log'.sinks = l.sinks /\ LogFields'
  BY <1>1, <1>2 DEF LogFields
<1>. QED BY <1>1, <1>2, <1>3, NoSinks, NothingAgrees, Zenon DEF LogInv, LogFields

LEMMA LogLevelKeeps ==
    ASSUME LogInv, NEW level, LogSetLevel(level)
    PROVE  LogInv'
<1>1. log' = [log EXCEPT !.level = level] /\ lines' = lines /\ due' = due BY DEF LogSetLevel
<1>2. log'.memory = log.memory /\ log'.sinks = log.sinks /\ LogFields'
  BY <1>1 DEF LogInv, LogFields
<1>. QED BY <1>1, <1>2, Zenon DEF LogInv, LogFields

LEMMA LogStays == LogInv /\ UNCHANGED logVars => LogInv'
BY Zenon DEF LogInv, logVars

\* For any ring, any length of line and any number of sinks, and whatever was
\* written, cut, read and cleared, the memory holds the newest bytes of what was
\* due there, and loses none sooner than it must (log_vwrite, memory_sink).
THEOREM LogCorrect == LogSpec => []MemoryIsNewest
<1>1. LogInv => MemoryIsNewest BY Agrees, Zenon DEF LogInv, MemoryIsNewest
<1>2. LogInv /\ [LogNext]_logVars => LogInv'
  <2> SUFFICES ASSUME LogInv, [LogNext]_logVars PROVE LogInv' OBVIOUS
  <2>0. Levels \subseteq Nat /\ LineSizes \subseteq Nat /\ 1..LineLength \subseteq Nat
    BY LogAssumption DEF LogAssumption
  <2>1. ASSUME NEW level \in Levels, LogStart(level) PROVE LogInv' BY <2>1, LogStartKeeps
  <2>2. ASSUME NEW level \in Levels, LogSetLevel(level) PROVE LogInv' BY <2>2, LogLevelKeeps
  <2>3. ASSUME NEW min \in Levels, AddSink(min) PROVE LogInv' BY <2>0, <2>3, AddKeeps
  <2>4. ASSUME NEW min \in Levels, AddMemorySink(min) PROVE LogInv'
    BY <2>0, <2>4, AddMemoryKeeps
  <2>5. ASSUME NEW level \in Levels, NEW size \in LineSizes, LogWrite(level, size)
        PROVE  LogInv'
    BY <2>0, <2>5, LogWriteKeeps
  <2>6. ASSUME NEW capacity \in 1..LineLength, ReadMemory(capacity) PROVE LogInv'
    BY <2>0, <2>6, LogReadKeeps
  <2>7. CASE ClearMemory BY <2>7, ClearKeeps
  <2>8. CASE UNCHANGED logVars BY <2>8, LogStays
  <2>. QED BY <2>1, <2>2, <2>3, <2>4, <2>5, <2>6, <2>7, <2>8, Zenon DEF LogNext
<1>. QED BY LogAtStart, <1>1, <1>2, PTL DEF LogSpec
-----------------------------------------------------------------------------
(***************************************************************************)
(* Cli                                                                     *)
(***************************************************************************)

(* The fold over what is echoed, and what the terminal shows after each of it *)

PutAt(f, s, seq, S) ==
    f = [x \in SUBSET S |-> IF x = {} THEN s ELSE Put(f[x \ {Max(x)}], seq[Max(x)])]

LEMMA PutsExist ==
    ASSUME NEW b, NEW seq, NEW n \in Nat
    PROVE  \E f : PutAt(f, b, seq, 1..n)
<1> DEFINE Missing == {k \in Nat : ~\E f : PutAt(f, b, seq, 1..k)}
<1> SUFFICES ASSUME Missing # {} PROVE FALSE OBVIOUS
<1>1. PICK k \in Missing : \A j \in Missing : k <= j BY LeastExists
<1>2. k \in Nat /\ ~\E f : PutAt(f, b, seq, 1..k) OBVIOUS
<1>3. CASE k = 0
  <2> DEFINE f == [s \in SUBSET (1..0) |-> b]
  <2>1. 1..k = {} /\ 1..0 = {} BY <1>3
  <2>2. \A s \in SUBSET (1..0) : s = {} BY <2>1
  <2>3. f = [s \in SUBSET (1..0) |-> IF s = {} THEN b ELSE Put(f[s \ {Max(s)}], seq[Max(s)])]
    BY <2>2, Zenon
  <2>4. PutAt(f, b, seq, 1..0) BY <2>3, Zenon DEF PutAt
  <2>. QED BY <1>2, <1>3, <2>4
<1>4. CASE k # 0
  <2> DEFINE m == k - 1
  <2>1. m \in Nat /\ k = m + 1 /\ ~(k <= m) BY <1>2, <1>4
  <2>2. m \notin Missing BY <1>1, <2>1
  <2>3. PICK g : PutAt(g, b, seq, 1..m) BY <2>1, <2>2
  <2> HIDE DEF m
  <2> DEFINE step(h, s) == IF s = {} THEN b ELSE Put(h[s \ {Max(s)}], seq[Max(s)])
             f == [s \in SUBSET (1..k) |->
                     IF k \in s THEN Put(g[s \ {k}], seq[k]) ELSE g[s]]
  <2>4. g = [s \in SUBSET (1..m) |-> step(g, s)] BY <2>3, Zenon DEF PutAt
  <2>5. \A s \in SUBSET (1..m) : g[s] = step(g, s)
    <3> HIDE DEF step
    <3>. QED BY <2>4, Zenon
  <2>6. \A s \in SUBSET (1..k) :
          /\ s \ {k} \in SUBSET (1..m) /\ k \notin s \ {k}
          /\ k \notin s => s \in SUBSET (1..m)
    BY <2>1
  <2>6a. \A s \in SUBSET (1..m) : s \in SUBSET (1..k) /\ k \notin s BY <2>1
  <2>7. \A s \in SUBSET (1..m) : f[s] = g[s] BY <2>6a, Zenon
  <2>8. \A s \in SUBSET (1..k) : f[s] = step(f, s)
    <3> TAKE s \in SUBSET (1..k)
    <3>1. CASE k \in s
      <4>1. Max(s) = k BY <1>2, <3>1, Greatest
      <4>2. f[s] = Put(g[s \ {k}], seq[k]) BY <3>1, Zenon
      <4>3. f[s \ {k}] = g[s \ {k}]
        <5> HIDE DEF f
        <5>. QED BY <2>6, <2>7, Zenon
      <4> HIDE DEF f
      <4>4. s # {} BY <3>1
      <4>. QED BY <4>1, <4>2, <4>3, <4>4, Zenon
    <3>2. CASE k \notin s
      <4>1. s \in SUBSET (1..m) BY <2>6, <3>2
      <4>2. f[s] = g[s] /\ g[s] = step(g, s)
        <5> HIDE DEF f, step
        <5>. QED BY <2>5, <2>7, <4>1
      <4>3. CASE s = {} BY <4>2, <4>3, Zenon
      <4>4. CASE s # {}
        <5>1. s \ {Max(s)} \in SUBSET (1..m) BY <4>1
        <5>2. f[s \ {Max(s)}] = g[s \ {Max(s)}]
          <6> HIDE DEF f
          <6>. QED BY <2>7, <5>1, Zenon
        <5> HIDE DEF f
        <5>. QED BY <4>2, <4>4, <5>2, Zenon
      <4>. QED BY <4>3, <4>4
    <3>. QED BY <3>1, <3>2
  <2>9. f = [s \in SUBSET (1..k) |-> step(f, s)]
    <3> DEFINE e == [s \in SUBSET (1..k) |-> step(f, s)]
    <3>1. f = [s \in SUBSET (1..k) |-> f[s]] BY Zenon
    <3> HIDE DEF f, step
    <3>. QED BY <2>8, <3>1, Zenon
  <2>10. PutAt(f, b, seq, 1..k)
    <3> HIDE DEF f
    <3>. QED BY <2>9, Zenon DEF PutAt
  <2>. QED BY <1>2, <2>10
<1>. QED BY <1>3, <1>4

\* What is shown after each character of what is echoed.
Trace(st, s, seq, n) == st[0] = s /\ \A k \in 1..n : st[k] = Put(st[k - 1], seq[k])

Shown(s, seq) == FoldLeft(Put, s, seq)

LEMMA TraceExists ==
    ASSUME NEW s, NEW T, NEW seq \in Seq(T)
    PROVE  \E st : Trace(st, s, seq, Len(seq)) /\ st[Len(seq)] = Shown(s, seq)
<1> DEFINE n == Len(seq)
           f == CHOOSE g : PutAt(g, s, seq, 1..n)
           st == [k \in 0..n |-> f[1..k]]
<1>1. n \in Nat /\ DOMAIN seq = 1..n OBVIOUS
<1>2. Shown(s, seq) = (CHOOSE g : PutAt(g, s, seq, DOMAIN seq))[DOMAIN seq]
  BY Zenon DEF Shown, FoldLeft, MapThenFoldSet, PutAt
<1>3. Shown(s, seq) = f[1..n] BY <1>1, <1>2, Zenon
<1>4. PutAt(f, s, seq, 1..n) BY <1>1, PutsExist, Zenon
<1> HIDE DEF n, f
<1>5. \A x \in SUBSET (1..n) :
        f[x] = IF x = {} THEN s ELSE Put(f[x \ {Max(x)}], seq[Max(x)])
  BY <1>4, Zenon DEF PutAt
<1>6. f[1..0] = s
  <2>1. 1..0 = {} /\ 1..0 \in SUBSET (1..n) BY <1>1
  <2>. QED BY <1>5, <2>1, Zenon
<1>7. ASSUME NEW k \in 1..n PROVE f[1..k] = Put(f[1..k - 1], seq[k])
  <2>1. 1..k \in SUBSET (1..n) /\ k \in 1..k /\ k \in Nat BY <1>1, <1>7
  <2>2. Max(1..k) = k BY <2>1, Greatest
  <2>3. (1..k) \ {k} = 1..k - 1 /\ 1..k # {}
    <3>1. \A i : i \in (1..k) \ {k} <=> i \in 1..k - 1 BY <2>1
    <3>. QED BY <2>1, <3>1
  <2>. QED BY <1>5, <2>1, <2>2, <2>3, Zenon
<1>8. 0 \in 0..n /\ n \in 0..n /\ \A k \in 1..n : k \in 0..n /\ k - 1 \in 0..n BY <1>1
<1>9. st[0] = f[1..0] /\ st[n] = f[1..n] BY <1>8, Zenon
<1>10. \A k \in 1..n : st[k] = f[1..k] /\ st[k - 1] = f[1..k - 1] BY <1>8, Zenon
<1> HIDE DEF st
<1>11. Trace(st, s, seq, n) BY <1>6, <1>7, <1>9, <1>10, Zenon DEF Trace
<1>. QED BY <1>3, <1>9, <1>11, Zenon DEF n

LEMMA TraceIsOne ==
    ASSUME NEW n \in Nat, NEW s, NEW a, NEW st, NEW tt, Trace(st, s, a, n), Trace(tt, s, a, n)
    PROVE  st[n] = tt[n]
<1> DEFINE Bad == {k \in Nat : k <= n /\ st[k] # tt[k]}
<1>1. Bad = {}
  <2> SUFFICES ASSUME Bad # {} PROVE FALSE OBVIOUS
  <2>1. PICK k \in Bad : \A j \in Bad : k <= j BY LeastExists
  <2>2. k \in Nat /\ k <= n /\ st[k] # tt[k] OBVIOUS
  <2>3. k # 0 BY <2>2, Zenon DEF Trace
  <2>4. k \in 1..n /\ k - 1 \in Nat /\ k - 1 <= n /\ ~(k <= k - 1) BY <2>2, <2>3
  <2>5. st[k - 1] = tt[k - 1] BY <2>1, <2>4
  <2>6. st[k] = Put(st[k - 1], a[k]) /\ tt[k] = Put(tt[k - 1], a[k])
    BY <2>4, Zenon DEF Trace
  <2>. QED BY <2>2, <2>5, <2>6, Zenon
<1>2. n <= n OBVIOUS
<1>. QED BY <1>1, <1>2, Zenon

LEMMA ShownIs ==
    ASSUME NEW s, NEW T, NEW seq \in Seq(T), NEW st, Trace(st, s, seq, Len(seq))
    PROVE  Shown(s, seq) = st[Len(seq)]
<1>1. PICK tt : Trace(tt, s, seq, Len(seq)) /\ tt[Len(seq)] = Shown(s, seq)
  BY TraceExists, Zenon
<1>2. Len(seq) \in Nat OBVIOUS
<1>. QED BY <1>1, <1>2, TraceIsOne, Zenon

\* What is echoed in two parts.
LEMMA ShownJoins ==
    ASSUME NEW s, NEW T, NEW a \in Seq(T), NEW b \in Seq(T)
    PROVE  Shown(s, a \o b) = Shown(Shown(s, a), b)
<1> DEFINE c == a \o b
           la == Len(a)
           lb == Len(b)
<1>1. /\ c \in Seq(T) /\ Len(c) = la + lb /\ la \in Nat /\ lb \in Nat
      /\ \A i \in 1..la + lb : c[i] = IF i <= la THEN a[i] ELSE b[i - la]
  <2>1. c \in Seq(T) /\ Len(c) = la + lb
        /\ \A i \in 1..la + lb : c[i] = IF i <= la THEN a[i] ELSE b[i - la]
    BY ConcatProperties, Zenon
  <2>. QED BY <2>1
<1> HIDE DEF c
<1>2. PICK st : Trace(st, s, c, Len(c)) /\ st[Len(c)] = Shown(s, c)
  BY <1>1, TraceExists, Zenon
<1> DEFINE d == st[la]
           tt == [k \in 0..lb |-> st[la + k]]
<1>3. \A k \in 1..la + lb : st[k] = Put(st[k - 1], c[k]) BY <1>1, <1>2, Zenon DEF Trace
<1>4. st[0] = s BY <1>2, Zenon DEF Trace
<1>5. d = Shown(s, a)
  <2>1. \A k \in 1..la : k \in 1..la + lb /\ k <= la
    <3> HIDE DEF la, lb
    <3>. QED BY <1>1
  <2>2. \A k \in 1..la : c[k] = a[k] BY <1>1, <2>1, Zenon
  <2> HIDE DEF la, lb
  <2>3. ASSUME NEW k \in 1..la PROVE st[k] = Put(st[k - 1], a[k])
    <3>1. st[k] = Put(st[k - 1], c[k]) BY <1>3, <2>1
    <3>. QED BY <2>2, <3>1, Zenon
  <2>4. Trace(st, s, a, la) BY <1>4, <2>3, Zenon DEF Trace
  <2>. QED BY <2>4, ShownIs, Zenon DEF la
<1>6. Trace(tt, d, b, lb)
  <2>1. 0 \in 0..lb /\ la + 0 = la
    <3> HIDE DEF la, lb
    <3>. QED BY <1>1
  <2>2. tt[0] = d BY <2>1, Zenon
  <2>3. ASSUME NEW k \in 1..lb PROVE tt[k] = Put(tt[k - 1], b[k])
    <3>1. /\ k \in 0..lb /\ k - 1 \in 0..lb /\ la + k \in 1..la + lb /\ ~(la + k <= la)
          /\ la + k - la = k /\ la + k - 1 = la + (k - 1)
      <4> HIDE DEF la, lb
      <4>. QED BY <1>1, <2>3
    <3>2. tt[k] = st[la + k] /\ tt[k - 1] = st[la + (k - 1)] BY <3>1, Zenon
    <3> DEFINE j == la + k
    <3>0. j \in 1..la + lb /\ ~(j <= la) /\ j - la = k /\ j - 1 = la + (k - 1)
      <4> HIDE DEF la, lb
      <4>. QED BY <1>1, <2>3
    <3> HIDE DEF j, la, lb
    <3>3. st[j] = Put(st[j - 1], c[j]) BY <1>3, <3>0, Zenon
    <3>4. c[j] = b[k]
      <4>1. c[j] = IF j <= la THEN a[j] ELSE b[j - la] BY <1>1, <3>0, Zenon
      <4>. QED BY <3>0, <4>1, Zenon
    <3>5. tt[k] = st[j] /\ tt[k - 1] = st[la + (k - 1)] BY <3>2, Zenon DEF j
    <3> HIDE DEF tt
    <3>. QED BY <3>0, <3>3, <3>4, <3>5, Zenon
  <2> HIDE DEF tt, d
  <2>. QED BY <2>2, <2>3, Zenon DEF Trace
<1>7. tt[lb] = st[Len(c)]
  <2>1. lb \in 0..lb /\ la + lb = Len(c)
    <3> HIDE DEF la, lb
    <3>. QED BY <1>1
  <2>. QED BY <2>1, Zenon
<1> HIDE DEF tt, d
<1>8. Shown(d, b) = tt[lb] BY <1>6, ShownIs, Zenon
<1>. QED BY <1>2, <1>5, <1>7, <1>8, Zenon DEF c

LEMMA ShownOne ==
    ASSUME NEW s, NEW x
    PROVE  Shown(s, <<x>>) = Put(s, x)
<1> DEFINE st == [k \in 0..1 |-> IF k = 0 THEN s ELSE Put(s, x)]
<1>1. <<x>> \in Seq({x}) /\ Len(<<x>>) = 1 /\ <<x>>[1] = x OBVIOUS
<1>2. 0 \in 0..1 /\ 1 \in 0..1 /\ 1 - 1 = 0 /\ 1 # 0 /\ \A k \in 1..1 : k = 1 OBVIOUS
<1>3. st[0] = s /\ st[1] = Put(s, x) BY <1>2, Zenon
<1> HIDE DEF st
<1>4. Trace(st, s, <<x>>, 1) BY <1>1, <1>2, <1>3, Zenon DEF Trace
<1>. QED BY <1>1, <1>3, <1>4, ShownIs, Zenon
-----------------------------------------------------------------------------
(* What the terminal shows after what is written, and after the cursor goes back *)

Chars == Printable \cup {" "}
Echoes == Chars \cup {"BS"}

IsScreen(s) ==
    /\ s = [row |-> s.row, col |-> s.col]
    /\ s.row \in Seq(Chars) /\ s.col \in Nat /\ s.col <= Len(s.row)

\* The cursor has gone k to the right of where it was in s, over the text t.
Over(s, r, t, k) ==
    /\ IsScreen(r) /\ r.col = s.col + k
    /\ Len(r.row) >= Len(s.row)
    /\ \A i \in 1..Len(r.row) :
         /\ s.col < i /\ i <= s.col + k => r.row[i] = t[i - s.col]
         /\ ~(s.col < i /\ i <= s.col + k) => i <= Len(s.row) /\ r.row[i] = s.row[i]

LEMMA NotBack == \A c \in Chars : c # "BS"
<1>1. "BS" \notin Printable BY CliAssumption DEF CliAssumption
<1>2. "BS" # " " OBVIOUS
<1>. QED BY <1>1, <1>2, Zenon DEF Chars

LEMMA BackPut ==
    ASSUME NEW s, IsScreen(s), s.col > 0
    PROVE  /\ IsScreen(Put(s, "BS")) /\ Put(s, "BS").col = s.col - 1
           /\ Put(s, "BS").row = s.row
<1> DEFINE r == [s EXCEPT !.col = s.col - 1]
<1>1. Put(s, "BS") = r BY Zenon DEF Put
<1>2. r = [row |-> s.row, col |-> s.col - 1] BY DEF IsScreen
<1> HIDE DEF r
<1>3. r.row = s.row /\ r.col = s.col - 1 BY <1>2
<1>4. s.col - 1 \in Nat /\ s.col - 1 <= Len(s.row) /\ s.row \in Seq(Chars)
  BY DEF IsScreen
<1>5. IsScreen(r) BY <1>2, <1>3, <1>4, Zenon DEF IsScreen
<1>. QED BY <1>1, <1>3, <1>5, Zenon

LEMMA OnePut ==
    ASSUME NEW s, IsScreen(s), NEW c \in Chars
    PROVE  LET r == Put(s, c)
           IN  /\ IsScreen(r) /\ r.col = s.col + 1 /\ Len(r.row) >= Len(s.row)
               /\ \A i \in 1..Len(r.row) :
                    r.row[i] = IF i = s.col + 1 THEN c ELSE s.row[i]
               /\ \A i \in 1..Len(r.row) : i = s.col + 1 \/ i <= Len(s.row)
<1> DEFINE row == s.row
           col == s.col
           w == IF col < Len(row) THEN [row EXCEPT ![col + 1] = c] ELSE Append(row, c)
           r == [row |-> w, col |-> col + 1]
<1>1. c # "BS" BY NotBack
<1>2. Put(s, c) = r BY <1>1, Zenon DEF Put
<1>3. row \in Seq(Chars) /\ col \in Nat /\ col <= Len(row) BY DEF IsScreen
<1> HIDE DEF row, col
<1>4. /\ w \in Seq(Chars) /\ Len(w) >= Len(row) /\ col + 1 <= Len(w)
      /\ \A i \in 1..Len(w) : w[i] = IF i = col + 1 THEN c ELSE row[i]
      /\ \A i \in 1..Len(w) : i = col + 1 \/ i <= Len(row)
  <2>1. CASE col < Len(row)
    <3>1. w = [row EXCEPT ![col + 1] = c] BY <2>1
    <3>2. col + 1 \in 1..Len(row) BY <1>3, <2>1
    <3>. QED BY <1>3, <3>1, <3>2
  <2>2. CASE ~(col < Len(row))
    <3>1. w = Append(row, c) BY <2>2
    <3>2. col = Len(row) BY <1>3, <2>2
    <3>. QED BY <1>3, <3>1, <3>2
  <2>. QED BY <2>1, <2>2
<1> HIDE DEF w
<1>5. r = [row |-> r.row, col |-> r.col] /\ r.row = w /\ r.col = col + 1 OBVIOUS
<1>6. col + 1 \in Nat BY <1>3
<1> HIDE DEF r
<1>7. IsScreen(r) BY <1>4, <1>5, <1>6, Zenon DEF IsScreen
<1>. QED BY <1>2, <1>4, <1>5, <1>7, Zenon DEF row, col

\* A text that is written covers what was there.
LEMMA TextWritten ==
    ASSUME NEW s, IsScreen(s), NEW t \in Seq(Chars)
    PROVE  Over(s, Shown(s, t), t, Len(t))
<1> DEFINE n == Len(t)
<1>1. n \in Nat OBVIOUS
<1>2. PICK st : Trace(st, s, t, n) /\ st[n] = Shown(s, t) BY TraceExists, Zenon
<1> DEFINE Bad == {k \in Nat : k <= n /\ ~Over(s, st[k], t, k)}
<1>3. Bad = {}
  <2> SUFFICES ASSUME Bad # {} PROVE FALSE OBVIOUS
  <2>1. PICK k \in Bad : \A j \in Bad : k <= j BY LeastExists
  <2>2. k \in Nat /\ k <= n /\ ~Over(s, st[k], t, k) OBVIOUS
  <2>3. CASE k = 0
    <3>1. st[0] = s BY <1>2, Zenon DEF Trace
    <3>2. s.col \in Nat /\ Len(s.row) \in Nat BY DEF IsScreen
    <3>3. Over(s, s, t, 0) BY <3>2 DEF Over
    <3>. QED BY <2>2, <2>3, <3>1, <3>3, Zenon
  <2>4. CASE k # 0
    <3> DEFINE m == k - 1
    <3>1. m \in Nat /\ m <= n /\ ~(k <= m) /\ k \in 1..n /\ k = m + 1 BY <1>1, <2>2, <2>4
    <3> DEFINE p == st[m]
               q == st[k]
               c == t[k]
    <3>2. Over(s, p, t, m) BY <2>1, <3>1
    <3>3. q = Put(p, c) BY <1>2, <3>1, Zenon DEF Trace
    <3>4. c \in Chars BY <3>1
    <3>5. IsScreen(p) BY <3>2 DEF Over
    <3> HIDE DEF p, q, c, m, Bad
    <3>6. /\ IsScreen(q) /\ q.col = p.col + 1 /\ Len(q.row) >= Len(p.row)
          /\ \A i \in 1..Len(q.row) :
               q.row[i] = IF i = p.col + 1 THEN c ELSE p.row[i]
          /\ \A i \in 1..Len(q.row) : i = p.col + 1 \/ i <= Len(p.row)
      BY <3>3, <3>4, <3>5, OnePut, Zenon
    <3> DEFINE a == s.col
               qr == q.row
               pr == p.row
               sr == s.row
    <3>7. /\ p.col = a + m /\ Len(pr) >= Len(sr)
          /\ \A i \in 1..Len(pr) :
               /\ a < i /\ i <= a + m => pr[i] = t[i - a]
               /\ ~(a < i /\ i <= a + m) => i <= Len(sr) /\ pr[i] = sr[i]
      BY <3>2 DEF Over
    <3>8. a \in Nat /\ Len(sr) \in Nat /\ Len(pr) \in Nat /\ Len(qr) \in Nat
      <4>1. IsScreen(q) BY <3>6
      <4>. QED BY <3>5, <4>1 DEF IsScreen
    <3>9. p.col + 1 = a + k /\ q.col = a + k BY <3>1, <3>6, <3>7, <3>8
    <3>10. ASSUME NEW i \in 1..Len(qr)
           PROVE  /\ a < i /\ i <= a + k => qr[i] = t[i - a]
                  /\ ~(a < i /\ i <= a + k) => i <= Len(sr) /\ qr[i] = sr[i]
      <4>1. qr[i] = IF i = a + k THEN c ELSE pr[i] BY <3>6, <3>9
      <4>2. i = a + k \/ i \in 1..Len(pr)
        <5>1. i = p.col + 1 \/ i <= Len(pr) BY <3>6
        <5> HIDE DEF pr, qr, a
        <5>. QED BY <3>8, <3>9, <3>10, <5>1
      <4> HIDE DEF pr, qr, sr, a
      <4>3. CASE i = a + k
        <5>1. i - a = k /\ a < i /\ i <= a + k BY <3>1, <3>8, <4>3
        <5>2. qr[i] = t[k] BY <4>1, <4>3, Zenon DEF c
        <5>. QED BY <5>1, <5>2, Zenon
      <4>4. CASE i # a + k
        <5>1. /\ i \in 1..Len(pr) /\ qr[i] = pr[i]
              /\ a < i /\ i <= a + k <=> a < i /\ i <= a + m
          BY <3>1, <3>8, <4>1, <4>2, <4>4
        <5>. QED BY <3>7, <5>1, Zenon
      <4>. QED BY <4>3, <4>4
    <3>11. Len(qr) >= Len(sr)
      <4>1. Len(qr) >= Len(pr) BY <3>6
      <4> HIDE DEF qr, pr, sr
      <4>. QED BY <3>7, <3>8, <4>1
    <3>12. Over(s, q, t, k) BY <3>6, <3>9, <3>10, <3>11, Zenon DEF Over
    <3>. QED BY <2>2, <3>12 DEF q
  <2>. QED BY <2>3, <2>4
<1>4. n \notin Bad BY <1>3
<1>5. Over(s, st[n], t, n) BY <1>1, <1>4
<1>. QED BY <1>2, <1>5, Zenon
LEMMA BacksAre ==
    ASSUME NEW n \in Nat
    PROVE  Backs(n) \in Seq({"BS"}) /\ Len(Backs(n)) = n /\ \A i \in 1..n : Backs(n)[i] = "BS"
<1> DEFINE b == [i \in 1..n |-> "BS"]
<1>1. b \in Seq({"BS"}) /\ Len(b) = n /\ \A i \in 1..n : b[i] = "BS" OBVIOUS
<1>. QED BY <1>1, Zenon DEF Backs

\* Going back changes nothing of the row.
LEMMA BacksShown ==
    ASSUME NEW s, IsScreen(s), NEW n \in Nat, n <= s.col
    PROVE  LET r == Shown(s, Backs(n))
           IN  IsScreen(r) /\ r.row = s.row /\ r.col = s.col - n
<1> DEFINE b == Backs(n)
           Back(r, k) == IsScreen(r) /\ r.row = s.row /\ r.col = s.col - k
<1>1. b \in Seq({"BS"}) /\ Len(b) = n /\ \A i \in 1..n : b[i] = "BS" BY BacksAre
<1> HIDE DEF b
<1>2. PICK st : Trace(st, s, b, n) /\ st[n] = Shown(s, b) BY <1>1, TraceExists, Zenon
<1> DEFINE Bad == {k \in Nat : k <= n /\ ~Back(st[k], k)}
<1>3. Bad = {}
  <2> SUFFICES ASSUME Bad # {} PROVE FALSE OBVIOUS
  <2>1. PICK k \in Bad : \A j \in Bad : k <= j
    <3> HIDE DEF Back
    <3>. QED BY LeastExists
  <2>2. k \in Nat /\ k <= n /\ ~Back(st[k], k)
    <3> HIDE DEF Back
    <3>. QED OBVIOUS
  <2>3. CASE k = 0
    <3>1. st[0] = s BY <1>2, Zenon DEF Trace
    <3>2. s.col = s.col - 0 BY DEF IsScreen
    <3>3. Back(s, 0) BY <3>2, Zenon
    <3> HIDE DEF Back
    <3>. QED BY <2>2, <2>3, <3>1, <3>3, Zenon
  <2>4. CASE k # 0
    <3> DEFINE m == k - 1
    <3>1. m \in Nat /\ m <= n /\ ~(k <= m) /\ k \in 1..n /\ k = m + 1 BY <2>2, <2>4
    <3>2. Back(st[m], m)
      <4> HIDE DEF Back
      <4>. QED BY <2>1, <3>1
    <3>3. st[k] = Put(st[m], "BS")
      <4>1. st[k] = Put(st[m], b[k]) BY <1>2, <3>1, Zenon DEF Trace
      <4>. QED BY <1>1, <3>1, <4>1, Zenon
    <3>4. s.col \in Nat BY DEF IsScreen
    <3> DEFINE p == st[m]
    <3>5. IsScreen(p) /\ p.row = s.row /\ p.col = s.col - m BY <3>2, Zenon
    <3> HIDE DEF p, m
    <3>6. p.col > 0 /\ p.col - 1 = s.col - k BY <2>2, <3>1, <3>4, <3>5
    <3>7. /\ IsScreen(Put(p, "BS")) /\ Put(p, "BS").col = p.col - 1
          /\ Put(p, "BS").row = p.row
      BY <3>5, <3>6, BackPut, Zenon
    <3>8. Back(st[k], k) BY <3>3, <3>5, <3>6, <3>7, Zenon DEF p
    <3> HIDE DEF Back
    <3>. QED BY <2>2, <3>8
  <2>. QED BY <2>3, <2>4
<1>4. Back(st[n], n)
  <2> HIDE DEF Back
  <2>1. n \notin Bad BY <1>3
  <2>. QED BY <2>1
<1>. QED BY <1>2, <1>4, Zenon DEF b

Erase(n) == [i \in 1..3 * n |-> IF i % 3 = 2 THEN " " ELSE "BS"]

\* The cursor has gone k to the left of where it was in s, and left blanks.
Blanked(s, r, k) ==
    /\ IsScreen(r) /\ r.col = s.col - k /\ Len(r.row) = Len(s.row)
    /\ \A i \in 1..Len(s.row) :
         /\ s.col - k < i /\ i <= s.col => r.row[i] = " "
         /\ ~(s.col - k < i /\ i <= s.col) => r.row[i] = s.row[i]

LEMMA OneErased ==
    ASSUME NEW s, IsScreen(s), NEW k \in Nat, k + 1 <= s.col, NEW r, Blanked(s, r, k)
    PROVE  Blanked(s, Put(Put(Put(r, "BS"), " "), "BS"), k + 1)
<1> DEFINE p == Put(r, "BS")
           q == Put(p, " ")
           z == Put(q, "BS")
<1>1. /\ IsScreen(r) /\ r.col = s.col - k /\ Len(r.row) = Len(s.row) /\ s.col \in Nat
      /\ s.col <= Len(s.row) /\ Len(s.row) \in Nat
  <2>1. IsScreen(r) /\ r.col = s.col - k /\ Len(r.row) = Len(s.row) BY Zenon DEF Blanked
  <2>2. s.col \in Nat /\ s.col <= Len(s.row) /\ Len(s.row) \in Nat BY DEF IsScreen
  <2>. QED BY <2>1, <2>2, Zenon
<1>2. r.col > 0 BY <1>1
<1>3. IsScreen(p) /\ p.col = r.col - 1 /\ p.row = r.row BY <1>1, <1>2, BackPut, Zenon
<1>4. " " \in Chars BY DEF Chars
<1> HIDE DEF p
<1>5. /\ IsScreen(q) /\ q.col = p.col + 1 /\ Len(q.row) >= Len(p.row)
      /\ \A i \in 1..Len(q.row) : q.row[i] = IF i = p.col + 1 THEN " " ELSE p.row[i]
      /\ \A i \in 1..Len(q.row) : i = p.col + 1 \/ i <= Len(p.row)
  BY <1>3, <1>4, OnePut, Zenon
<1> HIDE DEF q
<1>a. IsScreen(q) /\ q.col = p.col + 1 /\ Len(q.row) >= Len(p.row) BY <1>5, Zenon
<1>6. p.col + 1 = s.col - k /\ q.col = s.col - k BY <1>1, <1>3, <1>a
<1>7. q.col > 0 BY <1>1, <1>6
<1>8. IsScreen(z) /\ z.col = q.col - 1 /\ z.row = q.row BY <1>5, <1>7, BackPut, Zenon
<1> HIDE DEF z
<1> DEFINE l == Len(s.row)
           qr == q.row
           rr == r.row
           a == s.col
<1>9. Len(qr) = l
  <2>1. Len(p.row) = l BY <1>1, <1>3, Zenon
  <2>2. Len(qr) \in Nat BY <1>a DEF IsScreen
  <2>3. \A i \in 1..Len(qr) : i <= l
    <3> TAKE i \in 1..Len(qr)
    <3>1. i = a - k \/ i <= l BY <1>5, <1>6, <2>1, Zenon
    <3> HIDE DEF l, a
    <3>. QED BY <1>1, <3>1 DEF a, l
  <2>4. Len(qr) >= l BY <1>a, <2>1
  <2> HIDE DEF qr, l
  <2>5. l \in Nat BY <1>1 DEF l
  <2>. QED BY <2>2, <2>3, <2>4, <2>5
<1>10. ASSUME NEW i \in 1..l
       PROVE  /\ a - (k + 1) < i /\ i <= a => qr[i] = " "
              /\ ~(a - (k + 1) < i /\ i <= a) => qr[i] = s.row[i]
  <2>1. qr[i] = IF i = a - k THEN " " ELSE rr[i]
    <3>1. i \in 1..Len(qr) BY <1>9
    <3>. QED BY <1>3, <1>5, <1>6, <3>1, Zenon
  <2>2. /\ a - k < i /\ i <= a => rr[i] = " "
        /\ ~(a - k < i /\ i <= a) => rr[i] = s.row[i]
    BY <1>10, Zenon DEF Blanked
  <2>3. a \in Nat BY <1>1
  <2>4. (a - (k + 1) < i /\ i <= a) <=> (i = a - k \/ (a - k < i /\ i <= a))
    <3> HIDE DEF a, l
    <3>. QED BY <1>10, <2>3
  <2>5. i = a - k => ~(a - k < i)
    <3> HIDE DEF a
    <3>. QED BY <2>3
  <2> HIDE DEF qr, rr, a
  <2>. QED BY <2>1, <2>2, <2>4, <2>5, Zenon
<1>11. z.col = a - (k + 1) BY <1>1, <1>6, <1>8
<1>. QED BY <1>8, <1>9, <1>10, <1>11, Zenon DEF Blanked, z, q, p

LEMMA EraseAt ==
    ASSUME NEW n \in Nat, NEW k \in Nat, k < n
    PROVE  /\ 3 * k + 1 \in 1..3 * n /\ 3 * k + 2 \in 1..3 * n /\ 3 * k + 3 \in 1..3 * n
           /\ Erase(n)[3 * k + 1] = "BS" /\ Erase(n)[3 * k + 2] = " "
           /\ Erase(n)[3 * k + 3] = "BS"
<1>1. 3 * k + 1 \in 1..3 * n /\ 3 * k + 2 \in 1..3 * n /\ 3 * k + 3 \in 1..3 * n OBVIOUS
<1>2. (3 * k + 1) % 3 = 1 /\ (3 * k + 2) % 3 = 2 /\ (3 * k + 3) % 3 = 0 OBVIOUS
<1>3. 1 # 2 /\ 0 # 2 OBVIOUS
<1>. QED BY <1>1, <1>2, <1>3, Zenon DEF Erase

\* Each character of the line is gone back over, blanked, and gone back over.
LEMMA EraseShown ==
    ASSUME NEW s, IsScreen(s), NEW n \in Nat, n <= s.col
    PROVE  Erase(n) \in Seq(Echoes) /\ Blanked(s, Shown(s, Erase(n)), n)
<1> DEFINE b == Erase(n)
<1>1. b \in Seq(Echoes) /\ Len(b) = 3 * n
  <2>1. 3 * n \in Nat OBVIOUS
  <2> DEFINE N == 3 * n
  <2> HIDE DEF N
  <2>2. \A i \in 1..N : (IF i % 3 = 2 THEN " " ELSE "BS") \in Echoes BY DEF Echoes, Chars
  <2> DEFINE g(i) == IF i % 3 = 2 THEN " " ELSE "BS"
             h == [i \in 1..N |-> g(i)]
  <2> HIDE DEF g
  <2>3. N \in Nat /\ \A i \in 1..N : g(i) \in Echoes BY <2>1, <2>2 DEF N, g
  <2>4. h \in Seq(Echoes) /\ Len(h) = N BY <2>3
  <2>5. b = h BY Zenon DEF Erase, g, N
  <2>. QED BY <2>4, <2>5 DEF N
<1> HIDE DEF b
<1>2. PICK st : Trace(st, s, b, 3 * n) /\ st[3 * n] = Shown(s, b) BY <1>1, TraceExists, Zenon
<1> DEFINE Bad == {k \in Nat : k <= n /\ ~Blanked(s, st[3 * k], k)}
<1>3. Bad = {}
  <2> SUFFICES ASSUME Bad # {} PROVE FALSE OBVIOUS
  <2>1. PICK k \in Bad : \A j \in Bad : k <= j BY LeastExists
  <2>2. k \in Nat /\ k <= n /\ ~Blanked(s, st[3 * k], k) OBVIOUS
  <2>3. CASE k = 0
    <3>1. st[0] = s BY <1>2, Zenon DEF Trace
    <3>2. 3 * 0 = 0 OBVIOUS
    <3>3. Blanked(s, s, 0)
      <4>1. s.col \in Nat BY DEF IsScreen
      <4>2. s.col = s.col - 0 /\ \A i \in 1..Len(s.row) : ~(s.col - 0 < i /\ i <= s.col)
        BY <4>1 DEF IsScreen
      <4>. QED BY <4>2, Zenon DEF Blanked
    <3>. QED BY <2>2, <2>3, <3>1, <3>2, <3>3, Zenon
  <2>4. CASE k # 0
    <3> DEFINE m == k - 1
    <3>1. /\ m \in Nat /\ m <= n /\ ~(k <= m) /\ m < n /\ k = m + 1
          /\ 3 * k = 3 * m + 3 /\ (3 * m + 1) - 1 = 3 * m /\ (3 * m + 2) - 1 = 3 * m + 1
          /\ (3 * m + 3) - 1 = 3 * m + 2
      BY <2>2, <2>4
    <3>2. Blanked(s, st[3 * m], m)
      <4> HIDE DEF m
      <4>. QED BY <2>1, <3>1
    <3> HIDE DEF m
    <3>3. /\ 3 * m + 1 \in 1..3 * n /\ 3 * m + 2 \in 1..3 * n /\ 3 * m + 3 \in 1..3 * n
          /\ b[3 * m + 1] = "BS" /\ b[3 * m + 2] = " " /\ b[3 * m + 3] = "BS"
      BY <3>1, EraseAt, Zenon DEF b
    <3>4. \A i \in 1..3 * n : st[i] = Put(st[i - 1], b[i]) BY <1>2, Zenon DEF Trace
    <3> DEFINE x == 3 * m + 1
               y == 3 * m + 2
               z == 3 * m + 3
    <3>9. x - 1 = 3 * m /\ y - 1 = x /\ z - 1 = y BY <3>1
    <3>10. /\ x \in 1..3 * n /\ y \in 1..3 * n /\ z \in 1..3 * n
           /\ b[x] = "BS" /\ b[y] = " " /\ b[z] = "BS"
      BY <3>3, Zenon
    <3> HIDE DEF x, y, z
    <3>5. st[x] = Put(st[3 * m], "BS") BY <3>4, <3>9, <3>10, Zenon
    <3>6. st[y] = Put(st[x], " ") BY <3>4, <3>9, <3>10, Zenon
    <3>7. st[z] = Put(st[y], "BS") BY <3>4, <3>9, <3>10, Zenon
    <3>8. Blanked(s, Put(Put(Put(st[3 * m], "BS"), " "), "BS"), m + 1)
      <4>1. m + 1 <= s.col
        <5>1. s.col \in Nat BY DEF IsScreen
        <5>. QED BY <3>1, <5>1
      <4>. QED BY <3>1, <3>2, <4>1, OneErased
    <3>11. 3 * k = z BY <3>1, Zenon DEF z
    <3>. QED BY <2>2, <3>1, <3>5, <3>6, <3>7, <3>8, <3>11, Zenon
  <2>. QED BY <2>3, <2>4
<1>4. n \notin Bad BY <1>3
<1>5. Blanked(s, st[3 * n], n) BY <1>4
<1>. QED BY <1>1, <1>2, <1>5, Zenon DEF b
-----------------------------------------------------------------------------
(* The line after an edit, and the row after what is echoed of it *)

LEMMA PartOf ==
    ASSUME NEW l \in Seq(Printable), NEW c \in Nat, NEW m \in Nat, c <= m, m <= Len(l)
    PROVE  LET t == SubSeq(l, c + 1, m)
           IN  /\ t \in Seq(Printable) /\ Len(t) = m - c
               /\ \A j \in 1..m - c : t[j] = l[c + j]
<1> DEFINE a == c + 1
           t == SubSeq(l, a, m)
<1>1. a \in 1..m + 1 /\ \A i \in a..m : i \in 1..Len(l) OBVIOUS
<1>2. /\ (a <= m => m - a + 1 = m - c) /\ (~(a <= m) => m - c = 0)
      /\ \A j \in 1..m - c : j \in 1..m - a + 1 /\ (a + j) - 1 = c + j
  OBVIOUS
<1>3. t = SubSeq(l, a, m) OBVIOUS
<1> HIDE DEF a, t
<1>4. /\ t \in Seq(Printable) /\ Len(t) = IF a <= m THEN m - a + 1 ELSE 0
      /\ \A i \in 1..m - a + 1 : t[i] = l[a + i - 1]
  BY <1>1, <1>3, SubSeqProperties
<1>5. \A j \in 1..m - c : t[j] = l[c + j]
  <2> TAKE j \in 1..m - c
  <2>1. t[j] = l[a + j - 1] BY <1>2, <1>4
  <2>2. a + j - 1 = c + j BY DEF a
  <2>. QED BY <2>1, <2>2, Zenon
<1>. QED BY <1>2, <1>4, <1>5 DEF t, a

LEMMA HeadOf ==
    ASSUME NEW l \in Seq(Printable), NEW c \in Nat, c <= Len(l)
    PROVE  LET t == SubSeq(l, 1, c)
           IN  t \in Seq(Printable) /\ Len(t) = c /\ \A j \in 1..c : t[j] = l[j]
<1> DEFINE a == 0
           t == SubSeq(l, a + 1, c)
<1>1. a \in Nat /\ a + 1 = 1 /\ a <= c /\ c - a = c /\ \A j \in 1..c : a + j = j OBVIOUS
<1>2. t = SubSeq(l, 1, c) BY <1>1, Zenon
<1> HIDE DEF a
<1>3. t \in Seq(Printable) /\ Len(t) = c - a /\ \A j \in 1..c - a : t[j] = l[a + j]
  BY <1>1, PartOf, Zenon
<1> HIDE DEF t
<1>4. Len(t) = c BY <1>1, <1>3, Zenon
<1>5. ASSUME NEW j \in 1..c PROVE t[j] = l[j]
  <2>1. j \in 1..c - a /\ a + j = j BY <1>1, Zenon
  <2>2. t[j] = l[a + j] BY <1>3, <2>1, Zenon
  <2>. QED BY <2>1, <2>2, Zenon
<1>. QED BY <1>2, <1>3, <1>4, <1>5, Zenon

LEMMA InsertLine ==
    ASSUME NEW l \in Seq(Printable), NEW c \in Nat, c <= Len(l), NEW char \in Printable
    PROVE  LET w == SubSeq(l, 1, c) \o <<char>> \o SubSeq(l, c + 1, Len(l))
           IN  /\ w \in Seq(Printable) /\ Len(w) = Len(l) + 1
               /\ \A i \in 1..Len(l) + 1 :
                    w[i] = IF i <= c THEN l[i] ELSE IF i = c + 1 THEN char ELSE l[i - 1]
<1> DEFINE n == Len(l)
           b == SubSeq(l, 1, c)
           t == SubSeq(l, c + 1, n)
           x == <<char>>
           u == b \o x
           w == u \o t
<1>0. n \in Nat /\ n <= n /\ Len(l) \in Nat /\ Len(l) <= Len(l) OBVIOUS
<1>1. b \in Seq(Printable) /\ Len(b) = c /\ \A j \in 1..c : b[j] = l[j]
  BY HeadOf, Zenon
<1>2. t \in Seq(Printable) /\ Len(t) = n - c /\ \A j \in 1..n - c : t[j] = l[c + j]
  BY <1>0, PartOf, Zenon
<1>3. x \in Seq(Printable) /\ Len(x) = 1 /\ x[1] = char OBVIOUS
<1> HIDE DEF b, t, x
<1>4. /\ u \in Seq(Printable) /\ Len(u) = Len(b) + Len(x)
      /\ \A i \in 1..Len(b) + Len(x) : u[i] = IF i <= Len(b) THEN b[i] ELSE x[i - Len(b)]
  BY <1>1, <1>3, ConcatProperties, Zenon
<1>a. w = u \o t OBVIOUS
<1> HIDE DEF u, w
<1>5. /\ w \in Seq(Printable) /\ Len(w) = Len(u) + Len(t)
      /\ \A i \in 1..Len(u) + Len(t) : w[i] = IF i <= Len(u) THEN u[i] ELSE t[i - Len(u)]
  <2>1. u \in Seq(Printable) /\ t \in Seq(Printable) BY <1>2, <1>4, Zenon
  <2>. QED BY <1>a, <2>1, ConcatProperties, Zenon
<1> HIDE DEF n
<1>6. Len(u) = c + 1 /\ Len(w) = n + 1 /\ Len(u) + Len(t) = n + 1 BY <1>0, <1>1, <1>2, <1>3, <1>4, <1>5
<1>7. ASSUME NEW i \in 1..n + 1
      PROVE  w[i] = IF i <= c THEN l[i] ELSE IF i = c + 1 THEN char ELSE l[i - 1]
  <2>1. w[i] = IF i <= c + 1 THEN u[i] ELSE t[i - (c + 1)] BY <1>5, <1>6
  <2>2. CASE i <= c
    <3>1. i <= c + 1 /\ i \in 1..c /\ i \in 1..Len(b) + Len(x) BY <1>1, <1>3, <2>2
    <3>2. u[i] = b[i] BY <1>1, <1>4, <2>2, <3>1
    <3>. QED BY <1>1, <2>1, <2>2, <3>1, <3>2, Zenon
  <2>3. CASE i = c + 1
    <3>1. i <= c + 1 /\ ~(i <= c) /\ i - c = 1 /\ i \in 1..Len(b) + Len(x) BY <1>1, <1>3, <2>3
    <3>2. u[i] = x[i - c] BY <1>1, <1>4, <3>1
    <3>. QED BY <1>3, <2>1, <2>3, <3>1, <3>2, Zenon
  <2>4. CASE ~(i <= c) /\ i # c + 1
    <3>1. /\ ~(i <= c + 1) /\ i - (c + 1) \in 1..n - c /\ c + (i - (c + 1)) = i - 1
      BY <1>0, <2>4
    <3> DEFINE j == i - (c + 1)
    <3>2. t[j] = l[c + j] /\ c + j = i - 1 BY <1>2, <3>1
    <3> HIDE DEF j
    <3>3. w[i] = t[j] BY <2>1, <3>1, Zenon DEF j
    <3>. QED BY <2>4, <3>2, <3>3, Zenon
  <2>. QED BY <2>2, <2>3, <2>4
<1>. QED BY <1>5, <1>6, <1>7, Zenon DEF n, w, u, b, x, t

LEMMA BackspaceLine ==
    ASSUME NEW l \in Seq(Printable), NEW c \in Nat, c <= Len(l), c > 0
    PROVE  LET w == SubSeq(l, 1, c - 1) \o SubSeq(l, c + 1, Len(l))
           IN  /\ w \in Seq(Printable) /\ Len(w) = Len(l) - 1
               /\ \A i \in 1..Len(l) - 1 : w[i] = IF i <= c - 1 THEN l[i] ELSE l[i + 1]
<1> DEFINE n == Len(l)
           m == c - 1
           b == SubSeq(l, 1, m)
           t == SubSeq(l, c + 1, n)
           w == b \o t
<1>0. /\ n \in Nat /\ m \in Nat /\ m <= n /\ c = m + 1
      /\ Len(l) \in Nat /\ Len(l) <= Len(l)
  OBVIOUS
<1>1. b \in Seq(Printable) /\ Len(b) = m /\ \A j \in 1..m : b[j] = l[j]
  <2> HIDE DEF m
  <2>. QED BY <1>0, HeadOf, Zenon DEF n
<1>2. t \in Seq(Printable) /\ Len(t) = n - c /\ \A j \in 1..n - c : t[j] = l[c + j]
  BY <1>0, PartOf, Zenon
<1> HIDE DEF b, t
<1>3. /\ w \in Seq(Printable) /\ Len(w) = Len(b) + Len(t)
      /\ \A i \in 1..Len(b) + Len(t) : w[i] = IF i <= Len(b) THEN b[i] ELSE t[i - Len(b)]
  BY <1>1, <1>2, ConcatProperties, Zenon
<1> HIDE DEF w, n, m
<1>4. Len(w) = n - 1 /\ Len(b) + Len(t) = n - 1 BY <1>0, <1>1, <1>2, <1>3
<1>5. ASSUME NEW i \in 1..n - 1
      PROVE  w[i] = IF i <= m THEN l[i] ELSE l[i + 1]
  <2>1. w[i] = IF i <= m THEN b[i] ELSE t[i - m] BY <1>1, <1>3, <1>4
  <2>2. CASE i <= m
    <3>1. i \in 1..m BY <1>0, <2>2
    <3>. QED BY <1>1, <2>1, <2>2, <3>1, Zenon
  <2>3. CASE ~(i <= m)
    <3> DEFINE j == i - m
    <3>1. j \in 1..n - c /\ c + j = i + 1 BY <1>0, <2>3
    <3>2. t[j] = l[c + j] BY <1>2, <3>1
    <3> HIDE DEF j
    <3>3. w[i] = t[j] BY <2>1, <2>3, Zenon DEF j
    <3>. QED BY <2>3, <3>1, <3>2, <3>3, Zenon
  <2>. QED BY <2>2, <2>3
<1>. QED BY <1>3, <1>4, <1>5, Zenon DEF n, m, w, b, t

Blank == " "

\* The row shows the line and nothing else, with the cursor where it belongs.
Displays(s, line, cursor) ==
    /\ IsScreen(s) /\ s.col = cursor /\ Len(s.row) >= Len(line)
    /\ \A i \in 1..Len(s.row) : /\ i <= Len(line) => s.row[i] = line[i]
                                /\ ~(i <= Len(line)) => s.row[i] = Blank

LEMMA PrintableIsChars ==
    ASSUME NEW t \in Seq(Printable)
    PROVE  t \in Seq(Chars) /\ t \in Seq(Echoes)
<1>1. \A i \in 1..Len(t) : t[i] \in Printable OBVIOUS
<1>2. Printable \subseteq Chars /\ Printable \subseteq Echoes BY Zenon DEF Chars, Echoes
<1>. QED BY <1>2

\* Part of the line is written over itself.
LEMMA LineRewritten ==
    ASSUME NEW s, NEW l \in Seq(Printable), NEW c \in Nat, NEW m \in Nat, c <= m, m <= Len(l),
           Displays(s, l, c)
    PROVE  Displays(Shown(s, SubSeq(l, c + 1, m)), l, m)
<1> DEFINE t == SubSeq(l, c + 1, m)
           r == Shown(s, t)
           n == Len(l)
<1>1. t \in Seq(Printable) /\ Len(t) = m - c /\ \A j \in 1..m - c : t[j] = l[c + j]
  BY PartOf, Zenon
<1>2. IsScreen(s) /\ s.col = c /\ Len(s.row) >= n
      /\ \A i \in 1..Len(s.row) : /\ i <= n => s.row[i] = l[i]
                                  /\ ~(i <= n) => s.row[i] = Blank
  BY Zenon DEF Displays
<1> HIDE DEF t
<1>3. Over(s, r, t, m - c) BY <1>1, <1>2, PrintableIsChars, TextWritten, Zenon
<1> HIDE DEF r
<1>4. /\ IsScreen(r) /\ r.col = c + (m - c) /\ Len(r.row) >= Len(s.row)
      /\ \A i \in 1..Len(r.row) :
           /\ c < i /\ i <= c + (m - c) => r.row[i] = t[i - c]
           /\ ~(c < i /\ i <= c + (m - c)) => i <= Len(s.row) /\ r.row[i] = s.row[i]
  BY <1>2, <1>3, Zenon DEF Over
<1>5. c + (m - c) = m OBVIOUS
<1> DEFINE rr == r.row
           sr == s.row
<1>6. Len(rr) \in Nat /\ Len(sr) \in Nat BY <1>2, <1>4 DEF IsScreen
<1>7. ASSUME NEW i \in 1..Len(rr)
      PROVE  (i <= n => rr[i] = l[i]) /\ (~(i <= n) => rr[i] = Blank)
  <2>1. /\ c < i /\ i <= m => rr[i] = t[i - c]
        /\ ~(c < i /\ i <= m) => i <= Len(sr) /\ rr[i] = sr[i]
    BY <1>4, <1>5, <1>7, Zenon
  <2> HIDE DEF rr, sr, n
  <2>2. CASE c < i /\ i <= m
    <3>1. i - c \in 1..m - c /\ c + (i - c) = i /\ i <= n BY <2>2 DEF n
    <3>2. t[i - c] = l[c + (i - c)] BY <1>1, <3>1, Zenon
    <3>. QED BY <2>1, <2>2, <3>1, <3>2, Zenon
  <2>3. CASE ~(c < i /\ i <= m)
    <3>1. i \in 1..Len(sr) BY <1>6, <2>1, <2>3
    <3>2. (i <= n => sr[i] = l[i]) /\ (~(i <= n) => sr[i] = Blank) BY <1>2, <3>1, Zenon DEF sr
    <3>. QED BY <2>1, <2>3, <3>2, Zenon
  <2>. QED BY <2>2, <2>3
<1>8. Len(rr) >= n
  <2>1. Len(rr) >= Len(sr) /\ Len(sr) >= n BY <1>2, <1>4, Zenon
  <2>2. n \in Nat OBVIOUS
  <2> HIDE DEF rr, sr, n
  <2>. QED BY <1>6, <2>1, <2>2
<1>. QED BY <1>4, <1>5, <1>7, <1>8, Zenon DEF Displays, r, t
LEMMA LineBlanked ==
    ASSUME NEW s, NEW l \in Seq(Printable), Displays(s, l, Len(l))
    PROVE  Displays(Shown(s, Erase(Len(l))), <<>>, 0)
<1> DEFINE n == Len(l)
           r == Shown(s, Erase(n))
<1>1. n \in Nat OBVIOUS
<1>2. IsScreen(s) /\ s.col = n /\ \A i \in 1..Len(s.row) : ~(i <= n) => s.row[i] = Blank
  BY Zenon DEF Displays
<1>3. n <= s.col BY <1>1, <1>2
<1> HIDE DEF n
<1>4. Blanked(s, r, n) BY <1>1, <1>2, <1>3, EraseShown, Zenon
<1>5. /\ IsScreen(r) /\ r.col = s.col - n /\ Len(r.row) = Len(s.row)
      /\ \A i \in 1..Len(s.row) :
           /\ s.col - n < i /\ i <= s.col => r.row[i] = Blank
           /\ ~(s.col - n < i /\ i <= s.col) => r.row[i] = s.row[i]
  BY <1>4, Zenon DEF Blanked, Blank
<1> HIDE DEF r
<1>6. s.col - n = 0 /\ r.col = 0 BY <1>1, <1>2, <1>5
<1>7. Len(<<>>) = 0 OBVIOUS
<1>8. ASSUME NEW i \in 1..Len(r.row) PROVE r.row[i] = Blank
  <2>1. i \in 1..Len(s.row) /\ 0 < i /\ i \in Int BY <1>5, <1>8
  <2>2. CASE i <= n BY <1>2, <1>5, <1>6, <2>1, <2>2, Zenon
  <2>3. CASE ~(i <= n) BY <1>2, <1>5, <1>6, <2>1, <2>3, Zenon
  <2>. QED BY <2>2, <2>3
<1>9. Len(r.row) >= 0 /\ \A i \in 1..Len(r.row) : ~(i <= 0) BY <1>5 DEF IsScreen
<1>. QED BY <1>5, <1>6, <1>7, <1>8, <1>9, Zenon DEF Displays, r, n

LEMMA TextShown ==
    ASSUME NEW s, NEW t \in Seq(Printable), Displays(s, <<>>, 0)
    PROVE  Displays(Shown(s, t), t, Len(t))
<1> DEFINE n == Len(t)
           r == Shown(s, t)
<1>0. Len(<<>>) = 0 OBVIOUS
<1>1. /\ IsScreen(s) /\ s.col = 0
      /\ \A i \in 1..Len(s.row) : ~(i <= 0) => s.row[i] = Blank
  BY <1>0, Zenon DEF Displays
<1>2. n \in Nat /\ 0 + n = n OBVIOUS
<1> HIDE DEF r
<1>3. Over(s, r, t, n) BY <1>1, PrintableIsChars, TextWritten, Zenon DEF r
<1>4. /\ IsScreen(r) /\ r.col = n
      /\ \A i \in 1..Len(r.row) :
           /\ 0 < i /\ i <= n => r.row[i] = t[i - 0]
           /\ ~(0 < i /\ i <= n) => i <= Len(s.row) /\ r.row[i] = s.row[i]
  BY <1>1, <1>2, <1>3, Zenon DEF Over
<1>5. Len(r.row) \in Nat /\ n <= Len(r.row) /\ Len(s.row) \in Nat
  BY <1>1, <1>4 DEF IsScreen
<1>6. ASSUME NEW i \in 1..Len(r.row)
      PROVE  (i <= n => r.row[i] = t[i]) /\ (~(i <= n) => r.row[i] = Blank)
  <2>1. 0 < i /\ i - 0 = i /\ ~(i <= 0) /\ i \in Nat /\ i >= 1 BY <1>5, <1>6
  <2>2. CASE i <= n BY <1>4, <2>1, <2>2, Zenon
  <2>3. CASE ~(i <= n)
    <3>1. i <= Len(s.row) /\ r.row[i] = s.row[i] BY <1>4, <2>3, Zenon
    <3>2. i \in 1..Len(s.row) BY <1>5, <2>1, <3>1
    <3>. QED BY <1>1, <2>1, <2>3, <3>1, <3>2, Zenon
  <2>. QED BY <2>2, <2>3
<1>7. Len(r.row) >= n BY <1>2, <1>5
<1>. QED BY <1>4, <1>6, <1>7, Zenon DEF Displays, r, n

\* A character typed, the rest of the line after it, and back over the rest.
LEMMA InsertShown ==
    ASSUME NEW s, NEW l \in Seq(Printable), NEW c \in Nat, c <= Len(l), Displays(s, l, c),
           NEW char \in Printable
    PROVE  LET t == SubSeq(l, c + 1, Len(l))
               w == SubSeq(l, 1, c) \o <<char>> \o t
           IN  Displays(Shown(Shown(Put(s, char), t), Backs(Len(t))), w, c + 1)
<1> DEFINE n == Len(l)
           t == SubSeq(l, c + 1, n)
           w == SubSeq(l, 1, c) \o <<char>> \o t
           p == Put(s, char)
           q == Shown(p, t)
           r == Shown(q, Backs(Len(t)))
<1>0. n \in Nat /\ n <= n /\ Len(l) \in Nat /\ Len(l) <= Len(l) OBVIOUS
<1>1. t \in Seq(Printable) /\ Len(t) = n - c /\ \A j \in 1..n - c : t[j] = l[c + j]
  BY <1>0, PartOf, Zenon
<1>2. /\ w \in Seq(Printable) /\ Len(w) = n + 1
      /\ \A i \in 1..n + 1 :
           w[i] = IF i <= c THEN l[i] ELSE IF i = c + 1 THEN char ELSE l[i - 1]
  BY InsertLine, Zenon
<1>3. IsScreen(s) /\ s.col = c /\ Len(s.row) >= n
      /\ \A i \in 1..Len(s.row) : /\ i <= n => s.row[i] = l[i]
                                  /\ ~(i <= n) => s.row[i] = Blank
  BY Zenon DEF Displays
<1>4. char \in Chars BY DEF Chars
<1> HIDE DEF t, w
<1>5. /\ IsScreen(p) /\ p.col = s.col + 1 /\ Len(p.row) >= Len(s.row)
      /\ \A i \in 1..Len(p.row) : p.row[i] = IF i = s.col + 1 THEN char ELSE s.row[i]
      /\ \A i \in 1..Len(p.row) : i = s.col + 1 \/ i <= Len(s.row)
  BY <1>3, <1>4, OnePut, Zenon
<1> HIDE DEF p
<1>6. Over(p, q, t, Len(t)) BY <1>1, <1>5, PrintableIsChars, TextWritten, Zenon
<1> DEFINE d == c + 1
           e == d + (n - c)
           qr == q.row
           pr == p.row
           sr == s.row
<1>7. /\ IsScreen(q) /\ q.col = e /\ Len(qr) >= Len(pr)
      /\ \A i \in 1..Len(qr) :
           /\ d < i /\ i <= e => qr[i] = t[i - d]
           /\ ~(d < i /\ i <= e) => i <= Len(pr) /\ qr[i] = pr[i]
  BY <1>1, <1>3, <1>5, <1>6, Zenon DEF Over
<1> HIDE DEF q
<1>8. n - c \in Nat /\ n - c <= q.col /\ q.col - (n - c) = c + 1 /\ e = n + 1 BY <1>0, <1>7
<1>9. IsScreen(r) /\ r.row = qr /\ r.col = c + 1
  BY <1>1, <1>7, <1>8, BacksShown, Zenon
<1> HIDE DEF r
<1>10. /\ Len(qr) \in Nat /\ Len(pr) \in Nat /\ Len(sr) \in Nat /\ Len(qr) >= n + 1
  <2>1. Len(qr) \in Nat /\ Len(pr) \in Nat /\ Len(sr) \in Nat /\ q.col <= Len(qr)
        /\ q.col \in Nat
    BY <1>3, <1>5, <1>7 DEF IsScreen
  <2>2. q.col = n + 1 BY <1>7, <1>8
  <2>. QED BY <2>1, <2>2
<1>11. ASSUME NEW i \in 1..Len(qr)
       PROVE  (i <= n + 1 => qr[i] = w[i]) /\ (~(i <= n + 1) => qr[i] = Blank)
  <2>1. /\ d < i /\ i <= n + 1 => qr[i] = t[i - d]
        /\ ~(d < i /\ i <= n + 1) => i <= Len(pr) /\ qr[i] = pr[i]
    BY <1>7, <1>8, Zenon
  <2>2. i \in Nat /\ i >= 1 BY <1>10
  <2>3. i <= n + 1 => i \in 1..n + 1 BY <1>0, <2>2
  <2> HIDE DEF qr, pr, sr, n
  <2>4. CASE d < i /\ i <= n + 1
    <3>1. /\ i - d \in 1..n - c /\ c + (i - d) = i - 1 /\ ~(i <= c) /\ i # c + 1
      BY <1>0, <2>2, <2>4
    <3>2. t[i - d] = l[c + (i - d)] BY <1>1, <3>1, Zenon
    <3>3. w[i] = l[i - 1] BY <1>2, <2>3, <2>4, <3>1, Zenon
    <3>. QED BY <2>1, <2>4, <3>1, <3>2, <3>3, Zenon
  <2>5. CASE ~(d < i /\ i <= n + 1)
    <3>1. i \in 1..Len(pr) /\ qr[i] = pr[i] BY <1>10, <2>1, <2>2, <2>5
    <3>2. /\ pr[i] = IF i = c + 1 THEN char ELSE sr[i]
          /\ i = c + 1 \/ i <= Len(sr)
      BY <1>3, <1>5, <3>1, Zenon DEF pr, sr
    <3>3. CASE i = c + 1
      <4>1. ~(i <= c) /\ i <= n + 1 BY <1>0, <3>3 DEF n
      <4>2. w[i] = char BY <1>2, <2>3, <3>3, <4>1, Zenon
      <4>. QED BY <3>1, <3>2, <3>3, <4>1, <4>2, Zenon
    <3>4. CASE i # c + 1
      <4>1. i \in 1..Len(sr) BY <1>10, <2>2, <3>2, <3>4
      <4>2. (i <= n => sr[i] = l[i]) /\ (~(i <= n) => sr[i] = Blank)
        BY <1>3, <4>1, Zenon DEF sr
      <4>3. CASE i <= c
        <5>1. i <= n /\ i <= n + 1 BY <1>0, <2>2, <4>3 DEF n
        <5>2. w[i] = l[i] BY <1>2, <2>3, <4>3, <5>1, Zenon
        <5>. QED BY <3>1, <3>2, <3>4, <4>2, <5>1, <5>2, Zenon
      <4>4. CASE ~(i <= c)
        <5>1. ~(i <= n) /\ ~(i <= n + 1) BY <1>0, <2>2, <2>5, <3>4, <4>4
        <5>. QED BY <3>1, <3>2, <3>4, <4>2, <5>1, Zenon
      <4>. QED BY <4>3, <4>4
    <3>. QED BY <3>3, <3>4
  <2>. QED BY <2>4, <2>5
<1>12. Displays(r, w, c + 1)
  <2> HIDE DEF qr
  <2>. QED BY <1>2, <1>9, <1>10, <1>11, Zenon DEF Displays
<1>. QED BY <1>12, Zenon DEF r, q, p, w, t
LEMMA LeftShown ==
    ASSUME NEW s, NEW l \in Seq(Printable), NEW c \in Nat, c > 0, Displays(s, l, c)
    PROVE  Displays(Put(s, "BS"), l, c - 1)
<1>1. IsScreen(s) /\ s.col > 0 BY Zenon DEF Displays
<1>2. /\ IsScreen(Put(s, "BS")) /\ Put(s, "BS").col = s.col - 1
      /\ Put(s, "BS").row = s.row
  BY <1>1, BackPut, Zenon
<1>. QED BY <1>2, Zenon DEF Displays

\* One character less: the rest of the line, a blank, and back over both.
LEMMA BackspaceShown ==
    ASSUME NEW s, NEW l \in Seq(Printable), NEW c \in Nat, c <= Len(l), c > 0,
           Displays(s, l, c)
    PROVE  LET t == SubSeq(l, c + 1, Len(l))
               w == SubSeq(l, 1, c - 1) \o t
           IN  Displays(Shown(Put(Shown(Put(s, "BS"), t), " "), Backs(Len(t) + 1)), w, c - 1)
<1> DEFINE n == Len(l)
           t == SubSeq(l, c + 1, n)
           w == SubSeq(l, 1, c - 1) \o t
           m == c - 1
           p == Put(s, "BS")
           q == Shown(p, t)
           z == Put(q, " ")
           r == Shown(z, Backs(Len(t) + 1))
<1>0. /\ n \in Nat /\ n <= n /\ Len(l) \in Nat /\ Len(l) <= Len(l)
      /\ m \in Nat /\ c = m + 1 /\ m + (n - c) = n - 1 /\ n - 1 \in Nat
  OBVIOUS
<1>1. t \in Seq(Printable) /\ Len(t) = n - c /\ \A j \in 1..n - c : t[j] = l[c + j]
  BY <1>0, PartOf, Zenon
<1>2. /\ w \in Seq(Printable) /\ Len(w) = n - 1
      /\ \A i \in 1..n - 1 : w[i] = IF i <= m THEN l[i] ELSE l[i + 1]
  BY BackspaceLine, Zenon
<1>3. Displays(p, l, m) BY LeftShown, Zenon
<1> HIDE DEF t, w, p, m
<1>4. IsScreen(p) /\ p.col = m /\ Len(p.row) >= n
      /\ \A i \in 1..Len(p.row) : /\ i <= n => p.row[i] = l[i]
                                  /\ ~(i <= n) => p.row[i] = Blank
  BY <1>3, Zenon DEF Displays
<1>5. Over(p, q, t, n - c) BY <1>1, <1>4, PrintableIsChars, TextWritten, Zenon
<1> DEFINE qr == q.row
           pr == p.row
           zr == z.row
<1>6. /\ IsScreen(q) /\ q.col = n - 1 /\ Len(qr) >= Len(pr)
      /\ \A i \in 1..Len(qr) :
           /\ m < i /\ i <= n - 1 => qr[i] = t[i - m]
           /\ ~(m < i /\ i <= n - 1) => i <= Len(pr) /\ qr[i] = pr[i]
  BY <1>0, <1>4, <1>5, Zenon DEF Over
<1> HIDE DEF q
<1>7. Blank \in Chars /\ Blank = " " BY Zenon DEF Chars, Blank
<1>8. /\ IsScreen(z) /\ z.col = q.col + 1 /\ Len(zr) >= Len(qr)
      /\ \A i \in 1..Len(zr) : zr[i] = IF i = q.col + 1 THEN Blank ELSE qr[i]
      /\ \A i \in 1..Len(zr) : i = q.col + 1 \/ i <= Len(qr)
  BY <1>6, <1>7, OnePut, Zenon
<1> HIDE DEF z
<1>9. q.col + 1 = n /\ z.col = n
  <2>1. q.col = n - 1 /\ z.col = q.col + 1 BY <1>6, <1>8, Zenon
  <2>2. n - 1 + 1 = n BY <1>0
  <2>. QED BY <2>1, <2>2, Zenon
<1>10. Len(t) + 1 \in Nat /\ Len(t) + 1 <= z.col /\ z.col - (Len(t) + 1) = m
  BY <1>0, <1>1, <1>9
<1>11. IsScreen(r) /\ r.row = zr /\ r.col = m BY <1>8, <1>10, BacksShown, Zenon
<1> HIDE DEF r
<1>12. Len(qr) \in Nat /\ Len(pr) \in Nat /\ Len(zr) \in Nat /\ Len(zr) >= n - 1
  <2>1. Len(qr) \in Nat /\ Len(pr) \in Nat /\ Len(zr) \in Nat /\ z.col <= Len(zr)
    BY <1>4, <1>6, <1>8 DEF IsScreen
  <2>. QED BY <1>0, <1>9, <2>1
<1>13. ASSUME NEW i \in 1..Len(zr)
       PROVE  (i <= n - 1 => zr[i] = w[i]) /\ (~(i <= n - 1) => zr[i] = Blank)
  <2>1. /\ zr[i] = IF i = n THEN Blank ELSE qr[i]
        /\ i = n \/ i <= Len(qr)
    BY <1>8, <1>9, <1>13, Zenon
  <2>2. i \in Nat /\ i >= 1 BY <1>12
  <2>3. i <= n - 1 => i \in 1..n - 1 BY <1>0, <2>2
  <2> HIDE DEF qr, pr, zr, n
  <2>4. CASE i = n
    <3>1. ~(i <= n - 1) BY <1>0, <2>4
    <3>. QED BY <2>1, <2>4, <3>1, Zenon
  <2>5. CASE i # n /\ m < i /\ i <= n - 1
    <3>0. i \in 1..Len(qr) BY <1>12, <2>1, <2>2, <2>5
    <3>1. i - m \in 1..n - c /\ c + (i - m) = i + 1 /\ ~(i <= m)
      <4>1. n \in Nat /\ m \in Nat /\ c = m + 1 BY <1>0 DEF n
      <4>. QED BY <2>2, <2>5, <4>1
    <3>2. t[i - m] = l[c + (i - m)] /\ qr[i] = t[i - m]
      BY <1>1, <1>6, <2>5, <3>0, <3>1, Zenon
    <3>3. w[i] = l[i + 1] BY <1>2, <2>3, <2>5, <3>1, Zenon
    <3>. QED BY <2>1, <2>5, <3>1, <3>2, <3>3, Zenon
  <2>6. CASE i # n /\ ~(m < i /\ i <= n - 1)
    <3>0. i \in 1..Len(qr) BY <1>12, <2>1, <2>2, <2>6
    <3>1. i <= Len(pr) /\ qr[i] = pr[i] BY <1>6, <2>6, <3>0, Zenon
    <3>2. i \in 1..Len(pr) BY <1>12, <2>2, <3>1
    <3>3. (i <= n => pr[i] = l[i]) /\ (~(i <= n) => pr[i] = Blank)
      BY <1>4, <3>2, Zenon DEF pr, n
    <3>4. CASE i <= m
      <4>1. i <= n /\ i <= n - 1
        <5>1. m <= n - 1
          <6>1. c <= n BY DEF n
          <6>. QED BY <1>0, <6>1
        <5>. QED BY <1>0, <2>2, <3>4, <5>1
      <4>2. w[i] = l[i] BY <1>2, <2>3, <3>4, <4>1, Zenon
      <4>. QED BY <2>1, <2>6, <3>1, <3>3, <4>1, <4>2, Zenon
    <3>5. CASE ~(i <= m)
      <4>1. ~(i <= n) /\ ~(i <= n - 1) BY <1>0, <2>2, <2>6, <3>5
      <4>. QED BY <2>1, <2>6, <3>1, <3>3, <4>1, Zenon
    <3>. QED BY <3>4, <3>5
  <2>. QED BY <2>4, <2>5, <2>6
<1>14. Displays(r, w, m)
  <2> HIDE DEF zr
  <2>. QED BY <1>2, <1>11, <1>12, <1>13, Zenon DEF Displays
<1>. QED BY <1>14, Zenon DEF r, z, q, p, w, t, m
-----------------------------------------------------------------------------
(* The editor *)

\* A record is what its fields say, and has no others.
IsEditor(c) ==
    c \in [line : {c.line}, cursor : {c.cursor}, overflow : {c.overflow}, raw : {c.raw},
           escape : {c.escape}, browsing : {c.browsing}, cr : {c.cr},
           slots : {c.slots}, head : {c.head}, count : {c.count}]

EditorSound(c) ==
    /\ IsEditor(c)
    /\ c.line \in Seq(Printable) /\ c.cursor \in Nat /\ c.cursor <= Len(c.line)
    /\ c.browsing \in Int
    /\ c.slots \in [0..Depth - 1 -> Seq(Printable)] /\ c.head \in 0..Depth - 1
    /\ c.count \in Nat

\* An editor and what is seen of it.
Seen(c, s) == EditorSound(c) /\ (~c.raw => Displays(s, c.line, c.cursor))

CliInv == Seen(cli, screen)

\* d is c with another line, or another cursor in it.
Edited(c, d, line, cursor) ==
    /\ IsEditor(d) /\ d.line = line /\ d.cursor = cursor
    /\ d.browsing \in Int /\ d.slots = c.slots /\ d.head = c.head /\ d.count = c.count

LEMMA EditedSound ==
    ASSUME NEW c, EditorSound(c), NEW line \in Seq(Printable), NEW cursor \in Nat,
           cursor <= Len(line), NEW d, Edited(c, d, line, cursor)
    PROVE  EditorSound(d)
BY Zenon DEF EditorSound, Edited

LEMMA LineEdited ==
    ASSUME NEW c, EditorSound(c), NEW line, NEW cursor
    PROVE  LET d == [c EXCEPT !.line = line, !.cursor = cursor]
           IN  Edited(c, d, line, cursor) /\ d.raw = c.raw
<1>1. IsEditor(c) /\ c.browsing \in Int BY DEF EditorSound
<1> DEFINE d == [c EXCEPT !.line = line, !.cursor = cursor]
<1>2. /\ IsEditor(d) /\ d.line = line /\ d.cursor = cursor /\ d.browsing = c.browsing
      /\ d.slots = c.slots /\ d.head = c.head /\ d.count = c.count /\ d.raw = c.raw
  BY <1>1 DEF IsEditor
<1> HIDE DEF d
<1>3. Edited(c, d, line, cursor) BY <1>1, <1>2, Zenon DEF Edited
<1>. QED BY <1>2, <1>3, Zenon DEF d

LEMMA CursorMoved ==
    ASSUME NEW c, EditorSound(c), NEW cursor
    PROVE  LET d == [c EXCEPT !.cursor = cursor]
           IN  Edited(c, d, c.line, cursor) /\ d.raw = c.raw
<1>1. IsEditor(c) /\ c.browsing \in Int BY DEF EditorSound
<1> DEFINE d == [c EXCEPT !.cursor = cursor]
<1>2. /\ IsEditor(d) /\ d.line = c.line /\ d.cursor = cursor /\ d.browsing = c.browsing
      /\ d.slots = c.slots /\ d.head = c.head /\ d.count = c.count /\ d.raw = c.raw
  BY <1>1 DEF IsEditor
<1> HIDE DEF d
<1>3. Edited(c, d, c.line, cursor) BY <1>1, <1>2, Zenon DEF Edited
<1>. QED BY <1>2, <1>3, Zenon DEF d

\* Fields that neither the line nor the history is in.
LEMMA Flagged ==
    ASSUME NEW c, EditorSound(c)
    PROVE  /\ \A v : LET d == [c EXCEPT !.overflow = v]
                     IN  Edited(c, d, c.line, c.cursor) /\ d.raw = c.raw
           /\ \A v : LET d == [c EXCEPT !.escape = v]
                     IN  Edited(c, d, c.line, c.cursor) /\ d.raw = c.raw
           /\ \A v : LET d == [c EXCEPT !.cr = v]
                     IN  Edited(c, d, c.line, c.cursor) /\ d.raw = c.raw
<1>1. IsEditor(c) /\ c.browsing \in Int BY Zenon DEF EditorSound
<1>2. \A v : LET d == [c EXCEPT !.overflow = v]
             IN  Edited(c, d, c.line, c.cursor) /\ d.raw = c.raw
  BY <1>1 DEF IsEditor, Edited
<1>3. \A v : LET d == [c EXCEPT !.escape = v]
             IN  Edited(c, d, c.line, c.cursor) /\ d.raw = c.raw
  BY <1>1 DEF IsEditor, Edited
<1>4. \A v : LET d == [c EXCEPT !.cr = v]
             IN  Edited(c, d, c.line, c.cursor) /\ d.raw = c.raw
  BY <1>1 DEF IsEditor, Edited
<1>. QED BY <1>2, <1>3, <1>4, Zenon
-----------------------------------------------------------------------------
(* What each key echoes *)

LEMMA EchoParts ==
    /\ \A x \in Echoes : <<x>> \in Seq(Echoes)
    /\ \A a, b \in Seq(Echoes) : a \o b \in Seq(Echoes)
    /\ "BS" \in Echoes /\ Blank \in Echoes
    /\ \A n \in Nat : Backs(n) \in Seq(Echoes)
<1>1. \A x \in Echoes : <<x>> \in Seq(Echoes)
  <2> TAKE x \in Echoes
  <2>. QED BY ONLY x \in Echoes
<1>2. \A a, b \in Seq(Echoes) : a \o b \in Seq(Echoes) BY ConcatProperties, Zenon
<1>3. "BS" \in Echoes /\ Blank \in Echoes BY Zenon DEF Echoes, Chars, Blank
<1>4. ASSUME NEW n \in Nat PROVE Backs(n) \in Seq(Echoes)
  <2>1. Backs(n) \in Seq({"BS"}) /\ Len(Backs(n)) = n /\ \A i \in 1..n : Backs(n)[i] = "BS"
    BY BacksAre, Zenon
  <2>2. \A i \in 1..Len(Backs(n)) : Backs(n)[i] \in Echoes BY <1>3, <2>1, Zenon
  <2> HIDE DEF Echoes
  <2>. QED BY <2>1, <2>2
<1>. QED BY <1>1, <1>2, <1>3, <1>4, Zenon

LEMMA EchoesJoin ==
    \A s : \A a, b \in Seq(Echoes) : Shown(s, a \o b) = Shown(Shown(s, a), b)
<1> DEFINE T == Echoes
<1> HIDE DEF T
<1>1. \A s : \A a, b \in Seq(T) : Shown(s, a \o b) = Shown(Shown(s, a), b)
  BY ShownJoins, SMT
<1>. QED BY <1>1, Zenon DEF T

LEMMA InsertEchoed ==
    ASSUME NEW s, NEW x \in Echoes, NEW t \in Seq(Echoes), NEW n \in Nat
    PROVE  FoldLeft(Put, s, <<x>> \o t \o Backs(n)) = Shown(Shown(Put(s, x), t), Backs(n))
<1>1. <<x>> \in Seq(Echoes) /\ <<x>> \o t \in Seq(Echoes) /\ Backs(n) \in Seq(Echoes)
  BY EchoParts, Zenon
<1>2. Shown(s, (<<x>> \o t) \o Backs(n)) = Shown(Shown(s, <<x>> \o t), Backs(n))
  BY <1>1, EchoesJoin, Zenon
<1>3. Shown(s, <<x>> \o t) = Shown(Shown(s, <<x>>), t) BY <1>1, EchoesJoin, Zenon
<1>4. Shown(s, <<x>>) = Put(s, x) BY ShownOne, Zenon
<1>. QED BY <1>2, <1>3, <1>4, Zenon DEF Shown

LEMMA BackspaceEchoed ==
    ASSUME NEW s, NEW t \in Seq(Echoes), NEW n \in Nat
    PROVE  FoldLeft(Put, s, <<"BS">> \o t \o <<" ">> \o Backs(n))
             = Shown(Put(Shown(Put(s, "BS"), t), " "), Backs(n))
<1> DEFINE a == <<"BS">> \o t
           b == a \o <<Blank>>
<1>1. /\ <<"BS">> \in Seq(Echoes) /\ a \in Seq(Echoes) /\ <<Blank>> \in Seq(Echoes)
      /\ b \in Seq(Echoes) /\ Backs(n) \in Seq(Echoes)
  BY EchoParts, Zenon
<1>2. Shown(s, b \o Backs(n)) = Shown(Shown(s, b), Backs(n)) BY <1>1, EchoesJoin, Zenon
<1>3. Shown(s, b) = Shown(Shown(s, a), <<Blank>>) BY <1>1, EchoesJoin, Zenon
<1>4. Shown(s, a) = Shown(Shown(s, <<"BS">>), t) BY <1>1, EchoesJoin, Zenon
<1>5. /\ Shown(s, <<"BS">>) = Put(s, "BS")
      /\ Shown(Shown(s, a), <<Blank>>) = Put(Shown(s, a), Blank)
  BY ShownOne, Zenon
<1>. QED BY <1>2, <1>3, <1>4, <1>5, Zenon DEF Shown, Blank

LEMMA LesserOf ==
    ASSUME NEW a \in Int, NEW b \in Int
    PROVE  Min({a, b}) \in {a, b} /\ Min({a, b}) <= a /\ Min({a, b}) <= b
<1>1. \E x \in {a, b} : \A y \in {a, b} : x <= y
  <2>1. CASE a <= b BY <2>1
  <2>2. CASE ~(a <= b)
    <3>1. b <= a /\ b <= b BY <2>2
    <3>. QED BY <3>1
  <2>. QED BY <2>1, <2>2
<1>2. Min({a, b}) \in {a, b} /\ \A y \in {a, b} : Min({a, b}) <= y BY <1>1, Zenon DEF Min
<1>. QED BY <1>2, Zenon
-----------------------------------------------------------------------------
(* What each key does to an editor that is seen *)

\* c is the editor before, s what is seen of it; d and r are those after.
LEMMA SeenAfter ==
    ASSUME NEW c, EditorSound(c), NEW line \in Seq(Printable), NEW cursor \in Nat,
           cursor <= Len(line), NEW d, Edited(c, d, line, cursor), NEW r,
           ~d.raw => Displays(r, line, cursor)
    PROVE  Seen(d, r)
<1>1. EditorSound(d) BY EditedSound, Zenon
<1>2. d.line = line /\ d.cursor = cursor BY Zenon DEF Edited
<1>. QED BY <1>1, <1>2, Zenon DEF Seen

LEMMA Sound ==
    ASSUME NEW c, EditorSound(c)
    PROVE  /\ c.line \in Seq(Printable) /\ c.cursor \in Nat /\ c.cursor <= Len(c.line)
           /\ Len(c.line) \in Nat /\ Len(c.line) <= Len(c.line)
<1>1. c.line \in Seq(Printable) /\ c.cursor \in Nat /\ c.cursor <= Len(c.line)
  BY Zenon DEF EditorSound
<1>2. Len(c.line) \in Nat /\ Len(c.line) <= Len(c.line) BY <1>1
<1>. QED BY <1>1, <1>2, Zenon

LEMMA BackspaceSeen ==
    ASSUME NEW c, NEW s, Seen(c, s), c.cursor # 0
    PROVE  LET d == [c EXCEPT !.line = SubSeq(c.line, 1, c.cursor - 1) \o AfterCursor(c),
                              !.cursor = @ - 1]
               echo == <<"BS">> \o AfterCursor(c) \o <<" ">> \o Backs(Len(AfterCursor(c)) + 1)
           IN  Seen(d, IF c.raw THEN s ELSE FoldLeft(Put, s, echo))
<1> DEFINE l == c.line
           k == c.cursor
           t == AfterCursor(c)
           w == SubSeq(l, 1, k - 1) \o t
           d == [c EXCEPT !.line = w, !.cursor = k - 1]
           n == Len(t) + 1
           echo == <<"BS">> \o t \o <<" ">> \o Backs(n)
           r == IF c.raw THEN s ELSE FoldLeft(Put, s, echo)
<1>1. EditorSound(c) /\ (~c.raw => Displays(s, l, k)) BY Zenon DEF Seen
<1>2. l \in Seq(Printable) /\ k \in Nat /\ k <= Len(l) /\ Len(l) \in Nat /\ Len(l) <= Len(l)
  BY <1>1, Sound, Zenon
<1>3. t = SubSeq(l, k + 1, Len(l)) BY Zenon DEF AfterCursor
<1>4. d = [c EXCEPT !.line = SubSeq(c.line, 1, c.cursor - 1) \o AfterCursor(c),
                    !.cursor = @ - 1]
  BY Zenon
<1> HIDE DEF l, k, t
<1>5. k > 0 /\ k - 1 \in Nat /\ k - 1 <= Len(l) - 1 BY <1>2 DEF k
<1>6. t \in Seq(Printable) /\ Len(t) = Len(l) - k BY <1>2, <1>3, PartOf, Zenon
<1>7. w \in Seq(Printable) /\ Len(w) = Len(l) - 1 BY <1>2, <1>3, <1>5, BackspaceLine, Zenon
<1> HIDE DEF w
<1>8. Edited(c, d, w, k - 1) /\ d.raw = c.raw BY <1>1, LineEdited, Zenon
<1> HIDE DEF d
<1>9. n \in Nat BY <1>6
<1>10. t \in Seq(Echoes) BY <1>6, PrintableIsChars, Zenon
<1>11. FoldLeft(Put, s, echo) = Shown(Put(Shown(Put(s, "BS"), t), " "), Backs(n))
  <2> HIDE DEF n
  <2>. QED BY <1>9, <1>10, BackspaceEchoed, Zenon
<1>12. ASSUME ~c.raw PROVE Displays(r, w, k - 1)
  <2>1. r = Shown(Put(Shown(Put(s, "BS"), t), " "), Backs(n)) BY <1>11, <1>12, Zenon
  <2>2. Displays(s, l, k) BY <1>1, <1>12
  <2> HIDE DEF r
  <2>3. Displays(Shown(Put(Shown(Put(s, "BS"), SubSeq(l, k + 1, Len(l))), " "),
                       Backs(Len(SubSeq(l, k + 1, Len(l))) + 1)),
                 SubSeq(l, 1, k - 1) \o SubSeq(l, k + 1, Len(l)), k - 1)
    BY <1>2, <1>5, <2>2, BackspaceShown, Zenon
  <2>. QED BY <1>3, <2>1, <2>3, Zenon DEF n, w
<1> HIDE DEF r
<1>13. ~d.raw => Displays(r, w, k - 1) BY <1>8, <1>12, Zenon
<1>14. k - 1 <= Len(w) BY <1>5, <1>7
<1>15. Seen(d, r) BY <1>1, <1>5, <1>7, <1>8, <1>13, <1>14, SeenAfter, Zenon
<1>. QED BY <1>4, <1>15, Zenon DEF r, t, n

LEMMA InsertSeen ==
    ASSUME NEW c, NEW s, Seen(c, s), NEW char \in Printable
    PROVE  LET d == [c EXCEPT !.line = BeforeCursor(c) \o <<char>> \o AfterCursor(c),
                              !.cursor = @ + 1]
               echo == <<char>> \o AfterCursor(c) \o Backs(Len(AfterCursor(c)))
           IN  Seen(d, IF c.raw THEN s ELSE FoldLeft(Put, s, echo))
<1> DEFINE l == c.line
           k == c.cursor
           t == AfterCursor(c)
           w == BeforeCursor(c) \o <<char>> \o t
           d == [c EXCEPT !.line = w, !.cursor = k + 1]
           echo == <<char>> \o t \o Backs(Len(t))
           r == IF c.raw THEN s ELSE FoldLeft(Put, s, echo)
<1>1. EditorSound(c) /\ (~c.raw => Displays(s, l, k)) BY Zenon DEF Seen
<1>2. l \in Seq(Printable) /\ k \in Nat /\ k <= Len(l) /\ Len(l) \in Nat /\ Len(l) <= Len(l)
  BY <1>1, Sound, Zenon
<1>3. t = SubSeq(l, k + 1, Len(l)) BY Zenon DEF AfterCursor
<1>4. d = [c EXCEPT !.line = BeforeCursor(c) \o <<char>> \o AfterCursor(c), !.cursor = @ + 1]
  BY Zenon
<1>5. w = SubSeq(l, 1, k) \o <<char>> \o SubSeq(l, k + 1, Len(l))
  BY <1>3, Zenon DEF BeforeCursor
<1> HIDE DEF l, k, t
<1>6. t \in Seq(Printable) /\ Len(t) = Len(l) - k BY <1>2, <1>3, PartOf, Zenon
<1> HIDE DEF w
<1>7. w \in Seq(Printable) /\ Len(w) = Len(l) + 1 BY <1>2, <1>5, InsertLine, Zenon
<1>8. Edited(c, d, w, k + 1) /\ d.raw = c.raw BY <1>1, LineEdited, Zenon
<1> HIDE DEF d
<1>9. Len(t) \in Nat BY <1>6
<1>10. t \in Seq(Echoes) /\ char \in Echoes BY <1>6, PrintableIsChars, Zenon DEF Echoes, Chars
<1>11. FoldLeft(Put, s, echo) = Shown(Shown(Put(s, char), t), Backs(Len(t)))
  BY <1>9, <1>10, InsertEchoed, Zenon
<1>12. ASSUME ~c.raw PROVE Displays(r, w, k + 1)
  <2>1. r = Shown(Shown(Put(s, char), t), Backs(Len(t))) BY <1>11, <1>12, Zenon
  <2>2. Displays(s, l, k) BY <1>1, <1>12
  <2> HIDE DEF r
  <2>3. Displays(Shown(Shown(Put(s, char), SubSeq(l, k + 1, Len(l))),
                       Backs(Len(SubSeq(l, k + 1, Len(l))))),
                 SubSeq(l, 1, k) \o <<char>> \o SubSeq(l, k + 1, Len(l)), k + 1)
    BY <1>2, <2>2, InsertShown, Zenon
  <2>. QED BY <1>3, <1>5, <2>1, <2>3, Zenon
<1> HIDE DEF r
<1>13. ~d.raw => Displays(r, w, k + 1) BY <1>8, <1>12, Zenon
<1>14. k + 1 \in Nat /\ k + 1 <= Len(w) BY <1>2, <1>7
<1>15. Seen(d, r) BY <1>1, <1>7, <1>8, <1>13, <1>14, SeenAfter, Zenon
<1>. QED BY <1>4, <1>15, Zenon DEF r, t

LEMMA LeftSeen ==
    ASSUME NEW c, NEW s, Seen(c, s), c.cursor # 0
    PROVE  Seen([c EXCEPT !.cursor = @ - 1], IF c.raw THEN s ELSE FoldLeft(Put, s, <<"BS">>))
<1> DEFINE l == c.line
           k == c.cursor
           d == [c EXCEPT !.cursor = k - 1]
           r == IF c.raw THEN s ELSE FoldLeft(Put, s, <<"BS">>)
<1>1. EditorSound(c) /\ (~c.raw => Displays(s, l, k)) BY Zenon DEF Seen
<1>2. l \in Seq(Printable) /\ k \in Nat /\ k <= Len(l) BY <1>1, Sound, Zenon
<1>3. d = [c EXCEPT !.cursor = @ - 1] BY Zenon
<1>4. Edited(c, d, l, k - 1) /\ d.raw = c.raw BY <1>1, CursorMoved, Zenon
<1> HIDE DEF l, k, d
<1>5. k > 0 /\ k - 1 \in Nat /\ k - 1 <= Len(l) BY <1>2 DEF k
<1>6. ASSUME ~c.raw PROVE Displays(r, l, k - 1)
  <2>1. r = Put(s, "BS") BY <1>6, ShownOne, Zenon DEF Shown
  <2>2. Displays(s, l, k) BY <1>1, <1>6
  <2> HIDE DEF r
  <2>. QED BY <1>2, <1>5, <2>1, <2>2, LeftShown, Zenon
<1> HIDE DEF r
<1>7. ~d.raw => Displays(r, l, k - 1) BY <1>4, <1>6, Zenon
<1>8. Seen(d, r) BY <1>1, <1>2, <1>4, <1>5, <1>7, SeenAfter, Zenon
<1>. QED BY <1>3, <1>8, Zenon DEF r

LEMMA RightSeen ==
    ASSUME NEW c, NEW s, Seen(c, s), ~(c.cursor >= Len(c.line))
    PROVE  Seen([c EXCEPT !.cursor = @ + 1],
                IF c.raw THEN s
                ELSE FoldLeft(Put, s, SubSeq(c.line, c.cursor + 1, c.cursor + 1)))
<1> DEFINE l == c.line
           k == c.cursor
           m == k + 1
           d == [c EXCEPT !.cursor = m]
           r == IF c.raw THEN s ELSE FoldLeft(Put, s, SubSeq(l, k + 1, m))
<1>1. EditorSound(c) /\ (~c.raw => Displays(s, l, k)) BY Zenon DEF Seen
<1>2. l \in Seq(Printable) /\ k \in Nat /\ k <= Len(l) /\ Len(l) \in Nat BY <1>1, Sound, Zenon
<1>3. d = [c EXCEPT !.cursor = @ + 1] BY Zenon
<1> HIDE DEF m
<1>4. Edited(c, d, l, m) /\ d.raw = c.raw BY <1>1, CursorMoved, Zenon
<1>a. ~(k >= Len(l)) OBVIOUS
<1> HIDE DEF l, k, d
<1>5. m \in Nat /\ m <= Len(l) /\ k <= m BY <1>2, <1>a DEF m
<1>6. ASSUME ~c.raw PROVE Displays(r, l, m)
  <2>1. r = Shown(s, SubSeq(l, k + 1, m)) BY <1>6, Zenon DEF Shown
  <2>2. Displays(s, l, k) BY <1>1, <1>6
  <2> HIDE DEF r
  <2>. QED BY <1>2, <1>5, <2>1, <2>2, LineRewritten, Zenon
<1> HIDE DEF r
<1>7. ~d.raw => Displays(r, l, m) BY <1>4, <1>6, Zenon
<1>8. Seen(d, r) BY <1>1, <1>2, <1>4, <1>5, <1>7, SeenAfter, Zenon
<1>. QED BY <1>3, <1>8, Zenon DEF r, m, l, k
\* What is recalled fits the buffer or is cut, and is shown in place of the line.
LEMMA ReplaceSeen ==
    ASSUME NEW c, NEW s, Seen(c, s), NEW text \in Seq(Printable), NEW browsing \in Int
    PROVE  LET shown == SubSeq(text, 1, Min({Len(text), LineSize - 1}))
               erase == [i \in 1..3 * Len(c.line) |-> IF i % 3 = 2 THEN " " ELSE "BS"]
               d == [c EXCEPT !.line = shown, !.cursor = Len(shown), !.browsing = browsing]
           IN  Seen(d, IF c.raw THEN s
                       ELSE FoldLeft(Put, s, AfterCursor(c) \o erase \o shown))
<1> DEFINE l == c.line
           k == c.cursor
           n == Len(l)
           t == AfterCursor(c)
           m == Min({Len(text), LineSize - 1})
           shown == SubSeq(text, 1, m)
           e == Erase(n)
           d == [c EXCEPT !.line = shown, !.cursor = Len(shown), !.browsing = browsing]
           r == IF c.raw THEN s ELSE FoldLeft(Put, s, t \o e \o shown)
<1>1. EditorSound(c) /\ (~c.raw => Displays(s, l, k)) BY Zenon DEF Seen
<1>2. l \in Seq(Printable) /\ k \in Nat /\ k <= n /\ n \in Nat /\ n <= n
  BY <1>1, Sound, Zenon
<1>3. t = SubSeq(l, k + 1, n) BY Zenon DEF AfterCursor
<1>4. e = [i \in 1..3 * Len(c.line) |-> IF i % 3 = 2 THEN " " ELSE "BS"] BY Zenon DEF Erase
<1>5. m \in Nat /\ m <= Len(text)
  <2>1. LineSize \in Nat /\ LineSize # 0 BY CliAssumption DEF CliAssumption
  <2>2. Len(text) \in Int /\ LineSize - 1 \in Int BY <2>1
  <2>3. m \in {Len(text), LineSize - 1} /\ m <= Len(text) BY <2>2, LesserOf, Zenon
  <2> HIDE DEF m
  <2>. QED BY <2>1, <2>3
<1> HIDE DEF m
<1>6. shown \in Seq(Printable) /\ Len(shown) = m BY <1>5, HeadOf, Zenon
<1> HIDE DEF shown
<1>7. Len(shown) \in Nat /\ Len(shown) <= Len(shown) BY <1>6
<1>8. Edited(c, d, shown, Len(shown)) /\ d.raw = c.raw
  <2> DEFINE x == Len(shown)
  <2>1. IsEditor(c) /\ d = [c EXCEPT !.line = shown, !.cursor = x, !.browsing = browsing]
    BY <1>1, Zenon DEF EditorSound
  <2> HIDE DEF x, d
  <2>2. /\ IsEditor(d) /\ d.line = shown /\ d.cursor = x /\ d.browsing = browsing
        /\ d.slots = c.slots /\ d.head = c.head /\ d.count = c.count /\ d.raw = c.raw
    BY <2>1 DEF IsEditor
  <2>. QED BY <2>2, Zenon DEF Edited, x
<1> HIDE DEF d
<1>9. ASSUME ~c.raw PROVE Displays(r, shown, Len(shown))
  <2>1. Displays(s, l, k) BY <1>1, <1>9
  <2> HIDE DEF t, n
  <2>2. Displays(Shown(s, t), l, n)
    <3>1. Displays(Shown(s, SubSeq(l, k + 1, n)), l, n)
      <4> HIDE DEF k, l
      <4>1. n <= Len(l) BY <1>2, Zenon DEF n
      <4>. QED BY <1>2, <2>1, <4>1, LineRewritten, Zenon
    <3>. QED BY <1>3, <3>1, Zenon
  <2>3. Displays(Shown(Shown(s, t), e), <<>>, 0)
    <3> HIDE DEF l
    <3>. QED BY <1>2, <2>2, LineBlanked, Zenon DEF n
  <2> HIDE DEF e
  <2>4. Displays(Shown(Shown(Shown(s, t), e), shown), shown, Len(shown))
    BY <1>6, <2>3, TextShown, Zenon
  <2>5. t \in Seq(Echoes) /\ shown \in Seq(Echoes)
    <3>1. t \in Seq(Printable)
      <4> HIDE DEF l, k
      <4>. QED BY <1>2, <1>3, PartOf, Zenon DEF n
    <3>. QED BY <1>6, <3>1, PrintableIsChars, Zenon
  <2>6. e \in Seq(Echoes)
    <3>1. IsScreen(Shown(s, t)) /\ Shown(s, t).col = n BY <2>2, Zenon DEF Displays
    <3>2. n <= Shown(s, t).col BY <1>2, <3>1, Zenon
    <3>. QED BY <1>2, <3>1, <3>2, EraseShown, Zenon DEF e
  <2>7. FoldLeft(Put, s, t \o e \o shown) = Shown(Shown(Shown(s, t), e), shown)
    <3> HIDE DEF e
    <3>1. t \o e \in Seq(Echoes) BY <2>5, <2>6, EchoParts, Zenon
    <3>2. Shown(s, (t \o e) \o shown) = Shown(Shown(s, t \o e), shown)
      BY <2>5, <3>1, EchoesJoin, Zenon
    <3>3. Shown(s, t \o e) = Shown(Shown(s, t), e) BY <2>5, <2>6, EchoesJoin, Zenon
    <3>. QED BY <3>2, <3>3, Zenon DEF Shown
  <2>8. r = Shown(Shown(Shown(s, t), e), shown) BY <1>9, <2>7, Zenon
  <2>. QED BY <2>4, <2>8, Zenon
<1> HIDE DEF r
<1>10. ~d.raw => Displays(r, shown, Len(shown)) BY <1>8, <1>9, Zenon
<1>11. Seen(d, r) BY <1>1, <1>6, <1>7, <1>8, <1>10, SeenAfter, Zenon
<1>. QED BY <1>4, <1>11, Zenon DEF r, d, shown, m, t, n, l

LEMMA SlotOf ==
    ASSUME NEW c, EditorSound(c), NEW b \in Int, b > 0, b <= c.count
    PROVE  c.slots[(c.head + Depth - b) % Depth] \in Seq(Printable)
<1>1. c.head \in Int /\ c.slots \in [0..Depth - 1 -> Seq(Printable)]
  <2>1. c.head \in 0..Depth - 1 /\ c.slots \in [0..Depth - 1 -> Seq(Printable)]
    BY Zenon DEF EditorSound
  <2>. QED BY <2>1
<1>2. Depth \in Nat /\ Depth # 0 BY CliAssumption DEF CliAssumption
<1> DEFINE h == c.head + Depth - b
           j == h % Depth
<1>3. h \in Int BY <1>1, <1>2
<1> HIDE DEF h
<1>4. j \in 0..Depth - 1 BY <1>2, <1>3
<1> HIDE DEF j
<1>5. c.slots[j] \in Seq(Printable) BY <1>1, <1>4, Zenon
<1>. QED BY <1>5, Zenon DEF j, h

LEMMA PushSound ==
    ASSUME NEW c, EditorSound(c)
    PROVE  EditorSound(HistoryPush(c)) /\ HistoryPush(c).line = c.line
<1> DEFINE v == SubSeq(c.line, 1, Min({Len(c.line), EntrySize - 1}))
           slots == [c.slots EXCEPT ![c.head] = v]
           head == (c.head + 1) % Depth
           count == Min({c.count + 1, Depth})
           d == [c EXCEPT !.slots = slots, !.head = head, !.count = count]
<1>1. c.line \in Seq(Printable) /\ Len(c.line) \in Nat BY Sound, Zenon
<1>2. /\ IsEditor(c) /\ c.head \in 0..Depth - 1
      /\ c.slots \in [0..Depth - 1 -> Seq(Printable)] /\ c.count \in Nat
  BY Zenon DEF EditorSound
<1>3. Depth \in Nat /\ Depth # 0 /\ EntrySize \in Nat /\ EntrySize # 0
  BY CliAssumption DEF CliAssumption
<1>4. v \in Seq(Printable)
  <2> DEFINE n == Len(c.line)
             e == EntrySize - 1
             m == Min({n, e})
  <2>1. n \in Int /\ n \in Nat /\ e \in Int /\ e \in Nat BY <1>1, <1>3
  <2> HIDE DEF n, e
  <2>2. m \in {n, e} /\ m <= n BY <2>1, LesserOf, Zenon
  <2> HIDE DEF m
  <2>3. m \in Nat BY <2>1, <2>2
  <2>4. SubSeq(c.line, 1, m) \in Seq(Printable) BY <1>1, <2>2, <2>3, HeadOf, Zenon DEF n
  <2>. QED BY <2>4, Zenon DEF m, n, e
<1>5. slots \in [0..Depth - 1 -> Seq(Printable)]
  <2> DEFINE f == c.slots
             h == c.head
  <2> HIDE DEF v
  <2>1. f \in [0..Depth - 1 -> Seq(Printable)] BY <1>2
  <2> HIDE DEF f, h
  <2>2. [f EXCEPT ![h] = v] \in [0..Depth - 1 -> Seq(Printable)] BY <1>4, <2>1
  <2>. QED BY <2>2, Zenon DEF f, h
<1>6. head \in 0..Depth - 1
  <2> DEFINE h == c.head + 1
  <2>1. h \in Int BY <1>2, <1>3
  <2> HIDE DEF h
  <2>2. h % Depth \in 0..Depth - 1 BY <1>3, <2>1
  <2>. QED BY <2>2, Zenon DEF h
<1>7. count \in Nat
  <2> DEFINE a == c.count + 1
  <2>1. a \in Int /\ a \in Nat /\ Depth \in Int BY <1>2, <1>3
  <2> HIDE DEF a
  <2>2. Min({a, Depth}) \in {a, Depth} BY <2>1, LesserOf, Zenon
  <2>3. Min({a, Depth}) \in Nat BY <1>3, <2>1, <2>2, Zenon
  <2>. QED BY <2>3, Zenon DEF a
<1>8. HistoryPush(c) = d BY Zenon DEF HistoryPush
<1> HIDE DEF slots, head, count
<1>9. /\ IsEditor(d) /\ d.line = c.line /\ d.cursor = c.cursor /\ d.browsing = c.browsing
      /\ d.slots = slots /\ d.head = head /\ d.count = count
  BY <1>2 DEF IsEditor
<1> HIDE DEF d
<1>10. EditorSound(d) BY <1>5, <1>6, <1>7, <1>9, Zenon DEF EditorSound
<1>. QED BY <1>8, <1>9, <1>10, Zenon

LEMMA NothingShown ==
    /\ Displays([row |-> <<>>, col |-> 0], <<>>, 0)
    /\ <<>> \in Seq(Printable) /\ 0 <= Len(<<>>) /\ 0 \in Nat
<1> DEFINE s == [row |-> <<>>, col |-> 0]
<1>1. <<>> \in Seq(Printable) /\ <<>> \in Seq(Chars) /\ Len(<<>>) = 0 /\ 0 <= 0 /\ 0 >= 0
  OBVIOUS
<1>2. \A i : i \notin 1..0 OBVIOUS
<1>3. s.row = <<>> /\ s.col = 0 OBVIOUS
<1>4. s = [row |-> s.row, col |-> s.col] OBVIOUS
<1> HIDE DEF s
<1>5. IsScreen(s)
  <2>1. 0 \in Nat OBVIOUS
  <2>. QED BY <1>1, <1>3, <1>4, <2>1, Zenon DEF IsScreen
<1>6. \A i \in 1..Len(s.row) : FALSE BY <1>1, <1>2, <1>3, Zenon
<1>7. s.col = 0 /\ Len(s.row) >= Len(<<>>) BY <1>1, <1>3, Zenon
<1>8. Displays(s, <<>>, 0) BY <1>5, <1>6, <1>7, Zenon DEF Displays
<1>9. 0 \in Nat OBVIOUS
<1>. QED BY <1>1, <1>8, <1>9, Zenon DEF s

LEMMA ResetSeen ==
    ASSUME NEW c, EditorSound(c)
    PROVE  Seen(ResetLine(c), [row |-> <<>>, col |-> 0])
<1> DEFINE d == ResetLine(c)
<1>1. IsEditor(c) BY Zenon DEF EditorSound
<1>2. /\ IsEditor(d) /\ d.line = <<>> /\ d.cursor = 0 /\ d.browsing = 0
      /\ d.slots = c.slots /\ d.head = c.head /\ d.count = c.count
  BY <1>1 DEF IsEditor, ResetLine
<1> HIDE DEF d
<1>3. 0 \in Int OBVIOUS
<1>4. Edited(c, d, <<>>, 0) BY <1>2, <1>3, Zenon DEF Edited
<1>5. ~d.raw => Displays([row |-> <<>>, col |-> 0], <<>>, 0) BY NothingShown, Zenon
<1>6. Seen(d, [row |-> <<>>, col |-> 0]) BY <1>4, <1>5, NothingShown, SeenAfter, Zenon
<1>. QED BY <1>6, Zenon DEF d

LEMMA FlagSeen ==
    ASSUME NEW c, NEW s, Seen(c, s), NEW d, Edited(c, d, c.line, c.cursor), d.raw = c.raw
    PROVE  Seen(d, s)
<1>1. EditorSound(c) /\ (~c.raw => Displays(s, c.line, c.cursor)) BY Zenon DEF Seen
<1>2. c.line \in Seq(Printable) /\ c.cursor \in Nat /\ c.cursor <= Len(c.line)
  BY <1>1, Sound, Zenon
<1>3. ~d.raw => Displays(s, c.line, c.cursor) BY <1>1, Zenon
<1>. QED BY <1>1, <1>2, <1>3, SeenAfter, Zenon
-----------------------------------------------------------------------------
(* The editor *)

LEMMA FlagsSeen ==
    ASSUME NEW c, NEW s, Seen(c, s)
    PROVE  /\ \A v : Seen([c EXCEPT !.overflow = v], s)
           /\ \A v : Seen([c EXCEPT !.escape = v], s)
           /\ \A v : Seen([c EXCEPT !.cr = v], s)
           /\ \A v, w : Seen([c EXCEPT !.cr = v, !.escape = w], s)
<1>1. EditorSound(c) BY Zenon DEF Seen
<1>2. ASSUME NEW d, Edited(c, d, c.line, c.cursor) /\ d.raw = c.raw PROVE Seen(d, s)
  BY <1>2, FlagSeen, Zenon
<1>3. ASSUME NEW v PROVE Seen([c EXCEPT !.overflow = v], s) BY <1>1, <1>2, Flagged, Zenon
<1>4. ASSUME NEW v PROVE Seen([c EXCEPT !.escape = v], s) BY <1>1, <1>2, Flagged, Zenon
<1>5. ASSUME NEW v PROVE Seen([c EXCEPT !.cr = v], s) BY <1>1, <1>2, Flagged, Zenon
<1>6. ASSUME NEW v, NEW w PROVE Seen([c EXCEPT !.cr = v, !.escape = w], s)
  <2> DEFINE d == [c EXCEPT !.cr = v, !.escape = w]
  <2>1. IsEditor(c) /\ c.browsing \in Int BY <1>1, Zenon DEF EditorSound
  <2>2. /\ IsEditor(d) /\ d.line = c.line /\ d.cursor = c.cursor /\ d.browsing = c.browsing
        /\ d.slots = c.slots /\ d.head = c.head /\ d.count = c.count /\ d.raw = c.raw
    BY <2>1 DEF IsEditor
  <2> HIDE DEF d
  <2>3. Edited(c, d, c.line, c.cursor) BY <2>1, <2>2, Zenon DEF Edited
  <2>4. Seen(d, s) BY <1>2, <2>2, <2>3, Zenon
  <2>. QED BY <2>4, Zenon DEF d
<1>. QED BY <1>3, <1>4, <1>5, <1>6, Zenon

LEMMA CliStarts == CliInit => CliInv
<1> SUFFICES ASSUME CliInit PROVE CliInv OBVIOUS
<1> DEFINE slots == [i \in 0..Depth - 1 |-> <<>>]
<1>1. cli = [line |-> <<>>, cursor |-> 0, overflow |-> FALSE, raw |-> FALSE,
             escape |-> "none", browsing |-> 0, cr |-> FALSE,
             slots |-> slots, head |-> 0, count |-> 0]
  BY Zenon DEF CliInit
<1>2. slots \in [0..Depth - 1 -> Seq(Printable)]
  <2>1. <<>> \in Seq(Printable) OBVIOUS
  <2>. QED BY <2>1, Zenon
<1> HIDE DEF slots
<1>3. /\ cli.line = <<>> /\ cli.cursor = 0 /\ cli.browsing = 0
      /\ cli.slots = slots /\ cli.head = 0 /\ cli.count = 0
  BY <1>1
<1>4. IsEditor(cli) BY <1>1 DEF IsEditor
<1>5. 0 \in 0..Depth - 1 /\ 0 \in Int /\ 0 \in Nat BY CliAssumption DEF CliAssumption
<1>6. EditorSound(cli)
  <2>1. <<>> \in Seq(Printable) /\ 0 <= Len(<<>>) BY NothingShown, Zenon
  <2>. QED BY <1>2, <1>3, <1>4, <1>5, <2>1, Zenon DEF EditorSound
<1>7. Displays(screen, cli.line, cli.cursor)
  <2>1. screen = [row |-> <<>>, col |-> 0] BY Zenon DEF CliInit
  <2>. QED BY <1>3, <2>1, NothingShown, Zenon
<1>. QED BY <1>6, <1>7, Zenon DEF CliInv, Seen

LEMMA RecallSeen ==
    ASSUME NEW STATE c, Seen(c, screen), NEW direction \in {1, -1}, HistoryRecall(c, direction)
    PROVE  CliInv'
<1> DEFINE b == c.browsing + direction
           text == c.slots[(c.head + Depth - b) % Depth]
<1>1. EditorSound(c) BY Zenon DEF Seen
<1>2. c.browsing \in Int /\ c.count \in Nat BY <1>1, Zenon DEF EditorSound
<1>3. b \in Int BY <1>2
<1>4. CASE cli' = c /\ UNCHANGED screen BY <1>4, Zenon DEF CliInv
<1>5. CASE ReplaceLine(c, <<>>, 0)
  <2>1. <<>> \in Seq(Printable) /\ 0 \in Int OBVIOUS
  <2>2. Seen(cli', screen')
    BY <1>5, <2>1, ReplaceSeen, Zenon DEF ReplaceLine, Echoed
  <2>. QED BY <2>2, Zenon DEF CliInv
<1>6. CASE /\ ReplaceLine(c, text, b) /\ b # 0
           /\ ~(c.count = 0 \/ b > c.count \/ b < 0)
  <2> HIDE DEF b
  <2>1. b > 0 /\ b <= c.count BY <1>2, <1>3, <1>6
  <2>2. text \in Seq(Printable) BY <1>1, <1>3, <2>1, SlotOf, Zenon
  <2> HIDE DEF text
  <2>3. Seen(cli', screen')
    BY <1>3, <1>6, <2>2, ReplaceSeen, Zenon DEF ReplaceLine, Echoed
  <2>. QED BY <2>3, Zenon DEF CliInv
<1>. QED BY <1>4, <1>5, <1>6, Zenon DEF HistoryRecall

LEMMA EscapeSeen ==
    ASSUME NEW STATE c, Seen(c, screen), NEW char, HandleEscapeLetter(c, char)
    PROVE  CliInv'
<1>1. CASE cli' = c /\ UNCHANGED screen BY <1>1, Zenon DEF CliInv
<1>2. CASE CursorLeft(c)
  <2>1. CASE c.cursor = 0 BY <1>1, <1>2, <2>1, Zenon DEF CursorLeft
  <2>2. CASE c.cursor # 0
    <3>1. Seen(cli', screen') BY <1>2, <2>2, LeftSeen, Zenon DEF CursorLeft, Echoed
    <3>. QED BY <3>1, Zenon DEF CliInv
  <2>. QED BY <2>1, <2>2, Zenon
<1>3. CASE CursorRight(c)
  <2>1. CASE c.cursor >= Len(c.line) BY <1>1, <1>3, <2>1, Zenon DEF CursorRight
  <2>2. CASE ~(c.cursor >= Len(c.line))
    <3>1. Seen(cli', screen') BY <1>3, <2>2, RightSeen, Zenon DEF CursorRight, Echoed
    <3>. QED BY <3>1, Zenon DEF CliInv
  <2>. QED BY <2>1, <2>2, Zenon
<1>4. CASE HistoryRecall(c, 1)
  <2>1. 1 \in {1, -1} OBVIOUS
  <2>. QED BY <1>4, <2>1, RecallSeen, Zenon
<1>5. CASE HistoryRecall(c, -1)
  <2>1. -1 \in {1, -1} OBVIOUS
  <2>. QED BY <1>5, <2>1, RecallSeen, Zenon
<1>6. CASE char = "D" BY <1>2, <1>6, Zenon DEF HandleEscapeLetter
<1>7. CASE char = "C"
  <2>1. char # "D" BY <1>7
  <2>. QED BY <1>3, <1>7, <2>1, Zenon DEF HandleEscapeLetter
<1>8. CASE char = "A"
  <2>1. char # "D" /\ char # "C" BY <1>8
  <2>. QED BY <1>4, <1>8, <2>1, Zenon DEF HandleEscapeLetter
<1>9. CASE char = "B"
  <2>1. char # "D" /\ char # "C" /\ char # "A" BY <1>9
  <2>. QED BY <1>5, <1>9, <2>1, Zenon DEF HandleEscapeLetter
<1>10. CASE char # "D" /\ char # "C" /\ char # "A" /\ char # "B"
  BY <1>1, <1>10, Zenon DEF HandleEscapeLetter
<1>. QED BY <1>6, <1>7, <1>8, <1>9, <1>10, Zenon

LEMMA CliSteps == CliInv /\ [CliNext]_cliVars => CliInv'
<1> SUFFICES ASSUME CliInv, [CliNext]_cliVars PROVE CliInv' OBVIOUS
<1>1. Seen(cli, screen) /\ EditorSound(cli) BY Zenon DEF CliInv, Seen
<1>2. CASE UNCHANGED cliVars
  <2>1. cli' = cli /\ screen' = screen BY <1>2 DEF cliVars
  <2>. QED BY <1>1, <2>1, Zenon DEF CliInv
<1>3. ASSUME NEW char \in Keys, FeedSecondHalf(char) PROVE CliInv'
  <2>1. Seen([cli EXCEPT !.cr = FALSE], screen) BY <1>1, FlagsSeen, Zenon
  <2>. QED BY <1>3, <2>1, Zenon DEF FeedSecondHalf, CliInv
<1>4. ASSUME NEW char \in Keys, FeedLineEnd(char) PROVE CliInv'
  <2> DEFINE c == [cli EXCEPT !.cr = (char = "CR")]
             d == IF ~c.overflow /\ c.line # <<>> /\ ~c.raw THEN HistoryPush(c) ELSE c
  <2>1. Seen(c, screen) BY <1>1, FlagsSeen, Zenon
  <2>2. HandleEndOfLine(c) BY <1>4, Zenon DEF FeedLineEnd
  <2> HIDE DEF c
  <2>3. EditorSound(d)
    <3>1. EditorSound(c) BY <2>1, Zenon DEF Seen
    <3>. QED BY <3>1, PushSound, Zenon
  <2>4. cli' = ResetLine(d) /\ screen' = [row |-> <<>>, col |-> 0]
    BY <2>2, Zenon DEF HandleEndOfLine
  <2> HIDE DEF d
  <2>. QED BY <2>3, <2>4, ResetSeen, Zenon DEF CliInv
<1>5. ASSUME NEW char \in Keys, FeedEscaped(char) PROVE CliInv'
  <2>1. CASE cli.escape = "bracket"
    <3> DEFINE c == [cli EXCEPT !.cr = FALSE, !.escape = "none"]
    <3>1. Seen(c, screen) BY <1>1, FlagsSeen, Zenon
    <3>2. HandleEscapeLetter(c, char) BY <1>5, <2>1, Zenon DEF FeedEscaped
    <3> HIDE DEF c
    <3>. QED BY <3>1, <3>2, EscapeSeen, Zenon
  <2>2. CASE cli.escape # "bracket"
    <3> DEFINE v == IF char = "[" THEN "bracket" ELSE "none"
    <3>1. cli' = [cli EXCEPT !.cr = FALSE, !.escape = v] /\ screen' = screen
      BY <1>5, <2>2, Zenon DEF FeedEscaped
    <3> HIDE DEF v
    <3>2. Seen([cli EXCEPT !.cr = FALSE, !.escape = v], screen)
      BY <1>1, FlagsSeen, Zenon
    <3>. QED BY <3>1, <3>2, Zenon DEF CliInv
  <2>. QED BY <2>1, <2>2, Zenon
<1>6. ASSUME NEW char \in Keys, FeedControl(char) PROVE CliInv'
  <2> DEFINE c == [cli EXCEPT !.cr = FALSE]
  <2>1. Seen(c, screen) /\ EditorSound(c)
    <3>1. Seen(c, screen) BY <1>1, FlagsSeen, Zenon
    <3> HIDE DEF c
    <3>. QED BY <3>1, Zenon DEF Seen
  <2>2. CASE char = "ESC" /\ cli' = [c EXCEPT !.escape = "esc"] /\ UNCHANGED screen
    <3> HIDE DEF c
    <3>1. Seen([c EXCEPT !.escape = "esc"], screen) BY <2>1, FlagsSeen, Zenon
    <3>. QED BY <2>2, <3>1, Zenon DEF CliInv
  <2>3. CASE HandleBackspace(c)
    <3> HIDE DEF c
    <3>1. CASE c.cursor = 0 BY <2>1, <2>3, <3>1, Zenon DEF HandleBackspace, CliInv
    <3>2. CASE c.cursor # 0
      <4>1. Seen(cli', screen')
        BY <2>1, <2>3, <3>2, BackspaceSeen, Zenon DEF HandleBackspace, Backspace, Echoed
      <4>. QED BY <4>1, Zenon DEF CliInv
    <3>. QED BY <3>1, <3>2, Zenon
  <2>4. CASE cli' = c /\ UNCHANGED screen
    <3> HIDE DEF c
    <3>. QED BY <2>1, <2>4, Zenon DEF CliInv
  <2>5. CASE char = "ESC" BY <1>6, <2>2, <2>5, Zenon DEF FeedControl
  <2>6. CASE char = "BS"
    <3>1. char # "ESC" BY <2>6
    <3>. QED BY <1>6, <2>3, <2>6, <3>1, Zenon DEF FeedControl
  <2>7. CASE char # "ESC" /\ char # "BS" BY <1>6, <2>4, <2>7, Zenon DEF FeedControl
  <2>. QED BY <2>5, <2>6, <2>7, Zenon
<1>7. ASSUME NEW char \in Keys, FeedPrintable(char) PROVE CliInv'
  <2> DEFINE c == [cli EXCEPT !.cr = FALSE,
                              !.raw = @ \/ (cli.line = <<>> /\ char = RawPrefix)]
  <2>1. Seen(c, screen)
    <3> DEFINE w == cli.raw \/ (cli.line = <<>> /\ char = RawPrefix)
               d == [cli EXCEPT !.cr = FALSE, !.raw = w]
    <3>1. c = d BY Zenon
    <3>2. w \/ ~cli.raw BY Zenon
    <3>3. ~w => ~cli.raw BY Zenon
    <3> HIDE DEF w
    <3>a. IsEditor(cli) /\ cli.browsing \in Int BY <1>1, Zenon DEF EditorSound
    <3>b. /\ IsEditor(d) /\ d.line = cli.line /\ d.cursor = cli.cursor
          /\ d.browsing = cli.browsing
          /\ d.slots = cli.slots /\ d.head = cli.head /\ d.count = cli.count /\ d.raw = w
      BY <3>a DEF IsEditor
    <3> HIDE DEF d
    <3>4. Edited(cli, d, cli.line, cli.cursor) /\ d.raw = w
      BY <3>a, <3>b, Zenon DEF Edited
    <3>5. ~d.raw => Displays(screen, cli.line, cli.cursor)
      BY <1>1, <3>3, <3>4, Zenon DEF Seen
    <3>6. cli.line \in Seq(Printable) /\ cli.cursor \in Nat /\ cli.cursor <= Len(cli.line)
      BY <1>1, Sound, Zenon
    <3>7. Seen(d, screen) BY <1>1, <3>4, <3>5, <3>6, SeenAfter, Zenon
    <3>. QED BY <3>1, <3>7, Zenon
  <2>2. char \in Printable /\ InsertChar(c, char) BY <1>7, Zenon DEF FeedPrintable
  <2> HIDE DEF c
  <2>3. CASE Len(c.line) + 1 >= LineSize
    <3>1. EditorSound(c) BY <2>1, Zenon DEF Seen
    <3>2. Seen([c EXCEPT !.overflow = TRUE], screen) BY <2>1, <3>1, FlagsSeen, Zenon
    <3>. QED BY <2>2, <2>3, <3>2, Zenon DEF InsertChar, CliInv
  <2>4. CASE ~(Len(c.line) + 1 >= LineSize)
    <3>1. Seen(cli', screen') BY <2>1, <2>2, <2>4, InsertSeen, Zenon DEF InsertChar, Echoed
    <3>. QED BY <3>1, Zenon DEF CliInv
  <2>. QED BY <2>3, <2>4, Zenon
<1>. QED BY <1>2, <1>3, <1>4, <1>5, <1>6, <1>7, Zenon DEF CliNext

LEMMA CliShows == CliInv => ScreenShowsTheLine
<1> SUFFICES ASSUME CliInv, ~cli.raw PROVE ScreenShowsTheLine BY Zenon DEF ScreenShowsTheLine
<1>1. Displays(screen, cli.line, cli.cursor) BY Zenon DEF CliInv, Seen
<1>. QED BY <1>1, Zenon DEF Displays, Blank, ScreenShowsTheLine

\* Whatever is typed, erased, moved over or recalled, the terminal shows the line that
\* Enter would run and the cursor where the next character goes, for every buffer, history
\* and entry size (cli.c: handle_backspace, insert_char_at_cursor, cursor_left and
\* cursor_right, replace_line, history_push, history_recall).
THEOREM CliCorrect == CliSpec => []ScreenShowsTheLine
<1>1. CliSpec => []CliInv BY CliStarts, CliSteps, PTL DEF CliSpec
<1>. QED BY <1>1, CliShows, PTL
-----------------------------------------------------------------------------
(***************************************************************************)
(* ServoBus                                                                *)
(***************************************************************************)

(* The wire: only a whole answer of a servo that heard the packet is taken *)

LEMMA NothingLeft == \A p : AfterWrite(p) = <<>>
BY DEF AfterWrite, Cleared, Echo, Pieces, Unit

LEMMA PiecesAre ==
    ASSUME NEW u
    PROVE  /\ Pieces(u) \in Seq({[unit |-> u, part |-> 1], [unit |-> u, part |-> 2]})
           /\ Len(Pieces(u)) = 2 /\ Pieces(u)[1].unit = u /\ Pieces(u)[2].unit = u
           /\ <<>> \o Pieces(u) = Pieces(u)
BY DEF Pieces

LEMMA EmptyFails ==
    ASSUME NEW p, p.to # Broadcast
    PROVE  Attempt(p, <<>>) # "ok"
BY DEF Attempt

LEMMA NoiseFails ==
    ASSUME NEW p, p.to # Broadcast
    PROVE  Attempt(p, Noise(p)) # "ok"
<1> DEFINE u == Unit(p.to, "noise", 0)
<1>1. Noise(p) = Pieces(u) BY Zenon DEF Noise
<1>2. u.kind = "noise" BY DEF Unit
<1> HIDE DEF u
<1>3. /\ Len(Pieces(u)) = 2 /\ ~(Len(Pieces(u)) < 2)
      /\ Pieces(u)[1].unit = u /\ Pieces(u)[2].unit = u
  <2>1. ~(2 < 2) OBVIOUS
  <2>. QED BY <2>1, PiecesAre, Zenon
<1>4. u.kind \in {"noise", "request"} BY <1>2
<1>5. "checksum" # "ok" OBVIOUS
<1> DEFINE x == Pieces(u)
<1> HIDE DEF x
<1>6. Attempt(p, x) = "checksum"
  <2>1. ~(Len(x) < 2) /\ x[1].unit.kind \in {"noise", "request"} BY <1>3, <1>4, Zenon DEF x
  <2>. QED BY <2>1 DEF Attempt
<1>. QED BY <1>1, <1>5, <1>6, Zenon DEF x

LEMMA CutFails ==
    ASSUME NEW p, p.to # Broadcast, NEW u
    PROVE  /\ Attempt(p, SubSeq(Pieces(u), 1, 1)) # "ok"
           /\ <<>> \o SubSeq(Pieces(u), 1, 1) = SubSeq(Pieces(u), 1, 1)
<1> DEFINE s == SubSeq(Pieces(u), 1, 1)
           T == {[unit |-> u, part |-> 1], [unit |-> u, part |-> 2]}
<1>1. s \in Seq(T) /\ Len(s) = 1
  <2> DEFINE a == Pieces(u)
  <2>1. a \in Seq(T) /\ Len(a) = 2 BY PiecesAre
  <2> HIDE DEF T, a
  <2>2. SubSeq(a, 1, 1) \in Seq(T) /\ Len(SubSeq(a, 1, 1)) = 1 BY <2>1
  <2>. QED BY <2>2 DEF a
<1> HIDE DEF s, T
<1>2. Attempt(p, s) # "ok"
  <2>1. Len(s) < 2 /\ "timeout" # "ok" BY <1>1
  <2>. QED BY <2>1, Zenon DEF Attempt
<1>3. <<>> \o s = s BY <1>1
<1>. QED BY <1>2, <1>3 DEF s

LEMMA TakenIs ==
    ASSUME NEW p, p.to # Broadcast, NEW u, Attempt(p, Pieces(u)) = "ok"
    PROVE  u.from = p.to /\ ((u.kind = "value") <=> (p.inst = "read"))
<1>1. /\ Len(Pieces(u)) = 2 /\ ~(Len(Pieces(u)) < 2)
      /\ Pieces(u)[1].unit = u /\ Pieces(u)[2].unit = u
  <2>1. ~(2 < 2) OBVIOUS
  <2>. QED BY <2>1, PiecesAre, Zenon
<1>2. "timeout" # "ok" /\ "checksum" # "ok" /\ "malformed" # "ok" /\ "wrong_id" # "ok"
  OBVIOUS
<1> DEFINE x == Pieces(u)
           v == x[1].unit
<1> HIDE DEF x
<1>3. ~((u.kind = "value") # (p.inst = "read")) /\ ~(u.from # p.to)
  <2>1. ~((v.kind = "value") # (p.inst = "read")) /\ ~(v.from # p.to)
    <3>1. Attempt(p, x) = "ok" BY DEF x
    <3>. QED BY <3>1 DEF Attempt
  <2>2. v = u BY <1>1, Zenon DEF x
  <2>. QED BY <2>1, <2>2, Zenon
<1>. QED BY <1>3, Zenon

LEMMA Answered ==
    ASSUME NEW fate \in Fates, Send(fate), PacketOf(call).to # Broadcast,
           DOMAIN bus = {"rate", "retries", "rx"},
           Attempt(PacketOf(call), bus'.rx) = "ok"
    PROVE  \E s \in Servos :
             /\ Hears(s, PacketOf(call))
             /\ bus'.rx = Pieces(Answer(servo[s], PacketOf(call)))
             /\ \A t \in Servos :
                  servo'[t] = IF Hears(t, PacketOf(call))
                                THEN Obeyed(servo[t], PacketOf(call)) ELSE servo[t]
<1> DEFINE p == PacketOf(call)
           heard == IF fate = "unheard" THEN {} ELSE {s \in Servos : Hears(s, p)}
           all == Answers(p, heard)
           now == CASE fate = "prompt"  -> all
                    [] fate = "garbled" -> Noise(p)
                    [] fate = "cut"     -> SubSeq(all, 1, 1)
                    [] OTHER            -> <<>>
<1>1. /\ bus' = [bus EXCEPT !.rx = AfterWrite(p) \o now]
      /\ servo' = [s \in Servos |-> IF s \in heard THEN Obeyed(servo[s], p) ELSE servo[s]]
      /\ fate = "cut" => all # <<>>
  BY Zenon DEF Send
<1>0. p.to # Broadcast OBVIOUS
<1> HIDE DEF p
<1>2. bus'.rx = <<>> \o now
  <2>1. bus' = [bus EXCEPT !.rx = <<>> \o now] BY <1>1, NothingLeft, Zenon
  <2> HIDE DEF now
  <2>. QED BY <2>1
<1>3. <<>> \o <<>> = <<>> OBVIOUS
<1>4. \/ all = <<>> \/ all = Noise(p)
      \/ \E s \in heard : all = Pieces(Answer(servo[s], p))
  <2>1. CASE heard = {} \/ p.to = Broadcast
    <3> HIDE DEF heard
    <3>. QED BY <2>1, Zenon DEF Answers
  <2>2. CASE ~(heard = {} \/ p.to = Broadcast)
    <3> DEFINE s == CHOOSE t \in heard : TRUE
    <3> HIDE DEF heard
    <3>1. s \in heard BY <2>2, Zenon
    <3>2. CASE Cardinality(heard) > 1
      BY <2>2, <3>2, Zenon DEF Answers
    <3>3. CASE ~(Cardinality(heard) > 1)
      <4>1. all = Pieces(Answer(servo[s], p)) BY <2>2, <3>3, Zenon DEF Answers
      <4>. QED BY <3>1, <4>1, Zenon
    <3>. QED BY <3>2, <3>3
  <2>. QED BY <2>1, <2>2
<1>5. fate = "prompt" /\ \E s \in heard : all = Pieces(Answer(servo[s], p))
  <2>1. CASE fate = "prompt"
    <3>1. now = all BY <2>1, Zenon
    <3>2. all # <<>>
      <4> SUFFICES ASSUME all = <<>> PROVE FALSE OBVIOUS
      <4>1. bus'.rx = <<>> BY <1>2, <1>3, <3>1, Zenon
      <4>. QED BY <1>0, <4>1, EmptyFails, Zenon DEF p
    <3>3. all # Noise(p)
      <4> SUFFICES ASSUME all = Noise(p) PROVE FALSE OBVIOUS
      <4>1. bus'.rx = Noise(p) BY <1>2, <3>1, PiecesAre, Zenon DEF Noise
      <4>. QED BY <1>0, <4>1, NoiseFails, Zenon DEF p
    <3>. QED BY <1>4, <2>1, <3>2, <3>3, Zenon
  <2>2. CASE fate = "garbled"
    <3>1. now = Noise(p)
      <4>1. "garbled" # "prompt" OBVIOUS
      <4>. QED BY <2>2, <4>1, Zenon
    <3>2. bus'.rx = Noise(p) BY <1>2, <3>1, PiecesAre, Zenon DEF Noise
    <3>. QED BY <1>0, <3>2, NoiseFails, Zenon DEF p
  <2>3. CASE fate = "cut"
    <3>1. now = SubSeq(all, 1, 1)
      <4>1. "cut" # "prompt" /\ "cut" # "garbled" OBVIOUS
      <4>. QED BY <2>3, <4>1, Zenon
    <3>2. \E u : all = Pieces(u) BY <1>1, <1>4, <2>3, Zenon DEF Noise
    <3>3. PICK u : all = Pieces(u) BY <3>2
    <3>4. bus'.rx = SubSeq(Pieces(u), 1, 1) BY <1>0, <1>2, <3>1, <3>3, CutFails, Zenon
    <3>. QED BY <1>0, <3>4, CutFails, Zenon DEF p
  <2>4. CASE fate # "prompt" /\ fate # "garbled" /\ fate # "cut"
    <3>1. now = <<>> BY <2>4, Zenon
    <3>2. bus'.rx = <<>> BY <1>2, <1>3, <3>1, Zenon
    <3>. QED BY <1>0, <3>2, EmptyFails, Zenon DEF p
  <2>. QED BY <2>1, <2>2, <2>3, <2>4
<1>6. heard = {s \in Servos : Hears(s, p)}
  <2>1. fate # "unheard"
    <3>1. "prompt" # "unheard" OBVIOUS
    <3>. QED BY <1>5, <3>1, Zenon
  <2>. QED BY <2>1, Zenon
<1>7. PICK s \in heard : all = Pieces(Answer(servo[s], p)) BY <1>5
<1>8. s \in Servos /\ Hears(s, p) BY <1>6, Zenon
<1>9. bus'.rx = Pieces(Answer(servo[s], p))
  <2>1. now = all BY <1>5, Zenon
  <2>. QED BY <1>2, <1>7, <2>1, PiecesAre, Zenon
<1>10. ASSUME NEW t \in Servos
       PROVE  servo'[t] = IF Hears(t, p) THEN Obeyed(servo[t], p) ELSE servo[t]
  BY <1>1, <1>6, Zenon
<1>. QED BY <1>8, <1>9, <1>10, Zenon DEF p
-----------------------------------------------------------------------------
(* Registers, calls and packets *)

\* A record is what its fields say, and has no others.
IsRegister(r) ==
    /\ r = [id |-> r.id, rate |-> r.rate, mode |-> r.mode, goal |-> r.goal,
            locked |-> r.locked, awake |-> r.awake]
    /\ r.locked \in BOOLEAN /\ r.awake \in BOOLEAN

IsBus(b) == b \in [rate : {b.rate}, retries : {b.retries}, rx : {b.rx}]

IsCall(c) ==
    c \in [op : {c.op}, id : {c.id}, arg : {c.arg}, step : {c.step}, sent : BOOLEAN,
           tries : {c.tries}, result : {c.result}, rate : {c.rate}, found : {c.found},
           there : {c.there}]

\* The fields that a call keeps from step to step.
SameCall(c, d) ==
    /\ IsCall(d) /\ d.op = c.op /\ d.id = c.id /\ d.arg = c.arg /\ d.rate = c.rate
    /\ d.there = c.there

LEMMA CallSent ==
    ASSUME NEW c, IsCall(c)
    PROVE  LET d == [c EXCEPT !.sent = TRUE]
           IN  SameCall(c, d) /\ d.step = c.step /\ d.result = c.result /\ d.found = c.found
               /\ d.sent = TRUE /\ d.tries = c.tries
BY DEF IsCall, SameCall

LEMMA CallRetried ==
    ASSUME NEW c, IsCall(c), NEW tries
    PROVE  LET d == [c EXCEPT !.tries = tries, !.sent = FALSE]
           IN  SameCall(c, d) /\ d.step = c.step /\ d.result = c.result /\ d.found = c.found
               /\ d.sent = FALSE
BY DEF IsCall, SameCall

LEMMA CallFails ==
    ASSUME NEW c, IsCall(c), NEW result
    PROVE  LET d == [c EXCEPT !.result = result]
           IN  SameCall(c, d) /\ d.step = c.step /\ d.result = result /\ d.found = c.found
BY DEF IsCall, SameCall

LEMMA CallFinds ==
    ASSUME NEW c, IsCall(c), NEW found, NEW id
    PROVE  LET d == [c EXCEPT !.found = found]
               e == [d EXCEPT !.id = id]
           IN  /\ SameCall(c, d) /\ d.found = found
               /\ IsCall(e) /\ e.op = c.op /\ e.id = id /\ e.rate = c.rate /\ e.found = found
BY DEF IsCall, SameCall

LEMMA IdleIs == IsCall(Idle) /\ Idle.op = "idle" /\ Idle.sent = FALSE
BY DEF IsCall, Idle

LEMMA BusFields ==
    ASSUME NEW b, IsBus(b), NEW rx, NEW rate, NEW retries
    PROVE  /\ LET d == [b EXCEPT !.rx = rx]
              IN  IsBus(d) /\ d.rate = b.rate /\ d.rx = rx /\ d.retries = b.retries
           /\ LET d == [b EXCEPT !.retries = retries]
              IN  IsBus(d) /\ d.rate = b.rate /\ d.rx = b.rx /\ d.retries = retries
           /\ LET d == [b EXCEPT !.rate = rate, !.rx = rx]
              IN  IsBus(d) /\ d.rate = rate /\ d.rx = rx /\ d.retries = b.retries
           /\ DOMAIN b = {"rate", "retries", "rx"}
<1>1. LET d == [b EXCEPT !.rx = rx]
      IN  IsBus(d) /\ d.rate = b.rate /\ d.rx = rx /\ d.retries = b.retries
  BY DEF IsBus
<1>2. LET d == [b EXCEPT !.retries = retries]
      IN  IsBus(d) /\ d.rate = b.rate /\ d.rx = b.rx /\ d.retries = retries
  BY DEF IsBus
<1>3. LET d == [b EXCEPT !.rate = rate, !.rx = rx]
      IN  IsBus(d) /\ d.rate = rate /\ d.rx = rx /\ d.retries = b.retries
  BY DEF IsBus
<1>4. DOMAIN b = {"rate", "retries", "rx"} BY DEF IsBus
<1>. QED BY <1>1, <1>2, <1>3, <1>4, Zenon

LEMMA PacketIs ==
    ASSUME NEW c
    PROVE  /\ c.step \in {"ping", "probe"} => PacketOf(c) = Packet(c.id, "ping", "none", 0)
           /\ c.step = "poll" => PacketOf(c) = Packet(DefaultId, "ping", "none", 0)
           /\ c.step = "read" => PacketOf(c) = Packet(c.id, "read", "goal", 0)
           /\ c.step = "goal" => PacketOf(c) = Packet(c.id, "write", "goal", c.arg)
           /\ c.step = "unlock" => PacketOf(c) = Packet(c.id, "write", "locked", FALSE)
           /\ c.step \in {"relock", "relock_old"} =>
                PacketOf(c) = Packet(c.id, "write", "locked", TRUE)
           /\ c.step = "relock_new" => PacketOf(c) = Packet(c.arg, "write", "locked", TRUE)
           /\ c.step = "id" => PacketOf(c) = Packet(c.id, "write", "id", c.arg)
           /\ c.step = "rate" => PacketOf(c) = Packet(c.id, "write", "rate", c.arg)
           /\ c.step = "mode" => PacketOf(c) = Packet(c.id, "write", "mode", c.arg)
           /\ c.step = "reset" => PacketOf(c) = Packet(c.id, "reset", "none", 0)
<1>1. CASE c.step \in {"ping", "probe", "poll", "read"} BY <1>1 DEF PacketOf
<1>2. CASE c.step = "goal" BY <1>2 DEF PacketOf
<1>3. CASE c.step \in {"unlock", "relock", "relock_old", "relock_new"} BY <1>3 DEF PacketOf
<1>4. CASE c.step \in {"id", "rate", "mode"} BY <1>4 DEF PacketOf
<1>5. CASE c.step = "reset" BY <1>5 DEF PacketOf
<1>6. CASE c.step \notin {"ping", "probe", "poll", "read", "goal", "unlock", "relock",
                         "relock_old", "relock_new", "id", "rate", "mode", "reset"}
  BY <1>6
<1>. QED BY <1>1, <1>2, <1>3, <1>4, <1>5, <1>6

StepsNamed == {"ping", "probe", "poll", "read", "goal", "unlock", "relock", "relock_old",
               "relock_new", "id", "rate", "mode", "reset"}

\* Whom the packet of a step is for.
LEMMA Targets ==
    ASSUME NEW c, c.step \in StepsNamed
    PROVE  PacketOf(c).to = IF c.step = "poll" THEN DefaultId
                            ELSE IF c.step = "relock_new" THEN c.arg ELSE c.id
<1>1. CASE c.step = "ping" BY <1>1 DEF PacketOf, Packet
<1>2. CASE c.step = "probe" BY <1>2 DEF PacketOf, Packet
<1>3. CASE c.step = "poll" BY <1>3 DEF PacketOf, Packet
<1>4. CASE c.step = "read" BY <1>4 DEF PacketOf, Packet
<1>5. CASE c.step = "goal" BY <1>5 DEF PacketOf, Packet
<1>6. CASE c.step = "unlock" BY <1>6 DEF PacketOf, Packet
<1>7. CASE c.step = "relock" BY <1>7 DEF PacketOf, Packet
<1>8. CASE c.step = "relock_old" BY <1>8 DEF PacketOf, Packet
<1>9. CASE c.step = "relock_new" BY <1>9 DEF PacketOf, Packet
<1>10. CASE c.step = "id" BY <1>10 DEF PacketOf, Packet
<1>11. CASE c.step = "rate" BY <1>11 DEF PacketOf, Packet
<1>12. CASE c.step = "mode" BY <1>12 DEF PacketOf, Packet
<1>13. CASE c.step = "reset" BY <1>13 DEF PacketOf, Packet
<1>. QED
  BY <1>1, <1>2, <1>3, <1>4, <1>5, <1>6, <1>7, <1>8, <1>9, <1>10, <1>11, <1>12, <1>13 DEF StepsNamed

\* What a servo becomes that hears a packet.
HeardWhole(r, q, c) ==
    /\ IsRegister(q)
    /\ c.step \notin {"id", "rate", "reset"} => q.id = r.id /\ q.rate = r.rate /\ q.awake = r.awake
    /\ c.step \in {"ping", "probe", "poll", "read"} => q = r
    /\ c.step = "goal" => q.goal = c.arg
    /\ c.step = "unlock" /\ Locks => q.locked = FALSE
    /\ c.step \in {"relock", "relock_new"} /\ Locks => q.locked = TRUE
    /\ c.step = "relock" => q.mode = r.mode
    /\ c.step = "mode" => q.locked = r.locked /\ (r.locked = FALSE => q.mode = c.arg)
    /\ c.step = "id" /\ r.locked = FALSE => q.id = c.arg /\ q.rate = r.rate
    /\ ~Locks /\ r.locked = FALSE => q.locked = FALSE
    /\ c.step = "reset" => FactorySet(q)

LEMMA HeardIs ==
    ASSUME NEW r, IsRegister(r), NEW c, c.step \in StepsNamed, family \in {"feetech", "ax12"}
    PROVE  HeardWhole(r, Obeyed(r, PacketOf(c)), c)
<1> DEFINE q == Obeyed(r, PacketOf(c))
           p == PacketOf(c)
<1>1. CASE c.step \in {"ping", "probe", "poll", "read"}
  <2>1. p.inst \in {"ping", "read"}
    <3>1. CASE c.step \in {"ping", "probe"} BY <3>1 DEF PacketOf, Packet
    <3>2. CASE c.step = "poll" BY <3>2 DEF PacketOf, Packet
    <3>3. CASE c.step = "read" BY <3>3 DEF PacketOf, Packet
    <3>. QED BY <1>1, <3>1, <3>2, <3>3
  <2> HIDE DEF p
  <2>2. Obeyed(r, p) = r BY <2>1 DEF Obeyed
  <2>. QED BY <1>1, <2>2 DEF HeardWhole, p
<1>2. CASE c.step = "goal"
  <2>1. p = Packet(c.id, "write", "goal", c.arg) BY <1>2, PacketIs
  <2> HIDE DEF p
  <2>2. LET o == Obeyed(r, p)
        IN  IsRegister(o) /\ o.id = r.id /\ o.rate = r.rate /\ o.awake = r.awake
            /\ o.goal = c.arg /\ o.locked = r.locked
    BY <2>1 DEF IsRegister, Obeyed, Eeprom, Packet
  <2>. QED BY <1>2, <2>2 DEF HeardWhole, p
<1>3. CASE c.step \in {"unlock", "relock", "relock_old", "relock_new"}
  <2>1. \E to, value : /\ p = Packet(to, "write", "locked", value) /\ value \in BOOLEAN
                       /\ c.step = "unlock" <=> value = FALSE
    BY <1>3, PacketIs
  <2>2. PICK to, value : /\ p = Packet(to, "write", "locked", value) /\ value \in BOOLEAN
                         /\ c.step = "unlock" <=> value = FALSE
    BY <2>1
  <2> HIDE DEF p
  <2>3. LET o == Obeyed(r, p)
        IN  IsRegister(o) /\ o.id = r.id /\ o.rate = r.rate /\ o.awake = r.awake
            /\ o.mode = r.mode /\ (family = "feetech" => o.locked = value)
            /\ (family = "ax12" => o.locked = r.locked)
    BY <2>2 DEF IsRegister, Obeyed, Eeprom, Packet
  <2> DEFINE o == Obeyed(r, p)
  <2> HIDE DEF o
  <2>4. /\ IsRegister(o) /\ o.id = r.id /\ o.rate = r.rate /\ o.awake = r.awake
        /\ o.mode = r.mode /\ (family = "feetech" => o.locked = value)
        /\ (family = "ax12" => o.locked = r.locked)
    BY <2>3 DEF o
  <2>5. HeardWhole(r, o, c) BY <1>3, <2>2, <2>4 DEF HeardWhole, Locks
  <2>. QED BY <2>5 DEF o, p
<1>4. CASE c.step \in {"id", "rate", "mode"}
  <2> DEFINE reg == c.step
  <2>1. p = Packet(c.id, "write", reg, c.arg) BY <1>4, PacketIs
  <2> HIDE DEF p
  <2>2. LET o == Obeyed(r, p)
        IN  IsRegister(o) /\ o.locked = r.locked
            /\ (r.locked = FALSE /\ reg = "id" => o.id = c.arg /\ o.rate = r.rate)
            /\ (r.locked = FALSE /\ reg = "mode" => o.mode = c.arg)
            /\ (reg = "mode" => o.id = r.id /\ o.rate = r.rate /\ o.awake = r.awake)
    <3>1. CASE c.step = "id" BY <2>1, <3>1 DEF IsRegister, Obeyed, Eeprom, Packet
    <3>2. CASE c.step = "rate" BY <2>1, <3>2 DEF IsRegister, Obeyed, Eeprom, Packet
    <3>3. CASE c.step = "mode" BY <2>1, <3>3 DEF IsRegister, Obeyed, Eeprom, Packet
    <3>. QED BY <1>4, <3>1, <3>2, <3>3
  <2> DEFINE o == Obeyed(r, p)
  <2> HIDE DEF o
  <2>3. /\ IsRegister(o) /\ o.locked = r.locked
        /\ (r.locked = FALSE /\ reg = "id" => o.id = c.arg /\ o.rate = r.rate)
        /\ (r.locked = FALSE /\ reg = "mode" => o.mode = c.arg)
        /\ (reg = "mode" => o.id = r.id /\ o.rate = r.rate /\ o.awake = r.awake)
    BY <2>2 DEF o
  <2>4. HeardWhole(r, o, c) BY <1>4, <2>3 DEF HeardWhole
  <2>. QED BY <2>4 DEF o, p
<1>5. CASE c.step = "reset"
  <2>1. p = Packet(c.id, "reset", "none", 0) BY <1>5, PacketIs
  <2> HIDE DEF p
  <2>2. /\ IsRegister(Obeyed(r, p)) /\ (~Locks => Obeyed(r, p).locked = FALSE)
        /\ FactorySet(Obeyed(r, p))
    BY <2>1 DEF IsRegister, Obeyed, Packet, Locks, FactorySet
  <2>. QED BY <1>5, <2>2 DEF HeardWhole, p
<1>. QED BY <1>1, <1>2, <1>3, <1>4, <1>5 DEF StepsNamed
-----------------------------------------------------------------------------
(* The invariant: what a call that is under way has reached so far *)

Listens(s, id, rate) ==
    s \in Servos /\ servo[s].awake = TRUE /\ servo[s].rate = rate /\ servo[s].id = id

Found(id, rate) == \E s \in Servos : servo[s].id = id /\ servo[s].rate = rate

StepFits(op, step) ==
    \/ op = "ping" /\ step = "ping"
    \/ op = "read" /\ step = "read"
    \/ op = "write" /\ step = "goal"
    \/ op = "scan" /\ step = "probe"
    \/ op = "set_id" /\ step \in {"unlock", "id", "relock_new", "relock_old"}
    \/ op = "set_rate" /\ step \in {"unlock", "rate", "ping", "relock", "relock_old"}
    \/ op = "set_mode" /\ step \in {"unlock", "mode", "relock", "relock_old"}
    \/ op = "reset" /\ step \in {"unlock", "reset", "poll", "relock_old"}

AtNewRate(c, step) == c.op = "set_rate" /\ step \in {"ping", "relock"}

\* Before a reset is sent nobody has come to the factory settings; whoever has
\* come to them since was reset.
ResetSoFar(c, step, rate) ==
    c.op = "reset" =>
        /\ step = "unlock" => \A s \in AtFactory : s \in c.there
        /\ step \in {"reset", "poll"} =>
             \A s \in AtFactory : s \in c.there \/ FactorySet(servo[s])
        /\ step = "poll" => rate = DefaultRate

\* A servo that was unlocked listens still when its mode is written, and one
\* whose mode was written when it is locked again.
Underway(c, step, rate) ==
    /\ StepFits(c.op, step)
    /\ step \in {"unlock", "relock", "relock_new", "relock_old"} => Locks
    /\ c.op = "scan" => c.id # Broadcast
    /\ c.op = "set_id" => c.arg # Broadcast
    /\ step = "relock_old" => c.result # "ok"
    /\ AtNewRate(c, step) => rate = c.arg
    /\ ~AtNewRate(c, step) /\ step # "poll" => rate = c.rate
    /\ c.op = "scan" => \A id \in c.found : Found(id, rate)
    /\ c.id # Broadcast /\ Locks /\ step = "mode" =>
         \E s \in Servos : Listens(s, c.id, rate) /\ servo[s].locked = FALSE
    /\ c.id # Broadcast /\ step = "relock" /\ c.op = "set_mode" =>
         \E s \in Servos : Listens(s, c.id, rate) /\ servo[s].mode = c.arg
    /\ c.id # Broadcast /\ step = "relock" /\ c.op = "set_rate" =>
         \E s \in Servos : Listens(s, c.id, rate)
    /\ ResetSoFar(c, step, rate)

\* What an answer that is taken shows of the servo that gave it.
Acked(c, rx, rate) ==
    /\ c.step \in {"ping", "probe"} => \E s \in Servos : Listens(s, c.id, rate)
    /\ c.step = "poll" => \E s \in Servos : Listens(s, DefaultId, rate)
    /\ c.step = "read" =>
         \E s \in Servos : Listens(s, c.id, rate) /\ servo[s].goal = rx[1].unit.value
    /\ c.step = "goal" => \E s \in Servos : Listens(s, c.id, rate) /\ servo[s].goal = c.arg
    /\ c.step = "unlock" =>
         \E s \in Servos : Listens(s, c.id, rate) /\ servo[s].locked = FALSE
    /\ c.step = "mode" => \E s \in Servos : Listens(s, c.id, rate) /\ servo[s].mode = c.arg
    /\ c.step = "relock" =>
         \E s \in Servos : /\ Listens(s, c.id, rate) /\ servo[s].locked = TRUE
                           /\ c.op = "set_mode" => servo[s].mode = c.arg
    /\ c.step = "relock_new" =>
         \E s \in Servos : Listens(s, c.arg, rate) /\ servo[s].locked = TRUE
    /\ c.step = "id" /\ ~Locks => Found(c.arg, rate)

ServoType ==
    /\ family \in {"feetech", "ax12"}
    /\ DOMAIN servo = Servos /\ servo = [s \in Servos |-> servo[s]]
    /\ \A s \in Servos : IsRegister(servo[s]) /\ (~Locks => servo[s].locked = FALSE)
    /\ IsBus(bus) /\ IsCall(call)

CallSound ==
    /\ call.op = "idle" => call = Idle /\ ServoCallsHold
    /\ call.op # "idle" => Underway(call, call.step, bus.rate)
    /\ call.op # "idle" /\ call.sent = TRUE /\ PacketOf(call).to # Broadcast
         /\ Outcome = "ok" => Acked(call, bus.rx, bus.rate)

ServoInv == ServoType /\ CallSound

LEMMA FitsNamed ==
    ASSUME NEW op, NEW step, StepFits(op, step)
    PROVE  op # "idle" /\ step \in StepsNamed /\ step # "none"
BY DEF StepFits, StepsNamed

LEMMA TypeStays ==
    ASSUME ServoType, UNCHANGED <<family, servo>>, IsBus(bus'), IsCall(call')
    PROVE  ServoType'
<1>1. family' = family /\ servo' = servo OBVIOUS
<1>2. Locks' <=> Locks BY <1>1, Zenon DEF Locks
<1>. QED BY <1>1, <1>2, Zenon DEF ServoType, IsBus, IsCall

\* A call goes on with its next step.
LEMMA ServoStartKeeps ==
    ASSUME ServoType, NEW c, IsCall(c), NEW step, NEW b, IsBus(b), StartAt(c, step, b),
           Underway(c, step, b.rate)
    PROVE  ServoInv'
<1> DEFINE d == [c EXCEPT !.step = step, !.sent = FALSE, !.tries = 0]
           e == [b EXCEPT !.retries = TriesOf(step)]
<1>1. call' = d /\ bus' = e /\ family' = family /\ servo' = servo BY Zenon DEF StartAt
<1>2. /\ IsCall(d) /\ d.op = c.op /\ d.id = c.id /\ d.arg = c.arg /\ d.rate = c.rate
      /\ d.step = step /\ d.result = c.result /\ d.found = c.found /\ d.sent = FALSE
      /\ d.there = c.there
  BY DEF IsCall
<1>3. IsBus(e) /\ e.rate = b.rate BY BusFields, Zenon
<1> HIDE DEF d, e
<1>4. IsBus(bus') /\ IsCall(call') BY <1>1, <1>2, <1>3, Zenon
<1>5. ServoType' BY <1>1, <1>4, TypeStays
<1>6. Locks' <=> Locks BY <1>1, Zenon DEF Locks
<1>7. StepFits(c.op, step) BY DEF Underway
<1>8. c.op # "idle" BY <1>7, FitsNamed
<1>9. Underway(d, step, e.rate)
  BY <1>2, <1>3, Zenon DEF Underway, AtNewRate, ResetSoFar
<1>10. Underway(call, call.step, bus.rate)'
  <2>1. ResetSoFar(call, call.step, bus.rate)'
    BY <1>1, <1>2, <1>6, <1>9, Zenon DEF Underway, ResetSoFar, AtFactory, FactorySet
  <2>. QED BY <1>1, <1>2, <1>6, <1>9, <2>1, Zenon DEF Underway, AtNewRate, Listens, Found
<1>11. TRUE # FALSE OBVIOUS
<1>12. call'.op # "idle" /\ call'.sent # TRUE BY <1>1, <1>2, <1>8, <1>11, Zenon
<1>13. CallSound' BY <1>10, <1>12, Zenon DEF CallSound
<1>. QED BY <1>5, <1>13, Zenon DEF ServoInv

\* What OkIsHonest asks of a call that returns ok.
Honest(c, value, rate) ==
    CASE c.op = "scan" -> \A id \in c.found : Found(id, rate)
      [] c.op = "reset" ->
           /\ Found(DefaultId, rate) /\ rate = DefaultRate
           /\ \A s \in AtFactory : s \in c.there \/ FactorySet(servo[s])
      [] OTHER ->
           \E s \in Servos :
             /\ servo[s].id = (IF c.op = "set_id" THEN c.arg ELSE c.id)
             /\ servo[s].rate = rate
             /\ c.op = "read" => servo[s].goal = value
             /\ c.op = "write" => servo[s].goal = c.arg
             /\ c.op = "set_mode" => servo[s].mode = c.arg
             /\ c.op = "set_rate" => rate = c.arg
             /\ c.op \in {"set_id", "set_rate", "set_mode"} /\ Locks => servo[s].locked = TRUE

LEMMA ReturnKeeps ==
    ASSUME ServoType, NEW c, NEW result, NEW value, NEW b, IsBus(b),
           Return(c, result, value, b),
           result = "ok" /\ c.id # Broadcast => Honest(c, value, b.rate),
           b.rate # c.rate /\ c.id # Broadcast =>
             Found(IF c.op = "reset" THEN DefaultId ELSE c.id, b.rate)
    PROVE  ServoInv'
<1> DEFINE e == [b EXCEPT !.retries = Retries]
           l == [op |-> c.op, id |-> c.id, arg |-> c.arg, result |-> result,
                 value |-> value, rate |-> c.rate, found |-> c.found, there |-> c.there]
<1>1. /\ call' = Idle /\ bus' = e /\ last' = l /\ family' = family /\ servo' = servo
  BY Zenon DEF Return
<1>2. IsBus(e) /\ e.rate = b.rate /\ e.retries = Retries BY BusFields, Zenon
<1>3. /\ l.op = c.op /\ l.id = c.id /\ l.arg = c.arg /\ l.result = result
      /\ l.value = value /\ l.rate = c.rate /\ l.found = c.found /\ l.there = c.there
  OBVIOUS
<1> HIDE DEF e, l
<1>4. ServoType' BY <1>1, <1>2, IdleIs, TypeStays
<1>5. Locks' <=> Locks BY <1>1, Zenon DEF Locks
<1>6. call'.op = "idle" BY <1>1, IdleIs, Zenon
<1>7. \A id : Found(id, b.rate) => Reached(id)' # {}
  <2> SUFFICES ASSUME NEW id, Found(id, b.rate) PROVE Reached(id)' # {} OBVIOUS
  <2>1. PICK s \in Servos : servo[s].id = id /\ servo[s].rate = b.rate BY DEF Found
  <2>2. s \in Reached(id)' BY <1>1, <1>2, <2>1, Zenon DEF Reached
  <2>. QED BY <2>2, Zenon
<1>8. OkIsHonest'
  <2> SUFFICES ASSUME last'.result = "ok", last'.id # Broadcast
               PROVE  (CASE last.op = "scan" -> \A id \in last.found : Reached(id) # {}
                         [] last.op = "reset" ->
                              /\ Reached(DefaultId) # {}
                              /\ \A s \in Reached(DefaultId) \ last.there :
                                   FactorySet(servo[s])
                         [] OTHER ->
                              \E s \in Reached(IF last.op = "set_id" THEN last.arg ELSE last.id) :
                                /\ last.op = "read" => servo[s].goal = last.value
                                /\ last.op = "write" => servo[s].goal = last.arg
                                /\ last.op = "set_mode" => servo[s].mode = last.arg
                                /\ last.op = "set_rate" => bus.rate = last.arg
                                /\ last.op \in {"set_id", "set_rate", "set_mode"} /\ Locks =>
                                     servo[s].locked)'
    BY Zenon DEF OkIsHonest
  <2>1. Honest(c, value, b.rate) BY <1>1, <1>3, Zenon
  <2>2. CASE c.op = "scan"
    <3>1. \A id \in c.found : Found(id, b.rate) BY <2>1, <2>2, Zenon DEF Honest
    <3>. QED BY <1>1, <1>3, <1>7, <2>2, <3>1, Zenon
  <2>3. CASE c.op = "reset"
    <3>1. c.op # "scan" BY <2>3
    <3>2. /\ Found(DefaultId, b.rate) /\ b.rate = DefaultRate
          /\ \A s \in AtFactory : s \in c.there \/ FactorySet(servo[s])
      BY <2>1, <2>3, <3>1, Zenon DEF Honest
    <3>3. (Reached(DefaultId) # {})' BY <1>7, <3>2, Zenon DEF Reached
    <3>4. (\A s \in Reached(DefaultId) \ last.there : FactorySet(servo[s]))'
      <4> SUFFICES ASSUME NEW s \in Reached(DefaultId)', s \notin last'.there
                   PROVE  FactorySet(servo[s])'
        BY Zenon
      <4>1. s \in AtFactory BY <1>1, <1>2, <3>2, Zenon DEF Reached, AtFactory
      <4>2. FactorySet(servo[s]) BY <1>1, <1>3, <3>2, <4>1, Zenon
      <4>. QED BY <1>1, <1>5, <4>2, Zenon DEF FactorySet
    <3>. QED BY <1>1, <1>3, <2>3, <3>1, <3>3, <3>4, Zenon
  <2>4. CASE c.op # "scan" /\ c.op # "reset"
    <3>1. PICK s \in Servos :
             /\ servo[s].id = (IF c.op = "set_id" THEN c.arg ELSE c.id)
             /\ servo[s].rate = b.rate
             /\ c.op = "read" => servo[s].goal = value
             /\ c.op = "write" => servo[s].goal = c.arg
             /\ c.op = "set_mode" => servo[s].mode = c.arg
             /\ c.op = "set_rate" => b.rate = c.arg
             /\ c.op \in {"set_id", "set_rate", "set_mode"} /\ Locks => servo[s].locked = TRUE
      BY <2>1, <2>4, Zenon DEF Honest
    <3>2. s \in Reached(IF last.op = "set_id" THEN last.arg ELSE last.id)'
      BY <1>1, <1>2, <1>3, <3>1, Zenon DEF Reached
    <3>. QED BY <1>1, <1>2, <1>3, <1>5, <2>4, <3>1, <3>2, Zenon
  <2>. QED BY <2>2, <2>3, <2>4
<1>9. BusIsPutBack'
  BY <1>1, <1>2, <1>3, <1>7, Zenon DEF BusIsPutBack
<1>10. CallSound' BY <1>1, <1>6, <1>8, <1>9, Zenon DEF CallSound, ServoCallsHold
<1>. QED BY <1>4, <1>10, Zenon DEF ServoInv
-----------------------------------------------------------------------------
(* The ends of the steps *)

LEMMA CallTypes ==
    ASSUME ServoInv
    PROVE  /\ ServoType /\ IsBus(bus) /\ IsCall(call) /\ call.sent \in BOOLEAN
           /\ call.op = "idle" => call = Idle /\ ServoCallsHold
           /\ call.op # "idle" => Underway(call, call.step, bus.rate)
<1>1. IsCall(call) BY Zenon DEF ServoInv, ServoType
<1>2. call.sent \in BOOLEAN BY <1>1 DEF IsCall
<1>. QED BY <1>1, <1>2, Zenon DEF ServoInv, ServoType, CallSound

\* What a step that has come to its end leaves to the next.
LEMMA Concludes ==
    ASSUME ServoInv, Concluded, call.step # "none" \/ call.op # "idle"
    PROVE  /\ ServoType /\ IsCall(call) /\ Underway(call, call.step, bus.rate)
           /\ StepFits(call.op, call.step)
           /\ IsBus(Rest) /\ Rest.rate = bus.rate
           /\ \A rate : IsBus(AtRate(rate)) /\ AtRate(rate).rate = rate
           /\ Ok /\ PacketOf(call).to # Broadcast => Acked(call, bus.rx, bus.rate)
<1>1. /\ ServoType /\ IsBus(bus) /\ IsCall(call) /\ call.sent \in BOOLEAN
      /\ call.op = "idle" => call = Idle
      /\ call.op # "idle" => Underway(call, call.step, bus.rate)
  BY CallTypes, Zenon
<1>2. call.op # "idle"
  <2>1. Idle.step = "none" BY DEF Idle
  <2>. QED BY <1>1, <2>1, Zenon
<1>3. call.sent = TRUE
  <2>1. call.sent BY Zenon DEF Concluded
  <2>. QED BY <1>1, <2>1
<1>4. Underway(call, call.step, bus.rate) /\ StepFits(call.op, call.step)
  BY <1>1, <1>2, Zenon DEF Underway
<1>5. IsBus(Rest) /\ Rest.rate = bus.rate
  <2> DEFINE rx == IF Outcome = "ok" THEN SubSeq(bus.rx, 3, Len(bus.rx)) ELSE <<>>
  <2>1. Rest = [bus EXCEPT !.rx = rx] BY Zenon DEF Rest
  <2> HIDE DEF rx
  <2>. QED BY <1>1, <2>1, BusFields, Zenon
<1>6. \A rate : IsBus(AtRate(rate)) /\ AtRate(rate).rate = rate
  BY <1>1, BusFields, Zenon DEF AtRate
<1>7. Ok /\ PacketOf(call).to # Broadcast => Acked(call, bus.rx, bus.rate)
  BY <1>2, <1>3, Zenon DEF Ok, ServoInv, CallSound
<1>. QED BY <1>1, <1>4, <1>5, <1>6, <1>7, Zenon

LEMMA Addressed ==
    ASSUME NEW c, StepFits(c.op, c.step)
    PROVE  /\ c.step # "poll" /\ c.step # "relock_new" => PacketOf(c).to = c.id
           /\ c.step = "poll" => PacketOf(c).to = DefaultId
           /\ c.step = "relock_new" => PacketOf(c).to = c.arg
           /\ DefaultId # Broadcast
<1>1. c.step \in StepsNamed BY FitsNamed
<1>2. "relock_new" # "poll" OBVIOUS
<1>3. DefaultId # Broadcast BY ServoAssumption DEF Broadcast
<1>. QED BY <1>1, <1>2, <1>3, Targets, Zenon

LEMMA TransactionKeeps == ServoInv /\ TransactionDone => ServoInv'
<1> SUFFICES ASSUME ServoInv, TransactionDone PROVE ServoInv' OBVIOUS
<1> DEFINE value == IF Ok /\ call.op = "read" THEN bus.rx[1].unit.value ELSE 0
<1>1. call.op \in {"ping", "read", "write"} /\ Concluded /\ Return(call, Outcome, value, Rest)
  BY Zenon DEF TransactionDone
<1>0. call.op # "idle" BY <1>1
<1>2. /\ ServoType /\ IsCall(call) /\ Underway(call, call.step, bus.rate)
      /\ StepFits(call.op, call.step) /\ IsBus(Rest) /\ Rest.rate = bus.rate
      /\ Ok /\ PacketOf(call).to # Broadcast => Acked(call, bus.rx, bus.rate)
  BY <1>0, <1>1, Concludes, Zenon
<1>3. /\ call.op = "ping" => call.step = "ping"
      /\ call.op = "read" => call.step = "read"
      /\ call.op = "write" => call.step = "goal"
  BY <1>2 DEF StepFits
<1>4. call.step # "poll" /\ call.step # "relock_new" /\ call.op # "scan" /\ call.op # "reset"
      /\ call.op # "set_id" /\ call.op # "set_rate" /\ call.op # "set_mode"
  BY <1>1, <1>3
<1>5. PacketOf(call).to = call.id BY <1>2, <1>4, Addressed
<1>6. bus.rate = call.rate BY <1>2, <1>4, Zenon DEF Underway, AtNewRate
<1>7. ASSUME Outcome = "ok", call.id # Broadcast PROVE Honest(call, value, bus.rate)
  <2>1. Acked(call, bus.rx, bus.rate) BY <1>2, <1>5, <1>7, Zenon DEF Ok
  <2>2. call.op = "read" => value = bus.rx[1].unit.value BY <1>7, Zenon DEF Ok
  <2> HIDE DEF value
  <2>3. "ping" # "read" /\ "ping" # "write" /\ "read" # "write" OBVIOUS
  <2>4. \E s \in Servos : /\ Listens(s, call.id, bus.rate)
                          /\ call.op = "read" => servo[s].goal = value
                          /\ call.op = "write" => servo[s].goal = call.arg
    <3>1. CASE call.op = "ping" BY <1>3, <2>1, <2>3, <3>1, Zenon DEF Acked
    <3>2. CASE call.op = "read" BY <1>3, <2>1, <2>2, <2>3, <3>2, Zenon DEF Acked
    <3>3. CASE call.op = "write" BY <1>3, <2>1, <2>3, <3>3, Zenon DEF Acked
    <3>. QED BY <1>1, <3>1, <3>2, <3>3, Zenon
  <2>. QED BY <1>4, <2>4, Zenon DEF Honest, Listens
<1> HIDE DEF value
<1>. QED BY <1>1, <1>2, <1>6, <1>7, ReturnKeeps, Zenon

LEMMA UnlockKeeps == ServoInv /\ UnlockDone => ServoInv'
<1> SUFFICES ASSUME ServoInv, UnlockDone PROVE ServoInv' OBVIOUS
<1> DEFINE step == CASE call.op = "set_id" -> "id" [] call.op = "set_rate" -> "rate"
                     [] call.op = "set_mode" -> "mode" [] OTHER -> "reset"
<1>1. /\ call.step = "unlock" /\ Concluded
      /\ Ok => StartAt(call, step, Rest)
      /\ ~Ok => Return(call, Outcome, 0, Rest)
  BY Zenon DEF UnlockDone
<1>0. call.step # "none" BY <1>1
<1>2. /\ ServoType /\ IsCall(call) /\ Underway(call, call.step, bus.rate)
      /\ StepFits(call.op, call.step) /\ IsBus(Rest) /\ Rest.rate = bus.rate
      /\ Ok /\ PacketOf(call).to # Broadcast => Acked(call, bus.rx, bus.rate)
  BY <1>0, <1>1, Concludes, Zenon
<1>3. "unlock" # "poll" /\ "unlock" # "relock_new" /\ "unlock" # "ping" /\ "unlock" # "relock"
  OBVIOUS
<1>4. call.op \in {"set_id", "set_rate", "set_mode", "reset"} BY <1>1, <1>2 DEF StepFits
<1>5. bus.rate = call.rate BY <1>1, <1>2, <1>3, Zenon DEF Underway, AtNewRate
<1>6. CASE ~Ok
  <2>1. Outcome # "ok" BY <1>6, Zenon DEF Ok
  <2>. QED BY <1>1, <1>2, <1>5, <1>6, <2>1, ReturnKeeps, Zenon
<1>7. CASE Ok
  <2>1. /\ call.op = "set_id" => step = "id"
        /\ call.op = "set_rate" => step = "rate"
        /\ call.op = "set_mode" => step = "mode"
        /\ call.op = "reset" => step = "reset"
    <3>1. "set_id" # "set_rate" /\ "set_id" # "set_mode" /\ "set_rate" # "set_mode"
          /\ "reset" # "set_id" /\ "reset" # "set_rate" /\ "reset" # "set_mode"
      OBVIOUS
    <3>. QED BY <3>1, Zenon
  <2> HIDE DEF step
  <2>2. StepFits(call.op, step)
        /\ step \notin {"unlock", "relock", "relock_new", "relock_old", "ping", "poll"}
    BY <1>4, <2>1 DEF StepFits
  <2>3. PacketOf(call).to = call.id BY <1>1, <1>2, <1>3, Addressed, Zenon
  <2>4. call.id # Broadcast /\ Locks /\ step = "mode" =>
          \E s \in Servos : Listens(s, call.id, bus.rate) /\ servo[s].locked = FALSE
    BY <1>1, <1>2, <1>7, <2>3, Zenon DEF Acked
  <2>5. call.op # "scan" BY <1>4
  <2>6. call.op = "set_id" => call.arg # Broadcast BY <1>2, Zenon DEF Underway
  <2>7. ~AtNewRate(call, step) /\ step # "relock" /\ step # "relock_old"
    BY <2>2 DEF AtNewRate
  <2>9. step # "unlock" /\ step # "poll" BY <2>2
  <2>10. ResetSoFar(call, step, bus.rate)
    BY <1>1, <1>2, <2>9, Zenon DEF Underway, ResetSoFar
  <2>8. Underway(call, step, bus.rate)
    BY <1>5, <2>2, <2>4, <2>5, <2>6, <2>7, <2>10, Zenon DEF Underway
  <2>. QED BY <1>1, <1>2, <1>7, <2>8, ServoStartKeeps, Zenon
<1>. QED BY <1>6, <1>7
LEMMA ProbeKeeps == ServoInv /\ ProbeDone => ServoInv'
<1> SUFFICES ASSUME ServoInv, ProbeDone PROVE ServoInv' OBVIOUS
<1> DEFINE found == IF Ok THEN call.found \cup {call.id} ELSE call.found
           c == [call EXCEPT !.found = found]
           d == [c EXCEPT !.id = call.id + 1]
<1>0. call.step = "probe" /\ Concluded BY Zenon DEF ProbeDone
<1>1. /\ ServoType /\ IsCall(call) /\ Underway(call, call.step, bus.rate)
      /\ StepFits(call.op, call.step) /\ IsBus(Rest) /\ Rest.rate = bus.rate
      /\ Ok /\ PacketOf(call).to # Broadcast => Acked(call, bus.rx, bus.rate)
  <2>1. call.step # "none" BY <1>0
  <2>. QED BY <1>0, <2>1, Concludes, Zenon
<1>2. call.op = "scan" BY <1>0, <1>1 DEF StepFits
<1>3. /\ SameCall(call, c) /\ c.found = found
      /\ IsCall(d) /\ d.op = call.op /\ d.id = call.id + 1 /\ d.rate = call.rate
      /\ d.found = found
  <2>1. SameCall(call, c) /\ c.found = found
    <3> HIDE DEF found
    <3>. QED BY <1>1 DEF IsCall, SameCall
  <2> HIDE DEF c
  <2>2. IsCall(c) /\ c.op = call.op /\ c.rate = call.rate BY <2>1, Zenon DEF SameCall
  <2>3. \A id : LET e == [c EXCEPT !.id = id]
               IN  IsCall(e) /\ e.op = c.op /\ e.id = id /\ e.rate = c.rate /\ e.found = c.found
    BY <2>2 DEF IsCall
  <2>. QED BY <2>1, <2>2, <2>3, Zenon
<1>4. /\ call.id + 1 \in Ids => StartAt(d, "probe", Rest)
      /\ call.id + 1 \notin Ids => Return(c, "ok", 0, Rest)
  <2>1. [call EXCEPT !.found = IF Ok THEN @ \cup {call.id} ELSE @] = c BY Zenon
  <2>2. c.id = call.id BY <1>3, Zenon DEF SameCall
  <2>3. [c EXCEPT !.id = @ + 1] = d BY <2>2, Zenon
  <2> HIDE DEF c, d
  <2>. QED BY <2>1, <2>3, Zenon DEF ProbeDone
<1>5. \A id \in found : Found(id, bus.rate)
  <2>1. \A id \in call.found : Found(id, bus.rate) BY <1>1, <1>2, Zenon DEF Underway
  <2>2. Ok => Found(call.id, bus.rate)
    <3>1. call.id # Broadcast BY <1>1, <1>2, Zenon DEF Underway
    <3>2. "probe" # "poll" /\ "probe" # "relock_new" OBVIOUS
    <3>3. PacketOf(call).to = call.id BY <1>0, <1>1, <3>2, Addressed, Zenon
    <3>4. Ok => \E s \in Servos : Listens(s, call.id, bus.rate)
      BY <1>0, <1>1, <3>1, <3>3, Zenon DEF Acked
    <3>. QED BY <3>4, Zenon DEF Found, Listens
  <2>. QED BY <2>1, <2>2, Zenon
<1> HIDE DEF found, c, d
<1>6. bus.rate = call.rate
  <2>1. ~AtNewRate(call, call.step) /\ call.step # "poll" BY <1>0, <1>2 DEF AtNewRate
  <2>. QED BY <1>1, <2>1, Zenon DEF Underway
<1>7. CASE call.id + 1 \in Ids
  <2>1. d.op = "scan" /\ StepFits(d.op, "probe") BY <1>2, <1>3 DEF StepFits
  <2>2. d.id # Broadcast
    <3>1. 0 \notin Ids BY ServoAssumption
    <3>. QED BY <1>3, <1>7, <3>1, Zenon DEF Broadcast
  <2>3. /\ "probe" \notin {"unlock", "relock", "relock_new", "relock_old"}
        /\ "probe" # "relock_old" /\ "probe" # "poll" /\ "probe" # "mode" /\ "probe" # "relock"
        /\ "scan" # "set_id" /\ "scan" # "reset" /\ ~AtNewRate(d, "probe")
    BY DEF AtNewRate
  <2>4. Underway(d, "probe", Rest.rate)
    BY <1>1, <1>3, <1>5, <1>6, <2>1, <2>2, <2>3, Zenon DEF Underway, ResetSoFar
  <2>. QED BY <1>1, <1>3, <1>4, <1>7, <2>4, ServoStartKeeps
<1>8. CASE call.id + 1 \notin Ids
  <2>1. c.op = "scan" /\ c.found = found /\ c.rate = call.rate
    BY <1>2, <1>3, Zenon DEF SameCall
  <2>2. Honest(c, 0, bus.rate) BY <1>5, <2>1, Zenon DEF Honest
  <2>. QED BY <1>1, <1>4, <1>6, <1>8, <2>1, <2>2, ReturnKeeps, Zenon
<1>. QED BY <1>7, <1>8

LEMMA IdKeeps == ServoInv /\ IdDone => ServoInv'
<1> SUFFICES ASSUME ServoInv, IdDone PROVE ServoInv' OBVIOUS
<1> DEFINE c == [call EXCEPT !.result = Outcome]
<1>0. /\ call.step = "id" /\ Concluded
      /\ ~Locks => Return(call, Outcome, 0, Rest)
      /\ Locks /\ Ok => StartAt(call, "relock_new", Rest)
      /\ Locks /\ ~Ok => StartAt(c, "relock_old", Rest)
  BY Zenon DEF IdDone
<1>1. /\ ServoType /\ IsCall(call) /\ Underway(call, call.step, bus.rate)
      /\ StepFits(call.op, call.step) /\ IsBus(Rest) /\ Rest.rate = bus.rate
      /\ Ok /\ PacketOf(call).to # Broadcast => Acked(call, bus.rx, bus.rate)
  <2>1. call.step # "none" BY <1>0
  <2>. QED BY <1>0, <2>1, Concludes, Zenon
<1>2. call.op = "set_id" BY <1>0, <1>1 DEF StepFits
<1>3. bus.rate = call.rate
  <2>1. ~AtNewRate(call, call.step) /\ call.step # "poll" BY <1>0, <1>2 DEF AtNewRate
  <2>. QED BY <1>1, <2>1, Zenon DEF Underway
<1>4. call.arg # Broadcast BY <1>1, <1>2, Zenon DEF Underway
<1>5. SameCall(call, c) /\ c.result = Outcome /\ c.found = call.found
  BY <1>1, CallFails, Zenon
<1> HIDE DEF c
<1>6. CASE ~Locks
  <2>1. ASSUME Outcome = "ok", call.id # Broadcast PROVE Honest(call, 0, bus.rate)
    <3>1. "id" # "poll" /\ "id" # "relock_new" OBVIOUS
    <3>2. PacketOf(call).to = call.id BY <1>0, <1>1, <3>1, Addressed, Zenon
    <3>3. Found(call.arg, bus.rate) BY <1>0, <1>1, <1>6, <2>1, <3>2, Zenon DEF Acked, Ok
    <3>4. /\ call.op # "scan" /\ call.op # "reset" /\ call.op # "read" /\ call.op # "write"
          /\ call.op # "set_mode" /\ call.op # "set_rate"
      BY <1>2
    <3>. QED BY <1>2, <1>6, <3>3, <3>4, Zenon DEF Honest, Found
  <2>. QED BY <1>0, <1>1, <1>3, <1>6, <2>1, ReturnKeeps, Zenon
<1>7. CASE Locks /\ Ok
  <2>1. /\ StepFits(call.op, "relock_new") /\ ~AtNewRate(call, "relock_new")
        /\ "relock_new" # "relock_old" /\ "relock_new" # "mode" /\ "relock_new" # "relock"
        /\ call.op # "scan" /\ call.op # "reset"
    BY <1>2 DEF StepFits, AtNewRate
  <2>2. Underway(call, "relock_new", Rest.rate)
    BY <1>1, <1>3, <1>4, <1>7, <2>1, Zenon DEF Underway, ResetSoFar
  <2>. QED BY <1>0, <1>1, <1>7, <2>2, ServoStartKeeps
<1>8. CASE Locks /\ ~Ok
  <2>0. c.op = "set_id" /\ c.arg = call.arg /\ c.rate = call.rate /\ IsCall(c)
    BY <1>2, <1>5, Zenon DEF SameCall
  <2>1. /\ StepFits(c.op, "relock_old") /\ ~AtNewRate(c, "relock_old")
        /\ "relock_old" # "mode" /\ "relock_old" # "relock"
        /\ c.op # "scan" /\ c.op # "reset"
    BY <2>0 DEF StepFits, AtNewRate
  <2>2. c.result # "ok" BY <1>5, <1>8, Zenon DEF Ok
  <2>3. Underway(c, "relock_old", Rest.rate)
    BY <1>1, <1>3, <1>4, <1>8, <2>0, <2>1, <2>2, Zenon DEF Underway, ResetSoFar
  <2>. QED BY <1>0, <1>1, <1>8, <2>0, <2>3, ServoStartKeeps
<1>. QED BY <1>6, <1>7, <1>8

LEMMA ModeKeeps == ServoInv /\ ModeDone => ServoInv'
<1> SUFFICES ASSUME ServoInv, ModeDone PROVE ServoInv' OBVIOUS
<1> DEFINE c == [call EXCEPT !.result = Outcome]
<1>0. /\ call.step = "mode" /\ Concluded
      /\ ~Locks => Return(call, Outcome, 0, Rest)
      /\ Locks /\ Ok => StartAt(call, "relock", Rest)
      /\ Locks /\ ~Ok => StartAt(c, "relock_old", Rest)
  BY Zenon DEF ModeDone
<1>1. /\ ServoType /\ IsCall(call) /\ Underway(call, call.step, bus.rate)
      /\ StepFits(call.op, call.step) /\ IsBus(Rest) /\ Rest.rate = bus.rate
      /\ Ok /\ PacketOf(call).to # Broadcast => Acked(call, bus.rx, bus.rate)
  <2>1. call.step # "none" BY <1>0
  <2>. QED BY <1>0, <2>1, Concludes, Zenon
<1>2. call.op = "set_mode" BY <1>0, <1>1 DEF StepFits
<1>3. bus.rate = call.rate
  <2>1. ~AtNewRate(call, call.step) /\ call.step # "poll" BY <1>0, <1>2 DEF AtNewRate
  <2>. QED BY <1>1, <2>1, Zenon DEF Underway
<1>4. Ok /\ call.id # Broadcast =>
        \E s \in Servos : Listens(s, call.id, bus.rate) /\ servo[s].mode = call.arg
  <2>1. "mode" # "poll" /\ "mode" # "relock_new" OBVIOUS
  <2>2. PacketOf(call).to = call.id BY <1>0, <1>1, <2>1, Addressed, Zenon
  <2>. QED BY <1>0, <1>1, <2>2, Zenon DEF Acked
<1>5. SameCall(call, c) /\ c.result = Outcome /\ c.found = call.found
  BY <1>1, CallFails, Zenon
<1> HIDE DEF c
<1>6. CASE ~Locks
  <2>1. ASSUME Outcome = "ok", call.id # Broadcast PROVE Honest(call, 0, bus.rate)
    <3>1. \E s \in Servos : Listens(s, call.id, bus.rate) /\ servo[s].mode = call.arg
      BY <1>4, <2>1, Zenon DEF Ok
    <3>2. /\ call.op # "scan" /\ call.op # "reset" /\ call.op # "read" /\ call.op # "write"
          /\ call.op # "set_id" /\ call.op # "set_rate"
      BY <1>2
    <3>. QED BY <1>2, <1>6, <3>1, <3>2, Zenon DEF Honest, Listens
  <2>. QED BY <1>0, <1>1, <1>3, <1>6, <2>1, ReturnKeeps, Zenon
<1>7. CASE Locks /\ Ok
  <2>1. /\ StepFits(call.op, "relock") /\ ~AtNewRate(call, "relock")
        /\ "relock" # "relock_old" /\ "relock" # "mode"
        /\ call.op # "scan" /\ call.op # "set_id" /\ call.op # "set_rate"
        /\ call.op # "reset"
    BY <1>2 DEF StepFits, AtNewRate
  <2>2. Underway(call, "relock", Rest.rate)
    BY <1>1, <1>3, <1>4, <1>7, <2>1, Zenon DEF Underway, ResetSoFar
  <2>. QED BY <1>0, <1>1, <1>7, <2>2, ServoStartKeeps
<1>8. CASE Locks /\ ~Ok
  <2>0. c.op = "set_mode" /\ c.rate = call.rate /\ IsCall(c)
    BY <1>2, <1>5, Zenon DEF SameCall
  <2>1. /\ StepFits(c.op, "relock_old") /\ ~AtNewRate(c, "relock_old")
        /\ "relock_old" # "mode" /\ "relock_old" # "relock"
        /\ c.op # "scan" /\ c.op # "set_id" /\ c.op # "reset"
    BY <2>0 DEF StepFits, AtNewRate
  <2>2. c.result # "ok" BY <1>5, <1>8, Zenon DEF Ok
  <2>3. Underway(c, "relock_old", Rest.rate)
    BY <1>1, <1>3, <1>8, <2>0, <2>1, <2>2, Zenon DEF Underway, ResetSoFar
  <2>. QED BY <1>0, <1>1, <1>8, <2>0, <2>3, ServoStartKeeps
<1>. QED BY <1>6, <1>7, <1>8
LEMMA RateKeeps == ServoInv /\ RateDone => ServoInv'
<1> SUFFICES ASSUME ServoInv, RateDone PROVE ServoInv' OBVIOUS
<1>0. /\ call.step = "rate" /\ Concluded
      /\ call.id = Broadcast => Return(call, "ok", 0, AtRate(call.arg))
      /\ call.id # Broadcast => StartAt(call, "ping", AtRate(call.arg))
  BY Zenon DEF RateDone
<1>1. /\ ServoType /\ IsCall(call) /\ Underway(call, call.step, bus.rate)
      /\ StepFits(call.op, call.step)
      /\ IsBus(AtRate(call.arg)) /\ AtRate(call.arg).rate = call.arg
  <2>1. call.step # "none" BY <1>0
  <2>. QED BY <1>0, <2>1, Concludes, Zenon
<1>2. call.op = "set_rate" BY <1>0, <1>1 DEF StepFits
<1>3. CASE call.id = Broadcast
  BY <1>0, <1>1, <1>3, ReturnKeeps, Zenon
<1>4. CASE call.id # Broadcast
  <2>1. /\ StepFits(call.op, "ping") /\ AtNewRate(call, "ping")
        /\ "ping" \notin {"unlock", "relock", "relock_new", "relock_old"}
        /\ "ping" # "relock_old" /\ "ping" # "mode" /\ "ping" # "relock"
        /\ call.op # "scan" /\ call.op # "set_id" /\ call.op # "reset"
    BY <1>2 DEF StepFits, AtNewRate
  <2>2. Underway(call, "ping", AtRate(call.arg).rate)
    BY <1>1, <2>1, Zenon DEF Underway, ResetSoFar
  <2>. QED BY <1>0, <1>1, <1>4, <2>2, ServoStartKeeps
<1>. QED BY <1>3, <1>4

LEMMA RatePingKeeps == ServoInv /\ RatePingDone => ServoInv'
<1> SUFFICES ASSUME ServoInv, RatePingDone PROVE ServoInv' OBVIOUS
<1> DEFINE c == [call EXCEPT !.result = Outcome]
<1>0. /\ call.op = "set_rate" /\ call.step = "ping" /\ Concluded
      /\ Ok /\ Locks => StartAt(call, "relock", Rest)
      /\ Ok /\ ~Locks => Return(call, "ok", 0, Rest)
      /\ ~Ok /\ Locks => StartAt(c, "relock_old", AtRate(call.rate))
      /\ ~Ok /\ ~Locks => Return(call, Outcome, 0, AtRate(call.rate))
  BY Zenon DEF RatePingDone
<1>1. /\ ServoType /\ IsCall(call) /\ Underway(call, call.step, bus.rate)
      /\ StepFits(call.op, call.step) /\ IsBus(Rest) /\ Rest.rate = bus.rate
      /\ IsBus(AtRate(call.rate)) /\ AtRate(call.rate).rate = call.rate
      /\ Ok /\ PacketOf(call).to # Broadcast => Acked(call, bus.rx, bus.rate)
  <2>1. call.step # "none" BY <1>0
  <2>. QED BY <1>0, <2>1, Concludes, Zenon
<1>2. bus.rate = call.arg
  <2>1. AtNewRate(call, call.step) BY <1>0 DEF AtNewRate
  <2>. QED BY <1>1, <2>1, Zenon DEF Underway
<1>3. Ok /\ call.id # Broadcast => \E s \in Servos : Listens(s, call.id, bus.rate)
  <2>1. "ping" # "poll" /\ "ping" # "relock_new" OBVIOUS
  <2>2. PacketOf(call).to = call.id BY <1>0, <1>1, <2>1, Addressed, Zenon
  <2>. QED BY <1>0, <1>1, <2>2, Zenon DEF Acked
<1>4. SameCall(call, c) /\ c.result = Outcome /\ c.found = call.found
  BY <1>1, CallFails, Zenon
<1> HIDE DEF c
<1>5. CASE Ok /\ Locks
  <2>1. /\ StepFits(call.op, "relock") /\ AtNewRate(call, "relock")
        /\ "relock" # "relock_old" /\ "relock" # "mode"
        /\ call.op # "scan" /\ call.op # "set_id" /\ call.op # "set_mode"
        /\ call.op # "reset"
    BY <1>0 DEF StepFits, AtNewRate
  <2>2. Underway(call, "relock", Rest.rate)
    BY <1>1, <1>2, <1>3, <1>5, <2>1, Zenon DEF Underway, ResetSoFar
  <2>. QED BY <1>0, <1>1, <1>5, <2>2, ServoStartKeeps
<1>6. CASE Ok /\ ~Locks
  <2>1. ASSUME call.id # Broadcast
        PROVE  Honest(call, 0, bus.rate) /\ Found(call.id, bus.rate)
    <3>1. \E s \in Servos : Listens(s, call.id, bus.rate) BY <1>3, <1>6, <2>1, Zenon
    <3>2. /\ call.op # "scan" /\ call.op # "reset" /\ call.op # "read" /\ call.op # "write"
          /\ call.op # "set_id" /\ call.op # "set_mode"
      BY <1>0
    <3>. QED BY <1>2, <1>6, <3>1, <3>2, Zenon DEF Honest, Listens, Found
  <2>2. call.op # "reset" BY <1>0
  <2>. QED BY <1>0, <1>1, <1>6, <2>1, <2>2, ReturnKeeps, Zenon
<1>7. CASE ~Ok /\ Locks
  <2>0. c.op = "set_rate" /\ c.rate = call.rate /\ IsCall(c)
    BY <1>0, <1>4, Zenon DEF SameCall
  <2>1. /\ StepFits(c.op, "relock_old") /\ ~AtNewRate(c, "relock_old")
        /\ "relock_old" # "mode" /\ "relock_old" # "relock"
        /\ c.op # "scan" /\ c.op # "set_id" /\ c.op # "reset"
    BY <2>0 DEF StepFits, AtNewRate
  <2>2. c.result # "ok" BY <1>4, <1>7, Zenon DEF Ok
  <2>3. Underway(c, "relock_old", AtRate(call.rate).rate)
    BY <1>1, <1>7, <2>0, <2>1, <2>2, Zenon DEF Underway, ResetSoFar
  <2>. QED BY <1>0, <1>1, <1>7, <2>0, <2>3, ServoStartKeeps
<1>8. CASE ~Ok /\ ~Locks
  <2>1. Outcome # "ok" BY <1>8, Zenon DEF Ok
  <2>. QED BY <1>0, <1>1, <1>8, <2>1, ReturnKeeps, Zenon
<1>. QED BY <1>5, <1>6, <1>7, <1>8

LEMMA ResetKeeps == ServoInv /\ ResetDone => ServoInv'
<1> SUFFICES ASSUME ServoInv, ResetDone PROVE ServoInv' OBVIOUS
<1>0. call.step = "reset" /\ Concluded /\ StartAt(call, "poll", AtRate(DefaultRate))
  BY Zenon DEF ResetDone
<1>1. /\ ServoType /\ IsCall(call) /\ StepFits(call.op, call.step)
      /\ Underway(call, call.step, bus.rate)
      /\ IsBus(AtRate(DefaultRate)) /\ AtRate(DefaultRate).rate = DefaultRate
  <2>1. call.step # "none" BY <1>0
  <2>. QED BY <1>0, <2>1, Concludes, Zenon
<1>2. call.op = "reset" BY <1>0, <1>1 DEF StepFits
<1>3. /\ StepFits(call.op, "poll") /\ ~AtNewRate(call, "poll")
      /\ "poll" \notin {"unlock", "relock", "relock_new", "relock_old"}
      /\ "poll" # "relock_old" /\ "poll" # "mode" /\ "poll" # "relock"
      /\ call.op # "scan" /\ call.op # "set_id" /\ "poll" # "unlock"
  BY <1>2 DEF StepFits, AtNewRate
<1>5. ResetSoFar(call, "poll", AtRate(DefaultRate).rate)
  BY <1>0, <1>1, <1>3, Zenon DEF Underway, ResetSoFar
<1>4. Underway(call, "poll", AtRate(DefaultRate).rate)
  BY <1>3, <1>5, Zenon DEF Underway
<1>. QED BY <1>0, <1>1, <1>4, ServoStartKeeps

LEMMA ServoPollKeeps == ServoInv /\ PollDone => ServoInv'
<1> SUFFICES ASSUME ServoInv, PollDone PROVE ServoInv' OBVIOUS
<1> DEFINE c == [call EXCEPT !.result = "timeout"]
<1>0. /\ call.step = "poll" /\ Concluded
      /\ \/ Ok /\ Return(call, "ok", 0, Rest)
         \/ StartAt(call, "poll", Rest)
         \/ Locks /\ StartAt(c, "relock_old", AtRate(call.rate))
         \/ Return(call, "timeout", 0, AtRate(call.rate))
  BY Zenon DEF PollDone
<1>1. /\ ServoType /\ IsCall(call) /\ Underway(call, call.step, bus.rate)
      /\ StepFits(call.op, call.step) /\ IsBus(Rest) /\ Rest.rate = bus.rate
      /\ IsBus(AtRate(call.rate)) /\ AtRate(call.rate).rate = call.rate
      /\ Ok /\ PacketOf(call).to # Broadcast => Acked(call, bus.rx, bus.rate)
  <2>1. call.step # "none" BY <1>0
  <2>. QED BY <1>0, <2>1, Concludes, Zenon
<1>2. call.op = "reset" BY <1>0, <1>1 DEF StepFits
<1>3. SameCall(call, c) /\ c.result = "timeout" /\ c.found = call.found
  BY <1>1, CallFails, Zenon
<1> HIDE DEF c
<1>4. CASE Ok /\ Return(call, "ok", 0, Rest)
  <2>1. PacketOf(call).to # Broadcast BY <1>0, <1>1, Addressed, Zenon
  <2>2. Found(DefaultId, bus.rate)
    BY <1>0, <1>1, <1>4, <2>1, Zenon DEF Acked, Listens, Found
  <2>3. Honest(call, 0, bus.rate)
    <3>1. call.op # "scan" BY <1>2
    <3>2. bus.rate = DefaultRate /\ \A s \in AtFactory : s \in call.there \/ FactorySet(servo[s])
      BY <1>0, <1>1, <1>2, Zenon DEF Underway, ResetSoFar
    <3>. QED BY <1>2, <2>2, <3>1, <3>2, Zenon DEF Honest
  <2>. QED BY <1>1, <1>2, <1>4, <2>2, <2>3, ReturnKeeps, Zenon
<1>5. CASE StartAt(call, "poll", Rest)
  BY <1>0, <1>1, <1>5, ServoStartKeeps, Zenon
<1>6. CASE Locks /\ StartAt(c, "relock_old", AtRate(call.rate))
  <2>0. c.op = "reset" /\ c.rate = call.rate /\ IsCall(c)
    BY <1>2, <1>3, Zenon DEF SameCall
  <2>1. /\ StepFits(c.op, "relock_old") /\ ~AtNewRate(c, "relock_old")
        /\ "relock_old" # "mode" /\ "relock_old" # "relock"
        /\ c.op # "scan" /\ c.op # "set_id" /\ "timeout" # "ok"
        /\ "relock_old" # "unlock" /\ "relock_old" \notin {"reset", "poll"}
        /\ "relock_old" # "poll"
    BY <2>0 DEF StepFits, AtNewRate
  <2>2. Underway(c, "relock_old", AtRate(call.rate).rate)
    BY <1>1, <1>3, <1>6, <2>0, <2>1, Zenon DEF Underway, ResetSoFar
  <2>. QED BY <1>1, <1>6, <2>0, <2>2, ServoStartKeeps
<1>7. CASE Return(call, "timeout", 0, AtRate(call.rate))
  <2>1. "timeout" # "ok" OBVIOUS
  <2>. QED BY <1>1, <1>7, <2>1, ReturnKeeps, Zenon
<1>. QED BY <1>0, <1>4, <1>5, <1>6, <1>7, Zenon

LEMMA RelockKeeps == ServoInv /\ RelockDone => ServoInv'
<1> SUFFICES ASSUME ServoInv, RelockDone PROVE ServoInv' OBVIOUS
<1> DEFINE result == IF call.step = "relock_old" THEN call.result ELSE Outcome
<1>0. /\ call.step \in {"relock", "relock_new", "relock_old"} /\ Concluded
      /\ Return(call, result, 0, Rest)
  BY Zenon DEF RelockDone
<1>1. /\ ServoType /\ IsCall(call) /\ Underway(call, call.step, bus.rate)
      /\ StepFits(call.op, call.step) /\ IsBus(Rest) /\ Rest.rate = bus.rate
      /\ Ok /\ PacketOf(call).to # Broadcast => Acked(call, bus.rx, bus.rate)
  <2>1. call.step # "none" BY <1>0
  <2>. QED BY <1>0, <2>1, Concludes, Zenon
<1>2. Locks BY <1>0, <1>1, Zenon DEF Underway
<1>3. /\ call.step # "relock_old" => result = Outcome
      /\ call.step = "relock_old" => result = call.result
  BY Zenon
<1> HIDE DEF result
<1>4. CASE call.step = "relock_old"
  <2>1. call.step # "poll" /\ ~AtNewRate(call, call.step) BY <1>4 DEF AtNewRate
  <2>2. bus.rate = call.rate /\ result # "ok" BY <1>1, <1>3, <1>4, <2>1, Zenon DEF Underway
  <2>. QED BY <1>0, <1>1, <2>2, ReturnKeeps, Zenon
<1>5. CASE call.step = "relock_new"
  <2>1. call.step # "relock_old" /\ call.step # "poll" /\ ~AtNewRate(call, call.step)
    BY <1>5 DEF AtNewRate
  <2>2. call.op = "set_id" BY <1>1, <1>5 DEF StepFits
  <2>3. bus.rate = call.rate /\ call.arg # Broadcast BY <1>1, <2>1, <2>2, Zenon DEF Underway
  <2>4. PacketOf(call).to = call.arg BY <1>1, <1>5, Addressed, Zenon
  <2>5. ASSUME result = "ok" PROVE Honest(call, 0, bus.rate)
    <3>1. \E s \in Servos : Listens(s, call.arg, bus.rate) /\ servo[s].locked = TRUE
      BY <1>1, <1>3, <1>5, <2>1, <2>3, <2>4, <2>5, Zenon DEF Acked, Ok
    <3>2. /\ call.op # "scan" /\ call.op # "reset" /\ call.op # "read" /\ call.op # "write"
          /\ call.op # "set_rate" /\ call.op # "set_mode"
      BY <2>2
    <3>. QED BY <2>2, <3>1, <3>2, Zenon DEF Honest, Listens
  <2>. QED BY <1>0, <1>1, <2>3, <2>5, ReturnKeeps, Zenon
<1>6. CASE call.step = "relock"
  <2>1. call.step # "relock_old" /\ call.step # "relock_new" /\ call.step # "poll"
    BY <1>6
  <2>2. call.op \in {"set_rate", "set_mode"} BY <1>1, <1>6 DEF StepFits
  <2>3. PacketOf(call).to = call.id BY <1>1, <2>1, Addressed, Zenon
  <2>4. result = "ok" /\ call.id # Broadcast =>
          \E s \in Servos : /\ Listens(s, call.id, bus.rate) /\ servo[s].locked = TRUE
                            /\ call.op = "set_mode" => servo[s].mode = call.arg
    BY <1>1, <1>3, <1>6, <2>1, <2>3, Zenon DEF Acked, Ok
  <2>5. CASE call.op = "set_rate"
    <3>1. AtNewRate(call, call.step) BY <1>6, <2>5 DEF AtNewRate
    <3>2. bus.rate = call.arg BY <1>1, <3>1, Zenon DEF Underway
    <3>3. /\ call.op # "scan" /\ call.op # "reset" /\ call.op # "read" /\ call.op # "write"
          /\ call.op # "set_id" /\ call.op # "set_mode"
      BY <2>5
    <3>4. result = "ok" /\ call.id # Broadcast => Honest(call, 0, bus.rate)
      BY <2>4, <2>5, <3>2, <3>3, Zenon DEF Honest, Listens
    <3>5. call.id # Broadcast => Found(call.id, bus.rate)
      BY <1>1, <1>6, <2>5, Zenon DEF Underway, Listens, Found
    <3>. QED BY <1>0, <1>1, <3>3, <3>4, <3>5, ReturnKeeps, Zenon
  <2>6. CASE call.op = "set_mode"
    <3>1. ~AtNewRate(call, call.step) BY <2>6 DEF AtNewRate
    <3>2. bus.rate = call.rate BY <1>1, <2>1, <3>1, Zenon DEF Underway
    <3>3. /\ call.op # "scan" /\ call.op # "reset" /\ call.op # "read" /\ call.op # "write"
          /\ call.op # "set_id" /\ call.op # "set_rate"
      BY <2>6
    <3>4. result = "ok" /\ call.id # Broadcast => Honest(call, 0, bus.rate)
      BY <2>4, <2>6, <3>3, Zenon DEF Honest, Listens
    <3>. QED BY <1>0, <1>1, <3>2, <3>4, ReturnKeeps, Zenon
  <2>. QED BY <2>2, <2>5, <2>6
<1>. QED BY <1>0, <1>4, <1>5, <1>6
-----------------------------------------------------------------------------
(* The wire's steps, and a call's beginning *)

\* The packet depends on the step of the call alone, and not on its progress.
LEMMA SamePacket ==
    ASSUME NEW c, NEW d, d.step = c.step, d.id = c.id, d.arg = c.arg
    PROVE  PacketOf(d) = PacketOf(c)
BY Zenon DEF PacketOf

\* What a packet does to the servos.
LEMMA ServosHear ==
    ASSUME ServoType, call.step \in StepsNamed, NEW fate, Send(fate)
    PROVE  /\ DOMAIN servo' = Servos /\ servo' = [s \in Servos |-> servo'[s]]
           /\ \A s \in Servos : /\ IsRegister(servo'[s])
                                /\ ~Locks => servo'[s].locked = FALSE
                                /\ servo'[s] = servo[s] \/ HeardWhole(servo[s], servo'[s], call)
<1> DEFINE p == PacketOf(call)
           heard == IF fate = "unheard" THEN {} ELSE {s \in Servos : Hears(s, p)}
<1>1. servo' = [s \in Servos |-> IF s \in heard THEN Obeyed(servo[s], p) ELSE servo[s]]
  BY Zenon DEF Send
<1> HIDE DEF heard
<1>2. DOMAIN servo' = Servos /\ servo' = [s \in Servos |-> servo'[s]] BY <1>1
<1>3. ASSUME NEW s \in Servos
      PROVE  /\ IsRegister(servo'[s]) /\ (~Locks => servo'[s].locked = FALSE)
             /\ servo'[s] = servo[s] \/ HeardWhole(servo[s], servo'[s], call)
  <2>1. servo'[s] = Obeyed(servo[s], p) \/ servo'[s] = servo[s] BY <1>1, Zenon
  <2>2. IsRegister(servo[s]) /\ (~Locks => servo[s].locked = FALSE) BY Zenon DEF ServoType
  <2>3. HeardWhole(servo[s], Obeyed(servo[s], p), call) BY <2>2, HeardIs, Zenon DEF ServoType
  <2> HIDE DEF p
  <2>. QED BY <2>1, <2>2, <2>3, Zenon DEF HeardWhole
<1>. QED BY <1>2, <1>3, Zenon

\* A servo that is there stays while the packets are not about ID or rate.
LEMMA UnderwayStays ==
    ASSUME Underway(call, call.step, bus.rate), family' = family,
           SameCall(call, call'), call'.step = call.step, call'.result = call.result,
           call'.found = call.found, bus'.rate = bus.rate,
           \A s \in Servos :
             \/ servo'[s] = servo[s]
             \/ HeardWhole(servo[s], servo'[s], call)
             \/ /\ servo'[s].id = servo[s].id /\ servo'[s].rate = servo[s].rate
                /\ servo'[s].mode = servo[s].mode /\ servo'[s].locked = servo[s].locked
                /\ servo'[s].goal = servo[s].goal /\ servo'[s].awake = TRUE
    PROVE  Underway(call, call.step, bus.rate)'
<1>1. Locks' <=> Locks BY Zenon DEF Locks
<1>2. call'.op = call.op /\ call'.id = call.id /\ call'.arg = call.arg /\ call'.rate = call.rate
  BY Zenon DEF SameCall
<1>3. call.step \notin {"id", "rate", "reset"} =>
        \A s \in Servos : \A id : Listens(s, id, bus.rate) => Listens(s, id, bus.rate)'
  BY <1>2, Zenon DEF HeardWhole, Listens
<1>4. ASSUME call.op = "scan", NEW id \in call.found PROVE Found(id, bus.rate)'
  <2>1. StepFits(call.op, call.step) BY Zenon DEF Underway
  <2>2. call.step = "probe" BY <1>4, <2>1 DEF StepFits
  <2>3. Found(id, bus.rate) BY <1>4, Zenon DEF Underway
  <2>4. PICK s \in Servos : servo[s].id = id /\ servo[s].rate = bus.rate BY <2>3 DEF Found
  <2>5. "probe" # "id" /\ "probe" # "rate" /\ "probe" # "reset" OBVIOUS
  <2>6. servo'[s].id = id /\ servo'[s].rate = bus.rate BY <2>2, <2>4, <2>5, Zenon DEF HeardWhole
  <2>. QED BY <2>6, Zenon DEF Found
<1>5. ASSUME call.id # Broadcast, Locks, call.step = "mode"
      PROVE  (\E s \in Servos : Listens(s, call.id, bus.rate) /\ servo[s].locked = FALSE)'
  <2>1. "mode" # "id" /\ "mode" # "rate" /\ "mode" # "reset" OBVIOUS
  <2>2. PICK s \in Servos : Listens(s, call.id, bus.rate) /\ servo[s].locked = FALSE
    BY <1>5, Zenon DEF Underway
  <2>3. Listens(s, call.id, bus.rate)' BY <1>2, <1>3, <1>5, <2>1, <2>2, Zenon
  <2>4. servo'[s].locked = FALSE BY <1>5, <2>2, Zenon DEF HeardWhole
  <2>. QED BY <2>3, <2>4, Zenon
<1>6. ASSUME call.id # Broadcast, call.step = "relock", call.op = "set_mode"
      PROVE  (\E s \in Servos : Listens(s, call.id, bus.rate) /\ servo[s].mode = call.arg)'
  <2>1. "relock" # "id" /\ "relock" # "rate" /\ "relock" # "reset" OBVIOUS
  <2>2. PICK s \in Servos : Listens(s, call.id, bus.rate) /\ servo[s].mode = call.arg
    BY <1>6, Zenon DEF Underway
  <2>3. Listens(s, call.id, bus.rate)' BY <1>2, <1>3, <1>6, <2>1, <2>2, Zenon
  <2>4. servo'[s].mode = call'.arg BY <1>2, <1>6, <2>2, Zenon DEF HeardWhole
  <2>. QED BY <2>3, <2>4, Zenon
<1>7. ASSUME call.id # Broadcast, call.step = "relock", call.op = "set_rate"
      PROVE  (\E s \in Servos : Listens(s, call.id, bus.rate))'
  <2>1. "relock" # "id" /\ "relock" # "rate" /\ "relock" # "reset" OBVIOUS
  <2>2. PICK s \in Servos : Listens(s, call.id, bus.rate) BY <1>7, Zenon DEF Underway
  <2>3. Listens(s, call.id, bus.rate)' BY <1>2, <1>3, <1>7, <2>1, <2>2, Zenon
  <2>. QED BY <2>3, Zenon
<1>8. call'.there = call.there BY Zenon DEF SameCall
<1>9. \A s \in Servos : FactorySet(servo[s])' <=> FactorySet(servo'[s])
  BY <1>1, Zenon DEF FactorySet
<1>10. ASSUME call.op = "reset", call.step = "unlock", NEW s \in AtFactory'
       PROVE  s \in call'.there
  <2>1. "unlock" # "id" /\ "unlock" # "rate" /\ "unlock" # "reset" OBVIOUS
  <2>2. s \in AtFactory BY <1>10, <2>1, Zenon DEF AtFactory, HeardWhole
  <2>. QED BY <1>8, <1>10, <2>2, Zenon DEF Underway, ResetSoFar
<1>11. ASSUME call.op = "reset", call.step \in {"reset", "poll"}, NEW s \in AtFactory'
       PROVE  s \in call'.there \/ FactorySet(servo[s])'
  <2>0. s \in Servos BY <1>11, Zenon DEF AtFactory
  <2>1. CASE call.step = "reset" /\ HeardWhole(servo[s], servo'[s], call)
    BY <1>9, <2>0, <2>1, Zenon DEF HeardWhole
  <2>2. CASE servo'[s].id = servo[s].id /\ servo'[s].rate = servo[s].rate
             /\ servo'[s].mode = servo[s].mode /\ servo'[s].locked = servo[s].locked
             /\ servo'[s].goal = servo[s].goal
    <3>1. s \in AtFactory BY <1>11, <2>0, <2>2, Zenon DEF AtFactory
    <3>2. s \in call.there \/ FactorySet(servo[s])
      BY <1>11, <3>1, Zenon DEF Underway, ResetSoFar
    <3>. QED BY <1>1, <1>8, <2>2, <3>2, Zenon DEF FactorySet
  <2>3. CASE call.step = "poll" /\ HeardWhole(servo[s], servo'[s], call)
    <3>1. servo'[s] = servo[s] BY <2>3, Zenon DEF HeardWhole
    <3>. QED BY <2>2, <3>1, Zenon
  <2>. QED BY <1>11, <2>0, <2>1, <2>2, <2>3, Zenon
<1>12. call.op = "reset" /\ call.step = "poll" => bus'.rate = DefaultRate
  BY Zenon DEF Underway, ResetSoFar
<1>13. ResetSoFar(call, call.step, bus.rate)'
  BY <1>2, <1>10, <1>11, <1>12, Zenon DEF ResetSoFar
<1>. QED BY <1>1, <1>2, <1>4, <1>5, <1>6, <1>7, <1>13, Zenon DEF Underway, AtNewRate

\* An answer that is taken is that of a servo that heard the packet.
LEMMA SendAcks ==
    ASSUME ServoType, Underway(call, call.step, bus.rate), NEW fate \in Fates, Send(fate),
           family' = family, SameCall(call, call'), call'.step = call.step,
           bus'.rate = bus.rate, PacketOf(call).to # Broadcast,
           Attempt(PacketOf(call), bus'.rx) = "ok"
    PROVE  Acked(call, bus.rx, bus.rate)'
<1> DEFINE p == PacketOf(call)
<1>0. DOMAIN bus = {"rate", "retries", "rx"}
  <2>1. IsBus(bus) BY Zenon DEF ServoType
  <2>. QED BY <2>1, BusFields, Zenon
<1>1. PICK s \in Servos :
        /\ Hears(s, p) /\ bus'.rx = Pieces(Answer(servo[s], p))
        /\ \A t \in Servos : servo'[t] = IF Hears(t, p) THEN Obeyed(servo[t], p) ELSE servo[t]
  BY <1>0, Answered, Zenon
<1>2. call'.op = call.op /\ call'.id = call.id /\ call'.arg = call.arg /\ call'.rate = call.rate
  BY Zenon DEF SameCall
<1>3. StepFits(call.op, call.step) /\ call.step \in StepsNamed
  <2>1. StepFits(call.op, call.step) BY Zenon DEF Underway
  <2>. QED BY <2>1, FitsNamed
<1>4. Locks' <=> Locks BY Zenon DEF Locks
<1>5. \A t \in Servos :
        /\ IsRegister(servo[t]) /\ (~Locks => servo[t].locked = FALSE)
        /\ HeardWhole(servo[t], Obeyed(servo[t], p), call)
  BY <1>3, HeardIs, Zenon DEF ServoType
<1>6. \A t \in Servos : Hears(t, p) => HeardWhole(servo[t], servo'[t], call)
  <2> HIDE DEF p
  <2>. QED BY <1>1, <1>5, Zenon
<1>7. /\ call.step # "poll" /\ call.step # "relock_new" => p.to = call.id
      /\ call.step = "poll" => p.to = DefaultId
      /\ call.step = "relock_new" => p.to = call.arg
  BY <1>3, Addressed, Zenon
<1>8. call.step = "read" => p.inst = "read" /\ p.reg = "goal"
  BY PacketIs DEF Packet
<1>9. p.to # Broadcast /\ Attempt(p, Pieces(Answer(servo[s], p))) = "ok" BY <1>1, Zenon
<1> HIDE DEF p
<1>10. Answer(servo[s], p).from = p.to BY <1>9, TakenIs, Zenon
<1>11. /\ Answer(servo[s], p).from = servo[s].id
       /\ p.inst = "read" => Answer(servo[s], p).value = servo[s][p.reg]
  BY DEF Answer, Unit
<1>12. Listens(s, p.to, bus.rate)
  <2>1. servo[s].awake \in BOOLEAN BY <1>5 DEF IsRegister
  <2>2. servo[s].awake /\ servo[s].rate = bus.rate BY <1>1, Zenon DEF Hears
  <2>3. servo[s].awake = TRUE BY <2>1, <2>2
  <2>. QED BY <1>10, <1>11, <2>2, <2>3, Zenon DEF Listens
<1>13. \A t \in Servos : Listens(t, p.to, bus.rate) => Hears(t, p)
  BY Zenon DEF Listens, Hears
<1>14. call.step \notin {"id", "rate", "reset"} =>
         \A t \in Servos : Listens(t, p.to, bus.rate) =>
           Listens(t, p.to, bus.rate)' /\ HeardWhole(servo[t], servo'[t], call)
  <2> SUFFICES ASSUME call.step \notin {"id", "rate", "reset"}, NEW t \in Servos,
                      Listens(t, p.to, bus.rate)
               PROVE  Listens(t, p.to, bus.rate)' /\ HeardWhole(servo[t], servo'[t], call)
    OBVIOUS
  <2>1. HeardWhole(servo[t], servo'[t], call) BY <1>6, <1>13, Zenon
  <2>2. p' = p BY <1>2, SamePacket, Zenon DEF p
  <2>. QED BY <2>1, <2>2, Zenon DEF HeardWhole, Listens
<1>15. ASSUME call.step = "read" PROVE servo'[s].goal = bus'.rx[1].unit.value
  <2>1. bus'.rx[1].unit = Answer(servo[s], p) BY <1>1, PiecesAre, Zenon
  <2>2. Answer(servo[s], p).value = servo[s].goal
    <3>1. servo[s]["goal"] = servo[s].goal OBVIOUS
    <3>. QED BY <1>8, <1>11, <1>15, <3>1
  <2>3. servo'[s] = servo[s]
    <3>1. HeardWhole(servo[s], servo'[s], call) BY <1>1, <1>6
    <3>. QED BY <1>15, <3>1, Zenon DEF HeardWhole
  <2>. QED BY <2>1, <2>2, <2>3, Zenon
<1> DEFINE on(t, id) == /\ t \in Servos /\ servo'[t].awake = TRUE /\ servo'[t].rate = bus'.rate
                        /\ servo'[t].id = id
<1>16. \A t, id : on(t, id) => Listens(t, id, bus.rate)' BY Zenon DEF Listens
<1>17. call.step \notin {"id", "rate", "reset"} =>
         \A t \in Servos : Listens(t, p.to, bus.rate) =>
           on(t, p.to) /\ HeardWhole(servo[t], servo'[t], call)
  <2> SUFFICES ASSUME call.step \notin {"id", "rate", "reset"}, NEW t \in Servos,
                      Listens(t, p.to, bus.rate)
               PROVE  on(t, p.to) /\ HeardWhole(servo[t], servo'[t], call)
    OBVIOUS
  <2>1. HeardWhole(servo[t], servo'[t], call) BY <1>6, <1>13, Zenon
  <2>. QED BY <2>1, Zenon DEF HeardWhole, Listens
<1> HIDE DEF on
<1>18. s \in Servos OBVIOUS
<1>19. CASE call.step \in {"ping", "probe", "poll", "read"}
  <2>1. call.step \notin {"id", "rate", "reset", "relock_new"} BY <1>19
  <2>2. on(s, p.to) BY <1>12, <1>17, <2>1, Zenon
  <2>3. call.step \notin {"goal", "unlock", "mode", "relock", "relock_new", "id"} BY <1>19
  <2>4. "poll" \notin {"ping", "probe", "read"} OBVIOUS
  <2>. QED BY <1>2, <1>7, <1>15, <1>16, <2>1, <2>2, <2>3, <2>4, Zenon DEF Acked
<1>20. CASE call.step = "goal"
  <2>1. /\ "goal" \notin {"id", "rate", "reset", "relock_new", "poll", "ping", "probe", "read",
                          "unlock", "mode", "relock"}
    OBVIOUS
  <2>2. on(s, p.to) /\ servo'[s].goal = call.arg
    BY <1>12, <1>17, <1>20, <2>1, Zenon DEF HeardWhole
  <2>. QED BY <1>2, <1>7, <1>16, <1>20, <2>1, <2>2, Zenon DEF Acked
<1>21. CASE call.step = "unlock"
  <2>1. /\ "unlock" \notin {"id", "rate", "reset", "relock_new", "poll", "ping", "probe", "read",
                            "goal", "mode", "relock"}
    OBVIOUS
  <2>0. Locks BY <1>21, Zenon DEF Underway
  <2>2. on(s, p.to) /\ servo'[s].locked = FALSE
    BY <1>12, <1>17, <1>21, <2>0, <2>1, Zenon DEF HeardWhole
  <2>. QED BY <1>2, <1>7, <1>16, <1>21, <2>1, <2>2, Zenon DEF Acked
<1>22. CASE call.step = "mode"
  <2>1. /\ "mode" \notin {"id", "rate", "reset", "relock_new", "poll", "ping", "probe", "read",
                          "goal", "unlock", "relock"}
    OBVIOUS
  <2>2. p.to = call.id BY <1>7, <1>22, <2>1, Zenon
  <2>3. \E t \in Servos : Listens(t, p.to, bus.rate) /\ servo[t].locked = FALSE
    <3>1. CASE Locks BY <1>9, <1>22, <2>2, <3>1, Zenon DEF Underway
    <3>2. CASE ~Locks BY <1>5, <1>12, <3>2, Zenon
    <3>. QED BY <3>1, <3>2
  <2>4. \E t \in Servos : on(t, p.to) /\ servo'[t].mode = call.arg
    BY <1>17, <1>22, <2>1, <2>3, Zenon DEF HeardWhole
  <2>. QED BY <1>2, <1>16, <1>22, <2>1, <2>2, <2>4, Zenon DEF Acked
<1>23. CASE call.step = "relock"
  <2>1. /\ "relock" \notin {"id", "rate", "reset", "relock_new", "poll", "ping", "probe", "read",
                            "goal", "unlock", "mode"}
    OBVIOUS
  <2>2. p.to = call.id BY <1>7, <1>23, <2>1, Zenon
  <2>0. Locks BY <1>23, Zenon DEF Underway
  <2>3. \E t \in Servos : /\ Listens(t, p.to, bus.rate)
                          /\ call.op = "set_mode" => servo[t].mode = call.arg
    <3>1. CASE call.op = "set_mode" BY <1>9, <1>23, <2>2, <3>1, Zenon DEF Underway
    <3>2. CASE call.op # "set_mode" BY <1>12, <3>2, Zenon
    <3>. QED BY <3>1, <3>2
  <2>4. \E t \in Servos : /\ on(t, p.to) /\ servo'[t].locked = TRUE
                          /\ call.op = "set_mode" => servo'[t].mode = call.arg
    BY <1>17, <1>23, <2>0, <2>1, <2>3, Zenon DEF HeardWhole
  <2>. QED BY <1>2, <1>16, <1>23, <2>1, <2>2, <2>4, Zenon DEF Acked
<1>24. CASE call.step = "relock_new"
  <2>1. /\ "relock_new" \notin {"id", "rate", "reset", "relock", "poll", "ping", "probe", "read",
                                "goal", "unlock", "mode"}
    OBVIOUS
  <2>0. Locks BY <1>24, Zenon DEF Underway
  <2>2. on(s, p.to) /\ servo'[s].locked = TRUE
    BY <1>12, <1>17, <1>24, <2>0, <2>1, Zenon DEF HeardWhole
  <2>. QED BY <1>2, <1>7, <1>16, <1>24, <2>1, <2>2, Zenon DEF Acked
<1>25. CASE call.step = "id"
  <2>1. /\ "id" \notin {"relock_new", "rate", "reset", "relock", "poll", "ping", "probe", "read",
                        "goal", "unlock", "mode"}
    OBVIOUS
  <2>2. ~Locks => servo'[s].id = call.arg /\ servo'[s].rate = bus.rate
    <3>1. HeardWhole(servo[s], servo'[s], call) BY <1>1, <1>6
    <3>2. servo[s].rate = bus.rate BY <1>12 DEF Listens
    <3>. QED BY <1>5, <1>25, <3>1, <3>2, Zenon DEF HeardWhole
  <2>. QED BY <1>2, <1>4, <1>25, <2>1, <2>2, Zenon DEF Acked, Found
<1>26. CASE call.step \notin {"ping", "probe", "poll", "read", "goal", "unlock", "mode", "relock",
                             "relock_new", "id"}
  BY <1>26, Zenon DEF Acked
<1>. QED
  BY <1>19, <1>20, <1>21, <1>22, <1>23, <1>24, <1>25, <1>26
LEMMA ServoSendKeeps ==
    ASSUME ServoInv, NEW fate \in Fates, Send(fate) PROVE ServoInv'
<1> DEFINE c == [call EXCEPT !.sent = TRUE]
           p == PacketOf(call)
           heard == IF fate = "unheard" THEN {} ELSE {s \in Servos : Hears(s, p)}
           all   == Answers(p, heard)
           now   == CASE fate = "prompt"  -> all
                      [] fate = "garbled" -> Noise(p)
                      [] fate = "cut"     -> SubSeq(all, 1, 1)
                      [] OTHER            -> <<>>
           rx    == AfterWrite(p) \o now
<1>1. /\ call.op # "idle" /\ family' = family /\ call' = c
      /\ bus' = [bus EXCEPT !.rx = rx]
  BY Zenon DEF Send
<1>2. /\ ServoType /\ IsBus(bus) /\ IsCall(call)
      /\ Underway(call, call.step, bus.rate)
  BY <1>1, CallTypes, Zenon
<1> HIDE DEF rx
<1>3. IsBus(bus') /\ bus'.rate = bus.rate BY <1>1, <1>2, BusFields, Zenon
<1>4. SameCall(call, c) /\ c.step = call.step /\ c.result = call.result /\ c.found = call.found
  BY <1>2, CallSent, Zenon
<1> HIDE DEF c
<1>5. /\ SameCall(call, call') /\ call'.step = call.step /\ call'.result = call.result
      /\ call'.found = call.found
  BY <1>1, <1>4, Zenon
<1>6. /\ call'.op = call.op /\ call'.id = call.id /\ call'.arg = call.arg /\ IsCall(call')
  BY <1>5, Zenon DEF SameCall
<1>7. call.step \in StepsNamed
  <2>1. StepFits(call.op, call.step) BY <1>2, Zenon DEF Underway
  <2>. QED BY <2>1, FitsNamed
<1>8. /\ DOMAIN servo' = Servos /\ servo' = [s \in Servos |-> servo'[s]]
      /\ \A s \in Servos : /\ IsRegister(servo'[s])
                           /\ ~Locks => servo'[s].locked = FALSE
                           /\ servo'[s] = servo[s] \/ HeardWhole(servo[s], servo'[s], call)
  BY <1>2, <1>7, ServosHear
<1>9. Locks' <=> Locks BY <1>1, Zenon DEF Locks
<1>10. ServoType'
  <2>1. IsBus(bus)' /\ IsCall(call)' BY <1>3, <1>6, Zenon DEF IsBus, IsCall
  <2>2. \A s \in Servos : IsRegister(servo[s])' BY <1>8, Zenon DEF IsRegister
  <2>. QED BY <1>1, <1>2, <1>8, <1>9, <2>1, <2>2, Zenon DEF ServoType
<1>11. Underway(call, call.step, bus.rate)'
  BY <1>1, <1>2, <1>3, <1>5, <1>8, UnderwayStays
<1>12. PacketOf(call') = PacketOf(call) BY <1>5, <1>6, SamePacket
<1>13. ASSUME PacketOf(call').to # Broadcast, Outcome' = "ok"
       PROVE  Acked(call, bus.rx, bus.rate)'
  <2>1. Outcome' = Attempt(PacketOf(call'), bus'.rx) BY Zenon DEF Outcome, Attempt
  <2>2. Attempt(PacketOf(call), bus'.rx) = "ok" BY <1>12, <1>13, <2>1, Zenon
  <2>. QED BY <1>1, <1>2, <1>3, <1>5, <1>12, <1>13, <2>2, SendAcks
<1>14. CallSound'
  <2>1. (PacketOf(call).to # Broadcast)' <=> PacketOf(call').to # Broadcast
    BY Zenon DEF PacketOf, Broadcast
  <2>. QED BY <1>1, <1>6, <1>11, <1>13, <2>1, Zenon DEF CallSound
<1>. QED BY <1>10, <1>14, Zenon DEF ServoInv

\* What is said of a call that returned stays true while nobody writes to a servo.
LEMMA ReturnedStays ==
    ASSUME ServoCallsHold, call' = call, last' = last, family' = family,
           bus'.rate = bus.rate, bus'.retries = bus.retries,
           \A s \in Servos :
             /\ servo'[s].id = servo[s].id /\ servo'[s].rate = servo[s].rate
             /\ servo'[s].mode = servo[s].mode /\ servo'[s].goal = servo[s].goal
             /\ servo'[s].locked = servo[s].locked
    PROVE  ServoCallsHold'
<1>1. Locks' <=> Locks BY Zenon DEF Locks
<1>2. ASSUME NEW id PROVE Reached(id)' = Reached(id)
  <2>1. \A s \in Servos : (servo'[s].id = id /\ servo'[s].rate = bus'.rate) <=>
                          (servo[s].id = id /\ servo[s].rate = bus.rate)
    BY Zenon
  <2>. QED BY <2>1, Zenon DEF Reached
<1>3. BusIsPutBack' BY <1>2, Zenon DEF ServoCallsHold, BusIsPutBack
<1>4. OkIsHonest'
  <2> SUFFICES ASSUME last.result = "ok", call.op = "idle", last.id # Broadcast
               PROVE  (CASE last.op = "scan" -> \A id \in last.found : Reached(id) # {}
                         [] last.op = "reset" ->
                              /\ Reached(DefaultId) # {}
                              /\ \A s \in Reached(DefaultId) \ last.there :
                                   FactorySet(servo[s])
                         [] OTHER ->
                              \E s \in Reached(IF last.op = "set_id" THEN last.arg ELSE last.id) :
                                /\ last.op = "read" => servo[s].goal = last.value
                                /\ last.op = "write" => servo[s].goal = last.arg
                                /\ last.op = "set_mode" => servo[s].mode = last.arg
                                /\ last.op = "set_rate" => bus.rate = last.arg
                                /\ last.op \in {"set_id", "set_rate", "set_mode"} /\ Locks =>
                                     servo[s].locked)'
    BY Zenon DEF OkIsHonest
  <2>1. (CASE last.op = "scan" -> \A id \in last.found : Reached(id) # {}
           [] last.op = "reset" ->
                /\ Reached(DefaultId) # {}
                /\ \A s \in Reached(DefaultId) \ last.there : FactorySet(servo[s])
           [] OTHER ->
                \E s \in Reached(IF last.op = "set_id" THEN last.arg ELSE last.id) :
                  /\ last.op = "read" => servo[s].goal = last.value
                  /\ last.op = "write" => servo[s].goal = last.arg
                  /\ last.op = "set_mode" => servo[s].mode = last.arg
                  /\ last.op = "set_rate" => bus.rate = last.arg
                  /\ last.op \in {"set_id", "set_rate", "set_mode"} /\ Locks =>
                       servo[s].locked)
    BY Zenon DEF ServoCallsHold, OkIsHonest
  <2>2. CASE last.op = "scan" BY <1>2, <2>1, <2>2, Zenon
  <2>3. CASE last.op = "reset"
    <3>1. last.op # "scan" BY <2>3
    <3>2. /\ Reached(DefaultId) # {}
          /\ \A s \in Reached(DefaultId) \ last.there : FactorySet(servo[s])
      BY <2>1, <2>3, <3>1, Zenon
    <3>3. (Reached(DefaultId) # {})' BY <1>2, <3>2, Zenon DEF Reached
    <3>4. (\A s \in Reached(DefaultId) \ last.there : FactorySet(servo[s]))'
      <4> SUFFICES ASSUME NEW s \in Reached(DefaultId)', s \notin last'.there
                   PROVE  FactorySet(servo[s])'
        BY Zenon
      <4>1. s \in Servos /\ FactorySet(servo[s]) BY <1>2, <3>2, Zenon DEF Reached
      <4>. QED BY <1>1, <4>1, Zenon DEF FactorySet
    <3>. QED BY <2>3, <3>1, <3>3, <3>4, Zenon
  <2>4. CASE last.op # "scan" /\ last.op # "reset"
    <3>1. PICK s \in Reached(IF last.op = "set_id" THEN last.arg ELSE last.id) :
                  /\ last.op = "read" => servo[s].goal = last.value
                  /\ last.op = "write" => servo[s].goal = last.arg
                  /\ last.op = "set_mode" => servo[s].mode = last.arg
                  /\ last.op = "set_rate" => bus.rate = last.arg
                  /\ last.op \in {"set_id", "set_rate", "set_mode"} /\ Locks => servo[s].locked
      BY <2>1, <2>4, Zenon
    <3>2. s \in Reached(IF last.op = "set_id" THEN last.arg ELSE last.id)' BY <1>2, <3>1, Zenon
    <3>3. s \in Servos BY <3>1, Zenon DEF Reached
    <3>. QED BY <1>1, <2>4, <3>1, <3>2, <3>3, Zenon
  <2>. QED BY <2>2, <2>3, <2>4
<1>. QED BY <1>3, <1>4, Zenon DEF ServoCallsHold

LEMMA LateKeeps == ServoInv /\ LateArrives => ServoInv'
<1> SUFFICES ASSUME ServoInv, LateArrives PROVE ServoInv' OBVIOUS
<1> DEFINE rx == bus.rx \o late
<1>1. /\ ~call.sent /\ bus' = [bus EXCEPT !.rx = rx]
      /\ family' = family /\ servo' = servo /\ call' = call /\ last' = last
  BY Zenon DEF LateArrives
<1>2. /\ ServoType /\ IsBus(bus) /\ IsCall(call)
      /\ call.op = "idle" => call = Idle /\ ServoCallsHold
      /\ call.op # "idle" => Underway(call, call.step, bus.rate)
  BY CallTypes, Zenon
<1> HIDE DEF rx
<1>3. IsBus(bus') /\ bus'.rate = bus.rate /\ bus'.retries = bus.retries
  BY <1>1, <1>2, BusFields, Zenon
<1>4. ServoType' BY <1>1, <1>2, <1>3, TypeStays
<1>5. Locks' <=> Locks BY <1>1, Zenon DEF Locks
<1>6. call'.sent # TRUE BY <1>1
<1>7. call.op # "idle" => Underway(call, call.step, bus.rate)'
  <2>1. SameCall(call, call') BY <1>1, <1>2, Zenon DEF SameCall
  <2>. QED BY <1>1, <1>2, <1>3, <2>1, UnderwayStays, Zenon
<1>8. call.op = "idle" => ServoCallsHold'
  BY <1>1, <1>2, <1>3, ReturnedStays, Zenon
<1>. QED BY <1>1, <1>2, <1>4, <1>6, <1>7, <1>8, Zenon DEF ServoInv, CallSound

LEMMA RetryKeeps == ServoInv /\ Retry => ServoInv'
<1> SUFFICES ASSUME ServoInv, Retry PROVE ServoInv' OBVIOUS
<1> DEFINE tries == call.tries + 1
           c == [call EXCEPT !.tries = tries, !.sent = FALSE]
<1>1. /\ call.sent /\ bus' = [bus EXCEPT !.rx = <<>>] /\ call' = c
      /\ family' = family /\ servo' = servo
  BY Zenon DEF Retry
<1>2. /\ ServoType /\ IsBus(bus) /\ IsCall(call)
      /\ call.op = "idle" => call = Idle
      /\ call.op # "idle" => Underway(call, call.step, bus.rate)
  BY CallTypes, Zenon
<1>3. call.op # "idle" BY <1>1, <1>2, IdleIs
<1> HIDE DEF tries
<1>4. IsBus(bus') /\ bus'.rate = bus.rate BY <1>1, <1>2, BusFields, Zenon
<1>5. /\ SameCall(call, c) /\ c.step = call.step /\ c.result = call.result
      /\ c.found = call.found /\ c.sent = FALSE
  BY <1>2, CallRetried, Zenon
<1> HIDE DEF c
<1>6. /\ SameCall(call, call') /\ call'.step = call.step /\ call'.result = call.result
      /\ call'.found = call.found /\ call'.sent = FALSE
  BY <1>1, <1>5, Zenon
<1>7. call'.op = call.op /\ IsCall(call') BY <1>6, Zenon DEF SameCall
<1>8. ServoType' BY <1>1, <1>2, <1>4, <1>7, TypeStays
<1>9. Underway(call, call.step, bus.rate)' BY <1>1, <1>2, <1>3, <1>4, <1>6, UnderwayStays
<1>10. TRUE # FALSE OBVIOUS
<1>. QED BY <1>3, <1>6, <1>7, <1>8, <1>9, <1>10, Zenon DEF ServoInv, CallSound

LEMMA ServoWoken ==
    ASSUME NEW r, IsRegister(r)
    PROVE  LET q == [r EXCEPT !.awake = TRUE]
           IN  /\ IsRegister(q) /\ q.awake = TRUE /\ q.id = r.id /\ q.rate = r.rate
               /\ q.mode = r.mode /\ q.goal = r.goal /\ q.locked = r.locked
<1> DEFINE id == r.id rate == r.rate mode == r.mode goal == r.goal locked == r.locked
           awake == r.awake
           q == [id |-> id, rate |-> rate, mode |-> mode, goal |-> goal, locked |-> locked,
                 awake |-> TRUE]
           d == [r EXCEPT !.awake = TRUE]
<1>1. r = [id |-> id, rate |-> rate, mode |-> mode, goal |-> goal, locked |-> locked,
           awake |-> awake] /\ locked \in BOOLEAN /\ awake \in BOOLEAN
  BY Zenon DEF IsRegister
<1> HIDE DEF id, rate, mode, goal, locked, awake
<1>2. d = q
  <2>1. \A v : [[id |-> id, rate |-> rate, mode |-> mode, goal |-> goal, locked |-> locked,
                 awake |-> awake] EXCEPT !.awake = v]
               = [id |-> id, rate |-> rate, mode |-> mode, goal |-> goal, locked |-> locked,
                  awake |-> v]
    OBVIOUS
  <2>. QED BY <1>1, <2>1, Zenon
<1>3. /\ q.id = id /\ q.rate = rate /\ q.mode = mode /\ q.goal = goal /\ q.locked = locked
      /\ q.awake = TRUE
  OBVIOUS
<1> HIDE DEF d
<1>4. d.locked = locked /\ d.awake = TRUE BY <1>2, <1>3, Zenon
<1>5. d.locked \in BOOLEAN /\ d.awake \in BOOLEAN BY <1>1, <1>4
<1>6. d = [id |-> d.id, rate |-> d.rate, mode |-> d.mode, goal |-> d.goal,
           locked |-> d.locked, awake |-> d.awake]
  BY <1>2
<1>. QED
  BY <1>2, <1>3, <1>5, <1>6, Zenon DEF IsRegister, d, id, rate, mode, goal, locked

LEMMA OneReplaced ==
    ASSUME NEW S, NEW f, DOMAIN f = S, NEW w \in S, NEW q
    PROVE  LET g == [f EXCEPT ![w] = q]
           IN  /\ DOMAIN g = S /\ g = [s \in S |-> g[s]]
               /\ \A s \in S : g[s] = f[s] \/ (s = w /\ g[s] = q)
<1> DEFINE g == [f EXCEPT ![w] = q]
<1>1. DOMAIN g = S /\ \A s \in S : g[s] = f[s] \/ (s = w /\ g[s] = q)
  <2>1. DOMAIN g = S OBVIOUS
  <2>2. g[w] = q OBVIOUS
  <2>3. \A s \in S : s # w => g[s] = f[s] OBVIOUS
  <2> HIDE DEF g
  <2>4. ASSUME NEW s \in S PROVE g[s] = f[s] \/ (s = w /\ g[s] = q)
    <3>1. CASE s = w BY <2>2, <3>1, Zenon
    <3>2. CASE s # w BY <2>3, <3>2
    <3>. QED BY <3>1, <3>2
  <2>. QED BY <2>1, <2>4, Zenon
<1>2. g = [s \in S |-> g[s]] OBVIOUS
<1>. QED BY <1>1, <1>2, Zenon

\* Nobody is written to, and nothing is taken off the bus.
LEMMA QuietKeeps ==
    ASSUME ServoInv, family' = family, bus' = bus, call' = call, last' = last,
           DOMAIN servo' = Servos, servo' = [s \in Servos |-> servo'[s]],
           \A s \in Servos :
             /\ IsRegister(servo'[s])
             /\ servo'[s].id = servo[s].id /\ servo'[s].rate = servo[s].rate
             /\ servo'[s].mode = servo[s].mode /\ servo'[s].goal = servo[s].goal
             /\ servo'[s].locked = servo[s].locked
             /\ servo'[s] = servo[s] \/ servo'[s].awake = TRUE
    PROVE  ServoInv'
<1>3. /\ ServoType /\ IsBus(bus) /\ IsCall(call)
      /\ call.op = "idle" => call = Idle /\ ServoCallsHold
      /\ call.op # "idle" => Underway(call, call.step, bus.rate)
  BY CallTypes, Zenon
<1>9. Locks' <=> Locks BY Zenon DEF Locks
<1>10. ServoType'
  <2>1. IsBus(bus)' /\ IsCall(call)' BY <1>3, Zenon DEF IsBus, IsCall
  <2>3. \A s \in Servos : IsRegister(servo[s])' BY Zenon DEF IsRegister
  <2>. QED BY <1>3, <1>9, <2>1, <2>3, Zenon DEF ServoType
<1>11. call.op # "idle" => Underway(call, call.step, bus.rate)'
  <2>1. SameCall(call, call') BY <1>3, Zenon DEF SameCall
  <2>. QED BY <1>3, <2>1, UnderwayStays, Zenon
<1>12. call.op = "idle" => ServoCallsHold' BY <1>3, ReturnedStays, Zenon
<1>14. Outcome' = Outcome /\ PacketOf(call)' = PacketOf(call)
  BY Zenon DEF Outcome, Attempt, PacketOf
<1>15. ASSUME Acked(call, bus.rx, bus.rate) PROVE Acked(call, bus.rx, bus.rate)'
  <2>1. \A s \in Servos : \A id, rate : Listens(s, id, rate) => Listens(s, id, rate)'
    BY Zenon DEF Listens
  <2>2. call.step \in {"ping", "probe"} => (\E s \in Servos : Listens(s, call.id, bus.rate))'
    BY <1>15, <2>1, Zenon DEF Acked
  <2>3. call.step = "poll" => (\E s \in Servos : Listens(s, DefaultId, bus.rate))'
    BY <1>15, <2>1, Zenon DEF Acked
  <2>4. call.step = "read" =>
          (\E s \in Servos : Listens(s, call.id, bus.rate) /\ servo[s].goal = bus.rx[1].unit.value)'
    <3> SUFFICES ASSUME call.step = "read"
                 PROVE  (\E s \in Servos : Listens(s, call.id, bus.rate) /\ servo[s].goal = bus.rx[1].unit.value)'
      OBVIOUS
    <3>1. PICK s \in Servos : Listens(s, call.id, bus.rate) /\ servo[s].goal = bus.rx[1].unit.value
      BY <1>15, Zenon DEF Acked
    <3>2. Listens(s, call.id, bus.rate)' BY <2>1, <3>1, Zenon
    <3>3. servo'[s].goal = bus'.rx[1].unit.value BY <3>1, Zenon
    <3>. QED BY <3>2, <3>3, Zenon
  <2>5. call.step = "goal" =>
          (\E s \in Servos : Listens(s, call.id, bus.rate) /\ servo[s].goal = call.arg)'
    <3> SUFFICES ASSUME call.step = "goal"
                 PROVE  (\E s \in Servos : Listens(s, call.id, bus.rate) /\ servo[s].goal = call.arg)'
      OBVIOUS
    <3>1. PICK s \in Servos : Listens(s, call.id, bus.rate) /\ servo[s].goal = call.arg
      BY <1>15, Zenon DEF Acked
    <3>2. Listens(s, call.id, bus.rate)' BY <2>1, <3>1, Zenon
    <3>3. servo'[s].goal = call'.arg BY <3>1, Zenon
    <3>. QED BY <3>2, <3>3, Zenon
  <2>6. call.step = "unlock" =>
          (\E s \in Servos : Listens(s, call.id, bus.rate) /\ servo[s].locked = FALSE)'
    <3> SUFFICES ASSUME call.step = "unlock"
                 PROVE  (\E s \in Servos : Listens(s, call.id, bus.rate) /\ servo[s].locked = FALSE)'
      OBVIOUS
    <3>1. PICK s \in Servos : Listens(s, call.id, bus.rate) /\ servo[s].locked = FALSE
      BY <1>15, Zenon DEF Acked
    <3>2. Listens(s, call.id, bus.rate)' BY <2>1, <3>1, Zenon
    <3>3. servo'[s].locked = FALSE BY <3>1, Zenon
    <3>. QED BY <3>2, <3>3, Zenon
  <2>7. call.step = "mode" =>
          (\E s \in Servos : Listens(s, call.id, bus.rate) /\ servo[s].mode = call.arg)'
    <3> SUFFICES ASSUME call.step = "mode"
                 PROVE  (\E s \in Servos : Listens(s, call.id, bus.rate) /\ servo[s].mode = call.arg)'
      OBVIOUS
    <3>1. PICK s \in Servos : Listens(s, call.id, bus.rate) /\ servo[s].mode = call.arg
      BY <1>15, Zenon DEF Acked
    <3>2. Listens(s, call.id, bus.rate)' BY <2>1, <3>1, Zenon
    <3>3. servo'[s].mode = call'.arg BY <3>1, Zenon
    <3>. QED BY <3>2, <3>3, Zenon
  <2>8. call.step = "relock" =>
          (\E s \in Servos : /\ Listens(s, call.id, bus.rate) /\ servo[s].locked = TRUE
                             /\ call.op = "set_mode" => servo[s].mode = call.arg)'
    <3> SUFFICES ASSUME call.step = "relock"
                 PROVE  (\E s \in Servos :
                           /\ Listens(s, call.id, bus.rate) /\ servo[s].locked = TRUE
                           /\ call.op = "set_mode" => servo[s].mode = call.arg)'
      OBVIOUS
    <3>1. PICK s \in Servos : /\ Listens(s, call.id, bus.rate) /\ servo[s].locked = TRUE
                              /\ call.op = "set_mode" => servo[s].mode = call.arg
      BY <1>15, Zenon DEF Acked
    <3>2. Listens(s, call.id, bus.rate)' BY <2>1, <3>1, Zenon
    <3>3. servo'[s].locked = TRUE /\ (call'.op = "set_mode" => servo'[s].mode = call'.arg)
      BY <3>1, Zenon
    <3>. QED BY <3>2, <3>3, Zenon
  <2>9. call.step = "relock_new" =>
          (\E s \in Servos : Listens(s, call.arg, bus.rate) /\ servo[s].locked = TRUE)'
    <3> SUFFICES ASSUME call.step = "relock_new"
                 PROVE  (\E s \in Servos : Listens(s, call.arg, bus.rate) /\ servo[s].locked = TRUE)'
      OBVIOUS
    <3>1. PICK s \in Servos : Listens(s, call.arg, bus.rate) /\ servo[s].locked = TRUE
      BY <1>15, Zenon DEF Acked
    <3>2. Listens(s, call.arg, bus.rate)' BY <2>1, <3>1, Zenon
    <3>3. servo'[s].locked = TRUE BY <3>1, Zenon
    <3>. QED BY <3>2, <3>3, Zenon
  <2>10. ASSUME call.step = "id", ~Locks PROVE Found(call.arg, bus.rate)'
    <3>1. Found(call.arg, bus.rate) BY <1>15, <2>10, Zenon DEF Acked
    <3>2. PICK s \in Servos : servo[s].id = call.arg /\ servo[s].rate = bus.rate
      BY <3>1, Zenon DEF Found
    <3>3. servo'[s].id = call'.arg /\ servo'[s].rate = bus'.rate BY <3>2, Zenon
    <3>. QED BY <3>3, Zenon DEF Found
  <2>. QED
    BY <1>9, <2>2, <2>3, <2>4, <2>5, <2>6, <2>7, <2>8, <2>9, <2>10, Zenon DEF Acked
<1>. QED
  BY <1>3, <1>10, <1>11, <1>12, <1>14, <1>15, Zenon DEF ServoInv, CallSound

LEMMA WakesKeeps == ServoInv /\ ServoWakes => ServoInv'
<1> SUFFICES ASSUME ServoInv, ServoWakes PROVE ServoInv' OBVIOUS
<1>1. PICK w \in Servos : ~servo[w].awake /\ servo' = [servo EXCEPT ![w].awake = TRUE]
  BY Zenon DEF ServoWakes
<1>2. family' = family /\ bus' = bus /\ call' = call /\ last' = last BY DEF ServoWakes
<1>3. DOMAIN servo = Servos /\ \A s \in Servos : IsRegister(servo[s])
  BY Zenon DEF ServoInv, ServoType
<1> DEFINE q == [servo[w] EXCEPT !.awake = TRUE]
<1>5. /\ IsRegister(q) /\ q.awake = TRUE /\ q.id = servo[w].id /\ q.rate = servo[w].rate
      /\ q.mode = servo[w].mode /\ q.goal = servo[w].goal /\ q.locked = servo[w].locked
  BY <1>3, ServoWoken, Zenon
<1>6. servo' = [servo EXCEPT ![w] = q] BY <1>1, Zenon
<1> HIDE DEF q
<1>7. /\ DOMAIN servo' = Servos /\ servo' = [s \in Servos |-> servo'[s]]
      /\ \A s \in Servos : servo'[s] = servo[s] \/ (s = w /\ servo'[s] = q)
  BY <1>3, <1>6, OneReplaced, Zenon
<1>8. \A s \in Servos :
        /\ IsRegister(servo'[s])
        /\ servo'[s].id = servo[s].id /\ servo'[s].rate = servo[s].rate
        /\ servo'[s].mode = servo[s].mode /\ servo'[s].goal = servo[s].goal
        /\ servo'[s].locked = servo[s].locked
        /\ servo'[s] = servo[s] \/ servo'[s].awake = TRUE
  BY <1>3, <1>5, <1>7, Zenon
<1>. QED BY <1>2, <1>7, <1>8, QuietKeeps, Zenon

LEMMA FirstFits ==
    ASSUME NEW op \in {"ping", "read", "write", "scan", "reset", "set_mode", "set_id", "set_rate"}
    PROVE  LET step == FirstStep(op)
           IN  /\ StepFits(op, step)
               /\ step \notin {"relock", "relock_new", "relock_old", "poll"}
               /\ step = "unlock" => Locks
               /\ step = "mode" => ~Locks
               /\ op = "set_rate" => step # "ping"
<1>1. CASE op = "ping" BY <1>1 DEF FirstStep, StepFits
<1>6. CASE op = "read" BY <1>6 DEF FirstStep, StepFits
<1>7. CASE op = "write" BY <1>7 DEF FirstStep, StepFits
<1>8. CASE op = "scan" BY <1>8 DEF FirstStep, StepFits
<1>2. CASE op = "set_id" BY <1>2 DEF FirstStep, StepFits
<1>3. CASE op = "set_rate" BY <1>3 DEF FirstStep, StepFits
<1>4. CASE op = "set_mode" BY <1>4 DEF FirstStep, StepFits
<1>5. CASE op = "reset" BY <1>5 DEF FirstStep, StepFits
<1>. QED BY <1>1, <1>2, <1>3, <1>4, <1>5, <1>6, <1>7, <1>8, Zenon

LEMMA ServoCallKeeps == ServoInv /\ ServoCall => ServoInv'
<1> SUFFICES ASSUME ServoInv, ServoCall PROVE ServoInv' OBVIOUS
<1>1. PICK c \in RegisterCalls \cup EepromCalls :
         StartAt([Idle EXCEPT !.op = c.op, !.id = c.id, !.arg = c.arg, !.rate = bus.rate,
                              !.there = AtFactory],
                 FirstStep(c.op), bus)
  BY Zenon DEF ServoCall
<1> DEFINE d == [Idle EXCEPT !.op = c.op, !.id = c.id, !.arg = c.arg, !.rate = bus.rate,
                             !.there = AtFactory]
           step == FirstStep(c.op)
<1>2. /\ IsCall(d) /\ d.op = c.op /\ d.id = c.id /\ d.arg = c.arg /\ d.rate = bus.rate
      /\ d.found = {} /\ d.there = AtFactory
  <2> DEFINE op == c.op id == c.id arg == c.arg rate == bus.rate there == AtFactory
  <2>. HIDE DEF op, id, arg, rate, there
  <2>1. LET e == [Idle EXCEPT !.op = op, !.id = id, !.arg = arg, !.rate = rate,
                              !.there = there]
        IN  /\ IsCall(e) /\ e.op = op /\ e.id = id /\ e.arg = arg /\ e.rate = rate
            /\ e.found = {} /\ e.there = there
    BY ONLY TRUE DEF IsCall, Idle
  <2>. QED BY ONLY <2>1, Zenon DEF op, id, arg, rate, there
<1>3. ServoType /\ IsBus(bus) BY CallTypes, Zenon
<1>4. /\ c.op \in {"ping", "read", "write", "scan", "reset", "set_mode", "set_id", "set_rate"}
      /\ c.op = "scan" => c.id = 1
      /\ c.op = "set_id" => c.arg \in Ids
  <2>1. CASE c \in RegisterCalls BY ONLY <2>1 DEF RegisterCalls
  <2>2. CASE c \in EepromCalls BY ONLY <2>2 DEF EepromCalls
  <2>. QED BY <2>1, <2>2, Zenon
<1>5. /\ StepFits(c.op, step)
      /\ step \notin {"relock", "relock_new", "relock_old", "poll"}
      /\ step = "unlock" => Locks
      /\ step = "mode" => ~Locks
      /\ c.op = "set_rate" => step # "ping"
  BY <1>4, FirstFits, Zenon
<1>6. StartAt(d, step, bus) BY <1>1, Zenon
<1>7. c.op = "scan" => c.id # Broadcast BY <1>4 DEF Broadcast
<1>8. c.op = "set_id" => c.arg # Broadcast BY <1>4, ServoAssumption DEF Broadcast
<1> HIDE DEF d, step
<1>9. /\ ~AtNewRate(d, step) /\ step # "relock_old" /\ step # "relock"
      /\ step \in {"unlock", "relock", "relock_new", "relock_old"} => Locks
  BY <1>2, <1>5 DEF AtNewRate
<1>11. step # "poll" BY <1>5
<1>10. Underway(d, step, bus.rate)
  BY <1>2, <1>5, <1>7, <1>8, <1>9, <1>11, Zenon DEF Underway, ResetSoFar
<1>. QED BY <1>2, <1>3, <1>6, <1>10, ServoStartKeeps

LEMMA InitServo == ServoInit => ServoInv
<1> SUFFICES ASSUME ServoInit PROVE ServoInv OBVIOUS
<1>1. PICK rate \in Rates :
         /\ servo = [s \in Servos |-> [id |-> s, rate |-> rate, mode |-> 0, goal |-> 0,
                                       locked |-> family = "feetech", awake |-> TRUE]]
         /\ bus = [rate |-> rate, retries |-> Retries, rx |-> <<>>]
  BY DEF ServoInit
<1>2. family \in {"feetech", "ax12"} /\ call = Idle /\ last = NoCall BY DEF ServoInit
<1>3. IsCall(call) /\ call.op = "idle" /\ call.sent = FALSE BY <1>2, IdleIs, Zenon
<1>4. /\ DOMAIN servo = Servos /\ servo = [s \in Servos |-> servo[s]]
      /\ \A s \in Servos : IsRegister(servo[s]) /\ (~Locks => servo[s].locked = FALSE)
  BY <1>1, <1>2 DEF IsRegister, Locks
<1>5. IsBus(bus) /\ bus.retries = Retries BY <1>1 DEF IsBus
<1>6. last.result # "ok" /\ last.op = "idle" BY <1>2 DEF NoCall
<1>7. ServoCallsHold BY <1>5, <1>6, Zenon DEF ServoCallsHold, OkIsHonest, BusIsPutBack
<1>. QED BY <1>2, <1>3, <1>4, <1>5, <1>7, Zenon DEF ServoInv, ServoType, CallSound

LEMMA StepServo == ServoInv /\ [ServoNext]_servoVars => ServoInv'
<1> SUFFICES ASSUME ServoInv, [ServoNext]_servoVars PROVE ServoInv' OBVIOUS
<1>1. CASE ServoCall BY <1>1, ServoCallKeeps
<1>2. CASE \E fate \in Fates : Send(fate) BY <1>2, ServoSendKeeps
<1>3. CASE LateArrives BY <1>3, LateKeeps
<1>4. CASE Retry BY <1>4, RetryKeeps
<1>5. CASE UnlockDone BY <1>5, UnlockKeeps
<1>6. CASE TransactionDone BY <1>6, TransactionKeeps
<1>7. CASE ProbeDone BY <1>7, ProbeKeeps
<1>8. CASE IdDone BY <1>8, IdKeeps
<1>9. CASE RateDone BY <1>9, RateKeeps
<1>10. CASE RatePingDone BY <1>10, RatePingKeeps
<1>11. CASE ModeDone BY <1>11, ModeKeeps
<1>12. CASE RelockDone BY <1>12, RelockKeeps
<1>13. CASE ResetDone BY <1>13, ResetKeeps
<1>14. CASE PollDone BY <1>14, ServoPollKeeps
<1>15. CASE ServoWakes BY <1>15, WakesKeeps
<1>16. CASE UNCHANGED servoVars
  <2>1. /\ family' = family /\ servo' = servo /\ bus' = bus /\ call' = call /\ last' = last
    BY <1>16 DEF servoVars
  <2>2. /\ DOMAIN servo = Servos /\ servo = [s \in Servos |-> servo[s]]
        /\ \A s \in Servos : IsRegister(servo[s])
    BY Zenon DEF ServoInv, ServoType
  <2>3. DOMAIN servo' = Servos /\ servo' = [s \in Servos |-> servo'[s]]
    BY <2>1, <2>2, Zenon
  <2>. QED BY <2>1, <2>2, <2>3, QuietKeeps, Zenon
<1>. QED
  BY <1>1, <1>2, <1>3, <1>4, <1>5, <1>6, <1>7, <1>8, <1>9, <1>10, <1>11, <1>12, <1>13, <1>14,
     <1>15, <1>16 DEF ServoNext

LEMMA ServoHolds == ServoInv => ServoCallsHold
<1> SUFFICES ASSUME ServoInv PROVE ServoCallsHold OBVIOUS
<1>1. CASE call.op = "idle" BY <1>1, Zenon DEF ServoInv, CallSound
<1>2. CASE call.op # "idle" BY <1>2, Zenon DEF ServoCallsHold, OkIsHonest, BusIsPutBack
<1>. QED BY <1>1, <1>2

\* A call of the servo drivers that reports success has done what it was asked
\* (a reset: somebody is at the factory settings, and whoever came there in the
\* call was reset), and every call gives the bus back with its retries, and at
\* another rate than before only where the servo it was about is found, whatever
\* answer was lost, cut, garbled or late.  Nothing is said of the servo that a
\* failed call was about: RateFailureStrandsNobody and IdIsUnchanged are false
\* (servo_bus.c's transact, feetech.c's and ax12.c's set_id, set_baudrate,
\* set_mode, factory_reset and scan).
THEOREM ServoCorrect == ServoSpec => []ServoCallsHold
BY InitServo, StepServo, ServoHolds, PTL DEF ServoSpec
-----------------------------------------------------------------------------
(***************************************************************************)
(* Vl53l0x                                                                 *)
(***************************************************************************)

BudgetOps == {"budget", "periods", "long_range", "renewed"}

Steps == {"probe", "prepare", "spads", "tuning", "interrupt", "adopt", "sequence", "calibrate",
          "enable", "move", "follow", "read_timing", "write_final", "pre_period",
          "final_period", "limit", "new_budget", "arm", "start_single", "started", "wait",
          "raw", "status", "clear", "start_continuous", "stop", "data_ready"}

\* What is left to do of a call, counted from its end: a budget is read and
\* written last, a measurement is read, judged and cleared.
WellPlanned(op, steps) ==
    LET n == Len(steps)
    IN  /\ steps \in Seq(Steps)
        /\ op = "idle" <=> n = 0
        /\ op \in BudgetOps =>
             /\ steps[n] = "write_final"
             /\ n > 1 => steps[n - 1] = "read_timing"
        /\ op \in Reads =>
             /\ steps[n] = "clear"
             /\ n > 1 => steps[n - 1] = "status"
             /\ n > 2 => steps[n - 2] = "raw"
             /\ n > 3 => steps[n - 3] \in {"wait", "data_ready"}
        /\ op = "long_range" => n > 2 /\ steps[n - 2] = "new_budget"
        /\ \A i \in 1..n :
             /\ steps[i] \in {"pre_period", "final_period"} => op \in {"periods", "long_range"}
             /\ steps[i] = "write_final" => op \in BudgetOps
             /\ steps[i] = "move" => op = "address"
             /\ steps[i] = "new_budget" => op = "long_range" /\ i = n - 2
             /\ op = "renewed" => i > n - 2
             /\ steps[i] = "status" => i < n

PeriodPair == [pre : Nat \ {0}, final : Nat \ {0}]

ArgFits(op, arg) ==
    /\ op \in {"periods", "long_range"} => arg \in PeriodPair
    /\ op \in {"budget", "renewed"} => arg \in Nat
    /\ op = "address" => arg \in Addresses

Chips == [address : Addresses, mode : {"off", "single", "continuous"},
          started : BOOLEAN, ready : BOOLEAN, unread : BOOLEAN, good : BOOLEAN,
          periods : PeriodPair, mclks : Nat, faults : Nat]

TofType ==
    /\ sensor \in [address : Addresses, budget : Nat, continuous : BOOLEAN,
                   initialised : BOOLEAN]
    /\ chip \in Chips
    /\ tofCall = [op |-> tofCall.op, arg |-> tofCall.arg, steps |-> tofCall.steps,
                  fresh |-> tofCall.fresh, mine |-> tofCall.mine, result |-> tofCall.result]
    /\ tofLast = [op |-> tofLast.op, result |-> tofLast.result, fresh |-> tofLast.fresh]
    /\ {tofCall.fresh, tofCall.mine, tofLast.fresh} \subseteq BOOLEAN
    /\ tofCall.result \in {"ok", "bad", "i2c"}

\* A measurement that is ready is unread, and one that is being read was.
ReadingUnderWay ==
    /\ chip.ready => chip.unread
    /\ tofCall.op \in Reads /\ Len(tofCall.steps) = 3 => chip.ready
    /\ tofCall.op \in Reads /\ Len(tofCall.steps) < 3 => tofCall.fresh

TofInv ==
    /\ TofType /\ ArgFits(tofCall.op, tofCall.arg) /\ WellPlanned(tofCall.op, tofCall.steps)
    /\ ReadingUnderWay
    /\ tofCall.op # "idle" => tofLast.op = "none"
    /\ SensorAgrees

-----------------------------------------------------------------------------
(* The plans of the calls *)

LEMMA StepsJoined ==
    ASSUME NEW A \in Seq(Steps), NEW B \in Seq(Steps)
    PROVE  /\ A \o B \in Seq(Steps) /\ Len(A \o B) = Len(A) + Len(B)
           /\ \A i \in 1..Len(A) : (A \o B)[i] = A[i]
           /\ \A i \in 1..Len(B) : (A \o B)[Len(A) + i] = B[i]
<1>1. Len(A) \in Nat /\ Len(B) \in Nat BY LenProperties
<1>. QED BY <1>1, ConcatProperties

LEMMA PlanOfEach ==
    /\ WellPlanned("init", StepsOf("init")) /\ WellPlanned("address", StepsOf("address"))
    /\ WellPlanned("budget", StepsOf("budget")) /\ WellPlanned("periods", StepsOf("periods"))
    /\ WellPlanned("long_range", StepsOf("long_range"))
    /\ WellPlanned("single", StepsOf("single")) /\ WellPlanned("start", StepsOf("start"))
    /\ WellPlanned("stop", StepsOf("stop"))
    /\ WellPlanned("continuous", StepsOf("continuous"))
<1>1. WellPlanned("init", StepsOf("init"))
  <2>1. StepsOf("init") = <<"probe", "prepare", "spads", "tuning", "interrupt", "adopt", "sequence", "calibrate", "enable">>
    BY DEF StepsOf, InitSteps
  <2> DEFINE s == <<"probe", "prepare", "spads", "tuning", "interrupt", "adopt", "sequence", "calibrate", "enable">>
  <2>2. s \in Seq(Steps) /\ Len(s) = 9 BY DEF Steps
  <2>3. s[1] = "probe" /\ s[2] = "prepare" /\ s[3] = "spads" /\ s[4] = "tuning" /\ s[5] = "interrupt" /\ s[6] = "adopt" /\ s[7] = "sequence" /\ s[8] = "calibrate" /\ s[9] = "enable"
    OBVIOUS
  <2>4. 1..9 = {1, 2, 3, 4, 5, 6, 7, 8, 9} OBVIOUS
  <2> HIDE DEF s
  <2>5. WellPlanned("init", s) BY <2>2, <2>3, <2>4 DEF WellPlanned, BudgetOps, Reads
  <2>. QED BY <2>1, <2>5 DEF s
<1>2. WellPlanned("address", StepsOf("address"))
  <2>1. StepsOf("address") = <<"move", "follow">>
    BY DEF StepsOf
  <2> DEFINE s == <<"move", "follow">>
  <2>2. s \in Seq(Steps) /\ Len(s) = 2 BY DEF Steps
  <2>3. s[1] = "move" /\ s[2] = "follow"
    OBVIOUS
  <2>4. 1..2 = {1, 2} OBVIOUS
  <2> HIDE DEF s
  <2>5. WellPlanned("address", s) BY <2>2, <2>3, <2>4 DEF WellPlanned, BudgetOps, Reads
  <2>. QED BY <2>1, <2>5 DEF s
<1>3. WellPlanned("budget", StepsOf("budget"))
  <2>1. StepsOf("budget") = <<"read_timing", "write_final">>
    BY DEF StepsOf, ApplyBudget
  <2> DEFINE s == <<"read_timing", "write_final">>
  <2>2. s \in Seq(Steps) /\ Len(s) = 2 BY DEF Steps
  <2>3. s[1] = "read_timing" /\ s[2] = "write_final"
    OBVIOUS
  <2>4. 1..2 = {1, 2} OBVIOUS
  <2> HIDE DEF s
  <2>5. WellPlanned("budget", s) BY <2>2, <2>3, <2>4 DEF WellPlanned, BudgetOps, Reads
  <2>. QED BY <2>1, <2>5 DEF s
<1>4. WellPlanned("periods", StepsOf("periods"))
  <2> DEFINE A == <<"pre_period", "final_period">>
             B == <<"read_timing", "write_final">>
             s == A \o B
  <2>1. StepsOf("periods") = s BY DEF StepsOf, PeriodSteps, ApplyBudget
  <2>2. A \in Seq(Steps) /\ Len(A) = 2 /\ A[1] = "pre_period" /\ A[2] = "final_period"
    BY DEF Steps
  <2>3. B \in Seq(Steps) /\ Len(B) = 2 /\ B[1] = "read_timing" /\ B[2] = "write_final"
    BY DEF Steps
  <2> HIDE DEF A, B
  <2>8. /\ s \in Seq(Steps) /\ Len(s) = Len(A) + Len(B)
        /\ \A i \in 1..Len(A) : s[i] = A[i]
        /\ \A i \in 1..Len(B) : s[Len(A) + i] = B[i]
    BY <2>2, <2>3, StepsJoined, Zenon
  <2> HIDE DEF s
  <2>4. /\ s \in Seq(Steps) /\ Len(s) = 4
        /\ \A i \in 1..2 : s[i] = A[i]
        /\ \A i \in 1..2 : s[2 + i] = B[i]
    BY <2>2, <2>3, <2>8
  <2>5. s[1] = "pre_period" /\ s[2] = "final_period" /\ s[3] = "read_timing" /\ s[4] = "write_final"
    BY <2>2, <2>3, <2>4
  <2>6. 1..4 = {1, 2, 3, 4} OBVIOUS
  <2>7. WellPlanned("periods", s) BY <2>4, <2>5, <2>6 DEF WellPlanned, BudgetOps, Reads
  <2>. QED BY <2>1, <2>7
<1>5. WellPlanned("long_range", StepsOf("long_range"))
  <2> DEFINE A == <<"limit">>
             B == <<"pre_period", "final_period">>
             C == <<"read_timing", "write_final">>
             D == <<"new_budget">>
             P == B \o C
             Q == A \o P
             R == Q \o D
             s == R \o C
  <2>1. StepsOf("long_range") = s BY DEF StepsOf, PeriodSteps, ApplyBudget
  <2>2. A \in Seq(Steps) /\ Len(A) = 1 /\ A[1] = "limit"
    BY DEF Steps
  <2>3. B \in Seq(Steps) /\ Len(B) = 2 /\ B[1] = "pre_period" /\ B[2] = "final_period"
    BY DEF Steps
  <2>4. C \in Seq(Steps) /\ Len(C) = 2 /\ C[1] = "read_timing" /\ C[2] = "write_final"
    BY DEF Steps
  <2>5. D \in Seq(Steps) /\ Len(D) = 1 /\ D[1] = "new_budget"
    BY DEF Steps
  <2> HIDE DEF A, B, C, D
  <2>60. /\ P \in Seq(Steps) /\ Len(P) = Len(B) + Len(C)
         /\ \A i \in 1..Len(B) : P[i] = B[i]
         /\ \A i \in 1..Len(C) : P[Len(B) + i] = C[i]
    BY <2>3, <2>4, StepsJoined, Zenon
  <2> HIDE DEF P
  <2>6. /\ P \in Seq(Steps) /\ Len(P) = 4
        /\ \A i \in 1..2 : P[i] = B[i] /\ P[2 + i] = C[i]
    BY <2>3, <2>4, <2>60
  <2>70. /\ Q \in Seq(Steps) /\ Len(Q) = Len(A) + Len(P)
         /\ \A i \in 1..Len(A) : Q[i] = A[i]
         /\ \A i \in 1..Len(P) : Q[Len(A) + i] = P[i]
    BY <2>2, <2>6, StepsJoined, Zenon
  <2> HIDE DEF Q
  <2>7. /\ Q \in Seq(Steps) /\ Len(Q) = 5 /\ Q[1] = A[1]
        /\ \A i \in 1..4 : Q[1 + i] = P[i]
    BY <2>2, <2>6, <2>70
  <2>80. /\ R \in Seq(Steps) /\ Len(R) = Len(Q) + Len(D)
         /\ \A i \in 1..Len(Q) : R[i] = Q[i]
         /\ \A i \in 1..Len(D) : R[Len(Q) + i] = D[i]
    BY <2>5, <2>7, StepsJoined, Zenon
  <2> HIDE DEF R
  <2>8. /\ R \in Seq(Steps) /\ Len(R) = 6
        /\ \A i \in 1..5 : R[i] = Q[i]
        /\ \A i \in 1..1 : R[5 + i] = D[i]
    BY <2>5, <2>7, <2>80
  <2>90. /\ s \in Seq(Steps) /\ Len(s) = Len(R) + Len(C)
         /\ \A i \in 1..Len(R) : s[i] = R[i]
         /\ \A i \in 1..Len(C) : s[Len(R) + i] = C[i]
    BY <2>4, <2>8, StepsJoined, Zenon
  <2> HIDE DEF s
  <2>9. /\ s \in Seq(Steps) /\ Len(s) = 8
        /\ \A i \in 1..6 : s[i] = R[i]
        /\ \A i \in 1..2 : s[6 + i] = C[i]
    BY <2>4, <2>8, <2>90
  <2>10. s[1] = "limit" /\ s[2] = "pre_period" /\ s[3] = "final_period"
    BY <2>2, <2>3, <2>6, <2>7, <2>8, <2>9
  <2>11. s[4] = "read_timing" /\ s[5] = "write_final"
    BY <2>4, <2>6, <2>7, <2>8, <2>9
  <2>12. s[6] = "new_budget" /\ s[7] = "read_timing" /\ s[8] = "write_final"
    BY <2>4, <2>5, <2>8, <2>9
  <2>13. 1..8 = {1, 2, 3, 4, 5, 6, 7, 8} OBVIOUS
  <2>14. WellPlanned("long_range", s)
    BY <2>9, <2>10, <2>11, <2>12, <2>13 DEF WellPlanned, BudgetOps, Reads
  <2>. QED BY <2>1, <2>14
<1>6. WellPlanned("single", StepsOf("single"))
  <2> DEFINE A == <<"arm", "start_single", "started", "wait">>
             B == <<"raw", "status", "clear">>
             s == A \o B
  <2>1. StepsOf("single") = s BY DEF StepsOf, Measure
  <2>2. A \in Seq(Steps) /\ Len(A) = 4 /\ A[1] = "arm" /\ A[2] = "start_single" /\ A[3] = "started" /\ A[4] = "wait"
    BY DEF Steps
  <2>3. B \in Seq(Steps) /\ Len(B) = 3 /\ B[1] = "raw" /\ B[2] = "status" /\ B[3] = "clear"
    BY DEF Steps
  <2> HIDE DEF A, B
  <2>8. /\ s \in Seq(Steps) /\ Len(s) = Len(A) + Len(B)
        /\ \A i \in 1..Len(A) : s[i] = A[i]
        /\ \A i \in 1..Len(B) : s[Len(A) + i] = B[i]
    BY <2>2, <2>3, StepsJoined, Zenon
  <2> HIDE DEF s
  <2>4. /\ s \in Seq(Steps) /\ Len(s) = 7
        /\ \A i \in 1..4 : s[i] = A[i]
        /\ \A i \in 1..3 : s[4 + i] = B[i]
    BY <2>2, <2>3, <2>8
  <2>5. s[1] = "arm" /\ s[2] = "start_single" /\ s[3] = "started" /\ s[4] = "wait" /\ s[5] = "raw" /\ s[6] = "status" /\ s[7] = "clear"
    BY <2>2, <2>3, <2>4
  <2>6. 1..7 = {1, 2, 3, 4, 5, 6, 7} OBVIOUS
  <2>7. WellPlanned("single", s) BY <2>4, <2>5, <2>6 DEF WellPlanned, BudgetOps, Reads
  <2>. QED BY <2>1, <2>7
<1>7. WellPlanned("start", StepsOf("start"))
  <2>1. StepsOf("start") = <<"arm", "start_continuous">>
    BY DEF StepsOf
  <2> DEFINE s == <<"arm", "start_continuous">>
  <2>2. s \in Seq(Steps) /\ Len(s) = 2 BY DEF Steps
  <2>3. s[1] = "arm" /\ s[2] = "start_continuous"
    OBVIOUS
  <2>4. 1..2 = {1, 2} OBVIOUS
  <2> HIDE DEF s
  <2>5. WellPlanned("start", s) BY <2>2, <2>3, <2>4 DEF WellPlanned, BudgetOps, Reads
  <2>. QED BY <2>1, <2>5 DEF s
<1>8. WellPlanned("stop", StepsOf("stop"))
  <2>1. StepsOf("stop") = <<"stop">>
    BY DEF StepsOf
  <2> DEFINE s == <<"stop">>
  <2>2. s \in Seq(Steps) /\ Len(s) = 1 BY DEF Steps
  <2>3. s[1] = "stop"
    OBVIOUS
  <2>4. 1..1 = {1} OBVIOUS
  <2> HIDE DEF s
  <2>5. WellPlanned("stop", s) BY <2>2, <2>3, <2>4 DEF WellPlanned, BudgetOps, Reads
  <2>. QED BY <2>1, <2>5 DEF s
<1>9. WellPlanned("continuous", StepsOf("continuous"))
  <2> DEFINE A == <<"data_ready">>
             B == <<"raw", "status", "clear">>
             s == A \o B
  <2>1. StepsOf("continuous") = s BY DEF StepsOf, Measure
  <2>2. A \in Seq(Steps) /\ Len(A) = 1 /\ A[1] = "data_ready"
    BY DEF Steps
  <2>3. B \in Seq(Steps) /\ Len(B) = 3 /\ B[1] = "raw" /\ B[2] = "status" /\ B[3] = "clear"
    BY DEF Steps
  <2> HIDE DEF A, B
  <2>8. /\ s \in Seq(Steps) /\ Len(s) = Len(A) + Len(B)
        /\ \A i \in 1..Len(A) : s[i] = A[i]
        /\ \A i \in 1..Len(B) : s[Len(A) + i] = B[i]
    BY <2>2, <2>3, StepsJoined, Zenon
  <2> HIDE DEF s
  <2>4. /\ s \in Seq(Steps) /\ Len(s) = 4
        /\ \A i \in 1..1 : s[i] = A[i]
        /\ \A i \in 1..3 : s[1 + i] = B[i]
    BY <2>2, <2>3, <2>8
  <2>5. s[1] = "data_ready" /\ s[2] = "raw" /\ s[3] = "status" /\ s[4] = "clear"
    BY <2>2, <2>3, <2>4
  <2>6. 1..4 = {1, 2, 3, 4} OBVIOUS
  <2>7. WellPlanned("continuous", s) BY <2>4, <2>5, <2>6 DEF WellPlanned, BudgetOps, Reads
  <2>. QED BY <2>1, <2>7
<1>. QED BY <1>1, <1>2, <1>3, <1>4, <1>5, <1>6, <1>7, <1>8, <1>9

LEMMA TailOf ==
    ASSUME NEW steps \in Seq(Steps), Len(steps) > 1
    PROVE  /\ Tail(steps) \in Seq(Steps) /\ Len(Tail(steps)) = Len(steps) - 1
           /\ \A i \in 1..Len(steps) - 1 : Tail(steps)[i] = steps[i + 1]
           /\ Len(steps) \in Nat
OBVIOUS

\* A step forward leaves a plan, and a budget renewed is one of its own.
LEMMA PlanAdvances ==
    ASSUME NEW op, NEW steps, WellPlanned(op, steps), Len(steps) > 1
    PROVE  /\ Head(steps) # "new_budget" => WellPlanned(op, Tail(steps))
           /\ Head(steps) = "new_budget" => WellPlanned("renewed", Tail(steps))
<1> DEFINE n == Len(steps)
           t == Tail(steps)
<1>1. /\ t \in Seq(Steps) /\ Len(t) = n - 1 /\ n \in Nat /\ n > 1
      /\ \A i \in 1..n - 1 : t[i] = steps[i + 1]
  BY TailOf DEF WellPlanned
<1>2. Head(steps) = steps[1]
  BY DEF WellPlanned
<1>3. \A i \in 1..n : steps[i] = "new_budget" => op = "long_range" /\ i = n - 2
  BY DEF WellPlanned
<1> HIDE DEF t
<1>4. ASSUME Head(steps) # "new_budget" PROVE WellPlanned(op, t)
  <2>1. op # "idle" /\ n - 1 # 0 BY <1>1 DEF WellPlanned
  <2>2. op \in BudgetOps => /\ t[n - 1] = "write_final"
                            /\ n - 1 > 1 => t[n - 1 - 1] = "read_timing"
    BY <1>1 DEF WellPlanned
  <2>3. op \in Reads => /\ t[n - 1] = "clear"
                        /\ n - 1 > 1 => t[n - 1 - 1] = "status"
                        /\ n - 1 > 2 => t[n - 1 - 2] = "raw"
                        /\ n - 1 > 3 => t[n - 1 - 3] \in {"wait", "data_ready"}
    <3>1. t[n - 1] = steps[n] BY <1>1
    <3>2. n - 1 > 1 => t[n - 1 - 1] = steps[n - 1] BY <1>1
    <3>3. n - 1 > 2 => t[n - 1 - 2] = steps[n - 2] BY <1>1
    <3>4. n - 1 > 3 => t[n - 1 - 3] = steps[n - 3] BY <1>1
    <3>. QED BY <1>1, <3>1, <3>2, <3>3, <3>4 DEF WellPlanned
  <2>4. ASSUME NEW i \in 1..n - 1
        PROVE  /\ t[i] \in {"pre_period", "final_period"} => op \in {"periods", "long_range"}
               /\ t[i] = "write_final" => op \in BudgetOps
               /\ t[i] = "move" => op = "address"
               /\ t[i] = "new_budget" => op = "long_range" /\ i = n - 1 - 2
               /\ op = "renewed" => i > n - 1 - 2
               /\ t[i] = "status" => i < n - 1
    <3>1. i + 1 \in 1..n /\ t[i] = steps[i + 1] /\ i \in Nat BY <1>1
    <3>. QED BY <1>1, <3>1 DEF WellPlanned
  <2>5. op = "long_range" => n - 1 > 2
    BY <1>1, <1>2, <1>3, <1>4 DEF WellPlanned
  <2>. QED BY <1>1, <2>1, <2>2, <2>3, <2>4, <2>5 DEF WellPlanned
<1>5. ASSUME Head(steps) = "new_budget" PROVE WellPlanned("renewed", t)
  <2>1. op = "long_range" /\ n = 3
    BY <1>1, <1>2, <1>3, <1>5
  <2>2. t[1] = "read_timing" /\ t[2] = "write_final"
    BY <2>1, <1>1 DEF WellPlanned, BudgetOps
  <2>. QED BY <1>1, <2>1, <2>2 DEF WellPlanned, BudgetOps, Reads
<1>. QED BY <1>4, <1>5 DEF t
-----------------------------------------------------------------------------
(* The arithmetic of the timing budget *)

\* vl53l0x_timeout_us_to_mclks rounds to the nearest.
LEMMA MacroRounded ==
    ASSUME NEW d \in Nat, NEW f \in Nat \ {0}
    PROVE  LET m == (d + f \div 2) \div f
           IN  m \in Nat /\ 2 * Gap(m * f, d) <= f
<1> DEFINE h == f \div 2
           m == (d + h) \div f
           p == m * f
<1>1. h \in Nat /\ 2 * h <= f /\ f <= 2 * h + 1
  OBVIOUS
<1> HIDE DEF h
<1>2. d + h \in Nat BY <1>1
<1>3. m \in Nat /\ p <= d + h /\ d + h < p + f
  BY <1>2, Division
<1>4. p \in Nat BY <1>3, Products
<1> HIDE DEF m, p
<1>5. 2 * Gap(p, d) <= f
  BY <1>1, <1>3, <1>4 DEF Gap
<1>. QED BY <1>3, <1>5 DEF h, m, p

\* What the sensor takes once the final range was written.
LEMMA BudgetRounded ==
    ASSUME TofAssumption, NEW c \in Chips, NEW budget \in Nat, Affords(c, budget)
    PROVE  /\ FinalMclks(c, budget) \in Nat
           /\ UsedBefore(c) \in Nat
           /\ 2 * Gap(UsedBefore(c) + FinalMclks(c, budget) * c.periods.final, budget)
                <= c.periods.final
<1> DEFINE u == UsedBefore(c)
           f == c.periods.final
           d == budget - u
           m == FinalMclks(c, budget)
<1>1. f \in Nat \ {0} /\ c.periods.pre \in Nat \ {0}
  BY DEF Chips, PeriodPair
<1>2. u \in Nat
  <2>1. PreMclks * c.periods.pre \in Nat BY <1>1, Products DEF TofAssumption
  <2>. QED BY <2>1 DEF UsedBefore, TofAssumption
<1>3. u < budget BY DEF Affords
<1>4. m = (d + f \div 2) \div f BY DEF FinalMclks
<1> HIDE DEF u, f, m
<1>5. d \in Nat BY <1>2, <1>3
<1> HIDE DEF d
<1>6. m \in Nat /\ 2 * Gap(m * f, d) <= f BY <1>1, <1>4, <1>5, MacroRounded
<1>7. Gap(u + m * f, budget) = Gap(m * f, d)
  <2>1. m * f \in Nat BY <1>1, <1>6, Products
  <2> DEFINE p == m * f
  <2> HIDE DEF p
  <2>2. Gap(u + p, budget) = Gap(p, d)
    BY <2>1, <1>2, <1>3 DEF Gap, d, p
  <2>. QED BY <2>2 DEF p
<1>. QED BY <1>2, <1>6, <1>7, Zenon DEF u, f, m
-----------------------------------------------------------------------------
(* One transfer *)

LEMMA FirstTransfer ==
    ASSUME TofInv, tofCall.steps # <<>>
    PROVE  /\ Len(tofCall.steps) \in Nat \ {0}
           /\ Head(tofCall.steps) = tofCall.steps[1] /\ tofCall.op # "idle"
           /\ 1 \in 1..Len(tofCall.steps)
<1>1. tofCall.steps \in Seq(Steps) BY DEF TofInv, WellPlanned
<1>2. Len(tofCall.steps) \in Nat \ {0} /\ Head(tofCall.steps) = tofCall.steps[1]
  BY <1>1
<1>3. tofCall.op # "idle" BY <1>2 DEF TofInv, WellPlanned
<1>. QED BY <1>2, <1>3

LEMMA BudgetIsNumber ==
    ASSUME TofInv, tofCall.steps # <<>>, Head(tofCall.steps) = "write_final"
    PROVE  BudgetAsked \in Nat
<1>1. sensor.budget \in Nat BY DEF TofInv, TofType
<1>2. tofCall.op \in {"budget", "renewed"} => tofCall.arg \in Nat
  BY DEF TofInv, ArgFits
<1>. QED BY <1>1, <1>2, Zenon DEF BudgetAsked

\* What a transfer that has its effect does to the sensor.
EffectKept(step, c, d) ==
    /\ d \in Chips
    /\ d.unread = c.unread
    /\ d.ready => c.ready
    /\ step \notin {"clear", "interrupt"} => d.ready = c.ready
    /\ step = "clear" => ~d.ready
    /\ step = "write_final" => /\ d.mclks = FinalMclks(c, BudgetAsked)
                               /\ d.periods = c.periods
    /\ step # "move" => d.address = c.address
    /\ step = "move" => d.address = tofCall.arg

LEMMA EffectOf ==
    ASSUME TofAssumption, TofInv, tofCall.steps # <<>>, Passes(Head(tofCall.steps)),
           NEW c \in Chips, c.periods = chip.periods
    PROVE  EffectKept(Head(tofCall.steps), c, Effect(Head(tofCall.steps), c))
<1> DEFINE step == Head(tofCall.steps)
           d == Effect(step, c)
<1>0. step = tofCall.steps[1] /\ 1 \in 1..Len(tofCall.steps) BY FirstTransfer
<1>1. CASE step = "start_single"
  <2>1. d = [c EXCEPT !.mode = "single", !.started = FALSE] BY <1>1 DEF Effect
  <2>. QED BY <1>1, <2>1 DEF EffectKept, Chips
<1>2. CASE step = "start_continuous"
  <2>1. d = [c EXCEPT !.mode = "continuous"] BY <1>2 DEF Effect
  <2>. QED BY <1>2, <2>1 DEF EffectKept, Chips
<1>3. CASE step = "stop"
  <2>1. d = [c EXCEPT !.mode = "off"] BY <1>3 DEF Effect
  <2>. QED BY <1>3, <2>1 DEF EffectKept, Chips
<1>4. CASE step \in {"clear", "interrupt"}
  <2>1. d = [c EXCEPT !.ready = FALSE] BY <1>4 DEF Effect
  <2>. QED BY <1>4, <2>1 DEF EffectKept, Chips
<1>5. CASE step \in {"pre_period", "final_period"}
  <2>1. tofCall.op \in {"periods", "long_range"}
    BY <1>0, <1>5 DEF TofInv, WellPlanned
  <2>2. tofCall.arg \in PeriodPair BY <2>1 DEF TofInv, ArgFits
  <2> DEFINE pre == tofCall.arg.pre
             final == tofCall.arg.final
  <2>3. pre \in Nat \ {0} /\ final \in Nat \ {0} BY <2>2 DEF PeriodPair
  <2> DEFINE p == [c.periods EXCEPT !.pre = pre]
             f == [c.periods EXCEPT !.final = final]
  <2>4. d = [c EXCEPT !.periods = p] \/ d = [c EXCEPT !.periods = f]
    BY <1>5 DEF Effect
  <2> HIDE DEF pre, final
  <2>5. p \in PeriodPair /\ f \in PeriodPair BY <2>3 DEF Chips, PeriodPair
  <2> HIDE DEF p, f
  <2>6. PICK q \in PeriodPair : d = [c EXCEPT !.periods = q] BY <2>4, <2>5
  <2>7. /\ d \in Chips /\ d.address = c.address
        /\ d.unread = c.unread /\ d.ready = c.ready
    BY <2>6 DEF Chips
  <2>8. step # "write_final" /\ step # "clear" /\ step # "move" BY <1>5
  <2>. QED BY <2>7, <2>8, Zenon DEF EffectKept
<1>6. CASE step = "write_final"
  <2> DEFINE m == FinalMclks(c, BudgetAsked)
  <2>1. m \in Nat
    <3>1. Affords(chip, BudgetAsked) BY <1>6 DEF Passes
    <3>2. Affords(c, BudgetAsked) BY <3>1 DEF Affords, UsedBefore
    <3>. QED BY <1>6, <3>2, BudgetIsNumber, BudgetRounded
  <2>2. d = [c EXCEPT !.mclks = m] BY <1>6 DEF Effect
  <2> HIDE DEF m
  <2>3. /\ d \in Chips /\ d.mclks = m /\ d.periods = c.periods /\ d.address = c.address
        /\ d.unread = c.unread /\ d.ready = c.ready
    BY <2>1, <2>2 DEF Chips
  <2>4. step # "move" /\ step # "clear" BY <1>6
  <2>5. step \notin {"clear", "interrupt"} BY <1>6
  <2>. QED BY <2>3, <2>4, <2>5, Zenon DEF EffectKept, m
<1>7. CASE step = "move"
  <2>1. tofCall.op = "address" BY <1>0, <1>7 DEF TofInv, WellPlanned
  <2> DEFINE a == tofCall.arg
  <2>2. a \in Addresses BY <2>1 DEF TofInv, ArgFits
  <2>3. d = [c EXCEPT !.address = a] BY <1>7 DEF Effect
  <2> HIDE DEF a
  <2>4. /\ d \in Chips /\ d.address = a /\ d.unread = c.unread /\ d.ready = c.ready
    BY <2>2, <2>3 DEF Chips
  <2>5. step # "write_final" /\ step # "clear" BY <1>7
  <2>6. step \notin {"clear", "interrupt"} BY <1>7
  <2>. QED BY <1>7, <2>4, <2>5, <2>6, Zenon DEF EffectKept, a
<1>8. CASE step \notin {"start_single", "start_continuous", "stop", "clear", "interrupt",
                        "pre_period", "final_period", "write_final", "move"}
  <2>1. d = c BY <1>8 DEF Effect
  <2>2. step # "write_final" /\ step # "clear" /\ step # "move" BY <1>8
  <2>. QED BY <2>1, <2>2, Zenon DEF EffectKept
<1>. QED BY <1>1, <1>2, <1>3, <1>4, <1>5, <1>6, <1>7, <1>8
-----------------------------------------------------------------------------
(* The actions *)

LEMMA TofAtStart ==
    ASSUME TofAssumption
    PROVE  TofInit => TofInv
<1> SUFFICES ASSUME TofInit PROVE TofInv
  OBVIOUS
<1>1. PowerOn \in Addresses
  BY LeastExists DEF PowerOn, TofAssumption
<1>2. ShortPeriods \in PeriodPair BY DEF TofAssumption, PeriodPair
<1>3. tofCall.op = "idle" /\ tofCall.steps = <<>> /\ tofLast.op = "none"
  BY DEF TofInit, NoTofCall
<1>4. TofType
  <2>1. sensor \in [address : Addresses, budget : Nat, continuous : BOOLEAN,
                    initialised : BOOLEAN]
    BY <1>1 DEF TofInit
  <2>2. chip \in Chips BY <1>1, <1>2 DEF TofInit, Chips
  <2>3. tofCall = [op |-> tofCall.op, arg |-> tofCall.arg, steps |-> tofCall.steps,
                   fresh |-> tofCall.fresh, mine |-> tofCall.mine, result |-> tofCall.result]
    BY DEF TofInit, NoTofCall
  <2>4. tofLast = [op |-> tofLast.op, result |-> tofLast.result, fresh |-> tofLast.fresh]
    BY DEF TofInit
  <2>5. /\ {tofCall.fresh, tofCall.mine, tofLast.fresh} \subseteq BOOLEAN
        /\ tofCall.result \in {"ok", "bad", "i2c"}
    BY DEF TofInit, NoTofCall
  <2>. QED BY <2>1, <2>2, <2>3, <2>4, <2>5 DEF TofType
<1>5. ArgFits(tofCall.op, tofCall.arg) BY <1>3 DEF ArgFits
<1>6. WellPlanned(tofCall.op, tofCall.steps)
  BY <1>3 DEF WellPlanned, BudgetOps, Reads
<1>7. ReadingUnderWay BY <1>3 DEF ReadingUnderWay, TofInit, Reads
<1>8. SensorAgrees
  BY <1>3 DEF SensorAgrees, ReadingIsOnce, BudgetIsTaken, AddressIsFollowed, Reads
<1>. QED BY <1>3, <1>4, <1>5, <1>6, <1>7, <1>8 DEF TofInv

\* The sensor by itself moves neither its budget nor its address.
LEMMA SensorAgreesStill ==
    ASSUME SensorAgrees, UNCHANGED <<sensor, tofLast>>,
           chip'.address = chip.address, chip'.periods = chip.periods,
           chip'.mclks = chip.mclks
    PROVE  SensorAgrees'
<1>1. ReadingIsOnce' BY DEF SensorAgrees, ReadingIsOnce
<1>2. BudgetIsTaken'
  <2>1. TakenBy(chip)' = TakenBy(chip)
    <3>1. UsedBefore(chip)' = UsedBefore(chip) BY Zenon DEF UsedBefore
    <3>. QED BY <3>1, Zenon DEF TakenBy
  <2>2. BudgetIsTaken BY DEF SensorAgrees
  <2>. QED BY <2>1, <2>2, Zenon DEF BudgetIsTaken
<1>3. AddressIsFollowed'
  BY DEF SensorAgrees, AddressIsFollowed, Heard
<1>. QED BY <1>1, <1>2, <1>3 DEF SensorAgrees

LEMMA TofStartKeeps ==
    ASSUME TofInv, SensorStarts
    PROVE  TofInv'
<1>1. /\ chip' \in Chips /\ chip'.ready = chip.ready /\ chip'.unread = chip.unread
      /\ chip'.address = chip.address /\ chip'.periods = chip.periods
      /\ chip'.mclks = chip.mclks
  BY DEF SensorStarts, TofInv, TofType, Chips
<1>2. UNCHANGED <<sensor, tofCall, tofLast>> BY DEF SensorStarts
<1>3. SensorAgrees' BY <1>1, <1>2, SensorAgreesStill DEF TofInv
<1>4. TofType' BY <1>1, <1>2 DEF TofInv, TofType
<1>5. ReadingUnderWay' BY <1>1, <1>2 DEF TofInv, ReadingUnderWay
<1>6. /\ ArgFits(tofCall.op, tofCall.arg)' /\ WellPlanned(tofCall.op, tofCall.steps)'
      /\ (tofCall.op # "idle" => tofLast.op = "none")'
  BY <1>2 DEF TofInv
<1>. QED BY <1>3, <1>4, <1>5, <1>6 DEF TofInv

LEMMA MeasureKeeps ==
    ASSUME TofInv, SensorMeasures
    PROVE  TofInv'
<1>1. PICK good \in BOOLEAN :
        chip' = [Ready(chip) EXCEPT !.good = good, !.started = FALSE,
                                    !.mode = IF @ = "single" THEN "off" ELSE @]
  BY DEF SensorMeasures
<1>2. /\ chip' \in Chips /\ chip'.ready /\ chip'.unread
      /\ chip'.address = chip.address /\ chip'.periods = chip.periods
      /\ chip'.mclks = chip.mclks
  BY <1>1 DEF TofInv, TofType, Chips, Ready
<1>3. UNCHANGED <<sensor, tofLast>> /\ tofCall' = [tofCall EXCEPT !.mine = FALSE]
  BY DEF SensorMeasures
<1>4. /\ tofCall'.op = tofCall.op /\ tofCall'.arg = tofCall.arg
      /\ tofCall'.steps = tofCall.steps /\ tofCall'.fresh = tofCall.fresh
      /\ tofCall'.result = tofCall.result /\ tofCall'.mine = FALSE
  BY <1>3 DEF TofInv, TofType
<1>5. tofCall' = [op |-> tofCall'.op, arg |-> tofCall'.arg, steps |-> tofCall'.steps,
                  fresh |-> tofCall'.fresh, mine |-> tofCall'.mine, result |-> tofCall'.result]
  BY <1>3 DEF TofInv, TofType
<1>6. SensorAgrees' BY <1>2, <1>3, SensorAgreesStill DEF TofInv
<1>7. TofType' BY <1>2, <1>3, <1>4, <1>5 DEF TofInv, TofType
<1>8. ReadingUnderWay' BY <1>2, <1>4 DEF TofInv, ReadingUnderWay
<1>9. /\ ArgFits(tofCall.op, tofCall.arg)' /\ WellPlanned(tofCall.op, tofCall.steps)'
      /\ (tofCall.op # "idle" => tofLast.op = "none")'
  BY <1>3, <1>4 DEF TofInv
<1>. QED BY <1>6, <1>7, <1>8, <1>9 DEF TofInv
LEMMA TofCallKeeps ==
    ASSUME TofAssumption, TofInv, NEW op, NEW arg, TofCall(op, arg), ArgFits(op, arg),
           WellPlanned(op, StepsOf(op)),
           op \in Reads => Len(StepsOf(op)) > 3
    PROVE  TofInv'
<1>1. tofCall' = [op |-> op, arg |-> arg, steps |-> StepsOf(op), fresh |-> FALSE,
                  mine |-> FALSE, result |-> "ok"]
  BY DEF TofCall, NoTofCall
<1>2. tofLast' = [op |-> "none", result |-> "none", fresh |-> FALSE] /\ chip' = chip
  BY DEF TofCall
<1> DEFINE steps == StepsOf(op)
<1> HIDE DEF steps
<1>3. /\ tofCall'.op = op /\ tofCall'.arg = arg /\ tofCall'.steps = steps
      /\ tofCall'.fresh = FALSE /\ tofCall'.mine = FALSE /\ tofCall'.result = "ok"
      /\ tofLast'.op = "none" /\ tofLast'.fresh = FALSE
  BY <1>1, <1>2 DEF steps
<1>4. TofType'
  <2>1. sensor' \in [address : Addresses, budget : Nat, continuous : BOOLEAN,
                     initialised : BOOLEAN]
    <3>1. PowerOn \in Addresses
      BY LeastExists DEF PowerOn, TofAssumption
    <3>. QED BY <3>1 DEF TofCall, TofInv, TofType
  <2>2. chip' \in Chips BY <1>2 DEF TofInv, TofType
  <2>3. tofCall' = [op |-> tofCall'.op, arg |-> tofCall'.arg, steps |-> tofCall'.steps,
                    fresh |-> tofCall'.fresh, mine |-> tofCall'.mine,
                    result |-> tofCall'.result]
    BY <1>1
  <2>4. tofLast' = [op |-> tofLast'.op, result |-> tofLast'.result,
                    fresh |-> tofLast'.fresh]
    BY <1>2
  <2>. QED BY <1>3, <2>1, <2>2, <2>3, <2>4 DEF TofType
<1>5. ArgFits(tofCall.op, tofCall.arg)' BY <1>3
<1>6. WellPlanned(tofCall.op, tofCall.steps)' BY <1>3 DEF steps
<1>7. ReadingUnderWay'
  <2>1. op \in Reads => Len(steps) # 3 /\ ~(Len(steps) < 3)
    <3> DEFINE n == Len(steps)
    <3>1. n \in Nat BY DEF WellPlanned, steps
    <3>2. op \in Reads => n > 3 BY Zenon DEF steps
    <3> HIDE DEF n
    <3>3. op \in Reads => n # 3 /\ ~(n < 3) BY <3>1, <3>2
    <3>. QED BY <3>3, Zenon DEF n
  <2>2. chip'.ready => chip'.unread BY <1>2 DEF TofInv, ReadingUnderWay
  <2>3. tofCall'.op \in Reads => Len(tofCall'.steps) # 3 /\ ~(Len(tofCall'.steps) < 3)
    BY <1>3, <2>1, Zenon
  <2>. QED BY <2>2, <2>3, Zenon DEF ReadingUnderWay
<1>8. SensorAgrees'
  BY <1>3 DEF SensorAgrees, ReadingIsOnce, BudgetIsTaken, AddressIsFollowed, Reads
<1>. QED BY <1>3, <1>4, <1>5, <1>6, <1>7, <1>8 DEF TofInv

LEMMA CallsKeep ==
    ASSUME TofAssumption, TofInv, TofNext,
           ~(Transfer \/ TransferFails \/ WaitTimesOut \/ Refused \/ SensorStarts
             \/ SensorMeasures)
    PROVE  TofInv'
<1>1. ASSUME NEW op \in {"init", "single", "start", "stop", "continuous"}, TofCall(op, 0)
      PROVE  TofInv'
  <2>1. WellPlanned(op, StepsOf(op)) BY PlanOfEach
  <2>2. ArgFits(op, 0) BY DEF ArgFits
  <2>3. op \in Reads => Len(StepsOf(op)) > 3
    <3>1. StepsOf("single") = <<"arm", "start_single", "started", "wait">> \o Measure
      BY DEF StepsOf
    <3>2. StepsOf("continuous") = <<"data_ready">> \o Measure BY DEF StepsOf
    <3> DEFINE A == <<"arm", "start_single", "started", "wait">>
               B == <<"data_ready">>
    <3>3. A \in Seq(Steps) /\ B \in Seq(Steps) /\ Measure \in Seq(Steps)
          /\ Len(A) = 4 /\ Len(B) = 1 /\ Len(Measure) = 3
      BY DEF Measure, Steps
    <3> HIDE DEF A, B
    <3>4. /\ Len(A \o Measure) = Len(A) + Len(Measure)
          /\ Len(B \o Measure) = Len(B) + Len(Measure)
      BY <3>3, StepsJoined, Zenon
    <3>5. Len(A \o Measure) > 3 /\ Len(B \o Measure) > 3 BY <3>3, <3>4
    <3>6. Len(StepsOf("single")) > 3 /\ Len(StepsOf("continuous")) > 3
      BY <3>1, <3>2, <3>5, Zenon DEF A, B
    <3>. QED BY <3>6 DEF Reads
  <2>. QED BY <1>1, <2>1, <2>2, <2>3, TofCallKeeps
<1>2. ASSUME NEW address \in Addresses, TofCall("address", address) PROVE TofInv'
  BY <1>2, PlanOfEach, TofCallKeeps DEF ArgFits, Reads
<1>3. ASSUME NEW budget \in Budgets, TofCall("budget", budget) PROVE TofInv'
  <2>1. budget \in Nat BY DEF TofAssumption
  <2>. QED BY <1>3, <2>1, PlanOfEach, TofCallKeeps DEF ArgFits, Reads
<1>4. ASSUME NEW p \in {ShortPeriods, LongPeriods}, TofCall("periods", p) PROVE TofInv'
  <2>1. p \in PeriodPair BY DEF TofAssumption, PeriodPair
  <2>. QED BY <1>4, <2>1, PlanOfEach, TofCallKeeps DEF ArgFits, Reads
<1>5. ASSUME TofCall("long_range", LongPeriods) PROVE TofInv'
  <2>1. LongPeriods \in PeriodPair BY DEF TofAssumption, PeriodPair
  <2>. QED BY <1>5, <2>1, PlanOfEach, TofCallKeeps DEF ArgFits, Reads
<1>. QED BY <1>1, <1>2, <1>3, <1>4, <1>5 DEF TofNext

\* A call that fails says nothing of the sensor.
LEMMA FailureKeeps ==
    ASSUME TofInv, tofCall.steps # <<>>, NEW result, result \notin {"ok", "bad"},
           TofReturn(result), UNCHANGED sensor, chip' \in Chips,
           chip'.ready => chip'.unread
    PROVE  TofInv'
<1>1. /\ tofCall'.op = "idle" /\ tofCall'.steps = <<>> /\ tofCall'.fresh = FALSE
      /\ tofCall'.mine = FALSE /\ tofCall'.result = "ok"
      /\ tofLast'.result = result /\ tofLast'.fresh = tofCall.fresh
  BY DEF TofReturn, NoTofCall
<1>2. TofType'
  <2>1. tofCall' = [op |-> tofCall'.op, arg |-> tofCall'.arg, steps |-> tofCall'.steps,
                    fresh |-> tofCall'.fresh, mine |-> tofCall'.mine,
                    result |-> tofCall'.result]
    BY DEF TofReturn, NoTofCall
  <2>2. tofLast' = [op |-> tofLast'.op, result |-> tofLast'.result,
                    fresh |-> tofLast'.fresh]
    BY DEF TofReturn
  <2>. QED BY <1>1, <2>1, <2>2 DEF TofInv, TofType
<1>3. ArgFits(tofCall.op, tofCall.arg)' BY <1>1 DEF ArgFits
<1>4. WellPlanned(tofCall.op, tofCall.steps)'
  BY <1>1 DEF WellPlanned, BudgetOps, Reads
<1>5. ReadingUnderWay' BY <1>1 DEF ReadingUnderWay, Reads
<1>6. SensorAgrees'
  <2>1. tofLast'.result # "ok" /\ tofLast'.result # "bad" BY <1>1
  <2>. QED BY <2>1 DEF SensorAgrees, ReadingIsOnce, BudgetIsTaken, AddressIsFollowed
<1>. QED BY <1>1, <1>2, <1>3, <1>4, <1>5, <1>6 DEF TofInv

\* The status cannot be read: the call goes on, with a failure for its result.
LEMMA StatusLostKeeps ==
    ASSUME TofInv, TransferFails, Head(tofCall.steps) = "status"
    PROVE  TofInv'
<1> DEFINE n == Len(tofCall.steps)
           failed == [chip EXCEPT !.faults = @ + Cost]
<1>1. UNCHANGED <<sensor, tofLast>> /\ tofCall.steps # <<>> BY Zenon DEF TransferFails
<1>2. tofCall' = [tofCall EXCEPT !.steps = Tail(@), !.result = "i2c"]
  BY Zenon DEF TransferFails
<1>3. chip' = failed
  <2>1. Effect("status", failed) = failed BY DEF Effect
  <2>. QED BY <2>1 DEF TransferFails
<1>4. /\ chip' \in Chips /\ chip'.ready = chip.ready /\ chip'.unread = chip.unread
      /\ chip'.address = chip.address /\ chip'.periods = chip.periods
      /\ chip'.mclks = chip.mclks
  <2>1. Cost \in Nat BY DEF Cost
  <2>. QED BY <1>3, <2>1 DEF TofInv, TofType, Chips
<1>5. n \in Nat \ {0} /\ tofCall.steps[1] = "status" /\ 1 \in 1..n BY <1>1, FirstTransfer
<1>6. n > 1 BY <1>5 DEF TofInv, WellPlanned
<1>7. /\ tofCall' = [op |-> tofCall'.op, arg |-> tofCall'.arg, steps |-> tofCall'.steps,
                     fresh |-> tofCall'.fresh, mine |-> tofCall'.mine,
                     result |-> tofCall'.result]
      /\ tofCall'.op = tofCall.op /\ tofCall'.arg = tofCall.arg
      /\ tofCall'.steps = Tail(tofCall.steps) /\ tofCall'.result = "i2c"
      /\ tofCall'.fresh = tofCall.fresh /\ tofCall'.mine = tofCall.mine
  <2> DEFINE rest == Tail(tofCall.steps)
  <2>1. tofCall' = [tofCall EXCEPT !.steps = rest, !.result = "i2c"] BY <1>2, Zenon
  <2> HIDE DEF rest
  <2>2. /\ tofCall' = [op |-> tofCall'.op, arg |-> tofCall'.arg, steps |-> tofCall'.steps,
                       fresh |-> tofCall'.fresh, mine |-> tofCall'.mine,
                       result |-> tofCall'.result]
        /\ tofCall'.op = tofCall.op /\ tofCall'.arg = tofCall.arg
        /\ tofCall'.steps = rest /\ tofCall'.result = "i2c"
        /\ tofCall'.fresh = tofCall.fresh /\ tofCall'.mine = tofCall.mine
    BY <2>1 DEF TofInv, TofType
  <2>. QED BY <2>2 DEF rest
<1>8. TofType' BY <1>1, <1>4, <1>7 DEF TofInv, TofType
<1>9. WellPlanned(tofCall.op, tofCall.steps) BY DEF TofInv
<1>10. WellPlanned(tofCall.op, tofCall.steps)'
  <2>1. WellPlanned(tofCall.op, Tail(tofCall.steps)) BY <1>6, <1>9, PlanAdvances
  <2>. QED BY <1>7, <2>1, Zenon
<1>11. ReadingUnderWay'
  <2>1. Len(tofCall'.steps) = n - 1 BY <1>6, <1>7, <1>9, TailOf DEF WellPlanned
  <2>2. chip'.ready => chip'.unread BY <1>4 DEF TofInv, ReadingUnderWay
  <2>3. ASSUME tofCall'.op \in Reads PROVE n - 1 # 3 /\ (n - 1 < 3 => tofCall'.fresh)
    <3>1. tofCall.op \in Reads BY <1>7, <2>3
    <3>2. /\ n > 2 => tofCall.steps[n - 2] = "raw"
          /\ n > 3 => tofCall.steps[n - 3] \in {"wait", "data_ready"}
      BY <1>9, <3>1 DEF WellPlanned
    <3>3. n < 3 => tofCall'.fresh
      BY <1>7, <3>1, Zenon DEF TofInv, ReadingUnderWay
    <3> HIDE DEF n
    <3>4. n # 3 /\ n # 4 BY <1>5, <3>2
    <3>5. n - 1 < 3 => n < 3 BY <1>5, <3>4
    <3>6. n - 1 # 3 BY <1>5, <3>4
    <3>. QED BY <3>3, <3>5, <3>6, Zenon
  <2>. QED BY <2>1, <2>2, <2>3, Zenon DEF ReadingUnderWay
<1>12. SensorAgrees' BY <1>1, <1>4, SensorAgreesStill DEF TofInv
<1>13. /\ ArgFits(tofCall.op, tofCall.arg)' /\ (tofCall.op # "idle" => tofLast.op = "none")'
  BY <1>1, <1>7, Zenon DEF TofInv
<1>. QED BY <1>8, <1>10, <1>11, <1>12, <1>13, Zenon DEF TofInv

LEMMA FailuresKeep ==
    ASSUME TofAssumption, TofInv, TransferFails \/ WaitTimesOut \/ Refused
    PROVE  TofInv'
<1>1. CASE WaitTimesOut \/ Refused
  <2>1. UNCHANGED <<sensor, chip>> /\ tofCall.steps # <<>> BY <1>1 DEF WaitTimesOut, Refused
  <2>2. chip' \in Chips /\ (chip'.ready => chip'.unread)
    BY <2>1 DEF TofInv, TofType, ReadingUnderWay
  <2>3. TofReturn("timeout") \/ TofReturn("not_ready") \/ TofReturn("budget")
    BY <1>1, Zenon DEF WaitTimesOut, Refused
  <2>4. PICK result \in {"timeout", "not_ready", "budget"} : TofReturn(result)
    BY <2>3, Zenon
  <2>. QED BY <2>1, <2>2, <2>4, FailureKeeps
<1>2. CASE TransferFails /\ Head(tofCall.steps) = "status" BY <1>2, StatusLostKeeps
<1>3. CASE TransferFails /\ Head(tofCall.steps) # "status"
  <2> DEFINE step == Head(tofCall.steps)
             failed == [chip EXCEPT !.faults = @ + Cost]
  <2>1. UNCHANGED sensor /\ tofCall.steps # <<>> BY <1>3 DEF TransferFails
  <2>2. Cost \in Nat BY DEF Cost
  <2>3. /\ failed \in Chips /\ failed.periods = chip.periods
        /\ failed.ready = chip.ready /\ failed.unread = chip.unread
    BY <2>2 DEF TofInv, TofType, Chips
  <2> HIDE DEF failed
  <2>4. chip' = failed \/ (Passes(step) /\ chip' = Effect(step, failed))
    BY <1>3 DEF TransferFails, failed
  <2>5. chip' \in Chips /\ (chip'.ready => chip'.unread)
    <3>1. CASE chip' = failed BY <2>3, <3>1 DEF TofInv, ReadingUnderWay
    <3>2. CASE Passes(step) /\ chip' = Effect(step, failed)
      <4>1. EffectKept(step, failed, chip') BY <2>1, <2>3, <3>2, EffectOf
      <4>. QED BY <2>3, <4>1 DEF EffectKept, TofInv, ReadingUnderWay
    <3>. QED BY <2>4, <3>1, <3>2
  <2>6. PICK result : TofReturn(result) /\ result \in {"timeout", "i2c"}
    BY <1>3 DEF TransferFails
  <2>. QED BY <2>1, <2>5, <2>6, FailureKeeps
<1>. QED BY <1>1, <1>2, <1>3
LEMMA SensorStays ==
    ASSUME TofInv, tofCall.steps # <<>>, Passes(Head(tofCall.steps)),
           sensor' = SensorAfter(Head(tofCall.steps)), TofAssumption
    PROVE  /\ sensor' \in [address : Addresses, budget : Nat, continuous : BOOLEAN,
                           initialised : BOOLEAN]
           /\ Head(tofCall.steps) = "write_final" => sensor'.budget = BudgetAsked
           /\ Head(tofCall.steps) = "move" => sensor'.address = tofCall.arg
           /\ Head(tofCall.steps) # "move" => sensor'.address = sensor.address
<1> DEFINE step == Head(tofCall.steps)
           All == [address : Addresses, budget : Nat, continuous : BOOLEAN,
                   initialised : BOOLEAN]
<1>0. step = tofCall.steps[1] /\ 1 \in 1..Len(tofCall.steps) BY FirstTransfer
<1>1. sensor \in All BY DEF TofInv, TofType
<1>2. CASE step = "move"
  <2>1. tofCall.op = "address" BY <1>0, <1>2 DEF TofInv, WellPlanned
  <2> DEFINE a == tofCall.arg
  <2>2. a \in Addresses BY <2>1 DEF TofInv, ArgFits
  <2>3. sensor' = [sensor EXCEPT !.address = a] BY <1>2 DEF SensorAfter
  <2> HIDE DEF a
  <2>4. sensor' \in All /\ sensor'.address = a BY <1>1, <2>2, <2>3
  <2>. QED BY <1>2, <2>4 DEF a
<1>3. CASE step = "adopt"
  <2> DEFINE b == TakenBy(chip)
  <2>1. b \in Nat
    <3>1. chip.periods.pre \in Nat /\ chip.periods.final \in Nat /\ chip.mclks \in Nat
      BY DEF TofInv, TofType, Chips, PeriodPair
    <3>2. PreMclks * chip.periods.pre \in Nat /\ chip.mclks * chip.periods.final \in Nat
      BY <3>1, Products DEF TofAssumption
    <3>. QED BY <3>2 DEF TakenBy, UsedBefore, TofAssumption
  <2>2. sensor' = [sensor EXCEPT !.budget = b] BY <1>3 DEF SensorAfter
  <2> HIDE DEF b
  <2>3. sensor' \in All /\ sensor'.address = sensor.address BY <1>1, <2>1, <2>2
  <2>. QED BY <1>3, <2>3
<1>4. CASE step = "write_final"
  <2> DEFINE b == BudgetAsked
  <2>1. b \in Nat BY <1>4, BudgetIsNumber
  <2>2. sensor' = [sensor EXCEPT !.budget = b] BY <1>4 DEF SensorAfter
  <2> HIDE DEF b
  <2>3. sensor' \in All /\ sensor'.address = sensor.address /\ sensor'.budget = b
    BY <1>1, <2>1, <2>2
  <2>. QED BY <1>4, <2>3 DEF b
<1>5. CASE step \in {"enable", "start_continuous", "stop"}
  <2>1. \/ sensor' = [sensor EXCEPT !.initialised = TRUE]
        \/ sensor' = [sensor EXCEPT !.continuous = TRUE]
        \/ sensor' = [sensor EXCEPT !.continuous = FALSE]
    BY <1>5 DEF SensorAfter
  <2>2. sensor' \in All /\ sensor'.address = sensor.address BY <1>1, <2>1
  <2>. QED BY <1>5, <2>2
<1>6. CASE step \notin {"move", "adopt", "write_final", "enable", "start_continuous", "stop"}
  <2>1. sensor' = sensor BY <1>6 DEF SensorAfter
  <2>. QED BY <1>1, <1>6, <2>1
<1>. QED BY <1>2, <1>3, <1>4, <1>5, <1>6

\* The chip after a transfer: its effect, and what was read is read.
LEMMA ChipAfterTransfer ==
    ASSUME TofAssumption, TofInv, Transfer
    PROVE  LET step == Head(tofCall.steps)
               d    == Effect(step, chip)
               ending == Len(tofCall.steps) = 1 /\ tofCall.op \in Reads
           IN  /\ EffectKept(step, chip, d) /\ chip' \in Chips
               /\ chip'.ready = d.ready /\ chip'.address = d.address
               /\ chip'.periods = d.periods /\ chip'.mclks = d.mclks
               /\ ~ending => chip'.unread = d.unread
<1> DEFINE step == Head(tofCall.steps)
           d == Effect(step, chip)
           ending == Len(tofCall.steps) = 1 /\ tofCall.op \in Reads
           u == d.unread /\ ~(ending /\ tofCall.mine /\ tofCall.result # "i2c")
<1>1. Passes(step) /\ tofCall.steps # <<>> /\ chip' = [d EXCEPT !.unread = u]
  BY DEF Transfer
<1>2. chip \in Chips BY DEF TofInv, TofType
<1>3. EffectKept(step, chip, d) BY <1>1, <1>2, EffectOf
<1>4. d \in Chips BY <1>3 DEF EffectKept
<1>5. u \in BOOLEAN OBVIOUS
<1>6. ~ending => u = d.unread BY <1>4 DEF Chips
<1> HIDE DEF d, u, ending
<1>7. /\ chip' \in Chips /\ chip'.ready = d.ready /\ chip'.address = d.address
      /\ chip'.periods = d.periods /\ chip'.mclks = d.mclks /\ chip'.unread = u
  BY <1>1, <1>4, <1>5 DEF Chips
<1>. QED BY <1>3, <1>6, <1>7 DEF d, ending
\* The last transfer of a call.
LEMMA LastTransferKeeps ==
    ASSUME TofAssumption, TofInv, Transfer, Len(tofCall.steps) = 1
    PROVE  TofInv'
<1> DEFINE step == Head(tofCall.steps)
           d == Effect(step, chip)
<1>1. tofCall.steps # <<>> /\ Passes(step) /\ sensor' = SensorAfter(step)
      /\ (Heard \/ step = "new_budget")
  BY DEF Transfer
<1>2. PICK result : TofReturn(result) BY Zenon DEF Transfer
<1>3. step = tofCall.steps[1] /\ tofCall.op # "idle" BY <1>1, FirstTransfer
<1>4. /\ tofCall.op \in Reads => step = "clear"
      /\ tofCall.op \in BudgetOps => step = "write_final"
      /\ step # "new_budget"
  <2>1. step = "new_budget" => tofCall.op = "long_range" /\ 1 = Len(tofCall.steps) - 2
    BY <1>1, <1>3, FirstTransfer DEF TofInv, WellPlanned
  <2>2. step # "new_budget" BY <2>1
  <2>. QED BY <1>3, <2>2 DEF TofInv, WellPlanned
<1>5. /\ tofCall'.op = "idle" /\ tofCall'.steps = <<>> /\ tofCall'.fresh = FALSE
      /\ tofCall'.mine = FALSE /\ tofCall'.result = "ok"
      /\ tofLast'.op = tofCall.op /\ tofLast'.fresh = tofCall.fresh
  BY <1>2 DEF TofReturn, NoTofCall
<1>6. /\ EffectKept(step, chip, d) /\ chip' \in Chips
      /\ chip'.ready = d.ready /\ chip'.address = d.address
      /\ chip'.periods = d.periods /\ chip'.mclks = d.mclks
      /\ tofCall.op \notin Reads => chip'.unread = d.unread
  BY ChipAfterTransfer
<1>7. /\ sensor' \in [address : Addresses, budget : Nat, continuous : BOOLEAN,
                      initialised : BOOLEAN]
      /\ step = "write_final" => sensor'.budget = BudgetAsked
      /\ step = "move" => sensor'.address = tofCall.arg
      /\ step # "move" => sensor'.address = sensor.address
  BY <1>1, SensorStays
<1>8. TofType'
  <2>1. tofCall' = [op |-> tofCall'.op, arg |-> tofCall'.arg, steps |-> tofCall'.steps,
                    fresh |-> tofCall'.fresh, mine |-> tofCall'.mine,
                    result |-> tofCall'.result]
    BY <1>2 DEF TofReturn, NoTofCall
  <2>2. tofLast' = [op |-> tofLast'.op, result |-> tofLast'.result,
                    fresh |-> tofLast'.fresh]
    BY <1>2 DEF TofReturn
  <2>. QED BY <1>5, <1>6, <1>7, <2>1, <2>2 DEF TofInv, TofType
<1>9. ArgFits(tofCall.op, tofCall.arg)' BY <1>5 DEF ArgFits
<1>10. WellPlanned(tofCall.op, tofCall.steps)'
  BY <1>5 DEF WellPlanned, BudgetOps, Reads
<1>11. ReadingUnderWay'
  <2>1. CASE tofCall.op \in Reads
    <3>1. ~chip'.ready BY <1>4, <1>6, <2>1 DEF EffectKept
    <3>. QED BY <1>5, <3>1 DEF ReadingUnderWay, Reads
  <2>2. CASE tofCall.op \notin Reads
    <3>1. chip'.ready => chip'.unread
      BY <1>6, <2>2 DEF EffectKept, TofInv, ReadingUnderWay
    <3>. QED BY <1>5, <3>1 DEF ReadingUnderWay, Reads
  <2>. QED BY <2>1, <2>2
<1>12. SensorAgrees'
  <2>1. ReadingIsOnce'
    <3>1. tofCall.op \in Reads => tofCall.fresh BY DEF TofInv, ReadingUnderWay
    <3>. QED BY <1>5, <3>1, Zenon DEF ReadingIsOnce
  <2>2. BudgetIsTaken'
    <3>1. CASE tofCall.op \in BudgetOps
      <4>1. step = "write_final" BY <1>4, <3>1
      <4> DEFINE b == BudgetAsked
      <4>2. b \in Nat BY <1>1, <4>1, BudgetIsNumber
      <4>3. Affords(chip, b) BY <1>1, <4>1 DEF Passes
      <4>4. chip \in Chips BY DEF TofInv, TofType
      <4>5. chip'.periods = chip.periods /\ chip'.mclks = FinalMclks(chip, b)
        BY <1>6, <4>1 DEF EffectKept
      <4>6. sensor'.budget = b BY <1>7, <4>1
      <4> HIDE DEF b
      <4>7. 2 * Gap(UsedBefore(chip) + FinalMclks(chip, b) * chip.periods.final, b)
              <= chip.periods.final
        BY <4>2, <4>3, <4>4, BudgetRounded
      <4>8. TakenBy(chip)' = UsedBefore(chip) + FinalMclks(chip, b) * chip.periods.final
        <5>1. UsedBefore(chip)' = UsedBefore(chip) BY <4>5, Zenon DEF UsedBefore
        <5>. QED BY <4>5, <5>1, Zenon DEF TakenBy
      <4>. QED BY <4>5, <4>6, <4>7, <4>8, Zenon DEF BudgetIsTaken
    <3>2. CASE tofCall.op \notin BudgetOps
      <4>1. tofLast'.op \notin {"budget", "periods", "renewed"} BY <1>5, <3>2 DEF BudgetOps
      <4>. QED BY <4>1, Zenon DEF BudgetIsTaken
    <3>. QED BY <3>1, <3>2
  <2>3. AddressIsFollowed'
    <3>1. sensor'.address = chip'.address
      BY <1>1, <1>4, <1>6, <1>7 DEF EffectKept, Heard
    <3>. QED BY <3>1 DEF AddressIsFollowed, Heard
  <2>. QED BY <2>1, <2>2, <2>3 DEF SensorAgrees
<1>. QED BY <1>5, <1>8, <1>9, <1>10, <1>11, <1>12 DEF TofInv

\* A transfer with others to come.
LEMMA NextTransferKeeps ==
    ASSUME TofAssumption, TofInv, Transfer, Len(tofCall.steps) # 1
    PROVE  TofInv'
<1> DEFINE step == Head(tofCall.steps)
           d == Effect(step, chip)
           n == Len(tofCall.steps)
           c == [tofCall EXCEPT !.steps = Tail(@)]
<1>1. /\ tofCall.steps # <<>> /\ Passes(step) /\ sensor' = SensorAfter(step)
      /\ tofCall' = CallAfter(step) /\ UNCHANGED tofLast
  BY DEF Transfer
<1>2. n \in Nat \ {0, 1} /\ step = tofCall.steps[1] /\ tofCall.op # "idle"
      /\ 1 \in 1..n
  BY <1>1, FirstTransfer
<1>3. /\ chip' \in Chips /\ EffectKept(step, chip, d)
      /\ chip'.ready = d.ready /\ chip'.unread = d.unread
  BY <1>2, ChipAfterTransfer
<1> HIDE DEF n
<1>4. sensor' \in [address : Addresses, budget : Nat, continuous : BOOLEAN,
                   initialised : BOOLEAN]
  BY <1>1, SensorStays
<1>5. chip \in Chips /\ tofLast.op = "none" BY <1>2 DEF TofInv, TofType
<1>6. /\ tofCall' = [op |-> tofCall'.op, arg |-> tofCall'.arg, steps |-> tofCall'.steps,
                     fresh |-> tofCall'.fresh, mine |-> tofCall'.mine,
                     result |-> tofCall'.result]
      /\ tofCall'.steps = Tail(tofCall.steps)
      /\ {tofCall'.fresh, tofCall'.mine} \subseteq BOOLEAN
      /\ tofCall'.result \in {"ok", "bad", "i2c"}
      /\ step # "raw" => tofCall'.fresh = tofCall.fresh
      /\ step = "raw" => tofCall'.fresh = chip.unread
      /\ step # "new_budget" => tofCall'.op = tofCall.op /\ tofCall'.arg = tofCall.arg
      /\ step = "new_budget" => tofCall'.op = "renewed" /\ tofCall'.arg = 33
  <2>1. c = [op |-> tofCall.op, arg |-> tofCall.arg, steps |-> Tail(tofCall.steps),
             fresh |-> tofCall.fresh, mine |-> tofCall.mine, result |-> tofCall.result]
    <3> DEFINE op == tofCall.op
               arg == tofCall.arg
               steps == tofCall.steps
               fresh == tofCall.fresh
               mine == tofCall.mine
               result == tofCall.result
               rest == Tail(steps)
    <3>1. tofCall = [op |-> op, arg |-> arg, steps |-> steps, fresh |-> fresh,
                     mine |-> mine, result |-> result]
      BY DEF TofInv, TofType
    <3>2. c = [tofCall EXCEPT !.steps = rest] BY Zenon
    <3> HIDE DEF op, arg, steps, fresh, mine, result, rest
    <3>3. [tofCall EXCEPT !.steps = rest] = [op |-> op, arg |-> arg, steps |-> rest,
             fresh |-> fresh, mine |-> mine, result |-> result]
      BY <3>1
    <3>. QED BY <3>2, <3>3, Zenon DEF op, arg, steps, fresh, mine, result, rest
  <2>2. /\ {tofCall.fresh, tofCall.mine, chip.good, chip.unread} \subseteq BOOLEAN
        /\ tofCall.result \in {"ok", "bad", "i2c"}
    BY DEF TofInv, TofType, Chips
  <2> HIDE DEF c
  <2>3. CASE step = "raw"
    <3>1. tofCall' = [c EXCEPT !.fresh = chip.unread, !.mine = TRUE]
      BY <1>1, <2>3 DEF CallAfter, c
    <3>. QED BY <2>1, <2>2, <2>3, <3>1
  <2>4. CASE step = "status"
    <3>1. tofCall' = [c EXCEPT !.result = IF chip.good THEN "ok" ELSE "bad"]
      BY <1>1, <2>4 DEF CallAfter, c
    <3>. QED BY <2>1, <2>2, <2>4, <3>1
  <2>5. CASE step = "new_budget"
    <3>1. tofCall' = [c EXCEPT !.op = "renewed", !.arg = 33]
      BY <1>1, <2>5 DEF CallAfter, c
    <3>. QED BY <2>1, <2>2, <2>5, <3>1
  <2>6. CASE step \notin {"raw", "status", "new_budget"}
    <3>1. tofCall' = c
      BY <1>1, <2>6 DEF CallAfter, c
    <3>. QED BY <2>1, <2>2, <2>6, <3>1
  <2>. QED BY <2>3, <2>4, <2>5, <2>6
<1>7. TofType'
  BY <1>1, <1>3, <1>4, <1>6 DEF TofInv, TofType
<1>8. ArgFits(tofCall.op, tofCall.arg)'
  <2>1. CASE step = "new_budget" BY <1>6, <2>1 DEF ArgFits
  <2>2. CASE step # "new_budget" BY <1>6, <2>2, Zenon DEF ArgFits, TofInv
  <2>. QED BY <2>1, <2>2
<1>9. WellPlanned(tofCall.op, tofCall.steps)'
  <2>1. n > 1 BY <1>2
  <2>2. WellPlanned(tofCall.op, tofCall.steps) BY DEF TofInv
  <2>3. /\ step # "new_budget" => WellPlanned(tofCall.op, Tail(tofCall.steps))
        /\ step = "new_budget" => WellPlanned("renewed", Tail(tofCall.steps))
    BY <2>1, <2>2, PlanAdvances DEF n
  <2>. QED BY <1>6, <2>3, Zenon
<1>10. ReadingUnderWay'
  <2>1. chip'.ready => chip'.unread
    BY <1>3 DEF EffectKept, TofInv, ReadingUnderWay
  <2>2. ASSUME tofCall'.op \in Reads
        PROVE  /\ n - 1 = 3 => chip'.ready
               /\ n - 1 < 3 => tofCall'.fresh
    <3>1. step # "new_budget" BY <1>6, <2>2 DEF Reads
    <3>2. tofCall.op \in Reads BY <1>6, <2>2, <3>1
    <3>3. /\ n = 4 => step \in {"wait", "data_ready"}
          /\ n = 3 => step = "raw"
          /\ n = 2 => step = "status"
      <4>1. /\ n > 1 => tofCall.steps[n - 1] = "status"
            /\ n > 2 => tofCall.steps[n - 2] = "raw"
            /\ n > 3 => tofCall.steps[n - 3] \in {"wait", "data_ready"}
        BY <3>2 DEF TofInv, WellPlanned, n
      <4>. QED BY <1>2, <4>1
    <3>4. n = 4 => chip'.ready
      BY <1>1, <1>3, <3>3 DEF EffectKept, Passes
    <3>5. n = 3 => tofCall'.fresh
      BY <1>6, <3>2, <3>3 DEF TofInv, ReadingUnderWay, n
    <3>6. n = 2 => tofCall'.fresh
      BY <1>6, <3>2, <3>3 DEF TofInv, ReadingUnderWay, n
    <3>. QED BY <1>2, <3>4, <3>5, <3>6
  <2>3. Len(tofCall'.steps) = n - 1
    <3>1. tofCall.steps \in Seq(Steps) BY DEF TofInv, WellPlanned
    <3>. QED BY <1>2, <1>6, <3>1, TailOf DEF n
  <2>. QED BY <2>1, <2>2, <2>3, Zenon DEF ReadingUnderWay
<1>11. SensorAgrees'
  <2>1. tofLast'.op = "none" BY <1>1, <1>5
  <2>. QED BY <2>1 DEF SensorAgrees, ReadingIsOnce, BudgetIsTaken, AddressIsFollowed, Reads
<1>. QED BY <1>1, <1>5, <1>7, <1>8, <1>9, <1>10, <1>11 DEF TofInv

(***************************************************************************)
(* For any addresses, budgets and periods: no measurement is handed out    *)
(* twice, a call that set budget or periods leaves the sensor with the     *)
(* time it was given, and a handle follows its sensor to a new address,    *)
(* with transfers that fail with or without their effect (vl53l0x.c:       *)
(* read_single, read_continuous, set_timing_budget, set_vcsel_periods,     *)
(* set_address).                                                           *)
(***************************************************************************)
THEOREM TofCorrect == TofSpec => [](TofType /\ SensorAgrees)
<1>1. TofAssumption BY TofAssumption
<1>2. TofInit => TofInv BY <1>1, TofAtStart
<1>3. TofInv /\ [TofNext]_tofVars => TofInv'
  <2> SUFFICES ASSUME TofInv, [TofNext]_tofVars PROVE TofInv'
    OBVIOUS
  <2>1. CASE Transfer BY <1>1, <2>1, LastTransferKeeps, NextTransferKeeps
  <2>2. CASE TransferFails \/ WaitTimesOut \/ Refused BY <1>1, <2>2, FailuresKeep
  <2>3. CASE SensorStarts BY <2>3, TofStartKeeps
  <2>4. CASE SensorMeasures BY <2>4, MeasureKeeps
  <2>5. CASE TofNext /\ ~(Transfer \/ TransferFails \/ WaitTimesOut \/ Refused
                          \/ SensorStarts \/ SensorMeasures)
    BY <1>1, <2>5, CallsKeep
  <2>6. CASE UNCHANGED tofVars
    <3>1. UNCHANGED <<sensor, chip, tofCall, tofLast>> BY <2>6 DEF tofVars
    <3>2. SensorAgrees' BY <3>1, SensorAgreesStill DEF TofInv
    <3>3. TofType' BY <3>1, Zenon DEF TofInv, TofType
    <3>4. ReadingUnderWay' BY <3>1, Zenon DEF TofInv, ReadingUnderWay
    <3>. QED BY <3>1, <3>2, <3>3, <3>4, Zenon DEF TofInv
  <2>. QED BY <2>1, <2>2, <2>3, <2>4, <2>5, <2>6
<1>4. TofInv => TofType /\ SensorAgrees BY DEF TofInv
<1>. QED BY <1>2, <1>3, <1>4, PTL DEF TofSpec
-----------------------------------------------------------------------------
(***************************************************************************)
(* ConfigStore                                                             *)
(***************************************************************************)
\* From 0 one gets to every number.
LEMMA Counting ==
    ASSUME NEW S, 0 \in S, \A n \in Nat : n \in S => n + 1 \in S
    PROVE  Nat \subseteq S
<1> DEFINE T == Nat \ S
<1>1. SUFFICES ASSUME T # {} PROVE FALSE OBVIOUS
<1>2. PICK i \in T : \A j \in T : i <= j BY <1>1, LeastExists
<1>3. i # 0 /\ i - 1 \in Nat BY <1>2
<1>4. i - 1 \notin T BY <1>2, <1>3
<1>. QED BY <1>2, <1>3, <1>4

\* A walk goes up from every place below n where it does not stop.
GoesUp(stops, next, n) ==
    /\ n \in Nat
    /\ \A x \in Nat \ {0} : x \notin stops => x < n /\ next[x] \in Nat /\ next[x] > x

WalkedFrom(stops, ending, next, f) ==
    f = [x \in Nat \ {0} |-> IF x \in stops THEN ending[x] ELSE f[next[x]]]

Listing(stops, met, next, f) ==
    f = [x \in Nat \ {0} |-> IF x \in stops THEN <<>> ELSE <<met[x]>> \o f[next[x]]]

\* Such a walk is a function.
LEMMA WalkExists ==
    ASSUME NEW stops, NEW ending, NEW next, NEW n, GoesUp(stops, next, n)
    PROVE  \E f : WalkedFrom(stops, ending, next, f)
<1> USE DEF GoesUp, WalkedFrom
<1> DEFINE D(k) == {x \in Nat \ {0} : x + k >= n}
           Walks(f, k) == f = [x \in D(k) |-> IF x \in stops THEN ending[x] ELSE f[next[x]]]
           S == {k \in Nat : \E f : Walks(f, k)}
<1>1. 0 \in S
  <2> DEFINE f == [x \in D(0) |-> ending[x]]
  <2>1. \A x \in D(0) : x \in stops OBVIOUS
  <2>2. Walks(f, 0) BY <2>1
  <2>. QED BY <2>2
<1>2. ASSUME NEW k \in Nat, k \in S PROVE k + 1 \in S
  <2>1. PICK g : Walks(g, k) BY <1>2
  <2> DEFINE f == [x \in D(k + 1) |-> IF x \in stops THEN ending[x] ELSE g[next[x]]]
  <2>2. D(k) \subseteq D(k + 1) OBVIOUS
  <2>3. \A x \in D(k + 1) : x \notin stops => next[x] \in D(k) OBVIOUS
  <2>4. \A x \in D(k) : f[x] = g[x]
    <3>1. \A x \in D(k) : g[x] = IF x \in stops THEN ending[x] ELSE g[next[x]]
      <4> HIDE DEF D
      <4>. QED BY <2>1
    <3>2. \A x \in D(k) : f[x] = IF x \in stops THEN ending[x] ELSE g[next[x]]
      <4> HIDE DEF D
      <4>. QED BY <2>2
    <3>. QED BY <3>1, <3>2
  <2>5. Walks(f, k + 1)
    <3>1. \A x \in D(k + 1) : x \notin stops => f[next[x]] = g[next[x]]
      BY <2>3, <2>4
    <3> HIDE DEF D
    <3>. QED BY <3>1
  <2>6. \E h : Walks(h, k + 1) BY <2>5
  <2>. QED BY <2>6
<1>3. n \in S
  <2> HIDE DEF S
  <2>. QED BY <1>1, <1>2, Counting
<1>4. D(n) = Nat \ {0} OBVIOUS
<1>. QED BY <1>3, <1>4

\* The same for a walk that lists what it meets.
LEMMA ListingExists ==
    ASSUME NEW stops, NEW met, NEW next, NEW n, GoesUp(stops, next, n)
    PROVE  \E f : Listing(stops, met, next, f)
<1> USE DEF GoesUp, Listing
<1> DEFINE D(k) == {x \in Nat \ {0} : x + k >= n}
           Walks(f, k) == f = [x \in D(k) |->
                                 IF x \in stops THEN <<>> ELSE <<met[x]>> \o f[next[x]]]
           S == {k \in Nat : \E f : Walks(f, k)}
<1>1. 0 \in S
  <2> DEFINE f == [x \in D(0) |-> <<>>]
  <2>1. \A x \in D(0) : x \in stops OBVIOUS
  <2>2. Walks(f, 0) BY <2>1
  <2>. QED BY <2>2
<1>2. ASSUME NEW k \in Nat, k \in S PROVE k + 1 \in S
  <2>1. PICK g : Walks(g, k) BY <1>2
  <2> DEFINE f == [x \in D(k + 1) |-> IF x \in stops THEN <<>> ELSE <<met[x]>> \o g[next[x]]]
  <2>2. D(k) \subseteq D(k + 1) OBVIOUS
  <2>3. \A x \in D(k + 1) : x \notin stops => next[x] \in D(k) OBVIOUS
  <2>4. \A x \in D(k) : f[x] = g[x]
    <3>1. \A x \in D(k) : g[x] = IF x \in stops THEN <<>> ELSE <<met[x]>> \o g[next[x]]
      <4> HIDE DEF D
      <4>. QED BY <2>1
    <3>2. \A x \in D(k) : f[x] = IF x \in stops THEN <<>> ELSE <<met[x]>> \o g[next[x]]
      <4> HIDE DEF D
      <4>. QED BY <2>2
    <3>. QED BY <3>1, <3>2
  <2>5. Walks(f, k + 1)
    <3>1. \A x \in D(k + 1) : x \notin stops => f[next[x]] = g[next[x]]
      BY <2>3, <2>4
    <3> HIDE DEF D
    <3>. QED BY <3>1
  <2>6. \E h : Walks(h, k + 1) BY <2>5
  <2> HIDE DEF Walks
  <2>. QED BY <2>6
<1>3. n \in S
  <2> HIDE DEF S
  <2>. QED BY <1>1, <1>2, Counting
<1>4. D(n) = Nat \ {0} OBVIOUS
<1>. QED BY <1>3, <1>4

LEMMA Downward ==
    ASSUME NEW n \in Nat, NEW S, n + 1 \in S, \A i \in 1..n : i + 1 \in S => i \in S
    PROVE  1..n + 1 \subseteq S
<1> DEFINE T == {d \in Nat : d <= n => n + 1 - d \in S}
<1>1. 0 \in T OBVIOUS
<1>2. ASSUME NEW d \in Nat, d \in T PROVE d + 1 \in T
  <2>1. CASE d + 1 <= n
    <3>1. n + 1 - d \in S /\ n - d \in 1..n /\ (n - d) + 1 = n + 1 - d BY <1>2, <2>1
    <3>2. n - d \in S BY <3>1
    <3>3. n - d = n + 1 - (d + 1) OBVIOUS
    <3>. QED BY <3>2, <3>3
  <2>2. CASE ~(d + 1 <= n) BY <2>2
  <2>. QED BY <2>1, <2>2
<1>3. Nat \subseteq T
  <2> HIDE DEF T
  <2>. QED BY <1>1, <1>2, Counting
<1>4. ASSUME NEW i \in 1..n + 1 PROVE i \in S
  <2>1. CASE i = n + 1 BY <2>1
  <2>2. CASE i # n + 1
    <3>1. n + 1 - i \in Nat /\ n + 1 - i <= n /\ n + 1 - (n + 1 - i) = i BY <2>2
    <3>2. n + 1 - i \in T BY <1>3, <3>1
    <3>. QED BY <3>1, <3>2
  <2>. QED BY <2>1, <2>2
<1>. QED BY <1>4
-----------------------------------------------------------------------------
(* A buffer and where its records are *)

IsRecord(b, p, k, v) ==
    /\ b[p] = Len(k) /\ b[p + 1] = Len(v)
    /\ \A j \in 1..Len(k) : b[p + 1 + j] = k[j]
    /\ \A j \in 1..Len(v) : b[p + 1 + Len(k) + j] = v[j]

\* The records of the keys ks, with the values that v has for them, begin at the
\* places ps, one after the other, and there are no others.
LaidOut(b, v, ks, ps) ==
    /\ ks \in Seq(StoreKeys) /\ ps \in [1..Len(ks) + 1 -> Nat \ {0}]
    /\ ps[1] = 1 /\ ps[Len(ks) + 1] = Len(b) + 1
    /\ \A i \in 1..Len(ks) :
         /\ v[ks[i]] \in StoreValues
         /\ ps[i + 1] = ps[i] + RecordSize(Len(ks[i]), Len(v[ks[i]]))
         /\ IsRecord(b, ps[i], ks[i], v[ks[i]])
    /\ \A i, j \in 1..Len(ks) + 1 : i < j => ps[i] < ps[j]
    /\ \A i, j \in 1..Len(ks) : ks[i] = ks[j] => i = j
    /\ \A k \in StoreKeys : v[k] # Absent => \E i \in 1..Len(ks) : ks[i] = k

StoreInv ==
    /\ run \in Seq(Nat) /\ Len(run) <= StoreCapacity
    /\ stored \in [StoreKeys -> StoreValues \cup {Absent}]
    /\ \E ks, ps : LaidOut(run, stored, ks, ps)

LEMMA KeyIs ==
    ASSUME StoreAssumption, NEW k \in StoreKeys
    PROVE  k \in Seq(Nat) /\ Len(k) \in Nat /\ Len(k) >= 1 /\ Len(k) <= MaxKeyLength
BY DEF StoreAssumption

LEMMA ValueIs ==
    ASSUME StoreAssumption, NEW v \in StoreValues
    PROVE  v \in Seq(Nat) /\ Len(v) \in Nat /\ Len(v) < Narrow /\ v # Absent
<1>1. v \in Seq(Nat) /\ Len(v) < Narrow BY DEF StoreAssumption
<1>2. v # Absent BY <1>1, SMTT(30) DEF Absent
<1>. QED BY <1>1, <1>2

LEMMA PartOfBytes ==
    ASSUME NEW b \in Seq(Nat), NEW m \in Nat \ {0}, NEW n \in Int, n <= Len(b), m <= n + 1
    PROVE  /\ SubSeq(b, m, n) \in Seq(Nat) /\ Len(SubSeq(b, m, n)) = n + 1 - m
           /\ \A x \in 1..n + 1 - m : SubSeq(b, m, n)[x] = b[m + x - 1]
<1>1. \A x \in m..n : b[x] \in Nat
  <2>1. \A x \in 1..Len(b) : b[x] \in Nat BY ElementOfSeq
  <2>2. \A x \in m..n : x \in 1..Len(b) BY LenProperties
  <2>. QED BY <2>1, <2>2
<1>2. /\ SubSeq(b, m, n) \in Seq(Nat)
      /\ Len(SubSeq(b, m, n)) = IF m <= n THEN n - m + 1 ELSE 0
      /\ \A x \in 1..n - m + 1 : SubSeq(b, m, n)[x] = b[m + x - 1]
  BY <1>1, SubSeqProperties
<1>3. n - m + 1 = n + 1 - m /\ (m <= n \/ n + 1 - m = 0) OBVIOUS
<1>. QED BY <1>2, <1>3

LEMMA PartIs ==
    ASSUME NEW b \in Seq(Nat), NEW p \in Nat \ {0}, NEW k \in Seq(Nat),
           p + Len(k) <= Len(b) + 1, \A j \in 1..Len(k) : b[p - 1 + j] = k[j]
    PROVE  SubSeq(b, p, p + Len(k) - 1) = k
<1> DEFINE c == SubSeq(b, p, p + Len(k) - 1)
<1>1. c \in Seq(Nat) /\ Len(c) = Len(k) /\ \A j \in 1..Len(k) : c[j] = b[p + j - 1]
  <2> DEFINE n == p + Len(k) - 1
  <2>1. /\ n \in Int /\ n <= Len(b) /\ p <= n + 1 /\ n + 1 - p = Len(k) BY LenProperties
  <2> HIDE DEF n
  <2>2. /\ SubSeq(b, p, n) \in Seq(Nat) /\ Len(SubSeq(b, p, n)) = n + 1 - p
        /\ \A x \in 1..n + 1 - p : SubSeq(b, p, n)[x] = b[p + x - 1]
    BY <2>1, PartOfBytes
  <2>. QED BY <2>1, <2>2 DEF n
<1>2. \A j \in 1..Len(k) : p - 1 + j = p + j - 1 OBVIOUS
<1>3. \A j \in 1..Len(k) : c[j] = k[j] BY <1>1, <1>2
<1>4. Len(c) = Len(k) /\ c \in Seq(Nat) BY <1>1
<1> HIDE DEF c
<1>5. c = k BY <1>3, <1>4, SeqEqual
<1>. QED BY <1>5 DEF c

LEMMA RecordIsRead ==
    ASSUME StoreAssumption, NEW b \in Seq(Nat), NEW v, NEW ks, NEW ps, LaidOut(b, v, ks, ps),
           NEW i \in 1..Len(ks)
    PROVE  LET p == ps[i]
               k == ks[i]
           IN  /\ p \in Nat \ {0} /\ ps[i + 1] \in Nat \ {0}
               /\ p < Len(b) /\ ps[i + 1] <= Len(b) + 1 /\ p + 2 <= ps[i + 1]
               /\ p + SizeAt(b, p) = ps[i + 1]
               /\ b[p] = Len(k) /\ b[p + 1] = Len(v[k])
               /\ KeyAt(b, p) = k /\ BytesAt(b, p) = v[k]
<1> DEFINE p == ps[i]
           k == ks[i]
           w == v[k]
           m == Len(k)
           n == Len(w)
<1>1. /\ i + 1 \in 1..Len(ks) + 1 /\ i \in 1..Len(ks) + 1 /\ Len(ks) \in Nat
      /\ Len(ks) + 1 \in 1..Len(ks) + 1
  BY DEF LaidOut
<1>2. k \in StoreKeys /\ w \in StoreValues /\ p \in Nat \ {0} /\ ps[i + 1] \in Nat \ {0}
  <2>1. w \in StoreValues BY DEF LaidOut
  <2>2. k \in StoreKeys
    <3>1. ks \in Seq(StoreKeys) BY DEF LaidOut
    <3>. QED BY <1>1, <3>1
  <2>3. ps \in [1..Len(ks) + 1 -> Nat \ {0}] BY DEF LaidOut
  <2>. QED BY <1>1, <2>1, <2>2, <2>3
<1>3. m \in Nat /\ n \in Nat /\ k \in Seq(Nat) /\ w \in Seq(Nat) BY <1>2, KeyIs, ValueIs
<1>4. ps[i + 1] = p + (m + n + 2) BY DEF LaidOut, RecordSize
<1>5. ps[i + 1] <= Len(b) + 1
  <2>1. i + 1 = Len(ks) + 1 \/ i + 1 < Len(ks) + 1 BY <1>1
  <2>2. ps[Len(ks) + 1] = Len(b) + 1 BY DEF LaidOut
  <2>3. i + 1 < Len(ks) + 1 => ps[i + 1] < ps[Len(ks) + 1] BY <1>1 DEF LaidOut
  <2>. QED BY <1>2, <2>1, <2>2, <2>3
<1>6. IsRecord(b, p, k, w) BY DEF LaidOut
<1>7. b[p] = m /\ b[p + 1] = n BY <1>6 DEF IsRecord
<1>8. SizeAt(b, p) = m + n + 2 BY <1>7 DEF SizeAt, RecordSize
<1>9. KeyAt(b, p) = k
  <2>1. \A j \in 1..m : b[p + 1 + j] = k[j] BY <1>6 DEF IsRecord
  <2> HIDE DEF m, n, p, k, w
  <2>2. \A j \in 1..Len(k) : b[(p + 2) - 1 + j] = k[j]
    <3>1. \A j \in 1..m : p + 1 + j = (p + 2) - 1 + j BY <1>2, <1>3
    <3>. QED BY <2>1, <3>1 DEF m
  <2>3. p + 2 \in Nat \ {0} /\ (p + 2) + Len(k) <= Len(b) + 1
    BY <1>2, <1>3, <1>4, <1>5, SMTT(30) DEF m
  <2>4. SubSeq(b, p + 2, (p + 2) + Len(k) - 1) = k BY <1>3, <2>2, <2>3, PartIs
  <2>5. (p + 2) + Len(k) - 1 = p + 1 + m BY <1>2, <1>3 DEF m
  <2>. QED BY <1>7, <2>4, <2>5 DEF KeyAt
<1>10. BytesAt(b, p) = w
  <2>1. \A j \in 1..n : b[p + 1 + m + j] = w[j] BY <1>6 DEF IsRecord
  <2> HIDE DEF m, n, p, k, w
  <2>2. \A j \in 1..Len(w) : b[(p + 2 + m) - 1 + j] = w[j]
    <3>1. \A j \in 1..n : p + 1 + m + j = (p + 2 + m) - 1 + j BY <1>2, <1>3
    <3>. QED BY <2>1, <3>1 DEF n
  <2>3. p + 2 + m \in Nat \ {0} /\ (p + 2 + m) + Len(w) <= Len(b) + 1
    BY <1>2, <1>3, <1>4, <1>5, SMTT(30) DEF n
  <2>4. SubSeq(b, p + 2 + m, (p + 2 + m) + Len(w) - 1) = w BY <1>3, <2>2, <2>3, PartIs
  <2>5. (p + 2 + m) + Len(w) - 1 = p - 1 + (m + n + 2) BY <1>2, <1>3 DEF n
  <2>. QED BY <1>7, <1>8, <2>4, <2>5 DEF BytesAt
<1>11. /\ p < Len(b) /\ p + 2 <= ps[i + 1] /\ p + SizeAt(b, p) = ps[i + 1]
  <2>1. m >= 1 BY <1>2, KeyIs
  <2> HIDE DEF m, n, p
  <2>. QED BY <1>2, <1>3, <1>4, <1>5, <1>8, <2>1
<1>. QED BY <1>2, <1>5, <1>7, <1>9, <1>10, <1>11
-----------------------------------------------------------------------------
(* What a walk over the records finds *)

LEMMA SizeIs ==
    ASSUME NEW b \in Seq(Nat), NEW x \in Nat \ {0}, x < Len(b)
    PROVE  SizeAt(b, x) \in Nat /\ x + SizeAt(b, x) \in Nat /\ x + SizeAt(b, x) > x
<1>1. b[x] \in Nat /\ b[x + 1] \in Nat OBVIOUS
<1>2. SizeAt(b, x) = b[x] + b[x + 1] + 2 BY DEF SizeAt, RecordSize
<1>3. \A m, n \in Nat : m + n + 2 \in Nat /\ x + (m + n + 2) \in Nat /\ x + (m + n + 2) > x
  OBVIOUS
<1>. QED BY <1>1, <1>2, <1>3, Zenon

LEMMA PlaceOfRecord ==
    ASSUME StoreAssumption, NEW b \in Seq(Nat), NEW v, NEW ks, NEW ps, LaidOut(b, v, ks, ps),
           NEW m \in 1..Len(ks)
    PROVE  /\ ps[m] \in Nat \ {0} /\ ps[m] < Len(b) /\ ps[m + 1] <= Len(b) + 1
           /\ ps[m] + SizeAt(b, ps[m]) = ps[m + 1]
           /\ SizeAt(b, ps[m]) \in Nat
<1>1. /\ ps[m] \in Nat \ {0} /\ ps[m] < Len(b) /\ ps[m + 1] <= Len(b) + 1
      /\ ps[m] + SizeAt(b, ps[m]) = ps[m + 1]
  BY RecordIsRead
<1>. QED BY <1>1, SizeIs

LEMMA FindWalk ==
    ASSUME run \in Seq(Nat), NEW key
    PROVE  \E f : /\ FindRecord(key) = f[1]
                  /\ \A x \in Nat \ {0} :
                       f[x] = IF x >= Len(run) THEN Len(run) + 1
                              ELSE IF KeyAt(run, x) = key THEN x
                              ELSE f[x + SizeAt(run, x)]
<1> DEFINE Walk(f) == f = [x \in Nat \ {0} |->
                             IF x >= Len(run) THEN Len(run) + 1
                             ELSE IF KeyAt(run, x) = key THEN x
                             ELSE f[x + SizeAt(run, x)]]
           stops == {x \in Nat \ {0} : x >= Len(run) \/ KeyAt(run, x) = key}
           ending == [x \in Nat \ {0} |-> IF x >= Len(run) THEN Len(run) + 1 ELSE x]
           next == [x \in Nat \ {0} |-> x + SizeAt(run, x)]
<1>1. \A x \in Nat \ {0} : x \notin stops => x < Len(run) /\ next[x] \in Nat /\ next[x] > x
  BY SizeIs
<1>2. GoesUp(stops, next, Len(run))
  <2> HIDE DEF stops, next
  <2>. QED BY <1>1 DEF GoesUp
<1>3. PICK g : WalkedFrom(stops, ending, next, g)
  <2> HIDE DEF stops, ending, next
  <2>. QED BY <1>2, WalkExists, Zenon
<1>4. ASSUME NEW x \in Nat \ {0}
      PROVE  (IF x \in stops THEN ending[x] ELSE g[next[x]])
               = IF x >= Len(run) THEN Len(run) + 1
                 ELSE IF KeyAt(run, x) = key THEN x
                 ELSE g[x + SizeAt(run, x)]
  OBVIOUS
<1>5. Walk(g)
  <2> HIDE DEF stops, ending, next
  <2>. QED BY <1>3, <1>4, Zenon DEF WalkedFrom
<1>6. PICK f : f = (CHOOSE h : Walk(h)) OBVIOUS
<1>7. Walk(f)
  <2> HIDE DEF Walk
  <2>. QED BY <1>5, <1>6, Zenon
<1>8. FindRecord(key) = f[1] BY <1>6, Zenon DEF FindRecord
<1>9. \A x \in Nat \ {0} : f[x] = IF x >= Len(run) THEN Len(run) + 1
                                 ELSE IF KeyAt(run, x) = key THEN x
                                 ELSE f[x + SizeAt(run, x)]
  BY <1>7, Zenon
<1>. QED BY <1>8, <1>9, Zenon

LEMMA FindIs ==
    ASSUME StoreAssumption, run \in Seq(Nat), NEW ks, NEW ps, LaidOut(run, stored, ks, ps),
           NEW key
    PROVE  /\ \A i \in 1..Len(ks) : ks[i] = key => FindRecord(key) = ps[i]
           /\ (\A i \in 1..Len(ks) : ks[i] # key) => FindRecord(key) = Len(run) + 1
<1> DEFINE n == Len(ks)
           l == Len(run) + 1
<1>1. PICK f : /\ FindRecord(key) = f[1]
               /\ \A x \in Nat \ {0} :
                    f[x] = IF x >= Len(run) THEN Len(run) + 1
                           ELSE IF KeyAt(run, x) = key THEN x
                           ELSE f[x + SizeAt(run, x)]
  BY FindWalk
<1>2. n \in Nat BY DEF LaidOut
<1> DEFINE S == {i \in 1..n + 1 : /\ \A j \in i..n : ks[j] = key => f[ps[i]] = ps[j]
                                  /\ (\A j \in i..n : ks[j] # key) => f[ps[i]] = l}
<1>3. n + 1 \in S
  <2>1. ps[n + 1] = l BY DEF LaidOut
  <2>2. l \in Nat \ {0} /\ l >= Len(run) OBVIOUS
  <2>3. f[l] = l BY <1>1, <2>2
  <2>4. (n + 1)..n = {} BY <1>2
  <2>. QED BY <1>2, <2>1, <2>3, <2>4
<1>4. ASSUME NEW i \in 1..n, i + 1 \in S PROVE i \in S
  <2>1. /\ ps[i] \in Nat \ {0} /\ ps[i] < Len(run) /\ KeyAt(run, ps[i]) = ks[i]
        /\ ps[i] + SizeAt(run, ps[i]) = ps[i + 1]
    BY RecordIsRead
  <2>2. f[ps[i]] = IF ks[i] = key THEN ps[i] ELSE f[ps[i + 1]]
    <3>1. ~(ps[i] >= Len(run)) BY <2>1
    <3>. QED BY <1>1, <2>1, <3>1, Zenon
  <2>3. \A j \in i..n : j = i \/ j \in i + 1..n BY <1>2
  <2>4. \A j \in i + 1..n : j \in i..n /\ j # i BY <1>2
  <2>5. i \in i..n /\ i \in 1..n /\ i \in 1..n + 1 BY <1>2
  <2>6. /\ \A j \in i + 1..n : ks[j] = key => f[ps[i + 1]] = ps[j]
        /\ (\A j \in i + 1..n : ks[j] # key) => f[ps[i + 1]] = l
    BY <1>4
  <2>7. CASE ks[i] = key
    <3>1. ASSUME NEW j \in i..n, ks[j] = key PROVE j = i
      <4>1. j \in 1..n BY <1>2
      <4>2. \A a, c \in 1..n : ks[a] = ks[c] => a = c BY DEF LaidOut
      <4> HIDE DEF n
      <4>. QED BY <2>7, <3>1, <4>1, <4>2
    <3>2. f[ps[i]] = ps[i] BY <2>2, <2>7
    <3> HIDE DEF n, l
    <3>. QED BY <2>5, <2>7, <3>1, <3>2, Zenon
  <2>8. CASE ks[i] # key
    <3>1. f[ps[i]] = f[ps[i + 1]] BY <2>2, <2>8
    <3> HIDE DEF n, l
    <3>2. \A j \in i..n : ks[j] = key => f[ps[i]] = ps[j]
      BY <2>3, <2>6, <2>8, <3>1, Zenon
    <3>3. (\A j \in i..n : ks[j] # key) => f[ps[i]] = l
      BY <2>4, <2>6, <3>1, Zenon
    <3>. QED BY <2>5, <3>2, <3>3, Zenon
  <2>. QED BY <2>7, <2>8
<1>5. 1 \in S
  <2> HIDE DEF S, n
  <2>1. 1..n + 1 \subseteq S BY <1>2, <1>3, <1>4, Downward
  <2>. QED BY <1>2, <2>1
<1>6. ps[1] = 1 BY DEF LaidOut
<1>7. FindRecord(key) = f[ps[1]] BY <1>1, <1>6
<1> HIDE DEF n, l
<1>8. /\ \A j \in 1..n : ks[j] = key => f[ps[1]] = ps[j]
      /\ (\A j \in 1..n : ks[j] # key) => f[ps[1]] = l
  BY <1>5
<1>. QED BY <1>7, <1>8, Zenon DEF n, l

\* config_store_load's loop goes on from here, by one more record.
GoesOn(b, x) ==
    x < Len(b) /\ b[x] \in 1..MaxKeyLength /\ x + SizeAt(b, x) <= Len(b) + 1

LEMMA LoadWalk ==
    ASSUME NEW b \in Seq(Nat)
    PROVE  \E f : /\ Loads(b) <=> Len(b) <= StoreCapacity /\ f[1] = Len(b) + 1
                  /\ \A x \in Nat \ {0} :
                       f[x] = IF GoesOn(b, x) THEN f[x + SizeAt(b, x)] ELSE x
<1> DEFINE Walk(f) == f = [x \in Nat \ {0} |->
                             IF /\ x < Len(b)
                                /\ b[x] \in 1..MaxKeyLength
                                /\ x + SizeAt(b, x) <= Len(b) + 1
                               THEN f[x + SizeAt(b, x)]
                             ELSE x]
           stops == {x \in Nat \ {0} : ~GoesOn(b, x)}
           ending == [x \in Nat \ {0} |-> x]
           next == [x \in Nat \ {0} |-> x + SizeAt(b, x)]
<1>1. \A x \in Nat \ {0} : x \notin stops => x < Len(b) /\ next[x] \in Nat /\ next[x] > x
  BY SizeIs DEF GoesOn
<1>2. GoesUp(stops, next, Len(b))
  <2> HIDE DEF stops, next
  <2>. QED BY <1>1 DEF GoesUp
<1>3. PICK g : WalkedFrom(stops, ending, next, g)
  <2> HIDE DEF stops, ending, next
  <2>. QED BY <1>2, WalkExists, Zenon
<1>4. ASSUME NEW x \in Nat \ {0}
      PROVE  (IF x \in stops THEN ending[x] ELSE g[next[x]])
               = IF /\ x < Len(b)
                    /\ b[x] \in 1..MaxKeyLength
                    /\ x + SizeAt(b, x) <= Len(b) + 1
                   THEN g[x + SizeAt(b, x)]
                 ELSE x
  BY DEF GoesOn
<1>5. Walk(g)
  <2> HIDE DEF stops, ending, next
  <2>. QED BY <1>3, <1>4, Zenon DEF WalkedFrom
<1>6. PICK f : f = (CHOOSE h : Walk(h)) OBVIOUS
<1>7. Walk(f)
  <2> HIDE DEF Walk
  <2>. QED BY <1>5, <1>6, Zenon
<1>8. Loads(b) <=> Len(b) <= StoreCapacity /\ f[1] = Len(b) + 1 BY <1>6, Zenon DEF Loads
<1>9. \A x \in Nat \ {0} : f[x] = IF GoesOn(b, x) THEN f[x + SizeAt(b, x)] ELSE x
  BY <1>7, Zenon DEF GoesOn
<1>. QED BY <1>8, <1>9, Zenon

\* The beginning of a laid out buffer loads when it ends where a record does.
LEMMA BeginningLoads ==
    ASSUME StoreAssumption, NEW b \in Seq(Nat), NEW v, NEW ks, NEW ps, LaidOut(b, v, ks, ps),
           NEW cut \in 0..Len(b), Len(b) <= StoreCapacity
    PROVE  Loads(SubSeq(b, 1, cut)) <=> \E i \in 1..Len(ks) + 1 : ps[i] = cut + 1
<1> DEFINE n == Len(ks)
           c == SubSeq(b, 1, cut)
<1>1. c \in Seq(Nat) /\ Len(c) = cut /\ \A x \in 1..cut : c[x] = b[x]
  <2>1. cut \in Int /\ cut <= Len(b) /\ 1 <= cut + 1 /\ cut + 1 - 1 = cut /\ 1 \in Nat \ {0}
    BY LenProperties
  <2>2. /\ c \in Seq(Nat) /\ Len(c) = cut + 1 - 1
        /\ \A x \in 1..cut + 1 - 1 : c[x] = b[1 + x - 1]
    BY <2>1, PartOfBytes
  <2>3. \A x \in 1..cut : 1 + x - 1 = x OBVIOUS
  <2> HIDE DEF c
  <2>. QED BY <2>1, <2>2, <2>3
<1> HIDE DEF c
<1>2. PICK f : /\ Loads(c) <=> Len(c) <= StoreCapacity /\ f[1] = Len(c) + 1
               /\ \A x \in Nat \ {0} : f[x] = IF GoesOn(c, x) THEN f[x + SizeAt(c, x)] ELSE x
  BY <1>1, LoadWalk
<1>3. n \in Nat BY DEF LaidOut
<1> DEFINE Ends(i) == \E j \in i..n + 1 : ps[j] = cut + 1
           S == {i \in 1..n + 1 : f[ps[i]] = cut + 1 <=> Ends(i)}
<1>4. \A i \in 1..n + 1 : ps[i] \in Nat \ {0} BY DEF LaidOut
<1>5. \A i, j \in 1..n + 1 : i < j => ps[i] < ps[j] BY DEF LaidOut
<1>6. n + 1 \in S
  <2>1. ps[n + 1] = Len(b) + 1 BY DEF LaidOut
  <2>2. ps[n + 1] \in Nat \ {0} /\ ~GoesOn(c, ps[n + 1]) BY <1>1, <2>1 DEF GoesOn
  <2>3. f[ps[n + 1]] = ps[n + 1] BY <1>2, <2>2
  <2>4. \A j \in n + 1..n + 1 : j = n + 1 BY <1>3
  <2>5. n + 1 \in n + 1..n + 1 /\ n + 1 \in 1..n + 1 BY <1>3
  <2> HIDE DEF n
  <2>. QED BY <2>3, <2>4, <2>5
<1>7. ASSUME NEW i \in 1..n, i + 1 \in S PROVE i \in S
  <2> DEFINE p == ps[i]
             q == ps[i + 1]
  <2>1. /\ p \in Nat \ {0} /\ q \in Nat \ {0} /\ p + 2 <= q /\ p < Len(b)
        /\ p + SizeAt(b, p) = q /\ b[p] = Len(ks[i])
    BY RecordIsRead
  <2>2. b[p] \in 1..MaxKeyLength
    <3>1. ks[i] \in StoreKeys
      <4>1. ks \in Seq(StoreKeys) BY DEF LaidOut
      <4>. QED BY <4>1
    <3>. QED BY <2>1, <3>1, KeyIs
  <2>3. /\ i \in 1..n + 1 /\ i + 1 \in 1..n + 1 /\ i \in i..n + 1
        /\ \A j \in i..n + 1 : j = i \/ j \in i + 1..n + 1
        /\ \A j \in i + 1..n + 1 : j \in i..n + 1 /\ j \in 1..n + 1 /\ (j = i + 1 \/ i + 1 < j)
    BY <1>3
  <2>4. f[q] = cut + 1 <=> Ends(i + 1) BY <1>7
  <2>5. Ends(i) <=> p = cut + 1 \/ Ends(i + 1)
    <3> HIDE DEF n
    <3>. QED BY <2>3, Zenon
  <2>6. \A j \in i + 1..n + 1 : q <= ps[j]
    <3> HIDE DEF n
    <3>1. ASSUME NEW j \in i + 1..n + 1 PROVE q <= ps[j]
      <4>1. j = i + 1 \/ ps[i + 1] < ps[j] BY <1>5, <2>3
      <4>2. ps[j] \in Nat BY <1>4, <2>3
      <4>. QED BY <2>1, <4>1, <4>2
    <3>. QED BY <3>1
  <2>7. p < cut => SizeAt(c, p) = SizeAt(b, p) /\ c[p] = b[p]
    <3>1. p < cut => p \in 1..cut /\ p + 1 \in 1..cut
      <4>1. p \in Nat \ {0} /\ cut \in Nat BY <2>1
      <4> HIDE DEF p
      <4>. QED BY <4>1
    <3>. QED BY <1>1, <3>1 DEF SizeAt
  <2>8. CASE q <= cut + 1
    <3>1. p < cut BY <2>1, <2>8, SMTT(30)
    <3>2. GoesOn(c, p) BY <1>1, <2>1, <2>2, <2>7, <2>8, <3>1 DEF GoesOn
    <3>3. f[p] = f[q]
      <4>1. p + SizeAt(c, p) = q BY <2>1, <2>7, <3>1
      <4>. QED BY <1>2, <2>1, <3>2, <4>1, Zenon
    <3>4. p # cut + 1 BY <2>1, <3>1
    <3>. QED BY <2>3, <2>4, <2>5, <3>3, <3>4, Zenon
  <2>9. CASE ~(q <= cut + 1)
    <3>1. ~GoesOn(c, p) BY <1>1, <2>1, <2>7, <2>9 DEF GoesOn
    <3>2. f[p] = p BY <1>2, <2>1, <3>1, Zenon
    <3>3. ~Ends(i + 1)
      <4>1. \A j \in i + 1..n + 1 : ps[j] # cut + 1
        <5> HIDE DEF n
        <5>1. ASSUME NEW j \in i + 1..n + 1 PROVE ps[j] # cut + 1
          <6>1. q <= ps[j] /\ ps[j] \in Nat BY <1>4, <2>3, <2>6
          <6>. QED BY <2>1, <2>9, <6>1
        <5>. QED BY <5>1
      <4>. QED BY <4>1
    <3>. QED BY <2>3, <2>5, <3>2, <3>3, Zenon
  <2>. QED BY <2>8, <2>9
<1>8. 1 \in S
  <2> HIDE DEF S, n
  <2>1. 1..n + 1 \subseteq S BY <1>3, <1>6, <1>7, Downward
  <2>. QED BY <1>3, <2>1
<1>9. ps[1] = 1 BY DEF LaidOut
<1>10. f[1] = cut + 1 <=> Ends(1) BY <1>8, <1>9
<1>11. Loads(c) <=> Ends(1)
  <2>1. Len(c) <= StoreCapacity BY <1>1 DEF StoreAssumption
  <2> HIDE DEF Ends
  <2>. QED BY <1>1, <1>2, <1>10, <2>1
<1>. QED BY <1>11 DEF c

LEMMA ListedWalk ==
    ASSUME run \in Seq(Nat)
    PROVE  \E f : /\ Listed = f[1]
                  /\ \A x \in Nat \ {0} :
                       f[x] = IF x >= Len(run) THEN <<>>
                              ELSE <<KeyAt(run, x)>> \o f[x + SizeAt(run, x)]
<1> DEFINE Walk(f) == f = [x \in Nat \ {0} |->
                             IF x >= Len(run) THEN <<>>
                             ELSE <<KeyAt(run, x)>> \o f[x + SizeAt(run, x)]]
           stops == {x \in Nat \ {0} : x >= Len(run)}
           met == [x \in Nat \ {0} |-> KeyAt(run, x)]
           next == [x \in Nat \ {0} |-> x + SizeAt(run, x)]
<1>1. \A x \in Nat \ {0} : x \notin stops => x < Len(run) /\ next[x] \in Nat /\ next[x] > x
  BY SizeIs
<1>2. GoesUp(stops, next, Len(run))
  <2> HIDE DEF stops, next
  <2>. QED BY <1>1 DEF GoesUp
<1>3. PICK g : Listing(stops, met, next, g)
  <2> HIDE DEF stops, met, next
  <2>. QED BY <1>2, ListingExists, Zenon
<1>4. ASSUME NEW x \in Nat \ {0}
      PROVE  (IF x \in stops THEN <<>> ELSE <<met[x]>> \o g[next[x]])
               = IF x >= Len(run) THEN <<>>
                 ELSE <<KeyAt(run, x)>> \o g[x + SizeAt(run, x)]
  <2>1. met[x] = KeyAt(run, x) /\ next[x] = x + SizeAt(run, x) OBVIOUS
  <2>2. x \in stops <=> x >= Len(run) OBVIOUS
  <2> HIDE DEF met, next, stops
  <2>. QED BY <2>1, <2>2, Zenon
<1>5. Walk(g)
  <2> HIDE DEF stops, met, next
  <2>. QED BY <1>3, <1>4, Zenon DEF Listing
<1>6. PICK f : f = (CHOOSE h : Walk(h)) OBVIOUS
<1>7. Walk(f)
  <2> HIDE DEF Walk
  <2>. QED BY <1>5, <1>6, Zenon
<1>8. Listed = f[1] BY <1>6, Zenon DEF Listed
<1>9. \A x \in Nat \ {0} : f[x] = IF x >= Len(run) THEN <<>>
                                 ELSE <<KeyAt(run, x)>> \o f[x + SizeAt(run, x)]
  BY <1>7, Zenon
<1>. QED BY <1>8, <1>9, Zenon

LEMMA RestOf ==
    ASSUME NEW s \in Seq(StoreKeys), NEW i \in 1..Len(s)
    PROVE  <<s[i]>> \o SubSeq(s, i + 1, Len(s)) = SubSeq(s, i, Len(s))
OBVIOUS

LEMMA ListedIs ==
    ASSUME StoreAssumption, run \in Seq(Nat), NEW ks, NEW ps, LaidOut(run, stored, ks, ps)
    PROVE  Listed = ks
<1> DEFINE n == Len(ks)
<1>1. PICK f : /\ Listed = f[1]
               /\ \A x \in Nat \ {0} :
                    f[x] = IF x >= Len(run) THEN <<>>
                           ELSE <<KeyAt(run, x)>> \o f[x + SizeAt(run, x)]
  BY ListedWalk
<1>2. n \in Nat /\ ks \in Seq(StoreKeys) BY DEF LaidOut
<1> DEFINE S == {i \in 1..n + 1 : f[ps[i]] = SubSeq(ks, i, n)}
<1>3. n + 1 \in S
  <2>1. ps[n + 1] = Len(run) + 1 BY DEF LaidOut
  <2>2. ps[n + 1] \in Nat \ {0} /\ ps[n + 1] >= Len(run) BY <2>1
  <2>3. f[ps[n + 1]] = <<>> BY <1>1, <2>2, Zenon
  <2>4. SubSeq(ks, n + 1, n) = <<>> BY <1>2
  <2>5. n + 1 \in 1..n + 1 BY <1>2
  <2>. QED BY <2>3, <2>4, <2>5
<1>4. ASSUME NEW i \in 1..n, i + 1 \in S PROVE i \in S
  <2>1. /\ ps[i] \in Nat \ {0} /\ ps[i] < Len(run) /\ KeyAt(run, ps[i]) = ks[i]
        /\ ps[i] + SizeAt(run, ps[i]) = ps[i + 1]
    BY RecordIsRead
  <2>2. ~(ps[i] >= Len(run)) BY <2>1
  <2>3. f[ps[i]] = <<ks[i]>> \o f[ps[i + 1]] BY <1>1, <2>1, <2>2, Zenon
  <2>4. f[ps[i + 1]] = SubSeq(ks, i + 1, n) BY <1>4
  <2>5. i \in 1..n + 1 BY <1>2
  <2>6. <<ks[i]>> \o SubSeq(ks, i + 1, n) = SubSeq(ks, i, n) BY <1>2, RestOf
  <2>. QED BY <2>3, <2>4, <2>5, <2>6
<1>5. 1 \in S
  <2> HIDE DEF S, n
  <2>1. 1..n + 1 \subseteq S BY <1>2, <1>3, <1>4, Downward
  <2>. QED BY <1>2, <2>1
<1>6. ps[1] = 1 BY DEF LaidOut
<1>7. Listed = SubSeq(ks, 1, n) BY <1>1, <1>5, <1>6
<1>8. SubSeq(ks, 1, n) = ks BY <1>2
<1>. QED BY <1>7, <1>8
-----------------------------------------------------------------------------
(* What StoreReadsBack promises *)

LEMMA PresentAre ==
    ASSUME StoreAssumption, StoreInv, NEW ks, NEW ps, LaidOut(run, stored, ks, ps)
    PROVE  /\ \A i \in 1..Len(ks) : ks[i] \in Present
           /\ \A k \in Present : \E i \in 1..Len(ks) : ks[i] = k
           /\ Cardinality(Present) = Len(ks)
<1> DEFINE n == Len(ks)
<1>1. n \in Nat /\ ks \in Seq(StoreKeys) BY DEF LaidOut
<1>2. ASSUME NEW i \in 1..n PROVE ks[i] \in Present
  <2>1. ks[i] \in StoreKeys BY <1>1
  <2>2. stored[ks[i]] \in StoreValues BY DEF LaidOut
  <2>3. stored[ks[i]] # Absent BY <2>2, ValueIs
  <2>. QED BY <2>1, <2>3 DEF Present
<1>3. \A k \in Present : \E i \in 1..n : ks[i] = k BY DEF Present, LaidOut
<1>4. Cardinality(Present) = n
  <2>1. \A i, j \in 1..n : ks[i] = ks[j] => i = j BY DEF LaidOut
  <2> DEFINE g == [i \in 1..n |-> ks[i]]
  <2>2. g \in Bijection(1..n, Present)
    <3>1. g \in [1..n -> Present] BY <1>2
    <3>2. \A k \in Present : \E i \in 1..n : g[i] = k BY <1>3
    <3>3. \A i, j \in 1..n : g[i] = g[j] => i = j BY <2>1
    <3> HIDE DEF n, g
    <3>. QED BY <3>1, <3>2, <3>3 DEF Bijection, Injection, Surjection, IsInjective
  <2>3. ExistsBijection(1..n, Present) BY <2>2 DEF ExistsBijection
  <2> HIDE DEF n
  <2>. QED BY <1>1, <2>3, FS_CountingElements
<1>. QED BY <1>2, <1>3, <1>4

Reply(result, length, value) == [result |-> result, length |-> length, value |-> value]
Text(result, value) == [result |-> result, value |-> value]

TooSmall == "too small"
NotFound == "not found"

LEMMA Results == TooSmall # "ok" /\ NotFound # "ok" /\ TooSmall # NotFound /\ NotFound # "ok"
BY Zenon DEF TooSmall, NotFound

StoredAs(key, w) ==
    /\ Has(key) /\ BytesAt(run, FindRecord(key)) = w
    /\ run[FindRecord(key) + 1] = Len(w)

LEMMA GetPresent ==
    ASSUME NEW key, NEW c, NEW w, StoredAs(key, w)
    PROVE  /\ Len(w) > c => Get(key, c) = Reply(TooSmall, Len(w), <<>>)
           /\ ~(Len(w) > c) => Get(key, c) = Reply("ok", Len(w), w)
BY Zenon DEF Get, StoredAs, Reply, TooSmall

LEMMA GetAbsent ==
    ASSUME NEW key, NEW c, ~Has(key)
    PROVE  Get(key, c) = Reply(NotFound, 0, <<>>)
BY Zenon DEF Get, Reply, NotFound

LEMMA EndsOf ==
    ASSUME NEW s \in Seq(Nat)
    PROVE  SubSeq(s, 1, 0) = <<>> /\ SubSeq(s, 1, Len(s)) = s
OBVIOUS

\* What is left of the fallback.
Fallback(c) == IF c < 2 THEN <<>> ELSE <<0>>

LEMMA FallbackIs ==
    ASSUME NEW c \in Nat \ {0}
    PROVE  SubSeq(<<0>>, 1, IF Len(<<0>>) < c THEN Len(<<0>>) ELSE c - 1) = Fallback(c)
<1> DEFINE s == <<0>>
<1>1. s \in Seq(Nat) /\ Len(s) = 1 OBVIOUS
<1>2. SubSeq(s, 1, 0) = <<>> /\ SubSeq(s, 1, 1) = s
  <2> HIDE DEF s
  <2>. QED BY <1>1, EndsOf
<1>3. CASE c = 1
  <2>1. ~(1 < c) /\ c - 1 = 0 /\ c < 2 BY <1>3
  <2>. QED BY <1>1, <1>2, <2>1, Zenon DEF Fallback
<1>4. CASE c # 1
  <2>1. 1 < c /\ ~(c < 2) BY <1>4
  <2>. QED BY <1>1, <1>2, <2>1, Zenon DEF Fallback
<1>. QED BY <1>3, <1>4

LEMMA StringPresent ==
    ASSUME StoreAssumption, NEW key, NEW c \in 1..Narrow, NEW w \in Seq(Nat), StoredAs(key, w)
    PROVE  /\ Len(w) < c => GetString(key, c, <<0>>) = Text("ok", w)
           /\ ~(Len(w) < c) => GetString(key, c, <<0>>) = Text(TooSmall, Fallback(c))
<1> DEFINE rest == SubSeq(<<0>>, 1, IF Len(<<0>>) < c THEN Len(<<0>>) ELSE c - 1)
<1>1. Narrow \in Nat \ {0} BY DEF StoreAssumption
<1>2. c \in Nat \ {0} /\ (c - 1) % Narrow = c - 1 /\ Len(w) \in Nat BY <1>1
<1>3. rest = Fallback(c) BY <1>2, FallbackIs
<1>4. Get(key, 0).result # NotFound /\ Get(key, 0).length = Len(w)
  <2>1. /\ Len(w) > 0 => Get(key, 0) = Reply(TooSmall, Len(w), <<>>)
        /\ ~(Len(w) > 0) => Get(key, 0) = Reply("ok", Len(w), w)
    BY GetPresent, Zenon
  <2>. QED BY <2>1, Results DEF Reply
<1>5. CASE Len(w) < c
  <2>1. ~(Len(w) + 1 > c) /\ ~(Len(w) > c - 1) BY <1>2, <1>5
  <2>2. Get(key, (c - 1) % Narrow) = Reply("ok", Len(w), w)
    <3>1. (c - 1) % Narrow = c - 1 BY <1>2
    <3>2. ~(Len(w) > (c - 1) % Narrow) BY <2>1, <3>1
    <3>. QED BY <3>2, GetPresent, Zenon
  <2>3. /\ Get(key, (c - 1) % Narrow).result = "ok"
        /\ Get(key, (c - 1) % Narrow).value = w
    BY <2>2 DEF Reply
  <2>4. GetString(key, c, <<0>>) = Text("ok", w)
    BY <1>4, <2>1, <2>3, Zenon DEF GetString, Text, NotFound
  <2>. QED BY <1>5, <2>4, Zenon
<1>6. CASE ~(Len(w) < c)
  <2>1. Len(w) + 1 > c BY <1>2, <1>6
  <2> HIDE DEF rest
  <2>2. GetString(key, c, <<0>>) = Text(TooSmall, rest)
    BY <1>4, <2>1, Zenon DEF GetString, Text, rest, NotFound, TooSmall
  <2>. QED BY <1>3, <1>6, <2>2, Zenon
<1>. QED BY <1>5, <1>6, Zenon

LEMMA StringAbsent ==
    ASSUME NEW key, NEW c \in Nat \ {0}, ~Has(key)
    PROVE  GetString(key, c, <<0>>) = Text(NotFound, Fallback(c))
<1> DEFINE rest == SubSeq(<<0>>, 1, IF Len(<<0>>) < c THEN Len(<<0>>) ELSE c - 1)
<1>1. rest = Fallback(c) BY FallbackIs
<1>2. Get(key, 0).result = NotFound
  <2>1. Get(key, 0) = Reply(NotFound, 0, <<>>) BY GetAbsent, Zenon
  <2>. QED BY <2>1 DEF Reply
<1> HIDE DEF rest
<1>3. GetString(key, c, <<0>>) = Text(NotFound, rest)
  BY <1>2, Zenon DEF GetString, Text, rest, NotFound
<1>. QED BY <1>1, <1>3, Zenon

KeyReadsBack(key) ==
    /\ Has(key) = (key \in Present)
    /\ key \in Present => Get(key, Narrow - 1).value = stored[key]
    /\ \A capacity \in 1..Narrow :
         LET got == GetString(key, capacity, <<0>>)
         IN  IF key \in Present /\ Len(stored[key]) < capacity
               THEN got = [result |-> "ok", value |-> stored[key]]
             ELSE got.result # "ok" /\ got.value = IF capacity < 2 THEN <<>> ELSE <<0>>

LEMMA KeysReadBack ==
    ASSUME StoreAssumption, StoreInv, NEW key \in StoreKeys
    PROVE  KeyReadsBack(key)
<1>1. PICK ks, ps : LaidOut(run, stored, ks, ps) BY DEF StoreInv
<1>2. run \in Seq(Nat) BY DEF StoreInv
<1>3. CASE key \in Present
  <2> DEFINE w == stored[key]
  <2>1. PICK i \in 1..Len(ks) : ks[i] = key BY <1>1, <1>3, PresentAre
  <2>2. FindRecord(key) = ps[i] BY <1>1, <1>2, <2>1, FindIs
  <2>3. /\ ps[i] \in Nat /\ ps[i] < Len(run)
        /\ run[ps[i] + 1] = Len(stored[ks[i]]) /\ BytesAt(run, ps[i]) = stored[ks[i]]
    BY <1>1, <1>2, RecordIsRead
  <2>4. Has(key)
    <3>1. FindRecord(key) <= Len(run) BY <1>2, <2>2, <2>3
    <3>. QED BY <3>1, Zenon DEF Has
  <2>5. StoredAs(key, w)
    <3>1. run[FindRecord(key) + 1] = Len(w) /\ BytesAt(run, FindRecord(key)) = w
      BY <2>1, <2>2, <2>3, Zenon
    <3>. QED BY <2>4, <3>1, Zenon DEF StoredAs
  <2>6. w \in StoreValues
    <3>1. w # Absent /\ w \in StoreValues \cup {Absent} BY <1>3 DEF Present, StoreInv
    <3>. QED BY <3>1
  <2>7. w \in Seq(Nat) /\ ~(Len(w) > Narrow - 1)
    <3>1. Narrow \in Nat BY DEF StoreAssumption
    <3>. QED BY <2>6, <3>1, ValueIs
  <2> HIDE DEF w
  <2>8. Get(key, Narrow - 1).value = w
    <3>1. Get(key, Narrow - 1) = Reply("ok", Len(w), w) BY <2>5, <2>7, GetPresent, Zenon
    <3>. QED BY <3>1 DEF Reply
  <2>9. ASSUME NEW c \in 1..Narrow
        PROVE  LET got == GetString(key, c, <<0>>)
               IN  IF key \in Present /\ Len(w) < c
                     THEN got = [result |-> "ok", value |-> w]
                   ELSE got.result # "ok" /\ got.value = IF c < 2 THEN <<>> ELSE <<0>>
    <3> DEFINE got == GetString(key, c, <<0>>)
    <3>1. /\ Len(w) < c => got = Text("ok", w)
          /\ ~(Len(w) < c) => got = Text(TooSmall, Fallback(c))
      BY <2>5, <2>7, StringPresent, Zenon
    <3>2. CASE Len(w) < c BY <1>3, <3>1, <3>2, Zenon DEF Text
    <3>3. CASE ~(Len(w) < c)
      <4>1. got.result # "ok" /\ got.value = Fallback(c) BY <3>1, <3>3, Results DEF Text
      <4>. QED BY <3>3, <4>1, Zenon DEF Fallback
    <3>. QED BY <3>2, <3>3, Zenon
  <2>. QED BY <1>3, <2>4, <2>8, <2>9, Zenon DEF KeyReadsBack, w
<1>4. CASE key \notin Present
  <2>1. \A i \in 1..Len(ks) : ks[i] # key BY <1>1, <1>4, PresentAre
  <2>2. FindRecord(key) = Len(run) + 1 BY <1>1, <1>2, <2>1, FindIs
  <2>3. Has(key) = FALSE BY <1>2, <2>2 DEF Has
  <2>4. ASSUME NEW c \in 1..Narrow
        PROVE  LET got == GetString(key, c, <<0>>)
               IN  got.result # "ok" /\ got.value = IF c < 2 THEN <<>> ELSE <<0>>
    <3> DEFINE got == GetString(key, c, <<0>>)
    <3>1. c \in Nat \ {0} BY DEF StoreAssumption
    <3>2. got = Text(NotFound, Fallback(c)) BY <2>3, <3>1, StringAbsent, Zenon
    <3>3. got.result # "ok" /\ got.value = Fallback(c) BY <3>2, Results DEF Text
    <3>. QED BY <3>3, Zenon DEF Fallback
  <2>5. Has(key) = (key \in Present) BY <1>2, <1>4, <2>2 DEF Has
  <2>. QED BY <1>4, <2>4, <2>5, Zenon DEF KeyReadsBack
<1>. QED BY <1>3, <1>4

LEMMA StoreHolds ==
    ASSUME StoreAssumption, StoreInv
    PROVE  StoreReadsBack
<1>1. PICK ks, ps : LaidOut(run, stored, ks, ps) BY DEF StoreInv
<1>2. run \in Seq(Nat) /\ Len(run) <= StoreCapacity BY DEF StoreInv
<1>3. /\ Len(ks) \in Nat /\ ks \in Seq(StoreKeys) /\ ps[Len(ks) + 1] = Len(run) + 1
      /\ ps \in [1..Len(ks) + 1 -> Nat \ {0}]
  BY <1>1 DEF LaidOut
<1>4. Loads(run)
  <2>1. Len(run) \in 0..Len(run) /\ SubSeq(run, 1, Len(run)) = run BY <1>2
  <2>2. Len(ks) + 1 \in 1..Len(ks) + 1 BY <1>3
  <2>3. Loads(SubSeq(run, 1, Len(run)))
          <=> \E i \in 1..Len(ks) + 1 : ps[i] = Len(run) + 1
    BY <1>1, <1>2, <2>1, BeginningLoads
  <2>. QED BY <1>3, <2>1, <2>2, <2>3, Zenon
<1>5. /\ Len(Listed) = Cardinality(Present)
      /\ {Listed[i] : i \in DOMAIN Listed} = Present
  <2>1. Listed = ks BY <1>1, <1>2, ListedIs
  <2>2. DOMAIN ks = 1..Len(ks) BY <1>3
  <2>3. /\ \A i \in 1..Len(ks) : ks[i] \in Present
        /\ \A k \in Present : \E i \in 1..Len(ks) : ks[i] = k
        /\ Cardinality(Present) = Len(ks)
    BY <1>1, PresentAre
  <2>. QED BY <2>1, <2>2, <2>3
<1>6. ASSUME NEW cut \in 0..Len(run) - 1
      PROVE  Loads(SubSeq(run, 1, cut)) = \E key \in Present : FindRecord(key) = cut + 1
  <2>1. cut \in 0..Len(run) /\ cut + 1 # Len(run) + 1 BY <1>2
  <2>2. Loads(SubSeq(run, 1, cut)) <=> \E i \in 1..Len(ks) + 1 : ps[i] = cut + 1
    BY <1>1, <1>2, <2>1, BeginningLoads
  <2>3. \A i \in 1..Len(ks) + 1 : i \in 1..Len(ks) \/ i = Len(ks) + 1 BY <1>3
  <2>4. \A i \in 1..Len(ks) : i \in 1..Len(ks) + 1 BY <1>3
  <2>5. \A i \in 1..Len(ks) : ks[i] \in Present /\ FindRecord(ks[i]) = ps[i]
    BY <1>1, <1>2, FindIs, PresentAre
  <2>6. \A k \in Present : \E i \in 1..Len(ks) : ks[i] = k BY <1>1, PresentAre
  <2>7. (\E i \in 1..Len(ks) + 1 : ps[i] = cut + 1)
          <=> \E key \in Present : FindRecord(key) = cut + 1
    <3>1. ASSUME NEW i \in 1..Len(ks) + 1, ps[i] = cut + 1
          PROVE  \E key \in Present : FindRecord(key) = cut + 1
      <4>1. i \in 1..Len(ks) BY <1>3, <2>1, <2>3, <3>1
      <4>. QED BY <2>5, <3>1, <4>1
    <3>2. ASSUME NEW key \in Present, FindRecord(key) = cut + 1
          PROVE  \E i \in 1..Len(ks) + 1 : ps[i] = cut + 1
      <4>1. PICK i \in 1..Len(ks) : ks[i] = key BY <2>6
      <4>. QED BY <2>4, <2>5, <3>2, <4>1, Zenon
    <3>. QED BY <3>1, <3>2, Zenon
  <2>8. Loads(SubSeq(run, 1, cut)) \in BOOLEAN BY Zenon DEF Loads
  <2>. QED BY <2>2, <2>7, <2>8, Zenon
<1>7. \A key \in StoreKeys : KeyReadsBack(key) BY KeysReadBack
<1>. QED BY <1>2, <1>4, <1>5, <1>6, <1>7, Zenon DEF StoreReadsBack, KeyReadsBack
-----------------------------------------------------------------------------
(* Setting and removing *)

\* A part of ex bytes, from p on, makes room for r.
Spliced(b, p, ex, r) == SubSeq(b, 1, p - 1) \o r \o SubSeq(b, p + ex, Len(b))

LEMMA BytesJoined ==
    ASSUME NEW s \in Seq(Nat), NEW t \in Seq(Nat)
    PROVE  /\ s \o t \in Seq(Nat) /\ Len(s \o t) = Len(s) + Len(t)
           /\ \A x \in 1..Len(s) : (s \o t)[x] = s[x]
           /\ \A x \in 1..Len(t) : (s \o t)[Len(s) + x] = t[x]
<1>1. Len(s) \in Nat /\ Len(t) \in Nat BY LenProperties
<1>. QED BY <1>1, ConcatProperties

IsSpliced(b, p, ex, r, c) ==
    /\ c \in Seq(Nat) /\ Len(c) = Len(b) - ex + Len(r)
    /\ \A x \in 1..p - 1 : c[x] = b[x]
    /\ \A j \in 1..Len(r) : c[p - 1 + j] = r[j]
    /\ \A x \in p + ex..Len(b) : c[x - ex + Len(r)] = b[x]

LEMMA SplicedIs ==
    ASSUME NEW b \in Seq(Nat), NEW p \in Nat \ {0}, NEW ex \in Nat, p + ex <= Len(b) + 1,
           NEW r \in Seq(Nat)
    PROVE  IsSpliced(b, p, ex, r, Spliced(b, p, ex, r))
<1> DEFINE u == SubSeq(b, 1, p - 1)
           w == SubSeq(b, p + ex, Len(b))
           c == u \o r \o w
<1>1. u \in Seq(Nat) /\ Len(u) = p - 1 /\ \A x \in 1..p - 1 : u[x] = b[x]
  <2>1. /\ p - 1 \in Int /\ p - 1 <= Len(b) /\ 1 <= (p - 1) + 1 /\ (p - 1) + 1 - 1 = p - 1
        /\ 1 \in Nat \ {0}
    BY LenProperties
  <2>2. /\ u \in Seq(Nat) /\ Len(u) = (p - 1) + 1 - 1
        /\ \A x \in 1..(p - 1) + 1 - 1 : u[x] = b[1 + x - 1]
    BY <2>1, PartOfBytes
  <2>3. \A x \in 1..p - 1 : 1 + x - 1 = x OBVIOUS
  <2> HIDE DEF u
  <2>. QED BY <2>1, <2>2, <2>3
<1>2. /\ w \in Seq(Nat) /\ Len(w) = Len(b) + 1 - (p + ex)
      /\ \A x \in 1..Len(w) : w[x] = b[p + ex + x - 1]
  <2> DEFINE q == p + ex
  <2>1. q \in Nat \ {0} /\ Len(b) \in Int /\ Len(b) <= Len(b) /\ q <= Len(b) + 1
    BY LenProperties
  <2>2. w = SubSeq(b, q, Len(b)) OBVIOUS
  <2> HIDE DEF q, w
  <2>3. /\ w \in Seq(Nat) /\ Len(w) = Len(b) + 1 - q
        /\ \A x \in 1..Len(b) + 1 - q : w[x] = b[q + x - 1]
    BY <2>1, <2>2, PartOfBytes
  <2>. QED BY <2>3 DEF q
<1>3. Len(r) \in Nat /\ Len(b) \in Nat OBVIOUS
<1> HIDE DEF u, w
<1>4. /\ u \o r \in Seq(Nat) /\ Len(u \o r) = p - 1 + Len(r)
      /\ \A x \in 1..p - 1 : (u \o r)[x] = u[x]
      /\ \A j \in 1..Len(r) : (u \o r)[p - 1 + j] = r[j]
  <2>1. /\ u \o r \in Seq(Nat) /\ Len(u \o r) = Len(u) + Len(r)
        /\ \A x \in 1..Len(u) : (u \o r)[x] = u[x]
        /\ \A x \in 1..Len(r) : (u \o r)[Len(u) + x] = r[x]
    BY <1>1, BytesJoined, Zenon
  <2> DEFINE t == u \o r
  <2> HIDE DEF t
  <2>. QED BY <1>1, <2>1 DEF t
<1> DEFINE t == u \o r
<1>5. /\ t \o w \in Seq(Nat) /\ Len(t \o w) = Len(t) + Len(w)
      /\ \A x \in 1..Len(t) : (t \o w)[x] = t[x]
      /\ \A x \in 1..Len(w) : (t \o w)[Len(t) + x] = w[x]
  <2>1. t \in Seq(Nat) BY <1>4
  <2> HIDE DEF t
  <2>. QED BY <1>2, <2>1, BytesJoined
<1>6. Len(t) = p - 1 + Len(r) BY <1>4
<1> HIDE DEF t
<1>7. c = t \o w BY DEF t
<1> HIDE DEF c
<1>8. Len(c) = Len(b) - ex + Len(r)
  <2>1. Len(c) = (p - 1 + Len(r)) + (Len(b) + 1 - (p + ex)) BY <1>2, <1>5, <1>6, <1>7
  <2>. QED BY <1>3, <2>1
<1>9. ASSUME NEW x \in 1..p - 1 PROVE c[x] = b[x]
  <2>1. x \in 1..Len(t) BY <1>3, <1>6
  <2>. QED BY <1>1, <1>4, <1>5, <1>7, <2>1 DEF t
<1>10. ASSUME NEW j \in 1..Len(r) PROVE c[p - 1 + j] = r[j]
  <2>1. p - 1 + j \in 1..Len(t) BY <1>3, <1>6
  <2>2. c[p - 1 + j] = t[p - 1 + j] BY <1>5, <1>7, <2>1
  <2>3. t[p - 1 + j] = r[j] BY <1>4 DEF t
  <2>. QED BY <2>2, <2>3
<1>11. ASSUME NEW x \in p + ex..Len(b) PROVE c[x - ex + Len(r)] = b[x]
  <2> DEFINE y == x - (p + ex) + 1
  <2>1. y \in 1..Len(w) /\ Len(t) + y = x - ex + Len(r) /\ p + ex + y - 1 = x
    BY <1>2, <1>3, <1>6
  <2> HIDE DEF y
  <2>2. c[Len(t) + y] = w[y] BY <1>5, <1>7, <2>1
  <2>3. w[y] = b[p + ex + y - 1] BY <1>2, <2>1
  <2>. QED BY <2>1, <2>2, <2>3
<1>12. c = Spliced(b, p, ex, r) BY DEF Spliced, c, u, w
<1>13. IsSpliced(b, p, ex, r, c) BY <1>5, <1>7, <1>8, <1>9, <1>10, <1>11 DEF IsSpliced
<1>. QED BY <1>12, <1>13

LEMMA RecordIs ==
    ASSUME NEW k \in Seq(Nat), NEW v \in Seq(Nat)
    PROVE  /\ Record(k, v) \in Seq(Nat) /\ Len(Record(k, v)) = RecordSize(Len(k), Len(v))
           /\ Record(k, v)[1] = Len(k) /\ Record(k, v)[2] = Len(v)
           /\ \A j \in 1..Len(k) : Record(k, v)[2 + j] = k[j]
           /\ \A j \in 1..Len(v) : Record(k, v)[2 + Len(k) + j] = v[j]
<1> DEFINE h == <<Len(k), Len(v)>>
           t == h \o k
<1>1. h \in Seq(Nat) /\ Len(h) = 2 /\ h[1] = Len(k) /\ h[2] = Len(v) OBVIOUS
<1>2. Len(k) \in Nat /\ Len(v) \in Nat OBVIOUS
<1> HIDE DEF h
<1>3. /\ t \in Seq(Nat) /\ Len(t) = 2 + Len(k) /\ t[1] = h[1] /\ t[2] = h[2]
      /\ \A j \in 1..Len(k) : t[2 + j] = k[j]
  <2>1. 1 \in 1..Len(h) /\ 2 \in 1..Len(h) BY <1>1
  <2>2. /\ t \in Seq(Nat) /\ Len(t) = Len(h) + Len(k)
        /\ \A x \in 1..Len(h) : t[x] = h[x]
        /\ \A x \in 1..Len(k) : t[Len(h) + x] = k[x]
    BY <1>1, BytesJoined, Zenon
  <2> HIDE DEF t
  <2>. QED BY <1>1, <2>1, <2>2
<1> HIDE DEF t
<1>4. /\ t \o v \in Seq(Nat) /\ Len(t \o v) = Len(t) + Len(v)
      /\ \A x \in 1..Len(t) : (t \o v)[x] = t[x]
      /\ \A j \in 1..Len(v) : (t \o v)[Len(t) + j] = v[j]
  BY <1>3, BytesJoined
<1>5. 1 \in 1..Len(t) /\ 2 \in 1..Len(t) /\ \A j \in 1..Len(k) : 2 + j \in 1..Len(t)
  BY <1>2, <1>3
<1>6. Record(k, v) = t \o v BY DEF Record, t, h
<1>7. Len(Record(k, v)) = RecordSize(Len(k), Len(v))
  BY <1>2, <1>3, <1>4, <1>6 DEF RecordSize
<1>8. Record(k, v)[1] = Len(k) /\ Record(k, v)[2] = Len(v)
  BY <1>1, <1>3, <1>4, <1>5, <1>6
<1>9. \A j \in 1..Len(k) : Record(k, v)[2 + j] = k[j] BY <1>3, <1>4, <1>5, <1>6
<1>10. \A j \in 1..Len(v) : Record(k, v)[2 + Len(k) + j] = v[j] BY <1>3, <1>4, <1>6
<1>. QED BY <1>4, <1>6, <1>7, <1>8, <1>9, <1>10

\* A record is one wherever its bytes are.
LEMMA RecordMoves ==
    ASSUME NEW b, NEW c, NEW p \in Nat, NEW d \in Int, NEW k \in Seq(Nat), NEW v \in Seq(Nat),
           IsRecord(b, p, k, v), \A x \in p..p + 1 + Len(k) + Len(v) : c[x + d] = b[x]
    PROVE  IsRecord(c, p + d, k, v)
<1>1. Len(k) \in Nat /\ Len(v) \in Nat OBVIOUS
<1>2. c[p + d] = Len(k)
  <2>1. p \in p..p + 1 + Len(k) + Len(v) BY <1>1
  <2>2. b[p] = Len(k) BY DEF IsRecord
  <2>. QED BY <2>1, <2>2
<1>3. c[(p + d) + 1] = Len(v)
  <2>1. p + 1 \in p..p + 1 + Len(k) + Len(v) /\ (p + 1) + d = (p + d) + 1 BY <1>1
  <2>2. b[p + 1] = Len(v) BY DEF IsRecord
  <2>. QED BY <2>1, <2>2
<1>4. ASSUME NEW j \in 1..Len(k) PROVE c[(p + d) + 1 + j] = k[j]
  <2>1. /\ p + 1 + j \in p..p + 1 + Len(k) + Len(v)
        /\ (p + 1 + j) + d = (p + d) + 1 + j
    BY <1>1
  <2>2. b[p + 1 + j] = k[j] BY DEF IsRecord
  <2>. QED BY <2>1, <2>2
<1>5. ASSUME NEW j \in 1..Len(v) PROVE c[(p + d) + 1 + Len(k) + j] = v[j]
  <2>1. /\ p + 1 + Len(k) + j \in p..p + 1 + Len(k) + Len(v)
        /\ (p + 1 + Len(k) + j) + d = (p + d) + 1 + Len(k) + j
    BY <1>1
  <2>2. b[p + 1 + Len(k) + j] = v[j] BY DEF IsRecord
  <2>. QED BY <2>1, <2>2
<1>. QED BY <1>2, <1>3, <1>4, <1>5 DEF IsRecord

\* The record written at p.
LEMMA RecordWritten ==
    ASSUME NEW c, NEW p \in Nat, NEW k \in Seq(Nat), NEW v \in Seq(Nat),
           \A j \in 1..Len(Record(k, v)) : c[p - 1 + j] = Record(k, v)[j]
    PROVE  IsRecord(c, p, k, v)
<1> DEFINE r == Record(k, v)
<1>1. Len(k) \in Nat /\ Len(v) \in Nat OBVIOUS
<1>2. /\ Len(r) = Len(k) + Len(v) + 2 /\ r[1] = Len(k) /\ r[2] = Len(v)
      /\ \A j \in 1..Len(k) : r[2 + j] = k[j]
      /\ \A j \in 1..Len(v) : r[2 + Len(k) + j] = v[j]
  BY RecordIs DEF RecordSize
<1> HIDE DEF r
<1>3. \A j \in 1..Len(r) : c[p - 1 + j] = r[j] BY DEF r
<1>4. c[p] = Len(k)
  <2>1. 1 \in 1..Len(r) /\ p - 1 + 1 = p BY <1>1, <1>2
  <2>. QED BY <1>2, <1>3, <2>1
<1>5. c[p + 1] = Len(v)
  <2>1. 2 \in 1..Len(r) /\ p - 1 + 2 = p + 1 BY <1>1, <1>2
  <2>. QED BY <1>2, <1>3, <2>1
<1>6. ASSUME NEW j \in 1..Len(k) PROVE c[p + 1 + j] = k[j]
  <2>1. 2 + j \in 1..Len(r) /\ p - 1 + (2 + j) = p + 1 + j BY <1>1, <1>2
  <2>. QED BY <1>2, <1>3, <2>1
<1>7. ASSUME NEW j \in 1..Len(v) PROVE c[p + 1 + Len(k) + j] = v[j]
  <2>1. /\ 2 + Len(k) + j \in 1..Len(r)
        /\ p - 1 + (2 + Len(k) + j) = p + 1 + Len(k) + j
    BY <1>1, <1>2
  <2>. QED BY <1>2, <1>3, <2>1
<1>. QED BY <1>4, <1>5, <1>6, <1>7 DEF IsRecord

\* The places of a layout.
LEMMA PlacesAre ==
    ASSUME StoreAssumption, NEW b \in Seq(Nat), NEW v, NEW ks, NEW ps, LaidOut(b, v, ks, ps)
    PROVE  /\ Len(ks) \in Nat /\ ks \in Seq(StoreKeys)
           /\ \A i \in 1..Len(ks) + 1 : ps[i] \in Nat \ {0} /\ ps[i] <= Len(b) + 1
           /\ \A i, j \in 1..Len(ks) + 1 : i <= j => ps[i] <= ps[j]
           /\ \A i \in 1..Len(ks) : ks[i] \in StoreKeys /\ v[ks[i]] \in StoreValues
<1>1. Len(ks) \in Nat /\ ks \in Seq(StoreKeys) BY DEF LaidOut
<1>2. \A i \in 1..Len(ks) + 1 : ps[i] \in Nat \ {0} BY DEF LaidOut
<1>3. \A i, j \in 1..Len(ks) + 1 : i < j => ps[i] < ps[j] BY DEF LaidOut
<1>4. ASSUME NEW i \in 1..Len(ks) + 1, NEW j \in 1..Len(ks) + 1, i <= j PROVE ps[i] <= ps[j]
  <2>1. ps[i] \in Nat /\ ps[j] \in Nat BY <1>2
  <2>2. i = j \/ i < j BY <1>1, <1>4
  <2>3. i < j => ps[i] < ps[j] BY <1>3
  <2>. QED BY <2>1, <2>2, <2>3
<1>5. ASSUME NEW i \in 1..Len(ks) + 1 PROVE ps[i] <= Len(b) + 1
  <2>1. Len(ks) + 1 \in 1..Len(ks) + 1 /\ i <= Len(ks) + 1 BY <1>1
  <2>2. ps[Len(ks) + 1] = Len(b) + 1 BY DEF LaidOut
  <2>3. ps[i] <= ps[Len(ks) + 1] BY <1>4, <2>1
  <2>. QED BY <2>2, <2>3
<1>6. \A i \in 1..Len(ks) : ks[i] \in StoreKeys /\ v[ks[i]] \in StoreValues
  BY <1>1 DEF LaidOut
<1>. QED BY <1>1, <1>2, <1>4, <1>5, <1>6

\* Where the bytes of a record are is a record.
LEMMA RecordKept ==
    ASSUME StoreAssumption, NEW b \in Seq(Nat), NEW v, NEW ks, NEW ps, LaidOut(b, v, ks, ps),
           NEW i \in 1..Len(ks), NEW c, NEW d \in Int,
           \A x \in ps[i]..ps[i + 1] - 1 : c[x + d] = b[x]
    PROVE  IsRecord(c, ps[i] + d, ks[i], v[ks[i]])
<1>1. ks[i] \in StoreKeys /\ v[ks[i]] \in StoreValues /\ i \in 1..Len(ks) + 1 BY PlacesAre
<1>2. /\ ks[i] \in Seq(Nat) /\ v[ks[i]] \in Seq(Nat)
      /\ Len(ks[i]) \in Nat /\ Len(v[ks[i]]) \in Nat
  BY <1>1, KeyIs, ValueIs
<1>3. ps[i] \in Nat BY <1>1, PlacesAre
<1>4. ps[i + 1] = ps[i] + (Len(ks[i]) + Len(v[ks[i]]) + 2) BY DEF LaidOut, RecordSize
<1>5. IsRecord(b, ps[i], ks[i], v[ks[i]]) BY DEF LaidOut
<1>6. ps[i + 1] - 1 = ps[i] + 1 + Len(ks[i]) + Len(v[ks[i]])
  <2>1. \A p, k, w \in Nat : (p + (k + w + 2)) - 1 = p + 1 + k + w OBVIOUS
  <2>2. (ps[i] + (Len(ks[i]) + Len(v[ks[i]]) + 2)) - 1
          = ps[i] + 1 + Len(ks[i]) + Len(v[ks[i]])
    BY <1>2, <1>3, <2>1, Zenon
  <2>. QED BY <1>4, <2>2, Zenon
<1>7. \A x \in ps[i]..ps[i] + 1 + Len(ks[i]) + Len(v[ks[i]]) : c[x + d] = b[x]
  BY <1>6
<1>. QED BY <1>2, <1>3, <1>5, <1>7, RecordMoves

\* A splice of a whole record, or at the end, leaves the others what they are.
LEMMA SpliceKeeps ==
    ASSUME StoreAssumption, NEW b \in Seq(Nat), NEW v, NEW ks, NEW ps, LaidOut(b, v, ks, ps),
           NEW m \in 1..Len(ks) + 1, NEW ex \in Nat, NEW r \in Seq(Nat),
           m <= Len(ks) => ps[m] + ex = ps[m + 1],
           m = Len(ks) + 1 => ex = 0
    PROVE  LET c == Spliced(b, ps[m], ex, r)
           IN  /\ ps[m] \in Nat \ {0} /\ ps[m] + ex <= Len(b) + 1
               /\ \A i \in 1..Len(ks) : i < m => IsRecord(c, ps[i], ks[i], v[ks[i]])
               /\ \A i \in 1..Len(ks) :
                    m < i => IsRecord(c, ps[i] - ex + Len(r), ks[i], v[ks[i]])
<1> DEFINE n == Len(ks)
           p == ps[m]
           c == Spliced(b, p, ex, r)
<1>1. n \in Nat /\ p \in Nat \ {0} /\ Len(r) \in Nat /\ Len(b) \in Nat
  <2>1. n \in Nat /\ p \in Nat \ {0} BY PlacesAre
  <2>. QED BY <2>1, LenProperties
<1>2. p + ex <= Len(b) + 1
  <2>1. CASE m <= n
    <3>1. m + 1 \in 1..n + 1 BY <1>1, <2>1
    <3>. QED BY <2>1, <3>1, PlacesAre
  <2>2. CASE m = n + 1
    <3>1. p <= Len(b) + 1 BY PlacesAre
    <3>. QED BY <1>1, <2>2, <3>1
  <2>. QED BY <1>1, <2>1, <2>2
<1>3. /\ \A x \in 1..p - 1 : c[x] = b[x]
      /\ \A x \in p + ex..Len(b) : c[x - ex + Len(r)] = b[x]
  <2> HIDE DEF p
  <2>1. IsSpliced(b, p, ex, r, Spliced(b, p, ex, r)) BY <1>1, <1>2, SplicedIs
  <2>. QED BY <2>1 DEF IsSpliced
<1> HIDE DEF c
<1>4. ASSUME NEW i \in 1..n, i < m PROVE IsRecord(c, ps[i], ks[i], v[ks[i]])
  <2>1. /\ i \in 1..n + 1 /\ i + 1 \in 1..n + 1 /\ i + 1 <= m /\ 0 \in Int BY <1>1, <1>4
  <2>2. ps[i] \in Nat \ {0} /\ ps[i + 1] \in Nat /\ ps[i + 1] <= p BY <2>1, PlacesAre
  <2> HIDE DEF p
  <2>3. ASSUME NEW x \in ps[i]..ps[i + 1] - 1 PROVE c[x + 0] = b[x]
    <3>1. x \in 1..p - 1 /\ x + 0 = x BY <1>1, <2>2, SMTT(30)
    <3>. QED BY <1>3, <3>1
  <2>4. IsRecord(c, ps[i] + 0, ks[i], v[ks[i]]) BY <2>1, <2>3, RecordKept DEF n
  <2>5. ps[i] + 0 = ps[i] BY <2>2
  <2>. QED BY <2>4, <2>5
<1>5. ASSUME NEW i \in 1..n, m < i PROVE IsRecord(c, ps[i] - ex + Len(r), ks[i], v[ks[i]])
  <2>1. /\ i \in 1..n + 1 /\ i + 1 \in 1..n + 1 /\ m + 1 <= i /\ m <= n
        /\ m + 1 \in 1..n + 1
    BY <1>1, <1>5
  <2>2. /\ ps[i] \in Nat \ {0} /\ ps[i + 1] \in Nat /\ ps[i + 1] <= Len(b) + 1
        /\ ps[m + 1] <= ps[i] /\ ps[m + 1] = p + ex
    BY <2>1, PlacesAre
  <2>3. Len(r) - ex \in Int BY <1>1
  <2> HIDE DEF p
  <2>4. ASSUME NEW x \in ps[i]..ps[i + 1] - 1 PROVE c[x + (Len(r) - ex)] = b[x]
    <3>1. x \in p + ex..Len(b) /\ x + (Len(r) - ex) = x - ex + Len(r)
      BY <1>1, <2>2, SMTT(30)
    <3>. QED BY <1>3, <3>1
  <2>5. IsRecord(c, ps[i] + (Len(r) - ex), ks[i], v[ks[i]]) BY <2>3, <2>4, RecordKept DEF n
  <2>6. ps[i] + (Len(r) - ex) = ps[i] - ex + Len(r) BY <1>1, <2>2, SMTT(30)
  <2>. QED BY <2>5, <2>6
<1>. QED BY <1>1, <1>2, <1>4, <1>5 DEF c

IsStored(v) == v \in [StoreKeys -> StoreValues \cup {Absent}]

LEMMA Written ==
    ASSUME NEW v, IsStored(v), NEW key \in StoreKeys, NEW value
    PROVE  /\ [v EXCEPT ![key] = value][key] = value
           /\ \A k \in StoreKeys : k # key => [v EXCEPT ![key] = value][k] = v[k]
           /\ value \in StoreValues \cup {Absent} => IsStored([v EXCEPT ![key] = value])
BY DEF IsStored

LEMMA RecordSizeIs ==
    ASSUME StoreAssumption, NEW k \in StoreKeys, NEW w \in StoreValues
    PROVE  /\ Record(k, w) \in Seq(Nat) /\ Len(Record(k, w)) \in Nat /\ Len(Record(k, w)) >= 2
           /\ Len(Record(k, w)) = RecordSize(Len(k), Len(w))
<1>1. /\ k \in Seq(Nat) /\ w \in Seq(Nat) /\ Len(k) \in Nat /\ Len(w) \in Nat
  BY KeyIs, ValueIs
<1>2. /\ Record(k, w) \in Seq(Nat) /\ Len(Record(k, w)) = RecordSize(Len(k), Len(w))
  BY <1>1, RecordIs
<1>3. RecordSize(Len(k), Len(w)) \in Nat /\ RecordSize(Len(k), Len(w)) >= 2
  BY <1>1 DEF RecordSize
<1>. QED BY <1>2, <1>3

\* The record of a splice at p.
LEMMA SplicedRecord ==
    ASSUME StoreAssumption, NEW b \in Seq(Nat), NEW p \in Nat \ {0}, NEW ex \in Nat,
           p + ex <= Len(b) + 1, NEW k \in StoreKeys, NEW w \in StoreValues
    PROVE  IsRecord(Spliced(b, p, ex, Record(k, w)), p, k, w)
<1>1. Record(k, w) \in Seq(Nat) BY RecordSizeIs
<1>2. IsSpliced(b, p, ex, Record(k, w), Spliced(b, p, ex, Record(k, w))) BY <1>1, SplicedIs
<1>3. \A j \in 1..Len(Record(k, w)) :
        Spliced(b, p, ex, Record(k, w))[p - 1 + j] = Record(k, w)[j]
  BY <1>2, Zenon DEF IsSpliced
<1>4. k \in Seq(Nat) /\ w \in Seq(Nat) BY KeyIs, ValueIs
<1>. QED BY <1>3, <1>4, RecordWritten

\* A record is replaced by another of its key.
LEMMA SizeNat == ASSUME NEW k \in Nat, NEW w \in Nat PROVE RecordSize(k, w) \in Nat
BY DEF RecordSize

\* Places that move by what is cut out and what is put in.
LEMMA Shifted ==
    ASSUME NEW x \in Nat, NEW ex \in Nat, NEW g \in Nat
    PROVE  /\ \A p \in Nat : p + ex <= x => x - ex + g >= p + g
           /\ \A p \in Nat \ {0} : p + ex <= x => x - ex + g \in Nat \ {0}
           /\ \A y \in Nat : x < y => x - ex + g < y - ex + g
           /\ x - ex + g \in Int
OBVIOUS

LEMMA ReplacedIsLaidOut ==
    ASSUME StoreAssumption, NEW b \in Seq(Nat), NEW v, IsStored(v), NEW ks, NEW ps,
           LaidOut(b, v, ks, ps), NEW m \in 1..Len(ks), NEW value \in StoreValues
    PROVE  \E qs : LaidOut(Spliced(b, ps[m], SizeAt(b, ps[m]), Record(ks[m], value)),
                           [v EXCEPT ![ks[m]] = value], ks, qs)
<1> DEFINE n == Len(ks)
           p == ps[m]
           ex == SizeAt(b, p)
           r == Record(ks[m], value)
           g == Len(r)
           c == Spliced(b, p, ex, r)
           w == [v EXCEPT ![ks[m]] = value]
           qs == [i \in 1..n + 1 |-> IF i <= m THEN ps[i] ELSE ps[i] - ex + g]
<1>1. /\ n \in Nat /\ Len(b) \in Nat /\ m \in 1..n + 1 /\ m + 1 \in 1..n + 1
      /\ ks[m] \in StoreKeys
  <2>1. n \in Nat /\ ks[m] \in StoreKeys BY PlacesAre
  <2>2. Len(b) \in Nat BY LenProperties
  <2>. QED BY <2>1, <2>2
<1>2. /\ \A i \in 1..n + 1 : ps[i] \in Nat \ {0}
      /\ \A i, j \in 1..n + 1 : i <= j => ps[i] <= ps[j]
      /\ \A i, j \in 1..n + 1 : i < j => ps[i] < ps[j]
      /\ ps[1] = 1 /\ ps[n + 1] = Len(b) + 1
  <2>1. \A i, j \in 1..n + 1 : i < j => ps[i] < ps[j] BY DEF LaidOut
  <2>2. ps[1] = 1 /\ ps[n + 1] = Len(b) + 1 BY DEF LaidOut
  <2> HIDE DEF n
  <2>. QED BY <2>1, <2>2, PlacesAre DEF n
<1>3. p \in Nat \ {0} /\ ex \in Nat /\ p + ex = ps[m + 1] /\ p + ex <= Len(b) + 1
  <2>1. p \in Nat \ {0} /\ p < Len(b) /\ p + ex = ps[m + 1] BY RecordIsRead
  <2>2. ex \in Nat BY <2>1, SizeIs
  <2>3. ps[m + 1] <= Len(b) + 1 BY <1>1, PlacesAre
  <2>. QED BY <2>1, <2>2, <2>3
<1>4. r \in Seq(Nat) /\ g \in Nat /\ g >= 2 /\ g = RecordSize(Len(ks[m]), Len(value))
  BY <1>1, RecordSizeIs
<1>5. IsSpliced(b, p, ex, r, c) BY <1>3, <1>4, SplicedIs
<1>6. IsRecord(c, p, ks[m], value) BY <1>1, <1>3, SplicedRecord
<1>7. /\ \A i \in 1..n : i < m => IsRecord(c, ps[i], ks[i], v[ks[i]])
      /\ \A i \in 1..n : m < i => IsRecord(c, ps[i] - ex + g, ks[i], v[ks[i]])
  <2>1. m <= Len(ks) => ps[m] + ex = ps[m + 1] BY <1>3
  <2>2. m = Len(ks) + 1 => ex = 0 BY <1>1
  <2> HIDE DEF ex, r
  <2>. QED BY <1>1, <1>3, <1>4, <2>1, <2>2, SpliceKeeps DEF n
<1>8. Len(c) = Len(b) - ex + g /\ c \in Seq(Nat) BY <1>5 DEF IsSpliced
<1>9. /\ \A i \in 1..n : ks[i] \in StoreKeys
      /\ w[ks[m]] = value
      /\ \A i \in 1..n : i # m => w[ks[i]] = v[ks[i]]
  <2>1. \A i \in 1..n : ks[i] \in StoreKeys BY PlacesAre
  <2>2. \A i \in 1..n : ks[i] = ks[m] => i = m BY DEF LaidOut
  <2>3. \A k \in StoreKeys : k # ks[m] => w[k] = v[k] BY <1>1, Written
  <2>4. w[ks[m]] = value BY <1>1 DEF IsStored
  <2> HIDE DEF w, n
  <2>. QED BY <2>1, <2>2, <2>3, <2>4
<1> HIDE DEF p, ex, r, g, c, w, n
<1>10. /\ \A i \in 1..n + 1 : i <= m => qs[i] = ps[i]
       /\ \A i \in 1..n + 1 : ~(i <= m) => qs[i] = ps[i] - ex + g
  OBVIOUS
<1>11. \A i \in 1..n + 1 : ~(i <= m) => p + ex <= ps[i]
  <2>1. \A i \in 1..n + 1 : ~(i <= m) => m + 1 <= i BY <1>1
  <2>. QED BY <1>1, <1>2, <1>3, <2>1
<1>12. qs \in [1..n + 1 -> Nat \ {0}]
  <2>1. ASSUME NEW i \in 1..n + 1 PROVE qs[i] \in Nat \ {0}
    <3>1. ps[i] \in Nat \ {0} BY <1>2
    <3>2. CASE i <= m BY <1>10, <3>1, <3>2
    <3>3. CASE ~(i <= m)
      <4>1. p + ex <= ps[i] /\ qs[i] = ps[i] - ex + g BY <1>10, <1>11, <3>3
      <4>2. ps[i] - ex + g \in Nat \ {0} BY <1>3, <1>4, <3>1, <4>1, Shifted, Zenon
      <4>. QED BY <4>1, <4>2
    <3>. QED BY <3>2, <3>3
  <2>. QED BY <2>1
<1> HIDE DEF qs
<1>13. qs[1] = 1 /\ qs[n + 1] = Len(c) + 1
  <2>1. 1 \in 1..n + 1 /\ n + 1 \in 1..n + 1 /\ 1 <= m /\ ~(n + 1 <= m) BY <1>1 DEF n
  <2>2. qs[n + 1] = ps[n + 1] - ex + g BY <1>10, <2>1
  <2>3. (Len(b) + 1) - ex + g = (Len(b) - ex + g) + 1 BY <1>1, <1>3, <1>4
  <2>. QED BY <1>2, <1>8, <1>10, <2>1, <2>2, <2>3
<1>14. ASSUME NEW i \in 1..n
       PROVE  /\ w[ks[i]] \in StoreValues
              /\ qs[i + 1] = qs[i] + RecordSize(Len(ks[i]), Len(w[ks[i]]))
              /\ IsRecord(c, qs[i], ks[i], w[ks[i]])
  <2>1. i \in 1..n + 1 /\ i + 1 \in 1..n + 1 BY <1>1
  <2>2. ps[i] \in Nat /\ ps[i + 1] \in Nat BY <1>2, <2>1
  <2>3. v[ks[i]] \in StoreValues /\ ps[i + 1] = ps[i] + RecordSize(Len(ks[i]), Len(v[ks[i]]))
    BY DEF LaidOut, n
  <2>4. CASE i = m
    <3>1. i <= m /\ ~(i + 1 <= m) BY <1>1, <2>4
    <3>2. qs[i] = p /\ qs[i + 1] = ps[i + 1] - ex + g BY <1>10, <2>1, <2>4, <3>1 DEF p
    <3>3. ps[i + 1] = p + ex BY <1>3, <2>4
    <3>4. qs[i + 1] = p + g BY <1>3, <1>4, <3>2, <3>3
    <3>5. w[ks[i]] = value BY <1>9, <2>4
    <3>. QED BY <1>4, <1>6, <2>4, <3>2, <3>4, <3>5
  <2>5. CASE i < m
    <3>1. i <= m /\ i + 1 <= m /\ i # m BY <1>1, <2>5
    <3>2. qs[i] = ps[i] /\ qs[i + 1] = ps[i + 1] BY <1>10, <2>1, <3>1
    <3>3. w[ks[i]] = v[ks[i]] BY <1>9, <3>1
    <3>. QED BY <1>7, <2>3, <2>5, <3>2, <3>3
  <2>6. CASE m < i
    <3>1. ~(i <= m) /\ ~(i + 1 <= m) /\ i # m BY <1>1, <2>6
    <3>2. qs[i] = ps[i] - ex + g /\ qs[i + 1] = ps[i + 1] - ex + g BY <1>10, <2>1, <3>1
    <3>3. w[ks[i]] = v[ks[i]] BY <1>9, <3>1
    <3>4. IsRecord(c, qs[i], ks[i], w[ks[i]]) BY <1>7, <2>6, <3>2, <3>3
    <3>5. qs[i + 1] = qs[i] + RecordSize(Len(ks[i]), Len(v[ks[i]]))
      <4> DEFINE z == RecordSize(Len(ks[i]), Len(v[ks[i]]))
      <4>1. ps[i + 1] = ps[i] + z BY <2>3
      <4>2. z \in Nat
        <5>1. Len(ks[i]) \in Nat /\ Len(v[ks[i]]) \in Nat BY <1>9, <2>3, KeyIs, ValueIs
        <5>. QED BY <5>1, SizeNat, Zenon
      <4> HIDE DEF z
      <4>3. (ps[i] + z) - ex + g = (ps[i] - ex + g) + z
        <5>1. ps[i] \in Nat /\ ex \in Nat /\ g \in Nat BY <1>3, <1>4, <2>2
        <5>. QED BY ONLY <4>2, <5>1
      <4>4. qs[i + 1] = qs[i] + z BY <3>2, <4>1, <4>3
      <4>. QED BY <4>4 DEF z
    <3>. QED BY <2>3, <3>3, <3>4, <3>5
  <2>. QED BY <1>1, <2>4, <2>5, <2>6
<1>15. ASSUME NEW i \in 1..n + 1, NEW j \in 1..n + 1, i < j PROVE qs[i] < qs[j]
  <2>1. ps[i] \in Nat /\ ps[j] \in Nat /\ ps[i] < ps[j] BY <1>2, <1>15
  <2>2. CASE j <= m
    <3>1. i <= m BY <1>1, <1>15, <2>2
    <3>. QED BY <1>10, <2>1, <2>2, <3>1
  <2>3. CASE i <= m /\ ~(j <= m)
    <3>1. qs[i] = ps[i] /\ qs[j] = ps[j] - ex + g /\ p + ex <= ps[j] BY <1>10, <1>11, <2>3
    <3>2. ps[i] <= p BY <1>1, <1>2, <2>3 DEF p
    <3>3. ps[j] - ex + g >= p + g BY <1>3, <1>4, <2>1, <3>1, Shifted, Zenon
    <3>4. p + g > p /\ p + g \in Nat BY <1>3, <1>4
    <3>5. \A x, y, z, u \in Int : x <= y /\ u > y /\ z >= u => x < z OBVIOUS
    <3>6. ps[j] - ex + g \in Int BY <1>3, <1>4, <2>1, Shifted, Zenon
    <3>8. p \in Int /\ ps[i] \in Int /\ p + g \in Int BY <1>3, <2>1, <3>4, SMTT(30)
    <3>7. ps[i] < ps[j] - ex + g BY <3>2, <3>3, <3>4, <3>5, <3>6, <3>8, Zenon
    <3>. QED BY <3>1, <3>7
  <2>4. CASE ~(i <= m)
    <3>1. ~(j <= m) BY <1>1, <1>15, <2>4
    <3>2. qs[i] = ps[i] - ex + g /\ qs[j] = ps[j] - ex + g BY <1>10, <2>4, <3>1
    <3>3. ps[i] - ex + g < ps[j] - ex + g BY <1>3, <1>4, <2>1, Shifted, Zenon
    <3>. QED BY <3>2, <3>3
  <2>. QED BY <2>2, <2>3, <2>4
<1>16. ks \in Seq(StoreKeys) /\ \A i, j \in 1..n : ks[i] = ks[j] => i = j BY DEF LaidOut, n
<1>17. \A k \in StoreKeys : w[k] # Absent => \E i \in 1..n : ks[i] = k
  <2>1. \A k \in StoreKeys : v[k] # Absent => \E i \in 1..n : ks[i] = k BY DEF LaidOut, n
  <2>2. \A k \in StoreKeys : k # ks[m] => w[k] = v[k] BY <1>1, Written DEF w
  <2>3. m \in 1..n BY DEF n
  <2>. QED BY <2>1, <2>2, <2>3
<1>18. LaidOut(c, w, ks, qs)
  BY <1>12, <1>13, <1>14, <1>15, <1>16, <1>17 DEF LaidOut, n
<1>. QED BY <1>18 DEF c, w, p, ex, r

\* A record is added at the end.
LEMMA AddedIsLaidOut ==
    ASSUME StoreAssumption, NEW b \in Seq(Nat), NEW v, IsStored(v), NEW ks, NEW ps,
           LaidOut(b, v, ks, ps), NEW key \in StoreKeys, NEW value \in StoreValues,
           \A i \in 1..Len(ks) : ks[i] # key
    PROVE  \E ls, qs : LaidOut(Spliced(b, Len(b) + 1, 0, Record(key, value)),
                               [v EXCEPT ![key] = value], ls, qs)
<1> DEFINE n == Len(ks)
           r == Record(key, value)
           g == Len(r)
           c == Spliced(b, Len(b) + 1, 0, r)
           w == [v EXCEPT ![key] = value]
           ls == Append(ks, key)
           qs == [i \in 1..n + 2 |-> IF i <= n + 1 THEN ps[i] ELSE (Len(b) + 1) + g]
<1>1. n \in Nat /\ Len(b) \in Nat /\ n + 1 \in 1..n + 1
  <2>1. n \in Nat BY PlacesAre
  <2>2. Len(b) \in Nat BY LenProperties
  <2>. QED BY <2>1, <2>2
<1>2. /\ \A i \in 1..n + 1 : ps[i] \in Nat \ {0} /\ ps[i] <= Len(b) + 1
      /\ \A i, j \in 1..n + 1 : i < j => ps[i] < ps[j]
      /\ ps[1] = 1 /\ ps[n + 1] = Len(b) + 1
  <2>1. \A i, j \in 1..n + 1 : i < j => ps[i] < ps[j] BY DEF LaidOut
  <2>2. ps[1] = 1 /\ ps[n + 1] = Len(b) + 1 BY DEF LaidOut
  <2> HIDE DEF n
  <2>. QED BY <2>1, <2>2, PlacesAre DEF n
<1>3. /\ Len(b) + 1 \in Nat \ {0} /\ 0 \in Nat /\ (Len(b) + 1) + 0 <= Len(b) + 1
  BY <1>1
<1>4. r \in Seq(Nat) /\ g \in Nat /\ g >= 2 /\ g = RecordSize(Len(key), Len(value))
  BY RecordSizeIs
<1>5. IsSpliced(b, Len(b) + 1, 0, r, c) BY <1>3, <1>4, SplicedIs
<1>6. IsRecord(c, Len(b) + 1, key, value) BY <1>3, SplicedRecord
<1>7. \A i \in 1..n : IsRecord(c, ps[i], ks[i], v[ks[i]])
  <2>1. n + 1 <= Len(ks) => ps[n + 1] + 0 = ps[(n + 1) + 1] BY <1>1
  <2>2. n + 1 = Len(ks) + 1 => 0 = 0 OBVIOUS
  <2>3. \A i \in 1..n : i < n + 1 BY <1>1
  <2> HIDE DEF r, n
  <2>4. \A i \in 1..n : i < n + 1 =>
          IsRecord(Spliced(b, ps[n + 1], 0, r), ps[i], ks[i], v[ks[i]])
    BY <1>1, <1>3, <1>4, <2>1, <2>2, SpliceKeeps DEF n
  <2>. QED BY <1>2, <2>3, <2>4
<1>8. Len(c) = Len(b) + g /\ c \in Seq(Nat)
  <2>1. Len(c) = Len(b) - 0 + g /\ c \in Seq(Nat) BY <1>5 DEF IsSpliced
  <2> HIDE DEF c, g
  <2>. QED BY <1>1, <1>4, <2>1
<1>9. /\ \A i \in 1..n : ks[i] \in StoreKeys
      /\ w[key] = value
      /\ \A i \in 1..n : w[ks[i]] = v[ks[i]]
  <2>1. \A i \in 1..n : ks[i] \in StoreKeys BY PlacesAre
  <2>2. \A i \in 1..n : ks[i] # key OBVIOUS
  <2>3. \A k \in StoreKeys : k # key => w[k] = v[k] BY Written
  <2>4. w[key] = value BY DEF IsStored
  <2> HIDE DEF w, n
  <2>. QED BY <2>1, <2>2, <2>3, <2>4
<1>10. /\ ls \in Seq(StoreKeys) /\ Len(ls) = n + 1
       /\ \A i \in 1..n : ls[i] = ks[i]
       /\ ls[n + 1] = key
  <2>1. ks \in Seq(StoreKeys) BY DEF LaidOut
  <2>. QED BY <2>1, AppendProperties
<1>11. /\ \A i \in 1..n : ks[i] # key
       /\ \A i, j \in 1..n : ks[i] = ks[j] => i = j
       /\ \A k \in StoreKeys : v[k] # Absent => \E i \in 1..n : ks[i] = k
       /\ \A k \in StoreKeys : k # key => w[k] = v[k]
  BY Written DEF LaidOut
<1> HIDE DEF r, g, c, w, n, ls
<1>12. /\ \A i \in 1..n + 2 : i <= n + 1 => qs[i] = ps[i]
       /\ \A i \in 1..n + 2 : ~(i <= n + 1) => qs[i] = (Len(b) + 1) + g
  OBVIOUS
<1>13. \A i \in 1..n + 2 : (i \in 1..n + 1 /\ i <= n + 1) \/ (i = n + 2 /\ ~(i <= n + 1))
  BY <1>1, SMTT(30)
<1>14. (Len(b) + 1) + g \in Nat \ {0} /\ (Len(b) + 1) + g > Len(b) + 1 BY <1>1, <1>4
<1>15. qs \in [1..n + 2 -> Nat \ {0}]
  <2>1. \A i \in 1..n + 2 : qs[i] \in Nat \ {0}
    <3> HIDE DEF qs
    <3>. QED BY <1>2, <1>12, <1>13, <1>14
  <2>. QED BY <2>1
<1> HIDE DEF qs
<1>16. qs[1] = 1 /\ qs[n + 2] = Len(c) + 1 /\ qs[n + 1] = Len(b) + 1
  <2>1. /\ 1 \in 1..n + 2 /\ n + 2 \in 1..n + 2 /\ 1 <= n + 1 /\ ~(n + 2 <= n + 1)
        /\ n + 1 \in 1..n + 2 /\ n + 1 <= n + 1
    BY <1>1
  <2>2. (Len(b) + 1) + g = (Len(b) + g) + 1 BY <1>1, <1>4
  <2>. QED BY <1>2, <1>8, <1>12, <2>1, <2>2
<1>17. ASSUME NEW i \in 1..n + 1
       PROVE  /\ w[ls[i]] \in StoreValues
              /\ qs[i + 1] = qs[i] + RecordSize(Len(ls[i]), Len(w[ls[i]]))
              /\ IsRecord(c, qs[i], ls[i], w[ls[i]])
  <2>1. CASE i \in 1..n
    <3>1. i \in 1..n + 2 /\ i + 1 \in 1..n + 2 /\ i <= n + 1 /\ i + 1 <= n + 1 BY <1>1, <2>1
    <3>2. qs[i] = ps[i] /\ qs[i + 1] = ps[i + 1] BY <1>12, <3>1
    <3>3. v[ks[i]] \in StoreValues /\ ps[i + 1] = ps[i] + RecordSize(Len(ks[i]), Len(v[ks[i]]))
      BY <2>1 DEF LaidOut, n
    <3>4. ls[i] = ks[i] /\ w[ks[i]] = v[ks[i]] BY <1>9, <1>10, <2>1
    <3>. QED BY <1>7, <2>1, <3>2, <3>3, <3>4
  <2>2. CASE i = n + 1
    <3>1. ls[i] = key /\ w[key] = value BY <1>9, <1>10, <2>2
    <3>2. i \in 1..n + 2 /\ i + 1 \in 1..n + 2 /\ ~(i + 1 <= n + 1) BY <1>1, <2>2
    <3>3. qs[i] = Len(b) + 1 /\ qs[i + 1] = (Len(b) + 1) + g BY <1>12, <1>16, <2>2, <3>2
    <3>. QED BY <1>4, <1>6, <3>1, <3>3, SMTT(30)
  <2>. QED BY <1>1, <2>1, <2>2
<1>18. ASSUME NEW i \in 1..n + 2, NEW j \in 1..n + 2, i < j PROVE qs[i] < qs[j]
  <2>1. i \in 1..n + 1 /\ i <= n + 1 BY <1>1, <1>18
  <2>2. ps[i] \in Nat /\ ps[i] <= Len(b) + 1 /\ qs[i] = ps[i] BY <1>2, <1>12, <2>1
  <2>3. CASE j \in 1..n + 1
    <3>1. j <= n + 1 BY <1>1, <2>3
    <3>. QED BY <1>2, <1>12, <1>18, <2>1, <2>2, <2>3, <3>1
  <2>4. CASE j = n + 2
    <3>1. ~(j <= n + 1) BY <1>1, <2>4
    <3>2. qs[j] = (Len(b) + 1) + g BY <1>12, <3>1
    <3>. QED BY <1>1, <1>14, <2>2, <3>2, SMTT(30)
  <2>. QED BY <1>1, <2>3, <2>4
<1>19. \A i, j \in 1..n + 1 : ls[i] = ls[j] => i = j
  <2>1. \A i \in 1..n + 1 : i \in 1..n \/ i = n + 1 BY <1>1
  <2>2. \A i \in 1..n : ls[i] # key BY <1>10, <1>11
  <2>3. ASSUME NEW i \in 1..n + 1, NEW j \in 1..n + 1, ls[i] = ls[j] PROVE i = j
    <3>1. CASE i \in 1..n /\ j \in 1..n BY <1>10, <1>11, <2>3, <3>1
    <3>2. CASE i \notin 1..n \/ j \notin 1..n BY <1>10, <2>1, <2>2, <2>3, <3>2
    <3>. QED BY <3>1, <3>2
  <2>. QED BY <2>3
<1>20. \A k \in StoreKeys : w[k] # Absent => \E i \in 1..n + 1 : ls[i] = k
  <2>1. \A i \in 1..n : i \in 1..n + 1 BY <1>1
  <2>2. ASSUME NEW k \in StoreKeys, w[k] # Absent PROVE \E i \in 1..n + 1 : ls[i] = k
    <3>1. CASE k = key BY <1>1, <1>10, <3>1
    <3>2. CASE k # key
      <4>1. PICK i \in 1..n : ks[i] = k BY <1>11, <2>2, <3>2
      <4>. QED BY <1>10, <2>1, <4>1
    <3>. QED BY <3>1, <3>2
  <2>. QED BY <2>2
<1>21. (n + 1) + 1 = n + 2 BY <1>1
<1>22. LaidOut(c, w, ls, qs)
  BY <1>10, <1>15, <1>16, <1>17, <1>18, <1>19, <1>20, <1>21 DEF LaidOut
<1>. QED BY <1>22 DEF c, w, r

\* A record is taken out.
LEMMA TakenOutIsLaidOut ==
    ASSUME StoreAssumption, NEW b \in Seq(Nat), NEW v, IsStored(v), NEW ks, NEW ps,
           LaidOut(b, v, ks, ps), NEW m \in 1..Len(ks)
    PROVE  \E ls, qs : LaidOut(Spliced(b, ps[m], SizeAt(b, ps[m]), <<>>),
                               [v EXCEPT ![ks[m]] = Absent], ls, qs)
<1> DEFINE n == Len(ks)
           p == ps[m]
           ex == SizeAt(b, p)
           c == Spliced(b, p, ex, <<>>)
           w == [v EXCEPT ![ks[m]] = Absent]
           ls == [i \in 1..n - 1 |-> IF i < m THEN ks[i] ELSE ks[i + 1]]
           qs == [i \in 1..n |-> IF i < m THEN ps[i] ELSE ps[i + 1] - ex]
<1>1. /\ n \in Nat /\ n - 1 \in Nat /\ Len(b) \in Nat /\ m \in 1..n + 1 /\ m + 1 \in 1..n + 1
      /\ ks[m] \in StoreKeys
  <2>1. n \in Nat /\ ks[m] \in StoreKeys BY PlacesAre
  <2>2. Len(b) \in Nat BY LenProperties
  <2>. QED BY <2>1, <2>2
<1>2. /\ \A i \in 1..n + 1 : ps[i] \in Nat \ {0}
      /\ \A i, j \in 1..n + 1 : i <= j => ps[i] <= ps[j]
      /\ \A i, j \in 1..n + 1 : i < j => ps[i] < ps[j]
      /\ ps[1] = 1 /\ ps[n + 1] = Len(b) + 1
  <2>1. \A i, j \in 1..n + 1 : i < j => ps[i] < ps[j] BY DEF LaidOut
  <2>2. ps[1] = 1 /\ ps[n + 1] = Len(b) + 1 BY DEF LaidOut
  <2> HIDE DEF n
  <2>. QED BY <2>1, <2>2, PlacesAre DEF n
<1>3. p \in Nat \ {0} /\ ex \in Nat /\ p + ex = ps[m + 1] /\ p + ex <= Len(b) + 1
  <2>1. p \in Nat \ {0} /\ p < Len(b) /\ p + ex = ps[m + 1] BY RecordIsRead
  <2>2. ex \in Nat BY <2>1, SizeIs
  <2>3. ps[m + 1] <= Len(b) + 1 BY <1>1, PlacesAre
  <2>. QED BY <2>1, <2>2, <2>3
<1>4. <<>> \in Seq(Nat) /\ Len(<<>>) = 0 OBVIOUS
<1>5. IsSpliced(b, p, ex, <<>>, c) BY <1>3, <1>4, SplicedIs
<1>6. /\ \A i \in 1..n : i < m => IsRecord(c, ps[i], ks[i], v[ks[i]])
      /\ \A i \in 1..n : m < i => IsRecord(c, ps[i] - ex, ks[i], v[ks[i]])
  <2>1. m <= Len(ks) => ps[m] + ex = ps[m + 1] BY <1>3
  <2>2. m = Len(ks) + 1 => ex = 0 BY <1>1
  <2>3. \A i \in 1..n : ps[i] - ex + 0 = ps[i] - ex
    <3>1. \A i \in 1..n : ps[i] \in Nat BY <1>1, <1>2
    <3> HIDE DEF ex
    <3>. QED BY <1>3, <3>1
  <2> HIDE DEF ex
  <2>4. /\ \A i \in 1..n : i < m => IsRecord(c, ps[i], ks[i], v[ks[i]])
        /\ \A i \in 1..n : m < i => IsRecord(c, ps[i] - ex + 0, ks[i], v[ks[i]])
    BY <1>1, <1>3, <1>4, <2>1, <2>2, SpliceKeeps DEF n
  <2> HIDE DEF c, n, p
  <2>. QED BY <2>3, <2>4
<1>7. Len(c) = Len(b) - ex /\ c \in Seq(Nat)
  <2>1. Len(c) = Len(b) - ex + 0 /\ c \in Seq(Nat) BY <1>4, <1>5, Zenon DEF IsSpliced
  <2> HIDE DEF c, ex
  <2>. QED BY <1>1, <1>3, <2>1
<1>8. /\ \A i \in 1..n : ks[i] \in StoreKeys /\ v[ks[i]] \in StoreValues
      /\ \A i, j \in 1..n : ks[i] = ks[j] => i = j
      /\ \A k \in StoreKeys : v[k] # Absent => \E i \in 1..n : ks[i] = k
      /\ \A i \in 1..n : ps[i + 1] = ps[i] + RecordSize(Len(ks[i]), Len(v[ks[i]]))
  <2>1. \A i \in 1..n : ks[i] \in StoreKeys /\ v[ks[i]] \in StoreValues BY PlacesAre
  <2>. QED BY <2>1 DEF LaidOut
<1>9. /\ w[ks[m]] = Absent
      /\ \A k \in StoreKeys : k # ks[m] => w[k] = v[k]
  <2>1. w[ks[m]] = Absent BY <1>1 DEF IsStored
  <2>. QED BY <1>1, <2>1, Written
<1>10. m \in 1..n OBVIOUS
<1> HIDE DEF p, ex, c, w, n
<1>11. /\ \A i \in 1..n - 1 : i < m => ls[i] = ks[i]
       /\ \A i \in 1..n - 1 : ~(i < m) => ls[i] = ks[i + 1]
       /\ \A i \in 1..n : i < m => qs[i] = ps[i]
       /\ \A i \in 1..n : ~(i < m) => qs[i] = ps[i + 1] - ex
  OBVIOUS
<1>12. \A i \in 1..n - 1 : i \in 1..n /\ i + 1 \in 1..n /\ i \in 1..n + 1 /\ i + 1 \in 1..n + 1
  BY <1>1
<1>13. \A i \in 1..n : i \in 1..n + 1 /\ i + 1 \in 1..n + 1 BY <1>1
<1>14. ls \in Seq(StoreKeys) /\ Len(ls) = n - 1
  <2>1. \A i \in 1..n - 1 : (IF i < m THEN ks[i] ELSE ks[i + 1]) \in StoreKeys
    BY <1>8, <1>12
  <2>2. ls \in [1..n - 1 -> StoreKeys] BY <2>1
  <2> HIDE DEF ls
  <2>. QED BY <1>1, <2>2
<1>15. ASSUME NEW i \in 1..n, ~(i < m)
       PROVE  /\ ps[i + 1] \in Nat /\ p + ex <= ps[i + 1]
              /\ ps[i + 1] - ex \in Nat \ {0} /\ p <= ps[i + 1] - ex
  <2>1. i + 1 \in 1..n + 1 /\ m + 1 <= i + 1 BY <1>1, <1>15
  <2>2. ps[i + 1] \in Nat /\ p + ex <= ps[i + 1] BY <1>1, <1>2, <1>3, <2>1
  <2>3. \A x, y, z \in Nat : x + y <= z => x <= z - y OBVIOUS
  <2>4. \A x \in Nat \ {0} : \A y, z \in Nat : x + y <= z => z - y \in Nat \ {0} OBVIOUS
  <2>5. p <= ps[i + 1] - ex BY <1>3, <2>2, <2>3, Zenon
  <2>6. ps[i + 1] - ex \in Nat \ {0} BY <1>3, <2>2, <2>4, Zenon
  <2>. QED BY <2>2, <2>5, <2>6
<1>16. qs \in [1..n -> Nat \ {0}]
  <2>1. \A i \in 1..n : qs[i] \in Nat \ {0}
    <3> HIDE DEF qs
    <3>. QED BY <1>2, <1>11, <1>13, <1>15
  <2>. QED BY <2>1
<1> HIDE DEF qs, ls
<1>17. m \in 1..n /\ qs[m] = p
  <2>1. qs[m] = ps[m + 1] - ex BY <1>10, <1>11
  <2>2. (p + ex) - ex = p BY <1>3
  <2>. QED BY <1>3, <1>10, <2>1, <2>2
<1>18. qs[1] = 1
  <2>1. CASE m = 1 BY <1>2, <1>17, <2>1 DEF p
  <2>2. CASE m # 1
    <3>1. 1 \in 1..n /\ 1 < m BY <1>1, <1>10, <2>2
    <3>. QED BY <1>2, <1>11, <3>1
  <2>. QED BY <2>1, <2>2
<1>19. qs[n] = Len(c) + 1
  <2>1. n \in 1..n /\ ~(n < m) BY <1>1, <1>10
  <2>2. qs[n] = ps[n + 1] - ex BY <1>11, <2>1
  <2>3. (Len(b) + 1) - ex = (Len(b) - ex) + 1 BY <1>1, <1>3
  <2>. QED BY <1>2, <1>7, <2>2, <2>3
<1>20. ASSUME NEW i \in 1..n - 1
       PROVE  /\ w[ls[i]] \in StoreValues
              /\ qs[i + 1] = qs[i] + RecordSize(Len(ls[i]), Len(w[ls[i]]))
              /\ IsRecord(c, qs[i], ls[i], w[ls[i]])
  <2>1. CASE i < m
    <3>1. i \in 1..n /\ i + 1 \in 1..n /\ i # m BY <1>12, <2>1, <1>1
    <3>2. ls[i] = ks[i] /\ qs[i] = ps[i] BY <1>11, <2>1, <3>1
    <3>3. qs[i + 1] = ps[i + 1]
      <4>1. CASE i + 1 < m BY <1>11, <3>1, <4>1
      <4>2. CASE ~(i + 1 < m)
        <5>1. i + 1 = m BY <1>1, <2>1, <4>2
        <5>. QED BY <1>17, <5>1 DEF p
      <4>. QED BY <4>1, <4>2
    <3>4. ks[i] # ks[m] BY <1>8, <1>10, <3>1
    <3>5. w[ks[i]] = v[ks[i]] BY <1>8, <1>9, <3>1, <3>4
    <3>. QED BY <1>6, <1>8, <2>1, <3>1, <3>2, <3>3, <3>5
  <2>2. CASE ~(i < m)
    <3>1. /\ i \in 1..n /\ i + 1 \in 1..n /\ i + 1 # m /\ ~(i + 1 < m) /\ m < i + 1
      BY <1>1, <1>12, <2>2
    <3>2. ls[i] = ks[i + 1] /\ qs[i] = ps[i + 1] - ex /\ qs[i + 1] = ps[(i + 1) + 1] - ex
      BY <1>11, <2>2, <3>1
    <3>3. ks[i + 1] # ks[m] BY <1>8, <1>10, <3>1
    <3>4. w[ks[i + 1]] = v[ks[i + 1]] BY <1>8, <1>9, <3>1, <3>3
    <3>5. IsRecord(c, ps[i + 1] - ex, ks[i + 1], v[ks[i + 1]]) BY <1>6, <3>1
    <3>6. qs[i + 1] = qs[i] + RecordSize(Len(ks[i + 1]), Len(v[ks[i + 1]]))
      <4> DEFINE z == RecordSize(Len(ks[i + 1]), Len(v[ks[i + 1]]))
                 j == i + 1
      <4>1. ps[j + 1] = ps[j] + z BY <1>8, <3>1
      <4>2. z \in Nat
        <5>1. Len(ks[j]) \in Nat /\ Len(v[ks[j]]) \in Nat BY <1>8, <3>1, KeyIs, ValueIs
        <5>. QED BY <5>1, SizeNat, Zenon
      <4>3. ps[j] \in Nat BY <1>2, <1>12
      <4> HIDE DEF z, j
      <4>4. (ps[j] + z) - ex = (ps[j] - ex) + z BY <1>3, <4>2, <4>3
      <4>5. qs[i + 1] = (ps[j] + z) - ex /\ qs[i] = ps[j] - ex BY <3>2, <4>1 DEF j
      <4>6. qs[i + 1] = qs[i] + z BY <4>4, <4>5
      <4>. QED BY <4>6 DEF z
    <3>. QED BY <1>8, <3>1, <3>2, <3>4, <3>5, <3>6
  <2>. QED BY <2>1, <2>2
<1>21. ASSUME NEW i \in 1..n, NEW j \in 1..n, i < j PROVE qs[i] < qs[j]
  <2>1. CASE j < m
    <3>1. i < m BY <1>1, <1>21, <2>1
    <3>. QED BY <1>2, <1>11, <1>13, <1>21, <2>1, <3>1
  <2>2. CASE i < m /\ ~(j < m)
    <3>1. qs[i] = ps[i] /\ qs[j] = ps[j + 1] - ex /\ p <= ps[j + 1] - ex
      BY <1>11, <1>15, <2>2
    <3>2. ps[i] < p BY <1>1, <1>2, <1>13, <2>2 DEF p
    <3>3. ps[j + 1] - ex \in Nat /\ ps[i] \in Nat /\ p \in Nat BY <1>2, <1>3, <1>13, <1>15, <2>2
    <3>4. \A z \in Nat : p <= z => ps[i] < z BY ONLY <3>2, <3>3
    <3>5. ps[i] < ps[j + 1] - ex BY <3>1, <3>3, <3>4, Zenon
    <3>. QED BY <3>1, <3>5
  <2>3. CASE ~(i < m)
    <3>1. ~(j < m) BY <1>1, <1>21, <2>3
    <3>2. qs[i] = ps[i + 1] - ex /\ qs[j] = ps[j + 1] - ex BY <1>11, <2>3, <3>1
    <3>3. i + 1 \in 1..n + 1 /\ j + 1 \in 1..n + 1 /\ i + 1 < j + 1 BY <1>1, <1>21
    <3>4. ps[i + 1] \in Nat /\ ps[j + 1] \in Nat /\ ps[i + 1] < ps[j + 1] BY <1>2, <3>3
    <3>5. \A x, y, z \in Nat : x < y => x - z < y - z OBVIOUS
    <3>6. ps[i + 1] - ex < ps[j + 1] - ex BY <1>3, <3>4, <3>5, Zenon
    <3>. QED BY <3>2, <3>6
  <2>. QED BY <2>1, <2>2, <2>3
<1>22. ASSUME NEW i \in 1..n - 1, NEW j \in 1..n - 1, ls[i] = ls[j] PROVE i = j
  <2>1. i \in 1..n /\ i + 1 \in 1..n /\ j \in 1..n /\ j + 1 \in 1..n BY <1>12
  <2>2. CASE i < m /\ j < m BY <1>8, <1>11, <1>22, <2>1, <2>2
  <2>3. CASE ~(i < m) /\ ~(j < m)
    <3>1. i + 1 = j + 1 BY <1>8, <1>11, <1>22, <2>1, <2>3
    <3>. QED BY <2>1, <3>1
  <2>4. CASE i < m /\ ~(j < m)
    <3>1. i = j + 1 BY <1>8, <1>11, <1>22, <2>1, <2>4
    <3>. QED BY <1>1, <2>1, <2>4, <3>1
  <2>5. CASE ~(i < m) /\ j < m
    <3>1. i + 1 = j BY <1>8, <1>11, <1>22, <2>1, <2>5
    <3>. QED BY <1>1, <2>1, <2>5, <3>1
  <2>. QED BY <2>2, <2>3, <2>4, <2>5
<1>23. ASSUME NEW k \in StoreKeys, w[k] # Absent PROVE \E i \in 1..n - 1 : ls[i] = k
  <2>1. k # ks[m] BY <1>9, <1>23
  <2>2. PICK i \in 1..n : ks[i] = k BY <1>8, <1>9, <1>23, <2>1
  <2>3. i # m BY <2>1, <2>2
  <2>4. CASE i < m
    <3>1. i \in 1..n - 1 BY <1>1, <1>10, <2>4
    <3>. QED BY <1>11, <2>2, <2>4, <3>1
  <2>5. CASE ~(i < m)
    <3>1. i - 1 \in 1..n - 1 /\ ~(i - 1 < m) /\ (i - 1) + 1 = i BY <1>1, <1>10, <2>3, <2>5
    <3>. QED BY <1>11, <2>2, <3>1
  <2>. QED BY <2>4, <2>5
<1>24. (n - 1) + 1 = n BY <1>1
<1>25. LaidOut(c, w, ls, qs)
  BY <1>14, <1>16, <1>18, <1>19, <1>20, <1>21, <1>22, <1>23, <1>24 DEF LaidOut
<1>. QED BY <1>25 DEF c, w, p, ex

LEMMA NothingIsLaidOut ==
    ASSUME StoreAssumption
    PROVE  LET v == [key \in StoreKeys |-> Absent]
           IN  IsStored(v) /\ 0 <= StoreCapacity /\ \E ks, ps : LaidOut(<<>>, v, ks, ps)
<1> DEFINE b == <<>>
           v == [key \in StoreKeys |-> Absent]
           ps == [i \in 1..1 |-> 1]
<1>1. b \in Seq(Nat) /\ b \in Seq(StoreKeys) /\ Len(b) = 0 OBVIOUS
<1>2. IsStored(v) /\ \A k \in StoreKeys : v[k] = Absent BY DEF IsStored
<1>3. ps \in [1..1 -> Nat \ {0}] /\ ps[1] = 1 OBVIOUS
<1>4. 0 <= StoreCapacity BY DEF StoreAssumption
<1> HIDE DEF b, v, ps
<1>5. 1..Len(b) = {} /\ 1..Len(b) + 1 = 1..1 /\ Len(b) + 1 = 1 BY <1>1
<1>6. \A i, j \in 1..1 : ~(i < j) OBVIOUS
<1>7. LaidOut(b, v, b, ps) BY <1>1, <1>2, <1>3, <1>5, <1>6 DEF LaidOut
<1>. QED BY <1>2, <1>4, <1>7 DEF b, v

\* Where find_record finds the record of a key, and where a new one begins.
LEMMA WhereTheRecordIs ==
    ASSUME StoreAssumption, run \in Seq(Nat), NEW ks, NEW ps, LaidOut(run, stored, ks, ps),
           NEW key
    PROVE  /\ \A m \in 1..Len(ks) : ks[m] = key => FindRecord(key) = ps[m] /\ Has(key)
           /\ (\A i \in 1..Len(ks) : ks[i] # key) =>
                FindRecord(key) = Len(run) + 1 /\ ~Has(key)
<1>1. Len(run) \in Nat BY LenProperties
<1>2. ASSUME NEW m \in 1..Len(ks), ks[m] = key PROVE FindRecord(key) = ps[m] /\ Has(key)
  <2>1. FindRecord(key) = ps[m] BY <1>2, FindIs
  <2>2. ps[m] \in Nat /\ ps[m] < Len(run) BY RecordIsRead
  <2>3. ps[m] <= Len(run) BY <1>1, <2>2
  <2>. QED BY <2>1, <2>3, Zenon DEF Has
<1>3. ASSUME \A i \in 1..Len(ks) : ks[i] # key
      PROVE  FindRecord(key) = Len(run) + 1 /\ ~Has(key)
  <2>1. FindRecord(key) = Len(run) + 1 BY <1>3, FindIs
  <2>2. ~(Len(run) + 1 <= Len(run)) BY <1>1
  <2>. QED BY <2>1, <2>2, Zenon DEF Has
<1>. QED BY <1>2, <1>3

LEMMA SetKeeps ==
    ASSUME StoreAssumption, StoreInv, NEW key \in StoreKeys, NEW value \in StoreValues,
           StoreSet(key, value)
    PROVE  StoreInv'
<1> DEFINE p == FindRecord(key)
           ex == IF Has(key) THEN SizeAt(run, p) ELSE 0
           wanted == RecordSize(Len(key), Len(value))
           r == Record(key, value)
           c == Spliced(run, p, ex, r)
           w == [stored EXCEPT ![key] = value]
<1>1. run \in Seq(Nat) /\ Len(run) <= StoreCapacity /\ IsStored(stored)
  BY DEF StoreInv, IsStored
<1>2. PICK ks, ps : LaidOut(run, stored, ks, ps) BY DEF StoreInv
<1>6. ASSUME NEW m \in 1..Len(ks)
      PROVE  /\ ps[m] \in Nat \ {0} /\ ps[m] < Len(run) /\ ps[m + 1] <= Len(run) + 1
             /\ ps[m] + SizeAt(run, ps[m]) = ps[m + 1]
             /\ SizeAt(run, ps[m]) \in Nat
  <2> HIDE DEF p, ex, wanted, r, c, w
  <2>1. run \in Seq(Nat) BY <1>1
  <2>. QED BY ONLY StoreAssumption, <2>1, <1>2, m \in 1..Len(ks), PlaceOfRecord
<1>3. \/ UNCHANGED storeVars
      \/ /\ ~(wanted - ex > StoreCapacity - Len(run))
         /\ run' = c /\ stored' = w
  <2> HIDE DEF wanted
  <2>. QED BY DEF StoreSet, Spliced, wanted
<1>4. CASE UNCHANGED storeVars BY <1>4 DEF StoreInv, storeVars
<1>5. CASE ~(wanted - ex > StoreCapacity - Len(run)) /\ run' = c /\ stored' = w
  <2>1. r \in Seq(Nat) /\ Len(r) = wanted /\ wanted \in Nat BY RecordSizeIs
  <2>2. IsStored(w) BY <1>1, Written
  <2>3. p \in Nat \ {0} /\ ex \in Nat /\ p + ex <= Len(run) + 1 /\ \E ls, qs : LaidOut(c, w, ls, qs)
    <3>1. CASE \E m \in 1..Len(ks) : ks[m] = key
      <4> HIDE DEF wanted, c, w
      <4>1. PICK m \in 1..Len(ks) : ks[m] = key BY <3>1
      <4>2. p = ps[m] /\ ex = SizeAt(run, ps[m])
        <5>1. p = ps[m] /\ Has(key) BY <1>1, <1>2, <4>1, WhereTheRecordIs
        <5>. QED BY <5>1
      <4>3. /\ ps[m] \in Nat \ {0} /\ ps[m] < Len(run) /\ ps[m + 1] <= Len(run) + 1
            /\ ps[m] + SizeAt(run, ps[m]) = ps[m + 1]
        BY <1>6
      <4>4. SizeAt(run, ps[m]) \in Nat BY <1>6
      <4>5. \E qs : LaidOut(Spliced(run, ps[m], SizeAt(run, ps[m]), Record(ks[m], value)),
                            [stored EXCEPT ![ks[m]] = value], ks, qs)
        BY <1>1, <1>2, ReplacedIsLaidOut
      <4> HIDE DEF p, ex
      <4>6. \E qs : LaidOut(c, w, ks, qs) BY <4>1, <4>2, <4>5 DEF c, w
      <4>. QED BY <4>2, <4>3, <4>4, <4>6
    <3>2. CASE \A i \in 1..Len(ks) : ks[i] # key
      <4>1. p = Len(run) + 1 /\ ex = 0
        <5>1. p = Len(run) + 1 /\ ~Has(key) BY <1>1, <1>2, <3>2, WhereTheRecordIs
        <5>. QED BY <5>1
      <4>2. \E ls, qs : LaidOut(Spliced(run, Len(run) + 1, 0, Record(key, value)),
                                [stored EXCEPT ![key] = value], ls, qs)
        BY <1>1, <1>2, <3>2, AddedIsLaidOut
      <4>3. Len(run) \in Nat BY <1>1, LenProperties
      <4> HIDE DEF p, ex
      <4>4. p \in Nat \ {0} /\ ex \in Nat /\ p + ex <= Len(run) + 1 BY <4>1, <4>3
      <4>. QED BY <4>1, <4>2, <4>4
    <3>. QED BY <3>1, <3>2
  <2> HIDE DEF p, ex, w, r
  <2>4. IsSpliced(run, p, ex, r, c) BY <1>1, <2>1, <2>3, SplicedIs
  <2>5. c \in Seq(Nat) /\ Len(c) = Len(run) - ex + wanted BY <2>1, <2>4 DEF IsSpliced
  <2> HIDE DEF c, wanted
  <2>6. Len(c) <= StoreCapacity
    <3>1. Len(run) \in Nat /\ StoreCapacity \in Nat BY <1>1, LenProperties DEF StoreAssumption
    <3>. QED BY <1>5, <2>1, <2>3, <2>5, <3>1
  <2>. QED BY <1>5, <2>2, <2>3, <2>5, <2>6, Zenon DEF StoreInv, IsStored
<1>. QED BY <1>3, <1>4, <1>5

LEMMA RemoveKeeps ==
    ASSUME StoreAssumption, StoreInv, NEW key \in StoreKeys, StoreRemove(key)
    PROVE  StoreInv'
<1> DEFINE p == FindRecord(key)
           ex == SizeAt(run, p)
           c == Spliced(run, p, ex, <<>>)
           w == [stored EXCEPT ![key] = Absent]
<1>1. run \in Seq(Nat) /\ Len(run) <= StoreCapacity /\ IsStored(stored)
  BY DEF StoreInv, IsStored
<1>2. PICK ks, ps : LaidOut(run, stored, ks, ps) BY DEF StoreInv
<1>3. PICK m \in 1..Len(ks) : ks[m] = key
  <2>1. Has(key) BY DEF StoreRemove
  <2>. QED BY <1>1, <1>2, <2>1, WhereTheRecordIs
<1>4. p = ps[m] BY <1>1, <1>2, <1>3, WhereTheRecordIs
<1>5. /\ ps[m] \in Nat \ {0} /\ ps[m] < Len(run) /\ ps[m + 1] <= Len(run) + 1
      /\ ps[m] + SizeAt(run, ps[m]) = ps[m + 1]
  BY <1>1, <1>2, RecordIsRead
<1>6. SizeAt(run, ps[m]) \in Nat BY <1>1, <1>5, SizeIs
<1>7. \E ls, qs : LaidOut(Spliced(run, ps[m], SizeAt(run, ps[m]), <<>>),
                          [stored EXCEPT ![ks[m]] = Absent], ls, qs)
  BY <1>1, <1>2, TakenOutIsLaidOut
<1>8. IsStored(w) BY <1>1, Written
<1>9. run' = c /\ stored' = w
  <2>1. SubSeq(run, 1, p - 1) \in Seq(Nat) BY <1>1, <1>4, <1>5, SMTT(30)
  <2>2. SubSeq(run, 1, p - 1) \o <<>> = SubSeq(run, 1, p - 1) BY <2>1, ConcatEmptySeq
  <2>3. /\ run' = SubSeq(run, 1, p - 1) \o SubSeq(run, p + ex, Len(run))
        /\ stored' = w
    BY Zenon DEF StoreRemove
  <2>. QED BY <2>2, <2>3, Zenon DEF Spliced
<1> HIDE DEF p, w
<1>10. ex \in Nat /\ p \in Nat \ {0} /\ p + ex <= Len(run) + 1 BY <1>4, <1>5, <1>6
<1>11. \E ls, qs : LaidOut(c, w, ls, qs) BY <1>3, <1>4, <1>7 DEF w
<1>12. <<>> \in Seq(Nat) /\ Len(<<>>) = 0 OBVIOUS
<1> HIDE DEF ex
<1>13. IsSpliced(run, p, ex, <<>>, c) BY <1>1, <1>10, <1>12, SplicedIs
<1>14. c \in Seq(Nat) /\ Len(c) = Len(run) - ex + 0 BY <1>12, <1>13, Zenon DEF IsSpliced
<1> HIDE DEF c
<1>15. Len(c) <= StoreCapacity
  <2>1. Len(run) \in Nat /\ StoreCapacity \in Nat BY <1>1, LenProperties DEF StoreAssumption
  <2>. QED BY <1>1, <1>10, <1>14, <2>1
<1>. QED BY <1>8, <1>9, <1>11, <1>14, <1>15, Zenon DEF StoreInv, IsStored

\* What was set last is what is read, the records lie one after the other in the buffer and
\* are listed once each, and an image loads whole and not cut within a record (config_set,
\* config_remove, config_get_string, config_key_at, config_store_load).
THEOREM StoreCorrect == StoreSpec => []StoreReadsBack
<1>1. StoreInit => StoreInv
  <2>1. <<>> \in Seq(Nat) /\ Len(<<>>) = 0 OBVIOUS
  <2>. QED BY <2>1, StoreAssumption, NothingIsLaidOut DEF StoreInit, StoreInv, IsStored
<1>2. StoreInv /\ [StoreNext]_storeVars => StoreInv'
  <2> SUFFICES ASSUME StoreInv, [StoreNext]_storeVars PROVE StoreInv' OBVIOUS
  <2>1. ASSUME NEW key \in StoreKeys, NEW value \in StoreValues, StoreSet(key, value)
        PROVE  StoreInv'
    BY <2>1, StoreAssumption, SetKeeps
  <2>2. ASSUME NEW key \in StoreKeys, StoreRemove(key) PROVE StoreInv'
    BY <2>2, StoreAssumption, RemoveKeeps
  <2>3. CASE StoreClear
    <3>1. <<>> \in Seq(Nat) /\ Len(<<>>) = 0 OBVIOUS
    <3>. QED BY <2>3, <3>1, StoreAssumption, NothingIsLaidOut DEF StoreClear, StoreInv, IsStored
  <2>4. CASE UNCHANGED storeVars BY <2>4 DEF StoreInv, storeVars
  <2>. QED BY <2>1, <2>2, <2>3, <2>4 DEF StoreNext
<1>3. StoreInv => StoreReadsBack BY StoreAssumption, StoreHolds
<1>. QED BY <1>1, <1>2, <1>3, PTL DEF StoreSpec
=============================================================================
