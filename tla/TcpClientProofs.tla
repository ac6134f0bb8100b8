---------------------------- MODULE TcpClientProofs ----------------------------
(***************************************************************************)
(* For every pool of control blocks, size of buffer and configuration: the *)
(* client owns at most one control block, and owns one while it connects   *)
(* or is connected unless an open of it was refused; what it did not end   *)
(* itself it reports once; it stays closed once closed; and it carries     *)
(* both streams whole and in order.                                        *)
(*                                                                         *)
(* Everything rests on the resolver never answering a lookup that the      *)
(* client has stopped waiting for (LateAnswers = FALSE): tcp.c cannot tell *)
(* such an answer from one it wants.                                       *)
(*                                                                         *)
(* The handlers are operators on a world (client, net, lookups, log), so   *)
(* the invariant and the lemmas are about worlds too: one lemma for each   *)
(* helper of tcp.c and tcp_stream.c, one for each handler.                 *)
(***************************************************************************)
EXTENDS TcpClient, SequenceTheorems, TLAPS

-----------------------------------------------------------------------------
(***************************************************************************)
(* The types of a world and of its parts.                                  *)
(***************************************************************************)
Clients == [initialised : BOOLEAN, state : States, pcb : Pcbs \cup {NoPcb},
            attempts : 0..MaxAttempts, sessions : Nat, config : Configs,
            ready : BOOLEAN, streamUp : BOOLEAN,
            incoming : Seq(Byte), outgoing : Seq(Byte)]

Blocks == [status : {"free", "connecting", "open", "closing"}, mine : BOOLEAN,
           session : 0..MaxSessions, sent : 0..MaxInput, toClient : Seq(Seq(Byte)),
           fin : BOOLEAN, wire : Seq(Byte), unacked : 0..SndBuf]

Logs == [wanted : BOOLEAN, session : 0..MaxSessions, written : 0..MaxOutput,
         read : Nat \X Nat, reported : Nat, ended : Nat]

Worlds == [client : Clients, net : [Pcbs -> Blocks], lookups : 0..MaxLookups, log : Logs]

(***************************************************************************)
(* The inductive invariant.                                                *)
(***************************************************************************)
\* A block is the client's exactly if the client points at it, and no other
\* block can still bring it news.
OwnsItsBlock(w) ==
    \A p \in Pcbs : /\ w.net[p].mine <=> p = w.client.pcb
                    /\ w.net[p].status \in {"connecting", "open"} => p = w.client.pcb

\* A block that is connecting has carried nothing.
Fresh(b) == b.status = "connecting" /\ b.sent = 0 /\ b.toClient = <<>> /\ b.wire = <<>>

\* The block the client points at is in the state the client thinks it is in.
BlockFollowsState(w) ==
    /\ w.client.pcb # NoPcb => w.client.state \in {"connecting", "connected"}
    /\ w.client.ready /\ w.client.state \in {"connecting", "connected"} => w.client.pcb # NoPcb
    /\ w.client.pcb # NoPcb /\ w.client.state = "connecting" => Fresh(w.net[w.client.pcb])
    /\ w.client.pcb # NoPcb /\ w.client.state = "connected" =>
          w.net[w.client.pcb].status = "open"

\* One lookup is owed while the client is resolving, and none otherwise; a
\* client nobody wants, or nobody has initialised, is idle.
WaitsForWhatItAsked(w) ==
    /\ w.lookups = IF w.client.state = "resolving" THEN 1 ELSE 0
    /\ w.client.state # "idle" => w.log.wanted /\ w.client.initialised

\* The connections of this opening that have come to their end.
Losses(w) == w.log.reported + w.log.ended
Up(w) == IF Live(w.client) THEN 1 ELSE 0

LossesAreCounted(w) ==
    /\ w.client.sessions = Losses(w) + Up(w)
    /\ w.client.sessions <= w.log.session

\* A stream whose buffers were refused holds nothing.
Drained(c) == c.ready \/ c.incoming = <<>>

\* The stream is up with the connection, if it was set up, and the rings hold no
\* more than they have room for.
StreamFollowsState(w) ==
    /\ w.client.streamUp <=> w.client.state = "connected" /\ w.client.ready
    /\ ~w.client.streamUp => w.client.outgoing = <<>>
    /\ Drained(w.client)
    /\ Len(w.client.incoming) <= RxCapacity
    /\ Len(w.client.outgoing) <= TxCapacity

\* The bytes from + 1 .. from + n of a session.
Run(session, from, n) == [j \in 1..n |-> <<session, from + j>>]

\* What was written into this connection, as the peer and the ring hold it.
OutputAddsUp(w) ==
    Live(w.client) =>
        LET b == w.net[w.client.pcb] IN
          /\ b.session = w.log.session /\ b.session # 0
          /\ b.wire \o w.client.outgoing = Run(b.session, 0, w.log.written)

\* The bytes the application has or is about to read are of sessions there were.
InputSoFar(w) ==
    /\ Contiguous(<<w.log.read>> \o w.client.incoming)
    /\ w.log.read[1] <= w.log.session
    /\ \A i \in 1..Len(w.client.incoming) : w.client.incoming[i][1] <= w.log.session

\* The last of the bytes that came, after b was read and with s waiting, and how
\* many of this session that makes.
LastByte(b, s) == (<<b>> \o s)[Len(s) + 1]
Received(b, s, session) == IF LastByte(b, s)[1] = session THEN LastByte(b, s)[2] ELSE 0

\* The segments q hold the bytes from + 1 .. upto of session s, in order, cut
\* where cut says.
CutAt(cut, q, s, from, upto) ==
    /\ cut \in [1..Len(q) + 1 -> Nat]
    /\ cut[1] = from /\ cut[Len(q) + 1] = upto
    /\ \A i \in 1..Len(q) : /\ cut[i] < cut[i + 1]
                            /\ q[i] = Run(s, cut[i], cut[i + 1] - cut[i])

Segments(q, s, from, upto) == \E cut : CutAt(cut, q, s, from, upto)

\* What waits in lwIP goes on where the receive ring ends.
InputGoesOn(w) ==
    Live(w.client) =>
        LET b == w.net[w.client.pcb] IN
          /\ \A i \in 1..Len(w.client.incoming) : w.client.incoming[i][1] = b.session
          /\ Segments(b.toClient, b.session,
                      Received(w.log.read, w.client.incoming, b.session), b.sent)

Sound(w) ==
    /\ w \in Worlds
    /\ OwnsItsBlock(w) /\ BlockFollowsState(w) /\ WaitsForWhatItAsked(w)
    /\ LossesAreCounted(w) /\ StreamFollowsState(w)
    /\ OutputAddsUp(w) /\ InputSoFar(w) /\ InputGoesOn(w)

IInv == Sound(World)

\* A client with nothing of its own left, about to try again or to give up.
Detached(w) ==
    /\ w \in Worlds /\ OwnsItsBlock(w) /\ InputSoFar(w)
    /\ w.client.pcb = NoPcb /\ w.lookups = 0
    /\ w.client.initialised /\ w.log.wanted
    /\ w.client.sessions = Losses(w) /\ w.client.sessions <= w.log.session
    /\ Len(w.client.incoming) <= RxCapacity /\ Drained(w.client)

Quiet(w) == ~w.client.streamUp /\ w.client.outgoing = <<>>

-----------------------------------------------------------------------------
(***************************************************************************)
(* Types.                                                                  *)
(***************************************************************************)
LEMMA NothingHeld == ASSUME NEW S PROVE <<>> \in Seq(S) /\ Len(<<>>) = 0
OBVIOUS

LEMMA UnusedIsABlock == Unused \in Blocks
BY SizeAssumption, BoundAssumption, NothingHeld DEF Blocks, Unused

LEMMA WorldBecomes == ASSUME NEW w \in Worlds, Becomes(w) PROVE World' = w
BY DEF Becomes, World, Worlds

LEMMA WorldParts ==
    ASSUME NEW w \in Worlds
    PROVE  /\ w.client \in Clients /\ w.net \in [Pcbs -> Blocks]
           /\ w.lookups \in 0..MaxLookups /\ w.log \in Logs
BY DEF Worlds

\* A world put together from its parts.
Made(c, n, k, g) == [client |-> c, net |-> n, lookups |-> k, log |-> g]

LEMMA MadeParts ==
    ASSUME NEW c \in Clients, NEW n \in [Pcbs -> Blocks], NEW k \in 0..MaxLookups, NEW g \in Logs
    PROVE  /\ Made(c, n, k, g) \in Worlds
           /\ Made(c, n, k, g).client = c /\ Made(c, n, k, g).net = n
           /\ Made(c, n, k, g).lookups = k /\ Made(c, n, k, g).log = g
BY DEF Made, Worlds

\* One part of a world replaced.
LEMMA Replaced ==
    ASSUME NEW w \in Worlds
    PROVE  /\ \A c : [w EXCEPT !.client = c] = Made(c, w.net, w.lookups, w.log)
           /\ \A n : [w EXCEPT !.net = n] = Made(w.client, n, w.lookups, w.log)
           /\ \A k : [w EXCEPT !.lookups = k] = Made(w.client, w.net, k, w.log)
           /\ \A g : [w EXCEPT !.log = g] = Made(w.client, w.net, w.lookups, g)
BY DEF Made, Worlds

-----------------------------------------------------------------------------
(***************************************************************************)
(* handle_failure.                                                         *)
(***************************************************************************)
LEMMA FailedFields ==
    ASSUME NEW c \in Clients
    PROVE  /\ Failed(c) \in Clients
           /\ Failed(c).outgoing = <<>> /\ ~Failed(c).streamUp
           /\ Failed(c).state \in {"idle", "gave_up", "waiting"}
           /\ Failed(c).pcb = c.pcb /\ (Failed(c).initialised <=> c.initialised)
           /\ Failed(c).sessions = c.sessions /\ Failed(c).incoming = c.incoming
           /\ (Failed(c).ready <=> c.ready)
<1> DEFINE d == StreamDown(c)
           Goal(f) == /\ f \in Clients
                      /\ f.outgoing = <<>> /\ ~f.streamUp
                      /\ f.state \in {"idle", "gave_up", "waiting"}
                      /\ f.pcb = c.pcb /\ (f.initialised <=> c.initialised)
                      /\ f.sessions = c.sessions /\ f.incoming = c.incoming
                      /\ (f.ready <=> c.ready)
<1>1. /\ d \in Clients /\ d.outgoing = <<>> /\ ~d.streamUp
      /\ d.pcb = c.pcb /\ d.incoming = c.incoming
      /\ (d.initialised <=> c.initialised) /\ d.sessions = c.sessions
      /\ (d.ready <=> c.ready)
  BY NothingHeld DEF Clients, StreamDown
<1>2. ASSUME NEW s \in {"idle", "gave_up", "waiting"}, NEW a \in 0..MaxAttempts
      PROVE  Goal([d EXCEPT !.state = s]) /\ Goal([d EXCEPT !.state = s, !.attempts = a])
  <2> HIDE DEF d
  <2> QED BY <1>1 DEF Clients, States
<1>3. Least(c.attempts + 1, MaxAttempts) \in 0..MaxAttempts
  BY BoundAssumption DEF Clients, Least
<1>4. \/ Failed(c) = [d EXCEPT !.state = "idle"]
      \/ Failed(c) = [d EXCEPT !.state = "gave_up"]
      \/ Failed(c) = [d EXCEPT !.state = "waiting",
                               !.attempts = Least(c.attempts + 1, MaxAttempts)]
  BY DEF Failed
<1>5. Goal(Failed(c))
  <2> HIDE DEF d, Goal
  <2> QED BY <1>2, <1>3, <1>4
<1> QED BY <1>5

LEMMA FailureMakes ==
    ASSUME NEW w \in Worlds, NEW x \in HandleFailure(w)
    PROVE  /\ x \in Worlds /\ x.client = Failed(w.client)
           /\ x.net = w.net /\ x.lookups = w.lookups /\ x.log = w.log
<1>1. Failed(w.client) \in Clients
  BY WorldParts, FailedFields
<1>2. x = Made(Failed(w.client), w.net, w.lookups, w.log)
  BY DEF HandleFailure, Worlds, Made
<1> QED BY <1>1, <1>2, WorldParts, MadeParts

\* Whatever ended, what is left is sound once handle_failure has run.
LEMMA DetachedFails ==
    ASSUME NEW w, Detached(w), NEW x \in HandleFailure(w)
    PROVE  Sound(x)
<1>1. /\ x \in Worlds /\ x.client = Failed(w.client)
      /\ x.net = w.net /\ x.lookups = 0 /\ x.log = w.log /\ w \in Worlds
  BY FailureMakes DEF Detached
<1>2. /\ x.client.outgoing = <<>> /\ ~x.client.streamUp
      /\ x.client.state \in {"idle", "gave_up", "waiting"}
      /\ x.client.pcb = NoPcb /\ x.client.initialised
      /\ x.client.sessions = w.client.sessions /\ x.client.incoming = w.client.incoming
      /\ (x.client.ready <=> w.client.ready)
  BY <1>1, FailedFields, WorldParts DEF Detached
<1>3. OwnsItsBlock(x) /\ BlockFollowsState(x)
  BY <1>1, <1>2 DEF Detached, OwnsItsBlock, BlockFollowsState
<1>4. WaitsForWhatItAsked(x)
  BY <1>1, <1>2 DEF Detached, WaitsForWhatItAsked
<1>5. LossesAreCounted(x)
  <2>1. Losses(x) = Losses(w) /\ Losses(w) \in Nat
    BY <1>1 DEF Losses, Worlds, Logs
  <2>2. Up(x) = 0
    BY <1>2 DEF Up, Live
  <2> QED BY <1>1, <1>2, <2>1, <2>2 DEF Detached, LossesAreCounted
<1>6. StreamFollowsState(x)
  BY <1>1, <1>2, SizeAssumption DEF Detached, StreamFollowsState, Drained
<1>7. InputSoFar(x)
  BY <1>1, <1>2 DEF Detached, InputSoFar
<1>8. OutputAddsUp(x) /\ InputGoesOn(x)
  BY <1>2 DEF OutputAddsUp, InputGoesOn, Live
<1> QED BY <1>1, <1>3, <1>4, <1>5, <1>6, <1>7, <1>8 DEF Sound

-----------------------------------------------------------------------------
(***************************************************************************)
(* release_pcb, and giving up a lookup.                                    *)
(***************************************************************************)
\* The client that no longer points at a block, and one that points at a new one.
Unlinked(c) == [c EXCEPT !.pcb = NoPcb]
Linked(c, p) == [c EXCEPT !.pcb = p, !.state = "connecting"]

LEMMA ReleaseMakes ==
    ASSUME NEW w \in Worlds, NEW graceful \in BOOLEAN, NEW x \in Release(w, graceful)
    PROVE  /\ x \in Worlds
           /\ x.client = Unlinked(w.client)
           /\ x.lookups = w.lookups /\ x.log = w.log
           /\ OwnsItsBlock(w) => OwnsItsBlock(x)
<1>0. w.client \in Clients /\ w.net \in [Pcbs -> Blocks]
  BY WorldParts
<1>1. CASE w.client.pcb = NoPcb
  <2>1. x = w
    BY <1>1 DEF Release
  <2> QED BY <1>0, <1>1, <2>1 DEF Clients, Unlinked
<1>2. CASE w.client.pcb # NoPcb
  <2>1. PICK s \in {"closing", "free"} :
           x = [w EXCEPT !.client.pcb = NoPcb,
                         !.net[w.client.pcb] = [Unused EXCEPT !.status = s]]
    BY <1>2 DEF Release
  <2> DEFINE c == Unlinked(w.client)
             b == [Unused EXCEPT !.status = s]
             n == [w.net EXCEPT ![w.client.pcb] = b]
  <2>2. c \in Clients /\ c.pcb = NoPcb
    BY <1>0 DEF Clients, Unlinked
  <2>3. b \in Blocks /\ b.status \notin {"connecting", "open"} /\ ~b.mine
    <3>1. b \in Blocks /\ b.status = s /\ b.mine = Unused.mine
      BY UnusedIsABlock DEF Blocks
    <3> QED BY <3>1 DEF Unused
  <2>4. n \in [Pcbs -> Blocks]
    BY <1>0, <2>3
  <2>5. x = Made(c, n, w.lookups, w.log)
    BY <2>1 DEF Worlds, Made, Unlinked
  <2>6. x \in Worlds /\ x.client = c /\ x.net = n /\ x.lookups = w.lookups /\ x.log = w.log
    BY <2>2, <2>4, <2>5, WorldParts, MadeParts
  <2>7. ASSUME OwnsItsBlock(w), NEW p \in Pcbs
        PROVE  /\ x.net[p].mine <=> p = x.client.pcb
               /\ x.net[p].status \in {"connecting", "open"} => p = x.client.pcb
    <3>1. p # x.client.pcb
      BY <2>2, <2>6, PcbAssumption
    <3>2. CASE p = w.client.pcb
      BY <1>0, <2>3, <2>6, <3>1, <3>2
    <3>3. CASE p # w.client.pcb
      BY <1>0, <2>6, <2>7, <3>1, <3>3 DEF OwnsItsBlock
    <3> QED BY <3>2, <3>3
  <2> QED BY <2>6, <2>7 DEF OwnsItsBlock
<1> QED BY <1>1, <1>2

\* With no late answers, a lookup nobody waits for any more is as good as gone.
LEMMA AbandonMakes ==
    ASSUME ~LateAnswers, NEW w \in Worlds
    PROVE  /\ Abandon(w) \in Worlds /\ Abandon(w).lookups = 0
           /\ Abandon(w).client = w.client /\ Abandon(w).net = w.net
           /\ Abandon(w).log = w.log
<1>1. Abandon(w) = Made(w.client, w.net, 0, w.log)
  BY DEF Abandon, Worlds, Made
<1>2. 0 \in 0..MaxLookups
  BY BoundAssumption
<1> QED BY <1>1, <1>2, WorldParts, MadeParts

\* Letting go of the block and the lookup of a sound client leaves everything
\* else as it was.
LEMMA LetGo ==
    ASSUME ~LateAnswers, NEW w \in Worlds, OwnsItsBlock(w),
           NEW graceful \in BOOLEAN, NEW x \in Release(Abandon(w), graceful)
    PROVE  /\ x \in Worlds /\ OwnsItsBlock(x)
           /\ x.client = Unlinked(w.client)
           /\ x.lookups = 0 /\ x.log = w.log
<1>1. OwnsItsBlock(Abandon(w))
  BY AbandonMakes DEF OwnsItsBlock
<1> QED BY <1>1, AbandonMakes, ReleaseMakes

LEMMA WithoutBlock ==
    ASSUME NEW c \in Clients
    PROVE  LET d == Unlinked(c) IN
           /\ d \in Clients /\ d.pcb = NoPcb
           /\ (d.initialised <=> c.initialised) /\ d.state = c.state
           /\ d.attempts = c.attempts /\ d.sessions = c.sessions /\ d.config = c.config
           /\ (d.streamUp <=> c.streamUp) /\ d.incoming = c.incoming /\ d.outgoing = c.outgoing
           /\ (d.ready <=> c.ready)
BY DEF Clients, Unlinked

-----------------------------------------------------------------------------
(***************************************************************************)
(* start_connect and begin_attempt.                                        *)
(***************************************************************************)
LEMMA Connecting ==
    ASSUME NEW c \in Clients, NEW p \in Pcbs
    PROVE  LET d == Linked(c, p) IN
           /\ d \in Clients /\ d.pcb = p /\ d.state = "connecting"
           /\ (d.initialised <=> c.initialised) /\ d.sessions = c.sessions
           /\ (d.streamUp <=> c.streamUp) /\ d.incoming = c.incoming /\ d.outgoing = c.outgoing
           /\ (d.ready <=> c.ready)
BY DEF Clients, States, Linked

LEMMA OpenedMakes ==
    ASSUME NEW w \in Worlds, NEW p \in Pcbs, w.net[p].status = "free",
           w.client.pcb = NoPcb, OwnsItsBlock(w)
    PROVE  LET x == Opened(w, p) IN
           /\ x \in Worlds /\ OwnsItsBlock(x)
           /\ x.client = Linked(w.client, p)
           /\ Fresh(x.net[p])
           /\ x.lookups = w.lookups /\ x.log = w.log
<1> DEFINE c == Linked(w.client, p)
           b == [Unused EXCEPT !.status = "connecting", !.mine = TRUE]
           n == [w.net EXCEPT ![p] = b]
           x == Opened(w, p)
<1>0. w.client \in Clients /\ w.net \in [Pcbs -> Blocks]
  BY WorldParts
<1>1. c \in Clients /\ c.pcb = p
  BY <1>0, Connecting
<1>2. b \in Blocks /\ b.mine /\ Fresh(b)
  <2>1. /\ b \in Blocks /\ b.mine /\ b.status = "connecting"
        /\ b.sent = Unused.sent /\ b.toClient = Unused.toClient /\ b.wire = Unused.wire
    BY UnusedIsABlock DEF Blocks
  <2>2. Unused.sent = 0 /\ Unused.toClient = <<>> /\ Unused.wire = <<>>
    BY DEF Unused
  <2> QED BY <2>1, <2>2 DEF Fresh
<1>3. n \in [Pcbs -> Blocks]
  BY <1>0, <1>2
<1>4. x = Made(c, n, w.lookups, w.log)
  <2> DEFINE v == [w EXCEPT !.client = c]
  <2>1. v = Made(c, w.net, w.lookups, w.log)
    BY DEF Made, Worlds
  <2>2. /\ v \in Worlds /\ v.client = c /\ v.net = w.net
        /\ v.lookups = w.lookups /\ v.log = w.log
    BY <1>1, <2>1, WorldParts, MadeParts
  <2>3. x = [v EXCEPT !.net = [v.net EXCEPT ![p] = b]]
    BY DEF Opened, Linked
  <2> HIDE DEF v, c, b, x
  <2>4. x = [v EXCEPT !.net = n]
    BY <2>2, <2>3
  <2> HIDE DEF n
  <2> QED BY <2>2, <2>4 DEF Made, Worlds
<1>5. x \in Worlds /\ x.client = c /\ x.net = n /\ x.lookups = w.lookups /\ x.log = w.log
  BY <1>1, <1>3, <1>4, WorldParts, MadeParts
<1>6. ASSUME NEW q \in Pcbs
      PROVE  /\ x.net[q].mine <=> q = x.client.pcb
             /\ x.net[q].status \in {"connecting", "open"} => q = x.client.pcb
  <2>1. CASE q = p
    BY <1>0, <1>1, <1>2, <1>5, <2>1
  <2>2. CASE q # p
    BY <1>0, <1>1, <1>5, <2>2, PcbAssumption DEF OwnsItsBlock
  <2> QED BY <2>1, <2>2
<1> QED BY <1>0, <1>2, <1>5, <1>6 DEF OwnsItsBlock

LEMMA DetachedStarts ==
    ASSUME NEW w, Detached(w), Quiet(w), NEW x \in StartConnect(w)
    PROVE  Sound(x)
<1>0. /\ w \in Worlds /\ w.client \in Clients /\ w.net \in [Pcbs -> Blocks]
      /\ w.client.pcb = NoPcb /\ OwnsItsBlock(w) /\ w.lookups = 0 /\ InputSoFar(w)
      /\ w.client.initialised /\ w.log.wanted
      /\ w.client.sessions = Losses(w) /\ w.client.sessions <= w.log.session
      /\ Len(w.client.incoming) <= RxCapacity /\ Drained(w.client)
      /\ ~w.client.streamUp /\ w.client.outgoing = <<>>
  BY WorldParts DEF Detached, Quiet
<1>1. \/ x \in HandleFailure(w)
      \/ \E p \in Pcbs : /\ w.net[p].status = "free"
                         /\ \/ x = Opened(w, p)
                            \/ \E y \in Release(Opened(w, p), FALSE) : x \in HandleFailure(y)
  <2> DEFINE opened == {Opened(w, p) : p \in {q \in Pcbs : w.net[q].status = "free"}}
  <2>1. \/ x \in HandleFailure(w) \/ x \in opened
        \/ x \in Then(Then(opened, LAMBDA y : Release(y, FALSE)), HandleFailure)
    BY Zenon DEF StartConnect
  <2>2. ASSUME NEW S PROVE x \in Then(S, HandleFailure) => \E y \in S : x \in HandleFailure(y)
    BY Zenon DEF Then
  <2>3. ASSUME NEW y \in Then(opened, LAMBDA z : Release(z, FALSE))
        PROVE  \E z \in opened : y \in Release(z, FALSE)
    BY Zenon DEF Then
  <2> QED BY <2>1, <2>2, <2>3, Zenon
<1>2. CASE x \in HandleFailure(w)
  BY <1>2, DetachedFails
<1>3. ASSUME NEW p \in Pcbs, w.net[p].status = "free"
      PROVE  LET y == Opened(w, p) IN
             /\ y \in Worlds /\ OwnsItsBlock(y) /\ Fresh(y.net[p])
             /\ y.client.pcb = p /\ y.client.state = "connecting"
             /\ y.client.initialised /\ y.log.wanted /\ y.lookups = 0
             /\ y.client.sessions = Losses(y) /\ y.client.sessions <= y.log.session
             /\ y.client.incoming = w.client.incoming /\ y.log = w.log
             /\ ~y.client.streamUp /\ y.client.outgoing = <<>>
             /\ (y.client.ready <=> w.client.ready)
  <2> DEFINE y == Opened(w, p)
  <2>1. /\ y \in Worlds /\ OwnsItsBlock(y) /\ Fresh(y.net[p])
        /\ y.client = Linked(w.client, p)
        /\ y.lookups = w.lookups /\ y.log = w.log
    BY <1>0, <1>3, OpenedMakes
  <2> HIDE DEF y
  <2>2. /\ y.client.pcb = p /\ y.client.state = "connecting"
        /\ y.client.initialised /\ ~y.client.streamUp
        /\ y.client.sessions = w.client.sessions
        /\ y.client.incoming = w.client.incoming /\ y.client.outgoing = <<>>
        /\ (y.client.ready <=> w.client.ready)
    BY <1>0, <2>1, Connecting
  <2>3. Losses(y) = Losses(w)
    BY <2>1 DEF Losses
  <2> QED BY <1>0, <2>1, <2>2, <2>3 DEF y
<1>4. ASSUME NEW p \in Pcbs, w.net[p].status = "free", x = Opened(w, p)
      PROVE  Sound(x)
  <2>0. /\ x \in Worlds /\ OwnsItsBlock(x) /\ Fresh(x.net[p])
        /\ x.client.pcb = p /\ x.client.state = "connecting"
        /\ x.client.initialised /\ x.log.wanted /\ x.lookups = 0
        /\ x.client.sessions = Losses(x) /\ x.client.sessions <= x.log.session
        /\ x.client.incoming = w.client.incoming /\ x.log = w.log
        /\ ~x.client.streamUp /\ x.client.outgoing = <<>>
        /\ (x.client.ready <=> w.client.ready)
    BY <1>3, <1>4
  <2>1. BlockFollowsState(x) /\ WaitsForWhatItAsked(x)
    BY <2>0, PcbAssumption DEF BlockFollowsState, WaitsForWhatItAsked
  <2>2. LossesAreCounted(x)
    <3>1. x.client.sessions \in Nat
      BY <2>0 DEF Worlds, Clients
    <3>2. Up(x) = 0
      BY <2>0 DEF Up, Live
    <3> QED BY <2>0, <3>1, <3>2 DEF LossesAreCounted
  <2>3. StreamFollowsState(x)
    BY <1>0, <2>0, SizeAssumption DEF StreamFollowsState, Drained
  <2>4. InputSoFar(x)
    BY <1>0, <2>0 DEF InputSoFar
  <2>5. OutputAddsUp(x) /\ InputGoesOn(x)
    BY <2>0 DEF OutputAddsUp, InputGoesOn, Live
  <2> QED BY <2>0, <2>1, <2>2, <2>3, <2>4, <2>5 DEF Sound
<1>5. ASSUME NEW p \in Pcbs, w.net[p].status = "free",
             NEW y \in Release(Opened(w, p), FALSE), x \in HandleFailure(y)
      PROVE  Sound(x)
  <2>1. /\ Opened(w, p) \in Worlds /\ OwnsItsBlock(Opened(w, p))
        /\ Opened(w, p).client \in Clients
    BY <1>3, <1>5, WorldParts
  <2>2. /\ y \in Worlds /\ OwnsItsBlock(y) /\ y.log = Opened(w, p).log
        /\ y.lookups = Opened(w, p).lookups
        /\ y.client = Unlinked(Opened(w, p).client)
    BY <2>1, <1>5, ReleaseMakes
  <2>3. /\ y.client.pcb = NoPcb /\ y.client.initialised /\ y.lookups = 0 /\ y.log.wanted
        /\ y.client.sessions = Losses(y) /\ y.client.sessions <= y.log.session
        /\ y.client.incoming = w.client.incoming /\ y.log = w.log
        /\ (y.client.ready <=> w.client.ready)
    BY <1>3, <1>5, <2>1, <2>2, WithoutBlock DEF Losses
  <2>4. Detached(y)
    BY <1>0, <2>2, <2>3 DEF Detached, InputSoFar, Drained
  <2> QED BY <1>5, <2>4, DetachedFails
<1> QED BY <1>1, <1>2, <1>4, <1>5

LEMMA DetachedBegins ==
    ASSUME NEW w, Detached(w), Quiet(w), NEW x \in BeginAttempt(w)
    PROVE  Sound(x)
<1>1. CASE x \in StartConnect(w) \/ x \in HandleFailure(w)
  BY <1>1, DetachedStarts, DetachedFails
<1>2. CASE /\ w.lookups < MaxLookups
           /\ x = [w EXCEPT !.client.state = "resolving", !.lookups = @ + 1]
  <2> DEFINE c == [w.client EXCEPT !.state = "resolving"]
  <2>0. /\ w \in Worlds /\ w.client \in Clients /\ w.net \in [Pcbs -> Blocks]
        /\ w.client.pcb = NoPcb /\ OwnsItsBlock(w) /\ w.lookups = 0 /\ InputSoFar(w)
        /\ w.client.initialised /\ w.log.wanted
        /\ w.client.sessions = Losses(w) /\ w.client.sessions <= w.log.session
        /\ Len(w.client.incoming) <= RxCapacity /\ Drained(w.client)
        /\ ~w.client.streamUp /\ w.client.outgoing = <<>>
    BY WorldParts DEF Detached, Quiet
  <2>1. /\ c \in Clients /\ c.pcb = NoPcb /\ c.state = "resolving" /\ c.initialised
        /\ c.sessions = w.client.sessions /\ c.incoming = w.client.incoming
        /\ ~c.streamUp /\ c.outgoing = <<>> /\ (c.ready <=> w.client.ready)
    BY <2>0 DEF Clients, States
  <2>2. 1 \in 0..MaxLookups
    BY <1>2, <2>0, BoundAssumption
  <2>3. x = Made(c, w.net, 1, w.log)
    <3> DEFINE v == [w EXCEPT !.client = c]
    <3>1. v = Made(c, w.net, w.lookups, w.log)
      BY <2>0 DEF Made, Worlds
    <3>2. /\ v \in Worlds /\ v.client = c /\ v.net = w.net
          /\ v.lookups = 0 /\ v.log = w.log
      BY <2>0, <2>1, <3>1, WorldParts, MadeParts
    <3>3. x = [v EXCEPT !.lookups = v.lookups + 1]
      BY <1>2
    <3> HIDE DEF c, v
    <3>4. x = [v EXCEPT !.lookups = 1]
      BY <3>2, <3>3
    <3> QED BY <3>2, <3>4 DEF Made, Worlds
  <2>4. x \in Worlds /\ x.client = c /\ x.net = w.net /\ x.lookups = 1 /\ x.log = w.log
    BY <2>0, <2>1, <2>2, <2>3, WorldParts, MadeParts
  <2> HIDE DEF c
  <2>5. OwnsItsBlock(x) /\ BlockFollowsState(x) /\ WaitsForWhatItAsked(x)
    BY <2>0, <2>1, <2>4 DEF OwnsItsBlock, BlockFollowsState, WaitsForWhatItAsked
  <2>6. LossesAreCounted(x)
    <3>1. x.client.sessions \in Nat /\ x.client.sessions = Losses(x)
      BY <2>0, <2>1, <2>4 DEF Clients, Losses
    <3>2. Up(x) = 0
      BY <2>1, <2>4 DEF Up, Live
    <3> QED BY <2>0, <2>1, <2>4, <3>1, <3>2 DEF LossesAreCounted
  <2>7. StreamFollowsState(x)
    BY <2>0, <2>1, <2>4, SizeAssumption DEF StreamFollowsState, Drained
  <2>8. InputSoFar(x)
    BY <2>0, <2>1, <2>4 DEF InputSoFar
  <2>9. OutputAddsUp(x) /\ InputGoesOn(x)
    BY <2>1, <2>4 DEF OutputAddsUp, InputGoesOn, Live
  <2> QED BY <2>4, <2>5, <2>6, <2>7, <2>8, <2>9 DEF Sound
<1> QED BY <1>1, <1>2 DEF BeginAttempt

-----------------------------------------------------------------------------
(***************************************************************************)
(* What ends an attempt or a connection.                                   *)
(***************************************************************************)
\* Bookkeeping that every such handler has in common.
LEMMA EndDetaches ==
    ASSUME NEW w, Sound(w), NEW v \in Worlds, OwnsItsBlock(v),
           v.client.pcb = NoPcb, v.lookups = 0, v.client.initialised, v.log.wanted,
           v.client.sessions = w.client.sessions, v.client.incoming = w.client.incoming,
           v.client.ready <=> w.client.ready, v.log.session = w.log.session, v.log.read = w.log.read,
           Losses(v) = Losses(w) + Up(w)
    PROVE  Detached(v)
<1>1. /\ w.client.sessions = Losses(w) + Up(w) /\ w.client.sessions <= w.log.session
      /\ Len(w.client.incoming) <= RxCapacity /\ InputSoFar(w) /\ Drained(w.client)
  BY DEF Sound, LossesAreCounted, StreamFollowsState
<1>2. InputSoFar(v) /\ Drained(v.client)
  BY <1>1 DEF InputSoFar, Drained
<1> QED BY <1>1, <1>2 DEF Detached

\* What a sound client in the middle of an attempt looks like.
LEMMA SoundParts ==
    ASSUME NEW w, Sound(w)
    PROVE  /\ w \in Worlds /\ OwnsItsBlock(w) /\ w.client \in Clients
           /\ w.net \in [Pcbs -> Blocks] /\ w.log \in Logs
           /\ w.client.state # "idle" => w.log.wanted /\ w.client.initialised
           /\ w.client.state # "resolving" => w.lookups = 0
           /\ w.client.state = "resolving" => w.lookups = 1
           /\ w.client.state \notin {"connecting", "connected"} => w.client.pcb = NoPcb
           /\ w.client.state # "connected" => Quiet(w)
BY WorldParts DEF Sound, WaitsForWhatItAsked, BlockFollowsState, StreamFollowsState, Quiet

LEMMA TimeoutDetaches ==
    ASSUME ~LateAnswers, NEW w, Sound(w), w.client.state \in {"resolving", "connecting"},
           NEW x \in Release(Abandon(w), FALSE)
    PROVE  Detached(x)
<1>1. w \in Worlds /\ w.client \in Clients /\ OwnsItsBlock(w) /\ w.log.wanted /\ w.client.initialised
  BY SoundParts
<1>2. /\ x \in Worlds /\ OwnsItsBlock(x) /\ x.client = Unlinked(w.client)
      /\ x.lookups = 0 /\ x.log = w.log
  BY <1>1, LetGo
<1>3. /\ x.client.pcb = NoPcb /\ x.client.initialised
      /\ x.client.sessions = w.client.sessions /\ x.client.incoming = w.client.incoming
      /\ (x.client.ready <=> w.client.ready)
  BY <1>1, <1>2, WithoutBlock
<1>4. Losses(x) = Losses(w) + Up(w)
  BY <1>1, <1>2 DEF Losses, Up, Live, Worlds, Logs
<1> QED BY <1>1, <1>2, <1>3, <1>4, EndDetaches

LEMMA RetryStarts ==
    ASSUME NEW w, Sound(w), w.client.state = "waiting"
    PROVE  Detached(w) /\ Quiet(w)
<1>1. /\ w \in Worlds /\ OwnsItsBlock(w) /\ w.log.wanted /\ w.client.initialised
      /\ w.lookups = 0 /\ w.client.pcb = NoPcb /\ Quiet(w) /\ w.log \in Logs
  BY SoundParts
<1>2. Losses(w) = Losses(w) + Up(w)
  BY <1>1 DEF Losses, Up, Live, Logs
<1> QED BY <1>1, <1>2, EndDetaches

LEMMA AnswerDetaches ==
    ASSUME NEW w, Sound(w), w.lookups > 0
    PROVE  LET x == [w EXCEPT !.lookups = @ - 1] IN Detached(x) /\ Quiet(x)
<1> DEFINE x == [w EXCEPT !.lookups = @ - 1]
<1>1. w \in Worlds /\ w.lookups \in Nat /\ w.client.state = "resolving"
  BY SoundParts, WorldParts DEF Worlds
<1>2. /\ OwnsItsBlock(w) /\ w.log.wanted /\ w.client.initialised
      /\ w.lookups = 1 /\ w.client.pcb = NoPcb /\ Quiet(w) /\ w.log \in Logs
  BY <1>1, SoundParts
<1>3. x = Made(w.client, w.net, 0, w.log)
  BY <1>1, <1>2 DEF Made, Worlds
<1>4. 0 \in 0..MaxLookups
  BY BoundAssumption
<1> HIDE DEF x
<1>5. x \in Worlds /\ x.client = w.client /\ x.net = w.net /\ x.lookups = 0 /\ x.log = w.log
  BY <1>1, <1>3, <1>4, WorldParts, MadeParts
<1>6. OwnsItsBlock(x) /\ Quiet(x)
  BY <1>2, <1>5 DEF OwnsItsBlock, Quiet
<1>7. Losses(x) = Losses(w) + Up(w)
  BY <1>1, <1>2, <1>5 DEF Losses, Up, Live, Logs
<1>8. Detached(x)
  BY <1>2, <1>5, <1>6, <1>7, EndDetaches
<1> QED BY <1>6, <1>8 DEF x

\* The block is gone, whatever the log says about it.
LEMMA LostDetaches ==
    ASSUME NEW w, Sound(w), NEW p \in Pcbs, w.net[p].mine,
           NEW g \in Logs, g.wanted <=> w.log.wanted, g.session = w.log.session,
           g.read = w.log.read, g.reported + g.ended = Losses(w) + Up(w),
           NEW x, x = Made(Unlinked(w.client), [w.net EXCEPT ![p] = Unused], w.lookups, g)
    PROVE  Detached(x)
<1> DEFINE c == Unlinked(w.client)
           m == [w.net EXCEPT ![p] = Unused]
<1>1. /\ w \in Worlds /\ OwnsItsBlock(w) /\ w.client \in Clients
      /\ w.net \in [Pcbs -> Blocks] /\ w.log \in Logs
  BY SoundParts
<1>2. p = w.client.pcb /\ p # NoPcb
  BY <1>1, PcbAssumption DEF OwnsItsBlock
<1>3. w.client.state \in {"connecting", "connected"}
  BY <1>2, SoundParts
<1>4. w.lookups = 0 /\ w.log.wanted /\ w.client.initialised
  BY <1>3, SoundParts
<1>5. c \in Clients /\ m \in [Pcbs -> Blocks]
  BY <1>1, UnusedIsABlock, WithoutBlock
<1>6. x \in Worlds /\ x.client = c /\ x.net = m /\ x.lookups = w.lookups /\ x.log = g
  <2> HIDE DEF c, m
  <2> QED BY <1>1, <1>5, WorldParts, MadeParts DEF c, m
<1>7. /\ x.client.pcb = NoPcb /\ x.client.initialised
      /\ x.client.sessions = w.client.sessions /\ x.client.incoming = w.client.incoming
      /\ (x.client.ready <=> w.client.ready)
  BY <1>1, <1>4, <1>6, WithoutBlock
<1>8. OwnsItsBlock(x)
  <2> SUFFICES ASSUME NEW q \in Pcbs
               PROVE  ~x.net[q].mine /\ x.net[q].status \notin {"connecting", "open"}
    BY <1>7, PcbAssumption DEF OwnsItsBlock
  <2>1. CASE q = p
    BY <1>1, <1>6, <2>1 DEF Unused
  <2>2. CASE q # p
    BY <1>1, <1>2, <1>6, <2>2 DEF OwnsItsBlock
  <2> QED BY <2>1, <2>2
<1>9. Losses(x) = Losses(w) + Up(w)
  BY <1>6 DEF Losses
<1> QED BY <1>1, <1>4, <1>6, <1>7, <1>8, <1>9, EndDetaches

\* The world without the block p.
LEMMA BlockTakenAway ==
    ASSUME NEW w, Sound(w), NEW p \in Pcbs
    PROVE  LET m == [w.net EXCEPT ![p] = Unused] IN
           [w EXCEPT !.client.pcb = NoPcb, !.net[p] = Unused]
               = Made(Unlinked(w.client), m, w.lookups, w.log)
<1> DEFINE c == Unlinked(w.client)
           m == [w.net EXCEPT ![p] = Unused]
           v == [w EXCEPT !.client = c]
           u == [v EXCEPT !.net = [v.net EXCEPT ![p] = Unused]]
<1>1. w \in Worlds /\ c \in Clients
  BY SoundParts, WithoutBlock
<1>2. [w EXCEPT !.client.pcb = NoPcb, !.net[p] = Unused] = u
  BY DEF Unlinked
<1> HIDE DEF c
<1>3. v = Made(c, w.net, w.lookups, w.log)
  BY <1>1, Replaced
<1> HIDE DEF v
<1>4. u = Made(c, m, w.lookups, w.log)
  BY <1>1, <1>3, MadeParts, WorldParts, Replaced
<1> HIDE DEF u
<1> QED BY <1>2, <1>4 DEF c

\* on_connected with an error.
LEMMA ConnectFailedDetaches ==
    ASSUME NEW w, Sound(w), NEW p \in Pcbs, w.net[p].mine, w.net[p].status = "connecting"
    PROVE  Detached([w EXCEPT !.client.pcb = NoPcb, !.net[p] = Unused])
<1>1. w \in Worlds /\ OwnsItsBlock(w) /\ w.log \in Logs
  BY SoundParts
<1>2. p = w.client.pcb
  BY <1>1 DEF OwnsItsBlock
<1>3. w.client.state # "connected"
  BY <1>2, PcbAssumption DEF Sound, BlockFollowsState
<1>4. w.log.reported + w.log.ended = Losses(w) + Up(w)
  BY <1>1, <1>3 DEF Losses, Up, Live, Logs
<1> DEFINE u == [w EXCEPT !.client.pcb = NoPcb, !.net[p] = Unused]
<1>5. u = Made(Unlinked(w.client), [w.net EXCEPT ![p] = Unused], w.lookups, w.log)
  BY BlockTakenAway
<1> HIDE DEF u
<1>6. Detached(u)
  BY <1>1, <1>4, <1>5, LostDetaches
<1> QED BY <1>6 DEF u

\* on_error.
LEMMA ErrorDetaches ==
    ASSUME NEW w, Sound(w), NEW p \in Pcbs, w.net[p].mine, NEW n \in Nat, n = Up(w)
    PROVE  Detached([w EXCEPT !.client.pcb = NoPcb, !.net[p] = Unused, !.log.reported = @ + n])
<1> DEFINE c == Unlinked(w.client)
           m == [w.net EXCEPT ![p] = Unused]
           g == [w.log EXCEPT !.reported = @ + n]
           u == [w EXCEPT !.client.pcb = NoPcb, !.net[p] = Unused]
           x == [w EXCEPT !.client.pcb = NoPcb, !.net[p] = Unused, !.log.reported = @ + n]
<1>1. /\ w \in Worlds /\ w.client \in Clients /\ w.net \in [Pcbs -> Blocks]
      /\ w.log \in Logs /\ c \in Clients /\ m \in [Pcbs -> Blocks]
  BY SoundParts, WithoutBlock, UnusedIsABlock
<1>2. /\ g \in Logs /\ g.reported = w.log.reported + n /\ g.ended = w.log.ended
      /\ (g.wanted <=> w.log.wanted) /\ g.session = w.log.session /\ g.read = w.log.read
  BY <1>1 DEF Logs
<1>3. g.reported + g.ended = Losses(w) + Up(w)
  BY <1>1, <1>2 DEF Losses, Logs
<1>4. u = Made(c, m, w.lookups, w.log)
  BY BlockTakenAway
<1>5. x = [u EXCEPT !.log = [u.log EXCEPT !.reported = w.log.reported + n]]
  OBVIOUS
<1> HIDE DEF u, x, c, m
<1>6. u \in Worlds /\ u.client = c /\ u.net = m /\ u.lookups = w.lookups /\ u.log = w.log
  BY <1>1, <1>4, MadeParts, WorldParts
<1>7. x = [u EXCEPT !.log = g]
  BY <1>5, <1>6
<1> HIDE DEF g
<1>8. x = Made(c, m, w.lookups, g)
  BY <1>6, <1>7, Replaced
<1>9. Detached(x)
  BY <1>1, <1>2, <1>3, <1>8, LostDetaches DEF c, m
<1> QED BY <1>9 DEF x

\* on_recv without data.
LEMMA PeerCloseDetaches ==
    ASSUME NEW w, Sound(w), NEW p \in Pcbs, w.net[p].mine, w.net[p].status = "open",
           NEW x \in Release(w, TRUE)
    PROVE  Detached([x EXCEPT !.client.state = "idle", !.log.reported = @ + 1])
<1> DEFINE c == [x.client EXCEPT !.state = "idle"]
           g == [x.log EXCEPT !.reported = @ + 1]
           u == [x EXCEPT !.client = c]
           y == [x EXCEPT !.client.state = "idle", !.log.reported = @ + 1]
<1>1. /\ w \in Worlds /\ OwnsItsBlock(w) /\ w.client \in Clients /\ w.log \in Logs
      /\ p = w.client.pcb
  BY SoundParts DEF OwnsItsBlock
<1>2. w.client.state = "connected"
  BY <1>1, SoundParts, PcbAssumption DEF Sound, BlockFollowsState, Fresh
<1>3. w.lookups = 0 /\ w.log.wanted /\ w.client.initialised
  BY <1>2, SoundParts
<1>4. /\ x \in Worlds /\ OwnsItsBlock(x) /\ x.client = Unlinked(w.client)
      /\ x.lookups = 0 /\ x.log = w.log
  BY <1>1, <1>3, ReleaseMakes
<1>5. /\ x.client \in Clients /\ x.client.pcb = NoPcb /\ x.client.initialised
      /\ x.client.sessions = w.client.sessions /\ x.client.incoming = w.client.incoming
      /\ (x.client.ready <=> w.client.ready)
  BY <1>1, <1>3, <1>4, WithoutBlock
<1>6. /\ c \in Clients /\ c.pcb = NoPcb /\ c.initialised
      /\ c.sessions = w.client.sessions /\ c.incoming = w.client.incoming
      /\ (c.ready <=> w.client.ready)
  <2>1. \A d \in Clients : LET e == [d EXCEPT !.state = "idle"] IN
          /\ e \in Clients /\ e.pcb = d.pcb /\ (e.initialised <=> d.initialised)
          /\ e.sessions = d.sessions /\ e.incoming = d.incoming
          /\ (e.ready <=> d.ready)
    BY DEF Clients, States
  <2> QED BY <1>5, <2>1
<1>7. /\ g \in Logs /\ g.reported = w.log.reported + 1 /\ g.ended = w.log.ended
      /\ g.wanted /\ g.session = w.log.session /\ g.read = w.log.read
  BY <1>1, <1>3, <1>4 DEF Logs
<1>8. y = [u EXCEPT !.log = [u.log EXCEPT !.reported = x.log.reported + 1]]
  OBVIOUS
<1> HIDE DEF c, u, y
<1>9. /\ u \in Worlds /\ u.client = c /\ u.net = x.net /\ u.lookups = x.lookups
      /\ u.log = x.log
  <2>1. u = Made(c, x.net, x.lookups, x.log)
    BY <1>4, Replaced DEF u
  <2> QED BY <1>4, <1>6, <2>1, WorldParts, MadeParts
<1>10. y = [u EXCEPT !.log = g]
  BY <1>8, <1>9
<1> HIDE DEF g
<1>11. y \in Worlds /\ y.client = c /\ y.net = x.net /\ y.lookups = 0 /\ y.log = g
  BY <1>4, <1>7, <1>9, <1>10, Replaced, WorldParts, MadeParts
<1>12. OwnsItsBlock(y)
  BY <1>4, <1>5, <1>6, <1>11 DEF OwnsItsBlock
<1>13. Losses(y) = Losses(w) + Up(w)
  <2>1. Up(w) = 1
    BY <1>1, <1>2, PcbAssumption DEF Up, Live
  <2> QED BY <1>1, <1>7, <1>11, <2>1 DEF Losses, Logs
<1>14. Detached(y)
  BY <1>6, <1>7, <1>11, <1>12, <1>13, EndDetaches
<1> QED BY <1>14 DEF y

-----------------------------------------------------------------------------
(***************************************************************************)
(* tcp_client_init, deinit, close and open.                                *)
(***************************************************************************)
\* A client that is idle and owns nothing is sound whatever it was before.
LEMMA IdleIsSound ==
    ASSUME NEW w \in Worlds, OwnsItsBlock(w), InputSoFar(w), w.lookups = 0,
           w.client.pcb = NoPcb, w.client.state = "idle",
           ~w.client.streamUp, w.client.outgoing = <<>>,
           Len(w.client.incoming) <= RxCapacity, Drained(w.client),
           w.client.sessions = Losses(w), w.client.sessions <= w.log.session
    PROVE  Sound(w)
<1>1. BlockFollowsState(w) /\ WaitsForWhatItAsked(w)
  BY DEF BlockFollowsState, WaitsForWhatItAsked
<1>2. LossesAreCounted(w)
  <2>1. w.client.sessions \in Nat /\ Up(w) = 0
    BY DEF Worlds, Clients, Up, Live
  <2> QED BY <2>1 DEF LossesAreCounted
<1>3. StreamFollowsState(w)
  BY SizeAssumption DEF StreamFollowsState
<1>4. OutputAddsUp(w) /\ InputGoesOn(w)
  BY DEF OutputAddsUp, InputGoesOn, Live
<1> QED BY <1>1, <1>2, <1>3, <1>4 DEF Sound

\* The fields of the client that tcp_client_init leaves.
LEMMA InitialisedFields ==
    ASSUME NEW c \in Clients
    PROVE  LET d == [StreamCleared(c) EXCEPT !.initialised = TRUE, !.state = "idle",
                                             !.pcb = NoPcb, !.attempts = 0, !.sessions = 0]
           IN  /\ d \in Clients /\ d.pcb = NoPcb /\ d.state = "idle" /\ d.sessions = 0
               /\ ~d.streamUp /\ d.incoming = <<>> /\ d.outgoing = <<>>
<1> DEFINE e == StreamCleared(c)
           d == [e EXCEPT !.initialised = TRUE, !.state = "idle",
                          !.pcb = NoPcb, !.attempts = 0, !.sessions = 0]
<1>1. /\ e \in Clients /\ ~e.streamUp /\ e.incoming = <<>> /\ e.outgoing = <<>>
  BY NothingHeld DEF StreamCleared, Clients
<1> HIDE DEF e
<1> DEFINE a == [e EXCEPT !.initialised = TRUE, !.state = "idle"]
           r == [a EXCEPT !.pcb = NoPcb]
           b == [r EXCEPT !.attempts = 0]
<1>2. d = [b EXCEPT !.sessions = 0]
  OBVIOUS
<1> HIDE DEF d
<1>3. /\ a \in Clients /\ a.state = "idle"
      /\ ~a.streamUp /\ a.incoming = <<>> /\ a.outgoing = <<>>
  BY <1>1 DEF Clients, States
<1> HIDE DEF a
<1>4. /\ b \in Clients /\ b.state = "idle" /\ b.pcb = NoPcb
      /\ ~b.streamUp /\ b.incoming = <<>> /\ b.outgoing = <<>>
  <2>1. /\ r \in Clients /\ r.state = "idle" /\ r.pcb = NoPcb
        /\ ~r.streamUp /\ r.incoming = <<>> /\ r.outgoing = <<>>
    BY <1>3 DEF Clients
  <2> HIDE DEF r
  <2>2. 0 \in 0..MaxAttempts
    BY BoundAssumption
  <2> QED BY <2>1, <2>2 DEF Clients
<1> HIDE DEF b
<1>5. /\ d \in Clients /\ d.state = "idle" /\ d.pcb = NoPcb /\ d.sessions = 0
      /\ ~d.streamUp /\ d.incoming = <<>> /\ d.outgoing = <<>>
  BY <1>2, <1>4 DEF Clients
<1> QED BY <1>5 DEF d, e

\* A byte alone follows nothing.
LEMMA NothingFollows == ASSUME NEW b PROVE Contiguous(<<b>> \o <<>>)
BY DEF Contiguous

LEMMA InitIsSound ==
    ASSUME NEW w, Sound(w), ~w.client.initialised,
           NEW c \in Clients, c.pcb = NoPcb, c.state = "idle", c.sessions = 0,
           ~c.streamUp, c.incoming = <<>>, c.outgoing = <<>>,
           NEW x, x = Made(c, w.net, w.lookups, [w.log EXCEPT !.reported = 0, !.ended = 0])
    PROVE  Sound(x)
<1> DEFINE g == [w.log EXCEPT !.reported = 0, !.ended = 0]
<1>1. /\ w \in Worlds /\ OwnsItsBlock(w) /\ w.net \in [Pcbs -> Blocks] /\ w.log \in Logs
      /\ w.client.pcb = NoPcb /\ w.lookups = 0
  BY SoundParts
<1>2. /\ g \in Logs /\ g.reported = 0 /\ g.ended = 0 /\ g.session = w.log.session
      /\ g.read = w.log.read
  BY <1>1 DEF Logs
<1> HIDE DEF g
<1>3. x \in Worlds /\ x.client = c /\ x.net = w.net /\ x.lookups = 0 /\ x.log = g
  BY <1>1, <1>2, WorldParts, MadeParts DEF g
<1>4. OwnsItsBlock(x)
  BY <1>1, <1>3 DEF OwnsItsBlock
<1>5. InputSoFar(x)
  <2>1. Contiguous(<<x.log.read>> \o x.client.incoming)
    BY <1>3, NothingFollows
  <2>2. x.log.read[1] <= x.log.session
    BY <1>2, <1>3 DEF Sound, InputSoFar
  <2>3. Len(x.client.incoming) = 0
    BY <1>3
  <2> QED BY <2>1, <2>2, <2>3 DEF InputSoFar
<1>6. x.client.sessions = Losses(x) /\ x.client.sessions <= x.log.session
  BY <1>1, <1>2, <1>3 DEF Losses, Logs
<1>7. Len(x.client.incoming) <= RxCapacity /\ Drained(x.client)
  BY <1>3, SizeAssumption DEF Drained
<1> QED BY <1>3, <1>4, <1>5, <1>6, <1>7, IdleIsSound

\* The books when this side ends what is up, and when it wants no more of it.
LEMMA EndedHereMakes ==
    ASSUME NEW w \in Worlds
    PROVE  LET x == EndedHere(w) IN
           /\ x \in Worlds /\ x.client = w.client /\ x.net = w.net /\ x.lookups = w.lookups
           /\ x.log.session = w.log.session /\ x.log.read = w.log.read
           /\ (x.log.wanted <=> w.log.wanted) /\ Losses(x) = Losses(w) + Up(w)
<1> DEFINE g == [w.log EXCEPT !.ended = @ + Up(w)]
           x == EndedHere(w)
<1>1. w.log \in Logs /\ Up(w) \in Nat
  BY WorldParts DEF Up
<1>2. x = [w EXCEPT !.log = g]
  BY Zenon DEF EndedHere, Up
<1> HIDE DEF x
<1>3. /\ g \in Logs /\ g.ended = w.log.ended + Up(w) /\ g.reported = w.log.reported
      /\ g.session = w.log.session /\ g.read = w.log.read /\ (g.wanted <=> w.log.wanted)
  BY <1>1 DEF Logs
<1> HIDE DEF g
<1>4. x = Made(w.client, w.net, w.lookups, g)
  BY <1>2, Replaced
<1>5. x \in Worlds /\ x.client = w.client /\ x.net = w.net /\ x.lookups = w.lookups /\ x.log = g
  BY <1>3, <1>4, WorldParts, MadeParts
<1>6. Losses(x) = Losses(w) + Up(w)
  BY <1>1, <1>3, <1>5 DEF Losses, Logs
<1> QED BY <1>3, <1>5, <1>6 DEF x

LEMMA EndedMakes ==
    ASSUME NEW w \in Worlds
    PROVE  LET x == Ended(w) IN
           /\ x \in Worlds /\ x.client = w.client /\ x.net = w.net /\ x.lookups = w.lookups
           /\ x.log.session = w.log.session /\ x.log.read = w.log.read
           /\ Losses(x) = Losses(w) + Up(w)
<1> DEFINE u == EndedHere(w)
           g == [u.log EXCEPT !.wanted = FALSE]
           x == Ended(w)
<1>1. /\ u \in Worlds /\ u.client = w.client /\ u.net = w.net /\ u.lookups = w.lookups
      /\ u.log.session = w.log.session /\ u.log.read = w.log.read
      /\ Losses(u) = Losses(w) + Up(w)
  BY EndedHereMakes
<1>2. x = [u EXCEPT !.log = g]
  BY Zenon DEF Ended
<1> HIDE DEF u, x
<1>3. /\ g \in Logs /\ g.ended = u.log.ended /\ g.reported = u.log.reported
      /\ g.session = u.log.session /\ g.read = u.log.read
  BY <1>1, WorldParts DEF Logs
<1> HIDE DEF g
<1>4. x = Made(u.client, u.net, u.lookups, g)
  BY <1>1, <1>2, Replaced
<1>5. x \in Worlds /\ x.client = w.client /\ x.net = w.net /\ x.lookups = w.lookups /\ x.log = g
  BY <1>1, <1>3, <1>4, WorldParts, MadeParts
<1>6. Losses(x) = Losses(w) + Up(w)
  BY <1>1, <1>3, <1>5 DEF Losses
<1> QED BY <1>1, <1>3, <1>5, <1>6 DEF x

\* tcp_client_close and tcp_client_deinit: they differ in the client they leave.
LEMMA StoppedIsSound ==
    ASSUME ~LateAnswers, NEW w, Sound(w), NEW y \in Release(Abandon(Ended(w)), TRUE),
           NEW c \in Clients, c.pcb = NoPcb, c.state = "idle",
           c.sessions = w.client.sessions, c.incoming = w.client.incoming,
           c.ready <=> w.client.ready, ~c.streamUp, c.outgoing = <<>>,
           NEW x, x = [y EXCEPT !.client = c]
    PROVE  Sound(x)
<1> DEFINE e == Ended(w)
<1>1. w \in Worlds /\ OwnsItsBlock(w)
  BY SoundParts
<1>2. /\ e \in Worlds /\ e.client = w.client /\ e.net = w.net
      /\ e.log.session = w.log.session /\ e.log.read = w.log.read
      /\ Losses(e) = Losses(w) + Up(w)
  BY <1>1, EndedMakes
<1> HIDE DEF e
<1>3. OwnsItsBlock(e)
  BY <1>1, <1>2 DEF OwnsItsBlock
<1>4. /\ y \in Worlds /\ OwnsItsBlock(y) /\ y.client = Unlinked(w.client)
      /\ y.lookups = 0 /\ y.log = e.log
  <2>1. y \in Release(Abandon(e), TRUE)
    BY DEF e
  <2> QED BY <1>2, <1>3, <2>1, LetGo
<1>5. x = Made(c, y.net, y.lookups, y.log)
  BY <1>4, Replaced
<1>6. x \in Worlds /\ x.client = c /\ x.net = y.net /\ x.lookups = 0 /\ x.log = e.log
  BY <1>4, <1>5, WorldParts, MadeParts
<1>7. OwnsItsBlock(x)
  <2>1. y.client.pcb = NoPcb
    BY <1>1, <1>4, WithoutBlock, WorldParts
  <2> QED BY <1>4, <1>6, <2>1 DEF OwnsItsBlock
<1>8. /\ InputSoFar(x) /\ Len(x.client.incoming) <= RxCapacity
      /\ x.client.sessions <= x.log.session /\ Drained(x.client)
  BY <1>2, <1>6 DEF Sound, InputSoFar, StreamFollowsState, LossesAreCounted, Drained
<1>9. x.client.sessions = Losses(x)
  BY <1>2, <1>6 DEF Sound, LossesAreCounted, Losses
<1> QED BY <1>6, <1>7, <1>8, <1>9, IdleIsSound

\* The fields of the client that tcp_client_close and tcp_client_deinit leave.
LEMMA StoppedFields ==
    ASSUME NEW c \in Clients, c.pcb = NoPcb,
           NEW d, \/ d = [StreamDown(c) EXCEPT !.attempts = 0, !.state = "idle"]
                  \/ d = [StreamDown(c) EXCEPT !.initialised = FALSE, !.state = "idle"]
    PROVE  /\ d \in Clients /\ d.pcb = NoPcb /\ d.state = "idle"
           /\ d.sessions = c.sessions /\ d.incoming = c.incoming
           /\ ~d.streamUp /\ d.outgoing = <<>> /\ (d.ready <=> c.ready)
<1> DEFINE e == StreamDown(c)
<1>1. /\ e \in Clients /\ e.pcb = NoPcb /\ e.sessions = c.sessions
      /\ e.incoming = c.incoming /\ ~e.streamUp /\ e.outgoing = <<>>
      /\ (e.ready <=> c.ready)
  BY NothingHeld DEF StreamDown, Clients
<1>2. 0 \in 0..MaxAttempts
  BY BoundAssumption
<1>3. \/ d = [e EXCEPT !.attempts = 0, !.state = "idle"]
      \/ d = [e EXCEPT !.initialised = FALSE, !.state = "idle"]
  OBVIOUS
<1> HIDE DEF e
<1>4. CASE d = [e EXCEPT !.attempts = 0, !.state = "idle"]
  BY <1>1, <1>2, <1>4 DEF Clients, States
<1>5. CASE d = [e EXCEPT !.initialised = FALSE, !.state = "idle"]
  BY <1>1, <1>5 DEF Clients, States
<1> QED BY <1>3, <1>4, <1>5

\* What release_pcb leaves of the client.
LEMMA ReleasedFields ==
    ASSUME ~LateAnswers, NEW w, Sound(w), NEW y \in Release(Abandon(Ended(w)), TRUE)
    PROVE  /\ y.client \in Clients /\ y.client.pcb = NoPcb
           /\ y.client.sessions = w.client.sessions
           /\ y.client.incoming = w.client.incoming
           /\ (y.client.ready <=> w.client.ready)
<1> DEFINE e == Ended(w)
<1>1. w \in Worlds /\ OwnsItsBlock(w) /\ w.client \in Clients
  BY SoundParts
<1>2. e \in Worlds /\ e.client = w.client /\ e.net = w.net
  BY <1>1, EndedMakes
<1> HIDE DEF e
<1>3. OwnsItsBlock(e)
  BY <1>1, <1>2 DEF OwnsItsBlock
<1>4. y.client = Unlinked(w.client)
  <2>1. y \in Release(Abandon(e), TRUE)
    BY DEF e
  <2> QED BY <1>2, <1>3, <2>1, LetGo
<1> QED BY <1>1, <1>4, WithoutBlock

LEMMA CloseIsSound ==
    ASSUME ~LateAnswers, NEW w, Sound(w), NEW y \in Release(Abandon(Ended(w)), TRUE)
    PROVE  Sound([y EXCEPT !.client = [StreamDown(@) EXCEPT !.attempts = 0, !.state = "idle"]])
<1> DEFINE c == [StreamDown(y.client) EXCEPT !.attempts = 0, !.state = "idle"]
<1>1. /\ c \in Clients /\ c.pcb = NoPcb /\ c.state = "idle"
      /\ c.sessions = w.client.sessions /\ c.incoming = w.client.incoming
      /\ ~c.streamUp /\ c.outgoing = <<>> /\ (c.ready <=> w.client.ready)
  <2> HIDE DEF c
  <2>1. c = [StreamDown(y.client) EXCEPT !.attempts = 0, !.state = "idle"]
    BY DEF c
  <2>2. /\ y.client \in Clients /\ y.client.pcb = NoPcb
        /\ y.client.sessions = w.client.sessions /\ y.client.incoming = w.client.incoming
        /\ (y.client.ready <=> w.client.ready)
    BY ReleasedFields
  <2>3. /\ c \in Clients /\ c.pcb = NoPcb /\ c.state = "idle"
        /\ c.sessions = y.client.sessions /\ c.incoming = y.client.incoming
        /\ ~c.streamUp /\ c.outgoing = <<>> /\ (c.ready <=> y.client.ready)
    BY <2>1, <2>2, StoppedFields, Zenon
  <2> QED BY <2>2, <2>3
<1> HIDE DEF c
<1>2. Sound([y EXCEPT !.client = c])
  BY <1>1, StoppedIsSound
<1> QED BY <1>2 DEF c

LEMMA DeinitIsSound ==
    ASSUME ~LateAnswers, NEW w, Sound(w), NEW y \in Release(Abandon(Ended(w)), TRUE)
    PROVE  Sound([y EXCEPT !.client = [StreamDown(@) EXCEPT !.initialised = FALSE,
                                                            !.state = "idle"]])
<1> DEFINE c == [StreamDown(y.client) EXCEPT !.initialised = FALSE, !.state = "idle"]
<1>1. /\ c \in Clients /\ c.pcb = NoPcb /\ c.state = "idle"
      /\ c.sessions = w.client.sessions /\ c.incoming = w.client.incoming
      /\ ~c.streamUp /\ c.outgoing = <<>> /\ (c.ready <=> w.client.ready)
  <2> HIDE DEF c
  <2>1. c = [StreamDown(y.client) EXCEPT !.initialised = FALSE, !.state = "idle"]
    BY DEF c
  <2>2. /\ y.client \in Clients /\ y.client.pcb = NoPcb
        /\ y.client.sessions = w.client.sessions /\ y.client.incoming = w.client.incoming
        /\ (y.client.ready <=> w.client.ready)
    BY ReleasedFields
  <2>3. /\ c \in Clients /\ c.pcb = NoPcb /\ c.state = "idle"
        /\ c.sessions = y.client.sessions /\ c.incoming = y.client.incoming
        /\ ~c.streamUp /\ c.outgoing = <<>> /\ (c.ready <=> y.client.ready)
    BY <2>1, <2>2, StoppedFields, Zenon
  <2> QED BY <2>2, <2>3
<1> HIDE DEF c
<1>2. Sound([y EXCEPT !.client = c])
  BY <1>1, StoppedIsSound
<1> QED BY <1>2 DEF c

\* tcp_client_open, up to its begin_attempt.
LEMMA OpenDetaches ==
    ASSUME ~LateAnswers, NEW w, Sound(w), w.client.initialised, NEW config \in Configs,
           NEW x \in Release(Abandon(w), TRUE)
    PROVE  LET y == [x EXCEPT
                   !.client = [StreamInit(@) EXCEPT !.config = config, !.attempts = 0,
                                                    !.sessions = 0],
                   !.log = [@ EXCEPT !.wanted = TRUE, !.reported = 0, !.ended = 0]]
           IN  Detached(y) /\ Quiet(y)
<1> DEFINE c0 == StreamInit(x.client)
           c1 == [c0 EXCEPT !.config = config]
           c2 == [c1 EXCEPT !.attempts = 0]
           c == [c2 EXCEPT !.sessions = 0]
           g0 == [x.log EXCEPT !.wanted = TRUE]
           g1 == [g0 EXCEPT !.reported = 0]
           g == [g1 EXCEPT !.ended = 0]
           u == [x EXCEPT !.client = c]
           y == [x EXCEPT
                   !.client = [StreamInit(@) EXCEPT !.config = config, !.attempts = 0,
                                                    !.sessions = 0],
                   !.log = [@ EXCEPT !.wanted = TRUE, !.reported = 0, !.ended = 0]]
<1>1. w \in Worlds /\ OwnsItsBlock(w) /\ w.client \in Clients /\ w.log \in Logs
  BY SoundParts
<1>2. /\ x \in Worlds /\ OwnsItsBlock(x) /\ x.lookups = 0 /\ x.log = w.log
      /\ x.client = Unlinked(w.client)
  BY <1>1, LetGo
<1>3. x.client \in Clients /\ x.client.pcb = NoPcb /\ x.client.initialised
  BY <1>1, <1>2, WithoutBlock
<1>4. /\ c0 \in Clients /\ c0.pcb = NoPcb /\ c0.initialised
      /\ ~c0.streamUp /\ c0.incoming = <<>> /\ c0.outgoing = <<>>
  BY <1>3, NothingHeld DEF StreamInit, StreamCleared, Clients
<1>5. /\ g0 \in Logs /\ g0.wanted /\ g0.session = w.log.session /\ g0.read = w.log.read
  BY <1>1, <1>2 DEF Logs
<1>6. u = [x EXCEPT !.client = c] /\ y = [u EXCEPT !.log = g]
  OBVIOUS
<1> HIDE DEF y, u, c0, g0
<1>7. /\ c1 \in Clients /\ c1.pcb = NoPcb /\ c1.initialised
      /\ ~c1.streamUp /\ c1.incoming = <<>> /\ c1.outgoing = <<>>
  BY <1>4 DEF Clients
<1>8. 0 \in 0..MaxAttempts
  BY BoundAssumption
<1>9. /\ g1 \in Logs /\ g1.wanted /\ g1.session = w.log.session /\ g1.read = w.log.read
      /\ g1.reported = 0
  BY <1>5 DEF Logs
<1> HIDE DEF c1, g1
<1>10. /\ c2 \in Clients /\ c2.pcb = NoPcb /\ c2.initialised
       /\ ~c2.streamUp /\ c2.incoming = <<>> /\ c2.outgoing = <<>>
  BY <1>7, <1>8 DEF Clients
<1>11. /\ g \in Logs /\ g.wanted /\ g.session = w.log.session /\ g.read = w.log.read
       /\ g.reported = 0 /\ g.ended = 0
  BY <1>9 DEF Logs
<1> HIDE DEF c2, g
<1>12. /\ c \in Clients /\ c.pcb = NoPcb /\ c.initialised /\ c.sessions = 0
       /\ ~c.streamUp /\ c.incoming = <<>> /\ c.outgoing = <<>>
  BY <1>10 DEF Clients
<1> HIDE DEF c
<1>13. u = Made(c, x.net, x.lookups, x.log)
  BY <1>2, <1>6, Replaced
<1>14. u \in Worlds /\ u.client = c /\ u.net = x.net /\ u.lookups = 0
  BY <1>2, <1>12, <1>13, WorldParts, MadeParts
<1>15. y = Made(c, x.net, u.lookups, g)
  <2>1. y = Made(u.client, u.net, u.lookups, g)
    BY <1>6, <1>14, Replaced, Zenon
  <2> QED BY <1>14, <2>1, Zenon
<1>16. y \in Worlds /\ y.client = c /\ y.net = x.net /\ y.lookups = 0 /\ y.log = g
  BY <1>11, <1>12, <1>14, <1>15, WorldParts, MadeParts
<1>17. OwnsItsBlock(y) /\ Quiet(y)
  BY <1>2, <1>3, <1>12, <1>16 DEF OwnsItsBlock, Quiet
<1>18. InputSoFar(y)
  <2>1. Contiguous(<<y.log.read>> \o y.client.incoming)
    BY <1>12, <1>16, NothingFollows
  <2>2. y.log.read[1] <= y.log.session
    BY <1>11, <1>16 DEF Sound, InputSoFar
  <2>3. Len(y.client.incoming) = 0
    BY <1>12, <1>16
  <2> QED BY <2>1, <2>2, <2>3 DEF InputSoFar
<1>19. y.client.sessions = Losses(y) /\ y.client.sessions <= y.log.session
  BY <1>11, <1>12, <1>16 DEF Losses, Logs
<1>20. Len(y.client.incoming) <= RxCapacity /\ Drained(y.client)
  BY <1>12, <1>16, SizeAssumption DEF Drained
<1>21. Detached(y)
  BY <1>11, <1>12, <1>16, <1>17, <1>18, <1>19, <1>20 DEF Detached
<1> QED BY <1>17, <1>21 DEF y

\* tcp_client_open up to the tcp_stream_init that refuses the buffers.
LEMMA RefusedIsSound ==
    ASSUME NEW w, Sound(w), w.client.initialised, NEW y \in Release(EndedHere(w), TRUE)
    PROVE  Sound([y EXCEPT !.client = StreamCleared(@)])
<1> DEFINE e == EndedHere(w)
           c == StreamCleared(y.client)
           x == [y EXCEPT !.client = StreamCleared(@)]
<1>1. /\ w \in Worlds /\ OwnsItsBlock(w) /\ w.client \in Clients
      /\ w.lookups = (IF w.client.state = "resolving" THEN 1 ELSE 0)
      /\ w.client.state # "idle" => w.log.wanted
  BY SoundParts DEF Sound, WaitsForWhatItAsked
<1>2. /\ e \in Worlds /\ e.client = w.client /\ e.net = w.net /\ e.lookups = w.lookups
      /\ e.log.session = w.log.session /\ e.log.read = w.log.read
      /\ (e.log.wanted <=> w.log.wanted) /\ Losses(e) = Losses(w) + Up(w)
  BY <1>1, EndedHereMakes
<1>3. OwnsItsBlock(e)
  <2> HIDE DEF e
  <2> QED BY <1>1, <1>2 DEF OwnsItsBlock
<1>4. /\ y \in Worlds /\ OwnsItsBlock(y) /\ y.client = Unlinked(w.client)
      /\ y.lookups = w.lookups /\ y.log = e.log
  <2>1. y \in Release(e, TRUE)
    OBVIOUS
  <2> HIDE DEF e
  <2> QED BY <1>2, <1>3, <2>1, ReleaseMakes
<1>5. /\ y.client \in Clients /\ y.client.pcb = NoPcb /\ y.client.state = w.client.state
      /\ (y.client.initialised <=> w.client.initialised)
      /\ y.client.sessions = w.client.sessions
  BY <1>1, <1>4, WithoutBlock
<1>6. /\ c \in Clients /\ c.pcb = NoPcb /\ c.state = w.client.state /\ c.initialised
      /\ c.sessions = w.client.sessions
      /\ ~c.ready /\ ~c.streamUp /\ c.incoming = <<>> /\ c.outgoing = <<>>
  BY <1>5, NothingHeld DEF StreamCleared, Clients
<1>7. x = [y EXCEPT !.client = c]
  OBVIOUS
<1> HIDE DEF c, e, x
<1>8. x = Made(c, y.net, y.lookups, y.log)
  BY <1>4, <1>7, Replaced
<1>9. x \in Worlds /\ x.client = c /\ x.net = y.net /\ x.lookups = w.lookups /\ x.log = e.log
  BY <1>4, <1>6, <1>8, WorldParts, MadeParts
<1>10. OwnsItsBlock(x)
  BY <1>4, <1>5, <1>6, <1>9 DEF OwnsItsBlock
<1>11. BlockFollowsState(x)
  BY <1>6, <1>9 DEF BlockFollowsState
<1>12. WaitsForWhatItAsked(x)
  BY <1>1, <1>2, <1>6, <1>9 DEF WaitsForWhatItAsked
<1>13. LossesAreCounted(x)
  <2>1. Up(x) = 0
    BY <1>6, <1>9 DEF Up, Live
  <2>2. Losses(x) = Losses(w) + Up(w)
    BY <1>2, <1>9 DEF Losses
  <2>3. w.client.sessions = Losses(w) + Up(w) /\ w.client.sessions <= w.log.session
    BY DEF Sound, LossesAreCounted
  <2>4. w.client.sessions \in Nat
    BY <1>1 DEF Clients
  <2> QED BY <1>2, <1>6, <1>9, <2>1, <2>2, <2>3, <2>4 DEF LossesAreCounted
<1>14. StreamFollowsState(x)
  BY <1>6, <1>9, NothingHeld, SizeAssumption DEF StreamFollowsState, Drained
<1>15. InputSoFar(x)
  <2>1. Contiguous(<<x.log.read>> \o x.client.incoming)
    BY <1>6, <1>9, NothingFollows
  <2>2. x.log.read[1] <= x.log.session
    BY <1>2, <1>9 DEF Sound, InputSoFar
  <2>3. Len(x.client.incoming) = 0
    BY <1>6, <1>9
  <2> QED BY <2>1, <2>2, <2>3 DEF InputSoFar
<1>16. OutputAddsUp(x) /\ InputGoesOn(x)
  BY <1>6, <1>9 DEF OutputAddsUp, InputGoesOn, Live
<1>17. Sound(x)
  BY <1>9, <1>10, <1>11, <1>12, <1>13, <1>14, <1>15, <1>16 DEF Sound
<1> QED BY <1>17 DEF x

-----------------------------------------------------------------------------
(***************************************************************************)
(* Sequences of bytes.                                                     *)
(***************************************************************************)
LEMMA CutAnywhere ==
    ASSUME NEW S, NEW s \in Seq(S), NEW n \in 0..Len(s)
    PROVE  LET front == SubSeq(s, 1, n)
               back == SubSeq(s, n + 1, Len(s))
           IN  /\ front \in Seq(S) /\ back \in Seq(S)
               /\ Len(front) = n /\ Len(back) = Len(s) - n
               /\ \A i \in 1..n : front[i] = s[i]
               /\ \A i \in 1..(Len(s) - n) : back[i] = s[n + i]
OBVIOUS

LEMMA Rejoined ==
    ASSUME NEW S, NEW r \in Seq(S), NEW s \in Seq(S), NEW n \in 0..Len(s)
    PROVE  /\ r \o SubSeq(s, 1, n) \in Seq(S)
           /\ (r \o SubSeq(s, 1, n)) \o SubSeq(s, n + 1, Len(s)) = r \o s
<1> DEFINE front == SubSeq(s, 1, n)
           back == SubSeq(s, n + 1, Len(s))
           t == (r \o front) \o back
<1>1. /\ front \in Seq(S) /\ back \in Seq(S)
      /\ Len(front) = n /\ Len(back) = Len(s) - n
      /\ \A i \in 1..n : front[i] = s[i]
      /\ \A i \in 1..(Len(s) - n) : back[i] = s[n + i]
  BY CutAnywhere
<1> HIDE DEF front, back
<1>2. t \in Seq(S) /\ r \o s \in Seq(S) /\ Len(t) = Len(r) + Len(s) /\ Len(r \o s) = Len(t)
  <2>1. r \o front \in Seq(S) /\ Len(r \o front) = Len(r) + n
    BY <1>1, ConcatProperties
  <2>2. t \in Seq(S) /\ Len(t) = Len(r \o front) + Len(back)
    BY <1>1, <2>1, ConcatProperties
  <2>3. r \o s \in Seq(S) /\ Len(r \o s) = Len(r) + Len(s)
    BY ConcatProperties
  <2> HIDE DEF t
  <2> QED BY <1>1, <2>1, <2>2, <2>3, LenProperties
<1>3. ASSUME NEW i \in 1..Len(t) PROVE t[i] = (r \o s)[i]
  <2>1. CASE i <= Len(r)
    BY <1>1, <1>2, <1>3, <2>1
  <2>2. CASE i > Len(r) /\ i <= Len(r) + n
    BY <1>1, <1>2, <1>3, <2>2
  <2>3. CASE i > Len(r) + n
    <3>1. t[i] = back[i - Len(r) - n]
      BY <1>1, <1>2, <1>3, <2>3
    <3>2. (r \o s)[i] = s[i - Len(r)]
      BY <1>1, <1>2, <1>3, <2>3
    <3> DEFINE j == i - Len(r) - n
    <3>3. j \in 1..(Len(s) - n) /\ n + j = i - Len(r)
      BY <1>2, <1>3, <2>3
    <3> QED BY <1>1, <3>1, <3>2, <3>3
  <2> QED BY <1>1, <1>2, <1>3, <2>1, <2>2, <2>3
<1>4. t = r \o s
  <2> HIDE DEF t
  <2> QED BY <1>2, <1>3, SeqEqual
<1>5. r \o front \in Seq(S)
  BY <1>1
<1> QED BY <1>4, <1>5 DEF front, back

Pairs == Nat \X Nat

LEMMA BytesArePairs == Seq(Byte) \subseteq Seq(Pairs)
BY BoundAssumption DEF Byte, Pairs

\* What follows a byte, element by element.
LEMMA After ==
    ASSUME NEW b \in Pairs, NEW s \in Seq(Pairs)
    PROVE  LET t == <<b>> \o s IN
           /\ t \in Seq(Pairs) /\ Len(t) = Len(s) + 1
           /\ t[1] = b /\ \A i \in 1..Len(s) : t[i + 1] = s[i]
OBVIOUS

\* Reading takes bytes off the front and changes nothing behind them.
LEMMA ReadGoesOn ==
    ASSUME NEW b \in Pairs, NEW s \in Seq(Pairs), NEW n \in 1..Len(s), Contiguous(<<b>> \o s)
    PROVE  LET rest == SubSeq(s, n + 1, Len(s)) IN
           /\ Contiguous(<<s[n]>> \o rest)
           /\ LastByte(s[n], rest) = LastByte(b, s)
<1> DEFINE rest == SubSeq(s, n + 1, Len(s))
           t == <<b>> \o s
           u == <<s[n]>> \o rest
<1>1. rest \in Seq(Pairs) /\ Len(rest) = Len(s) - n /\ \A i \in 1..(Len(s) - n) : rest[i] = s[n + i]
  BY CutAnywhere
<1>2. s[n] \in Pairs
  OBVIOUS
<1> HIDE DEF rest
<1>3. /\ t \in Seq(Pairs) /\ Len(t) = Len(s) + 1
      /\ t[1] = b /\ \A i \in 1..Len(s) : t[i + 1] = s[i]
  BY After
<1>4. /\ u \in Seq(Pairs) /\ Len(u) = Len(rest) + 1
      /\ u[1] = s[n] /\ \A i \in 1..Len(rest) : u[i + 1] = rest[i]
  BY <1>1, <1>2, After
<1> HIDE DEF t, u
<1>5. ASSUME NEW i \in 1..Len(u) PROVE u[i] = t[n + i]
  <2>1. CASE i = 1
    BY <1>3, <1>4, <2>1
  <2>2. CASE i # 1
    <3> DEFINE j == i - 1
    <3>1. j \in 1..Len(rest) /\ i = j + 1
      BY <1>1, <1>4, <2>2
    <3>2. u[i] = rest[j] /\ rest[j] = s[n + j] /\ n + j \in 1..Len(s)
      BY <1>1, <1>4, <3>1
    <3>3. s[n + j] = t[n + j + 1] /\ n + j + 1 = n + i
      BY <1>3, <3>1, <3>2
    <3> QED BY <3>2, <3>3
  <2> QED BY <2>1, <2>2
<1>6. Contiguous(u)
  <2> SUFFICES ASSUME NEW i \in 2..Len(u)
               PROVE  \/ u[i] = <<u[i - 1][1], u[i - 1][2] + 1>>
                      \/ u[i][1] > u[i - 1][1] /\ u[i][2] = 1
    BY DEF Contiguous
  <2>1. u[i] = t[n + i] /\ u[i - 1] = t[n + i - 1] /\ n + i \in 2..Len(t)
    <3>1. i \in 1..Len(u) /\ i - 1 \in 1..Len(u) /\ n + i \in 2..Len(t)
      BY <1>1, <1>3, <1>4
    <3> QED BY <1>5, <3>1
  <2>2. Contiguous(t)
    BY DEF t
  <2> QED BY <2>1, <2>2 DEF Contiguous
<1>7. u[Len(rest) + 1] = t[Len(s) + 1]
  BY <1>1, <1>4, <1>5
<1> QED BY <1>6, <1>7 DEF LastByte, t, u, rest

LEMMA RunParts ==
    ASSUME NEW session \in Nat, NEW from \in Nat, NEW n \in Nat
    PROVE  LET t == Run(session, from, n) IN
           /\ t \in Seq(Pairs) /\ Len(t) = n
           /\ \A j \in 1..n : t[j] = <<session, from + j>>
BY DEF Run, Pairs

\* A run of bytes that starts where the others end goes on from them.
LEMMA ReceivingGoesOn ==
    ASSUME NEW b \in Pairs, NEW s \in Seq(Pairs), Contiguous(<<b>> \o s),
           NEW session \in Nat, LastByte(b, s)[1] <= session,
           NEW n \in Nat \ {0}
    PROVE  LET from == Received(b, s, session)
               all == s \o Run(session, from, n)
           IN  Contiguous(<<b>> \o all) /\ LastByte(b, all) = <<session, from + n>>
<1> DEFINE from == Received(b, s, session)
           r == Run(session, from, n)
           all == s \o r
           t == <<b>> \o s
           u == <<b>> \o all
<1>1. /\ t \in Seq(Pairs) /\ Len(t) = Len(s) + 1
      /\ t[1] = b /\ \A i \in 1..Len(s) : t[i + 1] = s[i]
  BY After
<1>2. LastByte(b, s) = t[Len(t)] /\ t[Len(t)] \in Pairs
  BY <1>1 DEF LastByte
<1>3. from \in Nat
  BY <1>2 DEF Received, Pairs
<1> HIDE DEF from, t
<1>4. r \in Seq(Pairs) /\ Len(r) = n /\ \A j \in 1..n : r[j] = <<session, from + j>>
  BY <1>3, RunParts
<1> HIDE DEF r
<1>5. all \in Seq(Pairs) /\ Len(all) = Len(s) + n
      /\ \A i \in 1..(Len(s) + n) : all[i] = IF i <= Len(s) THEN s[i] ELSE r[i - Len(s)]
  BY <1>4, ConcatProperties
<1> HIDE DEF all
<1>6. /\ u \in Seq(Pairs) /\ Len(u) = Len(all) + 1
      /\ u[1] = b /\ \A i \in 1..Len(all) : u[i + 1] = all[i]
  BY <1>5, After
<1> HIDE DEF u
<1>7. ASSUME NEW i \in 1..Len(t) PROVE u[i] = t[i]
  <2>1. CASE i = 1
    BY <1>1, <1>6, <2>1
  <2>2. CASE i # 1
    <3> DEFINE j == i - 1
    <3>1. j \in 1..Len(s) /\ j \in 1..Len(all) /\ i = j + 1
      BY <1>1, <1>5, <2>2
    <3>2. u[j + 1] = all[j] /\ all[j] = s[j] /\ t[j + 1] = s[j]
      BY <1>1, <1>5, <1>6, <3>1
    <3> QED BY <3>1, <3>2
  <2> QED BY <2>1, <2>2
<1>8. ASSUME NEW j \in 1..n PROVE u[Len(t) + j] = <<session, from + j>>
  <2>1. Len(s) + j \in 1..Len(all) /\ Len(t) + j = (Len(s) + j) + 1
        /\ ~(Len(s) + j <= Len(s)) /\ (Len(s) + j) - Len(s) = j
    BY <1>1, <1>5
  <2>2. u[(Len(s) + j) + 1] = all[Len(s) + j]
    BY <1>6, <2>1
  <2>3. all[Len(s) + j] = r[j]
    BY <1>5, <2>1
  <2> QED BY <1>4, <2>1, <2>2, <2>3
<1>9. Contiguous(u)
  <2> SUFFICES ASSUME NEW i \in 2..Len(u)
               PROVE  \/ u[i] = <<u[i - 1][1], u[i - 1][2] + 1>>
                      \/ u[i][1] > u[i - 1][1] /\ u[i][2] = 1
    BY DEF Contiguous
  <2>1. CASE i <= Len(t)
    <3>1. u[i] = t[i] /\ u[i - 1] = t[i - 1] /\ i \in 2..Len(t)
      <4>1. i \in 1..Len(t) /\ i - 1 \in 1..Len(t) /\ i \in 2..Len(t)
        BY <1>1, <2>1
      <4> QED BY <1>7, <4>1
    <3>2. Contiguous(t)
      BY DEF t
    <3> QED BY <3>1, <3>2 DEF Contiguous
  <2>2. CASE i = Len(t) + 1
    <3>1. u[i] = <<session, from + 1>>
      BY <1>8, <2>2
    <3>2. u[i - 1] = LastByte(b, s)
      BY <1>1, <1>2, <1>7, <2>2
    <3>3. CASE LastByte(b, s)[1] = session
      BY <1>2, <3>1, <3>2, <3>3 DEF from, Received, Pairs
    <3>4. CASE LastByte(b, s)[1] # session
      <4>1. from = 0
        BY <3>4 DEF from, Received
      <4>2. LastByte(b, s)[1] \in Nat
        BY <1>2 DEF Pairs
      <4>3. u[i] = <<session, 1>>
        BY <3>1, <4>1
      <4>4. u[i][1] = session /\ u[i][2] = 1 /\ u[i - 1][1] = LastByte(b, s)[1]
        BY <3>2, <4>3
      <4> QED BY <3>4, <4>2, <4>4
    <3> QED BY <3>3, <3>4
  <2>3. CASE i > Len(t) + 1
    <3> DEFINE j == i - Len(t)
    <3>1. j \in 1..n /\ j - 1 \in 1..n /\ i = Len(t) + j /\ i - 1 = Len(t) + (j - 1)
      BY <1>1, <1>5, <1>6, <2>3
    <3>2. u[Len(t) + j] = <<session, from + j>> /\ u[Len(t) + (j - 1)] = <<session, from + (j - 1)>>
      BY <1>8, <3>1
    <3>3. u[i] = <<session, from + j>> /\ u[i - 1] = <<session, from + (j - 1)>>
      BY <3>1, <3>2
    <3>4. from + (j - 1) + 1 = from + j
      BY <1>3, <3>1
    <3> QED BY <3>3, <3>4
  <2>4. i <= Len(t) \/ i = Len(t) + 1 \/ i > Len(t) + 1
    BY <1>1
  <2> QED BY <2>1, <2>2, <2>3, <2>4, Zenon
<1>10. LastByte(b, all) = <<session, from + n>>
  <2>1. u[Len(t) + n] = <<session, from + n>>
    <3>1. n \in 1..n
      OBVIOUS
    <3> QED BY <1>8, <3>1, Zenon
  <2>2. Len(t) + n = Len(all) + 1
    BY <1>1, <1>5
  <2> QED BY <2>1, <2>2 DEF LastByte, u
<1> QED BY <1>9, <1>10 DEF u, all, r, from

\* What lwIP holds back: nothing, one segment more, one segment less.
LEMMA NoSegments ==
    ASSUME NEW session, NEW n \in Nat
    PROVE  Segments(<<>>, session, n, n)
<1> DEFINE cut == [i \in 1..1 |-> n]
<1>1. cut \in [1..Len(<<>>) + 1 -> Nat] /\ cut[1] = n /\ cut[Len(<<>>) + 1] = n
  OBVIOUS
<1>2. \A i \in 1..Len(<<>>) : /\ cut[i] < cut[i + 1]
                              /\ <<>>[i] = Run(session, cut[i], cut[i + 1] - cut[i])
  BY NothingHeld
<1> HIDE DEF cut
<1> QED BY <1>1, <1>2, Zenon DEF Segments, CutAt

LEMMA SegmentAdded ==
    ASSUME NEW q \in Seq(Seq(Pairs)), NEW session \in Nat, NEW a \in Nat, NEW b \in Nat,
           Segments(q, session, a, b), NEW n \in Nat \ {0}
    PROVE  Segments(Append(q, Run(session, b, n)), session, a, b + n)
<1> DEFINE k == Len(q)
           p == Append(q, Run(session, b, n))
<1>1. PICK cut \in [1..k + 1 -> Nat] :
         /\ cut[1] = a /\ cut[k + 1] = b
         /\ \A i \in 1..k :
               /\ cut[i] < cut[i + 1]
               /\ q[i] = Run(session, cut[i], cut[i + 1] - cut[i])
  BY Zenon DEF Segments, CutAt
<1> DEFINE more == [i \in 1..(k + 1) + 1 |-> IF i = k + 2 THEN b + n ELSE cut[i]]
<1>2. k \in Nat
  OBVIOUS
<1>3. /\ Len(p) = k + 1 /\ p[k + 1] = Run(session, b, n)
      /\ \A i \in 1..k : p[i] = q[i]
  <2>1. Run(session, b, n) \in Seq(Pairs)
    BY RunParts
  <2> QED BY <2>1, AppendProperties
<1> HIDE DEF k, p
<1>4. more \in [1..(k + 1) + 1 -> Nat]
  BY <1>1, <1>2
<1>5. /\ \A i \in 1..k + 1 : more[i] = cut[i]
      /\ more[(k + 1) + 1] = b + n
  BY <1>2
<1> HIDE DEF more
<1>6. more[1] = a /\ more[(k + 1) + 1] = b + n /\ more[k + 1] = b
  BY <1>1, <1>2, <1>5
<1>7. ASSUME NEW i \in 1..k + 1
      PROVE  /\ more[i] < more[i + 1]
             /\ p[i] = Run(session, more[i], more[i + 1] - more[i])
  <2>1. CASE i \in 1..k
    <3>1. i \in 1..k + 1 /\ i + 1 \in 1..k + 1
      BY <1>2, <2>1
    <3>2. more[i] = cut[i] /\ more[i + 1] = cut[i + 1] /\ p[i] = q[i]
      BY <1>3, <1>5, <2>1, <3>1
    <3> QED BY <1>1, <2>1, <3>2
  <2>2. CASE i = k + 1
    <3>1. more[i] = b /\ more[i + 1] = b + n /\ p[i] = Run(session, b, n) /\ (b + n) - b = n
      BY <1>3, <1>6, <2>2
    <3>2. b < b + n
      OBVIOUS
    <3> QED BY <3>1, <3>2 DEF Run
  <2>3. i \in 1..k \/ i = k + 1
    BY <1>2
  <2> QED BY <2>1, <2>2, <2>3
<1>8. Segments(p, session, a, b + n)
  <2>1. CutAt(more, p, session, a, b + n)
    BY <1>3, <1>4, <1>6, <1>7, Zenon DEF CutAt
  <2> QED BY <2>1, Zenon DEF Segments
<1> QED BY <1>8 DEF p

LEMMA SegmentTaken ==
    ASSUME NEW q \in Seq(Seq(Pairs)), q # <<>>, NEW session \in Nat, NEW a \in Nat, NEW b \in Nat,
           Segments(q, session, a, b)
    PROVE  \E n \in Nat \ {0} : /\ Head(q) = Run(session, a, n)
                                /\ Segments(Tail(q), session, a + n, b)
<1> DEFINE k == Len(q)
           t == Tail(q)
<1>1. PICK cut \in [1..k + 1 -> Nat] :
         /\ cut[1] = a /\ cut[k + 1] = b
         /\ \A i \in 1..k :
               /\ cut[i] < cut[i + 1]
               /\ q[i] = Run(session, cut[i], cut[i + 1] - cut[i])
  BY Zenon DEF Segments, CutAt
<1>2. k \in Nat \ {0} /\ Head(q) = q[1]
  OBVIOUS
<1>3. Len(t) = k - 1 /\ \A i \in 1..k - 1 : t[i] = q[i + 1]
  BY HeadTailProperties
<1> HIDE DEF k, t
<1> DEFINE fewer == [i \in 1..(k - 1) + 1 |-> cut[i + 1]]
           n == cut[2] - cut[1]
<1>4. 1 \in 1..k /\ 2 \in 1..k + 1 /\ 1 \in 1..k + 1 /\ (k - 1) + 1 = k
  BY <1>2
<1>5. cut[1] < cut[1 + 1] /\ q[1] = Run(session, cut[1], cut[1 + 1] - cut[1])
  BY <1>1, <1>4
<1>6. n \in Nat \ {0} /\ a + n = cut[2]
  <2>1. cut[1] \in Nat /\ cut[2] \in Nat /\ cut[1] = a
    BY <1>1, <1>4, Zenon
  <2>2. cut[1] < cut[2]
    BY <1>5
  <2> QED BY <2>1, <2>2
<1>7. Head(q) = Run(session, a, n)
  BY <1>1, <1>2, <1>5 DEF Run
<1>8. fewer \in [1..(k - 1) + 1 -> Nat]
  <2>1. \A i \in 1..(k - 1) + 1 : i + 1 \in 1..k + 1
    BY <1>2
  <2> QED BY <1>1, <2>1
<1>9. \A i \in 1..k : fewer[i] = cut[i + 1]
  BY <1>4
<1> HIDE DEF fewer, n
<1>10. fewer[1] = a + n /\ fewer[(k - 1) + 1] = b
  BY <1>1, <1>2, <1>4, <1>6, <1>9
<1>11. ASSUME NEW i \in 1..k - 1
       PROVE  /\ fewer[i] < fewer[i + 1]
              /\ t[i] = Run(session, fewer[i], fewer[i + 1] - fewer[i])
  <2>1. i \in 1..k /\ i + 1 \in 1..k
    BY <1>2
  <2>2. fewer[i] = cut[i + 1] /\ fewer[i + 1] = cut[(i + 1) + 1] /\ t[i] = q[i + 1]
    BY <1>3, <1>9, <2>1
  <2>3. /\ cut[i + 1] < cut[(i + 1) + 1]
        /\ q[i + 1] = Run(session, cut[i + 1], cut[(i + 1) + 1] - cut[i + 1])
    BY <1>1, <2>1
  <2> QED BY <2>2, <2>3
<1>12. Segments(t, session, a + n, b)
  <2>1. CutAt(fewer, t, session, a + n, b)
    BY <1>3, <1>8, <1>10, <1>11, Zenon DEF CutAt
  <2> QED BY <2>1, Zenon DEF Segments
<1> QED BY <1>6, <1>7, <1>12 DEF t

LEMMA FromTheFirst ==
    ASSUME NEW session, NEW n \in Nat
    PROVE  Run(session, 0, n) = [i \in 1..n |-> <<session, i>>]
<1>1. \A i \in 1..n : 0 + i = i
  OBVIOUS
<1> QED BY <1>1 DEF Run

LEMMA SegmentsArePairs == Seq(Seq(Byte)) \subseteq Seq(Seq(Pairs))
BY BytesArePairs

LEMMA RunIsBytes ==
    ASSUME NEW session \in 1..MaxSessions, NEW from \in Nat, NEW n \in Nat,
           from + n <= MaxInput + MaxOutput
    PROVE  Run(session, from, n) \in Seq(Byte)
<1>1. \A j \in 1..n : <<session, from + j>> \in Byte
  BY BoundAssumption DEF Byte
<1> QED BY <1>1 DEF Run

-----------------------------------------------------------------------------
(***************************************************************************)
(* While a connection is up.                                               *)
(***************************************************************************)
\* The stream of a connected client: it is up unless its buffers were refused.
Attached(c) == /\ c.streamUp <=> c.ready
               /\ ~c.ready => c.incoming = <<>> /\ c.outgoing = <<>>

\* A connected client and its block may change as follows and stay sound.
LEMMA StillUp ==
    ASSUME NEW w, Sound(w), Live(w.client),
           NEW c \in Clients, c.state = "connected", c.pcb = w.client.pcb, c.initialised,
           Attached(c), c.sessions = w.client.sessions,
           Len(c.incoming) <= RxCapacity, Len(c.outgoing) <= TxCapacity,
           NEW g \in Logs, g.wanted, g.session = w.log.session,
           g.reported = w.log.reported, g.ended = w.log.ended,
           NEW b \in Blocks, b.mine, b.status = "open", b.session = w.log.session,
           b.wire \o c.outgoing = Run(b.session, 0, g.written),
           Contiguous(<<g.read>> \o c.incoming), g.read[1] <= g.session,
           \A i \in 1..Len(c.incoming) : c.incoming[i][1] = b.session,
           Segments(b.toClient, b.session, Received(g.read, c.incoming, b.session), b.sent),
           NEW x, x = Made(c, [w.net EXCEPT ![w.client.pcb] = b], w.lookups, g)
    PROVE  Sound(x)
<1> DEFINE p == w.client.pcb
           m == [w.net EXCEPT ![p] = b]
<1>1. /\ w \in Worlds /\ OwnsItsBlock(w) /\ w.client \in Clients
      /\ w.net \in [Pcbs -> Blocks] /\ w.lookups = 0
  BY SoundParts DEF Live
<1>2. p \in Pcbs
  BY <1>1 DEF Live, Clients
<1>3. w.log.session # 0
  BY DEF Sound, OutputAddsUp
<1>4. m \in [Pcbs -> Blocks] /\ m[p] = b /\ \A q \in Pcbs : q # p => m[q] = w.net[q]
  BY <1>1, <1>2
<1> HIDE DEF m
<1>5. x \in Worlds /\ x.client = c /\ x.net = m /\ x.lookups = 0 /\ x.log = g
  BY <1>1, <1>4, WorldParts, MadeParts DEF m
<1> HIDE DEF p
<1>6. x.client.pcb = p /\ x.net[x.client.pcb] = b
  BY <1>4, <1>5 DEF p
<1>7. OwnsItsBlock(x)
  <2> SUFFICES ASSUME NEW q \in Pcbs
               PROVE  /\ x.net[q].mine <=> q = x.client.pcb
                      /\ x.net[q].status \in {"connecting", "open"} => q = x.client.pcb
    BY DEF OwnsItsBlock
  <2>1. CASE q = p
    BY <1>4, <1>5, <1>6, <2>1
  <2>2. CASE q # p
    BY <1>1, <1>4, <1>5, <1>6, <2>2 DEF OwnsItsBlock, p
  <2> QED BY <2>1, <2>2
<1>8. BlockFollowsState(x) /\ WaitsForWhatItAsked(x)
  BY <1>2, <1>5, <1>6, PcbAssumption DEF BlockFollowsState, WaitsForWhatItAsked
<1>9. LossesAreCounted(x)
  <2>1. Losses(x) = Losses(w) /\ Up(x) = Up(w)
    BY <1>5 DEF Losses, Up, Live
  <2> QED BY <1>5, <2>1 DEF Sound, LossesAreCounted
<1>10. StreamFollowsState(x)
  BY <1>5 DEF StreamFollowsState, Attached, Drained
<1>11. OutputAddsUp(x)
  <2>1. x.net[x.client.pcb] = b /\ x.client.outgoing = c.outgoing /\ x.log = g
    BY <1>5, <1>6
  <2> QED BY <1>3, <2>1 DEF OutputAddsUp
<1>12. InputSoFar(x)
  <2>1. b.session = g.session /\ g.session \in Nat /\ g.session <= g.session
    BY DEF Logs
  <2>2. \A i \in 1..Len(c.incoming) : c.incoming[i][1] <= g.session
    BY <2>1
  <2> QED BY <1>5, <2>2 DEF InputSoFar
<1>13. InputGoesOn(x)
  BY <1>5, <1>6 DEF InputGoesOn
<1> QED BY <1>5, <1>7, <1>8, <1>9, <1>10, <1>11, <1>12, <1>13 DEF Sound

\* What a connected client is.
LEMMA UpParts ==
    ASSUME NEW w, Sound(w), Live(w.client)
    PROVE  LET c == w.client
               b == w.net[c.pcb]
               g == w.log
           IN  /\ w \in Worlds /\ c \in Clients /\ g \in Logs /\ w.net \in [Pcbs -> Blocks]
               /\ c.pcb \in Pcbs /\ b \in Blocks
               /\ c.initialised /\ Attached(c) /\ g.wanted
               /\ Len(c.incoming) <= RxCapacity /\ Len(c.outgoing) <= TxCapacity
               /\ b.mine /\ b.status = "open" /\ b.session = g.session
               /\ b.session \in 1..MaxSessions
               /\ b.wire \o c.outgoing = Run(b.session, 0, g.written)
               /\ Contiguous(<<g.read>> \o c.incoming) /\ g.read[1] <= g.session
               /\ \A i \in 1..Len(c.incoming) : c.incoming[i][1] = b.session
               /\ Segments(b.toClient, b.session, Received(g.read, c.incoming, b.session),
                           b.sent)
<1> DEFINE c == w.client
           b == w.net[c.pcb]
           g == w.log
<1>1. /\ w \in Worlds /\ OwnsItsBlock(w) /\ c \in Clients /\ g \in Logs
      /\ w.net \in [Pcbs -> Blocks] /\ g.wanted /\ c.initialised
  BY SoundParts DEF Live
<1>2. c.pcb \in Pcbs
  BY <1>1 DEF Live, Clients
<1>3. b \in Blocks /\ b.mine
  BY <1>1, <1>2 DEF OwnsItsBlock
<1>4. b.status = "open" /\ Attached(c) /\ Len(c.incoming) <= RxCapacity /\ Len(c.outgoing) <= TxCapacity
  BY DEF Sound, BlockFollowsState, StreamFollowsState, Live, Attached, Drained
<1>5. /\ b.session = g.session /\ b.session # 0
      /\ b.wire \o c.outgoing = Run(b.session, 0, g.written)
  BY DEF Sound, OutputAddsUp
<1>6. b.session \in 1..MaxSessions
  BY <1>3, <1>5, BoundAssumption DEF Blocks
<1>7. Contiguous(<<g.read>> \o c.incoming) /\ g.read[1] <= g.session
  BY DEF Sound, InputSoFar
<1>8. /\ \A i \in 1..Len(c.incoming) : c.incoming[i][1] = b.session
      /\ Segments(b.toClient, b.session, Received(g.read, c.incoming, b.session), b.sent)
  BY DEF Sound, InputGoesOn
<1> QED BY <1>1, <1>2, <1>3, <1>4, <1>5, <1>6, <1>7, <1>8

\* A stream that is up is that of a connection.
LEMMA StreamIsLive ==
    ASSUME NEW w, Sound(w), w.client.streamUp
    PROVE  Live(w.client) /\ w.client.ready
BY DEF Sound, StreamFollowsState, BlockFollowsState, Live

\* Changes to the client and to its block, field by field.
LEMMA OutgoingReplaced ==
    ASSUME NEW c \in Clients, NEW s \in Seq(Byte)
    PROVE  LET d == [c EXCEPT !.outgoing = s] IN
           /\ d \in Clients /\ d.outgoing = s /\ d.incoming = c.incoming
           /\ d.state = c.state /\ d.pcb = c.pcb /\ d.sessions = c.sessions
           /\ (d.initialised <=> c.initialised) /\ (d.streamUp <=> c.streamUp)
           /\ (d.ready <=> c.ready)
BY DEF Clients

LEMMA IncomingReplaced ==
    ASSUME NEW c \in Clients, NEW s \in Seq(Byte), NEW d, d = [c EXCEPT !.incoming = s]
    PROVE
           /\ d \in Clients /\ d.incoming = s /\ d.outgoing = c.outgoing
           /\ d.state = c.state /\ d.pcb = c.pcb /\ d.sessions = c.sessions
           /\ (d.initialised <=> c.initialised) /\ (d.streamUp <=> c.streamUp)
           /\ (d.ready <=> c.ready)
BY DEF Clients

Rewired(b, s, k) == [b EXCEPT !.wire = s, !.unacked = k]

LEMMA WireReplaced ==
    ASSUME NEW b \in Blocks, NEW s \in Seq(Byte), NEW k \in 0..SndBuf
    PROVE  LET d == Rewired(b, s, k) IN
           /\ d \in Blocks /\ d.wire = s /\ (d.mine <=> b.mine) /\ d.status = b.status
           /\ d.session = b.session /\ d.toClient = b.toClient /\ d.sent = b.sent
BY DEF Blocks, Rewired

\* A new client and a new block for it.
With(w, d, p, b) == [w EXCEPT !.client = d, !.net[p] = b]

LEMMA BothReplaced ==
    ASSUME NEW w \in Worlds, NEW d \in Clients, NEW p, NEW b
    PROVE  With(w, d, p, b) = Made(d, [w.net EXCEPT ![p] = b], w.lookups, w.log)
<1> DEFINE v == [w EXCEPT !.client = d]
           x == With(w, d, p, b)
<1>1. x = [v EXCEPT !.net = [v.net EXCEPT ![p] = b]]
  BY DEF With
<1> HIDE DEF x
<1>2. v = Made(d, w.net, w.lookups, w.log)
  BY Replaced
<1> HIDE DEF v
<1>3. v \in Worlds /\ v.client = d /\ v.net = w.net /\ v.lookups = w.lookups /\ v.log = w.log
  BY <1>2, WorldParts, MadeParts
<1>4. x = Made(d, [w.net EXCEPT ![p] = b], w.lookups, w.log)
  BY <1>1, <1>3, Replaced
<1> QED BY <1>4 DEF x

\* tcp_stream_flush: the first n bytes go to lwIP, the others stay.
LEMMA HandedIsSound ==
    ASSUME NEW w, Sound(w), w.client.streamUp,
           NEW n \in 0..Len(w.client.outgoing),
           n <= SndBuf - w.net[w.client.pcb].unacked
    PROVE  Sound(Handed(w, n))
<1> DEFINE c == w.client
           b == w.net[c.pcb]
           front == SubSeq(c.outgoing, 1, n)
           back == SubSeq(c.outgoing, n + 1, Len(c.outgoing))
           wire == b.wire \o front
           k == b.unacked + n
           d == [c EXCEPT !.outgoing = back]
           sent == [b EXCEPT !.wire = wire, !.unacked = k]
           x == Handed(w, n)
<1>1. /\ w \in Worlds /\ c \in Clients /\ w.log \in Logs /\ w.net \in [Pcbs -> Blocks]
      /\ c.pcb \in Pcbs /\ b \in Blocks
      /\ c.initialised /\ c.streamUp /\ c.ready /\ w.log.wanted
      /\ Len(c.incoming) <= RxCapacity /\ Len(c.outgoing) <= TxCapacity
      /\ b.mine /\ b.status = "open" /\ b.session = w.log.session
      /\ b.wire \o c.outgoing = Run(b.session, 0, w.log.written)
      /\ Contiguous(<<w.log.read>> \o c.incoming) /\ w.log.read[1] <= w.log.session
      /\ \A i \in 1..Len(c.incoming) : c.incoming[i][1] = b.session
      /\ Segments(b.toClient, b.session, Received(w.log.read, c.incoming, b.session), b.sent)
  BY UpParts, StreamIsLive
<1>2. /\ n \in 0..Len(c.outgoing) /\ n <= SndBuf - b.unacked /\ c.state = "connected"
      /\ x = With(w, d, c.pcb, sent)
  BY StreamIsLive DEF Handed, With, Live
<1> HIDE DEF x, b
<1>3. b.wire \in Seq(Byte) /\ b.unacked \in 0..SndBuf
  BY <1>1 DEF Blocks
<1>4. c.outgoing \in Seq(Byte)
  BY <1>1 DEF Clients
<1> HIDE DEF c
<1>5. back \in Seq(Byte) /\ Len(back) <= TxCapacity
  <2>1. back \in Seq(Byte) /\ Len(back) = Len(c.outgoing) - n
    BY <1>2, <1>4, CutAnywhere
  <2> HIDE DEF back
  <2> QED BY <1>1, <1>2, <1>4, <2>1, SizeAssumption
<1>6. wire \in Seq(Byte) /\ wire \o back = b.wire \o c.outgoing
  BY <1>2, <1>3, <1>4, Rejoined
<1>7. k \in 0..SndBuf
  BY <1>2, <1>3, <1>4, SizeAssumption
<1> HIDE DEF front, back, wire, k
<1>8. /\ d \in Clients /\ d.outgoing = back /\ d.incoming = c.incoming
      /\ d.state = c.state /\ d.pcb = c.pcb /\ d.sessions = c.sessions
      /\ d.initialised /\ Attached(d)
  BY <1>1, <1>5, OutgoingReplaced DEF Attached
<1>9. /\ sent \in Blocks /\ sent.wire = wire /\ sent.mine /\ sent.status = "open"
      /\ sent.session = b.session /\ sent.toClient = b.toClient /\ sent.sent = b.sent
  <2>1. b \in Blocks /\ wire \in Seq(Byte) /\ k \in 0..SndBuf
    BY <1>1, <1>6, <1>7
  <2>2. sent = Rewired(b, wire, k)
    BY DEF Rewired
  <2> HIDE DEF sent
  <2>3. /\ sent \in Blocks /\ sent.wire = wire /\ (sent.mine <=> b.mine) /\ sent.status = b.status
        /\ sent.session = b.session /\ sent.toClient = b.toClient /\ sent.sent = b.sent
    BY <2>1, <2>2, WireReplaced
  <2> QED BY <1>1, <2>3
<1> HIDE DEF d, sent
<1>10. x = Made(d, [w.net EXCEPT ![c.pcb] = sent], w.lookups, w.log)
  BY <1>1, <1>2, <1>8, BothReplaced
<1>11. sent.wire \o d.outgoing = Run(sent.session, 0, w.log.written)
  BY <1>1, <1>6, <1>8, <1>9
<1>12. Sound(x)
  <2>1. x = Made(d, [w.net EXCEPT ![w.client.pcb] = sent], w.lookups, w.log)
    BY <1>10 DEF c
  <2>2. /\ Live(w.client) /\ d.pcb = w.client.pcb
        /\ d.sessions = w.client.sessions
    BY <1>8, StreamIsLive DEF c
  <2> QED BY <1>1, <1>2, <1>5, <1>8, <1>9, <1>11, <2>1, <2>2, StillUp, Zenon
<1> QED BY <1>12 DEF x

LEMMA LeastParts ==
    ASSUME NEW m \in Nat, NEW n \in Nat
    PROVE  /\ Least(m, n) \in Nat /\ Least(m, n) <= m /\ Least(m, n) <= n
           /\ 0 < m /\ 0 < n => 0 < Least(m, n)
BY DEF Least

LEMMA PumpIsSound ==
    ASSUME NEW w, Sound(w), NEW x \in Pump(w)
    PROVE  Sound(x)
<1> DEFINE c == w.client
           full == Least(SndBuf - w.net[c.pcb].unacked, Len(c.outgoing))
<1>1. CASE x = w
  BY <1>1
<1>2. CASE c.streamUp /\ \E n \in Flushed(full) : x = Handed(w, n)
  <2>1. PICK n \in Flushed(full) : x = Handed(w, n)
    BY <1>2
  <2>2. /\ SndBuf - w.net[c.pcb].unacked \in Nat /\ Len(c.outgoing) \in Nat
    <3>1. c \in Clients /\ w.net[c.pcb] \in Blocks
      BY <1>2, UpParts, StreamIsLive
    <3>2. w.net[c.pcb].unacked \in 0..SndBuf /\ c.outgoing \in Seq(Byte)
      BY <3>1 DEF Clients, Blocks
    <3> QED BY <3>2, SizeAssumption
  <2>3. /\ full \in Nat /\ full <= SndBuf - w.net[c.pcb].unacked
        /\ full <= Len(c.outgoing)
    <3> HIDE DEF c
    <3> QED BY <2>2 DEF Least
  <2>4. n \in 0..full
    BY <2>1, <2>3 DEF Flushed
  <2>5. n \in 0..Len(c.outgoing) /\ n <= SndBuf - w.net[c.pcb].unacked
    <3> HIDE DEF c, full
    <3> QED BY <2>2, <2>3, <2>4
  <2> QED BY <1>2, <2>1, <2>5, HandedIsSound
<1>3. x = w \/ (c.streamUp /\ \E n \in Flushed(full) : x = Handed(w, n))
  BY Zenon DEF Pump
<1> QED BY <1>1, <1>2, <1>3

LEMMA WrittenReplaced ==
    ASSUME NEW g \in Logs, NEW n \in 0..MaxOutput
    PROVE  LET h == [g EXCEPT !.written = n] IN
           /\ h \in Logs /\ h.written = n /\ (h.wanted <=> g.wanted) /\ h.session = g.session
           /\ h.read = g.read /\ h.reported = g.reported /\ h.ended = g.ended
BY DEF Logs

\* A longer run of a session's bytes is a run of them and the rest.
Joined(session, m, n) == Run(session, 0, m) \o Run(session, m, n) = Run(session, 0, m + n)

LEMMA RunGoesOn ==
    ASSUME NEW session \in Nat, NEW m \in Nat, NEW n \in Nat
    PROVE  Joined(session, m, n)
<1> DEFINE r == Run(session, 0, m)
           s == Run(session, m, n)
           t == Run(session, 0, m + n)
<1>1. /\ r \in Seq(Pairs) /\ Len(r) = m /\ \A j \in 1..m : r[j] = <<session, 0 + j>>
      /\ s \in Seq(Pairs) /\ Len(s) = n /\ \A j \in 1..n : s[j] = <<session, m + j>>
      /\ t \in Seq(Pairs) /\ Len(t) = m + n
      /\ \A j \in 1..(m + n) : t[j] = <<session, 0 + j>>
  <2>1. 0 \in Nat /\ m + n \in Nat
    OBVIOUS
  <2> QED BY <2>1, RunParts, Zenon
<1> HIDE DEF r, s, t
<1>2. /\ r \o s \in Seq(Pairs) /\ Len(r \o s) = m + n
      /\ \A i \in 1..(m + n) : (r \o s)[i] = IF i <= m THEN r[i] ELSE s[i - m]
  BY <1>1, ConcatProperties
<1> DEFINE u == r \o s
<1> HIDE DEF u
<1>3. ASSUME NEW i \in 1..(m + n) PROVE u[i] = t[i]
  <2>1. CASE i <= m
    <3>1. i \in 1..m
      BY <2>1
    <3>2. u[i] = r[i]
      BY <1>2, <2>1 DEF u
    <3> QED BY <1>1, <3>1, <3>2
  <2>2. CASE ~(i <= m)
    <3> DEFINE j == i - m
    <3>1. j \in 1..n /\ m + j = 0 + i
      BY <2>2
    <3>2. u[i] = s[j]
      BY <1>2, <2>2 DEF u
    <3> QED BY <1>1, <3>1, <3>2
  <2> QED BY <2>1, <2>2
<1>4. u = t
  BY <1>1, <1>2, <1>3, SeqEqual DEF u
<1> QED BY <1>4 DEF u, r, s, t, Joined

\* The world with another client and another log.
WithLog(w, d, g) == [w EXCEPT !.client = d, !.log = g]

LEMMA ClientAndLogReplaced ==
    ASSUME NEW w \in Worlds, NEW d \in Clients, NEW g
    PROVE  WithLog(w, d, g) = Made(d, w.net, w.lookups, g)
<1> DEFINE v == [w EXCEPT !.client = d]
           x == WithLog(w, d, g)
<1>1. x = [v EXCEPT !.log = g]
  BY DEF WithLog
<1> HIDE DEF x
<1>2. v = Made(d, w.net, w.lookups, w.log)
  BY Replaced
<1> HIDE DEF v
<1>3. v \in Worlds /\ v.client = d /\ v.net = w.net /\ v.lookups = w.lookups
  BY <1>2, WorldParts, MadeParts
<1>4. x = Made(v.client, v.net, v.lookups, g)
  BY <1>1, <1>3, Replaced
<1> QED BY <1>3, <1>4 DEF x

LEMMA SameBlock ==
    ASSUME NEW m \in [Pcbs -> Blocks], NEW p \in Pcbs
    PROVE  [m EXCEPT ![p] = m[p]] = m
OBVIOUS

\* tcp_stream_write: n more bytes in the ring.
LEMMA BufferedIsSound ==
    ASSUME NEW w, Sound(w), w.client.streamUp, NEW n \in Nat,
           n <= TxCapacity - Len(w.client.outgoing), w.log.written + n <= MaxOutput
    PROVE  Sound(Buffered(w, n))
<1> DEFINE c == w.client
           b == w.net[c.pcb]
           more == Run(w.log.session, w.log.written, n)
           all == c.outgoing \o more
           k == w.log.written + n
           d == [c EXCEPT !.outgoing = all]
           g == [w.log EXCEPT !.written = k]
           x == Buffered(w, n)
<1>1. /\ w \in Worlds /\ c \in Clients /\ w.log \in Logs /\ w.net \in [Pcbs -> Blocks]
      /\ c.pcb \in Pcbs /\ b \in Blocks
      /\ c.initialised /\ c.streamUp /\ c.ready /\ w.log.wanted
      /\ Len(c.incoming) <= RxCapacity /\ Len(c.outgoing) <= TxCapacity
      /\ b.mine /\ b.status = "open" /\ b.session = w.log.session
      /\ b.session \in 1..MaxSessions
      /\ b.wire \o c.outgoing = Run(b.session, 0, w.log.written)
      /\ Contiguous(<<w.log.read>> \o c.incoming) /\ w.log.read[1] <= w.log.session
      /\ \A i \in 1..Len(c.incoming) : c.incoming[i][1] = b.session
      /\ Segments(b.toClient, b.session, Received(w.log.read, c.incoming, b.session), b.sent)
  BY UpParts, StreamIsLive
<1>2. /\ n <= TxCapacity - Len(c.outgoing) /\ c.state = "connected"
      /\ x = WithLog(w, d, g)
  BY StreamIsLive DEF Buffered, WithLog, Run, Live
<1> HIDE DEF x, b
<1>3. b.wire \in Seq(Byte) /\ w.log.written \in 0..MaxOutput
  BY <1>1 DEF Blocks, Logs
<1>4. c.outgoing \in Seq(Byte)
  BY <1>1 DEF Clients
<1> HIDE DEF c
<1>5. k \in 0..MaxOutput /\ k <= MaxInput + MaxOutput /\ w.log.session \in 1..MaxSessions
  BY <1>1, <1>3, BoundAssumption
<1>6. more \in Seq(Byte)
  BY <1>3, <1>5, RunIsBytes
<1>7. Len(more) = n /\ w.log.session \in Nat
  <2>1. w.log.session \in Nat /\ w.log.written \in Nat
    BY <1>3, <1>5, BoundAssumption
  <2> QED BY <2>1, RunParts, Zenon
<1> HIDE DEF more
<1>8. all \in Seq(Byte) /\ Len(all) <= TxCapacity
  <2>1. all \in Seq(Byte) /\ Len(all) = Len(c.outgoing) + n
    BY <1>4, <1>6, <1>7, ConcatProperties
  <2> HIDE DEF all
  <2> QED BY <1>2, <1>4, <2>1, SizeAssumption
<1>9. b.wire \o all = Run(b.session, 0, k)
  <2>1. (b.wire \o c.outgoing) \o more = b.wire \o (c.outgoing \o more)
    <3>1. \A r, s, t \in Seq(Byte) : (r \o s) \o t = r \o (s \o t)
      BY ConcatAssociative
    <3> QED BY <1>3, <1>4, <1>6, <3>1
  <2>2. w.log.written \in Nat
    BY <1>3
  <2>3. Joined(w.log.session, w.log.written, n)
    BY <1>7, <2>2, RunGoesOn
  <2> QED BY <1>1, <2>1, <2>3 DEF more, Joined
<1> HIDE DEF all, k
<1>10. /\ d \in Clients /\ d.outgoing = all /\ d.incoming = c.incoming
       /\ d.state = c.state /\ d.pcb = c.pcb /\ d.sessions = c.sessions
       /\ d.initialised /\ Attached(d)
  BY <1>1, <1>8, OutgoingReplaced DEF Attached
<1>11. /\ g \in Logs /\ g.written = k /\ g.wanted /\ g.session = w.log.session
       /\ g.read = w.log.read /\ g.reported = w.log.reported /\ g.ended = w.log.ended
  BY <1>1, <1>5, WrittenReplaced
<1> HIDE DEF d, g
<1>12. x = Made(d, [w.net EXCEPT ![c.pcb] = b], w.lookups, g)
  BY <1>1, <1>2, <1>10, ClientAndLogReplaced, SameBlock DEF b
<1>13. Sound(x)
  <2>1. x = Made(d, [w.net EXCEPT ![w.client.pcb] = b], w.lookups, g)
    BY <1>12 DEF c
  <2>2. /\ Live(w.client) /\ d.pcb = w.client.pcb
        /\ d.sessions = w.client.sessions
    BY <1>10, StreamIsLive DEF c
  <2> QED BY <1>1, <1>2, <1>8, <1>9, <1>10, <1>11, <2>1, <2>2, StillUp
<1> QED BY <1>13 DEF x

LEMMA WriteIsSound ==
    ASSUME NEW w, Sound(w), NEW length \in Nat, w.log.written + length <= MaxOutput,
           NEW x \in WriteBytes(w, length)
    PROVE  Sound(x)
<1> DEFINE c == w.client
           room == TxCapacity - Len(c.outgoing)
           taken == IF c.streamUp THEN Least(length, room) ELSE 0
<1>1. CASE x = w
  BY <1>1
<1>2. CASE taken > 0 /\ x \in Pump(Buffered(w, taken))
  <2>1. c.streamUp
    BY <1>2
  <2>2. Live(c)
    BY <2>1, StreamIsLive
  <2>3. Len(c.outgoing) <= TxCapacity /\ Len(c.outgoing) \in Nat /\ w.log.written \in Nat
    <3>1. c \in Clients /\ w.log \in Logs /\ Len(c.outgoing) <= TxCapacity
      BY <2>2, UpParts
    <3>2. c.outgoing \in Seq(Byte) /\ w.log.written \in 0..MaxOutput
      BY <3>1 DEF Clients, Logs
    <3> QED BY <3>1, <3>2
  <2>4. taken = Least(length, room)
    BY <2>1
  <2> HIDE DEF c, taken
  <2>5. taken \in Nat /\ taken <= room /\ taken <= length
    <3>1. room \in Nat
      BY <2>3, SizeAssumption
    <3> HIDE DEF room
    <3> QED BY <2>4, <3>1, LeastParts
  <2>6. w.log.written + taken <= MaxOutput
    <3>1. \A i, j, k \in Nat : j <= k /\ i + k <= MaxOutput => i + j <= MaxOutput
      BY BoundAssumption
    <3> QED BY <2>3, <2>5, <3>1, Zenon
  <2>7. Sound(Buffered(w, taken))
    BY <2>1, <2>5, <2>6, BufferedIsSound DEF c
  <2> QED BY <1>2, <2>7, PumpIsSound
<1>3. x = w \/ (taken > 0 /\ x \in Pump(Buffered(w, taken)))
  BY Zenon DEF WriteBytes
<1> QED BY <1>1, <1>2, <1>3

\* A change to the block of a connected client that leaves its output alone.
LEMMA BlockChanged ==
    ASSUME NEW w, Sound(w), Live(w.client),
           NEW b \in Blocks, b.mine, b.status = "open",
           b.session = w.net[w.client.pcb].session, b.wire = w.net[w.client.pcb].wire,
           Segments(b.toClient, b.session,
                    Received(w.log.read, w.client.incoming, b.session), b.sent)
    PROVE  Sound(Made(w.client, [w.net EXCEPT ![w.client.pcb] = b], w.lookups, w.log))
<1> DEFINE c == w.client
           old == w.net[c.pcb]
           x == Made(c, [w.net EXCEPT ![c.pcb] = b], w.lookups, w.log)
<1>1. /\ c \in Clients /\ w.log \in Logs
      /\ c.initialised /\ Attached(c) /\ w.log.wanted
      /\ Len(c.incoming) <= RxCapacity /\ Len(c.outgoing) <= TxCapacity
      /\ old.session = w.log.session
      /\ old.wire \o c.outgoing = Run(old.session, 0, w.log.written)
      /\ Contiguous(<<w.log.read>> \o c.incoming) /\ w.log.read[1] <= w.log.session
      /\ \A i \in 1..Len(c.incoming) : c.incoming[i][1] = old.session
  BY UpParts
<1>2. /\ c.state = "connected" /\ b.session = old.session /\ b.wire = old.wire
      /\ Segments(b.toClient, b.session, Received(w.log.read, c.incoming, b.session), b.sent)
  BY DEF Live
<1> HIDE DEF old
<1>3. /\ b.session = w.log.session
      /\ b.wire \o c.outgoing = Run(b.session, 0, w.log.written)
      /\ \A i \in 1..Len(c.incoming) : c.incoming[i][1] = b.session
  BY <1>1, <1>2
<1> HIDE DEF x
<1>4. x = Made(c, [w.net EXCEPT ![c.pcb] = b], w.lookups, w.log)
  BY DEF x
<1>5. Sound(x)
  BY <1>1, <1>2, <1>3, <1>4, StillUp
<1> QED BY <1>5 DEF x

\* The block p calls the client back and is open: a connection is up, and p is
\* the block of it.
LEMMA OpenIsUp ==
    ASSUME NEW w, Sound(w), NEW p \in Pcbs, w.net[p].status = "open"
    PROVE  Live(w.client) /\ w.client.pcb = p
<1>1. w.client.pcb = p
  BY DEF Sound, OwnsItsBlock
<1>2. w.client.state \in {"connecting", "connected"}
  BY <1>1, SoundParts, PcbAssumption
<1> QED BY <1>1, <1>2, PcbAssumption DEF Sound, BlockFollowsState, Fresh, Live

LEMMA SentIsSound ==
    ASSUME NEW w, Sound(w), NEW p \in Pcbs, w.net[p].status = "open",
           NEW count \in 1..w.net[p].unacked
    PROVE  Sound([w EXCEPT !.net[p].unacked = @ - count])
<1> DEFINE old == w.net[p]
           k == old.unacked - count
           b == [old EXCEPT !.unacked = k]
           m == [w.net EXCEPT ![p] = b]
           x == [w EXCEPT !.net[p].unacked = @ - count]
<1>1. Live(w.client) /\ w.client.pcb = p
  BY OpenIsUp
<1>2. /\ w \in Worlds /\ old \in Blocks /\ old.mine /\ old.status = "open"
      /\ Segments(old.toClient, old.session,
                  Received(w.log.read, w.client.incoming, old.session), old.sent)
  BY <1>1, UpParts
<1>3. old.unacked \in 0..SndBuf
  BY <1>2 DEF Blocks
<1>4. x = [w EXCEPT !.net = m]
  OBVIOUS
<1>5. count \in 1..old.unacked
  OBVIOUS
<1> HIDE DEF x, old
<1>6. k \in 0..SndBuf
  BY <1>3, <1>5, SizeAssumption
<1> HIDE DEF k
<1>7. /\ b \in Blocks /\ b.mine /\ b.status = "open" /\ b.session = old.session
      /\ b.wire = old.wire /\ b.toClient = old.toClient /\ b.sent = old.sent
  BY <1>2, <1>6 DEF Blocks
<1> HIDE DEF b
<1>8. x = Made(w.client, m, w.lookups, w.log)
  BY <1>2, <1>4, Replaced
<1>9. Sound(Made(w.client, [w.net EXCEPT ![w.client.pcb] = b], w.lookups, w.log))
  BY <1>1, <1>2, <1>7, BlockChanged DEF old
<1> QED BY <1>1, <1>8, <1>9 DEF x

LEMMA PeerCloseIsSound ==
    ASSUME NEW w, Sound(w), NEW p \in Pcbs, w.net[p].status = "open"
    PROVE  Sound(Made(w.client, [w.net EXCEPT ![p].fin = TRUE], w.lookups, w.log))
<1> DEFINE old == w.net[p]
           b == [old EXCEPT !.fin = TRUE]
<1>1. Live(w.client) /\ w.client.pcb = p
  BY OpenIsUp
<1>2. /\ w \in Worlds /\ old \in Blocks /\ old.mine /\ old.status = "open"
      /\ Segments(old.toClient, old.session,
                  Received(w.log.read, w.client.incoming, old.session), old.sent)
  BY <1>1, UpParts
<1> HIDE DEF old
<1>3. /\ b \in Blocks /\ b.mine /\ b.status = "open" /\ b.session = old.session
      /\ b.wire = old.wire /\ b.toClient = old.toClient /\ b.sent = old.sent
  BY <1>2 DEF Blocks
<1>4. b = [w.net[p] EXCEPT !.fin = TRUE]
  BY DEF old
<1> HIDE DEF b
<1>5. Sound(Made(w.client, [w.net EXCEPT ![w.client.pcb] = b], w.lookups, w.log))
  BY <1>1, <1>2, <1>3, BlockChanged DEF old
<1> QED BY <1>1, <1>4, <1>5

LEMMA PeerSendIsSound ==
    ASSUME NEW w, Sound(w), NEW p \in Pcbs, w.net[p].status = "open",
           NEW n \in Nat \ {0}, w.net[p].sent + n <= MaxInput,
           NEW b, b = [w.net[p] EXCEPT
                          !.toClient = Append(@, Run(w.net[p].session, w.net[p].sent, n)),
                          !.sent = @ + n]
    PROVE  Sound(Made(w.client, [w.net EXCEPT ![p] = b], w.lookups, w.log))
<1> DEFINE old == w.net[p]
           segment == Run(old.session, old.sent, n)
           q == Append(old.toClient, segment)
           k == old.sent + n
           from == Received(w.log.read, w.client.incoming, old.session)
<1>1. Live(w.client) /\ w.client.pcb = p
  BY OpenIsUp
<1>2. /\ w \in Worlds /\ old \in Blocks /\ old.mine /\ old.status = "open"
      /\ old.session \in 1..MaxSessions
      /\ Segments(old.toClient, old.session, from, old.sent)
      /\ w.client \in Clients /\ w.log \in Logs
  BY <1>1, UpParts
<1>3. from \in Nat
  <2>1. w.log.read \in Pairs /\ w.client.incoming \in Seq(Pairs)
    BY <1>2, BytesArePairs DEF Clients, Logs, Pairs
  <2>2. LET t == <<w.log.read>> \o w.client.incoming IN
          /\ t \in Seq(Pairs) /\ Len(t) = Len(w.client.incoming) + 1
    BY <2>1, After
  <2>3. LastByte(w.log.read, w.client.incoming) \in Pairs
    BY <2>1, <2>2 DEF LastByte
  <2> QED BY <2>3 DEF Received, Pairs
<1>4. b = [old EXCEPT !.toClient = q, !.sent = k] /\ k <= MaxInput
  OBVIOUS
<1> HIDE DEF old
<1>5. /\ old.sent \in 0..MaxInput /\ old.toClient \in Seq(Seq(Byte))
      /\ old.session \in Nat /\ old.sent \in Nat
  BY <1>2, BoundAssumption DEF Blocks
<1>6. k \in 0..MaxInput /\ k <= MaxInput + MaxOutput
  BY <1>4, <1>5, BoundAssumption
<1>7. segment \in Seq(Byte)
  BY <1>2, <1>5, <1>6, RunIsBytes
<1>8. q \in Seq(Seq(Byte))
  <2> HIDE DEF segment
  <2> QED BY <1>5, <1>7, AppendProperties
<1>9. Segments(q, old.session, from, k)
  <2>1. old.toClient \in Seq(Seq(Pairs))
    BY <1>5, SegmentsArePairs
  <2> HIDE DEF from
  <2> QED BY <1>2, <1>3, <1>5, <2>1, SegmentAdded, Zenon
<1> HIDE DEF q, k
<1>10. /\ b \in Blocks /\ b.mine /\ b.status = "open" /\ b.session = old.session
       /\ b.wire = old.wire /\ b.toClient = q /\ b.sent = k
  BY <1>2, <1>4, <1>6, <1>8 DEF Blocks
<1>11. Sound(Made(w.client, [w.net EXCEPT ![w.client.pcb] = b], w.lookups, w.log))
  BY <1>1, <1>2, <1>9, <1>10, BlockChanged DEF old
<1> QED BY <1>1, <1>11

\* Where the bytes received so far end.
LEMMA LastByteParts ==
    ASSUME NEW b \in Pairs, NEW s \in Seq(Pairs), NEW session \in Nat, b[1] <= session,
           \A i \in 1..Len(s) : s[i][1] = session
    PROVE  /\ LastByte(b, s) \in Pairs /\ LastByte(b, s)[1] <= session
           /\ Received(b, s, session) \in Nat
<1> DEFINE t == <<b>> \o s
<1>1. /\ t \in Seq(Pairs) /\ Len(t) = Len(s) + 1
      /\ t[1] = b /\ \A i \in 1..Len(s) : t[i + 1] = s[i]
  BY After
<1>2. LastByte(b, s) = t[Len(s) + 1]
  BY DEF LastByte
<1> HIDE DEF t
<1>3. LastByte(b, s) \in Pairs /\ LastByte(b, s)[1] <= session
  <2>1. CASE Len(s) = 0
    BY <1>1, <1>2, <2>1
  <2>2. CASE Len(s) # 0
    <3>1. Len(s) \in 1..Len(s)
      BY <2>2
    <3>2. LastByte(b, s) = s[Len(s)]
      BY <1>1, <1>2, <3>1
    <3>3. s[Len(s)] \in Pairs /\ s[Len(s)][1] = session
      BY <3>1
    <3> QED BY <3>2, <3>3
  <2> QED BY <2>1, <2>2
<1> QED BY <1>3 DEF Received, Pairs

\* The first segment lwIP holds goes behind what waits in the ring.
LEMMA SegmentGoesOn ==
    ASSUME NEW b \in Pairs, NEW s \in Seq(Byte), NEW q \in Seq(Seq(Byte)), q # <<>>,
           NEW session \in Nat, NEW upto \in Nat,
           Contiguous(<<b>> \o s), b[1] <= session, \A i \in 1..Len(s) : s[i][1] = session,
           Segments(q, session, Received(b, s, session), upto)
    PROVE  LET all == s \o Head(q) IN
           /\ all \in Seq(Byte) /\ Len(all) = Len(s) + Len(Head(q))
           /\ Contiguous(<<b>> \o all)
           /\ \A i \in 1..Len(all) : all[i][1] = session
           /\ Tail(q) \in Seq(Seq(Byte))
           /\ Segments(Tail(q), session, Received(b, all, session), upto)
<1> DEFINE from == Received(b, s, session)
           first == Head(q)
           all == s \o first
<1>1. s \in Seq(Pairs) /\ q \in Seq(Seq(Pairs))
  BY BytesArePairs, SegmentsArePairs
<1>2. LastByte(b, s) \in Pairs /\ LastByte(b, s)[1] <= session /\ from \in Nat
  BY <1>1, LastByteParts
<1>3. Segments(q, session, from, upto)
  OBVIOUS
<1> HIDE DEF from
<1>4. PICK n \in Nat \ {0} : Head(q) = Run(session, from, n) /\ Segments(Tail(q), session, from + n, upto)
  BY <1>1, <1>2, <1>3, SegmentTaken
<1>5. first \in Seq(Byte) /\ Tail(q) \in Seq(Seq(Byte)) /\ first = Run(session, from, n)
  BY <1>4, HeadTailProperties
<1> HIDE DEF first
<1>6. /\ all \in Seq(Byte) /\ Len(all) = Len(s) + Len(first)
      /\ \A i \in 1..Len(s) + Len(first) :
            all[i] = IF i <= Len(s) THEN s[i] ELSE first[i - Len(s)]
  BY <1>5, ConcatProperties
<1>7. Contiguous(<<b>> \o all) /\ LastByte(b, all) = <<session, from + n>>
  BY <1>1, <1>2, <1>5, ReceivingGoesOn DEF from
<1>8. Received(b, all, session) = from + n
  BY <1>7 DEF Received
<1>9. Len(first) = n /\ \A j \in 1..n : first[j] = <<session, from + j>>
  <2>1. /\ Len(Run(session, from, n)) = n
        /\ \A j \in 1..n : Run(session, from, n)[j] = <<session, from + j>>
    BY <1>2, RunParts, Zenon
  <2> QED BY <1>5, <2>1
<1> HIDE DEF all
<1>10. ASSUME NEW i \in 1..Len(all) PROVE all[i][1] = session
  <2>1. i \in 1..Len(s) + Len(first)
    BY <1>6
  <2>2. CASE i <= Len(s)
    BY <1>6, <2>1, <2>2
  <2>3. CASE ~(i <= Len(s))
    <3> DEFINE j == i - Len(s)
    <3>1. j \in 1..n
      BY <1>9, <2>1, <2>3
    <3>2. all[i] = first[j]
      BY <1>6, <2>1, <2>3
    <3> QED BY <1>9, <3>1, <3>2
  <2> QED BY <2>2, <2>3
<1> QED BY <1>4, <1>5, <1>6, <1>7, <1>8, <1>10 DEF all, first

\* on_recv with data that fits.
LEMMA ReceiveIsSound ==
    ASSUME NEW w, Sound(w), NEW p \in Pcbs, w.net[p].status = "open",
           w.net[p].toClient # <<>>, CanAccept(w.client, Len(Head(w.net[p].toClient))),
           NEW b, b = [w.net[p] EXCEPT !.toClient = Tail(@)],
           NEW d, d = [w.client EXCEPT !.incoming = @ \o Head(w.net[p].toClient)]
    PROVE  Sound(Made(d, [w.net EXCEPT ![p] = b], w.lookups, w.log))
<1> DEFINE c == w.client
           g == w.log
           old == w.net[p]
           all == c.incoming \o Head(old.toClient)
           rest == Tail(old.toClient)
           x == Made(d, [w.net EXCEPT ![p] = b], w.lookups, g)
<1>1. Live(c) /\ c.pcb = p
  BY OpenIsUp
<1>2. /\ c \in Clients /\ g \in Logs /\ c.initialised /\ c.streamUp /\ c.ready /\ g.wanted
      /\ Len(c.outgoing) <= TxCapacity
  BY <1>1, UpParts DEF Attached, CanAccept
<1>3. /\ old \in Blocks /\ old.mine /\ old.status = "open" /\ old.session = g.session
      /\ old.session \in 1..MaxSessions
      /\ old.wire \o c.outgoing = Run(old.session, 0, g.written)
  BY <1>1, UpParts
<1>4. /\ Contiguous(<<g.read>> \o c.incoming) /\ g.read[1] <= g.session
      /\ \A i \in 1..Len(c.incoming) : c.incoming[i][1] = old.session
      /\ Segments(old.toClient, old.session, Received(g.read, c.incoming, old.session), old.sent)
  BY <1>1, UpParts
<1>5. /\ d = [c EXCEPT !.incoming = all] /\ b = [old EXCEPT !.toClient = rest]
      /\ old.toClient # <<>> /\ Len(Head(old.toClient)) <= RxCapacity - Len(c.incoming)
  BY DEF CanAccept
<1> HIDE DEF c, g, old
<1>6. c.incoming \in Seq(Byte) /\ g.read \in Pairs
  BY <1>2 DEF Clients, Logs, Pairs
<1>7. old.toClient \in Seq(Seq(Byte)) /\ old.sent \in Nat /\ old.session \in Nat
  BY <1>3, BoundAssumption DEF Blocks
<1>8. /\ all \in Seq(Byte) /\ Len(all) = Len(c.incoming) + Len(Head(old.toClient))
      /\ Contiguous(<<g.read>> \o all)
      /\ \A i \in 1..Len(all) : all[i][1] = old.session
      /\ rest \in Seq(Seq(Byte))
      /\ Segments(rest, old.session, Received(g.read, all, old.session), old.sent)
  BY <1>3, <1>4, <1>5, <1>6, <1>7, SegmentGoesOn
<1>9. Len(all) <= RxCapacity
  <2>1. Len(Head(old.toClient)) \in Nat
    BY <1>5, <1>7, HeadTailProperties
  <2>2. Len(c.incoming) \in Nat /\ RxCapacity \in Nat
    BY <1>6, SizeAssumption
  <2>3. \A i, j, k \in Nat : j <= k - i => i + j <= k
    OBVIOUS
  <2>4. Len(c.incoming) + Len(Head(old.toClient)) <= RxCapacity
    BY <1>5, <2>1, <2>2, <2>3, Zenon
  <2> QED BY <1>8, <2>4, Zenon
<1> HIDE DEF all, rest
<1>10. /\ d \in Clients /\ d.incoming = all /\ d.outgoing = c.outgoing
       /\ d.state = c.state /\ d.pcb = c.pcb /\ d.sessions = c.sessions
       /\ d.initialised /\ Attached(d)
  <2>1. d = [c EXCEPT !.incoming = all] /\ all \in Seq(Byte) /\ c \in Clients
    BY <1>2, <1>5, <1>8, Zenon
  <2>2. /\ d \in Clients /\ d.incoming = all /\ d.outgoing = c.outgoing
        /\ d.state = c.state /\ d.pcb = c.pcb /\ d.sessions = c.sessions
        /\ (d.initialised <=> c.initialised) /\ (d.streamUp <=> c.streamUp)
        /\ (d.ready <=> c.ready)
    BY <2>1, IncomingReplaced, Zenon
  <2> QED BY <1>2, <2>2 DEF Attached
<1>11. /\ b \in Blocks /\ b.mine /\ b.status = "open" /\ b.session = old.session
       /\ b.wire = old.wire /\ b.toClient = rest /\ b.sent = old.sent
  BY <1>3, <1>5, <1>8 DEF Blocks
<1>12. /\ b.wire \o d.outgoing = Run(b.session, 0, g.written)
       /\ Contiguous(<<g.read>> \o d.incoming)
       /\ \A i \in 1..Len(d.incoming) : d.incoming[i][1] = b.session
       /\ Segments(b.toClient, b.session, Received(g.read, d.incoming, b.session), b.sent)
       /\ Len(d.incoming) <= RxCapacity /\ Len(d.outgoing) <= TxCapacity
       /\ d.state = "connected" /\ b.session = g.session
  BY <1>1, <1>2, <1>3, <1>8, <1>9, <1>10, <1>11 DEF Live
<1> HIDE DEF x
<1>13. Sound(x)
  <2>1. x = Made(d, [w.net EXCEPT ![w.client.pcb] = b], w.lookups, g)
    BY <1>1 DEF x, c
  <2>2. /\ Live(w.client) /\ d.pcb = w.client.pcb
        /\ d.sessions = w.client.sessions /\ g = w.log
    BY <1>1, <1>10 DEF c, g
  <2>3. /\ g.session = w.log.session /\ g.reported = w.log.reported
        /\ g.ended = w.log.ended /\ b.session = w.log.session
    BY <1>12, <2>2
  <2>4. d \in Clients /\ d.initialised /\ Attached(d) /\ d.state = "connected"
    BY <1>10, <1>12
  <2> HIDE DEF c
  <2> QED BY <1>2, <1>4, <1>11, <1>12, <2>1, <2>2, <2>3, <2>4, StillUp, Zenon
<1> QED BY <1>13 DEF x, g

\* tcp_client_read takes n bytes off the front of what waits.
FrontRead(b, s, n, byte, rest) ==
    /\ byte \in Pairs /\ rest \in Seq(Byte) /\ Len(rest) <= Len(s)
    /\ Contiguous(<<byte>> \o rest)
    /\ \A session : Received(byte, rest, session) = Received(b, s, session)
    /\ \A i \in 1..Len(rest) : n + i \in 1..Len(s) /\ rest[i] = s[n + i]

LEMMA FrontIsRead ==
    ASSUME NEW b \in Pairs, NEW s \in Seq(Byte), NEW n \in 1..Len(s), Contiguous(<<b>> \o s)
    PROVE  FrontRead(b, s, n, s[n], SubSeq(s, n + 1, Len(s)))
<1> DEFINE byte == s[n]
           rest == SubSeq(s, n + 1, Len(s))
<1>1. s \in Seq(Pairs)
  BY BytesArePairs
<1>2. Contiguous(<<byte>> \o rest) /\ LastByte(byte, rest) = LastByte(b, s)
  BY <1>1, ReadGoesOn
<1>3. rest \in Seq(Byte) /\ Len(rest) = Len(s) - n /\ \A i \in 1..(Len(s) - n) : rest[i] = s[n + i]
  BY CutAnywhere
<1>4. byte \in Pairs
  BY <1>1
<1>5. Len(rest) <= Len(s) /\ \A i \in 1..Len(rest) : n + i \in 1..Len(s) /\ rest[i] = s[n + i]
  BY <1>3
<1>6. \A session : Received(byte, rest, session) = Received(b, s, session)
  BY <1>2 DEF Received
<1>7. FrontRead(b, s, n, byte, rest)
  <2> HIDE DEF byte, rest
  <2> QED BY <1>2, <1>3, <1>4, <1>5, <1>6 DEF FrontRead
<1> QED BY <1>7

LEMMA ReadIsSound ==
    ASSUME NEW w, Sound(w), NEW n \in 1..Len(w.client.incoming),
           NEW d, d = [w.client EXCEPT
                          !.incoming = SubSeq(@, n + 1, Len(@))],
           NEW g, g = [w.log EXCEPT !.read = w.client.incoming[n]]
    PROVE  Sound(Made(d, w.net, w.lookups, g))
<1> DEFINE c == w.client
           rest == SubSeq(c.incoming, n + 1, Len(c.incoming))
           byte == c.incoming[n]
           x == Made(d, w.net, w.lookups, g)
<1>1. /\ w \in Worlds /\ OwnsItsBlock(w) /\ c \in Clients /\ w.net \in [Pcbs -> Blocks]
      /\ w.log \in Logs /\ w.lookups \in 0..MaxLookups
  BY SoundParts, WorldParts
<1>2. /\ Contiguous(<<w.log.read>> \o c.incoming) /\ w.log.read[1] <= w.log.session
      /\ \A i \in 1..Len(c.incoming) : c.incoming[i][1] <= w.log.session
      /\ Len(c.incoming) <= RxCapacity /\ Len(c.outgoing) <= TxCapacity
  BY DEF Sound, InputSoFar, StreamFollowsState
<1>3. n \in 1..Len(c.incoming) /\ d = [c EXCEPT !.incoming = rest] /\ g = [w.log EXCEPT !.read = byte]
  OBVIOUS
<1>4. byte[1] <= w.log.session
  BY <1>2, <1>3
<1>14. c.ready
  <2>1. Drained(c)
    BY DEF Sound, StreamFollowsState
  <2> QED BY <1>3, <2>1 DEF Drained
<1> HIDE DEF c, x
<1>5. c.incoming \in Seq(Byte) /\ w.log.read \in Pairs
  BY <1>1 DEF Clients, Logs, Pairs
<1>6. /\ byte \in Pairs /\ rest \in Seq(Byte) /\ Len(rest) <= Len(c.incoming)
      /\ Contiguous(<<byte>> \o rest)
      /\ \A session : Received(byte, rest, session) = Received(w.log.read, c.incoming, session)
      /\ \A i \in 1..Len(rest) : n + i \in 1..Len(c.incoming) /\ rest[i] = c.incoming[n + i]
  <2> DEFINE s == c.incoming
             b == w.log.read
  <2>1. /\ b \in Pairs /\ s \in Seq(Byte) /\ n \in 1..Len(s) /\ Contiguous(<<b>> \o s)
        /\ byte = s[n] /\ rest = SubSeq(s, n + 1, Len(s))
    BY <1>2, <1>3, <1>5
  <2> HIDE DEF byte, rest, s, b
  <2>2. FrontRead(b, s, n, byte, rest)
    BY <2>1, FrontIsRead
  <2> QED BY <2>2 DEF FrontRead, s, b
<1> HIDE DEF byte, rest
<1>7. Len(rest) <= RxCapacity
  <2>1. Len(rest) \in Nat /\ Len(c.incoming) \in Nat /\ RxCapacity \in Nat
    BY <1>5, <1>6, SizeAssumption
  <2> QED BY <1>2, <1>6, <2>1
<1>8. \A i \in 1..Len(rest) : rest[i][1] <= w.log.session
  BY <1>2, <1>6
<1>9. /\ d \in Clients /\ d.incoming = rest /\ d.outgoing = c.outgoing
      /\ d.state = c.state /\ d.pcb = c.pcb /\ d.sessions = c.sessions
      /\ (d.initialised <=> c.initialised) /\ (d.streamUp <=> c.streamUp)
      /\ (d.ready <=> c.ready)
  BY <1>1, <1>3, <1>6, IncomingReplaced, Zenon
<1>10. /\ g \in Logs /\ g.read = byte /\ (g.wanted <=> w.log.wanted)
       /\ g.session = w.log.session /\ g.written = w.log.written
       /\ g.reported = w.log.reported /\ g.ended = w.log.ended
  <2> DEFINE h == w.log
  <2>1. h \in Logs /\ byte \in Pairs /\ g = [h EXCEPT !.read = byte]
    BY <1>1, <1>3, <1>6
  <2> HIDE DEF h, byte
  <2>2. /\ g \in Logs /\ g.read = byte /\ (g.wanted <=> h.wanted) /\ g.session = h.session
        /\ g.written = h.written /\ g.reported = h.reported /\ g.ended = h.ended
    BY <2>1 DEF Logs, Pairs
  <2> QED BY <2>2 DEF h
<1>11. /\ x \in Worlds /\ x.client = d /\ x.net = w.net /\ x.lookups = w.lookups /\ x.log = g
  <2> DEFINE m == w.net
             k == w.lookups
  <2>1. m \in [Pcbs -> Blocks] /\ k \in 0..MaxLookups /\ d \in Clients /\ g \in Logs
    BY <1>1, <1>9, <1>10
  <2>2. x = Made(d, m, k, g)
    BY DEF x
  <2> HIDE DEF m, k
  <2>3. x \in Worlds /\ x.client = d /\ x.net = m /\ x.lookups = k /\ x.log = g
    BY <2>1, <2>2, MadeParts
  <2> QED BY <2>3 DEF m, k
<1>12. CASE Live(c)
  <2> DEFINE b == w.net[c.pcb]
  <2>1. /\ c.pcb \in Pcbs /\ b \in Blocks /\ c.initialised /\ Attached(c) /\ w.log.wanted
        /\ b.mine /\ b.status = "open" /\ b.session = w.log.session
        /\ b.wire \o c.outgoing = Run(b.session, 0, w.log.written)
    BY <1>12, UpParts DEF c
  <2>2. /\ \A i \in 1..Len(c.incoming) : c.incoming[i][1] = b.session
        /\ Segments(b.toClient, b.session, Received(w.log.read, c.incoming, b.session), b.sent)
    BY <1>12, UpParts DEF c
  <2>3. x = Made(d, [w.net EXCEPT ![c.pcb] = b], w.lookups, g)
    BY <1>1, <2>1, SameBlock DEF x
  <2> HIDE DEF b
  <2>4. /\ d.state = "connected" /\ d.initialised /\ Attached(d)
        /\ Len(d.incoming) <= RxCapacity /\ Len(d.outgoing) <= TxCapacity
        /\ g.wanted /\ b.wire \o d.outgoing = Run(b.session, 0, g.written)
        /\ Contiguous(<<g.read>> \o d.incoming) /\ g.read[1] <= g.session
    <3>1. d.state = "connected" /\ d.initialised /\ Attached(d)
      BY <1>9, <1>12, <1>14, <2>1 DEF Live, Attached
    <3>2. g.wanted /\ b.wire \o d.outgoing = Run(b.session, 0, g.written)
      BY <1>9, <1>10, <2>1
    <3> QED BY <1>2, <1>4, <1>6, <1>7, <1>9, <1>10, <3>1, <3>2
  <2>5. \A i \in 1..Len(d.incoming) : d.incoming[i][1] = b.session
    <3>1. d.incoming = rest
      BY <1>9
    <3>2. ASSUME NEW i \in 1..Len(rest) PROVE rest[i][1] = b.session
      <4>1. n + i \in 1..Len(c.incoming) /\ rest[i] = c.incoming[n + i]
        BY <1>6, <3>2
      <4>2. c.incoming[n + i][1] = b.session
        BY <2>2, <4>1, Zenon
      <4> QED BY <4>1, <4>2, Zenon
    <3> QED BY <3>1, <3>2, Zenon
  <2>6. Segments(b.toClient, b.session, Received(g.read, d.incoming, b.session), b.sent)
    BY <1>6, <1>9, <1>10, <2>2
  <2>7. /\ Live(w.client) /\ d.pcb = w.client.pcb
        /\ d.sessions = w.client.sessions
        /\ x = Made(d, [w.net EXCEPT ![w.client.pcb] = b], w.lookups, g)
    BY <1>9, <1>12, <2>3 DEF c
  <2>8. Sound(x)
    BY <1>9, <1>10, <2>1, <2>4, <2>5, <2>6, <2>7, StillUp, Zenon
  <2> QED BY <2>8 DEF x
<1>13. CASE ~Live(c)
  <2>1. OwnsItsBlock(x)
    BY <1>1, <1>9, <1>11 DEF OwnsItsBlock, c
  <2>2. BlockFollowsState(x)
    BY <1>9, <1>11 DEF Sound, BlockFollowsState, c
  <2>3. WaitsForWhatItAsked(x)
    BY <1>9, <1>10, <1>11 DEF Sound, WaitsForWhatItAsked, c
  <2>4. LossesAreCounted(x)
    <3>1. Losses(x) = Losses(w) /\ Up(x) = Up(w)
      BY <1>9, <1>10, <1>11 DEF Losses, Up, Live, c
    <3> QED BY <1>9, <1>10, <1>11, <3>1 DEF Sound, LossesAreCounted, c
  <2>5. StreamFollowsState(x)
    <3>1. (c.streamUp <=> c.state = "connected" /\ c.ready) /\ (~c.streamUp => c.outgoing = <<>>)
      BY DEF Sound, StreamFollowsState, c
    <3> QED BY <1>2, <1>7, <1>9, <1>11, <1>14, <3>1 DEF StreamFollowsState, Drained
  <2>6. InputSoFar(x)
    BY <1>4, <1>6, <1>8, <1>9, <1>10, <1>11 DEF InputSoFar
  <2>7. OutputAddsUp(x) /\ InputGoesOn(x)
    BY <1>9, <1>11, <1>13 DEF OutputAddsUp, InputGoesOn, Live
  <2>8. Sound(x)
    BY <1>11, <2>1, <2>2, <2>3, <2>4, <2>5, <2>6, <2>7 DEF Sound
  <2> QED BY <2>8 DEF x
<1> QED BY <1>12, <1>13

\* lwIP takes back a block that was closed.
LEMMA ReclaimIsSound ==
    ASSUME NEW w, Sound(w), NEW p \in Pcbs, w.net[p].status = "closing"
    PROVE  Sound(Made(w.client, [w.net EXCEPT ![p] = Unused], w.lookups, w.log))
<1> DEFINE c == w.client
           m == [w.net EXCEPT ![p] = Unused]
           x == Made(c, m, w.lookups, w.log)
<1>1. /\ w \in Worlds /\ OwnsItsBlock(w) /\ c \in Clients /\ w.net \in [Pcbs -> Blocks]
      /\ w.log \in Logs /\ w.lookups \in 0..MaxLookups
  BY SoundParts, WorldParts
<1>2. p # c.pcb
  <2>1. c.pcb # NoPcb => Fresh(w.net[c.pcb]) \/ w.net[c.pcb].status = "open"
    BY DEF Sound, BlockFollowsState
  <2> QED BY <2>1, PcbAssumption DEF Fresh
<1>3. m \in [Pcbs -> Blocks] /\ m[p] = Unused /\ \A q \in Pcbs : q # p => m[q] = w.net[q]
  BY <1>1, UnusedIsABlock
<1> HIDE DEF m, c, x
<1>4. x \in Worlds /\ x.client = c /\ x.net = m /\ x.lookups = w.lookups /\ x.log = w.log
  BY <1>1, <1>3, MadeParts DEF x
<1>5. OwnsItsBlock(x)
  <2> SUFFICES ASSUME NEW q \in Pcbs
               PROVE  /\ x.net[q].mine <=> q = x.client.pcb
                      /\ x.net[q].status \in {"connecting", "open"} => q = x.client.pcb
    BY DEF OwnsItsBlock
  <2>1. CASE q = p
    BY <1>2, <1>3, <1>4, <2>1 DEF Unused
  <2>2. CASE q # p
    BY <1>1, <1>3, <1>4, <2>2 DEF OwnsItsBlock, c
  <2> QED BY <2>1, <2>2
<1>6. c.pcb \in Pcbs => x.net[x.client.pcb] = w.net[w.client.pcb]
  BY <1>2, <1>3, <1>4 DEF c
<1>7. c.pcb # NoPcb => c.pcb \in Pcbs
  BY <1>1 DEF Clients
<1>8. BlockFollowsState(x)
  BY <1>4, <1>6, <1>7 DEF Sound, BlockFollowsState, c
<1>9. WaitsForWhatItAsked(x) /\ LossesAreCounted(x) /\ StreamFollowsState(x) /\ InputSoFar(x)
  BY <1>4 DEF Sound, WaitsForWhatItAsked, LossesAreCounted, Losses, Up, StreamFollowsState,
              InputSoFar, c
<1>10. OutputAddsUp(x) /\ InputGoesOn(x)
  BY <1>4, <1>6, <1>7 DEF Sound, OutputAddsUp, InputGoesOn, Live, c
<1>11. Sound(x)
  BY <1>4, <1>5, <1>8, <1>9, <1>10 DEF Sound
<1> QED BY <1>11 DEF x, c, m

\* A connection comes up: a new session, in which nothing was sent either way.
LEMMA UpIsSound ==
    ASSUME NEW w, Sound(w), NEW p \in Pcbs, w.net[p].mine, w.net[p].status = "connecting",
           NEW c \in Clients, c.state = "connected", c.pcb = w.client.pcb,
           c.initialised <=> w.client.initialised, c.streamUp <=> c.ready,
           c.sessions = w.client.sessions + 1, c.incoming = <<>>,
           c.outgoing = w.client.outgoing,
           NEW g \in Logs, g.wanted <=> w.log.wanted, g.session = w.log.session + 1,
           g.written = 0, g.read = w.log.read,
           g.reported = w.log.reported, g.ended = w.log.ended,
           NEW b \in Blocks, b.mine, b.status = "open", b.session = g.session,
           b.sent = w.net[p].sent, b.toClient = w.net[p].toClient, b.wire = w.net[p].wire,
           NEW x, x = Made(c, [w.net EXCEPT ![p] = b], w.lookups, g)
    PROVE  Sound(x)
<1> DEFINE m == [w.net EXCEPT ![p] = b]
<1>1. /\ w \in Worlds /\ OwnsItsBlock(w) /\ w.client \in Clients
      /\ w.net \in [Pcbs -> Blocks] /\ w.log \in Logs /\ w.lookups \in 0..MaxLookups
  BY SoundParts, WorldParts
<1>2. p = w.client.pcb /\ w.client.pcb # NoPcb
  BY <1>1, PcbAssumption DEF OwnsItsBlock
<1>3. w.client.state = "connecting"
  BY <1>2 DEF Sound, BlockFollowsState
<1>4. /\ w.client.initialised /\ w.log.wanted /\ w.lookups = 0
      /\ w.client.outgoing = <<>>
  BY <1>1, <1>3, SoundParts DEF Quiet
<1>5. b.sent = 0 /\ b.toClient = <<>> /\ b.wire = <<>>
  BY <1>2, <1>3 DEF Sound, BlockFollowsState, Fresh
<1>6. m \in [Pcbs -> Blocks] /\ m[p] = b /\ \A q \in Pcbs : q # p => m[q] = w.net[q]
  BY <1>1
<1> HIDE DEF m
<1>7. /\ x \in Worlds /\ x.client = c /\ x.net = m /\ x.lookups = w.lookups /\ x.log = g
  BY <1>1, <1>6, MadeParts DEF m
<1>8. OwnsItsBlock(x)
  BY <1>1, <1>2, <1>6, <1>7 DEF OwnsItsBlock
<1>9. BlockFollowsState(x)
  BY <1>2, <1>6, <1>7 DEF BlockFollowsState
<1>10. WaitsForWhatItAsked(x)
  BY <1>4, <1>7 DEF WaitsForWhatItAsked
<1>11. /\ w.log.session \in Nat /\ w.client.sessions \in Nat
       /\ w.log.reported \in Nat /\ w.log.ended \in Nat /\ w.log.read \in Nat \X Nat
  BY <1>1 DEF Logs, Clients
<1>12. LossesAreCounted(x)
  <2>1. Up(w) = 0 /\ Up(x) = 1
    <3>1. w.client.state # "connected" /\ x.client = c
      BY <1>3, <1>7
    <3>2. c.pcb # NoPcb /\ c.state = "connected"
      BY <1>2
    <3> QED BY <3>1, <3>2 DEF Up, Live
  <2>2. Losses(x) = Losses(w) /\ Losses(w) \in Nat
    <3>1. x.log.reported = w.log.reported /\ x.log.ended = w.log.ended
      BY <1>7
    <3> QED BY ONLY <1>11, <3>1 DEF Losses
  <2>3. w.client.sessions = Losses(w) /\ w.client.sessions <= w.log.session
    BY <1>11, <2>1, <2>2 DEF Sound, LossesAreCounted
  <2> QED BY <1>7, <1>11, <2>1, <2>2, <2>3 DEF LossesAreCounted
<1>13. StreamFollowsState(x)
  BY <1>4, <1>7, NothingHeld, SizeAssumption DEF StreamFollowsState, Drained
<1>14. g.session \in Nat \ {0} /\ b.session # 0
  BY <1>11
<1>15. OutputAddsUp(x)
  <2>1. <<>> \o <<>> = Run(b.session, 0, 0)
    BY DEF Run
  <2>2. x.net[x.client.pcb] = b /\ x.log = g /\ x.client.outgoing = <<>>
    BY <1>2, <1>4, <1>6, <1>7
  <2>3. b.session = g.session /\ g.written = 0 /\ b.wire = <<>>
    BY <1>5
  <2> QED BY <1>14, <2>1, <2>2, <2>3, Zenon DEF OutputAddsUp
<1>16. Contiguous(<<g.read>> \o <<>>) /\ LastByte(g.read, <<>>) = w.log.read
  BY <1>11 DEF Contiguous, LastByte
<1>17. w.log.read[1] <= w.log.session /\ w.log.read[1] \in Nat
  BY <1>11 DEF Sound, InputSoFar
<1>18. InputSoFar(x)
  <2>1. x.client.incoming = <<>> /\ x.log = g /\ \A i \in 1..Len(<<>>) : FALSE
    BY <1>7
  <2>2. g.read[1] <= g.session
    <3>1. \A i, j, k \in Nat : i <= j /\ k = j + 1 => i <= k
      OBVIOUS
    <3>2. g.session \in Nat
      BY <1>14
    <3>3. w.log.read[1] <= g.session
      BY <1>11, <1>17, <3>1, <3>2, Zenon
    <3> QED BY <3>3, Zenon
  <2> QED BY <1>16, <2>1, <2>2, Zenon DEF InputSoFar
<1>19. InputGoesOn(x)
  <2>1. Received(g.read, <<>>, b.session) = 0
    BY <1>11, <1>16, <1>17 DEF Received
  <2>2. Segments(<<>>, b.session, 0, 0)
    BY NoSegments
  <2>3. x.net[x.client.pcb] = b /\ x.log = g /\ x.client.incoming = <<>>
    BY <1>2, <1>6, <1>7
  <2>4. \A i \in 1..Len(<<>>) : FALSE
    OBVIOUS
  <2>5. Segments(b.toClient, b.session, Received(g.read, <<>>, b.session), b.sent)
    BY <1>5, <2>1, <2>2, Zenon
  <2> QED BY <2>3, <2>4, <2>5, Zenon DEF InputGoesOn
<1> QED BY <1>7, <1>8, <1>9, <1>10, <1>12, <1>13, <1>15, <1>18, <1>19 DEF Sound

\* Several fields replaced at once.
Renewed(c, a, n) == [c EXCEPT !.attempts = a, !.state = "connected", !.sessions = n]
Anew(w, d, p, b, g) == [w EXCEPT !.client = d, !.net[p] = b, !.log = g]

LEMMA RenewedFields ==
    ASSUME NEW c \in Clients, NEW a \in 0..MaxAttempts, NEW n \in Nat
    PROVE  LET d == Renewed(c, a, n) IN
           /\ d \in Clients /\ d.state = "connected" /\ d.pcb = c.pcb
           /\ (d.initialised <=> c.initialised) /\ (d.streamUp <=> c.streamUp)
           /\ d.sessions = n /\ d.incoming = c.incoming /\ d.outgoing = c.outgoing
           /\ (d.ready <=> c.ready)
BY DEF Clients, Renewed, States

OpenedIn(b, k) == [b EXCEPT !.status = "open", !.session = k]

LEMMA OpenFields ==
    ASSUME NEW b \in Blocks, NEW k \in 0..MaxSessions
    PROVE  LET d == OpenedIn(b, k) IN
           /\ d \in Blocks /\ (d.mine <=> b.mine) /\ d.status = "open" /\ d.session = k
           /\ d.sent = b.sent /\ d.toClient = b.toClient /\ d.wire = b.wire
BY DEF Blocks, OpenedIn

LEMMA AllReplaced ==
    ASSUME NEW w \in Worlds, NEW d \in Clients, NEW p \in Pcbs, NEW b \in Blocks, NEW g
    PROVE  Anew(w, d, p, b, g) = Made(d, [w.net EXCEPT ![p] = b], w.lookups, g)
<1> DEFINE v == With(w, d, p, b)
           m == [w.net EXCEPT ![p] = b]
<1>1. Anew(w, d, p, b, g) = [v EXCEPT !.log = g]
  BY Zenon DEF Anew, With
<1>2. v = Made(d, m, w.lookups, w.log)
  BY BothReplaced
<1>3. m \in [Pcbs -> Blocks]
  BY WorldParts
<1> HIDE DEF v, m
<1>4. v \in Worlds /\ v.client = d /\ v.net = m /\ v.lookups = w.lookups
  BY <1>2, <1>3, WorldParts, MadeParts
<1>5. Anew(w, d, p, b, g) = Made(v.client, v.net, v.lookups, g)
  BY <1>1, <1>4, Replaced
<1>6. Anew(w, d, p, b, g) = Made(d, m, w.lookups, g)
  BY <1>4, <1>5, Zenon
<1> QED BY <1>6 DEF m

LEMMA EstablishedIsSound ==
    ASSUME NEW w, Sound(w), NEW p \in Pcbs, w.net[p].mine, w.net[p].status = "connecting",
           w.log.session < MaxSessions
    PROVE  Sound(Established(w, p)) /\ Established(w, p).log.written = 0
<1> DEFINE c == [StreamUp(w.client) EXCEPT !.attempts = 0, !.state = "connected",
                                           !.sessions = @ + 1]
           b == [w.net[p] EXCEPT !.status = "open", !.session = w.log.session + 1]
           g == [w.log EXCEPT !.session = @ + 1, !.written = 0]
           m == [w.net EXCEPT ![p] = b]
<1>1. /\ w \in Worlds /\ w.client \in Clients /\ w.net \in [Pcbs -> Blocks]
      /\ w.log \in Logs /\ w.lookups \in 0..MaxLookups
  BY SoundParts, WorldParts
<1>2. /\ c \in Clients /\ c.state = "connected" /\ c.pcb = w.client.pcb
      /\ (c.initialised <=> w.client.initialised) /\ (c.streamUp <=> c.ready)
      /\ c.sessions = w.client.sessions + 1 /\ c.incoming = <<>>
      /\ c.outgoing = w.client.outgoing
  <2> DEFINE e == StreamUp(w.client)
  <2>5. w.client.ready \/ (w.client.incoming = <<>> /\ ~w.client.streamUp)
    BY DEF Sound, StreamFollowsState, Drained
  <2>1. /\ e \in Clients /\ e.pcb = w.client.pcb
        /\ (e.initialised <=> w.client.initialised) /\ (e.streamUp <=> e.ready)
        /\ e.sessions = w.client.sessions /\ e.incoming = <<>>
        /\ e.outgoing = w.client.outgoing
    <3>1. CASE w.client.ready
      BY <1>1, <3>1, NothingHeld DEF Clients, StreamUp
    <3>2. CASE ~w.client.ready
      BY <1>1, <2>5, <3>2 DEF StreamUp
    <3> QED BY <3>1, <3>2
  <2> DEFINE n == w.client.sessions + 1
  <2>2. 0 \in 0..MaxAttempts /\ n \in Nat
    BY <1>1, BoundAssumption DEF Clients
  <2>3. c = Renewed(e, 0, n)
    BY <2>1, Zenon DEF Renewed
  <2> HIDE DEF e, c, n
  <2>4. /\ c \in Clients /\ c.state = "connected" /\ c.pcb = e.pcb
        /\ (c.initialised <=> e.initialised) /\ (c.streamUp <=> e.streamUp)
        /\ (c.ready <=> e.ready)
        /\ c.sessions = n /\ c.incoming = e.incoming /\ c.outgoing = e.outgoing
    BY <2>1, <2>2, <2>3, RenewedFields, Zenon
  <2> QED BY <2>1, <2>4, Zenon DEF n
<1>3. w.log.session + 1 \in 0..MaxSessions /\ 0 \in 0..MaxOutput
  BY <1>1, BoundAssumption DEF Logs
<1>4. /\ g \in Logs /\ (g.wanted <=> w.log.wanted) /\ g.session = w.log.session + 1
      /\ g.written = 0 /\ g.read = w.log.read
      /\ g.reported = w.log.reported /\ g.ended = w.log.ended
  BY <1>1, <1>3 DEF Logs
<1>5. /\ b \in Blocks /\ b.mine /\ b.status = "open" /\ b.session = w.log.session + 1
      /\ b.sent = w.net[p].sent /\ b.toClient = w.net[p].toClient
      /\ b.wire = w.net[p].wire
  <2> DEFINE old == w.net[p]
             k == w.log.session + 1
  <2>1. old \in Blocks /\ old.mine /\ k \in 0..MaxSessions
    BY <1>1, <1>3
  <2>2. b = OpenedIn(old, k)
    BY Zenon DEF OpenedIn
  <2> HIDE DEF old, k, b
  <2>3. /\ b \in Blocks /\ b.mine /\ b.status = "open" /\ b.session = k
        /\ b.sent = old.sent /\ b.toClient = old.toClient /\ b.wire = old.wire
    <3>1. /\ b \in Blocks /\ (b.mine <=> old.mine) /\ b.status = "open" /\ b.session = k
          /\ b.sent = old.sent /\ b.toClient = old.toClient /\ b.wire = old.wire
      BY <2>1, <2>2, OpenFields, Zenon
    <3> QED BY <2>1, <3>1, Zenon
  <2> QED BY <2>3 DEF old, k
<1>6. Established(w, p) = Made(c, m, w.lookups, g)
  <2>1. Established(w, p) = Anew(w, c, p, b, g)
    BY Zenon DEF Established, Anew
  <2> HIDE DEF c, b, g
  <2> QED BY <1>1, <1>2, <1>4, <1>5, <2>1, AllReplaced, Zenon
<1> HIDE DEF c, b, g
<1>7. Sound(Established(w, p))
  BY <1>2, <1>4, <1>5, <1>6, UpIsSound, Zenon
<1>8. Established(w, p).log = g
  BY <1>6 DEF Made
<1> QED BY <1>4, <1>7, <1>8

-----------------------------------------------------------------------------
(***************************************************************************)
(* Every step keeps the world sound.                                       *)
(***************************************************************************)
LEMMA Lands == ASSUME NEW w, Sound(w), Becomes(w) PROVE IInv'
<1>1. w \in Worlds
  BY DEF Sound
<1>2. World' = w
  BY <1>1, WorldBecomes
<1> QED BY <1>2, Zenon DEF IInv

LEMMA WorldIs == World = Made(client, net, lookups, log)
BY DEF World, Made

LEMMA NextWorld == World' = Made(client', net', lookups', log')
BY DEF World, Made

LEMMA WorldFields ==
    World.client = client /\ World.net = net /\ World.lookups = lookups /\ World.log = log
BY DEF World

LEMMA InitSound == Init => IInv
<1> SUFFICES ASSUME Init PROVE Sound(World)
  BY DEF IInv
<1>1. client \in Clients /\ log \in Logs /\ lookups \in 0..MaxLookups
  <2>1. (CHOOSE k \in Configs : TRUE) \in Configs
    BY ConfigAssumption
  <2>2. 0 \in 0..MaxAttempts /\ 0 \in 0..MaxSessions /\ 0 \in 0..MaxOutput
        /\ 0 \in 0..MaxLookups
    BY BoundAssumption
  <2> QED BY <2>1, <2>2, NothingHeld DEF Init, Clients, Logs, States
<1>2. net \in [Pcbs -> Blocks]
  BY UnusedIsABlock DEF Init
<1>3. World \in Worlds
  BY <1>1, <1>2, WorldIs, MadeParts
<1>4. OwnsItsBlock(World)
  BY PcbAssumption, WorldFields DEF Init, OwnsItsBlock, Unused
<1>5. InputSoFar(World)
  <2>1. /\ World.log.read = <<0, 0>> /\ World.client.incoming = <<>> /\ World.log.session = 0
    BY WorldFields DEF Init
  <2>2. Contiguous(<< <<0, 0>> >> \o <<>>)
    BY DEF Contiguous
  <2>3. (\A i \in 1..Len(<<>>) : FALSE) /\ <<0, 0>>[1] <= 0
    OBVIOUS
  <2> QED BY <2>1, <2>2, <2>3 DEF InputSoFar
<1>6. /\ World.lookups = 0 /\ World.client.pcb = NoPcb /\ World.client.state = "idle"
      /\ ~World.client.streamUp /\ World.client.outgoing = <<>>
      /\ World.client.incoming = <<>>
  BY WorldFields DEF Init
<1>7. World.client.sessions = Losses(World) /\ World.client.sessions <= World.log.session
  BY WorldFields DEF Init, Losses
<1>8. Len(World.client.incoming) <= RxCapacity /\ Drained(World.client)
  BY <1>6, NothingHeld, SizeAssumption DEF Drained
<1> QED BY <1>3, <1>4, <1>5, <1>6, <1>7, <1>8, IdleIsSound

LEMMA InitClientSound == ASSUME IInv, InitClient PROVE IInv'
<1> DEFINE c == [StreamCleared(client) EXCEPT !.initialised = TRUE, !.state = "idle",
                                              !.pcb = NoPcb, !.attempts = 0, !.sessions = 0]
           g == [log EXCEPT !.reported = 0, !.ended = 0]
           x == Made(c, net, lookups, g)
<1>1. client \in Clients
  BY SoundParts, WorldFields DEF IInv
<1>2. /\ c \in Clients /\ c.pcb = NoPcb /\ c.state = "idle" /\ c.sessions = 0
      /\ ~c.streamUp /\ c.incoming = <<>> /\ c.outgoing = <<>>
  BY <1>1, InitialisedFields
<1>3. Becomes(x)
  BY Zenon DEF Becomes, Made, InitClient
<1>4. x = Made(c, World.net, World.lookups, [World.log EXCEPT !.reported = 0, !.ended = 0])
  BY WorldFields
<1>5. ~World.client.initialised
  BY WorldFields DEF InitClient
<1> HIDE DEF c, x
<1>6. Sound(x)
  BY <1>2, <1>4, <1>5, InitIsSound, Zenon DEF IInv
<1> QED BY <1>3, <1>6, Lands

LEMMA DeinitSound == ASSUME ~LateAnswers, IInv, Deinit PROVE IInv'
<1>1. PICK w \in Release(Abandon(Ended(World)), TRUE) :
         Becomes([w EXCEPT !.client = [StreamDown(@) EXCEPT !.initialised = FALSE,
                                                            !.state = "idle"]])
  BY Zenon DEF Deinit
<1> QED BY <1>1, DeinitIsSound, Lands, Zenon DEF IInv

LEMMA CloseSound == ASSUME ~LateAnswers, IInv, Close PROVE IInv'
<1>1. PICK w \in Release(Abandon(Ended(World)), TRUE) :
         Becomes([w EXCEPT !.client = [StreamDown(@) EXCEPT !.attempts = 0,
                                                            !.state = "idle"]])
  BY Zenon DEF Close
<1> QED BY <1>1, CloseIsSound, Lands, Zenon DEF IInv

LEMMA OpenSound == ASSUME ~LateAnswers, IInv, NEW k \in Configs, Open(k) PROVE IInv'
<1> DEFINE Begun(x) == [x EXCEPT
               !.client = [StreamInit(@) EXCEPT !.config = k, !.attempts = 0,
                                                !.sessions = 0],
               !.log = [@ EXCEPT !.wanted = TRUE, !.reported = 0, !.ended = 0]]
<1>1. PICK x \in Release(Abandon(World), TRUE) : \E w \in BeginAttempt(Begun(x)) : Becomes(w)
  BY Zenon DEF Open, Then
<1>2. World.client.initialised
  BY WorldFields DEF Open
<1>3. Detached(Begun(x)) /\ Quiet(Begun(x))
  BY <1>2, OpenDetaches, Zenon DEF IInv
<1> HIDE DEF Begun
<1> QED BY <1>1, <1>3, DetachedBegins, Lands, Zenon

LEMMA OpenRefusedSound == ASSUME IInv, OpenRefused PROVE IInv'
<1>1. PICK w \in Release(EndedHere(World), TRUE) :
         Becomes([w EXCEPT !.client = StreamCleared(@)])
  BY Zenon DEF OpenRefused
<1>2. World.client.initialised
  BY WorldFields DEF OpenRefused
<1> QED BY <1>1, <1>2, RefusedIsSound, Lands, Zenon DEF IInv

LEMMA WriteSound == ASSUME IInv, NEW n \in Nat, Write(n) PROVE IInv'
<1>1. PICK w \in WriteBytes(World, n) : Becomes(w)
  BY Zenon DEF Write
<1>2. World.log.written + n <= MaxOutput
  BY WorldFields DEF Write
<1>3. Sound(w)
  BY <1>1, <1>2, WriteIsSound, Zenon DEF IInv
<1> QED BY <1>1, <1>3, Lands

LEMMA ReadSound == ASSUME IInv, NEW length \in Nat \ {0}, Read(length) PROVE IInv'
<1> DEFINE n == Least(length, Len(client.incoming))
           c == [client EXCEPT !.incoming = SubSeq(@, n + 1, Len(@))]
           g == [log EXCEPT !.read = client.incoming[n]]
           x == Made(c, net, lookups, g)
<1>1. client \in Clients
  BY SoundParts, WorldFields DEF IInv
<1>2. n \in 1..Len(client.incoming)
  <2>1. client.incoming \in Seq(Byte) /\ client.incoming # <<>>
    BY <1>1 DEF Clients, Read
  <2>2. Len(client.incoming) \in Nat \ {0}
    BY <2>1
  <2> QED BY <2>2 DEF Least
<1>3. Becomes(x)
  BY Zenon DEF Becomes, Made, Read
<1> HIDE DEF n
<1>4. Sound(x)
  <2>1. /\ n \in 1..Len(World.client.incoming)
        /\ c = [World.client EXCEPT !.incoming = SubSeq(@, n + 1, Len(@))]
        /\ g = [World.log EXCEPT !.read = World.client.incoming[n]]
        /\ x = Made(c, World.net, World.lookups, g)
    BY <1>2, WorldFields
  <2> HIDE DEF c, g, x
  <2> QED BY <2>1, ReadIsSound, Zenon DEF IInv
<1> HIDE DEF x
<1> QED BY <1>3, <1>4, Lands

LEMMA PollTimeoutSound == ASSUME ~LateAnswers, IInv, PollTimeout PROVE IInv'
<1>1. PICK x \in Release(Abandon(World), FALSE) : \E w \in HandleFailure(x) : Becomes(w)
  BY Zenon DEF PollTimeout, Then
<1>2. World.client.state \in {"resolving", "connecting"}
  BY WorldFields DEF PollTimeout
<1>3. Detached(x)
  BY <1>2, TimeoutDetaches, Zenon DEF IInv
<1> QED BY <1>1, <1>3, DetachedFails, Lands, Zenon

LEMMA PollRetrySound == ASSUME IInv, PollRetry PROVE IInv'
<1>1. PICK w \in BeginAttempt(World) : Becomes(w)
  BY Zenon DEF PollRetry
<1>2. World.client.state = "waiting"
  BY WorldFields DEF PollRetry
<1>3. Detached(World) /\ Quiet(World)
  BY <1>2, RetryStarts DEF IInv
<1> QED BY <1>1, <1>3, DetachedBegins, Lands, Zenon

LEMMA PollOutputSound == ASSUME IInv, PollOutput PROVE IInv'
<1>1. PICK w \in Pump(World) : Becomes(w)
  BY Zenon DEF PollOutput
<1> QED BY <1>1, PumpIsSound, Lands, Zenon DEF IInv

LEMMA LookupAnsweredSound == ASSUME IInv, LookupAnswered PROVE IInv'
<1> DEFINE y == [World EXCEPT !.lookups = @ - 1]
<1>1. PICK w \in StartConnect(y) : Becomes(w)
  BY Zenon DEF LookupAnswered
<1>2. World.lookups > 0
  BY WorldFields DEF LookupAnswered
<1>3. Detached(y) /\ Quiet(y)
  BY <1>2, AnswerDetaches, Zenon DEF IInv
<1> HIDE DEF y
<1> QED BY <1>1, <1>3, DetachedStarts, Lands, Zenon

LEMMA LookupFailedSound == ASSUME IInv, LookupFailed PROVE IInv'
<1> DEFINE y == [World EXCEPT !.lookups = @ - 1]
<1>1. PICK w \in HandleFailure(y) : Becomes(w)
  BY Zenon DEF LookupFailed
<1>2. World.lookups > 0
  BY WorldFields DEF LookupFailed
<1>3. Detached(y)
  BY <1>2, AnswerDetaches, Zenon DEF IInv
<1> HIDE DEF y
<1> QED BY <1>1, <1>3, DetachedFails, Lands, Zenon

LEMMA ConnectedSound == ASSUME IInv, NEW p \in Pcbs, NEW n \in Nat, Connected(p, n) PROVE IInv'
<1> DEFINE y == Established(World, p)
<1>1. PICK x \in WriteBytes(y, n) : \E w \in Pump(x) : Becomes(w)
  BY Zenon DEF Connected, Then
<1>2. World.net[p].mine /\ World.net[p].status = "connecting" /\ World.log.session < MaxSessions
  BY WorldFields DEF Connected
<1>3. Sound(y) /\ y.log.written = 0
  BY <1>2, EstablishedIsSound DEF IInv
<1> HIDE DEF y
<1>4. y.log.written + n <= MaxOutput
  BY <1>3 DEF Connected
<1>5. Sound(x)
  BY <1>1, <1>3, <1>4, WriteIsSound, Zenon
<1> QED BY <1>1, <1>5, PumpIsSound, Lands, Zenon

LEMMA ConnectFailedSound == ASSUME IInv, NEW p \in Pcbs, ConnectFailed(p) PROVE IInv'
<1> DEFINE y == [World EXCEPT !.client.pcb = NoPcb, !.net[p] = Unused]
<1>1. PICK w \in HandleFailure(y) : Becomes(w)
  BY Zenon DEF ConnectFailed
<1>2. World.net[p].mine /\ World.net[p].status = "connecting"
  BY WorldFields DEF ConnectFailed
<1>3. Detached(y)
  BY <1>2, ConnectFailedDetaches, Zenon DEF IInv
<1> HIDE DEF y
<1> QED BY <1>1, <1>3, DetachedFails, Lands, Zenon

LEMMA ConnectionLostSound == ASSUME IInv, NEW p \in Pcbs, ConnectionLost(p) PROVE IInv'
<1> DEFINE n == IF client.state = "connected" THEN 1 ELSE 0
           y == [World EXCEPT !.client.pcb = NoPcb, !.net[p] = Unused, !.log.reported = @ + n]
<1>1. PICK w \in HandleFailure(y) : Becomes(w)
  BY Zenon DEF ConnectionLost
<1>2. World.net[p].mine
  BY WorldFields DEF ConnectionLost
<1>3. n \in Nat /\ n = Up(World)
  <2>1. World.client.pcb = p
    BY <1>2, SoundParts DEF IInv, OwnsItsBlock
  <2> QED BY <2>1, PcbAssumption, WorldFields DEF Up, Live
<1> HIDE DEF n
<1>4. Detached(y)
  BY <1>2, <1>3, ErrorDetaches, Zenon DEF IInv
<1> HIDE DEF y
<1> QED BY <1>1, <1>4, DetachedFails, Lands, Zenon

LEMMA ReceiveCloseSound == ASSUME IInv, NEW p \in Pcbs, ReceiveClose(p) PROVE IInv'
<1> DEFINE Gone(x) == [x EXCEPT !.client.state = "idle", !.log.reported = @ + 1]
<1>1. PICK x \in Release(World, TRUE) : \E w \in HandleFailure(Gone(x)) : Becomes(w)
  BY Zenon DEF ReceiveClose, Then
<1>2. World.net[p].mine /\ World.net[p].status = "open"
  BY WorldFields DEF ReceiveClose
<1>3. Detached(Gone(x))
  BY <1>2, PeerCloseDetaches, Zenon DEF IInv
<1> HIDE DEF Gone
<1> QED BY <1>1, <1>3, DetachedFails, Lands, Zenon

LEMMA ReceiveSound == ASSUME IInv, NEW p \in Pcbs, Receive(p) PROVE IInv'
<1> DEFINE b == [net[p] EXCEPT !.toClient = Tail(@)]
           d == [client EXCEPT !.incoming = @ \o Head(net[p].toClient)]
           x == Made(d, [net EXCEPT ![p] = b], lookups, log)
<1>1. Becomes(x)
  BY Zenon DEF Becomes, Made, Receive
<1>2. /\ World.net[p].status = "open" /\ World.net[p].toClient # <<>>
      /\ CanAccept(World.client, Len(Head(World.net[p].toClient)))
  BY WorldFields DEF Receive
<1>3. /\ b = [World.net[p] EXCEPT !.toClient = Tail(@)]
      /\ d = [World.client EXCEPT !.incoming = @ \o Head(World.net[p].toClient)]
      /\ x = Made(d, [World.net EXCEPT ![p] = b], World.lookups, World.log)
  BY WorldFields
<1> HIDE DEF b, d, x
<1>4. Sound(x)
  BY <1>2, <1>3, ReceiveIsSound, Zenon DEF IInv
<1> QED BY <1>1, <1>4, Lands

LEMMA SentSound == ASSUME IInv, NEW p \in Pcbs, NEW count, Sent(p, count) PROVE IInv'
<1> DEFINE y == [World EXCEPT !.net[p].unacked = @ - count]
<1>1. PICK w \in Pump(y) : Becomes(w)
  BY Zenon DEF Sent
<1>2. World.net[p].status = "open" /\ count \in 1..World.net[p].unacked
  BY WorldFields DEF Sent
<1>3. Sound(y)
  BY <1>2, SentIsSound, Zenon DEF IInv
<1> HIDE DEF y
<1> QED BY <1>1, <1>3, PumpIsSound, Lands, Zenon

LEMMA ReclaimSound == ASSUME IInv, NEW p \in Pcbs, Reclaim(p) PROVE IInv'
<1> DEFINE x == Made(client, [net EXCEPT ![p] = Unused], lookups, log)
<1>1. Becomes(x)
  BY Zenon DEF Becomes, Made, Reclaim
<1>2. /\ World.net[p].status = "closing"
      /\ x = Made(World.client, [World.net EXCEPT ![p] = Unused], World.lookups, World.log)
  BY WorldFields DEF Reclaim
<1> HIDE DEF x
<1>3. Sound(x)
  BY <1>2, ReclaimIsSound, Zenon DEF IInv
<1> QED BY <1>1, <1>3, Lands

LEMMA PeerSendsSound ==
    ASSUME IInv, NEW p \in Pcbs, NEW n \in Nat \ {0}, PeerSends(p, n)
    PROVE  IInv'
<1> DEFINE b == [net[p] EXCEPT !.toClient = Append(@, Run(net[p].session, net[p].sent, n)),
                               !.sent = @ + n]
           x == Made(client, [net EXCEPT ![p] = b], lookups, log)
<1>1. Becomes(x)
  <2> DEFINE segment == [i \in 1..n |-> <<net[p].session, net[p].sent + i>>]
  <2>1. segment = Run(net[p].session, net[p].sent, n)
    BY Zenon DEF Run
  <2>2. net' = [net EXCEPT ![p] = [net[p] EXCEPT !.toClient = Append(@, segment),
                                                 !.sent = @ + n]]
    BY Zenon DEF PeerSends
  <2> HIDE DEF segment
  <2>3. net' = [net EXCEPT ![p] = b]
    BY <2>1, <2>2, Zenon
  <2> HIDE DEF b
  <2> QED BY <2>3, Zenon DEF Becomes, Made, PeerSends
<1>2. /\ World.net[p].status = "open" /\ World.net[p].sent + n <= MaxInput
      /\ b = [World.net[p] EXCEPT
                  !.toClient = Append(@, Run(World.net[p].session, World.net[p].sent, n)),
                  !.sent = @ + n]
      /\ x = Made(World.client, [World.net EXCEPT ![p] = b], World.lookups, World.log)
  BY WorldFields DEF PeerSends
<1> HIDE DEF b, x
<1>3. Sound(x)
  BY <1>2, PeerSendIsSound, Zenon DEF IInv
<1> QED BY <1>1, <1>3, Lands

LEMMA PeerClosesSound == ASSUME IInv, NEW p \in Pcbs, PeerCloses(p) PROVE IInv'
<1> DEFINE x == Made(client, [net EXCEPT ![p].fin = TRUE], lookups, log)
<1>1. Becomes(x)
  BY Zenon DEF Becomes, Made, PeerCloses
<1>2. /\ World.net[p].status = "open"
      /\ x = Made(World.client, [World.net EXCEPT ![p].fin = TRUE], World.lookups, World.log)
  BY WorldFields DEF PeerCloses
<1> HIDE DEF x
<1>3. Sound(x)
  BY <1>2, PeerCloseIsSound, Zenon DEF IInv
<1> QED BY <1>1, <1>3, Lands

LEMMA NothingHappens == ASSUME IInv, UNCHANGED vars PROVE IInv'
<1>1. World' = World
  BY DEF vars, World
<1> QED BY <1>1, Zenon DEF IInv

LEMMA StepSound == ASSUME ~LateAnswers, IInv, [Next]_vars PROVE IInv'
<1>1. CASE Application
  <2>1. (\A n \in 1..(TxCapacity + 1) : n \in Nat) /\ \A n \in 1..RxCapacity : n \in Nat \ {0}
    BY SizeAssumption
  <2> QED BY <1>1, <2>1, InitClientSound, DeinitSound, OpenSound, OpenRefusedSound, CloseSound, WriteSound,
             ReadSound, Zenon DEF Application
<1>2. CASE Poll
  BY <1>2, PollTimeoutSound, PollRetrySound, PollOutputSound DEF Poll
<1>3. CASE LookupAnswered \/ LookupFailed
  BY <1>3, LookupAnsweredSound, LookupFailedSound
<1>4. ASSUME NEW p \in Pcbs, Network(p) PROVE IInv'
  <2>1. (\A n \in 0..1 : n \in Nat) /\ \A n \in 1..SegmentMax : n \in Nat \ {0}
    BY SizeAssumption
  <2> QED BY <1>4, <2>1, ConnectedSound, ConnectFailedSound, ConnectionLostSound, ReceiveSound,
             ReceiveCloseSound, SentSound, ReclaimSound, PeerSendsSound, PeerClosesSound,
             Zenon DEF Network
<1>5. CASE UNCHANGED vars
  BY <1>5, NothingHappens
<1> QED BY <1>1, <1>2, <1>3, <1>4, <1>5 DEF Next

\* The world stays sound as long as the resolver answers nobody who no longer
\* waits: what every theorem below follows from.
THEOREM Invariance == ~LateAnswers => (Spec => []IInv)
<1> SUFFICES ASSUME ~LateAnswers PROVE Spec => []IInv
  OBVIOUS
<1>1. Init => IInv
  BY InitSound
<1>2. IInv /\ [Next]_vars => IInv'
  BY StepSound
<1> QED BY <1>1, <1>2, PTL DEF Spec

-----------------------------------------------------------------------------
(***************************************************************************)
(* What the invariant says of the variables.                               *)
(***************************************************************************)
LEMMA TypesFollow == IInv => TypeOK
<1> SUFFICES ASSUME IInv PROVE TypeOK
  OBVIOUS
<1>1. /\ client \in Clients /\ net \in [Pcbs -> Blocks] /\ log \in Logs
      /\ lookups \in 0..MaxLookups
  BY WorldFields, SoundParts, WorldParts DEF IInv
<1>2. client.sessions \in 0..MaxSessions
  <2>1. client.sessions <= log.session
    BY WorldFields DEF IInv, Sound, LossesAreCounted
  <2>2. log.session \in Nat /\ log.session <= MaxSessions /\ client.sessions \in Nat
    BY <1>1, BoundAssumption DEF Logs, Clients
  <2> QED BY <2>1, <2>2, BoundAssumption
<1>3. Len(client.incoming) <= RxCapacity /\ Len(client.outgoing) <= TxCapacity
  BY WorldFields DEF IInv, Sound, StreamFollowsState
<1>4. /\ client.initialised \in BOOLEAN
      /\ client.ready \in BOOLEAN /\ client.streamUp \in BOOLEAN
      /\ client.state \in States /\ client.pcb \in Pcbs \cup {NoPcb}
      /\ client.attempts \in 0..MaxAttempts /\ client.config \in Configs
      /\ client.incoming \in Seq(Byte) /\ client.outgoing \in Seq(Byte)
  BY <1>1 DEF Clients
<1>5. ASSUME NEW p \in Pcbs
      PROVE  /\ net[p].status \in {"free", "connecting", "open", "closing"}
             /\ net[p].mine \in BOOLEAN /\ net[p].fin \in BOOLEAN
             /\ net[p].session \in 0..MaxSessions
             /\ net[p].unacked \in 0..SndBuf
  BY <1>1 DEF Blocks
<1> QED BY <1>1, <1>2, <1>3, <1>4, <1>5 DEF TypeOK, Label

LEMMA BlockFollows == IInv => OneControlBlock
<1> SUFFICES ASSUME IInv PROVE OneControlBlock
  OBVIOUS
<1>1. client \in Clients /\ OwnsItsBlock(World) /\ BlockFollowsState(World)
  BY WorldFields, SoundParts DEF IInv, Sound
<1>2. {p \in Pcbs : net[p].mine} = {client.pcb} \ {NoPcb}
  <2>1. \A p \in Pcbs : net[p].mine <=> p = client.pcb
    BY <1>1, WorldFields DEF OwnsItsBlock
  <2>2. client.pcb \in Pcbs \cup {NoPcb}
    BY <1>1 DEF Clients
  <2> QED BY <2>1, <2>2, PcbAssumption
<1>3. /\ client.pcb # NoPcb => client.state \in {"connecting", "connected"}
      /\ client.ready /\ client.state \in {"connecting", "connected"} => client.pcb # NoPcb
      /\ client.pcb # NoPcb =>
            net[client.pcb].status = IF client.state = "connecting" THEN "connecting" ELSE "open"
  BY <1>1, WorldFields DEF BlockFollowsState, Fresh
<1> QED BY <1>2, <1>3 DEF OneControlBlock

LEMMA LossesFollow == IInv => EveryLossIsReported
BY WorldFields DEF IInv, Sound, LossesAreCounted, Losses, Up, EveryLossIsReported

LEMMA StreamsFollow == IInv => StreamsAreIntact
<1> SUFFICES ASSUME IInv PROVE InputIsIntact /\ OutputIsIntact
  BY DEF StreamsAreIntact
<1>1. InputIsIntact
  BY WorldFields DEF IInv, Sound, InputSoFar, InputGoesOn, InputIsIntact
<1>2. ~Live(client) => client.outgoing = <<>>
  BY StreamIsLive, WorldFields DEF IInv, Sound, StreamFollowsState
<1>3. ASSUME Live(client)
      PROVE  net[client.pcb].wire \o client.outgoing =
                [i \in 1..log.written |-> <<net[client.pcb].session, i>>]
  <2>1. net[client.pcb].wire \o client.outgoing = Run(net[client.pcb].session, 0, log.written)
    BY <1>3, WorldFields DEF IInv, Sound, OutputAddsUp
  <2>2. log.written \in Nat
    BY WorldFields, SoundParts, BoundAssumption DEF IInv, Logs
  <2> QED BY <2>1, <2>2, FromTheFirst
<1> QED BY <1>1, <1>2, <1>3 DEF OutputIsIntact

LEMMA ClosedFollows == IInv => ClosedStaysClosed
BY WorldFields DEF IInv, Sound, WaitsForWhatItAsked, BlockFollowsState, ClosedStaysClosed

\* Every field keeps the type and the size the C structures give it: no ring
\* of tcp_stream.c ever holds more than its storage.
THEOREM TypesHold == ~LateAnswers => (Spec => []TypeOK)
BY Invariance, TypesFollow, PTL

\* release_pcb and its callers: no control block is forgotten while its
\* callbacks still point at the client, none is used once lwIP has it back, and
\* a client that connects or is connected has one, unless its last open was
\* refused, when it may have none.
THEOREM OwnsOneBlock == ~LateAnswers => (Spec => []OneControlBlock)
BY Invariance, BlockFollows, PTL

\* on_closed: of the connections that came up since the last open, each is up,
\* was reported exactly once, or was ended from this side, which reports nothing.
THEOREM LossesReported == ~LateAnswers => (Spec => []EveryLossIsReported)
BY Invariance, LossesFollow, PTL

\* tcp_stream.c: both directions of each connection are whole, in order, and
\* free of what an earlier connection left.
THEOREM StreamsIntact == ~LateAnswers => (Spec => []StreamsAreIntact)
BY Invariance, StreamsFollow, PTL

\* tcp_client_close: nothing the network does brings a closed client back.
THEOREM StaysClosed == ~LateAnswers => (Spec => []ClosedStaysClosed)
BY Invariance, ClosedFollows, PTL

=============================================================================
