----------------------------- MODULE BenchProofs -----------------------------
(***************************************************************************)
(* Theorems about the hardware that drivers share and the light that they  *)
(* show (PioBlock, PwmSlice, Fade, Strip), each for every value of its     *)
(* constants, and what they and those of DriverProofs and JsonTextProofs   *)
(* say of the bench.                                                       *)
(***************************************************************************)
EXTENDS Bench, DriverProofs, JsonTextProofs, FiniteSetTheorems

-----------------------------------------------------------------------------
(***************************************************************************)
(* PioBlock                                                                *)
(***************************************************************************)

PioBlocks == [machines : Int, copies : [Programs -> Int], users : Int, channels : Int]
Handles == [on : BOOLEAN, dma : BOOLEAN]

PioType ==
    /\ block \in PioBlocks
    /\ driver \in [Strips \cup Uarts \cup Cans -> Handles]

\* What is claimed of a block, when so many strips, UARTs and buses are
\* initialised and so many of the strips have a channel.
Counted(b, strips, uarts, cans, channels) ==
    /\ b.users = strips
    /\ b.machines = strips + 2 * uarts + StateMachines * cans
    /\ b.machines <= StateMachines /\ Used(b) <= Words
    /\ b.channels = channels /\ b.channels <= DmaChannels
    /\ b.copies["ws2812"] = IF strips > 0 THEN 1 ELSE 0
    /\ b.copies["tx"] = uarts /\ b.copies["rx"] = uarts
    /\ b.copies["low"] = cans /\ b.copies["high"] = cans
    /\ cans > 0 => strips + uarts = 0

DmaNumbers == Cardinality({d \in Strips : driver[d].dma})

PioInv ==
    /\ PioType /\ NothingLeaks
    /\ \A d \in Strips : driver[d].dma => driver[d].on

-----------------------------------------------------------------------------
(* What the helpers leave of a block *)

LEMMA TimesMore ==
    ASSUME NEW k \in Nat, NEW n \in Int
    PROVE  k * n \in Int /\ k * (n + 1) = k * n + k /\ k * (n - 1) = k * n - k
OBVIOUS

Changed(b, p, c) == [b EXCEPT !.copies[p] = @ + c]

ChangedWell(b, p, c, d) ==
    /\ d \in PioBlocks /\ d.copies[p] = b.copies[p] + c
    /\ \A q \in Programs : q # p => d.copies[q] = b.copies[q]
    /\ d.machines = b.machines /\ d.users = b.users /\ d.channels = b.channels
    /\ Used(b) \in Int
    /\ Used(d) = Used(b) + SizeOf[p] * c

LEMMA UsedIs ==
    ASSUME PioAssumption, NEW c \in Int, NEW b \in PioBlocks, NEW p \in Programs,
           NEW d, d = Changed(b, p, c), c = 1 \/ c = -1
    PROVE  ChangedWell(b, p, c, d)
<1> DEFINE old == b.copies
           new == [old EXCEPT ![p] = @ + c]
<1>1. old \in [Programs -> Int] BY DEF PioBlocks
<1>2. d = [b EXCEPT !.copies = new] BY Zenon DEF Changed
<1> HIDE DEF old
<1>3. new \in [Programs -> Int] /\ new[p] = old[p] + c
      /\ \A q \in Programs : q # p => new[q] = old[q]
  BY <1>1
<1> HIDE DEF new
<1>4. d \in PioBlocks /\ d.machines = b.machines /\ d.users = b.users
      /\ d.channels = b.channels /\ d.copies = new
  BY <1>2, <1>3 DEF PioBlocks
<1>5. \A q \in Programs : SizeOf[q] \in Nat BY DEF PioAssumption
<1>6. \A q \in Programs : SizeOf[q] * old[q] \in Int
  BY <1>1, <1>5, TimesMore
<1>7. \A q \in Programs : q # p => SizeOf[q] * new[q] = SizeOf[q] * old[q]
  BY <1>3
<1>8. SizeOf[p] * new[p] = SizeOf[p] * old[p] + SizeOf[p] * c
  BY <1>1, <1>3, <1>5, TimesMore
<1>9. SizeOf[p] * c \in Int BY <1>5, TimesMore
<1> DEFINE o(q) == SizeOf[q] * old[q]
           n(q) == SizeOf[q] * new[q]
<1>10. Used(b) = o("ws2812") + o("tx") + o("rx") + o("low") + o("high")
  BY Zenon DEF Used, old
<1>11. Used(d) = n("ws2812") + n("tx") + n("rx") + n("low") + n("high")
  BY <1>4, Zenon DEF Used
<1> DEFINE m == SizeOf[p] * c
<1>12. /\ \A q \in Programs : o(q) \in Int /\ (q # p => n(q) = o(q))
       /\ n(p) = o(p) + m /\ m \in Int
  BY <1>6, <1>7, <1>8, <1>9
<1> HIDE DEF o, n, m
<1>13. Used(b) \in Int /\ Used(d) = Used(b) + m
  <2>1. p \in {"ws2812", "tx", "rx", "low", "high"} BY DEF Programs
  <2>. QED BY <1>10, <1>11, <1>12, <2>1 DEF Programs
<1>. QED BY <1>3, <1>4, <1>13 DEF m, old, ChangedWell
LEMMA LoadedIs ==
    ASSUME PioAssumption, NEW b \in PioBlocks, NEW p \in Programs
    PROVE  LET d == Loaded(b, p)
           IN  /\ d \in PioBlocks /\ d.copies[p] = b.copies[p] + 1
               /\ \A q \in Programs : q # p => d.copies[q] = b.copies[q]
               /\ d.machines = b.machines /\ d.users = b.users /\ d.channels = b.channels
               /\ Used(b) \in Int /\ Used(d) = Used(b) + SizeOf[p]
<1> DEFINE d == Loaded(b, p)
           c == 1
<1>1. d = Changed(b, p, c) BY DEF Loaded, Changed
<1>2. c = 1 /\ c \in Int /\ (c = 1 \/ c = -1) OBVIOUS
<1> HIDE DEF d, c
<1>0. ChangedWell(b, p, c, d) BY <1>1, <1>2, UsedIs
<1>3. /\ d \in PioBlocks /\ d.copies[p] = b.copies[p] + c
      /\ \A q \in Programs : q # p => d.copies[q] = b.copies[q]
      /\ d.machines = b.machines /\ d.users = b.users /\ d.channels = b.channels
      /\ Used(b) \in Int
      /\ Used(d) = Used(b) + SizeOf[p] * c
  BY <1>0, Zenon DEF ChangedWell
<1>4. SizeOf[p] * c = SizeOf[p] BY <1>2 DEF PioAssumption
<1>. QED BY <1>2, <1>3, <1>4, Zenon DEF d

LEMMA RemovedIs ==
    ASSUME PioAssumption, NEW b \in PioBlocks, NEW p \in Programs
    PROVE  LET d == Removed(b, p)
           IN  /\ d \in PioBlocks /\ d.copies[p] = b.copies[p] - 1
               /\ \A q \in Programs : q # p => d.copies[q] = b.copies[q]
               /\ d.machines = b.machines /\ d.users = b.users /\ d.channels = b.channels
               /\ Used(b) \in Int /\ Used(d) = Used(b) - SizeOf[p]
<1> DEFINE d == Removed(b, p)
           c == -1
           old == b.copies
           new == [old EXCEPT ![p] = @ + c]
           minus == [old EXCEPT ![p] = @ - 1]
<1>1. d = Changed(b, p, c)
  <2>1. old \in [Programs -> Int] BY DEF PioBlocks
  <2>2. new = minus BY <2>1
  <2>3. d = [b EXCEPT !.copies = minus] BY Zenon DEF Removed
  <2>4. Changed(b, p, c) = [b EXCEPT !.copies = new] BY Zenon DEF Changed
  <2>. QED BY <2>2, <2>3, <2>4, Zenon
<1>2. c = -1 /\ c \in Int /\ (c = 1 \/ c = -1) OBVIOUS
<1> HIDE DEF d, c
<1>0. ChangedWell(b, p, c, d) BY <1>1, <1>2, UsedIs
<1>3. /\ d \in PioBlocks /\ d.copies[p] = b.copies[p] + c
      /\ \A q \in Programs : q # p => d.copies[q] = b.copies[q]
      /\ d.machines = b.machines /\ d.users = b.users /\ d.channels = b.channels
      /\ Used(b) \in Int
      /\ Used(d) = Used(b) + SizeOf[p] * c
  BY <1>0, Zenon DEF ChangedWell
<1> DEFINE z == SizeOf[p]
           o == old[p]
           u == Used(b)
<1>4. z \in Nat /\ o \in Int BY DEF PioAssumption, PioBlocks
<1> HIDE DEF z, o, u
<1>5. u \in Int BY <1>3 DEF u
<1>6. u + z * c = u - z /\ o + c = o - 1 BY <1>2, <1>4, <1>5
<1>. QED BY <1>3, <1>6, Zenon DEF d, z, o, u

\* A block with the same programs holds the same words.
LEMMA SameUsed ==
    ASSUME NEW b, NEW d, d.copies = b.copies
    PROVE  Used(d) = Used(b)
BY Zenon DEF Used

LEMMA ClaimedIs ==
    ASSUME NEW b \in PioBlocks, NEW n \in Int
    PROVE  LET d == Claimed(b, n)
           IN  /\ d \in PioBlocks /\ d.machines = b.machines + n /\ d.copies = b.copies
               /\ d.users = b.users /\ d.channels = b.channels
               /\ Used(d) = Used(b)
<1> DEFINE d == Claimed(b, n)
<1>1. d = [b EXCEPT !.machines = @ + n] BY Zenon DEF Claimed
<1> HIDE DEF d
<1>2. /\ d \in PioBlocks /\ d.machines = b.machines + n /\ d.copies = b.copies
      /\ d.users = b.users /\ d.channels = b.channels
  BY <1>1 DEF PioBlocks
<1>. QED BY <1>2, SameUsed, Zenon DEF d

-----------------------------------------------------------------------------
(* The drivers that are initialised *)

LEMMA OneMore ==
    ASSUME NEW S, IsFiniteSet(S), NEW x, x \notin S
    PROVE  Cardinality(S \cup {x}) = Cardinality(S) + 1
BY FS_AddElement

LEMMA OneLess ==
    ASSUME NEW S, IsFiniteSet(S), NEW x \in S
    PROVE  Cardinality(S \ {x}) = Cardinality(S) - 1
BY FS_RemoveElement

LEMMA Counts ==
    ASSUME PioAssumption
    PROVE  /\ On(Strips) \in Nat /\ On(Uarts) \in Nat /\ On(Cans) \in Nat
           /\ DmaNumbers \in Nat
<1>1. \A S : IsFiniteSet(S) => \A T \in SUBSET S : IsFiniteSet(T) /\ Cardinality(T) \in Nat
  BY FS_Subset, FS_CardinalityType
<1>. QED BY <1>1 DEF On, DmaNumbers, PioAssumption

\* A handle that is initialised, or no more.
LEMMA OnIs ==
    ASSUME PioAssumption, PioType, NEW S \in {Strips, Uarts, Cans}, NEW d \in S,
           NEW switched \in BOOLEAN, NEW dma \in BOOLEAN,
           driver' = [driver EXCEPT ![d] = [on |-> switched, dma |-> dma]],
           switched # driver[d].on
    PROVE  /\ driver' \in [Strips \cup Uarts \cup Cans -> Handles]
           /\ On(S)' = IF switched THEN On(S) + 1 ELSE On(S) - 1
           /\ \A T \in {Strips, Uarts, Cans} : d \notin T => On(T)' = On(T)
           /\ \A T \in {Strips, Uarts, Cans} : T # S => d \notin T
<1>1. driver \in [Strips \cup Uarts \cup Cans -> Handles] BY DEF PioType
<1>2. d \in Strips \cup Uarts \cup Cans OBVIOUS
<1>3. /\ driver' \in [Strips \cup Uarts \cup Cans -> Handles]
      /\ driver'[d].on = switched
      /\ \A x \in Strips \cup Uarts \cup Cans : x # d => driver'[x] = driver[x]
  BY <1>1, <1>2 DEF Handles
<1>4. IsFiniteSet(S) BY DEF PioAssumption
<1> DEFINE A == {x \in S : driver[x].on}
           B == {x \in S : driver'[x].on}
<1>5. IsFiniteSet(A) BY <1>4, FS_Subset
<1>6. On(S) = Cardinality(A) /\ On(S)' = Cardinality(B) BY DEF On
<1>7. driver[d].on \in BOOLEAN BY <1>1, <1>2 DEF Handles
<1>8. ASSUME switched PROVE On(S)' = On(S) + 1
  <2>1. d \notin A /\ B = A \cup {d} BY <1>2, <1>3, <1>7, <1>8
  <2>2. Cardinality(B) = Cardinality(A) + 1 BY <1>5, <2>1, OneMore
  <2>. QED BY <1>6, <1>8, <2>2, Zenon
<1>9. ASSUME ~switched PROVE On(S)' = On(S) - 1
  <2>1. d \in A /\ B = A \ {d} BY <1>2, <1>3, <1>7, <1>9
  <2>2. Cardinality(B) = Cardinality(A) - 1 BY <1>5, <2>1, OneLess
  <2>. QED BY <1>6, <1>9, <2>2, Zenon
<1>10. ASSUME NEW T \in {Strips, Uarts, Cans}, d \notin T
       PROVE  On(T)' = On(T)
  <2>1. {x \in T : driver'[x].on} = {x \in T : driver[x].on} BY <1>3, <1>10
  <2>. QED BY <2>1 DEF On
<1>11. \A T \in {Strips, Uarts, Cans} : T # S => d \notin T
  BY DEF PioAssumption
<1>12. On(S)' = IF switched THEN On(S) + 1 ELSE On(S) - 1
  BY <1>8, <1>9, Zenon
<1>. QED BY <1>3, <1>10, <1>11, <1>12
-----------------------------------------------------------------------------
(* A refusal undoes what was done *)

LEMMA LoadUndone ==
    ASSUME NEW b \in PioBlocks, NEW p \in Programs
    PROVE  Removed(Loaded(b, p), p) = b
<1> DEFINE old == b.copies
           new == [old EXCEPT ![p] = @ + 1]
           l == Loaded(b, p)
           back == [new EXCEPT ![p] = @ - 1]
<1>1. old \in [Programs -> Int] BY DEF PioBlocks
<1>2. l = [b EXCEPT !.copies = new] BY Zenon DEF Loaded
<1>3. new \in [Programs -> Int] /\ back = old BY <1>1
<1> HIDE DEF old, new, back
<1>4. l \in PioBlocks /\ l.copies = new BY <1>2, <1>3 DEF PioBlocks
<1>5. [b EXCEPT !.copies = old] = b BY DEF PioBlocks, old
<1>6. [l EXCEPT !.copies = back] = [b EXCEPT !.copies = back]
  BY <1>2, <1>3, <1>4 DEF PioBlocks
<1>7. Removed(l, p) = [l EXCEPT !.copies = back]
  BY <1>4, Zenon DEF Removed, back
<1>. QED BY <1>3, <1>5, <1>6, <1>7, Zenon

LEMMA ClaimUndone ==
    ASSUME NEW b \in PioBlocks, NEW n \in Int
    PROVE  Claimed(Claimed(b, n), -n) = b
<1>1. b.machines \in Int BY DEF PioBlocks
<1> DEFINE c == Claimed(b, n)
<1>2. c \in PioBlocks /\ c.machines = b.machines + n /\ c = [b EXCEPT !.machines = @ + n]
  BY ClaimedIs DEF Claimed
<1> DEFINE m == c.machines + (-n)
<1>3. m = b.machines BY <1>1, <1>2
<1>4. Claimed(c, -n) = [c EXCEPT !.machines = m] BY Zenon DEF Claimed
<1> HIDE DEF c, m
<1>5. [c EXCEPT !.machines = m] = b BY <1>2, <1>3 DEF PioBlocks
<1>. QED BY <1>4, <1>5, Zenon DEF c

LEMMA AcquireUndone ==
    ASSUME NEW b \in PioBlocks, b.users \in Nat
    PROVE  Released(Acquired(b)) = b
<1> DEFINE l == IF b.users = 0 THEN Loaded(b, "ws2812") ELSE b
           a == [l EXCEPT !.users = @ + 1]
           fewer == [a EXCEPT !.users = @ - 1]
<1>1. "ws2812" \in Programs BY DEF Programs
<1>2. l \in PioBlocks /\ l.users = b.users
  <2>1. Loaded(b, "ws2812") = [b EXCEPT !.copies["ws2812"] = @ + 1] BY DEF Loaded
  <2>. QED BY <1>1, <2>1 DEF PioBlocks
<1>3. Acquired(b) = a BY Zenon DEF Acquired
<1>4. Released(a) = IF fewer.users = 0 THEN Removed(fewer, "ws2812") ELSE fewer
  BY Zenon DEF Released
<1> HIDE DEF l
<1>5. fewer = l
  <2>1. l.users \in Int BY <1>2 DEF PioBlocks
  <2>2. a \in PioBlocks /\ a.users = l.users + 1 BY <1>2, <2>1 DEF PioBlocks
  <2> DEFINE n == a.users - 1
  <2>3. n = l.users BY <2>1, <2>2
  <2>4. fewer = [a EXCEPT !.users = n] BY Zenon
  <2> HIDE DEF n
  <2>5. [a EXCEPT !.users = n] = l BY <1>2, <2>2, <2>3 DEF PioBlocks
  <2>. QED BY <2>4, <2>5, Zenon
<1> HIDE DEF fewer, a
<1>6. CASE b.users = 0
  <2>1. l = Loaded(b, "ws2812") BY <1>6, Zenon DEF l
  <2>3. fewer.users = 0 BY <1>2, <1>5, <1>6
  <2>4. Released(a) = Removed(fewer, "ws2812") BY <1>4, <2>3, Zenon
  <2>2. Released(a) = Removed(l, "ws2812") BY <1>5, <2>4, Zenon
  <2>. QED BY <1>1, <1>3, <2>1, <2>2, LoadUndone
<1>7. CASE b.users # 0
  <2>1. l = b BY <1>7, Zenon DEF l
  <2>2. fewer.users # 0 BY <1>5, <1>7, <2>1
  <2>3. Released(a) = fewer BY <1>4, <2>2, Zenon
  <2>. QED BY <1>3, <1>5, <2>1, <2>3, Zenon
<1>. QED BY <1>6, <1>7

LEMMA LeaksAre ==
    NothingLeaks <=> Counted(block, On(Strips), On(Uarts), On(Cans), DmaNumbers)
BY Zenon DEF NothingLeaks, Counted, DmaNumbers

LEMMA ChannelsStay ==
    ASSUME PioType, NEW d \in Strips \cup Uarts \cup Cans, NEW h \in Handles,
           driver' = [driver EXCEPT ![d] = h], PioAssumption
    PROVE  /\ d \notin Strips \/ h.dma = driver[d].dma => DmaNumbers' = DmaNumbers
           /\ d \in Strips /\ h.dma /\ ~driver[d].dma => DmaNumbers' = DmaNumbers + 1
           /\ d \in Strips /\ ~h.dma /\ driver[d].dma => DmaNumbers' = DmaNumbers - 1
<1>1. /\ driver'[d] = h
      /\ \A x \in Strips \cup Uarts \cup Cans : x # d => driver'[x] = driver[x]
  BY DEF PioType
<1> DEFINE A == {x \in Strips : driver[x].dma}
           B == {x \in Strips : driver'[x].dma}
<1>2. DmaNumbers = Cardinality(A) /\ DmaNumbers' = Cardinality(B) BY DEF DmaNumbers
<1>3. IsFiniteSet(A) BY FS_Subset DEF PioAssumption
<1>4. ASSUME d \notin Strips \/ h.dma = driver[d].dma PROVE DmaNumbers' = DmaNumbers
  <2>1. A = B BY <1>1, <1>4
  <2>. QED BY <1>2, <2>1
<1>5. ASSUME d \in Strips, h.dma, ~driver[d].dma PROVE DmaNumbers' = DmaNumbers + 1
  <2>1. d \notin A /\ B = A \cup {d} BY <1>1, <1>5
  <2>2. Cardinality(B) = Cardinality(A) + 1 BY <1>3, <2>1, OneMore
  <2>. QED BY <1>2, <2>2, Zenon
<1>6. ASSUME d \in Strips, ~h.dma, driver[d].dma PROVE DmaNumbers' = DmaNumbers - 1
  <2>1. d \in A /\ B = A \ {d} BY <1>1, <1>6
  <2>2. Cardinality(B) = Cardinality(A) - 1 BY <1>3, <2>1, OneLess
  <2>. QED BY <1>2, <2>2, Zenon
<1>. QED BY <1>4, <1>5, <1>6, Zenon
LEMMA RefusalKeeps ==
    ASSUME PioInv, Refuses(block)
    PROVE  PioInv'
<1>1. block' = block /\ driver' = driver BY DEF Refuses
<1>2. NothingLeaks' BY <1>1, Zenon DEF PioInv, NothingLeaks, On, Used
<1>3. PioType' BY <1>1 DEF PioInv, PioType
<1>. QED BY <1>1, <1>2, <1>3, Zenon DEF PioInv

\* Numbers that the invariant says nothing leaks of.
Balance(b, s, u, c, e) ==
    /\ s \in Nat /\ u \in Nat /\ c \in Nat /\ e \in Nat
    /\ b \in PioBlocks /\ Counted(b, s, u, c, e)

LEMMA InvBalance ==
    ASSUME PioAssumption, PioInv
    PROVE  Balance(block, On(Strips), On(Uarts), On(Cans), DmaNumbers)
BY Counts, LeaksAre DEF PioInv, PioType, Balance

\* A bus takes all state machines, so nothing else is on beside it.
LEMMA BusIsAlone ==
    ASSUME PioAssumption, NEW b, NEW s, NEW u, NEW c, NEW e, Balance(b, s, u, c, e)
    PROVE  /\ c > 0 => c = 1 /\ s = 0 /\ u = 0 /\ b.machines = StateMachines
           /\ b.machines = 0 => s = 0 /\ u = 0 /\ c = 0
           /\ c = 0 => b.machines = s + 2 * u
<1> DEFINE k == StateMachines * c
<1>1. s \in Nat /\ u \in Nat /\ c \in Nat /\ StateMachines \in Nat \ {0}
  BY DEF Balance, PioAssumption
<1>2. k \in Nat /\ (c > 0 => k >= StateMachines) /\ (c = 0 => k = 0)
      /\ (c > 1 => k >= 2 * StateMachines)
  BY <1>1
<1>3. c = 1 => k = StateMachines BY <1>1
<1> HIDE DEF k
<1>4. b.machines = s + 2 * u + k /\ b.machines <= StateMachines
      /\ (c > 0 => s + u = 0)
  BY DEF Balance, Counted, k
<1>. QED BY <1>1, <1>2, <1>3, <1>4

\* A handle that is initialised, or no longer.
LEMMA InvOf ==
    ASSUME PioAssumption, PioInv, NEW S \in {Strips, Uarts, Cans}, NEW d \in S,
           NEW switched \in BOOLEAN, NEW dma \in BOOLEAN, dma => switched /\ S = Strips,
           switched # driver[d].on,
           driver' = [driver EXCEPT ![d] = [on |-> switched, dma |-> dma]],
           block' \in PioBlocks,
           Counted(block', On(Strips)', On(Uarts)', On(Cans)', DmaNumbers')
    PROVE  PioInv'
<1>1. PioType' BY OnIs DEF PioInv, PioType
<1>2. NothingLeaks' BY Zenon DEF NothingLeaks, Counted, DmaNumbers
<1>3. \A x \in Strips : driver'[x].dma => driver'[x].on
  <2>1. /\ driver'[d].on = switched /\ driver'[d].dma = dma
        /\ \A x \in Strips \cup Uarts \cup Cans : x # d => driver'[x] = driver[x]
    BY DEF PioInv, PioType
  <2>. QED BY <2>1 DEF PioInv
<1>. QED BY <1>1, <1>2, <1>3, Zenon DEF PioInv
-----------------------------------------------------------------------------
(* Initialising and taking back *)

\* program_acquire, when it succeeds.
LEMMA AcquiredIs ==
    ASSUME PioAssumption, NEW b, NEW s, NEW u, NEW c, NEW e, Balance(b, s, u, c, e),
           CanAcquire(b)
    PROVE  LET a == Acquired(b)
           IN  /\ a \in PioBlocks /\ a.users = s + 1 /\ a.copies["ws2812"] = 1
               /\ \A q \in Programs : q # "ws2812" => a.copies[q] = b.copies[q]
               /\ a.machines = b.machines /\ a.channels = b.channels
               /\ Used(a) <= Words
<1> DEFINE l == IF b.users = 0 THEN Loaded(b, "ws2812") ELSE b
           a == [l EXCEPT !.users = @ + 1]
<1>1. "ws2812" \in Programs /\ b \in PioBlocks /\ s \in Nat BY DEF Programs, Balance
<1>2. b.users = s /\ Used(b) <= Words BY DEF Balance, Counted
<1>3. b.copies["ws2812"] = IF s > 0 THEN 1 ELSE 0 BY DEF Balance, Counted
<1>4. /\ l \in PioBlocks /\ l.users = s /\ l.copies["ws2812"] = 1
      /\ \A q \in Programs : q # "ws2812" => l.copies[q] = b.copies[q]
      /\ l.machines = b.machines /\ l.channels = b.channels /\ Used(l) <= Words
  <2>1. CASE b.users = 0
    <3> DEFINE m == Loaded(b, "ws2812")
    <3>1. l = m BY <2>1, Zenon
    <3>2. /\ m \in PioBlocks /\ m.copies["ws2812"] = b.copies["ws2812"] + 1
          /\ \A q \in Programs : q # "ws2812" => m.copies[q] = b.copies[q]
          /\ m.machines = b.machines /\ m.users = b.users /\ m.channels = b.channels
          /\ Used(m) = Used(b) + SizeOf["ws2812"]
      BY <1>1, LoadedIs
    <3>3. Used(b) + SizeOf["ws2812"] <= Words
      <4>1. ~(b.users > 0) BY <2>1
      <4>. QED BY <4>1, Zenon DEF CanAcquire, Fits
    <3> HIDE DEF m, l
    <3>4. m.copies["ws2812"] = 1
      <4> DEFINE x == m.copies["ws2812"]
                 y == b.copies["ws2812"]
      <4>1. ~(s > 0) BY <1>1, <1>2, <2>1
      <4>2. y = 0 BY <1>3, <4>1, Zenon
      <4>3. x = y + 1 BY <3>2, Zenon
      <4> HIDE DEF x, y
      <4>4. x = 1 BY <4>2, <4>3
      <4>. QED BY <4>4 DEF x
    <3>5. Used(m) <= Words BY <3>2, <3>3, Zenon
    <3>. QED BY <1>2, <3>1, <3>2, <3>4, <3>5, Zenon
  <2>2. CASE b.users # 0
    <3>1. l = b BY <2>2, Zenon
    <3> HIDE DEF l
    <3>2. b.copies["ws2812"] = 1 BY <1>1, <1>2, <1>3, <2>2
    <3>. QED BY <1>1, <1>2, <3>1, <3>2
  <2>. QED BY <2>1, <2>2
<1> HIDE DEF l
<1>5. /\ a \in PioBlocks /\ a.users = s + 1 /\ a.copies = l.copies
      /\ a.machines = l.machines /\ a.channels = l.channels
  BY <1>4 DEF PioBlocks
<1> HIDE DEF a
<1>6. Used(a) = Used(l) BY <1>5, SameUsed
<1>7. Acquired(b) = a BY Zenon DEF Acquired, a, l
<1>8. a.copies["ws2812"] = 1 /\ \A q \in Programs : q # "ws2812" => a.copies[q] = b.copies[q]
  BY <1>4, <1>5, Zenon
<1>9. a.machines = b.machines /\ a.channels = b.channels /\ Used(a) <= Words
  BY <1>4, <1>5, <1>6, Zenon
<1>. QED BY <1>5, <1>7, <1>8, <1>9, Zenon

\* program_release.
LEMMA ReleasedIs ==
    ASSUME PioAssumption, NEW b, NEW s, NEW u, NEW c, NEW e, Balance(b, s, u, c, e), s > 0,
           NEW k \in PioBlocks, k.users = b.users, k.copies = b.copies
    PROVE  LET a == Released(k)
           IN  /\ a \in PioBlocks /\ a.users = s - 1
               /\ a.copies["ws2812"] = IF s - 1 > 0 THEN 1 ELSE 0
               /\ \A q \in Programs : q # "ws2812" => a.copies[q] = b.copies[q]
               /\ a.machines = k.machines /\ a.channels = k.channels
               /\ Used(a) <= Words
<1> DEFINE f == [k EXCEPT !.users = @ - 1]
<1>1. "ws2812" \in Programs /\ s \in Nat \ {0} BY DEF Programs, Balance
<1>2. b.users = s /\ Used(b) <= Words /\ b.copies["ws2812"] = 1
  BY <1>1 DEF Balance, Counted
<1>3. /\ f \in PioBlocks /\ f.users = s - 1 /\ f.copies = b.copies
      /\ f.machines = k.machines /\ f.channels = k.channels
  BY <1>1, <1>2 DEF PioBlocks
<1>4. Released(k) = IF f.users = 0 THEN Removed(f, "ws2812") ELSE f
  BY Zenon DEF Released
<1> HIDE DEF f
<1>5. Used(f) = Used(b) BY <1>3, SameUsed
<1>6. CASE s - 1 = 0
  <2> DEFINE r == Removed(f, "ws2812")
  <2>1. Released(k) = r BY <1>3, <1>4, <1>6, Zenon
  <2>2. /\ r \in PioBlocks /\ r.copies["ws2812"] = f.copies["ws2812"] - 1
        /\ \A q \in Programs : q # "ws2812" => r.copies[q] = f.copies[q]
        /\ r.machines = f.machines /\ r.users = f.users /\ r.channels = f.channels
        /\ Used(f) \in Int /\ Used(r) = Used(f) - SizeOf["ws2812"]
    BY <1>1, <1>3, RemovedIs
  <2>3. SizeOf["ws2812"] \in Nat /\ Words \in Nat BY <1>1 DEF PioAssumption
  <2> HIDE DEF r
  <2>4. Used(r) <= Words BY <1>2, <1>5, <2>2, <2>3
  <2>5. r.copies["ws2812"] = 0 BY <1>2, <1>3, <2>2
  <2>6. ~(s - 1 > 0) BY <1>6
  <2>7. r.copies["ws2812"] = IF s - 1 > 0 THEN 1 ELSE 0 BY <2>5, <2>6, Zenon
  <2>. QED BY <1>3, <2>1, <2>2, <2>4, <2>7, Zenon
<1>7. CASE s - 1 # 0
  <2>1. Released(k) = f BY <1>3, <1>4, <1>7, Zenon
  <2>2. s - 1 > 0 BY <1>1, <1>7
  <2>3. f.copies["ws2812"] = IF s - 1 > 0 THEN 1 ELSE 0 BY <1>2, <1>3, <2>2, Zenon
  <2>. QED BY <1>2, <1>3, <1>5, <2>1, <2>3, Zenon
<1>. QED BY <1>6, <1>7
LEMMA StripTakesKeeps ==
    ASSUME PioAssumption, PioInv, NEW d \in Strips, StripTakes(d)
    PROVE  PioInv'
<1> DEFINE acquired == Acquired(block)
           claimed == Claimed(acquired, 1)
           s == On(Strips)
           u == On(Uarts)
           c == On(Cans)
           e == DmaNumbers
<1>1. Balance(block, s, u, c, e) BY InvBalance
<1>2. block \in PioBlocks /\ block.users \in Nat BY <1>1 DEF Balance, Counted
<1>3. CASE Refuses(block) BY <1>3, RefusalKeeps
<1>4. CASE ~Refuses(block)
  <2>1. CanAcquire(block) BY <1>4, Zenon DEF StripTakes
  <2>2. /\ acquired \in PioBlocks /\ acquired.users = s + 1 /\ acquired.copies["ws2812"] = 1
        /\ \A q \in Programs : q # "ws2812" => acquired.copies[q] = block.copies[q]
        /\ acquired.machines = block.machines /\ acquired.channels = block.channels
        /\ Used(acquired) <= Words
    BY <1>1, <2>1, AcquiredIs
  <2>3. Released(acquired) = block BY <1>2, AcquireUndone
  <2>4. Claimed(claimed, -1) = acquired BY <2>2, ClaimUndone
  <2>5. PICK dma \in BOOLEAN :
          /\ ~(FreeMachines(acquired) < 1) /\ ~(dma /\ claimed.channels = DmaChannels)
          /\ Takes(d, IF dma THEN [claimed EXCEPT !.channels = @ + 1] ELSE claimed, dma)
    <3>1. ~Refuses(Released(acquired)) BY <1>4, <2>3, Zenon
    <3>2. ~Refuses(Released(Claimed(claimed, -1))) BY <3>1, <2>4, Zenon
    <3>. QED BY <2>1, <3>1, <3>2, Zenon DEF StripTakes
  <2> DEFINE b == IF dma THEN [claimed EXCEPT !.channels = @ + 1] ELSE claimed
  <2>6. /\ claimed \in PioBlocks /\ claimed.machines = acquired.machines + 1
        /\ claimed.copies = acquired.copies /\ claimed.users = acquired.users
        /\ claimed.channels = acquired.channels
    BY <2>2, ClaimedIs
  <2>7. block' = b /\ driver' = [driver EXCEPT ![d] = [on |-> TRUE, dma |-> dma]]
    BY <2>5, Zenon DEF Takes
  <2>8. ~driver[d].on /\ ~driver[d].dma BY DEF StripTakes, PioInv
  <2>9. d \in Strips \cup Uarts \cup Cans /\ [on |-> TRUE, dma |-> dma] \in Handles
    BY DEF Handles
  <2>10. /\ On(Strips)' = s + 1 /\ On(Uarts)' = u /\ On(Cans)' = c
    <3>1. TRUE # driver[d].on BY <2>8
    <3>. QED BY <2>7, <3>1, OnIs DEF PioInv, PioAssumption
  <2>11. DmaNumbers' = IF dma THEN e + 1 ELSE e
    <3>1. driver[d].dma = FALSE BY <2>8, <2>9 DEF PioInv, PioType, Handles
    <3> DEFINE h == [on |-> TRUE, dma |-> dma]
    <3>2. h.dma = dma /\ h \in Handles BY <2>9
    <3>3. driver' = [driver EXCEPT ![d] = h] BY <2>7
    <3> HIDE DEF h
    <3>4. /\ d \notin Strips \/ h.dma = driver[d].dma => DmaNumbers' = DmaNumbers
          /\ d \in Strips /\ h.dma /\ ~driver[d].dma => DmaNumbers' = DmaNumbers + 1
      BY <2>9, <3>2, <3>3, ChannelsStay DEF PioInv
    <3>5. CASE dma BY <2>8, <3>2, <3>4, <3>5, Zenon
    <3>6. CASE ~dma
      <4>1. h.dma = driver[d].dma BY <3>1, <3>2, <3>6
      <4>. QED BY <3>4, <3>6, <4>1, Zenon
    <3>. QED BY <3>5, <3>6
  <2> HIDE DEF acquired, claimed
  <2>12. /\ b \in PioBlocks /\ b.machines = block.machines + 1 /\ b.users = s + 1
         /\ b.copies = acquired.copies
         /\ b.channels = IF dma THEN block.channels + 1 ELSE block.channels
    BY <2>2, <2>6 DEF PioBlocks
  <2> HIDE DEF b
  <2>13. Used(b) <= Words
    <3>1. Used(b) = Used(acquired) BY <2>12, SameUsed
    <3>. QED BY <2>2, <3>1, Zenon
  <2> DEFINE k == StateMachines * c
  <2>14. /\ s \in Nat /\ u \in Nat /\ c \in Nat /\ e \in Nat
         /\ block.machines = s + 2 * u + k /\ block.channels = e /\ e <= DmaChannels
         /\ block.copies["tx"] = u /\ block.copies["rx"] = u
         /\ block.copies["low"] = c /\ block.copies["high"] = c
         /\ (c > 0 => s + u = 0)
    BY <1>1, Zenon DEF Balance, Counted
  <2>15. k \in Nat /\ StateMachines \in Nat /\ DmaChannels \in Nat
    BY <2>14 DEF PioAssumption
  <2> HIDE DEF s, u, c, e, k
  <2>16. block.machines + 1 <= StateMachines
    BY <2>2, <2>5, <2>14, <2>15 DEF FreeMachines
  <2>17. c = 0
    <3>1. c > 0 => block.machines = StateMachines BY <1>1, BusIsAlone
    <3>. QED BY <2>14, <2>15, <2>16, <3>1
  <2>18. b.machines = (s + 1) + 2 * u + k BY <2>12, <2>14, <2>15
  <2>19. b.channels <= DmaChannels /\ (dma => b.channels = e + 1) /\ (~dma => b.channels = e)
    BY <2>2, <2>5, <2>6, <2>12, <2>14, <2>15
  <2>20. /\ b.copies["tx"] = u /\ b.copies["rx"] = u
         /\ b.copies["low"] = c /\ b.copies["high"] = c /\ b.copies["ws2812"] = 1
    <3>1. /\ "tx" \in Programs /\ "rx" \in Programs /\ "low" \in Programs
          /\ "high" \in Programs /\ "tx" # "ws2812" /\ "rx" # "ws2812"
          /\ "low" # "ws2812" /\ "high" # "ws2812"
      BY DEF Programs
    <3>. QED BY <2>2, <2>12, <2>14, <3>1, Zenon
  <2>21. s + 1 > 0 /\ ~(c > 0) /\ b.machines <= StateMachines
    BY <2>12, <2>14, <2>16, <2>17
  <2> DEFINE f == IF dma THEN e + 1 ELSE e
  <2>22. b.channels = f BY <2>19
  <2> HIDE DEF f
  <2>23. Counted(b, s + 1, u, c, f)
    BY <2>12, <2>13, <2>18, <2>19, <2>20, <2>21, <2>22, Zenon DEF Counted, k
  <2>24. Counted(block', On(Strips)', On(Uarts)', On(Cans)', DmaNumbers')
    BY <2>7, <2>10, <2>11, <2>23, Zenon DEF b, f
  <2>25. block' \in PioBlocks BY <2>7, <2>12 DEF b
  <2>26. TRUE # driver[d].on BY <2>8
  <2>. QED BY <2>7, <2>24, <2>25, <2>26, InvOf
<1>. QED BY <1>3, <1>4
LEMMA SomeOn ==
    ASSUME PioAssumption, NEW S \in {Strips, Uarts, Cans}, NEW d \in S, driver[d].on
    PROVE  On(S) \in Nat /\ On(S) > 0
<1> DEFINE A == {x \in S : driver[x].on}
<1>1. IsFiniteSet(A) BY FS_Subset DEF PioAssumption
<1>2. d \in A OBVIOUS
<1>3. Cardinality(A) \in Nat /\ Cardinality(A) # 0
  BY <1>1, <1>2, FS_CardinalityType, FS_EmptySet
<1>. QED BY <1>3 DEF On

LEMMA StripGivesKeeps ==
    ASSUME PioAssumption, PioInv, NEW d \in Strips, StripGives(d)
    PROVE  PioInv'
<1> DEFINE claimed == Claimed(block, -1)
           k == [claimed EXCEPT !.channels = IF driver[d].dma THEN @ - 1 ELSE @]
           b == Released(k)
           s == On(Strips)
           u == On(Uarts)
           c == On(Cans)
           e == DmaNumbers
           f == IF driver[d].dma THEN e - 1 ELSE e
<1>1. Balance(block, s, u, c, e) BY InvBalance
<1>2. /\ driver[d].on /\ block' = b
      /\ driver' = [driver EXCEPT ![d] = [on |-> FALSE, dma |-> FALSE]]
  BY Zenon DEF StripGives
<1>3. /\ claimed \in PioBlocks /\ claimed.machines = block.machines + (-1)
      /\ claimed.copies = block.copies /\ claimed.users = block.users
      /\ claimed.channels = block.channels
  <2>1. block \in PioBlocks BY <1>1, Zenon DEF Balance
  <2>2. -1 \in Int OBVIOUS
  <2>. QED BY <2>1, <2>2, ClaimedIs
<1>4. d \in Strips \cup Uarts \cup Cans /\ [on |-> FALSE, dma |-> FALSE] \in Handles
      /\ driver[d] \in Handles /\ FALSE # driver[d].on
  BY <1>2 DEF Handles, PioInv, PioType
<1>5. On(Strips)' = s - 1 /\ On(Uarts)' = u /\ On(Cans)' = c
  BY <1>2, <1>4, OnIs DEF PioInv, PioAssumption
<1>6. DmaNumbers' = f
  <2> DEFINE h == [on |-> FALSE, dma |-> FALSE]
  <2>1. h.dma = FALSE /\ h \in Handles BY <1>4
  <2>2. driver' = [driver EXCEPT ![d] = h] BY <1>2
  <2> HIDE DEF h
  <2>3. /\ d \notin Strips \/ h.dma = driver[d].dma => DmaNumbers' = DmaNumbers
        /\ d \in Strips /\ ~h.dma /\ driver[d].dma => DmaNumbers' = DmaNumbers - 1
    BY <1>4, <2>1, <2>2, ChannelsStay DEF PioInv
  <2>4. CASE driver[d].dma BY <2>1, <2>3, <2>4, Zenon
  <2>5. CASE ~driver[d].dma
    <3>1. h.dma = driver[d].dma BY <1>4, <2>1, <2>5 DEF Handles
    <3>. QED BY <2>3, <2>5, <3>1, Zenon
  <2>. QED BY <2>4, <2>5
<1> HIDE DEF claimed
<1>7. /\ k \in PioBlocks /\ k.machines = block.machines + (-1)
      /\ k.copies = block.copies /\ k.users = block.users
      /\ k.channels = IF driver[d].dma THEN block.channels - 1 ELSE block.channels
  <2> DEFINE x == IF driver[d].dma THEN claimed.channels - 1 ELSE claimed.channels
  <2>1. k = [claimed EXCEPT !.channels = x] OBVIOUS
  <2>2. x \in Int
    <3>1. claimed.channels \in Int BY <1>3 DEF PioBlocks
    <3>2. claimed.channels - 1 \in Int BY <3>1
    <3>. QED BY <3>1, <3>2, Zenon
  <2>3. x = IF driver[d].dma THEN block.channels - 1 ELSE block.channels
    BY <1>3, Zenon
  <2> HIDE DEF k, x
  <2>4. /\ k \in PioBlocks /\ k.machines = claimed.machines /\ k.copies = claimed.copies
        /\ k.users = claimed.users /\ k.channels = x
    BY <1>3, <2>1, <2>2 DEF PioBlocks
  <2>. QED BY <1>3, <2>3, <2>4, Zenon
<1> HIDE DEF k
<1>8. s \in Nat /\ s > 0
  <2>1. Strips \in {Strips, Uarts, Cans} OBVIOUS
  <2>. QED BY <1>2, <2>1, SomeOn
<1>9. /\ b \in PioBlocks /\ b.users = s - 1
      /\ b.copies["ws2812"] = IF s - 1 > 0 THEN 1 ELSE 0
      /\ \A q \in Programs : q # "ws2812" => b.copies[q] = block.copies[q]
      /\ b.machines = k.machines /\ b.channels = k.channels
      /\ Used(b) <= Words
  BY <1>1, <1>7, <1>8, ReleasedIs
<1> DEFINE n == StateMachines * c
<1>10. /\ s \in Nat /\ u \in Nat /\ c \in Nat /\ e \in Nat
       /\ block.machines = s + 2 * u + n /\ block.machines <= StateMachines
       /\ block.channels = e /\ e <= DmaChannels
       /\ block.copies["tx"] = u /\ block.copies["rx"] = u
       /\ block.copies["low"] = c /\ block.copies["high"] = c
       /\ (c > 0 => s + u = 0)
  BY <1>1, Zenon DEF Balance, Counted
<1>11. n \in Nat /\ StateMachines \in Nat /\ DmaChannels \in Nat
  BY <1>10 DEF PioAssumption
<1> HIDE DEF s, u, c, e, n, b
<1>12. ~(c > 0) BY <1>8, <1>10
<1>13. b.machines = (s - 1) + 2 * u + n /\ b.machines <= StateMachines
  BY <1>7, <1>9, <1>10, <1>11
<1>14. (driver[d].dma => b.channels = e - 1) /\ (~driver[d].dma => b.channels = e)
       /\ b.channels <= DmaChannels
  BY <1>7, <1>9, <1>10, <1>11
<1>15. b.channels = f BY <1>14, Zenon
<1>16. /\ b.copies["tx"] = u /\ b.copies["rx"] = u
       /\ b.copies["low"] = c /\ b.copies["high"] = c
  <2>1. /\ "tx" \in Programs /\ "rx" \in Programs /\ "low" \in Programs
        /\ "high" \in Programs /\ "tx" # "ws2812" /\ "rx" # "ws2812"
        /\ "low" # "ws2812" /\ "high" # "ws2812"
    BY DEF Programs
  <2>. QED BY <1>9, <1>10, <2>1, Zenon
<1> HIDE DEF f
<1>17. Counted(b, s - 1, u, c, f)
  BY <1>9, <1>12, <1>13, <1>14, <1>15, <1>16, Zenon DEF Counted, n
<1>18. Counted(block', On(Strips)', On(Uarts)', On(Cans)', DmaNumbers')
  BY <1>2, <1>5, <1>6, <1>17, Zenon
<1>19. block' \in PioBlocks BY <1>2, <1>9
<1>. QED BY <1>2, <1>4, <1>18, <1>19, InvOf
\* The handle of a driver without a strip.
LEMMA OtherIs ==
    ASSUME PioAssumption, PioInv, NEW S \in {Uarts, Cans}, NEW d \in S, NEW switched \in BOOLEAN,
           switched # driver[d].on,
           driver' = [driver EXCEPT ![d] = [on |-> switched, dma |-> FALSE]]
    PROVE  /\ DmaNumbers' = DmaNumbers /\ d \notin Strips
           /\ On(S)' = IF switched THEN On(S) + 1 ELSE On(S) - 1
           /\ \A T \in {Strips, Uarts, Cans} : T # S => On(T)' = On(T)
           /\ d \notin Uarts \/ d \notin Cans
<1> DEFINE h == [on |-> switched, dma |-> FALSE]
<1>1. d \in Strips \cup Uarts \cup Cans /\ d \notin Strips /\ h \in Handles /\ PioType
      /\ (d \notin Uarts \/ d \notin Cans)
  BY DEF Handles, PioInv, PioAssumption
<1>2. driver' = [driver EXCEPT ![d] = h] OBVIOUS
<1> HIDE DEF h
<1>3. DmaNumbers' = DmaNumbers BY <1>1, <1>2, ChannelsStay
<1>4. S \in {Strips, Uarts, Cans} OBVIOUS
<1>5. /\ On(S)' = IF switched THEN On(S) + 1 ELSE On(S) - 1
      /\ \A T \in {Strips, Uarts, Cans} : d \notin T => On(T)' = On(T)
      /\ \A T \in {Strips, Uarts, Cans} : T # S => d \notin T
  <2>1. CASE switched = TRUE
    <3>1. TRUE # driver[d].on BY <2>1
    <3>2. driver' = [driver EXCEPT ![d] = [on |-> TRUE, dma |-> FALSE]] BY <2>1
    <3>. QED BY <1>1, <1>4, <2>1, <3>1, <3>2, OnIs
  <2>2. CASE switched = FALSE
    <3>1. FALSE # driver[d].on BY <2>2
    <3>2. driver' = [driver EXCEPT ![d] = [on |-> FALSE, dma |-> FALSE]] BY <2>2
    <3>. QED BY <1>1, <1>4, <2>2, <3>1, <3>2, OnIs
  <2>. QED BY <2>1, <2>2
<1>. QED BY <1>1, <1>3, <1>5
\* The numbers of a balance.
LEMMA BalanceSays ==
    ASSUME PioAssumption, NEW b, NEW s, NEW u, NEW c, NEW e, Balance(b, s, u, c, e)
    PROVE  /\ s \in Nat /\ u \in Nat /\ c \in Nat /\ e \in Nat /\ b \in PioBlocks
           /\ StateMachines \in Nat \ {0} /\ Words \in Nat /\ DmaChannels \in Nat
           /\ StateMachines * c \in Nat
           /\ b.machines = s + 2 * u + StateMachines * c /\ b.machines <= StateMachines
           /\ Used(b) <= Words /\ b.users = s /\ b.channels = e /\ e <= DmaChannels
           /\ b.copies["ws2812"] = IF s > 0 THEN 1 ELSE 0
           /\ b.copies["tx"] = u /\ b.copies["rx"] = u
           /\ b.copies["low"] = c /\ b.copies["high"] = c
           /\ (c > 0 => s + u = 0)
<1>1. /\ s \in Nat /\ u \in Nat /\ c \in Nat /\ e \in Nat /\ b \in PioBlocks
      /\ b.machines = s + 2 * u + StateMachines * c /\ b.machines <= StateMachines
      /\ Used(b) <= Words /\ b.users = s /\ b.channels = e /\ e <= DmaChannels
      /\ b.copies["ws2812"] = IF s > 0 THEN 1 ELSE 0
      /\ b.copies["tx"] = u /\ b.copies["rx"] = u
      /\ b.copies["low"] = c /\ b.copies["high"] = c
      /\ (c > 0 => s + u = 0)
  BY Zenon DEF Balance, Counted
<1>2. StateMachines \in Nat \ {0} /\ Words \in Nat /\ DmaChannels \in Nat
  BY DEF PioAssumption
<1>3. StateMachines * c \in Nat BY <1>1, <1>2
<1>. QED BY <1>1, <1>2, <1>3, Zenon

LEMMA ProgramsAre ==
    /\ "ws2812" \in Programs /\ "tx" \in Programs /\ "rx" \in Programs
    /\ "low" \in Programs /\ "high" \in Programs
    /\ "ws2812" # "tx" /\ "ws2812" # "rx" /\ "ws2812" # "low" /\ "ws2812" # "high"
    /\ "tx" # "rx" /\ "tx" # "low" /\ "tx" # "high" /\ "rx" # "low" /\ "rx" # "high"
    /\ "low" # "high"
BY DEF Programs

LEMMA UartTakesKeeps ==
    ASSUME PioAssumption, PioInv, NEW d \in Uarts, UartTakes(d)
    PROVE  PioInv'
<1> DEFINE tx == Loaded(block, "tx")
           both == Loaded(tx, "rx")
           free == IF FreeMachines(both) > 2 THEN 2 ELSE FreeMachines(both)
           b == Claimed(both, 2)
           s == On(Strips)
           u == On(Uarts)
           c == On(Cans)
           e == DmaNumbers
           k == StateMachines * c
<1>1. Balance(block, s, u, c, e) BY InvBalance
<1>2. CASE Refuses(block) BY <1>2, RefusalKeeps
<1>3. CASE ~Refuses(block)
  <2>1. /\ s \in Nat /\ u \in Nat /\ c \in Nat /\ e \in Nat /\ block \in PioBlocks
        /\ StateMachines \in Nat \ {0} /\ Words \in Nat /\ DmaChannels \in Nat
        /\ k \in Nat
        /\ block.machines = s + 2 * u + k /\ block.machines <= StateMachines
        /\ Used(block) <= Words /\ block.users = s /\ block.channels = e
        /\ e <= DmaChannels
        /\ block.copies["ws2812"] = IF s > 0 THEN 1 ELSE 0
        /\ block.copies["tx"] = u /\ block.copies["rx"] = u
        /\ block.copies["low"] = c /\ block.copies["high"] = c
        /\ (c > 0 => s + u = 0)
    BY <1>1, BalanceSays, Zenon
  <2>2. /\ tx \in PioBlocks /\ tx.copies["tx"] = block.copies["tx"] + 1
        /\ \A q \in Programs : q # "tx" => tx.copies[q] = block.copies[q]
        /\ tx.machines = block.machines /\ tx.users = block.users
        /\ tx.channels = block.channels
    BY <2>1, ProgramsAre, LoadedIs
  <2>3. /\ both \in PioBlocks /\ both.copies["rx"] = tx.copies["rx"] + 1
        /\ \A q \in Programs : q # "rx" => both.copies[q] = tx.copies[q]
        /\ both.machines = tx.machines /\ both.users = tx.users
        /\ both.channels = tx.channels /\ Used(both) = Used(tx) + SizeOf["rx"]
    BY <2>2, ProgramsAre, LoadedIs
  <2>4. /\ b \in PioBlocks /\ b.machines = both.machines + 2 /\ b.copies = both.copies
        /\ b.users = both.users /\ b.channels = both.channels /\ Used(b) = Used(both)
    <3>1. both \in PioBlocks /\ 2 \in Int BY <2>3
    <3> HIDE DEF both
    <3>. QED BY <3>1, ClaimedIs, Zenon
  <2>5. Removed(tx, "tx") = block /\ Removed(both, "rx") = tx
    BY <2>1, <2>2, ProgramsAre, LoadUndone
  <2>6. both.machines \in Int BY <2>3 DEF PioBlocks
  <2>7. free \in Int
    <3>1. FreeMachines(both) \in Int BY <2>1, <2>6 DEF FreeMachines
    <3>2. 2 \in Int OBVIOUS
    <3>. QED BY <3>1, <3>2, Zenon
  <2>8. Claimed(Claimed(both, free), -free) = both BY <2>3, <2>7, ClaimUndone
  <2>9. Refuses(Removed(tx, "tx")) => FALSE BY <1>3, <2>5, Zenon
  <2>10. Refuses(Removed(Removed(Claimed(Claimed(both, free), -free), "rx"), "tx")) => FALSE
    BY <1>3, <2>5, <2>8, Zenon
  <2>11. Fits(tx, "rx") /\ ~(free < 2) /\ Takes(d, b, FALSE)
    BY <1>3, <2>9, <2>10, Zenon DEF UartTakes
  <2>12. block' = b /\ driver' = [driver EXCEPT ![d] = [on |-> TRUE, dma |-> FALSE]]
    BY <2>11, Zenon DEF Takes
  <2>13. StateMachines - both.machines >= 2
    <3> DEFINE x == FreeMachines(both)
    <3>1. x = StateMachines - both.machines /\ x \in Int
      BY <2>1, <2>6 DEF FreeMachines
    <3>2. free = IF x > 2 THEN 2 ELSE x OBVIOUS
    <3>3. x >= 2
      <4> HIDE DEF x, free
      <4>. QED BY <2>11, <3>1, <3>2
    <3>. QED BY <3>1, <3>3
  <2>14. Used(b) <= Words
    <3>1. Used(tx) + SizeOf["rx"] <= Words BY <2>11, Zenon DEF Fits
    <3>. QED BY <2>3, <2>4, <3>1, Zenon
  <2>15. ~driver[d].on /\ TRUE # driver[d].on BY DEF UartTakes
  <2>16. DmaNumbers' = e /\ On(Uarts)' = u + 1
    <3>1. Uarts \in {Uarts, Cans} /\ TRUE \in BOOLEAN OBVIOUS
    <3> HIDE DEF b
    <3>2. /\ DmaNumbers' = DmaNumbers
          /\ On(Uarts)' = IF TRUE THEN On(Uarts) + 1 ELSE On(Uarts) - 1
      BY <2>12, <2>15, <3>1, OtherIs, Zenon
    <3>. QED BY <3>2, Zenon
  <2>17. d \notin Strips /\ d \notin Cans BY DEF PioAssumption
  <2>18. On(Strips)' = s /\ On(Cans)' = c
    BY <2>12, <2>15, <2>17, OnIs DEF PioInv
  <2> HIDE DEF free, b, both, tx, s, u, c, e
  <2>19. c = 0
    <3>1. c > 0 => block.machines = StateMachines BY <1>1, BusIsAlone
    <3>. QED BY <2>1, <2>2, <2>3, <2>13, <3>1
  <2> HIDE DEF k
  <2>20. b.machines = s + 2 * (u + 1) + k /\ b.machines <= StateMachines
    BY <2>1, <2>2, <2>3, <2>4, <2>13
  <2>21. /\ b.copies["tx"] = u + 1 /\ b.copies["rx"] = u + 1
         /\ b.copies["low"] = c /\ b.copies["high"] = c
         /\ b.copies["ws2812"] = IF s > 0 THEN 1 ELSE 0
    BY <2>1, <2>2, <2>3, <2>4, ProgramsAre, Zenon
  <2>22. ~(c > 0) BY <2>19
  <2>23. b.users = s /\ b.channels = e /\ b.channels <= DmaChannels
    BY <2>1, <2>2, <2>3, <2>4, Zenon
  <2>24. Counted(b, s, u + 1, c, e)
    BY <2>14, <2>20, <2>21, <2>22, <2>23, Zenon DEF Counted, k
  <2>25. Counted(block', On(Strips)', On(Uarts)', On(Cans)', DmaNumbers')
    BY <2>12, <2>16, <2>18, <2>24, Zenon
  <2>26. block' \in PioBlocks BY <2>4, <2>12
  <2>. QED BY <2>12, <2>15, <2>25, <2>26, InvOf
<1>. QED BY <1>2, <1>3
LEMMA UartGivesKeeps ==
    ASSUME PioAssumption, PioInv, NEW d \in Uarts, UartGives(d)
    PROVE  PioInv'
<1> DEFINE less == Claimed(block, -2)
           one == Removed(less, "rx")
           b == Removed(one, "tx")
           s == On(Strips)
           u == On(Uarts)
           c == On(Cans)
           e == DmaNumbers
           k == StateMachines * c
<1>1. Balance(block, s, u, c, e) BY InvBalance
<1>2. /\ s \in Nat /\ u \in Nat /\ c \in Nat /\ e \in Nat /\ block \in PioBlocks
      /\ StateMachines \in Nat \ {0} /\ Words \in Nat /\ DmaChannels \in Nat
      /\ k \in Nat
      /\ block.machines = s + 2 * u + k /\ block.machines <= StateMachines
      /\ Used(block) <= Words /\ block.users = s /\ block.channels = e
      /\ e <= DmaChannels
      /\ block.copies["ws2812"] = IF s > 0 THEN 1 ELSE 0
      /\ block.copies["tx"] = u /\ block.copies["rx"] = u
      /\ block.copies["low"] = c /\ block.copies["high"] = c
      /\ (c > 0 => s + u = 0)
  BY <1>1, BalanceSays, Zenon
<1>3. /\ less \in PioBlocks /\ less.machines = block.machines + (-2)
      /\ less.copies = block.copies /\ less.users = block.users
      /\ less.channels = block.channels /\ Used(less) = Used(block)
  <2>1. -2 \in Int OBVIOUS
  <2>. QED BY <1>2, <2>1, ClaimedIs
<1> HIDE DEF less
<1>4. /\ one \in PioBlocks /\ one.copies["rx"] = less.copies["rx"] - 1
      /\ \A q \in Programs : q # "rx" => one.copies[q] = less.copies[q]
      /\ one.machines = less.machines /\ one.users = less.users
      /\ one.channels = less.channels
      /\ Used(less) \in Int /\ Used(one) = Used(less) - SizeOf["rx"]
  BY <1>3, ProgramsAre, RemovedIs
<1> HIDE DEF one
<1>5. /\ b \in PioBlocks /\ b.copies["tx"] = one.copies["tx"] - 1
      /\ \A q \in Programs : q # "tx" => b.copies[q] = one.copies[q]
      /\ b.machines = one.machines /\ b.users = one.users /\ b.channels = one.channels
      /\ Used(one) \in Int /\ Used(b) = Used(one) - SizeOf["tx"]
  BY <1>4, ProgramsAre, RemovedIs
<1>6. /\ driver[d].on /\ FALSE # driver[d].on /\ block' = b
      /\ driver' = [driver EXCEPT ![d] = [on |-> FALSE, dma |-> FALSE]]
  <2>1. /\ driver[d].on /\ block' = b
        /\ driver' = [driver EXCEPT ![d] = [on |-> FALSE, dma |-> FALSE]]
    BY Zenon DEF UartGives, one, less
  <2>2. FALSE # driver[d].on BY <2>1
  <2>. QED BY <2>1, <2>2, Zenon
<1> HIDE DEF b
<1>7. DmaNumbers' = e /\ On(Uarts)' = u - 1
  <2>1. Uarts \in {Uarts, Cans} /\ FALSE \in BOOLEAN OBVIOUS
  <2>2. /\ DmaNumbers' = DmaNumbers
        /\ On(Uarts)' = IF FALSE THEN On(Uarts) + 1 ELSE On(Uarts) - 1
    BY <1>6, <2>1, OtherIs, Zenon
  <2>. QED BY <2>2, Zenon
<1>8. d \notin Strips /\ d \notin Cans BY DEF PioAssumption
<1>9. On(Strips)' = s /\ On(Cans)' = c
  BY <1>6, <1>8, OnIs DEF PioInv
<1>10. u > 0
  <2>1. Uarts \in {Strips, Uarts, Cans} OBVIOUS
  <2>. QED BY <1>6, <2>1, SomeOn
<1> HIDE DEF s, u, c, e, k
<1>11. ~(c > 0) BY <1>2, <1>10
<1>12. b.machines = s + 2 * (u - 1) + k /\ b.machines <= StateMachines
  BY <1>2, <1>3, <1>4, <1>5
<1>13. /\ b.copies["tx"] = u - 1 /\ b.copies["rx"] = u - 1
       /\ b.copies["low"] = c /\ b.copies["high"] = c
       /\ b.copies["ws2812"] = IF s > 0 THEN 1 ELSE 0
  BY <1>2, <1>3, <1>4, <1>5, ProgramsAre, Zenon
<1>14. Used(b) <= Words
  <2> DEFINE x == SizeOf["tx"]
             y == SizeOf["rx"]
  <2>1. x \in Nat /\ y \in Nat BY ProgramsAre DEF PioAssumption
  <2> HIDE DEF x, y
  <2>2. Used(b) = Used(one) - x /\ Used(one) = Used(less) - y
    BY <1>4, <1>5, Zenon DEF x, y
  <2>. QED BY <1>2, <1>3, <1>4, <1>5, <2>1, <2>2
<1>15. b.users = s /\ b.channels = e /\ b.channels <= DmaChannels
  BY <1>2, <1>3, <1>4, <1>5, Zenon
<1>16. Counted(b, s, u - 1, c, e)
  BY <1>11, <1>12, <1>13, <1>14, <1>15, Zenon DEF Counted, k
<1>17. Counted(block', On(Strips)', On(Uarts)', On(Cans)', DmaNumbers')
  BY <1>6, <1>7, <1>9, <1>16, Zenon
<1>18. block' \in PioBlocks BY <1>5, <1>6
<1>. QED BY <1>6, <1>17, <1>18, InvOf

LEMMA CanTakesKeeps ==
    ASSUME PioAssumption, PioInv, NEW d \in Cans, CanTakes(d)
    PROVE  PioInv'
<1> DEFINE more == Claimed(block, StateMachines)
           one == Loaded(more, "low")
           b == Loaded(one, "high")
           s == On(Strips)
           u == On(Uarts)
           c == On(Cans)
           e == DmaNumbers
           k == StateMachines * c
<1>1. Balance(block, s, u, c, e) BY InvBalance
<1>2. /\ s \in Nat /\ u \in Nat /\ c \in Nat /\ e \in Nat /\ block \in PioBlocks
      /\ StateMachines \in Nat \ {0} /\ Words \in Nat /\ DmaChannels \in Nat
      /\ k \in Nat
      /\ block.machines = s + 2 * u + k /\ block.machines <= StateMachines
      /\ Used(block) <= Words /\ block.users = s /\ block.channels = e
      /\ e <= DmaChannels
      /\ block.copies["ws2812"] = IF s > 0 THEN 1 ELSE 0
      /\ block.copies["tx"] = u /\ block.copies["rx"] = u
      /\ block.copies["low"] = c /\ block.copies["high"] = c
      /\ (c > 0 => s + u = 0)
  BY <1>1, BalanceSays, ZenonT(60)
<1>3. CASE Refuses(block) BY <1>3, RefusalKeeps
<1>4. CASE ~Refuses(block)
  <2>1. ~(block.machines > 0) /\ ~(Used(block) > 0) /\ Takes(d, b, FALSE)
    BY <1>4, Zenon DEF CanTakes
  <2>2. /\ more \in PioBlocks /\ more.machines = block.machines + StateMachines
        /\ more.copies = block.copies /\ more.users = block.users
        /\ more.channels = block.channels /\ Used(more) = Used(block)
    <3>1. StateMachines \in Int BY <1>2
    <3>. QED BY <1>2, <3>1, ClaimedIs
  <2>3. block' = b /\ driver' = [driver EXCEPT ![d] = [on |-> TRUE, dma |-> FALSE]]
    BY <2>1, Zenon DEF Takes
  <2> HIDE DEF more
  <2>4. /\ one \in PioBlocks /\ one.copies["low"] = more.copies["low"] + 1
        /\ \A q \in Programs : q # "low" => one.copies[q] = more.copies[q]
        /\ one.machines = more.machines /\ one.users = more.users
        /\ one.channels = more.channels
        /\ Used(more) \in Int /\ Used(one) = Used(more) + SizeOf["low"]
    BY <2>2, ProgramsAre, LoadedIs
  <2> HIDE DEF one
  <2>5. /\ b \in PioBlocks /\ b.copies["high"] = one.copies["high"] + 1
        /\ \A q \in Programs : q # "high" => b.copies[q] = one.copies[q]
        /\ b.machines = one.machines /\ b.users = one.users /\ b.channels = one.channels
        /\ Used(one) \in Int /\ Used(b) = Used(one) + SizeOf["high"]
    BY <2>4, ProgramsAre, LoadedIs
  <2> HIDE DEF b
  <2>6. TRUE # driver[d].on
    <3>1. ~driver[d].on BY DEF CanTakes
    <3>. QED BY <3>1
  <2>7. DmaNumbers' = e /\ On(Cans)' = c + 1
    <3>1. Cans \in {Uarts, Cans} /\ TRUE \in BOOLEAN OBVIOUS
    <3>2. /\ DmaNumbers' = DmaNumbers
          /\ On(Cans)' = IF TRUE THEN On(Cans) + 1 ELSE On(Cans) - 1
      BY <2>3, <2>6, <3>1, OtherIs, Zenon
    <3>. QED BY <3>2, Zenon
  <2>8. d \notin Strips /\ d \notin Uarts BY DEF PioAssumption
  <2>9. On(Strips)' = s /\ On(Uarts)' = u
    BY <2>3, <2>6, <2>8, OnIs DEF PioInv
  <2>10. block.machines = 0
    BY <1>2, <2>1 DEF PioBlocks
  <2>11. s = 0 /\ u = 0 /\ c = 0 BY <1>1, <2>10, BusIsAlone
  <2> DEFINE m == StateMachines * (c + 1)
  <2>12. m = StateMachines BY <1>2, <2>11
  <2> HIDE DEF s, u, c, e, k, m
  <2>13. b.machines = s + 2 * u + m /\ b.machines <= StateMachines
    <3>1. b.machines = block.machines + StateMachines BY <2>2, <2>4, <2>5, Zenon
    <3>. QED BY <1>2, <2>10, <2>11, <2>12, <3>1
  <2>14. /\ b.copies["tx"] = u /\ b.copies["rx"] = u
         /\ b.copies["low"] = c + 1 /\ b.copies["high"] = c + 1
         /\ b.copies["ws2812"] = IF s > 0 THEN 1 ELSE 0
    BY <1>2, <2>2, <2>4, <2>5, ProgramsAre, Zenon
  <2>15. Used(b) <= Words
    <3> DEFINE x == SizeOf["low"]
               y == SizeOf["high"]
    <3>1. x \in Nat /\ y \in Nat /\ x + y = Words BY ProgramsAre DEF PioAssumption
    <3> HIDE DEF x, y
    <3>2. Used(b) = Used(one) + y /\ Used(one) = Used(more) + x
      BY <2>4, <2>5, Zenon DEF x, y
    <3>. QED BY <1>2, <2>1, <2>2, <2>4, <2>5, <3>1, <3>2
  <2>16. b.users = s /\ b.channels = e /\ b.channels <= DmaChannels
    BY <1>2, <2>2, <2>4, <2>5, Zenon
  <2>17. s + u = 0 BY <2>11
  <2>18. Counted(b, s, u, c + 1, e)
    BY <2>13, <2>14, <2>15, <2>16, <2>17, Zenon DEF Counted, m
  <2>19. Counted(block', On(Strips)', On(Uarts)', On(Cans)', DmaNumbers')
    BY <2>3, <2>7, <2>9, <2>18, Zenon
  <2>20. block' \in PioBlocks BY <2>3, <2>5
  <2>. QED BY <2>3, <2>6, <2>19, <2>20, InvOf
<1>. QED BY <1>3, <1>4

LEMMA CanGivesKeeps ==
    ASSUME PioAssumption, PioInv, NEW d \in Cans, CanGives(d)
    PROVE  PioInv'
<1> DEFINE one == Removed(block, "high")
           two == Removed(one, "low")
           n == -StateMachines
           b == Claimed(two, n)
           s == On(Strips)
           u == On(Uarts)
           c == On(Cans)
           e == DmaNumbers
           k == StateMachines * c
<1>1. Balance(block, s, u, c, e) BY InvBalance
<1>2. /\ s \in Nat /\ u \in Nat /\ c \in Nat /\ e \in Nat /\ block \in PioBlocks
      /\ StateMachines \in Nat \ {0} /\ Words \in Nat /\ DmaChannels \in Nat
      /\ k \in Nat
      /\ block.machines = s + 2 * u + k /\ block.machines <= StateMachines
      /\ Used(block) <= Words /\ block.users = s /\ block.channels = e
      /\ e <= DmaChannels
      /\ block.copies["ws2812"] = IF s > 0 THEN 1 ELSE 0
      /\ block.copies["tx"] = u /\ block.copies["rx"] = u
      /\ block.copies["low"] = c /\ block.copies["high"] = c
      /\ (c > 0 => s + u = 0)
  BY <1>1, BalanceSays, ZenonT(60)
<1>3. /\ one \in PioBlocks /\ one.copies["high"] = block.copies["high"] - 1
      /\ \A q \in Programs : q # "high" => one.copies[q] = block.copies[q]
      /\ one.machines = block.machines /\ one.users = block.users
      /\ one.channels = block.channels
      /\ Used(block) \in Int /\ Used(one) = Used(block) - SizeOf["high"]
  BY <1>2, ProgramsAre, RemovedIs
<1> HIDE DEF one
<1>4. /\ two \in PioBlocks /\ two.copies["low"] = one.copies["low"] - 1
      /\ \A q \in Programs : q # "low" => two.copies[q] = one.copies[q]
      /\ two.machines = one.machines /\ two.users = one.users
      /\ two.channels = one.channels
      /\ Used(one) \in Int /\ Used(two) = Used(one) - SizeOf["low"]
  BY <1>3, ProgramsAre, RemovedIs
<1> HIDE DEF two
<1>5. /\ b \in PioBlocks /\ b.machines = two.machines + n
      /\ b.copies = two.copies /\ b.users = two.users
      /\ b.channels = two.channels /\ Used(b) = Used(two)
  <2>1. n \in Int
    <3>1. \A x \in Nat : -x \in Int OBVIOUS
    <3>. QED BY <1>2, <3>1
  <2> HIDE DEF n
  <2>. QED BY <1>4, <2>1, ClaimedIs
<1>6. /\ driver[d].on /\ FALSE # driver[d].on /\ block' = b
      /\ driver' = [driver EXCEPT ![d] = [on |-> FALSE, dma |-> FALSE]]
  <2>1. /\ driver[d].on /\ block' = b
        /\ driver' = [driver EXCEPT ![d] = [on |-> FALSE, dma |-> FALSE]]
    BY Zenon DEF CanGives, one, two
  <2>2. FALSE # driver[d].on BY <2>1
  <2>. QED BY <2>1, <2>2, Zenon
<1> HIDE DEF b
<1>7. DmaNumbers' = e /\ On(Cans)' = c - 1
  <2>1. Cans \in {Uarts, Cans} /\ FALSE \in BOOLEAN OBVIOUS
  <2>2. /\ DmaNumbers' = DmaNumbers
        /\ On(Cans)' = IF FALSE THEN On(Cans) + 1 ELSE On(Cans) - 1
    BY <1>6, <2>1, OtherIs, Zenon
  <2>. QED BY <2>2, Zenon
<1>8. d \notin Strips /\ d \notin Uarts BY DEF PioAssumption
<1>9. On(Strips)' = s /\ On(Uarts)' = u
  BY <1>6, <1>8, OnIs DEF PioInv
<1>10. c > 0
  <2>1. Cans \in {Strips, Uarts, Cans} OBVIOUS
  <2>. QED BY <1>6, <2>1, SomeOn
<1>11. c = 1 /\ s = 0 /\ u = 0 /\ block.machines = StateMachines
  BY <1>1, <1>10, BusIsAlone
<1> DEFINE m == StateMachines * (c - 1)
<1>12. m = 0
  <2>1. \A x \in Nat : x * (1 - 1) = 0 OBVIOUS
  <2>2. m = StateMachines * (1 - 1) BY <1>11, Zenon
  <2>. QED BY <1>2, <2>1, <2>2
<1>13. b.machines = block.machines - StateMachines
  <2>1. b.machines = block.machines + n BY <1>3, <1>4, <1>5, Zenon
  <2>2. \A x \in Nat : \A y : y = x => y + (-x) = y - x OBVIOUS
  <2>. QED BY <1>2, <1>11, <2>1, <2>2
<1> HIDE DEF s, u, c, e, k, m
<1>14. b.machines = s + 2 * u + m /\ b.machines <= StateMachines
  BY <1>2, <1>11, <1>12, <1>13
<1>15. /\ b.copies["tx"] = u /\ b.copies["rx"] = u
       /\ b.copies["low"] = c - 1 /\ b.copies["high"] = c - 1
       /\ b.copies["ws2812"] = IF s > 0 THEN 1 ELSE 0
  BY <1>2, <1>3, <1>4, <1>5, ProgramsAre, Zenon
<1>16. Used(b) <= Words
  <2> DEFINE x == SizeOf["low"]
             y == SizeOf["high"]
  <2>1. x \in Nat /\ y \in Nat BY ProgramsAre DEF PioAssumption
  <2> HIDE DEF x, y
  <2>2. Used(one) = Used(block) - y /\ Used(two) = Used(one) - x
    BY <1>3, <1>4, Zenon DEF x, y
  <2>. QED BY <1>2, <1>3, <1>4, <1>5, <2>1, <2>2
<1>17. b.users = s /\ b.channels = e /\ b.channels <= DmaChannels
  BY <1>2, <1>3, <1>4, <1>5, Zenon
<1>18. s + u = 0 BY <1>11
<1>19. Counted(b, s, u, c - 1, e)
  BY <1>14, <1>15, <1>16, <1>17, <1>18, Zenon DEF Counted, m
<1>20. Counted(block', On(Strips)', On(Uarts)', On(Cans)', DmaNumbers')
  BY <1>6, <1>7, <1>9, <1>19, Zenon
<1>21. block' \in PioBlocks BY <1>5, <1>6
<1>. QED BY <1>6, <1>20, <1>21, InvOf

LEMMA PioBegins ==
    ASSUME PioAssumption, PioInit
    PROVE  PioInv
<1> DEFINE none == [p \in Programs |-> 0]
<1>1. block = [machines |-> 0, copies |-> none, users |-> 0, channels |-> 0]
  BY Zenon DEF PioInit
<1>2. none \in [Programs -> Int] OBVIOUS
<1>3. \A q \in Programs : none[q] = 0 OBVIOUS
<1> HIDE DEF none
<1>4. /\ block \in PioBlocks /\ block.machines = 0 /\ block.users = 0
      /\ block.channels = 0 /\ block.copies = none
  BY <1>1, <1>2 DEF PioBlocks
<1>5. driver = [d \in Strips \cup Uarts \cup Cans |-> [on |-> FALSE, dma |-> FALSE]]
  BY Zenon DEF PioInit
<1>6. /\ driver \in [Strips \cup Uarts \cup Cans -> Handles]
      /\ \A d \in Strips \cup Uarts \cup Cans : ~driver[d].on /\ ~driver[d].dma
  BY <1>5 DEF Handles
<1>7. On(Strips) = 0 /\ On(Uarts) = 0 /\ On(Cans) = 0 /\ DmaNumbers = 0
  <2>1. \A S \in {Strips, Uarts, Cans} : {d \in S : driver[d].on} = {} BY <1>6
  <2>2. {d \in Strips : driver[d].dma} = {} BY <1>6
  <2>. QED BY <2>1, <2>2, FS_EmptySet DEF On, DmaNumbers
<1>8. \A q \in Programs : SizeOf[q] \in Nat /\ SizeOf[q] * 0 = 0
  BY DEF PioAssumption
<1>9. Used(block) = 0
  <2>1. \A q \in Programs : SizeOf[q] * block.copies[q] = 0
    BY <1>3, <1>4, <1>8
  <2> DEFINE o(q) == SizeOf[q] * block.copies[q]
  <2>2. Used(block) = o("ws2812") + o("tx") + o("rx") + o("low") + o("high")
    BY Zenon DEF Used
  <2>3. o("ws2812") = 0 /\ o("tx") = 0 /\ o("rx") = 0 /\ o("low") = 0 /\ o("high") = 0
    BY <2>1, ProgramsAre
  <2> HIDE DEF o
  <2>. QED BY <2>2, <2>3
<1>10. StateMachines \in Nat /\ Words \in Nat /\ DmaChannels \in Nat
       /\ StateMachines * 0 = 0
  BY DEF PioAssumption
<1>11. \A q \in Programs : block.copies[q] = 0 BY <1>3, <1>4
<1> DEFINE z == 0
           t == StateMachines * z
<1>12. Counted(block, z, z, z, z)
  <2>1. t = 0 BY <1>10
  <2>2. block.machines = z + 2 * z + t BY <1>4, <2>1
  <2>3. block.machines <= StateMachines /\ Used(block) <= Words /\ block.channels <= DmaChannels
    BY <1>4, <1>9, <1>10
  <2>4. ~(z > 0) /\ z + z = 0 BY SMT
  <2>5. block.users = z /\ block.channels = z BY <1>4
  <2>6. /\ block.copies["ws2812"] = 0 /\ block.copies["tx"] = z /\ block.copies["rx"] = z
        /\ block.copies["low"] = z /\ block.copies["high"] = z
    BY <1>11, ProgramsAre
  <2>7. block.copies["ws2812"] = IF z > 0 THEN 1 ELSE 0 BY <2>4, <2>6, Zenon
  <2> HIDE DEF z
  <2>. QED BY <2>2, <2>3, <2>4, <2>5, <2>6, <2>7, Zenon DEF Counted
<1>13. NothingLeaks BY <1>7, <1>12, LeaksAre
<1>. QED BY <1>4, <1>6, <1>13 DEF PioInv, PioType

LEMMA PioStays ==
    ASSUME PioAssumption, PioInv, UNCHANGED pioVars
    PROVE  PioInv'
<1>1. block' = block /\ driver' = driver BY DEF pioVars
<1>. QED BY <1>1, RefusalKeeps DEF Refuses

\* Whatever drivers are initialised, refused and taken back, in any number and
\* any order, nothing they claimed leaks: the state machines, the programs and
\* the DMA channels in use are those of the initialised drivers, within what
\* the chip has (ws2812.c, half_duplex_uart.c, can.c).
THEOREM PioCorrect == PioSpec => [](PioType /\ NothingLeaks)
<1>1. PioInit => PioInv BY PioBegins, PioAssumption
<1>2. PioInv /\ [PioNext]_pioVars => PioInv'
  <2> SUFFICES ASSUME PioInv, [PioNext]_pioVars PROVE PioInv' OBVIOUS
  <2>1. ASSUME NEW d \in Strips, StripTakes(d) PROVE PioInv'
    BY <2>1, StripTakesKeeps, PioAssumption
  <2>2. ASSUME NEW d \in Strips, StripGives(d) PROVE PioInv'
    BY <2>2, StripGivesKeeps, PioAssumption
  <2>3. ASSUME NEW d \in Uarts, UartTakes(d) PROVE PioInv'
    BY <2>3, UartTakesKeeps, PioAssumption
  <2>4. ASSUME NEW d \in Uarts, UartGives(d) PROVE PioInv'
    BY <2>4, UartGivesKeeps, PioAssumption
  <2>5. ASSUME NEW d \in Cans, CanTakes(d) PROVE PioInv'
    BY <2>5, CanTakesKeeps, PioAssumption
  <2>6. ASSUME NEW d \in Cans, CanGives(d) PROVE PioInv'
    BY <2>6, CanGivesKeeps, PioAssumption
  <2>7. CASE UNCHANGED pioVars BY <2>7, PioStays, PioAssumption
  <2>. QED BY <2>1, <2>2, <2>3, <2>4, <2>5, <2>6, <2>7, Zenon DEF PioNext
<1>3. PioInv => PioType /\ NothingLeaks BY DEF PioInv
<1>. QED BY <1>1, <1>2, <1>3, PTL DEF PioSpec
-----------------------------------------------------------------------------
(***************************************************************************)
(* PwmSlice                                                                *)
(***************************************************************************)

(* The PWM slice *)

SliceRegisters ==
    [period : Periods, enabled : BOOLEAN, level : [Channels -> Nat],
     inverted : [Channels -> BOOLEAN], pin : [Outputs -> BOOLEAN]]

PwmOuts == [initialised : BOOLEAN, period : Periods, duty : Nat, enabled : BOOLEAN]

PwmType ==
    /\ slice \in SliceRegisters
    /\ out \in [Outputs -> PwmOuts]
    /\ pwmCall.of \in Outputs /\ DOMAIN pwmCall.before = Outputs

PwmInv == PwmType /\ OthersKeepTheirSignal

\* A pin that shows something goes on showing it.
Stays(p) == Signal(p).shown => Signal(p)' = Signal(p)

LEMMA ChannelIs ==
    ASSUME PwmAssumption, NEW o \in Outputs
    PROVE  Channel(o) \in Channels
<1>1. o \in Nat BY DEF PwmAssumption
<1>. QED BY <1>1 DEF Channel, Channels

LEMMA NeighbourIs ==
    ASSUME PwmAssumption, NEW o \in Outputs, Neighbour(o) \in Outputs
    PROVE  Neighbour(o) \in Opposite(o)
<1>1. o \in Nat BY DEF PwmAssumption
<1>2. Channel(Neighbour(o)) # Channel(o) BY <1>1 DEF Channel, Neighbour
<1>. QED BY <1>2 DEF Opposite

LEMMA LevelIs ==
    ASSUME PwmAssumption, NEW period \in Periods, NEW duty \in Nat
    PROVE  Level(period, duty) \in Nat
<1> DEFINE h == DutyMax \div 2
           p == duty * period
<1>1. DutyMax \in Nat \ {0} /\ period \in Nat BY DEF PwmAssumption
<1>2. h \in Nat /\ p \in Nat BY <1>1, Products
<1> HIDE DEF h, p
<1>3. p + h \in Nat BY <1>2
<1>. QED BY <1>1, <1>3, Division DEF Level, h, p

LEMMA DutiesAre == PwmAssumption => Duties \subseteq Nat
BY DEF PwmAssumption, Duties

LEMMA SignalStays ==
    ASSUME NEW p \in Outputs, Signal(p).shown => slice'.enabled,
           slice.pin[p] => slice'.pin[p], slice.enabled => slice'.period = slice.period,
           slice'.level[Channel(p)] = slice.level[Channel(p)],
           slice'.inverted[Channel(p)] = slice.inverted[Channel(p)]
    PROVE  Stays(p)
<1> SUFFICES ASSUME Signal(p).shown PROVE Signal(p)' = Signal(p) BY DEF Stays
<1>1. slice.enabled /\ slice.pin[p]
  <2>1. ASSUME ~slice.enabled \/ ~slice.pin[p] PROVE FALSE
    <3>1. Signal(p) = [shown |-> FALSE] BY <2>1, Zenon DEF Signal
    <3>2. ~Signal(p).shown BY <3>1
    <3>. QED BY <3>2
  <2>. QED BY <2>1, Zenon
<1>2. slice'.enabled /\ slice'.pin[p] /\ slice'.period = slice.period BY <1>1, Zenon
<1>. QED BY <1>1, <1>2, Zenon DEF Signal

LEMMA KeptIsEnough ==
    ASSUME PwmAssumption, NEW o \in Outputs, NEW op, Called(op, o),
           slice' \in SliceRegisters, out' \in [Outputs -> PwmOuts],
           op \in {"init", "duty", "pulse"} => \A p \in Opposite(o) : Stays(p),
           op = "deinit" /\ Neighbour(o) \in Outputs => Stays(Neighbour(o))
    PROVE  PwmInv'
<1> DEFINE before == [q \in Outputs |-> Signal(q)]
<1>1. (\A p \in Outputs : before[p] = Signal(p)) /\ DOMAIN before = Outputs BY Zenon
<1> HIDE DEF before
<1>2. pwmCall' = [op |-> op, of |-> o, before |-> before] BY Zenon DEF Called, before
<1>3. pwmCall'.op = op /\ pwmCall'.of = o /\ pwmCall'.before = before BY <1>2
<1>4. PwmType' BY <1>1, <1>3 DEF PwmType
<1>5. \A p \in Outputs : Stays(p) => Keeps(p)' BY <1>1, <1>3, Zenon DEF Stays, Keeps
<1>6. Opposite(o) \subseteq Outputs BY Zenon DEF Opposite
<1>7. op \in {"init", "duty", "pulse"} => \A p \in Opposite(o) : Keeps(p)'
  BY <1>5, <1>6, Zenon
<1>8. op = "deinit" /\ Neighbour(o) \in Outputs => Keeps(Neighbour(o))' BY <1>5, Zenon
<1>9. OthersKeepTheirSignal' BY <1>3, <1>7, <1>8, Zenon DEF OthersKeepTheirSignal
<1>. QED BY <1>4, <1>9, Zenon DEF PwmInv

\* A register of one channel, written.
LEMMA OneWritten ==
    ASSUME NEW T, NEW f \in [Channels -> T], NEW c, NEW v \in T
    PROVE  LET g == [f EXCEPT ![c] = v]
           IN  g \in [Channels -> T] /\ \A d \in Channels : d # c => g[d] = f[d]
OBVIOUS

\* A pin on the other channel is another pin.
LEMMA OppositeIs ==
    ASSUME PwmAssumption, NEW o \in Outputs, NEW p \in Opposite(o)
    PROVE  p \in Outputs /\ p # o /\ Channel(p) \in Channels /\ Channel(p) # Channel(o)
<1>1. p \in Outputs /\ Channel(p) # Channel(o) BY Zenon DEF Opposite
<1>2. p # o BY <1>1, Zenon
<1>. QED BY <1>1, <1>2, ChannelIs

LEMMA HiddenWhenStopped ==
    ASSUME NEW p, Signal(p).shown
    PROVE  slice.enabled /\ slice.pin[p]
<1>1. ASSUME ~slice.enabled \/ ~slice.pin[p] PROVE FALSE
  <2>1. Signal(p) = [shown |-> FALSE] BY <1>1, Zenon DEF Signal
  <2>2. ~Signal(p).shown BY <2>1
  <2>. QED BY <2>2
<1>. QED BY <1>1, Zenon

LEMMA InitKeeps ==
    ASSUME PwmAssumption, PwmInv, NEW o \in Outputs, NEW period \in Periods,
           NEW duty \in Duties, NEW invert \in BOOLEAN, NEW start \in BOOLEAN,
           PwmInit(o, period, duty, invert, start)
    PROVE  PwmInv'
<1>1. Called("init", o) BY DEF PwmInit
<1>2. slice \in SliceRegisters /\ out \in [Outputs -> PwmOuts] BY DEF PwmInv, PwmType
<1>3. CASE Conflicts(period)
  <2>1. slice' = slice /\ out' = out BY <1>3, Zenon DEF PwmInit
  <2>2. ASSUME NEW p \in Opposite(o) PROVE Stays(p)
    BY <2>1, Zenon DEF Signal, Stays
  <2>. QED BY <1>1, <1>2, <2>1, <2>2, KeptIsEnough
<1>4. CASE ~Conflicts(period)
  <2> DEFINE level == [slice.level EXCEPT ![Channel(o)] = Level(period, duty)]
             inverted == [slice.inverted EXCEPT ![Channel(o)] = invert]
             pin == [slice.pin EXCEPT ![o] = TRUE]
             enabled == slice.enabled \/ start
             r == [initialised |-> TRUE, period |-> period, duty |-> duty, enabled |-> start]
  <2>1. /\ slice' = [slice EXCEPT !.period = period, !.inverted = inverted, !.level = level,
                                  !.pin = pin, !.enabled = enabled]
        /\ out' = [out EXCEPT ![o] = r]
    BY <1>4, Zenon DEF PwmInit
  <2>2. /\ slice.level \in [Channels -> Nat] /\ slice.inverted \in [Channels -> BOOLEAN]
        /\ slice.pin \in [Outputs -> BOOLEAN]
    BY <1>2 DEF SliceRegisters
  <2>3. /\ level \in [Channels -> Nat]
        /\ \A d \in Channels : d # Channel(o) => level[d] = slice.level[d]
    <3>1. Level(period, duty) \in Nat BY LevelIs, DutiesAre
    <3>. QED BY <2>2, <3>1, OneWritten
  <2>4. /\ inverted \in [Channels -> BOOLEAN]
        /\ \A d \in Channels : d # Channel(o) => inverted[d] = slice.inverted[d]
    BY <2>2, OneWritten
  <2>5. pin \in [Outputs -> BOOLEAN] /\ \A q \in Outputs : q # o => pin[q] = slice.pin[q]
    BY <2>2
  <2>6. enabled \in BOOLEAN /\ (slice.enabled => enabled) BY <1>2 DEF SliceRegisters
  <2>7. r \in PwmOuts BY DutiesAre DEF PwmOuts
  <2> HIDE DEF level, inverted, pin, enabled, r
  <2>8. /\ slice' \in SliceRegisters /\ slice'.period = period /\ slice'.level = level
        /\ slice'.inverted = inverted /\ slice'.pin = pin /\ slice'.enabled = enabled
    BY <1>2, <2>1, <2>3, <2>4, <2>5, <2>6 DEF SliceRegisters
  <2>9. out' \in [Outputs -> PwmOuts] BY <1>2, <2>1, <2>7
  <2>10. slice.enabled => slice.period = period BY <1>4, Zenon DEF Conflicts
  <2>11. ASSUME NEW p \in Opposite(o) PROVE Stays(p)
    <3>1. p \in Outputs /\ p # o /\ Channel(p) \in Channels /\ Channel(p) # Channel(o)
      BY OppositeIs
    <3>2. Signal(p).shown => slice.enabled BY HiddenWhenStopped
    <3>. QED BY <2>3, <2>4, <2>5, <2>6, <2>8, <2>10, <3>1, <3>2, SignalStays, Zenon
  <2>. QED BY <1>1, <2>8, <2>9, <2>11, KeptIsEnough
<1>. QED BY <1>3, <1>4

LEMMA DeinitKeeps ==
    ASSUME PwmAssumption, PwmInv, NEW o \in Outputs, PwmDeinit(o)
    PROVE  PwmInv'
<1> DEFINE p == Neighbour(o)
           level == [slice.level EXCEPT ![Channel(o)] = 0]
           pin == [slice.pin EXCEPT ![o] = FALSE]
           enabled == slice.enabled /\ p \in Outputs /\ slice.pin[p]
           r == [out[o] EXCEPT !.initialised = FALSE, !.enabled = FALSE]
<1>1. slice \in SliceRegisters /\ out \in [Outputs -> PwmOuts] BY DEF PwmInv, PwmType
<1>2. Called("deinit", o) BY DEF PwmDeinit
<1>3. slice' = [slice EXCEPT !.level = level, !.pin = pin, !.enabled = enabled]
  BY Zenon DEF PwmDeinit
<1>4. out' = [out EXCEPT ![o] = r] BY <1>1 DEF PwmDeinit
<1>5. slice.level \in [Channels -> Nat] /\ slice.pin \in [Outputs -> BOOLEAN]
  BY <1>1 DEF SliceRegisters
<1>6. /\ level \in [Channels -> Nat]
      /\ \A d \in Channels : d # Channel(o) => level[d] = slice.level[d]
  BY <1>5, OneWritten
<1>7. pin \in [Outputs -> BOOLEAN] /\ \A q \in Outputs : q # o => pin[q] = slice.pin[q]
  BY <1>5
<1>8. enabled \in BOOLEAN OBVIOUS
<1>9. r \in PwmOuts BY <1>1 DEF PwmOuts
<1>10. p \in Outputs => (Signal(p).shown => enabled) BY HiddenWhenStopped
<1> HIDE DEF p, level, pin, enabled, r
<1>11. /\ slice' \in SliceRegisters /\ slice'.period = slice.period /\ slice'.level = level
       /\ slice'.inverted = slice.inverted /\ slice'.pin = pin /\ slice'.enabled = enabled
  BY <1>1, <1>3, <1>6, <1>7, <1>8 DEF SliceRegisters
<1>12. out' \in [Outputs -> PwmOuts] BY <1>1, <1>4, <1>9
<1>13. p \in Outputs => Stays(p)
  <2> SUFFICES ASSUME p \in Outputs PROVE Stays(p) OBVIOUS
  <2>1. p \in Opposite(o) BY NeighbourIs DEF p
  <2>2. p # o /\ Channel(p) \in Channels /\ Channel(p) # Channel(o) BY <2>1, OppositeIs
  <2>. QED BY <1>6, <1>7, <1>10, <1>11, <2>2, SignalStays, Zenon
<1>. QED BY <1>2, <1>11, <1>12, <1>13, KeptIsEnough DEF p

\* The level of its channel is all that a duty and a pulse write.
LEMMA LevelKeeps ==
    ASSUME PwmAssumption, PwmInv, NEW o \in Outputs, NEW op, op # "deinit", Called(op, o),
           NEW level \in Nat, slice' = [slice EXCEPT !.level[Channel(o)] = level],
           NEW duty \in Nat, out' = [out EXCEPT ![o].duty = duty]
    PROVE  PwmInv'
<1> DEFINE levels == [slice.level EXCEPT ![Channel(o)] = level]
           r == [out[o] EXCEPT !.duty = duty]
<1>1. slice \in SliceRegisters /\ out \in [Outputs -> PwmOuts] BY DEF PwmInv, PwmType
<1>2. slice.level \in [Channels -> Nat] BY <1>1 DEF SliceRegisters
<1>3. slice' = [slice EXCEPT !.level = levels] BY Zenon
<1>4. out' = [out EXCEPT ![o] = r] BY <1>1
<1>5. /\ levels \in [Channels -> Nat]
      /\ \A d \in Channels : d # Channel(o) => levels[d] = slice.level[d]
  BY <1>2, OneWritten
<1>6. r \in PwmOuts BY <1>1 DEF PwmOuts
<1> HIDE DEF levels, r
<1>7. /\ slice' \in SliceRegisters /\ slice'.period = slice.period /\ slice'.level = levels
      /\ slice'.inverted = slice.inverted /\ slice'.pin = slice.pin
      /\ slice'.enabled = slice.enabled
  BY <1>1, <1>3, <1>5 DEF SliceRegisters
<1>8. out' \in [Outputs -> PwmOuts] BY <1>1, <1>4, <1>6
<1>9. ASSUME NEW p \in Opposite(o) PROVE Stays(p)
  <2>1. Channel(p) \in Channels /\ Channel(p) # Channel(o) BY OppositeIs
  <2>2. levels[Channel(p)] = slice.level[Channel(p)] BY <1>5, <2>1
  <2>. QED BY <1>7, <2>2, Zenon DEF Signal, Stays
<1>. QED BY <1>7, <1>8, <1>9, KeptIsEnough

LEMMA PulseKeeps ==
    ASSUME PwmAssumption, PwmInv, NEW o \in Outputs, NEW counts \in Nat,
           PwmSetPulse(o, counts)
    PROVE  PwmInv'
<1> DEFINE level == IF counts > out[o].period THEN out[o].period ELSE counts
           h == out[o].period \div 2
           m == level * DutyMax
           duty == (m + h) \div out[o].period
<1>1. out[o].period \in Nat \ {0} /\ DutyMax \in Nat
  BY DEF PwmInv, PwmType, PwmOuts, PwmAssumption
<1>2. level \in Nat /\ h \in Nat BY <1>1
<1> HIDE DEF level, h
<1>3. m \in Nat BY <1>1, <1>2, Products
<1> HIDE DEF m
<1>4. m + h \in Nat BY <1>2, <1>3
<1>5. duty \in Nat BY <1>1, <1>4, Division
<1> HIDE DEF duty
<1>6. /\ Called("pulse", o) /\ slice' = [slice EXCEPT !.level[Channel(o)] = level]
      /\ out' = [out EXCEPT ![o].duty = duty]
  BY Zenon DEF PwmSetPulse, level, m, h, duty
<1>. QED BY <1>2, <1>5, <1>6, LevelKeeps

LEMMA DutyKeeps ==
    ASSUME PwmAssumption, PwmInv, NEW o \in Outputs, NEW duty \in Duties, PwmSetDuty(o, duty)
    PROVE  PwmInv'
<1>1. out[o].period \in Periods /\ duty \in Nat
  BY DutiesAre DEF PwmInv, PwmType, PwmOuts
<1>2. Level(out[o].period, duty) \in Nat BY <1>1, LevelIs
<1>3. /\ Called("duty", o)
      /\ slice' = [slice EXCEPT !.level[Channel(o)] = Level(out[o].period, duty)]
      /\ out' = [out EXCEPT ![o].duty = duty]
  BY Zenon DEF PwmSetDuty
<1>. QED BY <1>1, <1>2, <1>3, LevelKeeps

LEMMA FrequencyKeeps ==
    ASSUME PwmAssumption, PwmInv, NEW o \in Outputs, NEW period \in Periods,
           PwmSetFrequency(o, period)
    PROVE  PwmInv'
<1> DEFINE levels == [slice.level EXCEPT ![Channel(o)] = Level(period, out[o].duty)]
           r == [out[o] EXCEPT !.period = period]
<1>1. slice \in SliceRegisters /\ out \in [Outputs -> PwmOuts] BY DEF PwmInv, PwmType
<1>2. out[o].duty \in Nat BY <1>1 DEF PwmOuts
<1>3. Level(period, out[o].duty) \in Nat BY <1>2, LevelIs
<1>4. slice' = [slice EXCEPT !.period = period, !.level = levels] /\ Called("frequency", o)
  BY Zenon DEF PwmSetFrequency
<1>5. out' = [out EXCEPT ![o] = r] BY <1>1 DEF PwmSetFrequency
<1>6. levels \in [Channels -> Nat] BY <1>1, <1>3 DEF SliceRegisters
<1>7. r \in PwmOuts BY <1>1 DEF PwmOuts
<1> HIDE DEF levels, r
<1>8. slice' \in SliceRegisters BY <1>1, <1>4, <1>6 DEF SliceRegisters
<1>9. out' \in [Outputs -> PwmOuts] BY <1>1, <1>5, <1>7
<1>. QED BY <1>4, <1>8, <1>9, KeptIsEnough

LEMMA EnableKeeps ==
    ASSUME PwmAssumption, PwmInv, NEW o \in Outputs, NEW enabled \in BOOLEAN,
           PwmEnable(o, enabled)
    PROVE  PwmInv'
<1> DEFINE r == [out[o] EXCEPT !.enabled = enabled]
<1>1. slice \in SliceRegisters /\ out \in [Outputs -> PwmOuts] BY DEF PwmInv, PwmType
<1>2. slice' = [slice EXCEPT !.enabled = enabled] /\ Called("enable", o)
  BY Zenon DEF PwmEnable
<1>3. out' = [out EXCEPT ![o] = r] BY <1>1 DEF PwmEnable
<1>4. r \in PwmOuts BY <1>1 DEF PwmOuts
<1> HIDE DEF r
<1>5. slice' \in SliceRegisters BY <1>1, <1>2 DEF SliceRegisters
<1>6. out' \in [Outputs -> PwmOuts] BY <1>1, <1>3, <1>4
<1>. QED BY <1>2, <1>5, <1>6, KeptIsEnough

LEMMA PwmBegins ==
    ASSUME PwmAssumption, PwmInitially
    PROVE  PwmInv
<1> DEFINE m == Min(Periods)
           n == Min(Outputs)
           before == [o \in Outputs |-> [shown |-> FALSE]]
<1>1. m \in Periods
  <2>1. \E i \in Periods : \A j \in Periods : i <= j BY LeastExists DEF PwmAssumption
  <2>. QED BY <2>1, Zenon DEF Min
<1>2. n \in Outputs
  <2>1. Outputs \in SUBSET Nat /\ Outputs # {} BY DEF PwmAssumption
  <2>2. \E i \in Outputs : \A j \in Outputs : i <= j BY <2>1, LeastExists
  <2>. QED BY <2>2, Zenon DEF Min
<1>3. pwmCall = [op |-> "none", of |-> n, before |-> before] BY Zenon DEF PwmInitially
<1>4. pwmCall.of = n /\ pwmCall.before = before /\ pwmCall.op = "none" BY <1>3
<1>5. DOMAIN pwmCall.before = Outputs BY <1>4
<1>6. slice \in SliceRegisters BY <1>1 DEF PwmInitially, SliceRegisters
<1>7. out \in [Outputs -> PwmOuts] BY <1>1 DEF PwmInitially, PwmOuts
<1>8. OthersKeepTheirSignal BY <1>4 DEF OthersKeepTheirSignal
<1>. QED BY <1>2, <1>4, <1>5, <1>6, <1>7, <1>8 DEF PwmInv, PwmType

LEMMA PwmStays ==
    ASSUME PwmInv, UNCHANGED pwmVars
    PROVE  PwmInv'
<1>1. slice' = slice /\ out' = out /\ pwmCall' = pwmCall BY DEF pwmVars
<1>2. OthersKeepTheirSignal' BY <1>1, Zenon DEF PwmInv, OthersKeepTheirSignal, Keeps, Signal
<1>. QED BY <1>1, <1>2 DEF PwmInv, PwmType

\* Whatever GPIOs of one slice have outputs: initialising one or moving its duty
\* leaves every pin on the other channel as it was, and stopping one leaves the
\* neighbouring GPIO as it was (slice_conflicts, apply_polarity,
\* pwm_out_deinit), for any frequencies and any duty.  That stopping one may
\* stop a pin sixteen further on is what the run pwm_deinit shows.
THEOREM PwmCorrect == PwmSpec => [](PwmType /\ OthersKeepTheirSignal)
<1>1. PwmInitially => PwmInv BY PwmBegins, PwmAssumption
<1>2. PwmInv /\ [PwmNext]_pwmVars => PwmInv'
  <2> SUFFICES ASSUME PwmInv, [PwmNext]_pwmVars PROVE PwmInv' OBVIOUS
  <2>1. ASSUME NEW o \in Outputs, NEW period \in Periods, NEW duty \in Duties,
               NEW invert \in BOOLEAN, NEW start \in BOOLEAN,
               PwmInit(o, period, duty, invert, start)
        PROVE  PwmInv'
    BY <2>1, InitKeeps, PwmAssumption
  <2>2. ASSUME NEW o \in Outputs, PwmDeinit(o) PROVE PwmInv'
    BY <2>2, DeinitKeeps, PwmAssumption
  <2>3. ASSUME NEW o \in Outputs, NEW duty \in Duties, PwmSetDuty(o, duty) PROVE PwmInv'
    BY <2>3, DutyKeeps, PwmAssumption
  <2>4. ASSUME NEW o \in Outputs, NEW period \in Periods, NEW counts \in 0..period + 1,
               PwmSetPulse(o, counts)
        PROVE  PwmInv'
    <3>1. counts \in Nat BY DEF PwmAssumption
    <3>. QED BY <2>4, <3>1, PulseKeeps, PwmAssumption
  <2>5. ASSUME NEW o \in Outputs, NEW period \in Periods, PwmSetFrequency(o, period)
        PROVE  PwmInv'
    BY <2>5, FrequencyKeeps, PwmAssumption
  <2>6. ASSUME NEW o \in Outputs, NEW enabled \in BOOLEAN, PwmEnable(o, enabled)
        PROVE  PwmInv'
    BY <2>6, EnableKeeps, PwmAssumption
  <2>7. CASE UNCHANGED pwmVars BY <2>7, PwmStays
  <2>. QED BY <2>1, <2>2, <2>3, <2>4, <2>5, <2>6, <2>7, Zenon DEF PwmNext
<1>3. PwmInv => PwmType /\ OthersKeepTheirSignal BY DEF PwmInv
<1>. QED BY <1>1, <1>2, <1>3, PTL DEF PwmSpec
-----------------------------------------------------------------------------
(***************************************************************************)
(* Fade                                                                    *)
(***************************************************************************)

LEMMA ProductsOrdered ==
    ASSUME NEW a \in Nat, NEW b \in Nat, NEW c \in Nat, a <= b
    PROVE  a * c <= b * c
OBVIOUS

LEMMA DivisionsOrdered ==
    ASSUME NEW a \in Nat, NEW b \in Nat, NEW c \in Nat \ {0}, a <= b
    PROVE  a \div c <= b \div c
<1> DEFINE p == a \div c
           q == b \div c
<1>1. p \in Nat /\ q \in Nat /\ p * c <= a /\ b < q * c + c BY Division
<1> HIDE DEF p, q
<1>2. ASSUME p > q PROVE FALSE
  <2>1. q + 1 \in Nat /\ q + 1 <= p BY <1>1, <1>2
  <2>2. (q + 1) * c <= p * c BY <1>1, <2>1, ProductsOrdered
  <2>3. (q + 1) * c = q * c + c BY <1>1
  <2>4. p * c \in Nat /\ q * c \in Nat BY <1>1, Products
  <2>. QED BY <1>1, <2>2, <2>3, <2>4
<1>. QED BY <1>1, <1>2 DEF p, q

LEMMA MultipleDivided ==
    ASSUME NEW a \in Nat, NEW c \in Nat \ {0}
    PROVE  (a * c) \div c = a
<1> DEFINE p == a * c
           q == p \div c
<1>1. p \in Nat BY Products
<1>2. q \in Nat /\ q * c <= p /\ p < q * c + c BY <1>1, Division
<1> HIDE DEF q
<1>3. q * c <= a * c /\ a * c < q * c + c BY <1>2
<1>4. ASSUME q > a PROVE FALSE
  <2>1. (a + 1) * c <= q * c BY <1>2, <1>4, ProductsOrdered
  <2>2. (a + 1) * c = a * c + c OBVIOUS
  <2>. QED BY <1>1, <1>2, <1>3, <2>1, <2>2, Products
<1>5. ASSUME q < a PROVE FALSE
  <2>1. (q + 1) * c <= a * c BY <1>2, <1>5, ProductsOrdered
  <2>2. (q + 1) * c = q * c + c BY <1>2
  <2>. QED BY <1>1, <1>2, <1>3, <2>1, <2>2, Products
<1>. QED BY <1>2, <1>4, <1>5 DEF q

LEMMA Negatives ==
    /\ \A a, b \in Int : (-a) * b = -(a * b)
    /\ \A z : z = 0 => -z = 0
<1>1. \A a, b \in Int : (-a) * b = -(a * b) OBVIOUS
<1>2. \A a, b \in Int : a + b = 0 => -a = b OBVIOUS
<1>3. 0 \in Int /\ 0 + 0 = 0 OBVIOUS
<1>4. -0 = 0 BY <1>2, <1>3, Zenon
<1>. QED BY <1>1, <1>4, Zenon

LEMMA Remainders ==
    ASSUME NEW x \in Int, NEW w \in Nat \ {0}
    PROVE  /\ x % w \in 0..w-1
           /\ 0 <= x /\ x < w => x % w = x
           /\ -w <= x /\ x < 0 => x % w = x + w
           /\ w <= x /\ x < 2 * w => x % w = x - w
OBVIOUS
-----------------------------------------------------------------------------
\* The polynomial of light_ease, before its division.
Cubic(one, t) == t * t * (3 * one - 2 * t)

LEMMA CubicRises ==
    ASSUME NEW one \in Nat, NEW a \in 0..one, NEW b \in 0..one, a <= b
    PROVE  0 <= Cubic(one, a) /\ Cubic(one, a) <= Cubic(one, b)
<1> DEFINE d == b - a
           e == one - b
           gain == d * (d * (3 * a + d) + 3 * e * (2 * a + d))
<1>1. a \in Nat /\ d \in Nat /\ e \in Nat /\ b = a + d /\ one = a + d + e OBVIOUS
<1>2. gain \in Nat
  <2> HIDE DEF d, e
  <2>1. 3 * a + d \in Nat /\ 2 * a + d \in Nat /\ 3 * e \in Nat BY <1>1
  <2>2. d * (3 * a + d) \in Nat /\ 3 * e * (2 * a + d) \in Nat BY <1>1, <2>1, Products
  <2>3. d * (3 * a + d) + 3 * e * (2 * a + d) \in Nat BY <2>2
  <2>. QED BY <1>1, <2>3, Products
<1>3. b * b * (3 * one - 2 * b) = a * a * (3 * one - 2 * a) + gain
  <2> HIDE DEF d, e
  <2>1. (a + d) * (a + d) * (3 * (a + d + e) - 2 * (a + d))
          = a * a * (3 * (a + d + e) - 2 * a)
              + d * (d * (3 * a + d) + 3 * e * (2 * a + d))
    BY <1>1
  <2>. QED BY <1>1, <2>1, Zenon
<1>4. a * a * (3 * one - 2 * a) \in Nat
  <2>1. a * a \in Nat BY <1>1, Products
  <2>2. 3 * one - 2 * a \in Nat OBVIOUS
  <2>. QED BY <2>1, <2>2, Products
<1> HIDE DEF gain
<1>5. 0 <= a * a * (3 * one - 2 * a)
        /\ a * a * (3 * one - 2 * a) <= b * b * (3 * one - 2 * b)
  <2> DEFINE p == a * a * (3 * one - 2 * a)
             q == b * b * (3 * one - 2 * b)
  <2>1. p \in Nat /\ q = p + gain BY <1>3, <1>4
  <2> HIDE DEF p, q
  <2>2. 0 <= p /\ p <= q BY <1>2, <2>1
  <2>. QED BY <2>2 DEF p, q
<1>. QED BY <1>5, Zenon DEF Cubic
LEMMA EaseIsCubic ==
    ASSUME FadeAssumption, NEW t \in 0..EaseOne
    PROVE  Ease(t) = Cubic(EaseOne, t) \div (EaseOne * EaseOne)
<1>1. EaseOne \in Nat /\ t \in Nat BY DEF FadeAssumption
<1>2. 3 * t * t * EaseOne - 2 * t * t * t = t * t * (3 * EaseOne - 2 * t) BY <1>1
<1>. QED BY <1>2, Zenon DEF Ease, Cubic

LEMMA EaseRises ==
    ASSUME FadeAssumption, NEW t \in 0..EaseOne, NEW u \in 0..EaseOne, t <= u
    PROVE  Ease(t) \in Nat /\ Ease(t) <= Ease(u)
<1> DEFINE sq == EaseOne * EaseOne
           p == Cubic(EaseOne, t)
           q == Cubic(EaseOne, u)
<1>1. EaseOne \in Nat /\ EaseOne # 0 BY DEF FadeAssumption
<1>2. sq \in Nat \ {0} BY <1>1
<1>3. Ease(t) = p \div sq /\ Ease(u) = q \div sq BY EaseIsCubic, Zenon
<1>4. p \in Int /\ q \in Int BY <1>1 DEF Cubic
<1>5. 0 <= p /\ p <= q BY <1>1, CubicRises
<1> HIDE DEF sq, p, q
<1>6. p \in Nat /\ q \in Nat BY <1>4, <1>5
<1>7. p \div sq \in Nat /\ p \div sq <= q \div sq BY <1>2, <1>5, <1>6, Division, DivisionsOrdered
<1>. QED BY <1>3, <1>7, Zenon

LEMMA EaseEnds == FadeAssumption => Ease(EaseOne) = EaseOne
<1> SUFFICES ASSUME FadeAssumption PROVE Ease(EaseOne) = EaseOne OBVIOUS
<1> DEFINE sq == EaseOne * EaseOne
<1>1. EaseOne \in Nat /\ EaseOne # 0 BY DEF FadeAssumption
<1>2. sq \in Nat \ {0} BY <1>1
<1>3. EaseOne * EaseOne * (3 * EaseOne - 2 * EaseOne) = EaseOne * sq BY <1>1
<1>4. EaseOne \in 0..EaseOne BY <1>1
<1>5. Ease(EaseOne) = (EaseOne * sq) \div sq BY <1>3, <1>4, EaseIsCubic, Zenon DEF Cubic
<1> HIDE DEF sq
<1>6. (EaseOne * sq) \div sq = EaseOne BY <1>1, <1>2, MultipleDivided
<1>. QED BY <1>5, <1>6, Zenon

LEMMA TimeRises ==
    ASSUME FadeAssumption, NEW d \in 0..FadeTime, NEW e \in 0..FadeTime, d <= e
    PROVE  /\ (d * EaseOne) \div FadeTime \in 0..EaseOne
           /\ (d * EaseOne) \div FadeTime <= (e * EaseOne) \div FadeTime
<1>1. EaseOne \in Nat /\ FadeTime \in Nat \ {0} /\ d \in Nat /\ e \in Nat
  BY DEF FadeAssumption
<1>2. d * EaseOne \in Nat /\ e * EaseOne \in Nat /\ FadeTime * EaseOne \in Nat
  BY <1>1, Products
<1>3. d * EaseOne <= e * EaseOne /\ d * EaseOne <= FadeTime * EaseOne
  BY <1>1, ProductsOrdered
<1>4. (FadeTime * EaseOne) \div FadeTime = EaseOne
  <2>1. FadeTime * EaseOne = EaseOne * FadeTime BY <1>1
  <2>. QED BY <1>1, <2>1, MultipleDivided, Zenon
<1>5. /\ (d * EaseOne) \div FadeTime \in Nat
      /\ (d * EaseOne) \div FadeTime <= (FadeTime * EaseOne) \div FadeTime
      /\ (d * EaseOne) \div FadeTime <= (e * EaseOne) \div FadeTime
  BY <1>1, <1>2, <1>3, Division, DivisionsOrdered
<1>. QED BY <1>1, <1>4, <1>5

\* How far of the whole way, on a scale of EaseOne, a fade has come.
Come(elapsed) == Ease((elapsed * EaseOne) \div FadeTime)

LEMMA ComeRises ==
    ASSUME FadeAssumption, NEW d \in 0..FadeTime, NEW e \in 0..FadeTime, d <= e
    PROVE  Come(d) \in 0..EaseOne /\ Come(e) \in 0..EaseOne /\ Come(d) <= Come(e)
<1> DEFINE t == (d * EaseOne) \div FadeTime
           u == (e * EaseOne) \div FadeTime
<1>0. FadeTime \in Nat BY DEF FadeAssumption
<1>1. t \in 0..EaseOne /\ u \in 0..EaseOne /\ t <= u BY <1>0, TimeRises
<1>2. EaseOne \in 0..EaseOne BY DEF FadeAssumption
<1>3. Come(d) = Ease(t) /\ Come(e) = Ease(u) BY Zenon DEF Come
<1> HIDE DEF t, u
<1>4. Ease(t) \in Nat /\ Ease(u) \in Nat /\ Ease(t) <= Ease(u) BY <1>1, EaseRises
<1>5. Ease(t) <= Ease(EaseOne) /\ Ease(u) <= Ease(EaseOne) BY <1>1, <1>2, EaseRises
<1>. QED BY <1>3, <1>4, <1>5, EaseEnds

\* Four values on a way up, or on a way down.
OnTheWay(a, b, c, d) == \/ a <= b /\ b <= c /\ c <= d
                        \/ d <= c /\ c <= b /\ b <= a

LEMMA ValueIsOnTheWay ==
    ASSUME FadeAssumption, NEW r, r.from \in Nat, r.to \in Nat,
           NEW d \in 0..FadeTime, NEW e \in 0..FadeTime, d <= e
    PROVE  /\ ValueAt(r, d) \in Nat /\ ValueAt(r, e) \in Nat
           /\ OnTheWay(r.from, ValueAt(r, d), ValueAt(r, e), r.to)
<1> DEFINE from == r.from
           to == r.to
           x == Come(d)
           y == Come(e)
           Moved(v) == from + Quotient((to - from) * v, EaseOne)
<1>1. EaseOne \in Nat \ {0} BY DEF FadeAssumption
<1>2. x \in 0..EaseOne /\ y \in 0..EaseOne /\ x <= y BY ComeRises
<1>3. ValueAt(r, d) = Moved(x) /\ ValueAt(r, e) = Moved(y) BY Zenon DEF ValueAt, Come
<1>4. from \in Nat /\ to \in Nat OBVIOUS
<1> HIDE DEF from, to, x, y
<1>5. CASE from <= to
  <2> DEFINE w == to - from
             p == (w * x) \div EaseOne
             q == (w * y) \div EaseOne
  <2>1. w \in Nat /\ to = from + w BY <1>4, <1>5
  <2> HIDE DEF w
  <2>2. w * x \in Nat /\ w * y \in Nat /\ w * EaseOne \in Nat BY <1>1, <1>2, <2>1, Products
  <2>3. w * x <= w * y /\ w * y <= w * EaseOne
    <3>1. x * w <= y * w /\ y * w <= EaseOne * w BY <1>1, <1>2, <2>1, ProductsOrdered
    <3>2. x * w = w * x /\ y * w = w * y /\ EaseOne * w = w * EaseOne BY <1>1, <1>2, <2>1
    <3>. QED BY <3>1, <3>2, Zenon
  <2>4. p \in Nat /\ q \in Nat /\ p <= q /\ q <= (w * EaseOne) \div EaseOne
    BY <1>1, <2>2, <2>3, Division, DivisionsOrdered
  <2>5. (w * EaseOne) \div EaseOne = w BY <1>1, <2>1, MultipleDivided
  <2>6. Quotient((to - from) * x, EaseOne) = p /\ Quotient((to - from) * y, EaseOne) = q
    <3>1. ~((to - from) * x < 0) /\ ~((to - from) * y < 0)
      <4>1. ~(w * x < 0) /\ ~(w * y < 0) BY <2>2
      <4>. QED BY <4>1, Zenon DEF w
    <3>. QED BY <3>1, Zenon DEF Quotient, w
  <2> HIDE DEF p, q
  <2>7. Moved(x) = from + p /\ Moved(y) = from + q BY <2>6, Zenon
  <2>8. /\ from + p \in Nat /\ from + q \in Nat
        /\ OnTheWay(from, from + p, from + q, to)
    BY <1>4, <2>1, <2>4, <2>5 DEF OnTheWay
  <2>. QED BY <1>3, <2>7, <2>8, Zenon DEF from, to
<1>6. CASE to < from
  <2> DEFINE w == from - to
             p == (w * x) \div EaseOne
             q == (w * y) \div EaseOne
  <2>1. w \in Nat /\ from = to + w BY <1>4, <1>6
  <2>0. to - from = -w BY <1>4
  <2> HIDE DEF w
  <2>2. w * x \in Nat /\ w * y \in Nat /\ w * EaseOne \in Nat BY <1>1, <1>2, <2>1, Products
  <2>3. w * x <= w * y /\ w * y <= w * EaseOne
    <3>1. x * w <= y * w /\ y * w <= EaseOne * w BY <1>1, <1>2, <2>1, ProductsOrdered
    <3>2. x * w = w * x /\ y * w = w * y /\ EaseOne * w = w * EaseOne BY <1>1, <1>2, <2>1
    <3>. QED BY <3>1, <3>2, Zenon
  <2>4. p \in Nat /\ q \in Nat /\ p <= q /\ q <= (w * EaseOne) \div EaseOne
    BY <1>1, <2>2, <2>3, Division, DivisionsOrdered
  <2>5. (w * EaseOne) \div EaseOne = w BY <1>1, <2>1, MultipleDivided
  <2>6. \A v \in 0..EaseOne : w * v \in Nat =>
           Quotient((to - from) * v, EaseOne) = -((w * v) \div EaseOne)
    <3> SUFFICES ASSUME NEW v \in 0..EaseOne, w * v \in Nat
                 PROVE  Quotient((to - from) * v, EaseOne) = -((w * v) \div EaseOne)
      OBVIOUS
    <3> DEFINE m == w * v
               n == (to - from) * v
    <3>1. v \in Int OBVIOUS
    <3>2. n = -m
      <4>1. (-w) * v = -(w * v)
        <5>2. w \in Int BY <2>1
        <5>. QED BY <3>1, <5>2, Negatives, Zenon
      <4>. QED BY <2>0, <4>1, Zenon
    <3>3. m \in Nat OBVIOUS
    <3> HIDE DEF m, n
    <3>4. CASE m = 0
      <4>1. n = 0 /\ ~(n < 0)
        <5>1. n = 0 BY <3>2, <3>4, Negatives, Zenon
        <5>2. ~(0 < 0) OBVIOUS
        <5>. QED BY <5>1, <5>2, Zenon
      <4>2. Quotient(n, EaseOne) = n \div EaseOne BY <4>1, Zenon DEF Quotient
      <4>3. 0 \div EaseOne = 0 BY <1>1
      <4>4. -(m \div EaseOne) = 0 /\ n \div EaseOne = 0
        <5>1. m \div EaseOne = 0 /\ n \div EaseOne = 0 BY <3>4, <4>1, <4>3, Zenon
        <5>2. -(m \div EaseOne) = 0 BY <5>1, Negatives, Zenon
        <5>. QED BY <5>1, <5>2, Zenon
      <4>. QED BY <4>2, <4>4, Zenon DEF m, n
    <3>5. CASE m # 0
      <4>1. n < 0 /\ -n = m BY <3>2, <3>3, <3>5
      <4>2. Quotient(n, EaseOne) = -((-n) \div EaseOne) BY <4>1, Zenon DEF Quotient
      <4>. QED BY <4>1, <4>2, Zenon DEF m, n
    <3>. QED BY <3>4, <3>5
  <2>7. Moved(x) = from + (-p) /\ Moved(y) = from + (-q) BY <1>2, <2>2, <2>6, Zenon
  <2> HIDE DEF p, q
  <2>8. /\ from + (-p) \in Nat /\ from + (-q) \in Nat
        /\ OnTheWay(from, from + (-p), from + (-q), to)
    BY <1>4, <2>1, <2>4, <2>5 DEF OnTheWay
  <2>. QED BY <1>3, <2>7, <2>8, Zenon DEF from, to
<1>. QED BY <1>4, <1>5, <1>6
-----------------------------------------------------------------------------
(* One fade *)

Ramps == [active : BOOLEAN, start : 0..Wrap-1, from : Nat, to : Nat, current : Nat]

\* Where a fade can have come to at most at age a.
Furthest(r, a) == IF a = FadeTime THEN r.to ELSE ValueAt(r, a)

\* What holds of a fade r of age a at time m that was last asked to go to t.
FadeSound(r, a, m, t) ==
    /\ r \in Ramps /\ a \in 0..FadeTime
    /\ OnTheWay(r.from, r.current, Furthest(r, a), r.to)
    /\ r.active = FALSE => a = FadeTime /\ r.current = r.to
    /\ r.to = t
    /\ r.active = TRUE /\ a < FadeTime => (m - r.start) % Wrap = a

LEMMA Clock ==
    ASSUME FadeAssumption
    PROVE  /\ Wrap \in Nat \ {0} /\ FadeTime \in Nat \ {0} /\ MaxLag \in Nat
           /\ Wrap \div 2 \in Nat /\ 2 * (Wrap \div 2) <= Wrap
           /\ FadeTime + MaxLag < Wrap \div 2
BY DEF FadeAssumption

LEMMA RestSound ==
    ASSUME FadeAssumption, NEW v \in Nat, NEW m
    PROVE  FadeSound(RampSet(v), FadeTime, m, v) /\ RampSet(v).active = FALSE
<1> DEFINE r == RampSet(v)
<1>1. /\ r.active = FALSE /\ r.from = v /\ r.to = v /\ r.current = v
      BY DEF RampSet
<1>2. r \in Ramps
  <2>1. 0 \in 0..Wrap-1 BY Clock
  <2>. QED BY <2>1 DEF RampSet, Ramps
<1> HIDE DEF r
<1>3. Furthest(r, FadeTime) = v BY <1>1, Zenon DEF Furthest
<1>4. OnTheWay(v, v, v, v) BY DEF OnTheWay
<1>5. FadeTime \in 0..FadeTime /\ ~(FadeTime < FadeTime) BY Clock
<1>6. FadeSound(r, FadeTime, m, v) BY <1>1, <1>2, <1>3, <1>4, <1>5, Zenon DEF FadeSound
<1>. QED BY <1>1, <1>6, Zenon DEF r

LEMMA StartSound ==
    ASSUME FadeAssumption, millis \in 0..Wrap-1, NEW r, r.current \in Nat, NEW v \in Nat
    PROVE  FadeSound(RampStart(r, v), IF RampStart(r, v).active THEN 0 ELSE FadeTime,
                     millis, v)
<1>1. CASE v = r.current
  <2>1. RampStart(r, v) = RampSet(v) BY <1>1, Zenon DEF RampStart
  <2>2. ~RampSet(v).active BY RestSound
  <2>. QED BY <2>1, <2>2, RestSound, Zenon
<1>2. CASE v # r.current
  <2> DEFINE c == r.current
             s == [active |-> TRUE, start |-> millis, from |-> c, to |-> v, current |-> c]
  <2>1. RampStart(r, v) = s BY <1>2, Zenon DEF RampStart
  <2>2. c \in Nat OBVIOUS
  <2> HIDE DEF c
  <2>3. s \in Ramps BY <2>2 DEF Ramps
  <2>4. s.active = TRUE /\ s.start = millis /\ s.from = c /\ s.to = v /\ s.current = c
    OBVIOUS
  <2> HIDE DEF s
  <2>5. 0 \in 0..FadeTime /\ 0 <= 0 /\ 0 # FadeTime BY Clock
  <2>6. s.from \in Nat /\ s.to \in Nat BY <2>2, <2>4
  <2>7. ValueAt(s, 0) \in Nat /\ OnTheWay(s.from, ValueAt(s, 0), ValueAt(s, 0), s.to)
    BY <2>5, <2>6, ValueIsOnTheWay
  <2>8. Furthest(s, 0) = ValueAt(s, 0) BY <2>5, Zenon DEF Furthest
  <2>9. OnTheWay(s.from, s.current, Furthest(s, 0), s.to)
    <3> DEFINE x == ValueAt(s, 0)
    <3>1. x \in Nat /\ OnTheWay(c, x, x, v) BY <2>4, <2>7
    <3> HIDE DEF x
    <3>2. OnTheWay(c, c, x, v) BY <2>2, <3>1 DEF OnTheWay
    <3>. QED BY <2>4, <2>8, <3>2, Zenon DEF x
  <2>10. (millis - s.start) % Wrap = 0
    <3>1. millis - millis = 0 OBVIOUS
    <3>2. 0 % Wrap = 0
      <4>1. 0 \in Int /\ 0 <= 0 /\ 0 < Wrap BY Clock
      <4>. QED BY <4>1, Clock, Remainders
    <3>. QED BY <2>4, <3>1, <3>2, Zenon
  <2>11. TRUE # FALSE OBVIOUS
  <2>12. FadeSound(s, 0, millis, v)
    BY <2>3, <2>4, <2>5, <2>9, <2>10, <2>11, Zenon DEF FadeSound
  <2>13. s.active BY <2>4
  <2>. QED BY <2>1, <2>12, <2>13, Zenon
<1>. QED BY <1>1, <1>2

\* The time a loop's sample shows since the start of a fade.
LEMMA SampleShows ==
    ASSUME FadeAssumption, millis \in 0..Wrap-1, lag \in 0..MaxLag,
           NEW s \in 0..Wrap-1, NEW a \in 0..FadeTime, (millis - s) % Wrap = a
    PROVE  IF lag <= a THEN (Sampled - s) % Wrap = a - lag
           ELSE (Sampled - s) % Wrap >= Wrap \div 2
<1> DEFINE h == Wrap \div 2
           x == millis - lag
           y == Sampled - s
<1>1. /\ Wrap \in Nat \ {0} /\ FadeTime \in Nat /\ MaxLag \in Nat /\ h \in Nat
      /\ 2 * h <= Wrap /\ FadeTime + MaxLag < h
  BY Clock
<1> HIDE DEF h
<1>2. millis - s = a \/ millis - s = a - Wrap
  <2>1. /\ 0 <= millis - s => (millis - s) % Wrap = millis - s
        /\ millis - s < 0 => (millis - s) % Wrap = millis - s + Wrap
    <3>1. millis - s \in Int /\ -Wrap <= millis - s /\ millis - s < Wrap BY <1>1
    <3>. QED BY <1>1, <3>1, Remainders
  <2>. QED BY <1>1, <2>1
<1>3. x \in Int /\ -Wrap <= x /\ x < Wrap BY <1>1
<1>4. Sampled = x \/ Sampled = x + Wrap
  <2>1. /\ 0 <= x => x % Wrap = x
        /\ x < 0 => x % Wrap = x + Wrap
    <3> HIDE DEF x
    <3>. QED BY <1>1, <1>3, Remainders
  <2>. QED BY <1>1, <1>3, <2>1 DEF Sampled
<1>5. Sampled \in 0..Wrap-1
  <2> HIDE DEF x
  <2>1. x % Wrap \in 0..Wrap-1 BY <1>1, <1>3, Remainders
  <2>. QED BY <2>1, Zenon DEF Sampled, x
<1>6. y = a - lag \/ y = a - lag - Wrap \/ y = a - lag + Wrap
  BY <1>1, <1>2, <1>4
<1>7. y \in Int /\ -Wrap <= y /\ y < Wrap BY <1>1, <1>5
<1>8. /\ 0 <= y => y % Wrap = y
      /\ y < 0 => y % Wrap = y + Wrap
  <2> HIDE DEF y
  <2>. QED BY <1>1, <1>7, Remainders
<1> HIDE DEF y
<1>9. lag <= a => y % Wrap = a - lag
  BY <1>1, <1>6, <1>7, <1>8
<1>10. a < lag => y % Wrap >= h
  BY <1>1, <1>6, <1>7, <1>8
<1>. QED BY <1>9, <1>10 DEF h, y
LEMMA FurthestIs ==
    ASSUME FadeAssumption, NEW r \in Ramps, NEW a \in 0..FadeTime
    PROVE  Furthest(r, a) \in Nat /\ OnTheWay(r.from, Furthest(r, a), Furthest(r, a), r.to)
<1>1. r.from \in Nat /\ r.to \in Nat BY DEF Ramps
<1>2. CASE a = FadeTime
  <2>1. Furthest(r, a) = r.to BY <1>2, Zenon DEF Furthest
  <2>. QED BY <1>1, <2>1 DEF OnTheWay
<1>3. CASE a # FadeTime
  <2>1. Furthest(r, a) = ValueAt(r, a) BY <1>3, Zenon DEF Furthest
  <2>2. a <= a OBVIOUS
  <2>3. ValueAt(r, a) \in Nat /\ OnTheWay(r.from, ValueAt(r, a), ValueAt(r, a), r.to)
    BY <1>1, <2>2, ValueIsOnTheWay
  <2>. QED BY <2>1, <2>3, Zenon
<1>. QED BY <1>2, <1>3

\* A fade at an age is not ahead of what it may be at a later one.
LEMMA ValueBefore ==
    ASSUME FadeAssumption, NEW r \in Ramps, NEW e \in 0..FadeTime, NEW a \in 0..FadeTime,
           e <= a, e # FadeTime
    PROVE  ValueAt(r, e) \in Nat /\ OnTheWay(r.from, ValueAt(r, e), Furthest(r, a), r.to)
<1>1. r.from \in Nat /\ r.to \in Nat BY DEF Ramps
<1>2. ValueAt(r, e) \in Nat BY <1>1, ValueIsOnTheWay
<1>3. CASE a = FadeTime
  <2>1. Furthest(r, a) = r.to BY <1>3, Zenon DEF Furthest
  <2>2. OnTheWay(r.from, ValueAt(r, e), ValueAt(r, a), r.to) /\ ValueAt(r, a) \in Nat
    BY <1>1, ValueIsOnTheWay
  <2> DEFINE x == ValueAt(r, e)
             y == ValueAt(r, a)
  <2> HIDE DEF x, y
  <2>3. x \in Nat /\ y \in Nat /\ OnTheWay(r.from, x, y, r.to) BY <1>2, <2>2 DEF x, y
  <2>4. OnTheWay(r.from, x, r.to, r.to) BY <1>1, <2>3 DEF OnTheWay
  <2>. QED BY <1>2, <2>1, <2>4, Zenon DEF x
<1>4. CASE a # FadeTime
  <2>1. Furthest(r, a) = ValueAt(r, a) BY <1>4, Zenon DEF Furthest
  <2>2. OnTheWay(r.from, ValueAt(r, e), ValueAt(r, a), r.to) BY <1>1, ValueIsOnTheWay
  <2>. QED BY <1>2, <2>1, <2>2, Zenon
<1>. QED BY <1>3, <1>4

LEMMA FadeTickSound ==
    ASSUME FadeAssumption, millis \in 0..Wrap-1, lag \in 0..MaxLag,
           NEW r, NEW a, NEW t \in Nat, FadeSound(r, a, millis, t)
    PROVE  FadeSound(RampTick(r), a, millis, t)
<1> DEFINE elapsed == (Sampled - r.start) % Wrap
<1>1. /\ r \in Ramps /\ a \in 0..FadeTime /\ r.to = t
      /\ OnTheWay(r.from, r.current, Furthest(r, a), r.to)
      /\ r.active = TRUE /\ a < FadeTime => (millis - r.start) % Wrap = a
  BY Zenon DEF FadeSound
<1>2. r.active \in BOOLEAN /\ r.start \in 0..Wrap-1 /\ r.from \in Nat /\ r.to \in Nat
  BY <1>1 DEF Ramps
<1>3. elapsed \in 0..Wrap-1
  <2>1. Sampled \in 0..Wrap-1
    <3>1. millis - lag \in Int BY Clock
    <3>. QED BY <3>1, Clock, Remainders DEF Sampled
  <2>2. Sampled - r.start \in Int BY <1>2, <2>1
  <2>. QED BY <2>2, Clock, Remainders
<1>4. CASE r.active = FALSE \/ elapsed >= Wrap \div 2
  <2>1. RampTick(r) = r BY <1>4, Zenon DEF RampTick
  <2>. QED BY <2>1, Zenon
<1>5. CASE r.active = TRUE /\ ~(elapsed >= Wrap \div 2)
  <2>0. r.active BY <1>5, Zenon
  <2>1. a < FadeTime => lag <= a /\ elapsed = a - lag
    <3> SUFFICES ASSUME a < FadeTime PROVE lag <= a /\ elapsed = a - lag OBVIOUS
    <3>1. (millis - r.start) % Wrap = a BY <1>1, <1>5
    <3>2. IF lag <= a THEN elapsed = a - lag ELSE elapsed >= Wrap \div 2
      BY <1>1, <1>2, <3>1, SampleShows
    <3>. QED BY <1>5, <3>2, Zenon
  <2> HIDE DEF elapsed
  <2>2. CASE elapsed >= FadeTime
    <3>1. RampTick(r) = RampSet(r.to) BY <1>5, <2>0, <2>2, Zenon DEF RampTick, elapsed
    <3>2. a = FadeTime
      <4>1. a < FadeTime => FALSE BY <1>1, <1>3, <2>1, <2>2, Clock
      <4>. QED BY <1>1, <4>1, Clock
    <3>. QED BY <1>1, <3>1, <3>2, RestSound, Zenon
  <2>3. CASE ~(elapsed >= FadeTime)
    <3> DEFINE v == ValueAt(r, elapsed)
               s == [r EXCEPT !.current = v]
    <3>1. RampTick(r) = s BY <1>5, <2>0, <2>3, Zenon DEF RampTick, elapsed
    <3>2. elapsed \in 0..FadeTime /\ elapsed <= a /\ elapsed # FadeTime
      BY <1>1, <1>3, <2>1, <2>3, Clock
    <3>3. v \in Nat /\ OnTheWay(r.from, v, Furthest(r, a), r.to)
      BY <1>1, <3>2, ValueBefore
    <3> HIDE DEF v
    <3>4. /\ s \in Ramps /\ s.active = r.active /\ s.start = r.start /\ s.from = r.from
          /\ s.to = r.to /\ s.current = v
      BY <1>1, <3>3 DEF Ramps
    <3> HIDE DEF s
    <3>5. Furthest(s, a) = Furthest(r, a) BY <3>4, Zenon DEF Furthest, ValueAt
    <3>6. r.active # FALSE BY <1>5, Zenon
    <3>7. FadeSound(s, a, millis, t)
      BY <1>1, <3>3, <3>4, <3>5, <3>6, Zenon DEF FadeSound
    <3>. QED BY <3>1, <3>7, Zenon
  <2>. QED BY <2>2, <2>3
<1>. QED BY <1>2, <1>4, <1>5

LEMMA PassSound ==
    ASSUME FadeAssumption, NEW r, NEW a, NEW m \in 0..Wrap-1, NEW t, FadeSound(r, a, m, t)
    PROVE  FadeSound(r, IF a < FadeTime THEN a + 1 ELSE FadeTime, (m + 1) % Wrap, t)
<1>1. /\ r \in Ramps /\ a \in 0..FadeTime /\ r.to = t
      /\ OnTheWay(r.from, r.current, Furthest(r, a), r.to)
      /\ r.active = FALSE => a = FadeTime /\ r.current = r.to
      /\ r.active = TRUE /\ a < FadeTime => (m - r.start) % Wrap = a
  BY Zenon DEF FadeSound
<1>2. r.start \in 0..Wrap-1 /\ r.from \in Nat /\ r.to \in Nat /\ r.current \in Nat
  BY <1>1 DEF Ramps
<1>3. CASE ~(a < FadeTime)
  <2>1. a = FadeTime BY <1>1, <1>3, Clock
  <2>. QED BY <1>1, <1>3, <2>1, Zenon DEF FadeSound
<1>4. CASE a < FadeTime
  <2> DEFINE b == a + 1
             x == Furthest(r, a)
             y == Furthest(r, b)
  <2>1. b \in 0..FadeTime /\ a <= b /\ a # FadeTime BY <1>1, <1>4, Clock
  <2>2. x = ValueAt(r, a) BY <2>1, Zenon DEF Furthest
  <2> HIDE DEF b
  <2>3. x \in Nat /\ OnTheWay(r.from, x, y, r.to) BY <1>1, <2>1, <2>2, ValueBefore
  <2>4. y \in Nat BY <1>1, <2>1, FurthestIs
  <2>5. OnTheWay(r.from, r.current, x, r.to) BY <1>1
  <2> HIDE DEF x, y
  <2>6. OnTheWay(r.from, r.current, y, r.to) BY <1>2, <2>3, <2>4, <2>5 DEF OnTheWay
  <2>7. r.active # FALSE
    <3>1. a # FadeTime BY <2>1
    <3>. QED BY <1>1, <3>1, Zenon
  <2>8. b < FadeTime => (((m + 1) % Wrap) - r.start) % Wrap = b
    <3> SUFFICES ASSUME b < FadeTime, r.active = TRUE
                 PROVE  (((m + 1) % Wrap) - r.start) % Wrap = b
      <4>1. r.active = TRUE BY <1>1, <2>7 DEF Ramps
      <4>. QED BY <4>1, Zenon
    <3> DEFINE n == (m + 1) % Wrap
               z == m - r.start
               w == n - r.start
    <3>1. Wrap \in Nat \ {0} /\ FadeTime < Wrap /\ FadeTime \in Nat BY Clock
    <3>2. z % Wrap = a BY <1>1, <1>4
    <3>3. n = m + 1 \/ n = m + 1 - Wrap
      <4>1. m + 1 \in Int /\ 0 <= m + 1 /\ (m + 1 < Wrap \/ (Wrap <= m + 1 /\ m + 1 < 2 * Wrap))
        BY <3>1
      <4> DEFINE k == m + 1
      <4> HIDE DEF k
      <4>2. k \in Int /\ 0 <= k /\ (k < Wrap \/ (Wrap <= k /\ k < 2 * Wrap)) BY <4>1 DEF k
      <4>3. k % Wrap = k \/ k % Wrap = k - Wrap BY <3>1, <4>2, Remainders
      <4>4. n = k % Wrap BY Zenon DEF k
      <4>5. k - Wrap = m + 1 - Wrap BY DEF k
      <4>6. k = m + 1 BY DEF k
      <4> HIDE DEF n
      <4>. QED BY <4>3, <4>4, <4>5, <4>6, Zenon
    <3>4. n \in 0..Wrap-1
      <4>1. m + 1 \in Int BY <3>1
      <4>. QED BY <3>1, <4>1, Remainders
    <3>5. z \in Int /\ -Wrap <= z /\ z < Wrap BY <1>2, <3>1
    <3>6. z = a \/ z = a - Wrap
      <4> HIDE DEF z
      <4>1. /\ 0 <= z => z % Wrap = z
            /\ z < 0 => z % Wrap = z + Wrap
        BY <3>1, <3>5, Remainders
      <4>. QED BY <1>1, <3>1, <3>2, <3>5, <4>1
    <3>7. w \in Int /\ -Wrap <= w /\ w < Wrap
      <4> HIDE DEF n
      <4>. QED BY <1>2, <3>1, <3>4
    <3> HIDE DEF n
    <3>8. w = b \/ w = b - Wrap \/ w = b + Wrap \/ w = b - Wrap - Wrap
      <4> DEFINE q == r.start
      <4>1. w = n - q /\ z = m - q /\ b = a + 1 BY Zenon DEF b
      <4>2. q \in Int /\ a \in Int /\ m \in Int BY <1>1, <1>2, <3>1
      <4> HIDE DEF q, w, z
      <4>. QED BY <3>1, <3>3, <3>4, <3>6, <4>1, <4>2
    <3> HIDE DEF w
    <3>9. b \in Nat /\ b < Wrap BY <2>1, <3>1
    <3>10. /\ 0 <= w => w % Wrap = w
           /\ w < 0 => w % Wrap = w + Wrap
      BY <3>1, <3>7, Remainders
    <3>11. w % Wrap = b BY <3>1, <3>7, <3>8, <3>9, <3>10
    <3>. QED BY <3>11, Zenon DEF w, n
  <2>9. FadeSound(r, b, (m + 1) % Wrap, t)
    BY <1>1, <2>1, <2>6, <2>7, <2>8, Zenon DEF FadeSound, y
  <2>. QED BY <1>4, <2>9, Zenon DEF b
<1>. QED BY <1>3, <1>4
-----------------------------------------------------------------------------
(* The fades of the light *)

FadeType ==
    /\ millis \in 0..Wrap-1 /\ lag \in 0..MaxLag /\ lit \in BOOLEAN
    /\ target \in [Fades -> Nat] /\ ramps \in [Fades -> Ramps]
    /\ age \in [Fades -> 0..FadeTime]

FadeInv ==
    /\ FadeType
    /\ \A f \in Fades : FadeSound(ramps[f], age[f], millis, target[f])

\* The reading of FadesAreSmooth in the terms of the proof.
LEMMA SoundIsSmooth ==
    ASSUME FadeAssumption, FadeInv
    PROVE  FadesAreSmooth
<1> SUFFICES ASSUME NEW f \in Fades
             PROVE  LET r == ramps[f]
                        furthest == IF age[f] = FadeTime THEN r.to ELSE ValueAt(r, age[f])
                    IN  /\ Between(r.from, r.current, furthest) /\ Between(r.from, furthest, r.to)
                        /\ ~r.active => age[f] = FadeTime /\ r.current = r.to
                        /\ r.to = target[f]
  BY Zenon DEF FadesAreSmooth
<1> DEFINE r == ramps[f]
           y == Furthest(r, age[f])
<1>1. /\ r \in Ramps /\ age[f] \in 0..FadeTime /\ OnTheWay(r.from, r.current, y, r.to)
      /\ r.active = FALSE => age[f] = FadeTime /\ r.current = r.to
      /\ r.to = target[f]
  BY Zenon DEF FadeInv, FadeSound
<1>2. r.active \in BOOLEAN /\ r.from \in Nat /\ r.to \in Nat /\ r.current \in Nat
  BY <1>1 DEF Ramps
<1>3. y \in Nat BY <1>1, FurthestIs
<1>4. Between(r.from, r.current, y) /\ Between(r.from, y, r.to)
  <2> HIDE DEF y
  <2>. QED BY <1>1, <1>2, <1>3 DEF Between, OnTheWay
<1>5. ~r.active => r.active = FALSE BY <1>2
<1>6. y = IF age[f] = FadeTime THEN r.to ELSE ValueAt(r, age[f]) BY Zenon DEF Furthest
<1> HIDE DEF y
<1>. QED BY <1>1, <1>4, <1>5, <1>6, Zenon

LEMMA FadeTypeFrom ==
    ASSUME FadeAssumption,
           millis \in 0..Wrap-1, lag \in 0..MaxLag, lit \in BOOLEAN, target \in [Fades -> Nat],
           DOMAIN ramps = Fades, ramps = [f \in Fades |-> ramps[f]],
           DOMAIN age = Fades, age = [f \in Fades |-> age[f]],
           \A f \in Fades : FadeSound(ramps[f], age[f], millis, target[f])
    PROVE  FadeInv
<1>1. \A f \in Fades : ramps[f] \in Ramps /\ age[f] \in 0..FadeTime BY Zenon DEF FadeSound
<1>2. ramps \in [Fades -> Ramps] /\ age \in [Fades -> 0..FadeTime] BY <1>1
<1>. QED BY <1>2 DEF FadeInv, FadeType

LEMMA FadeAtStart == FadeAssumption /\ FadeInit => FadeInv
<1> SUFFICES ASSUME FadeAssumption, FadeInit PROVE FadeInv OBVIOUS
<1>1. /\ millis = 0 /\ lag = 0 /\ lit = FALSE /\ target = [f \in Fades |-> 0]
      /\ ramps = [f \in Fades |-> RampSet(target[f])] /\ age = [f \in Fades |-> FadeTime]
  BY DEF FadeInit
<1>2. millis \in 0..Wrap-1 /\ lag \in 0..MaxLag /\ lit \in BOOLEAN /\ target \in [Fades -> Nat]
  <2>1. 0 \in 0..Wrap-1 /\ 0 \in 0..MaxLag BY Clock
  <2>2. target \in [Fades -> Nat] BY <1>1
  <2>3. FALSE \in BOOLEAN OBVIOUS
  <2>. QED BY <1>1, <2>1, <2>2, <2>3, Zenon
<1>3. ASSUME NEW f \in Fades PROVE FadeSound(ramps[f], age[f], millis, target[f])
  <2>1. ramps[f] = RampSet(target[f]) /\ age[f] = FadeTime /\ target[f] \in Nat
    BY <1>1, <1>2, Zenon
  <2>. QED BY <2>1, RestSound, Zenon
<1>4. /\ DOMAIN ramps = Fades /\ ramps = [f \in Fades |-> ramps[f]]
      /\ DOMAIN age = Fades /\ age = [f \in Fades |-> age[f]]
  BY <1>1
<1>. QED BY <1>2, <1>3, <1>4, FadeTypeFrom

\* A fade of the light starts, and the others stay as they are.
LEMMA RestartKeeps ==
    ASSUME FadeAssumption, FadeInv, NEW f \in Fades, NEW r, NEW t \in Nat, t = r.to,
           FadeSound(r, IF r.active THEN 0 ELSE FadeTime, millis, t),
           Restarted(f, r), lit' \in BOOLEAN, target' = [target EXCEPT ![f] = t]
    PROVE  FadeInv'
<1> DEFINE a == IF r.active THEN 0 ELSE FadeTime
<1>1. /\ ramps' = [ramps EXCEPT ![f] = r] /\ age' = [age EXCEPT ![f] = a]
      /\ millis' = millis /\ lag' = lag
  BY Zenon DEF Restarted
<1>2. FadeSound(r, a, millis, t) OBVIOUS
<1> HIDE DEF a
<1>3. /\ millis \in 0..Wrap-1 /\ lag \in 0..MaxLag /\ target \in [Fades -> Nat]
      /\ ramps \in [Fades -> Ramps] /\ age \in [Fades -> 0..FadeTime]
      /\ \A g \in Fades : FadeSound(ramps[g], age[g], millis, target[g])
  BY Zenon DEF FadeInv, FadeType
<1>4. r \in Ramps /\ a \in 0..FadeTime BY <1>2, Zenon DEF FadeSound
<1>5. /\ target' \in [Fades -> Nat] /\ target'[f] = t
      /\ ramps' \in [Fades -> Ramps] /\ ramps'[f] = r
      /\ age' \in [Fades -> 0..FadeTime] /\ age'[f] = a
  BY <1>1, <1>3, <1>4
<1>6. \A g \in Fades : g # f =>
         ramps'[g] = ramps[g] /\ age'[g] = age[g] /\ target'[g] = target[g]
  BY <1>1, <1>3
<1>7. ASSUME NEW g \in Fades PROVE FadeSound(ramps'[g], age'[g], millis', target'[g])
  <2>1. CASE g = f BY <1>1, <1>2, <1>5, <2>1, Zenon
  <2>2. CASE g # f BY <1>1, <1>3, <1>6, <2>2, Zenon
  <2>. QED BY <2>1, <2>2
<1>8. /\ DOMAIN ramps' = Fades /\ ramps' = [g \in Fades |-> ramps'[g]]
      /\ DOMAIN age' = Fades /\ age' = [g \in Fades |-> age'[g]]
  BY <1>5
<1>9. FadeType' BY <1>1, <1>3, <1>5 DEF FadeType
<1>. QED BY <1>7, <1>9, Zenon DEF FadeInv

LEMMA StartTarget ==
    ASSUME FadeAssumption, millis \in 0..Wrap-1, NEW r, r.current \in Nat, NEW v \in Nat
    PROVE  RampStart(r, v).to = v
BY StartSound, Zenon DEF FadeSound

LEMMA FadeStepKeeps ==
    ASSUME FadeAssumption, FadeInv, [FadeNext]_fadeVars
    PROVE  FadeInv'
<1>1. /\ millis \in 0..Wrap-1 /\ lag \in 0..MaxLag /\ lit \in BOOLEAN
      /\ target \in [Fades -> Nat] /\ ramps \in [Fades -> Ramps]
      /\ age \in [Fades -> 0..FadeTime]
      /\ \A f \in Fades : FadeSound(ramps[f], age[f], millis, target[f])
  BY Zenon DEF FadeInv, FadeType
<1>2. \A f \in Fades : target[f] \in Nat /\ ramps[f] \in Ramps BY <1>1
<1>3. CASE FadeOn
  <2> DEFINE f == "brightness"
             v == target[f]
             r == RampStart(RampSet(0), v)
  <2>1. f \in Fades /\ v \in Nat BY <1>2 DEF FadeAssumption
  <2>2. RampSet(0).current \in Nat BY DEF RampSet
  <2>3. FadeSound(r, IF r.active THEN 0 ELSE FadeTime, millis, v) /\ r.to = v
    BY <1>1, <2>1, <2>2, StartSound, StartTarget
  <2>4. Restarted(f, r) /\ lit' \in BOOLEAN /\ target' = target BY <1>3, Zenon DEF FadeOn
  <2>5. target' = [target EXCEPT ![f] = v] BY <1>1, <2>1, <2>4
  <2> HIDE DEF r, v, f
  <2>. QED BY <2>1, <2>3, <2>4, <2>5, RestartKeeps
<1>4. CASE FadeOff \/ ColourSet \/ LoopSamples \/ UNCHANGED fadeVars
  <2>1. /\ millis' = millis /\ target' = target /\ ramps' = ramps /\ age' = age
        /\ (lag' = lag \/ lag' = 0) /\ (lit' = lit \/ lit' = FALSE)
    BY <1>4, Zenon DEF FadeOff, ColourSet, LoopSamples, fadeVars
  <2>2. lag' \in 0..MaxLag /\ lit' \in BOOLEAN
    <3>1. 0 \in 0..MaxLag BY Clock
    <3>2. FALSE \in BOOLEAN OBVIOUS
    <3>. QED BY <1>1, <2>1, <3>1, <3>2, Zenon
  <2>. QED BY <1>1, <2>1, <2>2, Zenon DEF FadeInv, FadeType
<1>5. ASSUME NEW f \in Fades, NEW v \in LightLevels, FadeTo(f, v) PROVE FadeInv'
  <2> DEFINE r == RampStart(ramps[f], v)
  <2>1. v \in Nat BY DEF FadeAssumption
  <2>2. ramps[f].current \in Nat BY <1>2 DEF Ramps
  <2>3. FadeSound(r, IF r.active THEN 0 ELSE FadeTime, millis, v) /\ r.to = v
    BY <1>1, <2>1, <2>2, StartSound, StartTarget
  <2>4. Restarted(f, r) /\ lit' \in BOOLEAN /\ target' = [target EXCEPT ![f] = v]
    BY <1>1, <1>5, Zenon DEF FadeTo
  <2> HIDE DEF r
  <2>. QED BY <2>1, <2>3, <2>4, RestartKeeps
<1>6. CASE LightTick
  <2>1. /\ ramps' = [f \in Fades |-> RampTick(ramps[f])]
        /\ millis' = millis /\ lag' = lag /\ lit' = lit /\ target' = target /\ age' = age
    BY <1>6, Zenon DEF LightTick
  <2>2. ASSUME NEW f \in Fades PROVE FadeSound(ramps'[f], age'[f], millis', target'[f])
    <3>1. ramps'[f] = RampTick(ramps[f]) BY <2>1, Zenon
    <3>. QED BY <1>1, <1>2, <2>1, <3>1, FadeTickSound, Zenon
  <2>3. \A f \in Fades : ramps'[f] \in Ramps BY <2>2, Zenon DEF FadeSound
  <2>4. ramps' \in [Fades -> Ramps] BY <2>1, <2>3
  <2>5. FadeType' BY <1>1, <2>1, <2>4, Zenon DEF FadeType
  <2>. QED BY <2>2, <2>5, Zenon DEF FadeInv
<1>7. CASE MillisecondPasses
  <2>1. /\ lag < MaxLag /\ millis' = (millis + 1) % Wrap /\ lag' = lag + 1
        /\ age' = [f \in Fades |-> IF age[f] < FadeTime THEN age[f] + 1 ELSE FadeTime]
        /\ lit' = lit /\ target' = target /\ ramps' = ramps
    BY <1>7, Zenon DEF MillisecondPasses
  <2>2. ASSUME NEW f \in Fades PROVE FadeSound(ramps'[f], age'[f], millis', target'[f])
    <3>1. age'[f] = IF age[f] < FadeTime THEN age[f] + 1 ELSE FadeTime BY <2>1, Zenon
    <3>2. FadeSound(ramps[f], IF age[f] < FadeTime THEN age[f] + 1 ELSE FadeTime,
                    (millis + 1) % Wrap, target[f])
      BY <1>1, PassSound, Zenon
    <3>. QED BY <2>1, <3>1, <3>2, Zenon
  <2>3. millis' \in 0..Wrap-1 /\ lag' \in 0..MaxLag
    <3>1. millis + 1 \in Int /\ Wrap \in Nat \ {0} BY <1>1, Clock
    <3>2. (millis + 1) % Wrap \in 0..Wrap-1 BY <3>1, Remainders
    <3>3. lag + 1 \in 0..MaxLag BY <1>1, <2>1, Clock
    <3>. QED BY <2>1, <3>2, <3>3, Zenon
  <2>4. \A f \in Fades : age'[f] \in 0..FadeTime BY <2>2, Zenon DEF FadeSound
  <2>5. age' \in [Fades -> 0..FadeTime] BY <2>1, <2>4
  <2>6. FadeType' BY <1>1, <2>1, <2>3, <2>5, Zenon DEF FadeType
  <2>. QED BY <2>2, <2>6, Zenon DEF FadeInv
<1>. QED BY <1>3, <1>4, <1>5, <1>6, <1>7, Zenon DEF FadeNext

\* A fade of the light (light.c:122-155) never overshoots either of its ends, is
\* never ahead of the time that passed since it started, ends only when its time
\* is over and then rests on what was asked last, for every length of a fade,
\* every width of the counter that leaves room for it, every scale of light_ease
\* and every order of ticks, samples and commands.
THEOREM FadesCorrect == FadeSpec => []FadesAreSmooth
<1>1. FadeInit => FadeInv BY FadeAssumption, FadeAtStart
<1>2. FadeInv /\ [FadeNext]_fadeVars => FadeInv' BY FadeAssumption, FadeStepKeeps
<1>3. FadeInv => FadesAreSmooth BY FadeAssumption, SoundIsSmooth
<1>. QED BY <1>1, <1>2, <1>3, PTL DEF FadeSpec
-----------------------------------------------------------------------------
(***************************************************************************)
(* Strip                                                                   *)
(***************************************************************************)

StripRecs == [dma : BOOLEAN, picture : Nat, frame : Nat, wire : [1..Length -> Nat],
              latch_ready : Int]

Feeds == [dma : 0..Length, fifo : Seq(Nat), stalled : BOOLEAN, quiet : 0..ResetTicks,
          since : 0..ResetTicks, sent : Seq(Nat), cut : BOOLEAN, tight : BOOLEAN]

Shows == [step : {"idle", "put", "clear", "wait", "sleep"}, sleep : Int]

\* With a wire buffer, which is the frame: what is not sent is still to be
\* moved, and a deadline is as far off as the gap lacks.
DmaSound(s, f, w) ==
    /\ w.step = "idle"
    /\ Len(f.sent) = Length - f.dma
    /\ \A i \in 1..Length : s.wire[i] = s.frame
    /\ \/ s.latch_ready = NoDeadline
       \/ s.latch_ready >= 0 /\ f.dma = 0 /\ f.since >= ResetTicks - s.latch_ready

\* Without one: how much is sent at each step, and what the gap lacks is slept.
ShowSound(s, f, w) ==
    /\ f.dma = 0
    /\ w.step = "put" => Len(f.sent) < Length /\ s.picture = s.frame
    /\ w.step # "put" => Len(f.sent) = Length
    /\ w.step = "wait" /\ f.stalled = TRUE => f.fifo = <<>>
    /\ w.step = "sleep" => /\ f.fifo = <<>> /\ w.sleep \in 0..ResetTicks
                           /\ f.quiet >= ResetTicks - w.sleep
                           /\ f.since >= ResetTicks - w.sleep
    /\ w.step = "idle" => f.fifo = <<>> /\ f.quiet = ResetTicks /\ f.since = ResetTicks

AllOf(sent, frame) == \A i \in 1..Len(sent) : sent[i] = frame

StripSound(s, f, w) ==
    /\ s \in StripRecs /\ f \in Feeds /\ w \in Shows
    /\ f.cut = FALSE /\ f.tight = FALSE /\ AllOf(f.sent, s.frame)
    /\ s.dma = TRUE => DmaSound(s, f, w)
    /\ s.dma = FALSE => ShowSound(s, f, w)

StripInv == StripSound(strip, feed, show)

LEMMA StripNumbers ==
    ASSUME StripAssumption
    PROVE  Length \in Nat \ {0} /\ ResetTicks \in Nat \ {0} /\ Pictures \in Nat \ {0}
BY DEF StripAssumption

LEMMA CappedIs ==
    ASSUME StripAssumption, NEW n \in 0..ResetTicks
    PROVE  /\ Capped(n + 1) \in 0..ResetTicks
           /\ Capped(n + 1) = IF n = ResetTicks THEN n ELSE n + 1
BY StripNumbers DEF Capped

LEMMA SoundIsWhole == StripInv => FramesAreWhole
<1> SUFFICES ASSUME StripInv PROVE FramesAreWhole OBVIOUS
<1>1. /\ feed.cut = FALSE /\ feed.tight = FALSE /\ AllOf(feed.sent, strip.frame)
      /\ strip.dma = FALSE => ShowSound(strip, feed, show)
      /\ strip \in StripRecs
  BY Zenon DEF StripInv, StripSound
<1>2. ~strip.dma => strip.dma = FALSE BY <1>1 DEF StripRecs
<1>3. ~strip.dma /\ show.step = "idle" => feed.quiet = ResetTicks
  BY <1>1, <1>2, Zenon DEF ShowSound
<1>4. ~feed.cut /\ ~feed.tight BY <1>1, Zenon
<1>. QED BY <1>1, <1>3, <1>4, Zenon DEF FramesAreWhole, AllOf

LEMMA StripAtStart ==
    ASSUME StripAssumption, StripInit
    PROVE  StripInv
<1>1. PICK dma \in BOOLEAN :
         strip = [dma |-> dma, picture |-> 0, frame |-> 0, wire |-> [i \in 1..Length |-> 0],
                  latch_ready |-> NoDeadline]
  BY Zenon DEF StripInit
<1> DEFINE zeros == [i \in 1..Length |-> 0]
<1>2. /\ zeros \in [1..Length -> Nat] /\ zeros \in Seq(Nat) /\ Len(zeros) = Length
      /\ \A i \in 1..Length : zeros[i] = 0
  <2>1. 0 \in Nat BY StripNumbers
  <2>2. zeros \in [1..Length -> Nat] BY <2>1
  <2>3. zeros \in Seq(Nat) BY <2>2, StripNumbers, IsASeq
  <2>4. DOMAIN zeros = 1..Length /\ Len(zeros) \in Nat /\ DOMAIN zeros = 1..Len(zeros)
    BY <2>3, LenProperties
  <2> HIDE DEF zeros
  <2>5. Len(zeros) = Length BY <2>4, StripNumbers
  <2>. QED BY <2>2, <2>3, <2>5, Zenon DEF zeros
<1>3. feed = [dma |-> 0, fifo |-> <<>>, stalled |-> FALSE, quiet |-> ResetTicks,
              since |-> ResetTicks, sent |-> zeros, cut |-> FALSE, tight |-> FALSE]
  BY Zenon DEF StripInit
<1>4. show = [step |-> "idle", sleep |-> NoDeadline] BY Zenon DEF StripInit
<1> HIDE DEF zeros
<1>5. NoDeadline \in Int BY DEF NoDeadline
<1>6. /\ strip \in StripRecs /\ strip.frame = 0 /\ strip.latch_ready = NoDeadline
      /\ strip.wire = zeros
  <2>1. strip = [dma |-> dma, picture |-> 0, frame |-> 0, wire |-> zeros,
                 latch_ready |-> NoDeadline]
    BY <1>1, Zenon DEF zeros
  <2>2. 0 \in Nat OBVIOUS
  <2>. QED BY <1>2, <1>5, <2>1, <2>2, Zenon DEF StripRecs
<1>7. /\ feed \in Feeds /\ feed.dma = 0 /\ feed.fifo = <<>> /\ feed.sent = zeros
      /\ feed.quiet = ResetTicks /\ feed.since = ResetTicks
      /\ feed.cut = FALSE /\ feed.tight = FALSE
  <2>1. 0 \in 0..Length /\ ResetTicks \in 0..ResetTicks BY StripNumbers
  <2>2. <<>> \in Seq(Nat) OBVIOUS
  <2>3. FALSE \in BOOLEAN OBVIOUS
  <2>. QED BY <1>2, <1>3, <2>1, <2>2, <2>3, Zenon DEF Feeds
<1>8. show \in Shows /\ show.step = "idle" BY <1>4, <1>5 DEF Shows
<1>9. AllOf(feed.sent, strip.frame) BY <1>2, <1>6, <1>7, Zenon DEF AllOf
<1>10. DmaSound(strip, feed, show)
  <2>1. Len(feed.sent) = Length - feed.dma
    <3>1. Length = Length - 0 BY StripNumbers
    <3>. QED BY <1>2, <1>7, <3>1, Zenon
  <2>. QED BY <1>2, <1>6, <1>7, <1>8, <2>1, Zenon DEF DmaSound
<1>11. ShowSound(strip, feed, show)
  <2>1. "idle" # "put" /\ "idle" # "wait" /\ "idle" # "sleep" OBVIOUS
  <2>. QED BY <1>2, <1>7, <1>8, <2>1, Zenon DEF ShowSound
<1>. QED BY <1>6, <1>7, <1>8, <1>9, <1>10, <1>11, Zenon DEF StripInv, StripSound
-----------------------------------------------------------------------------
(* One action at a time *)

LEMMA FedIs ==
    ASSUME StripAssumption, NEW f \in Feeds, NEW word \in Nat
    PROVE  LET g == Fed(f, word)
           IN  /\ g \in Feeds /\ g.dma = f.dma /\ g.sent = Append(f.sent, word)
               /\ g.quiet = f.quiet /\ g.cut = f.cut /\ g.tight = f.tight
               /\ g.stalled = f.stalled
<1> DEFINE fifo == Append(f.fifo, word)
           sent == Append(f.sent, word)
           g == [f EXCEPT !.fifo = fifo, !.sent = sent, !.since = 0]
<1>1. f.fifo \in Seq(Nat) /\ f.sent \in Seq(Nat) BY DEF Feeds
<1>2. fifo \in Seq(Nat) /\ sent \in Seq(Nat) /\ 0 \in 0..ResetTicks
  BY <1>1, StripNumbers
<1>3. Fed(f, word) = g BY Zenon DEF Fed
<1> HIDE DEF fifo, sent
<1>4. /\ g \in Feeds /\ g.dma = f.dma /\ g.sent = sent /\ g.quiet = f.quiet
      /\ g.cut = f.cut /\ g.tight = f.tight /\ g.stalled = f.stalled
  BY <1>2 DEF Feeds
<1> HIDE DEF g
<1>. QED BY <1>3, <1>4, Zenon DEF sent

LEMMA OneMoreSent ==
    ASSUME NEW sent \in Seq(Nat), NEW frame \in Nat, AllOf(sent, frame)
    PROVE  AllOf(Append(sent, frame), frame) /\ Len(Append(sent, frame)) = Len(sent) + 1
BY DEF AllOf

LEMMA DmaMovesSound ==
    ASSUME StripAssumption, StripInv, DmaMoves
    PROVE  StripInv'
<1>1. /\ strip \in StripRecs /\ feed \in Feeds /\ show \in Shows
      /\ feed.cut = FALSE /\ feed.tight = FALSE /\ AllOf(feed.sent, strip.frame)
      /\ strip.dma = TRUE => DmaSound(strip, feed, show)
      /\ strip.dma = FALSE => ShowSound(strip, feed, show)
  BY Zenon DEF StripInv, StripSound
<1>2. feed.dma > 0 BY DEF DmaMoves
<1>3. strip.dma = TRUE /\ DmaSound(strip, feed, show)
  <2>1. feed.dma # 0
    <3>1. ~(0 > 0) OBVIOUS
    <3>. QED BY <1>2, <3>1, Zenon
  <2>2. strip.dma \in BOOLEAN BY <1>1 DEF StripRecs
  <2>3. strip.dma # FALSE BY <1>1, <2>1, Zenon DEF ShowSound
  <2>. QED BY <1>1, <2>2, <2>3
<1>4. /\ strip.frame \in Nat /\ feed.dma \in 0..Length /\ feed.sent \in Seq(Nat)
  BY <1>1 DEF StripRecs, Feeds
<1>5. /\ show.step = "idle" /\ Len(feed.sent) = Length - feed.dma
      /\ \A i \in 1..Length : strip.wire[i] = strip.frame
      /\ strip.latch_ready = NoDeadline
  <2>1. feed.dma # 0
    <3>1. ~(0 > 0) OBVIOUS
    <3>. QED BY <1>2, <3>1, Zenon
  <2>. QED BY <1>3, <2>1, Zenon DEF DmaSound
<1> DEFINE word == strip.wire[Length + 1 - feed.dma]
           g == Fed(feed, word)
           d == feed.dma - 1
           h == [g EXCEPT !.dma = d]
<1>6. word = strip.frame
  <2>1. Length + 1 - feed.dma \in 1..Length BY <1>2, <1>4, StripNumbers
  <2>. QED BY <1>5, <2>1, Zenon
<1>7. d \in 0..Length /\ Length - d = Length - feed.dma + 1 BY <1>2, <1>4, StripNumbers
<1> HIDE DEF word
<1>8. g \in Feeds /\ g.dma = feed.dma /\ g.sent = Append(feed.sent, word)
      /\ g.cut = feed.cut /\ g.tight = feed.tight
  BY <1>1, <1>4, <1>6, FedIs
<1>9. feed' = h /\ strip' = strip /\ show' = show
  <2>1. feed' = [g EXCEPT !.dma = @ - 1] BY Zenon DEF DmaMoves, word
  <2>2. g.dma - 1 = d BY <1>8, Zenon
  <2>. QED BY <2>1, <2>2, Zenon DEF DmaMoves
<1> HIDE DEF g, d
<1>10. h \in Feeds /\ h.dma = d /\ h.sent = g.sent /\ h.cut = g.cut /\ h.tight = g.tight
  BY <1>7, <1>8 DEF Feeds
<1> HIDE DEF h
<1>11. h.sent = Append(feed.sent, strip.frame) BY <1>6, <1>8, <1>10, Zenon
<1>12. AllOf(h.sent, strip.frame) /\ Len(h.sent) = Len(feed.sent) + 1
  BY <1>1, <1>4, <1>11, OneMoreSent
<1>13. Len(h.sent) = Length - h.dma BY <1>5, <1>7, <1>10, <1>12, Zenon
<1>14. DmaSound(strip, h, show) BY <1>5, <1>13, Zenon DEF DmaSound
<1>15. TRUE # FALSE OBVIOUS
<1>16. StripSound(strip, h, show)
  BY <1>1, <1>3, <1>8, <1>10, <1>12, <1>14, <1>15, Zenon DEF StripSound
<1>. QED BY <1>9, <1>16, Zenon DEF StripInv

LEMMA StallsSound ==
    ASSUME StripAssumption, StripInv, MachineStalls
    PROVE  StripInv'
<1>1. /\ strip \in StripRecs /\ feed \in Feeds /\ show \in Shows
      /\ feed.cut = FALSE /\ feed.tight = FALSE /\ AllOf(feed.sent, strip.frame)
      /\ strip.dma = TRUE => DmaSound(strip, feed, show)
      /\ strip.dma = FALSE => ShowSound(strip, feed, show)
  BY Zenon DEF StripInv, StripSound
<1> DEFINE h == [feed EXCEPT !.stalled = TRUE]
<1>2. feed' = h /\ strip' = strip /\ show' = show /\ feed.fifo = <<>>
  BY Zenon DEF MachineStalls
<1>3. /\ h \in Feeds /\ h.dma = feed.dma /\ h.fifo = feed.fifo /\ h.quiet = feed.quiet
      /\ h.since = feed.since /\ h.sent = feed.sent /\ h.cut = feed.cut
      /\ h.tight = feed.tight
  BY <1>1 DEF Feeds
<1> HIDE DEF h
<1>4. DmaSound(strip, feed, show) => DmaSound(strip, h, show) BY <1>3, Zenon DEF DmaSound
<1>5. ShowSound(strip, feed, show) => ShowSound(strip, h, show)
  BY <1>2, <1>3, Zenon DEF ShowSound
<1>6. StripSound(strip, h, show) BY <1>1, <1>3, <1>4, <1>5, Zenon DEF StripSound
<1>. QED BY <1>2, <1>6, Zenon DEF StripInv
LEMMA ElapsedIs ==
    ASSUME NEW n \in Int
    PROVE  /\ Elapsed(n) \in Int
           /\ n >= 0 => Elapsed(n) >= 0 /\ Elapsed(n) >= n - 1 /\ (n = 0 => Elapsed(n) = 0)
           /\ n >= 0 => Elapsed(n) <= n
           /\ n = NoDeadline => Elapsed(n) = NoDeadline
<1>1. NoDeadline \in Int /\ ~(NoDeadline > 0)
  <2>1. -1 \in Int /\ ~(-1 > 0) OBVIOUS
  <2>. QED BY <2>1, Zenon DEF NoDeadline
<1> HIDE DEF NoDeadline
<1>2. CASE n > 0
  <2>1. Elapsed(n) = n - 1 BY <1>2, Zenon DEF Elapsed
  <2>2. n # NoDeadline BY <1>1, <1>2, Zenon
  <2>. QED BY <1>2, <2>1, <2>2
<1>3. CASE ~(n > 0)
  <2>1. Elapsed(n) = n BY <1>3, Zenon DEF Elapsed
  <2>. QED BY <1>3, <2>1
<1>. QED BY <1>2, <1>3

\* What a deadline still needs, the gap has already: a tick later too.
LEMMA GapKept ==
    ASSUME StripAssumption, NEW left \in Int, left >= 0,
           NEW past \in 0..ResetTicks, past >= ResetTicks - left
    PROVE  Capped(past + 1) >= ResetTicks - Elapsed(left)
<1>1. Elapsed(left) \in Int /\ Elapsed(left) >= 0 /\ Elapsed(left) >= left - 1
      /\ (left = 0 => Elapsed(left) = 0)
  BY ElapsedIs
<1>2. Capped(past + 1) = IF past = ResetTicks THEN past ELSE past + 1 BY CappedIs
<1>3. ResetTicks \in Nat BY StripNumbers
<1> DEFINE c == Capped(past + 1)
           e == Elapsed(left)
<1>4. /\ e \in Int /\ e >= 0 /\ e >= left - 1
      /\ past = ResetTicks => c = past
      /\ past # ResetTicks => c = past + 1
  BY <1>1, <1>2
<1> HIDE DEF c, e
<1>5. c >= ResetTicks - e
  <2>1. CASE past = ResetTicks
    <3>1. c = ResetTicks BY <1>4, <2>1, Zenon
    <3>. QED BY <1>3, <1>4, <3>1
  <2>2. CASE past # ResetTicks
    <3>1. c = past + 1 BY <1>4, <2>2, Zenon
    <3>. QED BY <1>3, <1>4, <3>1
  <2>. QED BY <2>1, <2>2
<1>. QED BY <1>5 DEF c, e

LEMMA TickSound ==
    ASSUME StripAssumption, StripInv, Tick
    PROVE  StripInv'
<1>1. /\ strip \in StripRecs /\ feed \in Feeds /\ show \in Shows
      /\ feed.cut = FALSE /\ feed.tight = FALSE /\ AllOf(feed.sent, strip.frame)
      /\ strip.dma = TRUE => DmaSound(strip, feed, show)
      /\ strip.dma = FALSE => ShowSound(strip, feed, show)
  BY Zenon DEF StripInv, StripSound
<1>2. /\ strip.latch_ready \in Int /\ show.sleep \in Int /\ feed.fifo \in Seq(Nat)
      /\ feed.quiet \in 0..ResetTicks /\ feed.since \in 0..ResetTicks
      /\ feed.stalled \in BOOLEAN
  BY <1>1 DEF StripRecs, Feeds, Shows
<1> DEFINE empty == feed.fifo = <<>>
           fifo == IF empty THEN feed.fifo ELSE Tail(feed.fifo)
           stalled == feed.stalled \/ empty
           quiet == IF empty THEN Capped(feed.quiet + 1) ELSE 0
           since == Capped(feed.since + 1)
           latch == Elapsed(strip.latch_ready)
           sleep == Elapsed(show.sleep)
           f == [feed EXCEPT !.fifo = fifo, !.stalled = stalled, !.quiet = quiet,
                             !.since = since]
           s == [strip EXCEPT !.latch_ready = latch]
           w == [show EXCEPT !.sleep = sleep]
<1>3. feed' = f /\ strip' = s /\ show' = w BY Zenon DEF Tick
<1>4. fifo \in Seq(Nat) /\ (feed.fifo = <<>> => fifo = <<>>)
  BY <1>2
<1>5. since \in 0..ResetTicks /\ quiet \in 0..ResetTicks
  <2>1. since \in 0..ResetTicks /\ Capped(feed.quiet + 1) \in 0..ResetTicks BY <1>2, CappedIs
  <2>2. 0 \in 0..ResetTicks BY StripNumbers
  <2>. QED BY <2>1, <2>2
<1>6. latch \in Int /\ sleep \in Int BY <1>2, ElapsedIs
<1>7. stalled \in BOOLEAN /\ (stalled = TRUE => feed.stalled = TRUE \/ feed.fifo = <<>>)
  BY <1>2, Zenon
<1>8. feed.fifo = <<>> => quiet = Capped(feed.quiet + 1) BY Zenon
<1> HIDE DEF fifo, stalled, quiet, since, latch, sleep
<1>9. /\ f \in Feeds /\ f.dma = feed.dma /\ f.fifo = fifo /\ f.stalled = stalled
      /\ f.quiet = quiet /\ f.since = since /\ f.sent = feed.sent /\ f.cut = feed.cut
      /\ f.tight = feed.tight
  BY <1>1, <1>4, <1>5, <1>7 DEF Feeds
<1>10. /\ s \in StripRecs /\ s.dma = strip.dma /\ s.picture = strip.picture
       /\ s.frame = strip.frame /\ s.wire = strip.wire /\ s.latch_ready = latch
  BY <1>1, <1>6 DEF StripRecs
<1>11. w \in Shows /\ w.step = show.step /\ w.sleep = sleep BY <1>1, <1>6 DEF Shows
<1> HIDE DEF f, s, w
<1>12. ASSUME strip.dma = TRUE PROVE DmaSound(s, f, w)
  <2>1. DmaSound(strip, feed, show) BY <1>1, <1>12
  <2>2. \/ s.latch_ready = NoDeadline
        \/ s.latch_ready >= 0 /\ f.dma = 0 /\ f.since >= ResetTicks - s.latch_ready
    <3>1. CASE strip.latch_ready = NoDeadline
      <4>1. latch = NoDeadline BY <1>2, <3>1, ElapsedIs DEF latch
      <4>. QED BY <1>10, <4>1, Zenon
    <3>2. CASE /\ strip.latch_ready >= 0 /\ feed.dma = 0
               /\ feed.since >= ResetTicks - strip.latch_ready
      <4>1. since >= ResetTicks - latch BY <1>2, <3>2, GapKept DEF since, latch
      <4>2. latch >= 0 BY <1>2, <3>2, ElapsedIs DEF latch
      <4>. QED BY <1>9, <1>10, <3>2, <4>1, <4>2, Zenon
    <3>. QED BY <2>1, <3>1, <3>2, Zenon DEF DmaSound
  <2>. QED BY <1>9, <1>10, <1>11, <2>1, <2>2, Zenon DEF DmaSound
<1>13. ASSUME strip.dma = FALSE PROVE ShowSound(s, f, w)
  <2>1. ShowSound(strip, feed, show) BY <1>1, <1>13
  <2>2. CASE show.step = "sleep"
    <3>1. /\ feed.fifo = <<>> /\ show.sleep \in 0..ResetTicks
          /\ feed.quiet >= ResetTicks - show.sleep /\ feed.since >= ResetTicks - show.sleep
      BY <2>1, <2>2, Zenon DEF ShowSound
    <3>2. show.sleep >= 0 /\ show.sleep <= ResetTicks BY <3>1, <1>2
    <3>3. since >= ResetTicks - sleep BY <1>2, <3>1, <3>2, GapKept DEF since, sleep
    <3>4. Capped(feed.quiet + 1) >= ResetTicks - sleep
      BY <1>2, <3>1, <3>2, GapKept DEF sleep
    <3>5. sleep \in 0..ResetTicks
      <4>1. Elapsed(show.sleep) \in Int /\ Elapsed(show.sleep) >= 0
            /\ Elapsed(show.sleep) <= show.sleep
        BY <1>2, <3>2, ElapsedIs
      <4> DEFINE x == Elapsed(show.sleep)
                 y == show.sleep
      <4> HIDE DEF x, y
      <4>2. x \in Int /\ x >= 0 /\ x <= y /\ y <= ResetTicks /\ y \in Int
        BY <1>2, <3>2, <4>1 DEF x, y
      <4>3. x \in 0..ResetTicks BY <4>2, StripNumbers
      <4>. QED BY <4>3 DEF x, sleep
    <3>6. fifo = <<>> /\ quiet >= ResetTicks - sleep BY <1>4, <1>8, <3>1, <3>4, Zenon
    <3>7. "sleep" # "put" /\ "sleep" # "wait" /\ "sleep" # "idle" OBVIOUS
    <3>. QED BY <1>9, <1>10, <1>11, <2>1, <2>2, <3>3, <3>5, <3>6, <3>7, Zenon DEF ShowSound
  <2>3. CASE show.step = "idle"
    <3>1. feed.fifo = <<>> /\ feed.quiet = ResetTicks /\ feed.since = ResetTicks
      BY <2>1, <2>3, Zenon DEF ShowSound
    <3>2. Capped(ResetTicks + 1) = ResetTicks
      <4>1. ResetTicks \in 0..ResetTicks BY StripNumbers
      <4>. QED BY <4>1, CappedIs
    <3>3. fifo = <<>> /\ quiet = ResetTicks /\ since = ResetTicks
      BY <1>4, <1>8, <3>1, <3>2, Zenon DEF since
    <3>4. "idle" # "put" /\ "idle" # "wait" /\ "sleep" # "idle" OBVIOUS
    <3>. QED BY <1>9, <1>10, <1>11, <2>1, <2>3, <3>3, <3>4, Zenon DEF ShowSound
  <2>4. CASE show.step # "sleep" /\ show.step # "idle"
    <3>1. show.step = "wait" /\ stalled = TRUE => fifo = <<>>
      BY <1>4, <1>7, <2>1, Zenon DEF ShowSound
    <3>. QED BY <1>9, <1>10, <1>11, <2>1, <2>4, <3>1, Zenon DEF ShowSound
  <2>. QED BY <2>2, <2>3, <2>4
<1>14. StripSound(s, f, w)
  BY <1>1, <1>9, <1>10, <1>11, <1>12, <1>13, Zenon DEF StripSound
<1>. QED BY <1>3, <1>14, Zenon DEF StripInv

\* ws2812_is_busy keeps what it looks at, but for a first deadline.
LEMMA LookSound ==
    ASSUME StripAssumption, NEW s, s.dma = TRUE, StripSound(s, feed, show)
    PROVE  /\ StripSound(Look(s), feed, show)
           /\ Look(s).latch_ready = NoDeadline \/ Look(s).latch_ready >= 0
<1>1. /\ s \in StripRecs /\ feed \in Feeds /\ show \in Shows
      /\ feed.cut = FALSE /\ feed.tight = FALSE /\ AllOf(feed.sent, s.frame)
      /\ DmaSound(s, feed, show)
  BY Zenon DEF StripSound
<1> DEFINE first == Quiet /\ s.latch_ready = NoDeadline
           latch == IF first THEN ResetTicks ELSE s.latch_ready
           r == [s EXCEPT !.latch_ready = latch]
<1>2. Look(s) = r BY Zenon DEF Look
<1>3. s.latch_ready \in Int /\ feed.since \in 0..ResetTicks BY <1>1 DEF StripRecs, Feeds
<1>4. ResetTicks \in Nat /\ ResetTicks \in Int BY StripNumbers
<1>5. latch \in Int BY <1>3, <1>4, Zenon
<1>6. \/ latch = NoDeadline
      \/ latch >= 0 /\ feed.dma = 0 /\ feed.since >= ResetTicks - latch
  <2>1. CASE first
    <3>1. feed.dma = 0 BY <2>1, Zenon DEF Quiet
    <3>2. ResetTicks >= 0 /\ feed.since >= ResetTicks - ResetTicks BY <1>3, <1>4
    <3>3. latch = ResetTicks BY <2>1, Zenon
    <3>. QED BY <3>1, <3>2, <3>3, Zenon
  <2>2. CASE ~first
    <3>1. latch = s.latch_ready BY <2>2, Zenon
    <3>. QED BY <1>1, <3>1, Zenon DEF DmaSound
  <2>. QED BY <2>1, <2>2, Zenon
<1> HIDE DEF latch
<1>7. /\ r \in StripRecs /\ r.dma = s.dma /\ r.picture = s.picture /\ r.frame = s.frame
      /\ r.wire = s.wire /\ r.latch_ready = latch
  BY <1>1, <1>5 DEF StripRecs
<1> HIDE DEF r
<1>8. DmaSound(r, feed, show) BY <1>1, <1>6, <1>7, Zenon DEF DmaSound
<1>9. TRUE # FALSE OBVIOUS
<1>10. StripSound(r, feed, show) BY <1>1, <1>7, <1>8, <1>9, Zenon DEF StripSound
<1>. QED BY <1>2, <1>6, <1>7, <1>10, Zenon
LEMMA SoundSays ==
    ASSUME StripInv
    PROVE  /\ strip \in StripRecs /\ feed \in Feeds /\ show \in Shows
           /\ feed.cut = FALSE /\ feed.tight = FALSE /\ AllOf(feed.sent, strip.frame)
           /\ strip.dma \in BOOLEAN
           /\ strip.dma = TRUE => DmaSound(strip, feed, show)
           /\ strip.dma = FALSE => ShowSound(strip, feed, show)
<1>1. strip \in StripRecs BY Zenon DEF StripInv, StripSound
<1>2. strip.dma \in BOOLEAN BY <1>1 DEF StripRecs
<1>. QED BY <1>2, Zenon DEF StripInv, StripSound

LEMMA IsBusySound ==
    ASSUME StripAssumption, StripInv, IsBusy
    PROVE  StripInv'
<1>1. strip.dma = TRUE
  <2>1. strip.dma BY DEF IsBusy
  <2>2. strip.dma \in BOOLEAN BY SoundSays
  <2>. QED BY <2>1, <2>2, Zenon
<1>2. StripSound(Look(strip), feed, show) BY <1>1, LookSound, Zenon DEF StripInv
<1>. QED BY <1>2, Zenon DEF IsBusy, StripInv

LEMMA DrawSound ==
    ASSUME StripAssumption, StripInv, Draw
    PROVE  StripInv'
<1> DEFINE p == (strip.picture + 1) % Pictures
           s == [strip EXCEPT !.picture = p]
<1>1. strip' = s /\ feed' = feed /\ show' = show /\ show.step = "idle" BY Zenon DEF Draw
<1>2. p \in Nat
  <2>1. strip.picture \in Nat BY SoundSays DEF StripRecs
  <2>. QED BY <2>1, StripNumbers
<1> HIDE DEF p
<1>3. /\ s \in StripRecs /\ s.dma = strip.dma /\ s.frame = strip.frame /\ s.wire = strip.wire
      /\ s.latch_ready = strip.latch_ready
  BY <1>2, SoundSays DEF StripRecs
<1> HIDE DEF s
<1>4. DmaSound(strip, feed, show) => DmaSound(s, feed, show) BY <1>3, Zenon DEF DmaSound
<1>5. ShowSound(strip, feed, show) => ShowSound(s, feed, show)
  <2>1. "idle" # "put" OBVIOUS
  <2>. QED BY <1>1, <1>3, <2>1, Zenon DEF ShowSound
<1>6. StripSound(s, feed, show) BY <1>3, <1>4, <1>5, SoundSays, Zenon DEF StripSound
<1>. QED BY <1>1, <1>6, Zenon DEF StripInv

\* A frame begins when the one before is all sent, and its gap is over.
LEMMA BegunIs ==
    ASSUME StripAssumption, NEW f \in Feeds, Len(f.sent) = Length, f.since = ResetTicks
    PROVE  LET g == Begun(f)
           IN  /\ g \in Feeds /\ g.dma = f.dma /\ g.sent = <<>> /\ g.cut = FALSE
               /\ g.tight = FALSE /\ g.since = f.since
<1> DEFINE cut == Len(f.sent) < Length
           tight == f.since < ResetTicks
           g == [f EXCEPT !.cut = cut, !.tight = tight, !.sent = <<>>]
<1>1. Begun(f) = g BY Zenon DEF Begun
<1>2. ~(Length < Length) /\ ~(ResetTicks < ResetTicks) BY StripNumbers
<1>3. ~cut /\ ~tight BY <1>2, Zenon
<1>4. cut = FALSE /\ tight = FALSE
  <2>1. (Length < Length) = FALSE /\ (ResetTicks < ResetTicks) = FALSE BY StripNumbers
  <2>. QED BY <2>1, Zenon
<1> HIDE DEF cut, tight
<1>5. g = [f EXCEPT !.cut = FALSE, !.tight = FALSE, !.sent = <<>>] BY <1>4, Zenon
<1> HIDE DEF g
<1>6. g \in Feeds /\ g.dma = f.dma /\ g.sent = <<>> /\ g.cut = FALSE
               /\ g.tight = FALSE /\ g.since = f.since
  <2> DEFINE none == <<>>
  <2>1. none \in Seq(Nat) /\ none = <<>> OBVIOUS
  <2>2. g = [f EXCEPT !.cut = FALSE, !.tight = FALSE, !.sent = none] BY <1>5, Zenon
  <2> HIDE DEF none
  <2>3. g \in Feeds /\ g.dma = f.dma /\ g.sent = none /\ g.cut = FALSE
               /\ g.tight = FALSE /\ g.since = f.since
    BY <2>1, <2>2 DEF Feeds
  <2>. QED BY <2>1, <2>3, Zenon
<1>. QED BY <1>1, <1>6, Zenon

LEMMA ShowAsyncSound ==
    ASSUME StripAssumption, StripInv, ShowAsync
    PROVE  StripInv'
<1>1. strip.dma = TRUE /\ DmaSound(strip, feed, show)
  <2>1. strip.dma BY DEF ShowAsync
  <2>2. strip.dma \in BOOLEAN BY SoundSays
  <2>3. strip.dma = TRUE BY <2>1, <2>2, Zenon
  <2>. QED BY <2>3, SoundSays
<1>2. CASE Busy(strip)
  <2>1. StripSound(Look(strip), feed, show) BY <1>1, LookSound, Zenon DEF StripInv
  <2>. QED BY <1>2, <2>1, Zenon DEF ShowAsync, StripInv
<1>3. CASE ~Busy(strip)
  <2> DEFINE p == strip.picture
             copied == [i \in 1..Length |-> p]
             s == [strip EXCEPT !.wire = copied, !.frame = p, !.latch_ready = NoDeadline]
             g == Begun(feed)
             f == [g EXCEPT !.stalled = FALSE, !.dma = Length]
  <2>1. strip' = s /\ feed' = f /\ show' = show BY <1>3, Zenon DEF ShowAsync
  <2>2. Quiet /\ ~(Look(strip).latch_ready > 0) BY <1>3, Zenon DEF Busy
  <2>3. feed.dma = 0 BY <2>2, Zenon DEF Quiet
  <2>4. strip.latch_ready = 0
    <3>1. Look(strip).latch_ready =
             IF Quiet /\ strip.latch_ready = NoDeadline THEN ResetTicks
             ELSE strip.latch_ready
      <4>1. strip \in StripRecs BY SoundSays
      <4> DEFINE v == IF Quiet /\ strip.latch_ready = NoDeadline THEN ResetTicks
                      ELSE strip.latch_ready
      <4>2. Look(strip) = [strip EXCEPT !.latch_ready = v] BY Zenon DEF Look
      <4> HIDE DEF v
      <4>3. [strip EXCEPT !.latch_ready = v].latch_ready = v BY <4>1 DEF StripRecs
      <4>. QED BY <4>2, <4>3, Zenon DEF v
    <3>2. strip.latch_ready # NoDeadline
      <4>1. ResetTicks > 0 BY StripNumbers
      <4>. QED BY <2>2, <3>1, <4>1, Zenon
    <3>3. strip.latch_ready >= 0 /\ ~(strip.latch_ready > 0)
      BY <1>1, <2>2, <3>1, <3>2, Zenon DEF DmaSound
    <3>4. strip.latch_ready \in Int BY SoundSays DEF StripRecs
    <3> DEFINE l == strip.latch_ready
    <3> HIDE DEF l
    <3>5. l >= 0 /\ ~(l > 0) /\ l \in Int BY <3>3, <3>4 DEF l
    <3>6. l = 0 BY <3>5
    <3>. QED BY <3>6 DEF l
  <2>5. Len(feed.sent) = Length /\ feed.since = ResetTicks
    <3>1. feed.since >= ResetTicks - 0
      <4>1. 0 # NoDeadline
        <5>1. 0 # -1 OBVIOUS
        <5>. QED BY <5>1, Zenon DEF NoDeadline
      <4>. QED BY <1>1, <2>4, <4>1, Zenon DEF DmaSound
    <3>2. feed.since \in 0..ResetTicks BY SoundSays DEF Feeds
    <3>3. feed.since = ResetTicks BY <3>1, <3>2, StripNumbers
    <3>4. Len(feed.sent) = Length - 0 BY <1>1, <2>3, Zenon DEF DmaSound
    <3>5. Length - 0 = Length BY StripNumbers
    <3>. QED BY <3>3, <3>4, <3>5, Zenon
  <2>6. /\ g \in Feeds /\ g.sent = <<>> /\ g.cut = FALSE /\ g.tight = FALSE
    BY <2>5, SoundSays, BegunIs
  <2> HIDE DEF g
  <2>7. p \in Nat BY SoundSays DEF StripRecs
  <2> HIDE DEF p
  <2>8. copied \in [1..Length -> Nat] /\ \A i \in 1..Length : copied[i] = p BY <2>7
  <2> HIDE DEF copied
  <2>9. /\ s \in StripRecs /\ s.dma = strip.dma /\ s.wire = copied /\ s.frame = p
        /\ s.latch_ready = NoDeadline
    <3>1. NoDeadline \in Int
      <4>1. -1 \in Int OBVIOUS
      <4>. QED BY <4>1, Zenon DEF NoDeadline
    <3>. QED BY <2>7, <2>8, <3>1, SoundSays DEF StripRecs
  <2> HIDE DEF s
  <2>10. f \in Feeds /\ f.dma = Length /\ f.sent = g.sent /\ f.cut = g.cut /\ f.tight = g.tight
    <3>1. Length \in 0..Length BY StripNumbers
    <3>. QED BY <2>6, <3>1 DEF Feeds
  <2> HIDE DEF f
  <2>11. f.sent = <<>> /\ Len(f.sent) = 0
    <3>1. f.sent = <<>> BY <2>6, <2>10, Zenon
    <3>2. Len(<<>>) = 0 OBVIOUS
    <3>. QED BY <3>1, <3>2, Zenon
  <2>12. AllOf(f.sent, s.frame)
    <3>1. \A i \in 1..0 : FALSE OBVIOUS
    <3>. QED BY <2>11, <3>1, Zenon DEF AllOf
  <2>13. DmaSound(s, f, show)
    <3>1. show.step = "idle" BY <1>1, Zenon DEF DmaSound
    <3>2. 0 = Length - Length BY StripNumbers
    <3>. QED BY <2>8, <2>9, <2>10, <2>11, <3>1, <3>2, Zenon DEF DmaSound
  <2>14. TRUE # FALSE OBVIOUS
  <2>15. f.cut = FALSE /\ f.tight = FALSE BY <2>6, <2>10, Zenon
  <2>16. StripSound(s, f, show)
    BY <1>1, <2>9, <2>10, <2>12, <2>13, <2>14, <2>15, SoundSays, Zenon DEF StripSound
  <2>. QED BY <2>1, <2>16, Zenon DEF StripInv
<1>. QED BY <1>2, <1>3
LEMMA ShowBeginsSound ==
    ASSUME StripAssumption, StripInv, ShowBegins
    PROVE  StripInv'
<1> DEFINE p == strip.picture
           s == [strip EXCEPT !.frame = p]
           f == Begun(feed)
           w == [show EXCEPT !.step = "put"]
<1>1. strip' = s /\ feed' = f /\ show' = w /\ show.step = "idle" /\ ~strip.dma
  BY Zenon DEF ShowBegins
<1>2. strip.dma = FALSE /\ ShowSound(strip, feed, show)
  <2>1. strip.dma = FALSE BY <1>1, SoundSays, Zenon
  <2>. QED BY <2>1, SoundSays
<1>3. /\ feed.dma = 0 /\ Len(feed.sent) = Length /\ feed.fifo = <<>>
      /\ feed.since = ResetTicks
  <2>1. "idle" # "put" OBVIOUS
  <2>. QED BY <1>1, <1>2, <2>1, Zenon DEF ShowSound
<1>4. f \in Feeds /\ f.dma = feed.dma /\ f.sent = <<>> /\ f.cut = FALSE /\ f.tight = FALSE
  BY <1>3, SoundSays, BegunIs
<1> HIDE DEF f
<1>5. p \in Nat BY SoundSays DEF StripRecs
<1>6. s \in StripRecs /\ s.dma = strip.dma /\ s.frame = p /\ s.picture = p
  BY <1>5, SoundSays DEF StripRecs
<1> HIDE DEF p, s
<1>7. w \in Shows /\ w.step = "put" BY SoundSays DEF Shows
<1> HIDE DEF w
<1>8. Len(f.sent) = 0 /\ 0 < Length
  <2>1. Len(<<>>) = 0 OBVIOUS
  <2>. QED BY <1>4, <2>1, StripNumbers
<1>9. AllOf(f.sent, s.frame)
  <2>1. \A i \in 1..0 : FALSE OBVIOUS
  <2>. QED BY <1>8, <2>1, Zenon DEF AllOf
<1>10. ShowSound(s, f, w)
  <2>1. "put" # "idle" /\ "put" # "wait" /\ "put" # "sleep" OBVIOUS
  <2>. QED BY <1>3, <1>4, <1>6, <1>7, <1>8, <2>1, Zenon DEF ShowSound
<1>11. TRUE # FALSE OBVIOUS
<1>12. StripSound(s, f, w)
  BY <1>2, <1>4, <1>6, <1>7, <1>9, <1>10, <1>11, Zenon DEF StripSound
<1>. QED BY <1>1, <1>12, Zenon DEF StripInv

\* What is shown without a wire buffer is under way.
LEMMA Showing ==
    ASSUME StripInv, show.step # "idle"
    PROVE  strip.dma = FALSE /\ ShowSound(strip, feed, show)
<1>1. strip.dma # TRUE BY SoundSays, Zenon DEF DmaSound
<1>2. strip.dma = FALSE BY <1>1, SoundSays
<1>. QED BY <1>2, SoundSays

LEMMA ShowPutsSound ==
    ASSUME StripAssumption, StripInv, ShowPuts
    PROVE  StripInv'
<1> DEFINE p == strip.picture
           f == Fed(feed, p)
           step == IF Len(feed.sent) = Length - 1 THEN "clear" ELSE show.step
           w == [show EXCEPT !.step = step]
<1>1. strip' = strip /\ feed' = f /\ show' = w /\ show.step = "put"
  BY Zenon DEF ShowPuts
<1>2. strip.dma = FALSE /\ ShowSound(strip, feed, show)
  <2>1. "put" # "idle" OBVIOUS
  <2>. QED BY <1>1, <2>1, Showing
<1>3. feed.dma = 0 /\ Len(feed.sent) < Length /\ p = strip.frame
  BY <1>1, <1>2, Zenon DEF ShowSound
<1>4. p \in Nat BY SoundSays DEF StripRecs
<1>5. /\ f \in Feeds /\ f.dma = feed.dma /\ f.sent = Append(feed.sent, p)
      /\ f.cut = feed.cut /\ f.tight = feed.tight
  BY <1>4, SoundSays, FedIs
<1> HIDE DEF f
<1>6. feed.sent \in Seq(Nat) BY SoundSays DEF Feeds
<1>7. f.sent = Append(feed.sent, strip.frame) BY <1>3, <1>5, Zenon
<1>8. AllOf(f.sent, strip.frame) /\ Len(f.sent) = Len(feed.sent) + 1
  <2>1. strip.frame \in Nat BY <1>3, <1>4, Zenon
  <2>. QED BY <1>6, <1>7, <2>1, OneMoreSent, SoundSays
<1>9. /\ step = "clear" => Len(f.sent) = Length
      /\ step = "put" => Len(f.sent) < Length
      /\ step = "clear" \/ step = "put"
  <2> DEFINE n == Len(feed.sent)
             m == Len(f.sent)
  <2>1. n \in Nat BY <1>6
  <2>2. m = n + 1 /\ n < Length BY <1>3, <1>8
  <2>3. "clear" # "put" OBVIOUS
  <2>4. CASE n = Length - 1
    <3>1. step = "clear" BY <2>4, Zenon
    <3> HIDE DEF n, m, step
    <3>2. m = Length BY <2>1, <2>2, <2>4, StripNumbers
    <3>. QED BY <2>3, <3>1, <3>2, Zenon DEF m
  <2>5. CASE n # Length - 1
    <3>1. step = "put" BY <1>1, <2>5, Zenon
    <3> HIDE DEF n, m, step
    <3>2. m < Length BY <2>1, <2>2, <2>5, StripNumbers
    <3>. QED BY <2>3, <3>1, <3>2, Zenon DEF m
  <2>. QED BY <2>4, <2>5, Zenon
<1> HIDE DEF step, p
<1>10. w \in Shows /\ w.step = step
  <2>1. step \in {"idle", "put", "clear", "wait", "sleep"} BY <1>9
  <2>. QED BY <2>1, SoundSays DEF Shows
<1> HIDE DEF w
<1>11. ShowSound(strip, f, w)
  <2>1. "put" # "idle" /\ "put" # "wait" /\ "put" # "sleep" OBVIOUS
  <2>2. "clear" # "idle" /\ "clear" # "wait" /\ "clear" # "sleep" /\ "clear" # "put" OBVIOUS
  <2>3. CASE step = "clear"
    BY <1>3, <1>5, <1>9, <1>10, <2>2, <2>3, Zenon DEF ShowSound
  <2>4. CASE step = "put"
    BY <1>3, <1>5, <1>9, <1>10, <2>1, <2>4, Zenon DEF ShowSound, p
  <2>. QED BY <1>9, <2>3, <2>4
<1>12. TRUE # FALSE OBVIOUS
<1>13. StripSound(strip, f, w)
  BY <1>2, <1>5, <1>8, <1>10, <1>11, <1>12, SoundSays, Zenon DEF StripSound
<1>. QED BY <1>1, <1>13, Zenon DEF StripInv

LEMMA ShowClearsSound ==
    ASSUME StripAssumption, StripInv, ShowClears
    PROVE  StripInv'
<1> DEFINE f == [feed EXCEPT !.stalled = FALSE]
           w == [show EXCEPT !.step = "wait"]
<1>1. strip' = strip /\ feed' = f /\ show' = w /\ show.step = "clear"
  BY Zenon DEF ShowClears
<1>2. strip.dma = FALSE /\ ShowSound(strip, feed, show)
  <2>1. "clear" # "idle" OBVIOUS
  <2>. QED BY <1>1, <2>1, Showing
<1>3. feed.dma = 0 /\ Len(feed.sent) = Length
  <2>1. "clear" # "put" OBVIOUS
  <2>. QED BY <1>1, <1>2, <2>1, Zenon DEF ShowSound
<1>4. /\ f \in Feeds /\ f.dma = feed.dma /\ f.sent = feed.sent /\ f.cut = feed.cut
      /\ f.tight = feed.tight /\ f.stalled = FALSE
  BY SoundSays DEF Feeds
<1>5. w \in Shows /\ w.step = "wait" BY SoundSays DEF Shows
<1> HIDE DEF f, w
<1>6. TRUE # FALSE OBVIOUS
<1>7. ShowSound(strip, f, w)
  <2>1. "wait" # "idle" /\ "wait" # "put" /\ "wait" # "sleep" OBVIOUS
  <2>. QED BY <1>3, <1>4, <1>5, <1>6, <2>1, Zenon DEF ShowSound
<1>8. StripSound(strip, f, w)
  BY <1>2, <1>4, <1>5, <1>6, <1>7, SoundSays, Zenon DEF StripSound
<1>. QED BY <1>1, <1>8, Zenon DEF StripInv

LEMMA ShowSeesStallSound ==
    ASSUME StripAssumption, StripInv, ShowSeesStall
    PROVE  StripInv'
<1> DEFINE w == [step |-> "sleep", sleep |-> ResetTicks]
<1>1. strip' = strip /\ feed' = feed /\ show' = w /\ show.step = "wait" /\ feed.stalled
  BY Zenon DEF ShowSeesStall
<1>2. strip.dma = FALSE /\ ShowSound(strip, feed, show)
  <2>1. "wait" # "idle" OBVIOUS
  <2>. QED BY <1>1, <2>1, Showing
<1>3. feed.stalled \in BOOLEAN /\ feed.quiet \in 0..ResetTicks /\ feed.since \in 0..ResetTicks
  BY SoundSays DEF Feeds
<1>4. feed.stalled = TRUE BY <1>1, <1>3, Zenon
<1>5. feed.dma = 0 /\ Len(feed.sent) = Length /\ feed.fifo = <<>>
  <2>1. "wait" # "put" OBVIOUS
  <2>. QED BY <1>1, <1>2, <1>4, <2>1, Zenon DEF ShowSound
<1>6. w \in Shows /\ w.step = "sleep" /\ w.sleep = ResetTicks
  <2>1. ResetTicks \in Int BY StripNumbers
  <2>. QED BY <2>1 DEF Shows
<1> HIDE DEF w
<1>7. /\ ResetTicks \in 0..ResetTicks /\ feed.quiet >= ResetTicks - ResetTicks
      /\ feed.since >= ResetTicks - ResetTicks
  BY <1>3, StripNumbers
<1>8. ShowSound(strip, feed, w)
  <2>1. "sleep" # "idle" /\ "sleep" # "put" /\ "sleep" # "wait" OBVIOUS
  <2>. QED BY <1>5, <1>6, <1>7, <2>1, Zenon DEF ShowSound
<1>9. TRUE # FALSE OBVIOUS
<1>10. StripSound(strip, feed, w)
  BY <1>2, <1>6, <1>8, <1>9, SoundSays, Zenon DEF StripSound
<1>. QED BY <1>1, <1>10, Zenon DEF StripInv

LEMMA ShowReturnsSound ==
    ASSUME StripAssumption, StripInv, ShowReturns
    PROVE  StripInv'
<1> DEFINE w == [step |-> "idle", sleep |-> NoDeadline]
<1>1. strip' = strip /\ feed' = feed /\ show' = w /\ show.step = "sleep" /\ show.sleep = 0
  BY Zenon DEF ShowReturns
<1>2. strip.dma = FALSE /\ ShowSound(strip, feed, show)
  <2>1. "sleep" # "idle" OBVIOUS
  <2>. QED BY <1>1, <2>1, Showing
<1>3. /\ feed.dma = 0 /\ Len(feed.sent) = Length /\ feed.fifo = <<>>
      /\ feed.quiet >= ResetTicks - 0 /\ feed.since >= ResetTicks - 0
  <2>1. "sleep" # "put" OBVIOUS
  <2>. QED BY <1>1, <1>2, <2>1, Zenon DEF ShowSound
<1>4. feed.quiet \in 0..ResetTicks /\ feed.since \in 0..ResetTicks BY SoundSays DEF Feeds
<1>5. feed.quiet = ResetTicks /\ feed.since = ResetTicks BY <1>3, <1>4, StripNumbers
<1>6. w \in Shows /\ w.step = "idle"
  <2>1. -1 \in Int OBVIOUS
  <2>2. NoDeadline \in Int BY <2>1, Zenon DEF NoDeadline
  <2>. QED BY <2>2 DEF Shows
<1> HIDE DEF w
<1>7. ShowSound(strip, feed, w)
  <2>1. "idle" # "sleep" /\ "idle" # "put" /\ "idle" # "wait" OBVIOUS
  <2>. QED BY <1>3, <1>5, <1>6, <2>1, Zenon DEF ShowSound
<1>8. TRUE # FALSE OBVIOUS
<1>9. StripSound(strip, feed, w)
  BY <1>2, <1>6, <1>7, <1>8, SoundSays, Zenon DEF StripSound
<1>. QED BY <1>1, <1>9, Zenon DEF StripInv
-----------------------------------------------------------------------------
\* Every frame of the strip goes to the state machine whole and as it was when
\* it was shown, no sooner than ResetTicks after the last word of the one before
\* was handed over (not: after the line went quiet, see LatchIsWaitedFor), and a
\* blocking show without a wire buffer returns to a line that has been quiet for
\* the whole gap (ws2812_show_async, ws2812_is_busy, ws2812_show), for every
\* length of the strip, depth of the FIFO and length of the gap, and whatever is
\* drawn and asked meanwhile.
THEOREM StripCorrect == StripSpec => []FramesAreWhole
<1>1. StripInit => StripInv BY StripAssumption, StripAtStart
<1>2. StripInv /\ [StripNext]_stripVars => StripInv'
  <2> SUFFICES ASSUME StripInv, [StripNext]_stripVars PROVE StripInv' OBVIOUS
  <2>1. CASE UNCHANGED stripVars
    <3>1. strip' = strip /\ feed' = feed /\ show' = show BY <2>1, Zenon DEF stripVars
    <3>. QED BY <3>1, Zenon DEF StripInv
  <2>2. CASE DmaMoves \/ MachineStalls \/ Tick
    BY <2>2, StripAssumption, DmaMovesSound, StallsSound, TickSound
  <2>3. CASE IsBusy \/ Draw \/ ShowAsync
    BY <2>3, StripAssumption, IsBusySound, DrawSound, ShowAsyncSound
  <2>4. CASE ShowBegins \/ ShowPuts \/ ShowClears \/ ShowSeesStall \/ ShowReturns
    BY <2>4, StripAssumption, ShowBeginsSound, ShowPutsSound, ShowClearsSound,
       ShowSeesStallSound, ShowReturnsSound
  <2>. QED BY <2>1, <2>2, <2>3, <2>4, Zenon DEF StripNext
<1>3. StripInv => FramesAreWhole BY SoundIsWhole
<1>. QED BY <1>1, <1>2, <1>3, PTL DEF StripSpec
-----------------------------------------------------------------------------
(***************************************************************************)
(* The bench                                                               *)
(***************************************************************************)

\* What is on the bench takes its own steps, and what is not takes none.
LEMMA BenchStarts ==
    BenchInit => /\ ServoInit /\ CliInit /\ TofInit /\ StripInit /\ PioInit /\ PwmInitially
                 /\ MessageInit /\ UdpInit /\ BtInit /\ FadeInit /\ StoreInit /\ LogInit
                 /\ JsonInit
BY Zenon DEF BenchInit

LEMMA BenchStands ==
    UNCHANGED benchVars =>
        /\ UNCHANGED servoVars /\ UNCHANGED cliVars /\ UNCHANGED tofVars /\ UNCHANGED stripVars
        /\ UNCHANGED pioVars /\ UNCHANGED pwmVars /\ UNCHANGED messageVars /\ UNCHANGED udpVars
        /\ UNCHANGED btVars /\ UNCHANGED fadeVars /\ UNCHANGED storeVars /\ UNCHANGED logVars
        /\ UNCHANGED jsonVars
BY DEF benchVars

LEMMA BenchServoSteps == [BenchNext]_benchVars => [ServoNext]_servoVars
<1>1. CASE BenchNext BY <1>1 DEF BenchNext, Shelved
<1>. QED BY <1>1, BenchStands, Zenon

LEMMA BenchCliSteps == [BenchNext]_benchVars => [CliNext]_cliVars
<1>1. CASE BenchNext BY <1>1 DEF BenchNext, Shelved
<1>. QED BY <1>1, BenchStands, Zenon

LEMMA BenchTofSteps == [BenchNext]_benchVars => [TofNext]_tofVars
<1>1. CASE BenchNext BY <1>1 DEF BenchNext, Shelved
<1>. QED BY <1>1, BenchStands, Zenon

LEMMA BenchJsonSteps == [BenchNext]_benchVars => [JsonNext]_jsonVars
<1>1. CASE BenchNext BY <1>1 DEF BenchNext, Shelved
<1>. QED BY <1>1, BenchStands, Zenon

LEMMA BenchStripSteps == [BenchNext]_benchVars => [StripNext]_stripVars
<1>1. CASE BenchNext BY <1>1 DEF BenchNext, Shelved
<1>. QED BY <1>1, BenchStands, Zenon

LEMMA BenchPioSteps == [BenchNext]_benchVars => [PioNext]_pioVars
<1>1. CASE BenchNext BY <1>1 DEF BenchNext, Shelved
<1>. QED BY <1>1, BenchStands, Zenon

LEMMA BenchPwmSteps == [BenchNext]_benchVars => [PwmNext]_pwmVars
<1>1. CASE BenchNext BY <1>1 DEF BenchNext, Shelved
<1>. QED BY <1>1, BenchStands, Zenon

LEMMA BenchMessageSteps == [BenchNext]_benchVars => [MessageNext]_messageVars
<1>1. CASE BenchNext BY <1>1 DEF BenchNext, Shelved
<1>. QED BY <1>1, BenchStands, Zenon

LEMMA BenchUdpSteps == [BenchNext]_benchVars => [UdpNext]_udpVars
<1>1. CASE BenchNext BY <1>1 DEF BenchNext, Shelved
<1>. QED BY <1>1, BenchStands, Zenon

LEMMA BenchBtSteps == [BenchNext]_benchVars => [BtNext]_btVars
<1>1. CASE BenchNext BY <1>1 DEF BenchNext, Shelved
<1>. QED BY <1>1, BenchStands, Zenon

LEMMA BenchFadeSteps == [BenchNext]_benchVars => [FadeNext]_fadeVars
<1>1. CASE BenchNext BY <1>1 DEF BenchNext, Shelved
<1>. QED BY <1>1, BenchStands, Zenon

LEMMA BenchStoreSteps == [BenchNext]_benchVars => [StoreNext]_storeVars
<1>1. CASE BenchNext BY <1>1 DEF BenchNext, Shelved
<1>. QED BY <1>1, BenchStands, Zenon

LEMMA BenchLogSteps == [BenchNext]_benchVars => [LogNext]_logVars
<1>1. CASE BenchNext BY <1>1 DEF BenchNext, Shelved
<1>. QED BY <1>1, BenchStands, Zenon

\* On the bench too, a call on a servo bus that reports success has done what it was asked,
\* and every call gives the bus back with its retries, and at another rate only where its
\* servo is found; what a call that failed leaves the servo in is not said (servo_bus.c:
\* transact; feetech.c: set_baudrate, factory_reset; ServoCorrect).
THEOREM BenchCallsHold == BenchSpec => []ServoCallsHold
<1>1. BenchSpec => ServoSpec
  BY BenchStarts, BenchServoSteps, PTL DEF BenchSpec, ServoSpec
<1>. QED BY <1>1, ServoCorrect, PTL

\* The terminal of the bench shows the line that Enter would run (cli.c; CliCorrect).
THEOREM BenchShowsTheLine == BenchSpec => []ScreenShowsTheLine
<1>1. BenchSpec => CliSpec BY BenchStarts, BenchCliSteps, PTL DEF BenchSpec, CliSpec
<1>. QED BY <1>1, CliCorrect, PTL

\* The sensor on the bench is as its driver believes it to be (vl53l0x.c; TofCorrect).
THEOREM BenchSensorAgrees == BenchSpec => []SensorAgrees
<1>1. BenchSpec => TofSpec BY BenchStarts, BenchTofSteps, PTL DEF BenchSpec, TofSpec
<1>. QED BY <1>1, TofCorrect, PTL

\* Nothing of a PIO block stays claimed by what failed or was put away, and an output of a
\* PWM slice leaves the pins of the other channel as they were when it is initialised or its
\* duty moved, its neighbour when it is stopped (ws2812_init, half_duplex_uart_init,
\* can_bus_init, pwm_out_init, pwm_out_deinit; PioCorrect, PwmCorrect).
THEOREM BenchHardwareIsShared == BenchSpec => []HardwareIsShared
<1>1. BenchSpec => PioSpec BY BenchStarts, BenchPioSteps, PTL DEF BenchSpec, PioSpec
<1>2. BenchSpec => PwmSpec BY BenchStarts, BenchPwmSteps, PTL DEF BenchSpec, PwmSpec
<1>3. NothingLeaks /\ OthersKeepTheirSignal => HardwareIsShared
  BY Zenon DEF HardwareIsShared
<1>. QED BY <1>1, <1>2, <1>3, PioCorrect, PwmCorrect, PTL

\* A frame is handed over whole, a latch gap after the one before was, and a fade neither
\* jumps nor turns back (ws2812_show_async, ws2812_is_busy, ramp_tick; StripCorrect,
\* FadesCorrect).
THEOREM BenchLightIsShown == BenchSpec => []LightIsShown
<1>1. BenchSpec => StripSpec BY BenchStarts, BenchStripSteps, PTL DEF BenchSpec, StripSpec
<1>2. BenchSpec => FadeSpec BY BenchStarts, BenchFadeSteps, PTL DEF BenchSpec, FadeSpec
<1>3. FramesAreWhole /\ FadesAreSmooth => LightIsShown BY Zenon DEF LightIsShown
<1>. QED BY <1>1, <1>2, <1>3, StripCorrect, FadesCorrect, PTL

\* What comes in pieces or by callbacks reaches whom it is for, whole, once and in order, or
\* is counted as dropped (on_incoming_data, on_recv, bt_stream.c, memory_sink;
\* MessagesCorrect, DatagramsCorrect, ConsoleCorrect, LogCorrect).
THEOREM BenchDeliveriesAreAccounted == BenchSpec => []DeliveriesAreAccounted
<1>1. BenchSpec => MessageSpec
  BY BenchStarts, BenchMessageSteps, PTL DEF BenchSpec, MessageSpec
<1>2. BenchSpec => UdpSpec BY BenchStarts, BenchUdpSteps, PTL DEF BenchSpec, UdpSpec
<1>3. BenchSpec => BtSpec BY BenchStarts, BenchBtSteps, PTL DEF BenchSpec, BtSpec
<1>4. BenchSpec => LogSpec BY BenchStarts, BenchLogSteps, PTL DEF BenchSpec, LogSpec
<1>5. MessagesAreWhole /\ DatagramsAreAccounted /\ PeerHearsItsOwn /\ MemoryIsNewest
        => DeliveriesAreAccounted
  BY Zenon DEF DeliveriesAreAccounted
<1>. QED BY <1>1, <1>2, <1>3, <1>4, <1>5, MessagesCorrect, DatagramsCorrect, ConsoleCorrect,
            LogCorrect, PTL

\* What was written on the bench is read back: a JSON text, whole or cut short, and the
\* records of a configuration (json.c: json_find_n, json_writer_finish; config_store.c:
\* config_set, config_get; JsonCorrect, StoreCorrect).
THEOREM BenchReadsBack == BenchSpec => []WhatIsWrittenIsRead
<1>1. BenchSpec => JsonSpec BY BenchStarts, BenchJsonSteps, PTL DEF BenchSpec, JsonSpec
<1>2. BenchSpec => StoreSpec BY BenchStarts, BenchStoreSteps, PTL DEF BenchSpec, StoreSpec
<1>3. JsonReadsWhatWasWritten /\ StoreReadsBack => WhatIsWrittenIsRead
  BY Zenon DEF WhatIsWrittenIsRead
<1>. QED BY <1>1, <1>2, <1>3, JsonCorrect, StoreCorrect, PTL
=============================================================================
