---------------------------- MODULE HomeLedProofs ----------------------------
(***************************************************************************)
(* Theorems about HomeLed: Home Assistant is told what the lamp is before  *)
(* it is told that it is there, and what main counts as published is what  *)
(* the broker shows or is about to, whatever the console, the network and  *)
(* the power do between two steps of an announcement or a publication.     *)
(***************************************************************************)
EXTENDS HomeLed, FiniteSetTheorems, WellFoundedInduction, TLAPS

-----------------------------------------------------------------------------
(***************************************************************************)
(* Types.  What a lamp can be asked for is what the commands have in them. *)
(***************************************************************************)
Asked(field) == {c[field] : c \in {d \in LightCommands : Asks(d, field)}}

Lights == [on : {FALSE} \cup Asked("power"),
           brightness : {DefaultBrightness} \cup Asked("brightness"),
           color : {White} \cup Asked("color"),
           mireds : {DefaultMireds, MiredsMin, MiredsMax} \cup Asked("mireds"),
           mode : {"color_temp", "rgb"},
           effect : {"Solid"} \cup Asked("effect"),
           generation : Nat \ {0}]

Ranges == {r \in [begin : 0..LedCount-1, end : 1..LedCount, generation : Nat \ {0}] :
             r.begin < r.end}

Lamps == [light : Lights, range : Ranges]

Flashes == [on : {FALSE} \cup Asked("power"),
            brightness : {DefaultBrightness} \cup Asked("brightness"),
            color : {White} \cup Asked("color"),
            mireds : {DefaultMireds, MiredsMin, MiredsMax} \cup Asked("mireds"),
            mode : {"color_temp", "rgb"},
            effect : {"Solid"} \cup Asked("effect"),
            first : 1..LedCount, last : 1..LedCount]

Values == {<<>>} \cup {<<StateDocument(l)>> : l \in Lights} \cup {<<n>> : n \in 1..LedCount}

Messages == [kind : {"doc", "sub"}, of : Entities, value : {<<>>}]
            \cup [kind : {"online"}, of : {"device"}, value : {<<>>}]
            \cup [kind : {"state"}, of : Entities, value : Values]

Sessions == [state : MqttStates, attempts : 0..AttemptsBound,
             client : {"idle", "connecting", "up"}, wire : Seq(Messages)]

Apps == [announcing : BOOLEAN, step : 0..5, publishing : BOOLEAN, part : 0..3,
         captured : Nat \X Nat, published : Nat \X Nat, saved : Nat \X Nat,
         seen : Nat \X Nat]

Brokers == [online : BOOLEAN, docs : SUBSET Entities, subs : SUBSET Entities,
            shown : [Entities -> Values]]

Uses == [commands : Nat, mishaps : Nat]

-----------------------------------------------------------------------------
(***************************************************************************)
(* What the broker b knows, or will when all that is under way in session  *)
(* m has arrived, against what the application a has noted and the lamp l. *)
(***************************************************************************)
\* No counter of generations is ahead of the lamp's.
NotAhead(g, l) == g[1] <= Generations(l)[1] /\ g[2] <= Generations(l)[2]

TypesOf(m, a, b, l) ==
    /\ m \in Sessions /\ Len(m.wire) <= MaxInFlight
    /\ a \in Apps /\ b \in Brokers /\ l \in Lamps
    /\ NotAhead(a.captured, l) /\ NotAhead(a.published, l) /\ NotAhead(a.saved, l)

Subs(m, b) == b.subs \cup Named(m.wire, "sub")
Docs(m, b) == b.docs \cup Named(m.wire, "doc")

\* Only a client with a connection has messages under way.
SessionShape(m) == /\ m.state = "connected" => m.client = "up"
                   /\ m.client # "up" => m.wire = <<>>

\* A session subscribes before it does anything else.
Subscribed(m, b) == m.client = "up" => Entities \subseteq Subs(m, b)

\* The documents of the steps an announcement has taken in this session.
DocumentsSent(m, a, b) ==
    (a.announcing /\ m.client = "up") =>
        \A i \in 1..3 : i <= a.step => EntityAt[i] \in Docs(m, b)

OnlineIsLast(m, b) == Named(m.wire, "online") # {} => Entities \subseteq Docs(m, b)

OnlineIsTrue(b) == b.online => b.docs = Entities /\ b.subs = Entities

\* Value and Arrived, of any lamp and session.
ValueOf(l, entity) == CASE entity = "light" -> <<StateDocument(l.light)>>
                        [] entity = "first" -> <<RangeFirst(l.range)>>
                        [] entity = "last" -> <<RangeLast(l.range)>>

Shows(m, b, l, entity) == Newest(m.wire, entity, b.shown[entity]) = ValueOf(l, entity)

\* The parts a cycle has published, while the lamp is as it was at its beginning.
PartsSent(m, a, b, l) ==
    (m.state = "connected" /\ a.publishing /\ a.captured = Generations(l)) =>
        \A i \in 1..3 : i <= a.part => Shows(m, b, l, EntityAt[i])

\* An announcement has seen a whole cycle through when its last step finds none
\* under way.
AllSent(m, a, b, l) ==
    (m.state = "connected" /\ (a.announcing => a.step = 5) /\ ~a.publishing
     /\ a.published = Generations(l)) =>
        \A e \in Entities : Shows(m, b, l, e)

Sound(m, a, b, l) ==
    /\ TypesOf(m, a, b, l) /\ SessionShape(m)
    /\ Subscribed(m, b) /\ DocumentsSent(m, a, b) /\ OnlineIsLast(m, b) /\ OnlineIsTrue(b)
    /\ PartsSent(m, a, b, l) /\ AllSent(m, a, b, l)

IInv == /\ Sound(mqtt, app, broker, lamp)
        /\ pc \in {"boot", "console", "link"} /\ WifiTypeOK
        /\ lookups \in 0..MaxLookups /\ flash \in Flashes
        /\ used \in Uses

-----------------------------------------------------------------------------
(***************************************************************************)
(* The lamp: whatever changes it counts a generation.                      *)
(***************************************************************************)
Grown(l, new) == new = l \/ new.generation > l.generation

LEMMA LightChanges ==
    ASSUME NEW l \in Lights, NEW new \in Lights, new.generation = l.generation
    PROVE  Changed(new) \in Lights /\ Grown(l, Changed(new))
<1> DEFINE g == new.generation + 1
<1>1. g \in Nat \ {0} /\ g > l.generation
  BY DEF Lights
<1>2. Changed(new) = [new EXCEPT !.generation = g]
  BY Zenon DEF Changed
<1> HIDE DEF g
<1>3. Changed(new) \in Lights /\ Changed(new).generation = g
  BY <1>1, <1>2 DEF Lights
<1> QED BY <1>1, <1>3 DEF Grown

LEMMA GrowsOn ==
    ASSUME NEW l \in Lights, NEW m \in Lights, NEW n \in Lights, Grown(l, m), Grown(m, n)
    PROVE  Grown(l, n)
BY DEF Lights, Grown

LEMMA PowerGrows ==
    ASSUME NEW l \in Lights, NEW x \in Asked("power")
    PROVE  SetPower(l, x) \in Lights /\ Grown(l, SetPower(l, x))
<1> DEFINE new == [l EXCEPT !.on = x]
<1>1. new \in Lights /\ new.generation = l.generation
  BY DEF Lights
<1> HIDE DEF new
<1>2. Changed(new) \in Lights /\ Grown(l, Changed(new))
  BY <1>1, LightChanges
<1> QED BY <1>2 DEF SetPower, new, Grown

LEMMA BrightnessGrows ==
    ASSUME NEW l \in Lights, NEW x \in Asked("brightness")
    PROVE  SetBrightness(l, x) \in Lights /\ Grown(l, SetBrightness(l, x))
<1> DEFINE new == [l EXCEPT !.brightness = x]
<1>1. new \in Lights /\ new.generation = l.generation
  BY DEF Lights
<1> HIDE DEF new
<1>2. Changed(new) \in Lights /\ Grown(l, Changed(new))
  BY <1>1, LightChanges
<1> QED BY <1>2 DEF SetBrightness, new, Grown

LEMMA ColorGrows ==
    ASSUME NEW l \in Lights, NEW x \in Asked("color")
    PROVE  SetColor(l, x) \in Lights /\ Grown(l, SetColor(l, x))
<1> DEFINE new == [l EXCEPT !.color = x, !.mode = "rgb"]
<1>1. new \in Lights /\ new.generation = l.generation
  BY DEF Lights
<1> HIDE DEF new
<1>2. Changed(new) \in Lights /\ Grown(l, Changed(new))
  BY <1>1, LightChanges
<1> QED BY <1>2 DEF SetColor, new, Grown

LEMMA MiredsGrow ==
    ASSUME NEW l \in Lights, NEW x \in Asked("mireds")
    PROVE  SetMireds(l, x) \in Lights /\ Grown(l, SetMireds(l, x))
<1> DEFINE m == ClampTo(MiredsMin, MiredsMax, x)
           new == [l EXCEPT !.mireds = m, !.mode = "color_temp"]
<1>1. m \in {DefaultMireds, MiredsMin, MiredsMax} \cup Asked("mireds")
  BY DEF ClampTo
<1> HIDE DEF m
<1>2. new \in Lights /\ new.generation = l.generation
  BY <1>1 DEF Lights
<1> HIDE DEF new
<1>3. Changed(new) \in Lights /\ Grown(l, Changed(new))
  BY <1>2, LightChanges
<1> QED BY <1>3 DEF SetMireds, new, m, Grown

LEMMA EffectGrows ==
    ASSUME NEW l \in Lights, NEW x \in Asked("effect")
    PROVE  SetEffect(l, x) \in Lights /\ Grown(l, SetEffect(l, x))
<1> DEFINE new == [l EXCEPT !.effect = x]
<1>1. new \in Lights /\ new.generation = l.generation
  BY DEF Lights
<1> HIDE DEF new
<1>2. Changed(new) \in Lights /\ Grown(l, Changed(new))
  BY <1>1, LightChanges
<1> QED BY <1>2 DEF SetEffect, new, Grown

LEMMA CommandGrows ==
    ASSUME NEW l \in Lights, NEW c \in LightCommands
    PROVE  ApplyCommand(c, l) \in Lights /\ Grown(l, ApplyCommand(c, l))
<1> DEFINE l1 == IF Asks(c, "brightness") THEN SetBrightness(l, c.brightness) ELSE l
           l2 == IF Asks(c, "color") THEN SetColor(l1, c.color) ELSE l1
           l3 == IF Asks(c, "mireds") THEN SetMireds(l2, c.mireds) ELSE l2
           l4 == IF Asks(c, "effect") THEN SetEffect(l3, c.effect) ELSE l3
           l5 == IF Asks(c, "power") THEN SetPower(l4, c.power) ELSE l4
<1>0. \A m \in Lights : Grown(m, m)
  BY DEF Grown
<1>1. l1 \in Lights /\ Grown(l, l1)
  BY <1>0, BrightnessGrows DEF Asked
<1> HIDE DEF l1
<1>2. l2 \in Lights /\ Grown(l1, l2)
  BY <1>0, <1>1, ColorGrows DEF Asked
<1> HIDE DEF l2
<1>3. l3 \in Lights /\ Grown(l2, l3)
  BY <1>0, <1>2, MiredsGrow DEF Asked
<1> HIDE DEF l3
<1>4. l4 \in Lights /\ Grown(l3, l4)
  BY <1>0, <1>3, EffectGrows DEF Asked
<1> HIDE DEF l4
<1>5. l5 \in Lights /\ Grown(l4, l5)
  BY <1>0, <1>4, PowerGrows DEF Asked
<1> HIDE DEF l5
<1>6. Grown(l, l5)
  BY <1>1, <1>2, <1>3, <1>4, <1>5, GrowsOn
<1> QED BY <1>5, <1>6 DEF ApplyCommand, l1, l2, l3, l4, l5

LEMMA RangeMoves ==
    ASSUME NEW r \in Ranges, NEW begin \in 0..LedCount-1, NEW end \in 1..LedCount, begin < end
    PROVE  RangeMoved(r, begin, end) \in Ranges /\ Grown(r, RangeMoved(r, begin, end))
BY DEF RangeMoved, Ranges, Grown

LEMMA RangeGrows ==
    ASSUME NEW r \in Ranges, NEW c \in RangeCommands
    PROVE  ApplyRange(c, r) \in Ranges /\ Grown(r, ApplyRange(c, r))
<1> DEFINE endpoint == ClampTo(1, LedCount, c.value)
<1>1. /\ LedCount \in Nat \ {0} /\ c.value \in Int
      /\ r.begin \in 0..LedCount-1 /\ r.end \in 1..LedCount /\ r.begin < r.end
  BY LampAssumption, HomeAssumption DEF Ranges
<1>2. endpoint \in 1..LedCount
  BY <1>1 DEF ClampTo
<1> HIDE DEF endpoint
<1> DEFINE end == IF endpoint - 1 >= r.end THEN endpoint ELSE r.end
           begin == IF endpoint <= r.begin THEN endpoint - 1 ELSE r.begin
<1>3. endpoint - 1 \in 0..LedCount-1 /\ end \in 1..LedCount /\ endpoint - 1 < end
  BY <1>1, <1>2
<1>4. begin \in 0..LedCount-1 /\ begin < endpoint
  BY <1>1, <1>2
<1> HIDE DEF end, begin
<1>5. CASE c.end = "first"
  <2>1. ApplyRange(c, r) = RangeMoved(r, endpoint - 1, end)
    BY <1>5 DEF ApplyRange, RangeSetFirst, endpoint, end
  <2> QED BY <1>3, <2>1, RangeMoves
<1>6. CASE c.end # "first"
  <2>1. ApplyRange(c, r) = RangeMoved(r, begin, endpoint)
    BY <1>6 DEF ApplyRange, RangeSetLast, endpoint, begin
  <2> QED BY <1>2, <1>4, <2>1, RangeMoves
<1> QED BY <1>5, <1>6

\* A command, from wherever it comes, leaves the lamp as it was or counts.
LEMMA LampGrows ==
    ASSUME lamp \in Lamps, NEW c \in Command, Apply(c)
    PROVE  /\ lamp' \in Lamps
           /\ \/ lamp' = lamp
              \/ /\ Generations(lamp)' # Generations(lamp)
                 /\ Generations(lamp)'[1] >= Generations(lamp)[1]
                 /\ Generations(lamp)'[2] >= Generations(lamp)[2]
<1>1. /\ lamp.light \in Lights /\ lamp.range \in Ranges
      /\ lamp = [light |-> lamp.light, range |-> lamp.range]
  BY DEF Lamps
<1>2. lamp.light.generation \in Nat /\ lamp.range.generation \in Nat
  BY <1>1 DEF Lights, Ranges
<1>3. CASE c \in RangeCommands
  <2> DEFINE new == ApplyRange(c, lamp.range)
  <2>1. new \in Ranges /\ Grown(lamp.range, new)
    BY <1>1, <1>3, RangeGrows
  <2>2. lamp' = [lamp EXCEPT !.range = new]
    BY <1>3, Zenon DEF Apply
  <2> HIDE DEF new
  <2>3. /\ lamp' \in Lamps /\ lamp'.light = lamp.light /\ lamp'.range = new
        /\ lamp' = [light |-> lamp.light, range |-> new]
    BY <1>1, <2>1, <2>2 DEF Lamps
  <2>4. new.generation \in Nat
    BY <2>1 DEF Ranges
  <2> QED BY <1>1, <1>2, <2>1, <2>3, <2>4 DEF Grown, Generations
<1>4. CASE c \notin RangeCommands
  <2> DEFINE new == ApplyCommand(c, lamp.light)
  <2>1. new \in Lights /\ Grown(lamp.light, new)
    BY <1>1, <1>4, CommandGrows DEF Command
  <2>2. lamp' = [lamp EXCEPT !.light = new]
    BY <1>4, Zenon DEF Apply
  <2> HIDE DEF new
  <2>3. /\ lamp' \in Lamps /\ lamp'.range = lamp.range /\ lamp'.light = new
        /\ lamp' = [light |-> new, range |-> lamp.range]
    BY <1>1, <2>1, <2>2 DEF Lamps
  <2>4. new.generation \in Nat
    BY <2>1 DEF Lights
  <2> QED BY <1>1, <1>2, <2>1, <2>3, <2>4 DEF Grown, Generations
<1> QED BY <1>3, <1>4

LEMMA StoredIs ==
    ASSUME NEW l \in Lamps
    PROVE  Stored(l.light, l.range) \in Flashes
<1>1. l.light \in Lights /\ l.range \in Ranges
  BY DEF Lamps
<1>2. /\ l.range.begin \in 0..LedCount-1 /\ l.range.end \in 1..LedCount
      /\ LedCount \in Nat \ {0}
  BY <1>1, LampAssumption DEF Ranges
<1> DEFINE first == RangeFirst(l.range)
           last == RangeLast(l.range)
<1>3. first \in 1..LedCount /\ last \in 1..LedCount
  BY <1>2 DEF RangeFirst, RangeLast
<1> HIDE DEF first, last
<1>4. [on |-> l.light.on, brightness |-> l.light.brightness, color |-> l.light.color,
       mireds |-> l.light.mireds, mode |-> l.light.mode, effect |-> l.light.effect,
       first |-> first, last |-> last] \in Flashes
  BY <1>1, <1>3 DEF Lights, Flashes
<1> QED BY <1>4, Zenon DEF Stored, first, last

LEMMA LampAtStart ==
    /\ LightInit \in Lights /\ LightInit.generation = 1
    /\ RangeInit \in Ranges /\ RangeInit.generation = 1
BY LampAssumption DEF LightInit, RangeInit, Lights, Ranges

LEMMA BootIs ==
    ASSUME NEW s \in Flashes
    PROVE  Boot(s) \in Lamps /\ Generations(Boot(s)) = <<1, 1>>
<1>1. RestoredLight(s) \in Lights /\ RestoredLight(s).generation = 1
  <2>1. RestoredLight(s) = [LightInit EXCEPT !.brightness = s.brightness, !.color = s.color]
    BY DEF RestoredLight
  <2> QED BY <2>1, LampAtStart DEF Flashes, Lights
<1>2. RestoredRange(s) \in Ranges /\ RestoredRange(s).generation = 1
  <2>1. s.first \in 1..LedCount /\ s.last \in 1..LedCount /\ LedCount \in Nat \ {0}
    BY LampAssumption DEF Flashes
  <2>2. CASE s.first >= 1 /\ s.first <= s.last /\ s.last <= LedCount
    <3> DEFINE begin == s.first - 1
               end == s.last
    <3>1. begin \in 0..LedCount-1 /\ end \in 1..LedCount /\ begin < end
      BY <2>1, <2>2
    <3>2. RestoredRange(s) = [RangeInit EXCEPT !.begin = begin, !.end = end]
      BY <2>2, Zenon DEF RestoredRange, RangeRestore
    <3> HIDE DEF begin, end
    <3> QED BY <3>1, <3>2, LampAtStart DEF Ranges
  <2>3. CASE ~(s.first >= 1 /\ s.first <= s.last /\ s.last <= LedCount)
    <3>1. RestoredRange(s) = RangeInit
      BY <2>3, Zenon DEF RestoredRange, RangeRestore
    <3> QED BY <3>1, LampAtStart
  <2> QED BY <2>2, <2>3
<1>3. Boot(s) = [light |-> RestoredLight(s), range |-> RestoredRange(s)]
  BY DEF Boot
<1> HIDE DEF RestoredLight, RestoredRange
<1> QED BY <1>1, <1>2, <1>3 DEF Lamps, Generations

LEMMA ValueIs ==
    ASSUME NEW l \in Lamps, NEW e \in Entities
    PROVE  ValueOf(l, e) \in Values
<1>1. /\ l.light \in Lights /\ l.range.begin \in 0..LedCount-1
      /\ l.range.end \in 1..LedCount /\ LedCount \in Nat \ {0}
  BY LampAssumption DEF Lamps, Ranges
<1>2. RangeFirst(l.range) \in 1..LedCount /\ RangeLast(l.range) \in 1..LedCount
  BY <1>1 DEF RangeFirst, RangeLast
<1>3. CASE e = "light"
  BY <1>1, <1>3, Zenon DEF ValueOf, Values
<1>4. CASE e = "first"
  <2>1. ValueOf(l, e) = <<RangeFirst(l.range)>>
    BY <1>4 DEF ValueOf
  <2> QED BY <1>2, <2>1, Zenon DEF Values
<1>5. CASE e = "last"
  <2>1. ValueOf(l, e) = <<RangeLast(l.range)>>
    BY <1>5 DEF ValueOf
  <2> QED BY <1>2, <2>1, Zenon DEF Values
<1> QED BY <1>3, <1>4, <1>5 DEF Entities

LEMMA ValueOfLamp == \A e : Value(e) = ValueOf(lamp, e)
BY Zenon DEF Value, ValueOf

-----------------------------------------------------------------------------
(***************************************************************************)
(* Messages under way.                                                     *)
(***************************************************************************)
LEMMA LastExists ==
    ASSUME NEW n \in Nat, NEW S \in SUBSET (1..n), S # {}
    PROVE  \E i \in S : \A j \in S : j <= i
<1> DEFINE T == {k \in 0..n : \A j \in S : j <= k}
<1>1. T \in SUBSET Nat /\ T # {}
  <2>1. n \in T
    OBVIOUS
  <2> QED BY <2>1
<1>2. PICK k \in T : \A m \in T : k <= m
  <2>1. \E k \in T : \A m \in T : <<m, k>> \notin OpToRel(<, Nat)
    BY <1>1, NatLessThanWellFounded, WFMin
  <2>2. \A k, m \in Nat : <<m, k>> \notin OpToRel(<, Nat) => k <= m
    BY DEF OpToRel
  <2> QED BY <1>1, <2>1, <2>2
<1>3. k \in S
  <2> SUFFICES ASSUME k \notin S PROVE FALSE
    OBVIOUS
  <2>1. k \in 0..n /\ \A j \in S : j <= k /\ j # k /\ j \in 1..n
    OBVIOUS
  <2>2. k > 0
    <3>1. PICK j \in S : TRUE
      OBVIOUS
    <3> QED BY <2>1, <3>1
  <2>3. k - 1 \in T
    BY <2>1, <2>2
  <2> QED BY <1>2, <2>1, <2>3
<1> QED BY <1>3

StatesOf(messages, entity) ==
    {i \in DOMAIN messages : messages[i].kind = "state" /\ messages[i].of = entity}

LEMMA LastStateIs ==
    ASSUME NEW w \in Seq(Messages), NEW e, StatesOf(w, e) # {}
    PROVE  LET last == CHOOSE i \in StatesOf(w, e) : \A j \in StatesOf(w, e) : j <= i
           IN  /\ last \in StatesOf(w, e) /\ last \in 1..Len(w)
               /\ \A j \in StatesOf(w, e) : j <= last
<1>1. StatesOf(w, e) \in SUBSET (1..Len(w)) /\ Len(w) \in Nat
  BY DEF StatesOf
<1>2. \E i \in StatesOf(w, e) : \A j \in StatesOf(w, e) : j <= i
  BY <1>1, LastExists
<1> QED BY <1>1, <1>2, Zenon

LEMMA NewestIs ==
    ASSUME NEW w \in Seq(Messages), NEW e, NEW before \in Values
    PROVE  Newest(w, e, before) \in Values
<1>1. CASE StatesOf(w, e) = {}
  BY <1>1, Zenon DEF Newest, StatesOf
<1>2. CASE StatesOf(w, e) # {}
  <2> DEFINE last == CHOOSE i \in StatesOf(w, e) : \A j \in StatesOf(w, e) : j <= i
  <2>1. last \in 1..Len(w)
    BY <1>2, LastStateIs
  <2>2. Newest(w, e, before) = w[last].value
    BY <1>2, Zenon DEF Newest, StatesOf
  <2> HIDE DEF last
  <2>3. w[last] \in Messages
    BY <2>1
  <2>4. <<>> \in Values
    BY Zenon DEF Values
  <2>5. w[last].value \in Values
    BY <2>3, <2>4 DEF Messages
  <2> QED BY <2>2, <2>5, Zenon
<1> QED BY <1>1, <1>2

LEMMA NewestOfNone ==
    ASSUME NEW e, NEW before PROVE Newest(<<>>, e, before) = before
BY DEF Newest

LEMMA AppendedIs ==
    ASSUME NEW w \in Seq(Messages), NEW m \in Messages
    PROVE  /\ Append(w, m) \in Seq(Messages) /\ Len(Append(w, m)) = Len(w) + 1
           /\ Append(w, m)[Len(w) + 1] = m /\ Len(w) \in Nat
           /\ \A i \in 1..Len(w) : Append(w, m)[i] = w[i]
           /\ DOMAIN Append(w, m) = 1..(Len(w) + 1) /\ DOMAIN w = 1..Len(w)
OBVIOUS

LEMMA NewestAppended ==
    ASSUME NEW w \in Seq(Messages), NEW m \in Messages, NEW e, NEW before
    PROVE  Newest(Append(w, m), e, before) =
               IF m.kind = "state" /\ m.of = e THEN m.value ELSE Newest(w, e, before)
<1> DEFINE v == Append(w, m)
           n == Len(w)
<1>1. /\ n \in Nat /\ DOMAIN v = 1..(n + 1) /\ DOMAIN w = 1..n
      /\ v[n + 1] = m /\ \A i \in 1..n : v[i] = w[i]
  BY AppendedIs
<1> HIDE DEF v, n
<1>2. CASE m.kind = "state" /\ m.of = e
  <2> DEFINE S == StatesOf(v, e)
             last == CHOOSE i \in S : \A j \in S : j <= i
  <2>1. n + 1 \in S /\ \A j \in S : j <= n + 1 /\ j \in Nat
    BY <1>1, <1>2 DEF StatesOf
  <2> HIDE DEF S
  <2>2. last \in S /\ \A j \in S : j <= last
    BY <2>1, Zenon
  <2> HIDE DEF last
  <2>3. last = n + 1
    BY <1>1, <2>1, <2>2
  <2>4. Newest(v, e, before) = v[last].value
    BY <2>1, Zenon DEF Newest, S, last, StatesOf
  <2> QED BY <1>1, <1>2, <2>3, <2>4, Zenon DEF v
<1>3. CASE ~(m.kind = "state" /\ m.of = e)
  <2>1. StatesOf(v, e) = StatesOf(w, e)
    <3>1. n + 1 \notin StatesOf(v, e)
      BY <1>1, <1>3 DEF StatesOf
    <3> QED BY <1>1, <3>1 DEF StatesOf
  <2>2. CASE StatesOf(w, e) = {}
    <3>1. Newest(v, e, before) = before /\ Newest(w, e, before) = before
      BY <2>1, <2>2, Zenon DEF Newest, StatesOf
    <3> QED BY <1>3, <3>1, Zenon DEF v
  <2>3. CASE StatesOf(w, e) # {}
    <3> DEFINE last == CHOOSE i \in StatesOf(w, e) : \A j \in StatesOf(w, e) : j <= i
    <3>1. last \in 1..n
      BY <2>3, LastStateIs, <1>1 DEF n
    <3>2. Newest(w, e, before) = w[last].value
      BY <2>3, Zenon DEF Newest, StatesOf
    <3>3. Newest(v, e, before) = v[CHOOSE i \in StatesOf(v, e) : \A j \in StatesOf(v, e) : j <= i].value
      BY <2>1, <2>3, Zenon DEF Newest, StatesOf
    <3>4. Newest(v, e, before) = v[last].value
      BY <2>1, <3>3, Zenon
    <3> HIDE DEF last
    <3>5. v[last] = w[last]
      BY <1>1, <3>1
    <3> QED BY <1>3, <3>2, <3>4, <3>5, Zenon DEF v
  <2> QED BY <2>2, <2>3
<1> QED BY <1>2, <1>3

LEMMA NamedAppended ==
    ASSUME NEW w \in Seq(Messages), NEW m \in Messages, NEW kind
    PROVE  /\ Named(w, kind) \subseteq Named(Append(w, m), kind)
           /\ Named(Append(w, m), kind) \subseteq Named(w, kind) \cup {m.of}
           /\ m.kind = kind => m.of \in Named(Append(w, m), kind)
           /\ m.kind # kind => Named(Append(w, m), kind) = Named(w, kind)
<1> DEFINE v == Append(w, m)
           n == Len(w)
<1>1. /\ n \in Nat /\ DOMAIN v = 1..(n + 1) /\ DOMAIN w = 1..n
      /\ v[n + 1] = m /\ \A i \in 1..n : v[i] = w[i]
  BY AppendedIs
<1> HIDE DEF v, n
<1>2. Named(w, kind) \subseteq Named(v, kind)
  BY <1>1 DEF Named
<1>3. Named(v, kind) \subseteq Named(w, kind) \cup {m.of}
  BY <1>1 DEF Named
<1>4. m.kind = kind => m.of \in Named(v, kind)
  BY <1>1 DEF Named
<1>5. m.kind # kind => Named(v, kind) = Named(w, kind)
  BY <1>1 DEF Named
<1> QED BY <1>2, <1>3, <1>4, <1>5 DEF v

LEMMA NamedAre ==
    ASSUME NEW w \in Seq(Messages)
    PROVE  Named(w, "sub") \subseteq Entities /\ Named(w, "doc") \subseteq Entities
<1>1. \A i \in DOMAIN w : w[i] \in Messages
  OBVIOUS
<1> QED BY <1>1 DEF Named, Messages

LEMMA ReceivedIs ==
    ASSUME NEW w \in Seq(Messages), NEW b \in Brokers
    PROVE  ReceivedAll(b, w) \in Brokers
<1> DEFINE online == b.online \/ Named(w, "online") # {}
           docs == b.docs \cup Named(w, "doc")
           subs == b.subs \cup Named(w, "sub")
           shown == [e \in Entities |-> Newest(w, e, b.shown[e])]
<1>1. online \in BOOLEAN
  BY Zenon
<1>2. docs \subseteq Entities /\ subs \subseteq Entities
  BY NamedAre DEF Brokers
<1>3. shown \in [Entities -> Values]
  <2>1. \A e \in Entities : b.shown[e] \in Values
    BY DEF Brokers
  <2>2. \A e \in Entities : Newest(w, e, b.shown[e]) \in Values
    BY <2>1, NewestIs
  <2> QED BY <2>2
<1> HIDE DEF online, docs, subs, shown
<1>4. [online |-> online, docs |-> docs, subs |-> subs, shown |-> shown] \in Brokers
  BY <1>1, <1>2, <1>3 DEF Brokers
<1> QED BY <1>4, Zenon DEF ReceivedAll, online, docs, subs, shown
-----------------------------------------------------------------------------
(***************************************************************************)
(* What a session may do and stay sound: change its state, send, deliver,  *)
(* and end.                                                                *)
(***************************************************************************)
LEMMA SentIs ==
    ASSUME NEW m \in Sessions, NEW x \in Messages
    PROVE  /\ Sent(m, x) \in Sessions /\ Sent(m, x).wire = Append(m.wire, x)
           /\ Sent(m, x).state = m.state /\ Sent(m, x).client = m.client
           /\ Sent(m, x).attempts = m.attempts
           /\ Len(Sent(m, x).wire) = Len(m.wire) + 1
<1> DEFINE w == Append(m.wire, x)
<1>1. m.wire \in Seq(Messages)
  BY DEF Sessions
<1>2. w \in Seq(Messages) /\ Len(w) = Len(m.wire) + 1
  BY <1>1, AppendedIs
<1>3. Sent(m, x) = [m EXCEPT !.wire = w]
  BY Zenon DEF Sent
<1> HIDE DEF w
<1> QED
  <2>1. Sent(m, x) \in Sessions /\ Sent(m, x).wire = w
        /\ Sent(m, x).state = m.state /\ Sent(m, x).client = m.client
        /\ Sent(m, x).attempts = m.attempts
    BY <1>2, <1>3 DEF Sessions
  <2> QED BY <1>2, <2>1 DEF w

\* What the broker will have learnt only grows.
LEMMA SentTells ==
    ASSUME NEW m \in Sessions, NEW x \in Messages, NEW b, NEW l
    PROVE  /\ Docs(m, b) \subseteq Docs(Sent(m, x), b)
           /\ Subs(m, b) \subseteq Subs(Sent(m, x), b)
           /\ x.kind = "doc" => x.of \in Docs(Sent(m, x), b)
           /\ x.kind = "sub" => x.of \in Subs(Sent(m, x), b)
           /\ x.kind # "online" =>
                  Named(Sent(m, x).wire, "online") = Named(m.wire, "online")
           /\ x.kind = "state" =>
                  Newest(Sent(m, x).wire, x.of, b.shown[x.of]) = x.value
           /\ (x.kind = "state" => x.value = ValueOf(l, x.of)) =>
                  \A e \in Entities : Shows(m, b, l, e) => Shows(Sent(m, x), b, l, e)
<1>1. m.wire \in Seq(Messages) /\ Sent(m, x).wire = Append(m.wire, x)
  BY SentIs DEF Sessions
<1>2. /\ Named(m.wire, "doc") \subseteq Named(Sent(m, x).wire, "doc")
      /\ Named(m.wire, "sub") \subseteq Named(Sent(m, x).wire, "sub")
      /\ x.kind = "doc" => x.of \in Named(Sent(m, x).wire, "doc")
      /\ x.kind = "sub" => x.of \in Named(Sent(m, x).wire, "sub")
      /\ x.kind # "online" =>
                  Named(Sent(m, x).wire, "online") = Named(m.wire, "online")
  BY <1>1, NamedAppended
<1>3. \A e : Newest(Sent(m, x).wire, e, b.shown[e]) =
               IF x.kind = "state" /\ x.of = e THEN x.value
               ELSE Newest(m.wire, e, b.shown[e])
  BY <1>1, NewestAppended
<1>4. x.kind = "state" => Newest(Sent(m, x).wire, x.of, b.shown[x.of]) = x.value
  BY <1>3
<1>5. (x.kind = "state" => x.value = ValueOf(l, x.of)) =>
                  \A e \in Entities : Shows(m, b, l, e) => Shows(Sent(m, x), b, l, e)
  BY <1>3 DEF Shows
<1> HIDE DEF Sent, Named, Newest
<1> QED BY <1>2, <1>4, <1>5 DEF Docs, Subs

LEMMA SendSound ==
    ASSUME NEW m, NEW a, NEW b, NEW l, Sound(m, a, b, l), CanSend(m),
           NEW x \in Messages,
           x.kind = "state" => x.value = ValueOf(l, x.of),
           x.kind = "online" => Entities \subseteq Docs(m, b)
    PROVE  Sound(Sent(m, x), a, b, l)
<1> DEFINE n == Sent(m, x)
<1>1. m \in Sessions /\ Len(m.wire) < MaxInFlight /\ Len(m.wire) \in Nat /\ m.client = "up"
  BY DEF Sound, TypesOf, CanSend, Sessions
<1>2. n \in Sessions /\ n.state = m.state /\ n.client = m.client
      /\ Len(n.wire) = Len(m.wire) + 1
  BY <1>1, SentIs
<1>3. /\ Docs(m, b) \subseteq Docs(n, b) /\ Subs(m, b) \subseteq Subs(n, b)
      /\ x.kind # "online" => Named(n.wire, "online") = Named(m.wire, "online")
      /\ \A e \in Entities : Shows(m, b, l, e) => Shows(n, b, l, e)
  BY <1>1, SentTells
<1> HIDE DEF n
<1>4. TypesOf(n, a, b, l)
  BY <1>1, <1>2, MqttAssumption DEF Sound, TypesOf
<1>5. SessionShape(n)
  BY <1>1, <1>2 DEF SessionShape
<1>6. Subscribed(n, b)
  BY <1>2, <1>3 DEF Sound, Subscribed
<1>7. DocumentsSent(n, a, b)
  BY <1>2, <1>3 DEF Sound, DocumentsSent
<1>8. OnlineIsLast(n, b)
  BY <1>3 DEF Sound, OnlineIsLast
<1>9. PartsSent(n, a, b, l)
  <2>1. \A i \in 1..3 : EntityAt[i] \in Entities
    BY DEF EntityAt, Entities
  <2> QED BY <1>2, <1>3, <2>1, Zenon DEF Sound, PartsSent
<1>10. AllSent(n, a, b, l)
  BY <1>2, <1>3, Zenon DEF Sound, AllSent
<1> QED BY <1>4, <1>5, <1>6, <1>7, <1>8, <1>9, <1>10 DEF Sound, n

\* A step of the client that neither sends nor connects.
LEMMA QuietSound ==
    ASSUME NEW m, NEW a, NEW b, NEW l, Sound(m, a, b, l),
           NEW n \in Sessions, n.wire = m.wire, n.client = "up" <=> m.client = "up",
           n.state = "connected" => m.state = "connected"
    PROVE  Sound(n, a, b, l)
<1>1. TypesOf(n, a, b, l)
  BY DEF Sound, TypesOf
<1>2. SessionShape(n)
  BY DEF Sound, SessionShape
<1>3. Subscribed(n, b) /\ DocumentsSent(n, a, b) /\ OnlineIsLast(n, b)
  BY DEF Sound, Subscribed, DocumentsSent, OnlineIsLast, Subs, Docs
<1>4. \A e \in Entities : Shows(n, b, l, e) <=> Shows(m, b, l, e)
  BY DEF Shows
<1>5. PartsSent(n, a, b, l) /\ AllSent(n, a, b, l)
  <2>1. \A i \in 1..3 : EntityAt[i] \in Entities
    BY DEF EntityAt, Entities
  <2> QED BY <1>4, <2>1, Zenon DEF Sound, PartsSent, AllSent
<1> QED BY <1>1, <1>2, <1>3, <1>5 DEF Sound

\* No session: nothing is under way, and what the broker is told of is not.
LEMMA OfflineSound ==
    ASSUME NEW n \in Sessions, n.client # "up", n.state # "connected", n.wire = <<>>,
           NEW a \in Apps, NEW b \in Brokers, ~b.online, NEW l \in Lamps,
           NotAhead(a.captured, l), NotAhead(a.published, l), NotAhead(a.saved, l)
    PROVE  Sound(n, a, b, l)
<1>1. Len(n.wire) = 0
  OBVIOUS
<1>2. TypesOf(n, a, b, l)
  BY <1>1, MqttAssumption DEF TypesOf
<1>3. OnlineIsLast(n, b)
  <2>1. Named(<<>>, "online") = {}
    BY DEF Named
  <2> QED BY <2>1 DEF OnlineIsLast
<1> QED BY <1>2, <1>3 DEF Sound, SessionShape, Subscribed, DocumentsSent, OnlineIsTrue,
                           PartsSent, AllSent
\* All that is under way arrives.
LEMMA DeliverSound ==
    ASSUME NEW m, NEW a, NEW b, NEW l, Sound(m, a, b, l), m.client = "up",
           NEW n \in Sessions, n.wire = <<>>, n.client = "up", n.state = m.state
    PROVE  Sound(n, a, ReceivedAll(b, m.wire), l)
<1> DEFINE c == ReceivedAll(b, m.wire)
<1>1. m.wire \in Seq(Messages) /\ b \in Brokers
  BY DEF Sound, TypesOf, Sessions
<1>2. c \in Brokers
  BY <1>1, ReceivedIs
<1>3. /\ c.online = (b.online \/ Named(m.wire, "online") # {})
      /\ c.docs = Docs(m, b) /\ c.subs = Subs(m, b)
      /\ \A e \in Entities : c.shown[e] = Newest(m.wire, e, b.shown[e])
  BY Zenon DEF ReceivedAll, Docs, Subs
<1> HIDE DEF c
<1>4. /\ Named(n.wire, "sub") = {} /\ Named(n.wire, "doc") = {}
      /\ Named(n.wire, "online") = {}
  BY DEF Named
<1>5. Subs(n, c) = Subs(m, b) /\ Docs(n, c) = Docs(m, b)
  BY <1>3, <1>4 DEF Subs, Docs
<1>6. \A e \in Entities : Newest(n.wire, e, c.shown[e]) = c.shown[e]
  BY NewestOfNone
<1>7. \A e \in Entities : Shows(n, c, l, e) <=> Shows(m, b, l, e)
  BY <1>3, <1>6, Zenon DEF Shows
<1>8. Len(n.wire) = 0
  OBVIOUS
<1>9. TypesOf(n, a, c, l)
  BY <1>2, <1>8, MqttAssumption DEF Sound, TypesOf
<1>10. SessionShape(n)
  BY DEF SessionShape
<1>11. Subscribed(n, c) /\ DocumentsSent(n, a, c)
  BY <1>5 DEF Sound, Subscribed, DocumentsSent
<1>12. OnlineIsLast(n, c)
  BY <1>4 DEF OnlineIsLast
<1>13. OnlineIsTrue(c)
  <2> SUFFICES ASSUME c.online PROVE c.docs = Entities /\ c.subs = Entities
    BY DEF OnlineIsTrue
  <2>1. Entities \subseteq Subs(m, b)
    BY DEF Sound, Subscribed
  <2>2. Entities \subseteq Docs(m, b)
    <3>1. CASE b.online
      BY <3>1 DEF Sound, OnlineIsTrue, Docs
    <3>2. CASE Named(m.wire, "online") # {}
      BY <3>2 DEF Sound, OnlineIsLast
    <3> QED BY <1>3, <3>1, <3>2, Zenon
  <2> QED BY <1>2, <1>3, <2>1, <2>2 DEF Brokers
<1>14. PartsSent(n, a, c, l) /\ AllSent(n, a, c, l)
  <2>1. \A i \in 1..3 : EntityAt[i] \in Entities
    BY DEF EntityAt, Entities
  <2> QED BY <1>7, <2>1, Zenon DEF Sound, PartsSent, AllSent
<1> QED BY <1>9, <1>10, <1>11, <1>12, <1>13, <1>14, Zenon DEF Sound, c

\* A lamp that changes grows past every generation that was noted.
LEMMA LampSound ==
    ASSUME NEW m, NEW a, NEW b, NEW l, Sound(m, a, b, l), NEW k \in Lamps,
           \/ k = l
           \/ /\ Generations(k) # Generations(l)
              /\ Generations(k)[1] >= Generations(l)[1]
              /\ Generations(k)[2] >= Generations(l)[2]
    PROVE  Sound(m, a, b, k)
<1>1. CASE k = l
  BY <1>1
<1>2. CASE k # l
  <2> DEFINE g1 == Generations(l)[1]
             g2 == Generations(l)[2]
             h1 == Generations(k)[1]
             h2 == Generations(k)[2]
  <2>1. /\ g1 \in Nat /\ g2 \in Nat /\ h1 \in Nat /\ h2 \in Nat
        /\ Generations(l) = <<g1, g2>> /\ Generations(k) = <<h1, h2>>
    BY DEF Sound, TypesOf, Lamps, Lights, Ranges, Generations
  <2>2. h1 >= g1 /\ h2 >= g2 /\ (h1 # g1 \/ h2 # g2)
    BY <1>2, <2>1
  <2> HIDE DEF g1, g2, h1, h2
  <2>3. \A p \in Nat \X Nat : NotAhead(p, l) => NotAhead(p, k) /\ p # Generations(k)
    BY <2>1, <2>2 DEF NotAhead
  <2>4. a.captured \in Nat \X Nat /\ a.published \in Nat \X Nat /\ a.saved \in Nat \X Nat
    BY DEF Sound, TypesOf, Apps
  <2>5. TypesOf(m, a, b, k)
    BY <2>3, <2>4 DEF Sound, TypesOf
  <2>6. PartsSent(m, a, b, k) /\ AllSent(m, a, b, k)
    BY <2>3, <2>4 DEF Sound, TypesOf, PartsSent, AllSent
  <2> QED BY <2>5, <2>6 DEF Sound
<1> QED BY <1>1, <1>2

-----------------------------------------------------------------------------
(***************************************************************************)
(* What the application may note and stay sound.                           *)
(***************************************************************************)
LEMMA AppTypes ==
    ASSUME NEW m, NEW a, NEW b, NEW l, Sound(m, a, b, l)
    PROVE  /\ a \in Apps /\ Generations(l) \in Nat \X Nat
           /\ NotAhead(Generations(l), l)
           /\ NotAhead(a.captured, l) /\ NotAhead(a.published, l) /\ NotAhead(a.saved, l)
<1>1. l.light.generation \in Nat /\ l.range.generation \in Nat
  BY DEF Sound, TypesOf, Lamps, Lights, Ranges
<1> QED BY <1>1 DEF Sound, TypesOf, Generations, NotAhead

LEMMA NoteSound ==
    ASSUME NEW m, NEW a, NEW b, NEW l, Sound(m, a, b, l),
           NEW saved, saved = a.saved \/ saved = Generations(l),
           NEW seen \in Nat \X Nat
    PROVE  Sound(m, [a EXCEPT !.saved = saved, !.seen = seen], b, l)
<1> DEFINE n == [a EXCEPT !.saved = saved, !.seen = seen]
<1>1. saved \in Nat \X Nat /\ NotAhead(saved, l) /\ a \in Apps
  BY AppTypes DEF Apps
<1>2. /\ n \in Apps /\ n.saved = saved
      /\ n.announcing = a.announcing /\ n.step = a.step /\ n.publishing = a.publishing
      /\ n.part = a.part /\ n.captured = a.captured /\ n.published = a.published
  BY <1>1 DEF Apps
<1> HIDE DEF n
<1>3. TypesOf(m, n, b, l)
  BY <1>1, <1>2 DEF Sound, TypesOf
<1>4. DocumentsSent(m, n, b) /\ PartsSent(m, n, b, l) /\ AllSent(m, n, b, l)
  BY <1>2, Zenon DEF Sound, DocumentsSent, PartsSent, AllSent
<1> QED BY <1>3, <1>4 DEF Sound, n

\* A cycle begins: nothing is claimed of it yet.
LEMMA CycleSound ==
    ASSUME NEW m, NEW a, NEW b, NEW l, Sound(m, a, b, l)
    PROVE  Sound(m, [a EXCEPT !.publishing = TRUE, !.part = 0,
                              !.captured = Generations(l)], b, l)
<1> DEFINE g == Generations(l)
           yes == TRUE
           none == 0
           n == [a EXCEPT !.publishing = yes, !.part = none, !.captured = g]
<1>1. g \in Nat \X Nat /\ NotAhead(g, l) /\ a \in Apps /\ none \in 0..3
  BY AppTypes
<1>2. yes \in BOOLEAN /\ yes = TRUE
  OBVIOUS
<1> HIDE DEF g, none, yes
<1>3. /\ n \in Apps /\ n.captured = g /\ n.publishing = yes /\ n.part = none
      /\ n.announcing = a.announcing /\ n.step = a.step
      /\ n.saved = a.saved /\ n.published = a.published
  BY <1>1, <1>2 DEF Apps
<1> HIDE DEF n
<1>4. n.publishing
  BY <1>2, <1>3
<1>5. TypesOf(m, n, b, l)
  BY <1>1, <1>3 DEF Sound, TypesOf
<1>6. DocumentsSent(m, n, b)
  BY <1>3, Zenon DEF Sound, DocumentsSent
<1>7. PartsSent(m, n, b, l)
  BY <1>3 DEF PartsSent, none
<1>8. AllSent(m, n, b, l)
  BY <1>4, Zenon DEF AllSent
<1> QED BY <1>5, <1>6, <1>7, <1>8, Zenon DEF Sound, n, g, yes, none

LEMMA AnnouncingSound ==
    ASSUME NEW m, NEW a, NEW b, NEW l, Sound(m, a, b, l)
    PROVE  Sound(m, Announcing(a), b, l)
<1> DEFINE yes == TRUE
           no == FALSE
           none == 0
           n == [a EXCEPT !.announcing = yes, !.step = none, !.publishing = no]
<1>1. a \in Apps /\ none \in 0..5
  BY AppTypes
<1>2. yes \in BOOLEAN /\ no \in BOOLEAN /\ ~no
  OBVIOUS
<1> HIDE DEF yes, no, none
<1>3. /\ n \in Apps /\ n.announcing = yes /\ n.step = none /\ n.publishing = no
      /\ n.captured = a.captured /\ n.saved = a.saved /\ n.published = a.published
  BY <1>1, <1>2 DEF Apps
<1> HIDE DEF n
<1>4. ~n.publishing /\ n.step = 0
  BY <1>2, <1>3 DEF none
<1>5. n.announcing
  BY <1>3 DEF yes
<1>6. TypesOf(m, n, b, l)
  BY <1>1, <1>3 DEF Sound, TypesOf
<1>7. DocumentsSent(m, n, b)
  BY <1>4 DEF DocumentsSent
<1>8. PartsSent(m, n, b, l)
  BY <1>4, Zenon DEF PartsSent
<1>9. AllSent(m, n, b, l)
  BY <1>4, <1>5 DEF AllSent
<1> QED BY <1>6, <1>7, <1>8, <1>9, Zenon DEF Sound, Announcing, n, yes, no, none

\* The announcement takes a step.
LEMMA StepSound ==
    ASSUME NEW m, NEW a, NEW b, NEW l, Sound(m, a, b, l), NEW n \in 0..5,
           a.announcing => \A i \in 1..3 : i <= n => EntityAt[i] \in Docs(m, b),
           n = 5 => a.publishing
    PROVE  Sound(m, [a EXCEPT !.step = n], b, l)
<1> DEFINE c == [a EXCEPT !.step = n]
<1>1. a \in Apps
  BY AppTypes
<1>2. /\ c \in Apps /\ c.announcing = a.announcing /\ c.step = n
      /\ c.publishing = a.publishing /\ c.part = a.part
      /\ c.captured = a.captured /\ c.saved = a.saved /\ c.published = a.published
  BY <1>1 DEF Apps
<1> HIDE DEF c
<1>3. TypesOf(m, c, b, l)
  BY <1>1, <1>2 DEF Sound, TypesOf
<1>4. DocumentsSent(m, c, b)
  BY <1>2 DEF DocumentsSent
<1>5. PartsSent(m, c, b, l)
  BY <1>2, Zenon DEF Sound, PartsSent
<1>6. AllSent(m, c, b, l)
  <2>1. CASE n = 5
    BY <1>2, <2>1 DEF AllSent
  <2>2. CASE n # 5
    BY <1>2, <2>2, Zenon DEF Sound, AllSent
  <2> QED BY <2>1, <2>2
<1> QED BY <1>3, <1>4, <1>5, <1>6 DEF Sound, c

\* The last step ends the announcement when its cycle is over.
LEMMA EndSound ==
    ASSUME NEW m, NEW a, NEW b, NEW l, Sound(m, a, b, l), a.announcing, a.step = 5
    PROVE  Sound(m, [a EXCEPT !.announcing = a.publishing], b, l)
<1> DEFINE c == [a EXCEPT !.announcing = a.publishing]
<1>1. a \in Apps
  BY AppTypes
<1>2. /\ c \in Apps /\ c.announcing = a.publishing /\ c.step = a.step
      /\ c.publishing = a.publishing /\ c.part = a.part
      /\ c.captured = a.captured /\ c.saved = a.saved /\ c.published = a.published
  BY <1>1 DEF Apps
<1> HIDE DEF c
<1>3. TypesOf(m, c, b, l)
  BY <1>1, <1>2 DEF Sound, TypesOf
<1>4. DocumentsSent(m, c, b)
  BY <1>2, Zenon DEF Sound, DocumentsSent
<1>5. PartsSent(m, c, b, l)
  BY <1>2, Zenon DEF Sound, PartsSent
<1>6. AllSent(m, c, b, l)
  BY <1>2, Zenon DEF Sound, AllSent
<1> QED BY <1>3, <1>4, <1>5, <1>6 DEF Sound, c

\* A part of the cycle has gone out.
LEMMA PartSound ==
    ASSUME NEW m, NEW a, NEW b, NEW l, Sound(m, a, b, l), a.part < 3,
           Shows(m, b, l, EntityAt[a.part + 1])
    PROVE  Sound(m, [a EXCEPT !.part = @ + 1], b, l)
<1> DEFINE n == a.part + 1
           c == [a EXCEPT !.part = n]
<1>1. a \in Apps /\ a.part \in 0..3
  BY AppTypes DEF Apps
<1>2. n \in 1..3 /\ Shows(m, b, l, EntityAt[n]) /\ \A i \in 1..3 : i <= n => i <= a.part \/ i = n
  BY <1>1
<1> HIDE DEF n
<1>3. /\ c \in Apps /\ c.announcing = a.announcing /\ c.step = a.step
      /\ c.publishing = a.publishing /\ c.part = n
      /\ c.captured = a.captured /\ c.saved = a.saved /\ c.published = a.published
  BY <1>1, <1>2 DEF Apps
<1> HIDE DEF c
<1>4. TypesOf(m, c, b, l)
  BY <1>1, <1>3 DEF Sound, TypesOf
<1>5. DocumentsSent(m, c, b) /\ AllSent(m, c, b, l)
  BY <1>3, Zenon DEF Sound, DocumentsSent, AllSent
<1>6. PartsSent(m, c, b, l)
  BY <1>2, <1>3, Zenon DEF Sound, PartsSent
<1> QED BY <1>4, <1>5, <1>6, Zenon DEF Sound, c, n

LEMMA CycleDoneSound ==
    ASSUME NEW m, NEW a, NEW b, NEW l, Sound(m, a, b, l), a.publishing, a.part = 3
    PROVE  Sound(m, CycleDone(a), b, l)
<1> DEFINE c == CycleDone(a)
<1>1. a \in Apps
  BY AppTypes
<1>2. /\ c \in Apps /\ c.announcing = a.announcing /\ c.step = a.step
      /\ ~c.publishing /\ c.captured = a.captured /\ c.saved = a.saved
      /\ c.published = a.captured
  BY <1>1 DEF Apps, CycleDone
<1> HIDE DEF c
<1>3. TypesOf(m, c, b, l)
  BY <1>1, <1>2 DEF Sound, TypesOf
<1>4. DocumentsSent(m, c, b)
  BY <1>2, Zenon DEF Sound, DocumentsSent
<1>5. PartsSent(m, c, b, l)
  BY <1>2 DEF PartsSent
<1>6. AllSent(m, c, b, l)
  <2> SUFFICES ASSUME m.state = "connected", a.captured = Generations(l), NEW e \in Entities
               PROVE  Shows(m, b, l, e)
    BY <1>2 DEF AllSent
  <2>1. \A i \in 1..3 : Shows(m, b, l, EntityAt[i])
    BY DEF Sound, PartsSent
  <2>2. \E i \in 1..3 : e = EntityAt[i]
    <3>1. EntityAt[1] = "light" /\ EntityAt[2] = "first" /\ EntityAt[3] = "last"
      BY DEF EntityAt
    <3> QED BY <3>1 DEF Entities
  <2> QED BY <2>1, <2>2
<1> QED BY <1>3, <1>4, <1>5, <1>6 DEF Sound, c
-----------------------------------------------------------------------------
(***************************************************************************)
(* Sending, whatever comes of it.                                          *)
(***************************************************************************)
LEMMA Written ==
    /\ Online \in Messages /\ Online.kind = "online"
    /\ \A e \in Entities :
         /\ Document(e) \in Messages /\ Document(e).kind = "doc" /\ Document(e).of = e
         /\ Subscription(e) \in Messages /\ Subscription(e).kind = "sub"
         /\ Subscription(e).of = e
<1>1. Online \in Messages /\ Online.kind = "online"
  <2>1. Online = [kind |-> "online", of |-> "device", value |-> <<>>]
    BY Zenon DEF Online
  <2> QED BY <2>1 DEF Messages
<1>2. ASSUME NEW e \in Entities
      PROVE  /\ Document(e) \in Messages /\ Document(e).kind = "doc" /\ Document(e).of = e
             /\ Subscription(e) \in Messages /\ Subscription(e).kind = "sub"
             /\ Subscription(e).of = e
  <2>1. /\ Document(e) = [kind |-> "doc", of |-> e, value |-> <<>>]
        /\ Subscription(e) = [kind |-> "sub", of |-> e, value |-> <<>>]
    BY Zenon DEF Document, Subscription
  <2> QED BY <2>1 DEF Messages
<1> QED BY <1>1, <1>2

LEMMA StateWritten ==
    ASSUME lamp \in Lamps, NEW e \in Entities
    PROVE  /\ StateOf(e) \in Messages /\ StateOf(e).kind = "state" /\ StateOf(e).of = e
           /\ StateOf(e).value = ValueOf(lamp, e)
<1> DEFINE v == Value(e)
<1>1. v = ValueOf(lamp, e) /\ v \in Values
  BY ValueIs, ValueOfLamp
<1>2. StateOf(e) = [kind |-> "state", of |-> e, value |-> v]
  BY Zenon DEF StateOf
<1> HIDE DEF v
<1> QED BY <1>1, <1>2 DEF Messages

LEMMA OutcomesAre ==
    ASSUME NEW m, NEW x, NEW r \in Outcomes(m, x)
    PROVE  \/ CanSend(m) /\ r.m = Sent(m, x) /\ r.taken
           \/ MayRefuse(m, x.kind \in {"sub", "online"}) /\ r.m = m /\ ~r.taken
<1>1. CASE CanSend(m) /\ r = [m |-> Sent(m, x), taken |-> TRUE]
  BY <1>1
<1>2. CASE MayRefuse(m, x.kind \in {"sub", "online"}) /\ r = [m |-> m, taken |-> FALSE]
  BY <1>2
<1> QED BY <1>1, <1>2, Zenon DEF Outcomes

LEMMA OutcomeSound ==
    ASSUME NEW m, NEW a, NEW b, NEW l, Sound(m, a, b, l),
           NEW x \in Messages,
           x.kind = "state" => x.value = ValueOf(l, x.of),
           x.kind = "online" => Entities \subseteq Docs(m, b),
           NEW r \in Outcomes(m, x)
    PROVE  /\ Sound(r.m, a, b, l) /\ r.m.state = m.state /\ r.m.client = m.client
           /\ Docs(m, b) \subseteq Docs(r.m, b)
           /\ (r.taken /\ x.kind = "doc") => x.of \in Docs(r.m, b)
           /\ (r.taken /\ x.kind = "state") => Shows(r.m, b, l, x.of)
<1>1. CASE CanSend(m) /\ r.m = Sent(m, x) /\ r.taken
  <2>1. m \in Sessions
    BY DEF Sound, TypesOf
  <2>2. Sound(Sent(m, x), a, b, l)
    BY <1>1, SendSound
  <2>3. Sent(m, x).state = m.state /\ Sent(m, x).client = m.client
    BY <2>1, SentIs
  <2>4. /\ Docs(m, b) \subseteq Docs(Sent(m, x), b)
        /\ x.kind = "doc" => x.of \in Docs(Sent(m, x), b)
        /\ x.kind = "state" => Newest(Sent(m, x).wire, x.of, b.shown[x.of]) = x.value
    BY <2>1, SentTells
  <2> QED BY <1>1, <2>2, <2>3, <2>4, Zenon DEF Shows
<1>2. CASE r.m = m /\ ~r.taken
  BY <1>2
<1> QED BY <1>1, <1>2, OutcomesAre

\* A subscription that is refused, in a session that has them, is no loss.
LEMMA SubscribeSound ==
    ASSUME NEW m, NEW a, NEW b, NEW l, Sound(m, a, b, l), NEW n \in SubscribeAll(m)
    PROVE  Sound(n, a, b, l)
<1>1. PICK r1 \in Outcomes(m, Subscription("light")) :
        \E r2 \in Outcomes(r1.m, Subscription("first")) :
          \E r3 \in Outcomes(r2.m, Subscription("last")) : n = r3.m
  BY Zenon DEF SubscribeAll
<1>2. PICK r2 \in Outcomes(r1.m, Subscription("first")) :
          \E r3 \in Outcomes(r2.m, Subscription("last")) : n = r3.m
  BY <1>1
<1>3. PICK r3 \in Outcomes(r2.m, Subscription("last")) : n = r3.m
  BY <1>2
<1>4. \A e \in Entities : Subscription(e) \in Messages /\ Subscription(e).kind = "sub"
  BY Written
<1>5. "light" \in Entities /\ "first" \in Entities /\ "last" \in Entities
  BY DEF Entities
<1>6. \A e \in Entities : /\ Subscription(e).kind # "state"
                          /\ Subscription(e).kind # "online"
  BY <1>4
<1>7. Sound(r1.m, a, b, l)
  BY <1>4, <1>5, <1>6, OutcomeSound
<1>8. Sound(r2.m, a, b, l)
  BY <1>4, <1>5, <1>6, <1>7, OutcomeSound
<1>9. Sound(r3.m, a, b, l)
  BY <1>4, <1>5, <1>6, <1>8, OutcomeSound
<1> QED BY <1>3, <1>9

\* A new session has room for the three subscriptions, and announces.
LEMMA AcceptSound ==
    ASSUME NEW m, NEW a, NEW b, NEW l, Sound(m, a, b, l),
           NEW o \in Sessions, o.wire = <<>>, o.state = "connected", o.client = "up",
           NEW n \in SubscribeAll(o)
    PROVE  Sound(n, Announcing(a), b, l)
<1> DEFINE s1 == Subscription("light")
           s2 == Subscription("first")
           s3 == Subscription("last")
<1>1. PICK r1 \in Outcomes(o, s1) :
        \E r2 \in Outcomes(r1.m, s2) : \E r3 \in Outcomes(r2.m, s3) : n = r3.m
  BY Zenon DEF SubscribeAll
<1>2. PICK r2 \in Outcomes(r1.m, s2) : \E r3 \in Outcomes(r2.m, s3) : n = r3.m
  BY <1>1
<1>3. PICK r3 \in Outcomes(r2.m, s3) : n = r3.m
  BY <1>2
<1>4. /\ s1 \in Messages /\ s1.kind = "sub" /\ s1.of = "light"
      /\ s2 \in Messages /\ s2.kind = "sub" /\ s2.of = "first"
      /\ s3 \in Messages /\ s3.kind = "sub" /\ s3.of = "last"
  <2>1. "light" \in Entities /\ "first" \in Entities /\ "last" \in Entities
    BY DEF Entities
  <2> QED BY <2>1, Written
<1> HIDE DEF s1, s2, s3
<1>5. /\ s1.kind \in {"sub", "online"} /\ s2.kind \in {"sub", "online"}
      /\ s3.kind \in {"sub", "online"}
  BY <1>4
<1>6. MaxInFlight \in Nat /\ MaxInFlight >= 3
  BY MqttAssumption, HomeAssumption
<1>7. Len(o.wire) = 0
  OBVIOUS
<1>8. CanSend(o) /\ ~MayRefuse(o, s1.kind \in {"sub", "online"})
  <2>1. CanSend(o)
    BY <1>6, <1>7 DEF CanSend
  <2> QED BY <1>5, <2>1, Zenon DEF MayRefuse
<1>9. r1.m = Sent(o, s1)
  BY <1>8, OutcomesAre
<1>10. /\ r1.m \in Sessions /\ r1.m.state = "connected" /\ r1.m.client = "up"
       /\ Len(r1.m.wire) = 1
  <2>1. /\ Sent(o, s1) \in Sessions /\ Sent(o, s1).state = o.state
        /\ Sent(o, s1).client = o.client
        /\ Len(Sent(o, s1).wire) = Len(o.wire) + 1
    BY <1>4, SentIs
  <2>2. Len(o.wire) + 1 = 1
    BY <1>7
  <2> QED BY <1>9, <2>1, <2>2, Zenon
<1>11. CanSend(r1.m) /\ ~MayRefuse(r1.m, s2.kind \in {"sub", "online"})
  <2>1. CanSend(r1.m)
    BY <1>6, <1>10 DEF CanSend
  <2> QED BY <1>5, <2>1, Zenon DEF MayRefuse
<1>12. r2.m = Sent(r1.m, s2)
  BY <1>11, OutcomesAre
<1>13. /\ r2.m \in Sessions /\ r2.m.state = "connected" /\ r2.m.client = "up"
       /\ Len(r2.m.wire) = 2
  <2>1. /\ Sent(r1.m, s2) \in Sessions /\ Sent(r1.m, s2).state = r1.m.state
        /\ Sent(r1.m, s2).client = r1.m.client
        /\ Len(Sent(r1.m, s2).wire) = Len(r1.m.wire) + 1
    BY <1>4, <1>10, SentIs
  <2>2. Len(r1.m.wire) + 1 = 2
    BY <1>10
  <2> QED BY <1>12, <1>10, <2>1, <2>2, Zenon
<1>14. CanSend(r2.m) /\ ~MayRefuse(r2.m, s3.kind \in {"sub", "online"})
  <2>1. CanSend(r2.m)
    BY <1>6, <1>13 DEF CanSend
  <2> QED BY <1>5, <2>1, Zenon DEF MayRefuse
<1>15. n = Sent(r2.m, s3)
  BY <1>3, <1>14, OutcomesAre
<1>16. /\ n \in Sessions /\ n.state = "connected" /\ n.client = "up" /\ Len(n.wire) = 3
  <2>1. /\ Sent(r2.m, s3) \in Sessions /\ Sent(r2.m, s3).state = r2.m.state
        /\ Sent(r2.m, s3).client = r2.m.client
        /\ Len(Sent(r2.m, s3).wire) = Len(r2.m.wire) + 1
    BY <1>4, <1>13, SentIs
  <2>2. Len(r2.m.wire) + 1 = 3
    BY <1>13
  <2> QED BY <1>15, <1>13, <2>1, <2>2, Zenon
<1>17. "light" \in Subs(r1.m, b) /\ Named(r1.m.wire, "online") = Named(o.wire, "online")
  BY <1>4, <1>9, SentTells
<1>18. /\ {"light", "first"} \subseteq Subs(r2.m, b)
       /\ Named(r2.m.wire, "online") = Named(o.wire, "online")
  BY <1>4, <1>10, <1>12, <1>17, SentTells
<1>19. /\ {"light", "first", "last"} \subseteq Subs(n, b)
       /\ Named(n.wire, "online") = Named(o.wire, "online")
  BY <1>4, <1>13, <1>15, <1>18, SentTells
<1>20. Named(o.wire, "online") = {}
  BY DEF Named
<1> DEFINE c == Announcing(a)
<1>21. Sound(m, c, b, l)
  BY AnnouncingSound
<1>22. c.announcing /\ c.step = 0 /\ ~c.publishing
  BY AppTypes DEF Announcing, Apps
<1> HIDE DEF c
<1>23. TypesOf(n, c, b, l)
  BY <1>6, <1>16, <1>21 DEF Sound, TypesOf
<1>24. SessionShape(n)
  BY <1>16 DEF SessionShape
<1>25. Subscribed(n, b)
  BY <1>19 DEF Subscribed, Entities
<1>26. DocumentsSent(n, c, b)
  BY <1>22 DEF DocumentsSent
<1>27. OnlineIsLast(n, b)
  BY <1>19, <1>20, Zenon DEF OnlineIsLast
<1>28. PartsSent(n, c, b, l)
  BY <1>22, Zenon DEF PartsSent
<1>29. AllSent(n, c, b, l)
  BY <1>22 DEF AllSent
<1>30. OnlineIsTrue(b)
  BY DEF Sound
<1> QED BY <1>23, <1>24, <1>25, <1>26, <1>27, <1>28, <1>29, <1>30, Zenon DEF Sound, c
-----------------------------------------------------------------------------
(***************************************************************************)
(* The polls of a pass, on a pair of a session and an application.         *)
(***************************************************************************)
Pairs == [m : Sessions, a : Apps]

LEMMA PublishStateSound ==
    ASSUME NEW m, NEW a, NEW b, Sound(m, a, b, lamp)
    PROVE  /\ Sound(m, PublishState(a), b, lamp) /\ PublishState(a).step = a.step
           /\ mqtt.state = "connected" => PublishState(a).publishing
<1> DEFINE c == [a EXCEPT !.publishing = TRUE, !.part = 0, !.captured = Generations(lamp)]
<1>1. Sound(m, c, b, lamp)
  BY CycleSound
<1>2. a \in Apps
  BY AppTypes
<1>3. c.publishing /\ c.step = a.step
  BY <1>2 DEF Apps
<1> HIDE DEF c
<1>4. PublishState(a) = IF mqtt.state # "connected" \/ a.publishing THEN a ELSE c
  BY Zenon DEF PublishState, c
<1> QED BY <1>1, <1>3, <1>4, Zenon

\* poll_announcement: each step waits for the one before it to have been taken.
LEMMA PollAnnouncementSound ==
    ASSUME NEW b, Sound(mqtt, app, b, lamp),
           NEW t \in PollAnnouncement([m |-> mqtt, a |-> app])
    PROVE  Sound(t.m, t.a, b, lamp) /\ t.m.state = mqtt.state /\ t \in Pairs
<1> DEFINE s == [m |-> mqtt, a |-> app]
<1>1. s \in Pairs /\ s.m = mqtt /\ s.a = app /\ app \in Apps /\ mqtt \in Sessions
  BY DEF Sound, TypesOf, Pairs
<1>2. SUFFICES Sound(t.m, t.a, b, lamp) /\ t.m.state = mqtt.state /\ t = [m |-> t.m, a |-> t.a]
  BY DEF Sound, TypesOf, Pairs
<1> HIDE DEF s
<1>3. CASE ~app.announcing \/ mqtt.state # "connected"
  <2>1. t = s
    BY <1>1, <1>3, Zenon DEF PollAnnouncement, s
  <2> QED BY <1>1, <2>1 DEF s
<1>4. CASE app.announcing /\ mqtt.state = "connected" /\ app.step < 4
  <2> DEFINE message == IF app.step = 3 THEN Online ELSE Document(EntityAt[app.step + 1])
  <2>1. PollAnnouncement(s) = {[m |-> r.m, a |-> Announced(app, r.taken)] : r \in Outcomes(mqtt, message)}
    BY <1>1, <1>4, Zenon DEF PollAnnouncement
  <2>2. PICK r \in Outcomes(mqtt, message) : t = [m |-> r.m, a |-> Announced(app, r.taken)]
    BY <2>1, Zenon DEF s
  <2>3. /\ message \in Messages /\ message.kind # "state"
        /\ message.kind = "online" => app.step = 3
        /\ app.step < 3 => message.kind = "doc" /\ message.of = EntityAt[app.step + 1]
    <3>1. app.step \in 0..5
      BY <1>1 DEF Apps
    <3>2. CASE app.step = 3
      BY <3>2, Written
    <3>3. CASE app.step # 3
      <4>1. EntityAt[app.step + 1] \in Entities /\ app.step < 3
        BY <1>4, <3>1, <3>3 DEF EntityAt, Entities
      <4>2. message = Document(EntityAt[app.step + 1])
        BY <3>3
      <4> HIDE DEF message
      <4>3. message.kind = "doc" /\ message \in Messages /\ message.of = EntityAt[app.step + 1]
        BY <4>1, <4>2, Written
      <4> QED BY <3>3, <4>3
    <3> QED BY <3>2, <3>3
  <2> HIDE DEF message
  <2>4. mqtt.client = "up"
    BY <1>4 DEF Sound, SessionShape
  <2>5. \A i \in 1..3 : i <= app.step => EntityAt[i] \in Docs(mqtt, b)
    BY <1>4, <2>4 DEF Sound, DocumentsSent
  <2>6. message.kind = "online" => Entities \subseteq Docs(mqtt, b)
    <3> SUFFICES ASSUME app.step = 3 PROVE Entities \subseteq Docs(mqtt, b)
      BY <2>3
    <3>1. EntityAt[1] \in Docs(mqtt, b) /\ EntityAt[2] \in Docs(mqtt, b)
          /\ EntityAt[3] \in Docs(mqtt, b)
      BY <2>5
    <3>2. EntityAt[1] = "light" /\ EntityAt[2] = "first" /\ EntityAt[3] = "last"
      BY DEF EntityAt
    <3> QED BY <3>1, <3>2 DEF Entities
  <2>7. /\ Sound(r.m, app, b, lamp) /\ r.m.state = mqtt.state
        /\ Docs(mqtt, b) \subseteq Docs(r.m, b)
        /\ (r.taken /\ message.kind = "doc") => message.of \in Docs(r.m, b)
    BY <2>2, <2>3, <2>6, OutcomeSound
  <2>8. Sound(r.m, Announced(app, r.taken), b, lamp)
    <3>1. CASE ~r.taken
      BY <2>7, <3>1 DEF Announced
    <3>2. CASE r.taken
      <4> DEFINE n == app.step + 1
      <4>1. n \in 0..5 /\ n # 5 /\ app.step \in 0..3
        BY <1>1, <1>4 DEF Apps
      <4>2. \A i \in 1..3 : i <= n => EntityAt[i] \in Docs(r.m, b)
        <5> SUFFICES ASSUME NEW i \in 1..3, i <= n PROVE EntityAt[i] \in Docs(r.m, b)
          OBVIOUS
        <5>1. CASE i <= app.step
          BY <2>5, <2>7, <5>1
        <5>2. CASE i = app.step + 1
          <6>1. app.step < 3
            BY <4>1, <5>2
          <6> QED BY <2>3, <2>7, <3>2, <5>2, <6>1, Zenon
        <5> QED BY <4>1, <5>1, <5>2
      <4> HIDE DEF n
      <4>3. Sound(r.m, [app EXCEPT !.step = n], b, lamp)
        BY <2>7, <4>1, <4>2, StepSound
      <4>4. Announced(app, r.taken) = [app EXCEPT !.step = n]
        BY <3>2, Zenon DEF Announced, n
      <4> QED BY <4>3, <4>4
    <3> QED BY <3>1, <3>2
  <2>9. t.m = r.m /\ t.a = Announced(app, r.taken)
    BY <2>2
  <2> QED BY <2>2, <2>7, <2>8, <2>9, Zenon
<1>5. CASE app.announcing /\ mqtt.state = "connected" /\ app.step = 4
  <2> DEFINE n == PublishState(app)
             c == [n EXCEPT !.step = 5]
  <2>1. PollAnnouncement(s) = {[s EXCEPT !.a = c]}
    BY <1>1, <1>5 DEF PollAnnouncement
  <2>2. Sound(mqtt, n, b, lamp) /\ n.publishing
    BY <1>5, PublishStateSound
  <2>3. \A i \in 1..3 : i <= 5 => EntityAt[i] \in Docs(mqtt, b)
    <3>1. mqtt.client = "up"
      BY <1>5 DEF Sound, SessionShape
    <3> QED BY <1>5, <3>1 DEF Sound, DocumentsSent
  <2> HIDE DEF n
  <2>4. \A k \in 0..5 : k = 5 => Sound(mqtt, [n EXCEPT !.step = k], b, lamp)
    BY <2>2, <2>3, StepSound
  <2>5. Sound(mqtt, c, b, lamp)
    <3>1. 5 \in 0..5
      OBVIOUS
    <3> QED BY <2>4, <3>1, Zenon
  <2> HIDE DEF c
  <2>6. t = [s EXCEPT !.a = c]
    BY <2>1, Zenon DEF s
  <2>7. t.m = mqtt /\ t.a = c /\ t = [m |-> mqtt, a |-> c]
    BY <2>6 DEF s
  <2> QED BY <2>5, <2>7, Zenon
<1>6. CASE app.announcing /\ mqtt.state = "connected" /\ app.step = 5
  <2> DEFINE c == [app EXCEPT !.announcing = app.publishing]
  <2>1. PollAnnouncement(s) = {[s EXCEPT !.a.announcing = s.a.publishing]}
    BY <1>1, <1>6 DEF PollAnnouncement
  <2>2. Sound(mqtt, c, b, lamp)
    BY <1>6, EndSound
  <2> HIDE DEF c
  <2>3. [s EXCEPT !.a.announcing = s.a.publishing] = [m |-> mqtt, a |-> c]
    <3> DEFINE p == app.publishing
    <3>1. s = [m |-> mqtt, a |-> app] /\ s.a.publishing = p /\ s.a = app
      BY <1>1 DEF s
    <3>2. c = [app EXCEPT !.announcing = p]
      BY DEF c
    <3> HIDE DEF p
    <3>3. [s EXCEPT !.a.announcing = p] = [s EXCEPT !.a = [s.a EXCEPT !.announcing = p]]
      OBVIOUS
    <3>4. [s EXCEPT !.a = c] = [m |-> mqtt, a |-> c]
      BY <3>1
    <3> QED BY <3>1, <3>2, <3>3, <3>4, Zenon
  <2>4. t = [m |-> mqtt, a |-> c]
    BY <2>1, <2>3, Zenon DEF s
  <2>5. t.m = mqtt /\ t.a = c
    BY <2>4
  <2> QED BY <2>2, <2>4, <2>5, Zenon
<1> QED
  <2>1. app.step \in 0..5
    BY <1>1 DEF Apps
  <2>2. app.step < 4 \/ app.step = 4 \/ app.step = 5
    BY <2>1
  <2> QED BY <1>3, <1>4, <1>5, <1>6, <2>2, Zenon
\* poll_state_publish: a part of the cycle, or its end.
LEMMA PollStatePublishSound ==
    ASSUME NEW b, NEW t \in Pairs, Sound(t.m, t.a, b, lamp),
           NEW s \in PollStatePublish(t)
    PROVE  Sound(s.m, s.a, b, lamp) /\ s.m.state = t.m.state
<1> DEFINE m == t.m
           a == t.a
<1>1. t = [m |-> m, a |-> a] /\ a \in Apps /\ lamp \in Lamps
  BY DEF Pairs, Sound, TypesOf
<1>2. CASE ~a.publishing \/ m.state # "connected"
  <2>1. s = t
    BY <1>2, Zenon DEF PollStatePublish
  <2> QED BY <2>1
<1>3. CASE a.publishing /\ m.state = "connected" /\ a.part < 3
  <2> DEFINE x == StateOf(EntityAt[a.part + 1])
             after(r) == [a EXCEPT !.part = IF r.taken THEN @ + 1 ELSE @]
  <2>1. PollStatePublish(t) = {[m |-> r.m, a |-> after(r)] : r \in Outcomes(m, x)}
    BY <1>3, Zenon DEF PollStatePublish
  <2>2. PICK r \in Outcomes(m, x) : s = [m |-> r.m, a |-> after(r)]
    BY <2>1, Zenon
  <2>3. /\ x \in Messages /\ x.kind = "state" /\ x.of = EntityAt[a.part + 1]
        /\ x.value = ValueOf(lamp, x.of)
    <3>1. EntityAt[a.part + 1] \in Entities
      <4>1. a.part \in 0..2
        BY <1>1, <1>3 DEF Apps
      <4> QED BY <4>1 DEF EntityAt, Entities
    <3> QED BY <1>1, <3>1, StateWritten
  <2>4. x.kind # "online"
    BY <2>3
  <2> HIDE DEF x
  <2>5. /\ Sound(r.m, a, b, lamp) /\ r.m.state = m.state
        /\ r.taken => Shows(r.m, b, lamp, EntityAt[a.part + 1])
    <3>1. /\ Sound(r.m, a, b, lamp) /\ r.m.state = m.state
          /\ (r.taken /\ x.kind = "state") => Shows(r.m, b, lamp, x.of)
      BY <2>2, <2>3, <2>4, OutcomeSound
    <3> QED BY <2>3, <3>1, Zenon
  <2>6. Sound(r.m, after(r), b, lamp)
    <3>1. CASE r.taken
      <4>1. Sound(r.m, [a EXCEPT !.part = @ + 1], b, lamp)
        BY <1>3, <2>5, <3>1, PartSound
      <4> QED BY <3>1, <4>1
    <3>2. CASE ~r.taken
      <4>1. after(r) = a
        BY <1>1, <3>2 DEF Apps
      <4> QED BY <2>5, <4>1
    <3> QED BY <3>1, <3>2
  <2>7. s.m = r.m /\ s.a = after(r)
    BY <2>2
  <2> QED BY <2>5, <2>6, <2>7, Zenon
<1>4. CASE a.publishing /\ m.state = "connected" /\ a.part = 3
  <2> DEFINE c == CycleDone(a)
  <2>1. PollStatePublish(t) = {[t EXCEPT !.a = c]}
    BY <1>4 DEF PollStatePublish
  <2>2. Sound(m, c, b, lamp)
    BY <1>4, CycleDoneSound
  <2> HIDE DEF c, m, a
  <2>3. s = [t EXCEPT !.a = c]
    BY <2>1, Zenon
  <2>4. s.m = m /\ s.a = c
    BY <1>1, <2>3
  <2> QED BY <2>2, <2>4, Zenon DEF m
<1> QED
  <2>1. a.part < 3 \/ a.part = 3
    BY <1>1 DEF Apps
  <2> QED BY <1>2, <1>3, <1>4, <2>1, Zenon

LEMMA UsedIs ==
    ASSUME used \in Uses, used' = used \/ ACommand \/ AMishap
    PROVE  used' \in Uses
<1>1. CASE used' = used
  BY <1>1
<1>2. CASE ACommand
  <2> DEFINE n == used.commands + 1
  <2>1. n \in Nat /\ used' = [used EXCEPT !.commands = n]
    BY <1>2 DEF ACommand, Uses
  <2> HIDE DEF n
  <2> QED BY <2>1 DEF Uses
<1>3. CASE AMishap
  <2> DEFINE n == used.mishaps + 1
  <2>1. n \in Nat /\ used' = [used EXCEPT !.mishaps = n]
    BY <1>3 DEF AMishap, Uses
  <2> HIDE DEF n
  <2> QED BY <2>1 DEF Uses
<1> QED BY <1>1, <1>2, <1>3

\* The end of a pass: a cycle may begin, and what is saved is the lamp as it is.
LEMMA LoopEndSound ==
    ASSUME NEW m, NEW a, NEW b, Sound(m, a, b, lamp), LoopEnd(a),
           flash \in Flashes, used \in Uses
    PROVE  Sound(m, app', b, lamp) /\ flash' \in Flashes /\ used' \in Uses
<1> DEFINE seen == [a EXCEPT !.seen = Generations(lamp)]
<1>1. a \in Apps /\ Generations(lamp) \in Nat \X Nat /\ lamp \in Lamps
  BY AppTypes DEF Sound, TypesOf
<1>2. Sound(m, seen, b, lamp)
  <2>1. Sound(m, [a EXCEPT !.saved = a.saved, !.seen = Generations(lamp)], b, lamp)
    BY <1>1, NoteSound
  <2>2. [a EXCEPT !.saved = a.saved, !.seen = Generations(lamp)] = seen
    BY <1>1 DEF Apps
  <2> QED BY <2>1, <2>2
<1>3. PICK told \in {seen, PublishState(seen)} :
          \/ app' = told /\ UNCHANGED <<flash, used>>
          \/ app' = Saved(told) /\ flash' = Stored(lamp.light, lamp.range) /\ UNCHANGED used
          \/ app' = FailedSave(told) /\ AMishap /\ UNCHANGED flash
  BY Zenon DEF LoopEnd
<1> HIDE DEF seen
<1>4. Sound(m, told, b, lamp)
  <2>1. Sound(m, PublishState(seen), b, lamp)
    BY <1>2, PublishStateSound
  <2> QED BY <1>2, <1>3, <2>1
<1>5. Sound(m, Saved(told), b, lamp)
  <2>1. told \in Apps
    BY <1>4, AppTypes
  <2>2. told.seen \in Nat \X Nat
    BY <2>1 DEF Apps
  <2>3. Sound(m, [told EXCEPT !.saved = Generations(lamp), !.seen = told.seen], b, lamp)
    BY <1>1, <1>4, <2>2, NoteSound
  <2>4. [told EXCEPT !.saved = Generations(lamp), !.seen = told.seen] = Saved(told)
    BY <1>1, <2>1 DEF Apps, Saved
  <2> QED BY <2>3, <2>4
<1>6. Stored(lamp.light, lamp.range) \in Flashes
  BY <1>1, StoredIs
<1>7. app' = told \/ app' = Saved(told)
  BY <1>3 DEF FailedSave
<1>8. used' \in Uses
  BY <1>3, UsedIs
<1>9. flash' \in Flashes
  BY <1>3, <1>6
<1> QED BY <1>4, <1>5, <1>7, <1>8, <1>9, Zenon

-----------------------------------------------------------------------------
(***************************************************************************)
(* The links under it.                                                     *)
(***************************************************************************)
Wifis == [state : WifiStates, attempts : 0..AttemptsBound]

LEMMA RetryIs ==
    ASSUME NEW n \in 0..AttemptsBound PROVE RetryFail(n) \in 0..AttemptsBound
BY AttemptsAssumption DEF RetryFail

LEMMA WifiFailure ==
    ASSUME NEW w \in Wifis PROVE AfterFailure(w) \in Wifis
<1> DEFINE n == RetryFail(w.attempts)
<1>1. n \in 0..AttemptsBound
  BY RetryIs DEF Wifis
<1>2. AfterFailure(w) = IF RetryExhausted(w.attempts) THEN [w EXCEPT !.state = "gave_up"]
                        ELSE [w EXCEPT !.state = "waiting", !.attempts = n]
  BY Zenon DEF AfterFailure
<1> HIDE DEF n
<1> QED BY <1>1, <1>2 DEF Wifis, WifiStates

LEMMA SessionFailure ==
    ASSUME NEW m \in Sessions
    PROVE  /\ AfterFailure(m) \in Sessions /\ AfterFailure(m).wire = m.wire
           /\ AfterFailure(m).client = m.client /\ AfterFailure(m).state # "connected"
<1> DEFINE n == RetryFail(m.attempts)
<1>1. n \in 0..AttemptsBound
  BY RetryIs DEF Sessions
<1>2. AfterFailure(m) = IF RetryExhausted(m.attempts) THEN [m EXCEPT !.state = "gave_up"]
                        ELSE [m EXCEPT !.state = "waiting", !.attempts = n]
  BY Zenon DEF AfterFailure
<1> HIDE DEF n
<1> QED BY <1>1, <1>2 DEF Sessions, MqttStates

Links == {"down", "joining", "slow", "up", "bad"}

LEMMA AttemptIs ==
    ASSUME NEW w \in Wifis, NEW refused \in Wifis, WifiAttempt(w, refused), link \in Links
    PROVE  wifi' \in Wifis /\ link' \in Links
BY DEF WifiAttempt, Wifis, WifiStates, Links

\* An attempt leaves what is under way alone, and is not a session yet.
LEMMA MqttAttemptIs ==
    ASSUME NEW m \in Sessions, MqttAttempt(m), lookups \in 0..MaxLookups
    PROVE  /\ mqtt' \in Sessions /\ mqtt'.wire = m.wire
           /\ mqtt'.client = "up" <=> m.client = "up"
           /\ mqtt'.state # "connected" /\ lookups' \in 0..MaxLookups
<1>1. CASE mqtt' = AfterFailure(m) /\ UNCHANGED lookups
  BY <1>1, SessionFailure
<1>2. CASE /\ m.client = "idle" /\ UNCHANGED lookups
           /\ mqtt' = [m EXCEPT !.client = "connecting", !.state = "connecting"]
  BY <1>2 DEF Sessions, MqttStates
<1>3. CASE /\ lookups < MaxLookups /\ lookups' = lookups + 1
           /\ mqtt' = [m EXCEPT !.state = "resolving"]
  <2>1. mqtt' \in Sessions /\ mqtt'.wire = m.wire /\ mqtt'.client = m.client
        /\ mqtt'.state = "resolving"
    BY <1>3 DEF Sessions, MqttStates
  <2>2. lookups' \in 0..MaxLookups
    BY <1>3, MqttAssumption
  <2> QED BY <2>1, <2>2
<1> QED BY <1>1, <1>2, <1>3, Zenon DEF MqttAttempt, StartConnect

LEMMA StartConnectIs ==
    ASSUME NEW m \in Sessions, StartConnect(m)
    PROVE  /\ mqtt' \in Sessions /\ mqtt'.wire = m.wire
           /\ mqtt'.client = "up" <=> m.client = "up"
           /\ mqtt'.state # "connected"
<1>1. CASE mqtt' = AfterFailure(m)
  BY <1>1, SessionFailure
<1>2. CASE /\ m.client = "idle"
           /\ mqtt' = [m EXCEPT !.client = "connecting", !.state = "connecting"]
  BY <1>2 DEF Sessions, MqttStates
<1> QED BY <1>1, <1>2, Zenon DEF StartConnect

LEMMA ConnectBothIs ==
    ASSUME IInv, ConnectBoth
    PROVE  /\ Sound(mqtt', app, broker, lamp)
           /\ wifi' \in Wifis /\ link' \in Links /\ lookups' \in 0..MaxLookups
<1>1. /\ Sound(mqtt, app, broker, lamp) /\ mqtt \in Sessions
      /\ wifi \in Wifis /\ link \in Links /\ lookups \in 0..MaxLookups
  BY DEF IInv, Sound, TypesOf, WifiTypeOK, Wifis, Links
<1>2. wifi' \in Wifis /\ link' \in Links
  <2> DEFINE fresh == [wifi EXCEPT !.attempts = 0]
  <2>1. fresh \in Wifis
    BY <1>1, AttemptsAssumption DEF Wifis
  <2>2. WifiAttempt(fresh, fresh)
    BY Zenon DEF ConnectBoth, WifiConnectCall
  <2> HIDE DEF fresh
  <2> QED BY <1>1, <2>1, <2>2, AttemptIs
<1>3. CASE UNCHANGED <<mqtt, lookups>>
  BY <1>1, <1>2, <1>3
<1>4. CASE MqttConnectCall
  <2> DEFINE m == [mqtt EXCEPT !.attempts = 0]
  <2>1. m \in Sessions /\ m.wire = mqtt.wire /\ m.client = mqtt.client
    BY <1>1, AttemptsAssumption DEF Sessions
  <2>2. MqttAttempt(m)
    BY <1>4 DEF MqttConnectCall
  <2> HIDE DEF m
  <2>3. /\ mqtt' \in Sessions /\ mqtt'.wire = m.wire
        /\ mqtt'.client = "up" <=> m.client = "up"
        /\ mqtt'.state # "connected" /\ lookups' \in 0..MaxLookups
    BY <1>1, <2>1, <2>2, MqttAttemptIs
  <2>4. Sound(mqtt', app, broker, lamp)
    <3>1. mqtt'.wire = mqtt.wire /\ (mqtt'.client = "up" <=> mqtt.client = "up")
      BY <2>1, <2>3
    <3> QED BY <1>1, <2>3, <3>1, QuietSound
  <2> QED BY <1>2, <2>3, <2>4
<1> QED BY <1>3, <1>4, Zenon DEF ConnectBoth

-----------------------------------------------------------------------------
(***************************************************************************)
(* One step of each.                                                       *)
(***************************************************************************)
LEMMA NetStartSound == ASSUME IInv, NetStart PROVE IInv'
<1>1. ConnectBoth /\ pc' = "console" /\ UNCHANGED <<lamp, app, flash, broker, used>>
  BY DEF NetStart
<1>2. /\ Sound(mqtt', app, broker, lamp)
      /\ wifi' \in Wifis /\ link' \in Links /\ lookups' \in 0..MaxLookups
  BY <1>1, ConnectBothIs
<1> QED BY <1>1, <1>2 DEF IInv, WifiTypeOK, Wifis, Links

LEMMA ConsoleLampSound == ASSUME IInv, ConsoleLamp PROVE IInv'
<1>1. PICK c \in Command : Apply(c)
  BY DEF ConsoleLamp
<1>2. lamp \in Lamps /\ Sound(mqtt, app, broker, lamp) /\ used \in Uses
  BY DEF IInv, Sound, TypesOf, Uses
<1>3. Sound(mqtt, app, broker, lamp')
  <2>1. /\ lamp' \in Lamps
        /\ \/ lamp' = lamp
           \/ /\ Generations(lamp') # Generations(lamp)
              /\ Generations(lamp')[1] >= Generations(lamp)[1]
              /\ Generations(lamp')[2] >= Generations(lamp)[2]
    BY <1>1, <1>2, LampGrows DEF Generations
  <2> QED BY <1>2, <2>1, LampSound
<1>4. used' \in Uses
  BY <1>2, UsedIs DEF ConsoleLamp
<1>5. pc' = "link" /\ UNCHANGED <<wifi, link, mqtt, lookups, app, flash, broker>>
  BY DEF ConsoleLamp
<1> QED BY <1>3, <1>4, <1>5 DEF IInv, WifiTypeOK, Uses

LEMMA ConsoleConnectSound == ASSUME IInv, ConsoleConnect PROVE IInv'
<1>1. ConnectBoth /\ pc' = "link" /\ UNCHANGED <<lamp, app, flash, broker>> /\ AMishap
  BY DEF ConsoleConnect
<1>2. /\ Sound(mqtt', app, broker, lamp)
      /\ wifi' \in Wifis /\ link' \in Links /\ lookups' \in 0..MaxLookups
  BY <1>1, ConnectBothIs
<1>3. used' \in Uses
  BY <1>1, UsedIs DEF IInv, Uses
<1> QED BY <1>1, <1>2, <1>3 DEF IInv, WifiTypeOK, Wifis, Links, Uses

\* The broker without the client: no session, nothing under way.
LEMMA GoneSound ==
    ASSUME NEW m, NEW a, NEW b, NEW l, Sound(m, a, b, l), NEW c \in Brokers,
           NEW n \in Sessions, n.client # "up", n.state # "connected", n.wire = <<>>
    PROVE  Sound(n, a, Gone(c), l)
<1> DEFINE no == FALSE
           none == {}
           d == [c EXCEPT !.online = no, !.subs = none]
<1>1. no \in BOOLEAN /\ none \subseteq Entities /\ ~no
  OBVIOUS
<1> HIDE DEF no, none
<1>2. d \in Brokers /\ d.online = no
  BY <1>1 DEF Brokers
<1> HIDE DEF d
<1>3. ~d.online
  BY <1>1, <1>2
<1>4. /\ a \in Apps /\ l \in Lamps
      /\ NotAhead(a.captured, l) /\ NotAhead(a.published, l) /\ NotAhead(a.saved, l)
  BY DEF Sound, TypesOf
<1>5. Sound(n, a, d, l)
  BY <1>2, <1>3, <1>4, OfflineSound
<1> QED BY <1>5, Zenon DEF Gone, d, no, none

LEMMA UnconnectedIs ==
    ASSUME NEW m \in Sessions
    PROVE  /\ Unconnected(m) \in Sessions /\ Unconnected(m).client = "idle"
           /\ Unconnected(m).wire = <<>> /\ Unconnected(m).state = m.state
<1> DEFINE w == <<>>
           n == [m EXCEPT !.client = "idle", !.wire = w]
<1>1. w \in Seq(Messages)
  OBVIOUS
<1> HIDE DEF w
<1>2. n \in Sessions /\ n.client = "idle" /\ n.wire = w /\ n.state = m.state
  BY <1>1 DEF Sessions
<1> QED BY <1>2, Zenon DEF Unconnected, w

LEMMA ConsoleDisconnectSound == ASSUME IInv, ConsoleDisconnect PROVE IInv'
<1>1. /\ MqttCloseCall /\ WifiDisconnectCall /\ AMishap /\ pc' = "link"
      /\ broker' = Gone(broker) /\ UNCHANGED <<lamp, app, flash>>
  BY DEF ConsoleDisconnect
<1>2. Sound(mqtt, app, broker, lamp) /\ mqtt \in Sessions /\ broker \in Brokers
  BY DEF IInv, Sound, TypesOf
<1>3. /\ mqtt' \in Sessions /\ mqtt'.client # "up" /\ mqtt'.state # "connected"
      /\ mqtt'.wire = <<>> /\ lookups' = lookups
  <2> DEFINE u == Unconnected(mqtt)
  <2>1. u \in Sessions /\ u.client = "idle" /\ u.wire = <<>>
    BY <1>2, UnconnectedIs
  <2> DEFINE none == 0
             idle == "idle"
  <2>2. mqtt' = [u EXCEPT !.state = idle, !.attempts = none] /\ lookups' = lookups
    BY <1>1 DEF MqttCloseCall
  <2>3. none \in 0..AttemptsBound /\ idle \in MqttStates /\ idle # "connected"
    BY AttemptsAssumption DEF MqttStates
  <2> HIDE DEF u, none, idle
  <2>4. /\ mqtt' \in Sessions /\ mqtt'.client = u.client /\ mqtt'.state = idle
        /\ mqtt'.wire = u.wire
    BY <2>1, <2>2, <2>3 DEF Sessions
  <2> QED BY <2>1, <2>2, <2>3, <2>4
<1>4. Sound(mqtt', app, broker', lamp)
  BY <1>1, <1>2, <1>3, GoneSound
<1>5. wifi' \in Wifis /\ link' \in Links
  BY <1>1, AttemptsAssumption DEF WifiDisconnectCall, Wifis, WifiStates, Links
<1>6. used' \in Uses
  BY <1>1, UsedIs DEF IInv, Uses
<1> QED BY <1>1, <1>3, <1>4, <1>5, <1>6 DEF IInv, WifiTypeOK, Wifis, Links, Uses

LEMMA ConsoleAnnounceSound == ASSUME IInv, ConsoleAnnounce PROVE IInv'
<1>1. /\ mqtt' \in SubscribeAll(mqtt) /\ app' = Announcing(app)
      /\ UNCHANGED <<wifi, link, lookups, lamp, flash, broker>>
      /\ AMishap /\ pc' = "link"
  BY DEF ConsoleAnnounce, NetAnnounce
<1>2. Sound(mqtt, app, broker, lamp)
  BY DEF IInv
<1>3. Sound(mqtt', app, broker, lamp)
  BY <1>1, <1>2, SubscribeSound
<1>4. Sound(mqtt', app', broker, lamp)
  BY <1>1, <1>3, AnnouncingSound
<1>5. used' \in Uses
  BY <1>1, UsedIs DEF IInv, Uses
<1> QED BY <1>1, <1>4, <1>5 DEF IInv, WifiTypeOK, Uses

LEMMA ConsoleSaveSound == ASSUME IInv, ConsoleSave PROVE IInv'
<1>1. /\ \/ flash' = Stored(lamp.light, lamp.range) /\ app' = Saved(app)
         \/ UNCHANGED <<flash, app>>
      /\ UNCHANGED <<wifi, link, mqtt, lookups, lamp, broker>>
      /\ AMishap /\ pc' = "link"
  BY DEF ConsoleSave
<1>2. /\ Sound(mqtt, app, broker, lamp) /\ flash \in Flashes /\ lamp \in Lamps
      /\ app \in Apps /\ app.seen \in Nat \X Nat /\ Generations(lamp) \in Nat \X Nat
  BY AppTypes DEF IInv, Sound, TypesOf, Apps
<1>3. Sound(mqtt, Saved(app), broker, lamp)
  <2>1. Sound(mqtt, [app EXCEPT !.saved = Generations(lamp), !.seen = app.seen], broker, lamp)
    BY <1>2, NoteSound
  <2>2. [app EXCEPT !.saved = Generations(lamp), !.seen = app.seen] = Saved(app)
    BY <1>2 DEF Apps, Saved
  <2> QED BY <2>1, <2>2
<1>4. Sound(mqtt, app', broker, lamp)
  BY <1>1, <1>2, <1>3
<1>5. flash' \in Flashes
  BY <1>1, <1>2, StoredIs
<1>6. used' \in Uses
  BY <1>1, UsedIs DEF IInv, Uses
<1> QED BY <1>1, <1>4, <1>5, <1>6 DEF IInv, WifiTypeOK, Uses

LEMMA RadioSound == ASSUME IInv, Radio PROVE IInv'
<1>1. /\ link' \in Links /\ UNCHANGED wifi /\ pc' = "link"
      /\ UNCHANGED <<mqtt, lookups, lamp, app, flash, broker>>
  BY DEF Radio, Linking, RadioJoins, RadioStalls, RadioFails, RadioDrops, Links
<1>2. used' \in Uses
  <2>1. used' = used \/ AMishap
    BY Zenon DEF Radio
  <2> QED BY <2>1, UsedIs DEF IInv, Uses
<1> QED BY <1>1, <1>2 DEF IInv, WifiTypeOK, Links, Uses

LEMMA LookupSound == ASSUME IInv, Lookup PROVE IInv'
<1>1. /\ pc' = "link" /\ UNCHANGED <<wifi, link, lamp, app, flash, broker, used>>
      /\ lookups > 0 /\ lookups' = lookups - 1
      /\ StartConnect(mqtt) \/ mqtt' = AfterFailure(mqtt)
  BY DEF Lookup, Linking, LookupAnswered, LookupFailed
<1>2. /\ Sound(mqtt, app, broker, lamp) /\ mqtt \in Sessions
      /\ lookups \in 0..MaxLookups /\ MaxLookups \in Nat
  BY MqttAssumption DEF IInv, Sound, TypesOf
<1>3. /\ mqtt' \in Sessions /\ mqtt'.wire = mqtt.wire
      /\ mqtt'.client = "up" <=> mqtt.client = "up"
      /\ mqtt'.state # "connected"
  BY <1>1, <1>2, StartConnectIs, SessionFailure
<1>4. Sound(mqtt', app, broker, lamp)
  BY <1>2, <1>3, QuietSound
<1>5. lookups' \in 0..MaxLookups
  BY <1>1, <1>2
<1> QED BY <1>1, <1>4, <1>5 DEF IInv, WifiTypeOK

LEMMA SessionAcceptedSound == ASSUME IInv, SessionAccepted PROVE IInv'
<1>1. /\ pc' = "link" /\ mqtt.client = "connecting"
      /\ mqtt' \in SubscribeAll(AcceptedMqtt) /\ app' = Announcing(app)
      /\ UNCHANGED <<wifi, link, lookups, lamp, flash, broker, used>>
  BY DEF SessionAccepted, Linking, NetAnnounce
<1>2. /\ Sound(mqtt, app, broker, lamp) /\ mqtt \in Sessions /\ mqtt.wire = <<>>
  BY <1>1 DEF IInv, Sound, TypesOf, SessionShape
<1>3. /\ AcceptedMqtt \in Sessions /\ AcceptedMqtt.wire = <<>>
      /\ AcceptedMqtt.state = "connected" /\ AcceptedMqtt.client = "up"
  <2> DEFINE none == 0
             connected == "connected"
             up == "up"
  <2>1. AcceptedMqtt = [mqtt EXCEPT !.state = connected, !.attempts = none, !.client = up]
    BY DEF AcceptedMqtt
  <2>2. /\ none \in 0..AttemptsBound /\ connected \in MqttStates
        /\ up \in {"idle", "connecting", "up"}
    BY AttemptsAssumption DEF MqttStates
  <2> HIDE DEF none, connected, up
  <2>3. /\ AcceptedMqtt \in Sessions /\ AcceptedMqtt.wire = mqtt.wire
        /\ AcceptedMqtt.state = connected /\ AcceptedMqtt.client = up
    BY <1>2, <2>1, <2>2 DEF Sessions
  <2> QED BY <1>2, <2>3 DEF connected, up
<1>4. Sound(mqtt', app', broker, lamp)
  BY <1>1, <1>2, <1>3, AcceptSound
<1> QED BY <1>1, <1>4 DEF IInv, WifiTypeOK

\* What is left of a client without a connection.
LEMMA LeftIs ==
    ASSUME NEW m \in Sessions
    PROVE  LET n == AfterFailure(Unconnected(m))
           IN  n \in Sessions /\ n.client # "up" /\ n.state # "connected" /\ n.wire = <<>>
<1> DEFINE u == Unconnected(m)
<1>1. u \in Sessions /\ u.client = "idle" /\ u.wire = <<>>
  BY UnconnectedIs
<1> HIDE DEF u
<1>2. /\ AfterFailure(u) \in Sessions /\ AfterFailure(u).wire = u.wire
      /\ AfterFailure(u).client = u.client /\ AfterFailure(u).state # "connected"
  BY <1>1, SessionFailure
<1>3. /\ AfterFailure(u) \in Sessions /\ AfterFailure(u).client # "up"
      /\ AfterFailure(u).state # "connected" /\ AfterFailure(u).wire = <<>>
  BY <1>1, <1>2
<1> QED BY <1>3, Zenon DEF u

LEMMA SessionFailsSound == ASSUME IInv, SessionFails PROVE IInv'
<1>1. /\ pc' = "link" /\ mqtt.client = "connecting"
      /\ mqtt' = AfterFailure(Unconnected(mqtt))
      /\ UNCHANGED <<wifi, link, lookups, lamp, app, flash, broker, used>>
  BY DEF SessionFails, Linking, SessionRefused
<1>2. /\ Sound(mqtt, app, broker, lamp) /\ mqtt \in Sessions /\ mqtt.wire = <<>>
  BY <1>1 DEF IInv, Sound, TypesOf, SessionShape
<1>3. /\ mqtt' \in Sessions /\ mqtt'.client # "up" /\ mqtt'.state # "connected"
      /\ mqtt'.wire = <<>>
  BY <1>1, <1>2, LeftIs
<1>4. Sound(mqtt', app, broker, lamp)
  BY <1>1, <1>2, <1>3, QuietSound
<1> QED BY <1>1, <1>4 DEF IInv, WifiTypeOK

LEMMA SessionBreaksSound == ASSUME IInv, SessionBreaks PROVE IInv'
<1>1. /\ pc' = "link" /\ AMishap
      /\ mqtt' = AfterFailure(Unconnected(mqtt))
      /\ \E n \in 0..Len(mqtt.wire) :
           broker' = Gone(ReceivedAll(broker, SubSeq(mqtt.wire, 1, n)))
      /\ UNCHANGED <<wifi, link, lookups, lamp, app, flash>>
  BY DEF SessionBreaks, Linking, SessionLost
<1>2. /\ Sound(mqtt, app, broker, lamp) /\ mqtt \in Sessions
      /\ broker \in Brokers /\ mqtt.wire \in Seq(Messages)
  BY DEF IInv, Sound, TypesOf, Sessions
<1>3. /\ mqtt' \in Sessions /\ mqtt'.client # "up" /\ mqtt'.state # "connected"
      /\ mqtt'.wire = <<>>
  BY <1>1, <1>2, LeftIs
<1>4. PICK n \in 0..Len(mqtt.wire) :
          broker' = Gone(ReceivedAll(broker, SubSeq(mqtt.wire, 1, n)))
  BY <1>1
<1>5. SubSeq(mqtt.wire, 1, n) \in Seq(Messages)
  BY <1>2
<1>6. ReceivedAll(broker, SubSeq(mqtt.wire, 1, n)) \in Brokers
  BY <1>2, <1>5, ReceivedIs
<1>7. Sound(mqtt', app, broker', lamp)
  BY <1>2, <1>3, <1>4, <1>6, GoneSound
<1>8. used' \in Uses
  BY <1>1, UsedIs DEF IInv, Uses
<1> QED BY <1>1, <1>7, <1>8 DEF IInv, WifiTypeOK, Uses

LEMMA DeliversSound == ASSUME IInv, Deliver PROVE IInv'
<1>1. /\ pc' = "link" /\ mqtt.wire # <<>>
      /\ broker' = ReceivedAll(broker, mqtt.wire)
      /\ mqtt' = [mqtt EXCEPT !.wire = <<>>]
      /\ UNCHANGED <<wifi, link, lookups, lamp, app, flash, used>>
  BY DEF Deliver, Linking
<1>2. /\ Sound(mqtt, app, broker, lamp) /\ mqtt \in Sessions /\ mqtt.client = "up"
  BY <1>1 DEF IInv, Sound, TypesOf, SessionShape
<1>3. /\ mqtt' \in Sessions /\ mqtt'.client = "up" /\ mqtt'.state = mqtt.state
      /\ mqtt'.wire = <<>>
  <2> DEFINE w == <<>>
  <2>1. w \in Seq(Messages) /\ mqtt' = [mqtt EXCEPT !.wire = w]
    BY <1>1
  <2> HIDE DEF w
  <2>2. /\ mqtt' \in Sessions /\ mqtt'.client = mqtt.client /\ mqtt'.state = mqtt.state
        /\ mqtt'.wire = w
    BY <1>2, <2>1 DEF Sessions
  <2> QED BY <1>2, <2>2 DEF w
<1>4. Sound(mqtt', app, broker', lamp)
  BY <1>1, <1>2, <1>3, DeliverSound
<1> QED BY <1>1, <1>4 DEF IInv, WifiTypeOK

LEMMA CommandArrivesSound == ASSUME IInv, CommandArrives PROVE IInv'
<1>1. PICK c \in Command : Apply(c)
  BY Zenon DEF CommandArrives, Command
<1>2. lamp \in Lamps /\ Sound(mqtt, app, broker, lamp) /\ used \in Uses
  BY DEF IInv, Sound, TypesOf, Uses
<1>3. Sound(mqtt, app, broker, lamp')
  <2>1. /\ lamp' \in Lamps
        /\ \/ lamp' = lamp
           \/ /\ Generations(lamp') # Generations(lamp)
              /\ Generations(lamp')[1] >= Generations(lamp)[1]
              /\ Generations(lamp')[2] >= Generations(lamp)[2]
    BY <1>1, <1>2, LampGrows DEF Generations
  <2> QED BY <1>2, <2>1, LampSound
<1>4. used' \in Uses
  <2>1. ACommand
    BY DEF CommandArrives
  <2> QED BY <1>2, <2>1, UsedIs
<1>5. pc' = "link" /\ UNCHANGED <<wifi, link, mqtt, lookups, app, flash, broker>>
  BY DEF CommandArrives, Linking
<1> QED BY <1>3, <1>4, <1>5 DEF IInv, WifiTypeOK, Uses

\* After a cut nobody remembers anything but the flash and the broker.
LEMMA PowerCutSound == ASSUME IInv, PowerCut PROVE IInv'
<1>1. /\ pc' = "boot" /\ AMishap
      /\ wifi' = [state |-> "idle", attempts |-> 0] /\ link' = "down"
      /\ mqtt' = [state |-> "idle", attempts |-> 0, client |-> "idle", wire |-> <<>>]
      /\ lookups' = 0 /\ lamp' = Boot(flash) /\ app' = BootApp
      /\ broker' = Gone(broker) /\ UNCHANGED flash
  BY DEF PowerCut
<1>2. /\ wifi' \in Wifis /\ link' \in Links /\ lookups' \in 0..MaxLookups
      /\ AttemptsBound \in Nat
  BY <1>1, AttemptsAssumption, MqttAssumption DEF Wifis, WifiStates, Links
<1>3. /\ mqtt' \in Sessions /\ mqtt'.client # "up" /\ mqtt'.state # "connected"
      /\ mqtt'.wire = <<>>
  BY <1>1, <1>2 DEF Sessions, MqttStates
<1>4. lamp' \in Lamps /\ Generations(lamp') = <<1, 1>>
  BY <1>1, BootIs DEF IInv
<1>5. /\ app' \in Apps /\ app'.captured = <<0, 0>> /\ app'.published = <<1, 1>>
      /\ app'.saved = <<1, 1>>
  BY <1>1 DEF BootApp, Apps
<1>6. /\ NotAhead(app'.captured, lamp') /\ NotAhead(app'.published, lamp')
      /\ NotAhead(app'.saved, lamp')
  BY <1>4, <1>5 DEF NotAhead
<1>7. broker \in Brokers /\ flash \in Flashes
  BY DEF IInv, Sound, TypesOf
<1>8. broker' \in Brokers /\ ~broker'.online
  <2> DEFINE no == FALSE
             none == {}
  <2>1. no \in BOOLEAN /\ none \subseteq Entities /\ ~no
    OBVIOUS
  <2>2. broker' = [broker EXCEPT !.online = no, !.subs = none]
    BY <1>1, Zenon DEF Gone
  <2> HIDE DEF no, none
  <2>3. broker' \in Brokers /\ broker'.online = no
    BY <1>7, <2>1, <2>2 DEF Brokers
  <2> QED BY <2>1, <2>3
<1>9. Sound(mqtt', app', broker', lamp')
  BY <1>3, <1>4, <1>5, <1>6, <1>8, OfflineSound
<1>10. used' \in Uses
  BY <1>1, UsedIs DEF IInv, Uses
<1> QED BY <1>1, <1>2, <1>7, <1>9, <1>10 DEF IInv, WifiTypeOK, Wifis, Links, Uses

\* A pass: the link, then the session, the announcement, the cycle, and the end.
LEMMA PassSound == ASSUME IInv, Pass PROVE IInv'
<1>1. /\ Sound(mqtt, app, broker, lamp) /\ mqtt \in Sessions
      /\ wifi \in Wifis /\ link \in Links /\ lookups \in 0..MaxLookups
      /\ flash \in Flashes /\ used \in Uses
  BY DEF IInv, Sound, TypesOf, WifiTypeOK, Wifis, Links, Uses
<1>2. wifi' \in Wifis /\ link' \in Links
  <2>1. CASE \E late \in {FALSE, TimedOut} : WifiPollConnecting(late)
    <3>1. AfterFailure(wifi) \in Wifis
      BY <1>1, WifiFailure
    <3>2. [state |-> "connected", attempts |-> 0] \in Wifis
      BY AttemptsAssumption DEF Wifis, WifiStates
    <3>3. /\ wifi' \in {[state |-> "connected", attempts |-> 0], AfterFailure(wifi), wifi}
          /\ UNCHANGED link
      BY <2>1, Zenon DEF WifiPollConnecting
    <3> QED BY <1>1, <3>1, <3>2, <3>3
  <2>2. CASE WifiPollConnected
    <3>1. wifi' \in {AfterFailure(wifi), wifi} /\ UNCHANGED link
      BY <2>2, Zenon DEF WifiPollConnected
    <3> QED BY <1>1, <3>1, WifiFailure
  <2>3. CASE \E due \in BOOLEAN : WifiPollWaiting(due)
    <3>1. WifiAttempt(wifi, AfterFailure(wifi)) \/ UNCHANGED <<wifi, link>>
      BY <2>3, Zenon DEF WifiPollWaiting
    <3> QED BY <1>1, <3>1, WifiFailure, AttemptIs
  <2>4. CASE WifiPollIdle
    BY <1>1, <2>4 DEF WifiPollIdle
  <2> QED BY <2>1, <2>2, <2>3, <2>4, Zenon DEF Pass
<1>3. pc' = "console" /\ UNCHANGED <<lamp, broker>>
  BY Zenon DEF Pass
<1>4. CASE MqttPollDue /\ LoopEnd(app)
  <2>1. /\ Sound(mqtt, app', broker, lamp) /\ flash' \in Flashes /\ used' \in Uses
    BY <1>1, <1>4, LoopEndSound
  <2>2. /\ mqtt' \in Sessions /\ mqtt'.wire = mqtt.wire
        /\ mqtt'.client = "up" <=> mqtt.client = "up"
        /\ mqtt'.state # "connected" /\ lookups' \in 0..MaxLookups
    BY <1>1, <1>4, MqttAttemptIs DEF MqttPollDue
  <2>3. Sound(mqtt', app', broker, lamp)
    BY <2>1, <2>2, QuietSound
  <2> QED BY <1>2, <1>3, <2>1, <2>2, <2>3 DEF IInv, WifiTypeOK, Wifis, Links, Uses
<1>5. CASE /\ \E s \in UNION {PollStatePublish(t) : t \in PollAnnouncement([m |-> mqtt, a |-> app])} :
                mqtt' = s.m /\ LoopEnd(s.a)
           /\ UNCHANGED lookups
  <2>1. PICK t \in PollAnnouncement([m |-> mqtt, a |-> app]) :
          \E s \in PollStatePublish(t) : mqtt' = s.m /\ LoopEnd(s.a)
    BY <1>5, Zenon
  <2>2. PICK s \in PollStatePublish(t) : mqtt' = s.m /\ LoopEnd(s.a)
    BY <2>1
  <2>3. Sound(t.m, t.a, broker, lamp) /\ t \in Pairs
    BY <1>1, PollAnnouncementSound
  <2>4. Sound(s.m, s.a, broker, lamp)
    BY <2>3, PollStatePublishSound
  <2>5. /\ Sound(s.m, app', broker, lamp) /\ flash' \in Flashes /\ used' \in Uses
    BY <1>1, <2>2, <2>4, LoopEndSound
  <2>6. Sound(mqtt', app', broker, lamp) /\ lookups' = lookups
    BY <1>5, <2>2, <2>5
  <2> QED BY <1>1, <1>2, <1>3, <2>5, <2>6 DEF IInv, WifiTypeOK, Wifis, Links, Uses
<1> QED BY <1>4, <1>5, Zenon DEF Pass

-----------------------------------------------------------------------------
LEMMA Starts == Init => IInv
<1> SUFFICES ASSUME Init PROVE IInv
  OBVIOUS
<1>1. /\ pc = "boot" /\ wifi = [state |-> "idle", attempts |-> 0] /\ link = "down"
      /\ mqtt = [state |-> "idle", attempts |-> 0, client |-> "idle", wire |-> <<>>]
      /\ lookups = 0 /\ flash = Stored(LightInit, RangeInit) /\ lamp = Boot(flash)
      /\ app = BootApp
      /\ broker = [online |-> FALSE, docs |-> {}, subs |-> {},
                   shown |-> [e \in Entities |-> <<>>]]
      /\ used = [commands |-> 0, mishaps |-> 0]
  BY DEF Init, WifiInit, MqttInit
<1>2. /\ wifi \in Wifis /\ link \in Links /\ lookups \in 0..MaxLookups
      /\ AttemptsBound \in Nat /\ used \in Uses
  BY <1>1, AttemptsAssumption, MqttAssumption DEF Wifis, WifiStates, Links, Uses
<1>3. /\ mqtt \in Sessions /\ mqtt.client # "up" /\ mqtt.state # "connected"
      /\ mqtt.wire = <<>>
  BY <1>1, <1>2 DEF Sessions, MqttStates
<1>4. flash \in Flashes
  <2> DEFINE l == [light |-> LightInit, range |-> RangeInit]
  <2>1. l \in Lamps /\ l.light = LightInit /\ l.range = RangeInit
    <3> HIDE DEF LightInit, RangeInit
    <3> QED BY LampAtStart DEF Lamps
  <2> HIDE DEF l
  <2>2. Stored(l.light, l.range) \in Flashes
    BY <2>1, StoredIs
  <2> QED BY <1>1, <2>1, <2>2
<1>5. lamp \in Lamps /\ Generations(lamp) = <<1, 1>>
  BY <1>1, <1>4, BootIs
<1>6. /\ app \in Apps /\ app.captured = <<0, 0>> /\ app.published = <<1, 1>>
      /\ app.saved = <<1, 1>>
  BY <1>1 DEF BootApp, Apps
<1>7. /\ NotAhead(app.captured, lamp) /\ NotAhead(app.published, lamp)
      /\ NotAhead(app.saved, lamp)
  BY <1>5, <1>6 DEF NotAhead
<1>8. broker \in Brokers /\ ~broker.online
  <2> DEFINE nothing == [e \in Entities |-> <<>>]
             none == {}
             no == FALSE
  <2>1. nothing \in [Entities -> Values]
    <3>1. <<>> \in Values
      BY Zenon DEF Values
    <3> QED BY <3>1
  <2>2. none \subseteq Entities /\ no \in BOOLEAN /\ ~no
    OBVIOUS
  <2>3. broker = [online |-> no, docs |-> none, subs |-> none, shown |-> nothing]
    BY <1>1
  <2> HIDE DEF nothing, none, no
  <2>4. broker \in Brokers /\ broker.online = no
    BY <2>1, <2>2, <2>3 DEF Brokers
  <2> QED BY <2>2, <2>4
<1>9. Sound(mqtt, app, broker, lamp)
  BY <1>3, <1>5, <1>6, <1>7, <1>8, OfflineSound
<1> QED BY <1>1, <1>2, <1>4, <1>9 DEF IInv, WifiTypeOK, Wifis, Links, Uses

LEMMA Steps == IInv /\ [Next]_vars => IInv'
<1> SUFFICES ASSUME IInv, [Next]_vars PROVE IInv'
  OBVIOUS
<1>1. CASE Loop
  BY <1>1, NetStartSound, PassSound DEF Loop
<1>2. CASE Console
  BY <1>2, ConsoleLampSound, ConsoleConnectSound, ConsoleDisconnectSound,
     ConsoleAnnounceSound, ConsoleSaveSound DEF Console
<1>3. CASE World
  BY <1>3, RadioSound, LookupSound, SessionAcceptedSound, SessionFailsSound,
     SessionBreaksSound, DeliversSound, CommandArrivesSound, PowerCutSound DEF World
<1>4. CASE UNCHANGED vars
  BY <1>4 DEF vars, IInv, WifiTypeOK
<1> QED BY <1>1, <1>2, <1>3, <1>4 DEF Next

\* The state of the lamp, the application and the broker stays sound, whatever
\* the user types, the network does and the power does (main.c, net.c).
THEOREM Soundness == Spec => []IInv
<1>1. Init => IInv
  BY Starts
<1>2. IInv /\ [Next]_vars => IInv'
  BY Steps
<1> QED BY <1>1, <1>2, PTL DEF Spec

LEMMA SoundTypes == IInv => TypeOK
<1> SUFFICES ASSUME IInv PROVE TypeOK
  OBVIOUS
<1>1. /\ mqtt \in Sessions /\ Len(mqtt.wire) <= MaxInFlight /\ app \in Apps
      /\ broker \in Brokers
      /\ NotAhead(app.published, lamp) /\ NotAhead(app.saved, lamp)
      /\ pc \in {"boot", "console", "link"} /\ WifiTypeOK /\ lookups \in 0..MaxLookups
  BY DEF IInv, Sound, TypesOf
<1>2. /\ mqtt.state \in MqttStates /\ mqtt.client \in {"idle", "connecting", "up"}
      /\ app.step \in 0..5 /\ app.part \in 0..3
      /\ broker.subs \subseteq Entities /\ broker.docs \subseteq Entities
  BY <1>1 DEF Sessions, Apps, Brokers
<1>3. \A i \in 1..2 : i = 1 \/ i = 2
  OBVIOUS
<1>4. \A i \in 1..2 : /\ app.published[i] <= Generations(lamp)[i]
                      /\ app.saved[i] <= Generations(lamp)[i]
  BY <1>1, <1>3, Zenon DEF NotAhead
<1> QED BY <1>1, <1>2, <1>4, Zenon DEF TypeOK

LEMMA SoundTells == IInv => BrokerIsTold
<1> SUFFICES ASSUME IInv PROVE BrokerIsTold
  OBVIOUS
<1>1. AllSent(mqtt, app, broker, lamp) /\ OnlineIsTrue(broker)
  BY DEF IInv, Sound
<1>2. \A e \in Entities : Shows(mqtt, broker, lamp, e) <=> Arrived(e) = Value(e)
  BY ValueOfLamp, Zenon DEF Shows, Arrived
<1> QED BY <1>1, <1>2, Zenon DEF BrokerIsTold, AllSent, OnlineIsTrue

\* app_t, the link and the session stay in their ranges, a session holds no more
\* requests than lwIP has room for, and no generation main has noted as published
\* or saved is one the lamp has not reached (main.c, mqtt.c).
THEOREM TypesHold == Spec => []TypeOK
BY Soundness, SoundTypes, PTL

\* Home Assistant is told the lamp is there only after it was told what it is and
\* can reach it; and what main counts as published of an announced session is on
\* its way or shown, whatever was refused, changed, broke or restarted (net.c).
THEOREM BrokerTold == Spec => []BrokerIsTold
BY Soundness, SoundTells, PTL
=============================================================================
