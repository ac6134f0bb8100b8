---------------------------- MODULE JsonTextProofs ----------------------------
(***************************************************************************)
(* For any keys and strings, any depth and any buffer: what json_writer_t  *)
(* wrote, and json_writer_finish approves, is read back by json_find as    *)
(* what it was.                                                            *)
(***************************************************************************)
EXTENDS JsonText, SequenceTheorems, WellFoundedInduction, TLAPS


LEMMA LeastPosition ==
    ASSUME NEW S \in SUBSET Nat, S # {}
    PROVE  \E i \in S : \A j \in S : i <= j
<1>1. \E i \in S : \A j \in S : <<j, i>> \notin OpToRel(<, Nat)
  BY NatLessThanWellFounded, WFMin
<1>2. \A i, j \in Nat : <<j, i>> \notin OpToRel(<, Nat) => i <= j
  BY DEF OpToRel
<1> QED BY <1>1, <1>2

LEMMA CountedUp ==
    ASSUME NEW S, 0 \in S, \A n \in Nat : n \in S => n + 1 \in S
    PROVE  Nat \subseteq S
<1> DEFINE T == Nat \ S
<1>1. SUFFICES ASSUME T # {} PROVE FALSE OBVIOUS
<1>2. PICK i \in T : \A j \in T : i <= j BY <1>1, LeastPosition
<1>3. i # 0 /\ i - 1 \in Nat BY <1>2
<1>4. i - 1 \notin T BY <1>2, <1>3
<1>. QED BY <1>2, <1>3, <1>4
-----------------------------------------------------------------------------
(* Functions that are recursive *)

\* An equation f = F[f] has a solution, where what F makes of a function at a place depends
\* only on what the function is at places of a smaller measure, and no measure exceeds n.
LooksAhead(X, D, F, measure, n) ==
    /\ n \in Nat /\ D # {}
    /\ \A f \in D : F[f] \in D /\ f = [x \in X |-> f[x]]
    /\ \A x \in X : measure[x] \in 0..n
    /\ \A f, g \in D : \A x \in X :
          (\A y \in X : measure[y] < measure[x] => f[y] = g[y]) => F[f][x] = F[g][x]

LEMMA SolutionExists ==
    ASSUME NEW X, NEW D, NEW F, NEW measure, NEW n, LooksAhead(X, D, F, measure, n)
    PROVE  \E f \in D : f = F[f]
<1> USE DEF LooksAhead
<1> DEFINE Solves(f, k) == \A x \in X : measure[x] < k => f[x] = F[f][x]
           S == {k \in Nat : \E f \in D : Solves(f, k)}
<1>1. 0 \in S OBVIOUS
<1>2. ASSUME NEW k \in Nat, k \in S PROVE k + 1 \in S
  <2>1. PICK f \in D : Solves(f, k) BY <1>2
  <2>2. ASSUME NEW x \in X, measure[x] < k + 1 PROVE F[f][x] = F[F[f]][x]
    <3>1. \A y \in X : measure[y] < measure[x] => measure[y] < k BY <2>2
    <3>2. \A y \in X : measure[y] < measure[x] => f[y] = F[f][y] BY <2>1, <3>1
    <3>3. F[f] \in D OBVIOUS
    <3>. QED BY <3>2, <3>3
  <2>3. F[f] \in D /\ Solves(F[f], k + 1) BY <2>2
  <2> HIDE DEF Solves
  <2>. QED BY <2>3
<1>3. n + 1 \in S
  <2> HIDE DEF S
  <2>. QED BY <1>1, <1>2, CountedUp
<1>4. PICK f \in D : Solves(f, n + 1) BY <1>3
<1>5. \A x \in X : f[x] = F[f][x] BY <1>4
<1>6. F[f] \in D OBVIOUS
<1>7. f = [x \in X |-> f[x]] /\ F[f] = [x \in X |-> F[f][x]] BY <1>6
<1>8. [x \in X |-> f[x]] = [x \in X |-> F[f][x]] BY <1>5
<1>. QED BY <1>7, <1>8
-----------------------------------------------------------------------------
(* Texts *)

Texts == Seq(Characters)

LEMMA TextIs ==
    ASSUME NEW text \in Texts
    PROVE  Len(text) \in Nat /\ \A p : (At(text, p) = "end") = (p \notin 1..Len(text))
<1>1. \A p \in 1..Len(text) : text[p] \in Characters BY DEF Texts
<1>2. \A p \in 1..Len(text) : text[p] # "end" BY <1>1, JsonAssumption
<1>3. Len(text) \in Nat BY DEF Texts
<1>. QED BY <1>2, <1>3, Zenon DEF At

LEMMA Ends ==
    ASSUME NEW text \in Texts
    PROVE  \A p \in Nat : At(text, p) # "end" => p <= Len(text)
BY TextIs

\* How far it is to the end.
Height(n) == [q \in Nat |-> IF q > n THEN 0 ELSE n + 1 - q]

LEMMA HeightFalls ==
    ASSUME NEW n \in Nat
    PROVE  /\ n + 1 \in Nat /\ \A q \in Nat : Height(n)[q] \in 0..n + 1
           /\ \A q, r \in Nat : q <= n /\ r > q => Height(n)[r] < Height(n)[q]
BY DEF Height

\* One step of SkipBody.
BodyStep(text, f, q) ==
    CASE At(text, q) = "end" -> 0
      [] At(text, q) = Slash -> f[q + 2]
      [] At(text, q) = Quote -> q + 1
      [] OTHER -> f[q + 1]

LEMMA Marks == /\ Quote # Slash /\ Quote # "end" /\ Slash # "end"
BY DEF Quote, Slash

LEMMA BodyStepIs ==
    ASSUME NEW text, NEW f, NEW q
    PROVE  BodyStep(text, f, q) =
             IF At(text, q) = "end" THEN 0
             ELSE IF At(text, q) = Slash THEN f[q + 2]
             ELSE IF At(text, q) = Quote THEN q + 1 ELSE f[q + 1]
BY Marks DEF BodyStep

LEMMA BodyExists ==
    ASSUME NEW text \in Texts
    PROVE  \E f : f = [q \in Nat |-> BodyStep(text, f, q)]
<1> DEFINE D == [Nat -> Nat]
           F == [f \in D |-> [q \in Nat |-> BodyStep(text, f, q)]]
           m == Height(Len(text))
<1>1. Len(text) \in Nat BY TextIs
<1>2. [q \in Nat |-> 0] \in D OBVIOUS
<1>3. \A f \in D : F[f] \in D /\ f = [q \in Nat |-> f[q]]
  <2> TAKE f \in D
  <2>1. \A q \in Nat : BodyStep(text, f, q) \in Nat BY BodyStepIs
  <2>. QED BY <2>1
<1>4. /\ Len(text) + 1 \in Nat /\ \A q \in Nat : m[q] \in 0..Len(text) + 1
      /\ \A q, r \in Nat : q <= Len(text) /\ r > q => m[r] < m[q]
  BY <1>1, HeightFalls
<1>5. ASSUME NEW f \in D, NEW g \in D, NEW q \in Nat,
             \A y \in Nat : m[y] < m[q] => f[y] = g[y]
      PROVE  F[f][q] = F[g][q]
  <2>1. At(text, q) # "end" => q <= Len(text) BY Ends
  <2>2. At(text, q) # "end" => m[q + 1] < m[q] /\ m[q + 2] < m[q]
    <3> HIDE DEF D, F, m
    <3>. QED BY <1>4, <2>1
  <2>3. At(text, q) # "end" => f[q + 1] = g[q + 1] /\ f[q + 2] = g[q + 2] BY <1>5, <2>2
  <2>4. BodyStep(text, f, q) = BodyStep(text, g, q) BY <2>3, BodyStepIs
  <2>. QED BY <2>4
<1>6. \E f \in D : f = F[f]
  <2>1. D # {} BY <1>2
  <2>2. \A f, g \in D : \A x \in Nat :
              (\A y \in Nat : m[y] < m[x] => f[y] = g[y]) => F[f][x] = F[g][x]
    BY <1>5
  <2> DEFINE n == Len(text) + 1
  <2>3. n \in Nat /\ \A q \in Nat : m[q] \in 0..n BY <1>4
  <2> HIDE DEF D, F, m, n
  <2>4. LooksAhead(Nat, D, F, m, n) BY <1>3, <2>1, <2>2, <2>3 DEF LooksAhead
  <2>. QED BY <2>4, SolutionExists
<1>. QED BY <1>6

\* SkipBody as an equation.
LEMMA SkipBodyIs ==
    ASSUME NEW text \in Texts, NEW q \in Nat
    PROVE  SkipBody(text, q) =
             IF At(text, q) = "end" THEN 0
             ELSE IF At(text, q) = Slash THEN SkipBody(text, q + 2)
             ELSE IF At(text, q) = Quote THEN q + 1 ELSE SkipBody(text, q + 1)
<1> DEFINE f == CHOOSE f : f = [r \in Nat |-> BodyStep(text, f, r)]
<1>1. f = [r \in Nat |-> BodyStep(text, f, r)] BY BodyExists
<1>2. \A r : SkipBody(text, r) = f[r] BY DEF SkipBody, BodyStep
<1> HIDE DEF f
<1>3. f[q] = BodyStep(text, f, q) BY <1>1
<1>. QED BY <1>2, <1>3, BodyStepIs

\* It ends behind its beginning, or not at all.
LEMMA SkipBodyGoesOn ==
    ASSUME NEW text \in Texts
    PROVE  \A q \in Nat : /\ SkipBody(text, q) \in Nat
                          /\ SkipBody(text, q) = 0 \/ SkipBody(text, q) > q
<1> DEFINE n == Len(text)
           Fine(q) == /\ SkipBody(text, q) \in Nat
                      /\ SkipBody(text, q) = 0 \/ SkipBody(text, q) > q
           S == {k \in Nat : \A q \in Nat : q + k > n => Fine(q)}
<1>1. n \in Nat BY TextIs
<1>2. 0 \in S
  <2>1. ASSUME NEW q \in Nat, q > n PROVE Fine(q)
    <3>1. At(text, q) = "end" BY <2>1, Ends
    <3>. QED BY <3>1, SkipBodyIs
  <2>. QED BY <2>1
<1>3. ASSUME NEW k \in Nat, k \in S PROVE k + 1 \in S
  <2>1. ASSUME NEW q \in Nat, q + (k + 1) > n PROVE Fine(q)
    <3>1. (q + 1) + k > n /\ (q + 2) + k > n /\ q + 1 \in Nat /\ q + 2 \in Nat BY <1>1, <2>1
    <3>2. Fine(q + 1) /\ Fine(q + 2) BY <1>3, <3>1
    <3>. QED BY <3>1, <3>2, SkipBodyIs
  <2> HIDE DEF Fine
  <2>. QED BY <2>1
<1>4. n + 1 \in S
  <2> HIDE DEF S
  <2>. QED BY <1>1, <1>2, <1>3, CountedUp
<1>5. \A q \in Nat : q + (n + 1) > n BY <1>1
<1>. QED BY <1>4, <1>5
LEMMA CountedDown ==
    ASSUME NEW n \in Nat, NEW S, n + 1 \in S, \A i \in 1..n : i + 1 \in S => i \in S
    PROVE  1..n + 1 \subseteq S
<1> DEFINE T == {d \in Nat : d <= n => n + 1 - d \in S}
<1>1. 0 \in T OBVIOUS
<1>2. ASSUME NEW d \in Nat, d \in T PROVE d + 1 \in T
  <2>1. CASE d + 1 <= n
    <3>1. n + 1 - d \in S /\ n - d \in 1..n /\ (n - d) + 1 = n + 1 - d BY <1>2, <2>1
    <3>2. n - d \in S BY <3>1
    <3>3. n - d = n + 1 - (d + 1) OBVIOUS
    <3>. QED BY <3>2, <3>3
  <2>2. CASE ~(d + 1 <= n) BY <2>2
  <2>. QED BY <2>1, <2>2
<1>3. Nat \subseteq T
  <2> HIDE DEF T
  <2>. QED BY <1>1, <1>2, CountedUp
<1>4. ASSUME NEW i \in 1..n + 1 PROVE i \in S
  <2>1. CASE i = n + 1 BY <2>1
  <2>2. CASE i # n + 1
    <3>1. n + 1 - i \in Nat /\ n + 1 - i <= n /\ n + 1 - (n + 1 - i) = i BY <2>2
    <3>2. n + 1 - i \in T BY <1>3, <3>1
    <3>. QED BY <3>1, <3>2
  <2>. QED BY <2>1, <2>2
<1>. QED BY <1>4
-----------------------------------------------------------------------------
\* One step of SkipNumber.
NumberStep(text, f, q) == IF At(text, q) = "1" THEN f[q + 1] ELSE q

LEMMA NumberExists ==
    ASSUME NEW text \in Texts
    PROVE  \E f : f = [q \in Nat |-> NumberStep(text, f, q)]
<1> DEFINE D == [Nat -> Nat]
           F == [f \in D |-> [q \in Nat |-> NumberStep(text, f, q)]]
           m == Height(Len(text))
<1>1. Len(text) \in Nat BY TextIs
<1>2. [q \in Nat |-> 0] \in D OBVIOUS
<1>3. \A f \in D : F[f] \in D /\ f = [q \in Nat |-> f[q]]
  <2> TAKE f \in D
  <2>1. \A q \in Nat : NumberStep(text, f, q) \in Nat BY DEF NumberStep
  <2>. QED BY <2>1
<1>4. /\ Len(text) + 1 \in Nat /\ \A q \in Nat : m[q] \in 0..Len(text) + 1
      /\ \A q, r \in Nat : q <= Len(text) /\ r > q => m[r] < m[q]
  BY <1>1, HeightFalls
<1>5. ASSUME NEW f \in D, NEW g \in D, NEW q \in Nat,
             \A y \in Nat : m[y] < m[q] => f[y] = g[y]
      PROVE  F[f][q] = F[g][q]
  <2>1. At(text, q) = "1" => q <= Len(text) BY Ends
  <2>2. At(text, q) = "1" => m[q + 1] < m[q]
    <3> HIDE DEF D, F, m
    <3>. QED BY <1>4, <2>1
  <2>3. At(text, q) = "1" => f[q + 1] = g[q + 1] BY <1>5, <2>2
  <2>4. NumberStep(text, f, q) = NumberStep(text, g, q) BY <2>3 DEF NumberStep
  <2>. QED BY <2>4
<1>6. \E f \in D : f = F[f]
  <2>1. D # {} BY <1>2
  <2>2. \A f, g \in D : \A x \in Nat :
              (\A y \in Nat : m[y] < m[x] => f[y] = g[y]) => F[f][x] = F[g][x]
    BY <1>5
  <2> DEFINE n == Len(text) + 1
  <2>3. n \in Nat /\ \A q \in Nat : m[q] \in 0..n BY <1>4
  <2> HIDE DEF D, F, m, n
  <2>4. LooksAhead(Nat, D, F, m, n) BY <1>3, <2>1, <2>2, <2>3 DEF LooksAhead
  <2>. QED BY <2>4, SolutionExists
<1>. QED BY <1>6

\* A number of one digit, and anything else.
LEMMA SkipNumberIs ==
    ASSUME NEW text \in Texts, NEW q \in Nat
    PROVE  /\ SkipNumber(text, q) \in Nat
           /\ SkipNumber(text, q) = 0 \/ SkipNumber(text, q) > q
           /\ At(text, q) # "1" => SkipNumber(text, q) = 0
           /\ At(text, q) = "1" /\ At(text, q + 1) # "1" => SkipNumber(text, q) = q + 1
<1> DEFINE f == CHOOSE f : f = [r \in Nat |-> NumberStep(text, f, r)]
           n == Len(text)
           S == {k \in Nat : \A r \in Nat : r + k > n => f[r] \in Nat /\ f[r] >= r}
<1>1. f = [r \in Nat |-> NumberStep(text, f, r)] BY NumberExists
<1>2. SkipNumber(text, q) = IF At(text, q) = "1" THEN f[q] ELSE 0
  BY DEF SkipNumber, NumberStep
<1> HIDE DEF f
<1>3. \A r \in Nat : f[r] = IF At(text, r) = "1" THEN f[r + 1] ELSE r
  BY <1>1 DEF NumberStep
<1>4. n \in Nat BY TextIs
<1>5. \A r \in Nat : r > n => f[r] = r BY <1>3, Ends
<1> HIDE DEF n
<1>6. 0 \in S BY <1>5
<1>7. ASSUME NEW k \in Nat, k \in S PROVE k + 1 \in S
  <2>1. ASSUME NEW r \in Nat, r + (k + 1) > n PROVE f[r] \in Nat /\ f[r] >= r
    <3>1. (r + 1) + k > n /\ r + 1 \in Nat BY <1>4, <2>1
    <3>2. f[r + 1] \in Nat /\ f[r + 1] >= r + 1 BY <1>7, <3>1
    <3>. QED BY <1>3, <3>2
  <2>. QED BY <2>1
<1>8. n + 1 \in S
  <2> HIDE DEF S
  <2>. QED BY <1>4, <1>6, <1>7, CountedUp
<1>9. \A r \in Nat : r + (n + 1) > n BY <1>4
<1>10. \A r \in Nat : f[r] \in Nat /\ f[r] >= r BY <1>8, <1>9
<1>11. f[q + 1] \in Nat /\ f[q + 1] >= q + 1 BY <1>10
<1>12. f[q] = IF At(text, q) = "1" THEN f[q + 1] ELSE q BY <1>3
<1>13. At(text, q + 1) # "1" => f[q + 1] = q + 1 BY <1>3
<1>. QED BY <1>2, <1>11, <1>12, <1>13

LEMMA SkipStringIs ==
    ASSUME NEW text \in Texts, NEW q \in Nat
    PROVE  /\ SkipString(text, q) \in Nat
           /\ SkipString(text, q) # 0 => SkipString(text, q) > q /\ q <= Len(text)
<1>1. q + 1 \in Nat /\ Quote # "end" BY Marks
<1>2. /\ SkipBody(text, q + 1) \in Nat
      /\ SkipBody(text, q + 1) = 0 \/ SkipBody(text, q + 1) > q + 1
  BY <1>1, SkipBodyGoesOn
<1>3. At(text, q) = Quote => q <= Len(text) BY <1>1, Ends
<1>4. SkipString(text, q) = IF At(text, q) = Quote THEN SkipBody(text, q + 1) ELSE 0
  BY DEF SkipString
<1>. QED BY <1>2, <1>3, <1>4

\* Where the value of the member or element at q is, or 0.
ValueStepAt(text, w, q) ==
    IF w = "{"
      THEN IF SkipString(text, q) # 0 /\ At(text, SkipString(text, q)) = ":"
             THEN SkipString(text, q) + 1 ELSE 0
    ELSE q

LEMMA ValueAtIs ==
    ASSUME NEW text \in Texts, NEW w, NEW q \in Nat
    PROVE  /\ ValueStepAt(text, w, q) \in Nat
           /\ ValueStepAt(text, w, q) # 0 =>
                \/ ValueStepAt(text, w, q) = q
                \/ (ValueStepAt(text, w, q) > q /\ q <= Len(text))
<1> DEFINE s == SkipString(text, q)
<1>1. s \in Nat /\ (s # 0 => s > q /\ q <= Len(text)) BY SkipStringIs
<1> DEFINE v == ValueStepAt(text, w, q)
<1>2. v = 0 \/ v = q \/ (s # 0 /\ v = s + 1) BY DEF ValueStepAt
<1> HIDE DEF s, v
<1>3. v \in Nat /\ (v # 0 => v = q \/ (v > q /\ q <= Len(text))) BY <1>1, <1>2
<1>. QED BY <1>3 DEF v
-----------------------------------------------------------------------------
\* One step of Skip, with what it calls itself for.
SkipStep(text, f, w, q, d) ==
    IF w = "value" THEN
      CASE At(text, q) = Quote      -> SkipString(text, q)
        [] At(text, q) \in Literals -> SkipLiteral(text, q)
        [] At(text, q) \in Opening  ->
             IF d >= MaxJsonDepth THEN 0
             ELSE IF At(text, q + 1) = Closing(text[q]) THEN q + 2
             ELSE f[<<text[q], q + 1, d>>]
        [] OTHER                    -> SkipNumber(text, q)
    ELSE
      LET name  == IF w = "{" THEN SkipString(text, q) ELSE q
          value == IF w = "[" THEN q
                   ELSE IF name # 0 /\ At(text, name) = ":" THEN name + 1 ELSE 0
          end   == IF value = 0 THEN 0 ELSE f[<<"value", value, d + 1>>]
      IN  IF end = 0 THEN 0
          ELSE IF At(text, end) = Closing(w) THEN end + 1
          ELSE IF At(text, end) = "," THEN f[<<w, end + 1, d>>]
          ELSE 0

ValueStep(text, f, q, d) ==
    LET c == At(text, q)
    IN  IF c = Quote THEN SkipString(text, q)
        ELSE IF c \in Literals THEN q + 1
        ELSE IF c \in Opening
          THEN IF d >= MaxJsonDepth THEN 0
               ELSE IF At(text, q + 1) = Closing(c) THEN q + 2 ELSE f[<<c, q + 1, d>>]
        ELSE SkipNumber(text, q)

EndStep(text, f, w, q, d) ==
    IF ValueStepAt(text, w, q) = 0 THEN 0 ELSE f[<<"value", ValueStepAt(text, w, q), d + 1>>]

ItemStep(text, f, w, q, d, end) ==
    IF end = 0 THEN 0
    ELSE IF At(text, end) = Closing(w) THEN end + 1
    ELSE IF At(text, end) = "," THEN f[<<w, end + 1, d>>]
    ELSE 0

LEMMA SignsDiffer ==
    /\ Quote \notin Literals /\ Quote \notin Opening /\ Literals \cap Opening = {}
    /\ "value" \notin Opening /\ "end" \notin Opening /\ "end" \notin Literals
BY DEF Quote, Literals, Opening

LEMMA SkipStepIs ==
    ASSUME NEW text \in Texts, NEW f, NEW q \in Nat, NEW d \in Nat
    PROVE  /\ SkipStep(text, f, "value", q, d) = ValueStep(text, f, q, d)
           /\ \A w \in Opening : SkipStep(text, f, w, q, d)
                                   = ItemStep(text, f, w, q, d, EndStep(text, f, w, q, d))
<1>1. At(text, q) # "end" => text[q] = At(text, q) BY DEF At
<1>2. SkipStep(text, f, "value", q, d) = ValueStep(text, f, q, d)
  <2>1. CASE At(text, q) = Quote BY <2>1, SignsDiffer DEF SkipStep, ValueStep
  <2>2. CASE At(text, q) \in Literals
    BY <2>2, SignsDiffer DEF SkipStep, ValueStep, SkipLiteral
  <2>3. CASE At(text, q) \in Opening
    BY <1>1, <2>3, SignsDiffer DEF SkipStep, ValueStep
  <2>4. CASE At(text, q) \notin {Quote} \cup Literals \cup Opening
    BY <2>4, SignsDiffer DEF SkipStep, ValueStep
  <2>. QED BY <2>1, <2>2, <2>3, <2>4
<1>3. ASSUME NEW w \in Opening
      PROVE  SkipStep(text, f, w, q, d)
               = ItemStep(text, f, w, q, d, EndStep(text, f, w, q, d))
  <2>1. w = "{" \/ w = "[" BY DEF Opening
  <2>2. CASE w = "{" BY <2>2 DEF SkipStep, ItemStep, EndStep, ValueStepAt
  <2>3. CASE w = "[" BY <2>3 DEF SkipStep, ItemStep, EndStep, ValueStepAt
  <2>. QED BY <2>1, <2>2, <2>3
<1>. QED BY <1>2, <1>3

\* What Skip is gives places behind where it begins, or none.
Skips == {f \in [Whats \X Nat \X Nat -> Nat] :
            \A w \in Whats, q \in Nat, d \in Nat : f[<<w, q, d>>] = 0 \/ f[<<w, q, d>>] > q}

LEMMA SkipsAre ==
    ASSUME NEW f \in Skips, NEW w \in Whats, NEW q \in Nat, NEW d \in Nat
    PROVE  f[<<w, q, d>>] \in Nat /\ (f[<<w, q, d>>] = 0 \/ f[<<w, q, d>>] > q)
<1>1. <<w, q, d>> \in Whats \X Nat \X Nat OBVIOUS
<1>2. f \in [Whats \X Nat \X Nat -> Nat] BY DEF Skips
<1>3. f[<<w, q, d>>] \in Nat BY ONLY <1>1, <1>2, Zenon
<1>4. f[<<w, q, d>>] = 0 \/ f[<<w, q, d>>] > q BY Zenon DEF Skips
<1>. QED BY <1>3, <1>4

LEMMA ValueStepFine ==
    ASSUME NEW text \in Texts, NEW f \in Skips, NEW q \in Nat, NEW d \in Nat
    PROVE  /\ ValueStep(text, f, q, d) \in Nat
           /\ ValueStep(text, f, q, d) = 0 \/ ValueStep(text, f, q, d) > q
<1>1. \A c \in Opening : /\ f[<<c, q + 1, d>>] \in Nat
                         /\ f[<<c, q + 1, d>>] = 0 \/ f[<<c, q + 1, d>>] > q + 1
  <2>1. q + 1 \in Nat /\ Opening \subseteq Whats BY DEF Whats
  <2>. QED BY <2>1, SkipsAre, Zenon
<1>2. /\ SkipString(text, q) \in Nat /\ SkipNumber(text, q) \in Nat
      /\ SkipString(text, q) = 0 \/ SkipString(text, q) > q
      /\ SkipNumber(text, q) = 0 \/ SkipNumber(text, q) > q
  BY SkipStringIs, SkipNumberIs
<1> DEFINE v == ValueStep(text, f, q, d)
<1>3. \/ v = SkipString(text, q) \/ v = SkipNumber(text, q) \/ v = 0 \/ v = q + 1 \/ v = q + 2
      \/ \E c \in Opening : v = f[<<c, q + 1, d>>]
  BY DEF ValueStep
<1> HIDE DEF v
<1>4. CASE \E c \in Opening : v = f[<<c, q + 1, d>>]
  <2>1. v \in Nat /\ (v = 0 \/ v > q + 1) BY <1>1, <1>4, Zenon
  <2>. QED BY <2>1 DEF v
<1>5. CASE v = SkipString(text, q) \/ v = SkipNumber(text, q)
  BY <1>2, <1>5, Zenon DEF v
<1>6. CASE v = 0 \/ v = q + 1 \/ v = q + 2 BY <1>6 DEF v
<1>. QED BY <1>3, <1>4, <1>5, <1>6

LEMMA EndStepFine ==
    ASSUME NEW text \in Texts, NEW f \in Skips, NEW w \in Opening, NEW q \in Nat, NEW d \in Nat
    PROVE  /\ EndStep(text, f, w, q, d) \in Nat
           /\ EndStep(text, f, w, q, d) = 0 \/ EndStep(text, f, w, q, d) > q
<1> DEFINE v == ValueStepAt(text, w, q)
<1>1. v \in Nat /\ (v # 0 => v >= q) BY ValueAtIs
<1>2. v # 0 => /\ f[<<"value", v, d + 1>>] \in Nat
               /\ f[<<"value", v, d + 1>>] = 0 \/ f[<<"value", v, d + 1>>] > v
  <2>1. d + 1 \in Nat /\ "value" \in Whats BY DEF Whats
  <2>. QED BY <1>1, <2>1, SkipsAre, Zenon
<1>3. EndStep(text, f, w, q, d) = IF v = 0 THEN 0 ELSE f[<<"value", v, d + 1>>] BY DEF EndStep
<1> DEFINE e == f[<<"value", v, d + 1>>]
<1> HIDE DEF v, e
<1>4. CASE v = 0 BY <1>3, <1>4
<1>5. CASE v # 0
  <2>1. e \in Nat /\ (e = 0 \/ e > v) BY <1>2, <1>5, Zenon DEF e
  <2>2. e \in Nat /\ (e = 0 \/ e > q) BY <1>1, <1>5, <2>1
  <2>. QED BY <1>3, <1>5, <2>2, Zenon DEF e
<1>. QED BY <1>4, <1>5

LEMMA ItemStepFine ==
    ASSUME NEW text \in Texts, NEW f \in Skips, NEW w \in Opening, NEW q \in Nat, NEW d \in Nat
    PROVE  LET i == ItemStep(text, f, w, q, d, EndStep(text, f, w, q, d))
           IN  i \in Nat /\ (i = 0 \/ i > q)
<1> DEFINE e == EndStep(text, f, w, q, d)
           i == ItemStep(text, f, w, q, d, e)
<1>1. e \in Nat /\ (e = 0 \/ e > q) BY EndStepFine
<1> HIDE DEF e
<1>2. /\ f[<<w, e + 1, d>>] \in Nat
      /\ f[<<w, e + 1, d>>] = 0 \/ f[<<w, e + 1, d>>] > e + 1
  <2>1. e + 1 \in Nat /\ w \in Whats BY <1>1 DEF Whats
  <2>. QED BY <2>1, SkipsAre, Zenon
<1> DEFINE j == f[<<w, e + 1, d>>]
<1>3. \/ i = 0 \/ (e # 0 /\ i = e + 1) \/ (e # 0 /\ i = j) BY DEF ItemStep
<1>4. j \in Nat /\ (j = 0 \/ j > e + 1) BY <1>2
<1> HIDE DEF i, j
<1>5. i \in Nat /\ (i = 0 \/ i > q) BY <1>1, <1>3, <1>4
<1>. QED BY <1>5 DEF i, e
-----------------------------------------------------------------------------
Triples == Whats \X Nat \X Nat

LEMMA TripleIs ==
    /\ \A x \in Triples : \E w \in Whats, q \in Nat, d \in Nat : x = <<w, q, d>>
    /\ \A x \in Triples : x[1] \in Whats /\ x[2] \in Nat /\ x[3] \in Nat
BY DEF Triples

SkipHeight(n) ==
    [x \in Triples |-> 2 * Height(n)[x[2]] + IF x[1] = "value" THEN 0 ELSE 1]

LEMMA SkipHeightFalls ==
    ASSUME NEW n \in Nat
    PROVE  /\ 2 * n + 3 \in Nat
           /\ \A w \in Whats, q \in Nat, d \in Nat : SkipHeight(n)[<<w, q, d>>] \in 0..2 * n + 3
           /\ \A w, v \in Whats, q, r \in Nat, d, e \in Nat :
                q <= n /\ r > q => SkipHeight(n)[<<v, r, e>>] < SkipHeight(n)[<<w, q, d>>]
           /\ \A w \in Opening, q \in Nat, d, e \in Nat :
                SkipHeight(n)[<<"value", q, e>>] < SkipHeight(n)[<<w, q, d>>]
<1> DEFINE h == Height(n)
<1>1. /\ \A q \in Nat : h[q] \in 0..n + 1
      /\ \A q, r \in Nat : q <= n /\ r > q => h[r] < h[q]
  BY HeightFalls
<1>2. \A w \in Whats, q \in Nat, d \in Nat :
         SkipHeight(n)[<<w, q, d>>] = 2 * h[q] + IF w = "value" THEN 0 ELSE 1
  BY DEF SkipHeight, Triples
<1> HIDE DEF h
<1>3. Opening \subseteq Whats /\ "value" \in Whats /\ \A w \in Opening : w # "value"
  BY SignsDiffer DEF Whats
<1>4. ASSUME NEW w \in Whats, NEW q \in Nat, NEW d \in Nat
      PROVE  /\ SkipHeight(n)[<<w, q, d>>] \in 2 * h[q]..2 * h[q] + 1
             /\ h[q] \in 0..n + 1
  BY <1>1, <1>2
<1>5. ASSUME NEW w \in Whats, NEW q \in Nat, NEW d \in Nat
      PROVE  SkipHeight(n)[<<w, q, d>>] \in 0..2 * n + 3
  BY <1>4
<1>6. ASSUME NEW w \in Whats, NEW v \in Whats, NEW q \in Nat, NEW r \in Nat,
             NEW d \in Nat, NEW e \in Nat, q <= n, r > q
      PROVE  SkipHeight(n)[<<v, r, e>>] < SkipHeight(n)[<<w, q, d>>]
  <2>1. h[r] < h[q] BY <1>1, <1>6
  <2>2. /\ SkipHeight(n)[<<w, q, d>>] \in 2 * h[q]..2 * h[q] + 1 /\ h[q] \in 0..n + 1
        /\ SkipHeight(n)[<<v, r, e>>] \in 2 * h[r]..2 * h[r] + 1 /\ h[r] \in 0..n + 1
    BY <1>4
  <2>. QED BY <2>1, <2>2
<1>7. ASSUME NEW w \in Opening, NEW q \in Nat, NEW d \in Nat, NEW e \in Nat
      PROVE  SkipHeight(n)[<<"value", q, e>>] < SkipHeight(n)[<<w, q, d>>]
  <2>1. w \in Whats /\ "value" \in Whats /\ w # "value" BY <1>3
  <2>2. SkipHeight(n)[<<"value", q, e>>] = 2 * h[q] /\ SkipHeight(n)[<<w, q, d>>] = 2 * h[q] + 1
    <3>1. /\ SkipHeight(n)[<<"value", q, e>>] = 2 * h[q] + IF "value" = "value" THEN 0 ELSE 1
          /\ SkipHeight(n)[<<w, q, d>>] = 2 * h[q] + IF w = "value" THEN 0 ELSE 1
      BY <1>2, <2>1, Zenon
    <3>2. h[q] \in Nat BY <1>1
    <3>. QED BY <2>1, <3>1, <3>2
  <2>3. h[q] \in Nat BY <1>1
  <2>. QED BY <2>2, <2>3
<1>8. 2 * n + 3 \in Nat OBVIOUS
<1>. QED BY <1>5, <1>6, <1>7, <1>8, Zenon

\* A step of Skip depends on what is behind, and in the same place on the value.
AgreedOn(text, f, g, w, q) ==
    /\ q <= Len(text) => \A v \in Whats, r \in Nat, e \in Nat :
                            r > q => f[<<v, r, e>>] = g[<<v, r, e>>]
    /\ w \in Opening => \A e \in Nat : f[<<"value", q, e>>] = g[<<"value", q, e>>]

LEMMA StepsAgree ==
    ASSUME NEW text \in Texts, NEW f \in Skips, NEW g,
           NEW w \in Whats, NEW q \in Nat, NEW d \in Nat, AgreedOn(text, f, g, w, q)
    PROVE  SkipStep(text, f, w, q, d) = SkipStep(text, g, w, q, d)
<1> USE DEF AgreedOn
<1>1. q + 1 \in Nat /\ q + 1 > q /\ d + 1 \in Nat /\ Opening \subseteq Whats /\ "value" \in Whats
  BY DEF Whats
<1>2. CASE w = "value"
  <2>1. ValueStep(text, f, q, d) = ValueStep(text, g, q, d)
    <3>1. \A c \in Opening : q <= Len(text) => f[<<c, q + 1, d>>] = g[<<c, q + 1, d>>]
      BY <1>1, Zenon
    <3>2. At(text, q) \in Opening => q <= Len(text) BY Ends, SignsDiffer
    <3>. QED BY <3>1, <3>2 DEF ValueStep
  <2>. QED BY <1>2, <2>1, SkipStepIs
<1>3. CASE w \in Opening
  <2> DEFINE v == ValueStepAt(text, w, q)
             e == EndStep(text, f, w, q, d)
  <2>1. v \in Nat /\ (v # 0 => v = q \/ (v > q /\ q <= Len(text))) BY ValueAtIs
  <2>2. v # 0 => f[<<"value", v, d + 1>>] = g[<<"value", v, d + 1>>]
    <3> HIDE DEF v
    <3>. QED BY <1>1, <1>3, <2>1, Zenon
  <2>3. e = EndStep(text, g, w, q, d) BY <2>2 DEF EndStep
  <2>4. e \in Nat /\ (e = 0 \/ e > q) BY <1>3, EndStepFine
  <2>5. At(text, e) = "," => e <= Len(text) BY <2>4, Ends
  <2> HIDE DEF e
  <2>6. e # 0 /\ At(text, e) = "," => f[<<w, e + 1, d>>] = g[<<w, e + 1, d>>]
    <3>1. ASSUME e # 0, At(text, e) = "," PROVE f[<<w, e + 1, d>>] = g[<<w, e + 1, d>>]
      <4>1. e \in Nat /\ e > q /\ e <= Len(text) BY <2>4, <2>5, <3>1, Zenon
      <4>2. Len(text) \in Nat BY TextIs
      <4>3. e + 1 \in Nat /\ e + 1 > q /\ q <= Len(text) BY ONLY q \in Nat, <4>1, <4>2
      <4>. QED BY <4>3, Zenon
    <3>. QED BY <3>1
  <2>7. ItemStep(text, f, w, q, d, e) = ItemStep(text, g, w, q, d, e) BY <2>6 DEF ItemStep
  <2>8. /\ SkipStep(text, f, w, q, d) = ItemStep(text, f, w, q, d, e)
        /\ SkipStep(text, g, w, q, d) = ItemStep(text, g, w, q, d, e)
    BY <1>3, <2>3, SkipStepIs DEF e
  <2>. QED BY <2>7, <2>8
<1>. QED BY <1>2, <1>3 DEF Whats

SkipOf(text, f) == [x \in Triples |-> SkipStep(text, f, x[1], x[2], x[3])]

LEMMA SkipOfIs ==
    ASSUME NEW text, NEW f, NEW w \in Whats, NEW q \in Nat, NEW d \in Nat
    PROVE  SkipOf(text, f)[<<w, q, d>>] = SkipStep(text, f, w, q, d)
BY DEF SkipOf, Triples

LEMMA SkipOfFine ==
    ASSUME NEW text \in Texts, NEW f \in Skips
    PROVE  SkipOf(text, f) \in Skips
<1>1. ASSUME NEW w \in Whats, NEW q \in Nat, NEW d \in Nat
      PROVE  /\ SkipStep(text, f, w, q, d) \in Nat
             /\ SkipStep(text, f, w, q, d) = 0 \/ SkipStep(text, f, w, q, d) > q
  <2>1. CASE w = "value" BY <2>1, SkipStepIs, ValueStepFine
  <2>2. CASE w \in Opening BY <2>2, SkipStepIs, ItemStepFine
  <2>. QED BY <2>1, <2>2 DEF Whats
<1>2. SkipOf(text, f) \in [Whats \X Nat \X Nat -> Nat] BY <1>1, TripleIs DEF SkipOf, Triples
<1>3. ASSUME NEW w \in Whats, NEW q \in Nat, NEW d \in Nat
      PROVE  SkipOf(text, f)[<<w, q, d>>] = 0 \/ SkipOf(text, f)[<<w, q, d>>] > q
  <2>1. SkipOf(text, f)[<<w, q, d>>] = SkipStep(text, f, w, q, d) BY SkipOfIs, Zenon
  <2>. QED BY <1>1, <2>1
<1>. QED BY <1>2, <1>3, Zenon DEF Skips

LEMMA SkipExists ==
    ASSUME NEW text \in Texts
    PROVE  \E f \in Skips : f = SkipOf(text, f)
<1> DEFINE F == [f \in Skips |-> SkipOf(text, f)]
           m == SkipHeight(Len(text))
           n == 2 * Len(text) + 3
<1>1. Len(text) \in Nat BY TextIs
<1>2. /\ n \in Nat /\ \A w \in Whats, q \in Nat, d \in Nat : m[<<w, q, d>>] \in 0..n
      /\ \A w, v \in Whats, q, r \in Nat, d, e \in Nat :
           q <= Len(text) /\ r > q => m[<<v, r, e>>] < m[<<w, q, d>>]
      /\ \A w \in Opening, q \in Nat, d, e \in Nat : m[<<"value", q, e>>] < m[<<w, q, d>>]
  BY <1>1, SkipHeightFalls, Zenon
<1> HIDE DEF m, n
<1>3. Skips # {}
  <2> DEFINE f == [x \in Whats \X Nat \X Nat |-> 0]
  <2>1. \A w \in Whats, q \in Nat, d \in Nat : f[<<w, q, d>>] = 0 OBVIOUS
  <2>2. f \in [Whats \X Nat \X Nat -> Nat] OBVIOUS
  <2> HIDE DEF f
  <2>3. f \in Skips BY <2>1, <2>2, Zenon DEF Skips
  <2>. QED BY <2>3
<1>4. \A f \in Skips : F[f] \in Skips /\ f = [x \in Triples |-> f[x]]
  BY SkipOfFine DEF Skips, Triples
<1>5. \A x \in Triples : m[x] \in 0..n BY <1>2, TripleIs, Zenon
<1>6. ASSUME NEW f \in Skips, NEW g \in Skips, NEW x \in Triples,
             \A y \in Triples : m[y] < m[x] => f[y] = g[y]
      PROVE  F[f][x] = F[g][x]
  <2>1. PICK w \in Whats, q \in Nat, d \in Nat : x = <<w, q, d>> BY TripleIs
  <2>2. \A v \in Whats, r \in Nat, e \in Nat : <<v, r, e>> \in Triples BY DEF Triples
  <2>3. \A v \in Whats, r \in Nat, e \in Nat :
           m[<<v, r, e>>] < m[<<w, q, d>>] => f[<<v, r, e>>] = g[<<v, r, e>>]
    BY <1>6, <2>1, <2>2, Zenon
  <2>4. "value" \in Whats BY DEF Whats
  <2>5. q <= Len(text) => \A v \in Whats, r \in Nat, e \in Nat :
                             r > q => f[<<v, r, e>>] = g[<<v, r, e>>]
    BY <1>2, <2>3, Zenon
  <2>6. w \in Opening => \A e \in Nat : f[<<"value", q, e>>] = g[<<"value", q, e>>]
    BY <1>2, <2>3, <2>4, Zenon
  <2>7. SkipStep(text, f, w, q, d) = SkipStep(text, g, w, q, d)
    BY <2>5, <2>6, StepsAgree DEF AgreedOn
  <2>8. F[f][<<w, q, d>>] = F[g][<<w, q, d>>] BY <2>7, SkipOfIs
  <2>. QED BY <2>1, <2>8, Zenon
<1>7. LooksAhead(Triples, Skips, F, m, n)
  <2>1. n \in Nat BY <1>2
  <2> HIDE DEF F
  <2>. QED BY <1>3, <1>4, <1>5, <1>6, <2>1, Zenon DEF LooksAhead
<1>8. \E f \in Skips : f = F[f]
  <2> HIDE DEF F
  <2>. QED BY <1>7, SolutionExists
<1>. QED BY <1>8

\* Skip is the solution of its equation.
LEMMA SkipSolves ==
    ASSUME NEW text \in Texts
    PROVE  \E g \in Skips : \A w \in Whats, q \in Nat, d \in Nat :
              /\ Skip(text, w, q, d) = g[<<w, q, d>>]
              /\ g[<<w, q, d>>] = SkipStep(text, g, w, q, d)
<1> DEFINE f == CHOOSE f : f = SkipOf(text, f)
           m == SkipHeight(Len(text))
           n == 2 * Len(text) + 3
<1>1. PICK g \in Skips : g = SkipOf(text, g) BY SkipExists
<1>2. f = SkipOf(text, f) BY SkipExists
<1>3. \A w, q, d : Skip(text, w, q, d) = f[<<w, q, d>>] BY DEF Skip, SkipOf, SkipStep, Triples
<1> HIDE DEF f
<1>4. ASSUME NEW w \in Whats, NEW q \in Nat, NEW d \in Nat
      PROVE  /\ f[<<w, q, d>>] = SkipStep(text, f, w, q, d)
             /\ g[<<w, q, d>>] = SkipStep(text, g, w, q, d)
  <2>1. /\ SkipOf(text, f)[<<w, q, d>>] = SkipStep(text, f, w, q, d)
        /\ SkipOf(text, g)[<<w, q, d>>] = SkipStep(text, g, w, q, d)
    BY SkipOfIs
  <2>. QED BY <1>1, <1>2, <2>1, Zenon
<1>5. Len(text) \in Nat BY TextIs
<1>6. /\ n \in Nat /\ \A w \in Whats, q \in Nat, d \in Nat : m[<<w, q, d>>] \in 0..n
      /\ \A w, v \in Whats, q, r \in Nat, d, e \in Nat :
           q <= Len(text) /\ r > q => m[<<v, r, e>>] < m[<<w, q, d>>]
      /\ \A w \in Opening, q \in Nat, d, e \in Nat : m[<<"value", q, e>>] < m[<<w, q, d>>]
  BY <1>5, SkipHeightFalls, Zenon
<1> HIDE DEF m, n
<1> DEFINE S == {k \in Nat : \A w \in Whats, q \in Nat, d \in Nat :
                    m[<<w, q, d>>] < k => f[<<w, q, d>>] = g[<<w, q, d>>]}
<1>7. 0 \in S BY <1>6
<1>8. ASSUME NEW k \in Nat, k \in S PROVE k + 1 \in S
  <2>1. ASSUME NEW w \in Whats, NEW q \in Nat, NEW d \in Nat, m[<<w, q, d>>] < k + 1
        PROVE  f[<<w, q, d>>] = g[<<w, q, d>>]
    <3>1. \A v \in Whats, r \in Nat, e \in Nat :
             m[<<v, r, e>>] < m[<<w, q, d>>] => m[<<v, r, e>>] < k
      <4>1. ASSUME NEW v \in Whats, NEW r \in Nat, NEW e \in Nat,
                   m[<<v, r, e>>] < m[<<w, q, d>>]
            PROVE  m[<<v, r, e>>] < k
        <5>1. m[<<v, r, e>>] \in 0..n /\ m[<<w, q, d>>] \in 0..n BY <1>6, Zenon
        <5>. QED BY ONLY <1>6, <2>1, <4>1, <5>1, k \in Nat
      <4>. QED BY <4>1
    <3>2. \A v \in Whats, r \in Nat, e \in Nat :
             m[<<v, r, e>>] < m[<<w, q, d>>] => g[<<v, r, e>>] = f[<<v, r, e>>]
      BY <1>8, <3>1
    <3>3. "value" \in Whats BY DEF Whats
    <3>4. q <= Len(text) => \A v \in Whats, r \in Nat, e \in Nat :
                               r > q => g[<<v, r, e>>] = f[<<v, r, e>>]
      BY <1>6, <3>2, Zenon
    <3>5. w \in Opening => \A e \in Nat : g[<<"value", q, e>>] = f[<<"value", q, e>>]
      BY <1>6, <3>2, <3>3, Zenon
    <3>6. AgreedOn(text, g, f, w, q) BY <3>4, <3>5, Zenon DEF AgreedOn
    <3>7. SkipStep(text, g, w, q, d) = SkipStep(text, f, w, q, d) BY <3>6, StepsAgree
    <3>. QED BY <1>4, <3>7
  <2>. QED BY <2>1
<1>9. n + 1 \in S
  <2> HIDE DEF S
  <2>. QED BY <1>6, <1>7, <1>8, CountedUp
<1>10. ASSUME NEW w \in Whats, NEW q \in Nat, NEW d \in Nat
       PROVE  f[<<w, q, d>>] = g[<<w, q, d>>]
  <2>1. m[<<w, q, d>>] \in 0..n /\ n \in Nat BY <1>6, Zenon
  <2>2. m[<<w, q, d>>] < n + 1 BY ONLY <2>1
  <2>. QED BY <1>9, <2>2
<1>11. \A w \in Whats, q \in Nat, d \in Nat :
              /\ Skip(text, w, q, d) = g[<<w, q, d>>]
              /\ g[<<w, q, d>>] = SkipStep(text, g, w, q, d)
  <2> TAKE w \in Whats, q \in Nat, d \in Nat
  <2>1. Skip(text, w, q, d) = g[<<w, q, d>>] BY <1>3, <1>10
  <2>2. g[<<w, q, d>>] = SkipStep(text, g, w, q, d) BY <1>4
  <2>. QED BY <2>1, <2>2
<1>. QED BY <1>11

LEMMA SkipGoesOn ==
    ASSUME NEW text \in Texts, NEW w \in Whats, NEW q \in Nat, NEW d \in Nat
    PROVE  /\ Skip(text, w, q, d) \in Nat
           /\ Skip(text, w, q, d) = 0 \/ Skip(text, w, q, d) > q
<1>1. PICK g \in Skips : \A v \in Whats, r \in Nat, e \in Nat :
              /\ Skip(text, v, r, e) = g[<<v, r, e>>]
              /\ g[<<v, r, e>>] = SkipStep(text, g, v, r, e)
  BY SkipSolves
<1>2. Skip(text, w, q, d) = g[<<w, q, d>>] BY <1>1
<1>3. g[<<w, q, d>>] \in Nat /\ (g[<<w, q, d>>] = 0 \/ g[<<w, q, d>>] > q) BY SkipsAre
<1>. QED BY <1>2, <1>3

\* The value at q ends where SkipValue says.
LEMMA SkipValueIs ==
    ASSUME NEW text \in Texts, NEW q \in Nat, NEW d \in Nat
    PROVE  SkipValue(text, q, d) =
             IF At(text, q) = Quote THEN SkipString(text, q)
             ELSE IF At(text, q) \in Literals THEN q + 1
             ELSE IF At(text, q) \in Opening
               THEN IF d >= MaxJsonDepth THEN 0
                    ELSE IF At(text, q + 1) = Closing(At(text, q)) THEN q + 2
                    ELSE Skip(text, At(text, q), q + 1, d)
             ELSE SkipNumber(text, q)
<1>1. PICK g \in Skips : \A w \in Whats, r \in Nat, e \in Nat :
              /\ Skip(text, w, r, e) = g[<<w, r, e>>]
              /\ g[<<w, r, e>>] = SkipStep(text, g, w, r, e)
  BY SkipSolves
<1>2. q + 1 \in Nat /\ "value" \in Whats /\ Opening \subseteq Whats BY DEF Whats
<1>3. SkipValue(text, q, d) = ValueStep(text, g, q, d)
  <2>1. Skip(text, "value", q, d) = g[<<"value", q, d>>] BY <1>1, <1>2, Zenon
  <2>2. g[<<"value", q, d>>] = SkipStep(text, g, "value", q, d) BY <1>1, <1>2, Zenon
  <2>. QED BY <2>1, <2>2, SkipStepIs DEF SkipValue
<1>4. At(text, q) \in Opening =>
         g[<<At(text, q), q + 1, d>>] = Skip(text, At(text, q), q + 1, d)
  BY <1>1, <1>2, Zenon
<1>. QED BY <1>3, <1>4 DEF ValueStep

\* Where the value of the item at q ends, or 0.
EndAt(text, w, q, d) ==
    IF ValueStepAt(text, w, q) = 0 THEN 0 ELSE SkipValue(text, ValueStepAt(text, w, q), d + 1)

\* The container ends where Skip says, from any of its items.
LEMMA SkipItemIs ==
    ASSUME NEW text \in Texts, NEW w \in Opening, NEW q \in Nat, NEW d \in Nat
    PROVE  Skip(text, w, q, d) =
             IF EndAt(text, w, q, d) = 0 THEN 0
             ELSE IF At(text, EndAt(text, w, q, d)) = Closing(w) THEN EndAt(text, w, q, d) + 1
             ELSE IF At(text, EndAt(text, w, q, d)) = ","
               THEN Skip(text, w, EndAt(text, w, q, d) + 1, d)
             ELSE 0
<1>1. PICK g \in Skips : \A v \in Whats, r \in Nat, e \in Nat :
              /\ Skip(text, v, r, e) = g[<<v, r, e>>]
              /\ g[<<v, r, e>>] = SkipStep(text, g, v, r, e)
  BY SkipSolves
<1>2. d + 1 \in Nat /\ "value" \in Whats /\ w \in Whats BY DEF Whats
<1>3. Skip(text, w, q, d) = ItemStep(text, g, w, q, d, EndStep(text, g, w, q, d))
  <2>1. Skip(text, w, q, d) = g[<<w, q, d>>] BY <1>1, <1>2
  <2>2. g[<<w, q, d>>] = SkipStep(text, g, w, q, d) BY <1>1, <1>2
  <2>. QED BY <2>1, <2>2, SkipStepIs
<1> DEFINE v == ValueStepAt(text, w, q)
           e == EndAt(text, w, q, d)
<1>4. v \in Nat BY ValueAtIs
<1>5. SkipValue(text, v, d + 1) = g[<<"value", v, d + 1>>]
  BY <1>1, <1>2, <1>4, Zenon DEF SkipValue
<1>6. EndStep(text, g, w, q, d) = e BY <1>5, Zenon DEF EndStep, EndAt
<1>7. e \in Nat BY <1>6, EndStepFine, Zenon
<1> HIDE DEF e
<1>8. e + 1 \in Nat BY <1>7
<1>9. Skip(text, w, e + 1, d) = g[<<w, e + 1, d>>] BY <1>1, <1>2, <1>8, Zenon
<1>10. Skip(text, w, q, d) = ItemStep(text, g, w, q, d, e) BY <1>3, <1>6
<1>. QED BY <1>9, <1>10, Zenon DEF ItemStep, e
-----------------------------------------------------------------------------
(* The walks over members, elements and escapes *)

\* Where the member at q has its value, and where that ends.
LEMMA MemberGoesOn ==
    ASSUME NEW text \in Texts, NEW q \in Nat, SkipString(text, q) # 0,
           SkipValue(text, SkipString(text, q) + 1, 1) # 0
    PROVE  /\ q <= Len(text) /\ SkipValue(text, SkipString(text, q) + 1, 1) + 1 \in Nat
           /\ SkipValue(text, SkipString(text, q) + 1, 1) + 1 > q
<1> DEFINE s == SkipString(text, q)
           p == SkipValue(text, s + 1, 1)
<1>1. s \in Nat /\ s > q /\ q <= Len(text) BY SkipStringIs
<1> HIDE DEF s
<1>2. s + 1 \in Nat /\ 1 \in Nat /\ "value" \in Whats BY <1>1 DEF Whats
<1>3. p \in Nat /\ (p = 0 \/ p > s + 1) BY <1>2, SkipGoesOn DEF SkipValue
<1>4. p # 0 BY DEF s
<1> HIDE DEF p
<1>5. p + 1 \in Nat /\ p + 1 > q BY <1>1, <1>3, <1>4
<1>. QED BY <1>1, <1>5 DEF p, s

MemberFound(text, key, f, q) ==
    LET name == SkipString(text, q)
        past == SkipValue(text, name + 1, 1)
    IN  IF name = 0 \/ At(text, name) # ":" \/ past = 0 THEN NoValue
        ELSE IF Unescaped(SubSeq(text, q + 1, name - 2)) = key
          THEN Value(text, name + 1, past)
        ELSE IF At(text, past) # "," THEN NoValue
        ELSE f[past + 1]

LEMMA FoundExists ==
    ASSUME NEW text \in Texts, NEW key
    PROVE  \E f : f = [q \in Nat |-> MemberFound(text, key, f, q)]
<1> DEFINE U == {NoValue}
                  \cup {Value(text, SkipString(text, q) + 1,
                              SkipValue(text, SkipString(text, q) + 1, 1)) : q \in Nat}
           D == [Nat -> U]
           F == [f \in D |-> [q \in Nat |-> MemberFound(text, key, f, q)]]
           m == Height(Len(text))
<1>1. Len(text) \in Nat BY TextIs
<1>2. [q \in Nat |-> NoValue] \in D OBVIOUS
<1>3. \A f \in D : F[f] \in D /\ f = [q \in Nat |-> f[q]]
  <2> TAKE f \in D
  <2>1. ASSUME NEW q \in Nat PROVE MemberFound(text, key, f, q) \in U
    <3> DEFINE name == SkipString(text, q)
               past == SkipValue(text, name + 1, 1)
    <3>1. \/ MemberFound(text, key, f, q) = NoValue \/ MemberFound(text, key, f, q) = Value(text, name + 1, past)
          \/ (name # 0 /\ past # 0 /\ MemberFound(text, key, f, q) = f[past + 1])
      BY Zenon DEF MemberFound
    <3>2. name # 0 /\ past # 0 => past + 1 \in Nat BY MemberGoesOn, Zenon
    <3>3. name # 0 /\ past # 0 => f[past + 1] \in U
      <4> HIDE DEF name, past, U
      <4>. QED BY <3>2
    <3>4. Value(text, name + 1, past) \in U /\ NoValue \in U OBVIOUS
    <3> HIDE DEF U
    <3>. QED BY <3>1, <3>3, <3>4, Zenon
  <2> HIDE DEF U
  <2>. QED BY <2>1
<1>4. /\ Len(text) + 1 \in Nat /\ \A q \in Nat : m[q] \in 0..Len(text) + 1
      /\ \A q, r \in Nat : q <= Len(text) /\ r > q => m[r] < m[q]
  BY <1>1, HeightFalls
<1>5. ASSUME NEW f \in D, NEW g \in D, NEW q \in Nat,
             \A y \in Nat : m[y] < m[q] => f[y] = g[y]
      PROVE  F[f][q] = F[g][q]
  <2> DEFINE name == SkipString(text, q)
             past == SkipValue(text, name + 1, 1)
  <2>1. name # 0 /\ past # 0 => q <= Len(text) /\ past + 1 \in Nat /\ past + 1 > q
    BY MemberGoesOn, Zenon
  <2>2. name # 0 /\ past # 0 => f[past + 1] = g[past + 1]
    <3> HIDE DEF D, F, m, name, past
    <3>. QED BY <1>4, <1>5, <2>1, Zenon
  <2>3. MemberFound(text, key, f, q) = MemberFound(text, key, g, q) BY <2>2, Zenon DEF MemberFound
  <2> HIDE DEF name, past, U
  <2>. QED BY <2>3
<1>6. \E f \in D : f = F[f]
  <2>1. D # {} BY <1>2
  <2>2. \A f, g \in D : \A x \in Nat :
              (\A y \in Nat : m[y] < m[x] => f[y] = g[y]) => F[f][x] = F[g][x]
    <3> HIDE DEF D, F, m
    <3>. QED BY <1>5
  <2> DEFINE n == Len(text) + 1
  <2>3. n \in Nat /\ \A q \in Nat : m[q] \in 0..n BY <1>4
  <2> HIDE DEF D, F, m, n
  <2>4. LooksAhead(Nat, D, F, m, n) BY <1>3, <2>1, <2>2, <2>3 DEF LooksAhead
  <2>. QED BY <2>4, SolutionExists
<1> HIDE DEF D
<1>. QED BY <1>6

\* The search goes from one member to the next.
LEMMA FindFromIs ==
    ASSUME NEW text \in Texts, NEW key, NEW q \in Nat
    PROVE  FindFrom(text, q, key) =
             LET name == SkipString(text, q)
                 past == SkipValue(text, name + 1, 1)
             IN  IF name = 0 \/ At(text, name) # ":" \/ past = 0 THEN NoValue
                 ELSE IF Unescaped(SubSeq(text, q + 1, name - 2)) = key
                   THEN Value(text, name + 1, past)
                 ELSE IF At(text, past) # "," THEN NoValue
                 ELSE FindFrom(text, past + 1, key)
<1> DEFINE f == CHOOSE f : f = [r \in Nat |-> MemberFound(text, key, f, r)]
<1>1. f = [r \in Nat |-> MemberFound(text, key, f, r)] BY FoundExists
<1>2. \A r : FindFrom(text, r, key) = f[r] BY DEF FindFrom, MemberFound
<1> HIDE DEF f
<1>3. f[q] = MemberFound(text, key, f, q) BY <1>1
<1>4. \A r : f[r] = FindFrom(text, r, key) BY <1>2
<1>. QED BY <1>3, <1>4, Zenon DEF MemberFound

\* Where the element at q ends.
LEMMA ElementGoesOn ==
    ASSUME NEW text \in Texts, NEW q \in Nat, At(text, SkipValue(text, q, 1)) = ","
    PROVE  SkipValue(text, q, 1) = 0 \/ (/\ q <= Len(text) /\ SkipValue(text, q, 1) + 1 \in Nat
                                        /\ SkipValue(text, q, 1) + 1 > q)
<1> DEFINE p == SkipValue(text, q, 1)
<1>1. 1 \in Nat /\ "value" \in Whats BY DEF Whats
<1>2. p \in Nat /\ (p = 0 \/ p > q) BY <1>1, SkipGoesOn DEF SkipValue
<1>3. p <= Len(text) BY <1>2, Ends
<1>4. Len(text) \in Nat BY TextIs
<1> HIDE DEF p
<1>5. p = 0 \/ (q <= Len(text) /\ p + 1 \in Nat /\ p + 1 > q)
  BY ONLY q \in Nat, <1>2, <1>3, <1>4
<1>. QED BY <1>5 DEF p

CountsOf(text, f, q) ==
    LET past == SkipValue(text, q, 1)
    IN  IF past = 0 THEN 0 ELSE IF At(text, past) # "," THEN 1 ELSE 1 + f[past + 1]

LEMMA CountsExist ==
    ASSUME NEW text \in Texts
    PROVE  \E f : f = [q \in Nat |-> CountsOf(text, f, q)]
<1> DEFINE D == [Nat -> Nat]
           F == [f \in D |-> [q \in Nat |-> CountsOf(text, f, q)]]
           m == Height(Len(text))
<1>1. Len(text) \in Nat BY TextIs
<1>2. [q \in Nat |-> 0] \in D OBVIOUS
<1>3. \A f \in D : F[f] \in D /\ f = [q \in Nat |-> f[q]]
  <2> TAKE f \in D
  <2>1. ASSUME NEW q \in Nat PROVE CountsOf(text, f, q) \in Nat
    <3> DEFINE past == SkipValue(text, q, 1)
    <3>1. \/ CountsOf(text, f, q) = 0 \/ CountsOf(text, f, q) = 1
          \/ (past # 0 /\ At(text, past) = "," /\ CountsOf(text, f, q) = 1 + f[past + 1])
      BY Zenon DEF CountsOf
    <3>2. past # 0 /\ At(text, past) = "," => past + 1 \in Nat BY ElementGoesOn, Zenon
    <3>3. past # 0 /\ At(text, past) = "," => f[past + 1] \in Nat
      <4> HIDE DEF past
      <4>. QED BY <3>2
    <3>4. past # 0 /\ At(text, past) = "," => 1 + f[past + 1] \in Nat
      <4> DEFINE x == f[past + 1]
      <4>1. x \in Nat => 1 + x \in Nat
        <5> HIDE DEF x
        <5>. QED OBVIOUS
      <4>. QED BY <3>3, <4>1, Zenon
    <3>5. 0 \in Nat /\ 1 \in Nat OBVIOUS
    <3>. QED BY <3>1, <3>4, <3>5, Zenon
  <2>. QED BY <2>1
<1>4. /\ Len(text) + 1 \in Nat /\ \A q \in Nat : m[q] \in 0..Len(text) + 1
      /\ \A q, r \in Nat : q <= Len(text) /\ r > q => m[r] < m[q]
  BY <1>1, HeightFalls
<1>5. ASSUME NEW f \in D, NEW g \in D, NEW q \in Nat,
             \A y \in Nat : m[y] < m[q] => f[y] = g[y]
      PROVE  F[f][q] = F[g][q]
  <2> DEFINE past == SkipValue(text, q, 1)
  <2>1. past # 0 /\ At(text, past) = "," =>
           q <= Len(text) /\ past + 1 \in Nat /\ past + 1 > q
    BY ElementGoesOn, Zenon
  <2>2. past # 0 /\ At(text, past) = "," => f[past + 1] = g[past + 1]
    <3> HIDE DEF D, F, m, past
    <3>. QED BY <1>4, <1>5, <2>1, Zenon
  <2>3. CountsOf(text, f, q) = CountsOf(text, g, q) BY <2>2, Zenon DEF CountsOf
  <2> HIDE DEF past
  <2>. QED BY <2>3
<1>6. \E f \in D : f = F[f]
  <2>1. D # {} BY <1>2
  <2>2. \A f, g \in D : \A x \in Nat :
              (\A y \in Nat : m[y] < m[x] => f[y] = g[y]) => F[f][x] = F[g][x]
    <3> HIDE DEF D, F, m
    <3>. QED BY <1>5
  <2> DEFINE n == Len(text) + 1
  <2>3. n \in Nat /\ \A q \in Nat : m[q] \in 0..n BY <1>4
  <2> HIDE DEF D, F, m, n
  <2>4. LooksAhead(Nat, D, F, m, n) BY <1>3, <2>1, <2>2, <2>3 DEF LooksAhead
  <2>. QED BY <2>4, SolutionExists
<1> HIDE DEF D
<1>. QED BY <1>6

\* The count goes from one element to the next.
LEMMA ElementsFromIs ==
    ASSUME NEW text \in Texts, NEW q \in Nat
    PROVE  ElementsFrom(text, q) =
             LET past == SkipValue(text, q, 1)
             IN  IF past = 0 THEN 0 ELSE IF At(text, past) # "," THEN 1
                 ELSE 1 + ElementsFrom(text, past + 1)
<1> DEFINE f == CHOOSE f : f = [r \in Nat |-> CountsOf(text, f, r)]
<1>1. f = [r \in Nat |-> CountsOf(text, f, r)] BY CountsExist
<1>2. \A r : ElementsFrom(text, r) = f[r] BY DEF ElementsFrom, CountsOf
<1> HIDE DEF f
<1>3. f[q] = CountsOf(text, f, q) BY <1>1
<1>4. \A r : f[r] = ElementsFrom(text, r) BY <1>2
<1>. QED BY <1>3, <1>4, Zenon DEF CountsOf

Pairs == Nat \X Int

LEMMA PairIs ==
    /\ \A x \in Pairs : x[1] \in Nat /\ x[2] \in Int
    /\ \A q \in Nat, i \in Int : <<q, i>> \in Pairs /\ <<q, i>>[1] = q /\ <<q, i>>[2] = i
BY DEF Pairs

Elemental(text, f, x) ==
    LET past == SkipValue(text, x[1], 1)
    IN  IF past = 0 THEN NoValue
        ELSE IF x[2] = 1 THEN Value(text, x[1], past)
        ELSE IF At(text, past) # "," THEN NoValue
        ELSE f[<<past + 1, x[2] - 1>>]

LEMMA ElementExists ==
    ASSUME NEW text \in Texts
    PROVE  \E f : f = [x \in Pairs |-> Elemental(text, f, x)]
<1> DEFINE U == {NoValue} \cup {Value(text, q, SkipValue(text, q, 1)) : q \in Nat}
           D == [Pairs -> U]
           F == [f \in D |-> [x \in Pairs |-> Elemental(text, f, x)]]
           h == Height(Len(text))
           m == [x \in Pairs |-> h[x[1]]]
<1>1. Len(text) \in Nat BY TextIs
<1>2. [x \in Pairs |-> NoValue] \in D OBVIOUS
<1>3. \A f \in D : F[f] \in D /\ f = [x \in Pairs |-> f[x]]
  <2> TAKE f \in D
  <2>1. ASSUME NEW x \in Pairs PROVE Elemental(text, f, x) \in U
    <3> DEFINE past == SkipValue(text, x[1], 1)
               e == Elemental(text, f, x)
    <3>1. \/ e = NoValue \/ e = Value(text, x[1], past)
          \/ (past # 0 /\ At(text, past) = "," /\ e = f[<<past + 1, x[2] - 1>>])
      BY Zenon DEF Elemental
    <3>2. x[1] \in Nat /\ x[2] \in Int /\ x[2] - 1 \in Int BY PairIs
    <3>3. past # 0 /\ At(text, past) = "," => past + 1 \in Nat BY <3>2, ElementGoesOn, Zenon
    <3>4. Value(text, x[1], past) \in U /\ NoValue \in U BY <3>2
    <3>5. past # 0 /\ At(text, past) = "," => f[<<past + 1, x[2] - 1>>] \in U
      <4> HIDE DEF past, U
      <4>1. past # 0 /\ At(text, past) = "," => <<past + 1, x[2] - 1>> \in Pairs
        BY <3>2, <3>3, PairIs, Zenon
      <4>. QED BY <4>1
    <3> HIDE DEF U
    <3>. QED BY <3>1, <3>4, <3>5, Zenon
  <2> HIDE DEF U
  <2>. QED BY <2>1
<1>4. /\ Len(text) + 1 \in Nat /\ \A q \in Nat : h[q] \in 0..Len(text) + 1
      /\ \A q, r \in Nat : q <= Len(text) /\ r > q => h[r] < h[q]
  BY <1>1, HeightFalls
<1>5. /\ \A x \in Pairs : m[x] = h[x[1]] OBVIOUS
<1>6. ASSUME NEW f \in D, NEW g \in D, NEW x \in Pairs,
             \A y \in Pairs : m[y] < m[x] => f[y] = g[y]
      PROVE  F[f][x] = F[g][x]
  <2> DEFINE q == x[1]
             i == x[2] - 1
             past == SkipValue(text, q, 1)
  <2>1. q \in Nat /\ i \in Int BY PairIs
  <2>2. past # 0 /\ At(text, past) = "," =>
           q <= Len(text) /\ past + 1 \in Nat /\ past + 1 > q
    BY <2>1, ElementGoesOn, Zenon
  <2>3. past # 0 /\ At(text, past) = "," => f[<<past + 1, i>>] = g[<<past + 1, i>>]
    <3>1. SUFFICES ASSUME past # 0, At(text, past) = ","
                   PROVE  f[<<past + 1, i>>] = g[<<past + 1, i>>]
      OBVIOUS
    <3> DEFINE y == <<past + 1, i>>
    <3> HIDE DEF D, F, past, i, h
    <3>2. y \in Pairs /\ y[1] = past + 1 BY <2>1, <2>2, <3>1, PairIs, Zenon
    <3>3. h[past + 1] < h[q] BY <1>4, <2>1, <2>2, <3>1, Zenon
    <3> HIDE DEF m
    <3>4. m[y] < m[x]
      <4>1. m[y] = h[past + 1] BY <1>5, <3>2
      <4>2. m[x] = h[q] BY <1>5
      <4> HIDE DEF y, q
      <4>. QED BY <3>3, <4>1, <4>2
    <3> HIDE DEF y
    <3>5. f[y] = g[y] BY <1>6, <3>2, <3>4
    <3>. QED BY <3>5 DEF y
  <2>4. Elemental(text, f, x) = Elemental(text, g, x) BY <2>3, Zenon DEF Elemental
  <2> HIDE DEF past, U, i, q
  <2>. QED BY <2>4
<1>7. \E f \in D : f = F[f]
  <2>1. D # {} BY <1>2
  <2>2. \A f, g \in D : \A x \in Pairs :
              (\A y \in Pairs : m[y] < m[x] => f[y] = g[y]) => F[f][x] = F[g][x]
    <3> HIDE DEF D, F, m
    <3>. QED BY <1>6
  <2> DEFINE n == Len(text) + 1
  <2>3. n \in Nat /\ \A x \in Pairs : m[x] \in 0..n
    <3> HIDE DEF h
    <3>. QED BY <1>4, PairIs
  <2> HIDE DEF D, F, m, n
  <2>4. LooksAhead(Pairs, D, F, m, n) BY <1>3, <2>1, <2>2, <2>3 DEF LooksAhead
  <2>. QED BY <2>4, SolutionExists
<1> HIDE DEF D
<1>. QED BY <1>7

\* So does the search for an element.
LEMMA ElementAtIs ==
    ASSUME NEW text \in Texts, NEW q \in Nat, NEW i \in Int
    PROVE  ElementAt(text, q, i) =
             LET past == SkipValue(text, q, 1)
             IN  IF past = 0 THEN NoValue
                 ELSE IF i = 1 THEN Value(text, q, past)
                 ELSE IF At(text, past) # "," THEN NoValue
                 ELSE ElementAt(text, past + 1, i - 1)
<1> DEFINE f == CHOOSE f : f = [x \in Pairs |-> Elemental(text, f, x)]
<1>1. f = [x \in Pairs |-> Elemental(text, f, x)] BY ElementExists
<1>2. \A r, j : ElementAt(text, r, j) = f[<<r, j>>] BY DEF ElementAt, Elemental, Pairs
<1> HIDE DEF f
<1>3. f[<<q, i>>] = Elemental(text, f, <<q, i>>)
  <2>1. <<q, i>> \in Pairs BY PairIs
  <2>. QED BY <1>1, <2>1
<1>4. \A r, j : f[<<r, j>>] = ElementAt(text, r, j) BY <1>2
<1>5. <<q, i>>[1] = q /\ <<q, i>>[2] = i BY PairIs
<1>6. f[<<q, i>>] =
         LET past == SkipValue(text, q, 1)
         IN  IF past = 0 THEN NoValue
             ELSE IF i = 1 THEN Value(text, q, past)
             ELSE IF At(text, past) # "," THEN NoValue
             ELSE f[<<past + 1, i - 1>>]
  BY <1>3, <1>5 DEF Elemental
<1>. QED BY <1>4, <1>6, Zenon
-----------------------------------------------------------------------------
(* Strings and their escapes *)

LEMMA TextsJoined ==
    ASSUME NEW s \in Texts, NEW t \in Texts
    PROVE  /\ s \o t \in Texts /\ Len(s \o t) = Len(s) + Len(t)
           /\ \A i \in 1..Len(s) : (s \o t)[i] = s[i]
           /\ \A i \in 1..Len(t) : (s \o t)[Len(s) + i] = t[i]
<1>1. Len(s) \in Nat /\ Len(t) \in Nat BY TextIs
<1>. QED BY <1>1, ConcatProperties DEF Texts

LEMMA PartOfText ==
    ASSUME NEW b \in Texts, NEW m \in Nat \ {0}, NEW n \in Int, n <= Len(b), m <= n + 1
    PROVE  /\ SubSeq(b, m, n) \in Texts /\ Len(SubSeq(b, m, n)) = n + 1 - m
           /\ \A i \in 1..n + 1 - m : SubSeq(b, m, n)[i] = b[m + i - 1]
<1>1. \A i \in m..n : b[i] \in Characters
  <2>1. \A i \in 1..Len(b) : b[i] \in Characters BY ElementOfSeq DEF Texts
  <2>2. \A i \in m..n : i \in 1..Len(b) BY TextIs
  <2>. QED BY <2>1, <2>2
<1>2. /\ SubSeq(b, m, n) \in Texts
      /\ Len(SubSeq(b, m, n)) = IF m <= n THEN n - m + 1 ELSE 0
      /\ \A i \in 1..n - m + 1 : SubSeq(b, m, n)[i] = b[m + i - 1]
  BY <1>1, SubSeqProperties DEF Texts
<1>3. n - m + 1 = n + 1 - m /\ (m <= n \/ n + 1 - m = 0) OBVIOUS
<1>. QED BY <1>2, <1>3

LEMMA SameText ==
    ASSUME NEW s \in Texts, NEW t \in Texts, Len(s) = Len(t), \A i \in 1..Len(s) : s[i] = t[i]
    PROVE  s = t
BY SeqEqual DEF Texts

LEMMA OneCharacter ==
    ASSUME NEW c \in Characters
    PROVE  <<c>> \in Texts /\ Len(<<c>>) = 1 /\ <<c>>[1] = c
BY DEF Texts

LEMMA TwoCharacters ==
    ASSUME NEW c \in Characters, NEW d \in Characters
    PROVE  <<c, d>> \in Texts /\ Len(<<c, d>>) = 2 /\ <<c, d>>[1] = c /\ <<c, d>>[2] = d
BY DEF Texts

LEMMA NoText == <<>> \in Texts /\ Len(<<>>) = 0
BY DEF Texts

LEMMA SignsAreCharacters ==
    /\ Quote \in Characters /\ Slash \in Characters
    /\ Opening \cup Literals \cup {"}", "]", ",", ":", "1"} \subseteq Characters
BY JsonAssumption

Special == {Quote, Slash}

\* How a character is written.
Piece(c) == IF c \in Special THEN <<Slash, c>> ELSE <<c>>

LEMMA PieceIs ==
    ASSUME NEW c \in Characters
    PROVE  /\ Piece(c) \in Texts
           /\ Len(Piece(c)) = IF c \in Special THEN 2 ELSE 1
           /\ IF c \in Special THEN Piece(c)[1] = Slash /\ Piece(c)[2] = c ELSE Piece(c)[1] = c
<1>1. Slash \in Characters BY SignsAreCharacters
<1>2. CASE c \in Special BY <1>1, <1>2, TwoCharacters DEF Piece
<1>3. CASE c \notin Special BY <1>3, OneCharacter DEF Piece
<1>. QED BY <1>2, <1>3

Flattens(text, f, i) == IF i = 1 THEN Piece(text[i]) ELSE f[i - 1] \o Piece(text[i])

LEMMA FlattenExists ==
    ASSUME NEW text \in Texts
    PROVE  \E f : f = [i \in 1..Len(text) |-> Flattens(text, f, i)]
<1> DEFINE n == Len(text)
           D == [1..n -> Texts]
           F == [f \in D |-> [i \in 1..n |-> Flattens(text, f, i)]]
           m == [i \in 1..n |-> i]
<1>1. n \in Nat BY TextIs
<1>2. D # {}
  <2>1. [i \in 1..n |-> <<>>] \in D BY NoText
  <2>. QED BY <2>1
<1>3. \A i \in 1..n : Piece(text[i]) \in Texts BY PieceIs, ElementOfSeq DEF Texts
<1>4. \A i \in 1..n : i = 1 \/ i - 1 \in 1..n BY <1>1
<1>5. \A f \in D : F[f] \in D /\ f = [i \in 1..n |-> f[i]]
  <2> TAKE f \in D
  <2>1. ASSUME NEW i \in 1..n PROVE Flattens(text, f, i) \in Texts
    <3>1. i # 1 => f[i - 1] \in Texts BY <1>4
    <3>2. i # 1 => f[i - 1] \o Piece(text[i]) \in Texts BY <1>3, <3>1, TextsJoined
    <3>. QED BY <1>3, <3>2 DEF Flattens
  <2>. QED BY <2>1
<1>6. ASSUME NEW f \in D, NEW g \in D, NEW i \in 1..n,
             \A y \in 1..n : m[y] < m[i] => f[y] = g[y]
      PROVE  F[f][i] = F[g][i]
  <2>1. i # 1 => m[i - 1] < m[i] BY <1>4
  <2>2. i # 1 => f[i - 1] = g[i - 1] BY <1>4, <1>6, <2>1
  <2>3. Flattens(text, f, i) = Flattens(text, g, i) BY <2>2 DEF Flattens
  <2>. QED BY <2>3
<1>7. \A i \in 1..n : m[i] \in 0..n BY <1>1
<1>8. \E f \in D : f = F[f]
  <2>1. \A f, g \in D : \A x \in 1..n :
              (\A y \in 1..n : m[y] < m[x] => f[y] = g[y]) => F[f][x] = F[g][x]
    <3> HIDE DEF D, F, m
    <3>. QED BY <1>6
  <2> HIDE DEF D, F, m, n
  <2>2. LooksAhead(1..n, D, F, m, n) BY <1>1, <1>2, <1>5, <1>7, <2>1 DEF LooksAhead
  <2>. QED BY <2>2, SolutionExists
<1> HIDE DEF D
<1>. QED BY <1>8

\* The first n characters of a text lie in b, each where P says.
Laid(text, n, b, P) ==
    /\ P[1] = 1 /\ P[n + 1] = Len(b) + 1
    /\ \A i \in 1..n :
         /\ P[i] \in Nat \ {0} /\ P[i + 1] \in Nat /\ P[i + 1] <= Len(b) + 1
         /\ IF text[i] \in Special
              THEN P[i + 1] = P[i] + 2 /\ b[P[i]] = Slash /\ b[P[i] + 1] = text[i]
            ELSE P[i + 1] = P[i] + 1 /\ b[P[i]] = text[i]

\* One more.
LEMMA OneMoreLaid ==
    ASSUME NEW text \in Texts, NEW n \in Nat, n + 1 <= Len(text), NEW b \in Texts, NEW P,
           Laid(text, n, b, P), P[n + 2] = Len(b \o Piece(text[n + 1])) + 1
    PROVE  Laid(text, n + 1, b \o Piece(text[n + 1]), P)
<1> DEFINE c == text[n + 1]
           e == b \o Piece(c)
<1>1. Len(text) \in Nat /\ Len(b) \in Nat BY TextIs
<1>2. c \in Characters
  <2>1. n + 1 \in 1..Len(text) BY <1>1
  <2>. QED BY <2>1, ElementOfSeq DEF Texts
<1>3. /\ Piece(c) \in Texts /\ Len(Piece(c)) = IF c \in Special THEN 2 ELSE 1
      /\ IF c \in Special THEN Piece(c)[1] = Slash /\ Piece(c)[2] = c ELSE Piece(c)[1] = c
  BY <1>2, PieceIs
<1>4. /\ Len(e) = Len(b) + Len(Piece(c))
      /\ \A i \in 1..Len(b) : e[i] = b[i]
      /\ \A i \in 1..Len(Piece(c)) : e[Len(b) + i] = Piece(c)[i]
  BY <1>3, TextsJoined
<1>5. P[n + 2] = Len(e) + 1 OBVIOUS
<1> HIDE DEF e
<1>6. P[1] = 1 /\ P[(n + 1) + 1] = Len(e) + 1
  <2>1. n + 2 = (n + 1) + 1 OBVIOUS
  <2>. QED BY <1>5, <2>1 DEF Laid
<1>7. Len(e) \in Nat /\ Len(b) <= Len(e) BY <1>1, <1>3, <1>4
<1>8. ASSUME NEW i \in 1..n + 1
      PROVE  /\ P[i] \in Nat \ {0} /\ P[i + 1] \in Nat /\ P[i + 1] <= Len(e) + 1
             /\ IF text[i] \in Special
                  THEN P[i + 1] = P[i] + 2 /\ e[P[i]] = Slash /\ e[P[i] + 1] = text[i]
                ELSE P[i + 1] = P[i] + 1 /\ e[P[i]] = text[i]
  <2>1. CASE i \in 1..n
    <3>1. /\ P[i] \in Nat \ {0} /\ P[i + 1] \in Nat /\ P[i + 1] <= Len(b) + 1
          /\ IF text[i] \in Special
               THEN P[i + 1] = P[i] + 2 /\ b[P[i]] = Slash /\ b[P[i] + 1] = text[i]
             ELSE P[i + 1] = P[i] + 1 /\ b[P[i]] = text[i]
      BY <2>1 DEF Laid
    <3> DEFINE p == P[i]
               r == P[i + 1]
    <3>2. /\ p \in Nat \ {0} /\ r \in Nat /\ r <= Len(b) + 1
          /\ IF text[i] \in Special THEN r = p + 2 /\ b[p] = Slash /\ b[p + 1] = text[i]
             ELSE r = p + 1 /\ b[p] = text[i]
      BY <3>1
    <3> HIDE DEF p, r
    <3>3. r <= Len(e) + 1 BY ONLY <1>1, <1>7, <3>2
    <3>4. CASE text[i] \in Special
      <4>1. r = p + 2 /\ b[p] = Slash /\ b[p + 1] = text[i] BY <3>2, <3>4
      <4>2. p \in 1..Len(b) /\ p + 1 \in 1..Len(b) BY ONLY <1>1, <3>2, <4>1
      <4>3. e[p] = Slash /\ e[p + 1] = text[i] BY <1>4, <4>1, <4>2
      <4>. QED BY <3>2, <3>3, <3>4, <4>1, <4>3 DEF p, r
    <3>5. CASE text[i] \notin Special
      <4>1. r = p + 1 /\ b[p] = text[i] BY <3>2, <3>5
      <4>2. p \in 1..Len(b) BY ONLY <1>1, <3>2, <4>1
      <4>3. e[p] = text[i] BY <1>4, <4>1, <4>2
      <4>. QED BY <3>2, <3>3, <3>5, <4>1, <4>3 DEF p, r
    <3>. QED BY <3>4, <3>5
  <2>2. CASE i = n + 1
    <3>1. P[n + 1] = Len(b) + 1 BY DEF Laid
    <3>2. P[i] = Len(b) + 1 /\ P[i + 1] = Len(e) + 1 /\ text[i] = c BY <1>6, <2>2, <3>1
    <3>3. CASE c \in Special
      <4>1. Len(Piece(c)) = 2 /\ Piece(c)[1] = Slash /\ Piece(c)[2] = c BY <1>3, <3>3
      <4>2. e[Len(b) + 1] = Slash /\ e[Len(b) + 2] = c BY <1>4, <4>1
      <4>3. (Len(b) + 1) + 1 = Len(b) + 2 /\ Len(e) + 1 = (Len(b) + 1) + 2 BY <1>1, <1>4, <4>1
      <4>. QED BY <1>1, <1>7, <3>2, <3>3, <4>2, <4>3
    <3>4. CASE c \notin Special
      <4>1. Len(Piece(c)) = 1 /\ Piece(c)[1] = c BY <1>3, <3>4
      <4>2. e[Len(b) + 1] = c BY <1>4, <4>1
      <4>3. Len(e) + 1 = (Len(b) + 1) + 1 BY <1>1, <1>4, <4>1
      <4>. QED BY <1>1, <1>7, <3>2, <3>4, <4>2, <4>3
    <3>. QED BY <3>3, <3>4
  <2>. QED BY <2>1, <2>2
<1>9. Laid(text, n + 1, e, P) BY <1>6, <1>8 DEF Laid
<1>. QED BY <1>9 DEF e

LEMMA EscapedIs ==
    ASSUME NEW text \in Texts
    PROVE  Escaped(text) \in Texts /\ \E P : Laid(text, Len(text), Escaped(text), P)
<1> DEFINE n == Len(text)
           s == [i \in 1..n |-> IF text[i] \in {Quote, Slash} THEN <<Slash, text[i]>> ELSE <<text[i]>>]
<1>1. n \in Nat BY TextIs
<1>2. Len(s) = n /\ DOMAIN s = 1..n /\ \A i \in 1..n : s[i] = Piece(text[i])
  <2>1. \A i \in 1..n : s[i] = Piece(text[i]) BY DEF Piece, Special
  <2>. QED BY <1>1, <2>1
<1>3. CASE n = 0
  <2>1. Escaped(text) = s BY <1>2, <1>3, Zenon DEF Escaped, FlattenSeq
  <2>2. s = <<>> BY <1>3
  <2>3. Laid(text, n, <<>>, [i \in {1} |-> 1]) BY <1>3, NoText DEF Laid
  <2>. QED BY <2>1, <2>2, <2>3, NoText
<1>4. CASE n # 0
  <2> DEFINE f == CHOOSE f : f = [i \in 1..n |-> Flattens(text, f, i)]
             P == [i \in 1..n + 1 |-> IF i = 1 THEN 1 ELSE Len(f[i - 1]) + 1]
  <2>1. f = [i \in 1..n |-> Flattens(text, f, i)] BY FlattenExists
  <2>2. Escaped(text) = f[n]
    <3> DEFINE h == CHOOSE h : h = [i \in 1..Len(s) |-> IF i = 1 THEN s[i] ELSE h[i - 1] \o s[i]]
    <3>1. Escaped(text) = h[Len(s)]
      <4>1. Len(s) # 0 BY <1>2, <1>4
      <4>. QED BY <4>1, Zenon DEF Escaped, FlattenSeq
    <3>2. \A g : [i \in 1..Len(s) |-> IF i = 1 THEN s[i] ELSE g[i - 1] \o s[i]]
                    = [i \in 1..n |-> Flattens(text, g, i)]
      BY <1>2 DEF Flattens
    <3>3. h = f BY <3>2, Zenon
    <3>. QED BY <1>2, <3>1, <3>3
  <2> HIDE DEF f
  <2>3. \A i \in 1..n : f[i] = Flattens(text, f, i) BY <2>1
  <2>4. P[1] = 1 /\ \A i \in 1..n : P[i + 1] = Len(f[i]) + 1 BY <1>1
  <2> HIDE DEF P
  <2> DEFINE S == {k \in Nat : k + 1 <= n => f[k + 1] \in Texts /\ Laid(text, k + 1, f[k + 1], P)}
  <2>5. \A i \in 1..n : text[i] \in Characters BY ElementOfSeq DEF Texts
  <2>6. 0 \in S
    <3>1. 1 \in 1..n BY <1>1, <1>4
    <3>2. f[1] = Piece(text[1]) BY <2>3, <3>1 DEF Flattens
    <3>3. Piece(text[1]) \in Texts BY <2>5, <3>1, PieceIs
    <3>4. Laid(text, 0, <<>>, P) BY <2>4, NoText DEF Laid
    <3>5. <<>> \o Piece(text[1]) = Piece(text[1]) BY <3>3, ConcatEmptySeq DEF Texts
    <3>6. P[0 + 2] = Len(<<>> \o Piece(text[0 + 1])) + 1 BY <2>4, <3>1, <3>2, <3>5
    <3>7. 0 + 1 <= Len(text) /\ 0 \in Nat BY <1>1, <1>4
    <3>8. Laid(text, 0 + 1, <<>> \o Piece(text[0 + 1]), P)
      BY <3>4, <3>6, <3>7, NoText, OneMoreLaid
    <3>. QED BY <3>2, <3>3, <3>5, <3>8
  <2>7. ASSUME NEW k \in Nat, k \in S PROVE k + 1 \in S
    <3>1. SUFFICES ASSUME (k + 1) + 1 <= n
                   PROVE  /\ f[(k + 1) + 1] \in Texts
                          /\ Laid(text, (k + 1) + 1, f[(k + 1) + 1], P)
      OBVIOUS
    <3> DEFINE i == k + 1
    <3>2. i \in Nat /\ i + 1 \in 1..n /\ i + 1 # 1 /\ (i + 1) - 1 = i BY <1>1, <3>1
    <3>3. f[i] \in Texts /\ Laid(text, i, f[i], P) BY <1>1, <2>7, <3>1
    <3> HIDE DEF i
    <3>4. f[i + 1] = f[i] \o Piece(text[i + 1]) BY <2>3, <3>2 DEF Flattens
    <3>5. Piece(text[i + 1]) \in Texts BY <2>5, <3>2, PieceIs
    <3>6. f[i + 1] \in Texts BY <3>3, <3>4, <3>5, TextsJoined
    <3>7. P[(i + 1) + 1] = Len(f[i + 1]) + 1 BY <2>4, <3>2
    <3>8. (i + 1) + 1 = i + 2 /\ i + 1 <= Len(text) BY <3>2
    <3>9. P[i + 2] = Len(f[i] \o Piece(text[i + 1])) + 1 BY <3>4, <3>7, <3>8
    <3>10. Laid(text, i + 1, f[i] \o Piece(text[i + 1]), P)
      BY <3>2, <3>3, <3>8, <3>9, OneMoreLaid
    <3>. QED BY <3>4, <3>6, <3>10 DEF i
  <2>8. n - 1 \in S
    <3>1. Nat \subseteq S
      <4> HIDE DEF S
      <4>. QED BY <2>6, <2>7, CountedUp
    <3>. QED BY <1>1, <1>4, <3>1
  <2>9. f[n] \in Texts /\ Laid(text, n, f[n], P)
    <3>1. n - 1 + 1 <= n /\ n - 1 + 1 = n BY <1>1
    <3>. QED BY <2>8, <3>1
  <2>. QED BY <2>2, <2>9
<1>. QED BY <1>3, <1>4

\* A quoted text between its quotes.
LEMMA QuotedIs ==
    ASSUME NEW text \in Texts
    PROVE  /\ Quoted(text) \in Texts /\ Len(Quoted(text)) = Len(Escaped(text)) + 2
           /\ Quoted(text)[1] = Quote /\ Quoted(text)[Len(Escaped(text)) + 2] = Quote
           /\ \A j \in 1..Len(Escaped(text)) : Quoted(text)[1 + j] = Escaped(text)[j]
<1> DEFINE b == Escaped(text)
<1>1. b \in Texts BY EscapedIs
<1> HIDE DEF b
<1>2. <<Quote>> \in Texts /\ Len(<<Quote>>) = 1 /\ <<Quote>>[1] = Quote
  BY SignsAreCharacters, OneCharacter
<1> DEFINE x == <<Quote>> \o b
           y == x \o <<Quote>>
<1>3. Len(b) \in Nat BY <1>1, TextIs
<1>4. /\ x \in Texts /\ Len(x) = 1 + Len(b) /\ x[1] = Quote
      /\ \A j \in 1..Len(b) : x[1 + j] = b[j]
  <2>1. 1 \in 1..1 OBVIOUS
  <2>. QED BY <1>1, <1>2, <2>1, TextsJoined
<1> HIDE DEF x
<1>5. /\ y \in Texts /\ Len(y) = Len(x) + 1 /\ y[Len(x) + 1] = Quote
      /\ \A j \in 1..Len(x) : y[j] = x[j]
  BY <1>2, <1>4, TextsJoined
<1>6. y = Quoted(text) BY DEF x, y, b, Quoted
<1> HIDE DEF y
<1>7. Len(y) = Len(b) + 2 /\ Len(x) + 1 = Len(b) + 2 BY <1>3, <1>4, <1>5
<1>8. 1 \in 1..Len(x) /\ \A j \in 1..Len(b) : 1 + j \in 1..Len(x) BY <1>3, <1>4
<1>9. y[1] = Quote /\ \A j \in 1..Len(b) : y[1 + j] = b[j] BY <1>4, <1>5, <1>8
<1>10. y[Len(b) + 2] = Quote BY <1>5, <1>7
<1>. QED BY <1>5, <1>6, <1>7, <1>9, <1>10 DEF b

\* What x begins with lies at q, as far as t goes.
TextShows(t, q, x) == \A j \in 1..Len(x) : q + j - 1 <= Len(t) => t[q + j - 1] = x[j]

\* The reader passes over a quoted text, whatever is in it, and over no part of one.
LEMMA SkipQuoted ==
    ASSUME NEW t \in Texts, NEW q \in Nat \ {0}, NEW text \in Texts, TextShows(t, q, Quoted(text))
    PROVE  SkipString(t, q) = IF q + Len(Quoted(text)) <= Len(t) + 1
                                THEN q + Len(Quoted(text)) ELSE 0
<1> DEFINE b == Escaped(text)
           n == Len(text)
           z == q + Len(b) + 1
           result == IF z <= Len(t) THEN z + 1 ELSE 0
<1>1. b \in Texts BY EscapedIs
<1>2. PICK P : Laid(text, n, b, P) BY EscapedIs
<1>3. /\ Len(Quoted(text)) = Len(b) + 2
      /\ Quoted(text)[1] = Quote /\ Quoted(text)[Len(b) + 2] = Quote
      /\ \A j \in 1..Len(b) : Quoted(text)[1 + j] = b[j]
  BY QuotedIs
<1> HIDE DEF b
<1>4. Len(b) \in Nat /\ Len(t) \in Nat /\ n \in Nat BY <1>1, TextIs
<1>5. \A j \in 1..Len(b) + 2 : q + j - 1 <= Len(t) => t[q + j - 1] = Quoted(text)[j]
  BY <1>3 DEF TextShows
<1>6. q <= Len(t) => t[q] = Quote
  <2>1. 1 \in 1..Len(b) + 2 /\ q + 1 - 1 = q BY <1>4
  <2>. QED BY <1>3, <1>5, <2>1
<1>7. z <= Len(t) => t[z] = Quote
  <2>1. Len(b) + 2 \in 1..Len(b) + 2 /\ q + (Len(b) + 2) - 1 = z BY <1>4
  <2>. QED BY <1>3, <1>5, <2>1
<1>8. \A j \in 1..Len(b) : q + j <= Len(t) => t[q + j] = b[j]
  <2>1. \A j \in 1..Len(b) : 1 + j \in 1..Len(b) + 2 /\ q + (1 + j) - 1 = q + j BY <1>4
  <2>. QED BY <1>3, <1>5, <2>1
<1>9. z \in Nat BY <1>4
<1> HIDE DEF z
<1> DEFINE S == {i \in 1..n + 1 : SkipBody(t, q + P[i]) = result}
<1>10. n + 1 \in S
  <2>1. P[n + 1] = Len(b) + 1 BY <1>2 DEF Laid
  <2>2. q + P[n + 1] = z BY <1>4, <2>1 DEF z
  <2>3. SkipBody(t, z) = result
    <3>1. CASE z <= Len(t)
      <4>1. At(t, z) = Quote BY <1>4, <1>7, <1>9, <3>1 DEF At, z
      <4>. QED BY <1>9, <3>1, <4>1, SkipBodyIs, Marks
    <3>2. CASE ~(z <= Len(t))
      <4>1. At(t, z) = "end" BY <3>2 DEF At
      <4>. QED BY <1>9, <3>2, <4>1, SkipBodyIs
    <3>. QED BY <3>1, <3>2
  <2>. QED BY <1>4, <2>2, <2>3
<1>11. ASSUME NEW i \in 1..n, i + 1 \in S PROVE i \in S
  <2> DEFINE p == P[i]
             r == P[i + 1]
  <2>1. /\ p \in Nat \ {0} /\ r \in Nat /\ r <= Len(b) + 1
        /\ IF text[i] \in Special THEN r = p + 2 /\ b[p] = Slash /\ b[p + 1] = text[i]
           ELSE r = p + 1 /\ b[p] = text[i]
    BY <1>2 DEF Laid
  <2>2. SkipBody(t, q + r) = result BY <1>11
  <2> HIDE DEF p, r
  <2>3. p \in 1..Len(b) /\ q + p \in Nat /\ q + p < z BY <1>4, <2>1 DEF z
  <2>4. SkipBody(t, q + p) = result
    <3>1. CASE q + p > Len(t)
      <4>1. At(t, q + p) = "end" BY <1>4, <2>3, <3>1 DEF At
      <4>2. result = 0 BY <1>4, <1>9, <2>3, <3>1
      <4>. QED BY <2>3, <4>1, <4>2, SkipBodyIs
    <3>2. CASE q + p <= Len(t)
      <4>1. At(t, q + p) = b[p]
        <5>1. q + p \in 1..Len(t) BY <1>4, <2>3, <3>2
        <5>. QED BY <1>8, <2>3, <3>2, <5>1 DEF At
      <4>2. CASE text[i] \in Special
        <5>1. q + r = (q + p) + 2 /\ b[p] = Slash BY <2>1, <4>2
        <5>. QED BY <2>2, <2>3, <4>1, <5>1, SkipBodyIs, Marks
      <4>3. CASE text[i] \notin Special
        <5>1. q + r = (q + p) + 1 /\ b[p] # Slash /\ b[p] # Quote BY <2>1, <4>3 DEF Special
        <5>2. b[p] # "end"
          <6>1. At(t, q + p) # "end" BY <1>4, <2>3, <3>2, TextIs
          <6>. QED BY <4>1, <6>1
        <5>. QED BY <2>2, <2>3, <4>1, <5>1, <5>2, SkipBodyIs
      <4>. QED BY <4>2, <4>3
    <3>. QED BY <1>4, <2>3, <3>1, <3>2
  <2>. QED BY <2>4 DEF p
<1>12. 1 \in S
  <2>1. 1..n + 1 \subseteq S
    <3> HIDE DEF S
    <3>. QED BY <1>4, <1>10, <1>11, CountedDown
  <2>. QED BY <1>4, <2>1
<1>13. SkipBody(t, q + 1) = result
  <2>1. P[1] = 1 BY <1>2 DEF Laid
  <2>. QED BY <1>12, <2>1
<1>14. SkipString(t, q) = result
  <2>1. CASE q <= Len(t)
    <3>1. At(t, q) = Quote BY <1>4, <1>6, <2>1 DEF At
    <3>. QED BY <1>13, <3>1 DEF SkipString
  <2>2. CASE ~(q <= Len(t))
    <3>1. At(t, q) # Quote BY <2>2, Marks DEF At
    <3>2. result = 0 BY <1>4, <2>2 DEF z
    <3>. QED BY <3>1, <3>2 DEF SkipString
  <2>. QED BY <2>1, <2>2
<1>15. result = IF q + Len(Quoted(text)) <= Len(t) + 1 THEN q + Len(Quoted(text)) ELSE 0
  <2>1. q + (Len(b) + 2) = z + 1 /\ (z <= Len(t)) = (z + 1 <= Len(t) + 1) BY <1>4 DEF z
  <2>. QED BY <1>3, <2>1
<1>. QED BY <1>14, <1>15
-----------------------------------------------------------------------------
\* One step of Unescaped.
Unescapes(body, f, i) ==
    IF i > Len(body) THEN <<>>
    ELSE IF body[i] = Slash THEN <<body[i + 1]>> \o f[i + 2]
    ELSE <<body[i]>> \o f[i + 1]

LEMMA UnescapesExist ==
    ASSUME NEW body \in Texts
    PROVE  \E f : f = [i \in Nat |-> Unescapes(body, f, i)]
<1> DEFINE C == {body[k] : k \in Nat}
           D == [Nat -> Seq(C)]
           F == [f \in D |-> [i \in Nat |-> Unescapes(body, f, i)]]
           m == Height(Len(body))
<1>1. Len(body) \in Nat BY TextIs
<1>2. [i \in Nat |-> <<>>] \in D OBVIOUS
<1>3. \A f \in D : F[f] \in D /\ f = [i \in Nat |-> f[i]]
  <2> TAKE f \in D
  <2>1. ASSUME NEW i \in Nat PROVE Unescapes(body, f, i) \in Seq(C)
    <3>2. body[i] \in C /\ body[i + 1] \in C BY i + 1 \in Nat
    <3> HIDE DEF C
    <3>1. f[i + 1] \in Seq(C) /\ f[i + 2] \in Seq(C) BY i + 1 \in Nat, i + 2 \in Nat
    <3>3. <<body[i]>> \in Seq(C) /\ <<body[i + 1]>> \in Seq(C) BY <3>2
    <3>4. <<body[i]>> \o f[i + 1] \in Seq(C) /\ <<body[i + 1]>> \o f[i + 2] \in Seq(C)
      BY <3>1, <3>3, ConcatProperties
    <3>5. <<>> \in Seq(C) OBVIOUS
    <3>. QED BY <3>4, <3>5 DEF Unescapes
  <2>. QED BY <2>1
<1>4. /\ Len(body) + 1 \in Nat /\ \A q \in Nat : m[q] \in 0..Len(body) + 1
      /\ \A q, r \in Nat : q <= Len(body) /\ r > q => m[r] < m[q]
  BY <1>1, HeightFalls
<1>5. ASSUME NEW f \in D, NEW g \in D, NEW q \in Nat,
             \A y \in Nat : m[y] < m[q] => f[y] = g[y]
      PROVE  F[f][q] = F[g][q]
  <2>1. q <= Len(body) => m[q + 1] < m[q] /\ m[q + 2] < m[q]
    <3> HIDE DEF D, F, m
    <3>. QED BY <1>4
  <2>2. ~(q > Len(body)) => f[q + 1] = g[q + 1] /\ f[q + 2] = g[q + 2] BY <1>1, <1>5, <2>1
  <2>3. Unescapes(body, f, q) = Unescapes(body, g, q) BY <2>2 DEF Unescapes
  <2>. QED BY <2>3
<1>6. \E f \in D : f = F[f]
  <2>1. D # {} BY <1>2
  <2>2. \A f, g \in D : \A x \in Nat :
              (\A y \in Nat : m[y] < m[x] => f[y] = g[y]) => F[f][x] = F[g][x]
    <3> HIDE DEF D, F, m
    <3>. QED BY <1>5
  <2> DEFINE n == Len(body) + 1
  <2>3. n \in Nat /\ \A q \in Nat : m[q] \in 0..n BY <1>4
  <2> HIDE DEF D, F, m, n
  <2>4. LooksAhead(Nat, D, F, m, n) BY <1>3, <2>1, <2>2, <2>3 DEF LooksAhead
  <2>. QED BY <2>4, SolutionExists
<1> HIDE DEF D
<1>. QED BY <1>6

\* What put_escaped wrote, unescape gives back.
LEMMA UnescapedEscaped ==
    ASSUME NEW text \in Texts
    PROVE  Unescaped(Escaped(text)) = text
<1> DEFINE b == Escaped(text)
           n == Len(text)
           f == CHOOSE f : f = [i \in Nat |-> Unescapes(b, f, i)]
<1>1. b \in Texts BY EscapedIs
<1>2. PICK P : Laid(text, n, b, P) BY EscapedIs
<1>3. Unescaped(b) = f[1] BY DEF Unescaped, Unescapes
<1> HIDE DEF b
<1>4. f = [i \in Nat |-> Unescapes(b, f, i)] BY <1>1, UnescapesExist
<1> HIDE DEF f
<1>5. \A i \in Nat : f[i] = Unescapes(b, f, i) BY <1>4
<1>6. Len(b) \in Nat /\ n \in Nat BY <1>1, TextIs
<1> DEFINE S == {i \in 1..n + 1 : f[P[i]] = SubSeq(text, i, n)}
<1>7. n + 1 \in S
  <2>1. P[n + 1] = Len(b) + 1 BY <1>2 DEF Laid
  <2>2. f[Len(b) + 1] = <<>>
    <3>1. Len(b) + 1 \in Nat /\ Len(b) + 1 > Len(b) BY <1>6
    <3>. QED BY <1>5, <3>1 DEF Unescapes
  <2>3. SubSeq(text, n + 1, n) = <<>>
    <3>1. SubSeq(text, n + 1, n) \in Texts /\ Len(SubSeq(text, n + 1, n)) = n + 1 - (n + 1)
      BY <1>6, PartOfText
    <3>. QED BY <1>6, <3>1, EmptySeq DEF Texts
  <2>4. n + 1 \in 1..n + 1 /\ f[P[n + 1]] = SubSeq(text, n + 1, n) BY <1>6, <2>1, <2>2, <2>3
  <2>. QED BY <2>4, Zenon
<1>8. ASSUME NEW i \in 1..n, i + 1 \in S PROVE i \in S
  <2> DEFINE p == P[i]
             r == P[i + 1]
             rest == SubSeq(text, i + 1, n)
  <2>1. /\ p \in Nat \ {0} /\ r \in Nat /\ r <= Len(b) + 1
        /\ IF text[i] \in Special THEN r = p + 2 /\ b[p] = Slash /\ b[p + 1] = text[i]
           ELSE r = p + 1 /\ b[p] = text[i]
    BY <1>2 DEF Laid
  <2>2. f[r] = rest BY <1>8
  <2> HIDE DEF p, r
  <2>3. ~(p > Len(b)) BY <1>6, <2>1
  <2>4. f[p] = <<text[i]>> \o rest
    <3>1. f[p] = Unescapes(b, f, p) BY <1>5, <2>1
    <3>2. CASE text[i] \in Special BY <2>1, <2>2, <2>3, <3>1, <3>2 DEF Unescapes
    <3>3. CASE text[i] \notin Special
      <4>1. b[p] # Slash BY <2>1, <3>3 DEF Special
      <4>. QED BY <2>1, <2>2, <2>3, <3>1, <3>3, <4>1 DEF Unescapes
    <3>. QED BY <3>2, <3>3
  <2>5. text[i] \in Characters BY ElementOfSeq DEF Texts
  <2>6. i + 1 \in Nat \ {0} /\ i \in Nat \ {0} /\ i + 1 <= n + 1 /\ i <= n + 1 /\ n <= Len(text) BY <1>6
  <2>7. /\ rest \in Texts /\ Len(rest) = n + 1 - (i + 1)
        /\ \A j \in 1..n + 1 - (i + 1) : rest[j] = text[i + 1 + j - 1]
    BY <1>6, <2>6, PartOfText
  <2>8. /\ SubSeq(text, i, n) \in Texts /\ Len(SubSeq(text, i, n)) = n + 1 - i
        /\ \A j \in 1..n + 1 - i : SubSeq(text, i, n)[j] = text[i + j - 1]
    BY <1>6, <2>6, PartOfText
  <2>9. /\ <<text[i]>> \in Texts /\ Len(<<text[i]>>) = 1 /\ <<text[i]>>[1] = text[i]
    BY <2>5, OneCharacter
  <2> DEFINE x == <<text[i]>> \o rest
  <2>10. /\ x \in Texts /\ Len(x) = 1 + Len(rest) /\ x[1] = text[i]
         /\ \A j \in 1..Len(rest) : x[1 + j] = rest[j]
    <3>1. 1 \in 1..1 OBVIOUS
    <3>. QED BY <2>7, <2>9, <3>1, TextsJoined
  <2> HIDE DEF x, rest
  <2>11. x = SubSeq(text, i, n)
    <3> DEFINE y == SubSeq(text, i, n)
    <3>1. Len(x) = Len(y) BY <1>6, <2>7, <2>8, <2>10
    <3>2. ASSUME NEW j \in 1..Len(x) PROVE x[j] = y[j]
      <4>1. CASE j = 1
        <5>1. 1 \in 1..n + 1 - i /\ i + 1 - 1 = i BY <1>6
        <5>. QED BY <2>8, <2>10, <4>1, <5>1
      <4>2. CASE j # 1
        <5>1. /\ j - 1 \in 1..Len(rest) /\ 1 + (j - 1) = j /\ j \in 1..n + 1 - i
              /\ j - 1 \in 1..n + 1 - (i + 1) /\ i + 1 + (j - 1) - 1 = i + j - 1
          BY <1>6, <2>7, <2>10, <4>2
        <5>2. x[j] = rest[j - 1] BY <2>10, <5>1
        <5>3. rest[j - 1] = text[i + j - 1] BY <2>7, <5>1
        <5>. QED BY <2>8, <5>1, <5>2, <5>3
      <4>. QED BY <4>1, <4>2
    <3> HIDE DEF y
    <3>3. y \in Texts BY <2>8 DEF y
    <3>4. x = y BY <2>10, <3>1, <3>2, <3>3, SameText
    <3>. QED BY <3>4 DEF y
  <2>12. f[P[i]] = SubSeq(text, i, n) BY <2>4, <2>11, Zenon DEF p, x
  <2>13. i \in 1..n + 1 BY <1>6
  <2>. QED BY <2>12, <2>13, Zenon
<1>9. 1 \in S
  <2>1. 1..n + 1 \subseteq S
    <3> HIDE DEF S
    <3>. QED BY <1>6, <1>7, <1>8, CountedDown
  <2>2. 1 \in 1..n + 1 BY <1>6
  <2>. QED BY <2>1, <2>2, Zenon
<1>10. f[1] = SubSeq(text, 1, n)
  <2>1. P[1] = 1 BY <1>2 DEF Laid
  <2>. QED BY <1>9, <2>1
<1>11. SubSeq(text, 1, n) = text
  <2>0. 1 \in Nat \ {0} /\ n \in Int /\ n <= Len(text) /\ 1 <= n + 1 BY <1>6
  <2> DEFINE y == SubSeq(text, 1, n)
  <2>1. /\ y \in Texts /\ Len(y) = n + 1 - 1 /\ \A j \in 1..n + 1 - 1 : y[j] = text[1 + j - 1]
    BY <2>0, PartOfText
  <2> HIDE DEF y
  <2>2. Len(y) = Len(text) /\ \A j \in 1..Len(y) : y[j] = text[j]
    <3>1. n + 1 - 1 = n /\ \A j \in 1..n : 1 + j - 1 = j BY <1>6
    <3>. QED BY <2>1, <3>1
  <2>3. y = text BY <2>1, <2>2, SameText
  <2>. QED BY <2>3 DEF y
<1>. QED BY <1>3, <1>10, <1>11 DEF b
-----------------------------------------------------------------------------
(* What is read depends on the characters it is read from *)

\* A property of positions that holds where it holds of all behind, up to the end.
LEMMA FromTheEnd ==
    ASSUME NEW n \in Nat, NEW S,
           \A q \in Nat : (q <= n => \A r \in Nat : r > q => r \in S) => q \in S
    PROVE  Nat \subseteq S
<1> DEFINE T == {k \in Nat : \A q \in Nat : q + k > n => q \in S}
<1>1. 0 \in T OBVIOUS
<1>2. ASSUME NEW k \in Nat, k \in T PROVE k + 1 \in T
  <2>1. ASSUME NEW q \in Nat, q + (k + 1) > n PROVE q \in S
    <3>1. \A r \in Nat : r > q => r + k > n BY <2>1
    <3>2. \A r \in Nat : r > q => r \in S BY <1>2, <3>1
    <3>. QED BY <3>2
  <2>. QED BY <2>1
<1>3. n + 1 \in T
  <2> HIDE DEF T
  <2>. QED BY <1>1, <1>2, CountedUp
<1>4. \A q \in Nat : q + (n + 1) > n OBVIOUS
<1>. QED BY <1>3, <1>4

\* u has the characters of t from q to before e, a places earlier, and no digit after them.
Alike(t, u, a, q, e) ==
    /\ \A i \in q..e - 1 : At(u, i - a) = At(t, i)
    /\ At(u, e - a) # "1"

LEMMA AlikePart ==
    ASSUME NEW t, NEW u, NEW a \in Nat, NEW q \in Nat, NEW e \in Nat, Alike(t, u, a, q, e),
           NEW v \in Nat, v >= q
    PROVE  /\ Alike(t, u, a, v, e)
           /\ \A x \in Nat : x < e /\ x >= q /\ At(t, x) # "1" => Alike(t, u, a, v, x)
           /\ v < e => At(u, v - a) = At(t, v)
<1>1. \A i \in v..e - 1 : i \in q..e - 1 OBVIOUS
<1>2. \A x \in Nat : x < e /\ x >= q => x \in q..e - 1 /\ \A i \in v..x - 1 : i \in q..e - 1
  OBVIOUS
<1>3. v < e => v \in q..e - 1 OBVIOUS
<1>. QED BY <1>1, <1>2, <1>3 DEF Alike

BodySame(t, u, a, q) ==
    q > a /\ SkipBody(t, q) # 0 /\ Alike(t, u, a, q, SkipBody(t, q)) =>
        SkipBody(u, q - a) = SkipBody(t, q) - a

LEMMA SkipBodySame ==
    ASSUME NEW t \in Texts, NEW u \in Texts, NEW a \in Nat
    PROVE  \A q \in Nat : BodySame(t, u, a, q)
<1> DEFINE n == Len(t)
           S == {q \in Nat : BodySame(t, u, a, q)}
<1>1. n \in Nat BY TextIs
<1>2. ASSUME NEW q \in Nat, q <= n => \A r \in Nat : r > q => r \in S PROVE q \in S
  <2> DEFINE e == SkipBody(t, q)
  <2>1. SUFFICES ASSUME q > a, e # 0, Alike(t, u, a, q, e) PROVE SkipBody(u, q - a) = e - a
    BY DEF BodySame
  <2>2. e \in Nat /\ e > q BY <2>1, SkipBodyGoesOn
  <2>3. e = IF At(t, q) = "end" THEN 0
            ELSE IF At(t, q) = Slash THEN SkipBody(t, q + 2)
            ELSE IF At(t, q) = Quote THEN q + 1 ELSE SkipBody(t, q + 1)
    BY SkipBodyIs
  <2> HIDE DEF e
  <2>4. At(t, q) # "end" BY <2>1, <2>3
  <2>5. q <= n BY <2>4, Ends
  <2>6. \A r \in Nat : r > q => BodySame(t, u, a, r) BY <1>2, <2>5
  <2>7. At(u, q - a) = At(t, q) BY <2>1, <2>2, AlikePart
  <2>8. q - a \in Nat /\ (q - a) + 1 = (q + 1) - a /\ (q - a) + 2 = (q + 2) - a BY <2>1
  <2>9. SkipBody(u, q - a) =
            IF At(t, q) = Slash THEN SkipBody(u, (q + 2) - a)
            ELSE IF At(t, q) = Quote THEN (q + 1) - a ELSE SkipBody(u, (q + 1) - a)
    BY <2>4, <2>7, <2>8, SkipBodyIs
  <2>10. Alike(t, u, a, q + 1, e) /\ Alike(t, u, a, q + 2, e) BY <2>1, <2>2, AlikePart
  <2>11. q + 1 > a /\ q + 2 > a /\ q + 1 \in Nat /\ q + 2 \in Nat BY <2>1
  <2>12. CASE At(t, q) = Slash
    <3>1. e = SkipBody(t, q + 2) BY <2>3, <2>4, <2>12
    <3>2. BodySame(t, u, a, q + 2) BY <2>6, <2>11
    <3>. QED BY <2>1, <2>9, <2>10, <2>11, <2>12, <3>1, <3>2 DEF BodySame
  <2>13. CASE At(t, q) # Slash /\ At(t, q) = Quote BY <2>3, <2>4, <2>9, <2>13
  <2>14. CASE At(t, q) # Slash /\ At(t, q) # Quote
    <3>1. e = SkipBody(t, q + 1) BY <2>3, <2>4, <2>14
    <3>2. BodySame(t, u, a, q + 1) BY <2>6, <2>11
    <3>. QED BY <2>1, <2>9, <2>10, <2>11, <2>14, <3>1, <3>2 DEF BodySame
  <2>. QED BY <2>12, <2>13, <2>14
<1>3. Nat \subseteq S
  <2> HIDE DEF S
  <2>. QED BY <1>1, <1>2, FromTheEnd
<1>. QED BY <1>3

LEMMA SkipStringSame ==
    ASSUME NEW t \in Texts, NEW u \in Texts, NEW a \in Nat, NEW q \in Nat, q > a,
           SkipString(t, q) # 0, Alike(t, u, a, q, SkipString(t, q))
    PROVE  SkipString(u, q - a) = SkipString(t, q) - a
<1> DEFINE e == SkipString(t, q)
<1>1. At(t, q) = Quote /\ e = SkipBody(t, q + 1) BY DEF SkipString
<1>2. e \in Nat /\ e > q BY SkipStringIs
<1>3. Alike(t, u, a, q, e) /\ e # 0 OBVIOUS
<1> HIDE DEF e
<1>4. At(u, q - a) = Quote BY <1>1, <1>2, <1>3, AlikePart
<1>5. Alike(t, u, a, q + 1, e) BY <1>2, <1>3, AlikePart
<1>6. q + 1 > a /\ (q - a) + 1 = (q + 1) - a OBVIOUS
<1>7. BodySame(t, u, a, q + 1) BY SkipBodySame
<1>8. SkipBody(u, (q + 1) - a) = e - a BY <1>1, <1>3, <1>5, <1>6, <1>7 DEF BodySame
<1>9. SkipString(u, q - a) = SkipBody(u, (q + 1) - a) BY <1>4, <1>6 DEF SkipString
<1>. QED BY <1>8, <1>9 DEF e

\* A number is a digit and what number follows.
LEMMA SkipNumberNext ==
    ASSUME NEW text \in Texts, NEW q \in Nat
    PROVE  SkipNumber(text, q) = IF At(text, q) # "1" THEN 0
                                 ELSE IF At(text, q + 1) = "1" THEN SkipNumber(text, q + 1)
                                 ELSE q + 1
<1> DEFINE f == CHOOSE f : f = [r \in Nat |-> NumberStep(text, f, r)]
<1>1. f = [r \in Nat |-> NumberStep(text, f, r)] BY NumberExists
<1>2. \A r : SkipNumber(text, r) = IF At(text, r) = "1" THEN f[r] ELSE 0
  BY DEF SkipNumber, NumberStep
<1> HIDE DEF f
<1>3. \A r \in Nat : f[r] = IF At(text, r) = "1" THEN f[r + 1] ELSE r
  BY <1>1 DEF NumberStep
<1>4. q + 1 \in Nat OBVIOUS
<1>. QED BY <1>2, <1>3, <1>4

NumberSame(t, u, a, q) ==
    q > a /\ SkipNumber(t, q) # 0 /\ Alike(t, u, a, q, SkipNumber(t, q)) =>
        SkipNumber(u, q - a) = SkipNumber(t, q) - a

LEMMA SkipNumberSame ==
    ASSUME NEW t \in Texts, NEW u \in Texts, NEW a \in Nat
    PROVE  \A q \in Nat : NumberSame(t, u, a, q)
<1> DEFINE n == Len(t)
           S == {q \in Nat : NumberSame(t, u, a, q)}
<1>1. n \in Nat BY TextIs
<1>2. ASSUME NEW q \in Nat, q <= n => \A r \in Nat : r > q => r \in S PROVE q \in S
  <2> DEFINE e == SkipNumber(t, q)
  <2>1. SUFFICES ASSUME q > a, e # 0, Alike(t, u, a, q, e) PROVE SkipNumber(u, q - a) = e - a
    BY DEF NumberSame
  <2>2. e \in Nat /\ e > q BY <2>1, SkipNumberIs
  <2>3. e = IF At(t, q) # "1" THEN 0
            ELSE IF At(t, q + 1) = "1" THEN SkipNumber(t, q + 1) ELSE q + 1
    BY SkipNumberNext
  <2> HIDE DEF e
  <2>4. At(t, q) = "1" BY <2>1, <2>3
  <2>5. q <= n BY <2>4, Ends
  <2>6. q + 1 \in Nat /\ q + 1 > q /\ q + 1 > a /\ q - a \in Nat /\ (q - a) + 1 = (q + 1) - a
    BY <2>1
  <2>7. NumberSame(t, u, a, q + 1) BY <1>2, <2>5, <2>6
  <2>8. At(u, q - a) = "1" BY <2>1, <2>2, <2>4, AlikePart
  <2>9. SkipNumber(u, q - a) = IF At(u, (q + 1) - a) = "1" THEN SkipNumber(u, (q + 1) - a)
                               ELSE (q + 1) - a
    BY <2>6, <2>8, SkipNumberNext
  <2>10. CASE At(t, q + 1) = "1"
    <3>1. e = SkipNumber(t, q + 1) BY <2>3, <2>4, <2>10
    <3>2. e > q + 1 BY <2>1, <2>6, <3>1, SkipNumberIs
    <3>3. Alike(t, u, a, q + 1, e) /\ At(u, (q + 1) - a) = "1"
      BY <2>1, <2>2, <2>6, <2>10, <3>2, AlikePart
    <3>. QED BY <2>1, <2>6, <2>7, <2>9, <3>1, <3>3 DEF NumberSame
  <2>11. CASE At(t, q + 1) # "1"
    <3>1. e = q + 1 BY <2>3, <2>4, <2>11
    <3>2. At(u, (q + 1) - a) # "1" BY <2>1, <3>1 DEF Alike
    <3>. QED BY <2>9, <3>1, <3>2
  <2>. QED BY <2>10, <2>11
<1>3. Nat \subseteq S
  <2> HIDE DEF S
  <2>. QED BY <1>1, <1>2, FromTheEnd
<1>. QED BY <1>3

ValueSame(t, u, a, q) ==
    \A d, c \in Nat :
        q > a /\ c <= d /\ SkipValue(t, q, d) # 0 /\ Alike(t, u, a, q, SkipValue(t, q, d)) =>
            SkipValue(u, q - a, c) = SkipValue(t, q, d) - a

ItemsSame(t, u, a, q) ==
    \A w \in Opening, d, c \in Nat :
        q > a /\ c <= d /\ Skip(t, w, q, d) # 0 /\ Alike(t, u, a, q, Skip(t, w, q, d)) =>
            Skip(u, w, q - a, c) = Skip(t, w, q, d) - a

LEMMA SignsAreNoDigits ==
    /\ "," # "1" /\ ":" # "1" /\ Quote # "1" /\ "end" # "1"
    /\ \A w \in Opening : /\ Closing(w) # "1" /\ Closing(w) # "," /\ Closing(w) # "end"
                          /\ Closing(w) # Quote /\ Closing(w) \notin Opening
                          /\ Closing(w) \notin Literals /\ w # "1" /\ w # "end"
                          /\ w # Quote /\ w \notin Literals
    /\ \A l \in Literals : l # "1" /\ l # "end"
    /\ \A l \in Literals, w \in Opening : l # Closing(w)
    /\ \A w \in Opening : "1" # Closing(w)
BY DEF Quote, Opening, Closing, Literals

LEMMA ValueIsSame ==
    ASSUME NEW t \in Texts, NEW u \in Texts, NEW a \in Nat, NEW q \in Nat,
           q <= Len(t) => ItemsSame(t, u, a, q + 1)
    PROVE  ValueSame(t, u, a, q)
<1> SUFFICES ASSUME NEW d \in Nat, NEW c \in Nat, q > a, c <= d, SkipValue(t, q, d) # 0,
                    Alike(t, u, a, q, SkipValue(t, q, d))
             PROVE  SkipValue(u, q - a, c) = SkipValue(t, q, d) - a
  BY DEF ValueSame
<1> DEFINE e == SkipValue(t, q, d)
           x == At(t, q)
           r == q - a
<1>1. e = IF x = Quote THEN SkipString(t, q)
          ELSE IF x \in Literals THEN q + 1
          ELSE IF x \in Opening
            THEN IF d >= MaxJsonDepth THEN 0
                 ELSE IF At(t, q + 1) = Closing(x) THEN q + 2
                 ELSE Skip(t, x, q + 1, d)
          ELSE SkipNumber(t, q)
  BY SkipValueIs
<1>2. r \in Nat /\ r + 1 = (q + 1) - a /\ r + 2 = (q + 2) - a /\ q + 1 \in Nat /\ q + 1 > a
  OBVIOUS
<1>3. e \in Nat /\ e > q /\ e # 0 /\ Alike(t, u, a, q, e)
  <2>1. "value" \in Whats BY DEF Whats
  <2>. QED BY <2>1, SkipGoesOn DEF SkipValue
<1> HIDE DEF e
<1>4. At(u, r) = x BY <1>3, AlikePart
<1> HIDE DEF r
<1>5. SkipValue(u, r, c) =
          IF x = Quote THEN SkipString(u, r)
          ELSE IF x \in Literals THEN r + 1
          ELSE IF x \in Opening
            THEN IF c >= MaxJsonDepth THEN 0
                 ELSE IF At(u, r + 1) = Closing(x) THEN r + 2
                 ELSE Skip(u, x, r + 1, c)
          ELSE SkipNumber(u, r)
  BY <1>2, <1>4, SkipValueIs
<1> HIDE DEF x
<1>6. CASE x = Quote
  <2>1. e = SkipString(t, q) BY <1>1, <1>6
  <2>2. SkipString(u, r) = e - a BY <1>3, <2>1, SkipStringSame DEF r
  <2>. QED BY <1>5, <1>6, <2>2 DEF e, r
<1>7. CASE x # Quote /\ x \in Literals
  <2>1. e = q + 1 BY <1>1, <1>7
  <2>. QED BY <1>2, <1>5, <1>7, <2>1 DEF e, r
<1>8. CASE x # Quote /\ x \notin Literals /\ x \in Opening
  <2>1. ~(d >= MaxJsonDepth) BY <1>1, <1>3, <1>8
  <2>0. MaxJsonDepth \in Nat BY JsonAssumption
  <2>2. ~(c >= MaxJsonDepth)
    BY ONLY <2>0, <2>1, c \in Nat, d \in Nat, c <= d
  <2>3. q <= Len(t) BY <1>8, Ends, SignsAreNoDigits DEF x
  <2>4. CASE At(t, q + 1) = Closing(x)
    <3>1. e = q + 2 BY <1>1, <1>8, <2>1, <2>4
    <3>2. At(u, r + 1) = Closing(x)
      <4>1. q + 1 >= q /\ q + 1 < e BY <3>1
      <4>3. q + 1 \in q..e - 1 BY <1>3, <4>1
      <4>2. At(u, (q + 1) - a) = At(t, q + 1) BY <1>3, <4>3, Zenon DEF Alike
      <4>. QED BY <1>2, <2>4, <4>2
    <3>. QED BY <1>2, <1>5, <1>8, <2>2, <3>1, <3>2 DEF e, r
  <2>5. CASE At(t, q + 1) # Closing(x)
    <3>1. e = Skip(t, x, q + 1, d) BY <1>1, <1>8, <2>1, <2>5
    <3>2. e > q + 1
      <4>1. x \in Whats BY <1>8 DEF Whats
      <4>. QED BY <1>2, <1>3, <3>1, <4>1, SkipGoesOn
    <3>3. At(u, r + 1) # Closing(x)
      <4>1. q + 1 >= q /\ q + 1 < e BY <3>2
      <4>3. q + 1 \in q..e - 1 BY <1>3, <4>1
      <4>2. At(u, (q + 1) - a) = At(t, q + 1) BY <1>3, <4>3, Zenon DEF Alike
      <4>. QED BY <1>2, <2>5, <4>2
    <3>4. Alike(t, u, a, q + 1, e) BY <1>2, <1>3, AlikePart
    <3>5. Skip(u, x, (q + 1) - a, c) = e - a
      BY <1>2, <1>3, <1>8, <2>3, <3>1, <3>4 DEF ItemsSame
    <3>. QED BY <1>2, <1>5, <1>8, <2>2, <3>3, <3>5 DEF e, r
  <2>. QED BY <2>4, <2>5
<1>9. CASE x # Quote /\ x \notin Literals /\ x \notin Opening
  <2>1. e = SkipNumber(t, q) BY <1>1, <1>9
  <2>2. NumberSame(t, u, a, q) BY SkipNumberSame
  <2>3. SkipNumber(u, r) = e - a BY <1>3, <2>1, <2>2 DEF NumberSame, r
  <2>. QED BY <1>5, <1>9, <2>3 DEF e, r
<1>. QED BY <1>6, <1>7, <1>8, <1>9

LEMMA ItemsAreSame ==
    ASSUME NEW t \in Texts, NEW u \in Texts, NEW a \in Nat, NEW q \in Nat,
           ValueSame(t, u, a, q),
           q <= Len(t) => \A r \in Nat : r > q => ValueSame(t, u, a, r) /\ ItemsSame(t, u, a, r)
    PROVE  ItemsSame(t, u, a, q)
<1> SUFFICES ASSUME NEW w \in Opening, NEW d \in Nat, NEW c \in Nat, q > a, c <= d,
                    Skip(t, w, q, d) # 0, Alike(t, u, a, q, Skip(t, w, q, d))
             PROVE  Skip(u, w, q - a, c) = Skip(t, w, q, d) - a
  BY DEF ItemsSame
<1> DEFINE e == Skip(t, w, q, d)
           x == EndAt(t, w, q, d)
           v == ValueStepAt(t, w, q)
           s == SkipString(t, q)
           r == q - a
<1>1. e = IF x = 0 THEN 0
          ELSE IF At(t, x) = Closing(w) THEN x + 1
          ELSE IF At(t, x) = "," THEN Skip(t, w, x + 1, d) ELSE 0
  BY SkipItemIs
<1>2. e \in Nat /\ e > q /\ e # 0 /\ Alike(t, u, a, q, e)
  <2>1. w \in Whats BY DEF Whats
  <2>. QED BY <2>1, SkipGoesOn
<1>3. x # 0 /\ x = SkipValue(t, v, d + 1) /\ v # 0
  BY <1>1, <1>2 DEF EndAt
<1>4. v \in Nat /\ (v = q \/ (v > q /\ q <= Len(t))) BY <1>3, ValueAtIs
<1>5. x \in Nat /\ x > v
  <2>1. "value" \in Whats /\ d + 1 \in Nat BY DEF Whats
  <2>2. v \in Nat /\ x = Skip(t, "value", v, d + 1) BY <1>3, <1>4 DEF SkipValue
  <2> HIDE DEF x, v
  <2>3. Skip(t, "value", v, d + 1) \in Nat
        /\ (Skip(t, "value", v, d + 1) = 0 \/ Skip(t, "value", v, d + 1) > v)
    BY <2>1, <2>2, SkipGoesOn, Zenon
  <2>. QED BY <1>3, <2>2, <2>3
<1>6. r \in Nat BY DEF r
<1>7. s \in Nat /\ (s # 0 => s > q) BY SkipStringIs
<1>8. w = "{" => s # 0 /\ At(t, s) = ":" /\ v = s + 1 BY <1>3 DEF ValueStepAt
<1>9. w # "{" => v = q BY DEF ValueStepAt
<1> HIDE DEF e, x, v, s, r
<1>10. x < e /\ (At(t, x) = Closing(w) \/ At(t, x) = ",")
  <2>1. CASE At(t, x) = Closing(w)
    <3>1. e = x + 1 BY <1>1, <1>3, <2>1
    <3>2. x < e BY ONLY <1>5, <3>1
    <3>. QED BY <2>1, <3>2
  <2>2. CASE At(t, x) # Closing(w)
    <3>1. At(t, x) = "," /\ e = Skip(t, w, x + 1, d) BY <1>1, <1>2, <1>3, <2>2
    <3>2. e > x + 1
      <4>1. w \in Whats /\ x + 1 \in Nat BY <1>5 DEF Whats
      <4>. QED BY <1>2, <3>1, <4>1, SkipGoesOn
    <3>3. x < e BY ONLY <1>2, <1>5, <3>2
    <3>. QED BY <3>1, <3>3
  <2>. QED BY <2>1, <2>2
<1>11. At(t, x) # "1" BY <1>10, SignsAreNoDigits
<1>12. x >= q /\ v >= q BY <1>4, <1>5
<1>13. Alike(t, u, a, v, x) BY <1>2, <1>4, <1>5, <1>10, <1>11, <1>12, AlikePart
<1>14. ValueStepAt(u, w, r) = v - a
  <2>1. CASE w = "{"
    <3>1. s # 0 /\ At(t, s) = ":" /\ v = s + 1 /\ s > q BY <1>7, <1>8, <2>1
    <3>0. x < e BY <1>10
    <3>2. s < e /\ s >= q BY ONLY q \in Nat, <1>2, <1>5, <1>7, <3>0, <3>1
    <3>3. At(t, s) # "1" BY <3>1, SignsAreNoDigits
    <3>4. Alike(t, u, a, q, s) /\ At(u, s - a) = ":"
      <4>1. Alike(t, u, a, q, s) BY <1>2, <1>7, <3>2, <3>3, AlikePart
      <4>3. s \in q..e - 1 BY ONLY q \in Nat, <1>2, <1>7, <3>2
      <4>2. At(u, s - a) = At(t, s) BY <1>2, <4>3, Zenon DEF Alike
      <4>. QED BY <3>1, <4>1, <4>2
    <3>5. SkipString(u, r) = s - a BY <3>1, <3>4, SkipStringSame DEF s, r
    <3>6. s - a # 0 /\ s - a + 1 = v - a BY <1>7, <3>1
    <3>. QED BY <2>1, <3>4, <3>5, <3>6 DEF ValueStepAt
  <2>2. CASE w # "{" BY <1>9, <2>2 DEF ValueStepAt, r
  <2>. QED BY <2>1, <2>2
<1>15. v - a \in Nat /\ v - a # 0 /\ x - a \in Nat /\ x - a # 0 /\ v > a BY <1>4, <1>5
<1>16. SkipValue(u, v - a, c + 1) = x - a
  <2>1. ValueSame(t, u, a, v) BY <1>4
  <2>2. d + 1 \in Nat /\ c + 1 \in Nat /\ c + 1 <= d + 1 OBVIOUS
  <2>. QED BY <1>3, <1>13, <1>15, <2>1, <2>2 DEF ValueSame
<1>17. EndAt(u, w, r, c) = x - a BY <1>14, <1>15, <1>16 DEF EndAt
<1>18. At(u, x - a) = At(t, x)
  <2>1. x < e BY <1>10
  <2>2. x \in q..e - 1 BY ONLY q \in Nat, <1>2, <1>5, <1>12, <2>1
  <2>. QED BY <1>2, <2>2, Zenon DEF Alike
<1>19. Skip(u, w, r, c) = IF At(t, x) = Closing(w) THEN (x - a) + 1
                          ELSE IF At(t, x) = "," THEN Skip(u, w, (x - a) + 1, c) ELSE 0
  <2>1. Skip(u, w, r, c) = IF EndAt(u, w, r, c) = 0 THEN 0
             ELSE IF At(u, EndAt(u, w, r, c)) = Closing(w) THEN EndAt(u, w, r, c) + 1
             ELSE IF At(u, EndAt(u, w, r, c)) = ","
               THEN Skip(u, w, EndAt(u, w, r, c) + 1, c)
             ELSE 0
    BY <1>6, SkipItemIs
  <2>. QED BY <1>15, <1>17, <1>18, <2>1, Zenon
<1>20. (x - a) + 1 = (x + 1) - a BY <1>5
<1>21. CASE At(t, x) = Closing(w)
  <2>1. e = x + 1 BY <1>1, <1>3, <1>21
  <2>. QED BY <1>19, <1>20, <1>21, <2>1 DEF e, r
<1>22. CASE At(t, x) # Closing(w)
  <2>1. At(t, x) = "," /\ e = Skip(t, w, x + 1, d) BY <1>1, <1>2, <1>22
  <2>2. x + 1 \in Nat /\ x + 1 > q /\ x + 1 > a /\ x + 1 >= q BY <1>5, <1>12
  <2>3. q <= Len(t)
    <3>1. x <= Len(t) BY <1>5, <2>1, Ends
    <3>2. Len(t) \in Nat BY TextIs
    <3>. QED BY <1>5, <1>12, <3>1, <3>2
  <2>4. Alike(t, u, a, x + 1, e) BY <1>2, <2>2, AlikePart
  <2>5. ItemsSame(t, u, a, x + 1) BY <2>2, <2>3
  <2>6. Skip(u, w, (x + 1) - a, c) = e - a BY <1>2, <2>1, <2>2, <2>4, <2>5 DEF ItemsSame
  <2>. QED BY <1>19, <1>20, <1>22, <2>1, <2>6 DEF e, r
<1>. QED BY <1>21, <1>22

\* A value that is read somewhere is read wherever its characters are, no deeper.
LEMMA SkipValueSame ==
    ASSUME NEW t \in Texts, NEW u \in Texts, NEW a \in Nat
    PROVE  \A q \in Nat : ValueSame(t, u, a, q)
<1> DEFINE n == Len(t)
           S == {q \in Nat : ValueSame(t, u, a, q) /\ ItemsSame(t, u, a, q)}
<1>1. n \in Nat BY TextIs
<1>2. ASSUME NEW q \in Nat, q <= n => \A r \in Nat : r > q => r \in S PROVE q \in S
  <2>1. q + 1 \in Nat /\ q + 1 > q OBVIOUS
  <2>2. q <= n => \A r \in Nat : r > q => ValueSame(t, u, a, r) /\ ItemsSame(t, u, a, r)
    BY <1>2
  <2> HIDE DEF S
  <2>3. ValueSame(t, u, a, q)
    <3>1. q <= n => ItemsSame(t, u, a, q + 1) BY <2>1, <2>2, Zenon
    <3>. QED BY <3>1, ValueIsSame
  <2>4. ItemsSame(t, u, a, q) BY <2>2, <2>3, ItemsAreSame
  <2>. QED BY <2>3, <2>4 DEF S
<1>3. Nat \subseteq S
  <2> HIDE DEF S
  <2>. QED BY <1>1, <1>2, FromTheEnd
<1>. QED BY <1>3
-----------------------------------------------------------------------------
(* What the writer adds, as the reader meets it *)

LEMMA ShowsBoth ==
    ASSUME NEW t \in Texts, NEW p \in Nat, NEW x \in Texts, NEW y \in Texts,
           TextShows(t, p, x \o y)
    PROVE  TextShows(t, p, x) /\ TextShows(t, p + Len(x), y)
<1>1. /\ Len(x \o y) = Len(x) + Len(y)
      /\ \A i \in 1..Len(x) : (x \o y)[i] = x[i]
      /\ \A i \in 1..Len(y) : (x \o y)[Len(x) + i] = y[i]
  BY TextsJoined
<1>2. Len(x) \in Nat /\ Len(y) \in Nat BY TextIs
<1> DEFINE z == x \o y
<1>3. \A j \in 1..Len(x) + Len(y) : p + j - 1 <= Len(t) => t[p + j - 1] = z[j]
  BY <1>1 DEF TextShows
<1>4. /\ \A i \in 1..Len(x) : z[i] = x[i]
      /\ \A i \in 1..Len(y) : z[Len(x) + i] = y[i]
  BY <1>1
<1> HIDE DEF z
<1>5. \A j \in 1..Len(x) : j \in 1..Len(x) + Len(y) BY <1>2
<1>6. \A j \in 1..Len(y) : Len(x) + j \in 1..Len(x) + Len(y)
                           /\ p + (Len(x) + j) - 1 = p + Len(x) + j - 1
  BY <1>2
<1>7. TextShows(t, p, x) BY <1>3, <1>4, <1>5 DEF TextShows
<1>8. TextShows(t, p + Len(x), y) BY <1>3, <1>4, <1>6 DEF TextShows
<1>. QED BY <1>7, <1>8

\* What is shown where the text has not ended.
LEMMA ShownText ==
    ASSUME NEW t \in Texts, NEW p \in Nat \ {0}, NEW x \in Texts, TextShows(t, p, x), Len(x) > 0
    PROVE  At(t, p) = IF p <= Len(t) THEN x[1] ELSE "end"
<1>1. Len(x) \in Nat /\ Len(t) \in Nat BY TextIs
<1>2. 1 \in 1..Len(x) /\ p + 1 - 1 = p BY <1>1
<1>3. p <= Len(t) => t[p] = x[1] BY <1>2 DEF TextShows
<1>. QED BY <1>1, <1>3 DEF At

LEMMA NothingAtTheEnd ==
    ASSUME NEW t \in Texts, NEW q \in Nat, q > Len(t), NEW d \in Nat
    PROVE  /\ SkipValue(t, q, d) = 0 /\ SkipString(t, q) = 0 /\ At(t, q) = "end"
<1>1. At(t, q) = "end" BY Ends
<1>2. "end" # Quote /\ "end" \notin Literals /\ "end" \notin Opening /\ "end" # "1"
  BY Marks, SignsDiffer
<1>3. SkipNumber(t, q) = 0 BY <1>1, <1>2, SkipNumberIs
<1>. QED BY <1>1, <1>2, <1>3, SkipValueIs DEF SkipString

\* A text that is read as a value wherever no digit follows it, and not when it is cut.
Readable(body) ==
    /\ body \in Texts /\ Len(body) > 0 /\ body[1] # "]"
    /\ \A t \in Texts, q \in Nat \ {0}, d \in Nat :
          TextShows(t, q, body) =>
            IF q + Len(body) > Len(t) + 1 THEN SkipValue(t, q, d) = 0
            ELSE At(t, q + Len(body)) # "1" => SkipValue(t, q, d) = q + Len(body)

LEMMA DigitIsReadable == Readable(<<"1">>)
<1>1. <<"1">> \in Texts /\ Len(<<"1">>) = 1 /\ <<"1">>[1] = "1"
  BY SignsAreCharacters, OneCharacter
<1> DEFINE body == <<"1">>
<1>2. ASSUME NEW t \in Texts, NEW q \in Nat \ {0}, NEW d \in Nat, TextShows(t, q, body)
      PROVE  IF q + 1 > Len(t) + 1 THEN SkipValue(t, q, d) = 0
             ELSE At(t, q + 1) # "1" => SkipValue(t, q, d) = q + 1
  <2>1. At(t, q) = IF q <= Len(t) THEN "1" ELSE "end"
    <3> HIDE DEF body
    <3>. QED BY <1>1, <1>2, ShownText DEF body
  <2>2. Len(t) \in Nat BY TextIs
  <2>3. CASE q > Len(t) BY <2>2, <2>3, NothingAtTheEnd
  <2>4. CASE q <= Len(t)
    <3>1. "1" # Quote /\ "1" \notin Literals /\ "1" \notin Opening BY SignsAreNoDigits
    <3>2. SkipValue(t, q, d) = SkipNumber(t, q) BY <2>1, <2>4, <3>1, SkipValueIs
    <3>. QED BY <2>1, <2>2, <2>4, <3>2, SkipNumberIs
  <2>. QED BY <2>2, <2>3, <2>4
<1>. QED BY <1>1, <1>2 DEF Readable

LEMMA LiteralIsReadable ==
    ASSUME NEW l \in Literals
    PROVE  Readable(<<l>>)
<1>1. <<l>> \in Texts /\ Len(<<l>>) = 1 /\ <<l>>[1] = l
  BY SignsAreCharacters, OneCharacter
<1> DEFINE body == <<l>>
<1>2. ASSUME NEW t \in Texts, NEW q \in Nat \ {0}, NEW d \in Nat, TextShows(t, q, body)
      PROVE  IF q + 1 > Len(t) + 1 THEN SkipValue(t, q, d) = 0
             ELSE At(t, q + 1) # "1" => SkipValue(t, q, d) = q + 1
  <2>1. At(t, q) = IF q <= Len(t) THEN l ELSE "end"
    <3>1. body \in Texts /\ Len(body) > 0 /\ body[1] = l BY <1>1
    <3> HIDE DEF body
    <3>. QED BY <1>2, <3>1, ShownText
  <2>2. Len(t) \in Nat BY TextIs
  <2>3. CASE q > Len(t) BY <2>2, <2>3, NothingAtTheEnd
  <2>4. CASE q <= Len(t)
    <3>1. l # Quote BY SignsDiffer
    <3>2. SkipValue(t, q, d) = q + 1 BY <2>1, <2>4, <3>1, SkipValueIs
    <3>. QED BY <2>2, <2>4, <3>2
  <2>. QED BY <2>2, <2>3, <2>4
<1>3. l # "]" BY DEF Literals
<1>. QED BY <1>1, <1>2, <1>3 DEF Readable

LEMMA QuotedIsReadable ==
    ASSUME NEW text \in Texts
    PROVE  Readable(Quoted(text))
<1> DEFINE body == Quoted(text)
<1>1. body \in Texts /\ Len(body) > 0 /\ body[1] = Quote
  <2>1. Len(Escaped(text)) \in Nat BY EscapedIs, TextIs
  <2>. QED BY <2>1, QuotedIs
<1>2. ASSUME NEW t \in Texts, NEW q \in Nat \ {0}, NEW d \in Nat, TextShows(t, q, body)
      PROVE  IF q + Len(body) > Len(t) + 1 THEN SkipValue(t, q, d) = 0
             ELSE At(t, q + Len(body)) # "1" => SkipValue(t, q, d) = q + Len(body)
  <2>1. SkipString(t, q) = IF q + Len(body) <= Len(t) + 1 THEN q + Len(body) ELSE 0
    BY <1>2, SkipQuoted
  <2> HIDE DEF body
  <2>2. At(t, q) = IF q <= Len(t) THEN Quote ELSE "end" BY <1>1, <1>2, ShownText
  <2>3. Len(t) \in Nat /\ Len(body) \in Nat BY <1>1, TextIs
  <2>4. CASE q > Len(t)
    <3>1. q + Len(body) > Len(t) + 1 BY <1>1, <2>3, <2>4
    <3>. QED BY <2>4, <3>1, NothingAtTheEnd
  <2>5. CASE q <= Len(t)
    <3>1. SkipValue(t, q, d) = SkipString(t, q) BY <2>2, <2>5, SkipValueIs
    <3>. QED BY <2>1, <2>3, <3>1
  <2>. QED BY <2>3, <2>4, <2>5
<1>3. Quote # "]" BY DEF Quote
<1> HIDE DEF body
<1>4. Readable(body) BY <1>1, <1>2, <1>3 DEF Readable
<1>. QED BY <1>4 DEF body

\* What is left of a container of c, from the end x of one of its values.
Upon(t, c, d, x) ==
    IF x = 0 THEN 0
    ELSE IF At(t, x) = Closing(c) THEN x + 1
    ELSE IF At(t, x) = "," THEN Skip(t, c, x + 1, d) ELSE 0

\* From p on, where something stands before it, and where nothing does.
Ahead(t, c, d, p, sep) ==
    IF sep # <<>> THEN Upon(t, c, d, p)
    ELSE IF At(t, p) = Closing(c) THEN p + 1 ELSE Skip(t, c, p, d)

\* What put_separator writes.
Separators == {<<>>, <<",">>}
NameOf(key) == IF key = NoKey THEN <<>> ELSE Quoted(key) \o <<":">>

\* A key where it belongs.
KeyFor(c, key) == IF c = "{" THEN key \in Texts /\ key # NoKey ELSE key = NoKey

LEMMA LeadIs ==
    ASSUME NEW sep \in Separators, NEW c \in Opening, NEW key, KeyFor(c, key)
    PROVE  /\ sep \in Texts /\ NameOf(key) \in Texts
           /\ sep # <<>> => Len(sep) = 1 /\ Len(sep) > 0 /\ sep[1] = ","
           /\ sep = <<>> => Len(sep) = 0
           /\ c = "[" => NameOf(key) = <<>> /\ Len(NameOf(key)) = 0
           /\ c = "{" => /\ NameOf(key) = Quoted(key) \o <<":">>
                         /\ Len(NameOf(key)) = Len(Quoted(key)) + 1
                         /\ NameOf(key)[1] = Quote
<1>1. <<",">> \in Texts /\ Len(<<",">>) = 1 /\ <<",">>[1] = ","
  BY SignsAreCharacters, OneCharacter
<1>2. <<":">> \in Texts /\ Len(<<":">>) = 1 /\ <<":">>[1] = ":"
  BY SignsAreCharacters, OneCharacter
<1>3. /\ sep \in Texts
      /\ sep # <<>> => Len(sep) = 1 /\ Len(sep) > 0 /\ sep[1] = ","
      /\ sep = <<>> => Len(sep) = 0
  <2>1. CASE sep = <<",">>
    <3>1. Len(sep) > 0
      <4>1. Len(sep) = 1 BY <1>1, <2>1, Zenon
      <4>. QED BY ONLY <4>1
    <3>2. sep # <<>>
      <4>1. Len(<<>>) = 0 /\ Len(sep) = 1 BY <1>1, <2>1, NoText, Zenon
      <4>2. Len(sep) # Len(<<>>) BY ONLY <4>1
      <4>. QED BY <4>2, Zenon
    <3>. QED BY <1>1, <2>1, <3>1, <3>2, Zenon
  <2>2. CASE sep = <<>> BY <2>2, NoText, Zenon
  <2>. QED BY <2>1, <2>2, Zenon DEF Separators
<1>4. CASE c = "["
  <2>1. NameOf(key) = <<>> BY <1>4 DEF KeyFor, NameOf
  <2>. QED BY <1>3, <1>4, <2>1, NoText
<1>5. CASE c = "{"
  <2>1. key \in Texts /\ NameOf(key) = Quoted(key) \o <<":">> BY <1>5 DEF KeyFor, NameOf
  <2> DEFINE x == Quoted(key)
  <2>2. x \in Texts /\ Len(x) \in Nat /\ Len(x) > 0 /\ x[1] = Quote
    <3>1. Len(Escaped(key)) \in Nat BY <2>1, EscapedIs, TextIs
    <3>. QED BY <2>1, <3>1, QuotedIs
  <2> HIDE DEF x
  <2>3. x \o <<":">> \in Texts /\ Len(x \o <<":">>) = Len(x) + 1
    BY <1>2, <2>2, TextsJoined
  <2>4. (x \o <<":">>)[1] = Quote
    <3>1. 1 \in 1..Len(x) BY <2>2
    <3>. QED BY <1>2, <2>2, <3>1, TextsJoined
  <2>. QED BY <1>3, <1>5, <2>1, <2>3, <2>4 DEF x
<1>. QED BY <1>4, <1>5 DEF Opening

\* A key is read back, and where its value begins.
LEMMA NameIsRead ==
    ASSUME NEW t \in Texts, NEW q \in Nat \ {0}, NEW key \in Texts,
           TextShows(t, q, Quoted(key) \o <<":">>)
    PROVE  LET v == q + Len(Quoted(key)) + 1
           IN  /\ ValueStepAt(t, "{", q) = IF v <= Len(t) + 1 THEN v ELSE 0
               /\ v <= Len(t) + 1 =>
                     /\ SkipString(t, q) = v - 1 /\ At(t, v - 1) = ":"
                     /\ Unescaped(SubSeq(t, q + 1, (v - 1) - 2)) = key
<1> DEFINE x == Quoted(key)
           b == Escaped(key)
           s == q + Len(x)
<1>1. /\ x \in Texts /\ Len(x) = Len(b) + 2 /\ \A j \in 1..Len(b) : x[1 + j] = b[j]
  BY QuotedIs
<1>2. b \in Texts BY EscapedIs
<1>3. Unescaped(b) = key BY UnescapedEscaped
<1>4. <<":">> \in Texts /\ Len(<<":">>) = 1 /\ <<":">>[1] = ":"
  BY SignsAreCharacters, OneCharacter
<1>5. TextShows(t, q, x) /\ TextShows(t, q + Len(x), <<":">>) BY <1>1, <1>4, ShowsBoth
<1>6. SkipString(t, q) = IF q + Len(x) <= Len(t) + 1 THEN q + Len(x) ELSE 0
  BY <1>5, SkipQuoted
<1> HIDE DEF x, b
<1>7. Len(b) \in Nat /\ Len(x) \in Nat /\ Len(t) \in Nat /\ s \in Nat \ {0}
  BY <1>1, <1>2, TextIs
<1>8. At(t, s) = IF s <= Len(t) THEN ":" ELSE "end" BY <1>4, <1>5, <1>7, ShownText
<1>9. ValueStepAt(t, "{", q) = IF s <= Len(t) THEN s + 1 ELSE 0
  <2>1. CASE s <= Len(t) BY <1>6, <1>7, <1>8, <2>1 DEF ValueStepAt
  <2>2. CASE ~(s <= Len(t))
    <3>1. SkipString(t, q) = s \/ SkipString(t, q) = 0 BY <1>6
    <3>2. At(t, s) # ":" BY <1>8, <2>2
    <3>. QED BY <2>2, <3>1, <3>2, Zenon DEF ValueStepAt
  <2>. QED BY <2>1, <2>2
<1>10. ASSUME s <= Len(t)
       PROVE  /\ SkipString(t, q) = s /\ At(t, s) = ":"
              /\ Unescaped(SubSeq(t, q + 1, s - 2)) = key
  <2>1. SkipString(t, q) = s /\ At(t, s) = ":" BY <1>6, <1>7, <1>8, <1>10
  <2> DEFINE y == SubSeq(t, q + 1, s - 2)
  <2>2. s - 2 = q + Len(b) BY <1>1, <1>7
  <2>3. q + 1 \in Nat \ {0} /\ s - 2 \in Int /\ s - 2 <= Len(t) /\ q + 1 <= (s - 2) + 1
    BY <1>7, <1>10, <2>2
  <2>4. /\ y \in Texts /\ Len(y) = (s - 2) + 1 - (q + 1)
        /\ \A i \in 1..(s - 2) + 1 - (q + 1) : y[i] = t[q + 1 + i - 1]
    BY <2>3, PartOfText
  <2> HIDE DEF y
  <2>5. (s - 2) + 1 - (q + 1) = Len(b) BY <1>7, <2>2
  <2>6. ASSUME NEW i \in 1..Len(b) PROVE y[i] = b[i]
    <3>1. y[i] = t[q + 1 + i - 1] BY <2>4, <2>5
    <3>2. 1 + i \in 1..Len(x) /\ q + (1 + i) - 1 = q + 1 + i - 1 /\ q + (1 + i) - 1 <= Len(t)
      BY <1>1, <1>7, <1>10
    <3>3. t[q + (1 + i) - 1] = x[1 + i] BY <1>5, <3>2 DEF TextShows
    <3>. QED BY <1>1, <3>1, <3>2, <3>3
  <2>7. y = b BY <1>2, <2>4, <2>5, <2>6, SameText
  <2>. QED BY <1>3, <2>1, <2>7 DEF y
<1>11. /\ q + Len(x) + 1 = s + 1 /\ (s + 1) - 1 = s /\ (s + 1 <= Len(t) + 1) = (s <= Len(t))
  BY <1>7
<1>. QED BY <1>9, <1>10, <1>11 DEF x

\* What is ahead in a container of c, when a key, where one belongs, and a value come next:
\* what is left of it from the end of that value.
LEMMA ItemBegins ==
    ASSUME NEW t \in Texts, NEW p \in Nat \ {0}, NEW c \in Opening, NEW d \in Nat,
           NEW sep \in Separators, NEW key, KeyFor(c, key),
           NEW body \in Texts, Len(body) > 0, body[1] # "]",
           TextShows(t, p, sep), TextShows(t, p + Len(sep), NameOf(key)),
           TextShows(t, p + Len(sep) + Len(NameOf(key)), body)
    PROVE  Ahead(t, c, d, p, sep)
             = Upon(t, c, d, SkipValue(t, p + Len(sep) + Len(NameOf(key)), d + 1))
<1> DEFINE q == p + Len(sep)
           v == q + Len(NameOf(key))
           x == EndAt(t, c, q, d)
           y == SkipValue(t, v, d + 1)
<1>1. /\ sep \in Texts /\ NameOf(key) \in Texts
      /\ sep # <<>> => Len(sep) = 1 /\ Len(sep) > 0 /\ sep[1] = ","
      /\ sep = <<>> => Len(sep) = 0
      /\ c = "[" => NameOf(key) = <<>> /\ Len(NameOf(key)) = 0
      /\ c = "{" => /\ NameOf(key) = Quoted(key) \o <<":">>
                    /\ Len(NameOf(key)) = Len(Quoted(key)) + 1
                    /\ NameOf(key)[1] = Quote
  BY LeadIs
<1>2. Len(t) \in Nat /\ Len(NameOf(key)) \in Nat BY <1>1, TextIs
<1>3. (sep # <<>> => q = p + 1) /\ (sep = <<>> => q = p)
  <2>1. CASE sep # <<>>
    <3>1. Len(sep) = 1 BY <1>1, <2>1, Zenon
    <3>2. q = p + 1 BY ONLY <3>1
    <3>. QED BY <2>1, <3>2, Zenon
  <2>2. CASE sep = <<>>
    <3>1. Len(sep) = 0 BY <1>1, <2>2, Zenon
    <3>2. q = p BY ONLY p \in Nat \ {0}, <3>1
    <3>. QED BY <2>2, <3>2, Zenon
  <2>. QED BY <2>1, <2>2, Zenon
<1>4. v = q + Len(NameOf(key)) OBVIOUS
<1>5. d + 1 \in Nat /\ (c = "{" \/ c = "[")
  <2>1. d + 1 \in Nat OBVIOUS
  <2>2. c = "{" \/ c = "[" BY ONLY c \in Opening DEF Opening
  <2>. QED BY <2>1, <2>2
<1>6. /\ TextShows(t, q, NameOf(key)) /\ TextShows(t, v, body)
      /\ TextShows(t, p, sep)
  OBVIOUS
<1> HIDE DEF q, v
<1>0. q \in Nat \ {0} /\ v \in Nat \ {0} /\ v >= q
  <2>1. q = p + 1 \/ q = p BY <1>3
  <2>. QED BY ONLY p \in Nat \ {0}, <1>2, <1>4, <2>1
<1>11. v > Len(t) => y = 0 BY <1>0, <1>5, NothingAtTheEnd
<1> HIDE DEF y
\* The item is read from its beginning.
<1>7. Skip(t, c, q, d) = Upon(t, c, d, x) BY <1>0, SkipItemIs DEF Upon
<1>8. x = y
  <2>1. CASE c = "["
    <3>1. v = q
      <4>1. Len(NameOf(key)) = 0 BY <1>1, <2>1
      <4>. QED BY <1>0, <1>4, <4>1
    <3>2. ValueStepAt(t, c, q) = q /\ q # 0
      <4>1. c # "{" BY <2>1
      <4>. QED BY <1>0, <4>1, Zenon DEF ValueStepAt
    <3>. QED BY <3>1, <3>2, Zenon DEF EndAt, y
  <2>2. CASE c = "{"
    <3>1. key \in Texts BY <2>2 DEF KeyFor
    <3>2. v = q + Len(Quoted(key)) + 1
      <4>1. Len(NameOf(key)) = Len(Quoted(key)) + 1 BY <1>1, <2>2
      <4>2. Len(Quoted(key)) \in Nat BY <3>1, QuotedIs, TextIs
      <4>. QED BY <1>0, <1>4, <4>1, <4>2
    <3>3. ValueStepAt(t, "{", q) = IF q + Len(Quoted(key)) + 1 <= Len(t) + 1
                                 THEN q + Len(Quoted(key)) + 1 ELSE 0
      BY <1>0, <1>1, <1>6, <2>2, <3>1, NameIsRead
    <3>4. ValueStepAt(t, c, q) = IF v <= Len(t) + 1 THEN v ELSE 0 BY <2>2, <3>2, <3>3, Zenon
    <3>5. CASE v <= Len(t) + 1
      <4>1. ValueStepAt(t, c, q) = v /\ v # 0 BY <1>0, <3>4, <3>5
      <4>. QED BY <4>1, Zenon DEF EndAt, y
    <3>6. CASE ~(v <= Len(t) + 1)
      <4>1. ValueStepAt(t, c, q) = 0 BY <3>4, <3>6
      <4>2. v > Len(t) BY <1>0, <1>2, <3>6
      <4>. QED BY <1>11, <4>1, <4>2, Zenon DEF EndAt
    <3>. QED BY <3>5, <3>6
  <2>. QED BY <1>5, <2>1, <2>2
\* What is at the beginning does not end the container.
<1> HIDE DEF x
<1>12. SkipValue(t, p + Len(sep) + Len(NameOf(key)), d + 1) = y BY DEF y, v, q
<1>9. CASE sep # <<>>
  <2>1. At(t, p) = IF p <= Len(t) THEN "," ELSE "end"
    <3>1. Len(sep) > 0 /\ sep[1] = "," BY <1>1, <1>9, Zenon
    <3>. QED BY <1>1, <1>6, <3>1, ShownText
  <2>2. Ahead(t, c, d, p, sep) = Upon(t, c, d, p) BY <1>9 DEF Ahead
  <2>3. "," # Closing(c) /\ "end" # Closing(c) BY SignsAreNoDigits
  <2>4. q = p + 1 BY <1>3, <1>9
  <2>5. CASE p <= Len(t)
    <3>1. Upon(t, c, d, p) = Skip(t, c, q, d) BY <2>1, <2>3, <2>4, <2>5 DEF Upon
    <3>. QED BY <1>7, <1>8, <1>12, <2>2, <3>1, Zenon
  <2>6. CASE ~(p <= Len(t))
    <3>1. Upon(t, c, d, p) = 0 BY <2>1, <2>3, <2>6 DEF Upon
    <3>2. v > Len(t) BY <1>0, <1>2, <2>4, <2>6
    <3>3. Upon(t, c, d, y) = 0 BY <1>11, <3>2, Zenon DEF Upon
    <3>. QED BY <1>12, <2>2, <3>1, <3>3, Zenon
  <2>. QED BY <2>5, <2>6
<1>10. CASE sep = <<>>
  <2>1. q = p BY <1>3, <1>10
  <2>2. At(t, p) # Closing(c)
    <3>1. CASE c = "["
      <4>0. Len(NameOf(key)) = 0 BY <1>1, <3>1
      <4>1. v = p BY <1>4, <2>1, <4>0
      <4>2. At(t, p) = IF p <= Len(t) THEN body[1] ELSE "end" BY <1>6, <4>1, ShownText
      <4>3. Closing(c) = "]" BY <3>1 DEF Closing
      <4>. QED BY <4>2, <4>3
    <3>2. CASE c = "{"
      <4>1. NameOf(key) \in Texts /\ NameOf(key)[1] = Quote BY <1>1, <3>2
      <4>2. Len(NameOf(key)) > 0
        <5>1. key \in Texts BY <3>2 DEF KeyFor
        <5>2. Len(Quoted(key)) \in Nat BY <5>1, QuotedIs, TextIs
        <5>3. Len(NameOf(key)) = Len(Quoted(key)) + 1 BY <1>1, <3>2
        <5>. QED BY <5>2, <5>3
      <4>3. TextShows(t, p, NameOf(key)) BY <1>6, <2>1
      <4>4. At(t, p) = IF p <= Len(t) THEN Quote ELSE "end" BY <4>1, <4>2, <4>3, ShownText
      <4>. QED BY <4>4, SignsAreNoDigits
    <3>. QED BY <1>5, <3>1, <3>2
  <2>3. Ahead(t, c, d, p, sep) = Skip(t, c, p, d) BY <1>10, <2>2, Zenon DEF Ahead
  <2>. QED BY <1>7, <1>8, <1>12, <2>1, <2>3, Zenon
<1>. QED BY <1>9, <1>10, Zenon
-----------------------------------------------------------------------------
(* A text as it grows *)

Begins(t, w) == t \in Texts /\ Len(w) <= Len(t) /\ \A j \in 1..Len(w) : t[j] = w[j]

\* t begins with w, and no digit follows what ends a value.
Follows(t, w, sep) == Begins(t, w) /\ (sep # <<>> => At(t, Len(w) + 1) # "1")

\* t begins with w and goes on with x, as far as t goes.
Grows(t, w, x) == Begins(t, w) /\ TextShows(t, Len(w) + 1, x)

LEMMA GrowsFollows ==
    ASSUME NEW w \in Texts, NEW x \in Texts, Len(x) > 0, NEW t, Grows(t, w, x), NEW sep,
           sep # <<>> => x[1] # "1"
    PROVE  Follows(t, w, sep)
<1>1. t \in Texts /\ TextShows(t, Len(w) + 1, x) /\ Begins(t, w) BY DEF Grows, Begins
<1>2. Len(w) + 1 \in Nat \ {0}
  <2>1. Len(w) \in Nat BY TextIs
  <2>. QED BY <2>1
<1>3. At(t, Len(w) + 1) = IF Len(w) + 1 <= Len(t) THEN x[1] ELSE "end"
  BY <1>1, <1>2, ShownText
<1>4. "end" # "1" OBVIOUS
<1>. QED BY <1>1, <1>3, <1>4, Zenon DEF Follows

LEMMA BeginsGrows ==
    ASSUME NEW w \in Texts, NEW x \in Texts, NEW t, Begins(t, w \o x)
    PROVE  Grows(t, w, x)
<1> DEFINE y == w \o x
<1>1. /\ y \in Texts /\ Len(y) = Len(w) + Len(x)
      /\ \A i \in 1..Len(w) : y[i] = w[i]
      /\ \A i \in 1..Len(x) : y[Len(w) + i] = x[i]
  BY TextsJoined
<1>2. t \in Texts /\ Len(y) <= Len(t) /\ \A j \in 1..Len(y) : t[j] = y[j] BY DEF Begins
<1> HIDE DEF y
<1>3. Len(w) \in Nat /\ Len(x) \in Nat /\ Len(t) \in Nat BY <1>2, TextIs
<1>4. \A j \in 1..Len(w) : j \in 1..Len(y) BY <1>1, <1>3
<1>5. \A j \in 1..Len(x) : Len(w) + j \in 1..Len(y) /\ Len(w) + 1 + j - 1 = Len(w) + j
  BY <1>1, <1>3
<1>6. Begins(t, w) BY <1>1, <1>2, <1>3, <1>4 DEF Begins
<1>7. TextShows(t, Len(w) + 1, x) BY <1>1, <1>2, <1>5 DEF TextShows
<1>. QED BY <1>6, <1>7 DEF Grows

LEMMA CutGrows ==
    ASSUME NEW w \in Texts, NEW x \in Texts, NEW m \in Len(w)..Len(w \o x)
    PROVE  /\ Grows(SubSeq(w \o x, 1, m), w, x) /\ Len(SubSeq(w \o x, 1, m)) = m
           /\ SubSeq(w \o x, 1, m) \in Texts
<1> DEFINE y == w \o x
           t == SubSeq(y, 1, m)
<1>1. /\ y \in Texts /\ Len(y) = Len(w) + Len(x)
      /\ \A i \in 1..Len(w) : y[i] = w[i]
      /\ \A i \in 1..Len(x) : y[Len(w) + i] = x[i]
  BY TextsJoined
<1>2. m \in Len(w)..Len(y) OBVIOUS
<1> HIDE DEF y
<1>3. Len(w) \in Nat /\ Len(x) \in Nat BY TextIs
<1>4. 1 \in Nat \ {0} /\ m \in Nat /\ m <= Len(y) /\ 1 <= m + 1 BY <1>1, <1>2, <1>3
<1>5. /\ t \in Texts /\ Len(t) = m + 1 - 1 /\ \A i \in 1..m + 1 - 1 : t[i] = y[1 + i - 1]
  BY <1>1, <1>4, PartOfText
<1> HIDE DEF t
<1>6. m + 1 - 1 = m /\ \A i \in 1..m : 1 + i - 1 = i BY <1>4
<1>7. Len(t) = m /\ \A i \in 1..m : t[i] = y[i] BY <1>5, <1>6
<1>8. \A j \in 1..Len(w) : j \in 1..m BY <1>2, <1>3
<1>9. Begins(t, w) BY <1>1, <1>2, <1>3, <1>5, <1>7, <1>8 DEF Begins
<1>10. ASSUME NEW j \in 1..Len(x), Len(w) + 1 + j - 1 <= Len(t)
       PROVE  t[Len(w) + 1 + j - 1] = x[j]
  <2>1. Len(w) + 1 + j - 1 = Len(w) + j /\ Len(w) + j \in 1..m BY <1>3, <1>7, <1>10
  <2>. QED BY <1>1, <1>7, <2>1
<1>11. TextShows(t, Len(w) + 1, x) BY <1>10 DEF TextShows
<1>12. Grows(t, w, x) /\ Len(t) = m /\ t \in Texts BY <1>5, <1>7, <1>9, <1>11 DEF Grows
<1>. QED BY <1>12 DEF t, y

LEMMA CutSame ==
    ASSUME NEW w \in Texts, NEW x \in Texts, NEW m \in 0..Len(w)
    PROVE  SubSeq(w \o x, 1, m) = SubSeq(w, 1, m)
<1> DEFINE y == w \o x
           t == SubSeq(y, 1, m)
           u == SubSeq(w, 1, m)
<1>1. /\ y \in Texts /\ Len(y) = Len(w) + Len(x) /\ \A i \in 1..Len(w) : y[i] = w[i]
  BY TextsJoined
<1> HIDE DEF y
<1>2. Len(w) \in Nat /\ Len(x) \in Nat BY TextIs
<1>3. /\ 1 \in Nat \ {0} /\ m \in Nat /\ m <= Len(y) /\ m <= Len(w) /\ 1 <= m + 1
  BY <1>1, <1>2
<1>4. /\ t \in Texts /\ Len(t) = m + 1 - 1 /\ \A i \in 1..m + 1 - 1 : t[i] = y[1 + i - 1]
  BY <1>1, <1>3, PartOfText
<1>5. /\ u \in Texts /\ Len(u) = m + 1 - 1 /\ \A i \in 1..m + 1 - 1 : u[i] = w[1 + i - 1]
  BY <1>3, PartOfText
<1> HIDE DEF t, u
<1>6. \A i \in 1..m + 1 - 1 : 1 + i - 1 \in 1..Len(w) BY <1>2, <1>3
<1>7. Len(t) = Len(u) /\ \A i \in 1..Len(t) : t[i] = u[i] BY <1>1, <1>4, <1>5, <1>6
<1>8. t = u BY <1>4, <1>5, <1>7, SameText
<1>. QED BY <1>8 DEF t, u, y

LEMMA WholeText ==
    ASSUME NEW w \in Texts
    PROVE  /\ SubSeq(w, 1, Len(w)) = w /\ Begins(w, w)
           /\ \A sep : Follows(w, w, sep)
<1> DEFINE y == SubSeq(w, 1, Len(w))
<1>1. Len(w) \in Nat BY TextIs
<1>2. 1 \in Nat \ {0} /\ Len(w) \in Int /\ Len(w) <= Len(w) /\ 1 <= Len(w) + 1 BY <1>1
<1>3. /\ y \in Texts /\ Len(y) = Len(w) + 1 - 1
      /\ \A i \in 1..Len(w) + 1 - 1 : y[i] = w[1 + i - 1]
  BY <1>2, PartOfText
<1> HIDE DEF y
<1>4. Len(w) + 1 - 1 = Len(w) /\ \A i \in 1..Len(w) : 1 + i - 1 = i BY <1>1
<1>5. y = w BY <1>3, <1>4, SameText
<1>6. Begins(w, w) BY <1>1 DEF Begins
<1>7. At(w, Len(w) + 1) = "end"
  <2>1. Len(w) + 1 \notin 1..Len(w) BY <1>1
  <2>. QED BY <2>1 DEF At
<1>8. "end" # "1" OBVIOUS
<1>9. \A sep : Follows(w, w, sep) BY <1>6, <1>7, <1>8, Zenon DEF Follows
<1>. QED BY <1>5, <1>6, <1>9 DEF y

\* The text from q on.
From(w, q) == SubSeq(w, q, Len(w))

LEMMA FromIs ==
    ASSUME NEW w \in Texts, NEW q \in 1..Len(w) + 1
    PROVE  /\ From(w, q) \in Texts /\ Len(From(w, q)) = Len(w) + 1 - q
           /\ \A i \in 1..Len(w) + 1 - q : From(w, q)[i] = w[q + i - 1]
<1>1. Len(w) \in Nat BY TextIs
<1>2. q \in Nat \ {0} /\ Len(w) \in Int /\ Len(w) <= Len(w) /\ q <= Len(w) + 1 BY <1>1
<1>. QED BY <1>2, PartOfText DEF From

LEMMA FromGrows ==
    ASSUME NEW w \in Texts, NEW x \in Texts, NEW q \in 1..Len(w) + 1
    PROVE  From(w \o x, q) = From(w, q) \o x
<1> DEFINE y == w \o x
           f == From(w, q)
           g == From(y, q)
           z == f \o x
<1>1. /\ y \in Texts /\ Len(y) = Len(w) + Len(x)
      /\ \A i \in 1..Len(w) : y[i] = w[i]
      /\ \A i \in 1..Len(x) : y[Len(w) + i] = x[i]
  BY TextsJoined
<1> HIDE DEF y
<1>2. Len(w) \in Nat /\ Len(x) \in Nat BY TextIs
<1>3. /\ f \in Texts /\ Len(f) = Len(w) + 1 - q /\ \A i \in 1..Len(w) + 1 - q : f[i] = w[q + i - 1]
  BY FromIs
<1>4. q \in 1..Len(y) + 1 BY <1>1, <1>2
<1>5. /\ g \in Texts /\ Len(g) = Len(y) + 1 - q /\ \A i \in 1..Len(y) + 1 - q : g[i] = y[q + i - 1]
  BY <1>1, <1>4, FromIs
<1> HIDE DEF f, g
<1>6. /\ z \in Texts /\ Len(z) = Len(f) + Len(x)
      /\ \A i \in 1..Len(f) : z[i] = f[i]
      /\ \A i \in 1..Len(x) : z[Len(f) + i] = x[i]
  BY <1>3, TextsJoined
<1> HIDE DEF z
<1>7. Len(g) = Len(z) BY <1>1, <1>2, <1>3, <1>5, <1>6
<1>8. ASSUME NEW i \in 1..Len(g) PROVE g[i] = z[i]
  <2>1. g[i] = y[q + i - 1] BY <1>5
  <2>2. CASE i <= Len(f)
    <3>1. i \in 1..Len(f) /\ i \in 1..Len(w) + 1 - q /\ q + i - 1 \in 1..Len(w)
      BY <1>2, <1>3, <2>2
    <3>. QED BY <1>1, <1>3, <1>6, <2>1, <3>1
  <2>3. CASE i > Len(f)
    <3>1. i - Len(f) \in 1..Len(x) /\ Len(f) + (i - Len(f)) = i
          /\ Len(w) + (i - Len(f)) = q + i - 1
      BY <1>1, <1>2, <1>3, <1>5, <2>3
    <3>2. z[i] = x[i - Len(f)] BY <1>6, <3>1
    <3>3. y[q + i - 1] = x[i - Len(f)] BY <1>1, <3>1
    <3>. QED BY <2>1, <3>2, <3>3
  <2>. QED BY <1>2, <1>3, <2>2, <2>3
<1>9. g = z BY <1>5, <1>6, <1>7, <1>8, SameText
<1>. QED BY <1>9 DEF g, z, f, y

\* What a call adds for one item.
Item(sep, key, body) == sep \o (NameOf(key) \o body)

LEMMA ItemIs ==
    ASSUME NEW sep \in Separators, NEW c \in Opening, NEW key, KeyFor(c, key),
           NEW body \in Texts, Len(body) > 0
    PROVE  /\ Item(sep, key, body) \in Texts
           /\ Len(Item(sep, key, body)) = Len(sep) + Len(NameOf(key)) + Len(body)
           /\ Len(Item(sep, key, body)) > 0
           /\ sep # <<>> => Item(sep, key, body)[1] # "1"
           /\ Len(sep) \in Nat /\ Len(NameOf(key)) \in Nat /\ Len(body) \in Nat
<1> DEFINE y == NameOf(key) \o body
<1>1. /\ sep \in Texts /\ NameOf(key) \in Texts
      /\ sep # <<>> => Len(sep) = 1 /\ Len(sep) > 0 /\ sep[1] = ","
  BY LeadIs
<1>2. y \in Texts /\ Len(y) = Len(NameOf(key)) + Len(body) BY <1>1, TextsJoined
<1>3. Item(sep, key, body) = sep \o y BY DEF Item
<1> HIDE DEF y
<1> DEFINE z == sep \o y
<1>4. z \in Texts /\ Len(z) = Len(sep) + Len(y) /\ \A i \in 1..Len(sep) : z[i] = sep[i]
  BY <1>1, <1>2, TextsJoined
<1> HIDE DEF z
<1>5. Len(sep) \in Nat /\ Len(NameOf(key)) \in Nat /\ Len(body) \in Nat BY <1>1, TextIs
<1>6. Len(z) = Len(sep) + Len(NameOf(key)) + Len(body) BY ONLY <1>2, <1>4, <1>5
<1>7. Len(z) > 0 BY ONLY <1>5, <1>6, Len(body) > 0
<1>8. ASSUME sep # <<>> PROVE z[1] # "1"
  <2>0. Len(sep) = 1 BY <1>1, <1>8, Zenon
  <2>1. sep[1] = "," BY <1>1, <1>8, Zenon
  <2>2. 1 \in 1..Len(sep) BY ONLY <2>0
  <2>3. z[1] = sep[1] BY <1>4, <2>2, Zenon
  <2>4. "," # "1" OBVIOUS
  <2>. QED BY <2>1, <2>3, <2>4, Zenon
<1>. QED BY <1>3, <1>4, <1>5, <1>6, <1>7, <1>8, Zenon DEF z

LEMMA ItemShown ==
    ASSUME NEW sep \in Separators, NEW c \in Opening, NEW key, KeyFor(c, key),
           NEW body \in Texts, NEW t \in Texts, NEW p \in Nat, TextShows(t, p, Item(sep, key, body))
    PROVE  /\ TextShows(t, p, sep) /\ TextShows(t, p + Len(sep), NameOf(key))
           /\ TextShows(t, p + Len(sep) + Len(NameOf(key)), body)
<1> DEFINE y == NameOf(key) \o body
<1>1. sep \in Texts /\ NameOf(key) \in Texts BY LeadIs
<1>2. y \in Texts BY <1>1, TextsJoined
<1>3. TextShows(t, p, sep \o y) BY DEF Item
<1> HIDE DEF y
<1>4. TextShows(t, p, sep) /\ TextShows(t, p + Len(sep), y) BY <1>1, <1>2, <1>3, ShowsBoth
<1>5. p + Len(sep) \in Nat
  <2>1. Len(sep) \in Nat BY <1>1, TextIs
  <2>. QED BY <2>1
<1>6. TextShows(t, p + Len(sep), NameOf(key) \o body) BY <1>4 DEF y
<1>. QED BY <1>1, <1>4, <1>5, <1>6, ShowsBoth
-----------------------------------------------------------------------------
(* How far a document is read while it is written *)

\* The container that opens at s[i] is read to what is left of it after the next one.
Nested(t, st, s) ==
    \A i \in 1..Len(st) - 1 :
        SkipValue(t, s[i], i - 1) = Upon(t, st[i], i - 1, SkipValue(t, s[i + 1], i))

\* The open containers st begin at s in the text w.  Whatever follows, the innermost is read
\* to the end of w; and no beginning of w is read as a document.
Reading(w, st, s, sep) ==
    /\ Len(st) > 0 /\ s[1] = 1
    /\ \A i \in 1..Len(st) : s[i] \in 1..Len(w)
    /\ \A i \in 1..Len(st) - 1 : s[i] < s[i + 1]
    /\ \A t : Follows(t, w, sep) =>
          /\ Nested(t, st, s)
          /\ SkipValue(t, s[Len(st)], Len(st) - 1)
               = Ahead(t, st[Len(st)], Len(st) - 1, Len(w) + 1, sep)
    /\ \A m \in 0..Len(w) : SkipValue(SubSeq(w, 1, m), 1, 0) = 0

\* What is not read to its end inside is not read outside.
LEMMA NotReadInside ==
    ASSUME NEW t, NEW st, NEW s, NEW k \in Nat, k = Len(st), k > 0, s[1] = 1, Nested(t, st, s),
           SkipValue(t, s[k], k - 1) = 0
    PROVE  SkipValue(t, 1, 0) = 0
<1> DEFINE S == {i \in 1..k : SkipValue(t, s[i], i - 1) = 0}
           n == k - 1
<1>1. n \in Nat /\ n + 1 = k OBVIOUS
<1>2. n + 1 \in S BY <1>1
<1>3. ASSUME NEW i \in 1..n, i + 1 \in S PROVE i \in S
  <2>1. SkipValue(t, s[i + 1], i) = 0
    <3>1. (i + 1) - 1 = i OBVIOUS
    <3>. QED BY <1>3, <3>1
  <2>2. SkipValue(t, s[i], i - 1) = Upon(t, st[i], i - 1, SkipValue(t, s[i + 1], i))
    BY <1>1 DEF Nested
  <2>3. SkipValue(t, s[i], i - 1) = 0 BY <2>1, <2>2 DEF Upon
  <2>. QED BY <1>1, <2>3
<1>4. 1..n + 1 \subseteq S
  <2> HIDE DEF S, n
  <2>. QED BY <1>1, <1>2, <1>3, CountedDown
<1>5. 1 \in 1..n + 1 BY <1>1
<1>6. SkipValue(t, s[1], 1 - 1) = 0 BY <1>4, <1>5
<1>7. 1 - 1 = 0 OBVIOUS
<1>. QED BY <1>6, <1>7

LEMMA AheadOfNothing ==
    ASSUME NEW t \in Texts, NEW c \in Opening, NEW d \in Nat, NEW sep, NEW p \in Nat \ {0},
           p > Len(t)
    PROVE  Ahead(t, c, d, p, sep) = 0
<1>1. d + 1 \in Nat OBVIOUS
<1>2. SkipValue(t, p, d + 1) = 0 /\ SkipString(t, p) = 0 /\ At(t, p) = "end"
  BY <1>1, NothingAtTheEnd
<1>3. "end" # Closing(c) /\ "end" # "," BY SignsAreNoDigits
<1>4. EndAt(t, c, p, d) = 0 BY <1>2, Zenon DEF EndAt, ValueStepAt
<1>5. Skip(t, c, p, d) = 0 BY <1>4, SkipItemIs
<1>6. Upon(t, c, d, p) = 0 BY <1>2, <1>3, Zenon DEF Upon
<1>. QED BY <1>2, <1>3, <1>5, <1>6, Zenon DEF Ahead

LEMMA ItemIsRead ==
    ASSUME NEW w \in Texts, NEW st \in Seq(Opening), NEW s, NEW sep \in Separators,
           Reading(w, st, s, sep), NEW key, KeyFor(st[Len(st)], key),
           NEW body \in Texts, Len(body) > 0, body[1] # "]",
           NEW t, Grows(t, w, Item(sep, key, body)),
           NEW v, v = Len(w) + 1 + Len(sep) + Len(NameOf(key))
    PROVE  /\ t \in Texts /\ v \in Nat \ {0} /\ Len(w) < v
           /\ Follows(t, w, sep) /\ TextShows(t, v, body)
           /\ Nested(t, st, s)
           /\ SkipValue(t, s[Len(st)], Len(st) - 1)
                = Upon(t, st[Len(st)], Len(st) - 1, SkipValue(t, v, Len(st)))
<1> DEFINE k == Len(st)
           c == st[k]
           x == Item(sep, key, body)
           p == Len(w) + 1
<1>1. k \in Nat /\ k > 0 /\ c \in Opening
  <2>1. k \in Nat /\ k > 0 BY DEF Reading
  <2>. QED BY <2>1, ElementOfSeq
<1>2. KeyFor(c, key) OBVIOUS
<1> HIDE DEF c, k
<1>3. /\ x \in Texts /\ Len(x) > 0 /\ (sep # <<>> => x[1] # "1")
      /\ Len(sep) \in Nat /\ Len(NameOf(key)) \in Nat /\ Len(body) \in Nat
  BY <1>1, <1>2, ItemIs
<1>4. t \in Texts /\ TextShows(t, p, x) BY DEF Grows, Begins
<1>5. Follows(t, w, sep) BY <1>3, GrowsFollows
<1>6. Nested(t, st, s) /\ SkipValue(t, s[k], k - 1) = Ahead(t, c, k - 1, p, sep)
  BY <1>5 DEF Reading, k, c
<1>7. Len(w) \in Nat BY TextIs
<1>8. p \in Nat \ {0} /\ v = p + Len(sep) + Len(NameOf(key)) /\ v \in Nat \ {0} /\ Len(w) < v
  BY ONLY <1>3, <1>7, v = Len(w) + 1 + Len(sep) + Len(NameOf(key))
<1> HIDE DEF p, x
<1>9. /\ TextShows(t, p, sep) /\ TextShows(t, p + Len(sep), NameOf(key))
      /\ TextShows(t, p + Len(sep) + Len(NameOf(key)), body)
  <2>1. TextShows(t, p, Item(sep, key, body)) BY <1>4 DEF x
  <2>2. p \in Nat BY <1>8
  <2>. QED BY <1>1, <1>2, <1>4, <2>1, <2>2, ItemShown
<1>10. k - 1 \in Nat /\ (k - 1) + 1 = k BY <1>1
<1>11. Ahead(t, c, k - 1, p, sep)
         = Upon(t, c, k - 1, SkipValue(t, p + Len(sep) + Len(NameOf(key)), (k - 1) + 1))
  BY <1>1, <1>2, <1>4, <1>8, <1>9, <1>10, ItemBegins
<1>12. SkipValue(t, s[k], k - 1) = Upon(t, c, k - 1, SkipValue(t, v, k))
  BY <1>6, <1>8, <1>10, <1>11, Zenon
<1>13. TextShows(t, v, body) BY <1>8, <1>9, Zenon
<1>. QED BY <1>4, <1>5, <1>6, <1>8, <1>12, <1>13, Zenon DEF k, c

\* Prefixes of what is written next are no documents either: those of before, those that
\* end inside, and the whole.
LEMMA PrefixesUnread ==
    ASSUME NEW w \in Texts, NEW x \in Texts,
           \A m \in 0..Len(w) : SkipValue(SubSeq(w, 1, m), 1, 0) = 0,
           \A t : /\ Grows(t, w, x) /\ Len(t) > Len(w) /\ Len(t) < Len(w \o x)
                  => SkipValue(t, 1, 0) = 0,
           SkipValue(w \o x, 1, 0) = 0
    PROVE  \A m \in 0..Len(w \o x) : SkipValue(SubSeq(w \o x, 1, m), 1, 0) = 0
<1> TAKE m \in 0..Len(w \o x)
<1>1. w \o x \in Texts /\ Len(w \o x) = Len(w) + Len(x) BY TextsJoined
<1>2. Len(w) \in Nat /\ Len(w \o x) \in Nat BY <1>1, TextIs
<1>3. CASE m \in 0..Len(w) BY <1>3, CutSame
<1>4. CASE m = Len(w \o x) BY <1>1, <1>4, WholeText
<1>5. CASE m > Len(w) /\ m < Len(w \o x)
  <2>1. m \in Len(w)..Len(w \o x) BY <1>2, <1>5
  <2>2. /\ Grows(SubSeq(w \o x, 1, m), w, x) /\ Len(SubSeq(w \o x, 1, m)) = m
    BY <2>1, CutGrows
  <2>. QED BY <1>5, <2>2
<1>. QED BY <1>2, <1>3, <1>4, <1>5

\* A value is written.
LEMMA ValueWritten ==
    ASSUME NEW w \in Texts, NEW st \in Seq(Opening), NEW s, NEW sep \in Separators,
           Reading(w, st, s, sep), NEW key, KeyFor(st[Len(st)], key), NEW body, Readable(body)
    PROVE  Reading(w \o Item(sep, key, body), st, s, <<",">>)
<1> DEFINE k == Len(st)
           c == st[k]
           x == Item(sep, key, body)
           y == w \o x
           v == Len(w) + 1 + Len(sep) + Len(NameOf(key))
<1>1. k \in Nat /\ k > 0 /\ c \in Opening
  <2>1. k \in Nat /\ k > 0 BY DEF Reading
  <2>. QED BY <2>1, ElementOfSeq
<1>2. body \in Texts /\ Len(body) > 0 /\ body[1] # "]" BY DEF Readable
<1>3. /\ x \in Texts /\ Len(x) = Len(sep) + Len(NameOf(key)) + Len(body) /\ Len(x) > 0
      /\ Len(sep) \in Nat /\ Len(NameOf(key)) \in Nat /\ Len(body) \in Nat
  BY <1>1, <1>2, ItemIs
<1>4. ASSUME NEW t, Grows(t, w, x)
      PROVE  /\ t \in Texts /\ v \in Nat \ {0} /\ Len(w) < v
             /\ Follows(t, w, sep) /\ TextShows(t, v, body)
             /\ Nested(t, st, s)
             /\ SkipValue(t, s[k], k - 1) = Upon(t, c, k - 1, SkipValue(t, v, k))
  BY <1>2, <1>4, ItemIsRead
<1> HIDE DEF x
<1>5. y \in Texts /\ Len(y) = Len(w) + Len(x) BY <1>3, TextsJoined
<1>6. Len(w) \in Nat /\ Len(y) \in Nat BY <1>5, TextIs
<1>7. v + Len(body) = Len(y) + 1 BY <1>3, <1>5, <1>6
<1> HIDE DEF y, v, k, c
\* Whole.
<1>8. ASSUME NEW t, Follows(t, y, <<",">>)
      PROVE  /\ Nested(t, st, s)
             /\ SkipValue(t, s[k], k - 1) = Ahead(t, c, k - 1, Len(y) + 1, <<",">>)
  <2>1. Begins(t, y) BY <1>8 DEF Follows
  <2>2. Grows(t, w, x) BY <1>3, <2>1, BeginsGrows DEF y
  <2>3. /\ t \in Texts /\ v \in Nat \ {0} /\ TextShows(t, v, body) /\ Nested(t, st, s)
        /\ SkipValue(t, s[k], k - 1) = Upon(t, c, k - 1, SkipValue(t, v, k))
    BY <1>4, <2>2
  <2>4. <<",">> # <<>> OBVIOUS
  <2>5. At(t, v + Len(body)) # "1" BY <1>7, <1>8, <2>4 DEF Follows
  <2>6. Len(y) <= Len(t) /\ Len(t) \in Nat BY <2>1, <2>3, TextIs DEF Begins
  <2>7. ~(v + Len(body) > Len(t) + 1) BY <1>6, <1>7, <2>6
  <2>8. SkipValue(t, v, k) = v + Len(body) BY <1>1, <2>3, <2>5, <2>7 DEF Readable
  <2>9. SkipValue(t, s[k], k - 1) = Upon(t, c, k - 1, Len(y) + 1) BY <1>7, <2>3, <2>8
  <2>. QED BY <2>3, <2>4, <2>9, Zenon DEF Ahead
\* Cut.
<1>9. ASSUME NEW t, Grows(t, w, x), Len(t) > Len(w), Len(t) < Len(y)
      PROVE  SkipValue(t, 1, 0) = 0
  <2>1. /\ t \in Texts /\ v \in Nat \ {0} /\ TextShows(t, v, body) /\ Nested(t, st, s)
        /\ SkipValue(t, s[k], k - 1) = Upon(t, c, k - 1, SkipValue(t, v, k))
    BY <1>4, <1>9
  <2>2. v + Len(body) > Len(t) + 1
    <3>1. Len(t) \in Nat BY <2>1, TextIs
    <3>. QED BY <1>6, <1>7, <1>9, <3>1
  <2>3. SkipValue(t, v, k) = 0 BY <1>1, <2>1, <2>2 DEF Readable
  <2>4. SkipValue(t, s[k], k - 1) = 0 BY <2>1, <2>3 DEF Upon
  <2>5. s[1] = 1 BY DEF Reading
  <2>. QED BY <1>1, <2>1, <2>4, <2>5, NotReadInside DEF k
<1>10. SkipValue(y, 1, 0) = 0
  <2>1. Follows(y, y, <<",">>) BY <1>5, WholeText
  <2>2. Nested(y, st, s) /\ SkipValue(y, s[k], k - 1) = Ahead(y, c, k - 1, Len(y) + 1, <<",">>)
    BY <1>8, <2>1
  <2>3. k - 1 \in Nat /\ Len(y) + 1 \in Nat \ {0} /\ Len(y) + 1 > Len(y) BY <1>1, <1>6
  <2>4. SkipValue(y, s[k], k - 1) = 0 BY <1>1, <1>5, <2>2, <2>3, AheadOfNothing
  <2>5. s[1] = 1 BY DEF Reading
  <2>. QED BY <1>1, <2>2, <2>4, <2>5, NotReadInside DEF k
<1>11. \A m \in 0..Len(y) : SkipValue(SubSeq(y, 1, m), 1, 0) = 0
  <2>1. \A m \in 0..Len(w) : SkipValue(SubSeq(w, 1, m), 1, 0) = 0 BY DEF Reading
  <2>. QED BY <1>3, <1>9, <1>10, <2>1, PrefixesUnread DEF y
<1>12. /\ Len(st) > 0 /\ s[1] = 1
       /\ \A i \in 1..Len(st) : s[i] \in 1..Len(y)
       /\ \A i \in 1..Len(st) - 1 : s[i] < s[i + 1]
  <2>1. /\ Len(st) > 0 /\ s[1] = 1
        /\ \A i \in 1..Len(st) : s[i] \in 1..Len(w)
        /\ \A i \in 1..Len(st) - 1 : s[i] < s[i + 1]
    BY DEF Reading
  <2>2. \A z \in 1..Len(w) : z \in 1..Len(y) BY <1>3, <1>5, <1>6
  <2>. QED BY <2>1, <2>2
<1>13. Reading(y, st, s, <<",">>) BY <1>8, <1>11, <1>12, Zenon DEF Reading, k, c
<1>. QED BY <1>13 DEF y, x

\* What is read of a container that opens where the text ends.
LEMMA OpenIsAhead ==
    ASSUME NEW t \in Texts, NEW v \in Nat \ {0}, NEW open \in Opening, NEW d \in Nat,
           At(t, v) = open, d < MaxJsonDepth
    PROVE  SkipValue(t, v, d) = Ahead(t, open, d, v + 1, <<>>)
<1>1. ~(d >= MaxJsonDepth)
  <2>1. MaxJsonDepth \in Nat BY JsonAssumption
  <2>. QED BY ONLY <2>1, d \in Nat, d < MaxJsonDepth
<1>2. open # Quote /\ open \notin Literals BY SignsAreNoDigits
<1>3. SkipValue(t, v, d) = IF At(t, v + 1) = Closing(open) THEN v + 2 ELSE Skip(t, open, v + 1, d)
  BY <1>1, <1>2, SkipValueIs
<1>4. v + 2 = (v + 1) + 1 OBVIOUS
<1>. QED BY <1>3, <1>4, Zenon DEF Ahead

LEMMA OneMoreOpen ==
    ASSUME NEW st \in Seq(Opening), NEW open \in Opening
    PROVE  /\ Append(st, open) \in Seq(Opening) /\ Len(Append(st, open)) = Len(st) + 1
           /\ \A i \in 1..Len(st) : Append(st, open)[i] = st[i]
           /\ Append(st, open)[Len(st) + 1] = open
BY AppendProperties

LEMMA OneFewerOpen ==
    ASSUME NEW st \in Seq(Opening), Len(st) > 0
    PROVE  /\ SubSeq(st, 1, Len(st) - 1) \in Seq(Opening)
           /\ Len(SubSeq(st, 1, Len(st) - 1)) = Len(st) - 1
           /\ \A i \in 1..Len(st) - 1 : SubSeq(st, 1, Len(st) - 1)[i] = st[i]
<1> DEFINE n == Len(st) - 1
           u == SubSeq(st, 1, n)
<1>1. Len(st) \in Nat OBVIOUS
<1>2. n \in Nat BY <1>1
<1>3. \A i \in 1..n : st[i] \in Opening
  <2>1. \A i \in 1..n : i \in 1..Len(st) BY <1>1
  <2>. QED BY <2>1, ElementOfSeq
<1>4. 1 \in Int /\ n \in Int BY <1>2
<1> HIDE DEF n
<1>5. /\ u \in Seq(Opening) /\ Len(u) = IF 1 <= n THEN n - 1 + 1 ELSE 0
      /\ \A i \in 1..n - 1 + 1 : u[i] = st[1 + i - 1]
  BY <1>3, <1>4, SubSeqProperties
<1> HIDE DEF u
<1>6. Len(u) = n BY <1>2, <1>5
<1>7. \A i \in 1..n : i \in 1..n - 1 + 1 /\ 1 + i - 1 = i BY <1>2
<1>8. \A i \in 1..n : u[i] = st[i] BY <1>5, <1>7
<1>. QED BY <1>5, <1>6, <1>8 DEF u, n

\* Where a container begins.
Deeper(s, k, v) == [i \in 1..k + 1 |-> IF i = k + 1 THEN v ELSE s[i]]

\* A container is opened.
LEMMA ContainerOpened ==
    ASSUME NEW w \in Texts, NEW st \in Seq(Opening), NEW s, NEW sep \in Separators,
           Reading(w, st, s, sep), NEW key, KeyFor(st[Len(st)], key), NEW open \in Opening,
           Len(st) < MaxJsonDepth,
           NEW v, v = Len(w) + 1 + Len(sep) + Len(NameOf(key))
    PROVE  Reading(w \o Item(sep, key, <<open>>), Append(st, open), Deeper(s, Len(st), v), <<>>)
<1> DEFINE k == Len(st)
           c == st[k]
           body == <<open>>
           x == Item(sep, key, body)
           y == w \o x
           st1 == Append(st, open)
           s1 == Deeper(s, k, v)
<1>1. k \in Nat /\ k > 0 /\ c \in Opening
  <2>1. k \in Nat /\ k > 0 BY DEF Reading
  <2>. QED BY <2>1, ElementOfSeq
<1>2. body \in Texts /\ Len(body) = 1 /\ body[1] = open
  BY SignsAreCharacters, OneCharacter
<1>3. open # "]" BY DEF Opening
<1>4. k < MaxJsonDepth OBVIOUS
<1> HIDE DEF body
<1>5. Len(body) > 0 /\ body[1] # "]" BY <1>2, <1>3
<1>6. /\ x \in Texts /\ Len(x) = Len(sep) + Len(NameOf(key)) + Len(body) /\ Len(x) > 0
      /\ Len(sep) \in Nat /\ Len(NameOf(key)) \in Nat
  BY <1>1, <1>2, <1>5, ItemIs
<1>7. ASSUME NEW t, Grows(t, w, x)
      PROVE  /\ t \in Texts /\ v \in Nat \ {0} /\ Len(w) < v
             /\ Follows(t, w, sep) /\ TextShows(t, v, body)
             /\ Nested(t, st, s)
             /\ SkipValue(t, s[k], k - 1) = Upon(t, c, k - 1, SkipValue(t, v, k))
  BY <1>2, <1>5, <1>7, ItemIsRead
<1> HIDE DEF x
<1>8. y \in Texts /\ Len(y) = Len(w) + Len(x) BY <1>6, TextsJoined
<1>9. Len(w) \in Nat /\ Len(y) \in Nat BY <1>8, TextIs
<1>10. v = Len(y) /\ v \in Nat \ {0} /\ Len(w) < v /\ v + 1 = Len(y) + 1
  BY ONLY <1>2, <1>6, <1>8, <1>9, v = Len(w) + 1 + Len(sep) + Len(NameOf(key))
<1>11. /\ st1 \in Seq(Opening) /\ Len(st1) = k + 1
       /\ \A i \in 1..k : st1[i] = st[i]
       /\ st1[k + 1] = open
  BY OneMoreOpen
<1>12. s1[k + 1] = v /\ \A i \in 1..k : s1[i] = s[i]
  <2>1. k + 1 \in 1..k + 1 /\ \A i \in 1..k : i \in 1..k + 1 /\ i # k + 1 BY <1>1
  <2>. QED BY <2>1 DEF Deeper
<1>13. /\ s[1] = 1 /\ \A i \in 1..k : s[i] \in 1..Len(w)
       /\ \A i \in 1..k - 1 : s[i] < s[i + 1]
       /\ \A m \in 0..Len(w) : SkipValue(SubSeq(w, 1, m), 1, 0) = 0
  BY DEF Reading
<1> HIDE DEF y, k, c, st1, s1
<1>14. (k + 1) - 1 = k /\ k + 1 \in Nat /\ k + 1 > 0 /\ 1 \in 1..k BY <1>1
<1>15. s1[1] = 1 BY <1>12, <1>13, <1>14
\* Whatever shows what is written.
<1>16. ASSUME NEW t, Grows(t, w, x)
       PROVE  t \in Texts /\ Nested(t, st1, s1)
  <2>1. /\ t \in Texts /\ Nested(t, st, s)
        /\ SkipValue(t, s[k], k - 1) = Upon(t, c, k - 1, SkipValue(t, v, k))
    BY <1>7, <1>16
  <2>2. ASSUME NEW i \in 1..k
        PROVE  SkipValue(t, s1[i], i - 1)
                 = Upon(t, st1[i], i - 1, SkipValue(t, s1[i + 1], i))
    <3>1. CASE i = k BY <1>11, <1>12, <1>14, <2>1, <3>1 DEF c, k
    <3>2. CASE i # k
      <4>1. i \in 1..k - 1 /\ i + 1 \in 1..k BY <1>1, <3>2
      <4>2. SkipValue(t, s[i], i - 1) = Upon(t, st[i], i - 1, SkipValue(t, s[i + 1], i))
        BY <2>1, <4>1 DEF Nested, k
      <4>. QED BY <1>11, <1>12, <4>1, <4>2
    <3>. QED BY <3>1, <3>2
  <2>3. Len(st1) - 1 = k BY <1>11, <1>14
  <2>. QED BY <2>1, <2>2, <2>3, Zenon DEF Nested
\* Whole.
<1>17. ASSUME NEW t, Follows(t, y, <<>>)
       PROVE  /\ t \in Texts /\ Nested(t, st1, s1)
              /\ SkipValue(t, s1[k + 1], k) = Ahead(t, open, k, Len(y) + 1, <<>>)
  <2>1. Begins(t, y) BY <1>17 DEF Follows
  <2>2. Grows(t, w, x) BY <1>6, <2>1, BeginsGrows DEF y
  <2>3. t \in Texts /\ Nested(t, st1, s1) BY <1>16, <2>2
  <2>4. TextShows(t, v, body) BY <1>7, <2>2
  <2>5. v <= Len(t) BY <1>10, <2>1 DEF Begins
  <2>6. At(t, v) = open BY <1>2, <1>5, <1>10, <2>3, <2>4, <2>5, ShownText
  <2>7. SkipValue(t, v, k) = Ahead(t, open, k, v + 1, <<>>)
    BY <1>1, <1>4, <1>10, <2>3, <2>6, OpenIsAhead DEF k
  <2>. QED BY <1>10, <1>12, <2>3, <2>7
\* Cut.
<1>18. ASSUME NEW t, Grows(t, w, x), Len(t) > Len(w), Len(t) < Len(y)
       PROVE  SkipValue(t, 1, 0) = 0
  <2>1. t \in Texts /\ Nested(t, st1, s1) BY <1>16, <1>18
  <2>2. v > Len(t)
    <3>1. Len(t) \in Nat BY <2>1, TextIs
    <3>. QED BY <1>9, <1>10, <1>18, <3>1
  <2>3. SkipValue(t, s1[k + 1], (k + 1) - 1) = 0
    BY <1>1, <1>10, <1>12, <1>14, <2>1, <2>2, NothingAtTheEnd
  <2>. QED BY <1>11, <1>14, <1>15, <2>1, <2>3, NotReadInside
<1>19. SkipValue(y, 1, 0) = 0
  <2>1. Follows(y, y, <<>>) BY <1>8, WholeText
  <2>2. Nested(y, st1, s1) /\ SkipValue(y, s1[k + 1], k) = Ahead(y, open, k, Len(y) + 1, <<>>)
    BY <1>17, <2>1
  <2>3. Len(y) + 1 \in Nat \ {0} /\ Len(y) + 1 > Len(y) BY <1>9
  <2>4. SkipValue(y, s1[k + 1], (k + 1) - 1) = 0
    BY <1>1, <1>8, <1>14, <2>2, <2>3, AheadOfNothing
  <2>. QED BY <1>11, <1>14, <1>15, <2>2, <2>4, NotReadInside
<1>20. \A m \in 0..Len(y) : SkipValue(SubSeq(y, 1, m), 1, 0) = 0
  BY <1>6, <1>13, <1>18, <1>19, PrefixesUnread DEF y
<1>21. \A i \in 1..k + 1 : s1[i] \in 1..Len(y)
  <2>1. \A z \in 1..Len(w) : z \in 1..Len(y) BY <1>9, <1>10
  <2>2. v \in 1..Len(y) BY <1>9, <1>10
  <2>3. \A i \in 1..k + 1 : i = k + 1 \/ i \in 1..k BY <1>1
  <2>. QED BY <1>12, <1>13, <2>1, <2>2, <2>3
<1>22. ASSUME NEW i \in 1..k PROVE s1[i] < s1[i + 1]
  <2>1. CASE i = k
    <3>1. s[k] \in 1..Len(w) BY <1>1, <1>13
    <3>. QED BY <1>9, <1>10, <1>12, <2>1, <3>1
  <2>2. CASE i # k
    <3>1. i \in 1..k - 1 /\ i + 1 \in 1..k BY <1>1, <2>2
    <3>. QED BY <1>12, <1>13, <3>1
  <2>. QED BY <2>1, <2>2
<1>23. Reading(y, st1, s1, <<>>)
  <2>1. Len(st1) > 0 BY <1>11, <1>14
  <2>2. \A t : Follows(t, y, <<>>) =>
          /\ Nested(t, st1, s1)
          /\ SkipValue(t, s1[Len(st1)], Len(st1) - 1)
               = Ahead(t, st1[Len(st1)], Len(st1) - 1, Len(y) + 1, <<>>)
    BY <1>11, <1>14, <1>17, Zenon
  <2>3. \A i \in 1..Len(st1) - 1 : s1[i] < s1[i + 1] BY <1>11, <1>14, <1>22
  <2>4. \A i \in 1..Len(st1) : s1[i] \in 1..Len(y) BY <1>11, <1>21
  <2>. QED BY <1>15, <1>20, <2>1, <2>2, <2>3, <2>4, Zenon DEF Reading
<1>. QED BY <1>23 DEF y, x, body, st1, s1, k

\* The root is opened.
LEMMA RootOpened ==
    ASSUME NEW open \in Opening
    PROVE  Reading(<<open>>, <<open>>, [i \in {1} |-> 1], <<>>)
<1> DEFINE y == <<open>>
           st == <<open>>
           s == [i \in {1} |-> 1]
<1>1. y \in Texts /\ Len(y) = 1 /\ y[1] = open BY SignsAreCharacters, OneCharacter
<1>2. Len(st) = 1 /\ st[1] = open OBVIOUS
<1>3. s[1] = 1 OBVIOUS
<1> HIDE DEF y, st, s
<1>4. \A t : Nested(t, st, s)
  <2>1. \A i \in 1..Len(st) - 1 : FALSE BY <1>2
  <2>. QED BY <2>1, Zenon DEF Nested
<1>5. 0 < MaxJsonDepth /\ 0 \in Nat /\ 1 \in Nat \ {0}
  <2>1. MaxJsonDepth \in Nat \ {0} BY JsonAssumption
  <2>. QED BY ONLY <2>1
<1>6. ASSUME NEW t, Follows(t, y, <<>>)
      PROVE  SkipValue(t, 1, 0) = Ahead(t, open, 0, 2, <<>>)
  <2>1. t \in Texts /\ 1 <= Len(t) /\ t[1] = open
    <3>1. 1 \in 1..Len(y) BY <1>1
    <3>. QED BY <1>1, <1>6, <3>1 DEF Follows, Begins
  <2>2. Len(t) \in Nat BY <2>1, TextIs
  <2>3. At(t, 1) = open BY <2>1, <2>2 DEF At
  <2>4. 1 + 1 = 2 OBVIOUS
  <2>. QED BY <1>5, <2>1, <2>3, <2>4, OpenIsAhead
<1>7. ASSUME NEW m \in 0..Len(y) PROVE SkipValue(SubSeq(y, 1, m), 1, 0) = 0
  <2>1. CASE m = 0
    <3>1. 1 \in Nat \ {0} /\ 0 \in Int /\ 0 <= Len(y) /\ 1 <= 0 + 1 BY <1>1
    <3>2. SubSeq(y, 1, 0) \in Texts /\ Len(SubSeq(y, 1, 0)) = 0 + 1 - 1
      BY <1>1, <3>1, PartOfText
    <3>3. 1 \in Nat /\ 1 > Len(SubSeq(y, 1, 0)) BY <3>2
    <3>. QED BY <1>5, <2>1, <3>2, <3>3, NothingAtTheEnd
  <2>2. CASE m = 1
    <3>1. SubSeq(y, 1, m) = y BY <1>1, <2>2, WholeText
    <3>2. SkipValue(y, 1, 0) = Ahead(y, open, 0, 2, <<>>) BY <1>1, <1>6, WholeText
    <3>3. 2 \in Nat \ {0} /\ 2 > Len(y) BY <1>1
    <3>. QED BY <1>1, <1>5, <3>1, <3>2, <3>3, AheadOfNothing
  <2>. QED BY <1>1, <2>1, <2>2
<1>8. Reading(y, st, s, <<>>)
  <2>1. Len(st) > 0 /\ 1 - 1 = 0 /\ 1 + 1 = 2 BY <1>2
  <2>2. \A i \in 1..Len(st) : s[i] \in 1..Len(y) BY <1>1, <1>2, <1>3
  <2>3. \A i \in 1..Len(st) - 1 : s[i] < s[i + 1] BY <1>2
  <2>4. \A t : Follows(t, y, <<>>) =>
          /\ Nested(t, st, s)
          /\ SkipValue(t, s[Len(st)], Len(st) - 1)
               = Ahead(t, st[Len(st)], Len(st) - 1, Len(y) + 1, <<>>)
    BY <1>1, <1>2, <1>3, <1>4, <1>6, <2>1, Zenon
  <2>. QED BY <1>3, <1>7, <2>1, <2>2, <2>3, <2>4, Zenon DEF Reading
<1>. QED BY <1>8 DEF y, st, s

LEMMA ClosingIs ==
    ASSUME NEW c \in Opening
    PROVE  <<Closing(c)>> \in Texts /\ Len(<<Closing(c)>>) = 1 /\ <<Closing(c)>>[1] = Closing(c)
<1>1. Closing(c) \in {"}", "]"} BY DEF Closing
<1>2. Closing(c) \in Characters BY <1>1, SignsAreCharacters
<1>. QED BY <1>2, OneCharacter

\* The innermost container is closed: whatever follows, it is read to the end of the text.
LEMMA InnermostClosed ==
    ASSUME NEW w \in Texts, NEW st \in Seq(Opening), NEW s, NEW sep, Reading(w, st, s, sep),
           NEW t, Begins(t, w \o <<Closing(st[Len(st)])>>)
    PROVE  /\ t \in Texts /\ Follows(t, w, sep) /\ Nested(t, st, s)
           /\ SkipValue(t, s[Len(st)], Len(st) - 1) = Len(w) + 2
<1> DEFINE k == Len(st)
           c == st[k]
           x == <<Closing(c)>>
<1>1. k \in Nat /\ k > 0 /\ c \in Opening
  <2>1. k \in Nat /\ k > 0 BY DEF Reading
  <2>. QED BY <2>1, ElementOfSeq
<1>2. x \in Texts /\ x[1] = Closing(c) BY <1>1, ClosingIs
<1>0. Len(x) = 1 BY <1>1, ClosingIs
<1>3. Begins(t, w \o x) OBVIOUS
<1> HIDE DEF x
<1>4. Grows(t, w, x) BY <1>2, <1>3, BeginsGrows
<1>5. Len(x) > 0 /\ x[1] # "1"
  <2>1. Len(x) > 0 BY ONLY <1>0
  <2>2. x[1] # "1" BY <1>1, <1>2, SignsAreNoDigits, Zenon
  <2>. QED BY <2>1, <2>2
<1>6. Follows(t, w, sep) BY <1>2, <1>4, <1>5, GrowsFollows
<1>7. Nested(t, st, s) /\ SkipValue(t, s[k], k - 1) = Ahead(t, c, k - 1, Len(w) + 1, sep)
  BY <1>6 DEF Reading
<1>8. t \in Texts /\ TextShows(t, Len(w) + 1, x) BY <1>4 DEF Grows, Begins
<1>9. Len(w) \in Nat BY TextIs
<1>10. Len(w) + 1 <= Len(t)
  <2>1. Len(w \o x) = Len(w) + 1
    <3>1. Len(w \o x) = Len(w) + Len(x) BY <1>2, TextsJoined, Zenon
    <3>. QED BY <1>0, <3>1, Zenon
  <2>. QED BY <1>3, <2>1 DEF Begins
<1>11. At(t, Len(w) + 1) = Closing(c) BY <1>2, <1>5, <1>8, <1>9, <1>10, ShownText
<1>12. Len(w) + 1 # 0 /\ (Len(w) + 1) + 1 = Len(w) + 2 BY <1>9
<1>13. Ahead(t, c, k - 1, Len(w) + 1, sep) = Len(w) + 2
  BY <1>11, <1>12, Zenon DEF Ahead, Upon
<1>. QED BY <1>6, <1>7, <1>8, <1>13

\* A container is closed in another.
LEMMA ContainerClosed ==
    ASSUME NEW w \in Texts, NEW st \in Seq(Opening), NEW s, NEW sep, Reading(w, st, s, sep),
           Len(st) > 1
    PROVE  Reading(w \o <<Closing(st[Len(st)])>>, SubSeq(st, 1, Len(st) - 1), s, <<",">>)
<1> DEFINE k == Len(st)
           c == st[k]
           x == <<Closing(c)>>
           y == w \o x
           st1 == SubSeq(st, 1, k - 1)
           j == k - 1
<1>1. k \in Nat /\ k > 1 /\ c \in Opening
  <2>1. k \in Nat /\ k > 1 OBVIOUS
  <2>. QED BY <2>1, ElementOfSeq
<1>2. x \in Texts /\ x[1] = Closing(c) BY <1>1, ClosingIs
<1>0. Len(x) = 1 BY <1>1, ClosingIs
<1>3. \A t : Begins(t, y) =>
         /\ t \in Texts /\ Follows(t, w, sep) /\ Nested(t, st, s)
         /\ SkipValue(t, s[k], k - 1) = Len(w) + 2
  BY InnermostClosed
<1> HIDE DEF x
<1>4. y \in Texts /\ Len(y) = Len(w) + 1
  <2>1. w \o x \in Texts /\ Len(w \o x) = Len(w) + Len(x) BY <1>2, TextsJoined, Zenon
  <2>. QED BY <1>0, <2>1, Zenon
<1>5. Len(w) \in Nat /\ Len(y) \in Nat /\ Len(y) + 1 = Len(w) + 2 BY <1>4, TextIs
<1>6. st1 \in Seq(Opening) /\ Len(st1) = k - 1 /\ \A i \in 1..k - 1 : st1[i] = st[i]
  <2>1. k > 0 BY <1>1
  <2>. QED BY <2>1, OneFewerOpen
<1>7. /\ s[1] = 1 /\ \A i \in 1..k : s[i] \in 1..Len(w)
      /\ \A i \in 1..k - 1 : s[i] < s[i + 1]
      /\ \A m \in 0..Len(w) : SkipValue(SubSeq(w, 1, m), 1, 0) = 0
  BY DEF Reading
<1>8. j \in Nat /\ j > 0 /\ j = k - 1 /\ j + 1 = k /\ j \in 1..k - 1 /\ j \in 1..k BY <1>1
<1>9. st1[j] \in Opening /\ j - 1 \in Nat BY <1>6, <1>8, ElementOfSeq
<1> HIDE DEF y, k, c, st1, j
<1>10. ASSUME NEW t, Follows(t, y, <<",">>)
       PROVE  /\ t \in Texts /\ Nested(t, st1, s)
              /\ SkipValue(t, s[j], j - 1) = Ahead(t, st1[j], j - 1, Len(y) + 1, <<",">>)
  <2>1. Begins(t, y) BY <1>10 DEF Follows
  <2>2. t \in Texts /\ Nested(t, st, s) /\ SkipValue(t, s[k], k - 1) = Len(y) + 1
    BY <1>3, <1>5, <2>1
  <2>3. \A i \in 1..k - 1 : SkipValue(t, s[i], i - 1) = Upon(t, st1[i], i - 1, SkipValue(t, s[i + 1], i))
    BY <1>6, <2>2 DEF Nested, k
  <2>4. Nested(t, st1, s)
    <3>1. \A i \in 1..Len(st1) - 1 : i \in 1..k - 1 BY <1>1, <1>6
    <3>. QED BY <2>3, <3>1, Zenon DEF Nested
  <2>5. SkipValue(t, s[j], j - 1) = Upon(t, st1[j], j - 1, SkipValue(t, s[j + 1], j))
    BY <1>8, <2>3
  <2>6. SkipValue(t, s[j], j - 1) = Upon(t, st1[j], j - 1, Len(y) + 1)
    BY <1>8, <2>2, <2>5, Zenon
  <2>7. <<",">> # <<>> OBVIOUS
  <2>. QED BY <2>2, <2>4, <2>6, <2>7, Zenon DEF Ahead
<1>11. SkipValue(y, 1, 0) = 0
  <2>1. Follows(y, y, <<",">>) BY <1>4, WholeText
  <2>2. Nested(y, st1, s) /\ SkipValue(y, s[j], j - 1) = Ahead(y, st1[j], j - 1, Len(y) + 1, <<",">>)
    BY <1>10, <2>1
  <2>3. Len(y) + 1 \in Nat \ {0} /\ Len(y) + 1 > Len(y) BY <1>5
  <2>4. SkipValue(y, s[j], j - 1) = 0
    BY <1>4, <1>9, <2>2, <2>3, AheadOfNothing
  <2>5. j = Len(st1) BY <1>6, <1>8
  <2>. QED BY <1>7, <1>8, <2>2, <2>4, <2>5, NotReadInside
<1>12. \A m \in 0..Len(y) : SkipValue(SubSeq(y, 1, m), 1, 0) = 0
  <2>1. \A t : ~(Len(t) > Len(w) /\ Len(t) < Len(y) /\ t \in Texts)
    <3>1. \A t \in Texts : Len(t) \in Nat BY TextIs
    <3>. QED BY <1>4, <1>5, <3>1
  <2>2. \A t : /\ Grows(t, w, x) /\ Len(t) > Len(w) /\ Len(t) < Len(y)
               => SkipValue(t, 1, 0) = 0
    BY <2>1 DEF Grows, Begins
  <2>. QED BY <1>2, <1>7, <1>11, <2>2, PrefixesUnread DEF y
<1>13. Reading(y, st1, s, <<",">>)
  <2>1. Len(st1) > 0 /\ Len(st1) = j BY <1>6, <1>8
  <2>2. \A i \in 1..Len(st1) : s[i] \in 1..Len(y)
    <3>1. \A i \in 1..Len(st1) : i \in 1..k BY <1>1, <1>6
    <3>2. \A z \in 1..Len(w) : z \in 1..Len(y) BY <1>4, <1>5
    <3>. QED BY <1>7, <3>1, <3>2
  <2>3. \A i \in 1..Len(st1) - 1 : s[i] < s[i + 1]
    <3>1. \A i \in 1..Len(st1) - 1 : i \in 1..k - 1 BY <1>1, <1>6
    <3>. QED BY <1>7, <3>1
  <2>4. \A t : Follows(t, y, <<",">>) =>
          /\ Nested(t, st1, s)
          /\ SkipValue(t, s[Len(st1)], Len(st1) - 1)
               = Ahead(t, st1[Len(st1)], Len(st1) - 1, Len(y) + 1, <<",">>)
    BY <1>10, <2>1, Zenon
  <2>. QED BY <1>7, <1>12, <2>1, <2>2, <2>3, <2>4, Zenon DEF Reading
<1>. QED BY <1>13 DEF y, x, c, st1, k

\* y is a document that goes on where w ends.
IsDocument(y, w) ==
    /\ y \in Texts /\ Len(y) = Len(w) + 1 /\ Begins(y, w)
    /\ Valid(y) /\ SkipValue(y, 1, 0) # 0
    /\ \A n \in 0..Len(y) - 1 : SkipValue(SubSeq(y, 1, n), 1, 0) = 0

\* The root is closed: a document, no beginning of which is one.
LEMMA RootClosed ==
    ASSUME NEW w \in Texts, NEW st \in Seq(Opening), NEW s, NEW sep, Reading(w, st, s, sep),
           Len(st) = 1, NEW y, y = w \o <<Closing(st[1])>>
    PROVE  IsDocument(y, w)
<1> DEFINE x == <<Closing(st[1])>>
<1>1. st[1] \in Opening
  <2>1. 1 \in 1..Len(st) OBVIOUS
  <2>. QED BY <2>1, ElementOfSeq
<1>2. x \in Texts /\ Len(x) = 1 BY <1>1, ClosingIs
<1>3. y \in Texts /\ Len(y) = Len(w) + 1 BY <1>2, TextsJoined
<1>4. Begins(y, y) BY <1>3, WholeText
<1>5. Begins(y, w) BY <1>2, <1>4, BeginsGrows DEF Grows
<1>6. SkipValue(y, s[1], 1 - 1) = Len(w) + 2
  <2>1. Begins(y, w \o <<Closing(st[Len(st)])>>) BY <1>4
  <2>. QED BY <2>1, InnermostClosed
<1>7. s[1] = 1 /\ \A m \in 0..Len(w) : SkipValue(SubSeq(w, 1, m), 1, 0) = 0 BY DEF Reading
<1>8. Len(w) \in Nat BY TextIs
<1>9. SkipValue(y, 1, 0) = Len(y) + 1 /\ Len(y) + 1 # 0
  <2>1. 1 - 1 = 0 /\ Len(w) + 2 = Len(y) + 1 /\ Len(y) + 1 # 0 BY <1>3, <1>8
  <2>. QED BY <1>6, <1>7, <2>1
<1>10. ASSUME NEW n \in 0..Len(y) - 1 PROVE SkipValue(SubSeq(y, 1, n), 1, 0) = 0
  <2>1. n \in 0..Len(w) BY <1>3, <1>8
  <2>2. SubSeq(y, 1, n) = SubSeq(w, 1, n) BY <1>2, <2>1, CutSame
  <2>. QED BY <1>7, <2>1, <2>2
<1>. QED BY <1>3, <1>5, <1>9, <1>10 DEF Valid, IsDocument
-----------------------------------------------------------------------------
(* The members of the root, as json_find meets them *)

\* What is found from p on, where a text ends before p.
NextMember(t, p, sep, key) ==
    IF sep = <<>> THEN FindFrom(t, p, key)
    ELSE IF At(t, p) # "," THEN NoValue ELSE FindFrom(t, p + 1, key)

\* What is found from the member with that name on, whose value is at v and ends at past.
ThisMember(t, name, v, past, key) ==
    IF past = 0 THEN NoValue
    ELSE IF name = key THEN Value(t, v, past)
    ELSE IF At(t, past) # "," THEN NoValue ELSE FindFrom(t, past + 1, key)

\* The key of the member m gives what m remembers, whatever follows.
ReadsAs(w, sep, m) ==
    \E v, e \in Nat \ {0} :
        /\ v < e /\ e <= Len(w) + 1 /\ SameAs(Value(w, v, e), m)
        /\ \A t : Follows(t, w, sep) => FindFrom(t, 2, m.key) = Value(t, v, e)

\* No other of the first n members has that key.
NotAmong(ms, n, key) == \A i \in 1..n : ms[i].key # key

\* The first n members are found under their keys, the first with each.
FoundSo(w, sep, ms, n) ==
    \A i \in 1..n : NotAmong(ms, i - 1, ms[i].key) => ReadsAs(w, sep, ms[i])

\* In a root that is an object, whose members are all complete, or all but the last.
Finding(w, st, s, sep, ms) ==
    IF Len(st) = 1 THEN
      /\ FoundSo(w, sep, ms, Len(ms))
      /\ \A key \in Texts : \A t :
            NotAmong(ms, Len(ms), key) /\ Follows(t, w, sep) =>
                FindFrom(t, 2, key) = NextMember(t, Len(w) + 1, sep, key)
    ELSE
      /\ FoundSo(w, sep, ms, Len(ms) - 1)
      /\ \A key \in Texts : \A t :
            NotAmong(ms, Len(ms) - 1, key) /\ Follows(t, w, sep) =>
                FindFrom(t, 2, key)
                  = ThisMember(t, ms[Len(ms)].key, s[2], SkipValue(t, s[2], 1), key)

\* A value stays what it is.
LEMMA ValueStays ==
    ASSUME NEW w \in Texts, NEW t, Begins(t, w), NEW v \in Nat \ {0}, NEW e \in Nat,
           v < e, e <= Len(w) + 1
    PROVE  Value(t, v, e) = Value(w, v, e)
<1> DEFINE x == SubSeq(t, v, e - 1)
           y == SubSeq(w, v, e - 1)
<1>1. t \in Texts /\ Len(w) <= Len(t) /\ \A j \in 1..Len(w) : t[j] = w[j] BY DEF Begins
<1>2. Len(w) \in Nat /\ Len(t) \in Nat BY <1>1, TextIs
<1>3. e - 1 \in Int /\ e - 1 <= Len(w) /\ e - 1 <= Len(t) /\ v <= (e - 1) + 1 BY <1>1, <1>2
<1>4. /\ x \in Texts /\ Len(x) = (e - 1) + 1 - v
      /\ \A i \in 1..(e - 1) + 1 - v : x[i] = t[v + i - 1]
  BY <1>1, <1>3, PartOfText
<1>5. /\ y \in Texts /\ Len(y) = (e - 1) + 1 - v
      /\ \A i \in 1..(e - 1) + 1 - v : y[i] = w[v + i - 1]
  BY <1>3, PartOfText
<1> HIDE DEF x, y
<1>6. \A i \in 1..(e - 1) + 1 - v : v + i - 1 \in 1..Len(w) BY <1>2, <1>3
<1>7. \A i \in 1..Len(x) : x[i] = y[i] BY <1>1, <1>4, <1>5, <1>6
<1>8. x = y BY <1>4, <1>5, <1>7, SameText
<1>9. v \in 1..Len(w) BY <1>2
<1>10. t[v] = w[v] BY <1>1, <1>9
<1>. QED BY <1>8, <1>10, Zenon DEF Value, x, y

\* More text, and the same members are found.
Continues(w1, sep1, w, sep) ==
    /\ w1 \in Texts /\ Begins(w1, w) /\ \A t : Follows(t, w1, sep1) => Follows(t, w, sep)

LEMMA ReadsOn ==
    ASSUME NEW w \in Texts, NEW sep, NEW w1, NEW sep1, Continues(w1, sep1, w, sep),
           NEW m, ReadsAs(w, sep, m)
    PROVE  ReadsAs(w1, sep1, m)
<1>1. PICK v \in Nat \ {0}, e \in Nat \ {0} :
        /\ v < e /\ e <= Len(w) + 1 /\ SameAs(Value(w, v, e), m)
        /\ \A t : Follows(t, w, sep) => FindFrom(t, 2, m.key) = Value(t, v, e)
  BY DEF ReadsAs
<1>2. w1 \in Texts /\ Begins(w1, w) BY DEF Continues
<1>3. Value(w1, v, e) = Value(w, v, e) BY <1>1, <1>2, ValueStays
<1>4. e <= Len(w1) + 1
  <2>1. Len(w) <= Len(w1) BY <1>2 DEF Begins
  <2>2. Len(w) \in Nat /\ Len(w1) \in Nat BY <1>2, TextIs
  <2>3. e <= Len(w) + 1 BY <1>1
  <2>. QED BY ONLY e \in Nat \ {0}, <2>1, <2>2, <2>3
<1>5. SameAs(Value(w1, v, e), m) BY <1>1, <1>3
<1>6. \A t : Follows(t, w1, sep1) => FindFrom(t, 2, m.key) = Value(t, v, e)
  BY <1>1 DEF Continues
<1>7. v < e BY <1>1
<1>. QED BY <1>4, <1>5, <1>6, <1>7, Zenon DEF ReadsAs

LEMMA FoundOn ==
    ASSUME NEW w \in Texts, NEW sep, NEW w1, NEW sep1, Continues(w1, sep1, w, sep),
           NEW ms, NEW n \in Nat, FoundSo(w, sep, ms, n),
           NEW ms1, \A i \in 1..n : ms1[i] = ms[i]
    PROVE  FoundSo(w1, sep1, ms1, n)
<1> SUFFICES ASSUME NEW i \in 1..n, NotAmong(ms1, i - 1, ms1[i].key)
             PROVE  ReadsAs(w1, sep1, ms1[i])
  BY DEF FoundSo
<1>1. \A j \in 1..i - 1 : ms1[j] = ms[j]
  <2>1. \A j \in 1..i - 1 : j \in 1..n OBVIOUS
  <2>. QED BY <2>1
<1>2. NotAmong(ms, i - 1, ms[i].key) BY <1>1 DEF NotAmong
<1>3. ReadsAs(w, sep, ms[i]) BY <1>2 DEF FoundSo
<1>4. ReadsAs(w1, sep1, ms[i]) BY <1>3, ReadsOn
<1>. QED BY <1>4

\* One more is found.
LEMMA FoundOneMore ==
    ASSUME NEW w, NEW sep, NEW ms, NEW n \in Nat, FoundSo(w, sep, ms, n),
           NotAmong(ms, n, ms[n + 1].key) => ReadsAs(w, sep, ms[n + 1])
    PROVE  FoundSo(w, sep, ms, n + 1)
<1> SUFFICES ASSUME NEW i \in 1..n + 1, NotAmong(ms, i - 1, ms[i].key)
             PROVE  ReadsAs(w, sep, ms[i])
  BY DEF FoundSo
<1>1. CASE i \in 1..n BY <1>1 DEF FoundSo
<1>2. CASE i = n + 1
  <2>1. i - 1 = n BY <1>2
  <2>. QED BY <1>2, <2>1
<1>. QED BY <1>1, <1>2

\* w1 is w with one item more, in a container of c; its value is at v.
Added(w1, w, sep, c, key, body, v) ==
    /\ w \in Texts /\ sep \in Separators /\ c \in Opening /\ KeyFor(c, key)
    /\ body \in Texts /\ Len(body) > 0 /\ w1 = w \o Item(sep, key, body)
    /\ v = Len(w) + 1 + Len(sep) + Len(NameOf(key))

\* In an object.
MemberAdded(w1, w, sep, name, body, v) == Added(w1, w, sep, "{", name, body, v)

\* The search for key gets to what follows w.
Reaches(t, w, sep, key, v) ==
    key \in Texts /\ v <= Len(t) + 1 /\ FindFrom(t, 2, key) = NextMember(t, Len(w) + 1, sep, key)

\* The next member is read from its key on.
LEMMA MemberBegins ==
    ASSUME NEW w1, NEW w, NEW sep, NEW name, NEW body, NEW v,
           MemberAdded(w1, w, sep, name, body, v),
           NEW t, Grows(t, w, Item(sep, name, body)),
           NEW key, Reaches(t, w, sep, key, v)
    PROVE  FindFrom(t, 2, key) = ThisMember(t, name, v, SkipValue(t, v, 1), key)
<1>a. /\ w \in Texts /\ sep \in Separators /\ KeyFor("{", name)
      /\ body \in Texts /\ Len(body) > 0
  BY DEF MemberAdded, Added
<1>b. v = Len(w) + 1 + Len(sep) + Len(NameOf(name)) BY DEF MemberAdded, Added
<1>c. v <= Len(t) + 1 BY DEF Reaches
<1>d. key \in Texts /\ FindFrom(t, 2, key) = NextMember(t, Len(w) + 1, sep, key)
  BY DEF Reaches
<1> DEFINE p == Len(w) + 1
           q == p + Len(sep)
           y == SkipValue(t, v, 1)
<1>0. "{" \in Opening BY DEF Opening
<1>1. /\ sep \in Texts /\ NameOf(name) \in Texts
      /\ sep # <<>> => Len(sep) = 1 /\ Len(sep) > 0 /\ sep[1] = ","
      /\ sep = <<>> => Len(sep) = 0
      /\ NameOf(name) = Quoted(name) \o <<":">>
      /\ Len(NameOf(name)) = Len(Quoted(name)) + 1
  BY <1>a, <1>0, LeadIs
<1>2. name \in Texts BY <1>a DEF KeyFor
<1>3. Len(Quoted(name)) \in Nat BY <1>2, QuotedIs, TextIs
<1>4. t \in Texts /\ TextShows(t, p, Item(sep, name, body)) BY DEF Grows, Begins
<1>5. Len(w) \in Nat /\ Len(t) \in Nat /\ Len(sep) \in Nat BY <1>a, <1>1, <1>4, TextIs
<1>6. p \in Nat \ {0} /\ q \in Nat \ {0} BY ONLY <1>5
<1>7. v = q + Len(Quoted(name)) + 1
  <2>1. Len(NameOf(name)) = Len(Quoted(name)) + 1 BY <1>1
  <2>. QED BY ONLY <1>b, <1>3, <1>5, <2>1
<1>8. TextShows(t, p, sep) /\ TextShows(t, q, NameOf(name))
  <2>1. p \in Nat BY <1>6
  <2>. QED BY <1>a, <1>0, <1>4, <2>1, ItemShown
<1>9. /\ SkipString(t, q) = v - 1 /\ At(t, v - 1) = ":"
      /\ Unescaped(SubSeq(t, q + 1, (v - 1) - 2)) = name
  <2>1. TextShows(t, q, Quoted(name) \o <<":">>) BY <1>1, <1>8
  <2> HIDE DEF q
  <2>2. q + Len(Quoted(name)) + 1 <= Len(t) + 1 BY <1>c, <1>7
  <2>. QED BY <1>2, <1>4, <1>6, <1>7, <2>1, <2>2, NameIsRead
<1>10. v - 1 # 0 /\ (v - 1) + 1 = v
  <2> HIDE DEF q
  <2>. QED BY ONLY <1>3, <1>6, <1>7
<1>11. FindFrom(t, q, key) = ThisMember(t, name, v, y, key)
  <2> HIDE DEF q
  <2>1. q \in Nat BY <1>6
  <2>2. FindFrom(t, q, key) =
             IF SkipString(t, q) = 0 \/ At(t, SkipString(t, q)) # ":"
                  \/ SkipValue(t, SkipString(t, q) + 1, 1) = 0 THEN NoValue
             ELSE IF Unescaped(SubSeq(t, q + 1, SkipString(t, q) - 2)) = key
               THEN Value(t, SkipString(t, q) + 1, SkipValue(t, SkipString(t, q) + 1, 1))
             ELSE IF At(t, SkipValue(t, SkipString(t, q) + 1, 1)) # "," THEN NoValue
             ELSE FindFrom(t, SkipValue(t, SkipString(t, q) + 1, 1) + 1, key)
    BY <1>4, <1>d, <2>1, FindFromIs
  <2>. QED BY <1>9, <1>10, <2>2, Zenon DEF ThisMember
<1>12. NextMember(t, p, sep, key) = FindFrom(t, q, key)
  <2>1. CASE sep = <<>>
    <3>1. Len(sep) = 0 BY <1>1, <2>1, Zenon
    <3>2. q = p BY ONLY <1>6, <3>1
    <3>. QED BY <2>1, <3>2, Zenon DEF NextMember
  <2>2. CASE sep # <<>>
    <3>1. Len(sep) = 1 BY <1>1, <2>2, Zenon
    <3>2. q = p + 1 BY ONLY <3>1
    <3>3. Len(sep) > 0 /\ sep[1] = "," BY <1>1, <2>2, Zenon
    <3>4. p <= Len(t)
      <4> HIDE DEF p, q
      <4>. QED BY ONLY <1>3, <1>5, <1>6, <1>7, <1>c, <3>2
    <3>5. At(t, p) = "," BY <1>a, <1>1, <1>4, <1>6, <1>8, <3>3, <3>4, ShownText
    <3>. QED BY <2>2, <3>2, <3>5, Zenon DEF NextMember
  <2>. QED BY <2>1, <2>2
<1>. QED BY <1>d, <1>11, <1>12, Zenon DEF p
-----------------------------------------------------------------------------
(* The members of the root, as they are written *)

\* What an item adds lies behind what was there.
LEMMA ItemContinues ==
    ASSUME NEW w1, NEW w, NEW sep, NEW c, NEW key, NEW body, NEW v,
           Added(w1, w, sep, c, key, body, v)
    PROVE  /\ w \in Texts /\ w1 \in Texts
           /\ \A t : Begins(t, w1) => Grows(t, w, Item(sep, key, body)) /\ Follows(t, w, sep)
           /\ \A sep1 : Continues(w1, sep1, w, sep)
           /\ Len(w1) = Len(w) + Len(sep) + Len(NameOf(key)) + Len(body)
<1> DEFINE x == Item(sep, key, body)
<1> USE DEF Added
<1>1. /\ x \in Texts /\ Len(x) = Len(sep) + Len(NameOf(key)) + Len(body) /\ Len(x) > 0
      /\ sep # <<>> => x[1] # "1"
      /\ Len(sep) \in Nat /\ Len(NameOf(key)) \in Nat /\ Len(body) \in Nat
  BY ItemIs
<1> HIDE DEF x
<1>2. w1 \in Texts /\ Len(w1) = Len(w) + Len(x) BY <1>1, TextsJoined DEF x
<1>3. ASSUME NEW t, Begins(t, w1) PROVE Grows(t, w, x) /\ Follows(t, w, sep)
  <2>1. Grows(t, w, x) BY <1>1, <1>3, BeginsGrows DEF x
  <2>2. Follows(t, w, sep) BY <1>1, <2>1, GrowsFollows
  <2>. QED BY <2>1, <2>2
<1>4. Begins(w1, w1) BY <1>2, WholeText
<1>5. Begins(w1, w) BY <1>3, <1>4 DEF Follows
<1>6. \A sep1 : Continues(w1, sep1, w, sep) BY <1>2, <1>3, <1>5 DEF Continues, Follows
<1>7. Len(w) \in Nat BY TextIs
<1>8. Len(w1) = Len(w) + Len(sep) + Len(NameOf(key)) + Len(body) BY <1>1, <1>2, <1>7
<1>. QED BY <1>2, <1>3, <1>6, <1>8 DEF x

\* A text ends with a value, at v.
Lies(w1, v, body) ==
    /\ v \in Nat \ {0} /\ v <= Len(w1) /\ Len(w1) + 1 = v + Len(body)
    /\ \A t : Begins(t, w1) => TextShows(t, v, body) /\ At(t, v) = body[1]
    /\ Value(w1, v, Len(w1) + 1) = [type |-> TypeOf(body[1]), text |-> body]

\* The value of an item that was written.
LEMMA ValueIsBody ==
    ASSUME NEW w1, NEW w, NEW sep, NEW c, NEW key, NEW body, NEW v,
           Added(w1, w, sep, c, key, body, v)
    PROVE  Lies(w1, v, body)
<1>0. /\ w \in Texts /\ sep \in Separators /\ c \in Opening /\ KeyFor(c, key)
      /\ body \in Texts /\ Len(body) > 0 /\ w1 = w \o Item(sep, key, body)
      /\ v = Len(w) + 1 + Len(sep) + Len(NameOf(key))
  BY DEF Added
<1>1. /\ Len(sep) \in Nat /\ Len(NameOf(key)) \in Nat /\ Len(body) \in Nat
  BY <1>0, ItemIs
<1>2. /\ w1 \in Texts
      /\ Len(w1) = Len(w) + Len(sep) + Len(NameOf(key)) + Len(body)
      /\ \A t : Begins(t, w1) => Grows(t, w, Item(sep, key, body))
  BY ItemContinues
<1>3. Len(w) \in Nat BY <1>0, TextIs
<1>4. v \in Nat \ {0} /\ v <= Len(w1) /\ Len(w1) + 1 = v + Len(body)
  BY ONLY <1>0, <1>1, <1>2, <1>3
<1>5. ASSUME NEW t, Begins(t, w1) PROVE TextShows(t, v, body) /\ At(t, v) = body[1]
  <2>1. t \in Texts /\ Len(w1) <= Len(t) BY <1>5 DEF Begins
  <2>2. TextShows(t, Len(w) + 1, Item(sep, key, body)) BY <1>2, <1>5 DEF Grows
  <2>3. Len(w) + 1 \in Nat BY <1>3
  <2>4. TextShows(t, Len(w) + 1 + Len(sep) + Len(NameOf(key)), body)
    BY <1>0, <2>1, <2>2, <2>3, ItemShown
  <2>5. TextShows(t, v, body) BY <1>0, <2>4, Zenon
  <2>6. Len(t) \in Nat BY <2>1, TextIs
  <2>7. v <= Len(t) BY <1>2, <1>3, <1>0, <1>1, <1>4, <2>1, <2>6
  <2>. QED BY <1>0, <1>4, <2>1, <2>5, <2>7, ShownText
<1>6. Begins(w1, w1) BY <1>2, WholeText
<1>7. TextShows(w1, v, body) /\ At(w1, v) = body[1] BY <1>5, <1>6
<1> DEFINE y == SubSeq(w1, v, Len(w1))
<1>8. Len(w1) \in Int /\ Len(w1) <= Len(w1) /\ v <= Len(w1) + 1 BY <1>2, <1>4, TextIs
<1>9. y \in Texts /\ Len(y) = Len(w1) + 1 - v /\ \A i \in 1..Len(w1) + 1 - v : y[i] = w1[v + i - 1]
  BY <1>2, <1>4, <1>8, PartOfText
<1> HIDE DEF y
<1>10. Len(y) = Len(body) BY ONLY <1>1, <1>4, <1>8, <1>9
<1>11. \A i \in 1..Len(body) : v + i - 1 <= Len(w1) BY ONLY <1>1, <1>4, <1>8
<1>12. \A i \in 1..Len(y) : y[i] = body[i] BY <1>1, <1>7, <1>9, <1>10, <1>11 DEF TextShows
<1>13. y = body BY <1>0, <1>9, <1>10, <1>12, SameText
<1>14. w1[v] = body[1] BY <1>2, <1>4, <1>7, <1>8 DEF At
<1>15. (Len(w1) + 1) - 1 = Len(w1) BY <1>8
<1>. QED BY <1>4, <1>5, <1>13, <1>14, <1>15, Zenon DEF Lies, Value, y

\* The last member is complete.
LEMMA MemberComplete ==
    ASSUME NEW w1 \in Texts, NEW ms1, NEW n \in Nat, Len(ms1) = n + 1,
           FoundSo(w1, <<",">>, ms1, n), ms1[n + 1].key \in Texts,
           NEW v \in Nat \ {0}, v <= Len(w1), SameAs(Value(w1, v, Len(w1) + 1), ms1[n + 1]),
           \A key \in Texts : \A t :
              NotAmong(ms1, n, key) /\ Follows(t, w1, <<",">>) =>
                FindFrom(t, 2, key) = ThisMember(t, ms1[n + 1].key, v, Len(w1) + 1, key),
           NEW st1, Len(st1) = 1, NEW s1
    PROVE  Finding(w1, st1, s1, <<",">>, ms1)
<1> DEFINE e == Len(w1) + 1
<1>1. Len(w1) \in Nat BY TextIs
<1>2. e \in Nat \ {0} /\ v < e /\ e <= Len(w1) + 1 /\ e # 0
  BY ONLY <1>1, v \in Nat \ {0}, v <= Len(w1)
<1> HIDE DEF e
<1>3. ASSUME NotAmong(ms1, n, ms1[n + 1].key)
      PROVE  ReadsAs(w1, <<",">>, ms1[n + 1])
  <2>1. ASSUME NEW t, Follows(t, w1, <<",">>)
        PROVE  FindFrom(t, 2, ms1[n + 1].key) = Value(t, v, e)
    <3>1. FindFrom(t, 2, ms1[n + 1].key)
            = ThisMember(t, ms1[n + 1].key, v, e, ms1[n + 1].key)
      BY <1>3, <2>1, Zenon DEF e
    <3>. QED BY <1>2, <3>1, Zenon DEF ThisMember
  <2>2. SameAs(Value(w1, v, e), ms1[n + 1]) BY DEF e
  <2>. QED BY <1>2, <2>1, <2>2, Zenon DEF ReadsAs
<1>4. FoundSo(w1, <<",">>, ms1, n + 1) BY <1>3, FoundOneMore
<1>5. ASSUME NEW key \in Texts, NEW t, NotAmong(ms1, n + 1, key), Follows(t, w1, <<",">>)
      PROVE  FindFrom(t, 2, key) = NextMember(t, e, <<",">>, key)
  <2>1. NotAmong(ms1, n, key)
    <3>1. \A i \in 1..n : i \in 1..n + 1 BY ONLY n \in Nat
    <3>. QED BY <1>5, <3>1 DEF NotAmong
  <2>2. ms1[n + 1].key # key
    <3>1. n + 1 \in 1..n + 1 BY ONLY n \in Nat
    <3>. QED BY <1>5, <3>1 DEF NotAmong
  <2>3. FindFrom(t, 2, key) = ThisMember(t, ms1[n + 1].key, v, e, key)
    BY <1>5, <2>1, Zenon DEF e
  <2>4. <<",">> # <<>> OBVIOUS
  <2>. QED BY <1>2, <2>2, <2>3, <2>4, Zenon DEF ThisMember, NextMember
<1>. QED BY <1>4, <1>5, Zenon DEF Finding, e

\* The search gets to what is added.
LEMMA FindsAdded ==
    ASSUME NEW w, NEW st, Len(st) = 1, NEW s, NEW sep, NEW ms, Finding(w, st, s, sep, ms),
           NEW w1, NEW name, NEW body, NEW v, MemberAdded(w1, w, sep, name, body, v),
           NEW key \in Texts, NotAmong(ms, Len(ms), key), NEW t, Begins(t, w1)
    PROVE  FindFrom(t, 2, key) = ThisMember(t, name, v, SkipValue(t, v, 1), key)
<1>1. Added(w1, w, sep, "{", name, body, v) BY DEF MemberAdded
<1>2. /\ w1 \in Texts /\ Grows(t, w, Item(sep, name, body)) /\ Follows(t, w, sep)
  BY <1>1, ItemContinues
<1>3. Lies(w1, v, body) BY <1>1, ValueIsBody
<1>4. FindFrom(t, 2, key) = NextMember(t, Len(w) + 1, sep, key) BY <1>2 DEF Finding
<1>5. t \in Texts /\ Len(w1) <= Len(t) BY DEF Begins
<1>6. Len(t) \in Nat /\ Len(w1) \in Nat BY <1>2, <1>5, TextIs
<1>7. v \in Nat /\ v <= Len(w1) BY <1>3 DEF Lies
<1>8. v <= Len(t) + 1 BY ONLY <1>5, <1>6, <1>7
<1>9. Reaches(t, w, sep, key, v) BY <1>4, <1>8, Zenon DEF Reaches
<1>. QED BY ONLY <1>2, <1>9, MemberAdded(w1, w, sep, name, body, v), MemberBegins

\* A value is written under a key of the root.
LEMMA MemberWritten ==
    ASSUME NEW w, NEW st, Len(st) = 1, NEW s, NEW sep,
           NEW ms, NEW n \in Nat, n = Len(ms), Finding(w, st, s, sep, ms),
           NEW w1, NEW name, NEW body, NEW v, MemberAdded(w1, w, sep, name, body, v),
           Readable(body),
           NEW ms1, Len(ms1) = n + 1, \A i \in 1..n : ms1[i] = ms[i], ms1[n + 1].key = name,
           SameAs([type |-> TypeOf(body[1]), text |-> body], ms1[n + 1])
    PROVE  Finding(w1, st, s, <<",">>, ms1)
<1>1. /\ Added(w1, w, sep, "{", name, body, v)
      /\ name \in Texts /\ body \in Texts
  BY DEF MemberAdded, Added, KeyFor
<1>2. w1 \in Texts /\ Continues(w1, <<",">>, w, sep) BY <1>1, ItemContinues
<1>3. Lies(w1, v, body) BY <1>1, ValueIsBody
<1>4. /\ v \in Nat \ {0} /\ v <= Len(w1) /\ Len(w1) + 1 = v + Len(body)
      /\ \A t : Begins(t, w1) => TextShows(t, v, body)
      /\ Value(w1, v, Len(w1) + 1) = [type |-> TypeOf(body[1]), text |-> body]
  BY <1>3 DEF Lies
<1>5. FoundSo(w, sep, ms, n) BY DEF Finding
<1>w. w \in Texts BY <1>1 DEF Added
<1>6. FoundSo(w1, <<",">>, ms1, n) BY <1>2, <1>5, <1>w, FoundOn
<1>7. SameAs(Value(w1, v, Len(w1) + 1), ms1[n + 1]) BY <1>4
<1>8. ASSUME NEW key \in Texts, NEW t, NotAmong(ms1, n, key), Follows(t, w1, <<",">>)
      PROVE  FindFrom(t, 2, key) = ThisMember(t, name, v, Len(w1) + 1, key)
  <2>1. NotAmong(ms, Len(ms), key) BY <1>8 DEF NotAmong
  <2>2. Begins(t, w1) /\ At(t, Len(w1) + 1) # "1" BY <1>8 DEF Follows
  <2>3. FindFrom(t, 2, key) = ThisMember(t, name, v, SkipValue(t, v, 1), key)
    BY <2>1, <2>2, FindsAdded
  <2>4. t \in Texts /\ Len(w1) <= Len(t) BY <2>2 DEF Begins
  <2>5. Len(t) \in Nat /\ Len(w1) \in Nat /\ Len(body) \in Nat BY <1>1, <1>2, <2>4, TextIs
  <2>6. SkipValue(t, v, 1) = Len(w1) + 1
    <3>1. ~(v + Len(body) > Len(t) + 1) BY ONLY <1>4, <2>4, <2>5
    <3>2. At(t, v + Len(body)) # "1" BY <1>4, <2>2
    <3>3. TextShows(t, v, body) BY <1>4, <2>2
    <3>4. 1 \in Nat OBVIOUS
    <3>. QED BY <1>4, <2>4, <3>1, <3>2, <3>3, <3>4 DEF Readable
  <2>. QED BY <2>3, <2>6
<1>9. ms1[n + 1].key = name /\ Len(ms1) = n + 1 /\ n \in Nat /\ Len(st) = 1 OBVIOUS
<1>. QED BY ONLY <1>1, <1>2, <1>4, <1>6, <1>7, <1>8, <1>9, MemberComplete

\* A container is opened under a key of the root.
LEMMA MemberOpens ==
    ASSUME NEW w, NEW st, Len(st) = 1, NEW s, NEW sep,
           NEW ms, NEW n \in Nat, n = Len(ms), Finding(w, st, s, sep, ms),
           NEW w1, NEW name, NEW body, NEW v, MemberAdded(w1, w, sep, name, body, v),
           NEW ms1, Len(ms1) = n + 1, \A i \in 1..n : ms1[i] = ms[i], ms1[n + 1].key = name,
           NEW st1, Len(st1) = 2, NEW s1, s1[2] = v
    PROVE  Finding(w1, st1, s1, <<>>, ms1)
<1>1. Added(w1, w, sep, "{", name, body, v) BY DEF MemberAdded
<1>2. w \in Texts /\ Continues(w1, <<>>, w, sep) BY <1>1, ItemContinues
<1>3. FoundSo(w, sep, ms, n) BY DEF Finding
<1>4. FoundSo(w1, <<>>, ms1, n) BY <1>2, <1>3, FoundOn
<1>5. ASSUME NEW key \in Texts, NEW t, NotAmong(ms1, n, key), Follows(t, w1, <<>>)
      PROVE  FindFrom(t, 2, key) = ThisMember(t, name, v, SkipValue(t, v, 1), key)
  <2>1. NotAmong(ms, Len(ms), key) BY <1>5 DEF NotAmong
  <2>2. Begins(t, w1) BY <1>5 DEF Follows
  <2>. QED BY <2>1, <2>2, FindsAdded
<1>6. Len(ms1) - 1 = n /\ ms1[Len(ms1)].key = name /\ Len(st1) # 1
  <2>1. Len(ms1) - 1 = n BY ONLY Len(ms1) = n + 1, n \in Nat
  <2>2. ms1[Len(ms1)].key = name BY Zenon
  <2>. QED BY <2>1, <2>2
<1>7. FoundSo(w1, <<>>, ms1, Len(ms1) - 1) BY <1>4, <1>6
<1>8. \A key \in Texts : \A t :
         NotAmong(ms1, Len(ms1) - 1, key) /\ Follows(t, w1, <<>>) =>
            FindFrom(t, 2, key)
              = ThisMember(t, ms1[Len(ms1)].key, s1[2], SkipValue(t, s1[2], 1), key)
  BY <1>5, <1>6
<1>. QED BY <1>6, <1>7, <1>8, Zenon DEF Finding

\* Something happens inside the last member of the root.
LEMMA MemberStays ==
    ASSUME NEW w \in Texts, NEW st, Len(st) # 1, NEW s, NEW sep,
           NEW ms, NEW n \in Nat, Len(ms) = n + 1, Finding(w, st, s, sep, ms),
           NEW w1, NEW sep1, Continues(w1, sep1, w, sep),
           NEW ms1, Len(ms1) = n + 1, \A i \in 1..n : ms1[i] = ms[i],
           ms1[n + 1].key = ms[n + 1].key,
           NEW st1, Len(st1) # 1, NEW s1, s1[2] = s[2]
    PROVE  Finding(w1, st1, s1, sep1, ms1)
<1>1. Len(ms) - 1 = n /\ Len(ms1) - 1 = n
      /\ ms[Len(ms)].key = ms[n + 1].key /\ ms1[Len(ms1)].key = ms[n + 1].key
  <2>1. Len(ms) - 1 = n /\ Len(ms1) - 1 = n
    BY ONLY Len(ms) = n + 1, Len(ms1) = n + 1, n \in Nat
  <2>2. ms1[Len(ms1)].key = ms[n + 1].key BY Zenon
  <2>. QED BY <2>1, <2>2
<1>2. FoundSo(w, sep, ms, n) BY <1>1 DEF Finding
<1>3. FoundSo(w1, sep1, ms1, n) BY <1>2, FoundOn
<1>4. ASSUME NEW key \in Texts, NEW t, NotAmong(ms1, n, key), Follows(t, w1, sep1)
      PROVE  FindFrom(t, 2, key) = ThisMember(t, ms[n + 1].key, s[2], SkipValue(t, s[2], 1), key)
  <2>1. NotAmong(ms, n, key) BY <1>4 DEF NotAmong
  <2>2. Follows(t, w, sep) BY <1>4 DEF Continues
  <2>. QED BY <1>1, <2>1, <2>2 DEF Finding
<1>5. FoundSo(w1, sep1, ms1, Len(ms1) - 1) BY <1>1, <1>3
<1>6. \A key \in Texts : \A t :
         NotAmong(ms1, Len(ms1) - 1, key) /\ Follows(t, w1, sep1) =>
            FindFrom(t, 2, key)
              = ThisMember(t, ms1[Len(ms1)].key, s1[2], SkipValue(t, s1[2], 1), key)
  BY <1>1, <1>4
<1>. QED BY <1>5, <1>6, Zenon DEF Finding

\* What the innermost container holds is closed behind it.
LEMMA ClosingContinues ==
    ASSUME NEW w \in Texts, NEW st \in Seq(Opening), NEW s, NEW sep, Reading(w, st, s, sep),
           NEW w1, w1 = w \o <<Closing(st[Len(st)])>>
    PROVE  /\ \A sep1 : Continues(w1, sep1, w, sep)
           /\ w1 \in Texts /\ Len(w1) = Len(w) + 1
<1>1. st[Len(st)] \in Opening
  <2>1. Len(st) > 0 BY DEF Reading
  <2>. QED BY <2>1
<1>2. <<Closing(st[Len(st)])>> \in Texts /\ Len(<<Closing(st[Len(st)])>>) = 1
  BY <1>1, ClosingIs
<1>3. w1 \in Texts /\ Len(w1) = Len(w) + 1
  <2> DEFINE x == <<Closing(st[Len(st)])>>
  <2>1. x \in Texts /\ Len(x) = 1 BY <1>2
  <2>2. w1 = w \o x OBVIOUS
  <2> HIDE DEF x
  <2>3. w1 \in Texts /\ Len(w1) = Len(w) + Len(x) BY ONLY w \in Texts, <2>1, <2>2, TextsJoined
  <2>. QED BY <2>1, <2>3
<1>4. \A t : Begins(t, w1) => Follows(t, w, sep) BY InnermostClosed
<1>5. Begins(w1, w1) BY <1>3, WholeText
<1>6. Begins(w1, w) BY <1>4, <1>5 DEF Follows
<1>7. \A sep1 : Continues(w1, sep1, w, sep)
  BY <1>3, <1>4, <1>6 DEF Continues, Follows
<1>. QED BY <1>3, <1>7

\* The container under a key of the root is closed.
LEMMA MemberCloses ==
    ASSUME NEW w \in Texts, NEW st \in Seq(Opening), NEW s, NEW sep, Reading(w, st, s, sep),
           Len(st) = 2, NEW ms, NEW n \in Nat, Len(ms) = n + 1, Finding(w, st, s, sep, ms),
           ms[n + 1].key \in Texts, NEW w1, w1 = w \o <<Closing(st[Len(st)])>>,
           NEW st1, Len(st1) = 1, NEW s1,
           SameAs(Value(w1, s[2], Len(w1) + 1), ms[n + 1])
    PROVE  Finding(w1, st1, s1, <<",">>, ms)
<1>0. w1 \in Texts /\ Len(w1) = Len(w) + 1 BY ClosingContinues
<1>1. Continues(w1, <<",">>, w, sep) /\ w1 \in Texts
  BY ClosingContinues
<1>n. Len(st) # 1 BY ONLY Len(st) = 2
<1>2. Len(ms) - 1 = n /\ ms[Len(ms)].key = ms[n + 1].key
  <2>1. Len(ms) - 1 = n BY ONLY Len(ms) = n + 1, n \in Nat
  <2>. QED BY <2>1
<1>3. FoundSo(w, sep, ms, n) BY <1>2 DEF Finding
<1>4. FoundSo(w1, <<",">>, ms, n) BY <1>1, <1>3, FoundOn
<1>5. ASSUME NEW key \in Texts, NEW t, NotAmong(ms, n, key), Follows(t, w1, <<",">>)
      PROVE  FindFrom(t, 2, key) = ThisMember(t, ms[n + 1].key, s[2], Len(w1) + 1, key)
  <2>1. Begins(t, w1) /\ Follows(t, w, sep) BY <1>1, <1>5 DEF Continues, Follows
  <2>2. FindFrom(t, 2, key) = ThisMember(t, ms[n + 1].key, s[2], SkipValue(t, s[2], 1), key)
    BY <1>2, <1>5, <1>n, <2>1, Zenon DEF Finding
  <2>3. SkipValue(t, s[Len(st)], Len(st) - 1) = Len(w) + 2 BY <2>1, InnermostClosed
  <2>4. Len(st) - 1 = 1 /\ Len(w) + 2 = Len(w1) + 1
    <3>1. Len(w) \in Nat BY TextIs
    <3>. QED BY ONLY <1>0, <3>1, Len(st) = 2
  <2>5. SkipValue(t, s[2], 1) = Len(w1) + 1 BY <2>3, <2>4
  <2>. QED BY <2>2, <2>5
<1>6. s[2] \in Nat \ {0} /\ s[2] <= Len(w1)
  <2>1. s[2] \in 1..Len(w) BY DEF Reading
  <2>2. Len(w) \in Nat BY TextIs
  <2>. QED BY ONLY <1>0, <2>1, <2>2
<1>7. SameAs(Value(w1, s[2], Len(w1) + 1), ms[n + 1]) /\ ms[n + 1].key \in Texts
      /\ Len(ms) = n + 1 /\ n \in Nat /\ Len(st1) = 1
  OBVIOUS
<1>. QED BY ONLY <1>1, <1>4, <1>5, <1>6, <1>7, MemberComplete

\* The root is opened, and is an object.
LEMMA RootFinds ==
    ASSUME NEW w, Len(w) = 1, NEW st, Len(st) = 1, NEW s, NEW ms, Len(ms) = 0
    PROVE  Finding(w, st, s, <<>>, ms)
<1>1. FoundSo(w, <<>>, ms, Len(ms)) BY DEF FoundSo
<1>2. Len(w) + 1 = 2 OBVIOUS
<1>3. \A key \in Texts : \A t : FindFrom(t, 2, key) = NextMember(t, Len(w) + 1, <<>>, key)
  BY <1>2 DEF NextMember
<1>. QED BY <1>1, <1>3, Zenon DEF Finding
-----------------------------------------------------------------------------
(* The elements of an array, as json_array_length and json_array_at meet them *)

\* Another element comes at p.
More(u, p) == At(u, p) = ","

LEMMA ElementsCount ==
    ASSUME NEW u \in Texts
    PROVE  \A q \in Nat : ElementsFrom(u, q) \in Nat
<1> DEFINE S == {q \in Nat : ElementsFrom(u, q) \in Nat}
<1>1. Len(u) \in Nat BY TextIs
<1>2. ASSUME NEW q \in Nat, q <= Len(u) => \A r \in Nat : r > q => r \in S
      PROVE  q \in S
  <2> DEFINE past == SkipValue(u, q, 1)
  <2>1. ElementsFrom(u, q) = IF past = 0 THEN 0 ELSE IF At(u, past) # "," THEN 1
                             ELSE 1 + ElementsFrom(u, past + 1)
    BY ElementsFromIs
  <2>2. CASE past # 0 /\ At(u, past) = ","
    <3>1. q <= Len(u) /\ past + 1 \in Nat /\ past + 1 > q BY <2>2, ElementGoesOn
    <3> HIDE DEF past
    <3>2. past + 1 \in S BY <1>2, <3>1
    <3>3. ElementsFrom(u, past + 1) \in Nat BY <3>2
    <3>4. ElementsFrom(u, q) = 1 + ElementsFrom(u, past + 1) BY <2>1, <2>2, Zenon
    <3>5. ElementsFrom(u, q) \in Nat BY <3>3, <3>4
    <3>. QED BY <3>5
  <2>3. CASE ~(past # 0 /\ At(u, past) = ",")
    <3> HIDE DEF past
    <3>1. ElementsFrom(u, q) = 0 \/ ElementsFrom(u, q) = 1 BY <2>1, <2>3, Zenon
    <3>. QED BY <3>1
  <2>. QED BY <2>2, <2>3
<1> HIDE DEF S
<1>3. Nat \subseteq S BY <1>1, <1>2, FromTheEnd
<1>. QED BY <1>3 DEF S

\* The first n elements of u, which are of the types its, end before r.
ElementsUpTo(u, its, n, r) ==
    /\ ElementsFrom(u, 2) = n + ElementsFrom(u, r)
    /\ \A i \in 1..n : ElementAt(u, 2, i).type = its[i]
    /\ \A i \in Nat : i > n => ElementAt(u, 2, i) = ElementAt(u, r, i - n)

\* The nth ends at p.
ElementsDone(u, its, n, p) ==
    /\ ElementsFrom(u, 2) = n + IF More(u, p) THEN ElementsFrom(u, p + 1) ELSE 0
    /\ \A i \in 1..n : ElementAt(u, 2, i).type = its[i]
    /\ \A i \in Nat : i > n =>
          ElementAt(u, 2, i) = IF More(u, p) THEN ElementAt(u, p + 1, i - n) ELSE NoValue

LEMMA NoElements ==
    ASSUME NEW u \in Texts, NEW its
    PROVE  ElementsUpTo(u, its, 0, 2)
<1>1. ElementsFrom(u, 2) \in Nat BY ElementsCount
<1>2. ElementsFrom(u, 2) = 0 + ElementsFrom(u, 2) BY <1>1
<1>3. \A i \in 1..0 : ElementAt(u, 2, i).type = its[i] OBVIOUS
<1>4. \A i \in Nat : i - 0 = i OBVIOUS
<1>. QED BY <1>2, <1>3, <1>4 DEF ElementsUpTo

LEMMA ElementEnds ==
    ASSUME NEW u \in Texts, NEW its, NEW n \in Nat, NEW r \in Nat, ElementsUpTo(u, its, n, r),
           NEW p \in Nat \ {0}, SkipValue(u, r, 1) = p, TypeOf(u[r]) = its[n + 1]
    PROVE  ElementsDone(u, its, n + 1, p)
<1>1. ElementsFrom(u, r) = IF More(u, p) THEN 1 + ElementsFrom(u, p + 1) ELSE 1
  <2>1. ElementsFrom(u, r) = IF p = 0 THEN 0 ELSE IF At(u, p) # "," THEN 1
                             ELSE 1 + ElementsFrom(u, p + 1)
    BY ElementsFromIs
  <2>2. p # 0 OBVIOUS
  <2>. QED BY <2>1, <2>2, Zenon DEF More
<1>2. ElementsFrom(u, p + 1) \in Nat
  <2>1. p + 1 \in Nat OBVIOUS
  <2>. QED BY <2>1, ElementsCount
<1>3. ElementsFrom(u, 2) = n + ElementsFrom(u, r) BY DEF ElementsUpTo
<1>4. ElementsFrom(u, 2) = (n + 1) + IF More(u, p) THEN ElementsFrom(u, p + 1) ELSE 0
  <2>1. CASE More(u, p)
    <3>1. ElementsFrom(u, r) = 1 + ElementsFrom(u, p + 1) BY <1>1, <2>1, Zenon
    <3>2. ElementsFrom(u, 2) = (n + 1) + ElementsFrom(u, p + 1)
      BY ONLY <1>2, <1>3, <3>1, n \in Nat
    <3>. QED BY <2>1, <3>2, Zenon
  <2>2. CASE ~More(u, p)
    <3>1. ElementsFrom(u, r) = 1 BY <1>1, <2>2, Zenon
    <3>2. ElementsFrom(u, 2) = (n + 1) + 0 BY ONLY <1>3, <3>1, n \in Nat
    <3>. QED BY <2>2, <3>2, Zenon
  <2>. QED BY <2>1, <2>2
<1>5. ASSUME NEW j \in Int
      PROVE  ElementAt(u, r, j) = IF j = 1 THEN Value(u, r, p)
                                  ELSE IF More(u, p) THEN ElementAt(u, p + 1, j - 1) ELSE NoValue
  <2>1. ElementAt(u, r, j) = IF p = 0 THEN NoValue ELSE IF j = 1 THEN Value(u, r, p)
                             ELSE IF At(u, p) # "," THEN NoValue ELSE ElementAt(u, p + 1, j - 1)
    BY ElementAtIs
  <2>2. p # 0 OBVIOUS
  <2>. QED BY <2>1, <2>2, Zenon DEF More
<1>6. /\ \A i \in 1..n : ElementAt(u, 2, i).type = its[i]
      /\ \A i \in Nat : i > n => ElementAt(u, 2, i) = ElementAt(u, r, i - n)
  BY DEF ElementsUpTo
<1>7. ElementAt(u, 2, n + 1).type = its[n + 1]
  <2>1. n + 1 \in Nat /\ n + 1 > n /\ (n + 1) - n = 1 /\ 1 \in Int OBVIOUS
  <2>2. ElementAt(u, 2, n + 1) = ElementAt(u, r, 1) BY <1>6, <2>1
  <2>3. ElementAt(u, r, 1) = Value(u, r, p) BY <1>5, <2>1, Zenon
  <2>4. Value(u, r, p).type = TypeOf(u[r]) BY DEF Value
  <2>. QED BY <2>2, <2>3, <2>4
<1>8. \A i \in 1..n + 1 : ElementAt(u, 2, i).type = its[i]
  <2> SUFFICES ASSUME NEW i \in 1..n + 1 PROVE ElementAt(u, 2, i).type = its[i] OBVIOUS
  <2>1. i \in 1..n \/ i = n + 1 OBVIOUS
  <2>. QED BY <1>6, <1>7, <2>1, Zenon
<1>9. ASSUME NEW i \in Nat, i > n + 1
      PROVE  ElementAt(u, 2, i) = IF More(u, p) THEN ElementAt(u, p + 1, i - (n + 1)) ELSE NoValue
  <2>1. i > n /\ i - n \in Int /\ i - n # 1 /\ (i - n) - 1 = i - (n + 1) BY ONLY <1>9, n \in Nat, i \in Nat
  <2>2. ElementAt(u, 2, i) = ElementAt(u, r, i - n) BY <1>6, <2>1
  <2>3. ElementAt(u, r, i - n)
          = IF More(u, p) THEN ElementAt(u, p + 1, (i - n) - 1) ELSE NoValue
    BY <1>5, <2>1, Zenon
  <2>. QED BY <2>1, <2>2, <2>3
<1>. QED BY <1>4, <1>8, <1>9, Zenon DEF ElementsDone

LEMMA ElementFollows ==
    ASSUME NEW u, NEW its, NEW n \in Nat, NEW p, ElementsDone(u, its, n, p), More(u, p),
           NEW its1, \A i \in 1..n : its1[i] = its[i]
    PROVE  ElementsUpTo(u, its1, n, p + 1)
<1>1. ElementsFrom(u, 2) = n + ElementsFrom(u, p + 1) BY DEF ElementsDone
<1>2. \A i \in 1..n : ElementAt(u, 2, i).type = its1[i] BY DEF ElementsDone
<1>3. \A i \in Nat : i > n => ElementAt(u, 2, i) = ElementAt(u, p + 1, i - n) BY DEF ElementsDone
<1>. QED BY <1>1, <1>2, <1>3, Zenon DEF ElementsUpTo

\* An array that has been read to its end.
LEMMA ArrayIsRead ==
    ASSUME NEW u \in Texts, NEW its, NEW n \in Nat \ {0}, NEW p, ElementsDone(u, its, n, p),
           ~More(u, p)
    PROVE  /\ ElementsFrom(u, 2) = n /\ At(u, 2) # "]"
           /\ \A i \in 1..n : ElementAt(u, 2, i).type = its[i]
<1>1. ElementsFrom(u, 2) = n + 0 BY Zenon DEF ElementsDone
<1>2. ElementsFrom(u, 2) = n BY <1>1
<1>3. ASSUME At(u, 2) = "]" PROVE FALSE
  <2>1. At(u, 2) # Quote /\ At(u, 2) \notin Literals /\ At(u, 2) \notin Opening
        /\ At(u, 2) # "1"
    BY <1>3 DEF Quote, Literals, Opening
  <2>2. SkipValue(u, 2, 1) = SkipNumber(u, 2) BY <2>1, SkipValueIs
  <2>3. SkipNumber(u, 2) = 0 BY <2>1, SkipNumberIs
  <2>4. ElementsFrom(u, 2) = LET past == SkipValue(u, 2, 1)
             IN  IF past = 0 THEN 0 ELSE IF At(u, past) # "," THEN 1
                 ELSE 1 + ElementsFrom(u, past + 1)
    BY ElementsFromIs
  <2>5. ElementsFrom(u, 2) = 0 BY <2>2, <2>3, <2>4, Zenon
  <2>. QED BY <1>2, <2>5
<1>. QED BY <1>2, <1>3, Zenon DEF ElementsDone
\* An element is added to the array z.
ElementAdded(z1, z, sep, body, r) == Added(z1, z, sep, "[", NoKey, body, r)

\* z begins with an array, whose elements are all complete.
Holds(z, sep, its) ==
    IF Len(its) = 0 THEN sep = <<>> /\ Len(z) = 1
    ELSE /\ sep = <<",">>
         /\ \A u : Follows(u, z, sep) => ElementsDone(u, its, Len(its), Len(z) + 1)

\* All but the last, which is a container, at r.
HoldsOpen(z, sep, its, r, type) ==
    /\ Len(its) > 0 /\ its[Len(its)] = type
    /\ \A u : Follows(u, z, sep) => ElementsUpTo(u, its, Len(its) - 1, r)

\* One item more.
OneMoreItem(its1, its, type) ==
    /\ Len(its) \in Nat /\ Len(its1) = Len(its) + 1 /\ its1[Len(its) + 1] = type
    /\ \A i \in 1..Len(its) : its1[i] = its[i]

LEMMA UpToTheAdded ==
    ASSUME NEW z, NEW sep, NEW its, Holds(z, sep, its), NEW z1, NEW body, NEW r,
           ElementAdded(z1, z, sep, body, r), NEW its1, NEW type, OneMoreItem(its1, its, type),
           NEW u, Begins(u, z1)
    PROVE  ElementsUpTo(u, its1, Len(its), r)
<1>1. Added(z1, z, sep, "[", NoKey, body, r) BY DEF ElementAdded
<1>2. /\ z \in Texts /\ sep \in Separators /\ body \in Texts /\ Len(body) > 0
      /\ "[" \in Opening /\ KeyFor("[", NoKey)
      /\ r = Len(z) + 1 + Len(sep) + Len(NameOf(NoKey))
  BY <1>1 DEF Added
<1>3. Grows(u, z, Item(sep, NoKey, body)) /\ Follows(u, z, sep) /\ z1 \in Texts
  BY <1>1, ItemContinues
<1>4. u \in Texts /\ TextShows(u, Len(z) + 1, Item(sep, NoKey, body)) BY <1>3 DEF Grows, Begins
<1>5. Len(z) \in Nat /\ Len(u) \in Nat /\ Len(z1) \in Nat BY <1>2, <1>3, <1>4, TextIs
<1>6. Len(NameOf(NoKey)) = 0 /\ (sep = <<>> => Len(sep) = 0) /\ (sep # <<>> => Len(sep) = 1)
  BY <1>2, LeadIs
<1>7. r = Len(z) + 1 + Len(sep) + 0 BY <1>2, <1>6, Zenon
<1>8. CASE Len(its) = 0
  <2>1. sep = <<>> /\ Len(z) = 1 BY <1>8, Zenon DEF Holds
  <2>2. Len(sep) = 0 BY <1>6, <2>1, Zenon
  <2>z. Len(z) = 1 BY <2>1
  <2>3. r = 2 BY ONLY <1>7, <2>2, <2>z
  <2>. QED BY <1>4, <1>8, <2>3, NoElements
<1>9. CASE Len(its) # 0
  <2>1. sep = <<",">> /\ ElementsDone(u, its, Len(its), Len(z) + 1)
    BY <1>3, <1>9, Zenon DEF Holds
  <2>2. sep # <<>> BY <2>1
  <2>3. Len(sep) = 1 BY <1>6, <2>2, Zenon
  <2>4. r = (Len(z) + 1) + 1 BY ONLY <1>5, <1>7, <2>3
  <2>5. TextShows(u, Len(z) + 1, sep)
    <3>1. Len(z) + 1 \in Nat BY ONLY <1>5
    <3>. QED BY <1>2, <1>4, <3>1, ItemShown
  <2>6. Len(z) + 1 <= Len(u)
    <3>1. Len(z1) <= Len(u) BY DEF Begins
    <3>2. Lies(z1, r, body) BY <1>1, ValueIsBody
    <3>3. r <= Len(z1) /\ r \in Nat BY <3>2 DEF Lies
    <3>. QED BY ONLY <1>5, <2>4, <3>1, <3>3
  <2>7. More(u, Len(z) + 1)
    <3>1. sep \in Texts /\ Len(sep) > 0 /\ sep[1] = "," BY <1>2, <2>2, LeadIs
    <3>2. Len(z) + 1 \in Nat \ {0} BY ONLY <1>5
    <3>3. At(u, Len(z) + 1) = IF Len(z) + 1 <= Len(u) THEN sep[1] ELSE "end"
      BY <1>4, <2>5, <3>1, <3>2, ShownText, Zenon
    <3>. QED BY <2>6, <3>1, <3>3, Zenon DEF More
  <2>8. ElementsUpTo(u, its1, Len(its), (Len(z) + 1) + 1)
    BY <2>1, <2>7, ElementFollows DEF OneMoreItem
  <2>. QED BY <2>4, <2>8
<1>. QED BY <1>8, <1>9

LEMMA ElementWritten ==
    ASSUME NEW z, NEW sep, NEW its, Holds(z, sep, its), NEW z1, NEW body, NEW r,
           ElementAdded(z1, z, sep, body, r), Readable(body),
           NEW its1, OneMoreItem(its1, its, TypeOf(body[1]))
    PROVE  Holds(z1, <<",">>, its1)
<1>1. Added(z1, z, sep, "[", NoKey, body, r) BY DEF ElementAdded
<1>2. Lies(z1, r, body) /\ z1 \in Texts BY <1>1, ValueIsBody, ItemContinues
<1>3. Len(z1) \in Nat BY <1>2, TextIs
<1>4. Len(its) \in Nat /\ Len(its1) = Len(its) + 1 /\ its1[Len(its) + 1] = TypeOf(body[1])
  BY DEF OneMoreItem
<1>5. ASSUME NEW u, Follows(u, z1, <<",">>)
      PROVE  ElementsDone(u, its1, Len(its1), Len(z1) + 1)
  <2>1. Begins(u, z1) /\ At(u, Len(z1) + 1) # "1" BY <1>5 DEF Follows
  <2>2. u \in Texts /\ Len(z1) <= Len(u) BY <2>1 DEF Begins
  <2>3. Len(u) \in Nat BY <2>2, TextIs
  <2>4. ElementsUpTo(u, its1, Len(its), r) BY <2>1, UpToTheAdded
  <2>5. r \in Nat \ {0} /\ r <= Len(z1) /\ Len(z1) + 1 = r + Len(body)
        /\ TextShows(u, r, body) /\ At(u, r) = body[1]
    BY <1>2, <2>1 DEF Lies
  <2>6. Len(body) \in Nat BY TextIs DEF Readable
  <2>7. ~(r + Len(body) > Len(u) + 1) BY ONLY <1>3, <2>2, <2>3, <2>5, <2>6
  <2>8. At(u, r + Len(body)) # "1" BY <2>1, <2>5
  <2>9. SkipValue(u, r, 1) = Len(z1) + 1
    <3>1. 1 \in Nat OBVIOUS
    <3>. QED BY <2>2, <2>5, <2>7, <2>8, <3>1 DEF Readable
  <2>10. u[r] = body[1]
    <3>1. r \in 1..Len(u) BY ONLY <1>3, <2>2, <2>3, <2>5
    <3>. QED BY <2>5, <3>1, Zenon DEF At
  <2>11. Len(z1) + 1 \in Nat \ {0} BY ONLY <1>3
  <2>12. r \in Nat BY <2>5
  <2>13. TypeOf(u[r]) = its1[Len(its) + 1] BY <1>4, <2>10, Zenon
  <2>14. ElementsDone(u, its1, Len(its) + 1, Len(z1) + 1)
    BY ONLY <1>4, <2>2, <2>4, <2>9, <2>11, <2>12, <2>13, ElementEnds
  <2>. QED BY <1>4, <2>14
<1>6. Len(its1) # 0 BY ONLY <1>4
<1>. QED BY <1>5, <1>6, Zenon DEF Holds

LEMMA ElementOpens ==
    ASSUME NEW z, NEW sep, NEW its, Holds(z, sep, its), NEW z1, NEW body, NEW r,
           ElementAdded(z1, z, sep, body, r), NEW its1, NEW type, OneMoreItem(its1, its, type)
    PROVE  HoldsOpen(z1, <<>>, its1, r, type)
<1>1. Len(its) \in Nat /\ Len(its1) = Len(its) + 1 /\ its1[Len(its) + 1] = type
  BY DEF OneMoreItem
<1>2. Len(its1) > 0 /\ Len(its1) - 1 = Len(its) BY ONLY <1>1
<1>3. its1[Len(its1)] = type BY <1>1, Zenon
<1>4. \A u : Follows(u, z1, <<>>) => ElementsUpTo(u, its1, Len(its), r)
  BY UpToTheAdded DEF Follows
<1>5. \A u : Follows(u, z1, <<>>) => ElementsUpTo(u, its1, Len(its1) - 1, r)
  BY <1>2, <1>4
<1>. QED BY <1>2, <1>3, <1>5, Zenon DEF HoldsOpen

LEMMA ElementStays ==
    ASSUME NEW z, NEW sep, NEW its, NEW r, NEW type, HoldsOpen(z, sep, its, r, type),
           NEW z1, NEW sep1, Continues(z1, sep1, z, sep)
    PROVE  HoldsOpen(z1, sep1, its, r, type)
BY DEF HoldsOpen, Continues

\* An array is opened under a key of the root.
LEMMA ArrayOpens ==
    ASSUME NEW z, Len(z) = 1, NEW its, Len(its) = 0
    PROVE  Holds(z, <<>>, its)
BY DEF Holds
\* The containers begin with what opened them.
Opened(w, st, s) == \A i \in 1..Len(st) : w[s[i]] = st[i]

\* What is added to a text is added to its end.
LEMMA AddedToTheEnd ==
    ASSUME NEW w1, NEW w, NEW sep, NEW c, NEW key, NEW body, NEW v,
           Added(w1, w, sep, c, key, body, v), NEW q \in 1..Len(w), NEW r, r = v - q + 1
    PROVE  Added(From(w1, q), From(w, q), sep, c, key, body, r)
<1>1. /\ w \in Texts /\ sep \in Separators /\ c \in Opening /\ KeyFor(c, key)
      /\ body \in Texts /\ Len(body) > 0 /\ w1 = w \o Item(sep, key, body)
  BY DEF Added
<1>2. v = Len(w) + 1 + Len(sep) + Len(NameOf(key)) BY DEF Added
<1>3. Item(sep, key, body) \in Texts /\ Len(sep) \in Nat /\ Len(NameOf(key)) \in Nat
  BY <1>1, ItemIs
<1>4. Len(w) \in Nat BY <1>1, TextIs
<1>5. q \in 1..Len(w) + 1 BY <1>4
<1>6. From(w1, q) = From(w, q) \o Item(sep, key, body) BY <1>1, <1>3, <1>5, FromGrows
<1>7. From(w, q) \in Texts /\ Len(From(w, q)) = Len(w) + 1 - q BY <1>1, <1>5, FromIs
<1>8. r = Len(From(w, q)) + 1 + Len(sep) + Len(NameOf(key))
  <2>1. Len(From(w, q)) = Len(w) + 1 - q BY <1>7
  <2>. QED BY ONLY <1>2, <1>3, <1>4, <1>5, <2>1, r = v - q + 1
<1>. QED BY <1>1, <1>6, <1>7, <1>8, Zenon DEF Added

\* So is what closes.
LEMMA ClosedAtTheEnd ==
    ASSUME NEW w \in Texts, NEW c \in Opening, NEW w1, w1 = w \o <<Closing(c)>>,
           NEW q \in 1..Len(w), NEW sep, NEW sep1
    PROVE  /\ From(w1, q) = From(w, q) \o <<Closing(c)>>
           /\ From(w1, q) \in Texts /\ Len(From(w1, q)) = Len(From(w, q)) + 1
           /\ From(w, q) \in Texts /\ Len(From(w, q)) = Len(w) + 1 - q
           /\ Continues(From(w1, q), sep1, From(w, q), sep)
<1> DEFINE x == <<Closing(c)>>
           z == From(w, q)
           z1 == From(w1, q)
<1>1. x \in Texts /\ Len(x) = 1 BY ClosingIs
<1>2. x[1] # "1"
  <2>1. x[1] = Closing(c) BY ClosingIs
  <2>2. Closing(c) # "1" BY SignsAreNoDigits
  <2>. QED BY <2>1, <2>2, Zenon
<1>3. w1 = w \o x OBVIOUS
<1> HIDE DEF x
<1>4. Len(w) \in Nat BY TextIs
<1>5. q \in 1..Len(w) + 1 BY <1>4
<1>6. z1 = z \o x BY <1>1, <1>3, <1>5, FromGrows
<1>7. z \in Texts /\ Len(z) = Len(w) + 1 - q BY <1>5, FromIs
<1> HIDE DEF z, z1
<1>8. z1 \in Texts /\ Len(z1) = Len(z) + Len(x) BY ONLY <1>1, <1>6, <1>7, TextsJoined
<1>9. Len(z1) = Len(z) + 1 BY ONLY <1>1, <1>8
<1>10. Len(x) > 0 BY ONLY <1>1
<1>11. ASSUME NEW u, Begins(u, z1) PROVE Follows(u, z, sep)
  <2>1. Grows(u, z, x) BY <1>1, <1>6, <1>7, <1>11, BeginsGrows
  <2>2. sep # <<>> => x[1] # "1" BY <1>2
  <2>. QED BY <1>1, <1>7, <1>10, <2>1, <2>2, GrowsFollows
<1>12. Begins(z1, z1) BY <1>8, WholeText
<1>13. Continues(z1, sep1, z, sep) BY <1>8, <1>11, <1>12 DEF Continues, Follows
<1>. QED BY <1>6, <1>7, <1>8, <1>9, <1>13, Zenon DEF x, z, z1

\* A container in an array of the root is closed.
LEMMA ElementCloses ==
    ASSUME NEW w \in Texts, NEW st \in Seq(Opening), NEW s, NEW sep, Reading(w, st, s, sep),
           Len(st) = 3, Opened(w, st, s), NEW its, NEW n \in Nat, Len(its) = n + 1,
           HoldsOpen(From(w, s[2]), sep, its, s[3] - s[2] + 1, TypeOf(st[3])),
           NEW w1, w1 = w \o <<Closing(st[Len(st)])>>
    PROVE  Holds(From(w1, s[2]), <<",">>, its)
<1> DEFINE q == s[2]
           v == s[3]
           a == q - 1
           r == v - q + 1
           e == Len(w1) + 1
           z == From(w, q)
           z1 == From(w1, q)
<1>1. Len(w) \in Nat BY TextIs
<1>2. q \in 1..Len(w) /\ v \in 1..Len(w) /\ q < v BY DEF Reading
<1>3. st[3] \in Opening /\ st[Len(st)] \in Opening
  <2>1. 3 \in 1..Len(st) /\ Len(st) \in 1..Len(st) BY ONLY Len(st) = 3
  <2>. QED BY ONLY st \in Seq(Opening), <2>1
<1>4. w1 \in Texts /\ Len(w1) = Len(w) + 1 BY ClosingContinues
<1>5. /\ z1 \in Texts /\ Len(z1) = Len(z) + 1 /\ z \in Texts /\ Len(z) = Len(w) + 1 - q
      /\ Continues(z1, <<",">>, z, sep)
  <2> HIDE DEF q
  <2>. QED BY <1>2, <1>3, ClosedAtTheEnd
<1>6. SkipValue(w1, v, 2) = e
  <2>1. Begins(w1, w1) BY <1>4, WholeText
  <2>2. SkipValue(w1, s[Len(st)], Len(st) - 1) = Len(w) + 2 BY <2>1, InnermostClosed
  <2>3. Len(st) - 1 = 2 /\ Len(w) + 2 = e BY ONLY <1>1, <1>4, Len(st) = 3
  <2>. QED BY <2>2, <2>3
<1>7. w[v] = st[3]
  <2>1. 3 \in 1..Len(st) OBVIOUS
  <2>. QED BY <2>1 DEF Opened
<1>8. its[Len(its)] = TypeOf(st[3])
      /\ \A u : Follows(u, z, sep) => ElementsUpTo(u, its, Len(its) - 1, r)
  BY DEF HoldsOpen
<1>9. Len(its) - 1 = n BY ONLY n \in Nat, Len(its) = n + 1
<1>n. Len(z) = Len(w) + 1 - q /\ Len(z1) = Len(z) + 1 BY <1>5
<1>x. Len(w1) = Len(w) + 1 BY <1>4
<1>10. a \in Nat /\ v > a /\ r \in Nat \ {0} /\ v - a = r /\ e - a = Len(z1) + 1 /\ e \in Nat
       /\ v \in Nat /\ q \in Nat
  <2> HIDE DEF q, v, z, z1
  <2>. QED BY ONLY <1>1, <1>2, <1>n, <1>x
<1>11. ASSUME NEW u, Follows(u, z1, <<",">>)
       PROVE  ElementsDone(u, its, Len(its), Len(z1) + 1)
  <2>1. Begins(u, z1) /\ At(u, Len(z1) + 1) # "1" BY <1>11 DEF Follows
  <2>2. /\ u \in Texts /\ Len(z1) <= Len(u)
        /\ \A j \in 1..Len(z1) : u[j] = z1[j]
    BY <2>1 DEF Begins
  <2>3. Len(u) \in Nat /\ Len(z1) \in Nat BY <1>5, <2>2, TextIs
  <2>4. \A j \in 1..Len(z1) : z1[j] = w1[q + j - 1]
    <3>1. q \in 1..Len(w1) + 1
      <4> HIDE DEF q
      <4>. QED BY ONLY <1>1, <1>2, <1>x
    <3>2. Len(z1) = Len(w1) + 1 - q
      <4> HIDE DEF q, z, z1
      <4>. QED BY ONLY <1>1, <1>2, <1>n, <1>x
    <3> HIDE DEF q
    <3>. QED BY <1>4, <3>1, <3>2, FromIs
  <2>5. ASSUME NEW i \in v..e - 1 PROVE At(u, i - a) = At(w1, i)
    <3> HIDE DEF z, z1
    <3>1. /\ i - a \in 1..Len(z1) /\ i - a \in 1..Len(u) /\ i \in 1..Len(w1)
          /\ q + (i - a) - 1 = i
      <4> HIDE DEF q, v
      <4>. QED BY ONLY <1>1, <1>2, <1>n, <1>x, <2>2, <2>3, i \in v..e - 1
    <3> HIDE DEF q, v, a, e
    <3>2. u[i - a] = z1[i - a] BY <2>2, <3>1
    <3>3. z1[i - a] = w1[q + (i - a) - 1] BY <2>4, <3>1
    <3>. QED BY <3>1, <3>2, <3>3 DEF At
  <2>6. Alike(w1, u, a, v, e) BY <1>10, <2>1, <2>5 DEF Alike
  <2>7. SkipValue(u, r, 1) = Len(z1) + 1
    <3> HIDE DEF q, v, a, r, e, z, z1
    <3>1. ValueSame(w1, u, a, v) BY <1>4, <1>10, <2>2, SkipValueSame
    <3>2. SkipValue(w1, v, 2) # 0 /\ Alike(w1, u, a, v, SkipValue(w1, v, 2))
      <4>1. e # 0 BY <1>4, TextIs DEF e
      <4>. QED BY <1>6, <2>6, <4>1
    <3>3. 1 \in Nat /\ 2 \in Nat /\ 1 <= 2 OBVIOUS
    <3>4. SkipValue(u, v - a, 1) = SkipValue(w1, v, 2) - a
      BY <1>10, <3>1, <3>2, <3>3 DEF ValueSame
    <3>. QED BY <1>6, <1>10, <3>4
  <2>8. u[r] = st[3]
    <3>1. v \in v..e - 1 /\ v \in 1..Len(w1) /\ r \in 1..Len(u) /\ v - a = r /\ v \in 1..Len(w)
      <4> HIDE DEF q, v, z, z1
      <4>. QED BY ONLY <1>1, <1>2, <1>n, <1>x, <2>2, <2>3
    <3> HIDE DEF q, v, a, r, e, z, z1
    <3>2. At(u, r) = At(w1, v) BY <2>5, <3>1
    <3>3. w1[v] = w[v]
      <4>1. Begins(w1, w) BY ClosingContinues DEF Continues
      <4>. QED BY <3>1, <4>1 DEF Begins
    <3>. QED BY <1>7, <3>1, <3>2, <3>3, Zenon DEF At
  <2>9. ElementsUpTo(u, its, n, r)
    <3>1. Follows(u, z, sep) BY <1>5, <1>11 DEF Continues
    <3>. QED BY <1>8, <1>9, <3>1
  <2>10. TypeOf(u[r]) = its[n + 1] BY <1>8, <2>8, Zenon
  <2> HIDE DEF q, v, a, r, e, z, z1
  <2>11. Len(z1) + 1 \in Nat \ {0} /\ r \in Nat BY <1>10, <2>3
  <2>12. ElementsDone(u, its, n + 1, Len(z1) + 1)
    BY ONLY n \in Nat, <2>2, <2>7, <2>9, <2>10, <2>11, ElementEnds
  <2>. QED BY <2>12
<1>12. Len(its) # 0 BY ONLY n \in Nat, Len(its) = n + 1
<1>. QED BY <1>11, <1>12, Zenon DEF Holds

\* A value is an array of items of those types.
ReadsItems(value, its) ==
    /\ value.type = "array" /\ ArrayLength(value) = Len(its)
    /\ \A i \in 1..Len(its) : ElementAt(value.text, 2, i).type = its[i]

SecondIsArray(st) == st[2] = "["

\* An array under a key of the root is closed: it is read as it was written.
LEMMA ArrayCloses ==
    ASSUME NEW w \in Texts, NEW st \in Seq(Opening), NEW s, NEW sep, Reading(w, st, s, sep),
           Len(st) = 2, Opened(w, st, s), SecondIsArray(st), NEW its, Len(its) \in Nat,
           Holds(From(w, s[2]), sep, its), NEW w1, w1 = w \o <<Closing(st[Len(st)])>>,
           NEW value, value = Value(w1, s[2], Len(w1) + 1)
    PROVE  ReadsItems(value, its)
<1> USE DEF SecondIsArray
<1> DEFINE q == s[2]
           z == From(w, q)
           z1 == From(w1, q)
<1>1. Len(w) \in Nat BY TextIs
<1>2. q \in 1..Len(w) BY DEF Reading
<1>3. st[2] \in Opening /\ st[Len(st)] \in Opening /\ st[Len(st)] = st[2]
  BY ONLY st \in Seq(Opening), Len(st) = 2
<1>4. w1 \in Texts /\ Len(w1) = Len(w) + 1 /\ Begins(w1, w)
  BY ClosingContinues DEF Continues
<1>5. /\ z1 = z \o <<Closing(st[Len(st)])>>
      /\ z1 \in Texts /\ Len(z1) = Len(z) + 1 /\ z \in Texts
      /\ Continues(z1, sep, z, sep)
  <2> HIDE DEF q
  <2>. QED BY <1>2, <1>3, ClosedAtTheEnd
<1>6. value.text = z1
  <2>1. (Len(w1) + 1) - 1 = Len(w1) BY <1>1, <1>4
  <2>. QED BY <2>1 DEF Value, From
<1>7. value.type = "array"
  <2>1. w1[q] = w[q] BY <1>2, <1>4 DEF Begins
  <2>2. w[q] = st[2]
    <3>1. 2 \in 1..Len(st) OBVIOUS
    <3>. QED BY <3>1 DEF Opened
  <2>3. TypeOf("[") = "array" BY DEF TypeOf, Quote, Literals
  <2>4. value.type = TypeOf(w1[q]) BY DEF Value
  <2>. QED BY <2>1, <2>2, <2>3, <2>4
<1>8. At(z1, Len(z) + 1) = "]"
  <2>1. Closing(st[Len(st)]) = "]" BY <1>3 DEF Closing
  <2>2. Len(z) \in Nat BY <1>5, TextIs
  <2>3. z1[Len(z) + 1] = "]" BY <1>5, <2>1
  <2>4. Len(z) + 1 \in 1..Len(z1) BY <1>5, <2>2
  <2>. QED BY <2>3, <2>4 DEF At
<1>9. CASE Len(its) = 0
  <2>1. Len(z) = 1 BY <1>9, Zenon DEF Holds
  <2>2. At(value.text, 2) = "]"
    <3>1. Len(z) + 1 = 2 BY ONLY <2>1
    <3>. QED BY <1>6, <1>8, <3>1
  <2>3. ArrayLength(value) = 0 BY <2>2, Zenon DEF ArrayLength
  <2>4. \A i \in 1..Len(its) : ElementAt(value.text, 2, i).type = its[i] BY ONLY <1>9
  <2>. QED BY <1>7, <1>9, <2>3, <2>4, Zenon DEF ReadsItems
<1>10. CASE Len(its) # 0
  <2>1. Follows(z1, z1, sep) BY <1>5, WholeText
  <2>2. Follows(z1, z, sep) BY <1>5, <2>1 DEF Continues
  <2>3. ElementsDone(z1, its, Len(its), Len(z) + 1) BY <1>10, <2>2, Zenon DEF Holds
  <2>4. ~More(z1, Len(z) + 1) BY <1>8 DEF More
  <2>5. Len(its) \in Nat \ {0} BY <1>10
  <2>6. /\ ElementsFrom(z1, 2) = Len(its) /\ At(z1, 2) # "]"
        /\ \A i \in 1..Len(its) : ElementAt(z1, 2, i).type = its[i]
    BY ONLY <1>5, <2>3, <2>4, <2>5, ArrayIsRead
  <2>7. ArrayLength(value) = Len(its) BY <1>6, <1>7, <2>6, Zenon DEF ArrayLength
  <2>. QED BY <1>6, <1>7, <2>6, <2>7, Zenon DEF ReadsItems
<1>. QED BY <1>9, <1>10
-----------------------------------------------------------------------------
(* What is remembered of a document, and what is found in it *)

\* The root has one member more.
Gained(ms1, ms, key, type) ==
    /\ Len(ms) \in Nat /\ Len(ms1) = Len(ms) + 1 /\ \A i \in 1..Len(ms) : ms1[i] = ms[i]
    /\ ms1[Len(ms) + 1].key = key /\ ms1[Len(ms) + 1].type = type
    /\ Len(ms1[Len(ms) + 1].items) = 0

\* Something comes into the last member.
Deepened(ms1, ms) ==
    /\ Len(ms) \in Nat \ {0} /\ Len(ms1) = Len(ms) /\ \A i \in 1..Len(ms) - 1 : ms1[i] = ms[i]
    /\ ms1[Len(ms)].key = ms[Len(ms)].key /\ ms1[Len(ms)].type = ms[Len(ms)].type

\* What a call adds in the container at depth k.
Remembers(ms1, ms, k, key, type) ==
    IF k = 1 THEN Gained(ms1, ms, key, type)
    ELSE /\ Deepened(ms1, ms)
         /\ IF k = 2 THEN OneMoreItem(ms1[Len(ms)].items, ms[Len(ms)].items, type)
            ELSE ms1[Len(ms)].items = ms[Len(ms)].items

\* The members of a root that is an object are found.
Finds(w, st, s, sep, ms) == st[1] = "{" => Finding(w, st, s, sep, ms)

\* The array that is the last member is read.
Arrays(w, st, s, sep, ms) ==
    Len(st) >= 2 /\ st[2] = "[" =>
        IF Len(st) = 2 THEN Holds(From(w, s[2]), sep, ms[Len(ms)].items)
        ELSE HoldsOpen(From(w, s[2]), sep, ms[Len(ms)].items, s[3] - s[2] + 1, TypeOf(st[3]))

LEMMA MembersStay ==
    ASSUME NEW w \in Texts, NEW st, Len(st) # 1, NEW s, NEW sep,
           NEW ms, Finding(w, st, s, sep, ms),
           NEW w1, NEW sep1, Continues(w1, sep1, w, sep), NEW ms1, Deepened(ms1, ms),
           NEW st1, Len(st1) # 1, NEW s1, s1[2] = s[2]
    PROVE  Finding(w1, st1, s1, sep1, ms1)
<1> DEFINE n == Len(ms) - 1
<1>1. Len(ms) \in Nat \ {0} /\ Len(ms1) = Len(ms) BY DEF Deepened
<1>2. n \in Nat /\ Len(ms) = n + 1 /\ Len(ms1) = n + 1 BY ONLY <1>1
<1>3. \A i \in 1..n : ms1[i] = ms[i] BY DEF Deepened
<1>4. ms1[Len(ms)].key = ms[Len(ms)].key BY DEF Deepened
<1> HIDE DEF n
<1>5. ms1[n + 1].key = ms[n + 1].key BY <1>2, <1>4
<1>. QED BY <1>2, <1>3, <1>5, MemberStays

\* A value is written.
LEMMA FindsWritten ==
    ASSUME NEW w, NEW st, NEW k \in Nat \ {0}, k = Len(st), NEW s, NEW sep, NEW ms,
           Finds(w, st, s, sep, ms),
           NEW w1, NEW key, NEW body, NEW v, Added(w1, w, sep, st[k], key, body, v),
           Readable(body), NEW ms1, Remembers(ms1, ms, k, key, TypeOf(body[1])),
           k = 1 => SameAs([type |-> TypeOf(body[1]), text |-> body], ms1[Len(ms) + 1])
    PROVE  Finds(w1, st, s, <<",">>, ms1)
<1> SUFFICES ASSUME st[1] = "{" PROVE Finding(w1, st, s, <<",">>, ms1) BY DEF Finds
<1>1. Finding(w, st, s, sep, ms) BY DEF Finds
<1>2. w \in Texts /\ Continues(w1, <<",">>, w, sep) BY ItemContinues
<1>3. CASE k = 1
  <2>1. Gained(ms1, ms, key, TypeOf(body[1])) BY <1>3, Zenon DEF Remembers
  <2>2. MemberAdded(w1, w, sep, key, body, v) BY <1>3 DEF MemberAdded
  <2> DEFINE n == Len(ms)
  <2>3. n \in Nat /\ Len(ms1) = n + 1 /\ (\A i \in 1..n : ms1[i] = ms[i])
        /\ ms1[n + 1].key = key
    BY <2>1 DEF Gained
  <2>4. SameAs([type |-> TypeOf(body[1]), text |-> body], ms1[n + 1]) BY <1>3
  <2>5. Len(st) = 1 BY <1>3
  <2>6. n = Len(ms) OBVIOUS
  <2> HIDE DEF n
  <2>. QED BY ONLY <1>1, <2>2, <2>3, <2>4, <2>5, <2>6, Readable(body), MemberWritten
<1>4. CASE k # 1
  <2>1. Deepened(ms1, ms) BY <1>4, Zenon DEF Remembers
  <2>2. Len(st) # 1 BY <1>4
  <2>. QED BY ONLY <1>1, <1>2, <2>1, <2>2, MembersStay
<1>. QED BY <1>3, <1>4

\* A container is opened.
LEMMA FindsOpened ==
    ASSUME NEW w, NEW st \in Seq(Opening), NEW k \in Nat \ {0}, k = Len(st), NEW s, NEW sep,
           NEW ms, Finds(w, st, s, sep, ms), NEW w1, NEW key, NEW open \in Opening, NEW v,
           Added(w1, w, sep, st[k], key, <<open>>, v),
           NEW ms1, NEW type, Remembers(ms1, ms, k, key, type)
    PROVE  Finds(w1, Append(st, open), Deeper(s, k, v), <<>>, ms1)
<1> DEFINE st1 == Append(st, open)
           s1 == Deeper(s, k, v)
<1>0. Len(st1) = k + 1 /\ st1[1] = st[1]
  <2>1. 1 \in 1..Len(st) BY ONLY k \in Nat \ {0}, k = Len(st)
  <2>. QED BY <2>1, OneMoreOpen
<1>1. Len(st1) # 1 BY ONLY <1>0, k \in Nat \ {0}
<1>2. w \in Texts /\ Continues(w1, <<>>, w, sep) BY ItemContinues
<1> HIDE DEF st1
<1> SUFFICES ASSUME st1[1] = "{" PROVE Finding(w1, st1, s1, <<>>, ms1) BY DEF Finds, st1
<1>3. st[1] = "{" BY <1>0
<1>4. Finding(w, st, s, sep, ms) BY <1>3 DEF Finds
<1>5. CASE k = 1
  <2>1. Gained(ms1, ms, key, type) BY <1>5, Zenon DEF Remembers
  <2>2. MemberAdded(w1, w, sep, key, <<open>>, v) BY <1>3, <1>5 DEF MemberAdded
  <2> DEFINE n == Len(ms)
  <2>3. n \in Nat /\ Len(ms1) = n + 1 /\ (\A i \in 1..n : ms1[i] = ms[i])
        /\ ms1[n + 1].key = key
    BY <2>1 DEF Gained
  <2>4. s1[2] = v
    <3>1. 2 \in 1..k + 1 /\ 2 = k + 1 BY ONLY <1>5
    <3>. QED BY <3>1, Zenon DEF Deeper
  <2>5. Len(st) = 1 BY <1>5
  <2>6. Len(st1) = 2
    <3>1. Len(st1) = k + 1 BY <1>0
    <3>. QED BY ONLY <1>5, <3>1
  <2>7. n = Len(ms) OBVIOUS
  <2> HIDE DEF n, s1
  <2>. QED BY ONLY <1>4, <2>2, <2>3, <2>4, <2>5, <2>6, <2>7, MemberOpens
<1>6. CASE k # 1
  <2>1. Deepened(ms1, ms) BY <1>6, Zenon DEF Remembers
  <2>2. Len(st) # 1 BY <1>6
  <2>3. s1[2] = s[2]
    <3>1. 2 \in 1..k + 1 /\ 2 # k + 1 BY ONLY <1>6, k \in Nat \ {0}
    <3>. QED BY <3>1 DEF Deeper
  <2> HIDE DEF s1
  <2>. QED BY ONLY <1>1, <1>2, <1>4, <2>1, <2>2, <2>3, MembersStay
<1>. QED BY <1>5, <1>6

\* An element, or what is deeper, is written.
LEMMA ArraysWritten ==
    ASSUME NEW w, NEW st, NEW k \in Nat \ {0}, k = Len(st), NEW s, k >= 2 => s[2] \in 1..Len(w),
           NEW sep, NEW ms, Arrays(w, st, s, sep, ms),
           NEW w1, NEW key, NEW body, NEW v, Added(w1, w, sep, st[k], key, body, v),
           Readable(body), NEW ms1, Remembers(ms1, ms, k, key, TypeOf(body[1]))
    PROVE  Arrays(w1, st, s, <<",">>, ms1)
<1> SUFFICES ASSUME k >= 2, st[2] = "["
             PROVE  IF k = 2 THEN Holds(From(w1, s[2]), <<",">>, ms1[Len(ms1)].items)
                    ELSE HoldsOpen(From(w1, s[2]), <<",">>, ms1[Len(ms1)].items,
                                   s[3] - s[2] + 1, TypeOf(st[3]))
  BY DEF Arrays
<1> DEFINE q == s[2]
           r == v - q + 1
<1>1. q \in 1..Len(w) OBVIOUS
<1> HIDE DEF q
<1>2. Added(From(w1, q), From(w, q), sep, st[k], key, body, r) BY <1>1, AddedToTheEnd
<1>3. k # 1 BY ONLY k >= 2
<1>4. Deepened(ms1, ms) BY <1>3, Zenon DEF Remembers
<1>5. Len(ms1) = Len(ms) BY <1>4 DEF Deepened
<1> HIDE DEF r
<1>6. CASE k = 2
  <2>1. Holds(From(w, q), sep, ms[Len(ms)].items) BY <1>6 DEF Arrays, q
  <2>2. OneMoreItem(ms1[Len(ms)].items, ms[Len(ms)].items, TypeOf(body[1]))
    BY <1>3, <1>6, Zenon DEF Remembers
  <2>3. st[k] = "[" BY <1>6
  <2>4. key = NoKey
    <3>1. KeyFor("[", key) BY <1>2, <2>3 DEF Added
    <3>2. "[" # "{" OBVIOUS
    <3>. QED BY <3>1, <3>2, Zenon DEF KeyFor
  <2>5. ElementAdded(From(w1, q), From(w, q), sep, body, r)
    BY <1>2, <2>3, <2>4, Zenon DEF ElementAdded
  <2>6. Holds(From(w1, q), <<",">>, ms1[Len(ms)].items)
    BY ONLY <2>1, <2>2, <2>5, Readable(body), ElementWritten
  <2>. QED BY <1>5, <1>6, <2>6, Zenon DEF q
<1>7. CASE k # 2
  <2>1. HoldsOpen(From(w, q), sep, ms[Len(ms)].items, s[3] - s[2] + 1, TypeOf(st[3]))
    BY <1>7 DEF Arrays, q
  <2>2. ms1[Len(ms)].items = ms[Len(ms)].items BY <1>3, <1>7, Zenon DEF Remembers
  <2>3. Continues(From(w1, q), <<",">>, From(w, q), sep) BY ONLY <1>2, ItemContinues
  <2>4. HoldsOpen(From(w1, q), <<",">>, ms[Len(ms)].items, s[3] - s[2] + 1, TypeOf(st[3]))
    BY ONLY <2>1, <2>3, ElementStays
  <2>. QED BY <1>5, <1>7, <2>2, <2>4, Zenon DEF q
<1>. QED BY <1>6, <1>7
\* A container is opened in an array, or deeper, or is an array.
LEMMA ArraysOpened ==
    ASSUME NEW w, NEW st \in Seq(Opening), NEW k \in Nat \ {0}, k = Len(st),
           NEW s, k >= 2 => s[2] \in 1..Len(w),
           NEW sep, NEW ms, Arrays(w, st, s, sep, ms),
           NEW w1, NEW key, NEW open \in Opening, NEW v,
           Added(w1, w, sep, st[k], key, <<open>>, v),
           NEW ms1, Remembers(ms1, ms, k, key, TypeOf(open))
    PROVE  Arrays(w1, Append(st, open), Deeper(s, k, v), <<>>, ms1)
<1> DEFINE st1 == Append(st, open)
           s1 == Deeper(s, k, v)
<1>0. Len(st1) = k + 1 /\ (\A i \in 1..k : st1[i] = st[i]) /\ st1[k + 1] = open
  BY OneMoreOpen
<1>i. \A i \in 1..k : s1[i] = s[i]
  <2>1. \A i \in 1..k : i \in 1..k + 1 /\ i # k + 1 BY ONLY k \in Nat \ {0}
  <2>. QED BY <2>1 DEF Deeper
<1>v. s1[k + 1] = v
  <2>1. k + 1 \in 1..k + 1 BY ONLY k \in Nat \ {0}
  <2>. QED BY <2>1 DEF Deeper
<1> HIDE DEF st1, s1
<1> SUFFICES ASSUME st1[2] = "["
             PROVE  IF Len(st1) = 2 THEN Holds(From(w1, s1[2]), <<>>, ms1[Len(ms1)].items)
                    ELSE HoldsOpen(From(w1, s1[2]), <<>>, ms1[Len(ms1)].items,
                                   s1[3] - s1[2] + 1, TypeOf(st1[3]))
  BY DEF Arrays, st1, s1
<1>1. CASE k = 1
  <2>1. Len(st1) = 2
    <3>1. Len(st1) = k + 1 BY <1>0
    <3>. QED BY ONLY <1>1, <3>1
  <2>2. s1[2] = v
    <3>1. k + 1 = 2 BY ONLY <1>1
    <3>. QED BY <1>v, <3>1
  <2>3. Gained(ms1, ms, key, TypeOf(open)) BY <1>1, Zenon DEF Remembers
  <2>4. Len(ms1[Len(ms1)].items) = 0
    <3>1. Len(ms1) = Len(ms) + 1 /\ Len(ms1[Len(ms) + 1].items) = 0 BY <2>3 DEF Gained
    <3>. QED BY <3>1, Zenon
  <2>5. Lies(w1, v, <<open>>) /\ w1 \in Texts BY ValueIsBody, ItemContinues
  <2>6. v \in Nat \ {0} /\ v <= Len(w1) /\ Len(w1) + 1 = v + 1
    <3>1. Len(<<open>>) = 1 OBVIOUS
    <3>2. v \in Nat \ {0} /\ v <= Len(w1) /\ Len(w1) + 1 = v + Len(<<open>>)
      BY <2>5 DEF Lies
    <3>. QED BY <3>1, <3>2, Zenon
  <2>7. v \in 1..Len(w1) + 1 /\ Len(w1) + 1 - v = 1
    <3>1. Len(w1) \in Nat BY <2>5, TextIs
    <3>. QED BY ONLY <2>6, <3>1
  <2>8. Len(From(w1, v)) = 1
    <3>1. Len(From(w1, v)) = Len(w1) + 1 - v BY ONLY <2>5, <2>7, FromIs
    <3>. QED BY <2>7, <3>1, Zenon
  <2>9. Holds(From(w1, v), <<>>, ms1[Len(ms1)].items) BY ONLY <2>4, <2>8, ArrayOpens
  <2>. QED BY <2>1, <2>2, <2>9, Zenon
<1>2. CASE k # 1
  <2> DEFINE q == s[2]
             r == v - q + 1
  <2>1. k >= 2 BY ONLY <1>2, k \in Nat \ {0}
  <2>2. 2 \in 1..k BY ONLY <2>1, k \in Nat \ {0}
  <2>3. st[2] = "[" /\ s1[2] = q BY <1>0, <1>i, <2>2
  <2>4. q \in 1..Len(w) BY <2>1
  <2> HIDE DEF q
  <2>5. Added(From(w1, q), From(w, q), sep, st[k], key, <<open>>, r) BY <2>4, AddedToTheEnd
  <2>6. Deepened(ms1, ms) BY <1>2, Zenon DEF Remembers
  <2>7. Len(ms1) = Len(ms) BY <2>6 DEF Deepened
  <2>8. Len(st1) # 2
    <3>1. Len(st1) = k + 1 BY <1>0
    <3>. QED BY ONLY <2>1, <3>1, k \in Nat \ {0}
  <2>9. CASE k = 2
    <3>1. Holds(From(w, q), sep, ms[Len(ms)].items) BY <2>3, <2>9 DEF Arrays, q
    <3>2. OneMoreItem(ms1[Len(ms)].items, ms[Len(ms)].items, TypeOf(open))
      BY <1>2, <2>9, Zenon DEF Remembers
    <3>3. st[k] = "[" BY <2>3, <2>9
    <3>4. key = NoKey
      <4>1. KeyFor("[", key) BY <2>5, <3>3 DEF Added
      <4>2. "[" # "{" OBVIOUS
      <4>. QED BY <4>1, <4>2, Zenon DEF KeyFor
    <3>5. ElementAdded(From(w1, q), From(w, q), sep, <<open>>, r)
      BY <2>5, <3>3, <3>4, Zenon DEF ElementAdded
    <3>6. HoldsOpen(From(w1, q), <<>>, ms1[Len(ms)].items, r, TypeOf(open))
      BY ONLY <3>1, <3>2, <3>5, ElementOpens
    <3>7. st1[3] = open /\ s1[3] = v
      <4>1. k + 1 = 3 BY ONLY <2>9
      <4>. QED BY <1>0, <1>v, <4>1
    <3>8. HoldsOpen(From(w1, s1[2]), <<>>, ms1[Len(ms1)].items, s1[3] - s1[2] + 1,
                    TypeOf(st1[3]))
      BY <2>3, <2>7, <3>6, <3>7, Zenon DEF r
    <3>. QED BY <2>8, <3>8, Zenon
  <2>10. CASE k # 2
    <3>1. HoldsOpen(From(w, q), sep, ms[Len(ms)].items, s[3] - s[2] + 1, TypeOf(st[3]))
      BY <2>1, <2>3, <2>10 DEF Arrays, q
    <3>2. ms1[Len(ms)].items = ms[Len(ms)].items BY <1>2, <2>10, Zenon DEF Remembers
    <3>3. Continues(From(w1, q), <<>>, From(w, q), sep)
      <4> HIDE DEF r
      <4>. QED BY ONLY <2>5, ItemContinues
    <3>4. HoldsOpen(From(w1, q), <<>>, ms[Len(ms)].items, s[3] - s[2] + 1, TypeOf(st[3]))
      BY ONLY <3>1, <3>3, ElementStays
    <3>5. st1[3] = st[3] /\ s1[3] = s[3]
      <4>1. 3 \in 1..k BY ONLY <2>1, <2>10, k \in Nat \ {0}
      <4>. QED BY <1>0, <1>i, <4>1
    <3>6. s1[2] = s[2] BY <2>3 DEF q
    <3>7. HoldsOpen(From(w1, s1[2]), <<>>, ms1[Len(ms1)].items, s1[3] - s1[2] + 1,
                    TypeOf(st1[3]))
      BY <2>3, <2>7, <3>2, <3>4, <3>5, <3>6, Zenon
    <3>. QED BY <2>8, <3>7, Zenon
  <2>. QED BY <2>9, <2>10
<1>. QED BY <1>1, <1>2
\* A container under a key of the root is closed: it is what its member says.
LEMMA ContainerIsSame ==
    ASSUME NEW w \in Texts, NEW st \in Seq(Opening), NEW s, NEW sep, Reading(w, st, s, sep),
           Len(st) = 2, Opened(w, st, s), NEW ms, Arrays(w, st, s, sep, ms),
           NEW m, m = ms[Len(ms)], m.type = TypeOf(st[2]), Len(m.items) \in Nat,
           NEW w1, w1 = w \o <<Closing(st[Len(st)])>>
    PROVE  SameAs(Value(w1, s[2], Len(w1) + 1), m)
<1> DEFINE value == Value(w1, s[2], Len(w1) + 1)
<1>1. value.type = TypeOf(st[2])
  <2>1. Begins(w1, w) BY ClosingContinues DEF Continues
  <2>2. s[2] \in 1..Len(w) BY DEF Reading
  <2>3. w1[s[2]] = w[s[2]] BY <2>1, <2>2 DEF Begins
  <2>4. w[s[2]] = st[2]
    <3>1. 2 \in 1..Len(st) BY ONLY Len(st) = 2
    <3>. QED BY <3>1 DEF Opened
  <2>5. value.type = TypeOf(w1[s[2]]) BY DEF Value
  <2>. QED BY <2>3, <2>4, <2>5, Zenon
<1>2. st[2] = "{" \/ st[2] = "["
  <2>1. 2 \in 1..Len(st) BY ONLY Len(st) = 2
  <2>2. st[2] \in Opening BY ONLY st \in Seq(Opening), <2>1
  <2>. QED BY <2>2 DEF Opening
<1>3. st[2] = "{" => m.type # "string" /\ m.type # "array"
  <2>1. TypeOf("{") = "object" BY ONLY TRUE DEF TypeOf, Quote, Literals
  <2>. QED BY <2>1
<1>4. st[2] = "[" => m.type # "string"
  <2>1. TypeOf("[") = "array" BY ONLY TRUE DEF TypeOf, Quote, Literals
  <2>. QED BY <2>1
<1>5. CASE st[2] = "["
  <2>1. Holds(From(w, s[2]), sep, m.items)
    <3>1. Len(st) >= 2 BY ONLY Len(st) = 2
    <3>. QED BY <1>5, <3>1 DEF Arrays
  <2> DEFINE its == m.items
  <2>2. /\ value.type = "array" /\ ArrayLength(value) = Len(its)
        /\ \A i \in 1..Len(its) : ElementAt(value.text, 2, i).type = its[i]
    <3>1. Len(its) \in Nat /\ Holds(From(w, s[2]), sep, its) BY <2>1
    <3>2. value = Value(w1, s[2], Len(w1) + 1) OBVIOUS
    <3>3. w \in Texts /\ st \in Seq(Opening) /\ Len(st) = 2 OBVIOUS
    <3> HIDE DEF its, value
    <3>4. SecondIsArray(st) BY <1>5 DEF SecondIsArray
    <3>5. ReadsItems(value, its)
      BY ONLY <3>1, <3>2, <3>3, <3>4, Reading(w, st, s, sep), Opened(w, st, s),
              w1 = w \o <<Closing(st[Len(st)])>>, ArrayCloses
    <3>. QED BY <3>5, Zenon DEF ReadsItems
  <2>3. value.type = m.type BY <1>1, Zenon
  <2> HIDE DEF value
  <2>. QED BY <1>4, <1>5, <2>2, <2>3, Zenon DEF SameAs, value
<1>6. CASE st[2] = "{"
  <2>1. value.type = m.type BY <1>1, Zenon
  <2> HIDE DEF value
  <2>. QED BY <1>3, <1>6, <2>1, Zenon DEF SameAs, value
<1>. QED BY <1>2, <1>5, <1>6

LEMMA FindsClosed ==
    ASSUME NEW w \in Texts, NEW st \in Seq(Opening), NEW k \in Nat, k >= 2, k = Len(st),
           NEW s, NEW sep, Reading(w, st, s, sep), Opened(w, st, s),
           NEW ms, Finds(w, st, s, sep, ms), Arrays(w, st, s, sep, ms),
           Len(ms) \in Nat \ {0}, st[1] = "{" => ms[Len(ms)].key \in Texts,
           ms[Len(ms)].type = TypeOf(st[2]), Len(ms[Len(ms)].items) \in Nat,
           NEW w1, w1 = w \o <<Closing(st[Len(st)])>>,
           NEW st1, Len(st1) = k - 1, st1[1] = st[1]
    PROVE  Finds(w1, st1, s, <<",">>, ms)
<1> SUFFICES ASSUME st[1] = "{" PROVE Finding(w1, st1, s, <<",">>, ms) BY DEF Finds
<1>1. Finding(w, st, s, sep, ms) /\ ms[Len(ms)].key \in Texts BY DEF Finds
<1>2. Continues(w1, <<",">>, w, sep) BY ClosingContinues
<1>3. CASE k = 2
  <2> DEFINE n == Len(ms) - 1
             m == ms[Len(ms)]
  <2>1. n \in Nat /\ Len(ms) = n + 1 BY ONLY Len(ms) \in Nat \ {0}
  <2>2. Len(st) = 2 BY <1>3
  <2>3. Len(st1) = 1 BY ONLY Len(st1) = k - 1, <1>3
  <2>4. SameAs(Value(w1, s[2], Len(w1) + 1), m)
    <3>1. m = ms[Len(ms)] /\ m.type = TypeOf(st[2]) /\ Len(m.items) \in Nat OBVIOUS
    <3> HIDE DEF m
    <3>. QED BY <2>2, <3>1, ContainerIsSame
  <2> HIDE DEF n
  <2>5. ms[n + 1].key \in Texts /\ SameAs(Value(w1, s[2], Len(w1) + 1), ms[n + 1])
    BY <1>1, <2>1, <2>4
  <2>6. w \in Texts /\ st \in Seq(Opening) /\ Reading(w, st, s, sep)
        /\ w1 = w \o <<Closing(st[Len(st)])>>
    OBVIOUS
  <2>. QED BY ONLY <1>1, <2>1, <2>2, <2>3, <2>5, <2>6, MemberCloses
<1>4. CASE k # 2
  <2>1. Deepened(ms, ms) BY DEF Deepened
  <2>2. Len(st) # 1 /\ Len(st1) # 1 BY ONLY <1>4, k \in Nat, k >= 2, k = Len(st), Len(st1) = k - 1
  <2>. QED BY ONLY w \in Texts, <1>1, <1>2, <2>1, <2>2, MembersStay
<1>. QED BY <1>3, <1>4

LEMMA ArraysClosed ==
    ASSUME NEW w \in Texts, NEW st \in Seq(Opening), NEW k \in Nat, k >= 2, k = Len(st),
           NEW s, NEW sep, Reading(w, st, s, sep), Opened(w, st, s),
           NEW ms, Arrays(w, st, s, sep, ms), Len(ms[Len(ms)].items) \in Nat,
           NEW w1, w1 = w \o <<Closing(st[Len(st)])>>,
           NEW st1, Len(st1) = k - 1, \A i \in 1..k - 1 : st1[i] = st[i]
    PROVE  Arrays(w1, st1, s, <<",">>, ms)
<1> DEFINE q == s[2]
           its == ms[Len(ms)].items
<1> SUFFICES ASSUME Len(st1) >= 2, st1[2] = "["
             PROVE  IF Len(st1) = 2 THEN Holds(From(w1, q), <<",">>, its)
                    ELSE HoldsOpen(From(w1, q), <<",">>, its, s[3] - q + 1, TypeOf(st1[3]))
  BY DEF Arrays
<1>1. k >= 3 /\ 2 \in 1..k - 1 /\ k # 2 BY ONLY k \in Nat, Len(st1) = k - 1, Len(st1) >= 2
<1>2. st[2] = "[" BY <1>1
<1>3. q \in 1..Len(w)
  <2>1. 2 \in 1..Len(st) BY ONLY <1>1, k = Len(st), k \in Nat
  <2>. QED BY <2>1 DEF Reading
<1>4. HoldsOpen(From(w, q), sep, its, s[3] - q + 1, TypeOf(st[3])) BY <1>1, <1>2 DEF Arrays
<1>5. CASE k = 3
  <2>1. Len(st) = 3 /\ Len(st1) = 2 BY ONLY <1>5, k = Len(st), Len(st1) = k - 1
  <2> DEFINE n == Len(its) - 1
  <2>2. n \in Nat /\ Len(its) = n + 1
    <3>1. Len(its) > 0 BY <1>4 DEF HoldsOpen
    <3>2. Len(its) \in Nat OBVIOUS
    <3> HIDE DEF its
    <3>. QED BY ONLY <3>1, <3>2
  <2>3. HoldsOpen(From(w, s[2]), sep, its, s[3] - s[2] + 1, TypeOf(st[3])) BY <1>4
  <2> HIDE DEF n, its
  <2>4. Holds(From(w1, s[2]), <<",">>, its) BY <2>1, <2>2, <2>3, ElementCloses
  <2>. QED BY <2>1, <2>4
<1>6. CASE k # 3
  <2>1. Len(st1) # 2 /\ 3 \in 1..k - 1 BY ONLY <1>1, <1>6, Len(st1) = k - 1, k \in Nat
  <2>2. st1[3] = st[3] BY <2>1
  <2>3. st[Len(st)] \in Opening
    <3>1. Len(st) \in 1..Len(st) BY ONLY <1>1, k = Len(st), k \in Nat
    <3>. QED BY ONLY <3>1, st \in Seq(Opening)
  <2> HIDE DEF q, its
  <2>4. Continues(From(w1, q), <<",">>, From(w, q), sep) BY <1>3, <2>3, ClosedAtTheEnd
  <2>5. HoldsOpen(From(w1, q), <<",">>, its, s[3] - q + 1, TypeOf(st[3]))
    BY ONLY <1>4, <2>4, ElementStays
  <2>. QED BY <2>1, <2>2, <2>5, Zenon
<1>. QED BY <1>5, <1>6
\* A document while it is written.
Inside(w, st, s, sep, ms) ==
    /\ Reading(w, st, s, sep) /\ Opened(w, st, s)
    /\ Finds(w, st, s, sep, ms) /\ Arrays(w, st, s, sep, ms)
    /\ \A i \in 1..Len(ms) : KeyFor(st[1], ms[i].key)
    /\ Len(st) >= 2 => Len(ms) > 0 /\ ms[Len(ms)].type = TypeOf(st[2])

LEMMA KeysKept ==
    ASSUME NEW c, NEW ms, \A i \in 1..Len(ms) : KeyFor(c, ms[i].key),
           NEW ms1, NEW k, NEW key, NEW type, Remembers(ms1, ms, k, key, type),
           k = 1 => KeyFor(c, key)
    PROVE  \A i \in 1..Len(ms1) : KeyFor(c, ms1[i].key)
<1>1. CASE k = 1
  <2>1. Gained(ms1, ms, key, type) BY <1>1, Zenon DEF Remembers
  <2>2. Len(ms) \in Nat /\ Len(ms1) = Len(ms) + 1 /\ (\A i \in 1..Len(ms) : ms1[i] = ms[i])
        /\ ms1[Len(ms) + 1].key = key
    BY <2>1 DEF Gained
  <2> SUFFICES ASSUME NEW i \in 1..Len(ms1) PROVE KeyFor(c, ms1[i].key) OBVIOUS
  <2>3. i \in 1..Len(ms) \/ i = Len(ms) + 1 BY ONLY <2>2, i \in 1..Len(ms1)
  <2>. QED BY <1>1, <2>2, <2>3, Zenon
<1>2. CASE k # 1
  <2>1. Deepened(ms1, ms) BY <1>2, Zenon DEF Remembers
  <2>2. Len(ms) \in Nat \ {0} /\ Len(ms1) = Len(ms)
        /\ (\A i \in 1..Len(ms) - 1 : ms1[i] = ms[i])
        /\ ms1[Len(ms)].key = ms[Len(ms)].key
    BY <2>1 DEF Deepened
  <2> SUFFICES ASSUME NEW i \in 1..Len(ms1) PROVE KeyFor(c, ms1[i].key) OBVIOUS
  <2>3. (i \in 1..Len(ms) - 1 \/ i = Len(ms)) /\ i \in 1..Len(ms)
    BY ONLY <2>2, i \in 1..Len(ms1)
  <2>. QED BY <2>2, <2>3, Zenon
<1>. QED BY <1>1, <1>2

LEMMA TypesKept ==
    ASSUME NEW ms, NEW ms1, NEW k \in Nat, k >= 2, NEW key, NEW type,
           Remembers(ms1, ms, k, key, type), NEW t, ms[Len(ms)].type = t
    PROVE  Len(ms1) > 0 /\ ms1[Len(ms1)].type = t
<1>1. k # 1 BY ONLY k \in Nat, k >= 2
<1>2. Deepened(ms1, ms) BY <1>1, Zenon DEF Remembers
<1>3. Len(ms1) = Len(ms) /\ ms1[Len(ms)].type = ms[Len(ms)].type /\ Len(ms) \in Nat \ {0}
  BY <1>2 DEF Deepened
<1>4. Len(ms1) > 0 BY ONLY <1>3
<1>. QED BY <1>3, <1>4, Zenon

\* What was opened stays where it was.
LEMMA StaysOpened ==
    ASSUME NEW w, NEW st, NEW s, NEW sep, Reading(w, st, s, sep), Opened(w, st, s),
           NEW w1, Begins(w1, w)
    PROVE  \A i \in 1..Len(st) : w1[s[i]] = st[i]
BY DEF Reading, Opened, Begins

LEMMA InsideRoot ==
    ASSUME NEW open \in Opening, NEW ms, Len(ms) = 0
    PROVE  \E s : Inside(<<open>>, <<open>>, s, <<>>, ms)
<1> DEFINE s == [i \in {1} |-> 1]
           w == <<open>>
<1>1. Reading(w, w, s, <<>>) BY RootOpened
<1>2. s[1] = 1 /\ Len(w) = 1 /\ w[1] = open OBVIOUS
<1> HIDE DEF s, w
<1>l. Len(w) = 1 BY <1>2
<1>3. Opened(w, w, s)
  <2> SUFFICES ASSUME NEW i \in 1..Len(w) PROVE w[s[i]] = w[i] BY DEF Opened
  <2>1. i = 1 BY ONLY <1>l, i \in 1..Len(w)
  <2>. QED BY <1>2, <2>1
<1>4. Finds(w, w, s, <<>>, ms) BY <1>l, RootFinds DEF Finds
<1>5. ~(Len(w) >= 2) BY ONLY <1>l
<1>6. Arrays(w, w, s, <<>>, ms) BY <1>5, Zenon DEF Arrays
<1>7. \A i \in 1..Len(ms) : KeyFor(w[1], ms[i].key) BY ONLY Len(ms) = 0
<1>8. Inside(w, w, s, <<>>, ms) BY <1>1, <1>3, <1>4, <1>5, <1>6, <1>7, Zenon DEF Inside
<1>. QED BY <1>8, Zenon DEF w

LEMMA InsideWritten ==
    ASSUME NEW w \in Texts, NEW st \in Seq(Opening), NEW k \in Nat \ {0}, k = Len(st), NEW s,
           NEW sep \in Separators, NEW ms, Inside(w, st, s, sep, ms),
           NEW key, KeyFor(st[k], key), NEW body, Readable(body),
           NEW w1, w1 = w \o Item(sep, key, body),
           NEW ms1, Remembers(ms1, ms, k, key, TypeOf(body[1])),
           k = 1 => SameAs([type |-> TypeOf(body[1]), text |-> body], ms1[Len(ms) + 1])
    PROVE  Inside(w1, st, s, <<",">>, ms1)
<1> DEFINE v == Len(w) + 1 + Len(sep) + Len(NameOf(key))
<1>1. Reading(w, st, s, sep) /\ Opened(w, st, s) /\ Finds(w, st, s, sep, ms)
      /\ Arrays(w, st, s, sep, ms) /\ \A i \in 1..Len(ms) : KeyFor(st[1], ms[i].key)
  BY DEF Inside
<1>2. st[k] \in Opening /\ body \in Texts /\ Len(body) > 0
  <2>1. k \in 1..Len(st) BY ONLY k \in Nat \ {0}, k = Len(st)
  <2>. QED BY <2>1 DEF Readable
<1>3. Added(w1, w, sep, st[k], key, body, v) BY <1>2 DEF Added
<1> HIDE DEF v
<1>4. Reading(w1, st, s, <<",">>) BY <1>1, ValueWritten
<1>5. Opened(w1, st, s)
  <2>1. Begins(w1, w)
    <3>1. Continues(w1, sep, w, sep) BY ONLY <1>3, ItemContinues
    <3>. QED BY <3>1 DEF Continues
  <2>2. \A i \in 1..Len(st) : w1[s[i]] = st[i] BY ONLY <1>1, <2>1, StaysOpened
  <2>. QED BY <2>2 DEF Opened
<1>6. Finds(w1, st, s, <<",">>, ms1)
  BY ONLY k \in Nat \ {0}, k = Len(st), <1>1, <1>3, Readable(body),
          Remembers(ms1, ms, k, key, TypeOf(body[1])),
          k = 1 => SameAs([type |-> TypeOf(body[1]), text |-> body], ms1[Len(ms) + 1]),
          FindsWritten
<1>7. Arrays(w1, st, s, <<",">>, ms1)
  <2>1. k >= 2 => s[2] \in 1..Len(w)
    <3>1. k >= 2 => 2 \in 1..Len(st) BY ONLY k \in Nat \ {0}, k = Len(st)
    <3>. QED BY <1>1, <3>1 DEF Reading
  <2>. QED BY ONLY k \in Nat \ {0}, k = Len(st), <1>1, <1>3, <2>1, Readable(body),
          Remembers(ms1, ms, k, key, TypeOf(body[1])), ArraysWritten
<1>8. \A i \in 1..Len(ms1) : KeyFor(st[1], ms1[i].key)
  <2>1. k = 1 => KeyFor(st[1], key) OBVIOUS
  <2>. QED BY ONLY <1>1, <2>1, Remembers(ms1, ms, k, key, TypeOf(body[1])), KeysKept
<1>9. Len(st) >= 2 => Len(ms1) > 0 /\ ms1[Len(ms1)].type = TypeOf(st[2])
  <2> SUFFICES ASSUME Len(st) >= 2 PROVE Len(ms1) > 0 /\ ms1[Len(ms1)].type = TypeOf(st[2])
    OBVIOUS
  <2>1. ms[Len(ms)].type = TypeOf(st[2]) BY DEF Inside
  <2>2. k \in Nat /\ k >= 2 BY ONLY k \in Nat \ {0}, k = Len(st), Len(st) >= 2
  <2>. QED BY ONLY <2>1, <2>2, Remembers(ms1, ms, k, key, TypeOf(body[1])), TypesKept
<1>. QED BY <1>4, <1>5, <1>6, <1>7, <1>8, <1>9, Zenon DEF Inside
LEMMA InsideOpened ==
    ASSUME NEW w \in Texts, NEW st \in Seq(Opening), NEW k \in Nat \ {0}, k = Len(st),
           k < MaxJsonDepth, NEW s,
           NEW sep \in Separators, NEW ms, Inside(w, st, s, sep, ms),
           NEW key, KeyFor(st[k], key), NEW open \in Opening,
           NEW w1, w1 = w \o Item(sep, key, <<open>>),
           NEW ms1, Remembers(ms1, ms, k, key, TypeOf(open))
    PROVE  \E s1 : Inside(w1, Append(st, open), s1, <<>>, ms1)
<1> DEFINE v == Len(w) + 1 + Len(sep) + Len(NameOf(key))
           st1 == Append(st, open)
           s1 == Deeper(s, k, v)
<1>1. Reading(w, st, s, sep) /\ Opened(w, st, s) /\ Finds(w, st, s, sep, ms)
      /\ Arrays(w, st, s, sep, ms) /\ \A i \in 1..Len(ms) : KeyFor(st[1], ms[i].key)
  BY DEF Inside
<1>2. st[k] \in Opening /\ <<open>> \in Texts /\ Len(<<open>>) > 0 /\ <<open>>[1] = open
  <2>1. k \in 1..Len(st) BY ONLY k \in Nat \ {0}, k = Len(st)
  <2>2. open \in Characters BY SignsAreCharacters
  <2>. QED BY <2>1, <2>2, OneCharacter
<1>3. Added(w1, w, sep, st[k], key, <<open>>, v) BY <1>2 DEF Added
<1>4. Reading(w1, st1, s1, <<>>)
  <2>1. Len(st) < MaxJsonDepth /\ KeyFor(st[Len(st)], key) OBVIOUS
  <2>2. Reading(w \o Item(sep, key, <<open>>), Append(st, open), Deeper(s, Len(st), v), <<>>)
    BY <1>1, <2>1, ContainerOpened
  <2>. QED BY <2>2, Zenon
<1> HIDE DEF v
<1>5. Len(st1) = k + 1 /\ (\A i \in 1..k : st1[i] = st[i]) /\ st1[k + 1] = open
  BY OneMoreOpen
<1>6. (\A i \in 1..k : s1[i] = s[i]) /\ s1[k + 1] = v
  <2>1. (\A i \in 1..k : i \in 1..k + 1 /\ i # k + 1) /\ k + 1 \in 1..k + 1
    BY ONLY k \in Nat \ {0}
  <2>. QED BY <2>1 DEF Deeper
<1>7. Opened(w1, st1, s1)
  <2> HIDE DEF s1, st1
  <2>1. Begins(w1, w)
    <3>1. Continues(w1, sep, w, sep) BY ONLY <1>3, ItemContinues
    <3>. QED BY <3>1 DEF Continues
  <2>2. \A i \in 1..Len(st) : w1[s[i]] = st[i] BY ONLY <1>1, <2>1, StaysOpened
  <2>3. w1[v] = open
    <3>1. Lies(w1, v, <<open>>) BY ONLY <1>3, ValueIsBody
    <3>2. w1 \in Texts BY ONLY <1>3, ItemContinues
    <3>3. Begins(w1, w1) BY <3>2, WholeText
    <3>4. At(w1, v) = open /\ v \in Nat \ {0} /\ v <= Len(w1) BY <1>2, <3>1, <3>3 DEF Lies
    <3>5. v \in 1..Len(w1)
      <4>1. Len(w1) \in Nat BY <3>2, TextIs
      <4>. QED BY ONLY <3>4, <4>1
    <3>. QED BY <3>4, <3>5, Zenon DEF At
  <2> SUFFICES ASSUME NEW i \in 1..Len(st1) PROVE w1[s1[i]] = st1[i] BY DEF Opened
  <2>4. i \in 1..k \/ i = k + 1
    <3>1. Len(st1) = k + 1 BY <1>5
    <3>. QED BY ONLY <3>1, k \in Nat \ {0}, i \in 1..Len(st1)
  <2>5. CASE i \in 1..k BY <1>5, <1>6, <2>2, <2>5
  <2>6. CASE i = k + 1 BY <1>5, <1>6, <2>3, <2>6
  <2>. QED BY <2>4, <2>5, <2>6
<1>8. Finds(w1, st1, s1, <<>>, ms1)
  BY ONLY st \in Seq(Opening), k \in Nat \ {0}, k = Len(st), open \in Opening, <1>1, <1>3,
          Remembers(ms1, ms, k, key, TypeOf(open)), FindsOpened
<1>9. Arrays(w1, st1, s1, <<>>, ms1)
  <2>1. k >= 2 => s[2] \in 1..Len(w)
    <3>1. k >= 2 => 2 \in 1..Len(st) BY ONLY k \in Nat \ {0}, k = Len(st)
    <3>. QED BY <1>1, <3>1 DEF Reading
  <2>. QED
    BY ONLY st \in Seq(Opening), k \in Nat \ {0}, k = Len(st), open \in Opening, <1>1, <1>3,
            <2>1, Remembers(ms1, ms, k, key, TypeOf(open)), ArraysOpened
<1> HIDE DEF st1, s1
<1>10. \A i \in 1..Len(ms1) : KeyFor(st1[1], ms1[i].key)
  <2>1. k = 1 => KeyFor(st[1], key) OBVIOUS
  <2>2. \A i \in 1..Len(ms1) : KeyFor(st[1], ms1[i].key)
    BY ONLY <1>1, <2>1, Remembers(ms1, ms, k, key, TypeOf(open)), KeysKept
  <2>3. 1 \in 1..k BY ONLY k \in Nat \ {0}
  <2>4. st1[1] = st[1] BY <1>5, <2>3
  <2>. QED BY <2>2, <2>4
<1>11. Len(ms1) > 0 /\ ms1[Len(ms1)].type = TypeOf(st1[2])
  <2>1. CASE k = 1
    <3>1. Gained(ms1, ms, key, TypeOf(open)) BY <2>1, Zenon DEF Remembers
    <3>2. Len(ms) \in Nat /\ Len(ms1) = Len(ms) + 1 /\ ms1[Len(ms) + 1].type = TypeOf(open)
      BY <3>1 DEF Gained
    <3>3. Len(ms1) > 0 BY ONLY <3>2
    <3>4. k + 1 = 2 BY ONLY <2>1
    <3>. QED BY <1>5, <3>2, <3>3, <3>4, Zenon
  <2>2. CASE k # 1
    <3>1. k \in Nat /\ k >= 2 /\ Len(st) >= 2 /\ 2 \in 1..k
      BY ONLY <2>2, k \in Nat \ {0}, k = Len(st)
    <3>2. ms[Len(ms)].type = TypeOf(st[2]) BY <3>1 DEF Inside
    <3>3. Len(ms1) > 0 /\ ms1[Len(ms1)].type = TypeOf(st[2])
      BY ONLY <3>1, <3>2, Remembers(ms1, ms, k, key, TypeOf(open)), TypesKept
    <3>4. st1[2] = st[2] BY <1>5, <3>1
    <3>. QED BY <3>3, <3>4, Zenon
  <2>. QED BY <2>1, <2>2
<1>. QED BY <1>4, <1>7, <1>8, <1>9, <1>10, <1>11, Zenon DEF Inside, st1

LEMMA InsideClosed ==
    ASSUME NEW w \in Texts, NEW st \in Seq(Opening), NEW k \in Nat, k >= 2, k = Len(st),
           NEW s, NEW sep, NEW ms, Inside(w, st, s, sep, ms),
           Len(ms) \in Nat, Len(ms[Len(ms)].items) \in Nat,
           NEW w1, w1 = w \o <<Closing(st[Len(st)])>>,
           NEW st1, st1 = SubSeq(st, 1, Len(st) - 1)
    PROVE  Inside(w1, st1, s, <<",">>, ms)
<1>1. Reading(w, st, s, sep) /\ Opened(w, st, s) /\ Finds(w, st, s, sep, ms)
      /\ Arrays(w, st, s, sep, ms) /\ \A i \in 1..Len(ms) : KeyFor(st[1], ms[i].key)
  BY DEF Inside
<1>2. Len(ms) > 0 /\ ms[Len(ms)].type = TypeOf(st[2])
  <2>1. Len(st) >= 2 OBVIOUS
  <2>. QED BY <2>1 DEF Inside
<1>3. Len(st) > 0 /\ Len(st) > 1 /\ 1 \in 1..k - 1 /\ Len(st) - 1 = k - 1
  BY ONLY k \in Nat, k >= 2, k = Len(st)
<1>4. Len(st1) = k - 1 /\ \A i \in 1..k - 1 : st1[i] = st[i] BY <1>3, OneFewerOpen
<1>5. Reading(w1, st1, s, <<",">>) BY <1>1, <1>3, ContainerClosed
<1>6. Begins(w1, w) BY <1>1, ClosingContinues DEF Continues
<1>7. Opened(w1, st1, s)
  <2>1. \A i \in 1..Len(st) : w1[s[i]] = st[i] BY ONLY <1>1, <1>6, StaysOpened
  <2>2. \A i \in 1..Len(st1) : i \in 1..Len(st) /\ i \in 1..k - 1
    <3>1. Len(st1) = k - 1 BY <1>4
    <3>. QED BY ONLY <3>1, k \in Nat, k >= 2, k = Len(st)
  <2>. QED BY <1>4, <2>1, <2>2 DEF Opened
<1>8. st1[1] = st[1] BY <1>3, <1>4
<1>9. Finds(w1, st1, s, <<",">>, ms)
  <2>1. Len(ms) \in Nat \ {0} /\ Len(ms) \in 1..Len(ms) BY ONLY <1>2, Len(ms) \in Nat
  <2>2. st[1] = "{" => ms[Len(ms)].key \in Texts BY <1>1, <2>1 DEF KeyFor
  <2>3. Len(st1) = k - 1 BY <1>4
  <2>4. ms[Len(ms)].type = TypeOf(st[2]) BY <1>2
  <2>. QED BY <1>1, <1>8, <2>1, <2>2, <2>3, <2>4, FindsClosed
<1>10. Arrays(w1, st1, s, <<",">>, ms) BY <1>1, <1>4, ArraysClosed
<1>11. \A i \in 1..Len(ms) : KeyFor(st1[1], ms[i].key) BY <1>1, <1>8
<1>12. Len(st1) >= 2 => Len(ms) > 0 /\ ms[Len(ms)].type = TypeOf(st1[2])
  <2> SUFFICES ASSUME Len(st1) >= 2 PROVE ms[Len(ms)].type = TypeOf(st1[2]) BY <1>2
  <2>1. 2 \in 1..k - 1
    <3>1. Len(st1) = k - 1 BY <1>4
    <3>. QED BY ONLY <3>1, Len(st1) >= 2, k \in Nat
  <2>2. st1[2] = st[2] BY <1>4, <2>1
  <2>. QED BY <1>2, <2>2
<1>. QED BY <1>5, <1>7, <1>9, <1>10, <1>11, <1>12, Zenon DEF Inside
FirstOf(ms, key) == CHOOSE i \in 1..Len(ms) :
                       ms[i].key = key /\ \A j \in 1..i - 1 : ms[j].key # key

\* The document y is read as its members were written, and no beginning of it is.
ReadsBack(y, ms) ==
    /\ Valid(y)
    /\ \A key \in JsonKeys :
         /\ IF key \in {ms[i].key : i \in 1..Len(ms)}
              THEN SameAs(Find(y, key), ms[FirstOf(ms, key)])
            ELSE Find(y, key) = NoValue
         /\ \A n \in 0..Len(y) - 1 : Find(SubSeq(y, 1, n), key) = NoValue

LEMMA FirstIs ==
    ASSUME NEW ms, Len(ms) \in Nat, NEW key, key \in {ms[i].key : i \in 1..Len(ms)}
    PROVE  /\ FirstOf(ms, key) \in 1..Len(ms) /\ ms[FirstOf(ms, key)].key = key
           /\ NotAmong(ms, FirstOf(ms, key) - 1, key)
<1> DEFINE S == {i \in 1..Len(ms) : ms[i].key = key}
<1>1. S \in SUBSET Nat /\ S # {} OBVIOUS
<1>2. PICK i \in S : \A j \in S : i <= j
  <2> HIDE DEF S
  <2>. QED BY <1>1, LeastPosition
<1>3. \A j \in 1..i - 1 : ms[j].key # key
  <2> SUFFICES ASSUME NEW j \in 1..i - 1, ms[j].key = key PROVE FALSE OBVIOUS
  <2>1. j \in 1..Len(ms) /\ j < i BY <1>2
  <2>2. j \in S BY <2>1
  <2>. QED BY <1>2, <2>1, <2>2
<1>4. \E n \in 1..Len(ms) : ms[n].key = key /\ \A j \in 1..n - 1 : ms[j].key # key
  BY <1>2, <1>3
<1>. QED BY <1>4, Zenon DEF FirstOf, NotAmong

\* A member, or nothing, where something else than a key is.
LEMMA FoundNowhere ==
    ASSUME NEW t \in Texts, NEW q \in Nat, At(t, q) = "}", NEW key
    PROVE  FindFrom(t, q, key) = NoValue /\ ~More(t, q)
<1>1. SkipString(t, q) = 0
  <2>1. "}" # Quote BY DEF Quote
  <2>. QED BY <2>1, Zenon DEF SkipString
<1>2. FindFrom(t, q, key) =
         IF SkipString(t, q) = 0 \/ At(t, SkipString(t, q)) # ":"
              \/ SkipValue(t, SkipString(t, q) + 1, 1) = 0 THEN NoValue
         ELSE IF Unescaped(SubSeq(t, q + 1, SkipString(t, q) - 2)) = key
           THEN Value(t, SkipString(t, q) + 1, SkipValue(t, SkipString(t, q) + 1, 1))
         ELSE IF At(t, SkipValue(t, SkipString(t, q) + 1, 1)) # "," THEN NoValue
         ELSE FindFrom(t, SkipValue(t, SkipString(t, q) + 1, 1) + 1, key)
  BY FindFromIs
<1>3. "}" # "," OBVIOUS
<1>. QED BY <1>1, <1>2, <1>3, Zenon DEF More

\* The root is closed.
LEMMA DocumentReadsBack ==
    ASSUME NEW w \in Texts, NEW st \in Seq(Opening), NEW s, NEW sep \in Separators, NEW ms,
           Inside(w, st, s, sep, ms), Len(st) = 1, Len(ms) \in Nat,
           NEW y, y = w \o <<Closing(st[Len(st)])>>
    PROVE  ReadsBack(y, ms)
<1>1. Reading(w, st, s, sep) /\ Opened(w, st, s) /\ Finds(w, st, s, sep, ms)
      /\ \A i \in 1..Len(ms) : KeyFor(st[1], ms[i].key)
  BY DEF Inside
<1>2. /\ y \in Texts /\ Len(y) = Len(w) + 1 /\ Begins(y, w)
      /\ Valid(y) /\ SkipValue(y, 1, 0) # 0
      /\ \A n \in 0..Len(y) - 1 : SkipValue(SubSeq(y, 1, n), 1, 0) = 0
  <2>1. y = w \o <<Closing(st[1])>> BY Zenon
  <2>2. IsDocument(y, w) BY <1>1, <2>1, RootClosed
  <2>. QED BY <2>2 DEF IsDocument
<1>3. Len(w) \in Nat BY TextIs
<1>4. 1 \in 1..Len(st) BY ONLY Len(st) = 1
<1>5. st[1] \in Opening BY ONLY st \in Seq(Opening), <1>4
<1>6. At(y, 1) = st[1]
  <2>1. s[1] = 1 /\ 1 \in 1..Len(w) BY <1>1, <1>4 DEF Reading
  <2>2. w[1] = st[1] BY <1>1, <1>4, <2>1 DEF Opened
  <2>3. y[1] = w[1] BY <1>2, <2>1 DEF Begins
  <2>4. 1 \in 1..Len(y)
    <3>1. Len(y) = Len(w) + 1 BY <1>2
    <3>. QED BY ONLY <1>3, <3>1
  <2>. QED BY <2>2, <2>3, <2>4, Zenon DEF At
<1>7. ASSUME NEW key \in JsonKeys, NEW n \in 0..Len(y) - 1
      PROVE  Find(SubSeq(y, 1, n), key) = NoValue
  BY <1>2, Zenon DEF Find
<1>8. CASE st[1] = "["
  <2>1. ASSUME NEW key \in JsonKeys PROVE Find(y, key) = NoValue
    <3>1. "[" # "{" OBVIOUS
    <3>. QED BY <1>6, <1>8, <3>1, Zenon DEF Find
  <2>2. ASSUME NEW key \in JsonKeys PROVE key \notin {ms[i].key : i \in 1..Len(ms)}
    <3>1. key # NoKey BY JsonAssumption
    <3>2. \A i \in 1..Len(ms) : ms[i].key = NoKey BY <1>1, <1>8 DEF KeyFor
    <3>. QED BY <3>1, <3>2
  <2>. QED BY <1>2, <1>7, <2>1, <2>2, Zenon DEF ReadsBack
<1>9. CASE st[1] = "{"
  <2>0. Finding(w, st, s, sep, ms) BY <1>1, <1>9, Zenon DEF Finds
  <2>1. At(y, Len(w) + 1) = "}"
    <3>1. Closing(st[Len(st)]) = "}" BY <1>9 DEF Closing
    <3>2. y[Len(w) + 1] = "}"
      <4> DEFINE x == <<Closing(st[Len(st)])>>
      <4>1. st[Len(st)] \in Opening BY ONLY Len(st) = 1, <1>5
      <4>2. x \in Texts /\ 1 \in 1..Len(x) /\ x[1] = "}"
        <5>1. x \in Texts /\ Len(x) = 1 BY ONLY <4>1, ClosingIs
        <5>2. x[1] = Closing(st[Len(st)]) BY ONLY <4>1, ClosingIs
        <5> HIDE DEF x
        <5>3. 1 \in 1..Len(x) BY ONLY <5>1
        <5>. QED BY <3>1, <5>1, <5>2, <5>3, Zenon
      <4>3. y = w \o x OBVIOUS
      <4> HIDE DEF x
      <4>4. (w \o x)[Len(w) + 1] = x[1] BY ONLY w \in Texts, <4>2, TextsJoined
      <4>. QED BY <4>2, <4>3, <4>4, Zenon
    <3>3. Len(w) + 1 \in 1..Len(y)
      <4>1. Len(y) = Len(w) + 1 BY <1>2
      <4>. QED BY ONLY <1>3, <4>1
    <3>. QED BY <3>2, <3>3, Zenon DEF At
  <2>2. Follows(y, w, sep)
    <3>1. Continues(y, sep, w, sep) BY <1>1, ClosingContinues
    <3>2. Follows(y, y, sep) BY <1>2, WholeText
    <3>. QED BY <3>1, <3>2 DEF Continues
  <2>3. ASSUME NEW key \in JsonKeys PROVE Find(y, key) = FindFrom(y, 2, key)
    <3>1. CASE At(y, 2) = "}"
      <4>1. FindFrom(y, 2, key) = NoValue BY <1>2, <3>1, FoundNowhere
      <4>. QED BY <3>1, <4>1, Zenon DEF Find
    <3>2. CASE At(y, 2) # "}" BY <1>2, <1>6, <1>9, <3>2, Zenon DEF Find
    <3>. QED BY <3>1, <3>2
  <2>4. ASSUME NEW key \in JsonKeys, key \in {ms[i].key : i \in 1..Len(ms)}
        PROVE  SameAs(Find(y, key), ms[FirstOf(ms, key)])
    <3> DEFINE i == FirstOf(ms, key)
    <3>1. i \in 1..Len(ms) /\ ms[i].key = key /\ NotAmong(ms, i - 1, key) BY <2>4, FirstIs
    <3> HIDE DEF i
    <3>2. FoundSo(w, sep, ms, Len(ms)) BY <2>0 DEF Finding
    <3>3. ReadsAs(w, sep, ms[i]) BY <3>1, <3>2 DEF FoundSo
    <3>4. PICK v \in Nat \ {0}, e \in Nat \ {0} :
            /\ v < e /\ e <= Len(w) + 1 /\ SameAs(Value(w, v, e), ms[i])
            /\ \A t : Follows(t, w, sep) => FindFrom(t, 2, ms[i].key) = Value(t, v, e)
      BY <3>3 DEF ReadsAs
    <3>5. Find(y, key) = Value(y, v, e) BY <2>2, <2>3, <3>1, <3>4
    <3>6. Value(y, v, e) = Value(w, v, e) BY <1>2, <3>4, ValueStays
    <3>7. SameAs(Find(y, key), ms[i]) BY <3>4, <3>5, <3>6
    <3>. QED BY <3>7 DEF i
  <2>5. ASSUME NEW key \in JsonKeys, key \notin {ms[i].key : i \in 1..Len(ms)}
        PROVE  Find(y, key) = NoValue
    <3>1. NotAmong(ms, Len(ms), key) BY <2>5 DEF NotAmong
    <3>2. key \in Texts BY JsonAssumption DEF Texts
    <3>3. FindFrom(y, 2, key) = NextMember(y, Len(w) + 1, sep, key)
      BY <2>0, <2>2, <3>1, <3>2 DEF Finding
    <3>4. Len(w) + 1 \in Nat BY <1>3
    <3>5. FindFrom(y, Len(w) + 1, key) = NoValue /\ ~More(y, Len(w) + 1)
      BY <1>2, <2>1, <3>4, FoundNowhere
    <3>6. NextMember(y, Len(w) + 1, sep, key) = NoValue
      BY <3>5, Zenon DEF NextMember, More
    <3>. QED BY <2>3, <3>3, <3>6
  <2>. QED BY <1>2, <1>7, <2>4, <2>5, Zenon DEF ReadsBack
<1>. QED BY <1>5, <1>8, <1>9 DEF Opening
-----------------------------------------------------------------------------
(* The writer *)

Writers == {w \in [text : Texts, depth : Nat, needs_comma : BOOLEAN, overflowed : BOOLEAN,
                   malformed : BOOLEAN] : Len(w.text) < BufferSize}

SepOf(w) == IF w.needs_comma THEN <<",">> ELSE <<>>

\* q is w with text added, if there was room for it.
Puts(q, w, text) ==
    /\ q \in Writers /\ q.depth = w.depth /\ q.needs_comma = w.needs_comma
    /\ q.malformed = w.malformed
    /\ ~q.overflowed => ~w.overflowed /\ q.text = w.text \o text

LEMMA WriterIs ==
    ASSUME NEW w \in Writers
    PROVE  /\ w.text \in Texts /\ w.depth \in Nat /\ w.needs_comma \in BOOLEAN
           /\ w.overflowed \in BOOLEAN /\ w.malformed \in BOOLEAN
           /\ Len(w.text) \in Nat /\ Len(w.text) < BufferSize
           /\ w = [text |-> w.text, depth |-> w.depth, needs_comma |-> w.needs_comma,
                   overflowed |-> w.overflowed, malformed |-> w.malformed]
<1>1. w \in [text : Texts, depth : Nat, needs_comma : BOOLEAN, overflowed : BOOLEAN,
             malformed : BOOLEAN] /\ Len(w.text) < BufferSize
  BY DEF Writers
<1>2. w.text \in Texts BY <1>1
<1>3. Len(w.text) \in Nat BY <1>2, TextIs
<1>. QED BY <1>1, <1>3

LEMMA PutAllPuts ==
    ASSUME NEW w \in Writers, NEW text \in Texts
    PROVE  Puts(PutAll(w, text), w, text)
<1> DEFINE room == BufferSize - 1 - Len(w.text)
           q == PutAll(w, text)
<1>1. /\ w.text \in Texts /\ Len(w.text) \in Nat /\ Len(w.text) < BufferSize
  BY WriterIs
<1>2. Len(text) \in Nat BY TextIs
<1>3. room \in Nat /\ Len(w.text) + room < BufferSize
  <2>1. BufferSize \in Nat BY JsonAssumption
  <2>. QED BY ONLY <1>1, <2>1
<1>4. q = IF w.overflowed THEN w
          ELSE IF Len(text) <= room THEN [w EXCEPT !.text = @ \o text]
          ELSE [w EXCEPT !.text = @ \o SubSeq(text, 1, room), !.overflowed = TRUE]
  BY DEF PutAll
<1> HIDE DEF q
<1>5. CASE w.overflowed
  <2>1. q = w BY <1>4, <1>5, Zenon
  <2>. QED BY <1>5, <2>1, Zenon DEF Puts, q
<1>6. CASE ~w.overflowed /\ Len(text) <= room
  <2>1. q = [w EXCEPT !.text = @ \o text] BY <1>4, <1>6, Zenon
  <2> DEFINE new == w.text \o text
  <2>2. new \in Texts /\ Len(new) = Len(w.text) + Len(text) BY <1>1, TextsJoined
  <2>3. q = [w EXCEPT !.text = new] BY <2>1, Zenon
  <2>4. Len(new) < BufferSize
    <3> HIDE DEF new, room
    <3>1. BufferSize \in Nat BY JsonAssumption
    <3>. QED BY ONLY <1>1, <1>2, <1>3, <1>6, <2>2, <3>1
  <2>5. ~w.overflowed BY <1>6
  <2> HIDE DEF new
  <2>6. q \in Writers /\ q.depth = w.depth /\ q.needs_comma = w.needs_comma
        /\ q.malformed = w.malformed /\ q.text = new
    BY <2>2, <2>3, <2>4 DEF Writers
  <2>. QED BY <2>5, <2>6, Zenon DEF Puts, new, q
<1>7. CASE ~w.overflowed /\ ~(Len(text) <= room)
  <2> DEFINE part == SubSeq(text, 1, room)
             new == w.text \o part
  <2>1. part \in Texts /\ Len(part) = room
    <3> HIDE DEF room
    <3>1. room \in Int /\ room <= Len(text) /\ 1 <= room + 1 /\ room + 1 - 1 = room
      BY ONLY <1>2, <1>3, <1>7
    <3>2. 1 \in Nat \ {0} OBVIOUS
    <3>. QED BY <3>1, <3>2, PartOfText
  <2>2. q = [w EXCEPT !.text = @ \o part, !.overflowed = TRUE] BY <1>4, <1>7, Zenon
  <2>3. new \in Texts /\ Len(new) = Len(w.text) + Len(part)
    <3> HIDE DEF part
    <3>. QED BY <1>1, <2>1, TextsJoined
  <2>4. q = [w EXCEPT !.text = new, !.overflowed = TRUE] BY <2>2, Zenon
  <2>5. Len(new) < BufferSize
    <3> HIDE DEF new, part, room
    <3>. QED BY ONLY <1>3, <2>1, <2>3
  <2> HIDE DEF new
  <2>6. q \in Writers /\ q.depth = w.depth /\ q.needs_comma = w.needs_comma
        /\ q.malformed = w.malformed /\ q.overflowed = TRUE
    BY <2>3, <2>4, <2>5 DEF Writers
  <2>. QED BY <2>6, Zenon DEF Puts, q
<1>. QED BY <1>5, <1>6, <1>7

LEMMA TextsAssociate ==
    ASSUME NEW s \in Texts, NEW t \in Texts, NEW u \in Texts
    PROVE  (s \o t) \o u = s \o (t \o u)
BY ConcatAssociative DEF Texts

\* What a call for one item makes of the writer.
ItemPuts(q, w, key, body) ==
    /\ q \in Writers /\ q.depth = w.depth /\ q.needs_comma = TRUE /\ q.malformed = w.malformed
    /\ ~q.overflowed => ~w.overflowed /\ q.text = w.text \o Item(SepOf(w), key, body)

LEMMA ItemIsPut ==
    ASSUME NEW w \in Writers, NEW key, NameOf(key) \in Texts, NEW body \in Texts
    PROVE  ItemPuts(PutAll(Separated(w, key), body), w, key, body)
<1> DEFINE sep == IF w.needs_comma THEN <<",">> ELSE <<>>
           name == IF key = NoKey THEN <<>> ELSE Quoted(key) \o <<":">>
           a == PutAll(w, sep)
           b == PutAll(a, name)
           c == Separated(w, key)
           q == PutAll(c, body)
<1>1. sep \in Texts
  <2>1. "," \in Characters BY SignsAreCharacters
  <2>2. <<",">> \in Texts BY <2>1, OneCharacter
  <2>. QED BY <2>2, NoText, Zenon
<1>2. name \in Texts BY DEF NameOf
<1>3. c = [b EXCEPT !.needs_comma = TRUE] BY DEF Separated
<1>s. sep = SepOf(w) /\ name = NameOf(key) BY Zenon DEF SepOf, NameOf
<1> HIDE DEF sep, name
<1>4. Puts(a, w, sep) BY <1>1, PutAllPuts
<1>5. a \in Writers BY <1>4 DEF Puts
<1> HIDE DEF a
<1>6. Puts(b, a, name) BY <1>2, <1>5, PutAllPuts
<1>7. b \in Writers BY <1>6 DEF Puts
<1> HIDE DEF b
<1>8. c \in Writers /\ c.depth = b.depth /\ c.needs_comma = TRUE /\ c.malformed = b.malformed
      /\ c.overflowed = b.overflowed /\ c.text = b.text
  BY <1>3, <1>7 DEF Writers
<1> HIDE DEF c
<1>9. Puts(q, c, body) BY <1>8, PutAllPuts
<1>10. q \in Writers /\ q.depth = w.depth /\ q.needs_comma = TRUE /\ q.malformed = w.malformed
  BY <1>4, <1>6, <1>8, <1>9, Zenon DEF Puts
<1> HIDE DEF q
<1>11. ASSUME ~q.overflowed
       PROVE  ~w.overflowed /\ q.text = w.text \o Item(SepOf(w), key, body)
  <2>1. ~c.overflowed /\ q.text = c.text \o body BY <1>9, <1>11, Zenon DEF Puts
  <2>2. ~b.overflowed BY <1>8, <2>1, Zenon
  <2>3. ~a.overflowed /\ b.text = a.text \o name BY <1>6, <2>2, Zenon DEF Puts
  <2>4. ~w.overflowed /\ a.text = w.text \o sep BY <1>4, <2>3, Zenon DEF Puts
  <2>5. q.text = ((w.text \o sep) \o name) \o body BY <1>8, <2>1, <2>3, <2>4, Zenon
  <2>6. w.text \in Texts BY WriterIs
  <2>7. w.text \o sep \in Texts BY <1>1, <2>6, TextsJoined
  <2>8. ((w.text \o sep) \o name) \o body = (w.text \o sep) \o (name \o body)
    BY <1>2, <2>7, TextsAssociate, Zenon
  <2>9. name \o body \in Texts BY <1>2, TextsJoined
  <2>10. (w.text \o sep) \o (name \o body) = w.text \o (sep \o (name \o body))
    BY <1>1, <2>6, <2>9, TextsAssociate, Zenon
  <2>. QED BY <1>s, <2>4, <2>5, <2>8, <2>10, Zenon DEF Item
<1>. QED BY <1>10, <1>11, Zenon DEF ItemPuts, q, c
-----------------------------------------------------------------------------
(* The invariant *)

JsonTypes == {"string", "object", "array", "number"} \cup Literals
MemberKeys == Texts \cup {NoKey}
MemberRecords == [key : MemberKeys, type : JsonTypes, text : Texts, items : Seq(JsonTypes)]

\* What has been written of a document: nothing, the whole, or the beginning.
State(text, sep, st, ms, wr) ==
    \/ (st = <<>> /\ wr = 0 /\ text = <<>> /\ ms = <<>> /\ sep = <<>>)
    \/ (st = <<>> /\ wr > 0 /\ ReadsBack(text, ms))
    \/ (Len(st) > 0 /\ wr > 0 /\ \E s : Inside(text, st, s, sep, ms))

SoundWriter(w) == ~w.overflowed /\ ~w.malformed

\* The root holds what is open in it.
Rooted(st, ms) == Len(st) >= 2 => Len(ms) > 0

\* The buffer is never overrun, and a writer that has not failed has written what was called
\* for.
JsonInv ==
    /\ writer \in Writers /\ stack \in Seq(Opening) /\ members \in Seq(MemberRecords)
    /\ writes \in Nat /\ Rooted(stack, members)
    /\ SoundWriter(writer) =>
         /\ writer.depth = Len(stack)
         /\ State(writer.text, SepOf(writer), stack, members, writes)

LEMMA MemberIs ==
    ASSUME NEW m \in MemberRecords
    PROVE  m.key \in MemberKeys /\ m.type \in JsonTypes /\ m.text \in Texts /\ m.items \in Seq(JsonTypes)
           /\ Len(m.items) \in Nat
<1>1. m.key \in MemberKeys /\ m.type \in JsonTypes /\ m.text \in Texts /\ m.items \in Seq(JsonTypes)
  BY DEF MemberRecords
<1>2. Len(m.items) \in Nat BY <1>1
<1>. QED BY <1>1, <1>2

\* Remembered, as Remembers has it.
LEMMA RememberedIs ==
    ASSUME stack \in Seq(Opening), members \in Seq(MemberRecords),
           Len(stack) >= 2 => Len(members) > 0,
           NEW key \in MemberKeys, NEW type \in JsonTypes, NEW text \in Texts,
           NEW ms, ms = Remembered(key, type, text)
    PROVE  /\ ms \in Seq(MemberRecords)
           /\ Len(stack) = 0 => ms = members
           /\ Len(stack) >= 1 => Len(ms) > 0 /\ Remembers(ms, members, Len(stack), key, type)
           /\ Len(stack) = 1 => ms[Len(members) + 1]
                                  = [key |-> key, type |-> type, text |-> text, items |-> <<>>]
<1> DEFINE k == Len(stack)
           n == Len(members)
           m == [key |-> key, type |-> type, text |-> text, items |-> <<>>]
<1>1. k \in Nat /\ n \in Nat OBVIOUS
<1>2. ms = IF k = 1 THEN Append(members, m)
           ELSE IF k = 2 THEN [members EXCEPT ![n].items = Append(@, type)] ELSE members
  <2>1. ms = CASE k = 1 -> Append(members, m)
               [] k = 2 -> [members EXCEPT ![n].items = Append(@, type)]
               [] OTHER -> members
    BY DEF Remembered
  <2> HIDE DEF k, n, m
  <2>2. ~(k = 1 /\ k = 2) OBVIOUS
  <2>3. CASE k = 1
    <3>1. k # 2 BY <2>3
    <3>. QED BY <2>1, <2>3, <3>1, Zenon
  <2>4. CASE k = 2
    <3>1. k # 1 BY <2>4
    <3>. QED BY <2>1, <2>4, <3>1, Zenon
  <2>5. CASE k # 1 /\ k # 2 BY <2>1, <2>5, Zenon
  <2>. QED BY <2>3, <2>4, <2>5
<1>3. CASE k = 1
  <2>1. m \in MemberRecords /\ Len(m.items) = 0 /\ m.key = key /\ m.type = type
    <3>1. <<>> \in Seq(JsonTypes) /\ Len(<<>>) = 0 OBVIOUS
    <3>. QED BY <3>1, Zenon DEF MemberRecords
  <2>2. ms = Append(members, m) BY <1>2, <1>3, Zenon
  <2> HIDE DEF m
  <2>3. /\ ms \in Seq(MemberRecords) /\ Len(ms) = n + 1 /\ ms[n + 1] = m
        /\ \A i \in 1..n : ms[i] = members[i]
    BY <2>1, <2>2
  <2> HIDE DEF k, n
  <2>4. Gained(ms, members, key, type) BY <1>1, <2>1, <2>3 DEF Gained, n
  <2>5. Len(ms) > 0 BY ONLY <1>1, <2>3
  <2>6. Remembers(ms, members, k, key, type) BY <1>3, <2>4, Zenon DEF Remembers
  <2>7. k # 0 BY <1>3
  <2>. QED BY <2>3, <2>5, <2>6, <2>7, Zenon DEF k, n, m
<1>4. CASE k = 2
  <2> DEFINE old == members[n]
             new == [old EXCEPT !.items = Append(@, type)]
  <2>1. n \in 1..n /\ n > 0 BY ONLY <1>1, <1>4, Len(stack) >= 2 => Len(members) > 0
  <2>2. old \in MemberRecords BY <2>1
  <2>3. /\ old.key \in MemberKeys /\ old.type \in JsonTypes /\ old.text \in Texts
        /\ old.items \in Seq(JsonTypes)
    BY <2>2, MemberIs
  <2>4. new \in MemberRecords /\ new.key = old.key /\ new.type = old.type
        /\ new.items = Append(old.items, type)
    <3> DEFINE more == Append(old.items, type)
    <3>1. more \in Seq(JsonTypes) BY <2>3
    <3>2. new = [old EXCEPT !.items = more] BY Zenon
    <3> HIDE DEF more, new, old
    <3>3. new \in MemberRecords /\ new.key = old.key /\ new.type = old.type /\ new.items = more
      BY <2>2, <3>1, <3>2 DEF MemberRecords
    <3>. QED BY <3>3, Zenon DEF more
  <2>5. OneMoreItem(new.items, old.items, type)
    <3> HIDE DEF new, old
    <3>. QED BY <2>3, <2>4 DEF OneMoreItem
  <2>6. ms = [members EXCEPT ![n] = new]
    <3>1. k # 1 BY <1>4
    <3>2. ms = [members EXCEPT ![n].items = Append(@, type)] BY <1>2, <1>4, <3>1, Zenon
    <3>. QED BY <3>2
  <2> HIDE DEF new
  <2>7. /\ ms \in Seq(MemberRecords) /\ Len(ms) = n /\ ms[n] = new
        /\ \A i \in 1..n - 1 : ms[i] = members[i]
    BY <2>1, <2>4, <2>6
  <2> HIDE DEF k
  <2>8. Deepened(ms, members) BY <2>1, <2>4, <2>7 DEF Deepened
  <2>9. Remembers(ms, members, k, key, type)
    <3>1. k # 1 BY <1>4
    <3>. QED BY <1>4, <2>5, <2>7, <2>8, <3>1, Zenon DEF Remembers
  <2>10. Len(ms) > 0 BY <2>1, <2>7
  <2>11. k # 0 /\ k # 1 BY <1>4
  <2>. QED BY <2>7, <2>9, <2>10, <2>11, Zenon DEF k
<1>5. CASE k # 1 /\ k # 2
  <2>1. ms = members BY <1>2, <1>5, Zenon
  <2>2. ASSUME k >= 1 PROVE Len(ms) > 0 /\ Remembers(ms, members, k, key, type)
    <3>1. k >= 2
      <4> HIDE DEF k, n
      <4>. QED BY ONLY <1>1, <1>5, <2>2
    <3>2. n > 0 BY <3>1
    <3>3. Deepened(ms, members) BY <1>1, <2>1, <3>2 DEF Deepened
    <3>. QED BY <1>5, <2>1, <3>2, <3>3, Zenon DEF Remembers
  <2>. QED BY <1>5, <2>1, <2>2
<1>. QED BY <1>3, <1>4, <1>5
-----------------------------------------------------------------------------
(* The calls *)

LEMMA SepIs ==
    ASSUME NEW w
    PROVE  SepOf(w) \in Separators /\ (w.needs_comma = TRUE => SepOf(w) = <<",">>)
           /\ (w.needs_comma = FALSE => SepOf(w) = <<>>)
BY Zenon DEF SepOf, Separators

\* The keys a call may have where it is made.
LEMMA KeyBelongs ==
    ASSUME stack \in Seq(Opening), NEW key \in KeysHere
    PROVE  /\ key \in MemberKeys /\ NameOf(key) \in Texts
           /\ stack # <<>> => KeyFor(stack[Len(stack)], key)
           /\ stack = <<>> => key = NoKey
<1>1. JsonKeys \subseteq Texts \ {NoKey} BY JsonAssumption DEF Texts
<1>2. CASE stack # <<>> /\ stack[Len(stack)] = "{"
  <2>1. key \in JsonKeys BY <1>2, Zenon DEF KeysHere
  <2>2. key \in Texts /\ key # NoKey BY <1>1, <2>1
  <2>3. KeyFor("{", key) BY <2>2, Zenon DEF KeyFor
  <2>4. "{" \in Opening /\ <<>> \in Separators BY DEF Opening, Separators
  <2>5. NameOf(key) \in Texts BY <2>3, <2>4, LeadIs
  <2>. QED BY <1>2, <2>2, <2>3, <2>5, Zenon DEF MemberKeys
<1>3. CASE ~(stack # <<>> /\ stack[Len(stack)] = "{")
  <2>1. key = NoKey
    <3>1. key \in {NoKey} BY <1>3, Zenon DEF KeysHere
    <3>. QED BY <3>1
  <2>2. NameOf(key) \in Texts BY <2>1, NoText, Zenon DEF NameOf
  <2>3. stack # <<>> => KeyFor(stack[Len(stack)], key) BY <1>3, <2>1, Zenon DEF KeyFor
  <2>4. key \in MemberKeys BY <2>1 DEF MemberKeys
  <2>. QED BY <2>1, <2>2, <2>3, <2>4
<1>. QED BY <1>2, <1>3

\* A document that is open has been begun, and is not over.
LEMMA IsInside ==
    ASSUME NEW text, NEW sep, NEW st, Len(st) > 0, NEW ms, NEW wr, State(text, sep, st, ms, wr)
    PROVE  wr > 0 /\ \E s : Inside(text, st, s, sep, ms)
<1>1. st # <<>>
  <2>1. Len(<<>>) = 0 OBVIOUS
  <2>2. Len(st) # 0 BY ONLY Len(st) > 0
  <2>. QED BY <2>1, <2>2, Zenon
<1>. QED BY <1>1, Zenon DEF State

\* json_put_int and its like: a value, under a key where one belongs.
LEMMA ItemWritten ==
    ASSUME JsonInv, stack # <<>>, NEW key \in KeysHere, NEW body, Readable(body),
           NEW type \in JsonTypes, type = TypeOf(body[1]), NEW text \in Texts,
           SameAs([type |-> type, text |-> body],
                  [key |-> key, type |-> type, text |-> text, items |-> <<>>]),
           writes' = writes + 1, stack' = stack,
           writer' = PutAll(Separated(writer, key), body),
           members' = Remembered(key, type, text)
    PROVE  JsonInv'
<1>0. /\ writer \in Writers /\ stack \in Seq(Opening) /\ members \in Seq(MemberRecords)
      /\ writes \in Nat /\ Rooted(stack, members)
  BY ONLY JsonInv, Zenon DEF JsonInv
<1>1. /\ writer \in Writers /\ stack \in Seq(Opening) /\ members \in Seq(MemberRecords)
      /\ writes \in Nat /\ (Len(stack) >= 2 => Len(members) > 0)
  BY ONLY <1>0 DEF Rooted
<1> DEFINE k == Len(stack)
<1>2. k \in Nat \ {0} BY <1>1
<1>3. /\ key \in MemberKeys /\ NameOf(key) \in Texts /\ KeyFor(stack[k], key)
  BY <1>1, KeyBelongs
<1>4. body \in Texts BY DEF Readable
<1>5. ItemPuts(writer', writer, key, body) BY <1>1, <1>3, <1>4, ItemIsPut
<1>6. /\ members' \in Seq(MemberRecords) /\ Len(members') > 0
      /\ Remembers(members', members, k, key, type)
      /\ k = 1 => members'[Len(members) + 1]
                    = [key |-> key, type |-> type, text |-> text, items |-> <<>>]
  <2>1. k >= 1 BY ONLY <1>2
  <2> DEFINE ms == Remembered(key, type, text)
  <2>2. /\ ms \in Seq(MemberRecords)
        /\ Len(stack) >= 1 => Len(ms) > 0 /\ Remembers(ms, members, Len(stack), key, type)
        /\ Len(stack) = 1 => ms[Len(members) + 1]
                               = [key |-> key, type |-> type, text |-> text, items |-> <<>>]
    <3>1. ms = Remembered(key, type, text) OBVIOUS
    <3> HIDE DEF ms
    <3>. QED BY ONLY <1>1, <1>3, <3>1, type \in JsonTypes, text \in Texts, RememberedIs
  <2>3. members' = ms OBVIOUS
  <2> HIDE DEF ms
  <2>. QED BY <2>1, <2>2, <2>3
<1>7. writer' \in Writers /\ writes' \in Nat /\ writes' > 0
  <2>1. writer' \in Writers BY <1>5 DEF ItemPuts
  <2>. QED BY <1>1, <2>1
<1>8. ASSUME SoundWriter(writer')
      PROVE  /\ writer'.depth = Len(stack')
             /\ State(writer'.text, SepOf(writer'), stack', members', writes')
  <2>1. /\ SoundWriter(writer) /\ writer'.text = writer.text \o Item(SepOf(writer), key, body)
        /\ writer'.depth = writer.depth /\ writer'.needs_comma = TRUE
    BY <1>5, <1>8, Zenon DEF ItemPuts, SoundWriter
  <2>2. writer.depth = k /\ State(writer.text, SepOf(writer), stack, members, writes)
    BY <2>1, Zenon DEF JsonInv
  <2>3. SepOf(writer') = <<",">> BY <2>1, SepIs
  <2>4. Len(stack) > 0 BY <1>2
  <2>5. PICK s : Inside(writer.text, stack, s, SepOf(writer), members)
    BY ONLY <2>2, <2>4, IsInside
  <2>6. writer.text \in Texts BY <1>1, WriterIs
  <2>7. SepOf(writer) \in Separators BY SepIs
  <2>8. Inside(writer'.text, stack, s, <<",">>, members')
    <3> DEFINE w == writer.text
               w1 == writer'.text
               sep == SepOf(writer)
               ms == members
               ms1 == members'
    <3>1. w \in Texts /\ sep \in Separators /\ Inside(w, stack, s, sep, ms)
          /\ w1 = w \o Item(sep, key, body)
      BY <2>1, <2>5, <2>6, <2>7
    <3>2. Remembers(ms1, ms, k, key, TypeOf(body[1])) BY <1>6
    <3>3. k = 1 => SameAs([type |-> TypeOf(body[1]), text |-> body], ms1[Len(ms) + 1])
      BY <1>6
    <3>4. k = Len(stack) OBVIOUS
    <3> HIDE DEF w, w1, sep, ms, ms1, k
    <3>5. Inside(w1, stack, s, <<",">>, ms1)
      BY ONLY <1>1, <1>2, <1>3, <3>1, <3>2, <3>3, <3>4, Readable(body), InsideWritten
    <3>. QED BY <3>5 DEF w1, ms1
  <2>9. State(writer'.text, SepOf(writer'), stack', members', writes')
    BY <1>7, <2>3, <2>4, <2>8, Zenon DEF State
  <2>10. writer'.depth = Len(stack') BY <2>1, <2>2, Zenon
  <2>. QED BY <2>9, <2>10
<1>9. Rooted(stack', members') BY ONLY <1>6 DEF Rooted
<1>10. stack' \in Seq(Opening) BY ONLY <1>1, stack' = stack
<1>11. members' \in Seq(MemberRecords) BY ONLY <1>6
<1>. QED BY ONLY <1>7, <1>8, <1>9, <1>10, <1>11, Zenon DEF JsonInv
-----------------------------------------------------------------------------

\* A quoted string is what was quoted.
LEMMA QuotedSame ==
    ASSUME NEW text \in Texts, NEW key
    PROVE  SameAs([type |-> "string", text |-> Quoted(text)],
                  [key |-> key, type |-> "string", text |-> text, items |-> <<>>])
<1> DEFINE q == Quoted(text)
           e == Escaped(text)
           part == SubSeq(q, 2, Len(q) - 1)
<1>1. /\ q \in Texts /\ Len(q) = Len(e) + 2 /\ \A j \in 1..Len(e) : q[1 + j] = e[j]
      /\ e \in Texts
  BY QuotedIs, EscapedIs
<1>2. Len(e) \in Nat
  <2> HIDE DEF e
  <2>. QED BY <1>1, TextIs
<1> HIDE DEF q, e
<1>3. part = e
  <2> DEFINE n == Len(q) - 1
  <2>1. n \in Int /\ n = Len(e) + 1 /\ n <= Len(q) /\ 2 <= n + 1 /\ n + 1 - 2 = Len(e)
    BY ONLY <1>1, <1>2
  <2>2. 2 \in Nat \ {0} OBVIOUS
  <2>3. part = SubSeq(q, 2, n) OBVIOUS
  <2> HIDE DEF n, part
  <2>4. part \in Texts /\ Len(part) = n + 1 - 2 /\ \A i \in 1..n + 1 - 2 : part[i] = q[2 + i - 1]
    BY <1>1, <2>1, <2>2, <2>3, PartOfText
  <2>5. Len(part) = Len(e) BY ONLY <2>1, <2>4
  <2>6. ASSUME NEW i \in 1..Len(part) PROVE part[i] = e[i]
    <3>1. i \in 1..n + 1 - 2 /\ i \in 1..Len(e) /\ 2 + i - 1 = 1 + i
      BY ONLY <1>2, <2>1, <2>5, i \in 1..Len(part)
    <3>2. part[i] = q[2 + i - 1] BY <2>4, <3>1
    <3>3. q[1 + i] = e[i] BY <1>1, <3>1
    <3>. QED BY <3>1, <3>2, <3>3
  <2>. QED BY ONLY <1>1, <2>4, <2>5, <2>6, SeqEqual DEF Texts
<1> DEFINE v == [type |-> "string", text |-> q]
           m == [key |-> key, type |-> "string", text |-> text, items |-> <<>>]
<1>4. v.text = q /\ v.type = m.type /\ m.text = text /\ m.type = "string" OBVIOUS
<1>5. StringOf(v) = Unescaped(part) BY <1>4 DEF StringOf
<1>6. Unescaped(e) = text BY UnescapedEscaped DEF e
<1>7. m.type # "array" BY <1>4
<1> HIDE DEF v, m, part
<1>8. StringOf(v) = m.text BY <1>3, <1>4, <1>5, <1>6
<1>9. SameAs(v, m) BY <1>4, <1>7, <1>8, Zenon DEF SameAs
<1>. QED BY <1>9, Zenon DEF v, m, q

\* Any other value is of the type it was written with.
LEMMA PlainSame ==
    ASSUME NEW value, NEW member, value.type = member.type, member.type # "string",
           member.type # "array"
    PROVE  SameAs(value, member)
BY Zenon DEF SameAs

LEMMA IntStep ==
    ASSUME JsonInv, WriteInt
    PROVE  JsonInv'
<1>1. PICK key \in KeysHere :
        /\ Writing /\ stack # <<>>
        /\ writer' = PutAll(Separated(writer, key), <<"1">>)
        /\ members' = Remembered(key, "number", <<>>)
        /\ UNCHANGED stack
  BY DEF WriteInt
<1> DEFINE body == <<"1">>
           v == [type |-> "number", text |-> body]
           m == [key |-> key, type |-> "number", text |-> <<>>, items |-> <<>>]
<1>2. "number" = TypeOf(body[1])
  <2>1. body[1] = "1" OBVIOUS
  <2>2. "1" # Quote /\ "1" # "{" /\ "1" # "[" /\ "1" \notin Literals BY DEF Quote, Literals
  <2>. QED BY <2>1, <2>2 DEF TypeOf
<1>3. "number" \in JsonTypes BY DEF JsonTypes
<1>4. SameAs(v, m)
  <2>1. v.type = m.type /\ m.type # "string" /\ m.type # "array" OBVIOUS
  <2> HIDE DEF v, m
  <2>. QED BY <2>1, PlainSame
<1>5. writes' = writes + 1 BY <1>1 DEF Writing
<1>. QED BY <1>1, <1>2, <1>3, <1>4, <1>5, DigitIsReadable, NoText, ItemWritten

LEMMA LiteralStep ==
    ASSUME JsonInv, WriteLiteral
    PROVE  JsonInv'
<1>1. PICK key \in KeysHere, literal \in Literals :
        /\ Writing /\ stack # <<>>
        /\ writer' = PutAll(Separated(writer, key), <<literal>>)
        /\ members' = Remembered(key, literal, <<>>)
        /\ UNCHANGED stack
  BY DEF WriteLiteral
<1> DEFINE body == <<literal>>
           v == [type |-> literal, text |-> body]
           m == [key |-> key, type |-> literal, text |-> <<>>, items |-> <<>>]
<1>d. literal # "string" /\ literal # "array" /\ literal # Quote /\ literal # "{" /\ literal # "["
  BY DEF Quote, Literals
<1>2. literal = TypeOf(body[1])
  <2>1. body[1] = literal OBVIOUS
  <2> HIDE DEF body
  <2>. QED BY <2>1, <1>d DEF TypeOf
<1>3. literal \in JsonTypes BY DEF JsonTypes
<1>4. SameAs(v, m)
  <2>1. v.type = m.type /\ m.type # "string" /\ m.type # "array" BY <1>d
  <2> HIDE DEF v, m
  <2>. QED BY <2>1, PlainSame
<1>5. writes' = writes + 1 BY <1>1 DEF Writing
<1>6. Readable(body) BY LiteralIsReadable
<1>. QED BY <1>1, <1>2, <1>3, <1>4, <1>5, <1>6, NoText, ItemWritten

LEMMA StringStep ==
    ASSUME JsonInv, WriteString
    PROVE  JsonInv'
<1>1. PICK key \in KeysHere, text \in JsonStrings :
        /\ Writing /\ stack # <<>>
        /\ writer' = PutAll(Separated(writer, key), Quoted(text))
        /\ members' = Remembered(key, "string", text)
        /\ UNCHANGED stack
  BY DEF WriteString
<1> DEFINE body == Quoted(text)
<1>2. text \in Texts BY JsonAssumption DEF Texts
<1>3. "string" = TypeOf(body[1])
  <2>1. body[1] = Quote BY <1>2, QuotedIs
  <2> HIDE DEF body
  <2>2. Quote # "{" /\ Quote # "[" /\ Quote \notin Literals BY DEF Quote, Literals
  <2>. QED BY <2>1, <2>2 DEF TypeOf
<1>4. "string" \in JsonTypes BY DEF JsonTypes
<1>5. SameAs([type |-> "string", text |-> body],
             [key |-> key, type |-> "string", text |-> text, items |-> <<>>])
  BY <1>2, QuotedSame
<1>6. writes' = writes + 1 BY <1>1 DEF Writing
<1>7. Readable(body) BY <1>2, QuotedIsReadable
<1>. QED BY <1>1, <1>2, <1>3, <1>4, <1>5, <1>6, <1>7, ItemWritten

LEMMA JsonBegins ==
    ASSUME JsonInit
    PROVE  JsonInv
<1>1. writer = [text |-> <<>>, depth |-> 0, needs_comma |-> FALSE, overflowed |-> FALSE,
                malformed |-> FALSE]
      /\ stack = <<>> /\ members = <<>> /\ writes = 0
  BY DEF JsonInit
<1>2. writer \in Writers
  <2>1. BufferSize \in Nat \ {0} BY JsonAssumption
  <2>2. Len(writer.text) = 0 /\ writer.text = <<>> BY <1>1
  <2>3. Len(writer.text) < BufferSize BY <2>1, <2>2
  <2>. QED BY <1>1, <2>3, NoText DEF Writers
<1>3. stack \in Seq(Opening) /\ members \in Seq(MemberRecords) /\ writes \in Nat BY <1>1
<1>4. Rooted(stack, members) BY <1>1 DEF Rooted
<1>5. writer.depth = Len(stack) BY <1>1
<1>6. writer.needs_comma = FALSE /\ writer.text = <<>> BY <1>1
<1>7. SepOf(writer) = <<>> BY <1>6, SepIs
<1>8. State(writer.text, SepOf(writer), stack, members, writes)
  BY <1>1, <1>6, <1>7, Zenon DEF State
<1>. QED BY <1>2, <1>3, <1>4, <1>5, <1>8, Zenon DEF JsonInv

LEMMA JsonRests ==
    ASSUME JsonInv, UNCHANGED jsonVars
    PROVE  JsonInv'
<1>1. writer' = writer /\ stack' = stack /\ members' = members /\ writes' = writes
  BY DEF jsonVars
<1>. QED BY <1>1, Zenon DEF JsonInv

\* What the invariant is for.
LEMMA JsonHolds ==
    ASSUME JsonInv
    PROVE  JsonReadsWhatWasWritten
<1> SUFFICES ASSUME Complete PROVE
      /\ Valid(Document)
      /\ \A key \in JsonKeys :
           /\ IF key \in {members[i].key : i \in 1..Len(members)}
                THEN SameAs(Find(Document, key), members[First(key)])
              ELSE Find(Document, key) = NoValue
           /\ \A n \in 0..Len(Document) - 1 :
                Find(SubSeq(Document, 1, n), key) = NoValue
  BY DEF JsonReadsWhatWasWritten
<1>1. writes > 0 /\ stack = <<>> /\ SoundWriter(writer) BY Zenon DEF Complete, Finished, SoundWriter
<1>2. State(writer.text, SepOf(writer), stack, members, writes)
  BY <1>1, Zenon DEF JsonInv
<1>3. writes # 0 BY ONLY <1>1
<1>4. ~(Len(stack) > 0)
  <2>1. Len(stack) = 0 BY <1>1
  <2>. QED BY ONLY <2>1
<1>5. ReadsBack(writer.text, members) BY <1>2, <1>3, <1>4, Zenon DEF State
<1>6. \A key : First(key) = FirstOf(members, key) BY Zenon DEF First, FirstOf
<1>. QED BY <1>5, <1>6, Zenon DEF ReadsBack, Document
-----------------------------------------------------------------------------

\* What json_object_open and json_array_open make of the writer.
OpenPuts(q, w, key, open) ==
    /\ q \in Writers
    /\ SoundWriter(q) => /\ SoundWriter(w) /\ w.depth < MaxJsonDepth /\ q.depth = w.depth + 1
                   /\ q.needs_comma = FALSE
                   /\ q.text = w.text \o Item(SepOf(w), key, <<open>>)

LEMMA OpenIsPut ==
    ASSUME NEW w \in Writers, NEW key, NameOf(key) \in Texts, NEW open \in Opening
    PROVE  OpenPuts(OpenContainer(w, key, open), w, key, open)
<1> DEFINE q == OpenContainer(w, key, open)
           p == PutAll(Separated(w, key), <<open>>)
<1>1. w.depth \in Nat /\ MaxJsonDepth \in Nat BY WriterIs, JsonAssumption
<1>2. q = IF w.depth >= MaxJsonDepth THEN [w EXCEPT !.malformed = TRUE]
          ELSE [p EXCEPT !.depth = @ + 1, !.needs_comma = FALSE]
  BY DEF OpenContainer
<1>3. <<open>> \in Texts BY SignsAreCharacters, OneCharacter
<1>4. ItemPuts(p, w, key, <<open>>) BY <1>3, ItemIsPut
<1>5. p \in Writers BY <1>4 DEF ItemPuts
<1> HIDE DEF q, p
<1>6. CASE w.depth >= MaxJsonDepth
  <2>1. q = [w EXCEPT !.malformed = TRUE] BY <1>2, <1>6, Zenon
  <2>2. q \in Writers /\ q.malformed = TRUE BY <2>1 DEF Writers
  <2>3. ~SoundWriter(q) BY <2>2, Zenon DEF SoundWriter
  <2>. QED BY <2>2, <2>3, Zenon DEF OpenPuts, q
<1>7. CASE ~(w.depth >= MaxJsonDepth)
  <2> DEFINE d == p.depth + 1
  <2>1. q = [p EXCEPT !.depth = @ + 1, !.needs_comma = FALSE] BY <1>2, <1>7, Zenon
  <2>2. q = [p EXCEPT !.depth = d, !.needs_comma = FALSE] BY <2>1, Zenon
  <2>3. p.depth = w.depth BY <1>4, Zenon DEF ItemPuts
  <2>4. d \in Nat /\ d = w.depth + 1 /\ w.depth < MaxJsonDepth BY ONLY <1>1, <1>7, <2>3
  <2> HIDE DEF d
  <2>5. /\ q \in Writers /\ q.depth = d /\ q.needs_comma = FALSE /\ q.text = p.text
        /\ q.overflowed = p.overflowed /\ q.malformed = p.malformed
    BY <1>5, <2>2, <2>4 DEF Writers
  <2>6. ASSUME SoundWriter(q)
        PROVE  SoundWriter(w) /\ q.text = w.text \o Item(SepOf(w), key, <<open>>)
    <3>1. ~p.overflowed /\ ~p.malformed BY <2>5, <2>6, Zenon DEF SoundWriter
    <3>2. ~w.overflowed /\ ~w.malformed /\ p.text = w.text \o Item(SepOf(w), key, <<open>>)
      BY <1>4, <3>1, Zenon DEF ItemPuts
    <3>. QED BY <2>5, <3>2, Zenon DEF SoundWriter
  <2>. QED BY <2>4, <2>5, <2>6, Zenon DEF OpenPuts, q
<1>. QED BY <1>6, <1>7

\* The first container of a document.
LEMMA RootIsPut ==
    ASSUME NEW open \in Opening, NEW y, y = <<>> \o Item(<<>>, NoKey, <<open>>)
    PROVE  y = <<open>>
<1>1. <<open>> \in Texts BY SignsAreCharacters, OneCharacter
<1>2. NameOf(NoKey) = <<>> BY Zenon DEF NameOf
<1>3. \A t \in Texts : <<>> \o t = t BY ConcatEmptySeq DEF Texts
<1>4. Item(<<>>, NoKey, <<open>>) = <<open>> BY <1>1, <1>2, <1>3, Zenon DEF Item
<1>. QED BY <1>1, <1>3, <1>4, Zenon

\* One container more is open.
LEMMA OpenState ==
    ASSUME stack \in Seq(Opening), writer \in Writers,
           State(writer.text, SepOf(writer), stack, members, writes),
           stack = <<>> => writes = 0, NEW key \in KeysHere, NEW open \in Opening,
           Len(stack) < MaxJsonDepth,
           NEW ms, stack = <<>> => ms = members,
           stack # <<>> => Remembers(ms, members, Len(stack), key, TypeOf(open)),
           NEW y, y = writer.text \o Item(SepOf(writer), key, <<open>>)
    PROVE  \E s : Inside(y, Append(stack, open), s, <<>>, ms)
<1>1. CASE stack = <<>>
  <2>1. writes = 0 /\ ~(writes > 0) BY <1>1
  <2>2. writer.text = <<>> /\ members = <<>> /\ SepOf(writer) = <<>>
    <3>1. Len(stack) = 0 BY <1>1
    <3>2. ~(Len(stack) > 0) BY ONLY <3>1
    <3>. QED BY <2>1, <3>2, Zenon DEF State
  <2>3. key = NoKey BY <1>1, KeyBelongs
  <2>4. y = <<open>> BY <2>2, <2>3, RootIsPut
  <2>5. Append(stack, open) = <<open>> BY <1>1
  <2>6. Len(ms) = 0 BY <1>1, <2>2
  <2>7. \E s : Inside(<<open>>, <<open>>, s, <<>>, ms) BY ONLY <2>6, open \in Opening, InsideRoot
  <2>. QED BY <2>4, <2>5, <2>7, Zenon
<1>2. CASE stack # <<>>
  <2> DEFINE k == Len(stack)
             w == writer.text
             sep == SepOf(writer)
             m == members
             st == stack
  <2>1. k \in Nat \ {0} /\ k > 0 BY <1>2
  <2>2. KeyFor(st[k], key) BY <1>2, KeyBelongs
  <2>3. w \in Texts /\ sep \in Separators BY WriterIs, SepIs
  <2>4. PICK s : Inside(w, st, s, sep, m)
    <3>1. Len(stack) > 0 BY <2>1
    <3>. QED BY <3>1, IsInside
  <2>5. /\ st \in Seq(Opening) /\ k = Len(st) /\ k < MaxJsonDepth
        /\ Remembers(ms, m, k, key, TypeOf(open)) /\ y = w \o Item(sep, key, <<open>>)
    BY <1>2
  <2> HIDE DEF k, w, sep, m, st
  <2>6. \E s1 : Inside(y, Append(st, open), s1, <<>>, ms)
    BY ONLY <2>1, <2>2, <2>3, <2>4, <2>5, open \in Opening, InsideOpened
  <2>. QED BY <2>6 DEF st
<1>. QED BY <1>1, <1>2

LEMMA OpenStep ==
    ASSUME JsonInv, Open
    PROVE  JsonInv'
<1>1. PICK key \in KeysHere, open \in Opening :
        /\ Writing /\ (stack = <<>> => writes = 0)
        /\ writer' = OpenContainer(writer, key, open)
        /\ stack' = Append(stack, open)
        /\ members' = Remembered(key, IF open = "{" THEN "object" ELSE "array", <<>>)
  BY DEF Open
<1>2. /\ writer \in Writers /\ stack \in Seq(Opening) /\ members \in Seq(MemberRecords)
      /\ writes \in Nat /\ Rooted(stack, members)
  BY ONLY JsonInv, Zenon DEF JsonInv
<1>3. key \in MemberKeys /\ NameOf(key) \in Texts BY <1>2, KeyBelongs
<1> DEFINE type == IF open = "{" THEN "object" ELSE "array"
<1>4. type = TypeOf(open) /\ type \in JsonTypes
  <2>1. open # Quote /\ open \notin Literals BY DEF Opening, Quote, Literals
  <2>2. type = TypeOf(open)
    <3>1. open = "{" \/ open = "[" BY DEF Opening
    <3>2. "{" # "[" OBVIOUS
    <3>. QED BY <2>1, <3>1, <3>2 DEF TypeOf
  <2>. QED BY <2>2 DEF JsonTypes
<1>5. members' = Remembered(key, type, <<>>) BY <1>1
<1> HIDE DEF type
<1>6. /\ members' \in Seq(MemberRecords)
      /\ stack = <<>> => members' = members
      /\ stack # <<>> => Len(members') > 0
                         /\ Remembers(members', members, Len(stack), key, TypeOf(open))
  <2> DEFINE ms == Remembered(key, type, <<>>)
  <2>1. ms = Remembered(key, type, <<>>) /\ (Len(stack) >= 2 => Len(members) > 0)
    BY <1>2 DEF Rooted
  <2> HIDE DEF ms
  <2>2. /\ ms \in Seq(MemberRecords)
        /\ Len(stack) = 0 => ms = members
        /\ Len(stack) >= 1 => Len(ms) > 0 /\ Remembers(ms, members, Len(stack), key, type)
    BY ONLY <1>2, <1>3, <1>4, <2>1, NoText, RememberedIs
  <2>3. stack = <<>> => Len(stack) = 0 OBVIOUS
  <2>4. stack # <<>> => Len(stack) >= 1 BY <1>2
  <2>5. members' = ms BY <1>5 DEF ms
  <2>. QED BY <1>4, <2>2, <2>3, <2>4, <2>5, Zenon
<1>7. OpenPuts(writer', writer, key, open) BY <1>1, <1>2, <1>3, OpenIsPut
<1>8. writer' \in Writers BY <1>7 DEF OpenPuts
<1>w. writes' = writes + 1 /\ stack' = Append(stack, open) BY <1>1, Zenon DEF Writing
<1>9. writes' \in Nat /\ writes' > 0 BY ONLY <1>2, <1>w
<1>10. stack' \in Seq(Opening) /\ Len(stack') = Len(stack) + 1 /\ Len(stack') > 0
  BY ONLY <1>2, <1>w, open \in Opening
<1>11. Rooted(stack', members')
  <2>1. ASSUME Len(stack') >= 2 PROVE stack # <<>>
    <3>1. Len(stack) # 0 BY <1>10, <2>1
    <3>2. Len(<<>>) = 0 OBVIOUS
    <3>. QED BY <3>1, <3>2, Zenon
  <2>. QED BY <1>6, <2>1 DEF Rooted
<1>12. ASSUME SoundWriter(writer')
       PROVE  /\ writer'.depth = Len(stack')
              /\ State(writer'.text, SepOf(writer'), stack', members', writes')
  <2>1. /\ SoundWriter(writer) /\ writer.depth < MaxJsonDepth /\ writer'.depth = writer.depth + 1
        /\ writer'.needs_comma = FALSE
        /\ writer'.text = writer.text \o Item(SepOf(writer), key, <<open>>)
    BY <1>7, <1>12, Zenon DEF OpenPuts
  <2>2. writer.depth = Len(stack) /\ State(writer.text, SepOf(writer), stack, members, writes)
    BY <2>1, Zenon DEF JsonInv
  <2>3. writer'.depth = Len(stack') BY <1>10, <2>1, <2>2
  <2>4. SepOf(writer') = <<>> BY <2>1, SepIs
  <2>5. Len(stack) < MaxJsonDepth BY <2>1, <2>2
  <2>6. \E s : Inside(writer'.text, Append(stack, open), s, <<>>, members')
    <3> DEFINE y == writer'.text
               ms == members'
    <3>1. /\ y = writer.text \o Item(SepOf(writer), key, <<open>>)
          /\ stack = <<>> => ms = members
          /\ stack # <<>> => Remembers(ms, members, Len(stack), key, TypeOf(open))
      BY <1>6, <2>1
    <3> HIDE DEF y, ms
    <3>2. stack = <<>> => writes = 0 BY <1>1
    <3>3. \E s : Inside(y, Append(stack, open), s, <<>>, ms)
      BY ONLY <1>2, <2>2, <2>5, <3>1, <3>2, key \in KeysHere, open \in Opening, OpenState
    <3>. QED BY <3>3 DEF y, ms
  <2>7. State(writer'.text, SepOf(writer'), stack', members', writes')
    BY <1>1, <1>9, <1>10, <2>4, <2>6, Zenon DEF State
  <2>. QED BY <2>3, <2>7
<1>. QED BY ONLY <1>6, <1>8, <1>9, <1>10, <1>11, <1>12, Zenon DEF JsonInv
-----------------------------------------------------------------------------

\* What json_object_close and json_array_close make of the writer.
ClosePuts(q, w, c) ==
    /\ q \in Writers
    /\ SoundWriter(q) => /\ SoundWriter(w) /\ w.depth # 0 /\ q.depth = w.depth - 1
                   /\ q.needs_comma = TRUE /\ q.text = w.text \o <<c>>

LEMMA CloseIsPut ==
    ASSUME NEW w \in Writers, NEW open \in Opening
    PROVE  ClosePuts(CloseContainer(w, open), w, Closing(open))
<1> DEFINE q == CloseContainer(w, open)
           c == Closing(open)
           p == PutAll(w, <<c>>)
<1>1. w.depth \in Nat BY WriterIs
<1>2. q = IF w.depth = 0 THEN [w EXCEPT !.malformed = TRUE]
          ELSE [p EXCEPT !.depth = @ - 1, !.needs_comma = TRUE]
  BY DEF CloseContainer
<1>3. <<c>> \in Texts
  <2>1. c = "}" \/ c = "]" BY DEF Closing
  <2>2. c \in Characters BY <2>1, SignsAreCharacters
  <2> HIDE DEF c
  <2>. QED BY <2>2, OneCharacter
<1>4. Puts(p, w, <<c>>) BY <1>3, PutAllPuts
<1>5. p \in Writers BY <1>4 DEF Puts
<1> HIDE DEF q, p, c
<1>6. CASE w.depth = 0
  <2>1. q = [w EXCEPT !.malformed = TRUE] BY <1>2, <1>6, Zenon
  <2>2. q \in Writers /\ q.malformed = TRUE BY <2>1 DEF Writers
  <2>3. ~SoundWriter(q) BY <2>2, Zenon DEF SoundWriter
  <2>. QED BY <2>2, <2>3, Zenon DEF ClosePuts, q
<1>7. CASE w.depth # 0
  <2> DEFINE d == p.depth - 1
  <2>1. q = [p EXCEPT !.depth = @ - 1, !.needs_comma = TRUE] BY <1>2, <1>7, Zenon
  <2>2. q = [p EXCEPT !.depth = d, !.needs_comma = TRUE] BY <2>1, Zenon
  <2>3. p.depth = w.depth BY <1>4, Zenon DEF Puts
  <2>4. d \in Nat /\ d = w.depth - 1 BY ONLY <1>1, <1>7, <2>3
  <2> HIDE DEF d
  <2>5. /\ q \in Writers /\ q.depth = d /\ q.needs_comma = TRUE /\ q.text = p.text
        /\ q.overflowed = p.overflowed /\ q.malformed = p.malformed
    BY <1>5, <2>2, <2>4 DEF Writers
  <2>6. ASSUME SoundWriter(q)
        PROVE  SoundWriter(w) /\ q.text = w.text \o <<c>>
    <3>1. ~p.overflowed /\ ~p.malformed BY <2>5, <2>6, Zenon DEF SoundWriter
    <3>2. ~w.overflowed /\ ~w.malformed /\ p.text = w.text \o <<c>>
      BY <1>4, <3>1, Zenon DEF Puts
    <3>. QED BY <2>5, <3>2, Zenon DEF SoundWriter
  <2>. QED BY <1>7, <2>4, <2>5, <2>6, Zenon DEF ClosePuts, q, c
<1>. QED BY <1>6, <1>7

\* One container less is open, or the document is complete.
LEMMA CloseState ==
    ASSUME stack \in Seq(Opening), stack # <<>>, writer \in Writers,
           members \in Seq(MemberRecords), Rooted(stack, members),
           State(writer.text, SepOf(writer), stack, members, writes),
           NEW y, y = writer.text \o <<Closing(stack[Len(stack)])>>,
           NEW st1, st1 = SubSeq(stack, 1, Len(stack) - 1)
    PROVE  State(y, <<",">>, st1, members, writes)
<1> DEFINE k == Len(stack)
           w == writer.text
           sep == SepOf(writer)
           m == members
           st == stack
<1>1. k \in Nat \ {0} /\ k > 0 OBVIOUS
<1>2. w \in Texts /\ sep \in Separators BY WriterIs, SepIs
<1>3. /\ writes > 0 /\ \E s : Inside(w, st, s, sep, m)
  <2>1. Len(stack) > 0 BY <1>1
  <2>. QED BY <2>1, IsInside
<1>4. PICK s : Inside(w, st, s, sep, m) BY <1>3
<1>5. /\ st \in Seq(Opening) /\ k = Len(st) /\ y = w \o <<Closing(st[Len(st)])>>
      /\ st1 = SubSeq(st, 1, Len(st) - 1)
  OBVIOUS
<1>6. Len(m) \in Nat OBVIOUS
<1>7. k >= 2 => Len(m[Len(m)].items) \in Nat
  <2>1. ASSUME k >= 2 PROVE m[Len(m)] \in MemberRecords
    <3>1. Len(m) > 0 BY <2>1 DEF Rooted
    <3>. QED BY <3>1
  <2>. QED BY <2>1, MemberIs
<1>8. k = 1 => st1 = <<>> OBVIOUS
<1>9. k >= 2 => Len(st1) > 0 OBVIOUS
<1> HIDE DEF k, w, sep, m, st
<1>10. CASE k = 1
  <2>1. Len(st) = 1 BY <1>5, <1>10
  <2>2. ReadsBack(y, m) BY ONLY <1>2, <1>4, <1>5, <1>6, <2>1, DocumentReadsBack
  <2>3. st1 = <<>> BY <1>8, <1>10
  <2>. QED BY <1>3, <2>2, <2>3, Zenon DEF State, m
<1>11. CASE k # 1
  <2>1. k \in Nat /\ k >= 2 BY ONLY <1>1, <1>11
  <2>2. Inside(y, st1, s, <<",">>, m)
    <3>1. Len(m[Len(m)].items) \in Nat BY <1>7, <2>1
    <3>. QED BY ONLY <1>2, <1>4, <1>5, <1>6, <2>1, <3>1, InsideClosed
  <2>3. Len(st1) > 0 BY <1>9, <2>1
  <2>. QED BY <1>3, <2>2, <2>3, Zenon DEF State, m
<1>. QED BY <1>10, <1>11

LEMMA CloseStep ==
    ASSUME JsonInv, Close
    PROVE  JsonInv'
<1>1. /\ stack # <<>> /\ writer' = CloseContainer(writer, stack[Len(stack)])
      /\ stack' = SubSeq(stack, 1, Len(stack) - 1) /\ members' = members /\ writes' = writes
  BY DEF Close
<1>2. /\ writer \in Writers /\ stack \in Seq(Opening) /\ members \in Seq(MemberRecords)
      /\ writes \in Nat /\ Rooted(stack, members)
  BY ONLY JsonInv, Zenon DEF JsonInv
<1> DEFINE open == stack[Len(stack)]
<1>3. open \in Opening /\ Len(stack) \in Nat \ {0} BY <1>1, <1>2
<1>4. stack' \in Seq(Opening) /\ Len(stack') = Len(stack) - 1
  <2> DEFINE n == Len(stack) - 1
  <2>1. stack' = SubSeq(stack, 1, n) /\ n \in Nat /\ n <= Len(stack) BY <1>1, <1>3
  <2> HIDE DEF n
  <2>2. stack' \in Seq(Opening) /\ Len(stack') = n BY ONLY <1>2, <2>1
  <2>. QED BY <2>2 DEF n
<1>5. writer' = CloseContainer(writer, open) BY <1>1
<1>s. open = stack[Len(stack)] OBVIOUS
<1> HIDE DEF open
<1>6. ClosePuts(writer', writer, Closing(open)) BY <1>2, <1>3, <1>5, CloseIsPut
<1>7. writer' \in Writers BY <1>6 DEF ClosePuts
<1>8. Rooted(stack', members')
  <2>1. Len(stack') >= 2 => Len(stack) >= 2 BY ONLY <1>3, <1>4
  <2>. QED BY <1>1, <1>2, <2>1 DEF Rooted
<1>9. ASSUME SoundWriter(writer')
      PROVE  /\ writer'.depth = Len(stack')
             /\ State(writer'.text, SepOf(writer'), stack', members', writes')
  <2>1. /\ SoundWriter(writer) /\ writer'.depth = writer.depth - 1
        /\ writer'.needs_comma = TRUE /\ writer'.text = writer.text \o <<Closing(open)>>
    BY <1>6, <1>9, Zenon DEF ClosePuts
  <2>2. writer.depth = Len(stack) /\ State(writer.text, SepOf(writer), stack, members, writes)
    BY <2>1, Zenon DEF JsonInv
  <2>3. writer'.depth = Len(stack') BY <1>4, <2>1, <2>2
  <2>4. SepOf(writer') = <<",">> BY <2>1, SepIs
  <2>5. State(writer'.text, <<",">>, stack', members, writes)
    <3> DEFINE y == writer'.text
               st1 == stack'
    <3>1. y = writer.text \o <<Closing(stack[Len(stack)])>>
          /\ st1 = SubSeq(stack, 1, Len(stack) - 1) /\ stack # <<>>
      BY <1>1, <1>s, <2>1
    <3> HIDE DEF y, st1
    <3>2. State(y, <<",">>, st1, members, writes)
      BY ONLY <1>2, <2>2, <3>1, CloseState
    <3>. QED BY <3>2 DEF y, st1
  <2>. QED BY <1>1, <2>3, <2>4, <2>5, Zenon
<1>10. members' \in Seq(MemberRecords) /\ writes' \in Nat BY ONLY <1>1, <1>2
<1>11. stack' \in Seq(Opening) BY <1>4
<1>. QED BY ONLY <1>7, <1>8, <1>9, <1>10, <1>11, Zenon DEF JsonInv

LEMMA JsonStep ==
    ASSUME JsonInv, [JsonNext]_jsonVars
    PROVE  JsonInv'
<1>1. CASE Open BY <1>1, OpenStep
<1>2. CASE Close BY <1>2, CloseStep
<1>3. CASE WriteInt BY <1>3, IntStep
<1>4. CASE WriteLiteral BY <1>4, LiteralStep
<1>5. CASE WriteString BY <1>5, StringStep
<1>6. CASE UNCHANGED jsonVars BY <1>6, JsonRests
<1>. QED BY <1>1, <1>2, <1>3, <1>4, <1>5, <1>6, Zenon DEF JsonNext

\* Whatever the keys, the strings, the depth and the buffer are: a document that
\* json_writer_finish approves is valid, json_find gives for each key what was
\* written first under it at the root and for no other key, an array has the
\* elements it was given, and no beginning of the document yields anything.
THEOREM JsonCorrect == JsonSpec => []JsonReadsWhatWasWritten
<1>1. JsonInit => JsonInv BY JsonBegins
<1>2. JsonInv /\ [JsonNext]_jsonVars => JsonInv' BY JsonStep
<1>3. JsonInv => JsonReadsWhatWasWritten BY JsonHolds
<1>. QED BY <1>1, <1>2, <1>3, PTL DEF JsonSpec
=============================================================================
