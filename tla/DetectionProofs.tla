----------------------------- MODULE DetectionProofs -----------------------------
(* Proofs about Detection, for any customers, amounts, windows, thresholds,     *)
(* burst sizes and bounds.                                                      *)
EXTENDS Detection, LeastElement

\* What is assumed of the constants, spelled out.
LEMMA Constants ==
    /\ NoCustomer \notin Customer
    /\ MinAmount \in Nat /\ MinAmount > 0 /\ MaxAmount \in Nat
    /\ Hour \in Nat /\ Day \in Nat /\ Month \in Nat /\ Hour <= Day /\ Day <= Month
    /\ Hour > 0 /\ Second \in Nat /\ Second > 0
    /\ Far \in Nat /\ Far > 0 /\ SpeedLimit \in Nat
    /\ Outlier \in Nat /\ Outlier > 0 /\ Precision \in Nat /\ Precision > 0
    /\ HighHour \in Nat /\ HighHour > 0 /\ HighDay \in Nat
    /\ MaxEvents \in Nat /\ MaxCorrupt \in Nat
    /\ Moments \subseteq Nat \ {0}
    /\ StoreCap \in Nat /\ StoreCap + 1 >= HighDay
    /\ Requested \subseteq Int
BY TransactionAssumption, GeneratorAssumption, OnlineAssumption

\* Amounts that are drawn are above the minimum.
LEMMA AmountsDrawn ==
    /\ Probe \in Nat /\ Probe > MinAmount
    /\ \A a \in Spend \cup Hits : a \in Nat /\ a > MinAmount
BY GeneratorAssumption

LEMMA Product ==
    ASSUME NEW a \in Nat, NEW f \in Nat \ {0}
    PROVE  a * f \in Nat /\ a * f >= a
BY Z3

LEMMA OutlierDrawn ==
    ASSUME NEW a \in Spend, NEW f \in Factors
    PROVE  a * f \in Nat /\ a * f > MinAmount
<1>1. a \in Nat /\ a > MinAmount /\ f \in Nat \ {0}
  BY GeneratorAssumption
<1>2. a * f \in Nat /\ a * f >= a
  BY <1>1, Product
<1> QED
  BY <1>1, <1>2, Constants

LEMMA Steeper ==
    ASSUME NEW n \in Nat, NEW i \in 1 .. n, NEW s \in Nat
    PROVE  (i - 1) * s \in Nat /\ (i - 1) * s <= (n - 1) * s
BY Z3

-----------------------------------------------------------------------------
(* Seconds and ticks.                                                       *)

LEMMA Divides ==
    ASSUME NEW t \in Nat, NEW s \in Nat \ {0}
    PROVE  t \div s \in Nat /\ (t \div s) * s <= t /\ t < (t \div s) * s + s
<1>1. t \div s \in Nat
  BY Z3
<1>2. (t \div s) * s <= t /\ t < (t \div s) * s + s
  BY Z3
<1> QED
  BY <1>1, <1>2

LEMMA Scaled ==
    ASSUME NEW a \in Nat, NEW b \in Nat, NEW s \in Nat \ {0}
    PROVE  /\ a * s \in Nat /\ b * s \in Nat
           /\ a <= b => a * s <= b * s
           /\ a < b => a * s + s <= b * s
           /\ (a + b) * s = a * s + b * s
<1>1. a * s \in Nat /\ b * s \in Nat
  OBVIOUS
<1>2. a <= b => a * s <= b * s
  BY Z3
<1>3. a < b => a * s + s <= b * s
  BY Z3
<1>4. (a + b) * s = a * s + b * s
  BY Z3
<1> QED
  BY <1>1, <1>2, <1>3, <1>4

\* Seconds are in the order of the ticks. What lies w seconds back, to the tick, lies w
\* whole seconds back; for the converse one more second is needed.
LEMMA Seconds ==
    ASSUME NEW t \in Nat, NEW u \in Nat, NEW w \in Nat
    PROVE  /\ _seconds(t) \in Nat /\ _seconds(u) \in Nat /\ w * Second \in Nat
           /\ t <= u => _seconds(t) <= _seconds(u)
           /\ u - t <= w * Second => _seconds(u) - _seconds(t) <= w
           /\ _seconds(u) - _seconds(t) < w => u - t <= w * Second
<1>1. PICK s, a, b : s = Second /\ a = t \div s /\ b = u \div s
  OBVIOUS
<1>2. s \in Nat \ {0} /\ a = _seconds(t) /\ b = _seconds(u)
  BY <1>1, Constants DEF _seconds
<1>3. /\ a \in Nat /\ a * s <= t /\ t < a * s + s
      /\ b \in Nat /\ b * s <= u /\ u < b * s + s
  BY <1>1, <1>2, Divides
<1>4. PICK as, bs, ws : as = a * s /\ bs = b * s /\ ws = w * s
  OBVIOUS
<1>5. as \in Nat /\ bs \in Nat /\ ws \in Nat
  BY <1>2, <1>3, <1>4
<1>6. t <= u => a <= b
  <2>1. b < a => bs + s <= as
    BY <1>2, <1>3, <1>4, Scaled
  <2> QED
    BY <1>2, <1>3, <1>4, <1>5, <2>1
<1>7. a + w \in Nat /\ (a + w) * s = as + ws
  BY <1>2, <1>3, <1>4, Scaled
<1>8. u - t <= ws => b - a <= w
  <2>1. a + w < b => (as + ws) + s <= bs
    BY <1>2, <1>3, <1>4, <1>7, Scaled
  <2> QED
    BY <1>2, <1>3, <1>4, <1>5, <2>1
<1>9. b - a < w => u - t <= ws
  <2>1. b < a + w => bs + s <= as + ws
    BY <1>2, <1>3, <1>4, <1>7, Scaled
  <2> QED
    BY <1>2, <1>3, <1>4, <1>5, <2>1
<1> QED
  BY <1>1, <1>2, <1>3, <1>4, <1>5, <1>6, <1>8, <1>9

\* A burst is over within the hour.
LEMMA BurstSpan ==
    ASSUME NEW n \in BurstSizes, NEW i \in 1 .. n, NEW s \in [1 .. n -> Steps], clock \in Nat
    PROVE  /\ BurstTime(i, s) \in Nat /\ clock <= BurstTime(i, s)
           /\ BurstTime(i, s) <= clock + Hour * Second
<1>1. n \in Nat /\ s[i] \in Nat /\ (n - 1) * s[i] <= Hour
  BY GeneratorAssumption
<1>2. (i - 1) * s[i] \in Nat /\ (i - 1) * s[i] <= (n - 1) * s[i]
  BY <1>1, Steeper
<1> DEFINE late == (i - 1) * s[i]
<1>3. (n - 1) * s[i] \in Int
  BY <1>1
<1>4. late \in Nat /\ late <= Hour
  BY <1>1, <1>2, <1>3, Constants
<1>5. BurstTime(i, s) = clock + late * Second
  BY DEF BurstTime
<1> QED
  <2> HIDE DEF late
  <2>1. late * Second \in Nat /\ late * Second <= Hour * Second
    BY <1>4, Constants, Scaled
  <2> QED
    BY <1>5, <2>1, Constants

-----------------------------------------------------------------------------
(* The stream.                                                              *)

\* The i-th event as the generator makes it.
Sound(e, i) ==
    /\ e \in Event
    /\ e.id = i
    /\ e.customer \in Customer
    /\ e.amount > MinAmount
    /\ e.t > 0
    /\ e.place \in Merchants
    /\ e.burst <= i
    /\ e.mode = "none"

\* The i-th event as the producer writes it.
Came(e, i) == \E o \in Event : Sound(o, i) /\ (e = o \/ \E mode \in Modes : e = corrupt(o, mode))

\* Transactions of one burst are of one customer and no more than an hour apart, unless a
\* damaged field hides it.
Coherent(e, f) ==
    e.burst = f.burst /\ e.burst # 0 =>
        /\ e.customer = f.customer \/ e.customer = NoCustomer \/ f.customer = NoCustomer
        /\ e.t <= f.t + Hour * Second \/ f.t = Unparsed

InPlay == Emitted \cup {pending[j] : j \in 1 .. Len(pending)}

StreamInv ==
    /\ \A i \in 1 .. Len(emitted) : Came(emitted[i], i)
    /\ \A j \in 1 .. Len(pending) : Sound(pending[j], Len(emitted) + j)
    /\ \A e, f \in InPlay : Coherent(e, f)

\* What corrupt changes of an event: one field, and the mode.
LEMMA CorruptFields ==
    ASSUME NEW o \in Event, NEW mode \in Modes
    PROVE  /\ corrupt(o, mode) \in Event
           /\ corrupt(o, mode).id = IF mode = "null_transaction_id" THEN NoId ELSE o.id
           /\ corrupt(o, mode).customer = IF mode = "missing_customer_id" THEN NoCustomer ELSE o.customer
           /\ corrupt(o, mode).amount = IF mode = "non_numeric_amount" THEN NaN
                                        ELSE IF mode = "negative_amount" THEN -o.amount
                                        ELSE o.amount
           /\ corrupt(o, mode).t = IF mode = "bad_timestamp" THEN Unparsed ELSE o.t
           /\ corrupt(o, mode).place = IF mode = "out_of_range_geo" THEN "nowhere" ELSE o.place
           /\ corrupt(o, mode).burst = o.burst
           /\ corrupt(o, mode).mode = mode
<1> USE DEF corrupt, Event, NoId, NaN, Unparsed, Place
<1>0. -o.amount \in Int /\ 0 \in Int /\ 0 \in Nat /\ "nowhere" \in Place
  OBVIOUS
<1>1. CASE mode = "null_transaction_id"
  BY <1>1 DEF Modes
<1>2. CASE mode = "missing_customer_id"
  BY <1>2 DEF Modes
<1>3. CASE mode = "non_numeric_amount"
  BY <1>0, <1>3 DEF Modes
<1>4. CASE mode = "negative_amount"
  BY <1>0, <1>4 DEF Modes
<1>5. CASE mode = "bad_timestamp"
  BY <1>5 DEF Modes
<1>6. CASE mode = "unknown_merchant"
  BY <1>6 DEF Modes
<1>7. CASE mode = "out_of_range_geo"
  BY <1>7 DEF Modes
<1> QED
  BY <1>1, <1>2, <1>3, <1>4, <1>5, <1>6, <1>7 DEF Modes

\* Damage does not bring events of a burst into disagreement.
LEMMA CorruptCoherent ==
    ASSUME NEW o \in Event, NEW mode \in Modes, NEW f \in Event
    PROVE  /\ Coherent(o, f) => Coherent(corrupt(o, mode), f)
           /\ Coherent(f, o) => Coherent(f, corrupt(o, mode))
<1> DEFINE e == corrupt(o, mode)
<1>1. /\ e.burst = o.burst
      /\ e.customer = o.customer \/ e.customer = NoCustomer
      /\ e.t = o.t \/ e.t = Unparsed
  <2>1. e.burst = o.burst
    BY CorruptFields, Zenon
  <2>2. e.customer = o.customer \/ e.customer = NoCustomer
    <3>1. e.customer = IF mode = "missing_customer_id" THEN NoCustomer ELSE o.customer
      BY CorruptFields, Zenon
    <3> HIDE DEF e
    <3> QED
      BY <3>1
  <2>3. e.t = o.t \/ e.t = Unparsed
    <3>1. e.t = IF mode = "bad_timestamp" THEN Unparsed ELSE o.t
      BY CorruptFields, Zenon
    <3> HIDE DEF e
    <3> QED
      BY <3>1
  <2> QED
    BY <2>1, <2>2, <2>3
<1>2. o.t \in Nat /\ f.t \in Nat
  BY DEF Event
<1> HIDE DEF e
<1>3. (Coherent(o, f) => Coherent(e, f)) /\ (Coherent(f, o) => Coherent(f, e))
  BY <1>1, <1>2, Constants DEF Coherent, Unparsed
<1> QED
  BY <1>3 DEF e

\* Appending adds one event at the end.
LEMMA AppendEvent ==
    ASSUME NEW s \in Seq(Event), NEW e \in Event
    PROVE  /\ Append(s, e) \in Seq(Event)
           /\ Len(Append(s, e)) = Len(s) + 1 /\ Len(s) \in Nat
           /\ \A i \in 1 .. Len(s) : Append(s, e)[i] = s[i]
           /\ Append(s, e)[Len(s) + 1] = e
OBVIOUS

\* The producer writes the next event of the stream, damaged or not, and what is left
\* pending still follows it.
LEMMA EmitInv ==
    ASSUME GeneratorTypeOK, StreamInv, NEW e, Sound(e, Len(emitted) + 1), Emit(e),
           pending' \in Seq(Event),
           \A j \in 1 .. Len(pending') : Sound(pending'[j], Len(emitted) + 1 + j),
           \A x, y \in Emitted \cup {e} \cup {pending'[j] : j \in 1 .. Len(pending')} : Coherent(x, y)
    PROVE  /\ emitted' \in Seq(Event) /\ Len(emitted') = Len(emitted) + 1
           /\ \A i \in 1 .. Len(emitted) : emitted'[i] = emitted[i]
           /\ corrupted' \in 0 .. MaxCorrupt
           /\ StreamInv'
<1>1. PICK x : emitted' = Append(emitted, x) /\ (x = e \/ \E mode \in Modes : x = corrupt(e, mode))
  BY DEF Emit
<1>2. e \in Event /\ emitted \in Seq(Event)
  BY DEF Sound, GeneratorTypeOK
<1>3. x \in Event
  <2>1. \A mode \in Modes : corrupt(e, mode) \in Event
    BY <1>2, CorruptFields, Zenon
  <2> QED
    BY <1>1, <1>2, <2>1, Zenon
<1>4. /\ emitted' \in Seq(Event) /\ Len(emitted') = Len(emitted) + 1 /\ Len(emitted) \in Nat
      /\ \A i \in 1 .. Len(emitted) : emitted'[i] = emitted[i]
      /\ emitted'[Len(emitted) + 1] = x
  BY <1>1, <1>2, <1>3, AppendEvent
<1>5. corrupted' \in 0 .. MaxCorrupt
  BY Constants DEF Emit, GeneratorTypeOK
<1>6. ASSUME NEW i \in 1 .. Len(emitted')
      PROVE  Came(emitted'[i], i)
  <2>1. CASE i \in 1 .. Len(emitted)
    BY <1>4, <2>1 DEF StreamInv
  <2>2. CASE i = Len(emitted) + 1
    BY <1>1, <1>2, <1>4, <2>2 DEF Came
  <2> QED
    BY <1>4, <2>1, <2>2
<1>7. ASSUME NEW j \in 1 .. Len(pending')
      PROVE  Sound(pending'[j], Len(emitted') + j)
  BY <1>4
<1>8. \A a, b \in InPlay' : Coherent(a, b)
  <2> DEFINE Q == {pending'[j] : j \in 1 .. Len(pending')}
             O == Emitted \cup {e} \cup Q
  <2>1. InPlay' \subseteq Emitted \cup {x} \cup Q
    BY <1>4 DEF InPlay, Emitted
  <2>2. O \subseteq Event
    BY <1>2 DEF Emitted
  <2>3. e \in O /\ \A a, b \in O : Coherent(a, b)
    OBVIOUS
  <2>4. ASSUME NEW a \in O
        PROVE  Coherent(a, x) /\ Coherent(x, a)
    <3> HIDE DEF O
    <3>1. a \in Event /\ Coherent(a, e) /\ Coherent(e, a)
      BY <2>2, <2>3
    <3> QED
      BY <1>1, <1>2, <3>1, CorruptCoherent
  <2>5. Coherent(x, x)
    <3>1. Coherent(x, e)
      BY <2>4
    <3> QED
      BY <1>1, <1>2, <1>3, <3>1, CorruptCoherent
  <2> QED
    BY <2>1, <2>3, <2>4, <2>5
<1> QED
  BY <1>4, <1>5, <1>6, <1>7, <1>8 DEF StreamInv

\* Events that belong to no burst are coherent with all.
LEMMA Loner ==
    ASSUME NEW e, e.burst = 0, NEW x
    PROVE  Coherent(e, x) /\ Coherent(x, e)
BY DEF Coherent

\* A generator that has emitted and queued what follows keeps its types.
GeneratorInv == GeneratorTypeOK /\ StreamInv

LEMMA DrainInv ==
    ASSUME GeneratorInv, Drain
    PROVE  GeneratorInv'
<1>1. /\ pending \in Seq(Event) /\ emitted \in Seq(Event) /\ pending # <<>>
      /\ Emit(Head(pending)) /\ pending' = Tail(pending) /\ clock' = clock
  BY DEF GeneratorInv, GeneratorTypeOK, Drain
<1>2. /\ pending' \in Seq(Event) /\ Len(pending') = Len(pending) - 1 /\ Len(pending) \in Nat
      /\ Len(pending) > 0 /\ Head(pending) = pending[1]
      /\ \A j \in 1 .. Len(pending') : pending'[j] = pending[j + 1]
  BY <1>1
<1>3. Len(emitted) \in Nat
  BY <1>1
<1>4. Sound(Head(pending), Len(emitted) + 1)
  BY <1>2 DEF GeneratorInv, StreamInv
<1>5. ASSUME NEW j \in 1 .. Len(pending')
      PROVE  Sound(pending'[j], Len(emitted) + 1 + j)
  <2>1. j + 1 \in 1 .. Len(pending) /\ pending'[j] = pending[j + 1]
    BY <1>2
  <2>2. Sound(pending[j + 1], Len(emitted) + (j + 1))
    BY <2>1 DEF GeneratorInv, StreamInv
  <2>3. Len(emitted) + (j + 1) = Len(emitted) + 1 + j
    BY <1>3
  <2> QED
    BY <2>1, <2>2, <2>3
<1>6. Emitted \cup {Head(pending)} \cup {pending'[j] : j \in 1 .. Len(pending')} \subseteq InPlay
  BY <1>2 DEF InPlay
<1>7. /\ emitted' \in Seq(Event) /\ Len(emitted') = Len(emitted) + 1
      /\ corrupted' \in 0 .. MaxCorrupt /\ StreamInv'
  BY <1>1, <1>2, <1>4, <1>5, <1>6, EmitInv DEF GeneratorInv, StreamInv
<1> QED
  BY <1>1, <1>2, <1>3, <1>7, Constants DEF GeneratorInv, GeneratorTypeOK

\* A single event is what is built for a merchant's place and a drawn amount.
LEMMA SingleInv ==
    ASSUME GeneratorInv, Fresh(1), NEW c \in Customer, NEW a \in Nat, a > MinAmount,
           NEW p \in Merchants, Emit(Build(1, c, a, p)), UNCHANGED pending
    PROVE  GeneratorInv'
<1> DEFINE e == Build(1, c, a, p)
<1>1. /\ pending = <<>> /\ emitted \in Seq(Event) /\ Len(emitted) \in Nat
      /\ clock \in Moments /\ clock' = clock /\ Len(emitted) + 1 <= MaxEvents
  BY DEF GeneratorInv, GeneratorTypeOK, Fresh
<1>2. clock \in Nat /\ clock > 0
  BY <1>1, Constants
<1>3. e \in Event
  BY <1>1, <1>2 DEF Build, Event, Place, Merchants
<1>4. Sound(e, Len(emitted) + 1) /\ e.burst = 0
  BY <1>1, <1>2, <1>3 DEF Sound, Build
<1> HIDE DEF e
<1>5. pending' = <<>> /\ pending' \in Seq(Event) /\ Len(pending') = 0
  BY <1>1
<1>6. \A x, y \in Emitted \cup {e} \cup {pending'[j] : j \in 1 .. Len(pending')} : Coherent(x, y)
  <2>1. \A x, y \in Emitted : Coherent(x, y)
    BY DEF GeneratorInv, StreamInv, InPlay
  <2>2. \A x : Coherent(e, x) /\ Coherent(x, e)
    BY <1>4, Loner
  <2> QED
    BY <1>5, <2>1, <2>2
<1>7. \A j \in 1 .. Len(pending') : Sound(pending'[j], Len(emitted) + 1 + j)
  BY <1>5
<1>8. Emit(e)
  BY DEF e
<1>9. /\ emitted' \in Seq(Event) /\ Len(emitted') = Len(emitted) + 1
      /\ corrupted' \in 0 .. MaxCorrupt /\ StreamInv'
  BY <1>4, <1>5, <1>6, <1>7, <1>8, EmitInv DEF GeneratorInv
<1> QED
  BY <1>1, <1>5, <1>9 DEF GeneratorInv, GeneratorTypeOK

\* The i-th event of a burst of the customer c.
Card(i, n, c, hit, s, p) ==
    [Build(i, c, IF i <= n \div 2 THEN Probe ELSE hit, p[i])
       EXCEPT !.t = BurstTime(i, s), !.burst = Len(emitted) + 1]

LEMMA CardFields ==
    ASSUME GeneratorInv, NEW n \in BurstSizes, NEW i \in 1 .. n, NEW c \in Customer,
           NEW hit \in Hits, NEW s \in [1 .. n -> Steps], NEW p \in [1 .. n -> Merchants]
    PROVE  LET e == Card(i, n, c, hit, s, p) IN
           /\ e \in Event
           /\ Sound(e, Len(emitted) + i)
           /\ e.burst = Len(emitted) + 1
           /\ e.customer = c
           /\ clock <= e.t /\ e.t <= clock + Hour * Second
<1> DEFINE amount == IF i <= n \div 2 THEN Probe ELSE hit
           e == Card(i, n, c, hit, s, p)
<1>1. amount \in Nat /\ amount > MinAmount
  BY AmountsDrawn
<1>2. clock \in Nat /\ clock > 0 /\ n \in Nat
  BY Constants, GeneratorAssumption DEF GeneratorInv, GeneratorTypeOK
<1>3. /\ BurstTime(i, s) \in Nat /\ clock <= BurstTime(i, s)
      /\ BurstTime(i, s) <= clock + Hour * Second
  BY <1>2, BurstSpan
<1>4. Len(emitted) \in Nat
  BY DEF GeneratorInv, GeneratorTypeOK
<1>5. p[i] \in Merchants
  OBVIOUS
<1>6. e = [id |-> Len(emitted) + i, customer |-> c, amount |-> amount,
           t |-> BurstTime(i, s), place |-> p[i], burst |-> Len(emitted) + 1, mode |-> "none"]
  <2>1. e = [Build(i, c, amount, p[i]) EXCEPT !.t = BurstTime(i, s), !.burst = Len(emitted) + 1]
    BY Zenon DEF Card
  <2> HIDE DEF amount, e
  <2> QED
    BY <2>1 DEF Build
<1> HIDE DEF amount
<1> HIDE DEF e
<1>7. e \in Event
  BY <1>1, <1>2, <1>3, <1>4, <1>5, <1>6 DEF Event, Place, Merchants
<1>8. e.burst <= Len(emitted) + i /\ e.t > 0
  BY <1>2, <1>3, <1>4, <1>6
<1>9. Sound(e, Len(emitted) + i)
  BY <1>1, <1>5, <1>6, <1>7, <1>8 DEF Sound
<1> QED
  BY <1>3, <1>6, <1>7, <1>9 DEF e

LEMMA BurstInv ==
    ASSUME GeneratorInv, _velocity_burst
    PROVE  GeneratorInv'
<1>1. PICK c \in Customer, n \in BurstSizes, hit \in Hits :
        /\ Fresh(n)
        /\ \E s \in [1 .. n -> Steps], p \in [1 .. n -> Merchants] :
             LET burst == [i \in 1 .. n |-> Card(i, n, c, hit, s, p)]
             IN  Emit(burst[1]) /\ pending' = Tail(burst)
  BY DEF _velocity_burst, Card
<1>2. PICK s \in [1 .. n -> Steps], p \in [1 .. n -> Merchants] :
        LET burst == [i \in 1 .. n |-> Card(i, n, c, hit, s, p)]
        IN  Emit(burst[1]) /\ pending' = Tail(burst)
  BY <1>1
<1> DEFINE burst == [i \in 1 .. n |-> Card(i, n, c, hit, s, p)]
<1>3. /\ pending = <<>> /\ emitted \in Seq(Event) /\ Len(emitted) \in Nat
      /\ clock \in Moments /\ clock' = clock /\ Len(emitted) + n <= MaxEvents
      /\ n \in Nat \ {0} /\ clock \in Nat
  BY <1>1, GeneratorAssumption DEF GeneratorInv, GeneratorTypeOK, Fresh
<1>4. \A i \in 1 .. n :
        /\ burst[i] \in Event
        /\ Sound(burst[i], Len(emitted) + i)
        /\ burst[i].burst = Len(emitted) + 1
        /\ burst[i].customer = c
        /\ clock <= burst[i].t /\ burst[i].t <= clock + Hour * Second
  BY CardFields
<1>5. burst \in Seq(Event) /\ Len(burst) = n
  BY <1>3, <1>4
<1>6. Emit(burst[1]) /\ pending' = Tail(burst)
  BY <1>2
<1> HIDE DEF burst
<1>7. /\ pending' \in Seq(Event) /\ Len(pending') = n - 1
      /\ \A j \in 1 .. Len(pending') : pending'[j] = burst[j + 1] /\ j + 1 \in 1 .. n
  BY <1>3, <1>5, <1>6
<1>8. Sound(burst[1], Len(emitted) + 1)
  BY <1>3, <1>4
<1>9. ASSUME NEW j \in 1 .. Len(pending')
      PROVE  Sound(pending'[j], Len(emitted) + 1 + j)
  <2>1. Sound(burst[j + 1], Len(emitted) + (j + 1))
    BY <1>4, <1>7
  <2>2. Len(emitted) + (j + 1) = Len(emitted) + 1 + j
    BY <1>3, <1>7
  <2> QED
    BY <1>7, <2>1, <2>2
<1>10. \A x, y \in Emitted \cup {burst[1]} \cup {pending'[j] : j \in 1 .. Len(pending')} : Coherent(x, y)
  <2> DEFINE B == {burst[i] : i \in 1 .. n}
  <2>1. {burst[1]} \cup {pending'[j] : j \in 1 .. Len(pending')} \subseteq B
    <3>1. 1 \in 1 .. n
      BY <1>3
    <3>2. burst[1] \in B
      BY <3>1
    <3>3. \A j \in 1 .. Len(pending') : pending'[j] \in B
      BY <1>7
    <3> QED
      BY <3>2, <3>3
  <2>2. \A x, y \in Emitted : Coherent(x, y)
    BY DEF GeneratorInv, StreamInv, InPlay
  <2>3. \A x \in Emitted : x.burst \in Nat /\ x.burst <= Len(emitted)
    <3>1. ASSUME NEW i \in 1 .. Len(emitted)
          PROVE  emitted[i].burst \in Nat /\ emitted[i].burst <= i
      <4>1. PICK o \in Event : Sound(o, i) /\ (emitted[i] = o \/ \E mode \in Modes : emitted[i] = corrupt(o, mode))
        BY DEF GeneratorInv, StreamInv, Came
      <4>2. emitted[i].burst = o.burst
        <5>1. \A mode \in Modes : corrupt(o, mode).burst = o.burst
          BY CorruptFields, Zenon
        <5> QED
          BY <4>1, <5>1, Zenon
      <4>3. o.burst \in Nat
        BY DEF Event
      <4> QED
        BY <4>1, <4>2, <4>3 DEF Sound
    <3> QED
      BY <1>3, <3>1 DEF Emitted
  <2>4. ASSUME NEW x \in B
        PROVE  /\ x.burst = Len(emitted) + 1 /\ x.customer = c
               /\ x.t \in Nat /\ clock <= x.t /\ x.t <= clock + Hour * Second
    BY <1>4 DEF Event
  <2>5. ASSUME NEW x \in B, NEW y \in B
        PROVE  Coherent(x, y)
    <3>1. PICK hour : hour = Hour * Second
      OBVIOUS
    <3>2. /\ x.customer = y.customer /\ x.t \in Nat /\ y.t \in Nat
          /\ x.t <= clock + hour /\ clock <= y.t
      BY <2>4, <3>1
    <3>3. hour \in Nat
      BY <3>1, Constants
    <3>4. x.t <= y.t + hour
      BY <1>3, <3>2, <3>3
    <3> QED
      BY <3>1, <3>2, <3>4 DEF Coherent
  <2>6. ASSUME NEW x \in B, NEW y \in Emitted
        PROVE  Coherent(x, y) /\ Coherent(y, x)
    <3>1. x.burst # y.burst
      BY <1>3, <2>3, <2>4
    <3> QED
      BY <3>1 DEF Coherent
  <2> HIDE DEF B
  <2> QED
    BY <2>1, <2>2, <2>5, <2>6
<1>11. /\ emitted' \in Seq(Event) /\ Len(emitted') = Len(emitted) + 1
       /\ corrupted' \in 0 .. MaxCorrupt /\ StreamInv'
  BY <1>6, <1>7, <1>8, <1>9, <1>10, EmitInv DEF GeneratorInv
<1> QED
  BY <1>3, <1>7, <1>11 DEF GeneratorInv, GeneratorTypeOK

LEMMA GeneratorNextInv ==
    ASSUME GeneratorInv, GeneratorNext
    PROVE  GeneratorInv'
<1>1. CASE Drain
  BY <1>1, DrainInv
<1>2. CASE _legit_transaction
  <2>1. PICK c \in Customer, a \in Spend, p \in Merchants : Emit(Build(1, c, a, p))
    BY <1>2 DEF _legit_transaction
  <2> QED
    BY <1>2, <2>1, AmountsDrawn, SingleInv DEF _legit_transaction
<1>3. CASE _velocity_burst
  BY <1>3, BurstInv
<1>4. CASE _impossible_geo_transaction
  <2>1. PICK c \in Customer, a \in Hits : Emit(Build(1, c, a, "offshore"))
    BY <1>4 DEF _impossible_geo_transaction
  <2>2. "offshore" \in Merchants
    BY DEF Merchants
  <2> QED
    BY <1>4, <2>1, <2>2, AmountsDrawn, SingleInv DEF _impossible_geo_transaction
<1>5. CASE _amount_outlier_transaction
  <2>1. PICK c \in Customer, a \in Spend, f \in Factors, p \in Merchants : Emit(Build(1, c, a * f, p))
    BY <1>5 DEF _amount_outlier_transaction
  <2>2. a * f \in Nat /\ a * f > MinAmount
    BY OutlierDrawn
  <2> QED
    BY <1>5, <2>1, <2>2, SingleInv DEF _amount_outlier_transaction
<1> QED
  BY <1>1, <1>2, <1>3, <1>4, <1>5 DEF GeneratorNext

\* What was written stays written.
LEMMA Prefix ==
    ASSUME GeneratorInv, GeneratorNext
    PROVE  /\ emitted' \in Seq(Event) /\ Len(emitted') = Len(emitted) + 1 /\ Len(emitted) \in Nat
           /\ \A i \in 1 .. Len(emitted) : emitted'[i] = emitted[i]
           /\ clock' = clock
<1>1. emitted \in Seq(Event) /\ emitted' \in Seq(Event)
  BY GeneratorNextInv DEF GeneratorInv, GeneratorTypeOK
<1>2. clock' = clock /\ \E e : Emit(e)
  <2>1. CASE Drain
    BY <2>1 DEF Drain
  <2>2. CASE _legit_transaction
    BY <2>2 DEF _legit_transaction, Fresh
  <2>3. CASE _velocity_burst
    <3>1. PICK c \in Customer, n \in BurstSizes, hit \in Hits :
            /\ Fresh(n)
            /\ \E s \in [1 .. n -> Steps], p \in [1 .. n -> Merchants] :
                 LET burst == [i \in 1 .. n |-> Card(i, n, c, hit, s, p)]
                 IN  Emit(burst[1]) /\ pending' = Tail(burst)
      BY <2>3 DEF _velocity_burst, Card
    <3> QED
      BY <3>1 DEF Fresh
  <2>4. CASE _impossible_geo_transaction
    BY <2>4 DEF _impossible_geo_transaction, Fresh
  <2>5. CASE _amount_outlier_transaction
    BY <2>5 DEF _amount_outlier_transaction, Fresh
  <2> QED
    BY <2>1, <2>2, <2>3, <2>4, <2>5 DEF GeneratorNext
<1>3. \E x : emitted' = Append(emitted, x)
  BY <1>2 DEF Emit
<1> QED
  BY <1>1, <1>2, <1>3

-----------------------------------------------------------------------------
(* The online store.                                                        *)

\* An entry is of an event of its customer that the updater has handled.
EntrySound(c, k) ==
    /\ k \in Entry
    /\ k.pos \in 1 .. consumed
    /\ Usable(emitted[k.pos])
    /\ emitted[k.pos].customer = c
    /\ k.amount = emitted[k.pos].amount
    /\ emitted[k.pos].t # Unparsed => k.t = emitted[k.pos].t

\* An event that happened at its timestamp is in the item, or too old for it, or the
\* item is full of events that are no older.
Held(c, i, K, now) ==
    \/ \E k \in K : k.pos = i
    \/ now - emitted[i].t > Month * Second
    \/ Cardinality(K) = StoreCap /\ \A k \in K : emitted[i].t <= k.t

Handled(c) ==
    {i \in 1 .. consumed : Usable(emitted[i]) /\ emitted[i].customer = c /\ emitted[i].t # Unparsed}

StoreInv ==
    /\ store \in [Customer -> SUBSET Entry]
    /\ \A c \in Customer : IsFiniteSet(store[c]) /\ Cardinality(store[c]) <= StoreCap
    /\ \A c \in Customer : \A k \in store[c] : EntrySound(c, k)
    /\ \A c \in Customer : \A k, l \in store[c] : k.pos = l.pos => k = l
    /\ \A c \in Customer : \A i \in Handled(c) : Held(c, i, store[c], clock)

IInv ==
    /\ GeneratorInv
    /\ consumed \in 0 .. Len(emitted)
    /\ StoreInv

\* What a compaction keeps is finite and within the cap.
LEMMA CompactionSize ==
    ASSUME NEW E, IsFiniteSet(E), NEW now, NEW K \in SUBSET E, IsCompaction(K, E, now)
    PROVE  /\ IsFiniteSet(K) /\ Cardinality(K) <= StoreCap
           /\ K \subseteq InHorizon(E, now)
<1>1. IsFiniteSet(K)
  BY FS_Subset
<1>2. Cardinality(K) \in Nat
  BY <1>1, FS_CardinalityType
<1> QED
  BY <1>1, <1>2, Constants DEF IsCompaction

\* What a compaction of an item and a new entry drops is too old, or it leaves the item
\* full of entries that are no older; and so for what the item had dropped before.
LEMMA CompactionHolds ==
    ASSUME NEW S \in SUBSET Entry, IsFiniteSet(S), NEW x \in Entry, NEW now \in Nat,
           NEW K \in SUBSET (S \cup {x}), IsCompaction(K, S \cup {x}, now), NEW i, NEW t \in Nat,
           \/ \E k \in S \cup {x} : k.pos = i /\ k.t = t
           \/ now - t > Month * Second
           \/ Cardinality(S) = StoreCap /\ \A k \in S : t <= k.t
    PROVE  \/ \E k \in K : k.pos = i
           \/ now - t > Month * Second
           \/ Cardinality(K) = StoreCap /\ \A k \in K : t <= k.t
<1> DEFINE E == S \cup {x}
           fresh == InHorizon(E, now)
<1>1. IsFiniteSet(E)
  BY FS_AddElement, Zenon
<1>2. fresh \subseteq E
  BY DEF InHorizon
<1>3. IsFiniteSet(fresh) /\ Cardinality(fresh) \in Nat
  <2> HIDE DEF fresh, E
  <2>1. IsFiniteSet(fresh)
    BY <1>1, <1>2, FS_Subset
  <2> QED
    BY <2>1, FS_CardinalityType
<1>4. \A k \in E : k.t \in Nat
  BY DEF Entry
<1>5. /\ K = fresh \/ (Cardinality(K) = StoreCap /\ \A k \in K, d \in fresh \ K : d.t <= k.t)
      /\ K \subseteq fresh
      /\ Cardinality(fresh) <= StoreCap => K = fresh
  <2>1. IF Cardinality(fresh) <= StoreCap THEN K = fresh
        ELSE /\ K \subseteq fresh /\ Cardinality(K) = StoreCap
             /\ \A k \in K, d \in fresh \ K : d.t <= k.t
    BY Zenon DEF IsCompaction
  <2> HIDE DEF fresh, E
  <2> QED
    BY <2>1
<1>6. SUFFICES ASSUME now - t <= Month * Second
               PROVE  \/ \E k \in K : k.pos = i
                      \/ Cardinality(K) = StoreCap /\ \A k \in K : t <= k.t
  BY Constants
<1>7. CASE \E k \in E : k.pos = i /\ k.t = t
  <2>1. PICK k \in E : k.pos = i /\ k.t = t
    BY <1>7
  <2>2. k \in fresh
    BY <1>6, <2>1 DEF InHorizon
  <2> HIDE DEF fresh, E
  <2> QED
    BY <1>5, <2>1, <2>2
<1>8. CASE Cardinality(S) = StoreCap /\ \A k \in S : t <= k.t
  <2>1. S \subseteq fresh
    <3>1. ASSUME NEW k \in S
          PROVE  now - k.t <= Month * Second
      BY <1>4, <1>6, <1>8, Constants
    <3> QED
      BY <3>1 DEF InHorizon
  <2>2. CASE K = fresh /\ Cardinality(fresh) <= StoreCap
    <3>1. S = fresh
      <4> HIDE DEF fresh, E
      <4>1. Cardinality(S) <= Cardinality(fresh) /\ (Cardinality(S) = Cardinality(fresh) => S = fresh)
        BY <1>3, <2>1, FS_Subset
      <4> QED
        BY <1>3, <1>8, <2>2, <4>1, Constants
    <3> QED
      BY <1>8, <2>2, <3>1
  <2>3. CASE Cardinality(fresh) > StoreCap
    <3>1. /\ Cardinality(K) = StoreCap
          /\ \A k \in K, d \in fresh \ K : d.t <= k.t
      <4>1. ~(Cardinality(fresh) <= StoreCap)
        <5> HIDE DEF fresh
        <5> QED
          BY <1>3, <2>3, Constants
      <4> QED
        BY <4>1, Zenon DEF IsCompaction
    <3>2. PICK d \in fresh : d \notin K
      <4> HIDE DEF fresh
      <4>1. K # fresh
        BY <1>3, <2>3, <3>1, Constants
      <4> QED
        BY <1>5, <4>1
    <3>3. ASSUME NEW k \in K
          PROVE  t <= k.t
      <4>1. CASE k \in S
        BY <1>8, <4>1
      <4>2. CASE k = x /\ k \notin S
        <5>1. d \in S
          BY <1>2, <3>2, <4>2
        <5>2. t <= d.t /\ d.t <= k.t
          BY <1>8, <3>1, <3>2, <5>1
        <5>3. d.t \in Nat /\ k.t \in Nat
          BY <1>4, <5>1
        <5> QED
          BY <5>2, <5>3
      <4> QED
        BY <4>1, <4>2
    <3> QED
      BY <3>1, <3>3
  <2> HIDE DEF fresh
  <2> QED
    BY <1>3, <1>5, <2>2, <2>3, Constants
<1> QED
  BY <1>6, <1>7, <1>8, Constants

\* The generator's part holds while the stream stays as it is.
LEMMA GeneratorKept ==
    ASSUME GeneratorInv, UNCHANGED <<emitted, pending, corrupted>>, clock' \in Moments
    PROVE  GeneratorInv'
<1>1. InPlay' = InPlay
  BY DEF InPlay, Emitted
<1>2. \A i \in 1 .. Len(emitted') : Came(emitted'[i], i)
  BY DEF GeneratorInv, StreamInv
<1>3. \A j \in 1 .. Len(pending') : Sound(pending'[j], Len(emitted') + j)
  BY DEF GeneratorInv, StreamInv
<1>4. \A e, f \in InPlay : Coherent(e, f)
  BY DEF GeneratorInv, StreamInv
<1>5. StreamInv'
  BY <1>1, <1>2, <1>3, <1>4 DEF StreamInv
<1>6. GeneratorTypeOK'
  BY DEF GeneratorInv, GeneratorTypeOK
<1> QED
  BY <1>5, <1>6 DEF GeneratorInv

\* The step of the updater.
LEMMA ConsumeInv ==
    ASSUME IInv, Consume
    PROVE  IInv'
<1>0. PICK e, x : e = emitted[consumed + 1] /\ x = EntryOf(consumed + 1, e, clock)
  OBVIOUS
<1> DEFINE c == e.customer
<1>1. /\ emitted \in Seq(Event) /\ Len(emitted) \in Nat /\ consumed \in 0 .. Len(emitted)
      /\ consumed < Len(emitted) /\ consumed' = consumed + 1
      /\ emitted' = emitted /\ pending' = pending /\ clock' = clock /\ corrupted' = corrupted
      /\ clock \in Nat
  BY Constants DEF IInv, GeneratorInv, GeneratorTypeOK, Consume, generator
<1>2. e \in Event
  BY <1>0, <1>1
<1>3. GeneratorInv'
  BY <1>1, GeneratorKept DEF IInv, GeneratorInv, GeneratorTypeOK
<1>4. consumed' \in 0 .. Len(emitted')
  BY <1>1
<1>5. ASSUME NEW d \in Customer, NEW k, EntrySound(d, k)
      PROVE  EntrySound(d, k)'
  BY <1>1, <1>5 DEF EntrySound, Usable
<1>6. ASSUME NEW d \in Customer, NEW i \in Handled(d)'
      PROVE  i \in Handled(d) \/ (i = consumed + 1 /\ Usable(e) /\ d = c /\ e.t # Unparsed)
  BY <1>0, <1>1 DEF Handled, Usable
<1>7. CASE ~Usable(e) /\ store' = store
  <2>1. \A d \in Customer : Handled(d)' \subseteq Handled(d)
    BY <1>6, <1>7
  <2>2. ASSUME NEW d \in Customer, NEW i \in Handled(d)'
        PROVE  Held(d, i, store[d], clock)'
    <3>1. Held(d, i, store[d], clock)
      BY <2>1 DEF IInv, StoreInv
    <3> QED
      BY <1>1, <1>7, <3>1 DEF Held
  <2>3. StoreInv'
    BY <1>5, <1>7, <2>2 DEF IInv, StoreInv
  <2> QED
    BY <1>3, <1>4, <2>3 DEF IInv
<1>8. CASE Usable(e) /\ \E K \in SUBSET (store[c] \cup {x}) :
                             /\ IsCompaction(K, store[c] \cup {x}, clock)
                             /\ store' = [store EXCEPT ![c] = K]
  <2>1. c \in Customer
    BY <1>2, <1>8 DEF Usable, Event
  <2>2. PICK K \in SUBSET (store[c] \cup {x}) :
               /\ IsCompaction(K, store[c] \cup {x}, clock)
               /\ store' = [store EXCEPT ![c] = K]
    BY <1>8
  <2>3. /\ store \in [Customer -> SUBSET Entry]
        /\ store[c] \in SUBSET Entry /\ IsFiniteSet(store[c])
    BY <2>1 DEF IInv, StoreInv
  <2>4. x \in Entry /\ x.pos = consumed + 1 /\ (e.t # Unparsed => x.t = e.t)
    BY <1>0, <1>1, <1>2 DEF EntryOf, Entry, Event
  <2> HIDE DEF c
  <2>5. store'[c] = K /\ (\A d \in Customer : d # c => store'[d] = store[d])
        /\ store' \in [Customer -> SUBSET Entry]
    BY <2>1, <2>2, <2>3, <2>4
  <2>6. IsFiniteSet(store[c] \cup {x})
    BY <2>3, FS_AddElement, Zenon
  <2>7. IsFiniteSet(K) /\ Cardinality(K) <= StoreCap
    BY <2>2, <2>6, CompactionSize
  <2>8. \A d \in Customer : IsFiniteSet(store'[d]) /\ Cardinality(store'[d]) <= StoreCap
    BY <2>5, <2>7 DEF IInv, StoreInv
  <2>9. EntrySound(c, x)'
    <3>1. x.amount = e.amount
      BY <1>0 DEF EntryOf
    <3>2. emitted'[x.pos] = e /\ x.pos \in 1 .. consumed'
      BY <1>0, <1>1, <2>4
    <3> QED
      BY <1>8, <2>4, <3>1, <3>2 DEF EntrySound, Usable, c
  <2>10. ASSUME NEW d \in Customer, NEW k \in store'[d]
         PROVE  EntrySound(d, k)'
    BY <1>5, <2>2, <2>5, <2>9 DEF IInv, StoreInv
  <2>11. ASSUME NEW d \in Customer, NEW k \in store'[d], NEW l \in store'[d], k.pos = l.pos
         PROVE  k = l
    <3>1. \A m \in store[c] : m.pos # x.pos
      BY <1>1, <2>1, <2>4 DEF IInv, StoreInv, EntrySound
    <3> QED
      BY <2>2, <2>5, <2>11, <3>1 DEF IInv, StoreInv
  <2>12. ASSUME NEW d \in Customer, NEW i \in Handled(d)'
         PROVE  Held(d, i, store[d], clock)'
    <3>1. emitted[i].t \in Nat /\ i \in 1 .. Len(emitted) /\ emitted[i].t # Unparsed
      <4>1. i \in 1 .. consumed + 1 /\ emitted[i].t # Unparsed
        BY <1>1 DEF Handled
      <4>2. emitted[i] \in Event
        BY <1>1, <4>1
      <4>3. emitted[i].t \in Nat
        BY <4>2 DEF Event
      <4>4. consumed \in Nat /\ Len(emitted) \in Nat /\ consumed < Len(emitted)
        BY <1>1
      <4>5. i \in 1 .. Len(emitted)
        BY <4>1, <4>4
      <4> QED
        BY <4>1, <4>3, <4>5
    <3>2. CASE d # c
      <4>1. i \in Handled(d)
        BY <1>6, <3>2 DEF c
      <4>2. Held(d, i, store[d], clock)
        BY <4>1 DEF IInv, StoreInv
      <4> QED
        BY <1>1, <2>5, <3>2, <4>2 DEF Held
    <3>3. CASE d = c
      <4>1. \/ \E k \in store[c] \cup {x} : k.pos = i /\ k.t = emitted[i].t
            \/ clock - emitted[i].t > Month * Second
            \/ Cardinality(store[c]) = StoreCap /\ \A k \in store[c] : emitted[i].t <= k.t
        <5>1. CASE i \in Handled(d)
          <6>1. Held(c, i, store[c], clock)
            BY <2>1, <3>3, <5>1 DEF IInv, StoreInv
          <6>2. \A k \in store[c] : k.pos = i => k.t = emitted[i].t
            BY <2>1, <3>1 DEF IInv, StoreInv, EntrySound
          <6> QED
            BY <6>1, <6>2 DEF Held
        <5>2. CASE i = consumed + 1 /\ e.t # Unparsed
          BY <1>0, <2>4, <5>2
        <5> QED
          BY <1>6, <5>1, <5>2
      <4>2. \/ \E k \in K : k.pos = i
            \/ clock - emitted[i].t > Month * Second
            \/ Cardinality(K) = StoreCap /\ \A k \in K : emitted[i].t <= k.t
        <5>1. PICK S, t : S = store[c] /\ t = emitted[i].t
          OBVIOUS
        <5>2. S \in SUBSET Entry /\ IsFiniteSet(S) /\ t \in Nat
          BY <2>3, <3>1, <5>1
        <5>3. K \in SUBSET (S \cup {x}) /\ IsCompaction(K, S \cup {x}, clock)
          BY <2>2, <5>1
        <5>4. \/ \E k \in S \cup {x} : k.pos = i /\ k.t = t
              \/ clock - t > Month * Second
              \/ Cardinality(S) = StoreCap /\ \A k \in S : t <= k.t
          BY <4>1, <5>1
        <5>5. \/ \E k \in K : k.pos = i
              \/ clock - t > Month * Second
              \/ Cardinality(K) = StoreCap /\ \A k \in K : t <= k.t
          BY <1>1, <2>4, <5>2, <5>3, <5>4, CompactionHolds
        <5> QED
          BY <5>1, <5>5
      <4> QED
        BY <1>1, <2>5, <3>3, <4>2 DEF Held
    <3> QED
      BY <3>2, <3>3
  <2>13. StoreInv'
    BY <2>5, <2>8, <2>10, <2>11, <2>12 DEF StoreInv
  <2> QED
    BY <1>3, <1>4, <2>13 DEF IInv
<1> QED
  BY <1>0, <1>7, <1>8 DEF Consume

LEMMA ProduceInv ==
    ASSUME IInv, Produce
    PROVE  IInv'
<1>1. GeneratorInv' /\ consumed' = consumed /\ store' = store
  BY GeneratorNextInv DEF IInv, Produce
<1>2. /\ emitted' \in Seq(Event) /\ Len(emitted') = Len(emitted) + 1 /\ Len(emitted) \in Nat
      /\ \A i \in 1 .. Len(emitted) : emitted'[i] = emitted[i]
      /\ clock' = clock
  BY Prefix DEF IInv, Produce
<1>3. consumed' \in 0 .. Len(emitted')
  BY <1>1, <1>2 DEF IInv
<1>4. \A i \in 1 .. consumed : emitted'[i] = emitted[i]
  BY <1>2 DEF IInv
<1>5. \A c \in Customer : Handled(c)' = Handled(c)
  BY <1>1, <1>4 DEF Handled, Usable
<1>6. ASSUME NEW c \in Customer, NEW k \in store[c]
      PROVE  EntrySound(c, k)'
  BY <1>1, <1>4 DEF IInv, StoreInv, EntrySound, Usable
<1>7. ASSUME NEW c \in Customer, NEW i \in Handled(c)
      PROVE  Held(c, i, store[c], clock)'
  <2>1. Held(c, i, store[c], clock)
    BY DEF IInv, StoreInv
  <2>2. emitted'[i] = emitted[i]
    BY <1>4 DEF Handled
  <2> QED
    BY <1>1, <1>2, <2>1, <2>2 DEF Held
<1>8. StoreInv'
  BY <1>1, <1>5, <1>6, <1>7 DEF IInv, StoreInv
<1> QED
  BY <1>1, <1>3, <1>8 DEF IInv

LEMMA TickInv ==
    ASSUME IInv, Tick
    PROVE  IInv'
<1>1. /\ emitted' = emitted /\ pending' = pending /\ corrupted' = corrupted
      /\ consumed' = consumed /\ store' = store
      /\ clock' \in Moments /\ clock' > clock /\ clock \in Moments
  BY DEF Tick, IInv, GeneratorInv, GeneratorTypeOK
<1>2. clock \in Nat /\ clock' \in Nat
  BY <1>1, Constants
<1>3. GeneratorInv'
  BY <1>1, GeneratorKept DEF IInv, GeneratorInv, GeneratorTypeOK
<1>4. \A c \in Customer : Handled(c)' = Handled(c)
  BY <1>1 DEF Handled
<1>5. ASSUME NEW c \in Customer, NEW k \in store[c]
      PROVE  EntrySound(c, k)'
  BY <1>1 DEF IInv, StoreInv, EntrySound
<1>6. ASSUME NEW c \in Customer, NEW i \in Handled(c)
      PROVE  Held(c, i, store[c], clock)'
  <2>1. Held(c, i, store[c], clock)
    BY DEF IInv, StoreInv
  <2>2. emitted[i].t \in Nat
    <3>1. emitted[i] \in Event
      BY DEF Handled, IInv, GeneratorInv, GeneratorTypeOK
    <3> QED
      BY <3>1 DEF Event
  <2>3. clock - emitted[i].t > Month * Second => clock' - emitted[i].t > Month * Second
    BY <1>1, <1>2, <2>2, Constants
  <2> QED
    BY <1>1, <2>1, <2>3 DEF Held
<1>7. StoreInv'
  BY <1>1, <1>4, <1>5, <1>6 DEF IInv, StoreInv
<1> QED
  BY <1>1, <1>3, <1>7 DEF IInv

LEMMA InitInv == Init => IInv
<1> SUFFICES ASSUME Init PROVE IInv
  OBVIOUS
<1>1. /\ clock \in Moments /\ pending = <<>> /\ emitted = <<>> /\ corrupted = 0 /\ consumed = 0
      /\ store = [c \in Customer |-> {}]
  BY DEF Init, GeneratorInit
<1>2. GeneratorInv
  BY <1>1, Constants DEF GeneratorInv, GeneratorTypeOK, StreamInv, InPlay, Emitted
<1>3. \A c \in Customer : store[c] = {} /\ IsFiniteSet({}) /\ Cardinality({}) = 0
  BY <1>1, FS_EmptySet
<1>4. StoreInv
  BY <1>1, <1>3, Constants DEF StoreInv, Handled
<1> QED
  BY <1>1, <1>2, <1>4 DEF IInv

LEMMA StutterInv ==
    ASSUME IInv, UNCHANGED vars
    PROVE  IInv'
<1>1. /\ emitted' = emitted /\ pending' = pending /\ corrupted' = corrupted /\ clock' = clock
      /\ consumed' = consumed /\ store' = store
  BY DEF vars, generator
<1>2. GeneratorInv'
  BY <1>1, GeneratorKept DEF IInv, GeneratorInv, GeneratorTypeOK
<1>3. StoreInv'
  <2>1. \A c \in Customer : Handled(c)' = Handled(c)
    BY <1>1 DEF Handled
  <2>2. \A c \in Customer : \A k \in store[c] : EntrySound(c, k)'
    BY <1>1 DEF IInv, StoreInv, EntrySound
  <2>3. \A c \in Customer : \A i \in Handled(c) : Held(c, i, store[c], clock)'
    BY <1>1 DEF IInv, StoreInv, Held
  <2> QED
    BY <1>1, <2>1, <2>2, <2>3 DEF IInv, StoreInv
<1> QED
  BY <1>1, <1>2, <1>3 DEF IInv

\* The stream is what the generator makes of it, and the store what the updater makes of
\* the stream.
THEOREM InductiveInvariant == Spec => []IInv
<1>1. IInv /\ [Next]_vars => IInv'
  BY ProduceInv, ConsumeInv, TickInv, StutterInv DEF Next
<1> QED
  BY InitInv, <1>1, PTL DEF Spec

\* Whatever is generated, damaged and compacted, the variables keep their types; an item
\* never exceeds its cap.
THEOREM TypeCorrect == Spec => []TypeOK
<1>1. IInv => TypeOK
  BY DEF IInv, TypeOK, GeneratorInv, StoreInv
<1> QED
  BY InductiveInvariant, <1>1, PTL

-----------------------------------------------------------------------------
(* The boundary.                                                            *)

LEMMA Reasons ==
    ASSUME NEW e
    PROVE  \A reason : reason \in _rejection_reasons(e) <=>
             \/ reason = "null_transaction_id" /\ e.id = NoId
             \/ reason = "null_customer_id" /\ e.customer = NoCustomer
             \/ reason = "non_numeric_amount" /\ e.amount = NaN
             \/ reason = "amount_out_of_range" /\ AmountOutOfRange(e)
             \/ reason = "unparseable_timestamp" /\ e.t = Unparsed
             \/ reason = "geo_out_of_range" /\ e.place = "nowhere"
BY DEF _rejection_reasons

LEMMA ValidFields ==
    ASSUME NEW e, Valid(e)
    PROVE  /\ e.id # NoId /\ e.customer # NoCustomer /\ e.amount # NaN
           /\ ~AmountOutOfRange(e) /\ e.t # Unparsed /\ e.place # "nowhere"
<1>1. \A reason : reason \notin _rejection_reasons(e)
  BY DEF Valid
<1> QED
  BY <1>1, Reasons

\* What a damaged or undamaged event looks like.
LEMMA CameFields ==
    ASSUME NEW e, NEW i, Came(e, i)
    PROVE  \E o \in Event :
             /\ Sound(o, i)
             /\ e \in Event
             /\ e.mode \in Modes \cup {"none"}
             /\ e.id = IF e.mode = "null_transaction_id" THEN NoId ELSE i
             /\ e.customer = IF e.mode = "missing_customer_id" THEN NoCustomer ELSE o.customer
             /\ e.amount = IF e.mode = "non_numeric_amount" THEN NaN
                           ELSE IF e.mode = "negative_amount" THEN -o.amount ELSE o.amount
             /\ e.t = IF e.mode = "bad_timestamp" THEN Unparsed ELSE o.t
             /\ e.place = IF e.mode = "out_of_range_geo" THEN "nowhere" ELSE o.place
             /\ e.burst = o.burst
<1>1. PICK o \in Event : Sound(o, i) /\ (e = o \/ \E mode \in Modes : e = corrupt(o, mode))
  BY DEF Came
<1>2. CASE e = o
  <2>1. o.mode = "none" /\ o.id = i
    BY <1>1 DEF Sound, Event
  <2> QED
    BY <1>1, <1>2, <2>1
<1>3. CASE \E mode \in Modes : e = corrupt(o, mode)
  <2>1. PICK mode \in Modes : e = corrupt(o, mode)
    BY <1>3
  <2>2. o.id = i
    BY <1>1 DEF Sound
  <2>3. /\ e \in Event /\ e.mode = mode /\ e.burst = o.burst
        /\ e.id = IF mode = "null_transaction_id" THEN NoId ELSE i
    <3>1. e \in Event
      BY <2>1, CorruptFields, Zenon
    <3>2. e.mode = mode /\ e.burst = o.burst
      BY <2>1, CorruptFields, Zenon
    <3>3. e.id = IF mode = "null_transaction_id" THEN NoId ELSE o.id
      BY <2>1, CorruptFields, Zenon
    <3> QED
      BY <2>2, <3>1, <3>2, <3>3
  <2>4. /\ e.customer = IF mode = "missing_customer_id" THEN NoCustomer ELSE o.customer
        /\ e.t = IF mode = "bad_timestamp" THEN Unparsed ELSE o.t
        /\ e.place = IF mode = "out_of_range_geo" THEN "nowhere" ELSE o.place
    <3>1. e.customer = IF mode = "missing_customer_id" THEN NoCustomer ELSE o.customer
      BY <2>1, CorruptFields, Zenon
    <3>2. e.t = IF mode = "bad_timestamp" THEN Unparsed ELSE o.t
      BY <2>1, CorruptFields, Zenon
    <3>3. e.place = IF mode = "out_of_range_geo" THEN "nowhere" ELSE o.place
      BY <2>1, CorruptFields, Zenon
    <3> QED
      BY <3>1, <3>2, <3>3
  <2>5. e.amount = IF mode = "non_numeric_amount" THEN NaN
                   ELSE IF mode = "negative_amount" THEN -o.amount ELSE o.amount
    BY <2>1, CorruptFields, Zenon
  <2> QED
    BY <1>1, <2>3, <2>4, <2>5
<1> QED
  BY <1>1, <1>2, <1>3

\* For every amount and every stream: an event is quarantined for what it was damaged in,
\* or for an amount above the maximum, and of the rest the gate refuses by their values
\* the rows of exactly the maximum.
THEOREM BoundaryAlwaysExact == Spec => []BoundaryExact
<1>1. IInv => BoundaryExact
  <2> SUFFICES ASSUME IInv, NEW e \in Emitted
               PROVE  /\ _rejection_reasons(e) =
                            Intended(e.mode)
                              \cup (IF e.amount > MaxAmount THEN {"amount_out_of_range"} ELSE {})
                      /\ Valid(e) => (ValuesRefused(e) <=> e.amount = MaxAmount)
    BY DEF BoundaryExact
  <2>1. PICK i \in 1 .. Len(emitted) : e = emitted[i] /\ Came(e, i)
    BY DEF Emitted, IInv, GeneratorInv, StreamInv
  <2>2. i \in Nat /\ i > 0
    BY <2>1 DEF IInv, GeneratorInv, GeneratorTypeOK
  <2>3. PICK o \in Event :
             /\ Sound(o, i)
             /\ e \in Event
             /\ e.mode \in Modes \cup {"none"}
             /\ e.id = IF e.mode = "null_transaction_id" THEN NoId ELSE i
             /\ e.customer = IF e.mode = "missing_customer_id" THEN NoCustomer ELSE o.customer
             /\ e.amount = IF e.mode = "non_numeric_amount" THEN NaN
                           ELSE IF e.mode = "negative_amount" THEN -o.amount ELSE o.amount
             /\ e.t = IF e.mode = "bad_timestamp" THEN Unparsed ELSE o.t
             /\ e.place = IF e.mode = "out_of_range_geo" THEN "nowhere" ELSE o.place
             /\ e.burst = o.burst
    BY <2>1, CameFields
  <2>4. /\ o.customer \in Customer /\ o.amount \in Int /\ o.amount > MinAmount /\ o.t > 0
        /\ o.t \in Nat /\ o.place # "nowhere"
    BY <2>3 DEF Sound, Event, Merchants
  <2>5. /\ e.id = NoId <=> e.mode = "null_transaction_id"
        /\ e.customer = NoCustomer <=> e.mode = "missing_customer_id"
        /\ e.t = Unparsed <=> e.mode = "bad_timestamp"
        /\ e.place = "nowhere" <=> e.mode = "out_of_range_geo"
    BY <2>2, <2>3, <2>4, Constants DEF NoId, Unparsed
  <2>6. /\ e.amount = NaN <=> e.mode = "non_numeric_amount"
        /\ AmountOutOfRange(e) <=> (e.mode = "negative_amount" \/ e.amount > MaxAmount)
    BY <2>3, <2>4, Constants DEF NaN, AmountOutOfRange
  <2>7. _rejection_reasons(e) =
          Intended(e.mode) \cup (IF e.amount > MaxAmount THEN {"amount_out_of_range"} ELSE {})
    <3>1. \A reason : reason \in _rejection_reasons(e) <=>
             \/ reason = "null_transaction_id" /\ e.mode = "null_transaction_id"
             \/ reason = "null_customer_id" /\ e.mode = "missing_customer_id"
             \/ reason = "non_numeric_amount" /\ e.mode = "non_numeric_amount"
             \/ reason = "amount_out_of_range" /\ (e.mode = "negative_amount" \/ e.amount > MaxAmount)
             \/ reason = "unparseable_timestamp" /\ e.mode = "bad_timestamp"
             \/ reason = "geo_out_of_range" /\ e.mode = "out_of_range_geo"
      BY <2>5, <2>6, Reasons, Zenon
    <3>2. \A reason : reason \in Intended(e.mode) <=>
             \/ reason = "null_transaction_id" /\ e.mode = "null_transaction_id"
             \/ reason = "null_customer_id" /\ e.mode = "missing_customer_id"
             \/ reason = "non_numeric_amount" /\ e.mode = "non_numeric_amount"
             \/ reason = "amount_out_of_range" /\ e.mode = "negative_amount"
             \/ reason = "unparseable_timestamp" /\ e.mode = "bad_timestamp"
             \/ reason = "geo_out_of_range" /\ e.mode = "out_of_range_geo"
      BY <2>3 DEF Intended, Modes
    <3> QED
      BY <3>1, <3>2
  <2>8. ASSUME Valid(e)
        PROVE  ValuesRefused(e) <=> e.amount = MaxAmount
    <3>1. /\ e.amount # NaN /\ ~AmountOutOfRange(e) /\ e.place # "nowhere"
      BY <2>8, ValidFields
    <3>2. e.amount = o.amount /\ ~(e.amount > MaxAmount)
      BY <2>3, <2>6, <3>1
    <3>3. ValuesRefused(e) <=> ~(MinAmount < e.amount /\ e.amount < MaxAmount)
      BY <3>1 DEF ValuesRefused
    <3> QED
      BY <2>4, <3>2, <3>3, Constants
  <2> QED
    BY <2>7, <2>8
<1> QED
  BY InductiveInvariant, <1>1, PTL

-----------------------------------------------------------------------------
(* Bursts.                                                                  *)

\* The image of a finite set is finite and no larger.
LEMMA Image ==
    ASSUME NEW S, IsFiniteSet(S), NEW T, NEW f \in [S -> T], \A y \in T : \E x \in S : f[x] = y
    PROVE  IsFiniteSet(T) /\ Cardinality(T) <= Cardinality(S)
<1>1. f \in Surjection(S, T)
  BY DEF Surjection
<1> QED
  BY <1>1, FS_Surjection

LEMMA BronzeFinite ==
    ASSUME IInv
    PROVE  IsFiniteSet(Emitted) /\ IsFiniteSet(Bronze)
<1>1. Len(emitted) \in Nat
  BY DEF IInv, GeneratorInv, GeneratorTypeOK
<1>2. IsFiniteSet(1 .. Len(emitted))
  BY <1>1, FS_Interval
<1> DEFINE f == [i \in 1 .. Len(emitted) |-> emitted[i]]
<1>3. f \in [1 .. Len(emitted) -> Emitted] /\ \A y \in Emitted : \E x \in 1 .. Len(emitted) : f[x] = y
  BY DEF Emitted
<1> HIDE DEF f
<1>4. IsFiniteSet(Emitted)
  BY <1>2, <1>3, Image
<1>5. Bronze \subseteq Emitted
  BY DEF Bronze
<1> QED
  BY <1>4, <1>5, FS_Subset

\* Rows of a burst have the customer of the burst and lie within an hour of its latest, so
\* the latest one counts them all.
THEOREM BurstsCaught == Spec => []BurstCaught
<1>1. IInv => BurstCaught
  <2> SUFFICES ASSUME IInv, NEW r \in Bronze, r.burst # 0,
                      Cardinality({q \in Bronze : q.burst = r.burst}) >= HighHour,
                      \A q \in {p \in Bronze : p.burst = r.burst} : q.t <= r.t
               PROVE  is_high_velocity(Bronze, r)
    BY DEF BurstCaught
  <2> DEFINE burst == {q \in Bronze : q.burst = r.burst}
             trail == Trailing(Bronze, r, Hour)
  <2>1. ASSUME NEW q \in burst
        PROVE  q \in trail
    <3>1. Coherent(q, r) /\ Coherent(r, q) /\ q \in Event /\ r \in Event
      <4>1. q \in Emitted /\ r \in Emitted
        BY DEF Bronze
      <4>2. \A e \in Emitted : e \in Event
        BY DEF IInv, GeneratorInv, GeneratorTypeOK, Emitted
      <4>3. \A e, f \in Emitted : Coherent(e, f)
        BY DEF IInv, GeneratorInv, StreamInv, InPlay
      <4> QED
        BY <4>1, <4>2, <4>3
    <3>2. q.customer # NoCustomer /\ q.t # Unparsed /\ r.customer # NoCustomer
      BY ValidFields DEF Bronze
    <3>3. q.customer = r.customer /\ r.t <= q.t + Hour * Second /\ q.t <= r.t
      BY <3>1, <3>2 DEF Coherent
    <3>4. q.t \in Nat /\ r.t \in Nat
      BY <3>1 DEF Event
    <3>5. r.t - q.t <= Hour * Second
      <4>1. PICK hour : hour = Hour * Second
        OBVIOUS
      <4>2. hour \in Nat
        BY <4>1, Constants
      <4> QED
        BY <3>3, <3>4, <4>1, <4>2
    <3>6. /\ _seconds(q.t) \in Nat /\ _seconds(r.t) \in Nat
          /\ _seconds(q.t) <= _seconds(r.t) /\ _seconds(r.t) - _seconds(q.t) <= Hour
      BY <3>3, <3>4, <3>5, Seconds, Constants
    <3>7. _seconds(r.t) - Hour <= _seconds(q.t)
      BY <3>6, Constants
    <3> QED
      BY <3>3, <3>6, <3>7 DEF Trailing, Window
  <2>2. IsFiniteSet(trail)
    <3>1. trail \subseteq Bronze
      BY DEF Trailing, Window
    <3> QED
      BY <3>1, BronzeFinite, FS_Subset
  <2>3. Cardinality(burst) <= Cardinality(trail) /\ IsFiniteSet(burst)
    <3> HIDE DEF burst, trail
    <3> QED
      BY <2>1, <2>2, FS_Subset
  <2>4. Cardinality(burst) \in Nat /\ Cardinality(trail) \in Nat
    BY <2>2, <2>3, FS_CardinalityType
  <2>5. Cardinality(burst) >= HighHour
    OBVIOUS
  <2>6. Cardinality(trail) >= HighHour
    <3> HIDE DEF burst, trail
    <3> QED
      BY <2>3, <2>4, <2>5, Constants
  <2> QED
    BY <2>6 DEF is_high_velocity, HighVelocity
<1> QED
  BY InductiveInvariant, <1>1, PTL

-----------------------------------------------------------------------------
(* Velocity, twice.                                                         *)

\* The bronze rows of a customer in the last w whole seconds, without the row that is
\* scored.
Rows(c, w) ==
    {q \in Bronze : /\ q.customer = c
                    /\ _seconds(clock) - w <= _seconds(q.t) /\ _seconds(q.t) <= _seconds(clock)}

LEMMA CountsScored ==
    ASSUME IInv, NEW c \in Customer, NEW amount, NEW w \in Nat
    PROVE  /\ IsFiniteSet(Rows(c, w)) /\ Cardinality(Rows(c, w)) \in Nat
           /\ Cardinality(Trailing(With(Now(c, amount)), Now(c, amount), w)) = Cardinality(Rows(c, w)) + 1
<1> DEFINE row == Now(c, amount)
           rows == Rows(c, w)
<1>1. IsFiniteSet(rows)
  <2>1. rows \subseteq Bronze
    BY DEF Rows
  <2> HIDE DEF rows
  <2> QED
    BY <2>1, BronzeFinite, FS_Subset
<1>2. row.customer = c /\ row.t = clock /\ row.id = MaxEvents + 1
  BY DEF Now
<1>3. _seconds(clock) \in Nat
  <2>1. clock \in Nat
    BY Constants DEF IInv, GeneratorInv, GeneratorTypeOK
  <2> QED
    BY <2>1, Seconds
<1>4. row \notin Bronze
  <2>1. ASSUME NEW e \in Bronze
        PROVE  e.id # MaxEvents + 1
    <3>1. PICK i \in 1 .. Len(emitted) : e = emitted[i] /\ Came(e, i)
      BY DEF Bronze, Emitted, IInv, GeneratorInv, StreamInv
    <3>2. e.id = i \/ e.id = NoId
      BY <3>1, CameFields
    <3>3. Len(emitted) \in Nat /\ Len(pending) \in Nat /\ Len(emitted) + Len(pending) <= MaxEvents
      BY DEF IInv, GeneratorInv, GeneratorTypeOK
    <3> QED
      BY <3>2, <3>3, Constants DEF NoId
  <2> HIDE DEF row
  <2> QED
    BY <1>2, <2>1
<1> HIDE DEF row
<1>5. Trailing(With(row), row, w) = rows \cup {row}
  BY <1>2, <1>3 DEF Trailing, Window, With, Rows
<1>6. row \notin rows
  BY <1>4 DEF Rows
<1> HIDE DEF rows
<1>7. Cardinality(rows \cup {row}) = Cardinality(rows) + 1
  <2>1. Cardinality(rows \cup {row}) = IF row \in rows THEN Cardinality(rows) ELSE Cardinality(rows) + 1
    BY <1>1, FS_AddElement, Zenon
  <2> QED
    BY <1>6, <2>1
<1> QED
  BY <1>1, <1>5, <1>7, FS_CardinalityType DEF rows, row

\* An entry within the last w counts online.
LEMMA RecentFinite ==
    ASSUME IInv, NEW c \in Customer, NEW w
    PROVE  /\ IsFiniteSet(Recent(store[c], clock, w))
           /\ Cardinality(Recent(store[c], clock, w)) \in Nat
<1>1. Recent(store[c], clock, w) \subseteq store[c] /\ IsFiniteSet(store[c])
  BY DEF Recent, IInv, StoreInv
<1>2. IsFiniteSet(Recent(store[c], clock, w))
  BY <1>1, FS_Subset
<1> QED
  BY <1>2, FS_CardinalityType

\* Online, no row of a window a second shorter is missed, unless the item is full of
\* events as recent.
LEMMA RowsHeld ==
    ASSUME IInv, CaughtUp, NEW c \in Customer, NEW w \in Nat \ {0}, w <= Day
    PROVE  \/ Cardinality(Rows(c, w - 1)) <= Cardinality(Recent(store[c], clock, w))
           \/ Cardinality(Recent(store[c], clock, Day)) = StoreCap
<1> DEFINE recent == Recent(store[c], clock, w)
           rows == Rows(c, w - 1)
<1>0. PICK wide, daily, monthly :
        /\ wide = w * Second /\ daily = Day * Second /\ monthly = Month * Second
  OBVIOUS
<1>10. /\ wide \in Nat /\ daily \in Nat /\ monthly \in Nat
       /\ wide <= daily /\ daily <= monthly
  BY <1>0, Constants, Scaled
<1>1. ASSUME NEW q \in rows
      PROVE  \E i \in Handled(c) : q = emitted[i] /\ q.t \in Nat /\ clock - q.t <= wide
  <2>1. q \in Bronze /\ q.customer = c /\ _seconds(clock) - (w - 1) <= _seconds(q.t)
    BY DEF Rows
  <2>2. PICK i \in 1 .. Len(emitted) : q = emitted[i]
    BY <2>1 DEF Bronze, Emitted
  <2>3. q \in Event
    BY <2>2 DEF IInv, GeneratorInv, GeneratorTypeOK
  <2>4. Usable(q) /\ q.t # Unparsed
    BY <2>1, ValidFields DEF Usable, Bronze
  <2>5. i \in Handled(c)
    BY <2>1, <2>2, <2>4 DEF Handled, CaughtUp
  <2>6. q.t \in Nat /\ clock \in Nat
    BY <2>3, Constants DEF Event, IInv, GeneratorInv, GeneratorTypeOK
  <2>7. _seconds(q.t) \in Nat /\ _seconds(clock) \in Nat
    BY <2>6, Seconds
  <2>8. _seconds(clock) - _seconds(q.t) < w
    BY <2>1, <2>7
  <2>9. clock - q.t <= wide
    BY <1>0, <2>6, <2>8, Seconds
  <2> QED
    BY <2>2, <2>5, <2>6, <2>9
<1>2. clock \in Nat /\ (\A k \in store[c] : k.t \in Nat)
  BY Constants DEF IInv, GeneratorInv, GeneratorTypeOK, StoreInv, Entry
<1>3. ASSUME NEW q \in rows
      PROVE  \/ \E k \in recent : q = emitted[k.pos]
             \/ Cardinality(store[c]) = StoreCap /\ \A k \in store[c] : q.t <= k.t
  <2>1. PICK i \in Handled(c) : q = emitted[i] /\ q.t \in Nat /\ clock - q.t <= wide
    BY <1>1
  <2>2. Held(c, i, store[c], clock)
    BY DEF IInv, StoreInv
  <2>3. ~(clock - q.t > monthly)
    BY <1>2, <1>10, <2>1
  <2>4. ASSUME NEW k \in store[c], k.pos = i
        PROVE  k \in recent
    <3>1. k.t = q.t
      BY <2>1, <2>4 DEF IInv, StoreInv, EntrySound, Handled
    <3> QED
      BY <1>0, <2>1, <3>1 DEF Recent
  <2> HIDE DEF rows, recent
  <2> QED
    BY <1>0, <2>1, <2>2, <2>3, <2>4 DEF Held
<1>4. CASE \E q \in rows : Cardinality(store[c]) = StoreCap /\ \A k \in store[c] : q.t <= k.t
  <2>1. PICK q \in rows : Cardinality(store[c]) = StoreCap /\ \A k \in store[c] : q.t <= k.t
    BY <1>4
  <2>2. q.t \in Nat /\ clock - q.t <= wide
    BY <1>1
  <2>3. \A k \in store[c] : clock - k.t <= daily
    BY <1>2, <1>10, <2>1, <2>2
  <2>4. Recent(store[c], clock, Day) = store[c]
    BY <1>0, <2>3 DEF Recent
  <2> QED
    BY <2>1, <2>4
<1>5. CASE \A q \in rows : \E k \in recent : q = emitted[k.pos]
  <2> DEFINE good == {k \in recent : emitted[k.pos] \in rows}
             f == [k \in good |-> emitted[k.pos]]
  <2>1. IsFiniteSet(recent) /\ Cardinality(recent) \in Nat
    BY RecentFinite
  <2>2. IsFiniteSet(good) /\ Cardinality(good) <= Cardinality(recent)
    <3>1. good \subseteq recent
      OBVIOUS
    <3> HIDE DEF good, recent
    <3> QED
      BY <2>1, <3>1, FS_Subset
  <2>3. f \in [good -> rows] /\ \A y \in rows : \E k \in good : f[k] = y
    <3> HIDE DEF recent, rows
    <3>1. f \in [good -> rows]
      OBVIOUS
    <3>2. ASSUME NEW y \in rows
          PROVE  \E k \in good : f[k] = y
      <4>1. PICK k \in recent : y = emitted[k.pos]
        BY <1>5
      <4> QED
        BY <4>1
    <3> QED
      BY <3>1, <3>2
  <2> HIDE DEF f, good, rows, recent
  <2>4. IsFiniteSet(rows) /\ Cardinality(rows) <= Cardinality(good)
    BY <2>2, <2>3, Image
  <2>5. Cardinality(rows) \in Nat /\ Cardinality(good) \in Nat
    BY <2>2, <2>4, FS_CardinalityType
  <2>6. Cardinality(rows) <= Cardinality(recent)
    BY <2>1, <2>2, <2>4, <2>5
  <2> QED
    BY <2>6 DEF rows, recent
<1> QED
  <2> HIDE DEF rows, recent
  <2> QED
    BY <1>3, <1>4, <1>5

\* With a clean past, no entry counts that bronze does not have.
LEMMA OnlyRows ==
    ASSUME IInv, CaughtUp, NEW c \in Customer, CleanPast(c), NEW w \in Nat
    PROVE  Cardinality(Recent(store[c], clock, w)) <= Cardinality(Rows(c, w))
<1> DEFINE recent == Recent(store[c], clock, w)
           rows == Rows(c, w)
           f == [k \in recent |-> emitted[k.pos]]
<1>1. clock \in Nat /\ emitted \in Seq(Event) /\ consumed = Len(emitted)
  BY Constants DEF IInv, GeneratorInv, GeneratorTypeOK, CaughtUp
<1>2. ASSUME NEW k \in recent
      PROVE  /\ emitted[k.pos] \in rows
             /\ emitted[k.pos].id = k.pos
  <2>1. k \in store[c] /\ clock - k.t <= w * Second /\ EntrySound(c, k)
    BY DEF Recent, IInv, StoreInv
  <2>2. k.pos \in 1 .. Len(emitted) /\ emitted[k.pos].customer = c /\ emitted[k.pos] \in Emitted
    BY <1>1, <2>1 DEF EntrySound, Emitted
  <2>3. emitted[k.pos] \in Bronze /\ emitted[k.pos].t <= clock
    BY <2>2 DEF CleanPast
  <2>4. /\ emitted[k.pos].t # Unparsed /\ emitted[k.pos].id # NoId
    BY <2>3, ValidFields DEF Bronze
  <2>5. k.t = emitted[k.pos].t /\ k.t \in Nat
    BY <2>1, <2>4 DEF EntrySound, Entry
  <2>6. Came(emitted[k.pos], k.pos)
    BY <2>2 DEF IInv, GeneratorInv, StreamInv
  <2>7. emitted[k.pos].id = k.pos
    BY <2>4, <2>6, CameFields
  <2>8. PICK t : t = k.t /\ t = emitted[k.pos].t
    BY <2>5
  <2>9. t \in Nat /\ t <= clock /\ clock - t <= w * Second
    BY <2>1, <2>3, <2>5, <2>8
  <2>10. /\ _seconds(t) \in Nat /\ _seconds(clock) \in Nat
         /\ _seconds(t) <= _seconds(clock) /\ _seconds(clock) - _seconds(t) <= w
    BY <1>1, <2>9, Seconds
  <2>11. _seconds(clock) - w <= _seconds(t)
    BY <2>10
  <2> QED
    BY <2>2, <2>3, <2>7, <2>8, <2>10, <2>11 DEF Rows
<1>3. \A k, l \in recent : k.pos = l.pos => k = l
  BY DEF Recent, IInv, StoreInv
<1>4. IsFiniteSet(rows)
  BY CountsScored
<1>5. f \in Injection(recent, rows)
  <2> HIDE DEF recent, rows
  <2>1. f \in [recent -> rows]
    BY <1>2
  <2>2. ASSUME NEW k \in recent, NEW l \in recent, f[k] = f[l]
        PROVE  k = l
    <3>1. f[k] = emitted[k.pos] /\ f[l] = emitted[l.pos]
      OBVIOUS
    <3>2. k.pos = l.pos
      BY <1>2, <2>2, <3>1
    <3> QED
      BY <1>3, <3>2
  <2> HIDE DEF f
  <2> QED
    BY <2>1, <2>2 DEF Injection, IsInjective
<1> HIDE DEF f, recent, rows
<1>6. Cardinality(recent) <= Cardinality(rows)
  BY <1>4, <1>5, FS_Injection
<1> QED
  BY <1>6 DEF recent, rows

\* Train and serve agree on velocity up to a second of the windows, for every cap that
\* leaves enough events: what silver says in windows a second shorter is served, and what
\* is served of a clean past silver says.
THEOREM Parity == Spec => []VelocityParity
<1>1. IInv => VelocityParity
  <2> SUFFICES ASSUME IInv, CaughtUp, NEW c \in Customer
               PROVE  LET row == Now(c, MinAmount)
                          online == OnlineHighVelocity(store[c], clock)
                      IN  /\ HighVelocity(With(row), row, Hour - 1, Day - 1) => online
                          /\ CleanPast(c) /\ online => is_high_velocity(With(row), row)
    BY DEF VelocityParity
  <2> DEFINE row == Now(c, MinAmount)
             shortHour == Cardinality(Rows(c, Hour - 1))
             shortDay == Cardinality(Rows(c, Day - 1))
             hour == Cardinality(Rows(c, Hour))
             day == Cardinality(Rows(c, Day))
             onHour == Cardinality(Recent(store[c], clock, Hour))
             onDay == Cardinality(Recent(store[c], clock, Day))
  <2>0. Hour - 1 \in Nat /\ Day - 1 \in Nat /\ Hour \in Nat \ {0} /\ Day \in Nat \ {0}
    BY Constants
  <2>1. /\ hour \in Nat /\ day \in Nat /\ onHour \in Nat /\ onDay \in Nat
        /\ shortHour \in Nat /\ shortDay \in Nat
    BY <2>0, CountsScored, RecentFinite
  <2>2. is_high_velocity(With(row), row) <=> (hour + 1 >= HighHour \/ day + 1 >= HighDay)
    BY <2>0, CountsScored DEF is_high_velocity, HighVelocity
  <2>3. HighVelocity(With(row), row, Hour - 1, Day - 1)
          <=> (shortHour + 1 >= HighHour \/ shortDay + 1 >= HighDay)
    BY <2>0, CountsScored DEF HighVelocity
  <2>4. OnlineHighVelocity(store[c], clock) <=> (onHour + 1 >= HighHour \/ onDay + 1 >= HighDay)
    BY DEF OnlineHighVelocity, txn_count
  <2>5. (shortHour <= onHour \/ onDay = StoreCap) /\ (shortDay <= onDay \/ onDay = StoreCap)
    BY <2>0, RowsHeld, Constants
  <2>6. CleanPast(c) => onHour <= hour /\ onDay <= day
    BY OnlyRows, Constants
  <2> HIDE DEF row, hour, day, shortHour, shortDay, onHour, onDay
  <2>7. (shortHour + 1 >= HighHour \/ shortDay + 1 >= HighDay)
          => (onHour + 1 >= HighHour \/ onDay + 1 >= HighDay)
    BY <2>1, <2>5, Constants
  <2>8. CleanPast(c) /\ (onHour + 1 >= HighHour \/ onDay + 1 >= HighDay)
          => (hour + 1 >= HighHour \/ day + 1 >= HighDay)
    BY <2>1, <2>6, Constants
  <2> QED
    BY <2>2, <2>3, <2>4, <2>7, <2>8 DEF row
<1> QED
  BY InductiveInvariant, <1>1, PTL

-----------------------------------------------------------------------------
(* Sums.                                                                    *)

One(s) == CHOOSE x \in s : TRUE

\* total sums f over the subsets of S, from one element to the next.
Totals(total, f, S) ==
    total = [s \in SUBSET S |-> IF s = {} THEN 0 ELSE f[One(s)] + total[s \ {One(s)}]]

LEMMA OneLess ==
    ASSUME NEW S, IsFiniteSet(S), NEW s \in SUBSET S
    PROVE  /\ Cardinality(s) \in Nat
           /\ s # {} => One(s) \in s
           /\ s = {} <=> Cardinality(s) = 0
           /\ \A x \in s : /\ s \ {x} \in SUBSET S
                           /\ Cardinality(s) > 0 /\ Cardinality(s \ {x}) = Cardinality(s) - 1
<1>1. IsFiniteSet(s) /\ Cardinality(s) \in Nat
  BY FS_Subset, FS_CardinalityType
<1>2. s = {} <=> Cardinality(s) = 0
  BY <1>1, FS_EmptySet
<1>3. ASSUME NEW x \in s
      PROVE  Cardinality(s \ {x}) = Cardinality(s) - 1
  BY <1>1, FS_RemoveElement
<1>4. s # {} => One(s) \in s
  BY DEF One
<1> QED
  BY <1>1, <1>2, <1>3, <1>4

\* There are such totals: those of the subsets of one more element follow from those of
\* the subsets up to n.
LEMMA TotalsExist ==
    ASSUME NEW S, IsFiniteSet(S), NEW f \in [S -> Int]
    PROVE  \E total \in [SUBSET S -> Int] : Totals(total, f, S)
<1> DEFINE Sized(n) == {s \in SUBSET S : Cardinality(s) <= n}
           Sums(part, s) == part[s] = IF s = {} THEN 0 ELSE f[One(s)] + part[s \ {One(s)}]
           Partial(n) == \E part \in [Sized(n) -> Int] : \A s \in Sized(n) : Sums(part, s)
           Bad == {n \in Nat : ~Partial(n)}
<1>1. \A s \in SUBSET S : /\ Cardinality(s) \in Nat
                          /\ s # {} => One(s) \in s /\ s \ {One(s)} \in SUBSET S
                          /\ s # {} => Cardinality(s) > 0
                          /\ s # {} => Cardinality(s \ {One(s)}) = Cardinality(s) - 1
                          /\ s = {} <=> Cardinality(s) = 0
  BY OneLess
<1>0. \A s \in SUBSET S : Cardinality(s) \in Nat /\ (s = {} <=> Cardinality(s) = 0)
  BY OneLess
<1>2. Partial(0)
  <2> DEFINE part == [s \in Sized(0) |-> 0]
  <2>1. ASSUME NEW s \in Sized(0)
        PROVE  s = {}
    <3>1. s \in SUBSET S /\ Cardinality(s) <= 0
      OBVIOUS
    <3>2. Cardinality(s) = 0
      BY <1>0, <3>1
    <3> QED
      BY <1>0, <3>1, <3>2
  <2> HIDE DEF Sized
  <2>2. part \in [Sized(0) -> Int] /\ \A s \in Sized(0) : Sums(part, s)
    BY <2>1
  <2> HIDE DEF part, Sums
  <2> QED
    BY <2>2
<1>3. ASSUME NEW n \in Nat, Partial(n)
      PROVE  Partial(n + 1)
  <2>1. PICK part \in [Sized(n) -> Int] : \A s \in Sized(n) : Sums(part, s)
    BY <1>3
  <2> DEFINE more == [s \in Sized(n + 1) |->
                         IF s = {} THEN 0 ELSE f[One(s)] + part[s \ {One(s)}]]
  <2>2. ASSUME NEW s \in Sized(n + 1), s # {}
        PROVE  s \ {One(s)} \in Sized(n) /\ s \ {One(s)} \in Sized(n + 1) /\ One(s) \in S
    BY <1>1, <2>2
  <2>3. \A s \in Sized(n) : s \in Sized(n + 1) /\ more[s] = part[s]
    <3>1. ASSUME NEW s \in Sized(n)
          PROVE  s \in Sized(n + 1)
      <4>1. s \in SUBSET S /\ Cardinality(s) <= n
        OBVIOUS
      <4>2. Cardinality(s) <= n + 1
        BY <1>0, <4>1
      <4> QED
        BY <4>1, <4>2
    <3>2. \A s \in Sized(n) :
              part[s] = IF s = {} THEN 0 ELSE f[One(s)] + part[s \ {One(s)}]
      BY <2>1
    <3> HIDE DEF Sized, Sums
    <3> QED
      BY <3>1, <3>2
  <2>4. more \in [Sized(n + 1) -> Int]
    <3>1. ASSUME NEW s \in Sized(n + 1)
          PROVE  (IF s = {} THEN 0 ELSE f[One(s)] + part[s \ {One(s)}]) \in Int
      <4>1. CASE s = {}
        BY <4>1
      <4>2. CASE s # {}
        <5>1. f[One(s)] \in Int /\ part[s \ {One(s)}] \in Int
          BY <2>1, <2>2, <4>2
        <5> QED
          BY <4>2, <5>1
      <4> QED
        BY <4>1, <4>2
    <3> HIDE DEF Sized
    <3> QED
      BY <3>1
  <2>5. ASSUME NEW s \in Sized(n + 1)
        PROVE  Sums(more, s)
    <3>1. more[s] = IF s = {} THEN 0 ELSE f[One(s)] + part[s \ {One(s)}]
      OBVIOUS
    <3>2. s # {} => more[s \ {One(s)}] = part[s \ {One(s)}]
      BY <2>2, <2>3
    <3> HIDE DEF more, Sized
    <3> QED
      BY <3>1, <3>2
  <2> HIDE DEF more, Sized, Sums
  <2> QED
    BY <2>4, <2>5
<1>4. \A n \in Nat : Partial(n)
  <2> SUFFICES ASSUME Bad # {}
               PROVE  FALSE
    OBVIOUS
  <2>1. PICK n \in Bad : \A m \in Bad : n <= m
    <3>1. Bad \in SUBSET Nat
      OBVIOUS
    <3> HIDE DEF Bad
    <3> QED
      BY <3>1, Least
  <2> HIDE DEF Partial
  <2>2. n \in Nat /\ n # 0
    BY <1>2
  <2>3. n - 1 \in Nat /\ ~ (n <= n - 1) /\ (n - 1) + 1 = n
    BY <2>2
  <2>4. Partial(n - 1)
    BY <2>1, <2>3
  <2>5. Partial(n)
    <3> DEFINE m == n - 1
    <3>1. m \in Nat /\ Partial(m) /\ m + 1 = n
      BY <2>3, <2>4
    <3> HIDE DEF m
    <3>2. Partial(m + 1)
      BY <1>3, <3>1
    <3> QED
      BY <3>1, <3>2
  <2> QED
    BY <2>5
<1>5. Cardinality(S) \in Nat /\ \A s \in SUBSET S : Cardinality(s) <= Cardinality(S)
  BY FS_Subset, FS_CardinalityType
<1>6. Sized(Cardinality(S)) = SUBSET S
  BY <1>5
<1>7. PICK part \in [SUBSET S -> Int] : \A s \in SUBSET S : Sums(part, s)
  <2> HIDE DEF Sized, Sums
  <2>1. Partial(Cardinality(S))
    BY <1>4, <1>5
  <2> QED
    BY <1>6, <2>1
<1>8. Totals(part, f, S)
  BY <1>7 DEF Totals
<1> QED
  BY <1>7, <1>8

\* Totals are numbers, and any element may be taken first.
LEMMA TotalsRemove ==
    ASSUME NEW S, IsFiniteSet(S), NEW f \in [S -> Int], NEW total, Totals(total, f, S)
    PROVE  \A s \in SUBSET S :
              total[s] \in Int /\ \A x \in s : total[s] = f[x] + total[s \ {x}]
<1> DEFINE Good(s) == total[s] \in Int /\ \A x \in s : total[s] = f[x] + total[s \ {x}]
           Bad == {n \in Nat : \E s \in SUBSET S : Cardinality(s) = n /\ ~Good(s)}
<1> SUFFICES ASSUME Bad # {}
             PROVE  FALSE
  BY OneLess
<1>1. PICK n \in Bad : \A m \in Bad : n <= m
  <2>1. Bad \in SUBSET Nat
    OBVIOUS
  <2> HIDE DEF Bad
  <2> QED
    BY <2>1, Least
<1>2. PICK s \in SUBSET S : Cardinality(s) = n /\ ~Good(s)
  OBVIOUS
<1>3. ASSUME NEW r \in SUBSET S, Cardinality(r) < n
      PROVE  Good(r)
  <2>1. Cardinality(r) \in Nat
    BY OneLess
  <2>2. ~Good(r) => Cardinality(r) \in Bad
    BY <2>1
  <2> HIDE DEF Bad, Good
  <2>3. n \in Nat
    BY <1>2, OneLess
  <2> QED
    BY <1>1, <1>3, <2>1, <2>2, <2>3
<1>4. total[s] = IF s = {} THEN 0 ELSE f[One(s)] + total[s \ {One(s)}]
  BY DEF Totals
<1>5. \A x \in s : /\ x \in S /\ f[x] \in Int
                   /\ s \ {x} \in SUBSET S /\ Good(s \ {x})
  <2> TAKE x \in s
  <2>1. s \ {x} \in SUBSET S /\ Cardinality(s \ {x}) < n
    BY <1>2, OneLess
  <2> HIDE DEF Good
  <2> QED
    BY <1>3, <2>1
<1>6. CASE s = {}
  BY <1>2, <1>4, <1>6
<1>7. CASE s # {}
  <2> DEFINE y == One(s)
  <2>1. y \in s
    BY <1>7, OneLess
  <2>2. total[s] = f[y] + total[s \ {y}]
    BY <1>4, <1>7
  <2> HIDE DEF y
  <2>3. total[s] \in Int
    <3>1. f[y] \in Int /\ total[s \ {y}] \in Int
      BY <1>5, <2>1
    <3> QED
      BY <2>2, <3>1
  <2>4. ASSUME NEW x \in s
        PROVE  total[s] = f[x] + total[s \ {x}]
    <3>1. CASE x = y
      BY <2>2, <3>1
    <3>2. CASE x # y
      <4>1. /\ x \in s \ {y} /\ y \in s \ {x}
            /\ (s \ {y}) \ {x} = (s \ {x}) \ {y}
        BY <2>1, <3>2
      <4> DEFINE rest == (s \ {x}) \ {y}
      <4>2. total[s \ {y}] = f[x] + total[rest] /\ total[s \ {x}] = f[y] + total[rest]
        BY <1>5, <2>1, <4>1
      <4>3. total[rest] \in Int
        <5>1. rest \in SUBSET S /\ Cardinality(rest) < n
          <6> DEFINE r == s \ {x}
          <6>1. /\ r \in SUBSET S /\ Cardinality(r) = n - 1 /\ n \in Nat
            BY <1>2, OneLess
          <6>2. y \in r
            BY <4>1
          <6> HIDE DEF r
          <6>3. r \ {y} \in SUBSET S /\ Cardinality(r \ {y}) = Cardinality(r) - 1
            BY <6>1, <6>2, OneLess
          <6> QED
            BY <6>1, <6>3 DEF r
        <5> HIDE DEF rest
        <5> QED
          BY <1>3, <5>1
      <4> HIDE DEF rest
      <4> QED
        BY <1>5, <2>1, <2>2, <4>2, <4>3
    <3> QED
      BY <3>1, <3>2
  <2> QED
    BY <1>2, <2>3, <2>4
<1> QED
  BY <1>6, <1>7

\* SumFunction is such a total.
Removes(total, f, S) ==
    /\ SumFunction(f) = total[S] /\ total[{}] = 0
    /\ \A s \in SUBSET S :
          total[s] \in Int /\ \A x \in s : total[s] = f[x] + total[s \ {x}]

LEMMA SumRemoves ==
    ASSUME NEW S, IsFiniteSet(S), NEW f \in [S -> Int]
    PROVE  \E total : Removes(total, f, S)
<1> DEFINE Longer(total) == [s \in SUBSET (DOMAIN f) |->
               IF s = {} THEN 0
               ELSE f[CHOOSE x \in s : TRUE] + total[s \ {CHOOSE x \in s : TRUE}]]
           sum == CHOOSE total : total = Longer(total)
<1>0. DOMAIN f = S
  OBVIOUS
<1>1. SumFunction(f) = sum[DOMAIN f]
  BY DEF SumFunction, SumFunctionOnSet, FoldFunctionOnSet, MapThenFoldSet
<1>2. PICK total \in [SUBSET S -> Int] : Totals(total, f, S)
  BY TotalsExist
<1>3. Totals(sum, f, S)
  <2>1. \A t : Totals(t, f, S) <=> t = Longer(t)
    BY <1>0 DEF Totals, One
  <2> HIDE DEF Longer
  <2>2. \E t : t = Longer(t)
    BY <1>2, <2>1
  <2>3. sum = Longer(sum)
    BY <2>2
  <2> QED
    BY <2>1, <2>3
<1> HIDE DEF sum
<1>4. sum[{}] = 0
  BY <1>3 DEF Totals
<1>5. \A s \in SUBSET S :
         sum[s] \in Int /\ \A x \in s : sum[s] = f[x] + sum[s \ {x}]
  BY <1>3, TotalsRemove
<1> QED
  BY <1>0, <1>1, <1>4, <1>5 DEF Removes

\* Two functions that are the same up to a renaming of what they number have one sum.
LEMMA SumsMatch ==
    ASSUME NEW A, IsFiniteSet(A), NEW f \in [A -> Int],
           NEW B, IsFiniteSet(B), NEW g \in [B -> Int],
           NEW h \in [B -> A], \A b, d \in B : h[b] = h[d] => b = d,
           \A a \in A : \E b \in B : h[b] = a,
           \A b \in B : g[b] = f[h[b]]
    PROVE  SumFunction(g) = SumFunction(f) /\ SumFunction(f) \in Int
<1>1. PICK totalF : Removes(totalF, f, A)
  BY SumRemoves
<1>2. PICK totalG : Removes(totalG, g, B)
  BY SumRemoves
<1> DEFINE Im(s) == {h[b] : b \in s}
           Good(s) == totalG[s] = totalF[Im(s)]
           Bad == {n \in Nat : \E s \in SUBSET B : Cardinality(s) = n /\ ~Good(s)}
<1>3. \A s \in SUBSET B : Good(s)
  <2> SUFFICES ASSUME Bad # {}
               PROVE  FALSE
    BY OneLess
  <2>1. PICK n \in Bad : \A m \in Bad : n <= m
    <3>1. Bad \in SUBSET Nat
      OBVIOUS
    <3> HIDE DEF Bad
    <3> QED
      BY <3>1, Least
  <2>2. PICK s \in SUBSET B : Cardinality(s) = n /\ ~Good(s)
    OBVIOUS
  <2>3. CASE s = {}
    <3>1. Im(s) = {}
      BY <2>3
    <3>2. totalG[s] = 0 /\ totalF[{}] = 0
      BY <1>1, <1>2, <2>3 DEF Removes
    <3> QED
      BY <2>2, <3>1, <3>2
  <2>4. CASE s # {}
    <3>1. PICK y \in s : TRUE
      BY <2>4
    <3> DEFINE r == s \ {y}
    <3>2. r \in SUBSET B /\ Cardinality(r) \in Nat /\ Cardinality(r) < n
      BY <2>2, OneLess
    <3>3. Good(r)
      <4>1. ~Good(r) => Cardinality(r) \in Bad
        BY <3>2
      <4>2. n \in Nat
        BY <2>2, OneLess
      <4> HIDE DEF r, Bad, Good
      <4> QED
        BY <2>1, <3>2, <4>1, <4>2
    <3>4. Im(r) = Im(s) \ {h[y]} /\ h[y] \in Im(s) /\ Im(s) \in SUBSET A
      <4>1. h[y] \in Im(s) /\ Im(s) \in SUBSET A
        OBVIOUS
      <4>2. \A b \in s : b # y => h[b] # h[y]
        OBVIOUS
      <4> QED
        BY <4>1, <4>2
    <3>5. totalG[s] = g[y] + totalG[r] /\ totalF[Im(s)] = f[h[y]] + totalF[Im(s) \ {h[y]}]
      <4>1. totalG[s] = g[y] + totalG[r]
        BY <1>2 DEF Removes
      <4> HIDE DEF Im
      <4> QED
        BY <1>1, <3>4, <4>1 DEF Removes
    <3>6. g[y] = f[h[y]]
      OBVIOUS
    <3> QED
      BY <2>2, <3>3, <3>4, <3>5, <3>6
  <2> QED
    BY <2>3, <2>4
<1>4. Im(B) = A
  OBVIOUS
<1>5. totalG[B] = totalF[Im(B)]
  BY <1>3
<1> HIDE DEF Im
<1> QED
  BY <1>1, <1>2, <1>4, <1>5 DEF Removes

-----------------------------------------------------------------------------
(* Amounts, twice.                                                          *)

\* The bronze rows of a customer that a z-score is based on now.
Past(c) ==
    {q \in Bronze : /\ q.customer = c
                    /\ _seconds(clock) - Month <= _seconds(q.t)
                    /\ _seconds(q.t) <= _seconds(clock) - 1}

LEMMA PastIsBaseline ==
    ASSUME IInv, NEW c \in Customer, NEW amount
    PROVE  Baseline(With(Now(c, amount)), Now(c, amount)) = Past(c)
<1> DEFINE row == Now(c, amount)
<1>1. row.customer = c /\ row.t = clock
  BY DEF Now
<1>2. _seconds(clock) \in Nat /\ ~ (_seconds(clock) <= _seconds(clock) - 1)
  <2>1. clock \in Nat
    BY Constants DEF IInv, GeneratorInv, GeneratorTypeOK
  <2>2. _seconds(clock) \in Nat
    BY <2>1, Seconds
  <2> QED
    BY <2>2
<1> HIDE DEF row
<1> QED
  BY <1>1, <1>2 DEF Baseline, Window, With, Past, row

\* The item holds the customer's clean past whole, and the months of both sides agree on it.
Whole(c) ==
    /\ CaughtUp /\ CleanPast(c)
    /\ Cardinality({e \in Emitted : e.customer = c}) <= StoreCap
    /\ \A k \in store[c] : _seconds(k.t) < _seconds(clock) /\ clock - k.t <= Month * Second
    /\ \A e \in Emitted : e.customer = c =>
           (clock - e.t <= Month * Second <=> _seconds(clock) - _seconds(e.t) <= Month)

\* The entries of such an item are the rows of the past, one to one.
LEMMA ItemIsPast ==
    ASSUME IInv, NEW c \in Customer, Whole(c)
    PROVE  \E f \in [store[c] -> Past(c)] :
             /\ \A k, l \in store[c] : f[k] = f[l] => k = l
             /\ \A q \in Past(c) : \E k \in store[c] : f[k] = q
             /\ \A k \in store[c] : k.amount = f[k].amount
<1> DEFINE f == [k \in store[c] |-> emitted[k.pos]]
           all == {e \in Emitted : e.customer = c}
<1>1. clock \in Nat /\ emitted \in Seq(Event) /\ consumed = Len(emitted)
  BY Constants DEF IInv, GeneratorInv, GeneratorTypeOK, Whole, CaughtUp
<1>2. ASSUME NEW k \in store[c]
      PROVE  /\ emitted[k.pos] \in Past(c) /\ emitted[k.pos] \in all
             /\ emitted[k.pos].id = k.pos
             /\ k.amount = emitted[k.pos].amount
  <2>1. /\ EntrySound(c, k)
        /\ _seconds(k.t) < _seconds(clock) /\ clock - k.t <= Month * Second
    BY DEF IInv, StoreInv, Whole
  <2>2. k.pos \in 1 .. Len(emitted) /\ emitted[k.pos].customer = c /\ emitted[k.pos] \in Emitted
    BY <1>1, <2>1 DEF EntrySound, Emitted
  <2>3. emitted[k.pos] \in Bronze
    BY <2>2 DEF CleanPast, Whole
  <2>4. emitted[k.pos].t # Unparsed /\ emitted[k.pos].id # NoId
    BY <2>3, ValidFields DEF Bronze
  <2>5. k.t = emitted[k.pos].t /\ k.t \in Nat
    BY <2>1, <2>4 DEF EntrySound, Entry
  <2>6. Came(emitted[k.pos], k.pos)
    BY <2>2 DEF IInv, GeneratorInv, StreamInv
  <2>7. emitted[k.pos].id = k.pos
    BY <2>4, <2>6, CameFields
  <2>8. PICK t : t = k.t /\ t = emitted[k.pos].t
    BY <2>5
  <2>9. t \in Nat /\ _seconds(t) < _seconds(clock) /\ clock - t <= Month * Second
    BY <2>1, <2>5, <2>8
  <2>10. /\ _seconds(t) \in Nat /\ _seconds(clock) \in Nat
         /\ _seconds(clock) - _seconds(t) <= Month
    BY <1>1, <2>9, Seconds, Constants
  <2>11. _seconds(clock) - Month <= _seconds(t) /\ _seconds(t) <= _seconds(clock) - 1
    BY <2>9, <2>10, Constants
  <2> QED
    BY <2>1, <2>2, <2>3, <2>7, <2>8, <2>11 DEF Past, EntrySound
<1>3. f \in [store[c] -> Past(c)] /\ f \in [store[c] -> all]
  <2> HIDE DEF all
  <2> QED
    BY <1>2
<1>4. \A k, l \in store[c] : f[k] = f[l] => k = l
  <2>1. \A k, l \in store[c] : k.pos = l.pos => k = l
    BY DEF IInv, StoreInv
  <2> HIDE DEF all
  <2> QED
    BY <1>2, <2>1
<1>5. IsFiniteSet(all) /\ IsFiniteSet(store[c])
  <2>1. all \subseteq Emitted
    OBVIOUS
  <2> HIDE DEF all
  <2> QED
    BY <2>1, BronzeFinite, FS_Subset DEF IInv, StoreInv
<1>6. ASSUME NEW q \in Past(c)
      PROVE  \E k \in store[c] : f[k] = q
  <2>1. /\ q \in Bronze /\ q.customer = c /\ q \in all
        /\ _seconds(clock) - Month <= _seconds(q.t)
    BY DEF Past, Bronze
  <2>2. PICK i \in 1 .. Len(emitted) : q = emitted[i]
    BY <2>1 DEF Bronze, Emitted
  <2>3. q \in Event
    BY <2>2 DEF IInv, GeneratorInv, GeneratorTypeOK
  <2>4. Usable(q) /\ q.t # Unparsed /\ q.t \in Nat
    BY <2>1, <2>3, ValidFields DEF Usable, Bronze, Event
  <2>5. i \in Handled(c)
    BY <1>1, <2>1, <2>2, <2>4 DEF Handled
  <2>6. Held(c, i, store[c], clock)
    BY <2>5 DEF IInv, StoreInv
  <2>7. ~ (clock - emitted[i].t > Month * Second)
    <3>1. /\ _seconds(q.t) \in Nat /\ _seconds(clock) \in Nat /\ Month * Second \in Nat
      BY <1>1, <2>4, Seconds, Constants
    <3>2. _seconds(clock) - _seconds(q.t) <= Month
      BY <2>1, <3>1, Constants
    <3>3. clock - q.t <= Month * Second
      BY <2>1, <3>2 DEF Whole, Bronze
    <3>4. clock - q.t \in Int
      BY <1>1, <2>4
    <3> QED
      BY <2>2, <3>1, <3>3, <3>4
  <2>8. CASE \E k \in store[c] : k.pos = i
    BY <2>2, <2>8
  <2>9. CASE Cardinality(store[c]) = StoreCap
    <3> DEFINE image == {f[k] : k \in store[c]}
    <3>1. image \subseteq all
      BY <1>3
    <3> HIDE DEF f, all, image
    <3>2. IsFiniteSet(image) /\ Cardinality(image) <= Cardinality(all)
      BY <1>5, <3>1, FS_Subset
    <3>3. Cardinality(store[c]) <= Cardinality(image)
      <4>1. f \in Injection(store[c], image)
        BY <1>3, <1>4 DEF Injection, IsInjective, image
      <4> QED
        BY <3>2, <4>1, FS_Injection
    <3>4. Cardinality(all) <= StoreCap
      BY DEF Whole, all
    <3>5. Cardinality(image) = Cardinality(all)
      <4>1. Cardinality(image) \in Nat /\ Cardinality(all) \in Nat /\ StoreCap \in Nat
        BY <1>5, <3>2, FS_CardinalityType, Constants
      <4> QED
        BY <2>9, <3>2, <3>3, <3>4, <4>1
    <3>6. image = all
      BY <1>5, <3>1, <3>5, FS_Subset
    <3> QED
      BY <2>1, <3>6 DEF image
  <2> QED
    BY <2>6, <2>7, <2>8, <2>9 DEF Held
<1> HIDE DEF all
<1>7. \A k \in store[c] : k.amount = f[k].amount
  BY <1>2
<1> HIDE DEF f
<1> QED
  BY <1>3, <1>4, <1>6, <1>7

\* So they are as many, and their amounts have the same sums.
LEMMA SameMoments ==
    ASSUME IInv, NEW c \in Customer, Whole(c)
    PROVE  /\ Cardinality(Past(c)) = Cardinality(store[c])
           /\ Amounts(store[c]) = Amounts(Past(c))
           /\ Squares(store[c]) = Squares(Past(c))
<1>1. PICK f \in [store[c] -> Past(c)] :
             /\ \A k, l \in store[c] : f[k] = f[l] => k = l
             /\ \A q \in Past(c) : \E k \in store[c] : f[k] = q
             /\ \A k \in store[c] : k.amount = f[k].amount
  BY ItemIsPast
<1>2. IsFiniteSet(store[c]) /\ \A k \in store[c] : k.amount \in Int
  BY DEF IInv, StoreInv, Entry
<1>3. IsFiniteSet(Past(c)) /\ \A q \in Past(c) : q.amount \in Int
  <2>1. Past(c) \subseteq Bronze
    BY DEF Past
  <2>2. \A q \in Bronze : q \in Event
    BY DEF Bronze, Emitted, IInv, GeneratorInv, GeneratorTypeOK
  <2> QED
    BY <2>1, <2>2, BronzeFinite, FS_Subset DEF Event
<1> DEFINE A == Past(c)
           B == store[c]
<1> HIDE DEF A, B
<1>4. /\ IsFiniteSet(A) /\ IsFiniteSet(B)
      /\ f \in [B -> A] /\ \A k, l \in B : f[k] = f[l] => k = l
      /\ \A q \in A : \E k \in B : f[k] = q
      /\ \A k \in B : k.amount = f[k].amount /\ k.amount \in Int
      /\ \A q \in A : q.amount \in Int
  BY <1>1, <1>2, <1>3 DEF A, B
<1>5. Cardinality(A) = Cardinality(B)
  <2>1. f \in Injection(B, A) /\ f \in Surjection(B, A)
    BY <1>4 DEF Injection, IsInjective, Surjection
  <2>2. Cardinality(B) <= Cardinality(A) /\ Cardinality(A) <= Cardinality(B)
    BY <1>4, <2>1, FS_Injection, FS_Surjection
  <2>3. Cardinality(A) \in Nat /\ Cardinality(B) \in Nat
    BY <1>4, FS_CardinalityType
  <2> QED
    BY <2>2, <2>3
<1>6. Amounts(B) = Amounts(A)
  <2> DEFINE u == [e \in A |-> e.amount]
             v == [e \in B |-> e.amount]
  <2>1. u \in [A -> Int] /\ v \in [B -> Int] /\ \A k \in B : v[k] = u[f[k]]
    BY <1>4
  <2> HIDE DEF u, v
  <2>2. SumFunction(v) = SumFunction(u)
    BY <1>4, <2>1, SumsMatch
  <2> QED
    BY <2>2 DEF Amounts, u, v
<1>7. Squares(B) = Squares(A)
  <2> DEFINE u == [e \in A |-> e.amount * e.amount]
             v == [e \in B |-> e.amount * e.amount]
  <2>1. u \in [A -> Int] /\ v \in [B -> Int] /\ \A k \in B : v[k] = u[f[k]]
    BY <1>4
  <2> HIDE DEF u, v
  <2>2. SumFunction(v) = SumFunction(u)
    BY <1>4, <2>1, SumsMatch
  <2> QED
    BY <2>2 DEF Squares, u, v
<1> QED
  BY <1>5, <1>6, <1>7 DEF A, B

\* A first row has no score, and a request misses no more than it does.
LEMMA MissingAsFirst ==
    ASSUME IInv, NEW c \in Customer, NEW fields, NEW read, NEW K, NEW amount
    PROVE  MissingIndicators(fields, read, K) \subseteq NullFeatures({Now(c, amount)}, Now(c, amount), {})
<1> DEFINE row == Now(c, amount)
           base == Baseline({row}, row)
<1>1. _seconds(row.t) \in Nat
  <2>1. row.t = clock /\ clock \in Nat
    BY Constants DEF Now, IInv, GeneratorInv, GeneratorTypeOK
  <2> QED
    BY <2>1, Seconds
<1>2. base = {}
  <2>1. ~ (_seconds(row.t) <= _seconds(row.t) - 1)
    BY <1>1
  <2> HIDE DEF row
  <2> QED
    BY <2>1 DEF Baseline, Window
<1>3. ~HasScore(base)
  <2> DEFINE u == [e \in base |-> e.amount]
             v == [e \in base |-> e.amount * e.amount]
  <2>1. IsFiniteSet(base) /\ Cardinality(base) = 0
    BY <1>2, FS_EmptySet
  <2>2. u \in [base -> Int] /\ v \in [base -> Int]
    BY <1>2
  <2> HIDE DEF u, v, base, row
  <2>3. PICK totalU : Removes(totalU, u, base)
    BY <2>1, <2>2, SumRemoves
  <2>4. PICK totalV : Removes(totalV, v, base)
    BY <2>1, <2>2, SumRemoves
  <2>5. SumFunction(u) = 0 /\ SumFunction(v) = 0
    BY <1>2, <2>3, <2>4 DEF Removes
  <2>6. Amounts(base) = 0 /\ Squares(base) = 0
    BY <2>5 DEF Amounts, Squares, u, v
  <2>7. Spread(base) = 0
    BY <2>1, <2>6 DEF Spread
  <2> QED
    BY <2>7 DEF HasScore
<1> HIDE DEF base, row
<1>4. NullFeatures({row}, row, {}) = {"amount_zscore_30d", "geo_distance_from_prior_km",
                                      "implied_speed_kmh", "seconds_since_prior_txn"}
  BY <1>3 DEF NullFeatures, base
<1>5. MissingIndicators(fields, read, K) \subseteq
          {"amount_zscore_30d", "geo_distance_from_prior_km",
           "implied_speed_kmh", "seconds_since_prior_txn"}
  BY DEF MissingIndicators, NUMERIC_FEATURES, Defaults
<1> QED
  BY <1>4, <1>5 DEF row

\* A score that reaches the limit rounds to one that does.
LEMMA RoundedUp ==
    ASSUME NEW x \in Int, NEW y \in Nat, NEW limit \in Nat \ {0}, NEW unit \in Nat \ {0},
           1 * 1 * x >= limit * limit * y
    PROVE  unit * unit * x >= (unit * limit - 1) * (unit * limit - 1) * y
<1>1. PICK least : least = limit * limit * y
  OBVIOUS
<1>2. least \in Nat /\ x \in Nat /\ least <= x
  <2>1. least \in Nat
    BY <1>1, Z3
  <2> QED
    BY <1>1, <2>1
<1>3. PICK whole : whole = unit * limit
  OBVIOUS
<1>4. whole \in Nat \ {0}
  BY <1>3, Z3
<1>5. unit * unit * least <= unit * unit * x
  BY <1>2, Z3
<1>6. unit * unit * least = whole * whole * y
  BY <1>1, <1>3, Z3
<1>7. (whole - 1) * (whole - 1) * y <= whole * whole * y
  BY <1>4, Z3
<1>8. /\ unit * unit * least \in Int /\ unit * unit * x \in Int
      /\ whole * whole * y \in Int /\ (whole - 1) * (whole - 1) * y \in Int
  BY <1>2, <1>4
<1> QED
  BY <1>3, <1>5, <1>6, <1>7, <1>8

\* Sums of amounts are numbers.
LEMMA MomentsAreNumbers ==
    ASSUME NEW E, IsFiniteSet(E), \A e \in E : e.amount \in Int
    PROVE  Cardinality(E) \in Nat /\ Amounts(E) \in Int /\ Spread(E) \in Int
<1> DEFINE u == [e \in E |-> e.amount]
           v == [e \in E |-> e.amount * e.amount]
<1>1. u \in [E -> Int] /\ v \in [E -> Int]
  OBVIOUS
<1> HIDE DEF u, v
<1>2. PICK totalU : Removes(totalU, u, E)
  BY <1>1, SumRemoves
<1>3. PICK totalV : Removes(totalV, v, E)
  BY <1>1, SumRemoves
<1>4. SumFunction(u) \in Int /\ SumFunction(v) \in Int
  BY <1>2, <1>3 DEF Removes
<1>5. Amounts(E) \in Int /\ Squares(E) \in Int
  BY <1>4 DEF Amounts, Squares, u, v
<1>6. Cardinality(E) \in Nat
  BY FS_CardinalityType
<1> QED
  BY <1>5, <1>6 DEF Spread

\* So rounding only adds outliers.
LEMMA OutlierRounds ==
    ASSUME NEW E, IsFiniteSet(E), \A e \in E : e.amount \in Int, NEW amount \in Int,
           Spread(E) > 0, ScoreReaches(E, amount, Outlier, 1)
    PROVE  RoundsToOutlier(E, amount)
<1>1. PICK n, off, x, y : /\ n = Cardinality(E) /\ off = n * amount - Amounts(E)
                          /\ x = off * off * (n - 1) /\ y = n * Spread(E)
  OBVIOUS
<1>2. n \in Nat /\ Amounts(E) \in Int /\ Spread(E) \in Nat
  BY <1>1, MomentsAreNumbers
<1>3. x \in Int /\ y \in Nat
  <2>1. n * amount \in Int /\ n - 1 \in Int
    BY <1>2
  <2>2. off \in Int
    BY <1>1, <1>2, <2>1
  <2> QED
    BY <1>1, <1>2, <2>1, <2>2
<1>4. 1 * 1 * x >= Outlier * Outlier * y
  BY <1>1, Zenon DEF ScoreReaches
<1>5. PICK unit, limit : unit = 2 * Precision /\ limit = Outlier
  OBVIOUS
<1>6. unit \in Nat \ {0} /\ limit \in Nat \ {0}
  BY <1>5, Constants
<1>7. unit * unit * x >= (unit * limit - 1) * (unit * limit - 1) * y
  BY <1>3, <1>4, <1>5, <1>6, RoundedUp
<1> QED
  BY <1>1, <1>5, <1>7, Zenon DEF RoundsToOutlier, ScoreReaches

\* Train and serve agree on the z-score of the amount up to its rounding, which only adds
\* outliers to silver, and a request never has an indicator set that no row of silver has,
\* for any amounts, thresholds, precision and cap.
THEOREM AmountParity == Spec => []ServedAsTrained
<1>1. IInv => ServedAsTrained
  <2> SUFFICES ASSUME IInv, NEW c \in Customer
               PROVE  /\ \A fields \in SUBSET CallerFields, read \in BOOLEAN :
                           MissingIndicators(fields, read, store[c])
                               \subseteq NullFeatures({Now(c, MinAmount)}, Now(c, MinAmount), {})
                      /\ Whole(c) => \A amount \in Requested :
                           LET priced == Now(c, amount) IN
                           /\ Scored(store[c]) = HasScore(Baseline(With(priced), priced))
                           /\ is_amount_outlier(With(priced), priced)
                                  = (Scored(store[c]) /\ RoundsToOutlier(store[c], amount))
                           /\ OnlineOutlier(store[c], amount)
                                  => is_amount_outlier(With(priced), priced)
    BY DEF ServedAsTrained, Whole
  <2>1. ASSUME Whole(c), NEW amount \in Requested
        PROVE  LET priced == Now(c, amount) IN
               /\ Scored(store[c]) = HasScore(Baseline(With(priced), priced))
               /\ is_amount_outlier(With(priced), priced)
                      = (Scored(store[c]) /\ RoundsToOutlier(store[c], amount))
               /\ OnlineOutlier(store[c], amount) => is_amount_outlier(With(priced), priced)
    <3>1. PICK row, base : row = Now(c, amount) /\ base = Baseline(With(row), row)
      OBVIOUS
    <3>2. row.amount = amount /\ base = Past(c) /\ amount \in Int
      BY <3>1, PastIsBaseline, Constants DEF Now
    <3>3. /\ Cardinality(Past(c)) = Cardinality(store[c])
          /\ Amounts(store[c]) = Amounts(Past(c)) /\ Spread(store[c]) = Spread(Past(c))
      BY <2>1, SameMoments DEF Spread
    <3>4. Scored(store[c]) = HasScore(base)
      BY <3>2, <3>3 DEF Scored, HasScore
    <3>5. RoundsToOutlier(store[c], amount) = RoundsToOutlier(base, amount)
      BY <3>2, <3>3 DEF RoundsToOutlier, ScoreReaches
    <3>6. is_amount_outlier(With(row), row) = (HasScore(base) /\ RoundsToOutlier(base, amount))
      BY <3>1, <3>2 DEF is_amount_outlier
    <3>7. OnlineOutlier(store[c], amount) => RoundsToOutlier(store[c], amount)
      <4>1. IsFiniteSet(store[c]) /\ \A k \in store[c] : k.amount \in Int
        BY DEF IInv, StoreInv, Entry
      <4> QED
        BY <3>2, <4>1, OutlierRounds DEF OnlineOutlier, Scored
    <3>8. OnlineOutlier(store[c], amount) => Scored(store[c])
      BY DEF OnlineOutlier
    <3> QED
      BY <3>1, <3>4, <3>5, <3>6, <3>7, <3>8
  <2> QED
    BY <2>1, MissingAsFirst
<1> QED
  BY InductiveInvariant, <1>1, PTL

-----------------------------------------------------------------------------
(* Travel.                                                                  *)

LEMMA Faster ==
    ASSUME NEW a \in Nat, NEW b \in Nat, a <= b, NEW v \in Nat
    PROVE  v * a \in Nat /\ v * b \in Nat /\ v * a <= v * b
<1>1. v * a \in Nat /\ v * b \in Nat
  OBVIOUS
<1>2. v * a <= v * b
  BY Z3
<1> QED
  BY <1>1, <1>2

\* Between two rows too far apart, the first row away from the place of the earlier one is
\* flagged: it follows a row at that place, in no more time.
THEOREM TravelsCaught == Spec => []TravelCaught
<1>1. IInv => TravelCaught
  <2> SUFFICES ASSUME IInv, NEW c \in Customer, NEW o \in Orders(Bronze, c),
                      NEW i \in DOMAIN o, NEW j \in DOMAIN o, i < j, o[i].place # o[j].place,
                      Far >= SpeedLimit * (_seconds(o[j].t) - _seconds(o[i].t))
               PROVE  \E k \in i + 1 .. j : is_impossible_travel(o[k - 1], o[k])
    BY DEF TravelCaught
  <2>1. PICK n, rows : /\ rows = {r \in Bronze : r.customer = c} /\ n = Cardinality(rows)
                       /\ o \in [1 .. n -> rows]
                       /\ \A a, b \in 1 .. n : a < b => o[a] # o[b] /\ o[a].t <= o[b].t
    BY DEF Orders
  <2>2. n \in Nat
    <3>1. rows \subseteq Bronze
      BY <2>1
    <3>2. IsFiniteSet(rows)
      BY <3>1, BronzeFinite, FS_Subset
    <3> QED
      BY <2>1, <3>2, FS_CardinalityType
  <2>3. \A a \in 1 .. n : o[a].t \in Nat
    <3>1. \A r \in Bronze : r \in Event
      BY DEF Bronze, Emitted, IInv, GeneratorInv, GeneratorTypeOK
    <3>2. \A r \in Event : r.t \in Nat
      BY DEF Event
    <3> QED
      BY <2>1, <3>1, <3>2
  <2>4. i \in 1 .. n /\ j \in 1 .. n
    BY <2>1
  <2>5. PICK k \in {m \in i + 1 .. j : o[m].place # o[i].place} :
          \A m \in {l \in i + 1 .. j : o[l].place # o[i].place} : k <= m
    <3> DEFINE S == {m \in i + 1 .. j : o[m].place # o[i].place}
    <3>1. S \in SUBSET Nat /\ j \in S
      BY <2>2, <2>4
    <3> HIDE DEF S
    <3>2. \E m \in S : \A l \in S : m <= l
      BY <3>1, Least
    <3> QED
      BY <3>2 DEF S
  <2>6. /\ k \in 1 .. n /\ k - 1 \in 1 .. n /\ i <= k - 1 /\ k - 1 < k /\ k <= j
    BY <2>2, <2>4, <2>5
  <2>7. o[k - 1].place = o[i].place
    <3>1. CASE k - 1 = i
      BY <3>1
    <3>2. CASE k - 1 \in i + 1 .. j
      BY <2>5, <2>6, <3>2
    <3> QED
      BY <2>2, <2>4, <2>6, <3>1, <3>2
  <2>8. Distance(o[k - 1], o[k]) = Far
    BY <2>5, <2>7 DEF Distance
  <2>9. /\ o[i].t <= o[k - 1].t /\ o[k - 1].t <= o[k].t /\ o[k].t <= o[j].t
    <3>1. \A a, b \in 1 .. n : a <= b => o[a].t <= o[b].t
      <4>1. ASSUME NEW a \in 1 .. n, NEW b \in 1 .. n, a <= b
            PROVE  o[a].t <= o[b].t
        <5>1. a < b \/ a = b
          BY <2>2, <4>1
        <5> QED
          BY <2>1, <2>3, <5>1
      <4> QED
        BY <4>1
    <3> QED
      BY <2>2, <2>4, <2>6, <3>1
  <2>10. PICK elapsed, all : /\ elapsed = _seconds(o[k].t) - _seconds(o[k - 1].t)
                             /\ all = _seconds(o[j].t) - _seconds(o[i].t)
    OBVIOUS
  <2>11. elapsed \in Nat /\ all \in Nat /\ elapsed <= all
    <3>1. PICK a, b, d, e : a = o[i].t /\ b = o[k - 1].t /\ d = o[k].t /\ e = o[j].t
      OBVIOUS
    <3>2. /\ a \in Nat /\ b \in Nat /\ d \in Nat /\ e \in Nat
          /\ a <= b /\ b <= d /\ d <= e
      BY <2>3, <2>4, <2>6, <2>9, <3>1
    <3>3. /\ _seconds(a) \in Nat /\ _seconds(b) \in Nat /\ _seconds(d) \in Nat
          /\ _seconds(e) \in Nat
          /\ _seconds(a) <= _seconds(b) /\ _seconds(b) <= _seconds(d)
          /\ _seconds(d) <= _seconds(e)
      BY <3>2, Seconds, Constants
    <3> QED
      BY <2>10, <3>1, <3>3
  <2>12. Far \in Nat /\ Far > 0 /\ SpeedLimit \in Nat
    BY Constants
  <2>13. SpeedLimit * elapsed \in Nat /\ SpeedLimit * all \in Nat /\ SpeedLimit * elapsed <= SpeedLimit * all
    BY <2>11, <2>12, Faster
  <2>14. Far >= SpeedLimit * all
    BY <2>10
  <2>15. Far >= SpeedLimit * elapsed /\ Far > 0
    BY <2>12, <2>13, <2>14
  <2>16. is_impossible_travel(o[k - 1], o[k])
    BY <2>8, <2>10, <2>15 DEF is_impossible_travel, SameSecondTravel
  <2> QED
    BY <2>5, <2>16
<1> QED
  BY InductiveInvariant, <1>1, PTL
=============================================================================
