--------------------------- MODULE CongestionProofs ---------------------------
(***************************************************************************)
(* Proofs about CongestionControl, for every precision and range of the    *)
(* floats, every length of the files, every number of flows and whatever   *)
(* memory holds in the counters that nothing initialises.                  *)
(***************************************************************************)
EXTENDS CongestionControl, TLAPS

---------------------------------------------------------------------------
(* Quotients.                                                              *)

\* A quotient times its divisor.
LEMMA Division ==
    ASSUME NEW a \in Nat, NEW n \in Nat \ {0}
    PROVE  a \div n \in Nat /\ n * (a \div n) =< a
  OBVIOUS

LEMMA Times ==
    ASSUME NEW a \in Nat, NEW b \in Nat, NEW n \in Nat, a =< b
    PROVE  n * a \in Nat /\ n * b \in Nat /\ n * a =< n * b
  OBVIOUS

\* A share of x is no more than x.
LEMMA ShareOf ==
    ASSUME NEW x \in Nat, NEW m \in Nat, NEW n \in Nat \ {0}, m =< n
    PROVE  (x * m) \div n \in 0..x
  <1> DEFINE q == (x * m) \div n
  <1>1. x * m \in Nat /\ x * n \in Nat /\ x * m =< x * n
    BY Times
  <1>2. q \in Nat /\ n * q =< x * m
    BY <1>1, Division
  <1> HIDE DEF q
  <1>3. n * q =< n * x
    BY <1>1, <1>2
  <1>4. ASSUME q >= x + 1
        PROVE  FALSE
    <2>1. n * (x + 1) =< n * q
      BY <1>2, <1>4, Times
    <2>2. n * (x + 1) = n * x + n
      OBVIOUS
    <2>3. n * x \in Nat /\ n * q \in Nat
      BY <1>2
    <2> QED BY <1>3, <2>1, <2>2, <2>3
  <1>5. q \in 0..x
    BY <1>2, <1>4
  <1> QED BY <1>5 DEF q

\* Dividing by no more than was multiplied with gives no less.
LEMMA LargeQuotient ==
    ASSUME NEW a \in Nat, NEW m \in Nat, NEW n \in Nat \ {0}, n =< m
    PROVE  (a * m) \div n >= a
  <1> DEFINE x == a * m
             q == x \div n
  <1>1. x \in Nat
    OBVIOUS
  <1>2. a * n =< x /\ a * n \in Nat
    BY Times
  <1> HIDE DEF x
  <1>3. q \in Nat /\ x < n * (q + 1)
    BY <1>1
  <1> HIDE DEF q
  <1>4. ASSUME q < a
        PROVE  FALSE
    <2>1. n * (q + 1) =< n * a
      BY <1>3, <1>4, Times
    <2>2. n * a = a * n /\ n * (q + 1) \in Nat
      BY <1>3
    <2> QED BY <1>1, <1>2, <1>3, <2>1, <2>2
  <1> QED BY <1>3, <1>4 DEF q, x

\* Rounding towards 0 is the floor where nothing is negative.
LEMMA NatQuotient ==
    ASSUME NEW a \in Nat, NEW b \in Nat \ {0}
    PROVE  Quotient(a, b) = a \div b
  <1>1. (a < 0) = FALSE /\ (b < 0) = FALSE
    OBVIOUS
  <1> QED BY <1>1 DEF Quotient, Abs

LEMMA IntQuotient ==
    ASSUME NEW a \in Int, NEW b \in Int \ {0}
    PROVE  Quotient(a, b) \in Int
  <1> DEFINE x == Abs(a)
             y == Abs(b)
  <1>1. x \in Nat /\ y \in Nat \ {0}
    BY DEF Abs
  <1> HIDE DEF x, y
  <1>2. x \div y \in Nat
    BY <1>1, Division
  <1>3. Quotient(a, b) = x \div y \/ Quotient(a, b) = -(x \div y)
    BY DEF Quotient, x, y
  <1> QED BY <1>2, <1>3

---------------------------------------------------------------------------
(* Floats.                                                                 *)

Floats == Int \cup Specials

\* What the window of a source is that has begun with sound counters.
Opened == 0..MaxFloat \cup {Infinity}

LEMMA FloatType ==
    ASSUME NEW x \in Int
    PROVE  Float(x) \in Floats
  BY DEF Float, Floats, Specials

LEMMA NumberOpened == Opened \subseteq Floats /\ \A x \in Opened : x # Infinity => x \notin Specials
  BY FloatAssumption DEF Opened, Floats, Specials

LEMMA UnitFits == Unit \in Nat \ {0} /\ MaxFloat \in Nat /\ Unit =< MaxFloat
                  /\ \A j \in 0..MaxInt : j * Unit \in Nat /\ j * Unit =< MaxFloat
  <1>1. Unit \in Nat \ {0} /\ MaxInt \in Nat \ {0} /\ MaxFloat \in Nat /\ MaxInt * Unit =< MaxFloat
    BY FloatAssumption
  <1>2. ASSUME NEW j \in 0..MaxInt
        PROVE  j * Unit \in Nat /\ j * Unit =< MaxFloat
    <2>1. j \in Nat /\ j =< MaxInt
      BY <1>1
    <2>2. Unit * j \in Nat /\ Unit * MaxInt \in Nat /\ Unit * j =< Unit * MaxInt
      BY <1>1, <2>1, Times
    <2>3. Unit * j = j * Unit /\ Unit * MaxInt = MaxInt * Unit
      BY <1>1, <2>1
    <2> QED BY <1>1, <2>2, <2>3
  <1>3. 1 \in 0..MaxInt /\ 1 * Unit = Unit
    BY <1>1
  <1> QED BY <1>1, <1>2, <1>3

\* What an int becomes; and a positive threshold has a window of a packet behind it.
LEMMA WholeLemma ==
    ASSUME NEW x \in Floats, NEW n \in Whole(x)
    PROVE  /\ n \in Int /\ n =< MaxInt
           /\ x \in Opened /\ x # Infinity /\ n > 0 => x >= Unit
  <1>1. Unit \in Nat \ {0} /\ MaxInt \in Nat \ {0} /\ MaxInt * Unit \in Nat /\ Unit =< MaxInt * Unit
    <2>1. Unit \in Nat \ {0} /\ MaxInt \in Nat \ {0}
      BY FloatAssumption
    <2>2. Unit * 1 =< Unit * MaxInt /\ Unit * MaxInt \in Nat
      BY <2>1, Times
    <2> QED BY <2>1, <2>2
  <1>2. CASE n \in Wild /\ (x \in Specials \/ Abs(x) > MaxInt * Unit)
    <2>1. n \in Int /\ n =< MaxInt
      BY <1>1, <1>2, WildAssumption
    <2>2. ASSUME x \in Opened, x # Infinity
          PROVE  x >= Unit
      <3>1. x \in Nat /\ x \notin Specials
        BY <2>2, NumberOpened, FloatAssumption DEF Opened
      <3>2. Abs(x) = x
        BY <3>1 DEF Abs
      <3> QED BY <1>1, <1>2, <3>1, <3>2
    <2> QED BY <2>1, <2>2
  <1>3. CASE x \notin Specials /\ ~(Abs(x) > MaxInt * Unit) /\ n = Quotient(x, Unit)
    <2>1. x \in Int
      BY <1>3 DEF Floats
    <2>2. CASE x >= 0
      <3>1. x \in Nat /\ x =< MaxInt * Unit /\ Abs(x) = x
        BY <1>1, <1>3, <2>1, <2>2 DEF Abs
      <3>2. n = x \div Unit
        BY <1>1, <1>3, <3>1, NatQuotient
      <3> DEFINE q == x \div Unit
      <3>3. q \in Nat /\ Unit * q =< x
        BY <1>1, <3>1, Division
      <3> HIDE DEF q
      <3>4. ASSUME q >= MaxInt + 1
            PROVE  FALSE
        <4>1. Unit * (MaxInt + 1) =< Unit * q /\ Unit * q \in Nat
          BY <1>1, <3>3, <3>4, Times
        <4>2. Unit * (MaxInt + 1) = MaxInt * Unit + Unit
          BY <1>1
        <4> QED BY <1>1, <3>1, <3>3, <4>1, <4>2
      <3>5. ASSUME q > 0
            PROVE  x >= Unit
        <4>1. Unit * 1 =< Unit * q /\ Unit * q \in Nat
          BY <1>1, <3>3, <3>5, Times
        <4> QED BY <1>1, <3>1, <3>3, <4>1
      <3> QED BY <1>1, <3>2, <3>3, <3>4, <3>5 DEF q
    <2>3. CASE x < 0
      <3>1. -x \in Nat /\ Abs(x) = -x /\ Abs(Unit) = Unit /\ x \notin Opened
        BY <1>1, <1>3, <2>1, <2>3, FloatAssumption DEF Abs, Opened, Specials
      <3>2. (x < 0) = TRUE /\ (Unit < 0) = FALSE
        BY <1>1, <2>1, <2>3
      <3>3. n = -((-x) \div Unit)
        BY <1>3, <3>1, <3>2 DEF Quotient
      <3>4. (-x) \div Unit \in Nat
        BY <1>1, <3>1, Division
      <3> QED BY <1>1, <3>1, <3>3, <3>4
    <2> QED BY <2>1, <2>2, <2>3
  <1>4. n \in IF x \in Specials \/ Abs(x) > MaxInt * Unit THEN Wild
              ELSE {IF x \in Specials THEN 0 ELSE Quotient(x, Unit)}
    BY DEF Whole, Ints
  <1> QED BY <1>2, <1>3, <1>4

LEMMA FloorInt ==
    ASSUME NEW x \in Floats, NEW n \in Floor(x)
    PROVE  n \in Int
  <1>1. n \in Wild \/ (x \notin Specials /\ n = x \div Unit)
    BY DEF Floor, Ints
  <1>2. Unit \in Nat \ {0} /\ Wild \subseteq Int
    BY FloatAssumption, WildAssumption
  <1>3. CASE x \notin Specials /\ n = x \div Unit
    <2>1. x \in Int
      BY <1>3 DEF Floats
    <2> QED BY <1>2, <1>3, <2>1
  <1> QED BY <1>1, <1>2, <1>3

\* A half is no more than the whole.
LEMMA HalfLemma ==
    ASSUME NEW x \in Floats
    PROVE  /\ Part(x, 2) \in Floats
           /\ x \in Opened =>
                /\ Part(x, 2) \in Opened /\ (Part(x, 2) = Infinity <=> x = Infinity)
                /\ x # Infinity => Part(x, 2) =< x /\ 2 * Part(x, 2) + 1 >= x
  <1>1. Part(x, 2) \in Floats
    BY IntQuotient DEF Part, Floats
  <1>2. ASSUME x \in Opened, x # Infinity
        PROVE  /\ Part(x, 2) \in 0..MaxFloat /\ Part(x, 2) # Infinity
               /\ Part(x, 2) =< x /\ 2 * Part(x, 2) + 1 >= x
    <2>1. x \in Nat /\ x =< MaxFloat /\ x \notin Specials /\ MaxFloat \in Nat
      BY <1>2, NumberOpened, FloatAssumption DEF Opened
    <2>2. Part(x, 2) = x \div 2
      BY <2>1, NatQuotient DEF Part
    <2>3. x \div 2 \in Nat /\ x \div 2 =< x /\ 2 * (x \div 2) + 1 >= x
      BY <2>1
    <2>4. Infinity \notin Int
      BY FloatAssumption DEF Specials
    <2> QED BY <2>1, <2>2, <2>3, <2>4
  <1>3. x = Infinity => Part(x, 2) = Infinity
    BY DEF Part, Specials
  <1> QED BY <1>1, <1>2, <1>3 DEF Opened

LEMMA ScaledType ==
    ASSUME NEW x \in Floats, NEW alpha \in Int
    PROVE  Scaled(x, alpha) \in Floats
  <1> DEFINE a == x * (2 * Unit - alpha)
             d == 2 * Unit
  <1>1. CASE x \notin Specials
    <2>1. x \in Int /\ Unit \in Nat \ {0}
      BY <1>1, FloatAssumption DEF Floats
    <2>2. a \in Int /\ d \in Int \ {0}
      BY <2>1
    <2>3. Scaled(x, alpha) = Float(Quotient(a, d))
      BY <1>1 DEF Scaled
    <2> HIDE DEF a, d
    <2> QED BY <2>2, <2>3, IntQuotient, FloatType
  <1>2. CASE x \in Specials
    BY <1>2 DEF Scaled, Floats, Specials
  <1> QED BY <1>1, <1>2

\* A cut by half a share leaves an open window open, and never makes it larger.
LEMMA ScaledOpen ==
    ASSUME NEW x \in Opened, NEW alpha \in 0..Unit
    PROVE  /\ Scaled(x, alpha) \in Opened
           /\ x # Infinity => Scaled(x, alpha) # Infinity /\ Scaled(x, alpha) =< x
  <1>1. Unit \in Nat \ {0} /\ alpha \in Nat /\ alpha =< Unit /\ MaxFloat \in Nat
    BY FloatAssumption
  <1> DEFINE d == 2 * Unit
             m == 2 * Unit - alpha
  <1>2. d \in Nat \ {0} /\ m \in Nat \ {0} /\ m =< d
    BY <1>1
  <1>3. CASE x # Infinity
    <2>1. x \in Nat /\ x =< MaxFloat /\ x \notin Specials
      BY <1>1, <1>3, NumberOpened DEF Opened
    <2>2. Scaled(x, alpha) = Float(Quotient(x * m, d))
      BY <2>1 DEF Scaled
    <2> HIDE DEF m, d
    <2>3. x * m \in Nat
      BY <1>2, <2>1
    <2>4. Quotient(x * m, d) = (x * m) \div d
      BY <1>2, <2>3, NatQuotient
    <2>5. (x * m) \div d \in 0..x
      BY <1>2, <2>1, ShareOf
    <2> DEFINE q == (x * m) \div d
    <2> HIDE DEF q
    <2>6. q \in 0..x /\ Scaled(x, alpha) = Float(q)
      BY <2>2, <2>4, <2>5 DEF q
    <2>7. Float(q) = q
      BY <1>1, <2>1, <2>6 DEF Float
    <2>8. q # Infinity
      BY <2>6, FloatAssumption DEF Specials
    <2> QED BY <1>1, <2>1, <2>6, <2>7, <2>8 DEF Opened
  <1>4. CASE x = Infinity
    <2>1. Scaled(x, alpha) = Infinity
      BY <1>1, <1>2, <1>4, FloatAssumption DEF Scaled, Specials
    <2> QED BY <1>4, <2>1 DEF Opened
  <1> QED BY <1>3, <1>4

\* Adding j / x opens the window by a packet, if not by more; and by no more
\* than j packets where the window had one.
LEMMA AddedLemma ==
    ASSUME NEW x \in Int, NEW j \in Nat
    PROVE  /\ Inverse_Added(x, j) \in Floats
           /\ x \in 0..MaxFloat /\ j > 0 =>
                /\ Inverse_Added(x, j) \in Opened
                /\ Inverse_Added(x, j) = Infinity \/ Inverse_Added(x, j) >= Unit
           /\ x \in 0..MaxFloat /\ x >= Unit /\ j =< MaxInt =>
                Inverse_Added(x, j) # Infinity /\ Inverse_Added(x, j) =< x + j * Unit
  <1> DEFINE k == j * Unit
             a == j * Unit * Unit
             q == IF x = 0 THEN Infinity ELSE Float(Quotient(a, x))
             r == IF q \in Specials THEN q ELSE IF x + q > MaxFloat THEN MaxFloat ELSE x + q
  <1>1. Unit \in Nat \ {0} /\ MaxFloat \in Nat /\ Unit =< MaxFloat
    BY UnitFits
  <1>2. k \in Nat /\ a \in Nat /\ a = k * Unit
    BY <1>1
  <1>3. Inverse_Added(x, j) = r
    BY DEF Inverse_Added
  <1>4. q \in Floats
    <2> HIDE DEF a
    <2>1. CASE x = 0
      BY <2>1 DEF Floats, Specials
    <2>2. CASE x # 0
      BY <1>2, <2>2, IntQuotient, FloatType
    <2> QED BY <2>1, <2>2
  <1>5. r \in Floats
    <2> HIDE DEF q
    <2>1. CASE q \in Specials
      BY <2>1 DEF Floats
    <2>2. CASE q \notin Specials
      BY <1>1, <1>4, <2>2 DEF Floats
    <2> QED BY <2>1, <2>2
  \* The quotient of a number from 0 on.
  <1>6. ASSUME x \in 0..MaxFloat, x # 0
        PROVE  \E y \in Nat : /\ q = Float(y)
                              /\ x =< Unit => y >= k
                              /\ x >= Unit => y =< k
    <2>1. x \in Nat \ {0}
      BY <1>1, <1>6
    <2>2. Quotient(a, x) = a \div x
      <3> HIDE DEF a
      <3> QED BY <1>2, <2>1, NatQuotient
    <2> DEFINE y == (k * Unit) \div x
    <2>3. q = Float(y)
      BY <1>2, <1>6, <2>2
    <2> HIDE DEF k
    <2>4. x =< Unit => y >= k
      BY <1>1, <1>2, <2>1, LargeQuotient
    <2>5. x >= Unit => y \in 0..k
      BY <1>1, <1>2, <2>1, ShareOf
    <2>6. y \in Nat
      BY <1>1, <1>2, <2>1, Division
    <2> HIDE DEF y, q
    <2> QED BY <1>2, <2>3, <2>4, <2>5, <2>6
  <1>7. j > 0 => k >= Unit
    <2>1. ASSUME j > 0
          PROVE  Unit * 1 =< Unit * j
      BY <1>1, <2>1, Times
    <2> QED BY <1>1, <2>1
  <1>8. j =< MaxInt => k =< MaxFloat
    BY UnitFits
  <1>9. Infinity \notin Int /\ Infinity \in Specials /\ \A y \in Specials : y \notin Int
    BY FloatAssumption DEF Specials
  <1> HIDE DEF k, q, a
  <1>10. ASSUME x \in 0..MaxFloat, j > 0
         PROVE  r \in Opened /\ (r = Infinity \/ r >= Unit)
    <2>1. CASE x = 0
      BY <1>9, <2>1 DEF q, Opened
    <2>2. CASE x # 0
      <3>1. PICK y \in Nat : q = Float(y) /\ (x =< Unit => y >= k) /\ (x >= Unit => y =< k)
        BY <1>6, <1>10, <2>2
      <3>2. CASE y > MaxFloat
        BY <1>1, <1>9, <3>1, <3>2 DEF Float, Opened
      <3>3. CASE ~(y > MaxFloat)
        <4>1. q = y /\ q \notin Specials
          BY <1>1, <1>9, <3>1, <3>3 DEF Float
        <4>2. x + y >= Unit
          BY <1>1, <1>2, <1>7, <1>10, <3>1
        <4>3. r \in 0..MaxFloat /\ r >= Unit
          BY <1>1, <1>10, <3>1, <4>1, <4>2
        <4> QED BY <4>3 DEF Opened
      <3> QED BY <3>2, <3>3
    <2> QED BY <2>1, <2>2
  <1>11. ASSUME x \in 0..MaxFloat, x >= Unit, j =< MaxInt
         PROVE  r # Infinity /\ r =< x + k
    <2>1. x # 0
      BY <1>1, <1>11
    <2>2. PICK y \in Nat : q = Float(y) /\ y =< k
      BY <1>6, <1>11, <2>1
    <2>3. y =< MaxFloat
      BY <1>1, <1>2, <1>8, <1>11, <2>2
    <2>4. q = y /\ q \notin Specials
      BY <1>1, <1>9, <2>2, <2>3 DEF Float
    <2>5. r \in Int /\ r =< x + k
      BY <1>1, <1>2, <2>2, <2>4
    <2> QED BY <1>9, <2>5
  <1> HIDE DEF r
  <1> QED BY <1>3, <1>5, <1>10, <1>11 DEF k

---------------------------------------------------------------------------
(* The members of the source.                                              *)

Sources ==
    [ window_size : Floats, Window_threshold : Int, packets_in_window : Nat,
      dup_ack_count : {0, 1}, alpha1 : Int,
      ACKcount_flag : {0, 1}, ACKcount : Int, ACKcounter : Int, ECNcount : Int ]

\* The marks counted in a round, and those that may still come.
Counted(h) ==
    h.ACKcount_flag = 1 => /\ h.ECNcount >= 0 /\ h.ECNcount + h.ACKcounter =< h.ACKcount
                           /\ h.ACKcounter >= 0 \/ h.ECNcount = 0

SoundNow(h) == Sound(<<h.ACKcount, h.ECNcount>>)

\* What holds of a source that has begun with sound counters.
Open(h) == /\ h.alpha1 \in 0..Unit
           /\ h.window_size \in Opened
           /\ h.Window_threshold =< MaxInt
           /\ h.Window_threshold > 0 /\ h.window_size # Infinity => h.window_size >= Unit

\* A round is as long as the window that was cut at its beginning.
Round(h, since, cut) ==
    IF h.ACKcount_flag = 1 THEN since + h.ACKcounter = cut ELSE since > cut

\* Sound counters are no more marks than acks, of the same sign.
LEMMA SoundCases ==
    ASSUME NEW a \in Int, NEW e \in Int
    PROVE  Sound(<<a, e>>) <=> \/ a = 0
                               \/ 0 =< e /\ e =< a
                               \/ a =< e /\ e =< 0
  BY DEF Sound

LEMMA ShareType ==
    ASSUME NEW h \in Sources
    PROVE  Share(h) \in Int
  <1>1. h.alpha1 \in Int /\ h.ECNcount \in Int /\ h.ACKcount \in Int /\ Unit \in Nat
    BY FloatAssumption DEF Sources
  <1>2. CASE h.ACKcount = 0
    BY <1>1, <1>2 DEF Share
  <1>3. CASE h.ACKcount # 0
    <2> DEFINE e == Unit * h.ECNcount
               s == Quotient(e, h.ACKcount)
    <2>1. e \in Int
      BY <1>1
    <2> HIDE DEF e
    <2>2. s \in Int
      BY <1>1, <1>3, <2>1, IntQuotient
    <2>3. Share(h) = Quotient(h.alpha1 + s, 2)
      BY <1>3 DEF Share, e
    <2> HIDE DEF s
    <2> QED BY <1>1, <2>2, <2>3, IntQuotient
  <1> QED BY <1>2, <1>3

\* Sound counters give a share.
LEMMA ShareLemma ==
    ASSUME NEW h \in Sources, SoundNow(h), h.alpha1 \in 0..Unit
    PROVE  Share(h) \in 0..Unit
  <1> DEFINE a == h.ACKcount
             e == h.ECNcount
             s == Quotient(Unit * e, a)
  <1>1. a \in Int /\ e \in Int /\ Unit \in Nat \ {0} /\ h.alpha1 \in 0..Unit
    BY FloatAssumption DEF Sources
  <1>2. \/ a = 0
        \/ 0 =< e /\ e =< a
        \/ a =< e /\ e =< 0
    BY <1>1, SoundCases DEF SoundNow
  <1>3. CASE a = 0
    BY <1>1, <1>3 DEF Share
  <1>4. ASSUME a # 0, s \in 0..Unit
        PROVE  Share(h) \in 0..Unit
    <2>1. Share(h) = Quotient(h.alpha1 + s, 2)
      BY <1>4 DEF Share
    <2> HIDE DEF s
    <2>2. h.alpha1 + s \in 0..(2 * Unit)
      BY <1>1, <1>4
    <2> DEFINE x == h.alpha1 + s
    <2> HIDE DEF x
    <2>3. x \in 0..(2 * Unit) /\ Share(h) = Quotient(x, 2)
      BY <2>1, <2>2 DEF x
    <2>4. Quotient(x, 2) = x \div 2
      BY <1>1, <2>3, NatQuotient
    <2> QED BY <1>1, <2>3, <2>4
  <1> HIDE DEF a, e
  <1>5. CASE a > 0 /\ 0 =< e /\ e =< a
    <2>1. e \in Nat /\ a \in Nat \ {0} /\ Unit * e \in Nat
      BY <1>1, <1>5
    <2>2. s = (Unit * e) \div a
      BY <2>1, NatQuotient
    <2>3. (Unit * e) \div a \in 0..Unit
      BY <1>1, <1>5, <2>1, ShareOf
    <2> QED BY <1>4, <1>5, <2>2, <2>3
  <1>6. CASE a < 0 /\ a =< e /\ e =< 0
    <2> DEFINE b == -a
               m == -e
    <2>1. b \in Nat \ {0} /\ m \in Nat /\ m =< b
      BY <1>1, <1>6
    <2> DEFINE q == (Unit * m) \div b
    <2>2. q \in 0..Unit
      BY <1>1, <2>1, ShareOf
    <2>3. Abs(a) = b /\ Abs(Unit * e) = Unit * m
      <3>1. Unit * e = -(Unit * m) /\ Unit * m \in Nat
        BY <1>1, <2>1
      <3> HIDE DEF m
      <3> QED BY <1>1, <1>6, <3>1 DEF Abs
    <2>4. CASE e < 0
      <3>1. Unit * e < 0
        <4>1. Unit * 1 =< Unit * m
          BY <1>1, <2>1, <2>4, Times
        <4>2. Unit * e = -(Unit * m) /\ Unit * m \in Nat
          BY <1>1, <2>1
        <4> HIDE DEF m
        <4> QED BY <1>1, <4>1, <4>2
      <3>2. (Unit * e < 0) = TRUE /\ (a < 0) = TRUE
        BY <1>1, <1>6, <3>1
      <3>3. s = q
        BY <2>3, <3>2 DEF Quotient
      <3> QED BY <1>4, <1>6, <2>2, <3>3, <1>1
    <2>5. CASE e = 0
      <3>1. Unit * e = 0 /\ Unit * m = 0
        BY <1>1, <2>5
      <3>2. (Unit * e < 0) = FALSE /\ (a < 0) = TRUE
        BY <1>1, <1>6, <3>1
      <3>3. s = -q
        BY <2>3, <3>2 DEF Quotient
      <3>4. q = 0
        BY <2>1, <3>1
      <3> HIDE DEF q, s
      <3>5. s \in 0..Unit
        BY <1>1, <3>3, <3>4
      <3> QED BY <1>1, <1>4, <1>6, <3>5
    <2> QED BY <1>1, <1>6, <2>4, <2>5
  <1> QED BY <1>1, <1>2, <1>3, <1>5, <1>6 DEF a

\* What feedback makes of the counters.
LEMMA FeedbackLemma ==
    ASSUME NEW h \in Sources, Counted(h), NEW b \in {0, 1}, NEW n \in Int
    PROVE  LET f == Feedback(h, b, n)
           IN  /\ f \in Sources /\ Counted(f)
               /\ SoundNow(h) \/ h.ACKcount_flag = 0 => SoundNow(f)
               /\ f.packets_in_window = h.packets_in_window
               /\ f.Window_threshold = h.Window_threshold
               /\ IF h.ACKcount_flag = 0 THEN f.ACKcount_flag = 1 /\ f.ACKcounter = n
                  ELSE IF h.ACKcounter > 0
                  THEN f.ACKcount_flag = 1 /\ f.ACKcounter = h.ACKcounter - 1
                  ELSE f.ACKcount_flag = 0
  <1> DEFINE f == Feedback(h, b, n)
  <1>1. /\ h.ACKcount \in Int /\ h.ACKcounter \in Int /\ h.ECNcount \in Int /\ h.ACKcount_flag \in {0, 1}
        /\ h.window_size \in Floats
    BY DEF Sources
  <1>2. CASE h.ACKcount_flag = 0
    <2> DEFINE s == Share(h)
               w == Scaled(h.window_size, s)
    <2>1. s \in Int /\ w \in Floats /\ 0 \in Int
      BY <1>1, ShareType, ScaledType
    <2>2. f = [h EXCEPT !.alpha1 = s, !.ACKcount_flag = 1, !.ECNcount = 0,
                        !.ACKcount = n, !.ACKcounter = n, !.window_size = w]
      BY <1>2 DEF Feedback, Cut
    <2> HIDE DEF f, s, w
    <2>3. /\ f.ACKcount_flag = 1 /\ f.ECNcount = 0 /\ f.ACKcount = n /\ f.ACKcounter = n
          /\ f.packets_in_window = h.packets_in_window /\ f.Window_threshold = h.Window_threshold
      BY <2>2 DEF Sources
    <2>6. f \in Sources
      BY <2>1, <2>2, Zenon DEF Sources
    <2>4. Counted(f)
      BY <2>3 DEF Counted
    <2>5. SoundNow(f)
      <3>1. Sound(<<n, 0>>)
        BY SoundCases
      <3> QED BY <2>3, <3>1 DEF SoundNow
    <2> QED BY <1>2, <2>3, <2>4, <2>5, <2>6 DEF f
  <1>3. CASE h.ACKcount_flag # 0 /\ h.ACKcounter > 0
    <2> DEFINE c == h.ACKcounter - 1
               e == h.ECNcount + b
    <2>1. f = [h EXCEPT !.ACKcounter = c, !.ECNcount = e]
      BY <1>3 DEF Feedback
    <2>2. c \in Nat /\ c \in Int /\ e \in Int
      BY <1>1, <1>3
    <2> HIDE DEF f, c, e
    <2>3. /\ f.ACKcount_flag = h.ACKcount_flag /\ f.ACKcounter = c
          /\ f.ECNcount = e /\ f.ACKcount = h.ACKcount
          /\ f.packets_in_window = h.packets_in_window /\ f.Window_threshold = h.Window_threshold
      BY <2>1 DEF Sources
    <2>6. f \in Sources
      BY <2>1, <2>2, Zenon DEF Sources
    <2>8. h.ACKcount_flag = 1
      BY <1>1, <1>3
    <2>4. 0 =< e /\ e + c =< h.ACKcount
      BY <1>1, <1>3 DEF Counted, c, e
    <2>5. Counted(f)
      BY <1>1, <2>2, <2>3, <2>4, <2>8 DEF Counted
    <2>7. SoundNow(f)
      <3>1. Sound(<<h.ACKcount, e>>)
        BY <1>1, <2>2, <2>4, SoundCases
      <3> QED BY <2>3, <3>1 DEF SoundNow
    <2> QED BY <1>3, <2>3, <2>5, <2>6, <2>7, <2>8 DEF f, c
  <1>4. CASE h.ACKcount_flag # 0 /\ ~(h.ACKcounter > 0)
    <2>1. f = [h EXCEPT !.ACKcount_flag = 0]
      BY <1>4 DEF Feedback
    <2> HIDE DEF f
    <2>2. /\ f \in Sources /\ f.ACKcount_flag = 0
          /\ f.ECNcount = h.ECNcount /\ f.ACKcount = h.ACKcount
          /\ f.packets_in_window = h.packets_in_window /\ f.Window_threshold = h.Window_threshold
      BY <2>1 DEF Sources
    <2>3. Counted(f) /\ (SoundNow(h) => SoundNow(f))
      BY <2>2 DEF Counted, SoundNow
    <2> QED BY <1>4, <2>2, <2>3 DEF f
  <1> QED BY <1>2, <1>3, <1>4

\* And of the window, when the counters are sound.
LEMMA FeedbackOpen ==
    ASSUME NEW h \in Sources, Open(h), SoundNow(h), NEW b \in {0, 1}, NEW n \in Int
    PROVE  LET f == Feedback(h, b, n)
           IN  /\ f.alpha1 \in 0..Unit /\ f.window_size \in Opened
               /\ h.window_size # Infinity =>
                     f.window_size # Infinity /\ f.window_size =< h.window_size
  <1> DEFINE f == Feedback(h, b, n)
  <1>1. h.alpha1 \in 0..Unit /\ h.window_size \in Opened
    BY DEF Open
  <1>2. CASE h.ACKcount_flag = 0
    <2> DEFINE s == Share(h)
    <2>1. s \in 0..Unit
      BY <1>1, ShareLemma
    <2>2. f.alpha1 = s /\ f.window_size = Scaled(h.window_size, s)
      BY <1>2 DEF Feedback, Cut, Sources
    <2> HIDE DEF s, f
    <2> QED BY <1>1, <2>1, <2>2, ScaledOpen DEF f
  <1>3. CASE h.ACKcount_flag # 0
    <2>1. f.alpha1 = h.alpha1 /\ f.window_size = h.window_size
      BY <1>3 DEF Feedback, Sources
    <2> HIDE DEF f
    <2>2. h.window_size # Infinity => h.window_size \in Int
      BY <1>1, FloatAssumption DEF Opened
    <2> QED BY <1>1, <2>1, <2>2 DEF f
  <1> QED BY <1>2, <1>3

\* Growing changes the window only.
LEMMA GrowLemma ==
    ASSUME NEW h \in Sources, NEW j \in Nat
    PROVE  /\ Grow(h, j).window_size \in Floats
           /\ Grow(h, j) = [h EXCEPT !.window_size = Grow(h, j).window_size]
  <1> DEFINE w == h.window_size
             t == h.Window_threshold * Unit
             k == j * Unit
             u == IF w \in Specials THEN w ELSE IF w + k < t THEN w + k
                  ELSE IF w < t THEN t ELSE Inverse_Added(w, j)
  <1>1. w \in Floats /\ t \in Int /\ k \in Int
    BY FloatAssumption DEF Sources
  <1>2. Grow(h, j) = [h EXCEPT !.window_size = u]
    <2>1. CASE w \in Specials
      <3>1. Grow(h, j) = h
        BY <2>1 DEF Grow
      <3> HIDE DEF k, t
      <3> QED BY <2>1, <3>1 DEF Sources
    <2>2. CASE w \notin Specials
      BY <2>2 DEF Grow
    <2> QED BY <2>1, <2>2
  <1> HIDE DEF k, t, w
  <1>3. u \in Floats
    <2>1. CASE w \in Specials
      BY <2>1 DEF Floats
    <2>2. CASE w \notin Specials
      <3>1. w \in Int
        BY <1>1, <2>2 DEF Floats
      <3>2. Inverse_Added(w, j) \in Floats
        BY <3>1, AddedLemma
      <3> QED BY <1>1, <2>2, <3>1, <3>2 DEF Floats
    <2> QED BY <2>1, <2>2
  <1> HIDE DEF u
  <1> QED BY <1>2, <1>3 DEF Sources

\* A window that grows is open by a packet at least, and, while the threshold
\* is above 0, by no more than the packets acknowledged on top of what it was.
LEMMA GrowOpen ==
    ASSUME NEW h \in Sources, h.window_size \in Opened, h.Window_threshold =< MaxInt,
           NEW j \in Nat \ {0}
    PROVE  LET u == Grow(h, j).window_size
           IN  /\ u \in Opened /\ (u = Infinity \/ u >= Unit)
               /\ h.Window_threshold > 0 /\ h.window_size # Infinity /\ j =< MaxInt =>
                     u # Infinity /\ u =< h.window_size + j * Unit
  <1> DEFINE w == h.window_size
             c == h.Window_threshold
             t == c * Unit
             k == j * Unit
             u == Grow(h, j).window_size
  <1>1. /\ Unit \in Nat \ {0} /\ MaxFloat \in Nat /\ Unit =< MaxFloat
        /\ c \in Int /\ MaxInt \in Nat
    BY UnitFits, FloatAssumption DEF Sources
  <1>2. t \in Int /\ k \in Nat
    BY <1>1
  <1>3. k >= Unit
    <2>1. Unit * 1 =< Unit * j
      BY <1>1, Times
    <2> QED BY <1>1, <2>1
  <1>4. c > 0 => t >= Unit /\ t =< MaxFloat
    <2>1. ASSUME c > 0
          PROVE  t >= Unit /\ t =< MaxFloat
      <3>1. Unit * 1 =< Unit * c /\ c \in 0..MaxInt
        BY <1>1, <2>1, Times
      <3> QED BY <1>1, <3>1, UnitFits
    <2> QED BY <2>1
  <1>5. c =< 0 => t =< 0
    <2>1. ASSUME c =< 0
          PROVE  t =< 0
      <3>1. -c \in Nat /\ Unit * (-c) \in Nat /\ t = -(Unit * (-c))
        BY <1>1, <2>1
      <3> QED BY <1>2, <3>1
    <2> QED BY <2>1
  <1>6. Infinity \notin Int /\ Infinity \in Specials /\ \A x \in Specials : x \notin Int
    BY FloatAssumption DEF Specials
  <1>7. CASE w = Infinity
    <2>1. u = Infinity
      BY <1>6, <1>7 DEF Grow
    <2> HIDE DEF u
    <2> QED BY <1>7, <2>1 DEF u, Opened
  <1>8. CASE w # Infinity
    <2>1. w \in 0..MaxFloat /\ w \notin Specials
      BY <1>6, <1>8 DEF Opened
    <2>2. u = IF w + k < t THEN w + k ELSE IF w < t THEN t ELSE Inverse_Added(w, j)
      BY <2>1 DEF Grow, Sources
    <2> DEFINE a == Inverse_Added(w, j)
    <2>3. /\ a \in Opened /\ (a = Infinity \/ a >= Unit)
          /\ w >= Unit /\ j =< MaxInt => a # Infinity /\ a =< w + k
      BY <2>1, AddedLemma
    <2> HIDE DEF u, w, c, t, k, a
    <2>4. CASE w + k < t
      <3>1. u = w + k /\ u \in 0..MaxFloat /\ u >= Unit
        BY <1>1, <1>2, <1>3, <1>4, <1>5, <2>1, <2>2, <2>4
      <3> QED BY <1>1, <1>2, <1>6, <3>1, <2>1 DEF u, w, c, k, Opened
    <2>5. CASE ~(w + k < t) /\ w < t
      <3>1. u = t /\ u \in 0..MaxFloat /\ u >= Unit /\ u =< w + k
        BY <1>1, <1>2, <1>3, <1>4, <1>5, <2>1, <2>2, <2>5
      <3> QED BY <1>1, <1>2, <1>6, <3>1, <2>1 DEF u, w, c, k, Opened
    <2>6. CASE ~(w + k < t) /\ ~(w < t)
      <3>1. u = a /\ (c > 0 => w >= Unit)
        BY <1>1, <1>2, <1>4, <2>1, <2>2, <2>6 DEF a
      <3> QED BY <2>3, <3>1 DEF u, w, c, k
    <2> QED BY <2>4, <2>5, <2>6
  <1> QED BY <1>7, <1>8

\* What congestion_control() and sent_window_sync() leave after a new ack.
LEMMA AcknowledgedLemma ==
    ASSUME NEW h \in Sources, Counted(h),
           NEW j \in 1..h.packets_in_window, NEW b \in {0, 1}, NEW n \in Int
    PROVE  LET f == Feedback(h, b, n)
               a == Acknowledged(h, j, b, n)
           IN  /\ a \in Sources /\ Counted(a)
               /\ SoundNow(h) \/ h.ACKcount_flag = 0 => SoundNow(a)
               /\ a.packets_in_window = h.packets_in_window - j
               /\ a.ACKcount_flag = f.ACKcount_flag /\ a.ACKcounter = f.ACKcounter
  <1> DEFINE f == Feedback(h, b, n)
             g == Grow(f, j)
             w == g.window_size
             p == h.packets_in_window - j
             a == Acknowledged(h, j, b, n)
  <1>1. /\ f \in Sources /\ Counted(f) /\ f.packets_in_window = h.packets_in_window
        /\ SoundNow(h) \/ h.ACKcount_flag = 0 => SoundNow(f)
    BY FeedbackLemma
  <1>2. j \in Nat /\ p \in Nat
    BY DEF Sources
  <1>3. a = [g EXCEPT !.dup_ack_count = 0, !.packets_in_window = g.packets_in_window - j]
    BY DEF Acknowledged
  <1> HIDE DEF f, a, p
  <1>4. w \in Floats /\ g = [f EXCEPT !.window_size = w]
    BY <1>1, <1>2, GrowLemma
  <1> HIDE DEF g, w
  <1>5. /\ g \in Sources /\ g.packets_in_window = f.packets_in_window
        /\ g.ACKcount_flag = f.ACKcount_flag /\ g.ACKcounter = f.ACKcounter
        /\ g.ACKcount = f.ACKcount /\ g.ECNcount = f.ECNcount
    BY <1>1, <1>4 DEF Sources
  <1>6. a = [g EXCEPT !.dup_ack_count = 0, !.packets_in_window = p]
    BY <1>1, <1>3, <1>5 DEF p
  <1>7. /\ a \in Sources /\ a.packets_in_window = p
        /\ a.ACKcount_flag = f.ACKcount_flag /\ a.ACKcounter = f.ACKcounter
        /\ a.ACKcount = f.ACKcount /\ a.ECNcount = f.ECNcount
    BY <1>2, <1>5, <1>6 DEF Sources
  <1>8. Counted(a) /\ (SoundNow(f) => SoundNow(a))
    BY <1>1, <1>7 DEF Counted, SoundNow
  <1> QED BY <1>1, <1>7, <1>8 DEF f, a, p

\* A new ack opens the window, and keeps it so.
LEMMA AcknowledgedOpen ==
    ASSUME NEW h \in Sources, Counted(h), Open(h), SoundNow(h),
           NEW j \in 1..h.packets_in_window, NEW b \in {0, 1}, NEW n \in Int
    PROVE  LET a == Acknowledged(h, j, b, n)
           IN  /\ Open(a) /\ (a.window_size = Infinity \/ a.window_size >= Unit)
               /\ h.Window_threshold > 0 /\ h.window_size # Infinity /\ j =< MaxInt =>
                     a.window_size # Infinity /\ a.window_size =< h.window_size + j * Unit
  <1> DEFINE f == Feedback(h, b, n)
             g == Grow(f, j)
             u == g.window_size
             a == Acknowledged(h, j, b, n)
  <1>1. f \in Sources /\ f.Window_threshold = h.Window_threshold
    BY FeedbackLemma
  <1>2. /\ f.alpha1 \in 0..Unit /\ f.window_size \in Opened
        /\ h.window_size # Infinity => f.window_size # Infinity /\ f.window_size =< h.window_size
    BY FeedbackOpen
  <1>3. j \in Nat \ {0} /\ j * Unit \in Nat /\ h.Window_threshold =< MaxInt
    BY FloatAssumption DEF Open, Sources
  <1>4. a = [g EXCEPT !.dup_ack_count = 0, !.packets_in_window = g.packets_in_window - j]
    BY DEF Acknowledged
  <1> HIDE DEF f, a
  <1>5. u \in Floats /\ g = [f EXCEPT !.window_size = u]
    BY <1>1, <1>3, GrowLemma
  <1>6. /\ u \in Opened /\ (u = Infinity \/ u >= Unit)
        /\ f.Window_threshold > 0 /\ f.window_size # Infinity /\ j =< MaxInt =>
              u # Infinity /\ u =< f.window_size + j * Unit
    BY <1>1, <1>2, <1>3, GrowOpen
  <1> HIDE DEF g, u
  <1>7. g.Window_threshold = f.Window_threshold /\ g.alpha1 = f.alpha1 /\ g.window_size = u
    BY <1>1, <1>5 DEF Sources
  <1>8. g \in Sources
    BY <1>1, <1>5 DEF Sources
  <1>9. a.Window_threshold = h.Window_threshold /\ a.alpha1 = f.alpha1 /\ a.window_size = u
    BY <1>1, <1>4, <1>7, <1>8 DEF Sources
  <1>10. Open(a)
    BY <1>2, <1>3, <1>6, <1>9 DEF Open
  <1>11. ASSUME h.Window_threshold > 0, h.window_size # Infinity, j =< MaxInt
         PROVE  u # Infinity /\ u =< h.window_size + j * Unit
    <2>1. /\ u # Infinity /\ u =< f.window_size + j * Unit /\ f.window_size =< h.window_size
          /\ f.window_size # Infinity
      BY <1>1, <1>2, <1>6, <1>11
    <2>2. u \in Nat /\ f.window_size \in Nat /\ h.window_size \in Nat
      BY <1>2, <1>6, <1>11, <2>1, FloatAssumption DEF Opened, Open
    <2> DEFINE k == j * Unit
    <2> HIDE DEF k
    <2>3. k \in Nat /\ u =< f.window_size + k
      BY <1>3, <2>1 DEF k
    <2>4. u =< h.window_size + k
      BY <2>1, <2>2, <2>3
    <2> QED BY <2>1, <2>4 DEF k
  <1> QED BY <1>6, <1>9, <1>10, <1>11 DEF a

\* Every second repetition halves the window and touches no counter.
LEMMA HalveLemma ==
    ASSUME NEW h \in Sources, NEW n \in Whole(Part(h.window_size, 2))
    PROVE  LET g == Halve(h, n)
           IN  /\ g \in Sources
               /\ Counted(h) => Counted(g)
               /\ SoundNow(h) => SoundNow(g)
               /\ Open(h) =>
                    /\ Open(g) /\ (g.window_size = Infinity <=> h.window_size = Infinity)
                    /\ h.window_size # Infinity =>
                          /\ g.window_size =< h.window_size
                          /\ h.dup_ack_count = 0 => g.window_size = h.window_size
                          /\ h.dup_ack_count = 1 => 2 * g.window_size + 1 >= h.window_size
               /\ g.packets_in_window = h.packets_in_window
               /\ g.ACKcount_flag = h.ACKcount_flag /\ g.ACKcounter = h.ACKcounter
               /\ g.ACKcount = h.ACKcount /\ g.ECNcount = h.ECNcount
  <1> DEFINE g == Halve(h, n)
             v == Part(h.window_size, 2)
  <1>1. h.window_size \in Floats /\ h.dup_ack_count \in {0, 1}
    BY DEF Sources
  <1>2. /\ v \in Floats
        /\ h.window_size \in Opened =>
             /\ v \in Opened /\ (v = Infinity <=> h.window_size = Infinity)
             /\ h.window_size # Infinity => v =< h.window_size /\ 2 * v + 1 >= h.window_size
    BY <1>1, HalfLemma
  <1>3. /\ n \in Int /\ n =< MaxInt
        /\ v \in Opened /\ v # Infinity /\ n > 0 => v >= Unit
    BY <1>2, WholeLemma
  <1>4. CASE h.dup_ack_count = 0
    <2>1. g = [h EXCEPT !.dup_ack_count = 1]
      BY <1>4 DEF Halve
    <2> HIDE DEF g, v
    <2>2. /\ g.packets_in_window = h.packets_in_window /\ g.window_size = h.window_size
          /\ g.ACKcount_flag = h.ACKcount_flag /\ g.ACKcounter = h.ACKcounter
          /\ g.ACKcount = h.ACKcount /\ g.ECNcount = h.ECNcount
          /\ g.alpha1 = h.alpha1 /\ g.Window_threshold = h.Window_threshold
      BY <2>1 DEF Sources
    <2>3. g \in Sources
      BY <2>1 DEF Sources
    <2>4. (Counted(h) => Counted(g)) /\ (SoundNow(h) => SoundNow(g)) /\ (Open(h) => Open(g))
      BY <2>2 DEF Counted, SoundNow, Open
    <2>5. Open(h) /\ h.window_size # Infinity => h.window_size \in Int
      BY FloatAssumption DEF Open, Opened
    <2> QED BY <1>4, <2>2, <2>3, <2>4, <2>5 DEF g
  <1>5. CASE h.dup_ack_count = 1
    <2>1. g = [h EXCEPT !.dup_ack_count = 0, !.window_size = v, !.Window_threshold = n]
      BY <1>5 DEF Halve
    <2> HIDE DEF g, v
    <2>2. /\ g.packets_in_window = h.packets_in_window /\ g.window_size = v
          /\ g.ACKcount_flag = h.ACKcount_flag /\ g.ACKcounter = h.ACKcounter
          /\ g.ACKcount = h.ACKcount /\ g.ECNcount = h.ECNcount
          /\ g.alpha1 = h.alpha1 /\ g.Window_threshold = n
      BY <2>1 DEF Sources
    <2>3. g \in Sources
      BY <1>2, <1>3, <2>1, Zenon DEF Sources
    <2>4. (Counted(h) => Counted(g)) /\ (SoundNow(h) => SoundNow(g))
      BY <2>2 DEF Counted, SoundNow
    <2>5. Open(h) => Open(g)
      BY <1>2, <1>3, <2>2 DEF Open
    <2>6. Open(h) => h.window_size \in Opened
      BY DEF Open
    <2> QED BY <1>2, <1>5, <2>2, <2>3, <2>4, <2>5, <2>6 DEF g
  <1> QED BY <1>1, <1>4, <1>5

\* send_file() only fills the window; it reads a chunk, if one is left, when
\* nothing is outstanding and the window is a packet.
LEMMA SendFileLemma ==
    ASSUME left \in Nat, NEW h \in Sources, NEW n, SendFile(h, n)
    PROVE  \E room \in 0..left :
              /\ host' = [h EXCEPT !.packets_in_window = h.packets_in_window + room]
              /\ left' = left - room
              /\ h.packets_in_window = 0 /\ left > 0
                 /\ (h.window_size = Infinity \/ (h.window_size \in Opened /\ h.window_size >= Unit))
                    => room > 0
  <1> DEFINE free == Free(h)
             room == Room(h)
             w == h.window_size
  <1>1. h.packets_in_window \in Nat /\ Unit \in Nat \ {0} /\ w \in Floats
    BY FloatAssumption DEF Sources
  <1>2. Infinity # MinusInfinity /\ Infinity \in Specials
    BY FloatAssumption DEF Specials
  <1>3. free \in Int
    <2>1. CASE w \in Specials
      BY <2>1 DEF Free
    <2>2. CASE w \notin Specials
      <3> DEFINE a == w + Unit - 1
      <3>1. a \in Int
        BY <1>1, <2>2 DEF Floats
      <3>2. free = a \div Unit - h.packets_in_window
        BY <2>2 DEF Free
      <3> HIDE DEF a, free
      <3>3. a \div Unit \in Int
        BY <1>1, <3>1
      <3> QED BY <1>1, <3>2, <3>3
    <2> QED BY <2>1, <2>2
  <1>4. ASSUME h.packets_in_window = 0, left > 0, w = Infinity \/ (w \in Opened /\ w >= Unit)
        PROVE  free > 0
    <2>1. CASE w = Infinity
      BY <1>2, <1>4, <2>1 DEF Free
    <2>2. CASE w # Infinity
      <3>1. w \in Nat /\ w >= Unit /\ w \notin Specials
        BY <1>4, <2>2, NumberOpened, FloatAssumption DEF Opened
      <3> DEFINE a == w + Unit - 1
      <3>2. a \in Nat /\ Unit =< a
        BY <1>1, <3>1
      <3>3. free = a \div Unit
        <4>1. free = a \div Unit - 0
          BY <1>4, <3>1 DEF Free
        <4> HIDE DEF a, free
        <4>2. a \div Unit \in Nat
          BY <1>1, <3>2, Division
        <4> QED BY <4>1, <4>2
      <3> HIDE DEF a, free
      <3>4. a \div Unit > 0
        BY <1>1, <3>2
      <3> QED BY <3>3, <3>4
    <2> QED BY <2>1, <2>2
  <1>5. room = IF free =< 0 THEN 0 ELSE IF free < left THEN free ELSE left
    BY DEF Room
  <1> HIDE DEF free, room
  <1>6. room \in 0..left /\ (free > 0 /\ left > 0 => room > 0)
    BY <1>3, <1>5
  <1>7. host' = [h EXCEPT !.packets_in_window = h.packets_in_window + room] /\ left' = left - room
    BY DEF SendFile, room
  <1> QED BY <1>4, <1>6, <1>7

---------------------------------------------------------------------------
(* The inductive invariant.                                                *)

\* No flow of the host has had an ack: the counters are what memory held.
Untouched == /\ flows =< 1 /\ host.ACKcount_flag = 0
             /\ host.ACKcount = memory[1] /\ host.ECNcount = memory[2]
             /\ flows = 1 => left + host.packets_in_window = Chunks

IInv == /\ host \in Sources /\ Counted(host)
        /\ SoundNow(host) \/ Untouched
        /\ memory \in Int \X Int
        /\ flows \in Nat /\ left \in Nat /\ left + host.packets_in_window =< Chunks
        /\ sinceCut \in Nat /\ cutAt \in Int
        /\ Round(host, sinceCut, cutAt)

LEMMA InitInv == Init => IInv
  <1> SUFFICES ASSUME Init PROVE IInv
    OBVIOUS
  <1>1. PICK dup \in {0, 1} : host = FreshHost(memory, dup)
    BY DEF Init
  <1>2. memory \in Int \X Int
    BY LeftoversAssumption DEF Init
  <1> DEFINE m1 == memory[1]
             m2 == memory[2]
  <1>3. m1 \in Int /\ m2 \in Int
    BY <1>2
  <1>4. Unit \in Int /\ Unit \in Floats /\ Initial_Window_Threshold \in Int /\ 0 \in Int /\ 0 \in Nat
        /\ Chunks \in Nat
    BY FloatAssumption, WindowAssumption, BoundsAssumption DEF Floats
  <1> HIDE DEF m1, m2
  <1>5. host = [ window_size |-> Unit, Window_threshold |-> Initial_Window_Threshold,
                 packets_in_window |-> 0, dup_ack_count |-> dup, alpha1 |-> 0,
                 ACKcount_flag |-> 0, ACKcount |-> m1, ACKcounter |-> 0, ECNcount |-> m2 ]
    BY <1>1 DEF FreshHost, m1, m2
  <1>6. host \in Sources
    BY <1>3, <1>4, <1>5, Zenon DEF Sources
  <1>7. host.ACKcount_flag = 0 /\ host.ACKcount = m1 /\ host.ECNcount = m2
        /\ host.packets_in_window = 0
    BY <1>5
  <1>8. Counted(host) /\ Untouched
    BY <1>7 DEF Counted, Untouched, Init, m1, m2
  <1>9. left + host.packets_in_window =< Chunks
    BY <1>4, <1>7 DEF Init
  <1> QED BY <1>2, <1>6, <1>7, <1>8, <1>9 DEF IInv, Init, Round

\* What has to be shown of a step that keeps the flow and the counters.
LEMMA SameCounters ==
    ASSUME IInv, host' \in Sources, left' \in Nat,
           left' + host'.packets_in_window = left + host.packets_in_window,
           host'.ACKcount_flag = host.ACKcount_flag, host'.ACKcounter = host.ACKcounter,
           host'.ACKcount = host.ACKcount, host'.ECNcount = host.ECNcount,
           UNCHANGED <<flows, memory, sinceCut, cutAt>>
    PROVE  IInv'
  <1>1. Counted(host') /\ (SoundNow(host) => SoundNow(host')) /\ (Untouched => Untouched')
    BY DEF IInv, Counted, SoundNow, Untouched
  <1>2. Round(host', sinceCut', cutAt')
    BY DEF IInv, Round
  <1> QED BY <1>1, <1>2 DEF IInv

LEMMA StepInv == IInv /\ [Next]_vars => IInv'
  <1> SUFFICES ASSUME IInv, [Next]_vars PROVE IInv'
    OBVIOUS
  <1>0. /\ host \in Sources /\ Counted(host) /\ left \in Nat /\ flows \in Nat
        /\ SoundNow(host) \/ Untouched
        /\ memory \in Int \X Int /\ left + host.packets_in_window =< Chunks
        /\ sinceCut \in Nat /\ cutAt \in Int /\ Round(host, sinceCut, cutAt)
        /\ host.packets_in_window \in Nat /\ host.ACKcounter \in Int /\ host.window_size \in Floats
        /\ host.ACKcount_flag \in {0, 1}
    BY DEF IInv, Sources
  <1>U. Unit \in Int /\ Unit \in Floats /\ Chunks \in Nat \ {0}
    BY FloatAssumption, BoundsAssumption DEF Floats
  <1>1. CASE Established
    <2>1. /\ left = 0 /\ host.packets_in_window = 0
          /\ host' = [Reset(host) EXCEPT !.packets_in_window = 1]
          /\ left' = Chunks - 1 /\ flows' = flows + 1 /\ memory' = memory
          /\ sinceCut' = 0 /\ cutAt' = -1
      BY <1>1 DEF Established
    <2> DEFINE t == Initial_Window_Threshold
    <2>2. t \in Int /\ 0 \in Int /\ 0 \in Nat /\ 1 \in Nat
      BY FloatAssumption, WindowAssumption
    <2> HIDE DEF t
    <2>3. Reset(host) = [host EXCEPT !.window_size = Unit, !.Window_threshold = t,
                              !.packets_in_window = 0, !.ACKcount_flag = 0, !.alpha1 = 0]
      BY DEF Reset, t
    <2>4. Reset(host) \in Sources
      BY <1>0, <1>U, <2>2, <2>3, Zenon DEF Sources
    <2>5. host' \in Sources
      BY <2>1, <2>2, <2>4, Zenon DEF Sources
    <2>6. /\ host'.ACKcount_flag = 0 /\ host'.packets_in_window = 1
          /\ host'.ACKcount = host.ACKcount /\ host'.ECNcount = host.ECNcount
      BY <1>0, <2>1, <2>3 DEF Sources
    <2>7. SoundNow(host)' \/ Untouched'
      <3>1. CASE SoundNow(host)
        BY <2>6, <3>1 DEF SoundNow
      <3>2. CASE Untouched
        BY <1>0, <1>U, <2>1, <2>6, <3>2 DEF Untouched
      <3> QED BY <1>0, <3>1, <3>2
    <2>8. Counted(host') /\ left' \in Nat /\ left' + host'.packets_in_window =< Chunks
      BY <1>U, <2>1, <2>6 DEF Counted
    <2> QED BY <1>0, <2>1, <2>5, <2>6, <2>7, <2>8 DEF IInv, Round
  <1>2. CASE NewAck
    <2>1. PICK j \in 1..host.packets_in_window, b \in {0, 1}, n \in Floor(host.window_size) :
              /\ \E m : SendFile(Acknowledged(host, j, b, n), m)
              /\ IF host.ACKcount_flag = 0 THEN sinceCut' = 0 /\ cutAt' = n
                 ELSE sinceCut' = sinceCut + 1 /\ cutAt' = cutAt
      BY <1>2 DEF NewAck
    <2> DEFINE h == Acknowledged(host, j, b, n)
               f == Feedback(host, b, n)
    <2>2. n \in Int /\ j \in Nat
      BY <1>0, FloorInt
    <2>3. /\ h \in Sources /\ Counted(h)
          /\ SoundNow(host) \/ host.ACKcount_flag = 0 => SoundNow(h)
          /\ h.packets_in_window = host.packets_in_window - j
          /\ h.ACKcount_flag = f.ACKcount_flag /\ h.ACKcounter = f.ACKcounter
      BY <1>0, <2>2, AcknowledgedLemma
    <2>4. IF host.ACKcount_flag = 0 THEN f.ACKcount_flag = 1 /\ f.ACKcounter = n
          ELSE IF host.ACKcounter > 0 THEN f.ACKcount_flag = 1 /\ f.ACKcounter = host.ACKcounter - 1
          ELSE f.ACKcount_flag = 0
      BY <1>0, <2>2, FeedbackLemma
    <2>5. PICK m : SendFile(h, m)
      BY <2>1
    <2> HIDE DEF h, f
    <2>6. PICK room \in 0..left : /\ host' = [h EXCEPT !.packets_in_window = h.packets_in_window + room]
                                 /\ left' = left - room
      BY <1>0, <2>3, <2>5, SendFileLemma
    <2> DEFINE p == h.packets_in_window + room
    <2>7. p \in Nat /\ left' \in Nat /\ p + left' =< Chunks
      BY <1>0, <1>U, <2>2, <2>3, <2>6
    <2> HIDE DEF p
    <2>8. host' = [h EXCEPT !.packets_in_window = p]
      BY <2>6 DEF p
    <2>9. /\ host'.packets_in_window = p
          /\ host'.ACKcount_flag = h.ACKcount_flag /\ host'.ACKcounter = h.ACKcounter
          /\ host'.ACKcount = h.ACKcount /\ host'.ECNcount = h.ECNcount
      BY <2>3, <2>8 DEF Sources
    <2>10. host' \in Sources
      BY <2>3, <2>7, <2>8 DEF Sources
    <2>11. Counted(host') /\ (SoundNow(h) => SoundNow(host)')
      BY <2>3, <2>9 DEF Counted, SoundNow
    <2>12. SoundNow(h)
      BY <1>0, <2>3 DEF Untouched
    <2>13. flows' = flows /\ memory' = memory
      BY <1>2 DEF NewAck
    <2>14. sinceCut' \in Nat /\ cutAt' \in Int
      BY <1>0, <2>1, <2>2
    <2>15. Round(host', sinceCut', cutAt')
      BY <1>0, <2>1, <2>2, <2>3, <2>4, <2>9 DEF Round
    <2>16. left' + host'.packets_in_window =< Chunks
      BY <1>0, <2>7, <2>9
    <2> QED BY <1>0, <2>7, <2>10, <2>11, <2>12, <2>13, <2>14, <2>15, <2>16 DEF IInv
  <1>3. CASE DuplicateAck
    <2>1. PICK n \in Whole(Part(host.window_size, 2)) : \E m : SendFile(Halve(host, n), m)
      BY <1>3 DEF DuplicateAck
    <2> DEFINE h == Halve(host, n)
    <2>2. /\ h \in Sources /\ h.packets_in_window = host.packets_in_window
          /\ h.ACKcount_flag = host.ACKcount_flag /\ h.ACKcounter = host.ACKcounter
          /\ h.ACKcount = host.ACKcount /\ h.ECNcount = host.ECNcount
      BY <1>0, HalveLemma
    <2>3. PICK m : SendFile(h, m)
      BY <2>1
    <2> HIDE DEF h
    <2>4. PICK room \in 0..left : /\ host' = [h EXCEPT !.packets_in_window = h.packets_in_window + room]
                                 /\ left' = left - room
      BY <1>0, <2>2, <2>3, SendFileLemma
    <2> DEFINE p == h.packets_in_window + room
    <2>5. p \in Nat /\ left' \in Nat /\ left' + p = left + host.packets_in_window
      BY <1>0, <2>2, <2>4
    <2> HIDE DEF p
    <2>6. host' = [h EXCEPT !.packets_in_window = p]
      BY <2>4 DEF p
    <2>7. /\ host'.packets_in_window = p
          /\ host'.ACKcount_flag = h.ACKcount_flag /\ host'.ACKcounter = h.ACKcounter
          /\ host'.ACKcount = h.ACKcount /\ host'.ECNcount = h.ECNcount
      BY <2>2, <2>6 DEF Sources
    <2>8. host' \in Sources
      BY <2>2, <2>5, <2>6 DEF Sources
    <2>9. UNCHANGED <<flows, memory, sinceCut, cutAt>>
      BY <1>3 DEF DuplicateAck
    <2> QED BY <2>2, <2>5, <2>7, <2>8, <2>9, SameCounters
  <1>4. CASE Timeout
    <2>1. PICK n \in Whole(Part(host.window_size, 2)) :
              host' = [host EXCEPT !.Window_threshold = n, !.window_size = Unit]
      BY <1>4 DEF Timeout
    <2>2. n \in Int
      BY <1>0, HalfLemma, WholeLemma
    <2>3. host' \in Sources
      BY <1>0, <1>U, <2>1, <2>2, Zenon DEF Sources
    <2>4. /\ host'.packets_in_window = host.packets_in_window
          /\ host'.ACKcount_flag = host.ACKcount_flag /\ host'.ACKcounter = host.ACKcounter
          /\ host'.ACKcount = host.ACKcount /\ host'.ECNcount = host.ECNcount
      BY <1>0, <2>1 DEF Sources
    <2>5. left' = left /\ UNCHANGED <<flows, memory, sinceCut, cutAt>>
      BY <1>4 DEF Timeout
    <2> QED BY <1>0, <2>3, <2>4, <2>5, SameCounters
  <1>5. CASE Nothing \/ UNCHANGED vars
    <2>1. UNCHANGED <<host, left, flows, memory, sinceCut, cutAt>>
      BY <1>5 DEF Nothing, vars
    <2> QED BY <1>0, <2>1, SameCounters
  <1> QED BY <1>1, <1>2, <1>3, <1>4, <1>5 DEF Next

---------------------------------------------------------------------------
(* The window of a flow that has begun with sound counters.                *)

\* Half of the window, and twice the halvings: the product does not fall.
Wide(w, n) == w = Infinity \/ (w + 1) * n > Unit

WindowInv == Trusted => /\ Open(host)
                        /\ shrunk \in Nat \ {0} /\ Wide(host.window_size, shrunk)
                        /\ left > 0 => host.packets_in_window > 0

LEMMA WideHalf ==
    ASSUME NEW w \in Nat, NEW v \in Nat, NEW n \in Nat, 2 * v + 1 >= w, (w + 1) * n > Unit
    PROVE  (v + 1) * (2 * n) > Unit
  <1>1. Unit \in Nat
    BY FloatAssumption
  <1>2. n * (w + 1) =< n * (2 * v + 2) /\ n * (w + 1) \in Nat
    BY Times
  <1>3. (v + 1) * (2 * n) = n * (2 * v + 2) /\ (w + 1) * n = n * (w + 1)
    OBVIOUS
  <1>4. n * (2 * v + 2) \in Nat
    OBVIOUS
  <1> QED BY <1>1, <1>2, <1>3, <1>4

LEMMA SoundTrusted == IInv /\ Trusted => SoundNow(host)
  <1> SUFFICES ASSUME IInv, Trusted, Untouched PROVE SoundNow(host)
    BY DEF IInv
  <1>1. memory \in Int \X Int /\ flows \in Nat
    BY DEF IInv
  <1>2. Sound(memory) /\ memory = <<memory[1], memory[2]>>
    BY <1>1 DEF Trusted, Untouched
  <1> QED BY <1>2 DEF SoundNow, Untouched

\* The invariant holds before the first flow.
LEMMA WindowInit == Init => WindowInv
  <1> SUFFICES ASSUME Init PROVE WindowInv
    OBVIOUS
  <1>1. PICK dup \in {0, 1} : host = FreshHost(memory, dup)
    BY DEF Init
  <1>2. /\ host.window_size = Unit /\ host.alpha1 = 0
        /\ host.Window_threshold = Initial_Window_Threshold
    BY <1>1 DEF FreshHost
  <1>3. Unit \in 0..MaxFloat /\ 0 \in 0..Unit /\ Initial_Window_Threshold =< MaxInt /\ Unit >= Unit
    BY UnitFits, WindowAssumption, FloatAssumption
  <1>4. Open(host)
    BY <1>2, <1>3 DEF Open, Opened
  <1>5. shrunk \in Nat \ {0} /\ Wide(host.window_size, shrunk) /\ left = 0
    BY <1>2, UnitFits DEF Init, Wide
  <1> QED BY <1>4, <1>5 DEF WindowInv

LEMMA WindowStep == IInv /\ WindowInv /\ [Next]_vars => WindowInv'
  <1> SUFFICES ASSUME IInv, WindowInv, [Next]_vars, Trusted'
               PROVE  /\ Open(host') /\ shrunk' \in Nat \ {0} /\ Wide(host'.window_size, shrunk')
                      /\ left' > 0 => host'.packets_in_window > 0
    BY DEF WindowInv, Wide
  <1>0. /\ host \in Sources /\ Counted(host) /\ left \in Nat
        /\ host.packets_in_window \in Nat /\ host.dup_ack_count \in {0, 1} /\ host.window_size \in Floats
    BY DEF IInv, Sources
  <1>U. Unit \in Nat \ {0} /\ Unit \in 0..MaxFloat /\ Unit \in Opened /\ 0 \in 0..Unit
        /\ Initial_Window_Threshold =< MaxInt
    BY UnitFits, WindowAssumption, FloatAssumption DEF Opened
  <1>W. ASSUME NEW w, w = Infinity \/ w >= Unit, w \in Opened
        PROVE  Wide(w, 1)
    <2>1. CASE w = Infinity
      BY <2>1 DEF Wide
    <2>2. CASE w # Infinity
      <3>1. w \in Nat /\ w >= Unit
        BY <1>W, <2>2, FloatAssumption DEF Opened
      <3> QED BY <1>U, <3>1 DEF Wide
    <2> QED BY <2>1, <2>2
  <1>1. CASE Established
    <2>1. host' = [Reset(host) EXCEPT !.packets_in_window = 1] /\ shrunk' = 1
      BY <1>1 DEF Established
    <2>2. /\ host'.window_size = Unit /\ host'.alpha1 = 0 /\ host'.packets_in_window = 1
          /\ host'.Window_threshold = Initial_Window_Threshold
      BY <1>0, <2>1 DEF Reset, Sources
    <2>3. Open(host')
      BY <1>U, <2>2 DEF Open
    <2>4. Wide(Unit, 1)
      BY <1>U, <1>W
    <2> QED BY <2>1, <2>2, <2>3, <2>4
  <1>2. ASSUME ~Established
        PROVE  Trusted
    BY <1>2 DEF Next, vars, NewAck, DuplicateAck, Timeout, Nothing, Trusted
  <1>3. ASSUME Trusted
        PROVE  /\ SoundNow(host) /\ Open(host)
               /\ shrunk \in Nat \ {0} /\ Wide(host.window_size, shrunk)
               /\ left > 0 => host.packets_in_window > 0
    BY <1>3, SoundTrusted DEF WindowInv
  <1>4. CASE NewAck
    <2>0. Trusted
      BY <1>4 DEF NewAck, Trusted
    <2>1. PICK j \in 1..host.packets_in_window, b \in {0, 1}, n \in Floor(host.window_size) :
              \E m : SendFile(Acknowledged(host, j, b, n), m)
      BY <1>4 DEF NewAck
    <2> DEFINE h == Acknowledged(host, j, b, n)
    <2>2. n \in Int
      BY <1>0, FloorInt
    <2>3. h \in Sources
      BY <1>0, <2>2, AcknowledgedLemma
    <2>4. Open(h) /\ (h.window_size = Infinity \/ h.window_size >= Unit)
      BY <1>0, <1>3, <2>0, <2>2, AcknowledgedOpen
    <2>5. PICK m : SendFile(h, m)
      BY <2>1
    <2> HIDE DEF h
    <2>6. PICK room \in 0..left :
              /\ host' = [h EXCEPT !.packets_in_window = h.packets_in_window + room]
              /\ left' = left - room
              /\ h.packets_in_window = 0 /\ left > 0
                 /\ (h.window_size = Infinity \/ (h.window_size \in Opened /\ h.window_size >= Unit))
                    => room > 0
      BY <1>0, <2>3, <2>5, SendFileLemma
    <2>7. /\ host'.packets_in_window = h.packets_in_window + room
          /\ host'.window_size = h.window_size /\ host'.alpha1 = h.alpha1
          /\ host'.Window_threshold = h.Window_threshold
      BY <2>3, <2>6 DEF Sources
    <2>8. Open(host')
      BY <2>4, <2>7 DEF Open
    <2>9. h.packets_in_window \in Nat /\ h.window_size \in Opened
      BY <2>3, <2>4 DEF Sources, Open
    <2>10. left' > 0 => host'.packets_in_window > 0
      BY <1>0, <2>4, <2>6, <2>7, <2>9
    <2>11. shrunk' = 1 /\ Wide(host'.window_size, 1)
      BY <1>4, <1>W, <2>4, <2>7, <2>9 DEF NewAck
    <2> QED BY <2>8, <2>10, <2>11
  <1>5. CASE DuplicateAck
    <2>0. Trusted
      BY <1>5 DEF DuplicateAck, Trusted
    <2>1. PICK n \in Whole(Part(host.window_size, 2)) : \E m : SendFile(Halve(host, n), m)
      BY <1>5 DEF DuplicateAck
    <2> DEFINE h == Halve(host, n)
               w == host.window_size
               v == h.window_size
    <2>2. h \in Sources /\ h.packets_in_window = host.packets_in_window
      BY <1>0, HalveLemma
    <2>3. /\ Open(h) /\ (v = Infinity <=> w = Infinity)
          /\ w # Infinity => /\ host.dup_ack_count = 0 => v = w
                             /\ host.dup_ack_count = 1 => 2 * v + 1 >= w
      BY <1>0, <1>3, <2>0, HalveLemma
    <2>4. PICK m : SendFile(h, m)
      BY <2>1
    <2> HIDE DEF h
    <2>5. PICK room \in 0..left :
              /\ host' = [h EXCEPT !.packets_in_window = h.packets_in_window + room]
              /\ left' = left - room
      BY <1>0, <2>2, <2>4, SendFileLemma
    <2>6. /\ host'.packets_in_window = host.packets_in_window + room
          /\ host'.window_size = v /\ host'.alpha1 = h.alpha1
          /\ host'.Window_threshold = h.Window_threshold
      BY <2>2, <2>5 DEF Sources
    <2>7. Open(host')
      BY <2>3, <2>6 DEF Open
    <2>8. left' > 0 => host'.packets_in_window > 0
      BY <1>0, <1>3, <2>0, <2>5, <2>6
    <2>9. shrunk' = IF host.dup_ack_count = 1 THEN 2 * shrunk ELSE shrunk
      BY <1>5 DEF DuplicateAck
    <2>10. shrunk \in Nat \ {0} /\ Wide(w, shrunk) /\ w \in Opened
      BY <1>3, <2>0 DEF Open
    <2>11. shrunk' \in Nat \ {0}
      BY <2>9, <2>10
    <2> HIDE DEF v, w
    <2>12. Wide(v, shrunk')
      <3>1. CASE w = Infinity
        BY <2>3, <3>1 DEF Wide
      <3>2. CASE w # Infinity
        <4>1. w \in Nat /\ v \in Nat
          BY <2>3, <2>10, <3>2, FloatAssumption DEF Opened, Open, v
        <4>2. CASE host.dup_ack_count = 0
          BY <2>3, <2>9, <2>10, <3>2, <4>2
        <4>3. CASE host.dup_ack_count = 1
          <5>1. 2 * v + 1 >= w /\ (w + 1) * shrunk > Unit
            BY <2>3, <2>10, <3>2, <4>3 DEF Wide
          <5>2. (v + 1) * (2 * shrunk) > Unit
            BY <2>10, <4>1, <5>1, WideHalf
          <5> QED BY <2>9, <4>3, <5>2 DEF Wide
        <4> QED BY <1>0, <4>2, <4>3
      <3> QED BY <3>1, <3>2
    <2> QED BY <2>6, <2>7, <2>8, <2>11, <2>12
  <1>6. CASE Timeout
    <2>0. Trusted
      BY <1>6 DEF Timeout, Trusted
    <2>1. PICK n \in Whole(Part(host.window_size, 2)) :
              host' = [host EXCEPT !.Window_threshold = n, !.window_size = Unit]
      BY <1>6 DEF Timeout
    <2>2. n =< MaxInt
      BY <1>0, HalfLemma, WholeLemma
    <2>3. /\ host'.packets_in_window = host.packets_in_window /\ host'.alpha1 = host.alpha1
          /\ host'.window_size = Unit /\ host'.Window_threshold = n
      BY <1>0, <2>1 DEF Sources
    <2>4. Open(host')
      BY <1>3, <1>U, <2>0, <2>2, <2>3 DEF Open
    <2>5. shrunk' = 1 /\ left' = left /\ Wide(Unit, 1)
      BY <1>6, <1>U, <1>W DEF Timeout
    <2> QED BY <1>3, <2>0, <2>3, <2>4, <2>5
  <1>7. CASE Nothing \/ UNCHANGED vars
    <2>1. UNCHANGED <<host, left, flows, memory, shrunk>>
      BY <1>7 DEF Nothing, vars
    <2>2. Trusted
      BY <2>1 DEF Trusted
    <2> QED BY <1>3, <2>1, <2>2
  <1> QED BY <1>1, <1>4, <1>5, <1>6, <1>7 DEF Next

---------------------------------------------------------------------------
(* The properties.                                                         *)

\* Whatever memory holds: from the second flow of a host on, and in the first
\* if the counters it finds are sound, alpha1 stays a share; and no round ever
\* counts more marks than acks.
THEOREM EstimateIsAShare == Spec => []FeedbackIsAShare
  <1>1. IInv /\ WindowInv => FeedbackIsAShare
    BY DEF IInv, WindowInv, Open, Counted, FeedbackIsAShare
  <1> QED BY <1>1, InitInv, StepInv, WindowInit, WindowStep, PTL DEF Spec

\* However acks, repetitions, losses and timeouts come in, and however often
\* the float can be halved before it is 0: only halvings bring the window to 0,
\* and a source with chunks left has one outstanding.
THEOREM WindowNeverShut == Spec => []WindowOpens
  <1>1. WindowInv => WindowOpens
    BY DEF WindowInv, Wide, WindowOpens
  <1> QED BY <1>1, InitInv, StepInv, WindowInit, WindowStep, PTL DEF Spec

\* Two cuts of one flow are a window of new acks and one more apart, also where
\* the counters were not sound.
THEOREM CutsAreARoundApart == Spec => OneCutPerRound
  <1>1. IInv /\ [Next]_vars =>
            [host.ACKcount_flag = 0 /\ host'.ACKcount_flag = 1 => sinceCut > cutAt]_vars
    BY DEF IInv, Round
  <1> QED BY <1>1, InitInv, StepInv, PTL DEF Spec, OneCutPerRound

\* No step lets the window grow by more than the packets acknowledged, as long
\* as Window_threshold is above 0: neither the division by the window nor the
\* timeout's return to one packet.
LEMMA StepNeverLeaps ==
    ASSUME IInv, WindowInv, [Next]_vars, Trusted, flows' = flows,
           host.Window_threshold > 0, host.window_size # Infinity
    PROVE  /\ host'.window_size # Infinity
           /\ host'.window_size =< host.window_size
               + Unit * (host.packets_in_window + left - host'.packets_in_window - left')
  <1> DEFINE w == host.window_size
             k == host.packets_in_window + left
  <1>0. /\ host \in Sources /\ Counted(host) /\ SoundNow(host) /\ Open(host)
        /\ left \in Nat /\ w \in Opened /\ w >= Unit
        /\ host.packets_in_window \in Nat /\ k \in Nat /\ k =< Chunks /\ flows \in Nat
        /\ host.dup_ack_count \in {0, 1} /\ w \in Floats
    BY SoundTrusted DEF IInv, WindowInv, Open, Sources
  <1>U. Unit \in Nat \ {0} /\ Unit * 0 = 0 /\ Infinity \notin Int /\ Chunks \in 1..MaxInt
        /\ MaxInt \in Nat
    BY FloatAssumption, BoundsAssumption DEF Specials
  <1>V. w \in Nat
    BY <1>0, FloatAssumption DEF Opened
  \* What the step does to the window and to the packets decides.
  <1>1. ASSUME NEW v \in Int, NEW j \in Nat, NEW p \in Nat, NEW l \in Nat,
               host'.window_size = v, host'.packets_in_window = p, left' = l,
               p + l = k - j, v =< w + j * Unit
        PROVE  /\ host'.window_size # Infinity
               /\ host'.window_size =< w + Unit * (k - host'.packets_in_window - left')
    <2>1. k - p - l = j /\ j * Unit = Unit * j
      BY <1>0, <1>1, <1>U
    <2> HIDE DEF w, k
    <2> QED BY <1>1, <1>U, <2>1
  <1>2. CASE Established
    BY <1>0, <1>2 DEF Established
  <1>3. CASE NewAck
    <2>1. PICK j \in 1..host.packets_in_window, b \in {0, 1}, n \in Floor(host.window_size) :
              \E m : SendFile(Acknowledged(host, j, b, n), m)
      BY <1>3 DEF NewAck
    <2> DEFINE h == Acknowledged(host, j, b, n)
    <2>2. n \in Int /\ j \in Nat /\ j =< MaxInt
      BY <1>0, <1>U, FloorInt
    <2>3. h \in Sources /\ h.packets_in_window = host.packets_in_window - j
      BY <1>0, <2>2, AcknowledgedLemma
    <2>4. Open(h) /\ h.window_size # Infinity /\ h.window_size =< w + j * Unit
      BY <1>0, <2>2, AcknowledgedOpen
    <2>5. PICK m : SendFile(h, m)
      BY <2>1
    <2> HIDE DEF h, w
    <2>6. PICK room \in 0..left : /\ host' = [h EXCEPT !.packets_in_window = h.packets_in_window + room]
                                 /\ left' = left - room
      BY <1>0, <2>3, <2>5, SendFileLemma
    <2>7. /\ host'.packets_in_window = h.packets_in_window + room
          /\ host'.window_size = h.window_size
      BY <2>3, <2>6 DEF Sources
    <2>8. h.window_size \in Int
      BY <2>4 DEF Open, Opened
    <2> DEFINE p == h.packets_in_window + room
               l == left - room
    <2>9. p \in Nat /\ l \in Nat /\ p + l = k - j
      BY <1>0, <2>2, <2>3, <2>6 DEF Sources
    <2> HIDE DEF p, l, k
    <2>10. host'.packets_in_window = p /\ left' = l
      BY <2>6, <2>7 DEF p, l
    <2>11. /\ host'.window_size # Infinity
           /\ host'.window_size =< w + Unit * (k - host'.packets_in_window - left')
      <3> DEFINE v == h.window_size
      <3>1. v \in Int /\ host'.window_size = v /\ v =< w + j * Unit
        BY <2>4, <2>7, <2>8
      <3> HIDE DEF v
      <3> QED BY <1>1, <2>2, <2>9, <2>10, <3>1
    <2>12. k - host'.packets_in_window - left'
               = host.packets_in_window + left - host'.packets_in_window - left'
      BY <1>0, <2>9, <2>10 DEF k
    <2> QED BY <2>11, <2>12 DEF w
  <1>4. CASE DuplicateAck
    <2>1. PICK n \in Whole(Part(host.window_size, 2)) : \E m : SendFile(Halve(host, n), m)
      BY <1>4 DEF DuplicateAck
    <2> DEFINE h == Halve(host, n)
    <2>2. h \in Sources /\ h.packets_in_window = host.packets_in_window
      BY <1>0, HalveLemma
    <2>3. Open(h) /\ h.window_size # Infinity /\ h.window_size =< w
      BY <1>0, HalveLemma
    <2>4. PICK m : SendFile(h, m)
      BY <2>1
    <2> HIDE DEF h
    <2>5. PICK room \in 0..left : /\ host' = [h EXCEPT !.packets_in_window = h.packets_in_window + room]
                                 /\ left' = left - room
      BY <1>0, <2>2, <2>4, SendFileLemma
    <2>6. /\ host'.packets_in_window = host.packets_in_window + room
          /\ host'.window_size = h.window_size
      BY <2>2, <2>5 DEF Sources
    <2>7. h.window_size \in Int
      BY <2>3 DEF Open, Opened
    <2> DEFINE p == host.packets_in_window + room
               l == left - room
    <2>8. p \in Nat /\ l \in Nat /\ p + l = k - 0
      BY <1>0, <2>5
    <2>9. h.window_size =< w + 0 * Unit
      BY <1>U, <1>V, <2>3, <2>7
    <2> HIDE DEF p, l, k, w
    <2>10. host'.packets_in_window = p /\ left' = l
      BY <2>5, <2>6 DEF p, l
    <2>11. /\ host'.window_size # Infinity
           /\ host'.window_size =< w + Unit * (k - host'.packets_in_window - left')
      <3> DEFINE v == h.window_size
      <3>1. v \in Int /\ host'.window_size = v /\ v =< w + 0 * Unit
        BY <2>6, <2>7, <2>9
      <3> HIDE DEF v
      <3> QED BY <1>1, <2>8, <2>10, <3>1
    <2>12. k - host'.packets_in_window - left'
               = host.packets_in_window + left - host'.packets_in_window - left'
      BY <1>0, <2>8, <2>10 DEF k
    <2> QED BY <2>11, <2>12 DEF w
  <1>5. CASE Timeout
    <2>1. PICK n \in Whole(Part(host.window_size, 2)) :
              host' = [host EXCEPT !.Window_threshold = n, !.window_size = Unit]
      BY <1>5 DEF Timeout
    <2>2. host'.window_size = Unit /\ host'.packets_in_window = host.packets_in_window /\ left' = left
      BY <1>0, <1>5, <2>1 DEF Sources, Timeout
    <2>3. host.packets_in_window + left = k - 0 /\ Unit =< w + 0 * Unit
      BY <1>0, <1>U, <1>V
    <2> HIDE DEF k, w
    <2> QED BY <1>0, <1>1, <1>U, <2>2, <2>3 DEF w, k
  <1>6. CASE Nothing \/ UNCHANGED vars
    <2>1. host' = host /\ left' = left
      BY <1>6 DEF Nothing, vars
    <2>2. host.packets_in_window + left = k - 0 /\ w =< w + 0 * Unit
      BY <1>0, <1>U, <1>V
    <2> QED BY <1>0, <1>1, <1>V, <2>1, <2>2
  <1> QED BY <1>2, <1>3, <1>4, <1>5, <1>6 DEF Next

\* Above its threshold the window grows by no more than the chunks that an ack
\* acknowledges, however many acks were lost before it.
THEOREM WindowNeverLeaps == Spec => NoLeapAboveThreshold
  <1>1. IInv /\ WindowInv /\ [Next]_vars =>
            [Trusted /\ host.Window_threshold > 0 /\ host.window_size # Infinity /\ flows' = flows
                => /\ host'.window_size # Infinity
                   /\ host'.window_size =< host.window_size
                         + Unit * (host.packets_in_window + left - host'.packets_in_window - left')]_vars
    BY StepNeverLeaps
  <1> QED BY <1>1, InitInv, StepInv, WindowInit, WindowStep, PTL DEF Spec, NoLeapAboveThreshold
=============================================================================
