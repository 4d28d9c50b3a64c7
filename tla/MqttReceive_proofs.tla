-------------------------- MODULE MqttReceive_proofs --------------------------
(***************************************************************************)
(* How the stream is cut into packets, for every base, number of digits,   *)
(* buffer, set of packets, schedule of the broker and setting of the       *)
(* timeouts.                                                               *)
(*                                                                         *)
(* The model speaks of data of any length with recursive functions.  They  *)
(* are CHOOSEn, and what they compute has to be shown first: Recursion     *)
(* says that functions with such equations exist, and the four lemmas      *)
(* after it give each function of the model its equation.                  *)
(***************************************************************************)
EXTENDS MqttReceive, SequenceTheorems, WellFoundedInduction, TLAPS

-----------------------------------------------------------------------------
(* Recursive functions.                                                    *)

Less == {ss \in Nat \X Nat : ss[1] < ss[2]}

\* A set of naturals has a least member.
LEMMA Least ==
  ASSUME NEW T, T \subseteq Nat, T # {}
  PROVE  \E m \in T : \A k \in T : m <= k
<1>1. IsWellFoundedOn(Less, Nat)
  BY NatLessThanWellFounded, Zenon DEF Less, OpToRel
<1>2. PICK m \in T : \A k \in T : ~ (<<k, m>> \in Less)
  BY <1>1, WFMin
<1>3. \A k \in T : ~ (k < m) /\ k \in Nat /\ m \in Nat
  BY <1>2 DEF Less
<1> QED
  BY <1>3

\* A recursion on D: from x, it goes to prior[x], which is smaller, unless it
\* stops at x; start and step give its values, in V.
Descends(D, size, prior, Stop) ==
  /\ size \in [D -> Nat] /\ prior \in [D -> D]
  /\ \A x \in D : x \notin Stop => size[prior[x]] < size[x]
Computes(D, V, start, step) == start \in [D -> V] /\ step \in [D -> [V -> V]]

\* What it gives for x when f is what it gave for smaller arguments.
Value(f, x, prior, Stop, start, step) ==
  IF x \in Stop THEN start[x] ELSE step[x][f[prior[x]]]

\* f satisfies its equation for the arguments in S.
Solves(f, S, prior, Stop, start, step) ==
  \A x \in S : f[x] = Value(f, x, prior, Stop, start, step)

\* The arguments below a size.
Below(k, D, size) == {x \in D : size[x] < k}

\* There is a function that solves it below each size.
LEMMA RecursionBelow ==
  ASSUME NEW D, NEW V, NEW size, NEW prior, NEW Stop, NEW start, NEW step,
         Descends(D, size, prior, Stop), Computes(D, V, start, step)
  PROVE  \A k \in Nat : \E f : f \in [D -> V]
                               /\ Solves(f, Below(k, D, size), prior, Stop, start, step)
<1> DEFINE Apx(f, k) == f \in [D -> V] /\ Solves(f, Below(k, D, size), prior, Stop, start, step)
           T == {k \in Nat : ~ \E f : Apx(f, k)}
<1> USE DEF Descends, Computes
<1>1. SUFFICES ASSUME T # {} PROVE FALSE
  BY Zenon
<1>2. PICK m \in T : \A k \in T : m <= k
  <2>1. T \subseteq Nat
    BY Zenon
  <2> HIDE DEF T
  <2> QED
    BY <1>1, <2>1, Least
<1>3. m \in Nat /\ ~ \E f : Apx(f, m)
  BY <1>2, Zenon
<1>4. CASE m = 0
  <2>1. Apx(start, 0)
    BY DEF Solves, Below
  <2> QED
    BY <1>3, <1>4, <2>1, Zenon
<1>5. CASE m # 0
  <2>1. m - 1 \in Nat /\ ~(m <= m - 1)
    BY <1>3, <1>5
  <2>2. m - 1 \notin T
    BY <1>2, <2>1, Zenon
  <2>3. PICK f : Apx(f, m - 1)
    BY <2>1, <2>2, Zenon
  <2> DEFINE g == [x \in D |-> Value(f, x, prior, Stop, start, step)]
  <2>4. g \in [D -> V]
    BY <2>3 DEF Value
  <2>5. ASSUME NEW x \in Below(m, D, size)
        PROVE  g[x] = Value(g, x, prior, Stop, start, step)
    <3>1. x \in D /\ g[x] = Value(f, x, prior, Stop, start, step)
      BY <2>5 DEF Below
    <3>2. CASE x \in Stop
      BY <3>1, <3>2, Zenon DEF Value
    <3>3. CASE x \notin Stop
      <4> DEFINE y == prior[x]
      <4>1. y \in D /\ size[y] \in Nat /\ size[x] \in Nat /\ size[y] < size[x] /\ size[x] < m
        BY <3>1, <3>3 DEF Below
      <4>2. y \in Below(m - 1, D, size)
        BY <4>1, <1>3 DEF Below
      <4>3. f[y] = Value(f, y, prior, Stop, start, step)
        BY <2>3, <4>2, Zenon DEF Solves
      <4>4. g[y] = Value(f, y, prior, Stop, start, step)
        BY <4>1, Zenon
      <4>5. g[y] = f[y]
        BY <4>3, <4>4, Zenon
      <4> HIDE DEF g
      <4> QED
        BY <3>1, <3>3, <4>5, Zenon DEF Value
    <3> QED
      BY <3>2, <3>3
  <2>6. Apx(g, m)
    <3> HIDE DEF g
    <3> QED
      BY <2>4, <2>5, Zenon DEF Solves
  <2> QED
    BY <1>3, <2>6, Zenon
<1> QED
  BY <1>4, <1>5

\* Functions that solve it on the same arguments agree there.
LEMMA RecursionUnique ==
  ASSUME NEW D, NEW size, NEW prior, NEW Stop, NEW start, NEW step,
         Descends(D, size, prior, Stop),
         NEW S, S \subseteq D, \A x \in S : x \notin Stop => prior[x] \in S,
         NEW f, NEW g,
         Solves(f, S, prior, Stop, start, step), Solves(g, S, prior, Stop, start, step)
  PROVE  \A x \in S : f[x] = g[x]
<1> DEFINE T == {size[z] : z \in {a \in S : f[a] # g[a]}}
<1> USE DEF Descends
<1>1. SUFFICES ASSUME NEW x \in S, f[x] # g[x] PROVE FALSE
  OBVIOUS
<1>2. T \subseteq Nat
  OBVIOUS
<1>3. size[x] \in T
  BY <1>1
<1>4. PICK m \in T : \A i \in T : m <= i
  <2> HIDE DEF T
  <2> QED
    BY <1>2, <1>3, Least
<1>5. PICK z \in S : f[z] # g[z] /\ m = size[z]
  BY <1>4
<1>6. z \notin Stop
  BY <1>5, Zenon DEF Solves, Value
<1> DEFINE y == prior[z]
<1>7. y \in S /\ size[y] \in Nat /\ size[z] \in Nat /\ size[y] < size[z]
  BY <1>5, <1>6
<1>8. ~(m <= size[y])
  BY <1>5, <1>7
<1>9. f[y] = g[y]
  BY <1>4, <1>7, <1>8, Zenon
<1> QED
  BY <1>5, <1>6, <1>9, Zenon DEF Solves, Value

\* A recursion has a solution.
LEMMA Recursion ==
  ASSUME NEW D, NEW V, NEW size, NEW prior, NEW Stop, NEW start, NEW step,
         Descends(D, size, prior, Stop), Computes(D, V, start, step)
  PROVE  \E f : f \in [D -> V] /\ Solves(f, D, prior, Stop, start, step)
<1> DEFINE Apx(f, k) == f \in [D -> V] /\ Solves(f, Below(k, D, size), prior, Stop, start, step)
           h == [k \in Nat |-> CHOOSE f : Apx(f, k)]
           g == [x \in D |-> h[size[x] + 1][x]]
<1>1. \A k \in Nat : \E f : Apx(f, k)
  BY RecursionBelow
<1>2. \A k \in Nat : Apx(h[k], k)
  BY <1>1, Zenon
<1> HIDE DEF h
<1>3. \A x \in D : size[x] \in Nat /\ size[x] + 1 \in Nat /\ size[x] < size[x] + 1
  BY DEF Descends
<1>4. g \in [D -> V]
  BY <1>2, <1>3
<1>5. ASSUME NEW x \in D
      PROVE  g[x] = Value(g, x, prior, Stop, start, step)
  <2> DEFINE k == size[x] + 1
  <2>1. k \in Nat /\ x \in Below(k, D, size)
    BY <1>3 DEF Below
  <2>2. g[x] = Value(h[k], x, prior, Stop, start, step)
    BY <1>2, <2>1, Zenon DEF Solves
  <2>3. CASE x \in Stop
    BY <2>2, <2>3, Zenon DEF Value
  <2>4. CASE x \notin Stop
    <3> DEFINE y == prior[x]
               j == size[y] + 1
               S == {z \in D : size[z] < k /\ size[z] < j}
    <3>1. y \in D /\ size[y] \in Nat /\ size[y] < size[x] /\ size[x] \in Nat
      BY <2>4 DEF Descends
    <3>2. size[y] < k /\ size[y] < j /\ j \in Nat /\ y \in S
      BY <3>1
    <3>3. /\ Solves(h[k], S, prior, Stop, start, step)
          /\ Solves(h[j], S, prior, Stop, start, step)
      BY <1>2, <2>1, <3>2, Zenon DEF Solves, Below
    <3> HIDE DEF k, j, y
    <3>4. S \subseteq D /\ \A z \in S : z \notin Stop => prior[z] \in S
      <4> SUFFICES ASSUME NEW z \in S, z \notin Stop PROVE prior[z] \in S
        BY Zenon
      <4>1. prior[z] \in D /\ size[prior[z]] \in Nat /\ size[z] \in Nat /\ size[prior[z]] < size[z]
        BY DEF Descends
      <4> QED
        BY <4>1, <2>1, <3>2
    <3> DEFINE a == h[k]
               b == h[j]
    <3> HIDE DEF S, a, b
    <3>5. \A z \in S : a[z] = b[z]
      <4>1. Solves(a, S, prior, Stop, start, step) /\ Solves(b, S, prior, Stop, start, step)
        BY <3>3, Zenon DEF a, b
      <4> QED
        BY <3>4, <4>1, RecursionUnique
    <3>6. g[y] = h[k][y]
      BY <3>1, <3>2, <3>5, Zenon DEF j, a, b
    <3> HIDE DEF g
    <3> QED
      BY <2>2, <2>4, <3>6, Zenon DEF Value, y
  <2> QED
    BY <2>3, <2>4
<1> HIDE DEF g
<1> QED
  BY <1>4, <1>5, Zenon DEF Solves

\* What holds where the recursion stops, and of x when it holds of prior[x],
\* holds everywhere.
LEMMA Induction ==
  ASSUME NEW D, NEW size, NEW prior, NEW Stop, Descends(D, size, prior, Stop),
         NEW Good, \A x \in D : x \in Stop \/ prior[x] \in Good => x \in Good
  PROVE  \A x \in D : x \in Good
<1> DEFINE T == {size[z] : z \in {a \in D : a \notin Good}}
<1> USE DEF Descends
<1>1. SUFFICES ASSUME NEW x \in D, x \notin Good PROVE FALSE
  OBVIOUS
<1>2. T \subseteq Nat /\ size[x] \in T
  BY <1>1
<1>3. PICK m \in T : \A i \in T : m <= i
  <2> HIDE DEF T
  <2> QED
    BY <1>2, Least
<1>4. PICK z \in D : z \notin Good /\ m = size[z]
  BY <1>3
<1>5. z \notin Stop /\ prior[z] \notin Good /\ prior[z] \in D
  BY <1>4
<1>6. size[prior[z]] \in T /\ size[prior[z]] < size[z] /\ size[z] \in Nat /\ size[prior[z]] \in Nat
  BY <1>4, <1>5
<1> QED
  BY <1>3, <1>4, <1>6

-----------------------------------------------------------------------------
(* The functions of the model.                                             *)

\* The numbers among the constants.
LEMMA Constants ==
  /\ Base \in Nat /\ Base >= 2 /\ MaxDigits \in Nat \ {0}
  /\ BufferSize \in Nat \ {0} /\ BufferSize < Lengths[MaxDigits]
  /\ ReadTime \in Nat \ {0} /\ BodyTime \in Nat \ {0} /\ ConnectTime \in Nat \ {0}
  /\ TickMod \in Nat /\ TickMod > ConnectTime + BodyTime + ReadTime
<1>1. /\ Base \in Nat /\ Base >= 2 /\ MaxDigits \in Nat \ {0}
      /\ BufferSize \in Nat \ {0} /\ BufferSize < Lengths[MaxDigits]
      /\ ReadTime \in Nat \ {0} /\ BodyTime \in Nat \ {0} /\ ConnectTime \in Nat \ {0}
      /\ TickMod \in Nat /\ TickMod > ConnectTime + BodyTime + (MaxDigits + 1) * ReadTime
  BY ReceiveAssumption
<1>2. (MaxDigits + 1) * ReadTime >= ReadTime
  BY <1>1
<1> QED
  BY <1>1, <1>2

\* 1, Base, Base * Base, ...
LEMMA LengthsAre ==
  /\ \A k \in Nat : Lengths[k] \in Nat
  /\ Lengths[0] = 1
  /\ \A k \in Nat : Lengths[k + 1] = Base * Lengths[k]
<1> DEFINE Eqs(f) == [k \in Nat |-> IF k = 0 THEN 1 ELSE Base * f[k - 1]]
           size == [k \in Nat |-> k]
           prior == [k \in Nat |-> IF k = 0 THEN 0 ELSE k - 1]
           start == [k \in Nat |-> 1]
           step == [k \in Nat |-> [v \in Nat |-> Base * v]]
<1>1. Descends(Nat, size, prior, {0})
  BY DEF Descends
<1>2. Computes(Nat, Nat, start, step)
  BY Constants DEF Computes
<1>3. PICK f : f \in [Nat -> Nat] /\ Solves(f, Nat, prior, {0}, start, step)
  <2> HIDE DEF size, prior, start, step
  <2> QED
    BY <1>1, <1>2, Recursion
<1>4. f = Eqs(f)
  <2>1. ASSUME NEW k \in Nat PROVE f[k] = Eqs(f)[k]
    <3>1. f[k] = Value(f, k, prior, {0}, start, step)
      BY <1>3, Zenon DEF Solves
    <3>2. CASE k = 0
      BY <3>1, <3>2 DEF Value
    <3>3. CASE k # 0
      <4>1. f[k] = step[k][f[k - 1]] /\ k - 1 \in Nat /\ f[k - 1] \in Nat
        BY <1>3, <3>1, <3>3 DEF Value
      <4> QED
        BY <4>1, <3>3
    <3> QED
      BY <3>2, <3>3
  <2> QED
    BY <2>1, <1>3, Zenon
<1>5. Lengths = Eqs(Lengths)
  <2>1. Lengths = CHOOSE e : e = Eqs(e)
    BY Zenon DEF Lengths
  <2>2. \E e : e = Eqs(e)
    BY <1>4, Zenon
  <2> DEFINE L == Lengths
  <2> HIDE DEF Eqs, L
  <2> QED
    BY <2>1, <2>2, Zenon DEF L
<1> DEFINE L == Lengths
<1>6. /\ L[0] = 1
      /\ \A k \in Nat : k # 0 => L[k] = Base * L[k - 1]
      /\ \A k \in Nat : L[k + 1] = Base * L[k]
  <2>1. \A k \in Nat : L[k] = Eqs(L)[k]
    BY <1>5, Zenon
  <2> HIDE DEF L
  <2>2. \A k \in Nat : L[k] = IF k = 0 THEN 1 ELSE Base * L[k - 1]
    BY <2>1
  <2> QED
    BY <2>2
<1>7. \A k \in Nat : L[k] \in Nat
  <2> DEFINE Good == {k \in Nat : L[k] \in Nat}
  <2> HIDE DEF L
  <2>1. \A k \in Nat : k \in {0} \/ prior[k] \in Good => k \in Good
    <3> SUFFICES ASSUME NEW k \in Nat, k \in {0} \/ prior[k] \in Good PROVE L[k] \in Nat
      BY Zenon
    <3>1. CASE k = 0
      BY <3>1, <1>6
    <3>2. CASE k # 0
      <4>1. k - 1 \in Nat /\ L[k - 1] \in Nat
        BY <3>2
      <4> QED
        BY <3>2, <4>1, <1>6, Constants
    <3> QED
      BY <3>1, <3>2
  <2>2. \A k \in Nat : k \in Good
    <3> HIDE DEF Good, prior, size
    <3> QED
      BY <1>1, <2>1, Induction
  <2> QED
    BY <2>2
<1> QED
  BY <1>6, <1>7

\* A number and its lowest digit.
LEMMA Division ==
  ASSUME NEW n \in Nat
  PROVE  /\ n \div Base \in Nat /\ n % Base \in 0 .. Base - 1
         /\ n = Base * (n \div Base) + (n % Base)
         /\ n >= Base => n \div Base >= 1 /\ n \div Base < n
<1>1. Base \in Nat /\ Base >= 2
  BY Constants
<1> QED
  BY <1>1

\* A length is written with its lowest digit first; a digit that is not the
\* last has its continuation bit set.
LEMMA EncodedLengthIs ==
  /\ \A n \in Nat : EncodedLength[n] \in Seq(Bytes)
  /\ \A n \in Nat : n < Base => EncodedLength[n] = <<n>>
  /\ \A n \in Nat : n >= Base =>
       EncodedLength[n] = <<Base + (n % Base)>> \o EncodedLength[n \div Base]
<1> DEFINE Eqs(f) == [n \in Nat |-> IF n < Base THEN <<n>>
                                    ELSE <<Base + (n % Base)>> \o f[n \div Base]]
           Stop == 0 .. Base - 1
           size == [n \in Nat |-> n]
           prior == [n \in Nat |-> n \div Base]
           start == [n \in Nat |-> IF n < Base THEN <<n>> ELSE <<>>]
           step == [n \in Nat |-> [v \in Seq(Bytes) |-> <<Base + (n % Base)>> \o v]]
<1>1. Descends(Nat, size, prior, Stop)
  BY Division, Constants DEF Descends
<1>2. Computes(Nat, Seq(Bytes), start, step)
  <2>1. ASSUME NEW n \in Nat
        PROVE  /\ n < Base => <<n>> \in Seq(Bytes)
               /\ <<Base + (n % Base)>> \in Seq(Bytes)
    BY Division, Constants DEF Bytes
  <2>2. \A n \in Nat : \A v \in Seq(Bytes) : <<Base + (n % Base)>> \o v \in Seq(Bytes)
    BY <2>1
  <2>3. start \in [Nat -> Seq(Bytes)]
    BY <2>1
  <2>4. step \in [Nat -> [Seq(Bytes) -> Seq(Bytes)]]
    BY <2>2, Zenon
  <2> QED
    BY <2>3, <2>4, Zenon DEF Computes
<1>3. PICK f : f \in [Nat -> Seq(Bytes)] /\ Solves(f, Nat, prior, Stop, start, step)
  <2> HIDE DEF size, prior, start, step, Stop
  <2> QED
    BY <1>1, <1>2, Recursion
<1>4. f = Eqs(f)
  <2>1. ASSUME NEW n \in Nat PROVE f[n] = Eqs(f)[n]
    <3>1. f[n] = Value(f, n, prior, Stop, start, step)
      BY <1>3, Zenon DEF Solves
    <3>2. CASE n < Base
      <4>1. n \in Stop /\ start[n] = <<n>>
        BY <3>2, Constants
      <4> QED
        BY <3>1, <3>2, <4>1, Zenon DEF Value
    <3>3. CASE ~(n < Base)
      <4>1. n \notin Stop /\ n \div Base \in Nat
        BY <3>3, Division, Constants
      <4>a. f[n] = step[n][f[n \div Base]]
        BY <3>1, <4>1, Zenon DEF Value
      <4>2. f[n \div Base] \in Seq(Bytes)
        BY <4>1, <1>3, Zenon
      <4>3. f[n] = <<Base + (n % Base)>> \o f[n \div Base]
        BY <4>a, <4>2, Zenon
      <4> QED
        BY <4>3, <3>3, Zenon
    <3> QED
      BY <3>2, <3>3
  <2> QED
    BY <2>1, <1>3, Zenon
<1>5. EncodedLength = Eqs(EncodedLength)
  <2>1. EncodedLength = CHOOSE e : e = Eqs(e)
    BY Zenon DEF EncodedLength
  <2>2. \E e : e = Eqs(e)
    BY <1>4, Zenon
  <2> DEFINE L == EncodedLength
  <2> HIDE DEF Eqs, L
  <2> QED
    BY <2>1, <2>2, Zenon DEF L
<1> DEFINE L == EncodedLength
<1>6. /\ \A n \in Nat : n < Base => L[n] = <<n>>
      /\ \A n \in Nat : n >= Base => L[n] = <<Base + (n % Base)>> \o L[n \div Base]
  <2>1. \A n \in Nat : L[n] = Eqs(L)[n]
    BY <1>5, Zenon
  <2>2. \A n \in Nat : n >= Base => ~(n < Base)
    BY Constants
  <2> HIDE DEF L
  <2> QED
    BY <2>1, <2>2, Zenon
<1>7. \A n \in Nat : L[n] \in Seq(Bytes)
  <2> DEFINE Good == {n \in Nat : L[n] \in Seq(Bytes)}
  <2> HIDE DEF L
  <2>1. \A n \in Nat : n \in Stop \/ prior[n] \in Good => n \in Good
    <3> SUFFICES ASSUME NEW n \in Nat, n \in Stop \/ prior[n] \in Good PROVE L[n] \in Seq(Bytes)
      BY Zenon
    <3>1. CASE n < Base
      <4>1. n \in Bytes
        BY <3>1, Constants DEF Bytes
      <4>2. <<n>> \in Seq(Bytes)
        BY <4>1
      <4> QED
        BY <3>1, <4>2, <1>6, Zenon
    <3>2. CASE n >= Base
      <4> DEFINE c == Base + (n % Base)
      <4>1. L[n \div Base] \in Seq(Bytes)
        BY <3>2, Constants
      <4>2. c \in Bytes
        BY Division, Constants DEF Bytes
      <4>3. L[n] = <<c>> \o L[n \div Base]
        BY <3>2, <1>6, Zenon
      <4> HIDE DEF c
      <4> QED
        BY <4>1, <4>2, <4>3
    <3> QED
      BY <3>1, <3>2, Constants
  <2>2. \A n \in Nat : n \in Good
    <3> HIDE DEF Good, prior, size, Stop
    <3> QED
      BY <1>1, <2>1, Induction
  <2> QED
    BY <2>2
<1> QED
  BY <1>6, <1>7, Zenon

\* A packet on the wire is a sequence of bytes.
LEMMA EncodedTyped ==
  ASSUME NEW p \in Packets
  PROVE  /\ Encoded(p) \in Seq(Bytes) /\ p.type \in Bytes /\ p.body \in Seq(Bytes)
         /\ Len(p.body) \in Nat
<1>1. p.type \in Bytes /\ p.body \in Seq(Bytes) /\ Len(p.body) \in Nat
  BY ReceiveAssumption
<1>2. EncodedLength[Len(p.body)] \in Seq(Bytes)
  BY <1>1, EncodedLengthIs, Zenon
<1> QED
  BY <1>1, <1>2 DEF Encoded

\* The stream of some packets is that of the first one followed by that of the
\* others.
LEMMA EncodedAllIs ==
  /\ EncodedAll[<<>>] = <<>>
  /\ \A s \in Seq(Packets) : EncodedAll[s] \in Seq(Bytes)
  /\ \A s \in Seq(Packets) :
       s # <<>> => EncodedAll[s] = Encoded(Head(s)) \o EncodedAll[Tail(s)]
<1> DEFINE D == Seq(Packets)
           Eqs(f) == [s \in Seq(Packets) |->
                        IF s = <<>> THEN <<>> ELSE Encoded(Head(s)) \o f[Tail(s)]]
           size == [s \in D |-> Len(s)]
           prior == [s \in D |-> IF s = <<>> THEN s ELSE Tail(s)]
           start == [s \in D |-> <<>>]
           step == [s \in D |-> [v \in Seq(Bytes) |->
                      IF s = <<>> THEN v ELSE Encoded(Head(s)) \o v]]
<1>0. ASSUME NEW s \in D, s # <<>>
      PROVE  /\ Head(s) \in Packets /\ Encoded(Head(s)) \in Seq(Bytes)
             /\ Tail(s) \in D /\ Len(Tail(s)) \in Nat /\ Len(s) \in Nat /\ Len(Tail(s)) < Len(s)
  BY <1>0, HeadTailProperties, EncodedTyped
<1>1. Descends(D, size, prior, {<<>>})
  BY <1>0 DEF Descends
<1>2. Computes(D, Seq(Bytes), start, step)
  <2>1. ASSUME NEW s \in D, NEW v \in Seq(Bytes)
        PROVE  (IF s = <<>> THEN v ELSE Encoded(Head(s)) \o v) \in Seq(Bytes)
    <3> DEFINE e == Encoded(Head(s))
    <3>1. s # <<>> => e \in Seq(Bytes)
      BY <1>0, Zenon
    <3> HIDE DEF e
    <3>2. e \in Seq(Bytes) => e \o v \in Seq(Bytes)
      BY ConcatProperties
    <3> QED
      BY <3>1, <3>2, Zenon DEF e
  <2>2. start \in [D -> Seq(Bytes)]
    OBVIOUS
  <2>3. step \in [D -> [Seq(Bytes) -> Seq(Bytes)]]
    BY <2>1, Zenon
  <2> QED
    BY <2>2, <2>3, Zenon DEF Computes
<1>3. PICK f : f \in [D -> Seq(Bytes)] /\ Solves(f, D, prior, {<<>>}, start, step)
  <2> HIDE DEF size, prior, start, step, D
  <2> QED
    BY <1>1, <1>2, Recursion
<1>4. f = Eqs(f)
  <2>1. ASSUME NEW s \in D PROVE f[s] = Eqs(f)[s]
    <3>1. f[s] = Value(f, s, prior, {<<>>}, start, step)
      BY <1>3, Zenon DEF Solves
    <3>2. CASE s = <<>>
      BY <3>1, <3>2, Zenon DEF Value
    <3>3. CASE s # <<>>
      <4>1. s \notin {<<>>} /\ prior[s] = Tail(s) /\ f[Tail(s)] \in Seq(Bytes)
        BY <3>3, <1>0, <1>3
      <4>2. f[s] = step[s][f[Tail(s)]]
        BY <3>1, <4>1, Zenon DEF Value
      <4>3. f[s] = Encoded(Head(s)) \o f[Tail(s)]
        BY <4>1, <4>2, <3>3, Zenon
      <4> QED
        BY <4>3, <3>3, Zenon
    <3> QED
      BY <3>2, <3>3
  <2> QED
    BY <2>1, <1>3, Zenon
<1>5. EncodedAll = Eqs(EncodedAll)
  <2>1. EncodedAll = CHOOSE e : e = Eqs(e)
    BY Zenon DEF EncodedAll
  <2>2. \E e : e = Eqs(e)
    BY <1>4, Zenon
  <2> DEFINE L == EncodedAll
  <2> HIDE DEF Eqs, L
  <2> QED
    BY <2>1, <2>2, Zenon DEF L
<1> DEFINE L == EncodedAll
<1>6. /\ L[<<>>] = <<>>
      /\ \A s \in D : s # <<>> => L[s] = Encoded(Head(s)) \o L[Tail(s)]
  <2>1. \A s \in D : L[s] = Eqs(L)[s]
    BY <1>5, Zenon
  <2>2. <<>> \in D
    OBVIOUS
  <2> HIDE DEF L
  <2> QED
    BY <2>1, <2>2, Zenon
<1>7. \A s \in D : L[s] \in Seq(Bytes)
  <2> DEFINE Good == {s \in D : L[s] \in Seq(Bytes)}
  <2> HIDE DEF L
  <2>1. \A s \in D : s \in {<<>>} \/ prior[s] \in Good => s \in Good
    <3> SUFFICES ASSUME NEW s \in D, s \in {<<>>} \/ prior[s] \in Good PROVE L[s] \in Seq(Bytes)
      BY Zenon
    <3>1. CASE s = <<>>
      BY <3>1, <1>6
    <3>2. CASE s # <<>>
      <4>1. L[Tail(s)] \in Seq(Bytes)
        BY <3>2, Zenon
      <4>2. Encoded(Head(s)) \in Seq(Bytes)
        BY <3>2, <1>0
      <4>3. L[s] = Encoded(Head(s)) \o L[Tail(s)]
        BY <3>2, <1>6, Zenon
      <4> QED
        BY <4>1, <4>2, <4>3
    <3> QED
      BY <3>1, <3>2
  <2>2. \A s \in D : s \in Good
    <3> HIDE DEF Good, prior, size, D
    <3> QED
      BY <1>1, <2>1, Induction
  <2> QED
    BY <2>2
<1> QED
  BY <1>6, <1>7, Zenon

\* One more packet comes at the end of the stream.
LEMMA EncodedAllAppend ==
  ASSUME NEW s \in Seq(Packets), NEW p \in Packets
  PROVE  EncodedAll[Append(s, p)] = EncodedAll[s] \o Encoded(p)
<1> DEFINE D == Seq(Packets)
           size == [t \in D |-> Len(t)]
           prior == [t \in D |-> IF t = <<>> THEN t ELSE Tail(t)]
           Good == {t \in D : EncodedAll[Append(t, p)] = EncodedAll[t] \o Encoded(p)}
<1>0. ASSUME NEW t \in D, t # <<>>
      PROVE  Head(t) \in Packets /\ Tail(t) \in D /\ Len(Tail(t)) < Len(t)
  BY <1>0, HeadTailProperties
<1>1. Descends(D, size, prior, {<<>>})
  BY <1>0 DEF Descends
<1>2. Encoded(p) \in Seq(Bytes)
  BY EncodedTyped
<1>3. ASSUME NEW t \in D, t \in {<<>>} \/ prior[t] \in Good
      PROVE  t \in Good
  <2>1. /\ Append(t, p) \in D /\ Append(t, p) # <<>>
        /\ Head(Append(t, p)) = IF t = <<>> THEN p ELSE Head(t)
        /\ Tail(Append(t, p)) = IF t = <<>> THEN <<>> ELSE Append(Tail(t), p)
    BY AppendProperties, HeadTailAppend
  <2>2. EncodedAll[Append(t, p)] = Encoded(Head(Append(t, p))) \o EncodedAll[Tail(Append(t, p))]
    BY <2>1, EncodedAllIs, Zenon
  <2>3. CASE t = <<>>
    <3>1. EncodedAll[Append(t, p)] = Encoded(p) \o EncodedAll[t] /\ EncodedAll[t] = <<>>
      BY <2>1, <2>2, <2>3, EncodedAllIs, Zenon
    <3>2. Encoded(p) \o <<>> = <<>> \o Encoded(p)
      BY <1>2, ConcatEmptySeq
    <3> QED
      BY <3>1, <3>2, Zenon
  <2>4. CASE t # <<>>
    <3> DEFINE h == Encoded(Head(t))
               e == EncodedAll[Tail(t)]
    <3>1. h \in Seq(Bytes) /\ e \in Seq(Bytes)
      BY <2>4, <1>0, EncodedTyped, EncodedAllIs, Zenon
    <3>2. EncodedAll[Append(Tail(t), p)] = e \o Encoded(p)
      BY <2>4, <1>3, Zenon
    <3>3. EncodedAll[Append(t, p)] = h \o (e \o Encoded(p)) /\ EncodedAll[t] = h \o e
      BY <2>1, <2>2, <2>4, <3>2, EncodedAllIs, Zenon
    <3>4. h \o (e \o Encoded(p)) = (h \o e) \o Encoded(p)
      <4> DEFINE c == Encoded(p)
      <4>1. c \in Seq(Bytes)
        BY <1>2
      <4> HIDE DEF h, e, c
      <4>2. h \o (e \o c) = (h \o e) \o c
        BY <3>1, <4>1, ConcatAssociative
      <4> QED
        BY <4>2 DEF c
    <3> QED
      BY <3>3, <3>4, Zenon
  <2> QED
    BY <2>3, <2>4
<1>4. \A t \in D : t \in Good
  <2> HIDE DEF D, Good, size, prior
  <2> QED
    BY <1>1, <1>3, Induction
<1> QED
  BY <1>4

\* The packets that fit, when there is one packet more.
LEMMA FittingIs ==
  /\ Fitting[<<>>] = <<>>
  /\ \A s \in Seq(Packets) : Fitting[s] \in Seq(Packets)
  /\ \A s \in Seq(Packets) : \A p \in Packets :
       Fitting[Append(s, p)] = IF Fits(Len(p.body)) THEN Append(Fitting[s], p) ELSE Fitting[s]
<1> DEFINE D == Seq(Packets)
           Front(s) == SubSeq(s, 1, Len(s) - 1)
           More(s, v) == IF Fits(Len(s[Len(s)].body)) THEN Append(v, s[Len(s)]) ELSE v
           Eqs(f) == [s \in Seq(Packets) |-> IF s = <<>> THEN <<>> ELSE More(s, f[Front(s)])]
           size == [s \in D |-> Len(s)]
           prior == [s \in D |-> IF s = <<>> THEN s ELSE Front(s)]
           start == [s \in D |-> <<>>]
           step == [s \in D |-> [v \in D |-> IF s = <<>> THEN v ELSE More(s, v)]]
<1>0. ASSUME NEW s \in D, s # <<>>
      PROVE  /\ s[Len(s)] \in Packets /\ Front(s) \in D
             /\ Len(s) \in Nat /\ Len(Front(s)) \in Nat /\ Len(Front(s)) < Len(s)
  <2>1. Len(s) \in Nat \ {0}
    BY <1>0, EmptySeq
  <2>2. \A i \in 1 .. Len(s) - 1 : s[i] \in Packets
    OBVIOUS
  <2>3. Front(s) \in D /\ Len(Front(s)) = IF 1 <= Len(s) - 1 THEN Len(s) - 1 - 1 + 1 ELSE 0
    BY <2>1, <2>2, SubSeqProperties
  <2> QED
    BY <2>1, <2>3
<1>1. Descends(D, size, prior, {<<>>})
  BY <1>0 DEF Descends
<1>a. ASSUME NEW s \in D, s # <<>>, NEW v \in D
      PROVE  More(s, v) \in D
  BY <1>a, <1>0, AppendProperties
<1>2. Computes(D, D, start, step)
  <2>1. start \in [D -> D]
    BY Zenon, EmptySeq
  <2>2. step \in [D -> [D -> D]]
    <3> HIDE DEF D, More
    <3> QED
      BY <1>a, Zenon
  <2> QED
    BY <2>1, <2>2, Zenon DEF Computes
<1>3. PICK f : f \in [D -> D] /\ Solves(f, D, prior, {<<>>}, start, step)
  <2> HIDE DEF size, prior, start, step, D
  <2> QED
    BY <1>1, <1>2, Recursion
<1>4. f = Eqs(f)
  <2>1. ASSUME NEW s \in D PROVE f[s] = Eqs(f)[s]
    <3>1. f[s] = Value(f, s, prior, {<<>>}, start, step)
      BY <1>3, Zenon DEF Solves
    <3>2. CASE s = <<>>
      BY <3>1, <3>2, Zenon DEF Value
    <3>3. CASE s # <<>>
      <4> HIDE DEF More
      <4>1. s \notin {<<>>} /\ prior[s] = Front(s) /\ f[Front(s)] \in D
        <5>1. Front(s) \in D
          BY <3>3, <1>0, Zenon
        <5> HIDE DEF Front, D
        <5> QED
          BY <5>1, <3>3, <1>3, Zenon
      <4>2. f[s] = step[s][f[Front(s)]]
        BY <3>1, <4>1, Zenon DEF Value
      <4>3. f[s] = More(s, f[Front(s)])
        BY <4>1, <4>2, <3>3, Zenon
      <4> QED
        BY <4>3, <3>3, Zenon
    <3> QED
      BY <3>2, <3>3
  <2> HIDE DEF More
  <2> QED
    BY <2>1, <1>3, Zenon
<1>5. Fitting = Eqs(Fitting)
  <2>1. Fitting = CHOOSE e : e = Eqs(e)
    BY Zenon DEF Fitting
  <2>2. \E e : e = Eqs(e)
    BY <1>4, Zenon
  <2> DEFINE L == Fitting
  <2> HIDE DEF Eqs, L
  <2> QED
    BY <2>1, <2>2, Zenon DEF L
<1> DEFINE L == Fitting
<1>6. /\ L[<<>>] = <<>>
      /\ \A s \in D : s # <<>> => L[s] = More(s, L[Front(s)])
  <2>1. \A s \in D : L[s] = Eqs(L)[s]
    BY <1>5, Zenon
  <2>2. <<>> \in D
    OBVIOUS
  <2> HIDE DEF L, More
  <2> QED
    BY <2>1, <2>2, Zenon
<1>7. \A s \in D : L[s] \in D
  <2> DEFINE Good == {s \in D : L[s] \in D}
  <2> HIDE DEF L
  <2>1. ASSUME NEW s \in D, s \in {<<>>} \/ prior[s] \in Good
        PROVE  s \in Good
    <3>1. CASE s = <<>>
      BY <3>1, <1>6
    <3>2. CASE s # <<>>
      <4>1. L[Front(s)] \in D
        BY <2>1, <3>2, Zenon
      <4>2. L[s] = More(s, L[Front(s)])
        BY <3>2, <1>6, Zenon
      <4> HIDE DEF More
      <4> QED
        BY <4>1, <4>2, <1>a, <3>2, Zenon
    <3> QED
      BY <3>1, <3>2
  <2>2. \A s \in D : s \in Good
    <3> HIDE DEF Good, prior, size, D
    <3> QED
      BY <1>1, <2>1, Induction
  <2> QED
    BY <2>2
<1>8. ASSUME NEW s \in D, NEW p \in Packets
      PROVE  L[Append(s, p)] = IF Fits(Len(p.body)) THEN Append(L[s], p) ELSE L[s]
  <2> DEFINE a == Append(s, p)
  <2>1. a \in D /\ a # <<>> /\ a[Len(a)] = p /\ Len(a) = Len(s) + 1 /\ Len(s) \in Nat
        /\ \A i \in 1 .. Len(s) : a[i] = s[i]
    BY AppendProperties
  <2>2. Front(a) = s
    <3> HIDE DEF a
    <3>1. \A i \in 1 .. Len(s) : a[i] \in Packets
      BY <2>1
    <3>2. Len(a) - 1 = Len(s)
      BY <2>1
    <3>3. /\ Front(a) \in D /\ Len(Front(a)) = Len(s)
          /\ \A i \in 1 .. Len(s) : Front(a)[i] = s[i]
      BY <2>1, <3>1, <3>2, SubSeqProperties
    <3> HIDE DEF Front
    <3> QED
      BY <3>3, SeqEqual
  <2>3. L[a] = More(a, L[s])
    BY <2>1, <2>2, <1>6, Zenon
  <2> HIDE DEF L, a
  <2>4. L[a] = IF Fits(Len(p.body)) THEN Append(L[s], p) ELSE L[s]
    BY <2>1, <2>3, Zenon
  <2> QED
    BY <2>4 DEF a
<1> QED
  BY <1>6, <1>7, <1>8, Zenon

\* The lengths of more digits are more.
LEMMA LengthsGrow ==
  ASSUME NEW k \in Nat
  PROVE  /\ Lengths[k] \in Nat /\ Lengths[k] >= 1
         /\ \A j \in 0 .. k - 1 : Lengths[j] < Lengths[k]
<1> DEFINE size == [n \in Nat |-> n]
           prior == [n \in Nat |-> IF n = 0 THEN 0 ELSE n - 1]
           Good == {n \in Nat : Lengths[n] >= 1 /\ \A j \in 0 .. n - 1 : Lengths[j] < Lengths[n]}
<1>1. Descends(Nat, size, prior, {0})
  BY DEF Descends
<1>2. ASSUME NEW n \in Nat, n \in {0} \/ prior[n] \in Good
      PROVE  n \in Good
  <2>1. CASE n = 0
    BY <2>1, LengthsAre
  <2>2. CASE n # 0
    <3>1. n - 1 \in Nat /\ n - 1 \in Good /\ n - 1 + 1 = n
      BY <1>2, <2>2
    <3>2. Lengths[n] = Base * Lengths[n - 1] /\ Lengths[n] \in Nat /\ Lengths[n - 1] \in Nat
      BY <3>1, LengthsAre
    <3>3. Base \in Nat /\ Base >= 2 /\ Lengths[n - 1] >= 1
      BY <3>1, Constants
    <3>4. Lengths[n - 1] < Base * Lengths[n - 1]
      BY <3>2, <3>3
    <3>5. ASSUME NEW j \in 0 .. n - 1 PROVE Lengths[j] < Lengths[n]
      <4>1. CASE j = n - 1
        BY <4>1, <3>2, <3>4
      <4>2. CASE j # n - 1
        <5>1. j \in 0 .. n - 1 - 1 /\ j \in Nat
          BY <4>2, <3>1
        <5>2. Lengths[j] < Lengths[n - 1] /\ Lengths[j] \in Nat
          BY <5>1, <3>1, LengthsAre
        <5> QED
          BY <5>2, <3>2, <3>4
      <4> QED
        BY <4>1, <4>2
    <3> QED
      BY <3>2, <3>3, <3>4, <3>5
  <2> QED
    BY <2>1, <2>2
<1>3. \A n \in Nat : n \in Good
  <2> HIDE DEF size, prior, Good
  <2> QED
    BY <1>1, <1>2, Induction
<1> QED
  BY <1>3, LengthsAre

\* remainingLengthEncodedSize: k digits for a length that k digits can write
\* and fewer cannot.
LEMMA EncodedSizeIs ==
  ASSUME NEW n \in Nat, NEW k \in 1 .. MaxDigits, n < Lengths[k],
         \A j \in 1 .. k - 1 : n >= Lengths[j]
  PROVE  EncodedSize(n) = k
<1> DEFINE P(i) == /\ n < Lengths[i] \/ i = MaxDigits
                   /\ \A j \in 1 .. i - 1 : n >= Lengths[j]
<1>1. k \in 1 .. MaxDigits /\ P(k)
  OBVIOUS
<1>2. ASSUME NEW i \in 1 .. MaxDigits, P(i)
      PROVE  i = k
  <2>1. i \in Nat /\ k \in Nat /\ i <= MaxDigits /\ k <= MaxDigits /\ MaxDigits \in Nat
    BY Constants
  <2>2. Lengths[i] \in Nat /\ Lengths[k] \in Nat
    BY <2>1, LengthsAre
  <2>3. CASE i < k
    <3>1. i \in 1 .. k - 1 /\ i # MaxDigits
      BY <2>1, <2>3
    <3> QED
      BY <1>2, <2>2, <3>1
  <2>4. CASE k < i
    <3>1. k \in 1 .. i - 1
      BY <2>1, <2>4
    <3> QED
      BY <1>2, <2>2, <3>1
  <2> QED
    BY <2>1, <2>3, <2>4
<1>3. EncodedSize(n) = CHOOSE i \in 1 .. MaxDigits : P(i)
  BY Zenon DEF EncodedSize
<1> HIDE DEF P
<1> QED
  BY <1>1, <1>2, <1>3, Zenon

\* A digit added to a number of fewer digits.
LEMMA DigitAdds ==
  ASSUME NEW l \in Nat, NEW m \in Nat, l < m, NEW c \in 0 .. Base - 1
  PROVE  /\ l + c * m \in Nat /\ m * Base \in Nat /\ l + c * m < m * Base
         /\ c >= 1 => l + c * m >= m
<1>1. Base \in Nat /\ c \in Nat /\ c <= Base - 1 /\ c * m \in Nat /\ m * Base \in Nat
  BY Constants
<1>2. c * m <= (Base - 1) * m
  BY <1>1
<1>3. (Base - 1) * m = m * Base - m
  BY <1>1
<1>4. c >= 1 => c * m >= m
  BY <1>1
<1> QED
  BY <1>1, <1>2, <1>3, <1>4

-----------------------------------------------------------------------------
(* Types.                                                                  *)

Ticks == 0 .. TickMod - 1

\* A remainder is a reading of the clock.
LEMMA ModRange ==
  ASSUME NEW x \in Nat
  PROVE  x % TickMod \in Ticks
BY Constants DEF Ticks

\* Elapsed time is a reading too.
LEMMA ElapsedRange ==
  ASSUME NEW a \in Ticks, NEW b \in Ticks
  PROVE  Elapsed(a, b) \in Ticks
<1>1. a + TickMod - b \in Nat
  BY Constants DEF Ticks
<1> QED
  BY <1>1, ModRange DEF Elapsed

\* The number read so far has the digits read so far.
Digits ==
  pc = "length" => packet.multiplier = Lengths[packet.digits] /\ packet.length < packet.multiplier

\* A read takes bytes off the stream.
LEMMA Taken ==
  ASSUME TypeOK, NEW k \in Nat \ {0}, NEW d \in 0 .. ReadTime, Take(k, d)
  PROVE  /\ stream' \in Seq(Bytes) /\ clock' \in Ticks /\ UNCHANGED <<sent, open>>
         /\ Head(stream) \in Bytes
         /\ SubSeq(stream, 1, k) \in Seq(Bytes) /\ Len(SubSeq(stream, 1, k)) = k
         /\ stream = SubSeq(stream, 1, k) \o stream'
<1>1. stream \in Seq(Bytes) /\ Len(stream) \in Nat /\ k <= Len(stream) /\ k >= 1
  BY DEF TypeOK, Take
<1>2. stream' = SubSeq(stream, k + 1, Len(stream))
  BY DEF Take
<1>3. \A i \in 1 .. Len(stream) : stream[i] \in Bytes
  BY <1>1
<1>4. stream' \in Seq(Bytes)
  BY <1>1, <1>2, <1>3, SubSeqProperties
<1>5. SubSeq(stream, 1, k) \in Seq(Bytes) /\ Len(SubSeq(stream, 1, k)) = k
  <2>1. \A i \in 1 .. k : stream[i] \in Bytes
    BY <1>1, <1>3
  <2> QED
    BY <1>1, <2>1, SubSeqProperties
<1>6. SubSeq(stream, 1, k) \o SubSeq(stream, k + 1, Len(stream)) = SubSeq(stream, 1, Len(stream))
  <2>1. 1 \in 1 .. Len(stream) + 1 /\ k \in 0 .. Len(stream) /\ Len(stream) \in k .. Len(stream)
    BY <1>1
  <2> QED
    BY <1>1, <2>1, ConcatAdjacentSubSeq
<1>7. SubSeq(stream, 1, Len(stream)) = stream
  BY <1>1, SubSeqFull
<1>8. Head(stream) \in Bytes
  <2>1. stream # <<>>
    BY <1>1
  <2> QED
    BY <1>1, <2>1, HeadTailProperties
<1>9. clock' \in Ticks /\ UNCHANGED <<sent, open>>
  <2>1. clock + d \in Nat
    BY Constants DEF TypeOK
  <2> QED
    BY <2>1, ModRange DEF Take, Elapse
<1> QED
  BY <1>2, <1>4, <1>5, <1>6, <1>7, <1>8, <1>9, Zenon

\* What the reader changes when a packet begins or ends, and when it fails.
LEMMA EmptyTyped ==
  /\ 0 \in Ticks /\ 0 \in Bytes /\ NoPacket \in [type : Bytes, length : Nat, multiplier : Nat, digits : 0 .. MaxDigits]
  /\ NoExact \in [want : 0 .. BufferSize, entry : Ticks, patience : Nat]
  /\ NoDump \in [total : Nat, entry : Ticks, budget : Nat]
  /\ NoPacket.multiplier = Lengths[NoPacket.digits] /\ NoPacket.length < NoPacket.multiplier
<1>1. 0 \in Ticks /\ 0 \in Bytes /\ 0 \in 0 .. MaxDigits /\ 0 \in 0 .. BufferSize
  BY Constants DEF Ticks, Bytes
<1>2. Lengths[0] = 1
  BY LengthsAre
<1> QED
  BY <1>1, <1>2 DEF NoPacket, NoExact, NoDump

\* The time a packet has is a number, of at most one of the two timeouts.
LEMMA BudgetTyped ==
  ASSUME TypeOK
  PROVE  Budget \in Nat /\ Budget <= ConnectTime + BodyTime
<1>1. Elapsed(clock, connEntry) \in Nat
  <2>1. clock \in Ticks /\ connEntry \in Ticks
    BY DEF TypeOK, Ticks
  <2>2. Elapsed(clock, connEntry) \in Ticks
    BY <2>1, ElapsedRange
  <2> QED
    BY <2>2, Constants DEF Ticks
<1> QED
  BY <1>1, Constants DEF Budget

\* A digit keeps the packet in its type.
LEMMA DigitTyped ==
  ASSUME TypeOK, Digits, NEW d \in 0 .. ReadTime, ReadDigit(d)
  PROVE  /\ packet.digits + 1 \in 1 .. MaxDigits
         /\ packet' \in [type : Bytes, length : Nat, multiplier : Nat, digits : 0 .. MaxDigits]
         /\ packet'.type = packet.type
         /\ packet'.length = packet.length + (Head(stream) % Base) * packet.multiplier
         /\ packet'.multiplier = packet.multiplier * Base
         /\ packet'.digits = packet.digits + 1
         /\ packet'.multiplier = Lengths[packet'.digits] /\ packet'.length < packet'.multiplier
         /\ Head(stream) \in Bytes /\ Head(stream) % Base \in 0 .. Base - 1
<1>1. /\ packet \in [type : Bytes, length : Nat, multiplier : Nat, digits : 0 .. MaxDigits]
      /\ packet.multiplier = Lengths[packet.digits] /\ packet.length < packet.multiplier
      /\ ~TooManyDigits
  BY DEF TypeOK, Digits, ReadDigit
<1>2. /\ packet.digits \in Nat /\ packet.length \in Nat /\ packet.multiplier \in Nat
      /\ packet.type \in Bytes /\ MaxDigits \in Nat \ {0} /\ packet.digits <= MaxDigits
  BY <1>1, Constants
<1>3. packet.digits + 1 \in 1 .. MaxDigits
  <2>1. SUFFICES ASSUME packet.digits > MaxDigits - 1 PROVE FALSE
    BY <1>2
  <2>2. MaxDigits - 1 \in 0 .. packet.digits - 1 /\ MaxDigits - 1 \in Nat
    BY <1>2, <2>1
  <2>3. Lengths[MaxDigits - 1] < Lengths[packet.digits]
    BY <1>2, <2>2, LengthsGrow
  <2> QED
    BY <1>1, <1>2, <2>2, <2>3, LengthsAre DEF TooManyDigits
<1>4. Head(stream) \in Bytes /\ Head(stream) \in Nat
  <2>1. Take(1, d)
    BY DEF ReadDigit
  <2> QED
    BY <2>1, Taken, Constants DEF Bytes
<1>5. Head(stream) % Base \in 0 .. Base - 1
  BY <1>4, Division
<1> DEFINE c == Head(stream) % Base
<1>6. packet' = [packet EXCEPT !.length = packet.length + c * packet.multiplier,
                               !.multiplier = packet.multiplier * Base,
                               !.digits = packet.digits + 1]
  BY DEF ReadDigit
<1>7. c \in 0 .. Base - 1
  BY <1>5
<1> HIDE DEF c
<1>8. /\ packet.length + c * packet.multiplier \in Nat /\ packet.multiplier * Base \in Nat
      /\ packet.length + c * packet.multiplier < packet.multiplier * Base
  BY <1>1, <1>2, <1>7, DigitAdds
<1> DEFINE l == packet.length + c * packet.multiplier
           m == packet.multiplier * Base
<1>9. m = Lengths[packet.digits + 1]
  <2>1. Lengths[packet.digits + 1] = Base * Lengths[packet.digits]
    BY <1>2, LengthsAre
  <2> QED
    BY <1>1, <1>2, <2>1, Constants
<1> HIDE DEF l, m
<1>10. packet' = [packet EXCEPT !.length = l, !.multiplier = m, !.digits = packet.digits + 1]
  BY <1>6 DEF l, m
<1>11. /\ packet'.type = packet.type /\ packet'.length = l /\ packet'.multiplier = m
       /\ packet'.digits = packet.digits + 1
  BY <1>1, <1>10
<1>12. packet' \in [type : Bytes, length : Nat, multiplier : Nat, digits : 0 .. MaxDigits]
  <2>1. l \in Nat /\ m \in Nat /\ packet.digits + 1 \in 0 .. MaxDigits
    BY <1>3, <1>8 DEF l, m
  <2> QED
    BY <1>1, <1>10, <2>1
<1>13. l < m
  BY <1>8 DEF l, m
<1> QED
  BY <1>3, <1>4, <1>5, <1>9, <1>11, <1>12, <1>13 DEF l, m, c

\* Bytes taken to the buffer.
LEMMA BufferTyped ==
  ASSUME TypeOK, NEW k \in 1 .. BufferSize, NEW d \in 0 .. ReadTime, RecvSome(k, d)
  PROVE  /\ buffer' \in Seq(Bytes) /\ Len(buffer') = Len(buffer) + k /\ Len(buffer') <= exact.want
         /\ Len(buffer) \in Nat /\ exact.want \in Nat /\ exact.want <= BufferSize
         /\ buffer' \o stream' = buffer \o stream
<1>1. k \in Nat \ {0} /\ Take(k, d) /\ buffer \in Seq(Bytes)
  BY DEF RecvSome, TypeOK
<1> DEFINE t == SubSeq(stream, 1, k)
           w == stream'
           v == buffer
<1>2. t \in Seq(Bytes) /\ Len(t) = k /\ w \in Seq(Bytes) /\ stream = t \o w
  BY <1>1, Taken
<1>3. buffer' = v \o t /\ Len(v) < exact.want /\ k <= exact.want - Len(v)
  BY DEF RecvSome
<1>4. exact.want \in Nat /\ exact.want <= BufferSize
  BY Constants DEF TypeOK
<1>5. v \in Seq(Bytes)
  BY <1>1
<1> HIDE DEF t, w, v
<1>6. v \o t \in Seq(Bytes) /\ Len(v \o t) = Len(v) + k /\ Len(v) \in Nat
  <2>1. t \in Seq(Bytes) /\ Len(t) = k
    BY <1>2, Zenon
  <2> QED
    BY <2>1, <1>5
<1>7. (v \o t) \o w = v \o (t \o w)
  BY <1>2, <1>5, ConcatAssociative
<1>8. Len(v) + k <= exact.want
  BY <1>1, <1>3, <1>4, <1>6
<1> QED
  BY <1>2, <1>3, <1>4, <1>6, <1>7, <1>8 DEF v, w

\* The broker's stream stays one of bytes.
LEMMA SendTyped ==
  ASSUME TypeOK, BrokerSend
  PROVE  sent' \in Seq(Packets) /\ stream' \in Seq(Bytes)
<1>1. PICK p \in Packets : sent' = Append(sent, p) /\ stream' = stream \o Encoded(p)
  BY DEF BrokerSend
<1> DEFINE e == Encoded(p)
<1>2. e \in Seq(Bytes) /\ sent \in Seq(Packets) /\ stream \in Seq(Bytes) /\ stream' = stream \o e
  BY <1>1, EncodedTyped DEF TypeOK
<1> HIDE DEF e
<1>3. stream \o e \in Seq(Bytes)
  BY <1>2, ConcatProperties
<1>4. Append(sent, p) \in Seq(Packets)
  BY <1>2, AppendProperties
<1> QED
  BY <1>1, <1>2, <1>3, <1>4

\* Every step keeps every variable in its range, and the digits in theirs.
LEMMA TypeStep ==
  ASSUME TypeOK, Digits, [Next]_vars
  PROVE  TypeOK' /\ Digits'
<1> USE DEF wire, locals, Ticks
<1>a. /\ sent \in Seq(Packets) /\ stream \in Seq(Bytes) /\ open \in BOOLEAN
      /\ pc \in {"type", "length", "packet", "body", "dump", "failed"}
      /\ caller \in {"connect", "loop"} /\ clock \in Ticks
      /\ packet \in [type : Bytes, length : Nat, multiplier : Nat, digits : 0 .. MaxDigits]
      /\ buffer \in Seq(Bytes) /\ Len(buffer) <= BufferSize
      /\ connEntry \in Ticks
      /\ exact \in [want : 0 .. BufferSize, entry : Ticks, patience : Nat]
      /\ dump \in [total : Nat, entry : Ticks, budget : Nat]
      /\ handled \in Seq([type : Bytes, body : Seq(Bytes)])
      /\ spent \in Nat /\ stalled \in BOOLEAN
  BY DEF TypeOK
<1>b. /\ pc = "length" => packet.multiplier = Lengths[packet.digits]
                          /\ packet.length < packet.multiplier
  BY DEF Digits
<1>c. <<>> \in Seq(Bytes) /\ Len(<<>>) = 0
      /\ <<>> \in Seq(Packets) /\ <<>> \in Seq([type : Bytes, body : Seq(Bytes)])
  OBVIOUS
<1>d. /\ ReadTime \in Nat /\ BufferSize \in Nat \ {0}
  BY Constants
<1>e. ASSUME NEW d \in 0 .. ReadTime, Elapse(d)
      PROVE  clock' \in Ticks /\ spent + d \in Nat
  <2>1. clock + d \in Nat /\ spent + d \in Nat
    BY <1>a, <1>d, Constants
  <2> QED
    BY <1>e, <2>1, ModRange DEF Elapse
<1>1. ASSUME NEW d \in 0 .. ReadTime, ReadType(d)
      PROVE  TypeOK' /\ Digits'
  <2>1. Take(1, d)
    BY <1>1 DEF ReadType
  <2>2. /\ stream' \in Seq(Bytes) /\ clock' \in Ticks /\ UNCHANGED <<sent, open>>
        /\ Head(stream) \in Bytes
    BY <2>1, Taken
  <2> DEFINE p == [NoPacket EXCEPT !.type = Head(stream)]
  <2>3. /\ p \in [type : Bytes, length : Nat, multiplier : Nat, digits : 0 .. MaxDigits]
        /\ p.multiplier = Lengths[p.digits] /\ p.length < p.multiplier
    BY <2>2, EmptyTyped DEF NoPacket
  <2>4. \/ packet' = p /\ pc' = "length" /\ UNCHANGED <<caller, buffer, locals, handled>>
        \/ Fail
    BY <1>1 DEF ReadType
  <2>5. UNCHANGED <<spent, stalled>>
    BY <1>1 DEF ReadType
  <2> HIDE DEF p
  <2> QED
    BY <1>a, <2>2, <2>3, <2>4, <2>5 DEF Fail, TypeOK, Digits
<1>2. ASSUME NEW d \in 0 .. ReadTime, ReadNoType(d)
      PROVE  TypeOK' /\ Digits'
  <2>1. clock' \in Ticks
    BY <1>2, <1>e DEF ReadNoType, Nothing
  <2> QED
    BY <1>2, <1>a, <1>b, <2>1 DEF ReadNoType, Nothing, Fail, TypeOK, Digits
<1>3. ASSUME NEW d \in 0 .. ReadTime, ReadDigit(d)
      PROVE  TypeOK' /\ Digits'
  <2>1. Take(1, d)
    BY <1>3 DEF ReadDigit
  <2>2. /\ stream' \in Seq(Bytes) /\ clock' \in Ticks /\ UNCHANGED <<sent, open>>
    BY <2>1, Taken
  <2>3. /\ packet' \in [type : Bytes, length : Nat, multiplier : Nat, digits : 0 .. MaxDigits]
        /\ packet'.multiplier = Lengths[packet'.digits] /\ packet'.length < packet'.multiplier
    BY <1>3, DigitTyped
  <2>4. pc' \in {"length", "packet", "failed"}
        /\ UNCHANGED <<caller, buffer, locals, handled, spent, stalled>>
    BY <1>3 DEF ReadDigit
  <2> QED
    BY <1>a, <2>2, <2>3, <2>4 DEF TypeOK, Digits
<1>4. ASSUME NEW d \in 0 .. ReadTime, ReadNoDigit(d)
      PROVE  TypeOK' /\ Digits'
  <2>1. clock' \in Ticks
    BY <1>4, <1>e DEF ReadNoDigit, Nothing
  <2> QED
    BY <1>4, <1>a, <2>1 DEF ReadNoDigit, Nothing, Fail, TypeOK, Digits
<1>5. ASSUME NEW d \in 0 .. ReadTime, NEW k \in 1 .. BufferSize, RecvSome(k, d)
      PROVE  TypeOK' /\ Digits'
  <2>1. Take(k, d) /\ k \in Nat \ {0}
    BY <1>5 DEF RecvSome
  <2>2. /\ stream' \in Seq(Bytes) /\ UNCHANGED <<sent, open>> /\ clock' \in Ticks
    BY <2>1, Taken
  <2>3. spent + d \in Nat
    BY <2>1, <1>e DEF Take
  <2>4. /\ buffer' \in Seq(Bytes) /\ Len(buffer') <= BufferSize
    <3>1. /\ buffer' \in Seq(Bytes) /\ Len(buffer') <= exact.want
          /\ exact.want \in Nat /\ exact.want <= BufferSize
      BY <1>5, BufferTyped
    <3>2. Len(buffer') \in Nat
      BY <3>1, LenProperties
    <3> QED
      BY <3>1, <3>2, <1>d
  <2>5. /\ pc' \in {"failed", "body", "dump"} /\ spent' = spent + d
        /\ UNCHANGED <<caller, packet, locals, handled, stalled>>
    BY <1>5 DEF RecvSome
  <2> QED
    BY <1>a, <2>2, <2>3, <2>4, <2>5 DEF TypeOK, Digits
<1>6. ASSUME NEW d \in 0 .. ReadTime, RecvNothing(d)
      PROVE  TypeOK' /\ Digits'
  <2>1. clock' \in Ticks /\ spent + d \in Nat
    BY <1>6, <1>e DEF RecvNothing, Nothing
  <2> QED
    BY <1>6, <1>a, <2>1 DEF RecvNothing, Nothing, TypeOK, Digits
<1>7. CASE RecvError \/ RefuseLength \/ WrongType
  BY <1>7, <1>a DEF RecvError, RefuseLength, WrongType, Fail, TypeOK, Digits
<1>8. CASE ReceivePacket
  <2>1. packet.length \in Nat /\ Budget \in Nat
    BY <1>a, BudgetTyped
  <2>2. (IF Fits(packet.length) THEN packet.length ELSE BufferSize) \in 0 .. BufferSize
    BY <2>1, <1>d DEF Fits
  <2>3. /\ exact' \in [want : 0 .. BufferSize, entry : Ticks, patience : Nat]
        /\ dump' \in [total : Nat, entry : Ticks, budget : Nat]
    BY <1>8, <1>a, <2>1, <2>2 DEF ReceivePacket
  <2> QED
    BY <1>8, <1>a, <1>c, <1>d, <2>3 DEF ReceivePacket, TypeOK, Digits
<1>9. ASSUME NextPacket, handled' \in Seq([type : Bytes, body : Seq(Bytes)])
      PROVE  TypeOK' /\ Digits'
  <2>1. stalled' \in BOOLEAN
    BY <1>9, Zenon DEF NextPacket
  <2>2. /\ pc' = "type" /\ caller' = "loop" /\ packet' = NoPacket /\ buffer' = <<>>
        /\ connEntry' = 0 /\ exact' = NoExact /\ dump' = NoDump /\ spent' = 0
        /\ UNCHANGED <<wire, clock>>
    BY <1>9, Zenon DEF NextPacket
  <2> QED
    BY <1>9, <1>a, <1>c, <1>d, <2>1, <2>2, EmptyTyped DEF TypeOK, Digits
<1>10. CASE Handle
  <2>1. [type |-> packet.type, body |-> buffer] \in [type : Bytes, body : Seq(Bytes)]
    BY <1>a
  <2>2. handled' \in Seq([type : Bytes, body : Seq(Bytes)])
    BY <1>10, <1>a, <2>1, AppendProperties DEF Handle
  <2> QED
    BY <1>9, <1>10, <2>2 DEF Handle
<1>11. CASE DumpPart
  <2>1. packet.length \in Nat /\ Dumped \in Nat /\ dump.budget \in Nat /\ dump.entry \in Ticks
    BY <1>a, <1>d DEF Dumped
  <2>2. Elapsed(clock, dump.entry) \in Ticks
    BY <1>a, <2>1, ElapsedRange
  <2>3. CASE Elapsed(clock, dump.entry) < dump.budget
    <3>1. Patience \in Nat
      BY <2>1, <2>2, <2>3, Constants DEF Patience
    <3>2. Part \in 0 .. BufferSize
      <4>1. Dumped < packet.length
        BY <1>11 DEF DumpPart
      <4>2. packet.length - Dumped \in Nat
        BY <2>1, <4>1
      <4> QED
        BY <4>2, <1>d DEF Part
    <3>a. /\ exact' = [want |-> Part, entry |-> clock, patience |-> Patience]
          /\ dump' = [dump EXCEPT !.total = Dumped]
      BY <1>11, <2>3, Zenon DEF DumpPart
    <3>3. /\ exact' \in [want : 0 .. BufferSize, entry : Ticks, patience : Nat]
          /\ dump' \in [total : Nat, entry : Ticks, budget : Nat]
      <4> DEFINE t == Dumped
                 q == Patience
                 w == Part
      <4>1. t \in Nat /\ q \in Nat /\ w \in 0 .. BufferSize
        BY <2>1, <3>1, <3>2
      <4> HIDE DEF t, q, w
      <4> QED
        BY <1>a, <3>a, <4>1 DEF t, q, w
    <3> QED
      BY <1>11, <1>a, <1>c, <1>d, <2>3, <3>3 DEF DumpPart, TypeOK, Digits
  <2>4. CASE ~(Elapsed(clock, dump.entry) < dump.budget)
    BY <1>11, <1>a, <2>4 DEF DumpPart, Fail, TypeOK, Digits
  <2> QED
    BY <2>3, <2>4
<1>12. CASE DumpDone
  <2>1. CASE NextPacket /\ UNCHANGED handled
    BY <2>1, <1>a, <1>9
  <2>2. CASE Fail /\ UNCHANGED <<wire, clock, spent, stalled>>
    BY <2>2, <1>a DEF Fail, TypeOK, Digits
  <2> QED
    BY <1>12, <2>1, <2>2 DEF DumpDone
<1>13. CASE Reconnect
  <2>1. stalled' \in BOOLEAN /\ open' \in BOOLEAN
    BY <1>13, Zenon DEF Reconnect
  <2>2. /\ sent' = <<>> /\ stream' = <<>> /\ handled' = <<>>
        /\ pc' = "type" /\ caller' = "connect" /\ packet' = NoPacket /\ buffer' = <<>>
        /\ connEntry' = clock /\ exact' = NoExact /\ dump' = NoDump /\ spent' = 0
        /\ clock' = clock
    BY <1>13, Zenon DEF Reconnect
  <2> QED
    BY <1>a, <1>c, <1>d, <2>1, <2>2, EmptyTyped DEF TypeOK, Digits
<1>14. CASE BrokerSend
  <2>1. sent' \in Seq(Packets) /\ stream' \in Seq(Bytes)
    BY <1>14, SendTyped
  <2>2. UNCHANGED <<open, pc, caller, clock, packet, buffer, locals, handled, spent, stalled>>
    BY <1>14 DEF BrokerSend
  <2> QED
    BY <1>a, <1>b, <2>1, <2>2 DEF TypeOK, Digits
<1>15. CASE BrokerClose
  BY <1>15, <1>a, <1>b DEF BrokerClose, TypeOK, Digits
<1>16. CASE UNCHANGED vars
  BY <1>16, <1>a, <1>b DEF vars, TypeOK, Digits
<1> QED
  BY <1>1, <1>2, <1>3, <1>4, <1>5, <1>6, <1>7, <1>8, <1>10, <1>11, <1>12, <1>13, <1>14,
     <1>15, <1>16 DEF Next

-----------------------------------------------------------------------------
(* Time.                                                                   *)

\* The clock reads a + d, d after it read a.
LEMMA ModSum ==
  ASSUME NEW e \in Ticks, NEW a \in Nat, NEW d \in Nat, a + d < TickMod
  PROVE  (((e + a) % TickMod) + d) % TickMod = (e + (a + d)) % TickMod
<1>1. TickMod \in Nat \ {0} /\ e \in 0 .. TickMod - 1
  BY Constants DEF Ticks
<1>2. CASE e + a < TickMod
  <2>1. (e + a) % TickMod = e + a
    BY <1>1, <1>2
  <2> QED
    BY <1>1, <2>1
<1>3. CASE e + a >= TickMod
  <2>1. (e + a) % TickMod = e + a - TickMod
    BY <1>1, <1>3
  <2>2. e + a - TickMod + d \in 0 .. TickMod - 1
    BY <1>1, <1>3
  <2>3. (e + a - TickMod + d) % TickMod = e + a - TickMod + d
    BY <1>1, <2>2
  <2>4. e + (a + d) \in TickMod .. 2 * TickMod - 1
    BY <1>1, <1>3
  <2>5. (e + (a + d)) % TickMod = e + (a + d) - TickMod
    BY <1>1, <2>4
  <2> QED
    BY <1>1, <2>1, <2>3, <2>5
<1> QED
  BY <1>1, <1>2, <1>3

\* calculateElapsedTime gives the time between two readings, wrapped or not.
LEMMA ElapsedIs ==
  ASSUME NEW e \in Ticks, NEW a \in Nat, NEW b \in Nat, b <= a, a < TickMod
  PROVE  Elapsed((e + a) % TickMod, (e + b) % TickMod) = a - b
<1> DEFINE x == (e + b) % TickMod
<1>1. TickMod \in Nat \ {0} /\ x \in 0 .. TickMod - 1 /\ a - b \in 0 .. TickMod - 1
  BY Constants DEF Ticks
<1>2. (x + (a - b)) % TickMod = (e + a) % TickMod
  BY <1>1, ModSum
<1> DEFINE d == a - b
<1>3. d \in 0 .. TickMod - 1 /\ (x + d) % TickMod = (e + a) % TickMod
  BY <1>1, <1>2
<1> HIDE DEF x, d
<1>4. Elapsed((x + d) % TickMod, x) = d
  <2>1. CASE x + d < TickMod
    <3>1. (x + d) % TickMod = x + d
      BY <1>1, <1>3, <2>1
    <3>2. x + d + TickMod - x = d + TickMod /\ d + TickMod \in TickMod .. 2 * TickMod - 1
      BY <1>1, <1>3
    <3>3. (d + TickMod) % TickMod = d
      BY <1>1, <1>3, <3>2
    <3> QED
      BY <3>1, <3>2, <3>3 DEF Elapsed
  <2>2. CASE x + d >= TickMod
    <3>1. (x + d) % TickMod = x + d - TickMod
      BY <1>1, <1>3, <2>2
    <3>2. x + d - TickMod + TickMod - x = d
      BY <1>1, <1>3
    <3>3. d % TickMod = d
      BY <1>1, <1>3
    <3> QED
      BY <3>1, <3>2, <3>3 DEF Elapsed
  <2> QED
    BY <1>1, <1>3, <2>1, <2>2
<1> QED
  BY <1>3, <1>4 DEF x, d

\* The current recvExact was called s after the packet's time began: it has the
\* rest of that time, and while it wants more it is not late.
CalledAfter(s) ==
  /\ exact.entry = (dump.entry + s) % TickMod
  /\ exact.patience = dump.budget - s
  /\ s = 0 \/ s < dump.budget
  /\ Len(buffer) < exact.want => spent = s \/ spent < dump.budget

\* The clocks of a packet's rest agree with the time spent on it.
Timed ==
  /\ pc \in {"type", "length", "packet"} => spent = 0 /\ dump = NoDump /\ exact = NoExact
  /\ dump.budget <= ConnectTime + BodyTime
  /\ pc \in {"body", "dump"} =>
       /\ clock = (dump.entry + spent) % TickMod
       /\ \E s \in 0 .. spent : CalledAfter(s)
  /\ GivenUpInTime

\* After one more read, what the clock says is late is late.
LEMMA ReadTimes ==
  ASSUME TypeOK, Timed, pc \in {"body", "dump"}, Len(buffer) < exact.want,
         NEW d \in 0 .. ReadTime, Elapse(d), spent' = spent + d
  PROVE  /\ spent' <= ReadTime + (IF dump.budget = 0 THEN 0 ELSE dump.budget - 1)
         /\ clock' = (dump.entry + spent') % TickMod
         /\ \E s \in 0 .. spent' :
              /\ exact.entry = (dump.entry + s) % TickMod
              /\ exact.patience = dump.budget - s
              /\ s = 0 \/ s < dump.budget
              /\ Elapsed(clock', exact.entry) = spent' - s
              /\ Elapsed(clock', exact.entry) >= exact.patience <=> spent' >= dump.budget
<1> DEFINE b == dump.budget
           e == dump.entry
           n == spent
<1>1. /\ e \in Ticks /\ b \in Nat /\ n \in Nat /\ spent' = n + d /\ d \in Nat /\ d <= ReadTime
      /\ ReadTime \in Nat
  BY Constants DEF TypeOK, Ticks
<1>2. PICK s \in 0 .. n : CalledAfter(s)
  BY DEF Timed
<1>3. exact.entry = (e + s) % TickMod /\ exact.patience = b - s
  BY <1>2 DEF CalledAfter
<1>4. /\ s = 0 \/ s < b
      /\ n = s \/ n < b
  BY <1>2 DEF CalledAfter
<1>5. clock = (e + n) % TickMod /\ clock' = (clock + d) % TickMod
  BY DEF Timed, Elapse
<1>a. b <= ConnectTime + BodyTime
  BY DEF Timed
<1> HIDE DEF b, e, n
<1>6. n + d <= ReadTime + (IF b = 0 THEN 0 ELSE b - 1) /\ n + d < TickMod /\ s \in Nat /\ s <= n + d
  <2>1. s \in Nat /\ s <= n + d
    BY <1>1, <1>2
  <2>2. n = 0 \/ n < b
    BY <1>1, <1>4, <2>1
  <2>3. n + d <= ReadTime + (IF b = 0 THEN 0 ELSE b - 1)
    BY <1>1, <2>2
  <2>4. ReadTime + b < TickMod /\ ReadTime < TickMod
    BY <1>1, <1>a, Constants
  <2>5. n + d < TickMod
    BY <1>1, <2>3, <2>4, Constants
  <2> QED
    BY <2>1, <2>3, <2>5
<1>7. clock' = (e + (n + d)) % TickMod
  BY <1>1, <1>5, <1>6, ModSum
<1>8. Elapsed((e + (n + d)) % TickMod, (e + s) % TickMod) = n + d - s
  BY <1>1, <1>6, ElapsedIs
<1>9. n + d - s >= b - s <=> n + d >= b
  BY <1>1, <1>6
<1>10. s \in 0 .. n + d
  BY <1>1, <1>6
<1> DEFINE t == n + d
           x == Elapsed(clock', exact.entry)
<1>11. s \in 0 .. t /\ x = t - s /\ (x >= exact.patience <=> t >= b)
  <2>1. x = n + d - s
    BY <1>3, <1>7, <1>8, Zenon
  <2>2. exact.patience = b - s
    BY <1>3, Zenon
  <2> HIDE DEF x
  <2>3. x >= b - s <=> t >= b
    BY <2>1, <1>9
  <2>4. s \in 0 .. t /\ x = t - s
    BY <1>1, <1>6, <2>1, <1>10
  <2> QED
    BY <2>2, <2>3, <2>4, Zenon
<1> HIDE DEF t, x
<1>12. \E r \in 0 .. t : /\ exact.entry = (e + r) % TickMod /\ exact.patience = b - r
                         /\ r = 0 \/ r < b
                         /\ x = t - r
                         /\ x >= exact.patience <=> t >= b
  BY <1>3, <1>4, <1>11, Zenon
<1>13. spent' = t
  BY <1>1 DEF t
<1>14. spent' <= ReadTime + (IF b = 0 THEN 0 ELSE b - 1)
  BY <1>1, <1>6
<1> QED
  BY <1>7, <1>12, <1>13, <1>14, Zenon DEF b, e, n, t, x

\* A reading is its own remainder.
LEMMA ModSmall ==
  ASSUME NEW x \in Ticks
  PROVE  (x + 0) % TickMod = x
<1>1. TickMod \in Nat \ {0} /\ x \in 0 .. TickMod - 1
  BY Constants DEF Ticks
<1> QED
  BY <1>1

\* While a packet is read, the clock tells the time spent on it.
LEMMA SpentTime ==
  ASSUME TypeOK, Timed, pc \in {"body", "dump"}
  PROVE  Elapsed(clock, dump.entry) = spent
<1> DEFINE e == dump.entry
           b == dump.budget
<1>1. /\ e \in Ticks /\ b \in Nat /\ spent \in Nat /\ b <= ConnectTime + BodyTime
      /\ clock = (e + spent) % TickMod
  BY DEF TypeOK, Timed, Ticks
<1>2. spent <= ReadTime + (IF b = 0 THEN 0 ELSE b - 1)
  BY DEF Timed, GivenUpInTime
<1> HIDE DEF e, b
<1>3. spent < TickMod /\ 0 <= spent /\ 0 \in Nat
  BY <1>1, <1>2, Constants
<1>4. (e + 0) % TickMod = e
  BY <1>1, ModSmall
<1>5. Elapsed((e + spent) % TickMod, (e + 0) % TickMod) = spent - 0
  BY <1>1, <1>3, ElapsedIs
<1> QED
  BY <1>1, <1>3, <1>4, <1>5 DEF e

\* A read of a packet's rest keeps the times; one that is late has run out.
LEMMA TimedRead ==
  ASSUME TypeOK, Timed, pc \in {"body", "dump"}, Len(buffer) < exact.want,
         NEW d \in 0 .. ReadTime, Elapse(d), spent' = spent + d, UNCHANGED locals,
         pc' \in {pc, "failed"},
         pc' # "failed" /\ Len(buffer') < exact.want
=> ~(Elapsed(clock', exact.entry) >= exact.patience)
  PROVE  /\ Timed'
         /\ Elapsed(clock', exact.entry) >= exact.patience => spent' >= dump.budget
<1>1. /\ spent' <= ReadTime + (IF dump.budget = 0 THEN 0 ELSE dump.budget - 1)
      /\ clock' = (dump.entry + spent') % TickMod
  BY ReadTimes
<1>2. PICK s \in 0 .. spent' :
        /\ exact.entry = (dump.entry + s) % TickMod
        /\ exact.patience = dump.budget - s
        /\ s = 0 \/ s < dump.budget
        /\ Elapsed(clock', exact.entry) = spent' - s
        /\ Elapsed(clock', exact.entry) >= exact.patience <=> spent' >= dump.budget
  BY ReadTimes
<1>3. /\ exact' = exact /\ dump' = dump /\ dump.budget <= ConnectTime + BodyTime
      /\ dump.budget \in Nat /\ spent' \in Nat
  BY Constants DEF locals, Timed, TypeOK
<1>4. GivenUpInTime'
  BY <1>1, <1>3 DEF GivenUpInTime
<1>5. pc' \in {"body", "dump"} => CalledAfter(s)'
  <2>1. SUFFICES ASSUME pc' \in {"body", "dump"}
                 PROVE  Len(buffer') < exact.want => spent' = s \/ spent' < dump.budget
    BY <1>2, <1>3, Zenon DEF CalledAfter
  <2>2. Len(buffer') < exact.want => ~(spent' >= dump.budget)
    BY <2>1, <1>2
  <2> QED
    BY <2>2, <1>3
<1> QED
  BY <1>1, <1>2, <1>3, <1>4, <1>5 DEF Timed

\* Every step keeps the times.
LEMMA TimedStep ==
  ASSUME TypeOK, Timed, [Next]_vars
  PROVE  Timed'
<1> USE DEF wire, locals
<1>a. /\ spent \in Nat /\ clock \in Ticks /\ dump.budget \in Nat
  BY DEF TypeOK, Ticks
<1>b. ASSUME UNCHANGED <<dump, spent>>, pc' = "failed"
      PROVE  Timed'
  BY <1>b DEF Timed, GivenUpInTime
<1>c. ASSUME pc \in {"type", "length", "packet"}, pc' \in {"type", "length", "packet"},
             UNCHANGED <<exact, dump, spent>>
      PROVE  Timed'
  BY <1>c DEF Timed, GivenUpInTime
<1>d. ASSUME spent' = 0, dump' = NoDump, exact' = NoExact, pc' = "type"
      PROVE  Timed'
  <2>1. dump'.budget = 0
    BY <1>d DEF NoDump
  <2> QED
    BY <1>d, <2>1, Constants DEF Timed, GivenUpInTime
<1>1. ASSUME NEW d \in 0 .. ReadTime,
             ReadType(d) \/ ReadNoType(d) \/ ReadDigit(d) \/ ReadNoDigit(d)
      PROVE  Timed'
  BY <1>1, <1>b, <1>c DEF ReadType, ReadNoType, ReadDigit, ReadNoDigit, Fail
<1>2. ASSUME NEW d \in 0 .. ReadTime, NEW k \in 1 .. BufferSize, RecvSome(k, d)
      PROVE  Timed'
  <2>1. /\ pc \in {"body", "dump"} /\ Len(buffer) < exact.want /\ Elapse(d)
        /\ spent' = spent + d /\ UNCHANGED locals
    BY <1>2 DEF RecvSome, Take
  <2>2. /\ pc' \in {pc, "failed"}
        /\ pc' # "failed" /\ Len(buffer') < exact.want
             => ~(Elapsed(clock', exact.entry) >= exact.patience)
    BY <1>2 DEF RecvSome
  <2> HIDE DEF locals, wire
  <2> QED
    BY <2>1, <2>2, TimedRead
<1>3. ASSUME NEW d \in 0 .. ReadTime, RecvNothing(d)
      PROVE  Timed'
  <2>1. /\ pc \in {"body", "dump"} /\ Len(buffer) < exact.want /\ Elapse(d)
        /\ spent' = spent + d /\ UNCHANGED locals
    BY <1>3 DEF RecvNothing, Nothing
  <2>2. /\ pc' \in {pc, "failed"}
        /\ pc' # "failed" /\ Len(buffer') < exact.want
             => ~(Elapsed(clock', exact.entry) >= exact.patience)
    BY <1>3 DEF RecvNothing
  <2> HIDE DEF locals, wire
  <2> QED
    BY <2>1, <2>2, TimedRead
<1>4. CASE RecvError \/ RefuseLength \/ WrongType
  BY <1>4, <1>b DEF RecvError, RefuseLength, WrongType, Fail
<1>5. CASE ReceivePacket
  <2>1. spent = 0 /\ spent' = 0 /\ clock' = clock /\ pc' \in {"body", "dump"}
    BY <1>5 DEF ReceivePacket, Timed
  <2>2. /\ exact'.entry = clock /\ exact'.patience = Budget
        /\ dump'.entry = clock /\ dump'.budget = Budget
    BY <1>5 DEF ReceivePacket
  <2>3. Budget \in Nat /\ Budget <= ConnectTime + BodyTime
    BY BudgetTyped
  <2>4. (clock + 0) % TickMod = clock
    BY <1>a, ModSmall
  <2>5. CalledAfter(0)'
    BY <2>1, <2>2, <2>3, <2>4 DEF CalledAfter
  <2>6. GivenUpInTime'
    BY <2>1, <2>2, <2>3, Constants DEF GivenUpInTime
  <2>7. 0 \in 0 .. spent' /\ clock' = (dump'.entry + spent') % TickMod
    BY <2>1, <2>2, <2>4
  <2> QED
    BY <2>1, <2>2, <2>3, <2>5, <2>6, <2>7 DEF Timed
<1>6. CASE Handle \/ Reconnect
  BY <1>6, <1>d DEF Handle, NextPacket, Reconnect
<1>7. CASE DumpPart
  <2>1. CASE Elapsed(clock, dump.entry) < dump.budget
    <3>1. /\ pc = "dump" /\ UNCHANGED <<pc, spent, clock>>
          /\ dump' = [dump EXCEPT !.total = Dumped]
          /\ exact' = [want |-> Part, entry |-> clock, patience |-> Patience]
      BY <1>7, <2>1, Zenon DEF DumpPart
    <3>2. Elapsed(clock, dump.entry) = spent
      BY <3>1, SpentTime
    <3>3. /\ dump'.entry = dump.entry /\ dump'.budget = dump.budget
          /\ exact'.entry = clock /\ exact'.patience = dump.budget - spent
      BY <3>1, <3>2 DEF TypeOK, Patience
    <3>4. clock = (dump.entry + spent) % TickMod /\ spent < dump.budget
          /\ dump.budget <= ConnectTime + BodyTime /\ GivenUpInTime
      BY <3>1, <3>2, <2>1 DEF Timed
    <3>5. CalledAfter(spent)'
      BY <3>1, <3>3, <3>4 DEF CalledAfter
    <3>6. spent \in 0 .. spent'
      BY <1>a, <3>1
    <3>7. /\ GivenUpInTime' /\ dump'.budget <= ConnectTime + BodyTime
          /\ clock' = (dump'.entry + spent') % TickMod
      BY <3>1, <3>3, <3>4 DEF GivenUpInTime
    <3>8. \E s \in 0 .. spent' : CalledAfter(s)'
      BY <3>1, <3>5, <3>6
    <3> QED
      BY <3>1, <3>7, <3>8 DEF Timed
  <2>2. CASE ~(Elapsed(clock, dump.entry) < dump.budget)
    BY <1>7, <2>2, <1>b DEF DumpPart, Fail
  <2> QED
    BY <2>1, <2>2
<1>8. CASE DumpDone
  BY <1>8, <1>b, <1>d DEF DumpDone, Fail, NextPacket
<1>9. CASE BrokerSend \/ BrokerClose \/ UNCHANGED vars
  <2>1. UNCHANGED <<pc, clock, buffer, exact, dump, spent>>
    BY <1>9 DEF BrokerSend, BrokerClose, vars
  <2> QED
    BY <2>1 DEF Timed, GivenUpInTime, CalledAfter
<1> QED
  BY <1>1, <1>2, <1>3, <1>4, <1>5, <1>6, <1>7, <1>8, <1>9 DEF Next

-----------------------------------------------------------------------------
(* Framing.                                                                *)

\* Equal sequences with fronts of the same length have the same fronts and the
\* same rests.
LEMMA ConcatSame ==
  ASSUME NEW S, NEW a \in Seq(S), NEW b \in Seq(S), NEW c \in Seq(S), NEW d \in Seq(S),
         a \o b = c \o d, Len(a) = Len(c)
  PROVE  a = c /\ b = d
<1>1. /\ Len(a) \in Nat /\ Len(b) \in Nat /\ Len(d) \in Nat
      /\ Len(a \o b) = Len(a) + Len(b) /\ Len(c \o d) = Len(c) + Len(d)
  <2>1. Len(a) \in Nat /\ Len(b) \in Nat /\ Len(d) \in Nat
    BY LenProperties
  <2>2. Len(a \o b) = Len(a) + Len(b) /\ Len(c \o d) = Len(c) + Len(d)
    BY ConcatProperties
  <2> QED
    BY <2>1, <2>2
<1>2. Len(b) = Len(d)
  BY <1>1
<1>3. /\ \A i \in 1 .. Len(a) + Len(b) :
           (a \o b)[i] = IF i <= Len(a) THEN a[i] ELSE b[i - Len(a)]
      /\ \A i \in 1 .. Len(c) + Len(d) :
           (c \o d)[i] = IF i <= Len(c) THEN c[i] ELSE d[i - Len(c)]
  BY ConcatProperties
<1>4. ASSUME NEW i \in 1 .. Len(a) PROVE a[i] = c[i]
  <2>1. i \in 1 .. Len(a) + Len(b) /\ i <= Len(a)
    BY <1>1
  <2> QED
    BY <1>2, <1>3, <2>1
<1>5. ASSUME NEW i \in 1 .. Len(b) PROVE b[i] = d[i]
  <2> DEFINE j == i + Len(a)
  <2>1. j \in 1 .. Len(a) + Len(b) /\ ~(j <= Len(a)) /\ j - Len(a) = i
    BY <1>1
  <2> HIDE DEF j
  <2>2. (a \o b)[j] = b[j - Len(a)] /\ (c \o d)[j] = d[j - Len(a)]
    BY <1>2, <1>3, <2>1
  <2> QED
    BY <2>1, <2>2
<1>6. a = c
  BY <1>4, SeqEqual
<1>7. b = d
  BY <1>2, <1>5, SeqEqual
<1> QED
  BY <1>6, <1>7

\* One byte in front of a sequence is its head.
LEMMA ConcatHead ==
  ASSUME NEW S, NEW e \in S, NEW b \in Seq(S), NEW s \in Seq(S), s = <<e>> \o b
  PROVE  Head(s) = e /\ Len(s) = 1 + Len(b) /\ s # <<>>
<1>1. <<e>> \in Seq(S) /\ Len(<<e>>) = 1 /\ Len(b) \in Nat
  OBVIOUS
<1>2. Len(s) = 1 + Len(b) /\ s[1] = e
  BY <1>1, ConcatProperties
<1> QED
  BY <1>1, <1>2

\* What the broker wrote after its first n packets.
Rest(s, n) == EncodedAll[SubSeq(s, n + 1, Len(s))]

\* It begins with the next packet, and is nothing after the last.
LEMMA RestIs ==
  ASSUME NEW s \in Seq(Packets), NEW n \in 0 .. Len(s)
  PROVE  /\ Rest(s, n) \in Seq(Bytes)
         /\ n = Len(s) => Rest(s, n) = <<>>
         /\ n < Len(s) => /\ s[n + 1] \in Packets
                          /\ Rest(s, n) = Encoded(s[n + 1]) \o Rest(s, n + 1)
<1> DEFINE t == SubSeq(s, n + 1, Len(s))
<1>1. Len(s) \in Nat /\ n \in Nat /\ n + 1 \in Int /\ Len(s) \in Int
  OBVIOUS
<1>2. \A i \in n + 1 .. Len(s) : s[i] \in Packets
  BY <1>1
<1>3. t \in Seq(Packets) /\ Len(t) = IF n + 1 <= Len(s) THEN Len(s) - (n + 1) + 1 ELSE 0
  BY <1>1, <1>2, SubSeqProperties
<1>4. CASE n = Len(s)
  <2>1. Len(t) = 0
    BY <1>1, <1>3, <1>4
  <2> HIDE DEF t
  <2>2. t = <<>>
    BY <1>3, <2>1
  <2>3. EncodedAll[t] = <<>> /\ EncodedAll[t] \in Seq(Bytes)
    BY <1>3, <2>2, EncodedAllIs, Zenon
  <2>4. Rest(s, n) = EncodedAll[t]
    BY Zenon DEF Rest, t
  <2>5. ~(n < Len(s))
    BY <1>4, <1>1
  <2> QED
    BY <1>4, <2>3, <2>4, <2>5, Zenon
<1>5. CASE n # Len(s)
  <2>1. n + 1 \in 1 .. Len(s) /\ Len(s) \in n + 1 .. Len(s) /\ n < Len(s)
    BY <1>1, <1>5
  <2>2. Head(t) = s[n + 1] /\ Tail(t) = SubSeq(s, (n + 1) + 1, Len(s))
    BY <2>1, HeadTailOfSubSeq
  <2>3. Len(t) # 0
    BY <1>1, <1>3, <2>1
  <2> HIDE DEF t
  <2>4. t # <<>>
    BY <2>3
  <2>5. EncodedAll[t] = Encoded(Head(t)) \o EncodedAll[Tail(t)] /\ EncodedAll[t] \in Seq(Bytes)
    BY <1>3, <2>4, EncodedAllIs, Zenon
  <2>6. Rest(s, n) = EncodedAll[t]
    BY Zenon DEF Rest, t
  <2>7. Rest(s, n) = Encoded(s[n + 1]) \o Rest(s, n + 1) /\ Rest(s, n) \in Seq(Bytes)
    BY <2>2, <2>5, <2>6, Zenon DEF Rest
  <2> QED
    BY <1>2, <2>1, <2>7, <1>5
<1> QED
  BY <1>4, <1>5

\* A packet written is the rest's end, and changes nothing before it.
LEMMA RestSend ==
  ASSUME NEW s \in Seq(Packets), NEW p \in Packets, NEW n \in 0 .. Len(s)
  PROVE  /\ Rest(Append(s, p), n) = Rest(s, n) \o Encoded(p)
         /\ SubSeq(Append(s, p), 1, n) = SubSeq(s, 1, n)
         /\ Len(Append(s, p)) = Len(s) + 1
         /\ n < Len(s) => Append(s, p)[n + 1] = s[n + 1]
<1> DEFINE a == Append(s, p)
           l == Len(s)
           t == SubSeq(s, n + 1, l)
           u == SubSeq(a, n + 1, l + 1)
<1>1. l \in Nat /\ n \in Nat /\ n <= l
  OBVIOUS
<1>2. /\ a \in Seq(Packets) /\ Len(a) = l + 1 /\ a[l + 1] = p
      /\ \A i \in 1 .. l : a[i] = s[i] /\ s[i] \in Packets
  BY AppendProperties
<1> HIDE DEF a, l
<1>3. /\ t \in Seq(Packets) /\ Len(t) = l - n
      /\ \A i \in 1 .. l - n : t[i] = s[n + i]
  <2>1. \A i \in n + 1 .. l : s[i] \in Packets
    BY <1>1, <1>2
  <2>2. /\ t \in Seq(Packets) /\ Len(t) = IF n + 1 <= l THEN l - (n + 1) + 1 ELSE 0
        /\ \A i \in 1 .. l - (n + 1) + 1 : t[i] = s[(n + 1) + i - 1]
    BY <1>1, <2>1, SubSeqProperties
  <2> HIDE DEF t
  <2> QED
    BY <1>1, <2>2
<1>4. /\ u \in Seq(Packets) /\ Len(u) = l + 1 - n
      /\ \A i \in 1 .. l + 1 - n : u[i] = a[n + i]
  <2>1. \A i \in n + 1 .. l + 1 : a[i] \in Packets
    BY <1>1, <1>2
  <2>2. /\ u \in Seq(Packets) /\ Len(u) = IF n + 1 <= l + 1 THEN (l + 1) - (n + 1) + 1 ELSE 0
        /\ \A i \in 1 .. (l + 1) - (n + 1) + 1 : u[i] = a[(n + 1) + i - 1]
    BY <1>1, <2>1, SubSeqProperties
  <2> HIDE DEF u
  <2> QED
    BY <1>1, <2>2
<1> HIDE DEF t, u
<1>5. u = Append(t, p)
  <2> DEFINE v == Append(t, p)
  <2>1. /\ v \in Seq(Packets) /\ Len(v) = l - n + 1 /\ v[l - n + 1] = p
        /\ \A i \in 1 .. l - n : v[i] = t[i]
    BY <1>3, AppendProperties
  <2> HIDE DEF v
  <2>2. ASSUME NEW i \in 1 .. Len(u) PROVE u[i] = v[i]
    <3>1. CASE i \in 1 .. l - n
      <4>1. n + i \in 1 .. l /\ i \in 1 .. l + 1 - n
        BY <1>1, <3>1
      <4> QED
        BY <1>2, <1>3, <1>4, <2>1, <3>1, <4>1
    <3>2. CASE i = l - n + 1
      <4>1. n + i = l + 1
        BY <1>1, <3>2
      <4> QED
        BY <1>2, <1>4, <2>1, <3>2, <4>1
    <3> QED
      BY <1>1, <1>4, <3>1, <3>2
  <2>3. Len(u) = Len(v)
    BY <1>1, <1>4, <2>1
  <2>4. u = v
    BY <1>4, <2>1, <2>2, <2>3, SeqEqual
  <2> QED
    BY <2>4 DEF v
<1>6. EncodedAll[u] = EncodedAll[t] \o Encoded(p)
  BY <1>3, <1>5, EncodedAllAppend, Zenon
<1>7. Rest(s, n) = EncodedAll[t] /\ Rest(a, n) = EncodedAll[u]
  BY <1>2, Zenon DEF Rest, t, u, l
<1>8. SubSeq(a, 1, n) = SubSeq(s, 1, n)
  <2> DEFINE x == SubSeq(a, 1, n)
             y == SubSeq(s, 1, n)
  <2>1. \A i \in 1 .. n : a[i] \in Packets /\ s[i] \in Packets /\ a[i] = s[i]
    BY <1>1, <1>2
  <2>2. /\ x \in Seq(Packets) /\ Len(x) = IF 1 <= n THEN n - 1 + 1 ELSE 0
        /\ \A i \in 1 .. n - 1 + 1 : x[i] = a[1 + i - 1]
    BY <1>1, <2>1, SubSeqProperties
  <2>3. /\ y \in Seq(Packets) /\ Len(y) = IF 1 <= n THEN n - 1 + 1 ELSE 0
        /\ \A i \in 1 .. n - 1 + 1 : y[i] = s[1 + i - 1]
    BY <1>1, <2>1, SubSeqProperties
  <2> HIDE DEF x, y
  <2>4. Len(x) = n /\ Len(y) = n
    BY <1>1, <2>2, <2>3
  <2>5. \A i \in 1 .. Len(x) : x[i] = y[i]
    BY <1>1, <2>1, <2>2, <2>3, <2>4
  <2>6. x = y
    BY <2>2, <2>3, <2>4, <2>5, SeqEqual
  <2> QED
    BY <2>6 DEF x, y
<1>9. n < l => a[n + 1] = s[n + 1]
  BY <1>1, <1>2
<1> QED
  BY <1>2, <1>6, <1>7, <1>8, <1>9, Zenon DEF a, l

\* What the handlers are due after the next packet.
LEMMA FittingNext ==
  ASSUME NEW s \in Seq(Packets), NEW n \in Nat, n < Len(s)
  PROVE  Fitting[SubSeq(s, 1, n + 1)] =
           IF Fits(Len(s[n + 1].body)) THEN Append(Fitting[SubSeq(s, 1, n)], s[n + 1])
                                       ELSE Fitting[SubSeq(s, 1, n)]
<1> DEFINE x == SubSeq(s, 1, n)
           y == SubSeq(s, 1, n + 1)
           p == s[n + 1]
<1>1. Len(s) \in Nat /\ n + 1 \in 1 .. Len(s)
  OBVIOUS
<1>2. \A i \in 1 .. n + 1 : s[i] \in Packets
  BY <1>1
<1>3. x \in Seq(Packets) /\ p \in Packets
  BY <1>1, <1>2, SubSeqProperties
<1>4. y = x \o <<p>>
  <2>1. 1 \in 1 .. Len(s) /\ n + 1 \in 1 .. Len(s) /\ (n + 1) - 1 = n
    BY <1>1
  <2>2. y = SubSeq(s, 1, (n + 1) - 1) \o <<s[n + 1]>>
    BY <2>1, SubSeqRecursiveSecond
  <2> QED
    BY <2>1, <2>2
<1> HIDE DEF x, y, p
<1>5. y = Append(x, p)
  BY <1>3, <1>4, AppendIsConcat
<1>6. Fitting[y] = IF Fits(Len(p.body)) THEN Append(Fitting[x], p) ELSE Fitting[x]
  BY <1>3, <1>5, FittingIs, Zenon
<1> QED
  BY <1>6 DEF x, y, p

\* The body of the packet the reader is at, after n packets.
Body(n) == sent[n + 1].body

\* A length being read: m is the number the digits to come write.
InLength(n, m) ==
  /\ packet.digits = 0 \/ m > 0
  /\ packet.length + packet.multiplier * m = Len(Body(n))
  /\ stream = EncodedLength[m] \o (Body(n) \o Rest(sent, n + 1))

\* A body being read: u was dumped.
InBody(n, u) ==
  /\ Len(u) = dump.total
  /\ u \o (buffer \o stream) = Body(n) \o Rest(sent, n + 1)

\* n packets are behind the reader, and the stream goes on where it stands.
Framed(n) ==
  /\ handled = Fitting[SubSeq(sent, 1, n)]
  /\ caller = "connect" => n = 0
  /\ pc = "type" => stream = Rest(sent, n)
  /\ pc \in {"length", "packet", "body", "dump"} =>
       n < Len(sent) /\ packet.type = sent[n + 1].type
  /\ pc = "length" => \E m \in Nat : InLength(n, m)
  /\ pc \in {"packet", "body", "dump"} => packet.length = Len(Body(n))
  /\ pc = "packet" => stream = Body(n) \o Rest(sent, n + 1)
  /\ pc \in {"body", "dump"} => \E u \in Seq(Bytes) : InBody(n, u)

\* The parts of a body: all of it when it fits, else no more than there is.
Parts ==
  /\ pc = "body" => Fits(packet.length) /\ exact.want = packet.length /\ dump.total = 0
  /\ pc = "dump" => ~Fits(packet.length) /\ Dumped <= packet.length /\ exact.want > 0
  /\ pc \in {"body", "dump"} => Len(buffer) <= exact.want

\* Every step keeps the parts.
LEMMA PartsStep ==
  ASSUME TypeOK, Parts, [Next]_vars
  PROVE  Parts'
<1>a. /\ packet.length \in Nat /\ exact.want \in Nat /\ dump.total \in Nat
      /\ BufferSize \in Nat \ {0} /\ Len(<<>>) = 0 /\ dump.total + exact.want \in Nat
  BY Constants DEF TypeOK
<1>b. ASSUME pc' \notin {"body", "dump"}
      PROVE  Parts'
  BY <1>b DEF Parts
<1>c. ASSUME pc' = pc, UNCHANGED <<packet, exact, dump>>,
             pc \in {"body", "dump"} => Len(buffer') <= exact.want
      PROVE  Parts'
  BY <1>c DEF Parts, Dumped
<1>1. ASSUME NEW d \in 0 .. ReadTime,
             ReadType(d) \/ ReadNoType(d) \/ ReadDigit(d) \/ ReadNoDigit(d)
      PROVE  Parts'
  BY <1>1, <1>b DEF ReadType, ReadNoType, ReadDigit, ReadNoDigit, Fail
<1>2. ASSUME NEW d \in 0 .. ReadTime, NEW k \in 1 .. BufferSize, RecvSome(k, d)
      PROVE  Parts'
  <2>1. Len(buffer') <= exact.want
    BY <1>2, BufferTyped
  <2>2. pc' \in {pc, "failed"} /\ UNCHANGED <<packet, exact, dump>>
    BY <1>2 DEF RecvSome, locals
  <2> QED
    BY <2>1, <2>2, <1>b, <1>c
<1>3. ASSUME NEW d \in 0 .. ReadTime, RecvNothing(d)
      PROVE  Parts'
  <2>1. pc' \in {pc, "failed"} /\ UNCHANGED <<packet, exact, dump, buffer>>
    BY <1>3 DEF RecvNothing, locals
  <2>2. pc \in {"body", "dump"} => Len(buffer') <= exact.want
    BY <2>1 DEF Parts
  <2> QED
    BY <2>1, <2>2, <1>b, <1>c
<1>4. CASE RecvError \/ RefuseLength \/ WrongType \/ Handle \/ Reconnect \/ DumpDone
  BY <1>4, <1>b DEF RecvError, RefuseLength, WrongType, Handle, Reconnect, DumpDone, Fail, NextPacket
<1>5. CASE ReceivePacket
  <2>1. CASE Fits(packet.length)
    BY <1>5, <2>1, <1>a DEF ReceivePacket, Parts
  <2>2. CASE ~Fits(packet.length)
    BY <1>5, <2>2, <1>a DEF ReceivePacket, Parts, Dumped, Fits
  <2> QED
    BY <2>1, <2>2
<1>6. CASE DumpPart
  <2>1. CASE Elapsed(clock, dump.entry) < dump.budget
    <3>1. /\ pc = "dump" /\ pc' = "dump" /\ packet' = packet /\ buffer' = <<>>
          /\ Dumped < packet.length
          /\ exact' = [want |-> Part, entry |-> clock, patience |-> Patience]
          /\ dump' = [dump EXCEPT !.total = Dumped]
      BY <1>6, <2>1, Zenon DEF DumpPart
    <3>2. dump' = [total |-> Dumped, entry |-> dump.entry, budget |-> dump.budget]
      BY <3>1 DEF TypeOK
    <3>3. exact'.want = Part /\ dump'.total = Dumped
      BY <3>1, <3>2
    <3>4. Dumped \in Nat /\ Part > 0 /\ Dumped + Part <= packet.length /\ Part \in Nat
      BY <3>1, <1>a DEF Dumped, Part
    <3>5. ~Fits(packet.length)
      BY <3>1 DEF Parts
    <3>6. Dumped' = Dumped + Part
      BY <3>3 DEF Dumped
    <3> QED
      BY <1>a, <3>1, <3>3, <3>4, <3>5, <3>6 DEF Parts, Fits
  <2>2. CASE ~(Elapsed(clock, dump.entry) < dump.budget)
    BY <1>6, <2>2, <1>b DEF DumpPart, Fail
  <2> QED
    BY <2>1, <2>2
<1>7. CASE BrokerSend \/ BrokerClose \/ UNCHANGED vars
  <2>1. UNCHANGED <<pc, packet, exact, dump, buffer>>
    BY <1>7 DEF BrokerSend, BrokerClose, vars, locals
  <2> QED
    BY <2>1 DEF Parts, Dumped
<1> QED
  BY <1>1, <1>2, <1>3, <1>4, <1>5, <1>6, <1>7 DEF Next

\* The packet the reader is at, its bytes, and the bytes after it.
LEMMA NextIs ==
  ASSUME TypeOK, NEW n \in 0 .. Len(sent), n < Len(sent)
  PROVE  /\ n \in Nat /\ n + 1 \in 0 .. Len(sent)
         /\ sent[n + 1] \in Packets /\ sent[n + 1].type \in Bytes
         /\ Body(n) \in Seq(Bytes) /\ Len(Body(n)) \in Nat
         /\ Rest(sent, n + 1) \in Seq(Bytes) /\ Body(n) \o Rest(sent, n + 1) \in Seq(Bytes)
         /\ Rest(sent, n) = <<sent[n + 1].type>> \o
              (EncodedLength[Len(Body(n))] \o (Body(n) \o Rest(sent, n + 1)))
<1> DEFINE p == sent[n + 1]
           z == p.body
           r == Rest(sent, n + 1)
           x == <<p.type>>
           y == EncodedLength[Len(z)]
<1>1. sent \in Seq(Packets) /\ n \in Nat /\ n + 1 \in 0 .. Len(sent)
  BY DEF TypeOK
<1>2. p \in Packets /\ r \in Seq(Bytes) /\ Rest(sent, n) = Encoded(p) \o r
  BY <1>1, RestIs
<1>3. p.type \in Bytes /\ z \in Seq(Bytes) /\ Len(z) \in Nat
  BY <1>2, EncodedTyped
<1>4. x \in Seq(Bytes) /\ y \in Seq(Bytes)
  <2>1. x \in Seq(Bytes)
    BY <1>3
  <2>2. y \in Seq(Bytes)
    BY <1>3, EncodedLengthIs, Zenon
  <2> QED
    BY <2>1, <2>2
<1>5. Rest(sent, n) = ((x \o y) \o z) \o r
  BY <1>2, Zenon DEF Encoded
<1> HIDE DEF x, y, z, r
<1>6. ((x \o y) \o z) \o r = x \o (y \o (z \o r)) /\ z \o r \in Seq(Bytes)
  <2>1. r \in Seq(Bytes) /\ z \in Seq(Bytes)
    BY <1>2, <1>3
  <2>2. ((x \o y) \o z) \o r = x \o (y \o (z \o r))
    <3>1. x \o y \in Seq(Bytes) /\ z \o r \in Seq(Bytes)
      BY <1>4, <2>1, ConcatProperties
    <3>2. ((x \o y) \o z) \o r = (x \o y) \o (z \o r)
      BY <2>1, <3>1, ConcatAssociative
    <3> DEFINE w == z \o r
    <3>3. x \in Seq(Bytes) /\ y \in Seq(Bytes) /\ w \in Seq(Bytes)
      BY <1>4, <3>1
    <3> HIDE DEF w
    <3>4. (x \o y) \o w = x \o (y \o w)
      BY <3>3, ConcatAssociative
    <3> QED
      BY <3>2, <3>4, Zenon DEF w
  <2>3. z \o r \in Seq(Bytes)
    BY <2>1, ConcatProperties
  <2> QED
    BY <2>2, <2>3
<1> QED
  BY <1>1, <1>2, <1>3, <1>5, <1>6, Zenon DEF x, y, z, r, Body

\* A connection given up keeps what it handed on.
LEMMA FramedFail ==
  ASSUME NEW n \in Nat, Framed(n), UNCHANGED <<sent, handled, caller>>, pc' = "failed"
  PROVE  Framed(n)'
<1>1. /\ handled' = Fitting[SubSeq(sent', 1, n)]
      /\ caller' = "connect" => n = 0
  BY Zenon DEF Framed
<1> QED
  BY <1>1 DEF Framed

\* A packet done with leaves the reader at the next.
LEMMA FramedNext ==
  ASSUME NEW n \in Nat, NextPacket, stream = Rest(sent, n), handled' = Fitting[SubSeq(sent, 1, n)]
  PROVE  Framed(n)'
<1>1. pc' = "type" /\ caller' = "loop" /\ sent' = sent /\ stream' = stream
  BY DEF NextPacket, wire
<1>2. stream' = Rest(sent', n) /\ handled' = Fitting[SubSeq(sent', 1, n)]
  BY <1>1, Zenon
<1> QED
  BY <1>1, <1>2 DEF Framed

\* Reading a type: it is the next packet's.
LEMMA FramedType ==
  ASSUME TypeOK, NEW n \in 0 .. Len(sent), Framed(n), NEW d \in 0 .. ReadTime, ReadType(d)
  PROVE  /\ Framed(n)'
         /\ n < Len(sent) /\ Head(stream) = sent[n + 1].type
<1>1. Take(1, d) /\ pc = "type"
  BY DEF ReadType
<1>2. /\ UNCHANGED <<sent, open>> /\ stream' \in Seq(Bytes)
      /\ SubSeq(stream, 1, 1) \in Seq(Bytes) /\ Len(SubSeq(stream, 1, 1)) = 1
      /\ stream = SubSeq(stream, 1, 1) \o stream'
  BY <1>1, Taken
<1>3. stream = Rest(sent, n) /\ stream \in Seq(Bytes) /\ 1 <= Len(stream) /\ n \in Nat
  BY <1>1 DEF Framed, TypeOK, Take
<1>4. n < Len(sent)
  <2>1. stream # <<>>
    BY <1>3
  <2>2. sent \in Seq(Packets) /\ Len(sent) \in Nat
    BY DEF TypeOK
  <2>3. n # Len(sent)
    BY <1>3, <2>1, <2>2, RestIs
  <2> QED
    BY <2>2, <2>3
<1>a. PICK m \in Nat : m = Len(Body(n))
  BY <1>4, NextIs, Zenon
<1> DEFINE x == sent[n + 1].type
           w == Body(n) \o Rest(sent, n + 1)
           y == EncodedLength[m]
           z == y \o w
<1>5. x \in Bytes /\ w \in Seq(Bytes) /\ stream = <<x>> \o z
  BY <1>a, <1>3, <1>4, NextIs, Zenon
<1>6. y \in Seq(Bytes)
  BY <1>5, EncodedLengthIs, Zenon
<1> HIDE DEF x, w, y
<1>7. z \in Seq(Bytes)
  BY <1>5, <1>6, ConcatProperties
<1> HIDE DEF z
<1>8. Head(stream) = x
  BY <1>3, <1>5, <1>7, ConcatHead
<1>9. stream' = z
  <2> DEFINE h == SubSeq(stream, 1, 1)
             e == <<x>>
             g == stream'
  <2>1. e \in Seq(Bytes) /\ Len(e) = 1
    BY <1>5
  <2>2. h \in Seq(Bytes) /\ Len(h) = Len(e) /\ g \in Seq(Bytes) /\ h \o g = e \o z
    BY <1>2, <1>5, <2>1
  <2> HIDE DEF h, e, g
  <2>3. g = z
    BY <1>7, <2>1, <2>2, ConcatSame
  <2> QED
    BY <2>3 DEF g
<1>10. CASE Head(stream) \in ValidTypes
  <2>1. /\ packet' = [NoPacket EXCEPT !.type = Head(stream)] /\ pc' = "length"
        /\ UNCHANGED <<caller, buffer, locals, handled>>
    BY <1>10 DEF ReadType
  <2>2. packet'.type = x /\ packet'.length = 0 /\ packet'.multiplier = 1 /\ packet'.digits = 0
    BY <2>1, <1>8 DEF NoPacket
  <2>3. packet'.length + packet'.multiplier * m = m
    BY <1>5, <2>2
  <2>4. Body(n)' = Body(n) /\ sent' = sent
    BY <1>2 DEF Body
  <2>5. InLength(n, m)'
    <3>1. Body(n)' = Body(n) /\ Rest(sent, n + 1)' = Rest(sent, n + 1)
      BY <2>4, Zenon
    <3>2. stream' = EncodedLength[m] \o (Body(n)' \o Rest(sent, n + 1)')
      BY <1>9, <3>1, Zenon DEF w, y, z
    <3>3. packet'.length + packet'.multiplier * m = Len(Body(n)')
      BY <1>a, <2>3, <3>1, Zenon
    <3> QED
      BY <2>2, <3>2, <3>3, Zenon DEF InLength
  <2>6. /\ handled' = Fitting[SubSeq(sent', 1, n)]
        /\ caller' = "connect" => n = 0
    BY <2>1, <2>4, Zenon DEF Framed
  <2>7. n < Len(sent') /\ packet'.type = sent'[n + 1].type
    BY <1>4, <2>2, <2>4 DEF x
  <2>8. \E k \in Nat : InLength(n, k)'
    BY <2>5, Zenon
  <2>9. pc' = "length"
    BY <2>1
  <2>10. Framed(n)'
    BY <2>6, <2>7, <2>8, <2>9 DEF Framed
  <2> QED
    BY <1>4, <1>8, <2>10, Zenon DEF x
<1>11. CASE Head(stream) \notin ValidTypes
  BY <1>2, <1>3, <1>4, <1>8, <1>11, FramedFail DEF ReadType, Fail, x
<1> QED
  BY <1>10, <1>11

\* Reading a digit: what is left of the length is written by the digits to
\* come; a length whose digits are all read is the body's.
LEMMA FramedDigit ==
  ASSUME TypeOK, Digits, NEW n \in 0 .. Len(sent), Framed(n), NEW d \in 0 .. ReadTime,
         ReadDigit(d)
  PROVE  /\ Framed(n)'
         /\ pc' # "failed"
<1>1. Take(1, d) /\ pc = "length"
  BY DEF ReadDigit
<1>2. /\ UNCHANGED <<sent, open>> /\ stream' \in Seq(Bytes) /\ stream \in Seq(Bytes)
      /\ SubSeq(stream, 1, 1) \in Seq(Bytes) /\ Len(SubSeq(stream, 1, 1)) = 1
      /\ stream = SubSeq(stream, 1, 1) \o stream'
  BY <1>1, Taken DEF TypeOK
<1>3. /\ n < Len(sent) /\ packet.type = sent[n + 1].type /\ n \in Nat
      /\ \E m \in Nat : InLength(n, m)
  BY <1>1 DEF Framed
<1>4. PICK m \in Nat : InLength(n, m)
  BY <1>3
<1> DEFINE w == Body(n) \o Rest(sent, n + 1)
           b == Head(stream)
           l == packet.length
           q == packet.multiplier
           g == stream'
<1>5. /\ packet.digits + 1 \in 1 .. MaxDigits
      /\ packet'.type = packet.type
      /\ packet'.length = l + (b % Base) * q
      /\ packet'.multiplier = q * Base
      /\ packet'.digits = packet.digits + 1
      /\ packet'.multiplier = Lengths[packet'.digits] /\ packet'.length < packet'.multiplier
  BY DigitTyped
<1>6. /\ w \in Seq(Bytes) /\ Len(Body(n)) \in Nat
  BY <1>3, NextIs
<1>7. /\ packet.digits = 0 \/ m > 0
      /\ l + q * m = Len(Body(n))
      /\ stream = EncodedLength[m] \o w
  BY <1>4 DEF InLength
<1>8. l \in Nat /\ q \in Nat /\ packet.digits \in Nat /\ Base \in Nat /\ Base >= 2
      /\ q = Lengths[packet.digits] /\ l < q
  BY <1>1, Constants DEF TypeOK, Digits
<1>9. /\ pc' = IF b >= Base THEN "length"
                ELSE IF packet'.digits = EncodedSize(packet'.length) THEN "packet" ELSE "failed"
      /\ UNCHANGED <<caller, handled>>
  <2> DEFINE new == [packet EXCEPT !.length = @ + (b % Base) * packet.multiplier,
                                   !.multiplier = @ * Base, !.digits = @ + 1]
  <2>1. packet' = new /\ UNCHANGED <<caller, handled>>
        /\ pc' = IF b >= Base THEN "length"
                 ELSE IF new.digits = EncodedSize(new.length) THEN "packet" ELSE "failed"
    BY Zenon DEF ReadDigit
  <2> HIDE DEF new, b
  <2> QED
    BY <2>1, Zenon
<1>10. /\ handled' = Fitting[SubSeq(sent', 1, n)]
       /\ caller' = "connect" => n = 0
       /\ n < Len(sent') /\ packet'.type = sent'[n + 1].type
       /\ Body(n)' = Body(n) /\ Rest(sent, n + 1)' = Rest(sent, n + 1)
  BY <1>2, <1>3, <1>5, <1>9, Zenon DEF Framed, Body
<1> HIDE DEF w, g, l, q
<1>11. ASSUME NEW e \in Bytes, NEW z \in Seq(Bytes), stream = <<e>> \o z
       PROVE  b = e /\ g = z
  <2>1. b = e
    BY <1>2, <1>11, ConcatHead
  <2> DEFINE h == SubSeq(stream, 1, 1)
             c == <<e>>
  <2>2. c \in Seq(Bytes) /\ Len(c) = 1
    OBVIOUS
  <2>3. h \in Seq(Bytes) /\ Len(h) = Len(c) /\ g \in Seq(Bytes) /\ h \o g = c \o z
    BY <1>2, <1>11, <2>2 DEF g
  <2> HIDE DEF h, c
  <2>4. g = z
    BY <2>2, <2>3, ConcatSame
  <2> QED
    BY <2>1, <2>4
<1>12. CASE m < Base
  <2>1. m \in Bytes /\ EncodedLength[m] = <<m>>
    <3>1. m \in Bytes
      BY <1>8, <1>12 DEF Bytes
    <3> QED
      BY <3>1, <1>12, EncodedLengthIs, Zenon
  <2>2. stream = <<m>> \o w
    BY <1>7, <2>1, Zenon
  <2>3. b = m /\ g = w
    BY <1>6, <1>11, <2>1, <2>2
  <2> HIDE DEF b
  <2>4. m % Base = m /\ ~(b >= Base)
    BY <1>8, <1>12, <2>3
  <2>5. packet'.length = l + q * m
    <3>1. packet'.length = l + m * q
      BY <1>5, <2>3, <2>4
    <3> QED
      BY <3>1, <1>8
  <2>6. packet'.length = Len(Body(n))
    BY <2>5, <1>7
  <2>7. EncodedSize(packet'.length) = packet'.digits
    <3> DEFINE k == packet.digits + 1
               v == packet'.length
    <3>1. k \in 1 .. MaxDigits /\ v \in Nat /\ v < Lengths[k]
      BY <1>5, <1>6, <2>6
    <3>2. ASSUME NEW j \in 1 .. k - 1 PROVE v >= Lengths[j]
      <4>1. m \in Nat /\ m >= 1 /\ j \in Nat /\ j <= packet.digits
        BY <1>7, <1>8 DEF k
      <4>2. l + m * q >= q
        BY <4>1, <1>8, <1>12, DigitAdds
      <4>3. v >= q
        BY <4>2, <1>5, <2>3, <2>4
      <4>4. Lengths[j] <= q /\ Lengths[j] \in Nat
        <5>1. j = packet.digits \/ j \in 0 .. packet.digits - 1
          BY <4>1, <1>8
        <5>2. Lengths[j] \in Nat /\ Lengths[packet.digits] \in Nat
          BY <4>1, <1>8, LengthsGrow
        <5>3. j \in 0 .. packet.digits - 1 => Lengths[j] < Lengths[packet.digits]
          BY <1>8, LengthsGrow
        <5> DEFINE a == Lengths[j]
                   c == Lengths[packet.digits]
        <5> HIDE DEF a, c
        <5>4. a \in Nat /\ c \in Nat /\ q = c /\ (j = packet.digits => a = c)
              /\ (j \in 0 .. packet.digits - 1 => a < c)
          BY <5>2, <5>3, <1>8, Zenon DEF a, c
        <5>5. a <= q /\ a \in Nat
          BY <5>1, <5>4
        <5> QED
          BY <5>5 DEF a
      <4> DEFINE a == Lengths[j]
      <4> HIDE DEF v, a
      <4>5. a \in Nat /\ a <= q
        BY <4>4 DEF a
      <4>6. v >= a
        BY <4>3, <4>5, <3>1, <1>8
      <4> QED
        BY <4>6 DEF a
    <3> HIDE DEF k, v
    <3>3. EncodedSize(v) = k
      BY <3>1, <3>2, EncodedSizeIs
    <3> QED
      BY <3>3, <1>5 DEF k, v
  <2>8. pc' = "packet"
    BY <1>9, <2>4, <2>7, Zenon
  <2>9. packet'.length = Len(Body(n)') /\ stream' = Body(n)' \o Rest(sent, n + 1)'
    BY <1>10, <2>3, <2>6, Zenon DEF g, w
  <2> QED
    BY <1>10, <2>8, <2>9 DEF Framed
<1>13. CASE ~(m < Base)
  <2> DEFINE e == Base + (m % Base)
             r == m \div Base
             y == EncodedLength[r]
             z == y \o w
  <2>1. /\ r \in Nat /\ m % Base \in 0 .. Base - 1 /\ m = Base * r + (m % Base) /\ r >= 1
    <3>1. m >= Base
      BY <1>13, Constants
    <3> QED
      BY <3>1, Division, Zenon
  <2>2. e \in Bytes /\ e >= Base /\ e % Base = m % Base
    <3> DEFINE c == m % Base
    <3>1. c \in 0 .. Base - 1
      BY <2>1
    <3> HIDE DEF c
    <3>2. Base + c \in Bytes /\ Base + c >= Base /\ (Base + c) % Base = c
      BY <3>1, Constants DEF Bytes
    <3> QED
      BY <3>2 DEF c
  <2>3. y \in Seq(Bytes) /\ EncodedLength[m] = <<e>> \o y
    <3>1. m >= Base
      BY <1>13, Constants
    <3> QED
      BY <2>1, <3>1, EncodedLengthIs, Zenon
  <2> HIDE DEF e, y, r
  <2>4. stream = <<e>> \o z /\ z \in Seq(Bytes)
    <3> DEFINE c == <<e>>
    <3>1. c \in Seq(Bytes)
      BY <2>2
    <3> HIDE DEF c
    <3>a. c \in Seq(Bytes) /\ y \in Seq(Bytes) /\ w \in Seq(Bytes)
      BY <3>1, <2>3, <1>6
    <3>2. (c \o y) \o w = c \o (y \o w)
      BY <3>a, ConcatAssociative
    <3>3. y \o w \in Seq(Bytes)
      BY <2>3, <1>6, ConcatProperties
    <3> QED
      BY <1>7, <2>3, <3>2, <3>3, Zenon DEF c
  <2>5. b = e /\ g = z
    BY <1>11, <2>2, <2>4
  <2> HIDE DEF b
  <2>6. pc' = "length"
    BY <1>9, <2>2, <2>5, Zenon
  <2>7. packet'.length + packet'.multiplier * r = Len(Body(n))
    <3> DEFINE c == m % Base
    <3>1. c \in Nat /\ m = Base * r + c
      BY <2>1, Constants
    <3> HIDE DEF c
    <3>a. l \in Nat /\ q \in Nat /\ Base \in Nat /\ r \in Nat
      BY <1>8, <2>1
    <3>b. q * (Base * r + c) = (q * Base) * r + c * q
      BY <3>1, <3>a
    <3>2. (l + c * q) + (q * Base) * r = l + q * m
      BY <3>1, <3>a, <3>b
    <3>3. packet'.length = l + c * q /\ packet'.multiplier = q * Base
      BY <1>5, <2>2, <2>5 DEF c
    <3> QED
      BY <3>2, <3>3, <1>7
  <2>8. InLength(n, r)'
    <3>1. stream' = EncodedLength[r] \o (Body(n)' \o Rest(sent, n + 1)')
      BY <1>10, <2>5, Zenon DEF g, z, y, w
    <3>2. packet'.length + packet'.multiplier * r = Len(Body(n)')
      BY <1>10, <2>7, Zenon
    <3>3. r > 0
      BY <2>1
    <3> QED
      BY <3>1, <3>2, <3>3, Zenon DEF InLength
  <2> QED
    BY <1>10, <2>1, <2>6, <2>8 DEF Framed
<1> QED
  BY <1>12, <1>13

\* Receiving, dumping and reading more of a body lose nothing of it.
LEMMA FramedBody ==
  ASSUME TypeOK, Parts, NEW n \in 0 .. Len(sent), Framed(n)
  PROVE  /\ ReceivePacket => Framed(n)'
         /\ \A d \in 0 .. ReadTime : \A k \in 1 .. BufferSize : RecvSome(k, d) => Framed(n)'
         /\ \A d \in 0 .. ReadTime : RecvNothing(d) => Framed(n)'
         /\ DumpPart => Framed(n)'
<1>0. n \in Nat
  OBVIOUS
<1>a. ASSUME UNCHANGED <<sent, handled, caller, packet>>, pc \in {"packet", "body", "dump"},
             pc' \in {"body", "dump"}, \E u \in Seq(Bytes) : InBody(n, u)'
      PROVE  Framed(n)'
  <2>1. /\ handled' = Fitting[SubSeq(sent', 1, n)]
        /\ caller' = "connect" => n = 0
        /\ packet'.length = Len(Body(n)')
        /\ n < Len(sent') /\ packet'.type = sent'[n + 1].type
    BY <1>a, Zenon DEF Framed, Body
  <2> QED
    BY <1>a, <2>1 DEF Framed
<1>1. ASSUME ReceivePacket PROVE Framed(n)'
  <2>1. /\ pc = "packet" /\ pc' \in {"body", "dump"} /\ buffer' = <<>> /\ dump'.total = 0
        /\ UNCHANGED <<sent, stream, handled, caller, packet>>
    BY <1>1 DEF ReceivePacket, wire
  <2>2. /\ stream = Body(n) \o Rest(sent, n + 1) /\ stream \in Seq(Bytes)
        /\ <<>> \in Seq(Bytes) /\ Len(<<>>) = 0
    BY <2>1 DEF Framed, TypeOK
  <2>3. <<>> \o stream = stream
    BY <2>2, ConcatEmptySeq
  <2>4. Body(n)' = Body(n) /\ Rest(sent, n + 1)' = Rest(sent, n + 1)
    BY <2>1, Zenon DEF Body
  <2>5. InBody(n, <<>>)'
    BY <2>1, <2>2, <2>3, <2>4, Zenon DEF InBody
  <2> QED
    BY <1>a, <2>1, <2>2, <2>5, Zenon
<1>2. ASSUME NEW d \in 0 .. ReadTime, NEW k \in 1 .. BufferSize, RecvSome(k, d)
      PROVE  Framed(n)'
  <2>1. /\ pc \in {"body", "dump"} /\ pc' \in {pc, "failed"} /\ dump' = dump
        /\ UNCHANGED <<sent, handled, caller, packet>>
    BY <1>2 DEF RecvSome, Take, locals
  <2>2. buffer' \o stream' = buffer \o stream
    BY <1>2, BufferTyped
  <2>3. CASE pc' = "failed"
    BY <1>0, <2>1, <2>3, FramedFail
  <2>4. CASE pc' = pc
    <3>1. PICK u \in Seq(Bytes) : InBody(n, u)
      BY <2>1, Zenon DEF Framed
    <3>2. InBody(n, u)'
      <4>1. Body(n)' = Body(n) /\ Rest(sent, n + 1)' = Rest(sent, n + 1)
        BY <2>1, Zenon DEF Body
      <4> QED
        BY <2>1, <2>2, <3>1, <4>1, Zenon DEF InBody
    <3>3. \E v \in Seq(Bytes) : InBody(n, v)'
      BY <3>2, Zenon
    <3>4. pc \in {"packet", "body", "dump"} /\ pc' \in {"body", "dump"}
      BY <2>1, <2>4, Zenon
    <3> QED
      BY <1>a, <2>1, <3>3, <3>4, Zenon
  <2> QED
    BY <2>1, <2>3, <2>4
<1>3. ASSUME NEW d \in 0 .. ReadTime, RecvNothing(d)
      PROVE  Framed(n)'
  <2>1. /\ pc \in {"body", "dump"} /\ pc' \in {pc, "failed"} /\ dump' = dump
        /\ UNCHANGED <<sent, stream, handled, caller, packet, buffer>>
    BY <1>3 DEF RecvNothing, Nothing, wire, locals
  <2>3. CASE pc' = "failed"
    BY <1>0, <2>1, <2>3, FramedFail
  <2>4. CASE pc' = pc
    <3>1. PICK u \in Seq(Bytes) : InBody(n, u)
      BY <2>1, Zenon DEF Framed
    <3>2. InBody(n, u)'
      <4>1. Body(n)' = Body(n) /\ Rest(sent, n + 1)' = Rest(sent, n + 1)
        BY <2>1, Zenon DEF Body
      <4> QED
        BY <2>1, <3>1, <4>1, Zenon DEF InBody
    <3>3. \E v \in Seq(Bytes) : InBody(n, v)'
      BY <3>2, Zenon
    <3>4. pc \in {"packet", "body", "dump"} /\ pc' \in {"body", "dump"}
      BY <2>1, <2>4, Zenon
    <3> QED
      BY <1>a, <2>1, <3>3, <3>4, Zenon
  <2> QED
    BY <2>1, <2>3, <2>4
<1>4. ASSUME DumpPart PROVE Framed(n)'
  <2>1. pc = "dump" /\ Len(buffer) = exact.want /\ UNCHANGED <<sent, stream>>
    BY <1>4 DEF DumpPart, wire
  <2>2. CASE Fail
    BY <1>0, <2>1, <2>2, FramedFail DEF Fail
  <2>3. CASE ~Fail
    <3>1. /\ dump' = [dump EXCEPT !.total = Dumped] /\ buffer' = <<>>
          /\ UNCHANGED <<pc, caller, packet, handled>>
      BY <1>4, <2>3 DEF DumpPart
    <3>2. dump'.total = dump.total + exact.want
      BY <3>1 DEF TypeOK, Dumped
    <3>3. PICK u \in Seq(Bytes) : InBody(n, u)
      BY <2>1, Zenon DEF Framed
    <3> DEFINE v == u \o buffer
    <3>4. buffer \in Seq(Bytes) /\ stream \in Seq(Bytes)
      BY DEF TypeOK
    <3>5. v \in Seq(Bytes) /\ Len(v) = Len(u) + Len(buffer)
      BY <3>4, ConcatProperties
    <3>6. v \o stream = u \o (buffer \o stream)
      BY <3>4, ConcatAssociative
    <3>7. <<>> \o stream = stream
      BY <3>4, ConcatEmptySeq
    <3>8. Body(n)' = Body(n) /\ Rest(sent, n + 1)' = Rest(sent, n + 1)
      BY <2>1, Zenon DEF Body
    <3>b. PICK x \in Seq(Bytes) : x = v
      BY <3>5, Zenon
    <3> HIDE DEF v
    <3>9. Len(x) = dump'.total
      BY <2>1, <3>2, <3>3, <3>5, <3>b, Zenon DEF InBody
    <3>10. x \o (buffer' \o stream') = Body(n)' \o Rest(sent, n + 1)'
      BY <2>1, <3>1, <3>3, <3>6, <3>7, <3>8, <3>b, Zenon DEF InBody
    <3>11. \E w \in Seq(Bytes) : InBody(n, w)'
      BY <3>9, <3>10, Zenon DEF InBody
    <3>12. pc \in {"packet", "body", "dump"} /\ pc' \in {"body", "dump"}
      BY <2>1, <3>1
    <3> QED
      BY <1>a, <2>1, <3>1, <3>11, <3>12, Zenon
  <2> QED
    BY <2>2, <2>3
<1> QED
  BY <1>1, <1>2, <1>3, <1>4, Zenon

\* When all of a body was read, the stream stands at the next packet.
LEMMA BodyEnds ==
  ASSUME TypeOK, NEW n \in 0 .. Len(sent), Framed(n), pc \in {"body", "dump"},
         Len(buffer) = exact.want, Dumped = packet.length
  PROVE  /\ n < Len(sent) /\ packet.type = sent[n + 1].type /\ packet.length = Len(Body(n))
         /\ stream = Rest(sent, n + 1)
         /\ dump.total = 0 => buffer = Body(n)
<1>1. n < Len(sent) /\ packet.type = sent[n + 1].type /\ packet.length = Len(Body(n))
  BY DEF Framed
<1>2. PICK u \in Seq(Bytes) : InBody(n, u)
  BY Zenon DEF Framed
<1> DEFINE b == Body(n)
           r == Rest(sent, n + 1)
           v == u \o buffer
<1>3. b \in Seq(Bytes) /\ r \in Seq(Bytes) /\ buffer \in Seq(Bytes) /\ stream \in Seq(Bytes)
  BY <1>1, NextIs DEF TypeOK
<1>4. v \in Seq(Bytes) /\ Len(v) = Len(u) + Len(buffer)
  BY <1>3, ConcatProperties
<1>5. v \o stream = u \o (buffer \o stream)
  <2>1. u \in Seq(Bytes) /\ buffer \in Seq(Bytes) /\ stream \in Seq(Bytes)
    BY <1>3
  <2> QED
    BY <2>1, ConcatAssociative
<1>6. Len(u) = dump.total /\ u \o (buffer \o stream) = b \o r
  BY <1>2, Zenon DEF InBody
<1>7. Len(u) + Len(buffer) = Len(b)
  BY <1>1, <1>6, Zenon DEF Dumped
<1>8. dump.total = 0 => v = buffer
  <2> SUFFICES ASSUME dump.total = 0 PROVE v = buffer
    OBVIOUS
  <2>1. u = <<>>
    BY <1>6, EmptySeq
  <2> QED
    BY <2>1, <1>3, ConcatEmptySeq
<1> HIDE DEF b, r, v
<1>9. Len(v) = Len(b) /\ v \o stream = b \o r
  BY <1>4, <1>5, <1>6, <1>7, Zenon
<1>10. v = b /\ stream = r
  BY <1>3, <1>4, <1>9, ConcatSame
<1> QED
  BY <1>1, <1>8, <1>10, Zenon DEF b, r

\* A packet handled is the next one sent; one dumped did not fit.
LEMMA FramedEnd ==
  ASSUME TypeOK, Parts, NEW n \in 0 .. Len(sent), Framed(n),
         Handle \/ DumpDone
  PROVE  \E k \in 0 .. Len(sent') : Framed(k)'
<1>0. n \in Nat /\ sent \in Seq(Packets) /\ Len(sent) \in Nat
      /\ packet.length \in Nat /\ dump.total \in Nat /\ exact.want \in Nat
  BY DEF TypeOK
<1>1. CASE Handle
  <2>1. /\ pc = "body" /\ Len(buffer) = exact.want /\ NextPacket
        /\ handled' = Append(handled, [type |-> packet.type, body |-> buffer])
    BY <1>1 DEF Handle
  <2>2. Fits(packet.length) /\ Dumped = packet.length /\ dump.total = 0
    BY <2>1, <1>0 DEF Parts, Dumped
  <2>3. /\ n < Len(sent) /\ packet.type = sent[n + 1].type /\ packet.length = Len(Body(n))
        /\ stream = Rest(sent, n + 1) /\ buffer = Body(n)
    BY <2>1, <2>2, BodyEnds
  <2> DEFINE p == sent[n + 1]
  <2>4. p = [type |-> p.type, body |-> p.body]
    <3>1. p \in Packets
      BY <2>3, NextIs
    <3>2. p \in [type : Bytes, body : Seq(Bytes)]
      BY <3>1, ReceiveAssumption
    <3> HIDE DEF p
    <3> QED
      BY <3>2
  <2>5. handled' = Append(handled, p)
    BY <2>1, <2>3, <2>4, Zenon DEF Body
  <2>6. Fits(Len(p.body))
    BY <2>2, <2>3, Zenon DEF Body
  <2>7. handled = Fitting[SubSeq(sent, 1, n)]
    BY DEF Framed
  <2>8. handled' = Fitting[SubSeq(sent, 1, n + 1)]
    BY <1>0, <2>3, <2>5, <2>6, <2>7, FittingNext, Zenon
  <2>9. n + 1 \in Nat /\ n + 1 \in 0 .. Len(sent)
    BY <1>0, <2>3
  <2>10. Framed(n + 1)' /\ sent' = sent
    BY <2>1, <2>3, <2>8, <2>9, FramedNext DEF NextPacket, wire
  <2> QED
    BY <2>9, <2>10, Zenon
<1>2. CASE DumpDone
  <2>1. pc = "dump" /\ Len(buffer) = exact.want /\ Dumped >= packet.length
    BY <1>2 DEF DumpDone
  <2>2. ~Fits(packet.length) /\ Dumped = packet.length
    <3>1. ~Fits(packet.length) /\ Dumped <= packet.length
      BY <2>1, Zenon DEF Parts
    <3>2. Dumped \in Nat
      BY <1>0 DEF Dumped
    <3> QED
      BY <2>1, <1>0, <3>1, <3>2
  <2>3. CASE Fail /\ UNCHANGED <<wire, clock, spent, stalled>>
    <3>1. sent' = sent /\ Framed(n)'
      BY <1>0, <2>3, FramedFail DEF Fail, wire
    <3> QED
      BY <3>1
  <2>4. CASE NextPacket /\ UNCHANGED handled
    <3>1. n < Len(sent) /\ packet.length = Len(Body(n)) /\ stream = Rest(sent, n + 1)
      BY <2>1, <2>2, BodyEnds
    <3>2. ~Fits(Len(sent[n + 1].body))
      BY <2>2, <3>1, Zenon DEF Body
    <3>3. handled = Fitting[SubSeq(sent, 1, n)]
      BY DEF Framed
    <3>4. handled' = Fitting[SubSeq(sent, 1, n + 1)]
      BY <1>0, <2>4, <3>1, <3>2, <3>3, FittingNext, Zenon
    <3>5. n + 1 \in Nat /\ n + 1 \in 0 .. Len(sent)
      BY <1>0, <3>1
    <3>6. Framed(n + 1)' /\ sent' = sent
      BY <2>4, <3>1, <3>4, <3>5, FramedNext DEF NextPacket, wire
    <3> QED
      BY <3>5, <3>6, Zenon
  <2> QED
    BY <1>2, <2>3, <2>4 DEF DumpDone
<1> QED
  BY <1>1, <1>2

\* What the broker sends comes after what the reader has still to read.
LEMMA FramedSend ==
  ASSUME TypeOK, NEW n \in 0 .. Len(sent), Framed(n), BrokerSend
  PROVE  n \in 0 .. Len(sent') /\ Framed(n)'
<1>1. PICK p \in Packets : sent' = Append(sent, p) /\ stream' = stream \o Encoded(p)
  BY DEF BrokerSend
<1>2. UNCHANGED <<open, pc, caller, packet, buffer, dump, handled>>
  BY DEF BrokerSend, locals
<1>3. sent \in Seq(Packets) /\ n \in Nat /\ Len(sent) \in Nat /\ n <= Len(sent)
      /\ stream \in Seq(Bytes) /\ buffer \in Seq(Bytes)
  BY DEF TypeOK
<1>4. /\ Rest(sent', n) = Rest(sent, n) \o Encoded(p)
      /\ SubSeq(sent', 1, n) = SubSeq(sent, 1, n)
      /\ Len(sent') = Len(sent) + 1
      /\ n < Len(sent) => sent'[n + 1] = sent[n + 1]
  BY <1>1, <1>3, RestSend
<1>5. n \in 0 .. Len(sent')
  BY <1>3, <1>4
<1>6. /\ handled' = Fitting[SubSeq(sent', 1, n)]
      /\ caller' = "connect" => n = 0
  BY <1>2, <1>4, Zenon DEF Framed
<1>7. CASE pc = "type"
  <2>1. stream' = Rest(sent', n)
    BY <1>1, <1>4, <1>7, Zenon DEF Framed
  <2>2. pc' = "type"
    BY <1>2, <1>7
  <2> QED
    BY <1>5, <1>6, <2>1, <2>2 DEF Framed
<1>8. CASE pc = "failed"
  BY <1>2, <1>5, <1>6, <1>8 DEF Framed
<1>9. CASE pc \in {"length", "packet", "body", "dump"}
  <2>1. n < Len(sent) /\ packet.type = sent[n + 1].type
    BY <1>9, Zenon DEF Framed
  <2>2. n + 1 \in 0 .. Len(sent)
    BY <1>3, <2>1
  <2> DEFINE e == Encoded(p)
             b == Body(n)
             r == Rest(sent, n + 1)
  <2>3. e \in Seq(Bytes)
    BY EncodedTyped
  <2>4. b \in Seq(Bytes) /\ r \in Seq(Bytes) /\ b \o r \in Seq(Bytes)
    BY <2>1, NextIs
  <2>5. Body(n)' = b /\ Rest(sent, n + 1)' = r \o e
    <3>1. Rest(sent', n + 1) = Rest(sent, n + 1) \o Encoded(p)
      BY <1>1, <1>3, <2>2, RestSend
    <3> QED
      BY <1>4, <2>1, <3>1, Zenon DEF Body
  <2> HIDE DEF e, b, r
  <2>6. (b \o r) \o e = b \o (r \o e)
    BY <2>3, <2>4, ConcatAssociative
  <2> DEFINE w == b \o r
  <2>7. w \in Seq(Bytes)
    BY <2>4
  <2> HIDE DEF w
  <2>8. n < Len(sent') /\ packet'.type = sent'[n + 1].type
    BY <1>2, <1>3, <1>4, <2>1
  <2>9. pc \in {"packet", "body", "dump"} => packet'.length = Len(Body(n)')
    BY <1>2, <2>5, Zenon DEF Framed, b
  <2>10. stream' = stream \o e
    BY <1>1 DEF e
  <2>11. ASSUME pc = "length" PROVE \E m \in Nat : InLength(n, m)'
    <3>1. PICK m \in Nat : InLength(n, m)
      BY <2>11, Zenon DEF Framed
    <3> DEFINE y == EncodedLength[m]
    <3>2. y \in Seq(Bytes)
      BY EncodedLengthIs, Zenon
    <3>3. /\ packet.digits = 0 \/ m > 0
          /\ packet.length + packet.multiplier * m = Len(b)
          /\ stream = y \o w
      BY <3>1, Zenon DEF InLength, w, b, r
    <3> HIDE DEF y
    <3>4. (y \o w) \o e = y \o (w \o e)
      BY <3>2, <2>3, <2>7, ConcatAssociative
    <3>5. stream' = y \o (Body(n)' \o Rest(sent, n + 1)')
      BY <2>5, <2>6, <2>10, <3>3, <3>4, Zenon DEF w
    <3>6. packet'.length + packet'.multiplier * m = Len(Body(n)')
      BY <1>2, <2>5, <3>3, Zenon
    <3>7. InLength(n, m)'
      BY <1>2, <3>3, <3>5, <3>6, Zenon DEF InLength, y
    <3> QED
      BY <3>7, Zenon
  <2>12. ASSUME pc = "packet" PROVE stream' = Body(n)' \o Rest(sent, n + 1)'
    BY <2>5, <2>6, <2>10, <2>12, Zenon DEF Framed, b, r
  <2>13. ASSUME pc \in {"body", "dump"} PROVE \E u \in Seq(Bytes) : InBody(n, u)'
    <3>1. PICK u \in Seq(Bytes) : InBody(n, u)
      BY <2>13, Zenon DEF Framed
    <3> DEFINE x == buffer \o stream
    <3>2. x \in Seq(Bytes) /\ x \o e = buffer \o (stream \o e)
      BY <1>3, <2>3, ConcatProperties, ConcatAssociative
    <3>3. Len(u) = dump.total /\ u \o x = w
      BY <3>1, Zenon DEF InBody, w, b, r
    <3> HIDE DEF x
    <3>4. (u \o x) \o e = u \o (x \o e)
      <4>1. u \in Seq(Bytes) /\ x \in Seq(Bytes) /\ e \in Seq(Bytes)
        BY <2>3, <3>2
      <4> QED
        BY <4>1, ConcatAssociative
    <3>5. u \o (buffer' \o stream') = Body(n)' \o Rest(sent, n + 1)'
      BY <1>2, <2>5, <2>6, <2>10, <3>2, <3>3, <3>4, Zenon DEF w
    <3>6. InBody(n, u)'
      BY <1>2, <3>3, <3>5, Zenon DEF InBody
    <3> QED
      BY <3>6, Zenon
  <2>14. pc' = pc /\ pc # "type"
    BY <1>2, <1>9
  <2> HIDE DEF w
  <2> QED
    BY <1>5, <1>6, <2>8, <2>9, <2>11, <2>12, <2>13, <2>14 DEF Framed
<1> QED
  BY <1>7, <1>8, <1>9 DEF TypeOK

\* Before anything was sent, the reader stands at the start.
LEMMA FramedStart ==
  ASSUME sent = <<>>, stream = <<>>, handled = <<>>, pc = "type"
  PROVE  0 \in 0 .. Len(sent) /\ Framed(0)
<1>1. <<>> \in Seq(Packets) /\ Len(<<>>) = 0 /\ 0 \in 0 .. 0
  OBVIOUS
<1>2. Rest(<<>>, 0) = <<>>
  BY <1>1, RestIs
<1>3. SubSeq(<<>>, 1, 0) = <<>>
  BY SubSeqEmpty
<1>4. /\ handled = Fitting[SubSeq(sent, 1, 0)] /\ stream = Rest(sent, 0)
  BY <1>2, <1>3, FittingIs, Zenon
<1> QED
  BY <1>1, <1>4 DEF Framed

\* Every step leaves the reader standing at some packet.
LEMMA FramedStep ==
  ASSUME TypeOK, Digits, Parts, NEW n \in 0 .. Len(sent), Framed(n), [Next]_vars
  PROVE  \E k \in 0 .. Len(sent') : Framed(k)'
<1>0. n \in Nat
  OBVIOUS
<1>a. ASSUME sent' = sent, Framed(n)'
      PROVE  \E k \in 0 .. Len(sent') : Framed(k)'
  BY <1>a
<1>b. ASSUME UNCHANGED <<sent, handled, caller>>, pc' = "failed"
      PROVE  \E k \in 0 .. Len(sent') : Framed(k)'
  BY <1>0, <1>a, <1>b, FramedFail
<1>c. ASSUME UNCHANGED <<sent, stream, pc, caller, packet, buffer, dump, handled>>
      PROVE  \E k \in 0 .. Len(sent') : Framed(k)'
  <2>1. Body(n)' = Body(n) /\ Rest(sent, n)' = Rest(sent, n)
        /\ Rest(sent, n + 1)' = Rest(sent, n + 1)
    BY <1>c, Zenon DEF Body
  <2>2. pc = "length" => \E m \in Nat : InLength(n, m)'
    <3> SUFFICES ASSUME pc = "length" PROVE \E m \in Nat : InLength(n, m)'
      OBVIOUS
    <3>1. PICK m \in Nat : InLength(n, m)
      BY Zenon DEF Framed
    <3>2. InLength(n, m)'
      BY <1>c, <2>1, <3>1, Zenon DEF InLength
    <3> QED
      BY <3>2, Zenon
  <2>3. pc \in {"body", "dump"} => \E u \in Seq(Bytes) : InBody(n, u)'
    <3> SUFFICES ASSUME pc \in {"body", "dump"} PROVE \E u \in Seq(Bytes) : InBody(n, u)'
      OBVIOUS
    <3>1. PICK u \in Seq(Bytes) : InBody(n, u)
      BY Zenon DEF Framed
    <3>2. InBody(n, u)'
      BY <1>c, <2>1, <3>1, Zenon DEF InBody
    <3> QED
      BY <3>2, Zenon
  <2>4. Framed(n)'
    BY <1>c, <2>1, <2>2, <2>3, Zenon DEF Framed
  <2> QED
    BY <1>a, <1>c, <2>4
<1>1. ASSUME NEW d \in 0 .. ReadTime, ReadType(d)
      PROVE  \E k \in 0 .. Len(sent') : Framed(k)'
  BY <1>1, <1>a, FramedType DEF ReadType, Take
<1>2. ASSUME NEW d \in 0 .. ReadTime, ReadNoType(d)
      PROVE  \E k \in 0 .. Len(sent') : Framed(k)'
  BY <1>2, <1>b, <1>c DEF ReadNoType, Nothing, wire, locals, Fail
<1>3. ASSUME NEW d \in 0 .. ReadTime, ReadDigit(d)
      PROVE  \E k \in 0 .. Len(sent') : Framed(k)'
  BY <1>3, <1>a, FramedDigit DEF ReadDigit, Take
<1>4. ASSUME NEW d \in 0 .. ReadTime, ReadNoDigit(d)
      PROVE  \E k \in 0 .. Len(sent') : Framed(k)'
  BY <1>4, <1>b DEF ReadNoDigit, Nothing, wire, Fail
<1>5. ASSUME NEW d \in 0 .. ReadTime, NEW k \in 1 .. BufferSize, RecvSome(k, d)
      PROVE  \E j \in 0 .. Len(sent') : Framed(j)'
  <2>1. sent' = sent
    BY <1>5 DEF RecvSome, Take
  <2>2. Framed(n)'
    BY <1>5, FramedBody, Zenon
  <2> QED
    BY <1>a, <2>1, <2>2, Zenon
<1>6. ASSUME NEW d \in 0 .. ReadTime, RecvNothing(d)
      PROVE  \E k \in 0 .. Len(sent') : Framed(k)'
  <2>1. sent' = sent
    BY <1>6 DEF RecvNothing, Nothing, wire
  <2>2. Framed(n)'
    BY <1>6, FramedBody, Zenon
  <2> QED
    BY <1>a, <2>1, <2>2, Zenon
<1>7. CASE RecvError \/ RefuseLength \/ WrongType
  BY <1>7, <1>b DEF RecvError, RefuseLength, WrongType, Fail, wire
<1>8. CASE ReceivePacket \/ DumpPart
  <2>1. sent' = sent
    BY <1>8 DEF ReceivePacket, DumpPart, wire
  <2>2. Framed(n)'
    BY <1>8, FramedBody, Zenon
  <2> QED
    BY <1>a, <2>1, <2>2, Zenon
<1>9. CASE Handle \/ DumpDone
  BY <1>9, FramedEnd, Zenon
<1>10. CASE Reconnect
  <2>1. sent' = <<>> /\ stream' = <<>> /\ handled' = <<>> /\ pc' = "type"
    BY <1>10 DEF Reconnect
  <2>2. 0 \in 0 .. Len(sent') /\ Framed(0)'
    <3>1. <<>> \in Seq(Packets) /\ Len(<<>>) = 0 /\ 0 \in 0 .. 0
      OBVIOUS
    <3>2. Rest(<<>>, 0) = <<>>
      BY <3>1, RestIs
    <3>3. SubSeq(<<>>, 1, 0) = <<>>
      BY SubSeqEmpty
    <3>4. handled' = Fitting[SubSeq(sent', 1, 0)] /\ stream' = Rest(sent', 0)
      BY <2>1, <3>2, <3>3, FittingIs, Zenon
    <3> QED
      BY <2>1, <3>1, <3>4 DEF Framed
  <2> QED
    BY <2>2, Zenon
<1>11. CASE BrokerSend
  BY <1>11, FramedSend, Zenon
<1>12. CASE BrokerClose \/ UNCHANGED vars
  BY <1>12, <1>c DEF BrokerClose, vars, wire, locals
<1> QED
  BY <1>1, <1>2, <1>3, <1>4, <1>5, <1>6, <1>7, <1>8, <1>9, <1>10, <1>11, <1>12 DEF Next

-----------------------------------------------------------------------------
(* Connections given up.                                                   *)

\* A broker that keeps to the protocol kept to it before its last packet.
LEMMA ProperBefore ==
  ASSUME TypeOK, BrokerSend, Proper(sent')
  PROVE  Proper(sent)
<1>1. PICK p \in Packets : sent' = Append(sent, p)
  BY DEF BrokerSend
<1>2. sent \in Seq(Packets) /\ Len(sent) \in Nat
  BY DEF TypeOK
<1>3. /\ Len(sent') = Len(sent) + 1 /\ sent' \in Seq(Packets)
      /\ \A i \in 1 .. Len(sent) : sent'[i] = sent[i]
  BY <1>1, <1>2, AppendProperties
<1>4. ASSUME NEW i \in DOMAIN sent PROVE i \in DOMAIN sent' /\ sent'[i] = sent[i]
  BY <1>2, <1>3
<1> QED
  BY <1>4, Zenon DEF Proper

\* The packet the reader is at, from such a broker.
LEMMA ProperNext ==
  ASSUME TypeOK, Proper(sent), NEW n \in 0 .. Len(sent), n < Len(sent)
  PROVE  /\ sent[n + 1].type \in ValidTypes
         /\ n = 0 => sent[n + 1].type = CONNACK /\ Fits(Len(Body(n)))
         /\ Len(Body(n)) < Lengths[MaxDigits]
<1>1. sent \in Seq(Packets) /\ n \in Nat /\ n + 1 \in DOMAIN sent
      /\ BufferSize \in Nat /\ BufferSize < Lengths[MaxDigits]
  BY Constants DEF TypeOK
<1>2. Len(Body(n)) \in Nat /\ Lengths[MaxDigits] \in Nat
  BY NextIs, LengthsGrow, Constants
<1>3. /\ sent[n + 1].type \in ValidTypes /\ (sent[n + 1].type = CONNACK <=> n + 1 = 1)
      /\ Len(Body(n)) < (IF n + 1 = 1 THEN BufferSize + 1 ELSE Lengths[MaxDigits])
  BY <1>1, Zenon DEF Proper, Body
<1> DEFINE l == Len(Body(n))
           m == Lengths[MaxDigits]
           t == sent[n + 1].type
<1> HIDE DEF l, m, t
<1>4. /\ BufferSize \in Nat /\ BufferSize < m /\ l \in Nat /\ m \in Nat /\ n \in Nat
      /\ t = CONNACK <=> n + 1 = 1
      /\ l < (IF n + 1 = 1 THEN BufferSize + 1 ELSE m)
  BY <1>1, <1>2, <1>3, Zenon DEF l, m, t
<1>5. (n = 0 => t = CONNACK /\ l <= BufferSize) /\ l < m
  BY <1>4
<1> QED
  BY <1>3, <1>5, Zenon DEF l, m, t, Fits

\* Such a broker's lengths are not refused.
LEMMA LengthFits ==
  ASSUME TypeOK, Digits, NEW n \in 0 .. Len(sent), Framed(n), Proper(sent), pc = "length"
  PROVE  ~TooManyDigits
<1>1. PICK m \in Nat : InLength(n, m)
  BY DEF Framed
<1> DEFINE l == packet.length
           q == packet.multiplier
           k == packet.digits
           z == Lengths[MaxDigits]
           y == Lengths[MaxDigits - 1]
           c == Lengths[k]
           b == Len(Body(n))
<1>2. l \in Nat /\ q \in Nat /\ k \in Nat /\ k <= MaxDigits /\ q = c /\ MaxDigits \in Nat \ {0}
  BY Constants DEF TypeOK, Digits
<1>3. (k = 0 \/ m > 0) /\ l + q * m = b
  BY <1>1, Zenon DEF InLength
<1>4. n < Len(sent)
  BY DEF Framed
<1>5. b < z /\ b \in Nat
  BY <1>4, ProperNext, NextIs, Zenon
<1>6. z \in Nat /\ y \in Nat /\ c \in Nat
  BY <1>2, LengthsGrow
<1>7. k \in 0 .. (MaxDigits - 1) - 1 => c < y
  BY <1>2, LengthsGrow
<1>8. TooManyDigits <=> q > y
  BY Zenon DEF TooManyDigits
<1>9. k = MaxDigits - 1 => c = y
  OBVIOUS
<1>10. k = MaxDigits => c = z
  OBVIOUS
<1> HIDE DEF l, q, k, z, y, c, b
<1>11. ASSUME q > y PROVE FALSE
  <2>1. k = MaxDigits
    BY <1>2, <1>6, <1>7, <1>9, <1>11
  <2>2. q = z /\ m >= 1
    BY <1>2, <1>3, <1>10, <2>1
  <2>3. l + q * m >= q
    <3>1. q * m >= q
      BY <1>2, <2>2
    <3> QED
      BY <1>2, <2>2, <3>1
  <2> QED
    BY <1>2, <1>3, <1>5, <1>6, <2>2, <2>3
<1> QED
  BY <1>8, <1>11, Zenon

\* A read that makes the reader give up because it is late is late.
LEMMA LateRead ==
  ASSUME TypeOK, Timed, NEW d \in 0 .. ReadTime, NEW k \in 1 .. BufferSize, RecvSome(k, d),
         pc' = "failed"
  PROVE  spent' >= dump'.budget /\ exact' # NoExact
<1>1. /\ pc \in {"body", "dump"} /\ Len(buffer) < exact.want /\ Elapse(d)
      /\ spent' = spent + d /\ exact' = exact /\ dump' = dump
  BY DEF RecvSome, Take, locals
<1>2. Elapsed(clock', exact.entry) >= exact.patience
  <2>1. pc # "failed"
    BY <1>1
  <2> QED
    BY <2>1, Zenon DEF RecvSome
<1>3. spent' >= dump.budget
  BY <1>1, <1>2, ReadTimes
<1>4. exact # NoExact
  <2>1. Len(buffer) \in Nat /\ exact.want \in Nat
    BY DEF TypeOK
  <2>2. exact.want # 0
    BY <1>1, <2>1
  <2>3. NoExact.want = 0
    BY DEF NoExact
  <2> QED
    BY <2>2, <2>3, Zenon
<1> QED
  BY <1>1, <1>3, <1>4

\* Every step that gives a connection up has its reason.
LEMMA LateStep ==
  ASSUME TypeOK, Digits, Parts, Timed, NEW n \in 0 .. Len(sent), Framed(n), GivenUpOnlyLate,
         [Next]_vars
  PROVE  GivenUpOnlyLate'
<1>a. ASSUME pc' # "failed" \/ stalled' = TRUE
      PROVE  GivenUpOnlyLate'
  BY <1>a, Zenon DEF GivenUpOnlyLate
<1>b. ASSUME sent' = sent, ~Proper(sent)
      PROVE  GivenUpOnlyLate'
  BY <1>b, Zenon DEF GivenUpOnlyLate
<1>c. ASSUME UNCHANGED <<pc, stalled, spent, dump, exact>>, Proper(sent') => Proper(sent)
      PROVE  GivenUpOnlyLate'
  BY <1>c, Zenon DEF GivenUpOnlyLate
<1>d. ASSUME spent' >= dump'.budget /\ exact' # NoExact
      PROVE  GivenUpOnlyLate'
  BY <1>d, Zenon DEF GivenUpOnlyLate
<1>1. ASSUME NEW d \in 0 .. ReadTime, ReadType(d)
      PROVE  GivenUpOnlyLate'
  <2>1. sent' = sent
    BY <1>1 DEF ReadType, Take
  <2>2. CASE Head(stream) \in ValidTypes
    <3>1. pc' = "length"
      BY <1>1, <2>2 DEF ReadType
    <3> QED
      BY <3>1, <1>a
  <2>3. CASE Head(stream) \notin ValidTypes
    <3>1. n < Len(sent) /\ Head(stream) = sent[n + 1].type
      BY <1>1, FramedType
    <3>2. ~Proper(sent)
      BY <2>3, <3>1, ProperNext, Zenon
    <3> QED
      BY <1>b, <2>1, <3>2, Zenon
  <2> QED
    BY <2>2, <2>3
<1>2. ASSUME NEW d \in 0 .. ReadTime, ReadNoType(d)
      PROVE  GivenUpOnlyLate'
  BY <1>2, <1>a DEF ReadNoType
<1>3. ASSUME NEW d \in 0 .. ReadTime, ReadDigit(d)
      PROVE  GivenUpOnlyLate'
  BY <1>3, <1>a, FramedDigit
<1>4. ASSUME NEW d \in 0 .. ReadTime, ReadNoDigit(d)
      PROVE  GivenUpOnlyLate'
  BY <1>4, <1>a DEF ReadNoDigit
<1>5. ASSUME NEW d \in 0 .. ReadTime, NEW k \in 1 .. BufferSize, RecvSome(k, d)
      PROVE  GivenUpOnlyLate'
  BY <1>5, <1>a, <1>d, LateRead, Zenon
<1>6. ASSUME NEW d \in 0 .. ReadTime, RecvNothing(d)
      PROVE  GivenUpOnlyLate'
  BY <1>6, <1>a DEF RecvNothing
<1>7. CASE RecvError
  BY <1>7, <1>a DEF RecvError
<1>8. CASE RefuseLength
  <2>1. pc = "length" /\ TooManyDigits /\ sent' = sent
    BY <1>8 DEF RefuseLength, wire
  <2>2. ~Proper(sent)
    BY <2>1, LengthFits, Zenon
  <2> QED
    BY <1>b, <2>1, <2>2, Zenon
<1>9. CASE WrongType
  <2>1. pc = "packet" /\ caller = "connect" /\ packet.type # CONNACK /\ sent' = sent
    BY <1>9 DEF WrongType, wire
  <2>2. n = 0 /\ n < Len(sent) /\ packet.type = sent[n + 1].type
    BY <2>1 DEF Framed
  <2>3. ~Proper(sent)
    BY <2>1, <2>2, ProperNext, Zenon
  <2> QED
    BY <1>b, <2>1, <2>3, Zenon
<1>10. CASE ReceivePacket \/ Handle \/ Reconnect
  BY <1>10, <1>a DEF ReceivePacket, Handle, NextPacket, Reconnect
<1>11. CASE DumpPart
  <2>1. CASE Elapsed(clock, dump.entry) < dump.budget
    <3>1. pc' # "failed"
      BY <1>11, <2>1 DEF DumpPart
    <3> QED
      BY <3>1, <1>a
  <2>2. CASE ~(Elapsed(clock, dump.entry) < dump.budget)
    <3>1. pc = "dump" /\ UNCHANGED <<exact, dump, spent>>
      BY <1>11, <2>2 DEF DumpPart, Fail, locals
    <3>2. Elapsed(clock, dump.entry) = spent
      BY <3>1, SpentTime
    <3>3. spent \in Nat /\ dump.budget \in Nat
      BY DEF TypeOK
    <3>4. spent' >= dump'.budget
      BY <2>2, <3>1, <3>2, <3>3
    <3>5. exact.want > 0 /\ NoExact.want = 0
      BY <3>1 DEF Parts, NoExact
    <3>6. exact' # NoExact
      <4>1. ~(0 > 0)
        OBVIOUS
      <4> QED
        BY <3>1, <3>5, <4>1, Zenon
    <3> QED
      BY <1>d, <3>4, <3>6
  <2> QED
    BY <2>1, <2>2
<1>12. CASE DumpDone
  <2>1. pc = "dump" /\ Len(buffer) = exact.want /\ Dumped >= packet.length
    BY <1>12 DEF DumpDone
  <2>2. ~Fits(packet.length) /\ Dumped <= packet.length
    BY <2>1, Zenon DEF Parts
  <2>3. Dumped = packet.length
    <3>1. Dumped \in Nat /\ packet.length \in Nat
      BY DEF Dumped, TypeOK
    <3> QED
      BY <2>1, <2>2, <3>1
  <2>4. CASE caller = "loop"
    <3>1. pc' = "type"
      BY <1>12, <2>3, <2>4 DEF DumpDone, NextPacket
    <3> QED
      BY <3>1, <1>a
  <2>5. CASE caller # "loop"
    <3>1. caller = "connect"
      BY <2>5 DEF TypeOK
    <3>2. n = 0 /\ n < Len(sent) /\ packet.length = Len(Body(n))
      BY <2>1, <3>1 DEF Framed
    <3>3. ~Proper(sent)
      BY <2>2, <3>2, ProperNext, Zenon
    <3>4. sent' = sent
      BY <1>12, <2>5 DEF DumpDone, wire
    <3> QED
      BY <1>b, <3>3, <3>4, Zenon
  <2> QED
    BY <2>4, <2>5
<1>13. CASE BrokerSend
  <2>1. UNCHANGED <<pc, stalled, spent, dump, exact>>
    BY <1>13 DEF BrokerSend, locals
  <2> QED
    BY <1>13, <1>c, <2>1, ProperBefore
<1>14. CASE BrokerClose \/ UNCHANGED vars
  <2>1. UNCHANGED <<pc, stalled, spent, dump, exact, sent>>
    BY <1>14 DEF BrokerClose, vars, wire, locals
  <2> QED
    BY <1>c, <2>1, Zenon
<1> QED
  BY <1>1, <1>2, <1>3, <1>4, <1>5, <1>6, <1>7, <1>8, <1>9, <1>10, <1>11, <1>12, <1>13, <1>14
     DEF Next

-----------------------------------------------------------------------------
(* The theorems.                                                           *)

\* What every step keeps.  FramedHere names the packet the reader stands at.
FramedHere == \E n \in 0 .. Len(sent) : Framed(n)
IInv == TypeOK /\ Digits /\ Parts /\ Timed /\ FramedHere /\ GivenUpOnlyLate

\* It holds of a fresh connection.
LEMMA InvInit ==
  ASSUME Init
  PROVE  IInv
<1>1. /\ sent = <<>> /\ stream = <<>> /\ open = TRUE /\ pc = "type" /\ caller = "connect"
      /\ clock \in Ticks /\ packet = NoPacket /\ buffer = <<>> /\ connEntry = clock
      /\ exact = NoExact /\ dump = NoDump /\ handled = <<>> /\ spent = 0 /\ stalled = FALSE
  BY DEF Init, Ticks
<1>2. <<>> \in Seq(Bytes) /\ Len(<<>>) = 0
      /\ <<>> \in Seq(Packets) /\ <<>> \in Seq([type : Bytes, body : Seq(Bytes)])
  OBVIOUS
<1>3. open \in BOOLEAN /\ stalled \in BOOLEAN
  BY <1>1, Zenon
<1>4. BufferSize \in Nat
  BY Constants
<1>5. TypeOK
  BY <1>1, <1>2, <1>3, <1>4, EmptyTyped DEF TypeOK, Ticks
<1>6. Digits /\ Parts
  BY <1>1 DEF Digits, Parts
<1>7. Timed
  <2>1. dump.budget = 0
    BY <1>1 DEF NoDump
  <2> QED
    BY <1>1, <2>1, Constants DEF Timed, GivenUpInTime
<1>8. FramedHere
  BY <1>1, FramedStart, Zenon DEF FramedHere
<1>9. GivenUpOnlyLate
  BY <1>1 DEF GivenUpOnlyLate
<1> QED
  BY <1>5, <1>6, <1>7, <1>8, <1>9 DEF IInv

\* Every step keeps it.
LEMMA InvStep ==
  ASSUME IInv, [Next]_vars
  PROVE  IInv'
<1>1. TypeOK /\ Digits /\ Parts /\ Timed /\ GivenUpOnlyLate
  BY DEF IInv
<1>2. PICK n \in 0 .. Len(sent) : Framed(n)
  BY DEF IInv, FramedHere
<1>3. TypeOK' /\ Digits'
  BY <1>1, TypeStep
<1>4. Parts'
  BY <1>1, PartsStep
<1>5. Timed'
  BY <1>1, TimedStep
<1>6. FramedHere'
  <2>1. \E k \in 0 .. Len(sent') : Framed(k)'
    BY <1>1, <1>2, FramedStep, Zenon
  <2> QED
    BY <2>1, Zenon DEF FramedHere
<1>7. GivenUpOnlyLate'
  BY <1>1, <1>2, LateStep
<1> QED
  BY <1>3, <1>4, <1>5, <1>6, <1>7 DEF IInv

\* It is an invariant.
THEOREM ReceiveInvariance == Spec => []IInv
<1>1. Init => IInv
  BY InvInit
<1>2. IInv /\ [Next]_vars => IInv'
  BY InvStep
<1> QED
  BY <1>1, <1>2, PTL DEF Spec

\* Every variable stays in its range: the remaining length, its multiplier
\* and the buffer too.
THEOREM ReceiveTypes == Spec => []TypeOK
<1>1. IInv => TypeOK
  BY DEF IInv
<1> QED
  BY <1>1, ReceiveInvariance, PTL

\* The handlers get the packets that fit the buffer, whole and in order, however
\* the bytes come in (recvExact, discardPacket, core_mqtt.c:685-820).
THEOREM ReceiveFramesKept == Spec => []FramesKept
<1>1. IInv => FramesKept
  <2> SUFFICES ASSUME IInv PROVE FramesKept
    OBVIOUS
  <2>1. PICK n \in 0 .. Len(sent) : Framed(n)
    BY DEF IInv, FramedHere
  <2>2. /\ handled = Fitting[SubSeq(sent, 1, n)]
        /\ pc = "type" => stream = EncodedAll[SubSeq(sent, n + 1, Len(sent))]
    BY <2>1, Zenon DEF Framed, Rest
  <2> QED
    BY <2>2, Zenon DEF FramesKept
<1> QED
  BY <1>1, ReceiveInvariance, PTL

\* A packet's time is neither overrun, over parts and a wrapping clock, nor
\* cut short: from a broker that keeps to the protocol, only a read that brought
\* nothing and a packet that came too slowly end a connection.
THEOREM ReceiveTimeKept == Spec => []TimeKept
<1>1. IInv => TimeKept
  BY DEF IInv, Timed, TimeKept
<1> QED
  BY <1>1, ReceiveInvariance, PTL
=============================================================================
