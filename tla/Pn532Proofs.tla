---------------------------- MODULE Pn532Proofs ----------------------------
(***************************************************************************)
(* What the driver makes of a frame of which the bus disturbed no byte or  *)
(* one: the data that was sent, or nothing.  For every width of a byte and *)
(* every data that fits a frame.                                           *)
(***************************************************************************)
EXTENDS Pn532, DataLemmas

----------------------------------------------------------------------------
(* Totals. *)

\* f holds the totals of the first elements of s, as far as n.
Sums(f, s, n) ==
    /\ f \in [0 .. n -> Int] /\ f[0] = 0
    /\ \A k \in 1 .. n : f[k] = f[k - 1] + s[k]

\* Such totals exist.
LEMMA SumsExist ==
    ASSUME NEW s \in Seq(Int)
    PROVE  \A n \in 0 .. Len(s) : \E f : Sums(f, s, n)
<1> DEFINE T == {n \in 0 .. Len(s) : ~\E f : Sums(f, s, n)}
<1>0. Len(s) \in Nat /\ \A k \in 1 .. Len(s) : s[k] \in Int
    BY LenProperties, ElementOfSeq
<1>1. SUFFICES ASSUME T # {} PROVE FALSE
    OBVIOUS
<1>2. PICK n \in T : \A m \in T : n <= m
    <2>1. T \subseteq Nat
        BY <1>0
    <2> HIDE DEF T
    <2> QED BY <1>1, <2>1, SmallestExists
<1>3. n # 0
    <2>1. Sums([k \in 0 .. 0 |-> 0], s, 0)
        BY DEF Sums
    <2> QED BY <2>1
<1>4. n - 1 \in 0 .. Len(s) /\ n \in 1 .. Len(s) /\ n - 1 \notin T
    <2>1. n - 1 \in 0 .. Len(s) /\ n \in 1 .. Len(s) /\ ~(n <= n - 1)
        BY <1>0, <1>3
    <2> HIDE DEF T
    <2> QED BY <1>2, <2>1
<1>5. PICK f : Sums(f, s, n - 1)
    BY <1>4
<1> DEFINE g == [k \in 0 .. n |-> IF k = n THEN f[n - 1] + s[n] ELSE f[k]]
<1>6. f[n - 1] \in Int /\ s[n] \in Int /\ \A k \in 0 .. n - 1 : f[k] \in Int
    BY <1>0, <1>4, <1>5 DEF Sums
<1>7. g \in [0 .. n -> Int] /\ g[0] = 0
    BY <1>4, <1>5, <1>6 DEF Sums
<1>8. ASSUME NEW k \in 1 .. n PROVE g[k] = g[k - 1] + s[k]
    <2>1. k \in 0 .. n /\ k - 1 \in 0 .. n /\ k - 1 # n
        BY <1>0, <1>4
    <2>2. g[k - 1] = f[k - 1]
        BY <2>1
    <2>3. CASE k = n
        BY <2>1, <2>2, <2>3
    <2>4. CASE k # n
        <3>1. k \in 1 .. n - 1
            BY <1>0, <1>4, <2>4
        <3>2. g[k] = f[k] /\ f[k] = f[k - 1] + s[k]
            BY <1>5, <2>1, <2>4, <3>1 DEF Sums
        <3> QED BY <2>2, <3>2
    <2> QED BY <2>3, <2>4
<1>9. Sums(g, s, n)
    <2> HIDE DEF g
    <2>1. g \in [0 .. n -> Int] /\ g[0] = 0
        BY <1>7
    <2>2. \A k \in 1 .. n : g[k] = g[k - 1] + s[k]
        BY <1>8
    <2> QED BY <2>1, <2>2 DEF Sums
<1> QED BY <1>2, <1>9

\* Total is the last of them.
LEMMA TotalFacts ==
    ASSUME NEW s \in Seq(Int)
    PROVE  \E f : Sums(f, s, Len(s)) /\ Total(s) = f[Len(s)]
<1> DEFINE Is(f) == f = [k \in 0 .. Len(s) |-> IF k = 0 THEN 0 ELSE f[k - 1] + s[k]]
           g == CHOOSE f : Is(f)
<1>0. Len(s) \in Nat
    BY LenProperties
<1>1. PICK f : Sums(f, s, Len(s))
    BY <1>0, SumsExist
<1>2. Is(f)
    BY <1>0, <1>1 DEF Sums
<1>3. Is(g)
    <2> HIDE DEF Is
    <2> QED BY <1>2
<1>4. Total(s) = g[Len(s)]
    BY DEF Total
<1> DEFINE T == {k \in 0 .. Len(s) : g[k] # f[k]}
<1>5. T = {}
    <2>1. SUFFICES ASSUME T # {} PROVE FALSE
        OBVIOUS
    <2>2. T \subseteq Nat
        BY <1>0
    <2>3. PICK k \in T : \A m \in T : k <= m
        <3> HIDE DEF T
        <3> QED BY <2>1, <2>2, SmallestExists
    <2> HIDE DEF g
    <2>4. k # 0
        BY <1>0, <1>1, <1>3 DEF Sums
    <2>5. k - 1 \in 0 .. Len(s) /\ k \in 1 .. Len(s) /\ g[k - 1] = f[k - 1]
        BY <1>0, <2>3, <2>4
    <2>6. g[k] = g[k - 1] + s[k] /\ f[k] = f[k - 1] + s[k]
        BY <1>1, <1>3, <2>5 DEF Sums
    <2> QED BY <2>3, <2>5, <2>6
<1>6. g[Len(s)] = f[Len(s)]
    BY <1>0, <1>5
<1> QED BY <1>1, <1>4, <1>6

\* One more element adds its value.
LEMMA TotalAppend ==
    ASSUME NEW s \in Seq(Int), NEW e \in Int
    PROVE  Total(s) \in Int /\ Total(Append(s, e)) = Total(s) + e
<1> DEFINE t == Append(s, e)
<1>1. t \in Seq(Int) /\ Len(s) \in Nat /\ Len(t) = Len(s) + 1 /\ t[Len(s) + 1] = e
      /\ \A k \in 1 .. Len(s) : t[k] = s[k]
    BY AtBack
<1> HIDE DEF t
<1>2. PICK f : Sums(f, s, Len(s)) /\ Total(s) = f[Len(s)]
    BY TotalFacts
<1>3. PICK g : Sums(g, t, Len(t)) /\ Total(t) = g[Len(t)]
    BY <1>1, TotalFacts
<1> DEFINE T == {k \in 0 .. Len(s) : g[k] # f[k]}
<1>4. T = {}
    <2>1. SUFFICES ASSUME T # {} PROVE FALSE
        OBVIOUS
    <2>2. T \subseteq Nat
        BY <1>1
    <2>3. PICK k \in T : \A m \in T : k <= m
        <3> HIDE DEF T
        <3> QED BY <2>1, <2>2, SmallestExists
    <2>4. k # 0
        BY <1>2, <1>3 DEF Sums
    <2>5. k - 1 \in 0 .. Len(s) /\ k \in 1 .. Len(s) /\ k \in 1 .. Len(t) /\ ~(k <= k - 1)
        BY <1>1, <2>4
    <2>5a. g[k - 1] = f[k - 1]
        BY <2>3, <2>5
    <2>6. g[k] = g[k - 1] + s[k] /\ f[k] = f[k - 1] + s[k]
        BY <1>1, <1>2, <1>3, <2>5 DEF Sums
    <2> QED BY <2>3, <2>5a, <2>6
<1>5. g[Len(s)] = f[Len(s)] /\ f[Len(s)] \in Int
    BY <1>1, <1>2, <1>4 DEF Sums
<1>6. g[Len(s) + 1] = g[Len(s) + 1 - 1] + t[Len(s) + 1]
    <2>1. Len(s) + 1 \in 1 .. Len(t)
        BY <1>1
    <2> QED BY <1>3, <2>1 DEF Sums
<1>7. Len(s) + 1 - 1 = Len(s)
    BY <1>1
<1> QED BY <1>1, <1>2, <1>3, <1>5, <1>6, <1>7 DEF t

\* One element that differs makes as much of a difference.
LEMMA TotalChange ==
    ASSUME NEW s \in Seq(Int), NEW i \in 1 .. Len(s), NEW v \in Int
    PROVE  Total([s EXCEPT ![i] = v]) = Total(s) - s[i] + v
<1> DEFINE t == [s EXCEPT ![i] = v]
<1>1. t \in Seq(Int) /\ Len(s) \in Nat /\ Len(t) = Len(s) /\ t[i] = v /\ s[i] \in Int
      /\ \A k \in 1 .. Len(s) : s[k] \in Int /\ (k # i => t[k] = s[k])
    <2>1. Len(s) \in Nat /\ DOMAIN s = 1 .. Len(s) /\ \A k \in 1 .. Len(s) : s[k] \in Int
        BY LenProperties, ElementOfSeq
    <2>2. t \in Seq(Int) /\ Len(t) = Len(s)
        BY <2>1, ExceptSeq
    <2> QED BY <2>1, <2>2
<1> HIDE DEF t
<1>2. PICK f : Sums(f, s, Len(s)) /\ Total(s) = f[Len(s)]
    BY TotalFacts
<1>3. PICK g : Sums(g, t, Len(t)) /\ Total(t) = g[Len(t)]
    BY <1>1, TotalFacts
<1> DEFINE h(k) == f[k] + (IF k >= i THEN v - s[i] ELSE 0)
           T == {k \in 0 .. Len(s) : g[k] # h(k)}
<1>4. T = {}
    <2>1. SUFFICES ASSUME T # {} PROVE FALSE
        OBVIOUS
    <2>2. T \subseteq Nat
        BY <1>1
    <2>3. PICK k \in T : \A m \in T : k <= m
        <3> HIDE DEF T
        <3> QED BY <2>1, <2>2, SmallestExists
    <2>4. k # 0
        BY <1>2, <1>3 DEF Sums
    <2>5a. k - 1 \in 0 .. Len(s) /\ k \in 1 .. Len(s) /\ k \in 1 .. Len(t) /\ ~(k <= k - 1)
        BY <1>1, <2>4
    <2>5. g[k - 1] = h(k - 1) /\ g[k] # h(k)
        BY <2>3, <2>5a
    <2>6. g[k] = g[k - 1] + t[k] /\ f[k] = f[k - 1] + s[k] /\ f[k - 1] \in Int
        BY <1>2, <1>3, <2>5a DEF Sums
    <2> DEFINE d == v - s[i]
    <2>7. d \in Int /\ k \in Int /\ i \in Int
        BY <1>1, <2>5a
    <2>8. g[k - 1] = f[k - 1] + (IF k - 1 >= i THEN d ELSE 0)
          /\ g[k] # f[k] + (IF k >= i THEN d ELSE 0)
        BY <2>5
    <2> HIDE DEF h, T
    <2>9. CASE k = i
        <3>1. k >= i /\ ~(k - 1 >= i) /\ t[k] = s[k] + d /\ s[k] \in Int
            BY <1>1, <2>7, <2>9
        <3> HIDE DEF d
        <3> QED BY <2>6, <2>7, <2>8, <3>1
    <2>10. CASE k # i
        <3>1. t[k] = s[k] /\ s[k] \in Int /\ (k >= i <=> k - 1 >= i)
            BY <1>1, <2>5a, <2>10
        <3> HIDE DEF d
        <3> QED BY <2>6, <2>7, <2>8, <3>1
    <2> QED BY <2>9, <2>10
<1>5. g[Len(s)] = h(Len(s)) /\ f[Len(s)] \in Int /\ Len(s) >= i
    <2>1. Len(s) \in 0 .. Len(s) /\ Len(s) >= i
        BY <1>1
    <2> QED BY <1>2, <1>4, <2>1 DEF Sums
<1> QED BY <1>1, <1>2, <1>3, <1>5 DEF t

----------------------------------------------------------------------------
(* Remainders. *)

\* Two multiples that are closer than the modulus are the same.
LEMMA SameRemainder ==
    ASSUME NEW m \in Nat \ {0}, NEW x \in Int, NEW y \in Int,
           x % m = 0, y % m = 0, x - y < m, y - x < m
    PROVE  x = y
<1>1. x = m * (x \div m) /\ y = m * (y \div m) /\ x \div m \in Int /\ y \div m \in Int
    OBVIOUS
<1> DEFINE p == x \div m
           q == y \div m
<1>2. p \in Int /\ q \in Int /\ x = m * p /\ y = m * q
    BY <1>1
<1> HIDE DEF p, q
<1>3. m * p - m * q < m /\ m * q - m * p < m
    BY <1>2
<1>4. p - q < 1 /\ q - p < 1
    BY <1>2, <1>3
<1> QED BY <1>2, <1>4

\* The remainder is what is over the largest multiple.
LEMMA WithoutRemainder ==
    ASSUME NEW m \in Nat \ {0}, NEW x \in Int
    PROVE  (x - (x % m)) % m = 0 /\ x % m \in 0 .. m - 1
<1>1. x % m \in 0 .. m - 1
    OBVIOUS
<1>2. x = (m * (x \div m)) + (x % m) /\ x \div m \in Int
    OBVIOUS
<1> DEFINE q == x \div m
<1>3. q \in Int /\ x - (x % m) = m * q
    BY <1>1, <1>2
<1> HIDE DEF q
<1>4. (m * q) % m = 0
    BY <1>3
<1> QED BY <1>1, <1>3, <1>4

----------------------------------------------------------------------------
(* A frame, byte by byte. *)

\* What data a frame can carry without being taken for the longest one.
Payloads == {data \in Seq(Bytes) : Len(data) > 0 /\ Len(data) < Modulus - 1}

DataSum(data) == Modulus - 1 - ((StartCode + Total(data)) % Modulus)

\* A byte is a number, and so is a total of bytes.
LEMMA ByteFacts ==
    ASSUME NEW data \in Seq(Bytes)
    PROVE  /\ Modulus \in Nat \ {0} /\ StartCode \in Bytes /\ 0 \in Bytes
           /\ data \in Seq(Int) /\ Total(data) \in Int
           /\ Len(data) \in Nat /\ DOMAIN data = 1 .. Len(data)
           /\ \A i \in 1 .. Len(data) : data[i] \in Bytes
<1>1. Modulus \in Nat \ {0} /\ StartCode \in Bytes /\ 0 \in Bytes
    BY ByteAssumption DEF StartCode, Bytes
<1>2. Len(data) \in Nat /\ DOMAIN data = 1 .. Len(data)
      /\ \A i \in 1 .. Len(data) : data[i] \in Bytes
    BY LenProperties, ElementOfSeq
<1>3. Bytes \subseteq Int
    BY <1>1 DEF Bytes
<1>4. data \in Seq(Int)
    <2>1. data \in [1 .. Len(data) -> Bytes]
        BY LenProperties
    <2>2. data \in [1 .. Len(data) -> Int]
        BY <1>3, <2>1
    <2> QED BY <1>2, <2>2
<1>5. Total(data) \in Int
    BY <1>4, TotalAppend
<1> QED BY <1>1, <1>2, <1>4, <1>5

\* Both checksums make up for what they are checksums of.
LEMMA ChecksumFacts ==
    ASSUME NEW data \in Payloads
    PROVE  /\ Len(data) \in Bytes
           /\ Complement(Len(data)) \in Bytes
           /\ (Len(data) + Complement(Len(data))) % Modulus = 0
           /\ DataSum(data) \in Bytes
           /\ (Total(data) + DataSum(data)) % Modulus = 0
<1> DEFINE n == Len(data)
           t == Total(data)
           m == Modulus
<1>1. data \in Seq(Bytes) /\ n > 0 /\ n < m - 1
    BY DEF Payloads
<1>2. m \in Nat \ {0} /\ n \in Nat /\ t \in Int /\ StartCode = m - 1 /\ Bytes = 0 .. m - 1
    BY <1>1, ByteFacts DEF StartCode, Bytes
<1> HIDE DEF n, t, m
<1>3. n \in 0 .. m - 1 /\ m - n \in 0 .. m - 1
    BY <1>1, <1>2
<1>4. (m - n) % m = m - n
    BY <1>2, <1>3
<1>5. m % m = 0 /\ n + (m - n) = m
    BY <1>2
<1>6. Complement(n) \in 0 .. m - 1 /\ (n + Complement(n)) % m = 0
    BY <1>3, <1>4, <1>5 DEF Complement, m
<1> DEFINE x == m - 1 + t
           r == x % m
<1>7. x \in Int /\ r \in 0 .. m - 1 /\ (x - r) % m = 0
    <2>1. x \in Int
        BY <1>2
    <2> HIDE DEF x
    <2> QED BY <1>2, <2>1, WithoutRemainder
<1>8. DataSum(data) = m - 1 - r
    BY <1>2 DEF DataSum, m, t
<1>9. t + (m - 1 - r) = x - r /\ m - 1 - r \in 0 .. m - 1
    BY <1>2, <1>7
<1> QED BY <1>2, <1>3, <1>6, <1>7, <1>8, <1>9 DEF n, t, m

\* Where everything is in a frame.
LEMMA FrameFacts ==
    ASSUME NEW data \in Payloads
    PROVE  /\ Frame(data) \in Seq(Bytes) /\ Len(Frame(data)) = Len(data) + 7
           /\ Frame(data)[1] = 0 /\ Frame(data)[2] = 0 /\ Frame(data)[3] = StartCode
           /\ Frame(data)[4] = Len(data) /\ Frame(data)[5] = Complement(Len(data))
           /\ \A i \in 1 .. Len(data) : Frame(data)[5 + i] = data[i]
           /\ Frame(data)[Len(data) + 6] = DataSum(data)
<1> DEFINE n == Len(data)
           head == <<0, 0, StartCode, n, Complement(n)>>
           tail == <<DataSum(data), 0>>
<1>1. data \in Seq(Bytes)
    BY DEF Payloads
<1>2. n \in Nat /\ StartCode \in Bytes /\ 0 \in Bytes
    BY <1>1, ByteFacts
<1>3. n \in Bytes /\ Complement(n) \in Bytes /\ DataSum(data) \in Bytes
    BY ChecksumFacts
<1>4. /\ head \in Seq(Bytes) /\ Len(head) = 5
      /\ head[1] = 0 /\ head[2] = 0 /\ head[3] = StartCode /\ head[4] = n
      /\ head[5] = Complement(n)
    <2> HIDE DEF n
    <2> QED BY <1>2, <1>3
<1>5. /\ tail \in Seq(Bytes) /\ Len(tail) = 2 /\ tail[1] = DataSum(data)
    BY <1>2, <1>3
<1>6. Frame(data) = head \o data \o tail
    BY DEF Frame, DataSum
<1> HIDE DEF head, tail
<1> DEFINE front == head \o data
<1>7. /\ front \in Seq(Bytes) /\ Len(front) = 5 + n
      /\ \A i \in 1 .. 5 + n : front[i] = IF i <= 5 THEN head[i] ELSE data[i - 5]
    <2>1. /\ front \in Seq(Bytes) /\ Len(front) = Len(head) + n
          /\ \A i \in 1 .. Len(head) + n :
                front[i] = IF i <= Len(head) THEN head[i] ELSE data[i - Len(head)]
        BY <1>1, <1>4, ConcatProperties
    <2> HIDE DEF front, n
    <2> QED BY <1>4, <2>1
<1> HIDE DEF front
<1>8. /\ front \o tail \in Seq(Bytes) /\ Len(front \o tail) = 5 + n + 2
      /\ \A i \in 1 .. 5 + n + 2 :
            (front \o tail)[i] = IF i <= 5 + n THEN front[i] ELSE tail[i - (5 + n)]
    <2> DEFINE all == front \o tail
    <2>1. /\ all \in Seq(Bytes) /\ Len(all) = Len(front) + Len(tail)
          /\ \A i \in 1 .. Len(front) + Len(tail) :
                all[i] = IF i <= Len(front) THEN front[i] ELSE tail[i - Len(front)]
        BY <1>5, <1>7, ConcatProperties
    <2> HIDE DEF all, n
    <2>2. Len(front) = 5 + n /\ Len(tail) = 2
        BY <1>5, <1>7
    <2>3. /\ all \in Seq(Bytes) /\ Len(all) = 5 + n + 2
          /\ \A i \in 1 .. 5 + n + 2 :
                all[i] = IF i <= 5 + n THEN front[i] ELSE tail[i - (5 + n)]
        BY <2>1, <2>2
    <2> QED BY <2>3 DEF all
<1>9. Frame(data) = front \o tail
    BY <1>6 DEF front
<1> DEFINE f == Frame(data)
<1>10. /\ f \in Seq(Bytes) /\ Len(f) = 5 + n + 2
       /\ \A i \in 1 .. 5 + n + 2 : f[i] = IF i <= 5 + n THEN front[i] ELSE tail[i - (5 + n)]
    BY <1>8, <1>9
<1> HIDE DEF f, n
<1>11. \A i \in 1 .. 5 + n : f[i] = IF i <= 5 THEN head[i] ELSE data[i - 5]
    <2>1. \A i \in 1 .. 5 + n : i \in 1 .. 5 + n + 2 /\ i <= 5 + n
        BY <1>2
    <2> QED BY <1>7, <1>10, <2>1
<1>12. f[1] = 0 /\ f[2] = 0 /\ f[3] = StartCode /\ f[4] = n /\ f[5] = Complement(n)
    <2>1. {1, 2, 3, 4, 5} \subseteq 1 .. 5 + n
        BY <1>2
    <2> QED BY <1>4, <1>11, <2>1
<1>13. \A i \in 1 .. n : f[5 + i] = data[i]
    <2>1. \A i \in 1 .. n : 5 + i \in 1 .. 5 + n /\ ~(5 + i <= 5) /\ 5 + i - 5 = i
        BY <1>2
    <2> QED BY <1>11, <2>1
<1>14. f[n + 6] = DataSum(data)
    <2>1. n + 6 \in 1 .. 5 + n + 2 /\ ~(n + 6 <= 5 + n) /\ (n + 6) - (5 + n) = 1
        BY <1>2
    <2>2. f[n + 6] = tail[(n + 6) - (5 + n)]
        BY <1>10, <2>1
    <2> QED BY <1>5, <2>1, <2>2
<1>15. Len(f) = n + 7
    BY <1>2, <1>10
<1> QED BY <1>10, <1>12, <1>13, <1>14, <1>15 DEF f, n

----------------------------------------------------------------------------
(* What is read. *)

\* A disturbed frame differs from it in one place at most.
LEMMA NoisyFacts ==
    ASSUME NEW data \in Payloads, NEW b \in Noisy(Frame(data))
    PROVE  /\ b \in Seq(Bytes) /\ Len(b) = Len(data) + 7
           /\ \E i \in 1 .. Len(data) + 7, v \in Bytes :
                    b = [Frame(data) EXCEPT ![i] = v]
<1> DEFINE f == Frame(data)
<1>1. f \in Seq(Bytes) /\ Len(f) = Len(data) + 7 /\ f[1] = 0
    BY FrameFacts
<1>2. Len(data) \in Nat /\ 0 \in Bytes /\ DOMAIN f = 1 .. Len(data) + 7
    <2>1. data \in Seq(Bytes)
        BY DEF Payloads
    <2> QED BY <1>1, <2>1, ByteFacts
<1>3. PICK i \in 1 .. Len(data) + 7, v \in Bytes : b = [f EXCEPT ![i] = v]
    <2>1. CASE b = f
        <3>1. f \in [1 .. Len(data) + 7 -> Bytes]
            BY <1>1, LenProperties
        <3> HIDE DEF f
        <3>2. f = [f EXCEPT ![1] = 0]
            BY <1>1, <1>2, <3>1
        <3>3. 1 \in 1 .. Len(data) + 7
            BY <1>2
        <3> QED BY <1>2, <2>1, <3>2, <3>3
    <2>2. CASE b # f
        <3> HIDE DEF f
        <3>1. b \in {[f EXCEPT ![i] = v] : i \in DOMAIN f, v \in Bytes}
            BY <2>2 DEF Noisy, f
        <3> QED BY <1>2, <3>1
    <2> QED BY <2>1, <2>2
<1>4. b \in Seq(Bytes) /\ Len(b) = Len(data) + 7
    <2> HIDE DEF f
    <2> QED BY <1>1, <1>3, ExceptSeq
<1> QED BY <1>3, <1>4

\* A frame starts with the first byte that is not zero.
LEMMA StartIs ==
    ASSUME NEW b \in Seq(Bytes), NEW k \in 1 .. Len(b), b[k] # 0,
           \A j \in 1 .. k - 1 : b[j] = 0
    PROVE  Start(b) = k
<1> DEFINE S == {i \in DOMAIN b : b[i] # 0} \cup {Len(b) + 1}
           IsMin(x) == \A y \in S : x <= y
           x == CHOOSE z \in S : IsMin(z)
<1>1. Len(b) \in Nat /\ DOMAIN b = 1 .. Len(b)
    BY LenProperties
<1>2. k \in S /\ IsMin(k)
    BY <1>1
<1>3. x \in S /\ IsMin(x)
    <2> HIDE DEF S, IsMin
    <2> QED BY <1>2
<1>4. Start(b) = x
    BY DEF Start, Min
<1>5. x <= k /\ k <= x /\ x \in Nat
    <2>1. S \subseteq Nat
        BY <1>1
    <2> HIDE DEF S, x
    <2> QED BY <1>2, <1>3, <2>1
<1> HIDE DEF x
<1> QED BY <1>4, <1>5

\* Without its head and tail a frame is the data and its checksum.
LEMMA BodyFacts ==
    ASSUME NEW data \in Payloads
    PROVE  /\ SubSeq(Frame(data), 6, Len(data) + 6) = Append(data, DataSum(data))
           /\ SubSeq(Frame(data), 6, Len(data) + 5) = data
<1> DEFINE n == Len(data)
           f == Frame(data)
           body == SubSeq(f, 6, n + 6)
           inner == SubSeq(f, 6, n + 5)
           full == Append(data, DataSum(data))
<1>1. data \in Seq(Bytes) /\ DataSum(data) \in Bytes
    BY ChecksumFacts DEF Payloads
<1>2. /\ f \in Seq(Bytes) /\ Len(f) = n + 7 /\ f[n + 6] = DataSum(data)
      /\ \A i \in 1 .. n : f[5 + i] = data[i]
    BY FrameFacts
<1>3. n \in Nat /\ \A i \in 1 .. n + 7 : f[i] \in Bytes
    BY <1>1, <1>2, ByteFacts, ElementOfSeq
<1> HIDE DEF f, n
<1>4. /\ body \in Seq(Bytes) /\ Len(body) = n + 1
      /\ \A i \in 1 .. n + 1 : body[i] = f[5 + i]
    <2>1. \A i \in 6 .. n + 6 : f[i] \in Bytes
        BY <1>3
    <2>2. n + 6 \in Int /\ 6 \in Int
        BY <1>3
    <2>3. /\ body \in Seq(Bytes)
          /\ Len(body) = IF 6 <= n + 6 THEN ((n + 6) - 6) + 1 ELSE 0
          /\ \A i \in 1 .. ((n + 6) - 6) + 1 : body[i] = f[6 + (i - 1)]
        BY <2>1, <2>2, SubSeqProperties
    <2> HIDE DEF body
    <2> QED BY <1>3, <2>3
<1>5. /\ inner \in Seq(Bytes) /\ Len(inner) = n
      /\ \A i \in 1 .. n : inner[i] = f[5 + i]
    <2>1. \A i \in 6 .. n + 5 : f[i] \in Bytes
        BY <1>3
    <2>2. n + 5 \in Int /\ 6 \in Int
        BY <1>3
    <2>3. /\ inner \in Seq(Bytes)
          /\ Len(inner) = IF 6 <= n + 5 THEN ((n + 5) - 6) + 1 ELSE 0
          /\ \A i \in 1 .. ((n + 5) - 6) + 1 : inner[i] = f[6 + (i - 1)]
        BY <2>1, <2>2, SubSeqProperties
    <2> HIDE DEF inner
    <2> QED BY <1>3, <2>3
<1>6. /\ full \in Seq(Bytes) /\ Len(full) = n + 1 /\ full[n + 1] = DataSum(data)
      /\ \A i \in 1 .. n : full[i] = data[i]
    BY <1>1, AppendProperties DEF n
<1> HIDE DEF body, inner, full
<1>7. \A i \in 1 .. n + 1 : body[i] = full[i]
    <2>1. \A i \in 1 .. n + 1 : i \in 1 .. n \/ i = n + 1
        BY <1>3
    <2>2. 5 + (n + 1) = n + 6 /\ n + 1 \in 1 .. n + 1
        BY <1>3
    <2>3. body[n + 1] = full[n + 1]
        BY <1>2, <1>4, <1>6, <2>2
    <2>4. \A i \in 1 .. n : i \in 1 .. n + 1
        BY <1>3
    <2> QED BY <1>2, <1>4, <1>6, <2>1, <2>3, <2>4
<1>8. body = full
    BY <1>4, <1>6, <1>7, SeqEqual
<1>9. inner = data
    BY <1>1, <1>2, <1>5, SeqEqual DEF n
<1> QED BY <1>8, <1>9 DEF body, inner, full, f, n

\* What is taken for data passed every test.
LEMMA AcceptedFacts ==
    ASSUME NEW b, ReadFrame(b).parse = "data"
    PROVE  /\ HasStart(b) /\ LengthAgrees(b) /\ FrameLength(b) # Modulus - 1 /\ DataAgrees(b)
           /\ ReadFrame(b).data = FrameData(b)
<1>1. ParseError.parse # "data" /\ ParseHang.parse # "data"
    BY DEF ParseError, ParseHang
<1>2. ReadFrame(b) # ParseError /\ ReadFrame(b) # ParseHang
    BY <1>1
<1>3. HasStart(b) /\ LengthAgrees(b)
    BY <1>2 DEF ReadFrame
<1>4. FrameLength(b) # Modulus - 1
    BY <1>2, <1>3 DEF ReadFrame
<1>5. DataAgrees(b) /\ ReadFrame(b) = [parse |-> "data", data |-> FrameData(b)]
    BY <1>2, <1>3, <1>4 DEF ReadFrame
<1> QED BY <1>3, <1>4, <1>5

\* A disturbed frame that passes the tests of its head has the head it was sent
\* with: the start byte found early has an impossible length.
LEMMA HeadSurvives ==
    ASSUME NEW data \in Payloads, NEW b \in Noisy(Frame(data)),
           HasStart(b), LengthAgrees(b), FrameLength(b) # Modulus - 1
    PROVE  Start(b) = 3 /\ FrameLength(b) = Len(data)
<1> DEFINE f == Frame(data)
           n == Len(data)
           m == Modulus
           c == Complement(n)
<1>1. /\ f \in Seq(Bytes) /\ f[1] = 0 /\ f[2] = 0 /\ f[3] = m - 1 /\ f[4] = n /\ f[5] = c
    BY FrameFacts DEF StartCode
<1>2. /\ m \in Nat \ {0} /\ n \in Nat /\ n > 0 /\ n < m - 1 /\ StartCode = m - 1
      /\ Bytes = 0 .. m - 1
    BY ByteFacts DEF Payloads, StartCode, Bytes
<1>3. c \in Bytes /\ (n + c) % m = 0
    BY ChecksumFacts
<1>4. PICK i \in 1 .. n + 7, v \in Bytes : b = [f EXCEPT ![i] = v]
    BY NoisyFacts
<1>5. b \in Seq(Bytes) /\ Len(b) = n + 7 /\ Len(f) = n + 7
    BY NoisyFacts, FrameFacts
<1>6. /\ \A j \in 1 .. n + 7 : b[j] \in Bytes /\ (j # i => b[j] = f[j])
      /\ b[i] = v
    BY <1>1, <1>4, <1>5, ExceptSeq, ElementOfSeq
<1>7. {1, 2, 3, 4, 5} \subseteq 1 .. n + 7
    BY <1>2
<1> HIDE DEF f, n, m, c
<1>8. b[1] = 0
    <2>1. SUFFICES ASSUME b[1] # 0 PROVE FALSE
        OBVIOUS
    <2>2. b[2] = 0 /\ b[3] = m - 1
        BY <1>1, <1>6, <1>7, <2>1
    <2>3. Start(b) = 1
        <3>1. 1 \in 1 .. Len(b) /\ \A j \in 1 .. 1 - 1 : b[j] = 0
            BY <1>5, <1>7
        <3> QED BY <1>5, <2>1, <3>1, StartIs
    <2>4. (0 + (m - 1)) % m = 0
        BY <2>2, <2>3 DEF LengthAgrees, FrameLength, m
    <2> QED BY <1>2, <2>4
<1>9. b[2] = 0
    <2>1. SUFFICES ASSUME b[2] # 0 PROVE FALSE
        OBVIOUS
    <2>2. b[3] = m - 1
        BY <1>1, <1>6, <1>7, <2>1
    <2>3. Start(b) = 2
        <3>1. 2 \in 1 .. Len(b) /\ \A j \in 1 .. 2 - 1 : b[j] = 0
            BY <1>5, <1>7, <1>8
        <3> QED BY <1>5, <2>1, <3>1, StartIs
    <2>4. FrameLength(b) = m - 1
        BY <2>2, <2>3 DEF FrameLength
    <2> QED BY <2>4 DEF m
<1>10. b[3] # 0
    <2>1. SUFFICES ASSUME b[3] = 0 PROVE FALSE
        OBVIOUS
    <2>2. i = 3
        BY <1>1, <1>2, <1>6, <1>7, <2>1
    <2>3. b[4] = n
        BY <1>1, <1>6, <1>7, <2>2
    <2>4. Start(b) = 4
        <3>1. 4 \in 1 .. Len(b) /\ \A j \in 1 .. 4 - 1 : b[j] = 0
            BY <1>5, <1>7, <1>8, <1>9, <2>1
        <3>2. b[4] # 0
            BY <1>2, <2>3
        <3> QED BY <1>5, <3>1, <3>2, StartIs
    <2> QED BY <1>2, <2>3, <2>4 DEF HasStart
<1>11. Start(b) = 3
    <2>1. 3 \in 1 .. Len(b) /\ \A j \in 1 .. 3 - 1 : b[j] = 0
        BY <1>5, <1>7, <1>8, <1>9
    <2> QED BY <1>5, <1>10, <2>1, StartIs
<1>12. FrameLength(b) = b[4] /\ (b[4] + b[5]) % m = 0
    BY <1>11 DEF LengthAgrees, FrameLength, m
<1>13. b[4] = n
    <2>1. CASE i = 4
        <3>1. b[5] = c /\ b[4] \in 0 .. m - 1 /\ c \in 0 .. m - 1 /\ n \in 0 .. m - 1
            <4>1. 4 \in 1 .. n + 7 /\ 5 \in 1 .. n + 7 /\ 5 # i
                BY <1>2, <2>1
            <4>3. b[5] = c /\ b[4] \in Bytes
                BY <1>1, <1>5, <1>6, <1>7, <4>1, ElementOfSeq
            <4>2. c \in 0 .. m - 1 /\ n \in 0 .. m - 1
                BY <1>2, <1>3
            <4> QED BY <1>2, <4>2, <4>3
        <3> DEFINE x == b[4] + c
                   y == n + c
        <3>2. x \in Int /\ y \in Int /\ x - y < m /\ y - x < m
            BY <1>2, <3>1
        <3>3. x % m = 0 /\ y % m = 0
            BY <1>3, <1>12, <3>1
        <3>4. x = y
            <4> HIDE DEF x, y
            <4> QED BY <1>2, <3>2, <3>3, SameRemainder
        <3> QED BY <1>2, <3>1, <3>4
    <2>2. CASE i # 4
        BY <1>1, <1>6, <1>7, <2>2
    <2> QED BY <2>1, <2>2
<1> QED BY <1>11, <1>12, <1>13 DEF n

\* The data that passes is the data that was sent: the sum finds a byte that
\* differs.
LEMMA DataSurvives ==
    ASSUME NEW data \in Payloads, NEW b \in Noisy(Frame(data)), ReadFrame(b).parse = "data"
    PROVE  ReadFrame(b).data = data
<1> DEFINE f == Frame(data)
           n == Len(data)
           m == Modulus
           sent == Append(data, DataSum(data))
           read == SubSeq(b, 6, n + 6)
<1>1. /\ HasStart(b) /\ LengthAgrees(b) /\ FrameLength(b) # m - 1 /\ DataAgrees(b)
      /\ ReadFrame(b).data = FrameData(b)
    BY AcceptedFacts
<1>2. Start(b) = 3 /\ FrameLength(b) = n
    BY <1>1, HeadSurvives
<1>3. /\ m \in Nat \ {0} /\ n \in Nat /\ Bytes = 0 .. m - 1 /\ data \in Seq(Bytes)
      /\ data \in Seq(Int) /\ Total(data) \in Int
    BY ByteFacts DEF Payloads, Bytes
<1>4. DataSum(data) \in Bytes /\ (Total(data) + DataSum(data)) % m = 0
    BY ChecksumFacts
<1>5. PICK i \in 1 .. n + 7, v \in Bytes : b = [f EXCEPT ![i] = v]
    BY NoisyFacts
<1>6. f \in Seq(Bytes) /\ b \in Seq(Bytes) /\ Len(b) = n + 7 /\ Len(f) = n + 7
    BY NoisyFacts, FrameFacts
<1>7. /\ \A j \in 1 .. n + 7 : /\ b[j] \in Bytes /\ f[j] \in Bytes
                               /\ j # i => b[j] = f[j]
      /\ b[i] = v
    BY <1>5, <1>6, ExceptSeq, ElementOfSeq
<1>8. sent = SubSeq(f, 6, n + 6) /\ SubSeq(f, 6, n + 5) = data
    BY BodyFacts
<1>9. FrameData(b) = SubSeq(b, 6, n + 5) /\ Total(read) % m = 0
    <2>1. DataStart(b) = 6 /\ 6 + n = n + 6 /\ 6 + (n - 1) = n + 5 /\ (6 + n) - 1 = n + 5
        BY <1>2, <1>3 DEF DataStart
    <2> HIDE DEF n, m
    <2> QED BY <1>1, <1>2, <2>1 DEF FrameData, DataAgrees, m
<1>10. /\ sent \in Seq(Int) /\ sent \in Seq(Bytes) /\ Len(sent) = n + 1
       /\ Total(sent) % m = 0
    <2>1. DataSum(data) \in Int
        BY <1>3, <1>4
    <2>2. sent \in Seq(Int) /\ sent \in Seq(Bytes) /\ Len(sent) = n + 1
        BY <1>3, <1>4, <2>1, AppendProperties
    <2>3. Total(sent) = Total(data) + DataSum(data)
        BY <1>3, <2>1, TotalAppend
    <2> QED BY <1>4, <2>2, <2>3
<1> HIDE DEF f, n, m, sent, read
<1>11. /\ read \in Seq(Bytes) /\ Len(read) = n + 1
       /\ \A j \in 1 .. n + 1 : read[j] = b[5 + j]
    <2>1. n + 6 \in Int /\ 6 \in Int /\ \A j \in 6 .. n + 6 : j \in 1 .. n + 7
        BY <1>3
    <2>2. \A j \in 6 .. n + 6 : b[j] \in Bytes
        BY <1>7, <2>1
    <2>3. /\ read \in Seq(Bytes)
          /\ Len(read) = IF 6 <= n + 6 THEN ((n + 6) - 6) + 1 ELSE 0
          /\ \A j \in 1 .. ((n + 6) - 6) + 1 : read[j] = b[6 + (j - 1)]
        BY <2>1, <2>2, SubSeqProperties DEF read
    <2> QED BY <1>3, <2>3
<1>12. \A j \in 1 .. n + 1 : sent[j] = f[5 + j]
    <2>1. n + 6 \in Int /\ 6 \in Int /\ \A j \in 6 .. n + 6 : j \in 1 .. n + 7
        BY <1>3
    <2>2. \A j \in 6 .. n + 6 : f[j] \in Bytes
        BY <1>7, <2>1
    <2>3. \A j \in 1 .. ((n + 6) - 6) + 1 : sent[j] = f[6 + (j - 1)]
        BY <1>8, <2>1, <2>2, SubSeqProperties
    <2> QED BY <1>3, <2>3
<1>13. \A j \in 6 .. n + 5 : b[j] = f[j]
    <2>1. \A j \in 6 .. n + 5 : j \in 1 .. n + 7
        BY <1>3
    <2>2. CASE ~(i \in 6 .. n + 6)
        <3>1. \A j \in 6 .. n + 5 : j # i
            BY <1>3, <2>2
        <3> QED BY <1>7, <2>1, <3>1
    <2>3. CASE i \in 6 .. n + 6
        <3> DEFINE k == i - 5
                   s == [sent EXCEPT ![k] = v]
        <3>1. k \in 1 .. n + 1 /\ 5 + k = i /\ v \in Int
            BY <1>3, <2>3
        <3> HIDE DEF k
        <3>2. /\ s \in Seq(Bytes) /\ Len(s) = n + 1
              /\ \A j \in 1 .. n + 1 : s[j] = IF j = k THEN v ELSE sent[j]
            BY <1>10, <3>1, ExceptSeq
        <3>3. \A j \in 1 .. n + 1 : read[j] = s[j]
            <4>1. SUFFICES ASSUME NEW j \in 1 .. n + 1 PROVE read[j] = s[j]
                OBVIOUS
            <4>2. 5 + j \in 1 .. n + 7 /\ (5 + j = i <=> j = k)
                BY <1>3, <3>1
            <4> HIDE DEF s
            <4> QED BY <1>7, <1>11, <1>12, <3>2, <4>2
        <3>4. read = s
            <4> HIDE DEF s
            <4> QED BY <1>11, <3>2, <3>3, SeqEqual
        <3>5. Total(s) = Total(sent) - sent[k] + v
            BY <1>10, <3>1, TotalChange
        <3> DEFINE x == Total(s)
                   y == Total(sent)
        <3>6. sent[k] \in 0 .. m - 1 /\ v \in 0 .. m - 1
            BY <1>3, <1>10, <3>1, ElementOfSeq
        <3>7. x \in Int /\ y \in Int /\ x % m = 0 /\ y % m = 0
            <4>1. y \in Int
                BY <1>10, TotalAppend
            <4>2. x \in Int
                BY <3>5, <3>6, <4>1
            <4> QED BY <1>9, <1>10, <3>4, <4>1, <4>2
        <3>8. x = (y - sent[k]) + v
            BY <3>5
        <3> HIDE DEF x, y
        <3>9. x - y < m /\ y - x < m
            <4> DEFINE p == sent[k]
            <4>1. p \in 0 .. m - 1 /\ v \in 0 .. m - 1 /\ x \in Int /\ y \in Int /\ m \in Nat
                BY <1>3, <3>6, <3>7
            <4>2. x = (y - p) + v
                BY <3>8
            <4> HIDE DEF p
            <4> QED BY <4>1, <4>2
        <3>10. x = y
            BY <1>3, <3>7, <3>9, SameRemainder
        <3>11. v = sent[k]
            BY <3>6, <3>7, <3>8, <3>10
        <3>12. b[i] = f[i]
            BY <1>7, <1>12, <3>1, <3>11
        <3> QED BY <1>7, <2>1, <3>12
    <2> QED BY <2>2, <2>3
<1>14. SubSeq(b, 6, n + 5) = SubSeq(f, 6, n + 5)
    <2>1. n + 5 \in Int /\ 6 \in Int /\ \A j \in 6 .. n + 5 : j \in 1 .. n + 7
        BY <1>3
    <2>2. \A j \in 6 .. n + 5 : f[j] \in Bytes /\ b[j] \in Bytes
        BY <1>7, <2>1
    <2> DEFINE sb == SubSeq(b, 6, n + 5)
               sf == SubSeq(f, 6, n + 5)
    <2>3. /\ sb \in Seq(Bytes) /\ Len(sb) = IF 6 <= n + 5 THEN ((n + 5) - 6) + 1 ELSE 0
          /\ \A j \in 1 .. ((n + 5) - 6) + 1 : sb[j] = b[6 + (j - 1)]
        BY <2>1, <2>2, SubSeqProperties
    <2>4. /\ sf \in Seq(Bytes) /\ Len(sf) = IF 6 <= n + 5 THEN ((n + 5) - 6) + 1 ELSE 0
          /\ \A j \in 1 .. ((n + 5) - 6) + 1 : sf[j] = f[6 + (j - 1)]
        BY <2>1, <2>2, SubSeqProperties
    <2> HIDE DEF sb, sf
    <2>5. Len(sb) = n /\ Len(sf) = n /\ ((n + 5) - 6) + 1 = n
        BY <1>3, <2>3, <2>4
    <2>6. \A j \in 1 .. n : sb[j] = sf[j]
        <3>1. \A j \in 1 .. n : 6 + (j - 1) \in 6 .. n + 5
            BY <1>3
        <3> QED BY <1>13, <2>3, <2>4, <2>5, <3>1
    <2>7. sb = sf
        BY <2>3, <2>4, <2>5, <2>6, SeqEqual
    <2> QED BY <2>7 DEF sb, sf
<1> QED BY <1>1, <1>8, <1>9, <1>14

\* What was written is read: the driver accepts its own frames, and gets the data
\* out of them.
THEOREM RoundTrip ==
    ASSUME NEW data \in Payloads
    PROVE  ReadFrame(Frame(data)) = [parse |-> "data", data |-> data]
<1> DEFINE f == Frame(data)
           n == Len(data)
           m == Modulus
<1>1. /\ f \in Seq(Bytes) /\ Len(f) = n + 7
      /\ f[1] = 0 /\ f[2] = 0 /\ f[3] = StartCode /\ f[4] = n /\ f[5] = Complement(n)
    BY FrameFacts
<1>2. /\ m \in Nat \ {0} /\ n \in Nat /\ n > 0 /\ n < m - 1 /\ StartCode = m - 1
      /\ data \in Seq(Int) /\ Total(data) \in Int
    BY ByteFacts DEF Payloads, StartCode
<1>3. (n + Complement(n)) % m = 0 /\ DataSum(data) \in Bytes
      /\ (Total(data) + DataSum(data)) % m = 0
    BY ChecksumFacts
<1>4. SubSeq(f, 6, n + 6) = Append(data, DataSum(data)) /\ SubSeq(f, 6, n + 5) = data
    BY BodyFacts
<1>5. Total(SubSeq(f, 6, n + 6)) % m = 0
    <2>1. DataSum(data) \in Int
        BY <1>2, <1>3 DEF Bytes
    <2> QED BY <1>2, <1>3, <1>4, <2>1, TotalAppend
<1> HIDE DEF f, n, m
<1>6. Start(f) = 3
    <2>1. 3 \in 1 .. Len(f) /\ \A j \in 1 .. 3 - 1 : f[j] = 0
        BY <1>1, <1>2
    <2>2. f[3] # 0
        BY <1>1, <1>2
    <2> QED BY <1>1, <2>1, <2>2, StartIs
<1>7. HasStart(f) /\ LengthAgrees(f) /\ FrameLength(f) = n /\ n # Modulus - 1
    BY <1>1, <1>2, <1>3, <1>6 DEF HasStart, LengthAgrees, FrameLength, m
<1>8. DataStart(f) + n = n + 6 /\ DataStart(f) + n - 1 = n + 5 /\ DataStart(f) = 6
    BY <1>2, <1>6 DEF DataStart
<1>9. DataAgrees(f) /\ DataStart(f) + FrameLength(f) <= Len(f)
    BY <1>1, <1>2, <1>5, <1>7, <1>8 DEF DataAgrees, m
<1>10. FrameData(f) = data
    BY <1>4, <1>7, <1>8 DEF FrameData
<1>11. ReadFrame(f) = [parse |-> "data", data |-> FrameData(f)]
    BY <1>7, <1>9 DEF ReadFrame
<1> QED BY <1>10, <1>11 DEF f

----------------------------------------------------------------------------
(* Scanning a card. *)

Uids == {c \in Seq(Bytes) : Len(c) <= MaxUidLength}

Response(c) == <<Pn532ToHost, ScanCommand + 1, 1, 1, 0, 4, 8, Len(c)>> \o c

\* The chip's answer that it found a card fits a frame, and the uid in it is the
\* card's.
LEMMA ResponseFacts ==
    ASSUME NEW c \in Uids
    PROVE  Response(c) \in Payloads /\ UidOf(Response(c)) = c
<1> DEFINE head == <<Pn532ToHost, ScanCommand + 1, 1, 1, 0, 4, 8, Len(c)>>
           n == Len(c)
           r == Response(c)
<1>1. c \in Seq(Bytes) /\ n \in Nat /\ n <= MaxUidLength /\ c \in [1 .. n -> Bytes]
    BY LenProperties DEF Uids
<1>2. n + 9 < Modulus /\ Modulus \in Nat /\ Bytes = 0 .. Modulus - 1
    BY <1>1, ByteAssumption DEF Bytes
<1>3. /\ head \in Seq(Bytes) /\ Len(head) = 8 /\ head[8] = n
    <2>1. {Pn532ToHost, ScanCommand + 1} \subseteq Bytes
        BY ByteAssumption DEF Bytes
    <2>2. {0, 1, 4, 8, n} \subseteq Bytes
        BY <1>1, <1>2
    <2> HIDE DEF n
    <2>3. head \in Seq(Bytes)
        BY <2>1, <2>2 DEF n
    <2> QED BY <2>3 DEF n
<1>4. r = head \o c
    BY DEF Response
<1> HIDE DEF head, r, n
<1>5. /\ r \in Seq(Bytes) /\ Len(r) = 8 + n
      /\ \A i \in 1 .. 8 + n : r[i] = IF i <= 8 THEN head[i] ELSE c[i - 8]
    <2>1. /\ r \in Seq(Bytes) /\ Len(r) = Len(head) + n
          /\ \A i \in 1 .. Len(head) + n :
                r[i] = IF i <= Len(head) THEN head[i] ELSE c[i - Len(head)]
        BY <1>1, <1>3, <1>4, ConcatProperties DEF n
    <2> QED BY <1>3, <2>1
<1>6. r \in Payloads
    <2>1. Len(r) > 0 /\ Len(r) < Modulus - 1
        BY <1>1, <1>2, <1>5
    <2> QED BY <1>5, <2>1 DEF Payloads
<1>7. r[8] = n
    BY <1>1, <1>3, <1>5
<1>8. UidOf(r) = [i \in 1 .. n |-> ByteAt(r, 8 + i)]
    BY <1>7 DEF UidOf
<1>9. ASSUME NEW i \in 1 .. n PROVE ByteAt(r, 8 + i) = c[i]
    <2>1. 8 + i \in 1 .. 8 + n /\ ~(8 + i <= 8) /\ (8 + i) - 8 = i /\ 8 + i <= 8 + n
        BY <1>1
    <2>2. r[8 + i] = c[(8 + i) - 8]
        BY <1>5, <2>1
    <2> QED BY <1>5, <2>1, <2>2 DEF ByteAt
<1>10. UidOf(r) = c
    BY <1>1, <1>8, <1>9 DEF n
<1> QED BY <1>6, <1>10 DEF r

\* The chip's frame that it did not understand fits as well, and no scan takes it
\* for its answer.
LEMMA SyntaxErrorFacts ==
    /\ <<Modulus \div 2 - 1>> \in Payloads
    /\ SyntaxError = Frame(<<Modulus \div 2 - 1>>)
    /\ ~ResponseTo(ScanCommand, <<Modulus \div 2 - 1>>)
<1> DEFINE e == (Modulus \div 2) - 1
<1>1. e \in Bytes /\ Modulus - 1 > 1
    BY ByteAssumption DEF Bytes
<1> HIDE DEF e
<1>2. <<e>> \in Payloads
    BY <1>1 DEF Payloads
<1>3. ~ResponseTo(ScanCommand, <<e>>)
    BY DEF ResponseTo
<1> QED BY <1>2, <1>3 DEF e, SyntaxError

\* The chip's answers to the calls of the set-up fit frames.
LEMMA SetupFacts ==
    /\ \E data \in Payloads : VersionFound = Frame(data)
    /\ \E data \in Payloads : Configured = Frame(data)
<1> DEFINE f == FirmwareCommand + 1
           m == SamCommand + 1
<1>1. {Pn532ToHost, f, m, 1, 2, 6, 7} \subseteq Bytes /\ Modulus - 1 > 6
    BY ByteAssumption DEF Bytes
<1> HIDE DEF f, m
<1>2. <<Pn532ToHost, f, 2, 1, 6, 7>> \in Payloads
    BY <1>1 DEF Payloads
<1>3. <<Pn532ToHost, m>> \in Payloads
    <2>1. <<Pn532ToHost, m>> \in Seq(Bytes) /\ Len(<<Pn532ToHost, m>>) = 2
        BY <1>1
    <2> DEFINE k == Len(<<Pn532ToHost, m>>)
    <2>2. k > 0 /\ k < Modulus - 1
        <3> HIDE DEF k
        <3>1. k = 2
            BY <2>1 DEF k
        <3> QED BY <1>1, <3>1, ByteAssumption DEF Bytes
    <2> QED BY <2>1, <2>2 DEF Payloads
<1> QED BY <1>2, <1>3 DEF f, m, VersionFound, Configured

\* Whatever one byte of the chip's answer the bus disturbs, a scan that ends with
\* a uid ends with that of the card the chip has found.
THEOREM DisturbanceFound ==
    ASSUME NEW c \in Uids, NEW b \in Noisy(TargetFound(c)) \cup Noisy(SyntaxError),
           ReadFrame(b).parse = "data", ResponseTo(ScanCommand, ReadFrame(b).data)
    PROVE  UidOf(ReadFrame(b).data) = c
<1>1. CASE b \in Noisy(TargetFound(c))
    <2>1. TargetFound(c) = Frame(Response(c))
        BY DEF TargetFound, Response
    <2>2. ReadFrame(b).data = Response(c)
        BY <1>1, <2>1, ResponseFacts, DataSurvives
    <2> QED BY <2>2, ResponseFacts
<1>2. CASE b \in Noisy(SyntaxError)
    <2>1. ReadFrame(b).data = <<Modulus \div 2 - 1>>
        BY <1>2, SyntaxErrorFacts, DataSurvives
    <2> QED BY <2>1, SyntaxErrorFacts
<1> QED BY <1>1, <1>2
=============================================================================
