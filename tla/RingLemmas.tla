----------------------------- MODULE RingLemmas -----------------------------
(***************************************************************************)
(* Facts that the rings and the bounded queue rest on: index arithmetic    *)
(* (index & mask, head - tail in uint64_t, (head + 1) % cap) and what a    *)
(* write into and a read out of a ring do to the sequence it holds.        *)
(***************************************************************************)
EXTENDS Integers, Sequences, TLAPS

(* What % means: the remainder of the division, between 0 and the divisor. *)
LEMMA DivMod ==
  \A a \in Int, d \in Nat \ {0} :
    \E p, s \in Int : s = (a % d) /\ 0 <= s /\ s < d /\ a = d * p + s
<1> SUFFICES ASSUME NEW a \in Int, NEW d \in Nat \ {0}
             PROVE  \E p, s \in Int : s = (a % d) /\ 0 <= s /\ s < d /\ a = d * p + s
  OBVIOUS
<1>1. a \div d \in Int /\ (a % d) \in 0..(d - 1) /\ a = d * (a \div d) + (a % d)
  OBVIOUS
<1>2. (a % d) \in Int /\ 0 <= (a % d) /\ (a % d) < d
  BY <1>1
<1> QED
  BY <1>1, <1>2, ZenonT(60)

(* The only multiple of d strictly between -d and d is 0. *)
LEMMA SmallMultiple ==
  \A d \in Nat \ {0}, q \in Int : (-d < d * q /\ d * q < d) => q = 0
<1> SUFFICES ASSUME NEW d \in Nat \ {0}, NEW q \in Int, -d < d * q, d * q < d
             PROVE  q = 0
  OBVIOUS
<1>1. CASE q >= 1
  <2>1. d * q >= d
    BY <1>1
  <2> QED
    BY <2>1
<1>2. CASE q <= -1
  <2>1. d * q <= -d
    BY <1>2
  <2> QED
    BY <2>1
<1> QED
  BY <1>1, <1>2

(* Two remainders of one number are equal. *)
LEMMA RemainderUnique ==
  \A p, q, r, s \in Int, d \in Nat \ {0} :
    d * q + r = d * p + s /\ 0 <= r /\ r < d /\ 0 <= s /\ s < d => r = s
<1> SUFFICES ASSUME NEW p \in Int, NEW q \in Int, NEW r \in Int, NEW s \in Int,
                    NEW d \in Nat \ {0},
                    d * q + r = d * p + s, 0 <= r, r < d, 0 <= s, s < d
             PROVE  r = s
  OBVIOUS
<1>1. d * (q - p) = s - r
  OBVIOUS
<1>2. q - p = 0
  BY <1>1, SmallMultiple
<1> QED
  BY <1>1, <1>2

(* A number in range that differs from a by a multiple of d is a % d. *)
LEMMA ModUnique ==
  \A a, q, r \in Int, d \in Nat \ {0} :
    a = d * q + r /\ 0 <= r /\ r < d => (a % d) = r
<1> SUFFICES ASSUME NEW a \in Int, NEW q \in Int, NEW r \in Int, NEW d \in Nat \ {0},
                    a = d * q + r, 0 <= r, r < d
             PROVE  (a % d) = r
  OBVIOUS
<1>1. PICK p, s \in Int : s = (a % d) /\ 0 <= s /\ s < d /\ a = d * p + s
  BY DivMod
<1>2. d * q + r = d * p + s
  BY <1>1, ZenonT(60)
<1>3. s = r
  BY <1>1, <1>2, RemainderUnique, ZenonT(60)
<1> QED
  BY <1>1, <1>3, ZenonT(60)

(* Incrementing a wrapped index is wrapping the incremented one. *)
LEMMA ModAdd ==
  \A a, c \in Int, d \in Nat \ {0} : (((a % d) + c) % d) = ((a + c) % d)
<1> SUFFICES ASSUME NEW a \in Int, NEW c \in Int, NEW d \in Nat \ {0}
             PROVE  (((a % d) + c) % d) = ((a + c) % d)
  OBVIOUS
<1>1. PICK p, s \in Int : s = (a % d) /\ 0 <= s /\ s < d /\ a = d * p + s
  BY DivMod, ZenonT(60)
<1>2. PICK x, y \in Int : x = s + c /\ y = a + c
  OBVIOUS
<1>3. PICK u, v \in Int : v = (x % d) /\ 0 <= v /\ v < d /\ x = d * u + v
  BY DivMod, ZenonT(60)
<1>4. a = d * p + s /\ x = d * u + v
  BY <1>1, <1>3, ZenonT(60)
<1>5. y = d * (p + u) + v /\ p + u \in Int
  BY <1>2, <1>4
<1>6. (y % d) = v
  BY <1>3, <1>5, ModUnique, ZenonT(60)
<1> QED
  BY <1>1, <1>2, <1>3, <1>6, ZenonT(60)

(* Masking a wrapped index is masking the index: the ring's size divides   *)
(* the number of index values.                                             *)
LEMMA ModMod ==
  \A a \in Int, c, k \in Nat \ {0} : ((a % (k * c)) % c) = (a % c)
<1> SUFFICES ASSUME NEW a \in Int, NEW c \in Nat \ {0}, NEW k \in Nat \ {0}
             PROVE  ((a % (k * c)) % c) = (a % c)
  OBVIOUS
<1>1. k * c \in Nat \ {0}
  OBVIOUS
<1>2. PICK p, s \in Int : s = (a % (k * c)) /\ 0 <= s /\ s < k * c /\ a = (k * c) * p + s
  BY <1>1, DivMod, ZenonT(60)
<1>3. PICK u, v \in Int : v = (s % c) /\ 0 <= v /\ v < c /\ s = c * u + v
  BY DivMod, ZenonT(60)
<1>4. a = (k * c) * p + s /\ s = c * u + v
  BY <1>2, <1>3, ZenonT(60)
<1>5. a = c * (k * p + u) + v /\ k * p + u \in Int
  BY <1>4
<1>6. (a % c) = v
  BY <1>3, <1>5, ModUnique, ZenonT(60)
<1> QED
  BY <1>2, <1>3, <1>6, ZenonT(60)

(* Indices less than a ring apart fall into different slots. *)
LEMMA ModInjective ==
  \A a, b \in Int, d \in Nat \ {0} :
    (a % d) = (b % d) /\ -d < a - b /\ a - b < d => a = b
<1> SUFFICES ASSUME NEW a \in Int, NEW b \in Int, NEW d \in Nat \ {0},
                    (a % d) = (b % d), -d < a - b, a - b < d
             PROVE  a = b
  OBVIOUS
<1>1. PICK p, s \in Int : s = (a % d) /\ 0 <= s /\ s < d /\ a = d * p + s
  BY DivMod, ZenonT(60)
<1>2. PICK q, r \in Int : r = (b % d) /\ 0 <= r /\ r < d /\ b = d * q + r
  BY DivMod, ZenonT(60)
<1>3. a = d * p + s /\ b = d * q + s
  BY <1>1, <1>2, ZenonT(60)
<1>4. a - b = d * (p - q)
  BY <1>3
<1>5. p - q = 0
  BY <1>4, SmallMultiple
<1> QED
  BY <1>4, <1>5

(* Unsigned subtraction of wrapped indices gives their true distance, as   *)
(* long as it is smaller than the number of index values.                  *)
LEMMA ModDiff ==
  \A a, b \in Int, d \in Nat \ {0} :
    0 <= a - b /\ a - b < d => (((a % d) - (b % d)) % d) = a - b
<1> SUFFICES ASSUME NEW a \in Int, NEW b \in Int, NEW d \in Nat \ {0},
                    0 <= a - b, a - b < d
             PROVE  (((a % d) - (b % d)) % d) = a - b
  OBVIOUS
<1>1. PICK p, s \in Int : s = (a % d) /\ 0 <= s /\ s < d /\ a = d * p + s
  BY DivMod, ZenonT(60)
<1>2. PICK q, r \in Int : r = (b % d) /\ 0 <= r /\ r < d /\ b = d * q + r
  BY DivMod, ZenonT(60)
<1>3. a = d * p + s /\ b = d * q + r
  BY <1>1, <1>2, ZenonT(60)
<1>4. PICK x, y \in Int : x = s - r /\ y = a - b
  OBVIOUS
<1>5. x = d * (q - p) + y /\ q - p \in Int /\ 0 <= y /\ y < d
  BY <1>3, <1>4
<1>6. (x % d) = y
  BY <1>5, ModUnique, ZenonT(60)
<1> QED
  BY <1>1, <1>2, <1>4, <1>6, ZenonT(60)

(* Numbers that differ by a multiple of d have the same remainder. *)
LEMMA ModCongruent ==
  \A b, q \in Int, d \in Nat \ {0} : ((b + d * q) % d) = (b % d)
<1> SUFFICES ASSUME NEW b \in Int, NEW q \in Int, NEW d \in Nat \ {0}
             PROVE  ((b + d * q) % d) = (b % d)
  OBVIOUS
<1>1. PICK p, s \in Int : s = (b % d) /\ 0 <= s /\ s < d /\ b = d * p + s
  BY DivMod, ZenonT(60)
<1>2. PICK a, r \in Int : a = b + d * q /\ r = p + q
  OBVIOUS
<1>3. b = d * p + s
  BY <1>1, ZenonT(60)
<1>4. a = d * r + s
  BY <1>2, <1>3
<1>5. (a % d) = s
  BY <1>1, <1>4, ModUnique, ZenonT(60)
<1> QED
  BY <1>1, <1>2, <1>5, ZenonT(60)

-----------------------------------------------------------------------------
(* The n values that a ring of c slots holds from index t on. *)
Window(buf, t, n, c) == [j \in 1..n |-> buf[(t + j - 1) % c]]

(* A window's slots are slots of the ring. *)
LEMMA WindowSlots ==
  \A c \in Nat \ {0}, t \in Int, n \in Nat : \A j \in 1..n : ((t + j - 1) % c) \in 0..(c - 1)
OBVIOUS

PutAppends(buf, t, n, c, v) ==
  Window([buf EXCEPT ![(t + n) % c] = v], t, n + 1, c) = Append(Window(buf, t, n, c), v)

(* Indices that differ by a multiple of the ring's size. *)
SameSlot(a, b, c) == \E q \in Int : a = b + c * q

GetTakes(buf, t, n, c, u) ==
  /\ Window(buf, t, n, c) # <<>>
  /\ Head(Window(buf, t, n, c)) = buf[t % c]
  /\ Window(buf, u, n - 1, c) = Tail(Window(buf, t, n, c))

(* Sequences with the same elements in the same places are equal. *)
LEMMA SameElements ==
  ASSUME NEW S, NEW s \in Seq(S), NEW r \in Seq(S), Len(s) = Len(r),
         \A j \in 1..Len(s) : s[j] = r[j]
  PROVE  s = r
OBVIOUS

(* Writing the slot after the last value and counting it appends it. *)
LEMMA RingPut ==
  ASSUME NEW c \in Nat \ {0}, NEW S, NEW buf \in [0..(c - 1) -> S], NEW t \in Int, NEW n \in Nat,
         n < c, NEW v \in S
  PROVE  PutAppends(buf, t, n, c, v)
<1> DEFINE new == [buf EXCEPT ![(t + n) % c] = v]
           s == Window(buf, t, n, c)
           w == Window(new, t, n + 1, c)
<1>1. ((t + n) % c) \in 0..(c - 1)
  OBVIOUS
<1>2. new \in [0..(c - 1) -> S] /\ n + 1 \in Nat
  BY <1>1
<1>a. /\ s \in Seq(S) /\ Len(s) = n
      /\ \A j \in 1..n : s[j] = buf[(t + j - 1) % c]
  <2>1. \A j \in 1..n : buf[(t + j - 1) % c] \in S
    BY WindowSlots
  <2> QED
    BY <2>1 DEF Window
<1> HIDE DEF new
<1>b. /\ w \in Seq(S) /\ Len(w) = n + 1
      /\ \A j \in 1..(n + 1) : w[j] = new[(t + j - 1) % c]
  <2>1. \A j \in 1..(n + 1) : new[(t + j - 1) % c] \in S
    BY <1>2, WindowSlots
  <2> QED
    BY <1>2, <2>1 DEF Window
<1> USE DEF new
<1>3. /\ s \in Seq(S) /\ Len(s) = n /\ w \in Seq(S) /\ Len(w) = n + 1
      /\ \A j \in 1..n : s[j] = buf[(t + j - 1) % c]
      /\ \A j \in 1..(n + 1) : w[j] = new[(t + j - 1) % c]
  BY <1>a, <1>b, Zenon
<1>4. ASSUME NEW j \in 1..n PROVE w[j] = s[j]
  <2>1. PICK a, b \in Int : a = t + j - 1 /\ b = t + n
    OBVIOUS
  <2>2. a # b /\ -c < a - b /\ a - b < c
    BY <2>1
  <2>3. (a % c) # (b % c)
    BY <2>2, ModInjective, ZenonT(60)
  <2>4. (a % c) \in 0..(c - 1) /\ (a % c) # ((t + n) % c)
    BY <2>1, <2>3
  <2>5. new[a % c] = buf[a % c]
    BY <2>4
  <2>6. j \in 1..(n + 1)
    OBVIOUS
  <2> QED
    BY <1>3, <2>1, <2>5, <2>6
<1>5. w[n + 1] = v
  <2>1. n + 1 \in 1..(n + 1) /\ t + (n + 1) - 1 = t + n
    OBVIOUS
  <2>2. new[(t + n) % c] = v
    BY <1>1
  <2> QED
    BY <1>3, <2>1, <2>2
<1> HIDE DEF s, w
<1>6. Append(s, v) \in Seq(S) /\ Len(Append(s, v)) = n + 1
  BY <1>3
<1>7. ASSUME NEW j \in 1..(n + 1) PROVE w[j] = Append(s, v)[j]
  <2>1. CASE j = n + 1
    BY <1>3, <1>5, <2>1
  <2>2. CASE j # n + 1
    <3>1. j \in 1..n
      BY <2>2
    <3> QED
      BY <1>3, <1>4, <3>1
  <2> QED
    BY <2>1, <2>2
<1>8. w = Append(s, v)
  BY <1>3, <1>6, <1>7, SameElements
<1> QED
  BY <1>8 DEF s, w, PutAppends

(* Moving the start of the window past the oldest value takes it off. *)
LEMMA RingGet ==
  ASSUME NEW c \in Nat \ {0}, NEW S, NEW buf \in [0..(c - 1) -> S], NEW t \in Int, NEW n \in Nat,
         n > 0, NEW u \in Int, SameSlot(u, t + 1, c)
  PROVE  GetTakes(buf, t, n, c, u)
<1>0. PICK q \in Int : u = t + 1 + c * q
  BY DEF SameSlot
<1> DEFINE s == Window(buf, t, n, c)
           w == Window(buf, u, n - 1, c)
<1>1. n - 1 \in Nat
  OBVIOUS
<1>2. /\ s \in Seq(S) /\ Len(s) = n /\ w \in Seq(S) /\ Len(w) = n - 1
      /\ \A j \in 1..n : s[j] = buf[(t + j - 1) % c]
      /\ \A j \in 1..(n - 1) : w[j] = buf[(u + j - 1) % c]
  <2>1. \A j \in 1..n : buf[(t + j - 1) % c] \in S
    BY WindowSlots
  <2>2. \A j \in 1..(n - 1) : buf[(u + j - 1) % c] \in S
    BY <1>1, WindowSlots
  <2> QED
    BY <1>1, <2>1, <2>2 DEF Window
<1>3. ASSUME NEW j \in 1..(n - 1) PROVE w[j] = s[j + 1]
  <2>1. PICK b \in Int : b = t + j
    OBVIOUS
  <2>2. u + j - 1 = b + c * q
    BY <1>0, <2>1
  <2>3. ((b + c * q) % c) = (b % c)
    BY ModCongruent, ZenonT(60)
  <2>4. j + 1 \in 1..n /\ t + (j + 1) - 1 = b
    BY <2>1
  <2> QED
    BY <1>2, <2>2, <2>3, <2>4
<1>4. s[1] = buf[t % c]
  <2>1. 1 \in 1..n /\ t + 1 - 1 = t
    OBVIOUS
  <2> QED
    BY <1>2, <2>1
<1> HIDE DEF s, w
<1>5. /\ s # <<>> /\ Head(s) = s[1] /\ Tail(s) \in Seq(S) /\ Len(Tail(s)) = n - 1
      /\ \A j \in 1..(n - 1) : Tail(s)[j] = s[j + 1]
  BY <1>2
<1>6. w = Tail(s)
  BY <1>2, <1>3, <1>5, SameElements
<1> QED
  BY <1>4, <1>5, <1>6 DEF s, w, GetTakes

-----------------------------------------------------------------------------
(* The indices of a ring of c slots run from 0 to w - 1 and start again,   *)
(* and c divides w, which is larger.  Their distance is the number n of    *)
(* values in the ring.                                                     *)
Wraps(w, c) == \E k \in Int : k >= 2 /\ w = k * c
Distance(n, h, t, w) == n = ((h - t) % w)

(* Writing at head h is writing at the n-th slot after tail t, adds one, ... *)
HeadMoves(c, w, h, t, n) ==
  /\ (h % c) = ((t + n) % c)
  /\ Distance(n + 1, (h + 1) % w, t, w)

(* ... and reading at tail t takes the first and leaves one less. *)
TailMoves(c, w, h, t, n) ==
  /\ n > 0
  /\ Distance(n - 1, h, (t + 1) % w, w)
  /\ SameSlot((t + 1) % w, t + 1, c)

LEMMA HeadAdvances ==
  \A c, w \in Nat \ {0}, n, h, t \in Int :
    Wraps(w, c) /\ Distance(n, h, t, w) /\ n < c => HeadMoves(c, w, h, t, n)
<1> TAKE c, w \in Nat \ {0}, n, h, t \in Int
<1>a. HAVE Wraps(w, c) /\ Distance(n, h, t, w) /\ n < c
<1>b. PICK k \in Int : k >= 2 /\ w = k * c
  BY <1>a DEF Wraps
<1>0. w = k * c /\ k >= 2 /\ n = ((h - t) % w) /\ n < c
  BY <1>a, <1>b, Zenon DEF Distance
<1>1. PICK d, g \in Int : d = h - t /\ g = h + 1
  OBVIOUS
<1>2. PICK p, s \in Int : s = (d % w) /\ 0 <= s /\ s < w /\ d = w * p + s
  BY DivMod, ZenonT(60)
<1>3. s = n
  BY <1>0, <1>1, <1>2, ZenonT(60)
<1>4. PICK u, v \in Int : v = (g % w) /\ 0 <= v /\ v < w /\ g = w * u + v
  BY DivMod, ZenonT(60)
<1>5. d = w * p + n /\ 0 <= n /\ g = w * u + v
  BY <1>2, <1>3, <1>4, ZenonT(60)
<1>6. PICK b, q \in Int : b = t + n /\ q = k * p
  OBVIOUS
<1>7. h = b + c * q
  <2>1. w * p = c * q
    BY <1>0, <1>6
  <2> QED
    BY <1>1, <1>5, <1>6, <2>1
<1>8. ((b + c * q) % c) = (b % c)
  BY ModCongruent, ZenonT(60)
<1>9. PICK x, y, m \in Int : x = v - t /\ y = p - u /\ m = n + 1
  OBVIOUS
<1>10. x = w * y + m
  BY <1>1, <1>5, <1>9
<1>11. 0 <= m /\ m < w
  <2>1. w >= c + c
    BY <1>0
  <2> QED
    BY <1>0, <1>5, <1>9, <2>1
<1>12. (x % w) = m
  BY <1>10, <1>11, ModUnique, ZenonT(60)
<1>13. (h % c) = ((t + n) % c)
  BY <1>6, <1>7, <1>8, ZenonT(60)
<1> QED
  BY <1>1, <1>4, <1>9, <1>12, <1>13, ZenonT(60) DEF HeadMoves, Distance

LEMMA TailAdvances ==
  \A c, w \in Nat \ {0}, n \in Int : \A h, t \in 0..(w - 1) :
    Wraps(w, c) /\ Distance(n, h, t, w) /\ h # t => TailMoves(c, w, h, t, n)
<1> TAKE c, w \in Nat \ {0}, n \in Int
<1> TAKE h, t \in 0..(w - 1)
<1>a. HAVE Wraps(w, c) /\ Distance(n, h, t, w) /\ h # t
<1>b. PICK k \in Int : k >= 2 /\ w = k * c
  BY <1>a DEF Wraps
<1>0. w = k * c /\ k >= 2 /\ n = ((h - t) % w) /\ h # t
  BY <1>a, <1>b, Zenon DEF Distance
<1>1. PICK d, g \in Int : d = h - t /\ g = t + 1
  OBVIOUS
<1>2. PICK p, s \in Int : s = (d % w) /\ 0 <= s /\ s < w /\ d = w * p + s
  BY DivMod, ZenonT(60)
<1>3. s = n
  BY <1>0, <1>1, <1>2, ZenonT(60)
<1>4. PICK u, v \in Int : v = (g % w) /\ 0 <= v /\ v < w /\ g = w * u + v
  BY DivMod, ZenonT(60)
<1>5. d = w * p + n /\ 0 <= n /\ n < w /\ g = w * u + v
  BY <1>2, <1>3, <1>4, ZenonT(60)
<1>6. n # 0
  <2>1. -w < d /\ d < w /\ d # 0
    BY <1>0, <1>1
  <2>2. p = 0 \/ ~(-w < w * p /\ w * p < w)
    BY SmallMultiple
  <2>3. p = 0 => w * p = 0
    OBVIOUS
  <2> QED
    BY <1>5, <2>1, <2>2, <2>3
<1>7. PICK x, y, m \in Int : x = h - v /\ y = p + u /\ m = n - 1
  OBVIOUS
<1>8. x = w * y + m /\ 0 <= m /\ m < w
  BY <1>1, <1>5, <1>6, <1>7
<1>9. (x % w) = m
  BY <1>8, ModUnique, ZenonT(60)
<1>10. PICK q \in Int : q = -(k * u)
  OBVIOUS
<1>11. v = t + 1 + c * q
  <2>1. w * u = -(c * q)
    BY <1>0, <1>10
  <2> QED
    BY <1>1, <1>5, <2>1
<1>12. ((h - ((t + 1) % w)) % w) = n - 1
  BY <1>1, <1>4, <1>7, <1>9, ZenonT(60)
<1>13. ((t + 1) % w) = t + 1 + c * q
  BY <1>1, <1>4, <1>11, ZenonT(60)
<1>14. n > 0
  BY <1>5, <1>6
<1> QED
  BY <1>12, <1>13, <1>14, ZenonT(60) DEF TailMoves, Distance, SameSlot
=============================================================================
