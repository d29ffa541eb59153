-------------------------- MODULE SocketStreamProofs --------------------------
(***************************************************************************)
(* Proof that SocketStream implements Channel, for any number of messages  *)
(* of any length, slices and lengths of any size and any room: until a     *)
(* length is torn, the bytes on the connection lead from where the         *)
(* receiver is to where the sender is.                                     *)
(***************************************************************************)
EXTENDS SocketStream, SequenceTheorems, TLAPS

\* A place in the stream is a message and the bytes of it that lie behind.
Whole(k) == W + Length[k]
After(b) == IF b[2] = Whole(b[1]) THEN <<b[1] + 1, 0>> ELSE b

\* Each byte is followed by the next of its message, the last by the first of the
\* next message.
InRange(w) == \A x \in 1..Len(w) : w[x][1] \in 1..N /\ w[x][2] \in 1..Whole(w[x][1])
Runs(w) ==
  \A x, y \in 1..Len(w) :
    x <= y /\ w[x][2] + (y - x) <= Whole(w[x][1])
      => w[y] = <<w[x][1], w[x][2] + (y - x)>>
Joins(w) ==
  \A x \in 1..Len(w) - 1 : w[x][2] = Whole(w[x][1]) => w[x + 1] = <<w[x][1] + 1, 1>>

\* The bytes of w lead from one place to another.
Begins(w, from) == w # <<>> => w[1] = <<from[1], from[2] + 1>>
Ends(w, to) == w # <<>> => After(w[Len(w)]) = to
Behind(w, to) ==
  \A x \in 1..Len(w) : w[x][1] < to[1] \/ (w[x][1] = to[1] /\ w[x][2] <= to[2])
Leads(w, from, to) ==
  /\ InRange(w) /\ Runs(w) /\ Joins(w)
  /\ w = <<>> => from = to
  /\ Begins(w, from) /\ Ends(w, to) /\ Behind(w, to)

LEMMA Constants ==
  /\ W \in Nat \ {0} /\ sliceSize \in Nat \ {0} /\ Room \in Nat \ {0} /\ MaxJunk \in Nat
  /\ N \in Nat /\ \A k \in 1..N : Length[k] \in Nat \ {0} /\ Whole(k) \in Nat
<1> QED
  BY StreamAssumption DEF N, Whole

LEMMA OneMore ==
  ASSUME NEW p \in Nat, NEW n \in Nat, NEW q \in Nat, p + n <= q, p + n # q
  PROVE  p + (n + 1) <= q
<1> QED
  OBVIOUS

LEMMA AfterPlace ==
  ASSUME NEW k \in Nat, NEW p \in Nat
  PROVE  /\ p = Whole(k) => After(<<k, p>>) = <<k + 1, 0>>
         /\ p # Whole(k) => After(<<k, p>>) = <<k, p>>
<1> QED
  BY DEF After

LEMMA Rest ==
  ASSUME NEW S, NEW w \in Seq(S), NEW n \in 1..Len(w)
  PROVE  LET v == SubSeq(w, n + 1, Len(w))
         IN /\ v \in Seq(S) /\ Len(v) = Len(w) - n
            /\ \A x \in 1..Len(v) : v[x] = w[n + x] /\ n + x \in 1..Len(w)
<1> DEFINE v == SubSeq(w, n + 1, Len(w))
<1>1. v \in Seq(S) /\ Len(v) = Len(w) - n
  OBVIOUS
<1>2. \A x \in 1..Len(w) - n : v[x] = w[n + x] /\ n + x \in 1..Len(w)
  OBVIOUS
<1> QED
  BY <1>1, <1>2

\* Bytes that are read where the receiver is: they are the next of its message, and
\* if they are the last the sender is past it.
LEMMA ReadOff ==
  ASSUME NEW w \in Seq(Nat \X Nat), NEW to \in Nat \X Nat, NEW k \in Nat, NEW p \in Nat,
         NEW n \in 1..Len(w), Leads(w, <<k, p>>, to), p + n <= Whole(k)
  PROVE  /\ k \in 1..N
         /\ \A j \in 1..n : w[j] = <<k, p + j>>
         /\ Leads(SubSeq(w, n + 1, Len(w)), After(<<k, p + n>>), to)
         /\ p + n = Whole(k) => k < to[1]
<1>1. w # <<>> /\ Len(w) \in Nat
  OBVIOUS
<1>2. w[1] = <<k, p + 1>>
  BY <1>1 DEF Leads, Begins
<1>3. w[1][1] \in 1..N
  BY <1>1 DEF Leads, InRange
<1>4. k \in 1..N /\ Whole(k) \in Nat
  BY <1>2, <1>3, Constants
<1>5. ASSUME NEW j \in 1..Len(w), p + j <= Whole(k) PROVE w[j] = <<k, p + j>>
  <2>1. 1 \in 1..Len(w) /\ w[1][1] = k /\ w[1][2] = p + 1
    BY <1>1, <1>2
  <2>2. 1 <= j /\ w[1][2] + (j - 1) <= Whole(w[1][1])
    BY <1>4, <1>5, <2>1
  <2>3. w[j] = <<w[1][1], w[1][2] + (j - 1)>>
    BY <2>1, <2>2 DEF Leads, Runs
  <2> QED
    BY <2>1, <2>3
<1>6. ASSUME NEW j \in 1..n PROVE w[j] = <<k, p + j>>
  <2>1. j \in 1..Len(w) /\ p + j <= Whole(k)
    BY <1>4
  <2> QED
    BY <1>5, <2>1
<1> DEFINE v == SubSeq(w, n + 1, Len(w))
<1>7. v \in Seq(Nat \X Nat) /\ Len(v) = Len(w) - n
  BY Rest
<1>8. \A x \in 1..Len(v) : v[x] = w[n + x] /\ n + x \in 1..Len(w)
  BY Rest
<1> HIDE DEF v
<1>9. InRange(v)
  BY <1>7, <1>8 DEF Leads, InRange
<1>10. Runs(v)
  <2> SUFFICES ASSUME NEW x \in 1..Len(v), NEW y \in 1..Len(v), x <= y,
                      v[x][2] + (y - x) <= Whole(v[x][1])
               PROVE  v[y] = <<v[x][1], v[x][2] + (y - x)>>
    BY DEF Runs
  <2>1. n + x \in 1..Len(w) /\ n + y \in 1..Len(w) /\ n + x <= n + y
    BY <1>7, <1>8
  <2>2. v[x] = w[n + x] /\ v[y] = w[n + y] /\ (n + y) - (n + x) = y - x
    BY <1>7, <1>8
  <2> QED
    BY <2>1, <2>2 DEF Leads, Runs
<1>11. Joins(v)
  <2> SUFFICES ASSUME NEW x \in 1..Len(v) - 1, v[x][2] = Whole(v[x][1])
               PROVE  v[x + 1] = <<v[x][1] + 1, 1>>
    BY DEF Joins
  <2>1. x \in 1..Len(v) /\ x + 1 \in 1..Len(v) /\ n + x \in 1..Len(w) - 1
    BY <1>7
  <2>2. v[x] = w[n + x] /\ v[x + 1] = w[n + (x + 1)]
    BY <1>8, <2>1
  <2>3. n + (x + 1) = (n + x) + 1
    BY <2>1
  <2> QED
    BY <2>1, <2>2, <2>3 DEF Leads, Joins
<1>12. Behind(v, to)
  <2> SUFFICES ASSUME NEW x \in 1..Len(v)
               PROVE  v[x][1] < to[1] \/ (v[x][1] = to[1] /\ v[x][2] <= to[2])
    BY DEF Behind
  <2>1. n + x \in 1..Len(w) /\ v[x] = w[n + x]
    BY <1>8
  <2>2. \A z \in 1..Len(w) : w[z][1] < to[1] \/ (w[z][1] = to[1] /\ w[z][2] <= to[2])
    BY DEF Leads, Behind
  <2> QED
    BY <2>1, <2>2
<1>13. v # <<>> => /\ Len(v) > 0 /\ n + 1 \in 1..Len(w) /\ n \in 1..Len(w) - 1
                   /\ v[1] = w[n + 1] /\ v[Len(v)] = w[Len(w)]
  <2> SUFFICES ASSUME v # <<>>
               PROVE  /\ Len(v) > 0 /\ n + 1 \in 1..Len(w) /\ n \in 1..Len(w) - 1
                      /\ v[1] = w[n + 1] /\ v[Len(v)] = w[Len(w)]
    OBVIOUS
  <2>1. Len(v) \in Nat /\ Len(v) > 0
    BY <1>7
  <2>2. 1 \in 1..Len(v) /\ Len(v) \in 1..Len(v) /\ n + Len(v) = Len(w)
    BY <1>7, <2>1
  <2>3. v[1] = w[n + 1] /\ v[Len(v)] = w[n + Len(v)]
    BY <1>8, <2>2
  <2> QED
    BY <1>7, <2>1, <2>2, <2>3
<1>14. Ends(v, to)
  BY <1>1, <1>13 DEF Leads, Ends
<1>15. w[n] = <<k, p + n>>
  BY <1>6
<1>16. p + n = Whole(k) /\ v # <<>> => w[n + 1] = <<k + 1, 1>>
  <2> SUFFICES ASSUME p + n = Whole(k), v # <<>> PROVE w[n + 1] = <<k + 1, 1>>
    OBVIOUS
  <2>1. n \in 1..Len(w) - 1 /\ w[n][2] = Whole(w[n][1])
    BY <1>13, <1>15
  <2>2. w[n + 1] = <<w[n][1] + 1, 1>>
    BY <2>1 DEF Leads, Joins
  <2> QED
    BY <1>15, <2>2
<1>17. p + n # Whole(k) /\ v # <<>> => w[n + 1] = <<k, p + n + 1>>
  <2> SUFFICES ASSUME p + n # Whole(k), v # <<>> PROVE w[n + 1] = <<k, p + n + 1>>
    OBVIOUS
  <2>1. n + 1 \in 1..Len(w)
    BY <1>13
  <2>2. n \in Nat /\ Whole(k) \in Nat
    BY <1>4
  <2>3. p + (n + 1) <= Whole(k)
    BY <2>2, OneMore
  <2>4. p + (n + 1) = p + n + 1
    BY <2>2
  <2> QED
    BY <1>5, <2>1, <2>3, <2>4
<1>18. Begins(v, After(<<k, p + n>>))
  <2> SUFFICES ASSUME v # <<>>
               PROVE  v[1] = <<After(<<k, p + n>>)[1], After(<<k, p + n>>)[2] + 1>>
    BY DEF Begins
  <2>1. v[1] = w[n + 1]
    BY <1>13
  <2>2. CASE p + n = Whole(k)
    <3>1. v[1] = <<k + 1, 1>>
      BY <1>16, <2>1, <2>2
    <3>2. After(<<k, p + n>>) = <<k + 1, 0>>
      BY <2>2, AfterPlace
    <3> QED
      BY <3>1, <3>2
  <2>3. CASE p + n # Whole(k)
    <3>1. v[1] = <<k, p + n + 1>>
      BY <1>17, <2>1, <2>3
    <3>2. After(<<k, p + n>>) = <<k, p + n>>
      BY <2>3, AfterPlace
    <3> QED
      BY <3>1, <3>2
  <2> QED
    BY <2>2, <2>3
<1>19. v = <<>> => n = Len(w)
  BY <1>7
<1>20. v = <<>> => After(<<k, p + n>>) = to
  BY <1>1, <1>15, <1>19 DEF Leads, Ends
<1>21. p + n = Whole(k) => k < to[1]
  <2> SUFFICES ASSUME p + n = Whole(k) PROVE k < to[1]
    OBVIOUS
  <2>1. CASE v = <<>>
    BY <1>20, <2>1, AfterPlace
  <2>2. CASE v # <<>>
    <3>0. w[n + 1] = <<k + 1, 1>> /\ n + 1 \in 1..Len(w)
      BY <1>13, <1>16, <2>2
    <3>1. w[n + 1][1] = k + 1 /\ n + 1 \in 1..Len(w)
      BY <3>0
    <3>2. w[n + 1][1] < to[1] \/ w[n + 1][1] = to[1]
      BY <3>1 DEF Leads, Behind
    <3>3. k + 1 < to[1] \/ k + 1 = to[1]
      BY <3>1, <3>2
    <3>4. to[1] \in Nat
      OBVIOUS
    <3> QED
      BY <3>3, <3>4
  <2> QED
    BY <2>1, <2>2
<1> QED
  BY <1>4, <1>6, <1>9, <1>10, <1>11, <1>12, <1>14, <1>18, <1>20, <1>21 DEF Leads, v

\* Bytes of one message that are written where the sender is.
LEMMA Written ==
  ASSUME NEW w \in Seq(Nat \X Nat), NEW from \in Nat \X Nat, NEW k \in 1..N, NEW p \in Nat,
         NEW b \in Seq(Nat \X Nat), Leads(w, from, <<k, p>>),
         Len(b) > 0, p + Len(b) <= Whole(k), \A j \in 1..Len(b) : b[j] = <<k, p + j>>
  PROVE  Leads(w \o b, from, After(<<k, p + Len(b)>>))
<1> DEFINE l == Len(w)  n == Len(b)  v == w \o b  to == After(<<k, p + n>>)
<1>1. l \in Nat /\ n \in Nat \ {0} /\ Whole(k) \in Nat /\ k \in Nat
  BY Constants
<1>2. v \in Seq(Nat \X Nat) /\ Len(v) = l + n
  OBVIOUS
<1>0. \A x \in 1..Len(v) : x \in Nat /\ x >= 1 /\ (x > l => x - l \in 1..n)
  BY <1>1, <1>2
<1>3. \A x \in 1..l : v[x] = w[x]
  OBVIOUS
<1>4. ASSUME NEW x \in 1..Len(v), x > l PROVE v[x] = <<k, p + (x - l)>> /\ x - l \in 1..n
  <2>1. x - l \in 1..n
    BY <1>1, <1>2, <1>4
  <2>2. v[x] = b[x - l]
    BY <1>2, <1>4
  <2> QED
    BY <2>1, <2>2
<1> HIDE DEF v, l, n
<1>5. v # <<>> /\ Len(v) \in 1..Len(v) /\ 1 \in 1..Len(v)
  BY <1>1, <1>2
<1>6. l > 0 => /\ After(w[l]) = <<k, p>> /\ l \in 1..l /\ w # <<>>
               /\ w[l][1] \in 1..N /\ w[l][2] \in 1..Whole(w[l][1])
  BY <1>1 DEF l, Leads, Ends, InRange
<1>7. InRange(v)
  <2> SUFFICES ASSUME NEW x \in 1..Len(v)
               PROVE  v[x][1] \in 1..N /\ v[x][2] \in 1..Whole(v[x][1])
    BY DEF InRange
  <2>1. CASE x <= l
    <3>1. x \in 1..l
      BY <1>1, <2>1
    <3> QED
      BY <1>3, <3>1 DEF l, Leads, InRange
  <2>2. CASE x > l
    <3>1. v[x][1] = k /\ v[x][2] = p + (x - l)
      BY <1>4, <2>2
    <3>2. x - l \in 1..n /\ p + n <= Whole(k)
      BY <1>4, <2>2 DEF n
    <3> QED
      BY <1>1, <3>1, <3>2, SMTT(30)
  <2> QED
    BY <1>1, <1>2, <2>1, <2>2
<1>8. Runs(v)
  <2> SUFFICES ASSUME NEW x \in 1..Len(v), NEW y \in 1..Len(v), x <= y,
                      v[x][2] + (y - x) <= Whole(v[x][1])
               PROVE  v[y] = <<v[x][1], v[x][2] + (y - x)>>
    BY DEF Runs
  <2>0. x \in Nat /\ y \in Nat /\ x >= 1 /\ y >= 1
    BY <1>0
  <2>1. CASE y <= l
    <3>1. x \in 1..l /\ y \in 1..l
      BY <1>1, <2>0, <2>1
    <3> QED
      BY <1>3, <3>1 DEF l, Leads, Runs
  <2>2. CASE x > l
    <3>0. y > l
      BY <1>1, <2>0, <2>2
    <3>1. v[x] = <<k, p + (x - l)>>
      BY <1>4, <2>2
    <3>2. v[y] = <<k, p + (y - l)>>
      BY <1>4, <3>0
    <3>3. (p + (x - l)) + (y - x) = p + (y - l)
      BY <2>0, <1>1
    <3>4. v[x][1] = k /\ v[x][2] = p + (x - l)
      BY <3>1
    <3> QED
      BY <3>2, <3>3, <3>4
  <2>3. CASE x <= l /\ y > l
    <3>0. x \in 1..l /\ l \in 1..l
      BY <1>1, <2>0, <2>3
    <3>1. v[x] = w[x]
      BY <1>3, <3>0
    <3> DEFINE q == w[x][2]  h == w[x][1]
    <3>2. h \in 1..N /\ q \in 1..Whole(h)
      BY <3>0 DEF l, Leads, InRange
    <3>3. Whole(h) \in Nat
      BY <3>2, Constants
    <3>. HIDE DEF q, h
    <3>4. q + (y - x) <= Whole(h)
      BY <3>1 DEF q, h
    <3>5. q \in Nat
      BY <3>2, <3>3
    <3>6. q + (l - x) < Whole(h) /\ x <= l
      BY <1>1, <2>0, <2>3, <3>3, <3>4, <3>5
    <3>7. q + (l - x) <= Whole(h)
      BY <3>6, <1>1, <2>0, <3>3, <3>5
    <3>8. w[l] = <<h, q + (l - x)>>
      BY <3>0, <3>6, <3>7 DEF l, Leads, Runs, q, h
    <3>9. q + (l - x) # Whole(h)
      BY <3>6, <1>1, <2>0, <3>3, <3>5
    <3>10. q + (l - x) \in Nat /\ h \in Nat
      BY <3>6, <1>1, <2>0, <3>5, <3>2, Constants
    <3>11. After(w[l]) = w[l]
      BY <3>8, <3>9, <3>10, AfterPlace
    <3>12. l > 0
      BY <3>0, <1>1
    <3>13. w[l] = <<k, p>>
      BY <1>6, <3>11, <3>12
    <3>14. h = k /\ q + (l - x) = p
      BY <3>8, <3>13
    <3>15. v[y] = <<k, p + (y - l)>>
      BY <1>4, <2>3
    <3>16. p + (y - l) = q + (y - x)
      BY <1>1, <2>0, <3>5, <3>14
    <3> QED
      BY <3>1, <3>14, <3>15, <3>16 DEF q, h
  <2>4. y <= l \/ x > l \/ (x <= l /\ y > l)
    BY <1>1, <2>0
  <2> QED
    BY <2>1, <2>2, <2>3, <2>4
<1>9. Joins(v)
  <2> SUFFICES ASSUME NEW x \in 1..Len(v) - 1, v[x][2] = Whole(v[x][1])
               PROVE  v[x + 1] = <<v[x][1] + 1, 1>>
    BY DEF Joins
  <2> DEFINE z == Len(v)
  <2>01. z \in Nat /\ z = l + n /\ x \in 1..z - 1
    BY <1>1, <1>2
  <2> HIDE DEF z
  <2>02. x \in 1..z /\ x + 1 \in 1..z /\ x \in Nat /\ x >= 1 /\ x < z
    BY <2>01, SMTT(30)
  <2>0. x \in 1..Len(v) /\ x + 1 \in 1..Len(v) /\ x \in Nat /\ x >= 1 /\ x < l + n
    BY <2>01, <2>02 DEF z
  <2>1. CASE x < l
    <3>0. l \in Nat /\ x \in Nat /\ x >= 1
      BY <1>1, <2>0
    <3>1. x \in 1..l /\ x + 1 \in 1..l /\ x \in 1..l - 1
      BY <2>1, <3>0
    <3>2. v[x] = w[x] /\ v[x + 1] = w[x + 1]
      BY <1>3, <3>1
    <3> QED
      BY <3>1, <3>2 DEF l, Leads, Joins
  <2>2. CASE x = l
    <3>0. l > 0 /\ x \in 1..l /\ x + 1 > l /\ (x + 1) - l = 1
      BY <1>1, <2>0, <2>2
    <3>1. v[x] = w[l]
      BY <1>3, <3>0, <2>2
    <3>2. After(w[l]) = <<w[l][1] + 1, 0>>
      BY <2>2, <3>1 DEF After
    <3>3. w[l][1] + 1 = k /\ p = 0
      BY <1>6, <3>0, <3>2, SMTT(30)
    <3>4. v[x + 1] = <<k, p + 1>>
      BY <1>4, <2>0, <3>0
    <3>5. p + 1 = 1
      BY <3>3
    <3> QED
      BY <3>1, <3>3, <3>4, <3>5
  <2>3. CASE x > l
    <3>1. v[x][1] = k /\ v[x][2] = p + (x - l)
      <4>1. v[x] = <<k, p + (x - l)>>
        BY <1>4, <2>0, <2>3
      <4> QED
        BY <4>1
    <3>2. x - l < n /\ p + n <= Whole(k)
      BY <1>1, <2>0, SMTT(30) DEF n
    <3>3. p + (x - l) < Whole(k)
      BY <1>1, <2>0, <3>2
    <3>4. p + (x - l) # Whole(k)
      BY <1>1, <2>0, <3>3
    <3> QED
      BY <3>1, <3>4
  <2> QED
    BY <1>1, <2>0, <2>1, <2>2, <2>3, SMTT(30)
<1>10. Begins(v, from)
  <2>1. CASE l = 0
    <3>1. w = <<>> /\ from = <<k, p>>
      BY <2>1 DEF l, Leads
    <3>2. v[1] = <<k, p + (1 - l)>> /\ 1 - l = 1
      BY <1>4, <1>5, <2>1
    <3> QED
      BY <3>1, <3>2 DEF Begins
  <2>2. CASE l > 0
    <3>1. v[1] = w[1] /\ w # <<>>
      BY <1>1, <1>3, <1>6, <2>2
    <3> QED
      BY <3>1 DEF Leads, Begins
  <2> QED
    BY <1>1, <2>1, <2>2
<1>11. Ends(v, to)
  <2>1. v[Len(v)] = <<k, p + n>>
    <3>1. Len(v) > l /\ Len(v) - l = n
      BY <1>1, <1>2
    <3> QED
      BY <1>4, <1>5, <3>1
  <2> QED
    BY <2>1 DEF Ends
<1>12. Behind(v, to)
  <2> SUFFICES ASSUME NEW x \in 1..Len(v)
               PROVE  v[x][1] < to[1] \/ (v[x][1] = to[1] /\ v[x][2] <= to[2])
    BY DEF Behind
  <2>0. x \in Nat /\ x >= 1
    BY <1>0
  <2>1. v[x][1] \in 1..N /\ v[x][2] \in 1..Whole(v[x][1])
    BY <1>7 DEF InRange
  <2> DEFINE h == v[x][1]  q == v[x][2]
  <2>11. h \in 1..N /\ q \in 1..Whole(h)
    BY <2>1
  <2> HIDE DEF h, q
  <2>2. h \in Nat /\ Whole(h) \in Nat
    BY <2>11, Constants
  <2>3. q \in Nat
    BY <2>11, <2>2
  <2>4. h < k \/ (h = k /\ q <= p + n)
    <3>1. CASE x <= l
      <4>1. x \in 1..l
        BY <1>1, <2>0, <3>1
      <4>2. v[x] = w[x]
        BY <1>3, <4>1
      <4>3. h < k \/ (h = k /\ q <= p)
        BY <4>1, <4>2 DEF l, Leads, Behind, h, q
      <4> QED
        BY <1>1, <2>2, <2>3, <4>3
    <3>2. CASE x > l
      <4>1. h = k /\ q = p + (x - l) /\ x - l \in 1..n
        BY <1>4, <3>2 DEF h, q
      <4>2. p + (x - l) <= p + n
        BY <1>1, <4>1
      <4> QED
        BY <4>1, <4>2
    <3> QED
      BY <1>1, <2>0, <3>1, <3>2
  <2>5. CASE p + n = Whole(k)
    <3>1. to = <<k + 1, 0>>
      BY <2>5, <1>1, AfterPlace DEF to
    <3>2. h < k + 1
      BY <1>1, <2>2, <2>4
    <3> QED
      BY <3>1, <3>2 DEF h
  <2>6. CASE p + n # Whole(k)
    <3>0. p + n \in Nat
      BY <1>1
    <3>1. to = <<k, p + n>>
      BY <2>6, <1>1, <3>0, AfterPlace DEF to
    <3> QED
      BY <2>4, <3>1 DEF h, q
  <2> QED
    BY <2>5, <2>6
<1>13. v # <<>>
  BY <1>5
<1> QED
  BY <1>7, <1>8, <1>9, <1>10, <1>11, <1>12, <1>13 DEF Leads, v, n

-----------------------------------------------------------------------------
(* The invariant.                                                          *)

\* The types, and that what is begun is not finished.
Types ==
  /\ StreamTypeOK
  /\ wire \in Seq(Nat \X Nat) /\ buf \in Seq(Nat \X Nat)
  /\ place = "len" => sent < N /\ count < W
  /\ place = "data" => sent < N /\ count < Length[sent + 1]

\* The message that is received, and the place the receiver is at.
Current == Len(got) + 1
ReceiverPlace == IF at = "len" THEN Len(buf) ELSE W + Len(buf)

\* What was read is a piece of the current message.
ReadSoFar ==
  /\ at = "len" => \A j \in 1..Len(buf) : buf[j] = <<Current, j>>
  /\ at = "data" => /\ Current \in 1..N /\ len = Length[Current]
                    /\ \A j \in 1..Len(buf) : buf[j] = <<Current, W + j>>

\* The place the sender is at; that of one that closed is any.
SenderAt(p) ==
  /\ place = "idle" => p = 0
  /\ place = "len" => p = count
  /\ place = "data" => p = W + count

Stream ==
  /\ ReadSoFar
  /\ \E p \in Nat : SenderAt(p) /\ Leads(wire, <<Current, ReceiverPlace>>, <<sent + 1, p>>)

\* Inductive.
Inv == Types /\ (torn \/ Ended \/ Stream)

LEMMA SliceBound ==
  ASSUME NEW n \in Nat, NEW of \in Nat, n <= of, NEW x \in 1..Slice(n, of)
  PROVE  x \in Nat /\ x >= 1 /\ n + x <= of
<1> QED
  BY Constants DEF Slice

LEMMA Joined ==
  ASSUME NEW S, NEW u \in Seq(S), NEW v \in Seq(S)
  PROVE  /\ u \o v \in Seq(S) /\ Len(u \o v) = Len(u) + Len(v)
         /\ \A x \in 1..Len(u) : (u \o v)[x] = u[x]
         /\ \A x \in 1..Len(v) : (u \o v)[Len(u) + x] = v[x]
<1> QED
  OBVIOUS

LEMMA Appended ==
  ASSUME NEW S, NEW u \in Seq(S), NEW e \in S
  PROVE  Append(u, e) \in Seq(S) /\ Len(Append(u, e)) = Len(u) + 1
<1> QED
  OBVIOUS

LEMMA Front ==
  ASSUME NEW S, NEW u \in Seq(S), NEW n \in 1..Len(u)
  PROVE  /\ SubSeq(u, 1, n) \in Seq(S) /\ Len(SubSeq(u, 1, n)) = n
         /\ \A x \in 1..n : SubSeq(u, 1, n)[x] = u[x]
<1> QED
  OBVIOUS

LEMMA Piece ==
  ASSUME NEW k \in Nat, NEW from \in Nat, NEW to \in Nat, from <= to
  PROVE  /\ Bytes(k, from, to) \in Seq(Nat \X Nat) /\ Len(Bytes(k, from, to)) = to - from
         /\ \A x \in 1..to - from : Bytes(k, from, to)[x] = <<k, from + x>>
<1> DEFINE n == to - from
<1>1. n \in Nat
  OBVIOUS
<1>2. \A x \in 1..n : Byte(k, from + x) = <<k, from + x>> /\ <<k, from + x>> \in Nat \X Nat
  BY DEF Byte
<1>3. Bytes(k, from, to) = [p \in 1..n |-> Byte(k, from + p)]
  BY DEF Bytes
<1> HIDE DEF n
<1> DEFINE f == [p \in 1..n |-> Byte(k, from + p)]
<1>4. f \in [1..n -> Nat \X Nat]
  BY <1>2
<1>5. \A x \in 1..n : f[x] = <<k, from + x>>
  BY <1>2
<1> HIDE DEF f
<1>6. f \in Seq(Nat \X Nat) /\ Len(f) = n
  <2>1. DOMAIN f = 1..n
    BY <1>4
  <2> QED
    BY <1>1, <1>4, <2>1
<1> QED
  BY <1>3, <1>5, <1>6 DEF f, n

\* What a write for the length takes: the rest of the length, then other bytes.
LEMMA LengthPiece ==
  ASSUME Types, place = "len"
  PROVE  /\ LengthBytes \in Seq(Nat \X Nat) /\ Len(LengthBytes) = W
         /\ \A x \in 1..W - count : LengthBytes[x] = <<sent + 1, count + x>>
<1> DEFINE u == Bytes(sent + 1, count, W)  v == [p \in 1..count |-> Junk]
<1>1. count \in Nat /\ W \in Nat /\ count <= W /\ sent + 1 \in Nat
  BY Constants DEF Types, StreamTypeOK
<1>2. u \in Seq(Nat \X Nat) /\ Len(u) = W - count
  BY <1>1, Piece
<1>3. \A x \in 1..W - count : u[x] = <<sent + 1, count + x>>
  BY <1>1, Piece
<1>4. Junk \in Nat \X Nat
  BY DEF Junk, Byte
<1>5. v \in Seq(Nat \X Nat) /\ Len(v) = count
  BY <1>1, <1>4
<1> HIDE DEF u, v
<1>6. u \o v \in Seq(Nat \X Nat) /\ Len(u \o v) = Len(u) + Len(v)
  BY <1>2, <1>5, Joined
<1>7. \A x \in 1..Len(u) : (u \o v)[x] = u[x]
  BY <1>2, <1>5, Joined
<1>8. Len(u) + Len(v) = W
  BY <1>1, <1>2, <1>5
<1> QED
  BY <1>2, <1>3, <1>6, <1>7, <1>8 DEF LengthBytes, u, v

\* What a write adds to the connection.
LEMMA WriteAdds ==
  ASSUME Types, NEW bytes \in Seq(Nat \X Nat), NEW n, Write(n, bytes)
  PROVE  /\ n \in Nat /\ n >= 1 /\ n \in 1..Len(bytes)
         /\ wire' = wire \o SubSeq(bytes, 1, n)
         /\ wire' \in Seq(Nat \X Nat) /\ Len(wire') <= Room
<1>1. Len(wire) \in Nat /\ Len(bytes) \in Nat /\ Room \in Nat
  BY Constants DEF Types
<1>2. n \in 1..Len(bytes) /\ n <= Room - Len(wire) /\ n \in Nat /\ n >= 1
  BY <1>1 DEF Write, Smaller
<1>3. wire' = wire \o SubSeq(bytes, 1, n)
  BY DEF Write
<1>4. SubSeq(bytes, 1, n) \in Seq(Nat \X Nat) /\ Len(SubSeq(bytes, 1, n)) = n
  BY <1>2, Front
<1>5. wire' \in Seq(Nat \X Nat) /\ Len(wire') = Len(wire) + n
  BY <1>3, <1>4, Joined DEF Types
<1> QED
  BY <1>1, <1>2, <1>3, <1>5

\* What a read takes from it.
LEMMA ReadTakes ==
  ASSUME Types, NEW n, Read(n)
  PROVE  LET bytes == buf \o SubSeq(wire, 1, n)
         IN /\ n \in Nat /\ n >= 1 /\ n \in 1..Len(wire)
            /\ wire' = SubSeq(wire, n + 1, Len(wire))
            /\ wire' \in Seq(Nat \X Nat) /\ Len(wire') <= Room
            /\ bytes \in Seq(Nat \X Nat) /\ Len(bytes) = Len(buf) + n
            /\ \A x \in 1..Len(buf) : bytes[x] = buf[x]
            /\ \A x \in 1..n : bytes[Len(buf) + x] = wire[x]
<1> DEFINE v == SubSeq(wire, 1, n)
<1>1. Len(wire) \in Nat /\ Len(buf) \in Nat /\ Room \in Nat /\ Len(wire) <= Room
  BY Constants DEF Types, StreamTypeOK
<1>2. n \in 1..Len(wire) /\ n \in Nat /\ n >= 1
  BY <1>1 DEF Read
<1>3. wire' = SubSeq(wire, n + 1, Len(wire))
  BY DEF Read
<1>4. wire' \in Seq(Nat \X Nat) /\ Len(wire') = Len(wire) - n
  BY <1>2, <1>3, Rest DEF Types
<1>5. v \in Seq(Nat \X Nat) /\ Len(v) = n /\ \A x \in 1..n : v[x] = wire[x]
  BY <1>2, Front DEF Types
<1> HIDE DEF v
<1>6. buf \in Seq(Nat \X Nat)
  BY DEF Types
<1>7. buf \o v \in Seq(Nat \X Nat) /\ Len(buf \o v) = Len(buf) + Len(v)
  BY <1>5, <1>6, Joined
<1>8. \A x \in 1..Len(buf) : (buf \o v)[x] = buf[x]
  BY <1>5, <1>6, Joined
<1>9. \A x \in 1..Len(v) : (buf \o v)[Len(buf) + x] = v[x]
  BY <1>5, <1>6, Joined
<1> QED
  BY <1>1, <1>2, <1>3, <1>4, <1>5, <1>7, <1>8, <1>9 DEF v

LEMMA MeantNat == \A bytes : Meant(bytes) \subseteq Nat
<1> QED
  BY Constants DEF Meant

LEMMA MessageRange == \A bytes : Message(bytes) \in 0..N
<1> QED
  BY Constants DEF Message
-----------------------------------------------------------------------------
(* Types.                                                                  *)

LEMMA TypesInit == Init => Types
<1> SUFFICES ASSUME Init PROVE Types
  OBVIOUS
<1> USE Constants DEF Init
<1>1. wire = <<>> /\ buf = <<>> /\ Len(wire) = 0 /\ Len(buf) = 0
  OBVIOUS
<1>2. StreamTypeOK
  <2>1. got \in Seq(0..N)
    OBVIOUS
  <2>2. Len(wire) <= Room /\ Len(buf) < W /\ 0 \in 0..N
    BY <1>1
  <2> QED
    BY <2>1, <2>2 DEF StreamTypeOK
<1>3. wire \in Seq(Nat \X Nat) /\ buf \in Seq(Nat \X Nat)
  OBVIOUS
<1> QED
  BY <1>2, <1>3 DEF Types

LEMMA TypesStep == Types /\ [Next]_svars => Types'
<1> SUFFICES ASSUME Types, [Next]_svars PROVE Types'
  OBVIOUS
<1> USE Constants DEF Types, StreamTypeOK
<1>1. CASE Send
  BY <1>1 DEF Send, receiver
<1>2. CASE WriteLength
  <2>1. PICK n \in 1..W : /\ Write(n, LengthBytes)
                          /\ torn' = (torn \/ count + n > W)
                          /\ IF count + n < W THEN count' = count + n /\ UNCHANGED place
                                              ELSE count' = 0 /\ place' = "data"
    BY <1>2 DEF WriteLength
  <2>2. place = "len" /\ UNCHANGED <<sent, at, len, buf, got>>
    BY <1>2 DEF WriteLength, receiver
  <2>3. LengthBytes \in Seq(Nat \X Nat)
    BY <2>2, LengthPiece
  <2>4. wire' \in Seq(Nat \X Nat) /\ Len(wire') <= Room
    BY <2>1, <2>3, WriteAdds
  <2>5. sent + 1 \in 1..N /\ torn' \in BOOLEAN
    BY <2>1, <2>2
  <2>6. CASE count + n < W
    BY <2>1, <2>2, <2>4, <2>5, <2>6
  <2>7. CASE ~(count + n < W)
    BY <2>1, <2>2, <2>4, <2>5, <2>7
  <2> QED
    BY <2>6, <2>7
<1>3. CASE WriteData
  <2> DEFINE k == sent + 1  size == Slice(count, Length[k])
             bytes == Bytes(k, W + count, W + count + size)
  <2>1. PICK n \in 1..size :
          /\ Write(n, bytes)
          /\ IF count + n < Length[k] THEN count' = count + n /\ UNCHANGED <<place, sent>>
                                      ELSE count' = 0 /\ place' = "idle" /\ sent' = k
    BY <1>3 DEF WriteData
  <2>2. place = "data" /\ UNCHANGED <<at, len, buf, got, torn>> /\ k \in 1..N
    BY <1>3 DEF WriteData, receiver
  <2>3. Length[k] \in Nat /\ count <= Length[k] /\ count \in Nat
    BY <2>2
  <2>4. n \in Nat /\ size \in Nat
    BY <2>3 DEF Slice
  <2>5. bytes \in Seq(Nat \X Nat)
    <3>1. W + count \in Nat /\ W + count + size \in Nat /\ W + count <= W + count + size
      <4>1. size \in Nat
        BY <2>4
      <4> HIDE DEF size
      <4> QED
        BY <2>3, <4>1
    <3>2. k \in Nat
      BY <2>2
    <3> QED
      BY <3>1, <3>2, Piece
  <2> HIDE DEF bytes
  <2>6. wire' \in Seq(Nat \X Nat) /\ Len(wire') <= Room
    BY <2>1, <2>5, WriteAdds
  <2>7. CASE count + n < Length[k]
    BY <2>1, <2>2, <2>3, <2>4, <2>6, <2>7
  <2>8. CASE ~(count + n < Length[k])
    BY <2>1, <2>2, <2>3, <2>4, <2>6, <2>8
  <2> QED
    BY <2>7, <2>8
<1>4. CASE Close \/ WriteFails
  BY <1>4 DEF WriteFails, Close, receiver
<1>5. CASE ReadLength
  <2> DEFINE whole(n) == buf \o SubSeq(wire, 1, n)
  <2>1. PICK n \in 1..W : /\ Read(n)
          /\ IF Len(whole(n)) < W
             THEN buf' = whole(n) /\ UNCHANGED <<at, len, torn>>
             ELSE /\ len' \in Meant(SubSeq(whole(n), 1, W))
                  /\ buf' = <<>>
                  /\ torn' = (torn \/ Len(whole(n)) > W)
                  /\ at' \in {"data"} \cup (IF Len(whole(n)) > W THEN {"gone"} ELSE {})
    BY <1>5 DEF ReadLength
  <2>2. at = "len" /\ UNCHANGED <<place, count, sent, got>>
    BY <1>5 DEF ReadLength, sender
  <2>3. /\ wire' \in Seq(Nat \X Nat) /\ Len(wire') <= Room
        /\ whole(n) \in Seq(Nat \X Nat) /\ Len(whole(n)) = Len(buf) + n
    BY <2>1, ReadTakes
  <2>4. \A bytes : Meant(bytes) \subseteq Nat
    BY MeantNat
  <2> HIDE DEF whole, Types
  <2>5. CASE Len(whole(n)) < W
    BY <2>1, <2>2, <2>3, <2>5 DEF Types
  <2>6. CASE ~(Len(whole(n)) < W)
    <3>1. len' \in Nat
      BY <2>1, <2>4, <2>6
    <3>2. buf' = <<>> /\ at' \in {"data", "gone"} /\ torn' \in BOOLEAN
      BY <2>1, <2>6 DEF Types
    <3> QED
      BY <2>2, <2>3, <3>1, <3>2 DEF Types
  <2> QED
    BY <2>5, <2>6
<1>6. CASE ReadData
  <2> DEFINE whole(n) == buf \o SubSeq(wire, 1, n)
  <2>1. PICK n \in 1..Slice(Len(buf), len) : /\ Read(n)
          /\ IF Len(whole(n)) < len
             THEN buf' = whole(n) /\ UNCHANGED <<at, got>>
             ELSE buf' = <<>> /\ at' = "len" /\ got' = Append(got, Message(whole(n)))
    BY <1>6 DEF ReadData
  <2>2. at = "data" /\ UNCHANGED <<place, count, sent, len, torn>>
    BY <1>6 DEF ReadData, sender
  <2>3. /\ wire' \in Seq(Nat \X Nat) /\ Len(wire') <= Room
        /\ whole(n) \in Seq(Nat \X Nat) /\ Len(whole(n)) = Len(buf) + n
    BY <2>1, ReadTakes
  <2>4. \A bytes : Message(bytes) \in 0..N
    BY MessageRange
  <2> HIDE DEF whole, Types
  <2>5. CASE Len(whole(n)) < len
    BY <2>1, <2>2, <2>3, <2>5 DEF Types
  <2>6. CASE ~(Len(whole(n)) < len)
    <3>1. got' \in Seq(0..N)
      <4>1. got \in Seq(0..N) /\ Message(whole(n)) \in 0..N
        BY <2>4 DEF Types
      <4> QED
        BY <2>1, <2>6, <4>1, Appended
    <3>2. buf' = <<>> /\ at' = "len"
      BY <2>1, <2>6
    <3> QED
      BY <2>2, <2>3, <3>1, <3>2 DEF Types
  <2> QED
    BY <2>5, <2>6
<1>7. CASE ReadNothing \/ Leave
  BY <1>7 DEF ReadNothing, Leave, sender
<1>8. CASE UNCHANGED svars
  BY <1>8 DEF svars
<1> QED
  BY <1>1, <1>2, <1>3, <1>4, <1>5, <1>6, <1>7, <1>8 DEF Next


-----------------------------------------------------------------------------
(* The sender.                                                             *)

LEMMA Places ==
  ASSUME Types
  PROVE  /\ Current \in Nat /\ ReceiverPlace \in Nat
         /\ <<Current, ReceiverPlace>> \in Nat \X Nat
<1> QED
  BY Constants DEF Types, StreamTypeOK, Current, ReceiverPlace

LEMMA Unread ==
  ASSUME UNCHANGED receiver
  PROVE  Current' = Current /\ ReceiverPlace' = ReceiverPlace /\ ReadSoFar' = ReadSoFar
<1> QED
  BY DEF receiver, Current, ReceiverPlace, ReadSoFar

LEMMA StreamWriteLength ==
  ASSUME Types, Stream, WriteLength, ~torn'
  PROVE  Stream'
<1>1. PICK n \in 1..W : /\ Write(n, LengthBytes)
                        /\ torn' = (torn \/ count + n > W)
                        /\ IF count + n < W THEN count' = count + n /\ UNCHANGED place
                                            ELSE count' = 0 /\ place' = "data"
  BY DEF WriteLength
<1>2. place = "len" /\ UNCHANGED <<sent, receiver>>
  BY DEF WriteLength
<1> DEFINE k == sent + 1  b == SubSeq(LengthBytes, 1, n)
<1>3. k \in 1..N /\ count \in Nat /\ count < W
  BY <1>2, Constants DEF Types, StreamTypeOK
<1>4. W \in Nat /\ Whole(k) \in Nat /\ W < Whole(k) /\ k \in Nat
  BY <1>3, Constants DEF Whole
<1>5. n \in Nat /\ n >= 1 /\ n \in 1..Len(LengthBytes) /\ wire' = wire \o b
  BY <1>1, <1>2, LengthPiece, WriteAdds
<1>6. count + n <= W
  <2>1. ~(count + n > W)
    BY <1>1, Zenon
  <2> QED
    BY <1>3, <1>4, <1>5, <2>1
<1>7. b \in Seq(Nat \X Nat) /\ Len(b) = n
  BY <1>2, <1>5, LengthPiece, Front
<1>8. ASSUME NEW j \in 1..n PROVE b[j] = <<k, count + j>>
  <2>1. b[j] = LengthBytes[j]
    BY <1>2, <1>5, LengthPiece, Front
  <2>2. j \in 1..W - count
    BY <1>3, <1>4, <1>5, <1>6
  <2> QED
    BY <1>2, <2>1, <2>2, LengthPiece
<1>9. Leads(wire, <<Current, ReceiverPlace>>, <<k, count>>)
  BY <1>2 DEF Stream, SenderAt
<1> HIDE DEF b, k
<1>10. count + n \in Nat /\ count + n # Whole(k) /\ count + n <= Whole(k)
  BY <1>3, <1>4, <1>5, <1>6
<1>11. Leads(wire \o b, <<Current, ReceiverPlace>>, After(<<k, count + Len(b)>>))
  <2>1. /\ Len(b) > 0 /\ count + Len(b) <= Whole(k)
        /\ \A j \in 1..Len(b) : b[j] = <<k, count + j>>
    BY <1>5, <1>7, <1>8, <1>10
  <2>2. wire \in Seq(Nat \X Nat)
    BY DEF Types
  <2> QED
    BY <1>3, <1>7, <1>9, <2>1, <2>2, Places, Written
<1>12. After(<<k, count + n>>) = <<k, count + n>>
  BY <1>4, <1>10, AfterPlace
<1> PICK q \in Nat : q = count + n
  BY <1>10
<1>13. Leads(wire', <<Current', ReceiverPlace'>>, <<sent' + 1, q>>)
  BY <1>2, <1>5, <1>7, <1>11, <1>12, Unread DEF k
<1>14. SenderAt(q)'
  <2>1. CASE count + n < W
    BY <1>1, <1>2, <2>1 DEF SenderAt
  <2>2. CASE ~(count + n < W)
    <3>1. q = W + 0 /\ count' = 0 /\ place' = "data"
      BY <1>1, <1>3, <1>4, <1>5, <1>6, <2>2
    <3> QED
      BY <3>1 DEF SenderAt
  <2> QED
    BY <2>1, <2>2
<1> QED
  BY <1>2, <1>13, <1>14, Unread DEF Stream

LEMMA StreamWriteData ==
  ASSUME Types, Stream, WriteData
  PROVE  Stream'
<1> DEFINE k == sent + 1  size == Slice(count, Length[k])
           bytes == Bytes(k, W + count, W + count + size)
<1>1. PICK n \in 1..size :
        /\ Write(n, bytes)
        /\ IF count + n < Length[k] THEN count' = count + n /\ UNCHANGED <<place, sent>>
                                    ELSE count' = 0 /\ place' = "idle" /\ sent' = k
  BY DEF WriteData
<1>2. place = "data" /\ UNCHANGED receiver
  BY DEF WriteData
<1>3. k \in 1..N /\ count \in Nat /\ count < Length[k]
  BY <1>2, Constants DEF Types, StreamTypeOK
<1>4. W \in Nat /\ Whole(k) = W + Length[k] /\ Length[k] \in Nat /\ k \in Nat
  BY <1>3, Constants DEF Whole
<1>5. size \in Nat
  BY <1>3, <1>4, Constants DEF Slice
<1>6. n \in Nat /\ n >= 1 /\ count + n <= Length[k]
  BY <1>3, <1>4, <1>1, SliceBound
<1> DEFINE p == W + count
<1>70. bytes = Bytes(k, p, p + size)
  OBVIOUS
<1> HIDE DEF size, k, p, bytes
<1>7. p \in Nat /\ p + size \in Nat /\ p <= p + size /\ (p + size) - p = size
  BY <1>3, <1>4, <1>5 DEF p
<1>8. /\ bytes \in Seq(Nat \X Nat) /\ Len(bytes) = size
      /\ \A x \in 1..size : bytes[x] = <<k, p + x>>
  <2> DEFINE to == p + size
  <2>1. to \in Nat /\ p <= to /\ to - p = size
    BY <1>7
  <2> HIDE DEF to
  <2>2. /\ Bytes(k, p, to) \in Seq(Nat \X Nat) /\ Len(Bytes(k, p, to)) = to - p
        /\ \A x \in 1..to - p : Bytes(k, p, to)[x] = <<k, p + x>>
    BY <1>4, <1>7, <2>1, Piece
  <2> QED
    BY <1>70, <2>1, <2>2 DEF to
<1> DEFINE b == SubSeq(bytes, 1, n)
<1>9. n \in 1..Len(bytes) /\ wire' = wire \o b
  BY <1>1, <1>8, WriteAdds
<1>10. b \in Seq(Nat \X Nat) /\ Len(b) = n
  BY <1>8, <1>9, Front
<1>11. ASSUME NEW j \in 1..n PROVE b[j] = <<k, p + j>>
  <2>1. b[j] = bytes[j]
    BY <1>8, <1>9, Front
  <2>2. j \in 1..size
    BY <1>1, <1>5
  <2> QED
    BY <1>8, <2>1, <2>2
<1>12. Leads(wire, <<Current, ReceiverPlace>>, <<k, p>>)
  BY <1>2 DEF Stream, SenderAt, k, p
<1>13. p + n \in Nat /\ p + n <= Whole(k) /\ (p + n = Whole(k) <=> ~(count + n < Length[k]))
  BY <1>3, <1>4, <1>6 DEF p
<1>14. p + n = W + (count + n)
  BY <1>3, <1>4, <1>6 DEF p
<1> HIDE DEF b
<1> PICK q \in Nat : q = p + n
  BY <1>13
<1>15. Leads(wire \o b, <<Current, ReceiverPlace>>, After(<<k, p + Len(b)>>))
  <2>1. Len(b) > 0 /\ p + Len(b) <= Whole(k) /\ \A j \in 1..Len(b) : b[j] = <<k, p + j>>
    BY <1>6, <1>10, <1>11, <1>13
  <2>2. wire \in Seq(Nat \X Nat)
    BY DEF Types
  <2> QED
    BY <1>3, <1>7, <1>10, <1>12, <2>1, <2>2, Places, Written
<1>16. Leads(wire', <<Current', ReceiverPlace'>>, After(<<k, q>>))
  BY <1>2, <1>9, <1>10, <1>15, Unread
<1>17. CASE count + n < Length[k]
  <2>1. After(<<k, q>>) = <<sent' + 1, q>>
    BY <1>1, <1>4, <1>13, <1>17, AfterPlace DEF k
  <2>2. SenderAt(q)'
    BY <1>1, <1>2, <1>14, <1>17 DEF SenderAt
  <2> QED
    BY <1>2, <1>16, <2>1, <2>2, Unread DEF Stream
<1>18. CASE ~(count + n < Length[k])
  <2>1. After(<<k, q>>) = <<sent' + 1, 0>>
    BY <1>1, <1>4, <1>13, <1>18, AfterPlace DEF k
  <2>2. SenderAt(0)'
    BY <1>1, <1>18 DEF SenderAt
  <2> QED
    BY <1>2, <1>16, <2>1, <2>2, Unread DEF Stream
<1> QED
  BY <1>17, <1>18


-----------------------------------------------------------------------------
(* The receiver.                                                           *)

\* There is a byte to read: the message exists.
LEMMA CurrentExists ==
  ASSUME Types, NEW n, Read(n), NEW p, NEW to, Leads(wire, <<Current, p>>, to)
  PROVE  Current \in 1..N
<1>1. 1 \in 1..Len(wire) /\ wire # <<>>
  BY DEF Types, Read
<1>2. wire[1][1] \in 1..N
  BY <1>1 DEF Leads, InRange
<1>3. wire[1] = <<Current, p + 1>>
  BY <1>1 DEF Leads, Begins
<1> QED
  BY <1>2, <1>3

\* The bytes of a length, and of a message, mean just that message.
LEMMA MeantOne ==
  ASSUME NEW k \in 1..N, NEW bytes \in Seq(Nat \X Nat), Len(bytes) = W,
         \A x \in 1..W : bytes[x] = <<k, x>>
  PROVE  Meant(SubSeq(bytes, 1, W)) = {Length[k]}
<1>1. W \in Nat /\ W >= 1 /\ N \in Nat /\ W - 0 = W /\ 1 \in 1..W
  BY Constants
<1> DEFINE b == SubSeq(bytes, 1, W)
<1>2. b = bytes
  <2>1. b \in Seq(Nat \X Nat) /\ Len(b) = W /\ \A x \in 1..W : b[x] = bytes[x]
    <3>1. W \in 1..Len(bytes)
      BY <1>1
    <3> QED
      BY <3>1, Front
  <2> QED
    BY <2>1, SeqEqual
<1> HIDE DEF b
<1>3. ASSUME NEW j \in 1..N
      PROVE  /\ Bytes(j, 0, W) \in Seq(Nat \X Nat) /\ Len(Bytes(j, 0, W)) = W
             /\ \A x \in 1..W : Bytes(j, 0, W)[x] = <<j, 0 + x>>
  <2>1. PICK from \in Nat : from = 0
    OBVIOUS
  <2>2. j \in Nat /\ W \in Nat /\ from <= W /\ W - from = W
    BY <1>1, <2>1
  <2>3. /\ Bytes(j, from, W) \in Seq(Nat \X Nat) /\ Len(Bytes(j, from, W)) = W - from
        /\ \A x \in 1..W - from : Bytes(j, from, W)[x] = <<j, from + x>>
    BY <2>2, Piece
  <2> QED
    BY <2>1, <2>2, <2>3
<1>4. bytes = Bytes(k, 0, W)
  <2>1. \A x \in 1..W : Bytes(k, 0, W)[x] = bytes[x]
    <3> TAKE x \in 1..W
    <3>1. 0 + x = x
      BY <1>1
    <3> QED
      BY <1>3, <3>1
  <2> QED
    BY <1>3, <2>1, SeqEqual
<1>5. ASSUME NEW j \in 1..N, bytes = Bytes(j, 0, W) PROVE j = k
  <2>1. bytes[1] = <<j, 0 + 1>> /\ bytes[1] = <<k, 1>>
    BY <1>1, <1>3, <1>5
  <2> QED
    BY <2>1
<1>6. {j \in 1..N : b = Bytes(j, 0, W)} = {k}
  BY <1>2, <1>4, <1>5
<1> QED
  BY <1>6 DEF Meant, b

LEMMA MessageOne ==
  ASSUME NEW k \in 1..N, NEW bytes \in Seq(Nat \X Nat), Len(bytes) = Length[k],
         \A x \in 1..Length[k] : bytes[x] = <<k, W + x>>
  PROVE  Message(bytes) = k
<1>1. W \in Nat /\ N \in Nat
  BY Constants
<1>2. ASSUME NEW j \in 1..N
      PROVE  /\ Bytes(j, W, W + Length[j]) \in Seq(Nat \X Nat)
             /\ Len(Bytes(j, W, W + Length[j])) = Length[j]
             /\ \A x \in 1..Length[j] : Bytes(j, W, W + Length[j])[x] = <<j, W + x>>
  <2> DEFINE to == W + Length[j]
  <2>0. Length[j] \in Nat /\ j \in Nat
    BY <1>1, Constants
  <2>1. to \in Nat /\ W <= to /\ to - W = Length[j]
    BY <1>1, <2>0
  <2> HIDE DEF to
  <2>2. /\ Bytes(j, W, to) \in Seq(Nat \X Nat) /\ Len(Bytes(j, W, to)) = to - W
        /\ \A x \in 1..to - W : Bytes(j, W, to)[x] = <<j, W + x>>
    BY <1>1, <2>0, <2>1, Piece
  <2> QED
    BY <2>1, <2>2 DEF to
<1>3. bytes = Bytes(k, W, W + Length[k])
  <2>1. \A x \in 1..Length[k] : Bytes(k, W, W + Length[k])[x] = bytes[x]
    BY <1>2
  <2> QED
    BY <1>2, <2>1, SeqEqual
<1>4. 1 \in 1..Length[k]
  BY Constants
<1>5. ASSUME NEW j \in 1..N, bytes = Bytes(j, W, W + Length[j]) PROVE j = k
  <2>1. Length[j] = Length[k]
    BY <1>2, <1>5
  <2>2. bytes[1] = <<j, W + 1>> /\ bytes[1] = <<k, W + 1>>
    BY <1>2, <1>4, <1>5, <2>1
  <2> QED
    BY <2>2
<1>6. {j \in 1..N : bytes = Bytes(j, W, W + Length[j])} = {k}
  BY <1>3, <1>5
<1> QED
  BY <1>6 DEF Message


\* A read that stays in the current message: all of the buffer is a piece of it.
LEMMA ReadOn ==
  ASSUME Types, Stream, NEW n, Read(n), NEW base \in Nat,
         ReceiverPlace = base + Len(buf),
         \A j \in 1..Len(buf) : buf[j] = <<Current, base + j>>,
         Current \in 1..N => base + (Len(buf) + n) <= Whole(Current)
  PROVE  LET bytes == buf \o SubSeq(wire, 1, n)
         IN /\ Current \in 1..N
            /\ \A j \in 1..Len(bytes) : bytes[j] = <<Current, base + j>>
            /\ \E p \in Nat :
                 /\ SenderAt(p)
                 /\ Leads(wire', After(<<Current, base + (Len(buf) + n)>>), <<sent + 1, p>>)
            /\ base + (Len(buf) + n) = Whole(Current) => Current <= sent
<1> DEFINE bytes == buf \o SubSeq(wire, 1, n)  k == Current  m == Len(buf)
<1>1. PICK p \in Nat :
        SenderAt(p) /\ Leads(wire, <<k, ReceiverPlace>>, <<sent + 1, p>>)
  BY DEF Stream
<1>2. k \in 1..N
  BY <1>1, CurrentExists
<1>3. /\ n \in Nat /\ n >= 1 /\ n \in 1..Len(wire)
      /\ wire' = SubSeq(wire, n + 1, Len(wire))
      /\ Len(bytes) = m + n
      /\ \A x \in 1..m : bytes[x] = buf[x]
      /\ \A x \in 1..n : bytes[m + x] = wire[x]
  BY ReadTakes
<1>4. k \in Nat /\ ReceiverPlace \in Nat /\ sent \in Nat /\ m \in Nat
  BY Places, Constants DEF Types, StreamTypeOK
<1>5. wire \in Seq(Nat \X Nat) /\ <<sent + 1, p>> \in Nat \X Nat
  BY <1>4 DEF Types
<1> HIDE DEF bytes, k, m
<1> DEFINE q == base + m
<1>6. q \in Nat /\ ReceiverPlace = q /\ q + n = base + (m + n)
  BY <1>3, <1>4 DEF m
<1>7. q + n <= Whole(k)
  BY <1>2, <1>6 DEF m, k
<1> HIDE DEF q
<1>8. /\ \A j \in 1..n : wire[j] = <<k, q + j>>
      /\ Leads(SubSeq(wire, n + 1, Len(wire)), After(<<k, q + n>>), <<sent + 1, p>>)
      /\ q + n = Whole(k) => k < sent + 1
  <2>1. Leads(wire, <<k, q>>, <<sent + 1, p>>)
    BY <1>1, <1>6
  <2> DEFINE to == <<sent + 1, p>>
  <2>2. to \in Nat \X Nat /\ to[1] = sent + 1
    BY <1>5
  <2>3. Leads(wire, <<k, q>>, to)
    BY <2>1
  <2> HIDE DEF to
  <2>4. /\ \A j \in 1..n : wire[j] = <<k, q + j>>
        /\ Leads(SubSeq(wire, n + 1, Len(wire)), After(<<k, q + n>>), to)
        /\ q + n = Whole(k) => k < to[1]
    <3>1. wire \in Seq(Nat \X Nat) /\ n \in 1..Len(wire) /\ k \in Nat /\ q \in Nat
      BY <1>3, <1>4, <1>5, <1>6
    <3> QED
      BY <1>7, <2>2, <2>3, <3>1, ReadOff, SMTT(60)
  <2> QED
    BY <2>2, <2>4 DEF to
<1>9. ASSUME NEW j \in 1..Len(bytes) PROVE bytes[j] = <<k, base + j>>
  <2>1. CASE j <= m
    <3>1. j \in 1..m
      BY <1>3, <1>4, <2>1
    <3> QED
      BY <1>3, <3>1 DEF m, k
  <2>2. CASE j > m
    <3>1. j - m \in 1..n /\ m + (j - m) = j /\ q + (j - m) = base + j
      BY <1>3, <1>4, <2>2 DEF q
    <3>2. bytes[m + (j - m)] = wire[j - m]
      BY <1>3, <3>1
    <3>3. wire[j - m] = <<k, q + (j - m)>>
      BY <1>8, <3>1
    <3> QED
      BY <3>1, <3>2, <3>3
  <2> QED
    BY <1>3, <1>4, <2>1, <2>2
<1>10. q + n = Whole(k) => k <= sent
  BY <1>4, <1>8
<1> QED
  BY <1>1, <1>2, <1>3, <1>6, <1>8, <1>9, <1>10 DEF bytes, k, m

LEMMA StreamReadLength ==
  ASSUME Types, Stream, ReadLength, ~torn'
  PROVE  Stream'
<1> DEFINE whole(n) == buf \o SubSeq(wire, 1, n)  k == Current
<1>1. PICK n \in 1..W : /\ Read(n)
        /\ IF Len(whole(n)) < W
           THEN buf' = whole(n) /\ UNCHANGED <<at, len, torn>>
           ELSE /\ len' \in Meant(SubSeq(whole(n), 1, W))
                /\ buf' = <<>>
                /\ torn' = (torn \/ Len(whole(n)) > W)
                /\ at' \in {"data"} \cup (IF Len(whole(n)) > W THEN {"gone"} ELSE {})
  BY DEF ReadLength
<1>2. at = "len" /\ UNCHANGED <<place, count, sent, got>>
  BY DEF ReadLength, sender
<1>3. whole(n) \in Seq(Nat \X Nat) /\ Len(whole(n)) = Len(buf) + n
  BY <1>1, ReadTakes
<1>4. Len(buf) \in Nat /\ W \in Nat /\ n \in Nat /\ k \in Nat /\ Len(buf) + n \in Nat
  BY <1>1, Constants, Places DEF Types
<1> HIDE DEF whole, k
<1> DEFINE bytes == whole(n)  m == Len(buf) + n
<1>5. Len(bytes) <= W
  <2>1. ~(Len(bytes) < W) => ~(Len(bytes) > W)
    BY <1>1, Zenon
  <2>2. Len(bytes) \in Nat
    BY <1>3, <1>4
  <2> QED
    BY <1>4, <2>1, <2>2
<1>6. ReceiverPlace = 0 + Len(buf) /\ \A j \in 1..Len(buf) : buf[j] = <<k, 0 + j>>
  <2>1. \A j \in 1..Len(buf) : buf[j] = <<k, j>> /\ 0 + j = j
    BY <1>2, <1>4 DEF Stream, ReadSoFar, k
  <2> QED
    BY <1>2, <1>4, <2>1 DEF ReceiverPlace
<1>7. k \in 1..N => 0 + m <= Whole(k) /\ m # Whole(k) /\ 0 + m = m
  <2> SUFFICES ASSUME k \in 1..N PROVE 0 + m <= Whole(k) /\ m # Whole(k) /\ 0 + m = m
    OBVIOUS
  <2>1. Length[k] \in Nat /\ Length[k] >= 1 /\ Whole(k) = W + Length[k]
    BY Constants DEF Whole
  <2>2. m \in Nat /\ m <= W
    BY <1>3, <1>4, <1>5
  <2> HIDE DEF m
  <2> QED
    BY <1>4, <2>1, <2>2
<1>8. /\ k \in 1..N
      /\ \A j \in 1..Len(bytes) : bytes[j] = <<k, 0 + j>>
      /\ \E p \in Nat :
           SenderAt(p) /\ Leads(wire', After(<<k, 0 + m>>), <<sent + 1, p>>)
  BY <1>1, <1>6, <1>7, ReadOn DEF k, whole
<1>9. \A j \in 1..Len(bytes) : bytes[j] = <<k, j>>
  <2> TAKE j \in 1..Len(bytes)
  <2>1. 0 + j = j
    BY <1>3, <1>4
  <2> QED
    BY <1>8, <2>1
<1>10. After(<<k, 0 + m>>) = <<k, m>>
  BY <1>4, <1>7, <1>8, AfterPlace
<1>11. \E p \in Nat : SenderAt(p)' /\ Leads(wire', <<k, m>>, <<sent' + 1, p>>)
  BY <1>2, <1>8, <1>10 DEF SenderAt
<1>12. Current' = k
  BY <1>2 DEF Current, k
<1>13. CASE Len(bytes) < W
  <2>1. buf' = bytes /\ at' = "len"
    BY <1>1, <1>2, <1>13
  <2>2. ReceiverPlace' = m
    BY <1>3, <2>1 DEF ReceiverPlace
  <2>3. ReadSoFar'
    BY <1>9, <1>12, <2>1 DEF ReadSoFar
  <2> QED
    BY <1>11, <1>12, <2>2, <2>3 DEF Stream
<1>14. CASE ~(Len(bytes) < W)
  <2>0. Len(bytes) \in Nat /\ Len(bytes) = m
    BY <1>3, <1>4
  <2>1. Len(bytes) = W /\ m = W
    <3> HIDE DEF m, bytes
    <3> QED
      BY <1>4, <1>5, <1>14, <2>0
  <2>2. Meant(SubSeq(bytes, 1, W)) = {Length[k]}
    BY <1>3, <1>8, <1>9, <2>1, MeantOne
  <2>3. len' = Length[k] /\ buf' = <<>>
    BY <1>1, <1>14, <2>2
  <2>4. ~(Len(bytes) > W)
    BY <1>4, <2>1
  <2>5. at' = "data"
    BY <1>1, <1>14, <2>4
  <2>6. ReceiverPlace' = m
    <3>1. Len(buf') = 0 /\ W + 0 = m
      BY <1>4, <2>1, <2>3
    <3> QED
      BY <2>5, <3>1 DEF ReceiverPlace
  <2>7. ReadSoFar'
    <3>1. Len(buf') = 0
      BY <2>3
    <3> QED
      BY <1>8, <1>12, <2>3, <2>5, <3>1 DEF ReadSoFar
  <2> QED
    BY <1>11, <1>12, <2>6, <2>7 DEF Stream
<1> QED
  BY <1>13, <1>14

\* A whole message is the next, and it was sent.
LEMMA StreamReadData ==
  ASSUME Types, Stream, ReadData
  PROVE  /\ Stream'
         /\ UNCHANGED got \/ (Len(got) < sent /\ got' = Append(got, Len(got) + 1))
<1> DEFINE whole(n) == buf \o SubSeq(wire, 1, n)  k == Current
<1>1. PICK n \in 1..Slice(Len(buf), len) : /\ Read(n)
        /\ IF Len(whole(n)) < len
           THEN buf' = whole(n) /\ UNCHANGED <<at, got>>
           ELSE buf' = <<>> /\ at' = "len" /\ got' = Append(got, Message(whole(n)))
  BY DEF ReadData
<1>2. at = "data" /\ UNCHANGED <<place, count, sent, len>>
  BY DEF ReadData, sender
<1>3. whole(n) \in Seq(Nat \X Nat) /\ Len(whole(n)) = Len(buf) + n
  BY <1>1, ReadTakes
<1>4. k \in 1..N /\ len = Length[k] /\ \A j \in 1..Len(buf) : buf[j] = <<k, W + j>>
  BY <1>2 DEF Stream, ReadSoFar
<1>5. Len(buf) \in Nat /\ len \in Nat /\ Len(buf) <= len /\ W \in Nat /\ k \in Nat
  BY <1>2, <1>4, Constants DEF Types, StreamTypeOK
<1>6. n \in Nat /\ n >= 1 /\ Len(buf) + n <= len
  BY <1>1, <1>5, SliceBound
<1> HIDE DEF whole, k
<1> DEFINE bytes == whole(n)  m == Len(buf) + n
<1>7. /\ W + m <= Whole(k) /\ (W + m = Whole(k) <=> ~(Len(bytes) < len))
      /\ ReceiverPlace = W + Len(buf) /\ m \in Nat /\ W + m \in Nat
  <2>1. ReceiverPlace = W + Len(buf)
    BY <1>2 DEF ReceiverPlace
  <2>2. m \in Nat /\ Len(bytes) = m /\ m <= len
    BY <1>3, <1>5, <1>6
  <2>3. Whole(k) = W + len
    BY <1>4 DEF Whole
  <2> HIDE DEF m, bytes
  <2> QED
    BY <1>5, <2>1, <2>2, <2>3
<1>8. /\ \A j \in 1..Len(bytes) : bytes[j] = <<k, W + j>>
      /\ \E p \in Nat :
           SenderAt(p) /\ Leads(wire', After(<<k, W + m>>), <<sent + 1, p>>)
      /\ W + m = Whole(k) => k <= sent
  BY <1>1, <1>4, <1>5, <1>7, ReadOn DEF k, whole
<1>9. \E p \in Nat : SenderAt(p)' /\ Leads(wire', After(<<k, W + m>>), <<sent' + 1, p>>)
  BY <1>2, <1>8 DEF SenderAt
<1>10. CASE Len(bytes) < len
  <2>1. buf' = bytes /\ UNCHANGED <<at, got, len>>
    BY <1>1, <1>2, <1>10
  <2>2. Current' = k
    BY <2>1 DEF Current, k
  <2>3. ReceiverPlace' = W + m
    BY <1>2, <1>3, <2>1 DEF ReceiverPlace
  <2>4. After(<<k, W + m>>) = <<k, W + m>>
    BY <1>5, <1>7, <1>10, AfterPlace
  <2>5. ReadSoFar'
    BY <1>2, <1>4, <1>8, <2>1, <2>2 DEF ReadSoFar
  <2> QED
    BY <1>9, <2>1, <2>2, <2>3, <2>4, <2>5 DEF Stream
<1>11. CASE ~(Len(bytes) < len)
  <2>0. Len(bytes) \in Nat /\ Len(bytes) <= len
    BY <1>3, <1>5, <1>6
  <2>1. Len(bytes) = Length[k]
    BY <1>4, <1>5, <1>11, <2>0
  <2>2. Message(bytes) = k
    BY <1>3, <1>4, <1>8, <2>1, MessageOne
  <2>3. buf' = <<>> /\ at' = "len" /\ got' = Append(got, k)
    BY <1>1, <1>11, <2>2
  <2>4. Len(got') = Len(got) + 1
    BY <1>4, <2>3, Appended DEF Types, StreamTypeOK
  <2>5. Current' = k + 1
    BY <2>4 DEF Current, k
  <2>6. ReceiverPlace' = 0
    BY <2>3 DEF ReceiverPlace
  <2>7. After(<<k, W + m>>) = <<k + 1, 0>>
    BY <1>5, <1>7, <1>11, AfterPlace
  <2>8. ReadSoFar'
    <3>1. Len(buf') = 0
      BY <2>3
    <3> QED
      BY <2>3, <3>1 DEF ReadSoFar
  <2>9. Stream'
    BY <1>9, <2>5, <2>6, <2>7, <2>8 DEF Stream
  <2>10. k <= sent
    BY <1>7, <1>8, <1>11
  <2>11. Len(got) < sent
    BY <2>10, Constants DEF k, Current, Types, StreamTypeOK
  <2> QED
    BY <2>3, <2>9, <2>11 DEF k, Current
<1> QED
  BY <1>10, <1>11


-----------------------------------------------------------------------------
(* The theorems.                                                           *)

LEMMA InitInv == Init => Inv
<1> SUFFICES ASSUME Init PROVE Inv
  OBVIOUS
<1>1. Types
  BY TypesInit
<1>2. sent + 1 = 1 /\ Current = 1 /\ ReceiverPlace = 0 /\ wire = <<>> /\ Len(buf) = 0
  BY DEF Init, Current, ReceiverPlace
<1>3. ReadSoFar
  BY <1>2 DEF Init, ReadSoFar
<1>4. Leads(<<>>, <<1, 0>>, <<1, 0>>)
  BY DEF Leads, InRange, Runs, Joins, Begins, Ends, Behind
<1>5. SenderAt(0)
  BY DEF Init, SenderAt
<1>6. Stream
  BY <1>2, <1>3, <1>4, <1>5 DEF Stream
<1> QED
  BY <1>1, <1>6 DEF Inv

LEMMA Stays ==
  ASSUME Stream, UNCHANGED <<wire, sent, receiver>>,
         place' = "closed" \/ UNCHANGED <<place, count>>
  PROVE  Stream'
<1>1. PICK p \in Nat :
        SenderAt(p) /\ Leads(wire, <<Current, ReceiverPlace>>, <<sent + 1, p>>)
  BY DEF Stream
<1>2. SenderAt(p)'
  BY <1>1 DEF SenderAt
<1> QED
  BY <1>1, <1>2, Unread DEF Stream

LEMMA StepInv == Inv /\ [Next]_svars => Inv'
<1> SUFFICES ASSUME Inv, [Next]_svars, ~torn', ~Ended' PROVE Types' /\ Stream'
  BY TypesStep DEF Inv
<1>1. Types /\ Types'
  BY TypesStep DEF Inv
<1>2. ~torn
  <2>1. torn \in BOOLEAN
    BY <1>1 DEF Types, StreamTypeOK
  <2> QED
    BY DEF Next, Send, WriteLength, WriteData, Close, WriteFails, ReadLength, ReadData,
           ReadNothing, Leave, svars, Zenon
<1>3. ~Ended
  BY DEF Next, Send, WriteLength, WriteData, Close, WriteFails, ReadLength, ReadData,
         ReadNothing, Leave, svars, Ended, receiver
<1>4. Stream
  BY <1>2, <1>3 DEF Inv
<1>5. CASE Send
  <2>1. SenderAt(0)' /\ place = "idle" /\ UNCHANGED <<wire, sent, receiver>>
    BY <1>5 DEF Send, SenderAt
  <2>2. Leads(wire, <<Current, ReceiverPlace>>, <<sent + 1, 0>>)
    BY <1>4, <2>1 DEF Stream, SenderAt
  <2> QED
    BY <1>1, <1>4, <2>1, <2>2, Unread DEF Stream
<1>6. CASE WriteLength
  BY <1>1, <1>4, <1>6, StreamWriteLength
<1>7. CASE WriteData
  BY <1>1, <1>4, <1>7, StreamWriteData
<1>8. CASE Close \/ WriteFails
  BY <1>1, <1>4, <1>8, Stays DEF WriteFails, Close
<1>9. CASE ReadLength
  BY <1>1, <1>4, <1>9, StreamReadLength
<1>10. CASE ReadData
  BY <1>1, <1>4, <1>10, StreamReadData
<1>11. CASE ReadNothing \/ Leave
  BY <1>11 DEF ReadNothing, Leave, Ended
<1>12. CASE UNCHANGED svars
  BY <1>1, <1>4, <1>12, Stays DEF svars, receiver
<1> QED
  BY <1>5, <1>6, <1>7, <1>8, <1>9, <1>10, <1>11, <1>12 DEF Next

LEMMA InitMaps == Init => Promise!Init
<1> QED
  BY DEF Init, Promise!Init, Ended

LEMMA StepMaps == Inv /\ [Next]_svars => [Promise!Next]_(Promise!cvars)
<1> SUFFICES ASSUME Inv, [Next]_svars PROVE Promise!Next \/ UNCHANGED Promise!cvars
  OBVIOUS
<1> USE DEF Promise!cvars
<1>1. Types /\ torn \in BOOLEAN /\ N \in Nat
  BY Constants DEF Inv, Types, StreamTypeOK
<1>2. CASE Send
  BY <1>2 DEF Send, receiver, Ended
<1>3. CASE WriteLength
  <2>1. /\ place = "len" /\ place' \in {"len", "data"} /\ UNCHANGED <<sent, at, got>>
        /\ torn' = torn \/ torn'
    BY <1>3, <1>1 DEF WriteLength, receiver
  <2>2. CASE torn'
    BY <2>1, <2>2 DEF Promise!Next, Promise!Break, Ended
  <2>3. CASE ~torn'
    BY <1>1, <2>1, <2>3 DEF Ended
  <2> QED
    BY <2>2, <2>3
<1>4. CASE WriteData
  <2>1. /\ place = "data" /\ place' \in {"data", "idle"}
        /\ UNCHANGED <<at, got, torn>> /\ sent < N
    BY <1>1, <1>4 DEF WriteData, receiver, Types
  <2>2. sent' = sent \/ sent' = sent + 1
    BY <1>4 DEF WriteData
  <2> QED
    BY <2>1, <2>2 DEF Promise!Next, Promise!Send, Ended
<1>5. CASE Close \/ WriteFails
  BY <1>5 DEF WriteFails, Close, receiver, Ended, Promise!Next, Promise!Close
<1>6. CASE ReadLength
  <2>1. at = "len" /\ UNCHANGED <<place, sent, got>>
    BY <1>6 DEF ReadLength, sender
  <2>2. \/ at' = "len" /\ torn' = torn
        \/ at' = "data" /\ torn' \in {torn, TRUE}
        \/ at' = "gone" /\ torn' = TRUE
    BY <1>1, <1>6, <2>1 DEF ReadLength
  <2> QED
    BY <1>1, <2>1, <2>2 DEF Promise!Next, Promise!Break, Ended
<1>7. CASE ReadData
  <2>1. at = "data" /\ at' \in {"data", "len"} /\ UNCHANGED <<place, sent, torn>>
    BY <1>7 DEF ReadData, sender
  <2>2. UNCHANGED got \/ \E msg \in 0..N : got' = Append(got, msg)
    BY <1>7, MessageRange DEF ReadData
  <2>3. ~torn => UNCHANGED got \/ (Len(got) < sent /\ got' = Append(got, Len(got) + 1))
    BY <1>1, <1>7, <2>1, StreamReadData DEF Inv, Ended
  <2> QED
    BY <2>1, <2>2, <2>3 DEF Promise!Next, Promise!Receive, Ended
<1>8. CASE ReadNothing
  <2>1. at \in {"len", "data"} /\ at' = "null" /\ UNCHANGED <<place, sent, got, torn>>
    BY <1>8 DEF ReadNothing, sender
  <2>2. torn \/ (place = "closed" /\ Len(got) = sent)
    <3> SUFFICES ASSUME ~torn PROVE place = "closed" /\ Len(got) = sent
      OBVIOUS
    <3>1. Stream
      BY <2>1 DEF Inv, Ended
    <3>2. ~(at = "data" /\ len = 0)
      BY <3>1, Constants DEF Stream, ReadSoFar
    <3>3. wire = <<>> /\ place = "closed"
      BY <1>8, <3>2 DEF ReadNothing
    <3>4. Current = sent + 1
      BY <3>1, <3>3 DEF Stream, Leads
    <3> QED
      BY <1>1, <3>3, <3>4 DEF Current, Types, StreamTypeOK
  <2> QED
    BY <2>1, <2>2 DEF Promise!Next, Promise!Null, Ended
<1>9. CASE Leave
  BY <1>9 DEF Leave, sender, Promise!Next, Promise!Leave, Ended
<1>10. CASE UNCHANGED svars
  BY <1>10 DEF svars, Ended
<1> QED
  BY <1>2, <1>3, <1>4, <1>5, <1>6, <1>7, <1>8, <1>9, <1>10 DEF Next

\* Every variable of a connection keeps its type, and no buffer holds more than it
\* has room for.
THEOREM StreamTypeCorrect == Spec => []StreamTypeOK
<1>1. Types => StreamTypeOK
  BY DEF Types
<1> QED
  BY TypesInit, TypesStep, <1>1, PTL DEF Spec

\* However its bytes are cut, a connection keeps Channel's promise: until a length is
\* torn, messages arrive whole and in order, and NULL means that none is left.
THEOREM StreamCorrect == Spec => ImplementsChannel
<1> QED
  BY InitInv, StepInv, InitMaps, StepMaps, PTL DEF Spec, ImplementsChannel, Promise!Spec

=============================================================================
