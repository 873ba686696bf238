-------------------------- MODULE CacheFormatsProofs --------------------------
(***************************************************************************)
(* Proofs about the formats of CacheFormats, for all inputs: what is saved *)
(* reads back, what was cut or extended is refused, what is hashed tells   *)
(* its sources apart, and packed keys give back their parts.               *)
(*                                                                         *)
(* A record is read by readers made of smaller readers.  Codec says that a *)
(* reader and a writer fit; it holds of numbers, bytes and booleans, and   *)
(* passes on to pairs, lists and what has a size or a kind before it.      *)
(* A stream is only written: PrefixCode says that what is written of a     *)
(* value shows where it ends, which a codec gives and lists keep.          *)
(* Induction runs over sets of numbers (AllNumbers), recursion over        *)
(* functions (Recursion).                                                  *)
(***************************************************************************)
EXTENDS CacheFormats, SequenceTheorems, FiniteSetTheorems, FunctionTheorems,
        WellFoundedInduction, TLAPS

-----------------------------------------------------------------------------
(* Numbers and bytes *)

\* The least of some numbers.
LEMMA LeastNumber ==
  ASSUME NEW S \in SUBSET Nat, S # {}
  PROVE \E n \in S : \A m \in S : n <= m
<1>1. IsWellFoundedOn(OpToRel(<, Nat), Nat)
  BY NatLessThanWellFounded, Zenon
<1>2. PICK n \in S : \A m \in S : <<m, n>> \notin OpToRel(<, Nat)
  BY <1>1, WFMin, Zenon
<1>3. \A m \in S : ~(m < n)
  BY <1>2 DEF OpToRel
<1> QED
  BY <1>3

\* Induction, with a set of numbers in the place of what holds of them.
LEMMA AllNumbers ==
  ASSUME NEW S \in SUBSET Nat, 0 \in S, \A n \in S : n + 1 \in S
  PROVE S = Nat
<1>1. SUFFICES ASSUME Nat \ S # {} PROVE FALSE
  OBVIOUS
<1>2. PICK n \in Nat \ S : \A m \in Nat \ S : n <= m
  <2>1. Nat \ S \in SUBSET Nat
    OBVIOUS
  <2> QED
    BY <1>1, <2>1, LeastNumber, Zenon
<1>3. n - 1 \in Nat
  BY <1>2
<1>4. n - 1 \in S
  BY <1>2, <1>3
<1>5. (n - 1) + 1 \in S
  BY <1>4
<1> QED
  BY <1>2, <1>5

\* What is appended to bytes is found behind them, and what they began with at
\* their beginning.
LEMMA Joined ==
  ASSUME NEW a \in Bytes, NEW b \in Bytes
  PROVE /\ a \o b \in Bytes
        /\ Len(a \o b) = Len(a) + Len(b)
        /\ \A i \in 1..Len(a) : (a \o b)[i] = a[i]
        /\ \A i \in 1..Len(b) : (a \o b)[Len(a) + i] = b[i]
        /\ Len(a) \in Nat /\ Len(b) \in Nat
<1>1. /\ a \o b \in Bytes
      /\ Len(a \o b) = Len(a) + Len(b)
      /\ \A i \in 1..Len(a) + Len(b) : (a \o b)[i] = IF i <= Len(a) THEN a[i] ELSE b[i - Len(a)]
  BY ConcatProperties DEF Bytes
<1>2. Len(a) \in Nat /\ Len(b) \in Nat
  BY LenProperties DEF Bytes
<1>3. ASSUME NEW i \in 1..Len(b) PROVE (a \o b)[Len(a) + i] = b[i]
  <2>1. Len(a) + i \in 1..Len(a) + Len(b) /\ ~(Len(a) + i <= Len(a)) /\ (Len(a) + i) - Len(a) = i
    BY <1>2
  <2> QED
    BY <1>1, <2>1
<1> QED
  BY <1>1, <1>2, <1>3

\* Three parts may be joined from the left or from the right.
LEMMA Associative ==
  ASSUME NEW a \in Bytes, NEW b \in Bytes, NEW c \in Bytes
  PROVE (a \o b) \o c = a \o (b \o c)
  BY ConcatAssociative DEF Bytes

\* Equal bytes of which the first parts are as long have the same parts.
LEMMA SameParts ==
  ASSUME NEW a \in Bytes, NEW b \in Bytes, NEW c \in Bytes, NEW d \in Bytes,
         a \o b = c \o d, Len(a) = Len(c)
  PROVE a = c /\ b = d
<1>1. \A i \in 1..Len(a) : a[i] = c[i]
  BY Joined
<1>2. /\ Len(a \o b) = Len(a) + Len(b) /\ Len(c \o d) = Len(c) + Len(d)
      /\ Len(a) \in Nat /\ Len(b) \in Nat /\ Len(d) \in Nat
      /\ \A i \in 1..Len(b) : (a \o b)[Len(a) + i] = b[i]
      /\ \A i \in 1..Len(d) : (c \o d)[Len(c) + i] = d[i]
  BY Joined
<1>6. Len(b) = Len(d)
  BY <1>2
<1>3. \A i \in 1..Len(b) : b[i] = d[i]
  BY <1>2, <1>6
<1>4. a = c
  BY <1>1, SeqEqual DEF Bytes
<1>5. b = d
  BY <1>6, <1>3, SeqEqual DEF Bytes
<1> QED
  BY <1>4, <1>5

\* SubSeq takes bytes apart where they were joined.
LEMMA TakenApart ==
  ASSUME NEW a \in Bytes, NEW b \in Bytes
  PROVE /\ SubSeq(a \o b, 1, Len(a)) = a
        /\ SubSeq(a \o b, Len(a) + 1, Len(a \o b)) = b
<1>1. Len(a) \in Nat /\ Len(b) \in Nat /\ Len(a \o b) = Len(a) + Len(b) /\ a \o b \in Bytes
  BY Joined
<1>2. \A i \in 1..Len(a \o b) : (a \o b)[i] \in Byte
  BY <1>1, ElementOfSeq DEF Bytes
<1>3. SubSeq(a \o b, 1, Len(a)) = a
  <2>1. /\ SubSeq(a \o b, 1, Len(a)) \in Seq(Byte)
        /\ Len(SubSeq(a \o b, 1, Len(a))) = IF 1 <= Len(a) THEN Len(a) - 1 + 1 ELSE 0
        /\ \A i \in 1..Len(a) - 1 + 1 : SubSeq(a \o b, 1, Len(a))[i] = (a \o b)[1 + i - 1]
    BY <1>1, <1>2, SubSeqProperties
  <2>2. \A i \in 1..Len(a) : SubSeq(a \o b, 1, Len(a))[i] = a[i]
    BY <1>1, <2>1, Joined
  <2>3. Len(SubSeq(a \o b, 1, Len(a))) = Len(a)
    BY <1>1, <2>1
  <2> QED
    BY <2>1, <2>2, <2>3, SeqEqual DEF Bytes
<1>4. SubSeq(a \o b, Len(a) + 1, Len(a \o b)) = b
  <2> DEFINE m == Len(a) + 1
             n == Len(a) + Len(b)
             s == SubSeq(a \o b, m, n)
  <2>1. m \in Int /\ n \in Int /\ \A i \in m..n : (a \o b)[i] \in Byte
    BY <1>1, <1>2
  <2>2. /\ s \in Seq(Byte)
        /\ Len(s) = IF m <= n THEN n - m + 1 ELSE 0
        /\ \A i \in 1..n - m + 1 : s[i] = (a \o b)[m + i - 1]
    BY <2>1, SubSeqProperties
  <2>3. Len(s) = Len(b)
    BY <1>1, <2>2
  <2>4. ASSUME NEW i \in 1..Len(b) PROVE s[i] = b[i]
    <3>1. i \in 1..n - m + 1 /\ m + i - 1 = Len(a) + i
      BY <1>1
    <3>2. (a \o b)[Len(a) + i] = b[i]
      BY Joined
    <3> QED
      BY <2>2, <3>1, <3>2
  <2> HIDE DEF s
  <2>5. s = b
    BY <2>2, <2>3, <2>4, SeqEqual DEF Bytes
  <2> QED
    BY <1>1, <2>5 DEF s
<1> QED
  BY <1>3, <1>4

\* The two parts that SubSeq takes bytes apart into, joined, are the bytes.
LEMMA PutTogether ==
  ASSUME NEW b \in Bytes, NEW n \in 0..Len(b)
  PROVE /\ SubSeq(b, 1, n) \in Bytes /\ Len(SubSeq(b, 1, n)) = n
        /\ SubSeq(b, n + 1, Len(b)) \in Bytes /\ Len(SubSeq(b, n + 1, Len(b))) = Len(b) - n
        /\ SubSeq(b, 1, n) \o SubSeq(b, n + 1, Len(b)) = b
<1>1. Len(b) \in Nat /\ \A i \in 1..Len(b) : b[i] \in Byte
  BY LenProperties, ElementOfSeq DEF Bytes
<1>2. SubSeq(b, 1, n) \in Bytes /\ Len(SubSeq(b, 1, n)) = n
  <2>1. 1 \in Int /\ n \in Int /\ \A i \in 1..n : b[i] \in Byte
    BY <1>1
  <2>2. SubSeq(b, 1, n) \in Seq(Byte) /\ Len(SubSeq(b, 1, n)) = IF 1 <= n THEN n - 1 + 1 ELSE 0
    BY <2>1, SubSeqProperties
  <2> QED
    BY <2>2 DEF Bytes
<1>3. SubSeq(b, n + 1, Len(b)) \in Bytes /\ Len(SubSeq(b, n + 1, Len(b))) = Len(b) - n
  <2>1. n + 1 \in Int /\ Len(b) \in Int /\ \A i \in n + 1..Len(b) : b[i] \in Byte
    BY <1>1
  <2>2. /\ SubSeq(b, n + 1, Len(b)) \in Seq(Byte)
        /\ Len(SubSeq(b, n + 1, Len(b))) = IF n + 1 <= Len(b) THEN Len(b) - (n + 1) + 1 ELSE 0
    BY <2>1, SubSeqProperties
  <2> QED
    BY <1>1, <2>2 DEF Bytes
<1>4. SubSeq(b, 1, n) \o SubSeq(b, n + 1, Len(b)) = b
  <2>1. 1 \in 1..Len(b) + 1 /\ n \in 1 - 1..Len(b) /\ Len(b) \in n..Len(b)
    BY <1>1
  <2>2. SubSeq(b, 1, n) \o SubSeq(b, n + 1, Len(b)) = SubSeq(b, 1, Len(b))
    BY <2>1, ConcatAdjacentSubSeq DEF Bytes
  <2> QED
    BY <2>2, SubSeqFull DEF Bytes
<1> QED
  BY <1>2, <1>3, <1>4

-----------------------------------------------------------------------------
(* Readers and writers that fit *)

\* What a reader of values of V can come to.
Results(V) == {Refused} \cup {Got(v, t) : v \in V, t \in Bytes}

\* Reading and writing fit together.  What was written is read back, whatever
\* follows; what was read does not depend on what follows; and what is
\* understood is what would be written.
Codec(get, put, V) ==
  /\ put \in [V -> Bytes]
  /\ get \in [Bytes -> Results(V)]
  /\ \A v \in V, t \in Bytes : get[put[v] \o t] = Got(v, t)
  /\ \A b \in Bytes, t \in Bytes : get[b].ok => get[b \o t] = Got(get[b].value, get[b].rest \o t)
  /\ \A b \in Bytes : get[b].ok => Like(put[get[b].value] \o get[b].rest, b)

\* What a result of a reader consists of.
LEMMA ResultParts ==
  ASSUME NEW V, NEW r \in Results(V)
  PROVE /\ r.ok \in BOOLEAN
        /\ r.ok => r.value \in V /\ r.rest \in Bytes /\ r = Got(r.value, r.rest)
        /\ ~r.ok => r = Refused
<1>1. CASE r = Refused
  BY <1>1 DEF Refused
<1>2. CASE r # Refused
  <2>1. PICK v \in V, t \in Bytes : r = Got(v, t)
    BY <1>2 DEF Results
  <2> QED
    BY <2>1 DEF Got
<1> QED
  BY <1>1, <1>2

\* What was read, and what is left, can be told from a result.
LEMMA GotParts ==
  ASSUME NEW V, NEW v \in V, NEW t \in Bytes
  PROVE Got(v, t).ok /\ Got(v, t).value = v /\ Got(v, t).rest = t /\ Got(v, t) \in Results(V)
<1>1. Got(v, t) \in Results(V)
  BY DEF Results
<1> QED
  BY <1>1 DEF Got

\* A refusal reads nothing and leaves nothing.
LEMMA RefusedParts == ASSUME NEW V PROVE ~Refused.ok /\ Refused.rest = <<>> /\ Refused \in Results(V)
  BY DEF Refused, Results

\* A result that is known to be Got, by its parts.
LEMMA GotResult ==
  ASSUME NEW V, NEW v \in V, NEW t \in Bytes, NEW r, r = Got(v, t)
  PROVE r.ok /\ r.value = v /\ r.rest = t /\ r \in Results(V)
  BY GotParts

\* A result that is known to be a refusal, by its parts.
LEMMA RefusedResult ==
  ASSUME NEW V, NEW r, r = Refused
  PROVE ~r.ok /\ r.rest = <<>> /\ r \in Results(V)
  BY RefusedParts

\* Bytes are like themselves.
LEMMA LikeItself == ASSUME NEW b \in Bytes PROVE Like(b, b)
  BY DEF Like

\* Bytes like bytes that are like others are like those.
LEMMA LikeTransitive ==
  ASSUME NEW a \in Bytes, NEW b \in Bytes, NEW c \in Bytes, Like(a, b), Like(b, c)
  PROVE Like(a, c)
<1>1. DOMAIN a = 1..Len(a) /\ DOMAIN b = 1..Len(b) /\ Len(a) = Len(b) /\ Len(b) = Len(c)
  BY LenProperties DEF Like, Bytes
<1>2. ASSUME NEW j \in DOMAIN a PROVE a[j] = c[j] \/ (a[j] = 1 /\ c[j] # 0)
  <2>1. j \in DOMAIN b
    BY <1>1
  <2>2. /\ a[j] = b[j] \/ (a[j] = 1 /\ b[j] # 0)
        /\ b[j] = c[j] \/ (b[j] = 1 /\ c[j] # 0)
    BY <2>1 DEF Like
  <2> QED
    BY <2>2
<1> QED
  BY <1>1, <1>2 DEF Like

\* Parts that are like others, joined, are like those joined.
LEMMA LikeJoined ==
  ASSUME NEW a \in Bytes, NEW b \in Bytes, NEW c \in Bytes, NEW d \in Bytes,
         Like(a, b), Like(c, d)
  PROVE Like(a \o c, b \o d)
<1>1. Len(a) = Len(b) /\ Len(c) = Len(d)
  BY DEF Like
<1>2. /\ a \o c \in Bytes /\ Len(a \o c) = Len(a) + Len(c) /\ Len(a) \in Nat /\ Len(c) \in Nat
      /\ \A i \in 1..Len(a) : (a \o c)[i] = a[i]
      /\ \A i \in 1..Len(c) : (a \o c)[Len(a) + i] = c[i]
  BY Joined
<1>3. /\ b \o d \in Bytes /\ Len(b \o d) = Len(a) + Len(c)
      /\ \A i \in 1..Len(a) : (b \o d)[i] = b[i]
      /\ \A i \in 1..Len(c) : (b \o d)[Len(a) + i] = d[i]
  BY <1>1, Joined
<1>4. DOMAIN a = 1..Len(a) /\ DOMAIN c = 1..Len(c) /\ DOMAIN (a \o c) = 1..Len(a) + Len(c)
  BY <1>2, LenProperties DEF Bytes
<1>5. ASSUME NEW j \in DOMAIN (a \o c)
      PROVE (a \o c)[j] = (b \o d)[j] \/ ((a \o c)[j] = 1 /\ (b \o d)[j] # 0)
  <2>1. CASE j <= Len(a)
    <3>1. j \in 1..Len(a)
      BY <1>2, <1>4, <2>1
    <3>2. a[j] = b[j] \/ (a[j] = 1 /\ b[j] # 0)
      BY <1>4, <3>1 DEF Like
    <3> QED
      BY <1>2, <1>3, <3>1, <3>2
  <2>2. CASE ~(j <= Len(a))
    <3>1. PICK i \in 1..Len(c) : j = Len(a) + i
      <4>1. j - Len(a) \in 1..Len(c) /\ j = Len(a) + (j - Len(a))
        BY <1>2, <1>4, <2>2
      <4> QED
        BY <4>1
    <3>2. c[i] = d[i] \/ (c[i] = 1 /\ d[i] # 0)
      BY <1>4 DEF Like
    <3> QED
      BY <1>2, <1>3, <3>1, <3>2
  <2> QED
    BY <2>1, <2>2
<1> QED
  BY <1>2, <1>3, <1>5 DEF Like

\* A reader that understands only what would be written.
LEMMA ExactCodec ==
  ASSUME NEW V, NEW put \in [V -> Bytes], NEW get \in [Bytes -> Results(V)],
         \A v \in V, t \in Bytes : get[put[v] \o t] = Got(v, t),
         \A b \in Bytes : get[b].ok => b = put[get[b].value] \o get[b].rest
  PROVE Codec(get, put, V)
<1>1. ASSUME NEW b \in Bytes, get[b].ok
      PROVE /\ \A t \in Bytes : get[b \o t] = Got(get[b].value, get[b].rest \o t)
            /\ Like(put[get[b].value] \o get[b].rest, b)
  <2> DEFINE v == get[b].value
             rest == get[b].rest
  <2>1. v \in V /\ rest \in Bytes
    BY <1>1, ResultParts
  <2>2. b = put[v] \o rest /\ put[v] \in Bytes
    BY <1>1, <2>1
  <2> HIDE DEF v, rest
  <2>3. ASSUME NEW t \in Bytes PROVE get[b \o t] = Got(v, rest \o t)
    <3>1. (put[v] \o rest) \o t = put[v] \o (rest \o t)
      BY <2>1, <2>2, Associative, Zenon
    <3>2. b \o t = put[v] \o (rest \o t)
      BY <2>2, <3>1
    <3>3. rest \o t \in Bytes
      BY <2>1, Joined
    <3>4. get[put[v] \o (rest \o t)] = Got(v, rest \o t)
      BY <2>1, <3>3
    <3> QED
      BY <3>2, <3>4
  <2>4. Like(put[v] \o rest, b)
    BY <2>2, LikeItself
  <2> QED
    BY <2>3, <2>4 DEF v, rest
<1> QED
  BY <1>1 DEF Codec

\* A value of X has a first part, in V, and a second one that is read and
\* written in a way that depends on the first: a length and as many bytes, or a
\* kind and what a member of that kind has.
Parts(X, V, W, one, two) ==
  /\ \A x \in X : one[x] \in V /\ two[x] \in W[one[x]]
  /\ \A x, y \in X : one[x] = one[y] /\ two[x] = two[y] => x = y

ReadsParts(all, get, gets, one, two) ==
  \A b \in Bytes :
    LET r == gets[get[b].value][get[b].rest]
    IN /\ all[b].ok <=> get[b].ok /\ r.ok
       /\ all[b].ok => /\ one[all[b].value] = get[b].value
                       /\ two[all[b].value] = r.value
                       /\ all[b].rest = r.rest

\* If both parts are read and written in ways that fit, so is the whole.
LEMMA ThenCodec ==
  ASSUME NEW V, NEW get, NEW put, Codec(get, put, V),
         NEW W, NEW gets, NEW puts, \A v \in V : Codec(gets[v], puts[v], W[v]),
         NEW X, NEW one, NEW two, Parts(X, V, W, one, two),
         NEW all \in [Bytes -> Results(X)], ReadsParts(all, get, gets, one, two),
         NEW write, write = [x \in X |-> put[one[x]] \o puts[one[x]][two[x]]]
  PROVE Codec(all, write, X)
<1>a. \A b \in Bytes : all[b].ok <=> get[b].ok /\ gets[get[b].value][get[b].rest].ok
  BY DEF ReadsParts
<1>b. \A b \in Bytes : all[b].ok =>
           /\ one[all[b].value] = get[b].value
           /\ two[all[b].value] = gets[get[b].value][get[b].rest].value
           /\ all[b].rest = gets[get[b].value][get[b].rest].rest
  BY DEF ReadsParts
<1>c. /\ \A x \in X : one[x] \in V /\ two[x] \in W[one[x]]
      /\ \A x, y \in X : one[x] = one[y] /\ two[x] = two[y] => x = y
  BY DEF Parts
<1>1. \A v \in V : put[v] \in Bytes
  BY DEF Codec
<1>2. \A b \in Bytes : get[b] \in Results(V) /\ all[b] \in Results(X)
  BY DEF Codec
<1>3. \A v \in V : \A w \in W[v] : puts[v][w] \in Bytes
  BY DEF Codec
<1>4. \A v \in V : \A b \in Bytes : gets[v][b] \in Results(W[v])
  BY DEF Codec
<1>5. write \in [X -> Bytes]
  <2>1. ASSUME NEW x \in X PROVE put[one[x]] \o puts[one[x]][two[x]] \in Bytes
    BY <1>1, <1>3, <1>c, Joined
  <2> QED
    BY <2>1
<1>6. ASSUME NEW x \in X, NEW t \in Bytes PROVE all[write[x] \o t] = Got(x, t)
  <2> DEFINE v == one[x]
             w == two[x]
  <2>0. v \in V /\ w \in W[v]
    BY <1>c
  <2>1. put[v] \in Bytes /\ puts[v][w] \in Bytes /\ puts[v][w] \o t \in Bytes
    BY <1>1, <1>3, <2>0, Joined
  <2>2. write[x] \o t = put[v] \o (puts[v][w] \o t)
    <3>1. write[x] = put[v] \o puts[v][w]
      OBVIOUS
    <3> QED
      BY <2>1, <3>1, Associative, Zenon
  <2> DEFINE b == write[x] \o t
  <2>3. b \in Bytes
    BY <1>5, Joined
  <2> HIDE DEF v, w
  <2>4. get[b] = Got(v, puts[v][w] \o t)
    <3>1. get[put[v] \o (puts[v][w] \o t)] = Got(v, puts[v][w] \o t)
      BY <2>0, <2>1 DEF Codec
    <3> QED
      BY <2>2, <3>1
  <2>5. gets[v][puts[v][w] \o t] = Got(w, t)
    BY <2>0, <2>1 DEF Codec
  <2> HIDE DEF b
  <2>6. get[b].ok /\ get[b].value = v /\ get[b].rest = puts[v][w] \o t
    BY <2>4 DEF Got
  <2>7. gets[get[b].value][get[b].rest] = Got(w, t)
    BY <2>5, <2>6
  <2>8. gets[get[b].value][get[b].rest].ok /\ gets[get[b].value][get[b].rest].value = w
        /\ gets[get[b].value][get[b].rest].rest = t
    BY <2>7 DEF Got
  <2>9. all[b].ok
    BY <1>a, <2>3, <2>6, <2>8
  <2>10. one[all[b].value] = v /\ two[all[b].value] = w /\ all[b].rest = t
    BY <1>b, <2>3, <2>6, <2>8, <2>9
  <2>11. all[b].value \in X /\ all[b] = Got(all[b].value, all[b].rest)
    BY <1>2, <2>3, <2>9, ResultParts
  <2>12. all[b].value = x
    BY <1>c, <2>10, <2>11 DEF v, w
  <2> QED
    BY <2>10, <2>11, <2>12 DEF b
<1>7. ASSUME NEW b \in Bytes, NEW t \in Bytes, all[b].ok
      PROVE all[b \o t] = Got(all[b].value, all[b].rest \o t)
  <2> DEFINE v == get[b].value
             c == get[b].rest
             w == gets[v][c].value
             d == gets[v][c].rest
  <2>1. get[b].ok /\ v \in V /\ c \in Bytes
    BY <1>2, <1>7, <1>a, ResultParts
  <2>2. gets[v][c].ok
    BY <1>7, <1>a
  <2>3. w \in W[v] /\ d \in Bytes
    BY <1>4, <2>1, <2>2, ResultParts
  <2>4. get[b \o t] = Got(v, c \o t) /\ b \o t \in Bytes /\ c \o t \in Bytes
    <3>1. get[b \o t] = Got(v, c \o t)
      BY <2>1 DEF Codec
    <3> QED
      BY <2>1, <3>1, Joined
  <2>5. Codec(gets[v], puts[v], W[v])
    BY <2>1
  <2>6. gets[v][c \o t] = Got(w, d \o t)
    BY <2>1, <2>2, <2>5 DEF Codec
  <2>7. one[all[b].value] = v /\ two[all[b].value] = w /\ all[b].rest = d
    BY <1>7, <1>b
  <2> HIDE DEF v, c, w, d
  <2> DEFINE e == b \o t
  <2>8. e \in Bytes /\ get[e] = Got(v, c \o t)
    BY <2>4
  <2> HIDE DEF e
  <2>9. get[e].ok /\ get[e].value = v /\ get[e].rest = c \o t
    BY <2>8 DEF Got
  <2>10. gets[get[e].value][get[e].rest] = Got(w, d \o t)
    BY <2>6, <2>9
  <2>11. /\ gets[get[e].value][get[e].rest].ok /\ gets[get[e].value][get[e].rest].value = w
         /\ gets[get[e].value][get[e].rest].rest = d \o t
    BY <2>10 DEF Got
  <2>12. all[e].ok
    BY <1>a, <2>8, <2>9, <2>11
  <2>13. one[all[e].value] = v /\ two[all[e].value] = w /\ all[e].rest = d \o t
    BY <1>b, <2>8, <2>9, <2>11, <2>12
  <2>14. all[e].value \in X /\ all[e] = Got(all[e].value, all[e].rest)
    BY <1>2, <2>8, <2>12, ResultParts
  <2>15. all[b].value \in X
    BY <1>2, <1>7, ResultParts
  <2>16. all[e].value = all[b].value
    BY <1>c, <2>7, <2>13, <2>14, <2>15
  <2> QED
    BY <2>7, <2>13, <2>14, <2>16 DEF e
<1>8. ASSUME NEW b \in Bytes, all[b].ok
      PROVE Like(write[all[b].value] \o all[b].rest, b)
  <2> DEFINE v == get[b].value
             c == get[b].rest
             w == gets[v][c].value
             d == gets[v][c].rest
             x == all[b].value
  <2>1. get[b].ok /\ v \in V /\ c \in Bytes
    BY <1>2, <1>8, <1>a, ResultParts
  <2>2. gets[v][c].ok
    BY <1>8, <1>a
  <2>3. w \in W[v] /\ d \in Bytes
    BY <1>4, <2>1, <2>2, ResultParts
  <2>4. one[x] = v /\ two[x] = w /\ all[b].rest = d
    BY <1>8, <1>b
  <2>5. x \in X
    BY <1>2, <1>8, ResultParts
  <2>6. Codec(gets[v], puts[v], W[v])
    BY <2>1
  <2>7. Like(puts[v][w] \o d, c)
    BY <2>1, <2>2, <2>6 DEF Codec
  <2>8. Like(put[v] \o c, b)
    BY <2>1 DEF Codec
  <2>9. write[x] = put[v] \o puts[v][w]
    BY <2>4, <2>5
  <2> HIDE DEF v, c, w, d, x
  <2>10. put[v] \in Bytes /\ puts[v][w] \in Bytes /\ puts[v][w] \o d \in Bytes
    BY <1>1, <1>3, <2>1, <2>3, Joined
  <2>11. (put[v] \o puts[v][w]) \o d = put[v] \o (puts[v][w] \o d)
    BY <2>3, <2>10, Associative, Zenon
  <2>12. Like(put[v] \o (puts[v][w] \o d), put[v] \o c)
    BY <2>1, <2>7, <2>10, LikeItself, LikeJoined
  <2>13. put[v] \o (puts[v][w] \o d) \in Bytes /\ put[v] \o c \in Bytes
    BY <2>1, <2>10, Joined
  <2>14. Like(put[v] \o (puts[v][w] \o d), b)
    BY <2>8, <2>12, <2>13, LikeTransitive
  <2> QED
    BY <2>4, <2>9, <2>11, <2>14 DEF x
<1> QED
  BY <1>5, <1>6, <1>7, <1>8 DEF Codec

-----------------------------------------------------------------------------
(* Numbers of 32 bits *)

\* The four bytes of a number are its digits.
LEMMA Digits32 ==
  ASSUME NEW n \in U32
  PROVE LET d == PutU32(n) IN
        /\ d[1] \in Byte /\ d[2] \in Byte /\ d[3] \in Byte /\ d[4] \in Byte
        /\ d = <<d[1], d[2], d[3], d[4]>>
        /\ d[1] + 256 * d[2] + 65536 * d[3] + 16777216 * d[4] = n
<1>1. n \in Nat /\ n \div 65536 < 65536
  BY SMT DEF U32
<1>2. (n % 256) + 256 * ((n \div 256) % 256) + 65536 * ((n \div 65536) % 256)
      + 16777216 * ((n \div 16777216) % 256) = n
  BY <1>1, SMT
<1>3. /\ n % 256 \in 0..255 /\ (n \div 256) % 256 \in 0..255 /\ (n \div 65536) % 256 \in 0..255
      /\ (n \div 16777216) % 256 \in 0..255
  BY <1>1, SMT
<1> QED
  BY <1>2, <1>3, SMT DEF PutU32, Byte

\* The number of which these are the digits, the lowest first.
Made(a, b, c, d) == a + 256 * b + 65536 * c + 16777216 * d

\* GetU32 makes a number of the first four bytes.
LEMMA GetMade ==
  ASSUME NEW b, ~(Len(b) < 4)
  PROVE GetU32(b) = Got(Made(b[1], b[2], b[3], b[4]), SubSeq(b, 5, Len(b)))
  BY SMT DEF GetU32, Made

\* Four bytes are the digits of the number that they make.
LEMMA Number32 ==
  ASSUME NEW a \in Byte, NEW b \in Byte, NEW c \in Byte, NEW d \in Byte
  PROVE Made(a, b, c, d) \in U32 /\ PutU32(Made(a, b, c, d)) = <<a, b, c, d>>
<1> DEFINE n == a + 256 * b + 65536 * c + 16777216 * d
<1>1. n \in Nat /\ n \div 65536 = c + 256 * d /\ n \div 256 = b + 256 * c + 65536 * d
      /\ n \div 16777216 = d
  BY SMT DEF Byte
<1>2. n \div 65536 < 65536
  BY <1>1, SMT DEF Byte
<1>3. n % 256 = a /\ (b + 256 * c + 65536 * d) % 256 = b /\ (c + 256 * d) % 256 = c /\ d % 256 = d
  BY SMT DEF Byte
<1> HIDE DEF n
<1>4. PutU32(n) = <<a, b, c, d>>
  BY <1>1, <1>3, SMT DEF PutU32
<1> QED
  BY <1>1, <1>2, <1>4, SMT DEF U32, n, Made

\* A number is four bytes.
LEMMA Four == ASSUME NEW n \in U32 PROVE PutU32(n) \in Bytes /\ Len(PutU32(n)) = 4
<1>1. PICK a \in Byte, b \in Byte, c \in Byte, d \in Byte : PutU32(n) = <<a, b, c, d>>
  BY Digits32
<1>2. <<a, b, c, d>> \in Seq(Byte) /\ Len(<<a, b, c, d>>) = 4
  OBVIOUS
<1> QED
  BY <1>1, <1>2 DEF Bytes

U32Get == [b \in Bytes |-> GetU32(b)]
U32Put == [n \in U32 |-> PutU32(n)]

\* Of four bytes at least, GetU32 reads the number that they are written for.
LEMMA U32Result ==
  ASSUME NEW b \in Bytes
  PROVE /\ GetU32(b) \in Results(U32)
        /\ GetU32(b).ok <=> Len(b) >= 4
        /\ GetU32(b).ok => b = PutU32(GetU32(b).value) \o GetU32(b).rest
<1>1. CASE Len(b) < 4
  <2>1. GetU32(b) = Refused
    BY <1>1 DEF GetU32
  <2>2. Len(b) \in Nat
    BY LenProperties DEF Bytes
  <2>3. ~GetU32(b).ok /\ GetU32(b) \in Results(U32)
    BY <2>1, RefusedParts
  <2>4. ~(Len(b) >= 4)
    BY <1>1, <2>2
  <2>5. GetU32(b).ok <=> Len(b) >= 4
    BY <2>3, <2>4, Zenon
  <2>6. GetU32(b).ok => b = PutU32(GetU32(b).value) \o GetU32(b).rest
    BY <2>3, Zenon
  <2> QED
    BY <2>3, <2>5, <2>6, Zenon
<1>2. CASE ~(Len(b) < 4)
  <2> DEFINE n == Made(b[1], b[2], b[3], b[4])
             rest == SubSeq(b, 5, Len(b))
  <2>1. Len(b) \in Nat /\ \A i \in 1..Len(b) : b[i] \in Byte
    BY LenProperties, ElementOfSeq DEF Bytes
  <2>2. b[1] \in Byte /\ b[2] \in Byte /\ b[3] \in Byte /\ b[4] \in Byte
    BY <1>2, <2>1
  <2>3. n \in U32 /\ PutU32(n) = <<b[1], b[2], b[3], b[4]>>
    BY <2>2, Number32
  <2>4. GetU32(b) = Got(n, rest)
    BY <1>2, GetMade
  <2>5. /\ SubSeq(b, 1, 4) \in Bytes /\ Len(SubSeq(b, 1, 4)) = 4
        /\ rest \in Bytes /\ SubSeq(b, 1, 4) \o rest = b
    <3>1. 4 \in 0..Len(b) /\ 4 + 1 = 5
      BY <1>2, <2>1
    <3> QED
      BY <3>1, PutTogether
  <2>6. SubSeq(b, 1, 4) = PutU32(n)
    <3>1. \A i \in 1..4 : SubSeq(b, 1, 4)[i] = b[i]
      <4>1. \A i \in 1..4 : b[i] \in Byte
        BY <1>2, <2>1
      <4>2. \A i \in 1..4 - 1 + 1 : SubSeq(b, 1, 4)[i] = b[1 + i - 1]
        BY <4>1, SubSeqProperties
      <4> QED
        BY <4>2
    <3>2. PutU32(n) \in Bytes /\ Len(PutU32(n)) = 4
      BY <2>3, Four
    <3>3. \A i \in 1..4 : PutU32(n)[i] = b[i]
      BY <2>3
    <3> QED
      BY <2>5, <3>1, <3>2, <3>3, SeqEqual DEF Bytes
  <2> HIDE DEF n, rest
  <2>7. GetU32(b).ok /\ GetU32(b).value = n /\ GetU32(b).rest = rest
    BY <2>4 DEF Got
  <2>8. GetU32(b) \in Results(U32)
    BY <2>3, <2>4, <2>5, GotParts
  <2>9. GetU32(b).ok <=> Len(b) >= 4
    BY <1>2, <2>1, <2>7
  <2> QED
    BY <2>5, <2>6, <2>7, <2>8, <2>9
<1> QED
  BY <1>1, <1>2

\* GetU32 reads the number that PutU32 wrote, whatever follows.
LEMMA U32Reads ==
  ASSUME NEW n \in U32, NEW t \in Bytes
  PROVE GetU32(PutU32(n) \o t) = Got(n, t)
<1> DEFINE p == PutU32(n)
           b == p \o t
<1>1. p \in Bytes /\ Len(p) = 4
  BY Four
<1>2. b \in Bytes /\ Len(b) = 4 + Len(t) /\ Len(t) \in Nat /\ \A i \in 1..4 : b[i] = p[i]
  <2>1. /\ b \in Bytes /\ Len(b) = Len(p) + Len(t) /\ Len(t) \in Nat
        /\ \A i \in 1..Len(p) : b[i] = p[i]
    BY <1>1, Joined
  <2> QED
    BY <1>1, <2>1
<1>3. Made(b[1], b[2], b[3], b[4]) = n
  <2>1. b[1] = p[1] /\ b[2] = p[2] /\ b[3] = p[3] /\ b[4] = p[4]
    BY <1>2
  <2> QED
    BY <2>1, Digits32, SMT DEF Made
<1>4. SubSeq(b, 5, Len(b)) = t
  <2>1. SubSeq(p \o t, Len(p) + 1, Len(p \o t)) = t
    BY <1>1, TakenApart
  <2>2. Len(p) + 1 = 5
    BY <1>1
  <2> QED
    BY <2>1, <2>2
<1> HIDE DEF b
<1>5. GetU32(b) = Got(n, t)
  <2>1. ~(Len(b) < 4)
    BY <1>2
  <2> QED
    BY <1>3, <1>4, <2>1, GetMade, Zenon
<1> QED
  BY <1>5 DEF b

\* A number is read as it was written.
LEMMA U32Codec == Codec(U32Get, U32Put, U32)
<1>1. U32Put \in [U32 -> Bytes]
  BY Four DEF U32Put
<1>2. U32Get \in [Bytes -> Results(U32)]
  BY U32Result DEF U32Get
<1>3. ASSUME NEW n \in U32, NEW t \in Bytes PROVE U32Get[U32Put[n] \o t] = Got(n, t)
  <2>1. PutU32(n) \o t \in Bytes
    BY Four, Joined
  <2> QED
    BY <2>1, U32Reads DEF U32Get, U32Put
<1>4. ASSUME NEW b \in Bytes, U32Get[b].ok
      PROVE b = U32Put[U32Get[b].value] \o U32Get[b].rest
  <2>1. GetU32(b).ok /\ U32Get[b] = GetU32(b)
    BY <1>4 DEF U32Get
  <2>2. GetU32(b).value \in U32 /\ b = PutU32(GetU32(b).value) \o GetU32(b).rest
    BY <2>1, U32Result, ResultParts
  <2> QED
    BY <2>1, <2>2 DEF U32Put
<1> QED
  BY <1>1, <1>2, <1>3, <1>4, ExactCodec

-----------------------------------------------------------------------------
(* Recursion, and joining many parts *)

\* A function of the first n numbers that starts somewhere and goes on from
\* each value to the next exists.
GoesOn(f, base, step, n) == f[0] = base /\ \A i \in 1..n : f[i] = step[i][f[i - 1]]
StaysIn(D, step, n) == \A i \in 1..n : \A x \in D : step[i][x] \in D

\* Recursion: a start, and steps that stay in a set, give such a function.
LEMMA Recursion ==
  ASSUME NEW D, NEW base \in D, NEW step, NEW n \in Nat, StaysIn(D, step, n)
  PROVE \E f \in [0..n -> D] : GoesOn(f, base, step, n)
<1> DEFINE S == {m \in Nat : m <= n => \E f \in [0..m -> D] : GoesOn(f, base, step, m)}
<1>1. 0 \in S
  <2> DEFINE f == [i \in 0..0 |-> base]
  <2>1. f \in [0..0 -> D] /\ GoesOn(f, base, step, 0)
    BY DEF GoesOn
  <2> QED
    BY <2>1
<1>2. ASSUME NEW m \in S PROVE m + 1 \in S
  <2>1. SUFFICES ASSUME m + 1 <= n PROVE \E f \in [0..m + 1 -> D] : GoesOn(f, base, step, m + 1)
    OBVIOUS
  <2>2. PICK f \in [0..m -> D] : f[0] = base /\ \A i \in 1..m : f[i] = step[i][f[i - 1]]
    BY <2>1 DEF GoesOn
  <2> DEFINE g == [i \in 0..m + 1 |-> IF i <= m THEN f[i] ELSE step[m + 1][f[m]]]
  <2>3. g \in [0..m + 1 -> D]
    <3>1. m + 1 \in 1..n /\ m \in 0..m
      BY <2>1
    <3>2. step[m + 1][f[m]] \in D
      BY <2>2, <3>1 DEF StaysIn
    <3> QED
      BY <2>2, <3>2
  <2>4. g[0] = base
    BY <2>2
  <2>5. ASSUME NEW i \in 1..m + 1 PROVE g[i] = step[i][g[i - 1]]
    <3>1. CASE i <= m
      <4>1. i \in 1..m /\ i - 1 \in 0..m /\ i \in 0..m + 1 /\ i - 1 \in 0..m + 1 /\ i - 1 <= m
        BY <3>1
      <4>2. g[i] = f[i] /\ g[i - 1] = f[i - 1]
        BY <3>1, <4>1
      <4> QED
        BY <2>2, <4>1, <4>2
    <3>2. CASE ~(i <= m)
      <4>1. i = m + 1 /\ i - 1 = m /\ i \in 0..m + 1 /\ m \in 0..m + 1
        BY <3>2
      <4>2. g[i] = step[m + 1][f[m]] /\ g[m] = f[m]
        BY <3>2, <4>1
      <4> QED
        BY <4>1, <4>2
    <3> QED
      BY <3>1, <3>2
  <2> HIDE DEF g
  <2> QED
    BY <2>3, <2>4, <2>5 DEF GoesOn
<1>3. S = Nat
  <2> HIDE DEF S
  <2>1. S \in SUBSET Nat
    BY DEF S
  <2> QED
    BY <1>1, <1>2, <2>1, AllNumbers, Zenon
<1> QED
  BY <1>3

\* f[i] is what the first i parts give.
Flattening(p, f) ==
  /\ f \in [0..Len(p) -> Bytes]
  /\ f[0] = <<>>
  /\ \A i \in 1..Len(p) : f[i] = f[i - 1] \o p[i]

\* No bytes are bytes, and joining them changes nothing.
LEMMA NoBytes == <<>> \in Bytes /\ \A b \in Bytes : <<>> \o b = b /\ b \o <<>> = b
  BY ConcatEmptySeq, EmptySeq DEF Bytes

\* FlattenSeq joins part after part.
LEMMA Flattened ==
  ASSUME NEW p \in Seq(Bytes)
  PROVE \E f : Flattening(p, f) /\ FlattenSeq(p) = f[Len(p)]
<1>1. Len(p) \in Nat /\ \A i \in 1..Len(p) : p[i] \in Bytes
  BY LenProperties, ElementOfSeq
<1>2. PICK f \in [0..Len(p) -> Bytes] :
         f[0] = <<>> /\ \A i \in 1..Len(p) : f[i] = f[i - 1] \o p[i]
  <2> DEFINE step == [i \in 1..Len(p) |-> [x \in Bytes |-> x \o p[i]]]
             base == <<>>
  <2>1. base \in Bytes
    BY NoBytes
  <2>2. StaysIn(Bytes, step, Len(p))
    BY <1>1, Joined DEF StaysIn
  <2>3. \A i \in 1..Len(p) : \A x \in Bytes : step[i][x] = x \o p[i]
    OBVIOUS
  <2> HIDE DEF base, step
  <2>4. PICK f \in [0..Len(p) -> Bytes] : GoesOn(f, base, step, Len(p))
    BY <1>1, <2>1, <2>2, Recursion
  <2>5. ASSUME NEW i \in 1..Len(p) PROVE f[i] = f[i - 1] \o p[i]
    <3>1. i - 1 \in 0..Len(p)
      BY <1>1
    <3> QED
      BY <2>3, <2>4, <3>1 DEF GoesOn
  <2> QED
    BY <2>4, <2>5 DEF base, GoesOn
<1>3. CASE Len(p) = 0
  <2>1. p = <<>> /\ FlattenSeq(p) = p
    BY <1>3, EmptySeq DEF FlattenSeq
  <2> QED
    BY <1>2, <1>3, <2>1 DEF Flattening
<1>4. CASE Len(p) # 0
  <2> DEFINE flatten[i \in 1..Len(p)] == IF i = 1 THEN p[i] ELSE flatten[i - 1] \o p[i]
             part(g, i) == IF i = 1 THEN p[i] ELSE g[i - 1] \o p[i]
  <2>1. FlattenSeq(p) = flatten[Len(p)]
    BY <1>4, Zenon DEF FlattenSeq
  <2> DEFINE known == [i \in 1..Len(p) |-> f[i]]
  <2>2. ASSUME NEW i \in 1..Len(p) PROVE known[i] = part(known, i)
    <3>1. CASE i = 1
      <4>1. f[1] = <<>> \o p[1] /\ p[1] \in Bytes
        BY <1>1, <1>2, <3>1
      <4> QED
        BY <3>1, <4>1, NoBytes
    <3>2. CASE i # 1
      <4>1. i - 1 \in 1..Len(p)
        BY <1>1, <3>2
      <4> QED
        BY <1>2, <3>2, <4>1
    <3> QED
      BY <3>1, <3>2
  <2>3. known = [i \in 1..Len(p) |-> part(known, i)]
    BY <2>2
  <2> HIDE DEF known
  <2>4. \E g : g = [i \in 1..Len(p) |-> part(g, i)]
    BY <2>3
  <2>5. flatten = [i \in 1..Len(p) |-> part(flatten, i)]
    BY <2>4, Zenon
  <2> HIDE DEF flatten
  <2> DEFINE S == {m \in Nat : m + 1 <= Len(p) => flatten[m + 1] = f[m + 1]}
  <2>6. 0 \in S
    <3>1. ASSUME 0 + 1 <= Len(p) PROVE flatten[0 + 1] = f[0 + 1]
      <4>1. 1 \in 1..Len(p) /\ 0 + 1 = 1 /\ 1 - 1 = 0
        BY <1>1, <3>1
      <4>2. flatten[1] = p[1]
        BY <2>5, <4>1
      <4>3. f[1] = <<>> \o p[1] /\ p[1] \in Bytes
        BY <1>1, <1>2, <4>1
      <4> QED
        BY <4>1, <4>2, <4>3, NoBytes
    <3> QED
      BY <3>1
  <2>7. ASSUME NEW m \in S PROVE m + 1 \in S
    <3>1. SUFFICES ASSUME (m + 1) + 1 <= Len(p)
                   PROVE flatten[(m + 1) + 1] = f[(m + 1) + 1]
      OBVIOUS
    <3> DEFINE k == (m + 1) + 1
    <3>2. k \in 1..Len(p) /\ k # 1 /\ k - 1 = m + 1 /\ m + 1 <= Len(p)
      BY <1>1, <3>1
    <3>3. flatten[k - 1] = f[k - 1]
      BY <3>2
    <3> HIDE DEF k, S
    <3>4. flatten[k] = flatten[k - 1] \o p[k]
      BY <2>5, <3>2
    <3> QED
      BY <1>2, <3>2, <3>3, <3>4 DEF k
  <2>8. S = Nat
    <3> HIDE DEF S
    <3>1. S \in SUBSET Nat
      BY DEF S
    <3> QED
      BY <2>6, <2>7, <3>1, AllNumbers, Zenon
  <2>9. flatten[Len(p)] = f[Len(p)]
    <3>1. Len(p) - 1 \in Nat /\ (Len(p) - 1) + 1 = Len(p)
      BY <1>1, <1>4
    <3>2. Len(p) - 1 \in S
      BY <2>8, <3>1
    <3> QED
      BY <3>1, <3>2, <1>1
  <2> QED
    BY <1>2, <2>1, <2>9 DEF Flattening
<1> QED
  BY <1>3, <1>4

\* What some parts give does not depend on the parts after them.
LEMMA FlattenedAlike ==
  ASSUME NEW p, NEW f, Flattening(p, f), NEW q, NEW g, Flattening(q, g),
         Len(p) \in Nat, Len(q) \in Nat,
         NEW n \in Nat, n <= Len(p), n <= Len(q), \A i \in 1..n : p[i] = q[i]
  PROVE f[n] = g[n]
<1> DEFINE S == {m \in Nat : m <= n => f[m] = g[m]}
<1>1. 0 \in S
  BY DEF Flattening
<1>2. ASSUME NEW m \in S PROVE m + 1 \in S
  <2>1. SUFFICES ASSUME m + 1 <= n PROVE f[m + 1] = g[m + 1]
    OBVIOUS
  <2>2. m + 1 \in 1..Len(p) /\ m + 1 \in 1..Len(q) /\ (m + 1) - 1 = m /\ m + 1 \in 1..n
    BY <2>1
  <2>3. f[m] = g[m]
    BY <2>1
  <2>4. f[m + 1] = f[m] \o p[m + 1] /\ g[m + 1] = g[m] \o q[m + 1]
    BY <2>2 DEF Flattening
  <2> QED
    BY <2>2, <2>3, <2>4
<1>3. S = Nat
  <2> HIDE DEF S
  <2>1. S \in SUBSET Nat
    BY DEF S
  <2> QED
    BY <1>1, <1>2, <2>1, AllNumbers, Zenon
<1> QED
  BY <1>3

\* Parts are flattened one after the other.
LEMMA FlattenLast ==
  ASSUME NEW p \in Seq(Bytes)
  PROVE /\ FlattenSeq(p) \in Bytes
        /\ FlattenSeq(<<>>) = <<>>
        /\ \A x \in Bytes : FlattenSeq(Append(p, x)) = FlattenSeq(p) \o x
<1>1. Len(p) \in Nat
  BY LenProperties
<1>2. PICK f : Flattening(p, f) /\ FlattenSeq(p) = f[Len(p)]
  BY Flattened
<1>3. FlattenSeq(p) \in Bytes
  BY <1>1, <1>2 DEF Flattening
<1>4. FlattenSeq(<<>>) = <<>>
  BY DEF FlattenSeq
<1>5. ASSUME NEW x \in Bytes PROVE FlattenSeq(Append(p, x)) = FlattenSeq(p) \o x
  <2> DEFINE q == Append(p, x)
  <2>1. /\ q \in Seq(Bytes) /\ Len(q) = Len(p) + 1
        /\ \A i \in 1..Len(p) : q[i] = p[i]
        /\ q[Len(p) + 1] = x
    BY AppendProperties
  <2> HIDE DEF q
  <2>2. PICK g : Flattening(q, g) /\ FlattenSeq(q) = g[Len(q)]
    BY <2>1, Flattened
  <2>3. Len(p) <= Len(p) /\ Len(p) <= Len(q) /\ Len(q) \in Nat
    BY <1>1, <2>1
  <2>4. f[Len(p)] = g[Len(p)]
    <3>1. \A i \in 1..Len(p) : p[i] = q[i]
      BY <2>1
    <3> QED
      BY <1>1, <1>2, <2>2, <2>3, <3>1, FlattenedAlike
  <2>5. g[Len(q)] = g[Len(p)] \o x
    <3>1. Len(p) + 1 \in 1..Len(q) /\ (Len(p) + 1) - 1 = Len(p)
      BY <1>1, <2>1
    <3> QED
      BY <2>1, <2>2, <3>1 DEF Flattening
  <2> QED
    BY <1>2, <2>2, <2>4, <2>5 DEF q
<1> QED
  BY <1>3, <1>4, <1>5

-----------------------------------------------------------------------------
(* Bytes, booleans, blocks *)

\* The first byte and the others.
LEMMA FirstByte ==
  ASSUME NEW b \in Bytes
  PROVE /\ GetU8(b) \in Results(Byte)
        /\ GetU8(b).ok => b = <<GetU8(b).value>> \o GetU8(b).rest
        /\ \A k \in Byte : <<k>> \in Bytes /\ Len(<<k>>) = 1 /\ GetU8(<<k>> \o b) = Got(k, b)
<1>1. ASSUME b = <<>> PROVE ~GetU8(b).ok /\ GetU8(b) \in Results(Byte)
  BY <1>1, RefusedResult, Zenon DEF GetU8
<1>2. ASSUME b # <<>>
      PROVE GetU8(b) \in Results(Byte) /\ b = <<GetU8(b).value>> \o GetU8(b).rest
  <2>1. GetU8(b) = Got(Head(b), Tail(b))
    BY <1>2 DEF GetU8
  <2>2. Head(b) \in Byte /\ Tail(b) \in Bytes
    BY <1>2, HeadTailProperties DEF Bytes
  <2>3. b = <<Head(b)>> \o Tail(b)
    <3>1. Len(b) \in Nat /\ Len(b) # 0 /\ Tail(b) = SubSeq(b, 2, Len(b)) /\ Head(b) = b[1]
      BY <1>2, EmptySeq, TailIsSubSeq DEF Bytes
    <3>2. 1 \in 1..Len(b) /\ Len(b) \in 1..Len(b) /\ 1 + 1 = 2
      BY <3>1
    <3>3. SubSeq(b, 1, Len(b)) = <<b[1]>> \o SubSeq(b, 1 + 1, Len(b))
      BY <3>2, SubSeqRecursiveFirst DEF Bytes
    <3> QED
      BY <3>1, <3>2, <3>3, SubSeqFull DEF Bytes
  <2>4. GetU8(b).ok /\ GetU8(b).value = Head(b) /\ GetU8(b).rest = Tail(b) /\ GetU8(b) \in Results(Byte)
    BY <2>1, <2>2, GotResult, Zenon
  <2> QED
    BY <2>3, <2>4
<1>3. ASSUME NEW k \in Byte
      PROVE <<k>> \in Bytes /\ Len(<<k>>) = 1 /\ GetU8(<<k>> \o b) = Got(k, b)
  <2>1. <<k>> \in Bytes /\ Len(<<k>>) = 1
    BY DEF Bytes
  <2> DEFINE c == <<k>> \o b
  <2>2. c \in Bytes /\ Len(c) = 1 + Len(b) /\ Len(b) \in Nat /\ c[1] = k
    <3>1. /\ c \in Bytes /\ Len(c) = Len(<<k>>) + Len(b) /\ Len(b) \in Nat
          /\ \A i \in 1..Len(<<k>>) : c[i] = <<k>>[i]
      BY <2>1, Joined
    <3> QED
      BY <2>1, <3>1
  <2>3. SubSeq(c, 2, Len(c)) = b
    <3>1. SubSeq(<<k>> \o b, Len(<<k>>) + 1, Len(<<k>> \o b)) = b
      BY <2>1, TakenApart
    <3>2. Len(<<k>>) + 1 = 2
      BY <2>1
    <3> QED
      BY <3>1, <3>2
  <2> HIDE DEF c
  <2>4. c # <<>>
    BY <2>2
  <2>5. Head(c) = k /\ Tail(c) = b
    BY <2>2, <2>3, <2>4, TailIsSubSeq DEF Bytes
  <2>6. GetU8(c) = Got(k, b)
    BY <2>4, <2>5 DEF GetU8
  <2> QED
    BY <2>1, <2>6 DEF c
<1> QED
  BY <1>1, <1>2, <1>3

\* One byte, if it is in S.
ByteGet(S) ==
  [b \in Bytes |-> IF GetU8(b).ok /\ GetU8(b).value \in S THEN GetU8(b) ELSE Refused]
BytePut(S) == [k \in S |-> <<k>>]

\* A byte of a set is read as it was written.
LEMMA ByteCodec == ASSUME NEW S \in SUBSET Byte PROVE Codec(ByteGet(S), BytePut(S), S)
<1>1. BytePut(S) \in [S -> Bytes]
  <2>1. \A k \in S : <<k>> \in Bytes
    BY NoBytes, FirstByte
  <2> QED
    BY <2>1 DEF BytePut
<1>2. ByteGet(S) \in [Bytes -> Results(S)]
  <2>1. ASSUME NEW b \in Bytes
        PROVE (IF GetU8(b).ok /\ GetU8(b).value \in S THEN GetU8(b) ELSE Refused) \in Results(S)
    <3>1. CASE GetU8(b).ok /\ GetU8(b).value \in S
      <4>1. GetU8(b).rest \in Bytes /\ GetU8(b) = Got(GetU8(b).value, GetU8(b).rest)
        BY <3>1, FirstByte, ResultParts
      <4> QED
        BY <3>1, <4>1, GotParts
    <3>2. CASE ~(GetU8(b).ok /\ GetU8(b).value \in S)
      BY <3>2, RefusedParts
    <3> QED
      BY <3>1, <3>2
  <2> QED
    BY <2>1 DEF ByteGet
<1>3. ASSUME NEW k \in S, NEW t \in Bytes PROVE ByteGet(S)[BytePut(S)[k] \o t] = Got(k, t)
  <2>1. <<k>> \o t \in Bytes /\ GetU8(<<k>> \o t) = Got(k, t)
    BY FirstByte, Joined
  <2>2. GetU8(<<k>> \o t).ok /\ GetU8(<<k>> \o t).value = k
    BY <2>1, GotParts
  <2> QED
    BY <2>1, <2>2 DEF ByteGet, BytePut
<1>4. ASSUME NEW b \in Bytes, ByteGet(S)[b].ok
      PROVE b = BytePut(S)[ByteGet(S)[b].value] \o ByteGet(S)[b].rest
  <2>1. GetU8(b).ok /\ GetU8(b).value \in S /\ ByteGet(S)[b] = GetU8(b)
    BY <1>4, RefusedParts DEF ByteGet
  <2> QED
    BY <2>1, FirstByte DEF BytePut
<1> QED
  BY <1>1, <1>2, <1>3, <1>4, ExactCodec

BoolGet == [b \in Bytes |-> GetBool(b)]
BoolPut == [v \in BOOLEAN |-> PutBool(v)]

\* Every byte but 0 is read as TRUE.
LEMMA BoolCodec == Codec(BoolGet, BoolPut, BOOLEAN)
<1>0. 0 \in Byte /\ 1 \in Byte
  BY DEF Byte
<1>1. ASSUME NEW v \in BOOLEAN
      PROVE \E k \in Byte : PutBool(v) = <<k>> /\ (v <=> k # 0) /\ k \in {0, 1}
  BY <1>0 DEF PutBool
<1>2. BoolPut \in [BOOLEAN -> Bytes]
  <2>1. \A v \in BOOLEAN : PutBool(v) \in Bytes
    BY <1>1, NoBytes, FirstByte
  <2> QED
    BY <2>1 DEF BoolPut
<1>3. ASSUME NEW b \in Bytes
      PROVE /\ BoolGet[b] = GetBool(b)
            /\ GetBool(b).ok <=> GetU8(b).ok
            /\ GetBool(b) = IF GetU8(b).ok THEN Got(GetU8(b).value # 0, GetU8(b).rest) ELSE Refused
  BY GotParts, RefusedParts DEF BoolGet, GetBool, Got, Refused
<1>4. BoolGet \in [Bytes -> Results(BOOLEAN)]
  <2>1. ASSUME NEW b \in Bytes PROVE GetBool(b) \in Results(BOOLEAN)
    <3>1. CASE GetU8(b).ok
      <4>1. GetU8(b).rest \in Bytes /\ (GetU8(b).value # 0) \in BOOLEAN
        BY <3>1, FirstByte, ResultParts
      <4>2. GetBool(b) = Got(GetU8(b).value # 0, GetU8(b).rest)
        BY <1>3, <3>1
      <4> QED
        BY <4>1, <4>2, GotResult, Zenon
    <3>2. CASE ~GetU8(b).ok
      <4>1. GetBool(b) = Refused
        BY <1>3, <3>2
      <4> QED
        BY <4>1, RefusedResult, Zenon
    <3> QED
      BY <3>1, <3>2
  <2> QED
    BY <2>1 DEF BoolGet
<1>5. ASSUME NEW v \in BOOLEAN, NEW t \in Bytes PROVE BoolGet[BoolPut[v] \o t] = Got(v, t)
  <2>1. PICK k \in Byte : PutBool(v) = <<k>> /\ (v <=> k # 0)
    BY <1>1
  <2>2. <<k>> \o t \in Bytes /\ GetU8(<<k>> \o t) = Got(k, t)
    BY FirstByte, Joined
  <2> DEFINE c == <<k>> \o t
  <2>3. c \in Bytes /\ GetU8(c).ok /\ GetU8(c).value = k /\ GetU8(c).rest = t
    BY <2>2 DEF Got
  <2>4. BoolPut[v] \o t = c
    BY <2>1 DEF BoolPut
  <2> HIDE DEF c
  <2>5. BoolGet[c] = Got(k # 0, t)
    BY <1>3, <2>3
  <2>6. (k # 0) = v
    BY <2>1
  <2> QED
    BY <2>4, <2>5, <2>6
<1>6. ASSUME NEW b \in Bytes, BoolGet[b].ok
      PROVE /\ \A t \in Bytes : BoolGet[b \o t] = Got(BoolGet[b].value, BoolGet[b].rest \o t)
            /\ Like(BoolPut[BoolGet[b].value] \o BoolGet[b].rest, b)
  <2> DEFINE k == GetU8(b).value
             rest == GetU8(b).rest
  <2>1. GetU8(b).ok /\ k \in Byte /\ rest \in Bytes /\ b = <<k>> \o rest
    BY <1>3, <1>6, FirstByte, ResultParts
  <2>2. BoolGet[b].value = (k # 0) /\ BoolGet[b].rest = rest
    BY <1>3, <2>1 DEF Got
  <2> HIDE DEF k, rest
  <2>3. ASSUME NEW t \in Bytes PROVE BoolGet[b \o t] = Got(k # 0, rest \o t)
    <3>1. <<k>> \in Bytes
      BY <2>1, FirstByte
    <3>2. (<<k>> \o rest) \o t = <<k>> \o (rest \o t)
      BY <2>1, <3>1, Associative, Zenon
    <3>3. GetU8(b \o t) = Got(k, rest \o t) /\ b \o t \in Bytes
      BY <2>1, <3>2, FirstByte, Joined
    <3>4. GetU8(b \o t).ok /\ GetU8(b \o t).value = k /\ GetU8(b \o t).rest = rest \o t
      BY <3>3 DEF Got
    <3> QED
      BY <1>3, <3>3, <3>4
  <2>4. Like(PutBool(k # 0) \o rest, b)
    <3>1. PICK j \in Byte : PutBool(k # 0) = <<j>> /\ ((k # 0) <=> j # 0) /\ j \in {0, 1}
      BY <1>1
    <3>2. <<j>> \in Bytes /\ <<k>> \in Bytes
      BY <2>1, FirstByte
    <3>3. Like(<<j>>, <<k>>)
      BY <3>1 DEF Like
    <3>4. Like(<<j>> \o rest, <<k>> \o rest)
      BY <2>1, <3>2, <3>3, LikeItself, LikeJoined
    <3> QED
      BY <2>1, <3>1, <3>4
  <2> QED
    BY <2>2, <2>3, <2>4 DEF BoolPut
<1> QED
  BY <1>2, <1>4, <1>5, <1>6 DEF Codec

\* A number of bytes.
Block(n) == {s \in Bytes : Len(s) = n}
TakeGet(n) == [b \in Bytes |-> Take(n, b)]
TakePut(n) == [s \in Block(n) |-> s]

\* A number of bytes is read as it was written.
LEMMA TakeCodec == ASSUME NEW n \in Nat PROVE Codec(TakeGet(n), TakePut(n), Block(n))
<1>1. TakePut(n) \in [Block(n) -> Bytes]
  BY DEF TakePut, Block
<1>2. ASSUME NEW b \in Bytes
      PROVE /\ Take(n, b) \in Results(Block(n))
            /\ Take(n, b).ok => b = Take(n, b).value \o Take(n, b).rest
  <2>1. CASE Len(b) < n
    <3>1. Take(n, b) = Refused
      BY <2>1 DEF Take
    <3> QED
      BY <3>1, RefusedResult, Zenon
  <2>2. CASE ~(Len(b) < n)
    <3> DEFINE s == SubSeq(b, 1, n)
               t == SubSeq(b, n + 1, Len(b))
    <3>1. Take(n, b) = Got(s, t)
      BY <2>2 DEF Take
    <3>2. n \in 0..Len(b)
      BY <2>2, LenProperties DEF Bytes
    <3>3. s \in Block(n) /\ t \in Bytes /\ s \o t = b
      BY <3>2, PutTogether DEF Block
    <3> HIDE DEF s, t
    <3>4. Take(n, b).ok /\ Take(n, b).value = s /\ Take(n, b).rest = t /\ Take(n, b) \in Results(Block(n))
      <4>1. s \in Block(n) /\ t \in Bytes
        BY <3>3
      <4>2. Take(n, b) = Got(s, t)
        BY <3>1
      <4> QED
        BY <4>1, <4>2, GotParts
    <3> QED
      BY <3>3, <3>4
  <2> QED
    BY <2>1, <2>2
<1>3. TakeGet(n) \in [Bytes -> Results(Block(n))]
  BY <1>2 DEF TakeGet
<1>4. ASSUME NEW s \in Block(n), NEW t \in Bytes PROVE TakeGet(n)[TakePut(n)[s] \o t] = Got(s, t)
  <2>1. s \in Bytes /\ Len(s) = n
    BY DEF Block
  <2>2. s \o t \in Bytes /\ Len(s \o t) = n + Len(t) /\ Len(t) \in Nat
    BY <2>1, Joined
  <2>3. SubSeq(s \o t, 1, n) = s /\ SubSeq(s \o t, n + 1, Len(s \o t)) = t
    BY <2>1, TakenApart
  <2>4. Take(n, s \o t) = Got(s, t)
    <3>1. ~(Len(s \o t) < n)
      BY <2>2
    <3> QED
      BY <2>3, <3>1, Zenon DEF Take
  <2> QED
    BY <2>2, <2>4 DEF TakeGet, TakePut
<1>5. ASSUME NEW b \in Bytes, TakeGet(n)[b].ok
      PROVE b = TakePut(n)[TakeGet(n)[b].value] \o TakeGet(n)[b].rest
  <2>1. Take(n, b).ok /\ TakeGet(n)[b] = Take(n, b)
    BY <1>5 DEF TakeGet
  <2>2. Take(n, b).value \in Block(n)
    BY <1>2, <2>1, ResultParts
  <2> QED
    BY <1>2, <2>1, <2>2 DEF TakePut
<1> QED
  BY <1>1, <1>3, <1>4, <1>5, ExactCodec

\* Nothing at all.
EmptyGet == [b \in Bytes |-> Got(<<>>, b)]
EmptyPut == [v \in {<<>>} |-> <<>>]

\* What takes no bytes is read from none.
LEMMA EmptyCodec == Codec(EmptyGet, EmptyPut, {<<>>})
<1>1. EmptyPut \in [{<<>>} -> Bytes]
  BY NoBytes DEF EmptyPut
<1>2. EmptyGet \in [Bytes -> Results({<<>>})]
  <2>1. \A b \in Bytes : Got(<<>>, b) \in Results({<<>>})
    BY GotParts
  <2> QED
    BY <2>1 DEF EmptyGet
<1>3. \A v \in {<<>>}, t \in Bytes : EmptyGet[EmptyPut[v] \o t] = Got(v, t)
  BY NoBytes DEF EmptyGet, EmptyPut
<1>4. \A b \in Bytes : b = EmptyPut[EmptyGet[b].value] \o EmptyGet[b].rest
  BY NoBytes DEF EmptyGet, EmptyPut, Got
<1> QED
  BY <1>1, <1>2, <1>3, <1>4, ExactCodec

-----------------------------------------------------------------------------
(* Two values, one after the other *)

\* Two values, one after the other: what the second is of, and how it is read
\* and written, may depend on the first.
Twos(V, W) == UNION {{<<v, w>> : w \in W[v]} : v \in V}
TwoGet(get, nexts) ==
  [b \in Bytes |->
     LET r == get[b]
         q == nexts[r.value][r.rest]
     IN IF r.ok /\ q.ok THEN Got(<<r.value, q.value>>, q.rest) ELSE Refused]
TwoPut(put, thens, V, W) == [p \in Twos(V, W) |-> put[p[1]] \o thens[p[1]][p[2]]]

\* Two values are read as they were written if each of them is.
LEMMA TwoCodec ==
  ASSUME NEW V, NEW get, NEW put, Codec(get, put, V),
         NEW W, NEW nexts, NEW thens, \A v \in V : Codec(nexts[v], thens[v], W[v])
  PROVE Codec(TwoGet(get, nexts), TwoPut(put, thens, V, W), Twos(V, W))
<1> DEFINE X == Twos(V, W)
           one == [x \in X |-> x[1]]
           two == [x \in X |-> x[2]]
           all == TwoGet(get, nexts)
           write == TwoPut(put, thens, V, W)
<1>1. \A b \in Bytes : get[b] \in Results(V)
  BY DEF Codec
<1>2. \A v \in V : \A b \in Bytes : nexts[v][b] \in Results(W[v])
  BY DEF Codec
<1>3. \A x \in X : \E v \in V : \E w \in W[v] : x = <<v, w>>
  BY DEF Twos
<1>4. \A v \in V : \A w \in W[v] : <<v, w>> \in X
  BY DEF Twos
<1>5. ASSUME NEW b \in Bytes
      PROVE LET r == get[b]
                q == nexts[get[b].value][get[b].rest]
            IN /\ all[b].ok <=> r.ok /\ q.ok
               /\ all[b].ok => /\ <<r.value, q.value>> \in X /\ q.rest \in Bytes
                               /\ all[b] = Got(<<r.value, q.value>>, q.rest)
                               /\ one[all[b].value] = r.value
                               /\ two[all[b].value] = q.value
                               /\ all[b].rest = q.rest
               /\ all[b] \in Results(X)
  <2> DEFINE r == get[b]
             q == nexts[get[b].value][get[b].rest]
             v == r.value
             w == q.value
             t == q.rest
  <2>1. all[b] = IF r.ok /\ q.ok THEN Got(<<v, w>>, t) ELSE Refused
    BY DEF TwoGet
  <2> HIDE DEF all, X
  <2>2. ASSUME r.ok, q.ok PROVE v \in V /\ w \in W[v] /\ t \in Bytes
    <3>1. v \in V /\ r.rest \in Bytes
      BY <1>1, <2>2, ResultParts
    <3>2. q \in Results(W[v])
      BY <1>2, <3>1
    <3> QED
      BY <2>2, <3>1, <3>2, ResultParts
  <2> HIDE DEF r, q
  <2>3. CASE r.ok /\ q.ok
    <3>1. all[b] = Got(<<v, w>>, t)
      BY <2>1, <2>3
    <3>2. <<v, w>> \in X /\ t \in Bytes
      BY <1>4, <2>2, <2>3
    <3> HIDE DEF v, w, t
    <3> DEFINE p == <<v, w>>
    <3>3. one[p] = v /\ two[p] = w
      BY <3>2
    <3> HIDE DEF p, one, two
    <3>4. all[b].ok /\ all[b].value = p /\ all[b].rest = t /\ all[b] \in Results(X)
      <4>1. p \in X /\ t \in Bytes
        BY <3>2 DEF p
      <4>2. all[b] = Got(p, t)
        BY <3>1 DEF p
      <4> QED
        BY <4>1, <4>2, GotParts
    <3> QED
      BY <2>3, <3>1, <3>2, <3>3, <3>4 DEF r, q, v, w, t, p
  <2>4. CASE ~(r.ok /\ q.ok)
    <3>1. all[b] = Refused
      BY <2>1, <2>4
    <3>2. ~all[b].ok /\ all[b] \in Results(X)
      BY <3>1, RefusedParts
    <3> QED
      BY <2>4, <3>2 DEF r, q
  <2> QED
    BY <2>3, <2>4
<1>6. Parts(X, V, W, one, two)
  BY <1>3 DEF Parts
<1>7. all \in [Bytes -> Results(X)]
  BY <1>5 DEF TwoGet
<1>8. ReadsParts(all, get, nexts, one, two)
  BY <1>5 DEF ReadsParts
<1>9. write = [x \in X |-> put[one[x]] \o thens[one[x]][two[x]]]
  BY DEF TwoPut
<1> HIDE DEF X, one, two, all, write
<1>10. Codec(all, write, X)
  BY <1>6, <1>7, <1>8, <1>9, ThenCodec
<1> QED
  BY <1>10 DEF X, all, write

PairGet(get, next) ==
  [b \in Bytes |->
     LET r == get[b]
         q == next[r.rest]
     IN IF r.ok /\ q.ok THEN Got(<<r.value, q.value>>, q.rest) ELSE Refused]
PairPut(put, then, V, W) == [p \in V \X W |-> put[p[1]] \o then[p[2]]]

\* Two values that do not depend on each other are read as they were written.
LEMMA PairCodec ==
  ASSUME NEW V, NEW get, NEW put, Codec(get, put, V),
         NEW W, NEW next, NEW then, Codec(next, then, W)
  PROVE Codec(PairGet(get, next), PairPut(put, then, V, W), V \X W)
<1> DEFINE Ws == [v \in V |-> W]
           nexts == [v \in V |-> next]
           thens == [v \in V |-> then]
<1>1. \A v \in V : Codec(nexts[v], thens[v], Ws[v])
  OBVIOUS
<1>2. Twos(V, Ws) = V \X W
  BY DEF Twos
<1>3. TwoPut(put, thens, V, Ws) = PairPut(put, then, V, W)
  BY <1>2 DEF TwoPut, PairPut
<1>4. TwoGet(get, nexts) = PairGet(get, next)
  <2>1. ASSUME NEW b \in Bytes PROVE TwoGet(get, nexts)[b] = PairGet(get, next)[b]
    <3>1. CASE get[b].ok
      <4>1. get[b].value \in V
        BY <3>1, ResultParts DEF Codec
      <4>2. nexts[get[b].value] = next
        BY <4>1
      <4> QED
        BY <4>2 DEF TwoGet, PairGet
    <3>2. CASE ~get[b].ok
      BY <3>2 DEF TwoGet, PairGet
    <3> QED
      BY <3>1, <3>2
  <2> QED
    BY <2>1 DEF TwoGet, PairGet
<1> HIDE DEF nexts, thens, Ws
<1>5. Codec(TwoGet(get, nexts), TwoPut(put, thens, V, Ws), Twos(V, Ws))
  BY <1>1, TwoCodec
<1> QED
  BY <1>2, <1>3, <1>4, <1>5

\* The same bytes, for values that stand for those of V one by one.
Renaming(to, from, X, V) ==
  /\ to \in [X -> V] /\ from \in [V -> X]
  /\ \A x \in X : from[to[x]] = x
  /\ \A v \in V : to[from[v]] = v

RenamedGet(get, from) ==
  [b \in Bytes |-> IF get[b].ok THEN Got(from[get[b].value], get[b].rest) ELSE Refused]
RenamedPut(put, to, X) == [x \in X |-> put[to[x]]]

\* What stands for values that are read as written is read as written.
LEMMA RenamedCodec ==
  ASSUME NEW V, NEW get, NEW put, Codec(get, put, V),
         NEW X, NEW to, NEW from, Renaming(to, from, X, V)
  PROVE Codec(RenamedGet(get, from), RenamedPut(put, to, X), X)
<1> DEFINE all == RenamedGet(get, from)
           write == RenamedPut(put, to, X)
<1>0. /\ all = [b \in Bytes |-> IF get[b].ok THEN Got(from[get[b].value], get[b].rest) ELSE Refused]
      /\ write = [x \in X |-> put[to[x]]]
  BY DEF RenamedGet, RenamedPut
<1> HIDE DEF all, write
<1>1. /\ \A x \in X : to[x] \in V /\ from[to[x]] = x
      /\ \A v \in V : from[v] \in X /\ to[from[v]] = v
  BY DEF Renaming
<1>2. \A v \in V : put[v] \in Bytes
  BY DEF Codec
<1>3. write \in [X -> Bytes]
  BY <1>0, <1>1, <1>2
<1>4. ASSUME NEW b \in Bytes
      PROVE /\ all[b].ok <=> get[b].ok
            /\ all[b].ok => /\ get[b].value \in V /\ get[b].rest \in Bytes
                            /\ all[b].value = from[get[b].value] /\ all[b].rest = get[b].rest
            /\ all[b] \in Results(X)
  <2>1. get[b] \in Results(V)
    BY DEF Codec
  <2>2. CASE get[b].ok
    <3>1. get[b].value \in V /\ get[b].rest \in Bytes
      BY <2>1, <2>2, ResultParts
    <3>2. from[get[b].value] \in X
      BY <1>1, <3>1
    <3>3. all[b] = Got(from[get[b].value], get[b].rest)
      BY <1>0, <2>2
    <3>4. all[b].ok /\ all[b].value = from[get[b].value] /\ all[b].rest = get[b].rest
          /\ all[b] \in Results(X)
      BY <3>1, <3>2, <3>3, GotParts
    <3> QED
      BY <2>2, <3>1, <3>4
  <2>3. CASE ~get[b].ok
    <3>1. all[b] = Refused
      BY <1>0, <2>3
    <3>2. ~all[b].ok /\ all[b] \in Results(X)
      BY <3>1, RefusedParts
    <3> QED
      BY <2>3, <3>2
  <2> QED
    BY <2>2, <2>3
<1>5. all \in [Bytes -> Results(X)]
  BY <1>0, <1>4
<1>6. ASSUME NEW x \in X, NEW t \in Bytes PROVE all[write[x] \o t] = Got(x, t)
  <2> DEFINE v == to[x]
             b == write[x] \o t
  <2>1. v \in V /\ from[v] = x /\ b \in Bytes /\ get[b] = Got(v, t)
    BY <1>0, <1>1, <1>2, Joined DEF Codec
  <2> HIDE DEF b
  <2>2. get[b].ok /\ get[b].value = v /\ get[b].rest = t
    BY <2>1 DEF Got
  <2>3. all[b] = Got(x, t)
    BY <1>0, <2>1, <2>2
  <2> QED
    BY <2>3 DEF b
<1>7. ASSUME NEW b \in Bytes, NEW t \in Bytes, all[b].ok
      PROVE all[b \o t] = Got(all[b].value, all[b].rest \o t)
  <2> DEFINE v == get[b].value
             c == get[b].rest \o t
             d == b \o t
  <2>1. v \in V /\ get[b].ok /\ all[b].value = from[v] /\ all[b].rest \o t = c
    BY <1>4, <1>7
  <2>2. d \in Bytes /\ get[d] = Got(v, c)
    BY <2>1, Joined DEF Codec
  <2> HIDE DEF v, c, d
  <2>3. get[d].ok /\ get[d].value = v /\ get[d].rest = c
    BY <2>2 DEF Got
  <2>4. all[d] = Got(from[v], c)
    BY <1>0, <2>2, <2>3
  <2> QED
    BY <2>1, <2>4 DEF d
<1>8. ASSUME NEW b \in Bytes, all[b].ok PROVE Like(write[all[b].value] \o all[b].rest, b)
  <2> DEFINE v == get[b].value
  <2>1. v \in V /\ get[b].ok /\ all[b].value = from[v] /\ all[b].rest = get[b].rest
    BY <1>4, <1>8
  <2>2. Like(put[v] \o get[b].rest, b)
    BY <2>1 DEF Codec
  <2>3. write[from[v]] = put[v]
    BY <1>0, <1>1, <2>1
  <2> QED
    BY <2>1, <2>2, <2>3
<1> QED
  BY <1>3, <1>5, <1>6, <1>7, <1>8 DEF Codec, all, write

-----------------------------------------------------------------------------
(* Lists *)

Lists(V, n) == {s \in Seq(V) : Len(s) = n}
Written(put, s) == FlattenSeq([i \in DOMAIN s |-> put[s[i]]])
ListPut(put, V, n) == [s \in Lists(V, n) |-> Written(put, s)]

\* Elements are written one after the other.
LEMMA WrittenLast ==
  ASSUME NEW V, NEW put \in [V -> Bytes], NEW s \in Seq(V)
  PROVE /\ Written(put, <<>>) = <<>>
        /\ Written(put, s) \in Bytes
        /\ \A v \in V : Written(put, Append(s, v)) = Written(put, s) \o put[v]
<1> DEFINE p == [i \in DOMAIN s |-> put[s[i]]]
<1>1. Len(s) \in Nat /\ DOMAIN s = 1..Len(s) /\ \A i \in 1..Len(s) : s[i] \in V
  BY LenProperties, ElementOfSeq
<1>2. p \in Seq(Bytes) /\ Len(p) = Len(s) /\ \A i \in 1..Len(s) : p[i] = put[s[i]]
  BY <1>1
<1>3. Written(put, <<>>) = <<>>
  <2>1. [i \in DOMAIN <<>> |-> put[<<>>[i]]] = <<>>
    OBVIOUS
  <2>2. FlattenSeq(<<>>) = <<>>
    BY <1>2, FlattenLast
  <2> QED
    BY <2>1, <2>2 DEF Written
<1>4. Written(put, s) \in Bytes
  BY <1>2, FlattenLast DEF Written
<1>5. ASSUME NEW v \in V PROVE Written(put, Append(s, v)) = Written(put, s) \o put[v]
  <2> DEFINE t == Append(s, v)
             q == [i \in DOMAIN t |-> put[t[i]]]
  <2>1. /\ t \in Seq(V) /\ Len(t) = Len(s) + 1 /\ DOMAIN t = 1..Len(s) + 1
        /\ \A i \in 1..Len(s) : t[i] = s[i]
        /\ t[Len(s) + 1] = v
    BY AppendProperties, LenProperties
  <2> HIDE DEF t
  <2>2. put[v] \in Bytes
    OBVIOUS
  <2>3. /\ Append(p, put[v]) \in Seq(Bytes) /\ Len(Append(p, put[v])) = Len(s) + 1
        /\ \A i \in 1..Len(s) : Append(p, put[v])[i] = p[i]
        /\ Append(p, put[v])[Len(s) + 1] = put[v]
    <3> HIDE DEF p
    <3> QED
      BY <1>2, <2>2, AppendProperties
  <2>4. q = Append(p, put[v])
    <3>1. \A i \in 1..Len(s) + 1 : t[i] \in V
      BY <2>1, ElementOfSeq
    <3>2. q \in Seq(Bytes) /\ Len(q) = Len(s) + 1 /\ \A i \in 1..Len(s) + 1 : q[i] = put[t[i]]
      BY <1>1, <2>1, <3>1
    <3>3. \A i \in 1..Len(s) + 1 : q[i] = Append(p, put[v])[i]
      <4>1. ASSUME NEW i \in 1..Len(s) + 1 PROVE q[i] = Append(p, put[v])[i]
        <5>1. CASE i \in 1..Len(s)
          BY <1>2, <2>1, <2>3, <3>2, <5>1
        <5>2. CASE i = Len(s) + 1
          BY <2>1, <2>3, <3>2, <5>2
        <5> QED
          BY <1>1, <5>1, <5>2
      <4> QED
        BY <4>1
    <3> HIDE DEF p, q
    <3> QED
      BY <2>3, <3>2, <3>3, SeqEqual
  <2> HIDE DEF p, q
  <2>5. FlattenSeq(q) = FlattenSeq(p) \o put[v]
    BY <1>2, <2>2, <2>4, FlattenLast
  <2> QED
    BY <2>5 DEF Written, p, q, t
<1> QED
  BY <1>3, <1>4, <1>5

\* Elements that take a byte at least take as many as they are.
TakesBytes(put, V) == \A v \in V : put[v] # <<>>

\* A list takes as many bytes as it has elements at least.
LEMMA WrittenLong ==
  ASSUME NEW V, NEW put \in [V -> Bytes], TakesBytes(put, V), NEW n \in Nat, NEW s \in Lists(V, n)
  PROVE Written(put, s) \in Bytes /\ Len(Written(put, s)) >= n
<1> DEFINE S == {m \in Nat : \A x \in Lists(V, m) : Len(Written(put, x)) >= m}
<1>1. 0 \in S
  <2>1. ASSUME NEW x \in Lists(V, 0) PROVE Len(Written(put, x)) >= 0
    <3>1. Written(put, x) \in Bytes
      BY WrittenLast DEF Lists
    <3> QED
      BY <3>1, LenProperties DEF Bytes
  <2> QED
    BY <2>1
<1>2. ASSUME NEW m \in S PROVE m + 1 \in S
  <2>1. ASSUME NEW x \in Lists(V, m + 1) PROVE Len(Written(put, x)) >= m + 1
    <3>1. x \in Seq(V) /\ Len(x) = m + 1 /\ x # <<>>
      BY EmptySeq DEF Lists
    <3>2. PICK y \in Seq(V), v \in V : x = Append(y, v)
      BY <3>1, SequenceEmptyOrAppend
    <3>3. Len(x) = Len(y) + 1 /\ Len(y) \in Nat
      BY <3>2, AppendProperties, LenProperties
    <3>4. y \in Lists(V, m)
      BY <3>1, <3>3 DEF Lists
    <3>5. Written(put, x) = Written(put, y) \o put[v] /\ Written(put, y) \in Bytes
      BY <3>2, WrittenLast
    <3>6. put[v] \in Bytes /\ put[v] # <<>>
      BY DEF TakesBytes
    <3>7. Len(put[v]) \in Nat /\ Len(put[v]) >= 1
      BY <3>6, EmptySeq DEF Bytes
    <3>8. Len(Written(put, x)) = Len(Written(put, y)) + Len(put[v]) /\ Len(Written(put, y)) \in Nat
      BY <3>5, <3>6, Joined
    <3>9. Len(Written(put, y)) >= m
      BY <3>4
    <3> QED
      BY <3>7, <3>8, <3>9
  <2> QED
    BY <2>1
<1>3. S = Nat
  <2> HIDE DEF S
  <2>1. S \in SUBSET Nat
    BY DEF S
  <2> QED
    BY <1>1, <1>2, <2>1, AllNumbers, Zenon
<1>4. Len(Written(put, s)) >= n
  BY <1>3
<1> QED
  BY <1>4, WrittenLast DEF Lists

\* What has been read, with the next element.
AddElement(get, r) ==
  LET next == get[r.rest]
  IN IF r.ok /\ next.ok THEN Got(Append(r.value, next.value), next.rest) ELSE Refused

\* With lists of one length, those with one element more are read as written.
LEMMA ListStep ==
  ASSUME NEW V, NEW get, NEW put, Codec(get, put, V),
         NEW n \in Nat, NEW all, Codec(all, ListPut(put, V, n), Lists(V, n))
  PROVE Codec([b \in Bytes |-> AddElement(get, all[b])], ListPut(put, V, n + 1), Lists(V, n + 1))
<1> DEFINE L == Lists(V, n)
           X == Lists(V, n + 1)
           pget == PairGet(all, get)
           pput == PairPut(ListPut(put, V, n), put, L, V)
           to == [s \in X |-> <<SubSeq(s, 1, n), s[n + 1]>>]
           from == [p \in L \X V |-> Append(p[1], p[2])]
           write == ListPut(put, V, n + 1)
           more == [b \in Bytes |-> AddElement(get, all[b])]
<1>1. Codec(pget, pput, L \X V)
  BY PairCodec
<1>2. ASSUME NEW s \in X
      PROVE /\ SubSeq(s, 1, n) \in L /\ s[n + 1] \in V
            /\ s = Append(SubSeq(s, 1, n), s[n + 1])
  <2>1. s \in Seq(V) /\ Len(s) = n + 1 /\ \A i \in 1..n + 1 : s[i] \in V
    BY ElementOfSeq DEF Lists
  <2>2. /\ SubSeq(s, 1, n) \in Seq(V) /\ Len(SubSeq(s, 1, n)) = n
        /\ \A i \in 1..n : SubSeq(s, 1, n)[i] = s[i]
    <3>1. \A i \in 1..n : s[i] \in V
      BY <2>1
    <3>2. /\ SubSeq(s, 1, n) \in Seq(V) /\ Len(SubSeq(s, 1, n)) = IF 1 <= n THEN n - 1 + 1 ELSE 0
          /\ \A i \in 1..n - 1 + 1 : SubSeq(s, 1, n)[i] = s[1 + i - 1]
      BY <3>1, SubSeqProperties
    <3> QED
      BY <3>2
  <2> DEFINE f == SubSeq(s, 1, n)
             v == s[n + 1]
             a == Append(f, v)
  <2>3. v \in V
    BY <2>1
  <2>4. a \in Seq(V) /\ Len(a) = n + 1 /\ (\A i \in 1..n : a[i] = f[i]) /\ a[n + 1] = v
    <3> HIDE DEF f, v
    <3>1. f \in Seq(V) /\ Len(f) = n
      BY <2>2 DEF f
    <3> QED
      BY <2>3, <3>1, AppendProperties
  <2> HIDE DEF a
  <2>5. \A i \in 1..n + 1 : s[i] = a[i]
    BY <2>2, <2>4
  <2>6. s = a
    BY <2>1, <2>4, <2>5, SeqEqual
  <2> QED
    BY <2>2, <2>3, <2>6 DEF Lists, a
<1>3. ASSUME NEW f \in L, NEW v \in V
      PROVE /\ Append(f, v) \in X
            /\ SubSeq(Append(f, v), 1, n) = f /\ Append(f, v)[n + 1] = v
  <2>1. f \in Seq(V) /\ Len(f) = n
    BY DEF Lists
  <2>2. /\ Append(f, v) \in Seq(V) /\ Len(Append(f, v)) = n + 1 /\ Append(f, v)[n + 1] = v
        /\ Append(f, v) \in X
    BY <2>1, AppendProperties DEF Lists
  <2>3. Append(f, v) = Append(SubSeq(Append(f, v), 1, n), Append(f, v)[n + 1])
        /\ SubSeq(Append(f, v), 1, n) \in Seq(V)
    BY <1>2, <2>2 DEF Lists
  <2>4. SubSeq(Append(f, v), 1, n) = f
    BY <2>1, <2>2, <2>3, AppendInjective
  <2> QED
    BY <2>2, <2>4
<1>4. Renaming(to, from, X, L \X V)
  <2> HIDE DEF X, L
  <2>1. to \in [X -> L \X V]
    BY <1>2
  <2>2. from \in [L \X V -> X]
    BY <1>3
  <2>3. ASSUME NEW s \in X PROVE from[to[s]] = s
    BY <1>2
  <2>4. ASSUME NEW p \in L \X V PROVE to[from[p]] = p
    <3>1. PICK f \in L, v \in V : p = <<f, v>>
      OBVIOUS
    <3>2. from[p] = Append(f, v)
      BY <3>1
    <3>3. to[Append(f, v)] = <<f, v>>
      BY <1>3
    <3> QED
      BY <3>1, <3>2, <3>3
  <2> QED
    BY <2>1, <2>2, <2>3, <2>4 DEF Renaming
<1>5. more = RenamedGet(pget, from)
  <2>1. ASSUME NEW b \in Bytes
        PROVE AddElement(get, all[b])
                = IF pget[b].ok THEN Got(from[pget[b].value], pget[b].rest) ELSE Refused
    <3> DEFINE r == all[b]
               q == get[all[b].rest]
    <3>1. r \in Results(L)
      BY DEF Codec
    <3>2. CASE r.ok /\ q.ok
      <4>1. r.value \in L /\ r.rest \in Bytes
        BY <3>1, <3>2, ResultParts
      <4>2. q \in Results(V)
        BY <4>1 DEF Codec
      <4>3. q.value \in V
        BY <3>2, <4>2, ResultParts
      <4>4. pget[b] = Got(<<r.value, q.value>>, q.rest)
        BY <3>2 DEF PairGet
      <4>5. pget[b].ok /\ pget[b].value = <<r.value, q.value>> /\ pget[b].rest = q.rest
        BY <4>4 DEF Got
      <4>6. from[<<r.value, q.value>>] = Append(r.value, q.value)
        BY <4>1, <4>3
      <4> QED
        BY <3>2, <4>5, <4>6 DEF AddElement
    <3>3. CASE ~(r.ok /\ q.ok)
      <4>1. pget[b] = Refused
        BY <3>3 DEF PairGet
      <4>2. ~pget[b].ok
        BY <4>1 DEF Refused
      <4> QED
        BY <3>3, <4>2 DEF AddElement
    <3> QED
      BY <3>2, <3>3
  <2> QED
    BY <2>1 DEF RenamedGet
<1>6. write = RenamedPut(pput, to, X)
  <2>1. ASSUME NEW s \in X PROVE Written(put, s) = pput[to[s]]
    <3> DEFINE f == SubSeq(s, 1, n)
               v == s[n + 1]
    <3>1. f \in L /\ v \in V /\ s = Append(f, v)
      BY <1>2
    <3>2. to[s] = <<f, v>>
      OBVIOUS
    <3> HIDE DEF f, v, to
    <3>3. pput[<<f, v>>] = ListPut(put, V, n)[f] \o put[v]
      BY <3>1 DEF PairPut
    <3>4. put \in [V -> Bytes] /\ f \in Seq(V)
      BY <3>1 DEF Codec, Lists
    <3>5. Written(put, Append(f, v)) = Written(put, f) \o put[v]
      BY <3>1, <3>4, WrittenLast
    <3>6. ListPut(put, V, n)[f] = Written(put, f)
      BY <3>1 DEF ListPut
    <3> QED
      BY <3>1, <3>2, <3>3, <3>5, <3>6
  <2> QED
    BY <2>1 DEF ListPut, RenamedPut
<1> HIDE DEF L, X, pget, pput, to, from, write, more
<1>7. Codec(more, write, X)
  BY <1>1, <1>4, <1>5, <1>6, RenamedCodec
<1> QED
  BY <1>7 DEF more, write, X

\* Reading element after element, from nothing on.
ReadsOn(get, n, f) ==
  /\ DOMAIN f = 0..n
  /\ f[0] = [b \in Bytes |-> Got(<<>>, b)]
  /\ \A i \in 1..n : f[i] = [b \in Bytes |-> AddElement(get, f[i - 1][b])]

\* What reads element after element exists.
LEMMA ReadsOnExists ==
  ASSUME NEW V, NEW get, NEW put, Codec(get, put, V), NEW n \in Nat
  PROVE \E f : ReadsOn(get, n, f)
<1> DEFINE D == [Bytes -> Results(Seq(V))]
           base == [b \in Bytes |-> Got(<<>>, b)]
           step == [i \in 1..n |-> [all \in D |-> [b \in Bytes |-> AddElement(get, all[b])]]]
<1>1. base \in D
  <2>1. <<>> \in Seq(V)
    BY EmptySeq
  <2>2. \A b \in Bytes : Got(<<>>, b) \in Results(Seq(V))
    BY <2>1, GotParts
  <2> QED
    BY <2>2
<1>2. ASSUME NEW all \in D PROVE [b \in Bytes |-> AddElement(get, all[b])] \in D
  <2>1. ASSUME NEW b \in Bytes PROVE AddElement(get, all[b]) \in Results(Seq(V))
    <3> DEFINE r == all[b]
               q == get[r.rest]
    <3>1. r \in Results(Seq(V))
      OBVIOUS
    <3> HIDE DEF r
    <3>2. CASE r.ok /\ q.ok
      <4>1. r.value \in Seq(V) /\ r.rest \in Bytes
        BY <3>1, <3>2, ResultParts
      <4>2. q \in Results(V)
        BY <4>1 DEF Codec
      <4>3. q.value \in V /\ q.rest \in Bytes
        BY <3>2, <4>2, ResultParts
      <4>4. Append(r.value, q.value) \in Seq(V)
        BY <4>1, <4>3, AppendProperties
      <4>5. AddElement(get, r) = Got(Append(r.value, q.value), q.rest)
        BY <3>2 DEF AddElement
      <4>6. AddElement(get, r) \in Results(Seq(V))
        BY <4>3, <4>4, <4>5, GotParts
      <4> QED
        BY <4>6 DEF r
    <3>3. CASE ~(r.ok /\ q.ok)
      <4>1. AddElement(get, r) = Refused
        BY <3>3 DEF AddElement
      <4> QED
        BY <4>1 DEF r, Results
    <3> QED
      BY <3>2, <3>3
  <2> QED
    BY <2>1
<1>3. StaysIn(D, step, n)
  BY <1>2 DEF StaysIn
<1>4. \A i \in 1..n : \A all \in D : step[i][all] = [b \in Bytes |-> AddElement(get, all[b])]
  OBVIOUS
<1> HIDE DEF D, base, step
<1>5. PICK f \in [0..n -> D] : GoesOn(f, base, step, n)
  BY <1>1, <1>3, Recursion
<1>6. \A i \in 1..n : i - 1 \in 0..n /\ f[i - 1] \in D
  OBVIOUS
<1>7. \A i \in 1..n : f[i] = [b \in Bytes |-> AddElement(get, f[i - 1][b])]
  BY <1>4, <1>5, <1>6 DEF GoesOn
<1>8. f[0] = [b \in Bytes |-> Got(<<>>, b)]
  BY <1>5 DEF GoesOn, base
<1> QED
  BY <1>7, <1>8 DEF ReadsOn

\* Lists of each length are read as they were written.
LEMMA ReadsOnCodec ==
  ASSUME NEW V, NEW get, NEW put, Codec(get, put, V),
         NEW n \in Nat, NEW f, ReadsOn(get, n, f)
  PROVE Codec(f[n], ListPut(put, V, n), Lists(V, n))
<1> DEFINE S == {m \in Nat : m <= n => Codec(f[m], ListPut(put, V, m), Lists(V, m))}
<1>1. 0 \in S
  <2>1. put \in [V -> Bytes]
    BY DEF Codec
  <2>2. Lists(V, 0) = {<<>>}
    BY EmptySeq DEF Lists
  <2>3. Written(put, <<>>) = <<>>
    BY <2>1, EmptySeq, WrittenLast
  <2>4. ListPut(put, V, 0) = EmptyPut
    BY <2>2, <2>3 DEF ListPut, EmptyPut
  <2>5. f[0] = EmptyGet
    BY DEF ReadsOn, EmptyGet
  <2> QED
    BY <2>2, <2>4, <2>5, EmptyCodec
<1>2. ASSUME NEW m \in S PROVE m + 1 \in S
  <2>1. SUFFICES ASSUME m + 1 <= n
                 PROVE Codec(f[m + 1], ListPut(put, V, m + 1), Lists(V, m + 1))
    OBVIOUS
  <2>2. m + 1 \in 1..n /\ (m + 1) - 1 = m
    BY <2>1
  <2>3. Codec(f[m], ListPut(put, V, m), Lists(V, m)) /\ m \in Nat
    BY <2>1
  <2>4. f[m + 1] = [b \in Bytes |-> AddElement(get, f[m][b])]
    BY <2>2 DEF ReadsOn
  <2> HIDE DEF S
  <2> QED
    BY <2>3, <2>4, ListStep
<1>3. S = Nat
  <2> HIDE DEF S
  <2>1. S \in SUBSET Nat
    BY DEF S
  <2> QED
    BY <1>1, <1>2, <2>1, AllNumbers, Zenon
<1> QED
  BY <1>3

\* The loop of GetAll reads on.
LEMMA LoopReadsOn ==
  ASSUME NEW get, NEW n \in Nat, NEW f, ReadsOn(get, n, f), NEW b \in Bytes
  PROVE GetAll(get, n, b) = IF n > Len(b) THEN Refused ELSE f[n][b]
<1> DEFINE upTo[i \in 0..n] ==
             IF i = 0 THEN Got(<<>>, b)
             ELSE LET next == get[upTo[i - 1].rest]
                  IN IF upTo[i - 1].ok /\ next.ok
                     THEN Got(Append(upTo[i - 1].value, next.value), next.rest) ELSE Refused
           part(g, i) == IF i = 0 THEN Got(<<>>, b) ELSE AddElement(get, g[i - 1])
<1>1. GetAll(get, n, b) = IF n > Len(b) THEN Refused ELSE upTo[n]
  BY Zenon DEF GetAll
<1> DEFINE known == [i \in 0..n |-> f[i][b]]
<1>2. ASSUME NEW i \in 0..n PROVE known[i] = part(known, i)
  <2>1. CASE i = 0
    BY <2>1 DEF ReadsOn
  <2>2. CASE i # 0
    <3>1. i \in 1..n /\ i - 1 \in 0..n
      BY <2>2
    <3>2. f[i][b] = AddElement(get, f[i - 1][b])
      BY <3>1 DEF ReadsOn
    <3> QED
      BY <2>2, <3>1, <3>2
  <2> QED
    BY <2>1, <2>2
<1>3. known = [i \in 0..n |-> part(known, i)]
  BY <1>2
<1> HIDE DEF known
<1>4. \E g : g = [i \in 0..n |-> part(g, i)]
  BY <1>3
<1>5. upTo = [i \in 0..n |-> part(upTo, i)]
  BY <1>4, Zenon DEF AddElement
<1> HIDE DEF upTo
<1> DEFINE S == {m \in Nat : m <= n => upTo[m] = f[m][b]}
<1>6. 0 \in S
  <2>1. upTo[0] = Got(<<>>, b)
    BY <1>5
  <2> QED
    BY <2>1 DEF ReadsOn
<1>7. ASSUME NEW m \in S PROVE m + 1 \in S
  <2>1. SUFFICES ASSUME m + 1 <= n PROVE upTo[m + 1] = f[m + 1][b]
    OBVIOUS
  <2>2. m + 1 \in 1..n /\ m + 1 \in 0..n /\ (m + 1) - 1 = m /\ m + 1 # 0
    BY <2>1
  <2>3. upTo[m] = f[m][b]
    BY <2>1
  <2>4. upTo[m + 1] = AddElement(get, upTo[m])
    BY <1>5, <2>2
  <2>5. f[m + 1] = [c \in Bytes |-> AddElement(get, f[m][c])]
    BY <2>2 DEF ReadsOn
  <2>6. f[m + 1][b] = AddElement(get, f[m][b])
    BY <2>5
  <2> QED
    BY <2>3, <2>4, <2>6
<1>8. S = Nat
  <2> HIDE DEF S
  <2>1. S \in SUBSET Nat
    BY DEF S
  <2> QED
    BY <1>6, <1>7, <2>1, AllNumbers, Zenon
<1>9. upTo[n] = f[n][b]
  BY <1>8
<1> QED
  BY <1>1, <1>9

AllGet(get, n) == [b \in Bytes |-> GetAll(get, n, b)]

\* GetAll, with its early refusal, reads lists as they were written.
LEMMA AllCodec ==
  ASSUME NEW V, NEW get, NEW put, Codec(get, put, V), TakesBytes(put, V), NEW n \in Nat
  PROVE Codec(AllGet(get, n), ListPut(put, V, n), Lists(V, n))
<1>1. PICK f : ReadsOn(get, n, f)
  BY ReadsOnExists
<1>2. Codec(f[n], ListPut(put, V, n), Lists(V, n))
  BY <1>1, ReadsOnCodec
<1>3. ASSUME NEW b \in Bytes PROVE GetAll(get, n, b) = f[n][b]
  <2>1. GetAll(get, n, b) = IF n > Len(b) THEN Refused ELSE f[n][b]
    BY <1>1, LoopReadsOn
  <2>2. f[n][b] \in Results(Lists(V, n))
    BY <1>2 DEF Codec
  <2>3. CASE f[n][b].ok
    <3> DEFINE s == f[n][b].value
               rest == f[n][b].rest
    <3>1. s \in Lists(V, n) /\ rest \in Bytes
      BY <2>2, <2>3, ResultParts
    <3>2. ListPut(put, V, n)[s] = Written(put, s)
      BY <3>1 DEF ListPut
    <3>3. Like(ListPut(put, V, n)[s] \o rest, b)
      BY <1>2, <2>3 DEF Codec
    <3> HIDE DEF s, rest
    <3>4. put \in [V -> Bytes]
      BY DEF Codec
    <3>5. Written(put, s) \in Bytes /\ Len(Written(put, s)) >= n
      BY <3>1, <3>4, WrittenLong
    <3>6. /\ Len(Written(put, s) \o rest) = Len(Written(put, s)) + Len(rest)
          /\ Len(Written(put, s)) \in Nat /\ Len(rest) \in Nat
      BY <3>1, <3>5, Joined
    <3>7. Len(b) = Len(Written(put, s) \o rest)
      BY <3>2, <3>3 DEF Like
    <3>8. ~(n > Len(b))
      BY <3>5, <3>6, <3>7
    <3> QED
      BY <2>1, <3>8
  <2>4. CASE ~f[n][b].ok
    <3>1. f[n][b] = Refused
      BY <2>2, <2>4, ResultParts
    <3> QED
      BY <2>1, <3>1
  <2> QED
    BY <2>3, <2>4
<1>4. f[n] \in [Bytes -> Results(Lists(V, n))]
  BY <1>2 DEF Codec
<1>5. AllGet(get, n) = f[n]
  BY <1>3, <1>4 DEF AllGet
<1> QED
  BY <1>2, <1>5

\* A number, and as many of something.
SizesRead(nexts, thens, V) == \A n \in U32 : Codec(nexts[n], thens[n], Lists(V, n))

SizedGet(nexts) ==
  [b \in Bytes |-> LET n == GetU32(b) IN IF n.ok THEN nexts[n.value][n.rest] ELSE Refused]
SizedPut(thens, V) == [s \in ListOf(V) |-> PutU32(Len(s)) \o thens[Len(s)][s]]

\* A number and that many of something are read as they were written.
LEMMA SizedCodec ==
  ASSUME NEW V, NEW nexts, NEW thens, SizesRead(nexts, thens, V)
  PROVE Codec(SizedGet(nexts), SizedPut(thens, V), ListOf(V))
<1> DEFINE W == [n \in U32 |-> Lists(V, n)]
           two == TwoGet(U32Get, nexts)
           tput == TwoPut(U32Put, thens, U32, W)
           Z == Twos(U32, W)
           X == ListOf(V)
           to == [s \in X |-> <<Len(s), s>>]
           from == [p \in Z |-> p[2]]
           all == SizedGet(nexts)
           write == SizedPut(thens, V)
<1>1. \A n \in U32 : Codec(nexts[n], thens[n], W[n])
  BY DEF SizesRead
<1>2. Codec(two, tput, Z)
  <2> HIDE DEF W
  <2> QED
    BY <1>1, U32Codec, TwoCodec
<1>3. \A s \in X : s \in Seq(V) /\ Len(s) \in U32 /\ <<Len(s), s>> \in Z
  BY DEF Twos, ListOf, Lists
<1>4. ASSUME NEW p \in Z PROVE p[2] \in X /\ p = <<Len(p[2]), p[2]>>
  <2>1. PICK n \in U32 : \E s \in Lists(V, n) : p = <<n, s>>
    BY DEF Twos
  <2>2. PICK s \in Lists(V, n) : p = <<n, s>>
    BY <2>1
  <2> QED
    BY <2>2 DEF Lists, ListOf
<1>5. Renaming(to, from, X, Z)
  <2> HIDE DEF X, Z
  <2> QED
    BY <1>3, <1>4 DEF Renaming
<1>6. ASSUME NEW b \in Bytes
      PROVE all[b] = IF two[b].ok THEN Got(from[two[b].value], two[b].rest) ELSE Refused
  <2> DEFINE r == GetU32(b)
             q == nexts[r.value][r.rest]
  <2>1. r \in Results(U32) /\ U32Get[b] = r
    BY U32Result DEF U32Get
  <2>2. CASE r.ok
    <3>1. r.value \in U32 /\ r.rest \in Bytes
      BY <2>1, <2>2, ResultParts
    <3>2. all[b] = q
      BY <2>2 DEF SizedGet
    <3>3. q \in Results(Lists(V, r.value))
      BY <1>1, <3>1 DEF Codec
    <3>4. CASE q.ok
      <4>1. q.value \in Lists(V, r.value) /\ q = Got(q.value, q.rest)
        BY <3>3, <3>4, ResultParts
      <4>2. two[b] = Got(<<r.value, q.value>>, q.rest)
        BY <2>1, <2>2, <3>4 DEF TwoGet
      <4>3. <<r.value, q.value>> \in Z
        BY <3>1, <4>1 DEF Twos
      <4>4. two[b].ok /\ two[b].value = <<r.value, q.value>> /\ two[b].rest = q.rest
        BY <4>2 DEF Got
      <4>5. from[<<r.value, q.value>>] = q.value
        BY <4>3
      <4> QED
        BY <3>2, <4>1, <4>4, <4>5
    <3>5. CASE ~q.ok
      <4>1. two[b] = Refused
        BY <2>1, <3>5 DEF TwoGet
      <4>2. q = Refused
        BY <3>3, <3>5, ResultParts
      <4> QED
        BY <3>2, <4>1, <4>2 DEF Refused
    <3> QED
      BY <3>4, <3>5
  <2>3. CASE ~r.ok
    <3>1. two[b] = Refused /\ all[b] = Refused
      BY <2>1, <2>3 DEF TwoGet, SizedGet
    <3> QED
      BY <3>1 DEF Refused
  <2> QED
    BY <2>2, <2>3
<1>7. all = RenamedGet(two, from)
  BY <1>6 DEF SizedGet, RenamedGet
<1>8. write = RenamedPut(tput, to, X)
  <2>1. ASSUME NEW s \in X PROVE PutU32(Len(s)) \o thens[Len(s)][s] = tput[to[s]]
    <3>1. s \in Seq(V) /\ Len(s) \in U32 /\ <<Len(s), s>> \in Z
      BY <1>3
    <3>2. tput[<<Len(s), s>>] = U32Put[Len(s)] \o thens[Len(s)][s]
      BY <3>1 DEF TwoPut
    <3>3. U32Put[Len(s)] = PutU32(Len(s))
      BY <3>1 DEF U32Put
    <3> QED
      BY <3>2, <3>3
  <2> QED
    BY <2>1 DEF SizedPut, RenamedPut
<1> HIDE DEF X, Z, to, from, two, tput, all, write
<1>9. Codec(all, write, X)
  BY <1>2, <1>5, <1>7, <1>8, RenamedCodec
<1> QED
  BY <1>9 DEF X, all, write

\* What 32 bits hold is a number.
LEMMA SizesAreNumbers == \A n \in U32 : n \in Nat
  BY SMT DEF U32

CountedGet(get) == [b \in Bytes |-> GetCounted(get, b)]
CountedPut(put, V) == [s \in ListOf(V) |-> PutU32(Len(s)) \o Written(put, s)]

\* A number of elements, and the elements.
LEMMA CountedCodec ==
  ASSUME NEW V, NEW get, NEW put, Codec(get, put, V), TakesBytes(put, V)
  PROVE Codec(CountedGet(get), CountedPut(put, V), ListOf(V))
<1> DEFINE nexts == [n \in U32 |-> AllGet(get, n)]
           thens == [n \in U32 |-> ListPut(put, V, n)]
<1>1. SizesRead(nexts, thens, V)
  BY SizesAreNumbers, AllCodec DEF SizesRead
<1>2. ASSUME NEW b \in Bytes
      PROVE GetCounted(get, b) = IF GetU32(b).ok THEN nexts[GetU32(b).value][GetU32(b).rest] ELSE Refused
  <2>1. CASE GetU32(b).ok
    <3>1. GetU32(b).value \in U32 /\ GetU32(b).rest \in Bytes
      BY <2>1, U32Result, ResultParts
    <3> QED
      BY <2>1, <3>1 DEF GetCounted, AllGet
  <2>2. CASE ~GetU32(b).ok
    BY <2>2 DEF GetCounted
  <2> QED
    BY <2>1, <2>2
<1>3. ASSUME NEW s \in ListOf(V) PROVE Written(put, s) = thens[Len(s)][s]
  BY DEF ListPut, Lists, ListOf
<1> HIDE DEF nexts, thens
<1>4. CountedGet(get) = SizedGet(nexts)
  BY <1>2 DEF CountedGet, SizedGet
<1>5. CountedPut(put, V) = SizedPut(thens, V)
  BY <1>3 DEF CountedPut, SizedPut
<1> QED
  BY <1>1, <1>4, <1>5, SizedCodec

StrPut == [s \in Str |-> PutStr(s)]

\* A string is its size and its bytes.
LEMMA StrCodec == Codec(ReadStr, StrPut, Str)
<1> DEFINE nexts == [n \in U32 |-> TakeGet(n)]
           thens == [n \in U32 |-> TakePut(n)]
<1>1. SizesRead(nexts, thens, Byte)
  <2>1. \A n : Block(n) = Lists(Byte, n)
    BY DEF Block, Lists, Bytes
  <2>2. \A n \in U32 : Codec(nexts[n], thens[n], Block(n))
    BY SizesAreNumbers, TakeCodec
  <2> QED
    BY <2>1, <2>2 DEF SizesRead
<1>2. ASSUME NEW b \in Bytes
      PROVE GetStr(b) = IF GetU32(b).ok THEN nexts[GetU32(b).value][GetU32(b).rest] ELSE Refused
  <2>1. CASE GetU32(b).ok
    <3>1. GetU32(b).value \in U32 /\ GetU32(b).rest \in Bytes
      BY <2>1, U32Result, ResultParts
    <3> QED
      BY <2>1, <3>1 DEF GetStr, TakeGet
  <2>2. CASE ~GetU32(b).ok
    BY <2>2 DEF GetStr
  <2> QED
    BY <2>1, <2>2
<1>3. ASSUME NEW s \in ListOf(Byte) PROVE s = thens[Len(s)][s]
  BY DEF TakePut, Block, ListOf, Bytes
<1> HIDE DEF nexts, thens
<1>4. ReadStr = SizedGet(nexts)
  BY <1>2 DEF ReadStr, SizedGet
<1>5. StrPut = SizedPut(thens, Byte)
  BY <1>3 DEF StrPut, Str, PutStr, SizedPut
<1>6. Codec(ReadStr, StrPut, ListOf(Byte))
  BY <1>1, <1>4, <1>5, SizedCodec
<1> QED
  BY <1>6 DEF Str

-----------------------------------------------------------------------------
(* Fields of a record *)

Kinds == Delete..KeywordObj

\* What the fields of each kind hold, and how it is read and written.
ValueOf ==
  [k \in Kinds |->
     CASE k = Number -> [1..8 -> Byte]
       [] k = Bool -> BOOLEAN
       [] k = String -> Str
       [] k = KeywordObj -> ListOf(Str)
       [] OTHER -> {<<>>}]
ValueGets == [k \in Kinds |-> [b \in Bytes |-> GetValue(k, b)]]
ValuePuts == [k \in Kinds |-> [v \in ValueOf[k] |-> PutValue([kind |-> k, value |-> v])]]

\* A double is a block of eight bytes.
LEMMA EightBytes == [1..8 -> Byte] = Block(8)
<1>1. ASSUME NEW s \in [1..8 -> Byte] PROVE s \in Block(8)
  <2>1. s \in Seq(Byte)
    <3>1. s \in UNION {[1..n -> Byte] : n \in Nat}
      OBVIOUS
    <3> QED
      BY <3>1, SeqDef
  <2>2. DOMAIN s = 1..8 /\ DOMAIN s = 1..Len(s) /\ Len(s) \in Nat
    BY <2>1, LenProperties
  <2>3. Len(s) = 8
    BY <2>2
  <2> QED
    BY <2>1, <2>3 DEF Block, Bytes
<1>2. ASSUME NEW s \in Block(8) PROVE s \in [1..8 -> Byte]
  BY LenProperties DEF Block, Bytes
<1> QED
  BY <1>1, <1>2

\* The kinds of fields are six different bytes.
LEMMA KindNumbers ==
  /\ Kinds = {Delete, Number, String, Bool, Null, KeywordObj}
  /\ Kinds \in SUBSET Byte
  /\ Delete # Number /\ Delete # String /\ Delete # Bool /\ Delete # KeywordObj
  /\ Null # Number /\ Null # String /\ Null # Bool /\ Null # KeywordObj
  /\ Number # String /\ Number # Bool /\ Number # KeywordObj
  /\ String # Bool /\ String # KeywordObj /\ Bool # KeywordObj
<1>1. Kinds = {Delete, Number, String, Bool, Null, KeywordObj}
  BY DEF Kinds, Delete, Number, String, Bool, Null, KeywordObj
<1> QED
  BY <1>1 DEF Kinds, Delete, Number, String, Bool, Null, KeywordObj, Byte

\* A string takes its size at least.
LEMMA StrTakesBytes == TakesBytes(StrPut, Str)
<1>1. ASSUME NEW s \in Str PROVE StrPut[s] # <<>>
  <2>1. s \in Bytes /\ Len(s) \in U32
    BY DEF Str, ListOf, Bytes
  <2>2. PutU32(Len(s)) \in Bytes /\ Len(PutU32(Len(s))) = 4
    BY <2>1, Four
  <2>3. Len(PutU32(Len(s)) \o s) = 4 + Len(s) /\ Len(s) \in Nat
    <3> DEFINE p == PutU32(Len(s))
    <3>1. p \in Bytes /\ Len(p) = 4
      BY <2>2
    <3> HIDE DEF p
    <3>2. Len(p \o s) = Len(p) + Len(s) /\ Len(s) \in Nat
      BY <2>1, <3>1, Joined
    <3> QED
      BY <3>1, <3>2 DEF p
  <2>4. PutU32(Len(s)) \o s # <<>>
    BY <2>3
  <2> QED
    BY <2>4 DEF StrPut, PutStr
<1> QED
  BY <1>1 DEF TakesBytes

StrsGet == CountedGet(ReadStr)
StrsPut == CountedPut(StrPut, Str)

\* Lists of strings are read as they were written.
LEMMA StrsCodec == Codec(StrsGet, StrsPut, ListOf(Str))
  BY StrCodec, StrTakesBytes, CountedCodec DEF StrsGet, StrsPut

\* PutAll writes the elements.
LEMMA StrsPutAll == ASSUME NEW s \in ListOf(Str) PROVE Counted(PutStr, s) = StrsPut[s]
<1>1. s \in Seq(Str)
  BY DEF ListOf
<1>2. [i \in DOMAIN s |-> PutStr(s[i])] = [i \in DOMAIN s |-> StrPut[s[i]]]
  <2>1. \A i \in DOMAIN s : s[i] \in Str
    BY <1>1, LenProperties, ElementOfSeq
  <2> QED
    BY <2>1 DEF StrPut
<1> QED
  BY <1>2 DEF Counted, PutAll, StrsPut, CountedPut, Written

\* What a field of each kind holds is read as it was written.
LEMMA ValueCodec == ASSUME NEW k \in Kinds PROVE Codec(ValueGets[k], ValuePuts[k], ValueOf[k])
<1>1. CASE k = Number
  <2>1. ValueOf[k] = Block(8)
    <3>1. ValueOf[k] = [1..8 -> Byte]
      BY <1>1, KindNumbers DEF ValueOf
    <3> QED
      BY <3>1, EightBytes
  <2>2. ValueGets[k] = TakeGet(8)
    <3>1. \A b : GetValue(k, b) = Take(8, b)
      BY <1>1, KindNumbers DEF GetValue
    <3> QED
      BY <3>1 DEF ValueGets, TakeGet
  <2>3. ValuePuts[k] = TakePut(8)
    <3>1. \A v : PutValue([kind |-> k, value |-> v]) = v
      BY <1>1, KindNumbers DEF PutValue
    <3> QED
      BY <2>1, <3>1 DEF ValuePuts, TakePut
  <2> QED
    BY <2>1, <2>2, <2>3, TakeCodec
<1>2. CASE k = Bool
  <2>1. ValueOf[k] = BOOLEAN
    BY <1>2, KindNumbers DEF ValueOf
  <2>2. ValueGets[k] = BoolGet
    <3>1. \A b : GetValue(k, b) = GetBool(b)
      BY <1>2, KindNumbers DEF GetValue
    <3> QED
      BY <3>1 DEF ValueGets, BoolGet
  <2>3. ValuePuts[k] = BoolPut
    <3>1. \A v \in BOOLEAN : PutValue([kind |-> k, value |-> v]) = PutBool(v)
      BY <1>2, KindNumbers DEF PutValue
    <3> QED
      BY <2>1, <3>1 DEF ValuePuts, BoolPut
  <2> QED
    BY <2>1, <2>2, <2>3, BoolCodec
<1>3. CASE k = String
  <2>1. ValueOf[k] = Str
    BY <1>3, KindNumbers DEF ValueOf
  <2>2. ValueGets[k] = ReadStr
    <3>1. \A b : GetValue(k, b) = GetStr(b)
      BY <1>3, KindNumbers DEF GetValue
    <3> QED
      BY <3>1 DEF ValueGets, ReadStr
  <2>3. ValuePuts[k] = StrPut
    <3>1. \A v : PutValue([kind |-> k, value |-> v]) = PutStr(v)
      BY <1>3, KindNumbers DEF PutValue
    <3> QED
      BY <2>1, <3>1 DEF ValuePuts, StrPut
  <2> QED
    BY <2>1, <2>2, <2>3, StrCodec
<1>4. CASE k = KeywordObj
  <2>1. ValueOf[k] = ListOf(Str)
    BY <1>4, KindNumbers DEF ValueOf
  <2>2. ValueGets[k] = StrsGet
    <3>1. \A b : GetValue(k, b) = GetCounted(ReadStr, b)
      BY <1>4, KindNumbers DEF GetValue
    <3> QED
      BY <3>1 DEF ValueGets, StrsGet, CountedGet
  <2>3. ValuePuts[k] = StrsPut
    <3>1. \A v : PutValue([kind |-> k, value |-> v]) = Counted(PutStr, v)
      BY <1>4, KindNumbers DEF PutValue
    <3>2. \A v \in ListOf(Str) : PutValue([kind |-> k, value |-> v]) = StrsPut[v]
      BY <3>1, StrsPutAll
    <3>3. DOMAIN StrsPut = ListOf(Str) /\ StrsPut = [v \in ListOf(Str) |-> StrsPut[v]]
      BY DEF StrsPut, CountedPut
    <3> QED
      BY <2>1, <3>2, <3>3 DEF ValuePuts
  <2> QED
    BY <2>1, <2>2, <2>3, StrsCodec
<1>5. CASE k \in {Delete, Null}
  <2>1. ValueOf[k] = {<<>>}
    BY <1>5, KindNumbers DEF ValueOf
  <2>2. ValueGets[k] = EmptyGet
    <3>1. \A b : GetValue(k, b) = Got(<<>>, b)
      BY <1>5, KindNumbers DEF GetValue
    <3> QED
      BY <3>1 DEF ValueGets, EmptyGet
  <2>3. ValuePuts[k] = EmptyPut
    <3>1. \A v : PutValue([kind |-> k, value |-> v]) = <<>>
      BY <1>5, KindNumbers DEF PutValue
    <3> QED
      BY <2>1, <3>1 DEF ValuePuts, EmptyPut
  <2> QED
    BY <2>1, <2>2, <2>3, EmptyCodec
<1> QED
  BY <1>1, <1>2, <1>3, <1>4, <1>5, KindNumbers

\* A cached field is its kind, a name, and a value of that kind.
LEMMA FieldParts ==
  /\ \A f \in CachedField :
       /\ f.kind \in Kinds /\ f.name \in Str /\ f.value \in ValueOf[f.kind]
       /\ f = [name |-> f.name, kind |-> f.kind, value |-> f.value]
  /\ \A k \in Kinds : \A n \in Str : \A v \in ValueOf[k] :
       [name |-> n, kind |-> k, value |-> v] \in CachedField
<1>1. ASSUME NEW f \in CachedField
      PROVE /\ f.kind \in Kinds /\ f.name \in Str /\ f.value \in ValueOf[f.kind]
            /\ f = [name |-> f.name, kind |-> f.kind, value |-> f.value]
  BY KindNumbers DEF CachedField, ValueOf
<1>2. ASSUME NEW k \in Kinds, NEW n \in Str, NEW v \in ValueOf[k]
      PROVE [name |-> n, kind |-> k, value |-> v] \in CachedField
  BY KindNumbers DEF CachedField, ValueOf
<1> QED
  BY <1>1, <1>2

FieldPut == [f \in CachedField |-> PutField(f)]

\* A field is its kind, its name, and what its kind has.
LEMMA FieldCodec == Codec(ReadField, FieldPut, CachedField)
<1> DEFINE P == Kinds \X Str
           head == PairGet(ByteGet(Kinds), ReadStr)
           hput == PairPut(BytePut(Kinds), StrPut, Kinds, Str)
           W == [p \in P |-> ValueOf[p[1]]]
           nexts == [p \in P |-> ValueGets[p[1]]]
           thens == [p \in P |-> ValuePuts[p[1]]]
           two == TwoGet(head, nexts)
           tput == TwoPut(hput, thens, P, W)
           Z == Twos(P, W)
           to == [f \in CachedField |-> <<<<f.kind, f.name>>, f.value>>]
           from == [z \in Z |-> [name |-> z[1][2], kind |-> z[1][1], value |-> z[2]]]
<1>1. Codec(head, hput, P)
  BY KindNumbers, ByteCodec, StrCodec, PairCodec
<1>2. ASSUME NEW p \in P PROVE Codec(nexts[p], thens[p], W[p])
  BY ValueCodec
<1>3. Codec(two, tput, Z)
  <2> HIDE DEF P, W, nexts, thens, head, hput
  <2> QED
    BY <1>1, <1>2, TwoCodec
<1>4. ASSUME NEW k \in Kinds, NEW n \in Str, NEW v \in ValueOf[k]
      PROVE /\ <<<<k, n>>, v>> \in Z
            /\ from[<<<<k, n>>, v>>] = [name |-> n, kind |-> k, value |-> v]
            /\ [name |-> n, kind |-> k, value |-> v] \in CachedField
  <2>1. <<k, n>> \in P /\ W[<<k, n>>] = ValueOf[k]
    OBVIOUS
  <2>2. <<<<k, n>>, v>> \in Z
    BY <2>1 DEF Twos
  <2> QED
    BY <2>2, FieldParts
<1>5. \A z \in Z : \E k \in Kinds, n \in Str : \E v \in ValueOf[k] : z = <<<<k, n>>, v>>
  BY DEF Twos
<1>6. Renaming(to, from, CachedField, Z)
  <2>1. ASSUME NEW f \in CachedField PROVE to[f] \in Z /\ from[to[f]] = f
    <3>1. /\ f.kind \in Kinds /\ f.name \in Str /\ f.value \in ValueOf[f.kind]
          /\ f = [name |-> f.name, kind |-> f.kind, value |-> f.value]
      BY FieldParts
    <3>2. to[f] = <<<<f.kind, f.name>>, f.value>>
      OBVIOUS
    <3> HIDE DEF to, from, Z
    <3> QED
      BY <1>4, <3>1, <3>2
  <2>2. ASSUME NEW z \in Z PROVE from[z] \in CachedField /\ to[from[z]] = z
    <3>1. PICK k \in Kinds, n \in Str : \E v \in ValueOf[k] : z = <<<<k, n>>, v>>
      BY <1>5
    <3>2. PICK v \in ValueOf[k] : z = <<<<k, n>>, v>>
      BY <3>1
    <3>3. from[z] = [name |-> n, kind |-> k, value |-> v] /\ from[z] \in CachedField
      BY <1>4, <3>2
    <3> HIDE DEF from, Z
    <3> QED
      BY <3>2, <3>3
  <2> HIDE DEF Z
  <2>3. to \in [CachedField -> Z] /\ from \in [Z -> CachedField]
    BY <2>1, <2>2
  <2> HIDE DEF to, from
  <2> QED
    BY <2>1, <2>2, <2>3 DEF Renaming
<1>7. ReadField = RenamedGet(two, from)
  <2>1. ASSUME NEW b \in Bytes
        PROVE GetField(b) = IF two[b].ok THEN Got(from[two[b].value], two[b].rest) ELSE Refused
    <3> DEFINE kind == GetU8(b)
               name == GetStr(kind.rest)
               value == GetValue(kind.value, name.rest)
    <3>1. kind \in Results(Byte)
      BY FirstByte
    <3>2. CASE kind.ok /\ kind.value \in Kinds /\ name.ok
      <4>1. kind.rest \in Bytes
        BY <3>1, <3>2, ResultParts
      <4>2. name \in Results(Str) /\ ReadStr[kind.rest] = name
        BY <4>1, StrCodec DEF Codec, ReadStr
      <4>3. name.value \in Str /\ name.rest \in Bytes
        BY <3>2, <4>2, ResultParts
      <4>4. ByteGet(Kinds)[b] = kind
        BY <3>2 DEF ByteGet
      <4>5. head[b] = Got(<<kind.value, name.value>>, name.rest)
        BY <3>2, <4>2, <4>4 DEF PairGet
      <4>6. head[b].ok /\ head[b].value = <<kind.value, name.value>> /\ head[b].rest = name.rest
        BY <4>5 DEF Got
      <4>7. nexts[<<kind.value, name.value>>][name.rest] = value
        BY <3>2, <4>3 DEF ValueGets
      <4>8. value \in Results(ValueOf[kind.value])
        <5>1. Codec(ValueGets[kind.value], ValuePuts[kind.value], ValueOf[kind.value])
          BY <3>2, ValueCodec
        <5>2. ValueGets[kind.value][name.rest] = value
          BY <3>2, <4>3 DEF ValueGets
        <5> QED
          BY <4>3, <5>1, <5>2 DEF Codec
      <4> HIDE DEF head, nexts
      <4>9. two[b] = IF value.ok THEN Got(<<<<kind.value, name.value>>, value.value>>, value.rest) ELSE Refused
        BY <4>6, <4>7 DEF TwoGet
      <4>10. GetField(b) = IF value.ok
                           THEN Got([name |-> name.value, kind |-> kind.value, value |-> value.value], value.rest)
                           ELSE Refused
        BY <3>2 DEF GetField, Kinds
      <4> HIDE DEF kind, name, value, two
      <4>11. CASE value.ok
        <5>1. value.value \in ValueOf[kind.value]
          BY <4>8, <4>11, ResultParts
        <5>2. from[<<<<kind.value, name.value>>, value.value>>]
                = [name |-> name.value, kind |-> kind.value, value |-> value.value]
          BY <1>4, <3>2, <4>3, <5>1
        <5> HIDE DEF from
        <5>3. two[b].ok /\ two[b].value = <<<<kind.value, name.value>>, value.value>> /\ two[b].rest = value.rest
          BY <4>9, <4>11 DEF Got
        <5> QED
          BY <4>10, <4>11, <5>2, <5>3
      <4>12. CASE ~value.ok
        BY <4>9, <4>10, <4>12 DEF Refused
      <4> QED
        BY <4>11, <4>12
    <3>3. CASE ~(kind.ok /\ kind.value \in Kinds /\ name.ok)
      <4>1. GetField(b) = Refused
        BY <3>3 DEF GetField, Kinds
      <4>2. ~head[b].ok
        <5>1. CASE kind.ok /\ kind.value \in Kinds
          <6>1. ByteGet(Kinds)[b] = kind
            BY <5>1 DEF ByteGet
          <6>2. kind.rest \in Bytes
            BY <3>1, <5>1, ResultParts
          <6>3. ReadStr[kind.rest] = name
            BY <6>2 DEF ReadStr
          <6>4. head[b] = Refused
            BY <3>3, <5>1, <6>1, <6>3 DEF PairGet
          <6> QED
            BY <6>4 DEF Refused
        <5>2. CASE ~(kind.ok /\ kind.value \in Kinds)
          <6>1. ByteGet(Kinds)[b] = Refused
            BY <5>2 DEF ByteGet
          <6>2. ~ByteGet(Kinds)[b].ok
            BY <6>1 DEF Refused
          <6>3. head[b] = Refused
            BY <6>2 DEF PairGet
          <6> QED
            BY <6>3 DEF Refused
        <5> QED
          BY <5>1, <5>2
      <4> HIDE DEF head
      <4>3. two[b] = Refused
        BY <4>2 DEF TwoGet
      <4>4. ~two[b].ok
        BY <4>3 DEF Refused
      <4> QED
        BY <4>1, <4>4
    <3> QED
      BY <3>2, <3>3
  <2> HIDE DEF two, from
  <2> QED
    BY <2>1 DEF ReadField, RenamedGet
<1>8. FieldPut = RenamedPut(tput, to, CachedField)
  <2>1. ASSUME NEW f \in CachedField PROVE PutField(f) = tput[to[f]]
    <3> DEFINE k == f.kind
               n == f.name
               v == f.value
    <3>1. k \in Kinds /\ n \in Str /\ v \in ValueOf[k]
      BY FieldParts
    <3>2. <<<<k, n>>, v>> \in Z /\ to[f] = <<<<k, n>>, v>>
      BY <1>4, <3>1
    <3>3. tput[<<<<k, n>>, v>>] = hput[<<k, n>>] \o thens[<<k, n>>][v]
      BY <3>2 DEF TwoPut
    <3>4. hput[<<k, n>>] = <<k>> \o PutStr(n)
      BY <3>1 DEF PairPut, BytePut, StrPut
    <3>5. thens[<<k, n>>][v] = PutValue([kind |-> k, value |-> v])
      BY <3>1 DEF ValuePuts
    <3>6. PutValue([kind |-> k, value |-> v]) = PutValue(f)
      BY DEF PutValue
    <3> HIDE DEF tput, hput, thens, to
    <3> QED
      BY <3>2, <3>3, <3>4, <3>5, <3>6 DEF PutField
  <2> HIDE DEF tput, to
  <2> QED
    BY <2>1 DEF FieldPut, RenamedPut
<1> HIDE DEF two, tput, Z, to, from
<1> QED
  BY <1>3, <1>6, <1>7, <1>8, RenamedCodec

\* What cannot be read from nothing takes a byte at least.
LEMMA NotFromNothing ==
  ASSUME NEW V, NEW get, NEW put, Codec(get, put, V), ~get[<<>>].ok
  PROVE TakesBytes(put, V)
<1>1. ASSUME NEW v \in V, put[v] = <<>> PROVE FALSE
  <2>1. get[put[v] \o <<>>] = Got(v, <<>>)
    BY NoBytes DEF Codec
  <2>2. put[v] \o <<>> = <<>>
    BY <1>1, NoBytes
  <2>3. get[<<>>].ok
    BY <2>1, <2>2 DEF Got
  <2> QED
    BY <2>3
<1> QED
  BY <1>1 DEF TakesBytes

\* A field takes a byte at least.
LEMMA FieldTakesBytes == TakesBytes(FieldPut, CachedField)
<1>1. ~GetU8(<<>>).ok
  BY DEF GetU8, Refused
<1>2. GetField(<<>>) = Refused
  BY <1>1 DEF GetField
<1>3. ~ReadField[<<>>].ok
  BY <1>2, NoBytes DEF ReadField, Refused
<1> QED
  BY <1>3, FieldCodec, NotFromNothing

FieldsGet == CountedGet(ReadField)
FieldsPut == CountedPut(FieldPut, CachedField)

\* The fields of an entry are read as they were written.
LEMMA FieldsCodec == Codec(FieldsGet, FieldsPut, ListOf(CachedField))
  BY FieldCodec, FieldTakesBytes, CountedCodec DEF FieldsGet, FieldsPut

\* PutAll writes the fields.
LEMMA FieldsPutAll ==
  ASSUME NEW s \in ListOf(CachedField) PROVE Counted(PutField, s) = FieldsPut[s]
<1>1. s \in Seq(CachedField)
  BY DEF ListOf
<1>2. [i \in DOMAIN s |-> PutField(s[i])] = [i \in DOMAIN s |-> FieldPut[s[i]]]
  <2>1. \A i \in DOMAIN s : s[i] \in CachedField
    BY <1>1, LenProperties, ElementOfSeq
  <2> QED
    BY <2>1 DEF FieldPut
<1> QED
  BY <1>2 DEF Counted, PutAll, FieldsPut, CountedPut, Written

-----------------------------------------------------------------------------
(* Entries of a record *)

Setters == 0..MaxSetter
EntryPut == [e \in CacheEntry |-> PutEntry(e)]

\* What is left is always bytes, also when nothing was understood.
LEMMA RestIsBytes == ASSUME NEW V, NEW r \in Results(V) PROVE r.rest \in Bytes
<1>1. CASE r.ok
  BY <1>1, ResultParts
<1>2. CASE ~r.ok
  BY <1>2, ResultParts, RefusedParts, NoBytes
<1> QED
  BY <1>1, <1>2

\* One more part after those that have been read.
LEMMA PairReads ==
  ASSUME NEW get, NEW next, NEW b \in Bytes, NEW ok \in BOOLEAN, NEW v, NEW t,
         get[b] = IF ok THEN Got(v, t) ELSE Refused
  PROVE PairGet(get, next)[b]
          = IF ok /\ next[t].ok THEN Got(<<v, next[t].value>>, next[t].rest) ELSE Refused
<1>1. CASE ok
  <2>1. get[b].ok /\ get[b].value = v /\ get[b].rest = t
    BY <1>1 DEF Got
  <2> QED
    BY <1>1, <2>1 DEF PairGet
<1>2. CASE ~ok
  <2>1. ~get[b].ok
    BY <1>2 DEF Refused
  <2> QED
    BY <1>2, <2>1 DEF PairGet
<1> QED
  BY <1>1, <1>2

\* An entry is its parts, one after the other.
LEMMA EntryCodec == Codec(ReadEntry, EntryPut, CacheEntry)
<1> DEFINE V1 == U32 \X BOOLEAN
           V2 == V1 \X U32
           V3 == V2 \X Setters
           V4 == V3 \X ListOf(CachedField)
           get1 == PairGet(U32Get, BoolGet)
           get2 == PairGet(get1, U32Get)
           get3 == PairGet(get2, ByteGet(Setters))
           get4 == PairGet(get3, FieldsGet)
           put1 == PairPut(U32Put, BoolPut, U32, BOOLEAN)
           put2 == PairPut(put1, U32Put, V1, U32)
           put3 == PairPut(put2, BytePut(Setters), V2, Setters)
           put4 == PairPut(put3, FieldsPut, V3, ListOf(CachedField))
           Tuple(f, g, s, c, d) == <<<<<<<<f, g>>, s>>, c>>, d>>
           Entry(f, g, s, c, d) ==
             [formID |-> f, soulGem |-> g, status |-> s, setter |-> c, delta |-> d]
           to == [e \in CacheEntry |-> Tuple(e.formID, e.soulGem, e.status, e.setter, e.delta)]
           from == [p \in V4 |-> Entry(p[1][1][1][1], p[1][1][1][2], p[1][1][2], p[1][2], p[2])]
<1>0. Setters \in SUBSET Byte
  BY DEF Setters, MaxSetter, Byte
<1>1. Codec(get1, put1, V1)
  BY U32Codec, BoolCodec, PairCodec
<1>2. Codec(get2, put2, V2)
  <2> HIDE DEF get1, put1, V1
  <2> QED
    BY <1>1, U32Codec, PairCodec
<1>3. Codec(get3, put3, V3)
  <2> HIDE DEF get2, put2, V2
  <2> QED
    BY <1>0, <1>2, ByteCodec, PairCodec
<1>4. Codec(get4, put4, V4)
  <2> HIDE DEF get3, put3, V3
  <2> QED
    BY <1>3, FieldsCodec, PairCodec
<1>5. ASSUME NEW f \in U32, NEW g \in BOOLEAN, NEW s \in U32, NEW c \in Setters,
             NEW d \in ListOf(CachedField)
      PROVE /\ Tuple(f, g, s, c, d) \in V4
            /\ Entry(f, g, s, c, d) \in CacheEntry
            /\ from[Tuple(f, g, s, c, d)] = Entry(f, g, s, c, d)
            /\ to[Entry(f, g, s, c, d)] = Tuple(f, g, s, c, d)
  BY DEF CacheEntry, Setters
<1>6. ASSUME NEW e \in CacheEntry
      PROVE /\ e.formID \in U32 /\ e.soulGem \in BOOLEAN /\ e.status \in U32
            /\ e.setter \in Setters /\ e.delta \in ListOf(CachedField)
            /\ e = Entry(e.formID, e.soulGem, e.status, e.setter, e.delta)
  BY DEF CacheEntry, Setters
<1>7. Renaming(to, from, CacheEntry, V4)
  <2>1. ASSUME NEW e \in CacheEntry PROVE to[e] \in V4 /\ from[to[e]] = e
    <3>1. to[e] = Tuple(e.formID, e.soulGem, e.status, e.setter, e.delta)
      OBVIOUS
    <3> HIDE DEF to, from, V4, Tuple, Entry
    <3> QED
      BY <1>5, <1>6, <3>1
  <2>2. ASSUME NEW p \in V4 PROVE from[p] \in CacheEntry /\ to[from[p]] = p
    <3>1. PICK f \in U32, g \in BOOLEAN, s \in U32, c \in Setters, d \in ListOf(CachedField) :
            p = Tuple(f, g, s, c, d)
      OBVIOUS
    <3> HIDE DEF to, from, V4, Tuple, Entry
    <3> QED
      BY <1>5, <3>1
  <2> HIDE DEF V4
  <2>3. to \in [CacheEntry -> V4] /\ from \in [V4 -> CacheEntry]
    BY <2>1, <2>2
  <2> HIDE DEF to, from
  <2> QED
    BY <2>1, <2>2, <2>3 DEF Renaming
<1>8. ASSUME NEW b \in Bytes
      PROVE GetEntry(b) = IF get4[b].ok THEN Got(from[get4[b].value], get4[b].rest) ELSE Refused
  <2> DEFINE form == GetU32(b)
             gem == GetBool(form.rest)
             status == GetU32(gem.rest)
             setter == GetU8(status.rest)
             delta == GetCounted(ReadField, setter.rest)
             tuple == Tuple(form.value, gem.value, status.value, setter.value, delta.value)
             good == /\ form.ok /\ gem.ok /\ status.ok
                     /\ setter.ok /\ setter.value \in Setters /\ delta.ok
  <2>1. form \in Results(U32) /\ form.rest \in Bytes /\ U32Get[b] = form
    BY U32Result, RestIsBytes DEF U32Get
  <2>2. gem \in Results(BOOLEAN) /\ gem.rest \in Bytes /\ BoolGet[form.rest] = gem
    <3>1. BoolGet[form.rest] = gem
      BY <2>1 DEF BoolGet
    <3>2. gem \in Results(BOOLEAN)
      BY <2>1, <3>1, BoolCodec DEF Codec
    <3> QED
      BY <3>1, <3>2, RestIsBytes
  <2>3. status \in Results(U32) /\ status.rest \in Bytes /\ U32Get[gem.rest] = status
    BY <2>2, U32Result, RestIsBytes DEF U32Get
  <2>4. /\ setter \in Results(Byte) /\ setter.rest \in Bytes
        /\ ByteGet(Setters)[status.rest] = IF setter.ok /\ setter.value \in Setters THEN setter ELSE Refused
    BY <2>3, FirstByte, RestIsBytes DEF ByteGet
  <2>5. delta \in Results(ListOf(CachedField)) /\ FieldsGet[setter.rest] = delta
    <3>1. FieldsGet[setter.rest] = delta
      BY <2>4 DEF FieldsGet, CountedGet
    <3> QED
      BY <2>4, <3>1, FieldsCodec DEF Codec
  <2> HIDE DEF form, gem, status, setter, delta
  <2>6. form.ok \in BOOLEAN /\ gem.ok \in BOOLEAN /\ status.ok \in BOOLEAN /\ setter.ok \in BOOLEAN
        /\ delta.ok \in BOOLEAN
    BY <2>1, <2>2, <2>3, <2>4, <2>5, ResultParts
  <2>7. U32Get[b] = IF form.ok THEN Got(form.value, form.rest) ELSE Refused
    BY <2>1, ResultParts
  <2>8. get1[b] = IF form.ok /\ gem.ok THEN Got(<<form.value, gem.value>>, gem.rest) ELSE Refused
    <3>1. get1[b] = IF form.ok /\ BoolGet[form.rest].ok
                    THEN Got(<<form.value, BoolGet[form.rest].value>>, BoolGet[form.rest].rest)
                    ELSE Refused
      BY <2>6, <2>7, PairReads
    <3> HIDE DEF get1
    <3> QED
      BY <2>2, <3>1
  <2> HIDE DEF get1
  <2>9. get2[b] = IF form.ok /\ gem.ok /\ status.ok
                  THEN Got(<<<<form.value, gem.value>>, status.value>>, status.rest) ELSE Refused
    <3>1. get2[b] = IF (form.ok /\ gem.ok) /\ U32Get[gem.rest].ok
                    THEN Got(<<<<form.value, gem.value>>, U32Get[gem.rest].value>>, U32Get[gem.rest].rest)
                    ELSE Refused
      BY <2>6, <2>8, PairReads
    <3> QED
      BY <2>3, <3>1
  <2> HIDE DEF get2
  <2>10. get3[b] = IF form.ok /\ gem.ok /\ status.ok /\ setter.ok /\ setter.value \in Setters
                   THEN Got(<<<<<<form.value, gem.value>>, status.value>>, setter.value>>, setter.rest)
                   ELSE Refused
    <3> DEFINE r == ByteGet(Setters)[status.rest]
    <3>1. get3[b] = IF (form.ok /\ gem.ok /\ status.ok) /\ r.ok
                    THEN Got(<<<<<<form.value, gem.value>>, status.value>>, r.value>>, r.rest)
                    ELSE Refused
      BY <2>6, <2>9, PairReads
    <3>2. r = IF setter.ok /\ setter.value \in Setters THEN setter ELSE Refused
      BY <2>4
    <3> HIDE DEF r, get3
    <3>3. r.ok <=> setter.ok /\ setter.value \in Setters
      BY <3>2, <2>6 DEF Refused
    <3> QED
      BY <3>1, <3>2, <3>3
  <2> HIDE DEF get3
  <2>11. get4[b] = IF good THEN Got(tuple, delta.rest) ELSE Refused
    <3> DEFINE ok == form.ok /\ gem.ok /\ status.ok /\ setter.ok /\ setter.value \in Setters
               v == <<<<<<form.value, gem.value>>, status.value>>, setter.value>>
    <3>1. ok \in BOOLEAN
      BY <2>6
    <3>2. good <=> ok /\ delta.ok
      OBVIOUS
    <3>3. tuple = <<v, delta.value>>
      OBVIOUS
    <3>4. get3[b] = IF ok THEN Got(v, setter.rest) ELSE Refused
      BY <2>10
    <3> HIDE DEF ok, v, good, tuple
    <3>5. get4[b] = IF ok /\ FieldsGet[setter.rest].ok
                    THEN Got(<<v, FieldsGet[setter.rest].value>>, FieldsGet[setter.rest].rest)
                    ELSE Refused
      BY <3>1, <3>4, PairReads
    <3> QED
      BY <2>5, <3>2, <3>3, <3>5
  <2>12. GetEntry(b)
           = IF good THEN Got(Entry(form.value, gem.value, status.value, setter.value, delta.value), delta.rest)
             ELSE Refused
    BY DEF GetEntry, form, gem, status, setter, delta, Setters
  <2> HIDE DEF get4
  <2>13. CASE good
    <3>1. /\ form.value \in U32 /\ gem.value \in BOOLEAN /\ status.value \in U32
          /\ setter.value \in Setters /\ delta.value \in ListOf(CachedField)
      BY <2>1, <2>2, <2>3, <2>4, <2>5, <2>13, ResultParts
    <3>2. from[tuple] = Entry(form.value, gem.value, status.value, setter.value, delta.value)
      BY <1>5, <3>1
    <3> HIDE DEF from, tuple, good, Entry
    <3>3. get4[b].ok /\ get4[b].value = tuple /\ get4[b].rest = delta.rest
      BY <2>11, <2>13 DEF Got
    <3> QED
      BY <2>12, <2>13, <3>2, <3>3
  <2>14. CASE ~good
    <3> HIDE DEF good
    <3>1. ~get4[b].ok
      BY <2>11, <2>14 DEF Refused
    <3> QED
      BY <2>12, <2>14, <3>1
  <2> QED
    BY <2>13, <2>14
<1>9. ReadEntry = RenamedGet(get4, from)
  <2> HIDE DEF get4, from
  <2> QED
    BY <1>8 DEF ReadEntry, RenamedGet
<1>10. ASSUME NEW e \in CacheEntry PROVE PutEntry(e) = put4[to[e]]
  <2> DEFINE f == e.formID
             g == e.soulGem
             s == e.status
             c == e.setter
             d == e.delta
  <2>1. f \in U32 /\ g \in BOOLEAN /\ s \in U32 /\ c \in Setters /\ d \in ListOf(CachedField)
    BY <1>6
  <2>2. to[e] = <<<<<<<<f, g>>, s>>, c>>, d>>
    OBVIOUS
  <2>3. Counted(PutField, d) = FieldsPut[d]
    BY <2>1, FieldsPutAll
  <2> HIDE DEF to
  <2>4. <<f, g>> \in V1 /\ put1[<<f, g>>] = PutU32(f) \o PutBool(g)
    BY <2>1 DEF PairPut, U32Put, BoolPut
  <2> HIDE DEF V1, put1
  <2>5. <<<<f, g>>, s>> \in V2 /\ put2[<<<<f, g>>, s>>] = put1[<<f, g>>] \o PutU32(s)
    BY <2>1, <2>4 DEF PairPut, U32Put
  <2> HIDE DEF V2, put2
  <2>6. /\ <<<<<<f, g>>, s>>, c>> \in V3
        /\ put3[<<<<<<f, g>>, s>>, c>>] = put2[<<<<f, g>>, s>>] \o <<c>>
    BY <2>1, <2>5 DEF PairPut, BytePut
  <2> HIDE DEF V3, put3
  <2>7. put4[<<<<<<<<f, g>>, s>>, c>>, d>>] = put3[<<<<<<f, g>>, s>>, c>>] \o FieldsPut[d]
    BY <2>1, <2>6 DEF PairPut
  <2> HIDE DEF put4
  <2> QED
    BY <2>2, <2>3, <2>4, <2>5, <2>6, <2>7 DEF PutEntry
<1>11. EntryPut = RenamedPut(put4, to, CacheEntry)
  <2> HIDE DEF put4, to
  <2> QED
    BY <1>10 DEF EntryPut, RenamedPut
<1> HIDE DEF V4, get4, put4, to, from
<1> QED
  BY <1>4, <1>7, <1>9, <1>11, RenamedCodec

\* An entry takes a byte at least.
LEMMA EntryTakesBytes == TakesBytes(EntryPut, CacheEntry)
<1>1. ~GetU32(<<>>).ok
  <2>1. Len(<<>>) = 0
    OBVIOUS
  <2>2. ~(0 >= 4)
    OBVIOUS
  <2>3. GetU32(<<>>).ok <=> Len(<<>>) >= 4
    BY NoBytes, U32Result
  <2> QED
    BY <2>1, <2>2, <2>3
<1>2. GetEntry(<<>>) = Refused
  BY <1>1 DEF GetEntry
<1>3. ~ReadEntry[<<>>].ok
  BY <1>2, NoBytes DEF ReadEntry, Refused
<1> QED
  BY <1>3, EntryCodec, NotFromNothing

EntriesGet == CountedGet(ReadEntry)
EntriesPut == CountedPut(EntryPut, CacheEntry)

\* Entries are read as they were written.
LEMMA EntriesCodec == Codec(EntriesGet, EntriesPut, ListOf(CacheEntry))
  BY EntryCodec, EntryTakesBytes, CountedCodec DEF EntriesGet, EntriesPut

\* SerializeEntries writes a number of entries, and the entries.
LEMMA SerializePuts ==
  ASSUME NEW s \in ListOf(CacheEntry) PROVE SerializeEntries(s) = EntriesPut[s]
<1>1. s \in Seq(CacheEntry)
  BY DEF ListOf
<1>2. [i \in DOMAIN s |-> PutEntry(s[i])] = [i \in DOMAIN s |-> EntryPut[s[i]]]
  <2>1. \A i \in DOMAIN s : s[i] \in CacheEntry
    BY <1>1, LenProperties, ElementOfSeq
  <2> QED
    BY <2>1 DEF EntryPut
<1> QED
  BY <1>2 DEF SerializeEntries, Counted, PutAll, EntriesPut, CountedPut, Written

-----------------------------------------------------------------------------
(* Records *)

\* Nothing further happens to an input.
LEMMA InputsStay == FormatsSpec => [](input \in Inputs \cup {NoInput})
<1>1. FormatsInit => input \in Inputs \cup {NoInput}
  BY DEF FormatsInit
<1>2. (input \in Inputs \cup {NoInput}) /\ [FALSE]_input => (input \in Inputs \cup {NoInput})'
  <2> SUFFICES ASSUME input \in Inputs \cup {NoInput}, [FALSE]_input
               PROVE (input \in Inputs \cup {NoInput})'
    OBVIOUS
  <2>1. input' = input
    OBVIOUS
  <2>2. Inputs' = Inputs /\ NoInput' = NoInput
    BY DEF Inputs, NoInput
  <2> QED
    BY <2>1, <2>2
<1> QED
  BY <1>1, <1>2, PTL DEF FormatsSpec

\* What an input of each kind is.
LEMMA InputKinds ==
  ASSUME input \in Inputs \cup {NoInput}
  PROVE /\ input.kind = "key" => input.parts \in KeyParts
        /\ input.kind = "record" => input.entries \in RecordLists
        /\ input.kind = "config" => input.files \in ConfigLists
        /\ input.kind = "fields" => input.fields \in FieldLists
  BY DEF Inputs, NoInput

\* What DeserializeEntries makes of the codec of the entries.
LEMMA Deserialized ==
  ASSUME NEW b \in Bytes
  PROVE /\ EntriesGet[b] \in Results(ListOf(CacheEntry))
        /\ DeserializeEntries(b) = IF EntriesGet[b].rest = <<>> THEN EntriesGet[b] ELSE Refused
<1>1. EntriesGet[b] = GetCounted(ReadEntry, b)
  BY DEF EntriesGet, CountedGet
<1>2. EntriesGet[b] \in Results(ListOf(CacheEntry))
  BY EntriesCodec DEF Codec
<1> QED
  BY <1>1, <1>2 DEF DeserializeEntries

\* The record of some entries, and how it is read.
LEMMA RecordOf ==
  ASSUME NEW s \in ListOf(CacheEntry)
  PROVE /\ SerializeEntries(s) \in Bytes
        /\ \A t \in Bytes : EntriesGet[SerializeEntries(s) \o t] = Got(s, t)
<1>1. SerializeEntries(s) = EntriesPut[s]
  BY SerializePuts
<1> QED
  BY <1>1, EntriesCodec DEF Codec

\* Every record is read as the entries that were saved.
LEMMA EveryRecordReadsBack == ASSUME NEW s \in ListOf(CacheEntry) PROVE RoundTrips(s)
<1> DEFINE b == SerializeEntries(s)
<1>1. b \in Bytes /\ b \o <<>> = b
  BY RecordOf, NoBytes
<1>2. EntriesGet[b \o <<>>] = Got(s, <<>>)
  BY NoBytes, RecordOf
<1> HIDE DEF b
<1>3. EntriesGet[b] = Got(s, <<>>)
  BY <1>1, <1>2
<1>4. EntriesGet[b].rest = <<>>
  BY <1>3 DEF Got
<1>5. DeserializeEntries(b) = Got(s, <<>>)
  BY <1>1, <1>3, <1>4, Deserialized
<1> QED
  BY <1>5 DEF b, RoundTrips

\* A record without its last bytes, or with a byte more, is refused: if it were
\* understood without them, they would be left over of the whole, and none are.
LEMMA EveryCutIsRefused ==
  ASSUME NEW s \in ListOf(CacheEntry), NEW more \in SUBSET Byte
  PROVE CutRefused(s, more)
<1> DEFINE bytes == SerializeEntries(s)
<1>1. bytes \in Bytes /\ \A t \in Bytes : EntriesGet[bytes \o t] = Got(s, t)
  BY RecordOf
<1>2. EntriesGet[bytes] = Got(s, <<>>)
  <2>1. bytes \o <<>> = bytes /\ <<>> \in Bytes
    BY <1>1, NoBytes
  <2> HIDE DEF bytes
  <2> QED
    BY <1>1, <2>1
<1> HIDE DEF bytes
<1>3. ASSUME NEW n \in 0..Len(bytes) - 1 PROVE ~DeserializeEntries(SubSeq(bytes, 1, n)).ok
  <2> DEFINE a == SubSeq(bytes, 1, n)
             z == SubSeq(bytes, n + 1, Len(bytes))
  <2>1. Len(bytes) \in Nat
    BY <1>1, LenProperties DEF Bytes
  <2>2. n \in 0..Len(bytes) /\ Len(bytes) - n # 0
    BY <2>1
  <2>3. a \in Bytes /\ z \in Bytes /\ Len(z) = Len(bytes) - n /\ a \o z = bytes
    BY <1>1, <2>2, PutTogether
  <2>4. z # <<>>
    BY <2>2, <2>3
  <2> HIDE DEF a, z
  <2>5. ASSUME DeserializeEntries(a).ok PROVE FALSE
    <3>1. EntriesGet[a].rest = <<>> /\ EntriesGet[a].ok
      BY <2>3, <2>5, Deserialized, RefusedParts
    <3>2. EntriesGet[a \o z] = Got(EntriesGet[a].value, EntriesGet[a].rest \o z)
      BY <2>3, <3>1, EntriesCodec DEF Codec
    <3>3. EntriesGet[a].rest \o z = z
      BY <2>3, <3>1, NoBytes
    <3>4. Got(EntriesGet[a].value, z) = Got(s, <<>>)
      BY <1>2, <2>3, <3>2, <3>3
    <3>5. z = <<>>
      BY <3>4 DEF Got
    <3> QED
      BY <2>4, <3>5
  <2> QED
    BY <2>5 DEF a
<1>4. ASSUME NEW k \in more PROVE ~DeserializeEntries(bytes \o <<k>>).ok
  <2>1. <<k>> \in Bytes /\ <<k>> # <<>>
    BY NoBytes, FirstByte
  <2>2. bytes \o <<k>> \in Bytes /\ EntriesGet[bytes \o <<k>>] = Got(s, <<k>>)
    BY <1>1, <2>1, Joined
  <2> DEFINE b == bytes \o <<k>>
  <2> HIDE DEF b
  <2>3. b \in Bytes /\ EntriesGet[b].rest # <<>>
    BY <2>1, <2>2 DEF b, Got
  <2>4. DeserializeEntries(b) = Refused
    BY <2>3, Deserialized
  <2> QED
    BY <2>4, RefusedParts DEF b
<1> QED
  BY <1>3, <1>4 DEF CutRefused, bytes

\* Whatever is read is what the bytes, up to booleans, would be written for.
LEMMA EveryByteIsUnderstood == ASSUME NEW b \in Bytes PROVE Understood(b)
<1> DEFINE r == DeserializeEntries(b)
<1>1. ASSUME r.ok PROVE r.value \in ListOf(CacheEntry) /\ Like(SerializeEntries(r.value), b)
  <2>1. r = EntriesGet[b] /\ EntriesGet[b].rest = <<>> /\ EntriesGet[b].ok
    BY <1>1, Deserialized, RefusedParts
  <2> HIDE DEF r
  <2>2. r.value \in ListOf(CacheEntry)
    BY <2>1, Deserialized, ResultParts
  <2>3. Like(EntriesPut[r.value] \o <<>>, b)
    <3>1. Like(EntriesPut[EntriesGet[b].value] \o EntriesGet[b].rest, b)
      BY <2>1, EntriesCodec DEF Codec
    <3> QED
      BY <2>1, <3>1
  <2>4. EntriesPut[r.value] \o <<>> = EntriesPut[r.value]
    BY <2>2, EntriesCodec, NoBytes DEF Codec
  <2> QED
    BY <2>2, <2>3, <2>4, SerializePuts
<1> QED
  BY <1>1 DEF Understood

\* So it is of a record with a damaged byte.
LEMMA EveryDamageIsUnderstood ==
  ASSUME NEW s \in ListOf(CacheEntry), NEW tried \in SUBSET Byte
  PROVE DamageUnderstood(s, tried)
<1> DEFINE bytes == SerializeEntries(s)
<1>1. bytes \in Bytes
  BY RecordOf
<1> HIDE DEF bytes
<1>2. ASSUME NEW i \in DOMAIN bytes, NEW k \in tried PROVE [bytes EXCEPT ![i] = k] \in Bytes
  <2>1. i \in 1..Len(bytes)
    BY <1>1, LenProperties DEF Bytes
  <2> QED
    BY <1>1, <2>1, ExceptSeq DEF Bytes
<1>3. \A i \in DOMAIN bytes, k \in tried : Understood([bytes EXCEPT ![i] = k])
  BY <1>2, EveryByteIsUnderstood
<1> QED
  BY <1>3 DEF DamageUnderstood, bytes

\* What SerializeEntries writes, DeserializeEntries reads back, whatever the
\* entries: no icon is lost or changed by a save and a load.
THEOREM RecordsRoundTrip == FormatsSpec => []RecordRoundTrip
<1>1. input \in Inputs \cup {NoInput} => RecordRoundTrip
  <2> SUFFICES ASSUME input \in Inputs \cup {NoInput}, input.kind = "record"
               PROVE RoundTrips(input.entries)
    BY DEF RecordRoundTrip
  <2>1. input.entries \in ListOf(CacheEntry)
    BY InputKinds, FormatConstants
  <2> QED
    BY <2>1, EveryRecordReadsBack
<1> QED
  BY <1>1, InputsStay, PTL

\* A record that was cut anywhere, or goes on after its end, is refused whole; one
\* with a damaged byte is refused or read as what its bytes say.
THEOREM DamageRefused == FormatsSpec => []DamageIsRefused
<1>1. input \in Inputs \cup {NoInput} => DamageIsRefused
  <2> SUFFICES ASSUME input \in Inputs \cup {NoInput}, input.kind = "record"
               PROVE CutRefused(input.entries, Overwritten) /\ DamageUnderstood(input.entries, Overwritten)
    BY DEF DamageIsRefused
  <2>1. input.entries \in ListOf(CacheEntry) /\ Overwritten \in SUBSET Byte
    BY InputKinds, FormatConstants
  <2> QED
    BY <2>1, EveryCutIsRefused, EveryDamageIsUnderstood
<1> QED
  BY <1>1, InputsStay, PTL

-----------------------------------------------------------------------------
(* Prefix codes *)

\* What is written of a value shows where it ends: no value is written as the
\* beginning of another.
Apart(put, x, y, t, u) == put[x] \o t = put[y] \o u => x = y /\ t = u
PrefixCode(put, V) ==
  /\ put \in [V -> Bytes]
  /\ \A x, y \in V, t, u \in Bytes : Apart(put, x, y, t, u)

\* What can be read back ends where it is written to end.
LEMMA CodecPrefix ==
  ASSUME NEW V, NEW get, NEW put, Codec(get, put, V)
  PROVE PrefixCode(put, V)
<1>1. ASSUME NEW x \in V, NEW y \in V, NEW t \in Bytes, NEW u \in Bytes, put[x] \o t = put[y] \o u
      PROVE x = y /\ t = u
  <2>1. get[put[x] \o t] = Got(x, t) /\ get[put[y] \o u] = Got(y, u)
    BY DEF Codec
  <2>2. Got(x, t) = Got(y, u)
    BY <1>1, <2>1
  <2> QED
    BY <2>2 DEF Got
<1>2. put \in [V -> Bytes]
  BY DEF Codec
<1> QED
  BY <1>1, <1>2 DEF PrefixCode, Apart

\* A prefix code that nothing follows.
LEMMA PrefixAlone ==
  ASSUME NEW V, NEW put, PrefixCode(put, V), NEW x \in V, NEW y \in V, NEW t \in Bytes
  PROVE put[x] = put[y] \o t => x = y /\ t = <<>>
<1>1. put[x] \o <<>> = put[x] /\ <<>> \in Bytes
  BY NoBytes DEF PrefixCode
<1>2. put[x] \o <<>> = put[y] \o t => x = y /\ <<>> = t
  <2>1. Apart(put, x, y, <<>>, t)
    BY <1>1 DEF PrefixCode
  <2> QED
    BY <2>1 DEF Apart
<1> QED
  BY <1>1, <1>2

\* So are lists of one length, written one element after the other.
LEMMA PrefixLists ==
  ASSUME NEW V, NEW put, PrefixCode(put, V), NEW n \in Nat
  PROVE PrefixCode(ListPut(put, V, n), Lists(V, n))
<1> DEFINE S == {m \in Nat : PrefixCode(ListPut(put, V, m), Lists(V, m))}
<1>0. put \in [V -> Bytes]
  BY DEF PrefixCode
<1>1. 0 \in S
  <2>1. Lists(V, 0) = {<<>>}
    BY EmptySeq DEF Lists
  <2>2. Written(put, <<>>) = <<>>
    BY <1>0, EmptySeq, WrittenLast
  <2>3. ListPut(put, V, 0) = EmptyPut
    BY <2>1, <2>2 DEF ListPut, EmptyPut
  <2>4. PrefixCode(EmptyPut, {<<>>})
    BY EmptyCodec, CodecPrefix
  <2> QED
    BY <2>1, <2>3, <2>4
<1>2. ASSUME NEW m \in S PROVE m + 1 \in S
  <2>1. PrefixCode(ListPut(put, V, m), Lists(V, m))
    OBVIOUS
  <2>2. ASSUME NEW x \in Lists(V, m + 1)
        PROVE \E s \in Lists(V, m) : \E v \in V :
                /\ x = Append(s, v)
                /\ ListPut(put, V, m + 1)[x] = ListPut(put, V, m)[s] \o put[v]
                /\ ListPut(put, V, m)[s] \in Bytes /\ put[v] \in Bytes
    <3>1. x \in Seq(V) /\ Len(x) = m + 1 /\ x # <<>>
      BY EmptySeq DEF Lists
    <3>2. PICK s \in Seq(V), v \in V : x = Append(s, v)
      BY <3>1, SequenceEmptyOrAppend
    <3>3. s \in Lists(V, m)
      BY <3>1, <3>2, AppendProperties, LenProperties DEF Lists
    <3>4. Written(put, x) = Written(put, s) \o put[v] /\ Written(put, s) \in Bytes
      BY <1>0, <3>2, WrittenLast
    <3>5. put[v] \in Bytes
      BY <1>0
    <3> QED
      BY <3>2, <3>3, <3>4, <3>5 DEF ListPut
  <2>3. ASSUME NEW x \in Lists(V, m + 1), NEW y \in Lists(V, m + 1), NEW t \in Bytes, NEW u \in Bytes,
               ListPut(put, V, m + 1)[x] \o t = ListPut(put, V, m + 1)[y] \o u
        PROVE x = y /\ t = u
    <3>1. PICK s \in Lists(V, m) : \E v \in V :
             /\ x = Append(s, v)
             /\ ListPut(put, V, m + 1)[x] = ListPut(put, V, m)[s] \o put[v]
             /\ ListPut(put, V, m)[s] \in Bytes /\ put[v] \in Bytes
      BY <2>2
    <3>2. PICK v \in V :
             /\ x = Append(s, v)
             /\ ListPut(put, V, m + 1)[x] = ListPut(put, V, m)[s] \o put[v]
             /\ ListPut(put, V, m)[s] \in Bytes /\ put[v] \in Bytes
      BY <3>1
    <3>3. PICK r \in Lists(V, m) : \E w \in V :
             /\ y = Append(r, w)
             /\ ListPut(put, V, m + 1)[y] = ListPut(put, V, m)[r] \o put[w]
             /\ ListPut(put, V, m)[r] \in Bytes /\ put[w] \in Bytes
      BY <2>2
    <3>4. PICK w \in V :
             /\ y = Append(r, w)
             /\ ListPut(put, V, m + 1)[y] = ListPut(put, V, m)[r] \o put[w]
             /\ ListPut(put, V, m)[r] \in Bytes /\ put[w] \in Bytes
      BY <3>3
    <3> DEFINE a == ListPut(put, V, m)[s]
               b == put[v]
               c == ListPut(put, V, m)[r]
               d == put[w]
    <3>5. (a \o b) \o t = (c \o d) \o u
      BY <2>3, <3>2, <3>4
    <3>6. a \in Bytes /\ b \in Bytes /\ c \in Bytes /\ d \in Bytes
      BY <3>2, <3>4
    <3>7. a \o (b \o t) = c \o (d \o u) /\ b \o t \in Bytes /\ d \o u \in Bytes
      <4> HIDE DEF a, b, c, d
      <4>1. (a \o b) \o t = a \o (b \o t)
        BY <3>6, Associative, Zenon
      <4>2. (c \o d) \o u = c \o (d \o u)
        BY <3>6, Associative, Zenon
      <4> QED
        BY <3>5, <3>6, <4>1, <4>2, Joined
    <3>9. s = r /\ b \o t = d \o u
      <4> DEFINE p == ListPut(put, V, m)
                 L == Lists(V, m)
      <4>1. PrefixCode(p, L) /\ s \in L /\ r \in L /\ p[s] \o (b \o t) = p[r] \o (d \o u)
        BY <2>1, <3>7
      <4> HIDE DEF p, L, b, d
      <4>2. Apart(p, s, r, b \o t, d \o u)
        BY <3>7, <4>1 DEF PrefixCode
      <4> QED
        BY <4>1, <4>2 DEF Apart
    <3>10. v = w /\ t = u
      <4>1. put[v] \o t = put[w] \o u
        BY <3>9
      <4>2. Apart(put, v, w, t, u)
        BY DEF PrefixCode
      <4> QED
        BY <4>1, <4>2 DEF Apart
    <3> QED
      BY <3>2, <3>4, <3>9, <3>10
  <2>4. ListPut(put, V, m + 1) \in [Lists(V, m + 1) -> Bytes]
    <3>1. \A x \in Lists(V, m + 1) : Written(put, x) \in Bytes
      BY <1>0, WrittenLast DEF Lists
    <3> QED
      BY <3>1 DEF ListPut
  <2>5. PrefixCode(ListPut(put, V, m + 1), Lists(V, m + 1))
    <3> HIDE DEF S
    <3> QED
      BY <2>3, <2>4 DEF PrefixCode, Apart
  <2> QED
    BY <2>5
<1>3. S = Nat
  <2> HIDE DEF S
  <2>1. S \in SUBSET Nat
    BY DEF S
  <2> QED
    BY <1>1, <1>2, <2>1, AllNumbers, Zenon
<1> QED
  BY <1>3

Further(put, V, n, k, t) ==
  \E s \in Lists(V, n) : \E rest \in Bytes :
    Written(put, t) = Written(put, s) \o rest /\ (k # 0 => rest # <<>>)

\* A longer list is written as a shorter one and some bytes.
LEMMA WrittenFurther ==
  ASSUME NEW V, NEW put \in [V -> Bytes], TakesBytes(put, V), NEW n \in Nat, NEW k \in Nat,
         NEW t \in Lists(V, n + k)
  PROVE Further(put, V, n, k, t)
<1> DEFINE S == {m \in Nat : \A x \in Lists(V, n + m) : Further(put, V, n, m, x)}
<1>1. 0 \in S
  <2>1. ASSUME NEW x \in Lists(V, n + 0) PROVE x \in Lists(V, n) /\ Written(put, x) = Written(put, x) \o <<>>
    <3>1. x \in Lists(V, n)
      OBVIOUS
    <3>2. Written(put, x) \in Bytes
      BY WrittenLast DEF Lists
    <3> QED
      BY <3>1, <3>2, NoBytes
  <2> QED
    BY <2>1, NoBytes DEF Further
<1>2. ASSUME NEW m \in S PROVE m + 1 \in S
  <2>1. ASSUME NEW x \in Lists(V, n + (m + 1))
        PROVE Further(put, V, n, m + 1, x)
    <3>1. x \in Seq(V) /\ Len(x) = n + (m + 1) /\ x # <<>>
      BY EmptySeq DEF Lists
    <3>2. PICK y \in Seq(V), v \in V : x = Append(y, v)
      BY <3>1, SequenceEmptyOrAppend
    <3>3. y \in Lists(V, n + m)
      BY <3>1, <3>2, AppendProperties, LenProperties DEF Lists
    <3>4. PICK s \in Lists(V, n), rest \in Bytes : Written(put, y) = Written(put, s) \o rest
      <4>1. Further(put, V, n, m, y)
        BY <3>3
      <4> QED
        BY <4>1 DEF Further
    <3>5. Written(put, x) = Written(put, y) \o put[v] /\ Written(put, s) \in Bytes
      BY <3>2, WrittenLast DEF Lists
    <3>6. put[v] \in Bytes /\ put[v] # <<>>
      BY DEF TakesBytes
    <3>7. (Written(put, s) \o rest) \o put[v] = Written(put, s) \o (rest \o put[v])
      BY <3>5, <3>6, Associative, Zenon
    <3>8. rest \o put[v] \in Bytes /\ rest \o put[v] # <<>>
      <4>1. /\ rest \o put[v] \in Bytes /\ Len(rest \o put[v]) = Len(rest) + Len(put[v])
            /\ Len(rest) \in Nat /\ Len(put[v]) \in Nat
        BY <3>6, Joined
      <4>2. Len(put[v]) # 0
        BY <3>6, EmptySeq DEF Bytes
      <4>3. Len(rest \o put[v]) # 0
        BY <4>1, <4>2
      <4> QED
        BY <4>1, <4>3, EmptySeq DEF Bytes
    <3> QED
      BY <3>4, <3>5, <3>7, <3>8 DEF Further
  <2> QED
    BY <2>1
<1>3. S = Nat
  <2> HIDE DEF S
  <2>1. S \in SUBSET Nat
    BY DEF S
  <2> QED
    BY <1>1, <1>2, <2>1, AllNumbers, Zenon
<1> QED
  BY <1>3

\* Lists are written alike only if they are the same, whatever their lengths.
LEMMA WrittenAlikeNoLonger ==
  ASSUME NEW V, NEW put, PrefixCode(put, V), TakesBytes(put, V),
         NEW s \in Seq(V), NEW t \in Seq(V), Len(s) <= Len(t), Written(put, s) = Written(put, t)
  PROVE s = t
<1> DEFINE n == Len(s)
           k == Len(t) - n
<1>1. n \in Nat /\ k \in Nat /\ n + k = Len(t)
  BY LenProperties
<1>2. s \in Lists(V, n) /\ t \in Lists(V, n + k)
  BY <1>1 DEF Lists
<1>3. put \in [V -> Bytes]
  BY DEF PrefixCode
<1> HIDE DEF n, k
<1>4. PICK r \in Lists(V, n), rest \in Bytes :
        Written(put, t) = Written(put, r) \o rest /\ (k # 0 => rest # <<>>)
  <2>1. n \in Nat /\ k \in Nat
    BY <1>1
  <2>2. Further(put, V, n, k, t)
    BY <1>2, <1>3, <2>1, WrittenFurther
  <2> QED
    BY <2>2 DEF Further
<1>5. PrefixCode(ListPut(put, V, n), Lists(V, n))
  BY <1>1, PrefixLists
<1>6. ListPut(put, V, n)[s] = ListPut(put, V, n)[r] \o rest
  BY <1>2, <1>4 DEF ListPut
<1>7. rest = <<>>
  BY <1>2, <1>5, <1>6, PrefixAlone
<1>8. k = 0
  BY <1>4, <1>7
<1>9. t \in Lists(V, n)
  BY <1>1, <1>2, <1>8
<1>10. ListPut(put, V, n)[s] \o <<>> = ListPut(put, V, n)[t] \o <<>>
  BY <1>2, <1>9 DEF ListPut
<1>11. Apart(ListPut(put, V, n), s, t, <<>>, <<>>)
  BY <1>2, <1>5, <1>9, NoBytes DEF PrefixCode
<1> QED
  BY <1>10, <1>11 DEF Apart

\* Lists of elements that take bytes are written alike only if they are the same.
LEMMA WrittenAlike ==
  ASSUME NEW V, NEW put, PrefixCode(put, V), TakesBytes(put, V),
         NEW s \in Seq(V), NEW t \in Seq(V), Written(put, s) = Written(put, t)
  PROVE s = t
<1>1. Len(s) \in Nat /\ Len(t) \in Nat
  BY LenProperties
<1>2. CASE Len(s) <= Len(t)
  BY <1>2, WrittenAlikeNoLonger
<1>3. CASE ~(Len(s) <= Len(t))
  <2>1. Len(t) <= Len(s)
    BY <1>1, <1>3
  <2> QED
    BY <2>1, WrittenAlikeNoLonger
<1> QED
  BY <1>2, <1>3

-----------------------------------------------------------------------------
(* Configurations *)

\* Files that were read to their ends.
WholeFile == {file \in ConfigFile : file.unread = 0}
FilePut == [file \in WholeFile |-> ConfigFileStream(file)]

\* A function of the first numbers is a sequence.
LEMMA FunctionIsSeq ==
  ASSUME NEW n \in Nat, NEW S, NEW f \in [1..n -> S]
  PROVE f \in Seq(S) /\ Len(f) = n
<1>1. f \in Seq(S)
  <2>1. f \in UNION {[1..m -> S] : m \in Nat}
    OBVIOUS
  <2> QED
    BY <2>1, SeqDef
<1>2. DOMAIN f = 1..n /\ DOMAIN f = 1..Len(f) /\ Len(f) \in Nat
  BY <1>1, LenProperties
<1> QED
  BY <1>1, <1>2

\* Bytes that something follows are not nothing either.
LEMMA NotEmpty == ASSUME NEW a \in Bytes, NEW b \in Bytes PROVE a # <<>> => a \o b # <<>>
<1>1. Len(a \o b) = Len(a) + Len(b) /\ Len(a) \in Nat /\ Len(b) \in Nat
  BY Joined
<1>2. a \o b = <<>> => Len(a \o b) = 0
  OBVIOUS
<1>3. Len(a) = 0 => a = <<>>
  BY EmptySeq DEF Bytes
<1> DEFINE c == a \o b
           m == Len(a)
           n == Len(b)
<1>4. c = <<>> => m + n = 0
  BY <1>1, <1>2
<1>5. m \in Nat /\ n \in Nat
  BY <1>1
<1> HIDE DEF c, m, n
<1>6. c = <<>> => m = 0
  BY <1>4, <1>5
<1> QED
  BY <1>3, <1>6 DEF c, m

\* The bytes of a file are its name and one string.
LEMMA FileBytes ==
  ASSUME NEW file \in WholeFile
  PROVE /\ file.name \in Str /\ file.stamp \in Bytes /\ file.json \in Bytes
        /\ Len(file.stamp) = StampSize
        /\ file.stamp \o file.json \in Str
        /\ ConfigFileStream(file) = StrPut[file.name] \o StrPut[file.stamp \o file.json]
        /\ ConfigFileStream(file) \in Bytes
<1>1. /\ file \in [name : Str, stamp : [1..StampSize -> Byte], json : Str, unread : U32]
      /\ StampSize + Len(file.json) \in U32 /\ file.unread = 0
  BY DEF WholeFile, ConfigFile
<1> DEFINE name == file.name
           stamp == file.stamp
           json == file.json
           size == StampSize + Len(json)
<1>2. name \in Str /\ stamp \in [1..StampSize -> Byte] /\ json \in Bytes /\ size \in U32
  BY <1>1 DEF Str, ListOf, Bytes
<1>3. stamp \in Bytes /\ Len(stamp) = StampSize
  BY <1>2, FunctionIsSeq, FormatConstants DEF Bytes
<1> HIDE DEF stamp, json, name
<1>4. stamp \o json \in Str /\ Len(stamp \o json) = size
  <2>1. stamp \o json \in Bytes /\ Len(stamp \o json) = Len(stamp) + Len(json)
    BY <1>2, <1>3, Joined
  <2> QED
    BY <1>2, <1>3, <2>1 DEF Str, ListOf, Bytes
<1>5. name \in Bytes /\ Len(name) \in U32
  BY <1>2 DEF Str, ListOf, Bytes
<1>6. ConfigFileStream(file)
        = (((PutStr(name) \o PutU32(size)) \o stamp) \o SubSeq(json, 1, Len(json))) \o <<>>
  <2>1. ~(file.unread > 0) /\ Len(file.json) - file.unread = Len(file.json)
    BY <1>1, <1>2, LenProperties DEF Bytes, json
  <2> QED
    BY <2>1 DEF ConfigFileStream, BeginFile, name, json, stamp
<1>7. SubSeq(json, 1, Len(json)) = json
  BY <1>2, SubSeqFull DEF Bytes
<1> DEFINE a == PutStr(name)
           p == PutU32(size)
<1>8. a \in Bytes /\ p \in Bytes
  BY <1>2, <1>5, Four, Joined DEF PutStr
<1> HIDE DEF a, p
<1>9. /\ a \o p \in Bytes /\ p \o stamp \in Bytes /\ stamp \o json \in Bytes
      /\ (a \o p) \o stamp \in Bytes /\ ((a \o p) \o stamp) \o json \in Bytes
      /\ p \o (stamp \o json) \in Bytes
  BY <1>2, <1>3, <1>8, Joined
<1>10. (((a \o p) \o stamp) \o json) \o <<>> = a \o (p \o (stamp \o json))
  <2>1. (((a \o p) \o stamp) \o json) \o <<>> = ((a \o p) \o stamp) \o json
    BY <1>9, NoBytes
  <2>2. ((a \o p) \o stamp) \o json = (a \o p) \o (stamp \o json)
    <3> DEFINE c == a \o p
    <3>1. c \in Bytes /\ stamp \in Bytes /\ json \in Bytes
      BY <1>2, <1>3, <1>9
    <3> HIDE DEF c
    <3>2. (c \o stamp) \o json = c \o (stamp \o json)
      BY <3>1, Associative, Zenon
    <3> QED
      BY <3>2 DEF c
  <2>3. (a \o p) \o (stamp \o json) = a \o (p \o (stamp \o json))
    BY <1>8, <1>9, Associative, Zenon
  <2> QED
    BY <2>1, <2>2, <2>3
<1>11. ConfigFileStream(file) = a \o (p \o (stamp \o json))
  BY <1>6, <1>7, <1>10 DEF a, p
<1>12. StrPut[name] = a /\ StrPut[stamp \o json] = p \o (stamp \o json)
  BY <1>2, <1>4 DEF StrPut, PutStr, a, p
<1>13. a \o (p \o (stamp \o json)) \in Bytes
  BY <1>8, <1>9, Joined
<1> QED
  BY <1>2, <1>3, <1>4, <1>11, <1>12, <1>13 DEF name, stamp, json

\* A file that was read to its end shows where it ends.
LEMMA FilePrefix == PrefixCode(FilePut, WholeFile) /\ TakesBytes(FilePut, WholeFile)
<1>0. PrefixCode(StrPut, Str)
  BY StrCodec, CodecPrefix
<1>1. FilePut \in [WholeFile -> Bytes]
  BY FileBytes DEF FilePut
<1>2. ASSUME NEW f \in WholeFile, NEW g \in WholeFile, NEW t \in Bytes, NEW u \in Bytes,
             FilePut[f] \o t = FilePut[g] \o u
      PROVE f = g /\ t = u
  <2> DEFINE a == f.stamp \o f.json
             b == g.stamp \o g.json
  <2>1. /\ f.name \in Str /\ a \in Str /\ FilePut[f] = StrPut[f.name] \o StrPut[a]
        /\ g.name \in Str /\ b \in Str /\ FilePut[g] = StrPut[g.name] \o StrPut[b]
    BY FileBytes DEF FilePut
  <2>2. /\ StrPut[f.name] \in Bytes /\ StrPut[a] \in Bytes
        /\ StrPut[g.name] \in Bytes /\ StrPut[b] \in Bytes
    BY <1>0, <2>1 DEF PrefixCode
  <2> HIDE DEF a, b
  <2>3. /\ FilePut[f] \o t = StrPut[f.name] \o (StrPut[a] \o t)
        /\ FilePut[g] \o u = StrPut[g.name] \o (StrPut[b] \o u)
    <3>1. (StrPut[f.name] \o StrPut[a]) \o t = StrPut[f.name] \o (StrPut[a] \o t)
      BY <2>2, Associative, Zenon
    <3>2. (StrPut[g.name] \o StrPut[b]) \o u = StrPut[g.name] \o (StrPut[b] \o u)
      BY <2>2, Associative, Zenon
    <3> QED
      BY <2>1, <3>1, <3>2
  <2>4. StrPut[a] \o t \in Bytes /\ StrPut[b] \o u \in Bytes
    BY <2>2, Joined
  <2>5. Apart(StrPut, f.name, g.name, StrPut[a] \o t, StrPut[b] \o u)
    BY <1>0, <2>1, <2>4 DEF PrefixCode
  <2>6. f.name = g.name /\ StrPut[a] \o t = StrPut[b] \o u
    BY <1>2, <2>3, <2>5 DEF Apart
  <2>7. Apart(StrPut, a, b, t, u)
    BY <1>0, <2>1 DEF PrefixCode
  <2>8. a = b /\ t = u
    BY <2>6, <2>7 DEF Apart
  <2>9. f.stamp = g.stamp /\ f.json = g.json
    <3>1. f.stamp \o f.json = g.stamp \o g.json
      BY <2>8 DEF a, b
    <3>2. /\ f.stamp \in Bytes /\ f.json \in Bytes /\ g.stamp \in Bytes /\ g.json \in Bytes
          /\ Len(f.stamp) = Len(g.stamp)
      BY FileBytes
    <3> QED
      BY <3>1, <3>2, SameParts
  <2>10. f.unread = g.unread
    BY DEF WholeFile
  <2>11. f = g
    BY <2>6, <2>9, <2>10 DEF WholeFile, ConfigFile
  <2> QED
    BY <2>8, <2>11
<1>3. ASSUME NEW f \in WholeFile PROVE FilePut[f] # <<>>
  <2> DEFINE a == f.stamp \o f.json
  <2>1. f.name \in Str /\ a \in Str /\ FilePut[f] = StrPut[f.name] \o StrPut[a]
    BY FileBytes DEF FilePut
  <2>2. StrPut[f.name] \in Bytes /\ StrPut[a] \in Bytes /\ StrPut[f.name] # <<>>
    BY <1>0, <2>1, StrTakesBytes DEF PrefixCode, TakesBytes
  <2> HIDE DEF a
  <2> QED
    BY <2>1, <2>2, NotEmpty
<1> QED
  BY <1>1, <1>2, <1>3 DEF PrefixCode, Apart, TakesBytes

\* Whole configurations hash alike only if they are the same.
LEMMA EveryConfigToldApart ==
  ASSUME NEW files \in Seq(ConfigFile), NEW others \in SUBSET Seq(ConfigFile)
  PROVE ConfigsToldApart(files, others)
<1>1. ASSUME NEW f \in Seq(ConfigFile), WholeFiles(f)
      PROVE f \in Seq(WholeFile) /\ ConfigStream(f) = Written(FilePut, f)
  <2>1. DOMAIN f = 1..Len(f) /\ Len(f) \in Nat /\ \A i \in 1..Len(f) : f[i] \in ConfigFile
    BY LenProperties, ElementOfSeq
  <2>2. \A i \in DOMAIN f : f[i] \in WholeFile
    BY <1>1, <2>1 DEF WholeFiles, WholeFile
  <2>3. f \in [1..Len(f) -> WholeFile]
    BY <2>1, <2>2, SeqDef
  <2>4. f \in Seq(WholeFile)
    BY <2>1, <2>3, FunctionIsSeq
  <2>5. [i \in DOMAIN f |-> ConfigFileStream(f[i])] = [i \in DOMAIN f |-> FilePut[f[i]]]
    BY <2>2 DEF FilePut
  <2> QED
    BY <2>4, <2>5 DEF ConfigStream, PutAll, Written
<1>2. ASSUME WholeFiles(files), NEW g \in others, WholeFiles(g), ConfigStream(files) = ConfigStream(g)
      PROVE files = g
  <2>1. /\ files \in Seq(WholeFile) /\ g \in Seq(WholeFile)
        /\ Written(FilePut, files) = Written(FilePut, g)
    BY <1>1, <1>2
  <2> QED
    BY <2>1, FilePrefix, WrittenAlike
<1> QED
  BY <1>2 DEF ConfigsToldApart

-----------------------------------------------------------------------------
(* The order of strings *)

\* One position at which s comes before t.
LowerAt(s, t, i) ==
  /\ i \in DOMAIN t
  /\ i \in DOMAIN s => s[i] < t[i]
  /\ \A j \in 1..i - 1 : j \in DOMAIN s /\ s[j] = t[j]

\* The positions of a string are the first numbers.
LEMMA StrIndex ==
  ASSUME NEW s \in Str
  PROVE /\ s \in Bytes /\ Len(s) \in Nat /\ DOMAIN s = 1..Len(s)
        /\ \A i \in DOMAIN s : s[i] \in Int
  <1>1. s \in Bytes
    BY DEF Str, ListOf, Bytes
  <1>2. Len(s) \in Nat /\ DOMAIN s = 1..Len(s) /\ \A i \in 1..Len(s) : s[i] \in Byte
    BY <1>1, LenProperties, ElementOfSeq DEF Bytes
  <1> QED
    BY <1>1, <1>2 DEF Byte

\* Before, by the position that decides.
LEMMA BeforeAt ==
  ASSUME NEW s, NEW t
  PROVE Before(s, t) <=> \E i \in DOMAIN t : LowerAt(s, t, i)
  BY DEF Before, LowerAt

\* No string comes before itself.
LEMMA NotBeforeItself == ASSUME NEW s \in Str PROVE ~Before(s, s)
  BY StrIndex DEF Before

\* Strings before a string come before those that it comes before.
LEMMA BeforeTransitive ==
  ASSUME NEW s \in Str, NEW t \in Str, NEW u \in Str, Before(s, t), Before(t, u)
  PROVE Before(s, u)
<1>1. PICK i \in DOMAIN t : LowerAt(s, t, i)
  BY BeforeAt
<1>2. PICK k \in DOMAIN u : LowerAt(t, u, k)
  BY BeforeAt
<1>3. /\ Len(s) \in Nat /\ DOMAIN s = 1..Len(s) /\ \A j \in DOMAIN s : s[j] \in Int
      /\ Len(t) \in Nat /\ DOMAIN t = 1..Len(t) /\ \A j \in DOMAIN t : t[j] \in Int
      /\ Len(u) \in Nat /\ DOMAIN u = 1..Len(u) /\ \A j \in DOMAIN u : u[j] \in Int
  BY StrIndex
<1>4. /\ i \in DOMAIN s => s[i] < t[i]
      /\ \A j \in 1..i - 1 : j \in DOMAIN s /\ s[j] = t[j]
  BY <1>1 DEF LowerAt
<1>5. /\ k \in DOMAIN t => t[k] < u[k]
      /\ \A j \in 1..k - 1 : j \in DOMAIN t /\ t[j] = u[j]
  BY <1>2 DEF LowerAt
<1>6. CASE i < k
  <2>1. i \in DOMAIN u /\ i \in 1..k - 1 /\ \A j \in 1..i - 1 : j \in 1..k - 1
    BY <1>3, <1>6
  <2>2. LowerAt(s, u, i)
    BY <1>4, <1>5, <2>1 DEF LowerAt
  <2> QED
    BY <2>1, <2>2, BeforeAt
<1>7. CASE i = k
  <2>1. i \in DOMAIN s => s[i] < u[i]
    BY <1>3, <1>4, <1>5, <1>7
  <2>2. LowerAt(s, u, i)
    BY <1>4, <1>5, <1>7, <2>1 DEF LowerAt
  <2> QED
    BY <1>7, <2>2, BeforeAt
<1>8. CASE k < i
  <2>1. k \in DOMAIN t /\ k \in 1..i - 1 /\ \A j \in 1..k - 1 : j \in 1..i - 1
    BY <1>3, <1>8
  <2>2. LowerAt(s, u, k)
    BY <1>4, <1>5, <2>1 DEF LowerAt
  <2> QED
    BY <2>2, BeforeAt
<1> QED
  BY <1>3, <1>6, <1>7, <1>8

\* Of two strings, one comes before the other.
LEMMA OneIsBefore ==
  ASSUME NEW s \in Str, NEW t \in Str, s # t
  PROVE Before(s, t) \/ Before(t, s)
<1> DEFINE D == {i \in Nat : (i \in DOMAIN s \/ i \in DOMAIN t)
                              /\ ~(i \in DOMAIN s /\ i \in DOMAIN t /\ s[i] = t[i])}
<1>1. /\ s \in Bytes /\ Len(s) \in Nat /\ DOMAIN s = 1..Len(s) /\ \A j \in DOMAIN s : s[j] \in Int
      /\ t \in Bytes /\ Len(t) \in Nat /\ DOMAIN t = 1..Len(t) /\ \A j \in DOMAIN t : t[j] \in Int
  BY StrIndex
<1>2. D # {}
  <2>1. SUFFICES ASSUME D = {} PROVE FALSE
    OBVIOUS
  <2>2. \A i \in Nat : i \in DOMAIN s \/ i \in DOMAIN t => i \in DOMAIN s /\ i \in DOMAIN t /\ s[i] = t[i]
    BY <2>1
  <2>3. \A i \in 1..Len(s) : i \in 1..Len(t) /\ s[i] = t[i]
    BY <1>1, <2>2
  <2>4. \A i \in 1..Len(t) : i \in 1..Len(s)
    BY <1>1, <2>2
  <2>5. Len(s) = Len(t)
    <3>1. ~(Len(s) < Len(t))
      <4>1. SUFFICES ASSUME Len(s) < Len(t) PROVE FALSE
        OBVIOUS
      <4>2. Len(t) \in 1..Len(t)
        BY <1>1, <4>1
      <4>3. Len(t) \in 1..Len(s)
        BY <2>4, <4>2
      <4> QED
        BY <1>1, <4>1, <4>3
    <3>2. ~(Len(t) < Len(s))
      <4>1. SUFFICES ASSUME Len(t) < Len(s) PROVE FALSE
        OBVIOUS
      <4>2. Len(s) \in 1..Len(s)
        BY <1>1, <4>1
      <4>3. Len(s) \in 1..Len(t)
        BY <2>3, <4>2
      <4> QED
        BY <1>1, <4>1, <4>3
    <3> DEFINE m == Len(s)
               n == Len(t)
    <3>3. m \in Nat /\ n \in Nat /\ ~(m < n) /\ ~(n < m)
      BY <1>1, <3>1, <3>2
    <3> HIDE DEF m, n
    <3>4. m = n
      BY <3>3
    <3> QED
      BY <3>4 DEF m, n
  <2>6. s = t
    BY <1>1, <2>3, <2>5, SeqEqual DEF Bytes
  <2> QED
    BY <2>6
<1>3. PICK i \in D : \A m \in D : i <= m
  <2>1. D \in SUBSET Nat
    OBVIOUS
  <2> HIDE DEF D
  <2> QED
    BY <1>2, <2>1, LeastNumber, Zenon
<1>4. \A j \in 1..i - 1 : j \in DOMAIN s /\ j \in DOMAIN t /\ s[j] = t[j]
  <2> SUFFICES ASSUME NEW j \in 1..i - 1 PROVE j \in DOMAIN s /\ j \in DOMAIN t /\ s[j] = t[j]
    OBVIOUS
  <2>1. i \in Nat /\ j \in Nat /\ ~(i <= j)
    OBVIOUS
  <2>2. j \notin D
    BY <1>3, <2>1
  <2>3. j \in DOMAIN s \/ j \in DOMAIN t
    BY <1>1, <2>1
  <2> QED
    BY <2>1, <2>2, <2>3
<1>5. CASE i \in DOMAIN t /\ (i \in DOMAIN s => s[i] < t[i])
  <2>1. LowerAt(s, t, i)
    BY <1>4, <1>5 DEF LowerAt
  <2> QED
    BY <1>5, <2>1, BeforeAt
<1>6. CASE ~(i \in DOMAIN t /\ (i \in DOMAIN s => s[i] < t[i]))
  <2>1. i \in DOMAIN s /\ (i \in DOMAIN t => t[i] < s[i])
    BY <1>1, <1>6
  <2>2. LowerAt(t, s, i)
    BY <1>4, <2>1 DEF LowerAt
  <2> QED
    BY <2>1, <2>2, BeforeAt
<1> QED
  BY <1>5, <1>6

-----------------------------------------------------------------------------
(* Sorting *)

\* How many the numbers up to n are.
LEMMA FirstNumbers == ASSUME NEW n \in Nat PROVE IsFiniteSet(1..n) /\ Cardinality(1..n) = n
<1>1. IsFiniteSet(1..n) /\ Cardinality(1..n) = IF 1 > n THEN 0 ELSE n - 1 + 1
  BY FS_Interval
<1> QED
  BY <1>1

Rank(s, i) == Cardinality(UpTo(s, i))

\* Elements are in order up to themselves, and the later of two has the other
\* and more before it.
LEMMA RankGrows ==
  ASSUME NEW s \in Seq(Str), NEW i \in DOMAIN s
  PROVE /\ i \in UpTo(s, i) /\ IsFiniteSet(UpTo(s, i)) /\ Rank(s, i) \in 1..Len(s)
        /\ \A j \in DOMAIN s : j # i => i \in UpTo(s, j) \/ j \in UpTo(s, i)
        /\ \A j \in UpTo(s, i) : j # i => Rank(s, j) < Rank(s, i)
<1>1. Len(s) \in Nat /\ DOMAIN s = 1..Len(s) /\ \A j \in DOMAIN s : s[j] \in Str
  BY LenProperties, ElementOfSeq
<1>2. IsFiniteSet(DOMAIN s) /\ Cardinality(DOMAIN s) = Len(s)
  BY <1>1, FirstNumbers
<1>3. i \in UpTo(s, i)
  BY <1>1 DEF UpTo
<1>4. ASSUME NEW j \in DOMAIN s
      PROVE /\ IsFiniteSet(UpTo(s, j)) /\ Rank(s, j) \in Nat /\ Rank(s, j) <= Len(s)
  <2>1. UpTo(s, j) \in SUBSET DOMAIN s
    BY DEF UpTo
  <2> QED
    BY <1>2, <2>1, FS_Subset, FS_CardinalityType DEF Rank
<1>5. Rank(s, i) \in 1..Len(s)
  <2>1. Rank(s, i) # 0
    BY <1>3, <1>4, FS_EmptySet DEF Rank
  <2> QED
    BY <1>1, <1>4, <2>1
<1>6. ASSUME NEW j \in DOMAIN s, j # i PROVE i \in UpTo(s, j) \/ j \in UpTo(s, i)
  <2>1. CASE s[i] = s[j]
    BY <1>1, <2>1 DEF UpTo
  <2>2. CASE s[i] # s[j]
    BY <1>1, <2>2, OneIsBefore DEF UpTo
  <2> QED
    BY <2>1, <2>2
<1>7. ASSUME NEW j \in UpTo(s, i), j # i PROVE Rank(s, j) < Rank(s, i)
  <2>1. j \in DOMAIN s /\ (Before(s[j], s[i]) \/ (s[j] = s[i] /\ j < i))
    BY <1>1, <1>7 DEF UpTo
  <2>2. UpTo(s, j) \in SUBSET UpTo(s, i)
    <3> SUFFICES ASSUME NEW k \in UpTo(s, j) PROVE k \in UpTo(s, i)
      OBVIOUS
    <3>1. k \in DOMAIN s /\ (Before(s[k], s[j]) \/ (s[k] = s[j] /\ k <= j))
      BY DEF UpTo
    <3>2. s[i] \in Str /\ s[j] \in Str /\ s[k] \in Str /\ i \in Int /\ j \in Int /\ k \in Int
      BY <1>1, <2>1, <3>1
    <3>3. CASE Before(s[k], s[j]) /\ Before(s[j], s[i])
      BY <3>1, <3>2, <3>3, BeforeTransitive DEF UpTo
    <3>4. CASE ~(Before(s[k], s[j]) /\ Before(s[j], s[i]))
      BY <2>1, <3>1, <3>2, <3>4 DEF UpTo
    <3> QED
      BY <3>3, <3>4
  <2>3. i \notin UpTo(s, j)
    <3>1. SUFFICES ASSUME i \in UpTo(s, j) PROVE FALSE
      OBVIOUS
    <3>2. Before(s[i], s[j]) \/ (s[i] = s[j] /\ i <= j)
      BY <3>1 DEF UpTo
    <3>3. s[i] \in Str /\ s[j] \in Str /\ i \in Int /\ j \in Int
      BY <1>1, <2>1
    <3>4. CASE Before(s[j], s[i])
      <4>1. ~Before(s[i], s[j])
        BY <3>3, <3>4, BeforeTransitive, NotBeforeItself
      <4>2. s[i] # s[j]
        BY <3>3, <3>4, NotBeforeItself
      <4> QED
        BY <3>2, <4>1, <4>2
    <3>5. CASE s[j] = s[i] /\ j < i
      BY <3>2, <3>3, <3>5, NotBeforeItself
    <3> QED
      BY <2>1, <3>4, <3>5
  <2>4. UpTo(s, j) # UpTo(s, i)
    BY <1>3, <2>3
  <2>5. Rank(s, j) <= Rank(s, i) /\ Rank(s, j) # Rank(s, i)
    BY <1>4, <2>2, <2>4, FS_Subset DEF Rank
  <2> QED
    BY <1>4, <2>1, <2>5
<1> QED
  BY <1>3, <1>4, <1>5, <1>6, <1>7

\* Every position is the rank of one element, which InOrder finds.
LEMMA InOrderInverts ==
  ASSUME NEW s \in Seq(Str)
  PROVE /\ \A i \in DOMAIN s : Rank(s, i) \in DOMAIN s /\ InOrder(s)[Rank(s, i)] = i
        /\ \A n \in DOMAIN s : InOrder(s)[n] \in DOMAIN s /\ Rank(s, InOrder(s)[n]) = n
<1> DEFINE R == [i \in DOMAIN s |-> Rank(s, i)]
<1>1. Len(s) \in Nat /\ DOMAIN s = 1..Len(s)
  BY LenProperties
<1>2. R \in [DOMAIN s -> DOMAIN s]
  BY <1>1, RankGrows
<1>3. ASSUME NEW i \in DOMAIN s, NEW j \in DOMAIN s, Rank(s, i) = Rank(s, j) PROVE i = j
  <2>1. SUFFICES ASSUME i # j PROVE FALSE
    OBVIOUS
  <2>2. Rank(s, i) \in Nat /\ Rank(s, j) \in Nat
    BY <1>1, <1>2
  <2>3. i \in UpTo(s, j) \/ j \in UpTo(s, i)
    BY <2>1, RankGrows
  <2>4. Rank(s, i) < Rank(s, j) \/ Rank(s, j) < Rank(s, i)
    BY <2>1, <2>3, RankGrows
  <2> QED
    BY <1>3, <2>2, <2>4
<1>4. R \in Injection(DOMAIN s, DOMAIN s)
  <2>1. \A i, j \in DOMAIN s : R[i] = R[j] => i = j
    BY <1>3
  <2> HIDE DEF R
  <2> QED
    BY <1>2, <2>1, Fun_IsInj
<1>5. \A n \in DOMAIN s : \E i \in DOMAIN s : R[i] = n
  <2>1. IsFiniteSet(DOMAIN s)
    BY <1>1, FS_Interval
  <2> HIDE DEF R
  <2>2. R \in Surjection(DOMAIN s, DOMAIN s)
    BY <1>4, <2>1, FS_Injection
  <2> QED
    BY <2>2, Fun_SurjectionProperties
<1>6. ASSUME NEW n \in DOMAIN s
      PROVE InOrder(s)[n] \in DOMAIN s /\ Rank(s, InOrder(s)[n]) = n
  <2>1. \E i \in DOMAIN s : Cardinality(UpTo(s, i)) = n
    BY <1>5 DEF Rank
  <2>2. InOrder(s)[n] = CHOOSE i \in DOMAIN s : Cardinality(UpTo(s, i)) = n
    BY DEF InOrder
  <2> QED
    BY <2>1, <2>2 DEF Rank
<1>7. ASSUME NEW i \in DOMAIN s
      PROVE Rank(s, i) \in DOMAIN s /\ InOrder(s)[Rank(s, i)] = i
  <2>1. Rank(s, i) \in DOMAIN s
    BY <1>2
  <2>2. InOrder(s)[Rank(s, i)] \in DOMAIN s /\ Rank(s, InOrder(s)[Rank(s, i)]) = Rank(s, i)
    BY <1>6, <2>1
  <2> QED
    BY <1>3, <2>1, <2>2
<1> QED
  BY <1>6, <1>7

\* Sorted lists are as long, and hold the same elements.
LEMMA SortedType ==
  ASSUME NEW s \in Seq(Str)
  PROVE /\ SortedStrings(s) \in Seq(Str) /\ Len(SortedStrings(s)) = Len(s)
        /\ DOMAIN SortedStrings(s) = DOMAIN s
        /\ \A i \in DOMAIN s : s[i] = SortedStrings(s)[Rank(s, i)]
<1>1. Len(s) \in Nat /\ DOMAIN s = 1..Len(s) /\ \A j \in DOMAIN s : s[j] \in Str
  BY LenProperties, ElementOfSeq
<1>2. SortedStrings(s) \in [1..Len(s) -> Str]
  BY <1>1, InOrderInverts DEF SortedStrings
<1>3. SortedStrings(s) \in Seq(Str) /\ Len(SortedStrings(s)) = Len(s)
  BY <1>1, <1>2, FunctionIsSeq
<1>4. ASSUME NEW i \in DOMAIN s PROVE s[i] = SortedStrings(s)[Rank(s, i)]
  BY InOrderInverts DEF SortedStrings
<1> QED
  BY <1>1, <1>2, <1>3, <1>4

Matches(p, s, t) ==
  p \in Bijection(DOMAIN s, DOMAIN t) /\ \A i \in DOMAIN s : s[i] = t[p[i]]

\* Lists that match are as long, and match in the other direction too.
LEMMA MatchParts ==
  ASSUME NEW s \in Seq(Str), NEW t \in Seq(Str), NEW p, Matches(p, s, t)
  PROVE /\ Len(s) = Len(t) /\ DOMAIN s = DOMAIN t
        /\ p \in Injection(DOMAIN s, DOMAIN t) /\ p \in [DOMAIN s -> DOMAIN t]
        /\ \E q : Matches(q, t, s)
<1>1. /\ Len(s) \in Nat /\ DOMAIN s = 1..Len(s)
      /\ Len(t) \in Nat /\ DOMAIN t = 1..Len(t)
  BY LenProperties
<1>2. p \in Bijection(DOMAIN s, DOMAIN t)
  BY DEF Matches
<1>3. IsFiniteSet(1..Len(s)) /\ Cardinality(1..Len(s)) = Len(s)
  BY <1>1, FirstNumbers
<1>4. IsFiniteSet(1..Len(t)) /\ Cardinality(1..Len(t)) = Len(t)
  BY <1>1, FirstNumbers
<1>5. Len(s) = Len(t)
  <2>1. ExistsBijection(DOMAIN s, DOMAIN t)
    BY <1>2 DEF ExistsBijection
  <2>2. Cardinality(DOMAIN t) = Cardinality(DOMAIN s)
    BY <1>1, <1>3, <2>1, FS_Bijection
  <2> QED
    BY <1>1, <1>3, <1>4, <2>2
<1>6. \E q : Matches(q, t, s)
  <2> DEFINE q == Inverse(p, DOMAIN s, DOMAIN t)
  <2>1. q \in Bijection(DOMAIN t, DOMAIN s) /\ \A i \in DOMAIN s : q[p[i]] = i
    BY <1>2, Fun_BijInverse
  <2> HIDE DEF q
  <2>2. ASSUME NEW k \in DOMAIN t PROVE t[k] = s[q[k]]
    <3>1. PICK i \in DOMAIN s : p[i] = k
      BY <1>2, Fun_BijectionProperties
    <3> QED
      BY <2>1, <3>1 DEF Matches
  <2>3. Matches(q, t, s)
    BY <2>1, <2>2 DEF Matches
  <2> QED
    BY <2>3
<1> QED
  BY <1>1, <1>2, <1>5, <1>6, Fun_BijectionProperties

\* Of matching lists, the string at a place of the one in order does not come
\* before that of the other: what comes up to it in the first would match into
\* what comes strictly before it in the second, which is less.
LEMMA NoLower ==
  ASSUME NEW s \in Seq(Str), NEW t \in Seq(Str), NEW p, Matches(p, s, t), NEW n \in DOMAIN s
  PROVE ~Before(SortedStrings(s)[n], SortedStrings(t)[n])
<1>1. /\ DOMAIN s = DOMAIN t /\ p \in Injection(DOMAIN s, DOMAIN t)
      /\ p \in [DOMAIN s -> DOMAIN t] /\ \A j \in DOMAIN s : s[j] = t[p[j]]
  BY MatchParts DEF Matches
<1> DEFINE i == InOrder(s)[n]
           k == InOrder(t)[n]
<1>2. i \in DOMAIN s /\ Rank(s, i) = n /\ k \in DOMAIN t /\ Rank(t, k) = n
  BY <1>1, InOrderInverts
<1>3. SortedStrings(s)[n] = s[i] /\ SortedStrings(t)[n] = t[k]
  BY <1>1 DEF SortedStrings
<1> HIDE DEF i, k
<1>4. SUFFICES ASSUME Before(s[i], t[k]) PROVE FALSE
  BY <1>3
<1>5. /\ \A j \in DOMAIN s : s[j] \in Str
      /\ \A j \in DOMAIN t : t[j] \in Str
  BY LenProperties, ElementOfSeq
<1> DEFINE A == UpTo(s, i)
           B == UpTo(t, k) \ {k}
           f == [j \in A |-> p[j]]
<1>6. A \in SUBSET DOMAIN s
  BY DEF UpTo
<1>7. ASSUME NEW j \in A PROVE p[j] \in B
  <2>1. j \in DOMAIN s /\ (Before(s[j], s[i]) \/ s[j] = s[i])
    BY <1>7 DEF UpTo
  <2>2. s[j] \in Str /\ s[i] \in Str /\ t[k] \in Str
    BY <1>2, <1>5, <2>1
  <2>3. Before(s[j], t[k])
    BY <1>4, <2>1, <2>2, BeforeTransitive
  <2>4. p[j] \in DOMAIN t /\ Before(t[p[j]], t[k])
    BY <1>1, <2>1, <2>3
  <2>5. p[j] # k
    BY <2>2, <2>4, NotBeforeItself
  <2> QED
    BY <2>4, <2>5 DEF UpTo
<1>8. f \in Injection(A, B)
  <2>1. f \in [A -> B]
    BY <1>7
  <2>2. \A a, b \in A : f[a] = f[b] => a = b
    <3>1. \A a, b \in DOMAIN s : p[a] = p[b] => a = b
      BY <1>1 DEF Injection, IsInjective
    <3> QED
      BY <1>6, <3>1
  <2> HIDE DEF f, A, B
  <2> QED
    BY <2>1, <2>2, Fun_IsInj
<1>9. /\ IsFiniteSet(UpTo(t, k)) /\ k \in UpTo(t, k) /\ Cardinality(UpTo(t, k)) = n
      /\ Cardinality(A) = n
  BY <1>2, RankGrows DEF Rank
<1>10. IsFiniteSet(B) /\ Cardinality(B) = n - 1
  BY <1>9, FS_RemoveElement
<1> HIDE DEF f, A, B
<1>11. Cardinality(A) <= Cardinality(B)
  BY <1>8, <1>10, FS_Injection
<1>12. n \in Int
  BY LenProperties
<1> QED
  BY <1>9, <1>10, <1>11, <1>12

\* Each element of the one goes with the element of the other that has its
\* place in order.
Aligned(s, t) == [i \in DOMAIN s |-> InOrder(t)[Rank(s, i)]]

\* Lists of one length are aligned one to one.
LEMMA AlignedBijection ==
  ASSUME NEW s \in Seq(Str), NEW t \in Seq(Str), Len(s) = Len(t)
  PROVE /\ DOMAIN s = DOMAIN t
        /\ Aligned(s, t) \in Bijection(DOMAIN s, DOMAIN t)
<1>1. DOMAIN s = DOMAIN t
  BY LenProperties
<1> DEFINE D == DOMAIN s
           p == Aligned(s, t)
<1>2. /\ \A i \in D : Rank(s, i) \in D /\ InOrder(s)[Rank(s, i)] = i
      /\ \A n \in D : InOrder(s)[n] \in D /\ Rank(s, InOrder(s)[n]) = n
      /\ \A i \in D : Rank(t, i) \in D /\ InOrder(t)[Rank(t, i)] = i
      /\ \A n \in D : InOrder(t)[n] \in D /\ Rank(t, InOrder(t)[n]) = n
  BY <1>1, InOrderInverts
<1>3. \A i \in D : p[i] = InOrder(t)[Rank(s, i)]
  BY DEF Aligned
<1>4. p \in [D -> D]
  BY <1>2 DEF Aligned
<1> HIDE DEF p
<1>5. \A a, b \in D : p[a] = p[b] => a = b
  <2> SUFFICES ASSUME NEW a \in D, NEW b \in D, p[a] = p[b] PROVE a = b
    OBVIOUS
  <2>1. Rank(s, a) = Rank(s, b)
    BY <1>2, <1>3
  <2> QED
    BY <1>2, <2>1
<1>6. \A k \in D : \E i \in D : p[i] = k
  <2> SUFFICES ASSUME NEW k \in D PROVE \E i \in D : p[i] = k
    OBVIOUS
  <2> DEFINE i == InOrder(s)[Rank(t, k)]
  <2>1. i \in D /\ Rank(s, i) = Rank(t, k)
    BY <1>2
  <2>2. p[i] = k
    BY <1>2, <1>3, <2>1
  <2> QED
    BY <2>1, <2>2
<1> HIDE DEF D
<1>7. p \in Bijection(D, D)
  BY <1>4, <1>5, <1>6, Fun_IsBij
<1> QED
  BY <1>1, <1>7 DEF D, p

\* Lists are the same in some order exactly if they are the same once sorted.
LEMMA SortedAlike ==
  ASSUME NEW s \in Seq(Str), NEW t \in Seq(Str)
  PROVE SameStrings(s, t) <=> SortedStrings(s) = SortedStrings(t)
<1>1. /\ SortedStrings(s) \in Seq(Str) /\ SortedStrings(t) \in Seq(Str)
      /\ Len(SortedStrings(s)) = Len(s) /\ Len(SortedStrings(t)) = Len(t)
      /\ DOMAIN SortedStrings(s) = DOMAIN s /\ DOMAIN SortedStrings(t) = DOMAIN t
  BY SortedType
<1>2. ASSUME SameStrings(s, t) PROVE SortedStrings(s) = SortedStrings(t)
  <2>1. PICK p : Matches(p, s, t)
    BY <1>2 DEF SameStrings, Matches
  <2>2. Len(s) = Len(t) /\ DOMAIN s = DOMAIN t
    BY <2>1, MatchParts
  <2>3. PICK q : Matches(q, t, s)
    BY <2>1, MatchParts
  <2>4. ASSUME NEW n \in DOMAIN s PROVE SortedStrings(s)[n] = SortedStrings(t)[n]
    <3>1. ~Before(SortedStrings(s)[n], SortedStrings(t)[n])
      BY <2>1, NoLower
    <3>2. ~Before(SortedStrings(t)[n], SortedStrings(s)[n])
      BY <2>2, <2>3, NoLower
    <3>3. SortedStrings(s)[n] \in Str /\ SortedStrings(t)[n] \in Str
      <4>1. \A u \in Seq(Str) : \A m \in DOMAIN u : u[m] \in Str
        BY LenProperties, ElementOfSeq
      <4> QED
        BY <1>1, <2>2, <4>1
    <3> QED
      BY <3>1, <3>2, <3>3, OneIsBefore
  <2> QED
    BY <1>1, <2>2, <2>4, LenProperties, SeqEqual
<1>3. ASSUME SortedStrings(s) = SortedStrings(t) PROVE SameStrings(s, t)
  <2>1. Len(s) = Len(t)
    BY <1>1, <1>3
  <2>2. DOMAIN s = DOMAIN t /\ Aligned(s, t) \in Bijection(DOMAIN s, DOMAIN t)
    BY <2>1, AlignedBijection
  <2>3. ASSUME NEW i \in DOMAIN s PROVE s[i] = t[Aligned(s, t)[i]]
    <3>1. s[i] = SortedStrings(t)[Rank(s, i)]
      BY <1>3, SortedType
    <3>2. Rank(s, i) \in DOMAIN t
      BY <2>2, InOrderInverts
    <3>3. SortedStrings(t)[Rank(s, i)] = t[InOrder(t)[Rank(s, i)]]
      BY <3>2 DEF SortedStrings
    <3> QED
      BY <3>1, <3>3 DEF Aligned
  <2> QED
    BY <2>2, <2>3 DEF SameStrings
<1> QED
  BY <1>2, <1>3

-----------------------------------------------------------------------------
(* Fields *)

\* A field with its keywords in order: what is hashed of it.
Normal(f) ==
  [name |-> f.name, kind |-> f.kind,
   value |-> IF f.kind = KeywordObj THEN SortedStrings(f.value) ELSE f.value]

\* Fields are the same exactly if they are with their keywords in order.
LEMMA NormalField ==
  ASSUME NEW f \in CachedField, NEW g \in CachedField
  PROVE Normal(f) \in CachedField /\ (Normal(f) = Normal(g) <=> SameField(f, g))
<1>1. /\ f.kind \in Kinds /\ f.name \in Str /\ f.value \in ValueOf[f.kind]
      /\ g.kind \in Kinds /\ g.name \in Str /\ g.value \in ValueOf[g.kind]
  BY FieldParts
<1>2. ValueOf[KeywordObj] = ListOf(Str) /\ KeywordObj \in Kinds
  BY KindNumbers DEF ValueOf
<1>3. ASSUME NEW s \in ListOf(Str) PROVE s \in Seq(Str) /\ SortedStrings(s) \in ListOf(Str)
  <2>1. s \in Seq(Str) /\ Len(s) \in U32
    BY DEF ListOf
  <2> QED
    BY <2>1, SortedType DEF ListOf
<1>4. Normal(f).value \in ValueOf[f.kind]
  BY <1>1, <1>2, <1>3 DEF Normal
<1>5. Normal(f) \in CachedField
  <2>1. Normal(f) = [name |-> f.name, kind |-> f.kind, value |-> Normal(f).value]
    BY DEF Normal
  <2> QED
    BY <1>1, <1>4, <2>1, FieldParts
<1>6. Normal(f) = Normal(g)
        <=> f.name = g.name /\ f.kind = g.kind /\ Normal(f).value = Normal(g).value
  BY DEF Normal
<1>7. CASE f.kind = KeywordObj /\ g.kind = KeywordObj
  <2>1. f.value \in Seq(Str) /\ g.value \in Seq(Str)
    BY <1>1, <1>2, <1>3, <1>7
  <2>2. SameStrings(f.value, g.value) <=> SortedStrings(f.value) = SortedStrings(g.value)
    BY <2>1, SortedAlike
  <2>3. Normal(f).value = SortedStrings(f.value) /\ Normal(g).value = SortedStrings(g.value)
    BY <1>7 DEF Normal
  <2> QED
    BY <1>5, <1>6, <1>7, <2>2, <2>3 DEF SameField
<1>8. CASE f.kind = g.kind /\ f.kind # KeywordObj
  <2>1. Normal(f).value = f.value /\ Normal(g).value = g.value
    BY <1>8 DEF Normal
  <2> QED
    BY <1>5, <1>6, <1>8, <2>1 DEF SameField
<1>9. CASE f.kind # g.kind
  BY <1>5, <1>6, <1>9 DEF SameField
<1> QED
  BY <1>7, <1>8, <1>9

\* What is hashed of a value of each kind, its keywords in order.
HashedAs ==
  [k \in Kinds |-> [v \in ValueOf[k] |->
     CASE k = Number -> v
       [] k = Bool -> U32Put[IF v THEN 1 ELSE 0]
       [] k = String -> StrPut[v]
       [] k = KeywordObj -> StrsPut[v]
       [] OTHER -> <<>>]]
HashPut == [f \in CachedField |-> StrPut[f.name] \o (U32Put[f.kind] \o HashedAs[f.kind][f.value])]

\* The numbers that kinds and booleans need.
LEMMA SmallNumbers == 0 \in U32 /\ 1 \in U32 /\ Kinds \in SUBSET U32
  BY DEF U32, Kinds, Delete, KeywordObj

\* What is hashed of a value shows where it ends, given its kind.
LEMMA ValuePrefix == ASSUME NEW k \in Kinds PROVE PrefixCode(HashedAs[k], ValueOf[k])
<1>1. CASE k = Number
  <2>1. HashedAs[k] = TakePut(8) /\ ValueOf[k] = Block(8)
    BY <1>1, EightBytes, KindNumbers DEF HashedAs, ValueOf, TakePut
  <2>2. Codec(TakeGet(8), TakePut(8), Block(8))
    BY TakeCodec
  <2> QED
    BY <2>1, <2>2, CodecPrefix
<1>2. CASE k = Bool
  <2>1. HashedAs[k] = [v \in BOOLEAN |-> U32Put[IF v THEN 1 ELSE 0]] /\ ValueOf[k] = BOOLEAN
    BY <1>2, KindNumbers DEF HashedAs, ValueOf
  <2>2. PrefixCode(U32Put, U32)
    BY U32Codec, CodecPrefix
  <2> DEFINE put == [v \in BOOLEAN |-> U32Put[IF v THEN 1 ELSE 0]]
  <2>3. put \in [BOOLEAN -> Bytes]
    BY <2>2, SmallNumbers DEF PrefixCode
  <2>4. ASSUME NEW x \in BOOLEAN, NEW y \in BOOLEAN, NEW t \in Bytes, NEW u \in Bytes,
               put[x] \o t = put[y] \o u
        PROVE x = y /\ t = u
    <3> DEFINE m == IF x THEN 1 ELSE 0
               n == IF y THEN 1 ELSE 0
    <3>1. /\ m \in U32 /\ n \in U32 /\ (m = n => x = y)
          /\ U32Put[m] \o t = U32Put[n] \o u
      <4>1. m \in U32 /\ n \in U32
        BY SmallNumbers
      <4>2. m = n => x = y
        OBVIOUS
      <4>3. put[x] = U32Put[m] /\ put[y] = U32Put[n]
        OBVIOUS
      <4> HIDE DEF put, m, n
      <4> QED
        BY <2>4, <4>1, <4>2, <4>3
    <3> HIDE DEF m, n
    <3>2. Apart(U32Put, m, n, t, u)
      BY <2>2, <3>1 DEF PrefixCode
    <3> QED
      BY <3>1, <3>2 DEF Apart
  <2>5. PrefixCode(put, BOOLEAN)
    <3> HIDE DEF put
    <3> QED
      BY <2>3, <2>4 DEF PrefixCode, Apart
  <2> QED
    BY <2>1, <2>5
<1>3. CASE k = String
  <2>1. HashedAs[k] = [v \in Str |-> StrPut[v]] /\ ValueOf[k] = Str
    BY <1>3, KindNumbers DEF HashedAs, ValueOf
  <2>2. HashedAs[k] = StrPut
    BY <2>1 DEF StrPut
  <2> QED
    BY <2>1, <2>2, StrCodec, CodecPrefix
<1>4. CASE k = KeywordObj
  <2>1. HashedAs[k] = [v \in ListOf(Str) |-> StrsPut[v]] /\ ValueOf[k] = ListOf(Str)
    BY <1>4, KindNumbers DEF HashedAs, ValueOf
  <2>2. HashedAs[k] = StrsPut
    BY <2>1 DEF StrsPut, CountedPut
  <2> QED
    BY <2>1, <2>2, StrsCodec, CodecPrefix
<1>5. CASE k = Delete \/ k = Null
  <2>1. HashedAs[k] = EmptyPut /\ ValueOf[k] = {<<>>}
    BY <1>5, KindNumbers DEF HashedAs, ValueOf, EmptyPut
  <2> QED
    BY <2>1, EmptyCodec, CodecPrefix
<1> QED
  BY <1>1, <1>2, <1>3, <1>4, <1>5, KindNumbers

Regroups(a, b, c, t) ==
  /\ c \o t \in Bytes /\ b \o (c \o t) \in Bytes
  /\ (a \o (b \o c)) \o t = a \o (b \o (c \o t))

\* Four parts may be joined from the left or from the right.
LEMMA Regrouped ==
  ASSUME NEW a \in Bytes, NEW b \in Bytes, NEW c \in Bytes, NEW t \in Bytes
  PROVE Regroups(a, b, c, t)
<1>1. b \o c \in Bytes /\ c \o t \in Bytes
  BY Joined
<1>2. b \o (c \o t) \in Bytes
  BY <1>1, Joined
<1>3. (b \o c) \o t = b \o (c \o t)
  BY Associative, Zenon
<1> DEFINE d == b \o c
<1>4. (a \o d) \o t = a \o (d \o t)
  <2>1. d \in Bytes
    BY <1>1
  <2> HIDE DEF d
  <2> QED
    BY <2>1, Associative, Zenon
<1> QED
  BY <1>1, <1>2, <1>3, <1>4 DEF Regroups

\* What is hashed of a field shows where it ends.
LEMMA HashPrefix == PrefixCode(HashPut, CachedField) /\ TakesBytes(HashPut, CachedField)
<1>1. PrefixCode(StrPut, Str) /\ PrefixCode(U32Put, U32)
  BY StrCodec, U32Codec, CodecPrefix
<1>2. ASSUME NEW f \in CachedField
      PROVE /\ f.name \in Str /\ f.kind \in Kinds /\ f.kind \in U32 /\ f.value \in ValueOf[f.kind]
            /\ StrPut[f.name] \in Bytes /\ U32Put[f.kind] \in Bytes
            /\ HashedAs[f.kind][f.value] \in Bytes
            /\ StrPut[f.name] # <<>>
  <2>1. f.kind \in Kinds /\ f.name \in Str /\ f.value \in ValueOf[f.kind]
    BY FieldParts
  <2>2. PrefixCode(HashedAs[f.kind], ValueOf[f.kind])
    BY <2>1, ValuePrefix
  <2> QED
    BY <1>1, <2>1, <2>2, SmallNumbers, StrTakesBytes DEF PrefixCode, TakesBytes
<1>3. ASSUME NEW f \in CachedField PROVE HashPut[f] \in Bytes /\ HashPut[f] # <<>>
  <2> DEFINE a == StrPut[f.name]
             k == U32Put[f.kind]
             v == HashedAs[f.kind][f.value]
  <2>1. a \in Bytes /\ k \in Bytes /\ v \in Bytes /\ a # <<>> /\ HashPut[f] = a \o (k \o v)
    BY <1>2 DEF HashPut
  <2> HIDE DEF a, k, v
  <2>2. k \o v \in Bytes
    BY <2>1, Joined
  <2> QED
    BY <2>1, <2>2, Joined, NotEmpty
<1>4. ASSUME NEW f \in CachedField, NEW g \in CachedField, NEW t \in Bytes, NEW u \in Bytes,
             HashPut[f] \o t = HashPut[g] \o u
      PROVE f = g /\ t = u
  <2> DEFINE a == StrPut[f.name]
             k == U32Put[f.kind]
             v == HashedAs[f.kind][f.value]
             b == StrPut[g.name]
             l == U32Put[g.kind]
             w == HashedAs[g.kind][g.value]
  <2>1. /\ a \in Bytes /\ k \in Bytes /\ v \in Bytes
        /\ b \in Bytes /\ l \in Bytes /\ w \in Bytes
    BY <1>2
  <2>0. (a \o (k \o v)) \o t = (b \o (l \o w)) \o u
    BY <1>4 DEF HashPut
  <2>2. /\ v \o t \in Bytes /\ w \o u \in Bytes
        /\ k \o (v \o t) \in Bytes /\ l \o (w \o u) \in Bytes
        /\ a \o (k \o (v \o t)) = b \o (l \o (w \o u))
    <3> HIDE DEF a, b, k, l, v, w
    <3>1. Regroups(a, k, v, t) /\ Regroups(b, l, w, u)
      BY <2>1, Regrouped
    <3> QED
      BY <2>0, <3>1 DEF Regroups
  <2>3. f.name = g.name /\ k \o (v \o t) = l \o (w \o u)
    <3>1. Apart(StrPut, f.name, g.name, k \o (v \o t), l \o (w \o u))
      BY <1>1, <1>2, <2>2 DEF PrefixCode
    <3> QED
      BY <2>2, <3>1 DEF Apart
  <2>4. f.kind = g.kind /\ v \o t = w \o u
    <3>1. Apart(U32Put, f.kind, g.kind, v \o t, w \o u)
      BY <1>1, <1>2, <2>2 DEF PrefixCode
    <3> QED
      BY <2>3, <3>1 DEF Apart
  <2>5. f.value = g.value /\ t = u
    <3>1. PrefixCode(HashedAs[f.kind], ValueOf[f.kind])
      BY <1>2, ValuePrefix
    <3>2. Apart(HashedAs[f.kind], f.value, g.value, t, u)
      BY <1>2, <2>4, <3>1 DEF PrefixCode
    <3> QED
      BY <2>4, <3>2 DEF Apart
  <2>6. /\ f = [name |-> f.name, kind |-> f.kind, value |-> f.value]
        /\ g = [name |-> g.name, kind |-> g.kind, value |-> g.value]
    BY FieldParts
  <2> QED
    BY <2>3, <2>4, <2>5, <2>6
<1>5. HashPut \in [CachedField -> Bytes]
  BY <1>3 DEF HashPut
<1> QED
  BY <1>3, <1>4, <1>5 DEF PrefixCode, Apart, TakesBytes

\* HashedField hashes a field with its keywords in order.
LEMMA HashedNormal == ASSUME NEW f \in CachedField PROVE HashedField(f) = HashPut[Normal(f)]
<1>1. /\ f.kind \in Kinds /\ f.name \in Str /\ f.value \in ValueOf[f.kind]
      /\ Normal(f) \in CachedField
  BY FieldParts, NormalField
<1> DEFINE n == Normal(f)
<1>2. n.name = f.name /\ n.kind = f.kind /\ n.value \in ValueOf[f.kind]
  <2>1. n.name = f.name /\ n.kind = f.kind
    BY DEF Normal
  <2> QED
    BY <1>1, <2>1, FieldParts
<1>3. HashedValue(f) = HashedAs[f.kind][n.value]
  <2>1. CASE f.kind = KeywordObj
    <3>1. n.value = SortedStrings(f.value) /\ n.value \in ListOf(Str)
      BY <1>2, <2>1, KindNumbers DEF Normal, ValueOf
    <3>2. Counted(PutStr, n.value) = StrsPut[n.value]
      BY <3>1, StrsPutAll
    <3> QED
      BY <1>1, <1>2, <2>1, <3>1, <3>2, KindNumbers DEF HashedValue, HashedAs
  <2>2. CASE f.kind = Number
    BY <1>1, <2>2, KindNumbers DEF HashedValue, HashedAs, Normal
  <2>3. CASE f.kind = Bool
    <3>1. n.value = f.value /\ f.value \in BOOLEAN
      BY <1>1, <2>3, KindNumbers DEF Normal, ValueOf
    <3>2. (IF f.value THEN 1 ELSE 0) \in U32
      BY SmallNumbers
    <3>3. HashedAs[f.kind][f.value] = U32Put[IF f.value THEN 1 ELSE 0]
      BY <1>1, <2>3, KindNumbers DEF HashedAs
    <3> QED
      BY <2>3, <3>1, <3>2, <3>3, KindNumbers DEF HashedValue, U32Put
  <2>4. CASE f.kind = String
    <3>1. n.value = f.value /\ f.value \in Str
      BY <1>1, <2>4, KindNumbers DEF Normal, ValueOf
    <3>3. HashedAs[f.kind][f.value] = StrPut[f.value]
      BY <1>1, <2>4, KindNumbers DEF HashedAs
    <3> QED
      BY <2>4, <3>1, <3>3, KindNumbers DEF HashedValue, StrPut
  <2>5. CASE f.kind = Delete \/ f.kind = Null
    BY <1>1, <1>2, <2>5, KindNumbers DEF HashedValue, HashedAs
  <2> QED
    BY <1>1, <2>1, <2>2, <2>3, <2>4, <2>5, KindNumbers
<1>4. HashedField(f) = (StrPut[f.name] \o U32Put[f.kind]) \o HashedValue(f)
  <2>1. StrPut[f.name] = PutStr(f.name) /\ U32Put[f.kind] = PutU32(f.kind)
    BY <1>1, SmallNumbers DEF StrPut, U32Put
  <2> QED
    BY <2>1 DEF HashedField
<1>5. HashPut[n] = StrPut[f.name] \o (U32Put[f.kind] \o HashedAs[f.kind][n.value])
  BY <1>1, <1>2 DEF HashPut
<1> DEFINE a == StrPut[f.name]
           k == U32Put[f.kind]
           v == HashedAs[f.kind][n.value]
<1>6. a \in Bytes /\ k \in Bytes /\ v \in Bytes
  <2>1. PrefixCode(StrPut, Str) /\ PrefixCode(U32Put, U32)
    BY StrCodec, U32Codec, CodecPrefix
  <2>2. PrefixCode(HashedAs[f.kind], ValueOf[f.kind])
    BY <1>1, ValuePrefix
  <2> QED
    BY <1>1, <1>2, <2>1, <2>2, SmallNumbers DEF PrefixCode
<1>7. (a \o k) \o v = a \o (k \o v)
  <2> HIDE DEF a, k, v
  <2> QED
    BY <1>6, Associative, Zenon
<1> QED
  BY <1>3, <1>4, <1>5, <1>7

NamesOf(fields) == [i \in DOMAIN fields |-> fields[i].name]
NormalFields(fields) ==
  [n \in DOMAIN fields |-> Normal(fields[InOrder(NamesOf(fields))[n]])]

\* The fields of an entry, by name and as they are hashed.
LEMMA NamesAndNormals ==
  ASSUME NEW f \in FieldsOfEntry
  PROVE /\ f \in Seq(CachedField) /\ \A i \in DOMAIN f : f[i] \in CachedField
        /\ NamesOf(f) \in Seq(Str) /\ Len(NamesOf(f)) = Len(f) /\ DOMAIN NamesOf(f) = DOMAIN f
        /\ \A i, j \in DOMAIN f : NamesOf(f)[i] = NamesOf(f)[j] => i = j
        /\ NormalFields(f) \in Seq(CachedField) /\ DOMAIN NormalFields(f) = DOMAIN f
        /\ Len(NormalFields(f)) = Len(f)
        /\ FieldStream(f) = Written(HashPut, NormalFields(f))
<1>1. /\ f \in Seq(CachedField) /\ Len(f) \in Nat /\ DOMAIN f = 1..Len(f)
      /\ \A i \in DOMAIN f : f[i] \in CachedField
  BY LenProperties, ElementOfSeq DEF FieldsOfEntry
<1>2. /\ NamesOf(f) \in Seq(Str) /\ Len(NamesOf(f)) = Len(f) /\ DOMAIN NamesOf(f) = DOMAIN f
  <2>1. NamesOf(f) \in [1..Len(f) -> Str]
    BY <1>1, FieldParts DEF NamesOf
  <2> QED
    BY <1>1, <2>1, FunctionIsSeq
<1>3. \A i, j \in DOMAIN f : NamesOf(f)[i] = NamesOf(f)[j] => i = j
  BY DEF NamesOf, FieldsOfEntry
<1>4. \A n \in DOMAIN f : InOrder(NamesOf(f))[n] \in DOMAIN f
  BY <1>2, InOrderInverts
<1>5. /\ NormalFields(f) \in Seq(CachedField) /\ DOMAIN NormalFields(f) = DOMAIN f
      /\ Len(NormalFields(f)) = Len(f)
  <2>1. NormalFields(f) \in [1..Len(f) -> CachedField]
    BY <1>1, <1>4, NormalField DEF NormalFields
  <2> QED
    BY <1>1, <2>1, FunctionIsSeq
<1>6. FieldStream(f) = Written(HashPut, NormalFields(f))
  <2> DEFINE order == InOrder(NamesOf(f))
             sorted == [n \in DOMAIN f |-> f[order[n]]]
  <2>1. FieldStream(f) = FlattenSeq([n \in DOMAIN sorted |-> HashedField(sorted[n])])
    BY DEF FieldStream, PutAll, NamesOf
  <2>2. ASSUME NEW n \in DOMAIN f
        PROVE HashedField(sorted[n]) = HashPut[NormalFields(f)[n]]
    <3>1. f[order[n]] \in CachedField
      BY <1>1, <1>4
    <3>2. HashedField(f[order[n]]) = HashPut[Normal(f[order[n]])]
      BY <3>1, HashedNormal
    <3> QED
      BY <3>2 DEF NormalFields
  <2>3. [n \in DOMAIN sorted |-> HashedField(sorted[n])]
          = [n \in DOMAIN NormalFields(f) |-> HashPut[NormalFields(f)[n]]]
    BY <1>5, <2>2
  <2> QED
    BY <2>1, <2>3 DEF Written
<1> QED
  BY <1>1, <1>2, <1>3, <1>5, <1>6

\* Fields that hash alike are the same: their names in order are, and so each
\* goes with the field of its name's place in order.
LEMMA AlikeIsSame ==
  ASSUME NEW f \in FieldsOfEntry, NEW g \in FieldsOfEntry, FieldStream(f) = FieldStream(g)
  PROVE SameFields(f, g)
<1>1. NormalFields(f) = NormalFields(g)
  BY NamesAndNormals, HashPrefix, WrittenAlike
<1> DEFINE s == NamesOf(f)
           t == NamesOf(g)
           p == Aligned(s, t)
<1>2. /\ s \in Seq(Str) /\ t \in Seq(Str) /\ Len(s) = Len(t)
      /\ DOMAIN s = DOMAIN f /\ DOMAIN t = DOMAIN g
  BY <1>1, NamesAndNormals
<1>3. DOMAIN f = DOMAIN g /\ p \in Bijection(DOMAIN f, DOMAIN g)
  <2> HIDE DEF s, t
  <2> QED
    BY <1>2, AlignedBijection
<1>4. ASSUME NEW i \in DOMAIN f PROVE SameField(f[i], g[p[i]])
  <2> DEFINE n == Rank(s, i)
  <2>1. n \in DOMAIN f /\ InOrder(s)[n] = i
    <3> HIDE DEF s
    <3> QED
      BY <1>2, InOrderInverts
  <2>2. p[i] = InOrder(t)[n]
    BY <1>2 DEF Aligned
  <2>3. NormalFields(f)[n] = Normal(f[InOrder(s)[n]])
    BY <2>1 DEF NormalFields
  <2>4. NormalFields(g)[n] = Normal(g[InOrder(t)[n]])
    BY <1>3, <2>1 DEF NormalFields
  <2>5. f[i] \in CachedField /\ g[p[i]] \in CachedField
    <3>1. p[i] \in DOMAIN g
      <4> HIDE DEF p
      <4> QED
        BY <1>3, Fun_BijectionProperties
    <3> QED
      BY <3>1, NamesAndNormals
  <2>6. Normal(f[i]) = Normal(g[p[i]])
    BY <1>1, <2>1, <2>2, <2>3, <2>4
  <2> QED
    BY <2>5, <2>6, NormalField
<1> QED
  BY <1>3, <1>4 DEF SameFields

\* The same fields hash alike: as their names differ, only one order of the
\* names makes them ascend.
LEMMA SameIsAlike ==
  ASSUME NEW f \in FieldsOfEntry, NEW g \in FieldsOfEntry, SameFields(f, g)
  PROVE FieldStream(f) = FieldStream(g)
<1> DEFINE s == NamesOf(f)
           t == NamesOf(g)
<1>1. PICK p \in Bijection(DOMAIN f, DOMAIN g) : \A i \in DOMAIN f : SameField(f[i], g[p[i]])
  BY DEF SameFields
<1>2. /\ s \in Seq(Str) /\ t \in Seq(Str)
      /\ DOMAIN s = DOMAIN f /\ DOMAIN t = DOMAIN g
      /\ \A i, j \in DOMAIN g : t[i] = t[j] => i = j
      /\ \A i \in DOMAIN f : f[i] \in CachedField
      /\ \A i \in DOMAIN g : g[i] \in CachedField
  BY NamesAndNormals
<1>3. \A i \in DOMAIN f : p[i] \in DOMAIN g
  BY <1>1, Fun_BijectionProperties
<1>4. \A i \in DOMAIN f : s[i] = t[p[i]]
  <2> SUFFICES ASSUME NEW i \in DOMAIN f PROVE s[i] = t[p[i]]
    OBVIOUS
  <2>1. f[i].name = g[p[i]].name
    BY <1>1 DEF SameField
  <2> QED
    BY <1>3, <2>1 DEF NamesOf
<1>5. Matches(p, s, t)
  BY <1>1, <1>2, <1>4 DEF Matches
<1> HIDE DEF s, t
<1>6. SortedStrings(s) = SortedStrings(t) /\ DOMAIN s = DOMAIN t
  <2>1. SameStrings(s, t)
    BY <1>5 DEF SameStrings, Matches
  <2> QED
    BY <1>2, <1>5, <2>1, SortedAlike, MatchParts
<1>7. ASSUME NEW n \in DOMAIN f PROVE NormalFields(f)[n] = NormalFields(g)[n]
  <2> DEFINE i == InOrder(s)[n]
             k == InOrder(t)[n]
  <2>1. n \in DOMAIN s /\ n \in DOMAIN t
    BY <1>2, <1>6
  <2>2. i \in DOMAIN s /\ k \in DOMAIN t
    BY <1>2, <2>1, InOrderInverts
  <2>3. SortedStrings(s)[n] = s[i] /\ SortedStrings(t)[n] = t[k]
    BY <2>1 DEF SortedStrings
  <2>4. i \in DOMAIN f /\ k \in DOMAIN g /\ p[i] \in DOMAIN g
    BY <1>2, <1>3, <2>2
  <2>5. NormalFields(f)[n] = Normal(f[i]) /\ NormalFields(g)[n] = Normal(g[k])
    BY <1>2, <2>1 DEF NormalFields, s, t
  <2> HIDE DEF i, k
  <2>6. t[p[i]] = t[k]
    BY <1>4, <1>6, <2>3, <2>4
  <2>7. p[i] = k
    BY <1>2, <2>4, <2>6
  <2>8. SameField(f[i], g[k]) /\ f[i] \in CachedField /\ g[k] \in CachedField
    BY <1>1, <1>2, <2>4, <2>7
  <2> QED
    BY <2>5, <2>8, NormalField
<1>8. NormalFields(f) = NormalFields(g)
  <2>1. /\ NormalFields(f) \in Seq(CachedField) /\ DOMAIN NormalFields(f) = DOMAIN f
        /\ NormalFields(g) \in Seq(CachedField) /\ DOMAIN NormalFields(g) = DOMAIN g
        /\ Len(NormalFields(f)) = Len(f) /\ Len(NormalFields(g)) = Len(g)
        /\ Len(NamesOf(f)) = Len(f) /\ Len(NamesOf(g)) = Len(g)
    BY NamesAndNormals
  <2>2. Len(s) = Len(t)
    BY <1>2, <1>5, MatchParts
  <2>3. Len(NormalFields(f)) = Len(NormalFields(g))
    BY <2>1, <2>2 DEF s, t
  <2> QED
    BY <1>7, <2>1, <2>3, LenProperties, SeqEqual
<1> QED
  BY <1>8, NamesAndNormals

\* Different configurations, and different runtime items, feed different
\* bytes to the hash, and equal ones the same, in whatever order an item's fields
\* and keywords were captured: a changed setup or item is noticed, an unchanged
\* item keeps its token.
THEOREM StreamsToldApart == FormatsSpec => []StreamsTellApart
<1>1. input \in Inputs \cup {NoInput} => StreamsTellApart
  <2> SUFFICES ASSUME input \in Inputs \cup {NoInput} PROVE StreamsTellApart
    OBVIOUS
  <2>1. ASSUME input.kind = "config" PROVE ConfigsToldApart(input.files, ConfigLists)
    <3>1. input.files \in Seq(ConfigFile) /\ ConfigLists \in SUBSET Seq(ConfigFile)
      BY <2>1, InputKinds, FormatConstants
    <3> QED
      BY <3>1, EveryConfigToldApart
  <2>2. ASSUME input.kind = "fields" PROVE FieldsToldApart(input.fields, FieldLists)
    <3>1. input.fields \in FieldsOfEntry /\ \A g \in FieldLists : g \in FieldsOfEntry
      BY <2>2, InputKinds, FormatConstants
    <3> QED
      BY <3>1, AlikeIsSame, SameIsAlike DEF FieldsToldApart
  <2> QED
    BY <2>1, <2>2 DEF StreamsTellApart
<1> QED
  BY <1>1, InputsStay, PTL

-----------------------------------------------------------------------------
(* Packed keys, for all form ids, fill levels and setters of their widths *)

\* What a shift right shows of the parts of a key.
LEMMA RightOfKey ==
  ASSUME NEW form \in Word(32), NEW gem \in BOOLEAN, NEW status \in Word(32),
         NEW setter \in Word(8)
  PROVE LET key == MakeCacheKey(form, gem, status, setter) IN
        /\ \A b \in 0..31 : b \in key <=> b \in form
        /\ \A b \in 0..7 : (b + 32) \in key <=> gem /\ b \in status
        /\ 40 \in key <=> gem
        /\ \A b \in 0..7 : (b + 48) \in key <=> b \in setter
  <1> PICK key : key = MakeCacheKey(form, gem, status, setter)
    OBVIOUS
  <1>1. ASSUME NEW b \in Int
        PROVE b \in key <=> \/ b \in form
                            \/ gem /\ (b = 40 \/ (b - 32 \in status /\ b - 32 \in 0..7 /\ b \in 0..63))
                            \/ b - 48 \in setter /\ b \in 0..63
    BY DEF MakeCacheKey, Left
  <1>2. form \subseteq 0..31 /\ setter \subseteq 0..7
    BY DEF Word
  <1>3. ASSUME NEW b \in 0..31 PROVE b \in key <=> b \in form
    BY <1>1, <1>2
  <1>4. ASSUME NEW b \in 0..7 PROVE (b + 32) \in key <=> gem /\ b \in status
    <2>1. b + 32 \in Int /\ (b + 32) - 32 = b /\ b + 32 \in 0..63 /\ b + 32 # 40
          /\ b + 32 \notin 0..31 /\ (b + 32) - 48 \notin 0..7
      OBVIOUS
    <2> QED
      BY <1>1, <1>2, <2>1
  <1>5. 40 \in key <=> gem
    BY <1>1, <1>2
  <1>6. ASSUME NEW b \in 0..7 PROVE (b + 48) \in key <=> b \in setter
    <2>1. b + 48 \in Int /\ (b + 48) - 48 = b /\ b + 48 \in 0..63 /\ b + 48 # 40
          /\ b + 48 \notin 0..31 /\ (b + 48) - 32 \notin 0..7
      OBVIOUS
    <2> QED
      BY <1>1, <1>2, <2>1
  <1> QED
    BY <1>3, <1>4, <1>5, <1>6

\* A key gives back what it was made of.
THEOREM KeyDecodesBack ==
  ASSUME NEW form \in Word(32), NEW gem \in BOOLEAN, NEW status \in Word(32),
         NEW setter \in Word(8)
  PROVE DecodesBack(form, gem, status, setter)
  <1> PICK key : key = MakeCacheKey(form, gem, status, setter)
    OBVIOUS
  <1>1. /\ \A b \in 0..31 : b \in key <=> b \in form
        /\ \A b \in 0..7 : (b + 32) \in key <=> gem /\ b \in status
        /\ 40 \in key <=> gem
        /\ \A b \in 0..7 : (b + 48) \in key <=> b \in setter
    BY RightOfKey
  <1>2. key \cap 0..31 = form
    <2>1. form \subseteq 0..31
      BY DEF Word
    <2>2. key \cap 0..31 \subseteq form /\ form \subseteq key \cap 0..31
      BY <1>1, <2>1
    <2> QED
      BY <2>2
  <1>3. (Right(key, 40) \cap {0} # {}) = gem
    <2>1. 0 \in Right(key, 40) <=> 40 \in key
      BY DEF Right
    <2> QED
      BY <1>1, <2>1
  <1>4. Right(key, 32) \cap 0..7 = IF gem THEN status \cap 0..7 ELSE {}
    BY <1>1 DEF Right
  <1>5. Right(key, 48) \cap 0..7 = setter
    <2>1. setter \subseteq 0..7
      BY DEF Word
    <2>2. ASSUME NEW b \in 0..7 PROVE b \in Right(key, 48) <=> b \in setter
      BY <1>1 DEF Right
    <2>3. Right(key, 48) \cap 0..7 \subseteq setter /\ setter \subseteq Right(key, 48) \cap 0..7
      BY <2>1, <2>2
    <2> QED
      BY <2>3
  <1> QED
    BY <1>2, <1>3, <1>4, <1>5, Zenon DEF DecodesBack, DecodeCacheKey

\* A key that is saved and loaded comes out the same.
THEOREM KeySurvivesCoSave ==
  ASSUME NEW form \in Word(32), NEW gem \in BOOLEAN, NEW status \in Word(32),
         NEW setter \in Word(8)
  PROVE SurvivesCoSave(form, gem, status, setter)
  <1> PICK kept : kept = IF gem THEN status \cap 0..7 ELSE {}
    OBVIOUS
  <1>1. DecodeCacheKey(MakeCacheKey(form, gem, status, setter)) =
          [formID |-> form, soulGem |-> gem, status |-> kept, setter |-> setter]
    BY KeyDecodesBack, Zenon DEF DecodesBack
  <1>2. Remade([formID |-> form, soulGem |-> gem, status |-> kept, setter |-> setter]) =
          MakeCacheKey(form, gem, IF gem THEN kept ELSE {}, setter)
    BY DEF Remade
  <1>3. MakeCacheKey(form, gem, IF gem THEN kept ELSE {}, setter) =
          MakeCacheKey(form, gem, status, setter)
    <2>1. CASE gem
      <3>1. kept \cap 0..7 = status \cap 0..7
        BY <2>1
      <3> QED
        BY <2>1, <3>1, Zenon DEF MakeCacheKey
    <2>2. CASE ~gem
      BY <2>2 DEF MakeCacheKey
    <2> QED
      BY <2>1, <2>2
  <1> QED
    BY <1>1, <1>2, <1>3, Zenon DEF SurvivesCoSave

\* Keys of a static form are those of its id alone: two items get one key only
\* if they are the same form under one setter, and the same kind of gem.
THEOREM KeysTellApart ==
  ASSUME NEW f1 \in Word(32), NEW g1 \in BOOLEAN, NEW s1 \in Word(32), NEW t1 \in Word(8),
         NEW f2 \in Word(32), NEW g2 \in BOOLEAN, NEW s2 \in Word(32), NEW t2 \in Word(8),
         MakeCacheKey(f1, g1, s1, t1) = MakeCacheKey(f2, g2, s2, t2)
  PROVE /\ f1 = f2 /\ g1 = g2 /\ t1 = t2
        /\ g1 => s1 \cap 0..7 = s2 \cap 0..7
  <1>1. DecodesBack(f1, g1, s1, t1) /\ DecodesBack(f2, g2, s2, t2)
    BY KeyDecodesBack
  <1> QED
    BY <1>1 DEF DecodesBack

\* Every key gives back its parts, and itself after a co-save.
THEOREM KeysSurvive == FormatsSpec => []PackedKeysSurvive
<1>1. input \in Inputs \cup {NoInput} => PackedKeysSurvive
  <2> SUFFICES ASSUME input \in Inputs \cup {NoInput}, input.kind = "key", NEW gem \in BOOLEAN
               PROVE /\ DecodesBack(input.parts.form, gem, input.parts.status, input.parts.setter)
                     /\ SurvivesCoSave(input.parts.form, gem, input.parts.status, input.parts.setter)
    BY DEF PackedKeysSurvive
  <2>1. input.parts \in [form : Word(32), status : Word(32), setter : Word(8)]
    BY InputKinds, FormatConstants
  <2>2. /\ input.parts.form \in Word(32) /\ input.parts.status \in Word(32)
        /\ input.parts.setter \in Word(8)
    BY <2>1
  <2> QED
    BY <2>2, KeyDecodesBack, KeySurvivesCoSave
<1> QED
  BY <1>1, InputsStay, PTL

=============================================================================
