--------------------- MODULE ClientSessionStreamProofs ---------------------
(***************************************************************************)
(* Proofs about what a connection carries: the characters its client sent  *)
(* and the daemon has not consumed, the files made of them and the replies *)
(* they lead to.                                                           *)
(***************************************************************************)
EXTENDS ClientSessionProofs

(* What is left of q after n elements.                                      *)
Rest(q, n) == SubSeq(q, n + 1, Len(q))

LEMMA RestIs ==
  ASSUME NEW S, NEW q \in Seq(S), NEW n \in 0 .. Len(q)
  PROVE  /\ Rest(q, n) \in Seq(S)
         /\ Len(Rest(q, n)) = Len(q) - n
         /\ \A k \in 1 .. Len(q) - n : Rest(q, n)[k] = q[n + k]
<1>1. \A i \in n + 1 .. Len(q) : q[i] \in S
  OBVIOUS
<1>2. /\ SubSeq(q, n + 1, Len(q)) \in Seq(S)
      /\ Len(SubSeq(q, n + 1, Len(q))) = IF n + 1 <= Len(q) THEN Len(q) - (n + 1) + 1 ELSE 0
      /\ \A i \in 1 .. Len(q) - (n + 1) + 1 : SubSeq(q, n + 1, Len(q))[i] = q[n + 1 + i - 1]
  BY <1>1, SubSeqProperties
<1> QED BY <1>2 DEF Rest

LEMMA PrefixIs ==
  ASSUME NEW S, NEW q \in Seq(S), NEW n \in 0 .. Len(q)
  PROVE  /\ SubSeq(q, 1, n) \in Seq(S)
         /\ Len(SubSeq(q, 1, n)) = n
         /\ \A k \in 1 .. n : SubSeq(q, 1, n)[k] = q[k]
<1>1. \A i \in 1 .. n : q[i] \in S
  OBVIOUS
<1>2. /\ SubSeq(q, 1, n) \in Seq(S)
      /\ Len(SubSeq(q, 1, n)) = IF 1 <= n THEN n - 1 + 1 ELSE 0
      /\ \A i \in 1 .. n - 1 + 1 : SubSeq(q, 1, n)[i] = q[1 + i - 1]
  BY <1>1, SubSeqProperties
<1> QED BY <1>2

(* The rest of a rest, and of a sequence whose first part is consumed.      *)
LEMMA RestOfRest ==
  ASSUME NEW S, NEW q \in Seq(S), NEW n \in 0 .. Len(q), NEW k \in 0 .. Len(q) - n
  PROVE  Rest(Rest(q, n), k) = Rest(q, n + k)
<1> DEFINE r == Rest(q, n)
           a == Rest(r, k)
           b == Rest(q, n + k)
<1>1. Len(q) \in Nat /\ n \in Nat /\ k \in Nat /\ n + k \in 0 .. Len(q)
  OBVIOUS
<1>2. /\ r \in Seq(S) /\ Len(r) = Len(q) - n
      /\ \A j \in 1 .. Len(q) - n : r[j] = q[n + j]
  BY RestIs
<1> HIDE DEF r
<1>3. k \in 0 .. Len(r)
  BY <1>2
<1>4. /\ a \in Seq(S) /\ Len(a) = Len(r) - k
      /\ \A j \in 1 .. Len(r) - k : a[j] = r[k + j]
  BY <1>2, <1>3, RestIs, ZenonT(30)
<1>5. /\ b \in Seq(S) /\ Len(b) = Len(q) - (n + k)
      /\ \A j \in 1 .. Len(q) - (n + k) : b[j] = q[n + k + j]
  BY <1>1, RestIs
<1> HIDE DEF a, b
<1>6. ASSUME NEW j \in 1 .. Len(a) PROVE a[j] = b[j]
  <2>1. k + j \in 1 .. Len(q) - n /\ j \in 1 .. Len(r) - k /\ j \in 1 .. Len(q) - (n + k)
    BY <1>1, <1>2, <1>4, <1>6
  <2>2. n + (k + j) = n + k + j
    BY <1>1, <1>6
  <2> QED BY <1>2, <1>4, <1>5, <2>1, <2>2
<1>7. Len(a) = Len(b)
  BY <1>1, <1>2, <1>4, <1>5
<1>8. a = b
  BY <1>4, <1>5, <1>6, <1>7, SeqEqual
<1> QED BY <1>8 DEF a, b, r

LEMMA RestOfConcat ==
  ASSUME NEW S, NEW p \in Seq(S), NEW q \in Seq(S), NEW n \in 0 .. Len(p)
  PROVE  Rest(p, n) \o q = Rest(p \o q, n)
<1> DEFINE r == Rest(p, n)
           pq == p \o q
           a == r \o q
           b == Rest(pq, n)
<1>1. Len(p) \in Nat /\ Len(q) \in Nat /\ n \in Nat
  OBVIOUS
<1>2. /\ r \in Seq(S) /\ Len(r) = Len(p) - n
      /\ \A k \in 1 .. Len(p) - n : r[k] = p[n + k]
  BY RestIs
<1>3. /\ pq \in Seq(S) /\ Len(pq) = Len(p) + Len(q)
      /\ \A k \in 1 .. Len(p) + Len(q) : pq[k] = IF k <= Len(p) THEN p[k] ELSE q[k - Len(p)]
  BY ConcatProperties
<1> HIDE DEF r, pq
<1>4. /\ a \in Seq(S) /\ Len(a) = Len(r) + Len(q)
      /\ \A k \in 1 .. Len(r) + Len(q) : a[k] = IF k <= Len(r) THEN r[k] ELSE q[k - Len(r)]
  BY <1>2, ConcatProperties
<1>5. n \in 0 .. Len(pq)
  BY <1>1, <1>3
<1>6. /\ b \in Seq(S) /\ Len(b) = Len(pq) - n
      /\ \A k \in 1 .. Len(pq) - n : b[k] = pq[n + k]
  BY <1>3, <1>5, RestIs, ZenonT(30)
<1> HIDE DEF a, b
<1>7. ASSUME NEW k \in 1 .. Len(a) PROVE a[k] = b[k]
  <2>1. /\ n + k \in 1 .. Len(p) + Len(q) /\ k \in 1 .. Len(r) + Len(q)
        /\ k \in 1 .. Len(pq) - n
    BY <1>1, <1>2, <1>3, <1>4, <1>7
  <2>2. b[k] = IF n + k <= Len(p) THEN p[n + k] ELSE q[n + k - Len(p)]
    BY <1>3, <1>6, <2>1
  <2>3. CASE n + k <= Len(p)
    <3>1. k \in 1 .. Len(p) - n /\ k <= Len(r)
      BY <1>1, <1>2, <2>1, <2>3
    <3> QED BY <1>2, <1>4, <2>1, <2>2, <2>3, <3>1
  <2>4. CASE ~(n + k <= Len(p))
    <3>1. ~(k <= Len(r)) /\ k - Len(r) = n + k - Len(p)
      BY <1>1, <1>2, <2>1, <2>4
    <3> QED BY <1>4, <2>1, <2>2, <2>4, <3>1
  <2> QED BY <2>3, <2>4
<1>8. Len(a) = Len(b)
  BY <1>1, <1>2, <1>3, <1>4, <1>6
<1>9. a = b
  BY <1>4, <1>6, <1>7, <1>8, SeqEqual
<1> QED BY <1>9 DEF a, b, r, pq

LEMMA FirstOfConcat ==
  ASSUME NEW S, NEW p \in Seq(S), NEW q \in Seq(S)
  PROVE  SubSeq(p \o q, 1, Len(p)) = p
<1>1. /\ p \o q \in Seq(S) /\ Len(p \o q) = Len(p) + Len(q)
      /\ \A k \in 1 .. Len(p) + Len(q) : (p \o q)[k] = IF k <= Len(p) THEN p[k] ELSE q[k - Len(p)]
  BY ConcatProperties
<1>2. /\ SubSeq(p \o q, 1, Len(p)) \in Seq(S) /\ Len(SubSeq(p \o q, 1, Len(p))) = Len(p)
      /\ \A k \in 1 .. Len(p) : SubSeq(p \o q, 1, Len(p))[k] = (p \o q)[k]
  BY <1>1, PrefixIs
<1> QED BY <1>1, <1>2, SeqEqual
-----------------------------------------------------------------------------
(* What a client sends. *)

PlaceOf(s, m) == CHOOSE i \in DOMAIN Script[s] : Script[s][i] = m

(* A message has one place in a script.                                     *)
LEMMA PlaceIs ==
  ASSUME NEW s \in Sessions, NEW i \in 1 .. Len(Script[s])
  PROVE  PlaceOf(s, Script[s][i]) = i /\ Script[s][i] \in Msgs
<1>1. DOMAIN Script[s] = 1 .. Len(Script[s]) /\ Script[s][i] \in Msgs
  BY ScriptAssumption
<1>2. \A j \in DOMAIN Script[s] : Script[s][j] = Script[s][i] => j = i
  BY <1>1, ProtocolAssumption
<1>3. \E j \in DOMAIN Script[s] : Script[s][j] = Script[s][i]
  BY <1>1
<1>4. PlaceOf(s, Script[s][i]) \in DOMAIN Script[s]
      /\ Script[s][PlaceOf(s, Script[s][i])] = Script[s][i]
  BY <1>3 DEF PlaceOf
<1> QED BY <1>1, <1>2, <1>4

(* The characters on their way in a connection whose client has got through *)
(* n messages: each is one of those; they come in the order of the script;  *)
(* none of a message is missing after a character that is there, nor before *)
(* it except at the head; and no request between them was left out.         *)
Char == Msgs \X Nat

Known(s, q, n) ==
  \A k \in 1 .. Len(q) :
    /\ PlaceOf(s, q[k][1]) \in 1 .. n
    /\ Script[s][PlaceOf(s, q[k][1])] = q[k][1]
    /\ q[k][2] \in 1 .. Length[q[k][1]]

Ordered(s, q) ==
  \A k, l \in 1 .. Len(q) : k < l =>
    \/ PlaceOf(s, q[k][1]) < PlaceOf(s, q[l][1])
    \/ q[k][1] = q[l][1] /\ q[k][2] < q[l][2]

Onward(q) ==
  \A k \in 1 .. Len(q) : \A d \in 0 .. Length[q[k][1]] - q[k][2] :
    k + d <= Len(q) => q[k + d] = <<q[k][1], q[k][2] + d>>

Backward(q) ==
  \A k \in 2 .. Len(q) : q[k][2] # 1 => q[k - 1] = <<q[k][1], q[k][2] - 1>>

NoneLeftOut(s, q) ==
  \A k \in 2 .. Len(q) :
    \A j \in PlaceOf(s, q[k - 1][1]) + 1 .. PlaceOf(s, q[k][1]) - 1 : ~Request(Script[s][j])

Stream(s, q, n) ==
  /\ n \in 0 .. Len(Script[s])
  /\ q \in Seq(Char)
  /\ Known(s, q, n) /\ Ordered(s, q) /\ Onward(q) /\ Backward(q) /\ NoneLeftOut(s, q)

(* While the client is there, the last message is on its way as a whole,    *)
(* and what the client skipped after it asks for nothing.                   *)
Whole(q) == \A k \in 1 .. Len(q) : k + Length[q[k][1]] - q[k][2] <= Len(q)
Last(s, q, n) ==
  q # << >> => \A j \in PlaceOf(s, q[Len(q)][1]) + 1 .. n : ~Request(Script[s][j])

LEMMA CharsAreTyped ==
  ASSUME NEW s, NEW n, NEW q, Stream(s, q, n), NEW k \in 1 .. Len(q)
  PROVE  /\ Len(q) \in Nat /\ q[k] \in Char
         /\ q[k][1] \in Msgs /\ q[k][2] \in Nat /\ Length[q[k][1]] \in Nat
         /\ q[k] = <<q[k][1], q[k][2]>>
<1>1. Len(q) \in Nat /\ q[k] \in Char
  BY DEF Stream
<1>2. q[k][1] \in Msgs /\ q[k][2] \in Nat /\ q[k] = <<q[k][1], q[k][2]>>
  BY <1>1 DEF Char
<1> QED BY <1>1, <1>2, ScriptAssumption

(* The daemon takes characters from the head of the stream.                 *)
LEMMA RestStreams ==
  ASSUME NEW s \in Sessions, NEW n, NEW q, Stream(s, q, n), NEW i \in 0 .. Len(q)
  PROVE  /\ Stream(s, Rest(q, i), n)
         /\ Whole(q) => Whole(Rest(q, i))
         /\ Last(s, q, n) => Last(s, Rest(q, i), n)
<1> DEFINE r == Rest(q, i)
<1>1. q \in Seq(Char) /\ Len(q) \in Nat /\ i \in Nat
  BY DEF Stream
<1>2. /\ r \in Seq(Char) /\ Len(r) = Len(q) - i
      /\ \A k \in 1 .. Len(q) - i : r[k] = q[i + k]
  BY <1>1, RestIs
<1> HIDE DEF r
<1>3. ASSUME NEW k \in 1 .. Len(r)
      PROVE  i + k \in 1 .. Len(q) /\ r[k] = q[i + k] /\ k \in Nat /\ Len(r) \in Nat
  BY <1>1, <1>2, <1>3
<1>4. Known(s, r, n)
  BY <1>3 DEF Known, Stream
<1>5. Ordered(s, r)
  <2> SUFFICES ASSUME NEW k \in 1 .. Len(r), NEW l \in 1 .. Len(r), k < l
               PROVE  \/ PlaceOf(s, r[k][1]) < PlaceOf(s, r[l][1])
                      \/ r[k][1] = r[l][1] /\ r[k][2] < r[l][2]
    BY DEF Ordered
  <2>1. i + k \in 1 .. Len(q) /\ i + l \in 1 .. Len(q) /\ i + k < i + l
    BY <1>1, <1>2
  <2>2. r[k] = q[i + k] /\ r[l] = q[i + l]
    BY <1>3
  <2> QED BY <2>1, <2>2 DEF Ordered, Stream
<1>6. Onward(r)
  <2> SUFFICES ASSUME NEW k \in 1 .. Len(r), NEW d \in 0 .. Length[r[k][1]] - r[k][2],
                      k + d <= Len(r)
               PROVE  r[k + d] = <<r[k][1], r[k][2] + d>>
    BY DEF Onward
  <2>1. i + k \in 1 .. Len(q) /\ r[k] = q[i + k]
    BY <1>3
  <2>2. Length[r[k][1]] - r[k][2] \in Int
    BY <2>1, CharsAreTyped
  <2>3. k + d \in 1 .. Len(r) /\ i + k + d <= Len(q) /\ i + (k + d) = i + k + d
    BY <1>1, <1>2, <2>2
  <2>4. r[k + d] = q[i + k + d]
    BY <1>3, <2>3
  <2>5. d \in 0 .. Length[q[i + k][1]] - q[i + k][2]
    BY <2>1
  <2>6. Onward(q)
    BY DEF Stream
  <2>7. q[i + k + d] = <<q[i + k][1], q[i + k][2] + d>>
    BY <2>1, <2>3, <2>5, <2>6, Zenon DEF Onward
  <2> QED BY <2>1, <2>4, <2>7
<1>7. Backward(r) /\ NoneLeftOut(s, r)
  <2>1. ASSUME NEW k \in 2 .. Len(r)
        PROVE  i + k \in 2 .. Len(q) /\ r[k] = q[i + k] /\ r[k - 1] = q[i + k - 1]
    <3>1. k - 1 \in 1 .. Len(r) /\ k \in 1 .. Len(r) /\ i + (k - 1) = i + k - 1
      BY <1>1, <1>2, <2>1
    <3>2. i + k \in 2 .. Len(q)
      BY <1>1, <1>2
    <3>3. r[k] = q[i + k]
      BY <1>3, <3>1
    <3>4. r[k - 1] = q[i + (k - 1)]
      BY <1>3, <3>1
    <3> QED BY <3>1, <3>2, <3>3, <3>4
  <2>2. Backward(q) /\ NoneLeftOut(s, q)
    BY DEF Stream
  <2>3. Backward(r)
    BY <2>1, <2>2 DEF Backward
  <2>4. NoneLeftOut(s, r)
    BY <2>1, <2>2 DEF NoneLeftOut
  <2> QED BY <2>3, <2>4
<1>8. Whole(q) => Whole(r)
  <2> SUFFICES ASSUME Whole(q), NEW k \in 1 .. Len(r)
               PROVE  k + Length[r[k][1]] - r[k][2] <= Len(r)
    BY DEF Whole
  <2>1. i + k \in 1 .. Len(q) /\ r[k] = q[i + k] /\ k \in Nat
    BY <1>3
  <2>2. i + k + Length[q[i + k][1]] - q[i + k][2] <= Len(q)
    BY <2>1 DEF Whole
  <2>3. Length[q[i + k][1]] \in Nat /\ q[i + k][2] \in Nat
    BY <2>1, CharsAreTyped
  <2> QED BY <1>1, <1>2, <2>1, <2>2, <2>3, SMTT(20)
<1>9. Last(s, q, n) => Last(s, r, n)
  <2> SUFFICES ASSUME Last(s, q, n), r # << >>
               PROVE  \A j \in PlaceOf(s, r[Len(r)][1]) + 1 .. n : ~Request(Script[s][j])
    BY DEF Last
  <2>1. Len(r) \in 1 .. Len(r)
    BY <1>2
  <2>2. r[Len(r)] = q[Len(q)] /\ q # << >>
    <3>1. i + Len(r) = Len(q)
      BY <1>1, <1>2
    <3> QED BY <1>1, <1>3, <2>1, <3>1
  <2> QED BY <2>2 DEF Last
<1>10. Stream(s, r, n)
  BY <1>2, <1>4, <1>5, <1>6, <1>7 DEF Stream
<1> QED BY <1>8, <1>9, <1>10 DEF r

(* The client goes away, and the network loses what the daemon has not read. *)
LEMMA FirstStreams ==
  ASSUME NEW s \in Sessions, NEW n, NEW q, Stream(s, q, n), NEW i \in 0 .. Len(q)
  PROVE  Stream(s, SubSeq(q, 1, i), n)
<1> DEFINE r == SubSeq(q, 1, i)
<1>1. q \in Seq(Char) /\ Len(q) \in Nat /\ i \in Nat
  BY DEF Stream
<1>2. /\ r \in Seq(Char) /\ Len(r) = i
      /\ \A k \in 1 .. i : r[k] = q[k]
  BY <1>1, PrefixIs
<1> HIDE DEF r
<1>3. ASSUME NEW k \in 1 .. Len(r)
      PROVE  k \in 1 .. Len(q) /\ r[k] = q[k]
  BY <1>1, <1>2, <1>3
<1>4. Known(s, r, n)
  BY <1>3 DEF Known, Stream
<1>5. Ordered(s, r)
  BY <1>3 DEF Ordered, Stream
<1>6. Onward(r)
  <2> SUFFICES ASSUME NEW k \in 1 .. Len(r), NEW d \in 0 .. Length[r[k][1]] - r[k][2],
                      k + d <= Len(r)
               PROVE  r[k + d] = <<r[k][1], r[k][2] + d>>
    BY DEF Onward
  <2>1. k + d \in 1 .. Len(r) /\ k + d <= Len(q)
    BY <1>1, <1>2
  <2> QED BY <1>3, <2>1 DEF Onward, Stream
<1>7. Backward(r) /\ NoneLeftOut(s, r)
  <2>1. ASSUME NEW k \in 2 .. Len(r)
        PROVE  k \in 2 .. Len(q) /\ r[k] = q[k] /\ r[k - 1] = q[k - 1]
    <3>1. k - 1 \in 1 .. Len(r) /\ k \in 1 .. Len(r)
      BY <1>1, <1>2, <2>1
    <3> QED BY <1>1, <1>2, <1>3, <3>1
  <2>2. Backward(q) /\ NoneLeftOut(s, q)
    BY DEF Stream
  <2>3. Backward(r)
    BY <2>1, <2>2 DEF Backward
  <2>4. NoneLeftOut(s, r)
    BY <2>1, <2>2 DEF NoneLeftOut
  <2> QED BY <2>3, <2>4
<1>8. Stream(s, r, n)
  BY <1>2, <1>4, <1>5, <1>6, <1>7 DEF Stream
<1> QED BY <1>8 DEF r

(* The client skips a message that asks for nothing.                        *)
LEMMA SkipStreams ==
  ASSUME NEW s \in Sessions, NEW n, NEW q, Stream(s, q, n), n < Len(Script[s])
  PROVE  /\ Stream(s, q, n + 1)
         /\ Last(s, q, n) /\ ~Request(Script[s][n + 1]) => Last(s, q, n + 1)
<1>1. Script[s] \in Seq(Msgs) /\ n \in Nat /\ n + 1 \in 0 .. Len(Script[s])
  BY ScriptAssumption DEF Stream
<1>2. Known(s, q, n + 1)
  BY <1>1 DEF Known, Stream
<1>3. Last(s, q, n) /\ ~Request(Script[s][n + 1]) => Last(s, q, n + 1)
  <2> SUFFICES ASSUME Last(s, q, n), ~Request(Script[s][n + 1]), q # << >>,
                      NEW j \in PlaceOf(s, q[Len(q)][1]) + 1 .. n + 1
               PROVE  ~Request(Script[s][j])
    BY DEF Last
  <2>1. Len(q) \in 1 .. Len(q)
    BY DEF Stream
  <2>2. PlaceOf(s, q[Len(q)][1]) \in Nat
    BY <2>1 DEF Known, Stream
  <2>3. j = n + 1 \/ j \in PlaceOf(s, q[Len(q)][1]) + 1 .. n
    BY <1>1, <2>2
  <2> QED BY <2>3 DEF Last
<1> QED BY <1>1, <1>2, <1>3 DEF Stream

LEMMA CharsOfIs ==
  ASSUME NEW m \in Msgs
  PROVE  /\ CharsOf(m) \in Seq(Char) /\ Length[m] \in Nat \ {0} /\ Len(CharsOf(m)) = Length[m]
         /\ \A j \in 1 .. Length[m] : CharsOf(m)[j] = <<m, j>>
<1>1. Length[m] \in Nat \ {0}
  BY ScriptAssumption
<1>2. CharsOf(m) \in [1 .. Length[m] -> Char] /\ \A j \in 1 .. Length[m] : CharsOf(m)[j] = <<m, j>>
  BY <1>1 DEF CharsOf, Char
<1> QED BY <1>1, <1>2

(* The client sends its next message.                                       *)
LEMMA SentStreams ==
  ASSUME NEW s \in Sessions, NEW n, NEW q, Stream(s, q, n), Whole(q), Last(s, q, n),
         n < Len(Script[s])
  PROVE  /\ Stream(s, q \o CharsOf(Script[s][n + 1]), n + 1)
         /\ Whole(q \o CharsOf(Script[s][n + 1]))
         /\ Last(s, q \o CharsOf(Script[s][n + 1]), n + 1)
<1> DEFINE m == Script[s][n + 1]
           c == CharsOf(m)
           r == q \o c
           len == Length[m]
<1>1. q \in Seq(Char) /\ Len(q) \in Nat /\ n \in Nat /\ n + 1 \in 1 .. Len(Script[s])
      /\ n + 1 \in 0 .. Len(Script[s])
  <2>1. Len(Script[s]) \in Nat
    BY ScriptAssumption
  <2> QED BY <2>1 DEF Stream
<1>2. PlaceOf(s, m) = n + 1 /\ m \in Msgs
  BY <1>1, PlaceIs
<1>3. /\ c \in Seq(Char) /\ len \in Nat \ {0} /\ Len(c) = len
      /\ \A j \in 1 .. len : c[j] = <<m, j>>
  BY <1>2, CharsOfIs
<1>4. Script[s][n + 1] = m
  OBVIOUS
<1> HIDE DEF m, c, len
<1>5. /\ r \in Seq(Char) /\ Len(r) = Len(q) + len
      /\ \A k \in 1 .. Len(q) + len : r[k] = IF k <= Len(q) THEN q[k] ELSE c[k - Len(q)]
  BY <1>1, <1>3, ConcatProperties
<1> HIDE DEF r
<1>6. ASSUME NEW k \in 1 .. Len(q) PROVE r[k] = q[k] /\ k \in 1 .. Len(r)
  BY <1>1, <1>3, <1>5, <1>6
<1>7. ASSUME NEW k \in Len(q) + 1 .. Len(r)
      PROVE  r[k] = <<m, k - Len(q)>> /\ k - Len(q) \in 1 .. len /\ r[k][1] = m
             /\ r[k][2] = k - Len(q)
  <2>1. k - Len(q) \in 1 .. len /\ k \in 1 .. Len(q) + len /\ ~(k <= Len(q))
    BY <1>1, <1>3, <1>5, <1>7
  <2>2. r[k] = c[k - Len(q)]
    BY <1>5, <2>1
  <2> QED BY <1>3, <2>1, <2>2
<1>8. ASSUME NEW k \in 1 .. Len(r) PROVE k \in 1 .. Len(q) \/ k \in Len(q) + 1 .. Len(r)
  BY <1>1, <1>5, <1>8
<1>9. ASSUME NEW k \in 1 .. Len(q)
      PROVE  /\ PlaceOf(s, q[k][1]) \in 1 .. n /\ Script[s][PlaceOf(s, q[k][1])] = q[k][1]
             /\ q[k][2] \in 1 .. Length[q[k][1]] /\ Length[q[k][1]] \in Nat
             /\ k + Length[q[k][1]] - q[k][2] <= Len(q)
  <2>1. Length[q[k][1]] \in Nat
    BY CharsAreTyped
  <2> QED BY <2>1 DEF Stream, Known, Whole
<1>10. Known(s, r, n + 1)
  <2> SUFFICES ASSUME NEW k \in 1 .. Len(r)
               PROVE  /\ PlaceOf(s, r[k][1]) \in 1 .. n + 1
                      /\ Script[s][PlaceOf(s, r[k][1])] = r[k][1]
                      /\ r[k][2] \in 1 .. Length[r[k][1]]
    BY DEF Known
  <2>1. CASE k \in 1 .. Len(q)
    <3>1. r[k] = q[k]
      BY <1>6, <2>1
    <3>2. /\ PlaceOf(s, q[k][1]) \in 1 .. n + 1 /\ Script[s][PlaceOf(s, q[k][1])] = q[k][1]
          /\ q[k][2] \in 1 .. Length[q[k][1]]
      BY <1>1, <1>9, <2>1
    <3> QED BY <3>1, <3>2
  <2>2. CASE k \in Len(q) + 1 .. Len(r)
    BY <1>1, <1>2, <1>4, <1>7, <2>2 DEF len
  <2> QED BY <1>8, <2>1, <2>2
<1>11. Ordered(s, r)
  <2> SUFFICES ASSUME NEW k \in 1 .. Len(r), NEW l \in 1 .. Len(r), k < l
               PROVE  \/ PlaceOf(s, r[k][1]) < PlaceOf(s, r[l][1])
                      \/ r[k][1] = r[l][1] /\ r[k][2] < r[l][2]
    BY DEF Ordered
  <2>1. CASE l \in 1 .. Len(q)
    <3>1. k \in 1 .. Len(q)
      BY <1>1, <2>1
    <3> QED BY <1>6, <2>1, <3>1 DEF Stream, Ordered
  <2>2. CASE k \in 1 .. Len(q) /\ l \in Len(q) + 1 .. Len(r)
    <3>1. PlaceOf(s, r[k][1]) \in 1 .. n /\ PlaceOf(s, r[l][1]) = n + 1
      BY <1>2, <1>6, <1>7, <1>9, <2>2
    <3> QED BY <1>1, <3>1
  <2>3. CASE k \in Len(q) + 1 .. Len(r) /\ l \in Len(q) + 1 .. Len(r)
    <3>1. r[k][1] = r[l][1] /\ r[k][2] = k - Len(q) /\ r[l][2] = l - Len(q)
      BY <1>7, <2>3
    <3> QED BY <1>1, <3>1
  <2> QED BY <1>1, <1>8, <2>1, <2>2, <2>3
<1>12. Onward(r)
  <2> SUFFICES ASSUME NEW k \in 1 .. Len(r), NEW d \in 0 .. Length[r[k][1]] - r[k][2],
                      k + d <= Len(r)
               PROVE  r[k + d] = <<r[k][1], r[k][2] + d>>
    BY DEF Onward
  <2>1. CASE k \in 1 .. Len(q)
    <3>1. r[k] = q[k] /\ d \in 0 .. Length[q[k][1]] - q[k][2]
      BY <1>6, <2>1
    <3>2. k + d \in 1 .. Len(q)
      BY <1>1, <1>9, <2>1, <3>1, SMTT(20)
    <3>3. Onward(q)
      BY DEF Stream
    <3>4. q[k + d] = <<q[k][1], q[k][2] + d>>
      BY <2>1, <3>1, <3>2, <3>3 DEF Onward
    <3> QED BY <1>6, <3>1, <3>2, <3>4
  <2>2. CASE k \in Len(q) + 1 .. Len(r)
    <3>1. r[k][1] = m /\ r[k][2] = k - Len(q) /\ Length[r[k][1]] = len
      BY <1>7, <2>2 DEF len
    <3>2. k + d \in Len(q) + 1 .. Len(r) /\ k + d - Len(q) = k - Len(q) + d
      BY <1>1, <1>3, <1>5, <2>2, <3>1
    <3> QED BY <1>7, <3>1, <3>2
  <2> QED BY <1>8, <2>1, <2>2
<1>13. Backward(r)
  <2> SUFFICES ASSUME NEW k \in 2 .. Len(r), r[k][2] # 1
               PROVE  r[k - 1] = <<r[k][1], r[k][2] - 1>>
    BY DEF Backward
  <2>1. CASE k \in 2 .. Len(q)
    <3>1. k - 1 \in 1 .. Len(q) /\ k \in 1 .. Len(q)
      BY <1>1, <2>1
    <3>2. r[k] = q[k] /\ r[k - 1] = q[k - 1]
      BY <1>6, <3>1
    <3> QED BY <2>1, <3>2 DEF Stream, Backward
  <2>2. CASE k \in Len(q) + 1 .. Len(r)
    <3>1. r[k][1] = m /\ r[k][2] = k - Len(q)
      BY <1>7, <2>2
    <3>2. k \in Int /\ Len(r) \in Int /\ k - Len(q) # 1
      BY <1>1, <1>3, <1>5, <2>2, <3>1
    <3>3. k - 1 \in Len(q) + 1 .. Len(r) /\ k - 1 - Len(q) = k - Len(q) - 1
      BY <1>1, <2>2, <3>2
    <3>4. r[k - 1] = <<m, k - 1 - Len(q)>>
      BY <1>7, <3>3
    <3> QED BY <3>1, <3>3, <3>4
  <2>3. k \in 2 .. Len(q) \/ k \in Len(q) + 1 .. Len(r)
    BY <1>1, <1>5
  <2> QED BY <2>1, <2>2, <2>3
<1>14. NoneLeftOut(s, r)
  <2> SUFFICES ASSUME NEW k \in 2 .. Len(r),
                      NEW j \in PlaceOf(s, r[k - 1][1]) + 1 .. PlaceOf(s, r[k][1]) - 1
               PROVE  ~Request(Script[s][j])
    BY DEF NoneLeftOut
  <2>1. CASE k \in 2 .. Len(q)
    <3>1. k - 1 \in 1 .. Len(q) /\ k \in 1 .. Len(q)
      BY <1>1, <2>1
    <3>2. r[k] = q[k] /\ r[k - 1] = q[k - 1]
      BY <1>6, <3>1
    <3> QED BY <2>1, <3>2 DEF Stream, NoneLeftOut
  <2>2. CASE k = Len(q) + 1
    <3>1. k - 1 = Len(q) /\ Len(q) \in 1 .. Len(q) /\ k \in Len(q) + 1 .. Len(r)
      BY <1>1, <2>2
    <3>2. r[k - 1] = q[Len(q)] /\ r[k][1] = m /\ q # << >>
      BY <1>6, <1>7, <3>1
    <3>3. j \in PlaceOf(s, q[Len(q)][1]) + 1 .. n
      BY <1>1, <1>2, <3>2
    <3> QED BY <3>2, <3>3 DEF Last
  <2>3. CASE k \in Len(q) + 2 .. Len(r)
    <3>1. k - 1 \in Len(q) + 1 .. Len(r) /\ k \in Len(q) + 1 .. Len(r)
      BY <1>1, <2>3
    <3>2. r[k - 1][1] = m /\ r[k][1] = m
      BY <1>7, <3>1
    <3> QED BY <1>1, <1>2, <3>2
  <2>4. k \in 2 .. Len(q) \/ k = Len(q) + 1 \/ k \in Len(q) + 2 .. Len(r)
    BY <1>1, <1>5
  <2> QED BY <2>1, <2>2, <2>3, <2>4
<1>15. Whole(r)
  <2> SUFFICES ASSUME NEW k \in 1 .. Len(r)
               PROVE  k + Length[r[k][1]] - r[k][2] <= Len(r)
    BY DEF Whole
  <2>1. CASE k \in 1 .. Len(q)
    <3>1. r[k] = q[k]
      BY <1>6, <2>1
    <3>2. k + Length[q[k][1]] - q[k][2] <= Len(q)
      BY <1>9, <2>1
    <3>3. k + Length[q[k][1]] - q[k][2] \in Int
      BY <1>9, <2>1
    <3> QED BY <1>1, <1>3, <1>5, <3>1, <3>2, <3>3
  <2>2. CASE k \in Len(q) + 1 .. Len(r)
    <3>1. r[k][2] = k - Len(q) /\ Length[r[k][1]] = len
      BY <1>7, <2>2 DEF len
    <3> QED BY <1>1, <1>3, <1>5, <3>1
  <2> QED BY <1>8, <2>1, <2>2
<1>16. Last(s, r, n + 1)
  <2>1. Len(r) \in Len(q) + 1 .. Len(r)
    BY <1>1, <1>3, <1>5
  <2>2. PlaceOf(s, r[Len(r)][1]) = n + 1
    BY <1>2, <1>7, <2>1
  <2> QED BY <1>1, <2>2 DEF Last
<1>17. Stream(s, r, n + 1)
  BY <1>1, <1>5, <1>10, <1>11, <1>12, <1>13, <1>14 DEF Stream
<1> QED BY <1>15, <1>16, <1>17 DEF r, c, m

(* The message at the head of a stream, as far as it is there.              *)
LEMMA HeadIs ==
  ASSUME NEW s \in Sessions, NEW n, NEW q, Stream(s, q, n), q # << >>,
         NEW k \in 1 .. Len(q), k <= Length[q[1][1]] - q[1][2] + 1
  PROVE  q[k] = <<q[1][1], q[1][2] + k - 1>>
<1>1. Len(q) \in Nat /\ 1 \in 1 .. Len(q) /\ q[1][2] \in Nat /\ Length[q[1][1]] \in Nat
  <2>1. 1 \in 1 .. Len(q)
    OBVIOUS
  <2> QED BY <2>1, CharsAreTyped
<1>2. k - 1 \in 0 .. Length[q[1][1]] - q[1][2] /\ 1 + (k - 1) = k /\ 1 + (k - 1) <= Len(q)
      /\ q[1][2] + (k - 1) = q[1][2] + k - 1
  BY <1>1
<1>3. q[1 + (k - 1)] = <<q[1][1], q[1][2] + (k - 1)>>
  BY <1>1, <1>2 DEF Stream, Onward
<1> QED BY <1>2, <1>3
-----------------------------------------------------------------------------
(* What is unread of a connection, and how the steps of the daemon and of   *)
(* the client move it.                                                      *)

Unread(s) == Live(s) \o wire[s]

LEMMA UnreadTypes ==
  ASSUME TypeInv, NEW s \in Sessions
  PROVE  /\ buffer[s] \in Seq(Chars) /\ bufferOffset[s] \in 0 .. Len(buffer[s])
         /\ Live(s) = Rest(buffer[s], bufferOffset[s])
         /\ Live(s) \in Seq(Chars) /\ wire[s] \in Seq(Chars) /\ Unread(s) \in Seq(Chars)
         /\ Len(Live(s)) \in Nat /\ Len(wire[s]) \in Nat
         /\ Len(Unread(s)) = Len(Live(s)) + Len(wire[s])
         /\ \A k \in 1 .. Len(Live(s)) : Unread(s)[k] = Live(s)[k]
<1>1. /\ buffer[s] \in Seq(Chars) /\ bufferOffset[s] \in 0 .. Len(buffer[s])
      /\ wire[s] \in Seq(Chars)
  BY Groups DEF BufferOK, ClientOK
<1>2. Live(s) \in Seq(Chars)
  BY LiveIsSeq
<1>3. /\ Unread(s) \in Seq(Chars) /\ Len(Unread(s)) = Len(Live(s)) + Len(wire[s])
      /\ \A k \in 1 .. Len(Live(s)) + Len(wire[s]) :
           Unread(s)[k] = IF k <= Len(Live(s)) THEN Live(s)[k] ELSE wire[s][k - Len(Live(s))]
  BY <1>1, <1>2, ConcatProperties DEF Unread
<1>4. \A k \in 1 .. Len(Live(s)) : Unread(s)[k] = Live(s)[k]
  BY <1>1, <1>2, <1>3
<1> QED BY <1>1, <1>2, <1>3, <1>4 DEF Live, Rest

(* Steps that touch neither buffer nor wire of a session.                   *)
LEMMA UnreadStays ==
  ASSUME NEW s \in Sessions, UNCHANGED <<buffer[s], bufferOffset[s], wire[s]>>
  PROVE  Unread(s)' = Unread(s) /\ Live(s)' = Live(s)
  BY DEF Unread, Live

(* onData moves characters, it consumes none.                               *)
LEMMA ReadMoves ==
  ASSUME TypeInv, NEW s \in Sessions, OnData(s)
  PROVE  \A t \in Sessions : Unread(t)' = Unread(t)
<1>1. PICK n \in 1 .. Len(wire[s]) :
        /\ wire' = [wire EXCEPT ![s] = SubSeq(@, n + 1, Len(@))]
        /\ buffer' = [buffer EXCEPT ![s] = @ \o SubSeq(wire[s], 1, n)]
  BY DEF OnData
<1>2. bufferOffset' = bufferOffset
  BY DEF OnData
<1>3. buffer \in [Sessions -> Seq(Chars)] /\ wire \in [Sessions -> Seq(Chars)]
  BY Groups DEF BufferOK, ClientOK
<1>4. ASSUME NEW t \in Sessions, t # s PROVE Unread(t)' = Unread(t)
  BY <1>1, <1>2, <1>3, <1>4, UnreadStays
<1>5. Unread(s)' = Unread(s)
  <2> DEFINE b == buffer[s]
             w == wire[s]
             o == bufferOffset[s]
             read == SubSeq(w, 1, n)
  <2>1. b \in Seq(Chars) /\ w \in Seq(Chars) /\ o \in 0 .. Len(b) /\ n \in 0 .. Len(w)
    BY UnreadTypes
  <2>2. buffer'[s] = b \o read /\ wire'[s] = Rest(w, n) /\ bufferOffset'[s] = o
    BY <1>1, <1>2, <1>3 DEF Rest
  <2>3. Live(s) = Rest(b, o) /\ Unread(s) = Rest(b, o) \o w
    BY DEF Live, Rest, Unread
  <2>4. Live(s)' = Rest(b \o read, o)
    BY <2>2 DEF Live, Rest
  <2>5. Unread(s)' = Rest(b \o read, o) \o Rest(w, n)
    BY <2>2, <2>4 DEF Unread
  <2> HIDE DEF b, w, o
  <2>6. read \in Seq(Chars) /\ Rest(w, n) \in Seq(Chars) /\ Rest(b, o) \in Seq(Chars)
    BY <2>1, PrefixIs, RestIs
  <2>7. read \o Rest(w, n) = w
    <3>1. /\ Len(w) \in Nat /\ 1 \in 1 .. Len(w) + 1 /\ n \in 1 - 1 .. Len(w)
          /\ Len(w) \in n .. Len(w)
      BY <2>1
    <3>2. SubSeq(w, 1, n) \o SubSeq(w, n + 1, Len(w)) = SubSeq(w, 1, Len(w))
      BY <2>1, <3>1, ConcatAdjacentSubSeq
    <3>3. SubSeq(w, 1, Len(w)) = w
      BY <2>1, SubSeqFull
    <3> QED BY <3>2, <3>3 DEF Rest
  <2> HIDE DEF read
  <2>8. Rest(b \o read, o) = Rest(b, o) \o read
    BY <2>1, <2>6, RestOfConcat
  <2>9. (Rest(b, o) \o read) \o Rest(w, n) = Rest(b, o) \o (read \o Rest(w, n))
    BY <2>6, ConcatAssociative, SMTT(20)
  <2> QED BY <2>3, <2>5, <2>7, <2>8, <2>9
<1> QED BY <1>4, <1>5

(* A step of session s leaves the first n characters behind.                *)
Takes(s, n) ==
  /\ n \in 0 .. Len(Live(s))
  /\ Live(s)' = Rest(Live(s), n)
  /\ Unread(s)' = Rest(Unread(s), n)
  /\ \A t \in Sessions : t # s => Unread(t)' = Unread(t)

LEMMA TakenIs ==
  ASSUME TypeInv, NEW s \in Sessions, NEW n \in 0 .. Len(Live(s)),
         Live(s)' = Rest(Live(s), n), wire' = wire,
         \A t \in Sessions : t # s => UNCHANGED <<buffer[t], bufferOffset[t]>>
  PROVE  Takes(s, n)
<1>1. Unread(s)' = Rest(Live(s), n) \o wire[s]
  BY DEF Unread
<1>2. Live(s) \in Seq(Chars) /\ wire[s] \in Seq(Chars)
  BY UnreadTypes
<1>3. Rest(Live(s), n) \o wire[s] = Rest(Live(s) \o wire[s], n)
  BY <1>2, RestOfConcat
<1>4. \A t \in Sessions : t # s => Unread(t)' = Unread(t)
  BY UnreadStays
<1> QED BY <1>1, <1>3, <1>4 DEF Takes, Unread

(* consumeBuffer, whether it drops the dead prefix or not.                  *)
LEMMA ConsumeTakes ==
  ASSUME TypeInv, NEW s \in Sessions, NEW n \in 0 .. Len(Live(s)), ConsumeBuffer(s, n),
         wire' = wire
  PROVE  Takes(s, n)
<1> DEFINE b == buffer[s]
           o == bufferOffset[s]
<1>1. /\ b \in Seq(Chars) /\ o \in 0 .. Len(b) /\ Live(s) = Rest(b, o) /\ Len(b) \in Nat
      /\ Len(Live(s)) = Len(b) - o
  BY UnreadTypes, LiveIsSeq
<1>2. buffer \in [Sessions -> Seq(Chars)] /\ bufferOffset \in [Sessions -> Nat]
  BY Groups DEF BufferOK
<1>3. \A t \in Sessions : t # s => UNCHANGED <<buffer[t], bufferOffset[t]>>
  BY <1>2 DEF ConsumeBuffer
<1>4. n \in 0 .. Len(b) - o /\ o + n \in 0 .. Len(b)
  BY <1>1
<1>5. Rest(Live(s), n) = Rest(b, o + n)
  BY <1>1, <1>4, RestOfRest
<1>6. CASE o + n > COMPACT_AT
  <2>1. buffer'[s] = Rest(b, o + n) /\ bufferOffset'[s] = 0
    BY <1>2, <1>6 DEF ConsumeBuffer, Rest
  <2>2. Live(s)' = SubSeq(Rest(b, o + n), 1, Len(Rest(b, o + n)))
    BY <2>1 DEF Live
  <2>3. Rest(b, o + n) \in Seq(Chars)
    BY <1>1, <1>4, RestIs
  <2>4. Live(s)' = Rest(b, o + n)
    BY <2>2, <2>3, SubSeqFull
  <2> QED BY <1>3, <1>5, <2>4, TakenIs
<1>7. CASE ~(o + n > COMPACT_AT)
  <2>1. buffer'[s] = b /\ bufferOffset'[s] = o + n
    BY <1>2, <1>7 DEF ConsumeBuffer
  <2>2. Live(s)' = Rest(b, o + n)
    BY <2>1 DEF Live, Rest
  <2> QED BY <1>3, <1>5, <2>2, TakenIs
<1> QED BY <1>6, <1>7

(* A buffer that is replaced by its end.                                    *)
LEMMA ReplaceTakes ==
  ASSUME TypeInv, NEW s \in Sessions, NEW n \in 0 .. Len(Live(s)), wire' = wire,
         buffer' = [buffer EXCEPT ![s] = Rest(Live(s), n)],
         bufferOffset' = [bufferOffset EXCEPT ![s] = 0]
  PROVE  Takes(s, n)
<1>1. buffer \in [Sessions -> Seq(Chars)] /\ bufferOffset \in [Sessions -> Nat]
  BY Groups DEF BufferOK
<1>2. Live(s)' = SubSeq(Rest(Live(s), n), 1, Len(Rest(Live(s), n)))
  BY <1>1 DEF Live
<1>3. Rest(Live(s), n) \in Seq(Chars)
  BY UnreadTypes, RestIs
<1>4. Live(s)' = Rest(Live(s), n)
  BY <1>2, <1>3, SubSeqFull
<1>5. \A t \in Sessions : t # s => UNCHANGED <<buffer[t], bufferOffset[t]>>
  BY <1>1
<1> QED BY <1>4, <1>5, TakenIs

(* A line takes its characters off the head, also when it ends the daemon.  *)
LEMMA LineTakes ==
  ASSUME TypeInv, NEW s \in Sessions, ProcessLine(s)
  PROVE  /\ UNCHANGED clientVars
         /\ \E n \in 1 .. Len(Live(s)) :
              /\ IsFirstNewline(Live(s), n)
              /\ Takes(s, n)
              /\ LET m == MessageOf(SubSeq(Live(s), 1, n))
                 IN  \/ stage[s] = "AUTH" /\ HandleAuth(s, m)
                     \/ stage[s] = "HEADER" /\ HandleHeader(s, m)
<1>1. PICK n \in DOMAIN Live(s) :
        /\ IsFirstNewline(Live(s), n)
        /\ ConsumeBuffer(s, n)
        /\ \/ stage[s] = "AUTH" /\ HandleAuth(s, MessageOf(SubSeq(Live(s), 1, n)))
           \/ stage[s] = "HEADER" /\ HandleHeader(s, MessageOf(SubSeq(Live(s), 1, n)))
  BY DEF ProcessLine
<1>2. UNCHANGED clientVars
  <2>1. CASE HandleAuth(s, MessageOf(SubSeq(Live(s), 1, n)))
    BY <2>1 DEF HandleAuth
  <2>2. CASE HandleHeader(s, MessageOf(SubSeq(Live(s), 1, n)))
    BY <2>2 DEF HandleHeader, HandleCommand, HandlePush, HandleFileStart, HandleUnknown,
                Terminates
  <2> QED BY <1>1, <2>1, <2>2
<1>3. n \in 1 .. Len(Live(s)) /\ n \in 0 .. Len(Live(s))
  BY UnreadTypes
<1>4. Takes(s, n)
  BY <1>1, <1>2, <1>3, ConsumeTakes DEF clientVars
<1> QED BY <1>1, <1>2, <1>3, <1>4

(* handleFileData takes what it writes, and an end mark behind the file.    *)
LEMMA DataTakes ==
  ASSUME TypeInv, NEW s \in Sessions, HandleFileData(s)
  PROVE  /\ UNCHANGED clientVars
         /\ \E n \in 1 .. ToWrite(s) :
              /\ n \in 1 .. Len(Live(s))
              /\ disk' = [disk EXCEPT ![Name[fileReq[s]]] =
                            WriteAt(@, received[s], SubSeq(Live(s), 1, n))]
              /\ \/ WriteSome(s, n) /\ Takes(s, n)
                 \/ WriteCompletes(s, n) /\ Takes(s, n + SentinelLength(Rest(Live(s), n)))
<1>1. UNCHANGED clientVars
  BY DEF HandleFileData
<1>2. PICK n \in 1 .. ToWrite(s) :
        /\ disk' = [disk EXCEPT ![Name[fileReq[s]]] =
                      WriteAt(@, received[s], SubSeq(Live(s), 1, n))]
        /\ WriteSome(s, n) \/ WriteCompletes(s, n)
  BY DEF HandleFileData
<1>3. /\ fileReq[s] \in Msgs /\ Size[fileReq[s]] \in Int /\ received[s] \in Nat
      /\ Live(s) \in Seq(Chars) /\ Len(Live(s)) \in Nat
  BY Groups, UnreadTypes, ScriptAssumption DEF HandleFileData, RequestOK, FileOK
<1>4. n \in 1 .. Len(Live(s)) /\ n \in 0 .. Len(Live(s))
  BY <1>3 DEF ToWrite
<1>5. CASE WriteSome(s, n)
  <2>1. Takes(s, n)
    BY <1>1, <1>4, <1>5, ConsumeTakes DEF WriteSome, clientVars
  <2> QED BY <1>1, <1>2, <1>4, <1>5, <2>1
<1>6. CASE WriteCompletes(s, n)
  <2> DEFINE rest == Rest(Live(s), n)
             k == SentinelLength(rest)
  <2>1. rest \in Seq(Chars) /\ Len(rest) = Len(Live(s)) - n
    BY <1>3, <1>4, RestIs
  <2>2. k \in 0 .. Len(rest)
    BY <2>1, SentinelIsPrefix
  <2>3. k \in 0 .. Len(Live(s)) - n /\ n + k \in 0 .. Len(Live(s))
    BY <1>3, <1>4, <2>1, <2>2
  <2>4. Rest(rest, k) = Rest(Live(s), n + k)
    BY <1>3, <1>4, <2>3, RestOfRest
  <2>5. /\ buffer' = [buffer EXCEPT ![s] = Rest(rest, k)]
        /\ bufferOffset' = [bufferOffset EXCEPT ![s] = 0]
    BY <1>6 DEF WriteCompletes, Rest
  <2>6. Takes(s, n + k)
    BY <1>1, <2>3, <2>4, <2>5, ReplaceTakes DEF clientVars
  <2> QED BY <1>1, <1>2, <1>4, <1>6, <2>6
<1> QED BY <1>2, <1>5, <1>6

(* A write that fails takes everything that was read.                       *)
LEMMA FailureTakes ==
  ASSUME TypeInv, NEW s \in Sessions, WriteFails(s)
  PROVE  UNCHANGED clientVars /\ Takes(s, Len(Live(s)))
<1>1. UNCHANGED clientVars
  BY DEF WriteFails
<1>2. Live(s) \in Seq(Chars) /\ Len(Live(s)) \in Nat
  BY UnreadTypes
<1>3. Rest(Live(s), Len(Live(s))) \in Seq(Chars) /\ Len(Rest(Live(s), Len(Live(s)))) = 0
  BY <1>2, RestIs
<1>4. Rest(Live(s), Len(Live(s))) = << >>
  BY <1>3
<1>5. /\ buffer' = [buffer EXCEPT ![s] = Rest(Live(s), Len(Live(s)))]
      /\ bufferOffset' = [bufferOffset EXCEPT ![s] = 0]
  BY <1>4 DEF WriteFails, ClearBuffer
<1>6. Len(Live(s)) \in 0 .. Len(Live(s)) /\ wire' = wire
  BY <1>1, <1>2 DEF clientVars
<1>7. Takes(s, Len(Live(s)))
  BY <1>5, <1>6, ReplaceTakes
<1> QED BY <1>1, <1>7

(* The other steps of the daemon, the PIN thread and the clock take none.   *)
LEMMA OthersTakeNone ==
  ASSUME TypeInv,
         \/ \E s \in Sessions : \/ AcceptConnection(s) \/ WouldBlock(s) \/ RemoveClient(s)
                                \/ ProcessBufferReturns(s) \/ OnData(s)
         \/ RotatePin \/ Tick \/ UNCHANGED vars
  PROVE  /\ UNCHANGED <<sent, peer>>
         /\ \A t \in Sessions : Unread(t)' = Unread(t)
<1>1. CASE \E s \in Sessions : OnData(s)
  BY <1>1, ReadMoves DEF OnData
<1>2. CASE ~\E s \in Sessions : OnData(s)
  <2>1. UNCHANGED <<sent, peer, buffer, bufferOffset, wire>>
    BY <1>2 DEF AcceptConnection, WouldBlock, RemoveClient, ProcessBufferReturns, RotatePin,
                Tick, vars, bufferVars, clientVars
  <2> QED BY <2>1, UnreadStays
<1> QED BY <1>1, <1>2

-----------------------------------------------------------------------------
(* Every connection carries a stream. *)

StreamInv ==
  \A s \in Sessions :
    /\ Stream(s, Unread(s), sent[s])
    /\ peer[s] = "up" => Whole(Unread(s)) /\ Last(s, Unread(s), sent[s])

LEMMA TakingStreams ==
  ASSUME TypeInv, StreamInv, NEW s \in Sessions, NEW n, Takes(s, n), UNCHANGED clientVars
  PROVE  StreamInv'
<1>1. n \in 0 .. Len(Unread(s))
  BY UnreadTypes DEF Takes
<1>2. sent' = sent /\ peer' = peer
  BY DEF clientVars
<1>3. ASSUME NEW t \in Sessions
      PROVE  /\ Stream(t, Unread(t)', sent'[t])
             /\ peer'[t] = "up" => Whole(Unread(t)') /\ Last(t, Unread(t)', sent'[t])
  <2>1. CASE t = s
    <3>1. Unread(t)' = Rest(Unread(s), n)
      BY <2>1 DEF Takes
    <3> QED BY <1>1, <1>2, <2>1, <3>1, RestStreams DEF StreamInv
  <2>2. CASE t # s
    <3>1. Unread(t)' = Unread(t)
      BY <2>2 DEF Takes
    <3> QED BY <1>2, <3>1 DEF StreamInv
  <2> QED BY <2>1, <2>2
<1> QED BY <1>3 DEF StreamInv

LEMMA SendAppends ==
  ASSUME TypeInv, NEW s \in Sessions, ClientSend(s), NEW m, m = Script[s][sent[s] + 1]
  PROVE  /\ sent' = [sent EXCEPT ![s] = @ + 1] /\ peer' = peer /\ peer[s] = "up"
         /\ sent[s] < Len(Script[s]) /\ sent'[s] = sent[s] + 1
         /\ \A t \in Sessions : t # s => Unread(t)' = Unread(t) /\ sent'[t] = sent[t]
         /\ \/ MaySend(s, m) /\ Unread(s)' = Unread(s) \o CharsOf(m)
            \/ /\ Kind[m] \in {"body", "sentinel"} /\ Got(s, ReqOf[m], "CMD_FAIL")
               /\ Unread(s)' = Unread(s)
<1>1. /\ sent' = [sent EXCEPT ![s] = @ + 1] /\ peer' = peer /\ peer[s] = "up"
      /\ sent[s] < Len(Script[s])
      /\ UNCHANGED <<buffer, bufferOffset>>
  BY DEF ClientSend, bufferVars
<1>2. \/ MaySend(s, m) /\ wire' = [wire EXCEPT ![s] = @ \o CharsOf(m)]
      \/ /\ Kind[m] \in {"body", "sentinel"} /\ Got(s, ReqOf[m], "CMD_FAIL")
         /\ UNCHANGED wire
  BY DEF ClientSend
<1>3. sent \in [Sessions -> Nat] /\ wire \in [Sessions -> Seq(Chars)]
  BY Groups DEF ClientOK
<1>4. ASSUME NEW t \in Sessions, t # s PROVE Unread(t)' = Unread(t) /\ sent'[t] = sent[t]
  BY <1>1, <1>3, <1>4, <1>2, UnreadStays
<1>5. sent'[s] = sent[s] + 1
  BY <1>1, <1>3
<1>6. /\ sent' = [sent EXCEPT ![s] = @ + 1] /\ peer' = peer /\ peer[s] = "up"
      /\ sent[s] < Len(Script[s]) /\ sent'[s] = sent[s] + 1
      /\ \A t \in Sessions : t # s => Unread(t)' = Unread(t) /\ sent'[t] = sent[t]
  BY <1>1, <1>4, <1>5
<1>7. CASE MaySend(s, m) /\ wire' = [wire EXCEPT ![s] = @ \o CharsOf(m)]
  <2>1. wire'[s] = wire[s] \o CharsOf(m) /\ Live(s)' = Live(s)
    BY <1>1, <1>3, <1>7 DEF Live
  <2>2. Unread(s)' = Live(s) \o (wire[s] \o CharsOf(m))
    BY <2>1 DEF Unread
  <2>3. sent[s] + 1 \in 1 .. Len(Script[s])
    BY <1>1, <1>3, ScriptAssumption
  <2>4. m \in Msgs
    BY <2>3, PlaceIs
  <2>5. Live(s) \in Seq(Chars) /\ wire[s] \in Seq(Chars) /\ CharsOf(m) \in Seq(Chars)
    BY <2>4, UnreadTypes, CharsOfIsSeq
  <2>6. Unread(s)' = Unread(s) \o CharsOf(m)
    <3> DEFINE l == Live(s)
               w == wire[s]
               c == CharsOf(m)
    <3>1. l \in Seq(Chars) /\ w \in Seq(Chars) /\ c \in Seq(Chars)
      BY <2>5
    <3> HIDE DEF l, w, c
    <3>2. l \o (w \o c) = (l \o w) \o c
      BY <3>1, ConcatAssociative
    <3>3. Live(s) \o (wire[s] \o CharsOf(m)) = (Live(s) \o wire[s]) \o CharsOf(m)
      BY <3>2 DEF l, w, c
    <3>4. Unread(s) = Live(s) \o wire[s]
      BY DEF Unread
    <3> QED BY <2>2, <3>3, <3>4
  <2> QED BY <1>7, <1>6, <2>6
<1>8. CASE /\ Kind[m] \in {"body", "sentinel"} /\ Got(s, ReqOf[m], "CMD_FAIL")
           /\ UNCHANGED wire
  <2>1. Unread(s)' = Unread(s)
    BY <1>1, <1>8, UnreadStays
  <2> QED BY <1>8, <1>6, <2>1
<1> QED BY <1>7, <1>8, <1>2

LEMMA SendingStreams ==
  ASSUME TypeInv, StreamInv, NEW s \in Sessions, ClientSend(s)
  PROVE  StreamInv'
<1> DEFINE m == Script[s][sent[s] + 1]
<1>1. /\ sent' = [sent EXCEPT ![s] = @ + 1] /\ peer' = peer /\ peer[s] = "up"
      /\ sent[s] < Len(Script[s]) /\ sent'[s] = sent[s] + 1
      /\ \A t \in Sessions : t # s => Unread(t)' = Unread(t) /\ sent'[t] = sent[t]
      /\ \/ MaySend(s, m) /\ Unread(s)' = Unread(s) \o CharsOf(m)
         \/ /\ Kind[m] \in {"body", "sentinel"} /\ Got(s, ReqOf[m], "CMD_FAIL")
            /\ Unread(s)' = Unread(s)
  BY SendAppends
<1>2. Stream(s, Unread(s), sent[s]) /\ Whole(Unread(s)) /\ Last(s, Unread(s), sent[s])
  BY <1>1 DEF StreamInv
<1>3. /\ Stream(s, Unread(s)', sent'[s])
      /\ Whole(Unread(s)') /\ Last(s, Unread(s)', sent'[s])
  <2>1. CASE Unread(s)' = Unread(s) \o CharsOf(m)
    BY <1>1, <1>2, <2>1, SentStreams
  <2>2. CASE Kind[m] \in {"body", "sentinel"} /\ Unread(s)' = Unread(s)
    <3>1. ~Request(m)
      BY <2>2 DEF Request
    <3> QED BY <1>1, <1>2, <2>2, <3>1, SkipStreams
  <2> QED BY <1>1, <2>1, <2>2
<1>4. ASSUME NEW t \in Sessions
      PROVE  /\ Stream(t, Unread(t)', sent'[t])
             /\ peer'[t] = "up" => Whole(Unread(t)') /\ Last(t, Unread(t)', sent'[t])
  <2>1. CASE t = s
    BY <1>3, <2>1
  <2>2. CASE t # s
    BY <1>1, <2>2 DEF StreamInv
  <2> QED BY <2>1, <2>2
<1> QED BY <1>4 DEF StreamInv

(* A client that goes away sends no more; a reset loses the wire.           *)
LEMMA LeavesIs ==
  ASSUME TypeInv, NEW s \in Sessions, ClientLeaves(s)
  PROVE  /\ sent' = sent /\ peer'[s] # "up"
         /\ \A t \in Sessions : t # s => Unread(t)' = Unread(t) /\ peer'[t] = peer[t]
         /\ \E n \in 0 .. Len(Unread(s)) : Unread(s)' = SubSeq(Unread(s), 1, n)
<1>1. PICK how \in PeerFaults :
        /\ peer' = [peer EXCEPT ![s] = how]
        /\ wire' = [wire EXCEPT ![s] = IF how = "reset" THEN << >> ELSE @]
  BY DEF ClientLeaves
<1>2. UNCHANGED <<buffer, bufferOffset, sent>>
  BY DEF ClientLeaves, bufferVars
<1>3. peer \in [Sessions -> {"up", "fin", "reset"}] /\ wire \in [Sessions -> Seq(Chars)]
  BY Groups DEF ClientOK
<1>4. peer'[s] # "up"
  BY <1>1, <1>3, FaultAssumption
<1>5. ASSUME NEW t \in Sessions, t # s
      PROVE  Unread(t)' = Unread(t) /\ peer'[t] = peer[t]
  BY <1>1, <1>2, <1>3, <1>5, UnreadStays
<1>6. /\ Live(s) \in Seq(Chars) /\ wire[s] \in Seq(Chars) /\ Unread(s) \in Seq(Chars)
      /\ Len(Live(s)) \in 0 .. Len(Unread(s)) /\ Len(Unread(s)) \in 0 .. Len(Unread(s))
  BY UnreadTypes
<1>7. Live(s)' = Live(s)
  BY <1>2 DEF Live
<1>8. CASE how = "reset"
  <2>1. wire'[s] = << >>
    BY <1>1, <1>3, <1>8
  <2>2. Unread(s)' = Live(s)
    BY <1>6, <1>7, <2>1, ConcatEmptySeq DEF Unread
  <2>3. Live(s) = SubSeq(Unread(s), 1, Len(Live(s)))
    BY <1>6, FirstOfConcat DEF Unread
  <2> QED BY <1>2, <1>4, <1>5, <1>6, <2>2, <2>3
<1>9. CASE how # "reset"
  <2>1. wire'[s] = wire[s]
    BY <1>1, <1>3, <1>9
  <2>2. Unread(s)' = Unread(s)
    BY <1>7, <2>1 DEF Unread
  <2>3. Unread(s) = SubSeq(Unread(s), 1, Len(Unread(s)))
    BY <1>6, SubSeqFull
  <2> QED BY <1>2, <1>4, <1>5, <1>6, <2>2, <2>3
<1> QED BY <1>8, <1>9

LEMMA NextKeepsStreams == TypeInv /\ StreamInv /\ [Next]_vars => StreamInv'
<1> SUFFICES ASSUME TypeInv, StreamInv, [Next]_vars PROVE StreamInv'
  OBVIOUS
<1>1. ASSUME NEW s \in Sessions, ProcessLine(s) \/ WriteFails(s) \/ HandleFileData(s)
      PROVE  StreamInv'
  <2>1. \E n : Takes(s, n)
    BY <1>1, LineTakes, FailureTakes, DataTakes
  <2>2. UNCHANGED clientVars
    BY <1>1, LineTakes, FailureTakes, DataTakes
  <2> QED BY <2>1, <2>2, TakingStreams
<1>2. ASSUME NEW s \in Sessions, ClientSend(s) PROVE StreamInv'
  BY <1>2, SendingStreams
<1>3. ASSUME NEW s \in Sessions, ClientLeaves(s) PROVE StreamInv'
  <2>1. /\ sent' = sent /\ peer'[s] # "up"
        /\ \A t \in Sessions : t # s => Unread(t)' = Unread(t) /\ peer'[t] = peer[t]
        /\ \E n \in 0 .. Len(Unread(s)) : Unread(s)' = SubSeq(Unread(s), 1, n)
    BY <1>3, LeavesIs
  <2>2. Stream(s, Unread(s)', sent[s])
    BY <2>1, FirstStreams DEF StreamInv
  <2>3. ASSUME NEW t \in Sessions
        PROVE  /\ Stream(t, Unread(t)', sent'[t])
               /\ peer'[t] = "up" => Whole(Unread(t)') /\ Last(t, Unread(t)', sent'[t])
    BY <2>1, <2>2 DEF StreamInv
  <2> QED BY <2>3 DEF StreamInv
<1>4. ASSUME \/ \E s \in Sessions : \/ AcceptConnection(s) \/ WouldBlock(s) \/ RemoveClient(s)
                                    \/ ProcessBufferReturns(s) \/ OnData(s)
             \/ RotatePin \/ Tick \/ UNCHANGED vars
      PROVE  StreamInv'
  <2>1. UNCHANGED <<sent, peer>> /\ \A t \in Sessions : Unread(t)' = Unread(t)
    BY <1>4, OthersTakeNone
  <2> QED BY <2>1 DEF StreamInv
<1> QED BY <1>1, <1>2, <1>3, <1>4 DEF Next, ServerStep

LEMMA InitStreams == Init => StreamInv
<1> SUFFICES ASSUME Init, NEW s \in Sessions
             PROVE  /\ Stream(s, Unread(s), sent[s])
                    /\ peer[s] = "up" => Whole(Unread(s)) /\ Last(s, Unread(s), sent[s])
  BY DEF StreamInv
<1>1. buffer[s] = << >> /\ bufferOffset[s] = 0 /\ wire[s] = << >> /\ sent[s] = 0
  BY DEF Init
<1>2. Live(s) = << >>
  BY <1>1 DEF Live
<1>3. Unread(s) = << >>
  BY <1>1, <1>2 DEF Unread
<1>4. Len(Script[s]) \in Nat /\ << >> \in Seq(Char) /\ Len(<< >>) = 0
  BY ScriptAssumption
<1> QED BY <1>1, <1>3, <1>4
        DEF Stream, Known, Ordered, Onward, Backward, NoneLeftOut, Whole, Last

THEOREM StreamInvariant == Spec => []StreamInv
  BY InitStreams, NextKeepsStreams, TypeInvariant, PTL DEF Spec
-----------------------------------------------------------------------------
(* What one step does to the connection it is about. *)

(* The message that is read from the head, if it is one.                    *)
LEMMA LineIsMessage ==
  ASSUME TypeInv, StreamInv, NEW s \in Sessions, NEW n \in 1 .. Len(Live(s)), NEW m,
         m = MessageOf(SubSeq(Live(s), 1, n)), m # NoMsg
  PROVE  /\ m \in Msgs /\ n = Length[m]
         /\ \A k \in 1 .. n : Unread(s)[k] = <<m, k>>
         /\ PlaceOf(s, m) \in 1 .. sent[s] /\ Script[s][PlaceOf(s, m)] = m
         /\ \A k \in n + 1 .. Len(Unread(s)) :
              PlaceOf(s, m) < PlaceOf(s, Unread(s)[k][1])
<1> DEFINE line == SubSeq(Live(s), 1, n)
           q == Unread(s)
<1>1. /\ Live(s) \in Seq(Chars) /\ n \in 0 .. Len(Live(s)) /\ n \in Nat
      /\ n \in 1 .. Len(q) /\ 1 \in 1 .. Len(q) /\ Len(q) \in Nat
      /\ \A k \in 1 .. Len(Live(s)) : q[k] = Live(s)[k]
  BY UnreadTypes
<1>2. line \in Seq(Chars) /\ Len(line) = n /\ \A k \in 1 .. n : line[k] = Live(s)[k]
  BY <1>1, PrefixIs
<1>3. m \in Msgs /\ line = CharsOf(m)
  BY DEF MessageOf
<1>4. Length[m] \in Nat \ {0} /\ n = Length[m] /\ \A k \in 1 .. n : line[k] = <<m, k>>
  <2>1. /\ Length[m] \in Nat \ {0} /\ Len(CharsOf(m)) = Length[m]
        /\ \A j \in 1 .. Length[m] : CharsOf(m)[j] = <<m, j>>
    BY <1>3, CharsOfIs
  <2> QED BY <1>2, <1>3, <2>1
<1>5. ASSUME NEW k \in 1 .. n PROVE q[k] = <<m, k>>
  <2>1. k \in 1 .. Len(Live(s)) /\ line[k] = <<m, k>> /\ line[k] = Live(s)[k]
    BY <1>1, <1>2, <1>4
  <2> QED BY <1>1, <2>1
<1>6. Stream(s, q, sent[s])
  BY DEF StreamInv
<1> HIDE DEF q, line
<1>7. Known(s, q, sent[s]) /\ Ordered(s, q)
  BY <1>6 DEF Stream
<1>8. q[1][1] = m /\ q[n][1] = m /\ q[n][2] = n
  BY <1>1, <1>5
<1>9. PlaceOf(s, m) \in 1 .. sent[s] /\ Script[s][PlaceOf(s, m)] = m
  BY <1>1, <1>7, <1>8 DEF Known
<1>10. ASSUME NEW k \in n + 1 .. Len(q) PROVE PlaceOf(s, m) < PlaceOf(s, q[k][1])
  <2>1. k \in 1 .. Len(q) /\ n < k
    BY <1>1, <1>10
  <2>2. \/ PlaceOf(s, q[n][1]) < PlaceOf(s, q[k][1])
        \/ q[n][1] = q[k][1] /\ q[n][2] < q[k][2]
    BY <1>1, <1>7, <2>1 DEF Ordered
  <2>3. q[k][2] \in 1 .. Length[q[k][1]]
    BY <1>7, <2>1 DEF Known
  <2>4. ~(q[n][1] = q[k][1] /\ q[n][2] < q[k][2])
    BY <1>1, <1>4, <1>8, <2>3
  <2> QED BY <1>8, <2>2, <2>4
<1> QED BY <1>3, <1>4, <1>5, <1>9, <1>10 DEF q

LEMMA RepliesAfter ==
  ASSUME TypeInv, NEW s \in Sessions, NEW m, NEW r, SendResponse(s, m, r)
  PROVE  /\ replies'[s] = Append(replies[s], [to |-> m, is |-> r])
         /\ \A t \in Sessions : t # s => replies'[t] = replies[t]
         /\ Len(replies[s]) \in Nat /\ DOMAIN replies[s] = 1 .. Len(replies[s])
         /\ DOMAIN replies'[s] = 1 .. Len(replies[s]) + 1
         /\ Len(replies'[s]) = Len(replies[s]) + 1
         /\ \A i \in 1 .. Len(replies[s]) : replies'[s][i] = replies[s][i]
         /\ replies'[s][Len(replies[s]) + 1] = [to |-> m, is |-> r]
<1> DEFINE old == replies[s]
           new == replies'[s]
<1>1. replies \in [Sessions -> Seq(Reply)]
  BY Groups DEF ReplyOK, Reply
<1>2. new = Append(old, [to |-> m, is |-> r]) /\ old \in Seq(Reply)
      /\ \A t \in Sessions : t # s => replies'[t] = replies[t]
  BY <1>1 DEF SendResponse
<1> HIDE DEF old, new
<1>3. /\ Len(old) \in Nat /\ DOMAIN old = 1 .. Len(old) /\ DOMAIN new = 1 .. Len(old) + 1
      /\ Len(new) = Len(old) + 1
      /\ \A i \in 1 .. Len(old) : new[i] = old[i]
      /\ new[Len(old) + 1] = [to |-> m, is |-> r]
  BY <1>2
<1> QED BY <1>2, <1>3 DEF old, new

LEMMA GotAfter ==
  ASSUME TypeInv, NEW s \in Sessions, NEW m, NEW r, SendResponse(s, m, r)
  PROVE  \A x, y : Got(s, x, y)' <=> Got(s, x, y) \/ (x = m /\ y = r)
<1> SUFFICES ASSUME NEW x, NEW y
             PROVE  Got(s, x, y)' <=> Got(s, x, y) \/ (x = m /\ y = r)
  OBVIOUS
<1> DEFINE old == replies[s]
           new == replies'[s]
<1>1. /\ Len(old) \in Nat /\ DOMAIN old = 1 .. Len(old) /\ DOMAIN new = 1 .. Len(old) + 1
      /\ \A i \in 1 .. Len(old) : new[i] = old[i]
      /\ new[Len(old) + 1] = [to |-> m, is |-> r]
  BY RepliesAfter
<1> HIDE DEF old, new
<1>2. \A i : i \in DOMAIN new <=> i \in DOMAIN old \/ i = Len(old) + 1
  BY <1>1
<1>3. new[Len(old) + 1] = [to |-> x, is |-> y] <=> x = m /\ y = r
  BY <1>1
<1>4. (\E i \in DOMAIN new : new[i] = [to |-> x, is |-> y])
      <=> (\E i \in DOMAIN old : old[i] = [to |-> x, is |-> y]) \/ (x = m /\ y = r)
  BY <1>1, <1>2, <1>3
<1> QED BY <1>4 DEF Got, old, new

(* A session that a step is not about.                                      *)
Same(s) ==
  /\ UNCHANGED <<stage[s], fileReq[s], received[s], replies[s], sent[s], peer[s]>>
  /\ Unread(s)' = Unread(s)

(* What a line leads to: nothing, an answer, or the invitation to send the  *)
(* bytes of a file.                                                         *)
Silent(s, m) ==
  /\ UNCHANGED <<stage, fileReq, received, replies, disk, transfer>>
  /\ alive' => HeaderKind(m) = "input"

Answers(s, m) ==
  /\ \E r \in Final \ {"FILE_OK"} : SendResponse(s, m, r)
  /\ \E g \in {"AUTH", "HEADER"} : stage' = [stage EXCEPT ![s] = g]
  /\ UNCHANGED <<fileReq, received, disk, alive>>
  /\ transfer' = transfer \/ ~transfer'.active

Invites(s, m) ==
  /\ m \in Msgs /\ Kind[m] = "file" /\ Size[m] \in 1 .. MAX_RECEIVE_FILE_BYTES
  /\ SendResponse(s, m, "READY_FOR_FILE")
  /\ stage' = [stage EXCEPT ![s] = "DATA"]
  /\ fileReq' = [fileReq EXCEPT ![s] = m]
  /\ received' = [received EXCEPT ![s] = 0]
  /\ disk' = [disk EXCEPT ![Name[m]] = << >>]
  /\ UNCHANGED <<transfer, alive>>

LEMMA LineLeads ==
  ASSUME TypeInv, NEW s \in Sessions, ProcessLine(s)
  PROVE  /\ UNCHANGED clientVars /\ stage[s] # "DATA"
         /\ \E n \in 1 .. Len(Live(s)) : \E m :
              /\ m = MessageOf(SubSeq(Live(s), 1, n)) /\ IsFirstNewline(Live(s), n)
              /\ Takes(s, n)
              /\ Silent(s, m) \/ Answers(s, m) \/ Invites(s, m)
<1>1. UNCHANGED clientVars /\ stage[s] # "DATA"
  BY LineTakes DEF ProcessLine
<1>2. PICK n \in 1 .. Len(Live(s)) :
        /\ IsFirstNewline(Live(s), n) /\ Takes(s, n)
        /\ LET m == MessageOf(SubSeq(Live(s), 1, n))
           IN  \/ stage[s] = "AUTH" /\ HandleAuth(s, m)
               \/ stage[s] = "HEADER" /\ HandleHeader(s, m)
  BY LineTakes
<1> DEFINE m == MessageOf(SubSeq(Live(s), 1, n))
<1>3. m # NoMsg => m \in Msgs
  BY DEF MessageOf
<1>4. stage \in [Sessions -> {"AUTH", "HEADER", "DATA"}] /\ stage = [stage EXCEPT ![s] = stage[s]]
  BY Groups DEF AuthOK
<1>5. \/ stage[s] = "AUTH" /\ HandleAuth(s, m)
      \/ stage[s] = "HEADER" /\ HandleHeader(s, m)
  BY <1>2
<1> HIDE DEF m
<1>6. Silent(s, m) \/ Answers(s, m) \/ Invites(s, m)
  <2>1. CASE stage[s] = "AUTH" /\ HandleAuth(s, m)
    <3>1. UNCHANGED <<fileReq, received, disk, alive, transfer>>
      BY <2>1 DEF HandleAuth, fileVars, loopVars
    <3>2. \E g \in {"AUTH", "HEADER"} : stage' = [stage EXCEPT ![s] = g]
      BY <1>4, <2>1 DEF HandleAuth
    <3>3. \E r \in {"AUTH_BLOCKED", "AUTH_OK", "AUTH_FAIL"} : SendResponse(s, m, r)
      BY <2>1 DEF HandleAuth
    <3>4. \E r \in Final \ {"FILE_OK"} : SendResponse(s, m, r)
      BY <3>3 DEF Final, ReplyKinds
    <3> QED BY <3>1, <3>2, <3>4 DEF Answers
  <2>2. CASE stage[s] = "HEADER" /\ HandleHeader(s, m)
    <3>1. \E g \in {"AUTH", "HEADER"} : stage = [stage EXCEPT ![s] = g]
      BY <1>4, <2>2
    <3>2. ASSUME Terminates PROVE Silent(s, m)
      BY <3>2 DEF Terminates, Silent, authVars, fileVars
    <3>3. ASSUME UNCHANGED <<stage, fileReq, received, disk, alive>>,
                 transfer' = transfer \/ ~transfer'.active,
                 \E r \in {"CMD_REPLY", "FILE_LIST", "PUSH_ERROR", "FILE_PUSH", "FILE_PUSH_CUT",
                           "CMD_FAIL", "UNKNOWN_REQUEST"} : SendResponse(s, m, r)
          PROVE  Answers(s, m)
      BY <3>1, <3>3 DEF Answers, Final, ReplyKinds
    <3>4. CASE HandleCommand(s, m)
      <4>1. CASE Terminates
        BY <3>2, <4>1
      <4>2. CASE HeaderKind(m) = "input" /\ UNCHANGED <<replies, authVars, fileVars, loopVars>>
        BY <4>2 DEF Silent, authVars, fileVars, loopVars
      <4>3. CASE SendResponse(s, m, "CMD_REPLY") /\ UNCHANGED <<authVars, fileVars, loopVars>>
        BY <3>3, <4>3 DEF authVars, fileVars, loopVars
      <4> QED BY <3>4, <4>1, <4>2, <4>3 DEF HandleCommand
    <3>5. CASE HandlePush(s, m)
      <4>1. CASE Terminates
        BY <3>2, <4>1
      <4>2. CASE SendResponse(s, m, "FILE_LIST") /\ UNCHANGED <<authVars, fileVars, loopVars>>
        BY <3>3, <4>2 DEF authVars, fileVars, loopVars
      <4>3. ASSUME NEW outcome \in PushOutcomes \ {"throw"}, SendResponse(s, m, outcome),
                   transfer' = IF outcome = "PUSH_ERROR" THEN transfer
                               ELSE [Idle EXCEPT !.isSending = TRUE],
                   UNCHANGED <<fileReq, received, disk, authVars, loopVars>>
            PROVE  Answers(s, m)
        <5>1. outcome \in {"PUSH_ERROR", "FILE_PUSH", "FILE_PUSH_CUT"}
          BY FaultAssumption
        <5>2. transfer' = transfer \/ ~transfer'.active
          BY <4>3 DEF Idle
        <5> QED BY <3>3, <4>3, <5>1, <5>2 DEF authVars, loopVars
      <4> QED BY <3>5, <4>1, <4>2, <4>3 DEF HandlePush
    <3>6. CASE HandleFileStart(s, m)
      <4>1. CASE Terminates
        BY <3>2, <4>1
      <4>2. CASE SendResponse(s, m, "CMD_FAIL") /\ UNCHANGED <<authVars, fileVars, loopVars>>
        BY <3>3, <4>2 DEF authVars, fileVars, loopVars
      <4>3. CASE /\ Size[m] > 0 /\ Size[m] <= MAX_RECEIVE_FILE_BYTES
                 /\ fileReq' = [fileReq EXCEPT ![s] = m]
                 /\ received' = [received EXCEPT ![s] = 0]
                 /\ disk' = [disk EXCEPT ![Name[m]] = << >>]
                 /\ stage' = [stage EXCEPT ![s] = "DATA"]
                 /\ SendResponse(s, m, "READY_FOR_FILE")
                 /\ UNCHANGED <<transfer, loopVars>>
        <5>1. m \in Msgs /\ Kind[m] = "file"
          BY <1>3, <3>6 DEF HandleFileStart, HeaderKind
        <5>2. Size[m] \in 1 .. MAX_RECEIVE_FILE_BYTES
          BY <4>3, <5>1, ScriptAssumption, LimitAssumption
        <5> QED BY <4>3, <5>1, <5>2 DEF Invites, loopVars
      <4> QED BY <3>6, <4>1, <4>2, <4>3 DEF HandleFileStart
    <3>7. CASE HandleUnknown(s, m)
      BY <3>3, <3>7 DEF HandleUnknown, authVars, fileVars, loopVars
    <3> QED BY <2>2, <3>4, <3>5, <3>6, <3>7 DEF HandleHeader
  <2> QED BY <1>5, <2>1, <2>2
<1> QED BY <1>1, <1>2, <1>6 DEF m

(* What the bytes of a file lead to: they are taken to the file's end, and  *)
(* an end mark behind it, or as far as the write went.                      *)
WritesOn(s, n) ==
  /\ received[s] + n < Size[fileReq[s]]
  /\ Takes(s, n)
  /\ received' = [received EXCEPT ![s] = @ + n]
  /\ UNCHANGED <<stage, replies>>
  /\ transfer' \in {transfer, [active |-> TRUE, isSending |-> FALSE,
                               fileName |-> Name[fileReq[s]]]}

Acknowledges(s, n) ==
  /\ received[s] + n = Size[fileReq[s]]
  /\ Takes(s, n + SentinelLength(Rest(Live(s), n)))
  /\ received' = [received EXCEPT ![s] = 0]
  /\ stage' = [stage EXCEPT ![s] = "HEADER"]
  /\ SendResponse(s, fileReq[s], "FILE_OK")
  /\ transfer' = Idle

LEMMA DataLeads ==
  ASSUME TypeInv, NEW s \in Sessions, HandleFileData(s)
  PROVE  /\ UNCHANGED clientVars /\ stage[s] = "DATA" /\ UNCHANGED <<fileReq, alive>>
         /\ \E n \in 1 .. Len(Live(s)) :
              /\ disk' = [disk EXCEPT ![Name[fileReq[s]]] =
                            WriteAt(@, received[s], SubSeq(Live(s), 1, n))]
              /\ WritesOn(s, n) \/ Acknowledges(s, n)
<1>1. UNCHANGED clientVars /\ stage[s] = "DATA" /\ UNCHANGED <<fileReq, alive>>
  BY DEF HandleFileData
<1>2. PICK n \in 1 .. ToWrite(s) :
        /\ n \in 1 .. Len(Live(s))
        /\ disk' = [disk EXCEPT ![Name[fileReq[s]]] =
                      WriteAt(@, received[s], SubSeq(Live(s), 1, n))]
        /\ \/ WriteSome(s, n) /\ Takes(s, n)
           \/ WriteCompletes(s, n) /\ Takes(s, n + SentinelLength(Rest(Live(s), n)))
  BY DataTakes
<1>3. /\ fileReq[s] \in Msgs /\ Size[fileReq[s]] \in Int /\ received[s] \in Nat
      /\ Len(Live(s)) \in Nat
  BY <1>1, Groups, UnreadTypes, ScriptAssumption DEF RequestOK, FileOK
<1>4. received[s] + n <= Size[fileReq[s]]
  BY <1>2, <1>3 DEF ToWrite
<1>5. WriteSome(s, n) => received[s] + n < Size[fileReq[s]]
  BY <1>2, <1>3 DEF WriteSome, Complete
<1>6. WriteCompletes(s, n) => received[s] + n = Size[fileReq[s]]
  BY <1>2, <1>3, <1>4 DEF WriteCompletes, Complete
<1>7. WritesOn(s, n) \/ Acknowledges(s, n)
  <2>1. CASE WriteSome(s, n) /\ Takes(s, n)
    BY <1>5, <2>1 DEF WriteSome, WritesOn
  <2>2. CASE WriteCompletes(s, n) /\ Takes(s, n + SentinelLength(Rest(Live(s), n)))
    BY <1>6, <2>2 DEF WriteCompletes, TransferEnds, Acknowledges
  <2> QED BY <1>2, <2>1, <2>2
<1> QED BY <1>1, <1>2, <1>7

LEMMA FailureLeads ==
  ASSUME TypeInv, NEW s \in Sessions, WriteFails(s)
  PROVE  /\ UNCHANGED clientVars /\ stage[s] = "DATA"
         /\ UNCHANGED <<fileReq, received, disk, transfer, alive>>
         /\ Takes(s, Len(Live(s)))
         /\ stage' = [stage EXCEPT ![s] = "HEADER"]
         /\ SendResponse(s, fileReq[s], "CMD_FAIL")
         /\ "error" \in DiskFaults
  BY FailureTakes DEF WriteFails

(* A step is about one session, and leaves the others as they are.          *)
LEMMA OnlyOne ==
  ASSUME TypeInv, NEW s \in Sessions,
         \/ ProcessLine(s) \/ WriteFails(s) \/ HandleFileData(s)
         \/ ClientSend(s) \/ ClientLeaves(s)
  PROVE  \A t \in Sessions : t # s => Same(t)
<1>1. /\ stage \in [Sessions -> {"AUTH", "HEADER", "DATA"}]
      /\ fileReq \in [Sessions -> Msgs \union {NoMsg}] /\ received \in [Sessions -> Nat]
      /\ replies \in [Sessions -> Seq(Reply)]
      /\ sent \in [Sessions -> Nat] /\ peer \in [Sessions -> {"up", "fin", "reset"}]
  BY Groups DEF AuthOK, FileOK, ReplyOK, ClientOK, Reply
<1> SUFFICES ASSUME NEW t \in Sessions, t # s PROVE Same(t)
  OBVIOUS
<1>2. CASE ProcessLine(s)
  <2>1. /\ UNCHANGED <<sent, peer>> /\ Unread(t)' = Unread(t)
        /\ \E m : Silent(s, m) \/ Answers(s, m) \/ Invites(s, m)
    BY <1>2, LineLeads DEF Takes, clientVars
  <2>2. UNCHANGED <<stage[t], fileReq[t], received[t], replies[t]>>
    BY <1>1, <2>1 DEF Silent, Answers, Invites, SendResponse
  <2> QED BY <2>1, <2>2 DEF Same
<1>3. CASE WriteFails(s)
  <2>1. UNCHANGED <<sent, peer>> /\ Unread(t)' = Unread(t)
    BY <1>3, FailureLeads DEF Takes, clientVars
  <2>2. UNCHANGED <<stage[t], fileReq[t], received[t], replies[t]>>
    BY <1>1, <1>3, FailureLeads, ZenonT(30) DEF SendResponse
  <2> QED BY <2>1, <2>2 DEF Same
<1>4. CASE HandleFileData(s)
  <2>1. UNCHANGED <<sent, peer>> /\ fileReq' = fileReq
    BY <1>4, DataLeads DEF clientVars
  <2>2. \E n : WritesOn(s, n) \/ Acknowledges(s, n)
    BY <1>4, DataLeads
  <2>3. Unread(t)' = Unread(t)
    BY <2>2 DEF WritesOn, Acknowledges, Takes
  <2>4. UNCHANGED <<stage[t], received[t], replies[t]>>
    BY <1>1, <2>2 DEF WritesOn, Acknowledges, SendResponse
  <2> QED BY <2>1, <2>3, <2>4 DEF Same
<1>5. CASE ClientSend(s)
  <2>1. UNCHANGED <<stage, fileReq, received, replies>>
    BY <1>5 DEF ClientSend, authVars, fileVars
  <2>2. peer' = peer /\ Unread(t)' = Unread(t) /\ sent'[t] = sent[t]
    BY <1>5, SendAppends
  <2> QED BY <2>1, <2>2 DEF Same
<1>6. CASE ClientLeaves(s)
  <2>1. UNCHANGED <<stage, fileReq, received, replies>>
    BY <1>6 DEF ClientLeaves, authVars, fileVars
  <2>2. sent' = sent /\ Unread(t)' = Unread(t) /\ peer'[t] = peer[t]
    BY <1>6, LeavesIs
  <2> QED BY <2>1, <2>2 DEF Same
<1> QED BY <1>2, <1>3, <1>4, <1>5, <1>6

LEMMA OthersAreSame ==
  ASSUME TypeInv,
         \/ \E s \in Sessions : \/ AcceptConnection(s) \/ WouldBlock(s) \/ RemoveClient(s)
                                \/ ProcessBufferReturns(s) \/ OnData(s)
         \/ RotatePin \/ Tick \/ UNCHANGED vars
  PROVE  /\ \A t \in Sessions : Same(t)
         /\ UNCHANGED <<stage, fileReq, replies, disk, transfer, alive>>
<1>1. UNCHANGED <<stage, fileReq, received, replies, disk, transfer, alive>>
  BY DEF AcceptConnection, WouldBlock, RemoveClient, ProcessBufferReturns, OnData, RotatePin,
         Tick, vars, authVars, fileVars, loopVars
<1>2. UNCHANGED <<sent, peer>> /\ \A t \in Sessions : Unread(t)' = Unread(t)
  BY OthersTakeNone
<1> QED BY <1>1, <1>2 DEF Same
-----------------------------------------------------------------------------
(* Answers and files.  A message that was answered has been sent and no     *)
(* character of it is unread; the bytes of a file are sent only after its   *)
(* FILE_START was answered; a session that receives a file has invited it,  *)
(* has not answered it yet, and the next character it reads is the next one *)
(* of the file; and a file of which the client has sent no bytes yet is     *)
(* still being received.                                                    *)
Dead(s, m) ==
  m # NoMsg =>
    /\ PlaceOf(s, m) \in 1 .. sent[s] /\ Script[s][PlaceOf(s, m)] = m
    /\ \A k \in 1 .. Len(Unread(s)) : Unread(s)[k][1] # m

Gone(s) == \A i \in 1 .. Len(replies[s]) : Dead(s, replies[s][i].to)

Asked(s) ==
  \A j \in 1 .. sent[s] :
    Kind[Script[s][j]] = "body" =>
      \/ Got(s, ReqOf[Script[s][j]], "READY_FOR_FILE")
      \/ Got(s, ReqOf[Script[s][j]], "CMD_FAIL")

Body(s) == Script[s][PlaceOf(s, fileReq[s]) + 1]

Receiving(s) ==
  stage[s] = "DATA" =>
    /\ PlaceOf(s, fileReq[s]) + 1 \in 1 .. Len(Script[s])
    /\ Script[s][PlaceOf(s, fileReq[s])] = fileReq[s]
    /\ Kind[fileReq[s]] = "file" /\ Size[fileReq[s]] \in 1 .. MAX_RECEIVE_FILE_BYTES
    /\ Payload(fileReq[s]) = {Body(s)} /\ Size[fileReq[s]] = Length[Body(s)]
    /\ received[s] < Size[fileReq[s]]
    /\ Got(s, fileReq[s], "READY_FOR_FILE")
    /\ ~Got(s, fileReq[s], "FILE_OK") /\ ~Got(s, fileReq[s], "CMD_FAIL")

Continues(s) ==
  stage[s] = "DATA" =>
    IF Unread(s) = << >>
    THEN peer[s] = "up" => sent[s] = PlaceOf(s, fileReq[s]) /\ received[s] = 0
    ELSE Unread(s)[1] = <<Body(s), received[s] + 1>>

Pending(s) ==
  \A i \in 1 .. Len(Script[s]) :
    Got(s, Script[s][i], "READY_FOR_FILE") /\ sent[s] = i =>
      stage[s] = "DATA" /\ fileReq[s] = Script[s][i]

SessionOK(s) == Gone(s) /\ Asked(s) /\ Receiving(s) /\ Continues(s) /\ Pending(s)

LEMMA SameStaysOK ==
  ASSUME NEW s \in Sessions, SessionOK(s), Same(s)
  PROVE  SessionOK(s)'
<1>1. /\ stage'[s] = stage[s] /\ fileReq'[s] = fileReq[s] /\ received'[s] = received[s]
      /\ replies'[s] = replies[s] /\ sent'[s] = sent[s] /\ peer'[s] = peer[s]
      /\ Unread(s)' = Unread(s) /\ \A x, y : Got(s, x, y)' <=> Got(s, x, y)
  BY DEF Same, Got
<1>2. Gone(s)'
  <2>1. \A m : Dead(s, m)' <=> Dead(s, m)
    BY <1>1 DEF Dead
  <2> QED BY <1>1, <2>1 DEF SessionOK, Gone
<1>3. Asked(s)'
  BY <1>1 DEF SessionOK, Asked
<1>4. Body(s)' = Body(s)
  BY <1>1 DEF Body
<1>5. Receiving(s)'
  BY <1>1, <1>4 DEF SessionOK, Receiving
<1>6. Continues(s)'
  BY <1>1, <1>4 DEF SessionOK, Continues
<1>7. Pending(s)'
  BY <1>1 DEF SessionOK, Pending
<1> QED BY <1>2, <1>3, <1>5, <1>6, <1>7 DEF SessionOK

(* What the steps keep that only take characters and add answers.           *)
LEMMA DeadStays ==
  ASSUME TypeInv, NEW s \in Sessions, NEW n, Takes(s, n), sent' = sent, NEW m, Dead(s, m)
  PROVE  Dead(s, m)'
<1>1. /\ Unread(s) \in Seq(Chars) /\ n \in 0 .. Len(Unread(s)) /\ Len(Unread(s)) \in Nat
      /\ n \in Nat
  BY UnreadTypes DEF Takes
<1>2. Unread(s)' = Rest(Unread(s), n)
  BY DEF Takes
<1>3. /\ Len(Rest(Unread(s), n)) = Len(Unread(s)) - n
      /\ \A k \in 1 .. Len(Unread(s)) - n : Rest(Unread(s), n)[k] = Unread(s)[n + k]
  BY <1>1, RestIs
<1>4. ASSUME m # NoMsg, NEW k \in 1 .. Len(Unread(s)') PROVE Unread(s)'[k][1] # m
  <2>1. Unread(s)'[k] = Unread(s)[n + k] /\ n + k \in 1 .. Len(Unread(s))
    BY <1>1, <1>2, <1>3, <1>4
  <2> QED BY <1>4, <2>1 DEF Dead
<1> QED BY <1>4 DEF Dead

LEMMA AnswerKeepsGone ==
  ASSUME TypeInv, NEW s \in Sessions, Gone(s), NEW n, Takes(s, n), UNCHANGED clientVars,
         NEW m, NEW r, SendResponse(s, m, r), Dead(s, m)'
  PROVE  Gone(s)'
<1>1. sent' = sent
  BY DEF clientVars
<1>2. /\ replies'[s][Len(replies[s]) + 1].to = m /\ Len(replies[s]) \in Nat
      /\ \A i \in 1 .. Len(replies[s]) : replies'[s][i] = replies[s][i]
      /\ Len(replies'[s]) = Len(replies[s]) + 1
  <2>1. replies'[s][Len(replies[s]) + 1] = [to |-> m, is |-> r]
    BY RepliesAfter
  <2>2. replies'[s][Len(replies[s]) + 1].to = m
    BY <2>1
  <2> QED BY <2>2, RepliesAfter
<1>3. ASSUME NEW i \in 1 .. Len(replies'[s]), NEW x, replies'[s][i].to = x PROVE Dead(s, x)'
  <2>1. i \in 1 .. Len(replies[s]) \/ i = Len(replies[s]) + 1
    BY <1>2, <1>3
  <2>2. CASE i \in 1 .. Len(replies[s])
    <3>1. Dead(s, x)
      BY <1>2, <1>3, <2>2 DEF Gone
    <3> QED BY <1>1, <3>1, DeadStays
  <2>3. CASE i = Len(replies[s]) + 1
    <3>1. x = m
      BY <1>2, <1>3, <2>3
    <3> QED BY <3>1
  <2> QED BY <2>1, <2>2, <2>3
<1> QED BY <1>3 DEF Gone, Dead

LEMMA AskedStays ==
  ASSUME NEW s \in Sessions, Asked(s), sent' = sent,
         \A x, y : Got(s, x, y) => Got(s, x, y)'
  PROVE  Asked(s)'
  BY DEF Asked

(* No message that is unread was answered.                                  *)
LEMMA UnreadNotAnswered ==
  ASSUME TypeInv, NEW s \in Sessions, Gone(s), NEW k \in 1 .. Len(Unread(s)),
         NEW m \in Msgs, Unread(s)[k][1] = m, NEW r
  PROVE  ~Got(s, m, r)
<1> SUFFICES ASSUME NEW i \in DOMAIN replies[s], replies[s][i] = [to |-> m, is |-> r]
             PROVE  FALSE
  BY DEF Got
<1>1. i \in 1 .. Len(replies[s]) /\ replies[s][i].to = m /\ m # NoMsg
  <2>1. replies[s] \in Seq(Reply)
    BY Groups DEF ReplyOK, Reply
  <2> QED BY <2>1, ScriptAssumption
<1> QED BY <1>1 DEF Gone, Dead

(* processBuffer handles a line.                                            *)
LEMMA InviteIsOK ==
  ASSUME TypeInv, StreamInv, NEW s \in Sessions, SessionOK(s), UNCHANGED clientVars,
         stage[s] # "DATA", NEW n \in 1 .. Len(Live(s)), NEW m,
         m = MessageOf(SubSeq(Live(s), 1, n)), Takes(s, n), Invites(s, m)
  PROVE  /\ PlaceOf(s, m) \in 1 .. Len(Script[s]) - 1 /\ Unread(s)' = << >>
         /\ sent[s] = PlaceOf(s, m) /\ \A r : ~Got(s, m, r)
         /\ Receiving(s)' /\ Continues(s)' /\ Pending(s)' /\ Asked(s)'
<1> DEFINE q == Unread(s)
           p == PlaceOf(s, m)
<1>1. /\ sent' = sent /\ peer' = peer
      /\ m \in Msgs /\ m # NoMsg /\ Kind[m] = "file" /\ Size[m] \in 1 .. MAX_RECEIVE_FILE_BYTES
  BY ScriptAssumption DEF clientVars, Invites
<1>2. /\ \A k \in 1 .. n : q[k] = <<m, k>>
      /\ p \in 1 .. sent[s] /\ Script[s][p] = m
      /\ \A k \in n + 1 .. Len(q) : p < PlaceOf(s, q[k][1])
  BY <1>1, LineIsMessage
<1>3. /\ q \in Seq(Chars) /\ Len(q) \in Nat /\ n \in 0 .. Len(q) /\ n \in Nat /\ 1 \in 1 .. n
      /\ 1 \in 1 .. Len(q)
  BY UnreadTypes
<1>4. /\ sent[s] \in 0 .. Len(Script[s]) /\ Known(s, q, sent[s]) /\ Len(Script[s]) \in Nat
      /\ DOMAIN Script[s] = 1 .. Len(Script[s])
  BY ScriptAssumption DEF StreamInv, Stream
<1>5. Unread(s)' = Rest(q, n)
  BY DEF Takes
<1> HIDE DEF q, p
<1>6. p \in DOMAIN Script[s] /\ p \in Nat
  BY <1>2, <1>4
<1>7. p < Len(Script[s]) /\ Payload(m) = {Script[s][p + 1]} /\ Size[m] = Length[Script[s][p + 1]]
  BY <1>1, <1>2, <1>6, ProtocolAssumption, ZenonT(30)
<1>8. ASSUME NEW r PROVE ~Got(s, m, r)
  <2>1. q[1][1] = m
    BY <1>2, <1>3
  <2> QED BY <1>1, <1>3, <2>1, UnreadNotAnswered DEF SessionOK, q
<1>9. sent[s] = p
  <2> SUFFICES ASSUME p + 1 \in 1 .. sent[s] PROVE FALSE
    BY <1>2, <1>4
  <2>1. Kind[Script[s][p + 1]] = "body" /\ ReqOf[Script[s][p + 1]] = m
    BY <1>7 DEF Payload
  <2> QED BY <1>8, <2>1 DEF SessionOK, Asked
<1>10. Unread(s)' = << >>
  <2>1. /\ Rest(q, n) \in Seq(Chars) /\ Len(Rest(q, n)) = Len(q) - n
    BY <1>3, RestIs
  <2>2. ~(n + 1 \in 1 .. Len(q))
    <3> SUFFICES ASSUME n + 1 \in 1 .. Len(q) PROVE FALSE
      OBVIOUS
    <3>1. n + 1 \in n + 1 .. Len(q)
      BY <1>3
    <3>2. p < PlaceOf(s, q[n + 1][1]) /\ PlaceOf(s, q[n + 1][1]) \in 1 .. sent[s]
      BY <1>2, <1>4, <3>1 DEF Known
    <3> QED BY <1>6, <1>9, <3>2
  <2>3. Len(Rest(q, n)) = 0
    BY <1>3, <2>1, <2>2
  <2> QED BY <1>5, <2>1, <2>3
<1>11. fileReq'[s] = m /\ received'[s] = 0 /\ stage'[s] = "DATA"
       /\ \A x, y : Got(s, x, y)' <=> Got(s, x, y) \/ (x = m /\ y = "READY_FOR_FILE")
  <2>1. /\ fileReq \in [Sessions -> Msgs \union {NoMsg}] /\ received \in [Sessions -> Nat]
        /\ stage \in [Sessions -> {"AUTH", "HEADER", "DATA"}]
    BY Groups DEF FileOK, AuthOK
  <2>2. \A x, y : Got(s, x, y)' <=> Got(s, x, y) \/ (x = m /\ y = "READY_FOR_FILE")
    <3>1. SendResponse(s, m, "READY_FOR_FILE")
      BY DEF Invites
    <3> QED BY <3>1, GotAfter
  <2> QED BY <2>1, <2>2 DEF Invites
<1>12. Body(s)' = Script[s][p + 1]
  BY <1>11 DEF Body, p
<1>13. Receiving(s)'
  <2>1. PlaceOf(s, fileReq'[s]) = p
    BY <1>11 DEF p
  <2>2. p + 1 \in 1 .. Len(Script[s])
    BY <1>4, <1>6, <1>7
  <2>3. received'[s] < Size[m]
    BY <1>1, <1>11, LimitAssumption
  <2>4. Got(s, m, "READY_FOR_FILE")' /\ ~Got(s, m, "FILE_OK")' /\ ~Got(s, m, "CMD_FAIL")'
    BY <1>8, <1>11
  <2>5. Got(s, fileReq[s], "READY_FOR_FILE")' <=> Got(s, m, "READY_FOR_FILE")'
    BY <1>11 DEF Got
  <2>6. Got(s, fileReq[s], "FILE_OK")' <=> Got(s, m, "FILE_OK")'
    BY <1>11 DEF Got
  <2>7. Got(s, fileReq[s], "CMD_FAIL")' <=> Got(s, m, "CMD_FAIL")'
    BY <1>11 DEF Got
  <2> QED BY <1>1, <1>2, <1>7, <1>11, <1>12, <2>1, <2>2, <2>3, <2>4, <2>5, <2>6, <2>7 DEF Receiving
<1>14. Continues(s)'
  BY <1>1, <1>9, <1>10, <1>11 DEF Continues, p
<1>15. Pending(s)'
  <2> SUFFICES ASSUME NEW i \in 1 .. Len(Script[s]), Got(s, Script[s][i], "READY_FOR_FILE")',
                      sent'[s] = i
               PROVE  stage'[s] = "DATA" /\ fileReq'[s] = Script[s][i]
    BY DEF Pending
  <2>1. Script[s][i] = m
    BY <1>1, <1>11 DEF SessionOK, Pending
  <2> QED BY <1>11, <2>1
<1>16. Asked(s)'
  BY <1>1, <1>11, AskedStays DEF SessionOK
<1> QED BY <1>4, <1>6, <1>7, <1>8, <1>9, <1>10, <1>13, <1>14, <1>15, <1>16 DEF p

LEMMA LineKeepsOK ==
  ASSUME TypeInv, StreamInv, NEW s \in Sessions, SessionOK(s), ProcessLine(s)
  PROVE  SessionOK(s)'
<1>1. UNCHANGED clientVars /\ stage[s] # "DATA" /\ sent' = sent
  BY LineLeads DEF clientVars
<1>2. PICK n \in 1 .. Len(Live(s)) : \E m :
        /\ m = MessageOf(SubSeq(Live(s), 1, n))
        /\ Takes(s, n)
        /\ Silent(s, m) \/ Answers(s, m) \/ Invites(s, m)
  BY LineLeads
<1>3. PICK m :
        /\ m = MessageOf(SubSeq(Live(s), 1, n))
        /\ Takes(s, n)
        /\ Silent(s, m) \/ Answers(s, m) \/ Invites(s, m)
  BY <1>2
<1>4. stage \in [Sessions -> {"AUTH", "HEADER", "DATA"}]
  BY Groups DEF AuthOK
<1>5. Dead(s, m)'
  <2> SUFFICES ASSUME m # NoMsg PROVE Dead(s, m)'
    BY DEF Dead
  <2>1. /\ PlaceOf(s, m) \in 1 .. sent[s] /\ Script[s][PlaceOf(s, m)] = m
        /\ \A k \in n + 1 .. Len(Unread(s)) : PlaceOf(s, m) < PlaceOf(s, Unread(s)[k][1])
    BY <1>3, LineIsMessage
  <2>2. /\ Unread(s) \in Seq(Chars) /\ n \in 0 .. Len(Unread(s)) /\ Len(Unread(s)) \in Nat
    BY UnreadTypes
  <2>3. ASSUME NEW k \in 1 .. Len(Unread(s)') PROVE Unread(s)'[k][1] # m
    <3>1. Unread(s)' = Rest(Unread(s), n)
      BY <1>3 DEF Takes
    <3>2. /\ Len(Rest(Unread(s), n)) = Len(Unread(s)) - n
          /\ \A j \in 1 .. Len(Unread(s)) - n : Rest(Unread(s), n)[j] = Unread(s)[n + j]
      BY <2>2, RestIs
    <3>3. k \in 1 .. Len(Unread(s)) - n /\ Unread(s)'[k] = Unread(s)[n + k]
      BY <2>3, <3>1, <3>2
    <3>4. n + k \in n + 1 .. Len(Unread(s)) /\ PlaceOf(s, m) \in Nat
      BY <2>1, <2>2, <3>3
    <3>5. PlaceOf(s, m) < PlaceOf(s, Unread(s)[n + k][1])
      BY <2>1, <3>4
    <3>6. Unread(s)[n + k][1] # m
      BY <3>4, <3>5
    <3> QED BY <3>3, <3>6
  <2> QED BY <1>1, <2>1, <2>3 DEF Dead
<1>6. CASE Silent(s, m)
  <2>1. replies' = replies /\ stage' = stage /\ \A x, y : Got(s, x, y)' <=> Got(s, x, y)
    BY <1>6 DEF Silent, Got
  <2>2. Gone(s)'
    <3>1. ASSUME NEW i \in 1 .. Len(replies[s]), NEW x, replies[s][i].to = x PROVE Dead(s, x)'
      <4>1. Dead(s, x)
        BY <3>1 DEF SessionOK, Gone
      <4> QED BY <1>1, <1>3, <4>1, DeadStays
    <3> QED BY <2>1, <3>1 DEF Gone, Dead
  <2>3. Asked(s)'
    BY <1>1, <2>1, AskedStays DEF SessionOK
  <2>4. Receiving(s)' /\ Continues(s)'
    BY <1>1, <2>1 DEF Receiving, Continues
  <2>5. Pending(s)'
    BY <1>1, <2>1 DEF SessionOK, Pending
  <2> QED BY <2>2, <2>3, <2>4, <2>5 DEF SessionOK
<1>7. CASE Answers(s, m)
  <2>1. PICK r \in Final \ {"FILE_OK"} : SendResponse(s, m, r)
    BY <1>7 DEF Answers
  <2>2. stage'[s] # "DATA"
    BY <1>4, <1>7 DEF Answers
  <2>3. \A x, y : Got(s, x, y)' <=> Got(s, x, y) \/ (x = m /\ y = r)
    BY <2>1, GotAfter
  <2>4. Gone(s)'
    BY <1>1, <1>3, <1>5, <2>1, AnswerKeepsGone DEF SessionOK
  <2>5. Asked(s)'
    BY <1>1, <2>3, AskedStays DEF SessionOK
  <2>6. Receiving(s)' /\ Continues(s)'
    BY <2>2 DEF Receiving, Continues
  <2>7. r # "READY_FOR_FILE"
    BY <2>1 DEF Final
  <2>8. Pending(s)'
    BY <1>1, <2>3, <2>7 DEF SessionOK, Pending
  <2> QED BY <2>4, <2>5, <2>6, <2>8 DEF SessionOK
<1>8. CASE Invites(s, m)
  <2>1. Receiving(s)' /\ Continues(s)' /\ Pending(s)' /\ Asked(s)'
    BY <1>1, <1>3, <1>8, InviteIsOK
  <2>2. Gone(s)'
    BY <1>1, <1>3, <1>5, <1>8, AnswerKeepsGone DEF SessionOK, Invites
  <2> QED BY <2>1, <2>2 DEF SessionOK
<1> QED BY <1>3, <1>6, <1>7, <1>8

LEMMA AnsweredIsDead ==
  ASSUME TypeInv, NEW s \in Sessions, Gone(s), NEW m, NEW r, Got(s, m, r)
  PROVE  Dead(s, m)
<1>1. replies[s] \in Seq(Reply)
  BY Groups DEF ReplyOK, Reply
<1>2. PICK i \in DOMAIN replies[s] : replies[s][i] = [to |-> m, is |-> r]
  BY DEF Got
<1>3. i \in 1 .. Len(replies[s]) /\ replies[s][i].to = m
  BY <1>1, <1>2
<1> QED BY <1>3 DEF Gone

(* The place of a file that is being received, and of its bytes.            *)
LEMMA BodyIs ==
  ASSUME TypeInv, NEW s \in Sessions, SessionOK(s), stage[s] = "DATA"
  PROVE  /\ fileReq[s] \in Msgs /\ Body(s) \in Msgs
         /\ PlaceOf(s, fileReq[s]) \in 1 .. Len(Script[s])
         /\ Body(s) = Script[s][PlaceOf(s, fileReq[s]) + 1]
         /\ PlaceOf(s, Body(s)) = PlaceOf(s, fileReq[s]) + 1
         /\ Kind[Body(s)] = "body" /\ ReqOf[Body(s)] = fileReq[s]
         /\ Dead(s, fileReq[s])
<1>1. fileReq[s] \in Msgs /\ fileReq[s] # NoMsg
  BY Groups, ScriptAssumption DEF RequestOK
<1>2. /\ PlaceOf(s, fileReq[s]) + 1 \in 1 .. Len(Script[s])
      /\ Payload(fileReq[s]) = {Body(s)} /\ Got(s, fileReq[s], "READY_FOR_FILE")
  BY DEF SessionOK, Receiving
<1>3. Dead(s, fileReq[s])
  BY <1>2, AnsweredIsDead DEF SessionOK
<1>4. PlaceOf(s, fileReq[s]) \in 1 .. Len(Script[s])
  <2>1. PlaceOf(s, fileReq[s]) \in Nat \ {0} /\ Len(Script[s]) \in Nat
    BY <1>1, <1>3, ScriptAssumption DEF Dead
  <2> QED BY <1>2, <2>1
<1>5. Body(s) \in Msgs /\ PlaceOf(s, Body(s)) = PlaceOf(s, fileReq[s]) + 1
  BY <1>2, PlaceIs DEF Body
<1>6. Kind[Body(s)] = "body" /\ ReqOf[Body(s)] = fileReq[s]
  BY <1>2 DEF Payload
<1> QED BY <1>1, <1>3, <1>4, <1>5, <1>6 DEF Body

(* The unread characters of a session that goes on with a file.             *)
LEMMA NextByteIs ==
  ASSUME TypeInv, StreamInv, NEW s \in Sessions, SessionOK(s), stage[s] = "DATA",
         Unread(s) # << >>
  PROVE  /\ Unread(s)[1] = <<Body(s), received[s] + 1>>
         /\ PlaceOf(s, fileReq[s]) + 1 <= sent[s]
         /\ \A k \in 1 .. Len(Unread(s)) : k <= Size[fileReq[s]] - received[s] =>
              Unread(s)[k] = <<Body(s), received[s] + k>>
         /\ peer[s] = "up" => Size[fileReq[s]] - received[s] <= Len(Unread(s))
<1> DEFINE q == Unread(s)
<1>1. q[1] = <<Body(s), received[s] + 1>> /\ q # << >>
  BY DEF SessionOK, Continues
<1>2. Stream(s, q, sent[s]) /\ (peer[s] = "up" => Whole(q))
  BY DEF StreamInv
<1>3. q \in Seq(Char) /\ Known(s, q, sent[s]) /\ sent[s] \in Nat
  BY <1>2 DEF Stream
<1>4. /\ received[s] \in Nat /\ Size[fileReq[s]] = Length[Body(s)] /\ Size[fileReq[s]] \in Nat
  BY Groups, LimitAssumption DEF FileOK, SessionOK, Receiving
<1> HIDE DEF q
<1>5. 1 \in 1 .. Len(q) /\ Len(q) \in Nat
  BY <1>1, <1>3
<1>6. PlaceOf(s, fileReq[s]) + 1 <= sent[s]
  <2>1. PlaceOf(s, Body(s)) \in 1 .. sent[s]
    BY <1>1, <1>3, <1>5 DEF Known
  <2> QED BY <1>3, <2>1, BodyIs
<1>7. ASSUME NEW k \in 1 .. Len(q), k <= Size[fileReq[s]] - received[s]
      PROVE  q[k] = <<Body(s), received[s] + k>>
  <2>1. q[1][1] = Body(s) /\ q[1][2] = received[s] + 1
    BY <1>1
  <2>2. k \in Nat /\ Length[q[1][1]] = Size[fileReq[s]]
    BY <1>4, <2>1
  <2>3. k <= Length[q[1][1]] - q[1][2] + 1 /\ q[1][2] + k - 1 = received[s] + k
    BY <1>4, <1>7, <2>1, <2>2, SMTT(20)
  <2>4. q[k] = <<q[1][1], q[1][2] + k - 1>>
    BY <1>1, <1>2, <1>7, <2>3, HeadIs
  <2> QED BY <2>1, <2>3, <2>4
<1>8. ASSUME peer[s] = "up" PROVE Size[fileReq[s]] - received[s] <= Len(q)
  <2>1. q[1][1] = Body(s) /\ q[1][2] = received[s] + 1
    BY <1>1
  <2>2. 1 + Length[q[1][1]] - q[1][2] <= Len(q)
    BY <1>2, <1>5, <1>8 DEF Whole
  <2>3. 1 + Size[fileReq[s]] - (received[s] + 1) <= Len(q)
    BY <1>4, <2>1, <2>2
  <2> QED BY <1>4, <1>5, <2>3
<1> QED BY <1>1, <1>6, <1>7, <1>8 DEF q

(* handleFileData ends with the file, acknowledged or given up.             *)
LEMMA EndKeepsOK ==
  ASSUME TypeInv, StreamInv, NEW s \in Sessions, SessionOK(s), UNCHANGED clientVars,
         stage[s] = "DATA", Unread(s) # << >>, NEW n, Takes(s, n),
         stage' = [stage EXCEPT ![s] = "HEADER"],
         NEW f, f = fileReq[s],
         NEW r \in {"FILE_OK", "CMD_FAIL"}, SendResponse(s, f, r)
  PROVE  SessionOK(s)'
<1>1. f \in Msgs /\ PlaceOf(s, f) \in Nat /\ Dead(s, f)
  BY BodyIs
<1>2. sent' = sent /\ sent[s] \in Nat
  BY Groups DEF clientVars, ClientOK
<1>3. stage'[s] # "DATA"
  BY Groups DEF AuthOK
<1>4. SendResponse(s, f, r)
  OBVIOUS
<1>5. PlaceOf(s, f) + 1 <= sent[s]
  BY NextByteIs
<1>6. \A i \in 1 .. Len(Script[s]) : Got(s, Script[s][i], "READY_FOR_FILE") /\ sent[s] = i =>
        f = Script[s][i]
  BY DEF SessionOK, Pending
<1>7. \A x, y : Got(s, x, y)' <=> Got(s, x, y) \/ (x = f /\ y = r)
  BY <1>4, GotAfter
<1>8. Gone(s)'
  <2>1. Dead(s, f)'
    BY <1>1, <1>2, DeadStays
  <2> QED BY <1>4, <2>1, AnswerKeepsGone DEF SessionOK
<1>9. Asked(s)'
  BY <1>2, <1>7, AskedStays DEF SessionOK
<1>10. Receiving(s)' /\ Continues(s)'
  BY <1>3 DEF Receiving, Continues
<1>11. Pending(s)'
  <2> SUFFICES ASSUME NEW i \in 1 .. Len(Script[s]), Got(s, Script[s][i], "READY_FOR_FILE")',
                      sent'[s] = i
               PROVE  FALSE
    BY DEF Pending
  <2>1. Got(s, Script[s][i], "READY_FOR_FILE")
    BY <1>7
  <2>2. f = Script[s][i]
    BY <1>2, <1>6, <2>1
  <2>3. PlaceOf(s, f) = i
    BY <2>2, PlaceIs
  <2> QED BY <1>1, <1>2, <1>5, <2>3
<1> QED BY <1>8, <1>9, <1>10, <1>11 DEF SessionOK

LEMMA FailureKeepsOK ==
  ASSUME TypeInv, StreamInv, NEW s \in Sessions, SessionOK(s), WriteFails(s)
  PROVE  SessionOK(s)'
<1>1. Live(s) # << >>
  BY DEF WriteFails, Parsing
<1>2. Unread(s) # << >>
  <2>1. Live(s) \in Seq(Chars) /\ Len(Unread(s)) = Len(Live(s)) + Len(wire[s])
        /\ Len(wire[s]) \in Nat /\ Unread(s) \in Seq(Chars)
    BY UnreadTypes
  <2> QED BY <1>1, <2>1
<1> QED BY <1>2, FailureLeads, EndKeepsOK

LEMMA DataKeepsOK ==
  ASSUME TypeInv, StreamInv, NEW s \in Sessions, SessionOK(s), HandleFileData(s)
  PROVE  SessionOK(s)'
<1>1. UNCHANGED clientVars /\ stage[s] = "DATA" /\ fileReq' = fileReq
  BY DataLeads
<1>2. PICK n \in 1 .. Len(Live(s)) : WritesOn(s, n) \/ Acknowledges(s, n)
  BY DataLeads
<1>3. /\ Unread(s) \in Seq(Chars) /\ Len(Unread(s)) \in Nat /\ n \in 1 .. Len(Unread(s))
      /\ n \in Nat /\ Unread(s) # << >>
  BY UnreadTypes
<1>4. CASE Acknowledges(s, n)
  <2>1. Takes(s, n + SentinelLength(Rest(Live(s), n)))
    BY <1>4 DEF Acknowledges
  <2> QED BY <1>1, <1>3, <1>4, <2>1, EndKeepsOK DEF Acknowledges
<1>5. CASE WritesOn(s, n)
  <2>1. /\ replies' = replies /\ stage' = stage /\ sent' = sent /\ peer' = peer /\ Takes(s, n)
        /\ received[s] + n < Size[fileReq[s]] /\ received' = [received EXCEPT ![s] = @ + n]
        /\ \A x, y : Got(s, x, y)' <=> Got(s, x, y)
    BY <1>1, <1>5 DEF WritesOn, clientVars, Got
  <2>2. received[s] \in Nat /\ Size[fileReq[s]] \in Nat /\ received'[s] = received[s] + n
    BY <2>1, Groups, <1>1, LimitAssumption DEF FileOK, SessionOK, Receiving
  <2>3. Gone(s)'
    <3>1. ASSUME NEW i \in 1 .. Len(replies[s]), NEW x, replies[s][i].to = x PROVE Dead(s, x)'
      <4>1. Dead(s, x)
        BY <3>1 DEF SessionOK, Gone
      <4> QED BY <2>1, <4>1, DeadStays
    <3> QED BY <2>1, <3>1 DEF Gone, Dead
  <2>4. Asked(s)'
    BY <2>1, AskedStays DEF SessionOK
  <2>5. Body(s)' = Body(s)
    BY <1>1 DEF Body
  <2>6. Receiving(s)'
    BY <1>1, <2>1, <2>2, <2>5 DEF SessionOK, Receiving
  <2>7. Continues(s)'
    <3>1. Unread(s)' = Rest(Unread(s), n)
      BY <2>1 DEF Takes
    <3>2. /\ Rest(Unread(s), n) \in Seq(Chars)
          /\ Len(Rest(Unread(s), n)) = Len(Unread(s)) - n
          /\ \A j \in 1 .. Len(Unread(s)) - n : Rest(Unread(s), n)[j] = Unread(s)[n + j]
      BY <1>3, RestIs
    <3>3. CASE Rest(Unread(s), n) = << >>
      <4>1. Len(Unread(s)) = n
        BY <1>3, <3>2, <3>3
      <4>2. peer[s] # "up"
        BY <1>1, <1>3, <2>1, <2>2, <4>1, NextByteIs
      <4> QED BY <2>1, <3>1, <3>3, <4>2 DEF Continues
    <3>4. CASE Rest(Unread(s), n) # << >>
      <4>1. 1 \in 1 .. Len(Unread(s)) - n /\ n + 1 \in 1 .. Len(Unread(s))
        BY <1>3, <3>2, <3>4
      <4>2. n + 1 <= Size[fileReq[s]] - received[s]
        BY <1>3, <2>1, <2>2
      <4>3. Unread(s)[n + 1] = <<Body(s), received[s] + (n + 1)>>
        BY <1>1, <1>3, <4>1, <4>2, NextByteIs
      <4>4. Rest(Unread(s), n)[1] = <<Body(s), received'[s] + 1>>
        BY <1>3, <2>2, <3>2, <4>1, <4>3
      <4> QED BY <2>5, <3>1, <3>4, <4>4 DEF Continues
    <3> QED BY <3>3, <3>4
  <2>8. Pending(s)'
    BY <1>1, <2>1 DEF SessionOK, Pending
  <2> QED BY <2>3, <2>4, <2>6, <2>7, <2>8 DEF SessionOK
<1> QED BY <1>2, <1>4, <1>5

(* A client sends a message, or skips the bytes of a file that was refused. *)
LEMMA SendKeepsOK ==
  ASSUME TypeInv, StreamInv, NEW s \in Sessions, SessionOK(s), ClientSend(s)
  PROVE  SessionOK(s)'
<1> DEFINE m == Script[s][sent[s] + 1]
           q == Unread(s)
           c == CharsOf(m)
<1>1. /\ peer' = peer /\ peer[s] = "up" /\ sent[s] < Len(Script[s]) /\ sent'[s] = sent[s] + 1
      /\ \/ MaySend(s, m) /\ Unread(s)' = q \o c
         \/ /\ Kind[m] \in {"body", "sentinel"} /\ Got(s, ReqOf[m], "CMD_FAIL")
            /\ Unread(s)' = q
  BY SendAppends
<1>2. /\ UNCHANGED <<stage, fileReq, received, replies>>
      /\ \A x, y : Got(s, x, y)' <=> Got(s, x, y)
  BY DEF ClientSend, authVars, fileVars, Got
<1>3. sent[s] \in Nat /\ sent[s] + 1 \in 1 .. Len(Script[s])
  BY <1>1, Groups, ScriptAssumption DEF ClientOK
<1>4. m \in Msgs /\ m # NoMsg /\ PlaceOf(s, m) = sent[s] + 1
  BY <1>3, PlaceIs, ScriptAssumption
<1>5. /\ c \in Seq(Char) /\ Len(c) \in Nat \ {0} /\ \A j \in 1 .. Len(c) : c[j] = <<m, j>>
  BY <1>4, CharsOfIs
<1>6. q \in Seq(Char) /\ Len(q) \in Nat
  BY DEF StreamInv, Stream
<1>7. \A j \in 1 .. sent[s] : j \in 1 .. sent[s] + 1
  BY <1>3
<1>8. m = Script[s][sent[s] + 1]
  OBVIOUS
<1> HIDE DEF m, c, q
<1>9. Gone(s)'
  <2>1. ASSUME NEW i \in 1 .. Len(replies[s]), NEW x, replies[s][i].to = x, x # NoMsg,
               NEW k \in 1 .. Len(Unread(s)')
        PROVE  Unread(s)'[k][1] # x
    <3>1. /\ PlaceOf(s, x) \in 1 .. sent[s] /\ \A j \in 1 .. Len(q) : q[j][1] # x
      BY <2>1 DEF SessionOK, Gone, Dead, q
    <3>2. CASE Unread(s)' = q
      BY <2>1, <3>1, <3>2
    <3>3. CASE Unread(s)' = q \o c
      <4>1. /\ Len(q \o c) = Len(q) + Len(c)
            /\ \A j \in 1 .. Len(q) + Len(c) : (q \o c)[j] = IF j <= Len(q) THEN q[j] ELSE c[j - Len(q)]
        BY <1>5, <1>6, ConcatProperties
      <4>2. k \in 1 .. Len(q) + Len(c)
        BY <2>1, <3>3, <4>1
      <4>3. CASE k <= Len(q)
        <5>1. k \in 1 .. Len(q) /\ (q \o c)[k] = q[k]
          BY <1>6, <4>1, <4>2, <4>3
        <5> QED BY <3>1, <3>3, <5>1
      <4>4. CASE ~(k <= Len(q))
        <5>1. k - Len(q) \in 1 .. Len(c) /\ (q \o c)[k] = c[k - Len(q)]
          BY <1>5, <1>6, <4>1, <4>2, <4>4
        <5>2. (q \o c)[k][1] = m
          BY <1>5, <5>1
        <5>3. x # m
          BY <1>3, <1>4, <3>1
        <5> QED BY <3>3, <5>2, <5>3
      <4> QED BY <4>3, <4>4
    <3> QED BY <1>1, <3>2, <3>3
  <2>2. ASSUME NEW i \in 1 .. Len(replies[s]), NEW x, replies[s][i].to = x
        PROVE  Dead(s, x)'
    <3>1. x # NoMsg => PlaceOf(s, x) \in 1 .. sent'[s] /\ Script[s][PlaceOf(s, x)] = x
      BY <1>1, <1>7, <2>2 DEF SessionOK, Gone, Dead
    <3> QED BY <2>1, <2>2, <3>1 DEF Dead
  <2> QED BY <1>2, <2>2 DEF Gone, Dead
<1>10. Asked(s)'
  <2> SUFFICES ASSUME NEW j \in 1 .. sent[s] + 1, Kind[Script[s][j]] = "body"
               PROVE  \/ Got(s, ReqOf[Script[s][j]], "READY_FOR_FILE")
                      \/ Got(s, ReqOf[Script[s][j]], "CMD_FAIL")
    BY <1>1, <1>2 DEF Asked
  <2>1. CASE j \in 1 .. sent[s]
    BY <2>1 DEF SessionOK, Asked
  <2>2. CASE j = sent[s] + 1
    <3>1. Script[s][j] = m
      BY <1>8, <2>2
    <3>2. MaySend(s, m) => Got(s, ReqOf[m], "READY_FOR_FILE")
      BY <3>1 DEF MaySend
    <3> QED BY <1>1, <3>1, <3>2
  <2> QED BY <1>3, <2>1, <2>2
<1>11. Body(s)' = Body(s)
  BY <1>2 DEF Body
<1>12. Receiving(s)'
  BY <1>2, <1>11 DEF SessionOK, Receiving
<1>13. Continues(s)'
  <2> SUFFICES ASSUME stage[s] = "DATA"
               PROVE  Unread(s)' # << >> /\ Unread(s)'[1] = <<Body(s), received[s] + 1>>
    BY <1>2, <1>11 DEF Continues
  <2>1. CASE q = << >>
    <3>1. sent[s] = PlaceOf(s, fileReq[s]) /\ received[s] = 0
      BY <1>1, <2>1 DEF SessionOK, Continues, q
    <3>2. m = Body(s) /\ ReqOf[m] = fileReq[s] /\ Kind[m] = "body"
      BY <1>8, <3>1, BodyIs
    <3>3. ~Got(s, fileReq[s], "CMD_FAIL")
      BY DEF SessionOK, Receiving
    <3>4. Unread(s)' = << >> \o c
      BY <1>1, <2>1, <3>2, <3>3
    <3>5. << >> \o c = c
      BY <1>5, ConcatEmptySeq
    <3>6. c # << >> /\ c[1] = <<m, 1>>
      BY <1>5
    <3> QED BY <3>1, <3>2, <3>4, <3>5, <3>6
  <2>2. CASE q # << >>
    <3>1. q[1] = <<Body(s), received[s] + 1>>
      BY <2>2 DEF SessionOK, Continues, q
    <3>2. q \o c # << >> /\ (q \o c)[1] = q[1]
      BY <1>5, <1>6, <2>2
    <3> QED BY <1>1, <2>2, <3>1, <3>2
  <2> QED BY <2>1, <2>2
<1>14. Pending(s)'
  <2> SUFFICES ASSUME NEW i \in 1 .. Len(Script[s]), Got(s, Script[s][i], "READY_FOR_FILE"),
                      sent[s] + 1 = i
               PROVE  FALSE
    BY <1>1, <1>2 DEF Pending
  <2>1. Dead(s, m)
    BY <1>8, AnsweredIsDead DEF SessionOK
  <2> QED BY <1>3, <1>4, <2>1 DEF Dead
<1> QED BY <1>9, <1>10, <1>12, <1>13, <1>14 DEF SessionOK

LEMMA LeaveKeepsOK ==
  ASSUME TypeInv, NEW s \in Sessions, SessionOK(s), ClientLeaves(s)
  PROVE  SessionOK(s)'
<1>1. sent' = sent /\ peer'[s] # "up"
  BY LeavesIs
<1>2. PICK n \in 0 .. Len(Unread(s)) : Unread(s)' = SubSeq(Unread(s), 1, n)
  BY LeavesIs
<1>3. /\ UNCHANGED <<stage, fileReq, received, replies>>
      /\ \A x, y : Got(s, x, y)' <=> Got(s, x, y)
  BY DEF ClientLeaves, authVars, fileVars, Got
<1>4. /\ SubSeq(Unread(s), 1, n) \in Seq(Chars) /\ Len(SubSeq(Unread(s), 1, n)) = n
      /\ \A k \in 1 .. n : SubSeq(Unread(s), 1, n)[k] = Unread(s)[k]
  BY UnreadTypes, PrefixIs
<1>5. /\ Len(Unread(s)') = n /\ n \in 0 .. Len(Unread(s)) /\ Len(Unread(s)) \in Nat
      /\ \A k \in 1 .. n : Unread(s)'[k] = Unread(s)[k]
  BY <1>2, <1>4, UnreadTypes
<1>6. Gone(s)'
  <2>1. ASSUME NEW i \in 1 .. Len(replies[s]), NEW x, replies[s][i].to = x PROVE Dead(s, x)'
    <3>1. Dead(s, x)
      BY <2>1 DEF SessionOK, Gone
    <3>2. \A k \in 1 .. n : k \in 1 .. Len(Unread(s))
      BY <1>5
    <3> QED BY <1>1, <1>5, <3>1, <3>2 DEF Dead
  <2> QED BY <1>3, <2>1 DEF Gone, Dead
<1>7. Asked(s)'
  BY <1>1, <1>3, AskedStays DEF SessionOK
<1>8. Body(s)' = Body(s)
  BY <1>3 DEF Body
<1>9. Receiving(s)'
  BY <1>3, <1>8 DEF SessionOK, Receiving
<1>10. Continues(s)'
  <2> SUFFICES ASSUME stage[s] = "DATA", Unread(s)' # << >>
               PROVE  Unread(s)'[1] = <<Body(s), received[s] + 1>>
    BY <1>1, <1>3, <1>8 DEF Continues
  <2>1. 1 \in 1 .. n /\ Unread(s) # << >>
    <3>1. n # 0
      BY <1>2, <1>4
    <3> QED BY <1>5, <3>1
  <2> QED BY <1>5, <2>1 DEF SessionOK, Continues
<1>11. Pending(s)'
  BY <1>1, <1>3 DEF SessionOK, Pending
<1> QED BY <1>6, <1>7, <1>9, <1>10, <1>11 DEF SessionOK

SessionInv == \A s \in Sessions : SessionOK(s)

LEMMA NextKeepsSessions == TypeInv /\ StreamInv /\ SessionInv /\ [Next]_vars => SessionInv'
<1> SUFFICES ASSUME TypeInv, StreamInv, SessionInv, [Next]_vars, NEW t \in Sessions
             PROVE  SessionOK(t)'
  BY DEF SessionInv
<1>1. SessionOK(t)
  BY DEF SessionInv
<1>2. ASSUME NEW s \in Sessions,
             \/ ProcessLine(s) \/ WriteFails(s) \/ HandleFileData(s)
             \/ ClientSend(s) \/ ClientLeaves(s)
      PROVE  SessionOK(t)'
  <2>1. CASE t = s
    BY <1>1, <1>2, <2>1, LineKeepsOK, FailureKeepsOK, DataKeepsOK, SendKeepsOK, LeaveKeepsOK
  <2>2. CASE t # s
    BY <1>1, <1>2, <2>2, OnlyOne, SameStaysOK
  <2> QED BY <2>1, <2>2
<1>3. ASSUME \/ \E s \in Sessions : \/ AcceptConnection(s) \/ WouldBlock(s) \/ RemoveClient(s)
                                    \/ ProcessBufferReturns(s) \/ OnData(s)
             \/ RotatePin \/ Tick \/ UNCHANGED vars
      PROVE  SessionOK(t)'
  BY <1>1, <1>3, OthersAreSame, SameStaysOK
<1> QED BY <1>2, <1>3 DEF Next, ServerStep

LEMMA InitSessions == Init => SessionInv
<1> SUFFICES ASSUME Init, NEW s \in Sessions PROVE SessionOK(s)
  BY DEF SessionInv
<1>1. replies[s] = << >> /\ sent[s] = 0 /\ stage[s] = "AUTH"
  BY DEF Init
<1>2. \A x, y : ~Got(s, x, y)
  BY <1>1 DEF Got
<1> QED BY <1>1, <1>2 DEF SessionOK, Gone, Asked, Receiving, Continues, Pending

LEMMA SessionInvariant == Spec => []SessionInv
  BY InitSessions, NextKeepsSessions, StreamInvariant, TypeInvariant, PTL DEF Spec
-----------------------------------------------------------------------------
(* What the GUI shows. *)

(* A step that acknowledges no file, and shows no other one.                *)
LEMMA ShowsTheSame ==
  ASSUME TransferIsUnfinished, transfer' = transfer \/ ~transfer'.active,
         \A t \in Sessions : \A x :
           /\ Got(t, x, "FILE_OK")' => Got(t, x, "FILE_OK")
           /\ Got(t, x, "READY_FOR_FILE") => Got(t, x, "READY_FOR_FILE")'
  PROVE  TransferIsUnfinished'
<1> SUFFICES ASSUME transfer'.active
             PROVE  \E t \in Sessions, m \in Msgs :
                      /\ Name[m] = transfer'.fileName
                      /\ Got(t, m, "READY_FOR_FILE")' /\ ~Got(t, m, "FILE_OK")'
  BY DEF TransferIsUnfinished
<1>1. transfer' = transfer
  OBVIOUS
<1>2. PICK t \in Sessions, m \in Msgs :
        /\ Name[m] = transfer.fileName
        /\ Got(t, m, "READY_FOR_FILE") /\ ~Got(t, m, "FILE_OK")
  BY <1>1 DEF TransferIsUnfinished
<1> QED BY <1>1, <1>2

(* The answers that all the sessions have got after one of them got one.    *)
LEMMA GotBy ==
  ASSUME TypeInv, NEW s \in Sessions, NEW m, NEW r, SendResponse(s, m, r), NEW t \in Sessions
  PROVE  \A x, y : Got(t, x, y)' <=> Got(t, x, y) \/ (t = s /\ x = m /\ y = r)
<1>1. CASE t = s
  BY <1>1, GotAfter
<1>2. CASE t # s
  BY <1>2, RepliesAfter DEF Got
<1> QED BY <1>1, <1>2

(* A line acknowledges no file.                                             *)
LEMMA LineGot ==
  ASSUME TypeInv, NEW s \in Sessions, NEW m, Silent(s, m) \/ Answers(s, m) \/ Invites(s, m),
         NEW t \in Sessions, NEW x
  PROVE  /\ Got(t, x, "FILE_OK")' <=> Got(t, x, "FILE_OK")
         /\ Got(t, x, "READY_FOR_FILE") => Got(t, x, "READY_FOR_FILE")'
<1>1. CASE Silent(s, m)
  BY <1>1 DEF Silent, Got
<1>2. CASE Answers(s, m)
  <2>1. PICK r \in Final \ {"FILE_OK"} : SendResponse(s, m, r)
    BY <1>2 DEF Answers
  <2> QED BY <2>1, GotBy
<1>3. CASE Invites(s, m)
  <2>1. SendResponse(s, m, "READY_FOR_FILE")
    BY <1>3 DEF Invites
  <2> QED BY <2>1, GotBy
<1> QED BY <1>1, <1>2, <1>3

LEMMA NextKeepsTransfer ==
  TypeInv /\ SessionInv /\ TransferIsUnfinished /\ [Next]_vars => TransferIsUnfinished'
<1> SUFFICES ASSUME TypeInv, SessionInv, TransferIsUnfinished, [Next]_vars
             PROVE  TransferIsUnfinished'
  OBVIOUS
<1>1. ASSUME NEW s \in Sessions, ProcessLine(s) PROVE TransferIsUnfinished'
  <2>1. PICK m : Silent(s, m) \/ Answers(s, m) \/ Invites(s, m)
    BY <1>1, LineLeads
  <2>2. transfer' = transfer \/ ~transfer'.active
    BY <2>1 DEF Silent, Answers, Invites
  <2>3. \A t \in Sessions : \A x :
          /\ Got(t, x, "FILE_OK")' => Got(t, x, "FILE_OK")
          /\ Got(t, x, "READY_FOR_FILE") => Got(t, x, "READY_FOR_FILE")'
    BY <2>1, LineGot
  <2> QED BY <2>2, <2>3, ShowsTheSame
<1>2. ASSUME NEW s \in Sessions, WriteFails(s) PROVE TransferIsUnfinished'
  <2>1. transfer' = transfer /\ SendResponse(s, fileReq[s], "CMD_FAIL")
    BY <1>2, FailureLeads
  <2>2. ASSUME NEW t \in Sessions
        PROVE  \A x, y : Got(t, x, y)' <=> Got(t, x, y) \/ (t = s /\ x = fileReq[s] /\ y = "CMD_FAIL")
    BY <2>1, GotBy
  <2> QED BY <2>1, <2>2, ShowsTheSame
<1>3. ASSUME NEW s \in Sessions, HandleFileData(s) PROVE TransferIsUnfinished'
  <2>1. stage[s] = "DATA" /\ \E n : WritesOn(s, n) \/ Acknowledges(s, n)
    BY <1>3, DataLeads
  <2>2. CASE \E n : Acknowledges(s, n)
    BY <2>2 DEF Acknowledges, Idle, TransferIsUnfinished
  <2>3. CASE \E n : WritesOn(s, n)
    <3>1. replies' = replies
      BY <2>3 DEF WritesOn
    <3>2. CASE transfer' = transfer
      BY <3>1, <3>2, ShowsTheSame DEF Got
    <3>3. CASE transfer' # transfer
      <4>1. transfer'.fileName = Name[fileReq[s]]
        BY <2>3, <3>3 DEF WritesOn
      <4>2. fileReq[s] \in Msgs /\ Got(s, fileReq[s], "READY_FOR_FILE")
            /\ ~Got(s, fileReq[s], "FILE_OK")
        BY <2>1, BodyIs DEF SessionInv, SessionOK, Receiving
      <4> QED BY <3>1, <4>1, <4>2 DEF TransferIsUnfinished, Got
    <3> QED BY <3>2, <3>3
  <2> QED BY <2>1, <2>2, <2>3
<1>4. ASSUME \/ \E s \in Sessions : \/ AcceptConnection(s) \/ WouldBlock(s) \/ RemoveClient(s)
                                    \/ ProcessBufferReturns(s) \/ OnData(s)
                                    \/ ClientSend(s) \/ ClientLeaves(s)
             \/ RotatePin \/ Tick \/ UNCHANGED vars
      PROVE  TransferIsUnfinished'
  <2>1. UNCHANGED <<transfer, replies>>
    BY <1>4 DEF AcceptConnection, WouldBlock, RemoveClient, ProcessBufferReturns, OnData,
                ClientSend, ClientLeaves, RotatePin, Tick, vars, fileVars
  <2> QED BY <2>1, ShowsTheSame DEF Got
<1> QED BY <1>1, <1>2, <1>3, <1>4 DEF Next, ServerStep

(* Whatever the disk does and however the phones leave, a file the GUI      *)
(* shows as being received was invited and is not acknowledged.             *)
THEOREM TransferStaysUnfinished == Spec => []TransferIsUnfinished
<1>1. Init => TransferIsUnfinished
  BY DEF Init, Idle, TransferIsUnfinished
<1> QED BY <1>1, NextKeepsTransfer, SessionInvariant, TypeInvariant, PTL DEF Spec
-----------------------------------------------------------------------------
(* What is on the disk. *)

(* Characters written to the end of a file that holds the first r of c.     *)
LEMMA WriteExtends ==
  ASSUME NEW S, NEW c \in Seq(S), NEW r \in Nat, NEW T, NEW chars \in Seq(T),
         r + Len(chars) <= Len(c), \A k \in 1 .. Len(chars) : chars[k] = c[r + k]
  PROVE  WriteAt(SubSeq(c, 1, r), r, chars) = SubSeq(c, 1, r + Len(chars))
<1> DEFINE a == SubSeq(c, 1, r)
           n == Len(chars)
           b == SubSeq(c, 1, r + n)
           w == WriteAt(a, r, chars)
<1>1. n \in Nat /\ r \in 0 .. Len(c) /\ r + n \in 0 .. Len(c) /\ Len(c) \in Nat
  OBVIOUS
<1>2. a \in Seq(S) /\ Len(a) = r /\ \A k \in 1 .. r : a[k] = c[k]
  BY <1>1, PrefixIs
<1>3. b \in Seq(S) /\ Len(b) = r + n /\ \A k \in 1 .. r + n : b[k] = c[k]
  BY <1>1, PrefixIs
<1>4. \A k \in 1 .. n : chars[k] = c[r + k]
  OBVIOUS
<1> HIDE DEF a, n, b
<1>5. (IF Len(a) > r + n THEN Len(a) ELSE r + n) = r + n
  BY <1>1, <1>2
<1>6. w = [i \in 1 .. r + n |-> IF i > r /\ i <= r + n THEN chars[i - r]
                               ELSE IF i <= Len(a) THEN a[i] ELSE Hole]
  BY <1>5 DEF WriteAt, n
<1> HIDE DEF w
<1>7. ASSUME NEW i \in 1 .. r + n PROVE w[i] = b[i]
  <2>1. CASE i > r
    <3>1. i - r \in 1 .. n /\ r + (i - r) = i /\ i <= r + n
      BY <1>1, <1>7, <2>1
    <3> QED BY <1>3, <1>4, <1>6, <1>7, <2>1, <3>1
  <2>2. CASE ~(i > r)
    <3>1. i \in 1 .. r
      BY <1>1, <1>7, <2>2
    <3> QED BY <1>2, <1>3, <1>6, <1>7, <2>2, <3>1
  <2> QED BY <2>1, <2>2
<1>8. b = [i \in 1 .. r + n |-> b[i]]
  BY <1>3
<1>9. w = [i \in 1 .. r + n |-> w[i]]
  BY <1>6
<1>10. w = b
  BY <1>7, <1>8, <1>9
<1> QED BY <1>10 DEF w, a, b, n

(* An acknowledged file is complete, and one that is being received holds   *)
(* what has been received of it.                                            *)
Intact(s) ==
  \A m \in Msgs : Got(s, m, "FILE_OK") =>
    Acceptable(m) /\ \A b \in Payload(m) : disk[Name[m]] = CharsOf(b)

Begun(s) ==
  stage[s] = "DATA" => disk[Name[fileReq[s]]] = SubSeq(CharsOf(Body(s)), 1, received[s])

DiskInv == \A s \in Sessions : Intact(s) /\ Begun(s)

LEMMA SentIs ==
  ASSUME StreamInv, NEW s \in Sessions
  PROVE  sent[s] \in Nat /\ sent[s] <= Len(Script[s])
  BY ScriptAssumption DEF StreamInv, Stream

(* A step that leaves the disk alone.                                       *)
LEMMA DiskStays ==
  ASSUME DiskInv, disk' = disk,
         \A t \in Sessions :
           /\ \A x : Got(t, x, "FILE_OK")' => Got(t, x, "FILE_OK")
           /\ stage'[t] = "DATA" =>
                stage[t] = "DATA" /\ fileReq'[t] = fileReq[t] /\ received'[t] = received[t]
  PROVE  DiskInv'
<1> SUFFICES ASSUME NEW t \in Sessions PROVE Intact(t)' /\ Begun(t)'
  BY DEF DiskInv
<1>1. Intact(t)'
  BY DEF DiskInv, Intact
<1>2. Begun(t)'
  <2> SUFFICES ASSUME stage'[t] = "DATA"
               PROVE  disk'[Name[fileReq'[t]]] = SubSeq(CharsOf(Body(t)'), 1, received'[t])
    BY DEF Begun, CharsOf
  <2>1. Body(t)' = Body(t)
    BY DEF Body
  <2> QED BY <2>1 DEF DiskInv, Begun
<1> QED BY <1>1, <1>2

(* A step of session s that changes the file of m.                          *)
LEMMA OthersKeepDisk ==
  ASSUME TypeInv, StreamInv, SessionInv, DiskInv, DistinctNames, NEW s \in Sessions,
         NEW m \in Msgs, Acceptable(m),
         ~Got(s, m, "FILE_OK"), PlaceOf(s, m) \in 1 .. Len(Script[s]),
         Script[s][PlaceOf(s, m)] = m,
         NEW content, disk' = [disk EXCEPT ![Name[m]] = content]
  PROVE  /\ disk'[Name[m]] = content
         /\ \A t \in Sessions, x \in Msgs : Got(t, x, "FILE_OK") =>
              Acceptable(x) /\ \A b \in Payload(x) : disk'[Name[x]] = CharsOf(b)
         /\ \A t \in Sessions : t # s /\ stage[t] = "DATA" =>
              disk'[Name[fileReq[t]]] = SubSeq(CharsOf(Body(t)), 1, received[t])
<1>1. disk \in [Names -> Seq(Chars)] /\ Name \in [Msgs -> Names]
  BY Groups, ScriptAssumption DEF FileOK
<1>2. PlaceOf(s, m) \in DOMAIN Script[s]
  BY ScriptAssumption
<1>3. ASSUME NEW t \in Sessions, NEW x \in Msgs, Dead(t, x), Acceptable(x), Name[x] = Name[m]
      PROVE  t = s /\ x = m
  <2>1. PlaceOf(t, x) \in DOMAIN Script[t] /\ Script[t][PlaceOf(t, x)] = x
    BY <1>3, SentIs, ScriptAssumption, SMTT(20) DEF Dead
  <2> QED BY <1>2, <1>3, <2>1 DEF DistinctNames
<1>4. ASSUME NEW t \in Sessions, NEW x \in Msgs, Got(t, x, "FILE_OK")
      PROVE  Acceptable(x) /\ \A b \in Payload(x) : disk'[Name[x]] = CharsOf(b)
  <2>1. Acceptable(x) /\ \A b \in Payload(x) : disk[Name[x]] = CharsOf(b)
    BY <1>4 DEF DiskInv, Intact
  <2>2. Dead(t, x)
    BY <1>4, AnsweredIsDead DEF SessionInv, SessionOK
  <2>3. Name[x] # Name[m]
    BY <1>3, <1>4, <2>1, <2>2
  <2>4. disk'[Name[x]] = disk[Name[x]]
    BY <1>1, <2>3
  <2> QED BY <2>1, <2>4
<1>5. ASSUME NEW t \in Sessions, t # s, stage[t] = "DATA"
      PROVE  disk'[Name[fileReq[t]]] = SubSeq(CharsOf(Body(t)), 1, received[t])
  <2>1. fileReq[t] \in Msgs /\ Dead(t, fileReq[t])
    BY <1>5, BodyIs DEF SessionInv
  <2>2. Acceptable(fileReq[t])
    BY <1>5 DEF SessionInv, SessionOK, Receiving, Acceptable
  <2>3. Name[fileReq[t]] # Name[m]
    BY <1>3, <1>5, <2>1, <2>2
  <2>4. disk'[Name[fileReq[t]]] = disk[Name[fileReq[t]]]
    BY <1>1, <2>3
  <2> QED BY <1>5, <2>4 DEF DiskInv, Begun
<1> QED BY <1>1, <1>4, <1>5

LEMMA LineKeepsDisk ==
  ASSUME TypeInv, StreamInv, SessionInv, DiskInv, DistinctNames,
         NEW s \in Sessions, ProcessLine(s)
  PROVE  DiskInv'
<1>1. UNCHANGED clientVars /\ stage[s] # "DATA"
  BY LineLeads
<1>2. PICK n \in 1 .. Len(Live(s)) : \E m :
        /\ m = MessageOf(SubSeq(Live(s), 1, n)) /\ Takes(s, n)
        /\ Silent(s, m) \/ Answers(s, m) \/ Invites(s, m)
  BY LineLeads
<1>3. PICK m :
        /\ m = MessageOf(SubSeq(Live(s), 1, n)) /\ Takes(s, n)
        /\ Silent(s, m) \/ Answers(s, m) \/ Invites(s, m)
  BY <1>2
<1>4. \A t \in Sessions : \A x : Got(t, x, "FILE_OK")' <=> Got(t, x, "FILE_OK")
  BY <1>3, LineGot
<1>5. \A t \in Sessions : t # s => Same(t)
  BY OnlyOne
<1>6. CASE Silent(s, m)
  <2>1. disk' = disk /\ UNCHANGED <<stage, fileReq, received>>
    BY <1>6 DEF Silent
  <2> QED BY <1>4, <2>1, DiskStays
<1>7. CASE Answers(s, m)
  <2>1. disk' = disk /\ stage'[s] # "DATA"
    BY <1>7, Groups DEF Answers, AuthOK
  <2>2. \A t \in Sessions : stage'[t] = "DATA" =>
          stage[t] = "DATA" /\ fileReq'[t] = fileReq[t] /\ received'[t] = received[t]
    BY <1>5, <2>1 DEF Same
  <2> QED BY <1>4, <2>1, <2>2, DiskStays
<1>8. CASE Invites(s, m)
  <2>1. /\ PlaceOf(s, m) \in 1 .. Len(Script[s]) - 1 /\ \A r : ~Got(s, m, r)
        /\ Receiving(s)'
    BY <1>1, <1>3, <1>8, InviteIsOK DEF SessionInv
  <2>2. m \in Msgs /\ Acceptable(m) /\ m # NoMsg /\ disk' = [disk EXCEPT ![Name[m]] = << >>]
    BY <1>8, ScriptAssumption DEF Invites, Acceptable
  <2>3. Script[s][PlaceOf(s, m)] = m /\ PlaceOf(s, m) \in 1 .. Len(Script[s])
    <3>1. Script[s][PlaceOf(s, m)] = m
      BY <1>3, <2>2, LineIsMessage
    <3> QED BY <2>1, <3>1, ScriptAssumption
  <2>4. /\ disk'[Name[m]] = << >>
        /\ \A t \in Sessions, x \in Msgs : Got(t, x, "FILE_OK") =>
             Acceptable(x) /\ \A b \in Payload(x) : disk'[Name[x]] = CharsOf(b)
        /\ \A t \in Sessions : t # s /\ stage[t] = "DATA" =>
             disk'[Name[fileReq[t]]] = SubSeq(CharsOf(Body(t)), 1, received[t])
    BY <2>1, <2>2, <2>3, OthersKeepDisk
  <2>5. ASSUME NEW t \in Sessions PROVE Intact(t)'
    BY <1>4, <2>4 DEF Intact
  <2>6. ASSUME NEW t \in Sessions PROVE Begun(t)'
    <3> SUFFICES ASSUME stage'[t] = "DATA"
                 PROVE  disk'[Name[fileReq'[t]]] = SubSeq(CharsOf(Body(t)'), 1, received'[t])
      BY DEF Begun, CharsOf
    <3>1. CASE t = s
      <4>1. fileReq'[t] = m /\ received'[t] = 0
        BY <1>8, <3>1, Groups DEF Invites, FileOK
      <4>2. SubSeq(CharsOf(Body(t)'), 1, 0) = << >>
        OBVIOUS
      <4> QED BY <2>4, <4>1, <4>2
    <3>2. CASE t # s
      <4>1. stage'[t] = stage[t] /\ fileReq'[t] = fileReq[t] /\ received'[t] = received[t]
        BY <1>5, <3>2 DEF Same
      <4>2. Body(t)' = Body(t)
        BY <4>1 DEF Body
      <4> QED BY <2>4, <3>2, <4>1, <4>2
    <3> QED BY <3>1, <3>2
  <2> QED BY <2>5, <2>6 DEF DiskInv
<1> QED BY <1>3, <1>6, <1>7, <1>8

LEMMA DataKeepsDisk ==
  ASSUME TypeInv, StreamInv, SessionInv, DiskInv, DistinctNames,
         NEW s \in Sessions, HandleFileData(s)
  PROVE  DiskInv'
<1>1. stage[s] = "DATA" /\ fileReq' = fileReq
  BY DataLeads
<1>2. PICK n \in 1 .. Len(Live(s)) :
        /\ disk' = [disk EXCEPT ![Name[fileReq[s]]] =
                      WriteAt(@, received[s], SubSeq(Live(s), 1, n))]
        /\ WritesOn(s, n) \/ Acknowledges(s, n)
  BY DataLeads
<1> DEFINE c == CharsOf(Body(s))
           r == received[s]
           chars == SubSeq(Live(s), 1, n)
<1>3. /\ fileReq[s] \in Msgs /\ Body(s) \in Msgs /\ Dead(s, fileReq[s]) /\ fileReq[s] # NoMsg
      /\ PlaceOf(s, fileReq[s]) \in 1 .. Len(Script[s])
  BY <1>1, BodyIs, ScriptAssumption DEF SessionInv
<1>4. /\ Acceptable(fileReq[s]) /\ Payload(fileReq[s]) = {Body(s)}
      /\ Size[fileReq[s]] = Length[Body(s)] /\ ~Got(s, fileReq[s], "FILE_OK")
  BY <1>1 DEF SessionInv, SessionOK, Receiving, Acceptable
<1>5. /\ c \in Seq(Char) /\ Len(c) = Length[Body(s)]
      /\ \A j \in 1 .. Length[Body(s)] : c[j] = <<Body(s), j>>
  BY <1>3, CharsOfIs
<1>6. r \in Nat /\ Size[fileReq[s]] \in Nat /\ r + n <= Size[fileReq[s]]
  <2>1. r \in Nat
    BY Groups DEF FileOK
  <2>2. Size[fileReq[s]] \in Nat
    BY <1>4, LimitAssumption DEF Acceptable
  <2> QED BY <1>2, <2>1, <2>2 DEF WritesOn, Acknowledges
<1>7. /\ chars \in Seq(Chars) /\ Len(chars) = n /\ \A k \in 1 .. n : chars[k] = Live(s)[k]
  <2>1. Live(s) \in Seq(Chars) /\ n \in 0 .. Len(Live(s))
    BY UnreadTypes
  <2> QED BY <2>1, PrefixIs
<1>8. ASSUME NEW k \in 1 .. n PROVE chars[k] = c[r + k]
  <2>1. k \in 1 .. Len(Live(s)) /\ k \in 1 .. Len(Unread(s)) /\ Unread(s)[k] = Live(s)[k]
        /\ Unread(s) # << >>
    BY UnreadTypes
  <2>2. k <= Size[fileReq[s]] - r /\ r + k \in 1 .. Length[Body(s)]
    BY <1>4, <1>6
  <2>3. Unread(s)[k] = <<Body(s), r + k>>
    BY <1>1, <2>1, <2>2, NextByteIs DEF SessionInv
  <2> QED BY <1>5, <1>7, <2>1, <2>2, <2>3
<1>9. disk[Name[fileReq[s]]] = SubSeq(c, 1, r)
  BY <1>1 DEF DiskInv, Begun
<1>10. WriteAt(disk[Name[fileReq[s]]], r, chars) = SubSeq(c, 1, r + n)
  <2>1. r + Len(chars) <= Len(c)
    BY <1>4, <1>5, <1>6, <1>7
  <2> HIDE DEF c, r, chars
  <2>2. WriteAt(SubSeq(c, 1, r), r, chars) = SubSeq(c, 1, r + Len(chars))
    BY <1>5, <1>6, <1>7, <1>8, <2>1, WriteExtends
  <2> QED BY <1>7, <1>9, <2>2
<1>11. disk' = [disk EXCEPT ![Name[fileReq[s]]] = SubSeq(c, 1, r + n)]
  BY <1>2, <1>10
<1>12. /\ disk'[Name[fileReq[s]]] = SubSeq(c, 1, r + n)
       /\ \A t \in Sessions, x \in Msgs : Got(t, x, "FILE_OK") =>
            Acceptable(x) /\ \A b \in Payload(x) : disk'[Name[x]] = CharsOf(b)
       /\ \A t \in Sessions : t # s /\ stage[t] = "DATA" =>
            disk'[Name[fileReq[t]]] = SubSeq(CharsOf(Body(t)), 1, received[t])
  <2>1. Script[s][PlaceOf(s, fileReq[s])] = fileReq[s]
    BY <1>3 DEF Dead
  <2> QED BY <1>3, <1>4, <1>11, <2>1, OthersKeepDisk
<1> HIDE DEF c, r, chars
<1>13. \A t \in Sessions : t # s => Same(t)
  BY OnlyOne
<1>14. Body(s)' = Body(s) /\ \A t \in Sessions : Body(t)' = Body(t)
  BY <1>1 DEF Body
<1>15. ASSUME NEW t \in Sessions, t # s PROVE Begun(t)'
  <2>1. stage'[t] = stage[t] /\ fileReq'[t] = fileReq[t] /\ received'[t] = received[t]
    BY <1>13, <1>15 DEF Same
  <2> QED BY <1>12, <1>14, <1>15, <2>1 DEF Begun, CharsOf
<1>16. Begun(s)'
  <2>1. CASE WritesOn(s, n)
    <3>1. received'[s] = r + n /\ stage' = stage
      BY <2>1, Groups DEF WritesOn, FileOK, r
    <3> QED BY <1>1, <1>12, <1>14, <3>1 DEF Begun, CharsOf, c
  <2>2. CASE Acknowledges(s, n)
    <3>1. stage'[s] # "DATA"
      BY <2>2, Groups DEF Acknowledges, AuthOK
    <3> QED BY <3>1 DEF Begun
  <2> QED BY <1>2, <2>1, <2>2
<1>17. ASSUME NEW t \in Sessions PROVE Intact(t)'
  <2>1. CASE WritesOn(s, n)
    <3>1. \A x : Got(t, x, "FILE_OK")' <=> Got(t, x, "FILE_OK")
      BY <2>1 DEF WritesOn, Got
    <3> QED BY <1>12, <3>1 DEF Intact
  <2>2. CASE Acknowledges(s, n)
    <3>1. SendResponse(s, fileReq[s], "FILE_OK") /\ r + n = Size[fileReq[s]]
      BY <2>2 DEF Acknowledges, r
    <3>2. \A x, y : Got(t, x, y)' <=> Got(t, x, y) \/ (t = s /\ x = fileReq[s] /\ y = "FILE_OK")
      BY <3>1, GotBy
    <3>3. disk'[Name[fileReq[s]]] = CharsOf(Body(s))
      <4>1. SubSeq(c, 1, r + n) = c
        BY <1>4, <1>5, <3>1, SubSeqFull
      <4> QED BY <1>12, <4>1 DEF c
    <3>4. ASSUME NEW x \in Msgs, Got(t, x, "FILE_OK")'
          PROVE  Acceptable(x) /\ \A b \in Payload(x) : disk'[Name[x]] = CharsOf(b)
      <4>1. CASE Got(t, x, "FILE_OK")
        BY <1>12, <4>1
      <4>2. CASE x = fileReq[s]
        BY <1>4, <3>3, <4>2
      <4> QED BY <3>2, <3>4, <4>1, <4>2
    <3> QED BY <3>4 DEF Intact
  <2> QED BY <1>2, <2>1, <2>2
<1> QED BY <1>15, <1>16, <1>17 DEF DiskInv

LEMMA NextKeepsDisk ==
  TypeInv /\ StreamInv /\ SessionInv /\ DistinctNames /\ DiskInv /\ [Next]_vars => DiskInv'
<1> SUFFICES ASSUME TypeInv, StreamInv, SessionInv, DistinctNames, DiskInv, [Next]_vars
             PROVE  DiskInv'
  OBVIOUS
<1>1. ASSUME NEW s \in Sessions, WriteFails(s) PROVE DiskInv'
  <2>1. /\ UNCHANGED <<fileReq, received, disk>> /\ SendResponse(s, fileReq[s], "CMD_FAIL")
        /\ stage' = [stage EXCEPT ![s] = "HEADER"]
    BY <1>1, FailureLeads
  <2>2. ASSUME NEW t \in Sessions
        PROVE  \A x, y : Got(t, x, y)' <=> Got(t, x, y) \/ (t = s /\ x = fileReq[s] /\ y = "CMD_FAIL")
    BY <2>1, GotBy
  <2>3. \A t \in Sessions : stage'[t] = "DATA" => stage[t] = "DATA"
    BY <2>1, Groups DEF AuthOK
  <2> QED BY <2>1, <2>2, <2>3, DiskStays
<1>2. ASSUME \/ \E s \in Sessions : \/ AcceptConnection(s) \/ WouldBlock(s) \/ RemoveClient(s)
                                    \/ ProcessBufferReturns(s) \/ OnData(s)
                                    \/ ClientSend(s) \/ ClientLeaves(s)
             \/ RotatePin \/ Tick \/ UNCHANGED vars
      PROVE  DiskInv'
  <2>1. UNCHANGED <<stage, fileReq, received, replies, disk>>
    BY <1>2 DEF AcceptConnection, WouldBlock, RemoveClient, ProcessBufferReturns, OnData,
                ClientSend, ClientLeaves, RotatePin, Tick, vars, authVars, fileVars
  <2> QED BY <2>1, DiskStays DEF Got
<1> QED BY <1>1, <1>2, LineKeepsDisk, DataKeepsDisk DEF Next, ServerStep

(* Files of different names, of any number of phones, however the network   *)
(* cuts what they send, however short the writes are and whoever leaves     *)
(* when: what the daemon acknowledged is on the disk, byte for byte.        *)
THEOREM UploadsStayIntact == DistinctNames => (Spec => []UploadIntact)
<1> SUFFICES ASSUME DistinctNames PROVE Spec => []UploadIntact
  OBVIOUS
<1>1. Init => DiskInv
  <2> SUFFICES ASSUME Init, NEW s \in Sessions PROVE Intact(s) /\ Begun(s)
    BY DEF DiskInv
  <2>1. replies[s] = << >> /\ stage[s] = "AUTH"
    BY DEF Init
  <2> QED BY <2>1 DEF Intact, Begun, Got
<1>2. TypeInv /\ StreamInv /\ SessionInv /\ DiskInv /\ [Next]_vars => DiskInv'
  BY NextKeepsDisk
<1>3. DiskInv => UploadIntact
  BY DEF DiskInv, Intact, UploadIntact
<1> QED BY <1>1, <1>2, <1>3, SessionInvariant, StreamInvariant, TypeInvariant, PTL DEF Spec
-----------------------------------------------------------------------------
(* Answers.  Where no write fails, the daemon always stands at the start of *)
(* a message unless it receives a file, and the bytes of a file are on      *)
(* their way only to a session that receives it; what the last answer was   *)
(* says whether it does; everything unread comes after the message that was *)
(* answered last, and nothing between them asks for an answer.              *)
NoWriteFails == "error" \notin DiskFaults

Starts(s) == stage[s] # "DATA" /\ Unread(s) # << >> => Unread(s)[1][2] = 1

BytesOnly(s) ==
  \A k \in 1 .. Len(Unread(s)) : Kind[Unread(s)[k][1]] = "body" =>
    stage[s] = "DATA" /\ ReqOf[Unread(s)[k][1]] = fileReq[s]

InvitesOne(s) ==
  /\ IsInviting(s) <=> stage[s] = "DATA"
  /\ stage[s] = "DATA" => LastReply(s).to = fileReq[s]

Parsed(s) ==
  \A i \in 1 .. Len(replies[s]) : replies[s][i].to \in Msgs /\ Kind[replies[s][i].to] # "body"

Ahead(s) == \A k \in 1 .. Len(Unread(s)) : Position(s) < PlaceOf(s, Unread(s)[k][1])

Missed(s) ==
  alive /\ stage[s] # "DATA" =>
    IF Unread(s) = << >>
    THEN peer[s] = "up" => \A j \in Position(s) + 1 .. sent[s] : ~Request(Script[s][j])
    ELSE \A j \in Position(s) + 1 .. PlaceOf(s, Unread(s)[1][1]) - 1 : ~Request(Script[s][j])

HeadOK(s) ==
  Starts(s) /\ BytesOnly(s) /\ InvitesOne(s) /\ Parsed(s) /\ Ahead(s) /\ Missed(s)

LEMMA RepliesStay ==
  ASSUME NEW s \in Sessions, replies'[s] = replies[s]
  PROVE  /\ Position(s)' = Position(s) /\ LastReply(s)' = LastReply(s)
         /\ IsInviting(s)' = IsInviting(s) /\ (Parsed(s) => Parsed(s)')
  BY DEF Position, LastReply, IsInviting, Parsed

LEMMA SameStaysHead ==
  ASSUME NEW s \in Sessions, HeadOK(s), Same(s), alive' => alive
  PROVE  HeadOK(s)'
<1>1. /\ stage'[s] = stage[s] /\ fileReq'[s] = fileReq[s] /\ replies'[s] = replies[s]
      /\ sent'[s] = sent[s] /\ peer'[s] = peer[s] /\ Unread(s)' = Unread(s)
  BY DEF Same
<1>2. /\ Position(s)' = Position(s) /\ LastReply(s)' = LastReply(s)
      /\ IsInviting(s)' = IsInviting(s) /\ (Parsed(s) => Parsed(s)')
  BY <1>1, RepliesStay
<1>3. Starts(s)'
  BY <1>1 DEF HeadOK, Starts
<1>4. BytesOnly(s)'
  BY <1>1 DEF HeadOK, BytesOnly
<1>5. InvitesOne(s)'
  BY <1>1, <1>2 DEF HeadOK, InvitesOne
<1>6. Ahead(s)'
  BY <1>1, <1>2 DEF HeadOK, Ahead
<1>7. Missed(s)'
  BY <1>1, <1>2 DEF HeadOK, Missed
<1> QED BY <1>2, <1>3, <1>4, <1>5, <1>6, <1>7 DEF HeadOK

(* The position of a connection is the place of the message it answered     *)
(* last.                                                                    *)
LEMMA PositionIs ==
  ASSUME TypeInv, StreamInv, NEW s \in Sessions, Gone(s), Parsed(s)
  PROVE  /\ Position(s) \in 0 .. sent[s] /\ sent[s] \in Nat
         /\ replies[s] # << >> => Position(s) = PlaceOf(s, LastReply(s).to)
<1>1. replies[s] \in Seq(Reply) /\ sent[s] \in Nat
  BY Groups DEF ReplyOK, Reply, ClientOK
<1>2. CASE replies[s] = << >>
  BY <1>1, <1>2 DEF Position
<1>3. CASE replies[s] # << >>
  <2> DEFINE m == LastReply(s).to
  <2>1. Len(replies[s]) \in 1 .. Len(replies[s])
    BY <1>1, <1>3
  <2>2. m \in Msgs /\ m # NoMsg /\ Dead(s, m)
    BY <2>1, ScriptAssumption DEF Gone, Parsed, LastReply
  <2>3. PlaceOf(s, m) \in 1 .. sent[s] /\ Script[s][PlaceOf(s, m)] = m
    BY <2>2 DEF Dead
  <2>4. \E i \in DOMAIN Script[s] : Script[s][i] = m
    <3>1. PlaceOf(s, m) \in DOMAIN Script[s]
      BY <2>3, SentIs, ScriptAssumption
    <3> QED BY <2>3, <3>1
  <2>5. Position(s) = PlaceOf(s, m)
    BY <1>3, <2>4, Zenon DEF Position, PlaceOf
  <2> QED BY <1>1, <2>3, <2>5
<1> QED BY <1>2, <1>3

LEMMA PositionAfter ==
  ASSUME TypeInv, NEW s \in Sessions, NEW m \in Msgs, NEW r, SendResponse(s, m, r),
         PlaceOf(s, m) \in 1 .. Len(Script[s]), Script[s][PlaceOf(s, m)] = m
  PROVE  /\ Position(s)' = PlaceOf(s, m) /\ LastReply(s)' = [to |-> m, is |-> r]
         /\ IsInviting(s)' <=> r = "READY_FOR_FILE"
         /\ Parsed(s) /\ Kind[m] # "body" => Parsed(s)'
<1>1. /\ Len(replies[s]) \in Nat /\ Len(replies'[s]) = Len(replies[s]) + 1
      /\ \A i \in 1 .. Len(replies[s]) : replies'[s][i] = replies[s][i]
      /\ replies'[s][Len(replies[s]) + 1] = [to |-> m, is |-> r]
  BY RepliesAfter
<1>2. replies'[s] # << >>
  BY <1>1
<1>3. LastReply(s)' = [to |-> m, is |-> r]
  BY <1>1 DEF LastReply
<1>4. IsInviting(s)' <=> r = "READY_FOR_FILE"
  BY <1>2, <1>3 DEF IsInviting
<1>5. \E i \in DOMAIN Script[s] : Script[s][i] = m
  BY ScriptAssumption
<1>6. Position(s)' = PlaceOf(s, m)
  <2>1. LastReply(s)'.to = m
    BY <1>3
  <2>2. Position(s)' = CHOOSE i \in DOMAIN Script[s] : Script[s][i] = m
    BY <1>2, <1>5, <2>1 DEF Position
  <2> QED BY <2>2 DEF PlaceOf
<1>7. ASSUME Parsed(s), Kind[m] # "body" PROVE Parsed(s)'
  <2> SUFFICES ASSUME NEW i \in 1 .. Len(replies'[s])
               PROVE  replies'[s][i].to \in Msgs /\ Kind[replies'[s][i].to] # "body"
    BY DEF Parsed
  <2>1. i \in 1 .. Len(replies[s]) \/ i = Len(replies[s]) + 1
    BY <1>1
  <2>2. CASE i \in 1 .. Len(replies[s])
    BY <1>1, <1>7, <2>2 DEF Parsed
  <2>3. CASE i = Len(replies[s]) + 1
    <3>1. replies'[s][i].to = m
      BY <1>1, <2>3
    <3> QED BY <1>7, <3>1
  <2> QED BY <2>1, <2>2, <2>3
<1> QED BY <1>3, <1>4, <1>6, <1>7

(* What follows a message that was taken whole.                             *)
LEMMA AfterTaken ==
  ASSUME NEW s \in Sessions, NEW n, NEW q, Stream(s, q, n), NEW i \in 1 .. Len(q),
         q[i][2] = Length[q[i][1]]
  PROVE  /\ Rest(q, i) # << >> =>
              /\ i + 1 \in 1 .. Len(q) /\ Rest(q, i)[1] = q[i + 1]
              /\ Rest(q, i)[1][2] = 1 /\ PlaceOf(s, q[i][1]) < PlaceOf(s, Rest(q, i)[1][1])
              /\ \A j \in PlaceOf(s, q[i][1]) + 1 .. PlaceOf(s, Rest(q, i)[1][1]) - 1 :
                   ~Request(Script[s][j])
         /\ Rest(q, i) = << >> /\ Last(s, q, n) =>
              \A j \in PlaceOf(s, q[i][1]) + 1 .. n : ~Request(Script[s][j])
<1>1. /\ q \in Seq(Char) /\ Len(q) \in Nat /\ i \in Nat /\ i \in 0 .. Len(q)
      /\ Known(s, q, n) /\ Ordered(s, q) /\ Backward(q) /\ NoneLeftOut(s, q)
  BY DEF Stream
<1>2. /\ Rest(q, i) \in Seq(Char) /\ Len(Rest(q, i)) = Len(q) - i
      /\ \A k \in 1 .. Len(q) - i : Rest(q, i)[k] = q[i + k]
  BY <1>1, RestIs
<1>3. ASSUME Rest(q, i) # << >>
      PROVE  /\ i + 1 \in 1 .. Len(q) /\ Rest(q, i)[1] = q[i + 1]
             /\ q[i + 1][2] = 1 /\ PlaceOf(s, q[i][1]) < PlaceOf(s, q[i + 1][1])
             /\ \A j \in PlaceOf(s, q[i][1]) + 1 .. PlaceOf(s, q[i + 1][1]) - 1 :
                  ~Request(Script[s][j])
  <2>1. i + 1 \in 2 .. Len(q) /\ i + 1 \in 1 .. Len(q) /\ 1 \in 1 .. Len(q) - i
        /\ i < i + 1 /\ (i + 1) - 1 = i
    BY <1>1, <1>2, <1>3
  <2>2. Rest(q, i)[1] = q[i + 1]
    BY <1>2, <2>1
  <2>3. /\ q[i + 1][2] \in 1 .. Length[q[i + 1][1]] /\ Length[q[i + 1][1]] \in Nat
        /\ Length[q[i][1]] \in Nat
    <3>1. q[i + 1][2] \in 1 .. Length[q[i + 1][1]]
      BY <1>1, <2>1 DEF Known
    <3>2. Length[q[i + 1][1]] \in Nat /\ Length[q[i][1]] \in Nat
      BY <2>1, CharsAreTyped
    <3> QED BY <3>1, <3>2
  <2>4. q[i + 1][2] = 1
    <3> SUFFICES ASSUME q[i + 1][2] # 1 PROVE FALSE
      OBVIOUS
    <3>1. q[i] = <<q[i + 1][1], q[i + 1][2] - 1>>
      BY <1>1, <2>1 DEF Backward
    <3>2. q[i][1] = q[i + 1][1] /\ q[i][2] = q[i + 1][2] - 1
      BY <3>1
    <3> QED BY <2>3, <3>2
  <2>5. PlaceOf(s, q[i][1]) < PlaceOf(s, q[i + 1][1])
    <3>1. \/ PlaceOf(s, q[i][1]) < PlaceOf(s, q[i + 1][1])
          \/ q[i][1] = q[i + 1][1] /\ q[i][2] < q[i + 1][2]
      BY <1>1, <2>1 DEF Ordered
    <3>2. q[i][2] \in 1 .. Length[q[i][1]]
      BY <1>1 DEF Known
    <3> QED BY <2>3, <2>4, <3>1, <3>2
  <2>6. \A j \in PlaceOf(s, q[i][1]) + 1 .. PlaceOf(s, q[i + 1][1]) - 1 : ~Request(Script[s][j])
    BY <1>1, <2>1 DEF NoneLeftOut
  <2> QED BY <2>1, <2>2, <2>4, <2>5, <2>6
<1>4. ASSUME Rest(q, i) = << >>, Last(s, q, n)
      PROVE  \A j \in PlaceOf(s, q[i][1]) + 1 .. n : ~Request(Script[s][j])
  <2>1. i = Len(q) /\ q # << >>
    BY <1>1, <1>2, <1>4
  <2> QED BY <1>4, <2>1 DEF Last
<1> QED BY <1>3, <1>4

(* A line that is read where a message starts is that message.              *)
LEMMA LineIsHead ==
  ASSUME TypeInv, StreamInv, NEW s \in Sessions, HeadOK(s), stage[s] # "DATA",
         NEW n \in 1 .. Len(Live(s)), IsFirstNewline(Live(s), n)
  PROVE  LET m == Unread(s)[1][1]
         IN  /\ m \in Msgs /\ m # NoMsg /\ Kind[m] # "body" /\ n = Length[m]
             /\ Unread(s)[n] = <<m, n>> /\ MessageOf(SubSeq(Live(s), 1, n)) = m
<1> DEFINE q == Unread(s)
           m == q[1][1]
           line == SubSeq(Live(s), 1, n)
<1>1. /\ q \in Seq(Chars) /\ Len(q) \in Nat /\ n \in Nat /\ n \in 1 .. Len(q) /\ 1 \in 1 .. Len(q)
      /\ q # << >> /\ \A k \in 1 .. Len(Live(s)) : q[k] = Live(s)[k]
      /\ Len(Live(s)) \in Nat /\ Len(Live(s)) <= Len(q)
      /\ Live(s) \in Seq(Chars) /\ n \in 0 .. Len(Live(s))
  BY UnreadTypes
<1>2. Stream(s, q, sent[s])
  BY DEF StreamInv
<1>3. q[1][2] = 1 /\ Kind[m] # "body"
  BY <1>1 DEF HeadOK, Starts, BytesOnly
<1>4. m \in Msgs /\ m # NoMsg /\ Length[m] \in Nat \ {0} /\ m \notin NoNewline
  <2>1. m \in Msgs
    BY <1>1, <1>2, CharsAreTyped
  <2> QED BY <1>3, <2>1, ScriptAssumption
<1>5. /\ line \in Seq(Chars) /\ Len(line) = n /\ \A k \in 1 .. n : line[k] = Live(s)[k]
  BY <1>1, PrefixIs
<1>6. IsNewline(Live(s)[n]) /\ \A i \in 1 .. n - 1 : ~IsNewline(Live(s)[i])
  BY DEF IsFirstNewline
<1> HIDE DEF line
<1>7. ASSUME NEW k \in 1 .. Len(Live(s)), k <= Length[m] PROVE Live(s)[k] = <<m, k>>
  <2>1. k \in 1 .. Len(q) /\ k \in Nat
    BY <1>1
  <2>2. k <= Length[q[1][1]] - q[1][2] + 1 /\ q[1][2] + k - 1 = k
    BY <1>3, <1>4, <1>7, <2>1
  <2>3. q[k] = <<q[1][1], q[1][2] + k - 1>>
    BY <1>1, <1>2, <2>1, <2>2, HeadIs
  <2> QED BY <1>1, <2>2, <2>3
<1> HIDE DEF m, q
<1>8. n = Length[m]
  <2>1. ASSUME n < Length[m] PROVE FALSE
    <3>1. Live(s)[n] = <<m, n>>
      BY <1>1, <1>4, <1>7, <2>1
    <3>2. Live(s)[n][2] = Length[Live(s)[n][1]]
      BY <1>6 DEF IsNewline
    <3> QED BY <2>1, <1>4, <1>1, <3>1, <3>2
  <2>2. ASSUME Length[m] < n PROVE FALSE
    <3>1. Length[m] \in 1 .. n - 1 /\ Length[m] \in 1 .. Len(Live(s))
      BY <1>1, <1>4, <2>2
    <3>2. Live(s)[Length[m]] = <<m, Length[m]>>
      BY <1>4, <1>7, <3>1
    <3>3. <<m, Length[m]>> # Hole
      BY <1>4 DEF Hole
    <3>4. IsNewline(Live(s)[Length[m]])
      BY <1>4, <3>2, <3>3 DEF IsNewline
    <3> QED BY <1>6, <3>1, <3>4
  <2> QED BY <1>1, <1>4, <2>1, <2>2
<1>9. \A k \in 1 .. n : line[k] = <<m, k>>
  <2> SUFFICES ASSUME NEW k \in 1 .. n PROVE line[k] = <<m, k>>
    OBVIOUS
  <2>1. k \in 1 .. Len(Live(s)) /\ k <= Length[m]
    BY <1>1, <1>8
  <2> QED BY <1>5, <1>7, <2>1
<1>10. line = CharsOf(m)
  <2>1. CharsOf(m) \in Seq(Chars) /\ Len(CharsOf(m)) = n
    BY <1>4, <1>8, CharsOfIsSeq
  <2>2. \A j \in 1 .. n : CharsOf(m)[j] = <<m, j>>
    BY <1>4, <1>8, CharsOfIs
  <2>3. Len(line) = Len(CharsOf(m)) /\ \A j \in 1 .. Len(line) : line[j] = CharsOf(m)[j]
    BY <1>5, <1>9, <2>1, <2>2
  <2> QED BY <1>5, <2>1, <2>3, SeqEqual
<1>11. ASSUME NEW x \in Msgs, line = CharsOf(x) PROVE x = m
  <2>1. Length[x] \in Nat \ {0} /\ CharsOf(x)[1] = <<x, 1>>
    BY <1>11, CharsOfIs
  <2>2. line[1] = <<m, 1>>
    BY <1>1, <1>4, <1>8, <1>9
  <2>3. <<x, 1>> = <<m, 1>>
    BY <1>11, <2>1, <2>2
  <2> QED BY <2>3
<1>12. MessageOf(line) = m
  BY <1>4, <1>10, <1>11 DEF MessageOf
<1>13. q[n] = <<m, n>>
  BY <1>1, <1>7, <1>8
<1> QED BY <1>3, <1>4, <1>8, <1>12, <1>13 DEF m, q, line

(* What is unread after the last character of a message was taken.          *)
LEMMA TakenLeaves ==
  ASSUME TypeInv, StreamInv, NEW s \in Sessions, NEW i \in 1 .. Len(Unread(s)), Takes(s, i),
         NEW m, Unread(s)[i] = <<m, Length[m]>>
  PROVE  \A k \in 1 .. Len(Unread(s)') :
           /\ i + k \in 1 .. Len(Unread(s)) /\ Unread(s)'[k] = Unread(s)[i + k]
           /\ PlaceOf(s, m) < PlaceOf(s, Unread(s)'[k][1])
<1> DEFINE q == Unread(s)
<1>1. /\ q \in Seq(Char) /\ Len(q) \in Nat /\ i \in 0 .. Len(q) /\ i \in Nat
      /\ Known(s, q, sent[s]) /\ Ordered(s, q) /\ Stream(s, q, sent[s])
  BY DEF StreamInv, Stream
<1>2. Unread(s)' = Rest(q, i)
  BY DEF Takes
<1> HIDE DEF q
<1>3. Len(Rest(q, i)) = Len(q) - i /\ \A k \in 1 .. Len(q) - i : Rest(q, i)[k] = q[i + k]
  BY <1>1, RestIs
<1>4. q[i][1] = m /\ q[i][2] = Length[m] /\ Length[m] \in Nat /\ i \in 1 .. Len(q)
  <2>1. q[i] = <<m, Length[m]>> /\ i \in 1 .. Len(q)
    BY DEF q
  <2> QED BY <1>1, <2>1, CharsAreTyped
<1> SUFFICES ASSUME NEW k \in 1 .. Len(Unread(s)')
             PROVE  /\ i + k \in 1 .. Len(q) /\ Unread(s)'[k] = q[i + k]
                    /\ PlaceOf(s, m) < PlaceOf(s, Unread(s)'[k][1])
  BY DEF q
<1>5. k \in 1 .. Len(q) - i /\ i + k \in 1 .. Len(q) /\ i < i + k
  BY <1>1, <1>2, <1>3
<1>6. Unread(s)'[k] = q[i + k]
  BY <1>2, <1>3, <1>5
<1>7. PlaceOf(s, m) < PlaceOf(s, q[i + k][1])
  <2>1. \/ PlaceOf(s, m) < PlaceOf(s, q[i + k][1])
        \/ m = q[i + k][1] /\ Length[m] < q[i + k][2]
    BY <1>1, <1>4, <1>5 DEF Ordered
  <2>2. q[i + k][2] \in 1 .. Length[q[i + k][1]]
    BY <1>1, <1>5 DEF Known
  <2> QED BY <1>4, <2>1, <2>2
<1> QED BY <1>5, <1>6, <1>7

(* A step that takes up to the end of a message, when what was answered     *)
(* last is that message, or one after which nothing asks for an answer.     *)
LEMMA TakenKeepsHead ==
  ASSUME TypeInv, StreamInv, NEW s \in Sessions, NEW i \in 1 .. Len(Unread(s)), Takes(s, i),
         UNCHANGED clientVars, NEW m, Unread(s)[i] = <<m, Length[m]>>,
         NEW p \in Nat, p = Position(s)', p <= PlaceOf(s, m),
         alive' => \A j \in p + 1 .. PlaceOf(s, m) : ~Request(Script[s][j])
  PROVE  /\ stage'[s] # "DATA" => Starts(s)'
         /\ Ahead(s)' /\ Missed(s)'
<1> DEFINE q == Unread(s)
           r == Unread(s)'
<1>1. /\ q \in Seq(Char) /\ Len(q) \in Nat /\ i \in 0 .. Len(q) /\ i \in 1 .. Len(q)
      /\ Stream(s, q, sent[s]) /\ Known(s, q, sent[s]) /\ sent[s] \in Nat
      /\ q[i][1] = m /\ q[i][2] = Length[q[i][1]]
      /\ peer[s] = "up" => Last(s, q, sent[s])
  BY DEF StreamInv, Stream
<1>2. r = Rest(q, i) /\ sent' = sent /\ peer' = peer
  BY DEF Takes, clientVars
<1>3. \A k \in 1 .. Len(r) : PlaceOf(s, m) < PlaceOf(s, r[k][1])
  BY TakenLeaves
<1> HIDE DEF q
<1>4. PlaceOf(s, m) \in Nat
  BY <1>1 DEF Known
<1>5. r \in Seq(Char) /\ Len(r) \in Nat
  BY <1>1, <1>2, RestIs
<1>6. /\ r # << >> =>
           /\ r[1][2] = 1
           /\ \A j \in PlaceOf(s, m) + 1 .. PlaceOf(s, r[1][1]) - 1 : ~Request(Script[s][j])
           /\ i + 1 \in 1 .. Len(q) /\ r[1] = q[i + 1]
      /\ r = << >> /\ peer[s] = "up" =>
           \A j \in PlaceOf(s, m) + 1 .. sent[s] : ~Request(Script[s][j])
  BY <1>1, <1>2, AfterTaken
<1>7. r # << >> => PlaceOf(s, r[1][1]) \in Nat
  BY <1>1, <1>6 DEF Known
<1> HIDE DEF r
<1>8. stage'[s] # "DATA" => Starts(s)'
  BY <1>6 DEF Starts, r
<1>9. Ahead(s)'
  <2> SUFFICES ASSUME NEW k \in 1 .. Len(r) PROVE p < PlaceOf(s, r[k][1])
    BY DEF Ahead, r
  <2>1. PlaceOf(s, r[k][1]) \in Nat
    <3>1. i + k \in 1 .. Len(q) /\ r[k] = q[i + k]
      BY TakenLeaves DEF q, r
    <3> QED BY <1>1, <3>1 DEF Known
  <2> QED BY <1>3, <1>4, <2>1
<1>10. Missed(s)'
  <2> SUFFICES ASSUME alive'
               PROVE  IF r = << >>
                      THEN peer'[s] = "up" => \A j \in p + 1 .. sent'[s] : ~Request(Script[s][j])
                      ELSE \A j \in p + 1 .. PlaceOf(s, r[1][1]) - 1 : ~Request(Script[s][j])
    BY DEF Missed, r
  <2>1. \A j \in p + 1 .. PlaceOf(s, m) : ~Request(Script[s][j])
    OBVIOUS
  <2>2. CASE r = << >>
    <3> SUFFICES ASSUME peer[s] = "up", NEW j \in p + 1 .. sent[s] PROVE ~Request(Script[s][j])
      BY <1>2, <2>2
    <3>1. j \in p + 1 .. PlaceOf(s, m) \/ j \in PlaceOf(s, m) + 1 .. sent[s]
      BY <1>1, <1>4
    <3> QED BY <1>6, <2>1, <2>2, <3>1
  <2>3. CASE r # << >>
    <3> SUFFICES ASSUME NEW j \in p + 1 .. PlaceOf(s, r[1][1]) - 1 PROVE ~Request(Script[s][j])
      BY <2>3
    <3>1. j \in p + 1 .. PlaceOf(s, m) \/ j \in PlaceOf(s, m) + 1 .. PlaceOf(s, r[1][1]) - 1
      BY <1>4, <1>7, <2>3
    <3> QED BY <1>6, <2>1, <2>3, <3>1
  <2> QED BY <2>2, <2>3
<1> QED BY <1>8, <1>9, <1>10

LEMMA LineKeepsHead ==
  ASSUME TypeInv, StreamInv, NEW s \in Sessions, SessionOK(s), HeadOK(s), ProcessLine(s)
  PROVE  HeadOK(s)'
<1> DEFINE q == Unread(s)
<1>1. UNCHANGED clientVars /\ stage[s] # "DATA" /\ alive
  BY LineLeads DEF ProcessLine, Parsing
<1>2. PICK n \in 1 .. Len(Live(s)) : \E m :
        /\ m = MessageOf(SubSeq(Live(s), 1, n)) /\ IsFirstNewline(Live(s), n)
        /\ Takes(s, n)
        /\ Silent(s, m) \/ Answers(s, m) \/ Invites(s, m)
  BY LineLeads
<1>3. PICK m :
        /\ m = MessageOf(SubSeq(Live(s), 1, n)) /\ IsFirstNewline(Live(s), n)
        /\ Takes(s, n)
        /\ Silent(s, m) \/ Answers(s, m) \/ Invites(s, m)
  BY <1>2
<1>4. /\ m = q[1][1] /\ m \in Msgs /\ m # NoMsg /\ Kind[m] # "body"
      /\ q[n] = <<m, Length[m]>>
  BY <1>1, <1>3, LineIsHead
<1>5. /\ Len(q) \in Nat /\ n \in 1 .. Len(q) /\ 1 \in 1 .. Len(q) /\ q # << >>
  BY UnreadTypes
<1>6. /\ PlaceOf(s, m) \in 1 .. sent[s] /\ Script[s][PlaceOf(s, m)] = m
      /\ PlaceOf(s, m) \in 1 .. Len(Script[s]) /\ PlaceOf(s, m) \in Nat
  <2>1. /\ PlaceOf(s, m) \in 1 .. sent[s] /\ Script[s][PlaceOf(s, m)] = m
        /\ sent[s] \in 0 .. Len(Script[s])
    BY <1>4, <1>5 DEF StreamInv, Stream, Known
  <2> QED BY <2>1, SentIs, ScriptAssumption
<1>7. stage \in [Sessions -> {"AUTH", "HEADER", "DATA"}]
      /\ fileReq \in [Sessions -> Msgs \union {NoMsg}]
  BY Groups DEF AuthOK, FileOK
<1>8. ASSUME NEW k \in 1 .. Len(Unread(s)') PROVE Kind[Unread(s)'[k][1]] # "body"
  <2>1. n + k \in 1 .. Len(q) /\ Unread(s)'[k] = q[n + k]
    BY <1>3, <1>4, <1>5, TakenLeaves
  <2> QED BY <1>1, <2>1 DEF HeadOK, BytesOnly
<1> HIDE DEF q
<1>9. CASE Silent(s, m)
  <2>1. /\ UNCHANGED <<stage, fileReq, replies>> /\ (alive' => HeaderKind(m) = "input")
    BY <1>9 DEF Silent
  <2>2. /\ Position(s)' = Position(s) /\ LastReply(s)' = LastReply(s)
        /\ IsInviting(s)' = IsInviting(s) /\ Parsed(s)'
    BY <2>1, RepliesStay DEF HeadOK
  <2>3. Position(s) \in Nat /\ Position(s) <= PlaceOf(s, m)
    <3>1. Position(s) < PlaceOf(s, m)
      BY <1>4, <1>5 DEF HeadOK, Ahead, q
    <3>2. Position(s) \in Nat
      BY PositionIs DEF SessionOK, HeadOK
    <3> QED BY <1>6, <3>1, <3>2
  <2>4. ASSUME alive', NEW j \in Position(s) + 1 .. PlaceOf(s, m) PROVE ~Request(Script[s][j])
    <3>1. CASE j = PlaceOf(s, m)
      <4>1. Kind[m] = "input"
        BY <1>4, <2>1, <2>4 DEF HeaderKind
      <4> QED BY <1>6, <3>1, <4>1 DEF Request
    <3>2. CASE j # PlaceOf(s, m)
      <4>1. j \in Position(s) + 1 .. PlaceOf(s, q[1][1]) - 1
        BY <1>4, <1>6, <2>3, <3>2
      <4> QED BY <1>1, <1>5, <4>1 DEF HeadOK, Missed, q
    <3> QED BY <3>1, <3>2
  <2>5. PICK p \in Nat : p = Position(s)
    BY <2>3
  <2>6. p = Position(s)' /\ p <= PlaceOf(s, m)
    BY <2>2, <2>3, <2>5
  <2>7. (stage'[s] # "DATA" => Starts(s)') /\ Ahead(s)' /\ Missed(s)'
    BY <1>1, <1>3, <1>4, <1>5, <2>4, <2>5, <2>6, TakenKeepsHead DEF q
  <2>8. InvitesOne(s)'
    BY <2>1, <2>2 DEF HeadOK, InvitesOne
  <2>9. Starts(s)' /\ BytesOnly(s)'
    BY <1>1, <1>8, <2>1, <2>7 DEF BytesOnly
  <2> QED BY <2>2, <2>7, <2>8, <2>9 DEF HeadOK
<1>10. ASSUME NEW r, SendResponse(s, m, r)
       PROVE  /\ (stage'[s] # "DATA" => Starts(s)') /\ Ahead(s)' /\ Missed(s)' /\ Parsed(s)'
              /\ (IsInviting(s)' <=> r = "READY_FOR_FILE")
              /\ LastReply(s)' = [to |-> m, is |-> r]
  <2>1. /\ Position(s)' = PlaceOf(s, m) /\ LastReply(s)' = [to |-> m, is |-> r]
        /\ (IsInviting(s)' <=> r = "READY_FOR_FILE")
        /\ Parsed(s)'
    BY <1>4, <1>6, <1>10, PositionAfter DEF HeadOK
  <2>2. PICK p \in Nat : p = PlaceOf(s, m)
    BY <1>6
  <2>3. p = Position(s)' /\ p <= PlaceOf(s, m)
        /\ \A j \in p + 1 .. PlaceOf(s, m) : ~Request(Script[s][j])
    BY <2>1, <2>2
  <2>4. (stage'[s] # "DATA" => Starts(s)') /\ Ahead(s)' /\ Missed(s)'
    BY <1>1, <1>3, <1>4, <1>5, <2>3, TakenKeepsHead DEF q
  <2> QED BY <2>1, <2>4
<1>11. CASE Answers(s, m)
  <2>1. PICK r \in Final \ {"FILE_OK"} : SendResponse(s, m, r)
    BY <1>11 DEF Answers
  <2>2. stage'[s] # "DATA" /\ r # "READY_FOR_FILE"
    BY <1>7, <1>11 DEF Answers, Final
  <2>3. InvitesOne(s)'
    BY <1>10, <2>1, <2>2 DEF InvitesOne
  <2>4. BytesOnly(s)'
    BY <1>8 DEF BytesOnly
  <2> QED BY <1>10, <2>1, <2>2, <2>3, <2>4 DEF HeadOK
<1>12. CASE Invites(s, m)
  <2>1. SendResponse(s, m, "READY_FOR_FILE") /\ stage'[s] = "DATA" /\ fileReq'[s] = m
    BY <1>7, <1>12 DEF Invites
  <2>2. InvitesOne(s)'
    BY <1>10, <2>1 DEF InvitesOne
  <2>3. BytesOnly(s)'
    BY <1>8 DEF BytesOnly
  <2>4. Starts(s)'
    BY <2>1 DEF Starts
  <2> QED BY <1>10, <2>1, <2>2, <2>3, <2>4 DEF HeadOK
<1> QED BY <1>3, <1>9, <1>11, <1>12

(* The end mark that is skipped behind a file is a message of its own.      *)
LEMMA SentinelIs ==
  ASSUME NEW chars \in Seq(Chars), NEW k, k = SentinelLength(chars), k # 0
  PROVE  \E e \in Msgs : /\ Kind[e] = "sentinel" /\ k = Length[e] /\ k \in 1 .. Len(chars)
                         /\ chars[1] = <<e, 1>> /\ chars[k] = <<e, Length[e]>>
<1>1. PICK e \in Msgs : /\ Kind[e] = "sentinel" /\ Len(chars) >= Length[e]
                        /\ SubSeq(chars, 1, Length[e]) = CharsOf(e)
  BY DEF SentinelLength
<1>2. k = Length[chars[1][1]]
  BY <1>1 DEF SentinelLength
<1>3. /\ Length[e] \in Nat \ {0} /\ \A j \in 1 .. Length[e] : CharsOf(e)[j] = <<e, j>>
  BY CharsOfIs
<1>4. Length[e] \in 0 .. Len(chars) /\ Len(chars) \in Nat
  BY <1>1, <1>3
<1>5. \A j \in 1 .. Length[e] : SubSeq(chars, 1, Length[e])[j] = chars[j]
  BY <1>4, PrefixIs
<1>6. \A j \in 1 .. Length[e] : chars[j] = <<e, j>>
  BY <1>1, <1>3, <1>5
<1>7. chars[1] = <<e, 1>> /\ chars[Length[e]] = <<e, Length[e]>>
  BY <1>3, <1>6
<1>8. k = Length[e]
  BY <1>2, <1>7
<1> QED BY <1>1, <1>3, <1>4, <1>7, <1>8

(* What handleFileData takes when a file is complete ends with the file or  *)
(* with its end mark, and none of what it takes asks for an answer.         *)
LEMMA EndOfFile ==
  ASSUME TypeInv, StreamInv, NEW s \in Sessions, SessionOK(s), stage[s] = "DATA",
         NEW n \in 1 .. Len(Live(s)), received[s] + n = Size[fileReq[s]],
         NEW k, k = SentinelLength(Rest(Live(s), n))
  PROVE  /\ n + k \in 1 .. Len(Unread(s))
         /\ \E m \in Msgs :
              /\ Unread(s)[n + k] = <<m, Length[m]>> /\ PlaceOf(s, Body(s)) <= PlaceOf(s, m)
              /\ \A j \in PlaceOf(s, fileReq[s]) + 1 .. PlaceOf(s, m) : ~Request(Script[s][j])
<1> DEFINE q == Unread(s)
           p == PlaceOf(s, Body(s))
<1>1. /\ Live(s) \in Seq(Chars) /\ n \in 0 .. Len(Live(s)) /\ n \in Nat /\ n \in 1 .. Len(q)
      /\ Len(Live(s)) \in Nat /\ Len(Live(s)) <= Len(q) /\ Len(q) \in Nat /\ q # << >>
      /\ \A j \in 1 .. Len(Live(s)) : q[j] = Live(s)[j]
  BY UnreadTypes, SMTT(20)
<1>2. /\ Rest(Live(s), n) \in Seq(Chars) /\ Len(Rest(Live(s), n)) = Len(Live(s)) - n
      /\ \A j \in 1 .. Len(Live(s)) - n : Rest(Live(s), n)[j] = Live(s)[n + j]
  BY <1>1, RestIs
<1>3. /\ Body(s) \in Msgs /\ p = PlaceOf(s, fileReq[s]) + 1 /\ Script[s][p] = Body(s)
      /\ Kind[Body(s)] = "body" /\ p \in Nat
  BY BodyIs, ScriptAssumption, SMTT(20)
<1>4. q[n] = <<Body(s), Length[Body(s)]>>
  <2>1. /\ received[s] \in Nat /\ Size[fileReq[s]] = Length[Body(s)] /\ Size[fileReq[s]] \in Nat
    BY Groups, LimitAssumption DEF FileOK, SessionOK, Receiving
  <2>2. n <= Size[fileReq[s]] - received[s]
    BY <1>1, <2>1
  <2>3. q[n] = <<Body(s), received[s] + n>>
    BY <1>1, <2>2, NextByteIs
  <2> QED BY <2>1, <2>3
<1>5. Known(s, q, sent[s]) /\ NoneLeftOut(s, q) /\ sent[s] \in Nat
  BY DEF StreamInv, Stream
<1> HIDE DEF q, p
<1>6. ~Request(Script[s][p])
  BY <1>3 DEF Request
<1>7. CASE k = 0
  <2>1. \A j \in PlaceOf(s, fileReq[s]) + 1 .. p : ~Request(Script[s][j])
    BY <1>3, <1>6
  <2>2. n + k = n /\ p <= p
    BY <1>1, <1>3, <1>7
  <2> QED BY <1>1, <1>3, <1>4, <2>1, <2>2 DEF p, q
<1>8. CASE k # 0
  <2>1. PICK e \in Msgs :
          /\ Kind[e] = "sentinel" /\ k = Length[e] /\ k \in 1 .. Len(Rest(Live(s), n))
          /\ Rest(Live(s), n)[1] = <<e, 1>> /\ Rest(Live(s), n)[k] = <<e, Length[e]>>
    BY <1>2, <1>8, SentinelIs
  <2>2. /\ k \in 1 .. Len(Live(s)) - n /\ 1 \in 1 .. Len(Live(s)) - n
        /\ n + k \in 1 .. Len(Live(s)) /\ n + 1 \in 1 .. Len(Live(s))
        /\ n + k \in 1 .. Len(q) /\ n + 1 \in 2 .. Len(q) /\ n + 1 \in 1 .. Len(q)
        /\ (n + 1) - 1 = n
    BY <1>1, <1>2, <2>1
  <2>3. q[n + k] = <<e, Length[e]>> /\ q[n + 1] = <<e, 1>>
    BY <1>1, <1>2, <2>1, <2>2
  <2>4. PlaceOf(s, e) \in Nat /\ Script[s][PlaceOf(s, e)] = e
    <3>1. q[n + 1][1] = e
      BY <2>3
    <3> QED BY <1>5, <2>2, <3>1, SMTT(20) DEF Known
  <2>5. \A j \in p + 1 .. PlaceOf(s, e) - 1 : ~Request(Script[s][j])
    <3>1. q[n + 1][1] = e /\ q[n][1] = Body(s)
      BY <1>4, <2>3
    <3> QED BY <1>5, <2>2, <3>1 DEF NoneLeftOut, p
  <2>6. p <= PlaceOf(s, e)
    <3>1. \/ PlaceOf(s, q[n][1]) < PlaceOf(s, q[n + 1][1])
          \/ q[n][1] = q[n + 1][1]
      <4>1. Ordered(s, q) /\ n < n + 1
        BY <1>1 DEF StreamInv, Stream, q
      <4> QED BY <1>1, <2>2, <4>1 DEF Ordered
    <3> QED BY <1>3, <1>4, <2>3, <2>4, <3>1 DEF p
  <2>7. ASSUME NEW j \in PlaceOf(s, fileReq[s]) + 1 .. PlaceOf(s, e)
        PROVE  ~Request(Script[s][j])
    <3>1. j = p \/ j \in p + 1 .. PlaceOf(s, e) - 1 \/ j = PlaceOf(s, e)
      BY <1>3, <2>4
    <3>2. ~Request(Script[s][PlaceOf(s, e)])
      BY <2>1, <2>4 DEF Request
    <3> QED BY <1>6, <2>5, <3>1, <3>2
  <2> QED BY <2>2, <2>3, <2>6, <2>7 DEF p, q
<1> QED BY <1>7, <1>8

LEMMA DataKeepsHead ==
  ASSUME TypeInv, StreamInv, NEW s \in Sessions, SessionOK(s), HeadOK(s), HandleFileData(s)
  PROVE  HeadOK(s)'
<1> DEFINE q == Unread(s)
           f == fileReq[s]
<1>1. UNCHANGED clientVars /\ stage[s] = "DATA" /\ fileReq' = fileReq
  BY DataLeads
<1>2. PICK n \in 1 .. Len(Live(s)) : WritesOn(s, n) \/ Acknowledges(s, n)
  BY DataLeads
<1>3. /\ q \in Seq(Chars) /\ Len(q) \in Nat /\ n \in 0 .. Len(q) /\ n \in Nat
  BY UnreadTypes
<1>4. CASE WritesOn(s, n)
  <2>1. Unread(s)' = Rest(q, n) /\ UNCHANGED <<stage, replies>>
    BY <1>4 DEF WritesOn, Takes
  <2>2. ASSUME NEW k \in 1 .. Len(Unread(s)')
        PROVE  n + k \in 1 .. Len(q) /\ Unread(s)'[k] = q[n + k]
    <3> HIDE DEF q
    <3>1. Len(Rest(q, n)) = Len(q) - n /\ \A j \in 1 .. Len(q) - n : Rest(q, n)[j] = q[n + j]
      BY <1>3, RestIs
    <3> QED BY <1>3, <2>1, <2>2, <3>1
  <2>3. /\ Position(s)' = Position(s) /\ LastReply(s)' = LastReply(s)
        /\ IsInviting(s)' = IsInviting(s) /\ Parsed(s)'
    BY <2>1, RepliesStay DEF HeadOK
  <2>4. Starts(s)' /\ Missed(s)'
    BY <1>1, <2>1 DEF Starts, Missed
  <2>5. BytesOnly(s)'
    BY <1>1, <2>1, <2>2 DEF HeadOK, BytesOnly
  <2>6. InvitesOne(s)'
    BY <1>1, <2>1, <2>3 DEF HeadOK, InvitesOne
  <2>7. Ahead(s)'
    BY <2>2, <2>3 DEF HeadOK, Ahead
  <2> QED BY <2>3, <2>4, <2>5, <2>6, <2>7 DEF HeadOK
<1>5. CASE Acknowledges(s, n)
  <2>1. PICK i : i = n + SentinelLength(Rest(Live(s), n))
    OBVIOUS
  <2>2. Takes(s, i) /\ SendResponse(s, f, "FILE_OK") /\ stage'[s] = "HEADER"
    BY <1>5, <2>1, Groups DEF Acknowledges, AuthOK
  <2>3. PICK m \in Msgs :
          /\ q[i] = <<m, Length[m]>> /\ PlaceOf(s, Body(s)) <= PlaceOf(s, m)
          /\ i \in 1 .. Len(q)
          /\ \A j \in PlaceOf(s, f) + 1 .. PlaceOf(s, m) : ~Request(Script[s][j])
    BY <1>1, <1>5, <2>1, EndOfFile DEF Acknowledges
  <2>4. /\ f \in Msgs /\ Body(s) \in Msgs /\ PlaceOf(s, f) \in 1 .. Len(Script[s])
        /\ PlaceOf(s, Body(s)) = PlaceOf(s, f) + 1 /\ Script[s][PlaceOf(s, f)] = f
        /\ Kind[f] = "file" /\ Payload(f) = {Body(s)}
    BY <1>1, BodyIs DEF SessionOK, Receiving
  <2>5. PlaceOf(s, m) \in Nat
    BY <2>3 DEF StreamInv, Stream, Known
  <2>6. PICK p \in Nat : p = PlaceOf(s, f)
    BY <2>4
  <2> HIDE DEF f
  <2>7. /\ Position(s)' = p /\ LastReply(s)' = [to |-> f, is |-> "FILE_OK"]
        /\ ~IsInviting(s)' /\ Parsed(s)'
    BY <2>2, <2>4, <2>6, PositionAfter DEF HeadOK
  <2>8. p <= PlaceOf(s, m)
    BY <2>3, <2>4, <2>5, <2>6
  <2>9. Starts(s)' /\ Ahead(s)' /\ Missed(s)'
    BY <1>1, <2>2, <2>3, <2>6, <2>7, <2>8, TakenKeepsHead
  <2>10. BytesOnly(s)'
    <3> SUFFICES ASSUME NEW k \in 1 .. Len(Unread(s)'), Kind[Unread(s)'[k][1]] = "body"
                 PROVE  FALSE
      BY DEF BytesOnly
    <3>1. /\ i + k \in 1 .. Len(q) /\ Unread(s)'[k] = q[i + k]
          /\ PlaceOf(s, m) < PlaceOf(s, Unread(s)'[k][1])
      BY <2>2, <2>3, TakenLeaves
    <3>2. q[i + k][1] \in Msgs
      BY <3>1, CharsAreTyped DEF StreamInv
    <3>3. ReqOf[q[i + k][1]] = f /\ Kind[q[i + k][1]] = "body"
      BY <3>1 DEF HeadOK, BytesOnly, f
    <3>4. q[i + k][1] = Body(s)
      BY <2>4, <3>2, <3>3 DEF Payload
    <3> QED BY <2>3, <2>4, <2>5, <3>1, <3>4
  <2>11. InvitesOne(s)'
    BY <2>2, <2>7 DEF InvitesOne
  <2> QED BY <2>7, <2>9, <2>10, <2>11 DEF HeadOK
<1> QED BY <1>2, <1>4, <1>5

LEMMA SendKeepsHead ==
  ASSUME TypeInv, StreamInv, NEW s \in Sessions, SessionOK(s), HeadOK(s), ClientSend(s)
  PROVE  HeadOK(s)'
<1> DEFINE m == Script[s][sent[s] + 1]
           q == Unread(s)
           r == Unread(s)'
           c == CharsOf(m)
<1>1. /\ peer' = peer /\ peer[s] = "up" /\ sent[s] < Len(Script[s]) /\ sent'[s] = sent[s] + 1
      /\ (MaySend(s, m) /\ r = q \o c) \/ (Kind[m] \in {"body", "sentinel"} /\ r = q)
  BY SendAppends
<1>2. UNCHANGED <<stage, fileReq, replies, alive>>
  BY DEF ClientSend, authVars, fileVars, loopVars
<1>3. sent[s] \in Nat /\ sent[s] + 1 \in 1 .. Len(Script[s])
  BY <1>1, Groups, ScriptAssumption DEF ClientOK
<1>4. m \in Msgs /\ PlaceOf(s, m) = sent[s] + 1
  BY <1>3, PlaceIs
<1>5. c \in Seq(Char) /\ Len(c) \in Nat \ {0} /\ \A j \in 1 .. Len(c) : c[j] = <<m, j>>
  BY <1>4, CharsOfIs
<1>6. q \in Seq(Char) /\ Len(q) \in Nat /\ (q # << >> => 1 \in 1 .. Len(q))
  BY DEF StreamInv, Stream
<1>7. /\ Position(s)' = Position(s) /\ LastReply(s)' = LastReply(s)
      /\ IsInviting(s)' = IsInviting(s) /\ Parsed(s)'
  BY <1>2, RepliesStay DEF HeadOK
<1>8. Position(s) \in Nat /\ Position(s) < sent[s] + 1
  <2>1. Position(s) \in 0 .. sent[s]
    BY PositionIs DEF SessionOK, HeadOK
  <2> QED BY <1>3, <2>1
<1>9. MaySend(s, m) /\ Kind[m] = "body" => stage[s] = "DATA" /\ ReqOf[m] = fileReq[s]
  <2> SUFFICES ASSUME MaySend(s, m), Kind[m] = "body"
               PROVE  stage[s] = "DATA" /\ ReqOf[m] = fileReq[s]
    OBVIOUS
  <2>1. PICK i \in DOMAIN Script[s] : i = sent[s] + 1
    BY <1>3, ScriptAssumption
  <2>2. i > 1 /\ Script[s][i - 1] = ReqOf[m]
    BY <2>1, ProtocolAssumption
  <2>3. sent[s] \in 1 .. Len(Script[s]) /\ Script[s][sent[s]] = ReqOf[m]
    BY <1>3, <2>1, <2>2
  <2>4. Got(s, ReqOf[m], "READY_FOR_FILE")
    BY DEF MaySend
  <2> QED BY <2>3, <2>4 DEF SessionOK, Pending
<1>10. m = Script[s][sent[s] + 1]
  OBVIOUS
<1> HIDE DEF m, c, q, r
<1>11. /\ \A k \in 1 .. Len(r) :
            (k \in 1 .. Len(q) /\ r[k] = q[k]) \/ (MaySend(s, m) /\ r[k][1] = m)
       /\ q # << >> => r # << >> /\ r[1] = q[1]
       /\ q = << >> => \/ r = << >> /\ Kind[m] \in {"body", "sentinel"}
                       \/ r # << >> /\ r[1] = <<m, 1>>
  <2>1. CASE r = q /\ Kind[m] \in {"body", "sentinel"}
    BY <2>1
  <2>2. CASE MaySend(s, m) /\ r = q \o c
    <3>1. /\ q \o c \in Seq(Char) /\ Len(q \o c) = Len(q) + Len(c)
          /\ \A j \in 1 .. Len(q) + Len(c) : (q \o c)[j] = IF j <= Len(q) THEN q[j] ELSE c[j - Len(q)]
      BY <1>5, <1>6, ConcatProperties
    <3>2. ASSUME NEW k \in 1 .. Len(r) PROVE (k \in 1 .. Len(q) /\ r[k] = q[k]) \/ r[k][1] = m
      <4>1. k \in 1 .. Len(q) + Len(c)
        BY <2>2, <3>1, <3>2
      <4>2. CASE k <= Len(q)
        BY <1>6, <2>2, <3>1, <4>1, <4>2
      <4>3. CASE ~(k <= Len(q))
        <5>1. k - Len(q) \in 1 .. Len(c) /\ r[k] = c[k - Len(q)]
          BY <1>5, <1>6, <2>2, <3>1, <4>1, <4>3
        <5> QED BY <1>5, <5>1
      <4> QED BY <4>2, <4>3
    <3>3. r # << >>
      BY <1>5, <1>6, <2>2, <3>1
    <3>4. q # << >> => r[1] = q[1]
      BY <1>5, <1>6, <2>2, <3>1
    <3>5. q = << >> => r[1] = <<m, 1>>
      <4> SUFFICES ASSUME q = << >> PROVE r[1] = <<m, 1>>
        OBVIOUS
      <4>1. r = c
        BY <1>5, <2>2, ConcatEmptySeq
      <4> QED BY <1>5, <4>1
    <3> QED BY <2>2, <3>2, <3>3, <3>4, <3>5
  <2> QED BY <1>1, <2>1, <2>2
<1>12. Starts(s)'
  BY <1>2, <1>11 DEF HeadOK, Starts, q, r
<1>13. BytesOnly(s)'
  BY <1>2, <1>9, <1>11 DEF HeadOK, BytesOnly, q, r
<1>14. InvitesOne(s)'
  BY <1>2, <1>7 DEF HeadOK, InvitesOne
<1>15. Ahead(s)'
  <2> SUFFICES ASSUME NEW k \in 1 .. Len(r) PROVE Position(s) < PlaceOf(s, r[k][1])
    BY <1>7 DEF Ahead, r
  <2>1. CASE k \in 1 .. Len(q) /\ r[k] = q[k]
    BY <2>1 DEF HeadOK, Ahead, q
  <2>2. CASE r[k][1] = m
    BY <1>4, <1>8, <2>2
  <2> QED BY <1>11, <2>1, <2>2
<1>16. Missed(s)'
  <2> SUFFICES ASSUME alive, stage[s] # "DATA"
               PROVE  IF r = << >>
                      THEN \A j \in Position(s) + 1 .. sent[s] + 1 : ~Request(Script[s][j])
                      ELSE \A j \in Position(s) + 1 .. PlaceOf(s, r[1][1]) - 1 :
                             ~Request(Script[s][j])
    BY <1>1, <1>2, <1>7 DEF Missed, r
  <2>1. CASE q # << >>
    BY <1>11, <2>1 DEF HeadOK, Missed, q
  <2>2. CASE q = << >>
    <3>1. \A j \in Position(s) + 1 .. sent[s] : ~Request(Script[s][j])
      BY <1>1, <2>2 DEF HeadOK, Missed, q
    <3>2. CASE r = << >>
      <4>1. ~Request(Script[s][sent[s] + 1])
        BY <1>10, <1>11, <2>2, <3>2 DEF Request
      <4>2. \A j \in Position(s) + 1 .. sent[s] + 1 : j \in Position(s) + 1 .. sent[s] \/ j = sent[s] + 1
        BY <1>3, <1>8
      <4> QED BY <3>1, <3>2, <4>1, <4>2
    <3>3. CASE r # << >>
      <4>1. r[1][1] = m /\ PlaceOf(s, m) - 1 = sent[s]
        BY <1>3, <1>4, <1>11, <2>2, <3>3
      <4> QED BY <3>1, <3>3, <4>1
    <3> QED BY <3>2, <3>3
  <2> QED BY <2>1, <2>2
<1> QED BY <1>7, <1>12, <1>13, <1>14, <1>15, <1>16 DEF HeadOK

LEMMA LeaveKeepsHead ==
  ASSUME TypeInv, NEW s \in Sessions, HeadOK(s), ClientLeaves(s)
  PROVE  HeadOK(s)'
<1>1. sent' = sent /\ peer'[s] # "up"
  BY LeavesIs
<1>2. PICK n \in 0 .. Len(Unread(s)) : Unread(s)' = SubSeq(Unread(s), 1, n)
  BY LeavesIs
<1>3. UNCHANGED <<stage, fileReq, replies, alive>>
  BY DEF ClientLeaves, authVars, fileVars, loopVars
<1>4. /\ SubSeq(Unread(s), 1, n) \in Seq(Chars) /\ Len(SubSeq(Unread(s), 1, n)) = n
      /\ \A k \in 1 .. n : SubSeq(Unread(s), 1, n)[k] = Unread(s)[k]
  BY UnreadTypes, PrefixIs
<1>5. \A k \in 1 .. Len(Unread(s)') : k \in 1 .. Len(Unread(s)) /\ Unread(s)'[k] = Unread(s)[k]
  BY <1>2, <1>4, UnreadTypes
<1>6. Unread(s)' # << >> => Unread(s) # << >> /\ Unread(s)'[1] = Unread(s)[1]
  <2> SUFFICES ASSUME Unread(s)' # << >>
               PROVE  Unread(s) # << >> /\ Unread(s)'[1] = Unread(s)[1]
    OBVIOUS
  <2>1. 1 \in 1 .. Len(Unread(s)')
    BY <1>2, <1>4
  <2>2. 1 \in 1 .. Len(Unread(s)) /\ Unread(s) \in Seq(Chars)
    BY <1>5, <2>1, UnreadTypes
  <2> QED BY <1>5, <2>1, <2>2
<1>7. /\ Position(s)' = Position(s) /\ LastReply(s)' = LastReply(s)
      /\ IsInviting(s)' = IsInviting(s) /\ Parsed(s)'
  BY <1>3, RepliesStay DEF HeadOK
<1>8. Starts(s)'
  BY <1>3, <1>6 DEF HeadOK, Starts
<1>9. BytesOnly(s)'
  BY <1>3, <1>5 DEF HeadOK, BytesOnly
<1>10. InvitesOne(s)'
  BY <1>3, <1>7 DEF HeadOK, InvitesOne
<1>11. Ahead(s)'
  BY <1>5, <1>7 DEF HeadOK, Ahead
<1>12. Missed(s)'
  BY <1>1, <1>3, <1>6, <1>7 DEF HeadOK, Missed
<1> QED BY <1>7, <1>8, <1>9, <1>10, <1>11, <1>12 DEF HeadOK

HeadInv == \A s \in Sessions : HeadOK(s)

LEMMA NextKeepsHeads ==
  TypeInv /\ StreamInv /\ SessionInv /\ NoWriteFails /\ HeadInv /\ [Next]_vars => HeadInv'
<1> SUFFICES ASSUME TypeInv, StreamInv, SessionInv, NoWriteFails, HeadInv, [Next]_vars,
                    NEW t \in Sessions
             PROVE  HeadOK(t)'
  BY DEF HeadInv
<1>1. SessionOK(t) /\ HeadOK(t)
  BY DEF SessionInv, HeadInv
<1>2. ASSUME NEW s \in Sessions,
             ProcessLine(s) \/ HandleFileData(s) \/ ClientSend(s) \/ ClientLeaves(s)
      PROVE  HeadOK(t)'
  <2>1. alive' => alive
    BY <1>2 DEF ProcessLine, HandleFileData, Parsing, ClientSend, ClientLeaves, loopVars
  <2>2. CASE t = s
    BY <1>1, <1>2, <2>2, LineKeepsHead, DataKeepsHead, SendKeepsHead, LeaveKeepsHead
  <2>3. CASE t # s
    BY <1>1, <1>2, <2>1, <2>3, OnlyOne, SameStaysHead
  <2> QED BY <2>2, <2>3
<1>3. ASSUME \/ \E s \in Sessions : \/ AcceptConnection(s) \/ WouldBlock(s) \/ RemoveClient(s)
                                    \/ ProcessBufferReturns(s) \/ OnData(s)
             \/ RotatePin \/ Tick \/ UNCHANGED vars
      PROVE  HeadOK(t)'
  BY <1>1, <1>3, OthersAreSame, SameStaysHead
<1>4. ASSUME NEW s \in Sessions PROVE ~WriteFails(s)
  BY FailureLeads DEF NoWriteFails
<1> QED BY <1>2, <1>3, <1>4 DEF Next, ServerStep

LEMMA InitHeads == Init => HeadInv
<1> SUFFICES ASSUME Init, NEW s \in Sessions PROVE HeadOK(s)
  BY DEF HeadInv
<1>1. replies[s] = << >> /\ sent[s] = 0 /\ stage[s] = "AUTH" /\ Position(s) = 0
  BY DEF Init, Position
<1>2. Unread(s) = << >> /\ Len(Unread(s)) = 0
  <2>1. wire[s] = << >> /\ Live(s) = << >>
    BY DEF Init, Live
  <2> QED BY <2>1 DEF Unread
<1> QED BY <1>1, <1>2 DEF HeadOK, Starts, BytesOnly, InvitesOne, Parsed, Ahead, Missed, IsInviting

LEMMA HeadInvariant == NoWriteFails => (Spec => []HeadInv)
<1> SUFFICES ASSUME NoWriteFails PROVE Spec => []HeadInv
  OBVIOUS
<1>1. Init => HeadInv
  BY InitHeads
<1>2. TypeInv /\ StreamInv /\ SessionInv /\ HeadInv /\ [Next]_vars => HeadInv'
  BY NextKeepsHeads
<1> QED BY <1>1, <1>2, SessionInvariant, StreamInvariant, TypeInvariant, PTL DEF Spec

(* Where no write fails, the bytes of a file are never parsed as a line,    *)
(* however many of them one recv() returns together with what is around.    *)
THEOREM PayloadIsNeverParsed == NoWriteFails => (Spec => []PayloadNeverParsed)
<1> SUFFICES ASSUME NoWriteFails PROVE Spec => []PayloadNeverParsed
  OBVIOUS
<1>1. TypeInv /\ HeadInv => PayloadNeverParsed
  <2> SUFFICES ASSUME TypeInv, HeadInv, NEW s \in Sessions, NEW i \in DOMAIN replies[s]
               PROVE  replies[s][i].to \in {m \in Msgs : Kind[m] # "body"}
    BY DEF PayloadNeverParsed
  <2>1. i \in 1 .. Len(replies[s])
    BY Groups DEF ReplyOK, Reply
  <2> QED BY <2>1 DEF HeadInv, HeadOK, Parsed
<1> QED BY <1>1, HeadInvariant, TypeInvariant, PTL
-----------------------------------------------------------------------------
(* Every connection is a RequestOrder. *)

(* A step that moves the position and the invitation of one connection.     *)
LEMMA OnlyOneMoves ==
  ASSUME NEW s \in Sessions, NEW p, p = Position(s)', NEW v, v = IsInviting(s)',
         \A t \in Sessions : t # s => Position(t)' = Position(t) /\ IsInviting(t)' = IsInviting(t)
  PROVE  /\ [t \in Sessions |-> Position(t)]' = [[t \in Sessions |-> Position(t)] EXCEPT ![s] = p]
         /\ [t \in Sessions |-> IsInviting(t)]' =
              [[t \in Sessions |-> IsInviting(t)] EXCEPT ![s] = v]
         /\ Position(s)' = Position(s) => UNCHANGED [t \in Sessions |-> Position(t)]
         /\ IsInviting(s)' = IsInviting(s) => UNCHANGED [t \in Sessions |-> IsInviting(t)]
  OBVIOUS

LEMMA IsNextIs ==
  ASSUME NEW s \in Sessions, NEW i \in DOMAIN Script[s], Position(s) < i,
         Kind[Script[s][i]] # "body",
         \A j \in Position(s) + 1 .. i - 1 : ~Request(Script[s][j])
  PROVE  Order!IsNext(s, i)
<1>1. Script[s][i] \in Msgs /\ Kind[Script[s][i]] \in Kinds
  BY ScriptAssumption
<1>2. \/ Request(Script[s][i])
      \/ Kind[Script[s][i]] \in {"sentinel", "input", "badinput"}
  BY <1>1 DEF Request, Kinds
<1>3. Script[s][i] \in {m \in Msgs : Request(m)}
                         \union {m \in Msgs : Kind[m] \in {"sentinel", "input", "badinput"}}
  BY <1>1, <1>2
<1>4. [t \in Sessions |-> Position(t)][s] = Position(s)
  OBVIOUS
<1> QED BY <1>3, <1>4 DEF Order!IsNext

LEMMA LineIsInOrder ==
  ASSUME TypeInv, StreamInv, NEW s \in Sessions, SessionOK(s), HeadOK(s), ProcessLine(s)
  PROVE  \/ Order!Answer(s) \/ Order!Invite(s)
         \/ Position(s)' = Position(s) /\ IsInviting(s)' = IsInviting(s)
<1>1. UNCHANGED clientVars /\ stage[s] # "DATA" /\ alive
  BY LineLeads DEF ProcessLine, Parsing
<1>2. PICK n \in 1 .. Len(Live(s)) : \E m :
        /\ m = MessageOf(SubSeq(Live(s), 1, n)) /\ IsFirstNewline(Live(s), n)
        /\ Takes(s, n)
        /\ Silent(s, m) \/ Answers(s, m) \/ Invites(s, m)
  BY LineLeads
<1>3. PICK m :
        /\ m = MessageOf(SubSeq(Live(s), 1, n)) /\ IsFirstNewline(Live(s), n)
        /\ Takes(s, n)
        /\ Silent(s, m) \/ Answers(s, m) \/ Invites(s, m)
  BY <1>2
<1>4. m = Unread(s)[1][1] /\ m \in Msgs /\ m # NoMsg /\ Kind[m] # "body"
  BY <1>1, <1>3, LineIsHead
<1>5. 1 \in 1 .. Len(Unread(s)) /\ Unread(s) # << >>
  BY UnreadTypes
<1>6. PICK i \in DOMAIN Script[s] : i = PlaceOf(s, m) /\ Script[s][i] = m
  <2>1. /\ PlaceOf(s, m) \in 1 .. sent[s] /\ Script[s][PlaceOf(s, m)] = m
        /\ sent[s] \in 0 .. Len(Script[s])
    BY <1>4, <1>5 DEF StreamInv, Stream, Known
  <2> QED BY <2>1, SentIs, ScriptAssumption
<1>7. Order!IsNext(s, i)
  <2>1. Position(s) < i
    BY <1>4, <1>5, <1>6 DEF HeadOK, Ahead
  <2>2. \A j \in Position(s) + 1 .. i - 1 : ~Request(Script[s][j])
    BY <1>1, <1>4, <1>5, <1>6 DEF HeadOK, Missed
  <2> QED BY <1>4, <1>6, <2>1, <2>2, IsNextIs
<1>8. ~IsInviting(s) /\ [t \in Sessions |-> IsInviting(t)][s] = IsInviting(s)
  BY <1>1 DEF HeadOK, InvitesOne
<1>9. \A t \in Sessions : t # s => Position(t)' = Position(t) /\ IsInviting(t)' = IsInviting(t)
  BY OnlyOne, RepliesStay DEF Same
<1>10. ASSUME NEW r, SendResponse(s, m, r)
       PROVE  Position(s)' = i /\ (IsInviting(s)' <=> r = "READY_FOR_FILE")
  <2>1. PlaceOf(s, m) \in 1 .. Len(Script[s]) /\ Script[s][PlaceOf(s, m)] = m
    BY <1>6, ScriptAssumption
  <2> QED BY <1>4, <1>6, <1>10, <2>1, PositionAfter
<1>11. CASE Silent(s, m)
  BY <1>11, RepliesStay DEF Silent
<1>12. CASE Answers(s, m)
  <2>1. PICK r \in Final \ {"FILE_OK"} : SendResponse(s, m, r)
    BY <1>12 DEF Answers
  <2>2. Position(s)' = i /\ ~IsInviting(s)'
    BY <1>10, <2>1 DEF Final
  <2>3. IsInviting(s)' = IsInviting(s)
    BY <1>8, <2>2 DEF IsInviting
  <2>4. /\ [t \in Sessions |-> Position(t)]' = [[t \in Sessions |-> Position(t)] EXCEPT ![s] = i]
        /\ UNCHANGED [t \in Sessions |-> IsInviting(t)]
    BY <1>9, <2>2, <2>3, OnlyOneMoves
  <2>5. Order!Answer(s)
    BY <1>6, <1>7, <1>8, <2>4 DEF Order!Answer
  <2> QED BY <2>5
<1>13. CASE Invites(s, m)
  <2>1. SendResponse(s, m, "READY_FOR_FILE") /\ Script[s][i] \in {x \in Msgs : Kind[x] = "file"}
    BY <1>4, <1>6, <1>13 DEF Invites
  <2>2. Position(s)' = i /\ IsInviting(s)' = TRUE
    BY <1>10, <2>1 DEF IsInviting
  <2>3. /\ [t \in Sessions |-> Position(t)]' = [[t \in Sessions |-> Position(t)] EXCEPT ![s] = i]
        /\ [t \in Sessions |-> IsInviting(t)]' =
             [[t \in Sessions |-> IsInviting(t)] EXCEPT ![s] = TRUE]
    BY <1>9, <2>2, OnlyOneMoves
  <2>4. Order!Invite(s)
    BY <1>6, <1>7, <1>8, <2>1, <2>3 DEF Order!Invite
  <2> QED BY <2>4
<1> QED BY <1>3, <1>11, <1>12, <1>13

LEMMA DataIsInOrder ==
  ASSUME TypeInv, StreamInv, NEW s \in Sessions, SessionOK(s), HeadOK(s), HandleFileData(s)
  PROVE  \/ Order!Finish(s)
         \/ Position(s)' = Position(s) /\ IsInviting(s)' = IsInviting(s)
<1>1. stage[s] = "DATA"
  BY DataLeads
<1>2. PICK n : WritesOn(s, n) \/ Acknowledges(s, n)
  BY DataLeads
<1>3. CASE WritesOn(s, n)
  BY <1>3, RepliesStay DEF WritesOn
<1>4. CASE Acknowledges(s, n)
  <2> DEFINE f == fileReq[s]
  <2>1. SendResponse(s, f, "FILE_OK")
    BY <1>4 DEF Acknowledges
  <2>2. /\ f \in Msgs /\ PlaceOf(s, f) \in 1 .. Len(Script[s]) /\ Script[s][PlaceOf(s, f)] = f
    BY <1>1, BodyIs DEF SessionOK, Receiving
  <2>3. IsInviting(s) /\ LastReply(s).to = f
    BY <1>1 DEF HeadOK, InvitesOne
  <2>4. Position(s) = PlaceOf(s, f)
    <3>1. replies[s] # << >>
      BY <2>3 DEF IsInviting
    <3> QED BY <2>3, <3>1, PositionIs DEF SessionOK, HeadOK
  <2> HIDE DEF f
  <2>5. Position(s)' = PlaceOf(s, f) /\ ~IsInviting(s)'
    BY <2>1, <2>2, PositionAfter
  <2>6. Position(s)' = Position(s) /\ IsInviting(s)' = FALSE
    BY <2>4, <2>5 DEF IsInviting
  <2>7. \A t \in Sessions : t # s => Position(t)' = Position(t) /\ IsInviting(t)' = IsInviting(t)
    BY OnlyOne, RepliesStay DEF Same
  <2>8. /\ UNCHANGED [t \in Sessions |-> Position(t)]
        /\ [t \in Sessions |-> IsInviting(t)]' =
             [[t \in Sessions |-> IsInviting(t)] EXCEPT ![s] = FALSE]
    BY <2>6, <2>7, OnlyOneMoves
  <2>9. [t \in Sessions |-> IsInviting(t)][s] = IsInviting(s)
    OBVIOUS
  <2>10. Order!Finish(s)
    BY <2>3, <2>8, <2>9 DEF Order!Finish
  <2> QED BY <2>10
<1> QED BY <1>2, <1>3, <1>4

(* A step that moves no connection is a stuttering step of the order.       *)
LEMMA NoneMoves ==
  ASSUME \A t \in Sessions : Position(t)' = Position(t) /\ IsInviting(t)' = IsInviting(t)
  PROVE  UNCHANGED Order!vars
  BY DEF Order!vars

LEMMA NextIsInOrder ==
  TypeInv /\ StreamInv /\ SessionInv /\ NoWriteFails /\ HeadInv /\ [Next]_vars
    => [Order!Next]_(Order!vars)
<1> SUFFICES ASSUME TypeInv, StreamInv, SessionInv, NoWriteFails, HeadInv, [Next]_vars
             PROVE  Order!Next \/ UNCHANGED Order!vars
  OBVIOUS
<1>1. ASSUME NEW s \in Sessions, ProcessLine(s) \/ HandleFileData(s)
      PROVE  Order!Next \/ UNCHANGED Order!vars
  <2>1. SessionOK(s) /\ HeadOK(s)
    BY DEF SessionInv, HeadInv
  <2>2. \/ Order!Answer(s) \/ Order!Invite(s) \/ Order!Finish(s)
        \/ Position(s)' = Position(s) /\ IsInviting(s)' = IsInviting(s)
    BY <1>1, <2>1, LineIsInOrder, DataIsInOrder
  <2>3. CASE Order!Answer(s) \/ Order!Invite(s) \/ Order!Finish(s)
    BY <2>3 DEF Order!Next
  <2>4. CASE Position(s)' = Position(s) /\ IsInviting(s)' = IsInviting(s)
    <3>1. \A t \in Sessions : t # s => Position(t)' = Position(t) /\ IsInviting(t)' = IsInviting(t)
      BY <1>1, OnlyOne, RepliesStay DEF Same
    <3> QED BY <2>4, <3>1, NoneMoves
  <2> QED BY <2>2, <2>3, <2>4
<1>2. ASSUME \/ \E s \in Sessions : \/ AcceptConnection(s) \/ WouldBlock(s) \/ RemoveClient(s)
                                    \/ ProcessBufferReturns(s) \/ OnData(s)
                                    \/ ClientSend(s) \/ ClientLeaves(s)
             \/ RotatePin \/ Tick \/ UNCHANGED vars
      PROVE  UNCHANGED Order!vars
  <2>1. replies' = replies
    BY <1>2 DEF AcceptConnection, WouldBlock, RemoveClient, ProcessBufferReturns, OnData,
                ClientSend, ClientLeaves, RotatePin, Tick, vars
  <2>2. \A t \in Sessions : Position(t)' = Position(t) /\ IsInviting(t)' = IsInviting(t)
    BY <2>1, RepliesStay
  <2> QED BY <2>2, NoneMoves
<1>3. ASSUME NEW s \in Sessions PROVE ~WriteFails(s)
  BY FailureLeads DEF NoWriteFails
<1> QED BY <1>1, <1>2, <1>3 DEF Next, ServerStep

LEMMA InitIsInOrder == Init => Order!Init
<1> SUFFICES ASSUME Init PROVE Order!Init
  OBVIOUS
<1>1. \A t \in Sessions : Position(t) = 0 /\ IsInviting(t) = FALSE
  BY DEF Init, Position, IsInviting
<1> QED BY <1>1 DEF Order!Init

(* Where no write fails, every connection implements RequestOrder: a phone  *)
(* that counts its requests knows which of them every answer is for.        *)
THEOREM AnswersAreInOrder == NoWriteFails => (Spec => AnsweredInOrder)
<1> SUFFICES ASSUME NoWriteFails PROVE Spec => AnsweredInOrder
  OBVIOUS
<1>1. Init => Order!Init
  BY InitIsInOrder
<1>2. TypeInv /\ StreamInv /\ SessionInv /\ HeadInv /\ [Next]_vars => [Order!Next]_(Order!vars)
  BY NextIsInOrder
<1>3. Spec => []HeadInv
  BY HeadInvariant
<1> QED BY <1>1, <1>2, <1>3, SessionInvariant, StreamInvariant, TypeInvariant, PTL
    DEF Spec, AnsweredInOrder, Order!Spec
=============================================================================
