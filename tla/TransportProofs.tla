--------------------------- MODULE TransportProofs ---------------------------
(***************************************************************************)
(* What is proved of both wire protocols, for all requests, passports,     *)
(* settings, events, lengths of segments and bounds (TransportAssumption   *)
(* and LinkAssumption say what is supposed of them).                       *)
(*                                                                         *)
(* CarouselTransport: the listener reads the frames the posts sent over an *)
(* undisturbed connection whole and in order, however the bytes come in    *)
(* (FramesIntact), an unfinished frame does not outlive the silence of the *)
(* line (SilenceClears), an answer has the weight of a passport within the *)
(* ranges (AnswersWithinRanges), and nothing but frames of the posts gets  *)
(* past the CRC (OnlySentAccepted).  FeigLink: the parser reads of every  *)
(* event what it says (ParsedRight), the handler does so of all of them    *)
(* (EventsExact) and acknowledges them in order (AcksInOrder), and a lamp  *)
(* command gets its own answer, or one that was late (AnswersMatch).  Last,*)
(* the types of both.                                                      *)
(*                                                                         *)
(* What the parser's loop over the records comes to is an induction, and   *)
(* so is where a record is among the bytes of all (FlattenPlaces): each    *)
(* record is read where it begins (RecordRead), the positions behind the   *)
(* records it gets past are those of the event (TagsRead).                 *)
(*                                                                         *)
(* Neither stream property is inductive.  That the frames read so far are  *)
(* the first ones sent says nothing about the next one, which is still in  *)
(* pieces: the buffer, the stream and the line.  The invariant (StreamInv, *)
(* and InLine of WireInv for the readers) is that the pieces put together  *)
(* are the frames still to be read, byte for byte.  Of the CRCs only their *)
(* range is needed (ByteRange, WordRange, CheckedFrame): a frame carries   *)
(* whatever the checking side computes of it.  Only OnlySentAccepted rests *)
(* on more, that damage makes no other frame of two requests in a row      *)
(* (FramesApart); its invariant (Sound) is that the same is true of all    *)
(* bytes under way, wherever they are cut.                                 *)
(*                                                                         *)
(* For the silence, the invariant (TimerInv) is that the timer of an       *)
(* unfinished frame runs exactly as long as there is one, was started at   *)
(* the latest with the silence, and at its limit ends the connection       *)
(* before another tick.                                                    *)
(***************************************************************************)
EXTENDS Wires, DataInduction, SequenceTheorems, TLAPS

(***************************************************************************)
(* Sequences put together and cut.                                         *)
(***************************************************************************)

\* The elements of two sequences joined.
LEMMA Joined ==
    ASSUME NEW S, NEW s \in Seq(S), NEW t \in Seq(S)
    PROVE  /\ s \o t \in Seq(S) /\ Len(s \o t) = Len(s) + Len(t)
           /\ \A i \in 1..Len(s) : (s \o t)[i] = s[i]
           /\ \A i \in 1..Len(t) : (s \o t)[Len(s) + i] = t[i]
<1>1. s \o t \in Seq(S) /\ Len(s \o t) = Len(s) + Len(t)
  BY ConcatProperties
<1>2. \A i \in 1..Len(s) : (s \o t)[i] = s[i]
  OBVIOUS
<1>3. \A i \in 1..Len(t) : (s \o t)[Len(s) + i] = t[i]
  OBVIOUS
<1> QED BY <1>1, <1>2, <1>3

\* A sequence cut in two: both parts, and that they make the whole.
LEMMA Cut ==
    ASSUME NEW S, NEW s \in Seq(S), NEW n \in 0..Len(s)
    PROVE  /\ SubSeq(s, 1, n) \in Seq(S) /\ Len(SubSeq(s, 1, n)) = n
           /\ SubSeq(s, n + 1, Len(s)) \in Seq(S) /\ Len(SubSeq(s, n + 1, Len(s))) = Len(s) - n
           /\ SubSeq(s, 1, n) \o SubSeq(s, n + 1, Len(s)) = s
           /\ \A i \in 1..n : SubSeq(s, 1, n)[i] = s[i]
           /\ \A i \in 1..(Len(s) - n) : SubSeq(s, n + 1, Len(s))[i] = s[n + i]
<1>1. SubSeq(s, 1, n) \in Seq(S) /\ Len(SubSeq(s, 1, n)) = n
  OBVIOUS
<1>2. SubSeq(s, n + 1, Len(s)) \in Seq(S) /\ Len(SubSeq(s, n + 1, Len(s))) = Len(s) - n
  OBVIOUS
<1>3. \A i \in 1..n : SubSeq(s, 1, n)[i] = s[i]
  OBVIOUS
<1>4. \A i \in 1..(Len(s) - n) : SubSeq(s, n + 1, Len(s))[i] = s[n + i]
  OBVIOUS
<1>5. SubSeq(s, 1, n) \o SubSeq(s, n + 1, Len(s)) = SubSeq(s, 1, Len(s))
  <2>1. 1 \in 1..(Len(s) + 1) /\ n \in (1 - 1)..Len(s) /\ Len(s) \in n..Len(s)
    OBVIOUS
  <2> QED BY <2>1, ConcatAdjacentSubSeq
<1> QED BY <1>1, <1>2, <1>3, <1>4, <1>5, SubSeqFull

\* Cutting a joined sequence at the seam gives its parts back.
LEMMA CutJoined ==
    ASSUME NEW S, NEW s \in Seq(S), NEW t \in Seq(S)
    PROVE  SubSeq(s \o t, 1, Len(s)) = s /\ SubSeq(s \o t, Len(s) + 1, Len(s \o t)) = t
<1>1. s \o t \in Seq(S) /\ Len(s \o t) = Len(s) + Len(t) /\ Len(s) \in Nat /\ Len(t) \in Nat
  BY Joined
<1>2. Len(s) \in 0..Len(s \o t)
  BY <1>1
<1>3. SubSeq(s \o t, 1, Len(s)) = s
  <2>1. /\ SubSeq(s \o t, 1, Len(s)) \in Seq(S) /\ Len(SubSeq(s \o t, 1, Len(s))) = Len(s)
        /\ \A i \in 1..Len(s) : SubSeq(s \o t, 1, Len(s))[i] = (s \o t)[i]
    BY <1>1, <1>2, Cut
  <2>2. \A i \in 1..Len(s) : (s \o t)[i] = s[i]
    BY Joined
  <2> DEFINE c == SubSeq(s \o t, 1, Len(s))
             j == s \o t
  <2>3. c \in Seq(S) /\ Len(c) = Len(s) /\ \A i \in 1..Len(c) : c[i] = s[i]
    <3> HIDE DEF c, j
    <3> QED BY <2>1, <2>2 DEF c, j
  <2> HIDE DEF c
  <2>4. c = s
    BY <2>3, SeqEqual
  <2> QED BY <2>4 DEF c
<1>4. SubSeq(s \o t, Len(s) + 1, Len(s \o t)) = t
  <2> DEFINE j == s \o t
             c == SubSeq(j, Len(s) + 1, Len(j))
  <2>1. j \in Seq(S) /\ Len(j) = Len(s) + Len(t) /\ \A i \in 1..Len(t) : j[Len(s) + i] = t[i]
    BY Joined
  <2> HIDE DEF j
  <2>2. /\ c \in Seq(S) /\ Len(c) = Len(j) - Len(s)
        /\ \A i \in 1..(Len(j) - Len(s)) : c[i] = j[Len(s) + i]
    BY <1>2, <2>1, Cut DEF j
  <2> HIDE DEF c
  <2>3. Len(c) = Len(t) /\ \A i \in 1..Len(c) : c[i] = t[i]
    BY <1>1, <2>1, <2>2
  <2>4. c = t
    BY <2>2, <2>3, SeqEqual
  <2> QED BY <2>4 DEF c, j
<1> QED BY <1>3, <1>4

\* A sequence is one over any set that has its elements.
LEMMA Retyped ==
    ASSUME NEW S, NEW T, NEW s \in Seq(S), \A i \in 1..Len(s) : s[i] \in T
    PROVE  s \in Seq(T)
OBVIOUS

(***************************************************************************)
(* Sequences flattened.                                                    *)
(***************************************************************************)

\* What the recursion of FlattenSeq computes, place by place.
LEMMA Flattened ==
    ASSUME NEW S, NEW s \in Seq(Seq(S)), s # <<>>
    PROVE  \E f \in [1..Len(s) -> Seq(S)] :
              /\ f[1] = s[1] /\ FlattenSeq(s) = f[Len(s)]
              /\ \A i \in 2..Len(s) : f[i] = f[i - 1] \o s[i]
<1> DEFINE N == Len(s)
           Q == Seq(S)
           g == [p \in Nat \X Q |-> IF p[1] + 1 \in 1..N THEN p[2] \o s[p[1] + 1] ELSE p[2]]
<1>1. N \in Nat /\ N >= 1 /\ s[1] \in Q /\ \A i \in 1..N : s[i] \in Q
  OBVIOUS
<1>2. \A x, y \in Q : x \o y \in Q
  BY ConcatProperties
<1>3. g \in Steps(Q)
  <2> HIDE DEF Q, N
  <2> QED BY <1>1, <1>2 DEF Steps
<1>4. ASSUME NEW i \in 1..(N - 1), NEW x \in Q PROVE g[<<i, x>>] = x \o s[i + 1]
  <2> HIDE DEF Q, N
  <2>1. i \in Nat /\ i + 1 \in 1..N
    BY <1>1
  <2> QED BY <2>1
<1>5. PICK r \in [0..(N - 1) -> Q] :
          r[0] = s[1] /\ \A i \in 1..(N - 1) : r[i] = g[<<i, r[i - 1]>>]
  <2> HIDE DEF Q, N, g
  <2>1. Run(Q, s[1], g, N - 1) # {}
    <3>1. N - 1 \in Nat
      BY <1>1
    <3> QED BY <1>1, <1>3, <3>1, PrimitiveRecursion, Zenon
  <2> QED BY <2>1 DEF Run
<1> DEFINE Body(h, i) == IF i = 1 THEN s[i] ELSE h[i - 1] \o s[i]
           Unrolled(h) == h = [i \in 1..Len(s) |-> Body(h, i)]
           flatten == CHOOSE h : Unrolled(h)
           f == [i \in 1..N |-> r[i - 1]]
<1>6. ASSUME NEW i \in 1..N PROVE f[i] = Body(f, i)
  <2> HIDE DEF Q, N, g
  <2>1. CASE i = 1
    BY <1>1, <1>5, <2>1
  <2>2. CASE i # 1
    <3>1. i - 1 \in 1..(N - 1) /\ (i - 1) + 1 = i /\ (i - 1) - 1 \in 0..(N - 1)
      BY <1>1, <2>2
    <3>2. r[i - 1] = g[<<i - 1, r[(i - 1) - 1]>>] /\ r[(i - 1) - 1] \in Q
      BY <1>5, <3>1
    <3>3. r[i - 1] = r[(i - 1) - 1] \o s[i]
      BY <1>4, <3>1, <3>2
    <3>4. f[i - 1] = r[(i - 1) - 1] /\ f[i] = r[i - 1]
      <4>1. i - 1 \in 1..N /\ i \in 1..N
        BY <1>1, <3>1
      <4> QED BY <4>1
    <3> QED BY <2>2, <3>3, <3>4
  <2> QED BY <2>1, <2>2
<1>7. Unrolled(f)
  <2> HIDE DEF Body
  <2> QED BY <1>6
<1>8. Unrolled(flatten)
  <2> HIDE DEF Unrolled, f
  <2> QED BY <1>7
<1>9. \A i \in 1..N : flatten[i] = Body(flatten, i)
  <2> HIDE DEF Body, flatten
  <2> QED BY <1>8
<1>10. FlattenSeq(s) = flatten[N]
  <2>1. Len(s) # 0
    BY <1>1
  <2> QED BY <2>1, Zenon DEF FlattenSeq
<1>11. \A i \in 1..N : f[i] \in Q
  <2> HIDE DEF Q
  <2> QED BY <1>1, <1>5
<1>12. \A n \in Nat : n + 1 \in 1..N => flatten[n + 1] = f[n + 1]
  <2> DEFINE T == {n \in Nat : n + 1 \in 1..N => flatten[n + 1] = f[n + 1]}
  <2> HIDE DEF flatten, f, N
  <2>1. 0 \in T
    <3>1. 0 + 1 = 1 /\ 1 \in 1..N
      BY <1>1
    <3> QED BY <1>6, <1>9, <3>1
  <2>2. ASSUME NEW n \in Nat, n \in T PROVE n + 1 \in T
    <3> SUFFICES ASSUME (n + 1) + 1 \in 1..N PROVE flatten[(n + 1) + 1] = f[(n + 1) + 1]
      OBVIOUS
    <3>1. n + 1 \in 1..N /\ (n + 1) + 1 # 1 /\ ((n + 1) + 1) - 1 = n + 1
      BY <1>1
    <3>2. flatten[n + 1] = f[n + 1]
      BY <2>2, <3>1
    <3> DEFINE i == (n + 1) + 1
    <3>3. i \in 1..N /\ i # 1 /\ i - 1 = n + 1
      BY <3>1
    <3> HIDE DEF i
    <3>4. flatten[i] = flatten[i - 1] \o s[i] /\ f[i] = f[i - 1] \o s[i]
      BY <1>6, <1>9, <3>3
    <3>5. flatten[i] = f[i]
      BY <3>2, <3>3, <3>4
    <3> QED BY <3>5 DEF i
  <2> HIDE DEF T
  <2>3. Nat \subseteq T
    BY <2>1, <2>2, SetInduction
  <2> QED BY <2>3 DEF T
<1>13. FlattenSeq(s) = f[N]
  <2>1. N - 1 \in Nat /\ (N - 1) + 1 = N /\ N \in 1..N
    BY <1>1
  <2> HIDE DEF flatten, f, N
  <2> QED BY <1>10, <1>12, <2>1
<1>14. f[1] = s[1] /\ \A i \in 2..N : f[i] = f[i - 1] \o s[i]
  <2>1. 1 \in 1..N
    BY <1>1
  <2>2. \A i \in 2..N : i \in 1..N /\ i # 1
    BY <1>1
  <2> HIDE DEF f, N
  <2> QED BY <1>6, <2>1, <2>2
<1>15. f \in [1..N -> Q]
  BY <1>11
<1> QED BY <1>13, <1>14, <1>15

\* A sequence that is appended comes last when all are flattened.
LEMMA FlattenLast ==
    ASSUME NEW S, NEW s \in Seq(Seq(S)), NEW t \in Seq(S)
    PROVE  FlattenSeq(s) \in Seq(S) /\ FlattenSeq(Append(s, t)) = FlattenSeq(s) \o t
<1> DEFINE a == Append(s, t)
           n == Len(s)
           Q == Seq(S)
<1>1. /\ a \in Seq(Q) /\ a # <<>> /\ Len(a) = n + 1 /\ n \in Nat /\ a[n + 1] = t
      /\ \A i \in 1..n : a[i] = s[i]
  BY AppendProperties
<1>2. PICK f \in [1..Len(a) -> Q] :
          /\ f[1] = a[1] /\ FlattenSeq(a) = f[Len(a)]
          /\ \A i \in 2..Len(a) : f[i] = f[i - 1] \o a[i]
  <2>1. a \in Seq(Seq(S)) /\ a # <<>>
    BY <1>1
  <2> HIDE DEF a
  <2>2. \E f \in [1..Len(a) -> Seq(S)] :
            /\ f[1] = a[1] /\ FlattenSeq(a) = f[Len(a)]
            /\ \A i \in 2..Len(a) : f[i] = f[i - 1] \o a[i]
    BY <2>1, Flattened
  <2> QED BY <2>2
<1>3. CASE s = <<>>
  <2>1. n = 0 /\ FlattenSeq(s) = s
    BY <1>3 DEF FlattenSeq
  <2>2. FlattenSeq(a) = t
    <3> HIDE DEF a
    <3> QED BY <1>1, <1>2, <2>1
  <2>3. <<>> \o t = t /\ <<>> \in Seq(S)
    BY ConcatEmptySeq, EmptySeq
  <2> QED BY <1>3, <2>1, <2>2, <2>3
<1>4. CASE s # <<>>
  <2>1. PICK h \in [1..n -> Q] :
            /\ h[1] = s[1] /\ FlattenSeq(s) = h[n] /\ \A i \in 2..n : h[i] = h[i - 1] \o s[i]
    BY <1>4, Flattened
  <2>2. n >= 1
    BY <1>4
  <2> HIDE DEF a, n, Q
  <2> DEFINE T == {i \in Nat : i + 1 \in 1..n => f[i + 1] = h[i + 1]}
  <2>3. 0 \in T
    <3>1. 0 + 1 = 1 /\ 1 \in 1..n
      BY <1>1, <2>2
    <3> QED BY <1>1, <1>2, <2>1, <3>1
  <2>4. ASSUME NEW i \in Nat, i \in T PROVE i + 1 \in T
    <3> SUFFICES ASSUME (i + 1) + 1 \in 1..n PROVE f[(i + 1) + 1] = h[(i + 1) + 1]
      OBVIOUS
    <3> DEFINE j == (i + 1) + 1
    <3>1. j \in 2..n /\ j \in 2..Len(a) /\ j \in 1..n /\ j - 1 = i + 1 /\ i + 1 \in 1..n
      BY <1>1
    <3> HIDE DEF j
    <3>2. f[i + 1] = h[i + 1]
      BY <2>4, <3>1
    <3>3. f[j] = f[j - 1] \o a[j] /\ h[j] = h[j - 1] \o s[j] /\ a[j] = s[j]
      BY <1>1, <1>2, <2>1, <3>1
    <3>4. f[j] = h[j]
      BY <3>1, <3>2, <3>3
    <3> QED BY <3>4 DEF j
  <2>5. Nat \subseteq T
    <3> HIDE DEF T
    <3> QED BY <2>3, <2>4, SetInduction
  <2>6. f[n] = h[n] /\ h[n] \in Q
    <3>1. n - 1 \in Nat /\ (n - 1) + 1 = n /\ n \in 1..n
      BY <1>1, <2>2
    <3>2. (n - 1) + 1 \in 1..n => f[(n - 1) + 1] = h[(n - 1) + 1]
      BY <2>5, <3>1
    <3> QED BY <2>1, <3>1, <3>2
  <2>7. f[n + 1] = f[n] \o t
    <3>1. n + 1 \in 2..Len(a) /\ (n + 1) - 1 = n
      BY <1>1, <2>2
    <3> QED BY <1>1, <1>2, <3>1
  <2> QED BY <1>1, <1>2, <2>1, <2>6, <2>7 DEF a, Q
<1> QED BY <1>3, <1>4

\* The first n sequences, flattened.
FlattenFirst(s, n) == FlattenSeq(SubSeq(s, 1, n))

\* One more of them.
LEMMA FlattenMore ==
    ASSUME NEW S, NEW s \in Seq(Seq(S))
    PROVE  /\ FlattenFirst(s, 0) = <<>> /\ FlattenFirst(s, Len(s)) = FlattenSeq(s)
           /\ \A n \in 0..Len(s) : FlattenFirst(s, n) \in Seq(S)
           /\ \A n \in 0..(Len(s) - 1) :
                 FlattenFirst(s, n + 1) = FlattenFirst(s, n) \o s[n + 1]
<1>1. FlattenFirst(s, 0) = <<>>
  <2>1. SubSeq(s, 1, 0) = <<>>
    OBVIOUS
  <2>2. FlattenSeq(<<>>) = <<>>
    <3>1. Len(<<>>) = 0
      OBVIOUS
    <3> QED BY <3>1, Zenon DEF FlattenSeq
  <2> QED BY <2>1, <2>2, Zenon DEF FlattenFirst
<1>2. FlattenFirst(s, Len(s)) = FlattenSeq(s)
  BY SubSeqFull, Zenon DEF FlattenFirst
<1>3. ASSUME NEW n \in 0..Len(s)
      PROVE  FlattenFirst(s, n) \in Seq(S)
  <2>1. SubSeq(s, 1, n) \in Seq(Seq(S)) /\ <<>> \in Seq(S)
    BY Cut, EmptySeq
  <2> QED BY <2>1, FlattenLast, Zenon DEF FlattenFirst
<1>4. ASSUME NEW n \in 0..(Len(s) - 1)
      PROVE  FlattenFirst(s, n + 1) = FlattenFirst(s, n) \o s[n + 1]
  <2> DEFINE a == SubSeq(s, 1, n)
             b == SubSeq(s, 1, n + 1)
             t == s[n + 1]
  <2>1. n \in 0..Len(s) /\ n + 1 \in 0..Len(s) /\ n + 1 \in 1..Len(s) /\ n \in Nat
    OBVIOUS
  <2>2. /\ a \in Seq(Seq(S)) /\ Len(a) = n /\ \A i \in 1..n : a[i] = s[i]
    BY <2>1, Cut
  <2>3. /\ b \in Seq(Seq(S)) /\ Len(b) = n + 1 /\ \A i \in 1..(n + 1) : b[i] = s[i]
    <3> DEFINE k == n + 1
    <3>1. k \in 0..Len(s)
      BY <2>1
    <3> HIDE DEF k
    <3>2. LET c == SubSeq(s, 1, k)
          IN c \in Seq(Seq(S)) /\ Len(c) = k /\ \A i \in 1..k : c[i] = s[i]
      BY <3>1, Cut
    <3> QED BY <3>2 DEF k
  <2>4. t \in Seq(S)
    BY <2>1, ElementOfSeq
  <2> HIDE DEF a, b, t
  <2>5. b = Append(a, t)
    <3>1. /\ Append(a, t) \in Seq(Seq(S)) /\ Len(Append(a, t)) = n + 1
          /\ \A i \in 1..n : Append(a, t)[i] = a[i]
          /\ Append(a, t)[n + 1] = t
      BY <2>2, <2>4, AppendProperties
    <3>2. ASSUME NEW i \in 1..(n + 1) PROVE b[i] = Append(a, t)[i]
      <4>1. CASE i = n + 1
        BY <2>3, <3>1, <4>1 DEF t
      <4>2. CASE i # n + 1
        <5>1. i \in 1..n
          BY <2>1, <4>2
        <5> QED BY <2>2, <2>3, <3>1, <5>1
      <4> QED BY <4>1, <4>2
    <3> DEFINE c == Append(a, t)
    <3>3. c \in Seq(Seq(S)) /\ Len(c) = Len(b) /\ \A i \in 1..Len(b) : b[i] = c[i]
      BY <2>3, <3>1, <3>2
    <3> HIDE DEF c
    <3>4. b = c
      BY <2>3, <3>3, SeqEqual
    <3> QED BY <3>4 DEF c
  <2>6. FlattenSeq(Append(a, t)) = FlattenSeq(a) \o t
    BY <2>2, <2>4, FlattenLast
  <2>7. FlattenFirst(s, n + 1) = FlattenSeq(b) /\ FlattenFirst(s, n) = FlattenSeq(a)
    BY Zenon DEF FlattenFirst, a, b
  <2> QED BY <2>5, <2>6, <2>7, Zenon DEF t
<1> QED BY <1>1, <1>2, <1>3, <1>4

\* They stay where they are when more follow.
LEMMA FlattenKept ==
    ASSUME NEW S, NEW s \in Seq(Seq(S)), NEW n \in 0..Len(s), NEW m \in n..Len(s)
    PROVE  /\ Len(FlattenFirst(s, n)) <= Len(FlattenFirst(s, m))
           /\ \A j \in 1..Len(FlattenFirst(s, n)) :
                 FlattenFirst(s, m)[j] = FlattenFirst(s, n)[j]
<1> DEFINE N == Len(s)
           F == [i \in 0..N |-> FlattenFirst(s, i)]
           Kept(i) == /\ Len(F[n]) <= Len(F[i])
                      /\ \A j \in 1..Len(F[n]) : F[i][j] = F[n][j]
           T == {k \in Nat : n + k <= N => Kept(n + k)}
<1>1. N \in Nat /\ n \in 0..N /\ m \in n..N /\ n \in Nat
  OBVIOUS
<1>2. \A i \in 0..N : F[i] \in Seq(S)
  BY FlattenMore
<1>3. ASSUME NEW i \in 0..(N - 1)
      PROVE  /\ F[i + 1] \in Seq(S) /\ F[i] \in Seq(S) /\ Len(F[i]) <= Len(F[i + 1])
             /\ \A j \in 1..Len(F[i]) : F[i + 1][j] = F[i][j]
  <2>1. i \in 0..N /\ i + 1 \in 0..N /\ i + 1 \in 1..Len(s)
    BY <1>1
  <2> DEFINE a == F[i]
             b == F[i + 1]
             t == s[i + 1]
  <2>2. a \in Seq(S) /\ b \in Seq(S) /\ t \in Seq(S)
    <3>1. t \in Seq(S)
      BY <2>1, ElementOfSeq
    <3> HIDE DEF F, t
    <3> QED BY <1>2, <2>1, <3>1
  <2>3. b = a \o t
    BY <2>1, FlattenMore
  <2> HIDE DEF a, b, t
  <2>4. Len(a \o t) = Len(a) + Len(t) /\ \A j \in 1..Len(a) : (a \o t)[j] = a[j]
    BY <2>2, Joined
  <2>5. Len(a) <= Len(b) /\ \A j \in 1..Len(a) : b[j] = a[j]
    BY <2>2, <2>3, <2>4
  <2> QED BY <2>2, <2>5 DEF a, b
<1> HIDE DEF F, N
<1>4. 0 \in T
  <2>1. n + 0 = n /\ F[n] \in Seq(S)
    BY <1>1, <1>2
  <2> QED BY <2>1
<1>5. ASSUME NEW k \in Nat, k \in T PROVE k + 1 \in T
  <2> SUFFICES ASSUME n + (k + 1) <= N PROVE Kept(n + (k + 1))
    OBVIOUS
  <2> DEFINE i == n + k
  <2>1. i \in 0..(N - 1) /\ n + (k + 1) = i + 1
    BY <1>1
  <2>2. Kept(i)
    BY <1>1, <1>5, <2>1
  <2>3. F[n] \in Seq(S)
    BY <1>1, <1>2
  <2> HIDE DEF i
  <2>4. Kept(i + 1)
    <3>1. /\ F[i + 1] \in Seq(S) /\ F[i] \in Seq(S) /\ Len(F[i]) <= Len(F[i + 1])
          /\ \A j \in 1..Len(F[i]) : F[i + 1][j] = F[i][j]
      BY <1>3, <2>1
    <3>2. Len(F[n]) <= Len(F[i + 1])
      BY <2>2, <2>3, <3>1, SMTT(20)
    <3>3. \A j \in 1..Len(F[n]) : j \in 1..Len(F[i])
      BY <2>2, <2>3, <3>1
    <3> QED BY <2>2, <3>1, <3>2, <3>3
  <2> QED BY <2>1, <2>4
<1>6. Nat \subseteq T
  <2> HIDE DEF T
  <2> QED BY <1>4, <1>5, SetInduction
<1>7. Kept(m)
  <2> DEFINE k == m - n
  <2>1. k \in Nat /\ n + k = m /\ m <= N
    BY <1>1
  <2> HIDE DEF k
  <2>2. n + k <= N => Kept(n + k)
    BY <1>6, <2>1
  <2> HIDE DEF Kept
  <2> QED BY <2>1, <2>2
<1>8. F[n] = FlattenFirst(s, n) /\ F[m] = FlattenFirst(s, m)
  <2>1. n \in 0..N /\ m \in 0..N
    BY <1>1
  <2> QED BY <2>1 DEF F
<1> QED BY <1>7, <1>8

\* Where the elements of one of them are among all.
LEMMA FlattenPlaces ==
    ASSUME NEW S, NEW s \in Seq(Seq(S)), NEW n \in 0..(Len(s) - 1)
    PROVE  /\ Len(FlattenFirst(s, n)) + Len(s[n + 1]) = Len(FlattenFirst(s, n + 1))
           /\ Len(FlattenFirst(s, n + 1)) <= Len(FlattenSeq(s))
           /\ \A j \in 1..Len(s[n + 1]) :
                 FlattenSeq(s)[Len(FlattenFirst(s, n)) + j] = s[n + 1][j]
<1> DEFINE a == FlattenFirst(s, n)
           b == FlattenFirst(s, n + 1)
           t == s[n + 1]
           f == FlattenSeq(s)
<1>1. n \in 0..Len(s) /\ n + 1 \in 0..Len(s) /\ n + 1 \in 1..Len(s) /\ Len(s) \in (n + 1)..Len(s)
  OBVIOUS
<1>2. /\ a \in Seq(S) /\ b \in Seq(S) /\ t \in Seq(S) /\ b = a \o t
      /\ FlattenFirst(s, Len(s)) = f
  BY <1>1, FlattenMore, ElementOfSeq
<1>3. Len(b) <= Len(f) /\ \A j \in 1..Len(b) : f[j] = b[j]
  <2> DEFINE k == n + 1
  <2>1. k \in 0..Len(s) /\ Len(s) \in k..Len(s)
    BY <1>1
  <2> HIDE DEF k
  <2>2. /\ Len(FlattenFirst(s, k)) <= Len(FlattenFirst(s, Len(s)))
        /\ \A j \in 1..Len(FlattenFirst(s, k)) :
              FlattenFirst(s, Len(s))[j] = FlattenFirst(s, k)[j]
    BY <2>1, FlattenKept
  <2>3. b = FlattenFirst(s, k)
    BY DEF k
  <2> HIDE DEF b, f
  <2> QED BY <1>2, <2>2, <2>3
<1> HIDE DEF a, b, t, f
<1>4. Len(b) = Len(a) + Len(t) /\ \A j \in 1..Len(t) : b[Len(a) + j] = t[j]
  BY <1>2, Joined
<1>5. ASSUME NEW j \in 1..Len(t) PROVE f[Len(a) + j] = t[j]
  <2> DEFINE i == Len(a) + j
  <2>1. i \in 1..Len(b)
    BY <1>2, <1>4
  <2>2. b[i] = t[j]
    BY <1>4
  <2> HIDE DEF i
  <2>3. f[i] = t[j]
    BY <1>3, <2>1, <2>2
  <2> QED BY <2>3 DEF i
<1> QED BY <1>3, <1>4, <1>5 DEF a, b, t, f

(***************************************************************************)
(* Bytes and frames.                                                       *)
(***************************************************************************)

\* What an interval from 0 holds: the solver would list the one of a constant.
LEMMA UpTo ==
    \A m \in Int : \A n : n \in 0..m <=> n \in Int /\ 0 <= n /\ n <= m
OBVIOUS

\* The numbers that are bytes, and those that are words.
LEMMA ByteRange ==
    \A n : n \in Byte <=> n \in Int /\ 0 <= n /\ n <= 255
BY SMT DEF Byte

LEMMA WordRange ==
    \A n : n \in 0..MaxWord <=> n \in Int /\ 0 <= n /\ n <= 65535
<1>1. MaxWord \in Int
  BY DEF MaxWord
<1>2. \A n : n \in 0..MaxWord <=> n \in Int /\ 0 <= n /\ n <= MaxWord
  BY <1>1, UpTo, Zenon
<1>3. MaxWord = 65535
  BY SMT DEF MaxWord
<1>4. \A n \in Int : n <= MaxWord <=> n <= 65535
  BY <1>3, SMT
<1> QED BY <1>2, <1>4, SMT

\* A CRC fits into two bytes, whatever its register holds.
LEMMA CrcFits ==
    ASSUME NEW bits
    PROVE  NumberOf(bits) \in 0..MaxWord
<1>1. ASSUME NEW k PROVE Nibble(bits, k) \in Int /\ 0 <= Nibble(bits, k) /\ Nibble(bits, k) <= 15
  BY DEF Nibble
<1> DEFINE a == Nibble(bits, 0)
           b == Nibble(bits, 4)
           c == Nibble(bits, 8)
           d == Nibble(bits, 12)
           e == a + 16 * (b + 16 * (c + 16 * d))
<1>2. /\ a \in Int /\ 0 <= a /\ a <= 15 /\ b \in Int /\ 0 <= b /\ b <= 15
      /\ c \in Int /\ 0 <= c /\ c <= 15 /\ d \in Int /\ 0 <= d /\ d <= 15
  BY <1>1
<1>3. NumberOf(bits) = e
  BY DEF NumberOf
<1>4. e \in Int /\ 0 <= e /\ e <= 65535
  <2> HIDE DEF a, b, c, d
  <2> QED BY <1>2, SMT
<1> HIDE DEF e
<1> QED BY <1>3, <1>4, WordRange

\* A word is the one of its two bytes.
LEMMA TwoBytes ==
    ASSUME NEW n \in 0..MaxWord
    PROVE  Hi(n) \in Byte /\ Lo(n) \in Byte /\ Word(Hi(n), Lo(n)) = n
<1>1. n \in Int /\ 0 <= n /\ n <= 65535
  BY WordRange
<1>2. Hi(n) \in Byte
  BY <1>1, ByteRange DEF Hi
<1>3. Lo(n) \in Byte
  BY <1>1, ByteRange DEF Lo
<1>4. Word(Hi(n), Lo(n)) = n
  BY <1>1, SMT DEF Hi, Lo, Word
<1> QED BY <1>2, <1>3, <1>4

\* Two sequences of bytes joined.
LEMMA BytesJoined ==
    \A s, t \in Seq(Byte) :
        /\ s \o t \in Seq(Byte) /\ Len(s \o t) = Len(s) + Len(t)
        /\ \A i \in 1..Len(s) : (s \o t)[i] = s[i]
        /\ \A i \in 1..Len(t) : (s \o t)[Len(s) + i] = t[i]
BY Joined

\* Joining is associative, for the sequences of this module.
LEMMA Regrouped ==
    \A s, t, u \in Seq(Byte) : (s \o t) \o u = s \o (t \o u)
BY ConcatAssociative

\* A part of a sequence.
LEMMA Part ==
    ASSUME NEW s \in Seq(Byte), NEW m \in Nat, NEW l \in Nat, m + l <= Len(s)
    PROVE  LET c == SubSeq(s, m + 1, m + l)
           IN c \in Seq(Byte) /\ Len(c) = l /\ \A j \in 1..l : c[j] = s[m + j]
<1> DEFINE c == SubSeq(s, m + 1, m + l)
<1>1. c \in Seq(Byte)
  OBVIOUS
<1>2. Len(c) = l
  OBVIOUS
<1>3. \A j \in 1..l : c[j] = s[m + j]
  BY SMTT(20)
<1> QED BY <1>1, <1>2, <1>3

\* A frame is cut by its length alone.
Frame == {f \in Seq(Byte) : Len(f) = 8}

\* Six bytes and their CRC are a frame, and one that is checked successfully.
LEMMA CheckedFrame ==
    ASSUME NEW p \in Seq(Byte), Len(p) = 6
    PROVE  /\ WithCrc(p) \in Frame /\ validate_frame_crc(WithCrc(p))
           /\ \A i \in 1..6 : WithCrc(p)[i] = p[i]
<1> DEFINE c == calc_crc(p)
           q == <<Hi(c), Lo(c)>>
           f == p \o q
<1>1. c \in 0..MaxWord
  BY CrcFits, Zenon DEF calc_crc
<1>2. WithCrc(p) = f
  BY DEF WithCrc
<1> HIDE DEF c
<1>3. q \in Seq(Byte) /\ Len(q) = 2 /\ q[1] = Hi(c) /\ q[2] = Lo(c)
  BY <1>1, TwoBytes
<1> HIDE DEF q
<1>4. /\ f \in Seq(Byte) /\ Len(f) = Len(p) + Len(q)
      /\ \A i \in 1..Len(p) : f[i] = p[i]
      /\ \A i \in 1..Len(q) : f[Len(p) + i] = q[i]
  BY <1>3, BytesJoined
<1>5. SubSeq(f, 1, Len(p)) = p
  BY <1>3, CutJoined
<1> HIDE DEF f
<1>6. Len(f) = 8 /\ f[7] = Hi(c) /\ f[8] = Lo(c) /\ \A i \in 1..6 : f[i] = p[i]
  <2>1. 6 + 1 = 7 /\ 6 + 2 = 8 /\ 1 \in 1..2 /\ 2 \in 1..2
    OBVIOUS
  <2> QED BY <1>3, <1>4, <2>1
<1>7. Word(f[7], f[8]) = calc_crc(SubSeq(f, 1, 6))
  BY <1>1, <1>5, <1>6, TwoBytes DEF c
<1> QED BY <1>2, <1>4, <1>6, <1>7 DEF Frame, validate_frame_crc, FRAME_SIZE

\* What a post sends is a frame.
LEMMA RequestFrames ==
    ASSUME NEW r \in Requests
    PROVE  RequestBytes[r] \in Frame
<1> DEFINE p == <<r.request_type, r.post_number, 16, Hi(r.weight_combined),
                  Lo(r.weight_combined), r.fill_flag>>
<1>1. p \in Seq(Byte) /\ Len(p) = 6
  <2>1. /\ r.request_type \in Byte /\ r.post_number \in Byte /\ r.fill_flag \in Byte
        /\ Hi(r.weight_combined) \in Byte /\ Lo(r.weight_combined) \in Byte /\ 16 \in Byte
    BY TransportAssumption, TwoBytes, ByteRange
  <2> QED BY <2>1
<1>2. RequestBytes[r] = WithCrc(p)
  BY DEF RequestBytes
<1> HIDE DEF p
<1> QED BY <1>1, <1>2, CheckedFrame

\* What the line makes of a frame are still bytes, and seven of them at least.
LEMMA DamagedFrames ==
    ASSUME NEW r \in Requests
    PROVE  \A damaged \in DamagedBytes(RequestBytes[r]) :
              damaged \in Seq(Byte) /\ Len(damaged) >= 7
<1> DEFINE b == RequestBytes[r]
<1>1. b \in Seq(Byte) /\ Len(b) = 8
  BY RequestFrames DEF Frame
<1>2. 0 \in Byte /\ (b[4] + 1) % 256 \in Byte
  <2>1. b[4] \in Byte
    BY <1>1
  <2> HIDE DEF b
  <2> QED BY <2>1, ByteRange
<1> HIDE DEF b
<1>3. RemoveAt(b, 5) \in Seq(Byte) /\ Len(RemoveAt(b, 5)) >= 7
  <2> DEFINE s == SubSeq(b, 1, 5 - 1)
             t == SubSeq(b, 5 + 1, Len(b))
  <2>0. 5 - 1 \in 0..Len(b) /\ 5 \in 0..Len(b)
    BY <1>1
  <2>1. s \in Seq(Byte) /\ Len(s) = 5 - 1
    BY <1>1, <2>0, Cut, Zenon
  <2>2. t \in Seq(Byte) /\ Len(t) = Len(b) - 5
    BY <1>1, <2>0, Cut, Zenon
  <2> HIDE DEF s, t
  <2>3. s \o t \in Seq(Byte) /\ Len(s \o t) = Len(s) + Len(t)
    BY <2>1, <2>2, BytesJoined, Zenon
  <2>4. Len(s \o t) >= 7
    BY <1>1, <2>1, <2>2, <2>3
  <2>5. RemoveAt(b, 5) = s \o t
    BY Zenon DEF RemoveAt, s, t
  <2> QED BY <2>3, <2>4, <2>5
<1>4. InsertAt(b, 1, 0) \in Seq(Byte) /\ Len(InsertAt(b, 1, 0)) >= 7
  <2> DEFINE s == SubSeq(b, 1, 1 - 1)
             t == SubSeq(b, 1, Len(b))
  <2>0. 1 - 1 = 0 /\ 0 \in 0..Len(b)
    BY <1>1
  <2>1. s \in Seq(Byte) /\ Len(s) \in Nat
    <3>1. s \in Seq(Byte)
      BY <1>1, <2>0, Cut, Zenon
    <3> HIDE DEF s
    <3> QED BY <3>1
  <2>2. t \in Seq(Byte) /\ Len(t) = 8
    BY <1>1, SubSeqFull, Zenon
  <2> HIDE DEF s, t
  <2>3. <<0>> \in Seq(Byte) /\ Len(<<0>>) = 1
    BY <1>2
  <2>4. s \o <<0>> \in Seq(Byte) /\ Len(s \o <<0>>) = Len(s) + Len(<<0>>)
    BY <2>1, <2>3, BytesJoined, Zenon
  <2>5. /\ (s \o <<0>>) \o t \in Seq(Byte)
        /\ Len((s \o <<0>>) \o t) = Len(s \o <<0>>) + Len(t)
    BY <2>2, <2>4, BytesJoined, Zenon
  <2>6. Len((s \o <<0>>) \o t) >= 7
    BY <2>1, <2>2, <2>3, <2>4, <2>5
  <2>7. InsertAt(b, 1, 0) = (s \o <<0>>) \o t
    BY Zenon DEF InsertAt, s, t
  <2> QED BY <2>5, <2>6, <2>7
<1>5. /\ ReplaceAt(b, 4, (b[4] + 1) % 256) \in Seq(Byte)
      /\ Len(ReplaceAt(b, 4, (b[4] + 1) % 256)) >= 7
  <2> DEFINE e == (b[4] + 1) % 256
  <2>1. e \in Byte
    BY <1>2
  <2> HIDE DEF e
  <2>2. [b EXCEPT ![4] = e] \in Seq(Byte) /\ Len([b EXCEPT ![4] = e]) = Len(b)
    <3>1. 4 \in 1..Len(b) /\ b \in Seq(Byte)
      BY <1>1
    <3>2. [b EXCEPT ![4] = e] \in Seq(Byte)
      BY <2>1, <3>1, ExceptSeq, Zenon
    <3>3. Len([b EXCEPT ![4] = e]) = Len(b)
      BY <2>1, <3>1
    <3> QED BY <3>2, <3>3
  <2>3. ReplaceAt(b, 4, e) = [b EXCEPT ![4] = e]
    BY Zenon DEF ReplaceAt
  <2>4. Len(b) >= 7
    BY <1>1
  <2> QED BY <2>2, <2>3, <2>4 DEF e
<1> QED BY <1>3, <1>4, <1>5 DEF DamagedBytes, b

\* The bytes of rest are the frames of es from the one after the k-th on.
Pending(rest, es, k) ==
    /\ Len(rest) = 8 * (Len(es) - k)
    /\ \A i \in 1..Len(rest) : rest[i] = es[k + 1 + ((i - 1) \div 8)][1 + ((i - 1) % 8)]

\* Where the bytes of the next frame stand.
LEMMA Divided ==
    ASSUME NEW m \in Nat, NEW i \in 1..8
    PROVE  ((8 * m + i) - 1) \div 8 = m /\ ((8 * m + i) - 1) % 8 = i - 1
OBVIOUS

\* A frame that is sent is pending behind the others.
LEMMA PendingAppend ==
    ASSUME NEW rest \in Seq(Byte), NEW es \in Seq(Frame), NEW k \in 0..Len(es),
           NEW f \in Frame, Pending(rest, es, k)
    PROVE  Pending(rest \o f, Append(es, f), k)
<1> DEFINE all == rest \o f
           m == Len(es) - k
           Good(x) == all[x] = Append(es, f)[k + 1 + ((x - 1) \div 8)][1 + ((x - 1) % 8)]
<1>1. m \in Nat /\ Len(rest) = 8 * m /\ f \in Seq(Byte) /\ Len(f) = 8 /\ Len(es) = k + m
  BY DEF Pending, Frame
<1> HIDE DEF m
<1>5. /\ Len(all) = 8 * m + 8
      /\ \A i \in 1..(8 * m) : all[i] = rest[i]
      /\ \A i \in 1..8 : all[8 * m + i] = f[i]
  <2>0. rest \in Seq(Byte) /\ f \in Seq(Byte)
    BY <1>1
  <2>1. Len(all) = Len(rest) + Len(f)
    BY <2>0, Joined
  <2>2. \A i \in 1..Len(rest) : all[i] = rest[i]
    BY <2>0, Joined
  <2>3. \A i \in 1..Len(f) : all[Len(rest) + i] = f[i]
    BY <2>0, Joined
  <2> HIDE DEF all
  <2> QED BY <1>1, <2>1, <2>2, <2>3
<1> HIDE DEF all
<1>6. /\ Append(es, f) \in Seq(Frame) /\ Len(Append(es, f)) = k + m + 1
      /\ \A j \in 1..(k + m) : Append(es, f)[j] = es[j]
      /\ Append(es, f)[k + m + 1] = f
  BY <1>1, AppendProperties
<1>2. ASSUME NEW i \in 1..(8 * m)
      PROVE  Good(i)
  <2>1. (i - 1) \div 8 < m /\ (i - 1) \div 8 \in Nat
    BY <1>1
  <2>2. k + 1 + ((i - 1) \div 8) \in 1..(k + m)
    BY <1>1, <2>1
  <2>3. Append(es, f)[k + 1 + ((i - 1) \div 8)] = es[k + 1 + ((i - 1) \div 8)]
    BY <1>6, <2>2
  <2>4. all[i] = rest[i]
    BY <1>5
  <2> QED BY <1>1, <2>3, <2>4 DEF Pending
<1>3. ASSUME NEW i \in 1..8
      PROVE  Good(8 * m + i)
  <2>1. ((8 * m + i) - 1) \div 8 = m /\ ((8 * m + i) - 1) % 8 = i - 1
    BY <1>1, <1>3, Divided
  <2>2. Append(es, f)[k + 1 + m] = f
    BY <1>1, <1>6
  <2>3. all[8 * m + i] = f[i]
    BY <1>5
  <2>4. 1 + (i - 1) = i
    OBVIOUS
  <2> DEFINE d == ((8 * m + i) - 1) \div 8
             e == ((8 * m + i) - 1) % 8
             g == Append(es, f)
  <2>5. d = m /\ e = i - 1 /\ g[k + 1 + m] = f
    BY <2>1, <2>2
  <2>6. Good(8 * m + i) <=> all[8 * m + i] = g[k + 1 + d][1 + e]
    OBVIOUS
  <2> HIDE DEF d, e, g, Good
  <2>7. g[k + 1 + d][1 + e] = f[i]
    BY <2>4, <2>5
  <2> QED BY <2>3, <2>6, <2>7
<1>4. ASSUME NEW i \in 1..(8 * m + 8)
      PROVE  Good(i)
  <2> HIDE DEF Good
  <2>1. CASE i \in 1..(8 * m)
    BY <1>2, <2>1
  <2>2. CASE i > 8 * m
    <3>1. PICK j \in 1..8 : i = 8 * m + j
      <4>1. i - 8 * m \in 1..8 /\ i = 8 * m + (i - 8 * m)
        BY <1>1, <1>4, <2>2
      <4> QED BY <4>1
    <3> QED BY <1>3, <3>1
  <2> QED BY <1>1, <1>4, <2>1, <2>2
<1>7. Len(all) = 8 * (Len(Append(es, f)) - k)
  <2>1. (k + m + 1) - k = m + 1 /\ 8 * (m + 1) = 8 * m + 8
    BY <1>1
  <2> QED BY <1>5, <1>6, <2>1, Zenon
<1>8. Pending(all, Append(es, f), k)
  BY <1>4, <1>5, <1>7 DEF Pending
<1> QED BY <1>8 DEF all

\* The first eight pending bytes are the next frame; the others stay pending.
LEMMA PendingHead ==
    ASSUME NEW rest \in Seq(Byte), NEW es \in Seq(Frame), NEW k \in 0..Len(es),
           Pending(rest, es, k), Len(rest) >= 8
    PROVE  /\ k < Len(es) /\ SubSeq(rest, 1, 8) = es[k + 1]
           /\ Pending(SubSeq(rest, 9, Len(rest)), es, k + 1)
<1>1. k < Len(es)
  BY DEF Pending
<1>2. es[k + 1] \in Seq(Byte) /\ Len(es[k + 1]) = 8
  BY <1>1 DEF Frame
<1>3. \A i \in 1..8 : rest[i] = es[k + 1][i]
  <2> TAKE i \in 1..8
  <2>1. (i - 1) \div 8 = 0 /\ (i - 1) % 8 = i - 1
    OBVIOUS
  <2>2. k + 1 + 0 = k + 1 /\ 1 + (i - 1) = i
    OBVIOUS
  <2> QED BY <2>1, <2>2 DEF Pending
<1>8. 8 \in 0..Len(rest)
  OBVIOUS
<1>4. SubSeq(rest, 1, 8) = es[k + 1]
  <2> DEFINE c == SubSeq(rest, 1, 8)
             d == es[k + 1]
  <2>1. c \in Seq(Byte) /\ Len(c) = 8 /\ \A i \in 1..8 : c[i] = rest[i]
    BY <1>8, Cut
  <2> HIDE DEF c
  <2>2. \A i \in 1..Len(c) : c[i] = d[i]
    BY <1>3, <2>1
  <2> HIDE DEF d
  <2>3. c = d
    BY <1>2, <2>1, <2>2, SeqEqual, Zenon DEF d
  <2> QED BY <2>3 DEF c, d
<1> DEFINE tail == SubSeq(rest, 9, Len(rest))
<1>5. /\ tail \in Seq(Byte) /\ Len(tail) = Len(rest) - 8
      /\ \A i \in 1..(Len(rest) - 8) : tail[i] = rest[8 + i]
  <2>1. /\ SubSeq(rest, 8 + 1, Len(rest)) \in Seq(Byte)
        /\ Len(SubSeq(rest, 8 + 1, Len(rest))) = Len(rest) - 8
        /\ \A i \in 1..(Len(rest) - 8) : SubSeq(rest, 8 + 1, Len(rest))[i] = rest[8 + i]
    BY <1>8, Cut, Zenon
  <2>2. 8 + 1 = 9
    OBVIOUS
  <2> QED BY <2>1, <2>2, Zenon
<1>6. ASSUME NEW i \in 1..(Len(rest) - 8)
      PROVE  tail[i] = es[(k + 1) + 1 + ((i - 1) \div 8)][1 + ((i - 1) % 8)]
  <2>1. tail[i] = rest[8 + i]
    BY <1>5
  <2>2. ((8 + i) - 1) \div 8 = 1 + ((i - 1) \div 8) /\ ((8 + i) - 1) % 8 = (i - 1) % 8
    OBVIOUS
  <2>3. rest[8 + i] = es[k + 1 + (((8 + i) - 1) \div 8)][1 + (((8 + i) - 1) % 8)]
    BY DEF Pending
  <2>4. k + 1 + (1 + ((i - 1) \div 8)) = (k + 1) + 1 + ((i - 1) \div 8)
    OBVIOUS
  <2> HIDE DEF tail
  <2> QED BY <2>1, <2>2, <2>3, <2>4
<1> HIDE DEF tail
<1>7. Pending(tail, es, k + 1)
  BY <1>1, <1>5, <1>6 DEF Pending
<1> QED BY <1>1, <1>4, <1>7 DEF tail

(***************************************************************************)
(* What the listener reads.                                                *)
(***************************************************************************)

\* The bytes that were sent and not yet cut into frames, oldest first.
Rest == buffer \o stream \o line

\* An unfinished frame lacks at least a byte.
BytesOK ==
    /\ line \in Seq(Byte) /\ stream \in Seq(Byte) /\ frame \in Seq(Byte)
    /\ buffer \in Seq(Byte) /\ Len(buffer) < 8

\* While nothing disturbs the connection: what was read is the beginning of what was sent,
\* and what was not read yet is under way.
FramesKept ==
    /\ link = "up" /\ ~eof
    /\ expected \in Seq(Frame) /\ received \in Seq(Frame)
    /\ Len(received) <= Len(expected)
    /\ \A j \in 1..Len(received) : received[j] = expected[j]
    /\ Pending(Rest, expected, Len(received))

\* The inductive invariant of FramesIntact.
StreamInv == BytesOK /\ clear \in BOOLEAN /\ (clear => FramesKept)

\* At the start nothing is under way.
LEMMA StreamInit == Init => StreamInv
<1>1. <<>> \in Seq(Byte) /\ Len(<<>>) < 8
  BY EmptySeq
<1> QED BY <1>1 DEF Init, StreamInv, BytesOK

\* A post sends a frame: over an idle connection it is the first that counts.
LEMMA StreamSend ==
    ASSUME StreamInv, NEW r \in Requests, Send(r)
    PROVE  StreamInv'
<1> USE DEF lineVars, transportVars
<1>0. RequestBytes[r] \in Frame /\ RequestBytes[r] \in Seq(Byte)
  BY RequestFrames DEF Frame
<1>1. line' = line \o RequestBytes[r] /\ UNCHANGED <<stream, eof, link, buffer, frame>>
  BY DEF Send
<1>2. BytesOK' /\ clear' \in BOOLEAN
  <2>1. line' \in Seq(Byte)
    BY <1>0, <1>1, ConcatProperties DEF StreamInv, BytesOK
  <2>2. clear' \in BOOLEAN
    BY DEF StreamInv, Send
  <2> QED BY <1>1, <2>1, <2>2 DEF StreamInv, BytesOK
<1>3. Rest' = Rest \o RequestBytes[r] /\ Rest \in Seq(Byte)
  <2>1. buffer \in Seq(Byte) /\ stream \in Seq(Byte) /\ line \in Seq(Byte)
    BY DEF StreamInv, BytesOK
  <2>2. buffer \o stream \in Seq(Byte)
    BY <2>1, ConcatProperties
  <2>3. (buffer \o stream) \o (line \o RequestBytes[r]) =
            ((buffer \o stream) \o line) \o RequestBytes[r]
    BY <1>0, <2>1, <2>2, Regrouped, Zenon
  <2>4. (buffer \o stream) \o line \in Seq(Byte)
    BY <2>1, <2>2, ConcatProperties
  <2> QED BY <1>1, <2>3, <2>4 DEF Rest
<1>4. CASE Quiet /\ link = "up" /\ ~eof
  <2>1. Rest = <<>>
    BY <1>4 DEF Quiet, Rest
  <2>2. expected' = <<RequestBytes[r]>> /\ received' = <<>>
    BY <1>4 DEF Send
  <2>3. Pending(<<>>, <<>>, 0)
    BY DEF Pending
  <2>4. Pending(Rest \o RequestBytes[r], Append(<<>>, RequestBytes[r]), 0)
    <3>1. <<>> \in Seq(Byte) /\ <<>> \in Seq(Frame) /\ 0 \in 0..Len(<<>>)
      BY EmptySeq
    <3> QED BY <1>0, <2>1, <2>3, <3>1, PendingAppend
  <2>5. Append(<<>>, RequestBytes[r]) = <<RequestBytes[r]>>
    OBVIOUS
  <2>6. Pending(Rest', expected', Len(received'))
    BY <1>3, <2>2, <2>4, <2>5
  <2> QED BY <1>0, <1>1, <1>2, <1>4, <2>2, <2>6 DEF StreamInv, FramesKept
<1>5. CASE ~(Quiet /\ link = "up" /\ ~eof) /\ clear'
  <2>1. clear /\ expected' = Append(expected, RequestBytes[r]) /\ received' = received
    BY <1>5 DEF Send
  <2>2. FramesKept
    BY <2>1 DEF StreamInv
  <2>5. /\ expected \in Seq(Frame) /\ Len(received) \in 0..Len(expected)
        /\ Pending(Rest, expected, Len(received))
    BY <2>2 DEF FramesKept
  <2>3. Pending(Rest', expected', Len(received'))
    BY <1>0, <1>3, <2>1, <2>5, PendingAppend
  <2>4. /\ expected' \in Seq(Frame) /\ received' \in Seq(Frame) /\ Len(received') <= Len(expected')
        /\ \A j \in 1..Len(received') : received'[j] = expected'[j]
    BY <1>0, <2>1, <2>2 DEF FramesKept
  <2> QED BY <1>1, <1>2, <2>2, <2>3, <2>4 DEF StreamInv, FramesKept
<1> QED BY <1>2, <1>4, <1>5 DEF StreamInv

\* Bytes that arrive change their place, not their order.
LEMMA StreamArrive ==
    ASSUME StreamInv, NEW n \in Nat, Arrive(n)
    PROVE  StreamInv'
<1> USE DEF lineVars, transportVars, clearVars
<1> DEFINE size == Min({n, Len(line)})
<1>1. size \in 0..Len(line)
  <2>1. size = IF n <= Len(line) THEN n ELSE Len(line)
    BY DEF Min, StreamInv, BytesOK
  <2> QED BY <2>1 DEF StreamInv, BytesOK
<1>2. /\ line' = SubSeq(line, size + 1, Len(line))
      /\ stream' = IF link = "up" /\ ~eof THEN stream \o SubSeq(line, 1, size) ELSE stream
      /\ UNCHANGED <<eof, link, buffer, frame, clear, expected, received>>
  BY DEF Arrive
<1> HIDE DEF size
<1>3. /\ SubSeq(line, 1, size) \in Seq(Byte) /\ SubSeq(line, size + 1, Len(line)) \in Seq(Byte)
      /\ SubSeq(line, 1, size) \o SubSeq(line, size + 1, Len(line)) = line
  BY <1>1, Cut DEF StreamInv, BytesOK
<1>4. BytesOK'
  BY <1>2, <1>3, SMTT(20) DEF StreamInv, BytesOK
<1>5. CASE clear
  <2>1. FramesKept
    BY <1>5 DEF StreamInv
  <2>2. Rest' = Rest
    <3> DEFINE a == SubSeq(line, 1, size)
               b == SubSeq(line, size + 1, Len(line))
    <3>1. stream' = stream \o a /\ line' = b /\ buffer' = buffer /\ a \o b = line
      BY <1>2, <1>3, <2>1 DEF FramesKept
    <3>2. a \in Seq(Byte) /\ b \in Seq(Byte)
      BY <1>3
    <3> HIDE DEF a, b
    <3>5. buffer \in Seq(Byte) /\ stream \in Seq(Byte)
      BY DEF StreamInv, BytesOK
    <3>6. buffer \o stream \in Seq(Byte)
      BY <3>5, ConcatProperties
    <3>3. (buffer \o (stream \o a)) \o b = ((buffer \o stream) \o a) \o b
      BY <3>2, <3>5, Regrouped, Zenon
    <3>4. ((buffer \o stream) \o a) \o b = (buffer \o stream) \o (a \o b)
      BY <3>2, <3>6, Regrouped, Zenon
    <3> QED BY <3>1, <3>3, <3>4 DEF Rest
  <2> QED BY <1>2, <1>4, <2>1, <2>2 DEF StreamInv, FramesKept
<1> QED BY <1>2, <1>4, <1>5 DEF StreamInv

\* A chunk is the next bytes of the stream; a frame is complete when the first pending one is.
LEMMA StreamChunk ==
    ASSUME StreamInv, ReadChunk
    PROVE  StreamInv'
<1> DEFINE size == Min({8 - Len(buffer), Len(stream)})
           a == SubSeq(stream, 1, size)
           b == SubSeq(stream, size + 1, Len(stream))
           bytes == buffer \o a
<1>1. size \in 0..Len(stream) /\ size <= 8 - Len(buffer)
  <2>1. size = IF 8 - Len(buffer) <= Len(stream) THEN 8 - Len(buffer) ELSE Len(stream)
    BY DEF Min, StreamInv, BytesOK
  <2> QED BY <2>1 DEF StreamInv, BytesOK
<1>0. /\ buffer \in Seq(Byte) /\ Len(buffer) \in Nat
      /\ stream \in Seq(Byte) /\ line \in Seq(Byte)
  BY DEF StreamInv, BytesOK
<1>3. a \in Seq(Byte) /\ b \in Seq(Byte) /\ a \o b = stream /\ Len(a) = size
  <2> HIDE DEF size
  <2> QED BY <1>0, <1>1, Cut
<1>4. bytes \in Seq(Byte) /\ Len(bytes) = Len(buffer) + size
  <2> HIDE DEF a
  <2> QED BY <1>0, <1>3, Joined
<1>9. Len(bytes) \in Nat /\ Len(bytes) <= 8
  <2> HIDE DEF bytes, size
  <2> QED BY <1>0, <1>1, <1>4
<1>11. Len(bytes) < 8 \/ Len(bytes) = 8
  <2> HIDE DEF bytes, size
  <2> QED BY <1>0, <1>1, <1>4
<1>2. /\ stream' = b /\ UNCHANGED <<line, eof, link, clear, expected>>
      /\ \/ Len(bytes) < 8 /\ buffer' = bytes /\ UNCHANGED <<frame, received>>
         \/ /\ ~(Len(bytes) < 8) /\ buffer' = <<>> /\ frame' = bytes
            /\ received' = IF clear THEN Append(received, bytes) ELSE <<>>
  BY DEF ReadChunk, FRAME_SIZE
<1> HIDE DEF size, a, b
<1>12. /\ buffer \in Seq(Byte) /\ line \in Seq(Byte)
       /\ a \in Seq(Byte) /\ b \in Seq(Byte) /\ buffer \o a \in Seq(Byte)
  BY <1>0, <1>3, <1>4
<1>5. Rest = bytes \o (b \o line)
  <2>1. (buffer \o a) \o b = buffer \o (a \o b)
    BY <1>12, Regrouped, Zenon
  <2>2. ((buffer \o a) \o b) \o line = (buffer \o a) \o (b \o line)
    BY <1>12, Regrouped, Zenon
  <2> QED BY <1>3, <2>1, <2>2 DEF Rest
<1> HIDE DEF bytes
<1>6. BytesOK'
  <2>1. CASE Len(bytes) < 8
    BY <1>2, <1>3, <1>4, <2>1 DEF StreamInv, BytesOK
  <2>2. CASE ~(Len(bytes) < 8)
    <3>1. <<>> \in Seq(Byte) /\ Len(<<>>) < 8
      BY EmptySeq
    <3> QED BY <1>2, <1>3, <1>4, <2>2, <3>1 DEF StreamInv, BytesOK
  <2> QED BY <2>1, <2>2
<1>7. CASE clear /\ Len(bytes) < 8
  <2>1. Rest' = (bytes \o b) \o line
    BY <1>2, <1>4, <1>7 DEF Rest
  <2>2. Rest' = Rest
    <3>1. bytes \in Seq(Byte)
      BY <1>4
    <3>2. (bytes \o b) \o line = bytes \o (b \o line)
      BY <1>12, <3>1, Regrouped, Zenon
    <3> QED BY <1>5, <2>1, <3>2
  <2> QED BY <1>2, <1>4, <1>6, <1>7, <2>2 DEF StreamInv, FramesKept
<1>8. CASE clear /\ Len(bytes) = 8
  <2>1. FramesKept
    BY <1>8 DEF StreamInv
  <2>2. b \o line \in Seq(Byte) /\ Rest \in Seq(Byte) /\ Len(Rest) >= 8
    <3>1. b \o line \in Seq(Byte)
      BY <1>0, <1>3, ConcatProperties
    <3>2. Rest \in Seq(Byte) /\ Len(Rest) = Len(bytes) + Len(b \o line)
      BY <1>4, <1>5, <3>1, Joined
    <3>3. Len(b \o line) \in Nat
      BY <3>1
    <3> QED BY <1>8, <3>1, <3>2, <3>3
  <2>3. SubSeq(Rest, 1, 8) = bytes /\ SubSeq(Rest, 9, Len(Rest)) = b \o line
    <3>1. SubSeq(Rest, 1, Len(bytes)) = bytes /\ SubSeq(Rest, Len(bytes) + 1, Len(Rest)) = b \o line
      BY <1>4, <1>5, <2>2, CutJoined
    <3>2. 8 + 1 = 9
      OBVIOUS
    <3> QED BY <1>8, <3>1, <3>2
  <2>4. Rest' = b \o line
    <3>1. <<>> \o b = b
      BY <1>3, ConcatEmptySeq, Zenon
    <3>2. buffer' = <<>> /\ stream' = b /\ line' = line
      BY <1>2, <1>8
    <3> QED BY <3>1, <3>2, Zenon DEF Rest
  <2>5. /\ Len(received) < Len(expected) /\ bytes = expected[Len(received) + 1]
        /\ Pending(Rest', expected, Len(received) + 1)
    <3>1. /\ Len(received) \in 0..Len(expected) /\ expected \in Seq(Frame)
          /\ Pending(Rest, expected, Len(received))
      BY <2>1 DEF FramesKept
    <3>2. /\ Len(received) < Len(expected) /\ SubSeq(Rest, 1, 8) = expected[Len(received) + 1]
          /\ Pending(SubSeq(Rest, 9, Len(Rest)), expected, Len(received) + 1)
      BY <2>2, <3>1, PendingHead
    <3> QED BY <2>3, <2>4, <3>2
  <2>6. received' = Append(received, bytes) /\ expected' = expected
    BY <1>2, <1>8
  <2>7. bytes \in Frame
    BY <1>4, <1>8 DEF Frame
  <2>8. /\ received' \in Seq(Frame) /\ Len(received') = Len(received) + 1
        /\ \A j \in 1..Len(received') : received'[j] = expected'[j]
    BY <2>1, <2>5, <2>6, <2>7 DEF FramesKept
  <2> QED BY <1>2, <1>6, <2>1, <2>5, <2>6, <2>8 DEF StreamInv, FramesKept
<1>10. CASE ~clear
  BY <1>2, <1>6, <1>10 DEF StreamInv
<1> QED BY <1>7, <1>8, <1>10, <1>11, Zenon

\* Every step keeps the invariant.
LEMMA StreamStep ==
    ASSUME StreamInv, [Next]_transVars
    PROVE  StreamInv'
<1> USE DEF lineVars, transportVars, sentVars, clearVars
\* The steps that leave the bytes alone or give the connection up.
<1>1. ASSUME UNCHANGED <<line, stream, eof, link, buffer, clear, expected, received>>,
             frame' = frame \/ frame' = <<>>
      PROVE  StreamInv'
  <2>1. <<>> \in Seq(Byte)
    BY EmptySeq
  <2>2. BytesOK'
    BY <1>1, <2>1 DEF StreamInv, BytesOK
  <2>3. FramesKept => FramesKept'
    BY <1>1 DEF FramesKept, Rest
  <2> QED BY <1>1, <2>2, <2>3 DEF StreamInv
<1>2. ASSUME clear' = FALSE, line' = line, stream' = stream \/ stream' = <<>>,
             buffer' = buffer \/ buffer' = <<>>, frame' = frame \/ frame' = <<>>
      PROVE  StreamInv'
  <2>1. <<>> \in Seq(Byte) /\ Len(<<>>) < 8
    BY EmptySeq
  <2>2. BytesOK'
    BY <1>2, <2>1 DEF StreamInv, BytesOK
  <2> QED BY <1>2, <2>2 DEF StreamInv
<1>3. CASE \E r \in Requests : Send(r)
  BY <1>3, StreamSend
<1>4. CASE \E r \in Requests : SendDamaged(r)
  <2>1. PICK r \in Requests : SendDamaged(r)
    BY <1>4
  <2>2. PICK bytes \in Seq(Byte) : line' = line \o bytes
    BY <2>1, DamagedFrames DEF SendDamaged
  <2>3. line' \in Seq(Byte)
    BY <2>2, ConcatProperties DEF StreamInv, BytesOK
  <2>4. clear' = FALSE /\ UNCHANGED <<stream, buffer, frame>>
    BY <2>1 DEF SendDamaged, Disturb
  <2> QED BY <2>3, <2>4 DEF StreamInv, BytesOK
<1>5. CASE \E n \in Sizes : Arrive(n)
  BY <1>5, StreamArrive, TransportAssumption
<1>6. CASE PeerCloses
  BY <1>2, <1>6 DEF PeerCloses, Disturb
<1>7. CASE Tick
  BY <1>1, <1>7 DEF Tick
<1>8. CASE connect
  <2>1. ~clear
    BY <1>8 DEF connect, StreamInv, FramesKept
  <2>2. clear' = FALSE
    BY <1>8, <2>1 DEF connect, StreamInv
  <2> QED BY <1>2, <1>8, <2>2 DEF connect
<1>9. CASE ReadChunk
  BY <1>9, StreamChunk
<1>10. CASE handle_read_timeout
  BY <1>1, <1>2, <1>10 DEF handle_read_timeout, Drop, Disturb
<1>11. CASE EmptyChunk \/ Reset
  BY <1>2, <1>11 DEF EmptyChunk, Reset, Drop, Disturb
<1>12. CASE InvalidCrc \/ NoAnswer
  BY <1>1, <1>12 DEF InvalidCrc, NoAnswer, Handled
<1>13. CASE AnswerFill
  <2>1. (Handled \/ Drop) /\ UNCHANGED <<line, eof>>
    BY <1>13 DEF AnswerFill
  <2> QED BY <1>1, <1>2, <2>1 DEF Handled, Drop, Disturb
<1>14. CASE UNCHANGED transVars
  BY <1>1, <1>14 DEF transVars
<1> QED BY <1>3, <1>4, <1>5, <1>6, <1>7, <1>8, <1>9, <1>10, <1>11, <1>12, <1>13, <1>14 DEF Next

\* AsyncTcpTransport.read_frame cuts the stream by length only.  From the first frame sent
\* over an idle connection on, until something is damaged or the connection is lost, the frames
\* it returns are those the posts sent, whole and in order, and when nothing is under way, all
\* of them: however the bytes are split into segments, and wherever its reads time out.
THEOREM FramesWhole == Spec => []FramesIntact
<1>1. StreamInv => FramesIntact
  <2> SUFFICES ASSUME FramesKept
               PROVE  IsPrefix(received, expected) /\ (Quiet => received = expected)
    BY DEF StreamInv, FramesIntact
  <2>1. /\ received \in Seq(Frame) /\ expected \in Seq(Frame)
        /\ Len(received) <= Len(expected) /\ Len(received) \in Nat /\ Len(expected) \in Nat
        /\ \A j \in 1..Len(received) : received[j] = expected[j]
    BY DEF FramesKept
  <2>2. IsPrefix(received, expected)
    <3> DEFINE a == SubSeq(received, 1, Len(received))
               b == SubSeq(expected, 1, Len(received))
    <3>1. /\ a \in Seq(Frame) /\ Len(a) = Len(received)
          /\ \A i \in 1..Len(received) : a[i] = received[i]
      BY <2>1, Cut
    <3>2. /\ b \in Seq(Frame) /\ Len(b) = Len(received)
          /\ \A i \in 1..Len(received) : b[i] = expected[i]
      BY <2>1, Cut
    <3> HIDE DEF a, b
    <3>3. a = b
      BY <2>1, <3>1, <3>2, SeqEqual
    <3> QED BY <2>1, <3>3 DEF IsPrefix, a, b
  <2>3. ASSUME Quiet PROVE received = expected
    <3>1. Rest = <<>>
      BY <2>3 DEF Quiet, Rest
    <3>2. Len(Rest) = 8 * (Len(expected) - Len(received))
      BY DEF FramesKept, Pending
    <3>3. Len(expected) = Len(received)
      BY <2>1, <3>1, <3>2
    <3> QED BY <2>1, <3>3, SeqEqual
  <2> QED BY <2>2, <2>3
<1> QED BY <1>1, StreamInit, StreamStep, PTL DEF Spec

(***************************************************************************)
(* What the silence ends.                                                  *)
(***************************************************************************)

\* The inductive invariant of SilenceClears.
TimerInv ==
    /\ silence \in Nat
    /\ since = {} <=> buffer = <<>>
    /\ link = "down" => since = {} /\ stream = <<>>
    /\ stream # <<>> => silence = 0
    /\ \A a \in since :
         a \in 0..StaleTicks /\ silence <= a /\ (a = StaleTicks /\ ~waited => silence = 0)

\* The smaller of two numbers.
LEMMA MinOfTwo ==
    ASSUME NEW x \in Int, NEW y \in Int
    PROVE  Min({x, y}) = IF x <= y THEN x ELSE y
BY DEF Min

\* Every step keeps the invariant.
LEMMA TimerStep ==
    ASSUME TimerInv, BytesOK, [Next]_transVars
    PROVE  TimerInv'
<1> USE DEF lineVars, transportVars, sentVars, clearVars
<1>1. ASSUME UNCHANGED <<stream, link, buffer, since, waited, silence>>
      PROVE  TimerInv'
  BY <1>1 DEF TimerInv
<1>2. ASSUME Drop, silence' = silence
      PROVE  TimerInv'
  BY <1>2 DEF TimerInv, Drop
<1>3. CASE \E r \in Requests : Send(r) \/ SendDamaged(r)
  BY <1>1, <1>3 DEF Send, SendDamaged
<1>5. CASE \E n \in Sizes : Arrive(n)
  <2>1. /\ silence' = 0 /\ UNCHANGED <<link, buffer, since, waited>>
        /\ link = "down" => stream' = stream
    BY <1>5 DEF Arrive
  <2> QED BY <2>1, TransportAssumption DEF TimerInv
<1>6. CASE PeerCloses
  BY <1>1, <1>6 DEF PeerCloses
<1>7. CASE Tick
  <2>1. /\ stream = <<>> /\ ~waited /\ waited' = TRUE
        /\ since' = {Min({t + 1, StaleTicks}) : t \in since}
        /\ silence' = Min({silence + 1, StaleTicks + 2})
        /\ UNCHANGED <<link, stream, buffer>> /\ link = "up"
    BY <1>7 DEF Tick
  <2>2. silence' \in Nat /\ silence' <= silence + 1
    BY <2>1, MinOfTwo, TransportAssumption DEF TimerInv
  <2>3. ASSUME NEW a \in since'
        PROVE  a \in 0..StaleTicks /\ silence' <= a
    <3>1. PICK t \in since : a = Min({t + 1, StaleTicks})
      BY <2>1
    <3>2. t \in 0..StaleTicks /\ silence <= t /\ (t = StaleTicks => silence = 0)
      BY <2>1 DEF TimerInv
    <3>3. a = IF t + 1 <= StaleTicks THEN t + 1 ELSE StaleTicks
      BY <3>1, <3>2, MinOfTwo, TransportAssumption
    <3> QED BY <2>2, <3>2, <3>3, TransportAssumption DEF TimerInv
  <2>4. since' = {} <=> since = {}
    BY <2>1
  <2> QED BY <2>1, <2>2, <2>3, <2>4 DEF TimerInv
<1>8. CASE connect
  BY <1>8 DEF connect, TimerInv
<1>9. CASE ReadChunk
  <2> DEFINE size == Min({8 - Len(buffer), Len(stream)})
             bytes == buffer \o SubSeq(stream, 1, size)
  <2>1. /\ stream # <<>> /\ waited' = FALSE /\ UNCHANGED <<link, silence>> /\ link = "up"
        /\ \/ /\ Len(bytes) < 8 /\ buffer' = bytes
              /\ since' = IF buffer = <<>> THEN {0} ELSE since
           \/ buffer' = <<>> /\ since' = {}
    BY <1>9 DEF ReadChunk, FRAME_SIZE, reset_partial_buffer_timer
  <2>2. bytes # <<>>
    <3>1. Len(stream) \in Nat \ {0} /\ Len(buffer) \in Nat /\ Len(buffer) < 8
      BY <2>1 DEF BytesOK
    <3>2. size \in 1..Len(stream)
      BY <3>1, MinOfTwo
    <3>3. SubSeq(stream, 1, size) \in Seq(Byte) /\ Len(SubSeq(stream, 1, size)) = size
      <4> HIDE DEF size
      <4> QED BY <3>1, <3>2, Cut DEF BytesOK
    <3>4. Len(bytes) = Len(buffer) + size
      <4> HIDE DEF size
      <4> QED BY <3>3, Joined DEF BytesOK
    <3>5. Len(bytes) # 0
      <4> HIDE DEF bytes, size
      <4> QED BY <3>1, <3>2, <3>4
    <3> HIDE DEF bytes
    <3> QED BY <3>5, EmptySeq
  <2> HIDE DEF bytes
  <2>3. silence' = 0
    BY <2>1 DEF TimerInv
  <2>4. since' = {} <=> buffer' = <<>>
    BY <2>1, <2>2 DEF TimerInv
  <2>5. \A a \in since' : a \in 0..StaleTicks
    BY <2>1, TransportAssumption DEF TimerInv
  <2>6. \A a \in since' : silence' <= a
    BY <2>3, <2>5, TransportAssumption
  <2> QED BY <2>1, <2>3, <2>4, <2>5, <2>6 DEF TimerInv
<1>10. CASE handle_read_timeout
  <2>1. CASE IsStale(since)
    BY <1>2, <1>10, <2>1 DEF handle_read_timeout
  <2>2. CASE ~IsStale(since)
    <3>1. StaleTicks \notin since /\ UNCHANGED <<stream, link, buffer, since, silence>>
      BY <1>10, <2>2 DEF handle_read_timeout, IsStale
    <3> QED BY <3>1 DEF TimerInv
  <2> QED BY <2>1, <2>2
<1>11. CASE EmptyChunk \/ Reset
  BY <1>2, <1>11 DEF EmptyChunk, Reset
<1>12. CASE InvalidCrc \/ NoAnswer
  BY <1>1, <1>12 DEF InvalidCrc, NoAnswer, Handled
<1>13. CASE AnswerFill
  <2>1. (Handled \/ Drop) /\ silence' = silence
    BY <1>13 DEF AnswerFill
  <2> QED BY <1>1, <1>2, <2>1 DEF Handled
<1>14. CASE UNCHANGED transVars
  BY <1>1, <1>14 DEF transVars
<1> QED BY <1>3, <1>5, <1>6, <1>7, <1>8, <1>9, <1>10, <1>11, <1>12, <1>13, <1>14 DEF Next

\* AsyncTcpTransport.read_frame and handle_read_timeout: once no byte has come for longer than
\* STALE_PARTIAL_BUFFER_SECONDS and a timeout, no unfinished frame is left, so the next frame
\* is read from its first byte.
THEOREM SilenceFrees == Spec => []SilenceClears
<1>1. Init => TimerInv /\ StreamInv
  BY StreamInit DEF Init, TimerInv
<1>2. TimerInv /\ StreamInv /\ [Next]_transVars => (TimerInv /\ StreamInv)'
  BY TimerStep, StreamStep DEF StreamInv
<1>3. TimerInv => SilenceClears
  <2> SUFFICES ASSUME TimerInv, silence > StaleTicks PROVE buffer = <<>>
    BY DEF SilenceClears
  <2>1. ASSUME NEW a \in since PROVE FALSE
    BY <2>1, TransportAssumption DEF TimerInv
  <2> QED BY <2>1 DEF TimerInv
<1> QED BY <1>1, <1>2, <1>3, PTL DEF Spec

(***************************************************************************)
(* What a post is answered.                                                *)
(***************************************************************************)

\* A weight is that of the passport for the post, within the ranges of the settings.
OfPassport(weight, passport, settings, post) ==
    \E brutto \in passport.brutto, netto \in passport.netto,
       from \in settings.passport_weight_diff.from, to \in settings.passport_weight_diff.to :
       /\ \E correction \in Correction(settings, post) : weight \in Grams(brutto + correction)
       /\ brutto - netto \in from..to \/ netto - brutto \in from..to
       /\ \A least \in settings.max_balloon_weight.from : least <= brutto
       /\ \A most \in settings.max_balloon_weight.to : brutto <= most

\* What is stated of one answer.
Within(a) ==
    /\ validate_frame_crc(a.bytes)
    /\ a.bytes[1] = RESPONSE_TYPE_FILL /\ a.bytes[2] = a.request.post_number
    /\ OfPassport(Word(a.bytes[4], a.bytes[5]), a.passport, a.settings, a.request.post_number)

\* The bytes of an answer say what they were built from.
LEMMA AnswerBytes ==
    ASSUME NEW post \in Byte, NEW weight, Packable(weight)
    PROVE  LET bytes == build_response_packet(REQUEST_TYPE_FILL, post, weight)
           IN /\ validate_frame_crc(bytes)
              /\ bytes[1] = RESPONSE_TYPE_FILL /\ bytes[2] = post
              /\ Word(bytes[4], bytes[5]) = weight
<1> DEFINE p == <<RESPONSE_TYPE_FILL, post, 255, Hi(weight), Lo(weight), 255>>
<1>1. /\ Hi(weight) \in Byte /\ Lo(weight) \in Byte /\ Word(Hi(weight), Lo(weight)) = weight
  BY TwoBytes DEF Packable
<1>2. RESPONSE_TYPE_FILL \in Byte /\ 255 \in Byte
  BY ByteRange DEF RESPONSE_TYPE_FILL
<1>3. p \in Seq(Byte) /\ Len(p) = 6
  BY <1>1, <1>2
<1>4. p[1] = RESPONSE_TYPE_FILL /\ p[2] = post /\ p[4] = Hi(weight) /\ p[5] = Lo(weight)
  OBVIOUS
<1>5. build_response_packet(REQUEST_TYPE_FILL, post, weight) = WithCrc(p)
  BY DEF build_response_packet
<1> HIDE DEF p
<1>6. validate_frame_crc(WithCrc(p)) /\ \A i \in 1..6 : WithCrc(p)[i] = p[i]
  BY <1>3, CheckedFrame
<1>7. 1 \in 1..6 /\ 2 \in 1..6 /\ 4 \in 1..6 /\ 5 \in 1..6
  OBVIOUS
<1> QED BY <1>1, <1>4, <1>5, <1>6, <1>7, Zenon

\* A weight of a passport is computed within the ranges of the settings.
LEMMA WeightWithin ==
    ASSUME NEW passport \in Passports, NEW settings \in Settings, NEW post,
           NEW weight \in FullWeight(passport, settings, post)
    PROVE  OfPassport(weight, passport, settings, post)
<1> DEFINE diff == settings.passport_weight_diff
<1>1. PICK brutto \in passport.brutto, correction \in Correction(settings, post) :
         /\ weight \in Grams(brutto + correction)
         /\ \E netto \in passport.netto :
               /\ is_value_in_range(brutto, settings.max_balloon_weight)
               /\ DiffInRange(Abs(brutto - netto), diff)
  BY DEF FullWeight
<1>2. PICK netto \in passport.netto :
         /\ is_value_in_range(brutto, settings.max_balloon_weight)
         /\ DiffInRange(Abs(brutto - netto), diff)
  BY <1>1
<1>3. PICK from \in diff.from, to \in diff.to :
         Abs(brutto - netto) >= from /\ Abs(brutto - netto) <= to
  BY <1>2 DEF DiffInRange, is_value_in_range
<1>4. brutto \in Int /\ netto \in Int /\ from \in Int /\ to \in Int
  BY TransportAssumption
<1>5. brutto - netto \in from..to \/ netto - brutto \in from..to
  <2> HIDE DEF diff
  <2> QED BY <1>3, <1>4 DEF Abs
<1>6. /\ \A least \in settings.max_balloon_weight.from : least <= brutto
      /\ \A most \in settings.max_balloon_weight.to : brutto <= most
  BY <1>2, <1>4 DEF is_value_in_range
<1> QED BY <1>1, <1>3, <1>5, <1>6 DEF OfPassport

\* request_processing and build_response_packet: whatever was read from the line, an answer is
\* a whole frame for the post that asked, and its weight is, to the gram, that of the passport
\* with the correction of that post, from a passport within every range of the settings.
THEOREM AnswersRight == Spec => []AnswersWithinRanges
<1> DEFINE Inv == \A a \in answered : Within(a)
<1>1. Init => Inv
  BY DEF Init
<1>2. ASSUME Inv, StreamInv, [Next]_transVars
      PROVE  Inv'
  <2> USE DEF lineVars, transportVars, sentVars, clearVars
  <2>1. ASSUME answered' = answered \/ answered' = {}
        PROVE  Inv'
    BY <1>2, <2>1 DEF Within
  <2>2. CASE AnswerFill
    <3> DEFINE request == parse_request_frame(frame)
               Made(p, s, w) ==
                   [request |-> request, passport |-> p, settings |-> s,
                    bytes |-> build_response_packet(request.request_type,
                                                    request.post_number, w)]
    <3>1. frame # <<>> /\ Len(frame) = 8
      BY <2>2 DEF AnswerFill, IsRequest, validate_frame_crc, FRAME_SIZE
    <3>2. request.request_type = REQUEST_TYPE_FILL /\ request.post_number \in Byte
      <4>1. request.request_type = REQUEST_TYPE_FILL
        BY <2>2 DEF AnswerFill
      <4>2. frame \in Seq(Byte)
        BY <1>2 DEF StreamInv, BytesOK
      <4>3. frame[2] \in Byte
        BY <3>1, <4>2, SMTT(20)
      <4>4. request.post_number = frame[2]
        BY DEF parse_request_frame
      <4> QED BY <4>1, <4>3, <4>4
    <3>3. \/ answered' = answered
          \/ \E p \in Passports, s \in Settings :
             \E w \in FullWeight(p, s, request.post_number) :
                Packable(w) /\ answered' = {Made(p, s, w)}
      BY <2>2 DEF AnswerFill
    <3> HIDE DEF request
    <3>4. ASSUME NEW p \in Passports, NEW s \in Settings,
                 NEW w \in FullWeight(p, s, request.post_number), Packable(w)
          PROVE  Within(Made(p, s, w))
      <4> DEFINE a == Made(p, s, w)
      <4>1. /\ a.request = request /\ a.passport = p /\ a.settings = s
            /\ a.bytes = build_response_packet(REQUEST_TYPE_FILL, request.post_number, w)
        BY <3>2
      <4> HIDE DEF a
      <4>2. /\ validate_frame_crc(a.bytes)
            /\ a.bytes[1] = RESPONSE_TYPE_FILL /\ a.bytes[2] = request.post_number
            /\ Word(a.bytes[4], a.bytes[5]) = w
        BY <3>2, <3>4, <4>1, AnswerBytes
      <4>3. Within(a)
        BY <3>4, <4>1, <4>2, WeightWithin DEF Within
      <4> QED BY <4>3 DEF a
    <3>5. CASE answered' = answered
      BY <2>1, <3>5
    <3>6. CASE answered' # answered
      <4>1. PICK p \in Passports, s \in Settings :
              \E w \in FullWeight(p, s, request.post_number) :
                 Packable(w) /\ answered' = {Made(p, s, w)}
        BY <3>3, <3>6
      <4>2. PICK w \in FullWeight(p, s, request.post_number) :
              Packable(w) /\ answered' = {Made(p, s, w)}
        BY <4>1
      <4> DEFINE made == Made(p, s, w)
      <4>3. Within(made)
        BY <3>4, <4>2
      <4>4. answered' = {made}
        BY <4>2
      <4> HIDE DEF made
      <4> QED BY <4>3, <4>4
    <3> QED BY <3>5, <3>6
  <2>3. CASE ReadChunk
    BY <2>1, <2>3 DEF ReadChunk
  <2>4. CASE ~AnswerFill /\ ~ReadChunk
    <3>1. answered' = answered
      BY <1>2, <2>4 DEF Next, transVars, Send, SendDamaged, Arrive, PeerCloses, Tick, connect,
                        handle_read_timeout, EmptyChunk, Reset, InvalidCrc, NoAnswer
    <3> QED BY <2>1, <3>1
  <2> QED BY <2>2, <2>3, <2>4
<1>3. Inv => AnswersWithinRanges
  BY DEF AnswersWithinRanges, Within, OfPassport
<1> QED BY <1>1, <1>2, <1>3, StreamInit, StreamStep, PTL DEF Spec

(***************************************************************************)
(* What gets past the CRC.                                                 *)
(***************************************************************************)

\* What a post may have put on the line: its frame, whole or damaged.
Pieces == UNION {{RequestBytes[r]} \cup DamagedBytes(RequestBytes[r]) : r \in Requests}

\* Eight bytes that a post has sent, if the CRC accepts them.
Honest(bytes) == validate_frame_crc(bytes) => bytes \in Range(RequestBytes)

\* Wherever a sequence is cut, eight bytes of it are honest.
Clean(s) == \A i \in Nat : i + 8 <= Len(s) => Honest(SubSeq(s, i + 1, i + 8))

\* The last seven bytes of a sequence, or all if there are fewer, are the last of a piece.
Ends(s) ==
    \/ s = <<>>
    \/ \E u \in Pieces : \A j \in 0..6 : j < Len(s) => s[Len(s) - j] = u[Len(u) - j]

\* No piece is shorter than seven bytes.
LEMMA PieceBytes ==
    ASSUME NEW u \in Pieces
    PROVE  u \in Seq(Byte) /\ Len(u) \in Nat /\ Len(u) >= 7
<1>1. PICK r \in Requests : u = RequestBytes[r] \/ u \in DamagedBytes(RequestBytes[r])
  BY DEF Pieces
<1>2. CASE u = RequestBytes[r]
  <2>1. u \in Frame
    BY <1>2, RequestFrames
  <2>2. u \in Seq(Byte) /\ Len(u) = 8
    BY <2>1, Zenon DEF Frame
  <2> QED BY <2>2, SMTT(20)
<1>3. CASE u \in DamagedBytes(RequestBytes[r])
  <2>1. u \in Seq(Byte) /\ Len(u) >= 7
    BY <1>3, DamagedFrames
  <2> QED BY <2>1
<1> QED BY <1>1, <1>2, <1>3

\* Of two pieces in a row, every eight bytes are honest.
LEMMA PairClean ==
    ASSUME FramesApart, NEW u \in Pieces, NEW v \in Pieces
    PROVE  Clean(u \o v)
<1> DEFINE two == u \o v
<1>1. \A i \in 0..Len(two) - FRAME_SIZE : Honest(SubSeq(two, i + 1, i + FRAME_SIZE))
  BY Zenon DEF FramesApart, Pieces, Honest
<1>2. FRAME_SIZE = 8
  BY DEF FRAME_SIZE
<1>3. Len(two) \in Nat
  BY PieceBytes, BytesJoined
<1> HIDE DEF two
<1>4. ASSUME NEW i \in Nat, i + 8 <= Len(two)
      PROVE  Honest(SubSeq(two, i + 1, i + 8))
  <2>1. i \in 0..Len(two) - 8
    BY <1>3, <1>4
  <2> QED BY <1>1, <1>2, <2>1
<1>5. Clean(two)
  BY <1>4 DEF Clean
<1> QED BY <1>5 DEF two

\* Eight bytes are the same wherever they stand.
LEMMA SameEight ==
    ASSUME NEW s \in Seq(Byte), NEW t \in Seq(Byte), NEW i \in Nat, NEW m \in Nat,
           i + 8 <= Len(s), m + 8 <= Len(t), \A j \in 1..8 : s[i + j] = t[m + j]
    PROVE  SubSeq(s, i + 1, i + 8) = SubSeq(t, m + 1, m + 8)
<1> DEFINE a == SubSeq(s, i + 1, i + 8)
           b == SubSeq(t, m + 1, m + 8)
<1>0. 8 \in Nat
  OBVIOUS
<1>1. a \in Seq(Byte) /\ Len(a) = 8 /\ \A j \in 1..8 : a[j] = s[i + j]
  BY <1>0, Part, Zenon
<1>2. b \in Seq(Byte) /\ Len(b) = 8 /\ \A j \in 1..8 : b[j] = t[m + j]
  BY <1>0, Part, Zenon
<1> HIDE DEF a, b
<1>3. Len(a) = Len(b) /\ \A j \in 1..Len(a) : a[j] = b[j]
  BY <1>1, <1>2
<1>4. a = b
  BY <1>1, <1>2, <1>3, SeqEqual, Zenon
<1> QED BY <1>4 DEF a, b

\* The eight bytes of a part are eight bytes of the whole.
LEMMA CleanParts ==
    ASSUME NEW s \in Seq(Byte), NEW t \in Seq(Byte), Clean(s \o t)
    PROVE  Clean(s) /\ Clean(t)
<1> DEFINE w == s \o t
<1>1. /\ w \in Seq(Byte) /\ Len(w) = Len(s) + Len(t)
      /\ \A i \in 1..Len(s) : w[i] = s[i]
      /\ \A i \in 1..Len(t) : w[Len(s) + i] = t[i]
  BY BytesJoined
<1>2. Clean(w)
  OBVIOUS
<1>3. Len(s) \in Nat /\ Len(t) \in Nat
  OBVIOUS
<1> HIDE DEF w
<1>4. ASSUME NEW i \in Nat, i + 8 <= Len(s)
      PROVE  Honest(SubSeq(s, i + 1, i + 8))
  <2>1. i + 8 <= Len(w)
    BY <1>1, <1>3, <1>4
  <2>2. \A j \in 1..8 : s[i + j] = w[i + j]
    <3> TAKE j \in 1..8
    <3> DEFINE k == i + j
    <3>1. k \in 1..Len(s)
      BY <1>3, <1>4
    <3> HIDE DEF k
    <3>2. w[k] = s[k]
      BY <1>1, <3>1
    <3> QED BY <3>2 DEF k
  <2>3. SubSeq(s, i + 1, i + 8) = SubSeq(w, i + 1, i + 8)
    BY <1>1, <1>4, <2>1, <2>2, SameEight, Zenon
  <2>4. Honest(SubSeq(w, i + 1, i + 8))
    BY <1>2, <2>1 DEF Clean
  <2> QED BY <2>3, <2>4, Zenon
<1>5. ASSUME NEW i \in Nat, i + 8 <= Len(t)
      PROVE  Honest(SubSeq(t, i + 1, i + 8))
  <2> DEFINE m == Len(s) + i
  <2>1. m \in Nat /\ m + 8 <= Len(w)
    BY <1>1, <1>3, <1>5
  <2>2. \A j \in 1..8 : t[i + j] = w[m + j]
    <3> TAKE j \in 1..8
    <3> DEFINE k == i + j
    <3>1. k \in 1..Len(t) /\ Len(s) + k = m + j
      BY <1>3, <1>5
    <3> HIDE DEF k, m
    <3>2. w[Len(s) + k] = t[k]
      BY <1>1, <3>1
    <3> QED BY <3>1, <3>2 DEF k
  <2> HIDE DEF m
  <2>3. SubSeq(t, i + 1, i + 8) = SubSeq(w, m + 1, m + 8)
    BY <1>1, <1>5, <2>1, <2>2, SameEight, Zenon
  <2>4. Honest(SubSeq(w, m + 1, m + 8))
    BY <1>2, <2>1 DEF Clean
  <2> QED BY <2>3, <2>4, Zenon
<1> QED BY <1>4, <1>5 DEF Clean

\* What ends a sequence ends its last part.
LEMMA EndsPart ==
    ASSUME NEW s \in Seq(Byte), NEW t \in Seq(Byte), Ends(s \o t)
    PROVE  Ends(t)
<1> DEFINE w == s \o t
<1>1. /\ w \in Seq(Byte) /\ Len(w) = Len(s) + Len(t)
      /\ \A i \in 1..Len(t) : w[Len(s) + i] = t[i]
  BY BytesJoined
<1>2. Ends(w)
  OBVIOUS
<1>3. Len(s) \in Nat /\ Len(t) \in Nat
  OBVIOUS
<1> HIDE DEF w
<1>4. CASE t = <<>>
  BY <1>4 DEF Ends
<1>5. CASE t # <<>>
  <2>1. Len(t) > 0
    BY <1>3, <1>5, EmptySeq
  <2>2. w # <<>>
    BY <1>1, <1>3, <2>1
  <2>3. PICK u \in Pieces : \A j \in 0..6 : j < Len(w) => w[Len(w) - j] = u[Len(u) - j]
    BY <1>2, <2>2 DEF Ends
  <2>4. ASSUME NEW j \in 0..6, j < Len(t)
        PROVE  t[Len(t) - j] = u[Len(u) - j]
    <3> DEFINE k == Len(t) - j
               n == Len(w) - j
    <3>1. k \in 1..Len(t) /\ Len(s) + k = n /\ j < Len(w)
      BY <1>1, <1>3, <2>4
    <3>2. w[n] = u[Len(u) - j]
      BY <2>3, <3>1
    <3> HIDE DEF k, n
    <3>3. w[n] = t[k]
      BY <1>1, <3>1
    <3> QED BY <3>2, <3>3 DEF k
  <2> QED BY <2>4 DEF Ends
<1> QED BY <1>4, <1>5

\* A piece that is sent behind clean bytes leaves them clean: eight bytes reach into the
\* pieces before it by seven at most, so into one of them only.
LEMMA CleanMore ==
    ASSUME FramesApart, NEW s \in Seq(Byte), NEW v \in Pieces, Clean(s), Ends(s)
    PROVE  Clean(s \o v) /\ Ends(s \o v)
<1> DEFINE w == s \o v
<1>0. v \in Seq(Byte) /\ Len(v) \in Nat /\ Len(v) >= 7 /\ Len(s) \in Nat
  BY PieceBytes
<1>1. /\ w \in Seq(Byte) /\ Len(w) = Len(s) + Len(v)
      /\ \A i \in 1..Len(s) : w[i] = s[i]
      /\ \A i \in 1..Len(v) : w[Len(s) + i] = v[i]
  BY <1>0, BytesJoined
<1> HIDE DEF w
<1>2. ASSUME NEW i \in Nat, i + 8 <= Len(w)
      PROVE  Honest(SubSeq(w, i + 1, i + 8))
  <2>1. CASE i + 8 <= Len(s)
    <3>1. \A j \in 1..8 : w[i + j] = s[i + j]
      <4> TAKE j \in 1..8
      <4> DEFINE k == i + j
      <4>1. k \in 1..Len(s)
        BY <1>0, <2>1
      <4> HIDE DEF k
      <4>2. w[k] = s[k]
        BY <1>1, <4>1
      <4> QED BY <4>2 DEF k
    <3>2. SubSeq(w, i + 1, i + 8) = SubSeq(s, i + 1, i + 8)
      BY <1>1, <1>2, <2>1, <3>1, SameEight, Zenon
    <3>3. Honest(SubSeq(s, i + 1, i + 8))
      BY <2>1 DEF Clean
    <3> QED BY <3>2, <3>3, Zenon
  <2>2. CASE i + 8 > Len(s)
    <3>1. PICK u \in Pieces : \A j \in 0..6 : j < Len(s) => s[Len(s) - j] = u[Len(u) - j]
      <4>1. CASE s = <<>>
        <5>1. Len(s) = 0
          BY <4>1, EmptySeq
        <5> QED BY <5>1
      <4>2. CASE s # <<>>
        BY <4>2 DEF Ends
      <4> QED BY <4>1, <4>2
    <3> DEFINE two == u \o v
               m == Len(u) + i - Len(s)
    <3>2. u \in Seq(Byte) /\ Len(u) \in Nat /\ Len(u) >= 7
      BY PieceBytes
    <3>3. /\ two \in Seq(Byte) /\ Len(two) = Len(u) + Len(v)
          /\ \A j \in 1..Len(u) : two[j] = u[j]
          /\ \A j \in 1..Len(v) : two[Len(u) + j] = v[j]
      BY <1>0, <3>2, BytesJoined
    <3>4. Clean(two)
      BY PairClean
    <3> HIDE DEF two
    <3>5. m \in Nat /\ m + 8 <= Len(two) /\ m = Len(u) + i - Len(s)
      BY <1>0, <1>1, <1>2, <2>2, <3>2, <3>3
    <3> HIDE DEF m
    <3>6. ASSUME NEW j \in 1..8
          PROVE  w[i + j] = two[m + j]
      <4>1. CASE i + j <= Len(s)
        <5> DEFINE k == i + j
                   n == m + j
                   t == Len(s) - k
        <5>1. /\ k \in 1..Len(s) /\ n \in 1..Len(u) /\ t \in 0..6 /\ t < Len(s)
              /\ Len(s) - t = k /\ Len(u) - t = n
          BY <1>0, <2>2, <3>2, <3>5, <4>1
        <5> HIDE DEF k, n, t
        <5>2. s[Len(s) - t] = u[Len(u) - t]
          BY <3>1, <5>1
        <5>3. w[k] = s[k] /\ two[n] = u[n]
          BY <1>1, <3>3, <5>1
        <5>4. w[k] = two[n]
          BY <5>1, <5>2, <5>3
        <5> QED BY <5>4 DEF k, n
      <4>2. CASE i + j > Len(s)
        <5> DEFINE k == i + j - Len(s)
        <5>1. k \in 1..Len(v) /\ Len(s) + k = i + j /\ Len(u) + k = m + j
          BY <1>0, <1>1, <1>2, <3>2, <3>5, <4>2
        <5> HIDE DEF k
        <5>2. w[Len(s) + k] = v[k] /\ two[Len(u) + k] = v[k]
          BY <1>1, <3>3, <5>1
        <5> QED BY <5>1, <5>2
      <4> QED BY <1>0, <4>1, <4>2
    <3>7. SubSeq(w, i + 1, i + 8) = SubSeq(two, m + 1, m + 8)
      <4>1. w \in Seq(Byte) /\ two \in Seq(Byte) /\ m \in Nat /\ m + 8 <= Len(two)
        BY <1>1, <3>3, <3>5
      <4> QED BY <1>2, <3>6, <4>1, SameEight, Zenon
    <3>8. Honest(SubSeq(two, m + 1, m + 8))
      BY <3>4, <3>5 DEF Clean
    <3> QED BY <3>7, <3>8, Zenon
  <2> QED BY <1>0, <2>1, <2>2
<1>3. ASSUME NEW j \in 0..6
      PROVE  w[Len(w) - j] = v[Len(v) - j]
  <2> DEFINE k == Len(v) - j
  <2>1. k \in 1..Len(v) /\ Len(s) + k = Len(w) - j
    BY <1>0, <1>1
  <2> HIDE DEF k
  <2>2. w[Len(s) + k] = v[k]
    BY <1>1, <2>1
  <2> QED BY <2>1, <2>2 DEF k
<1>4. Clean(w)
  BY <1>2 DEF Clean
<1>5. Ends(w)
  BY <1>3 DEF Ends
<1> QED BY <1>4, <1>5 DEF w

\* The inductive invariant of OnlySentAccepted: wherever the bytes under way are cut, none but
\* the frames of the posts pass the CRC, and what is sent next goes on behind a piece.
Sound ==
    /\ frame # <<>> => Honest(frame)
    /\ Clean(buffer \o stream)
    /\ Clean(line) /\ Ends(line)
    /\ link = "up" /\ ~eof => Clean(Rest) /\ Ends(Rest)

\* Nothing is clean.
LEMMA EmptyClean == Clean(<<>>) /\ Ends(<<>>) /\ <<>> \o <<>> = <<>>
<1>1. ASSUME NEW i \in Nat, i + 8 <= Len(<<>>) PROVE FALSE
  BY <1>1
<1> QED BY <1>1 DEF Clean, Ends

\* A post sends a piece.
LEMMA SoundSend ==
    ASSUME FramesApart, BytesOK, Sound, NEW v \in Pieces, line' = line \o v,
           UNCHANGED <<stream, buffer, frame, link, eof>>
    PROVE  Sound'
<1>0. line \in Seq(Byte) /\ stream \in Seq(Byte) /\ buffer \in Seq(Byte) /\ v \in Seq(Byte)
  BY PieceBytes DEF BytesOK
<1>1. Clean(line') /\ Ends(line')
  <2>1. Clean(line \o v) /\ Ends(line \o v)
    BY <1>0, CleanMore DEF Sound
  <2> QED BY <2>1
<1>2. ASSUME link = "up", ~eof PROVE Clean(Rest') /\ Ends(Rest')
  <2>1. buffer \o stream \in Seq(Byte)
    BY <1>0, BytesJoined
  <2>2. Rest' = Rest \o v /\ Rest \in Seq(Byte)
    <3>1. (buffer \o stream) \o (line \o v) = ((buffer \o stream) \o line) \o v
      BY <1>0, <2>1, Regrouped, Zenon
    <3>2. (buffer \o stream) \o line \in Seq(Byte)
      BY <1>0, <2>1, BytesJoined
    <3> QED BY <3>1, <3>2 DEF Rest
  <2>3. Clean(Rest) /\ Ends(Rest)
    BY <1>2 DEF Sound
  <2>4. Clean(Rest \o v) /\ Ends(Rest \o v)
    BY <2>2, <2>3, CleanMore
  <2> QED BY <2>2, <2>4
<1>3. Clean(buffer' \o stream') /\ (frame' # <<>> => Honest(frame'))
  BY DEF Sound
<1> QED BY <1>1, <1>2, <1>3 DEF Sound

\* Bytes that arrive, or that nobody reads.
LEMMA SoundArrive ==
    ASSUME BytesOK, Sound, NEW n \in Nat, Arrive(n)
    PROVE  Sound'
<1> USE DEF lineVars, transportVars, clearVars
<1> DEFINE size == Min({n, Len(line)})
           a == SubSeq(line, 1, size)
           b == SubSeq(line, size + 1, Len(line))
<1>0. line \in Seq(Byte) /\ stream \in Seq(Byte) /\ buffer \in Seq(Byte)
  BY DEF BytesOK
<1>1. size \in 0..Len(line)
  <2>1. size = IF n <= Len(line) THEN n ELSE Len(line)
    BY <1>0 DEF Min
  <2> QED BY <1>0, <2>1
<1>2. /\ line' = b /\ stream' = IF link = "up" /\ ~eof THEN stream \o a ELSE stream
      /\ UNCHANGED <<eof, link, buffer, frame>>
  BY DEF Arrive
<1> HIDE DEF size
<1>3. a \in Seq(Byte) /\ b \in Seq(Byte) /\ a \o b = line
  BY <1>0, <1>1, Cut
<1> HIDE DEF a, b
<1>4. Clean(b) /\ Ends(b)
  <2>1. Clean(a \o b) /\ Ends(a \o b)
    BY <1>3 DEF Sound
  <2> QED BY <1>3, <2>1, CleanParts, EndsPart
<1>5. CASE link = "up" /\ ~eof
  <2>1. stream' = stream \o a /\ stream \o a \in Seq(Byte)
    BY <1>0, <1>2, <1>3, <1>5, BytesJoined
  <2>2. Rest' = Rest
    <3>1. buffer \o stream \in Seq(Byte)
      BY <1>0, BytesJoined
    <3>4. a \in Seq(Byte) /\ b \in Seq(Byte)
      BY <1>3
    <3>2. (buffer \o (stream \o a)) \o b = ((buffer \o stream) \o a) \o b
      BY <1>0, <3>4, Regrouped, Zenon
    <3>3. ((buffer \o stream) \o a) \o b = (buffer \o stream) \o (a \o b)
      BY <3>1, <3>4, Regrouped, Zenon
    <3> QED BY <1>2, <1>3, <2>1, <3>2, <3>3 DEF Rest
  <2>3. Clean(Rest) /\ Ends(Rest)
    BY <1>5 DEF Sound
  <2>4. Clean(buffer \o (stream \o a))
    <3>1. buffer \o (stream \o a) \in Seq(Byte)
      BY <1>0, <2>1, BytesJoined
    <3>2. Rest = (buffer \o (stream \o a)) \o b
      BY <1>2, <2>1, <2>2 DEF Rest
    <3>3. Clean((buffer \o (stream \o a)) \o b)
      BY <2>3, <3>2
    <3> QED BY <1>3, <3>1, <3>3, CleanParts
  <2>5. Clean(line') /\ Ends(line') /\ Clean(buffer' \o stream')
    BY <1>2, <1>4, <2>1, <2>4
  <2>6. Clean(Rest') /\ Ends(Rest')
    BY <2>2, <2>3
  <2> QED BY <1>2, <2>5, <2>6 DEF Sound
<1>6. CASE ~(link = "up" /\ ~eof)
  <2>1. Clean(line') /\ Ends(line') /\ Clean(buffer' \o stream')
    BY <1>2, <1>4, <1>6 DEF Sound
  <2> QED BY <1>2, <1>6, <2>1 DEF Sound
<1> QED BY <1>5, <1>6

\* A chunk is read: a frame is the first eight of the bytes that have arrived.
LEMMA SoundChunk ==
    ASSUME BytesOK, Sound, ReadChunk
    PROVE  Sound'
<1> DEFINE size == Min({8 - Len(buffer), Len(stream)})
           a == SubSeq(stream, 1, size)
           b == SubSeq(stream, size + 1, Len(stream))
           bytes == buffer \o a
<1>0. /\ line \in Seq(Byte) /\ stream \in Seq(Byte) /\ buffer \in Seq(Byte)
      /\ Len(buffer) \in Nat /\ Len(buffer) < 8 /\ Len(stream) \in Nat
  BY DEF BytesOK
<1>1. size \in 0..Len(stream) /\ size <= 8 - Len(buffer)
  <2>1. size = IF 8 - Len(buffer) <= Len(stream) THEN 8 - Len(buffer) ELSE Len(stream)
    BY <1>0 DEF Min
  <2> QED BY <1>0, <2>1
<1>2. /\ stream' = b /\ UNCHANGED <<line, eof, link>> /\ frame = <<>>
      /\ \/ Len(bytes) < 8 /\ buffer' = bytes /\ frame' = frame
         \/ ~(Len(bytes) < 8) /\ buffer' = <<>> /\ frame' = bytes
  BY DEF ReadChunk, FRAME_SIZE
<1>3. a \in Seq(Byte) /\ b \in Seq(Byte) /\ a \o b = stream /\ Len(a) = size
  <2> HIDE DEF size
  <2> QED BY <1>0, <1>1, Cut
<1> HIDE DEF a, b
<1>4. bytes \in Seq(Byte) /\ Len(bytes) = Len(buffer) + size
  BY <1>0, <1>3, BytesJoined
<1> HIDE DEF size
<1>5. bytes \o b = buffer \o stream /\ bytes \o b \in Seq(Byte) /\ b \o line \in Seq(Byte)
  <2>1. buffer \in Seq(Byte) /\ a \in Seq(Byte) /\ b \in Seq(Byte) /\ line \in Seq(Byte)
    BY <1>0, <1>3
  <2>2. (buffer \o a) \o b = buffer \o (a \o b)
    BY <2>1, Regrouped, Zenon
  <2> QED BY <1>0, <1>3, <1>4, <2>2, BytesJoined
<1> HIDE DEF bytes
<1>6. Clean(bytes \o b)
  BY <1>5 DEF Sound
<1>7. Rest = bytes \o (b \o line)
  <2>2. bytes \in Seq(Byte) /\ b \in Seq(Byte) /\ line \in Seq(Byte)
    BY <1>0, <1>3, <1>4
  <2>1. (bytes \o b) \o line = bytes \o (b \o line)
    BY <2>2, Regrouped, Zenon
  <2> QED BY <1>5, <2>1 DEF Rest
<1>8. CASE Len(bytes) < 8
  <2>1. buffer' \o stream' = bytes \o b /\ frame' = <<>>
    BY <1>2, <1>8
  <2>2. Rest' = Rest
    BY <1>2, <1>5, <2>1 DEF Rest
  <2> QED BY <1>2, <1>6, <2>1, <2>2 DEF Sound
<1>9. CASE ~(Len(bytes) < 8)
  <2>1. Len(bytes) = 8
    BY <1>0, <1>1, <1>4, <1>9
  <2>2. buffer' = <<>> /\ frame' = bytes
    BY <1>2, <1>9
  <2>3. Honest(bytes)
    <3>1. Clean(bytes)
      BY <1>3, <1>4, <1>6, CleanParts
    <3>2. SubSeq(bytes, 0 + 1, 0 + 8) = bytes
      <4>1. SubSeq(bytes, 1, Len(bytes)) = bytes
        BY <1>4, SubSeqFull
      <4>2. 0 + 1 = 1 /\ 0 + 8 = 8
        OBVIOUS
      <4> QED BY <2>1, <4>1, <4>2, Zenon
    <3>3. 0 \in Nat /\ 0 + 8 <= Len(bytes)
      BY <2>1
    <3>4. Honest(SubSeq(bytes, 0 + 1, 0 + 8))
      BY <3>1, <3>3, Zenon DEF Clean
    <3> QED BY <3>2, <3>4, Zenon
  <2>4. buffer' \o stream' = b
    <3>1. <<>> \o b = b
      BY <1>3, ConcatEmptySeq, Zenon
    <3> QED BY <1>2, <2>2, <3>1
  <2>5. Clean(b)
    BY <1>3, <1>4, <1>6, CleanParts
  <2>6. ASSUME link = "up", ~eof PROVE Clean(Rest') /\ Ends(Rest')
    <3>1. Rest' = b \o line
      BY <1>2, <2>4 DEF Rest
    <3>2. Clean(bytes \o (b \o line)) /\ Ends(bytes \o (b \o line))
      BY <1>7, <2>6 DEF Sound
    <3>3. Clean(b \o line) /\ Ends(b \o line)
      BY <1>4, <1>5, <3>2, CleanParts, EndsPart
    <3> QED BY <3>1, <3>3
  <2> QED BY <1>2, <2>2, <2>3, <2>4, <2>5, <2>6 DEF Sound
<1> QED BY <1>8, <1>9

\* Every step keeps the invariant.
LEMMA SoundStep ==
    ASSUME FramesApart, BytesOK, Sound, [Next]_transVars
    PROVE  Sound'
<1> USE DEF lineVars, transportVars, sentVars, clearVars
\* The steps that leave the bytes alone, or at most close the connection.
<1>1. ASSUME UNCHANGED <<line, stream, buffer, link>>, eof' = eof \/ eof',
             frame' = frame \/ frame' = <<>>
      PROVE  Sound'
  <2>1. Rest' = Rest
    BY <1>1 DEF Rest
  <2> QED BY <1>1, <2>1 DEF Sound
\* Those that give the connection up.
<1>2. ASSUME line' = line, eof' = eof, Drop
      PROVE  Sound'
  <2>1. link' = "down" /\ stream' = <<>> /\ buffer' = <<>> /\ frame' = <<>>
    BY <1>2 DEF Drop
  <2>2. Clean(buffer' \o stream')
    BY <2>1, EmptyClean
  <2> QED BY <1>2, <2>1, <2>2 DEF Sound
<1>3. CASE \E r \in Requests : Send(r)
  <2>1. PICK r \in Requests : Send(r)
    BY <1>3
  <2>2. RequestBytes[r] \in Pieces
    BY DEF Pieces
  <2>3. line' = line \o RequestBytes[r] /\ UNCHANGED <<stream, buffer, frame, link, eof>>
    BY <2>1 DEF Send
  <2> QED BY <2>2, <2>3, SoundSend
<1>4. CASE \E r \in Requests : SendDamaged(r)
  <2>1. PICK r \in Requests : SendDamaged(r)
    BY <1>4
  <2>2. PICK v \in DamagedBytes(RequestBytes[r]) : line' = line \o v
    BY <2>1 DEF SendDamaged
  <2>3. v \in Pieces
    BY DEF Pieces
  <2>4. UNCHANGED <<stream, buffer, frame, link, eof>>
    BY <2>1 DEF SendDamaged
  <2> QED BY <2>2, <2>3, <2>4, SoundSend
<1>5. CASE \E n \in Sizes : Arrive(n)
  BY <1>5, SoundArrive, TransportAssumption
<1>6. CASE PeerCloses
  BY <1>1, <1>6 DEF PeerCloses
<1>7. CASE Tick
  BY <1>1, <1>7 DEF Tick
<1>8. CASE connect
  <2>1. UNCHANGED <<line, frame>> /\ buffer' = <<>> /\ stream' = <<>>
    BY <1>8 DEF connect
  <2>2. Clean(buffer' \o stream') /\ buffer' \o stream' = <<>>
    BY <2>1, EmptyClean
  <2>3. Rest' = line
    <3>1. <<>> \o line = line
      BY ConcatEmptySeq, Zenon DEF BytesOK
    <3> QED BY <2>1, <2>2, <3>1 DEF Rest
  <2> QED BY <2>1, <2>2, <2>3 DEF Sound
<1>9. CASE ReadChunk
  BY <1>9, SoundChunk
<1>10. CASE handle_read_timeout
  <2>1. /\ UNCHANGED <<line, eof>>
        /\ Drop \/ UNCHANGED <<stream, link, buffer, frame>>
    BY <1>10 DEF handle_read_timeout
  <2> QED BY <1>1, <1>2, <2>1
<1>11. CASE EmptyChunk \/ Reset
  BY <1>2, <1>11 DEF EmptyChunk, Reset
<1>12. CASE InvalidCrc \/ NoAnswer
  BY <1>1, <1>12 DEF InvalidCrc, NoAnswer, Handled
<1>13. CASE AnswerFill
  <2>1. (Handled \/ Drop) /\ UNCHANGED <<line, eof>>
    BY <1>13 DEF AnswerFill
  <2> QED BY <1>1, <1>2, <2>1 DEF Handled
<1>14. CASE UNCHANGED transVars
  BY <1>1, <1>14 DEF transVars
<1> QED BY <1>3, <1>4, <1>5, <1>6, <1>7, <1>8, <1>9, <1>10, <1>11, <1>12, <1>13, <1>14 DEF Next

\* Nothing but a frame of a post gets past validate_frame_crc, wherever lost, added and changed
\* bytes, timeouts and new connections make read_frame cut: if the requests are such that two
\* pieces of them in a row hold no other eight bytes with a matching CRC (FramesApart).
THEOREM OnlySent == FramesApart => (Spec => []OnlySentAccepted)
<1>1. Init => Sound
  BY EmptyClean DEF Init, Sound
<1>2. StreamInv => BytesOK
  BY DEF StreamInv
<1>3. Sound => OnlySentAccepted
  BY DEF Sound, OnlySentAccepted, IsRequest, Honest
<1>4. ASSUME FramesApart
      PROVE  Spec => []OnlySentAccepted
  <2>1. Sound /\ BytesOK /\ [Next]_transVars => Sound'
    BY <1>4, SoundStep
  <2> QED BY <1>1, <1>2, <1>3, <2>1, StreamInit, StreamStep, PTL DEF Spec
<1> QED BY <1>4

(***************************************************************************)
(* What parse_buffer_data reads.                                           *)
(***************************************************************************)

\* Both protocols speak of the same bytes and words.
LEMMA SameBytes ==
    /\ Link!Byte = Byte /\ Link!MaxWord = MaxWord /\ Link!STX = 2 /\ Link!MinLength = 7
    /\ \A n : Link!Hi(n) = Hi(n) /\ Link!Lo(n) = Lo(n)
    /\ \A m, n : Link!Word(m, n) = Word(m, n)
    /\ \A data \in Seq(Byte) : Link!crc16(data) \in 0..MaxWord
<1>1. Link!Byte = Byte /\ Link!MaxWord = MaxWord /\ Link!STX = 2 /\ Link!MinLength = 7
  BY SMT DEF Link!Byte, Byte, Link!MaxWord, MaxWord, Link!STX, Link!MinLength
<1>2. \A n : Link!Hi(n) = Hi(n) /\ Link!Lo(n) = Lo(n)
  BY Zenon DEF Link!Hi, Hi, Link!Lo, Lo
<1>3. \A m, n : Link!Word(m, n) = Word(m, n)
  BY Zenon DEF Link!Word, Word
<1>4. ASSUME NEW data \in Seq(Byte)
      PROVE  Link!crc16(data) \in 0..MaxWord
  <2>1. \A bits : Link!NumberOf(bits) = NumberOf(bits)
    BY Zenon DEF Link!NumberOf, NumberOf, Link!Nibble, Nibble
  <2>2. PICK bits : Link!crc16(data) = Link!NumberOf(bits)
    BY Zenon DEF Link!crc16
  <2> QED BY <2>1, <2>2, CrcFits, Zenon
<1> QED BY <1>1, <1>2, <1>3, <1>4

\* Records of tag events.
Records == [date : BOOLEAN, time : BOOLEAN, type : Byte, id : Seq(Byte)]

\* The sectors of a record: DATE, TIME, and the beginning of an IDD.
DateSize(r) == IF r.date THEN 5 ELSE 0
TimeSize(r) == IF r.time THEN 4 ELSE 0
Sectors(r) == 4 + DateSize(r) + TimeSize(r)
IddSize(r) == CASE r.type = 0 -> 2 [] r.type = 3 -> 4 [] OTHER -> 3
Layout(r) == (IF r.date THEN 1 ELSE 0) + (IF r.time THEN 2 ELSE 0)
             + (IF r.id = <<>> THEN 0 ELSE 4)
TagOf(r) == IF r.id = <<>> THEN <<>> ELSE <<r.id>>

\* The bits of a layout are its sectors.
LEMMA LayoutSectors ==
    ASSUME NEW r \in Records
    PROVE  /\ Layout(r) \in 0..7
           /\ 0 \in Link!BitsOf(Layout(r)) <=> r.date
           /\ 1 \in Link!BitsOf(Layout(r)) <=> r.time
           /\ 2 \in Link!BitsOf(Layout(r)) <=> r.id # <<>>
<1>1. Layout(r) \in 0..7
  BY DEF Layout
<1>2. \A n \in 0..7 : /\ 0 \in Link!BitsOf(n) <=> n \in {1, 3, 5, 7}
                      /\ 1 \in Link!BitsOf(n) <=> n \in {2, 3, 6, 7}
                      /\ 2 \in Link!BitsOf(n) <=> n \in {4, 5, 6, 7}
  <2>1. 2^0 = 1 /\ 2^1 = 2 /\ 2^2 = 4
    OBVIOUS
  <2> TAKE n \in 0..7
  <2>2. 0 \in Link!BitsOf(n) <=> n \in {1, 3, 5, 7}
    BY <2>1, SMT DEF Link!BitsOf
  <2>3. 1 \in Link!BitsOf(n) <=> n \in {2, 3, 6, 7}
    BY <2>1, SMT DEF Link!BitsOf
  <2>4. 2 \in Link!BitsOf(n) <=> n \in {4, 5, 6, 7}
    BY <2>1, SMT DEF Link!BitsOf
  <2> QED BY <2>2, <2>3, <2>4
<1>3. /\ Layout(r) \in {1, 3, 5, 7} <=> r.date
      /\ Layout(r) \in {2, 3, 6, 7} <=> r.time
      /\ Layout(r) \in {4, 5, 6, 7} <=> r.id # <<>>
  <2>1. r.date \in BOOLEAN /\ r.time \in BOOLEAN
    BY DEF Records
  <2>2. CASE r.id = <<>>
    BY <2>1, <2>2 DEF Layout
  <2>3. CASE r.id # <<>>
    BY <2>1, <2>3 DEF Layout
  <2> QED BY <2>2, <2>3
<1> QED BY <1>1, <1>2, <1>3

\* What follows the time of a record that has an identifier.
IddBytes(r) ==
    <<r.type>> \o (CASE r.type = 0 -> <<>> [] r.type = 3 -> <<0, 0>> [] OTHER -> <<0>>)
    \o <<Len(r.id)>> \o Link!Reverse(r.id) \o <<0, 0, 0, 0, 0, 0>>

\* An identifier backwards.
LEMMA Backwards ==
    ASSUME NEW s \in Seq(Byte)
    PROVE  /\ Link!Reverse(s) \in Seq(Byte) /\ Len(Link!Reverse(s)) = Len(s)
           /\ Link!Reverse(Link!Reverse(s)) = s
<1> DEFINE n == Len(s)
           R(t) == [i \in 1..Len(t) |-> t[(Len(t) - i) + 1]]
           b == R(s)
           c == R(b)
<1>1. n \in Nat /\ \A i \in 1..n : (n - i) + 1 \in 1..n /\ (n - ((n - i) + 1)) + 1 = i
  OBVIOUS
<1>2. b \in Seq(Byte) /\ Len(b) = n /\ \A i \in 1..n : b[i] = s[(n - i) + 1]
  BY <1>1
<1>3. c \in Seq(Byte) /\ Len(c) = n /\ \A i \in 1..n : c[i] = b[(n - i) + 1]
  <2> HIDE DEF b
  <2> QED BY <1>1, <1>2
<1>4. c = s
  <2> HIDE DEF b, c
  <2>1. \A i \in 1..n : c[i] = s[i]
    BY <1>1, <1>2, <1>3
  <2> QED BY <1>3, <2>1, SeqEqual
<1>5. Link!Reverse(s) = b /\ Link!Reverse(b) = c
  BY Zenon DEF Link!Reverse
<1> HIDE DEF b, c
<1> QED BY <1>2, <1>4, <1>5

\* Where its parts are.
LEMMA IddPlaces ==
    ASSUME NEW r \in Records, Len(r.id) \in Byte
    PROVE  LET b == IddBytes(r)
               h == IddSize(r)
           IN /\ b \in Seq(Byte) /\ Len(b) = h + Len(r.id) + 6
              /\ b[1] = r.type /\ b[h] = Len(r.id)
              /\ \A j \in 1..Len(r.id) : b[h + j] = Link!Reverse(r.id)[j]
<1> DEFINE z == CASE r.type = 0 -> <<>> [] r.type = 3 -> <<0, 0>> [] OTHER -> <<0>>
           l == Len(r.id)
           v == Link!Reverse(r.id)
           h == IddSize(r)
           b1 == <<r.type>> \o z
           b2 == b1 \o <<l>>
           b3 == b2 \o v
           b == b3 \o <<0, 0, 0, 0, 0, 0>>
<1>1. r.type \in Byte /\ r.id \in Seq(Byte) /\ l \in Byte /\ l \in Nat /\ 0 \in Byte
  BY ByteRange DEF Records
<1>2. v \in Seq(Byte) /\ Len(v) = l
  BY <1>1, Backwards
<1>3. z \in Seq(Byte) /\ Len(z) + 2 = h
  <2>1. CASE r.type = 0
    <3>1. z = <<>> /\ h = 2
      BY <2>1 DEF IddSize
    <3> QED BY <3>1, EmptySeq
  <2>2. CASE r.type = 3
    <3>1. z = <<0, 0>> /\ h = 4
      BY <2>2 DEF IddSize
    <3> QED BY <1>1, <3>1
  <2>3. CASE r.type # 0 /\ r.type # 3
    <3>1. z = <<0>> /\ h = 3
      BY <2>3 DEF IddSize
    <3> QED BY <1>1, <3>1, SMTT(20)
  <2> QED BY <2>1, <2>2, <2>3
<1>4. IddBytes(r) = b
  BY Zenon DEF IddBytes
<1> HIDE DEF z, v, h, l
<1>5. b1 \in Seq(Byte) /\ Len(b1) = h - 1 /\ b1[1] = r.type
  <2> DEFINE k == <<r.type>>
  <2>1. k \in Seq(Byte) /\ Len(k) = 1 /\ k[1] = r.type
    BY <1>1
  <2> HIDE DEF k
  <2>2. /\ k \o z \in Seq(Byte) /\ Len(k \o z) = Len(k) + Len(z)
        /\ \A i \in 1..Len(k) : (k \o z)[i] = k[i]
    BY <1>3, <2>1, BytesJoined
  <2>3. Len(z) \in Nat
    BY <1>3
  <2>4. k \o z \in Seq(Byte) /\ Len(k \o z) = h - 1 /\ (k \o z)[1] = r.type
    BY <1>3, <2>1, <2>2, <2>3
  <2> QED BY <2>4 DEF k
<1>6. h \in Nat /\ h >= 2
  <2>1. Len(z) \in Nat
    BY <1>3
  <2> QED BY <1>3, <2>1
<1> HIDE DEF b1
<1>7. b2 \in Seq(Byte) /\ Len(b2) = h /\ b2[1] = r.type /\ b2[h] = l
  <2> DEFINE k == <<l>>
  <2>1. k \in Seq(Byte) /\ Len(k) = 1 /\ k[1] = l
    BY <1>1
  <2> HIDE DEF k
  <2>2. /\ b1 \o k \in Seq(Byte) /\ Len(b1 \o k) = Len(b1) + Len(k)
        /\ \A i \in 1..Len(b1) : (b1 \o k)[i] = b1[i]
        /\ \A i \in 1..Len(k) : (b1 \o k)[Len(b1) + i] = k[i]
    BY <1>5, <2>1, BytesJoined
  <2>3. 1 \in 1..Len(b1) /\ 1 \in 1..Len(k) /\ Len(b1) + 1 = h
    BY <1>5, <1>6, <2>1
  <2>4. (b1 \o k)[1] = b1[1] /\ (b1 \o k)[Len(b1) + 1] = k[1] /\ Len(b1 \o k) = h
    BY <2>1, <2>2, <2>3
  <2> QED BY <1>5, <2>1, <2>2, <2>3, <2>4 DEF k
<1> HIDE DEF b2
<1>8. /\ b3 \in Seq(Byte) /\ Len(b3) = h + l /\ b3[1] = r.type /\ b3[h] = l
      /\ \A j \in 1..l : b3[h + j] = v[j]
  <2>1. /\ b2 \o v \in Seq(Byte) /\ Len(b2 \o v) = Len(b2) + Len(v)
        /\ \A i \in 1..Len(b2) : (b2 \o v)[i] = b2[i]
        /\ \A i \in 1..Len(v) : (b2 \o v)[Len(b2) + i] = v[i]
    BY <1>2, <1>7, BytesJoined
  <2>2. 1 \in 1..h /\ h \in 1..h
    BY <1>6
  <2> HIDE DEF b3
  <2> QED BY <1>2, <1>7, <2>1, <2>2 DEF b3
<1> HIDE DEF b3
<1>9. /\ b \in Seq(Byte) /\ Len(b) = h + l + 6 /\ b[1] = r.type /\ b[h] = l
      /\ \A j \in 1..l : b[h + j] = v[j]
  <2> DEFINE k == <<0, 0, 0, 0, 0, 0>>
  <2>1. k \in Seq(Byte) /\ Len(k) = 6
    BY <1>1
  <2> HIDE DEF k
  <2>2. /\ b3 \o k \in Seq(Byte) /\ Len(b3 \o k) = Len(b3) + Len(k)
        /\ \A i \in 1..Len(b3) : (b3 \o k)[i] = b3[i]
    BY <1>8, <2>1, BytesJoined
  <2>3. 1 \in 1..(h + l) /\ h \in 1..(h + l) /\ \A j \in 1..l : h + j \in 1..(h + l)
    BY <1>1, <1>6 DEF l
  <2>4. (b3 \o k)[1] = r.type /\ (b3 \o k)[h] = l /\ \A j \in 1..l : (b3 \o k)[h + j] = v[j]
    BY <1>8, <2>2, <2>3
  <2> QED BY <1>8, <2>1, <2>2, <2>4 DEF k
<1> HIDE DEF b
<1> QED BY <1>4, <1>9 DEF h, l, v

\* A time stamp.
LEMMA StampBytes ==
    ASSUME NEW flag \in BOOLEAN, NEW n \in Nat
    PROVE  LET d == Link!Stamp(flag, n)
           IN d \in Seq(Byte) /\ Len(d) = IF flag THEN n ELSE 0
<1>1. CASE flag
  <2> DEFINE d == [i \in 1..n |-> 2]
  <2>1. d \in Seq(Byte) /\ Len(d) = n
    BY ByteRange
  <2>2. Link!Stamp(flag, n) = d
    BY <1>1, Zenon DEF Link!Stamp, Link!STX
  <2> HIDE DEF d
  <2> QED BY <1>1, <2>1, <2>2
<1>2. CASE ~flag
  <2>1. Link!Stamp(flag, n) = <<>>
    BY <1>2, Zenon DEF Link!Stamp
  <2>2. Len(<<>>) = 0
    OBVIOUS
  <2> QED BY <1>2, <2>1, <2>2, EmptySeq
<1> QED BY <1>1, <1>2

\* Where the parts of a record are.
LEMMA RecordPlaces ==
    ASSUME NEW r \in Records, Len(r.id) \in Byte
    PROVE  LET b == Link!RecordBytes(r)
               q == Sectors(r)
               x == IddBytes(r)
           IN /\ b \in Seq(Byte) /\ q \in Nat /\ q >= 4 /\ q <= Len(b) /\ b[4] = Layout(r)
              /\ r.id = <<>> => Len(b) = q
              /\ r.id # <<>> => /\ Len(b) = q + Len(x)
                                /\ \A j \in 1..Len(x) : b[q + j] = x[j]
<1> DEFINE a == <<0, 0, 0, Layout(r)>>
           d == Link!Stamp(r.date, 5)
           t == Link!Stamp(r.time, 4)
           y == IddBytes(r)
           x == IF r.id = <<>> THEN <<>> ELSE y
           q == Sectors(r)
           b1 == a \o d
           b2 == b1 \o t
           b == b2 \o x
<1>1. r.date \in BOOLEAN /\ r.time \in BOOLEAN
  BY DEF Records
<1>2. a \in Seq(Byte) /\ Len(a) = 4 /\ a[4] = Layout(r)
  <2>1. Layout(r) \in Byte /\ 0 \in Byte
    <3>1. Layout(r) \in 0..7
      BY LayoutSectors
    <3> QED BY <3>1, ByteRange
  <2> DEFINE l == Layout(r)
  <2> HIDE DEF l
  <2>2. l \in Byte
    BY <2>1 DEF l
  <2>3. LET s == <<0, 0, 0, l>> IN s \in Seq(Byte) /\ Len(s) = 4 /\ s[4] = l
    BY <2>1, <2>2
  <2> QED BY <2>3 DEF l
<1>3. d \in Seq(Byte) /\ Len(d) = DateSize(r)
  <2>1. 5 \in Nat
    OBVIOUS
  <2> QED BY <1>1, <2>1, StampBytes, Zenon DEF DateSize
<1>4. t \in Seq(Byte) /\ Len(t) = TimeSize(r)
  <2>1. 4 \in Nat
    OBVIOUS
  <2> QED BY <1>1, <2>1, StampBytes, Zenon DEF TimeSize
<1>5. y \in Seq(Byte)
  BY IddPlaces
<1>6. x \in Seq(Byte) /\ (r.id = <<>> => Len(x) = 0) /\ (r.id # <<>> => x = y)
  <2> HIDE DEF y
  <2>1. Len(<<>>) = 0 /\ <<>> \in Seq(Byte)
    BY EmptySeq
  <2> QED BY <1>5, <2>1
<1>7. Link!RecordBytes(r) = b
  BY Zenon DEF Link!RecordBytes, Layout, IddBytes
<1>8. q = 4 + Len(d) + Len(t) /\ Len(d) \in Nat /\ Len(t) \in Nat
  BY <1>3, <1>4, SMTT(20) DEF Sectors
<1> HIDE DEF a, d, t, x, y, q
<1>9. b1 \in Seq(Byte) /\ Len(b1) = 4 + Len(d) /\ b1[4] = Layout(r)
  <2>1. /\ b1 \in Seq(Byte) /\ Len(b1) = Len(a) + Len(d)
        /\ \A i \in 1..Len(a) : b1[i] = a[i]
    BY <1>2, <1>3, BytesJoined
  <2> HIDE DEF b1
  <2> QED BY <1>2, <2>1
<1> HIDE DEF b1
<1>10. b2 \in Seq(Byte) /\ Len(b2) = q /\ b2[4] = Layout(r)
  <2>1. /\ b2 \in Seq(Byte) /\ Len(b2) = Len(b1) + Len(t)
        /\ \A i \in 1..Len(b1) : b2[i] = b1[i]
    BY <1>4, <1>9, BytesJoined
  <2> HIDE DEF b2
  <2> QED BY <1>8, <1>9, <2>1
<1> HIDE DEF b2
<1>11. /\ b \in Seq(Byte) /\ Len(b) = q + Len(x) /\ b[4] = Layout(r)
       /\ \A i \in 1..Len(x) : b[q + i] = x[i]
  <2>1. /\ b \in Seq(Byte) /\ Len(b) = Len(b2) + Len(x)
        /\ \A i \in 1..Len(b2) : b[i] = b2[i]
        /\ \A i \in 1..Len(x) : b[Len(b2) + i] = x[i]
    BY <1>6, <1>10, BytesJoined
  <2> HIDE DEF b
  <2> QED BY <1>8, <1>10, <2>1
<1> HIDE DEF b
<1>12. Len(x) \in Nat
  BY <1>6
<1>13. /\ b \in Seq(Byte) /\ q \in Nat /\ q >= 4 /\ q <= Len(b) /\ b[4] = Layout(r)
       /\ r.id = <<>> => Len(b) = q
       /\ r.id # <<>> => Len(b) = q + Len(y) /\ \A j \in 1..Len(y) : b[q + j] = y[j]
  <2>1. q \in Nat /\ q >= 4 /\ q <= Len(b)
    BY <1>8, <1>11, <1>12
  <2>2. CASE r.id = <<>>
    <3>1. Len(b) = q
      BY <1>6, <1>8, <1>11, <2>2
    <3> QED BY <1>11, <2>1, <2>2, <3>1
  <2>3. CASE r.id # <<>>
    <3>1. x = y
      BY <1>6, <2>3
    <3> QED BY <1>11, <2>1, <2>3, <3>1
  <2> QED BY <2>2, <2>3
<1> QED BY <1>7, <1>13, Zenon DEF q, y

\* What comes of an identifier whose bytes are at a place, as far as there are any.
LEMMA IddRead ==
    ASSUME NEW r \in Records, Len(r.id) \in Byte,
           NEW data \in Seq(Byte), NEW p \in 0..Len(data),
           \A i \in 1..Len(IddBytes(r)) : p + i <= Len(data) => data[p + i] = IddBytes(r)[i]
    PROVE  Link!Idd(data, p) =
              IF p + Len(IddBytes(r)) <= Len(data) /\ r.type \in {0, 3, 9}
              THEN Link!Parsed(p + Len(IddBytes(r)), <<r.id>>) ELSE Link!Break
<1> DEFINE x == IddBytes(r)
           h == IddSize(r)
           l == Len(r.id)
           v == Link!Reverse(r.id)
           n == Len(data)
           known == r.type \in {0, 3, 9}
           right == p + Len(x) <= n /\ known
           tag == <<Link!Reverse(SubSeq(data, p + h + 1, p + h + l))>>
<1>1. /\ x \in Seq(Byte) /\ Len(x) = h + l + 6 /\ x[1] = r.type /\ x[h] = l
      /\ \A j \in 1..l : x[h + j] = v[j]
  BY IddPlaces
<1>2. l \in Nat /\ r.id \in Seq(Byte) /\ n \in Nat /\ p \in Nat /\ p <= n
  BY DEF Records
<1>3. h \in {2, 3, 4}
  BY DEF IddSize
<1>4. \A i \in 1..Len(x) : p + i <= n => data[p + i] = x[i]
  OBVIOUS
<1>5. /\ 1 \in 1..Len(x) /\ h \in 1..Len(x) /\ \A j \in 1..l : h + j \in 1..Len(x)
  <2>1. Len(x) = h + l + 6
    BY <1>1
  <2> HIDE DEF x, h, l
  <2> QED BY <1>2, <1>3, <2>1
<1>6. /\ DOMAIN Link!IddHeader = {0, 3, 9}
      /\ known => Link!IddHeader[r.type] = h
  BY DEF Link!IddHeader, IddSize
<1> HIDE DEF x, h, l, v, n
<1>7. CASE p + 1 > n
  <2>1. ~Link!Has(data, p + 1) /\ ~right
    BY <1>1, <1>2, <1>3, <1>7 DEF Link!Has, n
  <2>2. Link!Idd(data, p) = Link!Break
    BY <2>1, Zenon DEF Link!Idd
  <2> QED BY <2>1, <2>2 DEF n, x
<1>8. CASE p + 1 <= n
  <2>1. Link!Has(data, p + 1) /\ data[p + 1] = r.type
    BY <1>1, <1>2, <1>4, <1>5, <1>8 DEF Link!Has, n
  <2>2. CASE ~known
    <3>1. r.type \notin DOMAIN Link!IddHeader
      BY <1>6, <2>2
    <3>2. Link!Idd(data, p) = Link!Break
      BY <2>1, <3>1, Zenon DEF Link!Idd
    <3> QED BY <2>2, <3>2
  <2>3. CASE known
    <3> DEFINE behind == p + h + data[p + h]
    <3>1. Link!Idd(data, p) =
            IF ~Link!Has(data, p + h + 1) \/ ~Link!Has(data, behind + 6) THEN Link!Break
            ELSE Link!Parsed(behind + 6, <<Link!Reverse(SubSeq(data, p + h + 1, behind))>>)
      <4>1. r.type \in DOMAIN Link!IddHeader /\ Link!IddHeader[r.type] = h
        BY <1>6, <2>3
      <4> QED BY <2>1, <4>1, Zenon DEF Link!Idd
    <3>2. CASE p + h + 1 > n
      <4>1. ~Link!Has(data, p + h + 1) /\ ~right
        BY <1>1, <1>2, <1>3, <3>2 DEF Link!Has, n
      <4> HIDE DEF behind
      <4> QED BY <3>1, <4>1 DEF n, x
    <3>3. CASE p + h + 1 <= n
      <4>1. data[p + h] = l /\ Link!Has(data, p + h + 1)
        <5>1. p + h <= n
          BY <1>2, <1>3, <3>3
        <5> QED BY <1>1, <1>4, <1>5, <3>3, <5>1 DEF Link!Has, n
      <4>2. behind = p + h + l
        BY <4>1
      <4>3. behind + 6 = p + Len(x)
        BY <1>1, <1>2, <1>3, <4>2
      <4>4. CASE p + Len(x) > n
        <5>1. ~Link!Has(data, behind + 6) /\ ~right
          BY <1>1, <1>2, <1>3, <4>3, <4>4 DEF Link!Has, n
        <5> HIDE DEF behind
        <5> QED BY <3>1, <5>1 DEF n, x
      <4>5. CASE p + Len(x) <= n
        <5>1. Link!Has(data, behind + 6)
          BY <4>3, <4>5 DEF Link!Has, n
        <5> DEFINE m == p + h
                   c == SubSeq(data, m + 1, m + l)
        <5>2. m \in Nat /\ m + l <= n /\ \A j \in 1..l : p + (h + j) = m + j /\ m + j <= n
          <6>1. Len(x) = h + l + 6
            BY <1>1
          <6>2. p + h \in Nat /\ (p + h) + l <= n
            BY <1>2, <1>3, <4>5, <6>1
          <6>3. \A j \in 1..l : p + (h + j) = (p + h) + j /\ (p + h) + j <= n
            BY <1>2, <1>3, <6>2
          <6> QED BY <6>2, <6>3
        <5>3. c \in Seq(Byte) /\ Len(c) = l /\ \A j \in 1..l : c[j] = data[m + j]
          <6> HIDE DEF m
          <6> QED BY <1>2, <5>2, Part DEF n
        <5>4. v \in Seq(Byte) /\ Len(v) = l /\ Link!Reverse(v) = r.id
          BY <1>2, Backwards DEF v, l
        <5>5. \A j \in 1..l : c[j] = v[j]
          <6> HIDE DEF c, m
          <6> TAKE j \in 1..l
          <6> DEFINE i == h + j
          <6>1. i \in 1..Len(x) /\ p + i = m + j /\ p + i <= n
            BY <1>5, <5>2
          <6>2. x[i] = v[j]
            BY <1>1
          <6> HIDE DEF i
          <6>3. data[p + i] = x[i]
            BY <1>4, <6>1
          <6> QED BY <5>3, <6>1, <6>2, <6>3
        <5>6. c = v
          <6> HIDE DEF c
          <6> QED BY <5>3, <5>4, <5>5, SeqEqual
        <5>7. Link!Reverse(SubSeq(data, p + h + 1, behind)) = r.id
          <6> HIDE DEF behind
          <6> QED BY <4>2, <5>4, <5>6, Zenon
        <5> HIDE DEF behind, c, m
        <5> QED BY <2>3, <3>1, <4>1, <4>3, <4>5, <5>1, <5>7 DEF n, x
      <4> QED BY <1>1, <1>2, <1>3, <4>4, <4>5
    <3> QED BY <1>2, <1>3, <3>2, <3>3
  <2> QED BY <2>2, <2>3
<1> QED BY <1>2, <1>7, <1>8

\* What comes of a record whose bytes are at a place, as far as there are any.
LEMMA RecordRead ==
    ASSUME NEW r \in Records, Len(r.id) \in Byte,
           NEW data \in Seq(Byte), NEW pos \in 0..Len(data),
           \A i \in 1..Len(Link!RecordBytes(r)) :
              pos + i <= Len(data) => data[pos + i] = Link!RecordBytes(r)[i]
    PROVE  Link!Record(data, pos) =
              IF /\ pos + Len(Link!RecordBytes(r)) <= Len(data)
                 /\ r.id # <<>> => r.type \in {0, 3, 9}
              THEN Link!Parsed(pos + Len(Link!RecordBytes(r)), TagOf(r)) ELSE Link!Break
<1> DEFINE b == Link!RecordBytes(r)
           q == Sectors(r)
           x == IddBytes(r)
           n == Len(data)
           known == r.id # <<>> => r.type \in {0, 3, 9}
           right == pos + Len(b) <= n /\ known
<1>1. /\ b \in Seq(Byte) /\ q \in Nat /\ q >= 4 /\ q <= Len(b) /\ b[4] = Layout(r)
      /\ r.id = <<>> => Len(b) = q
      /\ r.id # <<>> => /\ Len(b) = q + Len(x)
                        /\ \A j \in 1..Len(x) : b[q + j] = x[j]
  BY RecordPlaces
<1>2. n \in Nat /\ pos \in Nat /\ pos <= n /\ Len(b) \in Nat
  BY <1>1
<1>3. \A i \in 1..Len(b) : pos + i <= n => data[pos + i] = b[i]
  OBVIOUS
<1>4. SUFFICES Link!Record(data, pos) =
                  IF right THEN Link!Parsed(pos + Len(b), TagOf(r)) ELSE Link!Break
  OBVIOUS
<1>5. x \in Seq(Byte)
  BY IddPlaces
<1> HIDE DEF b, n, x
<1>6. CASE pos + 4 > n
  <2>1. ~Link!Has(data, pos + 4) /\ ~right
    BY <1>1, <1>2, <1>6 DEF Link!Has, n
  <2>2. Link!Record(data, pos) = Link!Break
    BY <2>1, Zenon DEF Link!Record
  <2> QED BY <2>1, <2>2
<1>7. CASE pos + 4 <= n
  <2>1. Link!Has(data, pos + 4) /\ data[pos + 4] = Layout(r)
    <3>1. 4 \in 1..Len(b)
      BY <1>1, <1>2
    <3> QED BY <1>1, <1>3, <1>7, <3>1 DEF Link!Has, n
  <2> DEFINE layout == Link!BitsOf(Layout(r))
             sectors == pos + 4 + (IF 0 \in layout THEN 5 ELSE 0)
                                + (IF 1 \in layout THEN 4 ELSE 0)
  <2>2. Link!Record(data, pos) =
          IF ~Link!Has(data, sectors) THEN Link!Break
          ELSE IF 2 \in layout THEN Link!Idd(data, sectors) ELSE Link!Parsed(sectors, <<>>)
    BY <2>1, Zenon DEF Link!Record, Link!LayoutBits
  <2>3. /\ 0 \in layout <=> r.date
        /\ 1 \in layout <=> r.time
        /\ 2 \in layout <=> r.id # <<>>
    BY LayoutSectors
  <2> HIDE DEF layout
  <2>4. sectors = pos + q
    BY <1>2, <2>3 DEF Sectors, DateSize, TimeSize
  <2> HIDE DEF sectors, q
  <2>5. CASE sectors > n
    <3>1. ~Link!Has(data, sectors) /\ ~right
      BY <1>1, <1>2, <2>4, <2>5 DEF Link!Has, n
    <3> QED BY <2>2, <3>1
  <2>6. CASE sectors <= n /\ r.id = <<>>
    <3>1. Link!Has(data, sectors) /\ right /\ sectors = pos + Len(b)
      BY <1>1, <1>2, <2>4, <2>6 DEF Link!Has, n
    <3>2. TagOf(r) = <<>>
      BY <2>6 DEF TagOf
    <3> QED BY <2>2, <2>3, <2>6, <3>1, <3>2
  <2>7. CASE sectors <= n /\ r.id # <<>>
    <3>1. Link!Has(data, sectors) /\ sectors \in 0..Len(data)
      BY <1>1, <1>2, <2>4, <2>7 DEF Link!Has, n
    <3>2. \A i \in 1..Len(x) : sectors + i <= Len(data) => data[sectors + i] = x[i]
      <4> SUFFICES ASSUME NEW i \in 1..Len(x), sectors + i <= n
                   PROVE  data[sectors + i] = x[i]
        BY DEF n
      <4> DEFINE j == q + i
      <4>1. j \in 1..Len(b) /\ pos + j = sectors + i /\ pos + j <= n
        BY <1>1, <1>2, <1>5, <2>4, <2>7
      <4>2. b[j] = x[i]
        BY <1>1, <2>7
      <4> HIDE DEF j
      <4>3. data[pos + j] = b[j]
        BY <1>3, <4>1
      <4> QED BY <4>1, <4>2, <4>3
    <3>3. Link!Idd(data, sectors) =
             IF sectors + Len(x) <= Len(data) /\ r.type \in {0, 3, 9}
             THEN Link!Parsed(sectors + Len(x), <<r.id>>) ELSE Link!Break
      BY <3>1, <3>2, IddRead DEF x
    <3>4. sectors + Len(x) = pos + Len(b)
      <4>1. Len(b) = q + Len(x) /\ q \in Nat /\ Len(x) \in Nat
        BY <1>1, <1>5, <2>7
      <4> QED BY <1>2, <2>4, <4>1
    <3>5. TagOf(r) = <<r.id>>
      BY <2>7 DEF TagOf
    <3> QED BY <2>2, <2>3, <2>7, <3>1, <3>3, <3>4, <3>5 DEF n
  <2> QED BY <1>1, <1>2, <2>4, <2>5, <2>6, <2>7
<1> QED BY <1>2, <1>6, <1>7

\* The records of an event: their bytes, and the identifiers each has.
RecordSeq(rs) == [i \in DOMAIN rs |-> Link!RecordBytes(rs[i])]
TagSeq(rs) == [i \in DOMAIN rs |-> TagOf(rs[i])]
WellFormed(rs) == rs \in Seq(Records) /\ \A i \in 1..Len(rs) : Len(rs[i].id) \in Byte

\* The position behind the first n of them, and the tags they have.
Behind(rs, n) == 4 + Len(FlattenFirst(RecordSeq(rs), n))
TagsTo(rs, n) == FlattenFirst(TagSeq(rs), n)

\* Whether the parser gets past the first n of them in a payload of a length.
Passable(rs, size, n) ==
    Behind(rs, n) <= size /\ \A i \in 1..n : rs[i].id # <<>> => rs[i].type \in {0, 3, 9}

\* They are sequences of sequences.
LEMMA RecordSeqs ==
    ASSUME NEW rs, WellFormed(rs)
    PROVE  /\ RecordSeq(rs) \in Seq(Seq(Byte)) /\ Len(RecordSeq(rs)) = Len(rs)
           /\ TagSeq(rs) \in Seq(Seq(Seq(Byte))) /\ Len(TagSeq(rs)) = Len(rs)
           /\ \A i \in 1..Len(rs) : /\ RecordSeq(rs)[i] = Link!RecordBytes(rs[i])
                                    /\ TagSeq(rs)[i] = TagOf(rs[i])
                                    /\ RecordSeq(rs)[i] \in Seq(Byte)
                                    /\ TagSeq(rs)[i] \in Seq(Seq(Byte))
<1> DEFINE n == Len(rs)
           b == [i \in 1..n |-> Link!RecordBytes(rs[i])]
           t == [i \in 1..n |-> TagOf(rs[i])]
<1>1. /\ n \in Nat /\ DOMAIN rs = 1..n
      /\ \A i \in 1..n : rs[i] \in Records /\ Len(rs[i].id) \in Byte
  BY ElementOfSeq DEF WellFormed
<1>2. \A i \in 1..n : Link!RecordBytes(rs[i]) \in Seq(Byte)
  BY <1>1, RecordPlaces
<1>3. \A i \in 1..n : TagOf(rs[i]) \in Seq(Seq(Byte))
  <2> TAKE i \in 1..n
  <2>1. rs[i].id \in Seq(Byte)
    BY <1>1 DEF Records
  <2>2. <<rs[i].id>> \in Seq(Seq(Byte)) /\ <<>> \in Seq(Seq(Byte))
    BY <2>1
  <2> QED BY <2>2 DEF TagOf
<1>4. b \in Seq(Seq(Byte)) /\ Len(b) = n
  BY <1>1, <1>2
<1>5. t \in Seq(Seq(Seq(Byte))) /\ Len(t) = n
  BY <1>1, <1>3
<1>6. RecordSeq(rs) = b /\ TagSeq(rs) = t
  BY <1>1, Zenon DEF RecordSeq, TagSeq
<1>7. \A i \in 1..n : b[i] = Link!RecordBytes(rs[i]) /\ t[i] = TagOf(rs[i])
  OBVIOUS
<1> HIDE DEF b, t
<1> QED BY <1>2, <1>3, <1>4, <1>5, <1>6, <1>7

\* One record further.
LEMMA OneFurther ==
    ASSUME NEW rs, WellFormed(rs), NEW i \in 0..(Len(rs) - 1)
    PROVE  /\ Behind(rs, i) \in Nat /\ 4 <= Behind(rs, i)
           /\ Behind(rs, i + 1) = Behind(rs, i) + Len(Link!RecordBytes(rs[i + 1]))
           /\ Len(Link!RecordBytes(rs[i + 1])) \in Nat
           /\ TagsTo(rs, i + 1) = TagsTo(rs, i) \o TagOf(rs[i + 1])
<1> DEFINE b == RecordSeq(rs)
           t == TagSeq(rs)
           k == i + 1
<1>1. /\ b \in Seq(Seq(Byte)) /\ Len(b) = Len(rs) /\ t \in Seq(Seq(Seq(Byte)))
      /\ Len(t) = Len(rs)
      /\ \A j \in 1..Len(rs) : /\ b[j] = Link!RecordBytes(rs[j]) /\ t[j] = TagOf(rs[j])
                               /\ b[j] \in Seq(Byte)
  BY RecordSeqs
<1>2. i \in 0..(Len(b) - 1) /\ i \in 0..(Len(t) - 1) /\ i \in 0..Len(b) /\ k \in 1..Len(rs)
  <2>1. Len(rs) \in Nat
    BY DEF WellFormed
  <2> HIDE DEF b, t
  <2> QED BY <1>1, <2>1
<1>3. b[k] = Link!RecordBytes(rs[k]) /\ t[k] = TagOf(rs[k]) /\ b[k] \in Seq(Byte)
  <2> HIDE DEF b, t, k
  <2> QED BY <1>1, <1>2
<1>4. /\ FlattenFirst(b, i + 1) = FlattenFirst(b, i) \o b[i + 1]
      /\ FlattenFirst(b, i) \in Seq(Byte)
  <2> HIDE DEF b
  <2> QED BY <1>1, <1>2, FlattenMore
<1>5. FlattenFirst(t, i + 1) = FlattenFirst(t, i) \o t[i + 1]
  <2> HIDE DEF t
  <2> QED BY <1>1, <1>2, FlattenMore
<1> DEFINE c == FlattenFirst(b, i)
           d == b[k]
<1>6. Len(c \o d) = Len(c) + Len(d) /\ Len(c) \in Nat /\ Len(d) \in Nat
  <2>1. c \in Seq(Byte) /\ d \in Seq(Byte)
    BY <1>3, <1>4
  <2> HIDE DEF c, d
  <2> QED BY <2>1, Joined
<1>7. Behind(rs, i) = 4 + Len(c) /\ Behind(rs, i + 1) = 4 + Len(c \o d)
  BY <1>4, Zenon DEF Behind
<1>8. TagsTo(rs, i + 1) = TagsTo(rs, i) \o TagOf(rs[i + 1])
  BY <1>3, <1>5, Zenon DEF TagsTo
<1>9. d = Link!RecordBytes(rs[i + 1])
  BY <1>3
<1> HIDE DEF c, d
<1> QED BY <1>6, <1>7, <1>8, <1>9, SMTT(20)

\* The loop over the records of a tag event: it reads those it can get past.
LEMMA TagsRead ==
    ASSUME NEW rs, WellFormed(rs), NEW data \in Seq(Byte), Len(data) >= 4,
           Link!U16(data, 2) = Len(rs),
           \A i \in 1..Len(FlattenSeq(RecordSeq(rs))) :
              4 + i <= Len(data) => data[4 + i] = FlattenSeq(RecordSeq(rs))[i],
           NEW n \in 0..Len(rs), Passable(rs, Len(data), n),
           n = Len(rs) \/ ~Passable(rs, Len(data), n + 1)
    PROVE  Link!ReadTags(data) = TagsTo(rs, n)
<1> DEFINE N == Len(rs)
           b == RecordSeq(rs)
           P(i) == Behind(rs, i)
           known(r) == r.id # <<>> => r.type \in {0, 3, 9}
           L(i) == Len(Link!RecordBytes(rs[i]))
<1>1. N \in Nat /\ n \in Nat /\ n <= N /\ Len(data) \in Nat
  BY DEF WellFormed
<1>2. /\ b \in Seq(Seq(Byte)) /\ Len(b) = N
      /\ \A i \in 1..N : b[i] = Link!RecordBytes(rs[i])
  BY RecordSeqs
<1>3. \A i \in 0..(N - 1) :
          /\ P(i) \in Nat /\ 4 <= P(i) /\ P(i + 1) = P(i) + L(i + 1) /\ L(i + 1) \in Nat
          /\ TagsTo(rs, i + 1) = TagsTo(rs, i) \o TagOf(rs[i + 1])
  BY OneFurther
<1>4. P(0) = 4 /\ TagsTo(rs, 0) = <<>>
  <2>1. FlattenFirst(b, 0) = <<>> /\ FlattenFirst(TagSeq(rs), 0) = <<>>
    BY RecordSeqs, FlattenMore
  <2>2. Len(<<>>) = 0 /\ 4 + 0 = 4
    OBVIOUS
  <2> QED BY <2>1, <2>2, Zenon DEF Behind, TagsTo
\* A record is read where it is, if the parser gets there.
<1>5. ASSUME NEW i \in 0..(N - 1), P(i) <= Len(data)
      PROVE  Link!Record(data, P(i)) =
                IF P(i + 1) <= Len(data) /\ known(rs[i + 1])
                THEN Link!Parsed(P(i + 1), TagOf(rs[i + 1])) ELSE Link!Break
  <2> DEFINE k == i + 1
             r == rs[k]
             p == P(i)
             u == Link!RecordBytes(r)
             f == FlattenSeq(b)
             m == Len(FlattenFirst(b, i))
  <2>1. k \in 1..N /\ i \in 0..(Len(b) - 1)
    BY <1>1, <1>2
  <2>2. r \in Records /\ Len(r.id) \in Byte
    <3> HIDE DEF k
    <3>1. rs \in Seq(Records) /\ \A j \in 1..Len(rs) : Len(rs[j].id) \in Byte
      BY DEF WellFormed
    <3> QED BY <2>1, <3>1, ElementOfSeq
  <2>3. p \in 0..Len(data) /\ P(k) = p + Len(u) /\ p = 4 + m
    <3>1. P(i) \in Nat /\ P(i + 1) = P(i) + L(i + 1)
      BY <1>3
    <3>2. P(i) \in 0..Len(data)
      BY <1>1, <1>5, <3>1
    <3>3. P(i) = 4 + m
      BY DEF Behind
    <3> QED BY <3>1, <3>2, <3>3
  <2>4. /\ m + Len(b[k]) <= Len(f) /\ m \in Nat
        /\ \A j \in 1..Len(b[k]) : f[m + j] = b[k][j]
    <3>1. /\ m + Len(b[i + 1]) = Len(FlattenFirst(b, i + 1))
          /\ Len(FlattenFirst(b, i + 1)) <= Len(f)
          /\ \A j \in 1..Len(b[i + 1]) : f[m + j] = b[i + 1][j]
      <4> HIDE DEF b
      <4> QED BY <1>2, <2>1, FlattenPlaces
    <3>2. m \in Nat
      <4>1. i \in 0..Len(b)
        BY <1>1, <1>2
      <4> HIDE DEF b
      <4>2. FlattenFirst(b, i) \in Seq(Byte)
        BY <1>2, <4>1, FlattenMore
      <4> QED BY <4>2
    <3> HIDE DEF f, b
    <3> QED BY <3>1, <3>2
  <2>5. b[k] = u
    <3> HIDE DEF k
    <3> QED BY <1>2, <2>1
  <2>6. Len(f) \in Nat /\ Len(u) \in Nat
    <3>1. f \in Seq(Byte)
      <4>1. Len(b) \in 0..Len(b)
        BY <1>1, <1>2
      <4> HIDE DEF b
      <4>2. FlattenFirst(b, Len(b)) \in Seq(Byte) /\ FlattenFirst(b, Len(b)) = FlattenSeq(b)
        BY <1>2, <4>1, FlattenMore
      <4> QED BY <4>2
    <3> HIDE DEF f
    <3>2. Len(u) \in Nat
      BY <1>3
    <3> QED BY <3>1, <3>2
  <2>7. \A j \in 1..Len(f) : 4 + j <= Len(data) => data[4 + j] = f[j]
    OBVIOUS
  <2> HIDE DEF p, u, r, k, f, m, b
  <2>8. \A j \in 1..Len(u) : p + j <= Len(data) => data[p + j] = u[j]
    <3> SUFFICES ASSUME NEW j \in 1..Len(u), p + j <= Len(data)
                 PROVE  data[p + j] = u[j]
      OBVIOUS
    <3> DEFINE h == m + j
    <3>1. h \in 1..Len(f) /\ 4 + h = p + j /\ 4 + h <= Len(data)
      BY <2>3, <2>4, <2>5, <2>6
    <3>2. f[h] = u[j]
      BY <2>4, <2>5
    <3> HIDE DEF h
    <3>3. data[4 + h] = f[h]
      BY <2>7, <3>1
    <3> QED BY <3>1, <3>2, <3>3
  <2>9. Link!Record(data, p) =
           IF p + Len(u) <= Len(data) /\ (r.id # <<>> => r.type \in {0, 3, 9})
           THEN Link!Parsed(p + Len(u), TagOf(r)) ELSE Link!Break
    BY <2>2, <2>3, <2>8, RecordRead DEF u
  <2> QED BY <2>3, <2>9 DEF p, r, k
<1>6. /\ P(n) <= Len(data) /\ \A i \in 1..n : known(rs[i])
      /\ n < N => P(n + 1) > Len(data) \/ ~known(rs[n + 1])
  <2>1. P(n) <= Len(data) /\ \A i \in 1..n : known(rs[i])
    BY DEF Passable
  <2>2. ASSUME n < N, known(rs[n + 1]), P(n + 1) <= Len(data) PROVE FALSE
    <3>1. \A i \in 1..(n + 1) : i \in 1..n \/ i = n + 1
      BY <1>1
    <3>2. \A i \in 1..(n + 1) : known(rs[i])
      BY <2>1, <2>2, <3>1
    <3>3. Passable(rs, Len(data), n + 1)
      BY <2>2, <3>2 DEF Passable
    <3>4. n # Len(rs)
      BY <2>2
    <3> QED BY <3>3, <3>4
  <2>3. n < N => n \in 0..(N - 1) /\ P(n + 1) = P(n) + L(n + 1) /\ P(n) \in Nat /\ L(n + 1) \in Nat
    BY <1>1, <1>3
  <2> QED BY <1>1, <2>1, <2>2, <2>3
\* The positions grow.
<1>7. \A i \in 0..n : P(i) \in Nat /\ P(i) <= Len(data)
  <2> DEFINE T == {j \in Nat : n - j >= 0 => P(n - j) \in Nat /\ P(n - j) <= Len(data)}
  <2> HIDE DEF P, N, L
  <2>1. 0 \in T
    <3>1. n - 0 = n
      BY <1>1
    <3>2. P(n) \in Nat
      <4>1. CASE n = 0
        BY <1>4, <4>1
      <4>2. CASE n # 0
        <5>1. n - 1 \in 0..(N - 1) /\ (n - 1) + 1 = n
          BY <1>1, <4>2
        <5>2. LET i == n - 1
              IN P(i) \in Nat /\ P(i + 1) = P(i) + L(i + 1) /\ L(i + 1) \in Nat
          BY <1>3, <5>1
        <5> QED BY <5>1, <5>2
      <4> QED BY <4>1, <4>2
    <3> QED BY <1>6, <3>1, <3>2
  <2>2. ASSUME NEW j \in Nat, j \in T PROVE j + 1 \in T
    <3> SUFFICES ASSUME n - (j + 1) >= 0
                 PROVE  P(n - (j + 1)) \in Nat /\ P(n - (j + 1)) <= Len(data)
      OBVIOUS
    <3> DEFINE i == n - (j + 1)
    <3>1. i \in 0..(N - 1) /\ i + 1 = n - j /\ n - j >= 0
      BY <1>1
    <3>2. P(n - j) \in Nat /\ P(n - j) <= Len(data)
      BY <2>2, <3>1
    <3> HIDE DEF i
    <3>3. P(i) \in Nat /\ P(i + 1) = P(i) + L(i + 1) /\ L(i + 1) \in Nat
      BY <1>3, <3>1
    <3>4. P(i) \in Nat /\ P(i) <= Len(data)
      BY <1>1, <3>1, <3>2, <3>3
    <3> QED BY <3>4 DEF i
  <2>3. Nat \subseteq T
    <3> HIDE DEF T
    <3> QED BY <2>1, <2>2, SetInduction
  <2> TAKE i \in 0..n
  <2> DEFINE j == n - i
  <2>4. j \in Nat /\ n - j = i /\ n - j >= 0
    BY <1>1
  <2> HIDE DEF j
  <2>5. n - j >= 0 => P(n - j) \in Nat /\ P(n - j) <= Len(data)
    BY <2>3, <2>4
  <2> QED BY <2>4, <2>5
<1> DEFINE Step(was) ==
             LET next == Link!Record(data, was.pos)
             IN IF was.broken THEN was
                ELSE IF next.broken THEN [was EXCEPT !.broken = TRUE]
                ELSE Link!Parsed(next.pos, was.tags \o next.tags)
           Body(h, i) == IF i = 0 THEN Link!Parsed(4, <<>>) ELSE Step(h[i - 1])
           Unrolled(h) == h = [i \in 0..Link!U16(data, 2) |-> Body(h, i)]
           after == CHOOSE h : Unrolled(h)
           At(i) == [broken |-> FALSE, pos |-> P(i), tags |-> TagsTo(rs, i)]
           Stopped == [At(n) EXCEPT !.broken = TRUE]
           f == [i \in 0..N |-> IF i <= n THEN At(i) ELSE Stopped]
<1>8. ASSUME NEW i \in 0..(N - 1), i < n
      PROVE  Step(At(i)) = At(i + 1)
  <2>1. i \in 0..n /\ i + 1 \in 0..n /\ i + 1 \in 1..n
    BY <1>1, <1>8
  <2>2. P(i) <= Len(data) /\ P(i + 1) <= Len(data)
    <3> HIDE DEF P
    <3> QED BY <1>7, <2>1
  <2>3. known(rs[i + 1])
    BY <1>6, <2>1
  <2>4. Link!Record(data, P(i)) = Link!Parsed(P(i + 1), TagOf(rs[i + 1]))
    <3> HIDE DEF P, known
    <3> QED BY <1>5, <2>2, <2>3
  <2>5. TagsTo(rs, i + 1) = TagsTo(rs, i) \o TagOf(rs[i + 1])
    BY <1>3
  <2> DEFINE was == At(i)
             next == Link!Record(data, was.pos)
  <2>6. was.broken = FALSE /\ was.pos = P(i) /\ was.tags = TagsTo(rs, i)
    OBVIOUS
  <2> HIDE DEF was
  <2>7. next = Link!Parsed(P(i + 1), TagOf(rs[i + 1]))
    <3> HIDE DEF P
    <3> QED BY <2>4, <2>6
  <2> HIDE DEF next
  <2>8. next.broken = FALSE /\ next.pos = P(i + 1) /\ next.tags = TagOf(rs[i + 1])
    <3> HIDE DEF P
    <3> QED BY <2>7 DEF Link!Parsed
  <2>9. Step(was) = Link!Parsed(P(i + 1), TagsTo(rs, i) \o TagOf(rs[i + 1]))
    <3> HIDE DEF P
    <3> QED BY <2>6, <2>8, Zenon DEF next
  <2>10. Step(was) = At(i + 1)
    <3> HIDE DEF P
    <3> QED BY <2>5, <2>9, Zenon DEF Link!Parsed
  <2> QED BY <2>10 DEF was
<1>9. ASSUME n < N
      PROVE  Step(At(n)) = Stopped
  <2>1. n \in 0..(N - 1)
    BY <1>1, <1>9
  <2>2. Link!Record(data, P(n)) = Link!Break
    <3> HIDE DEF P, known
    <3>1. n \in 0..n /\ n + 1 \in Nat
      BY <1>1
    <3>2. ~(P(n + 1) <= Len(data) /\ known(rs[n + 1]))
      <4>1. P(n + 1) \in Nat
        BY <1>3, <2>1
      <4> QED BY <1>1, <1>6, <1>9, <4>1
    <3> QED BY <1>5, <1>6, <2>1, <3>2
  <2> DEFINE was == At(n)
             next == Link!Record(data, was.pos)
  <2>3. /\ was.broken = FALSE /\ was.pos = P(n)
        /\ [was EXCEPT !.broken = TRUE] = Stopped
    OBVIOUS
  <2> HIDE DEF was
  <2>4. next.broken = TRUE
    <3>1. next = Link!Break
      <4> HIDE DEF P
      <4> QED BY <2>2, <2>3
    <3> QED BY <3>1 DEF Link!Break
  <2>5. Step(was) = Stopped
    <3> HIDE DEF P, Stopped
    <3> QED BY <2>3, <2>4, Zenon
  <2> QED BY <2>5 DEF was
<1>10. Step(Stopped) = Stopped /\ Stopped.tags = TagsTo(rs, n)
  <2>1. Stopped.broken = TRUE /\ Stopped.tags = TagsTo(rs, n)
    <3> HIDE DEF P
    <3> QED OBVIOUS
  <2> HIDE DEF Stopped
  <2> QED BY <2>1
<1>11. At(0) = Link!Parsed(4, <<>>)
  BY <1>4, Zenon DEF Link!Parsed
<1> HIDE DEF P, Step, known, L
<1>12. ASSUME NEW i \in 0..N PROVE f[i] = Body(f, i)
  <2> HIDE DEF At, Stopped
  <2>1. CASE i = 0
    <3>1. f[0] = At(0)
      BY <1>1
    <3> QED BY <1>11, <2>1, <3>1
  <2>2. CASE i # 0 /\ i <= n
    <3> DEFINE j == i - 1
    <3>1. j \in 0..(N - 1) /\ j < n /\ j + 1 = i /\ j <= n /\ j \in 0..N
      BY <1>1, <2>2, SMTT(20)
    <3>2. f[i] = At(i) /\ f[j] = At(j)
      <4> HIDE DEF j
      <4> QED BY <2>2, <3>1
    <3>3. Step(At(j)) = At(j + 1)
      <4> HIDE DEF j
      <4> QED BY <1>8, <3>1
    <3> HIDE DEF f
    <3> QED BY <2>2, <3>1, <3>2, <3>3
  <2>3. CASE i = n + 1
    <3>1. n \in 0..N /\ i - 1 = n /\ n < N /\ i # 0 /\ ~(i <= n) /\ n <= n
      BY <1>1, <2>3
    <3>2. f[i] = Stopped /\ f[n] = At(n)
      BY <3>1
    <3> HIDE DEF f
    <3> QED BY <1>9, <3>1, <3>2
  <2>4. CASE i > n + 1
    <3>1. i - 1 \in 0..N /\ ~(i - 1 <= n) /\ i # 0 /\ ~(i <= n)
      BY <1>1, <2>4
    <3>2. f[i] = Stopped /\ f[i - 1] = Stopped
      BY <3>1
    <3> HIDE DEF f
    <3> QED BY <1>10, <3>1, <3>2
  <2> QED BY <1>1, <2>1, <2>2, <2>3, <2>4
<1>13. Unrolled(f)
  <2> HIDE DEF Body, At, Stopped
  <2> QED BY <1>12
<1>14. Unrolled(after)
  <2> HIDE DEF Unrolled, f
  <2> QED BY <1>13
<1>15. \A i \in 0..N : after[i] = Body(after, i)
  <2> HIDE DEF Body, after
  <2> QED BY <1>14
<1>16. Nat \subseteq {i \in Nat : i \in 0..N => after[i] = f[i]}
  <2> DEFINE T == {i \in Nat : i \in 0..N => after[i] = f[i]}
  <2> HIDE DEF after, f, N
  <2>1. 0 \in T
    <3>1. 0 \in 0..N
      BY <1>1
    <3> QED BY <1>12, <1>15, <3>1
  <2>2. ASSUME NEW i \in Nat, i \in T PROVE i + 1 \in T
    <3> SUFFICES ASSUME i + 1 \in 0..N PROVE after[i + 1] = f[i + 1]
      OBVIOUS
    <3> DEFINE j == i + 1
    <3>1. j \in 0..N /\ i \in 0..N /\ j # 0 /\ j - 1 = i
      BY <1>1
    <3>2. after[i] = f[i]
      BY <2>2, <3>1
    <3> HIDE DEF j
    <3>3. after[j] = Step(after[j - 1]) /\ f[j] = Step(f[j - 1])
      BY <1>12, <1>15, <3>1
    <3>4. after[j] = f[j]
      BY <3>1, <3>2, <3>3
    <3> QED BY <3>4 DEF j
  <2>3. Nat \subseteq T
    <3> HIDE DEF T
    <3> QED BY <2>1, <2>2, SetInduction
  <2> QED BY <2>3
<1>17. after[N].tags = TagsTo(rs, n)
  <2>1. after[N] = f[N] /\ N \in 0..N
    <3> HIDE DEF after, f, N
    <3> QED BY <1>1, <1>16
  <2>2. f[N] = IF N <= n THEN At(N) ELSE Stopped
    <3> HIDE DEF At, Stopped, N
    <3> QED BY <2>1
  <2>3. CASE N <= n
    <3>1. N = n
      BY <1>1, <2>3
    <3> HIDE DEF after, f, N
    <3> QED BY <2>1, <2>2, <2>3, <3>1
  <2>4. CASE ~(N <= n)
    <3> HIDE DEF after, f, N, Stopped
    <3> QED BY <1>10, <2>1, <2>2, <2>4
  <2> QED BY <2>3, <2>4
<1>18. Link!ReadTags(data) = after[Link!U16(data, 2)].tags
  <2>1. Link!Has(data, 4)
    BY DEF Link!Has
  <2> QED BY <2>1, Zenon DEF Link!ReadTags, Step
<1> HIDE DEF after, N
<1> QED BY <1>17, <1>18 DEF N

\* Sequences are flattened alike in both instances.
LEMMA SameFlat ==
    \A s : Link!FlattenSeq(s) = FlattenSeq(s)
BY Zenon DEF Link!FlattenSeq, FlattenSeq

\* The bytes and the identifiers of the first records.
LEMMA RecordsSpelt ==
    ASSUME NEW rs, WellFormed(rs), NEW n \in 0..Len(rs)
    PROVE  /\ Link!RecordsBytes(rs) = FlattenSeq(RecordSeq(rs))
           /\ FlattenSeq(RecordSeq(rs)) \in Seq(Byte)
           /\ 4 + Len(Link!RecordsBytes(SubSeq(rs, 1, n))) = Behind(rs, n)
           /\ Link!Identifiers(SubSeq(rs, 1, n)) = TagsTo(rs, n)
           /\ Behind(rs, n) \in Nat
<1> DEFINE c == SubSeq(rs, 1, n)
           b == RecordSeq(rs)
           t == TagSeq(rs)
<1>1. rs \in Seq(Records) /\ \A i \in 1..Len(rs) : Len(rs[i].id) \in Byte
  BY DEF WellFormed
<1>2. c \in Seq(Records) /\ Len(c) = n /\ \A i \in 1..n : c[i] = rs[i]
  BY <1>1, Cut
<1>3. n \in Nat /\ \A i \in 1..n : i \in 1..Len(rs)
  BY <1>1
<1> HIDE DEF c
<1>4. WellFormed(c)
  BY <1>1, <1>2, <1>3 DEF WellFormed
<1>5. /\ b \in Seq(Seq(Byte)) /\ Len(b) = Len(rs)
      /\ t \in Seq(Seq(Seq(Byte))) /\ Len(t) = Len(rs)
      /\ \A i \in 1..Len(rs) : b[i] = Link!RecordBytes(rs[i]) /\ t[i] = TagOf(rs[i])
  BY RecordSeqs
<1>6. /\ RecordSeq(c) \in Seq(Seq(Byte)) /\ Len(RecordSeq(c)) = n
      /\ TagSeq(c) \in Seq(Seq(Seq(Byte))) /\ Len(TagSeq(c)) = n
      /\ \A i \in 1..n : RecordSeq(c)[i] = Link!RecordBytes(c[i]) /\ TagSeq(c)[i] = TagOf(c[i])
  BY <1>2, <1>4, RecordSeqs
<1> HIDE DEF b, t
<1>7. RecordSeq(c) = SubSeq(b, 1, n)
  <2> DEFINE x == RecordSeq(c)
             y == SubSeq(b, 1, n)
  <2>1. y \in Seq(Seq(Byte)) /\ Len(y) = n /\ \A i \in 1..n : y[i] = b[i]
    BY <1>5, Cut
  <2>2. \A i \in 1..n : x[i] = b[i]
    BY <1>2, <1>3, <1>5, <1>6
  <2> HIDE DEF x, y
  <2>3. x \in Seq(Seq(Byte)) /\ Len(x) = Len(y) /\ \A i \in 1..Len(x) : x[i] = y[i]
    BY <1>6, <2>1, <2>2 DEF x
  <2>4. x = y
    BY <2>1, <2>3, SeqEqual
  <2> QED BY <2>4 DEF x, y
<1>8. TagSeq(c) = SubSeq(t, 1, n)
  <2> DEFINE x == TagSeq(c)
             y == SubSeq(t, 1, n)
  <2>1. y \in Seq(Seq(Seq(Byte))) /\ Len(y) = n /\ \A i \in 1..n : y[i] = t[i]
    BY <1>5, Cut
  <2>2. \A i \in 1..n : x[i] = t[i]
    BY <1>2, <1>3, <1>5, <1>6
  <2> HIDE DEF x, y
  <2>3. x \in Seq(Seq(Seq(Byte))) /\ Len(x) = Len(y) /\ \A i \in 1..Len(x) : x[i] = y[i]
    BY <1>6, <2>1, <2>2 DEF x
  <2>4. x = y
    BY <2>1, <2>3, SeqEqual
  <2> QED BY <2>4 DEF x, y
<1>9. \A s : Link!RecordsBytes(s) = FlattenSeq(RecordSeq(s))
  BY SameFlat, Zenon DEF Link!RecordsBytes, RecordSeq
<1>10. \A s : Link!Identifiers(s) = FlattenSeq(TagSeq(s))
  BY SameFlat, Zenon DEF Link!Identifiers, TagSeq, TagOf
<1>11. 4 + Len(Link!RecordsBytes(c)) = Behind(rs, n) /\ Link!Identifiers(c) = TagsTo(rs, n)
  BY <1>7, <1>8, <1>9, <1>10, Zenon DEF Behind, TagsTo, FlattenFirst, b, t
<1>12. FlattenSeq(b) \in Seq(Byte) /\ FlattenFirst(b, n) \in Seq(Byte)
  <2>1. Len(b) \in 0..Len(b) /\ n \in 0..Len(b)
    BY <1>5
  <2>2. FlattenFirst(b, Len(b)) \in Seq(Byte) /\ FlattenFirst(b, n) \in Seq(Byte)
        /\ FlattenFirst(b, Len(b)) = FlattenSeq(b)
    BY <1>5, <2>1, FlattenMore
  <2> QED BY <2>2
<1>13. Behind(rs, n) \in Nat
  <2> DEFINE x == FlattenFirst(b, n)
  <2>1. x \in Seq(Byte) /\ Behind(rs, n) = 4 + Len(x)
    BY <1>12, Zenon DEF Behind, b
  <2> HIDE DEF x
  <2> QED BY <2>1
<1> QED BY <1>9, <1>11, <1>12, <1>13 DEF b, c

\* The inputs of an event: eight bytes each.
InputSeq(inputs) ==
    [i \in DOMAIN inputs |-> <<0, 0, 0, 0, 0, 0, 0, IF inputs[i] THEN 1 ELSE 6>>]

\* Where the last of them are.
LEMMA InputsSpelt ==
    ASSUME NEW inputs \in Seq(BOOLEAN)
    PROVE  LET f == Link!InputBytes(inputs)
           IN /\ f \in Seq(Byte) /\ Len(f) = 8 * Len(inputs)
              /\ \A i \in 1..Len(inputs) : f[8 * i] = IF inputs[i] THEN 1 ELSE 6
<1> DEFINE N == Len(inputs)
           u(i) == <<0, 0, 0, 0, 0, 0, 0, IF inputs[i] THEN 1 ELSE 6>>
           b == [i \in 1..N |-> u(i)]
           f == FlattenSeq(b)
<1>1. N \in Nat /\ DOMAIN inputs = 1..N
  OBVIOUS
<1>2. \A i \in 1..N : /\ u(i) \in Seq(Byte) /\ Len(u(i)) = 8
                      /\ u(i)[8] = IF inputs[i] THEN 1 ELSE 6
  <2> TAKE i \in 1..N
  <2> DEFINE v == IF inputs[i] THEN 1 ELSE 6
  <2>1. v \in Byte /\ 0 \in Byte
    BY ByteRange
  <2> HIDE DEF v
  <2>2. LET w == <<0, 0, 0, 0, 0, 0, 0, v>> IN w \in Seq(Byte) /\ Len(w) = 8 /\ w[8] = v
    BY <2>1
  <2> QED BY <2>2 DEF v
<1>3. /\ b \in Seq(Seq(Byte)) /\ Len(b) = N
      /\ \A i \in 1..N : b[i] = u(i)
  <2> HIDE DEF u
  <2> QED BY <1>1, <1>2
<1>4. Link!InputBytes(inputs) = f
  <2>1. b = InputSeq(inputs)
    BY <1>1, Zenon DEF InputSeq
  <2>2. Link!InputBytes(inputs) = FlattenSeq(InputSeq(inputs))
    BY SameFlat, Zenon DEF Link!InputBytes, InputSeq
  <2> QED BY <2>1, <2>2, Zenon
<1> HIDE DEF b, u
<1> DEFINE T == {n \in Nat : n <= N => Len(FlattenFirst(b, n)) = 8 * n}
<1>5. 0 \in T
  <2>1. FlattenFirst(b, 0) = <<>>
    BY <1>3, FlattenMore
  <2> QED BY <2>1
<1>6. ASSUME NEW n \in Nat, n \in T PROVE n + 1 \in T
  <2> SUFFICES ASSUME n + 1 <= N PROVE Len(FlattenFirst(b, n + 1)) = 8 * (n + 1)
    OBVIOUS
  <2>1. n \in 0..(Len(b) - 1) /\ n + 1 \in 1..N /\ Len(FlattenFirst(b, n)) = 8 * n
    BY <1>1, <1>3, <1>6
  <2>2. Len(FlattenFirst(b, n)) + Len(b[n + 1]) = Len(FlattenFirst(b, n + 1))
    BY <1>3, <2>1, FlattenPlaces
  <2>3. Len(b[n + 1]) = 8
    <3> DEFINE k == n + 1
    <3>1. k \in 1..N
      BY <2>1
    <3> HIDE DEF k
    <3>2. Len(b[k]) = 8
      BY <1>2, <1>3, <3>1
    <3> QED BY <3>2 DEF k
  <2> QED BY <2>1, <2>2, <2>3
<1>7. Nat \subseteq T
  <2> HIDE DEF T
  <2> QED BY <1>5, <1>6, SetInduction
<1>8. f \in Seq(Byte) /\ Len(f) = 8 * N
  <2>1. Len(b) \in 0..Len(b) /\ N <= N
    BY <1>1, <1>3
  <2>2. FlattenFirst(b, Len(b)) \in Seq(Byte) /\ FlattenFirst(b, Len(b)) = f
    BY <1>3, <2>1, FlattenMore
  <2>3. Len(FlattenFirst(b, N)) = 8 * N
    BY <1>1, <1>7, <2>1
  <2> HIDE DEF f
  <2> QED BY <1>3, <2>2, <2>3
<1>9. ASSUME NEW i \in 1..N PROVE f[8 * i] = IF inputs[i] THEN 1 ELSE 6
  <2> DEFINE n == i - 1
             m == Len(FlattenFirst(b, n))
  <2>1. n \in Nat /\ n <= N /\ n + 1 = i /\ n \in 0..(Len(b) - 1)
    BY <1>1, <1>3
  <2> HIDE DEF n
  <2>2. m = 8 * n
    BY <1>7, <2>1
  <2>3. \A j \in 1..Len(b[n + 1]) : f[m + j] = b[n + 1][j]
    BY <1>3, <2>1, FlattenPlaces
  <2>4. b[i] = u(i) /\ Len(u(i)) = 8 /\ u(i)[8] = IF inputs[i] THEN 1 ELSE 6
    BY <1>2, <1>3
  <2> HIDE DEF m, f
  <2>5. 8 \in 1..Len(b[n + 1]) /\ m + 8 = 8 * i
    <3>1. Len(b[n + 1]) = 8
      BY <2>1, <2>4
    <3> QED BY <2>1, <2>2, <3>1
  <2>6. f[m + 8] = b[n + 1][8]
    BY <2>3, <2>5
  <2> QED BY <2>1, <2>4, <2>5, <2>6
<1> HIDE DEF f
<1> QED BY <1>4, <1>8, <1>9

\* What is supposed of an event.
LEMMA EventFields ==
    ASSUME NEW e \in Link!AllEvents
    PROVE  /\ e.command \in Byte /\ e.status \in Byte
           /\ WellFormed(e.records) /\ Len(e.records) \in Byte
           /\ e.inputs \in Seq(BOOLEAN) /\ Len(e.inputs) \in Byte
           /\ e.cut \in 0..Len(Link!FullPayload(e)) /\ Len(Link!FullPayload(e)) + 6 \in 0..MaxWord
BY EventsAssumption, SameBytes, Zenon DEF Link!LinkAssumption, WellFormed, Records

\* The whole payload of an event, part by part.
LEMMA FullPayloads ==
    ASSUME NEW e \in Link!AllEvents
    PROVE  LET full == Link!FullPayload(e)
               flat == FlattenSeq(RecordSeq(e.records))
           IN /\ full \in Seq(Byte) /\ Len(full) >= 2
              /\ full[1] = e.command /\ full[2] = e.status
              /\ e.command = Link!TagEvent =>
                    /\ Len(full) = 4 + Len(flat) /\ full[3] = 0 /\ full[4] = Len(e.records)
                    /\ \A i \in 1..Len(flat) : full[4 + i] = flat[i]
              /\ e.command = Link!InputEvent =>
                    /\ Len(full) = 8 + 8 * Len(e.inputs)
                    /\ full[3] = 0 /\ full[4] = Len(e.inputs) /\ full[7] = 16 /\ full[8] = 0
                    /\ \A i \in 1..Len(e.inputs) :
                          full[8 * i + 8] = IF e.inputs[i] THEN 1 ELSE 6
<1> DEFINE x == CASE e.command = Link!TagEvent ->
                         <<0, Len(e.records)>> \o Link!RecordsBytes(e.records)
                  [] e.command = Link!InputEvent ->
                         <<0, Len(e.inputs), 0, 0, 16, 0>> \o Link!InputBytes(e.inputs)
                  [] OTHER -> <<>>
           h == <<e.command, e.status>>
           full == Link!FullPayload(e)
           flat == FlattenSeq(RecordSeq(e.records))
           bits == Link!InputBytes(e.inputs)
           tagged == e.command = Link!TagEvent
           input == e.command = Link!InputEvent
<1>1. /\ e.command \in Byte /\ e.status \in Byte /\ 0 \in Byte /\ 16 \in Byte
      /\ Len(e.records) \in Byte /\ Len(e.inputs) \in Byte /\ Len(e.inputs) \in Nat
  BY EventFields, ByteRange
<1>2. full = h \o x
  BY Zenon DEF Link!FullPayload
<1>3. h \in Seq(Byte) /\ Len(h) = 2 /\ h[1] = e.command /\ h[2] = e.status
  BY <1>1
<1> HIDE DEF full, h
<1>4. /\ x \in Seq(Byte)
      /\ tagged => /\ Len(x) = 2 + Len(flat) /\ x[1] = 0 /\ x[2] = Len(e.records)
                   /\ \A i \in 1..Len(flat) : x[2 + i] = flat[i]
      /\ input => /\ Len(x) = 6 + 8 * Len(e.inputs) /\ x[1] = 0 /\ x[2] = Len(e.inputs)
                  /\ x[5] = 16 /\ x[6] = 0
                  /\ \A i \in 1..Len(e.inputs) :
                        x[6 + 8 * i] = IF e.inputs[i] THEN 1 ELSE 6
  <2>1. CASE tagged
    <3> DEFINE a == <<0, Len(e.records)>>
    <3>1. a \in Seq(Byte) /\ Len(a) = 2 /\ a[1] = 0 /\ a[2] = Len(e.records)
      BY <1>1
    <3>2. flat \in Seq(Byte) /\ Link!RecordsBytes(e.records) = flat
      <4>1. 0 \in 0..Len(e.records)
        BY <1>1, ByteRange
      <4> QED BY <4>1, EventFields, RecordsSpelt
    <3>3. x = a \o flat /\ ~input
      <4>1. x = a \o Link!RecordsBytes(e.records) /\ ~input
        BY <2>1, SMT DEF Link!TagEvent, Link!InputEvent
      <4> QED BY <3>2, <4>1, Zenon
    <3> HIDE DEF a, x, flat, input
    <3>4. /\ a \o flat \in Seq(Byte) /\ Len(a \o flat) = Len(a) + Len(flat)
          /\ \A i \in 1..Len(a) : (a \o flat)[i] = a[i]
          /\ \A i \in 1..Len(flat) : (a \o flat)[Len(a) + i] = flat[i]
      BY <3>1, <3>2, BytesJoined
    <3>5. 1 \in 1..2 /\ 2 \in 1..2
      OBVIOUS
    <3> HIDE DEF tagged
    <3> QED BY <2>1, <3>1, <3>3, <3>4, <3>5
  <2>2. CASE input
    <3> DEFINE a == <<0, Len(e.inputs), 0, 0, 16, 0>>
    <3>1. /\ a \in Seq(Byte) /\ Len(a) = 6 /\ a[1] = 0 /\ a[2] = Len(e.inputs)
          /\ a[5] = 16 /\ a[6] = 0
      BY <1>1
    <3>2. /\ bits \in Seq(Byte) /\ Len(bits) = 8 * Len(e.inputs)
          /\ \A i \in 1..Len(e.inputs) : bits[8 * i] = IF e.inputs[i] THEN 1 ELSE 6
      BY EventFields, InputsSpelt
    <3>3. x = a \o bits /\ ~tagged
      BY <2>2, SMT DEF Link!TagEvent, Link!InputEvent
    <3> HIDE DEF a, x, bits, tagged
    <3>4. /\ a \o bits \in Seq(Byte) /\ Len(a \o bits) = Len(a) + Len(bits)
          /\ \A i \in 1..Len(a) : (a \o bits)[i] = a[i]
          /\ \A i \in 1..Len(bits) : (a \o bits)[Len(a) + i] = bits[i]
      BY <3>1, <3>2, BytesJoined
    <3>5. ASSUME NEW i \in 1..Len(e.inputs)
          PROVE  (a \o bits)[6 + 8 * i] = IF e.inputs[i] THEN 1 ELSE 6
      <4> DEFINE k == 8 * i
      <4>1. k \in 1..Len(bits)
        BY <1>1, <3>2
      <4>2. bits[k] = IF e.inputs[i] THEN 1 ELSE 6
        BY <3>2
      <4> HIDE DEF k
      <4>3. (a \o bits)[Len(a) + k] = bits[k]
        BY <3>4, <4>1
      <4> QED BY <3>1, <4>2, <4>3 DEF k
    <3>6. 1 \in 1..6 /\ 2 \in 1..6 /\ 5 \in 1..6 /\ 6 \in 1..6
      OBVIOUS
    <3>7. /\ Len(a \o bits) = 6 + 8 * Len(e.inputs) /\ (a \o bits)[1] = 0
          /\ (a \o bits)[2] = Len(e.inputs) /\ (a \o bits)[5] = 16 /\ (a \o bits)[6] = 0
      BY <3>1, <3>2, <3>4, <3>6
    <3> HIDE DEF input
    <3> QED BY <3>3, <3>4, <3>5, <3>7
  <2>3. CASE ~tagged /\ ~input
    <3>1. x = <<>>
      BY <2>3
    <3> QED BY <2>3, <3>1, EmptySeq
  <2> HIDE DEF tagged, input
  <2> QED BY <2>1, <2>2, <2>3
<1> HIDE DEF x, flat, tagged, input
<1>5. /\ h \o x \in Seq(Byte) /\ Len(h \o x) = Len(h) + Len(x)
      /\ \A i \in 1..Len(h) : (h \o x)[i] = h[i]
      /\ \A i \in 1..Len(x) : (h \o x)[Len(h) + i] = x[i]
  BY <1>3, <1>4, BytesJoined
<1>6. Len(x) \in Nat
  BY <1>4
<1>7. full \in Seq(Byte) /\ Len(full) = 2 + Len(x) /\ full[1] = e.command /\ full[2] = e.status
  <2>1. 1 \in 1..2 /\ 2 \in 1..2
    OBVIOUS
  <2> QED BY <1>2, <1>3, <1>5, <2>1
<1>8. \A i \in 1..Len(x) : full[2 + i] = x[i]
  BY <1>2, <1>3, <1>5
<1>9. tagged => /\ Len(full) = 4 + Len(flat) /\ full[3] = 0 /\ full[4] = Len(e.records)
                /\ \A i \in 1..Len(flat) : full[4 + i] = flat[i]
  <2> SUFFICES ASSUME tagged
               PROVE  /\ Len(full) = 4 + Len(flat) /\ full[3] = 0 /\ full[4] = Len(e.records)
                      /\ \A i \in 1..Len(flat) : full[4 + i] = flat[i]
    OBVIOUS
  <2>1. /\ Len(x) = 2 + Len(flat) /\ x[1] = 0 /\ x[2] = Len(e.records)
        /\ \A i \in 1..Len(flat) : x[2 + i] = flat[i]
    BY <1>4
  <2>2. Len(flat) \in Nat
    <3>1. 0 \in 0..Len(e.records)
      BY <1>1, ByteRange
    <3>2. flat \in Seq(Byte)
      BY <3>1, EventFields, RecordsSpelt DEF flat
    <3> QED BY <3>2
  <2>3. full[3] = 0 /\ full[4] = Len(e.records)
    <3>1. 1 \in 1..Len(x) /\ 2 \in 1..Len(x) /\ 2 + 1 = 3 /\ 2 + 2 = 4
      BY <2>1, <2>2
    <3>2. full[2 + 1] = x[1] /\ full[2 + 2] = x[2]
      BY <1>8, <3>1
    <3> QED BY <2>1, <3>1, <3>2
  <2>4. ASSUME NEW i \in 1..Len(flat) PROVE full[4 + i] = flat[i]
    <3> DEFINE k == 2 + i
    <3>1. k \in 1..Len(x) /\ 2 + k = 4 + i /\ x[k] = flat[i]
      BY <2>1, <2>2
    <3> HIDE DEF k
    <3>2. full[2 + k] = x[k]
      BY <1>8, <3>1
    <3> QED BY <3>1, <3>2
  <2> QED BY <1>7, <2>1, <2>2, <2>3, <2>4
<1>10. input => /\ Len(full) = 8 + 8 * Len(e.inputs)
                /\ full[3] = 0 /\ full[4] = Len(e.inputs) /\ full[7] = 16 /\ full[8] = 0
                /\ \A i \in 1..Len(e.inputs) :
                      full[8 * i + 8] = IF e.inputs[i] THEN 1 ELSE 6
  <2> SUFFICES ASSUME input
               PROVE  /\ Len(full) = 8 + 8 * Len(e.inputs)
                      /\ full[3] = 0 /\ full[4] = Len(e.inputs) /\ full[7] = 16 /\ full[8] = 0
                      /\ \A i \in 1..Len(e.inputs) :
                            full[8 * i + 8] = IF e.inputs[i] THEN 1 ELSE 6
    OBVIOUS
  <2>1. /\ Len(x) = 6 + 8 * Len(e.inputs) /\ x[1] = 0 /\ x[2] = Len(e.inputs)
        /\ x[5] = 16 /\ x[6] = 0
        /\ \A i \in 1..Len(e.inputs) : x[6 + 8 * i] = IF e.inputs[i] THEN 1 ELSE 6
    BY <1>4
  <2>2. full[3] = 0 /\ full[4] = Len(e.inputs) /\ full[7] = 16 /\ full[8] = 0
    <3>1. /\ 1 \in 1..Len(x) /\ 2 \in 1..Len(x) /\ 5 \in 1..Len(x) /\ 6 \in 1..Len(x)
          /\ 2 + 1 = 3 /\ 2 + 2 = 4 /\ 2 + 5 = 7 /\ 2 + 6 = 8
      BY <1>1, <2>1
    <3>2. full[2 + 1] = x[1] /\ full[2 + 2] = x[2] /\ full[2 + 5] = x[5] /\ full[2 + 6] = x[6]
      BY <1>8, <3>1
    <3> QED BY <2>1, <3>1, <3>2
  <2>3. ASSUME NEW i \in 1..Len(e.inputs)
        PROVE  full[8 * i + 8] = IF e.inputs[i] THEN 1 ELSE 6
    <3> DEFINE k == 6 + 8 * i
    <3>1. k \in 1..Len(x) /\ 2 + k = 8 * i + 8 /\ x[k] = IF e.inputs[i] THEN 1 ELSE 6
      BY <1>1, <2>1
    <3> HIDE DEF k
    <3>2. full[2 + k] = x[k]
      BY <1>8, <3>1
    <3> QED BY <3>1, <3>2
  <2> QED BY <1>1, <1>7, <2>1, <2>2, <2>3
<1>11. Len(full) >= 2
  BY <1>6, <1>7
<1> QED BY <1>7, <1>9, <1>10, <1>11 DEF full, flat, tagged, input

\* Its payload is the beginning of it.
LEMMA PayloadPrefix ==
    ASSUME NEW e \in Link!AllEvents
    PROVE  LET p == Link!Payload(e)
               full == Link!FullPayload(e)
           IN /\ p \in Seq(Byte) /\ Len(p) = Len(full) - e.cut
              /\ Len(p) \in 0..Len(full) /\ \A i \in 1..Len(p) : p[i] = full[i]
<1> DEFINE full == Link!FullPayload(e)
           m == Len(full) - e.cut
<1>1. full \in Seq(Byte) /\ e.cut \in 0..Len(full)
  BY FullPayloads, EventFields
<1>2. Link!Payload(e) = SubSeq(full, 1, m)
  BY Zenon DEF Link!Payload
<1> HIDE DEF full
<1>3. m \in 0..Len(full)
  BY <1>1
<1> HIDE DEF m
<1>4. /\ SubSeq(full, 1, m) \in Seq(Byte) /\ Len(SubSeq(full, 1, m)) = m
      /\ \A i \in 1..m : SubSeq(full, 1, m)[i] = full[i]
  BY <1>1, <1>3, Cut
<1> QED BY <1>2, <1>3, <1>4, Zenon DEF full, m

\* The identifiers the parser reads from a tag event are those of its records up to the
\* first that is cut off or of an unknown type.
LEMMA TagsAsTold ==
    ASSUME NEW e \in Link!AllEvents, e.command = Link!TagEvent, e.status = 0
    PROVE  Link!ReadTags(Link!Payload(e)) = Link!TagsOf(e)
<1> DEFINE p == Link!Payload(e)
           full == Link!FullPayload(e)
           rs == e.records
           N == Len(rs)
           flat == FlattenSeq(RecordSeq(rs))
           Good(n) == Passable(rs, Len(p), n)
<1>1. /\ p \in Seq(Byte) /\ Len(p) \in Nat /\ Len(p) <= Len(full)
      /\ \A i \in 1..Len(p) : p[i] = full[i]
  <2>1. Len(full) \in Nat
    <3>1. full \in Seq(Byte)
      BY FullPayloads
    <3> HIDE DEF full
    <3> QED BY <3>1
  <2> HIDE DEF p, full
  <2>2. p \in Seq(Byte) /\ Len(p) \in 0..Len(full) /\ \A i \in 1..Len(p) : p[i] = full[i]
    BY PayloadPrefix DEF p, full
  <2> QED BY <2>1, <2>2
<1>2. /\ Len(full) = 4 + Len(flat) /\ full[3] = 0 /\ full[4] = N
      /\ \A i \in 1..Len(flat) : full[4 + i] = flat[i]
  BY FullPayloads
<1>3. WellFormed(rs) /\ N \in Byte /\ N \in Nat
  BY EventFields, ByteRange
<1>4. \A n \in 0..N : /\ 4 + Link!Size(e, n) = Behind(rs, n) /\ Behind(rs, n) \in Nat
                      /\ Link!Identifiers(SubSeq(rs, 1, n)) = TagsTo(rs, n)
                      /\ flat \in Seq(Byte)
  BY <1>3, RecordsSpelt, Zenon DEF Link!Size
<1>5. Link!Left(e) = Len(p) - 4
  BY Zenon DEF Link!Left
<1> HIDE DEF p, full, rs, flat, Good
<1>6. CASE Len(p) < 4
  <2>1. ~Link!Has(p, 4) /\ Link!Left(e) < 0
    BY <1>1, <1>5, <1>6 DEF Link!Has
  <2>2. Link!ReadTags(p) = <<>>
    BY <2>1, Zenon DEF Link!ReadTags
  <2>3. Link!TagsOf(e) = <<>>
    BY <2>1, Zenon DEF Link!TagsOf
  <2> QED BY <2>2, <2>3, Zenon DEF p
<1>7. CASE Len(p) >= 4
  <2>1. Link!U16(p, 2) = N
    <3>1. p[3] = 0 /\ p[4] = N
      <4>1. 3 \in 1..Len(p) /\ 4 \in 1..Len(p)
        BY <1>1, <1>7
      <4> QED BY <1>1, <1>2, <4>1
    <3>2. Link!U16(p, 2) = Word(p[2 + 1], p[2 + 2])
      BY SameBytes, Zenon DEF Link!U16
    <3>3. 2 + 1 = 3 /\ 2 + 2 = 4
      OBVIOUS
    <3>4. Word(0, N) = N
      BY <1>3 DEF Word
    <3> QED BY <3>1, <3>2, <3>3, <3>4
  <2>2. \A i \in 1..Len(flat) : 4 + i <= Len(p) => p[4 + i] = flat[i]
    <3> SUFFICES ASSUME NEW i \in 1..Len(flat), 4 + i <= Len(p)
                 PROVE  p[4 + i] = flat[i]
      OBVIOUS
    <3> DEFINE k == 4 + i
    <3>1. k \in 1..Len(p)
      BY <1>1
    <3>2. full[k] = flat[i]
      BY <1>2
    <3> HIDE DEF k
    <3>3. p[k] = full[k]
      BY <1>1, <3>1
    <3> QED BY <3>2, <3>3 DEF k
\* The furthest the parser gets.
  <2>3. PICK n \in 0..N : Good(n) /\ \A k \in 0..N : Good(k) => k <= n
    <3> DEFINE T == {k \in 0..N : Good(k)}
    <3>1. 0 \in T
      <4>1. 0 \in 0..N
        BY <1>3
      <4>2. Behind(rs, 0) = 4
        <5>1. RecordSeq(rs) \in Seq(Seq(Byte))
          BY <1>3, RecordSeqs
        <5>2. FlattenFirst(RecordSeq(rs), 0) = <<>>
          BY <5>1, FlattenMore
        <5>3. 4 + Len(<<>>) = 4
          OBVIOUS
        <5> QED BY <5>2, <5>3, Zenon DEF Behind
      <4>3. Good(0)
        BY <1>7, <4>2 DEF Good, Passable
      <4> QED BY <4>1, <4>3
    <3>2. PICK n \in T : \A k \in T : n >= k
      <4>1. T \subseteq 0..N /\ T # {}
        BY <3>1
      <4> HIDE DEF T, N
      <4> QED BY <1>3, <4>1, GreatestElement
    <3> QED BY <1>3, <3>2
  <2>4. n = N \/ ~Good(n + 1)
    <3>1. n # N => n + 1 \in 0..N /\ ~(n + 1 <= n)
      BY <1>3
    <3> QED BY <2>3, <3>1
  <2>5. Link!ReadTags(p) = TagsTo(rs, n)
    <3>1. Passable(rs, Len(p), n) /\ (n = Len(rs) \/ ~Passable(rs, Len(p), n + 1))
      BY <2>3, <2>4 DEF Good
    <3> QED BY <1>1, <1>3, <1>7, <2>1, <2>2, <3>1, TagsRead DEF flat
  <2>6. \A k \in 0..N : Link!Readable(e, k) <=> Good(k)
    <3> TAKE k \in 0..N
    <3>1. DOMAIN Link!IddHeader = {0, 3, 9}
      BY DEF Link!IddHeader
    <3>2. Link!Size(e, k) <= Link!Left(e) <=> Behind(rs, k) <= Len(p)
      <4>1. Link!Size(e, k) \in Int \/ Link!Size(e, k) = Behind(rs, k) - 4
        <5>1. Link!Size(e, k) = Len(Link!RecordsBytes(SubSeq(rs, 1, k)))
          BY Zenon DEF Link!Size, rs
        <5>2. Link!RecordsBytes(SubSeq(rs, 1, k)) \in Seq(Byte)
          <6>1. WellFormed(SubSeq(rs, 1, k)) /\ 0 \in 0..Len(SubSeq(rs, 1, k))
            <7>1. rs \in Seq(Records) /\ \A i \in 1..N : Len(rs[i].id) \in Byte
              BY <1>3 DEF WellFormed
            <7> DEFINE c == SubSeq(rs, 1, k)
            <7>2. c \in Seq(Records) /\ Len(c) = k /\ \A i \in 1..k : c[i] = rs[i]
              BY <7>1, Cut
            <7> HIDE DEF c
            <7>3. k \in Nat /\ \A i \in 1..k : i \in 1..N
              BY <1>3
            <7>4. WellFormed(c) /\ 0 \in 0..Len(c)
              BY <7>1, <7>2, <7>3 DEF WellFormed
            <7> QED BY <7>4 DEF c
          <6> QED BY <6>1, RecordsSpelt
        <5> QED BY <5>1, <5>2
      <4> QED BY <1>1, <1>4, <1>5, <4>1, SMTT(20)
    <3> QED BY <3>1, <3>2, Zenon DEF Link!Readable, Good, Passable, rs
  <2> DEFINE Furthest(m) == /\ Link!Readable(e, m)
                            /\ \A k \in 0..Len(e.records) : Link!Readable(e, k) => k <= m
             far == CHOOSE m \in 0..Len(e.records) : Furthest(m)
  <2>7. far \in 0..N /\ Furthest(far)
    <3>1. n \in 0..Len(e.records) /\ Furthest(n)
      BY <2>3, <2>6 DEF rs
    <3> HIDE DEF Furthest
    <3>2. far \in 0..Len(e.records) /\ Furthest(far)
      BY <3>1
    <3> QED BY <3>2 DEF rs
  <2> HIDE DEF far
  <2>8. far = n
    <3>1. Good(far) /\ n <= far
      BY <2>3, <2>6, <2>7 DEF rs
    <3> QED BY <1>3, <2>3, <2>7, <3>1
  <2>9. Link!TagsOf(e) = Link!Identifiers(SubSeq(rs, 1, far))
    <3>1. ~(Link!Left(e) < 0)
      BY <1>1, <1>5, <1>7
    <3>2. Link!TagsOf(e) = LET m == far IN Link!Identifiers(SubSeq(e.records, 1, m))
      BY <3>1, Zenon DEF Link!TagsOf, far
    <3> QED BY <3>2, Zenon DEF rs
  <2>10. Link!Identifiers(SubSeq(rs, 1, n)) = TagsTo(rs, n)
    BY <1>4
  <2> QED BY <2>5, <2>8, <2>9, <2>10, Zenon DEF p
<1> QED BY <1>1, <1>6, <1>7

\* The inputs the parser reads from an input event are those whose bytes are not cut off.
LEMMA InputsAsTold ==
    ASSUME NEW e \in Link!AllEvents, e.command = Link!InputEvent, e.status = 0
    PROVE  Link!ReadInputs(Link!Payload(e)) = Link!InputsOf(e)
<1> DEFINE p == Link!Payload(e)
           full == Link!FullPayload(e)
           N == Len(e.inputs)
           fit == (Len(p) - 8) \div 8
           whole == {i \in DOMAIN e.inputs : 8 * i + 8 <= Len(p)}
<1>1. /\ p \in Seq(Byte) /\ Len(p) \in Nat /\ Len(p) <= Len(full)
      /\ \A i \in 1..Len(p) : p[i] = full[i]
  <2>1. Len(full) \in Nat
    <3>1. full \in Seq(Byte)
      BY FullPayloads
    <3> HIDE DEF full
    <3> QED BY <3>1
  <2> HIDE DEF p, full
  <2>2. p \in Seq(Byte) /\ Len(p) \in 0..Len(full) /\ \A i \in 1..Len(p) : p[i] = full[i]
    BY PayloadPrefix DEF p, full
  <2> QED BY <2>1, <2>2
<1>2. /\ full[3] = 0 /\ full[4] = N /\ full[7] = 16 /\ full[8] = 0
      /\ \A i \in 1..N : full[8 * i + 8] = IF e.inputs[i] THEN 1 ELSE 6
  BY FullPayloads
<1>3. e.inputs \in Seq(BOOLEAN) /\ N \in Byte /\ N \in Nat /\ DOMAIN e.inputs = 1..N
  BY EventFields, ByteRange
<1>4. Link!InputsOf(e) = [i \in whole |-> e.inputs[i]]
  <2>1. ~(e.command # Link!InputEvent \/ e.status # 0)
    OBVIOUS
  <2> QED BY <2>1, Zenon DEF Link!InputsOf
<1> HIDE DEF p, full, N
<1>5. CASE Len(p) < 8
  <2>1. ~Link!Has(p, 8)
    BY <1>1, <1>5 DEF Link!Has
  <2>2. Link!ReadInputs(p) = <<>>
    BY <2>1, Zenon DEF Link!ReadInputs
  <2>3. whole = {}
    BY <1>1, <1>3, <1>5
  <2> HIDE DEF whole
  <2>4. [i \in whole |-> e.inputs[i]] = <<>>
    <3> DEFINE s == [i \in 1..0 |-> e.inputs[i]]
    <3>1. s = <<>>
      OBVIOUS
    <3>2. 1..0 = {}
      OBVIOUS
    <3> QED BY <2>3, <3>1, <3>2, Zenon
  <2> QED BY <1>4, <2>2, <2>4, Zenon DEF p
<1>6. CASE Len(p) >= 8
  <2>1. Link!Has(p, 8)
    BY <1>1, <1>6 DEF Link!Has
  <2>2. p[3] = 0 /\ p[4] = N /\ p[7] = 16 /\ p[8] = 0
    <3>1. 3 \in 1..Len(p) /\ 4 \in 1..Len(p) /\ 7 \in 1..Len(p) /\ 8 \in 1..Len(p)
      BY <1>1, <1>6
    <3> QED BY <1>1, <1>2, <3>1
  <2>3. Link!U16(p, 2) = N
    <3>1. Link!U16(p, 2) = Word(p[2 + 1], p[2 + 2])
      BY SameBytes, Zenon DEF Link!U16
    <3>2. 2 + 1 = 3 /\ 2 + 2 = 4
      OBVIOUS
    <3>3. Word(0, N) = N
      BY <1>3 DEF Word
    <3> QED BY <2>2, <3>1, <3>2, <3>3
  <2>4. Link!BitsOf(Link!Word(p[7], p[8])) \cap {2, 12} # {}
    <3>1. Link!Word(p[7], p[8]) = 4096
      <4>1. Link!Word(p[7], p[8]) = Word(16, 0)
        BY <2>2, SameBytes, Zenon
      <4>2. Word(16, 0) = 4096
        BY DEF Word
      <4> QED BY <4>1, <4>2
    <3>2. 12 \in Link!BitsOf(4096)
      <4>1. 2^12 = 4096
        OBVIOUS
      <4>2. (4096 \div 4096) % 2 = 1 /\ 12 \in 0..15
        OBVIOUS
      <4> DEFINE n == 4096
      <4>3. (n \div 2^12) % 2 = 1
        BY <4>1, <4>2
      <4> HIDE DEF n
      <4>4. \A k, m : k \in 0..15 /\ (m \div 2^k) % 2 = 1 => k \in Link!BitsOf(m)
        BY Zenon DEF Link!BitsOf
      <4>5. 12 \in Link!BitsOf(n)
        <5> DEFINE k == 12
        <5>1. k \in 0..15 /\ (n \div 2^k) % 2 = 1
          BY <4>2, <4>3
        <5> HIDE DEF k
        <5>2. k \in Link!BitsOf(n)
          BY <4>4, <5>1, Zenon
        <5> QED BY <5>2 DEF k
      <4> QED BY <4>5 DEF n
    <3> QED BY <3>1, <3>2
  <2>5. Link!ReadInputs(p) =
           [i \in 1..Link!Min({N, fit}) |-> 0 \in Link!BitsOf(p[8 * i + 8])]
    BY <2>1, <2>3, <2>4, Zenon DEF Link!ReadInputs
  <2>6. fit \in Nat /\ \A i \in Nat : i <= fit <=> 8 * i + 8 <= Len(p)
    BY <1>1, <1>6
  <2> HIDE DEF fit
  <2>7. Link!Min({N, fit}) = IF N <= fit THEN N ELSE fit
    BY <1>3, <2>6 DEF Link!Min
  <2>8. 1..Link!Min({N, fit}) = whole
    BY <1>3, <2>6, <2>7
  <2>9. ASSUME NEW i \in whole
        PROVE  e.inputs[i] = (0 \in Link!BitsOf(p[8 * i + 8]))
    <3> DEFINE k == 8 * i + 8
    <3>1. i \in 1..N /\ k \in 1..Len(p)
      BY <1>1, <1>3
    <3>2. full[k] = IF e.inputs[i] THEN 1 ELSE 6
      BY <1>2, <3>1
    <3>3. e.inputs[i] \in BOOLEAN
      BY <1>3, <3>1 DEF N
    <3> HIDE DEF k, whole
    <3>4. p[k] = full[k]
      BY <1>1, <3>1
    <3>5. 0 \in Link!BitsOf(1) /\ 0 \notin Link!BitsOf(6)
      <4>1. 2^0 = 1
        OBVIOUS
      <4>2. (1 \div 1) % 2 = 1 /\ (6 \div 1) % 2 # 1 /\ 0 \in 0..15
        OBVIOUS
      <4>3. (1 \div 2^0) % 2 = 1 /\ (6 \div 2^0) % 2 # 1
        BY <4>1, <4>2
      <4> QED BY <4>2, <4>3, Zenon DEF Link!BitsOf
    <3>6. e.inputs[i] <=> 0 \in Link!BitsOf(p[k])
      <4>1. CASE e.inputs[i]
        <5>1. p[k] = 1
          BY <3>2, <3>4, <4>1
        <5> QED BY <3>5, <4>1, <5>1, Zenon
      <4>2. CASE ~e.inputs[i]
        <5>1. p[k] = 6
          BY <3>2, <3>4, <4>2
        <5> QED BY <3>5, <4>2, <5>1, Zenon
      <4> QED BY <4>1, <4>2
    <3>7. e.inputs[i] = (0 \in Link!BitsOf(p[k]))
      BY <3>3, <3>6, SMT
    <3> QED BY <3>7 DEF k
  <2>10. [i \in whole |-> 0 \in Link!BitsOf(p[8 * i + 8])] = [i \in whole |-> e.inputs[i]]
    <3> HIDE DEF whole
    <3> QED BY <2>9, Zenon
  <2> HIDE DEF whole
  <2> QED BY <1>4, <2>5, <2>8, <2>10, Zenon DEF p
<1> QED BY <1>1, <1>5, <1>6

\* parse_buffer_data and process_notification_payload make of every event what it says.
THEOREM ParsedRight ==
    ASSUME NEW e \in Link!AllEvents
    PROVE  Link!ParsedAsTold(e)
<1> DEFINE p == Link!Payload(e)
           full == Link!FullPayload(e)
           parsed == Link!parse_buffer_data(p)
<1> SUFFICES ASSUME p # <<>>
             PROVE  Link!Outcome(p) = Link!Told(e)
  BY Zenon DEF Link!ParsedAsTold
<1>1. /\ p \in Seq(Byte) /\ Len(p) \in Nat /\ Len(p) > 0
      /\ \A i \in 1..Len(p) : p[i] = full[i]
  <2>1. p \in Seq(Byte) /\ \A i \in 1..Len(p) : p[i] = full[i]
    BY PayloadPrefix
  <2> HIDE DEF p, full
  <2> QED BY <2>1
<1>2. full[1] = e.command /\ full[2] = e.status
  BY FullPayloads
<1>3. e.command = Link!TagEvent /\ e.status = 0 => Link!ReadTags(p) = Link!TagsOf(e)
  BY TagsAsTold
<1>4. e.command = Link!InputEvent /\ e.status = 0 => Link!ReadInputs(p) = Link!InputsOf(e)
  BY InputsAsTold
<1>5. ~(e.command = Link!TagEvent /\ e.status = 0) => Link!TagsOf(e) = <<>>
  BY Zenon DEF Link!TagsOf
<1>6. ~(e.command = Link!InputEvent /\ e.status = 0) => Link!InputsOf(e) = <<>>
  BY Zenon DEF Link!InputsOf
<1>7. Link!Outcome(p) = [command |-> p[1], tags |-> parsed.tags, inputs |-> parsed.inputs,
                         ack |-> Link!AckStatus(parsed)]
  BY Zenon DEF Link!Outcome
<1>8. Link!Told(e) =
        [command |-> e.command, tags |-> Link!TagsOf(e), inputs |-> Link!InputsOf(e),
         ack |-> IF Len(p) < 2 THEN 129
                 ELSE IF e.command \in {Link!HeartbeatEvent, Link!TagEvent, Link!InputEvent}
                      THEN 0 ELSE 128]
  BY Zenon DEF Link!Told
<1>9. p[1] = e.command /\ (Len(p) >= 2 => p[2] = e.status)
  <2> HIDE DEF p, full
  <2>1. 1 \in 1..Len(p) /\ (Len(p) >= 2 => 2 \in 1..Len(p))
    BY <1>1
  <2> QED BY <1>1, <1>2, <2>1
<1> HIDE DEF p, full
<1>10. CASE Len(p) < 2
  <2>1. ~Link!Has(p, 2)
    BY <1>1, <1>10 DEF Link!Has
  <2>2. parsed = [short |-> TRUE, command |-> 0, tags |-> <<>>, inputs |-> <<>>]
    BY <2>1, Zenon DEF Link!parse_buffer_data
  <2>3. Link!TagsOf(e) = <<>>
    <3>1. Link!Left(e) < 0
      <4>1. Link!Left(e) = Len(p) - 4
        BY Zenon DEF Link!Left, p
      <4> QED BY <1>1, <1>10, <4>1
    <3> QED BY <3>1, Zenon DEF Link!TagsOf
  <2>4. Link!InputsOf(e) = <<>>
    <3>1. CASE e.command = Link!InputEvent /\ e.status = 0
      <4>1. ~Link!Has(p, 8)
        BY <1>1, <1>10 DEF Link!Has
      <4>2. Link!ReadInputs(p) = <<>>
        BY <4>1, Zenon DEF Link!ReadInputs
      <4> QED BY <1>4, <3>1, <4>2
    <3> QED BY <1>6, <3>1
  <2>5. Link!AckStatus(parsed) = 129
    BY <2>2 DEF Link!AckStatus
  <2>6. parsed.tags = <<>> /\ parsed.inputs = <<>>
    BY <2>2
  <2> HIDE DEF parsed
  <2> QED BY <1>7, <1>8, <1>9, <1>10, <2>3, <2>4, <2>5, <2>6
<1>11. CASE Len(p) >= 2
  <2>1. Link!Has(p, 2)
    BY <1>1, <1>11 DEF Link!Has
  <2>2. parsed =
          [short |-> FALSE, command |-> p[1],
           tags |-> IF p[2] = 0 /\ p[1] = Link!TagEvent THEN Link!ReadTags(p) ELSE <<>>,
           inputs |-> IF p[2] = 0 /\ p[1] = Link!InputEvent THEN Link!ReadInputs(p) ELSE <<>>]
    BY <2>1, Zenon DEF Link!parse_buffer_data
  <2>3. /\ parsed.short = FALSE /\ parsed.command = p[1]
        /\ parsed.tags = IF p[2] = 0 /\ p[1] = Link!TagEvent THEN Link!ReadTags(p) ELSE <<>>
        /\ parsed.inputs = IF p[2] = 0 /\ p[1] = Link!InputEvent THEN Link!ReadInputs(p)
                           ELSE <<>>
    BY <2>2
  <2> HIDE DEF parsed
  <2>4. parsed.tags = Link!TagsOf(e) /\ parsed.inputs = Link!InputsOf(e)
    BY <1>3, <1>4, <1>5, <1>6, <1>9, <1>11, <2>3
  <2>5. Link!AckStatus(parsed) =
           IF e.command \in {Link!HeartbeatEvent, Link!TagEvent, Link!InputEvent}
           THEN 0 ELSE 128
    BY <1>9, <2>3, Zenon DEF Link!AckStatus
  <2>6. ~(Len(p) < 2)
    BY <1>1, <1>11
  <2> QED BY <1>7, <1>8, <1>9, <2>4, <2>5, <2>6, Zenon
<1> QED BY <1>1, <1>10, <1>11

(***************************************************************************)
(* The frames of the FEIG readers.                                         *)
(***************************************************************************)

\* f is a frame of data: its bytes say how long it is, and it is parsed as what it was made
\* of, unless the last byte has changed.
FrameOf(data, f) ==
    LET n == Len(data) + 6
    IN /\ f \in Seq(Byte) /\ Len(f) = n
       /\ f[1] = 2 /\ Word(f[2], f[3]) = n
       /\ \A g \in Seq(Byte) :
             Len(g) = n /\ (\A i \in 1..n - 1 : g[i] = f[i]) =>
                 Link!parse_response(g) =
                     IF g[n] = f[n] THEN [valid |-> TRUE, data |-> data] ELSE Link!Invalid

\* create_request and create_request_by_code make such frames.
LEMMA ReaderFrame ==
    ASSUME NEW adr \in Byte, NEW data \in Seq(Byte), Len(data) + 6 \in 0..MaxWord
    PROVE  FrameOf(data, Link!Frame(adr, data))
<1> DEFINE n == Len(data) + 6
           h == <<2, Hi(n), Lo(n), adr>>
           p == h \o data
           c == Link!crc16(p)
           f == Append(Append(p, Lo(c)), Hi(c))
<1>1. n \in 0..MaxWord /\ n \in Nat /\ n >= 6 /\ Len(data) = n - 6
  BY WordRange
<1>2. Hi(n) \in Byte /\ Lo(n) \in Byte /\ Word(Hi(n), Lo(n)) = n
  BY <1>1, TwoBytes
<1>3. Link!Frame(adr, data) = f
  BY SameBytes, SMT DEF Link!Frame, Link!WithCrc
<1> HIDE DEF n
<1>4. /\ h \in Seq(Byte) /\ Len(h) = 4 /\ h[1] = 2 /\ h[2] = Hi(n) /\ h[3] = Lo(n)
  <2>1. 2 \in Byte
    BY ByteRange
  <2> QED BY <1>2, <2>1
<1> HIDE DEF h
<1>5. /\ p \in Seq(Byte) /\ Len(p) = n - 2
      /\ \A i \in 1..4 : p[i] = h[i]
      /\ \A i \in 1..n - 6 : p[4 + i] = data[i]
  <2>1. /\ p \in Seq(Byte) /\ Len(p) = Len(h) + Len(data)
        /\ \A i \in 1..Len(h) : p[i] = h[i]
        /\ \A i \in 1..Len(data) : p[Len(h) + i] = data[i]
    <3>1. h \in Seq(Byte)
      BY <1>4
    <3> QED BY <3>1, BytesJoined
  <2> HIDE DEF p
  <2> QED BY <1>1, <1>4, <2>1
<1> HIDE DEF p
<1>6. c \in 0..MaxWord /\ Hi(c) \in Byte /\ Lo(c) \in Byte /\ Word(Hi(c), Lo(c)) = c
  <2>1. c \in 0..MaxWord
    BY <1>5, SameBytes
  <2> HIDE DEF c
  <2> QED BY <2>1, TwoBytes
<1>7. /\ f \in Seq(Byte) /\ Len(f) = n /\ f[n] = Hi(c) /\ f[n - 1] = Lo(c)
      /\ \A i \in 1..n - 2 : f[i] = p[i]
  <2> DEFINE a == Append(p, Lo(c))
  <2>1. /\ a \in Seq(Byte) /\ Len(a) = n - 1 /\ a[n - 1] = Lo(c)
        /\ \A i \in 1..n - 2 : a[i] = p[i]
    <3> HIDE DEF c
    <3> QED BY <1>1, <1>5, <1>6, AppendProperties
  <2> HIDE DEF a, c
  <2>2. /\ Append(a, Hi(c)) \in Seq(Byte) /\ Len(Append(a, Hi(c))) = n
        /\ Append(a, Hi(c))[n] = Hi(c)
        /\ \A i \in 1..n - 1 : Append(a, Hi(c))[i] = a[i]
    BY <1>1, <1>6, <2>1, AppendProperties
  <2> QED BY <1>1, <2>1, <2>2 DEF a
<1> HIDE DEF c, f
<1>8. f[1] = 2 /\ Word(f[2], f[3]) = n
  <2>1. f[1] = p[1] /\ f[2] = p[2] /\ f[3] = p[3]
    BY <1>1, <1>7
  <2>2. p[1] = 2 /\ p[2] = Hi(n) /\ p[3] = Lo(n)
    BY <1>4, <1>5
  <2> QED BY <1>2, <2>1, <2>2
<1>9. ASSUME NEW g \in Seq(Byte), Len(g) = n, \A i \in 1..n - 1 : g[i] = f[i]
      PROVE  Link!parse_response(g) = IF g[n] = f[n] THEN [valid |-> TRUE, data |-> data]
                                      ELSE Link!Invalid
  <2>1. g[1] = 2 /\ Word(g[2], g[3]) = n /\ g # <<>>
    <3>1. g[1] = f[1] /\ g[2] = f[2] /\ g[3] = f[3]
      BY <1>1, <1>9
    <3>2. g # <<>>
      BY <1>1, <1>9
    <3> QED BY <1>8, <3>1, <3>2
  <2>8. ASSUME NEW i \in 1..n - 2
        PROVE  g[i] = p[i]
    <3>1. i \in 1..n - 1
      BY <1>1
    <3> QED BY <1>7, <1>9, <3>1
  <2>2. SubSeq(g, 1, n - 2) = p
    <3> DEFINE s == SubSeq(g, 1, n - 2)
    <3>0. n - 2 \in 0..Len(g)
      BY <1>1, <1>9
    <3>1. s \in Seq(Byte) /\ Len(s) = n - 2 /\ \A i \in 1..n - 2 : s[i] = g[i]
      BY <3>0, Cut
    <3> HIDE DEF s
    <3>2. \A i \in 1..Len(s) : s[i] = p[i]
      BY <2>8, <3>1
    <3>3. s = p
      BY <1>5, <3>1, <3>2, SeqEqual
    <3> QED BY <3>3 DEF s
  <2>3. SubSeq(g, 5, n - 2) = data
    <3> DEFINE s == SubSeq(g, 5, n - 2)
    <3>1. s \in Seq(Byte) /\ Len(s) = n - 6 /\ \A i \in 1..n - 6 : s[i] = g[4 + i]
      BY <1>1, <1>9
    <3> HIDE DEF s
    <3>2. \A i \in 1..Len(s) : s[i] = data[i]
      <4>1. \A i \in 1..n - 6 : 4 + i \in 1..n - 2
        BY <1>1
      <4> QED BY <1>5, <2>8, <3>1, <4>1
    <3>3. s = data
      BY <1>1, <3>1, <3>2, SeqEqual
    <3> QED BY <3>3 DEF s
  <2>4. Link!Word(g[n], g[n - 1]) = Link!crc16(p) <=> g[n] = f[n]
    <3>1. g[n - 1] = Lo(c) /\ f[n] = Hi(c) /\ g[n] \in Byte
      BY <1>1, <1>7, <1>9
    <3>2. Word(g[n], Lo(c)) = c <=> g[n] = Hi(c)
      <4>1. \A x \in Int, y \in Int, z \in Int : Word(x, z) = Word(y, z) <=> x = y
        BY SMT DEF Word
      <4>2. g[n] \in Int /\ Hi(c) \in Int /\ Lo(c) \in Int
        BY <1>6, <3>1, ByteRange
      <4> QED BY <1>6, <4>1, <4>2
    <3> QED BY <3>1, <3>2, SameBytes DEF c
  <2>5. Link!Word(g[2], g[3]) = n
    BY <2>1, SameBytes
  <2>6. g # <<>> /\ g[1] = Link!STX /\ ~(Len(g) < n)
    BY <1>1, <1>9, <2>1, SameBytes
  <2>7. Link!parse_response(g) =
            IF Link!Word(g[n], g[n - 1]) # Link!crc16(SubSeq(g, 1, n - 2)) THEN Link!Invalid
            ELSE [valid |-> TRUE, data |-> SubSeq(g, 5, n - 2)]
    BY <2>5, <2>6, SMT DEF Link!parse_response
  <2> QED BY <2>2, <2>3, <2>4, <2>7, Zenon
<1>10. FrameOf(data, f)
  <2>1. f \in Seq(Byte) /\ Len(f) = n /\ f[1] = 2 /\ Word(f[2], f[3]) = n
    BY <1>7, <1>8
  <2>2. \A g \in Seq(Byte) :
           Len(g) = n /\ (\A i \in 1..n - 1 : g[i] = f[i]) =>
               Link!parse_response(g) =
                   IF g[n] = f[n] THEN [valid |-> TRUE, data |-> data] ELSE Link!Invalid
    BY <1>9, Zenon
  <2> QED BY <2>1, <2>2, Zenon DEF FrameOf, n
<1> QED BY <1>3, <1>10

\* The payload of an event is of bytes, starts with its command, and fits into a frame.
LEMMA PayloadBytes ==
    ASSUME NEW e \in Link!AllEvents
    PROVE  /\ Link!Payload(e) \in Seq(Byte) /\ Len(Link!Payload(e)) + 6 \in 0..MaxWord
           /\ Link!Payload(e) # <<>> => Link!Payload(e)[1] = e.command
           /\ e.command \in Byte
<1> DEFINE p == Link!Payload(e)
           full == Link!FullPayload(e)
<1>1. /\ e.command \in Byte /\ Len(full) + 6 \in 0..MaxWord
      /\ p \in Seq(Byte) /\ Len(p) \in 0..Len(full) /\ \A i \in 1..Len(p) : p[i] = full[i]
      /\ full \in Seq(Byte) /\ full[1] = e.command
  BY EventFields, PayloadPrefix, FullPayloads
<1> HIDE DEF p, full
<1>2. Len(p) + 6 \in 0..MaxWord
  BY <1>1, WordRange
<1>3. p # <<>> => 1 \in 1..Len(p)
  BY <1>1
<1> QED BY <1>1, <1>2, <1>3 DEF p

\* b are the bytes of e: they say how many they are, and are parsed as the payload, unless the
\* event was damaged.
FrameOfEvent(e, b) ==
    /\ b \in Seq(Byte) /\ Len(b) = Len(Link!Payload(e)) + 6
    /\ e.damage \in {"none", "crc"} => b[1] = 2 /\ Word(b[2], b[3]) = Len(b)
    /\ e.damage = "none" => Link!parse_response(b) = [valid |-> TRUE, data |-> Link!Payload(e)]
    /\ e.damage = "crc" => Link!parse_response(b) = Link!Invalid
    /\ e.damage \notin {"none", "crc"} => b[1] # 2 \/ Word(b[2], b[3]) < 7

\* What a reader sends is such a frame.
LEMMA EventFrames ==
    ASSUME NEW e \in Link!AllEvents
    PROVE  FrameOfEvent(e, Link!EventBytes(e))
<1> DEFINE data == Link!Payload(e)
           f == Link!Frame(0, data)
           n == Len(data) + 6
           b == Link!EventBytes(e)
<1>1. data \in Seq(Byte) /\ n \in 0..MaxWord /\ n \in Nat /\ n >= 6
  <2>1. data \in Seq(Byte) /\ n \in 0..MaxWord
    BY PayloadBytes
  <2> HIDE DEF data
  <2> QED BY <2>1
<1>2. 0 \in Byte
  BY ByteRange
<1>3. FrameOf(data, f)
  <2> HIDE DEF data
  <2> QED BY <1>1, <1>2, ReaderFrame
<1>4. e.damage \in {"none", "crc", "stx", "length"}
  BY EventsAssumption, Zenon DEF Link!LinkAssumption
<1>5. b = Link!Damaged(f, e.damage)
  BY Zenon DEF Link!EventBytes
<1> HIDE DEF data, f
<1>6. /\ f \in Seq(Byte) /\ Len(f) = n /\ f[1] = 2 /\ Word(f[2], f[3]) = n
      /\ \A g \in Seq(Byte) :
            Len(g) = n /\ (\A i \in 1..n - 1 : g[i] = f[i]) =>
                Link!parse_response(g) =
                    IF g[n] = f[n] THEN [valid |-> TRUE, data |-> data] ELSE Link!Invalid
  BY <1>3, Zenon DEF FrameOf
<1> HIDE DEF b, n
<1>7. CASE e.damage = "none"
  <2>1. b = f
    BY <1>5, <1>7 DEF Link!Damaged
  <2>2. Link!parse_response(f) = [valid |-> TRUE, data |-> data]
    BY <1>6, Zenon
  <2> QED BY <1>6, <1>7, <2>1, <2>2 DEF FrameOfEvent, n, data, b
<1>8. CASE e.damage = "crc"
  <2> DEFINE last == (f[n] + 1) % 256
  <2>1. b = [f EXCEPT ![n] = last]
    BY <1>5, <1>6, <1>8 DEF Link!Damaged, Link!ReplaceAt, Link!Last
  <2>2. last \in Byte /\ last # f[n]
    <3>1. f[n] \in Byte
      BY <1>1, <1>6
    <3> QED BY <3>1, ByteRange
  <2> HIDE DEF last
  <2>3. b \in Seq(Byte) /\ Len(b) = n /\ b[n] = last /\ \A i \in 1..n - 1 : b[i] = f[i]
    BY <1>1, <1>6, <2>1, <2>2
  <2>4. Link!parse_response(b) = Link!Invalid
    BY <1>6, <2>2, <2>3, Zenon
  <2>5. b[1] = f[1] /\ b[2] = f[2] /\ b[3] = f[3]
    BY <1>1, <2>3
  <2> QED BY <1>6, <1>8, <2>3, <2>4, <2>5 DEF FrameOfEvent, n, data, b
<1>9. CASE e.damage = "stx"
  <2>1. b = [f EXCEPT ![1] = 0]
    BY <1>5, <1>9 DEF Link!Damaged, Link!ReplaceAt
  <2>2. b \in Seq(Byte) /\ Len(b) = n /\ b[1] = 0
    BY <1>1, <1>2, <1>6, <2>1
  <2> QED BY <1>9, <2>2 DEF FrameOfEvent, n, data, b
<1>10. CASE e.damage = "length"
  <2>1. b = [[f EXCEPT ![2] = 0] EXCEPT ![3] = 6]
    <3>1. Link!MinLength - 1 = 6
      BY SMT DEF Link!MinLength
    <3> QED BY <1>5, <1>10, <3>1 DEF Link!Damaged, Link!ReplaceAt
  <2>2. 6 \in Byte
    BY ByteRange
  <2>3. b \in Seq(Byte) /\ Len(b) = n /\ b[2] = 0 /\ b[3] = 6
    BY <1>1, <1>2, <1>6, <2>1, <2>2
  <2>4. Word(b[2], b[3]) < 7
    BY <2>3 DEF Word
  <2> QED BY <1>10, <2>3, <2>4 DEF FrameOfEvent, n, data, b
<1> QED BY <1>4, <1>7, <1>8, <1>9, <1>10

\* The acknowledgement of an event.
AckOf(command, status) == Link!create_request_by_code(command, <<status>>)

\* It says which command it is for, and the status.
LEMMA AckParsed ==
    ASSUME NEW command \in Byte, NEW status \in Byte
    PROVE  /\ AckOf(command, status) \in Seq(Byte)
           /\ Link!parse_response(AckOf(command, status)) =
                  [valid |-> TRUE, data |-> <<command, status>>]
<1> DEFINE data == <<command>> \o <<status>>
           f == Link!Frame(255, data)
<1>1. command % 256 = command /\ 255 \in Byte
  BY ByteRange
<1>2. AckOf(command, status) = f
  BY <1>1 DEF AckOf, Link!create_request_by_code
<1>3. data = <<command, status>>
  <2> DEFINE c == <<command>>
             d == <<status>>
  <2>1. /\ c \in Seq(Byte) /\ Len(c) = 1 /\ c[1] = command
        /\ d \in Seq(Byte) /\ Len(d) = 1 /\ d[1] = status
    OBVIOUS
  <2> HIDE DEF c, d
  <2>2. /\ c \o d \in Seq(Byte) /\ Len(c \o d) = 2
        /\ (c \o d)[1] = command /\ (c \o d)[1 + 1] = status
    <3>1. 1 \in 1..1 /\ 1 + 1 = 2
      OBVIOUS
    <3>2. /\ c \o d \in Seq(Byte) /\ Len(c \o d) = Len(c) + Len(d)
          /\ \A i \in 1..Len(c) : (c \o d)[i] = c[i]
          /\ \A i \in 1..Len(d) : (c \o d)[Len(c) + i] = d[i]
      BY <2>1, BytesJoined
    <3> QED BY <2>1, <3>1, <3>2, Zenon
  <2> DEFINE j == c \o d
  <2>3. j \in Seq(Byte) /\ Len(j) = 2 /\ j[1] = command /\ j[2] = status
    BY <2>2
  <2> HIDE DEF j
  <2>4. j = <<command, status>>
    BY <2>3
  <2> QED BY <2>4 DEF j, c, d
<1>4. data \in Seq(Byte) /\ Len(data) = 2
  BY <1>3
<1> HIDE DEF data
<1>5. Len(data) + 6 \in 0..MaxWord
  BY <1>4, WordRange
<1>6. FrameOf(data, f)
  BY <1>1, <1>4, <1>5, ReaderFrame
<1> HIDE DEF f
<1>7. f \in Seq(Byte) /\ Link!parse_response(f) = [valid |-> TRUE, data |-> data]
  BY <1>6, Zenon DEF FrameOf
<1> QED BY <1>2, <1>3, <1>7

(***************************************************************************)
(* The events on the notification connection.                              *)
(***************************************************************************)

\* at[j] of the bytes of rest belong to the events of es up to the j-th, from the one after
\* the k-th on.
Placed(rest, es, k, at) ==
    /\ at[k] = 0 /\ at[Len(es)] = Len(rest)
    /\ \A i, j \in k..Len(es) : i <= j => at[i] <= at[j]
    /\ \A j \in k + 1..Len(es) :
          /\ at[j] = at[j - 1] + Len(Link!EventBytes(es[j]))
          /\ \A i \in 1..Len(Link!EventBytes(es[j])) :
                rest[at[j - 1] + i] = Link!EventBytes(es[j])[i]

\* rest are the bytes of the events of es after the k-th.
InLine(rest, es, k) == \E at \in [k..Len(es) -> Nat] : Placed(rest, es, k, at)

\* An event that is sent comes behind the others.
LEMMA InLineAppend ==
    ASSUME NEW rest \in Seq(Byte), NEW es \in Seq(Link!AllEvents), NEW k \in 0..Len(es),
           NEW e \in Link!AllEvents, InLine(rest, es, k)
    PROVE  InLine(rest \o Link!EventBytes(e), Append(es, e), k)
<1> DEFINE b == Link!EventBytes(e)
           n == Len(es)
           all == rest \o b
           more == Append(es, e)
<1>1. PICK at \in [k..n -> Nat] : Placed(rest, es, k, at)
  BY DEF InLine
<1> DEFINE new == [j \in k..n + 1 |-> IF j <= n THEN at[j] ELSE Len(rest) + Len(b)]
<1>2. b \in Seq(Byte) /\ Len(b) \in Nat /\ Len(rest) \in Nat /\ n \in Nat
  <2>1. b \in Seq(Byte)
    BY EventFrames DEF FrameOfEvent
  <2> HIDE DEF b
  <2> QED BY <2>1
<1>3. /\ more \in Seq(Link!AllEvents) /\ Len(more) = n + 1 /\ more[n + 1] = e
      /\ \A j \in 1..n : more[j] = es[j]
  BY AppendProperties
<1> HIDE DEF b
<1>4. /\ all \in Seq(Byte) /\ Len(all) = Len(rest) + Len(b)
      /\ \A i \in 1..Len(rest) : all[i] = rest[i]
      /\ \A i \in 1..Len(b) : all[Len(rest) + i] = b[i]
  BY <1>2, BytesJoined
<1> HIDE DEF all, more, n
<1>5. /\ new \in [k..n + 1 -> Nat] /\ new[n + 1] = Len(rest) + Len(b)
      /\ \A j \in k..n : new[j] = at[j]
  <2>1. /\ \A j \in k..n + 1 : (IF j <= n THEN at[j] ELSE Len(rest) + Len(b)) \in Nat
        /\ k \in 0..n
    BY <1>2 DEF n
  <2>2. new \in [k..n + 1 -> Nat]
    BY <2>1
  <2>3. n + 1 \in k..n + 1 /\ ~(n + 1 <= n) /\ \A j \in k..n : j \in k..n + 1 /\ j <= n
    BY <1>2, <2>1
  <2> QED BY <2>2, <2>3
<1> HIDE DEF new
<1>6. k \in 0..n /\ n \in Nat
  BY <1>2 DEF n
<1>7. /\ at[k] = 0 /\ at[n] = Len(rest)
      /\ \A i, j \in k..n : i <= j => at[i] <= at[j]
      /\ \A j \in k..n : at[j] \in Nat /\ at[j] <= Len(rest)
  <2>1. /\ at[k] = 0 /\ at[n] = Len(rest)
        /\ \A i, j \in k..n : i <= j => at[i] <= at[j]
    BY <1>1 DEF Placed, n
  <2>2. n \in k..n /\ \A j \in k..n : j <= n /\ at[j] \in Nat
    BY <1>6
  <2> QED BY <2>1, <2>2
<1>8. ASSUME NEW j \in k + 1..n
      PROVE  LET c == Link!EventBytes(more[j])
             IN /\ new[j] = new[j - 1] + Len(c)
                /\ \A i \in 1..Len(c) : all[new[j - 1] + i] = c[i]
  <2> DEFINE c == Link!EventBytes(es[j])
             p == at[j - 1]
  <2>1. j \in 1..n /\ j \in k..n /\ j - 1 \in k..n
    BY <1>6
  <2>2. at[j] = p + Len(c) /\ \A i \in 1..Len(c) : rest[p + i] = c[i]
    BY <1>1 DEF Placed, n
  <2>3. es[j] \in Link!AllEvents
    BY <2>1 DEF n
  <2>4. c \in Seq(Byte)
    BY <2>3, EventFrames DEF FrameOfEvent
  <2> HIDE DEF c
  <2>5. p \in Nat /\ at[j] <= Len(rest) /\ Len(c) \in Nat
    BY <1>7, <2>1, <2>4
  <2>6. new[j] = at[j] /\ new[j - 1] = p /\ more[j] = es[j]
    BY <1>3, <1>5, <2>1
  <2> HIDE DEF p
  <2>7. ASSUME NEW i \in 1..Len(c)
        PROVE  all[p + i] = c[i]
    <3>1. p + i \in 1..Len(rest)
      BY <1>2, <2>2, <2>5
    <3> QED BY <1>4, <2>2, <3>1
  <2> QED BY <2>2, <2>6, <2>7 DEF c
<1>9. LET c == Link!EventBytes(more[n + 1])
      IN /\ new[n + 1] = new[n] + Len(c)
         /\ \A i \in 1..Len(c) : all[new[n] + i] = c[i]
  <2>1. new[n] = Len(rest)
    BY <1>5, <1>6, <1>7
  <2> QED BY <1>3, <1>4, <1>5, <2>1 DEF b
<1>10. /\ new[k] = 0 /\ new[n + 1] = Len(all)
       /\ \A i, j \in k..n + 1 : i <= j => new[i] <= new[j]
  <2>1. \A j \in k..n : new[j] \in Nat /\ new[j] <= Len(rest) /\ ~(n + 1 <= j)
    BY <1>5, <1>6, <1>7
  <2>2. \A j \in k..n + 1 : j \in k..n \/ j = n + 1
    BY <1>6
  <2>3. k \in k..n
    BY <1>6
  <2>4. new[k] = 0 /\ new[n + 1] = Len(all) /\ Len(rest) <= Len(all)
    BY <1>2, <1>4, <1>5, <1>7, <2>3
  <2>5. \A i, j \in k..n : i <= j => new[i] <= new[j]
    BY <1>5, <1>7
  <2>6. ASSUME NEW i \in k..n + 1, NEW j \in k..n + 1, i <= j
        PROVE  new[i] <= new[j]
    <3>1. CASE i \in k..n /\ j \in k..n
      BY <2>5, <2>6, <3>1
    <3>2. CASE i \in k..n /\ j = n + 1
      BY <1>2, <1>4, <2>1, <2>4, <3>2
    <3>3. CASE i = n + 1
      <4>1. j = n + 1
        BY <2>1, <2>2, <2>6, <3>3
      <4> QED BY <1>2, <1>4, <2>4, <3>3, <4>1
    <3> QED BY <2>2, <3>1, <3>2, <3>3
  <2> QED BY <2>4, <2>6
<1>11. \A j \in k + 1..Len(more) :
          /\ new[j] = new[j - 1] + Len(Link!EventBytes(more[j]))
          /\ \A i \in 1..Len(Link!EventBytes(more[j])) :
                all[new[j - 1] + i] = Link!EventBytes(more[j])[i]
  <2> TAKE j \in k + 1..Len(more)
  <2>1. CASE j \in k + 1..n
    BY <1>8, <2>1
  <2>2. CASE j = n + 1
    <3>1. j - 1 = n
      BY <1>6, <2>2
    <3> QED BY <1>9, <2>2, <3>1
  <2> QED BY <1>3, <1>6, <2>1, <2>2
<1>12. Placed(all, more, k, new)
  BY <1>3, <1>10, <1>11 DEF Placed
<1>13. InLine(all, more, k)
  BY <1>3, <1>5, <1>12 DEF InLine
<1> QED BY <1>13 DEF all, more, b

\* If there are bytes, they start with those of the next event, and the others behind them
\* stay in line.
LEMMA InLineHead ==
    ASSUME NEW rest \in Seq(Byte), NEW es \in Seq(Link!AllEvents), NEW k \in 0..Len(es),
           InLine(rest, es, k), Len(rest) > 0
    PROVE  /\ k < Len(es)
           /\ LET b == Link!EventBytes(es[k + 1])
              IN /\ Len(b) <= Len(rest)
                 /\ \A i \in 1..Len(b) : rest[i] = b[i]
                 /\ InLine(SubSeq(rest, Len(b) + 1, Len(rest)), es, k + 1)
<1> DEFINE n == Len(es)
           b == Link!EventBytes(es[k + 1])
           m == Len(b)
           tail == SubSeq(rest, m + 1, Len(rest))
<1>1. PICK at \in [k..n -> Nat] : Placed(rest, es, k, at)
  BY DEF InLine
<1> DEFINE new == [j \in k + 1..n |-> at[j] - m]
<1>2. /\ at[k] = 0 /\ at[n] = Len(rest)
      /\ \A i, j \in k..n : i <= j => at[i] <= at[j]
  BY <1>1 DEF Placed
<1>3. k \in 0..n /\ n \in Nat /\ Len(rest) \in Nat
  OBVIOUS
<1>4. k < n
  BY <1>2, <1>3
<1>5. b \in Seq(Byte) /\ m \in Nat
  <2>1. es[k + 1] \in Link!AllEvents
    BY <1>4
  <2> DEFINE e == es[k + 1]
  <2>2. Link!EventBytes(e) \in Seq(Byte)
    <3> HIDE DEF e
    <3> QED BY <2>1, EventFrames DEF FrameOfEvent, e
  <2> QED BY <2>2
<1>6. /\ at[k + 1] = m
      /\ \A i \in 1..m : rest[i] = b[i]
  <2>1. k + 1 \in k + 1..n /\ (k + 1) - 1 = k
    BY <1>3, <1>4
  <2>2. /\ at[k + 1] = at[k] + Len(b)
        /\ \A i \in 1..Len(b) : rest[at[k] + i] = b[i]
    BY <1>1, <2>1 DEF Placed
  <2> HIDE DEF b
  <2> QED BY <1>2, <1>5, <2>2
<1> HIDE DEF b, m
<1>7. m <= Len(rest)
  BY <1>2, <1>3, <1>4, <1>6
<1>8. /\ tail \in Seq(Byte) /\ Len(tail) = Len(rest) - m
      /\ \A i \in 1..Len(rest) - m : tail[i] = rest[m + i]
  <2>1. m \in 0..Len(rest)
    BY <1>5, <1>7
  <2> QED BY <2>1, Cut
<1> HIDE DEF tail
<1>9. ASSUME NEW j \in k + 2..n
      PROVE  LET c == Link!EventBytes(es[j])
             IN /\ at[j] = at[j - 1] + Len(c) /\ Len(c) \in Nat
                /\ \A i \in 1..Len(c) : rest[at[j - 1] + i] = c[i]
  <2>1. j \in k + 1..n /\ j \in 1..n
    BY <1>3
  <2>2. es[j] \in Link!AllEvents
    BY <2>1
  <2> DEFINE e == es[j]
  <2>3. Link!EventBytes(e) \in Seq(Byte)
    <3> HIDE DEF e
    <3> QED BY <2>2, EventFrames DEF FrameOfEvent, e
  <2>4. Len(Link!EventBytes(e)) \in Nat
    <3> DEFINE c == Link!EventBytes(e)
    <3> HIDE DEF c
    <3> QED BY <2>3 DEF c
  <2> QED BY <1>1, <2>1, <2>4 DEF Placed

<1>10. /\ new \in [k + 1..n -> Nat]
       /\ \A j \in k + 1..n : new[j] = at[j] - m
  <2>1. ASSUME NEW j \in k + 1..n
        PROVE  at[j] - m \in Nat
    <3>1. k + 1 \in k..n /\ j \in k..n /\ k + 1 <= j
      BY <1>3, <1>4
    <3>2. at[j] \in Nat /\ m <= at[j]
      BY <1>2, <1>6, <3>1
    <3> QED BY <1>5, <3>2
  <2> QED BY <2>1
<1> HIDE DEF new
<1>11. /\ new[k + 1] = 0 /\ new[n] = Len(tail)
       /\ \A i, j \in k + 1..n : i <= j => new[i] <= new[j]
  <2>1. k + 1 \in k + 1..n /\ n \in k + 1..n
    BY <1>3, <1>4
  <2>2. \A j \in k + 1..n : j \in k..n /\ at[j] \in Nat
    BY <1>3
  <2>3. new[k + 1] = 0
    BY <1>5, <1>6, <1>10, <2>1
  <2>4. new[n] = Len(tail)
    BY <1>2, <1>8, <1>10, <2>1
  <2>5. ASSUME NEW i \in k + 1..n, NEW j \in k + 1..n, i <= j
        PROVE  new[i] <= new[j]
    <3>1. at[i] <= at[j] /\ at[i] \in Nat /\ at[j] \in Nat
      BY <1>2, <2>2, <2>5
    <3>2. new[i] = at[i] - m /\ new[j] = at[j] - m
      BY <1>10
    <3> QED BY <1>5, <3>1, <3>2
  <2> QED BY <2>3, <2>4, <2>5
<1>12. ASSUME NEW j \in (k + 1) + 1..n
       PROVE  LET c == Link!EventBytes(es[j])
              IN /\ new[j] = new[j - 1] + Len(c)
                 /\ \A i \in 1..Len(c) : tail[new[j - 1] + i] = c[i]
  <2> DEFINE c == Link!EventBytes(es[j])
             p == at[j - 1]
  <2>1. j \in k + 2..n /\ j \in k + 1..n /\ j - 1 \in k + 1..n /\ j \in k..n /\ j - 1 \in k..n
    BY <1>3
  <2>2. /\ at[j] = p + Len(c) /\ Len(c) \in Nat
        /\ \A i \in 1..Len(c) : rest[p + i] = c[i]
    BY <1>9, <2>1
  <2>3. new[j] = at[j] - m /\ new[j - 1] = p - m /\ p \in Nat /\ at[j] \in Nat /\ new[j - 1] \in Nat
    BY <1>10, <2>1
  <2>4. at[j] <= Len(rest)
    BY <1>2, <1>3, <1>4, <2>1
  <2> HIDE DEF c, p
  <2>5. ASSUME NEW i \in 1..Len(c)
        PROVE  tail[new[j - 1] + i] = c[i]
    <3>1. new[j - 1] + i \in 1..Len(rest) - m /\ m + (new[j - 1] + i) = p + i
      BY <1>3, <1>5, <2>2, <2>3, <2>4
    <3>2. tail[new[j - 1] + i] = rest[m + (new[j - 1] + i)]
      BY <1>8, <3>1
    <3> QED BY <2>2, <3>1, <3>2
  <2>6. new[j] = new[j - 1] + Len(c)
    BY <1>5, <2>2, <2>3, SMTT(20)
  <2> QED BY <2>5, <2>6 DEF c
<1>13. Placed(tail, es, k + 1, new)
  BY <1>11, <1>12 DEF Placed
<1>14. InLine(tail, es, k + 1)
  BY <1>10, <1>13 DEF InLine
<1> QED BY <1>4, <1>6, <1>7, <1>14 DEF b, m, tail

\* What an event may have become of: it was parsed, and its lamp command may have raised.
Raised(result) == [result EXCEPT !.ack = 1]

Results == UNION {{Link!Outcome(p), Raised(Link!Outcome(p))} : p \in Seq(Byte)}

ReadAs(e, result) ==
    /\ e.damage = "none" /\ Link!Payload(e) # <<>>
    /\ \/ result = Link!Outcome(Link!Payload(e))
       \/ e.command = Link!TagEvent /\ result = Raised(Link!Outcome(Link!Payload(e)))

\* The bytes that were sent and not yet read as events, oldest first.
Unread == (IF pc = "body" THEN header ELSE <<>>) \o inbox \o unsent

\* The steps after an event was read and before its acknowledgement.
Serving == {"lamp", "answer", "answer_body", "ack"}

HandlerTypes ==
    /\ sent \in Seq(Link!AllEvents) /\ unsent \in Seq(Byte) /\ inbox \in Seq(Byte)
    /\ header \in Seq(Byte) /\ handled \in Seq(Results) /\ acks \in Seq(Seq(Byte))
    /\ pc \in {"header", "body", "closed"} \cup Serving /\ refused \in BOOLEAN

\* The events read are the first ones sent, and all but the last one are acknowledged.
EventsServed ==
    /\ Len(handled) <= Len(sent)
    /\ \A i \in 1..Len(handled) : ReadAs(sent[i], handled[i])
    /\ Len(acks) \in {Len(handled), Len(handled) - 1}
    /\ pc \in {"header", "body"} => Len(acks) = Len(handled)
    /\ pc \in Serving => Len(acks) = Len(handled) - 1
    /\ pc = "lamp" => sent[Len(handled)].command = Link!TagEvent
    /\ \A i \in 1..Len(acks) : acks[i] = AckOf(sent[i].command, handled[i].ack)

\* The event after the k-th is one the handler gives the connection up at.
Refusable(es, k) ==
    k < Len(es) /\ (es[k + 1].damage # "none" \/ Link!Payload(es[k + 1]) = <<>>)

\* The header read is that of the next event, whose length is right.
HeaderOf(head, es, k) ==
    /\ k < Len(es) /\ es[k + 1].damage \in {"none", "crc"}
    /\ Len(head) = 3 /\ Link!BodyLength(head) = Len(Link!EventBytes(es[k + 1])) - 3

\* The handler has its place in the stream, until it gives the connection up for a reason.
PlaceKept ==
    /\ pc # "closed" => ~refused /\ InLine(Unread, sent, Len(handled))
    /\ pc = "body" => HeaderOf(header, sent, Len(handled))
    /\ refused => Refusable(sent, Len(handled))

\* The inductive invariant of EventsExact and AcksInOrder.
WireInv == HandlerTypes /\ EventsServed /\ PlaceKept

\* A result says which command it is for, and how it is acknowledged.
LEMMA ResultFields ==
    ASSUME NEW e \in Link!AllEvents, NEW result, ReadAs(e, result)
    PROVE  /\ result \in Results
           /\ result.command = e.command /\ result.command \in Byte /\ result.ack \in Byte
<1> DEFINE p == Link!Payload(e)
           outcome == Link!Outcome(p)
<1>1. p \in Seq(Byte) /\ p[1] = e.command /\ e.command \in Byte
  BY PayloadBytes DEF ReadAs
<1>2. outcome = [command |-> p[1], tags |-> outcome.tags, inputs |-> outcome.inputs,
                 ack |-> outcome.ack]
  BY DEF Link!Outcome
<1>3. outcome.ack \in Byte
  <2>1. outcome.ack \in {0, 128, 129}
    BY DEF Link!Outcome, Link!AckStatus
  <2> HIDE DEF outcome
  <2> QED BY <2>1, ByteRange
<1>4. result = outcome \/ result = Raised(outcome)
  BY DEF ReadAs
<1>5. result \in Results
  BY <1>1, <1>4 DEF Results
<1> HIDE DEF p, outcome
<1>6. CASE result = outcome
  BY <1>1, <1>2, <1>3, <1>5, <1>6
<1>7. CASE result = Raised(outcome)
  <2>1. result.command = outcome.command /\ result.ack = 1
    BY <1>2, <1>7 DEF Raised
  <2>2. 1 \in Byte
    BY ByteRange
  <2> QED BY <1>1, <1>2, <1>5, <2>1, <2>2
<1> QED BY <1>4, <1>6, <1>7

\* No more acknowledgements than events read, and no more of these than were sent.
LEMMA Counts ==
    ASSUME WireInv
    PROVE  /\ Len(handled) \in 0..Len(sent) /\ Len(sent) \in Nat
           /\ Len(acks) \in 0..Len(handled)
           /\ pc \in Serving => Len(handled) \in 1..Len(sent)
<1>1. Len(handled) \in Nat /\ Len(sent) \in Nat /\ Len(acks) \in Nat
  BY DEF WireInv, HandlerTypes
<1>2. Len(handled) <= Len(sent) /\ Len(acks) \in {Len(handled), Len(handled) - 1}
  BY DEF WireInv, EventsServed
<1>3. pc \in Serving => Len(acks) = Len(handled) - 1
  BY DEF WireInv, EventsServed
<1> QED BY <1>1, <1>2, <1>3

\* At the start, and after the reader has connected again, nothing is under way.
AtStart ==
    /\ sent = <<>> /\ unsent = <<>> /\ inbox = <<>> /\ pc = "header" /\ header = <<>>
    /\ handled = <<>> /\ acks = <<>> /\ refused = FALSE

\* Then the invariant holds.
LEMMA WireStart == AtStart => WireInv
<1> SUFFICES ASSUME AtStart PROVE WireInv
  OBVIOUS
<1> USE DEF AtStart
<1>1. HandlerTypes
  BY EmptySeq DEF HandlerTypes
<1>2. Unread = <<>>
  BY DEF Unread
<1>3. InLine(<<>>, <<>>, 0)
  <2> DEFINE at == [j \in 0..0 |-> 0]
  <2>1. at \in [0..Len(<<>>) -> Nat] /\ at[0] = 0
    OBVIOUS
  <2> HIDE DEF at
  <2>2. Placed(<<>>, <<>>, 0, at)
    BY <2>1 DEF Placed
  <2> QED BY <2>1, <2>2 DEF InLine
<1>4. EventsServed
  BY DEF EventsServed, Serving
<1>5. PlaceKept
  BY <1>2, <1>3 DEF PlaceKept
<1> QED BY <1>1, <1>4, <1>5 DEF WireInv

\* A reader sends an event.
LEMMA WireSend ==
    ASSUME WireInv, NEW e \in Link!AllEvents, Link!SendEvent(e)
    PROVE  WireInv'
<1> USE DEF Link!handlerVars
<1>1. /\ pc # "closed" /\ unsent = <<>>
      /\ sent' = Append(sent, e) /\ unsent' = Link!EventBytes(e)
      /\ UNCHANGED <<inbox, pc, header, handled, acks, refused>>
  BY DEF Link!SendEvent
<1>2. Link!EventBytes(e) \in Seq(Byte)
  BY EventFrames DEF FrameOfEvent
<1>3. HandlerTypes'
  BY <1>1, <1>2, AppendProperties DEF WireInv, HandlerTypes
<1>4. /\ Len(sent') = Len(sent) + 1 /\ Len(sent) \in Nat /\ Len(handled) \in 0..Len(sent)
      /\ \A i \in 1..Len(sent) : sent'[i] = sent[i]
  BY <1>1 DEF WireInv, HandlerTypes, EventsServed
<1>5. EventsServed'
  <2>1. Len(handled') <= Len(sent')
    BY <1>1, <1>4
  <2>2. \A i \in 1..Len(handled') : ReadAs(sent'[i], handled'[i])
    BY <1>1, <1>4 DEF WireInv, EventsServed
  <2>3. \A i \in 1..Len(acks') : acks'[i] = AckOf(sent'[i].command, handled'[i].ack)
    <3>1. \A i \in 1..Len(acks) : i \in 1..Len(sent)
      BY <1>4, Counts
    <3> QED BY <1>1, <1>4, <3>1 DEF WireInv, EventsServed
  <2>4. pc' = "lamp" => sent'[Len(handled')].command = Link!TagEvent
    <3>1. pc = "lamp" => Len(handled) \in 1..Len(sent)
      BY <1>4 DEF WireInv, HandlerTypes, EventsServed, Serving
    <3> QED BY <1>1, <1>4, <3>1 DEF WireInv, EventsServed
  <2> QED BY <1>1, <2>1, <2>2, <2>3, <2>4 DEF WireInv, EventsServed
<1>6. PlaceKept'
  <2> DEFINE head == IF pc = "body" THEN header ELSE <<>>
             b == Link!EventBytes(e)
  <2>1. head \in Seq(Byte) /\ inbox \in Seq(Byte)
    BY EmptySeq DEF WireInv, HandlerTypes
  <2>2. Unread = head \o inbox \o <<>> /\ Unread' = head \o inbox \o b
    BY <1>1 DEF Unread
  <2> HIDE DEF head, b
  <2>3. head \o inbox \in Seq(Byte) /\ (head \o inbox) \o <<>> = head \o inbox
    BY <2>1, ConcatEmptySeq, BytesJoined
  <2>4. Unread' = Unread \o b /\ Unread \in Seq(Byte)
    BY <2>2, <2>3
  <2>5. ~refused /\ InLine(Unread, sent, Len(handled))
    BY <1>1 DEF WireInv, PlaceKept
  <2>6. InLine(Unread \o b, Append(sent, e), Len(handled))
    <3>1. sent \in Seq(Link!AllEvents)
      BY DEF WireInv, HandlerTypes
    <3> QED BY <1>4, <2>4, <2>5, <3>1, InLineAppend DEF b
  <2>7. pc = "body" => HeaderOf(header, sent', Len(handled))
    BY <1>1, <1>4 DEF WireInv, PlaceKept, HeaderOf
  <2> QED BY <1>1, <2>4, <2>5, <2>6, <2>7 DEF PlaceKept
<1> QED BY <1>3, <1>5, <1>6 DEF WireInv

\* Bytes that arrive change their place, not their order.
LEMMA WireArrive ==
    ASSUME WireInv, NEW n, Link!Arrive(n)
    PROVE  WireInv'
<1> USE DEF Link!handlerVars
<1> DEFINE a == SubSeq(unsent, 1, n)
           b == SubSeq(unsent, n + 1, Len(unsent))
<1>1. /\ n \in 1..Len(unsent) /\ inbox' = inbox \o a /\ unsent' = b
      /\ UNCHANGED <<sent, pc, header, handled, acks, refused>>
  BY DEF Link!Arrive
<1>2. unsent \in Seq(Byte) /\ inbox \in Seq(Byte) /\ header \in Seq(Byte)
  BY DEF WireInv, HandlerTypes
<1>3. a \in Seq(Byte) /\ b \in Seq(Byte) /\ a \o b = unsent
  <2>1. n \in 0..Len(unsent)
    BY <1>1
  <2> QED BY <1>2, <2>1, Cut
<1> HIDE DEF a, b
<1>4. HandlerTypes'
  BY <1>1, <1>2, <1>3, BytesJoined DEF WireInv, HandlerTypes
<1>5. EventsServed'
  BY <1>1 DEF WireInv, EventsServed
<1>6. Unread' = Unread
  <2> DEFINE head == IF pc = "body" THEN header ELSE <<>>
  <2>1. head \in Seq(Byte)
    BY <1>2, EmptySeq
  <2>2. Unread = (head \o inbox) \o unsent /\ Unread' = (head \o (inbox \o a)) \o b
    BY <1>1 DEF Unread
  <2> HIDE DEF head
  <2>3. head \o inbox \in Seq(Byte)
    BY <1>2, <2>1, BytesJoined
  <2>4. (head \o (inbox \o a)) \o b = ((head \o inbox) \o a) \o b
    BY <1>2, <1>3, <2>1, Regrouped, Zenon
  <2>5. ((head \o inbox) \o a) \o b = (head \o inbox) \o (a \o b)
    BY <1>3, <2>3, Regrouped, Zenon
  <2> QED BY <1>3, <2>2, <2>4, <2>5, Zenon
<1>7. PlaceKept'
  BY <1>1, <1>6 DEF WireInv, PlaceKept
<1> QED BY <1>4, <1>5, <1>7 DEF WireInv

\* read_frame takes the next three bytes: the header of the next event, unless it is damaged.
LEMMA WireHeader ==
    ASSUME WireInv, Link!ReadHeader
    PROVE  WireInv'
<1> DEFINE k == Len(handled)
           e == sent[k + 1]
           b == Link!EventBytes(e)
           first == SubSeq(inbox, 1, 3)
           others == SubSeq(inbox, 4, Len(inbox))
<1>1. /\ pc = "header" /\ Len(inbox) >= 3 /\ header' = first /\ inbox' = others
      /\ IF inbox[1] # Link!STX \/ Link!Word(inbox[2], inbox[3]) < Link!MinLength
         THEN pc' = "closed" /\ refused' = TRUE
         ELSE pc' = "body" /\ refused' = refused
      /\ UNCHANGED <<sent, unsent, handled, acks>>
  BY DEF Link!ReadHeader, Link!Close, Link!Go
<1>2. /\ unsent \in Seq(Byte) /\ inbox \in Seq(Byte) /\ sent \in Seq(Link!AllEvents)
      /\ ~refused /\ InLine(Unread, sent, k) /\ k \in 0..Len(sent)
  BY <1>1, Counts DEF WireInv, HandlerTypes, PlaceKept
<1>3. /\ first \in Seq(Byte) /\ Len(first) = 3 /\ others \in Seq(Byte)
      /\ first \o others = inbox /\ \A i \in 1..3 : first[i] = inbox[i]
  <2>1. 3 \in 0..Len(inbox) /\ 3 + 1 = 4
    BY <1>1, <1>2
  <2>2. /\ SubSeq(inbox, 1, 3) \in Seq(Byte) /\ Len(SubSeq(inbox, 1, 3)) = 3
        /\ SubSeq(inbox, 3 + 1, Len(inbox)) \in Seq(Byte)
        /\ SubSeq(inbox, 1, 3) \o SubSeq(inbox, 3 + 1, Len(inbox)) = inbox
        /\ \A i \in 1..3 : SubSeq(inbox, 1, 3)[i] = inbox[i]
    BY <1>2, <2>1, Cut
  <2> QED BY <2>1, <2>2, Zenon
<1> HIDE DEF first, others
<1>4. /\ Unread = inbox \o unsent /\ Unread \in Seq(Byte) /\ Len(Unread) >= 3
      /\ \A i \in 1..3 : Unread[i] = first[i]
  <2>1. Unread = (<<>> \o inbox) \o unsent
    BY <1>1 DEF Unread
  <2>2. <<>> \o inbox = inbox
    BY <1>2, ConcatEmptySeq
  <2> DEFINE all == inbox \o unsent
  <2>3. /\ all \in Seq(Byte) /\ Len(all) = Len(inbox) + Len(unsent)
        /\ \A i \in 1..Len(inbox) : all[i] = inbox[i]
    BY <1>2, BytesJoined
  <2>4. Unread = all
    BY <2>1, <2>2
  <2> HIDE DEF all
  <2>5. Len(inbox) \in Nat /\ Len(unsent) \in Nat /\ \A i \in 1..3 : i \in 1..Len(inbox)
    BY <1>1, <1>2
  <2> QED BY <1>1, <1>3, <2>3, <2>4, <2>5 DEF all
<1>5. /\ k < Len(sent) /\ Len(b) <= Len(Unread)
      /\ \A i \in 1..Len(b) : Unread[i] = b[i]
  <2>1. Len(Unread) > 0
    BY <1>4
  <2> QED BY <1>2, <1>4, <2>1, InLineHead
<1>6. e \in Link!AllEvents
  BY <1>2, <1>5
<1>7. FrameOfEvent(e, b)
  <2> HIDE DEF e
  <2> QED BY <1>6, EventFrames
<1>8. Link!Payload(e) \in Seq(Byte)
  <2> HIDE DEF e
  <2> QED BY <1>6, PayloadBytes
<1> HIDE DEF b, e, k
<1>9. Len(b) >= 6 /\ inbox[1] = b[1] /\ inbox[2] = b[2] /\ inbox[3] = b[3]
  <2>1. Len(b) >= 6 /\ Len(b) \in Nat
    BY <1>7, <1>8 DEF FrameOfEvent
  <2>2. /\ 1 \in 1..Len(b) /\ 2 \in 1..Len(b) /\ 3 \in 1..Len(b)
        /\ 1 \in 1..3 /\ 2 \in 1..3 /\ 3 \in 1..3
    BY <2>1
  <2> QED BY <1>3, <1>4, <1>5, <2>1, <2>2
<1>10. HandlerTypes' /\ EventsServed'
  <2>0. refused \in BOOLEAN
    BY DEF WireInv, HandlerTypes
  <2>1. pc' \in {"body", "closed"} /\ refused' \in BOOLEAN
    BY <1>1, <2>0, Zenon
  <2>2. HandlerTypes'
    BY <1>1, <1>3, <2>1 DEF WireInv, HandlerTypes
  <2>3. Len(acks) = Len(handled)
    BY <1>1 DEF WireInv, EventsServed
  <2> QED BY <1>1, <2>1, <2>2, <2>3 DEF WireInv, EventsServed, Serving
<1>11. CASE inbox[1] # Link!STX \/ Link!Word(inbox[2], inbox[3]) < Link!MinLength
  <2>1. pc' = "closed" /\ refused' = TRUE
    BY <1>1, <1>11
  <2>2. b[1] # 2 \/ Word(b[2], b[3]) < 7
    BY <1>9, <1>11, SameBytes
  <2>3. e.damage # "none" \/ Link!Payload(e) = <<>>
    <3>1. CASE e.damage = "none"
      <4>1. Len(b) < 7
        BY <1>7, <2>2, <3>1 DEF FrameOfEvent
      <4>2. Len(Link!Payload(e)) = 0
        BY <1>7, <1>8, <4>1 DEF FrameOfEvent
      <4> QED BY <1>8, <4>2, EmptySeq
    <3> QED BY <3>1
  <2>4. Refusable(sent, k)
    BY <1>5, <2>3 DEF Refusable, e
  <2> QED BY <1>1, <1>10, <2>1, <2>4 DEF WireInv, PlaceKept, k
<1>12. CASE ~(inbox[1] # Link!STX \/ Link!Word(inbox[2], inbox[3]) < Link!MinLength)
  <2>1. pc' = "body" /\ refused' = refused
    BY <1>1, <1>12
  <2>2. b[1] = 2 /\ ~(Word(b[2], b[3]) < 7)
    BY <1>9, <1>12, SameBytes
  <2>3. e.damage \in {"none", "crc"} /\ Word(b[2], b[3]) = Len(b)
    BY <1>7, <2>2 DEF FrameOfEvent
  <2>4. Link!BodyLength(first) = Len(b) - 3
    <3>1. first[2] = b[2] /\ first[3] = b[3]
      BY <1>3, <1>9
    <3> QED BY <2>3, <3>1, SameBytes DEF Link!BodyLength
  <2>5. HeaderOf(first, sent, k)
    BY <1>3, <1>5, <2>3, <2>4 DEF HeaderOf, b, e
  <2>6. Unread' = Unread
    <3>1. Unread' = (first \o others) \o unsent
      BY <1>1, <2>1 DEF Unread
    <3> QED BY <1>3, <1>4, <3>1
  <2> QED BY <1>1, <1>2, <1>10, <2>1, <2>5, <2>6 DEF WireInv, PlaceKept, k
<1> QED BY <1>11, <1>12

\* read_frame takes the rest of the frame: the whole event, which is handled if it is valid.
LEMMA WireBody ==
    ASSUME WireInv, Link!ReadBody
    PROVE  WireInv'
<1> DEFINE k == Len(handled)
           e == sent[k + 1]
           b == Link!EventBytes(e)
           m == Link!BodyLength(header)
           first == SubSeq(inbox, 1, m)
           others == SubSeq(inbox, m + 1, Len(inbox))
           g == header \o first
           response == Link!parse_response(g)
           payload == Link!Payload(e)
<1>1. /\ pc = "body" /\ Len(inbox) >= m /\ inbox' = others
      /\ IF ~response.valid \/ response.data = <<>>
         THEN pc' = "closed" /\ refused' = TRUE /\ handled' = handled
         ELSE /\ handled' = Append(handled, Link!Outcome(response.data)) /\ refused' = refused
              /\ pc' = IF Link!Has(response.data, 2) /\ response.data[1] = Link!TagEvent
                       THEN "lamp" ELSE "ack"
      /\ UNCHANGED <<sent, unsent, header, acks>>
  BY DEF Link!ReadBody, Link!Close, Link!Go, Link!Handle
<1>2. /\ unsent \in Seq(Byte) /\ inbox \in Seq(Byte) /\ header \in Seq(Byte)
      /\ sent \in Seq(Link!AllEvents) /\ handled \in Seq(Results)
      /\ ~refused /\ InLine(Unread, sent, k) /\ k \in 0..Len(sent)
  BY <1>1, Counts DEF WireInv, HandlerTypes, PlaceKept
<1>3. k < Len(sent) /\ e.damage \in {"none", "crc"} /\ Len(header) = 3 /\ m = Len(b) - 3
  BY <1>1 DEF WireInv, PlaceKept, HeaderOf
<1>4. e \in Link!AllEvents
  BY <1>2, <1>3
<1>5. FrameOfEvent(e, b) /\ payload \in Seq(Byte)
  <2> HIDE DEF e
  <2> QED BY <1>4, EventFrames, PayloadBytes
<1>6. payload # <<>> => payload[1] = e.command
  <2> HIDE DEF e
  <2> QED BY <1>4, PayloadBytes
<1> HIDE DEF b, e, k, m, response, payload
<1>7. /\ b \in Seq(Byte) /\ Len(b) = Len(payload) + 6 /\ Len(payload) \in Nat
      /\ m \in 0..Len(inbox) /\ Len(b) = 3 + m
  <2>1. b \in Seq(Byte) /\ Len(b) = Len(payload) + 6
    BY <1>5 DEF FrameOfEvent, payload
  <2>2. Len(payload) \in Nat
    BY <1>5
  <2> QED BY <1>1, <1>2, <1>3, <2>1, <2>2
<1>8. /\ first \in Seq(Byte) /\ Len(first) = m /\ others \in Seq(Byte)
      /\ first \o others = inbox
  BY <1>2, <1>7, Cut, Zenon
<1> HIDE DEF first, others
<1>9. g \in Seq(Byte) /\ Len(g) = Len(b)
  <2>1. g \in Seq(Byte) /\ Len(g) = Len(header) + Len(first)
    BY <1>2, <1>8, BytesJoined
  <2> HIDE DEF g
  <2> QED BY <1>3, <1>7, <1>8, <2>1
<1>10. others \o unsent \in Seq(Byte) /\ Unread = g \o (others \o unsent)
  <2>1. Unread = (header \o (first \o others)) \o unsent
    BY <1>1, <1>8 DEF Unread
  <2>2. header \o (first \o others) = g \o others
    BY <1>2, <1>8, Regrouped, Zenon
  <2>3. (g \o others) \o unsent = g \o (others \o unsent)
    BY <1>2, <1>8, <1>9, Regrouped, Zenon
  <2> QED BY <1>2, <1>8, <2>1, <2>2, <2>3, BytesJoined, Zenon
<1> HIDE DEF g
<1> DEFINE tail == others \o unsent
<1>11. /\ Unread \in Seq(Byte) /\ Len(Unread) > 0 /\ \A i \in 1..Len(g) : Unread[i] = g[i]
       /\ SubSeq(Unread, Len(b) + 1, Len(Unread)) = tail
  <2>1. tail \in Seq(Byte) /\ Unread = g \o tail
    BY <1>10
  <2> HIDE DEF tail
  <2>2. /\ g \o tail \in Seq(Byte) /\ Len(g \o tail) = Len(g) + Len(tail)
        /\ \A i \in 1..Len(g) : (g \o tail)[i] = g[i]
    BY <1>9, <2>1, BytesJoined
  <2>3. Len(g) >= 6 /\ Len(g) \in Nat /\ Len(tail) \in Nat
    BY <1>7, <1>9, <2>1
  <2>4. SubSeq(g \o tail, Len(g) + 1, Len(g \o tail)) = tail
    BY <1>9, <2>1, CutJoined
  <2>5. Len(g \o tail) > 0
    BY <2>2, <2>3
  <2> QED BY <1>9, <2>1, <2>2, <2>4, <2>5, Zenon
<1> HIDE DEF tail
<1>12. /\ \A i \in 1..Len(b) : Unread[i] = b[i]
       /\ InLine(tail, sent, k + 1)
  BY <1>2, <1>11, InLineHead DEF b, e
<1>13. g = b
  <2>1. \A i \in 1..Len(g) : g[i] = b[i]
    BY <1>9, <1>11, <1>12
  <2> QED BY <1>7, <1>9, <2>1, SeqEqual
<1>14. response = IF e.damage = "none" THEN [valid |-> TRUE, data |-> payload] ELSE Link!Invalid
  BY <1>3, <1>5, <1>13 DEF FrameOfEvent, response, payload
<1>15. CASE e.damage = "none" /\ payload # <<>>
  <2>1. response.valid /\ response.data = payload
    BY <1>14, <1>15
  <2> DEFINE result == Link!Outcome(payload)
  <2>2. /\ handled' = Append(handled, result) /\ refused' = refused
        /\ pc' = IF Link!Has(payload, 2) /\ payload[1] = Link!TagEvent THEN "lamp" ELSE "ack"
    BY <1>1, <1>15, <2>1
  <2>3. ReadAs(e, result)
    BY <1>15 DEF ReadAs, payload
  <2> HIDE DEF result
  <2>4. result \in Results
    BY <1>4, <2>3, ResultFields
  <2>5. /\ handled' \in Seq(Results) /\ Len(handled') = k + 1 /\ handled'[k + 1] = result
        /\ \A i \in 1..k : handled'[i] = handled[i]
    BY <1>2, <2>2, <2>4, AppendProperties DEF k
  <2>6. pc' \in {"lamp", "ack"} /\ (pc' = "lamp" => e.command = Link!TagEvent)
    BY <1>6, <1>15, <2>2
  <2>7. HandlerTypes'
    BY <1>1, <1>2, <1>8, <2>2, <2>5, <2>6 DEF WireInv, HandlerTypes, Serving
  <2>8. EventsServed'
    <3>1. Len(acks) = k /\ k \in Nat
      BY <1>1, <1>2 DEF WireInv, EventsServed, k
    <3>2. \A i \in 1..k + 1 : ReadAs(sent[i], handled'[i])
      <4> TAKE i \in 1..k + 1
      <4>1. CASE i \in 1..k
        BY <2>5, <4>1 DEF WireInv, EventsServed, k
      <4>2. CASE i = k + 1
        BY <2>3, <2>5, <4>2 DEF e
      <4> QED BY <1>2, <4>1, <4>2
    <3>3. \A i \in 1..k : acks[i] = AckOf(sent[i].command, handled'[i].ack)
      BY <2>5, <3>1 DEF WireInv, EventsServed
    <3>4. k + 1 <= Len(sent) /\ (k + 1) - 1 = k
      BY <1>2, <1>3
    <3>5. pc' = "lamp" => sent[k + 1].command = Link!TagEvent
      BY <2>6 DEF e
    <3> QED BY <1>1, <2>5, <2>6, <3>1, <3>2, <3>3, <3>4, <3>5 DEF EventsServed, Serving
  <2>9. PlaceKept'
    <3>1. Unread' = (<<>> \o others) \o unsent
      BY <1>1, <2>6 DEF Unread
    <3>2. <<>> \o others = others
      BY <1>8, ConcatEmptySeq
    <3>3. Unread' = tail
      BY <3>1, <3>2 DEF tail
    <3> QED BY <1>1, <1>2, <1>12, <2>2, <2>5, <2>6, <3>3 DEF PlaceKept
  <2> QED BY <2>7, <2>8, <2>9 DEF WireInv
<1>16. CASE ~(e.damage = "none" /\ payload # <<>>)
  <2>1. ~response.valid \/ response.data = <<>>
    BY <1>14, <1>16 DEF Link!Invalid
  <2>2. pc' = "closed" /\ refused' = TRUE /\ handled' = handled
    BY <1>1, <2>1
  <2>3. Refusable(sent, k)
    BY <1>3, <1>16 DEF Refusable, e, payload
  <2>4. HandlerTypes'
    BY <1>1, <1>2, <1>8, <2>2 DEF WireInv, HandlerTypes
  <2>5. EventsServed'
    BY <1>1, <2>2 DEF WireInv, EventsServed, Serving
  <2> QED BY <1>1, <2>2, <2>3, <2>4, <2>5 DEF WireInv, PlaceKept, k
<1> QED BY <1>15, <1>16

\* The event is acknowledged, or the reader is gone.
LEMMA WireAck ==
    ASSUME WireInv, Link!Ack
    PROVE  WireInv'
<1> USE DEF Link!eventVars
<1> DEFINE k == Len(handled)
           h == handled[k]
           ack == AckOf(h.command, h.ack)
<1>1. /\ pc = "ack" /\ UNCHANGED <<sent, unsent, inbox, header, handled>>
      /\ \/ pc' = "header" /\ refused' = refused /\ acks' = Append(acks, ack)
         \/ pc' = "closed" /\ refused' = FALSE /\ acks' = acks
  BY DEF Link!Ack, Link!Go, Link!Close, Link!Last, AckOf
<1>2. /\ handled \in Seq(Results) /\ sent \in Seq(Link!AllEvents) /\ acks \in Seq(Seq(Byte))
      /\ k \in 1..Len(sent) /\ Len(sent) \in Nat /\ Len(acks) = k - 1
      /\ ~refused /\ InLine(Unread, sent, k)
  BY <1>1, Counts DEF WireInv, HandlerTypes, EventsServed, PlaceKept, Serving
<1>3. /\ h.command = sent[k].command /\ ack \in Seq(Byte)
  <2>1. sent[k] \in Link!AllEvents /\ ReadAs(sent[k], h)
    BY <1>2 DEF WireInv, EventsServed
  <2> DEFINE e == sent[k]
  <2> HIDE DEF e, h
  <2>2. h.command = e.command /\ h.command \in Byte /\ h.ack \in Byte
    BY <2>1, ResultFields DEF e
  <2> QED BY <2>2, AckParsed DEF e
<1> HIDE DEF ack
<1>4. Unread' = Unread
  BY <1>1 DEF Unread
<1>5. CASE pc' = "header" /\ refused' = refused /\ acks' = Append(acks, ack)
  <2>1. /\ acks' \in Seq(Seq(Byte)) /\ Len(acks') = k /\ acks'[k] = ack
        /\ \A i \in 1..k - 1 : acks'[i] = acks[i]
    BY <1>2, <1>3, <1>5, AppendProperties
  <2>2. HandlerTypes'
    BY <1>1, <1>5, <2>1 DEF WireInv, HandlerTypes
  <2>3. \A i \in 1..Len(acks') : acks'[i] = AckOf(sent[i].command, handled[i].ack)
    <3> TAKE i \in 1..Len(acks')
    <3>1. CASE i \in 1..k - 1
      BY <1>2, <2>1, <3>1 DEF WireInv, EventsServed
    <3>2. CASE i = k
      BY <1>3, <2>1, <3>2 DEF ack
    <3> QED BY <1>2, <2>1, <3>1, <3>2, SMTT(20)
  <2>4. EventsServed'
    BY <1>1, <1>5, <2>1, <2>3 DEF WireInv, EventsServed, Serving
  <2>5. PlaceKept'
    BY <1>1, <1>2, <1>4, <1>5 DEF PlaceKept
  <2> QED BY <2>2, <2>4, <2>5 DEF WireInv
<1>6. CASE pc' = "closed" /\ refused' = FALSE /\ acks' = acks
  <2>1. HandlerTypes'
    BY <1>1, <1>6 DEF WireInv, HandlerTypes
  <2>2. EventsServed'
    BY <1>1, <1>6 DEF WireInv, EventsServed, Serving
  <2>3. PlaceKept'
    BY <1>1, <1>6 DEF PlaceKept
  <2> QED BY <2>1, <2>2, <2>3 DEF WireInv
<1> QED BY <1>1, <1>5, <1>6

\* The lamp command raises: the event, which is one of tags, is answered by 1.
LEMMA WireRaises ==
    ASSUME WireInv, Link!WriteFails
    PROVE  WireInv'
<1> USE DEF Link!eventVars, Link!commandVars
<1> DEFINE k == Len(handled)
           h == handled[k]
           e == sent[k]
           outcome == Link!Outcome(Link!Payload(e))
<1>1. /\ pc = "lamp" /\ pc' = "ack" /\ handled' = [handled EXCEPT ![k] = Raised(h)]
      /\ UNCHANGED <<sent, unsent, inbox, header, acks, refused>>
  BY DEF Link!WriteFails, Link!Go, Link!Last, Link!ReplaceAt, Raised
<1>2. /\ handled \in Seq(Results) /\ sent \in Seq(Link!AllEvents)
      /\ k \in 1..Len(sent) /\ Len(sent) \in Nat /\ Len(acks) = k - 1
      /\ ~refused /\ InLine(Unread, sent, k)
  BY <1>1, Counts DEF WireInv, HandlerTypes, EventsServed, PlaceKept, Serving
<1>3. ReadAs(e, h) /\ e.command = Link!TagEvent /\ e \in Link!AllEvents
  BY <1>1, <1>2 DEF WireInv, EventsServed
<1> HIDE DEF h, e
<1>4. ReadAs(e, Raised(h)) /\ Raised(h) \in Results
  <2>1. h = outcome \/ h = Raised(outcome)
    BY <1>3 DEF ReadAs
  <2>2. outcome = [command |-> outcome.command, tags |-> outcome.tags,
                   inputs |-> outcome.inputs, ack |-> outcome.ack]
    BY DEF Link!Outcome
  <2> HIDE DEF outcome
  <2>3. Raised(h) = Raised(outcome)
    BY <2>1, <2>2 DEF Raised
  <2>4. ReadAs(e, Raised(h))
    BY <1>3, <2>3 DEF ReadAs, outcome
  <2> DEFINE result == Raised(h)
  <2> HIDE DEF result
  <2>5. result \in Results
    BY <1>3, <2>4, ResultFields DEF result
  <2> QED BY <2>4, <2>5 DEF result
<1>5. /\ handled' \in Seq(Results) /\ Len(handled') = k /\ handled'[k] = Raised(h)
      /\ \A i \in 1..k - 1 : handled'[i] = handled[i]
  <2> DEFINE result == Raised(h)
  <2>1. result \in Results /\ handled' = [handled EXCEPT ![k] = result]
    BY <1>1, <1>4
  <2> HIDE DEF result
  <2>2. k \in 1..Len(handled)
    BY <1>2
  <2> QED BY <1>2, <2>1, <2>2 DEF result
<1>6. HandlerTypes'
  BY <1>1, <1>5, Zenon DEF WireInv, HandlerTypes, Serving
<1>7. EventsServed'
  <2>1. \A i \in 1..k : ReadAs(sent[i], handled'[i])
    <3> TAKE i \in 1..k
    <3>1. CASE i \in 1..k - 1
      BY <1>2, <1>5, <3>1 DEF WireInv, EventsServed
    <3>2. CASE i = k
      BY <1>4, <1>5, <3>2 DEF e
    <3> QED BY <1>2, <3>1, <3>2
  <2>2. \A i \in 1..Len(acks) : acks[i] = AckOf(sent[i].command, handled'[i].ack)
    BY <1>2, <1>5 DEF WireInv, EventsServed
  <2> QED BY <1>1, <1>2, <1>5, <2>1, <2>2 DEF WireInv, EventsServed, Serving
<1>8. Unread' = Unread
  BY <1>1 DEF Unread
<1>9. PlaceKept'
  BY <1>1, <1>2, <1>5, <1>8 DEF PlaceKept
<1> QED BY <1>6, <1>7, <1>9 DEF WireInv

\* Every step keeps the invariant.
LEMMA WireStep ==
    ASSUME WireInv, [Link!Next]_Link!vars
    PROVE  WireInv'
<1> USE DEF Link!eventVars, Link!handlerVars, Link!commandVars
\* The steps of the lamp command, and those that touch the command connection only.
<1>1. ASSUME UNCHANGED <<sent, unsent, inbox, header, handled, acks, refused>>,
             pc' = pc \/ (pc \in Serving /\ pc' \in Serving \ {"lamp"})
      PROVE  WireInv'
  <2>1. HandlerTypes'
    BY <1>1 DEF WireInv, HandlerTypes
  <2>2. EventsServed'
    BY <1>1 DEF WireInv, EventsServed, Serving
  <2>3. Unread' = Unread
    BY <1>1 DEF Unread, Serving
  <2>4. PlaceKept'
    BY <1>1, <2>3 DEF WireInv, PlaceKept, Serving
  <2> QED BY <2>1, <2>2, <2>4 DEF WireInv
<1>2. CASE \E n \in DOMAIN Events : count = n - 1 /\ \E e \in Events[n] : Link!SendEvent(e)
  <2>1. PICK n \in DOMAIN Events : \E e \in Events[n] : Link!SendEvent(e)
    BY <1>2
  <2>2. PICK e \in Events[n] : Link!SendEvent(e)
    BY <2>1
  <2>3. e \in Link!AllEvents
    BY DEF Link!AllEvents, Link!Range
  <2> QED BY <2>2, <2>3, WireSend
<1>3. CASE \E n \in {2, 5, Len(unsent)} : Link!Arrive(n)
  BY <1>3, WireArrive
<1>4. CASE Link!Connect
  <2>1. AtStart'
    BY <1>4 DEF Link!Connect, AtStart
  <2>2. AtStart' => WireInv'
    BY WireStart, PTL
  <2> QED BY <2>1, <2>2
<1>5. CASE Link!EndOfStream
  <2>1. /\ pc \in {"header", "body"} /\ pc' = "closed" /\ refused' = FALSE
        /\ UNCHANGED <<sent, unsent, inbox, header, handled, acks>>
    BY <1>5 DEF Link!EndOfStream, Link!Close, Link!Go
  <2>2. HandlerTypes'
    BY <2>1 DEF WireInv, HandlerTypes
  <2>3. EventsServed'
    BY <2>1 DEF WireInv, EventsServed, Serving
  <2>4. PlaceKept'
    BY <2>1 DEF PlaceKept
  <2> QED BY <2>2, <2>3, <2>4 DEF WireInv
<1>6. CASE Link!ReadHeader
  BY <1>6, WireHeader
<1>7. CASE Link!ReadBody
  BY <1>7, WireBody
<1>8. CASE Link!Ack
  BY <1>8, WireAck
<1>9. CASE Link!WriteFails
  BY <1>9, WireRaises
<1>10. CASE Link!Write
  BY <1>1, <1>10 DEF Link!Write, Link!Go, Serving
<1>11. CASE (\E j \in pending : Link!Answer(j)) \/ (\E n \in Segments : Link!AnswerArrives(n))
            \/ Link!Hangup
  BY <1>1, <1>11 DEF Link!Answer, Link!AnswerArrives, Link!Hangup
<1>12. CASE Link!ReadStart \/ Link!ReadRest
  BY <1>1, <1>12 DEF Link!ReadStart, Link!ReadRest, Link!Done, Link!Go, Serving
<1>13. CASE Link!Timeout \/ Link!Reset
  BY <1>1, <1>13 DEF Link!Timeout, Link!Reset, Link!Done, Link!Go, Serving
<1>14. CASE UNCHANGED Link!vars
  BY <1>1, <1>14 DEF Link!vars
<1> QED BY <1>2, <1>3, <1>4, <1>5, <1>6, <1>7, <1>8, <1>9, <1>10, <1>11, <1>12, <1>13, <1>14
        DEF Link!Next

\* At the start the handler waits for the first header.
LEMMA WireInit == Link!Init => WireInv
BY WireStart DEF Link!Init, AtStart

\* send_notification_ack: however the bytes are split, whatever is damaged and whenever a
\* lamp command fails, the reader gets one valid acknowledgement for each event it sent, in
\* order, with the command of that event.
THEOREM AcksOrdered == Link!Spec => []AcksInOrder
<1>1. WireInv => AcksInOrder
  <2> SUFFICES ASSUME WireInv
               PROVE  /\ Len(acks) \in {Len(handled), Len(handled) - 1}
                      /\ \A i \in 1..Len(acks) :
                            Link!parse_response(acks[i]) =
                                [valid |-> TRUE, data |-> <<sent[i].command, handled[i].ack>>]
    <3>1. WireInv => DOMAIN acks = 1..Len(acks)
      BY DEF WireInv, HandlerTypes
    <3> QED BY <3>1 DEF AcksInOrder, Link!AcksInOrder
  <2>1. Len(acks) \in {Len(handled), Len(handled) - 1}
    BY DEF WireInv, EventsServed
  <2>2. ASSUME NEW i \in 1..Len(acks)
        PROVE  Link!parse_response(acks[i]) =
                   [valid |-> TRUE, data |-> <<sent[i].command, handled[i].ack>>]
    <3> DEFINE e == sent[i]
               h == handled[i]
    <3>1. i \in 1..Len(handled) /\ i \in 1..Len(sent)
      BY Counts
    <3>2. e \in Link!AllEvents /\ ReadAs(e, h) /\ acks[i] = AckOf(e.command, h.ack)
      BY <3>1 DEF WireInv, HandlerTypes, EventsServed
    <3> HIDE DEF e, h
    <3>3. e.command \in Byte /\ h.ack \in Byte
      BY <3>2, ResultFields
    <3>4. Link!parse_response(AckOf(e.command, h.ack)) =
              [valid |-> TRUE, data |-> <<e.command, h.ack>>]
      BY <3>3, AckParsed
    <3> QED BY <3>2, <3>4 DEF e, h
  <2> QED BY <2>1, <2>2
<1> QED BY <1>1, WireInit, WireStep, PTL DEF Link!Spec

\* read_frame, parse_response and parse_buffer_data: the handler of a notification connection
\* makes of the events what they say, one by one and in order, and gives the connection up
\* only at an event that was damaged or is empty; for any events, however their bytes are
\* split into segments.
THEOREM EventsRead == Link!Spec => []EventsExact
<1>1. WireInv => EventsExact
  <2> SUFFICES ASSUME WireInv
               PROVE  EventsExact
    OBVIOUS
  <2>1. Len(handled) <= Len(sent) /\ DOMAIN handled = 1..Len(handled)
    BY DEF WireInv, HandlerTypes, EventsServed
  <2>2. ASSUME NEW i \in 1..Len(handled)
        PROVE  /\ sent[i].damage = "none"
               /\ \/ handled[i] = Link!Told(sent[i])
                  \/ /\ sent[i].command = Link!TagEvent
                     /\ handled[i] = [Link!Told(sent[i]) EXCEPT !.ack = 1]
    <3> DEFINE e == sent[i]
    <3>1. i \in 1..Len(sent)
      BY Counts
    <3>2. e \in Link!AllEvents /\ ReadAs(e, handled[i])
      BY <3>1 DEF WireInv, HandlerTypes, EventsServed
    <3> HIDE DEF e
    <3>3. Link!Outcome(Link!Payload(e)) = Link!Told(e)
      BY <3>2, ParsedRight, Zenon DEF ReadAs, Link!ParsedAsTold
    <3> QED BY <3>2, <3>3 DEF ReadAs, Raised, e
  <2>3. refused => LET next == Len(handled) + 1
                   IN /\ next <= Len(sent)
                      /\ sent[next].damage # "none" \/ Link!Payload(sent[next]) = <<>>
    BY Counts DEF WireInv, PlaceKept, Refusable
  <2> QED BY <2>1, <2>2, <2>3 DEF EventsExact, Link!EventsExact
<1> QED BY <1>1, WireInit, WireStep, PTL DEF Link!Spec

(***************************************************************************)
(* The types of both wires.                                                *)
(***************************************************************************)

\* A part of a sequence of bytes.
LEMMA BytesCut ==
    ASSUME NEW s \in Seq(Byte), NEW m \in Nat \ {0}, NEW n \in Int, n <= Len(s)
    PROVE  SubSeq(s, m, n) \in Seq(Byte)
OBVIOUS

\* The smaller of two numbers of bytes, and what read(n) returns of them.
LEMMA SmallerOfTwo ==
    ASSUME NEW x \in Nat, NEW s \in Seq(Byte)
    PROVE  Link!Min({x, Len(s)}) \in 0..Len(s)
<1>1. Len(s) \in Nat
  OBVIOUS
<1>2. Link!Min({x, Len(s)}) = IF x <= Len(s) THEN x ELSE Len(s)
  BY <1>1 DEF Link!Min
<1> QED BY <1>1, <1>2

\* What read(n) returns are bytes, however many the code asks for.
LEMMA BytesChunk ==
    ASSUME answers \in Seq(Byte), NEW n \in Nat
    PROVE  Link!Chunk(n) \in Seq(Byte)
<1> DEFINE size == Link!Min({n, Len(answers)})
<1>1. size \in 0..Len(answers)
  BY SmallerOfTwo
<1> HIDE DEF size
<1>2. SubSeq(answers, 1, size) \in Seq(Byte)
  BY <1>1, Cut
<1> QED BY <1>2 DEF Link!Chunk, size

\* What TypeOK adds to StreamInv and TimerInv.
LineTypes ==
    /\ eof \in BOOLEAN /\ link \in {"up", "down"} /\ waited \in BOOLEAN
    /\ Len(frame) \in {0, 8}

\* Every step keeps them: what is read at once is never more than a frame lacks.
LEMMA LineStep ==
    ASSUME LineTypes, StreamInv, [Next]_transVars
    PROVE  LineTypes'
<1> USE DEF lineVars, transportVars, sentVars, clearVars
<1>1. ASSUME eof' \in BOOLEAN, link' \in {"up", "down"}, waited' \in BOOLEAN,
             frame' = frame \/ frame' = <<>>
      PROVE  LineTypes'
  BY <1>1 DEF LineTypes
<1>2. CASE ReadChunk
  <2> DEFINE size == Min({8 - Len(buffer), Len(stream)})
             a == SubSeq(stream, 1, size)
             bytes == buffer \o a
  <2>1. /\ buffer \in Seq(Byte) /\ Len(buffer) \in Nat /\ Len(buffer) < 8
        /\ stream \in Seq(Byte) /\ Len(stream) \in Nat
    BY DEF StreamInv, BytesOK
  <2>2. size \in 0..Len(stream) /\ size <= 8 - Len(buffer)
    <3>1. size = IF 8 - Len(buffer) <= Len(stream) THEN 8 - Len(buffer) ELSE Len(stream)
      BY <2>1, MinOfTwo
    <3> QED BY <2>1, <3>1
  <2>3. /\ eof' = eof /\ link' = link /\ waited' = FALSE
        /\ frame' = frame \/ (~(Len(bytes) < 8) /\ frame' = bytes)
    BY <1>2 DEF ReadChunk, FRAME_SIZE
  <2> HIDE DEF size
  <2>4. a \in Seq(Byte) /\ Len(a) = size
    BY <2>1, <2>2, Cut
  <2> HIDE DEF a
  <2>5. Len(bytes) = Len(buffer) + size
    BY <2>1, <2>4, BytesJoined
  <2> HIDE DEF bytes
  <2>6. ~(Len(bytes) < 8) => Len(bytes) = 8
    BY <2>1, <2>2, <2>5
  <2> QED BY <2>3, <2>6 DEF LineTypes
<1>3. CASE \E r \in Requests : Send(r) \/ SendDamaged(r)
  BY <1>1, <1>3 DEF Send, SendDamaged, LineTypes
<1>4. CASE (\E n \in Sizes : Arrive(n)) \/ PeerCloses \/ Tick \/ connect
  BY <1>1, <1>4 DEF Arrive, PeerCloses, Tick, connect, LineTypes
<1>5. CASE handle_read_timeout \/ EmptyChunk \/ Reset
  BY <1>1, <1>5 DEF handle_read_timeout, EmptyChunk, Reset, Drop, LineTypes
<1>6. CASE InvalidCrc \/ NoAnswer \/ AnswerFill
  <2>1. (Handled \/ Drop) /\ eof' = eof
    BY <1>6 DEF InvalidCrc, NoAnswer, AnswerFill
  <2> QED BY <1>1, <2>1 DEF Handled, Drop, LineTypes
<1>7. CASE UNCHANGED transVars
  BY <1>1, <1>7 DEF transVars, LineTypes
<1> QED BY <1>2, <1>3, <1>4, <1>5, <1>6, <1>7 DEF Next

\* The types of the command connection.
CommandTypes ==
    /\ count \in 0..Len(Events)
    /\ conn \in {"none", "open", "eof"} /\ disturbed \in BOOLEAN
    /\ asked \in 0..MaxCommands /\ pending \subseteq 1..asked
    /\ coming \in Seq(Byte) /\ answers \in Seq(Byte) /\ start \in Seq(Byte)
    /\ Len(start) = IF pc = "answer_body" THEN 5 ELSE 0

\* Every step keeps them: five bytes of an answer are kept exactly while the rest is awaited.
LEMMA CommandStep ==
    ASSUME CommandTypes, [Link!Next]_Link!vars
    PROVE  CommandTypes'
<1> USE DEF Link!eventVars, Link!handlerVars, Link!commandVars
<1>0. /\ MaxCommands \in Nat /\ MaxCommands <= 255 /\ Segments \subseteq Nat
      /\ DOMAIN Events = 1..Len(Events) /\ Len(Events) \in Nat
  <2>1. /\ MaxCommands \in Byte /\ Segments \subseteq Nat \ {0}
        /\ Events \in Seq(SUBSET Link!AllEvents)
    BY EventsAssumption, SameBytes, Zenon DEF Link!LinkAssumption
  <2> QED BY <2>1, ByteRange
\* The steps of the notification connection.
<1>1. ASSUME UNCHANGED <<conn, disturbed, asked, pending, coming, answers, start>>,
             count' \in 0..Len(Events), pc' # "answer_body", pc # "answer_body"
      PROVE  CommandTypes'
  BY <1>1 DEF CommandTypes
<1>2. CASE \E n \in DOMAIN Events : count = n - 1 /\ \E e \in Events[n] : Link!SendEvent(e)
  <2>1. PICK n \in DOMAIN Events : count = n - 1 /\ \E e \in Events[n] : Link!SendEvent(e)
    BY <1>2
  <2>2. count' = count + 1 /\ UNCHANGED <<Link!handlerVars, Link!commandVars>>
    BY <2>1 DEF Link!SendEvent
  <2>3. count' \in 0..Len(Events)
    BY <1>0, <2>1, <2>2
  <2> QED BY <2>2, <2>3 DEF CommandTypes
<1>3. CASE \E n \in {2, 5, Len(unsent)} : Link!Arrive(n)
  BY <1>3 DEF Link!Arrive, CommandTypes
<1>4. CASE Link!Connect
  BY <1>1, <1>4 DEF Link!Connect, CommandTypes
<1>5. CASE Link!EndOfStream
  BY <1>1, <1>5 DEF Link!EndOfStream, Link!Close, Link!Go, CommandTypes
<1>6. CASE Link!ReadHeader
  <2>1. /\ UNCHANGED <<conn, disturbed, asked, pending, coming, answers, start, count>>
        /\ pc = "header" /\ pc' \in {"closed", "body"}
    BY <1>6 DEF Link!ReadHeader, Link!Close, Link!Go
  <2> QED BY <1>1, <2>1 DEF CommandTypes
<1>7. CASE Link!ReadBody
  <2>1. /\ UNCHANGED <<conn, disturbed, asked, pending, coming, answers, start, count>>
        /\ pc = "body" /\ pc' \in {"closed", "lamp", "ack"}
    BY <1>7 DEF Link!ReadBody, Link!Close, Link!Handle, Link!Go
  <2> QED BY <1>1, <2>1 DEF CommandTypes
<1>8. CASE Link!Ack
  BY <1>1, <1>8 DEF Link!Ack, Link!Close, Link!Go, CommandTypes
<1>9. CASE Link!WriteFails
  BY <1>1, <1>9 DEF Link!WriteFails, Link!Go, CommandTypes
<1>10. CASE Link!Write
  <2>1. /\ pc = "lamp" /\ pc' = "answer" /\ asked < MaxCommands /\ UNCHANGED <<start, count>>
        /\ \/ /\ conn' = "open" /\ asked' = 1 /\ pending' = {1} /\ coming' = <<>>
              /\ answers' = <<>> /\ disturbed' = FALSE
           \/ /\ asked' = asked + 1 /\ UNCHANGED <<conn, coming, answers, disturbed>>
              /\ pending' = pending \cup {asked + 1} \/ pending' = pending
    BY <1>10 DEF Link!Write, Link!Fresh, Link!Go
  <2>2. /\ MaxCommands \in Nat /\ asked \in Nat /\ asked < MaxCommands
        /\ pending \subseteq 1..asked
    BY <1>0, <2>1 DEF CommandTypes
  <2>3. asked' \in 0..MaxCommands /\ pending' \subseteq 1..asked'
    <3>1. CASE asked' = 1 /\ pending' = {1}
      BY <2>2, <3>1, SMT
    <3>2. CASE asked' = asked + 1 /\ (pending' = pending \cup {asked + 1} \/ pending' = pending)
      <4>1. asked' \in Nat /\ asked' <= MaxCommands
        BY <2>2, <3>2
      <4>2. \A k \in pending : k \in 1..asked'
        BY <2>2, <3>2
      <4>3. asked + 1 \in 1..asked'
        BY <2>2, <3>2
      <4>4. pending' \subseteq 1..asked'
        BY <3>2, <4>2, <4>3
      <4>5. asked' \in 0..MaxCommands
        BY <2>2, <4>1
      <4> QED BY <4>4, <4>5
    <3> QED BY <2>1, <3>1, <3>2
  <2>4. coming' \in Seq(Byte) /\ answers' \in Seq(Byte)
    BY <2>1, EmptySeq DEF CommandTypes
  <2> QED BY <2>1, <2>3, <2>4 DEF CommandTypes
<1>11. CASE \E j \in pending : Link!Answer(j)
  <2>1. PICK j \in pending : Link!Answer(j)
    BY <1>11
  <2>2. /\ pending' = {i \in pending : i > j} /\ coming' = Link!Frame(0, <<114, j>>)
        /\ UNCHANGED <<count, pc, conn, asked, answers, start, disturbed>>
    BY <2>1 DEF Link!Answer
  <2>3. 0 \in Byte /\ 114 \in Byte /\ j \in Byte
    <3>1. asked \in 0..MaxCommands /\ j \in 1..asked
      BY DEF CommandTypes
    <3>2. j \in Nat /\ j <= MaxCommands
      BY <1>0, <3>1, SMT
    <3>3. j \in 0..255
      BY <1>0, <3>2, SMT
    <3> QED BY <3>3, ByteRange, SMT
  <2> DEFINE data == <<114, j>>
  <2>4. data \in Seq(Byte) /\ Len(data) = 2
    BY <2>3
  <2> HIDE DEF data
  <2>5. Len(data) + 6 \in 0..MaxWord
    BY <2>4, WordRange
  <2>6. FrameOf(data, Link!Frame(0, data))
    BY <2>3, <2>4, <2>5, ReaderFrame
  <2>7. coming' \in Seq(Byte)
    BY <2>2, <2>6 DEF FrameOf, data
  <2> QED BY <2>2, <2>7 DEF CommandTypes
<1>12. CASE \E n \in Segments : Link!AnswerArrives(n)
  <2>1. PICK n \in Segments : Link!AnswerArrives(n)
    BY <1>12
  <2> DEFINE size == Link!Min({n, Len(coming)})
  <2>2. /\ answers' = answers \o SubSeq(coming, 1, size)
        /\ coming' = SubSeq(coming, size + 1, Len(coming))
        /\ disturbed' = (disturbed \/ size < Len(coming))
        /\ UNCHANGED <<count, pc, conn, asked, pending, start>>
    BY <2>1 DEF Link!AnswerArrives
  <2>3. n \in Nat /\ coming \in Seq(Byte) /\ answers \in Seq(Byte)
    BY <1>0 DEF CommandTypes
  <2>4. size \in 0..Len(coming)
    BY <2>3, SmallerOfTwo
  <2> HIDE DEF size
  <2>5. SubSeq(coming, 1, size) \in Seq(Byte) /\ SubSeq(coming, size + 1, Len(coming)) \in Seq(Byte)
    BY <2>3, <2>4, Cut
  <2>6. answers' \in Seq(Byte) /\ coming' \in Seq(Byte)
    BY <2>2, <2>3, <2>5, BytesJoined
  <2> QED BY <2>2, <2>6 DEF CommandTypes
<1>13. CASE Link!Hangup
  BY <1>13, EmptySeq DEF Link!Hangup, CommandTypes
<1>14. CASE Link!ReadStart
  <2> DEFINE chunk == Link!Chunk(5)
  <2>1. /\ answers' = SubSeq(answers, 5 + 1, Len(answers)) /\ pc = "answer"
        /\ UNCHANGED <<count, conn, asked, pending, coming, disturbed>>
        /\ \/ Len(chunk) = 5 /\ start' = chunk /\ pc' = "answer_body"
           \/ start' = <<>> /\ pc' = "ack"
    BY <1>14 DEF Link!ReadStart, Link!Rest, Link!StartsFrame, Link!Done, Link!Go
  <2>2. answers \in Seq(Byte) /\ Len(answers) \in Nat
    BY DEF CommandTypes
  <2>3. answers' \in Seq(Byte)
    <3>1. 5 + 1 \in Nat \ {0}
      OBVIOUS
    <3> QED BY <2>1, <2>2, <3>1, BytesCut
  <2>4. chunk \in Seq(Byte)
    BY <2>2, BytesChunk
  <2> HIDE DEF chunk
  <2>5. start' \in Seq(Byte) /\ Len(start') = IF pc' = "answer_body" THEN 5 ELSE 0
    BY <2>1, <2>4, EmptySeq
  <2> QED BY <2>1, <2>3, <2>5 DEF CommandTypes
<1>15. CASE Link!ReadRest
  <2> DEFINE n == Link!Remaining(start)
  <2>1. /\ pc = "answer_body" /\ pc' = "ack" /\ start' = <<>>
        /\ answers' = IF n > 0 THEN SubSeq(answers, n + 1, Len(answers)) ELSE answers
        /\ UNCHANGED <<count, conn, asked, pending, coming, disturbed>>
    BY <1>15 DEF Link!ReadRest, Link!Rest, Link!Done, Link!Go
  <2>2. n \in Int
    <3>1. start \in Seq(Byte) /\ Len(start) = 5
      BY <2>1 DEF CommandTypes
    <3>2. start[2] \in Byte /\ start[3] \in Byte
      <4>1. 2 \in 1..Len(start) /\ 3 \in 1..Len(start)
        BY <3>1
      <4> QED BY <3>1, <4>1, ElementOfSeq
    <3>3. start[2] \in Int /\ start[3] \in Int
      BY <3>2, ByteRange
    <3> QED BY <3>3, SameBytes DEF Link!Remaining, Word
  <2> HIDE DEF n
  <2>3. answers \in Seq(Byte) /\ Len(answers) \in Nat
    BY DEF CommandTypes
  <2>4. answers' \in Seq(Byte)
    <3>1. n > 0 => n + 1 \in Nat \ {0}
      BY <2>2
    <3> QED BY <2>1, <2>3, <3>1, BytesCut
  <2> QED BY <2>1, <2>4, EmptySeq DEF CommandTypes
<1>16. CASE Link!Timeout \/ Link!Reset
  <2>1. /\ pc' = "ack" /\ start' = <<>> /\ disturbed' \in BOOLEAN /\ count' = count
        /\ \/ UNCHANGED <<conn, asked, pending, coming, answers>>
           \/ /\ conn' = "none" /\ asked' = 0 /\ pending' = {}
              /\ coming' = <<>> /\ answers' = <<>>
    BY <1>16 DEF Link!Timeout, Link!Reset, Link!Done, Link!Go
  <2>2. start' \in Seq(Byte) /\ Len(start') = 0
    BY <2>1, EmptySeq
  <2>3. /\ asked' \in 0..MaxCommands /\ pending' \subseteq 1..asked'
        /\ conn' \in {"none", "open", "eof"}
    <3>1. CASE UNCHANGED <<conn, asked, pending>>
      BY <3>1 DEF CommandTypes
    <3>2. CASE conn' = "none" /\ asked' = 0 /\ pending' = {}
      <4>1. 0 \in 0..MaxCommands
        BY <1>0
      <4> QED BY <3>2, <4>1
    <3> QED BY <2>1, <3>1, <3>2
  <2>4. coming' \in Seq(Byte) /\ answers' \in Seq(Byte)
    BY <2>1, EmptySeq DEF CommandTypes
  <2> QED BY <2>1, <2>2, <2>3, <2>4 DEF CommandTypes
<1>17. CASE UNCHANGED Link!vars
  BY <1>17 DEF Link!vars, CommandTypes
<1> QED BY <1>2, <1>3, <1>4, <1>5, <1>6, <1>7, <1>8, <1>9, <1>10, <1>11, <1>12, <1>13, <1>14,
           <1>15, <1>16, <1>17 DEF Link!Next

\* The variables of both wires keep their types, whatever both do: of the carousel line, no
\* more is kept of an unfinished frame than it has bytes, and its timer is within the limit.
THEOREM WiresTypeCorrect == Spec /\ Link!Spec => []WiresTypeOK
<1>1. Init => StreamInv /\ TimerInv /\ LineTypes
  <2> SUFFICES ASSUME Init PROVE StreamInv /\ TimerInv /\ LineTypes
    OBVIOUS
  <2>1. StreamInv /\ TimerInv
    BY StreamInit DEF Init, TimerInv
  <2>2. frame = <<>> /\ eof = FALSE /\ link = "down" /\ waited = FALSE
    BY DEF Init
  <2> QED BY <2>1, <2>2, EmptySeq DEF LineTypes
<1>2. StreamInv /\ TimerInv /\ LineTypes /\ [Next]_transVars
      => (StreamInv /\ TimerInv /\ LineTypes)'
  BY StreamStep, TimerStep, LineStep DEF StreamInv
<1>3. Link!Init => WireInv /\ CommandTypes
  <2> SUFFICES ASSUME Link!Init PROVE CommandTypes
    BY WireInit
  <2>1. MaxCommands \in Nat /\ Len(Events) \in Nat
    <3>1. MaxCommands \in Byte /\ Events \in Seq(SUBSET Link!AllEvents)
      BY EventsAssumption, SameBytes, Zenon DEF Link!LinkAssumption
    <3> QED BY <3>1, ByteRange
  <2>2. /\ count = 0 /\ conn \in {"none", "open"} /\ asked = 0 /\ pending = {} /\ coming = <<>>
        /\ answers = <<>> /\ start = <<>> /\ disturbed = FALSE /\ pc = "header"
    BY DEF Link!Init
  <2>3. count \in 0..Len(Events) /\ asked \in 0..MaxCommands /\ pending \subseteq 1..asked
    BY <2>1, <2>2
  <2> QED BY <2>2, <2>3, EmptySeq DEF CommandTypes
<1>4. WireInv /\ CommandTypes /\ [Link!Next]_Link!vars => (WireInv /\ CommandTypes)'
  BY WireStep, CommandStep
<1>5. StreamInv /\ TimerInv /\ LineTypes => TypeOK
  BY DEF StreamInv, BytesOK, TimerInv, LineTypes, TypeOK, FRAME_SIZE
<1>6. WireInv /\ CommandTypes => Link!TypeOK
  <2> SUFFICES ASSUME WireInv, CommandTypes PROVE Link!TypeOK
    OBVIOUS
  <2>1. HandlerTypes /\ Link!Byte = Byte
    BY SameBytes DEF WireInv
  <2> QED BY <2>1 DEF HandlerTypes, CommandTypes, Link!TypeOK, Serving
<1> QED BY <1>1, <1>2, <1>3, <1>4, <1>5, <1>6, PTL DEF Spec, Link!Spec, WiresTypeOK

(***************************************************************************)
(* The answers on the command connection.                                  *)
(*                                                                         *)
(* While nothing disturbs it, the bytes of the one answer that is awaited  *)
(* are all there is.  Afterwards what is unread is a stretch of a series   *)
(* of answers, each for a later command than the one before, and a stretch *)
(* is taken for an answer only where one begins (OneStart).                *)
(***************************************************************************)

\* The answer to command k.
AnswerTo(k) == Link!Frame(0, <<114, k>>)

\* It is a frame of eight bytes that is parsed as what it says.
LEMMA AnswerFrame ==
    ASSUME NEW k \in Byte
    PROVE  /\ AnswerTo(k) \in Seq(Byte) /\ Len(AnswerTo(k)) = 8
           /\ AnswerTo(k)[1] = 2 /\ Word(AnswerTo(k)[2], AnswerTo(k)[3]) = 8
           /\ Link!parse_response(AnswerTo(k)) = [valid |-> TRUE, data |-> <<114, k>>]
<1> DEFINE data == <<114, k>>
           f == Link!Frame(0, data)
<1>1. 0 \in Byte /\ 114 \in Byte
  BY ByteRange
<1>2. data \in Seq(Byte) /\ Len(data) = 2
  BY <1>1
<1> HIDE DEF data
<1>3. Len(data) + 6 \in 0..MaxWord /\ Len(data) + 6 = 8
  BY <1>2, WordRange
<1>4. FrameOf(data, f)
  BY <1>1, <1>2, <1>3, ReaderFrame
<1> HIDE DEF f
<1>5. /\ f \in Seq(Byte) /\ Len(f) = 8 /\ f[1] = 2 /\ Word(f[2], f[3]) = 8
      /\ Link!parse_response(f) = [valid |-> TRUE, data |-> data]
  BY <1>3, <1>4, Zenon DEF FrameOf
<1>6. AnswerTo(k) = f
  BY DEF AnswerTo, f, data
<1> QED BY <1>5, <1>6 DEF data

\* The bytes s are those after the first p of the answers to the commands of ks.
Stretch(s, ks, p) ==
    /\ p + Len(s) <= 8 * Len(ks)
    /\ \A m \in 1..Len(ks), r \in 1..8 :
          8 * (m - 1) + r - p \in 1..Len(s) => s[8 * (m - 1) + r - p] = AnswerTo(ks[m])[r]

\* Its parts are stretches too.
LEMMA StretchCut ==
    ASSUME NEW s \in Seq(Byte), NEW ks \in Seq(Nat), NEW p \in Nat, Stretch(s, ks, p),
           NEW n \in 0..Len(s)
    PROVE  /\ Stretch(SubSeq(s, 1, n), ks, p)
           /\ Stretch(SubSeq(s, n + 1, Len(s)), ks, p + n)
<1> DEFINE a == SubSeq(s, 1, n)
           b == SubSeq(s, n + 1, Len(s))
           l == Len(s)
<1>1. /\ Len(a) = n /\ Len(b) = l - n /\ l \in Nat /\ n \in 0..l
      /\ \A i \in 1..n : a[i] = s[i]
      /\ \A i \in 1..(l - n) : b[i] = s[n + i]
  BY Cut
<1>2. Len(ks) \in Nat
  OBVIOUS
<1> HIDE DEF a, b, l
<1>3. ASSUME NEW m \in 1..Len(ks), NEW r \in 1..8
      PROVE  /\ 8 * (m - 1) + r - p \in 1..n => a[8 * (m - 1) + r - p] = AnswerTo(ks[m])[r]
             /\ 8 * (m - 1) + r - (p + n) \in 1..(l - n)
                  => b[8 * (m - 1) + r - (p + n)] = AnswerTo(ks[m])[r]
  <2> DEFINE i == 8 * (m - 1) + r - p
  <2>1. i \in Int /\ 8 * (m - 1) + r - (p + n) = i - n /\ n + (i - n) = i
    <3>1. m \in Int /\ r \in Int /\ n \in Int
      BY <1>1, <1>2
    <3> QED BY <3>1
  <2>2. i \in 1..l => s[i] = AnswerTo(ks[m])[r]
    BY DEF Stretch, l
  <2> HIDE DEF i
  <2>3. i \in 1..n => a[i] = AnswerTo(ks[m])[r]
    BY <1>1, <2>1, <2>2
  <2>4. i - n \in 1..(l - n) => b[i - n] = AnswerTo(ks[m])[r]
    BY <1>1, <2>1, <2>2
  <2> QED BY <2>1, <2>3, <2>4 DEF i
<1>4. p + n <= 8 * Len(ks) /\ (p + n) + (l - n) <= 8 * Len(ks)
  <2>1. p + l <= 8 * Len(ks)
    BY DEF Stretch, l
  <2> QED BY <1>1, <1>2, <2>1
<1>5. Stretch(a, ks, p)
  BY <1>1, <1>3, <1>4 DEF Stretch
<1>6. Stretch(b, ks, p + n)
  BY <1>1, <1>3, <1>4 DEF Stretch
<1> QED BY <1>5, <1>6 DEF a, b, l

\* One that reaches to the end goes on with the next answer.
LEMMA StretchGrown ==
    ASSUME NEW s \in Seq(Byte), NEW ks \in Seq(Nat), NEW p \in Nat, Stretch(s, ks, p),
           p + Len(s) = 8 * Len(ks), NEW k \in Byte
    PROVE  /\ Stretch(s \o AnswerTo(k), Append(ks, k), p)
           /\ p + Len(s \o AnswerTo(k)) = 8 * Len(Append(ks, k))
<1> DEFINE f == AnswerTo(k)
           t == s \o f
           js == Append(ks, k)
           l == Len(s)
           n == Len(ks)
<1>1. f \in Seq(Byte) /\ Len(f) = 8
  BY AnswerFrame
<1> HIDE DEF f
<1>2. /\ t \in Seq(Byte) /\ Len(t) = l + 8 /\ l \in Nat
      /\ \A i \in 1..l : t[i] = s[i]
      /\ \A i \in 1..8 : t[l + i] = f[i]
  <2>1. /\ t \in Seq(Byte) /\ Len(t) = Len(s) + Len(f)
        /\ \A i \in 1..Len(s) : t[i] = s[i]
        /\ \A i \in 1..Len(f) : t[Len(s) + i] = f[i]
    BY <1>1, BytesJoined
  <2> HIDE DEF t
  <2> QED BY <1>1, <2>1
<1>3. k \in Nat
  BY ByteRange
<1>4. Len(js) = n + 1 /\ n \in Nat /\ js[n + 1] = k /\ \A m \in 1..n : js[m] = ks[m]
  BY <1>3
<1>5. p + l = 8 * n
  OBVIOUS
<1> HIDE DEF t, js, l, n
<1>6. p + Len(t) = 8 * Len(js)
  BY <1>2, <1>4, <1>5
<1>7. ASSUME NEW m \in 1..Len(js), NEW r \in 1..8, 8 * (m - 1) + r - p \in 1..Len(t)
      PROVE  t[8 * (m - 1) + r - p] = AnswerTo(js[m])[r]
  <2> DEFINE i == 8 * (m - 1) + r - p
  <2>1. CASE m = n + 1
    <3>1. i = l + r
      BY <1>2, <1>4, <1>5, <2>1
    <3>2. t[l + r] = f[r]
      BY <1>2
    <3> QED BY <1>4, <2>1, <3>1, <3>2 DEF f
  <2>2. CASE m # n + 1
    <3>1. m \in 1..n /\ js[m] = ks[m]
      BY <1>4, <2>2
    <3>2. i \in 1..l
      <4>1. i \in Int /\ 1 <= i
        BY <1>2, <1>7
      <4>2. m \in Int /\ m <= n /\ n \in Int /\ l \in Int
        BY <1>2, <1>4, <3>1
      <4>3. 8 * (m - 1) + r <= 8 * n
        BY <4>2
      <4> QED BY <1>2, <1>5, <4>1, <4>2, <4>3
    <3>3. s[i] = AnswerTo(ks[m])[r]
      BY <3>1, <3>2 DEF Stretch, l, n
    <3> QED BY <1>2, <3>1, <3>2, <3>3
  <2> QED BY <2>1, <2>2
<1>8. Stretch(t, js, p)
  BY <1>2, <1>4, <1>6, <1>7 DEF Stretch
<1> QED BY <1>6, <1>8 DEF t, js, f

\* Every byte has its place in one of the answers.
LEMMA Place ==
    ASSUME NEW p \in Nat
    PROVE  \E m \in Nat \ {0}, r \in 1..8 : p + 1 = 8 * (m - 1) + r
<1> DEFINE q == p \div 8
           e == p % 8
<1>1. q \in Nat /\ e \in 0..7 /\ p = 8 * q + e
  OBVIOUS
<1> HIDE DEF q, e
<1>2. q + 1 \in Nat \ {0} /\ e + 1 \in 1..8 /\ p + 1 = 8 * ((q + 1) - 1) + (e + 1)
  BY <1>1
<1> QED BY <1>2

\* What is taken for an answer is one: that of which it has the first byte.
LEMMA RightStart ==
    ASSUME Link!OneStart(MaxCommands), MaxCommands \in Nat, MaxCommands <= 255,
           NEW ks \in Seq(1..MaxCommands), Len(ks) <= MaxCommands, NEW p \in Nat,
           NEW s \in Seq(Byte), Stretch(s, ks, p), Len(s) >= 5, Link!parse_response(s).valid
    PROVE  Word(s[2], s[3]) <= Len(s) /\ \E m \in 1..Len(ks) :
              p = 8 * (m - 1) /\ \A r \in 1..8 : r <= Len(s) => s[r] = AnswerTo(ks[m])[r]
<1> DEFINE l == Len(s)
           n == Len(ks)
<1>1. /\ l \in Nat /\ l >= 5 /\ n \in Nat /\ n <= MaxCommands /\ p + l <= 8 * n
      /\ \A m \in 1..n : ks[m] \in 1..MaxCommands
  BY DEF Stretch
<1>2. \A m \in 1..n, r \in 1..8 :
          8 * (m - 1) + r - p \in 1..l => s[8 * (m - 1) + r - p] = AnswerTo(ks[m])[r]
  BY DEF Stretch
<1>3. \A m \in 1..n : ks[m] \in Byte
  <2> SUFFICES ASSUME NEW m \in 1..n PROVE ks[m] \in Byte
    OBVIOUS
  <2>1. ks[m] \in 1..MaxCommands
    BY <1>1
  <2>2. ks[m] \in Int /\ 0 <= ks[m] /\ ks[m] <= 255
    BY <2>1
  <2> QED BY <2>2, ByteRange
<1>10. s[1] = 2
  <2>1. s[1] # Link!STX => Link!parse_response(s) = Link!Invalid
    BY SMT DEF Link!parse_response
  <2> QED BY <2>1, SameBytes DEF Link!Invalid
<1>4. Word(s[2], s[3]) <= l
  <2>2. SUFFICES ASSUME ~(Word(s[2], s[3]) <= l) PROVE FALSE
    OBVIOUS
  <2>3. Word(s[2], s[3]) \in Int
    <3>1. s[2] \in Byte /\ s[3] \in Byte
      BY <1>1
    <3>2. s[2] \in Int /\ s[3] \in Int
      BY <3>1, ByteRange
    <3> QED BY <3>2 DEF Word
  <2>4. Len(s) < Link!Word(s[2], s[3])
    <3>1. Len(s) < Word(s[2], s[3])
      BY <1>1, <2>2, <2>3
    <3> QED BY <3>1, SameBytes
  <2>5. Link!parse_response(s) = Link!Invalid
    BY <2>4, SMT DEF Link!parse_response
  <2> QED BY <2>5 DEF Link!Invalid
<1>5. PICK m \in Nat \ {0}, r \in 1..8 : p + 1 = 8 * (m - 1) + r
  BY Place
<1>6. m \in 1..n
  BY <1>1, <1>5
<1> HIDE DEF l, n
<1>7. AnswerTo(ks[m])[r] = 2
  <2> DEFINE i == 8 * (m - 1) + r - p
  <2>1. i = 1
    BY <1>5
  <2>2. i \in 1..l => s[i] = AnswerTo(ks[m])[r]
    BY <1>2, <1>6
  <2> HIDE DEF i
  <2> QED BY <1>1, <1>10, <2>1, <2>2
<1>8. CASE r = 1
  <2>1. p = 8 * (m - 1)
    BY <1>5, <1>8
  <2>2. ASSUME NEW i \in 1..8, i <= l PROVE s[i] = AnswerTo(ks[m])[i]
    <3> DEFINE j == 8 * (m - 1) + i - p
    <3>1. j = i
      BY <1>5, <2>1
    <3>2. j \in 1..l => s[j] = AnswerTo(ks[m])[i]
      BY <1>2, <1>6
    <3> HIDE DEF j
    <3> QED BY <1>1, <2>2, <3>1, <3>2, SMTT(20)
  <2> QED BY <1>4, <1>6, <2>1, <2>2 DEF l, n
<1>9. CASE r # 1
  <2> DEFINE h == IF m < n THEN m + 1 ELSE m
             a == AnswerTo(ks[m])
             b == AnswerTo(ks[h])
             two == a \o b
  <2>1. h \in 1..n
    BY <1>1, <1>6
  <2>2. a \in Seq(Byte) /\ Len(a) = 8 /\ b \in Seq(Byte) /\ Len(b) = 8
    BY <1>3, <1>6, <2>1, AnswerFrame
  <2>3. Word(two[r + 1], two[r + 2]) > 8 * MaxCommands
    <3>1. r \in 2..8 /\ a[r] = Link!STX
      BY <1>7, <1>9, SameBytes
    <3>2. ks[m] \in 1..MaxCommands /\ ks[h] \in 1..MaxCommands
      BY <1>1, <1>6, <2>1
    <3>3. Link!Word(two[r + 1], two[r + 2]) > 8 * MaxCommands
      <4>1. ASSUME NEW x \in 1..MaxCommands, NEW y \in 1..MaxCommands, NEW i \in 2..8,
                   AnswerTo(x)[i] = Link!STX
            PROVE  LET xy == AnswerTo(x) \o AnswerTo(y)
                   IN Link!Word(xy[i + 1], xy[i + 2]) > 8 * MaxCommands
        <5>1. \A e \in 2..8 : AnswerTo(x)[e] = Link!STX =>
                 \A z \in 1..MaxCommands :
                    LET xz == AnswerTo(x) \o AnswerTo(z)
                    IN Link!Word(xz[e + 1], xz[e + 2]) > 8 * MaxCommands
          BY Zenon DEF Link!OneStart, AnswerTo
        <5> QED BY <4>1, <5>1, Zenon
      <4> HIDE DEF h
      <4> QED BY <3>1, <3>2, <4>1
    <3> QED BY <3>3, SameBytes
  <2>4. /\ \A i \in 1..8 : two[i] = a[i]
        /\ \A i \in 1..8 : two[8 + i] = b[i]
    <3> HIDE DEF a, b
    <3>1. /\ \A i \in 1..Len(a) : two[i] = a[i]
          /\ \A i \in 1..Len(b) : two[Len(a) + i] = b[i]
      BY <2>2, BytesJoined
    <3> HIDE DEF two
    <3> QED BY <2>2, <3>1
  <2> HIDE DEF two
  <2>5. ASSUME NEW i \in 1..2
        PROVE  s[i + 1] = two[r + i]
    <3>1. CASE r + i <= 8
      <4>1. r + i \in 1..8 /\ 8 * (m - 1) + (r + i) - p = i + 1 /\ i + 1 \in 1..l
        BY <1>1, <1>5, <3>1
      <4>2. s[i + 1] = AnswerTo(ks[m])[r + i]
        BY <1>2, <1>6, <4>1
      <4> QED BY <2>4, <4>1, <4>2
    <3>2. CASE r + i > 8
      <4> DEFINE j == r + i - 8
      <4>1. j \in 1..8 /\ 8 + j = r + i /\ 8 * ((m + 1) - 1) + j - p = i + 1 /\ i + 1 \in 1..l
        BY <1>1, <1>5, <3>2
      <4>2. m < n /\ m + 1 \in 1..n
        <5>1. p + 1 + i <= 8 * n
          BY <1>1, <1>5
        <5> QED BY <1>1, <1>5, <1>6, <3>2, <5>1
      <4> HIDE DEF j
      <4>3. s[i + 1] = AnswerTo(ks[m + 1])[j]
        BY <1>2, <4>1, <4>2
      <4>4. h = m + 1
        BY <4>2
      <4> HIDE DEF h
      <4>5. two[8 + j] = b[j]
        BY <2>4, <4>1
      <4> QED BY <4>1, <4>3, <4>4, <4>5
    <3> QED BY <1>5, <3>1, <3>2
  <2>6. s[2] = two[r + 1] /\ s[3] = two[r + 2]
    <3>1. 1 + 1 = 2 /\ 2 + 1 = 3 /\ 1 \in 1..2 /\ 2 \in 1..2
      OBVIOUS
    <3> QED BY <2>5, <3>1
  <2> HIDE DEF a, b, h
  <2> DEFINE w == Word(s[2], s[3])
  <2>7. w <= l /\ w > 8 * MaxCommands /\ l <= 8 * n /\ n <= MaxCommands
    BY <1>1, <1>4, <2>3, <2>6
  <2>8. w \in Int
    <3>1. s[2] \in Byte /\ s[3] \in Byte
      BY <1>1 DEF l
    <3>2. s[2] \in Int /\ s[3] \in Int
      BY <3>1, ByteRange
    <3> QED BY <3>2, SMTT(20) DEF Word
  <2> HIDE DEF w
  <2> QED BY <1>1, <2>7, <2>8
<1> QED BY <1>8, <1>9

\* Bytes not taken off the connection yet, and those of an answer the handler has.
Unheard == start \o (answers \o coming)

\* They are a stretch of the answers to the commands of ks, which come before those to the
\* commands that are pending.
Series(ks, p) ==
    /\ Len(ks) <= asked /\ \A m \in 1..Len(ks) : ks[m] \in 1..asked
    /\ \A i, j \in 1..Len(ks) : i < j => ks[i] < ks[j]
    /\ \A k \in pending : Len(ks) < k /\ \A m \in 1..Len(ks) : ks[m] < k
    /\ Stretch(Unheard, ks, p)
    /\ conn = "open" => p + Len(Unheard) = 8 * Len(ks)

\* An answer was taken after those to earlier commands, and for a command at least as late
\* as its own; those still to be read are to later ones.
Taken(ks, p) ==
    /\ took \in Seq([asked : Nat, status : Nat])
    /\ \A i \in 1..Len(took) : took[i].status <= took[i].asked /\ took[i].asked <= asked
    /\ \A i, j \in 1..Len(took) : j < i => took[j].status < took[i].status
    /\ \A i \in 1..Len(took) :
          /\ \A k \in pending : took[i].status < k
          /\ \A m \in 1..Len(ks) : 8 * m > p => took[i].status < ks[m]

InSeries == \E ks \in Seq(Nat), p \in Nat : Series(ks, p) /\ Taken(ks, p)

\* What is unread consists of bytes.
LEMMA UnheardBytes ==
    ASSUME CommandTypes
    PROVE  Unheard \in Seq(Byte) /\ answers \o coming \in Seq(Byte)
<1>1. answers \o coming \in Seq(Byte)
  BY BytesJoined DEF CommandTypes
<1> QED BY <1>1, BytesJoined DEF CommandTypes, Unheard

\* So it is after a step.
LEMMA UnheardBytesNext ==
    ASSUME CommandTypes'
    PROVE  Unheard' \in Seq(Byte)
<1>1. answers' \o coming' \in Seq(Byte)
  BY BytesJoined DEF CommandTypes
<1> QED BY <1>1, BytesJoined DEF CommandTypes, Unheard

\* Reading bytes, or losing those to come, leaves a stretch of the series.
LEMMA SeriesRead ==
    ASSUME CommandTypes, NEW ks \in Seq(Nat), NEW p \in Nat, Series(ks, p),
           NEW n \in 0..Len(Unheard), Unheard' = SubSeq(Unheard, n + 1, Len(Unheard)),
           asked' = asked, pending' = pending, conn' = conn
    PROVE  Series(ks, p + n)'
<1> DEFINE u == Unheard
           v == Unheard'
<1>1. u \in Seq(Byte)
  BY UnheardBytes
<1>2. Stretch(SubSeq(u, n + 1, Len(u)), ks, p + n)
  BY <1>1, StretchCut DEF Series
<1>3. Len(v) = Len(u) - n /\ Len(u) \in Nat /\ n \in Int
  BY <1>1, Cut
<1>4. Stretch(v, ks, p + n)
  BY <1>2
<1>5. conn = "open" => p + Len(u) = 8 * Len(ks)
  BY DEF Series
<1> DEFINE a == Len(u)
           b == Len(v)
           e == 8 * Len(ks)
<1> HIDE DEF u, v
<1>6. conn = "open" => (p + n) + b = e
  <2>1. b = a - n /\ a \in Nat /\ n \in Int /\ p \in Int /\ (conn = "open" => p + a = e)
    BY <1>3, <1>5
  <2> HIDE DEF a, b, e
  <2> QED BY <2>1
<1> QED BY <1>4, <1>6 DEF Series, v

\* What was taken stays right when more is read or asked.
LEMMA TakenKept ==
    ASSUME NEW ks \in Seq(Nat), NEW p \in Nat, NEW q \in Nat, p <= q, Taken(ks, p),
           asked \in Nat, took' = took, asked' \in {asked, asked + 1},
           pending' \subseteq pending \cup {asked + 1}
    PROVE  Taken(ks, q)'
<1>1. ASSUME NEW i \in 1..Len(took)
      PROVE  took[i].status \in Nat /\ took[i].asked \in Nat
  <2>1. took \in Seq([asked : Nat, status : Nat])
    BY DEF Taken
  <2>2. took[i] \in [asked : Nat, status : Nat]
    BY <2>1, ElementOfSeq, Zenon
  <2> QED BY <2>2
<1>2. ASSUME NEW i \in 1..Len(took)
      PROVE  /\ took[i].status <= took[i].asked /\ took[i].asked <= asked'
             /\ \A k \in pending' : took[i].status < k
             /\ \A m \in 1..Len(ks) : 8 * m > q => took[i].status < ks[m]
  <2>1. /\ took[i].status \in Nat /\ took[i].asked \in Nat
        /\ took[i].status <= took[i].asked /\ took[i].asked <= asked
    BY <1>1 DEF Taken
  <2>2. took[i].asked <= asked' /\ took[i].status < asked + 1
    BY <2>1, SMTT(20)
  <2>3. \A k \in pending' : took[i].status < k
    BY <2>2 DEF Taken
  <2>4. \A m \in 1..Len(ks) : 8 * m > q => took[i].status < ks[m]
    BY DEF Taken
  <2> QED BY <2>1, <2>2, <2>3, <2>4
<1>3. /\ took \in Seq([asked : Nat, status : Nat])
      /\ \A i, j \in 1..Len(took) : j < i => took[j].status < took[i].status
  BY DEF Taken
<1> QED BY <1>2, <1>3 DEF Taken

\* What read(n) takes, and what it leaves.
LEMMA Chunks ==
    ASSUME answers \in Seq(Byte), NEW n \in Int
    PROVE  \E rest \in Seq(Byte) :
              /\ Link!Chunk(n) \in Seq(Byte) /\ answers = Link!Chunk(n) \o rest
              /\ rest = IF n > 0 THEN Link!Rest(n) ELSE answers
              /\ n >= 0 => Len(Link!Chunk(n)) <= n
<1> DEFINE l == Len(answers)
           size == Link!Min({n, l})
<1>1. l \in Nat
  OBVIOUS
<1>2. size = IF n <= l THEN n ELSE l
  BY <1>1 DEF Link!Min
<1>3. Link!Chunk(n) = SubSeq(answers, 1, size) /\ Link!Rest(n) = SubSeq(answers, n + 1, l)
  BY DEF Link!Chunk, Link!Rest
<1>4. CASE n > 0
  <2>1. size \in 0..l /\ size <= n
    BY <1>1, <1>2, <1>4
  <2>2. SubSeq(answers, n + 1, l) = SubSeq(answers, size + 1, l)
    <3>1. CASE n <= l
      BY <1>2, <3>1
    <3>2. CASE n > l
      <4>1. size = l
        BY <1>1, <1>2, <3>2
      <4>2. SubSeq(answers, n + 1, l) = <<>>
        <5>1. n + 1 \in Int /\ n + 1 > l
          BY <1>1, <3>2
        <5> QED BY <1>1, <5>1
      <4>3. SubSeq(answers, l + 1, l) = <<>>
        <5>1. l + 1 \in Int /\ l + 1 > l
          BY <1>1
        <5> QED BY <1>1, <5>1
      <4> QED BY <4>1, <4>2, <4>3
    <3>3. n <= l \/ n > l
      BY <1>1
    <3> QED BY <3>1, <3>2, <3>3
  <2> HIDE DEF size
  <2>3. /\ SubSeq(answers, 1, size) \in Seq(Byte) /\ Len(SubSeq(answers, 1, size)) = size
        /\ SubSeq(answers, size + 1, l) \in Seq(Byte)
        /\ SubSeq(answers, 1, size) \o SubSeq(answers, size + 1, l) = answers
    BY <2>1, Cut DEF l
  <2> QED BY <1>3, <1>4, <2>1, <2>2, <2>3
<1>5. CASE ~(n > 0)
  <2>1. size = n
    BY <1>1, <1>2, <1>5
  <2>2. SubSeq(answers, 1, n) = <<>>
    BY <1>5
  <2>3. Link!Chunk(n) = <<>> /\ <<>> \o answers = answers /\ Len(<<>>) = 0
    BY <1>3, <2>1, <2>2
  <2> QED BY <1>5, <2>3, EmptySeq
<1> QED BY <1>4, <1>5

\* What is read of an answer is the first part of what is unread, and the rest stays.
LEMMA ReadPart ==
    ASSUME CommandTypes, NEW n \in Int, start' = <<>>, coming' = coming,
           answers' = IF n > 0 THEN Link!Rest(n) ELSE answers
    PROVE  LET s == start \o Link!Chunk(n)
           IN /\ s \in Seq(Byte) /\ Len(s) \in Len(start)..Len(Unheard)
              /\ s = SubSeq(Unheard, 1, Len(s))
              /\ Unheard' = SubSeq(Unheard, Len(s) + 1, Len(Unheard))
              /\ n >= 0 => Len(s) <= Len(start) + n
<1> DEFINE c == Link!Chunk(n)
           s == start \o c
<1>1. start \in Seq(Byte) /\ answers \in Seq(Byte) /\ coming \in Seq(Byte)
  BY DEF CommandTypes
<1>2. PICK rest \in Seq(Byte) : /\ c \in Seq(Byte) /\ answers = c \o rest /\ answers' = rest
                                /\ n >= 0 => Len(c) <= n
  BY <1>1, Chunks
<1> HIDE DEF c
<1>8. c \in Seq(Byte) /\ rest \in Seq(Byte)
  BY <1>2
<1> DEFINE t == rest \o coming
<1>3. s \in Seq(Byte) /\ Len(s) = Len(start) + Len(c) /\ t \in Seq(Byte)
  BY <1>1, <1>2, BytesJoined
<1>4. Unheard = s \o t
  <2>1. (c \o rest) \o coming = c \o (rest \o coming)
    BY <1>1, <1>8, Regrouped
  <2>2. start \o (c \o t) = (start \o c) \o t
    <3>1. start \in Seq(Byte) /\ c \in Seq(Byte) /\ t \in Seq(Byte)
      BY <1>1, <1>3, <1>8
    <3> HIDE DEF t
    <3> QED BY <3>1, Regrouped, Zenon
  <2>3. Unheard = start \o (c \o t)
    BY <1>2, <2>1 DEF Unheard
  <2> QED BY <2>2, <2>3
<1>5. Unheard' = t
  <2>1. Unheard' = <<>> \o t
    BY <1>2, Zenon DEF Unheard
  <2> QED BY <1>3, <2>1, ConcatEmptySeq, Zenon
<1> HIDE DEF t, s
<1>6. /\ SubSeq(Unheard, 1, Len(s)) = s /\ SubSeq(Unheard, Len(s) + 1, Len(Unheard)) = t
      /\ Len(Unheard) = Len(s) + Len(t)
  BY <1>3, <1>4, CutJoined, BytesJoined
<1>7. Len(s) \in Len(start)..Len(Unheard) /\ (n >= 0 => Len(s) <= Len(start) + n)
  BY <1>1, <1>2, <1>3, <1>6
<1> QED BY <1>3, <1>5, <1>6, <1>7 DEF s, c

\* Reading bytes that are not an answer, or losing those read.
LEMMA ReadOn ==
    ASSUME CommandTypes, InSeries, NEW n \in 0..Len(Unheard),
           Unheard' = SubSeq(Unheard, n + 1, Len(Unheard)),
           asked' = asked, pending' = pending, conn' = conn, took' = took
    PROVE  InSeries'
<1>1. PICK ks \in Seq(Nat), p \in Nat : Series(ks, p) /\ Taken(ks, p)
  BY DEF InSeries
<1>2. n \in Nat /\ p + n \in Nat /\ p <= p + n /\ asked \in Nat
  <2>1. Unheard \in Seq(Byte) /\ asked \in 0..MaxCommands
    BY UnheardBytes DEF CommandTypes
  <2> QED BY <2>1
<1>3. Series(ks, p + n)'
  BY <1>1, SeriesRead
<1>4. Taken(ks, p + n)'
  BY <1>1, <1>2, TakenKept
<1> QED BY <1>2, <1>3, <1>4, Zenon DEF InSeries

\* What comes in, or is moved, stays in its place.
LEMMA SameBytesUnheard ==
    ASSUME CommandTypes, InSeries, Unheard' = Unheard,
           asked' = asked, pending' = pending, conn' = conn, took' = took
    PROVE  InSeries'
<1>1. Unheard \in Seq(Byte) /\ 0 \in 0..Len(Unheard) /\ 0 + 1 = 1
  BY UnheardBytes
<1>2. Unheard' = SubSeq(Unheard, 0 + 1, Len(Unheard))
  BY <1>1, SubSeqFull
<1> QED BY <1>1, <1>2, ReadOn

\* What is supposed of the commands and the segments.
LEMMA CommandBounds ==
    /\ MaxCommands \in Nat /\ MaxCommands <= 255 /\ Segments \subseteq Nat \ {0}
<1>1. MaxCommands \in Byte /\ Segments \subseteq Nat \ {0}
  BY EventsAssumption, SameBytes, Zenon DEF Link!LinkAssumption
<1> QED BY <1>1, ByteRange

\* What is taken for an answer is the next one of the series, whole.
LEMMA WholeAnswer ==
    ASSUME CommandTypes, Link!OneStart(MaxCommands), NEW ks \in Seq(Nat), NEW p \in Nat,
           Series(ks, p), NEW s \in Seq(Byte), Stretch(s, ks, p), Len(s) >= 5,
           s[2] = start[2], s[3] = start[3],
           Link!Remaining(start) >= 0 => Len(s) <= 5 + Link!Remaining(start),
           Link!parse_response(s).valid
    PROVE  Len(s) = 8 /\ \E m \in 1..Len(ks) :
              /\ p = 8 * (m - 1) /\ ks[m] \in 1..asked
              /\ Link!parse_response(s).data[2] = ks[m]
<1>1. asked \in 0..MaxCommands /\ MaxCommands \in Nat /\ MaxCommands <= 255
  BY CommandBounds DEF CommandTypes
<1>2. ks \in Seq(1..MaxCommands) /\ Len(ks) <= MaxCommands
  <2>1. ASSUME NEW m \in 1..Len(ks) PROVE ks[m] \in 1..MaxCommands
    <3>1. ks[m] \in 1..asked
      BY DEF Series
    <3> QED BY <1>1, <3>1
  <2>2. Len(ks) <= asked /\ Len(ks) \in Nat
    BY DEF Series
  <2>3. ks \in Seq(1..MaxCommands)
    BY <2>1, Retyped
  <2>4. Len(ks) <= MaxCommands
    BY <1>1, <2>2
  <2> QED BY <2>3, <2>4
<1>4. Word(s[2], s[3]) <= Len(s) /\ \E m \in 1..Len(ks) :
          p = 8 * (m - 1) /\ \A r \in 1..8 : r <= Len(s) => s[r] = AnswerTo(ks[m])[r]
  BY <1>1, <1>2, RightStart
<1>5. PICK m \in 1..Len(ks) :
          p = 8 * (m - 1) /\ \A r \in 1..8 : r <= Len(s) => s[r] = AnswerTo(ks[m])[r]
  BY <1>4
<1>6. ks[m] \in 1..asked /\ ks[m] \in Byte
  <2>1. ks[m] \in 1..asked
    BY DEF Series
  <2>2. ks[m] \in Int /\ 0 <= ks[m] /\ ks[m] <= 255
    BY <1>1, <2>1
  <2> QED BY <2>1, <2>2, ByteRange
<1> DEFINE a == AnswerTo(ks[m])
<1>7. /\ a \in Seq(Byte) /\ Len(a) = 8 /\ Word(a[2], a[3]) = 8
      /\ Link!parse_response(a) = [valid |-> TRUE, data |-> <<114, ks[m]>>]
  BY <1>6, AnswerFrame
<1> HIDE DEF a
<1>8. \A r \in 1..8 : r <= Len(s) => s[r] = a[r]
  BY <1>5 DEF a
<1>9. Word(s[2], s[3]) = 8
  <2>1. 2 \in 1..8 /\ 3 \in 1..8 /\ 2 <= Len(s) /\ 3 <= Len(s)
    BY SMTT(20)
  <2> QED BY <1>7, <1>8, <2>1
<1>10. Link!Remaining(start) = 3
  <2>2. Link!Remaining(start) = Word(start[2], start[3]) - 5
    BY SameBytes DEF Link!Remaining
  <2> QED BY <1>9, <2>2
<1>11. Len(s) = 8
  <2> DEFINE l == Len(s)
             n == Link!Remaining(start)
  <2>1. 8 <= l /\ l \in Int /\ n = 3 /\ (n >= 0 => l <= 5 + n)
    BY <1>4, <1>9, <1>10
  <2> HIDE DEF l, n
  <2>2. l = 8
    BY <2>1
  <2> QED BY <2>2 DEF l
<1>12. s = a
  <2>1. s \in Seq(Byte) /\ Len(s) = Len(a) /\ \A r \in 1..Len(s) : s[r] = a[r]
    BY <1>7, <1>8, <1>11
  <2> QED BY <1>7, <2>1, SeqEqual, Zenon
<1>13. Link!parse_response(s).data[2] = ks[m]
  BY <1>7, <1>12, SMTT(20)
<1> QED BY <1>5, <1>6, <1>11, <1>13

\* It is taken, and is the last one taken so far.
LEMMA AnswerTaken ==
    ASSUME CommandTypes, NEW ks \in Seq(Nat), NEW p \in Nat, Series(ks, p), Taken(ks, p),
           NEW m \in 1..Len(ks), p = 8 * (m - 1), asked' = asked, pending' = pending,
           took' = Append(took, [asked |-> asked, status |-> ks[m]])
    PROVE  Taken(ks, p + 8)'
<1> DEFINE new == [asked |-> asked, status |-> ks[m]]
           T == [asked : Nat, status : Nat]
<1>1. /\ asked \in Nat /\ ks[m] \in Nat /\ ks[m] <= asked
      /\ \A k \in pending : ks[m] < k
      /\ \A j \in 1..Len(ks) : m < j => ks[m] < ks[j]
  <2>1. asked \in 0..MaxCommands /\ ks[m] \in 1..asked
    BY DEF CommandTypes, Series
  <2> QED BY <2>1, SMTT(20) DEF Series
<1>2. took \in Seq(T) /\ new \in T /\ Len(took) \in Nat
  BY <1>1 DEF Taken
<1>3. /\ took' \in Seq(T) /\ Len(took') = Len(took) + 1 /\ took'[Len(took) + 1] = new
      /\ \A i \in 1..Len(took) : took'[i] = took[i]
  <2> HIDE DEF new, T
  <2> QED BY <1>2, AppendProperties DEF new
<1>4. new.asked = asked /\ new.status = ks[m]
  OBVIOUS
<1>5. ASSUME NEW i \in 1..Len(took)
      PROVE  /\ took[i].status \in Nat /\ took[i].asked \in Nat
             /\ took[i].status <= took[i].asked /\ took[i].asked <= asked
             /\ \A k \in pending : took[i].status < k
             /\ \A j \in 1..Len(ks) : 8 * j > p + 8 => took[i].status < ks[j]
             /\ took[i].status < ks[m]
  <2>1. took[i] \in T
    BY <1>2, ElementOfSeq, Zenon
  <2>2. \A j \in 1..Len(ks) : 8 * j > p => took[i].status < ks[j]
    BY DEF Taken
  <2>3. 8 * m > p
    OBVIOUS
  <2>4. \A j \in 1..Len(ks) : 8 * j > p + 8 => 8 * j > p
    OBVIOUS
  <2>5. /\ took[i].status <= took[i].asked /\ took[i].asked <= asked
        /\ \A k \in pending : took[i].status < k
    BY DEF Taken
  <2>6. took[i].status \in Nat /\ took[i].asked \in Nat
    BY <2>1
  <2> HIDE DEF T
  <2> QED BY <2>2, <2>3, <2>4, <2>5, <2>6
<1>6. \A j \in 1..Len(ks) : 8 * j > p + 8 => ks[m] < ks[j]
  <2>1. ASSUME NEW j \in 1..Len(ks), 8 * j > p + 8 PROVE m < j
    BY <2>1
  <2> QED BY <1>1, <2>1
<1>7. \A i, j \in 1..Len(took) : j < i => took[j].status < took[i].status
  BY DEF Taken
<1> HIDE DEF new, T
<1>8. ASSUME NEW i \in 1..Len(took')
      PROVE  /\ took'[i].status <= took'[i].asked /\ took'[i].asked <= asked
             /\ \A k \in pending : took'[i].status < k
             /\ \A j \in 1..Len(ks) : 8 * j > p + 8 => took'[i].status < ks[j]
  <2>1. CASE i \in 1..Len(took)
    BY <1>3, <1>5, <2>1
  <2>2. CASE i = Len(took) + 1
    BY <1>1, <1>3, <1>4, <1>6, <2>2
  <2> QED BY <1>2, <1>3, <2>1, <2>2, SMTT(20)
<1>9. ASSUME NEW i \in 1..Len(took'), NEW j \in 1..Len(took'), j < i
      PROVE  took'[j].status < took'[i].status
  <2>1. CASE i \in 1..Len(took)
    <3>1. j \in 1..Len(took)
      BY <1>2, <1>9, <2>1
    <3> QED BY <1>3, <1>7, <1>9, <2>1, <3>1
  <2>2. CASE i = Len(took) + 1
    <3>1. j \in 1..Len(took)
      BY <1>2, <1>3, <1>9, <2>2
    <3> QED BY <1>3, <1>4, <1>5, <2>2, <3>1
  <2> QED BY <1>2, <1>3, <2>1, <2>2
<1>10. took' \in Seq([asked : Nat, status : Nat])
  BY <1>3 DEF T
<1> QED BY <1>8, <1>9, <1>10 DEF Taken
\* The end of read_response: an answer is the next one, or nothing is taken.
LEMMA SeriesRest ==
    ASSUME CommandTypes, Link!OneStart(MaxCommands), InSeries, Link!ReadRest
    PROVE  InSeries'
<1> DEFINE n == Link!Remaining(start)
           s == start \o Link!Chunk(n)
<1>1. /\ pc = "answer_body" /\ start' = <<>>
      /\ answers' = IF n > 0 THEN Link!Rest(n) ELSE answers
      /\ IF Link!parse_response(s).valid
         THEN took' = Append(took, [asked  |-> asked,
                                    status |-> Link!parse_response(s).data[2]])
         ELSE took' = took
      /\ coming' = coming /\ asked' = asked /\ pending' = pending /\ conn' = conn
  BY DEF Link!ReadRest, Link!Done, Link!Go, Link!Valid
<1>2. start \in Seq(Byte) /\ Len(start) = 5 /\ n \in Int
  <2>1. start \in Seq(Byte) /\ Len(start) = 5
    BY <1>1 DEF CommandTypes
  <2>2. start[2] \in Byte /\ start[3] \in Byte
    <3>1. 2 \in 1..Len(start) /\ 3 \in 1..Len(start)
      BY <2>1
    <3> QED BY <2>1, <3>1, ElementOfSeq
  <2>3. start[2] \in Int /\ start[3] \in Int
    BY <2>2, ByteRange
  <2> QED BY <2>1, <2>3, SameBytes DEF Link!Remaining, Word
<1> HIDE DEF n
<1>3. /\ s \in Seq(Byte) /\ Len(s) \in Len(start)..Len(Unheard)
      /\ s = SubSeq(Unheard, 1, Len(s))
      /\ Unheard' = SubSeq(Unheard, Len(s) + 1, Len(Unheard))
      /\ n >= 0 => Len(s) <= Len(start) + n
  BY <1>1, <1>2, ReadPart
<1>4. s[2] = start[2] /\ s[3] = start[3]
  <2>1. Link!Chunk(n) \in Seq(Byte)
    <3>1. answers \in Seq(Byte)
      BY DEF CommandTypes
    <3> QED BY <1>2, <3>1, Chunks
  <2> DEFINE c == Link!Chunk(n)
  <2>2. c \in Seq(Byte)
    BY <2>1
  <2> HIDE DEF c
  <2>3. \A i \in 1..Len(start) : (start \o c)[i] = start[i]
    BY <1>2, <2>2, BytesJoined
  <2>4. 2 \in 1..Len(start) /\ 3 \in 1..Len(start)
    BY <1>2
  <2>5. (start \o c)[2] = start[2] /\ (start \o c)[3] = start[3]
    BY <2>3, <2>4, Zenon
  <2> QED BY <2>5 DEF c
<1> DEFINE l == Len(s)
<1> HIDE DEF s
<1>5. l \in Nat /\ l >= 5 /\ l \in 0..Len(Unheard) /\ Unheard \in Seq(Byte)
  BY <1>2, <1>3, UnheardBytes
<1>6. CASE ~Link!parse_response(s).valid
  <2>1. Unheard' = SubSeq(Unheard, l + 1, Len(Unheard)) /\ l \in 0..Len(Unheard)
    BY <1>3, <1>5
  <2>2. took' = took
    BY <1>1, <1>6 DEF s
  <2> HIDE DEF l
  <2> QED BY <1>1, <2>1, <2>2, ReadOn
<1>7. CASE Link!parse_response(s).valid
  <2>1. PICK ks \in Seq(Nat), p \in Nat : Series(ks, p) /\ Taken(ks, p)
    BY DEF InSeries
  <2>2. Stretch(s, ks, p)
    <3> DEFINE u == Unheard
    <3> HIDE DEF l
    <3> DEFINE a == SubSeq(u, 1, l)
    <3>1. s = a
      BY <1>3 DEF l
    <3>2. u \in Seq(Byte) /\ l \in 0..Len(u) /\ Stretch(u, ks, p)
      BY <1>5, <2>1 DEF Series
    <3> HIDE DEF u
    <3>3. Stretch(a, ks, p)
      BY <3>2, StretchCut
    <3> HIDE DEF a
    <3> QED BY <3>1, <3>3
  <2>3. /\ s \in Seq(Byte) /\ Len(s) >= 5
        /\ Link!Remaining(start) >= 0 => Len(s) <= 5 + Link!Remaining(start)
    <3>1. n >= 0 => l <= 5 + n
      BY <1>2, <1>3
    <3> QED BY <1>3, <1>5, <3>1 DEF n
  <2>4. Len(s) = 8 /\ \E m \in 1..Len(ks) :
            /\ p = 8 * (m - 1) /\ ks[m] \in 1..asked
            /\ Link!parse_response(s).data[2] = ks[m]
    BY <1>4, <1>7, <2>1, <2>2, <2>3, WholeAnswer
  <2>5. PICK m \in 1..Len(ks) :
            p = 8 * (m - 1) /\ Link!parse_response(s).data[2] = ks[m]
    BY <2>4
  <2>6. took' = Append(took, [asked |-> asked, status |-> ks[m]])
    BY <1>1, <1>7, <2>5 DEF s
  <2>7. Taken(ks, p + 8)'
    BY <1>1, <2>1, <2>5, <2>6, AnswerTaken
  <2>8. Series(ks, p + 8)'
    <3>1. Unheard' = SubSeq(Unheard, 8 + 1, Len(Unheard)) /\ 8 \in 0..Len(Unheard)
      BY <1>3, <1>5, <2>4
    <3> QED BY <1>1, <2>1, <3>1, SeriesRead
  <2>9. p + 8 \in Nat
    OBVIOUS
  <2> QED BY <2>7, <2>8, <2>9, Zenon DEF InSeries
<1> QED BY <1>6, <1>7

\* The first part: five bytes are kept, or nothing is.
LEMMA SeriesStart ==
    ASSUME CommandTypes, InSeries, Link!ReadStart
    PROVE  InSeries'
<1>1. /\ pc = "answer" /\ answers' = Link!Rest(5)
      /\ start' = Link!Chunk(5) \/ start' = <<>>
      /\ coming' = coming /\ asked' = asked /\ pending' = pending /\ conn' = conn
      /\ took' = took
  BY DEF Link!ReadStart, Link!Done, Link!Go
<1>2. start \in Seq(Byte) /\ Len(start) = 0 /\ answers \in Seq(Byte) /\ coming \in Seq(Byte)
  BY <1>1 DEF CommandTypes
<1>3. start = <<>>
  BY <1>2, EmptySeq
<1>4. 5 \in Int /\ 5 > 0
  OBVIOUS
<1>5. CASE start' = <<>>
  <2> DEFINE l == Len(start \o Link!Chunk(5))
  <2>1. l \in Len(start)..Len(Unheard) /\ Unheard' = SubSeq(Unheard, l + 1, Len(Unheard))
    BY <1>1, <1>4, <1>5, ReadPart
  <2> HIDE DEF l
  <2>2. l \in 0..Len(Unheard)
    BY <1>2, <2>1
  <2> QED BY <1>1, <2>1, <2>2, ReadOn
<1>6. CASE start' = Link!Chunk(5)
  <2> DEFINE c == Link!Chunk(5)
  <2>1. PICK rest \in Seq(Byte) : c \in Seq(Byte) /\ answers = c \o rest /\ answers' = rest
    BY <1>1, <1>2, <1>4, Chunks
  <2>2. start' = c
    BY <1>6
  <2>5. c \in Seq(Byte) /\ rest \in Seq(Byte)
    BY <2>1
  <2> HIDE DEF c
  <2> DEFINE t == rest \o coming
  <2>3. Unheard' = c \o t
    BY <1>1, <2>1, <2>2 DEF Unheard
  <2>4. Unheard = c \o t
    <3>1. (c \o rest) \o coming = c \o (rest \o coming)
      BY <1>2, <2>5, Regrouped
    <3>2. Unheard = <<>> \o (c \o t) /\ c \o t \in Seq(Byte)
      <4>1. t \in Seq(Byte)
        BY <1>2, <2>5, BytesJoined
      <4>2. c \o t \in Seq(Byte)
        <5> HIDE DEF t
        <5> QED BY <2>5, <4>1, BytesJoined
      <4> QED BY <1>3, <2>1, <3>1, <4>2 DEF Unheard
    <3> QED BY <3>2, ConcatEmptySeq, Zenon
  <2> HIDE DEF t
  <2> QED BY <1>1, <2>3, <2>4, SameBytesUnheard
<1> QED BY <1>1, <1>5, <1>6

\* An answer is sent: it follows those under way.
LEMMA SeriesAnswer ==
    ASSUME CommandTypes, InSeries, NEW k \in pending, Link!Answer(k)
    PROVE  InSeries'
<1>1. /\ conn = "open" /\ coming = <<>> /\ pending' = {j \in pending : j > k}
      /\ coming' = AnswerTo(k)
      /\ UNCHANGED <<conn, asked, answers, start, took>>
  BY DEF Link!Answer, AnswerTo
<1>2. PICK ks \in Seq(Nat), p \in Nat : Series(ks, p) /\ Taken(ks, p)
  BY DEF InSeries
<1>3. k \in Byte /\ k \in 1..asked /\ k \in Nat /\ asked \in Nat /\ pending \subseteq Nat
  <2>1. asked \in 0..MaxCommands /\ pending \subseteq 1..asked /\ MaxCommands \in Nat
        /\ MaxCommands <= 255
    BY CommandBounds DEF CommandTypes
  <2>2. k \in Int /\ 0 <= k /\ k <= 255
    BY <2>1
  <2> QED BY <2>1, <2>2, ByteRange
<1> DEFINE js == Append(ks, k)
           n == Len(ks)
<1>4. /\ js \in Seq(Nat) /\ Len(js) = n + 1 /\ n \in Nat /\ js[n + 1] = k
      /\ \A m \in 1..n : js[m] = ks[m]
  BY <1>3, AppendProperties
<1> HIDE DEF js, n
<1>5. n < k /\ n + 1 <= asked /\ \A m \in 1..n : ks[m] < k
  <2>1. n < k /\ \A m \in 1..n : ks[m] < k
    BY <1>2 DEF Series, n
  <2> QED BY <1>3, <1>4, <2>1
<1>6. /\ \A m \in 1..n : ks[m] \in 1..asked
      /\ \A i, j \in 1..n : i < j => ks[i] < ks[j]
  BY <1>2 DEF Series, n
<1>7. \A m \in 1..(n + 1) : js[m] \in 1..asked
  <2>1. ASSUME NEW m \in 1..(n + 1) PROVE m \in 1..n \/ m = n + 1
    BY <1>4
  <2> QED BY <1>3, <1>4, <1>6, <2>1
<1>8. ASSUME NEW i \in 1..(n + 1), NEW j \in 1..(n + 1), i < j
      PROVE  js[i] < js[j]
  <2>1. i \in 1..n /\ (j \in 1..n \/ j = n + 1)
    BY <1>4, <1>8
  <2> QED BY <1>4, <1>5, <1>6, <1>8, <2>1
<1>9. ASSUME NEW j \in pending, j > k
      PROVE  n + 1 < j /\ \A m \in 1..(n + 1) : js[m] < j
  <2>1. j \in Nat
    BY <1>3
  <2>2. n + 1 < j
    BY <1>3, <1>4, <1>5, <1>9, <2>1
  <2>3. ASSUME NEW m \in 1..(n + 1) PROVE js[m] < j
    <3>1. CASE m = n + 1
      BY <1>4, <1>9, <3>1
    <3>2. CASE m \in 1..n
      <4>1. js[m] = ks[m] /\ ks[m] < k /\ ks[m] \in 1..asked
        BY <1>4, <1>5, <1>6, <3>2
      <4> QED BY <1>3, <1>9, <2>1, <4>1
    <3> QED BY <1>4, <3>1, <3>2
  <2> QED BY <2>2, <2>3
<1>10. /\ Unheard' = Unheard \o AnswerTo(k) /\ Unheard \in Seq(Byte)
  <2>1. start \in Seq(Byte) /\ answers \in Seq(Byte) /\ AnswerTo(k) \in Seq(Byte)
    BY <1>3, AnswerFrame DEF CommandTypes
  <2> DEFINE f == AnswerTo(k)
  <2>2. Unheard' = start \o (answers \o f)
    BY <1>1 DEF Unheard
  <2>3. Unheard = start \o answers
    <3>1. answers \o <<>> = answers
      BY <2>1, ConcatEmptySeq, Zenon
    <3> QED BY <1>1, <3>1 DEF Unheard
  <2>4. f \in Seq(Byte)
    BY <2>1
  <2> HIDE DEF f
  <2>5. (start \o answers) \o f = start \o (answers \o f)
    BY <2>1, <2>4, Regrouped, Zenon
  <2> QED BY <2>2, <2>3, <2>5, UnheardBytes DEF f
<1>11. Stretch(Unheard', js, p) /\ p + Len(Unheard') = 8 * Len(js)
  <2>1. Stretch(Unheard, ks, p) /\ p + Len(Unheard) = 8 * Len(ks)
    BY <1>1, <1>2 DEF Series
  <2> DEFINE u == Unheard
  <2>2. u \in Seq(Byte) /\ Stretch(u, ks, p) /\ p + Len(u) = 8 * Len(ks)
    BY <1>10, <2>1
  <2> HIDE DEF u
  <2>3. Stretch(u \o AnswerTo(k), Append(ks, k), p)
        /\ p + Len(u \o AnswerTo(k)) = 8 * Len(Append(ks, k))
    BY <1>3, <2>2, StretchGrown
  <2> QED BY <1>10, <2>3, Zenon DEF u, js
<1>12. Series(js, p)'
  <2>1. Len(js) <= asked' /\ \A m \in 1..Len(js) : js[m] \in 1..asked'
    BY <1>1, <1>4, <1>5, <1>7
  <2>2. \A i, j \in 1..Len(js) : i < j => js[i] < js[j]
    BY <1>4, <1>8
  <2>3. \A j \in pending' : Len(js) < j /\ \A m \in 1..Len(js) : js[m] < j
    BY <1>1, <1>4, <1>9
  <2> QED BY <1>11, <2>1, <2>2, <2>3 DEF Series
<1>13. Taken(js, p)'
  <2>1. ASSUME NEW i \in 1..Len(took)
        PROVE  /\ took[i].status <= took[i].asked /\ took[i].asked <= asked
               /\ \A j \in pending' : took[i].status < j
               /\ \A m \in 1..Len(js) : 8 * m > p => took[i].status < js[m]
    <3>1. /\ \A j \in pending : took[i].status < j
          /\ \A m \in 1..n : 8 * m > p => took[i].status < ks[m]
          /\ took[i].status <= took[i].asked /\ took[i].asked <= asked
      BY <1>2 DEF Taken, n
    <3>2. ASSUME NEW m \in 1..(n + 1), 8 * m > p PROVE took[i].status < js[m]
      <4>1. m \in 1..n \/ m = n + 1
        BY <1>4
      <4> QED BY <1>4, <3>1, <3>2, <4>1
    <3>3. \A j \in pending' : j \in pending
      BY <1>1
    <3> QED BY <1>4, <3>1, <3>2, <3>3
  <2>2. /\ took \in Seq([asked : Nat, status : Nat])
        /\ \A i, j \in 1..Len(took) : j < i => took[j].status < took[i].status
    BY <1>2 DEF Taken
  <2> QED BY <1>1, <2>1, <2>2 DEF Taken
<1> QED BY <1>4, <1>12, <1>13, Zenon DEF InSeries
\* A connection on which nothing was asked.
LEMMA SeriesFresh ==
    ASSUME Unheard' = <<>>, took' = <<>>, asked' \in {0, 1}, pending' \subseteq {1}
    PROVE  InSeries'
<1> DEFINE ks == <<>>
<1>1. ks \in Seq(Nat) /\ Len(ks) = 0 /\ 1..0 = {} /\ took' \in Seq([asked : Nat, status : Nat])
  BY EmptySeq
<1>2. Stretch(Unheard', ks, 0)
  <2>1. Len(Unheard') = 0 /\ 0 + 0 <= 8 * 0
    OBVIOUS
  <2> HIDE DEF ks
  <2> QED BY <1>1, <2>1 DEF Stretch
<1>3. 0 + Len(Unheard') = 8 * Len(ks)
  OBVIOUS
<1> HIDE DEF ks
<1>4. Series(ks, 0)'
  <2>1. Len(ks) <= asked' /\ \A k \in pending' : Len(ks) < k
    BY <1>1
  <2> QED BY <1>1, <1>2, <1>3, <2>1 DEF Series
<1>5. Taken(ks, 0)'
  <2>1. Len(took') = 0
    OBVIOUS
  <2> QED BY <1>1, <2>1 DEF Taken
<1>6. 0 \in Nat
  OBVIOUS
<1> QED BY <1>1, <1>4, <1>5, <1>6, Zenon DEF InSeries

\* A command is written: to a new connection, or as the latest.
LEMMA SeriesWrite ==
    ASSUME CommandTypes, CommandTypes', InSeries, Link!Write
    PROVE  InSeries'
<1>1. /\ pc = "lamp" /\ start' = start
      /\ \/ /\ asked' = 1 /\ pending' = {1} /\ coming' = <<>> /\ answers' = <<>> /\ took' = <<>>
         \/ /\ asked' = asked + 1 /\ UNCHANGED <<conn, coming, answers, took>>
            /\ pending' = pending \cup {asked + 1} \/ pending' = pending
  BY DEF Link!Write, Link!Fresh, Link!Go
<1>2. CASE asked' = 1 /\ pending' = {1} /\ coming' = <<>> /\ answers' = <<>> /\ took' = <<>>
  <2>1. start' = <<>>
    <3>1. start \in Seq(Byte) /\ Len(start) = 0
      BY <1>1 DEF CommandTypes
    <3> QED BY <1>1, <3>1, EmptySeq
  <2>2. Unheard' = <<>>
    BY <1>2, <2>1 DEF Unheard
  <2> QED BY <1>2, <2>2, SeriesFresh
<1>3. CASE /\ asked' = asked + 1 /\ UNCHANGED <<conn, coming, answers, took>>
           /\ pending' = pending \cup {asked + 1} \/ pending' = pending
  <2>1. PICK ks \in Seq(Nat), p \in Nat : Series(ks, p) /\ Taken(ks, p)
    BY DEF InSeries
  <2>2. asked \in Nat /\ Unheard' = Unheard
    <3>1. asked \in 0..MaxCommands
      BY DEF CommandTypes
    <3> QED BY <1>1, <1>3, <3>1 DEF Unheard
  <2>3. Taken(ks, p)'
    <3>1. pending' \subseteq pending \cup {asked + 1} /\ asked' \in {asked, asked + 1} /\ p <= p
      BY <1>3
    <3> QED BY <1>3, <2>1, <2>2, <3>1, TakenKept
  <2>4. Series(ks, p)'
    <3>1. /\ Len(ks) <= asked /\ \A m \in 1..Len(ks) : ks[m] \in 1..asked
          /\ \A k \in pending : Len(ks) < k /\ \A m \in 1..Len(ks) : ks[m] < k
          /\ \A i, j \in 1..Len(ks) : i < j => ks[i] < ks[j]
          /\ Stretch(Unheard, ks, p)
          /\ conn = "open" => p + Len(Unheard) = 8 * Len(ks)
      BY <2>1 DEF Series
    <3>2. Len(ks) <= asked' /\ Len(ks) < asked + 1
      BY <1>3, <2>2, <3>1
    <3>3. \A m \in 1..Len(ks) : ks[m] \in 1..asked' /\ ks[m] < asked + 1
      BY <1>3, <2>2, <3>1
    <3>4. \A k \in pending' : Len(ks) < k /\ \A m \in 1..Len(ks) : ks[m] < k
      BY <1>3, <3>1, <3>2, <3>3
    <3>5. Stretch(Unheard', ks, p) /\ (conn' = "open" => p + Len(Unheard') = 8 * Len(ks))
      BY <1>3, <2>2, <3>1, Zenon
    <3> QED BY <3>1, <3>2, <3>3, <3>4, <3>5 DEF Series
  <2> QED BY <2>3, <2>4, Zenon DEF InSeries
<1> QED BY <1>1, <1>2, <1>3

\* The reader closes the connection: what had not arrived is lost.
LEMMA SeriesHangup ==
    ASSUME CommandTypes, InSeries, Link!Hangup
    PROVE  InSeries'
<1>1. /\ conn' = "eof" /\ pending' = {} /\ coming' = <<>>
      /\ UNCHANGED <<asked, answers, start, took>>
  BY DEF Link!Hangup
<1>2. PICK ks \in Seq(Nat), p \in Nat : Series(ks, p) /\ Taken(ks, p)
  BY DEF InSeries
<1>3. start \in Seq(Byte) /\ answers \in Seq(Byte) /\ coming \in Seq(Byte) /\ asked \in Nat
  <2>1. asked \in 0..MaxCommands
    BY DEF CommandTypes
  <2> QED BY <2>1 DEF CommandTypes
<1> DEFINE a == start \o answers
           u == Unheard
<1>4. a \in Seq(Byte)
  BY <1>3, BytesJoined
<1>5. u = a \o coming
  BY <1>3, Regrouped, Zenon DEF Unheard
<1>6. Unheard' = a
  <2>1. answers \o <<>> = answers
    BY <1>3, ConcatEmptySeq, Zenon
  <2> QED BY <1>1, <2>1 DEF Unheard
<1>7. u \in Seq(Byte) /\ Stretch(u, ks, p)
  BY <1>2, UnheardBytes DEF Series
<1> HIDE DEF a, u
<1>8. SubSeq(u, 1, Len(a)) = a /\ Len(a) \in 0..Len(u)
  <2>1. Len(u) = Len(a) + Len(coming)
    BY <1>3, <1>4, <1>5, BytesJoined
  <2> QED BY <1>3, <1>4, <1>5, <2>1, CutJoined
<1>9. Stretch(a, ks, p)
  <2> DEFINE l == Len(a)
             b == SubSeq(u, 1, l)
  <2>1. l \in 0..Len(u) /\ b = a
    BY <1>8
  <2> HIDE DEF l
  <2>2. Stretch(b, ks, p)
    BY <1>7, <2>1, StretchCut
  <2> HIDE DEF b
  <2> QED BY <2>1, <2>2
<1>10. Series(ks, p)'
  <2>1. Stretch(Unheard', ks, p)
    BY <1>6, <1>9
  <2>2. /\ Len(ks) <= asked' /\ \A m \in 1..Len(ks) : ks[m] \in 1..asked'
        /\ \A i, j \in 1..Len(ks) : i < j => ks[i] < ks[j]
    BY <1>1, <1>2 DEF Series
  <2> QED BY <1>1, <2>1, <2>2 DEF Series
<1>11. Taken(ks, p)'
  <2>1. /\ p <= p /\ took' = took /\ asked' \in {asked, asked + 1}
        /\ pending' \subseteq pending \cup {asked + 1}
    BY <1>1
  <2> QED BY <1>2, <1>3, <2>1, TakenKept
<1> QED BY <1>10, <1>11, Zenon DEF InSeries

\* Every step keeps the series.
LEMMA SeriesStep ==
    ASSUME CommandTypes, CommandTypes', Link!OneStart(MaxCommands), InSeries,
           [Link!Next]_Link!vars
    PROVE  InSeries'
<1> USE DEF Link!eventVars, Link!handlerVars, Link!commandVars
\* The steps of the notification connection, and those of the other handler states.
<1>1. ASSUME UNCHANGED Link!commandVars
      PROVE  InSeries'
  BY <1>1, SameBytesUnheard DEF Unheard
<1>2. CASE \E n \in DOMAIN Events : count = n - 1 /\ \E e \in Events[n] : Link!SendEvent(e)
  BY <1>1, <1>2 DEF Link!SendEvent
<1>3. CASE \E n \in {2, 5, Len(unsent)} : Link!Arrive(n)
  BY <1>1, <1>3 DEF Link!Arrive
<1>4. CASE Link!Connect \/ Link!EndOfStream \/ Link!ReadHeader \/ Link!ReadBody
           \/ Link!Ack \/ Link!WriteFails
  BY <1>1, <1>4 DEF Link!Connect, Link!EndOfStream, Link!ReadHeader, Link!ReadBody,
       Link!Ack, Link!WriteFails
<1>5. CASE Link!Write
  BY <1>5, SeriesWrite
<1>6. CASE \E k \in pending : Link!Answer(k)
  BY <1>6, SeriesAnswer
<1>7. CASE \E n \in Segments : Link!AnswerArrives(n)
  <2>1. PICK n \in Segments : Link!AnswerArrives(n)
    BY <1>7
  <2> DEFINE size == Link!Min({n, Len(coming)})
             a == SubSeq(coming, 1, size)
             b == SubSeq(coming, size + 1, Len(coming))
  <2>2. /\ answers' = answers \o a /\ coming' = b
        /\ UNCHANGED <<conn, asked, pending, start, took>>
    BY <2>1 DEF Link!AnswerArrives
  <2>3. answers \in Seq(Byte) /\ coming \in Seq(Byte) /\ size \in 0..Len(coming)
    <3>1. coming \in Seq(Byte) /\ n \in Nat
      BY CommandBounds DEF CommandTypes
    <3> QED BY <3>1, SmallerOfTwo DEF CommandTypes
  <2> HIDE DEF size
  <2>4. a \in Seq(Byte) /\ b \in Seq(Byte) /\ a \o b = coming
    BY <2>3, Cut
  <2> HIDE DEF a, b
  <2>5. (answers \o a) \o b = answers \o coming
    BY <2>3, <2>4, Regrouped
  <2>6. Unheard' = Unheard
    BY <2>2, <2>5 DEF Unheard
  <2> QED BY <2>2, <2>6, SameBytesUnheard
<1>8. CASE Link!Hangup
  BY <1>8, SeriesHangup
<1>9. CASE Link!ReadStart
  BY <1>9, SeriesStart
<1>10. CASE Link!ReadRest
  BY <1>10, SeriesRest
<1>11. CASE Link!Timeout
  <2>1. start' = <<>> /\ UNCHANGED <<conn, asked, pending, coming, answers, took>>
    BY <1>11 DEF Link!Timeout, Link!Done, Link!Go
  <2> DEFINE t == answers \o coming
             l == Len(start)
  <2>2. start \in Seq(Byte) /\ t \in Seq(Byte) /\ Unheard = start \o t
    BY UnheardBytes DEF CommandTypes, Unheard
  <2>3. Unheard' = t
    <3>1. Unheard' = <<>> \o t
      BY <2>1 DEF Unheard
    <3> QED BY <2>2, <3>1, ConcatEmptySeq, Zenon
  <2> HIDE DEF t
  <2>4. SubSeq(Unheard, l + 1, Len(Unheard)) = t /\ l \in 0..Len(Unheard)
    <3>1. Len(Unheard) = l + Len(t)
      BY <2>2, BytesJoined
    <3> QED BY <2>2, <3>1, CutJoined
  <2> HIDE DEF l
  <2> QED BY <2>1, <2>3, <2>4, ReadOn
<1>12. CASE Link!Reset
  <2>1. /\ start' = <<>> /\ coming' = <<>> /\ answers' = <<>> /\ took' = <<>>
        /\ asked' = 0 /\ pending' = {}
    BY <1>12 DEF Link!Reset, Link!Done, Link!Go
  <2>2. Unheard' = <<>>
    BY <2>1 DEF Unheard
  <2> QED BY <2>1, <2>2, SeriesFresh
<1>13. CASE UNCHANGED Link!vars
  BY <1>1, <1>13 DEF Link!vars
<1> QED BY <1>2, <1>3, <1>4, <1>5, <1>6, <1>7, <1>8, <1>9, <1>10, <1>11, <1>12, <1>13
        DEF Link!Next

\* At the start nothing was asked.
LEMMA CommandInit == Link!Init => CommandTypes /\ InSeries
<1> SUFFICES ASSUME Link!Init PROVE CommandTypes /\ InSeries
  OBVIOUS
<1>1. MaxCommands \in Nat /\ Len(Events) \in Nat
  <2>1. Events \in Seq(SUBSET Link!AllEvents)
    BY EventsAssumption, Zenon DEF Link!LinkAssumption
  <2> QED BY <2>1, CommandBounds
<1>2. /\ count = 0 /\ conn \in {"none", "open"} /\ asked = 0 /\ pending = {} /\ coming = <<>>
      /\ answers = <<>> /\ start = <<>> /\ took = <<>> /\ disturbed = FALSE /\ pc = "header"
  BY DEF Link!Init
<1>3. CommandTypes
  <2>1. count \in 0..Len(Events) /\ asked \in 0..MaxCommands /\ pending \subseteq 1..asked
    BY <1>1, <1>2
  <2> QED BY <1>2, <2>1, EmptySeq DEF CommandTypes
<1>4. InSeries
  <2> DEFINE ks == <<>>
  <2>1. ks \in Seq(Nat) /\ Len(ks) = 0 /\ 1..0 = {} /\ took \in Seq([asked : Nat, status : Nat])
        /\ Len(took) = 0
    BY <1>2, EmptySeq
  <2>2. Unheard = <<>> /\ Len(Unheard) = 0 /\ 0 + 0 = 8 * 0
    BY <1>2 DEF Unheard
  <2>3. Stretch(Unheard, ks, 0)
    <3> HIDE DEF ks
    <3> QED BY <2>1, <2>2 DEF Stretch
  <2> HIDE DEF ks
  <2>4. Series(ks, 0) /\ Taken(ks, 0)
    BY <1>2, <2>1, <2>2, <2>3 DEF Series, Taken
  <2> QED BY <2>1, <2>4, Zenon DEF InSeries
<1> QED BY <1>3, <1>4
(***************************************************************************)
(* The undisturbed connection.                                             *)
(***************************************************************************)

\* The handler waits for an answer, and how many commands it is done with.
Waiting == pc \in {"answer", "answer_body"}
Finished == IF Waiting THEN asked - 1 ELSE asked

\* The awaited answer is still to be sent, on its way, or there.
OneAwaited ==
    \/ pc = "answer" /\ pending = {asked} /\ coming = <<>> /\ answers = <<>>
    \/ pc = "answer" /\ pending = {} /\ coming = AnswerTo(asked) /\ answers = <<>>
    \/ pending = {} /\ coming = <<>> /\ start \o answers = AnswerTo(asked)

\* Each command that is done with has its answer.
OwnSoFar ==
    /\ took \in Seq([asked : Nat, status : Nat]) /\ Len(took) = Finished
    /\ \A k \in 1..Len(took) : took[k] = [asked |-> k, status |-> k]

Alone ==
    ~disturbed =>
        /\ conn # "eof" /\ OwnSoFar
        /\ IF Waiting THEN asked >= 1 /\ OneAwaited
           ELSE pending = {} /\ coming = <<>> /\ answers = <<>>

\* A command is written when nothing else is under way.
LEMMA AloneWrite ==
    ASSUME CommandTypes, Alone, Link!Write
    PROVE  Alone'
<1>1. /\ pc = "lamp" /\ pc' = "answer" /\ start' = start
      /\ \/ /\ conn' = "open" /\ asked' = 1 /\ pending' = {1} /\ coming' = <<>>
            /\ answers' = <<>> /\ took' = <<>>
         \/ /\ conn # "none" /\ asked' = asked + 1
            /\ pending' = IF conn = "open" THEN pending \cup {asked + 1} ELSE pending
            /\ UNCHANGED <<conn, coming, answers, took, disturbed>>
  BY DEF Link!Write, Link!Fresh, Link!Go
<1>2. asked \in Nat /\ conn \in {"none", "open", "eof"}
  <2>1. asked \in 0..MaxCommands
    BY DEF CommandTypes
  <2> QED BY <2>1 DEF CommandTypes
<1>3. CASE asked' = 1 /\ pending' = {1} /\ coming' = <<>> /\ answers' = <<>> /\ took' = <<>>
           /\ conn' = "open"
  <2>1. Finished' = 0 /\ Waiting'
    BY <1>1, <1>3 DEF Finished, Waiting
  <2>2. took' \in Seq([asked : Nat, status : Nat]) /\ Len(took') = 0
    BY <1>3, EmptySeq
  <2>3. OwnSoFar'
    BY <2>1, <2>2 DEF OwnSoFar
  <2>4. OneAwaited'
    BY <1>1, <1>3 DEF OneAwaited
  <2> QED BY <1>3, <2>1, <2>3, <2>4 DEF Alone
<1>4. CASE /\ conn # "none" /\ asked' = asked + 1
           /\ pending' = IF conn = "open" THEN pending \cup {asked + 1} ELSE pending
           /\ UNCHANGED <<conn, coming, answers, took, disturbed>>
  <2> SUFFICES ASSUME ~disturbed PROVE Alone'
    BY <1>4 DEF Alone
  <2>1. ~Waiting /\ Waiting' /\ Finished = asked /\ Finished' = asked
    BY <1>1, <1>2, <1>4 DEF Finished, Waiting
  <2>2. conn # "eof" /\ OwnSoFar /\ pending = {} /\ coming = <<>> /\ answers = <<>>
    BY <2>1 DEF Alone
  <2>3. OwnSoFar'
    BY <1>4, <2>1, <2>2 DEF OwnSoFar
  <2>4. pending' = {asked'} /\ coming' = <<>> /\ answers' = <<>>
    BY <1>2, <1>4, <2>2
  <2> QED BY <1>1, <1>2, <1>4, <2>1, <2>2, <2>3, <2>4 DEF Alone, OneAwaited
<1> QED BY <1>1, <1>3, <1>4

\* The first five bytes of the answer that is there start a frame.
LEMMA AloneStart ==
    ASSUME CommandTypes, Alone, ~disturbed, Link!ReadStart
    PROVE  Alone'
<1> DEFINE f == AnswerTo(asked)
           c == Link!Chunk(5)
<1>1. /\ pc = "answer" /\ (answers # <<>> \/ conn = "eof")
      /\ answers' = SubSeq(answers, 5 + 1, Len(answers))
      /\ IF Len(c) = 5 /\ c[1] = 2 THEN start' = c /\ pc' = "answer_body"
         ELSE pc' = "ack" /\ start' = <<>>
      /\ UNCHANGED <<conn, asked, pending, coming, took, disturbed>>
  BY SameBytes DEF Link!ReadStart, Link!ReadReturns, Link!StartsFrame, Link!Rest, Link!Done, Link!Go
<1>2. /\ conn # "eof" /\ OwnSoFar /\ Waiting /\ asked >= 1 /\ OneAwaited
  BY <1>1 DEF Alone, Waiting
<1>0. pc = "answer"
  BY DEF Link!ReadStart
<1>3. start = <<>>
  <2>1. start \in Seq(Byte) /\ Len(start) = 0
    BY <1>0 DEF CommandTypes
  <2> QED BY <2>1, EmptySeq
<1>4. answers \in Seq(Byte) /\ asked \in Byte
  <2>1. asked \in 0..MaxCommands /\ MaxCommands \in Nat /\ MaxCommands <= 255
    BY CommandBounds DEF CommandTypes
  <2>2. asked \in Int /\ 0 <= asked /\ asked <= 255
    BY <2>1
  <2> QED BY <2>2, ByteRange DEF CommandTypes
<1>5. f \in Seq(Byte) /\ Len(f) = 8 /\ f[1] = 2
  BY <1>4, AnswerFrame
<1>6. pending = {} /\ coming = <<>> /\ answers = f
  <2>1. pending = {} /\ coming = <<>> /\ start \o answers = f
    BY <1>1, <1>2 DEF OneAwaited
  <2>2. <<>> \o answers = answers
    BY <1>4, ConcatEmptySeq, Zenon
  <2> QED BY <1>3, <2>1, <2>2
<1>7. c = SubSeq(f, 1, 5)
  <2>1. Link!Min({5, Len(f)}) = 5
    <3> HIDE DEF f
    <3> QED BY <1>5 DEF Link!Min
  <2> QED BY <1>6, <2>1 DEF Link!Chunk
<1> HIDE DEF f, c
<1>8. /\ Len(c) = 5 /\ c[1] = f[1] /\ c \o SubSeq(f, 5 + 1, Len(f)) = f
  <2>1. 5 \in 0..Len(f) /\ 1 \in 1..5
    BY <1>5
  <2> DEFINE g == SubSeq(f, 1, 5)
  <2>2. Len(g) = 5 /\ (\A i \in 1..5 : g[i] = f[i]) /\ g \o SubSeq(f, 5 + 1, Len(f)) = f
    BY <1>5, <2>1, Cut
  <2>3. c = g
    BY <1>7
  <2> HIDE DEF g
  <2> QED BY <2>1, <2>2, <2>3
<1>9. start' = c /\ pc' = "answer_body"
  BY <1>1, <1>5, <1>8
<1>10. start' \o answers' = f
  BY <1>1, <1>6, <1>8, <1>9
<1>11. Waiting' /\ Finished' = Finished
  BY <1>1, <1>2, <1>9 DEF Waiting, Finished
<1>12. OneAwaited'
  BY <1>1, <1>6, <1>10 DEF OneAwaited, f
<1>13. OwnSoFar'
  BY <1>1, <1>2, <1>11 DEF OwnSoFar
<1> QED BY <1>1, <1>2, <1>11, <1>12, <1>13 DEF Alone

\* The rest of it makes it whole, and it is taken for what it is.
LEMMA AloneRest ==
    ASSUME CommandTypes, Alone, ~disturbed, Link!ReadRest
    PROVE  Alone'
<1> DEFINE f == AnswerTo(asked)
           n == Link!Remaining(start)
           c == Link!Chunk(n)
<1>1. /\ pc = "answer_body" /\ pc' = "ack"
      /\ answers' = IF n > 0 THEN SubSeq(answers, n + 1, Len(answers)) ELSE answers
      /\ IF Link!parse_response(start \o c).valid
         THEN took' = Append(took, [asked  |-> asked,
                                    status |-> Link!parse_response(start \o c).data[2]])
         ELSE took' = took
      /\ UNCHANGED <<conn, asked, pending, coming, disturbed>>
  BY DEF Link!ReadRest, Link!Rest, Link!Valid, Link!Done, Link!Go
<1>2. /\ conn # "eof" /\ OwnSoFar /\ Waiting /\ asked >= 1
      /\ pending = {} /\ coming = <<>> /\ start \o answers = f
  BY <1>1 DEF Alone, Waiting, OneAwaited
<1>3. start \in Seq(Byte) /\ Len(start) = 5 /\ answers \in Seq(Byte)
  BY <1>1 DEF CommandTypes
<1>4. asked \in Byte /\ asked \in Nat
  <2>1. asked \in 0..MaxCommands /\ MaxCommands \in Nat /\ MaxCommands <= 255
    BY CommandBounds DEF CommandTypes
  <2>2. asked \in Int /\ 0 <= asked /\ asked <= 255
    BY <2>1
  <2> QED BY <2>2, ByteRange
<1>5. /\ Len(f) = 8 /\ Word(f[2], f[3]) = 8
      /\ Link!parse_response(f) = [valid |-> TRUE, data |-> <<114, asked>>]
  BY <1>4, AnswerFrame
<1> HIDE DEF f, n, c
<1>6. Len(answers) = 3 /\ start[2] = f[2] /\ start[3] = f[3]
  <2>1. /\ Len(start \o answers) = Len(start) + Len(answers)
        /\ \A i \in 1..Len(start) : (start \o answers)[i] = start[i]
    BY <1>3, BytesJoined
  <2> DEFINE j == start \o answers
             l == Len(answers)
  <2>2. /\ Len(j) = 5 + l /\ l \in Nat /\ j = f
        /\ \A i \in 1..5 : j[i] = start[i]
    BY <1>2, <1>3, <2>1
  <2>3. 2 \in 1..5 /\ 3 \in 1..5
    OBVIOUS
  <2> HIDE DEF j, l
  <2>4. j[2] = start[2] /\ j[3] = start[3]
    BY <2>2, <2>3, Zenon
  <2>5. l = 3
    <3>1. 8 = 5 + l /\ l \in Nat
      BY <1>5, <2>2, Zenon
    <3> QED BY <3>1
  <2> QED BY <2>2, <2>4, <2>5 DEF l
<1>7. n = 3
  <2>1. n = Word(start[2], start[3]) - 5
    BY SameBytes DEF Link!Remaining, n
  <2> QED BY <1>5, <1>6, <2>1
<1>8. c = answers
  <2>1. Link!Min({3, Len(answers)}) = 3
    BY <1>6 DEF Link!Min
  <2>2. SubSeq(answers, 1, Len(answers)) = answers
    BY <1>3, SubSeqFull
  <2>3. SubSeq(answers, 1, 3) = answers
    BY <1>6, <2>2, Zenon
  <2> QED BY <1>7, <2>1, <2>3 DEF c, Link!Chunk
<1>9. answers' = <<>>
  <2>1. answers' = SubSeq(answers, 4, Len(answers))
    <3>1. 3 > 0 /\ 3 + 1 = 4
      OBVIOUS
    <3> QED BY <1>1, <1>7, <3>1
  <2>2. 4 > Len(answers)
    BY <1>6
  <2> QED BY <1>3, <1>6, <2>1, <2>2
<1>10. took' = Append(took, [asked |-> asked, status |-> asked])
  <2>1. start \o c = f
    BY <1>2, <1>8
  <2>2. Link!parse_response(start \o c).valid /\ Link!parse_response(start \o c).data[2] = asked
    BY <1>5, <2>1
  <2> QED BY <1>1, <2>2
<1>11. ~Waiting' /\ Finished' = asked /\ Finished = asked - 1
  BY <1>1, <1>2 DEF Waiting, Finished
<1>12. OwnSoFar'
  <2> DEFINE T == [asked : Nat, status : Nat]
             new == [asked |-> asked, status |-> asked]
  <2>1. took \in Seq(T) /\ new \in T /\ Len(took) = asked - 1
    BY <1>2, <1>4, <1>11 DEF OwnSoFar
  <2>2. \A k \in 1..Len(took) : took[k] = [asked |-> k, status |-> k]
    BY <1>2 DEF OwnSoFar
  <2> DEFINE Right(k) == took'[k] = [asked |-> k, status |-> k]
  <2>3. /\ took' \in Seq(T) /\ Len(took') = Len(took) + 1 /\ took'[Len(took) + 1] = new
        /\ \A k \in 1..Len(took) : took'[k] = took[k]
    <3> HIDE DEF T, new
    <3> QED BY <1>10, <2>1, AppendProperties DEF new
  <2>4. Len(took') = asked /\ took'[asked] = new
    <3> HIDE DEF T, new
    <3> QED BY <1>4, <2>1, <2>3
  <2>5. ASSUME NEW k \in 1..asked PROVE Right(k)
    <3>1. CASE k = asked
      BY <2>4, <3>1
    <3>2. CASE k # asked
      <4>1. k \in 1..Len(took)
        BY <1>4, <2>1, <3>2
      <4> QED BY <2>2, <2>3, <4>1
    <3> QED BY <3>1, <3>2
  <2>6. \A k \in 1..Len(took') : Right(k)
    <3> HIDE DEF Right
    <3> QED BY <2>4, <2>5
  <2> QED BY <1>11, <2>3, <2>4, <2>6 DEF OwnSoFar
<1> QED BY <1>1, <1>2, <1>9, <1>11, <1>12 DEF Alone

\* Every step keeps it.
LEMMA AloneStep ==
    ASSUME CommandTypes, CommandTypes', Alone, [Link!Next]_Link!vars
    PROVE  Alone'
<1> USE DEF Link!eventVars, Link!handlerVars, Link!commandVars
\* The steps of the notification connection, and those of the other handler states.
<1>1. ASSUME UNCHANGED Link!commandVars, pc' = pc \/ (~Waiting /\ ~Waiting')
      PROVE  Alone'
  <2>1. CASE pc' = pc
    BY <1>1, <2>1 DEF Alone, OwnSoFar, OneAwaited, Finished, Waiting
  <2>2. CASE ~Waiting /\ ~Waiting'
    <3>1. Finished' = Finished
      BY <1>1, <2>2 DEF Finished
    <3> QED BY <1>1, <2>2, <3>1 DEF Alone, OwnSoFar
  <2> QED BY <1>1, <2>1, <2>2
<1>2. CASE \E n \in DOMAIN Events : count = n - 1 /\ \E e \in Events[n] : Link!SendEvent(e)
  BY <1>1, <1>2 DEF Link!SendEvent
<1>3. CASE \E n \in {2, 5, Len(unsent)} : Link!Arrive(n)
  BY <1>1, <1>3 DEF Link!Arrive
<1>4. CASE Link!Connect \/ Link!EndOfStream \/ Link!ReadHeader \/ Link!ReadBody
           \/ Link!Ack \/ Link!WriteFails
  <2>1. UNCHANGED Link!commandVars
    BY <1>4 DEF Link!Connect, Link!EndOfStream, Link!ReadHeader, Link!ReadBody,
         Link!Ack, Link!WriteFails
  <2>2. ~Waiting
    BY <1>4 DEF Link!Connect, Link!EndOfStream, Link!ReadHeader, Link!ReadBody,
         Link!Ack, Link!WriteFails, Waiting
  <2>3. pc' \in {"header", "body", "lamp", "ack", "closed"}
    BY <1>4 DEF Link!Connect, Link!EndOfStream, Link!ReadHeader, Link!ReadBody,
         Link!Ack, Link!WriteFails, Link!Close, Link!Handle, Link!Go
  <2>4. ~Waiting'
    BY <2>3 DEF Waiting
  <2> QED BY <1>1, <2>1, <2>2, <2>4
<1>5. CASE Link!Write
  BY <1>5, AloneWrite
<1>6. CASE \E k \in pending : Link!Answer(k)
  <2>1. PICK k \in pending : Link!Answer(k)
    BY <1>6
  <2>2. /\ pending' = {j \in pending : j > k} /\ coming' = AnswerTo(k) /\ coming = <<>>
        /\ UNCHANGED <<pc, conn, asked, answers, start, took, disturbed>>
    BY <2>1 DEF Link!Answer, AnswerTo
  <2> SUFFICES ASSUME ~disturbed PROVE Alone'
    BY <2>2 DEF Alone
  <2>3. conn # "eof" /\ OwnSoFar /\ Waiting /\ asked >= 1
    BY DEF Alone
  <2>4. pc = "answer" /\ pending = {asked} /\ answers = <<>>
    BY <2>3 DEF Alone, OneAwaited
  <2>5. k = asked /\ pending' = {}
    <3>1. asked \in 0..MaxCommands
      BY DEF CommandTypes
    <3> QED BY <2>2, <2>4, <3>1
  <2>6. Waiting' /\ OneAwaited' /\ OwnSoFar'
    BY <2>2, <2>3, <2>4, <2>5 DEF Waiting, OneAwaited, OwnSoFar, Finished
  <2> QED BY <2>2, <2>3, <2>6 DEF Alone
<1>7. CASE \E n \in Segments : Link!AnswerArrives(n)
  <2>1. PICK n \in Segments : Link!AnswerArrives(n)
    BY <1>7
  <2> DEFINE size == Link!Min({n, Len(coming)})
  <2>2. /\ coming # <<>> /\ answers' = answers \o SubSeq(coming, 1, size)
        /\ coming' = SubSeq(coming, size + 1, Len(coming))
        /\ disturbed' = (disturbed \/ size < Len(coming))
        /\ UNCHANGED <<pc, conn, asked, pending, start, took>>
    BY <2>1 DEF Link!AnswerArrives
  <2>3. coming \in Seq(Byte) /\ size \in 0..Len(coming)
    <3>1. coming \in Seq(Byte) /\ n \in Nat
      BY CommandBounds DEF CommandTypes
    <3> QED BY <3>1, SmallerOfTwo
  <2> HIDE DEF size
  <2>10. ~disturbed' => ~disturbed /\ ~(size < Len(coming))
    BY <2>2, Zenon
  <2>11. ~(size < Len(coming)) => size = Len(coming)
    BY <2>3
  <2> SUFFICES ASSUME ~disturbed, size = Len(coming) PROVE Alone'
    BY <2>10, <2>11, Zenon DEF Alone
  <2>4. conn # "eof" /\ OwnSoFar /\ Waiting /\ asked >= 1
    BY <2>2 DEF Alone
  <2>5. pc = "answer" /\ pending = {} /\ coming = AnswerTo(asked) /\ answers = <<>>
    BY <2>2, <2>4 DEF Alone, OneAwaited
  <2>6. SubSeq(coming, 1, size) = coming /\ coming' = <<>>
    <3>1. SubSeq(coming, 1, Len(coming)) = coming
      BY <2>3, SubSeqFull
    <3>2. Len(coming) + 1 > Len(coming) /\ Len(coming) + 1 \in Int
      BY <2>3
    <3>3. SubSeq(coming, Len(coming) + 1, Len(coming)) = <<>>
      BY <2>3, <3>2
    <3> QED BY <2>2, <3>1, <3>3
  <2>7. start = <<>>
    <3>1. start \in Seq(Byte) /\ Len(start) = 0
      BY <2>5 DEF CommandTypes
    <3> QED BY <3>1, EmptySeq
  <2>8. start' \o answers' = AnswerTo(asked')
    <3>1. answers' = <<>> \o coming
      BY <2>2, <2>5, <2>6
    <3>2. <<>> \o coming = coming
      BY <2>3, ConcatEmptySeq, Zenon
    <3> QED BY <2>2, <2>5, <2>7, <3>1, <3>2
  <2>9. Waiting' /\ OneAwaited' /\ OwnSoFar'
    BY <2>2, <2>4, <2>5, <2>6, <2>8 DEF Waiting, OneAwaited, OwnSoFar, Finished
  <2> QED BY <2>2, <2>4, <2>9 DEF Alone
<1>8. CASE Link!Hangup \/ Link!Timeout
  BY <1>8 DEF Link!Hangup, Link!Timeout, Alone
<1>9. CASE Link!ReadStart \/ Link!ReadRest
  <2>1. disturbed' = disturbed
    BY <1>9 DEF Link!ReadStart, Link!ReadRest
  <2> SUFFICES ASSUME ~disturbed PROVE Alone'
    BY <2>1 DEF Alone
  <2> QED BY <1>9, AloneStart, AloneRest
<1>10. CASE Link!Reset
  <2>1. /\ conn' = "none" /\ coming' = <<>> /\ answers' = <<>> /\ took' = <<>>
        /\ asked' = 0 /\ pending' = {} /\ pc' = "ack"
    BY <1>10 DEF Link!Reset, Link!Done, Link!Go
  <2>2. ~Waiting' /\ Finished' = 0
    BY <2>1 DEF Waiting, Finished
  <2>3. OwnSoFar'
    BY <2>1, <2>2, EmptySeq DEF OwnSoFar
  <2> QED BY <2>1, <2>2, <2>3 DEF Alone
<1>11. CASE UNCHANGED Link!vars
  BY <1>1, <1>11 DEF Link!vars
<1> QED BY <1>2, <1>3, <1>4, <1>5, <1>6, <1>7, <1>8, <1>9, <1>10, <1>11 DEF Link!Next

\* At the start nothing is under way.
LEMMA AloneInit == Link!Init => Alone
<1> SUFFICES ASSUME Link!Init PROVE Alone
  OBVIOUS
<1>1. /\ conn \in {"none", "open"} /\ asked = 0 /\ pending = {} /\ coming = <<>>
      /\ answers = <<>> /\ took = <<>> /\ pc = "header"
  BY DEF Link!Init
<1>2. ~Waiting /\ Finished = 0
  BY <1>1 DEF Waiting, Finished
<1>3. OwnSoFar
  BY <1>1, <1>2, EmptySeq DEF OwnSoFar
<1> QED BY <1>1, <1>2, <1>3 DEF Alone

\* In the words of AnswersMatch.
LEMMA OwnSequence ==
    ASSUME OwnSoFar, Finished \in Nat
    PROVE  took = [k \in 1..Finished |-> [asked |-> k, status |-> k]]
<1> DEFINE all == [k \in 1..Finished |-> [asked |-> k, status |-> k]]
           T == [asked : Nat, status : Nat]
<1>1. all \in Seq(T) /\ Len(all) = Finished
  <2>1. \A k \in 1..Finished : [asked |-> k, status |-> k] \in T
    OBVIOUS
  <2> HIDE DEF T
  <2> QED BY <2>1
<1>2. \A k \in 1..Finished : all[k] = [asked |-> k, status |-> k]
  OBVIOUS
<1>3. /\ took \in Seq(T) /\ Len(took) = Finished
      /\ \A k \in 1..Finished : took[k] = [asked |-> k, status |-> k]
  BY DEF OwnSoFar
<1> HIDE DEF all, T
<1>4. took = all
  BY <1>1, <1>2, <1>3, SeqEqual
<1> QED BY <1>4 DEF all

\* While nothing disturbs the connection each lamp command got its own answer, for every
\* number of commands and however long the segments are (send_raw).
THEOREM OwnAnswers ==
    Link!Spec => [](~disturbed => took = [k \in 1..Finished |-> [asked |-> k, status |-> k]])
<1>1. Link!Init => CommandTypes /\ Alone
  BY CommandInit, AloneInit
<1>2. CommandTypes /\ Alone /\ [Link!Next]_Link!vars => (CommandTypes /\ Alone)'
  BY CommandStep, AloneStep
<1>3. CommandTypes /\ Alone
      => (~disturbed => took = [k \in 1..Finished |-> [asked |-> k, status |-> k]])
  <2> SUFFICES ASSUME CommandTypes, Alone, ~disturbed
               PROVE  took = [k \in 1..Finished |-> [asked |-> k, status |-> k]]
    OBVIOUS
  <2>1. OwnSoFar
    BY DEF Alone
  <2>2. Finished \in Nat
    BY <2>1 DEF OwnSoFar
  <2> QED BY <2>1, <2>2, OwnSequence
<1> QED BY <1>1, <1>2, <1>3, PTL DEF Link!Spec

\* And after a disturbance: no answer is taken twice, before it was asked for, or from a
\* dropped connection, if only the first byte of an answer starts a frame (OneStart).
THEOREM AnswersKept == Link!OneStart(MaxCommands) => (Link!Spec => []AnswersMatch)
<1> SUFFICES ASSUME Link!OneStart(MaxCommands) PROVE Link!Spec => []AnswersMatch
  OBVIOUS
<1>1. Link!Init => CommandTypes /\ InSeries
  BY CommandInit
<1>2. CommandTypes /\ InSeries /\ [Link!Next]_Link!vars => (CommandTypes /\ InSeries)'
  BY CommandStep, SeriesStep
<1>3. /\ InSeries /\ (~disturbed => took = [k \in 1..Finished |-> [asked |-> k, status |-> k]])
      => AnswersMatch
  <2> SUFFICES ASSUME InSeries, ~disturbed =>
                          took = [k \in 1..Finished |-> [asked |-> k, status |-> k]]
               PROVE  AnswersMatch
    OBVIOUS
  <2>1. PICK ks \in Seq(Nat), p \in Nat : Taken(ks, p)
    BY DEF InSeries
  <2>2. took \in Seq([asked : Nat, status : Nat]) /\ DOMAIN took = 1..Len(took)
        /\ Len(took) \in Nat
    BY <2>1 DEF Taken
  <2>3. ASSUME NEW i \in DOMAIN took
        PROVE  /\ took[i].status <= took[i].asked
               /\ \A j \in 1..i - 1 : took[j].status < took[i].status
    <3>1. i \in 1..Len(took)
      BY <2>2
    <3>2. \A j \in 1..i - 1 : j \in 1..Len(took) /\ j < i
      BY <2>2, <3>1, SMTT(20)
    <3> QED BY <2>1, <3>1, <3>2 DEF Taken
  <2>4. Finished = IF pc \in {"answer", "answer_body"} THEN asked - 1 ELSE asked
    BY DEF Finished, Waiting
  <2> QED BY <2>3, <2>4 DEF AnswersMatch, Link!AnswersMatch
<1> QED BY <1>1, <1>2, <1>3, OwnAnswers, PTL DEF Link!Spec

\* The run, in which one wire rests while the other is used, is a run of each: all that is
\* proved here of either holds in it.
THEOREM EachWireAlone == WiresSpec => Spec /\ Link!Spec
<1>1. WiresInit => Init /\ Link!Init
  BY DEF WiresInit
<1>2. [WiresNext]_<<transVars, feigVars>> => [Next]_transVars /\ [Link!Next]_Link!vars
  BY DEF WiresNext, feigVars, transVars, Link!vars, Link!eventVars, Link!handlerVars,
         Link!commandVars
<1> QED BY <1>1, <1>2, PTL DEF WiresSpec, Spec, Link!Spec
=============================================================================
