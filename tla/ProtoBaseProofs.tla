-------------------------- MODULE ProtoBaseProofs --------------------------
(***************************************************************************)
(* For every buffer, fields, length of messages and versions: the types of *)
(* ProtoBase, with the bound of its buffer, and that bytes, counts and     *)
(* buffer implement FieldStream.                                           *)
(***************************************************************************)
EXTENDS ProtoBase, SequenceTheorems, FiniteSetTheorems, WellFoundedInduction, TLAPS

-----------------------------------------------------------------------------
(* Messages and their bytes.  Body is defined by recursion, which takes an *)
(* induction over the length of messages: as the least counterexample.     *)

\* A non-empty set of natural numbers has a least element.
LEMMA Least ==
  ASSUME NEW S, S \subseteq Nat, S # {}
  PROVE  \E m \in S : \A j \in S : m <= j
<1> DEFINE Smaller == OpToRel(<, Nat)
<1>1. IsWellFoundedOn(Smaller, Nat)
  BY NatLessThanWellFounded, Zenon
<1> HIDE DEF Smaller
<1>2. PICK m \in S : \A j \in S : <<j, m>> \notin Smaller
  BY <1>1, WFMin, Zenon
<1>3. \A j \in S : j < m => <<j, m>> \in Smaller
  BY DEF Smaller, OpToRel
<1>4. \A j \in S : ~(j < m)
  BY <1>2, <1>3
<1> QED BY <1>4

\* The numbers.
LEMMA Numbers == /\ BufferSize \in Nat /\ BufferSize > 7
                 /\ MaxFields \in Nat \ {0} /\ MaxQueue \in Nat \ {0}
<1>1. /\ {BufferSize, MaxFields, MaxQueue} \subseteq Nat \ {0}
      /\ BufferSize > 2 + Len(Separator)
  BY ProtoAssumption
<1>2. Len(Separator) = 5
  BY DEF Separator
<1> QED BY <1>1, <1>2

\* The separator, and the fields.
LEMMA Constants == /\ Separator \in Seq(Bytes) /\ Len(Separator) = 5
                   /\ Fields \subseteq Seq(Bytes)
<1>1. Separator \in Seq(Bytes) /\ Len(Separator) = 5
  BY DEF Separator, Bytes
<1> QED BY <1>1, FieldsAssumption

\* A message is a sequence of fields, and so is what follows its first.
LEMMA MessageIsSeq ==
  ASSUME NEW m \in Messages
  PROVE  /\ m \in Seq(Fields) /\ Len(m) \in 1..MaxFields /\ m # <<>>
         /\ \A i \in 1..Len(m) : m[i] \in Fields /\ m[i] \in Seq(Bytes)
         /\ Head(m) = m[1]
         /\ Len(m) > 1 => /\ Tail(m) \in Messages /\ Len(Tail(m)) = Len(m) - 1
                          /\ \A i \in 1..(Len(m) - 1) : Tail(m)[i] = m[i + 1]
<1>1. m \in Seq(Fields) /\ Len(m) \in 1..MaxFields
  BY Numbers DEF Messages
<1>2. m # <<>>
  BY <1>1, EmptySeq, Numbers
<1>3. \A i \in 1..Len(m) : m[i] \in Fields
  BY <1>1, ElementOfSeq
<1>4. ASSUME Len(m) > 1
      PROVE  /\ Tail(m) \in Messages /\ Len(Tail(m)) = Len(m) - 1
             /\ \A i \in 1..(Len(m) - 1) : Tail(m)[i] = m[i + 1]
  <2>1. /\ Tail(m) \in Seq(Fields) /\ Len(Tail(m)) = Len(m) - 1
        /\ \A i \in 1..(Len(m) - 1) : Tail(m)[i] = m[i + 1]
    BY <1>1, <1>2, HeadTailProperties
  <2>2. Tail(m) \in [1..(Len(m) - 1) -> Fields]
    BY <2>1, LenProperties
  <2>3. Len(m) - 1 \in 1..MaxFields
    BY <1>1, <1>4, Numbers
  <2> QED BY <2>1, <2>2, <2>3 DEF Messages
<1>5. \A i \in 1..Len(m) : m[i] \in Seq(Bytes)
  BY <1>3, Constants
<1>6. Head(m) = m[1]
  BY <1>1
<1> QED BY <1>1, <1>2, <1>3, <1>4, <1>5, <1>6

\* One step of the recursion.
BodyOf(g, m) == IF Len(m) = 1 THEN m[1] ELSE m[1] \o Separator \o g[Tail(m)]

Short(n) == {m \in Messages : Len(m) <= n}

\* Short messages: one field, or a first field and a shorter message.
LEMMA ShortTail ==
  ASSUME NEW n \in 1..MaxFields, NEW m \in Short(n)
  PROVE  /\ n = 1 => Len(m) = 1
         /\ Len(m) # 1 => Tail(m) \in Short(n - 1) /\ Tail(m) \in Short(n)
<1> DEFINE k == Len(m)
<1>1. m \in Messages /\ k <= n
  BY DEF Short
<1>2. k \in Nat \ {0}
  BY <1>1, MessageIsSeq, Numbers
<1>3. k > 1 => Tail(m) \in Messages /\ Len(Tail(m)) = k - 1
  BY <1>1, MessageIsSeq
<1> HIDE DEF k
<1>4. k # 1 => k > 1
  BY <1>2
<1>5. n = 1 => k = 1
  BY <1>1, <1>2
<1>6. n \in Nat /\ k - 1 <= n - 1 /\ k - 1 <= n
  BY <1>1, <1>2, Numbers
<1>7. k # 1 => Tail(m) \in Short(n - 1) /\ Tail(m) \in Short(n)
  BY <1>3, <1>4, <1>6 DEF Short
<1> QED BY <1>5, <1>7 DEF k

\* The recursion has a solution for messages of any length.
LEMMA BodyUpTo ==
  \A n \in 1..MaxFields : \E g : g = [m \in Short(n) |-> BodyOf(g, m)]
<1> DEFINE Solved(n) == \E g : g = [m \in Short(n) |-> BodyOf(g, m)]
           Unsolved == {n \in 1..MaxFields : ~Solved(n)}
<1> SUFFICES ASSUME Unsolved # {} PROVE FALSE
  OBVIOUS
<1>1. PICK n \in Unsolved : \A j \in Unsolved : n <= j
  <2>1. Unsolved \subseteq Nat
    BY Numbers
  <2> HIDE DEF Unsolved
  <2> QED BY <2>1, Least
<1>2. n \in 1..MaxFields /\ ~Solved(n)
  BY <1>1
<1>3. CASE n = 1
  <2> DEFINE g == [m \in Short(1) |-> m[1]]
  <2>1. \A m \in Short(1) : Len(m) = 1
    BY <1>2, <1>3, ShortTail
  <2>2. g = [m \in Short(1) |-> BodyOf(g, m)]
    BY <2>1 DEF BodyOf
  <2> QED BY <1>2, <1>3, <2>2
<1>4. CASE n # 1
  <2>1. n - 1 \in 1..MaxFields /\ n - 1 \notin Unsolved
    BY <1>1, <1>2, <1>4, Numbers
  <2>2. Solved(n - 1)
    BY <2>1
  <2>3. PICK g : g = [m \in Short(n - 1) |-> BodyOf(g, m)]
    BY <2>2
  <2> DEFINE h == [m \in Short(n) |-> BodyOf(g, m)]
  <2>4. \A m \in Short(n) : Len(m) # 1 => Tail(m) \in Short(n - 1) /\ Tail(m) \in Short(n)
    BY <1>2, ShortTail
  <2>5. \A m \in Short(n - 1) : g[m] = BodyOf(g, m)
    <3> DEFINE e(m) == BodyOf(g, m)
    <3> HIDE DEF e
    <3>1. g = [m \in Short(n - 1) |-> e(m)]
      BY <2>3 DEF e
    <3>2. \A m \in Short(n - 1) : g[m] = e(m)
      BY <3>1
    <3> QED BY <3>2 DEF e
  <2>6. \A m \in Short(n) : BodyOf(g, m) = BodyOf(h, m)
    <3> SUFFICES ASSUME NEW m \in Short(n), Len(m) # 1 PROVE g[Tail(m)] = h[Tail(m)]
      BY DEF BodyOf
    <3> QED BY <2>4, <2>5
  <2>7. h = [m \in Short(n) |-> BodyOf(h, m)]
    <3> DEFINE e1(m) == BodyOf(g, m)
               e2(m) == BodyOf(h, m)
    <3>1. \A m \in Short(n) : e1(m) = e2(m)
      BY <2>6
    <3>2. h = [m \in Short(n) |-> e1(m)]
      OBVIOUS
    <3> HIDE DEF e1, e2, h
    <3>3. h = [m \in Short(n) |-> e2(m)]
      BY <3>1, <3>2
    <3> QED BY <3>3 DEF e2
  <2> HIDE DEF h
  <2> QED BY <1>2, <2>7
<1> QED BY <1>3, <1>4

\* The bytes of a message: those of its first field, a separator, and those of
\* the message that follows (ProtoBase.h, what ReadField takes apart).
LEMMA BodyRecursive == \A m \in Messages : Body[m] = BodyOf(Body, m)
<1> DEFINE Solves(g) == g = [m \in Messages |-> BodyOf(g, m)]
<1>1. Short(MaxFields) = Messages
  BY MessageIsSeq, Numbers DEF Short
<1>2. \E g : Solves(g)
  BY <1>1, BodyUpTo, Numbers
<1>3. Body = CHOOSE g : Solves(g)
  BY DEF Body, BodyOf
<1>4. Solves(Body)
  BY <1>2, <1>3
<1> DEFINE e(m) == BodyOf(Body, m)
<1>5. Body = [m \in Messages |-> e(m)]
  BY <1>4
<1> HIDE DEF e
<1>6. \A m \in Messages : Body[m] = e(m)
  BY <1>5
<1> QED BY <1>6 DEF e

\* Induction over messages, for a set of them.
LEMMA MessageInduction ==
  ASSUME NEW S, \A m \in Messages : (Len(m) > 1 => Tail(m) \in S) => m \in S
  PROVE  Messages \subseteq S
<1> DEFINE Lengths == {Len(m) : m \in Messages \ S}
<1> SUFFICES ASSUME Lengths # {} PROVE FALSE
  OBVIOUS
<1>1. Lengths \subseteq Nat
  BY MessageIsSeq, Numbers
<1>2. PICK n \in Lengths : \A j \in Lengths : n <= j
  <2> HIDE DEF Lengths
  <2> QED BY <1>1, Least
<1>3. PICK m \in Messages \ S : Len(m) = n
  BY <1>2
<1>4. Len(m) > 1 /\ Tail(m) \notin S
  BY <1>3
<1>5. Tail(m) \in Messages /\ Len(Tail(m)) = Len(m) - 1
  BY <1>3, <1>4, MessageIsSeq, Zenon
<1>6. Len(m) - 1 \in Lengths
  BY <1>4, <1>5
<1>7. n \in Nat /\ n - 1 \in Lengths
  BY <1>1, <1>3, <1>6
<1> HIDE DEF Lengths
<1>8. n <= n - 1
  BY <1>2, <1>7
<1> QED BY <1>7, <1>8

\* The bytes of a message of one field, and of more.
LEMMA BodyShape ==
  ASSUME NEW m \in Messages
  PROVE  /\ Body[m] \in Seq(Bytes) /\ m[1] \in Seq(Bytes)
         /\ Len(m) = 1 => Body[m] = m[1]
         /\ Len(m) > 1 =>
              /\ Tail(m) \in Messages
              /\ Body[m] = m[1] \o Separator \o Body[Tail(m)]
<1> DEFINE S == {k \in Messages : Body[k] \in Seq(Bytes)}
<1>1. \A k \in Messages : /\ Len(k) = 1 => Body[k] = k[1]
                          /\ Len(k) > 1 => Body[k] = k[1] \o Separator \o Body[Tail(k)]
  <2> SUFFICES ASSUME NEW k \in Messages
               PROVE  /\ Len(k) = 1 => Body[k] = k[1]
                      /\ Len(k) > 1 => Body[k] = k[1] \o Separator \o Body[Tail(k)]
    OBVIOUS
  <2> DEFINE n == Len(k)
  <2>1. Body[k] = IF n = 1 THEN k[1] ELSE k[1] \o Separator \o Body[Tail(k)]
    BY BodyRecursive DEF BodyOf
  <2> HIDE DEF n
  <2>2. n > 1 => n # 1
    OBVIOUS
  <2>3. /\ n = 1 => Body[k] = k[1]
        /\ n > 1 => Body[k] = k[1] \o Separator \o Body[Tail(k)]
    BY <2>1, <2>2, Zenon
  <2> QED BY <2>3 DEF n
<1>2. ASSUME NEW k \in Messages, Len(k) > 1 => Tail(k) \in S PROVE k \in S
  <2>1. k[1] \in Seq(Bytes) /\ (Len(k) = 1 \/ Len(k) > 1)
    <3>1. k \in Seq(Fields) /\ Len(k) \in 1..MaxFields
      BY MessageIsSeq
    <3> DEFINE n == Len(k)
    <3>2. 1 \in 1..n /\ (n = 1 \/ n > 1)
      <4>1. n \in 1..MaxFields
        BY <3>1
      <4> HIDE DEF n
      <4> QED BY <4>1, Numbers
    <3> QED BY <3>2, MessageIsSeq
  <2>2. CASE Len(k) = 1
    BY <1>1, <2>1, <2>2
  <2>3. CASE Len(k) > 1
    <3>1. Body[Tail(k)] \in Seq(Bytes)
      BY <1>2, <2>3
    <3>2. k[1] \o Separator \in Seq(Bytes)
      BY <2>1, Constants, ConcatProperties
    <3>3. k[1] \o Separator \o Body[Tail(k)] \in Seq(Bytes)
      BY <3>1, <3>2, ConcatProperties
    <3> QED BY <1>1, <2>3, <3>3
  <2> QED BY <2>1, <2>2, <2>3
<1>3. Messages \subseteq S
  <2> HIDE DEF S
  <2> QED BY <1>2, MessageInduction
<1>4. 1 \in 1..Len(m)
  BY MessageIsSeq, Numbers
<1>5. m[1] \in Seq(Bytes)
  BY <1>4, MessageIsSeq
<1>6. Len(m) > 1 => Tail(m) \in Messages
  BY MessageIsSeq, Zenon
<1> QED BY <1>1, <1>3, <1>5, <1>6

\* What follows the first field: the separator, and the rest of the message.
LEMMA BodyLayout ==
  ASSUME NEW m \in Messages, Len(m) > 1
  PROVE  LET n == Len(m[1]) t == Body[Tail(m)]
         IN  /\ Len(Body[m]) = n + 5 + Len(t)
             /\ \A k \in 1..n : Body[m][k] = m[1][k]
             /\ \A k \in 1..5 : Body[m][n + k] = Separator[k]
             /\ \A k \in 1..Len(t) : Body[m][n + 5 + k] = t[k]
<1> DEFINE a == m[1]
           t == Body[Tail(m)]
           u == a \o Separator
<1>1. a \in Seq(Bytes) /\ Tail(m) \in Messages /\ Body[m] = u \o t
  BY BodyShape, Zenon
<1>2. t \in Seq(Bytes)
  BY <1>1, BodyShape, Zenon
<1>3. Separator \in Seq(Bytes) /\ Len(Separator) = 5
  BY Constants
<1> HIDE DEF a, t
<1>4. /\ u \in Seq(Bytes) /\ Len(u) = Len(a) + Len(Separator)
      /\ \A i \in 1..(Len(a) + Len(Separator)) :
           u[i] = IF i <= Len(a) THEN a[i] ELSE Separator[i - Len(a)]
  BY <1>1, <1>3, ConcatProperties, Zenon
<1>5. /\ Len(u \o t) = Len(u) + Len(t)
      /\ \A i \in 1..(Len(u) + Len(t)) :
           (u \o t)[i] = IF i <= Len(u) THEN u[i] ELSE t[i - Len(u)]
  <2>1. u \in Seq(Bytes)
    BY <1>4
  <2> HIDE DEF u
  <2> QED BY <1>2, <2>1, ConcatProperties, Zenon
<1> DEFINE n == Len(a)
           l == Len(t)
           b == Body[m]
<1>6. n \in Nat /\ l \in Nat
  BY <1>1, <1>2, LenProperties
<1>7. Len(u) = n + 5
  BY <1>3, <1>4
<1>8. \A i \in 1..(n + 5) : u[i] = IF i <= n THEN a[i] ELSE Separator[i - n]
  BY <1>3, <1>4
<1>9. /\ Len(b) = n + 5 + l
      /\ \A i \in 1..(n + 5 + l) : b[i] = IF i <= n + 5 THEN u[i] ELSE t[i - (n + 5)]
  BY <1>1, <1>5, <1>7
<1> HIDE DEF n, l, b, u
<1>10. \A k \in 1..n : b[k] = a[k]
  BY <1>6, <1>8, <1>9
<1>11. \A k \in 1..5 : b[n + k] = Separator[k]
  BY <1>6, <1>8, <1>9
<1>12. \A k \in 1..l : b[n + 5 + k] = t[k]
  BY <1>6, <1>9
<1> QED BY <1>9, <1>10, <1>11, <1>12 DEF n, l, b, a, t

\* What a message tells (FieldStream): its fields, without an empty last one.
LEMMA ToldShape ==
  ASSUME NEW m \in Messages
  PROVE  /\ Stream!Told(m) \in Seq(Fields)
         /\ Len(m) = 1 => Stream!Told(m) = IF m[1] = <<>> THEN <<>> ELSE <<m[1]>>
         /\ Len(m) > 1 => /\ Stream!Told(m) # <<>>
                          /\ Head(Stream!Told(m)) = m[1]
                          /\ Tail(Stream!Told(m)) = Stream!Told(Tail(m))
<1> DEFINE n == Len(m)
           t == Tail(m)
<1>1. m \in Seq(Fields) /\ n \in Nat /\ n >= 1
  BY MessageIsSeq, Numbers
<1>2. SubSeq(m, 1, n - 1) \in Seq(Fields)
  BY <1>1
<1>3. Stream!Told(m) \in Seq(Fields)
  BY <1>1, <1>2 DEF Stream!Told
<1>4. ASSUME n = 1
      PROVE  Stream!Told(m) = IF m[1] = <<>> THEN <<>> ELSE <<m[1]>>
  <2>1. m = <<m[1]>> /\ SubSeq(m, 1, n - 1) = <<>>
    BY <1>1, <1>4
  <2> QED BY <1>4, <2>1 DEF Stream!Told, Stream!EmptyLast
<1>5. ASSUME n > 1
      PROVE  /\ Stream!Told(m) # <<>>
             /\ Head(Stream!Told(m)) = m[1]
             /\ Tail(Stream!Told(m)) = Stream!Told(t)
  <2>1. t \in Seq(Fields) /\ Len(t) = n - 1 /\ \A i \in 1..(n - 1) : t[i] = m[i + 1]
    BY <1>1, <1>5
  <2>2. t[Len(t)] = m[n]
    BY <1>1, <1>5, <2>1
  <2>3. CASE m[n] # <<>>
    BY <1>1, <1>5, <2>2, <2>3 DEF Stream!Told, Stream!EmptyLast
  <2>4. CASE m[n] = <<>>
    <3>1. Stream!Told(m) = SubSeq(m, 1, n - 1) /\ Stream!Told(t) = SubSeq(t, 1, n - 2)
      BY <1>1, <2>1, <2>2, <2>4 DEF Stream!Told, Stream!EmptyLast
    <3>2. /\ SubSeq(m, 1, n - 1) # <<>> /\ Head(SubSeq(m, 1, n - 1)) = m[1]
          /\ Tail(SubSeq(m, 1, n - 1)) = SubSeq(t, 1, n - 2)
      <4> DEFINE a == SubSeq(m, 1, n - 1)
                 b == SubSeq(t, 1, n - 2)
      <4>1. /\ a \in Seq(Fields) /\ Len(a) = n - 1
            /\ \A i \in 1..(n - 1) : a[i] = m[i]
        BY <1>1, <1>5
      <4>2. /\ b \in Seq(Fields) /\ Len(b) = n - 2
            /\ \A i \in 1..(n - 2) : b[i] = m[i + 1]
        BY <1>1, <1>5, <2>1
      <4> HIDE DEF a, b, n
      <4>3. a # <<>> /\ Head(a) = m[1]
        BY <1>1, <1>5, <4>1
      <4>4. /\ Tail(a) \in Seq(Fields) /\ Len(Tail(a)) = n - 2
            /\ \A i \in 1..(n - 2) : Tail(a)[i] = m[i + 1]
        BY <1>1, <1>5, <4>1
      <4>5. Tail(a) = b
        BY <4>2, <4>4, SeqEqual
      <4> QED BY <4>3, <4>5 DEF a, b
    <3> QED BY <3>1, <3>2
  <2> QED BY <2>3, <2>4
<1> QED BY <1>3, <1>4, <1>5

\* A message without bytes tells nothing.
LEMMA ToldNothing ==
  ASSUME NEW h \in Messages, Len(Body[h]) = 0
  PROVE  Stream!Told(h) = <<>>
<1> DEFINE b == Body[h]
           n == Len(b)
           p == Len(h)
<1>1. ~(p > 1)
  <2> SUFFICES ASSUME p > 1 PROVE FALSE
    OBVIOUS
  <2> DEFINE l == Len(h[1])
             t == Len(Body[Tail(h)])
  <2>1. n = l + 5 + t
    BY BodyLayout, Zenon
  <2>2. h[1] \in Seq(Bytes) /\ Body[Tail(h)] \in Seq(Bytes)
    BY BodyShape, Zenon
  <2>3. l \in Nat
    BY <2>2, LenProperties, Zenon
  <2>4. t \in Nat
    BY <2>2, LenProperties, Zenon
  <2>5. n = 0
    OBVIOUS
  <2> HIDE DEF l, t, n
  <2> QED BY <2>1, <2>3, <2>4, <2>5
<1>2. p = 1
  <2>1. p \in 1..MaxFields
    BY MessageIsSeq, Zenon
  <2> HIDE DEF p
  <2> QED BY <1>1, <2>1, Numbers
<1>3. b \in Seq(Bytes) /\ b = h[1]
  BY <1>2, BodyShape, Zenon
<1>4. b = <<>>
  <2>1. n = 0
    OBVIOUS
  <2> HIDE DEF b
  <2> QED BY <1>3, <2>1 DEF n
<1> QED BY <1>2, <1>3, <1>4, ToldShape, Zenon

\* Bytes of a field are never a whole separator, and those at its end are not
\* the beginning of one.
LEMMA FieldBytes ==
  ASSUME NEW f \in Fields, NEW n \in 1..Len(f), NEW k \in 1..5, k <= n,
         \A i \in 1..k : f[n - k + i] = Separator[i]
  PROVE  k # 5 /\ n # Len(f)
<1>1. f \in Seq(Bytes) /\ Separator \in Seq(Bytes) /\ Len(Separator) = 5
  BY Constants
<1>2. SubSeq(f, n - k + 1, n) = SubSeq(Separator, 1, k)
  <2> DEFINE s == SubSeq(f, n - k + 1, n)
             z == SubSeq(Separator, 1, k)
  <2>1. s \in Seq(Bytes) /\ Len(s) = k /\ \A i \in 1..k : s[i] = f[n - k + i]
    BY <1>1
  <2>2. z \in Seq(Bytes) /\ Len(z) = k /\ \A i \in 1..k : z[i] = Separator[i]
    BY <1>1
  <2> HIDE DEF s, z
  <2>3. s = z
    BY <2>1, <2>2, SeqEqual
  <2> QED BY <2>3 DEF s, z
<1>3. k # 5
  <2>1. SubSeq(Separator, 1, 5) = Separator
    BY <1>1
  <2>2. k = 5 => n - k + 1 \in 1..Len(f)
    BY <1>1
  <2> QED BY <1>2, <2>1, <2>2, FieldsAssumption
<1>4. n # Len(f)
  <2>1. k \in 1..(Len(Separator) - 1) /\ k <= Len(f)
    BY <1>1, <1>3
  <2>2. k <= Len(f) => SubSeq(f, Len(f) - k + 1, Len(f)) # SubSeq(Separator, 1, k)
    BY <2>1, FieldsAssumption, Zenon
  <2> QED BY <1>2, <2>1, <2>2
<1> QED BY <1>3, <1>4

-----------------------------------------------------------------------------
(* The message being read: read is what ReadField has of it, left how many *)
(* of its bytes are still to come, w what is on the wire.                  *)

Begun(r, read, left, w) ==
  /\ Len(read) + left = Len(Body[r])
  /\ \A k \in 1..Len(read) : read[k] = Body[r][k]
  /\ \A k \in 1..left : k <= Len(w) => w[k] = Body[r][Len(read) + k]

\* The last k bytes are the first k of a separator.
Ends(read, k) == /\ k <= Len(read)
                 /\ \A i \in 1..k : read[Len(read) - k + i] = Separator[i]

\* After the whole first field there is nothing but a separator that has begun.
InTime(r, read, k) ==
  Len(r) > 1 /\ Len(read) >= Len(r[1]) => Len(read) = Len(r[1]) + k

\* The next byte is of the first field, or of the separator after it.
LEMMA NextByte ==
  ASSUME NEW r \in Messages, NEW read \in Seq(Bytes), NEW left \in Nat \ {0},
         NEW w \in Seq(Nat \cup Bytes), w # <<>>, NEW k \in 0..4,
         Begun(r, read, left, w), Ends(read, k), InTime(r, read, k)
  PROVE  /\ Head(w) \in Bytes
         /\ Begun(r, Append(read, Head(w)), left - 1, Tail(w))
         /\ Head(w) = Separator[k + 1] /\ k < 4 =>
              /\ Ends(Append(read, Head(w)), k + 1)
              /\ InTime(r, Append(read, Head(w)), k + 1)
         /\ Head(w) # Separator[k + 1] =>
              /\ Ends(Append(read, Head(w)), 0)
              /\ InTime(r, Append(read, Head(w)), 0)
         /\ Head(w) = Separator[k + 1] /\ k = 4 =>
              Len(r) > 1 /\ Len(read) = Len(r[1]) + 4
<1> DEFINE b == Body[r]
           n == Len(read)
           c == Head(w)
           f == r[1]
           l == Len(f)
           more == Len(r) > 1
           next == Append(read, c)
           v == Tail(w)
           nb == Len(b)
           nw == Len(w)
           nv == Len(v)
           nn == Len(next)
<1>1. nb \in Nat /\ n \in Nat /\ nw \in Nat /\ nw >= 1
  <2>1. nb \in Nat
    <3>1. b \in Seq(Bytes)
      BY BodyShape
    <3> QED BY <3>1, LenProperties
  <2>2. nw \in Nat /\ nw # 0
    BY LenProperties, EmptySeq
  <2>3. n \in Nat
    BY LenProperties
  <2> HIDE DEF nb, nw, n
  <2> QED BY <2>1, <2>2, <2>3
<1>2. n + left = nb /\ c = b[n + 1] /\ c \in Bytes
  <2>1. c = w[1]
    OBVIOUS
  <2>2. n + left = nb /\ \A i \in 1..left : i <= nw => w[i] = b[n + i]
    BY DEF Begun
  <2>3. b \in Seq(Bytes)
    BY BodyShape
  <2>4. \A i \in 1..nb : b[i] \in Bytes
    BY <2>3, ElementOfSeq
  <2> HIDE DEF b, nb, nw, n, c
  <2>5. n + 1 \in 1..nb /\ w[1] = b[n + 1]
    BY <1>1, <2>2
  <2> QED BY <2>1, <2>2, <2>4, <2>5
<1>3. nn = n + 1 /\ next[n + 1] = c /\ \A i \in 1..n : next[i] = read[i]
  <2> HIDE DEF c
  <2> QED BY <1>2, AppendProperties
<1>4. nv = nw - 1 /\ \A i \in 1..nv : v[i] = w[i + 1]
  BY HeadTailProperties
<1>5. /\ \A i \in 1..n : read[i] = b[i]
      /\ \A i \in 1..left : i <= nw => w[i] = b[n + i]
  BY DEF Begun
<1>6. k <= n /\ \A i \in 1..k : read[n - k + i] = Separator[i]
  BY DEF Ends
<1>7. more /\ n >= l => n = l + k
  BY DEF InTime
<1>8. f \in Fields /\ l \in Nat
  <2>1. 1 \in 1..Len(r)
    BY MessageIsSeq, Numbers
  <2>2. f \in Fields /\ f \in Seq(Bytes)
    BY <2>1, MessageIsSeq
  <2> QED BY <2>2, LenProperties
<1>9. ~more => b = f
  <2>1. ~more => Len(r) = 1
    <3> DEFINE p == Len(r)
    <3>1. p \in 1..MaxFields
      BY MessageIsSeq
    <3> HIDE DEF p
    <3>2. ~(p > 1) => p = 1
      BY <3>1, Numbers
    <3> QED BY <3>2 DEF p
  <2> QED BY <2>1, BodyShape
<1>10. more => /\ \A i \in 1..l : b[i] = f[i]
               /\ \A i \in 1..5 : b[l + i] = Separator[i]
               /\ nb >= l + 5
  <2> SUFFICES ASSUME more
               PROVE  /\ \A i \in 1..l : b[i] = f[i]
                      /\ \A i \in 1..5 : b[l + i] = Separator[i]
                      /\ nb >= l + 5
    OBVIOUS
  <2> DEFINE t == Body[Tail(r)]
             nt == Len(t)
  <2>1. /\ nb = l + 5 + nt
        /\ \A i \in 1..l : b[i] = f[i]
        /\ \A i \in 1..5 : b[l + i] = Separator[i]
    BY BodyLayout, Zenon
  <2>2. t \in Seq(Bytes)
    BY BodyShape, Zenon
  <2>3. nt \in Nat
    BY <2>2, LenProperties
  <2> HIDE DEF nt, nb, l
  <2>4. nb >= l + 5
    BY <1>8, <2>1, <2>3
  <2> QED BY <2>1, <2>4
<1> HIDE DEF b, n, c, f, l, more, next, v, nb, nw, nv, nn
<1>11. Begun(r, next, left - 1, v)
  <2>1. \A i \in 1..nn : next[i] = b[i]
    BY <1>1, <1>2, <1>3, <1>5
  <2>2. nn + (left - 1) = nb
    BY <1>1, <1>2, <1>3
  <2>3. \A i \in 1..(left - 1) : i <= nv => v[i] = b[nn + i]
    <3> SUFFICES ASSUME NEW i \in 1..(left - 1), i <= nv
                 PROVE  v[i] = b[nn + i]
      OBVIOUS
    <3>1. i + 1 \in 1..left /\ i + 1 <= nw /\ i \in 1..nv
      BY <1>1, <1>4
    <3>2. v[i] = b[n + (i + 1)]
      BY <1>4, <1>5, <3>1
    <3> QED BY <1>1, <1>3, <3>2
  <2> QED BY <2>1, <2>2, <2>3 DEF Begun, b, nn, nv, nb
\* A byte of the first field ends nothing.
<1>12. ASSUME n < l, NEW j \in 1..5, j <= n + 1,
              \A i \in 1..j : next[n + 1 - j + i] = Separator[i]
       PROVE  j # 5 /\ n + 1 # l
  <2>1. \A i \in 1..(n + 1) : next[i] = f[i]
    <3> SUFFICES ASSUME NEW i \in 1..(n + 1) PROVE next[i] = f[i]
      OBVIOUS
    <3>1. next[i] = b[i]
      BY <1>1, <1>2, <1>3, <1>5
    <3>2. i \in 1..l
      BY <1>1, <1>8, <1>12
    <3> QED BY <1>9, <1>10, <3>1, <3>2
  <2>2. n + 1 \in 1..l
    BY <1>1, <1>8, <1>12
  <2>3. \A i \in 1..j : f[n + 1 - j + i] = Separator[i]
    BY <1>1, <1>12, <2>1
  <2> DEFINE p == n + 1
  <2>4. p \in 1..l /\ j <= p /\ (\A i \in 1..j : f[p - j + i] = Separator[i])
    BY <1>1, <1>8, <1>12, <2>2, <2>3
  <2> HIDE DEF p
  <2>5. j # 5 /\ p # l
    BY <1>8, <1>12, <2>4, FieldBytes, Zenon DEF l
  <2> QED BY <2>5 DEF p
<1>13. ASSUME c = Separator[k + 1]
       PROVE  k + 1 <= n + 1 /\ \A i \in 1..(k + 1) : next[n + 1 - (k + 1) + i] = Separator[i]
  <2> SUFFICES ASSUME NEW i \in 1..(k + 1) PROVE next[n - k + i] = Separator[i]
    BY <1>1, <1>6
  <2>1. CASE i = k + 1
    BY <1>1, <1>3, <1>13, <2>1
  <2>2. CASE i # k + 1
    <3>1. i \in 1..k /\ n - k + i \in 1..n
      BY <1>1, <1>6, <2>2
    <3> QED BY <1>3, <1>6, <3>1
  <2> QED BY <2>1, <2>2
\* Without more fields there is a byte of the first to come.
<1>14. ~more => n < l
  <2>1. ~more => nb = l
    BY <1>9 DEF l, nb
  <2> QED BY <1>1, <1>2, <1>8, <2>1
<1>15. ASSUME c = Separator[k + 1], k < 4 PROVE Ends(next, k + 1) /\ InTime(r, next, k + 1)
  <2>1. Ends(next, k + 1)
    <3>1. k + 1 <= nn /\ \A i \in 1..(k + 1) : next[nn - (k + 1) + i] = Separator[i]
      BY <1>1, <1>3, <1>13, <1>15
    <3> QED BY <3>1, Zenon DEF Ends, nn
  <2>2. CASE n < l
    <3>1. n + 1 # l
      BY <1>12, <1>13, <1>15, <2>2
    <3>2. ~(nn >= l)
      BY <1>1, <1>3, <1>8, <2>2, <3>1
    <3> QED BY <2>1, <3>2 DEF InTime, nn, l, f
  <2>3. CASE ~(n < l)
    <3>1. n = l + k
      BY <1>1, <1>7, <1>8, <1>14, <2>3
    <3>2. nn = l + (k + 1)
      BY <1>3, <1>8, <3>1
    <3> QED BY <2>1, <3>2 DEF InTime, nn, l, f
  <2> QED BY <2>2, <2>3
<1>16. ASSUME c # Separator[k + 1] PROVE Ends(next, 0) /\ InTime(r, next, 0)
  <2>1. Ends(next, 0)
    BY <1>1, <1>3 DEF Ends, nn
  <2>2. CASE n < l
    <3>1. nn >= l => nn = l + 0
      BY <1>1, <1>3, <1>8, <2>2
    <3> QED BY <2>1, <3>1 DEF InTime, nn, l, f
  <2>3. CASE ~(n < l)
    <3>1. more /\ n = l + k
      BY <1>1, <1>7, <1>8, <1>14, <2>3
    <3>2. b[l + (k + 1)] = Separator[k + 1]
      BY <1>10, <3>1
    <3>3. b[n + 1] = b[l + (k + 1)]
      BY <1>8, <3>1
    <3> QED BY <1>2, <1>16, <3>2, <3>3
  <2> QED BY <2>2, <2>3
<1>17. ASSUME c = Separator[k + 1], k = 4 PROVE more /\ n = l + 4
  <2>1. ~(n < l)
    BY <1>12, <1>13, <1>17
  <2> QED BY <1>1, <1>7, <1>8, <1>14, <1>17, <2>1
<1> QED BY <1>2, <1>11, <1>15, <1>16, <1>17 DEF c, next, v, more, n, l, f

\* Nothing read is a beginning.
LEMMA NothingRead ==
  ASSUME NEW r \in Messages
  PROVE  Ends(<<>>, 0) /\ InTime(r, <<>>, 0)
<1> DEFINE l == Len(r[1])
<1>1. l \in Nat
  <2>1. r[1] \in Seq(Bytes)
    BY BodyShape, Zenon
  <2> QED BY <2>1, LenProperties
<1>2. Ends(<<>>, 0)
  BY DEF Ends
<1>3. Len(<<>>) = 0
  OBVIOUS
<1> DEFINE z == Len(<<>>)
<1>4. z = 0
  BY <1>3
<1> HIDE DEF l, z
<1>5. z >= l => z = l + 0
  BY <1>1, <1>4
<1> QED BY <1>2, <1>5, Zenon DEF InTime, l, z

\* Past a separator, the message that follows is being read.
LEMMA FieldEnds ==
  ASSUME NEW r \in Messages, Len(r) > 1, NEW read \in Seq(Bytes), NEW left \in Nat,
         NEW w, Len(read) = Len(r[1]) + 5, Begun(r, read, left, w)
  PROVE  /\ SubSeq(read, 1, Len(read) - 5) = r[1]
         /\ Len(Body[Tail(r)]) = left /\ Begun(Tail(r), <<>>, left, w)
<1> DEFINE b == Body[r]
           t == Body[Tail(r)]
           f == r[1]
           n == Len(read)
           l == Len(f)
           nb == Len(b)
           nt == Len(t)
           nw == Len(w)
           s == SubSeq(read, 1, n - 5)
           z == Len(<<>>)
<1>1. f \in Seq(Bytes) /\ t \in Seq(Bytes)
  BY BodyShape, Zenon
<1>2. l \in Nat /\ nt \in Nat /\ n \in Nat
  <2>1. l \in Nat
    BY <1>1, LenProperties
  <2>2. nt \in Nat
    BY <1>1, LenProperties
  <2>3. n \in Nat
    BY LenProperties
  <2> QED BY <2>1, <2>2, <2>3
<1>3. /\ nb = l + 5 + nt
      /\ \A k \in 1..l : b[k] = f[k]
      /\ \A k \in 1..nt : b[l + 5 + k] = t[k]
  BY BodyLayout, Zenon
<1>4. /\ n + left = nb
      /\ \A k \in 1..n : read[k] = b[k]
      /\ \A k \in 1..left : k <= nw => w[k] = b[n + k]
  BY DEF Begun
<1>5. n = l + 5
  OBVIOUS
<1>6. s \in Seq(Bytes) /\ Len(s) = n - 5 /\ \A k \in 1..(n - 5) : s[k] = read[k]
  <2>1. n - 5 \in Nat /\ n - 5 <= n
    <3> HIDE DEF n, l
    <3> QED BY <1>2, <1>5
  <2>2. \A k \in 1..n : read[k] \in Bytes
    BY ElementOfSeq
  <2> DEFINE j == n - 5
  <2>3. \A k \in 1..j : read[k] \in Bytes
    BY <1>2, <2>1, <2>2
  <2> HIDE DEF n, j
  <2>4. SubSeq(read, 1, j) \in Seq(Bytes) /\ Len(SubSeq(read, 1, j)) = j
        /\ \A k \in 1..j : SubSeq(read, 1, j)[k] = read[k]
    BY <2>1, <2>3, SubSeqProperties DEF j
  <2> QED BY <2>4 DEF j
<1>7. z = 0
  OBVIOUS
<1> HIDE DEF b, t, n, l, nb, nt, nw, s, z
<1>8. s = f
  <2>1. Len(s) = l
    BY <1>2, <1>5, <1>6
  <2>2. \A k \in 1..l : s[k] = f[k]
    BY <1>2, <1>3, <1>4, <1>5, <1>6
  <2> HIDE DEF f
  <2> QED BY <1>1, <1>6, <2>1, <2>2, SeqEqual DEF l
<1>9. nt = left
  BY <1>2, <1>3, <1>4, <1>5
<1>10. /\ z + left = nt
       /\ \A k \in 1..z : <<>>[k] = t[k]
       /\ \A k \in 1..left : k <= nw => w[k] = t[z + k]
  BY <1>2, <1>3, <1>4, <1>5, <1>7, <1>9
<1>11. Begun(Tail(r), <<>>, left, w)
  BY <1>10, Zenon DEF Begun, z, t, nt, nw
<1> QED BY <1>8, <1>9, <1>11, Zenon DEF s, n, nt, t, f

\* When all bytes are read, what was read is the last field.
LEMMA LastField ==
  ASSUME NEW r \in Messages, NEW read \in Seq(Bytes), NEW w, NEW k \in 0..4,
         Begun(r, read, 0, w), InTime(r, read, k)
  PROVE  Len(r) = 1 /\ read = r[1]
<1> DEFINE b == Body[r]
           n == Len(read)
           nb == Len(b)
           l == Len(r[1])
           p == Len(r)
<1>1. b \in Seq(Bytes) /\ r[1] \in Seq(Bytes) /\ (p = 1 => b = r[1])
  BY BodyShape, Zenon
<1>2. l \in Nat /\ n \in Nat
  <2>1. l \in Nat
    BY <1>1, LenProperties
  <2>2. n \in Nat
    BY LenProperties
  <2> QED BY <2>1, <2>2
<1>3. n + 0 = nb /\ \A i \in 1..n : read[i] = b[i]
  BY Zenon DEF Begun
<1>4. p > 1 /\ n >= l => n = l + k
  BY Zenon DEF InTime
<1>5. p > 1 => nb >= l + 5
  <2> DEFINE t == Body[Tail(r)]
             nt == Len(t)
  <2>1. p > 1 => nb = l + 5 + nt /\ t \in Seq(Bytes)
    BY BodyLayout, BodyShape, Zenon
  <2>2. t \in Seq(Bytes) => nt \in Nat
    BY LenProperties
  <2> HIDE DEF p, nb, l, nt, t
  <2> QED BY <1>2, <2>1, <2>2
<1>6. p \in 1..MaxFields
  BY MessageIsSeq, Zenon
<1>7. nb \in Nat
  BY <1>1, LenProperties
<1> HIDE DEF b, n, nb, l, p
<1>8. p = 1
  BY <1>2, <1>3, <1>4, <1>5, <1>6, <1>7, Numbers
<1>9. read = b
  <2>1. n = nb
    BY <1>2, <1>3, <1>7
  <2> QED BY <1>1, <1>3, <2>1, SeqEqual DEF n, nb
<1> QED BY <1>1, <1>8, <1>9 DEF p

-----------------------------------------------------------------------------
(* The wire: after what is left of the message being read, the packets of  *)
(* those in queue, one after the other, the last perhaps cut short.        *)

\* A part of a sequence: what comes after the first a elements, up to the b-th.
LEMMA Cut ==
  ASSUME NEW S, NEW w \in Seq(S), NEW a \in Nat, NEW b \in Nat, a <= b, b <= Len(w)
  PROVE  /\ SubSeq(w, a + 1, b) \in Seq(S)
         /\ Len(SubSeq(w, a + 1, b)) = b - a
         /\ \A i \in 1..(b - a) : SubSeq(w, a + 1, b)[i] = w[a + i]
  OBVIOUS

\* The bytes of p are where it begins, after the first k, as far as w goes.
InPlace(w, k, p) == \A i \in 1..Len(p) : k + i <= Len(w) => w[k + i] = p[i]

\* at[i] is where the packet of q[i] begins, and the last one where all end.
Framed(w, q, left, at) ==
  /\ at \in [1..(Len(q) + 1) -> Nat] /\ at[1] = left
  /\ \A i, j \in 1..(Len(q) + 1) : i <= j => at[i] <= at[j]
  /\ \A i \in 1..Len(q) : /\ at[i + 1] = at[i] + Len(Packet(q[i]))
                         /\ InPlace(w, at[i], Packet(q[i]))

Frames(w, q, left, whole) ==
  \E at : /\ Framed(w, q, left, at)
          /\ Len(w) <= at[Len(q) + 1]
          /\ whole => Len(w) = at[Len(q) + 1]

\* A packet is the length of a message and its bytes.
LEMMA PacketShape ==
  ASSUME NEW m \in Messages
  PROVE  /\ Packet(m) \in Seq(Nat \cup Bytes)
         /\ Len(Body[m]) \in Nat /\ Len(Packet(m)) = 1 + Len(Body[m])
         /\ Packet(m)[1] = Len(Body[m])
         /\ \A k \in 1..Len(Body[m]) : Packet(m)[1 + k] = Body[m][k]
<1> DEFINE b == Body[m]
           n == Len(b)
           p == <<n>> \o b
<1>1. b \in Seq(Bytes)
  BY BodyShape, Zenon
<1>2. n \in Nat
  BY <1>1, LenProperties
<1>3. b \in Seq(Nat \cup Bytes)
  BY <1>1, SeqMonotonic
<1>4. <<n>> \in Seq(Nat \cup Bytes) /\ Len(<<n>>) = 1 /\ <<n>>[1] = n
  <2> HIDE DEF n
  <2> QED BY <1>2
<1>5. /\ p \in Seq(Nat \cup Bytes) /\ Len(p) = 1 + n
      /\ \A i \in 1..(1 + n) : p[i] = IF i <= 1 THEN <<n>>[i] ELSE b[i - 1]
  <2> DEFINE h == <<n>>
  <2>1. h \in Seq(Nat \cup Bytes) /\ Len(h) = 1
    BY <1>4
  <2> HIDE DEF h, b
  <2>2. /\ h \o b \in Seq(Nat \cup Bytes) /\ Len(h \o b) = Len(h) + Len(b)
        /\ \A i \in 1..(Len(h) + Len(b)) :
             (h \o b)[i] = IF i <= Len(h) THEN h[i] ELSE b[i - Len(h)]
    BY <1>3, <2>1, ConcatProperties, Zenon
  <2>3. /\ h \o b \in Seq(Nat \cup Bytes) /\ Len(h \o b) = 1 + Len(b)
        /\ \A i \in 1..(1 + Len(b)) :
             (h \o b)[i] = IF i <= 1 THEN h[i] ELSE b[i - 1]
    BY <2>1, <2>2, Zenon
  <2> QED BY <2>3, Zenon DEF h
<1> DEFINE g == <<n>>
<1>6. g[1] = n
  OBVIOUS
<1> HIDE DEF p, n, b, g
<1>7. p[1] = n /\ \A k \in 1..n : p[1 + k] = b[k]
  <2>1. \A i \in 1..(1 + n) : p[i] = IF i <= 1 THEN g[i] ELSE b[i - 1]
    BY <1>5, Zenon DEF g
  <2> QED BY <1>2, <1>6, <2>1
<1>8. p = Packet(m)
  BY Zenon DEF p, n, b, Packet
<1> QED BY <1>2, <1>5, <1>7, <1>8, Zenon DEF n, b

\* The backend sends one message more.
LEMMA FramesAppend ==
  ASSUME NEW w \in Seq(Nat \cup Bytes), NEW q \in Seq(Messages), NEW left \in Nat,
         Frames(w, q, left, TRUE), NEW m \in Messages
  PROVE  Frames(w \o Packet(m), Append(q, m), left, TRUE)
<1> DEFINE n == Len(q)
           lw == Len(w)
           p == Packet(m)
           lp == Len(p)
           w2 == w \o p
           l2 == Len(w2)
           q2 == Append(q, m)
           n2 == Len(q2)
<1>1. PICK at : Framed(w, q, left, at) /\ lw = at[n + 1]
  BY Zenon DEF Frames
<1>2. n \in Nat /\ lw \in Nat
  <2>1. n \in Nat
    BY LenProperties, Zenon
  <2>2. lw \in Nat
    BY LenProperties, Zenon
  <2> QED BY <2>1, <2>2
<1>3. p \in Seq(Nat \cup Bytes)
  BY PacketShape, Zenon
<1>4. lp \in Nat
  BY <1>3, LenProperties, Zenon
<1>5. l2 = lw + lp /\ \A i \in 1..(lw + lp) : w2[i] = IF i <= lw THEN w[i] ELSE p[i - lw]
  <2> HIDE DEF p
  <2> QED BY <1>3, ConcatProperties, Zenon
<1>6. n2 = n + 1 /\ q2[n + 1] = m /\ \A i \in 1..n : q2[i] = q[i]
  <2>1. /\ Len(Append(q, m)) = Len(q) + 1 /\ Append(q, m)[Len(q) + 1] = m
        /\ \A i \in 1..Len(q) : Append(q, m)[i] = q[i]
    BY AppendProperties
  <2> QED BY <2>1, Zenon
<1>7. at \in [1..(n + 1) -> Nat] /\ at[1] = left
  BY <1>1, Zenon DEF Framed
<1>8. \A i, j \in 1..(n + 1) : i <= j => at[i] <= at[j]
  BY <1>1, Zenon DEF Framed
<1>9. \A i \in 1..n : /\ at[i + 1] = at[i] + Len(Packet(q[i]))
                     /\ InPlace(w, at[i], Packet(q[i]))
  BY <1>1, Zenon DEF Framed
<1> DEFINE at2 == [i \in 1..(n2 + 1) |-> IF i <= n + 1 THEN at[i] ELSE at[n + 1] + lp]
<1> HIDE DEF n, lw, p, lp, w2, l2, q2, n2
<1>10. at2 \in [1..(n2 + 1) -> Nat] /\ at2[1] = left
  BY <1>2, <1>4, <1>6, <1>7
<1>11. /\ \A i \in 1..(n + 1) : at2[i] = at[i]
       /\ at2[n2 + 1] = at[n + 1] + lp
  BY <1>2, <1>6
<1> HIDE DEF at2
<1>12. \A i, j \in 1..(n2 + 1) : i <= j => at2[i] <= at2[j]
  <2> SUFFICES ASSUME NEW i \in 1..(n2 + 1), NEW j \in 1..(n2 + 1), i <= j
               PROVE  at2[i] <= at2[j]
    OBVIOUS
  <2>1. CASE j \in 1..(n + 1)
    <3>1. i \in 1..(n + 1)
      BY <1>2, <2>1
    <3> QED BY <1>8, <1>11, <2>1, <3>1
  <2>2. CASE i \in 1..(n + 1) /\ j = n2 + 1
    <3>1. n + 1 \in 1..(n + 1) /\ i <= n + 1
      BY <1>2, <2>2
    <3>2. at[i] <= at[n + 1] /\ at[i] \in Nat /\ at[n + 1] \in Nat
      BY <1>7, <1>8, <2>2, <3>1
    <3> QED BY <1>4, <1>11, <2>2, <3>2
  <2>3. CASE i = n2 + 1 /\ j = n2 + 1
    <3>1. n2 + 1 \in 1..(n2 + 1)
      BY <1>2, <1>6
    <3>2. at2[n2 + 1] \in Nat
      BY <1>10, <3>1
    <3> QED BY <2>3, <3>2
  <2> QED BY <1>2, <1>6, <2>1, <2>2, <2>3
<1>13. ASSUME NEW i \in 1..n2
       PROVE  at2[i + 1] = at2[i] + Len(Packet(q2[i])) /\ InPlace(w2, at2[i], Packet(q2[i]))
  <2>1. CASE i = n + 1
    <3>1. Packet(q2[i]) = p /\ at2[i] = lw /\ at2[i + 1] = lw + lp
      <4>1. n + 1 \in 1..(n + 1)
        BY <1>2
      <4>2. at2[n + 1] = lw /\ at2[n2 + 1] = lw + lp
        BY <1>1, <1>11, <4>1 DEF lw, n
      <4> QED BY <1>6, <2>1, <4>2 DEF p
    <3>2. \A k \in 1..lp : lw + k <= l2 => w2[lw + k] = p[k]
      BY <1>2, <1>4, <1>5
    <3> QED BY <3>1, <3>2, Zenon DEF InPlace, lp, l2
  <2>2. CASE i # n + 1
    <3>1. i \in 1..n /\ i \in 1..(n + 1) /\ i + 1 \in 1..(n + 1)
          /\ n + 1 \in 1..(n + 1) /\ i + 1 <= n + 1
      BY <1>2, <1>6, <2>2
    <3> DEFINE pi == Packet(q[i])
               li == Len(pi)
    <3>2. q2[i] = q[i] /\ at2[i] = at[i] /\ at2[i + 1] = at[i + 1]
      BY <1>6, <1>11, <3>1
    <3>3. at[i + 1] = at[i] + li /\ \A k \in 1..li : at[i] + k <= lw => w[at[i] + k] = pi[k]
      <4>1. at[i + 1] = at[i] + li /\ InPlace(w, at[i], pi)
        BY <1>9, <3>1, Zenon
      <4> HIDE DEF pi
      <4> QED BY <4>1, Zenon DEF InPlace, lw
    <3>4. at[i + 1] <= lw
      BY <1>1, <1>8, <3>1 DEF lw, n
    <3>5. at[i] \in Nat
      BY <1>7, <3>1
    <3>6. li \in Nat
      <4>1. q[i] \in Messages
        BY <3>1, ElementOfSeq, Zenon DEF n
      <4>2. pi \in Seq(Nat \cup Bytes)
        BY <4>1, PacketShape, Zenon
      <4> QED BY <4>2, LenProperties, Zenon
    <3> HIDE DEF pi, li
    <3>7. \A k \in 1..li : at[i] + k <= l2 => w2[at[i] + k] = pi[k]
      <4> SUFFICES ASSUME NEW k \in 1..li PROVE w2[at[i] + k] = pi[k]
        OBVIOUS
      <4>1. at[i] + k \in 1..(lw + lp) /\ at[i] + k <= lw
        BY <1>2, <1>4, <3>3, <3>4, <3>5, <3>6
      <4> QED BY <1>5, <3>3, <4>1
    <3>8. InPlace(w2, at[i], pi)
      BY <3>7, Zenon DEF InPlace, li, l2
    <3> QED BY <3>2, <3>3, <3>8 DEF pi, li
  <2> QED BY <2>1, <2>2
<1>14. l2 = at2[n2 + 1]
  BY <1>1, <1>5, <1>11 DEF n, lw
<1>15. l2 <= at2[n2 + 1]
  BY <1>2, <1>4, <1>5, <1>14
<1>16. Framed(w2, q2, left, at2)
  BY <1>10, <1>12, <1>13, Zenon DEF Framed, n2
<1> QED BY <1>14, <1>15, <1>16, Zenon DEF Frames, w2, q2, l2, n2, p

\* Items of what is left are taken from the wire.
LEMMA FramesDrop ==
  ASSUME NEW w \in Seq(Nat \cup Bytes), NEW q \in Seq(Messages), NEW left \in Nat,
         NEW whole \in BOOLEAN, Frames(w, q, left, whole),
         NEW d \in Nat, d <= left, d <= Len(w)
  PROVE  Frames(SubSeq(w, d + 1, Len(w)), q, left - d, whole)
<1> DEFINE n == Len(q)
           lw == Len(w)
           w2 == SubSeq(w, d + 1, lw)
           l2 == Len(w2)
           P(i) == Packet(q[i])
           L(i) == Len(P(i))
<1>1. PICK at : /\ Framed(w, q, left, at) /\ lw <= at[n + 1]
                /\ whole => lw = at[n + 1]
  BY Zenon DEF Frames
<1>2. n \in Nat
  BY LenProperties, Zenon
<1>3. lw \in Nat
  BY LenProperties, Zenon
<1>4. l2 = lw - d /\ \A i \in 1..(lw - d) : w2[i] = w[d + i]
  <2>1. lw <= lw /\ d <= lw
    <3> DEFINE x == lw
    <3>1. x \in Nat /\ d <= x
      BY <1>3
    <3> HIDE DEF x
    <3>2. x <= x
      BY <3>1
    <3> QED BY <3>1, <3>2 DEF x
  <2>2. /\ Len(SubSeq(w, d + 1, Len(w))) = Len(w) - d
        /\ \A i \in 1..(Len(w) - d) : SubSeq(w, d + 1, Len(w))[i] = w[d + i]
    BY <1>3, <2>1, Cut
  <2> QED BY <2>2, Zenon
<1>5. at \in [1..(n + 1) -> Nat] /\ at[1] = left
  BY <1>1, Zenon DEF Framed
<1>6. \A i, j \in 1..(n + 1) : i <= j => at[i] <= at[j]
  BY <1>1, Zenon DEF Framed
<1>7. \A i \in 1..n : at[i + 1] = at[i] + L(i) /\ InPlace(w, at[i], P(i))
  BY <1>1, Zenon DEF Framed
<1>8. \A i \in 1..n : \A k \in 1..L(i) : at[i] + k <= lw => w[at[i] + k] = P(i)[k]
  <2> HIDE DEF P
  <2> QED BY <1>7, Zenon DEF InPlace
<1>9. \A i \in 1..n : L(i) \in Nat
  <2> SUFFICES ASSUME NEW i \in 1..n PROVE L(i) \in Nat
    OBVIOUS
  <2>1. q[i] \in Messages
    BY ElementOfSeq, Zenon
  <2>2. P(i) \in Seq(Nat \cup Bytes)
    BY <2>1, PacketShape, Zenon
  <2> QED BY <2>2, LenProperties, Zenon
<1>10. d <= lw
  OBVIOUS
<1> DEFINE at2 == [i \in 1..(n + 1) |-> at[i] - d]
<1> HIDE DEF n, lw, w2, l2, P, L
<1>11. \A i \in 1..(n + 1) : at[i] \in Nat /\ at[i] >= left
  BY <1>2, <1>5, <1>6
<1>12. at2 \in [1..(n + 1) -> Nat] /\ \A i \in 1..(n + 1) : at2[i] = at[i] - d
  <2>1. \A i \in 1..(n + 1) : at[i] - d \in Nat
    BY <1>11
  <2> QED BY <2>1
<1> HIDE DEF at2
<1>13. at2[1] = left - d
  BY <1>2, <1>5, <1>12
<1>14. \A i, j \in 1..(n + 1) : i <= j => at2[i] <= at2[j]
  BY <1>6, <1>11, <1>12
<1>15. ASSUME NEW i \in 1..n
       PROVE  at2[i + 1] = at2[i] + L(i) /\ InPlace(w2, at2[i], P(i))
  <2>1. i \in 1..(n + 1) /\ i + 1 \in 1..(n + 1)
    BY <1>2
  <2>2. at2[i] = at[i] - d /\ at2[i + 1] = at[i + 1] - d /\ at[i] \in Nat /\ at2[i] \in Nat
    BY <1>11, <1>12, <2>1
  <2>3. at[i + 1] = at[i] + L(i) /\ L(i) \in Nat
    BY <1>7, <1>9, Zenon
  <2>4. at2[i + 1] = at2[i] + L(i)
    BY <2>2, <2>3
  <2>5. \A k \in 1..L(i) : at2[i] + k <= l2 => w2[at2[i] + k] = P(i)[k]
    <3> SUFFICES ASSUME NEW k \in 1..L(i), at2[i] + k <= l2
                 PROVE  w2[at2[i] + k] = P(i)[k]
      OBVIOUS
    <3> DEFINE z == at2[i] + k
    <3>1. z \in 1..(lw - d) /\ d + z = at[i] + k /\ at[i] + k <= lw
      <4> DEFINE y == at2[i]
                 x == at[i]
                 m == L(i)
      <4>1. y \in Nat /\ x \in Nat /\ m \in Nat /\ y = x - d /\ k \in 1..m /\ y + k <= l2
        BY <2>2, <2>3
      <4>2. l2 = lw - d
        BY <1>4
      <4> HIDE DEF y, x, m
      <4>3. y + k \in 1..(lw - d) /\ d + (y + k) = x + k /\ x + k <= lw
        BY <1>3, <1>10, <4>1, <4>2
      <4> QED BY <4>3 DEF y, x
    <3> HIDE DEF z
    <3>2. w2[z] = w[at[i] + k]
      BY <1>4, <3>1
    <3>3. w[at[i] + k] = P(i)[k]
      BY <1>8, <3>1, Zenon
    <3> QED BY <3>2, <3>3 DEF z
  <2>6. InPlace(w2, at2[i], P(i))
    BY <2>5, Zenon DEF InPlace, L, l2
  <2> QED BY <2>4, <2>6
<1>16. Framed(w2, q, left - d, at2)
  BY <1>12, <1>13, <1>14, <1>15, Zenon DEF Framed, n, L, P
<1>17. l2 <= at2[n + 1] /\ (whole => l2 = at2[n + 1])
  <2>1. n + 1 \in 1..(n + 1)
    BY <1>2
  <2>2. at2[n + 1] = at[n + 1] - d /\ at[n + 1] \in Nat
    BY <1>11, <1>12, <2>1
  <2>3. lw <= at[n + 1] /\ (whole => lw = at[n + 1])
    BY <1>1, Zenon DEF lw, n
  <2>4. lw - d <= at[n + 1] - d
    BY <1>3, <2>2, <2>3
  <2> QED BY <1>4, <2>2, <2>3, <2>4
<1> QED BY <1>16, <1>17, Zenon DEF Frames, w2, l2, n, lw

\* The wire is cut short.
LEMMA FramesLose ==
  ASSUME NEW w \in Seq(Nat \cup Bytes), NEW q \in Seq(Messages), NEW left \in Nat,
         NEW whole \in BOOLEAN, Frames(w, q, left, whole), NEW d \in 0..Len(w)
  PROVE  Frames(SubSeq(w, 1, d), q, left, FALSE)
<1> DEFINE n == Len(q)
           lw == Len(w)
           w2 == SubSeq(w, 1, d)
           l2 == Len(w2)
<1>1. PICK at : Framed(w, q, left, at) /\ lw <= at[n + 1]
  BY Zenon DEF Frames
<1>2. n \in Nat
  BY LenProperties, Zenon
<1>3. lw \in Nat
  BY LenProperties, Zenon
<1>4. d \in Nat /\ d <= lw
  <2>1. d \in 0..lw
    OBVIOUS
  <2> HIDE DEF lw
  <2> QED BY <1>3, <2>1
<1>5. l2 = d /\ \A i \in 1..d : w2[i] = w[i]
  <2>1. 0 \in Nat /\ 0 <= d
    BY <1>4
  <2>2. /\ Len(SubSeq(w, 0 + 1, d)) = d - 0
        /\ \A i \in 1..(d - 0) : SubSeq(w, 0 + 1, d)[i] = w[0 + i]
    BY <1>4, <2>1, Cut, Zenon
  <2>3. 0 + 1 = 1 /\ d - 0 = d /\ \A i \in 1..d : 0 + i = i
    BY <1>4
  <2> QED BY <2>2, <2>3
<1>6. at \in [1..(n + 1) -> Nat] /\ at[1] = left
  BY <1>1, Zenon DEF Framed
<1>7. \A i, j \in 1..(n + 1) : i <= j => at[i] <= at[j]
  BY <1>1, Zenon DEF Framed
<1>8. ASSUME NEW i \in 1..n
      PROVE  at[i + 1] = at[i] + Len(Packet(q[i])) /\ InPlace(w2, at[i], Packet(q[i]))
  <2> DEFINE p == Packet(q[i])
             l == Len(p)
  <2>1. at[i + 1] = at[i] + l /\ InPlace(w, at[i], p)
    BY <1>1, Zenon DEF Framed
  <2>2. \A k \in 1..l : at[i] + k <= lw => w[at[i] + k] = p[k]
    <3>1. InPlace(w, at[i], p)
      BY <2>1
    <3> HIDE DEF p
    <3> QED BY <3>1, Zenon DEF InPlace
  <2>3. l \in Nat
    <3>1. q[i] \in Messages
      BY ElementOfSeq, Zenon
    <3>2. p \in Seq(Nat \cup Bytes)
      BY <3>1, PacketShape, Zenon
    <3> QED BY <3>2, LenProperties, Zenon
  <2>4. at[i] \in Nat
    <3> HIDE DEF n
    <3>1. i \in 1..(n + 1)
      BY <1>2
    <3> QED BY <1>6, <3>1
  <2> HIDE DEF p, l, lw, l2, w2
  <2>5. \A k \in 1..l : at[i] + k <= l2 => w2[at[i] + k] = p[k]
    <3> SUFFICES ASSUME NEW k \in 1..l, at[i] + k <= l2 PROVE w2[at[i] + k] = p[k]
      OBVIOUS
    <3>1. at[i] + k \in 1..d /\ at[i] + k <= lw
      BY <1>3, <1>4, <1>5, <2>3, <2>4
    <3> QED BY <1>5, <2>2, <3>1
  <2>6. InPlace(w2, at[i], p)
    BY <2>5, Zenon DEF InPlace, l2, l
  <2> QED BY <2>1, <2>6, Zenon DEF p, l
<1>9. Framed(w2, q, left, at)
  <2> HIDE DEF w2
  <2> QED BY <1>6, <1>7, <1>8, Zenon DEF Framed
<1>10. l2 <= at[n + 1]
  <2> HIDE DEF lw, l2, n
  <2>1. n + 1 \in 1..(n + 1)
    BY <1>2
  <2>2. at[n + 1] \in Nat
    BY <1>6, <2>1
  <2>3. lw <= at[n + 1]
    BY <1>1 DEF lw, n
  <2> QED BY <1>3, <1>4, <1>5, <2>2, <2>3
<1> QED BY <1>9, <1>10, Zenon DEF Frames

\* The length of a message is taken from the wire: it is the oldest of queue,
\* and its bytes follow.
LEMMA FramesBegin ==
  ASSUME NEW w \in Seq(Nat \cup Bytes), NEW q \in Seq(Messages),
         NEW whole \in BOOLEAN, Frames(w, q, 0, whole), w # <<>>
  PROVE  /\ q # <<>> /\ Head(q) \in Messages /\ Tail(q) \in Seq(Messages)
         /\ Head(w) = Len(Body[Head(q)]) /\ Head(w) \in Nat
         /\ Frames(Tail(w), Tail(q), Head(w), whole)
         /\ Begun(Head(q), <<>>, Head(w), Tail(w))
<1> DEFINE n == Len(q)
           lw == Len(w)
           w2 == Tail(w)
           l2 == Len(w2)
           q2 == Tail(q)
           n2 == Len(q2)
           h == Head(q)
           b == Len(Body[h])
           P(i) == Packet(q[i])
           L(i) == Len(P(i))
<1>1. PICK at : /\ Framed(w, q, 0, at) /\ lw <= at[n + 1]
                /\ whole => lw = at[n + 1]
  BY Zenon DEF Frames
<1>2. n \in Nat
  BY LenProperties, Zenon
<1>3. lw \in Nat /\ lw # 0
  <2>1. lw \in Nat \ {0}
    BY EmptySeq, Zenon
  <2> HIDE DEF lw
  <2> QED BY <2>1
<1>4. l2 = lw - 1 /\ (\A i \in 1..l2 : w2[i] = w[i + 1]) /\ Head(w) = w[1]
  <2>1. l2 = lw - 1 /\ \A i \in 1..l2 : w2[i] = w[i + 1]
    BY HeadTailProperties, Zenon
  <2>2. Head(w) = w[1]
    OBVIOUS
  <2> QED BY <2>1, <2>2
<1>5. at \in [1..(n + 1) -> Nat] /\ at[1] = 0
  BY <1>1, Zenon DEF Framed
<1>6. \A i, j \in 1..(n + 1) : i <= j => at[i] <= at[j]
  BY <1>1, Zenon DEF Framed
<1>7. \A i \in 1..n : at[i + 1] = at[i] + L(i) /\ InPlace(w, at[i], P(i))
  BY <1>1, Zenon DEF Framed
<1>8. \A i \in 1..n : \A k \in 1..L(i) : at[i] + k <= lw => w[at[i] + k] = P(i)[k]
  <2> HIDE DEF P
  <2> QED BY <1>7, Zenon DEF InPlace
<1>9. \A i \in 1..n : L(i) \in Nat
  <2> SUFFICES ASSUME NEW i \in 1..n PROVE L(i) \in Nat
    OBVIOUS
  <2>1. q[i] \in Messages
    BY ElementOfSeq, Zenon
  <2>2. P(i) \in Seq(Nat \cup Bytes)
    BY <2>1, PacketShape, Zenon
  <2> QED BY <2>2, LenProperties, Zenon
<1>10. n # 0
  <2> HIDE DEF n, lw
  <2>1. lw <= at[n + 1]
    BY <1>1 DEF lw, n
  <2>2. n = 0 => lw <= 0
    BY <1>5, <2>1
  <2> QED BY <1>3, <2>2
<1>11. q # <<>>
  <2>1. q = <<>> => n = 0
    OBVIOUS
  <2> QED BY <1>10, <2>1
<1>12. /\ h \in Messages /\ q2 \in Seq(Messages) /\ n2 = n - 1
       /\ \A i \in 1..n2 : q2[i] = q[i + 1]
  BY <1>11, HeadTailProperties, Zenon
<1>13. h = q[1]
  BY <1>11
<1>14. /\ b \in Nat /\ L(1) = 1 + b /\ P(1)[1] = b
       /\ \A k \in 1..b : P(1)[1 + k] = Body[h][k]
  <2> HIDE DEF h
  <2>1. Packet(q[1]) = Packet(h)
    BY <1>13
  <2> QED BY <1>12, <2>1, PacketShape, Zenon
<1> DEFINE at2 == [i \in 1..(n2 + 1) |-> at[i + 1] - 1]
<1> HIDE DEF n, lw, w2, l2, q2, n2, h, b, P, L
<1>15. 1 \in 1..n /\ at[2] = 1 + b
  <2>1. 1 \in 1..n
    BY <1>2, <1>10
  <2>2. at[1 + 1] = at[1] + L(1)
    BY <1>7, <2>1, Zenon
  <2> QED BY <1>5, <1>14, <2>1, <2>2
<1>16. w[1] = b /\ \A k \in 1..b : k <= l2 => w2[k] = Body[h][k]
  <2>1. \A k \in 1..(1 + b) : k <= lw => w[k] = P(1)[k]
    <3>1. \A k \in 1..L(1) : at[1] + k <= lw => w[at[1] + k] = P(1)[k]
      BY <1>8, <1>15, Zenon
    <3> SUFFICES ASSUME NEW k \in 1..(1 + b), k <= lw PROVE w[k] = P(1)[k]
      OBVIOUS
    <3>2. k \in 1..L(1) /\ at[1] + k = k
      BY <1>5, <1>14
    <3> QED BY <3>1, <3>2
  <2>2. w[1] = b
    BY <1>3, <1>14, <2>1
  <2>3. ASSUME NEW k \in 1..b, k <= l2 PROVE w2[k] = Body[h][k]
    <3>1. k \in 1..l2 /\ k + 1 = 1 + k /\ 1 + k \in 1..(1 + b) /\ 1 + k <= lw
      BY <1>3, <1>4, <1>14, <2>3
    <3>2. w2[k] = w[1 + k]
      BY <1>4, <3>1
    <3>3. w[1 + k] = P(1)[1 + k]
      BY <2>1, <3>1, Zenon
    <3> QED BY <1>14, <3>2, <3>3, Zenon
  <2> QED BY <2>2, <2>3
<1>17. ASSUME NEW i \in 1..(n2 + 1)
       PROVE  /\ i + 1 \in 1..(n + 1) /\ at[i + 1] \in Nat /\ at[i + 1] >= 1 + b
              /\ at2[i] = at[i + 1] - 1 /\ at2[i] \in Nat
  <2>1. i + 1 \in 1..(n + 1) /\ 2 \in 1..(n + 1) /\ 2 <= i + 1
    BY <1>2, <1>10, <1>12
  <2>2. at[2] <= at[i + 1] /\ at[i + 1] \in Nat
    BY <1>5, <1>6, <2>1
  <2>3. at[i + 1] - 1 \in Nat /\ at[i + 1] >= 1 + b
    BY <1>14, <1>15, <2>2
  <2>4. at2[i] = at[i + 1] - 1
    OBVIOUS
  <2> HIDE DEF at2
  <2> QED BY <2>1, <2>2, <2>3, <2>4
<1>18. at2 \in [1..(n2 + 1) -> Nat]
  BY <1>17
<1> HIDE DEF at2
<1>19. at2[1] = b
  <2>1. 1 \in 1..(n2 + 1)
    BY <1>2, <1>10, <1>12
  <2>2. at2[1] = at[1 + 1] - 1
    BY <1>17, <2>1, Zenon
  <2> QED BY <1>14, <1>15, <2>2
<1>20. \A i, j \in 1..(n2 + 1) : i <= j => at2[i] <= at2[j]
  <2> SUFFICES ASSUME NEW i \in 1..(n2 + 1), NEW j \in 1..(n2 + 1), i <= j
               PROVE  at2[i] <= at2[j]
    OBVIOUS
  <2>1. i + 1 \in 1..(n + 1) /\ j + 1 \in 1..(n + 1) /\ i + 1 <= j + 1
    BY <1>17
  <2>2. at[i + 1] <= at[j + 1]
    BY <1>6, <2>1, Zenon
  <2> QED BY <1>17, <2>2
<1>21. ASSUME NEW i \in 1..n2
       PROVE  at2[i + 1] = at2[i] + Len(Packet(q2[i])) /\ InPlace(w2, at2[i], Packet(q2[i]))
  <2>1. i \in 1..(n2 + 1) /\ i + 1 \in 1..(n2 + 1) /\ i + 1 \in 1..n
    BY <1>2, <1>10, <1>12
  <2> DEFINE m == L(i + 1)
             x == at[i + 1]
             y == at2[i]
             p == P(i + 1)
  <2>2. p = Packet(q2[i]) /\ m = Len(p)
    BY <1>12, Zenon DEF P, L
  <2>3. at[i + 1 + 1] = x + m /\ m \in Nat
    BY <1>7, <1>9, <2>1, Zenon
  <2>4. y = x - 1 /\ x \in Nat /\ y \in Nat /\ at2[i + 1] = at[i + 1 + 1] - 1
    BY <1>17, <2>1, Zenon
  <2>5. \A k \in 1..m : x + k <= lw => w[x + k] = p[k]
    BY <1>8, <2>1, Zenon
  <2> HIDE DEF m, x, y, p
  <2>6. at2[i + 1] = y + m
    BY <2>3, <2>4
  <2>7. ASSUME NEW k \in 1..m, y + k <= l2 PROVE w2[y + k] = p[k]
    <3> DEFINE z == y + k
    <3>1. z \in 1..l2 /\ z + 1 = x + k /\ x + k <= lw
      BY <1>3, <1>4, <2>3, <2>4, <2>7
    <3> HIDE DEF z
    <3>2. w2[z] = w[x + k]
      BY <1>4, <3>1
    <3> QED BY <2>5, <3>1, <3>2 DEF z
  <2>8. InPlace(w2, y, p)
    BY <2>2, <2>7, Zenon DEF InPlace, l2
  <2> QED BY <2>2, <2>6, <2>8, Zenon DEF y
<1>22. Framed(w2, q2, b, at2)
  BY <1>18, <1>19, <1>20, <1>21, Zenon DEF Framed, n2
<1>23. l2 <= at2[n2 + 1] /\ (whole => l2 = at2[n2 + 1])
  <2>1. n2 + 1 \in 1..(n2 + 1) /\ n2 + 1 + 1 = n + 1
    BY <1>2, <1>10, <1>12
  <2>2. at2[n2 + 1] = at[n + 1] - 1 /\ at[n + 1] \in Nat
    <3>1. at2[n2 + 1] = at[n2 + 1 + 1] - 1 /\ at[n2 + 1 + 1] \in Nat
      BY <1>17, <2>1, Zenon
    <3> QED BY <2>1, <3>1
  <2>3. lw <= at[n + 1] /\ (whole => lw = at[n + 1])
    BY <1>1, Zenon DEF lw, n
  <2>4. lw - 1 <= at[n + 1] - 1
    BY <1>3, <2>2, <2>3
  <2> QED BY <1>4, <2>2, <2>3, <2>4
<1>24. Frames(w2, q2, b, whole)
  BY <1>22, <1>23, Zenon DEF Frames, n2, l2
<1>25. Begun(h, <<>>, b, w2)
  <2> DEFINE z == Len(<<>>)
  <2>1. z = 0
    OBVIOUS
  <2> HIDE DEF z
  <2>2. /\ z + b = b /\ \A k \in 1..z : <<>>[k] = Body[h][k]
        /\ \A k \in 1..b : k <= l2 => w2[k] = Body[h][z + k]
    BY <1>14, <1>16, <2>1
  <2> QED BY <2>2, Zenon DEF Begun, z, b, l2
<1>26. Head(w) = b
  BY <1>4, <1>16
<1> QED BY <1>11, <1>12, <1>14, <1>24, <1>25, <1>26, Zenon DEF h, q2, w2, b

\* While the backend is there all that is left is on the wire, and no more.
LEMMA FramesWhole ==
  ASSUME NEW w \in Seq(Nat \cup Bytes), NEW q \in Seq(Messages), NEW left \in Nat,
         Frames(w, q, left, TRUE)
  PROVE  left <= Len(w)
<1> DEFINE n == Len(q)
           lw == Len(w)
<1>1. PICK at : Framed(w, q, left, at) /\ lw = at[n + 1]
  BY Zenon DEF Frames
<1>2. n \in Nat
  BY LenProperties, Zenon
<1>3. at[1] = left /\ \A i, j \in 1..(n + 1) : i <= j => at[i] <= at[j]
  BY <1>1, Zenon DEF Framed
<1>4. lw = at[n + 1]
  BY <1>1
<1> HIDE DEF n, lw
<1>5. 1 \in 1..(n + 1) /\ n + 1 \in 1..(n + 1) /\ 1 <= n + 1
  BY <1>2
<1>6. at[1] <= at[n + 1]
  BY <1>3, <1>5, Zenon
<1> QED BY <1>3, <1>4, <1>6 DEF lw

\* No message sent, nothing left: nothing on the wire.
LEMMA FramesNone == \A whole \in BOOLEAN : Frames(<<>>, <<>>, 0, whole)
<1> DEFINE at == [i \in 1..1 |-> 0]
           z == Len(<<>>)
<1>1. z = 0
  OBVIOUS
<1>2. /\ at \in [1..1 -> Nat] /\ at[1] = 0
      /\ \A i, j \in 1..1 : i <= j => at[i] <= at[j]
  OBVIOUS
<1> HIDE DEF z, at
<1>3. /\ at \in [1..(z + 1) -> Nat] /\ at[1] = 0
      /\ \A i, j \in 1..(z + 1) : i <= j => at[i] <= at[j]
      /\ z <= at[z + 1] /\ z = at[z + 1] /\ 1..z = {}
  BY <1>1, <1>2
<1>4. Framed(<<>>, <<>>, 0, at)
  BY <1>3, Zenon DEF Framed, z
<1> QED BY <1>3, <1>4, Zenon DEF Frames, z

-----------------------------------------------------------------------------
(* Numbers of which one is chosen.                                         *)

\* The newest of the versions of protomap is one of them.
LEMMA NewestIsSupported == Max(Supported) \in Supported
<1> DEFINE Top(T) == \E m \in T : \A j \in T : m >= j
           Bad == {T \in SUBSET Supported : T # {} /\ ~Top(T)}
           Sizes == {Cardinality(T) : T \in Bad}
<1>1. Supported \subseteq Nat /\ Supported # {} /\ IsFiniteSet(Supported)
  BY ProtoAssumption
<1>2. Bad = {}
  <2> SUFFICES ASSUME Bad # {} PROVE FALSE
    OBVIOUS
  <2>1. Sizes \subseteq Nat /\ Sizes # {}
    <3>1. ASSUME NEW T \in Bad PROVE Cardinality(T) \in Nat
      <4>1. T \in SUBSET Supported
        OBVIOUS
      <4>2. IsFiniteSet(T)
        BY <1>1, <4>1, FS_Subset
      <4> QED BY <4>2, FS_CardinalityType
    <3> QED BY <3>1
  <2>2. PICK n \in Sizes : \A j \in Sizes : n <= j
    <3> HIDE DEF Sizes
    <3> QED BY <2>1, Least
  <2>3. PICK T \in Bad : n = Cardinality(T)
    BY <2>2
  <2>4. T \subseteq Nat /\ T \subseteq Supported /\ T # {} /\ ~Top(T) /\ IsFiniteSet(T)
    BY <1>1, <2>3, FS_Subset
  <2>5. PICK x \in T : TRUE
    BY <2>4
  <2> DEFINE U == T \ {x}
  <2>6. Cardinality(U) = n - 1 /\ n \in Nat
    BY <2>1, <2>3, <2>4, FS_RemoveElement
  <2>7. CASE U = {}
    <3>1. \A j \in T : x >= j
      BY <2>4, <2>7
    <3> QED BY <2>4, <3>1
  <2>8. CASE U # {}
    <3>1. ~Top(U)
      <4> SUFFICES ASSUME Top(U) PROVE FALSE
        OBVIOUS
      <4>1. PICK m \in U : \A j \in U : m >= j
        OBVIOUS
      <4>2. CASE m >= x
        <5>1. \A j \in T : m >= j
          BY <4>1, <4>2
        <5> QED BY <2>4, <5>1
      <4>3. CASE ~(m >= x)
        <5>1. \A j \in T : x >= j
          BY <2>4, <4>1, <4>3
        <5> QED BY <2>4, <5>1
      <4> QED BY <4>2, <4>3
    <3>2. U \in Bad
      BY <2>4, <2>8, <3>1
    <3>3. Cardinality(U) \in Sizes
      BY <3>2
    <3>4. n <= n - 1
      <4> HIDE DEF Sizes, U
      <4> QED BY <2>2, <2>6, <3>3
    <3> QED BY <2>6, <3>4
  <2> QED BY <2>7, <2>8
<1>3. Top(Supported)
  <2> HIDE DEF Top
  <2> QED BY <1>1, <1>2
<1> QED BY <1>3 DEF Max

\* How many items a flush takes at a time.
LEMMA FlushSize ==
  ASSUME NEW a \in Nat
  PROVE  LET n == Min({a, BufferSize})
         IN  n \in Nat /\ n <= a /\ (a > 0 => n > 0)
<1> DEFINE S == {a, BufferSize}
<1>1. \E x \in S : \A y \in S : x <= y
  BY Numbers
<1>2. Min(S) \in S /\ \A y \in S : Min(S) <= y
  BY <1>1 DEF Min
<1> DEFINE n == Min(S)
<1>3. n \in S /\ n <= a
  BY <1>2
<1> HIDE DEF n
<1> QED BY <1>3, Numbers DEF n

-----------------------------------------------------------------------------
(* The inductive invariant.                                                *)

Flushing == pc \in {"flush", "flush, send", "flush, close"}

Pcs == {"idle", "agree", "send", "header", "field", "close",
        "flush", "flush, send", "flush, close"}

Typed ==
  /\ version \in Versions /\ alive \in BOOLEAN /\ isOpen \in BOOLEAN
  /\ wire \in Seq(Nat \cup Bytes) /\ kind \in {"commands", "events"}
  /\ isOpen /\ alive => proto = version /\ proto \in Supported
  /\ agreed \in Supported \cup Versions \cup {0}
  /\ asked \in Supported \cup Versions \cup {0}
  /\ length \in Nat /\ consumed \in 0..length /\ pc \in Pcs
  /\ matched \in 0..4 /\ buf \in Seq(Bytes) /\ field \in Seq(Bytes)
  /\ queue \in Seq(Messages)

\* The buffer is emptied in time: there is room for a whole separator.
Room == Ends(buf, matched) /\ Len(buf) - matched <= BufferSize - 7

Closed ==
  ~isOpen => /\ ~alive /\ wire = <<>> /\ queue = <<>> /\ length = 0
             /\ kind = "commands" /\ pc \in {"idle", "agree"}

\* Only within ReadField is there part of a field; a message ends with its
\* last byte; and one that is new is begun when there is nothing left.
Between ==
  /\ pc = "agree" => ~isOpen
  /\ pc # "field" \/ length = 0 => buf = <<>> /\ field = <<>> /\ matched = 0
  /\ length = 0 => rest = <<>>
  /\ pc \in {"send", "header", "close"} => length = 0
  /\ pc \in {"send", "flush, send"} => kind = "commands"

\* One answer for one command, and a length is waited for when it may come.
Asked ==
  /\ kind = "commands" => queue = <<>> \/ (pc = "header" /\ Len(queue) = 1)
  /\ alive /\ pc = "header" => wire # <<>>

\* The wire, as far as the bytes counted.
Counted == Frames(wire, queue, Left, alive)

\* What was told of the message being read fits its bytes that were read.
Current ==
  length > 0 /\ ~Flushing =>
    \E r \in Messages :
      /\ rest = Stream!Told(r) /\ Len(Body[r]) > 0
      /\ Begun(r, field \o buf, Left, wire)
      /\ InTime(r, field \o buf, matched)

IInv == Typed /\ Room /\ Closed /\ Between /\ Asked /\ Counted /\ Current

\* What is left is a number, and some of a message that is read remains.
LEMMA LeftIsNat ==
  ASSUME Typed
  PROVE  Left \in Nat /\ (length = 0 => Left = 0) /\ Left <= length
BY DEF Typed, Left

LEMMA SomeLeft ==
  ASSUME IInv, length > 0, ~Flushing, pc # "field"
  PROVE  Left > 0
<1>1. PICK r \in Messages : Len(Body[r]) > 0 /\ Begun(r, field \o buf, Left, wire)
  BY Zenon DEF IInv, Current
<1>2. buf = <<>> /\ field = <<>>
  BY DEF IInv, Between
<1>3. field \o buf = <<>> /\ Len(<<>>) = 0
  BY <1>2
<1> DEFINE b == Len(Body[r])
           z == Len(<<>>)
<1>4. Begun(r, <<>>, Left, wire)
  BY <1>1, <1>3, Zenon
<1>5. z + Left = b /\ z = 0 /\ b > 0
  BY <1>1, <1>3, <1>4, Zenon DEF Begun
<1>6. Left \in Nat
  BY LeftIsNat, Zenon DEF IInv
<1> HIDE DEF b, z
<1> QED BY <1>5, <1>6

-----------------------------------------------------------------------------
(* It holds at first, and every step preserves it.                         *)

LEMMA InvInit == Init => IInv
<1> SUFFICES ASSUME Init PROVE IInv
  OBVIOUS
<1>1. Typed
  <2>1. <<>> \in Seq(Nat \cup Bytes) /\ <<>> \in Seq(Bytes) /\ <<>> \in Seq(Messages)
    BY EmptySeq, Zenon
  <2>2. alive \in BOOLEAN /\ isOpen \in BOOLEAN /\ ~isOpen
    BY Zenon DEF Init
  <2>3. consumed \in 0..length /\ length \in Nat /\ matched \in 0..4
    BY DEF Init
  <2>4. /\ version \in Versions /\ kind \in {"commands", "events"} /\ pc \in Pcs
        /\ agreed \in Supported \cup Versions \cup {0}
        /\ asked \in Supported \cup Versions \cup {0}
    BY DEF Init, Pcs
  <2>5. wire = <<>> /\ buf = <<>> /\ field = <<>> /\ queue = <<>>
    BY DEF Init
  <2> QED BY <2>1, <2>2, <2>3, <2>4, <2>5, Zenon DEF Typed
<1>2. Room
  <2>1. buf = <<>> /\ matched = 0 /\ Len(<<>>) = 0
    BY DEF Init
  <2> QED BY <2>1, Numbers DEF Room, Ends
<1>3. Closed
  BY Zenon DEF Init, Closed
<1>6. Between
  BY DEF Init, Between
<1>7. Asked
  <2>1. pc # "header" /\ queue = <<>>
    BY DEF Init
  <2> QED BY <2>1 DEF Asked
<1>4. Counted
  <2>1. Left = 0
    BY DEF Init, Left
  <2>2. wire = <<>> /\ queue = <<>> /\ alive \in BOOLEAN
    BY Zenon DEF Init
  <2> QED BY <2>1, <2>2, FramesNone, Zenon DEF Counted
<1>5. Current
  <2>1. ~(length > 0)
    BY DEF Init
  <2> QED BY <2>1, Zenon DEF Current
<1> QED BY <1>1, <1>2, <1>3, <1>4, <1>5, <1>6, <1>7 DEF IInv

\* Steps that leave the bytes and the messages alone.
Quiet == /\ UNCHANGED <<alive, wire, length, consumed, buf, matched, field, queue, rest>>
         /\ Flushing => Flushing'

LEMMA QuietKeeps ==
  ASSUME IInv, Quiet
  PROVE  Room' /\ Counted' /\ Current'
<1>1. Room'
  BY DEF IInv, Quiet, Room, Ends
<1>2. Left' = Left
  BY DEF Quiet, Left
<1>3. Counted'
  BY <1>2, Zenon DEF IInv, Quiet, Counted
<1>4. Current'
  BY <1>2, Zenon DEF IInv, Quiet, Current
<1> QED BY <1>1, <1>3, <1>4

LEMMA StutterKeeps == IInv /\ UNCHANGED vars => IInv'
<1> SUFFICES ASSUME IInv, UNCHANGED vars PROVE IInv'
  OBVIOUS
<1>1. Quiet
  BY DEF vars, netVars, openVars, agreeVars, countVars, readVars, historyVars, Quiet, Flushing
<1>2. Typed' /\ Closed' /\ Between' /\ Asked'
  BY DEF IInv, vars, netVars, openVars, agreeVars, countVars, readVars, historyVars,
         Typed, Closed, Between, Asked
<1> QED BY <1>1, <1>2, QuietKeeps DEF IInv

LEMMA OpeningKeeps ==
  ASSUME IInv, Restart \/ OpenConnection \/ Rejected \/ OpenFails \/ OthersAgree
  PROVE  IInv'
<1> USE DEF netVars, openVars, agreeVars, countVars, readVars, historyVars
<1>1. Quiet
  BY DEF Restart, OpenConnection, Rejected, OpenFails, OthersAgree, Quiet, Flushing
<1>2. version' \in Versions /\ asked' \in Supported \cup Versions \cup {0}
      /\ agreed' \in Supported \cup Versions \cup {0}
  BY NewestIsSupported
     DEF IInv, Typed, Restart, OpenConnection, Rejected, OpenFails, OthersAgree
<1>3. ~isOpen /\ isOpen' = isOpen /\ kind' = kind
  <2>1. pc = "agree" => ~isOpen
    BY Zenon DEF IInv, Between
  <2> QED BY <2>1, Zenon DEF Restart, OpenConnection, Rejected, OpenFails, OthersAgree
<1>6. pc \in {"idle", "agree"} /\ pc' \in {"idle", "agree"}
  <2>1. pc \in {"idle", "agree"}
    BY <1>3, Zenon DEF IInv, Closed
  <2>2. pc' \in {pc, "idle", "agree"}
    BY DEF Restart, OpenConnection, Rejected, OpenFails, OthersAgree
  <2> QED BY <2>1, <2>2
<1>7. pc' \in Pcs
  BY <1>6 DEF Pcs
<1>4. Typed'
  BY <1>1, <1>2, <1>3, <1>7, Zenon DEF IInv, Typed, Quiet
<1>5. Closed' /\ Between' /\ Asked'
  <2>1. Closed'
    BY <1>1, <1>3, <1>6, Zenon DEF IInv, Closed, Quiet
  <2>2. Between'
    BY <1>1, <1>3, <1>6 DEF IInv, Between, Quiet
  <2>3. Asked'
    BY <1>1, <1>3, <1>6 DEF IInv, Closed, Asked, Quiet
  <2> QED BY <2>1, <2>2, <2>3
<1> QED BY <1>1, <1>4, <1>5, QuietKeeps DEF IInv

LEMMA AcceptedKeeps ==
  ASSUME IInv, Accepted
  PROVE  IInv'
<1> USE DEF Accepted, openVars, agreeVars, countVars, readVars, historyVars
<1>1. ~isOpen /\ wire = <<>> /\ queue = <<>> /\ length = 0
  BY DEF IInv, Between, Closed
<1>2. Typed'
  BY <1>1 DEF IInv, Typed, Pcs
<1>3. Closed' /\ Between' /\ Asked'
  BY <1>1 DEF IInv, Typed, Closed, Between, Asked
<1>4. Room'
  BY DEF IInv, Room, Ends
<1>5. Left' = 0 /\ wire' = <<>> /\ queue' = <<>> /\ alive' \in BOOLEAN
  <2>1. consumed \in 0..length /\ UNCHANGED <<length, consumed>>
    BY Zenon DEF IInv, Typed
  <2>4. length' = 0 /\ consumed' = 0
    BY <1>1, <2>1
  <2>2. Left' = 0
    BY <2>4 DEF Left
  <2>3. wire' = <<>> /\ queue' = <<>> /\ alive' \in BOOLEAN
    BY <1>1, Zenon
  <2> QED BY <2>2, <2>3
<1>6. Counted'
  BY <1>5, FramesNone, Zenon DEF Counted
<1>7. ~(length' > 0)
  BY <1>1
<1>8. Current'
  BY <1>7, Zenon DEF Current
<1> QED BY <1>2, <1>3, <1>4, <1>6, <1>8 DEF IInv

LEMMA CallsKeep ==
  ASSUME IInv, Calls
  PROVE  IInv'
<1> USE DEF netVars, openVars, agreeVars, countVars, readVars, historyVars
<1>1. /\ pc = "idle" /\ isOpen /\ ~Flushing
      /\ UNCHANGED <<version, alive, wire, isOpen, proto, agreed, asked, length, consumed,
                     buf, matched, field, queue, rest, last>>
  BY DEF Calls, SendCommand, Close, CallFlush, Listen, Monitor, ReadField, Goto, Flushing
<1>2. pc' \in Pcs /\ kind' \in {"commands", "events"}
  BY DEF IInv, Typed, Calls, SendCommand, Close, CallFlush, Listen, Monitor, ReadField, Goto, Pcs
<1>3. Typed'
  BY <1>1, <1>2 DEF IInv, Typed
<1>4. Quiet
  BY <1>1 DEF Quiet
<1>5. length # 0 => Left > 0
  <2>1. length \in Nat
    BY DEF IInv, Typed
  <2>2. length # 0 => length > 0
    BY <2>1
  <2> QED BY <1>1, <2>2, SomeLeft
<1>6. Closed'
  BY <1>1 DEF Closed
<1>7. /\ pc' \in {"send", "close"} => length = 0
      /\ pc' = "header" => length = 0 /\ kind' = "events" /\ (wire # <<>> \/ ~alive)
      /\ pc' \in {"send", "flush, send"} => kind' = "commands"
      /\ kind' = "commands" => kind = "commands"
      /\ pc' # "agree"
  <2>1. length \in Nat /\ Left \in Nat
    BY LeftIsNat DEF IInv, Typed
  <2>7. Left = 0 => length = 0
    BY <1>5, <2>1
  <2>2. CASE SendCommand
    <3>1. /\ kind = "commands" /\ UNCHANGED kind
          /\ pc' = "flush, send" \/ (pc' = "send" /\ Left = 0)
      BY <2>2, Zenon DEF SendCommand, Goto
    <3> QED BY <2>7, <3>1
  <2>3. CASE Close
    <3>1. UNCHANGED kind /\ (pc' = "flush, close" \/ (pc' = "close" /\ Left = 0))
      BY <2>3, Zenon DEF Close, Goto
    <3> QED BY <2>7, <3>1
  <2>4. CASE CallFlush
    BY <2>4 DEF CallFlush, Goto
  <2>5. CASE Listen
    BY <2>1, <2>5 DEF Listen, Goto
  <2>6. CASE Monitor \/ ReadField
    BY <1>1, <2>6 DEF Monitor, ReadField
  <2> QED BY <2>2, <2>3, <2>4, <2>5, <2>6 DEF Calls
<1>8. Between'
  BY <1>1, <1>7 DEF IInv, Between
<1>9. Asked'
  BY <1>1, <1>7 DEF IInv, Asked
<1> QED BY <1>3, <1>4, <1>6, <1>8, <1>9, QuietKeeps DEF IInv

LEMMA LoseKeeps ==
  ASSUME IInv, Lose
  PROVE  IInv'
<1>1. PICK n \in 0..Len(wire) : wire' = SubSeq(wire, 1, n)
  BY DEF Lose
<1>2. /\ alive /\ alive' = FALSE
      /\ version' = version /\ isOpen' = isOpen /\ proto' = proto /\ kind' = kind /\ agreed' = agreed
      /\ asked' = asked /\ length' = length /\ consumed' = consumed /\ buf' = buf /\ matched' = matched
      /\ field' = field /\ pc' = pc /\ queue' = queue /\ rest' = rest
  BY DEF Lose, openVars, agreeVars, countVars, readVars, historyVars
<1>3. isOpen
  BY <1>2, Zenon DEF IInv, Closed
<1>4. Left \in Nat /\ Left' = Left
  BY <1>2, LeftIsNat DEF IInv, Left
<1>5. /\ wire \in Seq(Nat \cup Bytes) /\ wire' \in Seq(Nat \cup Bytes)
      /\ Len(wire') <= Len(wire) /\ \A k \in 1..Len(wire') : wire'[k] = wire[k]
  <2>1. wire \in Seq(Nat \cup Bytes)
    BY Zenon DEF IInv, Typed
  <2> QED BY <1>1, <2>1
<1>6. Typed'
  BY <1>2, <1>5, Zenon DEF IInv, Typed
<1>7. Room'
  BY <1>2 DEF IInv, Room, Ends
<1>8. Closed'
  BY <1>2, <1>3, Zenon DEF Closed
<1>9. Between'
  BY <1>2, Zenon DEF IInv, Between
<1>10. Asked'
  BY <1>2, Zenon DEF IInv, Asked
<1>11. Counted'
  <2>1. Frames(SubSeq(wire, 1, n), queue, Left, FALSE)
    <3>1. queue \in Seq(Messages) /\ alive \in BOOLEAN
      BY Zenon DEF IInv, Typed
    <3> QED BY <1>4, <1>5, <3>1, FramesLose, Zenon DEF IInv, Counted
  <2> QED BY <1>1, <1>2, <1>4, <2>1, Zenon DEF Counted
<1>12. Current'
  <2> SUFFICES ASSUME length > 0, ~Flushing PROVE Current'
    BY <1>2, Zenon DEF Current, Flushing
  <2> DEFINE read == field \o buf
  <2>1. PICK r \in Messages :
             /\ rest = Stream!Told(r) /\ Len(Body[r]) > 0
             /\ Begun(r, read, Left, wire) /\ InTime(r, read, matched)
    BY Zenon DEF IInv, Current
  <2> HIDE DEF read
  <2> DEFINE l == Len(wire)
             l2 == Len(wire')
             b(k) == Body[r][Len(read) + k]
  <2>2. Begun(r, read, Left, wire')
    <3>1. \A k \in 1..Left : k <= l => wire[k] = b(k)
      BY <2>1, Zenon DEF Begun
    <3>2. l \in Nat /\ l2 \in Nat /\ l2 <= l /\ \A k \in 1..l2 : wire'[k] = wire[k]
      <4>1. l \in Nat
        BY <1>5, LenProperties, Zenon
      <4>2. l2 \in Nat
        BY <1>5, LenProperties, Zenon
      <4> QED BY <1>5, <4>1, <4>2, Zenon
    <3> HIDE DEF l, l2, b
    <3>3. \A k \in 1..Left : k <= l2 => wire'[k] = b(k)
      BY <1>4, <3>1, <3>2
    <3> QED BY <2>1, <3>3, Zenon DEF Begun, l2, b
  <2> QED BY <1>2, <1>4, <2>1, <2>2, Zenon DEF Current, read
<1> QED BY <1>6, <1>7, <1>8, <1>9, <1>10, <1>11, <1>12 DEF IInv

\* A message more on the wire changes nothing of the one being read.
LEMMA BegunAppend ==
  ASSUME NEW r \in Messages, NEW read \in Seq(Bytes), NEW left \in Nat,
         NEW w \in Seq(Nat \cup Bytes), left <= Len(w), Begun(r, read, left, w),
         NEW p \in Seq(Nat \cup Bytes)
  PROVE  Begun(r, read, left, w \o p)
<1> DEFINE v == w \o p
           lw == Len(w)
<1>1. lw \in Nat /\ left <= lw
  <2>1. lw \in Nat
    BY LenProperties, Zenon
  <2> QED BY <2>1
<1>2. \A k \in 1..lw : v[k] = w[k]
  OBVIOUS
<1>3. \A k \in 1..left : k <= lw => w[k] = Body[r][Len(read) + k]
  BY Zenon DEF Begun
<1> HIDE DEF v, lw
<1>4. \A k \in 1..left : v[k] = Body[r][Len(read) + k]
  BY <1>1, <1>2, <1>3
<1> QED BY <1>4, Zenon DEF Begun, v

\* The backend sends: an event, or the answer to a command.
LEMMA SentKeeps ==
  ASSUME IInv, isOpen, alive, NEW m \in Messages,
         wire' = wire \o Packet(m), queue' = Append(queue, m),
         UNCHANGED <<version, alive, openVars, agreeVars, countVars, readVars, rest>>
  PROVE  /\ wire' \in Seq(Nat \cup Bytes) /\ wire' # <<>> /\ queue' \in Seq(Messages)
         /\ Room' /\ Counted'
         /\ (Flushing <=> Flushing') => Current'
<1> USE DEF openVars, agreeVars, countVars, readVars
<1>1. wire \in Seq(Nat \cup Bytes) /\ queue \in Seq(Messages)
  BY Zenon DEF IInv, Typed
<1>2. Packet(m) \in Seq(Nat \cup Bytes) /\ Packet(m) # <<>>
  <2> DEFINE b == Len(Body[m])
             p == Packet(m)
  <2>1. p \in Seq(Nat \cup Bytes) /\ b \in Nat /\ Len(p) = 1 + b
    BY PacketShape, Zenon
  <2> HIDE DEF b, p
  <2>2. p # <<>>
    BY <2>1
  <2> QED BY <2>1, <2>2 DEF p
<1>3. wire' \in Seq(Nat \cup Bytes) /\ wire' # <<>> /\ queue' \in Seq(Messages)
  <2> DEFINE p == Packet(m)
  <2>1. p \in Seq(Nat \cup Bytes) /\ p # <<>>
    BY <1>2
  <2> HIDE DEF p
  <2>2. wire \o p \in Seq(Nat \cup Bytes) /\ wire \o p # <<>>
    BY <1>1, <2>1
  <2>3. Append(queue, m) \in Seq(Messages)
    BY <1>1, AppendProperties
  <2> QED BY <2>2, <2>3 DEF p
<1>4. Room'
  BY DEF IInv, Room, Ends
<1>5. Left' = Left /\ Left \in Nat
  BY LeftIsNat DEF IInv, Left
<1>6. alive = TRUE
  BY Zenon DEF IInv, Typed
<1>7. Frames(wire, queue, Left, TRUE)
  BY <1>6, Zenon DEF IInv, Counted
<1>8. Counted'
  <2>1. Frames(wire \o Packet(m), Append(queue, m), Left, TRUE)
    BY <1>1, <1>5, <1>7, FramesAppend, Zenon
  <2>2. alive' = TRUE
    BY <1>6
  <2> QED BY <1>5, <2>1, <2>2, Zenon DEF Counted
<1>9. ASSUME length > 0, ~Flushing, ~Flushing' PROVE Current'
  <2> DEFINE read == field \o buf
             p == Packet(m)
  <2>1. PICK r \in Messages :
             /\ rest = Stream!Told(r) /\ Len(Body[r]) > 0
             /\ Begun(r, read, Left, wire) /\ InTime(r, read, matched)
    BY <1>9, Zenon DEF IInv, Current
  <2>2. read \in Seq(Bytes)
    <3>1. field \in Seq(Bytes) /\ buf \in Seq(Bytes)
      BY Zenon DEF IInv, Typed
    <3> QED BY <3>1, ConcatProperties, Zenon
  <2>3. Left <= Len(wire)
    BY <1>1, <1>5, <1>7, FramesWhole, Zenon
  <2>4. p \in Seq(Nat \cup Bytes)
    BY <1>2
  <2> HIDE DEF read, p
  <2>5. Begun(r, read, Left, wire \o p)
    BY <1>1, <1>5, <2>1, <2>2, <2>3, <2>4, BegunAppend, Zenon
  <2>6. field' \o buf' = read /\ matched' = matched /\ rest' = rest /\ wire' = wire \o p
    BY Zenon DEF read, p
  <2> QED BY <1>5, <2>1, <2>5, <2>6, Zenon DEF Current
<1>10. ~(length > 0) => Current'
  BY Zenon DEF Current
<1> QED BY <1>3, <1>4, <1>8, <1>9, <1>10, Zenon DEF Current

LEMMA TellKeeps ==
  ASSUME IInv, Tell
  PROVE  IInv'
<1>1. isOpen /\ alive
  BY Zenon DEF IInv, Closed, Tell
<1>2. PICK m \in Messages : wire' = wire \o Packet(m) /\ queue' = Append(queue, m)
  BY Zenon DEF Tell
<1>3. /\ kind = "events"
      /\ version' = version /\ alive' = alive /\ isOpen' = isOpen /\ proto' = proto /\ kind' = kind
      /\ agreed' = agreed /\ asked' = asked /\ length' = length /\ consumed' = consumed /\ buf' = buf
      /\ matched' = matched /\ field' = field /\ pc' = pc /\ rest' = rest
  BY DEF Tell, openVars, agreeVars, countVars, readVars
<1>4. /\ wire' \in Seq(Nat \cup Bytes) /\ wire' # <<>> /\ queue' \in Seq(Messages)
      /\ Room' /\ Counted' /\ Current'
  <2>1. Flushing <=> Flushing'
    BY <1>3, Zenon DEF Flushing
  <2>2. UNCHANGED <<version, alive, openVars, agreeVars, countVars, readVars, rest>>
    BY DEF Tell
  <2> QED BY <1>1, <1>2, <2>1, <2>2, SentKeeps, Zenon
<1>5. Typed'
  BY <1>3, <1>4, Zenon DEF IInv, Typed
<1>6. Closed'
  BY <1>1, <1>3, Zenon DEF Closed
<1>7. Between'
  BY <1>3, Zenon DEF IInv, Between
<1>8. Asked'
  BY <1>3, <1>4 DEF IInv, Asked
<1> QED BY <1>4, <1>5, <1>6, <1>7, <1>8 DEF IInv

LEMMA SendKeeps ==
  ASSUME IInv, Send
  PROVE  IInv'
<1>1. /\ pc = "send" /\ pc' = "header"
      /\ version' = version /\ alive' = alive /\ isOpen' = isOpen /\ proto' = proto /\ kind' = kind
      /\ agreed' = agreed /\ asked' = asked /\ length' = length /\ consumed' = consumed /\ buf' = buf
      /\ matched' = matched /\ field' = field /\ rest' = rest
  BY DEF Send, openVars, agreeVars, countVars, readVars
<1>2. isOpen /\ kind = "commands" /\ queue = <<>> /\ length = 0
  <2>1. isOpen
    BY <1>1 DEF IInv, Closed
  <2>2. kind = "commands" /\ length = 0
    BY <1>1 DEF IInv, Between
  <2>3. queue = <<>>
    BY <1>1, <2>2 DEF IInv, Asked
  <2> QED BY <2>1, <2>2, <2>3
<1>3. /\ wire' \in Seq(Nat \cup Bytes) /\ queue' \in Seq(Messages)
      /\ Room' /\ Counted' /\ (alive => wire' # <<>>)
      /\ queue' = <<>> \/ Len(queue') = 1
  <2>1. CASE alive
    <3>1. PICK m \in Messages : wire' = wire \o Packet(m) /\ queue' = Append(queue, m)
      BY <2>1, Zenon DEF Send
    <3>2. UNCHANGED <<version, alive, openVars, agreeVars, countVars, readVars, rest>>
      BY DEF Send
    <3>3. /\ wire' \in Seq(Nat \cup Bytes) /\ wire' # <<>> /\ queue' \in Seq(Messages)
          /\ Room' /\ Counted'
      BY <1>2, <2>1, <3>1, <3>2, SentKeeps, Zenon
    <3>4. Len(queue') = 1
      BY <1>2, <3>1
    <3> QED BY <3>3, <3>4
  <2>2. CASE ~alive
    <3>1. wire' = wire /\ queue' = queue
      BY <2>2 DEF Send
    <3>2. Room'
      BY <1>1, Zenon DEF IInv, Room
    <3>3. Left' = Left
      BY <1>1 DEF Left
    <3>4. Counted'
      BY <1>1, <3>1, <3>3, Zenon DEF IInv, Counted
    <3>5. wire \in Seq(Nat \cup Bytes) /\ queue \in Seq(Messages)
      BY Zenon DEF IInv, Typed
    <3> QED BY <1>2, <2>2, <3>1, <3>2, <3>4, <3>5, Zenon
  <2> QED BY <2>1, <2>2
<1>4. Typed'
  <2>1. pc' \in Pcs
    BY <1>1 DEF Pcs
  <2> QED BY <1>1, <1>3, <2>1, Zenon DEF IInv, Typed
<1>5. Closed'
  BY <1>1, <1>2, Zenon DEF Closed
<1>6. Between'
  BY <1>1, <1>2 DEF IInv, Between
<1>7. Asked'
  BY <1>1, <1>3, Zenon DEF Asked
<1>8. Current'
  <2>1. ~(length' > 0)
    BY <1>1, <1>2
  <2> QED BY <2>1, Zenon DEF Current
<1> QED BY <1>3, <1>4, <1>5, <1>6, <1>7, <1>8 DEF IInv

\* A new message: its bytes are counted from here on.
LEMMA LengthKeeps ==
  ASSUME IInv, RcvMessageLength
  PROVE  /\ IInv'
         /\ queue # <<>> /\ rest = <<>>
         /\ queue' = Tail(queue) /\ rest' = Stream!Told(Head(queue))
<1>1. length = 0 /\ Left = 0
  <2>1. pc = "header"
    BY DEF RcvMessageLength
  <2>2. length = 0
    BY <2>1 DEF IInv, Between
  <2> QED BY <2>2, LeftIsNat DEF IInv
<1>2. /\ pc = "header" /\ pc' = "idle"
      /\ wire # <<>> /\ length' = Head(wire) /\ consumed' = 0 /\ wire' = Tail(wire)
      /\ queue' = Tail(queue) /\ rest' = Stream!Told(Head(queue))
      /\ version' = version /\ alive' = alive /\ isOpen' = isOpen /\ proto' = proto /\ kind' = kind
      /\ agreed' = agreed /\ asked' = asked /\ buf' = buf /\ matched' = matched /\ field' = field
  <2>1. ~(length > 0)
    BY <1>1
  <2> QED BY <2>1 DEF RcvMessageLength, HasLength, openVars, agreeVars, readVars
<1>3. isOpen /\ buf = <<>> /\ field = <<>> /\ matched = 0 /\ rest = <<>>
  <2>1. isOpen
    BY <1>2 DEF IInv, Closed
  <2> QED BY <1>1, <2>1 DEF IInv, Between
<1>4. /\ queue # <<>> /\ Head(queue) \in Messages /\ Tail(queue) \in Seq(Messages)
      /\ Head(wire) = Len(Body[Head(queue)]) /\ Head(wire) \in Nat
      /\ Frames(Tail(wire), Tail(queue), Head(wire), alive)
      /\ Begun(Head(queue), <<>>, Head(wire), Tail(wire))
  <2>1. Frames(wire, queue, 0, alive)
    BY <1>1, Zenon DEF IInv, Counted
  <2>2. wire \in Seq(Nat \cup Bytes) /\ queue \in Seq(Messages) /\ alive \in BOOLEAN
    BY Zenon DEF IInv, Typed
  <2> QED BY <1>2, <2>1, <2>2, FramesBegin, Zenon
<1>5. length' \in Nat /\ consumed' \in 0..length' /\ Left' = length'
  <2> DEFINE n == Head(wire)
  <2>1. n \in Nat /\ length' = n /\ consumed' = 0
    BY <1>2, <1>4, Zenon
  <2> HIDE DEF n
  <2> QED BY <2>1 DEF Left
<1>6. Tail(wire) \in Seq(Nat \cup Bytes)
  <2>1. wire \in Seq(Nat \cup Bytes)
    BY Zenon DEF IInv, Typed
  <2> QED BY <1>2, <2>1, HeadTailProperties, Zenon
<1>7. Typed'
  <2>1. pc' \in Pcs
    BY <1>2 DEF Pcs
  <2> QED BY <1>2, <1>4, <1>5, <1>6, <2>1, Zenon DEF IInv, Typed
<1>8. Room'
  BY <1>2, Zenon DEF IInv, Room
<1>9. Closed'
  BY <1>2, <1>3, Zenon DEF Closed
<1>10. Between'
  <2>1. length' = 0 => rest' = <<>>
    <3> DEFINE h == Head(queue)
    <3>1. h \in Messages /\ length' = Len(Body[h]) /\ rest' = Stream!Told(h)
      BY <1>2, <1>4, Zenon
    <3> QED BY <3>1, ToldNothing, Zenon
  <2> QED BY <1>2, <1>3, <2>1 DEF IInv, Between
<1>11. Asked'
  <2>1. kind = "commands" => Tail(queue) = <<>>
    <3>1. kind = "commands" => Len(queue) = 1
      BY <1>4, Zenon DEF IInv, Asked
    <3>2. queue \in Seq(Messages)
      BY Zenon DEF IInv, Typed
    <3>3. Tail(queue) \in Seq(Messages) /\ Len(Tail(queue)) = Len(queue) - 1
      BY <1>4, <3>2, HeadTailProperties, Zenon
    <3>4. Len(queue) = 1 => Tail(queue) = <<>>
      <4> DEFINE t == Tail(queue)
      <4>1. t \in Seq(Messages) /\ (Len(queue) = 1 => Len(t) = 0)
        BY <3>3
      <4> HIDE DEF t
      <4>2. Len(queue) = 1 => t = <<>>
        BY <4>1
      <4> QED BY <4>2 DEF t
    <3> QED BY <3>1, <3>4
  <2>2. pc' # "header"
    BY <1>2
  <2> QED BY <1>2, <2>1, <2>2, Zenon DEF Asked
<1>12. Counted'
  BY <1>2, <1>4, <1>5, Zenon DEF Counted
<1>13. Current'
  <2> SUFFICES ASSUME length' > 0 PROVE Current'
    BY Zenon DEF Current
  <2> DEFINE h == Head(queue)
  <2>1. field' \o buf' = <<>>
    BY <1>2, <1>3
  <2>2. h \in Messages /\ rest' = Stream!Told(h) /\ Len(Body[h]) > 0
        /\ Begun(h, <<>>, Left', wire') /\ InTime(h, <<>>, matched')
    <3>1. h \in Messages /\ rest' = Stream!Told(h)
      BY <1>2, <1>4, Zenon
    <3>2. Len(Body[h]) = length'
      BY <1>2, <1>4, Zenon
    <3>3. Len(Body[h]) > 0
      BY <3>2
    <3>4. Begun(h, <<>>, Left', wire')
      BY <1>2, <1>4, <1>5, Zenon
    <3>5. InTime(h, <<>>, matched')
      BY <1>2, <1>3, <3>1, NothingRead, Zenon
    <3> QED BY <3>1, <3>3, <3>4, <3>5
  <2> HIDE DEF h
  <2> QED BY <2>1, <2>2, Zenon DEF Current
<1> QED BY <1>2, <1>3, <1>4, <1>7, <1>8, <1>9, <1>10, <1>11, <1>12, <1>13 DEF IInv

LEMMA FlushKeeps ==
  ASSUME IInv, FlushMessage
  PROVE  IInv'
<1> DEFINE n == Min({Left, BufferSize})
<1>1. Flushing /\ pc # "field"
  BY DEF FlushMessage, Flushing
<1>2. Left \in Nat /\ length \in Nat /\ consumed \in 0..length
  <2>1. Left \in Nat
    BY LeftIsNat DEF IInv
  <2> QED BY <2>1, Zenon DEF IInv, Typed
<1>3. n \in Nat /\ n <= Left
  BY <1>2, FlushSize, Zenon
<1>4. Len(wire) >= n /\ wire' = SubSeq(wire, n + 1, Len(wire))
  BY Zenon DEF FlushMessage
<1>5. /\ version' = version /\ alive' = alive /\ isOpen' = isOpen /\ proto' = proto /\ kind' = kind
      /\ agreed' = agreed /\ asked' = asked /\ buf' = buf /\ matched' = matched /\ field' = field
      /\ queue' = queue
  BY DEF FlushMessage, openVars, agreeVars, readVars
<1>6. \/ /\ Left > n /\ consumed' = consumed + n
         /\ length' = length /\ rest' = rest /\ pc' = pc
      \/ /\ Left <= n /\ length' = 0 /\ consumed' = 0 /\ rest' = <<>>
         /\ \/ pc = "flush" /\ pc' = "idle"
            \/ pc = "flush, send" /\ pc' = "send"
            \/ pc = "flush, close" /\ pc' = "close"
  <2>1. CASE Left > n
    BY <2>1, Zenon DEF FlushMessage
  <2>2. CASE ~(Left > n)
    <3>1. Left <= n
      <4> DEFINE m == n
      <4>1. m \in Nat /\ ~(Left > m)
        BY <1>3, <2>2
      <4> HIDE DEF m
      <4>2. Left <= m
        BY <1>2, <4>1
      <4> QED BY <4>2 DEF m
    <3>2. /\ pc \in {"flush", "flush, send", "flush, close"}
          /\ length' = 0 /\ consumed' = 0 /\ rest' = <<>>
          /\ pc' = CASE pc = "flush" -> "idle"
                     [] pc = "flush, send" -> "send"
                     [] pc = "flush, close" -> "close"
      BY <2>2, Zenon DEF FlushMessage
    <3>3. \/ pc = "flush" /\ pc' = "idle"
          \/ pc = "flush, send" /\ pc' = "send"
          \/ pc = "flush, close" /\ pc' = "close"
      BY <3>2
    <3> QED BY <3>1, <3>2, <3>3
  <2> QED BY <2>1, <2>2
<1>7. Left' = Left - n /\ length' \in Nat /\ consumed' \in 0..length' /\ Left' \in Nat
  <2> DEFINE m == n
  <2>1. m \in Nat /\ m <= Left
    BY <1>3
  <2>2. \/ Left > m /\ consumed' = consumed + m /\ length' = length
        \/ Left <= m /\ length' = 0 /\ consumed' = 0
    BY <1>6
  <2> HIDE DEF m
  <2>3. Left' = Left - m /\ length' \in Nat /\ consumed' \in 0..length' /\ Left' \in Nat
    BY <1>2, <2>1, <2>2 DEF Left
  <2> QED BY <2>3 DEF m
<1>8. wire \in Seq(Nat \cup Bytes) /\ queue \in Seq(Messages) /\ alive \in BOOLEAN
  BY Zenon DEF IInv, Typed
<1> HIDE DEF n
<1>9. wire' \in Seq(Nat \cup Bytes)
  <2>1. SubSeq(wire, n + 1, Len(wire)) \in Seq(Nat \cup Bytes)
    BY <1>3, <1>8
  <2> QED BY <1>4, <2>1
<1>10. isOpen /\ buf = <<>> /\ field = <<>> /\ matched = 0 /\ (pc = "flush, send" => kind = "commands")
  <2>1. isOpen
    BY <1>1 DEF IInv, Closed, Flushing
  <2> QED BY <1>1, <2>1 DEF IInv, Between
<1>11. pc' \in Pcs /\ pc' # "header" /\ pc' # "field" /\ pc' # "agree" /\ pc # "header"
  BY <1>1, <1>6 DEF Pcs, Flushing
<1>12. Typed'
  BY <1>5, <1>7, <1>9, <1>11, Zenon DEF IInv, Typed
<1>13. Room'
  BY <1>5, Zenon DEF IInv, Room
<1>14. Closed'
  BY <1>5, <1>10, Zenon DEF Closed
<1>15. Between'
  <2>1. length' = 0 => rest' = <<>>
    BY <1>6 DEF IInv, Between
  <2>2. pc' \in {"send", "header", "close"} => length' = 0
    BY <1>1, <1>6 DEF Flushing
  <2>3. pc' \in {"send", "flush, send"} => kind' = "commands"
    BY <1>1, <1>5, <1>6, <1>10 DEF Flushing
  <2> QED BY <1>5, <1>10, <1>11, <2>1, <2>2, <2>3, Zenon DEF Between
<1>16. Asked'
  BY <1>5, <1>11, Zenon DEF IInv, Asked
<1>17. Counted'
  <2>1. Frames(wire, queue, Left, alive)
    BY Zenon DEF IInv, Counted
  <2>2. n <= Len(wire)
    <3> DEFINE l == Len(wire)
    <3>1. l \in Nat /\ l >= n
      BY <1>4, <1>8, LenProperties, Zenon
    <3> HIDE DEF l
    <3>2. n <= l
      BY <1>3, <3>1
    <3> QED BY <3>2 DEF l
  <2>3. Frames(SubSeq(wire, n + 1, Len(wire)), queue, Left - n, alive)
    BY <1>2, <1>3, <1>8, <2>1, <2>2, FramesDrop, Zenon
  <2> QED BY <1>4, <1>5, <1>7, <2>3, Zenon DEF Counted
<1>18. Current'
  <2>1. CASE pc' = pc
    BY <1>1, <2>1, Zenon DEF Current, Flushing
  <2>2. CASE length' = 0
    <3>1. ~(length' > 0)
      BY <2>2
    <3> QED BY <3>1, Zenon DEF Current
  <2> QED BY <1>6, <2>1, <2>2
<1> QED BY <1>12, <1>13, <1>14, <1>15, <1>16, <1>17, <1>18 DEF IInv

LEMMA DisconnectKeeps ==
  ASSUME IInv, Disconnect
  PROVE  IInv'
<1>1. /\ alive' = FALSE /\ wire' = <<>> /\ isOpen' = FALSE /\ kind' = "commands"
      /\ length' = 0 /\ consumed' = 0 /\ buf' = <<>> /\ matched' = 0 /\ field' = <<>>
      /\ pc' = "idle" /\ queue' = <<>> /\ rest' = <<>>
      /\ version' = version /\ agreed' = agreed /\ asked' = asked
  BY DEF Disconnect, agreeVars
<1>2. Typed'
  <2>1. <<>> \in Seq(Nat \cup Bytes) /\ <<>> \in Seq(Bytes) /\ <<>> \in Seq(Messages)
    BY EmptySeq, Zenon
  <2>2. alive' \in BOOLEAN /\ isOpen' \in BOOLEAN /\ ~isOpen'
    BY <1>1, Zenon
  <2>3. consumed' \in 0..length' /\ length' \in Nat /\ matched' \in 0..4
    BY <1>1
  <2>4. kind' \in {"commands", "events"} /\ pc' \in Pcs
    BY <1>1 DEF Pcs
  <2> QED BY <1>1, <2>1, <2>2, <2>3, <2>4, Zenon DEF IInv, Typed
<1>3. Room'
  <2>1. Len(<<>>) = 0 /\ Len(<<>>) - 0 <= BufferSize - 7
    BY Numbers
  <2> QED BY <1>1, <2>1 DEF Room, Ends
<1>4. Closed'
  <2>1. pc' \in {"idle", "agree"}
    BY <1>1
  <2> QED BY <1>1, <2>1, Zenon DEF Closed
<1>5. Between'
  BY <1>1 DEF Between
<1>6. Asked'
  <2>1. pc' # "header"
    BY <1>1
  <2> QED BY <1>1, <2>1, Zenon DEF Asked
<1>7. Counted'
  <2>1. Left' = 0
    BY <1>1 DEF Left
  <2> QED BY <1>1, <2>1, FramesNone, Zenon DEF Counted
<1>8. Current'
  <2>1. ~(length' > 0)
    BY <1>1
  <2> QED BY <2>1, Zenon DEF Current
<1> QED BY <1>2, <1>3, <1>4, <1>5, <1>6, <1>7, <1>8 DEF IInv

LEMMA NoFieldKeeps ==
  ASSUME IInv, NoField
  PROVE  IInv' /\ rest = <<>>
<1>1. /\ pc = "field" /\ length = 0 /\ pc' = "idle"
      /\ version' = version /\ alive' = alive /\ wire' = wire /\ isOpen' = isOpen /\ proto' = proto
      /\ kind' = kind /\ agreed' = agreed /\ asked' = asked /\ length' = length /\ consumed' = consumed
      /\ buf' = buf /\ matched' = matched /\ field' = field /\ queue' = queue /\ rest' = rest
  BY DEF NoField, netVars, openVars, agreeVars, countVars, readVars
<1>2. isOpen /\ buf = <<>> /\ field = <<>> /\ matched = 0 /\ rest = <<>>
  <2>1. isOpen
    BY <1>1 DEF IInv, Closed
  <2> QED BY <1>1, <2>1 DEF IInv, Between
<1>3. Typed'
  <2>1. pc' \in Pcs
    BY <1>1 DEF Pcs
  <2> QED BY <1>1, <2>1, Zenon DEF IInv, Typed
<1>4. Quiet
  BY <1>1 DEF Quiet, Flushing
<1>5. Closed'
  BY <1>1, <1>2, Zenon DEF Closed
<1>6. Between'
  BY <1>1, <1>2 DEF Between
<1>7. Asked'
  <2>1. pc # "header" /\ pc' # "header"
    BY <1>1
  <2> QED BY <1>1, <2>1, Zenon DEF IInv, Asked
<1> QED BY <1>2, <1>3, <1>4, <1>5, <1>6, <1>7, QuietKeeps DEF IInv

-----------------------------------------------------------------------------
(* ReadField.                                                              *)

\* Whether a separator has begun does not depend on what is before it.
LEMMA EndsConcat ==
  ASSUME NEW a \in Seq(Bytes), NEW b \in Seq(Bytes), NEW k \in Nat, Ends(b, k)
  PROVE  Ends(a \o b, k)
<1> DEFINE c == a \o b
           la == Len(a)
           lb == Len(b)
           lc == Len(c)
<1>1. lc = la + lb /\ \A i \in 1..(la + lb) : c[i] = IF i <= la THEN a[i] ELSE b[i - la]
  BY ConcatProperties, Zenon
<1>2. la \in Nat
  BY LenProperties, Zenon
<1>3. lb \in Nat
  BY LenProperties, Zenon
<1>4. k <= lb /\ \A i \in 1..k : b[lb - k + i] = Separator[i]
  BY Zenon DEF Ends
<1> HIDE DEF c, la, lb, lc
<1>5. k <= lc
  BY <1>1, <1>2, <1>3, <1>4
<1>6. ASSUME NEW i \in 1..k PROVE c[lc - k + i] = Separator[i]
  <2> DEFINE j == lc - k + i
             m == lb - k + i
  <2>1. j \in 1..(la + lb) /\ ~(j <= la) /\ j - la = m
    BY <1>1, <1>2, <1>3, <1>4
  <2>2. c[j] = b[m]
    BY <1>1, <2>1
  <2>3. b[m] = Separator[i]
    BY <1>4, Zenon
  <2> QED BY <2>2, <2>3
<1> QED BY <1>5, <1>6, Zenon DEF Ends, c, lc

LEMMA EndsAppend ==
  ASSUME NEW b \in Seq(Bytes), NEW k \in Nat, Ends(b, k), NEW c \in Bytes
  PROVE  /\ Ends(Append(b, c), 0) /\ Ends(<<>>, 0)
         /\ c = Separator[k + 1] => Ends(Append(b, c), k + 1)
<1> DEFINE d == Append(b, c)
           n == Len(b)
           ld == Len(d)
           z == Len(<<>>)
<1>1. ld = n + 1 /\ d[n + 1] = c /\ \A i \in 1..n : d[i] = b[i]
  <2>1. /\ Len(Append(b, c)) = Len(b) + 1 /\ Append(b, c)[Len(b) + 1] = c
        /\ \A i \in 1..Len(b) : Append(b, c)[i] = b[i]
    BY AppendProperties
  <2> QED BY <2>1, Zenon
<1>2. n \in Nat
  BY LenProperties, Zenon
<1>3. k <= n /\ \A i \in 1..k : b[n - k + i] = Separator[i]
  BY Zenon DEF Ends
<1>4. z = 0
  OBVIOUS
<1> HIDE DEF d, n, ld, z
<1>5. 0 <= ld /\ 0 <= z /\ 1..0 = {}
  BY <1>1, <1>2, <1>4
<1>6. Ends(d, 0) /\ Ends(<<>>, 0)
  BY <1>5, Zenon DEF Ends, ld, z
<1>7. ASSUME c = Separator[k + 1] PROVE Ends(d, k + 1)
  <2>1. k + 1 <= ld
    BY <1>1, <1>2, <1>3
  <2>2. ASSUME NEW i \in 1..(k + 1) PROVE d[ld - (k + 1) + i] = Separator[i]
    <3> DEFINE j == ld - (k + 1) + i
    <3>1. j = n - k + i /\ (i = k + 1 => j = n + 1) /\ (i # k + 1 => i \in 1..k /\ j \in 1..n)
      BY <1>1, <1>2, <1>3
    <3> HIDE DEF j
    <3>2. i = k + 1 => d[j] = Separator[i]
      BY <1>1, <1>7, <3>1
    <3>3. i # k + 1 => d[j] = Separator[i]
      <4>1. i # k + 1 => d[j] = b[j]
        BY <1>1, <3>1
      <4>2. i # k + 1 => b[n - k + i] = Separator[i]
        BY <1>3, <3>1
      <4> QED BY <3>1, <4>1, <4>2
    <3> QED BY <3>2, <3>3 DEF j
  <2> QED BY <2>1, <2>2, Zenon DEF Ends, ld
<1> QED BY <1>6, <1>7 DEF d

\* One byte more.
LEMMA Received ==
  ASSUME IInv, Receive
  PROVE  /\ Head(wire) \in Bytes /\ Tail(wire) \in Seq(Nat \cup Bytes) /\ isOpen
         /\ Left \in Nat \ {0}
         /\ Frames(Tail(wire), queue, Left - 1, alive)
         /\ field \o buf \in Seq(Bytes) /\ Append(buf, Head(wire)) \in Seq(Bytes)
         /\ field \o Append(buf, Head(wire)) = Append(field \o buf, Head(wire))
         /\ Len(Append(buf, Head(wire))) = Len(buf) + 1
         /\ \E r \in Messages :
              /\ rest = Stream!Told(r) /\ Len(Body[r]) > 0
              /\ Begun(r, Append(field \o buf, Head(wire)), Left - 1, Tail(wire))
              /\ Head(wire) = Separator[matched + 1] /\ matched < 4 =>
                   InTime(r, Append(field \o buf, Head(wire)), matched + 1)
              /\ Head(wire) # Separator[matched + 1] =>
                   InTime(r, Append(field \o buf, Head(wire)), 0)
              /\ Head(wire) = Separator[matched + 1] /\ matched = 4 =>
                   Len(r) > 1 /\ Len(field \o buf) = Len(r[1]) + 4
<1> DEFINE read == field \o buf
           c == Head(wire)
<1>1. pc = "field" /\ consumed < length /\ wire # <<>>
  BY Zenon DEF Receive
<1>2. /\ wire \in Seq(Nat \cup Bytes) /\ field \in Seq(Bytes) /\ buf \in Seq(Bytes)
      /\ matched \in 0..4 /\ queue \in Seq(Messages) /\ alive \in BOOLEAN
      /\ length \in Nat /\ consumed \in 0..length
  BY Zenon DEF IInv, Typed
<1>3. Left \in Nat \ {0} /\ length > 0 /\ ~Flushing
  BY <1>1, <1>2 DEF Left, Flushing
<1>4. isOpen
  BY <1>1 DEF IInv, Closed
<1>5. read \in Seq(Bytes)
  BY <1>2, ConcatProperties, Zenon
<1>6. Ends(read, matched)
  <2>1. matched \in Nat
    BY <1>2
  <2> QED BY <1>2, <2>1, EndsConcat, Zenon DEF IInv, Room
<1>7. PICK r \in Messages :
        /\ rest = Stream!Told(r) /\ Len(Body[r]) > 0
        /\ Begun(r, read, Left, wire) /\ InTime(r, read, matched)
  BY <1>3, Zenon DEF IInv, Current
<1> HIDE DEF read
<1>8. /\ c \in Bytes
      /\ Begun(r, Append(read, c), Left - 1, Tail(wire))
      /\ c = Separator[matched + 1] /\ matched < 4 => InTime(r, Append(read, c), matched + 1)
      /\ c # Separator[matched + 1] => InTime(r, Append(read, c), 0)
      /\ c = Separator[matched + 1] /\ matched = 4 =>
           Len(r) > 1 /\ Len(read) = Len(r[1]) + 4
  BY <1>1, <1>2, <1>3, <1>5, <1>6, <1>7, NextByte, Zenon
<1>9. Tail(wire) \in Seq(Nat \cup Bytes)
  BY <1>1, <1>2, HeadTailProperties, Zenon
<1>10. Frames(Tail(wire), queue, Left - 1, alive)
  <2> DEFINE l == Len(wire)
  <2>1. l \in Nat \ {0}
    BY <1>1, <1>2, EmptySeq, Zenon
  <2> HIDE DEF l
  <2>2. 1 \in Nat /\ 1 <= l /\ 1 <= Left /\ Left \in Nat
    BY <1>3, <2>1
  <2>3. Frames(SubSeq(wire, 1 + 1, l), queue, Left - 1, alive)
    BY <1>2, <2>2, FramesDrop, Zenon DEF IInv, Counted, l
  <2>4. Tail(wire) = SubSeq(wire, 1 + 1, l)
    BY <1>1, <1>2, TailIsSubSeq DEF l
  <2> QED BY <2>3, <2>4
<1>11. /\ Append(buf, c) \in Seq(Bytes) /\ Len(Append(buf, c)) = Len(buf) + 1
       /\ field \o Append(buf, c) = Append(read, c)
  <2> HIDE DEF c
  <2>1. Append(buf, c) \in Seq(Bytes) /\ Len(Append(buf, c)) = Len(buf) + 1
    BY <1>2, <1>8, AppendProperties, Zenon
  <2>2. <<c>> \in Seq(Bytes)
    BY <1>8
  <2>3. Append(buf, c) = buf \o <<c>> /\ Append(read, c) = read \o <<c>>
    BY <1>2, <1>5, <1>8, AppendIsConcat, Zenon
  <2>4. (field \o buf) \o <<c>> = field \o (buf \o <<c>>)
    <3> DEFINE e == <<c>>
    <3>1. field \in Seq(Bytes) /\ buf \in Seq(Bytes) /\ e \in Seq(Bytes)
      BY <1>2, <2>2
    <3> HIDE DEF e
    <3>2. (field \o buf) \o e = field \o (buf \o e)
      BY <3>1, ConcatAssociative
    <3> QED BY <3>2 DEF e
  <2> QED BY <2>1, <2>3, <2>4 DEF read
<1> QED BY <1>3, <1>4, <1>5, <1>7, <1>8, <1>9, <1>10, <1>11, Zenon DEF read

\* What stays the same while ReadField goes on.
LEMMA ReadingKeeps ==
  ASSUME IInv, Receive, pc' = "field", consumed' = consumed + 1,
         buf' \in Seq(Bytes), field' \in Seq(Bytes), matched' \in 0..4, Room',
         field' \o buf' = Append(field \o buf, Head(wire)),
         \A r \in Messages :
           /\ Head(wire) = Separator[matched + 1] /\ matched < 4 =>
                InTime(r, Append(field \o buf, Head(wire)), matched + 1)
           /\ Head(wire) # Separator[matched + 1] =>
                InTime(r, Append(field \o buf, Head(wire)), 0)
           => InTime(r, Append(field \o buf, Head(wire)), matched'),

         version' = version, alive' = alive, isOpen' = isOpen, proto' = proto,
         kind' = kind, agreed' = agreed, asked' = asked, length' = length,
         queue' = queue, rest' = rest
  PROVE  IInv'
<1>1. pc = "field" /\ consumed < length /\ wire' = Tail(wire)
  BY Zenon DEF Receive
<1>2. length \in Nat /\ consumed \in 0..length
  BY Zenon DEF IInv, Typed
<1>3. consumed' \in 0..length' /\ length' \in Nat /\ Left' = Left - 1 /\ length > 0
  BY <1>1, <1>2 DEF Left
<1> DEFINE next == Append(field \o buf, Head(wire))
<1>4. /\ Tail(wire) \in Seq(Nat \cup Bytes) /\ isOpen
      /\ Frames(Tail(wire), queue, Left - 1, alive)
  BY Received, Zenon
<1>5. PICK r \in Messages :
        /\ rest = Stream!Told(r) /\ Len(Body[r]) > 0
        /\ Begun(r, next, Left - 1, Tail(wire)) /\ InTime(r, next, matched')
  BY Received, Zenon
<1>6. Typed'
  <2>1. pc' \in Pcs
    BY DEF Pcs
  <2> QED BY <1>1, <1>3, <1>4, <2>1, Zenon DEF IInv, Typed
<1>7. Closed'
  BY <1>4, Zenon DEF Closed
<1>8. Between'
  BY <1>3 DEF Between
<1>9. Asked'
  <2>1. pc # "header" /\ pc' # "header"
    BY <1>1
  <2> QED BY <2>1, Zenon DEF IInv, Asked
<1>10. Counted'
  BY <1>1, <1>3, <1>4, Zenon DEF Counted
<1>11. Current'
  <2>1. Begun(r, field' \o buf', Left', wire') /\ InTime(r, field' \o buf', matched')
    BY <1>1, <1>3, <1>5, Zenon
  <2> QED BY <1>5, <2>1, Zenon DEF Current
<1> QED BY <1>6, <1>7, <1>8, <1>9, <1>10, <1>11, Zenon DEF IInv

\* A byte that goes on with a separator.
LEMMA MatchKeeps ==
  ASSUME IInv, Match, matched # 4
  PROVE  IInv'
<1> DEFINE c == Head(wire)
<1>1. Len(Separator) = 5 /\ matched \in 0..4
  BY Constants, Zenon DEF IInv, Typed
<1>2. matched + 1 # Len(Separator) /\ matched < 4 /\ matched + 1 \in 0..4 /\ matched \in Nat
  BY <1>1
<1>3. /\ c = Separator[matched + 1] /\ buf' = Append(buf, c) /\ matched' = matched + 1
      /\ consumed' = consumed + 1 /\ pc' = pc /\ Receive
      /\ version' = version /\ alive' = alive /\ isOpen' = isOpen /\ proto' = proto /\ kind' = kind
      /\ agreed' = agreed /\ asked' = asked /\ length' = length /\ field' = field /\ queue' = queue
      /\ rest' = rest
  BY <1>2 DEF Match, openVars, agreeVars
<1>4. pc' = "field"
  BY <1>3 DEF Receive
<1>5. /\ field \in Seq(Bytes) /\ buf \in Seq(Bytes) /\ c \in Bytes
      /\ buf' \in Seq(Bytes) /\ Len(buf') = Len(buf) + 1
      /\ field' \o buf' = Append(field \o buf, c)
  BY <1>3, Received, Zenon DEF IInv, Typed
<1>6. Room'
  <2>1. Ends(buf', matched')
    BY <1>2, <1>3, <1>5, EndsAppend, Zenon DEF IInv, Room
  <2>2. Len(buf) \in Nat
    BY <1>5, LenProperties, Zenon
  <2> DEFINE n == Len(buf)
             n2 == Len(buf')
  <2>3. n2 = n + 1 /\ n \in Nat /\ n - matched <= BufferSize - 7 /\ matched' = matched + 1
    BY <1>3, <1>5, <2>2, Zenon DEF IInv, Room
  <2> HIDE DEF n, n2
  <2>4. n2 - matched' <= BufferSize - 7
    BY <1>2, <2>3, Numbers
  <2> QED BY <2>1, <2>4, Zenon DEF Room, n2
<1> HIDE DEF c
<1>7. matched' \in 0..4
  BY <1>2, <1>3
<1>8. \A r \in Messages :
        /\ Head(wire) = Separator[matched + 1] /\ matched < 4 =>
             InTime(r, Append(field \o buf, Head(wire)), matched + 1)
        /\ Head(wire) # Separator[matched + 1] =>
             InTime(r, Append(field \o buf, Head(wire)), 0)
        => InTime(r, Append(field \o buf, Head(wire)), matched')
  BY <1>2, <1>3, Zenon DEF c
<1> QED BY <1>3, <1>4, <1>5, <1>6, <1>7, <1>8, ReadingKeeps, Zenon DEF c

\* A byte that does not: and the buffer, when it is full, is emptied.
LEMMA MismatchKeeps ==
  ASSUME IInv, Mismatch
  PROVE  IInv'
<1> DEFINE c == Head(wire)
           b == Append(buf, c)
<1>1. /\ c # Separator[matched + 1] /\ matched' = 0
      /\ consumed' = consumed + 1 /\ pc' = pc /\ Receive
      /\ version' = version /\ alive' = alive /\ isOpen' = isOpen /\ proto' = proto /\ kind' = kind
      /\ agreed' = agreed /\ asked' = asked /\ length' = length /\ queue' = queue /\ rest' = rest
  BY DEF Mismatch, openVars, agreeVars, historyVars
<1>2. \/ Full(b) /\ field' = field \o b /\ buf' = <<>>
      \/ ~Full(b) /\ field' = field /\ buf' = b
  BY Zenon DEF Mismatch
<1>3. pc' = "field"
  BY <1>1 DEF Receive
<1>4. /\ field \in Seq(Bytes) /\ buf \in Seq(Bytes) /\ c \in Bytes
      /\ b \in Seq(Bytes) /\ field \o b = Append(field \o buf, c)
  BY <1>1, Received, Zenon DEF IInv, Typed
<1>5. Ends(b, 0) /\ Ends(<<>>, 0)
  <2>1. matched \in Nat
    <3>1. matched \in 0..4
      BY Zenon DEF IInv, Typed
    <3> QED BY <3>1
  <2> QED BY <1>4, <2>1, EndsAppend, Zenon DEF IInv, Room
<1> HIDE DEF b
<1>6. field \o b \in Seq(Bytes) /\ <<>> \in Seq(Bytes) /\ (field \o b) \o <<>> = field \o b
  <2> DEFINE f == field \o b
  <2>1. f \in Seq(Bytes)
    BY <1>4, ConcatProperties, Zenon
  <2> HIDE DEF f
  <2>2. f \o <<>> = f
    BY <2>1, ConcatEmptySeq, Zenon
  <2>3. <<>> \in Seq(Bytes)
    BY EmptySeq, Zenon
  <2> QED BY <2>1, <2>2, <2>3 DEF f
<1>7. /\ field' \in Seq(Bytes) /\ buf' \in Seq(Bytes)
      /\ field' \o buf' = Append(field \o buf, c)
  BY <1>2, <1>4, <1>6, Zenon
<1>8. Room'
  <2>1. Ends(buf', matched')
    BY <1>1, <1>2, <1>5, Zenon
  <2>2. Len(buf') - matched' <= BufferSize - 7
    <3> DEFINE z == Len(<<>>)
               n == Len(b)
    <3>1. z = 0
      OBVIOUS
    <3>2. n \in Nat
      BY <1>4, LenProperties, Zenon
    <3>3. ~Full(b) => ~(n > BufferSize - 2 - 5)
      BY Constants, Zenon DEF Full
    <3> HIDE DEF z, n
    <3>4. z - 0 <= BufferSize - 7 /\ (~Full(b) => n - 0 <= BufferSize - 7)
      BY <3>1, <3>2, <3>3, Numbers
    <3> QED BY <1>1, <1>2, <3>4, Zenon DEF z, n
  <2> QED BY <2>1, <2>2, Zenon DEF Room
<1>9. matched' \in 0..4
  BY <1>1
<1> HIDE DEF c
<1>10. \A r \in Messages :
         /\ Head(wire) = Separator[matched + 1] /\ matched < 4 =>
              InTime(r, Append(field \o buf, Head(wire)), matched + 1)
         /\ Head(wire) # Separator[matched + 1] =>
              InTime(r, Append(field \o buf, Head(wire)), 0)
         => InTime(r, Append(field \o buf, Head(wire)), matched')
  BY <1>1, Zenon DEF c
<1> QED BY <1>1, <1>3, <1>7, <1>8, <1>9, <1>10, ReadingKeeps, Zenon DEF c

\* The separator is complete: the first field is given, and the rest of the
\* message, which begins here, is left.
LEMMA FieldKeeps ==
  ASSUME IInv, Match, matched = 4
  PROVE  /\ IInv' /\ rest # <<>> /\ last' = <<Head(rest)>> /\ rest' = Tail(rest)
         /\ pc = "field" /\ pc' = "idle"
<1> DEFINE c == Head(wire)
           read == field \o buf
           next == Append(read, c)
           given == field \o SubSeq(buf, 1, Len(buf) + 1 - Len(Separator))
<1>1. Len(Separator) = 5
  BY Constants
<1>2. /\ c = Separator[matched + 1] /\ Receive
      /\ Return(<<given>>, consumed + 1)
      /\ version' = version /\ alive' = alive /\ isOpen' = isOpen /\ proto' = proto /\ kind' = kind
      /\ agreed' = agreed /\ asked' = asked /\ queue' = queue
  BY <1>1 DEF Match, openVars, agreeVars
<1>3. /\ pc = "field" /\ wire' = Tail(wire) /\ consumed < length
      /\ pc' = "idle" /\ last' = <<given>>
      /\ rest' = IF rest = <<>> THEN rest ELSE Tail(rest)
      /\ buf' = <<>> /\ matched' = 0 /\ field' = <<>>
      /\ \/ consumed + 1 < length /\ consumed' = consumed + 1 /\ length' = length
         \/ ~(consumed + 1 < length) /\ consumed' = 0 /\ length' = 0
  <2> HIDE DEF given
  <2> QED BY <1>2, Zenon DEF Receive, Return
<1>4. length \in Nat /\ consumed \in 0..length /\ Left \in Nat \ {0}
  <2>1. Left \in Nat \ {0}
    BY <1>2, Received, Zenon
  <2> QED BY <2>1, Zenon DEF IInv, Typed
<1>5. /\ Left' = Left - 1 /\ length' \in Nat /\ consumed' \in 0..length'
      /\ Left - 1 \in Nat /\ (length' > 0 => Left - 1 > 0) /\ (length' = 0 => Left - 1 = 0)
  <2>1. \/ consumed + 1 < length /\ consumed' = consumed + 1 /\ length' = length
        \/ ~(consumed + 1 < length) /\ consumed' = 0 /\ length' = 0
    BY <1>3
  <2> QED BY <1>3, <1>4, <2>1 DEF Left
<1>6. /\ c \in Bytes /\ Tail(wire) \in Seq(Nat \cup Bytes) /\ isOpen
      /\ Frames(Tail(wire), queue, Left - 1, alive) /\ read \in Seq(Bytes)
  BY <1>2, Received, Zenon
<1>7. PICK r \in Messages :
        /\ rest = Stream!Told(r) /\ Begun(r, next, Left - 1, Tail(wire))
        /\ Len(r) > 1 /\ Len(read) = Len(r[1]) + 4
  BY <1>2, Received, Zenon
<1>8. next \in Seq(Bytes) /\ Len(next) = Len(read) + 1 /\ \A i \in 1..Len(read) : next[i] = read[i]
  <2> HIDE DEF read, c
  <2> QED BY <1>6, AppendProperties
<1>9. Len(next) = Len(r[1]) + 5
  <2> DEFINE l == Len(r[1])
  <2>1. r[1] \in Seq(Bytes)
    BY BodyShape, Zenon
  <2>2. l \in Nat
    BY <2>1, LenProperties, Zenon
  <2>3. Len(next) = (l + 4) + 1
    BY <1>7, <1>8, Zenon
  <2> HIDE DEF l, next
  <2>4. Len(next) = l + 5
    BY <2>2, <2>3
  <2> QED BY <2>4 DEF l
<1>10. /\ SubSeq(next, 1, Len(next) - 5) = r[1]
       /\ Len(Body[Tail(r)]) = Left - 1 /\ Begun(Tail(r), <<>>, Left - 1, Tail(wire))
  <2> HIDE DEF next
  <2> QED BY <1>5, <1>7, <1>8, <1>9, FieldEnds, Zenon
\* The buffer still holds all but the last byte of the separator.
<1>11. given = r[1]
  <2> DEFINE n == Len(field)
             m == Len(buf)
             s == SubSeq(buf, 1, m + 1 - Len(Separator))
             f == r[1]
  <2>1. field \in Seq(Bytes) /\ buf \in Seq(Bytes) /\ f \in Seq(Bytes) /\ matched <= m
    <3>1. f \in Seq(Bytes)
      BY BodyShape, Zenon
    <3> QED BY <3>1, Zenon DEF IInv, Typed, Room, Ends
  <2>2. n \in Nat
    BY <2>1, LenProperties, Zenon
  <2>3. m \in Nat
    BY <2>1, LenProperties, Zenon
  <2>4. m >= 4 /\ m + 1 - Len(Separator) = m - 4 /\ m - 4 \in Nat /\ m - 4 <= m
    <3>1. matched <= m
      BY <2>1
    <3> HIDE DEF m
    <3> QED BY <1>1, <2>3, <3>1
  <2>5. s \in Seq(Bytes) /\ Len(s) = m - 4 /\ \A i \in 1..(m - 4) : s[i] = buf[i]
    <3> DEFINE j == m - 4
    <3>1. j \in Nat /\ 0 \in Nat /\ 0 <= j /\ j <= Len(buf)
      BY <2>4
    <3> HIDE DEF j
    <3>2. /\ SubSeq(buf, 0 + 1, j) \in Seq(Bytes) /\ Len(SubSeq(buf, 0 + 1, j)) = j - 0
          /\ \A i \in 1..(j - 0) : SubSeq(buf, 0 + 1, j)[i] = buf[0 + i]
      BY <2>1, <3>1, Cut, Zenon
    <3>3. 0 + 1 = 1 /\ j - 0 = j /\ \A i \in 1..j : 0 + i = i
      BY <3>1
    <3>4. SubSeq(buf, 1, j) \in Seq(Bytes) /\ Len(SubSeq(buf, 1, j)) = j
          /\ \A i \in 1..j : SubSeq(buf, 1, j)[i] = buf[i]
      BY <3>2, <3>3
    <3> QED BY <2>4, <3>4, Zenon DEF j
  <2>6. Len(read) = n + m /\ \A i \in 1..(n + m) : read[i] = IF i <= n THEN field[i] ELSE buf[i - n]
    BY <2>1, ConcatProperties, Zenon
  <2> HIDE DEF s, n, m, f
  <2>7. /\ field \o s \in Seq(Bytes) /\ Len(field \o s) = n + (m - 4)
        /\ \A i \in 1..(n + (m - 4)) : (field \o s)[i] = IF i <= n THEN field[i] ELSE s[i - n]
    <3>1. /\ field \o s \in Seq(Bytes) /\ Len(field \o s) = Len(field) + Len(s)
          /\ \A i \in 1..(Len(field) + Len(s)) :
               (field \o s)[i] = IF i <= Len(field) THEN field[i] ELSE s[i - Len(field)]
      BY <2>1, <2>5, ConcatProperties, Zenon
    <3> QED BY <2>5, <3>1, Zenon DEF n
  <2> DEFINE g == field \o s
  <2> HIDE DEF g
  <2>8. Len(f) = n + (m - 4) /\ Len(next) - 5 = n + (m - 4)
    <3> DEFINE l == Len(f)
               k == Len(next)
    <3>1. l \in Nat
      BY <2>1, LenProperties, Zenon
    <3>2. n + m = l + 4 /\ k = l + 5
      BY <1>7, <1>9, <2>6, Zenon DEF f
    <3> HIDE DEF l, k
    <3>3. l = n + (m - 4) /\ k - 5 = n + (m - 4)
      BY <2>2, <2>3, <3>1, <3>2
    <3> QED BY <3>3 DEF l, k
  <2>9. \A i \in 1..(n + (m - 4)) : f[i] = read[i]
    <3> DEFINE j == n + (m - 4)
    <3>1. j \in Nat /\ 0 \in Nat /\ 0 <= j /\ j <= n + m
      BY <2>2, <2>3, <2>4
    <3>2. Len(next) = n + m + 1
      BY <1>8, <2>6, Zenon
    <3> HIDE DEF next, read
    <3>3. j <= Len(next)
      BY <2>2, <2>3, <3>1, <3>2
    <3>4. SubSeq(next, 1, j) = f
      BY <1>10, <2>8, Zenon DEF f
    <3> HIDE DEF j
    <3>5. \A i \in 1..(j - 0) : SubSeq(next, 0 + 1, j)[i] = next[0 + i]
      <4>1. /\ SubSeq(next, 0 + 1, j) \in Seq(Bytes)
            /\ Len(SubSeq(next, 0 + 1, j)) = j - 0
            /\ \A i \in 1..(j - 0) : SubSeq(next, 0 + 1, j)[i] = next[0 + i]
        <5>1. next \in Seq(Bytes)
          BY <1>8
        <5> QED BY <3>1, <3>3, <5>1, Cut
      <4> QED BY <4>1, Zenon
    <3>6. \A i \in 1..j : f[i] = next[i]
      <4>1. 0 + 1 = 1 /\ j - 0 = j /\ \A i \in 1..j : 0 + i = i
        BY <3>1
      <4> QED BY <3>4, <3>5, <4>1
    <3>7. \A i \in 1..j : i \in 1..(n + m)
      BY <2>2, <2>3, <3>1
    <3>8. \A i \in 1..(n + m) : next[i] = read[i]
      BY <1>8, <2>6, Zenon
    <3> QED BY <3>6, <3>7, <3>8, Zenon DEF j
  <2>10. \A i \in 1..(n + (m - 4)) : g[i] = f[i]
    <3> SUFFICES ASSUME NEW i \in 1..(n + (m - 4)) PROVE g[i] = read[i]
      BY <2>9, Zenon
    <3>1. i \in 1..(n + m) /\ (~(i <= n) => i - n \in 1..(m - 4))
      BY <2>2, <2>3, <2>4
    <3>2. g[i] = IF i <= n THEN field[i] ELSE s[i - n]
      BY <2>7, Zenon DEF g
    <3>3. read[i] = IF i <= n THEN field[i] ELSE buf[i - n]
      BY <2>6, <3>1, Zenon
    <3>4. CASE i <= n
      <4>1. g[i] = field[i]
        BY <3>2, <3>4
      <4>2. read[i] = field[i]
        BY <3>3, <3>4
      <4> QED BY <4>1, <4>2
    <3>5. CASE ~(i <= n)
      <4>1. g[i] = s[i - n]
        BY <3>2, <3>5
      <4>2. read[i] = buf[i - n]
        BY <3>3, <3>5
      <4>3. s[i - n] = buf[i - n]
        BY <2>5, <3>1, <3>5, Zenon
      <4> QED BY <4>1, <4>2, <4>3
    <3> HIDE DEF read
    <3> QED BY <3>4, <3>5
  <2>11. g = f
    <3>1. g \in Seq(Bytes) /\ Len(g) = n + (m - 4)
      BY <2>7 DEF g
    <3>2. Len(g) = Len(f) /\ \A i \in 1..Len(g) : g[i] = f[i]
      BY <2>8, <2>10, <3>1, Zenon
    <3> QED BY <2>1, <3>1, <3>2, SeqEqual
  <2> QED BY <2>11, Zenon DEF g, s, m, f
<1>12. /\ rest # <<>> /\ Head(rest) = r[1] /\ Tail(rest) = Stream!Told(Tail(r))
       /\ Tail(r) \in Messages
  BY <1>7, ToldShape, BodyShape, Zenon
<1>13. rest' = Tail(rest) /\ last' = <<Head(rest)>>
  BY <1>3, <1>11, <1>12, Zenon
<1> HIDE DEF c, read, next, given
<1>14. Typed'
  <2>1. <<>> \in Seq(Bytes) /\ pc' \in Pcs /\ matched' \in 0..4
    <3>1. <<>> \in Seq(Bytes)
      BY EmptySeq, Zenon
    <3> QED BY <1>3, <3>1 DEF Pcs
  <2> QED BY <1>2, <1>3, <1>5, <1>6, <2>1, Zenon DEF IInv, Typed
<1>15. Room'
  <2>1. Len(<<>>) = 0 /\ Len(<<>>) - 0 <= BufferSize - 7
    BY Numbers
  <2>2. Ends(<<>>, 0)
    BY NothingRead
  <2> QED BY <1>3, <2>1, <2>2, Zenon DEF Room
<1>16. Closed'
  BY <1>2, <1>6, Zenon DEF Closed
<1>17. Between'
  <2>1. length' = 0 => rest' = <<>>
    BY <1>5, <1>10, <1>12, <1>13, ToldNothing, Zenon
  <2> QED BY <1>3, <2>1 DEF Between
<1>18. Asked'
  <2>1. pc # "header" /\ pc' # "header"
    BY <1>3
  <2> QED BY <1>2, <2>1, Zenon DEF IInv, Asked
<1>19. Counted'
  BY <1>2, <1>3, <1>5, <1>6, Zenon DEF Counted
<1>20. Current'
  <2> SUFFICES ASSUME length' > 0 PROVE Current'
    BY Zenon DEF Current
  <2> DEFINE t == Tail(r)
  <2>1. field' \o buf' = <<>>
    BY <1>3
  <2>2. t \in Messages /\ rest' = Stream!Told(t) /\ Len(Body[t]) > 0
        /\ Begun(t, <<>>, Left', wire') /\ InTime(t, <<>>, matched')
    <3>1. t \in Messages /\ rest' = Stream!Told(t) /\ Len(Body[t]) = Left - 1
      BY <1>10, <1>12, <1>13, Zenon
    <3>2. Begun(t, <<>>, Left', wire')
      BY <1>3, <1>5, <1>10, Zenon
    <3>3. InTime(t, <<>>, matched')
      BY <1>3, <3>1, NothingRead, Zenon
    <3>4. Len(Body[t]) > 0
      BY <1>5, <3>1, Zenon
    <3> QED BY <3>1, <3>2, <3>3, <3>4
  <2> HIDE DEF t
  <2> QED BY <2>1, <2>2, Zenon DEF Current
<1>21. IInv'
  BY <1>14, <1>15, <1>16, <1>17, <1>18, <1>19, <1>20, Zenon DEF IInv
<1> QED BY <1>3, <1>12, <1>13, <1>21

\* All bytes are read: what there is of them is the last field.
LEMMA AtEndKeeps ==
  ASSUME IInv, AtEnd
  PROVE  /\ IInv' /\ rest # <<>> /\ last' = <<Head(rest)>> /\ rest' = Tail(rest)
         /\ pc = "field" /\ pc' = "idle"
<1> DEFINE read == field \o buf
<1>1. /\ pc = "field" /\ length > 0 /\ consumed = length
      /\ Return(<<read>>, consumed)
      /\ version' = version /\ alive' = alive /\ wire' = wire /\ isOpen' = isOpen /\ proto' = proto
      /\ kind' = kind /\ agreed' = agreed /\ asked' = asked /\ queue' = queue
  BY DEF AtEnd, netVars, openVars, agreeVars
<1>2. length \in Nat /\ Left = 0 /\ ~Flushing
  <2>1. length \in Nat
    BY Zenon DEF IInv, Typed
  <2> QED BY <1>1, <2>1 DEF Left, Flushing
<1>3. /\ pc' = "idle" /\ last' = <<read>>
      /\ rest' = IF rest = <<>> THEN rest ELSE Tail(rest)
      /\ buf' = <<>> /\ matched' = 0 /\ field' = <<>>
      /\ consumed' = 0 /\ length' = 0
  <2>1. ~(consumed < length)
    BY <1>1, <1>2
  <2> HIDE DEF read
  <2> QED BY <1>1, <2>1, Zenon DEF Return
<1>4. field \in Seq(Bytes) /\ buf \in Seq(Bytes) /\ matched \in 0..4 /\ read \in Seq(Bytes)
  <2>1. field \in Seq(Bytes) /\ buf \in Seq(Bytes) /\ matched \in 0..4
    BY Zenon DEF IInv, Typed
  <2> QED BY <2>1, ConcatProperties, Zenon
<1>5. PICK r \in Messages :
        /\ rest = Stream!Told(r) /\ Len(Body[r]) > 0
        /\ Begun(r, read, 0, wire) /\ InTime(r, read, matched)
  BY <1>1, <1>2, Zenon DEF IInv, Current
<1> HIDE DEF read
<1>6. Len(r) = 1 /\ read = r[1]
  BY <1>4, <1>5, LastField, Zenon
<1>7. r[1] # <<>>
  <2>1. Body[r] = r[1]
    BY <1>6, BodyShape, Zenon
  <2>2. Len(r[1]) > 0
    BY <1>5, <2>1
  <2> DEFINE f == r[1]
  <2>3. Len(f) > 0
    BY <2>2
  <2> HIDE DEF f
  <2>4. f # <<>>
    BY <2>3
  <2> QED BY <2>4 DEF f
<1>8. rest = <<read>>
  BY <1>5, <1>6, <1>7, ToldShape, Zenon
<1>9. rest # <<>> /\ Head(rest) = read /\ Tail(rest) = <<>>
  BY <1>8
<1>10. rest' = <<>> /\ rest' = Tail(rest) /\ last' = <<Head(rest)>>
  BY <1>3, <1>9, Zenon
<1>11. isOpen
  BY <1>1 DEF IInv, Closed
<1>12. Typed'
  <2>1. /\ <<>> \in Seq(Bytes) /\ pc' \in Pcs /\ matched' \in 0..4
        /\ consumed' \in 0..length' /\ length' \in Nat
    <3>1. <<>> \in Seq(Bytes)
      BY EmptySeq, Zenon
    <3> QED BY <1>3, <3>1 DEF Pcs
  <2> QED BY <1>1, <1>3, <2>1, Zenon DEF IInv, Typed
<1>13. Room'
  <2>1. Len(<<>>) = 0 /\ Len(<<>>) - 0 <= BufferSize - 7
    BY Numbers
  <2>2. Ends(<<>>, 0)
    BY <1>5, NothingRead
  <2> QED BY <1>3, <2>1, <2>2, Zenon DEF Room
<1>14. Closed'
  BY <1>1, <1>11, Zenon DEF Closed
<1>15. Between'
  BY <1>3, <1>10 DEF Between
<1>16. Asked'
  <2>1. pc # "header" /\ pc' # "header"
    BY <1>1, <1>3
  <2> QED BY <1>1, <2>1, Zenon DEF IInv, Asked
<1>17. Counted'
  <2>1. Left' = Left
    BY <1>2, <1>3 DEF Left
  <2> QED BY <1>1, <2>1, Zenon DEF IInv, Counted
<1>18. Current'
  <2>1. ~(length' > 0)
    BY <1>3
  <2> QED BY <2>1, Zenon DEF Current
<1>19. IInv'
  BY <1>12, <1>13, <1>14, <1>15, <1>16, <1>17, <1>18, Zenon DEF IInv
<1> QED BY <1>1, <1>3, <1>9, <1>10, <1>19

\* Every step preserves the invariant.
LEMMA InvNext == IInv /\ [Next]_vars => IInv'
<1> SUFFICES ASSUME IInv, [Next]_vars PROVE IInv'
  OBVIOUS
<1>1. CASE Backend
  <2>1. CASE Restart
    BY <2>1, OpeningKeeps
  <2> QED BY <1>1, <2>1, LoseKeeps, TellKeeps, Zenon DEF Backend
<1>2. CASE Opening
  <2>1. CASE Accepted
    BY <2>1, AcceptedKeeps
  <2> QED BY <1>2, <2>1, OpeningKeeps, Zenon DEF Opening
<1>3. CASE Calls
  BY <1>3, CallsKeep, Zenon
<1>4. CASE Message
  <2>1. CASE HangException \/ Done
    <3>1. Disconnect
      BY <2>1, Zenon DEF HangException, Done
    <3> QED BY <3>1, DisconnectKeeps, Zenon
  <2> QED BY <1>4, <2>1, SendKeeps, LengthKeeps, FlushKeeps, Zenon DEF Message
<1>5. CASE Reading
  <2>1. CASE Match
    BY <2>1, MatchKeeps, FieldKeeps, Zenon
  <2> QED BY <1>5, <2>1, NoFieldKeeps, MismatchKeeps, AtEndKeeps, Zenon DEF Reading
<1>6. CASE UNCHANGED vars
  BY <1>6, StutterKeeps, Zenon
<1> QED BY <1>1, <1>2, <1>3, <1>4, <1>5, <1>6, Zenon DEF Next

-----------------------------------------------------------------------------
(* Types, and the bound of the buffer.                                     *)

LEMMA InvTypeOK == IInv => TypeOK
<1> SUFFICES ASSUME IInv PROVE TypeOK
  OBVIOUS
<1>1. version \in Versions /\ {alive, isOpen} \subseteq BOOLEAN
  <2>1. version \in Versions /\ alive \in BOOLEAN /\ isOpen \in BOOLEAN
    BY Zenon DEF IInv, Typed
  <2> QED BY <2>1, Zenon
<1>2. \A i \in DOMAIN wire : wire[i] \in Nat \cup Bytes
  <2>1. wire \in Seq(Nat \cup Bytes)
    BY Zenon DEF IInv, Typed
  <2> QED BY <2>1
<1>3. /\ kind \in {"commands", "events"}
      /\ isOpen /\ alive => proto = version /\ proto \in Supported
      /\ length \in Nat /\ consumed \in 0..length
  BY Zenon DEF IInv, Typed
<1>4. {agreed, asked} \subseteq Supported \cup Versions \cup {0}
  BY DEF IInv, Typed
<1>5. pc \in {"idle", "agree", "send", "header", "field", "close",
              "flush", "flush, send", "flush, close"}
  BY DEF IInv, Typed, Pcs
<1> DEFINE n == Len(buf)
<1>6. /\ buf \in Seq(Bytes) /\ matched \in 0..4 /\ matched <= n /\ n - matched <= BufferSize - 7
      /\ \A i \in 1..matched : buf[(n - matched) + i] = Separator[i]
  BY Zenon DEF IInv, Typed, Room, Ends
<1>7. n \in Nat
  BY <1>6, LenProperties, Zenon
<1>8. matched \in 0..(Len(Separator) - 1)
  BY <1>6, Constants
<1>9. n < BufferSize
  <2> HIDE DEF n
  <2> QED BY <1>6, <1>7, Numbers
<1>10. SubSeq(buf, n - matched + 1, n) = SubSeq(Separator, 1, matched)
  <2> DEFINE k == matched
             a == n - k
  <2>1. n \in Nat /\ a \in Nat /\ a <= n /\ k \in Nat /\ n - a = k /\ k <= 5
    <3> HIDE DEF n
    <3> QED BY <1>6, <1>7
  <2>2. /\ SubSeq(buf, a + 1, n) \in Seq(Bytes) /\ Len(SubSeq(buf, a + 1, n)) = n - a
        /\ \A i \in 1..(n - a) : SubSeq(buf, a + 1, n)[i] = buf[a + i]
    <3>1. n <= Len(buf)
      <4>1. n <= n
        <5> HIDE DEF n
        <5> QED BY <2>1
      <4> QED BY <4>1
    <3> HIDE DEF n, a, k
    <3> QED BY <1>6, <2>1, <3>1, Cut
  <2>3. /\ SubSeq(Separator, 0 + 1, k) \in Seq(Bytes) /\ Len(SubSeq(Separator, 0 + 1, k)) = k - 0
        /\ \A i \in 1..(k - 0) : SubSeq(Separator, 0 + 1, k)[i] = Separator[0 + i]
    <3>1. 0 \in Nat /\ 0 <= k /\ k <= Len(Separator) /\ Separator \in Seq(Bytes)
      BY <2>1, Constants
    <3> HIDE DEF n, a, k
    <3> QED BY <2>1, <3>1, Cut
  <2> DEFINE s == SubSeq(buf, a + 1, n)
             t == SubSeq(Separator, 1, k)
  <2>4. t \in Seq(Bytes) /\ Len(t) = k /\ \A i \in 1..k : t[i] = Separator[i]
    <3>1. 0 + 1 = 1 /\ k - 0 = k /\ \A i \in 1..k : 0 + i = i
      BY <2>1
    <3> HIDE DEF k
    <3> QED BY <2>3, <3>1
  <2>5. s \in Seq(Bytes) /\ Len(s) = k /\ \A i \in 1..k : s[i] = Separator[i]
    <3>1. \A i \in 1..k : buf[a + i] = Separator[i]
      BY <1>6, Zenon
    <3> HIDE DEF n, a, k
    <3> QED BY <2>1, <2>2, <3>1
  <2>6. s = t
    <3> HIDE DEF s, t, k
    <3> QED BY <2>4, <2>5, SeqEqual
  <2> QED BY <2>6, Zenon
<1> QED BY <1>1, <1>2, <1>3, <1>4, <1>5, <1>6, <1>8, <1>9, <1>10, Zenon DEF TypeOK

LEMMA Invariant == Spec => []IInv
BY InvInit, InvNext, PTL DEF Spec

\* Types, with the bound of ReadField's buffer: whatever the fields, what was
\* read of one, with a separator that has begun and the zero that is put after
\* it, never passes BufferSize bytes.
THEOREM TypeCorrect == Spec => []TypeOK
BY Invariant, InvTypeOK, PTL

-----------------------------------------------------------------------------
(* Bytes, counts and buffer implement FieldStream.                         *)

\* The connection is given up only when the backend is gone: a part of what
\* was waited for is on the wire while it is there.
LEMMA HangIsLoss ==
  ASSUME IInv, HangException
  PROVE  ~alive
<1> SUFFICES ASSUME alive PROVE FALSE
  OBVIOUS
<1>1. /\ wire \in Seq(Nat \cup Bytes) /\ queue \in Seq(Messages)
      /\ Left \in Nat /\ (length = 0 => Left = 0)
  BY LeftIsNat, Zenon DEF IInv, Typed
<1>2. alive = TRUE
  BY Zenon DEF IInv, Typed
<1>3. Frames(wire, queue, Left, TRUE)
  BY <1>2, Zenon DEF IInv, Counted
<1>4. Left <= Len(wire)
  BY <1>1, <1>3, FramesWhole, Zenon
<1>5. Len(wire) \in Nat
  BY <1>1, LenProperties, Zenon
<1>6. CASE pc = "header" /\ ~HasLength
  <2>1. length = 0 /\ wire # <<>>
    BY <1>6 DEF IInv, Between, Asked
  <2>2. Frames(wire, queue, 0, TRUE)
    BY <1>1, <1>3, <2>1, Zenon
  <2>3. Head(wire) \in Nat
    BY <1>1, <2>1, <2>2, FramesBegin, Zenon
  <2> QED BY <1>6, <2>1, <2>3, Zenon DEF HasLength
<1>7. CASE pc = "field" /\ Left > 0 /\ wire = <<>>
  <2>1. Len(wire) = 0
    BY <1>7
  <2>2. Left > 0
    BY <1>7
  <2> DEFINE k == Left
  <2> HIDE DEF k
  <2>3. k \in Nat /\ k <= 0 /\ k > 0
    BY <1>1, <1>4, <2>1, <2>2, Zenon DEF k
  <2> QED BY <2>3
<1>8. CASE Len(wire) < Min({Left, BufferSize})
  <2> DEFINE n == Min({Left, BufferSize})
             k == Left
             w == Len(wire)
  <2>1. n \in Nat /\ n <= k
    BY <1>1, FlushSize, Zenon
  <2>2. w < n /\ k <= w /\ w \in Nat /\ k \in Nat
    BY <1>1, <1>4, <1>5, <1>8
  <2> HIDE DEF n, k, w
  <2> QED BY <2>1, <2>2
<1> QED BY <1>6, <1>7, <1>8, Zenon DEF HangException

\* What each group of steps is in FieldStream.
LEMMA BackendMaps ==
  ASSUME IInv, Backend
  PROVE  [Stream!Next]_(Stream!svars)
<1>1. CASE Lose
  <2>1. /\ alive /\ alive' = FALSE
        /\ kind' = kind /\ queue' = queue /\ rest' = rest /\ pc' = pc /\ last' = last
    BY <1>1 DEF Lose, openVars, historyVars
  <2>2. Stream!Lose
    BY <2>1 DEF Stream!Lose
  <2> QED BY <2>2 DEF Stream!Next
<1>2. CASE Restart
  BY <1>2 DEF Restart, openVars, historyVars, Stream!svars
<1>3. CASE Tell
  <2>1. /\ alive /\ kind = "events" /\ alive' = alive
        /\ kind' = kind /\ rest' = rest /\ pc' = pc /\ last' = last
    BY <1>3 DEF Tell, openVars
  <2>2. PICK m \in Messages : queue' = Append(queue, m)
    BY <1>3, Zenon DEF Tell
  <2>3. Stream!Tell(m)
    BY <2>1, <2>2 DEF Stream!Tell
  <2> QED BY <2>3 DEF Stream!Next
<1> QED BY <1>1, <1>2, <1>3 DEF Backend

LEMMA OpeningMaps ==
  ASSUME IInv, Opening
  PROVE  [Stream!Next]_(Stream!svars)
<1>1. CASE Accepted
  <2>1. /\ pc = "agree" /\ pc' = "idle" /\ alive' = TRUE
        /\ kind' = kind /\ queue' = queue /\ rest' = rest /\ last' = last
    BY <1>1 DEF Accepted, historyVars
  <2>2. ~alive /\ queue = <<>> /\ rest = <<>>
    BY <2>1, Zenon DEF IInv, Between, Closed
  <2>3. Stream!Connect
    BY <2>1, <2>2 DEF Stream!Connect
  <2> QED BY <2>3 DEF Stream!Next
<1>2. CASE ~Accepted
  <2>1. /\ alive' = alive /\ kind' = kind /\ queue' = queue /\ rest' = rest /\ last' = last
        /\ pc' # "field" /\ pc # "field"
    <3>1. pc # "field" \/ isOpen
      BY DEF IInv, Closed
    <3> QED BY <1>2, <3>1
            DEF Opening, OpenConnection, Rejected, OpenFails, OthersAgree, netVars, openVars, historyVars
  <2> QED BY <2>1 DEF Stream!svars
<1> QED BY <1>1, <1>2

LEMMA CallsMap ==
  ASSUME IInv, Calls
  PROVE  [Stream!Next]_(Stream!svars)
<1>1. CASE Monitor
  <2>1. /\ kind' = "events"
        /\ alive' = alive /\ queue' = queue /\ rest' = rest /\ pc' = pc /\ last' = last
    BY <1>1 DEF Monitor, netVars, historyVars
  <2>2. Stream!Monitor
    BY <2>1 DEF Stream!Monitor
  <2> QED BY <2>2 DEF Stream!Next
<1>2. CASE ReadField
  <2>1. /\ pc = "idle" /\ pc' = "field"
        /\ alive' = alive /\ kind' = kind /\ queue' = queue /\ rest' = rest /\ last' = last
    BY <1>2 DEF ReadField, netVars, openVars, historyVars
  <2>2. Stream!Ask
    BY <2>1 DEF Stream!Ask
  <2> QED BY <2>2 DEF Stream!Next
<1>3. CASE SendCommand \/ Close \/ CallFlush \/ Listen
  <2>1. /\ alive' = alive /\ kind' = kind /\ queue' = queue /\ rest' = rest /\ last' = last
        /\ pc = "idle" /\ pc' # "field"
    BY <1>3 DEF SendCommand, Close, CallFlush, Listen, Goto, netVars, openVars, historyVars
  <2> QED BY <2>1 DEF Stream!svars
<1> QED BY <1>1, <1>2, <1>3 DEF Calls

LEMMA MessageMaps ==
  ASSUME IInv, Message
  PROVE  [Stream!Next]_(Stream!svars)
<1>1. CASE Send
  <2>1. /\ pc = "send" /\ pc' = "header"
        /\ alive' = alive /\ kind' = kind /\ rest' = rest /\ last' = last
    BY <1>1 DEF Send, openVars
  <2>2. CASE alive
    <3>1. PICK m \in Messages : queue' = Append(queue, m)
      BY <1>1, <2>2, Zenon DEF Send
    <3>2. kind = "commands" /\ length = 0 /\ rest = <<>>
      BY <2>1 DEF IInv, Between
    <3>3. queue = <<>>
      BY <2>1, <3>2 DEF IInv, Asked
    <3>4. queue' = <<m>>
      BY <3>1, <3>3
    <3>5. Stream!Answer(m)
      BY <2>1, <2>2, <3>2, <3>3, <3>4 DEF Stream!Answer
    <3> QED BY <3>5 DEF Stream!Next
  <2>3. CASE ~alive
    <3>1. queue' = queue
      BY <1>1, <2>3 DEF Send
    <3> QED BY <2>1, <3>1 DEF Stream!svars
  <2> QED BY <2>2, <2>3
<1>2. CASE RcvMessageLength
  <2>1. /\ pc = "header" /\ pc' = "idle"
        /\ alive' = alive /\ kind' = kind /\ last' = last
    BY <1>2 DEF RcvMessageLength, openVars
  <2>2. /\ queue # <<>> /\ rest = <<>>
        /\ queue' = Tail(queue) /\ rest' = Stream!Told(Head(queue))
    BY <1>2, LengthKeeps, Zenon
  <2>3. Stream!Begin
    BY <2>1, <2>2 DEF Stream!Begin
  <2> QED BY <2>3 DEF Stream!Next
<1>3. CASE FlushMessage
  <2>1. /\ pc # "field" /\ alive' = alive /\ kind' = kind /\ queue' = queue /\ last' = last
    BY <1>3 DEF FlushMessage, openVars
  <2>2. \/ rest' = rest /\ pc' = pc
        \/ rest' = <<>> /\ pc' # "field"
    BY <1>3 DEF FlushMessage
  <2>3. CASE rest' = rest /\ pc' = pc
    BY <2>1, <2>3 DEF Stream!svars
  <2>4. CASE rest' = <<>> /\ pc' # "field"
    <3>1. Stream!Drop
      BY <2>1, <2>4 DEF Stream!Drop
    <3> QED BY <3>1 DEF Stream!Next
  <2> QED BY <2>2, <2>3, <2>4
<1>4. ASSUME Disconnect
      PROVE  Stream!Shut /\ alive' = FALSE
  <2>1. /\ alive' = FALSE /\ queue' = <<>> /\ rest' = <<>> /\ kind' = "commands" /\ pc' = "idle"
        /\ last' = IF pc = "field" THEN <<>> ELSE last
    BY <1>4 DEF Disconnect
  <2> QED BY <2>1 DEF Stream!Shut
<1>5. CASE HangException
  <2>1. ~alive /\ alive \in BOOLEAN
    BY <1>5, HangIsLoss, Zenon DEF IInv, Typed
  <2>2. Stream!Shut /\ alive' = FALSE
    BY <1>4, <1>5, Zenon DEF HangException
  <2>3. Stream!GiveUp
    BY <2>1, <2>2, Zenon DEF Stream!GiveUp
  <2> QED BY <2>3 DEF Stream!Next
<1>6. CASE Done
  <2>1. pc = "close"
    BY <1>6 DEF Done
  <2>2. rest = <<>>
    BY <2>1 DEF IInv, Between
  <2>3. Stream!Shut /\ alive' = FALSE
    BY <1>4, <1>6, Zenon DEF Done
  <2>4. Stream!Close
    BY <2>1, <2>2, <2>3 DEF Stream!Close
  <2> QED BY <2>4 DEF Stream!Next
<1> QED BY <1>1, <1>2, <1>3, <1>5, <1>6, Zenon DEF Message

LEMMA ReadingMaps ==
  ASSUME IInv, Reading
  PROVE  [Stream!Next]_(Stream!svars)
<1>1. pc = "field" /\ alive' = alive /\ kind' = kind /\ queue' = queue
  BY DEF Reading, NoField, Match, Mismatch, AtEnd, Receive, netVars, openVars, historyVars
<1>2. CASE NoField
  <2>1. pc' = "idle" /\ last' = <<>> /\ rest' = rest
    BY <1>2 DEF NoField
  <2>2. rest = <<>>
    BY <1>2, NoFieldKeeps, Zenon
  <2>3. Stream!Give
    BY <1>1, <2>1, <2>2 DEF Stream!Give
  <2> QED BY <2>3 DEF Stream!Next
<1>3. CASE AtEnd \/ (Match /\ matched = 4)
  <2>1. rest # <<>> /\ last' = <<Head(rest)>> /\ rest' = Tail(rest) /\ pc' = "idle"
    BY <1>3, AtEndKeeps, FieldKeeps, Zenon
  <2>2. Stream!Give
    BY <1>1, <2>1 DEF Stream!Give
  <2> QED BY <2>2 DEF Stream!Next
<1>4. CASE Mismatch \/ (Match /\ matched # 4)
  <2>1. rest' = rest /\ last' = last /\ pc' = pc
    <3>1. Len(Separator) = 5 /\ matched \in Nat
      <4>1. matched \in 0..4
        BY Zenon DEF IInv, Typed
      <4> QED BY <4>1, Constants
    <3>2. matched # 4 => matched + 1 # Len(Separator)
      BY <3>1
    <3> QED BY <1>4, <3>2 DEF Mismatch, Match, historyVars
  <2> QED BY <1>1, <2>1 DEF Stream!svars
<1> QED BY <1>2, <1>3, <1>4, Zenon DEF Reading

\* Every step is one of FieldStream, or changes nothing that it tells.
LEMMA StreamStep == IInv /\ [Next]_vars => [Stream!Next]_(Stream!svars)
<1> SUFFICES ASSUME IInv, [Next]_vars PROVE [Stream!Next]_(Stream!svars)
  OBVIOUS
<1>1. CASE UNCHANGED vars
  BY <1>1 DEF vars, netVars, openVars, historyVars, Stream!svars
<1> QED BY <1>1, BackendMaps, OpeningMaps, CallsMap, MessageMaps, ReadingMaps, Zenon DEF Next

\* Whatever the fields of the messages, the size of the buffer, the number of
\* bytes left unread and the moment at which the connection breaks, those who
\* call ReadField are given the fields that were sent, whole and in order; no
\* message is begun inside another, no command is sent before its answer can be
\* the next message, and the connection is given up only when the backend is gone.
THEOREM ConnectionIsFieldStream == Spec => ImplementsFieldStream
<1>1. Init => Stream!Init
  BY DEF Init, Stream!Init
<1>2. IInv /\ [Next]_vars => [Stream!Next]_(Stream!svars)
  BY StreamStep
<1> QED BY <1>1, <1>2, Invariant, PTL DEF Spec, ImplementsFieldStream, Stream!Spec

=============================================================================
