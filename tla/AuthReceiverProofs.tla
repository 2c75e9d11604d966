-------------------------- MODULE AuthReceiverProofs --------------------------
(***************************************************************************)
(* What the auth receiver reads, for any sizes of token and id, any number *)
(* of sign-ins and any way the bytes arrive: that it reads the stream as   *)
(* it was sent (StreamIsKept), and that it finds the pairs in it as long   *)
(* as it stands between two messages (PairsAreMatched).                    *)
(***************************************************************************)
EXTENDS AuthReceiver, SequenceTheorems, WellFoundedInduction, TLAPS

(* Induction over Nat, with a set for the predicate.                        *)
LEMMA Induct ==
  ASSUME NEW S \in SUBSET Nat, 0 \in S, \A n \in S : n + 1 \in S
  PROVE  S = Nat
<1>. SUFFICES ASSUME Nat \ S # {} PROVE FALSE
  OBVIOUS
<1>. DEFINE R == {ss \in Nat \X Nat : ss[1] < ss[2]}
<1>1. IsWellFoundedOn(R, Nat)
  BY NatLessThanWellFounded DEF OpToRel
<1>2. PICK x \in Nat \ S : \A y \in Nat \ S : <<y, x>> \notin R
  BY <1>1, WFMin
<1>3. x # 0
  OBVIOUS
<1>4. x - 1 \in Nat /\ x - 1 < x
  BY <1>3
<1>5. <<x - 1, x>> \in R
  BY <1>4
<1>6. x - 1 \in S
  BY <1>2, <1>4, <1>5
<1>. QED
  BY <1>4, <1>6

----------------------------------------------------------------------------

(* f holds what the first elements of s make, one behind the other.         *)
Flattens(f, s) == f = [i \in 1 .. Len(s) |-> IF i = 1 THEN s[i] ELSE f[i - 1] \o s[i]]

LEMMA FlattenDef ==
  ASSUME NEW S, NEW s \in Seq(S), s # <<>>
  PROVE  \E f : Flattens(f, s) /\ FlattenSeq(s) = f[Len(s)]
<1>. DEFINE Is(f, m) == f = [i \in 1 .. m |-> IF i = 1 THEN s[i] ELSE f[i - 1] \o s[i]]
            T == {m \in Nat : \E f : Is(f, m)}
<1>1. 0 \in T
  <2>. DEFINE f == [i \in 1 .. 0 |-> s[i]]
  <2>1. Is(f, 0)
    OBVIOUS
  <2>. QED
    BY <2>1
<1>2. ASSUME NEW m \in T PROVE m + 1 \in T
  <2>1. PICK f : Is(f, m)
    BY <1>2
  <2>. DEFINE g == [i \in 1 .. m + 1 |-> IF i = 1 THEN s[i] ELSE f[i - 1] \o s[i]]
  <2>2. ASSUME NEW i \in 1 .. m + 1, i # 1 PROVE g[i - 1] = f[i - 1]
    <3>1. i - 1 \in 1 .. m /\ i - 1 \in 1 .. m + 1 /\ m \in Nat
      BY <2>2
    <3>. QED
      BY <3>1, <2>1
  <2>3. Is(g, m + 1)
    BY <2>2
  <2>4. m + 1 \in Nat
    OBVIOUS
  <2>. HIDE DEF g, Is
  <2>. QED
    BY <2>3, <2>4
<1>3. T = Nat
  <2>. HIDE DEF T
  <2>1. T \in SUBSET Nat
    BY DEF T
  <2>. QED
    BY <1>1, <1>2, <2>1, Induct
<1>4. Len(s) \in Nat /\ Len(s) # 0
  BY EmptySeq, LenProperties
<1>5. \E f : Is(f, Len(s))
  BY <1>3, <1>4
<1>6. FlattenSeq(s) = (CHOOSE f : Is(f, Len(s)))[Len(s)]
  BY <1>4 DEF FlattenSeq
<1>. DEFINE h == CHOOSE f : Is(f, Len(s))
<1>7. Is(h, Len(s))
  BY <1>5
<1>8. Flattens(h, s) /\ FlattenSeq(s) = h[Len(s)]
  BY <1>6, <1>7 DEF Flattens
<1>. HIDE DEF h
<1>. QED
  BY <1>8

LEMMA FlattenEmpty == FlattenSeq(<<>>) = <<>>
  BY DEF FlattenSeq

LEMMA FlattensFirst ==
  ASSUME NEW S, NEW s \in Seq(S), s # <<>>, NEW f, Flattens(f, s)
  PROVE  f[1] = s[1]
<1>1. 1 \in 1 .. Len(s)
  BY EmptySeq, LenProperties
<1>. QED
  BY <1>1 DEF Flattens

LEMMA FlattensStep ==
  ASSUME NEW S, NEW s \in Seq(S), NEW f, Flattens(f, s), NEW i \in 1 .. Len(s), i # 1
  PROVE  f[i] = f[i - 1] \o s[i]
<1>1. f = [j \in 1 .. Len(s) |-> IF j = 1 THEN s[j] ELSE f[j - 1] \o s[j]]
  BY DEF Flattens
<1>. QED
  BY <1>1, Zenon

LEMMA FlattensType ==
  ASSUME NEW S, NEW s \in Seq(Seq(S)), NEW f, Flattens(f, s)
  PROVE  \A i \in 1 .. Len(s) : f[i] \in Seq(S)
<1>. DEFINE L == Len(s)
            T == {m \in Nat : m + 1 \in 1 .. L => f[m + 1] \in Seq(S)}
<1>1. L \in Nat
  BY LenProperties
<1>. HIDE DEF L
<1>2. 0 \in T
  <2>1. ASSUME 1 \in 1 .. L PROVE f[1] \in Seq(S)
    <3>1. s # <<>>
      BY <2>1, EmptySeq DEF L
    <3>2. f[1] = s[1]
      BY <3>1, FlattensFirst
    <3>3. s[1] \in Seq(S)
      BY <2>1, ElementOfSeq DEF L
    <3>. QED
      BY <3>2, <3>3
  <2>. QED
    BY <2>1
<1>3. ASSUME NEW m \in T PROVE m + 1 \in T
  <2>. SUFFICES ASSUME (m + 1) + 1 \in 1 .. L PROVE f[(m + 1) + 1] \in Seq(S)
    OBVIOUS
  <2>. PICK i \in 1 .. L : i = (m + 1) + 1
    OBVIOUS
  <2>1. i # 1 /\ i - 1 = m + 1 /\ m + 1 \in 1 .. L
    BY <1>1
  <2>2. f[i] = f[i - 1] \o s[i] /\ s[i] \in Seq(S)
    <3>1. f[i] = f[i - 1] \o s[i]
      BY <2>1, FlattensStep DEF L
    <3>. QED
      BY <3>1, ElementOfSeq DEF L
  <2>3. f[i - 1] \in Seq(S)
    BY <2>1
  <2>. QED
    BY <2>2, <2>3, ConcatProperties
<1>4. T = Nat
  <2>. HIDE DEF T
  <2>1. T \in SUBSET Nat
    BY DEF T
  <2>. QED
    BY <1>2, <1>3, <2>1, Induct
<1>5. ASSUME NEW i \in 1 .. L PROVE f[i] \in Seq(S)
  <2>1. i - 1 \in Nat /\ (i - 1) + 1 = i
    BY <1>1
  <2>2. i - 1 \in T
    BY <1>4, <2>1
  <2>. QED
    BY <2>1, <2>2
<1>. QED
  BY <1>5 DEF L

LEMMA FlattenType ==
  ASSUME NEW S, NEW s \in Seq(Seq(S))
  PROVE  FlattenSeq(s) \in Seq(S)
<1>1. CASE s = <<>>
  BY <1>1, FlattenEmpty, EmptySeq
<1>2. CASE s # <<>>
  <2>1. PICK f : Flattens(f, s) /\ FlattenSeq(s) = f[Len(s)]
    BY <1>2, FlattenDef
  <2>2. Len(s) \in 1 .. Len(s)
    BY <1>2, EmptySeq, LenProperties
  <2>. QED
    BY <2>1, <2>2, FlattensType
<1>. QED
  BY <1>1, <1>2

(* An element more at the end is flattened last.                            *)
LEMMA FlattenAppend ==
  ASSUME NEW S, NEW s \in Seq(Seq(S)), NEW x \in Seq(S)
  PROVE  FlattenSeq(Append(s, x)) = FlattenSeq(s) \o x
<1>. DEFINE t == Append(s, x)
<1>1. t \in Seq(Seq(S)) /\ t # <<>> /\ Len(t) = Len(s) + 1 /\ Len(s) \in Nat
      /\ (\A i \in 1 .. Len(s) : t[i] = s[i]) /\ t[Len(s) + 1] = x
  BY AppendProperties, LenProperties
<1>. HIDE DEF t
<1>2. PICK g : Flattens(g, t) /\ FlattenSeq(t) = g[Len(t)]
  BY <1>1, FlattenDef
<1>3. CASE s = <<>>
  <2>1. Len(t) = 1 /\ t[1] = x
    BY <1>1, <1>3, EmptySeq
  <2>2. g[1] = t[1]
    BY <1>1, <1>2, FlattensFirst
  <2>3. FlattenSeq(s) \o x = x
    BY <1>3, FlattenEmpty, ConcatEmptySeq
  <2>. QED
    BY <1>2, <2>1, <2>2, <2>3 DEF t
<1>4. CASE s # <<>>
  <2>1. PICK f : Flattens(f, s) /\ FlattenSeq(s) = f[Len(s)]
    BY <1>4, FlattenDef
  <2>. DEFINE L == Len(s)
              T == {m \in Nat : m + 1 \in 1 .. L => f[m + 1] = g[m + 1]}
  <2>2. L \in Nat /\ L # 0
    BY <1>4, EmptySeq, LenProperties
  <2>3. f[1] = s[1] /\ g[1] = t[1] /\ t[1] = s[1]
    <3>1. t[1] = s[1]
      BY <1>1, <2>2
    <3>. QED
      BY <1>1, <1>2, <1>4, <2>1, <3>1, FlattensFirst
  <2>4. ASSUME NEW i \in 1 .. L, i # 1
        PROVE  f[i] = f[i - 1] \o s[i] /\ g[i] = g[i - 1] \o t[i] /\ t[i] = s[i]
    <3>1. i \in 1 .. Len(t) /\ t[i] = s[i]
      BY <1>1
    <3>2. f[i] = f[i - 1] \o s[i]
      BY <2>1, <2>4, FlattensStep
    <3>3. g[i] = g[i - 1] \o t[i]
      BY <1>1, <1>2, <2>4, <3>1, FlattensStep
    <3>. QED
      BY <3>1, <3>2, <3>3
  <2>5. g[L + 1] = g[L] \o x
    <3>1. L + 1 \in 1 .. Len(t) /\ L + 1 # 1 /\ (L + 1) - 1 = L /\ t[L + 1] = x
      BY <1>1, <2>2
    <3>2. g[L + 1] = g[(L + 1) - 1] \o t[L + 1]
      BY <1>1, <1>2, <3>1, FlattensStep
    <3>. QED
      BY <3>1, <3>2
  <2>. HIDE DEF L
  <2>6. 0 \in T
    BY <2>3
  <2>7. ASSUME NEW m \in T PROVE m + 1 \in T
    <3>. SUFFICES ASSUME (m + 1) + 1 \in 1 .. L PROVE f[(m + 1) + 1] = g[(m + 1) + 1]
      OBVIOUS
    <3>. PICK i \in 1 .. L : i = (m + 1) + 1
      OBVIOUS
    <3>1. i # 1 /\ i - 1 = m + 1 /\ m + 1 \in 1 .. L
      BY <2>2
    <3>2. f[i - 1] = g[i - 1]
      BY <3>1
    <3>. QED
      BY <2>4, <3>1, <3>2
  <2>8. T = Nat
    <3>. HIDE DEF T
    <3>1. T \in SUBSET Nat
      BY DEF T
    <3>. QED
      BY <2>6, <2>7, <3>1, Induct
  <2>9. f[L] = g[L]
    <3>1. L - 1 \in Nat /\ (L - 1) + 1 = L /\ L \in 1 .. L
      BY <2>2
    <3>2. L - 1 \in T
      BY <2>8, <3>1
    <3>. QED
      BY <3>1, <3>2
  <2>. QED
    BY <1>1, <1>2, <2>1, <2>5, <2>9 DEF L, t
<1>. QED
  BY <1>3, <1>4

(* The first element is flattened first.                                    *)
LEMMA FlattenHead ==
  ASSUME NEW S
  PROVE  \A s \in Seq(Seq(S)) : s # <<>> => FlattenSeq(s) = Head(s) \o FlattenSeq(Tail(s))
<1>0. \A a, b, c \in Seq(S) : (a \o b) \o c = a \o (b \o c)
  BY ConcatAssociative
<1>. SUFFICES ASSUME NEW s \in Seq(Seq(S)), s # <<>>
              PROVE  FlattenSeq(s) = Head(s) \o FlattenSeq(Tail(s))
  OBVIOUS
<1>. DEFINE t == Tail(s)
<1>1. t \in Seq(Seq(S)) /\ Len(t) = Len(s) - 1 /\ Len(s) \in Nat /\ Len(s) # 0
      /\ (\A i \in 1 .. Len(t) : t[i] = s[i + 1]) /\ Head(s) = s[1] /\ s[1] \in Seq(S)
  BY HeadTailProperties, LenProperties, EmptySeq
<1>. HIDE DEF t
<1>2. PICK f : Flattens(f, s) /\ FlattenSeq(s) = f[Len(s)]
  BY FlattenDef
<1>3. f[1] = s[1]
  BY <1>2, FlattensFirst
<1>4. CASE t = <<>>
  <2>1. Len(s) = 1
    BY <1>1, <1>4, EmptySeq
  <2>2. FlattenSeq(t) = <<>>
    BY <1>4, FlattenEmpty
  <2>3. s[1] \o <<>> = s[1]
    BY <1>1, ConcatEmptySeq
  <2>. QED
    BY <1>1, <1>2, <1>3, <2>1, <2>2, <2>3 DEF t
<1>5. CASE t # <<>>
  <2>1. PICK g : Flattens(g, t) /\ FlattenSeq(t) = g[Len(t)]
    BY <1>1, <1>5, FlattenDef
  <2>. DEFINE L == Len(t)
              P(m) == m + 1 \in 1 .. L => f[m + 2] = s[1] \o g[m + 1]
              T == {m \in Nat : P(m)}
  <2>2. L \in Nat /\ L # 0 /\ Len(s) = L + 1
    <3>1. L \in Nat \ {0}
      BY <1>1, <1>5, EmptySeq
    <3>. QED
      BY <1>1, <3>1
  <2>3. ASSUME NEW i \in 1 .. L
        PROVE  f[i + 1] = f[i] \o t[i]
    <3>1. i + 1 \in 1 .. Len(s) /\ i + 1 # 1 /\ (i + 1) - 1 = i /\ t[i] = s[i + 1]
      BY <1>1, <2>2
    <3>2. f[i + 1] = f[(i + 1) - 1] \o s[i + 1]
      BY <1>2, <3>1, FlattensStep
    <3>. QED
      BY <3>1, <3>2
  <2>4. g[1] = t[1]
    BY <1>1, <1>5, <2>1, FlattensFirst
  <2>5. ASSUME NEW i \in 1 .. L, i # 1
        PROVE  g[i] = g[i - 1] \o t[i] /\ t[i] \in Seq(S) /\ g[i - 1] \in Seq(S)
    <3>1. g[i] = g[i - 1] \o t[i]
      BY <1>1, <2>1, <2>5, FlattensStep
    <3>2. t[i] \in Seq(S)
      BY <1>1, ElementOfSeq
    <3>3. i - 1 \in 1 .. Len(t)
      BY <2>2, <2>5
    <3>4. g[i - 1] \in Seq(S)
      BY <1>1, <2>1, <3>3, FlattensType
    <3>. QED
      BY <3>1, <3>2, <3>4
  <2>. HIDE DEF L
  <2>6. 0 \in T
    <3>1. 1 \in 1 .. L
      BY <2>2
    <3>2. f[1 + 1] = f[1] \o t[1]
      BY <2>3, <3>1
    <3>3. 0 + 2 = 1 + 1 /\ 0 + 1 = 1
      OBVIOUS
    <3>. QED
      BY <1>3, <2>4, <3>2, <3>3
  <2>7. ASSUME NEW m \in T PROVE m + 1 \in T
    <3>1. ASSUME (m + 1) + 1 \in 1 .. L PROVE f[(m + 1) + 2] = s[1] \o g[(m + 1) + 1]
      <4>. PICK i \in 1 .. L : i = (m + 1) + 1
        BY <3>1
      <4>1. i # 1 /\ i - 1 = m + 1 /\ m + 1 \in 1 .. L /\ i = m + 2 /\ i + 1 = (m + 1) + 2
        BY <2>2
      <4>2. f[i] = s[1] \o g[i - 1]
        BY <4>1
      <4>3. t[i] \in Seq(S) /\ g[i - 1] \in Seq(S) /\ g[i] = g[i - 1] \o t[i] /\ s[1] \in Seq(S)
        BY <1>1, <2>5, <4>1
      <4>4. (s[1] \o g[i - 1]) \o t[i] = s[1] \o (g[i - 1] \o t[i])
        BY <1>0, <4>3, Zenon
      <4>5. f[i + 1] = s[1] \o g[i]
        BY <2>3, <4>2, <4>3, <4>4
      <4>. QED
        BY <4>1, <4>5
    <3>2. P(m + 1)
      BY <3>1, Zenon
    <3>3. m + 1 \in Nat
      OBVIOUS
    <3>. HIDE DEF P
    <3>. QED
      BY <3>2, <3>3
  <2>8. T = Nat
    <3>. HIDE DEF T
    <3>1. T \in SUBSET Nat
      BY DEF T
    <3>. QED
      BY <2>6, <2>7, <3>1, Induct
  <2>9. f[L + 1] = s[1] \o g[L]
    <3>1. L - 1 \in Nat /\ (L - 1) + 1 = L /\ (L - 1) + 2 = L + 1 /\ L \in 1 .. L
      BY <2>2
    <3>2. L - 1 \in T
      BY <2>8, <3>1
    <3>. QED
      BY <3>1, <3>2
  <2>. QED
    BY <1>1, <1>2, <2>1, <2>2, <2>9 DEF L, t
<1>. QED
  BY <1>4, <1>5

----------------------------------------------------------------------------

(* Types.                                                                   *)

IdOf(n, len) == [k \in 1 .. len |-> <<n, TOKEN_SIZE + k>>]

(* The token is complete before the id is read, and both before they are    *)
(* registered.                                                              *)
Phases ==
    /\ pc \in {"poll_token", "read_token"} => id = <<>>
    /\ pc \in {"poll_id", "read_id", "insert"} => token # <<>>
    /\ pc = "insert" => id # <<>>

LEMMA PieceTypes ==
  ASSUME NEW n \in 1 .. MaxSignIns, NEW len \in 1 .. MaxId
  PROVE  /\ Token(n) \in Seq(Bytes) /\ Len(Token(n)) = TOKEN_SIZE
         /\ IdOf(n, len) \in Seq(Bytes) /\ Len(IdOf(n, len)) = len
<1>1. TOKEN_SIZE \in Nat /\ len \in Nat
  BY ReceiverSizes
<1>2. \A k \in 1 .. TOKEN_SIZE : <<n, k>> \in Bytes
  BY ReceiverSizes DEF Bytes
<1>3. \A k \in 1 .. len : <<n, TOKEN_SIZE + k>> \in Bytes
  BY ReceiverSizes DEF Bytes
<1>4. Token(n) \in [1 .. TOKEN_SIZE -> Bytes] /\ IdOf(n, len) \in [1 .. len -> Bytes]
  BY <1>2, <1>3 DEF Token, IdOf
<1>. QED
  BY <1>1, <1>4 DEF Token, IdOf

LEMMA IdIs ==
  ASSUME TypeOK, NEW n \in DOMAIN accounts
  PROVE  n \in 1 .. MaxSignIns /\ accounts[n] \in 1 .. MaxId /\ Id(n) = IdOf(n, accounts[n])
<1>1. accounts \in Seq(1 .. MaxId) /\ Len(accounts) <= MaxSignIns
  BY DEF TypeOK
<1>. QED
  BY <1>1, ReceiverSizes DEF Id, IdOf

(* A sequence is cut in two.                                                *)
LEMMA Parts ==
  ASSUME NEW S, NEW s \in Seq(S), NEW k \in 0 .. Len(s)
  PROVE  /\ SubSeq(s, 1, k) \in Seq(S) /\ Len(SubSeq(s, 1, k)) = k
         /\ SubSeq(s, k + 1, Len(s)) \in Seq(S) /\ Len(SubSeq(s, k + 1, Len(s))) = Len(s) - k
         /\ s = SubSeq(s, 1, k) \o SubSeq(s, k + 1, Len(s))
<1>1. Len(s) \in Nat
  BY LenProperties
<1>2. \A i \in 1 .. Len(s) : s[i] \in S
  BY ElementOfSeq
<1>3. SubSeq(s, 1, k) \in Seq(S) /\ Len(SubSeq(s, 1, k)) = k
  BY <1>1, <1>2, SubSeqProperties
<1>4. SubSeq(s, k + 1, Len(s)) \in Seq(S) /\ Len(SubSeq(s, k + 1, Len(s))) = Len(s) - k
  BY <1>1, <1>2, SubSeqProperties
<1>5. SubSeq(s, 1, k) \o SubSeq(s, k + 1, Len(s)) = SubSeq(s, 1, Len(s))
  <2>1. 1 \in 1 .. Len(s) + 1 /\ k \in 1 - 1 .. Len(s) /\ Len(s) \in k .. Len(s)
    BY <1>1
  <2>. QED
    BY <2>1, ConcatAdjacentSubSeq
<1>6. SubSeq(s, 1, Len(s)) = s
  BY SubSeqFull
<1>. QED
  BY <1>3, <1>4, <1>5, <1>6

(* An element in front of a sequence.                                       *)
LEMMA InFront ==
  ASSUME NEW S, NEW y \in S, NEW rest \in Seq(S)
  PROVE  /\ <<y>> \o rest \in Seq(S) /\ <<y>> \o rest # <<>>
         /\ Head(<<y>> \o rest) = y /\ Tail(<<y>> \o rest) = rest
<1>1. <<y>> \o rest \in Seq(S) /\ <<y>> \o rest # <<>>
  OBVIOUS
<1>2. Head(<<y>> \o rest) = y
  OBVIOUS
<1>3. Tail(<<y>> \o rest) = rest
  OBVIOUS
<1>. QED
  BY <1>1, <1>2, <1>3

(* What a step that delivers does to the sequences.                         *)
LEMMA DeliverParts ==
  ASSUME TypeOK, NEW k \in 1 .. TOKEN_SIZE + MaxId, Deliver(k)
  PROVE  \E x \in Seq(Bytes), y \in Seq(Bytes), rest \in Seq(Seq(Bytes)) :
            /\ wire # <<>> /\ wire[1] = x \o y /\ rest = Tail(wire) /\ buf' = buf \o x
            /\ \/ y = <<>> /\ x = wire[1] /\ wire' = rest /\ split' = split
               \/ wire' = <<y>> \o rest /\ split' = TRUE
<1>1. wire \in Seq(Seq(Bytes)) /\ wire # <<>> /\ k <= Len(wire[1]) /\ buf' = buf \o SubSeq(wire[1], 1, k)
  BY DEF TypeOK, Deliver
<1>2. wire[1] \in Seq(Bytes) /\ Len(wire) \in Nat /\ Len(wire) >= 1
  BY <1>1, EmptySeq, ElementOfSeq, LenProperties
<1>3. PICK w \in Seq(Bytes) : w = wire[1]
  BY <1>2
<1>4. k \in 0 .. Len(w)
  BY <1>1, <1>3, LenProperties
<1>. DEFINE x == SubSeq(w, 1, k)
            y == SubSeq(w, k + 1, Len(w))
            rest == Tail(wire)
<1>5. x \in Seq(Bytes) /\ y \in Seq(Bytes) /\ w = x \o y
  BY <1>4, Parts
<1>6. rest \in Seq(Seq(Bytes)) /\ Len(rest) = Len(wire) - 1 /\ \A i \in 1 .. Len(rest) : rest[i] = wire[i + 1]
  BY <1>1, HeadTailProperties
<1>7. CASE k = Len(wire[1])
  <2>1. x = w
    BY <1>3, <1>7, SubSeqFull
  <2>2. y = <<>>
    BY <1>3, <1>4, <1>7, SubSeqEmpty, LenProperties
  <2>3. wire' = rest /\ split' = split
    BY <1>7 DEF Deliver
  <2>. HIDE DEF x, y, rest
  <2>4. buf' = buf \o x
    BY <1>1, <1>3 DEF x
  <2>. QED
    BY <1>1, <1>3, <1>5, <1>6, <2>1, <2>2, <2>3, <2>4 DEF rest
<1>8. CASE k # Len(wire[1])
  <2>1. wire' = [wire EXCEPT ![1] = y] /\ split' = TRUE
    BY <1>3, <1>8 DEF Deliver
  <2>. HIDE DEF x, y, rest
  <2>2. <<y>> \o rest \in Seq(Seq(Bytes)) /\ Len(<<y>> \o rest) = Len(wire)
        /\ (<<y>> \o rest)[1] = y /\ \A i \in 2 .. Len(wire) : (<<y>> \o rest)[i] = wire[i]
    BY <1>2, <1>5, <1>6
  <2>3. wire' \in Seq(Seq(Bytes)) /\ Len(wire') = Len(wire) /\ wire'[1] = y
        /\ \A i \in 2 .. Len(wire) : wire'[i] = wire[i]
    BY <1>1, <1>2, <1>5, <2>1
  <2>4. \A i \in 1 .. Len(wire) : wire'[i] = (<<y>> \o rest)[i]
    BY <1>2, <2>2, <2>3
  <2>5. wire' = <<y>> \o rest
    BY <2>2, <2>3, <2>4, SeqEqual
  <2>6. buf' = buf \o x
    BY <1>1, <1>3 DEF x
  <2>7. wire # <<>> /\ wire[1] = x \o y /\ rest = Tail(wire)
    BY <1>1, <1>3, <1>5 DEF rest
  <2>8. rest \in Seq(Seq(Bytes))
    BY <1>6
  <2>. QED
    BY <1>5, <2>1, <2>5, <2>6, <2>7, <2>8, Zenon
<1>. QED
  BY <1>7, <1>8

(* What a read that finds bytes does to them.                               *)
LEMMA ReadParts ==
  ASSUME TypeOK, NEW size \in Nat, NEW read \in Seq(Bytes), Len(read) <= size,
         NEW amount, amount = Amount(size, read)
  PROVE  /\ amount \in 0 .. Len(buf) /\ Len(read) + amount <= size
         /\ SubSeq(buf, 1, amount) \in Seq(Bytes) /\ Len(SubSeq(buf, 1, amount)) = amount
         /\ Unread(amount) \in Seq(Bytes)
         /\ buf = SubSeq(buf, 1, amount) \o Unread(amount)
<1>1. Len(buf) \in Nat /\ Len(read) \in Nat /\ buf \in Seq(Bytes)
  BY LenProperties DEF TypeOK
<1>2. amount \in 0 .. Len(buf) /\ Len(read) + amount <= size
  BY <1>1 DEF Amount
<1>. QED
  BY <1>1, <1>2, Parts DEF Unread

(* The signed-in account and the two messages about it.                     *)
LEMMA SignInParts ==
  ASSUME TypeOK, NEW len \in 1 .. MaxId, SignIn(len), NEW n, n = Len(accounts) + 1
  PROVE  /\ n \in 1 .. MaxSignIns /\ accounts' = Append(accounts, len)
         /\ wire' = Append(Append(wire, Token(n)), IdOf(n, len)) /\ wire' \in Seq(Seq(Bytes))
<1>1. accounts \in Seq(1 .. MaxId) /\ wire \in Seq(Seq(Bytes)) /\ Len(accounts) < MaxSignIns
  BY DEF TypeOK, SignIn
<1>2. n \in 1 .. MaxSignIns /\ accounts' = Append(accounts, len)
  BY <1>1, ReceiverSizes, LenProperties DEF SignIn
<1>3. wire' = wire \o <<Token(n), IdOf(n, len)>>
  BY DEF SignIn, IdOf
<1>4. PICK a \in Seq(Bytes), b \in Seq(Bytes) : a = Token(n) /\ b = IdOf(n, len)
  BY <1>2, PieceTypes
<1>5. wire \o <<a, b>> = Append(Append(wire, a), b) /\ Append(Append(wire, a), b) \in Seq(Seq(Bytes))
  BY <1>1
<1>. QED
  BY <1>2, <1>3, <1>4, <1>5

LEMMA TypesStart == Init => TypeOK /\ Phases
<1>. SUFFICES ASSUME Init PROVE TypeOK /\ Phases
  OBVIOUS
<1>1. /\ <<>> \in Seq(1 .. MaxId) /\ <<>> \in Seq(Seq(Bytes)) /\ <<>> \in Seq(Bytes)
      /\ <<>> \in Seq([token : Seq(Bytes), id : Seq(Bytes)]) /\ Len(<<>>) = 0
  BY EmptySeq
<1>2. Phases
  BY DEF Init, Phases
<1>3. /\ accounts \in Seq(1 .. MaxId) /\ Len(accounts) = 0 /\ wire \in Seq(Seq(Bytes))
      /\ buf \in Seq(Bytes) /\ token \in Seq(Bytes) /\ Len(token) = 0
      /\ id \in Seq(Bytes) /\ Len(id) = 0
      /\ table \in Seq([token : Seq(Bytes), id : Seq(Bytes)])
  BY <1>1, Zenon DEF Init
<1>4. 0 <= MaxSignIns /\ 0 <= TOKEN_SIZE /\ 0 <= ID_SIZE
  BY ReceiverSizes
<1>5. open \in BOOLEAN /\ split \in BOOLEAN /\ pc = "poll_token"
  BY DEF Init
<1>. QED
  BY <1>2, <1>3, <1>4, <1>5 DEF TypeOK

LEMMA TypesKept == TypeOK /\ Phases /\ [Next]_vars => TypeOK' /\ Phases'
<1>. SUFFICES ASSUME TypeOK, Phases, [Next]_vars PROVE TypeOK' /\ Phases'
  OBVIOUS
<1>1. ASSUME NEW len \in 1 .. MaxId, SignIn(len) PROVE TypeOK' /\ Phases'
  <2>1. PICK n : n = Len(accounts) + 1
    OBVIOUS
  <2>2. n \in 1 .. MaxSignIns /\ accounts' = Append(accounts, len) /\ wire' \in Seq(Seq(Bytes))
    BY <1>1, <2>1, SignInParts
  <2>3. accounts' \in Seq(1 .. MaxId) /\ Len(accounts') <= MaxSignIns
    BY <2>1, <2>2, AppendProperties DEF TypeOK
  <2>. QED
    BY <1>1, <2>2, <2>3 DEF SignIn, TypeOK, Phases
<1>2. ASSUME NEW k \in 1 .. TOKEN_SIZE + MaxId, Deliver(k) PROVE TypeOK' /\ Phases'
  <2>1. PICK x \in Seq(Bytes), y \in Seq(Bytes), rest \in Seq(Seq(Bytes)) :
            /\ buf' = buf \o x
            /\ \/ wire' = rest /\ split' = split
               \/ wire' = <<y>> \o rest /\ split' = TRUE
    BY <1>2, DeliverParts
  <2>2. <<y>> \o rest \in Seq(Seq(Bytes)) /\ buf \o x \in Seq(Bytes)
    BY DEF TypeOK
  <2>. QED
    BY <1>2, <2>1, <2>2 DEF Deliver, TypeOK, Phases
<1>3. CASE Close
  BY <1>3 DEF Close, TypeOK, Phases
<1>4. CASE Poll("poll_token", "read_token") \/ Poll("poll_id", "read_id")
  BY <1>4 DEF Poll, TypeOK, Phases
<1>5. CASE ReadToken
  <2>1. PICK a : a = Amount(TOKEN_SIZE, token)
    OBVIOUS
  <2>2. /\ a \in 0 .. Len(buf) /\ Len(token) + a <= TOKEN_SIZE /\ token \in Seq(Bytes)
        /\ SubSeq(buf, 1, a) \in Seq(Bytes) /\ Len(SubSeq(buf, 1, a)) = a /\ Unread(a) \in Seq(Bytes)
    BY <2>1, ReceiverSizes, ReadParts DEF TypeOK
  <2>3. CASE a > 0
    <3>1. token' = token \o SubSeq(buf, 1, a) /\ buf' = Unread(a)
          /\ UNCHANGED <<pc, accounts, open, wire, split, id, table>>
      BY <1>5, <2>1, <2>3 DEF ReadToken
    <3>2. token \o SubSeq(buf, 1, a) \in Seq(Bytes)
          /\ Len(token \o SubSeq(buf, 1, a)) = Len(token) + Len(SubSeq(buf, 1, a))
      BY <2>2, ConcatProperties
    <3>3. pc = "read_token"
      BY <1>5 DEF ReadToken
    <3>4. token' \in Seq(Bytes) /\ Len(token') <= TOKEN_SIZE
      BY <2>2, <3>1, <3>2
    <3>. QED
      BY <2>2, <3>1, <3>3, <3>4 DEF TypeOK, Phases
  <2>4. CASE ~(a > 0)
    BY <1>5, <2>1, <2>4 DEF ReadToken, TypeOK, Phases
  <2>. QED
    BY <2>3, <2>4
<1>6. CASE ReadId
  <2>1. PICK a : a = Amount(ID_SIZE, id)
    OBVIOUS
  <2>2. /\ a \in 0 .. Len(buf) /\ Len(id) + a <= ID_SIZE /\ id \in Seq(Bytes)
        /\ SubSeq(buf, 1, a) \in Seq(Bytes) /\ Len(SubSeq(buf, 1, a)) = a /\ Unread(a) \in Seq(Bytes)
    BY <2>1, ReceiverSizes, ReadParts DEF TypeOK
  <2>3. CASE a > 0
    <3>1. id' = id \o SubSeq(buf, 1, a) /\ buf' = Unread(a)
          /\ UNCHANGED <<pc, accounts, open, wire, split, token, table>>
      BY <1>6, <2>1, <2>3 DEF ReadId
    <3>2. id \o SubSeq(buf, 1, a) \in Seq(Bytes)
          /\ Len(id \o SubSeq(buf, 1, a)) = Len(id) + Len(SubSeq(buf, 1, a))
      BY <2>2, ConcatProperties
    <3>3. pc = "read_id"
      BY <1>6 DEF ReadId
    <3>4. id' \in Seq(Bytes) /\ Len(id') <= ID_SIZE
      BY <2>2, <3>1, <3>2
    <3>. QED
      BY <2>2, <3>1, <3>3, <3>4 DEF TypeOK, Phases
  <2>4. CASE ~(a > 0)
    BY <1>6, <2>1, <2>4 DEF ReadId, TypeOK, Phases
  <2>. QED
    BY <2>3, <2>4
<1>7. CASE Register
  <2>1. PICK pair \in [token : Seq(Bytes), id : Seq(Bytes)] : pair = [token |-> token, id |-> id]
    BY DEF TypeOK
  <2>2. Append(table, pair) \in Seq([token : Seq(Bytes), id : Seq(Bytes)])
    BY AppendProperties DEF TypeOK
  <2>3. \A S : <<>> \in Seq(S) /\ Len(<<>>) = 0
    BY EmptySeq
  <2>4. table' \in Seq([token : Seq(Bytes), id : Seq(Bytes)])
    BY <1>7, <2>1, <2>2 DEF Register
  <2>. QED
    BY <1>7, <2>3, <2>4, ReceiverSizes DEF Register, TypeOK, Phases
<1>8. CASE UNCHANGED vars
  BY <1>8 DEF vars, TypeOK, Phases
<1>. QED
  BY <1>1, <1>2, <1>3, <1>4, <1>5, <1>6, <1>7, <1>8 DEF Next, Network, Receive

(* A token and an id fit their buffers, however the bytes arrive.           *)
THEOREM ReceiverTypes == Spec => []TypeOK
<1>1. TypeOK /\ Phases /\ [Next]_vars => (TypeOK /\ Phases)'
  BY TypesKept
<1>. QED
  BY <1>1, TypesStart, PTL DEF Spec

----------------------------------------------------------------------------

(* The stream: what is registered and what was sent, message by message.    *)

Pairs == [n \in DOMAIN table |-> table[n].token \o table[n].id]
Sent == [n \in DOMAIN accounts |-> Token(n) \o Id(n)]

(* Bytes that move from one part of the stream to the next keep their       *)
(* place in it.  The equations have names so that an instance of one is     *)
(* found by its arguments.                                                  *)
Joins(a, b, c) == (a \o b) \o c = a \o (b \o c)
MovesOn(a, b, c, d) == (a \o (b \o c)) \o d = (a \o b) \o (c \o d)
MovesIn(a, b, c, d) == a \o ((b \o c) \o d) = (a \o b) \o (c \o d)

LEMMA Joined == \A a, b, c \in Seq(Bytes) : Joins(a, b, c)
  BY DEF Joins

LEMMA Moved == \A a, b, c, d \in Seq(Bytes) : MovesOn(a, b, c, d) /\ MovesIn(a, b, c, d)
<1>. SUFFICES ASSUME NEW a \in Seq(Bytes), NEW b \in Seq(Bytes), NEW c \in Seq(Bytes),
                     NEW d \in Seq(Bytes)
              PROVE  MovesOn(a, b, c, d) /\ MovesIn(a, b, c, d)
  OBVIOUS
<1>1. PICK bc \in Seq(Bytes), cd \in Seq(Bytes) : bc = b \o c /\ cd = c \o d
  BY ConcatProperties
<1>2. Joins(a, bc, d) /\ Joins(b, c, d) /\ Joins(a, b, cd)
  BY Joined
<1>. QED
  BY <1>1, <1>2, Zenon DEF Joins, MovesOn, MovesIn

(* All parts of the stream are sequences of bytes.                          *)
LEMMA StreamTypes ==
  ASSUME TypeOK
  PROVE  /\ Pairs \in Seq(Seq(Bytes)) /\ Sent \in Seq(Seq(Bytes))
         /\ FlattenSeq(Pairs) \in Seq(Bytes) /\ FlattenSeq(Sent) \in Seq(Bytes)
         /\ FlattenSeq(wire) \in Seq(Bytes)
<1>1. \A n \in DOMAIN table : table[n].token \o table[n].id \in Seq(Bytes)
  <2>. SUFFICES ASSUME NEW n \in DOMAIN table PROVE table[n].token \o table[n].id \in Seq(Bytes)
    OBVIOUS
  <2>1. table[n] \in [token : Seq(Bytes), id : Seq(Bytes)]
    <3>1. table \in Seq([token : Seq(Bytes), id : Seq(Bytes)])
      BY DEF TypeOK
    <3>2. DOMAIN table = 1 .. Len(table)
      BY <3>1, LenProperties
    <3>. QED
      BY <3>1, <3>2, ElementOfSeq
  <2>2. PICK t \in Seq(Bytes), i \in Seq(Bytes) : t = table[n].token /\ i = table[n].id
    BY <2>1
  <2>3. t \o i \in Seq(Bytes)
    BY ConcatProperties
  <2>. QED
    BY <2>2, <2>3
<1>2. \A n \in DOMAIN accounts : Token(n) \o Id(n) \in Seq(Bytes)
  <2>. SUFFICES ASSUME NEW n \in DOMAIN accounts PROVE Token(n) \o Id(n) \in Seq(Bytes)
    OBVIOUS
  <2>1. Token(n) \in Seq(Bytes) /\ Id(n) \in Seq(Bytes)
    BY IdIs, PieceTypes
  <2>. QED
    BY <2>1, ConcatProperties
<1>3. DOMAIN table = 1 .. Len(table) /\ Len(table) \in Nat
      /\ DOMAIN accounts = 1 .. Len(accounts) /\ Len(accounts) \in Nat
  BY LenProperties DEF TypeOK
<1>4. Pairs \in [1 .. Len(table) -> Seq(Bytes)] /\ Sent \in [1 .. Len(accounts) -> Seq(Bytes)]
  BY <1>1, <1>2, <1>3 DEF Pairs, Sent
<1>5. Pairs \in Seq(Seq(Bytes)) /\ Sent \in Seq(Seq(Bytes))
  BY <1>3, <1>4
<1>6. wire \in Seq(Seq(Bytes))
  BY DEF TypeOK
<1>. QED
  BY <1>5, <1>6, FlattenType

(* A registered pair, and a sign-in, are the last.                          *)
LEMMA PairsAppend ==
  ASSUME TypeOK, Register
  PROVE  Pairs' = Append(Pairs, token \o id)
<1>1. table \in Seq([token : Seq(Bytes), id : Seq(Bytes)]) /\ token \in Seq(Bytes) /\ id \in Seq(Bytes)
  BY DEF TypeOK
<1>2. PICK pair \in [token : Seq(Bytes), id : Seq(Bytes)] : pair = [token |-> token, id |-> id]
  BY <1>1
<1>3. table' = Append(table, pair)
  BY <1>2 DEF Register
<1>4. PICK t \in Seq([token : Seq(Bytes), id : Seq(Bytes)]) : t = Append(table, pair)
  BY <1>1, AppendProperties
<1>5. Len(t) = Len(table) + 1 /\ t[Len(table) + 1] = pair /\ Len(table) \in Nat
      /\ \A i \in 1 .. Len(table) : t[i] = table[i]
  BY <1>1, <1>4, AppendProperties, LenProperties
<1>6. Pairs' = [n \in 1 .. Len(table) + 1 |-> t[n].token \o t[n].id]
  <2>1. table' = t /\ DOMAIN t = 1 .. Len(table) + 1
    BY <1>3, <1>4, <1>5
  <2>2. Pairs' = [n \in DOMAIN t |-> t[n].token \o t[n].id]
    BY <2>1, Zenon DEF Pairs
  <2>. QED
    BY <2>1, <2>2, Zenon
<1>7. Pairs = [n \in 1 .. Len(table) |-> table[n].token \o table[n].id] /\ Pairs \in Seq(Seq(Bytes))
  BY <1>1, StreamTypes DEF Pairs
<1>8. Len(Pairs) = Len(table)
  BY <1>5, <1>7
<1>9. token \o id \in Seq(Bytes)
  BY <1>1, ConcatProperties
<1>10. PICK x \in Seq(Bytes) : x = token \o id
  BY <1>9
<1>11. PICK p \in Seq(Seq(Bytes)) : p = Append(Pairs, x)
  BY <1>7, AppendProperties
<1>12. Len(p) = Len(table) + 1 /\ p[Len(table) + 1] = x /\ \A i \in 1 .. Len(table) : p[i] = Pairs[i]
  <2>1. PICK q \in Seq(Seq(Bytes)) : q = Pairs
    BY <1>7
  <2>2. p = Append(q, x) /\ Len(q) = Len(table)
    BY <1>8, <1>11, <2>1
  <2>3. Len(p) = Len(table) + 1 /\ p[Len(table) + 1] = x /\ \A i \in 1 .. Len(table) : p[i] = q[i]
    BY <2>2, AppendProperties
  <2>. QED
    BY <2>1, <2>3
<1>13. p = [n \in 1 .. Len(table) + 1 |-> p[n]]
  BY <1>5, <1>12
<1>14. \A n \in 1 .. Len(table) + 1 : p[n] = t[n].token \o t[n].id
  <2>. SUFFICES ASSUME NEW n \in 1 .. Len(table) + 1 PROVE p[n] = t[n].token \o t[n].id
    OBVIOUS
  <2>1. CASE n = Len(table) + 1
    <3>1. t[n].token = token /\ t[n].id = id
      BY <1>2, <1>5, <2>1
    <3>2. p[n] = x
      BY <1>12, <2>1
    <3>. QED
      BY <1>10, <3>1, <3>2
  <2>2. CASE n \in 1 .. Len(table)
    <3>1. t[n] = table[n] /\ p[n] = Pairs[n]
      BY <1>5, <1>12, <2>2
    <3>2. Pairs[n] = table[n].token \o table[n].id
      BY <1>7, <2>2
    <3>. QED
      BY <3>1, <3>2
  <2>3. n = Len(table) + 1 \/ n \in 1 .. Len(table)
    BY <1>5
  <2>. QED
    BY <2>1, <2>2, <2>3, Zenon
<1>. QED
  BY <1>6, <1>10, <1>11, <1>13, <1>14

LEMMA SentAppend ==
  ASSUME TypeOK, NEW len \in 1 .. MaxId, SignIn(len), NEW n, n = Len(accounts) + 1
  PROVE  Sent' = Append(Sent, Token(n) \o IdOf(n, len))
<1>1. n \in 1 .. MaxSignIns /\ accounts' = Append(accounts, len) /\ accounts \in Seq(1 .. MaxId)
  BY SignInParts DEF TypeOK
<1>2. PICK a \in Seq(1 .. MaxId) : a = Append(accounts, len)
  BY <1>1, AppendProperties
<1>3. Len(a) = n /\ a[n] = len /\ n \in Nat /\ Len(accounts) \in Nat
      /\ \A i \in 1 .. Len(accounts) : a[i] = accounts[i]
  BY <1>1, <1>2, AppendProperties, LenProperties
<1>4. Sent' = [i \in 1 .. n |-> Token(i) \o IdOf(i, a[i])]
  <2>1. accounts' = a /\ DOMAIN a = 1 .. n
    BY <1>1, <1>2, <1>3
  <2>2. Sent' = [i \in DOMAIN a |-> Token(i) \o IdOf(i, a[i])]
    BY <2>1, Zenon DEF Sent, Token, Id, IdOf
  <2>. QED
    BY <2>1, <2>2, Zenon
<1>5. Sent = [i \in 1 .. Len(accounts) |-> Token(i) \o IdOf(i, accounts[i])] /\ Sent \in Seq(Seq(Bytes))
  BY <1>1, StreamTypes DEF Sent, Id, IdOf
<1>6. Len(Sent) = Len(accounts)
  BY <1>3, <1>5
<1>7. PICK x \in Seq(Bytes) : x = Token(n) \o IdOf(n, len)
  BY <1>1, PieceTypes, ConcatProperties
<1>8. PICK p \in Seq(Seq(Bytes)) : p = Append(Sent, x)
  BY <1>5, AppendProperties
<1>9. Len(p) = n /\ p[n] = x /\ \A i \in 1 .. Len(accounts) : p[i] = Sent[i]
  BY <1>5, <1>6, <1>8, AppendProperties
<1>10. p = [i \in 1 .. n |-> p[i]]
  BY <1>3, <1>9
<1>11. \A i \in 1 .. n : p[i] = Token(i) \o IdOf(i, a[i])
  <2>. SUFFICES ASSUME NEW i \in 1 .. n PROVE p[i] = Token(i) \o IdOf(i, a[i])
    OBVIOUS
  <2>1. CASE i = n
    BY <1>3, <1>7, <1>9, <2>1
  <2>2. CASE i \in 1 .. Len(accounts)
    BY <1>3, <1>5, <1>9, <2>2
  <2>. QED
    BY <1>3, <2>1, <2>2
<1>. QED
  BY <1>4, <1>7, <1>8, <1>10, <1>11

(* The stream in its parts, and what a read does to them: x goes from the   *)
(* unread bytes to the token, when there is no id yet, or to the id.        *)
Reads(p, t, i, b, w) == (((p \o t) \o i) \o b) \o w

ReadsOn(p, t, i, x, u, w) ==
    /\ i = <<>> => Reads(p, t \o x, i, u, w) = Reads(p, t, i, x \o u, w)
    /\ Reads(p, t, i \o x, u, w) = Reads(p, t, i, x \o u, w)

LEMMA ReadMoves == \A p, t, i, x, u, w \in Seq(Bytes) : ReadsOn(p, t, i, x, u, w)
<1>. SUFFICES ASSUME NEW p \in Seq(Bytes), NEW t \in Seq(Bytes), NEW i \in Seq(Bytes),
                     NEW x \in Seq(Bytes), NEW u \in Seq(Bytes), NEW w \in Seq(Bytes)
              PROVE  ReadsOn(p, t, i, x, u, w)
  BY Zenon
<1>1. MovesOn(p, t, x, u)
  BY Moved
<1>2. PICK pt \in Seq(Bytes), px \in Seq(Bytes) : pt = p \o t /\ px = p \o (t \o x)
  BY ConcatProperties
<1>3. MovesOn(pt, i, x, u)
  BY Moved
<1>4. pt \o <<>> = pt /\ px \o <<>> = px
  BY ConcatEmptySeq
<1>. QED
  BY <1>1, <1>2, <1>3, <1>4, Zenon DEF MovesOn, ReadsOn, Reads

LEMMA StreamStart == Init => StreamKept
<1>. SUFFICES ASSUME Init PROVE StreamKept
  OBVIOUS
<1>1. Pairs = <<>> /\ Sent = <<>>
  BY DEF Init, Pairs, Sent
<1>2. <<>> \o <<>> = <<>>
  OBVIOUS
<1>3. FlattenSeq(Pairs) = <<>> /\ FlattenSeq(Sent) = <<>> /\ FlattenSeq(wire) = <<>>
      /\ token = <<>> /\ id = <<>> /\ buf = <<>>
  BY <1>1, FlattenEmpty DEF Init
<1>4. (((FlattenSeq(Pairs) \o token) \o id) \o buf) \o FlattenSeq(wire) = FlattenSeq(Sent)
  BY <1>2, <1>3, Zenon
<1>. QED
  BY <1>4, Zenon DEF StreamKept, Pairs, Sent

LEMMA StreamStep ==
  TypeOK /\ Phases /\ StreamKept /\ [Next]_vars => StreamKept'
<1>. SUFFICES ASSUME TypeOK, Phases, StreamKept, [Next]_vars PROVE StreamKept'
  OBVIOUS
<1>0. PICK p \in Seq(Bytes), w \in Seq(Bytes), t \in Seq(Bytes), i \in Seq(Bytes), b \in Seq(Bytes),
           s \in Seq(Bytes) :
             /\ p = FlattenSeq(Pairs) /\ w = FlattenSeq(wire) /\ s = FlattenSeq(Sent)
             /\ t = token /\ i = id /\ b = buf
             /\ (((p \o t) \o i) \o b) \o w = s
  BY StreamTypes, Zenon DEF TypeOK, StreamKept, Pairs, Sent
<1>. DEFINE Kept == (((FlattenSeq(Pairs) \o token) \o id) \o buf) \o FlattenSeq(wire) = FlattenSeq(Sent)
<1>. SUFFICES Kept'
  BY DEF StreamKept, Pairs, Sent
<1>a. ASSUME UNCHANGED table PROVE Pairs' = Pairs
  BY <1>a, Zenon DEF Pairs
<1>b. ASSUME UNCHANGED accounts PROVE Sent' = Sent
  BY <1>b, Zenon DEF Sent, Token, Id
<1>. HIDE DEF Kept
<1>1. ASSUME NEW len \in 1 .. MaxId, SignIn(len) PROVE Kept'
  <2>1. PICK n : n = Len(accounts) + 1
    OBVIOUS
  <2>2. n \in 1 .. MaxSignIns /\ wire' = Append(Append(wire, Token(n)), IdOf(n, len))
    BY <1>1, <2>1, SignInParts
  <2>3. PICK a \in Seq(Bytes), c \in Seq(Bytes) : a = Token(n) /\ c = IdOf(n, len)
    BY <2>2, PieceTypes
  <2>4. PICK wa \in Seq(Seq(Bytes)) : wa = Append(wire, a) /\ FlattenSeq(wa) = w \o a
    BY <1>0, AppendProperties, FlattenAppend DEF TypeOK
  <2>5. FlattenSeq(wire') = (w \o a) \o c
    BY <2>2, <2>3, <2>4, FlattenAppend
  <2>6. Sent' = Append(Sent, a \o c)
    BY <1>1, <2>1, <2>3, SentAppend
  <2>7. FlattenSeq(Sent') = s \o (a \o c)
    <3>1. PICK v \in Seq(Seq(Bytes)), ac \in Seq(Bytes) : v = Sent /\ ac = a \o c
      BY StreamTypes, ConcatProperties
    <3>2. FlattenSeq(Append(v, ac)) = FlattenSeq(v) \o ac
      BY FlattenAppend
    <3>. QED
      BY <1>0, <2>6, <3>1, <3>2, Zenon
  <2>8. PICK q \in Seq(Bytes) : q = ((p \o t) \o i) \o b
    BY ConcatProperties
  <2>9. MovesIn(q, w, a, c)
    BY Moved
  <2>10. Pairs' = Pairs /\ token' = t /\ id' = i /\ buf' = b
    BY <1>0, <1>1, <1>a DEF SignIn
  <2>. QED
    BY <1>0, <2>5, <2>7, <2>8, <2>9, <2>10, Zenon DEF Kept, MovesIn
<1>2. ASSUME NEW k \in 1 .. TOKEN_SIZE + MaxId, Deliver(k) PROVE Kept'
  <2>1. PICK x \in Seq(Bytes), y \in Seq(Bytes), rest \in Seq(Seq(Bytes)) :
            /\ wire # <<>> /\ wire[1] = x \o y /\ rest = Tail(wire) /\ buf' = buf \o x
            /\ \/ y = <<>> /\ x = wire[1] /\ wire' = rest /\ split' = split
               \/ wire' = <<y>> \o rest /\ split' = TRUE
    BY <1>2, DeliverParts
  <2>2. PICK r \in Seq(Bytes) : r = FlattenSeq(rest)
    BY FlattenType
  <2>3. w = (x \o y) \o r
    <3>1. wire \in Seq(Seq(Bytes)) /\ Head(wire) = wire[1]
      <4>1. wire \in Seq(Seq(Bytes)) /\ wire # <<>>
        BY <2>1 DEF TypeOK
      <4>. QED
        BY <4>1, HeadTailProperties
    <3>2. FlattenSeq(wire) = Head(wire) \o FlattenSeq(Tail(wire))
      BY <2>1, <3>1, FlattenHead
    <3>. QED
      BY <1>0, <2>1, <2>2, <3>1, <3>2, Zenon
  <2>4. FlattenSeq(wire') = y \o r
    <3>1. CASE wire' = rest /\ y = <<>>
      <4>1. <<>> \o r = r
        BY ConcatEmptySeq
      <4>. QED
        BY <2>2, <3>1, <4>1, Zenon
    <3>2. CASE wire' = <<y>> \o rest
      <4>1. PICK v \in Seq(Seq(Bytes)) : v = <<y>> \o rest /\ v # <<>> /\ Head(v) = y /\ Tail(v) = rest
        BY InFront
      <4>2. FlattenSeq(v) = Head(v) \o FlattenSeq(Tail(v))
        BY <4>1, FlattenHead
      <4>. QED
        BY <2>2, <3>2, <4>1, <4>2, Zenon
    <3>. QED
      BY <2>1, <3>1, <3>2, Zenon
  <2>5. PICK q \in Seq(Bytes) : q = (p \o t) \o i
    BY ConcatProperties
  <2>6. (q \o (b \o x)) \o (y \o r) = (q \o b) \o ((x \o y) \o r)
    <3>1. PICK qb \in Seq(Bytes), yr \in Seq(Bytes) : qb = q \o b /\ yr = y \o r
      BY ConcatProperties
    <3>2. MovesOn(q, b, x, yr)
      BY Moved
    <3>3. Joins(x, y, r)
      BY Joined
    <3>. QED
      BY <3>1, <3>2, <3>3, Zenon DEF MovesOn, Joins
  <2>7. Pairs' = Pairs /\ Sent' = Sent /\ token' = t /\ id' = i
    BY <1>0, <1>2, <1>a, <1>b DEF Deliver
  <2>. QED
    BY <1>0, <2>1, <2>3, <2>4, <2>5, <2>6, <2>7, Zenon DEF Kept
<1>3. CASE Close \/ Poll("poll_token", "read_token") \/ Poll("poll_id", "read_id") \/ UNCHANGED vars
  <2>1. UNCHANGED <<accounts, wire, buf, token, id, table>>
    BY <1>3 DEF Close, Poll, vars
  <2>2. Pairs' = Pairs /\ Sent' = Sent
    BY <1>a, <1>b, <2>1
  <2>. QED
    BY <1>0, <2>1, <2>2, Zenon DEF Kept
<1>4. CASE ReadToken
  <2>1. PICK a : a = Amount(TOKEN_SIZE, token)
    OBVIOUS
  <2>2. PICK x \in Seq(Bytes), u \in Seq(Bytes) : x = SubSeq(buf, 1, a) /\ u = Unread(a) /\ buf = x \o u
    BY <2>1, ReceiverSizes, ReadParts DEF TypeOK
  <2>3. Pairs' = Pairs /\ Sent' = Sent /\ wire' = wire /\ id' = i
    BY <1>0, <1>4, <1>a, <1>b DEF ReadToken
  <2>4. CASE a > 0
    <3>1. token' = t \o x /\ buf' = u
      BY <1>0, <1>4, <2>1, <2>2, <2>4 DEF ReadToken
    <3>2. i = <<>>
      BY <1>0, <1>4 DEF ReadToken, Phases
    <3>3. ReadsOn(p, t, i, x, u, w)
      BY ReadMoves
    <3>. QED
      BY <1>0, <2>2, <2>3, <3>1, <3>2, <3>3, Zenon DEF Kept, ReadsOn, Reads
  <2>5. CASE ~(a > 0)
    <3>1. token' = t /\ buf' = b
      BY <1>0, <1>4, <2>1, <2>5 DEF ReadToken
    <3>. QED
      BY <1>0, <2>3, <3>1, Zenon DEF Kept
  <2>. QED
    BY <2>4, <2>5
<1>5. CASE ReadId
  <2>1. PICK a : a = Amount(ID_SIZE, id)
    OBVIOUS
  <2>2. PICK x \in Seq(Bytes), u \in Seq(Bytes) : x = SubSeq(buf, 1, a) /\ u = Unread(a) /\ buf = x \o u
    BY <2>1, ReceiverSizes, ReadParts DEF TypeOK
  <2>3. Pairs' = Pairs /\ Sent' = Sent /\ wire' = wire /\ token' = t
    BY <1>0, <1>5, <1>a, <1>b DEF ReadId
  <2>4. CASE a > 0
    <3>1. id' = i \o x /\ buf' = u
      BY <1>0, <1>5, <2>1, <2>2, <2>4 DEF ReadId
    <3>2. ReadsOn(p, t, i, x, u, w)
      BY ReadMoves
    <3>. QED
      BY <1>0, <2>2, <2>3, <3>1, <3>2, Zenon DEF Kept, ReadsOn, Reads
  <2>5. CASE ~(a > 0)
    <3>1. id' = i /\ buf' = b
      BY <1>0, <1>5, <2>1, <2>5 DEF ReadId
    <3>. QED
      BY <1>0, <2>3, <3>1, Zenon DEF Kept
  <2>. QED
    BY <2>4, <2>5
<1>6. CASE Register
  <2>1. Pairs' = Append(Pairs, t \o i)
    BY <1>0, <1>6, PairsAppend
  <2>2. PICK ti \in Seq(Bytes) : ti = t \o i
    BY ConcatProperties
  <2>3. FlattenSeq(Pairs') = p \o ti
    BY <1>0, <2>1, <2>2, StreamTypes, FlattenAppend
  <2>4. p \o ti = (p \o t) \o i
    <3>1. Joins(p, t, i)
      BY Joined
    <3>. QED
      BY <2>2, <3>1, Zenon DEF Joins
  <2>5. PICK q \in Seq(Bytes) : q = p \o ti
    BY ConcatProperties
  <2>6. (q \o <<>>) \o <<>> = q
    BY ConcatEmptySeq
  <2>7. Sent' = Sent /\ token' = <<>> /\ id' = <<>> /\ buf' = b /\ wire' = wire
    BY <1>0, <1>6, <1>b DEF Register
  <2>. QED
    BY <1>0, <2>3, <2>4, <2>5, <2>6, <2>7, Zenon DEF Kept
<1>. QED
  BY <1>1, <1>2, <1>3, <1>4, <1>5, <1>6 DEF Next, Network, Receive

(* However the bytes arrive, the receiver loses, doubles and reorders none: *)
(* the registered pairs, the buffers and what is unread are the stream.     *)
THEOREM StreamIsKept == Spec => []StreamKept
<1>1. TypeOK /\ Phases /\ StreamKept /\ [Next]_vars => (TypeOK /\ Phases /\ StreamKept)'
  BY TypesKept, StreamStep
<1>. QED
  BY <1>1, TypesStart, StreamStart, PTL DEF Spec

----------------------------------------------------------------------------

(* The pairs.  Between two messages is where the receiver stays while all   *)
(* is regular: what has arrived and is unread are whole messages then.      *)

(* Nothing was split, and no id was short that the receiver has begun.      *)
Regular ==
    /\ ~split
    /\ \A k \in DOMAIN accounts : k <= Len(table) + 1 => accounts[k] = ID_SIZE

(* x is the m-th message: the tokens are the odd ones, the ids the even.    *)
Message(x, m) ==
    \A k \in DOMAIN accounts : /\ m = 2 * k - 1 => x = Token(k)
                               /\ m = 2 * k => x = Id(k)

(* How many messages are in the buffers or registered.                      *)
Taken == 2 * Len(table) + (IF token = <<>> THEN 0 ELSE IF id = <<>> THEN 1 ELSE 2)

(* What has arrived are the messages of q and what has not are the ones     *)
(* after them.                                                              *)
Queued(q) ==
    /\ buf = FlattenSeq(q)
    /\ Taken + Len(q) + Len(wire) = 2 * Len(accounts)
    /\ \A j \in 1 .. Len(q) : Message(q[j], Taken + j)
    /\ \A j \in 1 .. Len(wire) : Message(wire[j], Taken + Len(q) + j)

(* The receiver stands between two messages.                                *)
Between ==
    /\ token # <<>> => token = Token(Len(table) + 1)
    /\ id # <<>> => token # <<>> /\ id = Id(Len(table) + 1)
    /\ \E q \in Seq(Seq(Bytes)) : Queued(q)

InStep == Regular => Between

PairsSoFar ==
    ~split => \A n \in DOMAIN table :
                 n <= Len(accounts) /\ (\A k \in 1 .. n : accounts[k] = ID_SIZE)
                    => table[n] = [token |-> Token(n), id |-> Id(n)]

PairInv == TypeOK /\ Phases /\ InStep /\ PairsSoFar

(* Lengths and counts are naturals.                                         *)
LEMMA Numbers ==
  ASSUME TypeOK
  PROVE  /\ Len(table) \in Nat /\ DOMAIN table = 1 .. Len(table)
         /\ Len(accounts) \in Nat /\ DOMAIN accounts = 1 .. Len(accounts)
         /\ Len(wire) \in Nat /\ Taken \in 2 * Len(table) .. 2 * Len(table) + 2
<1>1. Len(table) \in Nat /\ DOMAIN table = 1 .. Len(table)
  BY LenProperties DEF TypeOK
<1>2. Len(accounts) \in Nat /\ DOMAIN accounts = 1 .. Len(accounts)
  BY LenProperties DEF TypeOK
<1>3. Len(wire) \in Nat
  BY LenProperties DEF TypeOK
<1>. QED
  BY <1>1, <1>2, <1>3 DEF Taken

(* As long as all is regular no more is registered than was signed in.      *)
LEMMA NotAhead ==
  ASSUME TypeOK, Regular, Between
  PROVE  Taken <= 2 * Len(accounts) /\ Len(table) <= Len(accounts)
<1>1. PICK q \in Seq(Seq(Bytes)) : Taken + Len(q) + Len(wire) = 2 * Len(accounts)
  BY DEF Between, Queued
<1>2. Len(q) \in Nat
  BY LenProperties
<1>. QED
  BY <1>1, <1>2, Numbers

(* The next message, when something has arrived.                            *)
LEMMA NextMessage ==
  ASSUME TypeOK, NEW q \in Seq(Seq(Bytes)), Queued(q), buf # <<>>
  PROVE  \E x \in Seq(Bytes), rest \in Seq(Seq(Bytes)) :
            /\ buf = x \o FlattenSeq(rest) /\ Message(x, Taken + 1) /\ Taken + 1 <= 2 * Len(accounts)
            /\ Len(q) = Len(rest) + 1
            /\ \A j \in 1 .. Len(rest) : Message(rest[j], (Taken + 1) + j)
<1>1. q # <<>>
  BY FlattenEmpty DEF Queued
<1>2. /\ Tail(q) \in Seq(Seq(Bytes)) /\ Len(Tail(q)) = Len(q) - 1 /\ Len(q) \in Nat /\ Len(q) >= 1
      /\ Head(q) = q[1] /\ q[1] \in Seq(Bytes) /\ \A j \in 1 .. Len(Tail(q)) : Tail(q)[j] = q[j + 1]
  BY <1>1, EmptySeq, HeadTailProperties, LenProperties
<1>3. PICK rest \in Seq(Seq(Bytes)), x \in Seq(Bytes) : rest = Tail(q) /\ x = q[1]
  BY <1>2
<1>4. buf = x \o FlattenSeq(rest)
  BY <1>1, <1>2, <1>3, FlattenHead DEF Queued
<1>5. Message(x, Taken + 1)
  BY <1>2, <1>3 DEF Queued
<1>6. Taken + 1 <= 2 * Len(accounts)
  BY <1>2, Numbers DEF Queued
<1>7. ASSUME NEW j \in 1 .. Len(rest) PROVE Message(rest[j], (Taken + 1) + j)
  <2>1. j + 1 \in 1 .. Len(q) /\ rest[j] = q[j + 1] /\ Taken + (j + 1) = (Taken + 1) + j
    BY <1>2, <1>3, Numbers
  <2>2. Message(q[j + 1], Taken + (j + 1))
    BY <2>1 DEF Queued
  <2>. QED
    BY <2>1, <2>2
<1>8. Len(q) = Len(rest) + 1
  BY <1>2, <1>3
<1>. QED
  BY <1>4, <1>5, <1>6, <1>7, <1>8

(* What is in the two parts of a sequence.                                  *)
LEMMA PartsHold ==
  ASSUME NEW S, NEW z \in Seq(S), NEW m \in Nat, NEW n \in Nat, NEW l \in Nat, l = m + n, l = Len(z)
  PROVE  /\ SubSeq(z, 1, m) \in Seq(S) /\ Len(SubSeq(z, 1, m)) = m
         /\ \A i \in 1 .. m : SubSeq(z, 1, m)[i] = z[i]
         /\ SubSeq(z, m + 1, l) \in Seq(S) /\ Len(SubSeq(z, m + 1, l)) = n
         /\ \A i \in 1 .. n : SubSeq(z, m + 1, l)[i] = z[m + i]
<1>1. \A i \in 1 .. l : z[i] \in S
  BY ElementOfSeq
<1>2. /\ SubSeq(z, 1, m) \in Seq(S) /\ Len(SubSeq(z, 1, m)) = m
      /\ \A i \in 1 .. m : SubSeq(z, 1, m)[i] = z[i]
  BY <1>1, SubSeqProperties
<1>3. PICK k \in Nat : k = m + 1
  OBVIOUS
<1>4. /\ SubSeq(z, k, l) \in Seq(S)
      /\ Len(SubSeq(z, k, l)) = IF k <= l THEN l - k + 1 ELSE 0
      /\ \A i \in 1 .. l - k + 1 : SubSeq(z, k, l)[i] = z[k + i - 1]
  <2>1. k \in Int /\ l \in Int /\ \A i \in k .. l : z[i] \in S
    BY <1>1, <1>3
  <2>. QED
    BY <2>1, SubSeqProperties
<1>5. (IF k <= l THEN l - k + 1 ELSE 0) = n /\ l - k + 1 = n /\ \A i \in 1 .. n : k + i - 1 = m + i
  BY <1>3
<1>. QED
  BY <1>2, <1>3, <1>4, <1>5

(* A message in front of others is cut off.                                 *)
LEMMA CutOff ==
  ASSUME NEW S, NEW x \in Seq(S), NEW y \in Seq(S), NEW z, z = x \o y
  PROVE  /\ Len(z) = Len(x) + Len(y) /\ Len(x) \in Nat /\ Len(y) \in Nat
         /\ SubSeq(z, 1, Len(x)) = x /\ SubSeq(z, Len(x) + 1, Len(z)) = y
<1>1. /\ z \in Seq(S) /\ Len(z) = Len(x) + Len(y) /\ Len(x) \in Nat /\ Len(y) \in Nat
      /\ (\A i \in 1 .. Len(x) : z[i] = x[i]) /\ \A i \in 1 .. Len(y) : z[Len(x) + i] = y[i]
  BY ConcatProperties, LenProperties
<1>2. PICK m \in Nat, n \in Nat, l \in Nat : m = Len(x) /\ n = Len(y) /\ l = Len(z) /\ l = m + n
  BY <1>1
<1>3. /\ SubSeq(z, 1, m) \in Seq(S) /\ Len(SubSeq(z, 1, m)) = m
      /\ \A i \in 1 .. m : SubSeq(z, 1, m)[i] = z[i]
      /\ SubSeq(z, m + 1, l) \in Seq(S) /\ Len(SubSeq(z, m + 1, l)) = n
      /\ \A i \in 1 .. n : SubSeq(z, m + 1, l)[i] = z[m + i]
  BY <1>1, <1>2, PartsHold
<1>4. SubSeq(z, 1, m) = x
  BY <1>1, <1>2, <1>3, SeqEqual
<1>5. SubSeq(z, m + 1, l) = y
  <2>1. PICK b \in Seq(S) : b = SubSeq(z, m + 1, l)
    BY <1>3
  <2>2. Len(b) = Len(y)
    BY <1>2, <1>3, <2>1, Zenon
  <2>3. \A i \in 1 .. Len(b) : b[i] = y[i]
    <3>1. \A i \in 1 .. n : b[i] = z[m + i]
      BY <1>3, <2>1, Zenon
    <3>2. \A i \in 1 .. n : z[m + i] = y[i]
      BY <1>1, <1>2, Zenon
    <3>. QED
      BY <1>2, <2>2, <3>1, <3>2, Zenon
  <2>4. b = y
    BY <2>2, <2>3, SeqEqual
  <2>. QED
    BY <2>1, <2>4
<1>. QED
  BY <1>1, <1>2, <1>4, <1>5, Zenon

(* A read at a message of the size asked for reads this message.            *)
LEMMA ReadsMessage ==
  ASSUME TypeOK, NEW x \in Seq(Bytes), NEW y \in Seq(Bytes), buf = x \o y,
         NEW read, read = <<>>, NEW a, a = Amount(Len(x), read)
  PROVE  a = Len(x) /\ SubSeq(buf, 1, a) = x /\ Unread(a) = y
<1>1. PICK z \in Seq(Bytes) : z = buf
  BY DEF TypeOK
<1>2. /\ Len(z) = Len(x) + Len(y) /\ Len(x) \in Nat /\ Len(y) \in Nat
      /\ SubSeq(z, 1, Len(x)) = x /\ SubSeq(z, Len(x) + 1, Len(z)) = y
  BY <1>1, CutOff
<1>3. Len(read) = 0
  OBVIOUS
<1>4. a = Len(x)
  <2>1. a = IF Len(z) < Len(x) - Len(read) THEN Len(z) ELSE Len(x) - Len(read)
    BY <1>1, Zenon DEF Amount
  <2>. QED
    BY <1>2, <1>3, <2>1
<1>. QED
  BY <1>1, <1>2, <1>4 DEF Unread

LEMMA PairsStart == Init => InStep /\ PairsSoFar
<1>. SUFFICES ASSUME Init PROVE InStep /\ PairsSoFar
  OBVIOUS
<1>1. Len(<<>>) = 0 /\ <<>> \in Seq(Seq(Bytes))
  OBVIOUS
<1>2. Len(table) = 0 /\ Len(accounts) = 0 /\ Len(wire) = 0 /\ DOMAIN table = {} /\ token = <<>>
      /\ id = <<>> /\ buf = <<>>
  BY DEF Init
<1>3. Taken = 0
  BY <1>2 DEF Taken
<1>4. Queued(<<>>)
  BY <1>1, <1>2, <1>3, FlattenEmpty DEF Queued
<1>. QED
  BY <1>1, <1>2, <1>4 DEF InStep, Between, PairsSoFar

(* Messages and the count of them keep when the sign-ins do.                *)
LEMMA Unchanged ==
  ASSUME UNCHANGED accounts
  PROVE  /\ \A n : Token(n)' = Token(n) /\ Id(n)' = Id(n)
         /\ \A x, m : Message(x, m)' = Message(x, m)
  BY DEF Token, Id, Message

(* Where the messages of the n-th sign-in stand behind t taken, q queued    *)
(* and w sent ones.                                                         *)
Counted(t, q, w, n) ==
    /\ \A j \in 1 .. q : t + j \in 1 .. 2 * (n - 1)
    /\ \A j \in 1 .. w : t + q + j \in 1 .. 2 * (n - 1)
    /\ \A j \in 1 .. w + 2 : j \in 1 .. w \/ j = w + 1 \/ j = w + 2
    /\ t + q + (w + 1) = 2 * n - 1 /\ t + q + (w + 2) = 2 * n

LEMMA Counts == \A t, q, w, n \in Nat : t + q + w = 2 * (n - 1) => Counted(t, q, w, n)
  BY DEF Counted

(* The next two messages are sent.                                          *)
LEMMA PairsSignIn ==
  ASSUME TypeOK, InStep, PairsSoFar, NEW len \in 1 .. MaxId, SignIn(len)
  PROVE  InStep' /\ PairsSoFar'
<1>1. PICK n : n = Len(accounts) + 1
  OBVIOUS
<1>2. n \in 1 .. MaxSignIns /\ accounts' = Append(accounts, len)
      /\ wire' = Append(Append(wire, Token(n)), IdOf(n, len))
  BY <1>1, SignInParts
<1>3. accounts \in Seq(1 .. MaxId) /\ len \in 1 .. MaxId
  BY DEF TypeOK
<1>4. Len(accounts') = n /\ accounts'[n] = len /\ DOMAIN accounts' = 1 .. n
      /\ \A k \in DOMAIN accounts : accounts'[k] = accounts[k]
  BY <1>1, <1>2, <1>3, AppendProperties
<1>5. UNCHANGED <<buf, split, token, id, table>>
  BY DEF SignIn
<1>6. n \in Nat /\ DOMAIN accounts = 1 .. Len(accounts) /\ Len(accounts) \in Nat /\ n = Len(accounts) + 1
      /\ Len(table) \in Nat /\ DOMAIN table = 1 .. Len(table)
  BY <1>1, Numbers
<1>7. (\A k \in DOMAIN accounts : Id(k)' = Id(k)) /\ Id(n)' = IdOf(n, len)
  BY <1>4, <1>6 DEF Id, IdOf
<1>8. \A k : Token(k)' = Token(k)
  BY DEF Token
<1>9. Regular' => Regular
  BY <1>4, <1>5, <1>6 DEF Regular
<1>10. ASSUME NEW x, NEW m \in 1 .. 2 * Len(accounts), Message(x, m) PROVE Message(x, m)'
  <2>. SUFFICES ASSUME NEW k \in 1 .. n
                PROVE  /\ m = 2 * k - 1 => x = Token(k)
                       /\ m = 2 * k => x = Id(k)'
    BY <1>4, <1>8, Zenon DEF Message
  <2>1. CASE k = n
    BY <1>6, <2>1
  <2>2. CASE k \in DOMAIN accounts
    BY <1>7, <1>10, <2>2 DEF Message
  <2>. QED
    BY <1>6, <2>1, <2>2
<1>11. Message(Token(n), 2 * n - 1)' /\ Message(IdOf(n, len), 2 * n)'
  <2>1. ASSUME NEW k \in 1 .. n PROVE /\ 2 * n - 1 = 2 * k - 1 => Token(n) = Token(k)
                                      /\ 2 * n - 1 # 2 * k
                                      /\ 2 * n # 2 * k - 1
                                      /\ 2 * n = 2 * k => IdOf(n, len) = Id(k)'
    <3>1. 2 * n - 1 # 2 * k /\ 2 * n # 2 * k - 1
      BY <1>6
    <3>2. ASSUME 2 * n = 2 * k \/ 2 * n - 1 = 2 * k - 1 PROVE n = k
      BY <1>6, <3>2
    <3>. QED
      BY <1>7, <3>1, <3>2
  <2>. QED
    BY <1>4, <1>8, <2>1, Zenon DEF Message
<1>12. InStep'
  <2>. SUFFICES ASSUME Regular' PROVE Between'
    BY DEF InStep
  <2>1. Regular /\ Between
    BY <1>9 DEF InStep
  <2>2. Taken <= 2 * Len(accounts) /\ Len(table) <= Len(accounts)
    BY <2>1, NotAhead
  <2>3. ASSUME id # <<>> PROVE id = Id(Len(table) + 1)'
    <3>1. token # <<>> /\ id = Id(Len(table) + 1)
      BY <2>1, <2>3 DEF Between
    <3>2. Taken = 2 * Len(table) + 2
      BY <2>3, <3>1 DEF Taken
    <3>3. PICK i \in DOMAIN accounts : i = Len(table) + 1 /\ i = Len(table)' + 1
      BY <1>5, <1>6, <2>2, <3>2
    <3>4. Id(i)' = Id(i) /\ id = Id(i)
      BY <1>7, <3>1, <3>3
    <3>. QED
      BY <3>3, <3>4
  <2>4. PICK q \in Seq(Seq(Bytes)) : Queued(q)
    BY <2>1 DEF Between
  <2>5. PICK w \in Seq(Seq(Bytes)), a \in Seq(Bytes), b \in Seq(Bytes) :
           w = wire /\ a = Token(n) /\ b = IdOf(n, len)
    BY <1>2, PieceTypes DEF TypeOK
  <2>6. PICK v \in Seq(Seq(Bytes)) : v = Append(w, a)
    BY AppendProperties
  <2>7. Len(v) = Len(w) + 1 /\ v[Len(w) + 1] = a /\ Len(w) \in Nat
        /\ \A j \in 1 .. Len(w) : v[j] = w[j]
    BY <2>6, AppendProperties, LenProperties
  <2>8. PICK u \in Seq(Seq(Bytes)) : u = Append(v, b)
    BY AppendProperties
  <2>9. Len(u) = Len(v) + 1 /\ u[Len(v) + 1] = b /\ \A j \in 1 .. Len(v) : u[j] = v[j]
    BY <2>8, AppendProperties
  <2>10. wire' = u /\ Len(wire') = Len(w) + 2 /\ u[Len(w) + 1] = a /\ u[Len(w) + 2] = b
         /\ \A j \in 1 .. Len(w) : u[j] = w[j]
    BY <1>2, <2>5, <2>6, <2>7, <2>8, <2>9
  <2>11. Taken' = Taken /\ Taken \in Nat /\ Len(q) \in Nat /\ Taken + Len(q) + Len(w) = 2 * Len(accounts)
    BY <1>5, <2>4, <2>5, Numbers, LenProperties DEF Taken, Queued
  <2>. PICK t \in Nat, lq \in Nat, lw \in Nat, N \in Nat :
          t = Taken /\ lq = Len(q) /\ lw = Len(w) /\ N = Len(accounts)
    BY <1>6, <2>7, <2>11
  <2>c. /\ \A j \in 1 .. lq : t + j \in 1 .. 2 * N
        /\ \A j \in 1 .. lw : t + lq + j \in 1 .. 2 * N
        /\ \A j \in 1 .. lw + 2 : j \in 1 .. lw \/ j = lw + 1 \/ j = lw + 2
        /\ t + lq + (lw + 1) = 2 * n - 1 /\ t + lq + (lw + 2) = 2 * n
    <3>1. t + lq + lw = 2 * N /\ n \in Nat /\ n - 1 = N
      BY <1>6, <2>11
    <3>2. Counted(t, lq, lw, n)
      BY <3>1, Counts
    <3>. QED
      BY <3>1, <3>2, Zenon DEF Counted
  <2>12. ASSUME NEW j \in 1 .. lq PROVE Message(q[j], t + j)'
    <3>1. t + j \in 1 .. 2 * N
      BY <2>c
    <3>2. Message(q[j], t + j)
      BY <2>4 DEF Queued
    <3>. QED
      BY <1>10, <3>1, <3>2
  <2>13. ASSUME NEW j \in 1 .. lw + 2 PROVE Message(u[j], t + lq + j)'
    <3>1. CASE j \in 1 .. lw
      <4>1. t + lq + j \in 1 .. 2 * N
        BY <2>c, <3>1
      <4>2. Message(w[j], t + lq + j) /\ u[j] = w[j]
        BY <2>4, <2>5, <2>10, <3>1 DEF Queued
      <4>. QED
        BY <1>10, <4>1, <4>2
    <3>2. CASE j = lw + 1
      <4>1. u[j] = Token(n)
        BY <2>5, <2>10, <3>2
      <4>2. t + lq + j = 2 * n - 1
        BY <2>c, <3>2, Zenon
      <4>. QED
        BY <1>11, <4>1, <4>2
    <3>3. CASE j = lw + 2
      <4>1. u[j] = IdOf(n, len)
        BY <2>5, <2>10, <3>3
      <4>2. t + lq + j = 2 * n
        BY <2>c, <3>3, Zenon
      <4>. QED
        BY <1>11, <4>1, <4>2
    <3>. QED
      BY <2>c, <3>1, <3>2, <3>3, Zenon
  <2>14. Queued(q)'
    <3>1. buf' = FlattenSeq(q)
      BY <1>5, <2>4 DEF Queued
    <3>2. Len(wire') = lw + 2 /\ Len(accounts') = n /\ Taken' = t
      BY <1>4, <2>10, <2>11
    <3>. QED
      BY <2>10, <2>12, <2>13, <2>c, <3>1, <3>2 DEF Queued
  <2>15. token # <<>> => token = Token(Len(table) + 1)
    BY <2>1 DEF Between
  <2>16. id # <<>> => token # <<>>
    BY <2>1 DEF Between
  <2>. QED
    BY <1>5, <1>8, <2>3, <2>14, <2>15, <2>16 DEF Between
<1>13. PairsSoFar'
  <2>. SUFFICES ASSUME ~split, NEW i \in DOMAIN table, i <= n, \A k \in 1 .. i : accounts'[k] = ID_SIZE
                PROVE  table[i] = [token |-> Token(i), id |-> Id(i)']
    BY <1>4, <1>5, <1>8 DEF PairsSoFar
  <2>1. i <= Len(accounts)
    <3>. SUFFICES ASSUME i = n PROVE FALSE
      BY <1>6
    <3>1. Regular
      BY <1>4, <1>6 DEF Regular
    <3>2. Len(table) <= Len(accounts)
      BY <3>1, NotAhead DEF InStep
    <3>. QED
      BY <1>6, <3>2
  <2>2. i \in DOMAIN accounts /\ \A k \in 1 .. i : accounts[k] = ID_SIZE
    BY <1>4, <1>6, <2>1
  <2>3. table[i] = [token |-> Token(i), id |-> Id(i)]
    BY <2>1, <2>2 DEF PairsSoFar
  <2>. QED
    BY <1>7, <2>2, <2>3
<1>. QED
  BY <1>12, <1>13

(* A step that leaves the sign-ins and the table alone leaves what is asked *)
(* of the pairs alone.                                                      *)
LEMMA Stay ==
  ASSUME TypeOK, UNCHANGED <<accounts, table>>
  PROVE  /\ UNCHANGED split => Regular' = Regular
         /\ Regular' /\ (split => split') => Regular
         /\ PairsSoFar /\ (split => split') => PairsSoFar'
         /\ Between' = (/\ token' # <<>> => token' = Token(Len(table) + 1)
                        /\ id' # <<>> => token' # <<>> /\ id' = Id(Len(table) + 1)
                        /\ \E q \in Seq(Seq(Bytes)) : Queued(q)')
<1>1. \A n : Token(n)' = Token(n) /\ Id(n)' = Id(n)
  BY Unchanged
<1>2. (UNCHANGED split => Regular' = Regular) /\ (Regular' /\ (split => split') => Regular)
  BY DEF Regular
<1>3. PairsSoFar /\ (split => split') => PairsSoFar'
  BY <1>1 DEF PairsSoFar
<1>4. Between' = (/\ token' # <<>> => token' = Token(Len(table) + 1)
                  /\ id' # <<>> => token' # <<>> /\ id' = Id(Len(table) + 1)
                  /\ \E q \in Seq(Seq(Bytes)) : Queued(q)')
  BY <1>1, Zenon DEF Between
<1>. QED
  BY <1>2, <1>3, <1>4

(* The first message on the wire arrives.                                   *)
LEMMA PairsDeliver ==
  ASSUME TypeOK, InStep, PairsSoFar, NEW k \in 1 .. TOKEN_SIZE + MaxId, Deliver(k)
  PROVE  InStep' /\ PairsSoFar'
<1>1. PICK x \in Seq(Bytes), y \in Seq(Bytes), rest \in Seq(Seq(Bytes)) :
          /\ wire # <<>> /\ wire[1] = x \o y /\ rest = Tail(wire) /\ buf' = buf \o x
          /\ \/ y = <<>> /\ x = wire[1] /\ wire' = rest /\ split' = split
             \/ wire' = <<y>> \o rest /\ split' = TRUE
  BY DeliverParts
<1>2. UNCHANGED <<accounts, table, token, id>> /\ (split => split')
  BY <1>1 DEF Deliver
<1>3. PairsSoFar'
  BY <1>2, Stay
<1>4. InStep'
  <2>. SUFFICES ASSUME Regular' PROVE Between'
    BY DEF InStep
  <2>1. Regular /\ Between /\ ~split'
    BY <1>2, Stay DEF InStep, Regular
  <2>2. x = wire[1] /\ wire' = rest
    BY <1>1, <2>1
  <2>3. PICK q \in Seq(Seq(Bytes)) : Queued(q)
    BY <2>1 DEF Between
  <2>4. PICK p \in Seq(Seq(Bytes)) : p = Append(q, x)
    BY AppendProperties
  <2>5. /\ Len(p) = Len(q) + 1 /\ p[Len(q) + 1] = x /\ Len(q) \in Nat
        /\ \A j \in 1 .. Len(q) : p[j] = q[j]
    BY <2>4, AppendProperties, LenProperties
  <2>6. /\ Len(wire) \in Nat /\ Len(wire) >= 1 /\ Len(rest) = Len(wire) - 1
        /\ \A j \in 1 .. Len(rest) : rest[j] = wire[j + 1]
    <3>1. wire \in Seq(Seq(Bytes)) /\ wire # <<>> /\ rest = Tail(wire)
      BY <1>1 DEF TypeOK
    <3>. QED
      BY <3>1, EmptySeq, LenProperties, HeadTailProperties
  <2>7. Taken' = Taken /\ Taken \in Nat /\ Taken + Len(q) + Len(wire) = 2 * Len(accounts)
    BY <1>2, <2>3, Numbers DEF Taken, Queued
  <2>8. \A z, m : Message(z, m)' = Message(z, m)
    BY <1>2, Unchanged
  <2>9. FlattenSeq(p) = buf'
    <3>1. FlattenSeq(p) = FlattenSeq(q) \o x
      BY <2>4, FlattenAppend
    <3>. QED
      BY <1>1, <2>3, <3>1, Zenon DEF Queued
  <2>10. ASSUME NEW j \in 1 .. Len(p) PROVE Message(p[j], Taken + j)
    <3>1. CASE j \in 1 .. Len(q)
      <4>1. p[j] = q[j]
        BY <2>5, <3>1
      <4>. QED
        BY <2>3, <3>1, <4>1 DEF Queued
    <3>2. CASE j = Len(q) + 1
      <4>1. 1 \in 1 .. Len(wire) /\ Taken + Len(q) + 1 = Taken + j
        BY <2>5, <2>6, <2>7, <3>2
      <4>2. Message(wire[1], Taken + Len(q) + 1)
        BY <2>3, <4>1 DEF Queued
      <4>. QED
        BY <2>2, <2>5, <3>2, <4>1, <4>2
    <3>3. j \in 1 .. Len(q) \/ j = Len(q) + 1
      BY <2>5
    <3>. QED
      BY <3>1, <3>2, <3>3
  <2>11. ASSUME NEW j \in 1 .. Len(rest) PROVE Message(rest[j], Taken + Len(p) + j)
    <3>1. j + 1 \in 1 .. Len(wire) /\ Taken + Len(q) + (j + 1) = Taken + Len(p) + j
      BY <2>5, <2>6, <2>7
    <3>2. Message(wire[j + 1], Taken + Len(q) + (j + 1))
      BY <2>3, <3>1 DEF Queued
    <3>. QED
      BY <2>6, <3>1, <3>2
  <2>12. Taken + Len(p) + Len(rest) = 2 * Len(accounts)
    <3>1. \A a, b, c \in Nat : a + (b + 1) + (c - 1) = a + b + c
      OBVIOUS
    <3>2. Taken + (Len(q) + 1) + (Len(wire) - 1) = Taken + Len(q) + Len(wire)
      BY <2>5, <2>6, <2>7, <3>1, Zenon
    <3>. QED
      BY <2>5, <2>6, <2>7, <3>2, Zenon
  <2>13. Queued(p)'
    BY <1>2, <2>2, <2>7, <2>8, <2>9, <2>10, <2>11, <2>12 DEF Queued
  <2>14. /\ token # <<>> => token = Token(Len(table) + 1)
         /\ id # <<>> => token # <<>> /\ id = Id(Len(table) + 1)
    BY <2>1 DEF Between
  <2>. QED
    BY <1>2, <2>13, <2>14, Stay
<1>. QED
  BY <1>3, <1>4

(* The same messages wait before and after.                                 *)
LEMMA SameQueue ==
  ASSUME UNCHANGED <<accounts, table, token, id, buf, wire>>, NEW q, Queued(q)
  PROVE  Queued(q)'
<1>1. Taken' = Taken /\ \A z, m : Message(z, m)' = Message(z, m)
  BY Unchanged DEF Taken
<1>. QED
  BY <1>1 DEF Queued

LEMMA PairsStay ==
  ASSUME TypeOK, InStep, PairsSoFar, UNCHANGED <<accounts, table, token, id, buf, wire, split>>
  PROVE  InStep' /\ PairsSoFar'
<1>1. PairsSoFar'
  BY Stay
<1>2. InStep'
  <2>. SUFFICES ASSUME Regular' PROVE Between'
    BY DEF InStep
  <2>1. Between
    BY Stay DEF InStep
  <2>2. \E q \in Seq(Seq(Bytes)) : Queued(q)'
    BY <2>1, SameQueue DEF Between
  <2>. QED
    BY <2>1, <2>2, Stay DEF Between
<1>. QED
  BY <1>1, <1>2

(* A message read is the next one.                                          *)
LEMMA Advance ==
  ASSUME TypeOK, UNCHANGED <<accounts, table, wire>>,
         NEW q \in Seq(Seq(Bytes)), Queued(q),
         NEW rest \in Seq(Seq(Bytes)), Len(q) = Len(rest) + 1,
         \A j \in 1 .. Len(rest) : Message(rest[j], (Taken + 1) + j),
         buf' = FlattenSeq(rest), Taken' = Taken + 1
  PROVE  Queued(rest)'
<1>1. \A z, m : Message(z, m)' = Message(z, m)
  BY Unchanged
<1>2. Len(rest) \in Nat /\ Len(wire) \in Nat /\ Taken \in Nat
  BY LenProperties, Numbers
<1>3. Taken + Len(q) + Len(wire) = 2 * Len(accounts)
  BY DEF Queued
<1>4. \A c \in Nat : Taken + Len(q) + c = (Taken + 1) + Len(rest) + c
  <2>1. ASSUME NEW a \in Nat, NEW b \in Nat, NEW c \in Nat PROVE a + (b + 1) + c = (a + 1) + b + c
    OBVIOUS
  <2>2. ASSUME NEW c \in Nat PROVE Taken + (Len(rest) + 1) + c = (Taken + 1) + Len(rest) + c
    BY <1>2, <2>1
  <2>3. ASSUME NEW c \in Nat PROVE Taken + Len(q) + c = (Taken + 1) + Len(rest) + c
    <3>1. Len(q) = Len(rest) + 1
      OBVIOUS
    <3>. QED
      BY <2>2, <3>1, Zenon
  <2>. QED
    BY <2>3
<1>5. (Taken + 1) + Len(rest) + Len(wire) = 2 * Len(accounts)
  BY <1>2, <1>3, <1>4
<1>6. ASSUME NEW j \in 1 .. Len(wire) PROVE Message(wire[j], (Taken + 1) + Len(rest) + j)
  <2>1. Message(wire[j], Taken + Len(q) + j)
    BY DEF Queued
  <2>2. Taken + Len(q) + j = (Taken + 1) + Len(rest) + j
    BY <1>4
  <2>. QED
    BY <2>1, <2>2, Zenon
<1>. QED
  BY <1>1, <1>5, <1>6 DEF Queued

(* What is read is the next token.                                          *)
LEMMA PairsReadToken ==
  ASSUME TypeOK, Phases, InStep, PairsSoFar, ReadToken
  PROVE  InStep' /\ PairsSoFar'
<1>1. UNCHANGED <<accounts, open, wire, split, id, table>> /\ pc = "read_token" /\ id = <<>>
  BY DEF ReadToken, Phases
<1>2. PairsSoFar'
  BY <1>1, Stay
<1>3. PICK a : a = Amount(TOKEN_SIZE, token)
  OBVIOUS
<1>4. CASE ~(a > 0)
  BY <1>1, <1>3, <1>4, PairsStay DEF ReadToken
<1>5. CASE a > 0
  <2>1. token' = token \o SubSeq(buf, 1, a) /\ buf' = Unread(a)
    BY <1>3, <1>5 DEF ReadToken
  <2>. SUFFICES ASSUME Regular' PROVE Between'
    BY <1>2 DEF InStep
  <2>2. Between /\ Regular
    BY <1>1, Stay DEF InStep
  <2>3. Len(table) \in Nat /\ Len(accounts) \in Nat /\ DOMAIN accounts = 1 .. Len(accounts)
    BY Numbers
  <2>4. token = <<>>
    <3>. SUFFICES ASSUME token # <<>> PROVE FALSE
      OBVIOUS
    <3>1. token = Token(Len(table) + 1)
      BY <2>2 DEF Between
    <3>2. Taken >= 2 * Len(table) + 1
      BY <1>1, <2>3 DEF Taken
    <3>3. Len(table) + 1 \in DOMAIN accounts
      BY <2>2, <2>3, <3>2, NotAhead, Numbers
    <3>4. Len(token) = TOKEN_SIZE
      BY <2>3, <3>1, <3>3, IdIs, PieceTypes, ReceiverSizes
    <3>5. Len(buf) \in Nat
      BY LenProperties DEF TypeOK
    <3>6. a <= 0
      BY <1>3, <3>4, <3>5, ReceiverSizes DEF Amount
    <3>. QED
      BY <1>3, <1>5, <3>4, <3>5, ReceiverSizes DEF Amount
  <2>5. Taken = 2 * Len(table)
    BY <2>3, <2>4 DEF Taken
  <2>6. buf # <<>>
    <3>1. a \in 0 .. Len(buf)
      BY <1>3, ReceiverSizes, ReadParts DEF TypeOK
    <3>. QED
      BY <1>5, <3>1
  <2>7. PICK q \in Seq(Seq(Bytes)) : Queued(q)
    BY <2>2 DEF Between
  <2>8. PICK x \in Seq(Bytes), rest \in Seq(Seq(Bytes)) :
            /\ buf = x \o FlattenSeq(rest) /\ Message(x, Taken + 1) /\ Taken + 1 <= 2 * Len(accounts)
            /\ Len(q) = Len(rest) + 1
            /\ \A j \in 1 .. Len(rest) : Message(rest[j], (Taken + 1) + j)
    BY <2>6, <2>7, NextMessage
  <2>9. PICK n \in DOMAIN accounts : n = Len(table) + 1
    BY <2>3, <2>5, <2>8
  <2>10. x = Token(n)
    <3>1. Taken + 1 = 2 * n - 1
      BY <2>3, <2>5, <2>9
    <3>. QED
      BY <2>8, <3>1 DEF Message
  <2>11. Len(x) = TOKEN_SIZE /\ x # <<>>
    BY <2>10, IdIs, PieceTypes, ReceiverSizes
  <2>12. SubSeq(buf, 1, a) = x /\ Unread(a) = FlattenSeq(rest)
    <3>1. PICK y \in Seq(Bytes) : y = FlattenSeq(rest)
      BY FlattenType
    <3>. QED
      BY <1>3, <2>4, <2>8, <2>11, <3>1, ReadsMessage
  <2>13. token' = x /\ buf' = FlattenSeq(rest)
    <3>1. <<>> \o x = x
      BY ConcatEmptySeq
    <3>. QED
      BY <2>1, <2>4, <2>12, <3>1, Zenon
  <2>14. Taken' = Taken + 1
    <3>1. Taken' = 2 * Len(table) + 1
      BY <1>1, <2>11, <2>13 DEF Taken
    <3>. QED
      BY <2>5, <3>1
  <2>15. Queued(rest)'
    BY <1>1, <2>7, <2>8, <2>13, <2>14, Advance
  <2>. QED
    BY <1>1, <2>9, <2>10, <2>13, <2>15, Stay
<1>. QED
  BY <1>4, <1>5

(* What is read is the next id.                                             *)
LEMMA PairsReadId ==
  ASSUME TypeOK, Phases, InStep, PairsSoFar, ReadId
  PROVE  InStep' /\ PairsSoFar'
<1>1. UNCHANGED <<accounts, open, wire, split, token, table>> /\ pc = "read_id" /\ token # <<>>
  BY DEF ReadId, Phases
<1>2. PairsSoFar'
  BY <1>1, Stay
<1>3. PICK a : a = Amount(ID_SIZE, id)
  OBVIOUS
<1>4. CASE ~(a > 0)
  BY <1>1, <1>3, <1>4, PairsStay DEF ReadId
<1>5. CASE a > 0
  <2>1. id' = id \o SubSeq(buf, 1, a) /\ buf' = Unread(a)
    BY <1>3, <1>5 DEF ReadId
  <2>. SUFFICES ASSUME Regular' PROVE Between'
    BY <1>2 DEF InStep
  <2>2. Between /\ Regular
    BY <1>1, Stay DEF InStep
  <2>3. Len(table) \in Nat /\ Len(accounts) \in Nat /\ DOMAIN accounts = 1 .. Len(accounts)
    BY Numbers
  <2>4. PICK n \in DOMAIN accounts : n = Len(table) + 1
    <3>1. Taken >= 2 * Len(table) + 1
      BY <1>1, <2>3 DEF Taken
    <3>. QED
      BY <2>2, <2>3, <3>1, NotAhead, Numbers
  <2>5. Id(n) \in Seq(Bytes) /\ Len(Id(n)) = ID_SIZE
    <3>1. n <= Len(table) + 1
      BY <2>3, <2>4
    <3>2. accounts[n] = ID_SIZE
      BY <2>2, <3>1 DEF Regular
    <3>. QED
      BY <3>2, IdIs, PieceTypes, ReceiverSizes
  <2>6. id = <<>>
    <3>. SUFFICES ASSUME id # <<>> PROVE FALSE
      OBVIOUS
    <3>1. Len(id) = ID_SIZE
      BY <2>2, <2>4, <2>5 DEF Between
    <3>2. Len(buf) \in Nat
      BY LenProperties DEF TypeOK
    <3>. QED
      BY <1>3, <1>5, <3>1, <3>2, ReceiverSizes DEF Amount
  <2>7. Taken = 2 * Len(table) + 1
    BY <1>1, <2>3, <2>6 DEF Taken
  <2>8. buf # <<>>
    <3>1. a \in 0 .. Len(buf)
      BY <1>3, ReceiverSizes, ReadParts DEF TypeOK
    <3>. QED
      BY <1>5, <3>1
  <2>9. PICK q \in Seq(Seq(Bytes)) : Queued(q)
    BY <2>2 DEF Between
  <2>10. PICK x \in Seq(Bytes), rest \in Seq(Seq(Bytes)) :
            /\ buf = x \o FlattenSeq(rest) /\ Message(x, Taken + 1) /\ Taken + 1 <= 2 * Len(accounts)
            /\ Len(q) = Len(rest) + 1
            /\ \A j \in 1 .. Len(rest) : Message(rest[j], (Taken + 1) + j)
    BY <2>8, <2>9, NextMessage
  <2>11. x = Id(n)
    <3>1. Taken + 1 = 2 * n
      BY <2>3, <2>4, <2>7
    <3>. QED
      BY <2>10, <3>1 DEF Message
  <2>12. Len(x) = ID_SIZE /\ x # <<>>
    BY <2>5, <2>11, ReceiverSizes
  <2>13. SubSeq(buf, 1, a) = x /\ Unread(a) = FlattenSeq(rest)
    <3>1. PICK y \in Seq(Bytes) : y = FlattenSeq(rest)
      BY FlattenType
    <3>. QED
      BY <1>3, <2>6, <2>10, <2>12, <3>1, ReadsMessage
  <2>14. id' = x /\ buf' = FlattenSeq(rest)
    <3>1. <<>> \o x = x
      BY ConcatEmptySeq
    <3>. QED
      BY <2>1, <2>6, <2>13, <3>1, Zenon
  <2>15. Taken' = Taken + 1
    <3>1. Taken' = 2 * Len(table) + 2
      BY <1>1, <2>12, <2>14 DEF Taken
    <3>. QED
      BY <2>3, <2>7, <3>1
  <2>16. Queued(rest)'
    BY <1>1, <2>9, <2>10, <2>14, <2>15, Advance
  <2>17. token = Token(Len(table) + 1)
    BY <1>1, <2>2 DEF Between
  <2>. QED
    BY <1>1, <2>4, <2>11, <2>14, <2>16, <2>17, Stay
<1>. QED
  BY <1>4, <1>5

(* The pair registered is the next sign-in's.                               *)
LEMMA PairsRegister ==
  ASSUME TypeOK, Phases, InStep, PairsSoFar, Register
  PROVE  InStep' /\ PairsSoFar'
<1>1. UNCHANGED <<accounts, wire, buf, split>> /\ token # <<>> /\ id # <<>> /\ token' = <<>> /\ id' = <<>>
  BY DEF Register, Phases
<1>2. PICK pair \in [token : Seq(Bytes), id : Seq(Bytes)] : pair = [token |-> token, id |-> id]
  BY DEF TypeOK
<1>3. table' = Append(table, pair) /\ table \in Seq([token : Seq(Bytes), id : Seq(Bytes)])
  BY <1>2 DEF Register, TypeOK
<1>4. /\ Len(table') = Len(table) + 1 /\ table'[Len(table) + 1] = pair
      /\ \A i \in 1 .. Len(table) : table'[i] = table[i]
  BY <1>3, AppendProperties
<1>5. DOMAIN table' = 1 .. Len(table) + 1
  BY <1>3, <1>4, AppendProperties, LenProperties
<1>6. /\ Len(table) \in Nat /\ DOMAIN table = 1 .. Len(table)
      /\ Len(accounts) \in Nat /\ DOMAIN accounts = 1 .. Len(accounts)
  BY Numbers
<1>7. \A n : Token(n)' = Token(n) /\ Id(n)' = Id(n)
  BY <1>1, Unchanged
<1>8. Regular' => Regular
  BY <1>1, <1>4, <1>6 DEF Regular
<1>9. InStep'
  <2>. SUFFICES ASSUME Regular' PROVE Between'
    BY DEF InStep
  <2>1. PICK q \in Seq(Seq(Bytes)) : Queued(q)
    BY <1>8 DEF InStep, Between
  <2>2. Taken' = Taken
    BY <1>1, <1>4, <1>6 DEF Taken
  <2>3. \A z, m : Message(z, m)' = Message(z, m)
    BY <1>1, Unchanged
  <2>4. Queued(q)'
    BY <1>1, <2>1, <2>2, <2>3 DEF Queued
  <2>. QED
    BY <1>1, <2>4 DEF Between
<1>10. PairsSoFar'
  <2>. SUFFICES ASSUME ~split, NEW n \in 1 .. Len(table) + 1, n <= Len(accounts),
                       \A k \in 1 .. n : accounts[k] = ID_SIZE
                PROVE  table'[n] = [token |-> Token(n), id |-> Id(n)]
    BY <1>1, <1>5, <1>7 DEF PairsSoFar
  <2>1. CASE n \in 1 .. Len(table)
    BY <1>4, <1>6, <2>1 DEF PairsSoFar
  <2>2. CASE n = Len(table) + 1
    <3>1. Regular
      BY <1>6, <2>2 DEF Regular
    <3>2. token = Token(n) /\ id = Id(n)
      BY <1>1, <2>2, <3>1 DEF InStep, Between
    <3>. QED
      BY <1>2, <1>4, <2>2, <3>2
  <2>3. n \in 1 .. Len(table) \/ n = Len(table) + 1
    BY <1>6
  <2>. QED
    BY <2>1, <2>2, <2>3
<1>. QED
  BY <1>9, <1>10

LEMMA PairsKept == PairInv /\ [Next]_vars => PairInv'
<1>. SUFFICES ASSUME PairInv, [Next]_vars PROVE InStep' /\ PairsSoFar'
  BY TypesKept DEF PairInv
<1>. USE DEF PairInv
<1>1. ASSUME NEW len \in 1 .. MaxId, SignIn(len) PROVE InStep' /\ PairsSoFar'
  BY <1>1, PairsSignIn
<1>2. ASSUME NEW k \in 1 .. TOKEN_SIZE + MaxId, Deliver(k) PROVE InStep' /\ PairsSoFar'
  BY <1>2, PairsDeliver
<1>3. CASE Close \/ Poll("poll_token", "read_token") \/ Poll("poll_id", "read_id") \/ UNCHANGED vars
  <2>1. UNCHANGED <<accounts, table, token, id, buf, wire, split>>
    BY <1>3 DEF Close, Poll, vars
  <2>. QED
    BY <2>1, PairsStay
<1>4. CASE ReadToken
  BY <1>4, PairsReadToken
<1>5. CASE ReadId
  BY <1>5, PairsReadId
<1>6. CASE Register
  BY <1>6, PairsRegister
<1>. QED
  BY <1>1, <1>2, <1>3, <1>4, <1>5, <1>6 DEF Next, Network, Receive

LEMMA PairsGiveMatch == PairInv => PairsMatch
<1>. SUFFICES ASSUME PairInv, NEW n \in DOMAIN table, ~split,
                     \A k \in 1 .. n : accounts[k] = ID_SIZE
              PROVE  table[n] = [token |-> Token(n), id |-> Id(n)]
  BY DEF PairsMatch
<1>1. /\ Len(table) \in Nat /\ DOMAIN table = 1 .. Len(table)
      /\ Len(accounts) \in Nat /\ DOMAIN accounts = 1 .. Len(accounts)
  BY Numbers DEF PairInv
<1>2. n <= Len(accounts)
  <2>. SUFFICES ASSUME n > Len(accounts) PROVE FALSE
    BY <1>1
  <2>1. Regular
    BY <1>1 DEF Regular
  <2>2. Len(table) <= Len(accounts)
    BY <2>1, NotAhead DEF PairInv, InStep
  <2>. QED
    BY <1>1, <2>2
<1>. QED
  BY <1>2 DEF PairInv, PairsSoFar

(* Without separators the receiver still registers, as the n-th pair, the   *)
(* token and the id of the n-th sign-in, as long as every sendall arrives   *)
(* in one piece and no id up to it was short, however many pairs wait.      *)
THEOREM PairsAreMatched == Spec => []PairsMatch
<1>1. Init => PairInv
  BY TypesStart, PairsStart DEF PairInv
<1>. QED
  BY <1>1, PairsKept, PairsGiveMatch, PTL DEF Spec

============================================================================
