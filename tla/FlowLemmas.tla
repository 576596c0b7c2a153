----------------------------- MODULE FlowLemmas -----------------------------
(***************************************************************************)
(* What the proofs about the flows share: induction over transcripts and   *)
(* buffers, and how the operations of Device act on the transcript.        *)
(***************************************************************************)
EXTENDS Device, CborBlob, WellFoundedInduction, TLAPS

-----------------------------------------------------------------------------
(* Induction.  It is stated for a set: what is outside of it would have a  *)
(* least element, since < is well founded.                                 *)

LEMMA SetInduction ==
    ASSUME NEW S, 0 \in S, \A n \in Nat : n \in S => n + 1 \in S
    PROVE  Nat \subseteq S
<1> DEFINE T == Nat \ S
<1> SUFFICES ASSUME T # {} PROVE FALSE
  OBVIOUS
<1>1. PICK x \in T : \A y \in T : ~(<<y, x>> \in OpToRel(<, Nat))
  BY NatLessThanWellFounded, WFMin
<1>2. \A y \in T : ~(y < x)
  BY <1>1 DEF OpToRel
<1>3. x # 0 /\ x - 1 \in Nat /\ x - 1 < x
  OBVIOUS
<1>4. x - 1 \in S
  BY <1>2, <1>3
<1> QED
  BY <1>3, <1>4

\* Two functions that begin alike, and step alike, agree.
LEMMA StepwiseEqual ==
    ASSUME NEW n \in Nat, NEW f, NEW g, f[0] = g[0],
           \A i \in 1 .. n : f[i - 1] = g[i - 1] => f[i] = g[i]
    PROVE  f[n] = g[n]
<1> DEFINE Good == {m \in Nat : m <= n => f[m] = g[m]}
<1>1. 0 \in Good
  OBVIOUS
<1>2. ASSUME NEW m \in Nat, m \in Good PROVE m + 1 \in Good
  <2> SUFFICES ASSUME m + 1 <= n PROVE f[m + 1] = g[m + 1]
    OBVIOUS
  <2>1. m + 1 \in 1 .. n /\ (m + 1) - 1 = m /\ f[m] = g[m]
    BY <1>2
  <2> QED
    BY <2>1
<1>3. Nat \subseteq Good
  BY <1>1, <1>2, SetInduction
<1> QED
  BY <1>3

\* f is the function over 0 .. n that begins with base and steps by G.
Solves(f, n, base, G, S) ==
    /\ f \in [0 .. n -> S]
    /\ f[0] = base
    /\ \A i \in 1 .. n : f[i] = G[i][f[i - 1]]

\* A recursive definition over 0 .. n with values in S has a solution.
LEMMA RecursionIsDefined ==
    ASSUME NEW n \in Nat, NEW S, NEW base \in S, NEW G \in [1 .. n -> [S -> S]]
    PROVE  \E f : Solves(f, n, base, G, S)
<1> DEFINE Good == {m \in Nat : m <= n => \E f : Solves(f, m, base, G, S)}
<1>1. 0 \in Good
  <2>1. Solves([i \in 0 .. 0 |-> base], 0, base, G, S)
    BY DEF Solves
  <2> QED
    BY <2>1
<1>2. ASSUME NEW m \in Nat, m \in Good PROVE m + 1 \in Good
  <2> SUFFICES ASSUME m + 1 <= n PROVE \E f : Solves(f, m + 1, base, G, S)
    OBVIOUS
  <2>1. PICK g : Solves(g, m, base, G, S)
    BY <1>2
  <2> DEFINE f == [i \in 0 .. m + 1 |-> IF i = m + 1 THEN G[m + 1][g[m]] ELSE g[i]]
  <2>2. \A i \in 0 .. m : f[i] = g[i]
    OBVIOUS
  <2>3. G[m + 1][g[m]] \in S
    BY <2>1 DEF Solves
  <2>4. f \in [0 .. m + 1 -> S]
    BY <2>1, <2>3 DEF Solves
  <2>5. ASSUME NEW i \in 1 .. m + 1 PROVE f[i] = G[i][f[i - 1]]
    <3>1. CASE i = m + 1
      BY <3>1, <2>2
    <3>2. CASE i \in 1 .. m
      BY <3>2, <2>1, <2>2 DEF Solves
    <3> QED
      BY <3>1, <3>2
  <2>6. f[0] = base
    BY <2>1, <2>2 DEF Solves
  <2>7. Solves(f, m + 1, base, G, S)
    BY <2>4, <2>5, <2>6 DEF Solves
  <2> QED
    BY <2>7
<1>3. Nat \subseteq Good
  BY <1>1, <1>2, SetInduction
<1> QED
  BY <1>3

-----------------------------------------------------------------------------
(* Buffers. *)

LEMMA BufLenIsSum ==
    ASSUME NEW X, NEW b \in Seq(X \X Nat)
    PROVE  \E f \in [0 .. Len(b) -> Nat] :
              /\ f[0] = 0
              /\ \A i \in 1 .. Len(b) : f[i] = f[i - 1] + b[i][2]
              /\ BufLen(b) = f[Len(b)]
<1> DEFINE G == [i \in 1 .. Len(b) |-> [x \in Nat |-> x + b[i][2]]]
           Sums(f) == f = [i \in 0 .. Len(b) |-> IF i = 0 THEN 0 ELSE f[i - 1] + b[i][2]]
<1>1. G \in [1 .. Len(b) -> [Nat -> Nat]]
  <2>1. \A i \in 1 .. Len(b) : b[i] \in X \X Nat
    OBVIOUS
  <2> QED
    BY <2>1
<1>2. Len(b) \in Nat /\ 0 \in Nat
  OBVIOUS
<1> HIDE DEF G
<1>3. PICK f : Solves(f, Len(b), 0, G, Nat)
  BY <1>1, <1>2, RecursionIsDefined
<1>4. f \in [0 .. Len(b) -> Nat] /\ f[0] = 0
  BY <1>3 DEF Solves
<1>5. ASSUME NEW i \in 1 .. Len(b) PROVE f[i] = f[i - 1] + b[i][2]
  <2>1. i - 1 \in 0 .. Len(b) /\ f[i - 1] \in Nat
    BY <1>2, <1>4, SMTT(30)
  <2>2. f[i] = G[i][f[i - 1]]
    BY <1>3 DEF Solves
  <2> QED
    BY <2>1, <2>2 DEF G
<1>6. Sums(f)
  <2> DEFINE h == [i \in 0 .. Len(b) |-> IF i = 0 THEN 0 ELSE f[i - 1] + b[i][2]]
  <2>1. \A i \in 0 .. Len(b) : f[i] = h[i]
    BY <1>2, <1>4, <1>5
  <2> QED
    BY <2>1, <1>4
<1>7. PICK g : Sums(g) /\ BufLen(b) = g[Len(b)]
  BY <1>6 DEF BufLen
<1>8. g[0] = 0 /\ \A i \in 1 .. Len(b) : g[i] = g[i - 1] + b[i][2]
  <2>1. 0 \in 0 .. Len(b) /\ \A i \in 1 .. Len(b) : i \in 0 .. Len(b) /\ i # 0
    BY <1>2
  <2>2. \A i \in 0 .. Len(b) : g[i] = IF i = 0 THEN 0 ELSE g[i - 1] + b[i][2]
    BY <1>7, Zenon
  <2> QED
    BY <2>1, <2>2
<1>9. \A i \in 1 .. Len(b) : g[i - 1] = f[i - 1] => g[i] = f[i]
  BY <1>5, <1>8
<1>10. g[Len(b)] = f[Len(b)]
  <2>1. Len(b) \in Nat /\ g[0] = f[0]
    BY <1>2, <1>4, <1>8
  <2> QED
    BY ONLY <1>9, <2>1, StepwiseEqual
<1> QED
  BY <1>4, <1>5, <1>7, <1>10

LEMMA BufLenEmpty == BufLen(<< >>) = 0
<1>1. << >> \in Seq(Nat \X Nat) /\ Len(<< >>) = 0
  OBVIOUS
<1> QED
  BY <1>1, BufLenIsSum

LEMMA BufLenNat ==
    ASSUME NEW X, NEW b \in Seq(X \X Nat)
    PROVE  BufLen(b) \in Nat
<1>1. Len(b) \in 0 .. Len(b)
  OBVIOUS
<1>2. PICK f \in [0 .. Len(b) -> Nat] : BufLen(b) = f[Len(b)]
  BY BufLenIsSum
<1> QED
  BY <1>1, <1>2

LEMMA BufLenAppend ==
    ASSUME NEW X, NEW b \in Seq(X \X Nat), NEW x \in X \X Nat
    PROVE  BufLen(Append(b, x)) = BufLen(b) + x[2]
<1> DEFINE c == Append(b, x)
<1>1. /\ c \in Seq(X \X Nat) /\ Len(b) \in Nat /\ Len(c) = Len(b) + 1
      /\ c[Len(b) + 1] = x /\ \A i \in 1 .. Len(b) : c[i] = b[i]
  OBVIOUS
<1>2. PICK f :
          /\ f[0] = 0
          /\ \A i \in 1 .. Len(b) : f[i] = f[i - 1] + b[i][2]
          /\ BufLen(b) = f[Len(b)]
  BY BufLenIsSum
<1> HIDE DEF c
<1>3. PICK g :
          /\ g[0] = 0
          /\ \A i \in 1 .. Len(c) : g[i] = g[i - 1] + c[i][2]
          /\ BufLen(c) = g[Len(c)]
  BY <1>1, BufLenIsSum
<1>4. \A i \in 1 .. Len(b) : i \in 1 .. Len(c) /\ g[i] = g[i - 1] + b[i][2]
  BY <1>1, <1>3, SMTT(30)
<1>5. f[Len(b)] = g[Len(b)]
  <2>1. \A i \in 1 .. Len(b) : f[i - 1] = g[i - 1] => f[i] = g[i]
    BY <1>2, <1>4
  <2> QED
    BY <1>1, <1>2, <1>3, <2>1, StepwiseEqual
<1>6. Len(c) \in 1 .. Len(c) /\ Len(c) - 1 = Len(b)
  BY <1>1
<1>7. g[Len(c)] = g[Len(b)] + x[2]
  BY <1>1, <1>3, <1>6
<1> QED
  BY <1>2, <1>3, <1>5, <1>7 DEF c

-----------------------------------------------------------------------------
(* Transcripts. *)

BlobStep(before, item) == IF IsCbor(item) THEN Append(before, <<item[2], item[3]>>) ELSE before

LEMMA BlobOfIsFold ==
    ASSUME NEW X, NEW s \in Seq(X)
    PROVE  \E f \in [0 .. Len(s) -> Seq({<<item[2], item[3]>> : item \in X})] :
              /\ f[0] = << >>
              /\ \A i \in 1 .. Len(s) : f[i] = BlobStep(f[i - 1], s[i])
              /\ BlobOf(s) = f[Len(s)]
<1> DEFINE B == Seq({<<item[2], item[3]>> : item \in X})
           G == [i \in 1 .. Len(s) |-> [x \in B |-> BlobStep(x, s[i])]]
           Folds(f) == f = [i \in 0 .. Len(s) |->
                               IF i = 0 THEN << >>
                               ELSE IF IsCbor(s[i]) THEN Append(f[i - 1], <<s[i][2], s[i][3]>>)
                               ELSE f[i - 1]]
<1>1. G \in [1 .. Len(s) -> [B -> B]]
  <2> SUFFICES ASSUME NEW i \in 1 .. Len(s), NEW x \in B PROVE BlobStep(x, s[i]) \in B
    OBVIOUS
  <2>1. s[i] \in X
    OBVIOUS
  <2>2. <<s[i][2], s[i][3]>> \in {<<item[2], item[3]>> : item \in X}
    BY <2>1
  <2> QED
    BY <2>2 DEF BlobStep
<1>2. Len(s) \in Nat /\ << >> \in B
  OBVIOUS
<1> HIDE DEF G, B
<1>3. PICK f : Solves(f, Len(s), << >>, G, B)
  BY <1>1, <1>2, RecursionIsDefined
<1>4. f \in [0 .. Len(s) -> B] /\ f[0] = << >>
  BY <1>3 DEF Solves
<1>5. ASSUME NEW i \in 1 .. Len(s) PROVE f[i] = BlobStep(f[i - 1], s[i])
  <2>1. i - 1 \in 0 .. Len(s) /\ f[i - 1] \in B
    BY <1>2, <1>4
  <2>2. f[i] = G[i][f[i - 1]]
    BY <1>3 DEF Solves
  <2> QED
    BY <2>1, <2>2 DEF G
<1>6. Folds(f)
  <2> DEFINE h == [i \in 0 .. Len(s) |->
                     IF i = 0 THEN << >>
                     ELSE IF IsCbor(s[i]) THEN Append(f[i - 1], <<s[i][2], s[i][3]>>)
                     ELSE f[i - 1]]
  <2>1. ASSUME NEW i \in 0 .. Len(s) PROVE f[i] = h[i]
    <3>1. CASE i = 0
      BY <3>1, <1>4
    <3>2. CASE i \in 1 .. Len(s)
      BY <3>2, <1>5 DEF BlobStep
    <3> QED
      BY <3>1, <3>2, <1>2
  <2> QED
    BY <2>1, <1>4
<1>7. PICK g : Folds(g) /\ BlobOf(s) = g[Len(s)]
  BY <1>6 DEF BlobOf
<1>8. ASSUME NEW i \in 1 .. Len(s) PROVE g[i] = BlobStep(g[i - 1], s[i])
  <2>1. i \in 0 .. Len(s) /\ i # 0
    BY <1>2
  <2> QED
    BY <2>1, <1>7 DEF BlobStep
<1>9. g[0] = << >>
  BY <1>2, <1>7
<1>10. \A i \in 1 .. Len(s) : g[i - 1] = f[i - 1] => g[i] = f[i]
  BY <1>5, <1>8
<1>11. g[Len(s)] = f[Len(s)]
  BY <1>2, <1>4, <1>9, <1>10, StepwiseEqual
<1> QED
  BY <1>4, <1>5, <1>7, <1>11 DEF B

LEMMA BlobOfEmpty == BlobOf(<< >>) = << >>
<1> DEFINE s == << >>
<1>1. s \in Seq({}) /\ Len(s) = 0
  OBVIOUS
<1> HIDE DEF s
<1>2. PICK f : f[0] = << >> /\ BlobOf(s) = f[Len(s)]
  BY <1>1, BlobOfIsFold, ZenonT(30)
<1> QED
  BY <1>1, <1>2 DEF s

LEMMA BlobOfAppend ==
    ASSUME NEW X, NEW s \in Seq(X), NEW item \in X
    PROVE  BlobOf(Append(s, item)) = BlobStep(BlobOf(s), item)
<1> DEFINE t == Append(s, item)
<1>1. /\ t \in Seq(X) /\ Len(s) \in Nat /\ Len(t) = Len(s) + 1
      /\ t[Len(s) + 1] = item /\ \A i \in 1 .. Len(s) : t[i] = s[i]
  OBVIOUS
<1>2. PICK f : /\ f[0] = << >>
               /\ \A i \in 1 .. Len(s) : f[i] = BlobStep(f[i - 1], s[i])
               /\ BlobOf(s) = f[Len(s)]
  BY BlobOfIsFold
<1> HIDE DEF t
<1>3. PICK g : /\ g[0] = << >>
               /\ \A i \in 1 .. Len(t) : g[i] = BlobStep(g[i - 1], t[i])
               /\ BlobOf(t) = g[Len(t)]
  BY <1>1, BlobOfIsFold
<1>4. \A i \in 1 .. Len(s) : i \in 1 .. Len(t) /\ g[i] = BlobStep(g[i - 1], s[i])
  BY <1>1, <1>3
<1>5. f[Len(s)] = g[Len(s)]
  <2>1. \A i \in 1 .. Len(s) : f[i - 1] = g[i - 1] => f[i] = g[i]
    BY <1>2, <1>4
  <2> QED
    BY <1>1, <1>2, <1>3, <2>1, StepwiseEqual
<1>6. Len(t) \in 1 .. Len(t) /\ Len(t) - 1 = Len(s)
  BY <1>1
<1>7. g[Len(t)] = BlobStep(g[Len(s)], item)
  BY <1>1, <1>3, <1>6
<1> QED
  BY <1>2, <1>3, <1>5, <1>7 DEF t

\* A transcript without chunks holds no memo.
LEMMA BlobOfPlain ==
    ASSUME NEW X, NEW s \in Seq(X), \A i \in 1 .. Len(s) : ~IsCbor(s[i])
    PROVE  BlobOf(s) = << >>
<1>1. PICK f : /\ f[0] = << >>
               /\ \A i \in 1 .. Len(s) : f[i] = BlobStep(f[i - 1], s[i])
               /\ BlobOf(s) = f[Len(s)]
  BY BlobOfIsFold
<1> DEFINE g == [i \in 0 .. Len(s) |-> << >>]
<1>2. Len(s) \in Nat /\ g[0] = << >> /\ g[Len(s)] = << >>
  OBVIOUS
<1>3. \A i \in 1 .. Len(s) : f[i - 1] = g[i - 1] => f[i] = g[i]
  <2>1. ASSUME NEW i \in 1 .. Len(s) PROVE g[i - 1] = << >> /\ g[i] = << >>
    BY <1>2
  <2>2. ASSUME NEW i \in 1 .. Len(s), NEW x PROVE BlobStep(x, s[i]) = x
    BY DEF BlobStep
  <2> HIDE DEF g
  <2> QED
    BY <1>1, <2>1, <2>2, Zenon
<1> HIDE DEF g
<1>4. f[Len(s)] = g[Len(s)]
  BY <1>1, <1>2, <1>3, StepwiseEqual
<1> QED
  BY <1>1, <1>2, <1>4

-----------------------------------------------------------------------------
(* Sequences of items. *)

\* The items of a concatenation are those of its parts (update_hash appends).
LEMMA ItemsOfConcat ==
    ASSUME NEW S, NEW s \in Seq(S), NEW t \in Seq(S)
    PROVE  /\ s \o t \in Seq(S)
           /\ ItemsOf(s \o t) = ItemsOf(s) \cup ItemsOf(t)
<1>1. s \o t \in Seq(S) /\ Len(s \o t) = Len(s) + Len(t)
  OBVIOUS
<1>2. ItemsOf(s \o t) \subseteq ItemsOf(s) \cup ItemsOf(t)
  <2>. SUFFICES ASSUME NEW i \in 1 .. Len(s) + Len(t)
                PROVE  (s \o t)[i] \in ItemsOf(s) \cup ItemsOf(t)
    BY <1>1 DEF ItemsOf
  <2>1. CASE i <= Len(s)
    BY <2>1 DEF ItemsOf
  <2>2. CASE i > Len(s)
    <3>1. i - Len(s) \in 1 .. Len(t) /\ (s \o t)[i] = t[i - Len(s)]
      BY <2>2
    <3>. QED  BY <3>1 DEF ItemsOf
  <2>. QED  BY <2>1, <2>2
<1>3. ItemsOf(s) \subseteq ItemsOf(s \o t)
  <2>. SUFFICES ASSUME NEW i \in 1 .. Len(s) PROVE s[i] \in ItemsOf(s \o t)
    BY DEF ItemsOf
  <2>1. i \in DOMAIN (s \o t) /\ (s \o t)[i] = s[i]
    BY <1>1
  <2>. QED  BY <2>1 DEF ItemsOf
<1>4. ItemsOf(t) \subseteq ItemsOf(s \o t)
  <2>. SUFFICES ASSUME NEW i \in 1 .. Len(t) PROVE t[i] \in ItemsOf(s \o t)
    BY DEF ItemsOf
  <2>1. i + Len(s) \in DOMAIN (s \o t) /\ (s \o t)[i + Len(s)] = t[i]
    BY <1>1
  <2>. QED  BY <2>1 DEF ItemsOf
<1>. QED  BY <1>1, <1>2, <1>3, <1>4

\* The items of a sequence over S are in S.
LEMMA ItemsOfSeq ==
    ASSUME NEW S, NEW s \in Seq(S)
    PROVE  ItemsOf(s) \subseteq S
BY DEF ItemsOf

\* A packet refused half way has fed a prefix of its fields to the hash.
LEMMA PrefixOfSeq ==
    ASSUME NEW S, NEW s \in Seq(S), NEW k \in 0 .. Len(s)
    PROVE  SubSeq(s, 1, k) \in Seq(S)
OBVIOUS

LEMMA SingletonSeq ==
    ASSUME NEW S, NEW e \in S
    PROVE  <<e>> \in Seq(S) /\ ItemsOf(<<e>>) = {e}
BY DEF ItemsOf

LEMMA Pair ==
    ASSUME NEW X, NEW x \in X, NEW y \in X
    PROVE  <<x>> \o <<y>> = <<x, y>>
<1> DEFINE s == <<x>>
           t == <<y>>
           u == <<x, y>>
<1>1. /\ s \in Seq(X) /\ Len(s) = 1 /\ s[1] = x
      /\ t \in Seq(X) /\ Len(t) = 1 /\ t[1] = y
      /\ u \in Seq(X) /\ Len(u) = 2 /\ u[1] = x /\ u[2] = y
  OBVIOUS
<1> HIDE DEF s, t, u
<1>2. /\ s \o t \in Seq(X) /\ Len(s \o t) = Len(s) + Len(t)
      /\ \A i \in 1 .. Len(s) + Len(t) : (s \o t)[i] = IF i <= Len(s) THEN s[i] ELSE t[i - Len(s)]
  <2>1. s \in Seq(X) /\ t \in Seq(X)
    BY <1>1
  <2> QED
    BY <2>1
<1>3. Len(s \o t) = 2 /\ 1 \in 1 .. Len(s) + Len(t) /\ 2 \in 1 .. Len(s) + Len(t)
  BY <1>1, <1>2
<1>4. (s \o t)[1] = x /\ (s \o t)[2] = y
  BY <1>1, <1>2, <1>3
<1>5. \A i \in 1 .. 2 : i = 1 \/ i = 2
  OBVIOUS
<1>6. \A i \in 1 .. 2 : (s \o t)[i] = u[i]
  BY <1>1, <1>4, <1>5
<1>7. s \o t = u
  BY <1>1, <1>2, <1>3, <1>6
<1> QED
  BY <1>7 DEF s, t, u

LEMMA Triple ==
    ASSUME NEW X, NEW a \in X, NEW b \in X, NEW c \in X
    PROVE  <<a, b, c>> \in Seq(X)
  OBVIOUS

LEMMA FirstTwo ==
    ASSUME NEW X, NEW a \in X, NEW b \in X, NEW c
    PROVE  SubSeq(<<a, b, c>>, 1, 2) \in Seq(X)
<1>1. <<a, b, c>> \in Seq(X \cup {c})
  BY Triple
<1>2. SubSeq(<<a, b, c>>, 1, 2) = [i \in 1 .. 2 |-> <<a, b, c>>[i]]
  BY <1>1
<1>3. \A i \in 1 .. 2 : <<a, b, c>>[i] \in X
  OBVIOUS
<1> QED
  BY <1>2, <1>3

-----------------------------------------------------------------------------
(* A memo or datum received in chunks. *)

LEMMA ChunkKnown ==
    ASSUME NEW v \in Vals, NEW n \in 1 .. CborChunkMax
    PROVE  /\ <<v, n>> \in Vals \X (1 .. CborChunkMax) /\ <<v, n>> \in Vals \X Nat
           /\ <<<<v, n>>>> \in Seq(Vals \X (1 .. CborChunkMax))
           /\ BufLen(<<<<v, n>>>>) = n
<1>1. n \in Nat /\ <<v, n>> \in Vals \X (1 .. CborChunkMax) /\ <<v, n>> \in Vals \X Nat
  BY CborAssumption
<1> DEFINE x == <<v, n>>
           e == << >>
<1>2. x \in Vals \X Nat /\ x[2] = n /\ e \in Seq(Vals \X Nat)
  BY <1>1
<1>3. BufLen(e) = 0
  BY BufLenEmpty
<1> HIDE DEF x, e
<1>4. BufLen(Append(e, x)) = BufLen(e) + x[2]
  BY <1>2, BufLenAppend
<1>5. BufLen(Append(e, x)) = n
  BY <1>1, <1>2, <1>3, <1>4
<1>6. Append(e, x) = <<x>>
  BY <1>2 DEF e
<1>7. x \in Vals \X (1 .. CborChunkMax)
  BY <1>1 DEF x
<1>8. <<x>> \in Seq(Vals \X (1 .. CborChunkMax))
  BY <1>7, SingletonSeq
<1>9. BufLen(<<x>>) = n
  BY <1>5, <1>6
<1> QED
  BY <1>1, <1>8, <1>9 DEF x

LEMMA BufGrows ==
    ASSUME NEW b \in Seq(Vals \X (1 .. CborChunkMax)), NEW v \in Vals, NEW n \in 1 .. CborChunkMax
    PROVE  /\ Append(b, <<v, n>>) \in Seq(Vals \X (1 .. CborChunkMax))
           /\ BufLen(b) \in Nat /\ BufLen(Append(b, <<v, n>>)) = BufLen(b) + n
<1> DEFINE x == <<v, n>>
<1>1. n \in Nat /\ x \in Vals \X (1 .. CborChunkMax) /\ x \in Vals \X Nat /\ x[2] = n
  BY ChunkKnown, CborAssumption
<1>2. b \in Seq(Vals \X Nat)
  <2>1. 1 .. CborChunkMax \subseteq Nat
    BY CborAssumption
  <2>2. Vals \X (1 .. CborChunkMax) \subseteq Vals \X Nat
    BY <2>1
  <2> QED
    BY <2>2
<1> HIDE DEF x
<1>3. BufLen(b) \in Nat /\ BufLen(Append(b, x)) = BufLen(b) + x[2]
  BY <1>1, <1>2, BufLenNat, BufLenAppend
<1>4. Append(b, x) \in Seq(Vals \X (1 .. CborChunkMax))
  BY <1>1
<1> QED
  BY <1>1, <1>3, <1>4 DEF x

\* A chunk that fits, read into the buffer: the first one replaces what the
\* buffer held, the others are appended.
ReadChunk(first, m, v, n) == IF first THEN readCborInitial(m, v, n) ELSE readCborContent(m, v, n)
FitsChunk(first, m, n) == IF first THEN ChunkFits(m, n) ELSE ContentFits(m, n)

LEMMA ReadChunkKnown ==
    ASSUME NEW m \in [length : 0 .. CborMax, buf : Seq(Vals \X (1 .. CborChunkMax))],
           NEW first \in BOOLEAN, NEW v \in Vals, NEW n \in 1 .. CborChunkMax, FitsChunk(first, m, n)
    PROVE  /\ ReadChunk(first, m, v, n) \in [length : 0 .. CborMax, buf : Seq(Vals \X (1 .. CborChunkMax))]
           /\ ReadChunk(first, m, v, n).length = m.length - n
           /\ BufLen(ReadChunk(first, m, v, n).buf) <= CborMax
           /\ first => ReadChunk(first, m, v, n).buf = <<<<v, n>>>>
           /\ ~first => ReadChunk(first, m, v, n).buf = Append(m.buf, <<v, n>>)
<1>1. m.length \in 0 .. CborMax /\ m.buf \in Seq(Vals \X (1 .. CborChunkMax))
  OBVIOUS
<1>2. n \in Nat /\ n <= m.length /\ m.length - n \in 0 .. CborMax
  BY <1>1, CborAssumption DEF FitsChunk, ChunkFits, ContentFits
<1>3. CASE first
  <2>1. ReadChunk(first, m, v, n) = [length |-> m.length - n, buf |-> <<<<v, n>>>>]
    BY <1>3 DEF ReadChunk, readCborInitial
  <2>2. n <= CborMax
    BY <1>1, <1>2, CborAssumption
  <2>3. <<<<v, n>>>> \in Seq(Vals \X (1 .. CborChunkMax)) /\ BufLen(<<<<v, n>>>>) = n
    BY ChunkKnown
  <2> DEFINE b == <<<<v, n>>>>
  <2> HIDE DEF b
  <2>4. ReadChunk(first, m, v, n).buf = b /\ ReadChunk(first, m, v, n).length = m.length - n
    BY <2>1 DEF b
  <2>5. ReadChunk(first, m, v, n) \in [length : 0 .. CborMax, buf : Seq(Vals \X (1 .. CborChunkMax))]
    BY <1>2, <2>1, <2>3 DEF b
  <2>6. BufLen(ReadChunk(first, m, v, n).buf) <= CborMax
    BY <2>2, <2>3, <2>4 DEF b
  <2> QED
    BY <1>3, <2>4, <2>5, <2>6 DEF b
<1>4. CASE ~first
  <2> DEFINE b == Append(m.buf, <<v, n>>)
  <2>1. ReadChunk(first, m, v, n) = [length |-> m.length - n, buf |-> b]
    BY <1>4 DEF ReadChunk, readCborContent
  <2>2. b \in Seq(Vals \X (1 .. CborChunkMax)) /\ BufLen(b) = BufLen(m.buf) + n
    BY <1>1, BufGrows
  <2>3. BufLen(m.buf) + n <= CborMax
    BY <1>4 DEF FitsChunk, ContentFits
  <2> HIDE DEF b
  <2>4. ReadChunk(first, m, v, n).buf = b /\ ReadChunk(first, m, v, n).length = m.length - n
    BY <2>1
  <2>5. ReadChunk(first, m, v, n) \in [length : 0 .. CborMax, buf : Seq(Vals \X (1 .. CborChunkMax))]
    BY <1>2, <2>1, <2>2
  <2> QED
    BY <1>4, <2>2, <2>3, <2>4, <2>5 DEF b
<1> QED
  BY <1>3, <1>4

-----------------------------------------------------------------------------
(* Answers. *)

NoSignature(r) == r.sw # "success" \/ r.body = << >> \/ r.body[1] # "signature"

\* The answers that carry no data.
PlainAnswers == {Refused, Declined, Idle, Success(<< >>)}

LEMMA PlainAnswer ==
    ASSUME NEW r \in PlainAnswers
    PROVE  r # Owed /\ r.sw # "owed" /\ NoSignature(r) /\ (r.sw # "success" \/ r.body = << >>)
  BY DEF PlainAnswers, Refused, Owed, Declined, Idle, Success, NoSignature

LEMMA OwedAnswer == Owed.sw = "owed" /\ NoSignature(Owed)
  BY DEF Owed, NoSignature

LEMMA SignatureAnswer ==
    ASSUME NEW s, NEW p, NEW r, r = Success(<<"signature", s, p>>)
    PROVE  /\ r # Owed /\ r.sw = "success" /\ r.body # << >>
           /\ r.body[2] = s /\ r.body[3] = p
  BY DEF Success, Owed

-----------------------------------------------------------------------------
(* How packets begin and continue a transcript. *)

\* The transcript begun by a header.
LEMMA HeadTypes ==
    ASSUME NEW X, NEW h, NEW p, NEW items \in Seq(X), <<"header", h>> \in X,
           hashAccountTransactionHeaderAndKind(h, p, items)
    PROVE  /\ hash' \in Seq(X) /\ Len(hash') = Len(items) + 1
           /\ hash'[1] = <<"header", h>>
           /\ \A i \in 1 .. Len(items) : hash'[i + 1] = items[i]
BY DEF hashAccountTransactionHeaderAndKind

\* A header packet that throws leaves some beginning of a transcript behind.
LEMMA HeaderThrowsTypes ==
    ASSUME NEW X, hash \in Seq(X), NEW h, NEW p, NEW items \in Seq(X), <<"header", h>> \in X,
           HeaderThrows(h, p, items)
    PROVE  /\ hash' \in Seq(X) /\ path' \in {path, p}
           /\ account' \in {account, AccountSender(h, p)}
<1> DEFINE full == <<<<"header", h>>>> \o items
<1>1. full \in Seq(X) /\ Len(full) = Len(items) + 1
  OBVIOUS
<1>2. << >> \in Seq(X)
  OBVIOUS
<1>3. \A k \in 0 .. Len(full) : SubSeq(full, 1, k) \in Seq(X)
  BY <1>1, PrefixOfSeq
<1>4. hash' \in Seq(X)
  <2>1. CASE hash' \in {hash, << >>}
    BY <2>1, <1>2, Zenon
  <2>2. CASE \E k \in 0 .. Len(items) + 1 : hash' = SubSeq(full, 1, k)
    BY <2>2, <1>1, <1>3
  <2> QED
    BY <2>1, <2>2 DEF HeaderThrows
<1> QED
  BY <1>4 DEF HeaderThrows

\* Feeding one item appends it.
LEMMA FeedOne ==
    ASSUME NEW X, hash \in Seq(X), NEW item \in X, Feed(<<item>>)
    PROVE  /\ hash' = Append(hash, item) /\ hash' \in Seq(X)
           /\ Len(hash') = Len(hash) + 1 /\ hash'[Len(hash) + 1] = item
           /\ \A i \in 1 .. Len(hash) : hash'[i] = hash[i]
BY DEF Feed

\* Feeding two items appends one after the other.
LEMMA FeedTwo ==
    ASSUME NEW X, hash \in Seq(X), NEW x \in X, NEW y \in X, Feed(<<x, y>>)
    PROVE  /\ hash' = Append(Append(hash, x), y) /\ hash' \in Seq(X)
           /\ Len(hash') = Len(hash) + 2
           /\ hash'[Len(hash) + 1] = x /\ hash'[Len(hash) + 2] = y
           /\ \A i \in 1 .. Len(hash) : hash'[i] = hash[i]
<1>1. <<x, y>> \in Seq(X) /\ Len(<<x, y>>) = 2 /\ <<x, y>>[1] = x /\ <<x, y>>[2] = y
  OBVIOUS
<1>2. hash' = hash \o <<x, y>>
  BY DEF Feed
<1>3. /\ hash' \in Seq(X) /\ Len(hash') = Len(hash) + 2
      /\ hash'[Len(hash) + 1] = x /\ hash'[Len(hash) + 2] = y
      /\ \A i \in 1 .. Len(hash) : hash'[i] = hash[i]
  BY <1>1, <1>2
<1>4. hash' = Append(Append(hash, x), y)
  <2> DEFINE t == Append(Append(hash, x), y)
  <2>1. /\ t \in Seq(X) /\ Len(t) = Len(hash) + 2
        /\ t[Len(hash) + 1] = x /\ t[Len(hash) + 2] = y
        /\ \A i \in 1 .. Len(hash) : t[i] = hash[i]
    OBVIOUS
  <2> HIDE DEF t
  <2>2. \A i \in 1 .. Len(hash) + 2 : i \in 1 .. Len(hash) \/ i = Len(hash) + 1 \/ i = Len(hash) + 2
    OBVIOUS
  <2>3. \A i \in 1 .. Len(hash) + 2 : hash'[i] = t[i]
    BY <1>3, <2>1, <2>2
  <2>4. hash' = t
    BY <1>3, <2>1, <2>3
  <2> QED
    BY <2>4 DEF t
<1> QED
  BY <1>3, <1>4
=============================================================================
