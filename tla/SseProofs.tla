----------------------------- MODULE SseProofs -----------------------------
(***************************************************************************)
(* The usage of a stream is that of the events kept whole, for every body, *)
(* every cap and tail, and every cut into writes (module Sse).             *)
(*                                                                         *)
(* The argument.  Positions are counted in one fixed text S, all that the  *)
(* parser is fed (the head, the blank line that closes it, the tail).      *)
(* After any number of rounds the parser has passed the first d symbols of *)
(* S, and what it knows is a function of d (Told): the newest counts among *)
(* the whole payloads before d and before the first error, and how many    *)
(* payloads began before d.  What it carries is what follows d, so a piece *)
(* fed later only moves the end of what it has.  A round moves d past one  *)
(* event, and an event holds at most one payload, because S is well formed *)
(* (WellFormed): between any two payloads there is a blank line, even      *)
(* across the cut.  The last step maps the payloads that are whole in S to *)
(* the events that the head or the tail kept.                              *)
(*                                                                         *)
(* At the end, for any bytes at all: chunks of any size tell the same.     *)
(***************************************************************************)
EXTENDS Sse, SequenceTheorems, FiniteSetTheorems, TLAPS

----------------------------------------------------------------------------
(* Numbers.                                                                *)

LEMMA UpTo ==
  ASSUME NEW m \in Nat
  PROVE  IsFiniteSet(0..(m - 1)) /\ Cardinality(0..(m - 1)) = m
<1>1. 0 \in Int /\ m - 1 \in Int
  OBVIOUS
<1>2. Cardinality(0..(m - 1)) = IF 0 > m - 1 THEN 0 ELSE (m - 1) - 0 + 1
  BY <1>1, FS_Interval
<1>3. IsFiniteSet(0..(m - 1))
  BY <1>1, FS_Interval
<1>4. QED
  BY <1>2, <1>3

\* A bounded set of numbers has a largest one.
LEMMA LargestOf ==
  ASSUME NEW n \in Nat, NEW S, S \subseteq 0..n, S # {}
  PROVE  \E m \in S : \A x \in S : x <= m
<1> DEFINE U == {x \in 0..n : \E y \in S : x <= y}
           k == Cardinality(U)
<1>1. IsFiniteSet(U) /\ k \in Nat
  <2>1. IsFiniteSet(0..((n + 1) - 1)) /\ (n + 1) - 1 = n
    BY UpTo
  <2>2. U \in SUBSET (0..n)
    OBVIOUS
  <2> HIDE DEF U
  <2>3. IsFiniteSet(U)
    BY <2>1, <2>2, FS_Subset
  <2>4. QED
    BY <2>3, FS_CardinalityType
<1>2. S \subseteq U
  OBVIOUS
<1>3. ASSUME NEW x \in U PROVE x <= k - 1
  <2>1. 0..((x + 1) - 1) \in SUBSET U /\ x + 1 \in Nat
    OBVIOUS
  <2>2. Cardinality(0..((x + 1) - 1)) = x + 1
    BY <2>1, UpTo
  <2>3. Cardinality(0..((x + 1) - 1)) <= k
    <3> HIDE DEF U
    <3>1. QED
      BY <1>1, <2>1, FS_Subset
  <2>4. QED
    BY <1>1, <2>1, <2>2, <2>3
<1>4. k - 1 \in U
  <2>1. SUFFICES ASSUME k - 1 \notin U PROVE FALSE
    OBVIOUS
  <2>2. PICK x \in S : TRUE
    OBVIOUS
  <2>3. x \in Nat /\ x <= k - 1
    BY <1>2, <1>3, <2>2
  <2> DEFINE j == k - 1
  <2>4. j \in Nat /\ k = j + 1
    BY <1>1, <2>3
  <2>5. U \in SUBSET (0..(j - 1))
    <3>1. ASSUME NEW y \in U PROVE y \in 0..(j - 1)
      <4>1. y \in Nat /\ y <= k - 1 /\ y # j
        <5>1. y \in Nat
          OBVIOUS
        <5>2. y <= k - 1
          BY <1>3
        <5>3. y # j
          BY <2>1
        <5>4. QED
          BY <5>1, <5>2, <5>3
      <4> HIDE DEF k
      <4>2. QED
        BY <2>4, <4>1
    <3>2. QED
      BY <3>1
  <2>6. Cardinality(0..(j - 1)) = j /\ IsFiniteSet(0..(j - 1))
    <3> HIDE DEF j
    <3>1. QED
      BY <2>4, UpTo
  <2>7. k <= j
    <3> HIDE DEF j, U
    <3>1. QED
      BY <2>5, <2>6, FS_Subset
  <2>8. QED
    <3> HIDE DEF j, k
    <3>1. QED
      BY <2>4, <2>7
<1>5. PICK m \in S : k - 1 <= m
  BY <1>4
<1>6. QED
  <2>1. \A x \in S : x <= k - 1 /\ x \in Nat
    BY <1>2, <1>3
  <2> HIDE DEF k
  <2>2. QED
    BY <1>1, <1>5, <2>1
\* A set of numbers that is not empty has a least one.
LEMMA LeastOf ==
  ASSUME NEW T, T \subseteq Nat, T # {}
  PROVE  \E m \in T : \A k \in T : m <= k
<1>1. PICK n \in T : TRUE
  OBVIOUS
<1> DEFINE D == {n - x : x \in T \cap 0..n}
<1>2. n \in Nat /\ D \subseteq 0..n /\ n - n \in D
  BY <1>1
<1>3. PICK d \in D : \A e \in D : e <= d
  <2> HIDE DEF D
  <2>1. D # {}
    BY <1>2
  <2>2. QED
    BY <1>2, <2>1, LargestOf
<1>4. PICK m \in T : m \in 0..n /\ d = n - m
  BY <1>3
<1>5. ASSUME NEW k \in T PROVE m <= k
  <2>1. k \in Nat
    OBVIOUS
  <2>2. CASE k <= n
    <3>1. n - k \in D
      BY <1>2, <2>1, <2>2
    <3>2. n - k <= n - m
      BY <1>3, <1>4, <3>1
    <3>3. QED
      BY <1>2, <1>4, <2>1, <3>2
  <2>3. CASE ~ (k <= n)
    BY <1>2, <1>4, <2>1, <2>3
  <2>4. QED
    BY <2>2, <2>3
<1>6. QED
  BY <1>5

\* Induction over the numbers, as a fact about one set of them.
LEMMA Climb ==
  ASSUME NEW T, 0 \in T, \A n \in Nat : n \in T => n + 1 \in T
  PROVE  Nat \subseteq T
<1> DEFINE Out == {n \in Nat : n \notin T}
<1>1. SUFFICES ASSUME Out # {} PROVE FALSE
  OBVIOUS
<1>2. PICK m \in Out : \A k \in Out : m <= k
  <2>1. Out \subseteq Nat
    OBVIOUS
  <2> HIDE DEF Out
  <2>2. QED
    BY <1>1, <2>1, LeastOf
<1>3. m \in Nat /\ m # 0 /\ m \notin T
  OBVIOUS
<1>4. m - 1 \in Nat /\ m - 1 \notin Out
  BY <1>2, <1>3
<1>5. (m - 1) + 1 \in T
  BY <1>4
<1>6. QED
  BY <1>3, <1>5

LEMMA MinIs ==
  ASSUME NEW T, T \subseteq Nat, T # {}
  PROVE  Min(T) \in T /\ \A k \in T : Min(T) <= k
<1>1. \E m \in T : \A k \in T : m <= k
  BY LeastOf
<1>2. QED
  BY <1>1 DEF Min

LEMMA MinEquals ==
  ASSUME NEW T, T \subseteq Nat, NEW m \in T, \A k \in T : m <= k
  PROVE  Min(T) = m
<1>1. Min(T) \in T /\ \A k \in T : Min(T) <= k
  BY MinIs
<1>2. m \in Nat /\ Min(T) \in Nat /\ m <= Min(T) /\ Min(T) <= m
  BY <1>1
<1>3. QED
  BY <1>2

LEMMA MaxIs ==
  ASSUME NEW T, T \subseteq Nat, NEW m \in T, \A k \in T : k <= m
  PROVE  Max(T) = m
<1>1. m \in Nat /\ \A k \in T : k \in Nat /\ m >= k
  OBVIOUS
<1> DEFINE Top(x) == \A k \in T : x >= k
<1>2. \E x \in T : Top(x)
  BY <1>1
<1>3. Max(T) = CHOOSE x \in T : Top(x)
  BY DEF Max
<1> HIDE DEF Top
<1>4. Max(T) \in T /\ Top(Max(T))
  BY <1>2, <1>3
<1>5. Max(T) \in T /\ \A k \in T : Max(T) >= k
  BY <1>4 DEF Top
<1>6. Max(T) \in Nat /\ Max(T) <= m /\ m <= Max(T)
  BY <1>1, <1>5
<1>7. QED
  BY <1>1, <1>6

----------------------------------------------------------------------------
(* Symbols.                                                                *)

Events == [type : STRING, n : Nat]
Symbols == {CR, LF, Name} \cup {Open(e) : e \in Events} \cup {Shut(e) : e \in Events}
Texts == Seq(Symbols)

IsOpen(x) == x.k = "open"

LEMMA Kinds ==
  /\ CR # LF /\ CR \in Symbols /\ LF \in Symbols /\ Name \in Symbols
  /\ Name \notin Eol
  /\ ~ IsOpen(CR) /\ ~ IsOpen(LF) /\ ~ IsOpen(Name)
  /\ \A e : IsOpen(Open(e)) /\ Open(e).ev = e /\ Open(e) \notin Eol
  /\ \A e : ~ IsOpen(Shut(e)) /\ Shut(e).ev = e /\ Shut(e) \notin Eol
  /\ \A e \in Events : Open(e) \in Symbols /\ Shut(e) \in Symbols
  /\ \A e, f : Open(e) # Shut(f)
  /\ \A x \in Eol : ~ IsOpen(x)
<1>1. CR.k = "CR" /\ LF.k = "LF" /\ Name.k = "name"
  BY DEF CR, LF, Name
<1>2. \A e : Open(e).k = "open" /\ Open(e).ev = e
  BY DEF Open
<1>3. \A e : Shut(e).k = "shut" /\ Shut(e).ev = e
  BY DEF Shut
<1>4. \A e \in Events : Open(e) \in Symbols /\ Shut(e) \in Symbols
  BY DEF Symbols
<1>5. CR \in Symbols /\ LF \in Symbols /\ Name \in Symbols
  BY DEF Symbols
<1>6. QED
  BY <1>1, <1>2, <1>3, <1>4, <1>5 DEF IsOpen, Eol

LEMMA OpenIs ==
  ASSUME NEW x \in Symbols, IsOpen(x)
  PROVE  x.ev \in Events /\ x = Open(x.ev)
<1>1. PICK e \in Events : x = Open(e)
  BY Kinds DEF Symbols
<1>2. QED
  BY <1>1, Kinds

----------------------------------------------------------------------------
(* Pieces of a text.                                                       *)

\* A piece holds the symbols of the text, d places on.
LEMMA PieceIs ==
  ASSUME NEW S \in Texts, NEW d \in 0..Len(S), NEW m \in d..Len(S)
  PROVE  /\ SubSeq(S, d + 1, m) \in Texts
         /\ Len(SubSeq(S, d + 1, m)) = m - d
         /\ DOMAIN SubSeq(S, d + 1, m) = 1..(m - d)
         /\ \A i \in 1..(m - d) : SubSeq(S, d + 1, m)[i] = S[d + i]
<1>1. Len(S) \in Nat /\ d \in Nat /\ m \in Nat /\ d <= m /\ m <= Len(S)
  BY LenProperties DEF Texts
<1>2. \A i \in (d + 1)..m : S[i] \in Symbols
  BY <1>1, ElementOfSeq DEF Texts
<1>3. d + 1 \in Int /\ m \in Int
  BY <1>1
<1> DEFINE P == SubSeq(S, d + 1, m)
<1>4. /\ P \in Seq(Symbols)
      /\ Len(P) = IF d + 1 <= m THEN m - (d + 1) + 1 ELSE 0
      /\ \A i \in 1..(m - (d + 1) + 1) : P[i] = S[d + 1 + i - 1]
  BY <1>2, <1>3, SubSeqProperties
<1>5. DOMAIN P = 1..Len(P)
  BY <1>4, LenProperties
<1> HIDE DEF P
<1>6. Len(P) = m - d
  BY <1>1, <1>4
<1>7. ASSUME NEW i \in 1..(m - d) PROVE P[i] = S[d + i]
  BY <1>1, <1>4
<1>8. QED
  BY <1>4, <1>5, <1>6, <1>7 DEF P, Texts

LEMMA SymbolAt ==
  ASSUME NEW S \in Texts
  PROVE  Len(S) \in Nat /\ DOMAIN S = 1..Len(S) /\ \A i \in 1..Len(S) : S[i] \in Symbols
BY LenProperties, ElementOfSeq DEF Texts

\* Two texts in a row.
LEMMA JoinIs ==
  ASSUME NEW S \in Texts, NEW T \in Texts
  PROVE  /\ S \o T \in Texts
         /\ Len(S \o T) = Len(S) + Len(T)
         /\ \A i \in 1..Len(S) : (S \o T)[i] = S[i]
         /\ \A i \in 1..Len(T) : (S \o T)[Len(S) + i] = T[i]
<1>1. Len(S) \in Nat /\ Len(T) \in Nat
  BY SymbolAt
<1>2. /\ S \o T \in Texts
      /\ Len(S \o T) = Len(S) + Len(T)
      /\ \A i \in 1..(Len(S) + Len(T)) :
           (S \o T)[i] = IF i <= Len(S) THEN S[i] ELSE T[i - Len(S)]
  BY ConcatProperties DEF Texts
<1>3. QED
  BY <1>1, <1>2

\* The next piece carries on where the last one ended.
LEMMA PiecesJoin ==
  ASSUME NEW S \in Texts, NEW d \in 0..Len(S), NEW m \in d..Len(S), NEW n \in m..Len(S)
  PROVE  SubSeq(S, d + 1, m) \o SubSeq(S, m + 1, n) = SubSeq(S, d + 1, n)
<1>1. Len(S) \in Nat /\ d \in Nat /\ m \in Nat /\ n \in Nat /\ d <= m /\ m <= n /\ n <= Len(S)
  BY SymbolAt
<1>2. m \in 0..Len(S) /\ n \in d..Len(S)
  BY <1>1
<1> DEFINE P == SubSeq(S, d + 1, m)
           Q == SubSeq(S, m + 1, n)
           R == SubSeq(S, d + 1, n)
<1>3. P \in Texts /\ Len(P) = m - d /\ \A i \in 1..(m - d) : P[i] = S[d + i]
  BY PieceIs
<1>4. Q \in Texts /\ Len(Q) = n - m /\ \A i \in 1..(n - m) : Q[i] = S[m + i]
  BY <1>2, PieceIs
<1>5. R \in Texts /\ Len(R) = n - d /\ \A i \in 1..(n - d) : R[i] = S[d + i]
  BY <1>2, PieceIs
<1> HIDE DEF P, Q, R
<1>6. /\ P \o Q \in Texts /\ Len(P \o Q) = Len(P) + Len(Q)
      /\ \A i \in 1..Len(P) : (P \o Q)[i] = P[i]
      /\ \A i \in 1..Len(Q) : (P \o Q)[Len(P) + i] = Q[i]
  BY <1>3, <1>4, JoinIs
<1>7. Len(P \o Q) = Len(R)
  BY <1>1, <1>3, <1>4, <1>5, <1>6
<1>8. ASSUME NEW i \in 1..Len(P \o Q) PROVE (P \o Q)[i] = R[i]
  <2>1. CASE i <= m - d
    BY <1>1, <1>3, <1>5, <1>6, <1>7, <2>1
  <2>2. CASE i > m - d
    <3>1. i - (m - d) \in 1..(n - m) /\ i \in 1..(n - d) /\ i = Len(P) + (i - (m - d))
      BY <1>1, <1>3, <1>5, <1>7, <2>2
    <3>2. (P \o Q)[i] = Q[i - (m - d)]
      BY <1>4, <1>6, <3>1
    <3>3. QED
      BY <1>1, <1>4, <1>5, <3>1, <3>2
  <2>3. QED
    BY <1>1, <2>1, <2>2
<1>9. QED
  BY <1>5, <1>6, <1>7, <1>8, SeqEqual DEF P, Q, R, Texts

----------------------------------------------------------------------------
(* The blank line that ends an event, by position in the text.             *)

Twice(S, i) == S[i] \in Eol /\ S[i+1] = S[i]
TwoLines(S, i) == S[i] = CR /\ S[i+1] = LF /\ S[i+2] = CR /\ S[i+3] = LF

\* A blank line of k symbols begins at i, in the first m symbols of S.
BlankAt(S, i, k, m) ==
  \/ k = 2 /\ i + 1 <= m /\ Twice(S, i)
  \/ k = 4 /\ i + 3 <= m /\ TwoLines(S, i)

\* The comparison with the four symbols is one of each.
LEMMA FourIs ==
  ASSUME NEW P \in Texts, NEW i \in 1..Len(P), i + 3 <= Len(P)
  PROVE  (SubSeq(P, i, i + 3) = <<CR, LF, CR, LF>>) <=> TwoLines(P, i)
<1>1. Len(P) \in Nat /\ i \in Nat
  BY SymbolAt
<1>2. i - 1 \in 0..Len(P) /\ i + 3 \in (i - 1)..Len(P) /\ (i - 1) + 1 = i
  BY <1>1
<1> DEFINE d == i - 1
           m == i + 3
           F == SubSeq(P, d + 1, m)
           G == <<CR, LF, CR, LF>>
<1>3. /\ F \in Texts /\ Len(F) = m - d
      /\ \A j \in 1..(m - d) : F[j] = P[d + j]
  <2>1. d \in 0..Len(P) /\ m \in d..Len(P)
    BY <1>2
  <2> HIDE DEF d, m
  <2>2. QED
    BY <2>1, PieceIs
<1>4. /\ Len(F) = 4 /\ F[1] = P[i] /\ F[2] = P[i + 1] /\ F[3] = P[i + 2] /\ F[4] = P[i + 3]
  <2>1. m - d = 4 /\ d + 1 = i /\ d + 2 = i + 1 /\ d + 3 = i + 2 /\ d + 4 = i + 3
    BY <1>1
  <2>2. 1 \in 1..(m - d) /\ 2 \in 1..(m - d) /\ 3 \in 1..(m - d) /\ 4 \in 1..(m - d)
    BY <2>1
  <2> HIDE DEF d, m, F
  <2>3. QED
    BY <1>3, <2>1, <2>2
<1>5. F = SubSeq(P, i, i + 3)
  BY <1>2
<1> HIDE DEF F
<1>6. G \in Seq(Symbols) /\ Len(G) = 4 /\ G[1] = CR /\ G[2] = LF /\ G[3] = CR /\ G[4] = LF
  BY Kinds
<1> HIDE DEF G
<1>7. ASSUME TwoLines(P, i) PROVE F = G
  <2>1. Len(F) = Len(G) /\ \A j \in 1..Len(F) : F[j] = G[j]
    BY <1>4, <1>6, <1>7 DEF TwoLines
  <2>2. QED
    BY <1>3, <1>6, <2>1, SeqEqual DEF Texts
<1>8. ASSUME F = G PROVE TwoLines(P, i)
  BY <1>4, <1>6, <1>8 DEF TwoLines
<1>9. QED
  BY <1>5, <1>7, <1>8 DEF G

\* The two blank lines exclude each other.
LEMMA OneBlank ==
  ASSUME NEW S, NEW i \in Nat, NEW k, NEW j, NEW m \in Nat, NEW n \in Nat,
         BlankAt(S, i, k, m), BlankAt(S, i, j, n)
  PROVE  j = k /\ k \in {2, 4} /\ i + k - 1 <= m
BY Kinds DEF BlankAt, Twice, TwoLines

\* EndsAt answers the length of the blank line, whatever is carried.
LEMMA EndsAtIs ==
  ASSUME NEW P \in Texts, NEW i \in 1..Len(P)
  PROVE  /\ EndsAt(P, i) \in {0, 2, 4}
         /\ \A k : BlankAt(P, i, k, Len(P)) <=> k = EndsAt(P, i) /\ k > 0
<1>1. Len(P) \in Nat /\ i \in Nat
  BY SymbolAt
<1> DEFINE A == i < Len(P) /\ P[i] \in Eol /\ P[i+1] = P[i]
           B == i + 3 <= Len(P) /\ SubSeq(P, i, i + 3) = <<CR, LF, CR, LF>>
<1>2. A <=> i + 1 <= Len(P) /\ Twice(P, i)
  BY <1>1 DEF Twice
<1>3. B <=> i + 3 <= Len(P) /\ TwoLines(P, i)
  BY FourIs
<1>4. ~ (A /\ B)
  BY <1>2, <1>3, Kinds DEF Twice, TwoLines
<1>5. /\ A => EndsAt(P, i) = 2
      /\ B => EndsAt(P, i) = 4
      /\ ~ A /\ ~ B => EndsAt(P, i) = 0
  <2>1. EndsAt(P, i) = CASE A -> 2 [] B -> 4 [] OTHER -> 0
    BY DEF EndsAt
  <2>2. A \in BOOLEAN /\ B \in BOOLEAN
    OBVIOUS
  <2> HIDE DEF A, B
  <2>3. CASE A
    BY <1>4, <2>1, <2>3
  <2>4. CASE B
    BY <1>4, <2>1, <2>4
  <2>5. CASE ~ A /\ ~ B
    BY <2>1, <2>5
  <2>6. QED
    BY <1>4, <2>2, <2>3, <2>4, <2>5
<1> HIDE DEF A, B
<1>6. QED
  BY <1>2, <1>3, <1>4, <1>5 DEF BlankAt

\* P is what follows the first d of the first m symbols.
Carried(P, S, d, m) == P = SubSeq(S, d + 1, m)

LEMMA CarriedIs ==
  ASSUME NEW S \in Texts, NEW d \in 0..Len(S), NEW m \in d..Len(S),
         NEW P, Carried(P, S, d, m)
  PROVE  /\ P \in Texts /\ Len(P) = m - d /\ DOMAIN P = 1..(m - d)
         /\ \A i \in 1..(m - d) : P[i] = S[d + i]
BY PieceIs DEF Carried

\* A blank line of what is carried is one of the text, d symbols on.
LEMMA BlankOfPiece ==
  ASSUME NEW S \in Texts, NEW d \in 0..Len(S), NEW m \in d..Len(S),
         NEW P, Carried(P, S, d, m), NEW i \in 1..Len(P), NEW k
  PROVE  BlankAt(P, i, k, Len(P)) <=> BlankAt(S, d + i, k, m)
<1>1. /\ Len(P) = m - d /\ \A j \in 1..(m - d) : P[j] = S[d + j]
  BY CarriedIs
<1>2. Len(S) \in Nat /\ d \in Nat /\ m \in Nat /\ i \in Nat /\ d <= m /\ i <= m - d
  BY <1>1, SymbolAt
<1>3. i + 1 <= Len(P) <=> (d + i) + 1 <= m
  BY <1>1, <1>2
<1>4. i + 3 <= Len(P) <=> (d + i) + 3 <= m
  BY <1>1, <1>2
<1>5. P[i] = S[d + i]
  BY <1>1, <1>2
<1>6. i + 1 <= Len(P) => P[i + 1] = S[(d + i) + 1]
  <2>1. i + 1 <= Len(P) => i + 1 \in 1..(m - d) /\ d + (i + 1) = (d + i) + 1
    BY <1>1, <1>2
  <2>2. QED
    BY <1>1, <2>1
<1>7. i + 3 <= Len(P) => P[i + 1] = S[(d + i) + 1] /\ P[i + 2] = S[(d + i) + 2]
                         /\ P[i + 3] = S[(d + i) + 3]
  <2>1. /\ d + (i + 1) = (d + i) + 1
        /\ d + (i + 2) = (d + i) + 2
        /\ d + (i + 3) = (d + i) + 3
    BY <1>2
  <2>2. i + 3 <= m - d =>
          i + 1 \in 1..(m - d) /\ i + 2 \in 1..(m - d) /\ i + 3 \in 1..(m - d)
    BY <1>2
  <2>3. QED
    BY <1>1, <2>1, <2>2
<1>8. QED
  BY <1>3, <1>4, <1>5, <1>6, <1>7 DEF BlankAt, Twice, TwoLines

\* The first blank line of what is carried: where the block before it ends,
\* and where the next one begins.
LEMMA FirstBlank ==
  ASSUME NEW S \in Texts, NEW d \in 0..Len(S), NEW m \in d..Len(S),
         NEW P, Carried(P, S, d, m), EventEnds(P) # {},
         NEW i, i = Min(EventEnds(P)), NEW k, k = EndsAt(P, i)
  PROVE  /\ i \in 1..Len(P) /\ k \in {2, 4} /\ d + i + k - 1 <= m
         /\ BlankAt(S, d + i, k, m)
         /\ \A x \in (d + 1)..m, j \in {2, 4} : BlankAt(S, x, j, m) => d + i <= x
<1>1. P \in Texts /\ Len(P) = m - d /\ DOMAIN P = 1..(m - d)
  BY CarriedIs
<1>2. Len(S) \in Nat /\ d \in Nat /\ m \in Nat /\ d <= m
  BY SymbolAt
<1>3. EventEnds(P) \subseteq 1..Len(P) /\ EventEnds(P) \subseteq Nat
  BY <1>1, <1>2 DEF EventEnds
<1>4. i \in EventEnds(P) /\ \A x \in EventEnds(P) : i <= x
  BY <1>3, MinIs
<1>5. i \in 1..Len(P) /\ k > 0
  BY <1>3, <1>4 DEF EventEnds
<1>6. k \in {2, 4} /\ BlankAt(P, i, k, Len(P))
  <2>1. /\ EndsAt(P, i) \in {0, 2, 4}
        /\ \A j : BlankAt(P, i, j, Len(P)) <=> j = EndsAt(P, i) /\ j > 0
    BY <1>1, <1>5, EndsAtIs
  <2>2. QED
    BY <1>5, <2>1
<1>7. BlankAt(S, d + i, k, m)
  BY <1>5, <1>6, BlankOfPiece
<1>8. d + i + k - 1 <= m
  BY <1>1, <1>2, <1>5, <1>7, OneBlank
<1>9. ASSUME NEW x \in (d + 1)..m, NEW j \in {2, 4}, BlankAt(S, x, j, m)
      PROVE  d + i <= x
  <2>1. x - d \in 1..Len(P) /\ d + (x - d) = x
    BY <1>1, <1>2
  <2>2. BlankAt(P, x - d, j, Len(P))
    BY <1>9, <2>1, BlankOfPiece
  <2>3. EndsAt(P, x - d) > 0
    BY <1>1, <2>1, <2>2, EndsAtIs
  <2>4. x - d \in EventEnds(P)
    BY <1>1, <2>1, <2>3 DEF EventEnds
  <2>5. QED
    BY <1>2, <1>4, <1>5, <2>1, <2>4
<1>10. QED
  BY <1>5, <1>6, <1>7, <1>8, <1>9

\* Without one, there is none in the text either.
LEMMA NoBlank ==
  ASSUME NEW S \in Texts, NEW d \in 0..Len(S), NEW m \in d..Len(S),
         NEW P, Carried(P, S, d, m), EventEnds(P) = {}
  PROVE  \A x \in (d + 1)..m, j \in {2, 4} : ~ BlankAt(S, x, j, m)
<1>1. P \in Texts /\ Len(P) = m - d /\ DOMAIN P = 1..(m - d)
  BY CarriedIs
<1>2. Len(S) \in Nat /\ d \in Nat /\ m \in Nat /\ d <= m
  BY SymbolAt
<1>3. SUFFICES ASSUME NEW x \in (d + 1)..m, NEW j \in {2, 4}, BlankAt(S, x, j, m)
               PROVE  FALSE
  OBVIOUS
<1>5. x - d \in 1..Len(P) /\ d + (x - d) = x
  BY <1>1, <1>2
<1>6. BlankAt(P, x - d, j, Len(P))
  <2>1. BlankAt(P, x - d, j, Len(P)) <=> BlankAt(S, d + (x - d), j, m)
    BY <1>5, BlankOfPiece
  <2>2. QED
    BY <1>3, <1>5, <2>1
<1>7. EndsAt(P, x - d) > 0
  BY <1>1, <1>5, <1>6, EndsAtIs
<1>8. QED
  BY <1>1, <1>5, <1>7 DEF EventEnds

----------------------------------------------------------------------------
(* What a text says.                                                       *)

Opens(S) == {i \in 1..Len(S) : IsOpen(S[i])}
Whole(S) == {i \in Opens(S) : i + 1 <= Len(S) /\ S[i+1] = Shut(S[i].ev)}
IsError(S, i) == S[i].ev.type = "error"

\* The whole payloads before the first error.
Heard(S) == {i \in Whole(S) : \A j \in Whole(S) : IsError(S, j) => i < j}

HeardOf(S, type, d) == {i \in Heard(S) : i <= d /\ S[i].ev.type = type}

IsNewest(n, S, type, d) ==
  \/ n = 0 /\ HeardOf(S, type, d) = {}
  \/ \E i \in HeardOf(S, type, d) :
       n = S[i].ev.n /\ \A j \in HeardOf(S, type, d) : j <= i

\* A payload begins a line and, unless it is torn, is one; between two there
\* is a blank line.
WellFormed(S) ==
  /\ \A i \in Opens(S) : i = 1 \/ S[i-1] \in Eol
  /\ \A i \in Opens(S) :
       \/ i = Len(S)
       \/ S[i+1] \in Eol
       \/ S[i+1] = Shut(S[i].ev) /\ (i + 1 = Len(S) \/ S[i+2] \in Eol)
  /\ \A i, j \in Opens(S) :
       i < j => \E x \in (i + 1)..j, k \in {2, 4} : BlankAt(S, x, k, j - 1)

\* The symbols from d + 1 to e, with at most one payload among them.
Block(S, d, e) ==
  /\ d \in 0..Len(S) /\ e \in d..Len(S)
  /\ e = Len(S) \/ S[e+1] \in Eol
  /\ \A i, j \in Opens(S) : d < i /\ i <= e /\ d < j /\ j <= e => i = j

LEMMA OpensIn ==
  ASSUME NEW S \in Texts, NEW i \in Opens(S)
  PROVE  /\ i \in 1..Len(S) /\ i \in Nat /\ Len(S) \in Nat
         /\ S[i] \in Symbols /\ IsOpen(S[i]) /\ S[i].ev \in Events /\ S[i] = Open(S[i].ev)
         /\ S[i] \notin Eol
<1>1. i \in 1..Len(S) /\ IsOpen(S[i]) /\ S[i] \in Symbols /\ Len(S) \in Nat
  BY SymbolAt DEF Opens
<1>2. S[i].ev \in Events /\ S[i] = Open(S[i].ev)
  BY <1>1, OpenIs
<1>3. S[i] \notin Eol
  BY <1>1, Kinds
<1>4. QED
  BY <1>1, <1>2, <1>3

\* A piece of a line of one or two symbols.
LEMMA PieceOfOne ==
  ASSUME NEW P \in Texts, NEW x \in 1..Len(P)
  PROVE  SubSeq(P, x, x) = <<P[x]>>
<1>1. Len(P) \in Nat /\ P[x] \in Symbols /\ \A i \in x..x : P[i] \in Symbols
  BY SymbolAt
<1>2. x \in Int /\ x \in Nat
  BY <1>1
<1> DEFINE F == SubSeq(P, x, x)
           G == <<P[x]>>
<1>3. /\ F \in Seq(Symbols) /\ Len(F) = IF x <= x THEN x - x + 1 ELSE 0
      /\ \A i \in 1..(x - x + 1) : F[i] = P[x + i - 1]
  BY <1>1, <1>2, SubSeqProperties
<1> HIDE DEF F
<1>4. Len(F) = 1 /\ F[1] = P[x]
  <2>1. x - x + 1 = 1 /\ x + 1 - 1 = x /\ x <= x
    BY <1>2
  <2>2. Len(F) = 1 /\ F[1] = P[x + 1 - 1]
    BY <1>3, <2>1
  <2>3. QED
    BY <2>1, <2>2
<1>5. G \in Seq(Symbols) /\ Len(G) = 1 /\ G[1] = P[x]
  BY <1>1
<1> HIDE DEF G
<1>6. Len(F) = Len(G) /\ \A i \in 1..Len(F) : F[i] = G[i]
  BY <1>4, <1>5
<1>7. QED
  BY <1>3, <1>5, <1>6, SeqEqual DEF F, G

LEMMA PieceOfTwo ==
  ASSUME NEW P \in Texts, NEW x \in 1..Len(P), x + 1 <= Len(P)
  PROVE  SubSeq(P, x, x + 1) = <<P[x], P[x+1]>>
<1>1. Len(P) \in Nat /\ x \in Nat /\ x + 1 \in 1..Len(P)
  BY SymbolAt
<1>2. P[x] \in Symbols /\ P[x+1] \in Symbols /\ \A i \in x..(x + 1) : P[i] \in Symbols
  BY <1>1, SymbolAt
<1> DEFINE F == SubSeq(P, x, x + 1)
           G == <<P[x], P[x+1]>>
<1>3. /\ F \in Seq(Symbols) /\ Len(F) = IF x <= x + 1 THEN x + 1 - x + 1 ELSE 0
      /\ \A i \in 1..(x + 1 - x + 1) : F[i] = P[x + i - 1]
  <2>1. x \in Int /\ x + 1 \in Int
    BY <1>1
  <2>2. QED
    BY <1>2, <2>1, SubSeqProperties
<1> HIDE DEF F
<1>4. Len(F) = 2 /\ F[1] = P[x] /\ F[2] = P[x+1]
  <2>1. x + 1 - x + 1 = 2 /\ x + 1 - 1 = x /\ x + 2 - 1 = x + 1 /\ x <= x + 1
    BY <1>1
  <2>2. Len(F) = 2 /\ F[1] = P[x + 1 - 1] /\ F[2] = P[x + 2 - 1]
    BY <1>3, <2>1
  <2>3. QED
    BY <2>1, <2>2
<1>5. G \in Seq(Symbols) /\ Len(G) = 2 /\ G[1] = P[x] /\ G[2] = P[x+1]
  BY <1>2
<1> HIDE DEF G
<1>6. Len(F) = Len(G) /\ \A i \in 1..Len(F) : F[i] = G[i]
  BY <1>4, <1>5
<1>7. QED
  BY <1>3, <1>5, <1>6, SeqEqual DEF F, G

\* The symbols of the data line that begins at i.
LineAt(S, i) == IF i \in Whole(S) THEN <<S[i], S[i+1]>> ELSE <<S[i]>>

\* A data line begins at a payload and ends where that does, whole or torn.
LEMMA LineOf ==
  ASSUME NEW S \in Texts, WellFormed(S), NEW d, NEW e, Block(S, d, e),
         NEW raw, Carried(raw, S, d, e), NEW i \in Opens(S), d < i, i <= e
  PROVE  SubSeq(raw, i - d, LineEnd(raw, i - d)) = LineAt(S, i)
<1> DEFINE x == i - d
           Ends == {j \in x..(Len(raw) + 1) : j = Len(raw) + 1 \/ raw[j] \in Eol}
<1>1. d \in 0..Len(S) /\ e \in d..Len(S) /\ (e = Len(S) \/ S[e+1] \in Eol)
  BY DEF Block
<1>2. /\ raw \in Texts /\ Len(raw) = e - d
      /\ \A j \in 1..(e - d) : raw[j] = S[d + j]
  BY <1>1, CarriedIs
<1>3. /\ i \in Nat /\ Len(S) \in Nat /\ i \in 1..Len(S) /\ S[i] = Open(S[i].ev)
      /\ S[i] \notin Eol
  BY OpensIn
<1>4. d \in Nat /\ e \in Nat /\ d <= e /\ e <= Len(S)
  BY <1>1, <1>3
<1>5. x \in 1..(e - d) /\ d + x = i /\ x \in Nat
  BY <1>3, <1>4
<1>6. /\ raw[x] = S[i]
      /\ x + 1 <= e - d => raw[x+1] = S[i+1]
      /\ x + 2 <= e - d => raw[x+2] = S[i+2]
  <2>1. d + (x + 1) = i + 1 /\ d + (x + 2) = i + 2
    BY <1>4, <1>5
  <2> HIDE DEF x
  <2>2. QED
    BY <1>2, <1>4, <1>5, <2>1
<1>7. LineEnd(raw, x) = Min(Ends) - 1
  BY DEF LineEnd
<1>8. Ends \subseteq Nat
  BY <1>2, <1>4, <1>5
<1>9. CASE i \in Whole(S)
  <2>1. i + 1 <= Len(S) /\ S[i+1] = Shut(S[i].ev) /\ S[i+1] \notin Eol
    BY <1>9, Kinds DEF Whole
  <2>2. i + 1 = Len(S) \/ S[i+2] \in Eol
    BY <1>3, <2>1 DEF WellFormed
  <2>3. i + 1 <= e
    BY <1>1, <1>3, <1>4, <2>1
  <2>4. x + 1 <= e - d
    BY <1>4, <1>5, <2>3
  <2>5. raw[x] \notin Eol /\ raw[x+1] \notin Eol
    BY <1>3, <1>6, <2>1, <2>4
  <2>6. x + 2 = Len(raw) + 1 \/ (x + 2 <= Len(raw) /\ raw[x+2] \in Eol)
    <3>1. CASE e = i + 1
      BY <1>2, <1>4, <1>5, <3>1
    <3>2. CASE e # i + 1
      BY <1>2, <1>3, <1>4, <1>5, <1>6, <2>2, <2>3, <3>2
    <3>3. QED
      BY <3>1, <3>2
  <2>7. x + 2 \in Ends /\ \A j \in Ends : x + 2 <= j
    <3>1. x \in Nat /\ Len(raw) \in Nat /\ x + 1 <= Len(raw)
      BY <1>2, <1>4, <1>5, <2>4
    <3> HIDE DEF x
    <3>2. QED
      BY <2>5, <2>6, <3>1
  <2>8. Min(Ends) = x + 2
    <3> HIDE DEF Ends, x
    <3>1. QED
      BY <1>8, <2>7, MinEquals
  <2>9. LineEnd(raw, x) = x + 1
    <3> HIDE DEF Ends, x
    <3>1. QED
      BY <1>5, <1>7, <2>8
  <2>10. SubSeq(raw, x, x + 1) = <<raw[x], raw[x+1]>>
    <3> HIDE DEF x
    <3>1. QED
      BY <1>2, <1>5, <2>4, PieceOfTwo
  <2> HIDE DEF x
  <2>11. SubSeq(raw, x, LineEnd(raw, x)) = LineAt(S, i)
    BY <1>6, <1>9, <2>4, <2>9, <2>10 DEF LineAt
  <2>12. QED
    BY <2>11 DEF x
<1>10. CASE i \notin Whole(S)
  <2>1. i = Len(S) \/ (i + 1 <= Len(S) /\ S[i+1] \in Eol)
    BY <1>3, <1>10 DEF WellFormed, Whole
  <2>2. x + 1 = Len(raw) + 1 \/ (x + 1 <= Len(raw) /\ raw[x+1] \in Eol)
    <3>1. CASE e = i
      BY <1>2, <1>4, <1>5, <3>1
    <3>2. CASE e # i
      BY <1>2, <1>3, <1>4, <1>5, <1>6, <2>1, <3>2
    <3>3. QED
      BY <3>1, <3>2
  <2>3. x + 1 \in Ends /\ \A j \in Ends : x + 1 <= j
    <3>1. x \in Nat /\ Len(raw) \in Nat /\ x <= Len(raw) /\ raw[x] \notin Eol
      BY <1>2, <1>3, <1>4, <1>5, <1>6
    <3> HIDE DEF x
    <3>2. QED
      BY <2>2, <3>1
  <2>4. Min(Ends) = x + 1
    <3> HIDE DEF Ends, x
    <3>1. QED
      BY <1>8, <2>3, MinEquals
  <2>5. LineEnd(raw, x) = x
    <3> HIDE DEF Ends, x
    <3>1. QED
      BY <1>5, <1>7, <2>4
  <2>6. SubSeq(raw, x, x) = <<raw[x]>>
    <3> HIDE DEF x
    <3>1. QED
      BY <1>2, <1>5, PieceOfOne
  <2> HIDE DEF x
  <2>7. SubSeq(raw, x, LineEnd(raw, x)) = LineAt(S, i)
    BY <1>6, <1>10, <2>5, <2>6 DEF LineAt
  <2>8. QED
    BY <2>7 DEF x
<1>11. QED
  BY <1>9, <1>10

\* A block has the data line of its payload, if it has one.
LEMMA DataLinesOf ==
  ASSUME NEW S \in Texts, WellFormed(S), NEW d, NEW e, Block(S, d, e),
         NEW raw, Carried(raw, S, d, e)
  PROVE  /\ (\A i \in Opens(S) : ~ (d < i /\ i <= e)) => DataLines(raw) = {}
         /\ \A i \in Opens(S) : d < i /\ i <= e =>
              /\ DataLines(raw) = {LineAt(S, i)}
              /\ {raw[y].ev : y \in {z \in DOMAIN raw : raw[z].k = "open"}} = {S[i].ev}
<1>1. d \in 0..Len(S) /\ e \in d..Len(S)
  BY DEF Block
<1>2. /\ raw \in Texts /\ Len(raw) = e - d /\ DOMAIN raw = 1..(e - d)
      /\ \A j \in 1..(e - d) : raw[j] = S[d + j]
  BY <1>1, CarriedIs
<1>3. d \in Nat /\ e \in Nat /\ d <= e /\ e <= Len(S) /\ Len(S) \in Nat
  BY <1>1, SymbolAt
<1> DEFINE Starts == {j \in LineStarts(raw) : raw[j].k = "open"}
           Here == {z \in DOMAIN raw : raw[z].k = "open"}
<1>4. ASSUME NEW z \in DOMAIN raw, raw[z].k = "open"
      PROVE  d + z \in Opens(S) /\ d < d + z /\ d + z <= e /\ z = (d + z) - d
  BY <1>2, <1>3, <1>4 DEF Opens, IsOpen
<1>5. DataLines(raw) = {SubSeq(raw, j, LineEnd(raw, j)) : j \in Starts}
  BY DEF DataLines
<1>6. Starts \subseteq Here
  BY DEF LineStarts
<1>7. ASSUME \A i \in Opens(S) : ~ (d < i /\ i <= e) PROVE DataLines(raw) = {}
  <2>1. Starts = {}
    BY <1>4, <1>6, <1>7
  <2> HIDE DEF Starts
  <2>2. QED
    BY <1>5, <2>1
<1>8. ASSUME NEW i \in Opens(S), d < i, i <= e
      PROVE  /\ DataLines(raw) = {LineAt(S, i)}
             /\ {raw[y].ev : y \in Here} = {S[i].ev}
  <2> DEFINE x == i - d
  <2>1. i \in Nat /\ i \in 1..Len(S) /\ IsOpen(S[i])
    BY OpensIn
  <2>2. x \in 1..(e - d) /\ d + x = i
    BY <1>3, <1>8, <2>1
  <2>3. raw[x] = S[i] /\ x \in DOMAIN raw /\ raw[x].k = "open"
    <3> HIDE DEF x
    <3>1. QED
      BY <1>2, <2>1, <2>2 DEF IsOpen
  <2>4. x = 1 \/ raw[x-1] \in Eol
    <3>1. CASE x = 1
      BY <3>1
    <3>2. CASE x # 1
      <4>1. x - 1 \in 1..(e - d) /\ d + (x - 1) = i - 1 /\ i # 1
        BY <1>3, <2>1, <2>2, <3>2
      <4>2. S[i-1] \in Eol
        BY <4>1 DEF WellFormed
      <4> HIDE DEF x
      <4>3. QED
        BY <1>2, <4>1, <4>2
    <3>3. QED
      BY <3>1, <3>2
  <2>5. x \in Starts
    <3> HIDE DEF x
    <3>1. QED
      BY <2>3, <2>4 DEF LineStarts
  <2>6. ASSUME NEW z \in Here PROVE z = x
    <3>1. d + z \in Opens(S) /\ d < d + z /\ d + z <= e
      BY <1>4
    <3>2. d + z = i
      BY <1>8, <3>1 DEF Block
    <3>3. QED
      BY <1>2, <1>3, <3>2
  <2>7. Starts = {x} /\ Here = {x}
    <3> HIDE DEF x
    <3>1. x \in Here
      BY <1>6, <2>5
    <3> HIDE DEF Starts, Here
    <3>2. QED
      BY <1>6, <2>5, <2>6, <3>1
  <2>8. SubSeq(raw, x, LineEnd(raw, x)) = LineAt(S, i)
    BY <1>8, LineOf
  <2> HIDE DEF Starts, Here, x
  <2>9. QED
    BY <1>5, <2>3, <2>7, <2>8
<1>9. QED
  BY <1>7, <1>8

\* A block is JSON when its one payload is whole.
LEMMA PayloadOf ==
  ASSUME NEW S \in Texts, WellFormed(S), NEW d, NEW e, Block(S, d, e),
         NEW raw, Carried(raw, S, d, e), NEW i \in Opens(S), d < i, i <= e
  PROVE  /\ DataLines(raw) # {}
         /\ i \in Whole(S) => Payload(raw) = {S[i].ev}
         /\ i \notin Whole(S) => Payload(raw) = {}
<1>1. /\ DataLines(raw) = {LineAt(S, i)}
      /\ {raw[y].ev : y \in {z \in DOMAIN raw : raw[z].k = "open"}} = {S[i].ev}
  BY DataLinesOf
<1>2. Payload(raw) = {f \in {S[i].ev} : {LineAt(S, i)} = {<<Open(f), Shut(f)>>}}
  BY <1>1 DEF Payload
<1>3. S[i] = Open(S[i].ev)
  BY OpensIn
<1>4. i \in Whole(S) => LineAt(S, i) = <<Open(S[i].ev), Shut(S[i].ev)>>
  BY <1>3 DEF LineAt, Whole
<1>5. i \notin Whole(S) => LineAt(S, i) # <<Open(S[i].ev), Shut(S[i].ev)>>
  <2>1. Len(<<S[i]>>) = 1 /\ Len(<<Open(S[i].ev), Shut(S[i].ev)>>) = 2
    OBVIOUS
  <2>2. QED
    BY <2>1 DEF LineAt
<1>6. QED
  BY <1>1, <1>2, <1>4, <1>5

----------------------------------------------------------------------------
(* What the parser knows of the first d symbols of a text.                 *)

Usages == [input : Nat, output : Nat, stream : BOOLEAN, events : Nat]
Parsers == [buf : Texts, usage : Usages, events : Nat, err : BOOLEAN]

OpensTo(S, d) == {i \in Opens(S) : i <= d}

Told(p, S, d) ==
  /\ p \in Parsers /\ p.usage.stream = FALSE
  /\ p.err <=> \E i \in Whole(S) : i <= d /\ IsError(S, i)
  /\ p.events = Cardinality(OpensTo(S, d))
  /\ IsNewest(p.usage.input, S, "message_start", d)
  /\ IsNewest(p.usage.output, S, "message_delta", d)

LEMMA OpensFinite ==
  ASSUME NEW S \in Texts, NEW d
  PROVE  IsFiniteSet(OpensTo(S, d)) /\ Cardinality(OpensTo(S, d)) \in Nat
<1>1. 1 \in Int /\ Len(S) \in Int
  BY SymbolAt
<1>2. IsFiniteSet(1..Len(S))
  BY <1>1, FS_Interval
<1>3. OpensTo(S, d) \subseteq 1..Len(S)
  BY DEF OpensTo, Opens
<1>4. IsFiniteSet(OpensTo(S, d))
  BY <1>2, <1>3, FS_Subset
<1>5. QED
  BY <1>4, FS_CardinalityType

\* Without a payload of a type in between, the newest stays the newest.
LEMMA NewestOn ==
  ASSUME NEW S \in Texts, NEW d \in Nat, NEW e \in Nat, d <= e, NEW n, NEW type,
         \A i \in Heard(S) : d < i /\ i <= e => S[i].ev.type # type,
         IsNewest(n, S, type, d)
  PROVE  IsNewest(n, S, type, e)
<1>1. \A i \in Heard(S) : i \in Nat
  BY OpensIn DEF Heard, Whole
<1>2. HeardOf(S, type, e) = HeardOf(S, type, d)
  BY <1>1 DEF HeardOf
<1>3. QED
  BY <1>2 DEF IsNewest

\* The one payload of a block becomes the newest of its type.
LEMMA NewestTaken ==
  ASSUME NEW S \in Texts, NEW d \in Nat, NEW e \in Nat, d <= e, NEW type,
         NEW i \in Heard(S), d < i, i <= e, S[i].ev.type = type,
         \A j \in Heard(S) : d < j /\ j <= e => j = i
  PROVE  IsNewest(S[i].ev.n, S, type, e)
<1>1. \A j \in Heard(S) : j \in Nat
  BY OpensIn DEF Heard, Whole
<1>2. i \in HeardOf(S, type, e)
  BY DEF HeardOf
<1>3. ASSUME NEW j \in HeardOf(S, type, e) PROVE j <= i
  <2>1. j \in Heard(S) /\ j <= e /\ j \in Nat /\ i \in Nat
    BY <1>1 DEF HeardOf
  <2>2. CASE d < j
    BY <2>1, <2>2
  <2>3. CASE ~ (d < j)
    BY <2>1, <2>3
  <2>4. QED
    BY <2>2, <2>3
<1>4. QED
  BY <1>2, <1>3 DEF IsNewest

\* Symbols without a payload tell nothing.
LEMMA ToldOn ==
  ASSUME NEW S \in Texts, NEW d \in Nat, NEW e \in Nat, d <= e,
         \A i \in Opens(S) : ~ (d < i /\ i <= e), NEW p, Told(p, S, d)
  PROVE  Told(p, S, e)
<1>1. \A i \in Opens(S) : i \in Nat
  BY OpensIn
<1>2. OpensTo(S, e) = OpensTo(S, d)
  BY <1>1 DEF OpensTo
<1>3. Heard(S) \subseteq Opens(S) /\ Whole(S) \subseteq Opens(S)
  BY DEF Heard, Whole
<1>4. (\E i \in Whole(S) : i <= d /\ IsError(S, i))
        <=> (\E i \in Whole(S) : i <= e /\ IsError(S, i))
  BY <1>1, <1>3
<1>5. \A i \in Heard(S) : \A type : d < i /\ i <= e => S[i].ev.type # type
  BY <1>3
<1>6. IsNewest(p.usage.input, S, "message_start", e)
  BY <1>5, NewestOn DEF Told
<1>7. IsNewest(p.usage.output, S, "message_delta", e)
  BY <1>5, NewestOn DEF Told
<1>8. QED
  BY <1>2, <1>4, <1>6, <1>7 DEF Told

\* One more event is counted.
Counted(p) == [p EXCEPT !.events = @ + 1]

LEMMA CountedIs ==
  ASSUME NEW p \in Parsers
  PROVE  /\ Counted(p) \in Parsers /\ Counted(p).events = p.events + 1
         /\ Counted(p).buf = p.buf /\ Counted(p).usage = p.usage /\ Counted(p).err = p.err
BY DEF Counted, Parsers

LEMMA ApplyIs ==
  ASSUME NEW p \in Parsers, NEW e \in Events
  PROVE  LET q == ApplyEvent(p, e) IN
         /\ q \in Parsers /\ q.buf = p.buf /\ q.events = p.events
         /\ q.usage.stream = p.usage.stream
         /\ q.usage.input = IF e.type = "message_start" THEN e.n ELSE p.usage.input
         /\ q.usage.output = IF e.type = "message_delta" THEN e.n ELSE p.usage.output
         /\ q.err = (p.err \/ e.type = "error")
<1>1. e.type \in STRING /\ e.n \in Nat /\ p.err \in BOOLEAN /\ p.usage \in Usages
  BY DEF Events, Parsers
<1>2. CASE e.type = "message_start"
  BY <1>1, <1>2 DEF ApplyEvent, Parsers, Usages
<1>3. CASE e.type = "message_delta"
  BY <1>1, <1>3 DEF ApplyEvent, Parsers, Usages
<1>4. CASE e.type = "error"
  BY <1>1, <1>4 DEF ApplyEvent, Parsers, Usages
<1>5. CASE e.type \notin {"message_start", "message_delta", "error"}
  <2>1. ApplyEvent(p, e) = p
    BY <1>5 DEF ApplyEvent
  <2>2. QED
    BY <1>1, <1>5, <2>1
<1>6. QED
  BY <1>2, <1>3, <1>4, <1>5

\* A block is counted if it has a payload, and tells it if that is whole.
LEMMA ProcessEventIs ==
  ASSUME NEW S \in Texts, WellFormed(S), NEW d, NEW e, Block(S, d, e),
         NEW raw, Carried(raw, S, d, e), NEW p
  PROVE  /\ (\A i \in Opens(S) : ~ (d < i /\ i <= e)) => ProcessEvent(p, raw) = p
         /\ \A i \in Opens(S) : d < i /\ i <= e =>
              ProcessEvent(p, raw) = IF i \in Whole(S) THEN ApplyEvent(Counted(p), S[i].ev)
                                     ELSE Counted(p)
<1>1. ASSUME \A i \in Opens(S) : ~ (d < i /\ i <= e) PROVE ProcessEvent(p, raw) = p
  <2>1. DataLines(raw) = {}
    BY <1>1, DataLinesOf
  <2>2. QED
    BY <2>1 DEF ProcessEvent
<1>2. ASSUME NEW i \in Opens(S), d < i, i <= e
      PROVE  ProcessEvent(p, raw) = IF i \in Whole(S) THEN ApplyEvent(Counted(p), S[i].ev)
                                    ELSE Counted(p)
  <2>1. /\ DataLines(raw) # {}
        /\ i \in Whole(S) => Payload(raw) = {S[i].ev}
        /\ i \notin Whole(S) => Payload(raw) = {}
    BY <1>2, PayloadOf
  <2>2. CASE i \in Whole(S)
    <3>1. (CHOOSE f \in Payload(raw) : TRUE) = S[i].ev /\ Payload(raw) # {}
      BY <2>1, <2>2
    <3>2. ProcessEvent(p, raw) = ApplyEvent(Counted(p), CHOOSE f \in Payload(raw) : TRUE)
      BY <2>1, <3>1 DEF ProcessEvent, Counted
    <3>3. QED
      BY <2>2, <3>1, <3>2
  <2>3. CASE i \notin Whole(S)
    BY <2>1, <2>3 DEF ProcessEvent, Counted
  <2>4. QED
    BY <2>2, <2>3
<1>3. QED
  BY <1>1, <1>2

\* One more payload begins.
LEMMA OneMore ==
  ASSUME NEW S \in Texts, NEW d \in Nat, NEW e \in Nat, d <= e,
         NEW i \in Opens(S), d < i, i <= e,
         \A j \in Opens(S) : d < j /\ j <= e => j = i
  PROVE  Cardinality(OpensTo(S, e)) = Cardinality(OpensTo(S, d)) + 1
<1>1. \A j \in Opens(S) : j \in Nat
  BY OpensIn
<1>2. OpensTo(S, e) = OpensTo(S, d) \cup {i} /\ i \notin OpensTo(S, d)
  BY <1>1 DEF OpensTo
<1>3. IsFiniteSet(OpensTo(S, d))
  BY OpensFinite
<1>4. QED
  BY <1>2, <1>3, FS_AddElement

\* To process a block is to know what it tells.
LEMMA BlockTold ==
  ASSUME NEW S \in Texts, WellFormed(S), NEW d, NEW e, Block(S, d, e),
         NEW raw, Carried(raw, S, d, e), NEW p, Told(p, S, d), ~ p.err
  PROVE  Told(ProcessEvent(p, raw), S, e) /\ ProcessEvent(p, raw).buf = p.buf
<1>1. d \in Nat /\ e \in Nat /\ d <= e
  BY SymbolAt DEF Block
<1>2. \A i \in Opens(S) : i \in Nat
  BY OpensIn
<1>3. Heard(S) \subseteq Whole(S) /\ Whole(S) \subseteq Opens(S)
  BY DEF Heard, Whole
<1>4. CASE \A i \in Opens(S) : ~ (d < i /\ i <= e)
  BY <1>1, <1>4, ToldOn, ProcessEventIs
<1>5. ASSUME NEW i \in Opens(S), d < i, i <= e
      PROVE  Told(ProcessEvent(p, raw), S, e) /\ ProcessEvent(p, raw).buf = p.buf
  <2> DEFINE q == Counted(p)
             r == ProcessEvent(p, raw)
             v == S[i].ev
  <2>1. r = IF i \in Whole(S) THEN ApplyEvent(q, v) ELSE q
    BY <1>5, ProcessEventIs
  <2>2. \A j \in Opens(S) : d < j /\ j <= e => j = i
    BY <1>5 DEF Block
  <2>3. Cardinality(OpensTo(S, e)) = Cardinality(OpensTo(S, d)) + 1
    BY <1>1, <1>5, <2>2, OneMore
  <2>4. /\ p \in Parsers /\ p.usage.stream = FALSE /\ p.err = FALSE
        /\ p.events = Cardinality(OpensTo(S, d))
        /\ IsNewest(p.usage.input, S, "message_start", d)
        /\ IsNewest(p.usage.output, S, "message_delta", d)
        /\ \A j \in Whole(S) : j <= d => ~ IsError(S, j)
    BY DEF Told, Parsers
  <2>5. /\ q \in Parsers /\ q.events = p.events + 1
        /\ q.buf = p.buf /\ q.usage = p.usage /\ q.err = FALSE
    BY <2>4, CountedIs
  <2>6. v \in Events
    BY OpensIn
  <2>7. CASE i \notin Whole(S)
    <3>1. r = q
      BY <2>1, <2>7
    <3>2. \A j \in Whole(S) : ~ (d < j /\ j <= e)
      BY <1>3, <2>2, <2>7
    <3>3. \A j \in Whole(S) : j <= e => ~ IsError(S, j)
      BY <1>1, <1>2, <1>3, <2>4, <3>2
    <3>4. \A j \in Heard(S) : \A type : d < j /\ j <= e => S[j].ev.type # type
      BY <1>3, <3>2
    <3>5. IsNewest(p.usage.input, S, "message_start", e)
      BY <1>1, <2>4, <3>4, NewestOn
    <3>6. IsNewest(p.usage.output, S, "message_delta", e)
      BY <1>1, <2>4, <3>4, NewestOn
    <3> HIDE DEF q, r
    <3>7. Told(q, S, e)
      BY <2>3, <2>4, <2>5, <3>3, <3>5, <3>6 DEF Told
    <3>8. QED
      BY <2>5, <3>1, <3>7 DEF r
  <2>8. CASE i \in Whole(S)
    <3>1. /\ r \in Parsers /\ r.buf = p.buf /\ r.events = p.events + 1
          /\ r.usage.stream = FALSE
          /\ r.usage.input = IF v.type = "message_start" THEN v.n ELSE p.usage.input
          /\ r.usage.output = IF v.type = "message_delta" THEN v.n ELSE p.usage.output
          /\ r.err = (v.type = "error")
      <4>1. r = ApplyEvent(q, v)
        BY <2>1, <2>8
      <4> HIDE DEF q, r, v
      <4>2. QED
        BY <2>4, <2>5, <2>6, <4>1, ApplyIs
    <3>2. r.err <=> \E j \in Whole(S) : j <= e /\ IsError(S, j)
      <4>1. v.type = "error" <=> IsError(S, i)
        BY DEF IsError
      <4>2. \A j \in Whole(S) : j <= e /\ IsError(S, j) => j = i
        BY <1>1, <1>2, <1>3, <2>2, <2>4
      <4> HIDE DEF r, v
      <4>3. QED
        BY <1>5, <2>8, <3>1, <4>1, <4>2
    <3>3. ASSUME v.type # "error" PROVE i \in Heard(S)
      <4>1. ASSUME NEW j \in Whole(S), IsError(S, j) PROVE i < j
        <5>1. j # i
          BY <3>3, <4>1 DEF IsError
        <5>2. j \in Nat /\ i \in Nat /\ ~ (j <= d) /\ ~ (d < j /\ j <= e)
          BY <1>2, <1>3, <2>2, <2>4, <4>1, <5>1
        <5>3. QED
          BY <1>1, <1>5, <5>2
      <4>2. QED
        BY <2>8, <4>1 DEF Heard
    <3>4. \A j \in Heard(S) : d < j /\ j <= e => j = i
      BY <1>3, <2>2
    <3>5. IsNewest(r.usage.input, S, "message_start", e)
      <4>1. CASE v.type = "message_start"
        <5>1. i \in Heard(S)
          BY <3>3, <4>1
        <5>2. IsNewest(S[i].ev.n, S, "message_start", e)
          BY <1>1, <1>5, <3>4, <4>1, <5>1, NewestTaken
        <5>3. QED
          BY <3>1, <4>1, <5>2
      <4>2. CASE v.type # "message_start"
        <5>1. \A j \in Heard(S) : d < j /\ j <= e => S[j].ev.type # "message_start"
          BY <3>4, <4>2
        <5>2. IsNewest(p.usage.input, S, "message_start", e)
          BY <1>1, <2>4, <5>1, NewestOn
        <5>3. QED
          BY <3>1, <4>2, <5>2
      <4>3. QED
        BY <4>1, <4>2
    <3>6. IsNewest(r.usage.output, S, "message_delta", e)
      <4>1. CASE v.type = "message_delta"
        <5>1. i \in Heard(S)
          BY <3>3, <4>1
        <5>2. IsNewest(S[i].ev.n, S, "message_delta", e)
          BY <1>1, <1>5, <3>4, <4>1, <5>1, NewestTaken
        <5>3. QED
          BY <3>1, <4>1, <5>2
      <4>2. CASE v.type # "message_delta"
        <5>1. \A j \in Heard(S) : d < j /\ j <= e => S[j].ev.type # "message_delta"
          BY <3>4, <4>2
        <5>2. IsNewest(p.usage.output, S, "message_delta", e)
          BY <1>1, <2>4, <5>1, NewestOn
        <5>3. QED
          BY <3>1, <4>2, <5>2
      <4>3. QED
        BY <4>1, <4>2
    <3> HIDE DEF r, v
    <3>7. Told(r, S, e)
      BY <2>3, <2>4, <3>1, <3>2, <3>5, <3>6 DEF Told
    <3>8. QED
      BY <3>1, <3>7 DEF r
  <2>9. QED
    BY <2>7, <2>8
<1>6. QED
  BY <1>4, <1>5

----------------------------------------------------------------------------
(* The rounds of the parser.                                               *)

\* There is no event left to take.
Stopped(p) == p.err \/ EventEnds(p.buf) = {}

\* The parser was fed the first m symbols of S, and carries what it has not
\* passed.
Reads(p, S, m) ==
  \E d \in 0..m : Told(p, S, d) /\ (~ p.err => Carried(p.buf, S, d, m))

\* A piece of a piece is a piece of the text.
LEMMA PieceOfPiece ==
  ASSUME NEW S \in Texts, NEW d \in 0..Len(S), NEW m \in d..Len(S),
         NEW P, Carried(P, S, d, m), NEW a \in 0..Len(P), NEW b \in a..Len(P)
  PROVE  Carried(SubSeq(P, a + 1, b), S, d + a, d + b)
<1>1. /\ P \in Texts /\ Len(P) = m - d
      /\ \A i \in 1..(m - d) : P[i] = S[d + i]
  BY CarriedIs
<1>2. Len(S) \in Nat /\ d \in Nat /\ m \in Nat /\ d <= m /\ m <= Len(S)
  BY SymbolAt
<1>3. a \in Nat /\ b \in Nat /\ a <= b /\ b <= m - d
  BY <1>1, <1>2
<1> DEFINE c == d + a
           e == d + b
           Q == SubSeq(P, a + 1, b)
           R == SubSeq(S, c + 1, e)
<1>4. c \in 0..Len(S) /\ e \in c..Len(S) /\ e - c = b - a
  BY <1>2, <1>3
<1>5. Q \in Texts /\ Len(Q) = b - a /\ \A i \in 1..(b - a) : Q[i] = P[a + i]
  BY <1>1, PieceIs
<1>6. R \in Texts /\ Len(R) = e - c /\ \A i \in 1..(e - c) : R[i] = S[c + i]
  <2> HIDE DEF c, e
  <2>1. QED
    BY <1>4, PieceIs
<1>7. ASSUME NEW i \in 1..(b - a) PROVE Q[i] = R[i]
  <2>1. a + i \in 1..(m - d) /\ d + (a + i) = c + i
    BY <1>2, <1>3
  <2> HIDE DEF c, e, Q, R
  <2>2. QED
    BY <1>1, <1>4, <1>5, <1>6, <2>1
<1> HIDE DEF Q, R, c, e
<1>8. Len(Q) = Len(R) /\ \A i \in 1..Len(Q) : Q[i] = R[i]
  BY <1>4, <1>5, <1>6, <1>7
<1>9. Q = R
  BY <1>5, <1>6, <1>8, SeqEqual DEF Texts
<1>10. QED
  BY <1>9 DEF Carried, Q, R, c, e

\* A blank line within fewer symbols is one within more.
LEMMA BlankStays ==
  ASSUME NEW S, NEW x \in Nat, NEW k, NEW m \in Nat, NEW n \in Nat, m <= n, BlankAt(S, x, k, m)
  PROVE  BlankAt(S, x, k, n)
BY DEF BlankAt

\* A blank line is all line ends.
LEMMA BlankSymbols ==
  ASSUME NEW S, NEW x \in Nat, NEW k, NEW m \in Nat, BlankAt(S, x, k, m)
  PROVE  \A y \in x..(x + k - 1) : S[y] \in Eol
<1>1. CASE k = 2
  <2>1. Twice(S, x)
    BY <1>1 DEF BlankAt
  <2>2. \A y \in x..(x + k - 1) : y = x \/ y = x + 1
    BY <1>1
  <2>3. QED
    BY <2>1, <2>2 DEF Twice
<1>2. CASE k # 2
  <2>1. k = 4 /\ TwoLines(S, x)
    BY <1>2 DEF BlankAt
  <2>2. \A y \in x..(x + k - 1) : y = x \/ y = x + 1 \/ y = x + 2 \/ y = x + 3
    BY <2>1
  <2>3. QED
    BY <2>1, <2>2 DEF TwoLines, Eol
<1>3. QED
  BY <1>1, <1>2

\* Up to the first blank line, or the end, there is at most one payload.
LEMMA BlockIs ==
  ASSUME NEW S \in Texts, WellFormed(S), NEW d \in 0..Len(S), NEW m \in d..Len(S),
         NEW e \in d..m, e = Len(S) \/ S[e+1] \in Eol,
         \A x \in (d + 1)..m, j \in {2, 4} : BlankAt(S, x, j, m) => e + 1 <= x
  PROVE  Block(S, d, e)
<1>1. Len(S) \in Nat /\ d \in Nat /\ m \in Nat /\ e \in Nat /\ d <= e /\ e <= m /\ m <= Len(S)
  BY SymbolAt
<1>2. \A i \in Opens(S) : i \in Nat
  BY OpensIn
<1>3. ASSUME NEW i \in Opens(S), NEW j \in Opens(S), d < i, j <= e, i < j PROVE FALSE
  <2>1. PICK x \in (i + 1)..j, k \in {2, 4} : BlankAt(S, x, k, j - 1)
    BY <1>3 DEF WellFormed
  <2>2. x \in Nat /\ x \in (d + 1)..m /\ x <= e /\ j - 1 \in Nat /\ j - 1 <= m
    BY <1>1, <1>2, <1>3
  <2>3. BlankAt(S, x, k, m)
    BY <1>1, <2>1, <2>2, BlankStays
  <2>4. e + 1 <= x
    BY <2>2, <2>3
  <2>5. QED
    BY <1>1, <2>2, <2>4
<1>4. ASSUME NEW i \in Opens(S), NEW j \in Opens(S), d < i, i <= e, d < j, j <= e
      PROVE  i = j
  BY <1>2, <1>3, <1>4
<1>5. e \in d..Len(S)
  BY <1>1
<1>6. QED
  BY <1>4, <1>5 DEF Block

\* What is told does not depend on what is carried.
LEMMA Rebuffed ==
  ASSUME NEW p, NEW S, NEW d, Told(p, S, d), NEW b \in Texts
  PROVE  /\ Told([p EXCEPT !.buf = b], S, d)
         /\ [p EXCEPT !.buf = b].buf = b /\ [p EXCEPT !.buf = b].err = p.err
BY DEF Told, Parsers

\* One round passes one event and leaves less to carry.
LEMMA TakeReads ==
  ASSUME NEW S \in Texts, WellFormed(S), NEW m \in 0..Len(S), NEW p, Reads(p, S, m)
  PROVE  /\ Reads(TakeEvent(p), S, m)
         /\ Stopped(p) => TakeEvent(p) = p
         /\ ~ Stopped(p) => Len(TakeEvent(p).buf) + 1 <= Len(p.buf)
<1>1. Stopped(p) => TakeEvent(p) = p
  BY DEF Stopped, TakeEvent
<1>2. CASE Stopped(p)
  BY <1>1, <1>2
<1>3. CASE ~ Stopped(p)
  <2>1. ~ p.err /\ EventEnds(p.buf) # {}
    BY <1>3 DEF Stopped
  <2>2. PICK d \in 0..m : Told(p, S, d) /\ Carried(p.buf, S, d, m)
    BY <2>1 DEF Reads
  <2> DEFINE P == p.buf
             i == Min(EventEnds(P))
             k == EndsAt(P, i)
             raw == SubSeq(P, 1, i - 1)
             rest == SubSeq(P, i + k, Len(P))
             q == [p EXCEPT !.buf = rest]
             e == d + i - 1
             f == d + i + k - 1
             r == ProcessEvent(q, raw)
  <2>3. TakeEvent(p) = r
    BY <2>1 DEF TakeEvent
  <2>4. Len(S) \in Nat /\ d \in Nat /\ m \in Nat /\ d <= m /\ m <= Len(S)
    BY SymbolAt
  <2>5. d \in 0..Len(S) /\ m \in d..Len(S)
    BY <2>4
  <2>6. P \in Texts /\ Len(P) = m - d
    BY <2>2, <2>5, CarriedIs
  <2>7. /\ i \in 1..Len(P) /\ k \in {2, 4} /\ d + i + k - 1 <= m
        /\ BlankAt(S, d + i, k, m)
        /\ \A x \in (d + 1)..m, j \in {2, 4} : BlankAt(S, x, j, m) => d + i <= x
    <3> HIDE DEF i, k
    <3>1. i = Min(EventEnds(P)) /\ k = EndsAt(P, i)
      BY DEF i, k
    <3>2. QED
      BY <2>1, <2>2, <2>5, <3>1, FirstBlank
  <2> HIDE DEF i, k
  <2>8. /\ i \in Nat /\ i >= 1 /\ k \in Nat /\ k > 0 /\ i + k - 1 <= m - d
        /\ e \in Nat /\ f \in Nat /\ e + 1 = d + i /\ e <= f /\ f <= m /\ d <= e
    BY <2>4, <2>6, <2>7
  <2>9. Carried(raw, S, d, e)
    <3>1. 0 \in 0..Len(P) /\ i - 1 \in 0..Len(P) /\ d + 0 = d /\ d + (i - 1) = e /\ 0 + 1 = 1
      BY <2>4, <2>6, <2>8
    <3> DEFINE b == i - 1
    <3> HIDE DEF b
    <3>2. b \in 0..Len(P)
      BY <3>1 DEF b
    <3>3. Carried(SubSeq(P, 0 + 1, b), S, d + 0, d + b)
      BY <2>2, <2>5, <3>1, <3>2, PieceOfPiece
    <3>4. QED
      BY <3>1, <3>3 DEF b
  <2>10. Carried(rest, S, f, m)
    <3> DEFINE a == i + k - 1
               b == Len(P)
    <3>1. a \in 0..Len(P) /\ b \in a..Len(P) /\ a + 1 = i + k /\ d + a = f /\ d + b = m
      BY <2>4, <2>6, <2>8
    <3> HIDE DEF a, b
    <3>2. Carried(SubSeq(P, a + 1, b), S, d + a, d + b)
      BY <2>2, <2>5, <3>1, PieceOfPiece
    <3>3. QED
      BY <3>1, <3>2 DEF b
  <2>11. S[e+1] \in Eol /\ \A x \in Opens(S) : ~ (e < x /\ x <= f)
    <3>1. \A y \in (d + i)..(d + i + k - 1) : S[y] \in Eol
      BY <2>4, <2>7, <2>8, BlankSymbols
    <3>2. \A x \in Opens(S) : S[x] \notin Eol /\ x \in Nat
      BY OpensIn
    <3>3. QED
      BY <2>4, <2>8, <3>1, <3>2
  <2>12. Block(S, d, e)
    <3>1. e \in d..m
      BY <2>4, <2>8
    <3> HIDE DEF e
    <3>2. \A x \in (d + 1)..m, j \in {2, 4} : BlankAt(S, x, j, m) => e + 1 <= x
      BY <2>7, <2>8
    <3>3. QED
      BY <2>5, <2>11, <3>1, <3>2, BlockIs
  <2>13. rest \in Texts /\ Len(rest) = m - f
    <3>1. f \in 0..Len(S) /\ m \in f..Len(S)
      BY <2>4, <2>8
    <3> HIDE DEF f, rest
    <3>2. QED
      BY <2>10, <3>1, CarriedIs
  <2>14. Told(q, S, d) /\ q.buf = rest /\ ~ q.err
    <3> HIDE DEF rest
    <3>1. QED
      BY <2>1, <2>2, <2>13, Rebuffed
  <2>15. Told(r, S, e) /\ r.buf = rest
    <3> HIDE DEF e, q, raw, rest
    <3>1. QED
      BY <2>9, <2>12, <2>14, BlockTold
  <2>16. Told(r, S, f)
    <3> HIDE DEF e, f, r
    <3>1. QED
      BY <2>8, <2>11, <2>15, ToldOn
  <2>17. Reads(r, S, m)
    <3>1. f \in 0..m
      BY <2>4, <2>8
    <3> HIDE DEF f, r, rest
    <3>2. QED
      BY <2>10, <2>15, <2>16, <3>1 DEF Reads
  <2>18. Len(r.buf) + 1 <= Len(P)
    <3> HIDE DEF r, rest
    <3>1. QED
      BY <2>4, <2>6, <2>8, <2>13, <2>15
  <2>19. QED
    BY <1>3, <2>3, <2>17, <2>18
<1>4. QED
  BY <1>2, <1>3

\* f lists what n rounds make of p, for n up to N.
IsRounds(f, p, N) == f = [n \in 0..N |-> IF n = 0 THEN p ELSE TakeEvent(f[n-1])]

\* There is one such list, of any length.
LEMMA RoundsExist ==
  ASSUME NEW p, NEW N \in Nat
  PROVE  \E f : IsRounds(f, p, N)
<1> DEFINE T == {n \in Nat : \E f : IsRounds(f, p, n)}
<1>1. 0 \in T
  <2> DEFINE f == [n \in 0..0 |-> p]
  <2>1. \A n \in 0..0 : n = 0
    OBVIOUS
  <2>2. f = [n \in 0..0 |-> IF n = 0 THEN p ELSE TakeEvent(f[n-1])]
    BY <2>1
  <2> HIDE DEF f
  <2>3. IsRounds(f, p, 0)
    BY <2>2 DEF IsRounds
  <2>4. QED
    BY <2>3
<1>2. ASSUME NEW n \in Nat, n \in T PROVE n + 1 \in T
  <2>1. PICK f : IsRounds(f, p, n)
    BY <1>2
  <2> DEFINE g == [j \in 0..(n + 1) |-> IF j <= n THEN f[j] ELSE TakeEvent(f[n])]
             h == [j \in 0..(n + 1) |-> IF j = 0 THEN p ELSE TakeEvent(g[j-1])]
  <2>2. \A j \in 0..n : f[j] = IF j = 0 THEN p ELSE TakeEvent(f[j-1])
    <3> DEFINE rounds == [j \in 0..n |-> IF j = 0 THEN p ELSE TakeEvent(f[j-1])]
    <3>1. f = rounds
      BY <2>1 DEF IsRounds
    <3>2. \A j \in 0..n : rounds[j] = IF j = 0 THEN p ELSE TakeEvent(f[j-1])
      OBVIOUS
    <3> HIDE DEF rounds
    <3>3. QED
      BY <3>1, <3>2
  <2>3. ASSUME NEW j \in 0..(n + 1) PROVE g[j] = h[j]
    <3>1. g[j] = (IF j <= n THEN f[j] ELSE TakeEvent(f[n]))
      OBVIOUS
    <3>2. h[j] = IF j = 0 THEN p ELSE TakeEvent(g[j-1])
      OBVIOUS
    <3>3. j # 0 => g[j-1] = f[j-1]
      <4>1. j # 0 => j - 1 \in 0..(n + 1) /\ j - 1 <= n
        OBVIOUS
      <4>2. QED
        BY <4>1
    <3> HIDE DEF g, h
    <3>4. CASE j <= n
      BY <2>2, <3>1, <3>2, <3>3, <3>4
    <3>5. CASE j = n + 1
      BY <3>1, <3>2, <3>3, <3>5
    <3>6. QED
      BY <3>4, <3>5
  <2>4. g = h
    <3>1. DOMAIN g = 0..(n + 1) /\ DOMAIN h = 0..(n + 1)
      OBVIOUS
    <3>2. g = [j \in 0..(n + 1) |-> g[j]] /\ h = [j \in 0..(n + 1) |-> h[j]]
      OBVIOUS
    <3> HIDE DEF g, h
    <3>3. QED
      BY <2>3, <3>2
  <2>5. IsRounds(g, p, n + 1)
    <3> HIDE DEF g
    <3>1. QED
      BY <2>4 DEF IsRounds
  <2> HIDE DEF g
  <2>6. QED
    BY <2>5
<1> HIDE DEF T
<1>3. Nat \subseteq T
  BY <1>1, <1>2, Climb
<1>4. QED
  BY <1>3 DEF T

\* The events that are there are taken, all of them.
LEMMA DrainReads ==
  ASSUME NEW S \in Texts, WellFormed(S), NEW m \in 0..Len(S), NEW p, Reads(p, S, m)
  PROVE  Reads(Drain(p), S, m) /\ Stopped(Drain(p))
<1> DEFINE N == Len(p.buf)
           f == CHOOSE g : IsRounds(g, p, N)
<1>1. p.buf \in Texts /\ N \in Nat
  BY SymbolAt DEF Reads, Told, Parsers
<1>2. Drain(p) = f[N]
  BY DEF Drain, IsRounds
<1>3. IsRounds(f, p, N)
  BY <1>1, RoundsExist
<1> HIDE DEF f
<1>4. f[0] = p /\ \A n \in 1..N : f[n] = TakeEvent(f[n-1])
  <2> HIDE DEF N
  <2> DEFINE rounds == [n \in 0..N |-> IF n = 0 THEN p ELSE TakeEvent(f[n-1])]
  <2>1. f = rounds
    BY <1>3 DEF IsRounds
  <2>2. rounds[0] = p /\ \A n \in 1..N : rounds[n] = TakeEvent(f[n-1])
    BY <1>1
  <2> HIDE DEF rounds
  <2>3. QED
    BY <2>1, <2>2
<1> DEFINE Good(n) == /\ Reads(f[n], S, m)
                      /\ Stopped(f[n]) \/ Len(f[n].buf) + n <= N
           T == {n \in Nat : n <= N => Good(n)}
<1>5. 0 \in T
  <2>1. N + 0 <= N
    BY <1>1
  <2>2. QED
    BY <1>4, <2>1
<1>6. ASSUME NEW n \in Nat, n \in T PROVE n + 1 \in T
  <2> HIDE DEF N, Good
  <2>1. SUFFICES ASSUME n + 1 <= N PROVE Good(n + 1)
    OBVIOUS
  <2> USE DEF Good
  <2>2. Good(n)
    BY <1>1, <1>6, <2>1
  <2>3. f[n + 1] = TakeEvent(f[n])
    <3>1. n + 1 \in 1..N /\ (n + 1) - 1 = n
      BY <1>1, <2>1
    <3>2. QED
      BY <1>4, <3>1
  <2>4. /\ Reads(TakeEvent(f[n]), S, m)
        /\ Stopped(f[n]) => TakeEvent(f[n]) = f[n]
        /\ ~ Stopped(f[n]) => Len(TakeEvent(f[n]).buf) + 1 <= Len(f[n].buf)
    BY <2>2, TakeReads
  <2>5. CASE Stopped(f[n])
    BY <2>3, <2>4, <2>5
  <2>6. CASE ~ Stopped(f[n])
    <3>1. f[n].buf \in Texts /\ f[n+1].buf \in Texts
      BY <2>2, <2>3, <2>4 DEF Reads, Told, Parsers
    <3>2. Len(f[n].buf) \in Nat /\ Len(f[n+1].buf) \in Nat
      BY <3>1, SymbolAt
    <3>3. Len(f[n+1].buf) + 1 <= Len(f[n].buf)
      BY <2>3, <2>4, <2>6
    <3>4. Len(f[n].buf) + n <= N
      BY <2>2, <2>6
    <3>5. Len(f[n+1].buf) + (n + 1) <= N
      <4> DEFINE x == Len(f[n].buf)
                 y == Len(f[n+1].buf)
      <4>1. x \in Nat /\ y \in Nat /\ y + 1 <= x /\ x + n <= N
        BY <3>2, <3>3, <3>4
      <4>2. N \in Nat
        BY <1>1
      <4> HIDE DEF x, y
      <4>3. y + (n + 1) <= N
        BY <4>1, <4>2
      <4>4. QED
        BY <4>3 DEF y
    <3>6. QED
      BY <2>3, <2>4, <3>5
  <2>7. QED
    BY <2>5, <2>6
<1>7. Good(N)
  <2> HIDE DEF Good
  <2>1. \A n \in Nat : n \in T => n + 1 \in T
    BY <1>6
  <2> HIDE DEF T
  <2>2. Nat \subseteq T
    BY <1>5, <2>1, Climb
  <2>3. N \in T /\ N <= N
    BY <1>1, <2>2
  <2> HIDE DEF N
  <2>4. QED
    BY <2>3 DEF T
<1>8. Stopped(f[N])
  <2>1. f[N].buf \in Texts
    BY <1>7 DEF Reads, Told, Parsers
  <2>2. Len(f[N].buf) \in Nat /\ DOMAIN f[N].buf = 1..Len(f[N].buf)
    BY <2>1, SymbolAt
  <2> HIDE DEF N
  <2>3. SUFFICES ASSUME ~ Stopped(f[N]) PROVE FALSE
    OBVIOUS
  <2>4. Len(f[N].buf) = 0
    BY <1>1, <1>7, <2>2, <2>3
  <2>5. DOMAIN f[N].buf = {}
    BY <2>2, <2>4
  <2>6. EventEnds(f[N].buf) = {}
    BY <2>5 DEF EventEnds
  <2>7. QED
    BY <2>3, <2>6 DEF Stopped
<1>9. QED
  BY <1>2, <1>7, <1>8

----------------------------------------------------------------------------
(* The parser from its first chunk to Finish.                              *)

\* A new parser was fed nothing.
LEMMA NewReads ==
  ASSUME NEW S \in Texts
  PROVE  Reads(NewParser, S, 0)
<1>1. NewParser \in Parsers /\ NewParser.usage.stream = FALSE /\ NewParser.err = FALSE
      /\ NewParser.events = 0 /\ NewParser.usage.input = 0 /\ NewParser.usage.output = 0
      /\ NewParser.buf = <<>>
  <2>1. <<>> \in Texts
    BY EmptySeq DEF Texts
  <2>2. QED
    BY <2>1 DEF NewParser, NoUsage, Parsers, Usages
<1>2. \A i \in Opens(S) : ~ (i <= 0)
  BY OpensIn
<1>3. Whole(S) \subseteq Opens(S) /\ Heard(S) \subseteq Opens(S)
  BY DEF Whole, Heard
<1>4. Cardinality(OpensTo(S, 0)) = 0
  <2>1. OpensTo(S, 0) = {}
    BY <1>2 DEF OpensTo
  <2>2. QED
    BY <2>1, FS_EmptySet
<1>5. HeardOf(S, "message_start", 0) = {} /\ HeardOf(S, "message_delta", 0) = {}
  BY <1>2, <1>3 DEF HeardOf
<1>6. Told(NewParser, S, 0)
  BY <1>1, <1>2, <1>3, <1>4, <1>5 DEF Told, IsNewest
<1>7. Carried(NewParser.buf, S, 0, 0)
  <2>1. SubSeq(S, 0 + 1, 0) = <<>>
    BY SubSeqEmpty
  <2>2. QED
    BY <1>1, <2>1 DEF Carried
<1>8. 0 \in 0..0
  OBVIOUS
<1>9. QED
  BY <1>6, <1>7, <1>8 DEF Reads

\* Feed moves the end of what the parser was fed.
LEMMA FeedReads ==
  ASSUME NEW S \in Texts, WellFormed(S), NEW m \in 0..Len(S), NEW n \in m..Len(S),
         NEW p, Reads(p, S, m), NEW chunk, Carried(chunk, S, m, n)
  PROVE  Reads(Feed(p, chunk), S, n) /\ Stopped(Feed(p, chunk))
<1>1. Len(S) \in Nat /\ m \in Nat /\ n \in Nat /\ m <= n /\ n <= Len(S)
  BY SymbolAt
<1>2. PICK d \in 0..m : Told(p, S, d) /\ (~ p.err => Carried(p.buf, S, d, m))
  BY DEF Reads
<1>3. d \in 0..n /\ d \in 0..Len(S) /\ m \in d..Len(S) /\ n \in 0..Len(S) /\ n \in d..Len(S)
  BY <1>1
<1>4. CASE p.err
  <2>1. Feed(p, chunk) = p
    BY <1>4 DEF Feed
  <2>2. QED
    BY <1>2, <1>3, <1>4, <2>1 DEF Reads, Stopped
<1>5. CASE ~ p.err
  <2> DEFINE b == p.buf \o chunk
             q == [p EXCEPT !.buf = b]
  <2>1. Feed(p, chunk) = Drain(q)
    BY <1>5 DEF Feed
  <2>2. p.buf = SubSeq(S, d + 1, m) /\ chunk = SubSeq(S, m + 1, n)
    BY <1>2, <1>5 DEF Carried
  <2>3. b = SubSeq(S, d + 1, n)
    BY <1>3, <2>2, PiecesJoin
  <2>4. Carried(b, S, d, n)
    BY <2>3 DEF Carried
  <2> HIDE DEF b
  <2>5. b \in Texts
    BY <1>3, <2>4, CarriedIs
  <2>6. Told(q, S, d) /\ q.buf = b
    BY <1>2, <2>5, Rebuffed
  <2> HIDE DEF q
  <2>7. Reads(q, S, n)
    BY <1>3, <2>4, <2>6 DEF Reads
  <2>8. QED
    BY <1>3, <2>1, <2>7, DrainReads
<1>6. QED
  BY <1>4, <1>5

\* The usage u is what the text S says.
Tells(u, S) ==
  /\ u \in Usages
  /\ IsNewest(u.input, S, "message_start", Len(S))
  /\ IsNewest(u.output, S, "message_delta", Len(S))
  /\ u.stream =>
       /\ u.events = Cardinality(OpensTo(S, Len(S)))
       /\ \A i \in Whole(S) : IsError(S, i) => \A j \in Opens(S) : j <= i

\* Finish tells what the whole text says.
LEMMA FinishTells ==
  ASSUME NEW S \in Texts, WellFormed(S), NEW p, Reads(p, S, Len(S)), Stopped(p)
  PROVE  Tells(Finish(p), S)
<1>1. PICK d \in 0..Len(S) : Told(p, S, d) /\ (~ p.err => Carried(p.buf, S, d, Len(S)))
  BY DEF Reads
<1>2. d \in Nat /\ Len(S) \in Nat /\ d <= Len(S)
  BY SymbolAt
<1>3. \A i \in Opens(S) : i \in Nat /\ i <= Len(S)
  BY <1>2, OpensIn
<1>4. Heard(S) \subseteq Whole(S) /\ Whole(S) \subseteq Opens(S)
  BY DEF Heard, Whole
<1>5. CASE p.err
  <2>1. PICK x \in Whole(S) : x <= d /\ IsError(S, x)
    BY <1>1, <1>5 DEF Told
  <2>2. \A i \in Heard(S) : i < x
    BY <2>1 DEF Heard
  <2>3. \A i \in Heard(S) : \A type : d < i /\ i <= Len(S) => S[i].ev.type # type
    BY <1>2, <1>3, <1>4, <2>1, <2>2
  <2>4. IsNewest(p.usage.input, S, "message_start", Len(S))
    BY <1>1, <1>2, <2>3, NewestOn DEF Told
  <2>5. IsNewest(p.usage.output, S, "message_delta", Len(S))
    BY <1>1, <1>2, <2>3, NewestOn DEF Told
  <2>6. Finish(p) = p.usage
    BY <1>5 DEF Finish
  <2>7. p.usage \in Usages /\ p.usage.stream = FALSE
    BY <1>1 DEF Told, Parsers
  <2>8. QED
    BY <2>4, <2>5, <2>6, <2>7 DEF Tells
<1>6. CASE ~ p.err
  <2> DEFINE q == [p EXCEPT !.buf = <<>>]
             last == ProcessEvent(q, p.buf)
             u == [last.usage EXCEPT !.stream = TRUE, !.events = last.events]
  <2>1. Finish(p) = u
    BY <1>6 DEF Finish
  <2>2. <<>> \in Texts
    BY EmptySeq DEF Texts
  <2>3. Told(q, S, d) /\ ~ q.err
    BY <1>1, <1>6, <2>2, Rebuffed
  <2>4. Carried(p.buf, S, d, Len(S)) /\ EventEnds(p.buf) = {}
    BY <1>1, <1>6 DEF Stopped
  <2>5. Block(S, d, Len(S))
    <3>1. Len(S) \in d..Len(S)
      BY <1>2
    <3>2. \A x \in (d + 1)..Len(S), j \in {2, 4} : ~ BlankAt(S, x, j, Len(S))
      BY <2>4, <3>1, NoBlank
    <3>3. \A x \in (d + 1)..Len(S), j \in {2, 4} :
            BlankAt(S, x, j, Len(S)) => Len(S) + 1 <= x
      BY <3>2
    <3>4. QED
      BY <3>1, <3>3, BlockIs
  <2>6. Told(last, S, Len(S))
    <3> HIDE DEF q
    <3>1. QED
      BY <2>3, <2>4, <2>5, BlockTold
  <2> HIDE DEF last
  <2>7. /\ last \in Parsers /\ last.events = Cardinality(OpensTo(S, Len(S)))
        /\ IsNewest(last.usage.input, S, "message_start", Len(S))
        /\ IsNewest(last.usage.output, S, "message_delta", Len(S))
    BY <2>6 DEF Told
  <2>8. /\ u \in Usages /\ u.events = last.events
        /\ u.input = last.usage.input /\ u.output = last.usage.output
    BY <2>7 DEF Parsers, Usages
  <2>9. ASSUME NEW i \in Whole(S), IsError(S, i), NEW j \in Opens(S) PROVE j <= i
    <3>1. ~ (i <= d)
      BY <1>1, <1>6, <2>9 DEF Told
    <3>2. CASE j <= d
      BY <1>2, <1>3, <1>4, <3>1, <3>2
    <3>3. CASE ~ (j <= d)
      <4>1. d < i /\ i <= Len(S) /\ d < j /\ j <= Len(S) /\ i \in Opens(S)
        BY <1>2, <1>3, <1>4, <3>1, <3>3
      <4>2. j = i
        BY <2>5, <4>1 DEF Block
      <4>3. QED
        BY <1>3, <4>2
    <3>4. QED
      BY <3>2, <3>3
  <2> HIDE DEF u
  <2>10. QED
    BY <2>1, <2>7, <2>8, <2>9 DEF Tells
<1>7. QED
  BY <1>5, <1>6

\* One text, in one chunk.
LEMMA HeadTells ==
  ASSUME NEW S \in Texts, WellFormed(S)
  PROVE  Tells(Finish(Feed(NewParser, S)), S)
<1>1. Len(S) \in Nat /\ 0 \in 0..Len(S) /\ Len(S) \in 0..Len(S)
  BY SymbolAt
<1>2. Carried(S, S, 0, Len(S))
  <2>1. SubSeq(S, 1, Len(S)) = S
    BY SubSeqFull DEF Texts
  <2>2. 0 + 1 = 1
    OBVIOUS
  <2>3. QED
    BY <2>1, <2>2 DEF Carried
<1>3. Reads(Feed(NewParser, S), S, Len(S)) /\ Stopped(Feed(NewParser, S))
  BY <1>1, <1>2, NewReads, FeedReads
<1>4. QED
  BY <1>3, FinishTells

\* The head, the blank line that closes it, and the tail.
Closing == <<LF, LF>>
Spliced(first, rest) == (first \o Closing) \o rest

LEMMA SplicedIs ==
  ASSUME NEW A \in Texts, NEW B \in Texts
  PROVE  LET S == Spliced(A, B)
             a == Len(A)
         IN  /\ S \in Texts /\ Len(S) = a + 2 + Len(B)
             /\ \A i \in 1..a : S[i] = A[i]
             /\ S[a + 1] = LF /\ S[a + 2] = LF
             /\ \A i \in 1..Len(B) : S[a + 2 + i] = B[i]
<1> DEFINE a == Len(A)
           C == Closing
           AC == A \o C
           S == AC \o B
<1>1. a \in Nat /\ Len(B) \in Nat
  BY SymbolAt
<1>2. C \in Texts /\ Len(C) = 2 /\ C[1] = LF /\ C[2] = LF
  BY Kinds DEF Texts, Closing
<1> HIDE DEF C
<1>3. /\ AC \in Texts /\ Len(AC) = a + 2
      /\ \A i \in 1..a : AC[i] = A[i]
      /\ AC[a + 1] = LF /\ AC[a + 2] = LF
  <2>1. /\ AC \in Texts /\ Len(AC) = Len(A) + Len(C)
        /\ \A i \in 1..Len(A) : AC[i] = A[i]
        /\ \A i \in 1..Len(C) : AC[Len(A) + i] = C[i]
    BY <1>2, JoinIs
  <2> HIDE DEF AC
  <2>2. QED
    BY <1>1, <1>2, <2>1
<1> HIDE DEF AC
<1>4. /\ S \in Texts /\ Len(S) = Len(AC) + Len(B)
      /\ \A i \in 1..Len(AC) : S[i] = AC[i]
      /\ \A i \in 1..Len(B) : S[Len(AC) + i] = B[i]
  BY <1>3, JoinIs
<1> HIDE DEF S
<1>5. \A i \in 1..a : S[i] = A[i]
  BY <1>1, <1>3, <1>4
<1>6. S[a + 1] = LF /\ S[a + 2] = LF
  BY <1>1, <1>3, <1>4
<1>7. S = Spliced(A, B)
  BY DEF Spliced, S, AC, C
<1>8. QED
  BY <1>3, <1>4, <1>5, <1>6, <1>7

\* A piece of a text, from its symbols.
LEMMA CarriedFrom ==
  ASSUME NEW S \in Texts, NEW d \in 0..Len(S), NEW m \in d..Len(S), NEW P \in Texts,
         Len(P) = m - d, \A i \in 1..Len(P) : P[i] = S[d + i]
  PROVE  Carried(P, S, d, m)
<1> DEFINE Q == SubSeq(S, d + 1, m)
<1>1. Q \in Texts /\ Len(Q) = m - d /\ \A i \in 1..(m - d) : Q[i] = S[d + i]
  BY PieceIs
<1> HIDE DEF Q
<1>2. P = Q
  BY <1>1, SeqEqual DEF Texts
<1>3. QED
  BY <1>2 DEF Q, Carried

\* Head, blank line and tail are told as the text they make.
LEMMA SpliceTells ==
  ASSUME NEW A \in Texts, NEW B \in Texts, WellFormed(Spliced(A, B))
  PROVE  Tells(Finish(Splice(A, B)), Spliced(A, B))
<1> DEFINE S == Spliced(A, B)
           a == Len(A)
           p1 == Feed(NewParser, A)
           p2 == Feed(p1, <<LF, LF>>)
           p3 == Feed(p2, B)
<1>1. a \in Nat /\ Len(B) \in Nat
  BY SymbolAt
<1>2. /\ S \in Texts /\ Len(S) = a + 2 + Len(B)
      /\ \A i \in 1..a : S[i] = A[i]
      /\ S[a + 1] = LF /\ S[a + 2] = LF
      /\ \A i \in 1..Len(B) : S[a + 2 + i] = B[i]
  BY SplicedIs
<1>3. WellFormed(S)
  OBVIOUS
<1> HIDE DEF S
<1>4. /\ 0 \in 0..Len(S) /\ a \in 0..Len(S) /\ a + 2 \in a..Len(S) /\ a + 2 \in 0..Len(S)
      /\ Len(S) \in (a + 2)..Len(S)
  BY <1>1, <1>2
<1>5. Carried(A, S, 0, a)
  <2> HIDE DEF a
  <2>1. Len(A) = a - 0 /\ \A i \in 1..Len(A) : A[i] = S[0 + i]
    BY <1>1, <1>2 DEF a
  <2>2. QED
    BY <1>2, <1>4, <2>1, CarriedFrom
<1>6. Carried(<<LF, LF>>, S, a, a + 2)
  <2> DEFINE C == <<LF, LF>>
             e == a + 2
  <2>1. C \in Texts /\ Len(C) = 2 /\ C[1] = LF /\ C[2] = LF
    BY Kinds DEF Texts
  <2> HIDE DEF C
  <2>2. Len(C) = e - a /\ \A i \in 1..Len(C) : C[i] = S[a + i]
    BY <1>1, <1>2, <2>1
  <2>3. a \in 0..Len(S) /\ e \in a..Len(S)
    BY <1>4
  <2> HIDE DEF e
  <2>4. Carried(C, S, a, e)
    BY <1>2, <2>1, <2>2, <2>3, CarriedFrom
  <2>5. QED
    BY <2>4 DEF C, e
<1>7. Carried(B, S, a + 2, Len(S))
  <2> DEFINE c == a + 2
  <2>1. c \in 0..Len(S) /\ Len(S) \in c..Len(S) /\ Len(B) = Len(S) - c
    BY <1>1, <1>2, <1>4
  <2>2. \A i \in 1..Len(B) : B[i] = S[c + i]
    BY <1>2
  <2> HIDE DEF c
  <2>3. Carried(B, S, c, Len(S))
    BY <1>2, <2>1, <2>2, CarriedFrom
  <2>4. QED
    BY <2>3 DEF c
<1>8. Reads(p1, S, a)
  BY <1>2, <1>3, <1>4, <1>5, NewReads, FeedReads
<1> HIDE DEF p1
<1>9. Reads(p2, S, a + 2)
  BY <1>2, <1>3, <1>4, <1>6, <1>8, FeedReads
<1> HIDE DEF p2
<1>10. Reads(p3, S, Len(S)) /\ Stopped(p3)
  BY <1>2, <1>3, <1>4, <1>7, <1>9, FeedReads
<1>11. p3 = Splice(A, B)
  BY DEF Splice, p1, p2
<1> HIDE DEF p3
<1>12. Tells(Finish(p3), S)
  BY <1>2, <1>3, <1>10, FinishTells
<1>13. QED
  BY <1>11, <1>12 DEF S

----------------------------------------------------------------------------
(* The text of a body, and its pieces.                                     *)

IsStream(b) == b \in Bodies /\ b.ctype # "application/json"

\* Where the payload of the j-th event begins.
At(b, j) == (j - 1) * EventSize(b) + Len(b.eol) + 2

LEMMA BodyIs ==
  ASSUME NEW b \in Bodies
  PROVE  /\ b.events \in Seq(Events) /\ Len(b.events) \in Nat
         /\ \A j \in 1..Len(b.events) : b.events[j] \in Events
         /\ \/ b.eol = <<LF>> /\ Len(b.eol) = 1 /\ EventSize(b) = 6
            \/ b.eol = <<CR>> /\ Len(b.eol) = 1 /\ EventSize(b) = 6
            \/ b.eol = <<CR, LF>> /\ Len(b.eol) = 2 /\ EventSize(b) = 9
<1>1. b.events \in Seq(Events) /\ b.eol \in {<<LF>>, <<CR>>, <<CR, LF>>}
  BY SseAssumption DEF Events, CR, LF
<1>2. Len(b.events) \in Nat /\ \A j \in 1..Len(b.events) : b.events[j] \in Events
  BY <1>1, LenProperties, ElementOfSeq
<1>3. Len(<<LF>>) = 1 /\ Len(<<CR>>) = 1 /\ Len(<<CR, LF>>) = 2
  OBVIOUS
<1>4. EventSize(b) = 3 * Len(b.eol) + 3
  BY DEF EventSize
<1>5. CASE b.eol = <<LF>>
  BY <1>1, <1>2, <1>3, <1>4, <1>5
<1>6. CASE b.eol = <<CR>>
  BY <1>1, <1>2, <1>3, <1>4, <1>6
<1>7. CASE b.eol = <<CR, LF>>
  BY <1>1, <1>2, <1>3, <1>4, <1>7
<1>8. QED
  BY <1>1, <1>5, <1>6, <1>7

LEMMA EventTextIs ==
  ASSUME NEW e \in Events, NEW eol \in {<<LF>>, <<CR>>, <<CR, LF>>}
  PROVE  LET E == Len(eol)
             T == EventText(e, eol)
         IN  /\ T \in Texts /\ Len(T) = 3 * E + 3
             /\ T[1] = Name /\ T[E + 2] = Open(e) /\ T[E + 3] = Shut(e)
             /\ \A r \in 1..E : T[1 + r] = eol[r]
             /\ \A r \in 1..E : T[E + 3 + r] = eol[r]
             /\ \A r \in 1..E : T[2 * E + 3 + r] = eol[r]
<1> DEFINE E == Len(eol)
           N == <<Name>>
           P == <<Open(e), Shut(e)>>
           X1 == N \o eol
           X2 == X1 \o P
           X3 == X2 \o eol
           X4 == X3 \o eol
<1>1. eol \in Texts /\ E \in {1, 2}
  <2>1. <<LF>> \in Seq(Symbols) /\ <<CR>> \in Seq(Symbols) /\ <<CR, LF>> \in Seq(Symbols)
    BY Kinds
  <2>2. Len(<<LF>>) = 1 /\ Len(<<CR>>) = 1 /\ Len(<<CR, LF>>) = 2
    OBVIOUS
  <2>3. QED
    BY <2>1, <2>2 DEF Texts
<1>2. N \in Texts /\ Len(N) = 1 /\ N[1] = Name
  BY Kinds DEF Texts
<1>3. P \in Texts /\ Len(P) = 2 /\ P[1] = Open(e) /\ P[2] = Shut(e)
  BY Kinds DEF Texts
<1> HIDE DEF N, P
<1>4. /\ X1 \in Texts /\ Len(X1) = Len(N) + E
      /\ \A i \in 1..Len(N) : X1[i] = N[i]
      /\ \A i \in 1..E : X1[Len(N) + i] = eol[i]
  BY <1>1, <1>2, JoinIs
<1> HIDE DEF X1
<1>5. /\ X2 \in Texts /\ Len(X2) = Len(X1) + Len(P)
      /\ \A i \in 1..Len(X1) : X2[i] = X1[i]
      /\ \A i \in 1..Len(P) : X2[Len(X1) + i] = P[i]
  BY <1>3, <1>4, JoinIs
<1> HIDE DEF X2
<1>6. /\ X3 \in Texts /\ Len(X3) = Len(X2) + E
      /\ \A i \in 1..Len(X2) : X3[i] = X2[i]
      /\ \A i \in 1..E : X3[Len(X2) + i] = eol[i]
  BY <1>1, <1>5, JoinIs
<1> HIDE DEF X3
<1>7. /\ X4 \in Texts /\ Len(X4) = Len(X3) + E
      /\ \A i \in 1..Len(X3) : X4[i] = X3[i]
      /\ \A i \in 1..E : X4[Len(X3) + i] = eol[i]
  BY <1>1, <1>6, JoinIs
<1> HIDE DEF X4
<1>8. Len(X1) = E + 1 /\ Len(X2) = E + 3 /\ Len(X3) = 2 * E + 3 /\ Len(X4) = 3 * E + 3
  BY <1>1, <1>2, <1>3, <1>4, <1>5, <1>6, <1>7
<1>9. \A i \in 1..(E + 3) : X4[i] = X2[i]
  BY <1>1, <1>6, <1>7, <1>8
<1>10. X4[1] = Name
  BY <1>1, <1>2, <1>4, <1>5, <1>8, <1>9
<1>11. X4[E + 2] = Open(e) /\ X4[E + 3] = Shut(e)
  <2>1. X2[(E + 1) + 1] = P[1] /\ X2[(E + 1) + 2] = P[2]
    BY <1>3, <1>5, <1>8
  <2>2. (E + 1) + 1 = E + 2 /\ (E + 1) + 2 = E + 3 /\ E + 2 \in 1..(E + 3)
        /\ E + 3 \in 1..(E + 3)
    BY <1>1
  <2>3. QED
    BY <1>3, <1>9, <2>1, <2>2
<1>12. ASSUME NEW r \in 1..E PROVE X4[1 + r] = eol[r]
  <2>1. X1[1 + r] = eol[r]
    BY <1>2, <1>4
  <2>2. 1 + r \in 1..Len(X1) /\ 1 + r \in 1..(E + 3)
    BY <1>1, <1>8
  <2>3. QED
    BY <1>5, <1>9, <2>1, <2>2
<1>13. ASSUME NEW r \in 1..E PROVE X4[E + 3 + r] = eol[r]
  <2>1. X3[E + 3 + r] = eol[r]
    BY <1>6, <1>8
  <2>2. E + 3 + r \in 1..Len(X3)
    BY <1>1, <1>8
  <2>3. QED
    BY <1>7, <2>1, <2>2
<1>14. ASSUME NEW r \in 1..E PROVE X4[2 * E + 3 + r] = eol[r]
  BY <1>7, <1>8
<1>15. X4 = EventText(e, eol)
  <2>1. EventText(e, eol) = <<Name>> \o eol \o <<Open(e), Shut(e)>> \o eol \o eol
    BY DEF EventText
  <2>2. QED
    BY <2>1 DEF X4, X3, X2, X1, N, P
<1>16. QED
  BY <1>7, <1>8, <1>10, <1>11, <1>12, <1>13, <1>14, <1>15

\* The symbol r of event j.
LEMMA TextAt ==
  ASSUME NEW b, IsStream(b)
  PROVE  LET L == EventSize(b) IN
         /\ Len(Text(b)) = Len(b.events) * L /\ Len(Text(b)) \in Nat
         /\ DOMAIN Text(b) = 1..Len(Text(b))
         /\ \A j \in 1..Len(b.events), r \in 1..L :
              /\ (j - 1) * L + r \in 1..Len(Text(b))
              /\ Text(b)[(j - 1) * L + r] = EventText(b.events[j], b.eol)[r]
         /\ \A x \in 1..Len(Text(b)) :
              \E j \in 1..Len(b.events), r \in 1..L : x = (j - 1) * L + r
<1> DEFINE N == Len(b.events)
           L == EventSize(b)
           T == [i \in 1..(N * L) |->
                   EventText(b.events[(i - 1) \div L + 1], b.eol)[((i - 1) % L) + 1]]
<1>1. Text(b) = T
  BY DEF Text, IsStream
<1>2. N \in Nat /\ L \in {6, 9}
  BY BodyIs DEF IsStream
<1> HIDE DEF N, L
<1>3. N * L \in Nat
  BY <1>2
<1>4. Len(T) = N * L /\ DOMAIN T = 1..(N * L)
  BY <1>3
<1>5. ASSUME NEW j \in 1..N, NEW r \in 1..L
      PROVE  /\ (j - 1) * L + r \in 1..(N * L)
             /\ T[(j - 1) * L + r] = EventText(b.events[j], b.eol)[r]
  <2> DEFINE x == (j - 1) * L + r
  <2>1. x \in 1..(N * L) /\ (x - 1) \div L + 1 = j /\ ((x - 1) % L) + 1 = r
    <3>1. CASE L = 6
      BY <1>2, <3>1
    <3>2. CASE L = 9
      BY <1>2, <3>2
    <3>3. QED
      BY <1>2, <3>1, <3>2
  <2> HIDE DEF x
  <2>2. T[x] = EventText(b.events[j], b.eol)[r]
    BY <2>1
  <2>3. QED
    BY <2>1, <2>2 DEF x
<1>6. ASSUME NEW x \in 1..(N * L)
      PROVE  \E j \in 1..N, r \in 1..L : x = (j - 1) * L + r
  <2> DEFINE j == (x - 1) \div L + 1
             r == ((x - 1) % L) + 1
  <2>1. j \in 1..N /\ r \in 1..L /\ x = (j - 1) * L + r
    <3>1. CASE L = 6
      BY <1>2, <3>1
    <3>2. CASE L = 9
      BY <1>2, <3>2
    <3>3. QED
      BY <1>2, <3>1, <3>2
  <2> HIDE DEF j, r
  <2>2. QED
    BY <2>1
<1> HIDE DEF T
<1>7. QED
  BY <1>1, <1>3, <1>4, <1>5, <1>6 DEF N, L

\* A symbol of an event's text: the payload is in its middle, between line ends.
InMiddle(T, eol) ==
  LET E == Len(eol) IN
  /\ T[E + 1] \in Eol /\ T[E + 4] \in Eol
  /\ \A r \in 1..(3 * E + 3) : T[r] \in Symbols /\ (IsOpen(T[r]) => r = E + 2)
  /\ \A r \in 1..(2 * E) : T[E + 3 + r] = IF r <= E THEN eol[r] ELSE eol[r - E]

LEMMA EventSymbols ==
  ASSUME NEW e \in Events, NEW eol \in {<<LF>>, <<CR>>, <<CR, LF>>}
  PROVE  InMiddle(EventText(e, eol), eol)
<1> USE DEF InMiddle
<1> DEFINE E == Len(eol)
           T == EventText(e, eol)
<1>1. /\ T \in Texts /\ Len(T) = 3 * E + 3
      /\ T[1] = Name /\ T[E + 2] = Open(e) /\ T[E + 3] = Shut(e)
      /\ \A r \in 1..E : T[1 + r] = eol[r]
      /\ \A r \in 1..E : T[E + 3 + r] = eol[r]
      /\ \A r \in 1..E : T[2 * E + 3 + r] = eol[r]
  BY EventTextIs
<1> HIDE DEF T
<1>2. E \in {1, 2} /\ \A r \in 1..E : eol[r] \in Eol
  <2>1. Len(<<LF>>) = 1 /\ Len(<<CR>>) = 1 /\ Len(<<CR, LF>>) = 2
    OBVIOUS
  <2>2. CASE eol = <<LF>>
    BY <2>1, <2>2 DEF Eol
  <2>3. CASE eol = <<CR>>
    BY <2>1, <2>3 DEF Eol
  <2>4. CASE eol = <<CR, LF>>
    BY <2>1, <2>4 DEF Eol
  <2>5. QED
    BY <2>2, <2>3, <2>4
<1> HIDE DEF E
<1>3. T[E + 1] \in Eol /\ T[E + 4] \in Eol
  <2>1. E \in 1..E /\ 1 \in 1..E /\ 1 + E = E + 1 /\ E + 3 + 1 = E + 4
    BY <1>2
  <2>2. T[1 + E] = eol[E] /\ T[E + 3 + 1] = eol[1]
    BY <1>1, <2>1
  <2>3. QED
    BY <1>2, <2>1, <2>2
<1>4. ASSUME NEW r \in 1..(2 * E)
      PROVE  T[E + 3 + r] = IF r <= E THEN eol[r] ELSE eol[r - E]
  <2>1. CASE r <= E
    BY <1>1, <1>2, <2>1
  <2>2. CASE ~ (r <= E)
    <3>1. r - E \in 1..E /\ 2 * E + 3 + (r - E) = E + 3 + r
      BY <1>2, <2>2
    <3>2. T[2 * E + 3 + (r - E)] = eol[r - E]
      BY <1>1, <3>1
    <3>3. QED
      BY <2>2, <3>1, <3>2
  <2>3. QED
    BY <2>1, <2>2
<1>5. ASSUME NEW r \in 1..(3 * E + 3) PROVE T[r] \in Symbols /\ (IsOpen(T[r]) => r = E + 2)
  <2>1. T[r] \in Symbols
    BY <1>1, SymbolAt
  <2>2. CASE r = 1 \/ r = E + 2 \/ r = E + 3
    BY <1>1, <2>1, <2>2, Kinds
  <2>3. CASE r > 1 /\ r <= E + 1
    <3>1. r - 1 \in 1..E /\ 1 + (r - 1) = r
      BY <1>2, <2>3
    <3>2. T[r] \in Eol
      BY <1>1, <1>2, <3>1
    <3>3. QED
      BY <2>1, <3>2, Kinds
  <2>4. CASE r > E + 3
    <3>1. r - (E + 3) \in 1..(2 * E) /\ E + 3 + (r - (E + 3)) = r
      BY <1>2, <2>4
    <3> DEFINE s == r - (E + 3)
    <3>2. s \in 1..(2 * E) /\ E + 3 + s = r
      BY <3>1
    <3> HIDE DEF s
    <3>3. T[r] = IF s <= E THEN eol[s] ELSE eol[s - E]
      BY <1>4, <3>2
    <3>4. T[r] \in Eol
      BY <1>2, <3>2, <3>3
    <3>5. QED
      BY <2>1, <3>4, Kinds
  <2>5. QED
    BY <1>2, <2>2, <2>3, <2>4
<1>6. QED
  BY <1>3, <1>4, <1>5 DEF E, T

\* A text is a sequence of symbols.
LEMMA TextIs ==
  ASSUME NEW b, IsStream(b)
  PROVE  Text(b) \in Texts
<1> DEFINE N == Len(b.events)
           L == EventSize(b)
           T == Text(b)
<1>1. /\ Len(T) \in Nat /\ DOMAIN T = 1..Len(T)
      /\ \A j \in 1..N, r \in 1..L : T[(j - 1) * L + r] = EventText(b.events[j], b.eol)[r]
      /\ \A x \in 1..Len(T) : \E j \in 1..N, r \in 1..L : x = (j - 1) * L + r
  BY TextAt
<1>2. b.eol \in {<<LF>>, <<CR>>, <<CR, LF>>} /\ L = 3 * Len(b.eol) + 3
      /\ \A j \in 1..N : b.events[j] \in Events
  BY BodyIs DEF IsStream, EventSize
<1>3. T = [x \in 1..Len(T) |-> T[x]]
  <2> DEFINE F == [i \in 1..(N * L) |->
                     EventText(b.events[(i - 1) \div L + 1], b.eol)[((i - 1) % L) + 1]]
  <2>1. T = F
    BY DEF Text, IsStream
  <2>2. F = [x \in DOMAIN F |-> F[x]]
    OBVIOUS
  <2> HIDE DEF F, T
  <2>3. QED
    BY <1>1, <2>1, <2>2
<1> HIDE DEF T
<1>4. ASSUME NEW x \in 1..Len(T) PROVE T[x] \in Symbols
  <2>1. PICK j \in 1..N, r \in 1..L : x = (j - 1) * L + r
    BY <1>1
  <2>2. T[x] = EventText(b.events[j], b.eol)[r]
    BY <1>1, <2>1
  <2>3. EventText(b.events[j], b.eol)[r] \in Symbols
    <3>1. InMiddle(EventText(b.events[j], b.eol), b.eol)
      BY <1>2, EventSymbols
    <3>2. QED
      BY <1>2, <3>1 DEF InMiddle
  <2>4. QED
    BY <2>2, <2>3
<1>5. T \in [1..Len(T) -> Symbols]
  BY <1>3, <1>4
<1>6. QED
  BY <1>1, <1>5, SeqDef DEF T, Texts

\* Where the payload of event j is, what is around it, and the blank line that
\* follows it.
LEMMA PayloadIs ==
  ASSUME NEW b, IsStream(b), NEW j \in 1..Len(b.events)
  PROVE  LET T == Text(b)
             o == At(b, j)
         IN  /\ o \in Nat /\ o > 1 /\ o + 1 <= Len(T) /\ o + 2 * Len(b.eol) + 1 <= Len(T)
             /\ T[o] = Open(b.events[j]) /\ T[o + 1] = Shut(b.events[j])
             /\ T[o - 1] \in Eol /\ T[o + 2] \in Eol
             /\ \E k \in {2, 4} : BlankAt(T, o + 2, k, o + 2 * Len(b.eol) + 1)
<1> DEFINE N == Len(b.events)
           L == EventSize(b)
           E == Len(b.eol)
           T == Text(b)
           o == At(b, j)
           B == (j - 1) * L
           e == b.events[j]
           V == EventText(e, b.eol)
<1>1. /\ Len(T) \in Nat
      /\ \A r \in 1..L : B + r \in 1..Len(T) /\ T[B + r] = V[r]
  BY TextAt
<1>2. /\ b.eol \in {<<LF>>, <<CR>>, <<CR, LF>>} /\ L = 3 * E + 3 /\ E \in {1, 2}
      /\ e \in Events /\ N \in Nat
  BY BodyIs DEF IsStream, EventSize
<1>3. /\ V[E + 2] = Open(e) /\ V[E + 3] = Shut(e) /\ V[E + 1] \in Eol /\ V[E + 4] \in Eol
      /\ \A r \in 1..(2 * E) : V[E + 3 + r] = IF r <= E THEN b.eol[r] ELSE b.eol[r - E]
  <2>1. InMiddle(V, b.eol)
    BY <1>2, EventSymbols
  <2>2. V[E + 2] = Open(e) /\ V[E + 3] = Shut(e)
    BY <1>2, EventTextIs
  <2> HIDE DEF V
  <2>3. QED
    BY <2>1, <2>2 DEF InMiddle
<1> HIDE DEF V, T, L
<1>4. B \in Nat
  <2>1. j - 1 \in Nat /\ L \in Nat
    BY <1>2
  <2>2. QED
    BY <2>1
<1>5. o = B + E + 2
  BY <1>2, <1>4 DEF At, L
<1> HIDE DEF B, E, o
<1>6. /\ B + (E + 1) = o - 1 /\ B + (E + 2) = o /\ B + (E + 3) = o + 1 /\ B + (E + 4) = o + 2
      /\ E + 1 \in 1..L /\ E + 2 \in 1..L /\ E + 3 \in 1..L /\ E + 4 \in 1..L /\ L \in 1..L
      /\ B + L = o + 2 * E + 1
  BY <1>2, <1>4, <1>5
<1>7. /\ T[o] = Open(e) /\ T[o + 1] = Shut(e) /\ T[o - 1] \in Eol /\ T[o + 2] \in Eol
      /\ o + 1 <= Len(T) /\ o + 2 * E + 1 <= Len(T)
  <2> DEFINE r1 == E + 1
             r2 == E + 2
             r3 == E + 3
             r4 == E + 4
  <2>1. r1 \in 1..L /\ r2 \in 1..L /\ r3 \in 1..L /\ r4 \in 1..L /\ L \in 1..L
    BY <1>6
  <2>2. B + r1 = o - 1 /\ B + r2 = o /\ B + r3 = o + 1 /\ B + r4 = o + 2
    BY <1>6
  <2>3. V[r1] \in Eol /\ V[r2] = Open(e) /\ V[r3] = Shut(e) /\ V[r4] \in Eol
    BY <1>3
  <2> HIDE DEF r1, r2, r3, r4
  <2>4. T[B + r1] = V[r1] /\ T[B + r2] = V[r2] /\ T[B + r3] = V[r3] /\ T[B + r4] = V[r4]
    BY <1>1, <2>1
  <2>5. B + r3 \in 1..Len(T) /\ B + L \in 1..Len(T)
    BY <1>1, <2>1
  <2>6. o + 1 <= Len(T) /\ o + 2 * E + 1 <= Len(T)
    BY <1>1, <1>6, <2>2, <2>5
  <2>7. QED
    BY <2>2, <2>3, <2>4, <2>6
<1>8. ASSUME NEW r \in 1..(2 * E)
      PROVE  T[o + 1 + r] = IF r <= E THEN b.eol[r] ELSE b.eol[r - E]
  <2>1. E + 3 + r \in 1..L /\ B + (E + 3 + r) = o + 1 + r
    BY <1>2, <1>4, <1>5
  <2>2. T[B + (E + 3 + r)] = V[E + 3 + r]
    BY <1>1, <2>1
  <2>3. V[E + 3 + r] = IF r <= E THEN b.eol[r] ELSE b.eol[r - E]
    BY <1>3
  <2>4. QED
    BY <2>1, <2>2, <2>3
<1>9. \E k \in {2, 4} : BlankAt(T, o + 2, k, o + 2 * E + 1)
  <2>1. o \in Nat
    BY <1>2, <1>4, <1>5
  <2>2. CASE E = 1
    <3>1. 1 \in 1..(2 * E) /\ 2 \in 1..(2 * E) /\ 2 - E = 1 /\ 1 <= E /\ ~ (2 <= E)
      BY <2>2
    <3>2. T[o + 1 + 1] = b.eol[1] /\ T[o + 1 + 2] = b.eol[1]
      BY <1>8, <3>1
    <3>3. o + 1 + 1 = o + 2 /\ o + 1 + 2 = (o + 2) + 1 /\ (o + 2) + 1 <= o + 2 * E + 1
      BY <2>1, <2>2
    <3>4. BlankAt(T, o + 2, 2, o + 2 * E + 1)
      BY <1>7, <3>2, <3>3 DEF BlankAt, Twice
    <3>5. QED
      BY <3>4
  <2>3. CASE E = 2
    <3>1. /\ 1 \in 1..(2 * E) /\ 2 \in 1..(2 * E) /\ 3 \in 1..(2 * E) /\ 4 \in 1..(2 * E)
          /\ 1 <= E /\ 2 <= E /\ ~ (3 <= E) /\ ~ (4 <= E) /\ 3 - E = 1 /\ 4 - E = 2
      BY <2>3
    <3>2. /\ T[o + 1 + 1] = b.eol[1] /\ T[o + 1 + 2] = b.eol[2]
          /\ T[o + 1 + 3] = b.eol[1] /\ T[o + 1 + 4] = b.eol[2]
      BY <1>8, <3>1
    <3>3. b.eol = <<CR, LF>>
      <4>1. Len(<<LF>>) = 1 /\ Len(<<CR>>) = 1
        OBVIOUS
      <4>2. QED
        BY <1>2, <2>3, <4>1 DEF E
    <3>4. b.eol[1] = CR /\ b.eol[2] = LF
      BY <3>3
    <3>5. /\ o + 1 + 1 = o + 2 /\ o + 1 + 2 = (o + 2) + 1 /\ o + 1 + 3 = (o + 2) + 2
          /\ o + 1 + 4 = (o + 2) + 3 /\ (o + 2) + 3 <= o + 2 * E + 1
      BY <2>1, <2>3
    <3>6. BlankAt(T, o + 2, 4, o + 2 * E + 1)
      BY <3>2, <3>4, <3>5 DEF BlankAt, TwoLines
    <3>7. QED
      BY <3>6
  <2>4. QED
    BY <1>2, <2>2, <2>3
<1>10. o \in Nat /\ o > 1
  BY <1>2, <1>4, <1>5
<1>11. QED
  BY <1>7, <1>9, <1>10 DEF E, T, o

\* Every payload of a text is that of an event.
LEMMA OpenIsPayload ==
  ASSUME NEW b, IsStream(b), NEW x \in Opens(Text(b))
  PROVE  \E j \in 1..Len(b.events) : x = At(b, j)
<1> DEFINE N == Len(b.events)
           L == EventSize(b)
           T == Text(b)
<1>1. x \in 1..Len(T) /\ IsOpen(T[x])
  BY DEF Opens
<1>2. PICK j \in 1..N, r \in 1..L : x = (j - 1) * L + r
  BY <1>1, TextAt
<1>3. T[x] = EventText(b.events[j], b.eol)[r]
  BY <1>2, TextAt
<1>4. /\ b.eol \in {<<LF>>, <<CR>>, <<CR, LF>>} /\ L = 3 * Len(b.eol) + 3
      /\ b.events[j] \in Events /\ Len(b.eol) \in {1, 2}
  BY BodyIs DEF IsStream, EventSize
<1>5. r = Len(b.eol) + 2
  <2> HIDE DEF T
  <2>1. r \in 1..(3 * Len(b.eol) + 3)
    BY <1>4
  <2>2. InMiddle(EventText(b.events[j], b.eol), b.eol)
    BY <1>4, EventSymbols
  <2>3. QED
    BY <1>1, <1>3, <2>1, <2>2 DEF InMiddle
<1>6. (j - 1) * L \in Nat
  <2>1. j - 1 \in Nat /\ L \in Nat
    BY <1>4, BodyIs DEF IsStream
  <2> HIDE DEF L
  <2>2. QED
    BY <2>1
<1>7. x = At(b, j)
  <2> DEFINE B == (j - 1) * L
  <2>1. At(b, j) = B + Len(b.eol) + 2 /\ x = B + r
    BY <1>2 DEF At
  <2>2. B \in Nat
    BY <1>6
  <2> HIDE DEF B
  <2>3. QED
    BY <1>4, <1>5, <2>1, <2>2
<1>8. QED
  BY <1>7

\* Payloads are an event apart.
LEMMA AtGrows ==
  ASSUME NEW b, IsStream(b), NEW i \in 1..Len(b.events), NEW j \in 1..Len(b.events), i < j
  PROVE  At(b, i) \in Nat /\ At(b, j) \in Nat /\ At(b, i) + 3 * Len(b.eol) + 3 <= At(b, j)
<1>1. /\ EventSize(b) = 3 * Len(b.eol) + 3 /\ EventSize(b) \in {6, 9} /\ Len(b.eol) \in {1, 2}
      /\ Len(b.events) \in Nat
  BY BodyIs DEF IsStream, EventSize
<1> DEFINE s == EventSize(b)
           c == Len(b.eol)
<1>2. At(b, i) = (i - 1) * s + c + 2 /\ At(b, j) = (j - 1) * s + c + 2
  BY DEF At
<1>3. s = 3 * c + 3 /\ s \in {6, 9} /\ c \in {1, 2} /\ i \in Nat /\ j \in Nat /\ i >= 1
  BY <1>1
<1> HIDE DEF s, c
<1>4. ASSUME s = 6
      PROVE  At(b, i) \in Nat /\ At(b, j) \in Nat /\ At(b, i) + s <= At(b, j)
  <2>1. At(b, i) = (i - 1) * 6 + c + 2 /\ At(b, j) = (j - 1) * 6 + c + 2
    BY <1>2, <1>4
  <2>2. QED
    BY <1>3, <1>4, <2>1
<1>5. ASSUME s = 9
      PROVE  At(b, i) \in Nat /\ At(b, j) \in Nat /\ At(b, i) + s <= At(b, j)
  <2>1. At(b, i) = (i - 1) * 9 + c + 2 /\ At(b, j) = (j - 1) * 9 + c + 2
    BY <1>2, <1>5
  <2>2. QED
    BY <1>3, <1>5, <2>1
<1>6. At(b, i) \in Nat /\ At(b, j) \in Nat /\ At(b, i) + s <= At(b, j)
  BY <1>3, <1>4, <1>5
<1>7. QED
  BY <1>3, <1>6 DEF c

\* A piece of a text: only its last payload can be torn, by its end.
IsPiece(P) ==
  /\ P \in Texts
  /\ \A i \in Opens(P) : i = 1 \/ P[i-1] \in Eol
  /\ \A i \in Opens(P) : i + 1 <= Len(P) => P[i+1] = Shut(P[i].ev)
  /\ \A i \in Opens(P) : i + 2 <= Len(P) => P[i+2] \in Eol
  /\ \A i, j \in Opens(P) :
       i < j => \E x \in (i + 1)..j, k \in {2, 4} : BlankAt(P, x, k, j - 1)

LEMMA BlankWithin ==
  ASSUME NEW S, NEW x \in Nat, NEW k \in {2, 4}, NEW m \in Nat, NEW n \in Nat,
         BlankAt(S, x, k, n), x + k - 1 <= m
  PROVE  BlankAt(S, x, k, m)
BY DEF BlankAt

\* A piece begins at any place of the text and ends at any.
LEMMA TextPiece ==
  ASSUME NEW b, IsStream(b), NEW c \in 0..Len(Text(b)), NEW m \in c..Len(Text(b)),
         NEW P, Carried(P, Text(b), c, m)
  PROVE  /\ IsPiece(P)
         /\ \A i \in Opens(P) :
              \E j \in 1..Len(b.events) : At(b, j) = c + i /\ P[i].ev = b.events[j]
<1> DEFINE T == Text(b)
           E == Len(b.eol)
           N == Len(b.events)
<1>1. T \in Texts
  BY TextIs
<1>2. /\ P \in Texts /\ Len(P) = m - c /\ \A i \in 1..(m - c) : P[i] = T[c + i]
  BY <1>1, CarriedIs
<1>3. Len(T) \in Nat /\ c \in Nat /\ m \in Nat /\ c <= m /\ m <= Len(T)
  BY <1>1, SymbolAt
<1>4. E \in {1, 2} /\ N \in Nat /\ \A j \in 1..N : b.events[j] \in Events
  BY BodyIs DEF IsStream
<1> HIDE DEF T, E, N
<1>5. ASSUME NEW i \in Opens(P)
      PROVE  /\ i \in 1..(m - c) /\ i \in Nat
             /\ \E j \in 1..N : c + i = At(b, j) /\ P[i].ev = b.events[j]
  <2>1. i \in 1..(m - c) /\ i \in Nat /\ IsOpen(T[c + i]) /\ P[i] = T[c + i]
    BY <1>2, <1>3 DEF Opens
  <2>2. c + i \in Opens(T)
    BY <1>3, <2>1 DEF Opens
  <2>3. PICK j \in 1..N : c + i = At(b, j)
    BY <2>2, OpenIsPayload DEF T, N
  <2>4. T[c + i] = Open(b.events[j])
    BY <2>3, PayloadIs DEF T, N
  <2>5. P[i].ev = b.events[j]
    BY <2>1, <2>4, Kinds
  <2>6. QED
    BY <2>1, <2>3, <2>5
<1>6. ASSUME NEW i \in Opens(P)
      PROVE  /\ i = 1 \/ P[i-1] \in Eol
             /\ i + 1 <= Len(P) => P[i+1] = Shut(P[i].ev)
             /\ i + 2 <= Len(P) => P[i+2] \in Eol
  <2>1. PICK j \in 1..N : c + i = At(b, j) /\ P[i].ev = b.events[j]
    BY <1>5
  <2>2. i \in 1..(m - c) /\ i \in Nat
    BY <1>5
  <2> DEFINE o == At(b, j)
  <2>3. T[o - 1] \in Eol /\ T[o + 1] = Shut(b.events[j]) /\ T[o + 2] \in Eol
    BY PayloadIs DEF T, N
  <2>4. o = c + i
    BY <2>1
  <2> HIDE DEF o
  <2>5. i # 1 => P[i-1] \in Eol
    <3>1. i # 1 => i - 1 \in 1..(m - c) /\ c + (i - 1) = o - 1
      BY <1>3, <2>2, <2>4
    <3>2. QED
      BY <1>2, <2>3, <3>1
  <2>6. i + 1 <= Len(P) => P[i+1] = Shut(P[i].ev)
    <3>1. i + 1 <= Len(P) => i + 1 \in 1..(m - c) /\ c + (i + 1) = o + 1
      BY <1>2, <1>3, <2>2, <2>4
    <3>2. QED
      BY <1>2, <2>1, <2>3, <3>1
  <2>7. i + 2 <= Len(P) => P[i+2] \in Eol
    <3>1. i + 2 <= Len(P) => i + 2 \in 1..(m - c) /\ c + (i + 2) = o + 2
      BY <1>2, <1>3, <2>2, <2>4
    <3>2. QED
      BY <1>2, <2>3, <3>1
  <2>8. QED
    BY <2>5, <2>6, <2>7
<1>7. ASSUME NEW i \in Opens(P), NEW j \in Opens(P), i < j
      PROVE  \E x \in (i + 1)..j, k \in {2, 4} : BlankAt(P, x, k, j - 1)
  <2>1. PICK p \in 1..N : c + i = At(b, p)
    BY <1>5
  <2>2. PICK q \in 1..N : c + j = At(b, q)
    BY <1>5
  <2>3. i \in Nat /\ j \in Nat /\ i \in 1..(m - c) /\ j \in 1..(m - c)
    BY <1>5
  <2>4. p < q
    <3>1. SUFFICES ASSUME ~ (p < q) PROVE FALSE
      OBVIOUS
    <3>2. p # q
      BY <1>3, <1>7, <2>1, <2>2, <2>3
    <3>3. q < p
      BY <1>4, <3>1, <3>2
    <3>4. At(b, q) \in Nat /\ At(b, p) \in Nat /\ At(b, q) + 3 * E + 3 <= At(b, p)
      BY <3>3, AtGrows DEF E, N
    <3>5. QED
      BY <1>3, <1>4, <1>7, <2>1, <2>2, <2>3, <3>4
  <2>5. At(b, p) \in Nat /\ At(b, q) \in Nat /\ At(b, p) + 3 * E + 3 <= At(b, q)
    BY <2>4, AtGrows DEF E, N
  <2> DEFINE o == At(b, p)
  <2>6. PICK k \in {2, 4} : BlankAt(T, o + 2, k, o + 2 * E + 1)
    BY PayloadIs DEF T, N, E
  <2>7. o = c + i /\ o + 3 * E + 3 <= c + j
    BY <2>1, <2>2, <2>5
  <2> HIDE DEF o
  <2>8. o \in Nat /\ o + 2 * E + 1 <= m /\ o + 2 * E + 1 \in Nat
    BY <1>3, <1>4, <2>3, <2>7
  <2>9. (o + 2) + k - 1 <= o + 2 * E + 1
    BY <2>6, <2>8, OneBlank
  <2>10. BlankAt(T, o + 2, k, m)
    BY <1>3, <2>6, <2>8, BlankStays
  <2> DEFINE x == i + 2
  <2>11. x \in 1..Len(P) /\ c + x = o + 2 /\ x \in Nat /\ x \in (i + 1)..j /\ x + k - 1 <= j - 1
    BY <1>2, <1>3, <1>4, <2>3, <2>7, <2>9
  <2> HIDE DEF x
  <2>12. BlankAt(P, x, k, Len(P))
    <3>1. BlankAt(P, x, k, Len(P)) <=> BlankAt(T, c + x, k, m)
      BY <1>1, <2>11, BlankOfPiece DEF T
    <3>2. QED
      BY <2>10, <2>11, <3>1
  <2>13. BlankAt(P, x, k, j - 1)
    <3>1. Len(P) \in Nat /\ j - 1 \in Nat
      BY <1>2, <1>3, <2>3
    <3>2. QED
      BY <2>11, <2>12, <3>1, BlankWithin
  <2>14. QED
    BY <2>11, <2>13
<1>8. IsPiece(P)
  BY <1>2, <1>6, <1>7 DEF IsPiece
<1>9. QED
  BY <1>5, <1>8 DEF N

LEMMA PieceWellFormed ==
  ASSUME NEW P, IsPiece(P)
  PROVE  WellFormed(P)
<1>1. \A i \in Opens(P) : i \in 1..Len(P) /\ i \in Nat /\ Len(P) \in Nat
  BY OpensIn DEF IsPiece
<1>2. \A i \in Opens(P) :
        \/ i = Len(P)
        \/ P[i+1] \in Eol
        \/ P[i+1] = Shut(P[i].ev) /\ (i + 1 = Len(P) \/ P[i+2] \in Eol)
  BY <1>1 DEF IsPiece
<1>3. QED
  BY <1>2 DEF IsPiece, WellFormed

\* The payloads of the spliced text are those of its two pieces.
LEMMA SplicedOpens ==
  ASSUME NEW A, NEW B, IsPiece(A), IsPiece(B), NEW S, S = Spliced(A, B)
  PROVE  /\ \A i \in Opens(S) :
              \/ i \in Opens(A) /\ S[i] = A[i]
              \/ i - (Len(A) + 2) \in Opens(B) /\ S[i] = B[i - (Len(A) + 2)]
         /\ \A i \in Opens(A) : i \in Opens(S) /\ S[i] = A[i]
         /\ \A i \in Opens(B) : i + Len(A) + 2 \in Opens(S) /\ S[i + Len(A) + 2] = B[i]
<1> DEFINE a == Len(A)
<1>1. /\ S \in Texts /\ Len(S) = a + 2 + Len(B)
      /\ \A i \in 1..a : S[i] = A[i]
      /\ S[a + 1] = LF /\ S[a + 2] = LF
      /\ \A i \in 1..Len(B) : S[a + 2 + i] = B[i]
  BY SplicedIs DEF IsPiece
<1>2. a \in Nat /\ Len(B) \in Nat
  BY SymbolAt DEF IsPiece
<1> HIDE DEF a
<1>3. ASSUME NEW i \in Opens(S)
      PROVE  \/ i \in Opens(A) /\ S[i] = A[i]
             \/ i - (a + 2) \in Opens(B) /\ S[i] = B[i - (a + 2)]
  <2>1. i \in 1..(a + 2 + Len(B)) /\ IsOpen(S[i])
    BY <1>1 DEF Opens
  <2>2. CASE i <= a
    BY <1>1, <1>2, <2>1, <2>2 DEF Opens, a
  <2>3. CASE i = a + 1 \/ i = a + 2
    BY <1>1, <2>1, <2>3, Kinds
  <2>4. CASE i > a + 2
    <3> DEFINE y == i - (a + 2)
    <3>1. y \in 1..Len(B) /\ a + 2 + y = i
      BY <1>2, <2>1, <2>4
    <3> HIDE DEF y
    <3>2. S[i] = B[y] /\ y \in Opens(B)
      BY <1>1, <2>1, <3>1 DEF Opens
    <3>3. QED
      BY <3>2 DEF y
  <2>5. QED
    BY <1>2, <2>1, <2>2, <2>3, <2>4
<1>4. ASSUME NEW i \in Opens(A) PROVE i \in Opens(S) /\ S[i] = A[i]
  BY <1>1, <1>2 DEF Opens, a
<1>5. ASSUME NEW i \in Opens(B) PROVE i + a + 2 \in Opens(S) /\ S[i + a + 2] = B[i]
  <2>1. i \in 1..Len(B) /\ IsOpen(B[i])
    BY DEF Opens
  <2>2. i + a + 2 = a + 2 + i /\ i + a + 2 \in 1..Len(S)
    BY <1>1, <1>2, <2>1
  <2>3. QED
    BY <1>1, <2>1, <2>2 DEF Opens
<1>6. QED
  BY <1>3, <1>4, <1>5 DEF a

\* The blank line keeps apart what the head left torn and what the tail begins with.
LEMMA SplicedWellFormed ==
  ASSUME NEW A, NEW B, IsPiece(A), IsPiece(B)
  PROVE  WellFormed(Spliced(A, B))
<1> DEFINE S == Spliced(A, B)
           a == Len(A)
           c == a + 2
<1>1. /\ S \in Texts /\ Len(S) = a + 2 + Len(B)
      /\ \A i \in 1..a : S[i] = A[i]
      /\ S[a + 1] = LF /\ S[a + 2] = LF
      /\ \A i \in 1..Len(B) : S[a + 2 + i] = B[i]
  BY SplicedIs DEF IsPiece
<1>2. a \in Nat /\ Len(B) \in Nat /\ c \in Nat /\ c = a + 2
  BY SymbolAt DEF IsPiece
<1>3. \A i \in Opens(S) :
        \/ i \in Opens(A) /\ S[i] = A[i]
        \/ i - c \in Opens(B) /\ S[i] = B[i - c]
  BY SplicedOpens
<1>4. /\ A \in Texts /\ B \in Texts /\ \A i \in Opens(A) : i \in Nat /\ i \in 1..a
      /\ \A i \in Opens(B) : i \in Nat /\ i \in 1..Len(B)
      /\ \A i \in Opens(S) : i \in Nat /\ i \in 1..Len(S)
  BY <1>1, OpensIn DEF IsPiece
<1>5. Carried(A, S, 0, a) /\ Carried(B, S, c, Len(S))
  <2>1. Len(A) = a - 0 /\ 0 \in 0..Len(S) /\ a \in 0..Len(S) /\ \A i \in 1..Len(A) : A[i] = S[0 + i]
    BY <1>1, <1>2
  <2>2. Len(B) = Len(S) - c /\ c \in 0..Len(S) /\ Len(S) \in c..Len(S)
    BY <1>1, <1>2
  <2>3. \A i \in 1..Len(B) : B[i] = S[c + i]
    BY <1>1, <1>2
  <2> HIDE DEF S, c
  <2>4. Carried(A, S, 0, a)
    <3> HIDE DEF a
    <3>1. QED
      BY <1>1, <1>4, <2>1, CarriedFrom
  <2>5. Carried(B, S, c, Len(S))
    BY <1>1, <1>4, <2>2, <2>3, CarriedFrom
  <2>6. QED
    BY <2>4, <2>5
<1> HIDE DEF S, c, a
<1>6. ASSUME NEW i \in Opens(S) PROVE i = 1 \/ S[i-1] \in Eol
  <2>1. CASE i \in Opens(A)
    <3>1. i = 1 \/ A[i-1] \in Eol
      BY <2>1 DEF IsPiece
    <3>2. i # 1 => i - 1 \in 1..a
      BY <1>2, <1>4, <2>1
    <3>3. QED
      BY <1>1, <3>1, <3>2
  <2>2. CASE i - c \in Opens(B)
    <3> DEFINE y == i - c
    <3>1. y \in Nat /\ y \in 1..Len(B) /\ (y = 1 \/ B[y-1] \in Eol) /\ i = c + y
      BY <1>2, <1>4, <2>2 DEF IsPiece
    <3> HIDE DEF y
    <3>2. CASE y = 1
      <4>1. i - 1 = a + 2
        BY <1>2, <3>1, <3>2
      <4>2. QED
        BY <1>1, <4>1 DEF Eol
    <3>3. CASE y # 1
      <4>1. y - 1 \in 1..Len(B) /\ a + 2 + (y - 1) = i - 1
        BY <1>2, <3>1, <3>3
      <4>2. S[a + 2 + (y - 1)] = B[y - 1]
        BY <1>1, <4>1
      <4>3. QED
        BY <3>1, <3>3, <4>1, <4>2
    <3>4. QED
      BY <3>2, <3>3
  <2>3. QED
    BY <1>3, <2>1, <2>2
<1>7. ASSUME NEW i \in Opens(S)
      PROVE  \/ i = Len(S)
             \/ S[i+1] \in Eol
             \/ S[i+1] = Shut(S[i].ev) /\ (i + 1 = Len(S) \/ S[i+2] \in Eol)
  <2>1. CASE i \in Opens(A) /\ S[i] = A[i]
    <3>1. i \in Nat /\ i <= a
      BY <1>4, <2>1
    <3>2. CASE i = a
      BY <1>1, <3>2 DEF Eol
    <3>3. CASE i # a
      <4>1. i + 1 \in 1..a /\ i + 1 <= Len(A)
        BY <1>2, <3>1, <3>3 DEF a
      <4>2. S[i+1] = Shut(S[i].ev)
        BY <1>1, <2>1, <4>1 DEF IsPiece
      <4>3. S[i+2] \in Eol
        <5>1. CASE i + 1 = a
          <6>1. i + 2 = a + 1
            BY <1>2, <3>1, <5>1
          <6>2. QED
            BY <1>1, <6>1 DEF Eol
        <5>2. CASE i + 1 # a
          <6>1. i + 2 \in 1..a /\ i + 2 <= Len(A)
            BY <1>2, <3>1, <3>3, <5>2 DEF a
          <6>2. QED
            BY <1>1, <2>1, <6>1 DEF IsPiece
        <5>3. QED
          BY <5>1, <5>2
      <4>4. QED
        BY <4>2, <4>3
    <3>4. QED
      BY <3>2, <3>3
  <2>2. CASE i - c \in Opens(B) /\ S[i] = B[i - c]
    <3> DEFINE y == i - c
    <3>1. y \in Opens(B) /\ y \in Nat /\ y \in 1..Len(B) /\ i = c + y /\ S[i] = B[y]
      BY <1>2, <1>4, <2>2
    <3> HIDE DEF y
    <3>2. CASE y = Len(B)
      BY <1>1, <1>2, <3>1, <3>2
    <3>3. CASE y # Len(B)
      <4>1. y + 1 \in 1..Len(B) /\ a + 2 + (y + 1) = i + 1
        BY <1>2, <3>1, <3>3
      <4>2. S[a + 2 + (y + 1)] = B[y + 1]
        BY <1>1, <4>1
      <4>3. B[y + 1] = Shut(B[y].ev)
        BY <3>1, <4>1 DEF IsPiece
      <4>4. S[i + 1] = Shut(S[i].ev)
        BY <3>1, <4>1, <4>2, <4>3
      <4>5. i + 1 = Len(S) \/ S[i+2] \in Eol
        <5>1. CASE y + 1 = Len(B)
          <6>1. Len(S) = a + 2 + (y + 1)
            BY <1>1, <5>1
          <6>2. QED
            BY <4>1, <6>1
        <5>2. CASE y + 1 # Len(B)
          <6>1. y + 2 \in 1..Len(B) /\ a + 2 + (y + 2) = i + 2
            BY <1>2, <3>1, <3>3, <5>2
          <6>2. S[a + 2 + (y + 2)] = B[y + 2]
            BY <1>1, <6>1
          <6>3. B[y + 2] \in Eol
            BY <3>1, <6>1 DEF IsPiece
          <6>4. QED
            BY <6>1, <6>2, <6>3
        <5>3. QED
          BY <5>1, <5>2
      <4>6. QED
        BY <4>4, <4>5
    <3>4. QED
      BY <3>2, <3>3
  <2>3. QED
    BY <1>3, <2>1, <2>2
<1>8. ASSUME NEW i \in Opens(S), NEW j \in Opens(S), i < j
      PROVE  \E x \in (i + 1)..j, k \in {2, 4} : BlankAt(S, x, k, j - 1)
  <2>1. i \in Nat /\ j \in Nat /\ Len(S) \in Nat /\ j <= Len(S)
    BY <1>1, <1>2, <1>4
  <2>2. CASE i \in Opens(A) /\ j \in Opens(A)
    <3>1. PICK x \in (i + 1)..j, k \in {2, 4} : BlankAt(A, x, k, j - 1)
      BY <1>8, <2>2 DEF IsPiece
    <3>2. j - 1 \in Nat /\ j - 1 <= a /\ x \in Nat /\ x >= 1
      BY <1>2, <1>4, <2>1, <2>2
    <3>3. x + k - 1 <= j - 1
      BY <3>1, <3>2, OneBlank
    <3>4. x \in 1..Len(A)
      BY <1>2, <3>2, <3>3 DEF a
    <3>5. BlankAt(A, x, k, Len(A))
      BY <1>2, <3>1, <3>2, BlankStays DEF a
    <3>6. BlankAt(S, 0 + x, k, a)
      <4>1. 0 \in 0..Len(S) /\ a \in 0..Len(S)
        BY <1>1, <1>2
      <4>2. BlankAt(A, x, k, Len(A)) <=> BlankAt(S, 0 + x, k, a)
        BY <1>1, <1>5, <3>4, <4>1, BlankOfPiece
      <4>3. QED
        BY <3>5, <4>2
    <3>7. BlankAt(S, x, k, j - 1)
      <4>1. 0 + x = x
        BY <3>2
      <4>2. QED
        BY <1>2, <3>2, <3>3, <3>6, <4>1, BlankWithin
    <3>8. QED
      BY <3>7
  <2>3. CASE i \in Opens(A) /\ j - c \in Opens(B)
    <3>1. a + 1 \in (i + 1)..j /\ (a + 1) + 1 <= j - 1 /\ (a + 1) + 1 = a + 2
      BY <1>2, <1>4, <2>1, <2>3
    <3>2. BlankAt(S, a + 1, 2, j - 1)
      BY <1>1, <3>1 DEF BlankAt, Twice, Eol
    <3>3. QED
      BY <3>1, <3>2
  <2>4. CASE i - c \in Opens(B) /\ j - c \in Opens(B)
    <3> DEFINE y == i - c
               z == j - c
    <3>1. /\ y \in Opens(B) /\ z \in Opens(B) /\ y \in Nat /\ z \in Nat /\ y < z
          /\ z \in 1..Len(B) /\ i = c + y /\ j = c + z
      BY <1>2, <1>4, <1>8, <2>1, <2>4
    <3> HIDE DEF y, z
    <3>2. PICK x \in (y + 1)..z, k \in {2, 4} : BlankAt(B, x, k, z - 1)
      BY <3>1 DEF IsPiece
    <3>3. z - 1 \in Nat /\ z - 1 <= Len(B) /\ x \in Nat /\ x >= 1
      BY <1>2, <3>1
    <3>4. x + k - 1 <= z - 1
      BY <3>2, <3>3, OneBlank
    <3>5. x \in 1..Len(B)
      BY <1>2, <3>3, <3>4
    <3>6. BlankAt(B, x, k, Len(B))
      BY <1>2, <3>2, <3>3, BlankStays
    <3>7. BlankAt(S, c + x, k, Len(S))
      <4>1. c \in 0..Len(S) /\ Len(S) \in c..Len(S)
        BY <1>1, <1>2
      <4>2. BlankAt(B, x, k, Len(B)) <=> BlankAt(S, c + x, k, Len(S))
        BY <1>1, <1>5, <3>5, <4>1, BlankOfPiece
      <4>3. QED
        BY <3>6, <4>2
    <3>8. c + x \in (i + 1)..j /\ c + x \in Nat /\ j - 1 \in Nat /\ (c + x) + k - 1 <= j - 1
      BY <1>2, <3>1, <3>3, <3>4
    <3>9. BlankAt(S, c + x, k, j - 1)
      BY <2>1, <3>7, <3>8, BlankWithin
    <3>10. QED
      BY <3>8, <3>9
  <2>5. CASE i - c \in Opens(B) /\ j \in Opens(A)
    BY <1>2, <1>4, <1>8, <2>1, <2>5
  <2>6. QED
    BY <1>3, <2>2, <2>3, <2>4, <2>5
<1>9. WellFormed(S)
  BY <1>6, <1>7, <1>8 DEF WellFormed
<1>10. QED
  BY <1>9 DEF S

----------------------------------------------------------------------------
(* From the payloads of a text to the events that were kept.               *)

\* pos lists where in S the payloads of the events W of ev are, all those that
\* are whole there, in order.
Matches(S, ev, W, pos) ==
  /\ pos \in [W -> Whole(S)]
  /\ \A j \in W : S[pos[j]].ev = ev[j]
  /\ \A i \in Whole(S) : \E j \in W : i = pos[j]
  /\ \A i, j \in W : i < j => pos[i] < pos[j]

KeptOf(ev, W) == {j \in W : \A i \in W : ev[i].type = "error" => j < i}
OfType(ev, K, type) == {j \in K : ev[j].type = type}

LEMMA MatchesIs ==
  ASSUME NEW S \in Texts, NEW ev, NEW W, W \subseteq Nat, NEW pos, Matches(S, ev, W, pos)
  PROVE  /\ \A j \in W : pos[j] \in Nat /\ pos[j] \in Whole(S) /\ S[pos[j]].ev = ev[j]
         /\ \A i, j \in W : pos[i] < pos[j] <=> i < j
         /\ \A i, j \in W : pos[i] <= pos[j] <=> i <= j
<1>1. ASSUME NEW j \in W PROVE pos[j] \in Nat /\ pos[j] \in Whole(S) /\ S[pos[j]].ev = ev[j]
  <2>1. pos[j] \in Whole(S) /\ S[pos[j]].ev = ev[j]
    BY DEF Matches
  <2>2. pos[j] \in Nat
    BY <2>1, OpensIn DEF Whole
  <2>3. QED
    BY <2>1, <2>2
<1>2. ASSUME NEW i \in W, NEW j \in W
      PROVE  (pos[i] < pos[j] <=> i < j) /\ (pos[i] <= pos[j] <=> i <= j)
  <2>1. i \in Nat /\ j \in Nat /\ pos[i] \in Nat /\ pos[j] \in Nat
    BY <1>1
  <2>2. (i < j => pos[i] < pos[j]) /\ (j < i => pos[j] < pos[i])
    BY DEF Matches
  <2>3. i = j => pos[i] = pos[j]
    OBVIOUS
  <2> DEFINE x == pos[i]
             y == pos[j]
  <2>4. x \in Nat /\ y \in Nat /\ (i < j => x < y) /\ (j < i => y < x) /\ (i = j => x = y)
    BY <2>1, <2>2, <2>3
  <2> HIDE DEF x, y
  <2>5. (x < y <=> i < j) /\ (x <= y <=> i <= j)
    BY <2>1, <2>4
  <2>6. QED
    BY <2>5 DEF x, y
<1>3. QED
  BY <1>1, <1>2

\* What is heard is what was kept.
SameHeard(S, K, pos) ==
  /\ \A j \in K : pos[j] \in Heard(S)
  /\ \A i \in Heard(S) : \E j \in K : i = pos[j]

\* The payloads heard are those of the events kept.
LEMMA HeardIsKept ==
  ASSUME NEW S \in Texts, NEW ev, NEW W, W \subseteq Nat, NEW pos, Matches(S, ev, W, pos)
  PROVE  SameHeard(S, KeptOf(ev, W), pos)
<1>a. /\ \A j \in W : pos[j] \in Nat /\ pos[j] \in Whole(S) /\ S[pos[j]].ev = ev[j]
      /\ \A i, j \in W : pos[i] < pos[j] <=> i < j
      /\ \A i, j \in W : pos[i] <= pos[j] <=> i <= j
  BY MatchesIs
<1>1. ASSUME NEW j \in W
      PROVE  j \in KeptOf(ev, W) <=> pos[j] \in Heard(S)
  <2>1. ASSUME j \in KeptOf(ev, W), NEW i \in Whole(S), IsError(S, i) PROVE pos[j] < i
    <3>1. PICK k \in W : i = pos[k]
      BY DEF Matches
    <3>2. ev[k].type = "error"
      BY <2>1, <3>1, <1>a DEF IsError
    <3>3. j < k
      BY <2>1, <3>2 DEF KeptOf
    <3>4. QED
      BY <3>1, <3>3, <1>a
  <2>2. ASSUME pos[j] \in Heard(S), NEW k \in W, ev[k].type = "error" PROVE j < k
    <3>1. pos[k] \in Whole(S) /\ IsError(S, pos[k])
      BY <2>2, <1>a DEF IsError
    <3>2. pos[j] < pos[k]
      BY <2>2, <3>1 DEF Heard
    <3>3. QED
      BY <3>2, <1>a
  <2>3. pos[j] \in Whole(S)
    BY <1>a
  <2>4. QED
    BY <2>1, <2>2, <2>3 DEF Heard, KeptOf
<1>2. \A i \in Heard(S) : i \in Whole(S)
  BY DEF Heard
<1>3. \A j \in KeptOf(ev, W) : j \in W
  BY DEF KeptOf
<1>4. QED
  BY <1>1, <1>2, <1>3 DEF Matches, SameHeard

\* n is what the last kept event of a type tells.
NewestIn(n, ev, W, type) ==
  LET js == OfType(ev, KeptOf(ev, W), type) IN n = IF js = {} THEN 0 ELSE ev[Max(js)].n

\* The newest payload of a type is that of the last kept event of the type.
LEMMA NewestMatches ==
  ASSUME NEW S \in Texts, NEW ev, NEW W, W \subseteq Nat, NEW pos, Matches(S, ev, W, pos),
         NEW n, NEW type, IsNewest(n, S, type, Len(S))
  PROVE  NewestIn(n, ev, W, type)
<1>a. /\ \A j \in W : pos[j] \in Nat /\ pos[j] \in Whole(S) /\ S[pos[j]].ev = ev[j]
      /\ \A i, j \in W : pos[i] < pos[j] <=> i < j
      /\ \A i, j \in W : pos[i] <= pos[j] <=> i <= j
  BY MatchesIs
<1>b. /\ \A j \in KeptOf(ev, W) : pos[j] \in Heard(S)
      /\ \A i \in Heard(S) : \E j \in KeptOf(ev, W) : i = pos[j]
  <2>1. SameHeard(S, KeptOf(ev, W), pos)
    BY HeardIsKept
  <2>2. QED
    BY <2>1 DEF SameHeard
<1> USE DEF NewestIn
<1> DEFINE js == OfType(ev, KeptOf(ev, W), type)
           H == HeardOf(S, type, Len(S))
<1>1. js \subseteq W /\ js \subseteq KeptOf(ev, W) /\ js \subseteq Nat
  BY DEF OfType, KeptOf
<1>2. ASSUME NEW j \in js PROVE pos[j] \in H
  <2>1. j \in W /\ ev[j].type = type /\ pos[j] \in Heard(S)
    BY <1>1, <1>b DEF OfType
  <2>2. S[pos[j]].ev = ev[j] /\ pos[j] \in Opens(S)
    BY <2>1, <1>a DEF Whole
  <2>3. pos[j] <= Len(S)
    BY <2>2, OpensIn
  <2>4. QED
    BY <2>1, <2>2, <2>3 DEF HeardOf
<1>3. ASSUME NEW i \in H PROVE \E j \in js : i = pos[j]
  <2>1. i \in Heard(S) /\ S[i].ev.type = type
    BY DEF HeardOf
  <2>2. PICK j \in KeptOf(ev, W) : i = pos[j]
    BY <2>1, <1>b
  <2>3. j \in W
    BY <2>2 DEF KeptOf
  <2>4. ev[j].type = type
    BY <2>1, <2>2, <2>3, <1>a
  <2>5. QED
    BY <2>2, <2>4 DEF OfType
<1> HIDE DEF js, H
<1>4. CASE H = {}
  <2>1. n = 0
    BY <1>4 DEF IsNewest, H
  <2>2. js = {}
    BY <1>2, <1>4
  <2>3. QED
    BY <2>1, <2>2 DEF js
<1>5. CASE H # {}
  <2>1. PICK i \in H : n = S[i].ev.n /\ \A k \in H : k <= i
    BY <1>5 DEF IsNewest, H
  <2>2. PICK j \in js : i = pos[j]
    BY <1>3
  <2>3. ev[j] = S[i].ev
    BY <1>1, <2>2, <1>a
  <2>4. ASSUME NEW k \in js PROVE k <= j
    <3>1. pos[k] <= pos[j]
      BY <1>2, <2>1, <2>2
    <3>2. QED
      BY <1>1, <3>1, <1>a
  <2>5. Max(js) = j
    BY <1>1, <2>4, MaxIs
  <2>6. n = ev[Max(js)].n /\ js # {}
    BY <2>1, <2>3, <2>5
  <2>7. QED
    BY <2>6 DEF js
<1>6. QED
  BY <1>4, <1>5

\* There are as many payloads heard as events kept.
LEMMA CountMatches ==
  ASSUME NEW S \in Texts, NEW ev, NEW W, W \subseteq Nat, NEW pos, Matches(S, ev, W, pos)
  PROVE  /\ IsFiniteSet(Heard(S)) /\ Cardinality(Heard(S)) \in Nat
         /\ Cardinality(KeptOf(ev, W)) = Cardinality(Heard(S))
<1>a. /\ \A j \in W : pos[j] \in Nat /\ pos[j] \in Whole(S) /\ S[pos[j]].ev = ev[j]
      /\ \A i, j \in W : pos[i] < pos[j] <=> i < j
      /\ \A i, j \in W : pos[i] <= pos[j] <=> i <= j
  BY MatchesIs
<1>b. /\ \A j \in KeptOf(ev, W) : pos[j] \in Heard(S)
      /\ \A i \in Heard(S) : \E j \in KeptOf(ev, W) : i = pos[j]
  <2>1. SameHeard(S, KeptOf(ev, W), pos)
    BY HeardIsKept
  <2>2. QED
    BY <2>1 DEF SameHeard
<1> DEFINE K == KeptOf(ev, W)
           f == [j \in K |-> pos[j]]
<1>1. IsFiniteSet(Heard(S))
  <2>1. Heard(S) \subseteq OpensTo(S, Len(S))
    BY OpensIn DEF Heard, Whole, OpensTo
  <2>2. QED
    BY <2>1, OpensFinite, FS_Subset
<1>2. K \subseteq W /\ K \subseteq Nat
  BY DEF KeptOf
<1>3. \A j \in K : pos[j] \in Heard(S)
  BY <1>b
<1>4. \A i \in Heard(S) : \E j \in K : i = pos[j]
  BY <1>b
<1> HIDE DEF K
<1>5. f \in [K -> Heard(S)]
  BY <1>3
<1>6. \A i, j \in K : f[i] = f[j] => i = j
  <2>1. SUFFICES ASSUME NEW i \in K, NEW j \in K, pos[i] = pos[j] PROVE i = j
    OBVIOUS
  <2>2. i \in W /\ j \in W /\ i \in Nat /\ j \in Nat /\ pos[i] \in Nat
    BY <1>2, <1>a
  <2>3. pos[i] <= pos[j] /\ pos[j] <= pos[i]
    BY <2>1, <2>2
  <2>4. i <= j /\ j <= i
    BY <2>2, <2>3, <1>a
  <2>5. QED
    BY <2>2, <2>4
<1>7. \A i \in Heard(S) : \E j \in K : f[j] = i
  BY <1>4
<1> HIDE DEF f
<1>8. f \in Injection(K, Heard(S)) /\ f \in Surjection(K, Heard(S))
  BY <1>5, <1>6, <1>7 DEF Injection, Surjection, IsInjective
<1>9. Cardinality(K) = Cardinality(Heard(S))
  BY <1>1, <1>8, FS_Injection
<1>10. QED
  BY <1>1, <1>9, FS_CardinalityType DEF K

\* Payloads are torn at x or at the end.
TornAt(S, x) == \A i \in Opens(S) : i \in Whole(S) \/ i = x \/ i = Len(S)

\* What began and was not heard: one torn by the end of each piece, or the
\* error that ends the stream.
LEMMA OpensCounted ==
  ASSUME NEW S \in Texts, NEW x, TornAt(S, x), NEW u, Tells(u, S), u.stream
  PROVE  u.events \in Cardinality(Heard(S))..(Cardinality(Heard(S)) + 2)
<1> DEFINE O == OpensTo(S, Len(S))
           H == Heard(S)
<1>1. O = Opens(S)
  BY OpensIn DEF OpensTo
<1>2. H \subseteq O /\ IsFiniteSet(O) /\ Cardinality(O) \in Nat
  BY <1>1, OpensFinite DEF Heard, Whole
<1>3. IsFiniteSet(H) /\ Cardinality(H) \in Nat /\ Cardinality(H) <= Cardinality(O)
  <2> HIDE DEF H, O
  <2>1. QED
    BY <1>2, FS_Subset, FS_CardinalityType
<1>4. /\ u.events = Cardinality(O)
      /\ \A i \in Whole(S) : IsError(S, i) => \A j \in Opens(S) : j <= i
  BY DEF Tells
<1>5. \E y : O \subseteq H \cup {x, y}
  <2>1. \A i \in Opens(S) : i \in Nat /\ i <= Len(S) /\ Len(S) \in Nat
    BY OpensIn
  <2>2. CASE \E e \in Whole(S) : IsError(S, e)
    <3>1. PICK e \in Whole(S) : IsError(S, e)
      BY <2>2
    <3>2. e \in Opens(S) /\ e + 1 <= Len(S) /\ \A j \in Opens(S) : j <= e
      BY <1>4, <3>1 DEF Whole
    <3>3. ASSUME NEW i \in Opens(S) PROVE i \in H \cup {x, e}
      <4>1. CASE i \notin Whole(S)
        <5>1. i # Len(S)
          BY <2>1, <3>2
        <5>2. QED
          BY <4>1, <5>1 DEF TornAt
      <4>2. CASE i \in Whole(S) /\ i # e
        <5>1. ASSUME NEW j \in Whole(S), IsError(S, j) PROVE i < j
          <6>1. j \in Opens(S) /\ e <= j /\ j <= e /\ i <= e
            BY <1>4, <3>2, <5>1 DEF Whole
          <6>2. QED
            BY <2>1, <3>2, <4>2, <6>1
        <5>2. QED
          BY <4>2, <5>1 DEF Heard
      <4>3. QED
        BY <4>1, <4>2
    <3>4. QED
      BY <1>1, <3>3
  <2>3. CASE ~ \E e \in Whole(S) : IsError(S, e)
    <3>1. \A i \in Opens(S) : i \in H \cup {x, Len(S)}
      BY <2>3 DEF Heard, TornAt
    <3>2. QED
      BY <1>1, <3>1
  <2>4. QED
    BY <2>2, <2>3
<1>6. PICK y : O \subseteq H \cup {x, y}
  BY <1>5
<1> HIDE DEF O, H
<1>7. IsFiniteSet({x, y}) /\ Cardinality({x, y}) \in Nat /\ Cardinality({x, y}) <= 2
  <2>1. IsFiniteSet({x}) /\ Cardinality({x}) = 1
    BY FS_Singleton
  <2>2. {x, y} = {x} \cup {y}
    OBVIOUS
  <2>3. /\ IsFiniteSet({x} \cup {y})
        /\ Cardinality({x} \cup {y}) = IF y \in {x} THEN Cardinality({x}) ELSE Cardinality({x}) + 1
    BY <2>1, FS_AddElement
  <2>4. QED
    BY <2>1, <2>2, <2>3
<1>8. /\ IsFiniteSet(H \cup {x, y})
      /\ Cardinality(H \cup {x, y})
           = Cardinality(H) + Cardinality({x, y}) - Cardinality(H \cap {x, y})
  BY <1>3, <1>7, FS_Union
<1>9. Cardinality(H \cap {x, y}) \in Nat
  BY <1>3, FS_Intersection, FS_CardinalityType
<1>10. Cardinality(O) <= Cardinality(H \cup {x, y})
  BY <1>6, <1>8, FS_Subset
<1>11. Cardinality(H \cup {x, y}) \in Nat
  BY <1>8, FS_CardinalityType
<1>12. Cardinality(O) <= Cardinality(H) + 2
  <2> DEFINE h == Cardinality(H)
             two == Cardinality({x, y})
             both == Cardinality(H \cap {x, y})
             all == Cardinality(H \cup {x, y})
             o == Cardinality(O)
  <2>1. /\ h \in Nat /\ two \in Nat /\ both \in Nat /\ o \in Nat /\ two <= 2
        /\ all = h + two - both /\ o <= all
    BY <1>2, <1>3, <1>7, <1>8, <1>9, <1>10
  <2> HIDE DEF h, two, both, all, o
  <2>2. o <= h + 2
    BY <2>1
  <2>3. QED
    BY <2>2 DEF h, o
<1>13. QED
  BY <1>2, <1>3, <1>4, <1>12 DEF H

\* The whole payloads of a piece are those that the piece has all of.
LEMMA PieceWhole ==
  ASSUME NEW b, IsStream(b), NEW c \in 0..Len(Text(b)), NEW m \in c..Len(Text(b)),
         NEW P, Carried(P, Text(b), c, m)
  PROVE  /\ \A j \in 1..Len(b.events) :
              c < At(b, j) /\ At(b, j) + 1 <= m =>
                At(b, j) - c \in Whole(P) /\ P[At(b, j) - c].ev = b.events[j]
         /\ \A i \in Whole(P) :
              \E j \in 1..Len(b.events) : At(b, j) = c + i /\ At(b, j) + 1 <= m
<1> DEFINE T == Text(b)
           N == Len(b.events)
<1>1. T \in Texts
  BY TextIs
<1>2. /\ P \in Texts /\ Len(P) = m - c /\ \A i \in 1..(m - c) : P[i] = T[c + i]
  BY <1>1, CarriedIs
<1>3. Len(T) \in Nat /\ c \in Nat /\ m \in Nat /\ c <= m /\ m <= Len(T)
  BY <1>1, SymbolAt
<1> HIDE DEF T
<1>4. ASSUME NEW j \in 1..N, c < At(b, j), At(b, j) + 1 <= m
      PROVE  At(b, j) - c \in Whole(P) /\ P[At(b, j) - c].ev = b.events[j]
  <2> DEFINE o == At(b, j)
             i == o - c
             e == b.events[j]
  <2>1. o \in Nat /\ T[o] = Open(e) /\ T[o + 1] = Shut(e) /\ c < o /\ o + 1 <= m
    BY <1>4, PayloadIs DEF T
  <2> HIDE DEF o, e
  <2>2. i \in 1..(m - c) /\ i + 1 \in 1..(m - c) /\ c + i = o /\ c + (i + 1) = o + 1
    BY <1>3, <2>1
  <2> HIDE DEF i
  <2>3. P[i] = Open(e) /\ P[i + 1] = Shut(e)
    BY <1>2, <2>1, <2>2
  <2>4. P[i].ev = e /\ IsOpen(P[i])
    BY <2>3, Kinds
  <2>5. i \in Whole(P)
    BY <1>2, <1>3, <2>2, <2>3, <2>4 DEF Whole, Opens
  <2>6. QED
    BY <2>4, <2>5 DEF i, o, e
<1>5. ASSUME NEW i \in Whole(P)
      PROVE  \E j \in 1..N : At(b, j) = c + i /\ At(b, j) + 1 <= m
  <2>1. i \in Opens(P) /\ i + 1 <= Len(P)
    BY DEF Whole
  <2>2. PICK j \in 1..N : At(b, j) = c + i
    BY <2>1, TextPiece
  <2>3. i \in Nat
    BY <1>2, <2>1, OpensIn
  <2>4. QED
    BY <1>2, <1>3, <2>1, <2>2, <2>3
<1>6. QED
  BY <1>4, <1>5

\* The whole payloads of the spliced text are those of the head and of the tail.
LEMMA SplicedWhole ==
  ASSUME NEW A, NEW B, IsPiece(A), IsPiece(B), NEW S, S = Spliced(A, B)
  PROVE  /\ \A i \in Whole(A) : i \in Whole(S) /\ S[i] = A[i]
         /\ \A i \in Whole(B) : i + Len(A) + 2 \in Whole(S) /\ S[i + Len(A) + 2] = B[i]
         /\ \A i \in Whole(S) : i \in Whole(A) \/ i - (Len(A) + 2) \in Whole(B)
         /\ TornAt(S, Len(A))
<1> DEFINE a == Len(A)
           c == a + 2
<1>1. /\ S \in Texts /\ Len(S) = a + 2 + Len(B)
      /\ \A i \in 1..a : S[i] = A[i]
      /\ S[a + 1] = LF /\ S[a + 2] = LF
      /\ \A i \in 1..Len(B) : S[a + 2 + i] = B[i]
  BY SplicedIs DEF IsPiece
<1>2. a \in Nat /\ Len(B) \in Nat /\ c \in Nat /\ c = a + 2
  BY SymbolAt DEF IsPiece
<1>3. /\ \A i \in Opens(S) :
           \/ i \in Opens(A) /\ S[i] = A[i]
           \/ i - c \in Opens(B) /\ S[i] = B[i - c]
      /\ \A i \in Opens(A) : i \in Opens(S) /\ S[i] = A[i]
      /\ \A i \in Opens(B) : i + a + 2 \in Opens(S) /\ S[i + a + 2] = B[i]
  BY SplicedOpens
<1>4. /\ \A i \in Opens(A) : i \in Nat /\ i \in 1..a
      /\ \A i \in Opens(B) : i \in Nat /\ i \in 1..Len(B)
      /\ \A i \in Opens(S) : i \in Nat /\ i \in 1..Len(S)
  BY <1>1, OpensIn DEF IsPiece
<1>5. /\ \A i \in Opens(A) : i + 1 <= a => A[i+1] = Shut(A[i].ev)
      /\ \A i \in Opens(B) : i + 1 <= Len(B) => B[i+1] = Shut(B[i].ev)
  BY DEF IsPiece
<1> HIDE DEF a, c
<1>6. ASSUME NEW i \in Opens(A), i + 1 <= a PROVE i \in Whole(S) /\ i \in Whole(A)
  <2>1. i + 1 \in 1..a /\ i + 1 <= Len(S)
    BY <1>1, <1>2, <1>4, <1>6
  <2>2. S[i+1] = A[i+1] /\ S[i] = A[i] /\ i \in Opens(S) /\ A[i+1] = Shut(A[i].ev)
    BY <1>1, <1>3, <1>5, <1>6, <2>1
  <2>3. QED
    BY <1>6, <2>1, <2>2 DEF Whole, a
<1>7. ASSUME NEW i \in Opens(B), i + 1 <= Len(B)
      PROVE  i + a + 2 \in Whole(S) /\ i \in Whole(B)
  <2>1. i + 1 \in 1..Len(B) /\ a + 2 + (i + 1) = (i + a + 2) + 1 /\ (i + a + 2) + 1 <= Len(S)
    <3>1. i \in Nat /\ i >= 1 /\ Len(S) = a + 2 + Len(B)
      BY <1>1, <1>4
    <3>2. QED
      BY <1>2, <1>7, <3>1
  <2>2. S[a + 2 + (i + 1)] = B[i+1]
    BY <1>1, <2>1
  <2>3. S[i + a + 2] = B[i] /\ i + a + 2 \in Opens(S) /\ B[i+1] = Shut(B[i].ev)
    BY <1>3, <1>5, <1>7
  <2> DEFINE y == i + a + 2
  <2>4. y \in Opens(S) /\ y + 1 <= Len(S) /\ S[y + 1] = Shut(S[y].ev)
    BY <2>1, <2>2, <2>3
  <2> HIDE DEF y
  <2>5. y \in Whole(S)
    BY <2>4 DEF Whole
  <2>6. i \in Whole(B)
    BY <1>7, <2>3 DEF Whole
  <2>7. QED
    BY <2>5, <2>6 DEF y
<1>8. ASSUME NEW i \in Whole(A) PROVE i \in Whole(S) /\ S[i] = A[i]
  <2>1. i \in Opens(A) /\ i + 1 <= a
    BY DEF Whole, a
  <2>2. QED
    BY <1>3, <1>6, <2>1
<1>9. ASSUME NEW i \in Whole(B) PROVE i + a + 2 \in Whole(S) /\ S[i + a + 2] = B[i]
  <2>1. i \in Opens(B) /\ i + 1 <= Len(B)
    BY DEF Whole
  <2>2. QED
    BY <1>3, <1>7, <2>1
<1>10. ASSUME NEW i \in Whole(S) PROVE i \in Whole(A) \/ i - c \in Whole(B)
  <2>1. i \in Opens(S) /\ i + 1 <= Len(S) /\ S[i+1] = Shut(S[i].ev)
    BY DEF Whole
  <2>2. CASE i \in Opens(A)
    <3>1. i # a
      BY <1>1, <2>1, Kinds DEF Eol
    <3>2. i + 1 <= a
      BY <1>2, <1>4, <2>2, <3>1
    <3>3. QED
      BY <1>6, <2>2, <3>2
  <2>3. CASE i - c \in Opens(B)
    <3>1. (i - c) + 1 <= Len(B)
      BY <1>1, <1>2, <1>4, <2>1, <2>3
    <3>2. QED
      BY <1>7, <2>3, <3>1
  <2>4. QED
    BY <1>3, <2>1, <2>2, <2>3
<1>11. ASSUME NEW i \in Opens(S) PROVE i \in Whole(S) \/ i = a \/ i = Len(S)
  <2>1. CASE i \in Opens(A)
    <3>1. i = a \/ i + 1 <= a
      BY <1>2, <1>4, <2>1
    <3>2. QED
      BY <1>6, <2>1, <3>1
  <2>2. CASE i - c \in Opens(B)
    <3> DEFINE y == i - c
    <3>1. y \in Opens(B) /\ y \in Nat /\ y \in 1..Len(B) /\ y + a + 2 = i
      BY <1>2, <1>4, <2>2
    <3> HIDE DEF y
    <3>2. CASE y = Len(B)
      BY <1>1, <1>2, <3>1, <3>2
    <3>3. CASE y # Len(B)
      <4>1. y + 1 <= Len(B)
        BY <1>2, <3>1, <3>3
      <4>2. y + a + 2 \in Whole(S)
        BY <1>7, <3>1, <4>1
      <4>3. QED
        BY <3>1, <4>2
    <3>4. QED
      BY <3>2, <3>3
  <2>3. QED
    BY <1>3, <2>1, <2>2
<1>12. QED
  BY <1>8, <1>9, <1>10, <1>11 DEF a, c, TornAt

LEMMA PieceTorn ==
  ASSUME NEW P, IsPiece(P)
  PROVE  TornAt(P, Len(P))
<1>1. \A i \in Opens(P) : i \in Nat /\ i \in 1..Len(P) /\ Len(P) \in Nat
  BY OpensIn DEF IsPiece
<1>2. QED
  BY <1>1 DEF TornAt, IsPiece, Whole

----------------------------------------------------------------------------
(* The tee.                                                                *)

\* Where the tail begins.
TailFrom(n) == IF n - TailCap > cap THEN n - TailCap ELSE cap

\* Head and tail are the two ends of what has come (boundedBuffer.Write).
Teed ==
  /\ cap \in Caps /\ body \in Bodies
  /\ sent \in 0..Len(Text(body))
  /\ Carried(head, Text(body), 0, IF sent <= cap THEN sent ELSE cap)
  /\ sent <= cap => tail = <<>>
  /\ sent > cap => Carried(tail, Text(body), TailFrom(sent), sent)

LEMMA Constants ==
  /\ Caps \subseteq Nat \ {0} /\ TailCap \in Nat /\ TailCap > 0 /\ MaxWrite \in Nat
BY SseAssumption

LEMMA JsonText ==
  ASSUME NEW b \in Bodies, b.ctype = "application/json"
  PROVE  /\ b.events[1] \in Events
         /\ Text(b) = <<Open(b.events[1]), Shut(b.events[1])>>
         /\ Text(b) \in Texts /\ Len(Text(b)) = 2
<1>1. b.events # <<>> /\ b.events \in Seq(Events)
  BY SseAssumption, BodyIs
<1>2. 1 \in 1..Len(b.events)
  BY <1>1, EmptySeq
<1>3. b.events[1] \in Events
  BY <1>2, BodyIs
<1>4. Text(b) = <<Open(b.events[1]), Shut(b.events[1])>>
  BY DEF Text
<1>5. Open(b.events[1]) \in Symbols /\ Shut(b.events[1]) \in Symbols
  BY <1>3, Kinds
<1>6. QED
  BY <1>3, <1>4, <1>5 DEF Texts

LEMMA BodyText ==
  ASSUME NEW b \in Bodies
  PROVE  Text(b) \in Texts
BY JsonText, TextIs DEF IsStream

LEMMA EmptyPiece ==
  ASSUME NEW S \in Texts, NEW d \in 0..Len(S)
  PROVE  Carried(<<>>, S, d, d)
<1>1. d \in Int /\ d + 1 \in Int /\ d < d + 1
  BY SymbolAt
<1>2. SubSeq(S, d + 1, d) = <<>>
  BY <1>1, SubSeqEmpty
<1>3. QED
  BY <1>2 DEF Carried

LEMMA CarriedJoin ==
  ASSUME NEW S \in Texts, NEW d \in 0..Len(S), NEW m \in d..Len(S), NEW n \in m..Len(S),
         NEW P, NEW Q, Carried(P, S, d, m), Carried(Q, S, m, n)
  PROVE  Carried(P \o Q, S, d, n)
BY PiecesJoin DEF Carried

\* The last n symbols of a piece.
LEMMA LastIs ==
  ASSUME NEW S \in Texts, NEW d \in 0..Len(S), NEW m \in d..Len(S), NEW P, Carried(P, S, d, m),
         NEW n \in Nat
  PROVE  Carried(Last(P, n), S, IF m - d > n THEN m - n ELSE d, m)
<1>1. Len(S) \in Nat /\ d \in Nat /\ m \in Nat /\ d <= m /\ Len(P) = m - d
  BY SymbolAt, CarriedIs
<1> DEFINE l == Len(P)
<1>2. CASE m - d > n
  <2> DEFINE c == l - n
  <2>1. c \in 0..l /\ l \in c..l /\ d + c = m - n /\ d + l = m /\ c + 1 = l - n + 1
    BY <1>1, <1>2
  <2>2. Last(P, n) = SubSeq(P, l - n + 1, l)
    BY <1>1, <1>2 DEF Last
  <2> HIDE DEF c
  <2>3. Last(P, n) = SubSeq(P, c + 1, l)
    BY <2>1, <2>2
  <2>4. Carried(SubSeq(P, c + 1, l), S, d + c, d + l)
    <3> DEFINE e == l
    <3>1. e \in c..Len(P) /\ c \in 0..Len(P)
      BY <2>1
    <3> HIDE DEF e
    <3>2. Carried(SubSeq(P, c + 1, e), S, d + c, d + e)
      BY <3>1, PieceOfPiece
    <3>3. QED
      BY <3>2 DEF e
  <2>5. QED
    BY <1>2, <2>1, <2>3, <2>4
<1>3. CASE ~ (m - d > n)
  <2>1. Last(P, n) = SubSeq(P, 1, Len(P))
    BY <1>1, <1>3 DEF Last
  <2>2. P \in Texts
    BY CarriedIs
  <2>3. Last(P, n) = P
    BY <2>1, <2>2, SubSeqFull DEF Texts
  <2>4. QED
    BY <1>3, <2>3
<1>4. QED
  BY <1>2, <1>3

\* The invariant holds of the empty buffer.
LEMMA TeedInit == SseInit => Teed
<1>1. SUFFICES ASSUME SseInit PROVE Teed
  OBVIOUS
<1>2. cap \in Caps /\ body \in Bodies /\ sent = 0 /\ head = <<>> /\ tail = <<>>
  BY <1>1 DEF SseInit
<1>3. Text(body) \in Texts /\ Len(Text(body)) \in Nat
  BY <1>2, BodyText, SymbolAt
<1>4. cap \in Nat /\ cap > 0
  BY <1>2, Constants
<1>5. 0 \in 0..Len(Text(body)) /\ Carried(<<>>, Text(body), 0, 0)
  BY <1>3, EmptyPiece
<1>6. QED
  BY <1>2, <1>4, <1>5 DEF Teed

\* A write goes on where the last one ended, in the head and in the tail.
LEMMA TeedCopy ==
  ASSUME Teed, Copy
  PROVE  Teed'
<1> DEFINE T == Text(body)
<1>1. /\ cap \in Caps /\ body \in Bodies /\ sent \in 0..Len(T)
      /\ Carried(head, T, 0, IF sent <= cap THEN sent ELSE cap)
      /\ sent <= cap => tail = <<>>
      /\ sent > cap => Carried(tail, T, TailFrom(sent), sent)
  BY DEF Teed
<1>2. T \in Texts /\ Len(T) \in Nat /\ sent \in Nat
  BY <1>1, BodyText, SymbolAt
<1>3. PICK n \in 1..MaxWrite :
        /\ sent + n <= Len(T) /\ sent' = sent + n
        /\ Write(SubSeq(T, sent + 1, sent + n))
  BY DEF Copy
<1>4. cap' = cap /\ body' = body
  BY DEF Copy
<1>5. cap \in Nat /\ TailCap \in Nat /\ TailCap > 0 /\ n \in Nat /\ n >= 1
  BY <1>1, Constants
<1> HIDE DEF T
<1> DEFINE m == sent + n
           p == SubSeq(T, sent + 1, m)
           h == IF sent <= cap THEN sent ELSE cap
           room == IF cap - Len(head) < Len(p) THEN cap - Len(head) ELSE Len(p)
           first == SubSeq(p, 1, room)
           rest == SubSeq(p, room + 1, Len(p))
<1>6. /\ head' = head \o first
      /\ tail' = IF rest = <<>> THEN tail ELSE KeepTail(rest)
  BY <1>3 DEF Write
<1>7. m \in Nat /\ m \in 0..Len(T) /\ m \in sent..Len(T) /\ sent \in 0..Len(T) /\ h \in 0..Len(T)
      /\ h \in Nat /\ 0 \in 0..Len(T)
  BY <1>1, <1>2, <1>3, <1>5
<1>8. Carried(p, T, sent, m) /\ p \in Texts /\ Len(p) = n
  <2>1. Carried(p, T, sent, m)
    BY DEF Carried
  <2> HIDE DEF m, p
  <2>2. p \in Texts /\ Len(p) = m - sent
    BY <1>2, <1>7, <2>1, CarriedIs
  <2>3. QED
    BY <1>2, <1>5, <2>1, <2>2 DEF m
<1>9. Len(head) = h
  <2> HIDE DEF h
  <2>1. Carried(head, T, 0, h)
    BY <1>1 DEF h
  <2>2. Len(head) = h - 0
    BY <1>2, <1>7, <2>1, CarriedIs
  <2>3. QED
    BY <1>7, <2>2
<1>10. room = IF cap - h < n THEN cap - h ELSE n
  BY <1>8, <1>9
<1> HIDE DEF room
<1>11. room \in Nat /\ room <= n /\ room \in 0..Len(p) /\ Len(p) \in room..Len(p)
  BY <1>5, <1>7, <1>8, <1>10
<1>12. Carried(first, T, sent, sent + room)
  <2> HIDE DEF p, m
  <2>1. 0 \in 0..Len(p) /\ room \in 0..Len(p) /\ sent + 0 = sent /\ 0 + 1 = 1
    BY <1>2, <1>11
  <2>2. Carried(SubSeq(p, 0 + 1, room), T, sent + 0, sent + room)
    BY <1>2, <1>7, <1>8, <1>11, <2>1, PieceOfPiece
  <2>3. QED
    BY <2>1, <2>2
<1>13. Carried(rest, T, sent + room, m)
  <2> DEFINE e == Len(p)
  <2>1. e \in room..Len(p) /\ sent + e = m
    BY <1>8, <1>11
  <2> HIDE DEF p, m, e
  <2>2. Carried(SubSeq(p, room + 1, e), T, sent + room, sent + e)
    BY <1>2, <1>7, <1>8, <1>11, <2>1, PieceOfPiece
  <2>3. QED
    BY <2>1, <2>2 DEF e
<1> DEFINE h2 == IF m <= cap THEN m ELSE cap
<1>14. Carried(head \o first, T, 0, h2)
  <2>1. CASE sent <= cap
    <3>1. h = sent /\ sent + room = h2
      BY <1>5, <1>7, <1>10, <2>1
    <3> DEFINE k == sent + room
    <3>2. k \in sent..Len(T) /\ sent \in 0..Len(T)
      BY <1>2, <1>3, <1>7, <1>8, <1>11
    <3>3. Carried(head, T, 0, sent) /\ Carried(first, T, sent, k) /\ k = h2
      BY <1>1, <1>12, <2>1, <3>1
    <3> HIDE DEF k, first, h2
    <3>4. Carried(head \o first, T, 0, k)
      BY <1>2, <1>7, <3>2, <3>3, CarriedJoin
    <3>5. QED
      BY <3>3, <3>4
  <2>2. CASE ~ (sent <= cap)
    <3>1. h = cap /\ room = 0 /\ h2 = cap
      BY <1>2, <1>5, <1>7, <1>10, <2>2
    <3>2. first = <<>>
      <4>1. 0 \in Int /\ 1 \in Int /\ 0 < 1
        OBVIOUS
      <4>2. SubSeq(p, 1, 0) = <<>>
        BY <4>1, SubSeqEmpty
      <4>3. QED
        BY <3>1, <4>2
    <3>3. Carried(head, T, 0, cap)
      BY <1>1, <2>2
    <3>4. head \in Texts
      <4>1. cap \in 0..Len(T)
        BY <1>7, <3>1
      <4>2. QED
        BY <1>2, <1>7, <3>3, <4>1, CarriedIs
    <3>5. head \o first = head
      BY <3>2, <3>4, ConcatEmptySeq DEF Texts
    <3>6. QED
      BY <3>1, <3>3, <3>5
  <2>3. QED
    BY <2>1, <2>2
<1>15. rest = <<>> <=> m <= cap
  <2>1. sent + room \in 0..Len(T) /\ m \in (sent + room)..Len(T)
    BY <1>2, <1>3, <1>7, <1>11
  <2>2. rest \in Texts /\ Len(rest) = m - (sent + room)
    <3> DEFINE k == sent + room
    <3>1. k \in 0..Len(T) /\ m \in k..Len(T) /\ Carried(rest, T, k, m)
      BY <1>13, <2>1
    <3> HIDE DEF k, rest, m
    <3>2. rest \in Texts /\ Len(rest) = m - k
      BY <1>2, <3>1, CarriedIs
    <3>3. QED
      BY <3>2 DEF k
  <2>3. rest = <<>> <=> Len(rest) = 0
    BY <2>2, EmptySeq DEF Texts
  <2>4. Len(rest) = 0 <=> room = n
    BY <1>2, <1>5, <1>11, <2>2
  <2>5. room = n <=> m <= cap
    BY <1>2, <1>5, <1>10
  <2>6. QED
    BY <2>3, <2>4, <2>5
<1>16. CASE m <= cap
  <2>1. tail' = <<>>
    <3>1. sent <= cap
      BY <1>2, <1>5, <1>16
    <3>2. rest = <<>>
      BY <1>15, <1>16
    <3> HIDE DEF rest
    <3>3. QED
      BY <1>1, <1>6, <3>1, <3>2
  <2>2. sent' = m /\ sent' <= cap' /\ Carried(head', T, 0, sent') /\ sent' \in 0..Len(T)
    BY <1>3, <1>4, <1>6, <1>7, <1>14, <1>16
  <2>3. ~ (sent' > cap')
    BY <1>4, <1>5, <1>7, <2>2
  <2>4. QED
    BY <1>1, <1>4, <2>1, <2>2, <2>3 DEF Teed, T
<1>17. CASE ~ (m <= cap)
  <2> DEFINE f == IF sent <= cap THEN cap ELSE TailFrom(sent)
             full == tail \o rest
  <2>1. Carried(full, T, f, m) /\ f \in 0..Len(T) /\ m \in f..Len(T) /\ f \in Nat
    <3>1. CASE sent <= cap
      <4>1. tail = <<>> /\ sent + room = cap /\ f = cap
        BY <1>1, <1>2, <1>5, <1>10, <1>17, <3>1
      <4>2. Carried(rest, T, cap, m) /\ cap \in 0..Len(T) /\ m \in cap..Len(T)
        BY <1>2, <1>3, <1>5, <1>7, <1>13, <1>17, <4>1
      <4>3. rest \in Texts
        <5> HIDE DEF rest, m
        <5>1. QED
          BY <1>2, <4>2, CarriedIs
      <4>4. full = rest
        BY <4>1, <4>3, ConcatEmptySeq DEF Texts
      <4>5. QED
        BY <1>5, <4>1, <4>2, <4>4
    <3>2. CASE ~ (sent <= cap)
      <4>1. room = 0 /\ sent + room = sent /\ f = TailFrom(sent)
        BY <1>2, <1>5, <1>10, <3>2
      <4>2. f \in Nat /\ f <= sent
        BY <1>2, <1>5, <3>2, <4>1 DEF TailFrom
      <4>3. Carried(tail, T, f, sent) /\ Carried(rest, T, sent, m)
        BY <1>1, <1>2, <1>5, <1>13, <3>2, <4>1
      <4>4. f \in 0..Len(T) /\ sent \in f..Len(T) /\ m \in sent..Len(T) /\ m \in f..Len(T)
        BY <1>2, <1>3, <1>7, <4>2
      <4> HIDE DEF f, rest, m
      <4>5. Carried(full, T, f, m)
        BY <1>2, <4>3, <4>4, CarriedJoin
      <4>6. QED
        BY <4>2, <4>4, <4>5
    <3>3. QED
      BY <3>1, <3>2
  <2>2. tail' = Last(full, TailCap)
    BY <1>6, <1>15, <1>17 DEF KeepTail
  <2>3. (IF m - f > TailCap THEN m - TailCap ELSE f) = TailFrom(m)
    BY <1>2, <1>5, <1>7, <1>17, <2>1 DEF TailFrom
  <2>4. Carried(tail', T, TailFrom(m), m)
    <3> HIDE DEF f, full, m
    <3>1. Carried(Last(full, TailCap), T, IF m - f > TailCap THEN m - TailCap ELSE f, m)
      BY <1>2, <1>5, <2>1, LastIs
    <3>2. QED
      BY <2>2, <2>3, <3>1
  <2>5. TailFrom(m) = TailFrom(sent)'
    BY <1>3, <1>4 DEF TailFrom
  <2>6. sent' = m /\ ~ (sent' <= cap') /\ Carried(head', T, 0, cap') /\ sent' \in 0..Len(T)
    BY <1>3, <1>4, <1>6, <1>7, <1>14, <1>17
  <2>7. Carried(tail', T, TailFrom(sent)', sent')
    BY <2>4, <2>5, <2>6
  <2>8. QED
    BY <1>1, <1>4, <2>6, <2>7 DEF Teed, T
<1>18. QED
  BY <1>16, <1>17

\* Every step of the tee keeps it.
LEMMA TeedStep ==
  ASSUME Teed, [SseNext]_sseVars
  PROVE  Teed'
<1>1. CASE Copy
  BY <1>1, TeedCopy
<1>2. CASE Close
  BY <1>2 DEF Close, Teed, TailFrom
<1>3. CASE UNCHANGED sseVars
  BY <1>3 DEF sseVars, Teed, TailFrom
<1>4. QED
  BY <1>1, <1>2, <1>3 DEF SseNext

----------------------------------------------------------------------------
(* The usage is exact.                                                     *)

LEMMA PayloadAtIs ==
  ASSUME NEW b, IsStream(b), NEW j \in 1..Len(b.events)
  PROVE  PayloadAt(b, j)[1] = At(b, j) /\ PayloadAt(b, j)[2] = At(b, j) + 1
<1> DEFINE B == (j - 1) * EventSize(b)
           E == Len(b.eol)
           shut == B + E + 3
<1>1. PayloadAt(b, j) = <<shut - 1, shut>>
  BY DEF PayloadAt, IsStream
<1>2. PayloadAt(b, j)[1] = shut - 1 /\ PayloadAt(b, j)[2] = shut
  <2> HIDE DEF shut
  <2>1. QED
    BY <1>1
<1>3. B \in Nat /\ E \in Nat
  <2>1. j - 1 \in Nat /\ EventSize(b) \in Nat /\ E \in Nat
    BY BodyIs DEF IsStream
  <2>2. QED
    BY <2>1
<1>4. At(b, j) = B + E + 2
  BY DEF At
<1> HIDE DEF B, E
<1>5. At(b, j) = shut - 1 /\ At(b, j) + 1 = shut
  BY <1>3, <1>4
<1>6. QED
  BY <1>2, <1>5

\* The events of the stream that the two pieces have all of.
WholeKept ==
  {j \in 1..Len(body.events) :
     \/ At(body, j) + 1 <= Len(head)
     \/ ~ body.encoded /\ At(body, j) > sent - Len(tail) /\ At(body, j) + 1 <= sent}

\* The property's Kept, in terms of positions in the text.
LEMMA KeptIs ==
  ASSUME Teed, IsStream(body)
  PROVE  Kept = KeptOf(body.events, WholeKept)
<1>1. DOMAIN body.events = 1..Len(body.events)
  BY BodyIs, LenProperties DEF IsStream
<1> DEFINE InHead(at) == at[2] <= Len(head)
           InTail(at) == ~ body.encoded /\ at[1] > sent - Len(tail) /\ at[2] <= sent
           W == {j \in DOMAIN body.events :
                   InHead(PayloadAt(body, j)) \/ InTail(PayloadAt(body, j))}
<1>2. W = WholeKept
  <2>1. ASSUME NEW j \in 1..Len(body.events)
        PROVE  PayloadAt(body, j)[1] = At(body, j) /\ PayloadAt(body, j)[2] = At(body, j) + 1
    BY PayloadAtIs
  <2>2. QED
    BY <1>1, <2>1 DEF WholeKept
<1>3. Kept = {j \in W : \A i \in W : body.events[i].type = "error" => j < i}
  BY DEF Kept
<1> HIDE DEF W
<1>4. QED
  BY <1>2, <1>3 DEF KeptOf

\* What a text tells is exact when its whole payloads are the events kept.
LEMMA ExactFrom ==
  ASSUME Teed, IsStream(body), NEW S \in Texts, NEW x, TornAt(S, x),
         NEW pos, Matches(S, body.events, WholeKept, pos), NEW u, Tells(u, S)
  PROVE  /\ u.input = Newest("message_start")
         /\ u.output = Newest("message_delta")
         /\ u.stream => u.events \in Cardinality(Kept)..(Cardinality(Kept) + 2)
<1> DEFINE ev == body.events
           W == WholeKept
<1>1. W \subseteq Nat
  BY DEF WholeKept
<1>2. Kept = KeptOf(ev, W)
  BY KeptIs
<1>3. Matches(S, ev, W, pos)
  OBVIOUS
<1> HIDE DEF W
<1>4. ASSUME NEW type, NEW n, IsNewest(n, S, type, Len(S)) PROVE n = Newest(type)
  <2> DEFINE js == OfType(ev, KeptOf(ev, W), type)
  <2>1. n = IF js = {} THEN 0 ELSE ev[Max(js)].n
    <3>1. NewestIn(n, ev, W, type)
      <4> HIDE DEF js, ev
      <4>1. QED
        BY <1>1, <1>3, <1>4, NewestMatches
    <3>2. QED
      BY <3>1 DEF NewestIn
  <2>2. js = {j \in Kept : body.events[j].type = type}
    BY <1>2 DEF OfType
  <2> HIDE DEF js
  <2>3. QED
    BY <2>1, <2>2 DEF Newest
<1>5. u.input = Newest("message_start") /\ u.output = Newest("message_delta")
  BY <1>4 DEF Tells
<1>6. Cardinality(Kept) = Cardinality(Heard(S))
  BY <1>1, <1>2, <1>3, CountMatches
<1>7. u.stream => u.events \in Cardinality(Heard(S))..(Cardinality(Heard(S)) + 2)
  BY OpensCounted
<1>8. QED
  BY <1>5, <1>6, <1>7

\* The head, as a piece of the text.
LEMMA HeadIs ==
  ASSUME Teed
  PROVE  LET T == Text(body)
             h == Len(head)
         IN  /\ T \in Texts /\ Len(T) \in Nat /\ sent \in Nat /\ sent <= Len(T)
             /\ head \in Texts /\ h \in 0..Len(T) /\ h <= sent /\ h <= cap
             /\ Carried(head, T, 0, h)
             /\ sent > cap => h = cap
<1> DEFINE T == Text(body)
           h == IF sent <= cap THEN sent ELSE cap
<1>1. /\ cap \in Caps /\ body \in Bodies /\ sent \in 0..Len(T) /\ Carried(head, T, 0, h)
  BY DEF Teed
<1>2. T \in Texts /\ Len(T) \in Nat /\ sent \in Nat /\ cap \in Nat
  BY <1>1, BodyText, SymbolAt, Constants
<1>3. h \in 0..Len(T) /\ 0 \in 0..Len(T) /\ h \in Nat
  BY <1>1, <1>2
<1> HIDE DEF T, h
<1>4. head \in Texts /\ Len(head) = h - 0
  BY <1>1, <1>2, <1>3, CarriedIs
<1>5. Len(head) = h
  BY <1>3, <1>4
<1>6. QED
  BY <1>1, <1>2, <1>3, <1>4, <1>5 DEF T, h

\* The tail, as a piece of the text.
LEMMA TailIs ==
  ASSUME Teed, tail # <<>>
  PROVE  LET T == Text(body)
             t == sent - Len(tail)
         IN  /\ tail \in Texts /\ t \in 0..Len(T) /\ sent \in t..Len(T)
             /\ Len(head) <= t /\ t + Len(tail) = sent /\ Len(tail) \in Nat
             /\ Carried(tail, T, t, sent)
<1> DEFINE T == Text(body)
           f == TailFrom(sent)
<1>1. T \in Texts /\ Len(T) \in Nat /\ sent \in Nat /\ sent <= Len(T) /\ Len(head) <= cap
  BY HeadIs
<1>2. sent > cap
  BY <1>1, Constants DEF Teed
<1>3. cap \in Nat /\ TailCap \in Nat
  BY Constants DEF Teed
<1>4. Carried(tail, T, f, sent)
  BY <1>2 DEF Teed
<1>5. f \in Nat /\ cap <= f /\ f <= sent
  BY <1>1, <1>2, <1>3 DEF TailFrom
<1> HIDE DEF f, T
<1>6. f \in 0..Len(T) /\ sent \in f..Len(T)
  BY <1>1, <1>5
<1>7. tail \in Texts /\ Len(tail) = sent - f
  BY <1>1, <1>4, <1>6, CarriedIs
<1>8. Len(head) \in Nat
  BY HeadIs, SymbolAt
<1>9. sent - Len(tail) = f /\ Len(tail) \in Nat
  BY <1>1, <1>5, <1>7
<1>10. Len(head) <= f /\ f + Len(tail) = sent
  BY <1>1, <1>3, <1>5, <1>7, <1>8
<1>11. QED
  BY <1>4, <1>6, <1>7, <1>9, <1>10 DEF T

\* A stream that fitted, or whose tail is of no use.
LEMMA StreamHead ==
  ASSUME Teed, IsStream(body), body.encoded \/ tail = <<>>
  PROVE  LET u == Finish(Feed(NewParser, head)) IN
         /\ u.input = Newest("message_start")
         /\ u.output = Newest("message_delta")
         /\ u.stream => u.events \in Cardinality(Kept)..(Cardinality(Kept) + 2)
<1> DEFINE T == Text(body)
           S == head
           W == WholeKept
           pos == [j \in W |-> At(body, j)]
           ev == body.events
<1>1. /\ T \in Texts /\ Len(T) \in Nat /\ S \in Texts /\ Len(S) \in 0..Len(T)
      /\ Carried(S, T, 0, Len(S)) /\ 0 \in 0..Len(T) /\ sent \in Nat
  BY HeadIs
<1>2. IsPiece(S)
  BY <1>1, TextPiece
<1>3. WellFormed(S) /\ TornAt(S, Len(S))
  BY <1>2, PieceWellFormed, PieceTorn
<1>4. Tells(Finish(Feed(NewParser, S)), S)
  BY <1>1, <1>3, HeadTells
<1>5. /\ \A j \in 1..Len(ev) :
           0 < At(body, j) /\ At(body, j) + 1 <= Len(S) =>
             At(body, j) - 0 \in Whole(S) /\ S[At(body, j) - 0].ev = ev[j]
      /\ \A i \in Whole(S) :
           \E j \in 1..Len(ev) : At(body, j) = 0 + i /\ At(body, j) + 1 <= Len(S)
  BY <1>1, PieceWhole
<1>6. \A j \in 1..Len(ev) : At(body, j) \in Nat /\ At(body, j) > 1
  BY PayloadIs
<1>7. \A j \in W : j \in 1..Len(ev) /\ At(body, j) + 1 <= Len(S)
  <2>1. SUFFICES ASSUME NEW j \in W, tail = <<>>, At(body, j) > sent - Len(tail),
                        At(body, j) + 1 <= sent
                 PROVE  FALSE
    BY DEF WholeKept
  <2>2. Len(tail) = 0
    BY <2>1
  <2>3. At(body, j) \in Nat
    BY <1>6 DEF WholeKept
  <2>4. QED
    BY <1>1, <2>1, <2>2, <2>3
<1>8. \A j \in 1..Len(ev) : At(body, j) + 1 <= Len(S) => j \in W
  BY DEF WholeKept
<1> HIDE DEF W
<1>9. ASSUME NEW j \in W PROVE pos[j] = At(body, j) /\ pos[j] \in Whole(S) /\ S[pos[j]].ev = ev[j]
  BY <1>5, <1>6, <1>7
<1>10. ASSUME NEW i \in Whole(S) PROVE \E j \in W : i = pos[j]
  <2>1. PICK j \in 1..Len(ev) : At(body, j) = 0 + i /\ At(body, j) + 1 <= Len(S)
    BY <1>5
  <2>2. i \in Nat
    BY <1>1, OpensIn DEF Whole
  <2>3. j \in W /\ i = At(body, j)
    BY <1>8, <2>1, <2>2
  <2>4. QED
    BY <1>9, <2>3
<1>11. ASSUME NEW i \in W, NEW j \in W, i < j PROVE pos[i] < pos[j]
  <2>1. At(body, i) \in Nat /\ At(body, j) \in Nat
        /\ At(body, i) + 3 * Len(body.eol) + 3 <= At(body, j)
    BY <1>7, <1>11, AtGrows
  <2>2. Len(body.eol) \in Nat
    BY BodyIs DEF IsStream
  <2>3. At(body, i) < At(body, j)
    BY <2>1, <2>2
  <2>4. QED
    BY <1>9, <2>3
<1>12. pos \in [W -> Whole(S)]
  BY <1>9
<1>13. Matches(S, ev, W, pos)
  <2> HIDE DEF pos
  <2>1. QED
    BY <1>9, <1>10, <1>11, <1>12 DEF Matches
<1> HIDE DEF pos
<1>14. QED
  BY <1>1, <1>3, <1>4, <1>13, ExactFrom DEF W

\* A stream whose head was cut, and whose tail is read behind a blank line.
LEMMA StreamSpliced ==
  ASSUME Teed, IsStream(body), ~ body.encoded, tail # <<>>
  PROVE  LET u == Finish(Splice(head, tail)) IN
         /\ u.input = Newest("message_start")
         /\ u.output = Newest("message_delta")
         /\ u.stream => u.events \in Cardinality(Kept)..(Cardinality(Kept) + 2)
<1> DEFINE T == Text(body)
           S == Spliced(head, tail)
           W == WholeKept
           a == Len(head)
           t == sent - Len(tail)
           place(j) == IF At(body, j) + 1 <= a THEN At(body, j) ELSE At(body, j) - t + a + 2
           pos == [j \in W |-> place(j)]
           ev == body.events
<1>1. /\ T \in Texts /\ Len(T) \in Nat /\ head \in Texts /\ a \in 0..Len(T) /\ a \in Nat
      /\ Carried(head, T, 0, a) /\ 0 \in 0..Len(T) /\ sent \in Nat
  BY HeadIs
<1>2. /\ tail \in Texts /\ t \in 0..Len(T) /\ sent \in t..Len(T)
      /\ a <= t /\ t + Len(tail) = sent /\ t \in Nat /\ Len(tail) \in Nat
      /\ Carried(tail, T, t, sent)
  BY TailIs
<1>3. IsPiece(head) /\ IsPiece(tail)
  <2>1. IsPiece(head)
    BY <1>1, TextPiece
  <2> HIDE DEF t
  <2>2. IsPiece(tail)
    BY <1>2, TextPiece
  <2>3. QED
    BY <2>1, <2>2
<1>4. S \in Texts
  BY <1>1, <1>2, SplicedIs
<1>5. /\ \A i \in Whole(head) : i \in Whole(S) /\ S[i] = head[i]
      /\ \A i \in Whole(tail) : i + a + 2 \in Whole(S) /\ S[i + a + 2] = tail[i]
      /\ \A i \in Whole(S) : i \in Whole(head) \/ i - (a + 2) \in Whole(tail)
      /\ TornAt(S, a)
  BY <1>3, SplicedWhole
<1>6. Tells(Finish(Splice(head, tail)), S)
  BY <1>1, <1>2, <1>3, SplicedWellFormed, SpliceTells
<1>7. /\ \A j \in 1..Len(ev) :
           0 < At(body, j) /\ At(body, j) + 1 <= a =>
             At(body, j) - 0 \in Whole(head) /\ head[At(body, j) - 0].ev = ev[j]
      /\ \A i \in Whole(head) :
           \E j \in 1..Len(ev) : At(body, j) = 0 + i /\ At(body, j) + 1 <= a
  BY <1>1, PieceWhole
<1>8. /\ \A j \in 1..Len(ev) :
           t < At(body, j) /\ At(body, j) + 1 <= sent =>
             At(body, j) - t \in Whole(tail) /\ tail[At(body, j) - t].ev = ev[j]
      /\ \A i \in Whole(tail) :
           \E j \in 1..Len(ev) : At(body, j) = t + i /\ At(body, j) + 1 <= sent
  <2> HIDE DEF t
  <2>1. QED
    BY <1>2, PieceWhole
<1>9. \A j \in 1..Len(ev) : At(body, j) \in Nat /\ At(body, j) > 1
  BY PayloadIs
<1>10. \A j \in 1..Len(ev) :
         j \in W <=> \/ At(body, j) + 1 <= a
                     \/ At(body, j) > t /\ At(body, j) + 1 <= sent
  BY DEF WholeKept
<1>11. W \subseteq 1..Len(ev)
  BY DEF WholeKept
<1> HIDE DEF W, t, S, a
<1>12. ASSUME NEW j \in W PROVE place(j) \in Whole(S) /\ S[place(j)].ev = ev[j]
  <2>1. j \in 1..Len(ev) /\ At(body, j) \in Nat /\ At(body, j) > 1
    BY <1>9, <1>11
  <2>2. CASE At(body, j) + 1 <= a
    <3>1. At(body, j) \in Whole(head) /\ head[At(body, j)].ev = ev[j]
      BY <1>7, <2>1, <2>2
    <3>2. At(body, j) \in Whole(S) /\ S[At(body, j)] = head[At(body, j)]
      BY <1>5, <3>1
    <3>3. QED
      BY <2>2, <3>1, <3>2
  <2>3. CASE ~ (At(body, j) + 1 <= a)
    <3>1. At(body, j) > t /\ At(body, j) + 1 <= sent
      BY <1>10, <2>1, <2>3
    <3> DEFINE i == At(body, j) - t
    <3>2. i \in Whole(tail) /\ tail[i].ev = ev[j]
      BY <1>2, <1>8, <2>1, <3>1
    <3>3. i + a + 2 \in Whole(S) /\ S[i + a + 2] = tail[i]
      <4> HIDE DEF i
      <4>1. QED
        BY <1>5, <3>2
    <3>4. place(j) = i + a + 2
      BY <2>3
    <3> HIDE DEF i, place
    <3>5. QED
      BY <3>2, <3>3, <3>4
  <2>4. QED
    BY <2>2, <2>3
<1>13. ASSUME NEW i \in Whole(S) PROVE \E j \in W : i = place(j)
  <2>1. i \in Nat
    BY <1>4, OpensIn DEF Whole
  <2>2. CASE i \in Whole(head)
    <3>1. PICK j \in 1..Len(ev) : At(body, j) = 0 + i /\ At(body, j) + 1 <= a
      BY <1>7, <2>2
    <3>2. At(body, j) = i /\ j \in W
      BY <1>10, <2>1, <3>1
    <3>3. place(j) = i
      BY <3>1, <3>2
    <3>4. QED
      BY <3>2, <3>3
  <2>3. CASE i - (a + 2) \in Whole(tail)
    <3> DEFINE y == i - (a + 2)
    <3>1. PICK j \in 1..Len(ev) : At(body, j) = t + y /\ At(body, j) + 1 <= sent
      BY <1>8, <2>3
    <3>2. y \in Nat /\ y >= 1
      <4>1. y \in Opens(tail)
        BY <2>3 DEF Whole
      <4> HIDE DEF y
      <4>2. QED
        BY <1>2, <4>1, OpensIn
    <3>3. i = y + a + 2
      BY <1>1, <2>1
    <3> HIDE DEF y
    <3>4. At(body, j) > t /\ ~ (At(body, j) + 1 <= a)
      BY <1>1, <1>2, <3>1, <3>2
    <3>5. j \in W
      BY <1>10, <3>1, <3>4
    <3>6. place(j) = i
      <4>1. At(body, j) - t + a + 2 = y + a + 2
        BY <1>1, <1>2, <3>1, <3>2
      <4>2. QED
        BY <3>3, <3>4, <4>1
    <3>7. QED
      BY <3>5, <3>6
  <2>4. QED
    BY <1>5, <2>2, <2>3
<1>14. ASSUME NEW i \in W, NEW j \in W, i < j PROVE place(i) < place(j)
  <2> DEFINE p == At(body, i)
             q == At(body, j)
  <2>1. p \in Nat /\ q \in Nat /\ p + 3 * Len(body.eol) + 3 <= q
    BY <1>11, <1>14, AtGrows
  <2>2. Len(body.eol) \in Nat
    BY BodyIs DEF IsStream
  <2>3. p < q
    BY <2>1, <2>2
  <2>4. (p + 1 <= a \/ p > t) /\ (q + 1 <= a \/ q > t)
    BY <1>10, <1>11
  <2>5. /\ place(i) = IF p + 1 <= a THEN p ELSE p - t + a + 2
        /\ place(j) = IF q + 1 <= a THEN q ELSE q - t + a + 2
    OBVIOUS
  <2> HIDE DEF p, q, place
  <2>6. QED
    BY <1>1, <1>2, <2>1, <2>3, <2>4, <2>5
<1> HIDE DEF place
<1>15. \A j \in W : pos[j] = place(j)
  OBVIOUS
<1>16. pos \in [W -> Whole(S)]
  BY <1>12
<1>17. Matches(S, ev, W, pos)
  <2> HIDE DEF pos
  <2>1. QED
    BY <1>12, <1>13, <1>14, <1>15, <1>16 DEF Matches
<1> HIDE DEF pos
<1>18. QED
  BY <1>4, <1>5, <1>6, <1>17, ExactFrom DEF W

\* A JSON body counts when it came whole.
LEMMA JsonExact ==
  ASSUME Teed, body.ctype = "application/json"
  PROVE  ParseNonStream(head).input = IF Len(head) = 2 THEN body.events[1].n ELSE 0
<1> DEFINE T == Text(body)
           e1 == body.events[1]
<1>1. e1 \in Events /\ T = <<Open(e1), Shut(e1)>> /\ Len(T) = 2
  BY JsonText DEF Teed
<1>2. /\ T \in Texts /\ head \in Texts /\ Len(head) \in 0..Len(T) /\ Carried(head, T, 0, Len(head))
      /\ 0 \in 0..Len(T)
  BY HeadIs
<1>3. DOMAIN head = 1..Len(head)
  BY <1>2, SymbolAt
<1> DEFINE Whose == {head[i].ev : i \in {j \in DOMAIN head : head[j].k = "open"}}
<1>4. CASE Len(head) = 2
  <2>1. SubSeq(T, 1, Len(T)) = T
    BY <1>2, SubSeqFull DEF Texts
  <2>2. head = T
    <3>1. 0 + 1 = 1
      OBVIOUS
    <3>2. QED
      BY <1>1, <1>2, <1>4, <2>1, <3>1 DEF Carried
  <2>3. head = <<Open(e1), Shut(e1)>> /\ head[1] = Open(e1)
    BY <1>1, <2>2
  <2>4. head[1].k = "open" /\ head[1].ev = e1 /\ 1 \in DOMAIN head
    BY <1>3, <1>4, <2>3, Kinds DEF IsOpen
  <2>5. e1 \in Whose
    BY <2>4
  <2> HIDE DEF Whose, e1
  <2>6. \E e \in Whose : head = <<Open(e), Shut(e)>>
    BY <2>3, <2>5
  <2>7. ParseNonStream(head) = [NoUsage EXCEPT !.input = head[1].ev.n, !.events = 1]
    BY <2>6 DEF ParseNonStream, Whose
  <2>8. ParseNonStream(head).input = head[1].ev.n
    BY <2>7 DEF NoUsage
  <2>9. QED
    BY <1>4, <2>4, <2>8 DEF e1
<1>5. CASE Len(head) # 2
  <2>1. \A e : head # <<Open(e), Shut(e)>>
    BY <1>5
  <2>2. ParseNonStream(head) = NoUsage
    BY <2>1 DEF ParseNonStream
  <2>3. QED
    BY <1>5, <2>2 DEF NoUsage
<1>6. QED
  BY <1>4, <1>5

\* What was teed is counted exactly.
LEMMA TeedExact ==
  ASSUME Teed
  PROVE  UsageExact
<1> DEFINE u == UsageOf(body, head, tail)
<1>1. body \in Bodies
  BY DEF Teed
<1>2. ASSUME body.ctype = "text/event-stream"
      PROVE  /\ u.input = Newest("message_start")
             /\ u.output = Newest("message_delta")
             /\ u.stream => u.events \in Cardinality(Kept)..(Cardinality(Kept) + 2)
  <2>1. IsStream(body)
    BY <1>1, <1>2 DEF IsStream
  <2>2. CASE body.encoded \/ tail = <<>>
    <3>1. u = Finish(Feed(NewParser, head))
      BY <1>2, <2>2 DEF UsageOf, ExtractUsage
    <3> HIDE DEF u
    <3>2. QED
      BY <2>1, <2>2, <3>1, StreamHead
  <2>3. CASE ~ body.encoded /\ tail # <<>>
    <3>1. u = Finish(Splice(head, tail))
      BY <1>2, <2>3 DEF UsageOf, ExtractUsageWithTail
    <3> HIDE DEF u
    <3>2. QED
      BY <2>1, <2>3, <3>1, StreamSpliced
  <2>4. QED
    BY <2>2, <2>3
<1>3. ASSUME body.ctype # "text/event-stream" PROVE u = ExtractUsage(head, body.ctype)
  BY <1>3 DEF UsageOf, ExtractUsageWithTail
<1>4. ASSUME body.ctype = "application/json"
      PROVE  u.input = IF Len(head) = 2 THEN body.events[1].n ELSE 0
  <2>1. u = ParseNonStream(head)
    BY <1>3, <1>4 DEF ExtractUsage
  <2> HIDE DEF u
  <2>2. QED
    BY <1>4, <2>1, JsonExact
<1>5. ASSUME body.ctype \notin {"text/event-stream", "application/json"} PROVE u = NoUsage
  BY <1>3, <1>5 DEF ExtractUsage
<1> HIDE DEF u
<1>6. QED
  BY <1>2, <1>4, <1>5 DEF UsageExact, u

\* However the bytes of a response were cut into writes, wherever they broke
\* off and wherever the head ends and the tail begins, the usage of a stream
\* is that of the events kept whole, for every body and every cap
\* (boundedBuffer.Write, ExtractUsageWithTail, Parser).
THEOREM UsageAlwaysExact == SseSpec => []UsageExact
<1>1. Teed => UsageExact
  BY TeedExact
<1>2. QED
  BY <1>1, TeedInit, TeedStep, PTL DEF SseSpec

----------------------------------------------------------------------------
(* Chunks of any size.                                                     *)

\* p with more bytes behind those it carries.
Grown(p, v) == [p EXCEPT !.buf = @ \o v]

\* Nothing but the carried bytes changes.
LEMMA GrownIs ==
  ASSUME NEW p \in Parsers, NEW v \in Texts
  PROVE  /\ Grown(p, v) \in Parsers /\ Grown(p, v).buf = p.buf \o v
         /\ Grown(p, v).err = p.err /\ Grown(p, v).usage = p.usage
<1>1. p.buf \in Texts
  BY DEF Parsers
<1>2. p.buf \o v \in Texts
  BY <1>1, JoinIs
<1>3. QED
  BY <1>2 DEF Grown, Parsers

\* What a block makes of a parser does not depend on what is carried.
LEMMA ProcessAnywhere ==
  ASSUME NEW p \in Parsers, NEW raw \in Texts, NEW b \in Texts
  PROVE  /\ ProcessEvent(p, raw) \in Parsers
         /\ ProcessEvent(p, raw).buf = p.buf
         /\ ProcessEvent([p EXCEPT !.buf = b], raw) = [ProcessEvent(p, raw) EXCEPT !.buf = b]
<1> DEFINE q == [p EXCEPT !.buf = b]
           c == Counted(p)
           d == Counted(q)
<1>1. /\ q \in Parsers /\ c \in Parsers /\ d \in Parsers /\ c.buf = p.buf
      /\ q = [p EXCEPT !.buf = b] /\ d = [c EXCEPT !.buf = b]
  <2>1. q \in Parsers /\ q.events = p.events
    BY DEF Parsers
  <2>2. c \in Parsers /\ c.buf = p.buf /\ d \in Parsers
    <3> HIDE DEF q
    <3>1. QED
      BY <2>1, CountedIs
  <2>3. d = [c EXCEPT !.buf = b]
    <3>1. p = [buf |-> p.buf, usage |-> p.usage, events |-> p.events, err |-> p.err]
      BY DEF Parsers
    <3>2. c = [buf |-> p.buf, usage |-> p.usage, events |-> p.events + 1, err |-> p.err]
      BY <3>1 DEF Counted
    <3>3. q = [buf |-> b, usage |-> p.usage, events |-> p.events, err |-> p.err]
      BY <3>1
    <3>4. d = [buf |-> b, usage |-> p.usage, events |-> p.events + 1, err |-> p.err]
      <4> HIDE DEF q
      <4>1. QED
        BY <3>3 DEF Counted
    <3> HIDE DEF c, d
    <3>5. QED
      BY <3>2, <3>4
  <2>4. QED
    BY <2>1, <2>2, <2>3
<1>2. CASE DataLines(raw) = {}
  BY <1>1, <1>2 DEF ProcessEvent
<1>3. CASE DataLines(raw) # {} /\ Payload(raw) = {}
  <2>1. ProcessEvent(p, raw) = c /\ ProcessEvent(q, raw) = d
    BY <1>3 DEF ProcessEvent, Counted
  <2> HIDE DEF c, d
  <2>2. QED
    BY <1>1, <2>1
<1>4. CASE DataLines(raw) # {} /\ Payload(raw) # {}
  <2> DEFINE e == CHOOSE f \in Payload(raw) : TRUE
  <2>1. e \in Payload(raw)
    BY <1>4
  <2>2. ProcessEvent(p, raw) = ApplyEvent(c, e) /\ ProcessEvent(q, raw) = ApplyEvent(d, e)
    BY <1>4 DEF ProcessEvent, Counted
  <2>3. PICK i \in DOMAIN raw : raw[i].k = "open" /\ e = raw[i].ev
    BY <2>1 DEF Payload
  <2>4. raw[i] \in Symbols
    BY SymbolAt
  <2>5. e \in Events
    BY <2>3, <2>4, OpenIs DEF IsOpen
  <2> HIDE DEF e, c, d, q
  <2>6. ApplyEvent(c, e) \in Parsers /\ ApplyEvent(c, e).buf = c.buf
    BY <1>1, <2>5, ApplyIs
  <2>7. ApplyEvent(d, e) = [ApplyEvent(c, e) EXCEPT !.buf = b]
    <3>1. CASE e.type = "message_start"
      BY <1>1, <3>1 DEF ApplyEvent, Parsers, Usages
    <3>2. CASE e.type = "message_delta"
      BY <1>1, <3>2 DEF ApplyEvent, Parsers, Usages
    <3>3. CASE e.type = "error"
      BY <1>1, <3>3 DEF ApplyEvent, Parsers, Usages
    <3>4. CASE e.type \notin {"message_start", "message_delta", "error"}
      BY <1>1, <3>4 DEF ApplyEvent
    <3>5. QED
      BY <3>1, <3>2, <3>3, <3>4
  <2>8. QED
    BY <1>1, <2>2, <2>6, <2>7 DEF q
<1>5. QED
  BY <1>2, <1>3, <1>4

\* The first blank line of some bytes is the first of more.
LEMMA FirstStays ==
  ASSUME NEW P \in Texts, NEW v \in Texts, EventEnds(P) # {}
  PROVE  /\ EventEnds(P \o v) # {}
         /\ Min(EventEnds(P \o v)) = Min(EventEnds(P))
         /\ EndsAt(P \o v, Min(EventEnds(P))) = EndsAt(P, Min(EventEnds(P)))
<1> DEFINE S == P \o v
           m == Len(P)
           n == Len(S)
           i == Min(EventEnds(P))
           k == EndsAt(P, i)
           x == Min(EventEnds(S))
           j == EndsAt(S, x)
<1>1. S \in Texts /\ m \in Nat /\ n \in Nat /\ m <= n /\ \A y \in 1..m : S[y] = P[y]
  <2>1. S \in Texts /\ Len(S) = Len(P) + Len(v) /\ \A y \in 1..Len(P) : S[y] = P[y]
    BY JoinIs
  <2>2. Len(P) \in Nat /\ Len(v) \in Nat
    BY SymbolAt
  <2> HIDE DEF S
  <2>3. QED
    BY <2>1, <2>2
<1> HIDE DEF S
<1>2. 0 \in 0..Len(S) /\ m \in 0..Len(S) /\ n \in 0..Len(S)
  BY <1>1
<1>3. Carried(P, S, 0, m) /\ Carried(S, S, 0, n)
  <2>1. \A y \in 1..m : P[y] = S[0 + y]
    BY <1>1
  <2>2. \A y \in 1..n : S[y] = S[0 + y]
    BY <1>1
  <2>3. m = m - 0 /\ n = n - 0
    BY <1>1
  <2>4. Carried(P, S, 0, m)
    BY <1>1, <1>2, <2>1, <2>3, CarriedFrom
  <2>5. Carried(S, S, 0, n)
    BY <1>1, <1>2, <2>2, <2>3, CarriedFrom
  <2>6. QED
    BY <2>4, <2>5
<1>4. /\ i \in 1..m /\ k \in {2, 4} /\ 0 + i + k - 1 <= m /\ BlankAt(S, 0 + i, k, m)
      /\ \A y \in (0 + 1)..m, l \in {2, 4} : BlankAt(S, y, l, m) => 0 + i <= y
  <2> HIDE DEF m
  <2>1. /\ i \in 1..Len(P) /\ k \in {2, 4} /\ 0 + i + k - 1 <= m /\ BlankAt(S, 0 + i, k, m)
        /\ \A y \in (0 + 1)..m, l \in {2, 4} : BlankAt(S, y, l, m) => 0 + i <= y
    BY <1>1, <1>2, <1>3, FirstBlank
  <2>2. QED
    BY <2>1 DEF m
<1>5. i \in Nat /\ BlankAt(S, i, k, m) /\ i \in 1..n
  BY <1>1, <1>4
<1>6. BlankAt(S, i, k, n)
  BY <1>1, <1>5, BlankStays
<1>7. i \in EventEnds(S)
  BY <1>1, <1>4, <1>5, <1>6, EndsAtIs, SymbolAt DEF EventEnds
<1>8. /\ x \in 1..n /\ j \in {2, 4} /\ BlankAt(S, 0 + x, j, n) /\ x <= i
  <2>1. EventEnds(S) # {}
    BY <1>7
  <2>2. x \in 1..n /\ j \in {2, 4} /\ BlankAt(S, 0 + x, j, n)
        /\ \A y \in (0 + 1)..n, l \in {2, 4} : BlankAt(S, y, l, n) => 0 + x <= y
    <3> HIDE DEF n
    <3>1. /\ x \in 1..Len(S) /\ j \in {2, 4} /\ BlankAt(S, 0 + x, j, n)
          /\ \A y \in (0 + 1)..n, l \in {2, 4} : BlankAt(S, y, l, n) => 0 + x <= y
      BY <1>1, <1>2, <1>3, <2>1, FirstBlank
    <3>2. QED
      BY <3>1 DEF n
  <2>3. x \in Nat
    BY <2>2
  <2>4. QED
    BY <1>4, <1>5, <1>6, <2>2, <2>3
<1>9. x \in Nat /\ BlankAt(S, x, j, n)
  BY <1>8
<1> HIDE DEF i, k, x, j, m, n
<1>10. BlankAt(S, x, j, m)
  <2>1. CASE x + j - 1 <= m
    BY <1>1, <1>8, <1>9, <2>1 DEF BlankAt
  <2>2. CASE ~ (x + j - 1 <= m)
    <3>1. i = x \/ (j = 4 /\ (i = x + 1 \/ i = x + 2))
      BY <1>1, <1>4, <1>8, <1>9, <2>2
    <3>2. CASE i = x
      BY <1>1, <1>4, <1>5, <1>6, <1>9, <2>2, <3>2, OneBlank
    <3>3. CASE j = 4 /\ i = x + 1
      <4>1. S[i] = LF /\ S[i+1] = CR
        BY <1>9, <3>3 DEF BlankAt, TwoLines
      <4>2. QED
        BY <1>5, <4>1, Kinds DEF BlankAt, Twice, TwoLines
    <3>4. CASE j = 4 /\ i = x + 2
      <4>1. S[i] = CR /\ S[i+1] = LF
        BY <1>9, <3>4 DEF BlankAt, TwoLines
      <4>2. k = 4
        BY <1>5, <4>1, Kinds DEF BlankAt, Twice
      <4>3. QED
        BY <1>1, <1>4, <1>9, <2>2, <3>4, <4>2
    <3>5. QED
      BY <3>1, <3>2, <3>3, <3>4
  <2>3. QED
    BY <2>1, <2>2
<1>11. x = i
  <2>1. x \in (0 + 1)..m
    BY <1>1, <1>4, <1>8
  <2>2. 0 + i <= x
    BY <1>4, <1>8, <1>10, <2>1
  <2>3. QED
    BY <1>5, <1>8, <1>9, <2>2
<1>12. j = k
  BY <1>1, <1>5, <1>6, <1>9, <1>11, OneBlank
<1>13. QED
  BY <1>7, <1>11, <1>12 DEF S, i, k, x, j

\* The first blank line lies within the bytes.
LEMMA FirstBlankHere ==
  ASSUME NEW P \in Texts, EventEnds(P) # {}
  PROVE  LET i == Min(EventEnds(P)) IN
         i \in 1..Len(P) /\ EndsAt(P, i) \in {2, 4} /\ i + EndsAt(P, i) - 1 <= Len(P)
<1> DEFINE i == Min(EventEnds(P))
           k == EndsAt(P, i)
<1>1. Len(P) \in Nat /\ DOMAIN P = 1..Len(P)
  BY SymbolAt
<1>2. EventEnds(P) \subseteq 1..Len(P) /\ EventEnds(P) \subseteq Nat
  BY <1>1 DEF EventEnds
<1>3. i \in EventEnds(P)
  BY <1>2, MinIs
<1>4. i \in 1..Len(P) /\ k > 0
  BY <1>2, <1>3 DEF EventEnds
<1>5. k \in {0, 2, 4} /\ (BlankAt(P, i, k, Len(P)) <=> k = k /\ k > 0)
  BY <1>4, EndsAtIs
<1> HIDE DEF i, k
<1>6. BlankAt(P, i, k, Len(P)) /\ k \in {2, 4} /\ i \in Nat
  BY <1>1, <1>4, <1>5
<1>7. i + k - 1 <= Len(P)
  BY <1>1, <1>6 DEF BlankAt
<1>8. QED
  BY <1>4, <1>6, <1>7 DEF i, k

\* A round leaves a parser with less to carry.
LEMMA TakeShortens ==
  ASSUME NEW p \in Parsers
  PROVE  /\ TakeEvent(p) \in Parsers
         /\ Stopped(p) => TakeEvent(p) = p
         /\ ~ Stopped(p) => Len(TakeEvent(p).buf) + 1 <= Len(p.buf)
<1>1. Stopped(p) => TakeEvent(p) = p
  BY DEF Stopped, TakeEvent
<1>2. ASSUME ~ Stopped(p)
      PROVE  TakeEvent(p) \in Parsers /\ Len(TakeEvent(p).buf) + 1 <= Len(p.buf)
  <2> DEFINE P == p.buf
             i == Min(EventEnds(P))
             k == EndsAt(P, i)
             raw == SubSeq(P, 1, i - 1)
             rest == SubSeq(P, i + k, Len(P))
             q == [p EXCEPT !.buf = rest]
  <2>1. TakeEvent(p) = ProcessEvent(q, raw)
    BY <1>2 DEF TakeEvent, Stopped
  <2>2. P \in Texts /\ Len(P) \in Nat /\ EventEnds(P) # {}
    BY <1>2, SymbolAt DEF Parsers, Stopped
  <2>3. i \in 1..Len(P) /\ k \in {2, 4} /\ i + k - 1 <= Len(P)
    BY <2>2, FirstBlankHere
  <2>4. raw \in Texts /\ rest \in Texts /\ Len(rest) + 1 <= Len(P)
    <3> HIDE DEF i, k, P
    <3>1. raw \in Texts
      <4>1. i - 1 \in 0..Len(P) /\ 0 \in 0..Len(P) /\ i - 1 \in 0..Len(P) /\ 0 + 1 = 1
        BY <2>2, <2>3
      <4>2. SubSeq(P, 0 + 1, i - 1) \in Texts
        BY <2>2, <4>1, PieceIs
      <4>3. QED
        BY <4>1, <4>2
    <3>2. rest \in Texts /\ Len(rest) + 1 <= Len(P)
      <4> DEFINE d == i + k - 1
      <4>1. d \in 0..Len(P) /\ Len(P) \in d..Len(P) /\ d + 1 = i + k /\ d >= 1
        BY <2>2, <2>3
      <4> HIDE DEF d
      <4>2. SubSeq(P, d + 1, Len(P)) \in Texts /\ Len(SubSeq(P, d + 1, Len(P))) = Len(P) - d
        BY <2>2, <4>1, PieceIs
      <4>3. QED
        BY <2>2, <4>1, <4>2
    <3>3. QED
      BY <3>1, <3>2
  <2> HIDE DEF i, k, raw, rest
  <2>5. q \in Parsers /\ q.buf = rest
    BY <2>4 DEF Parsers
  <2> HIDE DEF q
  <2>6. ProcessEvent(q, raw) \in Parsers /\ ProcessEvent(q, raw).buf = rest
    BY <2>4, <2>5, ProcessAnywhere
  <2>7. QED
    BY <2>1, <2>4, <2>6
<1>3. QED
  BY <1>1, <1>2

\* A round takes the same event when there are more bytes behind it.
LEMMA TakeGrown ==
  ASSUME NEW p \in Parsers, NEW v \in Texts, ~ Stopped(p)
  PROVE  ~ Stopped(Grown(p, v)) /\ TakeEvent(Grown(p, v)) = Grown(TakeEvent(p), v)
<1> DEFINE P == p.buf
           S == P \o v
           i == Min(EventEnds(P))
           k == EndsAt(P, i)
           raw == SubSeq(P, 1, i - 1)
           rest == SubSeq(P, i + k, Len(P))
           q == [p EXCEPT !.buf = rest]
<1>1. P \in Texts /\ Len(P) \in Nat /\ Len(v) \in Nat /\ EventEnds(P) # {} /\ ~ p.err
  BY SymbolAt DEF Parsers, Stopped
<1>2. EventEnds(S) # {} /\ Min(EventEnds(S)) = i /\ EndsAt(S, i) = k
  BY <1>1, FirstStays
<1>3. i \in 1..Len(P) /\ k \in {2, 4} /\ i + k - 1 <= Len(P)
  BY <1>1, FirstBlankHere
<1>4. Grown(p, v) \in Parsers /\ Grown(p, v).buf = S /\ ~ Grown(p, v).err
  BY <1>1, GrownIs
<1>5. ~ Stopped(Grown(p, v))
  BY <1>2, <1>4 DEF Stopped
<1>6. TakeEvent(p) = ProcessEvent(q, raw)
  BY <1>1 DEF TakeEvent
<1>7. TakeEvent(Grown(p, v)) =
        ProcessEvent([Grown(p, v) EXCEPT !.buf = SubSeq(S, i + k, Len(S))], SubSeq(S, 1, i - 1))
  BY <1>2, <1>4 DEF TakeEvent
<1>8. S \in Texts /\ Len(S) = Len(P) + Len(v)
      /\ Carried(P, S, 0, Len(P)) /\ Carried(v, S, Len(P), Len(S))
  <2>1. /\ S \in Texts /\ Len(S) = Len(P) + Len(v)
        /\ \A y \in 1..Len(P) : S[y] = P[y]
        /\ \A y \in 1..Len(v) : S[Len(P) + y] = v[y]
    BY <1>1, JoinIs
  <2> HIDE DEF S, P
  <2>2. /\ 0 \in 0..Len(S) /\ Len(P) \in 0..Len(S) /\ Len(S) \in Len(P)..Len(S)
        /\ Len(P) = Len(P) - 0 /\ Len(v) = Len(S) - Len(P)
    BY <1>1, <2>1
  <2>3. \A y \in 1..Len(P) : P[y] = S[0 + y]
    BY <1>1, <2>1
  <2>4. Carried(P, S, 0, Len(P))
    BY <1>1, <2>1, <2>2, <2>3, CarriedFrom
  <2>5. Carried(v, S, Len(P), Len(S))
    BY <1>1, <2>1, <2>2, CarriedFrom
  <2>6. QED
    BY <2>1, <2>4, <2>5
<1> HIDE DEF i, k, S, P
<1>9. SubSeq(S, 1, i - 1) = raw /\ raw \in Texts
  <2>1. /\ 0 \in 0..Len(S) /\ Len(P) \in 0..Len(S) /\ 0 \in 0..Len(P) /\ i - 1 \in 0..Len(P)
        /\ 0 + (i - 1) = i - 1 /\ 0 + 0 = 0 /\ 0 + 1 = 1
    BY <1>1, <1>3, <1>8
  <2>2. Carried(SubSeq(P, 0 + 1, i - 1), S, 0 + 0, 0 + (i - 1))
    BY <1>8, <2>1, PieceOfPiece
  <2>3. SubSeq(P, 0 + 1, i - 1) \in Texts
    BY <1>1, <2>1, PieceIs
  <2>4. QED
    BY <2>1, <2>2, <2>3 DEF Carried
<1>10. SubSeq(S, i + k, Len(S)) = rest \o v /\ rest \in Texts
  <2> DEFINE d == i + k - 1
             m == Len(P)
  <2>1. /\ d \in 0..m /\ m \in d..m /\ d + 1 = i + k /\ d \in 0..Len(S) /\ m \in d..Len(S)
        /\ Len(S) \in m..Len(S) /\ m \in 0..Len(S) /\ 0 \in 0..Len(S)
        /\ 0 + d = d /\ 0 + m = m
    BY <1>1, <1>3, <1>8
  <2>2. SubSeq(P, d + 1, m) = SubSeq(S, d + 1, m)
    <3>1. Carried(SubSeq(P, d + 1, m), S, 0 + d, 0 + m)
      <4> HIDE DEF d
      <4>1. QED
        BY <1>8, <2>1, PieceOfPiece
    <3>2. QED
      BY <2>1, <3>1 DEF Carried
  <2>3. v = SubSeq(S, m + 1, Len(S))
    BY <1>8 DEF Carried
  <2>4. SubSeq(P, d + 1, m) \in Texts
    <3> HIDE DEF d
    <3>1. QED
      BY <1>1, <2>1, PieceIs
  <2>5. SubSeq(S, d + 1, m) \o SubSeq(S, m + 1, Len(S)) = SubSeq(S, d + 1, Len(S))
    <3> HIDE DEF d, m
    <3>1. QED
      BY <1>8, <2>1, PiecesJoin
  <2>6. QED
    BY <2>1, <2>2, <2>3, <2>4, <2>5
<1>11. [Grown(p, v) EXCEPT !.buf = rest \o v] = [q EXCEPT !.buf = rest \o v]
  BY DEF Grown, Parsers
<1>12. q \in Parsers /\ q.buf = rest /\ rest \o v \in Texts
  BY <1>10, JoinIs DEF Parsers
<1> HIDE DEF raw, rest, q
<1>13. /\ ProcessEvent(q, raw).buf = rest
       /\ ProcessEvent([q EXCEPT !.buf = rest \o v], raw)
            = [ProcessEvent(q, raw) EXCEPT !.buf = rest \o v]
  <2> DEFINE b == rest \o v
  <2>1. b \in Texts
    BY <1>12
  <2> HIDE DEF b
  <2>2. /\ ProcessEvent(q, raw).buf = q.buf
        /\ ProcessEvent([q EXCEPT !.buf = b], raw) = [ProcessEvent(q, raw) EXCEPT !.buf = b]
    BY <1>9, <1>12, <2>1, ProcessAnywhere
  <2>3. QED
    BY <1>12, <2>2 DEF b
<1>14. TakeEvent(Grown(p, v)) = [TakeEvent(p) EXCEPT !.buf = rest \o v]
  BY <1>6, <1>7, <1>9, <1>10, <1>11, <1>13
<1>15. TakeEvent(p).buf = rest
  BY <1>6, <1>13
<1>16. QED
  BY <1>5, <1>14, <1>15 DEF Grown

\* What rounds make of p, the first and each from the one before.
LEMMA RoundsAre ==
  ASSUME NEW p, NEW N \in Nat, NEW f, IsRounds(f, p, N)
  PROVE  f[0] = p /\ \A n \in 1..N : f[n] = TakeEvent(f[n-1])
<1> DEFINE rounds == [n \in 0..N |-> IF n = 0 THEN p ELSE TakeEvent(f[n-1])]
<1>1. f = rounds
  BY DEF IsRounds
<1>2. rounds[0] = p /\ \A n \in 1..N : rounds[n] = TakeEvent(f[n-1])
  OBVIOUS
<1> HIDE DEF rounds
<1>3. QED
  BY <1>1, <1>2

\* Drain is as many rounds as there are symbols.
LEMMA DrainRounds ==
  ASSUME NEW p \in Parsers
  PROVE  \E f : IsRounds(f, p, Len(p.buf)) /\ Drain(p) = f[Len(p.buf)]
<1> DEFINE N == Len(p.buf)
           f == CHOOSE g : IsRounds(g, p, N)
<1>1. N \in Nat
  BY SymbolAt DEF Parsers
<1>2. Drain(p) = f[N]
  BY DEF Drain, IsRounds
<1>3. IsRounds(f, p, N)
  BY <1>1, RoundsExist
<1> HIDE DEF f
<1>4. QED
  BY <1>2, <1>3

\* Rounds after the last event change nothing.
LEMMA RoundsRest ==
  ASSUME NEW N \in Nat, NEW f, \A n \in 1..N : f[n] = TakeEvent(f[n-1]),
         NEW c \in 0..N, Stopped(f[c])
  PROVE  f[N] = f[c]
<1> DEFINE T == {n \in Nat : c <= n /\ n <= N => f[n] = f[c]}
<1>1. 0 \in T
  <2>1. c <= 0 => c = 0
    OBVIOUS
  <2>2. QED
    BY <2>1
<1>2. ASSUME NEW n \in Nat, n \in T PROVE n + 1 \in T
  <2>1. SUFFICES ASSUME c <= n + 1, n + 1 <= N PROVE f[n + 1] = f[c]
    OBVIOUS
  <2>2. CASE c = n + 1
    BY <2>2
  <2>3. CASE c # n + 1
    <3>1. c <= n /\ n <= N /\ n + 1 \in 1..N /\ (n + 1) - 1 = n
      BY <2>1, <2>3
    <3>2. f[n] = f[c]
      BY <1>2, <3>1
    <3>3. f[n + 1] = TakeEvent(f[n])
      BY <3>1
    <3>4. QED
      BY <3>2, <3>3 DEF Stopped, TakeEvent
  <2>4. QED
    BY <2>2, <2>3
<1> HIDE DEF T
<1>3. Nat \subseteq T
  BY <1>1, <1>2, Climb
<1>4. c <= N /\ N <= N /\ N \in T
  BY <1>3
<1>5. QED
  BY <1>4 DEF T

\* What Drain leaves has no event left to take.
LEMMA DrainStops ==
  ASSUME NEW p \in Parsers
  PROVE  Drain(p) \in Parsers /\ Stopped(Drain(p))
<1> DEFINE N == Len(p.buf)
<1>1. p.buf \in Texts /\ N \in Nat
  BY SymbolAt DEF Parsers
<1>2. PICK f : IsRounds(f, p, N) /\ Drain(p) = f[N]
  BY DrainRounds
<1> HIDE DEF N
<1>3. f[0] = p /\ \A n \in 1..N : f[n] = TakeEvent(f[n-1])
  BY <1>1, <1>2, RoundsAre
<1> DEFINE Good(n) == f[n] \in Parsers /\ (Stopped(f[n]) \/ Len(f[n].buf) + n <= N)
           T == {n \in Nat : n <= N => Good(n)}
<1>4. 0 \in T
  <2>1. N + 0 <= N
    BY <1>1
  <2>2. QED
    BY <1>3, <2>1 DEF N
<1>5. ASSUME NEW n \in Nat, n \in T PROVE n + 1 \in T
  <2> HIDE DEF Good
  <2>1. SUFFICES ASSUME n + 1 <= N PROVE Good(n + 1)
    OBVIOUS
  <2> USE DEF Good
  <2>2. Good(n)
    BY <1>1, <1>5, <2>1
  <2>3. f[n + 1] = TakeEvent(f[n])
    <3>1. n + 1 \in 1..N /\ (n + 1) - 1 = n
      BY <1>1, <2>1
    <3>2. QED
      BY <1>3, <3>1
  <2>4. /\ TakeEvent(f[n]) \in Parsers
        /\ Stopped(f[n]) => TakeEvent(f[n]) = f[n]
        /\ ~ Stopped(f[n]) => Len(TakeEvent(f[n]).buf) + 1 <= Len(f[n].buf)
    BY <2>2, TakeShortens
  <2>5. CASE Stopped(f[n])
    BY <2>3, <2>4, <2>5
  <2>6. CASE ~ Stopped(f[n])
    <3> DEFINE x == Len(f[n].buf)
               y == Len(f[n+1].buf)
    <3>1. x \in Nat /\ y \in Nat
      BY <2>2, <2>3, <2>4, SymbolAt DEF Parsers
    <3>2. y + 1 <= x /\ x + n <= N
      BY <2>2, <2>3, <2>4, <2>6
    <3> HIDE DEF x, y
    <3>3. y + (n + 1) <= N
      BY <1>1, <3>1, <3>2
    <3>4. QED
      BY <2>3, <2>4, <3>3 DEF y
  <2>7. QED
    BY <2>5, <2>6
<1>6. Good(N)
  <2> HIDE DEF Good
  <2>1. \A n \in Nat : n \in T => n + 1 \in T
    BY <1>5
  <2> HIDE DEF T
  <2>2. Nat \subseteq T
    BY <1>4, <2>1, Climb
  <2>3. N \in T /\ N <= N
    BY <1>1, <2>2
  <2>4. QED
    BY <2>3 DEF T
<1>7. ASSUME ~ Stopped(f[N]) PROVE FALSE
  <2>1. Len(f[N].buf) \in Nat /\ DOMAIN f[N].buf = 1..Len(f[N].buf)
    BY <1>6, SymbolAt DEF Parsers
  <2>2. Len(f[N].buf) = 0
    BY <1>1, <1>6, <1>7, <2>1
  <2>3. EventEnds(f[N].buf) = {}
    BY <2>1, <2>2 DEF EventEnds
  <2>4. QED
    BY <1>7, <2>3 DEF Stopped
<1>8. QED
  BY <1>2, <1>6, <1>7

\* To drain is to take an event, if there is one, and to drain the rest.
LEMMA DrainTakes ==
  ASSUME NEW p \in Parsers
  PROVE  Drain(p) = IF Stopped(p) THEN p ELSE Drain(TakeEvent(p))
<1> DEFINE N == Len(p.buf)
<1>1. p.buf \in Texts /\ N \in Nat
  BY SymbolAt DEF Parsers
<1>2. PICK f : IsRounds(f, p, N) /\ Drain(p) = f[N]
  BY DrainRounds
<1> HIDE DEF N
<1>3. f[0] = p /\ \A n \in 1..N : f[n] = TakeEvent(f[n-1])
  BY <1>1, <1>2, RoundsAre
<1>4. CASE Stopped(p)
  <2>1. 0 \in 0..N
    BY <1>1
  <2>2. f[N] = f[0]
    BY <1>1, <1>3, <1>4, <2>1, RoundsRest
  <2>3. QED
    BY <1>2, <1>3, <1>4, <2>2
<1>5. CASE ~ Stopped(p)
  <2> DEFINE q == TakeEvent(p)
             M == Len(q.buf)
  <2>1. q \in Parsers /\ M + 1 <= N
    BY <1>5, TakeShortens DEF N
  <2>2. M \in Nat
    BY <2>1, SymbolAt DEF Parsers
  <2> HIDE DEF q
  <2>3. PICK g : IsRounds(g, q, M) /\ Drain(q) = g[M]
    BY <2>1, DrainRounds
  <2>4. Stopped(g[M])
    BY <2>1, <2>3, DrainStops
  <2> HIDE DEF M
  <2>5. g[0] = q /\ \A n \in 1..M : g[n] = TakeEvent(g[n-1])
    BY <2>2, <2>3, RoundsAre
  <2> DEFINE T == {n \in Nat : n <= M => f[n + 1] = g[n]}
  <2>6. 0 \in T
    <3>1. 0 + 1 \in 1..N /\ (0 + 1) - 1 = 0
      BY <1>1, <2>1, <2>2
    <3>2. f[0 + 1] = TakeEvent(f[0])
      BY <1>3, <3>1
    <3>3. QED
      BY <1>3, <2>5, <3>2 DEF q
  <2>7. ASSUME NEW n \in Nat, n \in T PROVE n + 1 \in T
    <3>1. SUFFICES ASSUME n + 1 <= M PROVE f[(n + 1) + 1] = g[n + 1]
      OBVIOUS
    <3>2. /\ n <= M /\ n + 1 \in 1..M /\ (n + 1) - 1 = n
          /\ (n + 1) + 1 \in 1..N /\ ((n + 1) + 1) - 1 = n + 1
      BY <1>1, <2>1, <2>2, <3>1
    <3>3. f[n + 1] = g[n]
      BY <2>7, <3>2
    <3>4. g[n + 1] = TakeEvent(g[n])
      BY <2>5, <3>2
    <3>5. f[(n + 1) + 1] = TakeEvent(f[n + 1])
      <4> DEFINE m == (n + 1) + 1
      <4>1. m \in 1..N /\ m - 1 = n + 1
        BY <3>2
      <4> HIDE DEF m
      <4>2. f[m] = TakeEvent(f[m - 1])
        BY <1>3, <4>1
      <4>3. QED
        BY <4>1, <4>2 DEF m
    <3>6. QED
      BY <3>3, <3>4, <3>5
  <2> HIDE DEF T
  <2>8. Nat \subseteq T
    BY <2>6, <2>7, Climb
  <2>9. f[M + 1] = g[M]
    <3>1. M \in T /\ M <= M
      BY <2>2, <2>8
    <3>2. QED
      BY <3>1 DEF T
  <2>10. f[N] = f[M + 1]
    <3> DEFINE c == M + 1
    <3>1. c \in 0..N /\ Stopped(f[c])
      BY <1>1, <2>1, <2>2, <2>4, <2>9
    <3> HIDE DEF c
    <3>2. f[N] = f[c]
      BY <1>1, <1>3, <3>1, RoundsRest
    <3>3. QED
      BY <3>2 DEF c
  <2>11. QED
    BY <1>2, <1>5, <2>3, <2>9, <2>10 DEF q
<1>6. QED
  BY <1>4, <1>5

\* Bytes that are there from the start are drained like bytes that come later.
LEMMA DrainGrown ==
  ASSUME NEW v \in Texts
  PROVE  \A p \in Parsers : Drain(Grown(p, v)) = Drain(Grown(Drain(p), v))
<1> DEFINE T == {n \in Nat : \A p \in Parsers :
                               Len(p.buf) <= n => Drain(Grown(p, v)) = Drain(Grown(Drain(p), v))}
<1>1. ASSUME NEW p \in Parsers, Stopped(p)
      PROVE  Drain(Grown(p, v)) = Drain(Grown(Drain(p), v))
  <2>1. Drain(p) = p
    BY <1>1, DrainTakes
  <2>2. QED
    BY <2>1
<1>2. ASSUME NEW p \in Parsers, ~ Stopped(p)
      PROVE  /\ TakeEvent(p) \in Parsers /\ Len(TakeEvent(p).buf) + 1 <= Len(p.buf)
             /\ Len(TakeEvent(p).buf) \in Nat /\ Len(p.buf) \in Nat
             /\ Drain(p) = Drain(TakeEvent(p))
             /\ Drain(Grown(p, v)) = Drain(Grown(TakeEvent(p), v))
  <2>1. TakeEvent(p) \in Parsers /\ Len(TakeEvent(p).buf) + 1 <= Len(p.buf)
    BY <1>2, TakeShortens
  <2>2. Len(TakeEvent(p).buf) \in Nat /\ Len(p.buf) \in Nat
    BY <2>1, SymbolAt DEF Parsers
  <2>3. Drain(p) = Drain(TakeEvent(p))
    BY <1>2, DrainTakes
  <2>4. ~ Stopped(Grown(p, v)) /\ TakeEvent(Grown(p, v)) = Grown(TakeEvent(p), v)
    BY <1>2, TakeGrown
  <2>5. Grown(p, v) \in Parsers
    BY GrownIs
  <2>6. Drain(Grown(p, v)) = Drain(TakeEvent(Grown(p, v)))
    BY <2>4, <2>5, DrainTakes
  <2>7. QED
    BY <2>1, <2>2, <2>3, <2>4, <2>6
<1>3. 0 \in T
  <2>1. SUFFICES ASSUME NEW p \in Parsers, Len(p.buf) <= 0
                 PROVE  Drain(Grown(p, v)) = Drain(Grown(Drain(p), v))
    OBVIOUS
  <2>2. Stopped(p)
    <3>1. SUFFICES ASSUME ~ Stopped(p) PROVE FALSE
      OBVIOUS
    <3> DEFINE x == Len(p.buf)
               y == Len(TakeEvent(p).buf)
    <3>2. x \in Nat /\ y \in Nat /\ y + 1 <= x /\ x <= 0
      BY <1>2, <2>1, <3>1
    <3> HIDE DEF x, y
    <3>3. QED
      BY <3>2
  <2>3. QED
    BY <1>1, <2>2
<1>4. ASSUME NEW n \in Nat, n \in T PROVE n + 1 \in T
  <2>1. SUFFICES ASSUME NEW p \in Parsers, Len(p.buf) <= n + 1
                 PROVE  Drain(Grown(p, v)) = Drain(Grown(Drain(p), v))
    OBVIOUS
  <2>2. CASE Stopped(p)
    BY <1>1, <2>2
  <2>3. CASE ~ Stopped(p)
    <3> DEFINE q == TakeEvent(p)
    <3>1. /\ q \in Parsers /\ Drain(p) = Drain(q)
          /\ Drain(Grown(p, v)) = Drain(Grown(q, v))
      BY <1>2, <2>3
    <3>2. Len(q.buf) <= n
      <4> DEFINE x == Len(p.buf)
                 y == Len(q.buf)
      <4>1. x \in Nat /\ y \in Nat /\ y + 1 <= x /\ x <= n + 1
        BY <1>2, <2>1, <2>3
      <4> HIDE DEF x, y
      <4>2. y <= n
        BY <4>1
      <4>3. QED
        BY <4>2 DEF y
    <3> HIDE DEF q
    <3>3. Drain(Grown(q, v)) = Drain(Grown(Drain(q), v))
      BY <1>4, <3>1, <3>2
    <3>4. QED
      BY <3>1, <3>3
  <2>4. QED
    BY <2>2, <2>3
<1>5. Nat \subseteq T
  <2> HIDE DEF T
  <2>1. QED
    BY <1>3, <1>4, Climb
<1>6. TAKE p \in Parsers
<1>7. Len(p.buf) \in Nat
  BY SymbolAt DEF Parsers
<1>8. Len(p.buf) \in T /\ Len(p.buf) <= Len(p.buf)
  BY <1>5, <1>7
<1>9. QED
  BY <1>8

\* Three pieces in a row.
LEMMA Joined ==
  ASSUME NEW a \in Texts, NEW b \in Texts, NEW c \in Texts
  PROVE  (a \o b) \o c = a \o (b \o c)
<1>1. a \in Seq(Symbols) /\ b \in Seq(Symbols) /\ c \in Seq(Symbols)
  BY DEF Texts
<1>2. QED
  BY <1>1, ConcatAssociative, SMTT(30)

\* Two chunks tell what one tells that is both: the parser may be fed in
\* chunks of any size, a single byte included (parse.Parser, sse.go:116-121),
\* wherever they cut events, payloads and line ends, torn or whole.
THEOREM ChunksDontMatter ==
  ASSUME NEW p \in Parsers, NEW u \in Texts, NEW v \in Texts
  PROVE  Finish(Feed(Feed(p, u), v)) = Finish(Feed(p, u \o v))
<1> DEFINE g == Grown(p, u)
           r == Drain(g)
<1>1. CASE p.err
  BY <1>1 DEF Feed
<1>2. CASE ~ p.err
  <2>1. g \in Parsers /\ r \in Parsers /\ Stopped(r)
    BY GrownIs, DrainStops
  <2>2. Feed(p, u) = r
    BY <1>2 DEF Feed, Grown
  <2>3. Grown(p, u \o v) = Grown(g, v)
    <3>1. p.buf \in Texts
      BY DEF Parsers
    <3>2. (p.buf \o u) \o v = p.buf \o (u \o v)
      <4> HIDE DEF g, r
      <4>1. QED
        BY <3>1, Joined
    <3>3. QED
      BY <3>2 DEF Grown, Parsers
  <2>4. Feed(p, u \o v) = Drain(Grown(g, v))
    BY <1>2, <2>3 DEF Feed, Grown
  <2> HIDE DEF g
  <2>5. Drain(Grown(g, v)) = Drain(Grown(r, v))
    BY <2>1, DrainGrown
  <2> HIDE DEF r
  <2>6. CASE ~ r.err
    BY <2>2, <2>4, <2>5, <2>6 DEF Feed, Grown
  <2>7. CASE r.err
    <3>1. Feed(r, v) = r
      BY <2>7 DEF Feed
    <3>2. Grown(r, v) \in Parsers /\ Grown(r, v).err /\ Grown(r, v).usage = r.usage
      BY <2>1, <2>7, GrownIs
    <3>3. Drain(Grown(r, v)) = Grown(r, v)
      BY <3>2, DrainTakes DEF Stopped
    <3>4. Finish(r) = r.usage /\ Finish(Grown(r, v)) = r.usage
      BY <2>7, <3>2 DEF Finish
    <3>5. QED
      BY <2>2, <2>4, <2>5, <3>1, <3>3, <3>4
  <2>8. QED
    BY <2>6, <2>7
<1>3. QED
  BY <1>1, <1>2

=============================================================================
