------------------------------ MODULE FoldProofs ------------------------------
(***************************************************************************)
(* Induction over numbers and sequences, and what the fold of a function   *)
(* over a sequence is: the last step of a run along it.  Sets and          *)
(* functions stand where the library's theorems have operators.            *)
(***************************************************************************)
EXTENDS Integers, SequencesExt, SequenceTheorems, WellFoundedInduction, TLAPS

----------------------------------------------------------------------------
(* Induction, over numbers and over sequences: the set of those for which a *)
(* thing holds is all there are.                                            *)

Smaller == {ss \in Nat \X Nat : ss[1] < ss[2]}

LEMMA NumbersInduct ==
  ASSUME NEW T \in SUBSET Nat, 0 \in T, \A n \in T : n + 1 \in T
  PROVE  T = Nat
<1>1. IsWellFoundedOn(Smaller, Nat)
  BY NatLessThanWellFounded, Zenon DEF OpToRel, Smaller
<1>2. SUFFICES ASSUME Nat \ T # {} PROVE FALSE
  OBVIOUS
<1>3. PICK x \in Nat \ T : \A y \in Nat \ T : <<y, x>> \notin Smaller
  BY <1>1, <1>2, WFMin
<1>4. x \in Nat /\ x # 0
  BY <1>3
<1>5. x - 1 \in Nat /\ x - 1 < x /\ (x - 1) + 1 = x
  BY <1>4
<1>6. <<x - 1, x>> \in Smaller
  BY <1>4, <1>5 DEF Smaller
<1>7. x - 1 \in T
  BY <1>3, <1>5, <1>6
<1> QED
  BY <1>3, <1>5, <1>7

LEMMA NumbersInductFully ==
  ASSUME NEW T \in SUBSET Nat, \A n \in Nat : (\A m \in 0 .. n - 1 : m \in T) => n \in T
  PROVE  T = Nat
<1>1. IsWellFoundedOn(Smaller, Nat)
  BY NatLessThanWellFounded, Zenon DEF OpToRel, Smaller
<1>2. SUFFICES ASSUME Nat \ T # {} PROVE FALSE
  OBVIOUS
<1>3. PICK x \in Nat \ T : \A y \in Nat \ T : <<y, x>> \notin Smaller
  BY <1>1, <1>2, WFMin
<1>4. ASSUME NEW m \in 0 .. x - 1
      PROVE  m \in T
  <2>1. m \in Nat /\ x \in Nat /\ m < x
    BY <1>3
  <2>2. <<m, x>> \in Smaller
    BY <2>1 DEF Smaller
  <2> QED
    BY <1>3, <2>1, <2>2
<1> QED
  BY <1>3, <1>4

LEMMA SequencesInduct ==
  ASSUME NEW S, NEW T \in SUBSET Seq(S), <<>> \in T,
         \A s \in T, x \in S : Append(s, x) \in T
  PROVE  T = Seq(S)
<1> DEFINE N == {n \in Nat : \A s \in Seq(S) : Len(s) = n => s \in T}
<1>1. 0 \in N
  OBVIOUS
<1>2. ASSUME NEW n \in N
      PROVE  n + 1 \in N
  <2>1. ASSUME NEW s \in Seq(S), Len(s) = n + 1
        PROVE  s \in T
    <3>1. n \in Nat /\ s # <<>>
      BY <2>1
    <3>2. PICK a \in Seq(S), x \in S : s = Append(a, x)
      BY <3>1, SequenceEmptyOrAppend, Zenon
    <3>3. Len(s) = Len(a) + 1 /\ Len(a) \in Nat
      BY <3>2
    <3>4. a \in T
      BY <2>1, <3>1, <3>3
    <3> QED
      BY <3>2, <3>4, Zenon
  <2>2. n + 1 \in Nat
    OBVIOUS
  <2> QED
    BY <2>1, <2>2
<1> HIDE DEF N
<1>3. N \in SUBSET Nat
  BY DEF N
<1>4. N = Nat
  BY <1>1, <1>2, <1>3, NumbersInduct
<1>5. ASSUME NEW s \in Seq(S)
      PROVE  s \in T
  <2>1. Len(s) \in N
    BY <1>4
  <2> QED
    BY <2>1 DEF N
<1> QED
  BY <1>5

----------------------------------------------------------------------------
(* Folds of a function F over a sequence.  What FoldLeft takes is the       *)
(* function that folds over the places of any set of them.                  *)

Steps(A, B) == [A \X B -> A]
FoldsPlaces(g, F, base, seq) ==
  g = [s \in SUBSET DOMAIN seq |->
         IF s = {} THEN base ELSE F[<<g[s \ {Max(s)}], seq[Max(s)]>>]]
Fold(F, base, seq) == (CHOOSE g : FoldsPlaces(g, F, base, seq))[DOMAIN seq]

LEMMA MaxIs ==
  ASSUME NEW n \in Nat, NEW s \in SUBSET (1 .. n), n \in s
  PROVE  Max(s) = n
<1>1. n \in s /\ \A y \in s : n >= y
  OBVIOUS
<1>2. Max(s) \in s /\ \A y \in s : Max(s) >= y
  BY <1>1, Zenon DEF Max
<1>3. PICK m \in 1 .. n : m = Max(s)
  BY <1>2
<1>4. m >= n
  BY <1>1, <1>2, <1>3
<1> QED
  BY <1>3, <1>4

IsFolding(g, A, F, base, seq) ==
  /\ g \in [SUBSET (1 .. Len(seq)) -> A]
  /\ FoldsPlaces(g, F, base, seq)
  /\ \A s \in SUBSET (1 .. Len(seq)) : s # {} => Max(s) \in 1 .. Len(seq)

LEMMA FoldExists ==
  ASSUME NEW A, NEW B, NEW F \in Steps(A, B), NEW base \in A, NEW seq \in Seq(B)
  PROVE  \E g : IsFolding(g, A, F, base, seq)
<1> DEFINE Folding(g, n) ==
             \A s \in SUBSET (1 .. n) :
               /\ g[s] = IF s = {} THEN base ELSE F[<<g[s \ {Max(s)}], seq[Max(s)]>>]
               /\ s # {} => Max(s) \in 1 .. n
           N == {n \in Nat : n <= Len(seq) =>
                   \E g \in [SUBSET (1 .. n) -> A] : Folding(g, n)}
<1>1. 0 \in N
  <2>1. PICK g : g = [s \in SUBSET (1 .. 0) |-> base]
    OBVIOUS
  <2>2. 1 .. 0 = {}
    OBVIOUS
  <2>3. \A s \in SUBSET (1 .. 0) : s = {}
    BY <2>2
  <2>4. g \in [SUBSET (1 .. 0) -> A] /\ \A s \in SUBSET (1 .. 0) : g[s] = base
    BY <2>1
  <2>5. Folding(g, 0)
    BY <2>3, <2>4
  <2> QED
    BY <2>4, <2>5
<1>2. ASSUME NEW n \in N
      PROVE  n + 1 \in N
  <2>0. n \in Nat /\ n + 1 \in Nat
    <3>1. n \in Nat
      BY Zenon
    <3> QED
      BY <3>1
  <2>1. SUFFICES ASSUME n + 1 <= Len(seq)
                 PROVE  \E g \in [SUBSET (1 .. n + 1) -> A] : Folding(g, n + 1)
    BY <2>0, Zenon
  <2>2. n \in Nat /\ n <= Len(seq) /\ seq[n + 1] \in B
    <3>1. n \in Nat /\ Len(seq) \in Nat
      <4>1. n \in Nat
        BY Zenon
      <4> QED
        BY <4>1
    <3>2. n <= Len(seq) /\ n + 1 \in 1 .. Len(seq)
      BY <2>1, <3>1
    <3> QED
      BY <3>1, <3>2
  <2>3. PICK g \in [SUBSET (1 .. n) -> A] : Folding(g, n)
    BY <2>2
  <2>4. PICK h : h = [s \in SUBSET (1 .. n + 1) |->
                        IF n + 1 \in s THEN F[<<g[s \ {n + 1}], seq[n + 1]>>] ELSE g[s]]
    OBVIOUS
  <2>5. ASSUME NEW s \in SUBSET (1 .. n + 1), n + 1 \notin s
        PROVE  s \in SUBSET (1 .. n) /\ h[s] = g[s]
    <3>1. ASSUME NEW i \in s
          PROVE  i \in 1 .. n
      <4>1. i \in 1 .. n + 1 /\ i # n + 1
        BY <2>5
      <4> QED
        BY <2>2, <4>1
    <3>2. h[s] = g[s]
      BY <2>4, <2>5, Zenon
    <3> QED
      BY <3>1, <3>2
  <2>6. ASSUME NEW s \in SUBSET (1 .. n + 1)
        PROVE  /\ h[s] \in A
               /\ h[s] = IF s = {} THEN base ELSE F[<<h[s \ {Max(s)}], seq[Max(s)]>>]
               /\ s # {} => Max(s) \in 1 .. n + 1
    <3>1. CASE n + 1 \in s
      <4>1. Max(s) = n + 1
        BY <2>2, <3>1, MaxIs
      <4>2. PICK t : t = s \ {n + 1}
        OBVIOUS
      <4>3. t \in SUBSET (1 .. n + 1) /\ n + 1 \notin t
        BY <4>2
      <4>4. t \in SUBSET (1 .. n) /\ h[t] = g[t]
        BY <2>5, <4>3
      <4>5. g[t] \in A /\ <<g[t], seq[n + 1]>> \in A \X B
        BY <2>2, <2>3, <4>4
      <4>6. h[s] = F[<<g[t], seq[n + 1]>>] /\ h[s] \in A
        BY <2>4, <3>1, <4>2, <4>5 DEF Steps
      <4>7. n + 1 \in 1 .. n + 1
        BY <2>2
      <4> QED
        BY <3>1, <4>1, <4>2, <4>4, <4>6, <4>7, Zenon
    <3>2. CASE n + 1 \notin s
      <4>1. s \in SUBSET (1 .. n) /\ h[s] = g[s]
        BY <2>5, <3>2
      <4>2. PICK t : t = s \ {Max(s)}
        OBVIOUS
      <4>3. t \in SUBSET (1 .. n + 1) /\ n + 1 \notin t
        BY <3>2, <4>2
      <4>4. h[t] = g[t]
        BY <2>5, <4>3
      <4>5. /\ g[s] = IF s = {} THEN base ELSE F[<<g[t], seq[Max(s)]>>]
            /\ s # {} => Max(s) \in 1 .. n
        BY <2>3, <4>1, <4>2, Zenon
      <4>6. g[s] \in A
        BY <4>1
      <4>7. 1 .. n \subseteq 1 .. n + 1
        BY <2>2
      <4> QED
        BY <4>1, <4>2, <4>4, <4>5, <4>6, <4>7, Zenon
    <3> QED
      BY <3>1, <3>2
  <2>7. h \in [SUBSET (1 .. n + 1) -> A]
    BY <2>4, <2>6, Zenon
  <2> QED
    BY <2>6, <2>7, Zenon
<1> HIDE DEF N
<1>3. N = Nat
  <2>1. N \in SUBSET Nat
    BY DEF N
  <2> QED
    BY <1>1, <1>2, <2>1, NumbersInduct
<1>4. PICK n \in Nat : n = Len(seq) /\ DOMAIN seq = 1 .. n
  OBVIOUS
<1>5. PICK g \in [SUBSET (1 .. n) -> A] : Folding(g, n)
  <2>1. n \in N /\ n <= Len(seq)
    BY <1>3, <1>4
  <2> QED
    BY <2>1, Zenon DEF N
<1>6. g = [s \in SUBSET (1 .. n) |-> g[s]]
  OBVIOUS
<1>7. g = [s \in SUBSET DOMAIN seq |->
             IF s = {} THEN base ELSE F[<<g[s \ {Max(s)}], seq[Max(s)]>>]]
  BY <1>4, <1>5, <1>6, Zenon
<1> QED
  BY <1>4, <1>5, <1>7, Zenon DEF FoldsPlaces, IsFolding

(* Along the sequence.                                                      *)
LEMMA PlacesFold ==
  ASSUME NEW A, NEW B, NEW F \in Steps(A, B), NEW base \in A, NEW seq \in Seq(B),
         NEW g, FoldsPlaces(g, F, base, seq)
  PROVE  /\ g[1 .. 0] = base
         /\ \A k \in 1 .. Len(seq) : g[1 .. k] = F[<<g[1 .. k - 1], seq[k]>>]
<1>1. DOMAIN seq = 1 .. Len(seq) /\ Len(seq) \in Nat
  OBVIOUS
<1>2. \A s \in SUBSET (1 .. Len(seq)) :
        g[s] = IF s = {} THEN base ELSE F[<<g[s \ {Max(s)}], seq[Max(s)]>>]
  BY <1>1, Zenon DEF FoldsPlaces
<1>3. g[1 .. 0] = base
  <2>1. 1 .. 0 = {}
    OBVIOUS
  <2> QED
    BY <1>2, <2>1, Zenon
<1>4. ASSUME NEW k \in 1 .. Len(seq)
      PROVE  g[1 .. k] = F[<<g[1 .. k - 1], seq[k]>>]
  <2>1. k \in Nat /\ k \in 1 .. k /\ 1 .. k \in SUBSET (1 .. Len(seq))
    BY <1>1
  <2>2. Max(1 .. k) = k
    BY <2>1, MaxIs
  <2>3. (1 .. k) \ {k} = 1 .. k - 1
    BY <2>1
  <2>4. 1 .. k # {}
    BY <2>1
  <2> QED
    BY <1>2, <2>1, <2>2, <2>3, <2>4, Zenon
<1> QED
  BY <1>3, <1>4

IsRun(r, A, F, base, seq) ==
  /\ r \in [0 .. Len(seq) -> A]
  /\ r[0] = base
  /\ \A k \in 1 .. Len(seq) : r[k] = F[<<r[k - 1], seq[k]>>]

LEMMA FoldRuns ==
  ASSUME NEW A, NEW B, NEW F \in Steps(A, B), NEW base \in A, NEW seq \in Seq(B)
  PROVE  \E r : IsRun(r, A, F, base, seq) /\ Fold(F, base, seq) = r[Len(seq)]
<1>1. PICK g : g = CHOOSE h : FoldsPlaces(h, F, base, seq)
  OBVIOUS
<1>2. FoldsPlaces(g, F, base, seq)
  <2>1. \E h : FoldsPlaces(h, F, base, seq)
    <3>1. \E h : IsFolding(h, A, F, base, seq)
      BY FoldExists
    <3> QED
      BY <3>1, Zenon DEF IsFolding
  <2> QED
    BY <1>1, <2>1, Zenon
<1>3. /\ g[1 .. 0] = base
      /\ \A k \in 1 .. Len(seq) : g[1 .. k] = F[<<g[1 .. k - 1], seq[k]>>]
  BY <1>2, PlacesFold
<1>4. Len(seq) \in Nat
  OBVIOUS
<1> DEFINE N == {n \in Nat : n <= Len(seq) => g[1 .. n] \in A}
<1>5. 0 \in N
  BY <1>3
<1>6. ASSUME NEW n \in N
      PROVE  n + 1 \in N
  <2>1. SUFFICES ASSUME n + 1 <= Len(seq)
                 PROVE  g[1 .. n + 1] \in A
    OBVIOUS
  <2>2. /\ n \in Nat /\ n <= Len(seq) /\ n + 1 \in 1 .. Len(seq) /\ (n + 1) - 1 = n
        /\ seq[n + 1] \in B
    BY <1>4, <2>1
  <2>3. g[1 .. n] \in A
    BY <2>2
  <2>4. g[1 .. n + 1] = F[<<g[1 .. n], seq[n + 1]>>]
    BY <1>3, <2>2, Zenon
  <2> QED
    BY <2>2, <2>3, <2>4 DEF Steps
<1> HIDE DEF N
<1>7. N = Nat
  <2>1. N \in SUBSET Nat
    BY DEF N
  <2> QED
    BY <1>5, <1>6, <2>1, NumbersInduct
<1>8. \A n \in 0 .. Len(seq) : g[1 .. n] \in A
  BY <1>4, <1>7 DEF N
<1>9. PICK r : r = [n \in 0 .. Len(seq) |-> g[1 .. n]]
  OBVIOUS
<1>10. r \in [0 .. Len(seq) -> A] /\ \A n \in 0 .. Len(seq) : r[n] = g[1 .. n]
  BY <1>8, <1>9
<1>11. IsRun(r, A, F, base, seq)
  <2>1. r[0] = base
    BY <1>3, <1>4, <1>10
  <2>2. ASSUME NEW k \in 1 .. Len(seq)
        PROVE  r[k] = F[<<r[k - 1], seq[k]>>]
    <3>1. k \in 0 .. Len(seq) /\ k - 1 \in 0 .. Len(seq)
      BY <1>4
    <3> QED
      BY <1>3, <1>10, <3>1, Zenon
  <2> QED
    BY <1>10, <2>1, <2>2, Zenon DEF IsRun
<1>12. Fold(F, base, seq) = r[Len(seq)]
  <2>1. DOMAIN seq = 1 .. Len(seq) /\ Len(seq) \in 0 .. Len(seq)
    BY <1>4
  <2> QED
    BY <1>1, <1>10, <2>1, Zenon DEF Fold
<1> QED
  BY <1>10, <1>11, <1>12

(* Whatever takes the same steps up to a place has the same there.          *)
LEMMA RunsAgree ==
  ASSUME NEW n \in Nat, NEW q, NEW r, q[0] = r[0],
         \A k \in 1 .. n : q[k - 1] = r[k - 1] => q[k] = r[k]
  PROVE  q[n] = r[n]
<1> DEFINE N == {m \in Nat : m <= n => q[m] = r[m]}
<1>1. 0 \in N
  OBVIOUS
<1>2. ASSUME NEW m \in N
      PROVE  m + 1 \in N
  <2>1. SUFFICES ASSUME m + 1 <= n
                 PROVE  q[m + 1] = r[m + 1]
    OBVIOUS
  <2>2. m \in Nat /\ m <= n /\ m + 1 \in 1 .. n /\ (m + 1) - 1 = m
    BY <2>1
  <2>3. q[m] = r[m]
    BY <2>2
  <2> QED
    BY <2>2, <2>3, Zenon
<1> HIDE DEF N
<1>3. N = Nat
  <2>1. N \in SUBSET Nat
    BY DEF N
  <2> QED
    BY <1>1, <1>2, <2>1, NumbersInduct
<1> QED
  BY <1>3 DEF N

LEMMA FoldTyped ==
  ASSUME NEW A, NEW B, NEW F \in Steps(A, B), NEW base \in A, NEW seq \in Seq(B)
  PROVE  Fold(F, base, seq) \in A
<1>1. Len(seq) \in 0 .. Len(seq)
  OBVIOUS
<1>2. PICK r : IsRun(r, A, F, base, seq) /\ Fold(F, base, seq) = r[Len(seq)]
  BY FoldRuns
<1> QED
  BY <1>1, <1>2 DEF IsRun

LEMMA FoldOfNone ==
  ASSUME NEW A, NEW B, NEW F \in Steps(A, B), NEW base \in A
  PROVE  Fold(F, base, <<>>) = base
<1>1. PICK none : none = <<>>
  OBVIOUS
<1>2. none \in Seq(B) /\ Len(none) = 0
  BY <1>1
<1>3. \E r : IsRun(r, A, F, base, none) /\ Fold(F, base, none) = r[Len(none)]
  BY <1>2, FoldRuns
<1>4. Fold(F, base, none) = base
  BY <1>2, <1>3, Zenon DEF IsRun
<1> QED
  BY <1>1, <1>4

LEMMA FoldOneMore ==
  ASSUME NEW A, NEW B, NEW F \in Steps(A, B), NEW base \in A, NEW seq \in Seq(B),
         NEW b \in B
  PROVE  Fold(F, base, Append(seq, b)) = F[<<Fold(F, base, seq), b>>]
<1>1. PICK more : more = Append(seq, b)
  OBVIOUS
<1>2. /\ more \in Seq(B) /\ Len(more) = Len(seq) + 1 /\ Len(seq) \in Nat
      /\ \A k \in 1 .. Len(seq) : more[k] = seq[k]
      /\ more[Len(seq) + 1] = b
  BY <1>1, AppendProperties
<1>3. PICK n \in Nat : n = Len(seq)
  BY <1>2
<1>4. PICK r : IsRun(r, A, F, base, seq) /\ Fold(F, base, seq) = r[n]
  BY <1>3, FoldRuns
<1>5. PICK q : IsRun(q, A, F, base, more) /\ Fold(F, base, more) = q[n + 1]
  BY <1>2, <1>3, FoldRuns
<1>6. q[n] = r[n]
  <2>1. q[0] = r[0]
    BY <1>4, <1>5 DEF IsRun
  <2>2. ASSUME NEW k \in 1 .. n, q[k - 1] = r[k - 1]
        PROVE  q[k] = r[k]
    <3>1. k \in 1 .. Len(seq) /\ k \in 1 .. Len(more) /\ more[k] = seq[k]
      BY <1>2, <1>3
    <3> QED
      BY <1>4, <1>5, <2>2, <3>1, Zenon DEF IsRun
  <2> QED
    BY <2>1, <2>2, RunsAgree
<1>7. q[n + 1] = F[<<q[n], b>>]
  <2>1. n + 1 \in 1 .. Len(more) /\ (n + 1) - 1 = n /\ more[n + 1] = b
    BY <1>2, <1>3
  <2> QED
    BY <1>5, <2>1, Zenon DEF IsRun
<1> QED
  BY <1>1, <1>4, <1>5, <1>6, <1>7, Zenon

(* What takes F's steps is its fold.                                        *)
LEMMA FoldIs ==
  ASSUME NEW A, NEW B, NEW F \in Steps(A, B), NEW base \in A, NEW seq \in Seq(B),
         NEW g, g[1 .. 0] = base,
         \A k \in 1 .. Len(seq), a \in A :
           g[1 .. k - 1] = a => g[1 .. k] = F[<<a, seq[k]>>]
  PROVE  g[DOMAIN seq] = Fold(F, base, seq)
<1>1. PICK n \in Nat : n = Len(seq) /\ DOMAIN seq = 1 .. n
  OBVIOUS
<1>2. PICK r : IsRun(r, A, F, base, seq) /\ Fold(F, base, seq) = r[n]
  BY <1>1, FoldRuns
<1>3. PICK q : q = [k \in 0 .. n |-> g[1 .. k]]
  OBVIOUS
<1>4. \A k \in 0 .. n : q[k] = g[1 .. k]
  BY <1>3
<1>5. q[n] = r[n]
  <2>1. q[0] = r[0]
    BY <1>2, <1>4 DEF IsRun
  <2>2. ASSUME NEW k \in 1 .. n, q[k - 1] = r[k - 1]
        PROVE  q[k] = r[k]
    <3>1. k \in 0 .. n /\ k - 1 \in 0 .. n
      OBVIOUS
    <3>2. g[1 .. k - 1] = r[k - 1] /\ r[k - 1] \in A
      BY <1>1, <1>2, <1>4, <2>2, <3>1 DEF IsRun
    <3>3. g[1 .. k] = F[<<r[k - 1], seq[k]>>]
      BY <1>1, <3>2
    <3>4. r[k] = F[<<r[k - 1], seq[k]>>]
      BY <1>1, <1>2 DEF IsRun
    <3> QED
      BY <1>4, <3>1, <3>3, <3>4
  <2> QED
    BY <2>1, <2>2, RunsAgree
<1> QED
  BY <1>1, <1>2, <1>4, <1>5

LEMMA FoldJoins ==
  ASSUME NEW A, NEW B, NEW F \in Steps(A, B), NEW base \in A,
         NEW s \in Seq(B), NEW t \in Seq(B)
  PROVE  Fold(F, base, s \o t) = Fold(F, Fold(F, base, s), t)
<1> DEFINE T == {u \in Seq(B) : Fold(F, base, s \o u) = Fold(F, Fold(F, base, s), u)}
<1>1. PICK c \in A : c = Fold(F, base, s)
  BY FoldTyped
<1>2. <<>> \in T
  <2>1. s \o <<>> = s
    OBVIOUS
  <2>2. Fold(F, c, <<>>) = c
    BY FoldOfNone
  <2>3. <<>> \in Seq(B)
    OBVIOUS
  <2> QED
    BY <1>1, <2>1, <2>2, <2>3, Zenon
<1>3. ASSUME NEW u \in T, NEW b \in B
      PROVE  Append(u, b) \in T
  <2>1. u \in Seq(B) /\ Append(u, b) \in Seq(B)
    OBVIOUS
  <2>2. s \o u \in Seq(B) /\ s \o Append(u, b) = Append(s \o u, b)
    BY <2>1
  <2>3. Fold(F, base, s \o u) = Fold(F, c, u)
    BY <1>1, Zenon
  <2>4. Fold(F, base, Append(s \o u, b)) = F[<<Fold(F, base, s \o u), b>>]
    <3>1. PICK v \in Seq(B) : v = s \o u
      BY <2>2
    <3>2. Fold(F, base, Append(v, b)) = F[<<Fold(F, base, v), b>>]
      BY FoldOneMore
    <3> QED
      BY <3>1, <3>2, Zenon
  <2>5. Fold(F, c, Append(u, b)) = F[<<Fold(F, c, u), b>>]
    BY <2>1, FoldOneMore
  <2> QED
    BY <1>1, <2>1, <2>2, <2>3, <2>4, <2>5, Zenon
<1> HIDE DEF T
<1>4. T = Seq(B)
  <2>1. T \in SUBSET Seq(B)
    BY DEF T
  <2> QED
    BY <1>2, <1>3, <2>1, SequencesInduct
<1>5. t \in T
  BY <1>4
<1> QED
  BY <1>5, Zenon DEF T
================================================================================
