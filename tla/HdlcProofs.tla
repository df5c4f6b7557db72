------------------------------ MODULE HdlcProofs ------------------------------
(***************************************************************************)
(* HdlcSerial for every alphabet, checksum and set of payloads, and for    *)
(* any number of frames.  The loops of encode and decode are folds over    *)
(* the bytes.                                                              *)
(***************************************************************************)
EXTENDS HdlcSerial, FoldProofs

----------------------------------------------------------------------------
(* The steps of encode and decode, and that their loops are such folds.     *)

LEMMA BytesAssociate ==
  \A a, b, c \in Seq(Bytes) : (a \o b) \o c = a \o (b \o c)
<1>1. ASSUME NEW a \in Seq(Bytes), NEW b \in Seq(Bytes), NEW c \in Seq(Bytes)
      PROVE  (a \o b) \o c = a \o (b \o c)
  BY ConcatAssociative
<1> QED
  BY <1>1

Accs == [bytes : Seq(Bytes), escaped : BOOLEAN, erased : BOOLEAN, ended : BOOLEAN]
Stuffs == [x \in Seq(Bytes) \X Bytes |-> Stuff(x[1], x[2])]
Unescapes == [x \in Accs \X Bytes |-> Unescape(x[1], x[2])]
UnescapesToFlag == [x \in Accs \X Bytes |-> UnescapeToFlag(x[1], x[2])]

LEMMA EscapedTyped ==
  ASSUME NEW b \in Bytes
  PROVE  Escaped(b) \in Seq(Bytes)
<1>1. Masked(b) \in Bytes /\ Esc \in Bytes
  BY AlphabetAssumption
<1> QED
  BY <1>1 DEF Escaped

LEMMA StuffsTyped ==
  /\ Stuffs \in Steps(Seq(Bytes), Bytes)
  /\ \A a \in Seq(Bytes), b \in Bytes : Stuffs[<<a, b>>] = Stuff(a, b)
<1>1. \A a \in Seq(Bytes), b \in Bytes : Stuff(a, b) \in Seq(Bytes)
  BY EscapedTyped DEF Stuff
<1> QED
  BY <1>1 DEF Stuffs, Steps

LEMMA UnescapeTyped ==
  ASSUME NEW a \in Accs, NEW b \in Bytes
  PROVE  Unescape(a, b) \in Accs
<1>1. Masked(b) \in Bytes
  BY AlphabetAssumption
<1>2. /\ [a EXCEPT !.bytes = Append(@, Masked(b)), !.escaped = FALSE] \in Accs
      /\ [a EXCEPT !.escaped = TRUE, !.erased = TRUE] \in Accs
      /\ [a EXCEPT !.bytes = Append(@, b)] \in Accs
  <2>1. a.bytes \in Seq(Bytes)
    BY DEF Accs
  <2>2. PICK s, t \in Seq(Bytes) : s = Append(a.bytes, Masked(b)) /\ t = Append(a.bytes, b)
    <3>1. Append(a.bytes, Masked(b)) \in Seq(Bytes) /\ Append(a.bytes, b) \in Seq(Bytes)
      BY <1>1, <2>1, AppendProperties
    <3> QED
      BY <3>1, Zenon
  <2>3. [a EXCEPT !.bytes = s, !.escaped = FALSE] \in Accs
    BY DEF Accs
  <2>4. [a EXCEPT !.escaped = TRUE, !.erased = TRUE] \in Accs
    BY DEF Accs
  <2>5. [a EXCEPT !.bytes = t] \in Accs
    BY DEF Accs
  <2> QED
    BY <2>2, <2>3, <2>4, <2>5, Zenon
<1> QED
  BY <1>2, Zenon DEF Unescape

LEMMA UnescapesTyped ==
  /\ Unescapes \in Steps(Accs, Bytes)
  /\ \A a \in Accs, b \in Bytes : Unescapes[<<a, b>>] = Unescape(a, b)
BY UnescapeTyped DEF Unescapes, Steps

LEMMA UnescapesToFlagTyped ==
  /\ UnescapesToFlag \in Steps(Accs, Bytes)
  /\ \A a \in Accs, b \in Bytes : UnescapesToFlag[<<a, b>>] = UnescapeToFlag(a, b)
<1>1. ASSUME NEW a \in Accs, NEW b \in Bytes
      PROVE  UnescapeToFlag(a, b) \in Accs
  <2>1. [a EXCEPT !.ended = TRUE] \in Accs
    BY DEF Accs
  <2> QED
    BY <2>1, UnescapeTyped, Zenon DEF UnescapeToFlag
<1> QED
  BY <1>1 DEF UnescapesToFlag, Steps

LEMMA StuffedFolds ==
  ASSUME NEW base \in Seq(Bytes), NEW seq \in Seq(Bytes)
  PROVE  FoldLeft(Stuff, base, seq) = Fold(Stuffs, base, seq)
<1>1. /\ Stuffs \in Steps(Seq(Bytes), Bytes)
      /\ \A a \in Seq(Bytes), b \in Bytes : Stuffs[<<a, b>>] = Stuff(a, b)
  BY StuffsTyped
<1>2. PICK h : IsFolding(h, Seq(Bytes), Stuffs, base, seq)
  BY <1>1, FoldExists
<1>3. PICK n \in Nat : n = Len(seq) /\ DOMAIN seq = 1 .. n
  OBVIOUS
<1>4. h = [s \in SUBSET DOMAIN seq |->
             IF s = {} THEN base ELSE Stuff(h[s \ {Max(s)}], seq[Max(s)])]
  <2>1. /\ h \in [SUBSET (1 .. n) -> Seq(Bytes)]
        /\ h = [s \in SUBSET (1 .. n) |->
                  IF s = {} THEN base ELSE Stuffs[<<h[s \ {Max(s)}], seq[Max(s)]>>]]
        /\ \A s \in SUBSET (1 .. n) : s # {} => Max(s) \in 1 .. n
    BY <1>2, <1>3, Zenon DEF IsFolding, FoldsPlaces
  <2>2. ASSUME NEW s \in SUBSET (1 .. n)
        PROVE  h[s] = IF s = {} THEN base ELSE Stuff(h[s \ {Max(s)}], seq[Max(s)])
    <3>1. h[s] = IF s = {} THEN base ELSE Stuffs[<<h[s \ {Max(s)}], seq[Max(s)]>>]
      BY <2>1, Zenon
    <3>2. CASE s # {}
      <4>1. Max(s) \in 1 .. n
        BY <2>1, <3>2
      <4>2. seq[Max(s)] \in Bytes
        BY <1>3, <4>1
      <4>3. PICK t \in SUBSET (1 .. n) : t = s \ {Max(s)}
        OBVIOUS
      <4>4. h[t] \in Seq(Bytes)
        BY <2>1
      <4> QED
        BY <1>1, <3>1, <3>2, <4>2, <4>3, <4>4, Zenon
    <3> QED
      BY <3>1, <3>2, Zenon
  <2> QED
    BY <1>3, <2>1, <2>2, Zenon
<1>5. PICK g : g = CHOOSE f : f = [s \in SUBSET DOMAIN seq |->
                                   IF s = {} THEN base
                                   ELSE Stuff(f[s \ {Max(s)}], seq[Max(s)])]
  OBVIOUS
<1>6. g = [s \in SUBSET DOMAIN seq |->
             IF s = {} THEN base ELSE Stuff(g[s \ {Max(s)}], seq[Max(s)])]
  BY <1>4, <1>5, Zenon
<1>7. FoldLeft(Stuff, base, seq) = g[DOMAIN seq]
  BY <1>5, Zenon DEF FoldLeft, MapThenFoldSet
<1>8. g[1 .. 0] = base
  <2>1. 1 .. 0 = {}
    OBVIOUS
  <2> QED
    BY <1>6, <2>1, Zenon
<1>9. ASSUME NEW k \in 1 .. Len(seq), NEW a \in Seq(Bytes), g[1 .. k - 1] = a
      PROVE  g[1 .. k] = Stuffs[<<a, seq[k]>>]
  <2>1. 1 .. k \in SUBSET (1 .. n) /\ 1 .. k # {} /\ k \in 1 .. k /\ k \in Nat
    <3>1. k \in Nat /\ 1 <= k /\ k <= n
      BY <1>3
    <3>2. k \in 1 .. k /\ 1 .. k \in SUBSET (1 .. n)
      BY <3>1
    <3> QED
      BY <3>1, <3>2
  <2>2. Max(1 .. k) = k
    BY <2>1, MaxIs
  <2>3. (1 .. k) \ {k} = 1 .. k - 1
    BY <2>1
  <2>4. seq[k] \in Bytes
    OBVIOUS
  <2>5. g[1 .. k] = Stuff(g[(1 .. k) \ {k}], seq[k])
    BY <1>3, <1>6, <2>1, <2>2, Zenon
  <2> QED
    BY <1>1, <1>9, <2>3, <2>4, <2>5, Zenon
<1> QED
  BY <1>1, <1>7, <1>8, <1>9, FoldIs

LEMMA UnescapeFolds ==
  ASSUME NEW base \in Accs, NEW seq \in Seq(Bytes)
  PROVE  FoldLeft(Unescape, base, seq) = Fold(Unescapes, base, seq)
<1>1. /\ Unescapes \in Steps(Accs, Bytes)
      /\ \A a \in Accs, b \in Bytes : Unescapes[<<a, b>>] = Unescape(a, b)
  BY UnescapesTyped
<1>2. PICK h : IsFolding(h, Accs, Unescapes, base, seq)
  BY <1>1, FoldExists
<1>3. PICK n \in Nat : n = Len(seq) /\ DOMAIN seq = 1 .. n
  OBVIOUS
<1>4. h = [s \in SUBSET DOMAIN seq |->
             IF s = {} THEN base ELSE Unescape(h[s \ {Max(s)}], seq[Max(s)])]
  <2>1. /\ h \in [SUBSET (1 .. n) -> Accs]
        /\ h = [s \in SUBSET (1 .. n) |->
                  IF s = {} THEN base ELSE Unescapes[<<h[s \ {Max(s)}], seq[Max(s)]>>]]
        /\ \A s \in SUBSET (1 .. n) : s # {} => Max(s) \in 1 .. n
    BY <1>2, <1>3, Zenon DEF IsFolding, FoldsPlaces
  <2>2. ASSUME NEW s \in SUBSET (1 .. n)
        PROVE  h[s] = IF s = {} THEN base ELSE Unescape(h[s \ {Max(s)}], seq[Max(s)])
    <3>1. h[s] = IF s = {} THEN base ELSE Unescapes[<<h[s \ {Max(s)}], seq[Max(s)]>>]
      BY <2>1, Zenon
    <3>2. CASE s # {}
      <4>1. Max(s) \in 1 .. n
        BY <2>1, <3>2
      <4>2. seq[Max(s)] \in Bytes
        BY <1>3, <4>1
      <4>3. PICK t \in SUBSET (1 .. n) : t = s \ {Max(s)}
        OBVIOUS
      <4>4. h[t] \in Accs
        BY <2>1
      <4> QED
        BY <1>1, <3>1, <3>2, <4>2, <4>3, <4>4, Zenon
    <3> QED
      BY <3>1, <3>2, Zenon
  <2> QED
    BY <1>3, <2>1, <2>2, Zenon
<1>5. PICK g : g = CHOOSE f : f = [s \in SUBSET DOMAIN seq |->
                                   IF s = {} THEN base
                                   ELSE Unescape(f[s \ {Max(s)}], seq[Max(s)])]
  OBVIOUS
<1>6. g = [s \in SUBSET DOMAIN seq |->
             IF s = {} THEN base ELSE Unescape(g[s \ {Max(s)}], seq[Max(s)])]
  BY <1>4, <1>5, Zenon
<1>7. FoldLeft(Unescape, base, seq) = g[DOMAIN seq]
  BY <1>5, Zenon DEF FoldLeft, MapThenFoldSet
<1>8. g[1 .. 0] = base
  <2>1. 1 .. 0 = {}
    OBVIOUS
  <2> QED
    BY <1>6, <2>1, Zenon
<1>9. ASSUME NEW k \in 1 .. Len(seq), NEW a \in Accs, g[1 .. k - 1] = a
      PROVE  g[1 .. k] = Unescapes[<<a, seq[k]>>]
  <2>1. 1 .. k \in SUBSET (1 .. n) /\ 1 .. k # {} /\ k \in 1 .. k /\ k \in Nat
    <3>1. k \in Nat /\ 1 <= k /\ k <= n
      BY <1>3
    <3>2. k \in 1 .. k /\ 1 .. k \in SUBSET (1 .. n)
      BY <3>1
    <3> QED
      BY <3>1, <3>2
  <2>2. Max(1 .. k) = k
    BY <2>1, MaxIs
  <2>3. (1 .. k) \ {k} = 1 .. k - 1
    BY <2>1
  <2>4. seq[k] \in Bytes
    OBVIOUS
  <2>5. g[1 .. k] = Unescape(g[(1 .. k) \ {k}], seq[k])
    BY <1>3, <1>6, <2>1, <2>2, Zenon
  <2> QED
    BY <1>1, <1>9, <2>3, <2>4, <2>5, Zenon
<1> QED
  BY <1>1, <1>7, <1>8, <1>9, FoldIs

LEMMA UnescapeToFlagFolds ==
  ASSUME NEW base \in Accs, NEW seq \in Seq(Bytes)
  PROVE  FoldLeft(UnescapeToFlag, base, seq) = Fold(UnescapesToFlag, base, seq)
<1>1. /\ UnescapesToFlag \in Steps(Accs, Bytes)
      /\ \A a \in Accs, b \in Bytes : UnescapesToFlag[<<a, b>>] = UnescapeToFlag(a, b)
  BY UnescapesToFlagTyped
<1>2. PICK h : IsFolding(h, Accs, UnescapesToFlag, base, seq)
  BY <1>1, FoldExists
<1>3. PICK n \in Nat : n = Len(seq) /\ DOMAIN seq = 1 .. n
  OBVIOUS
<1>4. h = [s \in SUBSET DOMAIN seq |->
             IF s = {} THEN base ELSE UnescapeToFlag(h[s \ {Max(s)}], seq[Max(s)])]
  <2>1. /\ h \in [SUBSET (1 .. n) -> Accs]
        /\ h = [s \in SUBSET (1 .. n) |->
                  IF s = {} THEN base ELSE UnescapesToFlag[<<h[s \ {Max(s)}], seq[Max(s)]>>]]
        /\ \A s \in SUBSET (1 .. n) : s # {} => Max(s) \in 1 .. n
    BY <1>2, <1>3, Zenon DEF IsFolding, FoldsPlaces
  <2>2. ASSUME NEW s \in SUBSET (1 .. n)
        PROVE  h[s] = IF s = {} THEN base ELSE UnescapeToFlag(h[s \ {Max(s)}], seq[Max(s)])
    <3>1. h[s] = IF s = {} THEN base ELSE UnescapesToFlag[<<h[s \ {Max(s)}], seq[Max(s)]>>]
      BY <2>1, Zenon
    <3>2. CASE s # {}
      <4>1. Max(s) \in 1 .. n
        BY <2>1, <3>2
      <4>2. seq[Max(s)] \in Bytes
        BY <1>3, <4>1
      <4>3. PICK t \in SUBSET (1 .. n) : t = s \ {Max(s)}
        OBVIOUS
      <4>4. h[t] \in Accs
        BY <2>1
      <4> QED
        BY <1>1, <3>1, <3>2, <4>2, <4>3, <4>4, Zenon
    <3> QED
      BY <3>1, <3>2, Zenon
  <2> QED
    BY <1>3, <2>1, <2>2, Zenon
<1>5. PICK g : g = CHOOSE f : f = [s \in SUBSET DOMAIN seq |->
                                   IF s = {} THEN base
                                   ELSE UnescapeToFlag(f[s \ {Max(s)}], seq[Max(s)])]
  OBVIOUS
<1>6. g = [s \in SUBSET DOMAIN seq |->
             IF s = {} THEN base ELSE UnescapeToFlag(g[s \ {Max(s)}], seq[Max(s)])]
  BY <1>4, <1>5, Zenon
<1>7. FoldLeft(UnescapeToFlag, base, seq) = g[DOMAIN seq]
  BY <1>5, Zenon DEF FoldLeft, MapThenFoldSet
<1>8. g[1 .. 0] = base
  <2>1. 1 .. 0 = {}
    OBVIOUS
  <2> QED
    BY <1>6, <2>1, Zenon
<1>9. ASSUME NEW k \in 1 .. Len(seq), NEW a \in Accs, g[1 .. k - 1] = a
      PROVE  g[1 .. k] = UnescapesToFlag[<<a, seq[k]>>]
  <2>1. 1 .. k \in SUBSET (1 .. n) /\ 1 .. k # {} /\ k \in 1 .. k /\ k \in Nat
    <3>1. k \in Nat /\ 1 <= k /\ k <= n
      BY <1>3
    <3>2. k \in 1 .. k /\ 1 .. k \in SUBSET (1 .. n)
      BY <3>1
    <3> QED
      BY <3>1, <3>2
  <2>2. Max(1 .. k) = k
    BY <2>1, MaxIs
  <2>3. (1 .. k) \ {k} = 1 .. k - 1
    BY <2>1
  <2>4. seq[k] \in Bytes
    OBVIOUS
  <2>5. g[1 .. k] = UnescapeToFlag(g[(1 .. k) \ {k}], seq[k])
    BY <1>3, <1>6, <2>1, <2>2, Zenon
  <2> QED
    BY <1>1, <1>9, <2>3, <2>4, <2>5, Zenon
<1> QED
  BY <1>1, <1>7, <1>8, <1>9, FoldIs

LEMMA FoldOfOne ==
  ASSUME NEW A, NEW B, NEW F \in Steps(A, B), NEW base \in A, NEW b \in B
  PROVE  Fold(F, base, <<b>>) = F[<<base, b>>]
<1>1. PICK none \in Seq(B) : none = <<>>
  BY EmptySeq, Zenon
<1>2. Append(none, b) = <<b>>
  BY <1>1
<1>3. Fold(F, base, none) = base
  BY <1>1, FoldOfNone
<1>4. Fold(F, base, Append(none, b)) = F[<<Fold(F, base, none), b>>]
  BY FoldOneMore
<1> QED
  BY <1>2, <1>3, <1>4, Zenon

LEMMA FoldOfTwo ==
  ASSUME NEW A, NEW B, NEW F \in Steps(A, B), NEW base \in A, NEW b \in B, NEW c \in B
  PROVE  Fold(F, base, <<b, c>>) = F[<<F[<<base, b>>], c>>]
<1>1. PICK one \in Seq(B) : one = <<b>>
  <2>1. <<b>> \in Seq(B)
    OBVIOUS
  <2> QED
    BY <2>1, Zenon
<1>2. Append(one, c) = <<b, c>>
  <2>1. PICK d : d = Append(one, c)
    OBVIOUS
  <2>2. Len(one) = 1 /\ one[1] = b
    BY <1>1
  <2>3. d \in Seq(B) /\ Len(d) = 2 /\ d[1] = b /\ d[2] = c
    <3>1. /\ d \in Seq(B) /\ Len(d) = Len(one) + 1
          /\ \A i \in 1 .. Len(one) : d[i] = one[i]
          /\ d[Len(one) + 1] = c
      BY <2>1, AppendProperties
    <3> QED
      BY <2>2, <3>1
  <2>4. PICK x \in Seq(B) : x = <<b, c>> /\ Len(x) = 2 /\ x[1] = b /\ x[2] = c
    <3>1. <<b, c>> \in Seq(B) /\ Len(<<b, c>>) = 2 /\ <<b, c>>[1] = b /\ <<b, c>>[2] = c
      OBVIOUS
    <3> QED
      BY <3>1, Zenon
  <2>5. \A i \in 1 .. Len(d) : d[i] = x[i]
    BY <2>3, <2>4
  <2>6. d = x
    BY <2>3, <2>4, <2>5, SeqEqual
  <2> QED
    BY <2>1, <2>4, <2>6, Zenon
<1>3. Fold(F, base, one) = F[<<base, b>>]
  BY <1>1, FoldOfOne
<1>4. Fold(F, base, Append(one, c)) = F[<<Fold(F, base, one), c>>]
  BY FoldOneMore
<1> QED
  BY <1>2, <1>3, <1>4, Zenon

----------------------------------------------------------------------------
(* What is escaped is without a flag, and comes out of the loops of decode  *)
(* as it was.                                                               *)

Plain(s, erased) ==
  [bytes |-> s, escaped |-> FALSE, erased |-> erased, ended |-> FALSE]
Escaping(s) == [bytes |-> s, escaped |-> TRUE, erased |-> TRUE, ended |-> FALSE]
Unescaping == {Unescapes, UnescapesToFlag}

LEMMA UnescapingTyped ==
  ASSUME NEW F \in Unescaping
  PROVE  F \in Steps(Accs, Bytes)
BY UnescapesTyped, UnescapesToFlagTyped, Zenon DEF Unescaping

LEMMA PlainTyped ==
  ASSUME NEW s \in Seq(Bytes), NEW e \in BOOLEAN
  PROVE  /\ \E a \in Accs : a = Plain(s, e) /\ ~a.ended /\ ~a.escaped
         /\ \E c \in Accs : c = Escaping(s) /\ ~c.ended /\ c.escaped
<1>1. Plain(s, e) \in Accs /\ ~Plain(s, e).ended /\ ~Plain(s, e).escaped
  BY DEF Plain, Accs
<1>2. Escaping(s) \in Accs /\ ~Escaping(s).ended /\ Escaping(s).escaped
  BY DEF Escaping, Accs
<1> QED
  BY <1>1, <1>2, Zenon

LEMMA PlainMoves ==
  ASSUME NEW s, NEW e, NEW b
  PROVE  /\ b # Esc => Unescape(Plain(s, e), b) = Plain(Append(s, b), e)
         /\ Unescape(Plain(s, e), Esc) = Escaping(s)
         /\ Unescape(Escaping(s), b) = Plain(Append(s, Masked(b)), TRUE)
<1>1. PICK t, u : t = Append(s, b) /\ u = Append(s, Masked(b))
  BY Zenon
<1>2. PICK a, c : a = Plain(s, e) /\ c = Escaping(s)
  BY Zenon
<1>3. ~a.escaped /\ c.escaped
  BY <1>2 DEF Plain, Escaping
<1>4. ASSUME b # Esc
      PROVE  Unescape(a, b) = Plain(t, e)
  <2>1. PICK d : d = [a EXCEPT !.bytes = Append(@, b)]
    OBVIOUS
  <2>2. d = Unescape(a, b)
    BY <1>3, <1>4, <2>1, Zenon DEF Unescape
  <2>3. d = Plain(t, e)
    BY <1>1, <1>2, <2>1 DEF Plain
  <2> QED
    BY <2>2, <2>3
<1>5. Unescape(a, Esc) = Escaping(s)
  <2>1. PICK d : d = [a EXCEPT !.escaped = TRUE, !.erased = TRUE]
    OBVIOUS
  <2>2. d = Unescape(a, Esc)
    BY <1>3, <2>1, Zenon DEF Unescape
  <2>3. d = Escaping(s)
    BY <1>2, <2>1 DEF Plain, Escaping
  <2> QED
    BY <2>2, <2>3
<1>6. Unescape(c, b) = Plain(u, TRUE)
  <2>1. PICK d : d = [c EXCEPT !.bytes = Append(@, Masked(b)), !.escaped = FALSE]
    OBVIOUS
  <2>2. d = Unescape(c, b)
    BY <1>3, <2>1, Zenon DEF Unescape
  <2>3. d = Plain(u, TRUE)
    BY <1>1, <1>2, <2>1 DEF Plain, Escaping
  <2> QED
    BY <2>2, <2>3
<1> QED
  BY <1>1, <1>2, <1>4, <1>5, <1>6, Zenon

LEMMA UnescapingSteps ==
  ASSUME NEW F \in Unescaping, NEW s \in Seq(Bytes), NEW e \in BOOLEAN, NEW b \in Bytes
  PROVE  /\ b \notin {Flag, Esc} => F[<<Plain(s, e), b>>] = Plain(Append(s, b), e)
         /\ F[<<Plain(s, e), Esc>>] = Escaping(s)
         /\ F[<<Escaping(s), Masked(b)>>] = Plain(Append(s, b), TRUE)
<1>1. /\ Esc \in Bytes /\ Flag # Esc /\ Masked(b) \in Bytes /\ Masked(Masked(b)) = b
  BY AlphabetAssumption
<1>2. PICK a \in Accs : a = Plain(s, e) /\ ~a.ended /\ ~a.escaped
  BY PlainTyped
<1>3. PICK c \in Accs : c = Escaping(s) /\ ~c.ended /\ c.escaped
  BY PlainTyped
<1>4. ASSUME NEW d \in Accs, NEW x \in Bytes, ~d.ended, x # Flag \/ d.escaped
      PROVE  F[<<d, x>>] = Unescape(d, x)
  <2>1. UnescapeToFlag(d, x) = Unescape(d, x)
    BY <1>4, Zenon DEF UnescapeToFlag
  <2> QED
    BY <2>1, UnescapesTyped, UnescapesToFlagTyped, Zenon DEF Unescaping
<1>5. ASSUME b \notin {Flag, Esc}
      PROVE  F[<<a, b>>] = Plain(Append(s, b), e)
  <2>1. Unescape(a, b) = Plain(Append(s, b), e)
    BY <1>2, <1>5, PlainMoves, ZenonT(60)
  <2> QED
    BY <1>2, <1>4, <1>5, <2>1, Zenon
<1>6. F[<<a, Esc>>] = Escaping(s)
  <2>1. Unescape(a, Esc) = Escaping(s)
    BY <1>2, PlainMoves
  <2> QED
    BY <1>1, <1>2, <1>4, <2>1, Zenon
<1>7. F[<<c, Masked(b)>>] = Plain(Append(s, b), TRUE)
  <2>1. Unescape(c, Masked(b)) = Plain(Append(s, b), TRUE)
    BY <1>1, <1>3, PlainMoves, ZenonT(60)
  <2> QED
    BY <1>1, <1>3, <1>4, <2>1, Zenon
<1> QED
  BY <1>2, <1>3, <1>5, <1>6, <1>7, Zenon

LEMMA OneUnescaped ==
  ASSUME NEW F \in Unescaping, NEW s \in Seq(Bytes), NEW e \in BOOLEAN, NEW b \in Bytes
  PROVE  \E r \in BOOLEAN : Fold(F, Plain(s, e), Escaped(b)) = Plain(Append(s, b), r)
<1>1. Esc \in Bytes /\ Masked(b) \in Bytes
  BY AlphabetAssumption
<1>2. F \in Steps(Accs, Bytes) /\ Plain(s, e) \in Accs
  BY UnescapingTyped DEF Plain, Accs
<1>3. CASE b \notin {Flag, Esc}
  <2>1. Escaped(b) = <<b>>
    BY <1>3, Zenon DEF Escaped
  <2>2. Fold(F, Plain(s, e), <<b>>) = F[<<Plain(s, e), b>>]
    BY <1>2, FoldOfOne
  <2>3. F[<<Plain(s, e), b>>] = Plain(Append(s, b), e)
    BY <1>3, UnescapingSteps
  <2> QED
    BY <2>1, <2>2, <2>3, Zenon
<1>4. CASE b \in {Flag, Esc}
  <2>1. Escaped(b) = <<Esc, Masked(b)>>
    BY <1>4, Zenon DEF Escaped
  <2>2. Fold(F, Plain(s, e), <<Esc, Masked(b)>>) = F[<<F[<<Plain(s, e), Esc>>], Masked(b)>>]
    BY <1>1, <1>2, FoldOfTwo
  <2>3. /\ F[<<Plain(s, e), Esc>>] = Escaping(s)
        /\ F[<<Escaping(s), Masked(b)>>] = Plain(Append(s, b), TRUE)
    BY UnescapingSteps
  <2> QED
    BY <2>1, <2>2, <2>3, Zenon
<1> QED
  BY <1>3, <1>4

Flagless(bytes) == \A i \in DOMAIN bytes : bytes[i] # Flag

LEMMA FlaglessJoin ==
  ASSUME NEW s \in Seq(Bytes), NEW t \in Seq(Bytes), Flagless(s), Flagless(t)
  PROVE  Flagless(s \o t)
<1>1. PICK u : u = s \o t
  OBVIOUS
<1>2. /\ u \in Seq(Bytes) /\ Len(u) = Len(s) + Len(t)
      /\ \A i \in 1 .. Len(u) : u[i] = IF i <= Len(s) THEN s[i] ELSE t[i - Len(s)]
  BY <1>1, ConcatProperties
<1>3. ASSUME NEW i \in 1 .. Len(u)
      PROVE  u[i] # Flag
  <2>1. /\ \A j \in 1 .. Len(s) : s[j] # Flag
        /\ \A j \in 1 .. Len(t) : t[j] # Flag
        /\ Len(s) \in Nat /\ Len(t) \in Nat
    BY DEF Flagless
  <2>2. CASE i <= Len(s)
    <3>1. i \in 1 .. Len(s)
      BY <1>2, <2>1, <2>2
    <3> QED
      BY <1>2, <2>1, <2>2, <3>1, Zenon
  <2>3. CASE ~(i <= Len(s))
    <3>1. i - Len(s) \in 1 .. Len(t)
      BY <1>2, <2>1, <2>3
    <3> QED
      BY <1>2, <2>1, <2>3, <3>1, Zenon
  <2> QED
    BY <2>2, <2>3
<1> QED
  BY <1>1, <1>2, <1>3 DEF Flagless

LEMMA EscapedFlagless ==
  ASSUME NEW b \in Bytes
  PROVE  Flagless(Escaped(b)) /\ Escaped(b) # <<>>
<1>1. Flag # Esc /\ (b \in {Flag, Esc} => Masked(b) # Flag)
  BY AlphabetAssumption
<1>2. CASE b \in {Flag, Esc}
  <2>1. Escaped(b) = <<Esc, Masked(b)>>
    BY <1>2, Zenon DEF Escaped
  <2>2. Esc # Flag /\ Masked(b) # Flag
    BY <1>1, <1>2
  <2>3. ASSUME NEW x, NEW y, x # Flag, y # Flag
        PROVE  Flagless(<<x, y>>) /\ <<x, y>> # <<>>
    BY <2>3 DEF Flagless
  <2> QED
    BY <2>1, <2>2, <2>3, Zenon
<1>3. CASE b \notin {Flag, Esc}
  <2>1. Escaped(b) = <<b>>
    BY <1>3, Zenon DEF Escaped
  <2> QED
    BY <1>3, <2>1 DEF Flagless
<1> QED
  BY <1>2, <1>3

LEMMA StuffedOneMore ==
  ASSUME NEW s \in Seq(Bytes), NEW b \in Bytes
  PROVE  Stuffed(Append(s, b)) = Stuffed(s) \o Escaped(b)
<1>1. PICK none \in Seq(Bytes) : none = <<>>
  BY EmptySeq, Zenon
<1>2. Append(s, b) \in Seq(Bytes)
  OBVIOUS
<1>3. /\ Stuffed(s) = Fold(Stuffs, none, s)
      /\ Stuffed(Append(s, b)) = Fold(Stuffs, none, Append(s, b))
  BY <1>1, <1>2, StuffedFolds, Zenon DEF Stuffed
<1>4. Fold(Stuffs, none, Append(s, b)) = Stuffs[<<Fold(Stuffs, none, s), b>>]
  BY StuffsTyped, FoldOneMore
<1>5. Fold(Stuffs, none, s) \in Seq(Bytes)
  BY StuffsTyped, FoldTyped
<1> QED
  BY <1>3, <1>4, <1>5, StuffsTyped, Zenon DEF Stuff

LEMMA StuffedNone == Stuffed(<<>>) = <<>>
<1>1. PICK none \in Seq(Bytes) : none = <<>>
  BY EmptySeq, Zenon
<1>2. Fold(Stuffs, none, none) = none
  BY <1>1, StuffsTyped, FoldOfNone
<1> QED
  BY <1>1, <1>2, StuffedFolds, Zenon DEF Stuffed

(* The round trip, by induction over the bytes.                             *)
LEMMA StuffedUnescapes ==
  ASSUME NEW F \in Unescaping, NEW s \in Seq(Bytes)
  PROVE  /\ Stuffed(s) \in Seq(Bytes) /\ Flagless(Stuffed(s))
         /\ s # <<>> => Stuffed(s) # <<>>
         /\ \E e \in BOOLEAN : Fold(F, Plain(<<>>, FALSE), Stuffed(s)) = Plain(s, e)
<1> DEFINE T == {t \in Seq(Bytes) :
                   /\ Stuffed(t) \in Seq(Bytes) /\ Flagless(Stuffed(t))
                   /\ t # <<>> => Stuffed(t) # <<>>
                   /\ \E e \in BOOLEAN : Fold(F, Plain(<<>>, FALSE), Stuffed(t)) = Plain(t, e)}
<1>1. PICK fresh \in Accs : fresh = Plain(<<>>, FALSE)
  <2>1. <<>> \in Seq(Bytes)
    BY EmptySeq, Zenon
  <2> QED
    BY <2>1, PlainTyped, Zenon
<1>2. F \in Steps(Accs, Bytes)
  BY UnescapingTyped
<1>3. PICK none \in Seq(Bytes) : none = <<>>
  BY EmptySeq, Zenon
<1>4. <<>> \in T
  <2>1. Stuffed(none) = none /\ Flagless(none)
    BY <1>3, StuffedNone DEF Flagless
  <2>2. Fold(F, fresh, none) = fresh
    BY <1>2, <1>3, FoldOfNone
  <2>3. none \in T
    BY <1>1, <1>3, <2>1, <2>2, Zenon
  <2> QED
    BY <1>3, <2>3
<1>5. ASSUME NEW t \in T, NEW b \in Bytes
      PROVE  Append(t, b) \in T
  <2>1. /\ t \in Seq(Bytes) /\ Stuffed(t) \in Seq(Bytes) /\ Flagless(Stuffed(t))
        /\ \E e \in BOOLEAN : Fold(F, fresh, Stuffed(t)) = Plain(t, e)
    BY <1>1, Zenon
  <2>2. PICK e \in BOOLEAN : Fold(F, fresh, Stuffed(t)) = Plain(t, e)
    BY <2>1
  <2>3. PICK u \in Seq(Bytes), v \in Seq(Bytes) : u = Stuffed(t) /\ v = Escaped(b)
    BY <2>1, EscapedTyped
  <2>4. Stuffed(Append(t, b)) = u \o v
    BY <2>1, <2>3, StuffedOneMore
  <2>5. u \o v \in Seq(Bytes) /\ Flagless(u \o v) /\ u \o v # <<>>
    <3>1. Flagless(v) /\ v # <<>>
      BY <2>3, EscapedFlagless
    <3>2. u \o v # <<>>
      BY <3>1
    <3> QED
      BY <2>1, <2>3, <3>1, <3>2, FlaglessJoin
  <2>6. Fold(F, fresh, u \o v) = Fold(F, Fold(F, fresh, u), v)
    BY <1>2, FoldJoins
  <2>7. PICK r \in BOOLEAN : Fold(F, Plain(t, e), v) = Plain(Append(t, b), r)
    BY <2>1, <2>3, OneUnescaped
  <2>8. Append(t, b) \in Seq(Bytes)
    BY <2>1
  <2> QED
    BY <1>1, <2>2, <2>3, <2>4, <2>5, <2>6, <2>7, <2>8, Zenon
<1> HIDE DEF T
<1>6. T = Seq(Bytes)
  <2>1. T \in SUBSET Seq(Bytes)
    BY DEF T
  <2> QED
    BY <1>4, <1>5, <2>1, SequencesInduct
<1>7. s \in T
  BY <1>6
<1> QED
  BY <1>7, Zenon DEF T

----------------------------------------------------------------------------
(* Lines: a frame without its first flag, and what is decoded of it.        *)

Sealed(p) == p \o Crc(p)
Body(p) == Stuffed(Sealed(p))

LEMMA PartIs ==
  ASSUME NEW S, NEW d \in Seq(S), NEW m \in Nat, NEW n \in 0 .. Len(d)
  PROVE  LET p == SubSeq(d, m + 1, n)
         IN  /\ p \in Seq(S)
             /\ Len(p) = IF m <= n THEN n - m ELSE 0
             /\ \A i \in 1 .. Len(p) : p[i] = d[m + i]
<1>1. \A i \in m + 1 .. n : d[i] \in S
  OBVIOUS
<1> QED
  BY <1>1

LEMMA SealedIs ==
  ASSUME NEW p \in Payloads
  PROVE  /\ p \in Seq(Bytes) /\ Sealed(p) \in Seq(Bytes) /\ Sealed(p) # <<>>
         /\ Len(p) \in Nat /\ Len(p) > 0 /\ Len(Sealed(p)) = Len(p) + CrcLength
         /\ SubSeq(Sealed(p), 1, Len(p)) = p /\ CrcFits(Sealed(p), Len(p))
<1>1. p \in Seq(Bytes) /\ p # <<>> /\ Crc(p) \in Seq(Bytes) /\ Len(Crc(p)) = 2
  BY FramesAssumption DEF CrcLength
<1>2. PICK s : s = Sealed(p)
  OBVIOUS
<1>3. PICK c : c = Crc(p)
  OBVIOUS
<1>4. PICK m \in Nat : m = Len(p) /\ m > 0
  BY <1>1, EmptySeq
<1>5. /\ s \in Seq(Bytes) /\ Len(s) = m + 2
      /\ \A i \in 1 .. m : s[i] = p[i]
      /\ s[m + 1] = c[1] /\ s[m + 2] = c[2]
  <2>1. /\ s \in Seq(Bytes) /\ Len(s) = Len(p) + Len(c)
        /\ \A i \in 1 .. Len(p) + Len(c) :
             s[i] = IF i <= Len(p) THEN p[i] ELSE c[i - Len(p)]
    BY <1>1, <1>2, <1>3, ConcatProperties DEF Sealed
  <2>2. /\ m + 1 \in 1 .. m + 2 /\ ~(m + 1 <= m) /\ (m + 1) - m = 1
        /\ m + 2 \in 1 .. m + 2 /\ ~(m + 2 <= m) /\ (m + 2) - m = 2
    OBVIOUS
  <2>3. Len(p) = m /\ Len(c) = 2
    BY <1>1, <1>3, <1>4
  <2>4. \A i \in 1 .. m : s[i] = p[i]
    BY <2>1, <2>3
  <2> QED
    BY <2>1, <2>2, <2>3, <2>4
<1>6. SubSeq(s, 1, m) = p
  <2>1. PICK d : d = SubSeq(s, 1, m)
    OBVIOUS
  <2>2. d \in Seq(Bytes) /\ Len(d) = m /\ \A i \in 1 .. m : d[i] = s[i]
    BY <1>5, <2>1
  <2>3. d = p
    BY <1>1, <1>4, <1>5, <2>2, SeqEqual
  <2> QED
    BY <2>1, <2>3
<1>7. SubSeq(s, m + 1, m + 2) = c
  <2>1. PICK d : d = SubSeq(s, m + 1, m + 2)
    OBVIOUS
  <2>2. d \in Seq(Bytes) /\ Len(d) = 2 /\ d[1] = s[m + 1] /\ d[2] = s[m + 2]
    <3>1. m + 2 \in 0 .. Len(s) /\ m <= m + 2 /\ (m + 2) - m = 2
      BY <1>5
    <3>2. /\ d \in Seq(Bytes) /\ Len(d) = 2
          /\ \A i \in 1 .. Len(d) : d[i] = s[m + i]
      BY <1>5, <2>1, <3>1, PartIs
    <3> QED
      BY <3>2
  <2>3. \A i \in 1 .. 2 : d[i] = c[i]
    BY <1>5, <2>2
  <2>4. c \in Seq(Bytes) /\ Len(c) = 2
    BY <1>1, <1>3
  <2>5. d = c
    BY <2>2, <2>3, <2>4, SeqEqual
  <2> QED
    BY <2>1, <2>5
<1>8. s # <<>>
  BY <1>5
<1>9. CrcFits(s, m)
  BY <1>3, <1>6, <1>7, Zenon DEF CrcFits
<1>10. Len(s) = m + CrcLength
  BY <1>5 DEF CrcLength
<1> QED
  BY <1>1, <1>2, <1>4, <1>5, <1>6, <1>8, <1>9, <1>10

LEMMA BodyIs ==
  ASSUME NEW p \in Payloads
  PROVE  Body(p) \in Seq(Bytes) /\ Flagless(Body(p)) /\ Body(p) # <<>>
BY SealedIs, StuffedUnescapes DEF Body, Unescaping

LEMMA BodyUnescapes ==
  ASSUME NEW p \in Payloads, NEW F \in Unescaping
  PROVE  \E e \in BOOLEAN : Fold(F, Fresh, Body(p)) = Plain(Sealed(p), e)
<1>1. Fresh = Plain(<<>>, FALSE)
  BY DEF Fresh, Plain
<1> QED
  BY <1>1, SealedIs, StuffedUnescapes, Zenon DEF Body

(* The device's loop.                                                       *)
LEMMA DeviceUnescapes ==
  ASSUME NEW p \in Payloads
  PROVE  FoldLeft(Unescape, Fresh, Body(p)).bytes = Sealed(p)
<1>1. PICK e \in BOOLEAN : Fold(Unescapes, Fresh, Body(p)) = Plain(Sealed(p), e)
  BY BodyUnescapes, Zenon DEF Unescaping
<1>2. Fresh \in Accs
  BY EmptySeq DEF Fresh, Accs
<1>3. FoldLeft(Unescape, Fresh, Body(p)) = Fold(Unescapes, Fresh, Body(p))
  BY <1>2, BodyIs, UnescapeFolds
<1>4. Plain(Sealed(p), e).bytes = Sealed(p)
  BY DEF Plain
<1> QED
  BY <1>1, <1>3, <1>4, Zenon

(* A whole line, with one flag behind it or two.                            *)
LEMMA LineDecodes ==
  ASSUME NEW p \in Payloads, NEW past \in Bytes,
         NEW line, line = Body(p) \o <<Flag>> \/ line = Body(p) \o <<Flag, Flag>>
  PROVE  DecodePointer(line, past) = Gives(p)
<1> DEFINE F == UnescapesToFlag
<1>1. F \in Unescaping /\ F \in Steps(Accs, Bytes) /\ Flag \in Bytes
  BY UnescapesToFlagTyped, AlphabetAssumption, Zenon DEF Unescaping
<1>2. PICK x \in Seq(Bytes), s \in Seq(Bytes) :
        x = Body(p) /\ s = Sealed(p) /\ x # <<>> /\ Flagless(x)
  BY SealedIs, BodyIs
<1>3. PICK tail \in Seq(Bytes) :
        line = x \o tail /\ (tail = <<Flag>> \/ tail = <<Flag, Flag>>)
  <2>1. <<Flag>> \in Seq(Bytes) /\ <<Flag, Flag>> \in Seq(Bytes)
    BY <1>1
  <2> QED
    BY <1>2, <2>1, Zenon
<1>4. line \in Seq(Bytes) /\ Head(line) # Flag
  <2>1. /\ line \in Seq(Bytes) /\ Len(line) = Len(x) + Len(tail)
        /\ \A i \in 1 .. Len(x) + Len(tail) :
             line[i] = IF i <= Len(x) THEN x[i] ELSE tail[i - Len(x)]
    BY <1>3, ConcatProperties
  <2>2. Len(x) \in Nat \ {0} /\ Len(tail) \in Nat
    BY <1>2, EmptySeq
  <2>3. 1 \in 1 .. Len(x) + Len(tail) /\ 1 <= Len(x) /\ 1 \in 1 .. Len(x)
    BY <2>2
  <2>4. line[1] = x[1] /\ x[1] # Flag
    BY <1>2, <2>1, <2>3 DEF Flagless
  <2> QED
    BY <2>1, <2>4
<1>5. PICK e \in BOOLEAN : Fold(F, Fresh, x) = Plain(s, e)
  BY <1>1, <1>2, BodyUnescapes, Zenon
<1>6. PICK done \in Accs : done = [Plain(s, e) EXCEPT !.ended = TRUE]
  <2>1. [Plain(s, e) EXCEPT !.ended = TRUE] \in Accs
    BY DEF Plain, Accs
  <2> QED
    BY <2>1, Zenon
<1>7. done.ended /\ ~done.escaped /\ done.bytes = s /\ [done EXCEPT !.ended = TRUE] = done
  BY <1>6 DEF Plain
<1>8. Plain(s, e) \in Accs /\ ~Plain(s, e).escaped
  BY DEF Plain, Accs
<1>9. F[<<Plain(s, e), Flag>>] = done /\ F[<<done, Flag>>] = done
  <2>1. UnescapeToFlag(Plain(s, e), Flag) = done
    BY <1>6, <1>8, Zenon DEF UnescapeToFlag
  <2>2. UnescapeToFlag(done, Flag) = done
    BY <1>7, Zenon DEF UnescapeToFlag
  <2> QED
    BY <1>1, <1>6, <1>8, <2>1, <2>2, UnescapesToFlagTyped, Zenon
<1>10. Fold(F, Plain(s, e), tail) = done
  <2>1. Fold(F, Plain(s, e), <<Flag>>) = F[<<Plain(s, e), Flag>>]
    BY <1>1, <1>8, FoldOfOne
  <2>2. Fold(F, Plain(s, e), <<Flag, Flag>>) = F[<<F[<<Plain(s, e), Flag>>], Flag>>]
    BY <1>1, <1>8, FoldOfTwo
  <2> QED
    BY <1>3, <1>9, <2>1, <2>2, Zenon
<1>11. Fresh \in Accs
  BY EmptySeq DEF Fresh, Accs
<1>12. Fold(F, Fresh, line) = done
  <2>1. Fold(F, Fresh, x \o tail) = Fold(F, Fold(F, Fresh, x), tail)
    BY <1>1, <1>11, FoldJoins
  <2> QED
    BY <1>3, <1>5, <1>10, <2>1, Zenon
<1>13. FoldLeft(UnescapeToFlag, Fresh, line) = done
  BY <1>4, <1>11, <1>12, UnescapeToFlagFolds, Zenon
<1>14. Completed(done, past).bytes = s
  BY <1>7, Zenon DEF Completed
<1>15. /\ ~(Len(s) < CrcLength) /\ Len(s) - CrcLength = Len(p)
       /\ SubSeq(s, 1, Len(p)) = p /\ CrcFits(s, Len(p))
  BY <1>2, SealedIs DEF CrcLength
<1> QED
  BY <1>4, <1>13, <1>14, <1>15, Zenon DEF DecodePointer

(* A line and what comes after it.                                          *)
LEMMA JoinIs ==
  ASSUME NEW S, NEW a \in Seq(S), NEW b \in Seq(S), NEW c, c = a \o b
  PROVE  /\ c \in Seq(S)
         /\ Len(c) = Len(a) + Len(b)
         /\ \A i \in 1 .. Len(a) : c[i] = a[i]
         /\ \A i \in 1 .. Len(b) : c[Len(a) + i] = b[i]
<1>1. /\ c \in Seq(S)
      /\ Len(c) = Len(a) + Len(b)
      /\ \A i \in 1 .. Len(a) + Len(b) :
           c[i] = IF i <= Len(a) THEN a[i] ELSE b[i - Len(a)]
  BY ConcatProperties
<1>2. Len(a) \in Nat /\ Len(b) \in Nat
  OBVIOUS
<1>3. \A i \in 1 .. Len(a) : c[i] = a[i]
  BY <1>1, <1>2
<1>4. ASSUME NEW i \in 1 .. Len(b)
      PROVE  c[Len(a) + i] = b[i]
  <2>1. /\ Len(a) + i \in 1 .. Len(a) + Len(b)
        /\ ~ (Len(a) + i <= Len(a)) /\ (Len(a) + i) - Len(a) = i
    BY <1>2
  <2> QED
    BY <1>1, <2>1
<1> QED
  BY <1>1, <1>3, <1>4

(* Cut anywhere in its first part, a sequence goes on with what is left of  *)
(* that.                                                                    *)
LEMMA CutIs ==
  ASSUME NEW S, NEW a \in Seq(S), NEW b \in Seq(S), NEW c, c = a \o b,
         NEW k \in 0 .. Len(a)
  PROVE  /\ SubSeq(c, 1, k) = SubSeq(a, 1, k)
         /\ SubSeq(c, k + 1, Len(c)) = SubSeq(a, k + 1, Len(a)) \o b
<1>1. /\ c \in Seq(S) /\ Len(c) = Len(a) + Len(b)
      /\ \A i \in 1 .. Len(a) : c[i] = a[i]
      /\ \A i \in 1 .. Len(b) : c[Len(a) + i] = b[i]
  BY JoinIs
<1>2. PICK m, n \in Nat : m = Len(a) /\ n = Len(b) /\ k \in Nat /\ k <= m
  OBVIOUS
<1>3. SubSeq(c, 1, k) = SubSeq(a, 1, k)
  <2>1. PICK d, e : d = SubSeq(c, 1, k) /\ e = SubSeq(a, 1, k)
    BY Zenon
  <2>2. /\ d \in Seq(S) /\ Len(d) = k /\ \A i \in 1 .. k : d[i] = c[i]
    BY <1>1, <1>2, <2>1
  <2>3. /\ e \in Seq(S) /\ Len(e) = k /\ \A i \in 1 .. k : e[i] = a[i]
    BY <1>2, <2>1
  <2>4. \A i \in 1 .. k : d[i] = e[i]
    BY <1>1, <1>2, <2>2, <2>3
  <2>5. d = e
    BY <2>2, <2>3, <2>4, SeqEqual
  <2> QED
    BY <2>1, <2>5
<1>4. SubSeq(c, k + 1, Len(c)) = SubSeq(a, k + 1, Len(a)) \o b
  <2>1. PICK d, e : d = SubSeq(c, k + 1, Len(c)) /\ e = SubSeq(a, k + 1, Len(a))
    BY Zenon
  <2>2. PICK f : f = e \o b
    OBVIOUS
  <2>3. /\ d \in Seq(S) /\ Len(d) = (m - k) + n
        /\ \A i \in 1 .. (m - k) + n : d[i] = c[k + i]
    <3>1. Len(c) \in 0 .. Len(c) /\ k <= Len(c) /\ Len(c) - k = (m - k) + n
      BY <1>1, <1>2
    <3> QED
      BY <1>1, <1>2, <2>1, <3>1, PartIs, SMTT(60)
  <2>4. /\ e \in Seq(S) /\ Len(e) = m - k
        /\ \A i \in 1 .. m - k : e[i] = a[k + i]
    <3>1. Len(a) \in 0 .. Len(a) /\ k <= Len(a)
      BY <1>2
    <3> QED
      BY <1>2, <2>1, <3>1, PartIs, SMTT(60)
  <2>5. /\ f \in Seq(S) /\ Len(f) = (m - k) + n
        /\ \A i \in 1 .. m - k : f[i] = e[i]
        /\ \A i \in 1 .. n : f[(m - k) + i] = b[i]
    <3>1. e \in Seq(S)
      BY <2>4
    <3>2. /\ f \in Seq(S) /\ Len(f) = Len(e) + Len(b)
          /\ \A i \in 1 .. Len(e) : f[i] = e[i]
          /\ \A i \in 1 .. Len(b) : f[Len(e) + i] = b[i]
      <4> HIDE <2>4
      <4> QED
        BY <2>2, <3>1, JoinIs
    <3> QED
      BY <1>2, <2>4, <3>2
  <2>6. ASSUME NEW i \in 1 .. (m - k) + n
        PROVE  d[i] = f[i]
    <3>1. CASE i <= m - k
      <4>1. i \in 1 .. m - k /\ k + i \in 1 .. m
        BY <1>2, <3>1
      <4> QED
        BY <1>1, <1>2, <2>3, <2>4, <2>5, <4>1
    <3>2. CASE ~(i <= m - k)
      <4>1. PICK j \in 1 .. n : i = (m - k) + j /\ k + i = m + j
        <5>1. i - (m - k) \in 1 .. n /\ i = (m - k) + (i - (m - k))
              /\ k + i = m + (i - (m - k))
          BY <1>2, <3>2
        <5> QED
          BY <5>1, Zenon
      <4>2. d[i] = c[m + j] /\ c[m + j] = b[j]
        BY <1>1, <1>2, <2>3, <4>1
      <4>3. f[i] = b[j]
        BY <2>5, <4>1
      <4> QED
        BY <4>2, <4>3
    <3> QED
      BY <3>1, <3>2
  <2>7. d = f
    BY <2>3, <2>5, <2>6, SeqEqual
  <2> QED
    BY <2>1, <2>2, <2>7
<1> QED
  BY <1>3, <1>4

LEMMA FirstFlagIs ==
  ASSUME NEW y \in Seq(Bytes), Flagless(y), NEW rest \in Seq(Bytes),
         NEW line, line = (y \o <<Flag>>) \o rest
  PROVE  /\ FirstFlag(line) = Len(y) + 1
         /\ line \in Seq(Bytes) /\ line # <<>>
<1>1. PICK one \in Seq(Bytes) : one = <<Flag>> /\ Len(one) = 1 /\ one[1] = Flag
  <2>1. Flag \in Bytes
    BY AlphabetAssumption
  <2>2. <<Flag>> \in Seq(Bytes) /\ Len(<<Flag>>) = 1 /\ <<Flag>>[1] = Flag
    BY <2>1
  <2> QED
    BY <2>2, Zenon
<1>2. PICK a : a = y \o one
  OBVIOUS
<1>3. /\ a \in Seq(Bytes) /\ Len(a) = Len(y) + 1
      /\ \A i \in 1 .. Len(y) : a[i] = y[i]
      /\ a[Len(y) + 1] = Flag
  <2>1. /\ a \in Seq(Bytes) /\ Len(a) = Len(y) + Len(one)
        /\ \A i \in 1 .. Len(y) : a[i] = y[i]
        /\ \A i \in 1 .. Len(one) : a[Len(y) + i] = one[i]
    BY <1>2, JoinIs
  <2> QED
    BY <1>1, <2>1
<1>4. /\ line \in Seq(Bytes) /\ Len(line) = Len(a) + Len(rest)
      /\ \A i \in 1 .. Len(a) : line[i] = a[i]
  <2>1. line = a \o rest
    BY <1>1, <1>2
  <2> QED
    BY <1>3, <2>1, JoinIs
<1>5. PICK n \in Nat : n = Len(y) + 1 /\ n > 0 /\ Len(y) = n - 1
  OBVIOUS
<1>6. n \in DOMAIN line /\ line[n] = Flag
  <2>1. n \in 1 .. Len(a) /\ n \in 1 .. Len(line)
    BY <1>3, <1>4, <1>5
  <2> QED
    BY <1>3, <1>4, <1>5, <2>1
<1>7. ASSUME NEW i \in 1 .. n - 1
      PROVE  line[i] # Flag
  <2>1. i \in 1 .. Len(y) /\ i \in 1 .. Len(a)
    BY <1>3, <1>5
  <2>2. line[i] = y[i]
    BY <1>3, <1>4, <2>1
  <2> QED
    BY <2>1, <2>2 DEF Flagless
<1>8. PICK f : f = FirstFlag(line)
  OBVIOUS
<1>9. f \in DOMAIN line /\ line[f] = Flag /\ \A i \in 1 .. f - 1 : line[i] # Flag
  BY <1>6, <1>7, <1>8, Zenon DEF FirstFlag
<1>10. f \in Nat /\ f > 0
  BY <1>4, <1>9
<1>11. f = n
  <2>1. ~(f < n)
    BY <1>5, <1>7, <1>9, <1>10
  <2>2. ~(n < f)
    BY <1>5, <1>6, <1>9, <1>10
  <2> QED
    BY <1>5, <1>10, <2>1, <2>2
<1>12. line # <<>>
  BY <1>4, <1>6
<1> QED
  BY <1>4, <1>5, <1>8, <1>11, <1>12

----------------------------------------------------------------------------
(* Frames back to back.                                                     *)

FrameOf(opens, p) ==
  IF opens THEN <<Flag>> \o Body(p) \o <<Flag>> ELSE Body(p) \o <<Flag>>
AddsFrame(opens) == [x \in Seq(Bytes) \X Payloads |-> x[1] \o FrameOf(opens, x[2])]
Frames(opens, ps) == Fold(AddsFrame(opens), <<>>, ps)

LEMMA FrameTyped ==
  ASSUME NEW opens, NEW p \in Payloads
  PROVE  FrameOf(opens, p) \in Seq(Bytes)
<1>1. <<Flag>> \in Seq(Bytes)
  BY AlphabetAssumption
<1> QED
  BY <1>1, BodyIs DEF FrameOf

LEMMA AddsFrameTyped ==
  ASSUME NEW opens
  PROVE  /\ AddsFrame(opens) \in Steps(Seq(Bytes), Payloads)
         /\ \A a \in Seq(Bytes), p \in Payloads :
              AddsFrame(opens)[<<a, p>>] = a \o FrameOf(opens, p)
<1>1. \A a \in Seq(Bytes), p \in Payloads : a \o FrameOf(opens, p) \in Seq(Bytes)
  BY FrameTyped
<1> QED
  BY <1>1 DEF AddsFrame, Steps

LEMMA FramesTyped ==
  ASSUME NEW opens, NEW ps \in Seq(Payloads)
  PROVE  Frames(opens, ps) \in Seq(Bytes) /\ Frames(opens, <<>>) = <<>>
<1>1. PICK none \in Seq(Bytes) : none = <<>>
  BY EmptySeq, Zenon
<1>2. Fold(AddsFrame(opens), none, ps) \in Seq(Bytes)
  BY AddsFrameTyped, FoldTyped
<1>3. Fold(AddsFrame(opens), none, <<>>) = none
  BY AddsFrameTyped, FoldOfNone
<1> QED
  BY <1>1, <1>2, <1>3, Zenon DEF Frames

LEMMA FramesAppend ==
  ASSUME NEW opens, NEW ps \in Seq(Payloads), NEW p \in Payloads
  PROVE  Frames(opens, Append(ps, p)) = Frames(opens, ps) \o FrameOf(opens, p)
<1>1. PICK none \in Seq(Bytes) : none = <<>>
  BY EmptySeq, Zenon
<1>2. Fold(AddsFrame(opens), none, Append(ps, p))
        = AddsFrame(opens)[<<Fold(AddsFrame(opens), none, ps), p>>]
  BY AddsFrameTyped, FoldOneMore
<1>3. Fold(AddsFrame(opens), none, ps) \in Seq(Bytes)
  BY AddsFrameTyped, FoldTyped
<1> QED
  BY <1>1, <1>2, <1>3, AddsFrameTyped, Zenon DEF Frames

(* What is on the line before them stays there. *)
LEMMA FramesBehind ==
  ASSUME NEW opens, NEW a \in Seq(Bytes), NEW ps \in Seq(Payloads)
  PROVE  Fold(AddsFrame(opens), a, ps) = a \o Frames(opens, ps)
<1> DEFINE F == AddsFrame(opens)
           T == {qs \in Seq(Payloads) : Fold(F, a, qs) = a \o Frames(opens, qs)}
<1>1. F \in Steps(Seq(Bytes), Payloads)
  BY AddsFrameTyped
<1>2. \A x \in Seq(Bytes), p \in Payloads : F[<<x, p>>] = x \o FrameOf(opens, p)
  BY AddsFrameTyped, Zenon
<1> HIDE DEF F
<1>3. <<>> \in T
  <2>1. Fold(F, a, <<>>) = a
    BY <1>1, FoldOfNone
  <2>2. a \o <<>> = a
    OBVIOUS
  <2>3. <<>> \in Seq(Payloads)
    BY EmptySeq, Zenon
  <2>4. Frames(opens, <<>>) = <<>>
    BY <2>3, FramesTyped, Zenon
  <2> QED
    BY <2>1, <2>2, <2>3, <2>4, Zenon
<1>4. ASSUME NEW qs \in T, NEW p \in Payloads
      PROVE  Append(qs, p) \in T
  <2>1. qs \in Seq(Payloads) /\ Append(qs, p) \in Seq(Payloads)
    <3>1. qs \in Seq(Payloads)
      BY Zenon
    <3> QED
      BY <3>1, AppendProperties
  <2>2. Fold(F, a, Append(qs, p)) = F[<<Fold(F, a, qs), p>>]
    BY <1>1, <2>1, FoldOneMore
  <2>3. PICK b \in Seq(Bytes), f \in Seq(Bytes) : b = Frames(opens, qs) /\ f = FrameOf(opens, p)
    BY <2>1, FramesTyped, FrameTyped
  <2>4. Fold(F, a, qs) = a \o b
    BY <2>3, Zenon
  <2>5. a \o b \in Seq(Bytes) /\ (a \o b) \o f = a \o (b \o f)
    <3>1. a \o b \in Seq(Bytes)
      BY <2>3, ConcatProperties
    <3>2. (a \o b) \o f = a \o (b \o f)
      BY <2>3, BytesAssociate
    <3> QED
      BY <3>1, <3>2
  <2>6. Frames(opens, Append(qs, p)) = b \o f
    BY <2>1, <2>3, FramesAppend
  <2> QED
    BY <1>2, <2>1, <2>2, <2>3, <2>4, <2>5, <2>6, Zenon
<1> HIDE DEF T
<1>5. T = Seq(Payloads)
  <2>1. T \in SUBSET Seq(Payloads)
    BY DEF T
  <2> QED
    BY <1>3, <1>4, <2>1, SequencesInduct
<1>6. ps \in T
  BY <1>5
<1> QED
  BY <1>6, Zenon DEF T, F

LEMMA FramesFirst ==
  ASSUME NEW opens, NEW p \in Payloads, NEW ps \in Seq(Payloads)
  PROVE  Frames(opens, <<p>> \o ps) = FrameOf(opens, p) \o Frames(opens, ps)
<1> DEFINE F == AddsFrame(opens)
<1>1. F \in Steps(Seq(Bytes), Payloads)
  BY AddsFrameTyped
<1>2. PICK none \in Seq(Bytes) : none = <<>>
  BY EmptySeq, Zenon
<1>3. <<p>> \in Seq(Payloads)
  OBVIOUS
<1>4. PICK f \in Seq(Bytes) : f = FrameOf(opens, p)
  BY FrameTyped
<1>5. Fold(F, none, <<p>>) = f
  <2>1. Fold(F, none, <<p>>) = F[<<none, p>>]
    BY <1>1, FoldOfOne
  <2>2. F[<<none, p>>] = none \o f
    BY <1>4, AddsFrameTyped
  <2>3. none \o f = f
    BY <1>2, ConcatEmptySeq
  <2> QED
    BY <2>1, <2>2, <2>3, Zenon
<1>6. Fold(F, none, <<p>> \o ps) = Fold(F, Fold(F, none, <<p>>), ps)
  <2>1. PICK one \in Seq(Payloads) : one = <<p>>
    BY <1>3, Zenon
  <2> HIDE DEF F
  <2>2. Fold(F, none, one \o ps) = Fold(F, Fold(F, none, one), ps)
    BY <1>1, FoldJoins
  <2> QED
    BY <2>1, <2>2, Zenon
<1>7. Fold(F, f, ps) = f \o Frames(opens, ps)
  BY FramesBehind
<1> QED
  BY <1>2, <1>4, <1>5, <1>6, <1>7, Zenon DEF Frames

LEMMA OneOf ==
  ASSUME NEW S, NEW e \in S
  PROVE  <<e>> \in Seq(S) /\ Len(<<e>>) = 1 /\ <<e>>[1] = e
OBVIOUS

LEMMA ConcatEqualIffEmptyParts ==
  ASSUME NEW S, NEW s \in Seq(S), NEW t \in Seq(S), s # <<>> \/ t # <<>>
  PROVE  s \o t \in Seq(S) /\ s \o t # <<>>
OBVIOUS

LEMMA AppendBehind ==
  \A s, t \in Seq(Payloads), p \in Payloads : Append(s \o t, p) = s \o Append(t, p)
OBVIOUS

(* The bytes y, the flag behind them and the rest: what is read up to the   *)
(* flag, and up to a place before it.                                       *)
IsLine(line, y, rest) == line = (y \o <<Flag>>) \o rest

IsTaken(line, y, rest) ==
  /\ FirstFlag(line) = Len(y) + 1
  /\ SubSeq(line, 1, Len(y)) = y
  /\ SubSeq(line, 1, Len(y) + 1) = y \o <<Flag>>
  /\ SubSeq(line, (Len(y) + 1) + 1, Len(line)) = rest

IsTorn(line, y, rest) ==
  \A k \in 0 .. Len(y) :
    \E z \in Seq(Bytes) : Flagless(z) /\ IsLine(SubSeq(line, k + 1, Len(line)), z, rest)

(* Read up to its first flag, or up to a place before it, such a line       *)
(* leaves a line of the same kind, or what comes after it.                  *)
LEMMA LineCut ==
  ASSUME NEW y \in Seq(Bytes), Flagless(y), NEW rest \in Seq(Bytes),
         NEW line, IsLine(line, y, rest)
  PROVE  IsTaken(line, y, rest) /\ IsTorn(line, y, rest)
<1>1. PICK one \in Seq(Bytes) : one = <<Flag>> /\ Len(one) = 1
  <2>1. <<Flag>> \in Seq(Bytes) /\ Len(<<Flag>>) = 1
    BY AlphabetAssumption
  <2> QED
    BY <2>1, Zenon
<1>2. PICK a \in Seq(Bytes) : a = y \o one
  <2>1. y \o one \in Seq(Bytes)
    BY ConcatProperties
  <2> QED
    BY <2>1, Zenon
<1>3. PICK n \in Nat : n = Len(y) /\ Len(a) = n + 1
  BY <1>1, <1>2
<1>4. line = a \o rest
  BY <1>1, <1>2 DEF IsLine
<1>5. FirstFlag(line) = n + 1
  BY <1>3, FirstFlagIs DEF IsLine
<1>6. SubSeq(line, 1, n) = y
  <2>1. n \in 0 .. Len(a) /\ n \in 0 .. Len(y)
    BY <1>3
  <2>2. SubSeq(line, 1, n) = SubSeq(a, 1, n)
    BY <1>4, <2>1, CutIs
  <2>3. SubSeq(a, 1, n) = SubSeq(y, 1, n)
    BY <1>2, <2>1, CutIs
  <2>4. SubSeq(y, 1, n) = y
    BY <1>3
  <2> QED
    BY <2>2, <2>3, <2>4, Zenon
<1>7. /\ SubSeq(line, 1, n + 1) = a
      /\ SubSeq(line, (n + 1) + 1, Len(line)) = rest
  <2>1. PICK m \in 0 .. Len(a) : m = n + 1
    BY <1>3
  <2>2. /\ SubSeq(line, 1, n + 1) = SubSeq(a, 1, n + 1)
        /\ SubSeq(line, (n + 1) + 1, Len(line)) = SubSeq(a, (n + 1) + 1, Len(a)) \o rest
    <3>1. /\ SubSeq(line, 1, m) = SubSeq(a, 1, m)
          /\ SubSeq(line, m + 1, Len(line)) = SubSeq(a, m + 1, Len(a)) \o rest
      BY <1>4, CutIs, ZenonT(60)
    <3> QED
      BY <2>1, <3>1, Zenon
  <2>3. SubSeq(a, 1, n + 1) = a
    BY <1>3
  <2>4. SubSeq(a, (n + 1) + 1, Len(a)) = <<>>
    BY <1>3
  <2>5. <<>> \o rest = rest
    OBVIOUS
  <2> QED
    BY <2>2, <2>3, <2>4, <2>5, Zenon
<1>8. ASSUME NEW k \in 0 .. n
      PROVE  \E z \in Seq(Bytes) :
               /\ Flagless(z)
               /\ SubSeq(line, k + 1, Len(line)) = (z \o one) \o rest
  <2>1. k \in 0 .. Len(a) /\ k \in 0 .. Len(y) /\ k \in Nat
    BY <1>3
  <2>2. SubSeq(line, k + 1, Len(line)) = SubSeq(a, k + 1, Len(a)) \o rest
    BY <1>4, <2>1, CutIs, ZenonT(60)
  <2>3. SubSeq(a, k + 1, Len(a)) = SubSeq(y, k + 1, Len(y)) \o one
    BY <1>2, <2>1, CutIs, ZenonT(60)
  <2>4. PICK z : z = SubSeq(y, k + 1, Len(y))
    OBVIOUS
  <2>5. z \in Seq(Bytes) /\ Len(z) = n - k /\ \A i \in 1 .. n - k : z[i] = y[k + i]
    <3>1. n \in 0 .. Len(y) /\ k <= n
      BY <1>3
    <3> QED
      BY <1>3, <2>1, <2>4, <3>1, PartIs
  <2>6. Flagless(z)
    <3>1. ASSUME NEW i \in 1 .. n - k
          PROVE  z[i] # Flag
      <4>1. k + i \in 1 .. Len(y)
        BY <1>3, <2>1
      <4>2. z[i] = y[k + i]
        BY <2>5
      <4>3. y[k + i] # Flag
        BY <4>1 DEF Flagless
      <4> QED
        BY <4>2, <4>3
    <3> QED
      BY <2>5, <3>1 DEF Flagless
  <2> QED
    BY <2>2, <2>3, <2>4, <2>5, <2>6, Zenon
<1> QED
  BY <1>1, <1>2, <1>3, <1>5, <1>6, <1>7, <1>8, Zenon DEF IsLine, IsTaken, IsTorn

LEMMA FirstOf ==
  ASSUME NEW S, NEW s \in Seq(S), s # <<>>
  PROVE  \E e \in S, t \in Seq(S) : s = <<e>> \o t
<1>1. PICK e \in S, t \in Seq(S) :
        /\ e = s[1] /\ Len(t) = Len(s) - 1
        /\ \A i \in 1 .. Len(s) - 1 : t[i] = s[i + 1]
  <2>1. Len(s) \in Nat \ {0} /\ Len(s) > 0
    BY EmptySeq
  <2>2. s[1] \in S
    BY <2>1
  <2>3. /\ Tail(s) \in Seq(S) /\ Len(Tail(s)) = Len(s) - 1
        /\ \A i \in 1 .. Len(s) - 1 : Tail(s)[i] = s[i + 1]
    BY HeadTailProperties
  <2> QED
    BY <2>2, <2>3, Zenon
<1>2. PICK one \in Seq(S) : one = <<e>> /\ Len(one) = 1 /\ one[1] = e
  <2>1. <<e>> \in Seq(S) /\ Len(<<e>>) = 1 /\ <<e>>[1] = e
    OBVIOUS
  <2> QED
    BY <2>1, Zenon
<1>3. PICK c : c = one \o t
  OBVIOUS
<1>4. /\ c \in Seq(S) /\ Len(c) = Len(s) /\ c[1] = s[1]
      /\ \A i \in 1 .. Len(s) - 1 : c[1 + i] = s[i + 1]
  <2>1. /\ c \in Seq(S) /\ Len(c) = Len(one) + Len(t)
        /\ \A i \in 1 .. Len(one) : c[i] = one[i]
        /\ \A i \in 1 .. Len(t) : c[Len(one) + i] = t[i]
    BY <1>3, JoinIs
  <2>2. Len(s) \in Nat
    OBVIOUS
  <2> QED
    BY <1>1, <1>2, <2>1, <2>2
<1>5. ASSUME NEW i \in 1 .. Len(s)
      PROVE  c[i] = s[i]
  <2>1. CASE i = 1
    BY <1>4, <2>1
  <2>2. CASE i # 1
    <3>1. PICK j \in 1 .. Len(s) - 1 : i = 1 + j /\ i = j + 1
      <4>1. i - 1 \in 1 .. Len(s) - 1 /\ i = 1 + (i - 1) /\ i = (i - 1) + 1
        BY <2>2
      <4> QED
        BY <4>1, Zenon
    <3> QED
      BY <1>4, <3>1
  <2> QED
    BY <2>1, <2>2
<1>6. c = s
  BY <1>4, <1>5, SeqEqual
<1> QED
  BY <1>2, <1>3, <1>6

----------------------------------------------------------------------------
(* The requests on the line: frames of those that the device has not taken, *)
(* with or without the flag that opens the first of them.                   *)

AllOnLine(done, line) ==
  \E ps \in Seq(Payloads) : requests = done \o ps /\ line = Frames(TRUE, ps)

OpenedOnLine(done, line) ==
  \E p \in Payloads, ps \in Seq(Payloads) :
    /\ requests = done \o (<<p>> \o ps)
    /\ line = (Body(p) \o <<Flag>>) \o Frames(TRUE, ps)

RequestsInv ==
  /\ requests \in Seq(Payloads)
  /\ taken \in Seq(Payloads)
  /\ AllOnLine(taken, toDevice) \/ OpenedOnLine(taken, toDevice)

LEMMA EncodesFrame ==
  ASSUME NEW p \in Payloads
  PROVE  EncodeVector(p) = FrameOf(TRUE, p) /\ EncodePointer(p) = FrameOf(TRUE, p)
<1>1. p # <<>>
  BY FramesAssumption
<1>2. EncodeVector(p) = <<Flag>> \o Body(p) \o <<Flag>>
  BY Zenon DEF EncodeVector, Body, Sealed
<1> QED
  BY <1>1, <1>2, Zenon DEF FrameOf, EncodePointer

(* The frames that go behind those on the line.                             *)
LEMMA FramesBehindLine ==
  ASSUME NEW opens, NEW ps \in Seq(Payloads), NEW p \in Payloads,
         NEW x \in Seq(Bytes)
  PROVE  (x \o Frames(opens, ps)) \o FrameOf(opens, p) = x \o Frames(opens, Append(ps, p))
<1>1. PICK a, b \in Seq(Bytes) : a = Frames(opens, ps) /\ b = FrameOf(opens, p)
  BY FramesTyped, FrameTyped
<1>2. Frames(opens, Append(ps, p)) = a \o b
  BY <1>1, FramesAppend
<1>3. (x \o a) \o b = x \o (a \o b)
  BY BytesAssociate
<1> QED
  BY <1>1, <1>2, <1>3, Zenon

LEMMA WriteKeeps ==
  ASSUME RequestsInv, NEW p \in Payloads,
         requests' = Append(requests, p), toDevice' = toDevice \o FrameOf(TRUE, p),
         taken' = taken
  PROVE  RequestsInv'
<1>1. requests' \in Seq(Payloads) /\ taken' \in Seq(Payloads)
  BY DEF RequestsInv
<1>2. CASE AllOnLine(taken, toDevice)
  <2>1. PICK ps \in Seq(Payloads) : requests = taken \o ps /\ toDevice = Frames(TRUE, ps)
    BY <1>2 DEF AllOnLine
  <2>2. PICK qs \in Seq(Payloads) : qs = Append(ps, p)
    <3>1. Append(ps, p) \in Seq(Payloads)
      BY AppendProperties
    <3> QED
      BY <3>1, Zenon
  <2>3. requests' = taken' \o qs
    <3>1. Append(taken \o ps, p) = taken \o Append(ps, p)
      <4>1. taken \in Seq(Payloads)
        BY DEF RequestsInv
      <4> QED
        BY <4>1, AppendBehind
    <3> QED
      BY <2>1, <2>2, <3>1
  <2>4. toDevice' = Frames(TRUE, qs)
    BY <2>1, <2>2, FramesAppend
  <2> QED
    BY <1>1, <2>3, <2>4 DEF RequestsInv, AllOnLine
<1>3. CASE OpenedOnLine(taken, toDevice)
  <2>1. PICK q \in Payloads, ps \in Seq(Payloads) :
          /\ requests = taken \o (<<q>> \o ps)
          /\ toDevice = (Body(q) \o <<Flag>>) \o Frames(TRUE, ps)
    BY <1>3 DEF OpenedOnLine
  <2>2. PICK qs \in Seq(Payloads) : qs = Append(ps, p)
    <3>1. Append(ps, p) \in Seq(Payloads)
      BY AppendProperties
    <3> QED
      BY <3>1, Zenon
  <2>3. requests' = taken' \o (<<q>> \o qs)
    <3>1. Append(taken \o (<<q>> \o ps), p) = taken \o (<<q>> \o Append(ps, p))
      <4>1. PICK one \in Seq(Payloads) : one = <<q>>
        BY OneOf, Zenon
      <4>2. taken \in Seq(Payloads)
        BY DEF RequestsInv
      <4>3. one \o ps \in Seq(Payloads)
        BY ConcatProperties
      <4>4. Append(taken \o (one \o ps), p) = taken \o Append(one \o ps, p)
        BY <4>2, <4>3, AppendBehind
      <4>5. Append(one \o ps, p) = one \o Append(ps, p)
        BY AppendBehind
      <4> QED
        BY <4>1, <4>4, <4>5, Zenon
    <3> QED
      BY <2>1, <2>2, <3>1
  <2>4. toDevice' = (Body(q) \o <<Flag>>) \o Frames(TRUE, qs)
    <3>1. PICK x \in Seq(Bytes) : x = Body(q) \o <<Flag>>
      BY FrameTyped, Zenon DEF FrameOf
    <3>2. (x \o Frames(TRUE, ps)) \o FrameOf(TRUE, p) = x \o Frames(TRUE, Append(ps, p))
      BY FramesBehindLine
    <3> QED
      BY <2>1, <2>2, <3>1, <3>2, Zenon
  <2> QED
    BY <1>1, <2>3, <2>4 DEF RequestsInv, OpenedOnLine
<1> QED
  BY <1>2, <1>3 DEF RequestsInv

LEMMA SplitPayload ==
  \A done, ps \in Seq(Payloads), p \in Payloads :
    done \o (<<p>> \o ps) = Append(done, p) \o ps
<1>1. ASSUME NEW done \in Seq(Payloads), NEW ps \in Seq(Payloads), NEW p \in Payloads
      PROVE  done \o (<<p>> \o ps) = Append(done, p) \o ps
  <2>1. PICK one \in Seq(Payloads) : one = <<p>>
    BY OneOf, Zenon
  <2>2. Append(done, p) = done \o one
    BY <2>1, AppendIsConcat
  <2>3. (done \o one) \o ps = done \o (one \o ps)
    BY ConcatAssociative
  <2> QED
    BY <2>1, <2>2, <2>3, Zenon
<1> QED
  BY <1>1

LEMMA FlagIs == <<Flag>> \in Seq(Bytes) /\ Flagless(<<>>) /\ <<>> \o <<Flag>> = <<Flag>>
<1>1. <<Flag>> \in Seq(Bytes)
  BY AlphabetAssumption
<1>2. Flagless(<<>>)
  BY DEF Flagless
<1> QED
  BY <1>1, <1>2

(* The first of the frames, with what comes before its first flag.          *)
LEMMA FramesOpen ==
  ASSUME NEW ps \in Seq(Payloads), Frames(TRUE, ps) # <<>>
  PROVE  \E p \in Payloads, qs \in Seq(Payloads), rest \in Seq(Bytes) :
           /\ ps = <<p>> \o qs
           /\ rest = (Body(p) \o <<Flag>>) \o Frames(TRUE, qs)
           /\ Frames(TRUE, ps) = (<<>> \o <<Flag>>) \o rest
<1>1. ps # <<>>
  BY FramesTyped
<1>2. PICK p \in Payloads, qs \in Seq(Payloads) : ps = <<p>> \o qs
  BY <1>1, FirstOf
<1>3. PICK one, x, b \in Seq(Bytes) :
        one = <<Flag>> /\ x = Body(p) \o <<Flag>> /\ b = Frames(TRUE, qs)
  <2>1. Body(p) \o <<Flag>> \in Seq(Bytes)
    BY BodyIs, FlagIs, ConcatProperties
  <2>2. Frames(TRUE, qs) \in Seq(Bytes)
    BY FramesTyped
  <2> QED
    BY <2>1, <2>2, FlagIs, Zenon
<1>4. Frames(TRUE, ps) = FrameOf(TRUE, p) \o b
  BY <1>2, <1>3, FramesFirst
<1>5. FrameOf(TRUE, p) = one \o x
  <2>1. PICK y \in Seq(Bytes) : y = Body(p)
    BY BodyIs
  <2>2. (one \o y) \o one = one \o (y \o one)
    BY BytesAssociate
  <2> QED
    BY <1>3, <2>1, <2>2, Zenon DEF FrameOf
<1>6. (one \o x) \o b = one \o (x \o b)
  BY BytesAssociate
<1>7. x \o b \in Seq(Bytes)
  BY ConcatProperties
<1> QED
  BY <1>2, <1>3, <1>4, <1>5, <1>6, <1>7, FlagIs, Zenon

LEMMA NothingUnescaped == FoldLeft(Unescape, Fresh, <<>>).bytes = <<>>
<1>1. Fresh \in Accs
  BY EmptySeq DEF Fresh, Accs
<1>2. PICK none \in Seq(Bytes) : none = <<>>
  BY EmptySeq, Zenon
<1>3. FoldLeft(Unescape, Fresh, none) = Fold(Unescapes, Fresh, none)
  BY <1>1, UnescapeFolds
<1>4. Fold(Unescapes, Fresh, <<>>) = Fresh
  BY <1>1, UnescapesTyped, FoldOfNone
<1>5. Fresh.bytes = <<>>
  BY DEF Fresh
<1> QED
  BY <1>2, <1>3, <1>4, <1>5, Zenon

LEMMA DeviceTakesKeeps ==
  ASSUME RequestsInv, DeviceTakes
  PROVE  RequestsInv'
<1>1. PICK n : n = FirstFlag(toDevice)
  OBVIOUS
<1>2. PICK bytes : bytes = FoldLeft(Unescape, Fresh, SubSeq(toDevice, 1, n - 1)).bytes
  OBVIOUS
<1>3. PICK size : size = Len(bytes) - CrcLength
  OBVIOUS
<1>4. /\ toDevice # <<>>
      /\ toDevice' = SubSeq(toDevice, n + 1, Len(toDevice))
      /\ taken' = IF size > 0 /\ CrcFits(bytes, size)
                  THEN Append(taken, SubSeq(bytes, 1, size)) ELSE taken
      /\ requests' = requests
  BY <1>1, <1>2, <1>3, Zenon DEF DeviceTakes
<1>5. requests \in Seq(Payloads) /\ taken \in Seq(Payloads)
  BY DEF RequestsInv
<1>6. CASE AllOnLine(taken, toDevice)
  <2>1. PICK ps \in Seq(Payloads) : requests = taken \o ps /\ toDevice = Frames(TRUE, ps)
    BY <1>6 DEF AllOnLine
  <2>2. PICK p \in Payloads, qs \in Seq(Payloads), rest \in Seq(Bytes) :
          /\ ps = <<p>> \o qs
          /\ rest = (Body(p) \o <<Flag>>) \o Frames(TRUE, qs)
          /\ toDevice = (<<>> \o <<Flag>>) \o rest
    BY <1>4, <2>1, FramesOpen, Zenon
  <2>3. PICK y \in Seq(Bytes) : y = <<>> /\ Flagless(y)
    BY FlagIs, EmptySeq, Zenon
  <2>4. PICK m \in Nat : m = Len(y) /\ m = 0
    BY <2>3
  <2>5. /\ n = m + 1 /\ SubSeq(toDevice, 1, m) = y
        /\ SubSeq(toDevice, (m + 1) + 1, Len(toDevice)) = rest
    <3>1. toDevice = (y \o <<Flag>>) \o rest
      BY <2>2, <2>3, Zenon
    <3>2. PICK line : line = toDevice
      OBVIOUS
    <3>3. y \in Seq(Bytes) /\ rest \in Seq(Bytes)
      BY <2>2, <2>3
    <3>4. IsLine(line, y, rest)
      BY <3>1, <3>2, Zenon DEF IsLine
    <3>5. /\ FirstFlag(line) = Len(y) + 1 /\ SubSeq(line, 1, Len(y)) = y
          /\ SubSeq(line, (Len(y) + 1) + 1, Len(line)) = rest
      <4>1. IsTaken(line, y, rest)
        BY <2>3, <3>3, <3>4, LineCut
      <4> QED
        BY <4>1, Zenon DEF IsTaken
    <3> QED
      BY <1>1, <2>4, <3>2, <3>5, Zenon
  <2>6. n - 1 = m
    BY <2>4, <2>5
  <2>7. bytes = <<>>
    BY <1>2, <2>3, <2>5, <2>6, NothingUnescaped, Zenon
  <2>8. ~(size > 0)
    BY <1>3, <2>7 DEF CrcLength
  <2>9. taken' = taken /\ toDevice' = rest
    BY <1>4, <2>5, <2>8, Zenon
  <2>10. OpenedOnLine(taken, toDevice)'
    BY <1>4, <2>1, <2>2, <2>9, Zenon DEF OpenedOnLine
  <2> QED
    BY <1>4, <1>5, <2>9, <2>10, Zenon DEF RequestsInv
<1>7. CASE OpenedOnLine(taken, toDevice)
  <2>1. PICK p \in Payloads, ps \in Seq(Payloads) :
          /\ requests = taken \o (<<p>> \o ps)
          /\ toDevice = (Body(p) \o <<Flag>>) \o Frames(TRUE, ps)
    BY <1>7 DEF OpenedOnLine
  <2>2. PICK y, rest \in Seq(Bytes) : y = Body(p) /\ rest = Frames(TRUE, ps) /\ Flagless(y)
    BY BodyIs, FramesTyped
  <2>3. PICK m \in Nat : m = Len(y)
    BY <2>2
  <2>4. /\ n = m + 1 /\ SubSeq(toDevice, 1, m) = y
        /\ SubSeq(toDevice, (m + 1) + 1, Len(toDevice)) = rest
    <3>1. toDevice = (y \o <<Flag>>) \o rest
      BY <2>1, <2>2, Zenon
    <3>2. PICK line : line = toDevice
      OBVIOUS
    <3>3. y \in Seq(Bytes) /\ rest \in Seq(Bytes)
      BY <2>2, <2>3
    <3>4. IsLine(line, y, rest)
      BY <3>1, <3>2, Zenon DEF IsLine
    <3>5. /\ FirstFlag(line) = Len(y) + 1 /\ SubSeq(line, 1, Len(y)) = y
          /\ SubSeq(line, (Len(y) + 1) + 1, Len(line)) = rest
      <4>1. IsTaken(line, y, rest)
        BY <2>2, <3>3, <3>4, LineCut
      <4> QED
        BY <4>1, Zenon DEF IsTaken
    <3> QED
      BY <1>1, <2>3, <3>2, <3>5, Zenon
  <2>5. n - 1 = m
    BY <2>3, <2>4
  <2>6. bytes = Sealed(p)
    BY <1>2, <2>2, <2>4, <2>5, DeviceUnescapes, Zenon
  <2>7. /\ size = Len(p) /\ size > 0
        /\ CrcFits(bytes, size) /\ SubSeq(bytes, 1, size) = p
    <3>1. size = Len(p) /\ size > 0
      BY <1>3, <2>6, SealedIs DEF CrcLength
    <3> QED
      BY <2>6, <3>1, SealedIs, Zenon
  <2>8. taken' = Append(taken, p) /\ toDevice' = rest
    BY <1>4, <2>4, <2>7, Zenon
  <2>9. requests' = taken' \o ps
    <3>1. taken \o (<<p>> \o ps) = Append(taken, p) \o ps
      BY <1>5, SplitPayload
    <3> QED
      BY <1>4, <2>1, <2>8, <3>1, Zenon
  <2>10. AllOnLine(taken, toDevice)'
    BY <2>2, <2>8, <2>9, Zenon DEF AllOnLine
  <2>11. taken' \in Seq(Payloads) /\ requests' \in Seq(Payloads)
    <3>1. Append(taken, p) \in Seq(Payloads)
      BY <1>5, AppendProperties
    <3> QED
      BY <1>4, <1>5, <2>8, <3>1, Zenon
  <2> QED
    BY <2>10, <2>11, Zenon DEF RequestsInv
<1> QED
  BY <1>6, <1>7 DEF RequestsInv

LEMMA RequestsInit == Init => RequestsInv
<1> SUFFICES ASSUME Init PROVE RequestsInv
  OBVIOUS
<1>1. PICK none \in Seq(Payloads) : none = <<>>
  BY EmptySeq, Zenon
<1>2. requests = none /\ taken = none /\ toDevice = <<>> /\ none \o none = none
  BY <1>1 DEF Init
<1>3. Frames(TRUE, none) = <<>>
  BY <1>1, FramesTyped, Zenon
<1>4. AllOnLine(taken, toDevice)
  BY <1>2, <1>3, Zenon DEF AllOnLine
<1> QED
  BY <1>2, <1>4, Zenon DEF RequestsInv

LEMMA RequestsNext == RequestsInv /\ [Next]_vars => RequestsInv'
<1> SUFFICES ASSUME RequestsInv, [Next]_vars PROVE RequestsInv'
  OBVIOUS
<1>1. ASSUME Write PROVE RequestsInv'
  <2>1. PICK p \in Payloads : \/ WriteEncoded(p, EncodePointer(p))
                              \/ WriteEncoded(p, EncodeVector(p))
    BY <1>1 DEF Write
  <2>2. WriteEncoded(p, FrameOf(TRUE, p))
    BY <2>1, EncodesFrame, Zenon
  <2> QED
    BY <2>2, WriteKeeps DEF WriteEncoded
<1>2. ASSUME DeviceTakes PROVE RequestsInv'
  BY <1>2, DeviceTakesKeeps
<1>3. ASSUME UNCHANGED requestVars PROVE RequestsInv'
  BY <1>3 DEF RequestsInv, AllOnLine, OpenedOnLine, requestVars
<1>4. CASE DeviceSends \/ ReadToFlag \/ ReadTimesOut \/ UNCHANGED vars
  <2>1. UNCHANGED requestVars
    BY <1>4 DEF DeviceSends, ReadToFlag, ReadTimesOut, vars, requestVars
  <2> QED
    BY <2>1, <1>3
<1> QED
  BY <1>1, <1>2, <1>4 DEF Next

LEMMA RequestsInvArrive == RequestsInv => RequestsArrive
<1> SUFFICES ASSUME RequestsInv PROVE RequestsArrive
  OBVIOUS
<1>1. requests \in Seq(Payloads) /\ taken \in Seq(Payloads)
  BY DEF RequestsInv
<1>2. ASSUME NEW ps \in Seq(Payloads), requests = taken \o ps
      PROVE  IsPrefix(taken, requests)
  <2>1. PICK m, n \in Nat : m = Len(taken) /\ n = Len(ps)
    BY <1>1
  <2>2. Len(requests) = m + n /\ \A i \in 1 .. m : requests[i] = taken[i]
    BY <1>1, <1>2, <2>1, JoinIs
  <2>3. SubSeq(requests, 1, m) = SubSeq(taken, 1, m)
    <3>1. m \in 0 .. Len(taken)
      BY <2>1
    <3> QED
      BY <1>1, <1>2, <3>1, CutIs, ZenonT(60)
  <2> QED
    BY <2>1, <2>2, <2>3 DEF IsPrefix
<1>3. CASE AllOnLine(taken, toDevice)
  <2>1. PICK ps \in Seq(Payloads) : requests = taken \o ps /\ toDevice = Frames(TRUE, ps)
    BY <1>3 DEF AllOnLine
  <2>2. ASSUME toDevice = <<>> PROVE taken = requests
    <3>1. ps = <<>>
      <4>1. SUFFICES ASSUME ps # <<>> PROVE FALSE
        OBVIOUS
      <4>2. PICK p \in Payloads, qs \in Seq(Payloads) : ps = <<p>> \o qs
        BY <4>1, FirstOf
      <4>3. PICK f, b \in Seq(Bytes) :
              f = FrameOf(TRUE, p) /\ b = Frames(TRUE, qs) /\ f # <<>>
        <5>1. FrameOf(TRUE, p) # <<>>
          <6>1. PICK y, one \in Seq(Bytes) : y = Body(p) /\ one = <<Flag>> /\ y # <<>>
            BY BodyIs, FlagIs
          <6>2. (one \o y) \o one # <<>>
            BY <6>1, ConcatEqualIffEmptyParts
          <6> QED
            BY <6>1, <6>2, Zenon DEF FrameOf
        <5> QED
          BY <5>1, FrameTyped, FramesTyped
      <4>4. toDevice = f \o b
        BY <2>1, <4>2, <4>3, FramesFirst
      <4> QED
        BY <2>2, <4>3, <4>4, ConcatEqualIffEmptyParts
    <3> QED
      BY <1>1, <2>1, <3>1
  <2> QED
    BY <1>2, <2>1, <2>2 DEF RequestsArrive
<1>4. CASE OpenedOnLine(taken, toDevice)
  <2>1. PICK p \in Payloads, ps \in Seq(Payloads) :
          /\ requests = taken \o (<<p>> \o ps)
          /\ toDevice = (Body(p) \o <<Flag>>) \o Frames(TRUE, ps)
    BY <1>4 DEF OpenedOnLine
  <2>2. toDevice # <<>>
    <3>1. PICK y, rest \in Seq(Bytes) : y = Body(p) /\ rest = Frames(TRUE, ps) /\ Flagless(y)
      BY BodyIs, FramesTyped
    <3> QED
      BY <2>1, <3>1, FirstFlagIs, Zenon
  <2>3. PICK qs \in Seq(Payloads) : qs = <<p>> \o ps
    <3>1. <<p>> \in Seq(Payloads)
      BY OneOf
    <3> QED
      BY <3>1, ConcatProperties
  <2> QED
    BY <1>2, <2>1, <2>2, <2>3, Zenon DEF RequestsArrive
<1> QED
  BY <1>3, <1>4 DEF RequestsInv

(* Whatever bytes they hold, requests reach the device one by one and       *)
(* unchanged: the frames of HdlcEncoder::encode, back to back on the line,  *)
(* are taken apart at the flags between them and nowhere else.              *)
THEOREM RequestsArriveHolds == Spec => []RequestsArrive
<1>1. RequestsInv /\ [Next]_vars => RequestsInv'
  BY RequestsNext
<1> QED
  BY RequestsInit, <1>1, RequestsInvArrive, PTL DEF Spec

----------------------------------------------------------------------------
(* What reads return.                                                       *)

Gots == [how : {"data", "crash", "undefined"}, data : Seq(Bytes)]

LEMMA GivesTyped ==
  /\ Crashes \in Gots
  /\ \A s \in Seq(Bytes) : Gives(s) \in Gots
<1>1. Crashes \in Gots
  BY EmptySeq DEF Crashes, Gots
<1>2. \A s \in Seq(Bytes) : Gives(s) \in Gots
  BY DEF Gives, Gots
<1> QED
  BY <1>1, <1>2

(* The payload and its checksum, or the payload alone.                      *)
LEMMA TrimmedTyped ==
  ASSUME NEW bytes \in Seq(Bytes), NEW n \in 0 .. Len(bytes)
  PROVE  Gives(IF CrcFits(bytes, n) THEN SubSeq(bytes, 1, n) ELSE bytes) \in Gots
<1>1. SubSeq(bytes, 1, n) \in Seq(Bytes)
  OBVIOUS
<1> QED
  BY <1>1, GivesTyped, Zenon

LEMMA DecodePointerTyped ==
  ASSUME NEW line \in Seq(Bytes), line # <<>>, NEW past \in Bytes
  PROVE  DecodePointer(line, past) \in Gots
<1>1. PICK body \in Seq(Bytes) :
        body = IF Head(line) = Flag THEN Tail(line) ELSE line
  <2>1. Tail(line) \in Seq(Bytes)
    BY HeadTailProperties
  <2> QED
    BY <2>1, Zenon
<1>2. PICK acc \in Accs : acc = FoldLeft(UnescapeToFlag, Fresh, body)
  <2>1. Fresh \in Accs
    BY EmptySeq DEF Fresh, Accs
  <2>2. Fold(UnescapesToFlag, Fresh, body) \in Accs
    BY <2>1, UnescapesToFlagTyped, FoldTyped
  <2> QED
    BY <2>1, <2>2, UnescapeToFlagFolds, Zenon
<1>3. PICK done \in Accs : done = Completed(acc, past)
  BY UnescapeTyped, Zenon DEF Completed
<1>4. PICK bytes \in Seq(Bytes) : bytes = done.bytes
  BY DEF Accs
<1>5. PICK n : n = Len(bytes) - CrcLength
  OBVIOUS
<1>6. DecodePointer(line, past) =
        IF Len(bytes) < CrcLength THEN Crashes
        ELSE Gives(IF CrcFits(bytes, n) THEN SubSeq(bytes, 1, n) ELSE bytes)
  BY <1>1, <1>2, <1>3, <1>4, <1>5, Zenon DEF DecodePointer
<1>7. ASSUME ~(Len(bytes) < CrcLength)
      PROVE  n \in 0 .. Len(bytes)
  BY <1>5, <1>7 DEF CrcLength
<1> QED
  BY <1>6, <1>7, GivesTyped, TrimmedTyped, Zenon

LEMMA DecodeVectorTyped ==
  ASSUME NEW line \in Seq(Bytes), NEW past \in Bytes
  PROVE  DecodeVector(line, past) \in Gots
<1>1. PICK all \in Accs : all = FoldLeft(Unescape, Fresh, line)
  <2>1. Fresh \in Accs
    BY EmptySeq DEF Fresh, Accs
  <2>2. Fold(Unescapes, Fresh, line) \in Accs
    BY <2>1, UnescapesTyped, FoldTyped
  <2> QED
    BY <2>1, <2>2, UnescapeFolds, Zenon
<1>2. PICK opens \in BOOLEAN :
        opens = (all.bytes # <<>> /\ Head(all.bytes) = Flag)
  OBVIOUS
<1>3. PICK bytes \in Seq(Bytes) :
        bytes = IF opens THEN Tail(all.bytes) ELSE all.bytes
  <2>1. all.bytes \in Seq(Bytes)
    BY DEF Accs
  <2>2. opens => Tail(all.bytes) \in Seq(Bytes)
    BY <1>2, <2>1, HeadTailProperties
  <2> QED
    BY <2>1, <2>2, Zenon
<1>4. PICK end : end = IF all.erased \/ opens THEN Last(line) ELSE past
  OBVIOUS
<1>5. PICK extra \in {0, 1} : extra = IF end = Flag THEN 1 ELSE 0
  OBVIOUS
<1>6. PICK n : n = Len(bytes) - (CrcLength + extra)
  OBVIOUS
<1>7. DecodeVector(line, past) =
        IF all.escaped \/ Len(bytes) < CrcLength + extra
        THEN Crashes
        ELSE Gives(IF CrcFits(bytes, n) THEN SubSeq(bytes, 1, n) ELSE bytes)
  BY <1>1, <1>2, <1>3, <1>4, <1>5, <1>6, Zenon DEF DecodeVector
<1>8. ASSUME ~(Len(bytes) < CrcLength + extra)
      PROVE  n \in 0 .. Len(bytes)
  BY <1>5, <1>6, <1>8 DEF CrcLength
<1> QED
  BY <1>7, <1>8, GivesTyped, TrimmedTyped, Zenon

LastTyped == last.sent \in Seq(Bytes) /\ last.got \in Gots

LEMMA ReturnsWhole ==
  ASSUME NEW line \in Seq(Bytes), line # <<>>, NEW whole \in BOOLEAN,
         NEW sent \in Seq(Bytes), Returns(line, whole, sent),
         whole => \A past \in Bytes : DecodePointer(line, past) = Gives(sent)
  PROVE  LastTyped' /\ PointerReadDelivers'
<1>0. PICK size \in Sizes, call \in Calls :
        \E got \in Outcomes(call, line, size) :
          last' = [call |-> call, got |-> got, sent |-> sent,
                   whole |-> whole /\ (call = "pointer" => Len(line) <= size)]
  BY Zenon DEF Returns
<1>1. PICK got \in Outcomes(call, line, size) :
        last' = [call |-> call, got |-> got, sent |-> sent,
                 whole |-> whole /\ (call = "pointer" => Len(line) <= size)]
  BY <1>0
<1>2. PICK past \in Bytes :
        got = IF call = "pointer" THEN PointerRead(line, size, past)
                                  ELSE VectorRead(line, past)
  BY <1>1, Zenon DEF Outcomes
<1>3. Len(line) \in Nat /\ size \in Nat
  BY <1>0, FramesAssumption
<1>4. /\ last'.call = call /\ last'.got = got /\ last'.sent = sent
      /\ last'.whole = (whole /\ (call = "pointer" => Len(line) <= size))
  BY <1>1
<1>5. got \in Gots
  <2>1. PointerRead(line, size, past) \in Gots
    <3>1. [how |-> "undefined", data |-> <<>>] \in Gots
      BY EmptySeq DEF Gots
    <3> QED
      BY <3>1, DecodePointerTyped, Zenon DEF PointerRead
  <2>2. VectorRead(line, past) \in Gots
    BY DecodeVectorTyped, Zenon DEF VectorRead
  <2> QED
    BY <1>2, <2>1, <2>2, Zenon
<1>6. ASSUME call = "pointer", whole, Len(line) <= size
      PROVE  got = Gives(sent)
  <2>1. ~(Len(line) > size)
    BY <1>3, <1>6
  <2> QED
    BY <1>2, <1>6, <2>1, Zenon DEF PointerRead
<1> QED
  BY <1>4, <1>5, <1>6, Zenon DEF LastTyped, PointerReadDelivers

(* The line of a read that ended with a flag: it was put there once or      *)
(* twice.                                                                   *)
LEMMA LineOfFlag ==
  ASSUME NEW y \in Seq(Bytes), NEW bytes, bytes = y \o <<Flag>>, keepsFlag \in BOOLEAN
  PROVE  /\ Line(bytes, TRUE) \in Seq(Bytes) /\ Line(bytes, TRUE) # <<>>
         /\ Line(bytes, TRUE) = y \o <<Flag>> \/ Line(bytes, TRUE) = y \o <<Flag, Flag>>
<1>1. PICK one \in Seq(Bytes) : one = <<Flag>> /\ Len(one) = 1 /\ one # <<>>
  BY FlagIs
<1>2. bytes \in Seq(Bytes) /\ Len(bytes) = Len(y) + 1
  BY <1>1
<1>3. CASE keepsFlag
  <2>1. Line(bytes, TRUE) = bytes \o one
    BY <1>1, <1>3, Zenon DEF Line
  <2>2. bytes \o one = y \o (one \o one)
    BY <1>1, BytesAssociate
  <2>3. one \o one = <<Flag, Flag>>
    <3>1. PICK two : two = <<Flag, Flag>>
      OBVIOUS
    <3>2. Flag \in Bytes
      BY AlphabetAssumption
    <3>3. two \in Seq(Bytes) /\ Len(two) = 2 /\ two[1] = Flag /\ two[2] = Flag
      BY <3>1, <3>2
    <3>4. PICK c : c = one \o one
      OBVIOUS
    <3>5. one[1] = Flag
      BY <1>1
    <3>6. c \in Seq(Bytes) /\ Len(c) = 2 /\ c[1] = Flag /\ c[2] = Flag
      BY <1>1, <3>4, <3>5
    <3>7. \A i \in 1 .. 2 : c[i] = two[i]
      BY <3>3, <3>6
    <3>8. c = two
      BY <3>3, <3>6, <3>7, SeqEqual
    <3> QED
      BY <3>1, <3>4, <3>8, Zenon
  <2>4. bytes \o one \in Seq(Bytes) /\ bytes \o one # <<>>
    BY <1>1, <1>2, ConcatEqualIffEmptyParts
  <2> QED
    BY <2>1, <2>2, <2>3, <2>4, Zenon
<1>4. CASE ~keepsFlag
  <2>1. SubSeq(bytes, 1, Len(bytes) - 1) = y
    <3>1. Len(bytes) - 1 = Len(y) /\ Len(y) \in 0 .. Len(y)
      BY <1>2
    <3>2. SubSeq(bytes, 1, Len(y)) = SubSeq(y, 1, Len(y))
      BY <1>1, <3>1, CutIs, ZenonT(60)
    <3>3. SubSeq(y, 1, Len(y)) = y
      OBVIOUS
    <3> QED
      BY <3>1, <3>2, <3>3, Zenon
  <2>2. Line(bytes, TRUE) = y \o one
    BY <1>1, <1>4, <2>1, Zenon DEF Line
  <2>3. y \o one \in Seq(Bytes) /\ y \o one # <<>>
    BY <1>1, ConcatEqualIffEmptyParts
  <2> QED
    BY <1>1, <2>2, <2>3, Zenon
<1> QED
  BY <1>3, <1>4

LEMMA LineOfNone ==
  ASSUME NEW bytes \in Seq(Bytes)
  PROVE  Line(bytes, FALSE) \in Seq(Bytes) /\ Line(bytes, FALSE) # <<>>
<1>1. PICK one \in Seq(Bytes) : one = <<Flag>> /\ one # <<>>
  BY FlagIs
<1>2. Line(bytes, FALSE) = bytes \o one
  BY <1>1, Zenon DEF Line
<1> QED
  BY <1>1, <1>2, ConcatEqualIffEmptyParts

----------------------------------------------------------------------------
(* The answers that no read has ended behind: their frames, of which the    *)
(* first may have lost its beginning.                                       *)

WholeWaiting(ps) == ~torn /\ toHost = Frames(FALSE, ps)

TornWaiting(ps) ==
  /\ torn
  /\ \E p \in Payloads, qs \in Seq(Payloads), y \in Seq(Bytes) :
       ps = <<p>> \o qs /\ Flagless(y) /\ IsLine(toHost, y, Frames(FALSE, qs))

AnswersInv ==
  /\ keepsFlag \in BOOLEAN
  /\ torn \in BOOLEAN
  /\ answers \in Seq(Payloads)
  /\ \E done, ps \in Seq(Payloads) :
       /\ answers = done \o ps /\ heard = Len(done)
       /\ WholeWaiting(ps) \/ TornWaiting(ps)

ReadsInv == AnswersInv /\ LastTyped /\ PointerReadDelivers

(* The line that is read next.                                              *)
NextLine(done, p, qs, y) ==
  /\ answers = done \o (<<p>> \o qs)
  /\ heard = Len(done)
  /\ Flagless(y)
  /\ IsLine(toHost, y, Frames(FALSE, qs))
  /\ ~torn => y = Body(p)

LEMMA NextLineIs ==
  ASSUME AnswersInv, toHost # <<>>
  PROVE  \E done, qs \in Seq(Payloads), p \in Payloads, y \in Seq(Bytes) :
           NextLine(done, p, qs, y)
<1>1. PICK done, ps \in Seq(Payloads) :
        /\ answers = done \o ps /\ heard = Len(done)
        /\ WholeWaiting(ps) \/ TornWaiting(ps)
  BY DEF AnswersInv
<1>2. CASE WholeWaiting(ps)
  <2>1. ps # <<>>
    BY <1>2, FramesTyped DEF WholeWaiting
  <2>2. PICK p \in Payloads, qs \in Seq(Payloads) : ps = <<p>> \o qs
    BY <2>1, FirstOf
  <2>3. toHost = FrameOf(FALSE, p) \o Frames(FALSE, qs)
    BY <1>2, <2>2, FramesFirst DEF WholeWaiting
  <2>4. IsLine(toHost, Body(p), Frames(FALSE, qs))
    BY <2>3, Zenon DEF IsLine, FrameOf
  <2>5. PICK y \in Seq(Bytes) : y = Body(p) /\ Flagless(y)
    BY BodyIs
  <2>6. NextLine(done, p, qs, y)
    BY <1>1, <2>2, <2>4, <2>5, Zenon DEF NextLine
  <2> QED
    BY <2>6
<1>3. CASE TornWaiting(ps)
  BY <1>1, <1>3, Zenon DEF TornWaiting, NextLine
<1> QED
  BY <1>1, <1>2, <1>3

LEMMA NthAnswer ==
  ASSUME NEW done \in Seq(Payloads), NEW qs \in Seq(Payloads), NEW p \in Payloads,
         NEW all, all = done \o (<<p>> \o qs)
  PROVE  /\ all[Len(done) + 1] = p
         /\ all = Append(done, p) \o qs
         /\ Append(done, p) \in Seq(Payloads) /\ Len(Append(done, p)) = Len(done) + 1
<1>1. PICK d \in Seq(Payloads) :
        d = Append(done, p) /\ Len(d) = Len(done) + 1 /\ d[Len(done) + 1] = p
  <2>1. /\ Append(done, p) \in Seq(Payloads)
        /\ Len(Append(done, p)) = Len(done) + 1
        /\ Append(done, p)[Len(done) + 1] = p
    BY AppendProperties
  <2> QED
    BY <2>1, Zenon
<1>2. all = d \o qs
  BY <1>1, SplitPayload, Zenon
<1>3. \A i \in 1 .. Len(d) : all[i] = d[i]
  BY <1>2, JoinIs
<1>4. Len(done) + 1 \in 1 .. Len(d)
  BY <1>1
<1> QED
  BY <1>1, <1>2, <1>3, <1>4

LEMMA HostTyped ==
  ASSUME AnswersInv
  PROVE  toHost \in Seq(Bytes) /\ heard \in 0 .. Len(answers)
<1>1. PICK done, ps \in Seq(Payloads) :
        /\ answers = done \o ps /\ heard = Len(done)
        /\ WholeWaiting(ps) \/ TornWaiting(ps)
  BY DEF AnswersInv
<1>2. heard \in 0 .. Len(answers)
  BY <1>1
<1>3. CASE WholeWaiting(ps)
  BY <1>2, <1>3, FramesTyped DEF WholeWaiting
<1>4. CASE TornWaiting(ps)
  <2>1. PICK qs \in Seq(Payloads), y \in Seq(Bytes) : IsLine(toHost, y, Frames(FALSE, qs))
    BY <1>4 DEF TornWaiting
  <2>2. y \o <<Flag>> \in Seq(Bytes) /\ Frames(FALSE, qs) \in Seq(Bytes)
    BY FlagIs, FramesTyped, ConcatProperties
  <2> QED
    BY <1>2, <2>1, <2>2, ConcatProperties DEF IsLine
<1> QED
  BY <1>1, <1>3, <1>4

LEMMA SendKeeps ==
  ASSUME AnswersInv, NEW p \in Payloads,
         answers' = Append(answers, p), toHost' = toHost \o FrameOf(FALSE, p),
         UNCHANGED <<keepsFlag, heard, torn>>
  PROVE  AnswersInv'
<1>1. PICK done, ps \in Seq(Payloads) :
        /\ answers = done \o ps /\ heard = Len(done)
        /\ WholeWaiting(ps) \/ TornWaiting(ps)
  BY DEF AnswersInv
<1>2. PICK rs \in Seq(Payloads) : rs = Append(ps, p)
  <2>1. Append(ps, p) \in Seq(Payloads)
    BY AppendProperties
  <2> QED
    BY <2>1, Zenon
<1>3. answers' = done \o rs /\ answers' \in Seq(Payloads)
  <2>1. Append(done \o ps, p) = done \o Append(ps, p)
    BY AppendBehind
  <2>2. done \o rs \in Seq(Payloads)
    BY ConcatProperties
  <2> QED
    BY <1>1, <1>2, <2>1, <2>2, Zenon
<1>4. WholeWaiting(ps) => WholeWaiting(rs)'
  BY <1>2, FramesAppend DEF WholeWaiting
<1>5. ASSUME TornWaiting(ps) PROVE TornWaiting(rs)'
  <2>1. PICK q \in Payloads, qs \in Seq(Payloads), y \in Seq(Bytes) :
          ps = <<q>> \o qs /\ Flagless(y) /\ IsLine(toHost, y, Frames(FALSE, qs))
    BY <1>5 DEF TornWaiting
  <2>2. PICK ss \in Seq(Payloads) : ss = Append(qs, p)
    <3>1. Append(qs, p) \in Seq(Payloads)
      BY AppendProperties
    <3> QED
      BY <3>1, Zenon
  <2>3. rs = <<q>> \o ss
    <3>1. PICK one \in Seq(Payloads) : one = <<q>>
      BY OneOf, Zenon
    <3>2. Append(one \o qs, p) = one \o Append(qs, p)
      BY AppendBehind
    <3> QED
      BY <1>2, <2>1, <2>2, <3>1, <3>2, Zenon
  <2>4. IsLine(toHost', y, Frames(FALSE, ss))
    <3>1. PICK x \in Seq(Bytes) : x = y \o <<Flag>>
      <4>1. y \o <<Flag>> \in Seq(Bytes)
        BY FlagIs, ConcatProperties
      <4> QED
        BY <4>1, Zenon
    <3>2. (x \o Frames(FALSE, qs)) \o FrameOf(FALSE, p) = x \o Frames(FALSE, Append(qs, p))
      BY FramesBehindLine
    <3> QED
      BY <2>1, <2>2, <3>1, <3>2, Zenon DEF IsLine
  <2>5. torn'
    BY <1>5 DEF TornWaiting
  <2> QED
    BY <2>1, <2>3, <2>4, <2>5, Zenon DEF TornWaiting
<1>6. heard' = Len(done) /\ keepsFlag' \in BOOLEAN /\ torn' \in BOOLEAN
  BY <1>1 DEF AnswersInv
<1> QED
  BY <1>1, <1>3, <1>4, <1>5, <1>6, Zenon DEF AnswersInv

LEMMA ReadToFlagKeeps ==
  ASSUME ReadsInv, ReadToFlag
  PROVE  ReadsInv'
<1>1. PICK n : n = FirstFlag(toHost)
  OBVIOUS
<1>2. /\ toHost # <<>>
      /\ Returns(Line(SubSeq(toHost, 1, n), TRUE), ~torn, answers[heard + 1])
      /\ toHost' = SubSeq(toHost, n + 1, Len(toHost))
      /\ heard' = heard + 1 /\ torn' = FALSE
      /\ keepsFlag' = keepsFlag /\ answers' = answers
  BY <1>1, Zenon DEF ReadToFlag
<1>3. AnswersInv /\ keepsFlag \in BOOLEAN /\ torn \in BOOLEAN /\ answers \in Seq(Payloads)
  BY DEF ReadsInv, AnswersInv
<1>4. PICK done, qs \in Seq(Payloads), p \in Payloads, y \in Seq(Bytes) :
        NextLine(done, p, qs, y)
  BY <1>2, <1>3, NextLineIs, Zenon
<1>5. PICK rest \in Seq(Bytes) : rest = Frames(FALSE, qs)
  BY FramesTyped
<1>6. IsTaken(toHost, y, rest)
  <2>1. Flagless(y) /\ IsLine(toHost, y, rest)
    BY <1>4, <1>5 DEF NextLine
  <2> QED
    BY <2>1, LineCut
<1>7. SubSeq(toHost, 1, n) = y \o <<Flag>> /\ toHost' = rest
  BY <1>1, <1>2, <1>6, Zenon DEF IsTaken
<1>8. PICK line \in Seq(Bytes) :
        /\ line = Line(SubSeq(toHost, 1, n), TRUE)
        /\ line # <<>>
        /\ line = y \o <<Flag>> \/ line = y \o <<Flag, Flag>>
  BY <1>3, <1>7, LineOfFlag, Zenon
<1>9. PICK d \in Seq(Payloads) :
        d = Append(done, p) /\ answers = d \o qs /\ heard' = Len(d) /\ answers[heard + 1] = p
  <2>1. answers = done \o (<<p>> \o qs) /\ heard = Len(done)
    BY <1>4 DEF NextLine
  <2>2. /\ answers[Len(done) + 1] = p
        /\ answers = Append(done, p) \o qs
        /\ Append(done, p) \in Seq(Payloads) /\ Len(Append(done, p)) = Len(done) + 1
    BY <2>1, NthAnswer
  <2> QED
    BY <1>2, <2>1, <2>2, Zenon
<1>10. AnswersInv'
  <2>1. WholeWaiting(qs)'
    BY <1>2, <1>5, <1>7, Zenon DEF WholeWaiting
  <2> QED
    BY <1>2, <1>3, <1>9, <2>1, Zenon DEF AnswersInv
<1>11. LastTyped' /\ PointerReadDelivers'
  <2>1. ASSUME ~torn, NEW past \in Bytes
        PROVE  DecodePointer(line, past) = Gives(p)
    <3>1. y = Body(p)
      BY <1>4, <2>1, Zenon DEF NextLine
    <3> QED
      BY <1>8, <3>1, LineDecodes, Zenon
  <2>2. PICK whole \in BOOLEAN : whole = ~torn
    OBVIOUS
  <2>3. Returns(line, whole, p)
    BY <1>2, <1>8, <1>9, <2>2, Zenon
  <2>4. p \in Seq(Bytes)
    BY SealedIs
  <2> QED
    BY <1>8, <2>1, <2>2, <2>3, <2>4, ReturnsWhole, Zenon
<1> QED
  BY <1>10, <1>11 DEF ReadsInv

LEMMA ReadTimesOutKeeps ==
  ASSUME ReadsInv, ReadTimesOut
  PROVE  ReadsInv'
<1>1. PICK n \in Breaks :
        /\ Returns(Line(SubSeq(toHost, 1, n), FALSE), FALSE, <<>>)
        /\ toHost' = SubSeq(toHost, n + 1, Len(toHost))
        /\ torn' = (torn \/ n > 0)
  BY DEF ReadTimesOut
<1>2. keepsFlag' = keepsFlag /\ answers' = answers /\ heard' = heard
  BY DEF ReadTimesOut
<1>3. AnswersInv /\ keepsFlag \in BOOLEAN /\ torn \in BOOLEAN /\ answers \in Seq(Payloads)
  BY DEF ReadsInv, AnswersInv
<1>4. toHost \in Seq(Bytes)
  BY <1>3, HostTyped
<1>5. ASSUME SubSeq(toHost, 1, n) \in Seq(Bytes)
      PROVE  LastTyped' /\ PointerReadDelivers'
  <2>1. PICK line \in Seq(Bytes) :
          line = Line(SubSeq(toHost, 1, n), FALSE) /\ line # <<>>
    BY <1>5, LineOfNone
  <2>2. PICK sent \in Seq(Bytes) : sent = <<>>
    BY EmptySeq, Zenon
  <2>3. PICK whole \in BOOLEAN : whole = FALSE
    OBVIOUS
  <2>4. Returns(line, whole, sent)
    BY <1>1, <2>1, <2>2, <2>3, Zenon
  <2> QED
    BY <2>1, <2>3, <2>4, ReturnsWhole, Zenon
<1>6. CASE n = 0
  <2>1. toHost' = toHost /\ torn' = torn
    <3>1. n + 1 = 1 /\ ~(n > 0) /\ SubSeq(toHost, 1, Len(toHost)) = toHost
      BY <1>4, <1>6
    <3> QED
      BY <1>1, <1>3, <3>1, Zenon
  <2>2. AnswersInv'
    BY <1>2, <1>3, <2>1 DEF AnswersInv, WholeWaiting, TornWaiting
  <2>3. SubSeq(toHost, 1, n) \in Seq(Bytes)
    BY <1>4, <1>6
  <2> QED
    BY <1>5, <2>2, <2>3 DEF ReadsInv
<1>7. CASE n # 0
  <2>1. toHost # <<>> /\ n \in 1 .. FirstFlag(toHost) - 1
    BY <1>1, <1>7 DEF Breaks
  <2>2. PICK done, qs \in Seq(Payloads), p \in Payloads, y \in Seq(Bytes) :
          NextLine(done, p, qs, y)
    BY <1>3, <2>1, NextLineIs, Zenon
  <2>3. PICK rest \in Seq(Bytes) : rest = Frames(FALSE, qs)
    BY FramesTyped
  <2>4. IsTaken(toHost, y, rest) /\ IsTorn(toHost, y, rest)
    <3>1. Flagless(y) /\ IsLine(toHost, y, rest)
      BY <2>2, <2>3 DEF NextLine
    <3> QED
      BY <3>1, LineCut
  <2>5. n \in 0 .. Len(y) /\ n > 0
    <3>1. FirstFlag(toHost) = Len(y) + 1
      BY <2>4 DEF IsTaken
    <3> QED
      BY <2>1, <3>1
  <2>6. PICK z \in Seq(Bytes) : Flagless(z) /\ IsLine(toHost', z, rest)
    BY <1>1, <2>4, <2>5, Zenon DEF IsTorn
  <2>7. torn'
    BY <1>1, <2>5
  <2>8. PICK ps \in Seq(Payloads) : ps = <<p>> \o qs
    <3>1. <<p>> \in Seq(Payloads)
      BY OneOf
    <3>2. <<p>> \o qs \in Seq(Payloads)
      BY <3>1, ConcatProperties
    <3> QED
      BY <3>2, Zenon
  <2>9. TornWaiting(ps)'
    BY <2>3, <2>6, <2>7, <2>8, Zenon DEF TornWaiting
  <2>10. answers' = done \o ps /\ heard' = Len(done)
    BY <1>2, <2>2, <2>8, Zenon DEF NextLine
  <2>11. AnswersInv'
    BY <1>2, <1>3, <2>7, <2>9, <2>10, Zenon DEF AnswersInv
  <2>12. SubSeq(toHost, 1, n) \in Seq(Bytes)
    <3>1. n <= Len(toHost)
      <4>1. Len(toHost) = (Len(y) + 1) + Len(rest)
        <5>1. PICK x \in Seq(Bytes) : x = y \o <<Flag>> /\ Len(x) = Len(y) + 1
          <6>1. PICK one \in Seq(Bytes) : one = <<Flag>> /\ Len(one) = 1
            BY FlagIs
          <6>2. y \o one \in Seq(Bytes) /\ Len(y \o one) = Len(y) + 1
            BY <6>1
          <6> QED
            BY <6>1, <6>2, Zenon
        <5>2. toHost = x \o rest
          BY <2>2, <2>3, <5>1, Zenon DEF NextLine, IsLine
        <5> QED
          BY <5>1, <5>2
      <4> QED
        BY <2>5, <4>1
    <3> QED
      BY <1>4, <2>5, <3>1
  <2> QED
    BY <1>5, <2>11, <2>12 DEF ReadsInv
<1> QED
  BY <1>6, <1>7

LEMMA ReadsInit == Init => ReadsInv
<1> SUFFICES ASSUME Init PROVE ReadsInv
  OBVIOUS
<1>1. PICK none \in Seq(Payloads) : none = <<>>
  BY EmptySeq, Zenon
<1>2. /\ answers = none /\ heard = Len(none) /\ none \o none = none
      /\ ~torn /\ torn \in BOOLEAN /\ toHost = <<>>
      /\ keepsFlag \in BOOLEAN
  <2>1. /\ answers = <<>> /\ heard = 0 /\ torn = FALSE /\ toHost = <<>>
        /\ keepsFlag \in BOOLEAN
    BY FramesAssumption DEF Init
  <2>2. none \o none = none /\ Len(none) = 0
    BY <1>1
  <2> QED
    BY <1>1, <2>1, <2>2
<1>3. Frames(FALSE, none) = <<>>
  BY <1>1, FramesTyped, Zenon
<1>4. WholeWaiting(none)
  BY <1>2, <1>3, Zenon DEF WholeWaiting
<1>5. AnswersInv
  BY <1>2, <1>4, Zenon DEF AnswersInv
<1>6. /\ last.call = "none" /\ last.sent = <<>> /\ last.got = Gives(<<>>)
      /\ <<>> \in Seq(Bytes)
  BY DEF Init, NoRead
<1>7. LastTyped
  BY <1>6, GivesTyped DEF LastTyped
<1>8. PointerReadDelivers
  BY <1>6 DEF PointerReadDelivers
<1> QED
  BY <1>5, <1>7, <1>8 DEF ReadsInv

LEMMA ReadsNext ==
  ASSUME DeviceOpens = FALSE
  PROVE  ReadsInv /\ [Next]_vars => ReadsInv'
<1> SUFFICES ASSUME ReadsInv, [Next]_vars PROVE ReadsInv'
  OBVIOUS
<1>1. AnswersInv /\ LastTyped /\ PointerReadDelivers
  BY DEF ReadsInv
<1>2. ASSUME DeviceSends PROVE ReadsInv'
  <2>1. PICK p \in Payloads :
          /\ answers' = Append(answers, p)
          /\ toHost' = toHost \o (IF DeviceOpens THEN <<Flag>> ELSE <<>>)
                              \o Stuffed(p \o Crc(p)) \o <<Flag>>
    BY <1>2 DEF DeviceSends
  <2>2. toHost' = toHost \o FrameOf(FALSE, p)
    <3>1. PICK none, h, b, one \in Seq(Bytes) :
            none = <<>> /\ h = toHost /\ b = Body(p) /\ one = <<Flag>>
      BY <1>1, HostTyped, BodyIs, FlagIs, EmptySeq, Zenon
    <3>2. toHost' = ((h \o none) \o b) \o one
      BY <2>1, <3>1, Zenon DEF Body, Sealed
    <3>3. h \o none = h
      BY <3>1
    <3>4. (h \o b) \o one = h \o (b \o one)
      BY BytesAssociate
    <3> QED
      BY <3>1, <3>2, <3>3, <3>4, Zenon DEF FrameOf
  <2>3. UNCHANGED <<keepsFlag, heard, torn, last>>
    BY <1>2 DEF DeviceSends
  <2>4. AnswersInv'
    BY <1>1, <2>1, <2>2, <2>3, SendKeeps
  <2>5. LastTyped' /\ PointerReadDelivers'
    BY <1>1, <2>3 DEF LastTyped, PointerReadDelivers
  <2> QED
    BY <2>4, <2>5 DEF ReadsInv
<1>3. ASSUME ReadToFlag PROVE ReadsInv'
  BY <1>3, ReadToFlagKeeps
<1>4. ASSUME ReadTimesOut PROVE ReadsInv'
  BY <1>4, ReadTimesOutKeeps
<1>5. CASE Write \/ DeviceTakes \/ UNCHANGED vars
  <2>1. UNCHANGED <<keepsFlag, answerVars>>
    BY <1>5 DEF Write, WriteEncoded, DeviceTakes, vars, answerVars
  <2>2. UNCHANGED <<keepsFlag, answers, heard, toHost, torn, last>>
    BY <2>1 DEF answerVars
  <2>3. AnswersInv'
    BY <1>1, <2>2 DEF AnswersInv, WholeWaiting, TornWaiting
  <2>4. LastTyped' /\ PointerReadDelivers'
    BY <1>1, <2>2 DEF LastTyped, PointerReadDelivers
  <2> QED
    BY <2>3, <2>4 DEF ReadsInv
<1> QED
  BY <1>2, <1>3, <1>4, <1>5 DEF Next

LEMMA PayloadsTyped ==
  \A ps \in Seq(Payloads) : ps \in Seq(Seq(Bytes))
<1>1. \A p \in Payloads : p \in Seq(Bytes)
  BY FramesAssumption
<1> QED
  BY <1>1

LEMMA DeviceLineTyped == RequestsInv => toDevice \in Seq(Bytes)
<1> SUFFICES ASSUME RequestsInv PROVE toDevice \in Seq(Bytes)
  OBVIOUS
<1>1. CASE AllOnLine(taken, toDevice)
  BY <1>1, FramesTyped DEF AllOnLine
<1>2. CASE OpenedOnLine(taken, toDevice)
  <2>1. PICK p \in Payloads, ps \in Seq(Payloads) :
          toDevice = (Body(p) \o <<Flag>>) \o Frames(TRUE, ps)
    BY <1>2 DEF OpenedOnLine
  <2>2. Body(p) \o <<Flag>> \in Seq(Bytes) /\ Frames(TRUE, ps) \in Seq(Bytes)
    BY BodyIs, FlagIs, FramesTyped, ConcatProperties
  <2> QED
    BY <2>1, <2>2, ConcatProperties
<1> QED
  BY <1>1, <1>2 DEF RequestsInv

LEMMA InvsTyped == RequestsInv /\ ReadsInv => TypeOK
<1> SUFFICES ASSUME RequestsInv, ReadsInv PROVE TypeOK
  OBVIOUS
<1>1. AnswersInv /\ LastTyped
  BY DEF ReadsInv
<1>2. /\ requests \in Seq(Seq(Bytes)) /\ taken \in Seq(Seq(Bytes))
      /\ answers \in Seq(Seq(Bytes))
  BY <1>1, PayloadsTyped DEF RequestsInv, AnswersInv
<1>3. toDevice \in Seq(Bytes) /\ toHost \in Seq(Bytes) /\ heard \in 0 .. Len(answers)
  BY <1>1, DeviceLineTyped, HostTyped
<1>4. /\ last.sent \in Seq(Bytes) /\ last.got.data \in Seq(Bytes)
      /\ last.got.how \in {"data", "crash", "undefined"}
  BY <1>1 DEF LastTyped, Gots
<1>5. keepsFlag \in BOOLEAN /\ torn \in BOOLEAN
  BY <1>1 DEF AnswersInv
<1> QED
  BY <1>2, <1>3, <1>4, <1>5, Zenon DEF TypeOK

(* With a device that ends its frames with a flag and does not open them    *)
(* with one, what the reads of HdlcSerial keep and return is of its type,   *)
(* whatever is left of a frame when a read runs out of time.                *)
THEOREM TypeOKHolds ==
  ASSUME DeviceOpens = FALSE
  PROVE  Spec => []TypeOK
<1>1. RequestsInv /\ [Next]_vars => RequestsInv'
  BY RequestsNext
<1>2. ReadsInv /\ [Next]_vars => ReadsInv'
  BY ReadsNext, Zenon
<1> QED
  BY RequestsInit, ReadsInit, <1>1, <1>2, InvsTyped, PTL DEF Spec

(* With such a device, a read(pointer) that ends with a flag and whose      *)
(* buffer holds the line returns the payload of the next answer, for every  *)
(* payload and every checksum, with a readline that returns the flag and    *)
(* with one that does not, and again after reads that ran out of time.      *)
THEOREM PointerReadDeliversHolds ==
  ASSUME DeviceOpens = FALSE
  PROVE  Spec => []PointerReadDelivers
<1>1. ReadsInv /\ [Next]_vars => ReadsInv'
  BY ReadsNext, Zenon
<1>2. ReadsInv => PointerReadDelivers
  BY DEF ReadsInv
<1> QED
  BY ReadsInit, <1>1, <1>2, PTL DEF Spec

===============================================================================
