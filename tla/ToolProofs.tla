------------------------------ MODULE ToolProofs ------------------------------
(***************************************************************************)
(* What the parsers of partition tables and of images, LafSerial, the      *)
(* readers of files and the converter of identities keep to, for files,    *)
(* headers, structures, values and parts of any size and for any number of *)
(* calls.                                                                  *)
(***************************************************************************)
EXTENDS ImageFiles, LafSerial, XmlReaders, MeidConverter, SequenceTheorems, FoldProofs, TLAPS

ImageSpec == ImageInit /\ [][ImageNext]_imageVars
LafSpec == LafInit /\ [][LafNext]_lafVars

----------------------------------------------------------------------------
(* Numbers.                                                                 *)

LEMMA MaxOfTwo ==
  ASSUME NEW a \in Int, NEW b \in Int
  PROVE  Max({a, b}) = IF a >= b THEN a ELSE b
<1>1. \E x \in {a, b} : \A y \in {a, b} : x >= y
  BY Z3
<1>2. /\ Max({a, b}) \in {a, b}
      /\ \A y \in {a, b} : Max({a, b}) >= y
  BY <1>1 DEF Max
<1> QED
  BY <1>2

LEMMA MinOfTwo ==
  ASSUME NEW a \in Int, NEW b \in Int
  PROVE  Min({a, b}) = IF a <= b THEN a ELSE b
<1>1. \E x \in {a, b} : \A y \in {a, b} : x =< y
  BY Z3
<1>2. /\ Min({a, b}) \in {a, b}
      /\ \A y \in {a, b} : Min({a, b}) =< y
  BY <1>1 DEF Min
<1> QED
  BY <1>2

(* The first of n places of the same width end no later than the last.      *)
LEMMA PlacesInOrder ==
  ASSUME NEW width \in Nat, NEW n \in Nat, NEW i \in 1 .. n
  PROVE  /\ (i - 1) * width \in Nat
         /\ (i - 1) * width + width = i * width
         /\ i * width <= n * width
<1>1. (i - 1) * width \in Nat /\ (n - i) * width \in Nat
  OBVIOUS
<1>2. (i - 1) * width + width = i * width
  OBVIOUS
<1>3. (n - i) * width = n * width - i * width
  OBVIOUS
<1> QED
  BY <1>1, <1>2, <1>3

----------------------------------------------------------------------------
(* Streams.                                                                 *)

LEMMA WholePiece ==
  ASSUME NEW stream, stream.failed = FALSE, stream.at \in Nat,
         NEW count \in Nat, NEW size \in Nat,
         stream.at + count <= size
  PROVE  Piece(stream, count, size) = [at |-> stream.at, count |-> count]
<1>1. Min({count, size - stream.at}) = count
  BY MinOfTwo
<1>2. Max({0, count}) = count
  BY MaxOfTwo
<1> QED
  BY <1>1, <1>2 DEF Piece, Here

(* Something comes of a read only of a stream that has not failed, and then *)
(* it is bytes of the file.                                                 *)
LEMMA ReadWhole ==
  ASSUME NEW stream, stream.at \in Int, stream.failed \in BOOLEAN,
         NEW count \in Nat \ {0}, NEW size \in Nat,
         Here(stream, count, size) = count
  PROVE  /\ ~stream.failed
         /\ stream.at + count <= size
         /\ After(stream, count, size) = [at |-> stream.at + count, failed |-> FALSE]
<1>1. ~stream.failed
  BY DEF Here
<1>2. Max({0, Min({count, size - stream.at})}) = count
  BY <1>1 DEF Here
<1>3. Min({count, size - stream.at}) \in Int
  BY MinOfTwo
<1>4. Min({count, size - stream.at}) = count
  BY <1>2, <1>3, MaxOfTwo
<1>5. size - stream.at >= count
  BY <1>4, MinOfTwo
<1>6. (stream.failed \/ count < count) = FALSE
  BY <1>1
<1>7. After(stream, count, size)
        = [at |-> stream.at + count, failed |-> (stream.failed \/ count < count)]
  BY Zenon DEF After
<1>8. After(stream, count, size) = [at |-> stream.at + count, failed |-> FALSE]
  BY <1>6, <1>7, Zenon
<1> QED
  BY <1>1, <1>5, <1>8


----------------------------------------------------------------------------
(* Tables.                                                                  *)

GivenWhole(parts, width, size) ==
  \A i \in DOMAIN parts :
    /\ parts[i].count = width
    /\ parts[i].at + parts[i].count <= size
    /\ i > 1 => parts[i].at = parts[i - 1].at + parts[i - 1].count

(* The end of one place is the beginning of the next. *)
Place(base, width, i) == base + (i - 1) * width

LEMMA PlacesFit ==
  ASSUME NEW base \in Nat, NEW width \in Nat, NEW n \in Nat, NEW size \in Nat,
         Place(base, width, n + 1) <= size,
         NEW i \in 1 .. n
  PROVE  /\ Place(base, width, i) \in Nat
         /\ Place(base, width, i) + width <= size
         /\ Place(base, width, i) + width = Place(base, width, i + 1)
<1>1. PICK p, q, r \in Int : p = (i - 1) * width /\ q = i * width /\ r = n * width
  OBVIOUS
<1>2. p \in Nat /\ p + width = q /\ q <= r
  BY <1>1, PlacesInOrder
<1>3. /\ Place(base, width, i) = base + p
      /\ Place(base, width, i + 1) = base + q
      /\ Place(base, width, n + 1) = base + r
  <2>1. (i + 1) - 1 = i /\ (n + 1) - 1 = n
    OBVIOUS
  <2> QED
    BY <1>1, <2>1, Zenon DEF Place
<1> QED
  BY <1>2, <1>3

LEMMA PlacedWhole ==
  ASSUME NEW base \in Nat, NEW width \in Nat, NEW n \in Nat, NEW size \in Nat,
         Place(base, width, n + 1) <= size,
         NEW parts, DOMAIN parts = 1 .. n,
         \A i \in 1 .. n : parts[i] = [at |-> Place(base, width, i), count |-> width]
  PROVE  GivenWhole(parts, width, size)
<1>1. ASSUME NEW i \in 1 .. n
      PROVE  /\ parts[i].count = width
             /\ parts[i].at + parts[i].count <= size
  BY PlacesFit
<1>2. ASSUME NEW i \in 1 .. n, i > 1
      PROVE  parts[i].at = parts[i - 1].at + parts[i - 1].count
  <2>1. PICK j \in 1 .. n : i = j + 1
    <3>1. \A m \in Nat : \A k \in 1 .. m :
            k > 1 => \E j \in 1 .. m : k = j + 1
      <4> SUFFICES ASSUME NEW m \in Nat, NEW k \in 1 .. m, k > 1
                   PROVE  k - 1 \in 1 .. m /\ k = (k - 1) + 1
        OBVIOUS
      <4> QED
        OBVIOUS
    <3> QED
      BY <1>2, <3>1
  <2>2. parts[j] = [at |-> Place(base, width, j), count |-> width]
    OBVIOUS
  <2>3. parts[i].at = Place(base, width, j + 1)
    BY <2>1
  <2>4. i - 1 = j
    BY <2>1
  <2> QED
    BY <2>2, <2>3, <2>4, PlacesFit
<1> QED
  BY <1>1, <1>2 DEF GivenWhole

LEMMA NoneGivenWhole ==
  ASSUME NEW parts, DOMAIN parts = {}, NEW width, NEW size
  PROVE  GivenWhole(parts, width, size)
BY DEF GivenWhole

(* A table that ends within the file is given whole. *)
LEMMA TableIsWhole ==
  ASSUME NEW from \in Int,
         NEW stream, stream = [at |-> from, failed |-> FALSE],
         NEW base \in Nat, NEW width \in Nat, NEW n \in Nat, NEW size \in Nat,
         Place(base, width, n + 1) <= size,
         NEW parts,
         parts = [i \in 1 .. n |->
                    Piece(Seek(stream, Place(base, width, i)), width, size)]
  PROVE  GivenWhole(parts, width, size)
<1>1. ASSUME NEW p \in Nat
      PROVE  Seek(stream, p) = [at |-> p, failed |-> FALSE]
  <2>1. stream.failed = FALSE /\ ~(p < 0)
    <3>1. stream.failed = FALSE
      OBVIOUS
    <3>2. ~(p < 0)
      OBVIOUS
    <3> QED
      BY <3>1, <3>2, Zenon
  <2>2. Seek(stream, p) = [stream EXCEPT !.at = p]
    BY <2>1, Zenon DEF Seek
  <2> QED
    BY <2>2
<1>2. ASSUME NEW i \in 1 .. n
      PROVE  parts[i] = [at |-> Place(base, width, i), count |-> width]
  <2>1. PICK p \in Nat : p = Place(base, width, i) /\ p + width <= size
    BY PlacesFit
  <2>2. PICK there : there = [at |-> p, failed |-> FALSE]
    OBVIOUS
  <2>3. /\ there.failed = FALSE
        /\ there.at = p
    BY <2>2
  <2>4. Piece(there, width, size) = [at |-> p, count |-> width]
    BY <2>1, <2>3, WholePiece
  <2>5. Seek(stream, p) = there
    BY <1>1, <2>2
  <2>6. parts[i] = Piece(Seek(stream, p), width, size)
    BY <2>1
  <2> QED
    BY <2>1, <2>4, <2>5, <2>6
<1>3. DOMAIN parts = 1 .. n
  OBVIOUS
<1> QED
  BY <1>2, <1>3, PlacedWhole

----------------------------------------------------------------------------
(* What a parser has read of its stream when it comes to the table.         *)

Streams == [at : Nat, failed : BOOLEAN]

LEMMA SeekTyped ==
  ASSUME NEW start \in Int
  PROVE  /\ Seek(Opened, start) \in Streams
         /\ ~Seek(Opened, start).failed =>
              start >= 0 /\ Seek(Opened, start).at = start
<1>1. Opened.failed = FALSE
  BY DEF Opened
<1>2. CASE start < 0
  <2>1. Seek(Opened, start) = [Opened EXCEPT !.failed = TRUE]
    BY <1>2, Zenon DEF Seek
  <2>2. Seek(Opened, start) = [at |-> 0, failed |-> TRUE]
    BY <2>1 DEF Opened
  <2> QED
    BY <2>2 DEF Streams
<1>3. CASE ~(start < 0)
  <2>1. Seek(Opened, start) = [Opened EXCEPT !.at = start]
    BY <1>1, <1>3, Zenon DEF Seek
  <2>2. Seek(Opened, start) = [at |-> start, failed |-> FALSE]
    BY <2>1 DEF Opened
  <2> QED
    BY <1>3, <2>2 DEF Streams
<1> QED
  BY <1>2, <1>3

LEMMA AfterTyped ==
  ASSUME NEW stream \in Streams, NEW count \in Nat, NEW size \in Nat
  PROVE  /\ After(stream, count, size) \in Streams
         /\ After(stream, count, size).at >= stream.at
         /\ After(stream, count, size).at <= stream.at + count
         /\ ~After(stream, count, size).failed => ~stream.failed
<1>1. stream.at \in Nat /\ stream.failed \in BOOLEAN
  BY DEF Streams
<1>2. Here(stream, count, size) \in 0 .. count
  <2>1. Max({0, Min({count, size - stream.at})}) \in 0 .. count
    <3>1. PICK m \in Int : m = Min({count, size - stream.at}) /\ m <= count
      BY <1>1, MinOfTwo
    <3>2. Max({0, m}) \in 0 .. count
      BY <3>1, MaxOfTwo
    <3> QED
      BY <3>1, <3>2
  <2> QED
    BY <2>1 DEF Here
<1>3. PICK n \in 0 .. count : n = Here(stream, count, size)
  BY <1>2
<1>4. After(stream, count, size)
        = [at |-> stream.at + n, failed |-> (stream.failed \/ n < count)]
  BY <1>3, Zenon DEF After
<1>5. PICK f \in BOOLEAN : f = (stream.failed \/ n < count)
  BY Zenon
<1>6. After(stream, count, size) = [at |-> stream.at + n, failed |-> f]
  BY <1>4, <1>5, Zenon
<1>7. ~f => ~stream.failed
  BY <1>5, Zenon
<1> QED
  BY <1>1, <1>6, <1>7 DEF Streams

(* A number below the half of the word is itself as an int. *)
LEMMA SmallAsInt ==
  ASSUME NEW n \in Nat, n < Word \div 2
  PROVE  AsInt(n) = n
<1>1. Word \in Nat /\ n < Word /\ Word > 0
  BY ImageAssumption
<1>2. n % Word = n
  BY <1>1
<1> QED
  BY <1>1, <1>2 DEF AsInt

(* A table with any entries was announced by a header that was read whole,  *)
(* and its entries were compared with what is left of the file, if an int   *)
(* tells where they begin.                                                  *)
LEMMA AnnouncedFits ==
  ASSUME NEW size \in Nat, NEW start \in Int, NEW number \in Nat,
         NEW mbr \in Streams,
         ~mbr.failed => start >= 0 /\ mbr.at >= start /\ mbr.at <= start + MbrSize,
         BelowInt(start),
         Here(mbr, GptHeaderSize, size) = GptHeaderSize,
         NEW head, head = After(mbr, GptHeaderSize, size),
         ~TooFewEntries(head, number, size, start)
  PROVE  /\ head = [at |-> head.at, failed |-> FALSE]
         /\ head.at \in Nat
         /\ Place(head.at, GptEntrySize, number + 1) <= size
<1>1. mbr.at \in Nat /\ mbr.failed \in BOOLEAN
  BY DEF Streams
<1>2. GptHeaderSize \in Nat \ {0} /\ GptEntrySize \in Nat
  BY ImageAssumption
<1>3. /\ ~mbr.failed
      /\ mbr.at + GptHeaderSize <= size
      /\ head = [at |-> mbr.at + GptHeaderSize, failed |-> FALSE]
  BY <1>1, <1>2, ReadWhole
<1>4. PICK q \in Nat : q = number * GptEntrySize
  BY <1>2
<1>5a. PICK at \in Nat : at = mbr.at + GptHeaderSize
  BY <1>1, <1>2
<1>5. head = [at |-> at, failed |-> FALSE] /\ at = mbr.at + GptHeaderSize
  BY <1>3, <1>5a, Zenon
<1>6. head.at = mbr.at + GptHeaderSize /\ head.at \in Nat /\ head.at = at
  BY <1>5
<1>7. head.at + q <= size
  <2>1. at < Word \div 2
    BY <1>1, <1>3, <1>5, ImageAssumption DEF BelowInt
  <2>2. Position(head) = at
    <3>1. head.failed = FALSE /\ head.at = at
      BY <1>5
    <3>2. (IF head.failed THEN -1 ELSE head.at) = at
      BY <3>1
    <3> QED
      BY <2>1, <3>2, SmallAsInt DEF Position
  <2>3. ~Above(at + q, size - start)
    BY <1>4, <2>2, Zenon DEF TooFewEntries, Fewer
  <2>4. /\ start \in Nat /\ at >= start /\ at <= size
    BY <1>1, <1>2, <1>3, <1>5
  <2> QED
    BY <1>4, <1>6, <2>3, <2>4 DEF Above
<1>8. Place(head.at, GptEntrySize, number + 1) = head.at + q
  <2>1. (number + 1) - 1 = number
    OBVIOUS
  <2> QED
    BY <1>4, <2>1, Zenon DEF Place
<1> QED
  BY <1>3, <1>6, <1>7, <1>8

GptStarts(flags, start, size) ==
  IF "mbr" \in flags THEN After(Seek(Opened, start), MbrSize, size)
  ELSE Seek(Opened, start)

LEMMA GptStartTyped ==
  ASSUME NEW flags, NEW start \in Int, NEW size \in Nat
  PROVE  /\ GptStarts(flags, start, size) \in Streams
         /\ ~GptStarts(flags, start, size).failed =>
              /\ start >= 0
              /\ GptStarts(flags, start, size).at >= start
              /\ GptStarts(flags, start, size).at <= start + MbrSize
<1>1. PICK begun : begun = Seek(Opened, start)
  OBVIOUS
<1>2. /\ begun \in Streams
      /\ ~begun.failed => start >= 0 /\ begun.at = start
  BY <1>1, SeekTyped
<1>3. CASE "mbr" \notin flags
  BY <1>1, <1>2, <1>3, ImageAssumption DEF GptStarts
<1>4. CASE "mbr" \in flags
  <2>1. PICK mbr : mbr = After(begun, MbrSize, size)
    OBVIOUS
  <2>2. /\ mbr \in Streams
        /\ mbr.at >= begun.at
        /\ mbr.at <= begun.at + MbrSize
        /\ ~mbr.failed => ~begun.failed
    BY <1>2, <2>1, AfterTyped, ImageAssumption
  <2>3. GptStarts(flags, start, size) = mbr
    BY <1>1, <1>4, <2>1 DEF GptStarts
  <2>4. ~mbr.failed => start >= 0 /\ mbr.at >= start /\ mbr.at <= start + MbrSize
    BY <1>2, <2>2
  <2> QED
    BY <2>2, <2>3, <2>4
<1> QED
  BY <1>3, <1>4

LEMMA GptEntriesAreWhole == ParseGpt => EntriesAreWhole'
<1> SUFFICES ASSUME ParseGpt
             PROVE  EntriesAreWhole'
  OBVIOUS
<1>1. PICK size \in FileSizes, start \in TableStarts, flags \in SUBSET Flags, number \in GptHeaders :
        LET what == [size |-> size, start |-> start, flags |-> flags, number |-> number]
            mbr == GptStarts(flags, start, size)
            head == IF "header" \in flags THEN After(mbr, GptHeaderSize, size) ELSE mbr
            n == IF "header" \in flags /\ Here(mbr, GptHeaderSize, size) = GptHeaderSize
                 THEN number ELSE 0
        IN  IF \/ "mbr" \in flags /\ Fewer(size, start, MbrSize)
               \/ "header" \in flags /\ Fewer(size, start, MbrSize + GptHeaderSize)
               \/ "entries" \in flags /\ TooFewEntries(head, n, size, start)
            THEN Throwing("gpt", what)
            ELSE Giving("gpt", what,
                   IF "entries" \notin flags THEN <<>>
                   ELSE [i \in 1 .. n |->
                           Piece(Seek(head, head.at + (i - 1) * GptEntrySize),
                                 GptEntrySize, size)])
  BY Zenon DEF ParseGpt, GptStarts
<1> DEFINE what == [size |-> size, start |-> start, flags |-> flags, number |-> number]
           n == IF "header" \in flags
                   /\ Here(GptStarts(flags, start, size), GptHeaderSize, size) = GptHeaderSize
                THEN number ELSE 0
<1>2. PICK mbr : mbr = GptStarts(flags, start, size)
  OBVIOUS
<1>3. PICK head : head = IF "header" \in flags THEN After(mbr, GptHeaderSize, size) ELSE mbr
  OBVIOUS
<1>4. \/ Throwing("gpt", what)
      \/ /\ "entries" \in flags => ~TooFewEntries(head, n, size, start)
         /\ Giving("gpt", what,
              IF "entries" \notin flags THEN <<>>
              ELSE [i \in 1 .. n |->
                      Piece(Seek(head, Place(head.at, GptEntrySize, i)), GptEntrySize, size)])
  BY <1>1, <1>2, <1>3, Zenon DEF Place
<1> HIDE DEF n
<1>5. PICK parts :
        parts = IF "entries" \notin flags THEN <<>>
                ELSE [i \in 1 .. n |->
                        Piece(Seek(head, Place(head.at, GptEntrySize, i)), GptEntrySize, size)]
  OBVIOUS
<1>6. CASE Throwing("gpt", what)
  BY <1>6 DEF Throwing, EntriesAreWhole
<1>7. CASE ~BelowInt(start) /\ Giving("gpt", what, parts)
  <2>1. parsed' = [parser |-> "gpt", asked |-> what, ok |-> TRUE, parts |-> parts]
    BY <1>7 DEF Giving
  <2>2. parsed'.parser = "gpt" /\ parsed'.asked = what
    BY <2>1
  <2>3. parsed'.asked.start = start
    BY <2>2
  <2> QED
    BY <1>7, <2>2, <2>3, Zenon DEF EntriesAreWhole
<1>8. CASE /\ "entries" \in flags => ~TooFewEntries(head, n, size, start)
           /\ BelowInt(start)
           /\ Giving("gpt", what, parts)
  <2>1. GivenWhole(parts, GptEntrySize, size)
    <3>1. CASE "entries" \notin flags
      BY <1>5, <3>1, NoneGivenWhole
    <3>2. CASE "entries" \in flags /\ n = 0
      <4>1. DOMAIN parts = {}
        BY <1>5, <3>2
      <4> QED
        BY <4>1, NoneGivenWhole
    <3>3. CASE "entries" \in flags /\ n # 0
      <4>1. /\ "header" \in flags /\ n = number
            /\ Here(mbr, GptHeaderSize, size) = GptHeaderSize
            /\ head = After(mbr, GptHeaderSize, size)
        BY <1>2, <1>3, <3>3 DEF n
      <4>2. /\ size \in Nat /\ start \in Int /\ number \in Nat
            /\ GptEntrySize \in Nat
        BY ImageAssumption
      <4>3. /\ mbr \in Streams
            /\ ~mbr.failed => start >= 0 /\ mbr.at >= start /\ mbr.at <= start + MbrSize
        BY <1>2, <4>2, GptStartTyped
      <4>4. /\ head = [at |-> head.at, failed |-> FALSE]
            /\ head.at \in Nat
            /\ Place(head.at, GptEntrySize, number + 1) <= size
        BY <1>8, <3>3, <4>1, <4>2, <4>3, AnnouncedFits
      <4>5. PICK base \in Nat : base = head.at
        BY <4>4
      <4>6. /\ head = [at |-> base, failed |-> FALSE]
            /\ Place(base, GptEntrySize, number + 1) <= size
            /\ parts = [i \in 1 .. number |->
                 Piece(Seek(head, Place(base, GptEntrySize, i)), GptEntrySize, size)]
        BY <1>5, <3>3, <4>1, <4>4, <4>5, Zenon
      <4> QED
        BY <4>2, <4>6, TableIsWhole
    <3> QED
      BY <3>1, <3>2, <3>3
  <2>2. parsed' = [parser |-> "gpt", asked |-> what, ok |-> TRUE, parts |-> parts]
    BY <1>8 DEF Giving
  <2> QED
    BY <2>1, <2>2 DEF EntriesAreWhole, GivenWhole
<1> QED
  BY <1>4, <1>5, <1>6, <1>7, <1>8

(* A file of entries: as many as the file is long, up to the limit and one. *)
LEMMA PartitionTxtIsWhole == ParsePartitionTxt => EntriesAreWhole'
<1> SUFFICES ASSUME ParsePartitionTxt
             PROVE  EntriesAreWhole'
  OBVIOUS
<1>1. PICK size \in FileSizes :
        LET n == size \div PtxtEntrySize
        IN  \/ Throwing("partition.txt", [size |-> size])
            \/ Giving("partition.txt", [size |-> size],
                 [i \in 1 .. Min({n, PtxtLimit + 1}) |->
                    Piece(Seek(Opened, (i - 1) * PtxtEntrySize), PtxtEntrySize, size)])
  BY Zenon DEF ParsePartitionTxt
<1>2. size \in Nat /\ PtxtEntrySize \in Nat \ {0} /\ PtxtLimit \in Nat
  BY ImageAssumption
<1>3. PICK n \in Nat : n = size \div PtxtEntrySize
  BY <1>2
<1>4. n * PtxtEntrySize <= size
  BY <1>2, <1>3
<1>5. PICK m \in 0 .. n : m = Min({n, PtxtLimit + 1})
  <2>1. Min({n, PtxtLimit + 1}) \in 0 .. n
    <3>1. PICK limit \in Nat : limit = PtxtLimit + 1
      BY <1>2
    <3> QED
      BY <3>1, MinOfTwo
  <2> QED
    BY <2>1
<1>6. PICK parts :
        parts = [i \in 1 .. m |->
                   Piece(Seek(Opened, (i - 1) * PtxtEntrySize), PtxtEntrySize, size)]
  OBVIOUS
<1>7. CASE Throwing("partition.txt", [size |-> size])
  BY <1>7 DEF Throwing, EntriesAreWhole
<1>8. CASE Giving("partition.txt", [size |-> size], parts)
  <2>1. GivenWhole(parts, PtxtEntrySize, size)
    <3>1. Place(0, PtxtEntrySize, m + 1) <= size
      <4>1. PICK p, q \in Int : p = m * PtxtEntrySize /\ q = n * PtxtEntrySize
        BY <1>2
      <4>2. p <= q
        <5>1. CASE m = 0
          BY <1>2, <4>1, <5>1
        <5>2. CASE m \in 1 .. n
          BY <1>2, <4>1, <5>2, PlacesInOrder
        <5> QED
          BY <5>1, <5>2
      <4>3. Place(0, PtxtEntrySize, m + 1) = p
        <5>1. (m + 1) - 1 = m /\ 0 + p = p
          OBVIOUS
        <5> QED
          BY <4>1, <5>1, Zenon DEF Place
      <4> QED
        BY <1>2, <1>4, <4>1, <4>2, <4>3
    <3>2. parts = [i \in 1 .. m |->
                     Piece(Seek(Opened, Place(0, PtxtEntrySize, i)), PtxtEntrySize, size)]
      <4>1. \A i \in 1 .. m : Place(0, PtxtEntrySize, i) = (i - 1) * PtxtEntrySize
        BY <1>2 DEF Place
      <4> QED
        BY <1>6, <4>1
    <3>3. Opened = [at |-> 0, failed |-> FALSE]
      BY DEF Opened
    <3> QED
      BY <1>2, <3>1, <3>2, <3>3, TableIsWhole
  <2>2. parsed' = [parser |-> "partition.txt", asked |-> [size |-> size],
                   ok |-> TRUE, parts |-> parts]
    BY <1>8 DEF Giving
  <2> QED
    BY <2>1, <2>2 DEF EntriesAreWhole, GivenWhole
<1> QED
  BY <1>1, <1>3, <1>5, <1>6, <1>7, <1>8

(* Every entry of a partition table or of a partition.txt file that a       *)
(* parser returns is bytes of the file, all of them, and follows the one    *)
(* before it: for files, headers and structures of any size, and tables     *)
(* whose entries begin, by their start and the structures in front, where   *)
(* an int still tells.                                                      *)
THEOREM EntriesAreWholeHolds == ImageSpec => []EntriesAreWhole
<1>1. ImageInit => EntriesAreWhole
  BY DEF ImageInit, EntriesAreWhole
<1>2. EntriesAreWhole /\ [ImageNext]_imageVars => EntriesAreWhole'
  <2>1. ParseMbn => EntriesAreWhole'
    BY DEF ParseMbn, Throwing, Giving, EntriesAreWhole
  <2>2. EntriesAreWhole /\ UNCHANGED imageVars => EntriesAreWhole'
    BY DEF EntriesAreWhole, imageVars
  <2> QED
    BY <2>1, <2>2, GptEntriesAreWhole, PartitionTxtIsWhole DEF ImageNext
<1> QED
  BY <1>1, <1>2, PTL DEF ImageSpec

----------------------------------------------------------------------------
(* Segments of an image.                                                    *)

(* A whole read leaves the stream behind what it gave. *)
LEMMA WholeRead ==
  ASSUME NEW at \in Nat, NEW count \in Nat, NEW size \in Nat, at + count <= size
  PROVE  LET stream == [at |-> at, failed |-> FALSE]
         IN  /\ Piece(stream, count, size) = [at |-> at, count |-> count]
             /\ After(stream, count, size) = [at |-> at + count, failed |-> FALSE]
<1>1. PICK stream : stream = [at |-> at, failed |-> FALSE]
  OBVIOUS
<1>2. Piece(stream, count, size) = [at |-> at, count |-> count]
  <2>1. stream.failed = FALSE /\ stream.at = at
    BY <1>1
  <2>2. Piece(stream, count, size) = [at |-> stream.at, count |-> count]
    BY <2>1, WholePiece
  <2> QED
    BY <2>1, <2>2, Zenon
<1>3. Here(stream, count, size) = count
  BY <1>1, <1>2, Zenon DEF Piece
<1>4. (stream.failed \/ count < count) = FALSE
  BY <1>1
<1>5. After(stream, count, size) = [at |-> at + count, failed |-> FALSE]
  BY <1>1, <1>3, <1>4 DEF After
<1> QED
  BY <1>1, <1>2, <1>5

(* A stream that stands elsewhere. *)
LEMMA Elsewhere ==
  ASSUME NEW a, NEW b, NEW c, c = [at |-> a, failed |-> FALSE],
         NEW d, d = [c EXCEPT !.at = b]
  PROVE  d = [at |-> b, failed |-> FALSE]
OBVIOUS

(* What readSegment is called with, and leaves, as long as nothing failed.  *)
Reading(parts, at) ==
  [ok |-> TRUE, parts |-> parts, stream |-> [at |-> at, failed |-> FALSE]]
With(parts, s, asked, from, count) ==
  IF s \in asked THEN Append(parts, [at |-> from, count |-> count]) ELSE parts

(* The segment is asked for or not, but lies in the file: it is given       *)
(* whole, and the stream goes on.                                           *)
LEMMA SegmentGiven ==
  ASSUME NEW h, NEW s, NEW asked, NEW parts, NEW start \in Nat,
         NEW from \in Nat, NEW count \in Nat, NEW size \in Nat,
         SegmentSize(h, s) = count, Offset(h, s) = from,
         from + count <= size, size < Word \div 2
  PROVE  \E end \in Nat :
           ReadsSegment(Reading(parts, start), h, s, asked, size)
             = Reading(With(parts, s, asked, from, count), end)
<1>1. PICK stream : stream = [at |-> start, failed |-> FALSE]
  OBVIOUS
<1>2. PICK q : /\ q = Reading(parts, start)
              /\ q = [ok |-> TRUE, parts |-> parts, stream |-> stream]
  BY <1>1 DEF Reading
<1>3. CASE s \notin asked
  <2>1. ReadsSegment(q, h, s, asked, size) = q
    BY <1>3, Zenon DEF ReadsSegment
  <2>2. With(parts, s, asked, from, count) = parts
    BY <1>3, Zenon DEF With
  <2> QED
    BY <1>2, <2>1, <2>2, Zenon
<1>4. CASE s \in asked
  <2>1. Word \in Nat
    BY ImageAssumption
  <2>2. count < Word \div 2
    BY <2>1
  <2>3. AsInt(SegmentSize(h, s)) = count
    BY <2>2, SmallAsInt
  <2>4. SegmentThrows(h, s, size) = FALSE
    BY <2>3 DEF SegmentThrows
  <2>5. PICK there : there = [at |-> from, failed |-> FALSE]
    OBVIOUS
  <2>6. Seek(stream, Offset(h, s)) = there
    <3>1. (stream.failed \/ from < 0) = FALSE
      BY <1>1
    <3>2. Seek(stream, from) = [stream EXCEPT !.at = from]
      BY <3>1, Zenon DEF Seek
    <3>3. [stream EXCEPT !.at = from] = there
      <4>1. PICK d : d = [stream EXCEPT !.at = from]
        OBVIOUS
      <4> QED
        BY <1>1, <2>5, <4>1, Elsewhere
    <3> QED
      BY <3>2, <3>3, Zenon
  <2>7. ReadsSegment(q, h, s, asked, size)
          = [ok |-> TRUE, parts |-> Append(parts, Piece(there, count, size)),
             stream |-> After(there, count, size)]
    <3>1. q.ok = TRUE /\ q.stream = stream /\ q.parts = parts
      BY <1>2
    <3> QED
      BY <1>4, <2>3, <2>4, <2>6, <3>1, Zenon DEF ReadsSegment
  <2>8. /\ Piece(there, count, size) = [at |-> from, count |-> count]
        /\ After(there, count, size) = [at |-> from + count, failed |-> FALSE]
    BY <2>5, WholeRead
  <2>9. PICK piece : piece = [at |-> from, count |-> count]
    OBVIOUS
  <2>10. PICK left : left = [at |-> from + count, failed |-> FALSE]
    OBVIOUS
  <2>11. ReadsSegment(q, h, s, asked, size)
           = [ok |-> TRUE, parts |-> Append(parts, piece), stream |-> left]
    BY <2>7, <2>8, <2>9, <2>10, Zenon
  <2>12. from + count \in Nat
    OBVIOUS
  <2> QED
    <3>1. With(parts, s, asked, from, count) = Append(parts, piece)
      BY <1>4, <2>9, Zenon DEF With
    <3>2. Reading(Append(parts, piece), from + count)
            = [ok |-> TRUE, parts |-> Append(parts, piece), stream |-> left]
      BY <2>10, Zenon DEF Reading
    <3> QED
      BY <1>2, <2>11, <2>12, <3>1, <3>2, Zenon
<1> QED
  BY <1>3, <1>4

(* The parts of an image that lies in a file an int can count.              *)
Part(h, s, before, asked) ==
  IF s \in asked
  THEN <<[at |-> h.src + before, count |-> SegmentSize(h, s)]>> ELSE <<>>

LEMMA SegmentsRead ==
  ASSUME NEW h \in MbnHeaders, NEW size \in Nat, NEW asked,
         h.src + h.code + h.signature + h.certs <= size,
         MaxHeader <= size, size < Word \div 2
  PROVE  ReadsSegments(h, asked, size).parts
           = Part(h, "code", 0, asked) \o Part(h, "signature", h.code, asked)
               \o Part(h, "x509", h.code + h.signature, asked)
<1>1. PICK src, code, signature, certs \in Nat :
        src = h.src /\ code = h.code /\ signature = h.signature /\ certs = h.certs
  BY ImageAssumption
<1>2. Word \in Nat
  BY ImageAssumption
<1>3. /\ SegmentSize(h, "code") = code
      /\ SegmentSize(h, "signature") = signature
      /\ SegmentSize(h, "x509") = certs
  BY <1>1 DEF SegmentSize
<1>4. /\ src < Word \div 2
      /\ src + code \in Nat /\ src + code < Word \div 2
      /\ src + code + signature \in Nat /\ src + code + signature < Word \div 2
  BY <1>1, <1>2
<1>5. /\ Offset(h, "code") = src
      /\ Offset(h, "signature") = src + code
      /\ Offset(h, "x509") = src + code + signature
  <2>1. AsInt(src) = src
    BY <1>4, SmallAsInt
  <2>2. AsInt(src + code) = src + code
    BY <1>4, SmallAsInt
  <2>3. AsInt(src + code + signature) = src + code + signature
    BY <1>4, SmallAsInt
  <2> QED
    BY <1>1, <2>1, <2>2, <2>3 DEF Offset
<1>6. PICK header \in Nat : header = (IF h.magic THEN Header80 ELSE Header40) /\ header <= size
  BY ImageAssumption
<1>7. After(Opened, header, size) = [at |-> header, failed |-> FALSE]
  <2>1. /\ Opened = [at |-> 0, failed |-> FALSE]
        /\ 0 + header <= size /\ 0 \in Nat /\ 0 + header = header
    BY <1>6 DEF Opened
  <2>2. After([at |-> 0, failed |-> FALSE], header, size)
          = [at |-> 0 + header, failed |-> FALSE]
    BY <2>1, WholeRead
  <2> QED
    BY <2>1, <2>2, Zenon
<1>8. PICK r1 : r1 = ReadsSegment(Reading(<<>>, header), h, "code", asked, size)
  OBVIOUS
<1>9. PICK r2 : r2 = ReadsSegment(r1, h, "signature", asked, size)
  OBVIOUS
<1>10. ReadsSegments(h, asked, size) = ReadsSegment(r2, h, "x509", asked, size)
  <2>1. Reading(<<>>, header)
          = [ok |-> TRUE, parts |-> <<>>, stream |-> After(Opened, header, size)]
    BY <1>7, Zenon DEF Reading
  <2> QED
    BY <1>6, <1>8, <1>9, <2>1, Zenon DEF ReadsSegments
<1>11. PICK p1 : p1 = With(<<>>, "code", asked, src, code)
  OBVIOUS
<1>12. PICK p2 : p2 = With(p1, "signature", asked, src + code, signature)
  OBVIOUS
<1>13. PICK p3 : p3 = With(p2, "x509", asked, src + code + signature, certs)
  OBVIOUS
<1>14. /\ src + code <= size
       /\ src + code + signature <= size
       /\ src + code + signature + certs <= size
  BY <1>1
<1>15. PICK e1 \in Nat : r1 = Reading(p1, e1)
  BY <1>3, <1>5, <1>8, <1>11, <1>14, SegmentGiven
<1>16. PICK e2 \in Nat : r2 = Reading(p2, e2)
  BY <1>3, <1>4, <1>5, <1>9, <1>12, <1>14, <1>15, SegmentGiven
<1>17. PICK e3 \in Nat : ReadsSegments(h, asked, size) = Reading(p3, e3)
  BY <1>3, <1>4, <1>5, <1>10, <1>13, <1>14, <1>16, SegmentGiven
<1>18. /\ Part(h, "code", 0, asked)
            = IF "code" \in asked THEN <<[at |-> src, count |-> code]>> ELSE <<>>
       /\ Part(h, "signature", h.code, asked)
            = IF "signature" \in asked
              THEN <<[at |-> src + code, count |-> signature]>> ELSE <<>>
       /\ Part(h, "x509", h.code + h.signature, asked)
            = IF "x509" \in asked
              THEN <<[at |-> src + code + signature, count |-> certs]>> ELSE <<>>
  <2>1. /\ h.src + 0 = src
        /\ h.src + h.code = src + code
        /\ h.src + (h.code + h.signature) = src + code + signature
    BY <1>1
  <2> QED
    BY <1>3, <2>1, Zenon DEF Part
<1>19. p3 = Part(h, "code", 0, asked) \o Part(h, "signature", h.code, asked)
              \o Part(h, "x509", h.code + h.signature, asked)
  <2> DEFINE S == [at : Nat, count : Nat]
  <2>1. PICK x1, x2, x3 \in S :
          /\ x1 = [at |-> src, count |-> code]
          /\ x2 = [at |-> src + code, count |-> signature]
          /\ x3 = [at |-> src + code + signature, count |-> certs]
    BY <1>1, <1>4
  <2> HIDE DEF S
  <2>2. /\ p1 = IF "code" \in asked THEN Append(<<>>, x1) ELSE <<>>
        /\ p2 = IF "signature" \in asked THEN Append(p1, x2) ELSE p1
        /\ p3 = IF "x509" \in asked THEN Append(p2, x3) ELSE p2
    BY <1>11, <1>12, <1>13, <2>1, Zenon DEF With
  <2>3. p1 \in Seq(S) /\ p1 = IF "code" \in asked THEN <<x1>> ELSE <<>>
    BY <2>2
  <2>4. p2 \in Seq(S) /\ p2 = p1 \o IF "signature" \in asked THEN <<x2>> ELSE <<>>
    <3>1. Append(p1, x2) = p1 \o <<x2>> /\ Append(p1, x2) \in Seq(S)
      BY <2>3
    <3>2. p1 \o <<>> = p1
      BY <2>3
    <3> QED
      BY <2>2, <2>3, <3>1, <3>2, Zenon
  <2>5. p3 = p2 \o IF "x509" \in asked THEN <<x3>> ELSE <<>>
    <3>1. Append(p2, x3) = p2 \o <<x3>>
      BY <2>4
    <3>2. p2 \o <<>> = p2
      BY <2>4
    <3> QED
      BY <2>2, <3>1, <3>2, Zenon
  <2> QED
    BY <1>18, <2>1, <2>3, <2>4, <2>5, Zenon
<1>20. Reading(p3, e3).parts = p3
  BY DEF Reading
<1> QED
  BY <1>17, <1>19, <1>20, Zenon

(* An image whose parts lie in its file is given part behind part, whole:   *)
(* for headers and segments of any size, in every file shorter than what an *)
(* int counts, which is what the offsets are kept in.                       *)
THEOREM SegmentsFollowHolds == ImageSpec => []SegmentsFollow
<1>1. ImageInit => SegmentsFollow
  BY DEF ImageInit, SegmentsFollow
<1>2. SegmentsFollow /\ [ImageNext]_imageVars => SegmentsFollow'
  <2>1. ParseGpt => SegmentsFollow'
    BY DEF ParseGpt, Throwing, Giving, SegmentsFollow
  <2>2. ParsePartitionTxt => SegmentsFollow'
    BY DEF ParsePartitionTxt, Throwing, Giving, SegmentsFollow
  <2>3. SegmentsFollow /\ UNCHANGED imageVars => SegmentsFollow'
    BY DEF SegmentsFollow, imageVars
  <2>4. ParseMbn => SegmentsFollow'
    <3> SUFFICES ASSUME ParseMbn
                 PROVE  SegmentsFollow'
      OBVIOUS
    <3>1. PICK h \in MbnHeaders, size \in FileSizes, asked \in SUBSET Segments :
            LET what == [header |-> h, size |-> size, segments |-> asked]
                r == ReadsSegments(h, asked, size)
            IN  \/ Throwing("mbn", what)
                \/ ~(size < MaxHeader) /\ Giving("mbn", what, r.parts)
      BY Zenon DEF ParseMbn
    <3>2. PICK what : what = [header |-> h, size |-> size, segments |-> asked]
      OBVIOUS
    <3>3. PICK parts : parts = ReadsSegments(h, asked, size).parts
      OBVIOUS
    <3>4. CASE Throwing("mbn", what)
      BY <3>4 DEF Throwing, SegmentsFollow
    <3>5. CASE ~(size < MaxHeader) /\ Giving("mbn", what, parts)
      <4>1. parsed' = [parser |-> "mbn", asked |-> what, ok |-> TRUE, parts |-> parts]
        BY <3>5 DEF Giving
      <4>2. size \in Nat /\ MaxHeader \in Nat
        BY ImageAssumption
      <4>3. size < Word \div 2 /\ h.src + h.code + h.signature + h.certs <= size =>
              parts = Part(h, "code", 0, asked) \o Part(h, "signature", h.code, asked)
                        \o Part(h, "x509", h.code + h.signature, asked)
        BY <3>3, <3>5, <4>2, SegmentsRead
      <4>4. /\ parsed'.parts = parts /\ parsed'.asked.header = h
            /\ parsed'.asked.segments = asked /\ parsed'.asked.size = size
        BY <3>2, <4>1
      <4> QED
        BY <4>3, <4>4, Zenon DEF SegmentsFollow, Part
    <3> QED
      BY <3>1, <3>2, <3>3, <3>4, <3>5, Zenon
  <2> QED
    BY <2>1, <2>2, <2>3, <2>4 DEF ImageNext
<1> QED
  BY <1>1, <1>2, PTL DEF ImageSpec

----------------------------------------------------------------------------
(* LafSerial.                                                               *)

Speakers == {"phone", "host", "nobody"}
Units == [from : Speakers, of : Nat, at : Nat, size : Nat, fails : BOOLEAN]
BufferPlaces == 1 .. Header + LafRoom

(* Behind the beginning of an answer on the line is all of the answer. *)
WholeAt(s, p) ==
  \A i \in 1 .. Header + s[p].size :
    /\ p + i - 1 <= Len(s)
    /\ s[p + i - 1] = LafUnit("phone", s[p].of, i, s[p].size, s[p].fails)
StreamOK(s) ==
  /\ s \in Seq(Units)
  /\ \A p \in 1 .. Len(s) : s[p].at = 1 => s[p].size <= LafRoom /\ WholeAt(s, p)

LafOK ==
  /\ StreamOK(lafRx)
  /\ lafBuffer \in [BufferPlaces -> Units]
  /\ lafCalls \in Nat
  /\ LafTextIsAnswers

LEMMA UnitTyped ==
  ASSUME NEW from \in Speakers, NEW of \in Nat, NEW at \in Nat, NEW size \in Nat,
         NEW fails \in BOOLEAN
  PROVE  /\ LafUnit(from, of, at, size, fails) \in Units
         /\ LafUnit(from, of, at, size, fails).at = at
         /\ LafUnit(from, of, at, size, fails).of = of
         /\ LafUnit(from, of, at, size, fails).size = size
         /\ LafUnit(from, of, at, size, fails).fails = fails
BY DEF LafUnit, Units

(* A packet is the sequence of its units. *)
LEMMA PacketTyped ==
  ASSUME NEW from \in Speakers, NEW of \in Nat, NEW size \in Nat, NEW fails \in BOOLEAN
  PROVE  /\ Packet(from, of, size, fails) \in Seq(Units)
         /\ Len(Packet(from, of, size, fails)) = Header + size
         /\ \A i \in 1 .. Header + size :
              Packet(from, of, size, fails)[i] = LafUnit(from, of, i, size, fails)
<1>1. PICK n \in Nat : n = Header + size
  BY DEF Header
<1>2. \A i \in 1 .. n : LafUnit(from, of, i, size, fails) \in Units
  BY UnitTyped
<1>3. PICK q : q = [i \in 1 .. n |-> LafUnit(from, of, i, size, fails)]
  OBVIOUS
<1>4. q \in [1 .. n -> Units]
  BY <1>2, <1>3
<1>5. q \in Seq(Units) /\ Len(q) = n
  BY <1>1, <1>4
<1>6. Packet(from, of, size, fails) = q
  BY <1>1, <1>3, Zenon DEF Packet
<1> QED
  BY <1>1, <1>3, <1>5, <1>6

(* A whole answer behind what is on the line leaves all there is whole.     *)
LEMMA AnswerJoins ==
  ASSUME NEW s, StreamOK(s), NEW of \in Nat, NEW size \in 0 .. LafRoom,
         NEW fails \in BOOLEAN
  PROVE  StreamOK(s \o Packet("phone", of, size, fails))
<1>1. PICK q : q = Packet("phone", of, size, fails)
  OBVIOUS
<1>2. LafRoom \in Nat /\ size \in Nat /\ "phone" \in Speakers
  BY LafAssumption DEF Speakers
<1>3. /\ q \in Seq(Units) /\ Len(q) = Header + size
      /\ \A i \in 1 .. Header + size : q[i] = LafUnit("phone", of, i, size, fails)
  BY <1>1, <1>2, PacketTyped
<1>4. PICK t : t = s \o q
  OBVIOUS
<1>5. s \in Seq(Units) /\ Header \in Nat /\ q \in Seq(Units)
  BY <1>3 DEF StreamOK, Header
<1>6. /\ t \in Seq(Units) /\ Len(t) = Len(s) + Len(q)
      /\ \A i \in 1 .. Len(s) : t[i] = s[i]
      /\ \A i \in 1 .. Len(q) : t[Len(s) + i] = q[i]
  <2>1. PICK k, l \in Nat : k = Len(s) /\ l = Len(q)
    BY <1>5, LenProperties
  <2>2. /\ t \in Seq(Units) /\ Len(t) = k + l
        /\ \A i \in 1 .. k + l : t[i] = IF i <= k THEN s[i] ELSE q[i - k]
    BY <1>4, <1>5, <2>1, ConcatProperties, Zenon
  <2>3. \A i \in 1 .. l : k + i \in 1 .. k + l /\ ~(k + i <= k) /\ (k + i) - k = i
    BY <2>1
  <2>4. \A i \in 1 .. l : t[k + i] = q[i]
    BY <2>2, <2>3
  <2>5. \A i \in 1 .. k : i \in 1 .. k + l /\ i <= k
    BY <2>1
  <2>6. \A i \in 1 .. k : t[i] = s[i]
    BY <2>2, <2>5
  <2> QED
    BY <2>1, <2>2, <2>4, <2>6, Zenon
<1>6a. Len(s) \in Nat /\ Len(q) \in Nat /\ Len(t) \in Nat
  BY <1>5, <1>6, LenProperties
<1>7. ASSUME NEW p \in 1 .. Len(t), t[p].at = 1
      PROVE  t[p].size <= LafRoom /\ WholeAt(t, p)
  <2>1. CASE p \in 1 .. Len(s)
    <3>1. t[p] = s[p] /\ s[p] \in Units
      BY <1>5, <1>6, <2>1
    <3>2. s[p].size <= LafRoom /\ WholeAt(s, p) /\ s[p].size \in Nat
      BY <1>7, <2>1, <3>1 DEF StreamOK, Units
    <3>3. ASSUME NEW i \in 1 .. Header + s[p].size
          PROVE  /\ p + i - 1 <= Len(t)
                 /\ t[p + i - 1] = LafUnit("phone", s[p].of, i, s[p].size, s[p].fails)
      <4>1. /\ p + i - 1 <= Len(s)
            /\ s[p + i - 1] = LafUnit("phone", s[p].of, i, s[p].size, s[p].fails)
        BY <3>2 DEF WholeAt
      <4>2. p + i - 1 <= Len(s)
        BY <4>1
      <4>3. p + i - 1 \in 1 .. Len(s) /\ p + i - 1 <= Len(t)
        BY <1>5, <1>6, <1>6a, <2>1, <3>2, <4>2
      <4> QED
        BY <1>6, <4>1, <4>3, Zenon
    <3> QED
      BY <3>1, <3>2, <3>3 DEF WholeAt
  <2>2. CASE p \notin 1 .. Len(s)
    <3>1. PICK k \in 1 .. Len(q) : p = Len(s) + k
      <4>1. p - Len(s) \in 1 .. Len(q)
        BY <1>6, <1>6a, <2>2
      <4>2. PICK k \in 1 .. Len(q) : k = p - Len(s)
        BY <4>1
      <4>3. p = Len(s) + k
        BY <1>6a, <4>2
      <4> QED
        BY <4>3
    <3>2. t[p] = LafUnit("phone", of, k, size, fails)
      BY <1>3, <1>6, <3>1
    <3>3. /\ k = 1 /\ t[p].of = of /\ t[p].size = size /\ t[p].fails = fails
      <4>1. k \in Nat
        BY <1>6a
      <4> QED
        BY <1>2, <1>7, <3>2, <4>1, UnitTyped
    <3>4. ASSUME NEW i \in 1 .. Header + size
          PROVE  /\ p + i - 1 <= Len(t)
                 /\ t[p + i - 1] = LafUnit("phone", of, i, size, fails)
      <4>1. p + i - 1 = Len(s) + i
        BY <1>2, <1>5, <3>1, <3>3
      <4>2. i \in 1 .. Len(q) /\ Len(s) + i <= Len(t)
        BY <1>2, <1>3, <1>5, <1>6
      <4> QED
        BY <1>3, <1>6, <4>1, <4>2
    <3>5. WholeAt(t, p)
      BY <3>3, <3>4, Zenon DEF WholeAt
    <3> QED
      BY <3>3, <3>5
  <2> QED
    BY <2>1, <2>2
<1> QED
  BY <1>1, <1>4, <1>6, <1>7 DEF StreamOK

LEMMA LinesWhole ==
  ASSUME LafOK, NEW line \in Lines
  PROVE  StreamOK(line)
<1>1. PICK answer \in LafAnswers : line = lafRx \o answer
  BY DEF Lines
<1>2. CASE answer = <<>>
  BY <1>1, <1>2 DEF LafOK, StreamOK
<1>3. CASE answer # <<>>
  <2>1. PICK n \in LafTexts, fails \in BOOLEAN : answer = Packet("phone", Sent, n, fails)
    <3>1. LafAnswers \subseteq
            {<<>>} \cup {Packet("phone", Sent, n, fails) : n \in LafTexts, fails \in BOOLEAN}
      BY DEF LafAnswers
    <3>2. answer \in {Packet("phone", Sent, n, fails) : n \in LafTexts, fails \in BOOLEAN}
      BY <1>3, <3>1
    <3> QED
      BY <3>2
  <2>2. n \in 0 .. LafRoom /\ Sent \in Nat
    BY LafAssumption DEF Sent, LafOK
  <2>3. StreamOK(lafRx)
    BY DEF LafOK
  <2>4. StreamOK(lafRx \o Packet("phone", Sent, n, fails))
    BY <2>2, <2>3, AnswerJoins
  <2> QED
    BY <1>1, <2>1, <2>4, Zenon
<1> QED
  BY <1>2, <1>3

(* What a read leaves of a line. *)
LEMMA RestWhole ==
  ASSUME NEW s, StreamOK(s), NEW count \in 0 .. Len(s)
  PROVE  StreamOK(SubSeq(s, count + 1, Len(s)))
<1>1. s \in Seq(Units) /\ Len(s) \in Nat
  BY DEF StreamOK
<1>2. PICK t : t = SubSeq(s, count + 1, Len(s))
  OBVIOUS
<1>3. /\ t \in Seq(Units) /\ Len(t) = Len(s) - count
      /\ \A i \in 1 .. Len(t) : t[i] = s[count + i]
  BY <1>1, <1>2
<1>4. ASSUME NEW p \in 1 .. Len(t), t[p].at = 1
      PROVE  t[p].size <= LafRoom /\ WholeAt(t, p)
  <2>1. PICK k \in 1 .. Len(s) : k = count + p
    BY <1>1, <1>3
  <2>2. t[p] = s[k] /\ s[k] \in Units
    BY <1>1, <1>3, <2>1
  <2>3. s[k].size <= LafRoom /\ WholeAt(s, k) /\ s[k].size \in Nat
    BY <1>4, <2>2 DEF StreamOK, Units
  <2>4. ASSUME NEW i \in 1 .. Header + s[k].size
        PROVE  /\ p + i - 1 <= Len(t)
               /\ t[p + i - 1] = LafUnit("phone", s[k].of, i, s[k].size, s[k].fails)
    <3>1. /\ k + i - 1 <= Len(s)
          /\ s[k + i - 1] = LafUnit("phone", s[k].of, i, s[k].size, s[k].fails)
      BY <2>3 DEF WholeAt
    <3>2. k + i - 1 <= Len(s)
      BY <3>1
    <3>3. /\ p + i - 1 \in 1 .. Len(t) /\ p + i - 1 <= Len(t)
          /\ count + (p + i - 1) = k + i - 1
      <4>1. PICK m, c \in Nat : m = Len(s) /\ c = count
        BY <1>1
      <4>2. Len(t) = m - c
        BY <1>3, <4>1
      <4>3. p \in 1 .. m - c /\ k = c + p /\ k + i - 1 <= m
        BY <2>1, <3>2, <4>1, <4>2
      <4>4. i \in Nat /\ i >= 1
        BY <2>3 DEF Header
      <4>5. p + i - 1 \in 1 .. m - c /\ c + (p + i - 1) = k + i - 1
        BY <4>1, <4>3, <4>4
      <4> QED
        BY <4>1, <4>2, <4>5
    <3>4. t[p + i - 1] = s[k + i - 1]
      BY <1>3, <3>3
    <3> QED
      BY <3>1, <3>3, <3>4, Zenon
  <2> QED
    BY <2>2, <2>3, <2>4 DEF WholeAt
<1> QED
  BY <1>2, <1>3, <1>4 DEF StreamOK

LEMMA OverTyped ==
  ASSUME NEW buffer \in [BufferPlaces -> Units], NEW units \in Seq(Units)
  PROVE  /\ Over(buffer, units) \in [BufferPlaces -> Units]
         /\ \A i \in BufferPlaces : i \in 1 .. Len(units) => Over(buffer, units)[i] = units[i]
BY DEF Over

LEMMA AsksTyped ==
  ASSUME LafOK, NEW size \in Nat
  PROVE  Asks(size) \in [BufferPlaces -> Units]
<1>1. Sent \in Nat /\ FALSE \in BOOLEAN /\ "host" \in Speakers
  BY DEF Sent, LafOK, Speakers
<1>2. Packet("host", Sent, size, FALSE) \in Seq(Units)
  BY <1>1, PacketTyped
<1> QED
  BY <1>2, OverTyped DEF Asks, LafOK

(* The text of an answer that came first, and whole. *)
AnswersText(unit) ==
  [i \in 1 .. unit.size |-> LafUnit("phone", unit.of, Header + i, unit.size, FALSE)]

LEMMA TextRead ==
  ASSUME NEW line, StreamOK(line), NEW count \in 0 .. Len(line),
         NEW came, came = SubSeq(line, 1, count),
         NEW buffer \in [BufferPlaces -> Units],
         came # <<>>, came[1].at = 1, ~came[1].fails,
         Header + came[1].size <= Len(came)
  PROVE  Result(Over(buffer, came), count) = AnswersText(came[1])
<1>1. line \in Seq(Units) /\ Len(line) \in Nat /\ LafRoom \in Nat
  BY LafAssumption DEF StreamOK
<1>2. /\ came \in Seq(Units) /\ Len(came) = count
      /\ \A i \in 1 .. count : came[i] = line[i]
  BY <1>1
<1>3. count \in Nat \ {0} /\ came[1] = line[1] /\ 1 \in 1 .. Len(line)
  BY <1>1, <1>2
<1>4. PICK of \in Nat, size \in Nat : of = came[1].of /\ size = came[1].size
  BY <1>1, <1>2, <1>3 DEF Units
<1>5. size <= LafRoom /\ WholeAt(line, 1)
  BY <1>3, <1>4 DEF StreamOK
<1>6. came[1].fails = FALSE
  BY <1>1, <1>2, <1>3 DEF Units
<1>7. PICK read : read = Over(buffer, came)
  OBVIOUS
<1>8. ASSUME NEW i \in 1 .. Header + size
      PROVE  read[i] = LafUnit("phone", of, i, size, FALSE)
  <2>1. i \in BufferPlaces /\ i \in 1 .. count /\ 1 + i - 1 = i
    BY <1>1, <1>2, <1>4, <1>5 DEF BufferPlaces, Header
  <2>2. read[i] = line[i]
    BY <1>2, <1>7, <2>1, OverTyped
  <2>3. line[i] = LafUnit("phone", of, i, size, FALSE)
    BY <1>3, <1>4, <1>5, <1>6, <2>1 DEF WholeAt
  <2> QED
    BY <2>2, <2>3
<1>9. /\ read[1].at = 1 /\ read[1].fails = FALSE
      /\ read[2].at = 2 /\ read[2].size = size
  <2>1. 1 \in 1 .. Header + size /\ 2 \in 1 .. Header + size /\ "phone" \in Speakers
    BY <1>4 DEF Header, Speakers
  <2>2. /\ read[1] = LafUnit("phone", of, 1, size, FALSE)
        /\ read[2] = LafUnit("phone", of, 2, size, FALSE)
    BY <1>8, <2>1, Zenon
  <2> QED
    BY <2>2 DEF LafUnit
<1>10. Result(read, count) = SubSeq(read, Header + 1, Header + size)
  <2>1. (count = 0) = FALSE /\ (read[1].at # 1 \/ read[2].at # 2) = FALSE
    BY <1>3, <1>9
  <2> QED
    BY <1>9, <2>1, Zenon DEF Result, Text
<1>11. SubSeq(read, Header + 1, Header + size)
         = [i \in 1 .. size |-> LafUnit("phone", of, Header + i, size, FALSE)]
  <2>1. read \in [1 .. Header + LafRoom -> Units] /\ Header = 2
    BY <1>2, <1>7, OverTyped DEF BufferPlaces, Header
  <2>2. read \in Seq(Units) /\ Len(read) = Header + LafRoom
    BY <1>1, <2>1
  <2>3. PICK t : t = SubSeq(read, Header + 1, Header + size)
    OBVIOUS
  <2>4. /\ t \in Seq(Units) /\ Len(t) = size
        /\ \A i \in 1 .. size : t[i] = read[Header + i]
    <3>1. PICK from, to \in Int : from = Header + 1 /\ to = Header + size
      BY <1>4, <2>1
    <3>2. \A i \in from .. to : read[i] \in Units
      BY <1>1, <1>4, <1>5, <2>1, <3>1
    <3>3. /\ t \in Seq(Units)
          /\ Len(t) = IF from <= to THEN to - from + 1 ELSE 0
          /\ \A i \in 1 .. to - from + 1 : t[i] = read[from + i - 1]
      BY <2>3, <3>1, <3>2, SubSeqProperties
    <3>4. \A i \in 1 .. size : i \in 1 .. to - from + 1 /\ from + i - 1 = Header + i
      BY <1>4, <2>1, <3>1
    <3>5. (IF from <= to THEN to - from + 1 ELSE 0) = size
      BY <1>4, <2>1, <3>1
    <3> QED
      BY <3>3, <3>4, <3>5
  <2>5. \A i \in 1 .. size : t[i] = LafUnit("phone", of, Header + i, size, FALSE)
    <3>1. \A i \in 1 .. size : Header + i \in 1 .. Header + size
      BY <1>4, <2>1
    <3> QED
      BY <1>8, <2>4, <3>1
  <2>6. PICK g : g = [i \in 1 .. size |-> LafUnit("phone", of, Header + i, size, FALSE)]
    OBVIOUS
  <2>7. /\ DOMAIN g = 1 .. size
        /\ \A i \in 1 .. size : g[i] = LafUnit("phone", of, Header + i, size, FALSE)
    BY <2>6, Zenon
  <2>8. \A i \in 1 .. size : g[i] = t[i]
    BY <2>5, <2>7, Zenon
  <2>9. t \in [1 .. size -> Units]
    BY <2>4, LenProperties, Zenon
  <2>10. g = [i \in 1 .. size |-> g[i]] /\ t = [i \in 1 .. size |-> t[i]]
    BY <2>6, <2>7, <2>9
  <2> QED
    BY <2>3, <2>6, <2>8, <2>10
<1> QED
  BY <1>4, <1>7, <1>10, <1>11, Zenon DEF AnswersText

LEMMA WritesKeepLaf == LafOK /\ WritesOnly => LafOK'
<1> SUFFICES ASSUME LafOK, WritesOnly
             PROVE  LafOK'
  OBVIOUS
<1>1. StreamOK(lafRx')
  BY LinesWhole DEF WritesOnly
<1>2. lafCalls' \in Nat /\ UNCHANGED <<lafBuffer, lafLast>>
  BY DEF WritesOnly, Counts, Sent, LafOK
<1> QED
  BY <1>1, <1>2 DEF LafOK, LafTextIsAnswers

LEMMA CommandsKeepLaf == LafOK /\ SendLafCommand => LafOK'
<1> SUFFICES ASSUME LafOK, SendLafCommand
             PROVE  LafOK'
  OBVIOUS
<1>1. lafCalls' \in Nat
  BY DEF SendLafCommand, Counts, Sent, LafOK
<1>2. CASE SendNothing
  <2>1. lafRx' = lafRx /\ StreamOK(lafRx)
    BY <1>2, Zenon DEF SendNothing, LafOK
  <2>2. StreamOK(lafRx')
    BY <2>1, Zenon
  <2>3. \E result : lafLast' = [came |-> <<>>, result |-> result]
    BY <1>2, Zenon DEF SendNothing
  <2>4. lafLast'.came = <<>>
    BY <2>3
  <2>5. lafBuffer' = lafBuffer \/ lafBuffer' = Asks(0)
    BY <1>2, Zenon DEF SendNothing
  <2>6. 0 \in Nat /\ lafBuffer \in [BufferPlaces -> Units]
    BY DEF LafOK
  <2>7. lafBuffer' \in [BufferPlaces -> Units]
    BY <2>5, <2>6, AsksTyped, Zenon
  <2> QED
    BY <1>1, <2>2, <2>4, <2>7 DEF LafOK, LafTextIsAnswers
<1>3. CASE SendAndRead
  <2>1. PICK n \in LafCommands, line \in Lines :
          \E count \in 0 .. Len(line) :
            LET came == SubSeq(line, 1, count)
                read == Over(Asks(n + 1), came)
            IN  /\ lafRx' = SubSeq(line, count + 1, Len(line))
                /\ lafBuffer' = read
                /\ lafLast' = [came |-> came, result |-> Result(read, count)]
    BY <1>3, Zenon DEF SendAndRead
  <2>2. PICK count \in 0 .. Len(line) :
          LET came == SubSeq(line, 1, count)
              read == Over(Asks(n + 1), came)
          IN  /\ lafRx' = SubSeq(line, count + 1, Len(line))
              /\ lafBuffer' = read
              /\ lafLast' = [came |-> came, result |-> Result(read, count)]
    BY <2>1, Zenon
  <2>3. StreamOK(line)
    BY LinesWhole
  <2>4. PICK buffer \in [BufferPlaces -> Units] : buffer = Asks(n + 1)
    BY AsksTyped, LafAssumption
  <2>5. PICK came : came = SubSeq(line, 1, count)
    OBVIOUS
  <2>6. came \in Seq(Units)
    BY <2>3, <2>5 DEF StreamOK
  <2>7. /\ lafBuffer' = Over(buffer, came)
        /\ lafLast' = [came |-> came, result |-> Result(Over(buffer, came), count)]
    BY <2>2, <2>4, <2>5, Zenon
  <2>8. StreamOK(lafRx') /\ lafBuffer' \in [BufferPlaces -> Units]
    BY <2>2, <2>3, <2>6, <2>7, RestWhole, OverTyped
  <2>9. lafLast'.came = came /\ lafLast'.result = Result(Over(buffer, came), count)
    BY <2>7
  <2>10. LafTextIsAnswers'
    <3> SUFFICES ASSUME came # <<>>, came[1].at = 1, ~came[1].fails,
                        Header + came[1].size <= Len(came)
                 PROVE  Result(Over(buffer, came), count) = AnswersText(came[1])
      BY <2>9, Zenon DEF LafTextIsAnswers, AnswersText
    <3> QED
      BY <2>3, <2>5, TextRead
  <2> QED
    BY <1>1, <2>8, <2>10 DEF LafOK
<1> QED
  BY <1>2, <1>3 DEF SendLafCommand

(* An answer that is read first and whole is returned from the beginning of *)
(* its text to its end, whatever is read behind it and whatever was in the  *)
(* buffer: for calls in any order and number, answers that come at once,    *)
(* late, in any number or never, and reads that end anywhere.               *)
THEOREM LafTextIsAnswersHolds == LafSpec => []LafTextIsAnswers
<1>1. LafInit => LafOK
  <2> SUFFICES ASSUME LafInit
               PROVE  LafOK
    OBVIOUS
  <2>1. StreamOK(lafRx)
    BY DEF LafInit, StreamOK
  <2>2. LafUnit("nobody", 0, 0, 0, FALSE) \in Units
    <3>1. "nobody" \in Speakers /\ 0 \in Nat /\ FALSE \in BOOLEAN
      BY DEF Speakers
    <3> QED
      BY <3>1, UnitTyped, Zenon
  <2>3. lafBuffer \in [BufferPlaces -> Units]
    BY <2>2 DEF LafInit, BufferPlaces
  <2>4. lafCalls \in Nat /\ lafLast.came = <<>>
    BY DEF LafInit
  <2> QED
    BY <2>1, <2>3, <2>4 DEF LafOK, LafTextIsAnswers
<1>2. LafOK /\ [LafNext]_lafVars => LafOK'
  <2>1. LafOK /\ LafBoots => LafOK'
    BY DEF LafBoots, LafOK, LafTextIsAnswers, StreamOK
  <2>2. LafOK /\ UNCHANGED lafVars => LafOK'
    BY DEF lafVars, LafOK, LafTextIsAnswers, StreamOK, WholeAt
  <2> QED
    BY <2>1, <2>2, WritesKeepLaf, CommandsKeepLaf
       DEF LafNext, EnterLaf, SendHello, GetProperty, SendReset, SendPowerOff
<1>3. LafOK => LafTextIsAnswers
  BY DEF LafOK
<1> QED
  BY <1>1, <1>2, <1>3, PTL DEF LafSpec

----------------------------------------------------------------------------
(* Numerals.                                                                *)

Places(radix) == [x \in Nat \X Nat |-> x[1] * radix + x[2]]

LEMMA PlacesTyped ==
  ASSUME NEW radix \in Nat
  PROVE  /\ Places(radix) \in Steps(Nat, Nat)
         /\ \A a \in Nat, b \in Nat : Places(radix)[<<a, b>>] = a * radix + b
<1>1. \A a \in Nat, b \in Nat : a * radix + b \in Nat
  OBVIOUS
<1> QED
  BY <1>1 DEF Places, Steps

LEMMA NumeralFolds ==
  ASSUME NEW radix \in Nat, NEW seq \in Seq(Nat)
  PROVE  Numeral(seq, radix) = Fold(Places(radix), 0, seq)
<1>1. /\ Places(radix) \in Steps(Nat, Nat)
      /\ \A a \in Nat, b \in Nat : Places(radix)[<<a, b>>] = a * radix + b
  BY PlacesTyped
<1>2. PICK h : IsFolding(h, Nat, Places(radix), 0, seq)
  BY <1>1, FoldExists
<1>3. PICK n \in Nat : n = Len(seq) /\ DOMAIN seq = 1 .. n
  OBVIOUS
<1>4. h = [s \in SUBSET DOMAIN seq |->
             IF s = {} THEN 0 ELSE h[s \ {Max(s)}] * radix + seq[Max(s)]]
  <2>1. /\ h \in [SUBSET (1 .. n) -> Nat]
        /\ h = [s \in SUBSET (1 .. n) |->
                  IF s = {} THEN 0 ELSE Places(radix)[<<h[s \ {Max(s)}], seq[Max(s)]>>]]
        /\ \A s \in SUBSET (1 .. n) : s # {} => Max(s) \in 1 .. n
    BY <1>2, <1>3, Zenon DEF IsFolding, FoldsPlaces
  <2>2. ASSUME NEW s \in SUBSET (1 .. n)
        PROVE  h[s] = IF s = {} THEN 0 ELSE h[s \ {Max(s)}] * radix + seq[Max(s)]
    <3>1. h[s] = IF s = {} THEN 0 ELSE Places(radix)[<<h[s \ {Max(s)}], seq[Max(s)]>>]
      BY <2>1, Zenon
    <3>2. CASE s # {}
      <4>1. Max(s) \in 1 .. n
        BY <2>1, <3>2
      <4>2. seq[Max(s)] \in Nat
        BY <1>3, <4>1
      <4>3. PICK t \in SUBSET (1 .. n) : t = s \ {Max(s)}
        OBVIOUS
      <4>4. h[t] \in Nat
        BY <2>1
      <4> QED
        BY <1>1, <3>1, <3>2, <4>2, <4>3, <4>4, Zenon
    <3> QED
      BY <3>1, <3>2, Zenon
  <2> QED
    BY <1>3, <2>1, <2>2, Zenon
<1>5. PICK g : g = CHOOSE f : f = [s \in SUBSET DOMAIN seq |->
                                   IF s = {} THEN 0
                                   ELSE f[s \ {Max(s)}] * radix + seq[Max(s)]]
  OBVIOUS
<1>6. g = [s \in SUBSET DOMAIN seq |->
             IF s = {} THEN 0 ELSE g[s \ {Max(s)}] * radix + seq[Max(s)]]
  BY <1>4, <1>5, Zenon
<1>7. Numeral(seq, radix) = g[DOMAIN seq]
  BY <1>5, Zenon DEF Numeral, FoldLeft, MapThenFoldSet
<1>8. g[1 .. 0] = 0
  <2>1. 1 .. 0 = {}
    OBVIOUS
  <2> QED
    BY <1>6, <2>1, Zenon
<1>9. ASSUME NEW k \in 1 .. Len(seq), NEW a \in Nat, g[1 .. k - 1] = a
      PROVE  g[1 .. k] = Places(radix)[<<a, seq[k]>>]
  <2>1. 1 .. k \in SUBSET (1 .. n) /\ 1 .. k # {} /\ k \in 1 .. k /\ k \in Nat
    <3>1. k \in Nat /\ 1 <= k /\ k <= n
      BY <1>3
    <3>2. k \in 1 .. k /\ 1 .. k \in SUBSET (1 .. n)
      BY <3>1
    <3> QED
      BY <3>1, <3>2
  <2>2. Max(1 .. k) = k
    BY <2>1, MaxIs
  <2>3. (1 .. k) \ {k} = 1 .. k - 1
    BY <2>1
  <2>4. seq[k] \in Nat
    OBVIOUS
  <2>5. g[1 .. k] = g[(1 .. k) \ {k}] * radix + seq[k]
    BY <1>3, <1>6, <2>1, <2>2, Zenon
  <2>6. PICK b \in Nat : b = seq[k]
    BY <2>4, Zenon
  <2>7. Places(radix)[<<a, b>>] = a * radix + b
    BY PlacesTyped, Zenon
  <2>8. g[(1 .. k) \ {k}] = a
    BY <1>9, <2>3, Zenon
  <2> QED
    BY <2>5, <2>6, <2>7, <2>8, Zenon
<1>10. 0 \in Nat
  OBVIOUS
<1> QED
  <2>1. \A k \in 1 .. Len(seq), a \in Nat :
          g[1 .. k - 1] = a => g[1 .. k] = Places(radix)[<<a, seq[k]>>]
    BY <1>9, Zenon
  <2>2. PICK F : F = Places(radix)
    OBVIOUS
  <2>3. \A k \in 1 .. Len(seq), a \in Nat :
          g[1 .. k - 1] = a => g[1 .. k] = F[<<a, seq[k]>>]
    BY <2>1, <2>2, Zenon
  <2>4. g[DOMAIN seq] = Fold(F, 0, seq)
    <3>1. PICK A, zero, s : A = Nat /\ zero = 0 /\ s = seq
      OBVIOUS
    <3>2. /\ F \in Steps(A, A) /\ zero \in A /\ s \in Seq(A)
          /\ g[1 .. 0] = zero
          /\ \A k \in 1 .. Len(s), a \in A :
               g[1 .. k - 1] = a => g[1 .. k] = F[<<a, s[k]>>]
      BY <1>1, <1>8, <1>10, <2>2, <2>3, <3>1, Zenon
    <3>3. g[DOMAIN s] = Fold(F, zero, s)
      BY <3>2, FoldIs
    <3> QED
      BY <3>1, <3>3, Zenon
  <2> QED
    BY <1>7, <2>2, <2>4, Zenon

LEMMA NumeralTyped ==
  ASSUME NEW radix \in Nat, NEW seq \in Seq(Nat)
  PROVE  Numeral(seq, radix) \in Nat
<1>1. Places(radix) \in Steps(Nat, Nat) /\ 0 \in Nat
  BY PlacesTyped
<1>2. Fold(Places(radix), 0, seq) \in Nat
  BY <1>1, FoldTyped, Zenon
<1> QED
  BY <1>2, NumeralFolds

LEMMA NumeralOneMore ==
  ASSUME NEW radix \in Nat, NEW seq \in Seq(Nat), NEW digit \in Nat
  PROVE  Numeral(Append(seq, digit), radix) = Numeral(seq, radix) * radix + digit
<1>1. Places(radix) \in Steps(Nat, Nat) /\ 0 \in Nat
  BY PlacesTyped
<1>2. Fold(Places(radix), 0, Append(seq, digit))
        = Places(radix)[<<Fold(Places(radix), 0, seq), digit>>]
  <2>1. PICK A, F, zero : A = Nat /\ F = Places(radix) /\ zero = 0
    OBVIOUS
  <2>2. F \in Steps(A, A) /\ zero \in A /\ seq \in Seq(A) /\ digit \in A
    BY <1>1, <2>1, Zenon
  <2>3. Fold(F, zero, Append(seq, digit)) = F[<<Fold(F, zero, seq), digit>>]
    BY <2>2, FoldOneMore
  <2> QED
    BY <2>1, <2>3, Zenon
<1>3. Append(seq, digit) \in Seq(Nat)
  OBVIOUS
<1>4. /\ Numeral(seq, radix) = Fold(Places(radix), 0, seq)
      /\ Numeral(Append(seq, digit), radix) = Fold(Places(radix), 0, Append(seq, digit))
  BY <1>3, NumeralFolds, Zenon
<1>5. Numeral(Append(seq, digit), radix) = Places(radix)[<<Numeral(seq, radix), digit>>]
  BY <1>2, <1>4, Zenon
<1> QED
  BY <1>5, NumeralTyped, PlacesTyped, Zenon

LEMMA NumeralOfOne ==
  ASSUME NEW radix \in Nat, NEW digit \in Nat
  PROVE  Numeral(<<digit>>, radix) = digit
<1>1. Places(radix) \in Steps(Nat, Nat) /\ 0 \in Nat
  BY PlacesTyped
<1>2. Fold(Places(radix), 0, <<>>) = 0
  BY <1>1, FoldOfNone, Zenon
<1>3. PICK none \in Seq(Nat) : none = <<>> /\ Append(none, digit) = <<digit>>
  <2>1. <<>> \in Seq(Nat) /\ Append(<<>>, digit) = <<digit>>
    OBVIOUS
  <2> QED
    BY <2>1, Zenon
<1>4. Numeral(none, radix) = 0
  BY <1>2, <1>3, NumeralFolds, Zenon
<1>5. Numeral(Append(none, digit), radix) = Numeral(none, radix) * radix + digit
  BY NumeralOneMore
<1> QED
  BY <1>3, <1>4, <1>5

(* What is printed of a number, digit by digit: the numeral without zeros   *)
(* before it.                                                               *)

Shows(g, radix, last) ==
  /\ g \in [0 .. last -> Seq(Nat)]
  /\ \A m \in 0 .. last :
       g[m] = IF m < radix THEN <<m>> ELSE Append(g[m \div radix], m % radix)

LEMMA Divided ==
  \A radix, m \in Nat : radix > 1 =>
    /\ m \div radix \in Nat
    /\ m % radix \in Nat
    /\ m = (m \div radix) * radix + (m % radix)
    /\ m >= radix => m \div radix < m /\ m \div radix \in 0 .. m - 1
<1>1. ASSUME NEW radix \in Nat, NEW m \in Nat, radix > 1
      PROVE  /\ m \div radix \in Nat
             /\ m % radix \in Nat
             /\ m = (m \div radix) * radix + (m % radix)
             /\ m >= radix => m \div radix < m
  BY <1>1
<1>2. ASSUME NEW radix \in Nat, NEW m \in Nat, radix > 1, m >= radix
      PROVE  m \div radix \in 0 .. m - 1
  BY <1>1, <1>2
<1> QED
  BY <1>1, <1>2

LEMMA ShowsExist ==
  ASSUME NEW radix \in Nat, radix > 1, NEW last \in Nat
  PROVE  \E g : Shows(g, radix, last)
<1> DEFINE N == {n \in Nat : \E g : Shows(g, radix, n)}
<1>1. 0 \in N
  <2>1. PICK g : g = [m \in 0 .. 0 |-> <<0>>]
    OBVIOUS
  <2>2. /\ g \in [0 .. 0 -> Seq(Nat)]
        /\ \A m \in 0 .. 0 : m < radix /\ g[m] = <<m>>
    BY <2>1
  <2>3. Shows(g, radix, 0)
    BY <2>2, Zenon DEF Shows
  <2> QED
    BY <2>3
<1>2. ASSUME NEW n \in N
      PROVE  n + 1 \in N
  <2>1. n \in Nat
    BY Zenon
  <2>2. PICK g : Shows(g, radix, n)
    BY Zenon
  <2>3. PICK k \in Nat : k = n + 1
    BY <2>1
  <2>4. PICK shown \in Seq(Nat) :
          shown = IF k < radix THEN <<k>> ELSE Append(g[k \div radix], k % radix)
    <3>1. CASE k < radix
      <4>1. <<k>> \in Seq(Nat)
        OBVIOUS
      <4> QED
        BY <3>1, <4>1, Zenon
    <3>2. CASE ~(k < radix)
      <4>1. k \div radix \in 0 .. n /\ k % radix \in Nat
        <5>1. k >= radix /\ k - 1 = n
          BY <2>1, <2>3, <3>2
        <5> QED
          BY <5>1, Divided, Zenon
      <4>2. g[k \div radix] \in Seq(Nat)
        BY <2>2, <4>1 DEF Shows
      <4>3. Append(g[k \div radix], k % radix) \in Seq(Nat)
        BY <4>1, <4>2
      <4> QED
        BY <3>2, <4>3, Zenon
    <3> QED
      BY <3>1, <3>2
  <2>5. PICK h : h = [m \in 0 .. k |-> IF m = k THEN shown ELSE g[m]]
    OBVIOUS
  <2>6. /\ h[k] = shown
        /\ \A m \in 0 .. n : h[m] = g[m]
        /\ \A m \in 0 .. k : m = k \/ m \in 0 .. n
    BY <2>1, <2>3, <2>5
  <2>7. h \in [0 .. k -> Seq(Nat)]
    <3>1. \A m \in 0 .. k : h[m] \in Seq(Nat)
      BY <2>2, <2>4, <2>6 DEF Shows
    <3> QED
      BY <2>5, <3>1
  <2>8. ASSUME NEW m \in 0 .. k
        PROVE  h[m] = IF m < radix THEN <<m>> ELSE Append(h[m \div radix], m % radix)
    <3>1. m \in Nat /\ (m >= radix => m \div radix \in 0 .. n)
      <4>1. m \in Nat /\ 0 .. m - 1 \subseteq 0 .. n
        BY <2>1, <2>3
      <4> QED
        BY <4>1, Divided, Zenon
    <3>2. ~(m < radix) => m >= radix
      BY <3>1
    <3>3. CASE m = k
      BY <2>4, <2>6, <3>1, <3>2, <3>3, Zenon
    <3>4. CASE m \in 0 .. n
      BY <2>2, <2>6, <3>1, <3>2, <3>4, Zenon DEF Shows
    <3> QED
      BY <2>6, <3>3, <3>4, Zenon
  <2>9. Shows(h, radix, k)
    BY <2>7, <2>8, Zenon DEF Shows
  <2> QED
    BY <2>3, <2>9, Zenon
<1> HIDE DEF N
<1>3. N = Nat
  <2>1. N \in SUBSET Nat
    BY DEF N
  <2> QED
    BY <1>1, <1>2, <2>1, NumbersInduct
<1> QED
  BY <1>3 DEF N

LEMMA ShowsAgree ==
  ASSUME NEW radix \in Nat, radix > 1, NEW n \in Nat, NEW m \in Nat,
         NEW g, Shows(g, radix, n), NEW h, Shows(h, radix, m)
  PROVE  \A k \in Nat : k <= n /\ k <= m => g[k] = h[k]
<1> DEFINE T == {k \in Nat : k <= n /\ k <= m => g[k] = h[k]}
<1>1. ASSUME NEW k \in Nat, \A l \in 0 .. k - 1 : l \in T
      PROVE  k \in T
  <2>1. SUFFICES ASSUME k <= n, k <= m
                 PROVE  g[k] = h[k]
    OBVIOUS
  <2>2. k \in 0 .. n /\ k \in 0 .. m
    BY <2>1
  <2>3. /\ g[k] = IF k < radix THEN <<k>> ELSE Append(g[k \div radix], k % radix)
        /\ h[k] = IF k < radix THEN <<k>> ELSE Append(h[k \div radix], k % radix)
    BY <2>2, Zenon DEF Shows
  <2>4. CASE ~(k < radix)
    <3>1. PICK q \in Nat : q = k \div radix /\ q \in 0 .. k - 1
      <4>1. k >= radix
        BY <2>4
      <4> QED
        BY <4>1, Divided, Zenon
    <3>2. q <= n /\ q <= m
      BY <2>1, <3>1
    <3>3. g[q] = h[q]
      BY <1>1, <3>1, <3>2
    <3> QED
      BY <2>3, <3>1, <3>3, Zenon
  <2> QED
    BY <2>3, <2>4, Zenon
<1> HIDE DEF T
<1>2. T = Nat
  <2>1. T \in SUBSET Nat
    BY DEF T
  <2> QED
    BY <1>1, <2>1, NumbersInductFully
<1> QED
  BY <1>2 DEF T

LEMMA ShownIs ==
  ASSUME NEW radix \in Nat, radix > 1
  PROVE  \A n \in Nat :
           Shown(n, radix) = IF n < radix THEN <<n>>
                             ELSE Append(Shown(n \div radix, radix), n % radix)
<1>1. PICK part : part = [n \in Nat |-> CHOOSE g : Shows(g, radix, n)]
  OBVIOUS
<1>2. \A n \in Nat : Shows(part[n], radix, n)
  BY <1>1, ShowsExist, Zenon
<1>3. PICK f : f = [n \in Nat |-> part[n][n]]
  OBVIOUS
<1>4. ASSUME NEW n \in Nat
      PROVE  f[n] = IF n < radix THEN <<n>> ELSE Append(f[n \div radix], n % radix)
  <2>1. n \in 0 .. n
    OBVIOUS
  <2>2. f[n] = IF n < radix THEN <<n>> ELSE Append(part[n][n \div radix], n % radix)
    BY <1>2, <1>3, <2>1, Zenon DEF Shows
  <2>3. CASE ~(n < radix)
    <3>1. PICK q \in Nat : q = n \div radix /\ q <= n
      <4>1. n >= radix
        BY <2>3
      <4>2. PICK q \in Nat : q = n \div radix /\ q \in 0 .. n - 1
        BY <4>1, Divided, Zenon
      <4>3. q <= n
        BY <4>2
      <4> QED
        BY <4>2, <4>3, Zenon
    <3>2. q <= q
      OBVIOUS
    <3>3. part[n][q] = part[q][q]
      BY <1>2, <3>1, <3>2, ShowsAgree
    <3> QED
      BY <1>3, <2>2, <3>1, <3>3, Zenon
  <2> QED
    BY <2>2, <2>3, Zenon
<1>5. f = [n \in Nat |-> IF n < radix THEN <<n>> ELSE Append(f[n \div radix], n % radix)]
  BY <1>3, <1>4, Zenon
<1>6. PICK s : s = CHOOSE g : g = [n \in Nat |-> IF n < radix THEN <<n>>
                                                 ELSE Append(g[n \div radix], n % radix)]
  OBVIOUS
<1>7. s = [n \in Nat |-> IF n < radix THEN <<n>> ELSE Append(s[n \div radix], n % radix)]
  BY <1>5, <1>6, Zenon
<1>8. \A n : Shown(n, radix) = s[n]
  BY <1>6, Zenon DEF Shown
<1> QED
  BY <1>7, <1>8, Zenon

LEMMA ShownTyped ==
  ASSUME NEW radix \in Nat, radix > 1
  PROVE  \A n \in Nat : /\ Shown(n, radix) \in Seq(Nat)
                        /\ Len(Shown(n, radix)) >= 1
                        /\ Numeral(Shown(n, radix), radix) = n
<1> DEFINE Right(n) == /\ Shown(n, radix) \in Seq(Nat)
                       /\ Len(Shown(n, radix)) >= 1
                       /\ Numeral(Shown(n, radix), radix) = n
           T == {n \in Nat : Right(n)}
<1>1. ASSUME NEW n \in Nat, \A m \in 0 .. n - 1 : m \in T
      PROVE  n \in T
  <2>1. CASE n < radix
    <3>1. Shown(n, radix) = <<n>>
      BY <2>1, ShownIs, Zenon
    <3>2. <<n>> \in Seq(Nat) /\ Len(<<n>>) >= 1
      OBVIOUS
    <3> QED
      BY <3>1, <3>2, NumeralOfOne, Zenon
  <2>2. CASE ~(n < radix)
    <3>0. n >= radix
      BY <2>2
    <3>1. PICK q \in Nat, d \in Nat :
            /\ q = n \div radix /\ d = n % radix
            /\ q \in 0 .. n - 1
            /\ n = q * radix + d
      BY <3>0, Divided, Zenon
    <3>2. q \in T
      BY <1>1, <3>1, Zenon
    <3>3. PICK s \in Seq(Nat) : s = Shown(q, radix) /\ Numeral(s, radix) = q
      BY <3>2, Zenon
    <3>4. Shown(n, radix) = Append(s, d)
      BY <2>2, <3>1, <3>3, ShownIs, Zenon
    <3>5. Append(s, d) \in Seq(Nat) /\ Len(Append(s, d)) >= 1
      OBVIOUS
    <3>6. Numeral(Append(s, d), radix) = Numeral(s, radix) * radix + d
      BY NumeralOneMore, Zenon
    <3> QED
      BY <3>1, <3>3, <3>4, <3>5, <3>6, Zenon
  <2> QED
    BY <2>1, <2>2
<1> HIDE DEF T
<1>2. T = Nat
  <2>1. T \in SUBSET Nat
    BY DEF T
  <2> QED
    BY <1>1, <2>1, NumbersInductFully
<1> QED
  BY <1>2, Zenon DEF T

(* A smaller number is not longer. *)
LEMMA ShownGrows ==
  ASSUME NEW radix \in Nat, radix > 1, NEW m \in Nat, NEW n \in Nat, m <= n
  PROVE  Len(Shown(m, radix)) <= Len(Shown(n, radix))
<1> DEFINE T == {k \in Nat :
                  \A l \in 0 .. k : Len(Shown(l, radix)) <= Len(Shown(k, radix))}
<1>1. ASSUME NEW k \in Nat, \A j \in 0 .. k - 1 : j \in T
      PROVE  k \in T
  <2>1. SUFFICES ASSUME NEW l \in 0 .. k
                 PROVE  Len(Shown(l, radix)) <= Len(Shown(k, radix))
    OBVIOUS
  <2>2. l \in Nat
    OBVIOUS
  <2>3. Len(Shown(k, radix)) \in Nat /\ Len(Shown(k, radix)) >= 1
    <3>1. PICK s \in Seq(Nat) : s = Shown(k, radix) /\ Len(s) >= 1
      BY ShownTyped, Zenon
    <3>2. Len(s) \in Nat
      OBVIOUS
    <3> QED
      BY <3>1, <3>2, Zenon
  <2>4. CASE l < radix
    <3>1. Shown(l, radix) = <<l>>
      BY <2>2, <2>4, ShownIs, Zenon
    <3>2. Len(<<l>>) = 1
      OBVIOUS
    <3> QED
      BY <2>3, <3>1, <3>2
  <2>5. CASE ~(l < radix)
    <3>1. l >= radix /\ k >= radix /\ ~(k < radix)
      BY <2>2, <2>5
    <3>2. PICK p \in Nat, c \in Nat : p = l \div radix /\ c = l % radix
      BY <2>2, Divided, Zenon
    <3>3. PICK q \in Nat, d \in Nat :
            q = k \div radix /\ d = k % radix /\ q \in 0 .. k - 1
      BY <3>1, Divided, Zenon
    <3>4. l \div radix <= k \div radix
      BY <2>2
    <3>5. p \in 0 .. q
      BY <3>2, <3>3, <3>4
    <3>6. PICK s \in Seq(Nat) : s = Shown(p, radix)
      BY ShownTyped, Zenon
    <3>7. PICK t \in Seq(Nat) : t = Shown(q, radix)
      BY ShownTyped, Zenon
    <3>8. Len(s) <= Len(t)
      BY <1>1, <3>3, <3>5, <3>6, <3>7, Zenon
    <3>9. Shown(l, radix) = Append(s, c) /\ Shown(k, radix) = Append(t, d)
      BY <2>2, <2>5, <3>1, <3>2, <3>3, <3>6, <3>7, ShownIs, Zenon
    <3>10. Len(Append(s, c)) = Len(s) + 1 /\ Len(Append(t, d)) = Len(t) + 1
      OBVIOUS
    <3>11. Len(Append(s, c)) <= Len(Append(t, d))
      BY <3>8, <3>10
    <3> QED
      BY <3>9, <3>11, Zenon
  <2> QED
    BY <2>4, <2>5
<1> HIDE DEF T
<1>2. T = Nat
  <2>1. T \in SUBSET Nat
    BY DEF T
  <2> QED
    BY <1>1, <2>1, NumbersInductFully
<1>3. m \in 0 .. n
  OBVIOUS
<1> QED
  BY <1>2, <1>3, Zenon DEF T

----------------------------------------------------------------------------
(* Identities.                                                              *)

MeidSpec == MeidInit /\ [][MeidNext]_meidVars

LEMMA FormsTyped ==
  ASSUME NEW form \in DOMAIN Forms
  PROVE  /\ Forms[form][1] \in Nat /\ Forms[form][2] \in Nat
         /\ BaseOf(form) \in Nat /\ BaseOf(form) > 1
<1>1. form \in {"meidHex", "meidDec", "esnHex", "esnDec"}
  BY DEF Forms
<1>2. \A parts \in {MeidHex, MeidDec, EsnHex, EsnDec} : parts[1] \in Nat /\ parts[2] \in Nat
  BY MeidAssumption
<1>3. Forms[form] \in {MeidHex, MeidDec, EsnHex, EsnDec}
  BY <1>1 DEF Forms
<1>4. /\ HexBase \in Nat /\ HexBase > 1
      /\ DecBase \in Nat /\ DecBase > 1
  <2>1. HexBase \in Nat \ {0, 1} /\ DecBase \in Nat \ {0, 1}
    BY MeidAssumption
  <2> QED
    BY <2>1
<1> QED
  BY <1>2, <1>3, <1>4 DEF BaseOf

Parts32 == 0 .. PartRange - 1

LEMMA ValuedTyped ==
  ASSUME NEW radix \in Nat, NEW seq \in Seq(Nat)
  PROVE  Valued(seq, radix) \in Parts32
<1>1. PICK n \in Nat : n = Numeral(seq, radix)
  BY NumeralTyped
<1>2. PICK r \in Nat : r = PartRange /\ r > 0
  <2>1. PartRange \in Nat \ {0}
    BY MeidAssumption
  <2> QED
    BY <2>1
<1>3. n % r \in 0 .. r - 1
  BY <1>2
<1> QED
  BY <1>1, <1>2, <1>3 DEF Valued, Parts32

(* What has the length of a form is converted as one of that length.        *)
LEMMA ConvertedForm ==
  ASSUME NEW digits, FormsOf(digits) # {}
  PROVE  \E form \in DOMAIN Forms :
           /\ Forms[form][1] + Forms[form][2] = Len(digits)
           /\ Converted(digits)
                = [form |-> form,
                   p1 |-> Valued(SubSeq(digits, 1, Forms[form][1]), BaseOf(form)),
                   p2 |-> Valued(SubSeq(digits, Forms[form][1] + 1, Len(digits)),
                                 BaseOf(form))]
<1>1. PICK form : form = CHOOSE f \in FormsOf(digits) : TRUE
  OBVIOUS
<1>2. form \in FormsOf(digits)
  BY <1>1
<1>3. form \in DOMAIN Forms /\ Forms[form][1] + Forms[form][2] = Len(digits)
  BY <1>2, Zenon DEF FormsOf
<1> QED
  BY <1>1, <1>3, Zenon DEF Converted

LEMMA ConvertedTyped ==
  ASSUME NEW digits \in Seq(Nat), FormsOf(digits) # {}
  PROVE  Converted(digits).p1 \in Parts32 /\ Converted(digits).p2 \in Parts32
<1>1. PICK form \in DOMAIN Forms :
        /\ Forms[form][1] + Forms[form][2] = Len(digits)
        /\ Converted(digits)
             = [form |-> form,
                p1 |-> Valued(SubSeq(digits, 1, Forms[form][1]), BaseOf(form)),
                p2 |-> Valued(SubSeq(digits, Forms[form][1] + 1, Len(digits)),
                              BaseOf(form))]
  BY ConvertedForm
<1>2. PICK a \in Nat, b \in Nat : a = Forms[form][1] /\ b = Forms[form][2]
  BY FormsTyped, Zenon
<1>3. SubSeq(digits, 1, a) \in Seq(Nat) /\ SubSeq(digits, a + 1, Len(digits)) \in Seq(Nat)
  <2>1. a + b = Len(digits)
    BY <1>1, <1>2
  <2>2. \A i \in 1 .. Len(digits) : digits[i] \in Nat
    OBVIOUS
  <2> QED
    BY <2>1, <2>2
<1>4. PICK p, q : p = Valued(SubSeq(digits, 1, a), BaseOf(form))
                  /\ q = Valued(SubSeq(digits, a + 1, Len(digits)), BaseOf(form))
  OBVIOUS
<1>5. p \in Parts32 /\ q \in Parts32
  BY <1>3, <1>4, FormsTyped, ValuedTyped, Zenon
<1>6. Converted(digits) = [form |-> form, p1 |-> p, p2 |-> q]
  BY <1>1, <1>2, <1>4, Zenon
<1> QED
  BY <1>5, <1>6

LEMMA Joined ==
  ASSUME NEW s \in Seq(Nat), NEW t \in Seq(Nat)
  PROVE  /\ Len(s \o t) = Len(s) + Len(t)
         /\ SubSeq(s \o t, 1, Len(s)) = s
         /\ SubSeq(s \o t, Len(s) + 1, Len(s \o t)) = t
<1>1. PICK u \in Seq(Nat) : u = s \o t
  <2>1. s \o t \in Seq(Nat)
    OBVIOUS
  <2> QED
    BY <2>1, Zenon
<1>2. /\ Len(u) = Len(s) + Len(t) /\ Len(s) \in Nat /\ Len(t) \in Nat
      /\ \A i \in 1 .. Len(s) : u[i] = s[i]
      /\ \A i \in 1 .. Len(t) : u[Len(s) + i] = t[i]
  BY <1>1
<1>3. SubSeq(u, 1, Len(s)) = s
  BY <1>2
<1>4. SubSeq(u, Len(s) + 1, Len(u)) = t
  <2>1. PICK m \in Nat, n \in Nat : m = Len(s) /\ n = Len(t) /\ Len(u) = m + n
    BY <1>2
  <2>2. PICK v : v = SubSeq(u, m + 1, m + n)
    OBVIOUS
  <2>3. /\ v \in Seq(Nat) /\ Len(v) = n
        /\ \A i \in 1 .. n : v[i] = u[m + i]
    <3>1. PICK a \in Int, b \in Int : a = m + 1 /\ b = m + n
      BY <2>1
    <3>2. \A i \in a .. b : u[i] \in Nat
      BY <2>1, <3>1
    <3>3. /\ SubSeq(u, a, b) \in Seq(Nat)
          /\ Len(SubSeq(u, a, b)) = IF a <= b THEN b - a + 1 ELSE 0
          /\ \A i \in 1 .. b - a + 1 : SubSeq(u, a, b)[i] = u[a + i - 1]
      BY <3>2, SubSeqProperties
    <3>4. v = SubSeq(u, a, b)
      BY <2>2, <3>1, Zenon
    <3>5. /\ (IF a <= b THEN b - a + 1 ELSE 0) = n /\ b - a + 1 = n
          /\ \A i \in 1 .. n : a + i - 1 = m + i
      BY <3>1
    <3> QED
      BY <3>3, <3>4, <3>5, Zenon
  <2>4. \A i \in 1 .. n : v[i] = t[i]
    BY <1>2, <2>1, <2>3
  <2>5. v = t
    <3>1. Len(v) = Len(t) /\ \A i \in 1 .. Len(v) : v[i] = t[i]
      BY <2>1, <2>3, <2>4, Zenon
    <3> QED
      BY <2>3, <3>1, SeqEqual
  <2> QED
    BY <2>1, <2>2, <2>5, Zenon
<1> QED
  BY <1>1, <1>2, <1>3, <1>4, Zenon

(* Two parts that are printed with all the digits of their form, and taken  *)
(* for it, are what they were.                                              *)
LEMMA ReadBack ==
  ASSUME NEW form \in DOMAIN Forms, NEW p1 \in Parts32, NEW p2 \in Parts32, NEW digits,
         digits = Shown(p1, BaseOf(form)) \o Shown(p2, BaseOf(form)),
         Len(Shown(p1, BaseOf(form))) = Forms[form][1],
         FormsOf(digits) # {}, Converted(digits).form = form
  PROVE  Converted(digits).p1 = p1 /\ Converted(digits).p2 = p2
<1>1. PICK radix \in Nat : radix = BaseOf(form) /\ radix > 1
  BY FormsTyped
<1>2. PICK r \in Nat : r = PartRange /\ r > 0
  <2>1. PartRange \in Nat \ {0}
    BY MeidAssumption
  <2> QED
    BY <2>1
<1>3. p1 \in Nat /\ p2 \in Nat /\ p1 % r = p1 /\ p2 % r = p2
  BY <1>2 DEF Parts32
<1>4. PICK s \in Seq(Nat) : s = Shown(p1, radix) /\ Valued(s, radix) = p1
  <2>1. PICK s \in Seq(Nat) : s = Shown(p1, radix) /\ Numeral(s, radix) = p1
    BY <1>1, <1>3, ShownTyped, Zenon
  <2>2. Valued(s, radix) = p1
    BY <1>2, <1>3, <2>1, Zenon DEF Valued
  <2> QED
    BY <2>1, <2>2, Zenon
<1>5. PICK t \in Seq(Nat) : t = Shown(p2, radix) /\ Valued(t, radix) = p2
  <2>1. PICK t \in Seq(Nat) : t = Shown(p2, radix) /\ Numeral(t, radix) = p2
    BY <1>1, <1>3, ShownTyped, Zenon
  <2>2. Valued(t, radix) = p2
    BY <1>2, <1>3, <2>1, Zenon DEF Valued
  <2> QED
    BY <2>1, <2>2, Zenon
<1>6. PICK f \in DOMAIN Forms :
        Converted(digits)
          = [form |-> f,
             p1 |-> Valued(SubSeq(digits, 1, Forms[f][1]), BaseOf(f)),
             p2 |-> Valued(SubSeq(digits, Forms[f][1] + 1, Len(digits)), BaseOf(f))]
  BY ConvertedForm
<1>7. f = form
  BY <1>6
<1>8. /\ SubSeq(digits, 1, Forms[f][1]) = s
      /\ SubSeq(digits, Forms[f][1] + 1, Len(digits)) = t
  <2>1. digits = s \o t /\ Forms[f][1] = Len(s)
    BY <1>1, <1>4, <1>5, <1>7, Zenon
  <2>2. /\ SubSeq(s \o t, 1, Len(s)) = s
        /\ SubSeq(s \o t, Len(s) + 1, Len(s \o t)) = t
    BY Joined
  <2> QED
    BY <2>1, <2>2, Zenon
<1>9. Converted(digits) = [form |-> f, p1 |-> p1, p2 |-> p2]
  BY <1>1, <1>4, <1>5, <1>6, <1>7, <1>8, Zenon
<1> QED
  BY <1>9

MeidOK ==
  /\ first.p1 \in Parts32 /\ first.p2 \in Parts32
  /\ first = NotConverted => printed = "none"

LEMMA FirstTyped ==
  ASSUME MeidOK, ConvertFirst
  PROVE  MeidOK' /\ printed' = "none"
<1>0. PICK f \in DOMAIN Forms :
        \E digits \in [1 .. Forms[f][1] + Forms[f][2] -> 0 .. BaseOf(f) - 1] :
          first' = Converted(digits)
  BY Zenon DEF ConvertFirst
<1>1. PICK digits \in [1 .. Forms[f][1] + Forms[f][2] -> 0 .. BaseOf(f) - 1] :
        first' = Converted(digits)
  BY <1>0, Zenon
<1>2. PICK n \in Nat : n = Forms[f][1] + Forms[f][2]
  BY FormsTyped
<1>3. digits \in Seq(Nat) /\ Len(digits) = n
  <2>1. 0 .. BaseOf(f) - 1 \subseteq Nat
    BY FormsTyped
  <2>2. digits \in [1 .. n -> Nat]
    BY <1>2, <2>1
  <2> QED
    BY <2>2
<1>4. FormsOf(digits) # {}
  BY <1>2, <1>3, Zenon DEF FormsOf
<1>5. printed' = "none"
  BY Zenon DEF ConvertFirst, MeidOK
<1> QED
  BY <1>1, <1>3, <1>4, <1>5, ConvertedTyped, Zenon DEF MeidOK

LEMMA PartLength ==
  ASSUME NEW p \in Parts32, NEW form \in {"meidHex", "meidDec"}
  PROVE  /\ Len(Shown(p, BaseOf(form))) \in Nat
         /\ Len(Shown(p, BaseOf(form))) <= Forms[form][1]
<1>1. form \in DOMAIN Forms
  BY DEF Forms
<1>2. PICK radix \in Nat : radix = BaseOf(form) /\ radix > 1
  BY <1>1, FormsTyped
<1>3. PICK n \in Nat : n = PartRange - 1 /\ p \in Nat /\ p <= n
  <2>1. PartRange \in Nat \ {0}
    BY MeidAssumption
  <2> QED
    BY <2>1 DEF Parts32
<1>4. Len(Shown(p, radix)) <= Len(Shown(n, radix))
  BY <1>2, <1>3, ShownGrows
<1>5. Len(Shown(p, radix)) \in Nat /\ Len(Shown(n, radix)) \in Nat
  BY <1>2, <1>3, ShownTyped
<1>6. Len(Shown(n, radix)) <= Forms[form][1]
  <2>1. Forms.meidHex = MeidHex /\ Forms.meidDec = MeidDec
    BY DEF Forms
  <2>2. BaseOf("meidHex") = HexBase /\ BaseOf("meidDec") = DecBase
    BY DEF BaseOf
  <2> QED
    BY <1>2, <1>3, <2>1, <2>2, MeidAssumption
<1>7. Forms[form][1] \in Nat
  BY <1>1, FormsTyped
<1> QED
  BY <1>2, <1>4, <1>5, <1>6, <1>7

LEMMA RoundTripStep ==
  ASSUME MeidOK, ConvertPrinted
  PROVE  MeidRoundTrips'
<1>1. PICK form \in DOMAIN Forms : \E digits :
        /\ IsMeid(form) = IsMeid(first.form)
        /\ printed' = form
        /\ digits = ShownAs(first, form)
        /\ digits # Endless
        /\ FormsOf(digits) # {}
        /\ second' = Converted(digits)
  BY Zenon DEF ConvertPrinted
<1>0. PICK digits :
        /\ IsMeid(form) = IsMeid(first.form)
        /\ printed' = form
        /\ digits = ShownAs(first, form)
        /\ digits # Endless
        /\ FormsOf(digits) # {}
        /\ second' = Converted(digits)
  BY <1>1, Zenon
<1>2. first' = first /\ first.p1 \in Parts32 /\ first.p2 \in Parts32
  BY DEF ConvertPrinted, MeidOK
<1>3. SUFFICES ASSUME form \in {"meidHex", "meidDec"}, Converted(digits).form = form,
                      form = "meidHex" => Len(Shown(first.p2, HexBase)) <= MeidHex[2]
               PROVE  Converted(digits).p1 = first.p1 /\ Converted(digits).p2 = first.p2
  BY <1>0, <1>2, Zenon DEF MeidRoundTrips, IsMeid
<1>4. IsMeid(first.form) = TRUE
  BY <1>0, <1>3 DEF IsMeid
<1>5. PICK p1 \in Parts32, p2 \in Parts32 : p1 = first.p1 /\ p2 = first.p2
  BY <1>2, Zenon
<1>6. PICK radix \in Nat : radix = BaseOf(form) /\ radix > 1
  BY FormsTyped
<1>7. PICK a \in Nat, b \in Nat : a = Forms[form][1] /\ b = Forms[form][2]
  BY FormsTyped, Zenon
<1>8. PICK s \in Seq(Nat) : s = Shown(p1, radix)
  <2>1. p1 \in Nat
    BY DEF Parts32
  <2> QED
    BY <1>6, <2>1, ShownTyped, Zenon
<1>9. PICK t \in Seq(Nat) : t = Shown(p2, radix)
  <2>1. p2 \in Nat
    BY DEF Parts32
  <2> QED
    BY <1>6, <2>1, ShownTyped, Zenon
<1>10. Len(s) <= a
  BY <1>3, <1>6, <1>7, <1>8, PartLength, Zenon
<1>11. Len(digits) = a + b
  <2>1. PICK f \in DOMAIN Forms :
          /\ Forms[f][1] + Forms[f][2] = Len(digits)
          /\ Converted(digits)
               = [form |-> f,
                  p1 |-> Valued(SubSeq(digits, 1, Forms[f][1]), BaseOf(f)),
                  p2 |-> Valued(SubSeq(digits, Forms[f][1] + 1, Len(digits)), BaseOf(f))]
    BY <1>0, ConvertedForm, Zenon
  <2>2. f = form
    BY <1>3, <2>1
  <2> QED
    BY <1>7, <2>1, <2>2, Zenon
<1>12. digits = s \o t /\ Len(s) = a
  <2>1. CASE form = "meidHex"
    <3>1. radix = HexBase /\ b = MeidHex[2]
      BY <1>6, <1>7, <2>1 DEF BaseOf, Forms
    <3>2. digits = s \o t
      <4>1. digits = MeidHexOf(first)
        BY <1>0, <2>1 DEF ShownAs
      <4> QED
        BY <1>4, <1>5, <1>8, <1>9, <3>1, <4>1, Zenon DEF MeidHexOf
    <3>3. Len(t) <= b
      BY <1>3, <1>5, <1>9, <2>1, <3>1, Zenon
    <3>4. Len(digits) = Len(s) + Len(t) /\ Len(s) \in Nat /\ Len(t) \in Nat
      BY <3>2
    <3>5. Len(s) = a
      BY <1>10, <1>11, <3>3, <3>4
    <3> QED
      BY <3>2, <3>5
  <2>2. CASE form = "meidDec"
    <3>1. radix = DecBase /\ a = MeidDec[1]
      BY <1>6, <1>7, <2>2 DEF BaseOf, Forms
    <3>2. digits = MeidDecOf(first)
      BY <1>0, <2>2 DEF ShownAs
    <3>3. digits = IF Len(s) < a THEN Endless ELSE s \o t
      BY <1>4, <1>5, <1>8, <1>9, <3>1, <3>2, Zenon DEF MeidDecOf
    <3>4. ~(Len(s) < a) /\ digits = s \o t
      BY <1>0, <3>3, Zenon
    <3>5. Len(s) \in Nat
      OBVIOUS
    <3>6. Len(s) = a
      BY <1>10, <3>4, <3>5
    <3> QED
      BY <3>4, <3>6
  <2> QED
    BY <1>3, <2>1, <2>2
<1>13. /\ digits = Shown(p1, BaseOf(form)) \o Shown(p2, BaseOf(form))
       /\ Len(Shown(p1, BaseOf(form))) = Forms[form][1]
  BY <1>6, <1>7, <1>8, <1>9, <1>12, Zenon
<1> QED
  <2>1. FormsOf(digits) # {} /\ Converted(digits).form = form
    BY <1>0, <1>3, Zenon
  <2>2. Converted(digits).p1 = p1 /\ Converted(digits).p2 = p2
    BY <1>13, <2>1, ReadBack
  <2> QED
    BY <1>5, <2>2, Zenon

(* A MEID that is printed in either base, and taken for one in that base,   *)
(* is the same, for sizes of any bases and parts.                           *)
THEOREM MeidRoundTripsHolds == MeidSpec => []MeidRoundTrips
<1>1. MeidInit => MeidOK /\ MeidRoundTrips
  <2>1. 0 \in Parts32
    <3>1. PartRange \in Nat \ {0}
      BY MeidAssumption
    <3> QED
      BY <3>1 DEF Parts32
  <2> QED
    BY <2>1 DEF MeidInit, NotConverted, MeidOK, MeidRoundTrips, IsMeid
<1>2. MeidOK /\ MeidRoundTrips /\ [MeidNext]_meidVars => MeidOK' /\ MeidRoundTrips'
  <2> SUFFICES ASSUME MeidOK, MeidRoundTrips, [MeidNext]_meidVars
               PROVE  MeidOK' /\ MeidRoundTrips'
    OBVIOUS
  <2>1. CASE ConvertFirst
    <3>1. MeidOK' /\ printed' = "none"
      BY <2>1, FirstTyped
    <3> QED
      BY <3>1 DEF MeidRoundTrips, IsMeid
  <2>2. CASE ConvertPrinted
    <3>1. first' = first
      BY <2>2, Zenon DEF ConvertPrinted
    <3>2. MeidOK'
      BY <2>2, <3>1, Zenon DEF MeidOK, ConvertPrinted
    <3> QED
      BY <2>2, <3>2, RoundTripStep
  <2>3. CASE UNCHANGED meidVars
    BY <2>3 DEF meidVars, MeidOK, MeidRoundTrips
  <2> QED
    BY <2>1, <2>2, <2>3 DEF MeidNext
<1> QED
  BY <1>1, <1>2, PTL DEF MeidSpec


----------------------------------------------------------------------------
(* Entries.                                                                 *)

XmlSpec == XmlInit /\ [][XmlNext]_xmlVars

(* What entries are made of: no number that was out of range.               *)
Told == {<<attr[1], attr[2], clean>> :
           attr \in RawAttributes \cup SaharaAttributes, clean \in BOOLEAN}
Kept == {t \in Told : t[1] \in NumberNames => ~OutOfRange(t)}

EntryOK ==
  /\ attrs \in Seq(Kept)
  /\ lastRead.attrs \in Seq(Kept)

LEMMA KeptIs ==
  ASSUME NEW attr \in RawAttributes \cup SaharaAttributes, NEW clean \in BOOLEAN,
         attr[1] \in NumberNames => ~OutOfRange(attr)
  PROVE  <<attr[1], attr[2], clean>> \in Kept
<1>1. PICK t : t = <<attr[1], attr[2], clean>>
  OBVIOUS
<1>2. t[1] = attr[1] /\ t[2] = attr[2]
  BY <1>1
<1>3. t \in Told
  BY <1>1 DEF Told
<1>4. PICK name, text : name = attr[1] /\ text = attr[2] /\ t[1] = name /\ t[2] = text
  BY <1>2
<1>5. OutOfRange(t) <=> OutOfRange(attr)
  BY <1>4, Zenon DEF OutOfRange
<1> QED
  BY <1>1, <1>2, <1>3, <1>5, Zenon DEF Kept

(* What becomes of an attribute: a number is kept when no error was there   *)
(* and it made none itself.                                                 *)
LEMMA ValueKept ==
  ASSUME NEW attr, NEW n, NEW clean, NEW errno, ReadsValue(attr, n, clean, errno)
  PROVE  /\ lastRead' = lastRead
         /\ \/ attrs' = NoEntry
            \/ /\ attrs' = Append(attrs, <<attr[1], attr[2], clean>>)
               /\ attr[1] \in NumberNames => ~errno /\ ~Overflows(n)
<1>1. CASE attr[1] \in NumberNames
  <2>0. attr[1] # "SIZE_IN_KB"
    BY <1>1 DEF NumberNames, RawNumbers
  <2>1. Converts(attr, n, clean, errno)
    BY <1>1, <2>0, Zenon DEF ReadsValue
  <2>2. Drops \/ (~errno /\ ~Overflows(n) /\ Keeps(attr, Cast(attr[1], n), clean))
    BY <2>1, Zenon DEF Converts, ToIntThrows
  <2> QED
    BY <2>2, Zenon DEF Drops, Keeps
<1>2. CASE attr[1] \notin NumberNames
  <2>1. Drops \/ \E m : Keeps(attr, m, clean)
    BY <1>2, Zenon DEF ReadsValue, Converts
  <2> QED
    BY <1>2, <2>1, Zenon DEF Drops, Keeps
<1> QED
  BY <1>1, <1>2

LEMMA EntryKept ==
  ASSUME EntryOK, NEW attr \in RawAttributes \cup SaharaAttributes, NEW clean \in BOOLEAN,
         lastRead' = lastRead,
         \/ attrs' = NoEntry
         \/ /\ attrs' = Append(attrs, <<attr[1], attr[2], clean>>)
            /\ attr[1] \in NumberNames => ~OutOfRange(attr)
  PROVE  EntryOK'
<1>1. CASE attrs' = NoEntry
  BY <1>1 DEF EntryOK, NoEntry
<1>2. CASE attrs' # NoEntry
  <2>1. PICK t \in Kept : attrs' = Append(attrs, t)
    BY <1>2, KeptIs, Zenon
  <2> QED
    BY <2>1 DEF EntryOK
<1> QED
  BY <1>1, <1>2

LEMMA RawStep ==
  ASSUME EntryOK, ReadsRaw
  PROVE  EntryOK'
<1>1. PICK attr \in RawAttributes :
        LET value == WithSectors(attr[2])
        IN  IF RequiresEvaluation(value)
            THEN /\ Evaluates(value)
                 /\ IF evaluated'.ok
                    THEN \E n \in Printed(evaluated'.value) :
                           ReadsValue(attr, Reread(attr[1], n), evaluated'.fresh,
                                      erange \/ Overlong(value))
                    ELSE Drops /\ erange' \in {erange, erange \/ Overlong(value)}
            ELSE /\ ReadsValue(attr, TextNumber(value, Base(attr[1])), TRUE, erange)
                 /\ UNCHANGED <<evaluator, evaluated>>
  BY Zenon DEF ReadsRaw
<1>2. PICK value : value = WithSectors(attr[2])
  OBVIOUS
<1>3. attr[1] \in NumberNames =>
        (OutOfRange(attr) <=>
           IF RequiresEvaluation(value) THEN Overlong(value)
           ELSE Overflows(TextNumber(value, Base(attr[1]))))
  <2>1. attr[1] \in NumberNames => attr[1] \in RawNumbers
    BY NamesAssumption DEF NumberNames
  <2> QED
    BY <1>2, <2>1, Zenon DEF OutOfRange
<1>4. CASE ~RequiresEvaluation(value)
  <2>1. ReadsValue(attr, TextNumber(value, Base(attr[1])), TRUE, erange)
    BY <1>1, <1>2, <1>4, Zenon
  <2>2. /\ lastRead' = lastRead
        /\ \/ attrs' = NoEntry
           \/ /\ attrs' = Append(attrs, <<attr[1], attr[2], TRUE>>)
              /\ attr[1] \in NumberNames => ~Overflows(TextNumber(value, Base(attr[1])))
    BY <2>1, ValueKept, Zenon
  <2>3. attr[1] \in NumberNames =>
          (OutOfRange(attr) <=> Overflows(TextNumber(value, Base(attr[1]))))
    BY <1>3, <1>4, Zenon
  <2> QED
    BY <2>2, <2>3, EntryKept, Zenon
<1>5. CASE RequiresEvaluation(value) /\ Drops
  BY <1>5 DEF Drops, EntryOK, NoEntry
<1>6. CASE RequiresEvaluation(value) /\ ~Drops
  <2>1. PICK n : ReadsValue(attr, n, evaluated'.fresh, erange \/ Overlong(value))
    BY <1>1, <1>2, <1>6, Zenon
  <2>2. PICK clean \in BOOLEAN : clean = evaluated'.fresh
    <3>1. Evaluates(value)
      BY <1>1, <1>2, <1>6, Zenon
    <3>2. evaluated'.fresh = (evaluator.ops = <<>>)
      BY <3>1 DEF Evaluates
    <3> QED
      BY <3>2, Zenon
  <2>3. /\ lastRead' = lastRead
        /\ \/ attrs' = NoEntry
           \/ /\ attrs' = Append(attrs, <<attr[1], attr[2], clean>>)
              /\ attr[1] \in NumberNames => ~(erange \/ Overlong(value))
    BY <2>1, <2>2, ValueKept, Zenon
  <2>4. attr[1] \in NumberNames => (OutOfRange(attr) <=> Overlong(value))
    BY <1>3, <1>6, Zenon
  <2> QED
    BY <2>3, <2>4, EntryKept, Zenon
<1> QED
  BY <1>4, <1>5, <1>6

LEMMA SaharaStep ==
  ASSUME EntryOK, ReadsSahara
  PROVE  EntryOK'
<1>1. PICK attr \in SaharaAttributes :
        IF attr[2] = <<>> /\ attr[1] # "PROGRAMMER"
        THEN UNCHANGED <<reading, attrs, entry, lastRead, erange>>
        ELSE ReadsValue(attr, TextNumber(attr[2], 10), TRUE, erange)
  BY Zenon DEF ReadsSahara
<1>2. CASE UNCHANGED <<reading, attrs, entry, lastRead, erange>>
  BY <1>2 DEF EntryOK
<1>3. CASE ReadsValue(attr, TextNumber(attr[2], 10), TRUE, erange)
  <2>1. attr[1] \in NumberNames => ~(attr[1] \in RawNumbers) /\ Base(attr[1]) = 10
    BY NamesAssumption DEF NumberNames, Base
  <2>2. attr[1] \in NumberNames => (OutOfRange(attr) <=> Overflows(TextNumber(attr[2], 10)))
    BY <2>1, Zenon DEF OutOfRange
  <2>3. /\ lastRead' = lastRead
        /\ \/ attrs' = NoEntry
           \/ /\ attrs' = Append(attrs, <<attr[1], attr[2], TRUE>>)
              /\ attr[1] \in NumberNames => ~Overflows(TextNumber(attr[2], 10))
    BY <1>3, ValueKept, Zenon
  <2> QED
    BY <2>2, <2>3, EntryKept, Zenon
<1> QED
  BY <1>1, <1>2, <1>3

(* No entry that is returned has a number made of one that 64 bits do not   *)
(* hold: for any attributes of any files, any number of sectors, and an     *)
(* errno left at anything by what ran before.                               *)
THEOREM RangeNeverPassesHolds == XmlSpec => []RangeNeverPasses
<1>1. XmlInit => EntryOK
  BY DEF XmlInit, EntryOK, NoEntry
<1>2. EntryOK /\ [XmlNext]_xmlVars => EntryOK'
  <2> SUFFICES ASSUME EntryOK, [XmlNext]_xmlVars
               PROVE  EntryOK'
    OBVIOUS
  <2>1. CASE ReadsAttribute
    BY <2>1, RawStep, SaharaStep, Zenon DEF ReadsAttribute
  <2>2. CASE UNCHANGED <<attrs, lastRead>>
    BY <2>2 DEF EntryOK
  <2>3. CASE EndsEntry
    BY <2>3 DEF EndsEntry, EntryOK, NoEntry
  <2>4. CASE StartsFile \/ EndsFile
    BY <2>2, <2>4 DEF StartsFile, EndsFile
  <2>5. CASE UNCHANGED xmlVars
    BY <2>2, <2>5 DEF xmlVars
  <2> QED
    BY <2>1, <2>3, <2>4, <2>5 DEF XmlNext
<1>3. EntryOK => RangeNeverPasses
  <2> SUFFICES ASSUME EntryOK, NEW i \in DOMAIN lastRead.attrs,
                      lastRead.attrs[i][1] \in NumberNames
               PROVE  ~OutOfRange(lastRead.attrs[i])
    BY DEF RangeNeverPasses
  <2>1. PICK t \in Kept : t = lastRead.attrs[i]
    BY DEF EntryOK
  <2> QED
    BY <2>1, Zenon DEF Kept
<1> QED
  BY <1>1, <1>2, <1>3, PTL DEF XmlSpec
=============================================================================
