------------------------------ MODULE ImageFiles ------------------------------
(***************************************************************************)
(* The parsers of binary files: MbnParser, GptParser and                   *)
(* PartitionTxtReader.  A file is its size and the numbers in its headers; *)
(* what is read of it is a piece, where it starts and how many bytes came. *)
(* A stream is where it stands and whether it has failed, after which it   *)
(* neither moves nor reads.                                                *)
(***************************************************************************)
EXTENDS Integers, Sequences, SequencesExt, FiniteSetsExt

CONSTANTS
  Word,          (* 2^32 in the code: how far numbers of a header go        *)
  MbnHeaders,    (* headers: [magic, id, src, code, signature, certs]       *)
  GptHeaders,    (* what may stand where a GPT header is read: a number of  *)
                 (* entries                                                 *)
  FileSizes,     (* of the files                                            *)
  TableStarts,   (* where the caller says the partition table begins        *)
  MbrSize, GptHeaderSize, GptEntrySize,
  PtxtEntrySize, PtxtLimit,
  Header80, Header40, MaxHeader, ImageLast

(* Sizes are of files and of structures; where a table begins is an off_t,  *)
(* and the numbers of an MBN header are of 32 bits.                         *)
ASSUME ImageAssumption ==
  /\ Word \in Nat
  /\ \A h \in MbnHeaders :
       {h.src, h.code, h.signature, h.certs} \subseteq 0 .. Word - 1
  /\ {Header80, Header40} \subseteq 0 .. MaxHeader
  /\ MaxHeader \in Nat
  /\ FileSizes \subseteq Nat
  /\ TableStarts \subseteq Int
  /\ GptHeaders \subseteq Nat
  /\ {MbrSize, GptHeaderSize, GptEntrySize, PtxtEntrySize} \subseteq Nat \ {0}
  /\ PtxtLimit \in Nat

VARIABLES
  parsed         (* the last parse: what was asked, and what it gave        *)

imageVars == <<parsed>>

Opened == [at |-> 0, failed |-> FALSE]
Seek(stream, offset) ==
  IF stream.failed \/ offset < 0 THEN [stream EXCEPT !.failed = TRUE]
  ELSE [stream EXCEPT !.at = offset]
Here(stream, count, size) ==
  IF stream.failed THEN 0 ELSE Max({0, Min({count, size - stream.at})})
Piece(stream, count, size) == [at |-> stream.at, count |-> Here(stream, count, size)]
After(stream, count, size) ==
  LET n == Here(stream, count, size)
  IN  [at |-> stream.at + n, failed |-> stream.failed \/ n < count]
Throwing(parser, asked) == parsed' = [parser |-> parser, asked |-> asked, ok |-> FALSE]
Giving(parser, asked, parts) ==
  parsed' = [parser |-> parser, asked |-> asked, ok |-> TRUE, parts |-> parts]

----------------------------------------------------------------------------
(* MbnParser.  Offsets are sums of 32 bits, kept in an int.                 *)

AsInt(n) == IF n % Word >= Word \div 2 THEN (n % Word) - Word ELSE n % Word
Segments == {"code", "signature", "x509"}
SegmentSize(h, s) == CASE s = "code" -> h.code
                       [] s = "signature" -> h.signature
                       [] s = "x509" -> h.certs
(* As Offset, of the parts one after the other but the code. *)
Offset_FromSource(h, s) ==
  AsInt(CASE s = "code" -> h.src
          [] s = "signature" -> h.src
          [] s = "x509" -> h.src + h.signature)
Offset(h, s) ==
  AsInt(CASE s = "code" -> h.src
          [] s = "signature" -> h.src + h.code
          [] s = "x509" -> h.src + h.code + h.signature)

(* readSegment: only the size is compared with the file, as what it is      *)
(* without a sign.                                                          *)
SegmentThrows(h, s, size) ==
  LET n == AsInt(SegmentSize(h, s)) IN n < 0 \/ n > size
ReadsSegment(r, h, s, asked, size) ==
  IF s \notin asked \/ ~r.ok THEN r
  ELSE IF SegmentThrows(h, s, size) THEN [r EXCEPT !.ok = FALSE]
  ELSE LET n == AsInt(SegmentSize(h, s))
           there == Seek(r.stream, Offset(h, s))
       IN  [ok |-> TRUE, parts |-> Append(r.parts, Piece(there, n, size)),
            stream |-> After(there, n, size)]
ReadsSegments(h, asked, size) ==
  LET read == [ok |-> TRUE, parts |-> <<>>,
               stream |-> After(Opened, IF h.magic THEN Header80 ELSE Header40, size)]
      code == ReadsSegment(read, h, "code", asked, size)
      signature == ReadsSegment(code, h, "signature", asked, size)
  IN  ReadsSegment(signature, h, "x509", asked, size)
ParseMbn ==
  \E h \in MbnHeaders, size \in FileSizes, asked \in SUBSET Segments :
    LET what == [header |-> h, size |-> size, segments |-> asked]
        r == ReadsSegments(h, asked, size)
    IN  IF size < MaxHeader \/ h.elf \/ (h.id > ImageLast /\ ~h.magic) \/ ~r.ok
        THEN Throwing("mbn", what)
        ELSE Giving("mbn", what, r.parts)

----------------------------------------------------------------------------
(* GptParser.  !flags & X is no more than FALSE when there are flags: the   *)
(* header is not asked for with the entries, nor the MBR passed over when   *)
(* it is not asked for.                                                     *)

Flags == {"mbr", "header", "entries"}
(* Numbers of 64 bits without a sign: those below zero are the largest. *)
Above(a, b) == IF (a < 0) = (b < 0) THEN a > b ELSE a < 0
(* The file's size is counted from start on. *)
Fewer(size, start, count) == Above(count, size - start)
Position(stream) == AsInt(IF stream.failed THEN -1 ELSE stream.at)
(* As TooFewEntries, from the beginning of the file. *)
TooFewEntries_Here(stream, n, size, start) ==
  Fewer(size, start, n * GptEntrySize)
TooFewEntries(stream, n, size, start) ==
  Fewer(size, start, Position(stream) + n * GptEntrySize)
ParseGpt ==
  \E size \in FileSizes, start \in TableStarts, flags \in SUBSET Flags, number \in GptHeaders :
    LET what == [size |-> size, start |-> start, flags |-> flags, number |-> number]
        begun == Seek(Opened, start)
        mbr == IF "mbr" \in flags THEN After(begun, MbrSize, size) ELSE begun
        head == IF "header" \in flags THEN After(mbr, GptHeaderSize, size) ELSE mbr
        n == IF "header" \in flags /\ Here(mbr, GptHeaderSize, size) = GptHeaderSize
             THEN number ELSE 0
    IN  IF \/ "mbr" \in flags /\ Fewer(size, start, MbrSize)
           \/ "header" \in flags /\ Fewer(size, start, MbrSize + GptHeaderSize)
           \/ "entries" \in flags /\ TooFewEntries(head, n, size, start)
        THEN Throwing("gpt", what)
        ELSE Giving("gpt", what,
               IF "entries" \notin flags THEN <<>>
               ELSE [i \in 1 .. n |->
                       Piece(Seek(head, head.at + (i - 1) * GptEntrySize),
                             GptEntrySize, size)])

----------------------------------------------------------------------------
(* PartitionTxtReader: up to one more entry than the limit there is.        *)

ParsePartitionTxt ==
  \E size \in FileSizes, firstLba \in 0 .. 1 :
    LET what == [size |-> size]
        n == size \div PtxtEntrySize
    IN  IF size < PtxtEntrySize \/ size % PtxtEntrySize # 0 \/ firstLba # 0
        THEN Throwing("partition.txt", what)
        ELSE Giving("partition.txt", what,
               [i \in 1 .. Min({n, PtxtLimit + 1}) |->
                  Piece(Seek(Opened, (i - 1) * PtxtEntrySize), PtxtEntrySize, size)])

----------------------------------------------------------------------------

ImageInit == parsed = [parser |-> "none", ok |-> FALSE]
(* A parser keeps nothing from one parse to the next: one is enough. *)
ImageNext ==
  /\ parsed.parser = "none"
  /\ \/ ParseMbn
     \/ ParseGpt
     \/ ParsePartitionTxt

(* An image whose parts all lie in its file is given with each of the parts *)
(* that were asked for, whole and one behind the other, whichever others    *)
(* were left out, when the file is no longer than an int can count.         *)
SegmentsFollow ==
  parsed.parser = "mbn" /\ parsed.ok =>
    LET h == parsed.asked.header
        part(s, before) ==
          IF s \in parsed.asked.segments
          THEN <<[at |-> h.src + before, count |-> SegmentSize(h, s)]>> ELSE <<>>
    IN  /\ parsed.asked.size < Word \div 2
        /\ h.src + h.code + h.signature + h.certs <= parsed.asked.size
        => parsed.parts = part("code", 0) \o part("signature", h.code)
                            \o part("x509", h.code + h.signature)

(* Where the entries begin is told in an int: up to there it is right. *)
BelowInt(start) == start + MbrSize + GptHeaderSize < Word \div 2

(* Every entry of a partition table that is returned, or of a partition.txt *)
(* file, is bytes of the file, all of them, and begins where the one before *)
(* it ends: whatever the header says and whatever parts of it are asked     *)
(* for, wherever the caller says that the table begins but for tables whose *)
(* entries begin where an int no longer tells (BelowInt).                   *)
EntriesAreWhole ==
  /\ parsed.parser \in {"gpt", "partition.txt"} /\ parsed.ok
  /\ parsed.parser = "gpt" => BelowInt(parsed.asked.start)
  =>
    \A i \in DOMAIN parsed.parts :
      /\ parsed.parts[i].count =
           (IF parsed.parser = "gpt" THEN GptEntrySize ELSE PtxtEntrySize)
      /\ parsed.parts[i].at + parsed.parts[i].count <= parsed.asked.size
      /\ i > 1 => parsed.parts[i].at = parsed.parts[i - 1].at + parsed.parts[i - 1].count
==============================================================================
